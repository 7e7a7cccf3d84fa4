------------------------------ MODULE NtpClock ------------------------------
(***************************************************************************)
(* The NTP side of airplay-timing (ntp.rs) with the conversions of         *)
(* clock.rs.  NtpTimingClient::sync sends a request and takes the first    *)
(* answer its socket yields within a second; neither the sequence number   *)
(* nor the echoed time is compared with the request, so an answer to a     *)
(* request given up before is taken for the present one.  NtpTimingServer  *)
(* is the other side: it answers whatever request it can parse until it is *)
(* told to stop.  The client's clock is now, the server's now + ahead.     *)
(*                                                                         *)
(* A second has NsPerSec nanoseconds and FracPerSec units of NTP fraction: *)
(* small numbers in the proportion of 10^9 and 2^32, where a conversion    *)
(* and its inverse lose up to one nanosecond.                              *)
(***************************************************************************)
EXTENDS Integers, Sequences

CONSTANTS MaxNow,       \* bound: ticks of the clock
          MaxRequests,  \* bound: calls of sync
          MaxQueue,     \* bound: datagrams waiting in a socket
          Ahead,        \* how far the server's clock is ahead of the client's
          NsPerSec, FracPerSec,
          Epoch,        \* NTP_EPOCH_OFFSET: seconds from 1900 to 1970
          EraSecs,      \* seconds an NTP timestamp can count (2^32)
          Start         \* the client's clock at the start

NtpAssumption ==
    /\ NsPerSec \in Nat \ {0} /\ FracPerSec \in Nat \ {0} /\ NsPerSec <= FracPerSec
    /\ Epoch \in Nat /\ EraSecs \in Nat \ {0} /\ Ahead \in Int /\ Start \in Nat
    /\ MaxNow \in Nat /\ MaxRequests \in Nat /\ MaxQueue \in Nat \ {0}
    \* Both clocks are set to 1970 or later.
    /\ Start + Ahead >= 0

VARIABLES now,        \* ticks since the start
          client,     \* "idle", "waiting" (inside sync), "stopped"
          sequence,   \* the sequence number of the next request
          requests,   \* datagrams waiting in the server's socket
          answers,    \* datagrams waiting in the client's socket
          server,     \* "running", "told" (shutdown sent), "ended"
          ntpOffset,  \* the client's [offset, error, rtt]
          synchronized

ntpVars == <<now, client, sequence, requests, answers, server, ntpOffset, synchronized>>

Local == Start + now
Remote == Start + now + Ahead

\* Both clocks are in the NTP era that ends in 2036; after it the seconds begin again
\* at 0, which ntp_to_unix takes for 1970.
InEra == \A time \in {Local, Remote} : time \div NsPerSec + Epoch < EraSecs

\* clock.rs: floor of the fraction, seconds kept in 32 bits.
unix_to_ntp(ns) ==
    [secs |-> (ns \div NsPerSec + Epoch) % EraSecs,
     frac |-> ((ns % NsPerSec) * FracPerSec) \div NsPerSec]

\* clock.rs: a time before 1970 becomes 1970.
ntp_to_unix(t) ==
    LET secs == IF t.secs >= Epoch THEN t.secs - Epoch ELSE 0
    IN  secs * NsPerSec + (t.frac * NsPerSec) \div FracPerSec

NtpTime == [secs: 0..(EraSecs - 1), frac: 0..(FracPerSec - 1)]

Request(seq) == [seq |-> seq, reference |-> unix_to_ntp(Local)]
RequestType == [seq: Nat, reference: NtpTime]

\* The answer echoes the request; receive and send time are read at once.
Answer(request) ==
    [seq |-> request.seq, reference |-> request.reference,
     receive |-> unix_to_ntp(Remote), send |-> unix_to_ntp(Remote)]
AnswerType == [seq: Nat, reference: NtpTime, receive: NtpTime, send: NtpTime]

NtpAbs(x) == IF x < 0 THEN -x ELSE x
NtpHalf(x) == IF x < 0 THEN -(NtpAbs(x) \div 2) ELSE x \div 2

round_trip_time(a, received) ==
    (ntp_to_unix(received) - ntp_to_unix(a.reference))
      - (ntp_to_unix(a.send) - ntp_to_unix(a.receive))

\* Positive when the server is ahead.
clock_offset(a, received) ==
    NtpHalf((ntp_to_unix(a.receive) - ntp_to_unix(a.reference))
             + (ntp_to_unix(a.send) - ntp_to_unix(received)))

-----------------------------------------------------------------------------
NtpInit ==
    /\ now = 0
    /\ client = "idle"
    /\ sequence = 0
    /\ requests = <<>> /\ answers = <<>>
    /\ server = "running"
    /\ ntpOffset = [offset |-> 0, error |-> 0, rtt |-> 0]
    /\ synchronized = FALSE

NtpTick ==
    /\ now < MaxNow
    /\ now' = now + 1
    /\ UNCHANGED <<client, sequence, requests, answers, server, ntpOffset, synchronized>>

Delivered(queue, m) ==
    {queue} \cup IF Len(queue) < MaxQueue THEN {Append(queue, m)} ELSE {}

\* sync: the request leaves, the sequence number is used up either way.
SyncSends ==
    /\ client = "idle" /\ sequence < MaxRequests
    /\ requests' \in Delivered(requests, Request(sequence))
    /\ sequence' = sequence + 1
    /\ client' = "waiting"
    /\ UNCHANGED <<now, answers, server, ntpOffset, synchronized>>

\* sync: the first answer in the socket, whichever request it answers.
SyncReceives ==
    /\ client = "waiting" /\ answers # <<>>
    /\ LET a   == Head(answers)
           rtt == round_trip_time(a, unix_to_ntp(Local))
       IN  ntpOffset' = [offset |-> clock_offset(a, unix_to_ntp(Local)),
                         error  |-> NtpAbs(rtt) \div 2,
                         rtt    |-> NtpAbs(rtt)]
    /\ synchronized' = TRUE
    /\ answers' = Tail(answers)
    /\ client' = "idle"
    /\ UNCHANGED <<now, sequence, requests, server>>

\* sync: a second without an answer. The loop logs it and keeps the last
\* offset, still synchronized; the answer may come yet.
SyncTimesOut ==
    /\ client = "waiting" /\ answers = <<>>
    /\ client' = "idle"
    /\ UNCHANGED <<now, sequence, requests, answers, server, ntpOffset, synchronized>>

\* stop: the socket is gone with what waited in it.
ClientStops ==
    /\ client = "idle"
    /\ client' = "stopped"
    /\ answers' = <<>>
    /\ synchronized' = FALSE
    /\ UNCHANGED <<now, sequence, requests, server, ntpOffset>>

\* start binds a new port; answers to requests of the old one do not reach it.
ClientStarts ==
    /\ client = "stopped"
    /\ client' = "idle"
    /\ requests' = <<>>
    /\ UNCHANGED <<now, sequence, answers, server, ntpOffset, synchronized>>

-----------------------------------------------------------------------------
(* NtpTimingServer.                                                        *)

ServerAnswers ==
    /\ server # "ended" /\ requests # <<>>
    /\ requests' = Tail(requests)
    /\ answers' \in IF client = "stopped" THEN {answers}
                    ELSE Delivered(answers, Answer(Head(requests)))
    /\ UNCHANGED <<now, client, sequence, server, ntpOffset, synchronized>>

\* stop: the flag is set and the task awaited; it may answer once more first.
StopServer ==
    /\ server = "running"
    /\ server' = "told"
    /\ UNCHANGED <<now, client, sequence, requests, answers, ntpOffset, synchronized>>

ServerEnds ==
    /\ server = "told"
    /\ server' = "ended"
    /\ UNCHANGED <<now, client, sequence, requests, answers, ntpOffset, synchronized>>

NtpNext ==
    \/ NtpTick
    \/ SyncSends \/ SyncReceives \/ SyncTimesOut \/ ClientStops \/ ClientStarts
    \/ ServerAnswers \/ StopServer \/ ServerEnds

-----------------------------------------------------------------------------
NtpTypeOK ==
    /\ now \in 0..MaxNow /\ client \in {"idle", "waiting", "stopped"}
    /\ sequence \in 0..MaxRequests
    /\ requests \in Seq(RequestType) /\ Len(requests) <= MaxQueue
    /\ answers \in Seq(AnswerType) /\ Len(answers) <= MaxQueue
    /\ server \in {"running", "told", "ended"} /\ synchronized \in BOOLEAN
    /\ client = "stopped" => answers = <<>> /\ ~synchronized

\* Until the era of the timestamps ends: the offset is the server's lead, off by no
\* more than the error the client reports (and two nanoseconds for the conversions and
\* the division), also when the answer taken is the late answer to an earlier request:
\* the echoed time makes the delay show in the error. After the era's end nothing is claimed.
NtpIsBracketed ==
    InEra /\ ntpOffset # [offset |-> 0, error |-> 0, rtt |-> 0]
      => NtpAbs(ntpOffset.offset - Ahead) <= ntpOffset.error + 2
=============================================================================
