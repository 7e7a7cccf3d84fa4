------------------------------ MODULE PtpClock ------------------------------
(***************************************************************************)
(* The PTP side of airplay-timing (ptp.rs): the four tasks that exchange   *)
(* Sync, Follow_Up, Delay_Req, Delay_Resp and Announce with receivers over *)
(* the event port (319) and the general port (320).                        *)
(*                                                                         *)
(*   "slave"   run_ptp_slave: says it is the worst clock, then follows     *)
(*   "bmca"    run_bmca_yield_flow: announces, hears the receiver's        *)
(*             Announce, yields, follows the receiver                      *)
(*   "gptp"    PtpMaster::start: answers Delay_Req and follows as well     *)
(*   "group"   run_ptp_group_master_flow: stays master of all receivers    *)
(*                                                                         *)
(* A socket is a queue; a message may be lost on the way and may wait in   *)
(* the queue for any time, and select! takes from either socket.  Clocks   *)
(* count small numbers: the local clock is now, the clock of a receiver p  *)
(* is now + Skew[p].                                                       *)
(***************************************************************************)
EXTENDS Integers, Sequences, FiniteSets, TLC

CONSTANTS Master,      \* the receiver at master_ip
          Other,       \* another receiver that uses the same ports
          None,        \* Option::None
          OwnId,       \* our clock_identity
          Zeros,       \* [0u8; 8], the clock identity before any Announce
          Skew,        \* receiver -> how far its clock is ahead of ours
          Priorities,  \* priority1 values a receiver may announce
          MaxNow,      \* bound: ticks of the clock
          MaxSyncs,    \* bound: receiver -> exchanges it starts
          MaxRounds,   \* bound: rounds of Syncs of the group master
          MaxQueue     \* bound: messages waiting in a socket

Peers == {Master, Other}

\* A clock identity as it is reported, with whose Announce named it.
ClockReport == [id: Peers \cup {OwnId, Zeros}, from: Peers \cup {None}]

ASSUME PtpAssumption ==
    /\ Master # Other
    /\ Zeros # OwnId /\ {Zeros, OwnId} \cap Peers = {} /\ None \notin {Zeros, OwnId} \cup Peers
    /\ None \notin ClockReport
    /\ Skew \in [Peers -> Int] /\ Priorities \subseteq 0..255
    /\ MaxNow \in Nat /\ MaxSyncs \in [Peers -> Nat]
    /\ MaxRounds \in Nat /\ MaxQueue \in Nat \ {0}

VARIABLES
    now,          \* the local clock
    flow,         \* which of the four tasks runs
    stage,        \* "hello" (the ports and what it says first), "wait" (for an
                  \* Announce), "loop", "ended"
    eventIn,      \* datagrams waiting in the event socket
    generalIn,    \* datagrams waiting in the general socket
    asked,        \* receiver -> our Delay_Req it has not answered yet
    told,         \* receiver -> the types of message we sent it
    t1, t2, t3,   \* the timestamps of the exchange, or None
    masterAddr,   \* PtpMaster: who sent the last Sync
    reqSeq,       \* delay_req_seq, also the sync_seq of the group master
    clockId,      \* what went down clock_id_tx, and whose Announce named it, or None
    heard,        \* peers_heard
    peerSeq,      \* receiver -> sequence ids it has used
    offset,       \* the value in the offset watch channel
    used          \* history: the messages the last offset was made of

ptpVars == <<now, flow, stage, eventIn, generalIn, asked, told, t1,
             t2, t3, masterAddr, reqSeq, clockId, heard, peerSeq, offset, used>>

\* Groups of variables that most steps leave alone.
exchange == <<t1, t2, t3, masterAddr, reqSeq>>
report   == <<clockId, heard, offset, used>>

Flows == {"slave", "bmca", "gptp", "group"}
OwnPriority == 250   \* of the BMCA flow; the Mac's value

\* A datagram that reaches us. Sync carries no time (two-step); clock is the
\* grandmaster an Announce names, which need not be its sender.
Datagram == [type: {"Sync", "FollowUp", "DelayReq", "DelayResp", "Announce"},
             seq: Nat, time: Int, src: Peers, clock: Peers]
Msg(type, seq, time, src) ==
    [type |-> type, seq |-> seq, time |-> time, src |-> src, clock |-> src]

\* The messages of one kind of sending: a Sync with its Follow_Up, an
\* Announce, an answer to a Delay_Req, the request for intervals in its two styles,
\* and the stop.
SyncPair == {"Sync", "FollowUp"}
DelayResp == {"DelayResp"}
Announce == {"Announce"}
Signaling == {"Signaling"}
MacSignaling == {"Signaling"}
StopSignaling == {"Stop"}

\* A timestamp and, as history, the message it came from.
Stamp(time, m) == [time |-> time, seq |-> m.seq, src |-> m.src]

PeerTime(p) == now + Skew[p]
ZeroOffset == [offset |-> 0, error |-> 0, rtt |-> 0]

-----------------------------------------------------------------------------
(* The offset: i128 arithmetic, division truncates towards zero.           *)

Abs(x) == IF x < 0 THEN -x ELSE x
Half(x) == IF x < 0 THEN -(Abs(x) \div 2) ELSE x \div 2

\* Mutant: the way back counted with the wrong sign.
ClockOffsetBadly(a1, a2, a3, a4) ==
    LET delay == Half((a2 - a1) - (a3 - a4))
    IN  [offset |-> Half((a2 - a1) + (a4 - a3)),
         error  |-> Abs(delay) \div 2,
         rtt    |-> Abs(delay)]

ClockOffset(a1, a2, a3, a4) ==
    LET delay == Half((a2 - a1) - (a3 - a4))
    IN  [offset |-> Half((a2 - a1) + (a3 - a4)),
         error  |-> Abs(delay) \div 2,
         rtt    |-> Abs(delay)]

\* Clock::apply_offset, as the streamer dates its packets.
apply_offset(local, o) == local + o.offset

\* Mutant: every sender is heard.
ListensToAll(m) == flow = "bmca" => m.src \in Peers

\* Which sender a flow listens to: the BMCA flow drops every datagram whose
\* source address is not master_ip, the others take all.
Listens(m) == flow = "bmca" => m.src = Master

\* An offset is complete when the three stored timestamps are there.
Complete == None \notin {t1, t2, t3}

-----------------------------------------------------------------------------
PtpInit ==
    /\ now = 0
    /\ flow \in Flows
    /\ stage = CASE flow = "gptp" -> "loop" [] OTHER -> "hello"
    /\ eventIn = <<>> /\ generalIn = <<>>
    /\ asked = [p \in Peers |-> <<>>]
    /\ told = [p \in Peers |-> {}]
    /\ t1 = None /\ t2 = None /\ t3 = None
    /\ masterAddr = None
    /\ reqSeq = 0
    /\ clockId = None
    /\ heard = 0
    /\ peerSeq = [p \in Peers |-> 0]
    /\ offset = ZeroOffset
    /\ used = None

\* Time passes for everybody.
Tick ==
    /\ now < MaxNow /\ stage # "ended"
    /\ now' = now + 1
    /\ UNCHANGED <<flow, stage, eventIn, generalIn, asked, told, exchange, peerSeq, report>>

\* Sending over UDP: the datagram arrives in the queue, or is lost.
MayArrive(queue, m) ==
    {queue} \cup IF Len(queue) < MaxQueue THEN {Append(queue, m)} ELSE {}

-----------------------------------------------------------------------------
(* The receivers. What they send before the task waits or loops stays in   *)
(* the sockets until then, so they start when it does.                     *)

\* A receiver sends Sync and Follow_Up, its clock read as the Sync left.
PeerSyncs(p) ==
    /\ flow # "group" /\ stage \in {"wait", "loop"}
    /\ peerSeq[p] < MaxSyncs[p]
    /\ LET n == peerSeq[p] + 1
       IN  /\ peerSeq' = [peerSeq EXCEPT ![p] = n]
           /\ eventIn' \in MayArrive(eventIn, Msg("Sync", n, 0, p))
           /\ generalIn' \in MayArrive(generalIn, Msg("FollowUp", n, PeerTime(p), p))
    /\ UNCHANGED <<now, flow, stage, asked, told, exchange, report>>

\* An Announce of the receiver's own clock, or of one it follows itself; its
\* priority1 stands in the place of the sequence id.
PeerAnnounces(p) ==
    /\ stage = "wait"
    /\ Len(generalIn) < MaxQueue
    /\ \E p1 \in Priorities, grandmaster \in Peers :
          generalIn' = Append(generalIn, [Msg("Announce", p1, 0, p) EXCEPT !.clock = grandmaster])
    /\ UNCHANGED <<now, flow, stage, eventIn, asked, told, exchange, peerSeq, report>>

\* A receiver that follows our clock asks for its delay.
PeerAsks(p) ==
    /\ flow \in {"gptp", "group"} /\ stage \in {"wait", "loop"}
    /\ peerSeq[p] < MaxSyncs[p]
    /\ peerSeq' = [peerSeq EXCEPT ![p] = @ + 1]
    /\ eventIn' \in MayArrive(eventIn, Msg("DelayReq", peerSeq[p] + 1, 0, p))
    /\ UNCHANGED <<now, flow, stage, generalIn, asked, told, exchange, report>>

\* A receiver answers a Delay_Req with the time it read it.
PeerAnswers(p) ==
    /\ asked[p] # <<>> /\ stage # "ended"
    /\ asked' = [asked EXCEPT ![p] = Tail(@)]
    /\ eventIn' \in MayArrive(eventIn, Msg("DelayResp", Head(asked[p]), PeerTime(p), p))
    /\ UNCHANGED <<now, flow, stage, generalIn, told, exchange, peerSeq, report>>

-----------------------------------------------------------------------------
(* Our tasks: before the loop.                                             *)

Tell(ps, types) == told' = [p \in Peers |-> IF p \in ps THEN told[p] \cup types ELSE told[p]]

\* run_ptp_slave: the handshake, an Announce of the worst clock and Signaling.
SlaveHello ==
    /\ flow = "slave" /\ stage = "hello"
    /\ Tell({Master}, Announce \cup Signaling)
    /\ stage' = "loop"
    /\ UNCHANGED <<now, flow, eventIn, generalIn, asked, exchange, peerSeq, report>>

\* The BMCA flow and the group master: three Syncs, two Announces, Signaling.
BmcaHello ==
    /\ flow = "bmca" /\ stage = "hello"
    /\ Tell({Master}, SyncPair \cup Announce \cup MacSignaling)
    /\ stage' = "wait"
    /\ UNCHANGED <<now, flow, eventIn, generalIn, asked, exchange, peerSeq, report>>

GroupHello ==
    /\ flow = "group" /\ stage = "hello"
    /\ Tell(Peers, SyncPair \cup Announce \cup MacSignaling)
    /\ stage' = "wait"
    /\ UNCHANGED <<now, flow, eventIn, generalIn, asked, exchange, peerSeq, report>>

\* A port that cannot be bound ends a task before it says anything. A send that
\* fails ends the BMCA flow and the group master in the middle of what they say
\* first, to the first receiver or a later one; the slave only logs it.
ToldBefore == {{}, {"Sync"}, SyncPair, SyncPair \cup Announce}

HelloFails ==
    /\ stage = "hello"
    /\ \/ UNCHANGED told
       \/ flow # "slave" /\ \E types \in ToldBefore : Tell({Master}, types)
       \/ /\ flow = "group"
          /\ \E types \in ToldBefore :
                told' = (Master :> SyncPair \cup Announce \cup MacSignaling) @@ (Other :> types)
    /\ stage' = "ended"
    /\ UNCHANGED <<now, flow, eventIn, generalIn, asked, exchange, peerSeq, report>>

\* While it waits, a task empties the event socket and looks at nothing there.
DrainEvent ==
    /\ stage = "wait" /\ eventIn # <<>>
    /\ eventIn' = Tail(eventIn)
    /\ UNCHANGED <<now, flow, stage, generalIn, asked, told, exchange, peerSeq, report>>

\* The end of the wait of the BMCA flow: lower priority1 wins; a loser sends
\* the stop and follows, a winner follows as well. The identity goes to setup(),
\* unless the stop could not be sent: that ends the task before it.
Decide(id, from, p1) ==
    \/ /\ clockId' = [id |-> id, from |-> from]
       /\ IF OwnPriority < p1
          THEN UNCHANGED told
          ELSE Tell({Master}, StopSignaling)
       /\ stage' = "loop"
    \/ /\ OwnPriority >= p1
       /\ stage' = "ended"
       /\ UNCHANGED <<clockId, told>>

BmcaHears ==
    /\ flow = "bmca" /\ stage = "wait" /\ generalIn # <<>>
    /\ LET m == Head(generalIn)
       IN  IF Listens(m) /\ m.type = "Announce"
           THEN Decide(m.clock, m.src, m.seq)
           ELSE UNCHANGED <<clockId, told, stage>>
    /\ generalIn' = Tail(generalIn)
    /\ UNCHANGED <<now, flow, eventIn, asked, exchange, peerSeq, heard, offset, used>>

BmcaTimesOut ==
    /\ flow = "bmca" /\ stage = "wait"
    /\ Decide(Zeros, None, 255)
    /\ UNCHANGED <<now, flow, eventIn, generalIn, asked, exchange, peerSeq, heard,
                   offset, used>>

OwnClock == [id |-> OwnId, from |-> None]

\* The group master counts Announces, not receivers, and goes on as master
\* whatever their priority is.
GroupHears ==
    /\ flow = "group" /\ stage = "wait" /\ generalIn # <<>>
    /\ heard' = heard + (IF Head(generalIn).type = "Announce" THEN 1 ELSE 0)
    /\ generalIn' = Tail(generalIn)
    /\ stage' = IF heard' >= Cardinality(Peers) THEN "loop" ELSE "wait"
    /\ clockId' = IF stage' = "loop" THEN OwnClock ELSE clockId
    /\ UNCHANGED <<now, flow, eventIn, asked, told, exchange, peerSeq, offset,
                   used>>

GroupTimesOut ==
    /\ flow = "group" /\ stage = "wait"
    /\ stage' = "loop"
    /\ clockId' = OwnClock
    /\ UNCHANGED <<now, flow, eventIn, generalIn, asked, told, exchange, peerSeq,
                   heard, offset, used>>

-----------------------------------------------------------------------------
(* Our tasks: the loop.  A step takes the first datagram of a socket.      *)

Follows == flow \in {"slave", "bmca", "gptp"}

TakesEvent(type) ==
    /\ stage = "loop" /\ eventIn # <<>>
    /\ Head(eventIn).type = type
    /\ eventIn' = Tail(eventIn)
TakesGeneral ==
    /\ stage = "loop" /\ generalIn # <<>>
    /\ generalIn' = Tail(generalIn)

\* A Sync: t2 is the time it is taken from the socket, not when it came.
HandleSync ==
    /\ TakesEvent("Sync") /\ Follows
    /\ LET m == Head(eventIn)
       IN  IF Listens(m)
           THEN /\ t2' = Stamp(now, m)
                /\ masterAddr' = IF flow = "gptp" THEN m.src ELSE masterAddr
           ELSE UNCHANGED <<t2, masterAddr>>
    /\ UNCHANGED <<now, flow, stage, generalIn, asked, told, t1, t3, reqSeq, peerSeq,
                   report>>

\* A Follow_Up: t1 is its time, and a Delay_Req goes out. PtpMaster sends it to
\* whoever sent the last Sync, the others to the receiver they follow.
HandleFollowUp ==
    /\ TakesGeneral /\ Follows
    /\ Head(generalIn).type = "FollowUp" /\ Listens(Head(generalIn))
    /\ LET m  == Head(generalIn)
           to == IF flow = "gptp" THEN masterAddr ELSE Master
       IN  /\ t1' = Stamp(m.time, m)
           /\ IF to = None
              THEN UNCHANGED <<t3, reqSeq, asked>>
              ELSE /\ reqSeq' = reqSeq + 1
                   /\ t3' = [time |-> now, seq |-> reqSeq', src |-> to]
                   /\ \E q \in MayArrive(asked[to], reqSeq') :
                          asked' = [asked EXCEPT ![to] = q]
    /\ UNCHANGED <<now, flow, stage, eventIn, told, t2, masterAddr, peerSeq, report>>

\* Anything else on the general socket is read and dropped.
DropGeneral ==
    /\ TakesGeneral
    /\ ~ (Follows /\ Head(generalIn).type = "FollowUp" /\ Listens(Head(generalIn)))
    /\ UNCHANGED <<now, flow, stage, eventIn, asked, told, exchange, peerSeq, report>>

\* A Delay_Resp ends the exchange: with all timestamps an offset goes down the
\* watch channel. PtpMaster keeps an incomplete exchange, the others clear it.
HandleDelayResp ==
    /\ TakesEvent("DelayResp") /\ Follows
    /\ LET m    == Head(eventIn)
           full == Listens(m) /\ Complete
           done == Listens(m) /\ (Complete \/ flow # "gptp")
       IN  /\ IF full
              THEN /\ offset' = ClockOffset(t1.time, t2.time, t3.time, m.time)
                   /\ used' = [t1 |-> t1, t2 |-> t2, t3 |-> t3, t4 |-> Stamp(m.time, m)]
              ELSE UNCHANGED <<offset, used>>
           /\ IF done
              THEN t1' = None /\ t2' = None /\ t3' = None
              ELSE UNCHANGED <<t1, t2, t3>>
    /\ UNCHANGED <<now, flow, stage, generalIn, asked, told, masterAddr, reqSeq,
                   peerSeq, clockId, heard>>

\* PtpMaster and the group master answer whoever asks for its delay.
HandleDelayReq ==
    /\ TakesEvent("DelayReq")
    /\ IF flow \in {"gptp", "group"}
       THEN Tell({Head(eventIn).src}, DelayResp)
       ELSE UNCHANGED told
    /\ UNCHANGED <<now, flow, stage, generalIn, asked, exchange, peerSeq, report>>

\* run_ptp_slave repeats its Announce every 250 ms; the group master sends
\* Sync and Follow_Up to every receiver every 125 ms, an Announce every 16th time.
SlaveAnnounces ==
    /\ flow = "slave" /\ stage = "loop"
    /\ Tell({Master}, Announce)
    /\ UNCHANGED <<now, flow, stage, eventIn, generalIn, asked, exchange, peerSeq, report>>

GroupSyncs ==
    /\ flow = "group" /\ stage = "loop"
    /\ reqSeq < MaxRounds
    /\ reqSeq' = reqSeq + 1
    /\ \E types \in {SyncPair, SyncPair \cup Announce} : Tell(Peers, types)
    /\ UNCHANGED <<now, flow, stage, eventIn, generalIn, asked, t1, t2, t3, masterAddr,
                   peerSeq, report>>

\* A socket error, or its owner, ends the task of PtpMaster; the other loops go on.
SocketError ==
    /\ flow = "gptp" /\ stage = "loop"
    /\ stage' = "ended"
    /\ UNCHANGED <<now, flow, eventIn, generalIn, asked, told, exchange, peerSeq, report>>

PtpNext ==
    \/ Tick
    \/ \E p \in Peers : PeerSyncs(p) \/ PeerAnnounces(p) \/ PeerAsks(p) \/ PeerAnswers(p)
    \/ SlaveHello \/ BmcaHello \/ GroupHello \/ HelloFails \/ DrainEvent
    \/ BmcaHears \/ BmcaTimesOut \/ GroupHears \/ GroupTimesOut
    \/ HandleSync \/ HandleFollowUp \/ DropGeneral \/ HandleDelayResp \/ HandleDelayReq
    \/ SlaveAnnounces \/ GroupSyncs \/ SocketError

-----------------------------------------------------------------------------
(* Properties.                                                             *)

StampOrNone == [time: Int, seq: Nat, src: Peers] \cup {None}

PtpTypeOK ==
    /\ now \in 0..MaxNow
    /\ flow \in Flows /\ stage \in {"hello", "wait", "loop", "ended"}
    /\ eventIn \in Seq(Datagram) /\ generalIn \in Seq(Datagram)
    /\ \A p \in Peers : asked[p] \in Seq(Nat) /\ peerSeq[p] \in Nat
    /\ t1 \in StampOrNone /\ t2 \in StampOrNone /\ t3 \in StampOrNone
    /\ masterAddr \in Peers \cup {None}
    /\ clockId \in ClockReport \cup {None}
    /\ (clockId # None) = (flow \in {"bmca", "group"} /\ stage = "loop")

\* The messages of the last offset are of one receiver, the Follow_Up not newer
\* than the Sync, and the Delay_Resp answers the Delay_Req t3 was taken for.
Matched ==
    /\ used # None
    /\ used.t1.src = used.t2.src /\ used.t3.src = used.t4.src /\ used.t1.src = used.t4.src
    /\ used.t1.seq <= used.t2.seq
    /\ used.t3.seq = used.t4.seq

\* What is wrong with an exchange whose messages do not belong together: by how much its
\* Sync was taken before the Follow_Up's time, its request sent after the answer's time,
\* and two receivers' clocks differ.
Over(x) == IF x > 0 THEN x ELSE 0
Early == Over((used.t1.time - Skew[used.t1.src]) - used.t2.time)
Late == Over(used.t3.time - (used.t4.time - Skew[used.t4.src]))
Apart == Abs(Skew[used.t1.src] - Skew[used.t4.src])

\* Of every exchange, whichever messages it is made of: the offset, local minus
\* receiver, is off by no more than rtt_ns (one unit for the divisions) and what is
\* wrong with the exchange. A Follow_Up of the Sync taken or of an earlier one
\* is wrong by nothing, however long it waited, and so is the answer to the last
\* Delay_Req: a wait alone shows in rtt_ns. A Follow_Up whose own Sync was lost and an
\* answer to an earlier request are not told apart by the code: they make a wrong
\* offset with a small rtt_ns, wrong by Early and Late.
PtpIsBracketed ==
    used # None =>
      /\ Abs(2 * offset.offset + Skew[used.t1.src] + Skew[used.t4.src])
           <= 2 * (offset.rtt + Early + Late) + Apart + 2
      /\ used.t1.src = used.t2.src /\ used.t1.seq <= used.t2.seq => Early = 0
      /\ used.t3.src = used.t4.src /\ used.t3.seq = used.t4.seq => Late = 0

\* clock.rs: "Offset in nanoseconds (positive = remote ahead)" and "Apply clock offset
\* to get remote time": with the offset of a matched exchange, the local time becomes
\* the receiver's, to within rtt_ns.
AppliedIsRemote ==
    Matched => Abs(apply_offset(now, offset) - PeerTime(used.t1.src)) <= offset.rtt + 1

\* The BMCA flow follows the receiver it was started for: the identity it
\* reports is one this receiver announced or, after a timeout, none, and no
\* timestamp of another receiver on the shared ports enters an offset. The group
\* master reports itself and its offset stays zero.
FollowsOneClock ==
    /\ flow = "bmca" =>
         /\ clockId # None => clockId.from = Master \/ clockId.id = Zeros
         /\ used # None => \A f \in {"t1", "t2", "t3", "t4"} : used[f].src = Master
    /\ flow = "group" => clockId \in {None, OwnClock} /\ offset = ZeroOffset
=============================================================================
