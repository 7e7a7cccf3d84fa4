------------------------------- MODULE Timing -------------------------------
(***************************************************************************)
(* Clock synchronisation as a session uses it: StreamConfig names the      *)
(* protocol, PTP (PtpClock) or NTP (NtpClock), and a session runs one.     *)
(***************************************************************************)
EXTENDS PtpClock

CONSTANTS MaxRequests, Ahead, NsPerSec, FracPerSec, Epoch, EraSecs, Start

VARIABLES timing_protocol, client, sequence, requests, answers, server, ntpOffset,
          synchronized

N == INSTANCE NtpClock

ASSUME TimingAssumption == N!NtpAssumption

ntpOnly == <<client, sequence, requests, answers, server, ntpOffset, synchronized>>
ptpOnly == <<flow, stage, eventIn, generalIn, asked, told, exchange, peerSeq, report>>
vars == <<ptpVars, ntpOnly, timing_protocol>>

\* flow means nothing over NTP.
Init ==
    /\ PtpInit /\ N!NtpInit
    /\ timing_protocol \in {"Ntp", "Ptp"}
    /\ timing_protocol = "Ntp" => flow = "slave"

Next ==
    /\ \/ timing_protocol = "Ptp" /\ PtpNext /\ UNCHANGED ntpOnly
       \/ timing_protocol = "Ntp" /\ N!NtpNext /\ UNCHANGED ptpOnly
    /\ UNCHANGED timing_protocol

Spec == Init /\ [][Next]_vars

TypeOK == PtpTypeOK /\ N!NtpTypeOK /\ timing_protocol \in {"Ntp", "Ptp"}

\* An offset is true to within the delay it reports: over NTP until 2036, whichever
\* request the answer is for; over PTP when its four messages belong together. ptp.rs
\* never compares sequence ids, so they need not: then the offset may be wrong with a small
\* delay, by how far the messages run backwards and the receivers' clocks differ, and no more.
\* The sign is not the same: NTP gives remote minus local, PTP local minus remote.
OffsetIsBracketed == PtpIsBracketed /\ N!NtpIsBracketed
=============================================================================
