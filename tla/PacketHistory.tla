--------------------------- MODULE PacketHistory ---------------------------
(***************************************************************************)
(* RtpSender's ring of recent packets and its answers to retransmit        *)
(* requests (crates/airplay-audio/src/rtp.rs), with the control task of    *)
(* crates/airplay-client/src/connection.rs that counts them.               *)
(*                                                                         *)
(* A packet is prepared under the streamer's mutex and stored at once; it  *)
(* leaves the pipe later.  A request is handled under the same mutex.      *)
(* Requests are datagrams: one may come at any time after the receiver     *)
(* missed the packets it names, and again.                                 *)
(***************************************************************************)
EXTENDS Integers, FiniteSets

CONSTANTS
  HistSize,    \* PACKET_HISTORY_SIZE
  SeqRange,      \* 2^16, the range of the sequence number
  MaxPackets,  \* bound: packets prepared
  MaxAsked,    \* bound: packets of one request
  Faults       \* whether a datagram may fail to be sent

ASSUME HistoryAssumption ==
  /\ HistSize \in Nat \ {0} /\ SeqRange \in Nat \ {0} /\ SeqRange % HistSize = 0
  /\ MaxPackets \in Nat /\ MaxAsked \in Nat /\ Faults \in BOOLEAN

VARIABLES
  sequence,  \* RtpSender::sequence
  history,   \* RtpSender::packet_history: number and sequence of each packet
  prepared,  \* packets prepared so far; the number of the next one
  left,      \* packets that left the pipe
  request,   \* the last request handled: its packets, and how many were tried
  answer,    \* packets sent for it, each with the packet the receiver meant
  counted    \* what the control task added to rtx_fulfilled for it

historyVars == <<sequence, history, prepared, left, request, answer, counted>>

Slots == 0..(HistSize - 1)
None == [number |-> -1, seq |-> -1]
Quiet == request' = {} /\ answer' = {} /\ counted' = 0

HistoryInit ==
  /\ sequence = 0 /\ history = [s \in Slots |-> None] /\ prepared = 0
  /\ left = 0
  /\ request = {} /\ answer = {} /\ counted = 0

\* Mutant: a slot is skipped.
ShortRing(seq) == IF seq % HistSize = 0 THEN HistSize - 1 ELSE seq % HistSize

Slot(seq) == seq % HistSize

\* serialize_audio: store the packet and advance the sequence, which wraps.
Prepare ==
  /\ prepared < MaxPackets
  /\ history' = [history EXCEPT ![Slot(sequence)] = [number |-> prepared, seq |-> sequence]]
  /\ sequence' = (sequence + 1) % SeqRange
  /\ prepared' = prepared + 1
  /\ Quiet
  /\ UNCHANGED left

\* The oldest packet in the pipe goes out, or a paused thread throws it away; the
\* receiver may miss it either way.
Leave ==
  /\ left < prepared
  /\ left' = left + 1
  /\ Quiet
  /\ UNCHANGED <<sequence, history, prepared>>

\* Mutant: whatever is in the slot will do.
HoldsAny(seq) == history[Slot(seq)] # None

\* The slot is filled, with the packet of that sequence number.
Holds(seq) == history[Slot(seq)].seq = seq

SequenceOf(packet) == packet % SeqRange

\* What the ring has to send for some packets.
Answers(packets) ==
  {[meant |-> p, number |-> history[Slot(SequenceOf(p))].number] :
     p \in {q \in packets : Holds(SequenceOf(q))}}

\* The control task passes on a request for a run of packets.  The first answer
\* that cannot be sent ends it with an error, and nothing is counted.
HandleRetransmit ==
  \E first \in 0..(left - 1), count \in 1..MaxAsked, tried \in 0..MaxAsked :
    /\ first + count <= left /\ tried <= count
    /\ request' = first..(first + tried - 1)
    /\ answer' = Answers(request')
    /\ \/ tried = count /\ counted' = Cardinality(answer')
       \/ /\ Faults /\ tried < count /\ Holds(SequenceOf(first + tried))
          /\ counted' = 0
    /\ UNCHANGED <<sequence, history, prepared, left>>

HistoryNext == Prepare \/ Leave \/ HandleRetransmit

-----------------------------------------------------------------------------
(* Properties. *)

Packet == [number : Nat, seq : 0..(SeqRange - 1)]

\* The variables keep their types.
HistoryTypeOK ==
  /\ sequence \in 0..(SeqRange - 1) /\ history \in [Slots -> Packet \cup {None}]
  /\ prepared \in Nat /\ left \in 0..prepared
  /\ request \subseteq Nat /\ answer \subseteq [meant : Nat, number : Nat] /\ counted \in Nat

\* The ring holds the last HistSize packets and no other, across wrap-arounds.
RecentAreKept ==
  {history[s].number : s \in Slots} \ {-1} = {n \in 0..(prepared - 1) : n >= prepared - HistSize}

\* However late a request comes, the packet sent for one that was meant is that
\* packet, unless the sequence numbers have gone all the way round since; and one
\* that is asked for within the last HistSize is sent.
ResentIsMeant ==
  /\ \A a \in answer : a.number = a.meant \/ a.meant + SeqRange < prepared
  /\ \A p \in request : p >= prepared - HistSize => [meant |-> p, number |-> p] \in answer
=============================================================================
