----------------------------- MODULE PacketPipe -----------------------------
(***************************************************************************)
(* What the transmit path of an AudioStreamer promises, seen from outside: *)
(* packets are numbered as they are prepared, wait for their turn, and     *)
(* leave in the order of their numbers.  A packet that leaves is           *)
(* transmitted, or lost: while the sender thread is paused it throws       *)
(* packets away, and when it exits it drops all that is queued.  No packet *)
(* overtakes another, none is transmitted twice, and nothing is            *)
(* transmitted once the pipe is closed.                                    *)
(***************************************************************************)
EXTENDS Naturals, Sequences, FiniteSets

CONSTANT Capacity   \* most packets that may wait

VARIABLES
  next,       \* number of the next packet to be prepared
  waiting,    \* packets prepared and still on their way
  delivered,  \* packets transmitted, in order
  closed      \* the sender thread has exited

pipeVars == <<next, waiting, delivered, closed>>

Init == next = 0 /\ waiting = {} /\ delivered = <<>> /\ closed = FALSE

Oldest(n) == n \in waiting /\ \A m \in waiting : n <= m

\* A packet is prepared.
Prepare ==
  /\ Cardinality(waiting) < Capacity
  /\ next' = next + 1
  /\ waiting' = waiting \cup {next}
  /\ UNCHANGED <<delivered, closed>>

\* The oldest packet goes out.
Deliver ==
  /\ ~closed
  /\ \E n \in waiting : /\ Oldest(n)
                        /\ delivered' = Append(delivered, n)
                        /\ waiting' = waiting \ {n}
  /\ UNCHANGED <<next, closed>>

\* Without a sender thread a packet is prepared and goes out in one step.
PrepareAndDeliver ==
  /\ ~closed /\ waiting = {}
  /\ next' = next + 1
  /\ delivered' = Append(delivered, next)
  /\ UNCHANGED <<waiting, closed>>

\* The oldest packet is thrown away.
Lose ==
  /\ \E n \in waiting : Oldest(n) /\ waiting' = waiting \ {n}
  /\ UNCHANGED <<next, delivered, closed>>

\* The sender thread exits: the packets it could have taken are dropped, and only
\* newer ones are left.
Close ==
  /\ ~closed
  /\ closed' = TRUE
  /\ waiting' \in SUBSET waiting
  /\ \A n \in waiting \ waiting', kept \in waiting' : n < kept
  /\ UNCHANGED <<next, delivered>>

Next == Prepare \/ Deliver \/ PrepareAndDeliver \/ Lose \/ Close

\* The order, without the promise that a packet ever leaves.
Orderly == Init /\ [][Next]_pipeVars

\* No packet waits forever.
Spec == Orderly /\ WF_pipeVars(Deliver \/ Lose)
=============================================================================
