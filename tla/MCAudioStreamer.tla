-------------------------- MODULE MCAudioStreamer --------------------------
(* Finite instances of AudioStreamer for TLC. *)
EXTENDS AudioStreamer

\* Every packet number the instance can prepare is handled in the end: it goes
\* out, a paused thread discards it, or the thread has exited.
PacketsHandled ==
  \A n \in 0..(FileLen + LiveFrames) :
    (prepared > n) ~> (sender = "exited" \/ n \in discarded \cup SeqsOf(wire))

\* Nothing is left standing: a stop() whose message got into the channel returns, the
\* task ends after it, and every prepared packet is handled.
AllComesToAnEnd == DeliveredStopReturns /\ TaskEndsAfterStop /\ PacketsHandled
=============================================================================
