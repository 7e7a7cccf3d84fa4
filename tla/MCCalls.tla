------------------------------ MODULE MCCalls ------------------------------
(***************************************************************************)
(* The calls on a connection and the channel its requests go through, for  *)
(* one run: Connection looks at an exchange from above, as one await, and  *)
(* RtspChannel at its parts.  `part` says which of the two a behaviour is  *)
(* about, and the other stands still.                                      *)
(***************************************************************************)
EXTENDS Connection, RtspChannel

VARIABLE part

callVars == <<vars, channelVars, part>>

OnChannel(A) == part = "channel" /\ A

CallsInit == Init /\ ChannelInit /\ part \in {"session", "channel"}

CallsNext ==
  /\ UNCHANGED part
  /\ \/ part = "session" /\ Next /\ UNCHANGED channelVars
     \/ part = "channel" /\ ChannelNext /\ UNCHANGED vars

\* The fairness of ChannelFairSpec, of the behaviours that are about the channel.
CallsFairSpec ==
  /\ CallsInit /\ [][CallsNext]_callVars
  /\ WF_channelVars(OnChannel(Written)) /\ WF_channelVars(OnChannel(Answer))
  /\ WF_channelVars(OnChannel(Read)) /\ WF_channelVars(OnChannel(Fails))
=============================================================================
