-------------------------- MODULE ConnectionProofs --------------------------
(***************************************************************************)
(* What holds of a Connection for any number of calls.  KeyInv carries the *)
(* argument for one stream per key: a key in use keeps the session out of  *)
(* Paired, SetupPhase1 and Ready for ever, and only Ready starts a stream. *)
(* HandleInv follows the handles: while no caller gives up, no streamer is *)
(* ever left without one.                                                  *)
(*                                                                         *)
(* Then the RTSP channel below it.  ChannelInv has the responses stand in  *)
(* the order of the requests, none torn but the first, and counts how far  *)
(* the next answer lags behind the calls.                                  *)
(***************************************************************************)
EXTENDS Connection, RtspChannel, SequenceTheorems, TLAPS

-----------------------------------------------------------------------------
(* Types. *)

\* The variables keep their types.
THEOREM TypeCorrect == Spec => []TypeOK
<1>1. Init => TypeOK
  <2>1. Init => CallTypes /\ CountTypes
    BY ConnectionAssumption
    DEF Init, CallTypes, CountTypes, SessionStates, Awaits, ConnectionAssumption
  <2>2. Init => FlagTypes
    BY Zenon DEF Init, FlagTypes
  <2> QED BY <2>1, <2>2 DEF TypeOK
<1>2. TypeOK /\ [Next]_vars => TypeOK'
  <2> SUFFICES ASSUME TypeOK, [Next]_vars PROVE TypeOK'
    BY DEF TypeOK
  <2> USE DEF Connect, Setup1Reply, Setup1Fails, Setup2Reply, Setup2Fails, RecordReply, Start,
         StartFlushReply, StreamerFails, StartVolumeReply, Pause, PauseReply, Resume, ResumeReply,
         RequestFails, Stop, StopJoined, StopReply, Exchange, ExchangeReply, Disconnect, Unstream,
         Unserve, TeardownReply, GiveUp, StreamerMoves, Next, Calls, Replies, Mishaps, vars,
         handles, Called, Ask, AskOrFail, StartServer, Fail, Kept, Dropped
  <2>1. CallTypes'
    BY DEF TypeOK, CallTypes, Awaits, SessionStates, StreamerStates, Stopped, Moves
  <2>2. CountTypes'
    <3>1. ASSUME NEW n \in Nat, NEW b PROVE n + Count(b) \in Nat
      BY DEF Count
    <3> QED BY <3>1 DEF TypeOK, CountTypes
  <2>3. FlagTypes'
    BY Zenon DEF TypeOK, FlagTypes
  <2> QED BY <2>1, <2>2, <2>3 DEF TypeOK
<1> QED BY <1>1, <1>2, PTL DEF Spec

-----------------------------------------------------------------------------
(* One stream per key. *)

KeyInv ==
  /\ keyUses \in Nat /\ keyUses <= 1
  /\ keyUses > 0 => session \in {"Playing", "Paused", "TearingDown"}
  /\ pc = "startFlush" => session = "Ready"
  /\ pc = "setup2" => session = "SetupPhase1"
  /\ pc = "startVolume" => session = "Playing" /\ keyUses = 1

LEMMA InitKey == Init => KeyInv
  BY DEF Init, KeyInv

LEMMA StepKey == KeyInv /\ [Next]_vars => KeyInv'
  <1> SUFFICES ASSUME KeyInv, [Next]_vars PROVE KeyInv'
    OBVIOUS
  <1> USE DEF KeyInv, Called, Ask, AskOrFail
  <1>1. CASE Connect
    BY <1>1 DEF Connect, Dropped
  <1>2. CASE Setup1Reply \/ Setup2Reply \/ RecordReply
    BY <1>2 DEF Setup1Reply, Setup2Reply, RecordReply
  <1>3. CASE Setup1Fails \/ Setup2Fails \/ StreamerFails
    BY <1>3 DEF Setup1Fails, Setup2Fails, StreamerFails, Fail, Kept, Dropped
  <1>4. CASE Start
    BY <1>4 DEF Start
  <1>5. CASE StartFlushReply
    BY <1>5 DEF StartFlushReply
  <1>6. CASE StartVolumeReply
    BY <1>6 DEF StartVolumeReply
  <1>7. CASE Pause \/ PauseReply \/ Resume \/ ResumeReply \/ RequestFails
    BY <1>7 DEF Pause, PauseReply, Resume, ResumeReply, RequestFails
  <1>8. CASE Stop \/ StopJoined \/ StopReply \/ Exchange \/ ExchangeReply
    BY <1>8 DEF Stop, StopJoined, StopReply, Exchange, ExchangeReply
  <1>9. CASE Disconnect \/ Unstream \/ Unserve \/ TeardownReply
    BY <1>9 DEF Disconnect, Unstream, Unserve, TeardownReply
  <1>10. CASE GiveUp
    BY <1>10 DEF GiveUp, Kept, Dropped
  <1>11. CASE StreamerMoves \/ UNCHANGED vars
    BY <1>11 DEF StreamerMoves, vars
  <1> QED BY <1>1, <1>2, <1>3, <1>4, <1>5, <1>6, <1>7, <1>8, <1>9, <1>10, <1>11
          DEF Next, Calls, Replies, Mishaps

LEMMA KeyInvariant == Spec => []KeyInv
  BY InitKey, StepKey, PTL DEF Spec

\* Two streamers never encrypt with the key of one session, whatever is called,
\* fails or is given up.
THEOREM KeyUsedOnce == Spec => []OneStreamPerKey
<1>1. KeyInv => OneStreamPerKey
  BY DEF KeyInv, OneStreamPerKey
<1> QED BY <1>1, KeyInvariant, PTL
-----------------------------------------------------------------------------
(* What the user sees is the session's state.                                *)

\* The playback state follows the session except between the start of TEARDOWN
\* and the end of disconnect(), and the streamer always: it runs only while the
\* connection shows Playing or Paused, and is stopped before that changes.
PlayInv ==
  /\ playback = "Stopped" \/ pc \in {"stopFlush", "unserving", "teardown"} => ~Running(streamer)
  /\ pc \notin {"teardown", "gone"} =>
       /\ playback = "Playing" => session = "Playing"
       /\ playback = "Paused" => session = "Paused"

LEMMA InitPlay == Init => PlayInv
  BY DEF Init, PlayInv, Running

LEMMA StepPlay == PlayInv /\ KeyInv /\ [Next]_vars => PlayInv'
  <1> SUFFICES ASSUME PlayInv, KeyInv, [Next]_vars PROVE PlayInv'
    OBVIOUS
  <1> USE DEF PlayInv, KeyInv, Running, handles, Called, Ask, AskOrFail
  <1>1. CASE Connect \/ Start
    BY <1>1 DEF Connect, Start, StartServer, Dropped
  <1>2. CASE Setup1Reply \/ Setup2Reply \/ RecordReply
    BY <1>2 DEF Setup1Reply, Setup2Reply, RecordReply
  <1>3. CASE Setup1Fails \/ Setup2Fails \/ StreamerFails
    BY <1>3 DEF Setup1Fails, Setup2Fails, StreamerFails, Fail, Kept, Dropped
  <1>4. CASE StartFlushReply \/ StartVolumeReply
    BY <1>4 DEF StartFlushReply, StartVolumeReply
  <1>5. CASE Pause \/ PauseReply \/ Resume \/ ResumeReply \/ RequestFails
    BY <1>5 DEF Pause, PauseReply, Resume, ResumeReply, RequestFails
  <1>6. CASE Stop \/ StopJoined \/ StopReply \/ Exchange \/ ExchangeReply
    BY <1>6 DEF Stop, StopJoined, StopReply, Exchange, ExchangeReply, Stopped
  <1>7. CASE Disconnect \/ Unstream \/ Unserve \/ TeardownReply
    BY <1>7 DEF Disconnect, Unstream, Unserve, TeardownReply, Stopped
  <1>8. CASE GiveUp
    BY <1>8 DEF GiveUp, Kept, Dropped
  <1>9. CASE StreamerMoves \/ UNCHANGED vars
    BY <1>9 DEF StreamerMoves, vars, Moves
  <1> QED BY <1>1, <1>2, <1>3, <1>4, <1>5, <1>6, <1>7, <1>8, <1>9 DEF Next, Calls, Replies, Mishaps

\* Whatever failed or was given up, between calls a user shown Playing or Paused has
\* a session in that state, and one shown Stopped a connection whose streamer does
\* not run.
THEOREM PlaybackFollowsSession == Spec => []PlaybackAgrees
<1>1. PlayInv => PlaybackAgrees
  BY DEF PlayInv, PlaybackAgrees
<1> QED BY <1>1, InitPlay, StepPlay, KeyInvariant, PTL DEF Spec

-----------------------------------------------------------------------------
(* Nothing follows TEARDOWN.                                                 *)

TornInv == torn => pc = "teardown" \/ ~rtsp

LEMMA InitTorn == Init => TornInv
  BY DEF Init, TornInv

\* A step keeps TornInv, and sends nothing once TEARDOWN was sent.
LEMMA StepTorn == TornInv /\ [Next]_vars => TornInv' /\ (torn => requests' = requests)
  <1> SUFFICES ASSUME TornInv, [Next]_vars PROVE TornInv' /\ (torn => requests' = requests)
    OBVIOUS
  <1> USE DEF TornInv, handles, Called, Ask, AskOrFail
  <1>1. CASE Connect \/ Start
    BY <1>1 DEF Connect, Start, StartServer, Dropped
  <1>2. CASE Setup1Reply \/ Setup2Reply \/ RecordReply
    BY <1>2 DEF Setup1Reply, Setup2Reply, RecordReply
  <1>3. CASE Setup1Fails \/ Setup2Fails \/ StreamerFails
    BY <1>3 DEF Setup1Fails, Setup2Fails, StreamerFails, Fail, Kept, Dropped
  <1>4. CASE StartFlushReply \/ StartVolumeReply
    BY <1>4 DEF StartFlushReply, StartVolumeReply
  <1>5. CASE Pause \/ PauseReply \/ Resume \/ ResumeReply \/ RequestFails
    BY <1>5 DEF Pause, PauseReply, Resume, ResumeReply, RequestFails
  <1>6. CASE Stop \/ StopJoined \/ StopReply \/ Exchange \/ ExchangeReply
    BY <1>6 DEF Stop, StopJoined, StopReply, Exchange, ExchangeReply, Stopped
  <1>7. CASE Disconnect \/ Unstream \/ Unserve \/ TeardownReply
    BY <1>7 DEF Disconnect, Unstream, Unserve, TeardownReply, Stopped
  <1>8. CASE GiveUp
    BY <1>8 DEF GiveUp, Kept, Dropped
  <1>9. CASE StreamerMoves \/ UNCHANGED vars
    BY <1>9 DEF StreamerMoves, vars, Moves
  <1> QED BY <1>1, <1>2, <1>3, <1>4, <1>5, <1>6, <1>7, <1>8, <1>9 DEF Next, Calls, Replies, Mishaps

\* Nothing is sent to the receiver after TEARDOWN.
THEOREM TeardownEndsRequests == Spec => TeardownIsLast
<1>1. TornInv /\ [Next]_vars => [torn => requests' = requests]_vars
  BY StepTorn
<1>2. TornInv /\ [Next]_vars => TornInv'
  BY StepTorn
<1> QED BY <1>1, <1>2, InitTorn, PTL DEF Spec, TeardownIsLast

-----------------------------------------------------------------------------
(* What becomes of the streamer and of the control task.                     *)

\* A started streamer sits in one of the two handles: in the local one only while
\* the volume is sent, when the connection has none yet.  The control task is
\* spawned after that.  disconnect() empties the handle before it tears down.
HandleInv ==
  /\ keyUses = 0 => streamer = "none"
  /\ fresh # "none" => pc = "startVolume"
  /\ pc = "startVolume" => streamer = "none" /\ listeners = 0
  /\ listeners \in Nat /\ listeners <= keyUses
  /\ session = "TearingDown" \/ pc = "unserving" => ~Running(streamer)
  /\ session = "TearingDown" => pc = "teardown" \/ ~rtsp

LEMMA InitHandle == Init => HandleInv
  BY DEF Init, HandleInv, Running

LEMMA StepHandle == HandleInv /\ KeyInv /\ [Next]_vars => HandleInv'
  <1> SUFFICES ASSUME HandleInv, KeyInv, [Next]_vars PROVE HandleInv'
    OBVIOUS
  <1> USE DEF HandleInv, KeyInv, Running, Count, handles, Called, Ask, AskOrFail
  <1>1. CASE Connect \/ Start
    BY <1>1 DEF Connect, Start, StartServer, Dropped
  <1>2. CASE Setup1Reply \/ Setup2Reply \/ RecordReply
    BY <1>2 DEF Setup1Reply, Setup2Reply, RecordReply
  <1>3. CASE Setup1Fails \/ Setup2Fails \/ StreamerFails
    BY <1>3 DEF Setup1Fails, Setup2Fails, StreamerFails, Fail, Kept, Dropped
  <1>4. CASE StartFlushReply
    BY <1>4 DEF StartFlushReply
  <1>5. CASE StartVolumeReply
    BY <1>5 DEF StartVolumeReply
  <1>6. CASE Pause \/ PauseReply \/ Resume \/ ResumeReply \/ RequestFails
    BY <1>6 DEF Pause, PauseReply, Resume, ResumeReply, RequestFails
  <1>7. CASE Stop \/ StopJoined \/ StopReply \/ Exchange \/ ExchangeReply
    BY <1>7 DEF Stop, StopJoined, StopReply, Exchange, ExchangeReply, Stopped
  <1>8. CASE Disconnect \/ Unstream \/ Unserve \/ TeardownReply
    BY <1>8 DEF Disconnect, Unstream, Unserve, TeardownReply, Stopped
  <1>9. CASE GiveUp
    BY <1>9 DEF GiveUp, Kept, Dropped
  <1>10. CASE StreamerMoves \/ UNCHANGED vars
    BY <1>10 DEF StreamerMoves, vars, Moves
  <1> QED BY <1>1, <1>2, <1>3, <1>4, <1>5, <1>6, <1>7, <1>8, <1>9, <1>10
          DEF Next, Calls, Replies, Mishaps

LEMMA HandleInvariant == Spec => [](HandleInv /\ KeyInv)
<1>1. Init => HandleInv /\ KeyInv
  BY InitHandle, InitKey
<1>2. HandleInv /\ KeyInv /\ [Next]_vars => (HandleInv /\ KeyInv)'
  BY StepHandle, StepKey
<1> QED BY <1>1, <1>2, PTL DEF Spec

\* Once disconnect() has returned, the connection's streamer has stopped and its
\* stream is closed.
THEOREM DisconnectClosesAll == Spec => []DisconnectCloses
<1>1. HandleInv => DisconnectCloses
  BY DEF HandleInv, DisconnectCloses, Disconnected
<1> QED BY <1>1, HandleInvariant, PTL

\* At most one control task polls for a connection.
THEOREM ListenersDoNotPileUp == Spec => []OneListener
<1>1. HandleInv /\ KeyInv => OneListener
  BY DEF HandleInv, KeyInv, OneListener
<1> QED BY <1>1, HandleInvariant, PTL

\* The count of streamers without a handle grows in no other way than these two.
LEMMA StepOrphans ==
  TypeOK /\ HandleInv /\ [Next]_vars => (strays' > strays => pc' = "gone" \/ GiveUp)
  <1> SUFFICES ASSUME TypeOK, HandleInv, [Next]_vars, strays' > strays, ~GiveUp
               PROVE  pc' = "gone"
    OBVIOUS
  <1>a. strays \in Nat /\ ~(strays > strays)
    BY DEF TypeOK, CountTypes
  <1> USE DEF HandleInv, Running, Count, handles
  <1>1. CASE Connect \/ Start
    BY <1>a, <1>1 DEF Connect, Start, Dropped
  <1>2. CASE Setup1Reply \/ Setup2Reply \/ RecordReply
    BY <1>a, <1>2 DEF Setup1Reply, Setup2Reply, RecordReply
  <1>3. CASE Setup1Fails \/ Setup2Fails \/ StreamerFails
    BY <1>a, <1>3 DEF Setup1Fails, Setup2Fails, StreamerFails, Fail, Kept, Dropped
  <1>4. CASE StartFlushReply \/ StartVolumeReply
    BY <1>a, <1>4 DEF StartFlushReply, StartVolumeReply
  <1>5. CASE Pause \/ PauseReply \/ Resume \/ ResumeReply \/ RequestFails
    BY <1>a, <1>5 DEF Pause, PauseReply, Resume, ResumeReply, RequestFails
  <1>6. CASE Stop \/ StopJoined \/ StopReply \/ Exchange \/ ExchangeReply
    BY <1>a, <1>6 DEF Stop, StopJoined, StopReply, Exchange, ExchangeReply
  <1>7. CASE Disconnect \/ Unstream \/ Unserve \/ TeardownReply
    BY <1>a, <1>7 DEF Disconnect, Unstream, Unserve, TeardownReply
  <1>8. CASE StreamerMoves \/ UNCHANGED vars
    BY <1>a, <1>8 DEF StreamerMoves, vars
  <1> QED BY <1>1, <1>2, <1>3, <1>4, <1>5, <1>6, <1>7, <1>8 DEF Next, Calls, Replies, Mishaps

\* A running streamer loses its last handle only with the connection, or because a
\* caller gave up.  OrphanStream shows that the second case occurs.
THEOREM OrphansOnlyByGivingUp == Spec => OrphansAreGivenUp
<1>1. TypeOK /\ HandleInv /\ [Next]_vars => [strays' > strays => pc' = "gone" \/ GiveUp]_vars
  BY StepOrphans
<1> QED BY <1>1, TypeCorrect, HandleInvariant, PTL DEF Spec, OrphansAreGivenUp

-----------------------------------------------------------------------------
(* The channel that a connection's requests go through.  It shares no        *)
(* variable with the connection and is taken by itself.                      *)

\* The parts a call has read and those on the socket.
Line == partial \o inbound

ChannelType ==
  /\ cseq \in Nat /\ givenUp \in Nat
  /\ partial \in Seq(Part) /\ inbound \in Seq(Part) /\ outbound \in Seq(Nat)
  /\ answers \in Seq([request : Nat, response : Nat, secure : BOOLEAN])
  /\ encrypted \in BOOLEAN /\ skewed \in BOOLEAN /\ alive \in BOOLEAN

\* A part says where the parts of its response are, and none is missing behind it.
Blocks(s) ==
  \A q \in 1 .. Len(s) :
    /\ s[q].part \in 1 .. s[q].of /\ q + s[q].of <= Len(s) + s[q].part
    /\ \A r \in 1 .. Len(s) :
         q < s[q].part + r /\ s[q].part + r <= s[q].of + q =>
           s[r].cseq = s[q].cseq /\ s[r].of = s[q].of /\ s[r].part + q = s[q].part + r

\* A response begins behind all those to earlier requests.
HeadsRise(s) == \A i, j \in 1 .. Len(s) : i < j /\ s[j].part = 1 => s[i].cseq < s[j].cseq

Rises(s) == \A i, j \in 1 .. Len(s) : i < j => s[i] < s[j]

\* t is s without its first d elements.
Suffix(t, s, d) ==
  /\ d \in 0 .. Len(s) /\ Len(t) = Len(s) - d
  /\ \A i \in 1 .. Len(t) : t[i] = s[i + d]

LEMMA SuffixKeeps ==
  ASSUME NEW s \in Seq(Part), NEW t \in Seq(Part), NEW d, Suffix(t, s, d),
         Blocks(s), HeadsRise(s)
  PROVE  Blocks(t) /\ HeadsRise(t)
<1>1. \A i \in 1 .. Len(t) : /\ t[i] = s[i + d] /\ i + d \in 1 .. Len(s)
                             /\ s[i + d] \in Part
  BY DEF Suffix
<1>2. Len(s) \in Nat /\ Len(t) \in Nat /\ d \in Nat /\ Len(t) = Len(s) - d
  BY DEF Suffix
<1>3. ASSUME NEW q \in 1 .. Len(t)
      PROVE  /\ t[q].part \in 1 .. t[q].of /\ q + t[q].of <= Len(t) + t[q].part
             /\ \A r \in 1 .. Len(t) :
                  q < t[q].part + r /\ t[q].part + r <= t[q].of + q =>
                    t[r].cseq = t[q].cseq /\ t[r].of = t[q].of /\ t[r].part + q = t[q].part + r
  <2>1. /\ s[q + d].part \in 1 .. s[q + d].of /\ (q + d) + s[q + d].of <= Len(s) + s[q + d].part
        /\ \A r \in 1 .. Len(s) :
             q + d < s[q + d].part + r /\ s[q + d].part + r <= s[q + d].of + (q + d) =>
               /\ s[r].cseq = s[q + d].cseq /\ s[r].of = s[q + d].of
               /\ s[r].part + (q + d) = s[q + d].part + r
    BY <1>1 DEF Blocks
  <2>2. s[q + d].part \in Nat /\ s[q + d].of \in Nat
    BY <1>1 DEF Part
  <2>3. t[q].part \in 1 .. t[q].of /\ q + t[q].of <= Len(t) + t[q].part
    BY <1>1, <1>2, <2>1, <2>2
  <2>4. ASSUME NEW r \in 1 .. Len(t), q < t[q].part + r, t[q].part + r <= t[q].of + q
        PROVE  t[r].cseq = t[q].cseq /\ t[r].of = t[q].of /\ t[r].part + q = t[q].part + r
    <3>1. s[r + d].part \in Nat /\ r + d \in 1 .. Len(s) /\ t[r] = s[r + d] /\ t[q] = s[q + d]
      <4>1. s[r + d] \in Part /\ r + d \in 1 .. Len(s) /\ t[r] = s[r + d] /\ t[q] = s[q + d]
        BY ONLY <1>1, r \in 1 .. Len(t), q \in 1 .. Len(t)
      <4> QED BY ONLY <4>1 DEF Part
    <3>2. q + d < s[q + d].part + (r + d) /\ s[q + d].part + (r + d) <= s[q + d].of + (q + d)
      <4>1. /\ q < s[q + d].part + r /\ s[q + d].part + r <= s[q + d].of + q
            /\ q \in Nat /\ r \in Nat /\ d \in Nat
        BY <1>2, <2>4, <3>1
      <4> DEFINE a == s[q + d].part
                 b == s[q + d].of
      <4>2. /\ q < a + r /\ a + r <= b + q /\ a \in Nat /\ b \in Nat
            /\ q \in Nat /\ r \in Nat /\ d \in Nat
        BY ONLY <2>2, <4>1
      <4> HIDE DEF a, b
      <4>3. q + d < a + (r + d) /\ a + (r + d) <= b + (q + d)
        BY ONLY <4>2
      <4> QED BY ONLY <4>3 DEF a, b
    <3>3. /\ s[r + d].cseq = s[q + d].cseq /\ s[r + d].of = s[q + d].of
          /\ s[r + d].part + (q + d) = s[q + d].part + (r + d)
      BY <2>1, <3>1, <3>2
    <3>4. t[r].part \in Nat /\ t[q].part \in Nat /\ t[r].part + (q + d) = t[q].part + (r + d)
      BY <2>2, <3>1, <3>3
    <3>5. q \in Nat /\ r \in Nat /\ d \in Nat
      BY <1>2
    <3>6. t[r].part + q = t[q].part + r
      <4> DEFINE a == t[r].part
                 b == t[q].part
      <4>1. a \in Nat /\ b \in Nat /\ a + (q + d) = b + (r + d)
        BY <3>4
      <4> HIDE DEF a, b
      <4>2. a + q = b + r
        BY ONLY <3>5, <4>1
      <4> QED BY <4>2 DEF a, b
    <3> QED BY <3>1, <3>3, <3>6
  <2> QED BY <2>3, <2>4
<1>4. ASSUME NEW i \in 1 .. Len(t), NEW j \in 1 .. Len(t), i < j, t[j].part = 1
      PROVE  t[i].cseq < t[j].cseq
  <2>1. i + d \in 1 .. Len(s) /\ j + d \in 1 .. Len(s) /\ t[i] = s[i + d] /\ t[j] = s[j + d]
    BY ONLY <1>1, i \in 1 .. Len(t), j \in 1 .. Len(t)
  <2>2. i + d < j + d
    BY ONLY <1>2, <1>4, i \in 1 .. Len(t), j \in 1 .. Len(t)
  <2>3. s[i + d].cseq < s[j + d].cseq
    BY ONLY <1>4, <2>1, <2>2, HeadsRise(s) DEF HeadsRise
  <2> QED BY ONLY <2>1, <2>3
<1>5. HeadsRise(t)
  BY ONLY <1>4 DEF HeadsRise
<1> QED BY <1>3, <1>5 DEF Blocks

\* A response joins the line at its end, behind all earlier ones.
LEMMA ResponseJoins ==
  ASSUME NEW s \in Seq(Part), NEW n \in Nat, NEW parts \in Nat, NEW t \in Seq(Part),
         Blocks(s), HeadsRise(s), \A i \in 1 .. Len(s) : s[i].cseq < n,
         t = s \o Response(n, parts)
  PROVE  Blocks(t) /\ HeadsRise(t)
<1>1. /\ Len(t) = Len(s) + parts /\ Len(s) \in Nat
      /\ \A i \in 1 .. Len(s) : t[i] = s[i] /\ s[i] \in Part
      /\ \A i \in 1 .. parts : t[Len(s) + i] = [cseq |-> n, part |-> i, of |-> parts]
  BY DEF Response
<1>2. \A i \in 1 .. Len(t) : i > Len(s) => i - Len(s) \in 1 .. parts /\ i = Len(s) + (i - Len(s))
  BY <1>1
<1>3. \A i \in 1 .. Len(t) : i > Len(s) => t[i].cseq = n /\ t[i].part = i - Len(s) /\ t[i].of = parts
  <2> SUFFICES ASSUME NEW i \in 1 .. Len(t), i > Len(s)
               PROVE  t[i].cseq = n /\ t[i].part = i - Len(s) /\ t[i].of = parts
    OBVIOUS
  <2>1. t[Len(s) + (i - Len(s))] = [cseq |-> n, part |-> i - Len(s), of |-> parts]
    BY <1>1, <1>2
  <2>2. t[i] = [cseq |-> n, part |-> i - Len(s), of |-> parts]
    BY <1>2, <2>1
  <2> QED BY <2>2
<1>4. \A i \in 1 .. Len(t) : i <= Len(s) =>
        i \in 1 .. Len(s) /\ t[i] = s[i] /\ s[i].cseq \in Nat /\ s[i].part \in Nat /\ s[i].of \in Nat
  BY <1>1 DEF Part
<1>5. ASSUME NEW q \in 1 .. Len(t)
      PROVE  /\ t[q].part \in 1 .. t[q].of /\ q + t[q].of <= Len(t) + t[q].part
             /\ \A r \in 1 .. Len(t) :
                  q < t[q].part + r /\ t[q].part + r <= t[q].of + q =>
                    t[r].cseq = t[q].cseq /\ t[r].of = t[q].of /\ t[r].part + q = t[q].part + r
  <2>1. CASE q > Len(s)
    <3>1. t[q].cseq = n /\ t[q].part = q - Len(s) /\ t[q].of = parts
      BY <1>3, <2>1
    <3>2. t[q].part \in 1 .. t[q].of /\ q + t[q].of <= Len(t) + t[q].part
      BY <1>1, <2>1, <3>1
    <3>3. ASSUME NEW r \in 1 .. Len(t), q < t[q].part + r
          PROVE  t[r].cseq = t[q].cseq /\ t[r].of = t[q].of /\ t[r].part + q = t[q].part + r
      <4>1. r > Len(s)
        BY <1>1, <3>1, <3>3
      <4>2. t[r].cseq = n /\ t[r].part = r - Len(s) /\ t[r].of = parts
        BY <1>3, <4>1
      <4> QED BY <1>1, <3>1, <4>2
    <3> QED BY <3>2, <3>3
  <2>2. CASE q <= Len(s)
    <3>1. t[q] = s[q] /\ s[q].part \in Nat /\ s[q].of \in Nat /\ q \in 1 .. Len(s)
      BY <1>4, <2>2
    <3>2. s[q].part \in 1 .. s[q].of /\ q + s[q].of <= Len(s) + s[q].part
      BY <3>1 DEF Blocks
    <3>3. ASSUME NEW r \in 1 .. Len(t), q < t[q].part + r, t[q].part + r <= t[q].of + q
          PROVE  t[r].cseq = t[q].cseq /\ t[r].of = t[q].of /\ t[r].part + q = t[q].part + r
      <4>1. r <= Len(s)
        BY <1>1, <3>1, <3>2, <3>3
      <4>2. r \in 1 .. Len(s) /\ t[r] = s[r]
        BY <1>4, <4>1
      <4>3. s[r].cseq = s[q].cseq /\ s[r].of = s[q].of /\ s[r].part + q = s[q].part + r
        BY <3>1, <3>3, <4>2 DEF Blocks
      <4> QED BY <3>1, <4>2, <4>3
    <3>4. t[q].part \in 1 .. t[q].of /\ q + t[q].of <= Len(t) + t[q].part
      BY <1>1, <3>1, <3>2
    <3> QED BY <3>3, <3>4
  <2> QED BY <1>1, <2>1, <2>2
<1>6. HeadsRise(t)
  <2> SUFFICES ASSUME NEW i \in 1 .. Len(t), NEW j \in 1 .. Len(t), i < j, t[j].part = 1
               PROVE  t[i].cseq < t[j].cseq
    BY DEF HeadsRise
  <2>1. CASE j <= Len(s)
    BY <1>1, <1>4, <2>1 DEF HeadsRise
  <2>2. CASE j > Len(s)
    <3>1. i <= Len(s)
      BY <1>1, <1>3, <2>2
    <3> QED BY <1>3, <1>4, <2>2, <3>1
  <2> QED BY <1>1, <2>1, <2>2
<1> QED BY <1>5, <1>6 DEF Blocks

\* Behind a whole response that was read to its end, a new one begins.
LEMMA BeginsAnew ==
  ASSUME NEW s \in Seq(Part), Blocks(s), NEW m \in 1 .. Len(s), m < Len(s),
         NEW i \in 1 .. m, s[i].part = 1, i + s[i].of = m + 1
  PROVE  s[m + 1].part = 1
<1> SUFFICES ASSUME s[m + 1].part # 1 PROVE FALSE
  OBVIOUS
<1>1. /\ Len(s) \in Nat /\ m + 1 \in 1 .. Len(s) /\ i \in 1 .. Len(s) /\ i \in 1 .. m
      /\ s[m + 1].part \in Nat /\ s[m + 1].of \in Nat
      /\ s[m].part \in Nat /\ s[m].of \in Nat /\ s[i].part \in Nat /\ s[i].of \in Nat
  <2>1. Len(s) \in Nat /\ m + 1 \in 1 .. Len(s) /\ i \in 1 .. Len(s)
    OBVIOUS
  <2>2. s[m + 1] \in Part /\ s[m] \in Part /\ s[i] \in Part
    BY <2>1
  <2> QED BY <2>1, <2>2 DEF Part
<1>2. s[m + 1].part \in 1 .. s[m + 1].of
  BY <1>1 DEF Blocks
<1>3. s[m].part + (m + 1) = s[m + 1].part + m /\ s[m].of = s[m + 1].of
  <2>1. m + 1 < s[m + 1].part + m /\ s[m + 1].part + m <= s[m + 1].of + (m + 1)
    BY <1>1, <1>2
  <2> QED BY <1>1, <2>1 DEF Blocks
<1>4. s[m].part + i = 1 + m /\ s[m].of = s[i].of
  <2>1. i < s[i].part + m /\ s[i].part + m <= s[i].of + i
    BY <1>1
  <2> QED BY <1>1, <2>1 DEF Blocks
<1> DEFINE a == s[m + 1].part
           b == s[m + 1].of
           p == s[m].part
           w == s[i].of
<1>5. /\ a \in 1 .. b /\ a \in Nat /\ b \in Nat /\ p \in Nat /\ w \in Nat /\ w = b
      /\ p + (m + 1) = a + m /\ p + i = 1 + m /\ i + w = m + 1
  BY <1>1, <1>2, <1>3, <1>4
<1> HIDE DEF a, b, p, w
<1>6. m \in Nat /\ i \in Nat
  BY <1>1
<1> QED BY ONLY <1>5, <1>6

\* Nor is there the rest of one when the line began with a beginning and holds one only.
LEMMA OneIsWhole ==
  ASSUME NEW s \in Seq(Part), Blocks(s), HeadsRise(s), NEW m \in 1 .. Len(s), m < Len(s),
         NEW i \in 1 .. m, s[i].part = 1, i + s[i].of <= m + 1, s[1].part = 1,
         \A h \in 1 .. Len(s) : s[h].part = 1 => s[h].cseq = s[i].cseq
  PROVE  s[m + 1].part = 1
<1> SUFFICES ASSUME s[m + 1].part # 1 PROVE FALSE
  OBVIOUS
<1> DEFINE q == m + 1
           p == s[q].part
<1>0. Len(s) \in Nat /\ q \in 1 .. Len(s) /\ i \in 1 .. Len(s) /\ 1 \in 1 .. Len(s) /\ i < q
  OBVIOUS
<1>1. \A r \in 1 .. Len(s) : s[r].part \in Nat /\ s[r].of \in Nat /\ s[r].cseq \in Nat
  <2>1. \A r \in 1 .. Len(s) : s[r] \in Part
    OBVIOUS
  <2> QED BY <2>1 DEF Part
<1>2. p \in 1 .. s[q].of /\ p # 1
  BY <1>0, <1>1 DEF Blocks
<1>3. \A r \in 1 .. Len(s) : q < p + r /\ p + r <= s[q].of + q =>
        s[r].of = s[q].of /\ s[r].part + q = p + r
  BY <1>0, <1>1 DEF Blocks
<1>4. i + s[i].of <= q
  OBVIOUS
<1> HIDE DEF q, p
<1>5. p \in Nat /\ q \in Nat /\ s[q].of \in Nat /\ i \in Nat
  BY <1>0, <1>1, <1>2
<1>6. CASE q < p
  <2>1. q < p + 1 /\ p + 1 <= s[q].of + q
    BY <1>0, <1>1, <1>2, <1>5, <1>6
  <2>2. s[1].part + q = p + 1
    BY <1>0, <1>3, <2>1
  <2> QED BY <1>5, <1>6, <2>2
<1>7. CASE p <= q
  <2> DEFINE h == q - p + 1
  <2>1. h \in 1 .. Len(s) /\ q < p + h /\ p + h <= s[q].of + q /\ p + h = q + 1
    BY <1>0, <1>1, <1>2, <1>5, <1>7
  <2> HIDE DEF h
  <2>2. s[h].of = s[q].of /\ s[h].part + q = p + h /\ s[h].part \in Nat
    BY <1>1, <1>3, <2>1
  <2>3. s[h].part = 1
    BY <1>5, <2>1, <2>2
  <2>4. h = i
    <3>1. s[h].cseq = s[i].cseq /\ s[i].cseq \in Nat
      BY <1>0, <1>1, <2>1, <2>3
    <3>2. ~(h < i) /\ ~(i < h)
      BY <1>0, <2>1, <2>3, <3>1 DEF HeadsRise
    <3> QED BY <1>0, <2>1, <3>2
  <2> QED BY <1>2, <1>4, <1>5, <2>1, <2>2, <2>4
<1> QED BY <1>5, <1>6, <1>7

\* Where the call is, and what it can hold there.
PhaseInv ==
  /\ phase \in {"idle", "writing", "length", "block", "plain"}
  /\ phase \in {"idle", "writing"} => partial = <<>>
  /\ phase \in {"length", "block"} => encrypted = TRUE /\ ~(CompleteAt(partial) > 0)
  /\ phase = "plain" => encrypted = FALSE
  /\ phase = "block" => inbound # <<>>
  /\ skewed = TRUE => encrypted = TRUE /\ givenUp > 0
  /\ alive = FALSE => outbound = <<>>

\* Responses stand in the line in the order of their requests, ahead of those to come.
OrderInv ==
  /\ Blocks(Line) /\ HeadsRise(Line) /\ Rises(outbound)
  /\ \A i \in 1 .. Len(Line) : Line[i].cseq <= cseq /\ (phase = "writing" => Line[i].cseq < cseq)
  /\ \A j \in 1 .. Len(outbound) : outbound[j] <= cseq /\ (phase = "writing" => outbound[j] < cseq)
  /\ \A i \in 1 .. Len(Line), j \in 1 .. Len(outbound) : Line[i].cseq < outbound[j]

\* What was returned was behind nothing that is still to come.
AnswerInv ==
  /\ \A i, j \in 1 .. Len(answers) : i < j => answers[i].response < answers[j].response
  /\ \A k \in 1 .. Len(answers) :
       /\ answers[k].response <= answers[k].request /\ answers[k].request <= cseq
       /\ phase = "writing" => answers[k].response < cseq
       /\ answers[k].secure = TRUE \/ givenUp = 0 => answers[k].request <= answers[k].response + givenUp
       /\ \A i \in 1 .. Len(Line) : Line[i].part = 1 => answers[k].response < Line[i].cseq
       /\ \A j \in 1 .. Len(outbound) : answers[k].response < outbound[j]

\* The line begins with the rest of a response.
Rest == Line # <<>> /\ Line[1].part # 1

\* How far the next answer lags behind the calls: by one request for each call given up, of
\* which the call in progress uses one up when it ends, and so does the rest of a response.
Behind == (IF phase = "idle" THEN 1 ELSE 0) + (IF Rest THEN 1 ELSE 0)
Counted == givenUp = 0 \/ (encrypted = TRUE /\ skewed = FALSE)

LagInv ==
  Counted =>
    /\ Rest => givenUp > 0
    /\ \A i \in 1 .. Len(Line) : Line[i].part = 1 => cseq + Behind <= Line[i].cseq + givenUp
    /\ \A j \in 1 .. Len(outbound) : cseq + Behind <= outbound[j] + givenUp

ChannelInv == ChannelType /\ PhaseInv /\ OrderInv /\ AnswerInv /\ LagInv

LEMMA Joined ==
  ASSUME NEW S, NEW p \in Seq(S), NEW s \in Seq(S)
  PROVE  /\ p \o s \in Seq(S) /\ Len(p \o s) = Len(p) + Len(s)
         /\ \A i \in 1 .. Len(p) : (p \o s)[i] = p[i]
         /\ \A i \in 1 .. Len(s) : (p \o s)[Len(p) + i] = s[i]
<1>1. p \o s \in Seq(S) /\ Len(p \o s) = Len(p) + Len(s)
  OBVIOUS
<1>2. \A i \in 1 .. Len(p) : (p \o s)[i] = p[i]
  OBVIOUS
<1>3. \A i \in 1 .. Len(s) : (p \o s)[Len(p) + i] = s[i]
  OBVIOUS
<1> QED BY <1>1, <1>2, <1>3

LEMMA LineIs ==
  ASSUME ChannelType
  PROVE  /\ Line \in Seq(Part) /\ Len(Line) = Len(partial) + Len(inbound)
         /\ Len(Line) \in Nat /\ Len(partial) \in Nat /\ Len(inbound) \in Nat
         /\ \A i \in 1 .. Len(partial) : Line[i] = partial[i]
         /\ \A i \in 1 .. Len(inbound) : Line[Len(partial) + i] = inbound[i]
         /\ \A i \in 1 .. Len(Line) : Line[i].cseq \in Nat /\ Line[i].part \in Nat /\ Line[i].of \in Nat
         /\ \A k \in 1 .. Len(answers) : /\ answers[k].response \in Nat /\ answers[k].request \in Nat
                                         /\ answers[k].secure \in BOOLEAN
         /\ \A j \in 1 .. Len(outbound) : outbound[j] \in Nat
<1>1. partial \in Seq(Part) /\ inbound \in Seq(Part)
  BY DEF ChannelType
<1>2. /\ Line \in Seq(Part) /\ Len(Line) = Len(partial) + Len(inbound)
      /\ Len(Line) \in Nat /\ Len(partial) \in Nat /\ Len(inbound) \in Nat
  BY <1>1 DEF Line
<1>3. \A i \in 1 .. Len(partial) : Line[i] = partial[i]
  BY <1>1 DEF Line
<1>4. \A i \in 1 .. Len(inbound) : Line[Len(partial) + i] = inbound[i]
  BY <1>1 DEF Line
<1>5. \A i \in 1 .. Len(Line) : Line[i] \in Part
  BY <1>2
<1>6. \A i \in 1 .. Len(Line) : Line[i].cseq \in Nat /\ Line[i].part \in Nat /\ Line[i].of \in Nat
  BY <1>5 DEF Part
<1>7. \A k \in 1 .. Len(answers) : answers[k] \in [request : Nat, response : Nat, secure : BOOLEAN]
  <2> DEFINE R == [request : Nat, response : Nat, secure : BOOLEAN]
  <2>1. answers \in Seq(R)
    BY DEF ChannelType
  <2> HIDE DEF R
  <2>2. \A k \in 1 .. Len(answers) : answers[k] \in R
    BY <2>1
  <2> QED BY <2>2 DEF R
<1>8. \A j \in 1 .. Len(outbound) : outbound[j] \in Nat
  BY DEF ChannelType
<1>9. \A k \in 1 .. Len(answers) : /\ answers[k].response \in Nat /\ answers[k].request \in Nat
                                   /\ answers[k].secure \in BOOLEAN
  BY <1>7
<1> QED BY <1>2, <1>3, <1>4, <1>6, <1>8, <1>9

\* A call ends: what it had read is gone, and n parts more.
LEMMA Drops ==
  ASSUME ChannelType, NEW n \in 0 .. Len(inbound), partial' = <<>>,
         inbound' = SubSeq(inbound, n + 1, Len(inbound))
  PROVE  /\ partial' \in Seq(Part) /\ inbound' \in Seq(Part)
         /\ Line' \in Seq(Part) /\ Suffix(Line', Line, Len(partial) + n)
<1>1. /\ inbound \in Seq(Part) /\ Len(inbound) \in Nat /\ n \in Nat
  BY DEF ChannelType
<1>2. /\ inbound' \in Seq(Part) /\ Len(inbound') = Len(inbound) - n
      /\ \A i \in 1 .. Len(inbound') : inbound'[i] = inbound[n + i]
  BY <1>1
<1>3. Line' = inbound' /\ partial' \in Seq(Part)
  <2>1. partial' \o inbound' = inbound'
    BY <1>2
  <2>2. <<>> \in Seq(Part)
    OBVIOUS
  <2> QED BY <2>1, <2>2 DEF Line
<1>4. \A i \in 1 .. Len(inbound') : Line'[i] = Line[i + (Len(partial) + n)]
  <2> SUFFICES ASSUME NEW i \in 1 .. Len(inbound') PROVE Line'[i] = Line[i + (Len(partial) + n)]
    OBVIOUS
  <2>1. n + i \in 1 .. Len(inbound) /\ i \in Nat /\ n \in Nat
    BY <1>1, <1>2
  <2>2. Line[Len(partial) + (n + i)] = inbound[n + i] /\ Len(partial) \in Nat
    BY <2>1, LineIs
  <2>3. Len(partial) + (n + i) = i + (Len(partial) + n)
    BY <2>1, <2>2
  <2> QED BY <1>2, <1>3, <2>2, <2>3
<1>5. Len(partial) + n \in 0 .. Len(Line) /\ Len(inbound') = Len(Line) - (Len(partial) + n)
  <2>1. Len(Line) = Len(partial) + Len(inbound) /\ Len(partial) \in Nat
    BY LineIs
  <2> QED BY <1>1, <1>2, <2>1
<1> QED BY <1>2, <1>3, <1>4, <1>5 DEF Suffix

\* f is p with the first n elements of s, t the others of s, and two lines are the same.
Taken(f, p, s, n) ==
  /\ Len(f) = Len(p) + n
  /\ \A i \in 1 .. Len(p) : f[i] = p[i]
  /\ \A i \in 1 .. n : f[Len(p) + i] = s[i]
Left(t, s, n) == Len(t) = Len(s) - n /\ \A i \in 1 .. Len(t) : t[i] = s[n + i]
SameLine(a, b) == Len(a) = Len(b) /\ \A i \in 1 .. Len(a) : a[i] = b[i]

LEMMA Fronts ==
  ASSUME NEW S, NEW p \in Seq(S), NEW s \in Seq(S), NEW n \in 0 .. Len(s), NEW f,
         f = p \o SubSeq(s, 1, n)
  PROVE  f \in Seq(S) /\ Taken(f, p, s, n)
<1>1. /\ SubSeq(s, 1, n) \in Seq(S) /\ Len(SubSeq(s, 1, n)) = n
      /\ \A i \in 1 .. n : SubSeq(s, 1, n)[i] = s[i]
  OBVIOUS
<1> QED BY <1>1, Joined DEF Taken

LEMMA Backs ==
  ASSUME NEW S, NEW s \in Seq(S), NEW n \in 0 .. Len(s), NEW t, t = SubSeq(s, n + 1, Len(s))
  PROVE  t \in Seq(S) /\ Left(t, s, n)
BY DEF Left

LEMMA Regrouped ==
  ASSUME NEW S, NEW p \in Seq(S), NEW s \in Seq(S), NEW n \in 0 .. Len(s),
         NEW f \in Seq(S), NEW t \in Seq(S), Taken(f, p, s, n), Left(t, s, n)
  PROVE  SameLine(f \o t, p \o s)
<1> DEFINE u == f \o t
           w == p \o s
<1>1. /\ Len(p) \in Nat /\ Len(s) \in Nat /\ n \in Nat /\ n <= Len(s)
      /\ Len(f) = Len(p) + n /\ Len(t) = Len(s) - n
  BY DEF Taken, Left
<1>2. /\ Len(u) = Len(f) + Len(t) /\ \A i \in 1 .. Len(f) : u[i] = f[i]
      /\ \A i \in 1 .. Len(t) : u[Len(f) + i] = t[i]
  BY ONLY Joined, f \in Seq(S), t \in Seq(S)
<1>3. /\ Len(w) = Len(p) + Len(s) /\ \A i \in 1 .. Len(p) : w[i] = p[i]
      /\ \A i \in 1 .. Len(s) : w[Len(p) + i] = s[i]
  BY ONLY Joined, p \in Seq(S), s \in Seq(S)
<1> HIDE DEF u, w
<1>4. Len(u) = Len(p) + Len(s)
  BY ONLY <1>1, <1>2
<1>5. ASSUME NEW i \in 1 .. Len(u)
      PROVE  u[i] = w[i]
  <2>0. i \in Nat /\ 1 <= i /\ i <= Len(p) + Len(s)
    BY ONLY <1>1, <1>4, i \in 1 .. Len(u)
  <2>1. CASE i <= Len(p)
    <3>1. i \in 1 .. Len(p) /\ i \in 1 .. Len(f)
      BY ONLY <1>1, <2>0, <2>1
    <3> QED BY <1>2, <1>3, <3>1 DEF Taken
  <2>2. CASE i > Len(p) /\ i <= Len(p) + n
    <3> DEFINE k == i - Len(p)
    <3>1. k \in 1 .. n /\ k \in 1 .. Len(s) /\ i = Len(p) + k /\ i \in 1 .. Len(f)
      BY ONLY <1>1, <2>0, <2>2
    <3> HIDE DEF k
    <3> QED BY <1>2, <1>3, <3>1 DEF Taken
  <2>3. CASE i > Len(p) + n
    <3> DEFINE k == i - (Len(p) + n)
    <3>1. k \in 1 .. Len(t) /\ i = Len(f) + k /\ n + k \in 1 .. Len(s) /\ i = Len(p) + (n + k)
      BY ONLY <1>1, <2>0, <2>3
    <3> HIDE DEF k
    <3>2. u[i] = s[n + k]
      BY <1>2, <3>1 DEF Left
    <3>3. w[i] = s[n + k]
      BY <1>3, <3>1
    <3> QED BY <3>2, <3>3
  <2> QED BY <1>1, <2>0, <2>1, <2>2, <2>3
<1> QED BY <1>1, <1>3, <1>4, <1>5 DEF u, w, SameLine

\* A call goes on: what it takes from the socket it keeps.
LEMMA Gathers ==
  ASSUME ChannelType, NEW n \in 0 .. Len(inbound), partial' = partial \o SubSeq(inbound, 1, n),
         inbound' = SubSeq(inbound, n + 1, Len(inbound))
  PROVE  /\ partial' \in Seq(Part) /\ inbound' \in Seq(Part)
         /\ Line' \in Seq(Part) /\ Suffix(Line', Line, 0)
<1>1. partial \in Seq(Part) /\ inbound \in Seq(Part)
  BY DEF ChannelType
<1>2. Line' = partial' \o inbound' /\ Line = partial \o inbound
  BY DEF Line
<1>3. /\ partial' \in Seq(Part) /\ inbound' \in Seq(Part)
      /\ Line' \in Seq(Part) /\ Len(Line') = Len(Line)
      /\ \A i \in 1 .. Len(Line') : Line'[i] = Line[i]
  <2>1. partial' \in Seq(Part) /\ Taken(partial', partial, inbound, n)
    BY <1>1, Fronts
  <2>2. inbound' \in Seq(Part) /\ Left(inbound', inbound, n)
    BY <1>1, Backs
  <2>3. SameLine(partial' \o inbound', partial \o inbound)
    BY <1>1, <2>1, <2>2, Regrouped
  <2>4. partial' \o inbound' \in Seq(Part)
    BY <2>1, <2>2, Joined
  <2> QED BY <1>2, <2>1, <2>2, <2>3, <2>4 DEF SameLine
<1>4. Len(Line) \in Nat
  BY LineIs
<1> HIDE DEF Line
<1>5. \A i \in 1 .. Len(Line') : Line'[i] = Line[i + 0]
  <2>1. \A i \in 1 .. Len(Line') : i + 0 = i
    BY <1>3, <1>4
  <2> QED BY <1>3, <2>1
<1>6. 0 \in 0 .. Len(Line) /\ Len(Line') = Len(Line) - 0
  BY <1>3, <1>4
<1> QED BY <1>3, <1>5, <1>6 DEF Suffix

\* What is read is the front of the line.
LEMMA ReadIsFront ==
  ASSUME ChannelType, NEW n \in 0 .. Len(inbound), NEW read, read = partial \o SubSeq(inbound, 1, n)
  PROVE  /\ read \in Seq(Part) /\ Len(read) = Len(partial) + n
         /\ Len(read) \in 0 .. Len(Line) /\ \A i \in 1 .. Len(read) : read[i] = Line[i]
<1>1. /\ inbound \in Seq(Part) /\ Len(inbound) \in Nat /\ n \in Nat
      /\ partial \in Seq(Part) /\ Len(partial) \in Nat
  BY DEF ChannelType
<1>2. /\ SubSeq(inbound, 1, n) \in Seq(Part) /\ Len(SubSeq(inbound, 1, n)) = n
      /\ \A i \in 1 .. n : SubSeq(inbound, 1, n)[i] = inbound[i]
  BY <1>1
<1>3. /\ read \in Seq(Part) /\ Len(read) = Len(partial) + n
      /\ \A i \in 1 .. Len(partial) : read[i] = partial[i]
      /\ \A i \in 1 .. n : read[Len(partial) + i] = inbound[i]
  BY <1>1, <1>2
<1>4. ASSUME NEW i \in 1 .. Len(read)
      PROVE  read[i] = Line[i]
  <2>1. CASE i <= Len(partial)
    <3>1. i \in 1 .. Len(partial)
      BY <1>1, <2>1
    <3> QED BY <1>3, <3>1, LineIs
  <2>2. CASE i > Len(partial)
    <3> DEFINE k == i - Len(partial)
    <3>1. k \in 1 .. n /\ k \in 1 .. Len(inbound) /\ i = Len(partial) + k
      BY <1>1, <1>3, <2>2
    <3> HIDE DEF k
    <3> QED BY <1>3, <3>1, LineIs
  <2> QED BY <1>1, <2>1, <2>2
<1>5. Len(read) \in 0 .. Len(Line)
  BY <1>1, <1>3, LineIs
<1> QED BY <1>3, <1>4, <1>5

\* A complete response in what was read: the first head, and the end of its body.
LEMMA CompleteIs ==
  ASSUME NEW read \in Seq(Part), \A i \in 1 .. Len(read) : read[i].of \in Nat /\ read[i].of > 0
  PROVE  /\ CompleteAt(read) > 0 =>
              \E i \in 1 .. Len(read) : /\ read[i].part = 1 /\ i + read[i].of <= Len(read) + 1
                                        /\ \A h \in 1 .. Len(read) : read[h].part = 1 => i <= h
         /\ \A i \in 1 .. Len(read) :
              read[i].part = 1 /\ i + read[i].of <= Len(read) + 1
              /\ (\A h \in 1 .. Len(read) : read[h].part = 1 => i <= h) => CompleteAt(read) > 0
<1> DEFINE heads == {i \in 1 .. Len(read) : read[i].part = 1}
           ends == {j \in 1 .. Len(read) :
                      \E i \in heads : (\A h \in heads : i <= h) /\ j = i + read[i].of - 1}
<1>1. CompleteAt(read) = IF ends = {} THEN 0 ELSE CHOOSE j \in ends : TRUE
  BY DEF CompleteAt
<1>2. Len(read) \in Nat
  OBVIOUS
<1>3. ends # {} => CompleteAt(read) \in ends
  <2> HIDE DEF ends
  <2> QED BY <1>1
<1>4. CompleteAt(read) > 0 => ends # {}
  <2> HIDE DEF ends
  <2> QED BY <1>1
<1>5. ASSUME CompleteAt(read) > 0
      PROVE  \E i \in 1 .. Len(read) : /\ read[i].part = 1 /\ i + read[i].of <= Len(read) + 1
                                       /\ \A h \in 1 .. Len(read) : read[h].part = 1 => i <= h
  <2>1. PICK j \in ends : TRUE
    BY <1>4, <1>5
  <2> HIDE DEF ends
  <2>0. j \in 1 .. Len(read)
    BY <2>1 DEF ends
  <2>2. PICK i \in heads : (\A h \in heads : i <= h) /\ j = i + read[i].of - 1
    BY <2>1 DEF ends
  <2>3. i \in 1 .. Len(read) /\ read[i].part = 1 /\ read[i].of \in Nat
    BY <2>2
  <2>4. \A h \in 1 .. Len(read) : read[h].part = 1 => i <= h
    BY <2>2
  <2>5. i + read[i].of <= Len(read) + 1
    BY <1>2, <2>0, <2>2, <2>3
  <2> QED BY <2>3, <2>4, <2>5
<1>6. ASSUME NEW i \in 1 .. Len(read), read[i].part = 1, i + read[i].of <= Len(read) + 1,
             \A h \in 1 .. Len(read) : read[h].part = 1 => i <= h
      PROVE  CompleteAt(read) > 0
  <2>1. i + read[i].of - 1 \in ends
    BY <1>2, <1>6
  <2>2. CompleteAt(read) \in ends
    BY <1>3, <2>1
  <2> QED BY <1>2, <2>2
<1> QED BY <1>5, <1>6

\* A step that takes away from the front of the line, or sends nothing, disturbs no order.
LEMMA MovesKeep ==
  ASSUME ChannelType, ChannelType', OrderInv, AnswerInv, NEW d, Suffix(Line', Line, d),
         outbound' = outbound \/ outbound' = <<>>, UNCHANGED cseq,
         givenUp' = givenUp \/ givenUp' = givenUp + 1, phase' = "writing" => phase = "writing"
  PROVE  OrderInv' /\ (answers' = answers => AnswerInv')
<1>0. /\ Line \in Seq(Part) /\ Line' \in Seq(Part)
      /\ \A i \in 1 .. Len(Line) : Line[i].cseq \in Nat /\ Line[i].part \in Nat
      /\ \A k \in 1 .. Len(answers) : answers[k].response \in Nat /\ answers[k].request \in Nat
      /\ \A j \in 1 .. Len(outbound) : outbound[j] \in Nat
  BY LineIs DEF ChannelType, Line
<1>1. \A i \in 1 .. Len(Line') : i + d \in 1 .. Len(Line) /\ Line'[i] = Line[i + d]
  BY <1>0 DEF Suffix
<1>2. Blocks(Line') /\ HeadsRise(Line')
  BY <1>0, SuffixKeeps DEF OrderInv
<1>3. /\ Rises(outbound') /\ \A j \in 1 .. Len(outbound') : j \in 1 .. Len(outbound) /\ outbound'[j] = outbound[j]
  BY DEF OrderInv, Rises
<1>4. cseq' = cseq /\ cseq \in Nat /\ givenUp \in Nat
  BY DEF ChannelType
<1> HIDE DEF Line
<1>5. OrderInv'
  <2>1. \A i \in 1 .. Len(Line') :
          Line'[i].cseq <= cseq' /\ (phase' = "writing" => Line'[i].cseq < cseq')
    BY <1>1, <1>4 DEF OrderInv
  <2>2. \A j \in 1 .. Len(outbound') :
          outbound'[j] <= cseq' /\ (phase' = "writing" => outbound'[j] < cseq')
    BY <1>3, <1>4 DEF OrderInv
  <2>3. \A i \in 1 .. Len(Line'), j \in 1 .. Len(outbound') : Line'[i].cseq < outbound'[j]
    BY <1>1, <1>3 DEF OrderInv
  <2> QED BY <1>2, <1>3, <2>1, <2>2, <2>3 DEF OrderInv
<1>6. ASSUME answers' = answers
      PROVE  AnswerInv'
  <2>1. ASSUME NEW k \in 1 .. Len(answers)
        PROVE  /\ answers[k].response <= answers[k].request /\ answers[k].request <= cseq'
               /\ phase' = "writing" => answers[k].response < cseq'
               /\ answers[k].secure = TRUE \/ givenUp' = 0 =>
                    answers[k].request <= answers[k].response + givenUp'
               /\ \A i \in 1 .. Len(Line') : Line'[i].part = 1 => answers[k].response < Line'[i].cseq
               /\ \A j \in 1 .. Len(outbound') : answers[k].response < outbound'[j]
    <3>1. /\ answers[k].response <= answers[k].request /\ answers[k].request <= cseq'
          /\ phase' = "writing" => answers[k].response < cseq'
      BY <1>4 DEF AnswerInv
    <3>2. answers[k].secure = TRUE \/ givenUp' = 0 =>
            answers[k].request <= answers[k].response + givenUp'
      <4>1. givenUp' = 0 => givenUp = 0
        BY <1>4
      <4>2. answers[k].secure = TRUE \/ givenUp = 0 =>
              answers[k].request <= answers[k].response + givenUp
        BY DEF AnswerInv
      <4> QED BY <1>0, <1>4, <4>1, <4>2
    <3>3. \A i \in 1 .. Len(Line') : Line'[i].part = 1 => answers[k].response < Line'[i].cseq
      BY <1>1 DEF AnswerInv
    <3>4. \A j \in 1 .. Len(outbound') : answers[k].response < outbound'[j]
      BY <1>3 DEF AnswerInv
    <3> QED BY <3>1, <3>2, <3>3, <3>4
  <2>2. \A i, j \in 1 .. Len(answers) : i < j => answers[i].response < answers[j].response
    BY DEF AnswerInv
  <2> QED BY <1>4, <1>6, <2>1, <2>2 DEF AnswerInv
<1> QED BY <1>5, <1>6

\* While no call was given up, nothing is left of the calls that are over.
LEMMA NothingPending ==
  ASSUME ChannelInv, phase = "idle", givenUp = 0
  PROVE  Line = <<>> /\ outbound = <<>>
<1>1. ChannelType /\ LagInv /\ OrderInv /\ Counted
  BY DEF ChannelInv, Counted
<1>2. /\ Line \in Seq(Part) /\ \A i \in 1 .. Len(Line) : Line[i].cseq \in Nat
      /\ \A j \in 1 .. Len(outbound) : outbound[j] \in Nat
      /\ outbound \in Seq(Nat) /\ cseq \in Nat
  BY <1>1, LineIs DEF ChannelType
<1>3. Behind \in Nat /\ Behind >= 1 /\ ~Rest
  BY <1>1 DEF Behind, LagInv
<1>4. outbound = <<>>
  <2> SUFFICES ASSUME outbound # <<>> PROVE FALSE
    OBVIOUS
  <2>1. 1 \in 1 .. Len(outbound)
    BY <1>2
  <2>2. cseq + Behind <= outbound[1] + 0 /\ outbound[1] <= cseq
    BY <1>1, <2>1 DEF LagInv, OrderInv
  <2> QED BY <1>2, <1>3, <2>1, <2>2
<1>5. Line = <<>>
  <2> SUFFICES ASSUME Line # <<>> PROVE FALSE
    OBVIOUS
  <2>1. 1 \in 1 .. Len(Line)
    BY <1>2
  <2>2. Line[1].part = 1
    BY <1>3 DEF Rest
  <2>3. cseq + Behind <= Line[1].cseq + 0 /\ Line[1].cseq <= cseq
    BY <1>1, <2>1, <2>2 DEF LagInv, OrderInv
  <2> QED BY <1>2, <1>3, <2>1, <2>3
<1> QED BY <1>4, <1>5

LEMMA StepSetCipher ==
  ASSUME ChannelInv, SetCipher
  PROVE  ChannelInv'
<1>1. /\ phase = "idle" /\ encrypted' = TRUE
      /\ skewed' = (skewed \/ inbound # <<>> \/ outbound # <<>>)
      /\ UNCHANGED <<phase, cseq, partial, outbound, inbound, deaf, alive, answers, givenUp>>
  BY DEF SetCipher
<1>2. ChannelType /\ PhaseInv /\ OrderInv /\ AnswerInv /\ LagInv
  BY DEF ChannelInv
<1>3. Line' = Line /\ partial = <<>>
  BY <1>1, <1>2 DEF Line, PhaseInv
<1>4. ChannelType'
  BY <1>1, <1>2 DEF ChannelType
<1>5. Line = inbound
  BY <1>2, <1>3 DEF Line, ChannelType
<1>6. skewed' = TRUE => givenUp > 0
  <2>1. givenUp = 0 => skewed' = FALSE
    BY <1>1, <1>2, <1>5, NothingPending DEF PhaseInv, ChannelType
  <2> QED BY <1>2, <2>1 DEF ChannelType
<1>7. PhaseInv'
  BY <1>1, <1>2, <1>6 DEF PhaseInv
<1>8. OrderInv' /\ AnswerInv'
  <2> HIDE DEF Line
  <2>1. OrderInv'
    BY <1>1, <1>2, <1>3 DEF OrderInv
  <2>2. AnswerInv'
    BY <1>1, <1>2, <1>3 DEF AnswerInv
  <2> QED BY <2>1, <2>2
<1>9. LagInv'
  <2>1. CASE givenUp = 0
    <3> HIDE DEF Line
    <3> QED BY <1>1, <1>2, <1>3, <2>1 DEF LagInv, Counted, Rest, Behind
  <2>2. CASE givenUp # 0
    <3>1. CASE skewed' = TRUE
      BY <1>1, <2>2, <3>1 DEF LagInv, Counted
    <3>2. CASE skewed' = FALSE
      <4>1. Line' = <<>> /\ outbound' = <<>>
        BY <1>1, <1>3, <1>5, <3>2
      <4> HIDE DEF Line
      <4> QED BY <4>1 DEF LagInv, Rest
    <3> QED BY <1>4, <3>1, <3>2 DEF ChannelType
  <2> QED BY <2>1, <2>2
<1> QED BY <1>4, <1>7, <1>8, <1>9 DEF ChannelInv

LEMMA StepSend ==
  ASSUME ChannelInv, Send
  PROVE  ChannelInv'
<1>1. /\ phase = "idle" /\ cseq' = cseq + 1 /\ partial' = <<>> /\ phase' = "writing"
      /\ UNCHANGED <<encrypted, outbound, inbound, skewed, deaf, alive, answers, givenUp>>
  BY DEF Send
<1>2. ChannelType /\ PhaseInv /\ OrderInv /\ AnswerInv /\ LagInv
  BY DEF ChannelInv
<1>3. Line' = Line /\ partial = <<>>
  BY <1>1, <1>2 DEF Line, PhaseInv
<1>4. ChannelType'
  BY <1>1, <1>2, <1>3 DEF ChannelType
<1>5. PhaseInv'
  BY <1>1, <1>2, <1>3 DEF PhaseInv
<1>6. /\ cseq \in Nat /\ givenUp \in Nat /\ \A i \in 1 .. Len(Line) : Line[i].cseq \in Nat
      /\ \A j \in 1 .. Len(outbound) : outbound[j] \in Nat
      /\ \A k \in 1 .. Len(answers) : answers[k].response \in Nat /\ answers[k].request \in Nat
  BY <1>2, LineIs DEF ChannelType
<1> HIDE DEF Line
<1>7. OrderInv'
  BY <1>1, <1>2, <1>3, <1>6 DEF OrderInv
<1>8. AnswerInv'
  <2>1. ASSUME NEW k \in 1 .. Len(answers)
        PROVE  answers[k].request <= cseq' /\ answers[k].response < cseq'
    BY <1>1, <1>2, <1>6 DEF AnswerInv
  <2> QED BY <1>1, <1>2, <1>3, <2>1 DEF AnswerInv
<1>9. LagInv'
  <2>1. Rest' = Rest /\ Counted' = Counted
    BY <1>1, <1>3 DEF Rest, Counted
  <2>2. cseq' + Behind' = cseq + Behind
    BY <1>1, <1>6, <2>1 DEF Behind
  <2> QED BY <1>1, <1>2, <1>3, <2>1, <2>2 DEF LagInv
<1> QED BY <1>4, <1>5, <1>7, <1>8, <1>9 DEF ChannelInv

LEMMA SameSuffix ==
  ASSUME ChannelType, Line' = Line
  PROVE  Suffix(Line', Line, 0)
<1>1. Len(Line) \in Nat
  BY LineIs
<1> HIDE DEF Line
<1>2. \A i \in 1 .. Len(Line) : i + 0 = i
  BY <1>1
<1> QED BY <1>1, <1>2 DEF Suffix

LEMMA NothingComplete == ~(CompleteAt(<<>>) > 0)
<1>1. <<>> \in Seq(Part) /\ Len(<<>>) = 0
  OBVIOUS
<1>2. ~ \E i \in 1 .. Len(<<>>) : TRUE
  BY <1>1
<1> DEFINE read == <<>>
<1>3. read \in Seq(Part) /\ ~ \E i \in 1 .. Len(read) : TRUE
  BY <1>1, <1>2
<1> HIDE DEF read
<1>4. ~(CompleteAt(read) > 0)
  BY <1>3, CompleteIs
<1> QED BY <1>4 DEF read

\* The request is out.
LEMMA DeliveredKeep ==
  ASSUME ChannelType, OrderInv, AnswerInv, Line' = Line, phase = "writing", phase' # "writing",
         outbound' = Append(outbound, cseq), UNCHANGED <<cseq, answers>>,
         givenUp' = givenUp \/ givenUp' = givenUp + 1
  PROVE  /\ outbound' \in Seq(Nat) /\ OrderInv' /\ AnswerInv'
         /\ \A j \in 1 .. Len(outbound') : outbound'[j] = cseq \/ \E i \in 1 .. Len(outbound) : outbound'[j] = outbound[i]
<1>0. /\ \A i \in 1 .. Len(Line) : Line[i].cseq \in Nat /\ Line[i].part \in Nat
      /\ \A k \in 1 .. Len(answers) : answers[k].response \in Nat /\ answers[k].request \in Nat
      /\ \A j \in 1 .. Len(outbound) : outbound[j] \in Nat
      /\ cseq \in Nat /\ givenUp \in Nat /\ outbound \in Seq(Nat) /\ Len(outbound) \in Nat
  BY LineIs DEF ChannelType
<1>1. /\ outbound' \in Seq(Nat) /\ Len(outbound') = Len(outbound) + 1
      /\ \A j \in 1 .. Len(outbound) : outbound'[j] = outbound[j]
      /\ outbound'[Len(outbound) + 1] = cseq
  BY <1>0
<1>2. \A j \in 1 .. Len(outbound') :
        \/ j = Len(outbound) + 1 /\ outbound'[j] = cseq
        \/ j \in 1 .. Len(outbound) /\ outbound'[j] = outbound[j]
  BY <1>0, <1>1
<1> HIDE DEF Line
<1>3. \A j \in 1 .. Len(outbound) : outbound[j] < cseq
  BY DEF OrderInv
<1>4. Rises(outbound')
  <2> SUFFICES ASSUME NEW i \in 1 .. Len(outbound'), NEW j \in 1 .. Len(outbound'), i < j
               PROVE  outbound'[i] < outbound'[j]
    BY DEF Rises
  <2>1. i \in 1 .. Len(outbound)
    BY <1>0, <1>1
  <2> QED BY <1>1, <1>2, <1>3, <2>1 DEF OrderInv, Rises
<1>5. OrderInv'
  <2>1. \A j \in 1 .. Len(outbound') : outbound'[j] <= cseq
    BY <1>0, <1>2, <1>3
  <2>2. \A i \in 1 .. Len(Line), j \in 1 .. Len(outbound') : Line[i].cseq < outbound'[j]
    BY <1>2 DEF OrderInv
  <2>3. \A i \in 1 .. Len(Line) : Line[i].cseq <= cseq
    BY DEF OrderInv
  <2> QED BY <1>4, <2>1, <2>2, <2>3 DEF OrderInv
<1>6. AnswerInv'
  <2>1. ASSUME NEW k \in 1 .. Len(answers)
        PROVE  /\ answers[k].response <= answers[k].request /\ answers[k].request <= cseq
               /\ answers[k].secure = TRUE \/ givenUp' = 0 =>
                    answers[k].request <= answers[k].response + givenUp'
               /\ \A i \in 1 .. Len(Line) : Line[i].part = 1 => answers[k].response < Line[i].cseq
               /\ \A j \in 1 .. Len(outbound') : answers[k].response < outbound'[j]
    <3>1. /\ answers[k].response <= answers[k].request /\ answers[k].request <= cseq
          /\ \A i \in 1 .. Len(Line) : Line[i].part = 1 => answers[k].response < Line[i].cseq
      BY DEF AnswerInv
    <3>2. answers[k].secure = TRUE \/ givenUp' = 0 =>
            answers[k].request <= answers[k].response + givenUp'
      <4>1. givenUp' = 0 => givenUp = 0
        BY <1>0
      <4>2. answers[k].secure = TRUE \/ givenUp = 0 =>
              answers[k].request <= answers[k].response + givenUp
        BY DEF AnswerInv
      <4> QED BY <1>0, <4>1, <4>2
    <3>3. \A j \in 1 .. Len(outbound') : answers[k].response < outbound'[j]
      BY <1>2 DEF AnswerInv
    <3> QED BY <3>1, <3>2, <3>3
  <2>2. \A i, j \in 1 .. Len(answers) : i < j => answers[i].response < answers[j].response
    BY DEF AnswerInv
  <2> QED BY <2>1, <2>2 DEF AnswerInv
<1> QED BY <1>1, <1>2, <1>5, <1>6

LEMMA StepWritten ==
  ASSUME ChannelInv, Written
  PROVE  ChannelInv'
<1>1. /\ phase = "writing" /\ phase' = Reading
      /\ (outbound' = Append(outbound, cseq) /\ alive = TRUE) \/ outbound' = outbound
      /\ UNCHANGED <<encrypted, cseq, partial, inbound, skewed, deaf, alive, answers, givenUp>>
  BY DEF Written, Deliver, ChannelInv, ChannelType
<1>2. ChannelType /\ PhaseInv /\ OrderInv /\ AnswerInv /\ LagInv
  BY DEF ChannelInv
<1>3. phase' \in {"length", "plain"} /\ (phase' = "length" <=> encrypted = TRUE)
  BY <1>1, <1>2 DEF Reading, ChannelType
<1>4. Line' = Line /\ partial = <<>>
  BY <1>1, <1>2 DEF Line, PhaseInv
<1>5. PhaseInv'
  BY <1>1, <1>2, <1>3, <1>4, NothingComplete DEF PhaseInv, ChannelType
<1>6. cseq \in Nat /\ givenUp \in Nat /\ \A j \in 1 .. Len(outbound) : outbound[j] \in Nat
  BY <1>2, LineIs DEF ChannelType
<1>7. Rest' = Rest /\ Counted' = Counted /\ Behind' = Behind
  BY <1>1, <1>3, <1>4 DEF Rest, Counted, Behind
<1>8. CASE outbound' = outbound
  <2>1. ChannelType'
    BY <1>1, <1>2, <1>8 DEF ChannelType
  <2>2. Suffix(Line', Line, 0)
    BY <1>2, <1>4, SameSuffix
  <2>3. OrderInv' /\ AnswerInv'
    BY <1>1, <1>2, <1>3, <1>8, <2>1, <2>2, MovesKeep
  <2>4. LagInv'
    BY <1>1, <1>2, <1>4, <1>7, <1>8 DEF LagInv
  <2> QED BY <1>5, <2>1, <2>3, <2>4 DEF ChannelInv
<1>9. CASE outbound' = Append(outbound, cseq)
  <2>1. /\ outbound' \in Seq(Nat) /\ OrderInv' /\ AnswerInv'
        /\ \A j \in 1 .. Len(outbound') :
             outbound'[j] = cseq \/ \E i \in 1 .. Len(outbound) : outbound'[j] = outbound[i]
    BY <1>1, <1>2, <1>3, <1>4, <1>9, DeliveredKeep
  <2>2. ChannelType'
    BY <1>1, <1>2, <2>1 DEF ChannelType
  <2>3. LagInv'
    <3> SUFFICES ASSUME Counted PROVE LagInv'
      BY <1>7 DEF LagInv
    <3>1. Behind <= givenUp /\ Behind \in Nat
      BY <1>1, <1>2, <1>6 DEF LagInv, Behind
    <3>2. \A j \in 1 .. Len(outbound') : cseq + Behind <= outbound'[j] + givenUp
      <4> SUFFICES ASSUME NEW j \in 1 .. Len(outbound')
                   PROVE  cseq + Behind <= outbound'[j] + givenUp
        OBVIOUS
      <4> HIDE DEF Behind
      <4>1. CASE outbound'[j] = cseq
        BY <1>6, <3>1, <4>1
      <4>2. CASE \E i \in 1 .. Len(outbound) : outbound'[j] = outbound[i]
        BY <1>2, <4>2 DEF LagInv
      <4> QED BY <2>1, <4>1, <4>2
    <3> QED BY <1>1, <1>2, <1>4, <1>7, <3>2 DEF LagInv
  <2> QED BY <1>5, <2>1, <2>2, <2>3 DEF ChannelInv
<1> QED BY <1>1, <1>8, <1>9

\* The receiver's answer joins the line.
LEMMA StepAnswer ==
  ASSUME ChannelInv, Answer
  PROVE  ChannelInv'
<1> DEFINE n == Head(outbound)
<1>1. PICK parts \in 1 .. MaxParts : inbound' = inbound \o Response(n, parts)
  BY DEF Answer
<1>2. /\ alive = TRUE /\ outbound # <<>> /\ outbound' = Tail(outbound)
      /\ UNCHANGED <<encrypted, phase, cseq, partial, skewed, deaf, alive, answers, givenUp>>
  BY DEF Answer, ChannelInv, ChannelType
<1>3. ChannelType /\ PhaseInv /\ OrderInv /\ AnswerInv /\ LagInv
  BY DEF ChannelInv
<1>4. /\ outbound \in Seq(Nat) /\ Len(outbound) \in Nat /\ 1 \in 1 .. Len(outbound)
      /\ n = outbound[1] /\ n \in Nat /\ cseq \in Nat /\ givenUp \in Nat
      /\ \A j \in 1 .. Len(outbound) : outbound[j] \in Nat
  BY <1>2, <1>3 DEF ChannelType
<1>5. /\ outbound' \in Seq(Nat)
      /\ \A j \in 1 .. Len(outbound') : j + 1 \in 1 .. Len(outbound) /\ outbound'[j] = outbound[j + 1]
  BY <1>2, <1>4
<1> DEFINE r == Response(n, parts)
<1>6. parts \in Nat /\ parts >= 1
  OBVIOUS
<1>7. r \in Seq(Part) /\ Len(r) = parts /\ \A i \in 1 .. parts : r[i] = [cseq |-> n, part |-> i, of |-> parts]
  BY <1>4, <1>6 DEF Response, Part
<1> HIDE DEF n, r
<1>8. /\ partial \in Seq(Part) /\ inbound \in Seq(Part) /\ inbound' = inbound \o r
      /\ inbound' \in Seq(Part)
  BY <1>1, <1>3, <1>7 DEF r, ChannelType
<1>9. Line' = Line \o r /\ Line' \in Seq(Part)
  <2>1. Line' = partial \o (inbound \o r)
    BY <1>2, <1>8 DEF Line
  <2>2. partial \o (inbound \o r) = (partial \o inbound) \o r
    BY <1>7, <1>8, ConcatAssociative
  <2>3. partial \o inbound \in Seq(Part)
    BY <1>8, Joined
  <2> QED BY <1>7, <2>1, <2>2, <2>3, Joined DEF Line
<1>10. ChannelType'
  BY <1>2, <1>3, <1>5, <1>8 DEF ChannelType
<1>11. /\ Line \in Seq(Part) /\ Len(Line) \in Nat /\ Len(Line') = Len(Line) + parts
       /\ \A i \in 1 .. Len(Line) : Line'[i] = Line[i] /\ Line[i].cseq \in Nat
       /\ \A i \in 1 .. parts : Line'[Len(Line) + i] = r[i]
  <2>1. Line \in Seq(Part) /\ Len(Line) \in Nat /\ \A i \in 1 .. Len(Line) : Line[i].cseq \in Nat
    BY <1>3, LineIs
  <2> HIDE DEF Line
  <2> QED BY <1>7, <1>9, <2>1, Joined
<1> HIDE DEF Line
<1>12. ASSUME NEW i \in 1 .. Len(Line')
       PROVE  \/ i \in 1 .. Len(Line) /\ Line'[i] = Line[i]
              \/ i > Len(Line) /\ Line'[i].cseq = n
  <2>1. CASE i <= Len(Line)
    BY <1>11, <2>1
  <2>2. CASE i > Len(Line)
    <3> DEFINE k == i - Len(Line)
    <3>1. k \in 1 .. parts /\ i = Len(Line) + k
      BY <1>6, <1>11, <2>2
    <3> HIDE DEF k
    <3>2. Line'[i] = [cseq |-> n, part |-> k, of |-> parts]
      BY <1>7, <1>11, <3>1
    <3> QED BY <2>2, <3>2
  <2> QED BY <1>6, <1>11, <2>1, <2>2
<1>13. OrderInv'
  <2>1. \A i \in 1 .. Len(Line) : Line[i].cseq < n
    BY <1>3, <1>4 DEF OrderInv
  <2>2. Blocks(Line') /\ HeadsRise(Line')
    BY <1>3, <1>4, <1>6, <1>9, <1>11, <2>1, ResponseJoins DEF r, OrderInv
  <2>3. \A j \in 1 .. Len(outbound) : outbound[j] <= cseq /\ (phase = "writing" => outbound[j] < cseq)
    BY <1>3 DEF OrderInv
  <2>4. \A i \in 1 .. Len(Line') : Line'[i].cseq <= cseq /\ (phase = "writing" => Line'[i].cseq < cseq)
    BY <1>3, <1>4, <1>12, <2>3 DEF OrderInv
  <2>5. Rises(outbound')
    BY <1>3, <1>4, <1>5 DEF OrderInv, Rises
  <2>6. \A j \in 1 .. Len(outbound') : n < outbound'[j]
    BY <1>3, <1>4, <1>5 DEF OrderInv, Rises
  <2>7. \A i \in 1 .. Len(Line'), j \in 1 .. Len(outbound') : Line'[i].cseq < outbound'[j]
    BY <1>3, <1>5, <1>12, <2>6 DEF OrderInv
  <2>8. \A j \in 1 .. Len(outbound') : outbound'[j] <= cseq /\ (phase = "writing" => outbound'[j] < cseq)
    BY <1>5, <2>3
  <2> QED BY <1>2, <2>2, <2>4, <2>5, <2>7, <2>8 DEF OrderInv
<1>14. AnswerInv'
  <2>1. ASSUME NEW k \in 1 .. Len(answers)
        PROVE  /\ \A i \in 1 .. Len(Line') : Line'[i].part = 1 => answers[k].response < Line'[i].cseq
               /\ \A j \in 1 .. Len(outbound') : answers[k].response < outbound'[j]
    <3>1. \A j \in 1 .. Len(outbound) : answers[k].response < outbound[j]
      BY <1>3 DEF AnswerInv
    <3>2. \A j \in 1 .. Len(outbound') : answers[k].response < outbound'[j]
      BY <1>5, <3>1
    <3>3. \A i \in 1 .. Len(Line') : Line'[i].part = 1 => answers[k].response < Line'[i].cseq
      BY <1>3, <1>4, <1>12, <3>1 DEF AnswerInv
    <3> QED BY <3>2, <3>3
  <2> QED BY <1>2, <1>3, <2>1 DEF AnswerInv
<1>15. Rest' = Rest
  <2>1. CASE Line = <<>>
    <3>1. Len(Line) = 0 /\ 1 \in 1 .. parts
      BY <1>6, <2>1
    <3>2. Line'[Len(Line) + 1] = r[1] /\ Len(Line) + 1 = 1
      BY <1>11, <3>1
    <3>3. Line'[1].part = 1
      BY <1>7, <3>1, <3>2
    <3> QED BY <2>1, <3>3 DEF Rest
  <2>2. CASE Line # <<>>
    <3>1. 1 \in 1 .. Len(Line)
      BY <1>11, <2>2
    <3>2. Line'[1] = Line[1] /\ Line' # <<>>
      <4>1. Len(Line') # 0
        BY <1>6, <1>11, <3>1
      <4> QED BY <1>9, <1>11, <3>1, <4>1
    <3> QED BY <2>2, <3>2 DEF Rest
  <2> QED BY <2>1, <2>2
<1>16. LagInv'
  <2>1. Behind' = Behind /\ Counted' = Counted
    BY <1>2, <1>15 DEF Behind, Counted
  <2> SUFFICES ASSUME Counted PROVE LagInv'
    BY <2>1 DEF LagInv
  <2>2. /\ Rest => givenUp > 0
        /\ \A i \in 1 .. Len(Line) : Line[i].part = 1 => cseq + Behind <= Line[i].cseq + givenUp
        /\ \A j \in 1 .. Len(outbound) : cseq + Behind <= outbound[j] + givenUp
    BY <1>3 DEF LagInv
  <2>3. \A i \in 1 .. Len(Line') : Line'[i].part = 1 => cseq + Behind <= Line'[i].cseq + givenUp
    BY <1>4, <1>12, <2>2
  <2>4. \A j \in 1 .. Len(outbound') : cseq + Behind <= outbound'[j] + givenUp
    BY <1>5, <2>2
  <2> QED BY <1>2, <1>15, <2>1, <2>2, <2>3, <2>4 DEF LagInv
<1>17. PhaseInv'
  BY <1>2, <1>3, <1>8, <1>4 DEF PhaseInv
<1> QED BY <1>10, <1>13, <1>14, <1>16, <1>17 DEF ChannelInv

\* A call that ends takes the front of the line with it.
LEMMA CallEnds ==
  ASSUME ChannelInv, NEW n \in 0 .. Len(inbound), phase' = "idle", partial' = <<>>,
         inbound' = SubSeq(inbound, n + 1, Len(inbound)),
         outbound' = outbound \/ outbound' = <<>>,
         UNCHANGED <<encrypted, cseq, alive>>, skewed' \in BOOLEAN,
         answers' = answers \/ answers' \in Seq([request : Nat, response : Nat, secure : BOOLEAN]),
         skewed' = TRUE => encrypted = TRUE /\ givenUp' > 0,
         givenUp' = givenUp \/ givenUp' = givenUp + 1
  PROVE  /\ ChannelType' /\ PhaseInv' /\ OrderInv' /\ (answers' = answers => AnswerInv')
         /\ Suffix(Line', Line, Len(partial) + n)
<1>1. ChannelType /\ PhaseInv /\ OrderInv /\ AnswerInv
  BY DEF ChannelInv
<1>2. /\ partial' \in Seq(Part) /\ inbound' \in Seq(Part)
      /\ Suffix(Line', Line, Len(partial) + n)
  BY <1>1, Drops
<1>3. outbound' \in Seq(Nat) /\ givenUp' \in Nat
  <2>1. <<>> \in Seq(Nat)
    OBVIOUS
  <2>2. outbound \in Seq(Nat) /\ givenUp \in Nat
    BY <1>1 DEF ChannelType
  <2>3. outbound' \in Seq(Nat)
    BY <2>1, <2>2
  <2>4. givenUp' \in Nat
    BY <2>2
  <2> QED BY <2>3, <2>4
<1>4. ChannelType'
  BY <1>1, <1>2, <1>3 DEF ChannelType
<1>5. PhaseInv'
  BY <1>1 DEF PhaseInv
<1>6. OrderInv' /\ (answers' = answers => AnswerInv')
  BY <1>1, <1>2, <1>4, MovesKeep
<1> QED BY <1>2, <1>4, <1>5, <1>6

\* A step within a call that leaves the line as it is.
LEMMA CallGoesOn ==
  ASSUME ChannelInv, ChannelType', Suffix(Line', Line, 0), phase \in {"length", "block", "plain"},
         phase' \in {"length", "block", "plain"}, (phase = "plain") <=> (phase' = "plain"),
         phase' # "plain" => ~(CompleteAt(partial') > 0), phase' = "block" => inbound' # <<>>,
         UNCHANGED <<encrypted, cseq, outbound, skewed, alive, answers, givenUp>>
  PROVE  ChannelInv'
<1>1. ChannelType /\ PhaseInv /\ OrderInv /\ AnswerInv /\ LagInv
  BY DEF ChannelInv
<1>2. PhaseInv'
  BY <1>1 DEF PhaseInv
<1>3. OrderInv' /\ AnswerInv'
  BY <1>1, MovesKeep
<1>4. /\ Line \in Seq(Part) /\ Line' \in Seq(Part) /\ Len(Line) \in Nat
      /\ Len(Line') = Len(Line) /\ \A i \in 1 .. Len(Line') : Line'[i] = Line[i]
  <2>1. Line \in Seq(Part) /\ Line' \in Seq(Part) /\ Len(Line) \in Nat
    BY <1>1, LineIs, Joined DEF ChannelType, Line
  <2> HIDE DEF Line
  <2>2. \A i \in 1 .. Len(Line') : i + 0 = i
    BY <2>1
  <2> QED BY <2>1, <2>2 DEF Suffix
<1> HIDE DEF Line
<1>5. Rest' = Rest
  <2>1. Line # <<>> <=> 1 \in 1 .. Len(Line)
    BY <1>4
  <2>2. Line' # <<>> <=> 1 \in 1 .. Len(Line')
    BY <1>4
  <2> QED BY <1>4, <2>1, <2>2 DEF Rest
<1>6. Counted' = Counted /\ Behind' = Behind
  BY <1>5 DEF Counted, Behind
<1>7. LagInv'
  BY <1>1, <1>4, <1>5, <1>6 DEF LagInv
<1> QED BY <1>1, <1>2, <1>3, <1>7 DEF ChannelInv

LEMMA StepReadLength ==
  ASSUME ChannelInv, ReadLength
  PROVE  ChannelInv'
<1>1. /\ phase = "length" /\ inbound # <<>> /\ phase' = "block"
      /\ UNCHANGED <<encrypted, cseq, partial, outbound, inbound, skewed, deaf, alive, answers, givenUp>>
  BY DEF ReadLength
<1>2. ChannelType /\ ChannelType' /\ PhaseInv
  BY <1>1 DEF ChannelInv, ChannelType
<1>3. Suffix(Line', Line, 0)
  <2>1. Line' = Line
    BY <1>1 DEF Line
  <2> QED BY <1>2, <2>1, SameSuffix
<1> QED BY <1>1, <1>2, <1>3, CallGoesOn DEF PhaseInv

LEMMA StepReadGarbage ==
  ASSUME ChannelInv, ReadGarbage
  PROVE  ChannelInv'
<1>1. PICK n \in 1 .. Len(inbound) : inbound' = SubSeq(inbound, n + 1, Len(inbound))
  BY DEF ReadGarbage
<1>2. /\ phase = "block" /\ skewed = TRUE /\ phase' = "idle" /\ partial' = <<>>
      /\ UNCHANGED <<encrypted, cseq, outbound, skewed, deaf, alive, answers, givenUp>>
  BY DEF ReadGarbage, ChannelInv, ChannelType
<1>3. n \in 0 .. Len(inbound) /\ skewed \in BOOLEAN /\ encrypted = TRUE /\ givenUp > 0
  BY <1>2 DEF ChannelInv, ChannelType, PhaseInv
<1>4. ChannelType' /\ PhaseInv' /\ OrderInv' /\ AnswerInv'
  BY <1>1, <1>2, <1>3, CallEnds
<1>5. LagInv'
  BY <1>2, <1>3 DEF LagInv, Counted, ChannelInv, ChannelType
<1> QED BY <1>4, <1>5 DEF ChannelInv

LEMMA StepReadNonsense ==
  ASSUME ChannelInv, ReadNonsense
  PROVE  ChannelInv'
<1>1. PICK n \in 1 .. Len(inbound) : inbound' = SubSeq(inbound, n + 1, Len(inbound))
  BY DEF ReadNonsense
<1>2. /\ phase = "plain" /\ inbound # <<>> /\ Head(Line).part # 1 /\ phase' = "idle" /\ partial' = <<>>
      /\ UNCHANGED <<encrypted, cseq, outbound, skewed, deaf, alive, answers, givenUp>>
  BY DEF ReadNonsense, Line
<1>3. n \in 0 .. Len(inbound) /\ skewed \in BOOLEAN /\ encrypted = FALSE /\ skewed = FALSE
  BY <1>2 DEF ChannelInv, ChannelType, PhaseInv
<1>4. ChannelType' /\ PhaseInv' /\ OrderInv' /\ AnswerInv'
  BY <1>1, <1>2, <1>3, CallEnds
<1>5. Rest
  <2>1. Line \in Seq(Part) /\ Len(Line) = Len(partial) + Len(inbound) /\ Len(partial) \in Nat
        /\ inbound \in Seq(Part)
    BY LineIs DEF ChannelInv, ChannelType
  <2> HIDE DEF Line
  <2>2. Len(inbound) > 0
    BY <1>2, <2>1
  <2>3. Line # <<>>
    BY <2>1, <2>2
  <2> QED BY <1>2, <2>1, <2>3 DEF Rest
<1>6. givenUp # 0
  <2>1. givenUp = 0 => Counted
    BY DEF Counted
  <2> QED BY <1>5, <2>1 DEF ChannelInv, LagInv
<1>7. LagInv'
  BY <1>2, <1>3, <1>6 DEF LagInv, Counted
<1> QED BY <1>4, <1>7 DEF ChannelInv

LEMMA StepHangup ==
  ASSUME ChannelInv, Hangup
  PROVE  ChannelInv'
<1>1. /\ alive' = FALSE /\ outbound' = <<>>
      /\ UNCHANGED <<encrypted, phase, cseq, partial, inbound, skewed, deaf, answers, givenUp>>
  BY DEF Hangup
<1>2. ChannelType /\ PhaseInv /\ OrderInv /\ AnswerInv /\ LagInv
  BY DEF ChannelInv
<1>3. Line' = Line
  BY <1>1 DEF Line
<1>4. ChannelType'
  <2>1. <<>> \in Seq(Nat)
    OBVIOUS
  <2> QED BY <1>1, <1>2, <2>1 DEF ChannelType
<1>5. PhaseInv'
  BY <1>1, <1>2 DEF PhaseInv
<1>6. OrderInv' /\ AnswerInv'
  <2>1. Suffix(Line', Line, 0)
    BY <1>2, <1>3, SameSuffix
  <2> QED BY <1>1, <1>2, <1>4, <2>1, MovesKeep
<1> HIDE DEF Line
<1>7. LagInv'
  <2>1. Rest' = Rest /\ Counted' = Counted /\ Behind' = Behind
    BY <1>1, <1>3 DEF Rest, Counted, Behind
  <2> QED BY <1>1, <1>2, <1>3, <2>1 DEF LagInv
<1> QED BY <1>4, <1>5, <1>6, <1>7 DEF ChannelInv

LEMMA StepFails ==
  ASSUME ChannelInv, Fails
  PROVE  ChannelInv'
<1>1. /\ alive = FALSE /\ phase' = "idle" /\ partial' = <<>> /\ inbound' = <<>>
      /\ UNCHANGED <<encrypted, cseq, outbound, skewed, deaf, alive, answers, givenUp>>
  BY DEF Fails, ChannelInv, ChannelType
<1>2. ChannelType /\ PhaseInv /\ inbound \in Seq(Part) /\ Len(inbound) \in Nat
  BY DEF ChannelInv, ChannelType
<1>3. SubSeq(inbound, Len(inbound) + 1, Len(inbound)) = <<>> /\ Len(inbound) \in 0 .. Len(inbound)
  BY <1>2
<1>4. ChannelType' /\ PhaseInv' /\ OrderInv' /\ AnswerInv'
  BY <1>1, <1>2, <1>3, CallEnds DEF PhaseInv, ChannelType
<1>5. LagInv'
  <2>1. Line' = <<>>
    BY <1>1 DEF Line
  <2>2. outbound' = <<>>
    BY <1>1, <1>2 DEF PhaseInv
  <2> HIDE DEF Line
  <2> QED BY <2>1, <2>2 DEF LagInv, Rest
<1> QED BY <1>4, <1>5 DEF ChannelInv

\* What given up costs: the bound on the lag grows by one with it.
LEMMA StepGiveUp ==
  ASSUME ChannelInv, GiveUpCall
  PROVE  ChannelInv'
<1>1. /\ phase # "idle" /\ phase' = "idle" /\ partial' = <<>> /\ givenUp' = givenUp + 1
      /\ skewed' = (skewed \/ phase = "block")
      /\ outbound' = outbound \/ (phase = "writing" /\ alive = TRUE /\ outbound' = Append(outbound, cseq))
      /\ UNCHANGED <<encrypted, cseq, inbound, alive, answers>>
  BY DEF GiveUpCall, Deliver, ChannelInv, ChannelType
<1>2. ChannelType /\ PhaseInv /\ OrderInv /\ AnswerInv /\ LagInv
  BY DEF ChannelInv
<1>3. /\ cseq \in Nat /\ givenUp \in Nat /\ givenUp' > 0 /\ givenUp' # 0
      /\ Line \in Seq(Part) /\ Len(Line) \in Nat
      /\ \A i \in 1 .. Len(Line) : Line[i].cseq \in Nat /\ Line[i].part \in Nat
      /\ \A j \in 1 .. Len(outbound) : outbound[j] \in Nat
  BY <1>1, <1>2, LineIs DEF ChannelType
<1>4. skewed' \in BOOLEAN /\ (skewed' = TRUE => encrypted = TRUE)
  <2>1. skewed \in BOOLEAN /\ (skewed = TRUE => encrypted = TRUE) /\ (phase = "block" => encrypted = TRUE)
    BY <1>2 DEF ChannelType, PhaseInv
  <2> QED BY <1>1, <2>1
<1>5. Counted' => Counted /\ encrypted = TRUE /\ phase # "block"
  BY <1>1, <1>2, <1>3 DEF Counted, ChannelType
<1>6. CASE outbound' = outbound
  <2>1. SubSeq(inbound, 0 + 1, Len(inbound)) = inbound /\ 0 \in 0 .. Len(inbound)
    BY <1>2 DEF ChannelType
  <2>2. ChannelType' /\ PhaseInv' /\ OrderInv' /\ AnswerInv' /\ Suffix(Line', Line, Len(partial) + 0)
    BY <1>1, <1>3, <1>4, <1>6, <2>1, CallEnds
  <2> DEFINE d == Len(partial)
  <2>3. d \in Nat /\ d + 0 = d
    BY <1>2 DEF ChannelType
  <2>4. Suffix(Line', Line, d)
    BY <2>2, <2>3
  <2> HIDE DEF d, Line
  <2>5. \A i \in 1 .. Len(Line') : i + d \in 1 .. Len(Line) /\ Line'[i] = Line[i + d] /\ i + d > d
    BY <1>3, <2>3, <2>4 DEF Suffix
  <2>6. ASSUME Counted'
        PROVE  /\ Rest' => givenUp' > 0
               /\ \A i \in 1 .. Len(Line') : Line'[i].part = 1 => cseq' + Behind' <= Line'[i].cseq + givenUp'
               /\ \A j \in 1 .. Len(outbound') : cseq' + Behind' <= outbound'[j] + givenUp'
    <3>1. /\ \A i \in 1 .. Len(Line) : Line[i].part = 1 => cseq + Behind <= Line[i].cseq + givenUp
          /\ \A j \in 1 .. Len(outbound) : cseq + Behind <= outbound[j] + givenUp
      BY <1>2, <1>5, <2>6 DEF LagInv
    <3>2. Behind = (IF Rest THEN 1 ELSE 0) /\ Behind' = 1 + (IF Rest' THEN 1 ELSE 0)
      BY <1>1 DEF Behind
    <3>3. Behind \in Nat /\ Behind' \in Nat
      BY <3>2
    <3>4. CASE Rest \/ ~Rest'
      <4>1. Behind' <= Behind + 1
        BY <3>2, <3>4
      <4>2. ASSUME NEW i \in 1 .. Len(Line'), Line'[i].part = 1
            PROVE  cseq + Behind' <= Line'[i].cseq + (givenUp + 1)
        <5>1. i + d \in 1 .. Len(Line) /\ Line'[i] = Line[i + d]
          BY <2>5
        <5>2. cseq + Behind <= Line[i + d].cseq + givenUp /\ Line[i + d].cseq \in Nat
          BY <1>3, <3>1, <4>2, <5>1
        <5> QED BY <1>3, <3>3, <4>1, <5>1, <5>2
      <4>3. \A j \in 1 .. Len(outbound) : cseq + Behind' <= outbound[j] + (givenUp + 1)
        BY <1>3, <3>1, <3>3, <4>1
      <4> QED BY <1>1, <1>3, <1>6, <4>2, <4>3
    <3>5. CASE ~Rest /\ Rest'
      <4>1. 1 \in 1 .. Len(Line')
        <5>1. Line' \in Seq(Part) /\ Line' # <<>>
          BY <2>2, <3>5, LineIs, Joined DEF Rest, ChannelType, Line
        <5> QED BY <5>1
      <4>2. 1 + d \in 1 .. Len(Line) /\ Line'[1] = Line[1 + d]
        BY <2>5, <4>1
      <4>3. 1 \in 1 .. Len(Line) /\ Line[1].part = 1
        <5>1. Line # <<>> /\ Len(Line) >= 1
          BY <1>3, <4>2
        <5> QED BY <1>3, <3>5, <5>1 DEF Rest
      <4>4. d # 0
        BY <3>5, <4>2, <4>3 DEF Rest
      <4>5. cseq <= Line[1].cseq + givenUp /\ Line[1].cseq \in Nat
        BY <1>3, <3>1, <3>2, <3>5, <4>3
      <4>6. Behind' = 2
        BY <3>2, <3>5
      <4>7. ASSUME NEW i \in 1 .. Len(Line'), Line'[i].part = 1
            PROVE  cseq + 2 <= Line'[i].cseq + (givenUp + 1)
        <5>1. i + d \in 1 .. Len(Line) /\ Line'[i] = Line[i + d] /\ 1 < i + d
          BY <2>3, <2>5, <4>4
        <5>2. Line[1].cseq < Line[i + d].cseq /\ Line[i + d].cseq \in Nat
          BY <1>2, <1>3, <4>3, <4>7, <5>1 DEF OrderInv, HeadsRise
        <5>3. cseq \in Nat /\ givenUp \in Nat
          BY ONLY <1>3
        <5>4. cseq + 2 <= Line[i + d].cseq + (givenUp + 1)
          <6> DEFINE a == Line[1].cseq
                     b == Line[i + d].cseq
          <6>1. a \in Nat /\ b \in Nat /\ a < b /\ cseq <= a + givenUp
            BY ONLY <4>5, <5>2
          <6> HIDE DEF a, b
          <6>2. cseq + 2 <= b + (givenUp + 1)
            BY ONLY <5>3, <6>1
          <6> QED BY ONLY <6>2 DEF b
        <5> QED BY ONLY <5>1, <5>4
      <4>8. ASSUME NEW j \in 1 .. Len(outbound)
            PROVE  cseq + 2 <= outbound[j] + (givenUp + 1)
        <5>1. Line[1].cseq < outbound[j] /\ outbound[j] \in Nat
          BY <1>2, <1>3, <4>3 DEF OrderInv
        <5> QED BY <1>3, <4>5, <5>1
      <4> QED BY <1>1, <1>3, <1>6, <4>6, <4>7, <4>8
    <3> QED BY <3>4, <3>5
  <2>7. LagInv'
    BY <2>6 DEF LagInv
  <2> QED BY <2>2, <2>7 DEF ChannelInv
<1>7. CASE phase = "writing" /\ alive = TRUE /\ outbound' = Append(outbound, cseq)
  <2>1. partial = <<>> /\ Line' = Line
    BY <1>1, <1>2, <1>7 DEF PhaseInv, Line
  <2>2. /\ outbound' \in Seq(Nat) /\ OrderInv' /\ AnswerInv'
        /\ \A j \in 1 .. Len(outbound') :
             outbound'[j] = cseq \/ \E i \in 1 .. Len(outbound) : outbound'[j] = outbound[i]
    BY <1>1, <1>2, <1>7, <2>1, DeliveredKeep
  <2>3. ChannelType'
    BY <1>1, <1>2, <1>3, <1>4, <2>1, <2>2 DEF ChannelType
  <2>4. PhaseInv'
    BY <1>1, <1>2, <1>3, <1>4, <1>7 DEF PhaseInv
  <2> HIDE DEF Line
  <2>5. ASSUME Counted'
        PROVE  /\ \A i \in 1 .. Len(Line') : Line'[i].part = 1 => cseq' + Behind' <= Line'[i].cseq + givenUp'
               /\ \A j \in 1 .. Len(outbound') : cseq' + Behind' <= outbound'[j] + givenUp'
    <3>1. /\ Rest => givenUp > 0
          /\ \A i \in 1 .. Len(Line) : Line[i].part = 1 => cseq + Behind <= Line[i].cseq + givenUp
          /\ \A j \in 1 .. Len(outbound) : cseq + Behind <= outbound[j] + givenUp
      BY <1>2, <1>5, <2>5 DEF LagInv
    <3>2. Rest' = Rest
      BY <2>1 DEF Rest
    <3>3. Behind' = Behind + 1 /\ Behind \in Nat /\ Behind <= givenUp
      BY <1>1, <1>3, <1>7, <3>1, <3>2 DEF Behind
    <3>4. \A i \in 1 .. Len(Line) : Line[i].part = 1 => cseq + Behind' <= Line[i].cseq + (givenUp + 1)
      BY <1>3, <3>1, <3>3
    <3>5. ASSUME NEW j \in 1 .. Len(outbound')
          PROVE  cseq + Behind' <= outbound'[j] + (givenUp + 1)
      <4>1. CASE outbound'[j] = cseq
        BY <1>3, <3>3, <4>1
      <4>2. CASE \E i \in 1 .. Len(outbound) : outbound'[j] = outbound[i]
        BY <1>3, <3>1, <3>3, <4>2
      <4> QED BY <2>2, <4>1, <4>2
    <3> QED BY <1>1, <2>1, <3>4, <3>5
  <2>6. LagInv'
    BY <1>3, <2>5 DEF LagInv
  <2> QED BY <2>2, <2>3, <2>4, <2>6 DEF ChannelInv
<1> QED BY <1>1, <1>6, <1>7

\* A call that has read n parts of the socket and no complete response yet.
LEMMA ReadMore ==
  ASSUME ChannelInv, NEW n \in 0 .. Len(inbound), phase \in {"block", "plain"},
         partial' = partial \o SubSeq(inbound, 1, n), inbound' = SubSeq(inbound, n + 1, Len(inbound)),
         phase' = Reading, ~(CompleteAt(partial') > 0),
         UNCHANGED <<encrypted, cseq, outbound, skewed, alive, answers, givenUp>>
  PROVE  ChannelInv'
<1>1. ChannelType /\ PhaseInv
  BY DEF ChannelInv
<1>2. /\ partial' \in Seq(Part) /\ inbound' \in Seq(Part)
      /\ Suffix(Line', Line, 0)
  BY <1>1, Gathers
<1>3. ChannelType'
  BY <1>1, <1>2 DEF ChannelType
<1>4. phase' \in {"length", "plain"} /\ ((phase = "plain") <=> (phase' = "plain"))
  BY <1>1 DEF Reading, PhaseInv
<1> QED BY <1>2, <1>3, <1>4, CallGoesOn

\* Where the first complete response of what was read begins in the line.
LEMMA FirstWhole ==
  ASSUME ChannelType, OrderInv, NEW n \in 1 .. Len(inbound), NEW read,
         read = partial \o SubSeq(inbound, 1, n), CompleteAt(read) > 0
  PROVE  /\ Len(partial) + n \in 1 .. Len(Line) /\ read[1] = Line[1]
         /\ \E i \in 1 .. Len(partial) + n :
              /\ i \in 1 .. Len(Line) /\ Line[i].part = 1
              /\ i + Line[i].of <= Len(partial) + n + 1
              /\ \A h \in 1 .. Len(partial) + n : Line[h].part = 1 => i <= h
<1>1. /\ n \in 0 .. Len(inbound) /\ n \in Nat /\ n >= 1
      /\ Len(partial) \in Nat /\ Len(inbound) \in Nat /\ Len(Line) = Len(partial) + Len(inbound)
      /\ \A i \in 1 .. Len(Line) : Line[i].part \in Nat /\ Line[i].of \in Nat
  BY LineIs
<1>2. /\ read \in Seq(Part) /\ Len(read) = Len(partial) + n
      /\ Len(read) \in 0 .. Len(Line) /\ \A i \in 1 .. Len(read) : read[i] = Line[i]
  BY <1>1, ReadIsFront
<1> HIDE DEF Line
<1>3. Len(read) \in 1 .. Len(Line) /\ 1 \in 1 .. Len(read)
  BY <1>1, <1>2
<1>4. ASSUME NEW i \in 1 .. Len(read)
      PROVE  i \in 1 .. Len(Line) /\ read[i] = Line[i] /\ read[i].of \in Nat /\ read[i].of > 0
  <2>1. i \in 1 .. Len(Line) /\ read[i] = Line[i]
    BY <1>2, <1>3
  <2>2. Line[i].part \in 1 .. Line[i].of /\ Line[i].part \in Nat /\ Line[i].of \in Nat
    BY <1>1, <2>1 DEF OrderInv, Blocks
  <2>3. read[i].of \in Nat /\ read[i].of > 0
    <3> DEFINE a == Line[i].part
               b == Line[i].of
    <3>1. a \in 1 .. b /\ b \in Nat
      BY ONLY <2>2
    <3> HIDE DEF a, b
    <3>2. b \in Nat /\ b > 0
      BY ONLY <3>1
    <3> QED BY ONLY <2>1, <3>2 DEF b
  <2> QED BY ONLY <2>1, <2>3
<1>5. PICK i \in 1 .. Len(read) : /\ read[i].part = 1 /\ i + read[i].of <= Len(read) + 1
                                  /\ \A h \in 1 .. Len(read) : read[h].part = 1 => i <= h
  BY <1>2, <1>4, CompleteIs
<1>6. /\ i \in 1 .. Len(Line) /\ Line[i].part = 1 /\ i + Line[i].of <= Len(read) + 1
      /\ \A h \in 1 .. Len(read) : Line[h].part = 1 => i <= h
  BY <1>4, <1>5
<1> QED BY <1>2, <1>3, <1>5, <1>6

\* While the lag is counted, no rest is left behind a response that was returned.
LEMMA NothingLeftBehind ==
  ASSUME ChannelInv, NEW n \in 1 .. Len(inbound), phase \in {"block", "plain"}, phase = "block" => n = 1,
         NEW i \in 1 .. Len(partial) + n, Line[i].part = 1, i + Line[i].of <= Len(partial) + n + 1,
         \A h \in 1 .. Len(partial) + n : Line[h].part = 1 => i <= h,
         Len(partial) + n < Len(Line), Counted
  PROVE  Line[Len(partial) + n + 1].part = 1
<1>1. ChannelType /\ PhaseInv /\ OrderInv /\ LagInv
  BY DEF ChannelInv
<1>2. /\ n \in Nat /\ n >= 1 /\ Len(partial) \in Nat /\ Len(inbound) \in Nat
      /\ Line \in Seq(Part) /\ Len(Line) = Len(partial) + Len(inbound)
      /\ \A k \in 1 .. Len(Line) : Line[k].part \in Nat /\ Line[k].of \in Nat /\ Line[k].cseq \in Nat
      /\ \A k \in 1 .. Len(partial) : Line[k] = partial[k]
      /\ partial \in Seq(Part)
  BY <1>1, LineIs DEF ChannelType
<1> HIDE DEF Line
<1> DEFINE m == Len(partial) + n
<1>3. m \in 1 .. Len(Line) /\ m < Len(Line) /\ i \in 1 .. m /\ i \in 1 .. Len(Line)
  BY <1>2
<1>4. Blocks(Line) /\ HeadsRise(Line)
  BY <1>1 DEF OrderInv
<1>5. CASE phase = "block"
  <2>1. ~(CompleteAt(partial) > 0) /\ m = Len(partial) + 1
    BY <1>1, <1>2, <1>5 DEF PhaseInv
  <2>2. ASSUME i + Line[i].of <= m
        PROVE  FALSE
    <3>1. Line[i].part \in 1 .. Line[i].of /\ Line[i].of \in Nat
      BY <1>2, <1>3, <1>4 DEF Blocks
    <3>2. i \in 1 .. Len(partial) /\ partial[i] = Line[i]
      BY <1>2, <1>3, <2>1, <2>2, <3>1
    <3>3. \A k \in 1 .. Len(partial) : partial[k].of \in Nat /\ partial[k].of > 0 /\ k \in 1 .. Len(Line)
      <4> SUFFICES ASSUME NEW k \in 1 .. Len(partial)
                   PROVE  partial[k].of \in Nat /\ partial[k].of > 0 /\ k \in 1 .. Len(Line)
        OBVIOUS
      <4>1. k \in 1 .. Len(Line) /\ partial[k] = Line[k]
        BY <1>2
      <4>2. Line[k].part \in 1 .. Line[k].of /\ Line[k].of \in Nat
        BY <1>2, <1>4, <4>1 DEF Blocks
      <4> QED BY <4>1, <4>2
    <3>4. \A h \in 1 .. Len(partial) : partial[h].part = 1 => i <= h
      BY <1>2, <2>1
    <3>5. CompleteAt(partial) > 0
      BY <1>2, <2>1, <2>2, <3>2, <3>3, <3>4, CompleteIs
    <3> QED BY <2>1, <3>5
  <2>3. i + Line[i].of = m + 1
    <3>1. Line[i].of \in Nat /\ i \in Nat /\ m \in Nat /\ i + Line[i].of <= m + 1
      BY <1>2, <1>3
    <3>2. ~(i + Line[i].of <= m)
      BY <2>2
    <3> HIDE DEF m
    <3> QED BY ONLY <3>1, <3>2
  <2>4. Line[m + 1].part = 1
    <3> HIDE DEF m
    <3> QED BY <1>2, <1>3, <1>4, <2>3, BeginsAnew
  <2> QED BY <2>4
<1>6. CASE phase = "plain"
  <2>1. givenUp = 0 /\ ~Rest
    BY <1>1, <1>6 DEF PhaseInv, Counted, LagInv, ChannelType
  <2>2. Line[1].part = 1
    BY <1>2, <1>3, <2>1 DEF Rest
  <2>3. \A h \in 1 .. Len(Line) : Line[h].part = 1 => Line[h].cseq = cseq
    <3>1. Behind = 0 /\ cseq \in Nat
      BY <1>1, <1>6, <2>1 DEF Behind, ChannelType
    <3>2. \A h \in 1 .. Len(Line) : Line[h].part = 1 => cseq + 0 <= Line[h].cseq + 0
      BY <1>1, <2>1, <3>1 DEF LagInv
    <3>3. \A h \in 1 .. Len(Line) : Line[h].cseq <= cseq
      BY <1>1 DEF OrderInv
    <3> QED BY <1>2, <3>1, <3>2, <3>3
  <2>4. Line[m + 1].part = 1
    <3>1. i + Line[i].of <= m + 1
      OBVIOUS
    <3> HIDE DEF m
    <3> QED BY <1>2, <1>3, <1>4, <2>2, <2>3, <3>1, OneIsWhole
  <2> QED BY <2>4
<1> QED BY <1>5, <1>6

\* A call that has read a complete response, or the rest of one and a complete one.
LEMMA ReadDone ==
  ASSUME ChannelInv, NEW n \in 1 .. Len(inbound), phase \in {"block", "plain"},
         phase = "block" => n = 1 /\ skewed = FALSE, NEW read,
         read = partial \o SubSeq(inbound, 1, n), inbound' = SubSeq(inbound, n + 1, Len(inbound)),
         CompleteAt(read) > 0, Return(read),
         UNCHANGED <<encrypted, cseq, outbound, skewed, alive, givenUp>>
  PROVE  ChannelInv'
<1>1. ChannelType /\ PhaseInv /\ OrderInv /\ AnswerInv /\ LagInv
  BY DEF ChannelInv
<1> DEFINE m == Len(partial) + n
           a == [request |-> cseq, response |-> Line[1].cseq, secure |-> encrypted]
           R == [request : Nat, response : Nat, secure : BOOLEAN]
<1>2. /\ m \in 1 .. Len(Line) /\ read[1] = Line[1]
      /\ \E i \in 1 .. m : /\ i \in 1 .. Len(Line) /\ Line[i].part = 1 /\ i + Line[i].of <= m + 1
                           /\ \A h \in 1 .. m : Line[h].part = 1 => i <= h
  BY <1>1, FirstWhole
<1>3. PICK i \in 1 .. m : /\ i \in 1 .. Len(Line) /\ Line[i].part = 1 /\ i + Line[i].of <= m + 1
                          /\ \A h \in 1 .. m : Line[h].part = 1 => i <= h
  BY <1>2
<1>4. /\ phase' = "idle" /\ partial' = <<>>
      /\ answers' = IF Line[1].part = 1 THEN Append(answers, a) ELSE answers
  BY <1>2 DEF Return
<1>5. /\ Len(Line) \in Nat /\ cseq \in Nat /\ givenUp \in Nat /\ Line \in Seq(Part)
      /\ \A k \in 1 .. Len(Line) : Line[k].cseq \in Nat /\ Line[k].part \in Nat /\ Line[k].of \in Nat
      /\ \A j \in 1 .. Len(outbound) : outbound[j] \in Nat
      /\ answers \in Seq(R) /\ encrypted \in BOOLEAN /\ skewed \in BOOLEAN
      /\ 1 \in 1 .. Len(Line) /\ n \in 0 .. Len(inbound)
  BY <1>1, <1>2, LineIs DEF ChannelType
<1>6. answers' = answers \/ answers' \in Seq(R)
  <2>1. a \in R
    BY <1>5
  <2> HIDE DEF R, a
  <2> QED BY <1>4, <1>5, <2>1
<1>7. ChannelType' /\ PhaseInv' /\ OrderInv' /\ (answers' = answers => AnswerInv') /\ Suffix(Line', Line, m)
  <2>1. skewed = TRUE => encrypted = TRUE /\ givenUp > 0
    BY <1>1 DEF PhaseInv
  <2> HIDE DEF Line
  <2> QED BY <1>4, <1>5, <1>6, <2>1, CallEnds
<1> HIDE DEF Line, m, a, R
<1>8. /\ m \in Nat /\ m \in 1 .. Len(Line) /\ Len(Line') = Len(Line) - m
      /\ \A k \in 1 .. Len(Line') : k + m \in 1 .. Len(Line) /\ Line'[k] = Line[k + m] /\ i < k + m
  <2>1. m \in Nat /\ i \in Nat /\ i <= m
    BY <1>2, <1>3
  <2>2. Len(Line') = Len(Line) - m /\ \A k \in 1 .. Len(Line') : Line'[k] = Line[k + m]
    BY <1>7 DEF Suffix
  <2>3. ASSUME NEW k \in 1 .. Len(Line')
        PROVE  k + m \in 1 .. Len(Line) /\ i < k + m
    <3>1. k \in Nat /\ 1 <= k /\ k <= Len(Line) - m /\ Len(Line) \in Nat
      BY <1>2, <1>5, <2>1, <2>2
    <3> QED BY ONLY <2>1, <3>1
  <2> QED BY <1>2, <2>1, <2>2, <2>3
<1>9. \A k \in 1 .. Len(Line') : Line'[k].part = 1 => Line[i].cseq < Line'[k].cseq /\ Line'[k].cseq \in Nat
  BY <1>1, <1>3, <1>5, <1>8 DEF OrderInv, HeadsRise
<1>10. \A j \in 1 .. Len(outbound) : Line[i].cseq < outbound[j]
  BY <1>1, <1>3 DEF OrderInv
<1>11. Counted => cseq <= Line[i].cseq + givenUp
  <2>1. Behind \in Nat
    BY DEF Behind
  <2>2. Counted => cseq + Behind <= Line[i].cseq + givenUp
    BY <1>1, <1>3 DEF LagInv
  <2> QED BY <1>3, <1>5, <2>1, <2>2
<1>12. LagInv'
  <2> SUFFICES ASSUME Counted' PROVE LagInv'
    BY DEF LagInv
  <2>1. Counted
    BY DEF Counted
  <2>2. ~Rest'
    <3> SUFFICES ASSUME Line' # <<>> PROVE Line'[1].part = 1
      BY DEF Rest
    <3>1. Line' \in Seq(Part)
      BY <1>7, LineIs, Joined DEF ChannelType, Line
    <3>2. 1 \in 1 .. Len(Line')
      BY <3>1
    <3>3. Line'[1] = Line[m + 1] /\ m < Len(Line)
      <4>1. Line'[1] = Line[1 + m] /\ 1 + m = m + 1 /\ m + 1 \in 1 .. Len(Line)
        BY <1>8, <3>2
      <4> QED BY <1>5, <1>8, <4>1
    <3>4. Line[m + 1].part = 1
      BY <1>3, <2>1, <3>3, NothingLeftBehind DEF m
    <3> QED BY <3>3, <3>4
  <2>3. Behind' = 1
    BY <1>4, <2>2 DEF Behind
  <2>4. cseq <= Line[i].cseq + givenUp /\ Line[i].cseq \in Nat
    BY <1>3, <1>5, <1>11, <2>1
  <2>5. ASSUME NEW x \in Nat, Line[i].cseq < x
        PROVE  cseq' + Behind' <= x + givenUp'
    <3>1. cseq' = cseq /\ givenUp' = givenUp
      OBVIOUS
    <3>2. cseq + 1 <= x + givenUp
      BY ONLY <1>5, <2>4, <2>5
    <3> QED BY <2>3, <3>1, <3>2
  <2>6. \A k \in 1 .. Len(Line') : Line'[k].part = 1 => cseq' + Behind' <= Line'[k].cseq + givenUp'
    BY <1>9, <2>5
  <2>7. \A j \in 1 .. Len(outbound') : cseq' + Behind' <= outbound'[j] + givenUp'
    BY <1>5, <1>10, <2>5
  <2> QED BY <2>2, <2>6, <2>7 DEF LagInv
<1>13. CASE Line[1].part # 1
  BY <1>4, <1>7, <1>12, <1>13 DEF ChannelInv
<1>14. CASE Line[1].part = 1
  <2>1. i = 1
    <3>1. 1 \in 1 .. m
      BY <1>8
    <3> QED BY <1>3, <1>14, <3>1
  <2>2. /\ Len(answers') = Len(answers) + 1 /\ Len(answers) \in Nat
        /\ \A k \in 1 .. Len(answers) : answers'[k] = answers[k]
        /\ answers'[Len(answers) + 1] = a
    BY <1>4, <1>5, <1>14
  <2>3. /\ a.request = cseq /\ a.response = Line[i].cseq /\ a.secure = encrypted
    BY <2>1 DEF a
  <2>4. Line[i].cseq \in Nat /\ Line[i].cseq <= cseq
    BY <1>1, <1>3, <1>5 DEF OrderInv
  <2>5. encrypted = TRUE \/ givenUp = 0 => cseq <= Line[i].cseq + givenUp
    <3>1. encrypted = TRUE \/ givenUp = 0 => Counted
      BY <1>1 DEF Counted, PhaseInv
    <3> QED BY <1>11, <3>1
  <2>6. \A k \in 1 .. Len(answers) : answers[k].response < Line[i].cseq
    BY <1>1, <1>3 DEF AnswerInv
  <2>7. \A k \in 1 .. Len(answers') : k \in 1 .. Len(answers) \/ k = Len(answers) + 1
    BY <2>2
  <2>8. \A k, l \in 1 .. Len(answers') : k < l => answers'[k].response < answers'[l].response
    <3> SUFFICES ASSUME NEW k \in 1 .. Len(answers'), NEW l \in 1 .. Len(answers'), k < l
                 PROVE  answers'[k].response < answers'[l].response
      OBVIOUS
    <3>1. k \in 1 .. Len(answers) /\ answers'[k] = answers[k]
      BY <2>2
    <3>2. CASE l \in 1 .. Len(answers)
      BY <1>1, <2>2, <3>1, <3>2 DEF AnswerInv
    <3>3. CASE l = Len(answers) + 1
      BY <2>2, <2>3, <2>6, <3>1, <3>3
    <3> QED BY <2>7, <3>2, <3>3
  <2>9. ASSUME NEW k \in 1 .. Len(answers')
        PROVE  /\ answers'[k].response <= answers'[k].request /\ answers'[k].request <= cseq'
               /\ phase' = "writing" => answers'[k].response < cseq'
               /\ answers'[k].secure = TRUE \/ givenUp' = 0 =>
                    answers'[k].request <= answers'[k].response + givenUp'
               /\ \A l \in 1 .. Len(Line') : Line'[l].part = 1 => answers'[k].response < Line'[l].cseq
               /\ \A j \in 1 .. Len(outbound') : answers'[k].response < outbound'[j]
    <3>1. CASE k = Len(answers) + 1
      <4>1. answers'[k] = a
        BY <2>2, <3>1
      <4>2. a.response <= a.request /\ a.request <= cseq'
        BY <1>5, <2>3, <2>4
      <4>3. a.secure = TRUE \/ givenUp' = 0 => a.request <= a.response + givenUp'
        BY <2>3, <2>5
      <4>4. \A l \in 1 .. Len(Line') : Line'[l].part = 1 => a.response < Line'[l].cseq
        BY <1>9, <2>3
      <4>5. \A j \in 1 .. Len(outbound') : a.response < outbound'[j]
        BY <1>10, <2>3
      <4> QED BY <1>4, <4>1, <4>2, <4>3, <4>4, <4>5
    <3>2. CASE k \in 1 .. Len(answers)
      <4>1. answers'[k] = answers[k]
        BY <2>2, <3>2
      <4>2. /\ answers[k].response <= answers[k].request /\ answers[k].request <= cseq
            /\ answers[k].secure = TRUE \/ givenUp = 0 => answers[k].request <= answers[k].response + givenUp
            /\ \A j \in 1 .. Len(outbound) : answers[k].response < outbound[j]
        BY <1>1, <3>2 DEF AnswerInv
      <4>3. \A l \in 1 .. Len(Line') : Line'[l].part = 1 => answers[k].response < Line'[l].cseq
        BY <1>1, <1>8, <3>2 DEF AnswerInv
      <4> QED BY <1>4, <4>1, <4>2, <4>3
    <3> QED BY <2>7, <3>1, <3>2
  <2>10. AnswerInv'
    BY <2>8, <2>9 DEF AnswerInv
  <2> QED BY <1>7, <1>12, <2>10 DEF ChannelInv
<1> QED BY <1>13, <1>14

LEMMA StepReadBlock ==
  ASSUME ChannelInv, ReadBlock
  PROVE  ChannelInv'
<1>1. /\ phase = "block" /\ ~skewed /\ inbound' = Tail(inbound) /\ Take(<<Head(inbound)>>)
      /\ UNCHANGED <<encrypted, cseq, outbound, skewed, deaf, alive, givenUp>>
  BY DEF ReadBlock
<1>2. ChannelType /\ PhaseInv
  BY DEF ChannelInv
<1>3. inbound \in Seq(Part) /\ inbound # <<>> /\ skewed = FALSE
  BY <1>1, <1>2 DEF ChannelType, PhaseInv
<1>4. /\ 1 \in 1 .. Len(inbound) /\ 1 \in 0 .. Len(inbound)
      /\ <<Head(inbound)>> = SubSeq(inbound, 1, 1) /\ Tail(inbound) = SubSeq(inbound, 1 + 1, Len(inbound))
  <2>1. Len(inbound) \in Nat /\ Len(inbound) > 0
    BY <1>3
  <2>2. <<Head(inbound)>> = SubSeq(inbound, 1, 1)
    BY <1>3, <2>1
  <2>3. Tail(inbound) = SubSeq(inbound, 1 + 1, Len(inbound))
    BY <1>3, <2>1
  <2> QED BY <2>1, <2>2, <2>3
<1> DEFINE read == partial \o <<Head(inbound)>>
<1>5. /\ CompleteAt(read) > 0 => Return(read)
      /\ ~(CompleteAt(read) > 0) =>
           phase' = Reading /\ partial' = read /\ UNCHANGED answers
  BY <1>1 DEF Take
<1>6. CASE CompleteAt(read) > 0
  BY <1>1, <1>3, <1>4, <1>5, <1>6, ReadDone
<1>7. CASE ~(CompleteAt(read) > 0)
  BY <1>1, <1>3, <1>4, <1>5, <1>7, ReadMore
<1> QED BY <1>6, <1>7

LEMMA StepReadPlain ==
  ASSUME ChannelInv, ReadPlain
  PROVE  ChannelInv'
<1>1. PICK n \in 1 .. Len(inbound) : /\ Take(SubSeq(inbound, 1, n))
                                     /\ inbound' = SubSeq(inbound, n + 1, Len(inbound))
  BY DEF ReadPlain
<1>2. phase = "plain" /\ UNCHANGED <<encrypted, cseq, outbound, skewed, deaf, alive, givenUp>>
  BY DEF ReadPlain
<1>3. n \in 0 .. Len(inbound)
  BY DEF ChannelInv, ChannelType
<1> DEFINE read == partial \o SubSeq(inbound, 1, n)
<1>4. /\ CompleteAt(read) > 0 => Return(read)
      /\ ~(CompleteAt(read) > 0) =>
           phase' = Reading /\ partial' = read /\ UNCHANGED answers
  BY <1>1 DEF Take
<1>5. CASE CompleteAt(read) > 0
  BY <1>1, <1>2, <1>4, <1>5, ReadDone
<1>6. CASE ~(CompleteAt(read) > 0)
  BY <1>1, <1>2, <1>3, <1>4, <1>6, ReadMore
<1> QED BY <1>5, <1>6

LEMMA ChannelStarts ==
  ASSUME ChannelInit
  PROVE  ChannelInv
<1>1. /\ encrypted = FALSE /\ phase = "idle" /\ cseq = 0 /\ partial = <<>> /\ outbound = <<>>
      /\ inbound = <<>> /\ skewed = FALSE /\ alive = TRUE /\ answers = <<>> /\ givenUp = 0
  BY DEF ChannelInit
<1>2. \A S : <<>> \in Seq(S)
  OBVIOUS
<1>3. ChannelType
  <2>1. partial \in Seq(Part) /\ inbound \in Seq(Part) /\ outbound \in Seq(Nat)
    BY <1>1, <1>2
  <2>2. answers \in Seq([request : Nat, response : Nat, secure : BOOLEAN])
    BY <1>1, <1>2
  <2> QED BY <1>1, <2>1, <2>2 DEF ChannelType
<1>4. Line = <<>>
  <2>1. <<>> \o <<>> = <<>>
    OBVIOUS
  <2> QED BY <1>1, <2>1 DEF Line
<1>5. PhaseInv
  BY <1>1 DEF PhaseInv
<1> HIDE DEF Line
<1>6. OrderInv /\ AnswerInv
  BY <1>1, <1>4 DEF OrderInv, AnswerInv, Blocks, HeadsRise, Rises
<1>7. LagInv
  BY <1>1, <1>4 DEF LagInv, Rest
<1> QED BY <1>3, <1>5, <1>6, <1>7 DEF ChannelInv

LEMMA ChannelStutters ==
  ASSUME ChannelInv, UNCHANGED channelVars
  PROVE  ChannelInv'
<1>1. UNCHANGED <<encrypted, phase, cseq, partial, outbound, inbound, skewed, deaf, alive, answers,
                  givenUp>>
  BY DEF channelVars
<1>2. ChannelType' /\ PhaseInv' /\ OrderInv' /\ AnswerInv' /\ LagInv'
  BY <1>1 DEF ChannelInv, ChannelType, PhaseInv, OrderInv, AnswerInv, LagInv, Line, Rest, Behind, Counted
<1> QED BY <1>2 DEF ChannelInv

LEMMA InOrder ==
  ASSUME ChannelInv
  PROVE  AnswersInOrder
<1>1. \A k \in 1 .. Len(answers) : answers[k].secure \in BOOLEAN
  BY LineIs DEF ChannelInv
<1> QED BY <1>1 DEF AnswersInOrder, ChannelInv, AnswerInv

LEMMA ChannelStays == ChannelSpec => []ChannelInv
<1>1. ChannelInit => ChannelInv
  BY ChannelStarts
<1>2. ChannelInv /\ [ChannelNext]_channelVars => ChannelInv'
  <2> SUFFICES ASSUME ChannelInv, [ChannelNext]_channelVars PROVE ChannelInv'
    OBVIOUS
  <2>1. CASE SetCipher
    BY <2>1, StepSetCipher
  <2>2. CASE Send
    BY <2>2, StepSend
  <2>3. CASE Written
    BY <2>3, StepWritten
  <2>4. CASE Answer
    BY <2>4, StepAnswer
  <2>5. CASE ReadLength
    BY <2>5, StepReadLength
  <2>6. CASE ReadBlock
    BY <2>6, StepReadBlock
  <2>7. CASE ReadGarbage
    BY <2>7, StepReadGarbage
  <2>8. CASE ReadPlain
    BY <2>8, StepReadPlain
  <2>9. CASE ReadNonsense
    BY <2>9, StepReadNonsense
  <2>10. CASE GiveUpCall
    BY <2>10, StepGiveUp
  <2>11. CASE Hangup
    BY <2>11, StepHangup
  <2>12. CASE Fails
    BY <2>12, StepFails
  <2>13. CASE UNCHANGED channelVars
    BY <2>13, ChannelStutters
  <2> QED BY <2>1, <2>2, <2>3, <2>4, <2>5, <2>6, <2>7, <2>8, <2>9, <2>10, <2>11, <2>12, <2>13
          DEF ChannelNext, Read
<1> QED BY <1>1, <1>2, PTL DEF ChannelSpec

\* No response is taken for the answer to two requests, none overtakes another, whatever is
\* given up and however the responses are cut; and on the encrypted channel a call gets a
\* response older than its own request by no more than the calls given up before it
\* (RtspConnection::send).
THEOREM AnswersStayInOrder == ChannelSpec => []AnswersInOrder
<1>1. ChannelInv => AnswersInOrder
  BY InOrder
<1> QED BY <1>1, ChannelStays, PTL

\* A request is numbered once it is being written, and only numbered ones are out.
RequestsInv ==
  /\ cseq \in 0 .. MaxRequests /\ deaf \in BOOLEAN
  /\ outbound \in Seq(1 .. MaxRequests)
  /\ phase # "idle" => cseq # 0

LEMMA RequestsDelivered ==
  ASSUME RequestsInv, cseq # 0, Deliver
  PROVE  outbound' \in Seq(1 .. MaxRequests)
<1>1. cseq \in 1 .. MaxRequests
  BY ChannelAssumption DEF RequestsInv
<1>2. outbound' = outbound \/ outbound' = Append(outbound, cseq)
  BY DEF Deliver
<1>3. outbound \in Seq(1 .. MaxRequests)
  BY DEF RequestsInv
<1>4. Append(outbound, cseq) \in Seq(1 .. MaxRequests)
  BY <1>1, <1>3
<1> QED BY <1>2, <1>3, <1>4

LEMMA RequestsStep ==
  ASSUME RequestsInv, [ChannelNext]_channelVars
  PROVE  RequestsInv'
<1>1. cseq \in 0 .. MaxRequests /\ MaxRequests \in Nat /\ deaf \in BOOLEAN
      /\ outbound \in Seq(1 .. MaxRequests) /\ (phase # "idle" => cseq # 0)
  BY ChannelAssumption DEF RequestsInv
<1>2. CASE SetCipher
  BY <1>1, <1>2 DEF SetCipher, RequestsInv
<1>3. CASE Send
  <2>1. cseq' = cseq + 1 /\ cseq < MaxRequests /\ UNCHANGED <<outbound, deaf>>
    BY <1>3 DEF Send
  <2>2. cseq' \in 0 .. MaxRequests /\ cseq' # 0
    BY <1>1, <2>1
  <2> QED BY <1>1, <2>1, <2>2 DEF RequestsInv
<1>4. CASE Written
  <2>1. phase = "writing" /\ Deliver /\ UNCHANGED <<cseq, deaf>>
    BY <1>4 DEF Written
  <2> QED BY <1>1, <2>1, RequestsDelivered DEF RequestsInv
<1>5. CASE Answer
  <2>1. outbound # <<>> /\ outbound' = Tail(outbound) /\ UNCHANGED <<phase, cseq, deaf>>
    BY <1>5 DEF Answer
  <2>2. outbound' \in Seq(1 .. MaxRequests)
    BY <1>1, <2>1
  <2> QED BY <1>1, <2>1, <2>2 DEF RequestsInv
<1>6. CASE Read
  <2>1. UNCHANGED <<cseq, outbound, deaf>> /\ phase # "idle"
    BY <1>6 DEF Read, ReadLength, ReadBlock, ReadGarbage, ReadPlain, ReadNonsense
  <2> QED BY <1>1, <2>1 DEF RequestsInv
<1>7. CASE GiveUpCall
  <2>1. phase # "idle" /\ phase' = "idle" /\ UNCHANGED cseq
    BY <1>7 DEF GiveUpCall
  <2>2. \/ Deliver /\ UNCHANGED deaf
        \/ UNCHANGED outbound /\ deaf' \in BOOLEAN
    BY <1>1, <1>7 DEF GiveUpCall
  <2>3. outbound' \in Seq(1 .. MaxRequests) /\ deaf' \in BOOLEAN
    BY <1>1, <2>1, <2>2, RequestsDelivered
  <2> QED BY <1>1, <2>1, <2>3 DEF RequestsInv
<1>8. CASE Hangup
  <2>1. outbound' = <<>> /\ UNCHANGED <<phase, cseq, deaf>>
    BY <1>8 DEF Hangup
  <2>2. outbound' \in Seq(1 .. MaxRequests)
    BY <2>1
  <2> QED BY <1>1, <2>1, <2>2 DEF RequestsInv
<1>9. CASE Fails
  BY <1>1, <1>9 DEF Fails, RequestsInv
<1>10. CASE UNCHANGED channelVars
  BY <1>1, <1>10 DEF channelVars, RequestsInv
<1> QED BY <1>2, <1>3, <1>4, <1>5, <1>6, <1>7, <1>8, <1>9, <1>10 DEF ChannelNext

\* The channel keeps its types: requests are numbered within their bound, and the second half
\* of a block is awaited only while one is on the socket, whatever was given up or lost
\* (RtspConnection::send, read_encrypted_response).
THEOREM ChannelTypesHold == ChannelSpec => []ChannelTypeOK
<1>1. ChannelInit => RequestsInv
  <2> SUFFICES ASSUME ChannelInit PROVE RequestsInv
    OBVIOUS
  <2>1. cseq = 0 /\ outbound = <<>> /\ deaf = FALSE /\ phase = "idle"
    BY DEF ChannelInit
  <2>2. <<>> \in Seq(1 .. MaxRequests)
    OBVIOUS
  <2>3. 0 \in 0 .. MaxRequests
    BY ChannelAssumption
  <2> QED BY <2>1, <2>2, <2>3 DEF RequestsInv
<1>2. RequestsInv /\ [ChannelNext]_channelVars => RequestsInv'
  BY RequestsStep
<1>3. ChannelInv /\ RequestsInv => ChannelTypeOK
  BY DEF ChannelInv, ChannelType, PhaseInv, RequestsInv, ChannelTypeOK
<1> QED BY <1>1, <1>2, <1>3, ChannelStays, PTL DEF ChannelSpec
=============================================================================
