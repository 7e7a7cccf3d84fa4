------------------------ MODULE AudioStreamerProofs ------------------------
(* The safety properties of AudioStreamer, proved for every value of its     *)
(* constants: any depth of channel and buffer, any file, any number of calls. *)
EXTENDS AudioStreamer, FiniteSetTheorems, TLAPS

-----------------------------------------------------------------------------
(* Type correctness.  That the channel never exceeds Depth rests on the      *)
(* blocking send holding at most one message.                                *)

OneInHand == Len(inflight) <= 1 /\ Len(hand) <= 1

TypeInv == TypeOK /\ OneInHand

LEMMA SmallerType ==
  ASSUME NEW a \in Nat, NEW b \in Nat
  PROVE  Smaller(a, b) \in Nat /\ Smaller(a, b) <= a /\ Smaller(a, b) <= b
  BY DEF Smaller

\* A decode pass returns no more than the batch, the source and the buffer allow.
LEMMA DecodedBound ==
  ASSUME TypeOK, StreamerAssumption, NEW batch \in Nat
  PROVE  /\ Decoded(batch) \in Nat
         /\ Decoded(batch) <= avail
         /\ fill + Decoded(batch) \in 0..BufCap
  <1>1. BufCap - fill \in Nat /\ avail \in Nat /\ fill \in Nat
    BY DEF TypeOK, InnerTypes, SourceTypes, StreamerAssumption
  <1>2. Smaller(BufCap - fill, avail) \in Nat
        /\ Smaller(BufCap - fill, avail) <= BufCap - fill
        /\ Smaller(BufCap - fill, avail) <= avail
    BY <1>1, SmallerType
  <1>3. Smaller(batch, Smaller(BufCap - fill, avail)) \in Nat
        /\ Smaller(batch, Smaller(BufCap - fill, avail)) <= Smaller(BufCap - fill, avail)
    BY <1>2, SmallerType
  <1> QED BY <1>1, <1>2, <1>3 DEF Decoded, StreamerAssumption

LEMMA DecodeType ==
  ASSUME TypeOK, StreamerAssumption, NEW batch \in Nat, Decode(batch)
  PROVE  avail' \in Nat /\ eof' \in BOOLEAN
  <1>1. Decoded(batch) \in Nat /\ Decoded(batch) <= avail
    BY DecodedBound
  <1>2. avail' = avail - Decoded(batch)
    BY DEF Decode
  <1>3. avail' \in Nat
    BY <1>1, <1>2 DEF TypeOK, SourceTypes
  <1>4. eof' \in BOOLEAN
    BY DEF Decode, TypeOK, InnerTypes, MeetsEnd
  <1> QED BY <1>3, <1>4

\* try_send keeps the channel within its depth.
LEMMA TrySendType ==
  ASSUME TypeOK, StreamerAssumption, NEW k \in Kinds, TrySend(k)
  PROVE  ChannelTypes'
  <1>1. Control(k) \in Message
    BY DEF Control, Message, Kinds
  <1>2. CASE Room
    BY <1>1, <1>2 DEF TrySend, TypeOK, ChannelTypes, Room, StreamerAssumption
  <1>3. CASE ~Room
    BY <1>3 DEF TrySend, TypeOK, ChannelTypes
  <1> QED BY <1>2, <1>3

LEMMA PacketType == TypeOK => Packet \in Message
  BY DEF TypeOK, InnerTypes, Packet, Message, Kinds

LEMMA InitTypeInv == StreamerAssumption /\ Init => TypeInv
  <1> SUFFICES ASSUME StreamerAssumption, Init PROVE TypeInv
    OBVIOUS
  <1>1. OwnerTypes
    BY DEF Init, OwnerTypes, StreamerAssumption
  <1>2. InnerTypes
    <2>1. state \in States /\ cache \in States
      BY DEF Init, States
    <2>2. fill \in 0..BufCap /\ position \in Nat /\ prepared \in Nat
      BY DEF Init, StreamerAssumption
    <2>3. decoder \in {"none", "file", "live"} /\ eof \in BOOLEAN /\ firstSent \in BOOLEAN
      BY DEF Init
    <2> QED BY <2>1, <2>2, <2>3 DEF InnerTypes
  <1>3. SourceTypes /\ flushed \in BOOLEAN /\ atPause \in Pauses
    BY DEF Init, SourceTypes, StreamerAssumption, Unpaused, Pauses
  <1>4. TaskTypes
    <2>1. inflight \in Seq(Message)
      BY DEF Init
    <2>2. task = "none" /\ cancelled \in BOOLEAN
      BY DEF Init
    <2> QED BY <2>1, <2>2 DEF TaskTypes
  <1>7. OneInHand
    BY DEF Init, OneInHand
  <1>5. ChannelTypes
    BY DEF Init, ChannelTypes, StreamerAssumption
  <1>6. SenderTypes
    BY DEF Init, SenderTypes
  <1> QED BY <1>1, <1>2, <1>3, <1>4, <1>5, <1>6, <1>7 DEF TypeInv, TypeOK

LEMMA SpawnType ==
  ASSUME Spawn
  PROVE  /\ owner' = "ready" /\ task' = "check" /\ sender' \in {"run", "none"}
         /\ ownTx' \in BOOLEAN /\ cloneTx' \in BOOLEAN
  BY DEF Spawn

\* The owner's steps.
LEMMA OwnerTypeInv ==
  ASSUME StreamerAssumption, TypeInv, OwnerCalls \/ OwnerSteps
  PROVE  TypeInv'
  <1> USE DEF TypeInv, TypeOK
  <1>a. Batch \in Nat /\ BufCap \in Nat /\ FileLen \in Nat
    BY DEF StreamerAssumption
  <1>b. TypeOK /\ {"Pause", "Resume", "Stop"} \subseteq Kinds
    BY DEF Kinds
  <1>1. CASE StartFile
    <2>0. eof' \in BOOLEAN
      BY <1>1, Zenon DEF StartFile
    <2>1. PICK n \in Nat : n <= FileLen /\ n <= BufCap /\ fill' = n /\ avail' = FileLen - n
      <3> DEFINE n == Smaller(Batch, Smaller(BufCap, FileLen))
      <3>1. Smaller(BufCap, FileLen) \in Nat /\ Smaller(BufCap, FileLen) <= BufCap
            /\ Smaller(BufCap, FileLen) <= FileLen
        BY <1>a, SmallerType
      <3>2. Smaller(Batch, Smaller(BufCap, FileLen)) \in Nat
            /\ Smaller(Batch, Smaller(BufCap, FileLen)) <= Smaller(BufCap, FileLen)
        BY <1>a, <3>1, SmallerType
      <3>3. fill' = n /\ avail' = FileLen - n
        BY <1>1 DEF StartFile
      <3>4. n \in Nat /\ n <= FileLen /\ n <= BufCap
        BY <1>a, <3>1, <3>2
      <3> QED BY <3>3, <3>4
    <2>2. InnerTypes'
      <3>1. state' \in States /\ cache' \in States
        BY <1>1 DEF StartFile, States
      <3>2. fill' \in 0..BufCap /\ decoder' = "file"
        BY <1>1, <1>a, <2>1 DEF StartFile
      <3> QED BY <1>1, <2>0, <3>1, <3>2 DEF StartFile, InnerTypes
    <2>3. OwnerTypes' /\ task' = "check" /\ sender' \in {"run", "none"}
      BY <1>1, SpawnType DEF StartFile, OwnerTypes
    <2>4. SourceTypes'
      <3>1. avail' \in Nat
        BY <1>a, <2>1
      <3> QED BY <1>1, <3>1 DEF StartFile, SourceTypes
    <2> QED BY <1>1, <2>2, <2>3, <2>4
            DEF StartFile, TaskTypes, ChannelTypes, SenderTypes, OneInHand
  <1>2. CASE StartLive
    <2>1. InnerTypes' /\ OwnerTypes'
      BY <1>2 DEF StartLive, InnerTypes, OwnerTypes, States
    <2> QED BY <1>2, <2>1 DEF StartLive, SourceTypes, TaskTypes, ChannelTypes, SenderTypes,
                              OneInHand, sourceVars, taskVars, senderVars
  <1>3. CASE PrefillRound
    <2>1. avail' \in Nat /\ eof' \in BOOLEAN /\ fill' \in 0..BufCap
      BY <1>3, <1>a, <1>b, DecodeType, DecodedBound DEF PrefillRound
    <2>2. InnerTypes'
      BY <1>3, <2>1 DEF PrefillRound, InnerTypes, States
    <2>3. OwnerTypes' /\ TaskTypes' /\ SenderTypes'
      <3>1. CASE Spawn
        BY <1>3, <3>1, SpawnType DEF PrefillRound, OwnerTypes, TaskTypes, SenderTypes
      <3>2. CASE UNCHANGED <<state, cache, task, sender, ownTx, cloneTx, owner>>
        BY <1>3, <3>2 DEF PrefillRound, OwnerTypes, TaskTypes, SenderTypes
      <3> QED BY <1>3, <3>1, <3>2 DEF PrefillRound
    <2> QED BY <1>3, <2>1, <2>2, <2>3
            DEF PrefillRound, SourceTypes, ChannelTypes, OneInHand
  <1>4. CASE StartFails
    <2>1. InnerTypes' /\ OwnerTypes'
      BY <1>4 DEF StartFails, InnerTypes, OwnerTypes, States
    <2> QED BY <1>4, <2>1 DEF StartFails, SourceTypes, TaskTypes, ChannelTypes, SenderTypes,
                              OneInHand, sourceVars, taskVars, senderVars
  <1>5. CASE Pause
    <2>1. ChannelTypes'
      BY <1>5, <1>b, TrySendType DEF Pause, ChannelTypes
    <2>2. InnerTypes' /\ atPause' \in Pauses
      <3>1. (ownTx /\ Room) \in BOOLEAN
        BY DEF OwnerTypes, Room
      <3>2. CASE state = "Streaming"
        <4>1. atPause' = [on |-> TRUE, packets |-> prepared, told |-> ownTx /\ Room,
                          undone |-> FALSE]
          BY <1>5, <3>2 DEF Pause
        <4>2. prepared \in Nat
          BY DEF InnerTypes
        <4>3. atPause' \in Pauses
          BY <3>1, <4>1, <4>2 DEF Pauses
        <4> QED BY <1>5, <3>2, <4>3 DEF Pause, InnerTypes, States
      <3>3. CASE state # "Streaming"
        BY <1>5, <3>3 DEF Pause, InnerTypes
      <3> QED BY <3>2, <3>3
    <2>3. OwnerTypes'
      BY <1>5 DEF Pause, OwnerTypes
    <2> QED BY <1>5, <2>1, <2>2, <2>3 DEF Pause, SourceTypes, TaskTypes, SenderTypes,
                              OneInHand, sourceVars, taskVars, senderVars
  <1>6. CASE ResetAfterFlush
    <2>1. InnerTypes' /\ OwnerTypes'
      BY <1>6 DEF ResetAfterFlush, InnerTypes, OwnerTypes
    <2> QED BY <1>6, <2>1 DEF ResetAfterFlush, SourceTypes, TaskTypes, ChannelTypes,
                              SenderTypes, OneInHand, sourceVars, taskVars, senderVars
  <1>7. CASE FlushFails
    <2>1. InnerTypes' /\ OwnerTypes'
      BY <1>7 DEF FlushFails, InnerTypes, OwnerTypes, innerVars
    <2> QED BY <1>7, <2>1 DEF FlushFails, SourceTypes, TaskTypes, ChannelTypes,
                              SenderTypes, OneInHand, sourceVars, taskVars, senderVars
  <1>8. CASE Resume
    <2>1. ChannelTypes'
      BY <1>8, <1>b, TrySendType DEF Resume, ChannelTypes
    <2>2. InnerTypes' /\ OwnerTypes' /\ atPause' \in Pauses
      BY <1>8 DEF Resume, InnerTypes, OwnerTypes, States, Unpaused, Pauses
    <2> QED BY <1>8, <2>1, <2>2 DEF Resume, SourceTypes, TaskTypes, SenderTypes,
                              OneInHand, sourceVars, taskVars, senderVars
  <1>9. CASE Seek
    <2>1. InnerTypes' /\ SourceTypes'
      <3>1. fill' \in 0..BufCap
        BY <1>9, <1>a DEF Seek
      <3>2. position' \in Nat /\ avail' \in Nat /\ eof' \in BOOLEAN
        <4>1. CASE UNCHANGED <<position, avail, eof>>
          BY <4>1 DEF InnerTypes, SourceTypes
        <4>2. CASE \E target \in 0..FileLen :
                     /\ position' = target
                     /\ IF decoder = "file" THEN avail' = FileLen - target /\ eof' = FALSE
                                            ELSE UNCHANGED <<avail, eof>>
          <5>1. PICK target \in 0..FileLen :
                  /\ position' = target
                  /\ IF decoder = "file" THEN avail' = FileLen - target /\ eof' = FALSE
                                         ELSE UNCHANGED <<avail, eof>>
            BY <4>2
          <5>2. FileLen - target \in Nat /\ target \in Nat
            BY <1>a
          <5> QED BY <5>1, <5>2 DEF InnerTypes, SourceTypes
        <4> QED BY <1>9, <4>1, <4>2 DEF Seek
      <3> QED BY <1>9, <3>1, <3>2 DEF Seek, InnerTypes, SourceTypes
    <2>2. OwnerTypes'
      BY <1>9 DEF Seek, OwnerTypes
    <2> QED BY <1>9, <2>1, <2>2 DEF Seek, TaskTypes, ChannelTypes, SenderTypes,
                              OneInHand, taskVars, senderVars
  <1>10. CASE StopBegin
    <2>1. ChannelTypes'
      BY <1>10, <1>b, TrySendType DEF StopBegin, ChannelTypes
    <2>2. InnerTypes' /\ OwnerTypes'
      BY <1>10 DEF StopBegin, InnerTypes, OwnerTypes, States
    <2> QED BY <1>10, <2>1, <2>2 DEF StopBegin, SourceTypes, TaskTypes, SenderTypes,
                              OneInHand, sourceVars, taskVars, senderVars
  <1>11. CASE StopJoined
    <2>1. InnerTypes' /\ OwnerTypes'
      BY <1>11 DEF StopJoined, InnerTypes, OwnerTypes, innerVars
    <2> QED BY <1>11, <2>1 DEF StopJoined, SourceTypes, TaskTypes, ChannelTypes,
                              SenderTypes, OneInHand, sourceVars, senderVars
  <1>12. CASE StopFinish
    <2>1. InnerTypes' /\ OwnerTypes'
      BY <1>12, <1>a DEF StopFinish, InnerTypes, OwnerTypes, States
    <2> QED BY <1>12, <2>1 DEF StopFinish, SourceTypes, TaskTypes, ChannelTypes,
                              SenderTypes, OneInHand, sourceVars, taskVars, senderVars
  <1> QED BY <1>1, <1>2, <1>3, <1>4, <1>5, <1>6, <1>7, <1>8, <1>9, <1>10, <1>11, <1>12
          DEF OwnerCalls, OwnerSteps

\* The steps of the capture thread and of run_streamer.
LEMMA TaskTypeInv ==
  ASSUME StreamerAssumption, TypeInv, CaptureNext \/ TaskNext
  PROVE  TypeInv'
  <1> USE DEF TypeInv, TypeOK
  <1>a. Batch \in Nat /\ BufCap \in Nat
    BY DEF StreamerAssumption
  <1>b. TypeOK /\ {"Pause", "Resume", "Stop"} \subseteq Kinds
    BY DEF Kinds
  <1>1. CASE CaptureNext
    <2>1. SourceTypes'
      <3>1. CASE Capture
        BY <3>1 DEF Capture, SourceTypes
      <3>2. CASE CaptureEnds
        BY <3>2 DEF CaptureEnds, SourceTypes
      <3> QED BY <1>1, <3>1, <3>2 DEF CaptureNext
    <2>2. OwnerTypes' /\ InnerTypes'
      BY <1>1 DEF CaptureNext, Capture, CaptureEnds, OwnerTypes, InnerTypes, ownerVars, innerVars
    <2> QED BY <1>1, <2>1, <2>2 DEF CaptureNext, Capture, CaptureEnds, TaskTypes, ChannelTypes,
                              SenderTypes, OneInHand, taskVars, senderVars
  <1>2. CASE TaskCheck
    <2>1. TaskTypes'
      BY <1>2 DEF TaskCheck, Loop, TaskTypes
    <2>2. OwnerTypes' /\ InnerTypes'
      BY <1>2 DEF TaskCheck, OwnerTypes, InnerTypes, ownerVars, innerVars
    <2> QED BY <1>2, <2>1, <2>2 DEF TaskCheck, SourceTypes, ChannelTypes, SenderTypes,
                              OneInHand, sourceVars, senderVars
  <1>3. CASE WorkEof
    <2>1. avail' \in Nat /\ eof' \in BOOLEAN
      BY <1>3, <1>a, <1>b, DecodeType DEF WorkEof
    <2>2. InnerTypes' /\ SourceTypes'
      BY <1>3, <2>1 DEF WorkEof, InnerTypes, SourceTypes, States
    <2>3. OwnerTypes' /\ TaskTypes'
      BY <1>3 DEF WorkEof, OwnerTypes, TaskTypes, ownerVars
    <2> QED BY <1>3, <2>2, <2>3 DEF WorkEof, ChannelTypes, SenderTypes, OneInHand, senderVars
  <1>4. CASE WorkWait
    <2>1. avail' \in Nat /\ eof' \in BOOLEAN /\ fill' \in 0..BufCap
      BY <1>4, <1>a, <1>b, DecodeType, DecodedBound DEF WorkWait
    <2>2. InnerTypes' /\ SourceTypes'
      BY <1>4, <2>1 DEF WorkWait, InnerTypes, SourceTypes
    <2>3. OwnerTypes' /\ TaskTypes'
      BY <1>4 DEF WorkWait, Loop, OwnerTypes, TaskTypes, ownerVars
    <2> QED BY <1>4, <2>2, <2>3 DEF WorkWait, ChannelTypes, SenderTypes, OneInHand, senderVars
  <1>5. CASE WorkPacket
    <2>1. avail' \in Nat /\ eof' \in BOOLEAN
      BY <1>5, <1>a, <1>b, DecodeType DEF WorkPacket
    <2>2. fill' \in 0..BufCap
      <3> DEFINE f == fill + Decoded(Batch)
      <3>1. f \in 0..BufCap
        BY <1>a, <1>b, DecodedBound
      <3>2. f > 0 /\ fill' = f - 1
        BY <1>5 DEF WorkPacket
      <3> HIDE DEF f
      <3> QED BY <1>a, <3>1, <3>2
    <2>3. InnerTypes'
      <3>1. state' \in States /\ cache' \in States
        BY <1>5 DEF WorkPacket, InnerTypes, States
      <3>2. prepared' \in Nat /\ position' \in Nat /\ firstSent' = TRUE
        BY <1>5 DEF WorkPacket, InnerTypes
      <3> QED BY <1>5, <2>1, <2>2, <3>1, <3>2 DEF WorkPacket, InnerTypes
    <2>4. OwnerTypes' /\ SourceTypes'
      BY <1>5, <2>1 DEF WorkPacket, OwnerTypes, SourceTypes, ownerVars
    <2>5. CASE sender = "none"
      <3>1. wire' = Append(wire, Packet) /\ flushed' = FALSE /\ UNCHANGED inflight
            /\ task' \in {"check", "aborted"}
        BY <1>5, <2>5 DEF WorkPacket, Loop
      <3>2. SenderTypes'
        BY <1>5, <1>b, <3>1, PacketType DEF WorkPacket, SenderTypes
      <3>3. TaskTypes' /\ OneInHand'
        BY <1>5, <3>1 DEF WorkPacket, TaskTypes, OneInHand
      <3> QED BY <1>5, <2>3, <2>4, <3>1, <3>2, <3>3 DEF WorkPacket, ChannelTypes
    <2>6. CASE sender # "none"
      <3>1. UNCHANGED <<wire, flushed>> /\ inflight' = <<Packet>> /\ task' = "blocked"
        BY <1>5, <2>6 DEF WorkPacket
      <3>2. inflight' \in Seq(Message) /\ Len(inflight') = 1
        BY <1>b, <3>1, PacketType
      <3>3. TaskTypes' /\ OneInHand'
        BY <1>5, <3>1, <3>2 DEF WorkPacket, TaskTypes, OneInHand
      <3> QED BY <1>5, <2>3, <2>4, <3>1, <3>3 DEF WorkPacket, SenderTypes, ChannelTypes
    <2> QED BY <2>5, <2>6
  <1>6. CASE WorkUnderrun
    <2>1. avail' \in Nat /\ eof' \in BOOLEAN
      BY <1>6, <1>a, <1>b, DecodeType DEF WorkUnderrun
    <2>2. InnerTypes' /\ SourceTypes'
      BY <1>6, <2>1 DEF WorkUnderrun, InnerTypes, SourceTypes, States
    <2>3. OwnerTypes' /\ TaskTypes'
      BY <1>6 DEF WorkUnderrun, Loop, OwnerTypes, TaskTypes, ownerVars
    <2>4. atPause' \in Pauses
      BY <1>6 DEF WorkUnderrun, Pauses
    <2> QED BY <1>6, <2>2, <2>3, <2>4 DEF WorkUnderrun, ChannelTypes, SenderTypes, OneInHand,
                              senderVars
  <1>7. CASE WorkFails
    <2>1. InnerTypes' /\ OwnerTypes' /\ TaskTypes'
      BY <1>7 DEF WorkFails, InnerTypes, OwnerTypes, TaskTypes, States, ownerVars
    <2> QED BY <1>7, <2>1 DEF WorkFails, SourceTypes, ChannelTypes, SenderTypes, OneInHand,
                              sourceVars, senderVars
  <1>8. CASE SendCompletes
    <2>1. ChannelTypes'
      BY <1>8, <1>b DEF SendCompletes, Room, ChannelTypes, TaskTypes, OneInHand,
                        StreamerAssumption
    <2>2. OwnerTypes' /\ InnerTypes'
      BY <1>8 DEF SendCompletes, OwnerTypes, InnerTypes, ownerVars, innerVars
    <2>3. TaskTypes' /\ OneInHand'
      BY <1>8 DEF SendCompletes, Loop, TaskTypes, OneInHand, senderVars
    <2> QED BY <1>8, <2>1, <2>2, <2>3 DEF SendCompletes, SourceTypes, SenderTypes,
                              sourceVars, senderVars
  <1>9. CASE SendFails
    <2>1. InnerTypes' /\ OwnerTypes'
      BY <1>9 DEF SendFails, InnerTypes, OwnerTypes, States, ownerVars
    <2>2. TaskTypes' /\ OneInHand'
      BY <1>9 DEF SendFails, TaskTypes, OneInHand, senderVars
    <2> QED BY <1>9, <2>1, <2>2 DEF SendFails, SourceTypes, ChannelTypes, SenderTypes,
                              sourceVars, senderVars
  <1>10. CASE TaskExit
    <2>1. ChannelTypes'
      BY <1>10, <1>b, TrySendType DEF TaskExit, ChannelTypes
    <2>2. OwnerTypes' /\ InnerTypes'
      BY <1>10 DEF TaskExit, OwnerTypes, InnerTypes, ownerVars, innerVars
    <2> QED BY <1>10, <2>1, <2>2 DEF TaskExit, SourceTypes, TaskTypes, SenderTypes, OneInHand,
                              sourceVars, senderVars
  <1>11. CASE TaskCancelled
    <2>1. OwnerTypes' /\ InnerTypes'
      BY <1>11 DEF TaskCancelled, OwnerTypes, InnerTypes, ownerVars, innerVars
    <2>2. TaskTypes' /\ OneInHand'
      BY <1>11 DEF TaskCancelled, TaskTypes, OneInHand, senderVars
    <2> QED BY <1>11, <2>1, <2>2 DEF TaskCancelled, SourceTypes, ChannelTypes, SenderTypes,
                              sourceVars, senderVars
  <1> QED BY <1>1, <1>2, <1>3, <1>4, <1>5, <1>6, <1>7, <1>8, <1>9, <1>10, <1>11 DEF TaskNext

\* The steps of the rt-sender thread.
LEMMA SenderTypeInv ==
  ASSUME StreamerAssumption, TypeInv, SenderNext
  PROVE  TypeInv'
  <1> USE DEF TypeInv, TypeOK
  <1>a. UNCHANGED <<ownerVars, innerVars, sourceVars, taskVars, atPause>> /\ flushed' \in BOOLEAN
    BY DEF SenderNext, ReceiveStop, ReceivePause, ReceiveResume, ReceivePacket, Transmit,
           DiscardWhilePaused, Disconnected
  <1>1. OwnerTypes' /\ InnerTypes' /\ SourceTypes' /\ atPause' \in Pauses /\ flushed' \in BOOLEAN
    BY <1>a DEF OwnerTypes, InnerTypes, SourceTypes, ownerVars, innerVars, sourceVars
  <1>2. TaskTypes' /\ inflight' = inflight
    BY <1>a DEF TaskTypes, taskVars
  <1>3. CASE ReceiveStop \/ Disconnected
    <2>1. queue' = <<>> /\ sender' = "exited" /\ UNCHANGED <<hand, wire, discarded>>
      BY <1>3 DEF ReceiveStop, Disconnected, Exit
    <2>2. ChannelTypes'
      BY <2>1 DEF ChannelTypes, StreamerAssumption
    <2> QED BY <1>1, <1>2, <2>1, <2>2 DEF SenderTypes, OneInHand
  <1>4. ASSUME queue # <<>>, queue' = Tail(queue)
        PROVE  ChannelTypes' /\ Head(queue) \in Message /\ Head(queue).seq \in Nat
    <2>1. queue' \in Seq(Message) /\ Len(queue') <= Depth
      BY <1>4 DEF ChannelTypes, StreamerAssumption
    <2>2. Head(queue) \in Message
      BY <1>4 DEF ChannelTypes
    <2> QED BY <2>1, <2>2 DEF ChannelTypes, Message
  <1>5. CASE ReceivePause \/ ReceiveResume
    BY <1>1, <1>2, <1>4, <1>5 DEF ReceivePause, ReceiveResume, SenderTypes, OneInHand
  <1>6. CASE ReceivePacket
    <2>1. hand' \in Seq(Message) /\ Len(hand') = 1
      BY <1>4, <1>6 DEF ReceivePacket
    <2> QED BY <1>1, <1>2, <1>4, <1>6, <2>1 DEF ReceivePacket, SenderTypes, OneInHand
  <1>7. CASE Transmit
    BY <1>1, <1>2, <1>7 DEF Transmit, ChannelTypes, SenderTypes, OneInHand
  <1>8. CASE DiscardWhilePaused
    BY <1>1, <1>2, <1>4, <1>8 DEF DiscardWhilePaused, SenderTypes, OneInHand
  <1> QED BY <1>3, <1>5, <1>6, <1>7, <1>8 DEF SenderNext

LEMMA StepTypeInv == StreamerAssumption /\ TypeInv /\ [Next]_vars => TypeInv'
  <1>1. ASSUME TypeInv, UNCHANGED vars PROVE TypeInv'
    BY <1>1 DEF vars, ownerVars, innerVars, sourceVars, taskVars, senderVars, TypeInv, TypeOK,
                OwnerTypes, InnerTypes, SourceTypes, TaskTypes, ChannelTypes, SenderTypes,
                OneInHand
  <1> QED BY <1>1, OwnerTypeInv, TaskTypeInv, SenderTypeInv DEF Next

\* The variables keep their types; in particular the channel never holds more
\* than Depth messages and the buffer never more than BufCap frames.
THEOREM TypeCorrect == Spec => []TypeOK
  <1>1. TypeInv => TypeOK
    BY DEF TypeInv
  <1> QED BY <1>1, InitTypeInv, StepTypeInv, StreamerAssumption, PTL DEF Spec

-----------------------------------------------------------------------------
(* Who holds what.  A packet is in the thread's hand only while it waits for *)
(* its deadline, and in the blocking send only while the task is blocked, so *)
(* no handover overwrites one; the channel is empty before the thread exists *)
(* and after it exits; no thread or task exists before the start; and        *)
(* abort() and the last section of stop() come after the join.               *)

Custody ==
  /\ sender # "deadline" => hand = <<>>
  /\ task # "blocked" => inflight = <<>>
  /\ task = "blocked" => sender # "none"
  /\ sender \in {"none", "exited"} => queue = <<>>
  /\ owner \in {"idle", "prefill"} => sender = "none" /\ task = "none" /\ ~cancelled
  /\ owner \in {"aborted", "stopped"} \/ cancelled => sender \in {"none", "exited"}

LEMMA InitCustody == Init => Custody
  BY DEF Init, Custody

LEMMA StepCustody == TypeOK /\ Custody /\ [Next]_vars => Custody'
  <1> SUFFICES ASSUME TypeOK, Custody, [Next]_vars PROVE Custody'
    OBVIOUS
  <1> USE DEF Custody
  <1>1. CASE StartFile
    BY <1>1 DEF StartFile, Spawn
  <1>2. CASE PrefillRound
    BY <1>2 DEF PrefillRound, Spawn
  <1>3. CASE StartLive \/ StartFails
    BY <1>3 DEF StartLive, StartFails, taskVars, senderVars
  <1>a. ASSUME NEW k, TrySend(k), sender \in {"none", "exited"} PROVE queue' = queue
    BY <1>a DEF TrySend, Room, ReceiverAlive
  <1>4. CASE Pause \/ Resume \/ StopBegin
    BY <1>4, <1>a DEF Pause, Resume, StopBegin, taskVars, senderVars
  <1>5. CASE ResetAfterFlush \/ FlushFails \/ Seek \/ StopJoined \/ StopFinish
    BY <1>5 DEF ResetAfterFlush, FlushFails, Seek, StopJoined, StopFinish, taskVars, senderVars
  <1>6. CASE CaptureNext
    BY <1>6 DEF CaptureNext, Capture, CaptureEnds, ownerVars, taskVars, senderVars
  <1>7. CASE TaskCheck
    BY <1>7 DEF TaskCheck, Loop, ownerVars, senderVars
  <1>8. CASE WorkEof \/ WorkWait \/ WorkUnderrun \/ WorkFails
    BY <1>8 DEF WorkEof, WorkWait, WorkUnderrun, WorkFails, Loop, ownerVars, senderVars
  <1>9. CASE WorkPacket
    BY <1>9 DEF WorkPacket, Loop, ownerVars
  <1>10. CASE TaskExit
    BY <1>10, <1>a DEF TaskExit, ownerVars, senderVars
  <1>11. CASE SendCompletes \/ SendFails \/ TaskCancelled
    BY <1>11 DEF SendCompletes, SendFails, TaskCancelled, Loop, Room, ReceiverAlive, ownerVars,
                 senderVars
  <1>12. CASE SenderNext
    BY <1>12 DEF SenderNext, ReceiveStop, ReceivePause, ReceiveResume, ReceivePacket, Transmit,
                 DiscardWhilePaused, Disconnected, Exit, ownerVars, taskVars
  <1>13. CASE UNCHANGED vars
    BY <1>13 DEF vars, ownerVars, taskVars, senderVars
  <1> QED BY <1>1, <1>2, <1>3, <1>4, <1>5, <1>6, <1>7, <1>8, <1>9, <1>10, <1>11, <1>12, <1>13
          DEF Next, OwnerCalls, OwnerSteps, TaskNext

-----------------------------------------------------------------------------
(* pause() and the task. *)

\* While a pause is in force and no underrun has overwritten it, the task passes no
\* check; one that had passed it when pause() ran has prepared nothing since.
PauseInv ==
  /\ owner \in {"idle", "prefill"} => ~atPause.on
  /\ atPause.on /\ ~atPause.undone =>
       /\ state \in {"Paused", "Stopped", "Error"}
       /\ prepared <= atPause.packets + 1
       /\ task = "work" => prepared = atPause.packets

LEMMA StepPauseInv == TypeOK /\ PauseInv /\ [Next]_vars => PauseInv'
  <1> SUFFICES ASSUME TypeOK, PauseInv, [Next]_vars PROVE PauseInv'
    OBVIOUS
  <1>a. prepared \in Nat /\ atPause.packets \in Nat /\ atPause.on \in BOOLEAN
        /\ atPause.undone \in BOOLEAN /\ atPause \in Pauses
    BY DEF TypeOK, InnerTypes, Pauses
  <1> USE DEF PauseInv
  <1>1. CASE StartFile \/ PrefillRound
    BY <1>a, <1>1 DEF StartFile, PrefillRound, Spawn
  <1>2. CASE StartLive \/ StartFails
    BY <1>a, <1>2 DEF StartLive, StartFails, taskVars
  <1>3. CASE Pause
    <2>1. CASE state = "Streaming"
      <3>1. atPause'.packets = prepared /\ prepared' = prepared /\ state' = "Paused"
            /\ owner' = "flush"
        BY <1>3, <2>1 DEF Pause
      <3> QED BY <1>a, <3>1
    <2>2. CASE state # "Streaming"
      BY <1>a, <1>3, <2>2 DEF Pause, taskVars
    <2> QED BY <2>1, <2>2
  <1>4. CASE Resume
    BY <1>4 DEF Resume, Unpaused
  <1>5. CASE ResetAfterFlush \/ FlushFails \/ Seek \/ StopBegin \/ StopJoined \/ StopFinish
    BY <1>a, <1>5 DEF ResetAfterFlush, FlushFails, Seek, StopBegin, StopJoined, StopFinish,
                      innerVars, taskVars
  <1>6. CASE CaptureNext
    BY <1>a, <1>6 DEF CaptureNext, Capture, CaptureEnds, ownerVars, innerVars, taskVars
  <1>7. CASE TaskCheck
    BY <1>a, <1>7 DEF TaskCheck, Loop, ownerVars, innerVars
  <1>8. CASE WorkEof \/ WorkWait \/ WorkFails
    BY <1>a, <1>8 DEF WorkEof, WorkWait, WorkFails, Loop, ownerVars
  <1>9. CASE WorkUnderrun
    <2>1. atPause'.undone = atPause.on /\ atPause'.on = atPause.on
      BY <1>a, <1>9 DEF WorkUnderrun, Pauses
    <2> QED BY <1>a, <1>9, <2>1 DEF WorkUnderrun, ownerVars
  <1>10. CASE WorkPacket
    <2>1. prepared' = prepared + 1 /\ atPause' = atPause /\ task = "work" /\ task' # "work"
          /\ owner' = owner
      BY <1>10 DEF WorkPacket, Loop, ownerVars
    <2>2. state # "Buffering" => state' = state
      BY <1>10 DEF WorkPacket
    <2> QED BY <1>a, <2>1, <2>2
  <1>11. CASE SendCompletes \/ SendFails \/ TaskExit \/ TaskCancelled
    BY <1>a, <1>11 DEF SendCompletes, SendFails, TaskExit, TaskCancelled, Loop, ownerVars,
                       innerVars
  <1>12. CASE SenderNext
    BY <1>a, <1>12 DEF SenderNext, ReceiveStop, ReceivePause, ReceiveResume, ReceivePacket,
                       Transmit, DiscardWhilePaused, Disconnected, ownerVars, innerVars, taskVars
  <1>13. CASE UNCHANGED vars
    BY <1>13 DEF vars, ownerVars, innerVars, taskVars
  <1> QED BY <1>1, <1>2, <1>3, <1>4, <1>5, <1>6, <1>7, <1>8, <1>9, <1>10, <1>11, <1>12, <1>13
          DEF Next, OwnerCalls, OwnerSteps, TaskNext

-----------------------------------------------------------------------------
(* stop() and what is transmitted after it. *)

\* Nothing is left to transmit: no frames to pop and no decoder to fill them from.
Drained == owner = "stopped" => fill = 0 /\ decoder = "none"

LEMMA NothingDecoded ==
  ASSUME decoder = "none", NEW batch
  PROVE  Decoded(batch) = 0
  BY DEF Decoded

LEMMA StepDrained == TypeOK /\ Drained /\ [Next]_vars => Drained'
  <1> SUFFICES ASSUME TypeOK, Drained, [Next]_vars PROVE Drained'
    OBVIOUS
  <1> USE DEF Drained
  <1>1. CASE OwnerCalls \/ OwnerSteps
    BY <1>1 DEF OwnerCalls, OwnerSteps, StartFile, StartLive, StartFails, Pause, Resume, Seek,
                StopBegin, PrefillRound, Spawn, ResetAfterFlush, FlushFails, StopJoined,
                StopFinish, innerVars
  <1>2. CASE CaptureNext
    BY <1>2 DEF CaptureNext, Capture, CaptureEnds, ownerVars, innerVars
  <1>3. CASE WorkWait
    BY <1>3, NothingDecoded DEF WorkWait, ownerVars
  <1>4. CASE WorkPacket
    BY <1>4, NothingDecoded DEF WorkPacket, ownerVars
  <1>5. CASE TaskNext /\ ~WorkWait /\ ~WorkPacket
    BY <1>5 DEF TaskNext, TaskCheck, WorkEof, WorkUnderrun, WorkFails, SendCompletes, SendFails,
                TaskExit, TaskCancelled, ownerVars, innerVars
  <1>6. CASE SenderNext
    BY <1>6 DEF SenderNext, ReceiveStop, ReceivePause, ReceiveResume, ReceivePacket,
                Transmit, DiscardWhilePaused, Disconnected, ownerVars, innerVars
  <1>7. CASE UNCHANGED vars
    BY <1>7 DEF vars, ownerVars, innerVars
  <1> QED BY <1>1, <1>2, <1>3, <1>4, <1>5, <1>6, <1>7 DEF Next

\* Only a thread that is alive, or a task with a frame to send, transmits.
LEMMA StepSilent == Custody /\ Drained /\ [Next]_vars => (owner = "stopped" => wire' = wire)
  <1> SUFFICES ASSUME Custody, Drained, [Next]_vars, owner = "stopped" PROVE wire' = wire
    OBVIOUS
  <1>1. sender \in {"none", "exited"} /\ fill = 0 /\ decoder = "none"
    BY DEF Custody, Drained
  <1>2. CASE OwnerCalls \/ OwnerSteps
    BY <1>2 DEF OwnerCalls, OwnerSteps, StartFile, StartLive, StartFails, Pause, Resume, Seek,
                StopBegin, PrefillRound, ResetAfterFlush, FlushFails, StopJoined, StopFinish,
                senderVars
  <1>3. CASE CaptureNext
    BY <1>3 DEF CaptureNext, Capture, CaptureEnds, senderVars
  <1>4. CASE WorkPacket
    BY <1>1, <1>4, NothingDecoded DEF WorkPacket
  <1>5. CASE TaskNext /\ ~WorkPacket
    BY <1>5 DEF TaskNext, TaskCheck, WorkEof, WorkWait, WorkUnderrun, WorkFails, SendCompletes,
                SendFails, TaskExit, TaskCancelled, senderVars
  <1>6. CASE SenderNext
    BY <1>1, <1>6 DEF SenderNext, ReceiveStop, ReceivePause, ReceiveResume, ReceivePacket,
                      Transmit, DiscardWhilePaused, Disconnected
  <1>7. CASE UNCHANGED vars
    BY <1>7 DEF vars, senderVars
  <1> QED BY <1>2, <1>3, <1>4, <1>5, <1>6, <1>7 DEF Next

\* Once stop() has returned nothing is transmitted, although the task it aborted
\* may still run to its next await.
THEOREM StopSilences == Spec => SilentAfterStop
  <1>1. Init => Drained
    BY DEF Init, Drained
  <1>2. Custody /\ Drained /\ [Next]_vars => [owner = "stopped" => wire' = wire]_vars
    BY StepSilent
  <1> QED BY <1>1, <1>2, TypeCorrect, InitCustody, StepCustody, StepDrained, PTL
          DEF Spec, SilentAfterStop

-----------------------------------------------------------------------------
(* state() and the cache behind it. *)

LEMMA StepCacheAgrees == TypeOK /\ CacheAgrees /\ [Next]_vars => CacheAgrees'
  <1> SUFFICES ASSUME TypeOK, CacheAgrees, [Next]_vars PROVE CacheAgrees'
    OBVIOUS
  <1> USE DEF CacheAgrees
  <1>1. CASE OwnerCalls
    BY <1>1 DEF OwnerCalls, StartFile, StartLive, StartFails, Pause, Resume, Seek, StopBegin
  <1>2. CASE OwnerSteps
    BY <1>2 DEF OwnerSteps, PrefillRound, ResetAfterFlush, FlushFails, StopJoined, StopFinish,
                innerVars
  <1>3. CASE CaptureNext
    BY <1>3 DEF CaptureNext, Capture, CaptureEnds, ownerVars, innerVars
  <1>4. CASE TaskNext
    BY <1>4 DEF TaskNext, TaskCheck, WorkEof, WorkWait, WorkPacket, WorkUnderrun, WorkFails,
                SendCompletes, SendFails, TaskExit, TaskCancelled, ownerVars, innerVars
  <1>5. CASE SenderNext
    BY <1>5 DEF SenderNext, ReceiveStop, ReceivePause, ReceiveResume, ReceivePacket,
                Transmit, DiscardWhilePaused, Disconnected, ownerVars, innerVars
  <1>6. CASE UNCHANGED vars
    BY <1>6 DEF vars, ownerVars, innerVars
  <1> QED BY <1>1, <1>2, <1>3, <1>4, <1>5, <1>6 DEF Next

\* The lock-free state_cache differs from the state only around stop() or to report
\* an error.
THEOREM CacheIsTruthful == Spec => []CacheAgrees
  <1>1. Init => CacheAgrees
    BY DEF Init, CacheAgrees
  <1> QED BY <1>1, StepCacheAgrees, TypeCorrect, PTL DEF Spec

-----------------------------------------------------------------------------
(* The order of packets.  Wire, hand, channel and blocking send follow one   *)
(* another, and what is in each was prepared before what is in the next.     *)

IsPacket(m) == m.kind = "Packet"

InOrder(s) ==
  \A i, j \in 1..Len(s) : i < j /\ IsPacket(s[i]) /\ IsPacket(s[j]) => s[i].seq < s[j].seq

Before(s, t) ==
  \A i \in 1..Len(s), j \in 1..Len(t) : IsPacket(s[i]) /\ IsPacket(t[j]) => s[i].seq < t[j].seq

Numbered(s, n) == \A i \in 1..Len(s) : IsPacket(s[i]) => s[i].seq < n

PacketsOnly(s) == \A i \in 1..Len(s) : IsPacket(s[i])

OrderInv ==
  /\ PacketsOnly(wire) /\ PacketsOnly(hand) /\ PacketsOnly(inflight)
  /\ InOrder(wire) /\ InOrder(queue)
  /\ Before(wire, hand) /\ Before(wire, queue) /\ Before(wire, inflight)
  /\ Before(hand, queue) /\ Before(hand, inflight) /\ Before(queue, inflight)
  /\ Numbered(wire, prepared) /\ Numbered(hand, prepared)
  /\ Numbered(queue, prepared) /\ Numbered(inflight, prepared)

\* Where an element of a concatenation comes from.
LEMMA ConcatElements ==
  ASSUME NEW s \in Seq(Message), NEW t \in Seq(Message), NEW i \in 1..Len(s \o t)
  PROVE  \/ i \in 1..Len(s) /\ (s \o t)[i] = s[i]
         \/ i > Len(s) /\ i - Len(s) \in 1..Len(t) /\ (s \o t)[i] = t[i - Len(s)]
  OBVIOUS

\* Joining two runs of packets.
LEMMA ConcatInOrder ==
  ASSUME NEW s \in Seq(Message), NEW t \in Seq(Message), InOrder(s), InOrder(t), Before(s, t)
  PROVE  InOrder(s \o t)
  <1> DEFINE c == s \o t
  <1> SUFFICES ASSUME NEW i \in 1..Len(c), NEW j \in 1..Len(c), i < j,
                      IsPacket(c[i]), IsPacket(c[j])
               PROVE  c[i].seq < c[j].seq
    BY DEF InOrder
  <1>1. \/ i \in 1..Len(s) /\ c[i] = s[i]
        \/ i > Len(s) /\ i - Len(s) \in 1..Len(t) /\ c[i] = t[i - Len(s)]
    BY ConcatElements
  <1>2. \/ j \in 1..Len(s) /\ c[j] = s[j]
        \/ j > Len(s) /\ j - Len(s) \in 1..Len(t) /\ c[j] = t[j - Len(s)]
    BY ConcatElements
  <1>3. Len(s) \in Nat /\ Len(c) \in Nat
    OBVIOUS
  <1> HIDE DEF c
  <1>4. CASE j \in 1..Len(s) /\ c[j] = s[j]
    <2>1. i \in 1..Len(s) /\ c[i] = s[i]
      BY <1>1, <1>3, <1>4
    <2> QED BY <1>4, <2>1 DEF InOrder
  <1>5. CASE j > Len(s) /\ j - Len(s) \in 1..Len(t) /\ c[j] = t[j - Len(s)]
    <2>1. CASE i \in 1..Len(s) /\ c[i] = s[i]
      BY <1>5, <2>1 DEF Before
    <2>2. CASE i > Len(s) /\ i - Len(s) \in 1..Len(t) /\ c[i] = t[i - Len(s)]
      <3>1. i - Len(s) < j - Len(s)
        BY <1>3
      <3> QED BY <1>5, <2>2, <3>1 DEF InOrder
    <2> QED BY <1>1, <2>1, <2>2
  <1> QED BY <1>2, <1>4, <1>5

LEMMA ConcatBefore ==
  ASSUME NEW s \in Seq(Message), NEW t \in Seq(Message), NEW u \in Seq(Message)
  PROVE  /\ Before(s, u) /\ Before(t, u) => Before(s \o t, u)
         /\ Before(u, s) /\ Before(u, t) => Before(u, s \o t)
  <1> DEFINE c == s \o t
  <1>1. ASSUME NEW i \in 1..Len(c)
        PROVE  \/ i \in 1..Len(s) /\ c[i] = s[i]
               \/ i - Len(s) \in 1..Len(t) /\ c[i] = t[i - Len(s)]
    BY ConcatElements
  <1> HIDE DEF c
  <1>2. Before(s, u) /\ Before(t, u) => Before(c, u)
    BY <1>1 DEF Before
  <1>3. Before(u, s) /\ Before(u, t) => Before(u, c)
    BY <1>1 DEF Before
  <1> QED BY <1>2, <1>3 DEF c

LEMMA ConcatNumbered ==
  ASSUME NEW s \in Seq(Message), NEW t \in Seq(Message), NEW n \in Nat
  PROVE  /\ Numbered(s, n) /\ Numbered(t, n) => Numbered(s \o t, n)
         /\ PacketsOnly(s) /\ PacketsOnly(t) => PacketsOnly(s \o t)
  <1> DEFINE c == s \o t
  <1>1. ASSUME NEW i \in 1..Len(c)
        PROVE  \/ i \in 1..Len(s) /\ c[i] = s[i]
               \/ i - Len(s) \in 1..Len(t) /\ c[i] = t[i - Len(s)]
    BY ConcatElements
  <1> HIDE DEF c
  <1>2. Numbered(s, n) /\ Numbered(t, n) => Numbered(c, n)
    BY <1>1 DEF Numbered
  <1>3. PacketsOnly(s) /\ PacketsOnly(t) => PacketsOnly(c)
    BY <1>1 DEF PacketsOnly
  <1> QED BY <1>2, <1>3 DEF c

\* Taking the first message off the channel.
LEMMA HeadAndTail ==
  ASSUME NEW q \in Seq(Message), q # <<>>, NEW t \in Seq(Message)
  PROVE  /\ InOrder(q) => InOrder(Tail(q)) /\ Before(<<Head(q)>>, Tail(q))
         /\ Before(q, t) => Before(<<Head(q)>>, t) /\ Before(Tail(q), t)
         /\ Before(t, q) => Before(t, <<Head(q)>>) /\ Before(t, Tail(q))
         /\ \A n \in Nat : Numbered(q, n) => Numbered(<<Head(q)>>, n) /\ Numbered(Tail(q), n)
  <1>1. /\ Head(q) = q[1] /\ Len(q) \in Nat \ {0} /\ Len(Tail(q)) = Len(q) - 1
        /\ \A i \in 1..Len(Tail(q)) : i + 1 \in 2..Len(q) /\ Tail(q)[i] = q[i + 1]
    OBVIOUS
  <1>2. Len(<<Head(q)>>) = 1 /\ <<Head(q)>>[1] = q[1]
    BY <1>1
  <1>3. InOrder(q) => InOrder(Tail(q))
    BY <1>1 DEF InOrder
  <1>4. InOrder(q) => Before(<<Head(q)>>, Tail(q))
    BY <1>1, <1>2 DEF InOrder, Before
  <1>5. Before(q, t) => Before(<<Head(q)>>, t) /\ Before(Tail(q), t)
    BY <1>1, <1>2 DEF Before
  <1>6. Before(t, q) => Before(t, <<Head(q)>>) /\ Before(t, Tail(q))
    BY <1>1, <1>2 DEF Before
  <1>7. \A n \in Nat : Numbered(q, n) => Numbered(<<Head(q)>>, n) /\ Numbered(Tail(q), n)
    BY <1>1, <1>2 DEF Numbered
  <1> QED BY <1>3, <1>4, <1>5, <1>6, <1>7

\* A control message disturbs no order.
LEMMA AppendControl ==
  ASSUME NEW q \in Seq(Message), NEW t \in Seq(Message), NEW m \in Message, ~IsPacket(m)
  PROVE  /\ InOrder(q) => InOrder(Append(q, m))
         /\ Before(q, t) => Before(Append(q, m), t)
         /\ Before(t, q) => Before(t, Append(q, m))
         /\ \A n \in Nat : Numbered(q, n) => Numbered(Append(q, m), n)
  <1>1. /\ Len(Append(q, m)) = Len(q) + 1 /\ Len(q) \in Nat
        /\ \A i \in 1..Len(Append(q, m)) :
             IF i = Len(q) + 1 THEN Append(q, m)[i] = m
                               ELSE i \in 1..Len(q) /\ Append(q, m)[i] = q[i]
    OBVIOUS
  <1>2. \A i \in 1..Len(Append(q, m)) :
          IsPacket(Append(q, m)[i]) => i \in 1..Len(q) /\ Append(q, m)[i] = q[i]
    BY <1>1
  <1>3. InOrder(q) => InOrder(Append(q, m))
    BY <1>2 DEF InOrder
  <1>4. Before(q, t) => Before(Append(q, m), t)
    BY <1>2 DEF Before
  <1>5. Before(t, q) => Before(t, Append(q, m))
    BY <1>2 DEF Before
  <1>6. \A n \in Nat : Numbered(q, n) => Numbered(Append(q, m), n)
    BY <1>2 DEF Numbered
  <1> QED BY <1>3, <1>4, <1>5, <1>6

-----------------------------------------------------------------------------
(* Seen from the line of packets, every step of the system is one of these.  *)

SameLine == UNCHANGED <<wire, discarded, hand, queue, inflight, prepared>>

Signal ==
  /\ \E m \in Message : ~IsPacket(m) /\ queue' = Append(queue, m)
  /\ UNCHANGED <<wire, discarded, hand, inflight, prepared>>

Produce ==
  /\ inflight = <<>> /\ inflight' = <<Packet>>
  /\ prepared' = prepared + 1
  /\ UNCHANGED <<wire, discarded, hand, queue>>

ProduceDirectly ==
  /\ sender = "none" /\ hand = <<>> /\ queue = <<>> /\ inflight = <<>>
  /\ wire' = Append(wire, Packet)
  /\ prepared' = prepared + 1
  /\ UNCHANGED <<discarded, hand, queue, inflight>>

Handover ==
  /\ queue' = queue \o inflight /\ inflight' = <<>>
  /\ UNCHANGED <<wire, discarded, hand, prepared>>

Abandon ==
  /\ inflight' = <<>>
  /\ sender = "exited" \/ inflight = <<>>
  /\ UNCHANGED <<wire, discarded, hand, queue, prepared>>

Purge ==
  /\ queue' = <<>> /\ sender \in {"run", "paused"} /\ sender' = "exited"
  /\ UNCHANGED <<wire, discarded, hand, inflight, prepared>>

Skip ==
  /\ queue # <<>> /\ ~IsPacket(Head(queue)) /\ queue' = Tail(queue)
  /\ UNCHANGED <<wire, discarded, hand, inflight, prepared>>

Discard ==
  /\ sender = "paused" /\ queue # <<>> /\ IsPacket(Head(queue)) /\ queue' = Tail(queue)
  /\ discarded' = discarded \cup {Head(queue).seq}
  /\ UNCHANGED <<wire, hand, inflight, prepared>>

Take ==
  /\ queue # <<>> /\ IsPacket(Head(queue)) /\ queue' = Tail(queue)
  /\ hand = <<>> /\ hand' = <<Head(queue)>>
  /\ UNCHANGED <<wire, discarded, inflight, prepared>>

Emit ==
  /\ sender = "deadline" /\ wire' = wire \o hand /\ hand' = <<>>
  /\ UNCHANGED <<discarded, queue, inflight, prepared>>

\* Whether the thread has exited does not change.
SameEnd == sender' = "exited" <=> sender = "exited"

LineStep ==
  \/ Purge
  \/ /\ SameEnd
     /\ \/ SameLine \/ Signal \/ Produce \/ ProduceDirectly \/ Handover \/ Abandon
        \/ Skip \/ Discard \/ Take \/ Emit

LEMMA LineSteps == TypeOK /\ Custody /\ [Next]_vars => LineStep
  <1> SUFFICES ASSUME TypeOK, Custody, [Next]_vars PROVE LineStep
    OBVIOUS
  <1> USE DEF LineStep, SameEnd
  <1>a. ASSUME NEW k \in {"Pause", "Resume", "Stop"}, TrySend(k),
               UNCHANGED <<wire, discarded, hand, inflight, prepared, sender>>
        PROVE  SameLine \/ Signal
    <2>1. Control(k) \in Message /\ ~IsPacket(Control(k))
      BY DEF Control, Message, Kinds, IsPacket
    <2> QED BY <1>a, <2>1 DEF TrySend, SameLine, Signal
  <1>1. CASE StartFile \/ PrefillRound
    BY <1>1 DEF StartFile, PrefillRound, Spawn, Custody, SameLine
  <1>2. CASE StartLive \/ StartFails \/ ResetAfterFlush \/ FlushFails \/ Seek \/ StopJoined
             \/ StopFinish
    BY <1>2 DEF StartLive, StartFails, ResetAfterFlush, FlushFails, Seek, StopJoined,
                StopFinish, innerVars, taskVars, senderVars, SameLine
  <1>3. CASE Pause \/ Resume \/ StopBegin
    <2>1. UNCHANGED <<wire, discarded, hand, inflight, prepared, sender>>
      BY <1>3 DEF Pause, Resume, StopBegin, taskVars, senderVars
    <2>2. queue' = queue \/ TrySend("Pause") \/ TrySend("Resume") \/ TrySend("Stop")
      BY <1>3 DEF Pause, Resume, StopBegin
    <2> QED BY <1>a, <2>1, <2>2 DEF SameLine
  <1>4. CASE CaptureNext
    BY <1>4 DEF CaptureNext, Capture, CaptureEnds, innerVars, taskVars, senderVars, SameLine
  <1>5. CASE TaskCheck \/ WorkEof \/ WorkWait \/ WorkUnderrun \/ WorkFails
    BY <1>5 DEF TaskCheck, WorkEof, WorkWait, WorkUnderrun, WorkFails, innerVars, senderVars,
                SameLine
  <1>6. CASE WorkPacket
    BY <1>6 DEF WorkPacket, Custody, Produce, ProduceDirectly
  <1>7. CASE SendCompletes
    BY <1>7 DEF SendCompletes, innerVars, senderVars, Handover
  <1>8. CASE SendFails \/ TaskCancelled
    <2>1. sender = "exited" \/ inflight = <<>>
      BY <1>8 DEF SendFails, TaskCancelled, ReceiverAlive, Custody, TypeOK, SenderTypes
    <2> QED BY <1>8, <2>1 DEF SendFails, TaskCancelled, innerVars, senderVars, Abandon
  <1>9. CASE TaskExit
    <2>1. UNCHANGED <<wire, discarded, hand, inflight, prepared, sender>>
      BY <1>9 DEF TaskExit, innerVars, senderVars
    <2>2. queue' = queue \/ TrySend("Stop")
      BY <1>9 DEF TaskExit
    <2> QED BY <1>a, <2>1, <2>2 DEF SameLine
  <1>10. CASE ReceiveStop \/ Disconnected
    BY <1>10 DEF ReceiveStop, Disconnected, Exit, innerVars, taskVars, Purge
  <1>11. CASE ReceivePause \/ ReceiveResume
    BY <1>11 DEF ReceivePause, ReceiveResume, innerVars, taskVars, Skip, IsPacket
  <1>12. CASE ReceivePacket
    BY <1>12 DEF ReceivePacket, Custody, innerVars, taskVars, Take, IsPacket
  <1>13. CASE Transmit
    BY <1>13 DEF Transmit, innerVars, taskVars, Emit
  <1>14. CASE DiscardWhilePaused
    BY <1>14 DEF DiscardWhilePaused, innerVars, taskVars, Skip, Discard, IsPacket
  <1>15. CASE UNCHANGED vars
    BY <1>15 DEF vars, innerVars, taskVars, senderVars, SameLine
  <1> QED BY <1>1, <1>2, <1>3, <1>4, <1>5, <1>6, <1>7, <1>8, <1>9, <1>10, <1>11, <1>12, <1>13,
             <1>14, <1>15
          DEF Next, OwnerCalls, OwnerSteps, TaskNext, SenderNext

-----------------------------------------------------------------------------
LEMMA EmptyOrder ==
  ASSUME NEW s, NEW n
  PROVE  /\ Before(<<>>, s) /\ Before(s, <<>>)
         /\ InOrder(<<>>) /\ PacketsOnly(<<>>) /\ Numbered(<<>>, n)
  BY DEF Before, InOrder, PacketsOnly, Numbered

LEMMA SingleOrder ==
  ASSUME NEW s \in Seq(Message), Len(s) <= 1
  PROVE  InOrder(s)
  BY DEF InOrder

\* A new packet comes after all those numbered so far.
LEMMA NewPacketIsLast ==
  ASSUME TypeOK, NEW s \in Seq(Message), Numbered(s, prepared)
  PROVE  /\ Before(s, <<Packet>>)
         /\ Numbered(s, prepared + 1)
  <1>1. prepared \in Nat /\ Packet.seq = prepared /\ Len(<<Packet>>) = 1
        /\ <<Packet>>[1] = Packet
    BY DEF TypeOK, InnerTypes, Packet
  <1>2. Before(s, <<Packet>>)
    BY <1>1 DEF Before, Numbered
  <1>3. \A i \in 1..Len(s) : s[i] \in Message
    OBVIOUS
  <1>4. \A m \in Message : m.seq \in Nat
    BY DEF Message
  <1> QED BY <1>1, <1>2, <1>3, <1>4 DEF Numbered

LEMMA NewPacketNumbered ==
  ASSUME TypeOK
  PROVE  Numbered(<<Packet>>, prepared + 1) /\ PacketsOnly(<<Packet>>)
  BY DEF Numbered, PacketsOnly, IsPacket, Packet, TypeOK, InnerTypes

LEMMA InitOrderInv == Init => OrderInv
  BY EmptyOrder DEF Init, OrderInv

LEMMA StepOrderInv == TypeInv /\ OrderInv /\ LineStep => OrderInv'
  <1> SUFFICES ASSUME TypeInv, OrderInv, LineStep PROVE OrderInv'
    OBVIOUS
  <1>a. /\ wire \in Seq(Message) /\ hand \in Seq(Message) /\ queue \in Seq(Message)
        /\ inflight \in Seq(Message) /\ prepared \in Nat /\ TypeOK
        /\ Len(hand) <= 1 /\ Len(inflight) <= 1
    BY DEF TypeInv, TypeOK, SenderTypes, ChannelTypes, TaskTypes, InnerTypes, OneInHand
  <1>b. <<Packet>> \in Seq(Message) /\ Len(<<Packet>>) <= 1
    BY <1>a, PacketType
  <1>1. CASE SameLine
    BY <1>1 DEF SameLine, OrderInv
  <1>2. CASE Signal
    <2>1. PICK m \in Message : ~IsPacket(m) /\ queue' = Append(queue, m)
      BY <1>2 DEF Signal
    <2>2. UNCHANGED <<wire, hand, inflight, prepared>>
      BY <1>2 DEF Signal
    <2>3. /\ InOrder(Append(queue, m)) /\ Before(wire, Append(queue, m))
          /\ Before(hand, Append(queue, m)) /\ Before(Append(queue, m), inflight)
          /\ Numbered(Append(queue, m), prepared)
      BY <1>a, <2>1, AppendControl DEF OrderInv
    <2> QED BY <2>1, <2>2, <2>3 DEF OrderInv
  <1>3. CASE Produce
    <2>1. prepared' = prepared + 1 /\ inflight' = <<Packet>> /\ UNCHANGED <<wire, hand, queue>>
      BY <1>3 DEF Produce
    <2>2. Before(wire, <<Packet>>) /\ Before(hand, <<Packet>>) /\ Before(queue, <<Packet>>)
      BY <1>a, NewPacketIsLast DEF OrderInv
    <2>3. Numbered(wire, prepared + 1) /\ Numbered(hand, prepared + 1)
          /\ Numbered(queue, prepared + 1)
      BY <1>a, NewPacketIsLast DEF OrderInv
    <2> QED BY <1>a, <2>1, <2>2, <2>3, NewPacketNumbered DEF OrderInv
  <1>4. CASE ProduceDirectly
    <2>1. prepared' = prepared + 1 /\ wire' = wire \o <<Packet>>
          /\ hand' = <<>> /\ queue' = <<>> /\ inflight' = <<>>
      BY <1>4, <1>a, <1>b DEF ProduceDirectly
    <2>2. InOrder(wire \o <<Packet>>)
      BY <1>a, <1>b, NewPacketIsLast, SingleOrder, ConcatInOrder DEF OrderInv
    <2>3. Numbered(wire, prepared + 1) /\ Numbered(<<Packet>>, prepared + 1)
          /\ PacketsOnly(<<Packet>>)
      BY <1>a, NewPacketIsLast, NewPacketNumbered DEF OrderInv
    <2>4. Numbered(wire \o <<Packet>>, prepared + 1) /\ PacketsOnly(wire \o <<Packet>>)
      <3>1. prepared + 1 \in Nat /\ PacketsOnly(wire)
        BY <1>a DEF OrderInv
      <3> QED BY <1>a, <1>b, <2>3, <3>1, ConcatNumbered
    <2> QED BY <2>1, <2>2, <2>4, EmptyOrder DEF OrderInv
  <1>5. CASE Handover
    <2>1. queue' = queue \o inflight /\ inflight' = <<>> /\ UNCHANGED <<wire, hand, prepared>>
      BY <1>5 DEF Handover
    <2>2. InOrder(queue \o inflight)
      BY <1>a, SingleOrder, ConcatInOrder DEF OrderInv
    <2>3. Before(wire, queue \o inflight) /\ Before(hand, queue \o inflight)
      BY <1>a, ConcatBefore DEF OrderInv
    <2>4. Numbered(queue \o inflight, prepared)
      BY <1>a, ConcatNumbered DEF OrderInv
    <2> QED BY <2>1, <2>2, <2>3, <2>4, EmptyOrder DEF OrderInv
  <1>6. CASE Abandon
    BY <1>6, EmptyOrder DEF Abandon, OrderInv
  <1>7. CASE Purge
    BY <1>7, EmptyOrder DEF Purge, OrderInv
  <1>c. ASSUME queue # <<>>
        PROVE  /\ InOrder(Tail(queue)) /\ Before(wire, Tail(queue)) /\ Before(hand, Tail(queue))
               /\ Before(Tail(queue), inflight) /\ Before(<<Head(queue)>>, Tail(queue))
               /\ Before(wire, <<Head(queue)>>) /\ Before(<<Head(queue)>>, inflight)
               /\ Numbered(Tail(queue), prepared) /\ Numbered(<<Head(queue)>>, prepared)
    <2>1. InOrder(queue) /\ Before(wire, queue) /\ Before(hand, queue)
          /\ Before(queue, inflight) /\ Numbered(queue, prepared)
      BY DEF OrderInv
    <2> QED BY <1>a, <1>c, <2>1, HeadAndTail
  <1>8. CASE Skip \/ Discard
    <2>1. queue # <<>> /\ queue' = Tail(queue) /\ UNCHANGED <<wire, hand, inflight, prepared>>
      BY <1>8 DEF Skip, Discard
    <2> QED BY <1>c, <2>1 DEF OrderInv
  <1>9. CASE Take
    <2>1. queue # <<>> /\ queue' = Tail(queue) /\ UNCHANGED <<wire, inflight, prepared>>
          /\ hand' = <<Head(queue)>> /\ IsPacket(Head(queue))
      BY <1>9 DEF Take
    <2>2. PacketsOnly(<<Head(queue)>>)
      BY <2>1 DEF PacketsOnly
    <2> QED BY <1>c, <2>1, <2>2 DEF OrderInv
  <1>10. CASE Emit
    <2>1. wire' = wire \o hand /\ hand' = <<>> /\ UNCHANGED <<queue, inflight, prepared>>
      BY <1>10 DEF Emit
    <2>2. InOrder(wire \o hand)
      BY <1>a, SingleOrder, ConcatInOrder DEF OrderInv
    <2>3. Before(wire \o hand, queue) /\ Before(wire \o hand, inflight)
      BY <1>a, ConcatBefore DEF OrderInv
    <2>4. Numbered(wire \o hand, prepared) /\ PacketsOnly(wire \o hand)
      BY <1>a, ConcatNumbered DEF OrderInv
    <2> QED BY <2>1, <2>2, <2>3, <2>4, EmptyOrder DEF OrderInv
  <1> QED BY <1>1, <1>2, <1>3, <1>4, <1>5, <1>6, <1>7, <1>8, <1>9, <1>10 DEF LineStep

\* Packets reach the wire in the order they were prepared and none twice, however
\* the owner's calls interleave with the task and the thread.
THEOREM PacketsInOrder == Spec => []WireInOrder
  <1>1. OrderInv => WireInOrder
    BY DEF OrderInv, InOrder, PacketsOnly, WireInOrder
  <1>2. TypeInv => TypeOK
    BY DEF TypeInv
  <1> QED BY <1>1, <1>2, StreamerAssumption, InitTypeInv, StepTypeInv, InitCustody, StepCustody,
             LineSteps, InitOrderInv, StepOrderInv, PTL
          DEF Spec

-----------------------------------------------------------------------------
(* pause() and the thread. *)

\* The point of the channel that nothing prepared after the pause can pass: the
\* paused thread itself, or a Pause message behind older packets only; no Resume
\* follows it.
Barrier(k) ==
  /\ k = 0 => sender = "paused"
  /\ k # 0 => ReceiverAlive /\ queue[k].kind = "Pause"
  /\ \A i \in 1..Len(queue) : i < k /\ IsPacket(queue[i]) => queue[i].seq < atPause.packets
  /\ \A i \in 1..Len(queue) : i > k => queue[i].kind # "Resume"

PauseStands ==
  atPause.on /\ atPause.told =>
    /\ Numbered(wire, atPause.packets) /\ Numbered(hand, atPause.packets)
    /\ sender # "exited" => \E k \in 0..Len(queue) : Barrier(k)

\* What is appended stays behind the barrier, as long as it is not a Resume.
LEMMA BarrierBehind ==
  ASSUME NEW k \in 0..Len(queue), Barrier(k), NEW t \in Seq(Message), queue \in Seq(Message),
         \A i \in 1..Len(t) : t[i].kind # "Resume",
         queue' = queue \o t, sender' = sender, atPause' = atPause
  PROVE  \E j \in 0..Len(queue') : Barrier(j)'
  <1>1. Len(queue') = Len(queue) + Len(t) /\ k \in 0..Len(queue')
    OBVIOUS
  <1>2. \A i \in 1..Len(queue') :
          \/ i \in 1..Len(queue) /\ queue'[i] = queue[i]
          \/ i > Len(queue) /\ queue'[i].kind # "Resume"
    BY ConcatElements
  <1>3. k # 0 => queue'[k] = queue[k]
    BY <1>1
  <1>4. Barrier(k)'
    BY <1>1, <1>2, <1>3 DEF Barrier, ReceiverAlive
  <1> QED BY <1>1, <1>4

\* Taking the head brings the barrier one place nearer.
LEMMA BarrierNearer ==
  ASSUME NEW k \in 1..Len(queue), Barrier(k), queue \in Seq(Message), queue' = Tail(queue),
         sender' \in {"run", "deadline", "paused"}, k = 1 => sender' = "paused",
         atPause' = atPause
  PROVE  \E j \in 0..Len(queue') : Barrier(j)'
  <1>1. Len(queue') = Len(queue) - 1 /\ k - 1 \in 0..Len(queue')
        /\ \A i \in 1..Len(queue') : queue'[i] = queue[i + 1] /\ i + 1 \in 1..Len(queue)
    OBVIOUS
  <1>2. k - 1 # 0 => queue'[k - 1] = queue[k]
    BY <1>1
  <1>3. \A i \in 1..Len(queue') : (i < k - 1 => i + 1 < k) /\ (i > k - 1 => i + 1 > k)
    BY <1>1
  <1>4. Barrier(k - 1)'
    BY <1>1, <1>2, <1>3 DEF Barrier, ReceiverAlive
  <1> QED BY <1>1, <1>4

\* A paused thread is its own barrier, and throws away what it takes.
LEMMA BarrierStays ==
  ASSUME Barrier(0), queue \in Seq(Message), queue # <<>>, queue' = Tail(queue),
         sender' = sender, atPause' = atPause
  PROVE  \E j \in 0..Len(queue') : Barrier(j)'
  <1>1. \A i \in 1..Len(queue') : queue'[i] = queue[i + 1] /\ i + 1 \in 1..Len(queue)
    OBVIOUS
  <1>2. Barrier(0)'
    BY <1>1 DEF Barrier
  <1>3. 0 \in 0..Len(queue')
    OBVIOUS
  <1> QED BY <1>2, <1>3

LEMMA StepPauseStands ==
  TypeOK /\ Custody /\ OrderInv /\ PauseInv /\ PauseStands /\ [Next]_vars => PauseStands'
  <1> SUFFICES ASSUME TypeOK, Custody, OrderInv, PauseInv, PauseStands, [Next]_vars,
                      atPause'.on, atPause'.told
               PROVE  /\ Numbered(wire', atPause'.packets) /\ Numbered(hand', atPause'.packets)
                      /\ sender' # "exited" => \E k \in 0..Len(queue') : Barrier(k)'
    BY DEF PauseStands, Numbered
  <1>a. /\ wire \in Seq(Message) /\ hand \in Seq(Message) /\ queue \in Seq(Message)
        /\ inflight \in Seq(Message) /\ prepared \in Nat /\ atPause \in Pauses
    BY DEF TypeOK, SenderTypes, ChannelTypes, TaskTypes, InnerTypes
  <1>b. ASSUME UNCHANGED <<wire, hand, queue, sender, atPause>>
        PROVE  /\ Numbered(wire', atPause'.packets) /\ Numbered(hand', atPause'.packets)
               /\ sender' # "exited" => \E k \in 0..Len(queue') : Barrier(k)'
    BY <1>b DEF PauseStands, Barrier, ReceiverAlive
  <1>c. ASSUME UNCHANGED <<wire, hand, sender, atPause>>, NEW t \in Seq(Message),
               \A i \in 1..Len(t) : t[i].kind # "Resume", queue' = queue \o t
        PROVE  /\ Numbered(wire', atPause'.packets) /\ Numbered(hand', atPause'.packets)
               /\ sender' # "exited" => \E k \in 0..Len(queue') : Barrier(k)'
    <2>1. Numbered(wire', atPause'.packets) /\ Numbered(hand', atPause'.packets)
      BY <1>c DEF PauseStands
    <2>2. ASSUME sender' # "exited" PROVE \E k \in 0..Len(queue') : Barrier(k)'
      <3>1. PICK k \in 0..Len(queue) : Barrier(k)
        BY <1>c, <2>2 DEF PauseStands
      <3> QED BY <1>a, <1>c, <3>1, BarrierBehind
    <2> QED BY <2>1, <2>2
  <1>d. ASSUME NEW m \in {"Pause", "Stop"}, TrySend(m), UNCHANGED <<wire, hand, sender, atPause>>
        PROVE  /\ Numbered(wire', atPause'.packets) /\ Numbered(hand', atPause'.packets)
               /\ sender' # "exited" => \E k \in 0..Len(queue') : Barrier(k)'
    <2>1. CASE Room
      <3>1. Control(m) \in Message /\ Control(m).kind # "Resume"
        BY DEF Control, Message, Kinds
      <3>2. <<Control(m)>> \in Seq(Message) /\ queue' = queue \o <<Control(m)>>
            /\ \A i \in 1..Len(<<Control(m)>>) : <<Control(m)>>[i].kind # "Resume"
        BY <1>a, <1>d, <2>1, <3>1 DEF TrySend
      <3> QED BY <1>c, <1>d, <3>2
    <2>2. CASE ~Room
      BY <1>b, <1>d, <2>2 DEF TrySend
    <2> QED BY <2>1, <2>2
  <1>1. CASE StartFile \/ PrefillRound
    BY <1>1 DEF StartFile, PrefillRound, PauseInv
  <1>2. CASE StartLive \/ StartFails \/ ResetAfterFlush \/ FlushFails \/ Seek \/ StopJoined
             \/ StopFinish
    BY <1>b, <1>2 DEF StartLive, StartFails, ResetAfterFlush, FlushFails, Seek, StopJoined,
                      StopFinish, taskVars, senderVars
  <1>3. CASE Pause
    <2>1. CASE state # "Streaming"
      BY <1>b, <1>3, <2>1 DEF Pause, senderVars
    <2>2. CASE state = "Streaming"
      <3>0. atPause' = [on |-> TRUE, packets |-> prepared, told |-> ownTx /\ Room,
                        undone |-> FALSE]
        BY <1>3, <2>2 DEF Pause
      <3>9. atPause'.told <=> ownTx /\ Room
        BY <3>0
      <3>1. ownTx /\ Room /\ atPause'.packets = prepared /\ UNCHANGED <<wire, hand, sender>>
        BY <1>3, <3>0, <3>9 DEF Pause, senderVars
      <3>2. queue' = Append(queue, Control("Pause"))
        BY <1>3, <2>2, <3>1 DEF Pause, TrySend
      <3>3. Numbered(wire', atPause'.packets) /\ Numbered(hand', atPause'.packets)
            /\ Numbered(queue, atPause'.packets)
        BY <3>1 DEF OrderInv
      <3>10. PICK k \in Nat : k = Len(queue) + 1
        BY <1>a
      <3>4. /\ Len(queue') = k /\ queue'[k] = Control("Pause") /\ k \in Nat /\ k # 0
            /\ \A i \in 1..k : i < k => i \in 1..Len(queue) /\ queue'[i] = queue[i]
        BY <1>a, <3>2, <3>10 DEF Control, Message, Kinds
      <3>5. ReceiverAlive'
        BY <3>1 DEF Room, ReceiverAlive
      <3>6. \A i \in 1..Len(queue') :
              i < k /\ IsPacket(queue'[i]) => queue'[i].seq < atPause'.packets
        BY <3>3, <3>4 DEF Numbered
      <3>7. Barrier(k)'
        <4>1. queue'[k].kind = "Pause" /\ \A i \in 1..Len(queue') : ~(i > k)
          BY <3>4 DEF Control
        <4> QED BY <3>4, <3>5, <3>6, <4>1 DEF Barrier
      <3>8. k \in 0..Len(queue')
        BY <3>4
      <3> QED BY <3>3, <3>7, <3>8
    <2> QED BY <2>1, <2>2
  <1>4. CASE Resume
    BY <1>4 DEF Resume, Unpaused
  <1>5. CASE StopBegin
    BY <1>b, <1>d, <1>5 DEF StopBegin, senderVars
  <1>6. CASE CaptureNext
    BY <1>b, <1>6 DEF CaptureNext, Capture, CaptureEnds, senderVars
  <1>7. CASE TaskCheck \/ WorkEof \/ WorkWait \/ WorkFails \/ SendFails \/ TaskCancelled
    BY <1>b, <1>7 DEF TaskCheck, WorkEof, WorkWait, WorkFails, SendFails, TaskCancelled, senderVars
  <1>8. CASE WorkUnderrun
    <2>1. atPause'.on = atPause.on /\ atPause'.told = atPause.told
          /\ atPause'.packets = atPause.packets /\ UNCHANGED <<wire, hand, queue, sender>>
      BY <1>a, <1>8 DEF WorkUnderrun, senderVars, Pauses
    <2> QED BY <2>1 DEF PauseStands, Barrier, ReceiverAlive
  <1>9. CASE WorkPacket
    <2>1. sender # "none"
      BY <1>9 DEF WorkPacket, PauseStands, Barrier, ReceiverAlive
    <2> QED BY <1>b, <1>9, <2>1 DEF WorkPacket
  <1>10. CASE SendCompletes
    <2>1. \A i \in 1..Len(inflight) : inflight[i].kind # "Resume"
      BY DEF OrderInv, PacketsOnly, IsPacket
    <2> QED BY <1>a, <1>c, <1>10, <2>1 DEF SendCompletes, senderVars
  <1>11. CASE TaskExit
    BY <1>b, <1>d, <1>11 DEF TaskExit, senderVars
  <1>12. CASE ReceiveStop \/ Disconnected
    BY <1>12 DEF ReceiveStop, Disconnected, Exit, PauseStands
  <1>e. ASSUME atPause' = atPause
        PROVE  /\ atPause.on /\ atPause.told
               /\ Numbered(wire, atPause.packets) /\ Numbered(hand, atPause.packets)
               /\ sender # "exited" => \E k \in 0..Len(queue) : Barrier(k)
    BY <1>e DEF PauseStands
  <1>f. ASSUME queue # <<>> PROVE queue[1] = Head(queue) /\ 1 \in 1..Len(queue)
    BY <1>a, <1>f
  <1>13. CASE ReceivePause \/ ReceiveResume
    <2>1. atPause' = atPause /\ UNCHANGED <<wire, hand>> /\ queue # <<>> /\ queue' = Tail(queue)
          /\ sender \in {"run", "paused"}
      BY <1>13 DEF ReceivePause, ReceiveResume
    <2>2. PICK k \in 0..Len(queue) : Barrier(k)
      BY <1>e, <2>1
    <2>3. k # 0
      BY <1>13, <1>f, <2>1, <2>2 DEF ReceivePause, ReceiveResume, Barrier
    <2>4. k = 1 => sender' = "paused"
      BY <1>13, <1>f, <2>1, <2>2 DEF ReceivePause, ReceiveResume, Barrier
    <2>5. sender' \in {"run", "deadline", "paused"}
      BY <1>13 DEF ReceivePause, ReceiveResume
    <2> QED BY <1>a, <1>e, <2>1, <2>2, <2>3, <2>4, <2>5, BarrierNearer
  <1>14. CASE ReceivePacket
    <2>1. atPause' = atPause /\ wire' = wire /\ hand' = <<Head(queue)>> /\ queue # <<>>
          /\ queue' = Tail(queue) /\ sender = "run" /\ sender' = "deadline"
          /\ IsPacket(Head(queue))
      BY <1>14 DEF ReceivePacket, IsPacket
    <2>2. PICK k \in 0..Len(queue) : Barrier(k)
      BY <1>e, <2>1
    <2>3. k # 0 /\ k # 1
      BY <1>f, <2>1, <2>2 DEF Barrier, IsPacket
    <2>4. Head(queue).seq < atPause.packets
      BY <1>f, <2>1, <2>2, <2>3 DEF Barrier
    <2>5. Numbered(hand', atPause'.packets)
      BY <2>1, <2>4 DEF Numbered
    <2> QED BY <1>a, <1>e, <2>1, <2>2, <2>3, <2>5, BarrierNearer
  <1>15. CASE Transmit
    <2>1. atPause' = atPause /\ wire' = wire \o hand /\ hand' = <<>> /\ queue' = queue
          /\ sender = "deadline" /\ sender' = "run"
      BY <1>15 DEF Transmit
    <2>2. Numbered(wire', atPause'.packets) /\ Numbered(hand', atPause'.packets)
      <3>1. atPause.packets \in Nat /\ PacketsOnly(wire)
        BY <1>a DEF Pauses, OrderInv
      <3>2. PacketsOnly(hand)
        BY DEF OrderInv
      <3> QED BY <1>a, <1>e, <2>1, <3>1, <3>2, ConcatNumbered, EmptyOrder
    <2>3. PICK k \in 0..Len(queue) : Barrier(k)
      BY <1>e, <2>1
    <2>4. Barrier(k)'
      BY <2>1, <2>3 DEF Barrier, ReceiverAlive
    <2> QED BY <2>1, <2>2, <2>4
  <1>16. CASE DiscardWhilePaused
    <2>1. atPause' = atPause /\ UNCHANGED <<wire, hand>> /\ queue # <<>> /\ queue' = Tail(queue)
          /\ sender = "paused" /\ sender' = "paused"
      BY <1>16 DEF DiscardWhilePaused
    <2>2. PICK k \in 0..Len(queue) : Barrier(k)
      BY <1>e, <2>1
    <2> QED BY <1>a, <1>e, <2>1, <2>2, BarrierNearer, BarrierStays
  <1>17. CASE UNCHANGED vars
    BY <1>b, <1>17 DEF vars, senderVars
  <1> QED BY <1>1, <1>2, <1>3, <1>4, <1>5, <1>6, <1>7, <1>8, <1>9, <1>10, <1>11, <1>12, <1>13,
             <1>14, <1>15, <1>16, <1>17
          DEF Next, OwnerCalls, OwnerSteps, TaskNext, SenderNext

\* A pause holds until resume(): run_streamer prepares at most the packet it was
\* preparing, unless an underrun behind its check overwrites the pause; and a thread
\* that was told sends nothing prepared later even then.
THEOREM PauseHolds == Spec => []PauseIsKept
  <1>1. Init => PauseInv /\ PauseStands
    BY DEF Init, PauseInv, PauseStands, Unpaused
  <1>2. TypeOK /\ OrderInv /\ PauseInv /\ PauseStands => PauseIsKept
    BY DEF PauseInv, PauseStands, PauseIsKept, OrderInv, PacketsOnly, Numbered
  <1>3. TypeOK /\ PauseInv /\ [Next]_vars => PauseInv'
    BY StepPauseInv
  <1>4. TypeInv => TypeOK
    BY DEF TypeInv
  <1> QED BY <1>1, <1>2, <1>3, <1>4, StreamerAssumption, InitTypeInv, StepTypeInv, InitCustody,
             StepCustody, LineSteps, InitOrderInv, StepOrderInv, StepPauseStands, PTL
          DEF Spec

-----------------------------------------------------------------------------
(* No packet is lost between the task and the thread.                        *)

LEMMA SeqsOfEmpty == SeqsOf(<<>>) = {}
  BY DEF SeqsOf

LEMMA SeqsOfConcat ==
  ASSUME NEW s \in Seq(Message), NEW t \in Seq(Message)
  PROVE  SeqsOf(s \o t) = SeqsOf(s) \cup SeqsOf(t)
  <1> DEFINE c == s \o t
  <1>1. \A i \in 1..Len(s) : i \in 1..Len(c) /\ c[i] = s[i]
    OBVIOUS
  <1>2. \A i \in 1..Len(t) : i + Len(s) \in 1..Len(c) /\ c[i + Len(s)] = t[i]
    OBVIOUS
  <1>3. ASSUME NEW i \in 1..Len(c)
        PROVE  \/ i \in 1..Len(s) /\ c[i] = s[i]
               \/ i - Len(s) \in 1..Len(t) /\ c[i] = t[i - Len(s)]
    BY ConcatElements
  <1> HIDE DEF c
  <1>4. SeqsOf(c) \subseteq SeqsOf(s) \cup SeqsOf(t)
    BY <1>3 DEF SeqsOf
  <1>5. SeqsOf(s) \subseteq SeqsOf(c)
    BY <1>1 DEF SeqsOf
  <1>6. SeqsOf(t) \subseteq SeqsOf(c)
    BY <1>2 DEF SeqsOf
  <1> QED BY <1>4, <1>5, <1>6 DEF c

LEMMA SeqsOfOne ==
  ASSUME NEW m
  PROVE  SeqsOf(<<m>>) = IF IsPacket(m) THEN {m.seq} ELSE {}
  BY DEF SeqsOf, IsPacket

LEMMA SeqsOfHeadTail ==
  ASSUME NEW q \in Seq(Message), q # <<>>
  PROVE  SeqsOf(q) = SeqsOf(<<Head(q)>>) \cup SeqsOf(Tail(q))
  <1>1. q = <<Head(q)>> \o Tail(q) /\ <<Head(q)>> \in Seq(Message) /\ Tail(q) \in Seq(Message)
    OBVIOUS
  <1> QED BY <1>1, SeqsOfConcat

\* The thread's exit is final.
LEMMA ExitIsFinal == Custody /\ [Next]_vars => (sender = "exited" => sender' = "exited")
  <1> SUFFICES ASSUME Custody, [Next]_vars, sender = "exited" PROVE sender' = "exited"
    OBVIOUS
  <1>1. CASE OwnerCalls \/ OwnerSteps
    BY <1>1 DEF OwnerCalls, OwnerSteps, StartFile, StartLive, StartFails, Pause, Resume, Seek,
                StopBegin, PrefillRound, ResetAfterFlush, FlushFails, StopJoined, StopFinish,
                senderVars, Custody
  <1>2. CASE CaptureNext
    BY <1>2 DEF CaptureNext, Capture, CaptureEnds, senderVars
  <1>3. CASE TaskNext
    BY <1>3 DEF TaskNext, TaskCheck, WorkEof, WorkWait, WorkPacket, WorkUnderrun, WorkFails,
                SendCompletes, SendFails, TaskExit, TaskCancelled, senderVars
  <1>4. CASE SenderNext
    BY <1>4 DEF SenderNext, ReceiveStop, ReceivePause, ReceiveResume, ReceivePacket,
                Transmit, DiscardWhilePaused, Disconnected, Exit
  <1>5. CASE UNCHANGED vars
    BY <1>5 DEF vars, senderVars
  <1> QED BY <1>1, <1>2, <1>3, <1>4, <1>5 DEF Next

LEMMA StepNothingVanishes ==
  ASSUME TypeInv, NothingVanishes, LineStep, sender = "exited" => sender' = "exited"
  PROVE  NothingVanishes'
  <1> SUFFICES ASSUME sender' # "exited"
               PROVE  0..(prepared' - 1) = SeqsOf(wire') \cup discarded' \cup SeqsOf(hand')
                                             \cup SeqsOf(queue') \cup SeqsOf(inflight')
    BY DEF NothingVanishes, SeqsOf
  <1>a. /\ wire \in Seq(Message) /\ hand \in Seq(Message) /\ queue \in Seq(Message)
        /\ inflight \in Seq(Message) /\ prepared \in Nat /\ TypeOK
    BY DEF TypeInv, TypeOK, SenderTypes, ChannelTypes, TaskTypes, InnerTypes
  <1>b. 0..(prepared - 1) = SeqsOf(wire) \cup discarded \cup SeqsOf(hand)
                              \cup SeqsOf(queue) \cup SeqsOf(inflight)
    BY DEF NothingVanishes
  <1>c. <<Packet>> \in Seq(Message) /\ SeqsOf(<<Packet>>) = {prepared}
    <2>1. IsPacket(Packet) /\ Packet.seq = prepared
      BY DEF Packet, IsPacket
    <2>2. <<Packet>> \in Seq(Message)
      BY <1>a, PacketType
    <2>3. SeqsOf(<<Packet>>) = {Packet.seq}
      BY <2>1, SeqsOfOne
    <2> QED BY <2>1, <2>2, <2>3
  <1>d. 0..((prepared + 1) - 1) = 0..(prepared - 1) \cup {prepared}
    <2>1. \A k : k \in 0..((prepared + 1) - 1) <=> k \in 0..(prepared - 1) \/ k = prepared
      BY <1>a
    <2> QED BY <2>1
  <1>1. CASE SameLine
    BY <1>b, <1>1 DEF SameLine
  <1>2. CASE Signal
    <2>1. PICK m \in Message : ~IsPacket(m) /\ queue' = Append(queue, m)
      BY <1>2 DEF Signal
    <2>2. queue' = queue \o <<m>> /\ <<m>> \in Seq(Message)
      BY <1>a, <2>1
    <2>3. SeqsOf(queue') = SeqsOf(queue) \cup SeqsOf(<<m>>)
      BY <1>a, <2>2, SeqsOfConcat
    <2>4. SeqsOf(<<m>>) = {}
      BY <2>1, SeqsOfOne
    <2> QED BY <1>b, <1>2, <2>3, <2>4 DEF Signal
  <1>3. CASE Produce
    <2>1. SeqsOf(inflight) = {} /\ SeqsOf(inflight') = {prepared}
      BY <1>c, <1>3, SeqsOfEmpty DEF Produce
    <2> QED BY <1>b, <1>d, <1>3, <2>1 DEF Produce
  <1>4. CASE ProduceDirectly
    <2>1. wire' = wire \o <<Packet>>
      BY <1>a, <1>c, <1>4 DEF ProduceDirectly
    <2>2. SeqsOf(wire \o <<Packet>>) = SeqsOf(wire) \cup SeqsOf(<<Packet>>)
      BY <1>a, <1>c, SeqsOfConcat
    <2> QED BY <1>b, <1>c, <1>d, <1>4, <2>1, <2>2 DEF ProduceDirectly
  <1>5. CASE Handover
    <2>1. SeqsOf(queue') = SeqsOf(queue) \cup SeqsOf(inflight) /\ SeqsOf(inflight') = {}
      BY <1>a, <1>5, SeqsOfConcat, SeqsOfEmpty DEF Handover
    <2> QED BY <1>b, <1>5, <2>1 DEF Handover
  <1>6. CASE Abandon
    <2>1. inflight' = inflight
      BY <1>6 DEF Abandon
    <2> QED BY <1>b, <1>6, <2>1 DEF Abandon
  <1>7. CASE Purge
    BY <1>7 DEF Purge
  <1>8. CASE Skip \/ Discard
    <2>1. queue # <<>> /\ queue' = Tail(queue)
          /\ discarded' = discarded \cup SeqsOf(<<Head(queue)>>)
      BY <1>8, SeqsOfOne DEF Skip, Discard
    <2>2. SeqsOf(queue) = SeqsOf(<<Head(queue)>>) \cup SeqsOf(queue')
      BY <1>a, <2>1, SeqsOfHeadTail
    <2>3. UNCHANGED <<wire, hand, inflight, prepared>>
      BY <1>8 DEF Skip, Discard
    <2> QED BY <1>b, <2>1, <2>2, <2>3
  <1>9. CASE Take
    <2>1. SeqsOf(queue) = SeqsOf(hand') \cup SeqsOf(queue') /\ SeqsOf(hand) = {}
      BY <1>a, <1>9, SeqsOfHeadTail, SeqsOfEmpty DEF Take
    <2> QED BY <1>b, <1>9, <2>1 DEF Take
  <1>10. CASE Emit
    <2>1. SeqsOf(wire') = SeqsOf(wire) \cup SeqsOf(hand) /\ SeqsOf(hand') = {}
      BY <1>a, <1>10, SeqsOfConcat, SeqsOfEmpty DEF Emit
    <2> QED BY <1>b, <1>10, <2>1 DEF Emit
  <1> QED BY <1>1, <1>2, <1>3, <1>4, <1>5, <1>6, <1>7, <1>8, <1>9, <1>10 DEF LineStep

\* While the thread lives every packet prepared has been transmitted or discarded by
\* a paused thread, or is held by the thread, the channel or the blocking send.
THEOREM NoPacketVanishes == Spec => []NothingVanishes
  <1>1. Init => NothingVanishes
    <2> SUFFICES ASSUME Init PROVE NothingVanishes
      OBVIOUS
    <2>1. 0..(0 - 1) = {}
      OBVIOUS
    <2> QED BY <2>1, SeqsOfEmpty DEF Init, NothingVanishes
  <1>2. TypeInv /\ Custody /\ NothingVanishes /\ [Next]_vars => NothingVanishes'
    <2>1. TypeInv => TypeOK
      BY DEF TypeInv
    <2> QED BY <2>1, LineSteps, ExitIsFinal, StepNothingVanishes
  <1>3. TypeInv => TypeOK
    BY DEF TypeInv
  <1> QED BY <1>1, <1>2, <1>3, StreamerAssumption, InitTypeInv, StepTypeInv, InitCustody,
             StepCustody, PTL DEF Spec

\* A run of messages holds no more packet numbers than messages.
LEMMA SeqsOfCardinality ==
  ASSUME NEW s \in Seq(Message)
  PROVE  IsFiniteSet(SeqsOf(s)) /\ Cardinality(SeqsOf(s)) <= Len(s)
  <1> DEFINE I == {j \in 1..Len(s) : s[j].kind = "Packet"}
             f == [i \in I |-> s[i].seq]
  <1>1. IsFiniteSet(1..Len(s)) /\ Cardinality(1..Len(s)) = Len(s)
    <2>1. Len(s) \in Nat /\ 1 \in Int /\ Len(s) \in Int
      OBVIOUS
    <2>2. IsFiniteSet(1..Len(s))
          /\ Cardinality(1..Len(s)) = IF 1 > Len(s) THEN 0 ELSE Len(s) - 1 + 1
      BY <2>1, FS_Interval
    <2> QED BY <2>1, <2>2
  <1>2. IsFiniteSet(I) /\ Cardinality(I) <= Cardinality(1..Len(s))
    BY <1>1, FS_Subset
  <1>3. f \in Surjection(I, SeqsOf(s))
    BY DEF Surjection, SeqsOf
  <1>4. IsFiniteSet(SeqsOf(s)) /\ Cardinality(SeqsOf(s)) <= Cardinality(I)
    BY <1>2, <1>3, FS_Surjection
  <1>5. Cardinality(I) \in Nat /\ Cardinality(SeqsOf(s)) \in Nat /\ Len(s) \in Nat
    BY <1>2, <1>4, FS_CardinalityType
  <1> QED BY <1>1, <1>2, <1>4, <1>5

LEMMA UnionCardinality ==
  ASSUME NEW S, NEW T, IsFiniteSet(S), IsFiniteSet(T)
  PROVE  IsFiniteSet(S \cup T) /\ Cardinality(S \cup T) <= Cardinality(S) + Cardinality(T)
  <1>1. IsFiniteSet(S \cup T)
        /\ Cardinality(S \cup T) = Cardinality(S) + Cardinality(T) - Cardinality(S \cap T)
    BY FS_Union
  <1>2. IsFiniteSet(S \cap T)
    BY FS_Intersection
  <1> QED BY <1>1, <1>2, FS_CardinalityType

\* The producer leads the wire by no more than the local latency: the channel, the
\* packet at its deadline and the one in the blocking send.
THEOREM LeadIsBounded == Spec => []LeadBounded
  <1>1. TypeInv /\ NothingVanishes => LeadBounded
    <2> SUFFICES ASSUME TypeInv, NothingVanishes, ReceiverAlive
                 PROVE  prepared <= Len(wire) + Cardinality(discarded) + Depth + 2
      BY DEF LeadBounded
    <2>a. /\ wire \in Seq(Message) /\ hand \in Seq(Message) /\ queue \in Seq(Message)
          /\ inflight \in Seq(Message) /\ prepared \in Nat
          /\ Len(hand) <= 1 /\ Len(inflight) <= 1 /\ Len(queue) <= Depth /\ Depth \in Nat
      BY StreamerAssumption
         DEF TypeInv, TypeOK, SenderTypes, ChannelTypes, TaskTypes, InnerTypes, OneInHand,
             StreamerAssumption
    <2> DEFINE W == SeqsOf(wire)
               H == SeqsOf(hand)
               Q == SeqsOf(queue)
               F == SeqsOf(inflight)
               All == 0..(prepared - 1)
    <2>1. All = W \cup discarded \cup H \cup Q \cup F
      BY DEF NothingVanishes, ReceiverAlive
    <2>2. /\ IsFiniteSet(W) /\ Cardinality(W) <= Len(wire)
          /\ IsFiniteSet(H) /\ Cardinality(H) <= 1
          /\ IsFiniteSet(Q) /\ Cardinality(Q) <= Depth
          /\ IsFiniteSet(F) /\ Cardinality(F) <= 1
      <3>1. /\ IsFiniteSet(W) /\ Cardinality(W) <= Len(wire)
            /\ IsFiniteSet(H) /\ Cardinality(H) <= Len(hand)
            /\ IsFiniteSet(Q) /\ Cardinality(Q) <= Len(queue)
            /\ IsFiniteSet(F) /\ Cardinality(F) <= Len(inflight)
        BY <2>a, SeqsOfCardinality
      <3>2. Cardinality(H) \in Nat /\ Cardinality(Q) \in Nat /\ Cardinality(F) \in Nat
        BY <3>1, FS_CardinalityType
      <3> HIDE DEF W, H, Q, F
      <3> QED BY <2>a, <3>1, <3>2
    <2>3. IsFiniteSet(All) /\ Cardinality(All) = prepared
      <3>1. prepared - 1 \in Int /\ 0 \in Int
        BY <2>a
      <3>2. IsFiniteSet(All)
            /\ Cardinality(All) = IF 0 > prepared - 1 THEN 0 ELSE (prepared - 1) - 0 + 1
        BY <3>1, FS_Interval
      <3> QED BY <2>a, <3>2
    <2> HIDE DEF W, H, Q, F, All
    <2>4. IsFiniteSet(discarded)
      BY <2>1, <2>3, FS_Subset
    <2>5. IsFiniteSet(W \cup discarded)
          /\ Cardinality(W \cup discarded) <= Cardinality(W) + Cardinality(discarded)
      BY <2>2, <2>4, UnionCardinality
    <2>6. IsFiniteSet(W \cup discarded \cup H)
          /\ Cardinality(W \cup discarded \cup H)
               <= Cardinality(W \cup discarded) + Cardinality(H)
      BY <2>2, <2>5, UnionCardinality
    <2>7. IsFiniteSet(W \cup discarded \cup H \cup Q)
          /\ Cardinality(W \cup discarded \cup H \cup Q)
               <= Cardinality(W \cup discarded \cup H) + Cardinality(Q)
      BY <2>2, <2>6, UnionCardinality
    <2>8. Cardinality(All) <= Cardinality(W \cup discarded \cup H \cup Q) + Cardinality(F)
      BY <2>1, <2>2, <2>7, UnionCardinality
    <2>9. /\ Cardinality(W) \in Nat /\ Cardinality(discarded) \in Nat /\ Cardinality(H) \in Nat
          /\ Cardinality(Q) \in Nat /\ Cardinality(F) \in Nat
          /\ Cardinality(W \cup discarded) \in Nat /\ Cardinality(W \cup discarded \cup H) \in Nat
          /\ Cardinality(W \cup discarded \cup H \cup Q) \in Nat
      BY <2>2, <2>4, <2>5, <2>6, <2>7, FS_CardinalityType
    <2>10. Len(wire) \in Nat
      BY <2>a
    <2> QED BY <2>a, <2>2, <2>3, <2>5, <2>6, <2>7, <2>8, <2>9, <2>10, SMTT(30)
  <1> QED BY <1>1, NoPacketVanishes, StreamerAssumption, InitTypeInv, StepTypeInv, PTL DEF Spec

-----------------------------------------------------------------------------
(* The refinement.  Every step of the streamer is one of PacketPipe, or none *)
(* of its business: what waits is what hand, channel and blocking send hold, *)
(* and OrderInv says which of it is the oldest.                              *)

LEMMA SeqsBefore ==
  ASSUME NEW s \in Seq(Message), NEW t \in Seq(Message), Before(s, t)
  PROVE  \A m \in SeqsOf(s), n \in SeqsOf(t) : m < n
  BY DEF SeqsOf, Before, IsPacket

LEMMA SeqsNumbered ==
  ASSUME NEW s \in Seq(Message), NEW n \in Nat, Numbered(s, n)
  PROVE  \A m \in SeqsOf(s) : m \in Nat /\ m < n
  <1>1. \A i \in 1..Len(s) : s[i] \in Message
    OBVIOUS
  <1> QED BY <1>1 DEF SeqsOf, Numbered, IsPacket, Message

LEMMA NumbersOfOneMore ==
  ASSUME NEW s \in Seq(Message), NEW m \in Message
  PROVE  Numbers(s \o <<m>>) = Append(Numbers(s), m.seq)
  <1> DEFINE N == Numbers(s)
             c == s \o <<m>>
  <1>1. Len(c) = Len(s) + 1 /\ Len(s) \in Nat /\ c[Len(s) + 1] = m
        /\ \A i \in 1..Len(s) : c[i] = s[i]
    OBVIOUS
  <1>2. \A i \in 1..Len(s) : s[i].seq \in Nat
    <2>1. \A i \in 1..Len(s) : s[i] \in Message
      OBVIOUS
    <2> QED BY <2>1 DEF Message
  <1>3. N \in Seq(Nat) /\ Len(N) = Len(s) /\ \A i \in 1..Len(s) : N[i] = s[i].seq
    BY <1>1, <1>2 DEF Numbers
  <1>4. m.seq \in Nat
    BY DEF Message
  <1> HIDE DEF N, c
  <1>5. Append(N, m.seq) \in Seq(Nat) /\ Len(Append(N, m.seq)) = Len(s) + 1
        /\ Append(N, m.seq)[Len(s) + 1] = m.seq
        /\ \A i \in 1..Len(s) : Append(N, m.seq)[i] = s[i].seq
    BY <1>1, <1>3, <1>4
  <1>6. Numbers(c) = [i \in 1..(Len(s) + 1) |-> c[i].seq]
    BY <1>1 DEF Numbers
  <1>7. \A i \in 1..(Len(s) + 1) : Append(N, m.seq)[i] = c[i].seq
    <2> SUFFICES ASSUME NEW i \in 1..(Len(s) + 1) PROVE Append(N, m.seq)[i] = c[i].seq
      OBVIOUS
    <2>1. ASSUME i = Len(s) + 1 PROVE Append(N, m.seq)[i] = c[i].seq
      <3>1. c[i] = m /\ Append(N, m.seq)[i] = m.seq
        BY <1>1, <1>5, <2>1, Zenon
      <3> QED BY ONLY <3>1
    <2>2. ASSUME i \in 1..Len(s) PROVE Append(N, m.seq)[i] = c[i].seq
      <3>1. c[i] = s[i] /\ Append(N, m.seq)[i] = s[i].seq
        BY <1>1, <1>5, <2>2, Zenon
      <3> QED BY ONLY <3>1
    <2>3. i \in 1..Len(s) \/ i = Len(s) + 1
      BY <1>1
    <2> QED BY <2>1, <2>2, <2>3, Zenon
  <1>8. Append(N, m.seq) = [i \in 1..(Len(s) + 1) |-> Append(N, m.seq)[i]]
    BY <1>1, <1>5
  <1>9. Append(N, m.seq) = Numbers(c)
    BY <1>6, <1>7, <1>8, Zenon
  <1> QED BY <1>9 DEF N, c

LEMMA OneOnly ==
  ASSUME NEW S, NEW s \in Seq(S), s # <<>>, Len(s) <= 1
  PROVE  Len(s) = 1 /\ s = <<s[1]>> /\ s[1] \in S
  <1>1. Len(s) \in Nat /\ Len(s) # 0
    OBVIOUS
  <1> DEFINE k == Len(s)
  <1>2. k \in Nat /\ k # 0 /\ k <= 1
    BY ONLY <1>1, Len(s) <= 1
  <1> HIDE DEF k
  <1>3. k = 1
    BY ONLY <1>2
  <1>4. Len(s) = 1
    BY ONLY <1>3 DEF k
  <1>5. s[1] \in S
    BY ONLY s \in Seq(S), <1>4
  <1>6. s = <<s[1]>>
    BY ONLY s \in Seq(S), <1>4, <1>5
  <1> QED BY ONLY <1>4, <1>5, <1>6

LEMMA StepPipe ==
  ASSUME TypeInv, Custody, OrderInv, LineStep
  PROVE  Pipe!Next \/ UNCHANGED Pipe!pipeVars
  <1> DEFINE H == SeqsOf(hand)
             Q == SeqsOf(queue)
             F == SeqsOf(inflight)
  <1>a. /\ wire \in Seq(Message) /\ hand \in Seq(Message) /\ queue \in Seq(Message)
        /\ inflight \in Seq(Message) /\ prepared \in Nat /\ TypeOK
        /\ Len(hand) <= 1 /\ Len(inflight) <= 1 /\ Len(queue) <= Depth /\ Depth \in Nat
    BY StreamerAssumption
       DEF TypeInv, TypeOK, SenderTypes, ChannelTypes, TaskTypes, InnerTypes, OneInHand,
           StreamerAssumption
  <1>b. /\ \A m \in H, n \in Q \cup F : m < n
        /\ \A m \in Q, n \in F : m < n
        /\ \A m \in H \cup Q \cup F : m \in Nat
    <2>1. /\ \A m \in H, n \in Q : m < n
          /\ \A m \in H, n \in F : m < n
          /\ \A m \in Q, n \in F : m < n
      BY <1>a, SeqsBefore DEF OrderInv
    <2>2. \A m \in H \cup Q \cup F : m \in Nat
      BY <1>a, SeqsNumbered DEF OrderInv
    <2> QED BY <2>1, <2>2
  <1>c. Packet \in Message /\ IsPacket(Packet) /\ Packet.seq = prepared
    BY <1>a, PacketType DEF Packet, IsPacket
  <1>d. Waiting = H \cup Q \cup F
    BY DEF Waiting
  <1>e. Waiting' = SeqsOf(hand') \cup SeqsOf(queue') \cup SeqsOf(inflight')
    BY DEF Waiting, SeqsOf
  <1>f. ASSUME queue # <<>>
        PROVE  /\ Q = SeqsOf(<<Head(queue)>>) \cup SeqsOf(Tail(queue))
               /\ SeqsOf(<<Head(queue)>>) = IF IsPacket(Head(queue)) THEN {Head(queue).seq} ELSE {}
               /\ \A m \in SeqsOf(<<Head(queue)>>), n \in SeqsOf(Tail(queue)) : m < n
    <2>1. /\ InOrder(queue) => Before(<<Head(queue)>>, Tail(queue))
          /\ <<Head(queue)>> \in Seq(Message) /\ Tail(queue) \in Seq(Message)
      BY <1>a, <1>f, HeadAndTail
    <2>2. Before(<<Head(queue)>>, Tail(queue))
      BY <2>1 DEF OrderInv
    <2> QED BY <1>a, <1>f, <2>1, <2>2, SeqsOfHeadTail, SeqsOfOne, SeqsBefore
  <1> HIDE DEF H, Q, F
  <1>g. ASSUME UNCHANGED <<prepared, wire>>, SameEnd, Waiting' = Waiting
        PROVE  UNCHANGED Pipe!pipeVars
    BY <1>g DEF Pipe!pipeVars, SameEnd, Numbers
  <1>1. CASE SameLine /\ SameEnd
    BY <1>g, <1>1 DEF SameLine, Waiting, SeqsOf
  <1>2. CASE Signal /\ SameEnd
    <2>1. PICK m \in Message : ~IsPacket(m) /\ queue' = Append(queue, m)
      BY <1>2 DEF Signal
    <2>2. queue' = queue \o <<m>> /\ <<m>> \in Seq(Message)
      BY <1>a, <2>1
    <2>3. SeqsOf(queue') = SeqsOf(queue) \cup SeqsOf(<<m>>) /\ SeqsOf(<<m>>) = {}
      BY <1>a, <2>1, <2>2, SeqsOfConcat, SeqsOfOne
    <2>4. UNCHANGED <<wire, hand, inflight, prepared>>
      BY <1>2 DEF Signal
    <2>5. Waiting' = Waiting
      BY <1>e, <2>3, <2>4 DEF Waiting
    <2> QED BY <1>2, <1>g, <2>4, <2>5
  <1>3. CASE Produce /\ SameEnd
    <2>1. /\ F = {} /\ SeqsOf(inflight') = {prepared}
          /\ prepared' = prepared + 1 /\ UNCHANGED <<wire, hand, queue>>
      BY <1>3, <1>c, SeqsOfEmpty, SeqsOfOne DEF Produce, F
    <2>2. Waiting' = Waiting \cup {prepared}
      BY <1>d, <1>e, <2>1 DEF H, Q
    <2>3. Cardinality(Waiting) < Depth + 2
      <3>1. /\ IsFiniteSet(H) /\ Cardinality(H) <= Len(hand)
            /\ IsFiniteSet(Q) /\ Cardinality(Q) <= Len(queue)
        BY <1>a, SeqsOfCardinality DEF H, Q
      <3>2. IsFiniteSet(H \cup Q) /\ Cardinality(H \cup Q) <= Cardinality(H) + Cardinality(Q)
        BY <3>1, UnionCardinality
      <3>3. Cardinality(H) \in Nat /\ Cardinality(Q) \in Nat /\ Cardinality(H \cup Q) \in Nat
            /\ Len(hand) \in Nat /\ Len(queue) \in Nat
        BY <1>a, <3>1, <3>2, FS_CardinalityType
      <3>4. Waiting = H \cup Q
        BY <1>d, <2>1
      <3> QED BY <1>a, <3>1, <3>2, <3>3, <3>4
    <2>4. Numbers(wire)' = Numbers(wire)
      BY <2>1 DEF Numbers
    <2>5. Pipe!Prepare
      <3>1. Pipe!Cardinality(Waiting) = Cardinality(Waiting)
        BY DEF Pipe!Cardinality, Cardinality
      <3> QED BY <1>3, <2>1, <2>2, <2>3, <2>4, <3>1 DEF Pipe!Prepare, SameEnd
    <2> QED BY <2>5 DEF Pipe!Next
  <1>4. CASE ProduceDirectly /\ SameEnd
    <2>1. /\ hand = <<>> /\ queue = <<>> /\ inflight = <<>> /\ sender = "none"
          /\ wire' = wire \o <<Packet>> /\ prepared' = prepared + 1
          /\ UNCHANGED <<hand, queue, inflight>>
      BY <1>4, <1>a, <1>c DEF ProduceDirectly
    <2>2. Waiting = {} /\ Waiting' = {}
      BY <1>e, <2>1, SeqsOfEmpty DEF Waiting
    <2>3. Numbers(wire)' = Append(Numbers(wire), prepared)
      BY <1>a, <1>c, <2>1, NumbersOfOneMore DEF Numbers
    <2>4. Pipe!PrepareAndDeliver
      BY <1>4, <2>1, <2>2, <2>3 DEF Pipe!PrepareAndDeliver, SameEnd
    <2> QED BY <2>4 DEF Pipe!Next
  <1>5. CASE Handover /\ SameEnd
    <2>1. /\ SeqsOf(queue') = Q \cup F /\ SeqsOf(inflight') = {}
          /\ UNCHANGED <<wire, hand, prepared>>
      BY <1>5, <1>a, SeqsOfConcat, SeqsOfEmpty DEF Handover, Q, F
    <2>2. Waiting' = Waiting
      BY <1>d, <1>e, <2>1 DEF H
    <2> QED BY <1>5, <1>g, <2>1, <2>2
  <1>6. CASE Abandon /\ SameEnd
    <2>1. /\ SeqsOf(inflight') = {} /\ UNCHANGED <<wire, hand, queue, prepared>>
          /\ sender = "exited" \/ inflight = <<>>
      BY <1>6, SeqsOfEmpty DEF Abandon
    <2>2. Waiting' = H \cup Q
      BY <1>e, <2>1 DEF H, Q
    <2>3. CASE F = {}
      BY <1>6, <1>d, <1>g, <2>1, <2>2, <2>3
    <2>4. CASE F # {}
      <3>1. inflight # <<>> /\ sender = "exited"
        BY <2>1, <2>4, SeqsOfEmpty DEF F
      <3>2. H = {} /\ Q = {}
        BY <3>1, SeqsOfEmpty DEF Custody, H, Q
      <3>3. PICK n : F = {n}
        <4>1. Len(inflight) = 1 /\ inflight = <<inflight[1]>>
          BY <1>a, <3>1, OneOnly
        <4> QED BY <2>4, <4>1, SeqsOfOne DEF F
      <3>4. n \in Nat /\ Waiting = {n} /\ Waiting' = Waiting \ {n}
        BY <1>b, <1>d, <2>2, <3>2, <3>3
      <3>5. Pipe!Oldest(n)
        BY <3>4 DEF Pipe!Oldest
      <3>6. Pipe!Lose
        BY <1>6, <2>1, <3>4, <3>5 DEF Pipe!Lose, SameEnd, Numbers
      <3> QED BY <3>6 DEF Pipe!Next
    <2> QED BY <2>3, <2>4
  <1>7. CASE Purge
    <2>1. /\ SeqsOf(queue') = {} /\ UNCHANGED <<wire, hand, inflight, prepared>>
          /\ sender \in {"run", "paused"} /\ sender' = "exited"
      BY <1>7, SeqsOfEmpty DEF Purge
    <2>2. H = {}
      BY <2>1, SeqsOfEmpty DEF Custody, H
    <2>3. Waiting' = F /\ Waiting = Q \cup F
      BY <1>d, <1>e, <2>1, <2>2 DEF F, H
    <2>4. Pipe!Close
      BY <1>b, <2>1, <2>3 DEF Pipe!Close, Numbers
    <2> QED BY <2>4 DEF Pipe!Next
  <1>8. CASE Skip /\ SameEnd
    <2>1. /\ queue # <<>> /\ ~IsPacket(Head(queue)) /\ queue' = Tail(queue)
          /\ UNCHANGED <<wire, hand, inflight, prepared>>
      BY <1>8 DEF Skip
    <2>2. SeqsOf(queue') = Q
      BY <1>f, <2>1
    <2>3. Waiting' = Waiting
      BY <1>d, <1>e, <2>1, <2>2 DEF H, F
    <2> QED BY <1>8, <1>g, <2>1, <2>3
  <1>9. CASE Discard /\ SameEnd
    <2> DEFINE n == Head(queue).seq
               R == SeqsOf(Tail(queue))
    <2>1. /\ queue # <<>> /\ IsPacket(Head(queue)) /\ queue' = Tail(queue) /\ sender = "paused"
          /\ UNCHANGED <<wire, hand, inflight, prepared>>
      BY <1>9 DEF Discard
    <2>2. H = {} /\ Q = {n} \cup R /\ \A m \in R : n < m
      BY <1>f, <2>1, SeqsOfEmpty DEF Custody, H
    <2>3. Waiting' = R \cup F
      BY <1>e, <2>1, <2>2 DEF F, H
    <2> HIDE DEF n, R
    <2>4. n \in Nat /\ n \notin R /\ n \notin F /\ \A m \in R \cup F : m \in Nat /\ n < m
      BY <1>b, <2>2
    <2>5. n \in Waiting /\ Waiting' = Waiting \ {n} /\ \A m \in Waiting : n <= m
      BY <1>d, <2>2, <2>3, <2>4
    <2>6. Pipe!Lose
      BY <1>9, <2>1, <2>5 DEF Pipe!Lose, Pipe!Oldest, SameEnd, Numbers
    <2> QED BY <2>6 DEF Pipe!Next
  <1>10. CASE Take /\ SameEnd
    <2>1. /\ Q = SeqsOf(hand') \cup SeqsOf(queue') /\ H = {}
          /\ UNCHANGED <<wire, inflight, prepared>>
      BY <1>10, <1>f, SeqsOfEmpty DEF Take, H
    <2>2. Waiting' = Waiting
      BY <1>d, <1>e, <2>1 DEF F
    <2> QED BY <1>10, <1>g, <2>1, <2>2
  <1>11. CASE Emit /\ SameEnd
    <2>1. /\ wire' = wire \o hand /\ SeqsOf(hand') = {} /\ sender = "deadline"
          /\ UNCHANGED <<queue, inflight, prepared>>
      BY <1>11, SeqsOfEmpty DEF Emit
    <2>2. Waiting' = Q \cup F
      BY <1>e, <2>1 DEF Q, F
    <2>3. CASE hand = <<>>
      <3>1. wire' = wire /\ H = {}
        BY <1>a, <2>1, <2>3, SeqsOfEmpty DEF H
      <3> QED BY <1>11, <1>d, <1>g, <2>1, <2>2, <3>1
    <2>4. CASE hand # <<>>
      <3> DEFINE n == hand[1].seq
      <3>1. Len(hand) = 1 /\ hand = <<hand[1]>> /\ hand[1] \in Message
        BY <1>a, <2>4, OneOnly
      <3>2. IsPacket(hand[1])
        BY <3>1 DEF OrderInv, PacketsOnly
      <3>3. H = {n}
        BY <3>1, <3>2, SeqsOfOne DEF H
      <3>4. Numbers(wire)' = Append(Numbers(wire), n)
        BY <1>a, <2>1, <3>1, NumbersOfOneMore DEF Numbers
      <3> HIDE DEF n
      <3>5. n \in Nat /\ n \notin Q /\ n \notin F /\ \A m \in Q \cup F : m \in Nat /\ n < m
        BY <1>b, <3>3
      <3>6. n \in Waiting /\ Waiting' = Waiting \ {n} /\ \A m \in Waiting : n <= m
        BY <1>d, <2>2, <3>3, <3>5
      <3>7. Pipe!Deliver
        BY <1>11, <2>1, <3>4, <3>6 DEF Pipe!Deliver, Pipe!Oldest, SameEnd
      <3> QED BY <3>7 DEF Pipe!Next
    <2> QED BY <2>3, <2>4
  <1> QED BY <1>1, <1>2, <1>3, <1>4, <1>5, <1>6, <1>7, <1>8, <1>9, <1>10, <1>11 DEF LineStep

LEMMA InitPipe == Init => Pipe!Init
  <1> SUFFICES ASSUME Init PROVE Pipe!Init
    OBVIOUS
  <1>1. prepared = 0 /\ sender = "none" /\ wire = <<>> /\ hand = <<>> /\ queue = <<>> /\ inflight = <<>>
    BY DEF Init
  <1>2. Waiting = {}
    BY <1>1, SeqsOfEmpty DEF Waiting
  <1>3. Numbers(wire) = <<>>
    BY <1>1 DEF Numbers
  <1> QED BY <1>1, <1>2, <1>3 DEF Pipe!Init

\* Task, channel and thread together are one lossy FIFO pipe: every step of the streamer is a
\* step of PacketPipe or leaves it alone.  (That no packet waits forever needs fairness.)
THEOREM StreamerIsPipe == Spec => Pipe!Orderly
  <1>1. TypeInv /\ Custody /\ OrderInv /\ [Next]_vars => [Pipe!Next]_(Pipe!pipeVars)
    <2>1. TypeInv => TypeOK
      BY DEF TypeInv
    <2> QED BY <2>1, LineSteps, StepPipe
  <1>2. TypeInv => TypeOK
    BY DEF TypeInv
  <1> QED BY <1>1, <1>2, StreamerAssumption, InitTypeInv, StepTypeInv, InitCustody, StepCustody,
             LineSteps, InitOrderInv, StepOrderInv, InitPipe, PTL
          DEF Spec, Pipe!Orderly
=============================================================================
