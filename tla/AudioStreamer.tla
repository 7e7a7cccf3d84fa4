--------------------------- MODULE AudioStreamer ---------------------------
(***************************************************************************)
(* The transmit path of crates/airplay-audio/src/streamer.rs.              *)
(*                                                                         *)
(* Three actors share it.  The owner (Connection, or the group client)     *)
(* calls start, pause, resume, seek and stop one at a time.  The tokio     *)
(* task run_streamer decodes, encodes and prepares packets under the       *)
(* StreamerInner mutex, and hands each to a bounded crossbeam channel with *)
(* a blocking send.  The "rt-sender" OS thread takes messages off that     *)
(* channel and puts packets on the wire at its own pace.  A fourth party,  *)
(* the capture thread, feeds live audio into the decoder's channel.        *)
(*                                                                         *)
(* A step is a critical section of the mutex, or one operation on the      *)
(* channel.  A packet is its number in the order of preparation, its       *)
(* marker bit, and nothing else; one audio frame makes one packet.         *)
(***************************************************************************)
EXTENDS Naturals, Sequences, FiniteSets

CONSTANTS
  Depth,      \* slots of the bounded channel (SENDER_QUEUE_DEPTH, or from the latency budget)
  BufCap,     \* AudioBuffer::capacity_frames
  Batch,      \* frames pulled by one pass of the send loop (DECODE_BATCH_REALTIME)
  ResumePct,  \* fill percentage above which Buffering becomes Streaming (10 in the code)
  Prefill,    \* frames start_live waits for
  FileLen,    \* frames in the file
  ChanCap,    \* slots of the live capture channel
  LiveFrames, \* bound: frames the live source ever captures
  MaxCtl,     \* bound: pause and resume calls
  MaxSeek,    \* bound: seek calls
  Sources,    \* which of start ("file") and start_live ("live") the owner may call
  Faults      \* whether decoding, encoding and cloning the sockets may fail

ASSUME StreamerAssumption ==
  /\ Depth \in Nat \ {0} /\ BufCap \in Nat \ {0} /\ Batch \in Nat \ {0}
  /\ ResumePct \in 0..99 /\ Prefill \in 1..BufCap
  /\ FileLen \in Nat /\ ChanCap \in Nat \ {0} /\ LiveFrames \in Nat
  /\ MaxCtl \in Nat /\ MaxSeek \in Nat
  /\ Sources \subseteq {"file", "live"} /\ Faults \in BOOLEAN

VARIABLES
  \* The owner: where it is in start/pause/stop, and its handles.
  owner,      \* program point of the owner
  ctlLeft,    \* pause and resume calls it may still make
  seekLeft,   \* seek calls it may still make
  ownTx,      \* AudioStreamer::sender_tx is Some
  cloneTx,    \* the control listener's clone of the streamer holds a sender_tx
  \* StreamerInner, behind the mutex, and the lock-free caches beside it.
  state,      \* StreamerInner::state
  cache,      \* state_cache
  position,   \* timestamp_cache, in packets
  decoder,    \* which decoder is installed
  eof,        \* the decoder's eof flag
  fill,       \* frames in the AudioBuffer
  firstSent,  \* first_packet_sent
  prepared,   \* packets encoded and prepared so far: the encoder's and the RTP counter
  \* The source of audio.
  avail,      \* frames the decoder can return without waiting
  toCapture,  \* frames the live source has yet to capture
  srcOpen,    \* the live source still holds its end of the capture channel
  \* run_streamer.
  task,       \* program point of the task
  inflight,   \* the packet its blocking send holds, as a sequence of at most one
  cancelled,  \* stop() has called abort() on it
  \* The channel and the rt-sender thread.
  queue,      \* messages in the channel
  sender,     \* program point of the thread
  hand,       \* the packet the thread holds until its deadline
  wire,       \* history: packets transmitted, in order
  discarded,  \* history: packets the thread dropped while paused
  flushed,    \* history: nothing transmitted since the last FLUSH and reset
  atPause     \* history: the pause in force, if any

ownerVars  == <<owner, ctlLeft, seekLeft, ownTx, cloneTx>>
innerVars  == <<state, cache, position, decoder, eof, fill, firstSent, prepared>>
sourceVars == <<avail, toCapture, srcOpen>>
taskVars   == <<task, inflight, cancelled>>
senderVars == <<sender, hand, wire, discarded>>
vars == <<ownerVars, innerVars, sourceVars, taskVars, queue, senderVars, flushed, atPause>>

States == {"Idle", "Buffering", "Streaming", "Paused", "Stopped", "Error"}
Kinds  == {"Packet", "Pause", "Resume", "Stop"}
Message == [kind : Kinds, seq : Nat, marker : BOOLEAN]

Control(k) == [kind |-> k, seq |-> 0, marker |-> FALSE]
Packet == [kind |-> "Packet", seq |-> prepared, marker |-> ~firstSent]

Smaller(a, b) == IF a <= b THEN a ELSE b

\* A pause that took effect and was not resumed: the packets prepared until then,
\* whether its message got into the channel, and whether the task's underrun has
\* overwritten Paused since.
Pauses == [on : BOOLEAN, packets : Nat, told : BOOLEAN, undone : BOOLEAN]
Unpaused == [on |-> FALSE, packets |-> 0, told |-> FALSE, undone |-> FALSE]

-----------------------------------------------------------------------------
(* The channel: crossbeam's bounded.  The receiver lives in the rt-sender    *)
(* thread, so it is gone once the thread has exited.                         *)

ReceiverAlive == sender \in {"run", "deadline", "paused"}
\* Mutant: a slot too many.
RoomOffByOne == ReceiverAlive /\ Len(queue) <= Depth

Room == ReceiverAlive /\ Len(queue) < Depth

TaskAlive == task \in {"check", "work", "blocked", "exit"}
SendersAlive == ownTx \/ cloneTx \/ (TaskAlive /\ sender # "none")

\* try_send with its result ignored: a full channel loses the message.
TrySend(k) == queue' = IF Room THEN Append(queue, Control(k)) ELSE queue

-----------------------------------------------------------------------------
(* decode_some_inner: pull frames until the batch is done, the buffer is     *)
(* full or the source is dry.                                                *)

Decoded(batch) ==
  IF decoder = "none" THEN 0 ELSE Smaller(batch, Smaller(BufCap - fill, avail))

\* The decoder meets the end of its input when it is asked for a frame it does
\* not have; a file decoder also while assembling its last, shorter frame.
MeetsEnd(n, batch) ==
  /\ decoder # "none" /\ ~srcOpen /\ avail = n
  /\ n < batch /\ fill + n < BufCap
MayMeetEnd(n) == decoder = "file" /\ n > 0 /\ avail = n

Decode(batch) ==
  LET n == Decoded(batch) IN
  /\ avail' = avail - n
  /\ \/ eof' = (eof \/ MeetsEnd(n, batch))
     \/ MayMeetEnd(n) /\ eof' = TRUE

\* fill_percentage() > 10.0
Above(f) == f * 100 > ResumePct * BufCap

-----------------------------------------------------------------------------
(* The owner. *)

Init ==
  /\ owner = "idle" /\ ctlLeft = MaxCtl /\ seekLeft = MaxSeek
  /\ ownTx = FALSE /\ cloneTx = FALSE
  /\ state = "Idle" /\ cache = "Idle" /\ position = 0
  /\ decoder = "none" /\ eof = FALSE /\ fill = 0
  /\ firstSent = FALSE /\ prepared = 0
  /\ avail = 0 /\ toCapture = LiveFrames /\ srcOpen = TRUE
  /\ task = "none" /\ inflight = <<>> /\ cancelled = FALSE
  /\ queue = <<>> /\ sender = "none" /\ hand = <<>>
  /\ wire = <<>> /\ discarded = {} /\ flushed = TRUE /\ atPause = Unpaused

\* Create the channel, the rt-sender thread and the task.  Without a socket to
\* clone there is no thread and the task sends directly.  The connection then
\* gives its control listener a clone of the streamer.
Spawn ==
  /\ \E sockets \in (IF Faults THEN BOOLEAN ELSE {TRUE}), listener \in BOOLEAN :
       /\ sender' = IF sockets THEN "run" ELSE "none"
       /\ ownTx' = sockets
       /\ cloneTx' = (sockets /\ listener)
  /\ task' = "check"
  /\ owner' = "ready"

\* start(): no other actor exists yet, so its lock sections make one step.
StartFile ==
  /\ owner = "idle" /\ "file" \in Sources
  /\ LET n == Smaller(Batch, Smaller(BufCap, FileLen)) IN
       /\ decoder' = "file" /\ srcOpen' = FALSE
       /\ fill' = n /\ avail' = FileLen - n
       /\ eof' \in {n < Batch /\ n < BufCap, n = FileLen /\ n > 0}
       /\ state' = IF Above(n) THEN "Streaming" ELSE "Buffering"
       /\ cache' = state'
  /\ Spawn
  /\ UNCHANGED <<ctlLeft, seekLeft, position, firstSent, prepared, toCapture,
                 inflight, cancelled, queue, hand, wire, discarded, flushed, atPause>>

StartLive ==
  /\ owner = "idle" /\ "live" \in Sources
  /\ decoder' = "live"
  /\ state' = "Buffering" /\ cache' = "Buffering"
  /\ owner' = "prefill"
  /\ UNCHANGED <<ctlLeft, seekLeft, ownTx, cloneTx, position, eof, fill, firstSent,
                 prepared, sourceVars, taskVars, queue, senderVars, flushed, atPause>>

\* One round of start_live's fill loop: enough frames, or max_wait elapsed, end it.
PrefillRound ==
  /\ owner = "prefill"
  /\ Decode(BufCap)
  /\ fill' = fill + Decoded(BufCap)
  /\ \/ /\ fill' < Prefill
        /\ UNCHANGED <<state, cache, task, sender, ownTx, cloneTx, owner>>
     \/ /\ state' = "Streaming" /\ cache' = "Streaming"
        /\ Spawn
  /\ UNCHANGED <<ctlLeft, seekLeft, position, decoder, firstSent, prepared,
                 toCapture, srcOpen, inflight, cancelled, queue, hand, wire, discarded,
                 flushed, atPause>>

\* An error of the encoder or of the first decode: the caller drops the streamer.
StartFails ==
  /\ Faults /\ owner \in {"idle", "prefill"}
  /\ owner' = "dropped"
  /\ state' \in {state, "Buffering"} /\ cache' = state'
  /\ UNCHANGED <<ctlLeft, seekLeft, ownTx, cloneTx, position, decoder, eof, fill,
                 firstSent, prepared, sourceVars, taskVars, queue, senderVars,
                 flushed, atPause>>

\* pause(), the first half of Connection::pause: the FLUSH follows.
Pause ==
  /\ owner = "ready" /\ ctlLeft > 0
  /\ IF state = "Streaming"
     THEN /\ IF ownTx THEN TrySend("Pause") ELSE UNCHANGED queue
          /\ state' = "Paused" /\ cache' = "Paused"
          /\ atPause' = [on |-> TRUE, packets |-> prepared, told |-> ownTx /\ Room,
                         undone |-> FALSE]
     ELSE UNCHANGED <<queue, state, cache, atPause>>
  /\ owner' = "flush"
  /\ ctlLeft' = ctlLeft - 1
  /\ UNCHANGED <<seekLeft, ownTx, cloneTx, position, decoder, eof, fill, firstSent,
                 prepared, sourceVars, taskVars, senderVars, flushed>>

\* The FLUSH was answered: reset_after_flush.  Connection::stop does the same.
ResetAfterFlush ==
  /\ owner \in {"flush", "stopped"}
  /\ owner' = IF owner = "flush" THEN "ready" ELSE owner
  /\ firstSent' = FALSE /\ flushed' = TRUE
  /\ UNCHANGED <<ctlLeft, seekLeft, ownTx, cloneTx, state, cache, position, decoder,
                 eof, fill, prepared, sourceVars, taskVars, queue, senderVars, atPause>>

\* The FLUSH failed: Connection::pause returns before the reset.
FlushFails ==
  /\ owner = "flush"
  /\ owner' = "ready"
  /\ UNCHANGED <<ctlLeft, seekLeft, ownTx, cloneTx, innerVars, sourceVars, taskVars,
                 queue, senderVars, flushed, atPause>>

Resume ==
  /\ owner = "ready" /\ ctlLeft > 0 /\ state = "Paused"
  /\ IF ownTx THEN TrySend("Resume") ELSE UNCHANGED queue
  /\ state' = "Streaming" /\ cache' = "Streaming"
  /\ ctlLeft' = ctlLeft - 1
  /\ atPause' = Unpaused
  /\ UNCHANGED <<owner, seekLeft, ownTx, cloneTx, position, decoder, eof, fill,
                 firstSent, prepared, sourceVars, taskVars, senderVars, flushed>>

\* seek(): the decoder moves (a live stream has no file decoder to move), the
\* encoder's own timestamp does not.  When the decoder refuses, the buffer has
\* been flushed all the same.
Seek ==
  /\ owner = "ready" /\ seekLeft > 0
  /\ fill' = 0
  /\ \/ \E target \in 0..FileLen :
          /\ position' = target
          /\ IF decoder = "file" THEN avail' = FileLen - target /\ eof' = FALSE
                                 ELSE UNCHANGED <<avail, eof>>
     \/ Faults /\ decoder = "file" /\ UNCHANGED <<position, avail, eof>>
  /\ seekLeft' = seekLeft - 1
  /\ UNCHANGED <<owner, ctlLeft, ownTx, cloneTx, state, cache, decoder, firstSent,
                 prepared, toCapture, srcOpen, taskVars, queue, senderVars, flushed, atPause>>

\* stop() up to the join: cache, one try_send, drop of the owner's sender.
StopBegin ==
  /\ owner = "ready"
  /\ cache' = "Stopped"
  /\ IF ownTx THEN TrySend("Stop") ELSE UNCHANGED queue
  /\ ownTx' = FALSE
  /\ owner' = "joining"
  /\ UNCHANGED <<ctlLeft, seekLeft, cloneTx, state, position, decoder, eof, fill,
                 firstSent, prepared, sourceVars, taskVars, senderVars, flushed, atPause>>

\* The join returns once the thread has exited; then abort() the task.
StopJoined ==
  /\ owner = "joining" /\ sender \in {"none", "exited"}
  /\ cancelled' = TRUE
  /\ owner' = "aborted"
  /\ UNCHANGED <<ctlLeft, seekLeft, ownTx, cloneTx, innerVars, sourceVars, task,
                 inflight, queue, senderVars, flushed, atPause>>

\* Mutant: the buffer is not flushed.
StopKeepsBuffer ==
  /\ owner = "aborted"
  /\ owner' = "stopped"
  /\ state' = "Stopped" /\ decoder' = "none"
  /\ UNCHANGED <<ctlLeft, seekLeft, ownTx, cloneTx, cache, position, eof, fill, firstSent,
                 prepared, sourceVars, taskVars, queue, senderVars, flushed, atPause>>

\* The last lock section of stop().  The cache was stored at the beginning.
StopFinish ==
  /\ owner = "aborted"
  /\ owner' = "stopped"
  /\ state' = "Stopped" /\ fill' = 0 /\ decoder' = "none"
  /\ UNCHANGED <<ctlLeft, seekLeft, ownTx, cloneTx, cache, position, eof, firstSent,
                 prepared, sourceVars, taskVars, queue, senderVars, flushed, atPause>>

-----------------------------------------------------------------------------
(* The capture thread of a live source: LiveFrameSender::try_send drops the  *)
(* frame when the channel is full.                                           *)

Capture ==
  /\ srcOpen /\ decoder = "live" /\ toCapture > 0
  /\ toCapture' = toCapture - 1
  /\ avail' = IF avail < ChanCap THEN avail + 1 ELSE avail
  /\ UNCHANGED <<ownerVars, innerVars, srcOpen, taskVars, queue, senderVars, flushed, atPause>>

CaptureEnds ==
  /\ srcOpen /\ decoder = "live"
  /\ srcOpen' = FALSE
  /\ UNCHANGED <<ownerVars, innerVars, avail, toCapture, taskVars, queue, senderVars,
                 flushed, atPause>>

-----------------------------------------------------------------------------
(* run_streamer.  The state is read in one critical section and acted upon   *)
(* in the next; other actors run in between.                                 *)

\* Where an await at the end of an iteration leaves the task.
Loop == IF cancelled THEN "aborted" ELSE "check"

\* Mutant: only Stopped and Error end an iteration.
CheckIgnoresPause ==
  /\ task = "check"
  /\ task' = IF state \in {"Stopped", "Error"} THEN "exit" ELSE "work"
  /\ UNCHANGED <<ownerVars, innerVars, sourceVars, inflight, cancelled, queue,
                 senderVars, flushed, atPause>>

TaskCheck ==
  /\ task = "check"
  /\ task' = CASE state \in {"Stopped", "Error"} -> "exit"
             [] state = "Paused" -> Loop
             [] OTHER -> "work"
  /\ UNCHANGED <<ownerVars, innerVars, sourceVars, inflight, cancelled, queue,
                 senderVars, flushed, atPause>>

\* The decoder ran out, and so did the buffer: playback is complete.
WorkEof ==
  /\ task = "work" /\ state = "Buffering"
  /\ Decode(Batch)
  /\ eof' /\ decoder # "none" /\ fill + Decoded(Batch) = 0
  /\ state' = "Stopped" /\ cache' = "Stopped"
  /\ task' = "exit"
  /\ UNCHANGED <<ownerVars, position, decoder, fill, firstSent, prepared, toCapture,
                 srcOpen, inflight, cancelled, queue, senderVars, flushed, atPause>>

\* Not enough audio to leave Buffering: sleep and try again.
WorkWait ==
  /\ task = "work" /\ state = "Buffering"
  /\ Decode(Batch)
  /\ fill' = fill + Decoded(Batch) /\ ~Above(fill')
  /\ ~(eof' /\ decoder # "none" /\ fill' = 0)
  /\ task' = Loop
  /\ UNCHANGED <<ownerVars, state, cache, position, decoder, firstSent, prepared,
                 toCapture, srcOpen, inflight, cancelled, queue, senderVars, flushed,
                 atPause>>

\* Pop a frame, encode it, prepare the packet and account for it; the packet is
\* then in the hands of the blocking send, or sent at once if there is no thread.
WorkPacket ==
  LET f == fill + Decoded(Batch) IN
  /\ task = "work" /\ f > 0
  /\ state = "Buffering" => Above(f)
  /\ Decode(Batch)
  /\ fill' = f - 1
  /\ IF state = "Buffering" THEN state' = "Streaming" /\ cache' = "Streaming"
                            ELSE UNCHANGED <<state, cache>>
  /\ firstSent' = TRUE /\ prepared' = prepared + 1 /\ position' = prepared + 1
  /\ IF sender = "none"
     THEN /\ wire' = Append(wire, Packet) /\ flushed' = FALSE
          /\ task' = Loop
          /\ UNCHANGED inflight
     ELSE /\ inflight' = <<Packet>>
          /\ task' = "blocked"
          /\ UNCHANGED <<wire, flushed>>
  /\ UNCHANGED <<ownerVars, decoder, toCapture, srcOpen, cancelled, queue, sender, hand,
                 discarded, atPause>>

\* The buffer is empty when a packet is due.
WorkUnderrun ==
  /\ task = "work" /\ state # "Buffering"
  /\ fill + Decoded(Batch) = 0
  /\ Decode(Batch)
  /\ state' = "Buffering" /\ cache' = "Buffering"
  /\ atPause' = [atPause EXCEPT !.undone = atPause.on]
  /\ task' = Loop
  /\ UNCHANGED <<ownerVars, position, decoder, fill, firstSent, prepared, toCapture,
                 srcOpen, inflight, cancelled, queue, senderVars, flushed>>

\* Decoding or encoding failed: the task's closure records the error, in the
\* state only if nobody holds the mutex at that moment.
WorkFails ==
  /\ Faults /\ task = "work"
  /\ cache' = "Error" /\ state' \in {state, "Error"}
  /\ task' = "done"
  /\ UNCHANGED <<ownerVars, position, decoder, eof, fill, firstSent, prepared,
                 sourceVars, inflight, cancelled, queue, senderVars, flushed, atPause>>

\* Mutant: try_send in place of the blocking send.
SendOrDrop ==
  /\ task = "blocked" /\ ReceiverAlive
  /\ queue' = IF Room THEN queue \o inflight ELSE queue
  /\ inflight' = <<>>
  /\ task' = Loop
  /\ UNCHANGED <<ownerVars, innerVars, sourceVars, cancelled, senderVars, flushed, atPause>>

\* Mutant: a packet that got into the channel may be sent again.
SendAndRetry ==
  /\ task = "blocked" /\ Room
  /\ queue' = queue \o inflight
  /\ \/ inflight' = <<>> /\ task' = Loop
     \/ UNCHANGED <<inflight, task>>
  /\ UNCHANGED <<ownerVars, innerVars, sourceVars, cancelled, senderVars, flushed, atPause>>

\* The blocking send completes, once there is room.
SendCompletes ==
  /\ task = "blocked" /\ Room
  /\ queue' = queue \o inflight /\ inflight' = <<>>
  /\ task' = Loop
  /\ UNCHANGED <<ownerVars, innerVars, sourceVars, cancelled, senderVars, flushed, atPause>>

\* The blocking send fails: the receiver is gone.
SendFails ==
  /\ task = "blocked" /\ ~ReceiverAlive
  /\ inflight' = <<>>
  /\ cache' = "Error"
  /\ task' = "exit"
  /\ UNCHANGED <<ownerVars, state, position, decoder, eof, fill, firstSent, prepared,
                 sourceVars, cancelled, queue, senderVars, flushed, atPause>>

\* After the loop: signal the thread, return, and drop the task's sender.
TaskExit ==
  /\ task = "exit"
  /\ IF sender # "none" THEN TrySend("Stop") ELSE UNCHANGED queue
  /\ task' = "done"
  /\ UNCHANGED <<ownerVars, innerVars, sourceVars, inflight, cancelled, senderVars,
                 flushed, atPause>>

\* abort() takes effect at an await point.
TaskCancelled ==
  /\ cancelled /\ task \in {"check", "work", "blocked"}
  /\ task' = "aborted" /\ inflight' = <<>>
  /\ UNCHANGED <<ownerVars, innerVars, sourceVars, cancelled, queue, senderVars,
                 flushed, atPause>>

-----------------------------------------------------------------------------
(* The rt-sender thread (sender_thread_main, burst_size = 1). *)

Exit == sender' = "exited" /\ queue' = <<>>

\* Mutant: the inner loop of Pause waits for Resume only.
StopOnlyWhileRunning ==
  /\ sender = "run" /\ queue # <<>> /\ Head(queue).kind = "Stop"
  /\ Exit
  /\ UNCHANGED <<ownerVars, innerVars, sourceVars, taskVars, hand, wire, discarded,
                 flushed, atPause>>

ReceiveStop ==
  /\ sender \in {"run", "paused"} /\ queue # <<>> /\ Head(queue).kind = "Stop"
  /\ Exit
  /\ UNCHANGED <<ownerVars, innerVars, sourceVars, taskVars, hand, wire, discarded,
                 flushed, atPause>>

ReceivePause ==
  /\ sender = "run" /\ queue # <<>> /\ Head(queue).kind = "Pause"
  /\ sender' = "paused" /\ queue' = Tail(queue)
  /\ UNCHANGED <<ownerVars, innerVars, sourceVars, taskVars, hand, wire, discarded,
                 flushed, atPause>>

\* Resume while running only resets the deadline.
ReceiveResume ==
  /\ sender \in {"run", "paused"} /\ queue # <<>> /\ Head(queue).kind = "Resume"
  /\ sender' = "run" /\ queue' = Tail(queue)
  /\ UNCHANGED <<ownerVars, innerVars, sourceVars, taskVars, hand, wire, discarded,
                 flushed, atPause>>

\* The thread takes a packet and sleeps until the deadline...
ReceivePacket ==
  /\ sender = "run" /\ queue # <<>> /\ Head(queue).kind = "Packet"
  /\ hand' = <<Head(queue)>> /\ queue' = Tail(queue)
  /\ sender' = "deadline"
  /\ UNCHANGED <<ownerVars, innerVars, sourceVars, taskVars, wire, discarded, flushed, atPause>>

\* ... and sends it.
Transmit ==
  /\ sender = "deadline"
  /\ wire' = wire \o hand /\ hand' = <<>>
  /\ flushed' = FALSE
  /\ sender' = "run"
  /\ UNCHANGED <<ownerVars, innerVars, sourceVars, taskVars, queue, discarded, atPause>>

\* The inner loop of Pause: whatever is not Resume or Stop is thrown away.
DiscardWhilePaused ==
  /\ sender = "paused" /\ queue # <<>> /\ Head(queue).kind \in {"Packet", "Pause"}
  /\ queue' = Tail(queue)
  /\ discarded' = IF Head(queue).kind = "Packet" THEN discarded \cup {Head(queue).seq}
                                                 ELSE discarded
  /\ UNCHANGED <<ownerVars, innerVars, sourceVars, taskVars, sender, hand, wire, flushed,
                 atPause>>

\* Every sender is gone and the channel is drained.  Only the outer loop looks.
Disconnected ==
  /\ sender = "run" /\ queue = <<>> /\ ~SendersAlive
  /\ Exit
  /\ UNCHANGED <<ownerVars, innerVars, sourceVars, taskVars, hand, wire, discarded,
                 flushed, atPause>>

-----------------------------------------------------------------------------
OwnerCalls  == \/ StartFile \/ StartLive \/ StartFails \/ Pause \/ Resume \/ Seek \/ StopBegin
OwnerSteps  == \/ PrefillRound \/ ResetAfterFlush \/ FlushFails \/ StopJoined \/ StopFinish
CaptureNext == Capture \/ CaptureEnds
TaskNext    == \/ TaskCheck \/ WorkEof \/ WorkWait \/ WorkPacket \/ WorkUnderrun \/ WorkFails
               \/ SendCompletes \/ SendFails \/ TaskExit \/ TaskCancelled
SenderNext  == \/ ReceiveStop \/ ReceivePause \/ ReceiveResume \/ ReceivePacket \/ Transmit
               \/ DiscardWhilePaused \/ Disconnected

Next == OwnerCalls \/ OwnerSteps \/ CaptureNext \/ TaskNext \/ SenderNext

Spec == Init /\ [][Next]_vars

\* The owner need not call anything, nor the source produce; threads, the task
\* and a call under way go on.
Fairness == WF_vars(OwnerSteps) /\ WF_vars(TaskNext) /\ WF_vars(SenderNext)

FairSpec == Spec /\ Fairness

-----------------------------------------------------------------------------
(* Properties. *)

OwnerTypes ==
  /\ owner \in {"idle", "prefill", "ready", "flush", "joining", "aborted", "stopped", "dropped"}
  /\ ctlLeft \in Nat /\ seekLeft \in Nat /\ ownTx \in BOOLEAN /\ cloneTx \in BOOLEAN

InnerTypes ==
  /\ state \in States /\ cache \in States /\ position \in Nat
  /\ decoder \in {"none", "file", "live"} /\ eof \in BOOLEAN
  /\ fill \in 0..BufCap /\ firstSent \in BOOLEAN /\ prepared \in Nat

SourceTypes == avail \in Nat /\ toCapture \in Nat /\ srcOpen \in BOOLEAN

TaskTypes ==
  /\ task \in {"none", "check", "work", "blocked", "exit", "done", "aborted"}
  /\ inflight \in Seq(Message) /\ cancelled \in BOOLEAN

ChannelTypes == queue \in Seq(Message) /\ Len(queue) <= Depth

SenderTypes ==
  /\ sender \in {"none", "run", "deadline", "paused", "exited"}
  /\ hand \in Seq(Message) /\ wire \in Seq(Message) /\ discarded \subseteq Nat

\* The variables keep their types: the channel never holds more than Depth
\* messages, nor the AudioBuffer more than its capacity.
TypeOK ==
  /\ OwnerTypes /\ InnerTypes /\ SourceTypes /\ TaskTypes /\ ChannelTypes /\ SenderTypes
  /\ flushed \in BOOLEAN /\ atPause \in Pauses

\* Packets reach the wire in the order they were prepared, and none twice,
\* however the owner's calls fall among the steps of the task and the thread.
WireInOrder == \A i, j \in 1..Len(wire) : i < j => wire[i].seq < wire[j].seq

SeqsOf(s) == {s[i].seq : i \in {j \in 1..Len(s) : s[j].kind = "Packet"}}

\* While the thread lives every prepared packet is on the wire, was discarded by
\* a paused thread, or is still on its way: no handover loses one silently.
NothingVanishes ==
  sender # "exited" =>
    0..(prepared - 1) = SeqsOf(wire) \cup discarded \cup SeqsOf(hand)
                          \cup SeqsOf(queue) \cup SeqsOf(inflight)

\* The playback position runs ahead of the packets that left the pipe by no more
\* than the queue, the packet at its deadline and the one in the blocking send:
\* the local latency that split_latency_budget accounts for.
LeadBounded ==
  ReceiverAlive => prepared <= Len(wire) + Cardinality(discarded) + Depth + 2

\* From a pause() that took effect until resume() the task prepares at most the
\* one packet whose state check it had already passed, unless the buffer ran empty
\* behind that check: the underrun then makes Buffering of Paused and the task goes
\* on without a resume.  Even then a thread whose channel had room for the Pause
\* sends nothing that was prepared after it.  What is left is a pause that neither
\* stops: undone by an underrun, and its message lost in a full channel.
PauseIsKept ==
  atPause.on =>
    /\ ~atPause.undone => prepared <= atPause.packets + 1
    /\ atPause.told => \A i \in 1..Len(wire) : wire[i].seq < atPause.packets

\* state() tells the truth: the lock-free cache differs from the state only while
\* and after stop(), or to report an error the state did not record.
CacheAgrees ==
  \/ cache = state
  \/ owner \in {"joining", "aborted", "stopped"}
  \/ cache = "Error"

\* Once stop() has returned nothing is transmitted, not even by a task that was
\* past its state check when it was aborted.
SilentAfterStop == [][owner = "stopped" => wire' = wire]_vars

\* A stop() whose Stop message got into the channel returns.
DeliveredStopReturns ==
  (owner = "joining" /\ \E i \in 1..Len(queue) : queue[i].kind = "Stop") ~> (owner = "stopped")

\* No task outlives stop().
TaskEndsAfterStop == (owner = "stopped") ~> ~TaskAlive

\* The pipe this module implements.
Waiting == SeqsOf(hand) \cup SeqsOf(queue) \cup SeqsOf(inflight)
Numbers(s) == [i \in 1..Len(s) |-> s[i].seq]
Pipe == INSTANCE PacketPipe WITH
  Capacity <- Depth + 2, next <- prepared, waiting <- Waiting,
  delivered <- Numbers(wire), closed <- (sender = "exited")

\* The channel, the thread and the blocking send together are one lossy FIFO pipe
\* in which no packet waits forever.
ImplementsPipe == Pipe!Spec

-----------------------------------------------------------------------------
(* Properties that the source states and the code does not keep. *)

\* stop(): dropping the owner's sender "guarantees the sender thread's rx.recv()
\* returns Err and exits", so the join that follows returns.
StopReturns == (owner = "joining") ~> (owner = "stopped")

\* reset_after_flush(): the next audio packet has its marker bit set.
MarkerAfterFlush == [][wire' # wire /\ flushed => wire'[Len(wire')].marker]_vars

\* SenderMessage::Resume: "resume sending".  A paused thread of a streaming
\* streamer has a Resume to come.
ResumeReachesThread ==
  state = "Streaming" /\ sender = "paused" =>
    \E i \in 1..Len(queue) : queue[i].kind \in {"Resume", "Stop"}
=============================================================================
