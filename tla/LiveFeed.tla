------------------------------ MODULE LiveFeed ------------------------------
(***************************************************************************)
(* How live sound gets from a device to the streamer: the capture (a cpal  *)
(* callback for USB, a thread reading from ALSA for Bluetooth, a WASAPI    *)
(* loop for the desktop's sound), the bounded queue behind it, the         *)
(* application's relay thread, the bounded channel of LiveFrameSender and  *)
(* the LiveAudioDecoder at its end, which cuts packets of a fixed size     *)
(* from frames of any size.                                                *)
(*                                                                         *)
(* Nobody waits for room: a full queue drops the frame that comes, so that *)
(* losing sound is a normal thing at several places; what was once         *)
(* accepted by the channel is to be heard, in order and whole.             *)
(*                                                                         *)
(* Samples are numbered as the device produces them, a frame is a sequence *)
(* of them, Silence stands for a sample the loop puts in when the desktop  *)
(* is idle.  Of a source at another rate the samples are counted at the    *)
(* stream's: what resampling makes of their values, and that it gives one  *)
(* more or less now and then, is left out; that it works on chunks of a    *)
(* fixed size, refuses a shorter frame and drops the rest of a longer one, *)
(* is not.                                                                 *)
(***************************************************************************)
EXTENDS Naturals, Sequences, SequencesExt, FiniteSets

CONSTANTS
  MaxSamples,  \* bound: samples the device produces
  MaxSilence,  \* bound: frames of silence
  FrameSize,   \* frames of a full ALSA period; a read may return fewer
  ChunkSize,   \* DEFAULT_CHUNK_SIZE of the decoder's resampler, at the stream's rate
  PacketSize,  \* frames_per_packet
  QueueSize,   \* capacity of the queue behind the capture
  ChannelSize, \* capacity of the live channel
  WarmUp       \* periods thrown away at the start of a high-definition capture

ASSUME LiveFeedAssumption ==
  /\ {MaxSamples, MaxSilence, WarmUp} \subseteq Nat
  /\ {FrameSize, ChunkSize, PacketSize, QueueSize, ChannelSize} \subseteq Nat \ {0}

Silence == 0
Kinds == {"usb", "bluetooth", "bluetoothHD", "loopback"}
Bluetooth == {"bluetooth", "bluetoothHD"}

VARIABLES
  kind,      \* where the sound comes from
  converts,  \* the source's rate differs from the stream's: the decoder resamples
  made,      \* samples produced by the device so far
  warmUp,    \* periods still to be thrown away
  quiet,     \* frames of silence put in so far
  capture,   \* the capturing thread: "running" or "ended"
  frameQueue, \* frames on their way to the relay
  relay,     \* the relay thread: "running", "joining" the capture, "ended"
  told,      \* the relay's stop flag
  channel,   \* frames on their way to the decoder
  decoder,   \* "idle", "collecting" a packet, or "dropped" with its streamer
  collected, \* samples of the packet being collected
  residual,  \* samples left over from the last one
  eof,       \* the decoder has seen the end
  heard      \* samples handed to the streamer

feedVars == <<kind, converts, made, warmUp, quiet, capture, frameQueue, relay, told, channel,
              decoder, collected, residual, eof, heard>>

Samples == Seq(0..MaxSamples)

FeedTypeOK ==
  /\ kind \in Kinds /\ converts \in BOOLEAN /\ told \in BOOLEAN /\ eof \in BOOLEAN
  /\ made \in 0..MaxSamples /\ quiet \in 0..MaxSilence /\ warmUp \in 0..WarmUp
  /\ capture \in {"running", "ended"} /\ relay \in {"running", "joining", "ended"}
  /\ frameQueue \in Seq(Samples) /\ Len(frameQueue) <= QueueSize
  /\ channel \in Seq(Samples) /\ Len(channel) <= ChannelSize
  /\ decoder \in {"idle", "collecting", "dropped"}
  /\ collected \in Samples /\ residual \in Samples /\ heard \in Samples
  /\ decoder # "collecting" => collected = <<>>

FeedInit ==
  /\ kind \in Kinds /\ converts \in BOOLEAN
  /\ converts => kind = "usb"            \* the other captures deliver the stream's rate
  /\ made = 0 /\ quiet = 0 /\ warmUp = (IF kind = "bluetoothHD" THEN WarmUp ELSE 0)
  /\ capture = "running" /\ relay = "running" /\ told = FALSE
  /\ frameQueue = <<>> /\ channel = <<>>
  /\ decoder = "idle" /\ collected = <<>> /\ residual = <<>> /\ eof = FALSE /\ heard = <<>>

decoderVars == <<decoder, collected, residual, eof, heard>>

-----------------------------------------------------------------------------
(* The live channel: LiveFrameSender::try_send.  The caller's frame is lost when the channel is
   full, and nobody learns of it when the decoder is gone.                                      *)

TrySend(frame) ==
  channel' = IF decoder = "dropped" \/ Len(channel) = ChannelSize THEN channel
             ELSE Append(channel, frame)

\* The end of the sender: the relay thread's, or the loopback's own.
SenderGone == relay = "ended"

-----------------------------------------------------------------------------
(* The device's side.  A read, a callback or a buffer brings up to FrameSize samples.           *)

Frame(n) == [i \in 1..n |-> made + i]

Brings(n) == made + n <= MaxSamples /\ made' = made + n

\* cpal's callback: the queue takes the frame or it is lost; it ends with the stream's handle,
\* and a device that fails only logs.
Callback(n) ==
  /\ kind = "usb" /\ capture = "running" /\ Brings(n)
  /\ frameQueue' = IF Len(frameQueue) = QueueSize THEN frameQueue ELSE Append(frameQueue, Frame(n))
  /\ UNCHANGED <<kind, converts, warmUp, quiet, capture, relay, told, channel>>
  /\ UNCHANGED decoderVars

\* One read of the ALSA thread.  In high definition the first periods are thrown away, then a
\* period that is short or that the resampler refuses.
Usable(n) == kind = "bluetoothHD" => warmUp = 0 /\ n = FrameSize

Read(n) ==
  /\ kind \in Bluetooth /\ capture = "running" /\ Brings(n)
  /\ warmUp' = IF warmUp = 0 THEN 0 ELSE warmUp - 1
  /\ \/ /\ Usable(n)
        /\ frameQueue' = IF Len(frameQueue) = QueueSize THEN frameQueue ELSE Append(frameQueue, Frame(n))
     \/ /\ kind = "bluetoothHD" /\ UNCHANGED frameQueue
  /\ UNCHANGED <<kind, converts, quiet, capture, relay, told, channel>>
  /\ UNCHANGED decoderVars

\* A read fails for good (an overrun that is recovered from just loses what it lost), or the
\* thread comes to see its flag, which the relay sets when it ends.
ReadEnds ==
  /\ kind \in Bluetooth /\ capture = "running"
  /\ capture' = "ended"
  /\ UNCHANGED <<kind, converts, made, warmUp, quiet, frameQueue, relay, told, channel>>
  /\ UNCHANGED decoderVars

\* The desktop's sound goes into the channel without a relay: one thread is both.
Loopback(n) ==
  /\ kind = "loopback" /\ relay = "running" /\ Brings(n)
  /\ TrySend(Frame(n))
  /\ UNCHANGED <<kind, converts, warmUp, quiet, capture, frameQueue, relay, told>>
  /\ UNCHANGED decoderVars

\* Nothing has come for a while: silence keeps the receiver fed.
PutSilence ==
  /\ kind = "loopback" /\ relay = "running" /\ quiet < MaxSilence
  /\ quiet' = quiet + 1 /\ TrySend([i \in 1..FrameSize |-> Silence])
  /\ UNCHANGED <<kind, converts, made, warmUp, capture, frameQueue, relay, told>>
  /\ UNCHANGED decoderVars

\* The loop ends with its flag or with the device, and takes the sender with it.
LoopbackEnds ==
  /\ kind = "loopback" /\ relay = "running"
  /\ relay' = "ended" /\ capture' = "ended"
  /\ UNCHANGED <<kind, converts, made, warmUp, quiet, frameQueue, told, channel>>
  /\ UNCHANGED decoderVars

-----------------------------------------------------------------------------
(* The relay: the application's usb-capture and bt-capture threads.                             *)

Relay ==
  /\ kind # "loopback" /\ relay = "running" /\ frameQueue # <<>>
  /\ frameQueue' = Tail(frameQueue) /\ TrySend(Head(frameQueue))
  /\ UNCHANGED <<kind, converts, made, warmUp, quiet, capture, relay, told>>
  /\ UNCHANGED decoderVars

\* The stop flag; for USB the stream's handle is dropped with it, which ends the callbacks (a
\* start that failed joins the relay in between: a callback then finds no receiver).
TellStop ==
  /\ kind # "loopback" /\ ~told
  /\ told' = TRUE /\ capture' = IF kind = "usb" THEN "ended" ELSE capture
  /\ UNCHANGED <<kind, converts, made, warmUp, quiet, frameQueue, relay, channel>>
  /\ UNCHANGED decoderVars

\* Told to stop, or nothing is left of a capture that ended: the receiver is dropped with what
\* is in the queue.  The Bluetooth relay first joins its capturing thread.
RelayLeaves ==
  /\ kind # "loopback" /\ relay = "running"
  /\ told \/ (frameQueue = <<>> /\ capture = "ended")
  /\ IF kind \in Bluetooth THEN relay' = "joining" /\ UNCHANGED frameQueue
     ELSE relay' = "ended" /\ frameQueue' = <<>>
  /\ UNCHANGED <<kind, converts, made, warmUp, quiet, capture, told, channel>>
  /\ UNCHANGED decoderVars

RelayEnds ==
  /\ relay = "joining" /\ capture = "ended"
  /\ relay' = "ended" /\ frameQueue' = <<>>
  /\ UNCHANGED <<kind, converts, made, warmUp, quiet, capture, told, channel>>
  /\ UNCHANGED decoderVars

-----------------------------------------------------------------------------
(* LiveAudioDecoder::decode_resampled, one decode_frame at a time: the capture goes on.         *)

sourceVars == <<kind, converts, made, warmUp, quiet, capture, frameQueue, relay, told>>

\* What was left over comes first.
Collect ==
  /\ decoder = "idle"
  /\ decoder' = "collecting" /\ collected' = residual /\ residual' = <<>>
  /\ UNCHANGED <<channel, eof, heard>> /\ UNCHANGED sourceVars

\* What becomes of a frame.  A frame at another rate goes to Resampler::process, which takes the
\* first chunk of it and no more; rubato has an error for a frame that is shorter.
TooShort(frame) == converts /\ Len(frame) < ChunkSize
Decoded(frame) ==
  IF TooShort(frame) THEN <<>> ELSE IF converts THEN SubSeq(frame, 1, ChunkSize) ELSE frame

TakeFrame ==
  /\ decoder = "collecting" /\ Len(collected) < PacketSize /\ ~eof
  /\ channel # <<>> /\ ~TooShort(Head(channel))
  /\ channel' = Tail(channel) /\ collected' = collected \o Decoded(Head(channel))
  /\ UNCHANGED <<decoder, residual, eof, heard>> /\ UNCHANGED sourceVars

\* The resampler refuses the frame: the error returns, and what was collected is gone.
Refused ==
  /\ decoder = "collecting" /\ Len(collected) < PacketSize /\ ~eof
  /\ channel # <<>> /\ TooShort(Head(channel))
  /\ channel' = Tail(channel) /\ collected' = <<>> /\ decoder' = "idle"
  /\ UNCHANGED <<residual, eof, heard>> /\ UNCHANGED sourceVars

\* Mutant: a packet that cannot be filled is given up.
NoFrameBadly ==
  /\ decoder = "collecting" /\ Len(collected) < PacketSize /\ (eof \/ channel = <<>>)
  /\ decoder' = "idle" /\ residual' = <<>> /\ collected' = <<>>
  /\ eof' = (eof \/ SenderGone)
  /\ UNCHANGED <<channel, heard>> /\ UNCHANGED sourceVars

\* The channel is empty, or has ended: no packet now, and what there is of it waits.
NoFrame ==
  /\ decoder = "collecting" /\ Len(collected) < PacketSize /\ (eof \/ channel = <<>>)
  /\ decoder' = "idle" /\ residual' = collected /\ collected' = <<>>
  /\ eof' = (eof \/ SenderGone)
  /\ UNCHANGED <<channel, heard>> /\ UNCHANGED sourceVars

\* A whole packet; the rest of the last frame is left over.
DeliverPacket ==
  /\ decoder = "collecting" /\ Len(collected) >= PacketSize
  /\ heard' = heard \o SubSeq(collected, 1, PacketSize)
  /\ residual' = SubSeq(collected, PacketSize + 1, Len(collected))
  /\ decoder' = "idle" /\ collected' = <<>>
  /\ UNCHANGED <<channel, eof>> /\ UNCHANGED sourceVars

\* The streamer stops, or another start replaces it: the decoder and its channel's end are gone.
DecoderDropped ==
  /\ decoder # "dropped"
  /\ decoder' = "dropped" /\ collected' = <<>> /\ residual' = <<>> /\ channel' = <<>>
  /\ UNCHANGED <<eof, heard>> /\ UNCHANGED sourceVars

FeedNext ==
  \/ \E n \in 1..FrameSize : Callback(n) \/ Read(n) \/ Loopback(n)
  \/ ReadEnds \/ PutSilence \/ LoopbackEnds
  \/ Relay \/ TellStop \/ RelayLeaves \/ RelayEnds
  \/ Collect \/ TakeFrame \/ Refused \/ NoFrame \/ DeliverPacket \/ DecoderDropped

-----------------------------------------------------------------------------
(* Properties.                                                               *)

\* All that was accepted and not thrown away with the decoder, as it is to be heard.
ToBeDecoded(frames) == [i \in DOMAIN frames |-> Decoded(frames[i])]
Accepted == heard \o collected \o residual \o FlattenSeq(ToBeDecoded(channel))

\* What the live channel once took is handed on in the order it came, in whole packets, and
\* nothing of it is lost, doubled or moved by a packet that could not be filled, a frame larger
\* than a packet or a channel that runs empty in between.  That is said of whole frames when the
\* source has the stream's rate; of another source's frame only the first chunk is ever heard,
\* and a frame shorter than a chunk takes the packet being collected along.  And the end of the
\* decoder takes what it has.
AcceptedIsHeard ==
  [][\/ IsPrefix(Accepted, Accepted') /\ Len(heard') % PacketSize = 0
     \/ decoder = "collecting" /\ channel # <<>> /\ TooShort(Head(channel))
          /\ channel' = Tail(channel) /\ decoder' = "idle"
     \/ decoder' = "dropped"]_feedVars
=============================================================================
