--------------------------- MODULE BluetoothSource ---------------------------
(***************************************************************************)
(* BluetoothAudioSource (crates/airplay-bluetooth/src/source.rs): a        *)
(* capture behind the AudioSource trait.  Its thread fills a bounded       *)
(* channel; a reader takes frames from it, waits a little for one, and     *)
(* stamps each with the samples read so far.  LiveFeed has the inside of   *)
(* a capture; here a frame is the capture it is of and its number there.   *)
(***************************************************************************)
EXTENDS Naturals, Sequences

CONSTANTS MaxStarts,    \* bound: captures
          MaxFrames,    \* bound: frames of a capture
          ChannelFrames \* places in the channel

ASSUME BluetoothSourceAssumption == {MaxStarts, MaxFrames, ChannelFrames} \subseteq Nat \ {0}

VARIABLES
  starts,   \* captures so far; the last is the one held
  holds,    \* whether there is one
  thread,   \* its thread: "runs" or "gone"
  captured, \* frames it has read
  waiting,  \* the channel
  reader,   \* attempts a read has left; 0 between reads
  ended, stamp,
  given     \* frames delivered since the last start, with their stamps

sourceSideVars == <<starts, holds, thread, captured, waiting, reader, ended, stamp, given>>
readerVars == <<starts, holds, reader, ended, stamp, given>>

Attempts == 2

SourceInit ==
  /\ starts = 0 /\ holds = FALSE /\ thread = "gone" /\ captured = 0 /\ waiting = <<>>
  /\ reader = 0 /\ ended = FALSE /\ stamp = 0 /\ given = <<>>

\* start, when there is no capture; with one it changes nothing, be its thread gone.
StartSource ==
  /\ reader = 0 /\ ~holds /\ starts < MaxStarts
  /\ starts' = starts + 1 /\ holds' = TRUE /\ thread' = "runs" /\ captured' = 0 /\ waiting' = <<>>
  /\ ended' = FALSE /\ stamp' = 0 /\ given' = <<>> /\ UNCHANGED reader

\* stop, and drop: the thread is joined, and what it had sent is dropped.
StopSource ==
  /\ reader = 0
  /\ holds' = FALSE /\ thread' = "gone" /\ waiting' = <<>> /\ ended' = TRUE
  /\ UNCHANGED <<starts, captured, reader, stamp, given>>

\* A full channel loses the frame.
CaptureFrame ==
  /\ thread = "runs" /\ captured < MaxFrames
  /\ captured' = captured + 1
  /\ waiting' = IF Len(waiting) = ChannelFrames THEN waiting ELSE Append(waiting, <<starts, captured>>)
  /\ UNCHANGED <<readerVars, thread>>

\* The device could not be opened, or is lost: the flag a reader looks at is not set.
CaptureThreadEnds == thread = "runs" /\ thread' = "gone" /\ UNCHANGED <<readerVars, captured, waiting>>

ReadFrame == holds /\ reader = 0 /\ reader' = Attempts /\ UNCHANGED <<starts, holds, thread, captured, waiting, ended, stamp, given>>

GiveFrame ==
  /\ reader > 0 /\ waiting # <<>>
  /\ waiting' = Tail(waiting) /\ reader' = 0
  /\ given' = Append(given, [frame |-> Head(waiting), at |-> stamp]) /\ stamp' = stamp + 1
  /\ UNCHANGED <<starts, holds, thread, captured, ended>>

\* Nothing yet: the last attempt gives none, which is no end.
NoFrameYet == reader > 0 /\ waiting = <<>> /\ reader' = reader - 1 /\ UNCHANGED <<starts, holds, thread, captured, waiting, ended, stamp, given>>

SourceNext ==
  \/ StartSource \/ StopSource \/ CaptureFrame \/ CaptureThreadEnds \/ ReadFrame \/ GiveFrame \/ NoFrameYet

-----------------------------------------------------------------------------
\* What is read since a start is of that start's capture, in the order it was captured,
\* stamped from nought without a gap, though frames are lost in between: no frame of an
\* earlier capture and no earlier clock comes through.
SourceKeepsTime ==
  \A i \in DOMAIN given :
    /\ given[i].at = i - 1 /\ given[i].frame[1] = starts
    /\ i > 1 => given[i].frame[2] > given[i - 1].frame[2]
=============================================================================
