------------------------------ MODULE FileFeed ------------------------------
(***************************************************************************)
(* How a file gets to the encoder: AudioDecoder cuts packets of the        *)
(* stream's size from the container's, AudioBuffer holds them, the         *)
(* equalizer and the encoder take them out, and a seek goes through all of *)
(* them (crates/airplay-audio/src/decoder.rs, buffer.rs, eq.rs,            *)
(* encoder.rs; the streamer's loop around them is AudioStreamer's).  The   *)
(* streamer's lock is held for a packet's way in, for a packet's way out   *)
(* and for a seek; the equalizer's parameters are atomics that the         *)
(* interface writes at any time, between any two of its reads.             *)
(*                                                                         *)
(* A frame is a number, its place in the file; the channels, the format of *)
(* its samples and what filtering and encoding make of them are left out.  *)
(* Of a file at another rate than the stream's the frames are counted at   *)
(* the stream's: what resampling makes of their values, its delay, and     *)
(* that it gives one more or less now and then, are left out; that it      *)
(* works on chunks of a fixed size, refuses a shorter packet and drops the *)
(* rest of a longer one, is not.                                           *)
(* Packets of other tracks and resets of the codec are skipped without a   *)
(* trace.                                                                  *)
(***************************************************************************)
EXTENDS Naturals, SequencesExt

CONSTANTS
  Duration,      \* frames of the file
  ContainerSize, \* frames of a packet of the container, the last may be shorter
  StreamSize,    \* frames_per_packet of the stream
  ResamplerChunk, \* DEFAULT_CHUNK_SIZE of the decoder's resampler, at the stream's rate
  BufferSize,    \* capacity of AudioBuffer, in packets
  Bands,         \* bands of the equalizer
  MaxSeeks,      \* bound: seeks
  MaxTurns       \* bound: changes of the equalizer

ASSUME FileFeedAssumption ==
  /\ {Duration, MaxSeeks, MaxTurns} \subseteq Nat
  /\ {ContainerSize, StreamSize, ResamplerChunk, BufferSize, Bands} \subseteq Nat \ {0}

Band == 1..Bands
Gain == {0, 1}          \* two gains are enough to tell which one a filter was made for

VARIABLES
  otherRate,  \* source_rate # target_rate: decode_resampled resamples
  cursor,     \* frames the container has been read past
  damaged,    \* frames of packets that could not be decoded, since the last seek
  position,   \* position_samples
  atEnd,      \* AudioDecoder::eof
  residue,    \* residual_samples
  gathered,   \* collected_samples of the call in progress
  buffer,     \* AudioBuffer
  outgoing,   \* the packet on its way out
  encoding,   \* the encoder's own buffer
  clock,      \* frames encoded, ever: the timestamp of the next packet
  played,     \* frames encoded since the last seek
  from,       \* where the container was read from at the last seek
  lock,       \* who holds the streamer: "free", "decoding", "comparing", "tuning", "encoding",
              \* "failed"
  band,       \* how far the equalizer has got
  gains, bypass, \* EqParams
  cached,     \* cached_gains
  filters,    \* the gain each band's filters, left and right, were computed for
  seeks, turns

fileVars == <<otherRate, cursor, damaged, position, atEnd, residue, gathered, buffer, outgoing,
              encoding, clock, played, from, lock, band, gains, bypass, cached, filters, seeks,
              turns>>

Frames == Seq(1..Duration)

FileTypeOK ==
  /\ cursor \in 0..Duration /\ from \in 0..Duration /\ damaged \subseteq 1..Duration
  /\ position \in Nat /\ clock \in Nat /\ atEnd \in BOOLEAN /\ otherRate \in BOOLEAN
  /\ \A s \in {residue, gathered, outgoing, encoding, played} : s \in Frames
  /\ Len(buffer) <= BufferSize /\ \A i \in DOMAIN buffer : buffer[i] \in Frames
  /\ lock \in {"free", "decoding", "comparing", "tuning", "encoding", "failed"}
  /\ band \in 1..Bands + 1
  /\ gains \in [Band -> Gain] /\ cached \in [Band -> Gain]
  /\ filters \in [Band -> Gain \X Gain] /\ bypass \in BOOLEAN
  /\ seeks \in 0..MaxSeeks /\ turns \in 0..MaxTurns

\* Opened at its first audio track, an equalizer of flat bands.
FileInit ==
  /\ otherRate \in BOOLEAN
  /\ cursor = 0 /\ damaged = {} /\ position = 0 /\ atEnd = FALSE /\ residue = <<>> /\ gathered = <<>>
  /\ buffer = <<>> /\ outgoing = <<>> /\ encoding = <<>> /\ clock = 0 /\ played = <<>> /\ from = 0
  /\ lock = "free" /\ band = 1
  /\ gains = [b \in Band |-> 0] /\ bypass = FALSE
  /\ cached = [b \in Band |-> 0] /\ filters = [b \in Band |-> <<0, 0>>]
  /\ seeks = 0 /\ turns = 0

decodeVars == <<otherRate, cursor, damaged, position, atEnd, residue, gathered>>
outVars == <<outgoing, encoding, clock, played>>
eqVars == <<band, cached, filters>>
paramVars == <<gains, bypass, turns>>

-----------------------------------------------------------------------------
(* A packet's way in: decode_some, AudioDecoder::decode_resampled, AudioBuffer::push.           *)

IsFull == Len(buffer) >= BufferSize

Begin ==
  /\ lock = "free" /\ ~IsFull
  /\ lock' = "decoding" /\ gathered' = residue /\ residue' = <<>>
  /\ UNCHANGED <<otherRate, cursor, damaged, position, atEnd, buffer, from, seeks>>
  /\ UNCHANGED outVars /\ UNCHANGED eqVars /\ UNCHANGED paramVars

Needs == lock = "decoding" /\ Len(gathered) < StreamSize /\ ~atEnd

\* The next packet of the container: one i16 a channel for every frame, whatever they were.
NextPacket ==
  LET end == cursor + ContainerSize
  IN [i \in 1..((IF end > Duration THEN Duration ELSE end) - cursor) |-> cursor + i]

\* What decode_resampled makes of it.  The resampler takes one chunk of the packet, the rest of a
\* longer one is lost; a shorter one it refuses, which is one of the errors of Fails.
Converted == IF otherRate THEN SubSeq(NextPacket, 1, ResamplerChunk) ELSE NextPacket

Refuses == otherRate /\ Len(NextPacket) < ResamplerChunk

DecodeFrame ==
  /\ Needs /\ cursor < Duration /\ ~Refuses
  /\ gathered' = gathered \o Converted
  /\ position' = position + Len(NextPacket)
  /\ cursor' = cursor + Len(NextPacket)
  /\ UNCHANGED <<otherRate, damaged, atEnd, residue, buffer, from, lock, seeks>>
  /\ UNCHANGED outVars /\ UNCHANGED eqVars /\ UNCHANGED paramVars

\* It cannot be decoded: the next one is tried, and the position does not move.
Skip ==
  /\ Needs /\ cursor < Duration
  /\ cursor' = cursor + Len(NextPacket)
  /\ damaged' = damaged \cup Range(NextPacket)
  /\ UNCHANGED <<otherRate, position, atEnd, residue, gathered, buffer, from, lock, seeks>>
  /\ UNCHANGED outVars /\ UNCHANGED eqVars /\ UNCHANGED paramVars

End ==
  /\ Needs /\ cursor = Duration
  /\ atEnd' = TRUE
  /\ UNCHANGED <<otherRate, cursor, damaged, position, residue, gathered, buffer, from, lock, seeks>>
  /\ UNCHANGED outVars /\ UNCHANGED eqVars /\ UNCHANGED paramVars

\* Any other error, of the container, the codec or the resampler, ends the stream.
Fails ==
  /\ Needs
  /\ lock' = "failed" /\ gathered' = <<>>
  /\ UNCHANGED <<otherRate, cursor, damaged, position, atEnd, residue, buffer, from, seeks>>
  /\ UNCHANGED outVars /\ UNCHANGED eqVars /\ UNCHANGED paramVars

\* Mutant: what is more than a packet is dropped.
PushBadly ==
  /\ lock = "decoding" /\ (Len(gathered) >= StreamSize \/ atEnd)
  /\ buffer' = IF gathered = <<>> THEN buffer
               ELSE Append(buffer, SubSeq(gathered, 1, IF Len(gathered) < StreamSize
                                                       THEN Len(gathered) ELSE StreamSize))
  /\ residue' = <<>>
  /\ gathered' = <<>> /\ lock' = "free"
  /\ UNCHANGED <<otherRate, cursor, damaged, position, atEnd, from, seeks>>
  /\ UNCHANGED outVars /\ UNCHANGED eqVars /\ UNCHANGED paramVars

\* A whole packet, the rest stays; at the end of the file what there is; nothing after that.
Push ==
  /\ lock = "decoding" /\ (Len(gathered) >= StreamSize \/ atEnd)
  /\ buffer' = IF gathered = <<>> THEN buffer
               ELSE Append(buffer, SubSeq(gathered, 1, IF Len(gathered) < StreamSize
                                                       THEN Len(gathered) ELSE StreamSize))
  /\ residue' = SubSeq(gathered, StreamSize + 1, Len(gathered))
  /\ gathered' = <<>> /\ lock' = "free"
  /\ UNCHANGED <<otherRate, cursor, damaged, position, atEnd, from, seeks>>
  /\ UNCHANGED outVars /\ UNCHANGED eqVars /\ UNCHANGED paramVars

-----------------------------------------------------------------------------
(* A packet's way out: AudioBuffer::pop, Equalizer::process, AudioEncoder::encode.              *)

Pop ==
  /\ lock = "free" /\ buffer # <<>>
  /\ outgoing' = Head(buffer) /\ buffer' = Tail(buffer)
  /\ lock' = IF bypass THEN "encoding" ELSE "comparing"
  /\ band' = 1
  /\ UNCHANGED <<from, encoding, clock, played, cached, filters, seeks>>
  /\ UNCHANGED decodeVars /\ UNCHANGED paramVars

\* update_coefficients_if_needed looks for a gain that has changed, reading one at a time ...
Compare ==
  /\ lock = "comparing"
  /\ IF band > Bands THEN lock' = "encoding" /\ UNCHANGED band
     ELSE IF gains[band] # cached[band] THEN lock' = "tuning" /\ band' = 1
     ELSE band' = band + 1 /\ UNCHANGED lock
  /\ UNCHANGED <<buffer, from, cached, filters, seeks>>
  /\ UNCHANGED decodeVars /\ UNCHANGED outVars /\ UNCHANGED paramVars

\* ... and then makes all bands anew, reading them once more: one read for both filters and the
\* cache.
Tune ==
  /\ lock = "tuning"
  /\ IF band > Bands THEN lock' = "encoding" /\ UNCHANGED <<band, cached, filters>>
     ELSE /\ filters' = [filters EXCEPT ![band] = <<gains[band], gains[band]>>]
          /\ cached' = [cached EXCEPT ![band] = gains[band]]
          /\ band' = band + 1 /\ UNCHANGED lock
  /\ UNCHANGED <<buffer, from, seeks>>
  /\ UNCHANGED decodeVars /\ UNCHANGED outVars /\ UNCHANGED paramVars

\* The encoder puts the packet behind what it holds and encodes one packet's worth, or less when
\* there is less.
Encode ==
  /\ lock = "encoding"
  /\ LET held == encoding \o outgoing
         n == IF Len(held) >= StreamSize THEN StreamSize ELSE Len(held)
     IN /\ encoding' = SubSeq(held, n + 1, Len(held))
        /\ played' = played \o SubSeq(held, 1, n)
        /\ clock' = clock + n
  /\ outgoing' = <<>> /\ lock' = "free"
  /\ UNCHANGED <<buffer, from, seeks>>
  /\ UNCHANGED decodeVars /\ UNCHANGED eqVars /\ UNCHANGED paramVars

\* The encoder refuses (AAC's may): the error ends the stream.
EncodeFails ==
  /\ lock = "encoding"
  /\ lock' = "failed" /\ outgoing' = <<>> /\ encoding' = <<>>
  /\ UNCHANGED <<buffer, from, clock, played, seeks>>
  /\ UNCHANGED decodeVars /\ UNCHANGED eqVars /\ UNCHANGED paramVars

-----------------------------------------------------------------------------
(* AudioStreamer::seek: the buffer is emptied first, then the decoder seeks, which lands on the
   container's packet that holds the target.  The encoder's clock goes on as it is.             *)

Seek(to) ==
  /\ lock = "free" /\ seeks < MaxSeeks /\ seeks' = seeks + 1
  /\ LET target == IF to > Duration THEN Duration ELSE to
     IN /\ cursor' = IF target = Duration THEN Duration
                     ELSE (target \div ContainerSize) * ContainerSize
        /\ position' = target
  /\ buffer' = <<>> /\ residue' = <<>> /\ atEnd' = FALSE
  /\ from' = cursor' /\ played' = <<>> /\ damaged' = {}
  /\ UNCHANGED <<otherRate, gathered, outgoing, encoding, clock, lock>>
  /\ UNCHANGED eqVars /\ UNCHANGED paramVars

\* The container refuses: the buffer is empty all the same, the decoder goes on where it was.
SeekFails ==
  /\ lock = "free" /\ seeks < MaxSeeks /\ seeks' = seeks + 1
  /\ buffer' = <<>>
  /\ from' = (IF residue = <<>> THEN cursor ELSE residue[1] - 1) /\ played' = <<>> /\ damaged' = {}
  /\ UNCHANGED <<otherRate, cursor, position, atEnd, residue, gathered, outgoing, encoding, clock, lock>>
  /\ UNCHANGED eqVars /\ UNCHANGED paramVars

-----------------------------------------------------------------------------
(* The interface turns a knob or the bypass, in the middle of anything.                         *)

Turn(b) ==
  /\ turns < MaxTurns /\ turns' = turns + 1
  /\ gains' = [gains EXCEPT ![b] = 1 - @]
  /\ UNCHANGED <<bypass, buffer, from, lock, seeks>>
  /\ UNCHANGED decodeVars /\ UNCHANGED outVars /\ UNCHANGED eqVars

Bypass ==
  /\ turns < MaxTurns /\ turns' = turns + 1
  /\ bypass' = ~bypass
  /\ UNCHANGED <<gains, buffer, from, lock, seeks>>
  /\ UNCHANGED decodeVars /\ UNCHANGED outVars /\ UNCHANGED eqVars

FileNext ==
  \/ Begin \/ DecodeFrame \/ Skip \/ End \/ Fails \/ Push
  \/ Pop \/ Compare \/ Tune \/ Encode \/ EncodeFails
  \/ \E to \in 0..Duration + 1 : Seek(to)
  \/ SeekFails
  \/ \E b \in Band : Turn(b)
  \/ Bypass

-----------------------------------------------------------------------------
(* Properties.                                                               *)

\* The frames of the file that the resampler uses: the first of every packet of the container.
Begins(place) == \E k \in 0..place : place = k * ContainerSize

IsUsed(f) ==
  otherRate => \E place \in 0..Duration : Begins(place) /\ f \in (place + 1)..(place + ResamplerChunk)

\* What the file has been read of since the last seek, without what could not be decoded.
Readable == {f \in (from + 1)..cursor : f \notin damaged /\ IsUsed(f)}

\* Where its frames are, from what was encoded first to what was read last.
Line == played \o encoding \o outgoing \o FlattenSeq(buffer) \o gathered \o residue

Ascends(s) == \A i, j \in DOMAIN s : i < j => s[i] < s[j]

\* What is encoded is the file, all of it when its rate is the stream's, else the first chunk of
\* every packet of the container and no more of it: from the packet the last seek landed on, every
\* one of these frames once and in order, however the container's packets and the stream's divide
\* them, and nothing of a packet in the buffer, in the residue or on its way is lost, up to the
\* short packet at the end.
PlaysThrough == lock # "failed" => Ascends(Line) /\ Range(Line) = Readable

\* Both channels of a band are filtered for the gain the cache says, though the interface writes
\* while the equalizer reads: else a change would go unseen until another one.
FiltersAgree == \A b \in Band : filters[b] = <<cached[b], cached[b]>>

FileIsPlayed == PlaysThrough /\ FiltersAgree
=============================================================================
