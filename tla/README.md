# A TLA+ verification of VulpiCast

VulpiCast is an AirPlay sender in Rust: a Windows tray program (`homepod-cast`) and a
terminal player (`airplay-tui`) over a stack of library crates. This directory holds TLA+
models of its stateful parts, the TLC runs that check them on small instances, and TLAPS
proofs of what matters most for every instance.

Paths below are relative to `src/crates/` unless they start with `src/`.

## 1. The system

### 1.1 Components

| component | code | state | operations | modelled by |
|---|---|---|---|---|
| Audio streamer | `airplay-audio/src/streamer.rs` | `StreamerInner` behind a tokio mutex (state, decoder, buffer, encoder, first_packet_sent, timestamp), lock-free caches of state and position, a bounded crossbeam channel, the `run_streamer` task, the `rt-sender` thread | start, start_live, pause, resume, seek, stop, reset_after_flush; the task's loop; the thread's loop | `AudioStreamer`, `PacketPipe`; the thread's clock in `SenderPacing` |
| Audio buffer | `airplay-audio/src/buffer.rs` | frames, capacity | push, pop, flush, fill_percentage | count in `AudioStreamer`, packets in `FileFeed` |
| Live decoder | `airplay-audio/src/live_decoder.rs` | capture channel, collected and residual samples, end of feed | try_send, decode_resampled | `LiveFeed`; count in `AudioStreamer` |
| File decoder, encoders, equalizer | `decoder.rs`, `encoder.rs`, `eq.rs` | place in the file, residue, encoder buffer; gains as atomics, filters and cached gains | decode_resampled, seek, encode, set_gain, process | `FileFeed` |
| RTP sender, group senders | `airplay-audio/src/rtp.rs`, `airplay-client/src/stats.rs` | 16-bit sequence, ring of 512 recent packets, sync packets, counters | prepare, send, send_sync, handle_retransmit | `PacketHistory`, `GroupWire` |
| Connection | `airplay-client/src/connection.rs` | handles of streamer, timing task, control socket, control task; playback state | connect*, setup, setup_for_group, start_streaming(_live), pause, resume, stop, set_volume, send_feedback, disconnect | `Connection` (requests), `ClientSetup` (timing tasks), `Pairing` (ways to pair) |
| RTSP session | `airplay-rtsp/src/session.rs` | the session state machine | process_setup_phase*_response, start_playing, pause, start_teardown | in `Connection` |
| RTSP connection | `airplay-rtsp/src/connection.rs` | TCP stream, CSeq, encrypted channel | send with timeouts, the two readers, close | `RtspChannel` |
| RAOP (AirPlay 1) | `airplay-rtsp/src/raop_session.rs`, `airplay-client/src/raop_connection.rs` | session machine, sockets, streamer | OPTIONS, ANNOUNCE, SETUP, RECORD, FLUSH, TEARDOWN with one retry after 401 | `RaopConnection` |
| Client and groups | `airplay-client/src/client.rs`, `group.rs` | a primary connection, secondaries, a group streamer, playback states | connect, connect_group, disconnect, play_file(_to_group), pause, resume, stop, disband | `GroupClient` (what a call leaves), `ClientSetup` (clocks), `GroupWire` (packets, listeners) |
| NTP and PTP timing | `airplay-timing/src/ntp.rs`, `ptp.rs`, `clock.rs` | timestamps of an exchange, offset, clock identity | sync, serve; Sync, Follow_Up, Delay_Req, Delay_Resp, Announce | `NtpClock`, `PtpClock`, `Timing` |
| Pairing | `airplay-pairing/src/*.rs`, `examples/pair_with_device.rs` | message machines, identity file | pair-setup, pair-verify, transient pairing, FairPlay; the tool's menu | `PairingMachines`, `PairingApi`, `Pairing`, `PairTool` |
| Tray and cast session | `homepod-cast/src/tray.rs`, `settings_window.rs`, `cast.rs` | menu, check marks, sessions, settings file, four channels | input, poll rounds, control loop, keepalive | `TrayControl`; its capture in `LiveFeed` |
| Discovery | `airplay-discovery/src/browser.rs`, `parser.rs` | table of receivers | service resolved, removed | `DeviceTable` |
| Terminal player | `airplay-tui/src/app.rs`, `state.rs`, `file_browser.rs`, `bluetooth_helper.rs` | the queue of actions, `AppState`, the locked client, spawned tasks, captures | keys, actions, events of the client | `PlayerApp`, `CaptureSources`, `BluetoothPanel`, `ScreenLists` |
| Bluetooth | `airplay-bluetooth/src/*.rs` | adapter, phones, capture thread | scan, pair, connect, install, read frames | `BluetoothLibrary`, `BluetoothSource`; ALSA reading in `LiveFeed` |
| plist, SDP, TXT and TLV codecs, cryptography, filters, drawing, scripts | - | - | pure or numeric code, output | not modelled (section 7) |

`PROJECT.json` lists every component with its source files and what is left out of it.

### 1.2 How they interact

* The owner of a `Connection` (`AirPlayClient`, or `Session` in `cast.rs`) calls its methods
  one at a time (`&mut self`), sometimes inside a `tokio::time::timeout` that drops the call
  at whichever `.await` it has reached.
* `Connection` drives the RTSP session by requests over `RtspConnection`, and owns the
  `AudioStreamer`; the control task, a blocking thread, holds a *clone* of the streamer and
  an `Arc` of the control socket. A PTP task measures the receiver's clock, a watch channel
  carries the offset to the forwarders of the other members and to the streamer.
* `AudioStreamer::start` creates a bounded channel, the `rt-sender` thread (receiver) and
  the `run_streamer` task (its own sender). Data goes through the channel with a blocking
  `send`, control messages with `try_send` whose result is ignored.
* A live source (WASAPI loopback, a cpal callback, ALSA) feeds a bounded queue, a relay
  thread feeds the bounded channel of `LiveAudioDecoder`; a full one drops the newest frame.
* The receiver asks for lost packets through the control socket; senders answer from their
  ring of recently *prepared* packets, under the mutex of the task.
* The tray's main thread, settings window and control thread share four unbounded channels
  and a settings file; the device list in the menu and that of the control thread are copies.
* The terminal player is one loop over a queue of actions. Handlers lock the client, and so
  do the spawned connects and plays; results come back through the same queue as keys.
* Pairing goes over the connection's own TCP link; the client, other programs and the
  pairing tool read and write one identity file.

### 1.3 What is hard about it, and what makes each part correct

* **Streamer.** Three actors and a capture thread, with a mutex taken and released between
  reading a state and acting on it; a bounded channel that carries control and data; a join
  inside `stop()`. Correct when: packets reach the wire in order and once; none disappears
  without the thread having been paused or stopped; pause and stop take effect; `stop()`
  returns; the reported state and position are true.
* **Connection.** Calls that fail, or are dropped, half way; a session state, a playback
  state and a streamer state that must agree; handles whose drop does not stop what they
  refer to. Correct when: a session key is used by one stream only (the nonces restart with
  each streamer); what the user is told agrees with the session; nothing is sent after
  TEARDOWN.
* **RTSP connection.** Requests and responses matched by order alone on one socket, with
  timeouts inside and outside `send`. Correct when: an answer returned for a request is the
  answer to that request.
* **Packet history, group wire.** Rings indexed by a wrapping 16-bit number, read by
  requests that are late or ask too much; listeners that outlive their streamer. Correct
  when: what is resent is the packet that was asked for.
* **Setup and timing.** PTP's two fixed ports can have one holder; tasks outlive their
  handle; messages of different exchanges and receivers arrive interleaved and are not
  matched by number. Correct when: everybody follows one clock, and an offset is wrong by no more than its delay and what
  a mixed exchange adds to it.
* **Pairing.** Two machines that must stay in step over a link that breaks, and a file that
  several programs write. Correct when: a cipher is set on both ends or none, and who was
  registered is recognised.
* **Tray.** Indices into lists that change meanwhile, statuses that cross lists on another
  channel, commands queued behind slow ones. Correct when: check marks are the sessions and
  every session has the settings chosen last and its keepalive.
* **Player.** A loop that blocks on a lock held for up to a minute, events of calls that
  were given up, partial failure over several connections. Correct when: what is shown is
  what is connected, the group's streamer feeds the connected, and the loop gets through unless a call
  of its own never comes back.
* **Live sound, files, Bluetooth.** Queues that overflow by design, packets of one size cut
  from frames of another, threads joined from the loop they report to, daemons that change
  state under a call. Correct when: what was accepted is heard, captures can be stopped, and
  Ok means what it says.

`PROJECT.json` has the hazards line by line, each with the properties that cover it.

## 2. Plan

Modules were written in the order of what can go most wrong in normal use.

| order | module | about | state |
|---|---|---|---|
| 1 | `AudioStreamer`, `PacketPipe` | owner, task, channel, thread, capture; the abstract promise of the transmit path | done, checked, proved, and so are the steps of the refinement |
| 2 | `Connection` | one connection from SETUP to TEARDOWN, with failing and dropped calls | done, checked, proved |
| 3 | `RtspChannel` | requests and responses under timeouts | done, checked, proved |
| 4 | `PacketHistory` | retransmission | done, checked, proved |
| 5 | `DeviceTable`, `TrayControl` | the tray over its channels and files, and the table of receivers under it | done, checked, proved |
| 6 | `GroupClient`, `PlayerApp` | outcomes of the client's calls; the player's loop and tasks over them | done, checked, proved |
| 7 | `PtpClock`, `NtpClock`, `Timing` | offsets from messages that are lost, late and of others | done, checked, proved |
| 8 | `ClientSetup`, `RaopConnection`, `SenderSetup` | timing tasks, ports and clocks of a group; AirPlay 1 | done, checked, proved |
| 9 | `PairingMachines`, `PairingApi`, `Pairing`, `PairTool`, `PairingRun` | the message machines and the three ways they are used | done, checked, proved |
| 10 | `LiveFeed`, `CaptureSources`, `BluetoothPanel`, `AudioSources` | live sound from device to packet, starting and stopping it, the phone's screen | done, checked; sound from device to packet and who holds the captures are proved |
| 11 | `FileFeed`, `ScreenLists`, `GroupWire`, `BluetoothLibrary`, `BluetoothSource`, `SenderPacing`, `SoloParts` | parts with actors of their own | done, checked, proved |
| 12 | `GroupMembers` | add_to_group, remove_from_group and SETPEERS (no key reaches them) | left |

Every safety invariant and every safety action property that a run checks is also a theorem;
what is left to TLC alone is liveness (section 6.10).

## 3. The modules

| file | what it is |
|---|---|
| `AudioStreamer.tla`, `PacketPipe.tla` | the streamer; its abstract specification |
| `Connection.tla` | one connection |
| `RtspChannel.tla`, `PacketHistory.tla` | requests and responses; resends |
| `DeviceTable.tla`, `TrayControl.tla` | `TrayControl` extends the table of receivers |
| `GroupClient.tla`, `PlayerApp.tla` | `GroupClient` has operators only: the outcomes of a call; `PlayerApp` uses them |
| `PtpClock.tla`, `NtpClock.tla`, `Timing.tla` | `Timing` composes the two by the protocol chosen |
| `ClientSetup.tla`, `RaopConnection.tla`, `SenderSetup.tla` | `SenderSetup` composes the two by the path taken |
| `PairingMachines.tla` | operators only: the message machines |
| `PairingApi.tla`, `Pairing.tla`, `PairTool.tla`, `PairingRun.tla` | the library, the connection and the tool over the machines; `PairingRun` composes them |
| `LiveFeed.tla`, `CaptureSources.tla`, `BluetoothPanel.tla`, `AudioSources.tla` | `AudioSources` composes the three |
| `FileFeed.tla`, `ScreenLists.tla`, `GroupWire.tla`, `BluetoothLibrary.tla`, `BluetoothSource.tla`, `SenderPacing.tla`, `SoloParts.tla` | `SoloParts` composes the six and `PacketHistory` |
| `AudioStreamerProofs.tla`, `ConnectionProofs.tla` (with `RtspChannel`), `TrayControlProofs.tla`, `PlayerAppProofs.tla`, `TimingProofs.tla`, `SenderSetupProofs.tla`, `PairingRunProofs.tla`, `SoloPartsProofs.tla` (with `CaptureSources`) | theorems, of the module each extends and of those it is composed of |
| `MC*.tla`, `*.cfg` | instances for TLC; the constants stand in the `.cfg` files |

`Timing`, `SenderSetup`, `PairingRun`, `AudioSources` and `SoloParts` put parts that do not
share state into one specification: a variable chosen in the initial state says which of them
a behaviour is about, and the others stand still.

Operators whose comment begins with "Mutant:" are not part of a specification. Each is a
plausible bug in the operator that follows it; put in that operator's place it breaks a
property, which shows that the property depends on the code and not on the shape of the
model.

### 3.1 AudioStreamer

*Actors.* The owner's calls (`OwnerCalls`) and the later steps of a call under way
(`OwnerSteps`), the `run_streamer` task (`TaskNext`), the `rt-sender` thread
(`SenderNext`) and the capture thread (`CaptureNext`). `owner`, `task` and `sender` are
their program points.

*Grain of atomicity.* One step is one critical section of the `StreamerInner` mutex, or one
operation on the crossbeam channel. `run_streamer` reads the state in one section
(`TaskCheck`, streamer.rs:1101) and works in another (`Work...`, l.1115 onwards): everything
the other actors do may fall in between. `stop()` is `StopBegin` (cache, one `try_send`,
drop of its sender), `StopJoined` (the join, then `abort()`), `StopFinish` (last section).
`Connection::pause` is `Pause`, then `ResetAfterFlush` or `FlushFails`.

*State.* `state`, `decoder`, `eof`, `fill`, `firstSent`, `prepared` are `StreamerInner`;
`cache` and `position` the atomics beside it; `queue` the channel; `inflight` the packet
held by the task's blocking send; `hand` the packet the thread holds until its deadline;
`ownTx` and `cloneTx` the senders held by the owner and by the control task's clone.
`wire`, `discarded`, `flushed` and `atPause` are history variables: nothing reads them but
the properties. `atPause` is the last `pause()` that took effect and was not resumed: the packets
prepared until then, whether its message got into the channel, and whether an underrun behind the
task's check has overwritten Paused since. `PauseIsKept` says what such a pause is worth in
either case; a pause whose message was lost *and* whose state was overwritten stops nothing.

*Abstraction.* A packet is its number and its marker; one frame of the buffer makes one
packet; deadlines are `SenderPacing`'s, sync packets `GroupWire`'s, the equalizer `FileFeed`'s;
`burst_size` > 1 (hard-coded to 1) is left out, as is the order of an empty sender list.
Failures of decoding, encoding and cloning sockets happen at any point (`Faults`). Live
frames come one at a time and the newest is dropped when the capture channel is full.

### 3.2 PacketPipe

Packets are numbered as they are prepared (`Prepare`), wait, and leave oldest first,
transmitted (`Deliver`) or thrown away (`Lose`); the pipe may close and drop its oldest
packets (`Close`). `Orderly` is that much; `Spec` adds weak fairness of the oldest leaving: no
packet waits forever. `AudioStreamer!Pipe` maps the numbers of the packets in `hand`, `queue`
and `inflight` to those waiting. That they stand there in the order of their numbers is what
the refinement has to show, and is not part of the mapping.

### 3.3 Connection

`pc` is the await the current call has reached; a call is the chain of its requests:
`Connect` or `Start` -> `setup1` -> `setup2` -> `record`; `startFlush` -> `startVolume`;
`unstreaming` -> `unserving` -> `teardown`. `session` is `RtspSession::state`, `playback`
the state shown to the user, `streamer` the state of the installed streamer and `fresh` of
the one `start_streaming` still holds in a local. Dropping the call (`GiveUp`) or the
connection (`Dropped`) drops those handles; since no `Drop` stops a streamer or a server,
they are then counted in `strays` and `lost`. `listeners` counts control tasks, which never
end. `requests`, `torn` and `keyUses` are history. `PlaybackAgrees` goes from what is shown to what
is so: Playing and Paused are the session's, Stopped means that the connection's streamer does not
run. The session behind Stopped may be Playing, for `stop()` leaves it so.

*Abstraction.* Pairing has succeeded before `Init` (`Pairing` has it); timing is NTP (`ClientSetup` has
PTP); a live start is modelled
by the file start (they make the same requests); the streamer is its state, which moves by
itself (`StreamerMoves`) as `AudioStreamer` allows. A request fails at once on a closed
stream and at any time under `Faults`.

### 3.4 RtspChannel

`phase` is the await of the call: `writing`, `length` and `block` for the two reads of a
HomeKit block, `plain` for the buffered plaintext reader, which is used until pairing has
set a cipher (`SetCipher`). A response is a sequence of parts;
`inbound` are the parts on the socket, `partial` those the call has read. `GiveUpCall` drops the
call: `partial` is gone, and if it was reading a block so is the block boundary (`skewed`);
if it was writing, the request may be out, in part (`deaf`: the receiver waits for the rest
or cannot decrypt what follows) or not at all. `answers` is history: what `send` returned,
to which request, and whether the connection was encrypted.

How far answers lag is bounded on the encrypted channel only (`AnswersInOrder`). A plaintext
call that meets the rest of an older response fails on it at once and leaves its own answer to
the next call: with responses of three parts one call that was given up can cost any number of
later ones theirs.

*Abstraction.* The first part holds the whole header. The end of the stream leaves the
plaintext reader spinning until it is given up.

### 3.5 PacketHistory

`Prepare` is `serialize_audio`, which stores the packet and advances the sequence modulo
`SeqRange`; `Leave` is its fate later on; `HandleRetransmit` is the control task with
`handle_retransmit`. Packets carry a number that never wraps, so that the properties can
say which packet was meant. A request names packets that have left, in one run; it may be as
late as the bounds allow. `answer` and `counted` describe the last request only.

*Abstraction.* The datagram channel is the freedom to handle any request at any time, any
number of times. `request` holds the packets of the request up to the first whose answer
could not be sent.

### 3.6 DeviceTable and TrayControl

*Table.* `Resolve` is `handle_service_event` with `merge_device_info`, `RemoveRecord` the
removal of one of a receiver's two services. `heard` is history: the records resolved since
the receiver was last added. A record is whether its features are AirPlay 2, its address
families, and whether it parses.

*Actors.* The user (`UserNext`: clicks and hotkeys, handled by the main thread at once, and the
settings window, which runs on a thread of its own). The main thread (`RoundNext`): `StartUp`,
then rounds of input, `TakeUpdate`*, `TakeHotkeys`, `TakeStatus`*, `EndRound`; `round` says which
channel is drained next. The control thread (`ControlNext`): `StartControl`, `BeginScan` to
`EndScan`, one action per command, `KeepAlive`. Services resolved and removed during a scan
(`Hear`); time (`Elapse`).

*Grain.* A whole command is one step: sessions are the control thread's own and nobody sees
them before a status. The scan, which takes seconds, is several; what it hears is its own until
it ends, so the others move before the first `Hear` or after the scan, not in between.

*State.* `menu` and `devices` are the two copies of the device list, `active` and
`lastTargets` the main thread's marks, `sessions` what streams, each with the settings it
was started with; `cmds`, `updates`, `statuses`, `hotkeys` the channels; `saved` the file.
`overtaken` (a status was taken while a list waited) and `hungry` (a session is due its
keepalive, a field of the session) are history.

*Abstraction.* The settings file exists and names a hotkey that registers. Names, icons and
texts are left out. A session is its settings; `Connection` has the inside.

### 3.7 GroupClient and PlayerApp

*GroupClient* gives the outcomes of a call of `AirPlayClient` as a set of
`[client, events, ok]`: what it leaves when it returns, and, as sets of their own
(`...Dropped`), what a caller's timeout leaves. Each failure the code can meet, in the order
of its steps, is one outcome.

*PlayerApp*'s `client` is what the mutex guards, `line` the mutex: its holder, then those who
wait, `Loop` or a spawned task. Handlers of `Head(actions)` are one action each; a handler
that finds the lock taken is `Wait`. File playback checks `is_group` under one lock and plays
under another (`FindGroup`, `PlayFile`; `step` remembers the answer). Tasks go
`Arrive` -> `BeginGroup` -> `EndGroup`, or `Arrive` -> `StartFile`, and may be ended by
`TimeOut` at each await. Play/pause, stop, seek and volume await the client without a timeout:
`CallBegins` locks it, and the outcome of the call is a step of its own that need never come. A file
whose start is dropped leaves the session Playing and a streamer nobody holds, or nothing
(`PlayFileDropped`). `shown`, `marked`, `group`, `playback`, `connecting` are `AppState`.

*Abstraction.* Cursor, selection, view and the file marked are any: a key finds any of them.
Status line, equalizer and live sources are left out here. A connection is its session, its
streamer and the playback state it reports. Keys for creating or changing a group do not
exist (`CreateGroup`, `AddToGroup` and `RemoveFromGroup` are dispatched by none).

### 3.8 PtpClock, NtpClock and Timing

*PtpClock.* `flow` says which of four tasks runs: `run_ptp_slave`, `run_bmca_yield_flow`,
`PtpMaster::start` or `run_ptp_group_master_flow`. `eventIn` and `generalIn` are the two
sockets; `t1`, `t2`, `t3` the timestamps of the exchange under way, with the message each
came from as history; the actions `Handle...` are the arms of the loops. `PeerSyncs`,
`PeerAnnounces`, `PeerAsks` and `PeerAnswers` are receivers, external, with clocks `now +
Skew`. `Tell` records what was sent to whom. A dead socket ends the task (`SocketError`), and so does a
message of its beginning that cannot be sent (`HelloFails`, `Decide`). An Announce names a
grandmaster, which need not be its sender.

*Offsets.* The code combines whatever timestamps it has. `used` remembers the messages they came
from, and `Early` and `Late` say how far an exchange runs backwards: a Follow_Up younger than the
Sync that was taken, an answer older than the request. `OffsetIsBracketed` bounds the error of every
exchange by its delay, `Early`, `Late` and the difference of the two clocks if two receivers are in
it, and says that a Follow_Up that waited and a late answer to the last request add nothing. It is
stated with the sign each protocol computes: remote minus local over NTP, local minus remote over
PTP. `AppliedIsRemote` is what clock.rs says of both (section 4.2).

*NtpClock.* `SyncSends`, `SyncReceives`, `SyncTimesOut` are `NtpTimingClient::sync`;
`ServerAnswers` the server's loop. `unix_to_ntp` and `ntp_to_unix` are the conversions of
`clock.rs` with their truncation, with a second of `NsPerSec` nanoseconds and `FracPerSec`
units of fraction; seconds wrap with the era, and what is below 1970 then becomes 1970.

*Abstraction.* Datagrams are lost or wait but are not doubled. The clocks show 1970 or later. When the
NTP era of either has ended (2036; `InEra`) the model goes on and nothing is claimed of the offset. Fields no decision reads are left out.

### 3.9 ClientSetup, RaopConnection and SenderSetup

*ClientSetup.* Connections are numbered as they are made; `conn[c]` is what `setup` stored in
it, `task[c]` its timing task: an NTP server, a PTP flow that holds ports 319 and 320, or the
forwarder of a group's member. `held` is `connection` followed by `group_connections`,
`building` the locals of the call under way. `Dropped` drops locals, with the handles of
tasks, which run on (`abandoned`). `abort()` takes effect at the task's next await
(`AbortTakesEffect`), so that a disconnect can return while the ports are still held; a
flow that cannot bind them falls back to ephemeral ones (`Bind`), and `blocker` remembers
whose fault that was. Offsets are the numbers of measurements.

*RaopConnection.* `await` is the response the call waits for; every response may be any
status, a 401 with or without a usable challenge, or missing. Timing servers and control
sockets carry the number of the `setup()` that opened them; `told` is the number whose ports
the receiver acknowledged.

*Abstraction.* The requests of an AirPlay 2 setup are one wait (`Connection` has them).
SDP and keys are left out; keys do not change in a session.

### 3.10 Pairing

*PairingMachines* has one operator per call of `PairSetup`, `PairVerify`, `FairPlay` and
`TransientPairSetup`, from machine and reply to machine. A secret is the tuple of the numbers
that went into it; a signature is who signed and in which order of its three parts.

*PairingApi* is `PairingSession` and machines of one's own, called in any order with any
replies. *Pairing* is `connect_auto`, `connect_with_pin` and `connect_with_pin_pairing`,
request by request, by several programs that share one identity file with the tool; the
accessory is external, follows the protocol, may refuse anything, close a link, forget a
controller or be reset. *PairTool* is `examples/pair_with_device.rs`: its menu, the script
of each method, and its three readers, with answers that cross the connection in parts. Where a
reader does not find the length of a body it takes the headers, or the first sealed frame, for the
whole answer: `cut` says that the rest is still to come, and is met by the next reader, which
reads past it (`ReadJoined`), or fails on it.

*Abstraction.* A link's number is also its ephemeral keys' and the key generated for it.
Reading and writing the file are atomic, though what is on disk may be the old or the new
identity. Cryptography is opaque: a proof is right or wrong. The counters of the control
channel are left out.

### 3.11 LiveFeed, CaptureSources, BluetoothPanel

*LiveFeed* follows numbered samples from device to packet: `Callback` (cpal), `Read` (ALSA),
`Loopback` and `PutSilence` (WASAPI) fill `frameQueue` or `channel` by `TrySend`; `Relay` moves
frames on; `Collect`, `TakeFrame`, `Refused`, `NoFrame` and `DeliverPacket` are
`LiveAudioDecoder::decode_resampled`, which several polls may take. Of a source at another rate
(`converts`) a frame goes through the resampler, which takes one chunk of it (`Decoded`): the rest
is lost, and a shorter frame is an error that takes what was collected with it (`Refused`).

*CaptureSources* is `app.rs` starting and stopping USB and Bluetooth captures: `step` is where
the event loop stands inside a handler (checking, joining the old capture, opening, starting
the stream, joining, stopping), `handle` the capture the application holds per source. A handler
that awaits the client (`InCall`) need not go on: `client.stop()` joins a thread that may not end.

*BluetoothPanel* is the screen: `actions` the queue, `tasks` how many spawned tasks are about
to run each command. *Abstraction*: of the list its length and highlight; which phone it is
decides only a command's words. `MaxTasks` makes the loop wait for a task, which the code
does not: the bound on spawned tasks.

### 3.12 FileFeed, ScreenLists, GroupWire, BluetoothLibrary, BluetoothSource

*FileFeed*: a frame is its place in the file. Packets of the container (`ContainerSize`) are
cut into packets of the stream (`StreamSize`) with a `residue`; of a file at another rate
(`otherRate`) the resampler takes the first `ResamplerChunk` of a container packet, loses the rest
and refuses a shorter one (`Converted`, `Refuses`); `lock` is who holds the streamer; a `Seek` goes through decoder, buffer, encoder and equalizer; the equalizer's
atomics are written between any two of its reads. `damaged` is history: the frames of packets
that did not decode.

*ScreenLists*: of a list its length and the place of the highlight; keys and scan results wait
in one queue, and so does the result of a file that was started, which shows the player. The help
overlay is left out.

*GroupWire*: every play has a streamer, a ring per member and a listener thread that nothing
ends; `sockets` are shared by all listeners. A listener counts a request and its answers in the
play's sum first and in the device's counts afterwards (`Hear`, `Answer`, then `CountDevice`;
`owed` is what is still to be added). Without a sender thread (`SendDirect`) syncs go through the
first sender only: `bare` counts, for each member, the packets since it had one. Cloning a socket succeeds, timestamps do not
wrap; sequence numbers do.

*BluetoothLibrary*: a call is a sequence of requests, one step each, and BlueZ changes between
them (`Changes`); `held` is history: what was so at some moment of the call. Two requests fail without
failing their call: the query whether a phone is connected, which a disconnect takes for "no", and
that for the properties of one phone, which a scan then leaves out.
*BluetoothSource*: a frame is its capture and its number there.

### 3.13 SenderPacing

The thread of `AudioStreamer` again, with a clock that may pass between any two of its steps:
`TakePacket` -> `SendBurst` -> `Advance`, where the deadline moves on by a burst or is given up
for the present. Any message may come next, for the channel and its senders are
`AudioStreamer`'s. `bursts` is history: when each was sent, and how many Resumes had come.

*Abstraction.* A sleep ends at its deadline or later: the result of `clock_nanosleep` is ignored
by the code, and nobody signals the thread. Jitter statistics are left out.

## 4. The runs

Deadlock is not checked in any run: a streamer that was stopped, a connection without calls
left, a program that was quit and a user who does nothing more all stop by design. That the
parts that must not stop go on is said by liveness properties (section 5).

### 4.1 Passing runs

| run | question | bounds and why they are enough | states |
|---|---|---|---|
| `streamer_safety` | order, conservation, what a pause is worth, and stop, with failures, for a file and for a live source | channel of 2, buffer of 3, file of 4 frames, 3 live frames through a capture channel of 2, prefill of 2, 2 pause or resume calls, 1 seek. The channel fills; the file ends while buffering and while streaming; the capture channel overflows and runs dry; a pause, a resume and a stop meet packets in every place of the pipe, and an underrun falls between a pause and the packet behind it | 5 077 968 |
| `streamer_progress` | a delivered stop returns, the task ends, packets are handled, `PacketPipe` is implemented with its fairness | as above without seek and live source, prefill of 1, under `FairSpec` | 88 732 |
| `calls` | of the connection: key use, agreement of the states, TEARDOWN last; of its channel: order, completeness and, on the encrypted channel, lag of answers | one of the two at a time. Six calls, every request, socket and streamer may fail and callers may give up: start, pause, resume, stop, start again and disconnect fit in. Four requests, responses of up to three parts (so that the rest of one can fail two calls), the cipher set between any two calls, any call given up at any await, hang-up; under `CallsFairSpec` | 62 238 |
| `tray_control` | marks, settings of sessions, table of receivers, keepalives | two receivers (one a HomePod), three inputs, two scans of which each hears two services come or go, two volumes, a preset and a custom mode, one output besides the default. A click, the status of the command before it and a new list cross in every order. Symmetric receivers would hide the sort, so no symmetry is used | 500 843 |
| `player_app` | what is shown, whom the group's streamer feeds, whether a quit is handled | two receivers, so a group has a primary and a secondary; four keys: connect a group, play, pause, and one more while these are under way; every request may fail, every timer fire, and a call of a handler may never come back | 1 025 942 |
| `timing` | how wrong an offset can be, one clock | clocks that are 2 behind and 3 ahead, three ticks, two exchanges with the master and one with a stranger, so that a message of one exchange meets those of another; sockets that hold two messages, two rounds, priorities on both sides of the program's own; for NTP three requests across a second, with a server whose clock reaches the end of its era in the last tick | 3 918 528 |
| `sender_setup` | timing tasks and ports, the group's clock, AirPlay 1's ports | three connections: one given up, one that then has to do without the ports, one more for a group; four calls, two measurements; the three protocols; for AirPlay 1 five calls, of which a second setup replaces the first | 2 227 123 |
| `pairing` | two ends in step, answers, identity file | two programs (interchangeable, hence the symmetry) and three links, so that one may pair while the other verifies and one link may be lost; one reset; a right and a wrong PIN; two orders of a signature, which a reader may try both; for the tool answers in two parts, whose rest may be left for the next request; for the library any call with any reply | 1 287 964 |
| `audio_sources` | samples, captures, stops, the Bluetooth screen | frames of up to 4 samples, chunks of 3 and packets of 2: a frame is longer than a packet, as it is in use, and packets end inside frames; a resampled frame may be shorter than a chunk, as long, or longer; a queue of 1 and a channel of 2, so that both overflow; three captures, so that one is started while an old one is joined, twice; two links; two phones, one key queued and two tasks under way | 231 849 |
| `solo_parts` | ring and answers; group senders; file; lists; Bluetooth; deadlines | ring of 3, 6 sequence numbers, 14 packets, requests of up to 3: the ring goes round four times, the sequence wraps twice and a request can be older than a turn. Two members, two plays, four packets each, a ring of 1, sync every second packet: syncs fall due twice after the first, with and without a sender thread, and an older play's listener meets a newer play's requests. A file of 7 frames in packets of 4 and a last one of 3, chunks of 3, cut into packets of 2: a container packet holds a whole packet of the stream beside the residue; buffer of 2, one seek, two bands turned twice. Lists of two. Two phones, two calls, two changes of the daemon during a call; two captures of four frames. Bursts of 1 packet and 2 ticks, five of them within seven ticks, one Resume: the thread is late by less and by more than a burst | 3 438 261 |

`ResumePct` is 40 where the code has 10: with a buffer of three frames it still takes two
frames to leave Buffering, so that both branches of the test occur.

The properties of a run are those of its `.cfg`. Every type invariant is proved
(section 6); only the streamer's is spent a run on as well.

### 4.2 Runs that exhibit a disagreement

`stop_hangs` checks `StopReturns`, the promise of a comment in `stop()`. TLC finds that with a
full channel the Stop message is lost, while the task keeps a sender of its own and goes on
sending: the join in `stop()` waits for ever.

`offset_sign` checks `AppliedIsRemote`, what the comments of clock.rs say of an offset: positive when
the remote is ahead, so that the local time with the offset added is the remote's. TLC finds an
exchange over PTP, all four messages of which belong together, after which that time is not the
receiver's: ptp.rs computes local minus remote. `OffsetIsBracketed` in the run `timing` shows that
with the sign reversed it is right.

The findings in `PROJECT.json` quote the lines.

### 4.3 Observations without a run

The models contain these behaviours, which follow from the lines or functions named. They are
listed for the maintainers; where a property is named, a configuration with that property
alone, over the constants of the module's run, shows it.

**Streamer and connection**

* Packets prepared before the FLUSH are transmitted after it, without a marker
  (`MarkerAfterFlush`); a Resume that finds the channel full is dropped and leaves silence
  while Streaming (`ResumeReachesThread`).
* After `stop()` returned, `state()` may report Buffering, Streaming or Error: the task can
  overwrite the cache that `stop()` stored first (streamer.rs:938, 1140, 1310, 1364).
* An underrun whose iteration was past its state check turns Paused into Buffering
  (streamer.rs:1101, 1366): the task goes on without a resume, and if the Pause message had been lost
  in a full channel as well, playing goes on as if nobody had paused.
* The packet after a `seek()` sets the position back: the encoder's own timestamp does not
  move (streamer.rs:980, 1296). No caller in the repository seeks.
* A file that fills at most a tenth of the buffer stays in Buffering for ever
  (streamer.rs:1137-1166).
* A start dropped while the volume is sent leaves a running streamer without handle
  (`DisconnectStops`); a pause while Buffering is not applied to the streamer
  (`PausedIsSilent`); after `stop()` the session stays Playing, so neither start nor resume can
  succeed (`StopAllowsRestart`).
* `disconnect()` returns early when stopping the streamer fails, and leaves its tasks.
* The control task has no exit: the control socket stays open after `disconnect()`
  (connection.rs:1109-1197).

**RTSP**

* After a call was given up each call gets an earlier call's answer (`AnswerIsForRequest`); in
  plaintext the rest of its response makes later calls fail, each leaving one more answer behind.
* A keepalive given up between the length of an encrypted block and the block leaves the
  reader off the block boundaries for good (rtsp/connection.rs:218-223; `skewed`).
* The plaintext reader drops what its `BufReader` read beyond one response, and at the end of
  the stream spins on empty lines (rtsp/connection.rs:170-176).

**Packets and groups on the wire**

* When one answer to a retransmit request cannot be sent, those sent before it are not counted
  (rtp.rs:833), and packets that a paused thread threw away are resent on request.
* A request may ask for 65535 packets, which are looked up under the lock of the task.
* The listener of an older play never ends: it takes requests off the same sockets and answers
  them from the ring of the streamer that was stopped.
* Without a sender thread, sync packets go to the primary alone (streamer.rs:1322-1331).
* A primary without control port leaves every member without sync packets; two syncs are sent
  at the start, since the time of the last one is zero.
* A socket that cannot be cloned is left out of the list of targets but not of the list of
  packets: the members after it get another member's packets (streamer.rs:670, 838).
* A burst that is not full at a Stop is never sent (only for `burst_size` > 1).

**Tray**

* During a rescan a click on the old list starts the receiver that has the same place in the
  new one.
* A settings window opened again before `SetMode` was handled shows the mode before.
* Saving an empty hotkey disables the hotkey; a comment in settings_window.rs says it keeps it.
* Removing a receiver's AirPlay 1 service removes the receiver, removing its AirPlay 2 service
  is ignored (browser.rs:89-100).
* A keepalive that times out counts as delivered (`send_feedback`, connection.rs:1475).
* A status that overtakes a device list has its marks wiped by the list (`overtaken`).

**Player**

* Whether a group is connected is asked under one lock and the file started under another: in
  between a group may have been connected, of which then the primary alone plays (app.rs:1504).
* Between devices: a failed group connect after a Disconnected event that the application
  ignores leaves the old device shown; rescanning keeps one mark of several; a connect that
  times out inside the disconnect before it, and a failing disconnect, leave the old connection
  in place; a failed group connect drops connections without disconnecting them.
* Pausing a group fails after the FLUSH, and its streamer is not paused. A group whose second
  play fails is Playing without a streamer; a second play starts the nonces of the same keys
  again. A second play on a connection fails, since the first left its session Playing.
* `disband` clears metadata only; `connect` and `disconnect` leave `client.group` as it is;
  `stop` without a connection reports an error after stopping the group's streamer.
* `add_to_group` and `remove_from_group` are reached by no key; a SETPEERS that fails leaves
  the group as shown; `create_group` sends none.
* Play/pause, stop, seek and volume await the client without a timeout: a `stop()` that never returns
  (section 4.2) keeps the loop, and the lock, for good. A play that times out while the volume is
  sent leaves the session Playing and its streamer without a handle (app.rs:1689,
  connection.rs:1099).
* Two volume keys of which the second comes before the first was handled move the volume once.
  Seeking is a stub.

**Timing and setup**

* The streamer adds the offset of a PTP slave, which has the opposite sign (section 4.2), when it
  dates sync packets (streamer.rs:1226, 1272): they are off by twice the difference of the clocks. The
  error reported is half of the *one-way* delay.
* Sequence numbers of PTP messages are never compared, so that an exchange may be mixed of several
  and its offset wrong with a small delay (`Early`, `Late`); `run_ptp_slave` and `PtpMaster` do not
  look at the sender, and a Delay_Resp is read on the event port only.
* After a timeout BMCA reports a clock identity of zeros, which setup then uses. The one that
  won BMCA still follows; nobody sends Syncs. The group's master counts Announce messages, not
  the peers they came from. A BMCA task that fails ends as "no PTP clock ID".
* `PtpMaster`, `PtpClient`, `NtpTimingClient` and `setup_as_ptp_master` have no caller.
  `PtpClient::sync` reads one Delay_Resp; nothing hands it the Sync and Follow_Up it also needs.
* A second `setup()` replaces a running NTP server without stopping it (connection.rs:744); a
  dropped server spins on its channel.
* A connect that failed or was given up leaves its PTP task behind, which holds ports 319 and
  320 for ever; later connections bind ephemeral ports and never hear their receiver. `abort()`
  is not waited for. `timing_offset()` is what it was at setup. Setup cannot be retried after
  its first phase.
* AirPlay 1: a second `start_streaming` replaces both sockets before it fails; a 401 whose
  challenge is unusable counts as success when there is a password; stop leaves the session
  Playing; a missing port becomes port 0. Only the example play_audio.rs uses this path.

**Pairing**

* An identity is saved before anything was paired with it, and `connect_auto` starts from such a
  file as from any other (pair_with_device.rs:125, connection.rs:366); the tool saves the identity it has
  in memory over whatever the file became; failing to save is ignored.
* A link closed during plaintext pairing leaves the caller waiting; a `PairingSession` whose
  reply was refused can neither go on nor start again; `PairVerify::reset` keeps the order of
  signing it learned; a failing encrypted OPTIONS is ignored.
* The tool: a menu number out of range ends it; a first sealed frame that does not hold the
  whole header, or whose headers name no length, is returned as the whole answer; over HTTP a
  lower-case content-length is not found, and the body is empty; a sealed frame whose length bytes read "RT" or "HT" is taken for plaintext.

**Live sound**

* A USB capture that cannot be opened leaves `streaming` set; a failing read, a stream error or
  an ended thread leave the screen at "streaming".
* A phone that disconnects clears the display while its capture goes on; no key stops a
  Bluetooth source. Stopping a source stops whatever the client plays.
* A source at another rate is resampled 1024 frames at a time: of a longer frame the rest is lost
  (live_decoder.rs:260, airplay-resampler/src/lib.rs:188).
* The decoder's last partial packet is never played; the first ten ALSA periods and short ones
  are discarded; a frame the resampler refuses takes the samples collected before with it; a
  blocking ALSA read holds up the join in the event loop. Stopping a source awaits `client.stop()`
  without a limit.
* On the Bluetooth screen a key acts on the phone that is highlighted when it is handled, any
  task's list clears the mark of scanning, the disconnection of one phone clears another, and
  power is toggled from what is shown. Scanning devices blocks the loop for five seconds.
* `auto_install` reads the state of the service once: a service just installed and not yet
  running ends as "Setup incomplete". Waiting for a connection misses a known phone that
  connects. A phone removed and added during a scan is listed twice. A disconnect says Ok when it
  cannot find out whether the phone is connected (pairing.rs:145); a scan leaves out a phone whose
  properties it cannot get (discovery.rs:91-96).
* A capture thread that ends leaves its flags set: `is_running` and `is_eof` say otherwise
  (source.rs:33, 206), and `start()` with such a capture returns Ok without restarting it.

**Files and screens**

* Of a resampled file the first 1024 frames of each container packet are played, and a packet shorter
  than that, the last one say, is an error (decoder.rs:292-298).
* The timestamp of a resampled frame is the position after decoding, residue included; mono
  samples carry the stream's channel count.
* A seek lands on the packet before its target but reports the target; a failed seek has
  emptied the buffer already; a seek clears the state of the equalizer. A decoding error of
  another kind than a damaged packet ends the stream. No caller flushes an encoder.
* A key that waits behind a new list acts on the entry that has its place in that list.
* An unreadable directory offers no way up; going up uses the parent as seen when the key was
  pressed.

## 5. Fairness

* `AudioStreamer!FairSpec`: weak fairness of `OwnerSteps`, `TaskNext` and `SenderNext`. They
  are a call already under way, a task the tokio scheduler polls, and an operating-system
  thread; each is eventually run as long as it can take a step. The owner's calls and the
  capture source are not fair: nobody has to press stop and a source may fall silent. The
  disjunction is fair, not each action: which branch a task takes is not promised.
* `RtspChannel!ChannelFairSpec`, and `CallsFairSpec` for the behaviours of its run that are about the
  channel: weak fairness of `Written`, `Answer`, `Read` and `Fails`. The call
  is polled by its caller, TCP delivers, and the receiver is assumed to answer; without the
  last no request need ever be answered. Giving up and hanging up are not fair.
* `TrayControl!FairSpec`: the two threads run (`RoundNext`, `ControlNext`), time passes
  (`Elapse`). The user is not fair.
* `PlayerApp!FairSpec`: the loop goes on while its handler need not wait for the lock, a spawned
  task comes to run, and its timer fires. That a call of the client ever ends by itself is not
  assumed, of a task or of a handler: it is the timeouts that free the lock. A handler's call without
  a timeout may stay out for ever, and `QuitIsHandled` says that nothing else keeps a quit off.
* `AudioSources!FairSpec`: the loop goes on with the handler it is in, except while that awaits the
  client (`InCall`), which is not assumed to come back; a capture thread, which
  looks at its flag at least every 50 ms or comes back from its device, ends when it may; the
  Bluetooth loop takes what is queued and the commands it runs, processes of `bluetoothctl`, are
  assumed to exit (the scan is told to after ten seconds; the code has no limit of its own).
  Keys, devices and samples are not fair.
* The other modules have safety properties only.

## 6. Proofs

All theorems hold for every value of the constants allowed by the `ASSUME` of the module: any
number of receivers, callers, packets, keys and failures, any size of queues and rings. Each
is proved from the inductive invariant named beside it.

### 6.1 AudioStreamer

| theorem | says | argument |
|---|---|---|
| `TypeCorrect` | `TypeOK` | `TypeInv` adds to `TypeOK` that the held packets are at most one and where they can be; `Decoded` never exceeds the room in the buffer, and a message enters the channel only when there is `Room` |
| `PauseHolds` | `PauseIsKept` | `PauseInv`: until an underrun overwrites Paused, at most one packet more than at the pause, and none more while the task is past its check (`work`), for the check sends a paused task back. `PauseStands`: while the thread runs there is a point in the channel that nothing prepared after the pause can pass (`Barrier`), the Pause message behind older packets only, or the paused thread itself, and no Resume behind it |
| `StopSilences` | `SilentAfterStop` | `Drained`: once `stop()` has returned the buffer is empty and no decoder is left, and by `Custody` the thread is gone, so a task past its check finds nothing to pop and nobody else transmits |
| `CacheIsTruthful` | `CacheAgrees` | inductive as it stands, given the types |
| `PacketsInOrder` | `WireInOrder` | `OrderInv`: what is on the wire was prepared before what the thread holds, that before what is queued, that before the packet in the blocking send, and all of it below `prepared`. `LineSteps` first shows that every action does one of ten things to that line (append, move, drop, ...), so that the ordering argument is made on ten cases and not on thirty actions |
| `NoPacketVanishes` | `NothingVanishes` | on the same ten line steps, with `SeqsOf` of concatenations |
| `LeadIsBounded` | `LeadBounded` | counting: the numbers below `prepared` are covered by `NothingVanishes`, and the pieces are bounded by `TypeOK` and `Custody` |
| `StreamerIsPipe` | every behaviour of the streamer is one of `PacketPipe`'s `Orderly` | each of the ten line steps is a step of the pipe, or changes nothing it sees: `StepPipe`, by cases. `OrderInv` says that what leaves is the oldest, `Custody` that a thread that has exited left nothing in hand or channel, and the lengths of the three that a packet is prepared only when the pipe has room |

`Custody` says who can hold a packet at which program point (the hand is full at `deadline`
and only there, the blocking send at `blocked`), and is what most of the others need.
`WireInOrder` alone is not inductive: `Transmit` needs to know that what the thread holds
was prepared later than everything on the wire, hence the invariant over the whole line.

`PacketPipe` first had a sequence for what waits, mapped to the packets selected from the
concatenation of hand, channel and blocking send. Selecting is recursive, and nothing follows
about it from what the steps do. With the set of the waiting numbers, of which the oldest
leaves, it says the same and can be reasoned about; `streamer_progress` checks all of it,
fairness included.

### 6.2 Connection

| theorem | says | argument |
|---|---|---|
| `TypeCorrect` | `TypeOK` | by cases on the action |
| `KeyUsedOnce` | `OneStreamPerKey` | `KeyInv`: the key is unused while the session is at most Ready, or at `startFlush`; the only step that uses it moves the session to Playing, and no step leads back to Ready since phase 1 is accepted only by a Paired session |
| `PlaybackFollowsSession` | `PlaybackAgrees` | `PlayInv`, which also speaks of the middle of calls, and of the streamer behind a Stopped |
| `TeardownEndsRequests` | `TeardownIsLast` | `TornInv`: after TEARDOWN was sent the call is waiting for its answer, or the stream is closed or dropped |
| `DisconnectClosesAll` | `DisconnectCloses` | `HandleInv`: a started streamer sits in one of the two handles, in the local one only while the volume is sent and then the other is empty; disconnect stops it before the session becomes TearingDown |
| `ListenersDoNotPileUp` | `OneListener` | `HandleInv` and `KeyInv`: the control task is spawned once per use of the key |
| `OrphansOnlyByGivingUp` | `OrphansAreGivenUp` | the step analysis under `HandleInv`: no failure and no second start overwrites a running streamer. Giving up does (section 4.3) |

`CacheAgrees`, `LeadBounded`, `DisconnectCloses`, `OneListener`, `OrphansAreGivenUp` and
`Connection`'s `TypeOK` are proved only: no run repeats them. Nor does a run repeat
`StreamerIsPipe`, which is the safety half of `ImplementsPipe`, the type invariants of
the other modules, `PlayerInv`, `NobodyElse` and `LoopWaitsForATask` of `PlayerApp`.

### 6.3 RtspChannel (in `ConnectionProofs`)

| theorem | says | argument |
|---|---|---|
| `ChannelTypesHold` | `ChannelTypeOK` | `ChannelInv` below, and `RequestsInv`: only requests that were numbered are out; a block's second half is awaited only while the block is on the socket |
| `AnswersStayInOrder` | `AnswersInOrder` | `OrderInv` is about the parts read and those on the socket as one line: every part says where the others of its response are, and responses stand in the order of their requests, ahead of those to come. `AnswerInv`: what was returned is older than any response that begins in the line. `LagInv` counts: a call given up adds one to the lag, and so the line is at most that far behind; the call in progress, and the rest of a response at the head of the line, each use one up |

The property used to bound the lag without condition. The proof failed at the plaintext reader,
and responses of three parts showed why (section 3.4): the run had responses of two parts,
which is too few for it. The property now bounds the lag where it is bounded, and the run has
three parts. `AnswersInOrder` is not inductive: that the next answer is no older than the last
depends on what stands in the line, and that depends on what calls given up left there.

### 6.4 TrayControl and DeviceTable

| theorem | says | argument |
|---|---|---|
| `EntriesStayJoins` | `EntriesAreJoins` | `TableInv` adds that what was heard of a receiver did parse: merging one record into an entry gives the join of the records heard with it, because joining is idempotent and each record keeps an address |
| `TypeCorrect` | `TypeOK` | `TrayInv`, with the messages in all four queues: an index in a command or status may come from a list that was replaced since, and still has to be one that can be listed |
| `SessionsStayCurrent` | `SessionsAreCurrent` | `TrayInv`: each branch of the loop leaves `sessions` either unchanged with everything they follow, or reconciled; before the first list nobody asks for anything |
| `MarksStayTrue` | `MarksAreTrue` | `MarksFollow`: unless a command is on its way that will be followed by a status, the last status waiting says what streams, and if none waits the marks do; a device list, which wipes the marks, finds nothing streaming unless a status overtook it. The property speaks of empty queues only, the invariant of full ones |

### 6.5 PlayerApp and GroupClient

| theorem | says | argument |
|---|---|---|
| `PlayerStaysSound` | `PlayerInv` | the types, a free number for every task, `ShownFollows` and `ConnectingEnds` |
| `StreamsStayMatched` | `StreamsMatchMembers` | the operators of `GroupClient` keep it, whatever their call meets: each outcome of connect, group connect, disconnect and stop is a case |
| `ShownStaysTrue` | `UiAgrees` | `ShownFollows`: the last news in the queue is right; if there is none, what is shown is, unless the last was ignored. `ConnectingEnds`: what is shown as connecting has a task or a queued action that ends it. The property speaks of the quiet state, the invariant of every one before it |

| `PlayerTypesHold` | `TypeOK`, with whoever holds the lock first in its line | `LineInv`: nobody stands in line twice, a task stands there exactly while it waits or works, and one at `connecting` is first. `ShownType`: what is shown is a device, which needs the types of the actions queued |
| `GroupIsConnectedAlone` | no step but the one that ends it changes the client while a task connects a group | `LockedOut`: every handler and every other task changes the client only from the head of the line, and `LineInv` says who is there |
| `LoopWaitsForATask` | when the loop stands in line behind another, that one is a task that connects and has a timer | `LineInv`. It is what the liveness of the player (`AllComesToAnEnd`) rests on; a holder that had gone would stop the loop for good |

A task leaves the line from its head when it is done and from anywhere when it is given up, so
`LineInv` is about removing an element from the middle of a sequence: the lemmas "The lock's
line" show what joining the end, leaving and going first do to who stands where.

That there is a free number for a task (`TasksSuffice`) is counted over the tasks, the queued
actions that spawn one and the keys left; without it a handler that spawns could be stuck in the
model for a reason the program does not have.

### 6.6 Timing

| theorem | says | argument |
|---|---|---|
| `OneClockIsFollowed` | `FollowsOneClock` | `ClockInv`: in the BMCA flow each stored timestamp is of the receiver followed |
| `TimingTypesHold` | `TypeOK` | `StageInv`: a task has told a clock identity exactly when its wait for one is over; `SocketInv`: no socket holds more than it can and a stopped NTP client has nothing to read and does not call itself synchronized; `FractionFits`: the fraction of an NTP timestamp fits in its field |
| `OffsetStaysBracketed` | `OffsetIsBracketed` | PTP: `ExchangeInv` says that every message on its way and every timestamp kept tells a time that has been, a Follow_Up one before any Sync of its number or a later one was taken, an answer one after its request was sent; from these inequalities the bound is linear arithmetic in the delay, `Early` and `Late`. NTP: `NtpInv` says that every answer on its way was given between its request and now; `ReadInEra` that converting to units of fraction and back loses a nanosecond at most |

### 6.7 SenderSetup, ClientSetup and RaopConnection

| theorem | says | argument |
|---|---|---|
| `SenderTypeCorrect` | `TypeOK`, with two flows never holding the PTP ports at once | `SetupInv` and `RaopInv` |
| `TasksStayAccounted` | `TasksAreAccounted` | `TaskInv` and `HeldInv`: at each wait of the client's call, which connections it holds in locals and which in its fields; whoever else holds the ports when a task wants them was dropped or is about to end |
| `GroupStaysWithPrimary` | `GroupFollowsPrimary` | `FollowInv`: who forwards to whom while a group is being connected; `OffsetsInv`: a forwarder has passed on the last offset, or has one it has not looked at |
| `RaopStaysServed` | `RaopIsServed` | `RaopInv`: the ports announced are those of the sockets opened last until the next setup, and a session never returns to the state in which a second start would begin |

### 6.8 Pairing

| theorem | says | argument |
|---|---|---|
| `StagesStayTogether` | `StagesAgree` | `ApiInv`: a transient machine stays one |
| `ApiTypesHold` | `PairingApi`'s `ApiTypeOK` | `SessionLike` and `AloneLike`: each machine is one its protocol may have; a reply that says step 2 carries an order, so what pair-verify learns from it is one |
| `AnswersStayOwn` | `AnswersAreItsOwn` | `ToolInv`: while every answer is read whole (`WholeInv`), what is on the connection belongs to the present request, its last part says how much is to come, and before a request is written nothing is left. Once one was cut (`CutInv`), the rest of the answer before and then the present one is what comes, and the request is one that shows this or fails on it |
| `ConnectTypeCorrect` | `ConnectTypeOK`: the machine at each await is in the state its next message needs | `ConnInv` |
| `PairedStaysMutual` | `PairedIsMutual` | `CallerInv`: what a caller's machines, credentials and reply are worth at each of its awaits. A good M4 of pair-verify can only come from an accessory that has changed to the keys of this exchange |
| `SavedStaysAccepted` | `SavedIsAccepted` | an identity with an accessory's key was accepted by it, or is about to be by the one good reply that completes it |
| `PairedStayRecognised` | `PairedAreRecognised` | `TheirInv`: who was accepted by the present identity is known until removed |

### 6.9 The parts on their own, and CaptureSources (`SoloPartsProofs`)

| theorem | says | argument |
|---|---|---|
| `HistoryIsKept` | `RecentAreKept`, and the ring's types | `HistoryInv`: a packet in the ring is one of the last `HistSize`, in the slot its number says, and each of those is there. Rests on lemmas on remainders: numbers with one remainder are a divisor apart or the same |
| `ResentAreMeant` | `ResentIsMeant` | the same invariant: what the ring has under a sequence number is the packet meant or one a whole round younger |
| `HighlightStaysListed` | `HighlightIsListed` | `ListInv`, by cases on the action handled |
| `PacketsStayPaced` | `PacketsArePaced` | `DeadlineMovesOn`: since the i-th burst the deadline has moved by one burst for each sent, but for one that is caught up and one for each Resume. The property compares two bursts; the invariant compares each with the present |
| `FileStaysPlayed` | `FileIsPlayed` | `FileInv`: `PlaceInv` says which places can hold frames at which step, and that what is left over or gathered ends where the container was read to; so the line from what was encoded to what was read stays ascending and complete through every move between two places (`BeginStays`, `PushStays`, `PopStays`, `EncodeStays`) and is extended only by the next frames of the container, or by the first chunk of its next packet |
| `BufferStaysBounded` | `FileTypeOK` | `RoomInv`: a packet is being decoded only while there is room for it, since nobody else puts one in |
| `AcceptedStaysHeard` | the action property `AcceptedIsHeard` of `LiveFeed` | `FeedInv`: a packet is collected from nothing but what was left over, and only whole ones were handed on. `HandsOn` is shown of each step: joining the channel lengthens what was accepted by what the resampler makes of the frame, moving on leaves it as it is |
| `FeedStaysBounded` | `FeedTypeOK` | inductive as it stands |
| `GroupStaysServed` | `GroupIsServed` | `SyncInv` for each member by the way its syncs go, `RingInv`, `RequestInv`, `CountsInv`, which counts what is owed to a device with it. That the sums over the members follow the counts needs sums over any finite set: section "Sums" proves that the summing function exists and what one value more does to it |
| `QueueStaysBounded` | `WireTypeOK` | `GroupInv` and `WithinBounds`: the loop waits for room before it prepares a packet |
| `BluetoothStaysMeant` | `BluetoothIsMeant` | `LibraryInv`: what a call has seen by each of its stages; `SourceInv`: what waits is of the running capture and in its order |
| `CapturesStayHeld` | `CapturesAreHeld` of `CaptureSources` | `LiveInv`: while a source starts, where its old and its new capture are at each of the handler's steps. `AudioSources` takes these steps or leaves their variables alone |
| `HandlesStayOwn` | `AppTypeOK`: what is held for a source is a capture of that source | `LiveInv` and `BegunInOrder`: captures begin in their order, and a handler that has ended is at rest |

`FileIsPlayed` and `AcceptedIsHeard` are about buffers flattened to one sequence of frames.
`FlattenSeq` is computed by a recursive function: the section "Flattening" proves that the function
exists and is the only one, and what one more buffer at the end and one less at the front do to
the whole, by induction over sets of numbers, which needs no operator as a parameter.
`FileIsPlayed` itself is stated by order and range, that the frames on the way ascend and are
those read and not damaged. The two say together that each is there once, and nothing needs to
be filtered.

### 6.10 Only model-checked

* Liveness: `AllComesToAnEnd`, `EachIsAnswered`, `SessionsAreFed`, `QuitIsHandled`,
  `StopsComeThrough`, `ScanEnds`, and the fairness half of `ImplementsPipe`.
  Properties under fairness, and `ENABLED`, are beyond the prover.
* What the code does not keep: `StopReturns` and `AppliedIsRemote` (section 4.2),
  `AnswerIsForRequest` (4.3).
* What recursive definitions give for every input where the models have none of it: the codecs,
  parsers and filters that section 7 leaves out.

## 7. Not modelled

| what | why |
|---|---|
| plist, SDP, TXT and TLV codecs, URL and header formatting | formatting and parsing without control state; the models take the parsed fields |
| cryptography (SRP, Ed25519, X25519, ChaCha20-Poly1305, AES, FairPlay tables) | numeric code; proofs and secrets are opaque values in `PairingMachines` |
| codecs, the filters of the equalizer and the resampler, WAV and tone helpers | numeric code on one frame at a time; the encoders' buffering, and the chunks the resampler works on, are in `FileFeed` and `LiveFeed`, with frames counted at the stream's rate: the resampler's delay and the frame more or less it gives are not |
| `PtpClient::sync`, `PtpMaster::send_sync` | no caller; a blocking wait for one answer, one packet |
| drawing of the terminal and of the tray's icons and windows | output |
| scripts, installer, other examples than the pairing tool | build and command-line glue |
| counters of the control channel, `EncryptedChannel`, loading and saving of `ControllerIdentity` | a counter per direction and a file read or written at once; `Pairing` takes the file as a whole |
| add_to_group, remove_from_group, SETPEERS of a changed group | reached by no key; in the plan |
| metadata, progress and artwork requests | one request each without state of its own |
| `A2dpSink::monitor`, untrusting a phone | a poll without effect on others; one request |
| `burst_size` > 1 | a parameter of `SenderPacing`, which its run leaves at the 1 that is hard-coded |

`PROJECT.json` says for each component which of its operations are left out.
