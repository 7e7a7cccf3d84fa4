----------------------------- MODULE Connection -----------------------------
(***************************************************************************)
(* The life of one Connection (crates/airplay-client/src/connection.rs)    *)
(* and of the RtspSession inside it (crates/airplay-rtsp/src/session.rs),  *)
(* from the SETUP that follows pairing to the TEARDOWN.                    *)
(*                                                                         *)
(* Every method holds the Connection exclusively, so calls do not overlap; *)
(* but a call is a chain of awaits, and at each of them a request may      *)
(* fail, the streamer moves on, or the caller's own timeout may drop the   *)
(* future and with it every local value.  pc names the await the call is   *)
(* at.  What a dropped handle leaves running is counted.                   *)
(*                                                                         *)
(* The streamer is its state alone (AudioStreamer has the rest), timing is *)
(* NTP, and a live stream is started like a file.                          *)
(***************************************************************************)
EXTENDS Naturals

CONSTANTS
  MaxCalls,  \* bound: calls made on the connection
  Faults,    \* whether requests, sockets and the start of the streamer may fail
  Cancels    \* whether callers give up on calls (the timeouts of app.rs and cast.rs)

ASSUME ConnectionAssumption ==
  MaxCalls \in Nat /\ Faults \in BOOLEAN /\ Cancels \in BOOLEAN

VARIABLES
  pc,         \* the await of the call in progress, "idle", or "gone" once dropped
  caller,     \* who runs setup(): "connect" or "start"
  callsLeft,
  session,    \* RtspSession::state
  playback,   \* Connection::playback_state
  streamer,   \* state of Connection::streamer, or "none"
  fresh,      \* state of the streamer start_streaming still holds in a local
  strays,     \* streamers running without any handle to stop them
  server,     \* timing_server is Some
  lost,       \* NTP servers running whose handle was dropped
  receiver,   \* control_receiver is Some
  listeners,  \* control tasks polling a control socket
  rtsp,       \* the TCP stream is open
  torn,       \* history: TEARDOWN was sent
  requests,   \* history: requests sent
  keyUses     \* history: streamers started with this session's stream key

handles == <<streamer, fresh, strays, server, lost, receiver, rtsp>>
vars == <<pc, caller, callsLeft, session, playback, handles, listeners, torn, requests, keyUses>>

SessionStates == {"Paired", "SetupPhase1", "Ready", "Playing", "Paused", "TearingDown"}
StreamerStates == {"Buffering", "Streaming", "Paused", "Stopped"}

\* A streamer that was started and has neither stopped nor come to its end.
Running(s) == s \in {"Buffering", "Streaming", "Paused"}
Count(b) == IF b THEN 1 ELSE 0

-----------------------------------------------------------------------------
(* How a call goes on, and how it ends.                                      *)

\* Send a request and wait for the response.
Ask(await) == rtsp /\ pc' = await /\ requests' = requests + 1

\* A request on a closed stream fails at once.
AskOrFail(await) == Ask(await) \/ (~rtsp /\ pc' = "idle" /\ UNCHANGED requests)

\* The call returns an error and the owner keeps the connection: only the
\* call's locals are dropped.
Kept ==
  /\ pc' = "idle"
  /\ strays' = strays + Count(Running(fresh)) /\ fresh' = "none"
  /\ UNCHANGED <<streamer, server, lost, receiver, rtsp>>

\* The connection is dropped, its fields with it: no Drop implementation stops
\* the streamer's task and thread, nor the NTP server's task.
Dropped ==
  /\ pc' = "gone"
  /\ strays' = strays + Count(Running(streamer)) + Count(Running(fresh))
  /\ streamer' = "none" /\ fresh' = "none"
  /\ lost' = lost + Count(server) /\ server' = FALSE
  /\ receiver' = FALSE /\ rtsp' = FALSE

\* AirPlayClient::connect and Session::start drop a connection they cannot set
\* up; play_file keeps one whose streaming did not start, Session::start does not.
Fail(who) == Dropped \/ (who = "start" /\ Kept)

Init ==
  /\ pc = "connected" /\ caller = "connect" /\ callsLeft = MaxCalls
  /\ session = "Paired" /\ playback = "Stopped"
  /\ streamer = "none" /\ fresh = "none" /\ strays = 0
  /\ server = FALSE /\ lost = 0 /\ receiver = FALSE /\ listeners = 0
  /\ rtsp = TRUE /\ torn = FALSE /\ requests = 0 /\ keyUses = 0

-----------------------------------------------------------------------------
(* setup().  A timing server is started each time, unless its socket cannot  *)
(* be bound; storing it drops the server of an earlier call.                 *)

StartServer == server' = TRUE /\ lost' = lost + Count(server)

Connect ==
  /\ pc = "connected"
  /\ \/ /\ StartServer /\ Ask("setup1")
        /\ UNCHANGED <<streamer, fresh, strays, receiver, rtsp>>
     \/ Faults /\ Dropped /\ UNCHANGED requests
  /\ UNCHANGED <<caller, callsLeft, session, playback, listeners, torn, keyUses>>

\* process_setup_phase1_response, then the events connection (which may fail) and
\* the control socket.
Setup1Reply ==
  /\ pc = "setup1" /\ session = "Paired"
  /\ session' = "SetupPhase1"
  /\ receiver' = TRUE
  /\ Ask("setup2")
  /\ UNCHANGED <<caller, callsLeft, playback, streamer, fresh, strays, server, lost, rtsp,
                 listeners, torn, keyUses>>

\* No answer, a bad one, or a session that is already past phase 1.
Setup1Fails ==
  /\ pc = "setup1" /\ (Faults \/ session # "Paired")
  /\ Fail(caller)
  /\ session' \in {session} \cup (IF session = "Paired" THEN {"SetupPhase1"} ELSE {})
  /\ UNCHANGED <<caller, callsLeft, playback, listeners, torn, requests, keyUses>>

Setup2Reply ==
  /\ pc = "setup2"
  /\ session' = "Ready"
  /\ Ask("record")
  /\ UNCHANGED <<caller, callsLeft, playback, handles, listeners, torn, keyUses>>

Setup2Fails ==
  /\ pc = "setup2" /\ Faults
  /\ Fail(caller)
  /\ UNCHANGED <<caller, callsLeft, session, playback, listeners, torn, requests, keyUses>>

\* Whatever becomes of RECORD, setup() succeeds.
RecordReply ==
  /\ pc = "record"
  /\ pc' = "idle"
  /\ UNCHANGED <<caller, callsLeft, session, playback, handles, listeners, torn, requests,
                 keyUses>>

-----------------------------------------------------------------------------
(* start_streaming() and start_streaming_live().                             *)

Called == pc = "idle" /\ callsLeft > 0 /\ callsLeft' = callsLeft - 1

\* Mutant: start without looking at the session.
StartAnyway ==
  /\ Called /\ rtsp
  /\ Ask("startFlush")
  /\ UNCHANGED <<server, lost>>
  /\ caller' = "start"
  /\ UNCHANGED <<session, playback, streamer, fresh, strays, receiver, rtsp, listeners,
                 torn, keyUses>>

\* The session must be Ready; otherwise setup() runs again.
Start ==
  /\ Called
  /\ IF session = "Ready"
     THEN Ask("startFlush") /\ UNCHANGED <<server, lost>>
     ELSE \/ StartServer /\ AskOrFail("setup1")
          \/ Faults /\ pc' = "idle" /\ UNCHANGED <<requests, server, lost>>
  /\ caller' = "start"
  /\ UNCHANGED <<session, playback, streamer, fresh, strays, receiver, rtsp, listeners,
                 torn, keyUses>>

\* Whatever becomes of FLUSH, the streamer is started; start_playing() follows
\* without an await in between, then the volume is sent.
StartFlushReply ==
  /\ pc = "startFlush"
  /\ fresh' \in {"Buffering", "Streaming"} /\ keyUses' = keyUses + 1
  /\ session' = "Playing"
  /\ Ask("startVolume")
  /\ UNCHANGED <<caller, callsLeft, playback, streamer, strays, server, lost, receiver, rtsp,
                 listeners, torn>>

StreamerFails ==
  /\ pc = "startFlush" /\ Faults
  /\ Fail("start")
  /\ UNCHANGED <<caller, callsLeft, session, playback, listeners, torn, requests, keyUses>>

\* Whatever becomes of the volume: spawn the control task, install the streamer.
StartVolumeReply ==
  /\ pc = "startVolume"
  /\ pc' = "idle"
  /\ listeners' = listeners + Count(receiver)
  /\ streamer' = fresh /\ fresh' = "none"
  /\ strays' = strays + Count(Running(streamer))
  /\ playback' = "Playing"
  /\ UNCHANGED <<caller, callsLeft, session, server, lost, receiver, rtsp, torn, requests,
                 keyUses>>

-----------------------------------------------------------------------------
(* pause(), resume(), stop(), set_volume() and send_feedback().              *)

\* AudioStreamer::pause has an effect while Streaming only.
Pause ==
  /\ Called
  /\ streamer' = IF streamer = "Streaming" THEN "Paused" ELSE streamer
  /\ AskOrFail("pauseFlush")
  /\ UNCHANGED <<caller, session, playback, fresh, strays, server, lost, receiver, rtsp,
                 listeners, torn, keyUses>>

\* Mutant: the playback state is set whether or not the session could pause.
PauseReplyUnchecked ==
  /\ pc = "pauseFlush"
  /\ pc' = "idle"
  /\ session' = IF session = "Playing" THEN "Paused" ELSE session
  /\ playback' = "Paused"
  /\ UNCHANGED <<caller, callsLeft, handles, listeners, torn, requests, keyUses>>

PauseReply ==
  /\ pc = "pauseFlush"
  /\ pc' = "idle"
  /\ IF session = "Playing" THEN session' = "Paused" /\ playback' = "Paused"
                            ELSE UNCHANGED <<session, playback>>
  /\ UNCHANGED <<caller, callsLeft, handles, listeners, torn, requests, keyUses>>

Resume ==
  /\ Called
  /\ streamer' = IF streamer = "Paused" THEN "Streaming" ELSE streamer
  /\ AskOrFail("resumeRecord")
  /\ UNCHANGED <<caller, session, playback, fresh, strays, server, lost, receiver, rtsp,
                 listeners, torn, keyUses>>

ResumeReply ==
  /\ pc = "resumeRecord"
  /\ pc' = "idle"
  /\ IF session \in {"Ready", "Paused"} THEN session' = "Playing" /\ playback' = "Playing"
                                        ELSE UNCHANGED <<session, playback>>
  /\ UNCHANGED <<caller, callsLeft, handles, listeners, torn, requests, keyUses>>

\* FLUSH or RECORD fails: pause() and resume() return before the session changes.
RequestFails ==
  /\ pc \in {"pauseFlush", "resumeRecord"} /\ Faults
  /\ pc' = "idle"
  /\ UNCHANGED <<caller, callsLeft, session, playback, handles, listeners, torn, requests,
                 keyUses>>

\* Mutant: the streamer is rewound instead of stopped.
BackToIdle(s) == IF s = "none" THEN "none" ELSE "Idle"

Stopped(s) == IF s = "none" THEN "none" ELSE "Stopped"

Stop ==
  /\ Called
  /\ pc' = "stopping"
  /\ UNCHANGED <<caller, session, playback, handles, listeners, torn, requests, keyUses>>

\* AudioStreamer::stop returned; FLUSH next, whose failure is ignored.
StopJoined ==
  /\ pc = "stopping"
  /\ streamer' = Stopped(streamer)
  /\ IF rtsp THEN Ask("stopFlush") /\ UNCHANGED playback
             ELSE pc' = "idle" /\ playback' = "Stopped" /\ UNCHANGED requests
  /\ UNCHANGED <<caller, callsLeft, session, fresh, strays, server, lost, receiver, rtsp,
                 listeners, torn, keyUses>>

StopReply ==
  /\ pc = "stopFlush"
  /\ pc' = "idle" /\ playback' = "Stopped"
  /\ UNCHANGED <<caller, callsLeft, session, handles, listeners, torn, requests, keyUses>>

\* set_volume() and send_feedback(): a request and nothing else.
Exchange ==
  /\ Called
  /\ AskOrFail("exchange")
  /\ UNCHANGED <<caller, session, playback, handles, listeners, torn, keyUses>>

ExchangeReply ==
  /\ pc = "exchange"
  /\ pc' = "idle"
  /\ UNCHANGED <<caller, callsLeft, session, playback, handles, listeners, torn, requests,
                 keyUses>>

-----------------------------------------------------------------------------
(* disconnect().                                                             *)

Disconnect ==
  /\ Called
  /\ pc' = "unstreaming"
  /\ UNCHANGED <<caller, session, playback, handles, listeners, torn, requests, keyUses>>

\* AudioStreamer::stop returned.
Unstream ==
  /\ pc = "unstreaming"
  /\ streamer' = Stopped(streamer)
  /\ pc' = "unserving"
  /\ UNCHANGED <<caller, callsLeft, session, playback, fresh, strays, server, lost, receiver,
                 rtsp, listeners, torn, requests, keyUses>>

\* NtpTimingServer::stop returned; drop the control receiver and send TEARDOWN.
Unserve ==
  /\ pc = "unserving"
  /\ server' = FALSE /\ receiver' = FALSE
  /\ session' = "TearingDown"
  /\ IF rtsp THEN Ask("teardown") /\ torn' = TRUE /\ UNCHANGED playback
             ELSE pc' = "idle" /\ playback' = "Stopped" /\ UNCHANGED <<torn, requests>>
  /\ UNCHANGED <<caller, callsLeft, streamer, fresh, strays, lost, rtsp, listeners, keyUses>>

\* Mutant: the stream stays open.
TeardownKeepsStream ==
  /\ pc = "teardown"
  /\ pc' = "idle" /\ playback' = "Stopped"
  /\ UNCHANGED <<caller, callsLeft, session, handles, listeners, torn, requests, keyUses>>

\* Whatever becomes of TEARDOWN, the stream is closed.
TeardownReply ==
  /\ pc = "teardown"
  /\ rtsp' = FALSE
  /\ pc' = "idle" /\ playback' = "Stopped"
  /\ UNCHANGED <<caller, callsLeft, session, streamer, fresh, strays, server, lost, receiver,
                 listeners, torn, requests, keyUses>>

-----------------------------------------------------------------------------
(* The rest of the world.                                                    *)

\* The caller's timeout drops the future: 30 s around connect and play_file in
\* app.rs, 4 s around disconnect in cast.rs, whose Session is then dropped.
GiveUp ==
  /\ Cancels
  /\ \/ pc \in {"startFlush", "startVolume"} /\ Kept
     \/ pc = "setup1" /\ caller = "start" /\ Kept
     \/ pc \in {"setup1", "setup2", "record"} /\ caller = "connect" /\ Dropped
     \/ pc \in {"unstreaming", "unserving", "teardown"} /\ Dropped
  /\ UNCHANGED <<caller, callsLeft, session, playback, listeners, torn, requests, keyUses>>

\* run_streamer moves between its states by itself, even out of Paused when an
\* underrun meets a pause, and ends with the file.
Moves(s) ==
  CASE s = "Buffering" -> {"Streaming", "Stopped"}
    [] s \in {"Streaming", "Paused"} -> {"Buffering"}
    [] OTHER -> {}

StreamerMoves ==
  /\ \/ streamer' \in Moves(streamer) /\ UNCHANGED fresh
     \/ fresh' \in Moves(fresh) /\ UNCHANGED streamer
  /\ UNCHANGED <<pc, caller, callsLeft, session, playback, strays, server, lost, receiver,
                 rtsp, listeners, torn, requests, keyUses>>

Calls   == Start \/ Pause \/ Resume \/ Stop \/ Exchange \/ Disconnect
Replies == \/ Connect \/ Setup1Reply \/ Setup2Reply \/ RecordReply \/ StartFlushReply
           \/ StartVolumeReply \/ PauseReply \/ ResumeReply \/ StopJoined \/ StopReply
           \/ ExchangeReply \/ Unstream \/ Unserve \/ TeardownReply
Mishaps == Setup1Fails \/ Setup2Fails \/ StreamerFails \/ RequestFails \/ GiveUp

Next == Calls \/ Replies \/ Mishaps \/ StreamerMoves

Spec == Init /\ [][Next]_vars

-----------------------------------------------------------------------------
(* Properties. *)

Awaits == {"connected", "setup1", "setup2", "record", "startFlush", "startVolume",
           "pauseFlush", "resumeRecord", "stopping", "stopFlush", "exchange",
           "unstreaming", "unserving", "teardown"}

\* The variables keep their types.
CallTypes ==
  /\ pc \in Awaits \cup {"idle", "gone"} /\ caller \in {"connect", "start"}
  /\ session \in SessionStates /\ playback \in {"Stopped", "Playing", "Paused"}
  /\ {streamer, fresh} \subseteq StreamerStates \cup {"none"}
CountTypes == {callsLeft, strays, lost, listeners, requests, keyUses} \subseteq Nat
FlagTypes  == {server, receiver, rtsp, torn} \subseteq BOOLEAN

TypeOK == CallTypes /\ CountTypes /\ FlagTypes

\* No two streamers ever encrypt with one session's key: each starts its RTP
\* sequence, and with it the nonce of every packet, at zero.
OneStreamPerKey == keyUses <= 1

\* Between calls a user shown Playing or Paused has a session in that state, and one
\* shown Stopped has a connection whose streamer does not run, whatever failed or was
\* given up on the way.  Nothing is said of the session behind Stopped: stop(), or a
\* start given up after start_playing(), leaves it Playing or Paused; nor of the
\* streamer of a start given up, which no connection holds any more.
PlaybackAgrees ==
  pc = "idle" => /\ playback = "Playing" => session = "Playing"
                 /\ playback = "Paused" => session = "Paused"
                 /\ playback = "Stopped" => ~Running(streamer)

\* Nothing is sent to the receiver after TEARDOWN.
TeardownIsLast == [][torn => requests' = requests]_vars

\* A running streamer loses its last handle only with the connection itself, or
\* because a caller gave up on starting it: no failure does that, nor a second
\* start, nor disconnect().
OrphansAreGivenUp == [][strays' > strays => pc' = "gone" \/ GiveUp]_vars

\* Control tasks, which never end, do not accumulate on a connection.
OneListener == listeners <= 1

Disconnected == pc = "idle" /\ session = "TearingDown"

\* Once disconnect() has returned the streamer the connection knows of has stopped
\* and the stream is closed, whatever failed on the way.
DisconnectCloses == Disconnected => ~Running(streamer) /\ ~rtsp

-----------------------------------------------------------------------------
(* Properties that the source states and the code does not keep. *)

\* disconnect_cleanup_pattern: "Expected cleanup: 1. Stop AudioStreamer".
DisconnectStops == Disconnected => strays = 0 /\ ~Running(streamer)

\* pause(): "Pause streaming".
PausedIsSilent == pc = "idle" /\ playback = "Paused" => streamer # "Streaming"

\* stop() leaves a session on which streaming can start or resume again.
StopAllowsRestart ==
  [][pc = "stopFlush" /\ pc' = "idle" => session' \in {"Ready", "Paused", "TearingDown"}]_vars
=============================================================================
