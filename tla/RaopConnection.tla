--------------------------- MODULE RaopConnection ---------------------------
(***************************************************************************)
(* A connection to an AirPlay 1 receiver                                   *)
(* (crates/airplay-client/src/raop_connection.rs) with its RaopSession     *)
(* (crates/airplay-rtsp/src/raop_session.rs): OPTIONS, then ANNOUNCE,      *)
(* SETUP and RECORD, the streamer, and the teardown.                       *)
(*                                                                         *)
(* Methods hold the connection exclusively; await names the response the   *)
(* call waits for.  Every response may be a status of any kind, unreadable *)
(* or missing.  Timing servers and control sockets are numbered by the     *)
(* call of setup() that opened them, so that what the receiver was told is *)
(* distinguished from what is open; the encryption and the SDP are left    *)
(* out, the keys do not change in a session.                               *)
(***************************************************************************)
EXTENDS Naturals, FiniteSets

CONSTANTS
  MaxSteps,  \* bound: calls made on the connection
  Trouble    \* whether requests, sockets and the streamer may fail

RaopAssumption == MaxSteps \in Nat /\ Trouble \in BOOLEAN

VARIABLES
  await,     \* the response the call waits for, "idle", or "dropped"
  state,     \* RaopSession::state
  password,  \* one was given
  opened,    \* calls of setup() that opened their sockets
  server,    \* timing_server, by that number
  orphans,   \* servers whose handle was dropped: they answer on
  control,   \* control_receiver, by that number
  told,      \* the ports the receiver acknowledged in SETUP
  strm,      \* state of the streamer
  starts,    \* history: streams started with the session's key
  steps      \* bound

raopVars == <<await, state, password, opened, server, orphans, control, told, strm, starts, steps>>

Unbound == 0
RaopStates == {"Disconnected", "Connected", "Announced", "SetupComplete", "Playing", "Paused",
               "TearingDown"}

\* What a response may be: its status, and for 401 whether its challenge can be used.
Statuses == {"ok", "refused", "challenge", "bare challenge"}
Replies == {"ok"} \cup (IF Trouble THEN Statuses ELSE {})

RaopInit ==
  /\ await = "options" /\ state = "Connected" /\ password \in BOOLEAN
  /\ opened = 0 /\ server = Unbound /\ orphans = {} /\ control = Unbound /\ told = Unbound
  /\ strm = "none" /\ starts = 0 /\ steps = 0

-----------------------------------------------------------------------------
(* Answers of the receiver.                                                  *)

\* The locals are dropped with an error of connect(), the rest stays with an error of
\* another call.
Fails ==
  /\ await' = IF await \in {"options", "options again"} THEN "dropped" ELSE "idle"
  /\ UNCHANGED <<state, password, opened, server, orphans, control, told, strm, starts, steps>>

Goes(next) ==
  /\ await' = next
  /\ UNCHANGED <<state, password, opened, server, orphans, control, told, strm, starts, steps>>

NoReply == Trouble /\ await \notin {"idle", "dropped", "stop", "teardown"} /\ Fails

\* A challenge is answered if there is a password; one that cannot be used is passed
\* over, and so is any other status.
OptionsReply ==
  /\ await = "options"
  /\ \E status \in Replies :
       CASE status \in {"challenge", "bare challenge"} /\ ~password -> Fails
         [] status = "challenge" /\ password -> Goes("options again")
         [] OTHER -> Goes("idle")

OptionsAgainReply ==
  /\ await = "options again"
  /\ \E status \in Replies : IF status = "ok" THEN Goes("idle") ELSE Fails

\* Only a session that was not announced before goes on.
Announced ==
  IF state = "Connected"
  THEN /\ state' = "Announced" /\ await' = "setup"
       /\ UNCHANGED <<password, opened, server, orphans, control, told, strm, starts, steps>>
  ELSE Fails

AnnounceReply ==
  /\ await = "announce"
  /\ \E status \in Replies :
       CASE status = "challenge" /\ password -> Goes("announce again")
         [] status = "ok" \/ (status = "bare challenge" /\ password) -> Announced
         [] OTHER -> Fails

AnnounceAgainReply ==
  /\ await = "announce again"
  /\ \E status \in Replies : IF status = "ok" THEN Announced ELSE Fails

SetupReply ==
  /\ await = "setup"
  /\ \/ /\ state' = "SetupComplete" /\ told' = opened
        /\ await' = "record"
        /\ UNCHANGED <<password, opened, server, orphans, control, strm, starts, steps>>
     \/ Trouble /\ Fails

\* Whatever its status; then start_streaming() goes on, if it was the caller.
RecordReply ==
  /\ await = "record"
  /\ \/ Goes("idle")
     \/ Goes("streamer")

-----------------------------------------------------------------------------
(* Calls.                                                                    *)

Calls == await = "idle" /\ steps < MaxSteps /\ steps' = steps + 1

\* Mutant: the server of an earlier setup() is stopped before the new one starts.
OpenSocketsBadly ==
  /\ opened' = opened + 1
  /\ server' = opened + 1 /\ control' = opened + 1
  /\ UNCHANGED orphans

\* setup(): a new server and a new control socket replace those of an earlier call.
OpenSockets ==
  /\ opened' = opened + 1
  /\ server' = opened + 1 /\ control' = opened + 1
  /\ orphans' = orphans \cup ({server} \ {Unbound})

\* The server runs, the control socket cannot be bound.
OpenServerOnly ==
  /\ Trouble
  /\ opened' = opened + 1
  /\ server' = opened + 1
  /\ orphans' = orphans \cup ({server} \ {Unbound})
  /\ UNCHANGED control

RaopSetup ==
  /\ Calls
  /\ \/ OpenSockets /\ await' = "announce"
     \/ OpenServerOnly /\ UNCHANGED await
  /\ UNCHANGED <<state, password, told, strm, starts>>

\* start_streaming() sets up again in every state but this.
StartRaop ==
  /\ Calls /\ state = "SetupComplete"
  /\ await' = "streamer"
  /\ UNCHANGED <<state, password, opened, server, orphans, control, told, strm, starts>>

\* The sender is bound and the streamer runs; the answer to the volume is not looked at.
Streams ==
  /\ await = "streamer"
  /\ \/ /\ strm' = "running" /\ starts' = starts + 1
        /\ state' = "Playing" /\ await' = "idle"
        /\ UNCHANGED <<password, opened, server, orphans, control, told, steps>>
     \/ Trouble /\ Fails

\* pause(): the streamer first, then FLUSH.
PauseRaop ==
  /\ Calls
  /\ strm' = IF strm = "running" THEN "paused" ELSE strm
  /\ await' = "flush"
  /\ UNCHANGED <<state, password, opened, server, orphans, control, told, starts>>

FlushReply ==
  /\ await = "flush"
  /\ state' = IF state = "Playing" THEN "Paused" ELSE state
  /\ await' = "idle"
  /\ UNCHANGED <<password, opened, server, orphans, control, told, strm, starts, steps>>

ResumeRaop ==
  /\ Calls
  /\ strm' = IF strm = "paused" THEN "running" ELSE strm
  /\ await' = "record again"
  /\ UNCHANGED <<state, password, opened, server, orphans, control, told, starts>>

\* Only from SetupComplete or Paused; otherwise resume() fails with the streamer going.
RecordAgainReply ==
  /\ await = "record again"
  /\ state' = IF state \in {"SetupComplete", "Paused"} THEN "Playing" ELSE state
  /\ await' = "idle"
  /\ UNCHANGED <<password, opened, server, orphans, control, told, strm, starts, steps>>

\* stop(): the session goes on Playing.
StopRaop ==
  /\ Calls
  /\ strm' = IF strm = "none" THEN "none" ELSE "stopped"
  /\ await' = "stop"
  /\ UNCHANGED <<state, password, opened, server, orphans, control, told, starts>>

StopReply ==
  /\ await = "stop"
  /\ Goes("idle")

\* set_volume() and send_feedback(): one request in any state; an answer that takes more than
\* two seconds is as good as one.
ExchangeRaop ==
  /\ Calls
  /\ await' = "exchange"
  /\ UNCHANGED <<state, password, opened, server, orphans, control, told, strm, starts>>

ExchangeReply ==
  /\ await = "exchange"
  /\ Goes("idle")

\* The stream comes to its end by itself.
RaopStreamEnds ==
  /\ strm = "running" /\ strm' = "stopped"
  /\ UNCHANGED <<await, state, password, opened, server, orphans, control, told, starts, steps>>

\* disconnect(): streamer, server, control socket, then TEARDOWN; an error of the streamer
\* ends it at once.
DisconnectRaop ==
  /\ Calls
  /\ strm' = IF strm = "none" THEN "none" ELSE "stopped"
  /\ \/ /\ server' = Unbound /\ control' = Unbound
        /\ state' = "TearingDown" /\ await' = "teardown"
     \/ /\ Trouble /\ strm # "none"
        /\ UNCHANGED <<server, control, state, await>>
  /\ UNCHANGED <<password, opened, orphans, told, starts>>

TeardownReply ==
  /\ await = "teardown"
  /\ Goes("idle")

RaopNext ==
  \/ NoReply \/ OptionsReply \/ OptionsAgainReply
  \/ RaopSetup \/ AnnounceReply \/ AnnounceAgainReply \/ SetupReply \/ RecordReply
  \/ StartRaop \/ Streams \/ PauseRaop \/ FlushReply \/ ResumeRaop \/ RecordAgainReply
  \/ StopRaop \/ StopReply \/ ExchangeRaop \/ ExchangeReply
  \/ RaopStreamEnds \/ DisconnectRaop \/ TeardownReply

-----------------------------------------------------------------------------

RaopTypeOK ==
  /\ await \in {"idle", "dropped", "options", "options again", "announce", "announce again",
                "setup", "record", "streamer", "flush", "record again", "stop", "exchange",
                "teardown"}
  /\ state \in RaopStates
  /\ strm \in {"none", "running", "paused", "stopped"}
  /\ {server, control, told} \subseteq 0 .. opened /\ orphans \subseteq 1 .. opened
  /\ server \notin orphans /\ password \in BOOLEAN

\* As long as there is a stream, somebody answers the timing port its receiver was told
\* of, and the control port too unless setup() was called since, which replaces the
\* socket before it fails; and the session's key encrypts one stream only.
RaopIsServed ==
  /\ strm \in {"running", "paused"} =>
       told \in {server} \cup orphans /\ (opened = told => control = told)
  /\ starts <= 1
=============================================================================
