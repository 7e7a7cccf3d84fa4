---------------------------- MODULE GroupClient ----------------------------
(***************************************************************************)
(* What one call of AirPlayClient (crates/airplay-client/src/client.rs)    *)
(* may do to the client: the primary connection, the connections of the    *)
(* other members of a group, the group's description and the streamer that *)
(* feeds all of them.  A call holds the client exclusively, so it is a     *)
(* relation: the set of its outcomes, each with the client it leaves, the  *)
(* events it emitted and whether it returned Ok.  A caller's timeout drops *)
(* the call at one of its awaits; those outcomes are sets of their own.    *)
(*                                                                         *)
(* Of a connection there are its device, the state of its session, its own *)
(* streamer and the playback state it reports (Connection has the rest);   *)
(* of the group streamer, whom it feeds.  That a stream comes to its end   *)
(* changes nothing the client keeps.                                       *)
(***************************************************************************)
EXTENDS Naturals, FiniteSets, Sequences

CONSTANTS
  Device,   \* receivers on the network
  NoDevice,
  Faults    \* whether connections, requests, streams and files may fail

ASSUME GroupClientAssumption == NoDevice \notin Device /\ Faults \in BOOLEAN

Playback == {"Stopped", "Playing", "Paused"}
NoState == "None"

Client ==
  [device : Device \cup {NoDevice},    \* of the primary connection, if there is one
   session : {"Ready", "Playing", "Paused", "TearingDown"},
   own : {"none", "Streaming", "Paused", "Stopped"},  \* the primary's streamer
   reports : Playback,                 \* Connection::playback_state
   ptp : BOOLEAN,                      \* the primary has a PTP clock to share
   members : SUBSET Device,            \* of group_connections
   group : SUBSET Device,              \* DeviceGroup: leader and members
   targets : SUBSET Device,            \* whom group_streamer feeds, {} without one
   playing : Playback \cup {NoState}]  \* group_playback_state

\* No connection; the description of a group stays until it is disbanded.
Disconnected(group) ==
  [device |-> NoDevice, session |-> "Ready", own |-> "none", reports |-> "Stopped", ptp |-> FALSE,
   members |-> {}, group |-> group, targets |-> {}, playing |-> NoState]

Connected(c, primary, ptp) == [Disconnected(c.group) EXCEPT !.device = primary, !.ptp = ptp]

IsConnected(c) == c.device # NoDevice
IsGroup(c) == c.members # {}
PlaybackState(c) == IF c.playing # NoState THEN c.playing ELSE c.reports

\* Events, as the application's handler passes them on.
Event(name, what) == [event |-> name, what |-> what]
Joined(d) == Event("Connected", d)
Left == Event("Disconnected", NoState)
PlaybackChanged(p) == Event("PlaybackStateChanged", p)
GroupChanged == Event("GroupChanged", NoState)

Done(c, events) == [client |-> c, events |-> events, ok |-> TRUE]
Failed(c) == [client |-> c, events |-> <<>>, ok |-> FALSE]

\* The outcomes of a call that may fail, leaving c.
MayFail(c) == IF Faults THEN {Failed(c)} ELSE {}

-----------------------------------------------------------------------------
(* Connecting and disconnecting.                                             *)

\* The group's streamer and connections are gone, and the primary's streamer stopped;
\* an error or a dropped call leaves the primary in place, before or after TEARDOWN.
HalfDisconnected(c) ==
  {[c EXCEPT !.own = IF @ = "none" THEN "none" ELSE "Stopped", !.session = s,
             !.members = {}, !.targets = {}, !.playing = NoState] :
     s \in {c.session, "TearingDown"}}

\* Mutant: the group's streamer is not stopped.
DisconnectsBadly(c) ==
  {Done([Disconnected(c.group) EXCEPT !.targets = c.targets], <<Left>>)}

Disconnects(c) ==
  {Done(Disconnected(c.group), <<Left>>)}
    \cup UNION {MayFail(h) : h \in IF IsConnected(c) THEN HalfDisconnected(c) ELSE {}}

\* Dropped while it stops the group's streamer, leaves a member, or leaves the primary.
DisconnectDropped(c) ==
  {Failed(h) : h \in {c, [c EXCEPT !.targets = {}]}
                       \cup (IF IsConnected(c) THEN HalfDisconnected(c) ELSE {})}

\* connect(): leave what there is, connect, pair and set up.  A failure afterwards
\* leaves the client without a connection.
Connects(c, d) ==
  LET cleared == IF IsConnected(c) THEN Disconnects(c) ELSE {Done(c, <<>>)}
  IN {o \in cleared : ~o.ok}
       \cup UNION {{Done(Connected(o.client, d, FALSE), Append(o.events, Joined(d)))}
                     \cup (IF Faults THEN {[o EXCEPT !.ok = FALSE]} ELSE {}) :
                   o \in {p \in cleared : p.ok}}

ConnectDropped(c) == IF IsConnected(c) THEN DisconnectDropped(c) ELSE {Failed(c)}

\* connect_group() begins with a disconnect, connected or not ...
GroupBegins(c) == Disconnects(c)

\* ... and ends with all of the devices connected or with none: the connections made
\* before an error are dropped.
GroupEnds(c, devices, leader) ==
  {Done([Connected(c, leader, TRUE) EXCEPT !.members = devices \ {leader}, !.group = devices],
        <<Joined(leader), GroupChanged>>)}
    \cup MayFail(c)

-----------------------------------------------------------------------------
(* Playing.                                                                  *)

\* play_file(): a second stream on a connection fails, its session is not Ready.
PlaysFile(c) ==
  IF IsConnected(c) /\ c.session = "Ready"
  THEN {Done([c EXCEPT !.own = "Streaming", !.session = "Playing", !.reports = "Playing"],
             <<PlaybackChanged("Playing")>>)}
         \cup MayFail(c)
  ELSE {Failed(c)}

\* Dropped before the session is told that it plays, or at the request for the volume
\* (connection.rs:1099) after it was: the streamer is not kept, and plays on.
PlayFileDropped(c) ==
  {Failed(c)} \cup IF IsConnected(c) /\ c.session = "Ready"
                  THEN {Failed([c EXCEPT !.session = "Playing"])} ELSE {}

\* play_file_to_group() stops the streamer there is before it knows that the new one can start.
PlaysToGroup(c) ==
  LET silent == [c EXCEPT !.targets = {}]
  IN IF IsConnected(c) /\ c.ptp
     THEN {Done([c EXCEPT !.targets = {c.device} \cup c.members, !.playing = "Playing"],
                <<PlaybackChanged("Playing")>>)}
            \cup MayFail(silent)
     ELSE {Failed(silent)}

PlayToGroupDropped(c) == {Failed(c), Failed([c EXCEPT !.targets = {}])}

\* pause() on the primary, whose session is Playing only if its own streamer was started.
Pauses(c) ==
  LET held == [c EXCEPT !.own = IF @ = "Streaming" THEN "Paused" ELSE @]
  IN IF ~IsConnected(c) THEN {Failed(c)}
     ELSE MayFail(held) \cup
          IF c.session # "Playing" THEN {Failed(held)}
          ELSE {Done([held EXCEPT !.session = "Paused", !.reports = "Paused",
                                  !.playing = IF @ = NoState THEN NoState ELSE "Paused"],
                     <<PlaybackChanged("Paused")>>)}

Resumes(c) ==
  LET going == [c EXCEPT !.own = IF @ = "Paused" THEN "Streaming" ELSE @]
  IN IF ~IsConnected(c) THEN {Failed(c)}
     ELSE MayFail(going) \cup
          IF c.session \notin {"Ready", "Paused"} THEN {Failed(going)}
          ELSE {Done([going EXCEPT !.session = "Playing", !.reports = "Playing",
                                   !.playing = IF @ = NoState THEN NoState ELSE "Playing"],
                     <<PlaybackChanged("Playing")>>)}

\* stop(): the group's streamer first, then the primary's; the session stays as it is.
Stops(c) ==
  LET silent == [c EXCEPT !.targets = {}]
  IN IF ~IsConnected(c) THEN {Failed(silent)}
     ELSE MayFail(silent) \cup
          {Done([silent EXCEPT !.own = IF @ = "none" THEN "none" ELSE "Stopped",
                               !.reports = "Stopped", !.playing = NoState],
                <<PlaybackChanged("Stopped")>>)}

\* Only the description goes: the members stay connected and are fed.
Disbands(c) == {Done([c EXCEPT !.group = {}], <<GroupChanged>>)}
=============================================================================
