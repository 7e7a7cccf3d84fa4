----------------------------- MODULE PlayerApp -----------------------------
(***************************************************************************)
(* The terminal player (crates/airplay-tui/src/app.rs): one loop takes     *)
(* keys, actions and ticks, one at a time; a handler that locks the client *)
(* blocks the loop until it has the lock.  Connecting a group and starting *)
(* a file are spawned, hold the same lock and end, or are timed out, while *)
(* the loop goes on.  Events of the client and results of the tasks come   *)
(* back through the unbounded queue of actions the keys use, too.          *)
(*                                                                         *)
(* Where the cursor is, which devices are selected, which view is shown    *)
(* and which file is marked are left to chance: a key finds any of them.   *)
(* The status line, sound sources and the equalizer are left out.          *)
(***************************************************************************)
EXTENDS GroupClient, SequencesExt

CONSTANT MaxKeys  \* bound: keys pressed

ASSUME PlayerAssumption == MaxKeys \in Nat

VARIABLES
  client,     \* what the mutex guards
  line,       \* the lock: its holder, then those who wait, first come first served
  tasks,      \* the spawned tasks, by number
  (* the loop *)
  actions,    \* the queue
  step,       \* how far the handler of Head(actions) has come, and what it found out
  quit,
  (* AppState *)
  listed,     \* devices of the list
  marked,     \* those with is_connected
  shown,      \* connected_device
  playback,   \* playback_state
  group,      \* members of the group shown
  connecting,
  keys,       \* bound: keys left
  ignored     \* history: the last Disconnected was ignored, no Connected came since

lists == <<listed, marked>>
state == <<lists, shown, playback, group, connecting>>
vars == <<client, line, tasks, actions, step, quit, state, keys, ignored>>

Task == 1 .. MaxKeys
Loop == 0
NoTask == [op |-> "none", devices |-> {}, at |-> "none"]
Spawned(op, devices) == [op |-> op, devices |-> devices, at |-> "spawned"]

Action(name) == Event(name, NoState)

Holds(who) == line # <<>> /\ Head(line) = who
Leave(who) == \E i \in DOMAIN line : line[i] = who /\ line' = RemoveAt(line, i)

-----------------------------------------------------------------------------
(* The loop.                                                                 *)

Idle == ~quit /\ ~Contains(line, Loop)

\* handle_key: a key becomes an action; x only while a group is shown.
PressKey(name) ==
  /\ Idle /\ step = "start"
  /\ keys > 0 /\ keys' = keys - 1
  /\ name = "DisbandGroup" => group # {}
  /\ actions' = Append(actions, Action(name))
  /\ UNCHANGED <<client, line, tasks, step, quit, state, ignored>>

Comes(name) == ~quit /\ actions # <<>> /\ Head(actions).event = name

\* The lock is the loop's, or free for it to take and give back at once.
CanLock == line = <<>> \/ Holds(Loop)
Unlock == line' = IF line = <<>> THEN <<>> ELSE Tail(line)

\* A handler that finds the lock taken waits in line, and the loop with it.
Locks(name) ==
  \/ name \in {"ScanDevices", "Play", "Stop", "Adjust", "DisbandGroup", "GroupChanged", "GroupConnected"}
  \/ name = "Connect" /\ listed # {}
  \/ name = "PlayPause" /\ playback \in {"Playing", "Paused"}
Wait ==
  /\ ~quit /\ actions # <<>> /\ Locks(Head(actions).event)
  /\ line # <<>> /\ ~Contains(line, Loop)
  /\ line' = Append(line, Loop)
  /\ UNCHANGED <<client, tasks, actions, step, quit, state, keys, ignored>>

\* The handler is done; events it caused are behind what was queued.
Handled(events) == actions' = Tail(actions) \o events /\ step' = "start"

Quit ==
  /\ Comes("Quit") /\ Handled(<<>>)
  /\ quit' = TRUE
  /\ UNCHANGED <<client, line, tasks, state, keys, ignored>>

\* The scan takes five seconds inside the handler, with the lock.
ScanDevices ==
  /\ Comes("ScanDevices") /\ CanLock /\ Unlock
  /\ \/ Handled(<<Action("DevicesScanned")>>)
     \/ Faults /\ Handled(<<Action("NothingScanned"), Action("ShowError")>>)
  /\ UNCHANGED <<client, tasks, quit, state, keys, ignored>>

\* A new list has one mark at most, however many devices are connected.
DevicesScanned ==
  /\ \/ Comes("DevicesScanned") /\ listed' = Device
     \/ Comes("NothingScanned") /\ listed' = {}
  /\ Handled(<<>>)
  /\ marked' = listed' \cap {shown}
  /\ UNCHANGED <<client, line, tasks, quit, shown, playback, group, connecting, keys, ignored>>

-----------------------------------------------------------------------------
(* Select on the list of devices, and the handlers of what comes of it.      *)

Spawn(op, devices) ==
  LET t == CHOOSE i \in Task : tasks[i] = NoTask
  IN tasks' = [tasks EXCEPT ![t] = Spawned(op, devices)]

\* Two devices or more are connected as a group, by a task ...
ConnectGroup ==
  /\ Comes("Connect") /\ ~Contains(line, Loop) /\ Handled(<<>>)
  /\ \E selected \in SUBSET listed : Cardinality(selected) >= 2 /\ Spawn("group", selected)
  /\ connecting' = TRUE
  /\ UNCHANGED <<client, line, quit, lists, shown, playback, group, keys, ignored>>

\* ... one, the one under the cursor, in the handler; its own events are still to come.
ConnectToSelected ==
  /\ Comes("Connect")
  /\ \/ /\ listed = {} /\ Handled(<<>>) /\ UNCHANGED <<client, line, connecting>>
     \/ /\ CanLock /\ Unlock
        /\ \E d \in listed : \E o \in Connects(client, d) \cup (IF Faults THEN ConnectDropped(client) ELSE {}) :
             /\ client' = o.client
             /\ Handled(o.events)
             /\ connecting' = o.ok
  /\ UNCHANGED <<tasks, quit, lists, shown, playback, group, keys, ignored>>

\* Thirty seconds went by before the lock was free.
ConnectGivesUp ==
  /\ Comes("Connect")
  /\ Leave(Loop) /\ ~Holds(Loop)
  /\ Handled(<<>>)
  /\ connecting' = FALSE
  /\ UNCHANGED <<client, tasks, quit, lists, shown, playback, group, keys, ignored>>

HandleConnected ==
  /\ Comes("Connected") /\ Handled(<<>>)
  /\ connecting' = FALSE
  /\ shown' = Head(actions).what
  /\ marked' = listed \cap {shown'}
  /\ ignored' = FALSE
  /\ UNCHANGED <<client, line, tasks, quit, listed, playback, group, keys>>

\* Ignored while something is being connected.
HandleDisconnected ==
  /\ Comes("Disconnected") /\ Handled(<<>>)
  /\ ignored' = connecting
  /\ IF connecting THEN UNCHANGED state
     ELSE /\ shown' = NoDevice /\ playback' = "Stopped" /\ group' = {}
          /\ marked' = {}
          /\ UNCHANGED <<listed, connecting>>
  /\ UNCHANGED <<client, line, tasks, quit, keys>>

HandleGroupChanged ==
  /\ Comes("GroupChanged") /\ CanLock /\ Unlock /\ Handled(<<>>)
  /\ group' = client.group
  /\ UNCHANGED <<client, tasks, quit, lists, shown, playback, connecting, keys, ignored>>

HandleGroupConnected ==
  /\ Comes("GroupConnected") /\ CanLock /\ Unlock /\ Handled(<<>>)
  /\ connecting' = FALSE
  /\ shown' = IF IsConnected(client) THEN client.device ELSE shown
  /\ group' = client.group
  /\ marked' = marked \cup (listed \cap client.group)
  /\ UNCHANGED <<client, tasks, quit, listed, playback, keys, ignored>>

\* Mutant: an error does not end the connecting.
ShowErrorBadly ==
  /\ Comes("ShowError") /\ Handled(<<>>)
  /\ UNCHANGED <<client, line, tasks, quit, state, keys, ignored>>

HandleShowError ==
  /\ Comes("ShowError") /\ Handled(<<>>)
  /\ connecting' = FALSE
  /\ UNCHANGED <<client, line, tasks, quit, lists, shown, playback, group, keys, ignored>>

-----------------------------------------------------------------------------
(* Playing.                                                                  *)

\* Select on a file: two looks at the client, the lock free in between, and a task.
FindGroup ==
  /\ Comes("Play") /\ step = "start" /\ CanLock /\ Unlock
  /\ step' = IF IsGroup(client) THEN "toGroup" ELSE "file"
  /\ UNCHANGED <<client, tasks, actions, quit, state, keys, ignored>>

PlayFile ==
  /\ Comes("Play") /\ step \in {"file", "toGroup"} /\ CanLock /\ Unlock /\ Handled(<<>>)
  /\ IF (step = "file" /\ IsConnected(client)) \/ (step = "toGroup" /\ IsGroup(client))
     THEN Spawn(step, {}) ELSE UNCHANGED tasks
  /\ UNCHANGED <<client, quit, state, keys, ignored>>

\* A handler without a timeout calls the client.  It keeps the lock until the call comes
\* back, and nothing but that ends it; meanwhile other tasks queue up and are timed out.
Untimed == {"PlayPause", "Stop", "Adjust"}
CallBegins ==
  /\ ~quit /\ actions # <<>> /\ Head(actions).event \in Untimed /\ Locks(Head(actions).event)
  /\ step = "start" /\ CanLock
  /\ line' = IF line = <<>> THEN <<Loop>> ELSE line
  /\ step' = "calling"
  /\ UNCHANGED <<client, tasks, actions, quit, state, keys, ignored>>

InCall == step = "calling" /\ Holds(Loop)

\* What the call does to the client, and what that emits; the state shown follows
\* only with the events.
Calls(outcomes) ==
  \E o \in outcomes :
    /\ client' = o.client
    /\ Handled(o.events)

TogglePlayback ==
  /\ Comes("PlayPause")
  /\ IF playback \in {"Playing", "Paused"}
     THEN /\ InCall /\ Unlock
          /\ Calls(IF playback = "Playing" THEN Pauses(client) ELSE Resumes(client))
     ELSE Handled(<<>>) /\ UNCHANGED <<client, line>>
  /\ UNCHANGED <<tasks, quit, state, keys, ignored>>

Stop ==
  /\ Comes("Stop") /\ InCall /\ Unlock /\ Calls(Stops(client))
  /\ UNCHANGED <<tasks, quit, state, keys, ignored>>

DisbandGroup ==
  /\ Comes("DisbandGroup") /\ CanLock /\ Unlock /\ Calls(Disbands(client))
  /\ group' = {}
  /\ UNCHANGED <<tasks, quit, lists, shown, playback, connecting, keys, ignored>>

\* Volume and seek: a request, and a value that comes back and is shown.
Adjust ==
  /\ Comes("Adjust") /\ InCall /\ Unlock /\ Handled(<<>>)
  /\ UNCHANGED <<client, tasks, quit, state, keys, ignored>>

\* The event says what the client reported when it was emitted; a tick tells the rest.
HandlePlaybackChanged ==
  /\ Comes("PlaybackStateChanged") /\ Handled(<<>>)
  /\ playback' = Head(actions).what
  /\ UNCHANGED <<client, line, tasks, quit, lists, shown, group, connecting, keys, ignored>>

\* Every 250 ms, unless the client is busy.
Tick ==
  /\ Idle /\ step = "start" /\ line = <<>>
  /\ playback' = PlaybackState(client)
  /\ UNCHANGED <<client, line, tasks, actions, step, quit, lists, shown, group, connecting, keys,
                 ignored>>
-----------------------------------------------------------------------------
(* The spawned tasks.                                                        *)

\* The task asks for the lock.
Arrive(t) ==
  /\ tasks[t].at = "spawned"
  /\ tasks' = [tasks EXCEPT ![t].at = "locking"]
  /\ line' = Append(line, t)
  /\ UNCHANGED <<client, actions, step, quit, state, keys, ignored>>

\* It ends, and tells the loop.
End(t, o, news) ==
  /\ client' = o.client
  /\ actions' = actions \o o.events \o news
  /\ tasks' = [tasks EXCEPT ![t] = NoTask]
  /\ Leave(t)

Works(t, op) == Holds(t) /\ tasks[t].at = "locking" /\ tasks[t].op = op

\* A group is connected in two halves: the loop may handle Disconnected in between.
BeginGroup(t) ==
  /\ Works(t, "group")
  /\ \E o \in GroupBegins(client) :
       IF o.ok
       THEN /\ client' = o.client /\ actions' = actions \o o.events
            /\ tasks' = [tasks EXCEPT ![t].at = "connecting"]
            /\ UNCHANGED line
       ELSE End(t, o, <<Action("ShowError")>>)
  /\ UNCHANGED <<step, quit, state, keys, ignored>>

EndGroup(t) ==
  /\ Holds(t) /\ tasks[t].at = "connecting"
  /\ \E leader \in tasks[t].devices : \E o \in GroupEnds(client, tasks[t].devices, leader) :
       /\ End(t, o, <<Action(IF o.ok THEN "GroupConnected" ELSE "ShowError")>>)
  /\ UNCHANGED <<step, quit, state, keys, ignored>>

StartFile(t) ==
  /\ \/ /\ Works(t, "file")
        /\ \E o \in PlaysFile(client) : End(t, o, IF o.ok THEN <<>> ELSE <<Action("ShowError")>>)
     \/ /\ Works(t, "toGroup")
        /\ \E o \in PlaysToGroup(client) : End(t, o, IF o.ok THEN <<>> ELSE <<Action("ShowError")>>)
  /\ UNCHANGED <<step, quit, state, keys, ignored>>

\* What a task that is timed out while it holds the lock leaves of its call.
Dropped(task) ==
  CASE task.op = "group" /\ task.at = "locking" -> DisconnectDropped(client)
    [] task.op = "toGroup" -> PlayToGroupDropped(client)
    [] task.op = "file" -> PlayFileDropped(client)
    [] OTHER -> {Failed(client)}

\* Mutant: playing a file has no timeout.
TimeOutGroup(t) ==
  /\ tasks[t].op = "group" /\ tasks[t].at \in {"locking", "connecting"}
  /\ \E o \in IF Holds(t) THEN Dropped(tasks[t]) ELSE {Failed(client)} :
       End(t, o, <<Action("ShowError")>>)
  /\ UNCHANGED <<step, quit, state, keys, ignored>>

\* Thirty seconds, or sixty for a group, waiting for the lock included.
TimeOut(t) ==
  /\ tasks[t].at \in {"locking", "connecting"}
  /\ \E o \in IF Holds(t) THEN Dropped(tasks[t]) ELSE {Failed(client)} :
       End(t, o, <<Action("ShowError")>>)
  /\ UNCHANGED <<step, quit, state, keys, ignored>>

-----------------------------------------------------------------------------
\* The first action is a scan.
Init ==
  /\ client = Disconnected({}) /\ line = <<>> /\ tasks = [t \in Task |-> NoTask]
  /\ actions = <<Action("ScanDevices")>> /\ step = "start" /\ quit = FALSE
  /\ listed = {} /\ marked = {}
  /\ shown = NoDevice /\ playback = "Stopped" /\ group = {} /\ connecting = FALSE
  /\ keys = MaxKeys /\ ignored = FALSE

Keys == {"Quit", "ScanDevices", "Connect", "Play", "PlayPause", "Stop",
         "Adjust", "DisbandGroup"}

LoopNext ==
  \/ Wait \/ Quit \/ ScanDevices \/ DevicesScanned
  \/ ConnectGroup \/ ConnectToSelected \/ ConnectGivesUp \/ HandleConnected
  \/ HandleDisconnected \/ HandleGroupChanged \/ HandleGroupConnected \/ HandleShowError
  \/ FindGroup \/ PlayFile \/ CallBegins \/ TogglePlayback \/ Stop \/ DisbandGroup \/ Adjust
  \/ HandlePlaybackChanged

TaskNext(t) == Arrive(t) \/ BeginGroup(t) \/ EndGroup(t) \/ StartFile(t)

\* With the loop the program ends, and its tasks with it.
Next ==
  /\ ~quit
  /\ \/ \E name \in Keys : PressKey(name)
     \/ LoopNext \/ Tick
     \/ \E t \in Task : TaskNext(t) \/ TimeOut(t)

Spec == Init /\ [][Next]_vars

\* The loop goes on while its handler need not wait, a spawned task comes to run, and
\* its timer fires; whether a call of the client ever comes back, in a task or in a
\* handler without a timeout, is not assumed.
FairSpec ==
  /\ Spec
  /\ WF_vars(~quit /\ ~InCall /\ LoopNext)
  /\ \A t \in Task : WF_vars(~quit /\ Arrive(t)) /\ WF_vars(~quit /\ TimeOut(t))

-----------------------------------------------------------------------------
(* Properties.                                                               *)

TypeOK ==
  /\ client \in Client
  /\ \A i \in DOMAIN line : line[i] = Loop \/ tasks[line[i]].at \in {"locking", "connecting"}
  /\ \A t \in Task : tasks[t].at = "connecting" => Holds(t)
  /\ step \in {"start", "file", "toGroup", "calling"} /\ quit \in BOOLEAN
  /\ listed \subseteq Device /\ marked \subseteq listed
  /\ shown \in Device \cup {NoDevice} /\ playback \in Playback
  /\ group \subseteq Device /\ connecting \in BOOLEAN

\* Nothing is under way.
Quiet == actions = <<>> /\ line = <<>> /\ \A t \in Task : tasks[t] = NoTask

\* When all is done the player shows the device the client is connected to, after
\* whatever order of connects, failures and timeouts, and no connect is still shown as
\* going on.  The exception is a Disconnected ignored during a connect that failed later
\* ("Ignore spurious disconnects during connect/reconnect flow", app.rs:452): no other
\* event tells the player that the device it shows is gone.
UiAgrees ==
  Quiet => /\ ~connecting
           /\ shown = client.device \/ (ignored /\ client.device = NoDevice)

\* The group's streamer feeds the devices that are connected, all of them and no other,
\* through reconnects, failed or abandoned disconnects, and stops.
StreamsMatchMembers ==
  client.targets # {} => client.targets = {client.device} \cup client.members

\* A queued quit is carried out although the handlers before it lock the client and a task
\* may hold it for ever: "Use a timeout to prevent indefinite hangs" (app.rs:1573).  The
\* one thing that keeps it off for good is a call of a handler that has no timeout (stop,
\* pause, resume, seek, volume) and never comes back; stop() is one that may not.
QuitIsHandled ==
  \/ <>[]InCall
  \/ (\E i \in DOMAIN actions : actions[i].event = "Quit") ~> quit
=============================================================================
