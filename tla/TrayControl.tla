---------------------------- MODULE TrayControl ----------------------------
(***************************************************************************)
(* The tray program (crates/homepod-cast/src): the main thread with the    *)
(* menu and the global hotkey (tray.rs, run), the settings window on a     *)
(* thread of its own (settings_window.rs), and the control thread, which   *)
(* owns the sessions (tray.rs, control_loop).  They share four unbounded   *)
(* channels and the files under the application directory (cast.rs).       *)
(*                                                                         *)
(* The main thread polls in rounds: input, then every device list, then    *)
(* every hotkey, then every status.  The control thread handles one        *)
(* command after the other; nothing it does to a session is seen by the    *)
(* others before it sends a status, so a whole command is one step, except *)
(* the scan, which takes seconds.  Indices count from 1.                   *)
(***************************************************************************)
EXTENDS DeviceTable, SequencesExt

CONSTANTS
  HomePods,   \* the receivers listed first
  Outputs,    \* Windows outputs that are present
  Files,      \* what the files may hold at the start; the output may be gone
  Modes,      \* streaming modes the user may pick
  Volumes,    \* positions of the volume slider
  MaxInputs,  \* bound: what the user does
  MaxScans,   \* bound: scans, the first included
  MaxHeard,   \* bound: services resolved or removed during one scan
  Faults      \* whether scans, starts and requests may fail

Default == "default"
Unknown == 0
Presets == {200, 1000, 2500}

ASSUME TrayAssumption ==
  /\ IsFiniteSet(Device)
  /\ HomePods \subseteq Device
  /\ Default \notin Outputs
  /\ Modes \subseteq [preset : BOOLEAN, ms : 50 .. 4000]
  /\ \A m \in Modes : m.preset => m.ms \in Presets
  /\ Volumes \subseteq Nat \ {Unknown}
  /\ Files \subseteq [volume : Volumes, ms : 50 .. 4000, output : {f.output : f \in Files}]
  /\ MaxInputs \in Nat /\ MaxScans \in Nat /\ MaxHeard \in Nat /\ Faults \in BOOLEAN

VARIABLES
  (* the main thread *)
  round,        \* what it drains next, or "starting", "joining", "exited"
  menu,         \* receivers behind the check items, in order
  active,       \* indices with a check mark
  lastTargets,  \* what the hotkey would start
  selected,     \* the output with a check mark
  hotkey,       \* a global hotkey is registered
  (* the settings window *)
  window,       \* the mode its radio buttons show, or Closed
  (* the channels *)
  cmds, updates, statuses, hotkeys,
  (* the control thread *)
  pc,           \* what it does: "starting", "scanning", "hearing", "loop", ...
  devices, sessions, volume, mode, output,
  due,          \* two seconds have passed since last_feedback
  (* the files *)
  saved,
  (* bounds and history *)
  inputs, scans, events,
  overtaken     \* the last status was taken while a device list waited

ui == <<round, menu, active, lastTargets, selected, hotkey>>
channels == <<cmds, updates, statuses, hotkeys>>
control == <<pc, devices, sessions, volume, mode, output, due>>
browser == <<table, heard>>
vars == <<ui, window, channels, control, saved, inputs, scans, events, overtaken, browser>>

Index == 1 .. Cardinality(Device)
Closed == [preset |-> FALSE, ms |-> 0]
NoSession == [device |-> Unknown, ms |-> 0, output |-> Default, volume |-> Unknown, hungry |-> FALSE]
Streams(i) == sessions[i] # NoSession
Streaming == {i \in Index : Streams(i)}

\* The file holds milliseconds; a value that is a preset's comes back as the preset.
FromLatency(ms) == [preset |-> ms \in Presets, ms |-> ms]

\* Messages: DeviceUpdate and Cmd.
Ready(names) == [ready |-> TRUE, names |-> names]
Failed == [ready |-> FALSE, names |-> <<>>]
SetTargets(S) == [op |-> "SetTargets", targets |-> S]
SetOutput(o) == [op |-> "SetOutput", output |-> o]
SetVolume(v) == [op |-> "SetVolume", volume |-> v]
SetMode(m) == [op |-> "SetMode", mode |-> m]
Rescan == [op |-> "Rescan"]
Quit == [op |-> "Quit"]

-----------------------------------------------------------------------------
(* The main thread.                                                          *)

\* The first list, or none after eight seconds; then the saved output, unless it is gone.
StartUp ==
  /\ round = "starting"
  /\ \/ /\ updates # <<>>
        /\ menu' = Head(updates).names
        /\ updates' = Tail(updates)
     \/ /\ updates = <<>> /\ Faults
        /\ UNCHANGED <<menu, updates>>
  /\ selected' = IF saved.output \in Outputs THEN saved.output ELSE Default
  /\ cmds' = Append(cmds, SetOutput(selected'))
  /\ round' = "input"
  /\ UNCHANGED <<active, lastTargets, hotkey, window, statuses, hotkeys, control, saved,
                 inputs, scans, events, overtaken, browser>>

CountInput == inputs < MaxInputs /\ inputs' = inputs + 1

\* The user does something the main thread handles now.
UserInput ==
  /\ round = "input" /\ CountInput
  /\ UNCHANGED <<menu, hotkey, updates, statuses, hotkeys, control, scans, events,
                 overtaken, browser>>

\* Mark the receivers of S and send them as the new targets.
Target(S) ==
  /\ active' = S
  /\ cmds' = Append(cmds, SetTargets(S))

HotkeyTargets ==
  LET known == lastTargets \cap DOMAIN menu IN IF known = {} THEN {1} ELSE known

PressHotkey ==
  /\ UserInput /\ hotkey
  /\ IF active # {}
     THEN lastTargets' = active /\ Target({})
     ELSE /\ UNCHANGED lastTargets
          /\ Target(IF menu = <<>> THEN {} ELSE HotkeyTargets)
  /\ UNCHANGED <<round, selected, window, saved>>

ClickDevice(i) ==
  /\ UserInput /\ i \in DOMAIN menu
  /\ Target(IF i \in active THEN active \ {i} ELSE active \cup {i})
  /\ lastTargets' = IF active' = {} THEN lastTargets ELSE active'
  /\ UNCHANGED <<round, selected, window, saved>>

ClickOff ==
  /\ UserInput /\ active # {}
  /\ lastTargets' = active
  /\ Target({})
  /\ UNCHANGED <<round, selected, window, saved>>

ClickOutput(o) ==
  /\ UserInput /\ o # selected
  /\ selected' = o
  /\ saved' = [saved EXCEPT !.output = o]
  /\ cmds' = Append(cmds, SetOutput(o))
  /\ UNCHANGED <<round, active, lastTargets, window>>

ClickRescan ==
  /\ UserInput
  /\ active' = {}
  /\ cmds' = Append(cmds, Rescan)
  /\ UNCHANGED <<round, lastTargets, selected, window, saved>>

\* One window at a time; it shows what is on file.
ClickSettings ==
  /\ UserInput /\ window = Closed
  /\ window' = FromLatency(saved.ms)
  /\ UNCHANGED <<round, active, lastTargets, selected, cmds, saved>>

\* The rest of the round only changes the menu, which is about to go.
ClickQuit ==
  /\ UserInput
  /\ round' = "joining"
  /\ cmds' = Append(cmds, Quit)
  /\ UNCHANGED <<active, lastTargets, selected, window, saved>>

\* A new list, or the empty one after a failed scan, which keeps the last targets.
TakeUpdate ==
  /\ round \in {"input", "updates"} /\ updates # <<>>
  /\ round' = "updates"
  /\ active' = {}
  /\ menu' = Head(updates).names
  /\ updates' = Tail(updates)
  /\ lastTargets' = IF Head(updates).ready THEN {} ELSE lastTargets
  /\ UNCHANGED <<selected, hotkey, window, cmds, statuses, hotkeys, control, saved,
                 inputs, scans, events, overtaken, browser>>

\* No list is left: register the hotkeys chosen, the last one in the end.
TakeHotkeys ==
  /\ round \in {"input", "updates"} /\ updates = <<>>
  /\ round' = "statuses"
  /\ hotkey' = IF hotkeys = <<>> THEN hotkey ELSE Last(hotkeys)
  /\ hotkeys' = <<>>
  /\ UNCHANGED <<menu, active, lastTargets, selected, window, cmds, updates, statuses, control,
                 saved, inputs, scans, events, overtaken, browser>>

\* Mutant: an error leaves the marks as they are.
StatusTakenBadly ==
  /\ round = "statuses" /\ statuses # <<>>
  /\ active' = IF Head(statuses).failed THEN active ELSE Head(statuses).active
  /\ lastTargets' = IF active' = {} \/ Head(statuses).failed THEN lastTargets ELSE active'
  /\ statuses' = Tail(statuses)
  /\ overtaken' = (updates # <<>>)
  /\ UNCHANGED <<round, menu, selected, hotkey, window, cmds, updates, hotkeys, control, saved,
                 inputs, scans, events, browser>>

\* What streams takes the place of what was marked.
TakeStatus ==
  /\ round = "statuses" /\ statuses # <<>>
  /\ active' = Head(statuses).active
  /\ lastTargets' = IF active' = {} \/ Head(statuses).failed THEN lastTargets ELSE active'
  /\ statuses' = Tail(statuses)
  /\ overtaken' = (updates # <<>>)
  /\ UNCHANGED <<round, menu, selected, hotkey, window, cmds, updates, hotkeys, control, saved,
                 inputs, scans, events, browser>>

EndRound ==
  /\ round = "statuses" /\ statuses = <<>>
  /\ round' = "input"
  /\ UNCHANGED <<menu, active, lastTargets, selected, hotkey, window, channels, control, saved,
                 inputs, scans, events, overtaken, browser>>

\* control.join(), then exit: the settings window goes with the process.
Exit ==
  /\ round = "joining" /\ pc = "ended"
  /\ round' = "exited"
  /\ window' = Closed
  /\ UNCHANGED <<menu, active, lastTargets, selected, hotkey, channels, control, saved, inputs,
                 scans, events, overtaken, browser>>

-----------------------------------------------------------------------------
(* The settings window.                                                      *)

WindowInput ==
  /\ window # Closed
  /\ UNCHANGED <<ui, updates, statuses, control, saved, scans, events, overtaken, browser>>

MoveSlider(v) ==
  /\ WindowInput /\ CountInput
  /\ cmds' = Append(cmds, SetVolume(v))
  /\ UNCHANGED <<window, hotkeys>>

PickMode(m) ==
  /\ WindowInput /\ m # window
  /\ window' = m
  /\ UNCHANGED <<cmds, hotkeys, inputs>>

\* An empty hotkey box disables the hotkey.
Save(key) ==
  /\ WindowInput /\ CountInput
  /\ hotkeys' = Append(hotkeys, key)
  /\ cmds' = Append(cmds, SetMode(window))
  /\ window' = Closed

CloseWindow ==
  /\ WindowInput /\ CountInput
  /\ window' = Closed
  /\ UNCHANGED <<cmds, hotkeys>>

-----------------------------------------------------------------------------
(* The control thread: the scan.                                             *)

\* cast::discover: the browser, its table and what it hears are local to it, so what
\* the others do meanwhile is done before it hears anything.
BeginScan ==
  /\ pc' = "scanning"
  /\ scans' = scans + 1

\* Without a runtime the thread ends, and nobody reads its channel.
StartControl ==
  /\ pc = "starting"
  /\ \/ BeginScan /\ UNCHANGED updates
     \/ /\ Faults
        /\ pc' = "ended"
        /\ updates' = Append(updates, Failed)
        /\ UNCHANGED scans
  /\ UNCHANGED <<ui, window, cmds, statuses, hotkeys, devices, sessions, volume, mode, output,
                 due, saved, inputs, events, overtaken, browser>>

\* The browser hears of a service while the scan lasts.
Hear ==
  /\ pc \in {"scanning", "hearing"} /\ events < MaxHeard
  /\ pc' = "hearing"
  /\ events' = events + 1
  /\ \/ \E rec \in Records : Resolve(rec)
     \/ \E d \in Device, raop \in BOOLEAN : RemoveRecord(d, raop)
  /\ UNCHANGED <<ui, window, channels, devices, sessions, volume, mode, output, due, saved,
                 inputs, scans, overtaken>>

\* Receivers that can be used, and the orders they may be listed in: the table is
\* a hash map, and the sort by kind keeps the order it finds.
Usable == {d \in Device : table[d].airplay2 /\ "v4" \in table[d].addresses}
Listings ==
  {list \in SetToSeqs(Usable) :
     \A i, j \in DOMAIN list : list[j] \in HomePods /\ i < j => list[i] \in HomePods}

\* After the first scan the settings are read from their files.
EndScan ==
  /\ events' = 0
  /\ pc \in {"scanning", "hearing"}
  /\ \/ \E list \in Listings : devices' = list /\ updates' = Append(updates, Ready(list))
     \/ Faults /\ devices' = <<>> /\ updates' = Append(updates, Failed)
  /\ IF scans = 1
     THEN /\ volume' = saved.volume
          /\ mode' = FromLatency(saved.ms)
          /\ output' = saved.output
     ELSE UNCHANGED <<volume, mode, output>>
  /\ table' = [d \in Device |-> Absent] /\ heard' = [d \in Device |-> {}]
  /\ pc' = "loop"
  /\ UNCHANGED <<ui, window, cmds, statuses, hotkeys, sessions, due, saved, inputs, scans,
                 overtaken>>

-----------------------------------------------------------------------------
(* The control thread: its loop.  After each command, and after a second     *)
(* without one, it looks whether the keepalive is due.                       *)

\* Session::start: pairing, SETUP, the volume, the capture thread, the stream.  When a
\* step fails the capture is stopped and the connection dropped.
Started(i, v, m, o) ==
  [device |-> devices[i], ms |-> m.ms, output |-> o, volume |-> v, hungry |-> FALSE]

Normalized(S) == S \cap DOMAIN devices

\* reconcile_targets: stop what is not desired, start what is missing, in order;
\* then report_sessions.  old are the sessions that are still up.
Reconcile(old, targets, v, m, o) ==
  LET desired == Normalized(targets)
      missing == {i \in desired : old[i] = NoSession}
  IN \E up \in SUBSET missing : \E mute \in SUBSET missing :
       /\ up # missing \/ mute # {} => Faults
       /\ sessions' =
            [i \in Index |->
               CASE i \in desired \ missing -> old[i]
                 [] i \in up -> Started(i, IF i \in mute THEN Unknown ELSE v, m, o)
                 [] OTHER -> NoSession]
       /\ statuses' = Append(statuses, [active |-> up \cup (desired \ missing),
                                        failed |-> up # missing])
       /\ due' = FALSE

AllStopped == [i \in Index |-> NoSession]

\* The next command is op.
Receive(op) ==
  /\ pc = "loop" /\ cmds # <<>> /\ Head(cmds).op = op
  /\ cmds' = Tail(cmds)
  /\ UNCHANGED <<ui, window, updates, hotkeys, inputs, overtaken>>

DoSetTargets ==
  /\ Receive("SetTargets")
  /\ Reconcile(sessions, Head(cmds).targets, volume, mode, output)
  /\ pc' = "keepalive"
  /\ UNCHANGED <<devices, volume, mode, output, saved, scans, events, browser>>

DoRescan ==
  /\ Receive("Rescan")
  /\ sessions' = AllStopped
  /\ statuses' = Append(statuses, [active |-> {}, failed |-> FALSE])
  /\ BeginScan
  /\ UNCHANGED <<devices, volume, mode, output, due, saved, events, browser>>

\* A receiver whose request fails keeps what it had.
DoSetVolume ==
  /\ Receive("SetVolume")
  /\ volume' = Head(cmds).volume
  /\ saved' = [saved EXCEPT !.volume = Head(cmds).volume]
  /\ \E mute \in SUBSET Streaming :
       /\ mute # {} => Faults
       /\ sessions' = [i \in Index |->
            IF Streams(i)
            THEN [sessions[i] EXCEPT !.volume = IF i \in mute THEN Unknown ELSE volume']
            ELSE NoSession]
  /\ pc' = "keepalive"
  /\ UNCHANGED <<statuses, devices, mode, output, due, scans, events, browser>>

\* Everything that streams starts again in the new mode.
DoSetMode ==
  /\ Receive("SetMode")
  /\ IF Head(cmds).mode = mode
     THEN UNCHANGED <<mode, saved, sessions, statuses, due>>
     ELSE /\ mode' = Head(cmds).mode
          /\ saved' = [saved EXCEPT !.ms = mode'.ms]
          /\ Reconcile(AllStopped, Streaming, volume, mode', output)
  /\ pc' = "keepalive"
  /\ UNCHANGED <<devices, volume, output, scans, events, browser>>

\* Mutant: the sessions that are up go on with the old output.
OutputSetBadly ==
  /\ Receive("SetOutput")
  /\ IF Head(cmds).output = output
     THEN UNCHANGED <<output, sessions, statuses, due>>
     ELSE /\ output' = Head(cmds).output
          /\ Reconcile(sessions, Streaming, volume, mode, output')
  /\ pc' = "keepalive"
  /\ UNCHANGED <<devices, volume, mode, saved, scans, events, browser>>

DoSetOutput ==
  /\ Receive("SetOutput")
  /\ IF Head(cmds).output = output
     THEN UNCHANGED <<output, sessions, statuses, due>>
     ELSE /\ output' = Head(cmds).output
          /\ Reconcile(AllStopped, Streaming, volume, mode, output')
  /\ pc' = "keepalive"
  /\ UNCHANGED <<devices, volume, mode, saved, scans, events, browser>>

DoQuit ==
  /\ Receive("Quit")
  /\ sessions' = AllStopped
  /\ pc' = "ended"
  /\ UNCHANGED <<statuses, devices, volume, mode, output, due, saved, scans, events, browser>>

\* After a command, or when none has come for a second.
Looks == pc = "keepalive" \/ (pc = "loop" /\ cmds = <<>>)

\* Mutant: one failed keepalive ends the round before the others are fed.
KeptAliveBadly ==
  /\ Looks
  /\ pc' = "loop"
  /\ IF Streaming = {} \/ ~due
     THEN UNCHANGED <<sessions, statuses, due>>
     ELSE /\ due' = FALSE
          /\ UNCHANGED <<sessions, statuses>>
  /\ UNCHANGED <<ui, window, cmds, updates, hotkeys, devices, volume, mode, output, saved,
                 inputs, scans, events, overtaken, browser>>

\* Feed every session; stop and report those that did not take it.
KeepAlive ==
  /\ Looks
  /\ pc' = "loop"
  /\ IF Streaming = {} \/ ~due
     THEN UNCHANGED <<sessions, statuses, due>>
     ELSE \E dead \in SUBSET Streaming :
            /\ dead # {} => Faults
            /\ sessions' = [i \in Index |->
                 IF i \in Streaming \ dead THEN [sessions[i] EXCEPT !.hungry = FALSE] ELSE NoSession]
            /\ statuses' = IF dead = {} THEN statuses
                           ELSE Append(statuses, [active |-> Streaming \ dead, failed |-> TRUE])
            /\ due' = FALSE
  /\ UNCHANGED <<ui, window, cmds, updates, hotkeys, devices, volume, mode, output, saved,
                 inputs, scans, events, overtaken, browser>>

\* Two seconds pass.
Elapse ==
  /\ pc \in {"loop", "keepalive"} /\ Streaming # {}
  /\ due' = TRUE
  /\ sessions' = [i \in Index |->
       IF Streams(i) THEN [sessions[i] EXCEPT !.hungry = TRUE] ELSE NoSession]
  /\ UNCHANGED <<ui, window, channels, pc, devices, volume, mode, output, saved, inputs, scans,
                 events, overtaken, browser>>

-----------------------------------------------------------------------------
Init ==
  /\ round = "starting" /\ menu = <<>> /\ active = {} /\ lastTargets = {}
  /\ selected = Default /\ hotkey = TRUE
  /\ window = Closed
  /\ cmds = <<>> /\ updates = <<>> /\ statuses = <<>> /\ hotkeys = <<>>
  /\ pc = "starting" /\ devices = <<>> /\ sessions = AllStopped
  /\ saved \in Files
  /\ volume = Unknown /\ mode = Closed /\ output = Default
  /\ due = FALSE
  /\ inputs = 0 /\ scans = 0 /\ events = 0
  /\ overtaken = FALSE
  /\ table = [d \in Device |-> Absent] /\ heard = [d \in Device |-> {}]

UserNext ==
  \/ PressHotkey \/ ClickOff \/ ClickSettings \/ ClickQuit
  \/ scans + Len(SelectSeq(cmds, LAMBDA c : c.op = "Rescan")) < MaxScans /\ ClickRescan
  \/ \E i \in Index : ClickDevice(i)
  \/ \E o \in Outputs \cup {Default} : ClickOutput(o)
  \/ \E v \in Volumes : MoveSlider(v)
  \/ \E m \in Modes : PickMode(m)
  \/ \E key \in BOOLEAN : Save(key)
  \/ CloseWindow

RoundNext == StartUp \/ TakeUpdate \/ TakeHotkeys \/ TakeStatus \/ EndRound \/ Exit

ControlNext ==
  \/ StartControl \/ EndScan
  \/ DoSetTargets \/ DoRescan \/ DoSetVolume \/ DoSetMode \/ DoSetOutput \/ DoQuit
  \/ KeepAlive

Next ==
  \/ Hear \/ ControlNext
  \/ pc # "hearing" /\ (UserNext \/ RoundNext \/ Elapse)

Spec == Init /\ [][Next]_vars

\* The two threads run and time passes; the user may stop at any point.
FairSpec == Spec /\ WF_vars(RoundNext) /\ WF_vars(ControlNext) /\ WF_vars(Elapse)

-----------------------------------------------------------------------------
(* Properties.                                                               *)

Session == [device : Device, ms : 50 .. 4000, output : Outputs \cup {f.output : f \in Files} \cup {Default},
            volume : Volumes \cup {Unknown}, hungry : BOOLEAN]

TypeOK ==
  /\ TableType
  /\ round \in {"starting", "input", "updates", "statuses", "joining", "exited"}
  /\ menu \in Seq(Device) /\ devices \in Seq(Device)
  /\ active \subseteq Index /\ lastTargets \subseteq Index
  /\ selected \in Outputs \cup {Default}
  /\ window \in [preset : BOOLEAN, ms : 0 .. 4000]
  /\ pc \in {"starting", "scanning", "hearing", "loop", "keepalive", "ended"}
  /\ sessions \in [Index -> Session \cup {NoSession}]
  /\ \A i \in Index : Streams(i) => i \in DOMAIN devices /\ sessions[i].device = devices[i]

\* Nothing is on its way between the two threads.
Quiet ==
  /\ cmds = <<>> /\ updates = <<>> /\ statuses = <<>>
  /\ round = "input" /\ pc \in {"loop", "keepalive"}

\* Once everything sent was handled the check marks are the sessions, after whatever
\* order of clicks, failures and scans: statuses "keep the icon and check marks correct"
\* (tray.rs:5-6).  The exception is a status that overtook a device list: the list then
\* wipes the marks of what streams (tray.rs:312 drains the lists before tray.rs:355 the
\* statuses, and both may come in between).
MarksAreTrue ==
  Quiet => IF overtaken THEN active \subseteq Streaming ELSE active = Streaming

\* A session that streams does so in the mode, from the output and at the volume chosen
\* last, whichever commands were queued while it started; a volume whose request failed
\* aside (reconcile_targets, tray.rs:515; control_loop, tray.rs:564).
SessionsAreCurrent ==
  \A i \in Streaming :
    /\ sessions[i].ms = mode.ms
    /\ sessions[i].output = output
    /\ sessions[i].volume \in {volume, Unknown}

\* Every session gets its keepalive (or ends), although each command postpones it and
\* one command may take long: "without it the HomePod tears down the session"
\* (tray.rs:679).
SessionsAreFed ==
  \A i \in Index : Streams(i) /\ sessions[i].hungry ~> ~(Streams(i) /\ sessions[i].hungry)
=============================================================================
