--------------------------- MODULE BluetoothPanel ---------------------------
(***************************************************************************)
(* The Bluetooth screen of the terminal application: keys, their handlers  *)
(* in the event loop, and the tasks these spawn, which run bluetoothctl,   *)
(* systemctl and bluealsactl (bluetooth_helper.rs) and send what they      *)
(* found back as actions, in whatever order they end.                      *)
(*                                                                         *)
(* The daemons are external: what a command reports is left to chance,     *)
(* except that it comes back. Of the list of phones there is its length    *)
(* and the place of the highlight, counted from 0, and of a phone shown as *)
(* connected only that there is one. Which phone it is and whether power   *)
(* is shown as on decide nothing but the words of a command.               *)
(***************************************************************************)
EXTENDS Integers, Sequences
LOCAL INSTANCE Functions

CONSTANTS MaxPhones, \* bound: phones in a list
          MaxKeys,   \* bound: actions waiting when a key is pressed
          MaxTasks   \* bound: tasks that run at the same time

ASSUME BluetoothPanelAssumption == {MaxPhones, MaxKeys, MaxTasks} \subseteq Nat \ {0}

VARIABLES
  panel,    \* setup checked, scan shown, a phone shown as connected
  phones,   \* the list, and the place of the highlight
  actions,  \* the queue
  tasks     \* how many tasks are about to run each command

panelVars == <<panel, phones, actions, tasks>>

Command == {"show", "power", "scan", "list", "trust", "pair", "connect", "pcms", "disconnect", "sleep"}
Act(a) == [do |-> a]
PanelKeys ==
  {Act(a) : a \in {"enter", "scan", "pair", "connect", "disconnect", "install", "power", "up", "down"}}

PanelInit ==
  /\ panel = [checked |-> FALSE, scanning |-> FALSE, shown |-> FALSE]
  /\ phones = [size |-> 0, at |-> 0]
  /\ actions = <<>>
  /\ tasks = [c \in Command |-> 0]

(***************************************************************************)
(* The event loop.                                                         *)
(***************************************************************************)
PressPanelKey ==
  /\ Len(actions) < MaxKeys
  /\ \E k \in PanelKeys : actions' = Append(actions, k)
  /\ UNCHANGED <<panel, phones, tasks>>

Waits(a) == actions # <<>> /\ Head(actions).do = a
Handled == actions' = Tail(actions)
HandledThen(a) == actions' = Append(Tail(actions), a)

\* tokio::spawn; MaxTasks makes the loop wait until another task ends.
Spawn(c) ==
  /\ SumFunction(tasks) < MaxTasks
  /\ tasks' = [tasks EXCEPT ![c] = @ + 1]

\* NextView, into this screen for the first time.
EnterView ==
  /\ Waits("enter")
  /\ IF panel.checked THEN Handled ELSE HandledThen(Act("check"))
  /\ UNCHANGED <<panel, phones, tasks>>

\* Both services are asked for in the handler itself.
CheckSetup ==
  /\ Waits("check")
  /\ panel' = [panel EXCEPT !.checked = TRUE]
  /\ HandledThen(Act("init")) \/ Handled
  /\ UNCHANGED <<phones, tasks>>

\* Nothing is installed: instructions are shown, and the setup is checked again later.
AutoInstall ==
  /\ Waits("install") /\ Handled
  /\ Spawn("sleep")
  /\ UNCHANGED <<panel, phones>>

InitAdapter ==
  /\ Waits("init") /\ Handled
  /\ Spawn("show")
  /\ UNCHANGED <<panel, phones>>

AdapterReady ==
  /\ Waits("ready") /\ Handled
  /\ UNCHANGED <<panel, phones, tasks>>

TogglePower ==
  /\ Waits("power") /\ Handled
  /\ Spawn("power")
  /\ UNCHANGED <<panel, phones>>

StartScan ==
  /\ Waits("scan") /\ Handled
  /\ panel' = [panel EXCEPT !.scanning = TRUE]
  /\ Spawn("scan")
  /\ UNCHANGED phones

\* Whoever sent the list, the scan is over.
DevicesScanned ==
  /\ Waits("scanned") /\ Handled
  /\ panel' = [panel EXCEPT !.scanning = FALSE]
  /\ LET n == Head(actions).n
     IN phones' = [size |-> n, at |-> IF phones.at >= n THEN 0 ELSE phones.at]
  /\ UNCHANGED tasks

MoveHighlight ==
  /\ \/ Waits("up") /\ phones' = [phones EXCEPT !.at = IF @ > 0 THEN @ - 1 ELSE @]
     \/ Waits("down") /\ phones' = [phones EXCEPT !.at = IF @ < phones.size - 1 THEN @ + 1 ELSE @]
  /\ Handled
  /\ UNCHANGED <<panel, tasks>>

\* Pair or connect the phone that is highlighted when the key's turn comes; none, nothing.
OnHighlighted(a, first) ==
  /\ Waits(a) /\ Handled
  /\ IF phones.at < phones.size
     THEN Spawn(first) ELSE UNCHANGED tasks
  /\ UNCHANGED <<panel, phones>>

Pair == OnHighlighted("pair", "trust")
ConnectPhone == OnHighlighted("connect", "connect")

PhoneConnected ==
  /\ Waits("connected") /\ Handled
  /\ panel' = [panel EXCEPT !.shown = TRUE]
  /\ UNCHANGED <<phones, tasks>>

\* With no phone shown the display is cleared all the same.
DisconnectPhone ==
  /\ Waits("disconnect")
  /\ IF panel.shown
     THEN Handled /\ Spawn("disconnect")
     ELSE HandledThen(Act("disconnected")) /\ UNCHANGED tasks
  /\ UNCHANGED <<panel, phones>>

PhoneDisconnected ==
  /\ Waits("disconnected") /\ Handled
  /\ panel' = [panel EXCEPT !.shown = FALSE]
  /\ UNCHANGED <<phones, tasks>>

PanelHandler ==
  \/ EnterView \/ CheckSetup \/ AutoInstall \/ InitAdapter \/ AdapterReady \/ TogglePower
  \/ StartScan \/ DevicesScanned \/ MoveHighlight
  \/ Pair \/ ConnectPhone \/ PhoneConnected \/ DisconnectPhone \/ PhoneDisconnected

(***************************************************************************)
(* The tasks. Each step is one command, and what the task does with its    *)
(* answer; an error ends the task with a message.                          *)
(***************************************************************************)
Runs(c) == tasks[c] > 0
Ends(c) == tasks' = [tasks EXCEPT ![c] = @ - 1]
GoesOn(c, next) == tasks' = [tasks EXCEPT ![c] = @ - 1, ![next] = @ + 1]
Sends(a) == actions' = Append(actions, a)
GivesUp(c) == Ends(c) /\ UNCHANGED actions

IsAdapterPowered == Runs("show") /\ GoesOn("show", "list") /\ Sends(Act("ready"))

SetAdapterPower == Runs("power") /\ (GivesUp("power") \/ (Ends("power") /\ Sends(Act("ready"))))

\* Mutant: a scan that fails ends its task.
ScanBadly == Runs("scan") /\ (GivesUp("scan") \/ (GoesOn("scan", "list") /\ UNCHANGED actions))

\* However the scan ends, what devices there are is listed.
Scan == Runs("scan") /\ GoesOn("scan", "list") /\ UNCHANGED actions

\* The paired ones for an adapter, all for a scan or a pairing; none when the command fails.
ListDevices ==
  /\ Runs("list") /\ Ends("list")
  /\ \E n \in 0..MaxPhones : Sends([do |-> "scanned", n |-> n])

TrustDevice == Runs("trust") /\ (GivesUp("trust") \/ (GoesOn("trust", "pair") /\ UNCHANGED actions))

PairDevice == Runs("pair") /\ (GivesUp("pair") \/ (GoesOn("pair", "list") /\ UNCHANGED actions))

ConnectDevice == Runs("connect") /\ (GivesUp("connect") \/ (GoesOn("connect", "pcms") /\ UNCHANGED actions))

\* Two seconds later: whether audio flows already is only shown.
LookForAudio == Runs("pcms") /\ Ends("pcms") /\ Sends(Act("connected"))

DisconnectDevice ==
  Runs("disconnect") /\ (GivesUp("disconnect") \/ (Ends("disconnect") /\ Sends(Act("disconnected"))))

Recheck == Runs("sleep") /\ Ends("sleep") /\ Sends(Act("check"))

ShowTask == (IsAdapterPowered \/ SetAdapterPower) /\ UNCHANGED <<panel, phones>>
ScanTask == Scan /\ UNCHANGED <<panel, phones>>
ListTask == ListDevices /\ UNCHANGED <<panel, phones>>
PhoneTask ==
  /\ TrustDevice \/ PairDevice \/ ConnectDevice \/ LookForAudio \/ DisconnectDevice \/ Recheck
  /\ UNCHANGED <<panel, phones>>

PanelNext == PressPanelKey \/ PanelHandler \/ ShowTask \/ ScanTask \/ ListTask \/ PhoneTask

\* The loop takes what is queued, and the commands that run come back.
PanelFairness ==
  /\ WF_panelVars(PanelHandler)
  /\ WF_panelVars(ShowTask) /\ WF_panelVars(ScanTask) /\ WF_panelVars(ListTask) /\ WF_panelVars(PhoneTask)

-----------------------------------------------------------------------------
\* A scan that is shown ends: its task reports, a failed scan included, and the report
\* is handled, behind any number of keys, other scans and other tasks' lists.
ScanEnds == panel.scanning ~> ~panel.scanning
=============================================================================
