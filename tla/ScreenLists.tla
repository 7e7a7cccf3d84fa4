----------------------------- MODULE ScreenLists -----------------------------
(***************************************************************************)
(* The lists on the terminal application's screens, and the entry each has *)
(* highlighted: receivers, files and USB inputs (state.rs,                 *)
(* file_browser.rs). A key becomes an action by the view that is shown     *)
(* when it is pressed, is queued, and meets whatever view and list there   *)
(* are when its turn comes; results of scans and started files wait in the *)
(* same queue.                                                             *)
(*                                                                         *)
(* Of a list there is its length and the place of the highlight, counted   *)
(* from 0; of the file browser, how far below the root it is as well.      *)
(***************************************************************************)
EXTENDS Integers, Sequences

CONSTANTS MaxEntries,  \* bound: entries a scan or a directory brings
          MaxDepth,    \* bound: directories below one another
          MaxTodo      \* bound: actions waiting when a key is pressed

ASSUME ScreenListsAssumption == {MaxEntries, MaxDepth, MaxTodo} \subseteq Nat \ {0}

VARIABLES view, receivers, inputs, browser, todo

listVars == <<view, receivers, inputs, browser, todo>>

Views == <<"Devices", "Browser", "Player", "UsbAudio", "Bluetooth">>
PlaceOf(v) == CHOOSE i \in 1..Len(Views) : Views[i] = v
NextTo(v) == Views[(PlaceOf(v) % Len(Views)) + 1]
Before(v) == Views[((PlaceOf(v) + Len(Views) - 2) % Len(Views)) + 1]

SelectPrev(l) == [l EXCEPT !.at = IF @ > 0 THEN @ - 1 ELSE @]
SelectNext(l) == [l EXCEPT !.at = IF @ < l.size - 1 THEN @ + 1 ELSE @]

\* Mutant: the highlight stays where it was, whatever the new list's length.
ReplacedBadly(l, n) == [l EXCEPT !.size = n]

\* A new list keeps the highlight where it was if there still is such a place.
Replaced(l, n) == [l EXCEPT !.size = n, !.at = IF @ >= n THEN 0 ELSE @]

(***************************************************************************)
(* The file browser.                                                       *)
(***************************************************************************)

\* What a directory can have been found to hold: below the root the way up comes
\* first. One that cannot be read has no entries, not even the way up.
Refreshed(b) ==
  LET sizes == {0} \cup (IF b.depth > 0 THEN 1..(MaxEntries + 1) ELSE 0..MaxEntries)
  IN {[b EXCEPT !.size = n, !.at = IF @ < n THEN @ ELSE IF n = 0 THEN 0 ELSE n - 1] : n \in sizes}

\* To a directory, if that is what is still there.
Navigate(b, depth) == {b} \cup Refreshed([b EXCEPT !.depth = depth, !.at = 0])

\* The entry highlighted: the way up, a directory, or a file, which leaves the browser as it is.
Activate(b) ==
  IF b.at >= b.size THEN {b}
  ELSE IF b.at = 0 /\ b.depth > 0 THEN Navigate(b, b.depth - 1)
  ELSE {b} \cup (IF b.depth < MaxDepth THEN Navigate(b, b.depth + 1) ELSE {})

-----------------------------------------------------------------------------

ListInit ==
  /\ view = "Devices"
  /\ receivers = [size |-> 0, at |-> 0] /\ inputs = receivers
  /\ browser \in Refreshed([size |-> 0, at |-> 0, depth |-> MaxDepth])
  /\ todo = <<>>

Todo(a, n) == [do |-> a, n |-> n]
Turns(a) == todo # <<>> /\ Head(todo).do = a
Then(more) == todo' = Tail(todo) \o more

\* Backspace means the parent of the directory shown now.
ViewKeys ==
  CASE view = "Devices" -> {Todo("scan", 0)}
    [] view = "Browser" -> {Todo("navigate", IF browser.depth > 0 THEN browser.depth - 1 ELSE 0)}
    [] view = "UsbAudio" -> {Todo("refresh", 0)}
    [] OTHER -> {}

\* A key pressed while the help is shown only closes it, and is left out.
PressListKey ==
  /\ Len(todo) < MaxTodo
  /\ \E k \in {Todo(a, 0) : a \in {"next", "back", "up", "down", "select"}} \cup ViewKeys :
       todo' = Append(todo, k)
  /\ UNCHANGED <<view, receivers, inputs, browser>>

\* play_file's task, which some selected file began, has started it: when is the task's matter.
FileStarts ==
  /\ Len(todo) < MaxTodo
  /\ todo' = Append(todo, Todo("started", 0))
  /\ UNCHANGED <<view, receivers, inputs, browser>>

\* The player is shown, whichever view was shown when the keys still waiting were pressed.
PlaybackStarted ==
  /\ Turns("started") /\ Then(<<>>)
  /\ view' = "Player"
  /\ UNCHANGED <<receivers, inputs, browser>>

\* Into the USB view without inputs, they are listed.
NextView ==
  /\ Turns("next")
  /\ view' = NextTo(view)
  /\ Then(IF view' = "UsbAudio" /\ inputs.size = 0 THEN <<Todo("refresh", 0)>> ELSE <<>>)
  /\ UNCHANGED <<receivers, inputs, browser>>

Back ==
  /\ Turns("back") /\ Then(<<>>)
  /\ view' = IF view = "Devices" THEN view ELSE Before(view)
  /\ UNCHANGED <<receivers, inputs, browser>>

Move(a) ==
  LET Moved(l) == IF a = "up" THEN SelectPrev(l) ELSE SelectNext(l)
  IN /\ Turns(a) /\ Then(<<>>)
     /\ browser' = IF view = "Browser" THEN Moved(browser) ELSE browser
     /\ receivers' = IF view = "Devices" THEN Moved(receivers) ELSE receivers
     /\ inputs' = IF view = "UsbAudio" THEN Moved(inputs) ELSE inputs
     /\ UNCHANGED view

\* handle_select: what it starts (a connection, a file, a choice of input) is other modules'.
Select ==
  /\ Turns("select") /\ Then(<<>>)
  /\ browser' \in IF view = "Browser" THEN Activate(browser) ELSE {browser}
  /\ UNCHANGED <<view, receivers, inputs>>

NavigateDir ==
  /\ Turns("navigate") /\ Then(<<>>)
  /\ browser' \in Navigate(browser, Head(todo).n)
  /\ UNCHANGED <<view, receivers, inputs>>

\* A scan, of receivers or of inputs, is done in its handler, and its result queued;
\* a failed one found nothing.
ScanList(a, result) ==
  /\ Turns(a)
  /\ \E n \in 0..MaxEntries : Then(<<Todo(result, n)>>)
  /\ UNCHANGED <<view, receivers, inputs, browser>>

ReceiversScanned ==
  /\ Turns("scanned") /\ Then(<<>>)
  /\ receivers' = Replaced(receivers, Head(todo).n)
  /\ UNCHANGED <<view, inputs, browser>>

InputsListed ==
  /\ Turns("listed") /\ Then(<<>>)
  /\ inputs' = Replaced(inputs, Head(todo).n)
  /\ UNCHANGED <<view, receivers, browser>>

ListNext ==
  \/ PressListKey \/ FileStarts \/ PlaybackStarted \/ NextView \/ Back \/ Select \/ NavigateDir
  \/ ScanList("scan", "scanned") \/ ScanList("refresh", "listed") \/ ReceiversScanned \/ InputsListed
  \/ \E a \in {"up", "down"} : Move(a)

-----------------------------------------------------------------------------
\* The highlight of a list is on one of its entries, or at the start of an empty one,
\* whichever list arrived and whichever view was left meanwhile: what a later key
\* connects to, plays or opens is the entry at that place.
HighlightIsListed == \A l \in {receivers, inputs, browser} : l.at < l.size \/ l.at = 0
=============================================================================
