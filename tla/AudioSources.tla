---------------------------- MODULE AudioSources ----------------------------
(***************************************************************************)
(* Live sound, for one run: a single capture from inside (LiveFeed), the   *)
(* application that starts and stops captures (CaptureSources), or the     *)
(* screen on which a phone to capture is found and connected               *)
(* (BluetoothPanel).  They share no state: `side` says which of them a     *)
(* behaviour is about, and the others stand still.                         *)
(***************************************************************************)
EXTENDS LiveFeed, CaptureSources, BluetoothPanel

VARIABLE side

vars == <<feedVars, appVars, panelVars, side>>

\* Of a side that stands still one initial state is enough.
Init ==
  /\ FeedInit /\ AppInit /\ PanelInit /\ side \in {"feed", "app", "panel"}
  /\ side # "feed" => kind = "usb" /\ ~converts

Next ==
  /\ UNCHANGED side
  /\ \/ side = "feed" /\ FeedNext /\ UNCHANGED <<appVars, panelVars>>
     \/ side = "app" /\ AppNext /\ UNCHANGED <<feedVars, panelVars>>
     \/ side = "panel" /\ PanelNext /\ UNCHANGED <<feedVars, appVars>>

Spec == Init /\ [][Next]_vars
FairSpec == Spec /\ AppFairness /\ PanelFairness
=============================================================================
