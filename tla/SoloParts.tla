----------------------------- MODULE SoloParts -----------------------------
(***************************************************************************)
(* Parts that work by themselves, for one run: the ring of packets one     *)
(* connection's sender keeps (PacketHistory), a group's senders with their *)
(* packets and listeners (GroupWire), a file on its way to the encoder     *)
(* (FileFeed), the lists on the player's screens (ScreenLists), the        *)
(* Bluetooth crate's calls and its source (BluetoothLibrary,               *)
(* BluetoothSource), and the clock of the sender's thread (SenderPacing).  *)
(* They share no state: `part` says which of them a behaviour is about,    *)
(* and the others stand still.                                             *)
(***************************************************************************)
EXTENDS PacketHistory, GroupWire, FileFeed, ScreenLists, BluetoothLibrary, BluetoothSource,
        SenderPacing

VARIABLE part

vars == <<historyVars, wireVars, fileVars, listVars, libraryVars, sourceSideVars, pacingVars,
          part>>

\* Of a part that stands still one initial state is enough.
Init ==
  /\ HistoryInit /\ WireInit /\ FileInit /\ ListInit /\ LibraryInit /\ SourceInit /\ PacingInit
  /\ part \in {"history", "group", "file", "lists", "library", "source", "pacing"}
  /\ part # "lists" => browser.size = 0
  /\ part # "file" => ~otherRate
  /\ part # "library" => services = AllRunning /\ modes = {} /\ Known = {}

Next ==
  /\ UNCHANGED part
  /\ \/ part = "history" /\ HistoryNext
          /\ UNCHANGED <<wireVars, fileVars, listVars, libraryVars, sourceSideVars, pacingVars>>
     \/ part = "group" /\ WireNext
          /\ UNCHANGED <<historyVars, fileVars, listVars, libraryVars, sourceSideVars, pacingVars>>
     \/ part = "file" /\ FileNext
          /\ UNCHANGED <<historyVars, wireVars, listVars, libraryVars, sourceSideVars, pacingVars>>
     \/ part = "lists" /\ ListNext
          /\ UNCHANGED <<historyVars, wireVars, fileVars, libraryVars, sourceSideVars, pacingVars>>
     \/ part = "library" /\ LibraryNext
          /\ UNCHANGED <<historyVars, wireVars, fileVars, listVars, sourceSideVars, pacingVars>>
     \/ part = "source" /\ SourceNext
          /\ UNCHANGED <<historyVars, wireVars, fileVars, listVars, libraryVars, pacingVars>>
     \/ part = "pacing" /\ PacingNext
          /\ UNCHANGED <<historyVars, wireVars, fileVars, listVars, libraryVars, sourceSideVars>>

Spec == Init /\ [][Next]_vars

-----------------------------------------------------------------------------
\* A call of the Bluetooth crate that says Ok is as good as its word, and its source's
\* frames are the running capture's, in their order and in its time.
BluetoothIsMeant == OkIsMeant /\ SourceKeepsTime
=============================================================================
