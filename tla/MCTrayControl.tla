--------------------------- MODULE MCTrayControl ----------------------------
(* Constants of the TLC runs of TrayControl. *)
EXTENDS TrayControl

CONSTANTS d1, d2

Rec(d, raop, valid, airplay2, addresses) ==
  [id |-> d, raop |-> raop, valid |-> valid, airplay2 |-> airplay2, addresses |-> addresses]

\* d1 advertises both services, its RAOP record without features and its addresses one
\* after the other; d2 only AirPlay.
MCRecords ==
  {Rec(d1, FALSE, TRUE, TRUE, {"v6"}), Rec(d1, FALSE, TRUE, TRUE, {"v4"}),
   Rec(d1, TRUE, TRUE, FALSE, {"v4"}), Rec(d2, FALSE, TRUE, TRUE, {"v4"})}
MCDevice == {d1, d2}
MCHomePods == {d1}
MCFiles == {[volume |-> 1, ms |-> 200, output |-> "default"]}
MCModes == {[preset |-> TRUE, ms |-> 200], [preset |-> FALSE, ms |-> 200]}
=============================================================================
