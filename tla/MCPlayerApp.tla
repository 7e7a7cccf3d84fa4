---------------------------- MODULE MCPlayerApp ----------------------------
(* Constants of the TLC runs of PlayerApp. *)
EXTENDS PlayerApp
=============================================================================
