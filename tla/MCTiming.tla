------------------------------ MODULE MCTiming ------------------------------
EXTENDS Timing, TLC

MCSkew == (Master :> -2) @@ (Other :> 3)
MCMaxSyncs == (Master :> 2) @@ (Other :> 1)
=============================================================================
