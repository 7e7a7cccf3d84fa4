---------------------------- MODULE SenderSetup ----------------------------
(***************************************************************************)
(* A program sends to AirPlay 2 receivers through AirPlayClient            *)
(* (ClientSetup) or to one AirPlay 1 receiver through a RaopConnection;    *)
(* path says which.                                                        *)
(***************************************************************************)
EXTENDS ClientSetup

CONSTANTS MaxSteps, Trouble

VARIABLES path, await, state, password, opened, server, orphans, control, told, strm, starts, steps

R == INSTANCE RaopConnection

ASSUME SenderAssumption == R!RaopAssumption

raopOnly == <<await, state, password, opened, server, orphans, control, told, strm, starts, steps>>
allVars == <<vars, raopOnly, path>>

SenderInit ==
  /\ Init /\ R!RaopInit
  /\ \/ path = "AirPlay2" /\ ~password
     \/ path = "Raop" /\ protocol = "ntp"

SenderNext ==
  /\ \/ path = "AirPlay2" /\ Next /\ UNCHANGED raopOnly
     \/ path = "Raop" /\ R!RaopNext /\ UNCHANGED vars
  /\ UNCHANGED path

SenderSpec == SenderInit /\ [][SenderNext]_allVars

TypeOK == SetupTypeOK /\ R!RaopTypeOK /\ path \in {"AirPlay2", "Raop"}

\* The receiver of an AirPlay 1 stream is served on the ports it was told of.
RaopIsServed == R!RaopIsServed
=============================================================================
