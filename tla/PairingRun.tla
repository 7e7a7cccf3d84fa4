----------------------------- MODULE PairingRun -----------------------------
(***************************************************************************)
(* Pairing as the client does it (Pairing), as other programs may use its  *)
(* library (PairingApi: a PairingSession, or a machine of their own), and  *)
(* as the pair_with_device program does it, request by request (PairTool). *)
(***************************************************************************)
EXTENDS Pairing

CONSTANTS MaxTries, MaxParts

ASSUME RunAssumption == {MaxTries, MaxParts} \subseteq Nat

VARIABLES use, stage, machine, taken, pv, tries, exchange,
          at, once, homekit, step, drive, memory, disk, waiting, due, verdict, left, line, got,
          sealed, opened, heard, cut, host, knows

Api == INSTANCE PairingApi WITH keys <- taken
Menu == INSTANCE PairTool

session == <<stage, machine, taken>>
alone == <<pv, tries, exchange>>
menu == <<at, once, homekit, step, drive, memory, disk, waiting, due, verdict, left, line, got,
          sealed, opened, heard, cut, host, knows>>
allVars == <<vars, session, alone, menu, use>>

RunInit == Init /\ Api!ApiInit /\ Menu!ToolInit /\ use \in {"client", "session", "machine", "tool"}

RunNext ==
  /\ \/ use = "client" /\ Next /\ UNCHANGED <<session, alone, menu>>
     \/ use = "session" /\ (Api!Session \/ Api!TakeKeys) /\ UNCHANGED <<vars, menu>>
     \/ use = "machine" /\ (Api!Verify \/ Api!Exchange) /\ UNCHANGED <<vars, menu>>
     \/ use = "tool" /\ Menu!MenuNext /\ UNCHANGED <<vars, session, alone>>
  /\ UNCHANGED use

RunSpec == RunInit /\ [][RunNext]_allVars

\* The stage of a PairingSession and the machine behind it never drift apart.
StagesAgree == Api!StagesAgree

\* The tool goes on with the answers to its own requests only.
AnswersAreItsOwn == Menu!AnswersAreItsOwn
=============================================================================
