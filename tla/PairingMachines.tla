-------------------------- MODULE PairingMachines --------------------------
(***************************************************************************)
(* The message machines of airplay-pairing, as operators on records: each  *)
(* call takes a machine and, where it reads one, a reply, and gives the    *)
(* machine it leaves behind. A call succeeded when the machine reached the *)
(* state the caller asked for.                                             *)
(*                                                                         *)
(* What is sent is abstracted to what the other side can tell: a reply has *)
(* a step (2, 4 or 6; 0 for an error, a wrong state or a reply that cannot *)
(* be read), the ephemeral number of its sender, what it proves and who    *)
(* signed it. Secrets are the tuples of numbers that went into them, so    *)
(* two secrets are equal when both sides used the same numbers.            *)
(***************************************************************************)
EXTENDS Naturals

CONSTANTS Orders,       \* orders in which a pair-verify signature may be built
          DefaultOrder  \* the one assumed until another was verified

ASSUME OrdersAssumption == DefaultOrder \in Orders

None == 0
Bad == [step |-> 0]
Fail(m) == [m EXCEPT !.state = "Failed"]

SetupStates == {"Initial", "M1Sent", "M2Received", "M3Sent", "M4Received", "M5Sent", "Complete", "Failed"}

NewSetup(transient, pin, eph) ==
  [state |-> "Initial", transient |-> transient, pin |-> pin, eph |-> eph, secret |-> <<>>, ltpk |-> None]

SetupM1(s) == IF s.state = "Initial" THEN [s EXCEPT !.state = "M1Sent"] ELSE Fail(s)

\* The SRP proof is computed here, from the PIN the caller gave.
SetupM2(s, r) ==
  IF s.state = "M1Sent" /\ r.step = 2
  THEN [s EXCEPT !.state = "M2Received", !.secret = <<s.eph, r.eph, s.pin>>]
  ELSE Fail(s)

SetupM3(s) == IF s.state = "M2Received" THEN [s EXCEPT !.state = "M3Sent"] ELSE Fail(s)

\* Mutant: the proof of the accessory is not compared.
SetupM4Badly(s, r) == IF s.state = "M3Sent" THEN [s EXCEPT !.state = "M4Received"] ELSE Fail(s)
SetupM4(s, r) ==
  IF s.state = "M3Sent" /\ r.step = 4 /\ r.proof = s.secret
  THEN [s EXCEPT !.state = "M4Received"] ELSE Fail(s)

\* A normal setup refuses to end after M4, and stays where it is.
SetupDone(s) ==
  IF s.state # "M4Received" THEN Fail(s)
  ELSE IF s.transient THEN [s EXCEPT !.state = "Complete"] ELSE s

SetupM5(s) == IF s.state = "M4Received" THEN [s EXCEPT !.state = "M5Sent"] ELSE Fail(s)

SetupM6(s, r) ==
  IF s.state = "M5Sent" /\ r.step = 6 /\ r.proof = s.secret
  THEN [s EXCEPT !.state = "Complete", !.ltpk = r.ltpk] ELSE Fail(s)

(***************************************************************************)
(* Pair-verify. A call in the wrong state is an error that changes nothing.*)
(***************************************************************************)
VerifyStates == {"Initial", "M1Sent", "M2Received", "M3Sent", "Complete", "Failed"}

NewVerify(key, id) ==
  [state |-> "Initial", key |-> key, id |-> id, eph |-> None, own |-> FALSE, secret |-> <<>>,
   ltpk |-> None, order |-> DefaultOrder]

SetServerLtpk(v, ltpk) == [v EXCEPT !.ltpk = ltpk]

VerifyM1(v, eph) ==
  IF v.state = "Initial" THEN [v EXCEPT !.state = "M1Sent", !.eph = eph, !.own = TRUE] ELSE v

\* The other formats of M1: raw, raw with the flags first, without flags, signed, or as TLV8.
VerifyM1Transient(v, eph) == VerifyM1(v, eph)

\* The server's key and the signature order are kept for the next attempt.
Reset(v) == [v EXCEPT !.state = "Initial", !.eph = None, !.own = FALSE, !.secret = <<>>]

Agreed(v, r) == [v EXCEPT !.own = FALSE, !.secret = <<v.eph, r.eph>>]

\* The key that came with M2 counts before the one known; without either nothing is verified.
KeyFor(v, r) == IF r.ltpk # None THEN r.ltpk ELSE v.ltpk

LearnOrder(v, r) ==
  CASE KeyFor(v, r) = None -> [v EXCEPT !.state = "M2Received"]
    [] KeyFor(v, r) = r.signer -> [v EXCEPT !.state = "M2Received", !.order = r.order]
    [] OTHER -> Fail(v)

VerifyM2(v, r) ==
  CASE v.state # "M1Sent" -> v
    [] v.state = "M1Sent" /\ r.step = 2 /\ v.own -> LearnOrder(Agreed(v, r), r)
    [] OTHER -> Fail(v)

\* The raw form always checks the signature, in the default order, and needs a key to do so.
VerifyM2Transient(v, r) ==
  CASE v.state # "M1Sent" -> v
    [] v.state = "M1Sent" /\ r.step = 2 /\ v.own ->
         IF KeyFor(v, r) = r.signer /\ r.order = DefaultOrder
         THEN [Agreed(v, r) EXCEPT !.state = "M2Received"] ELSE Fail(Agreed(v, r))
    [] OTHER -> Fail(v)

VerifyM3(v) == IF v.state = "M2Received" THEN [v EXCEPT !.state = "M3Sent"] ELSE v
VerifyM3Transient(v) == VerifyM3(v)

VerifyM4(v, r) ==
  CASE v.state # "M3Sent" -> v
    [] v.state = "M3Sent" /\ r.step = 4 -> [v EXCEPT !.state = "Complete"]
    [] OTHER -> Fail(v)

\* A short reply that does not look like an error counts as M4.
VerifyM4Transient(v, r) ==
  CASE v.state # "M3Sent" -> v
    [] v.state = "M3Sent" /\ r.step \in {4, 8} -> [v EXCEPT !.state = "Complete"]
    [] OTHER -> Fail(v)

(***************************************************************************)
(* FairPlay and the deprecated exchange of Ed25519 keys. Nothing but the   *)
(* length and the header of a FairPlay reply is looked at.                 *)
(***************************************************************************)
NewFairPlay == [state |-> "Initial"]
Phase1(f) == IF f.state = "Initial" THEN [f EXCEPT !.state = "Phase1Sent"] ELSE Fail(f)
Phase1Reply(f, r) == IF f.state = "Phase1Sent" /\ r.step = 2 THEN [f EXCEPT !.state = "Phase1Complete"] ELSE Fail(f)
Phase3(f) == IF f.state = "Phase1Complete" THEN [f EXCEPT !.state = "Phase3Sent"] ELSE Fail(f)
Phase3Reply(f, r) == IF f.state = "Phase3Sent" /\ r.step = 4 THEN [f EXCEPT !.state = "Complete"] ELSE Fail(f)
FairPlayStates == {"Initial", "Phase1Sent", "Phase1Complete", "Phase3Sent", "Complete", "Failed"}

NewExchange == [state |-> "Initial"]
ExchangeM1(t) == IF t.state = "Initial" THEN [t EXCEPT !.state = "M1Sent"] ELSE Fail(t)
\* The reply may be a TLV8, with its state or without, or a bare key.
ExchangeM2(t, r) == IF t.state = "M1Sent" /\ r.step = 2 THEN [t EXCEPT !.state = "Complete"] ELSE Fail(t)
=============================================================================
