----------------------------- MODULE PairingApi -----------------------------
(***************************************************************************)
(* airplay-pairing as a library: a program calls a PairingSession, a       *)
(* PairVerify of its own and the deprecated TransientPairSetup in any      *)
(* order, with whatever an accessory, or nobody, answered.                 *)
(***************************************************************************)
EXTENDS PairingMachines

CONSTANT MaxTries  \* how often PairVerify::reset is called

VARIABLES stage,    \* PairingSession: the stage of each of its protocols
          machine,  \* and the machine each one drives
          keys,     \* session_keys, <<>> when there are none or they were taken
          pv, tries, exchange

apiVars == <<stage, machine, keys, pv, tries, exchange>>

Protocols == {"setup", "transient", "verify", "fairplay"}
Stages == {"NotStarted", "WaitingM2", "WaitingM4", "WaitingM6", "Complete"}
Pin == 1
Server == 1

ApiInit ==
  /\ stage = [p \in Protocols |-> "NotStarted"]
  /\ machine = [p \in Protocols |->
       CASE p = "setup" -> NewSetup(FALSE, Pin, 1)
         [] p = "transient" -> NewSetup(TRUE, Pin, 2)
         [] p = "verify" -> NewVerify(1, "derived")
         [] p = "fairplay" -> NewFairPlay]
  /\ keys = <<>>
  /\ pv = NewVerify(1, "random") /\ tries = 0
  /\ exchange = NewExchange

\* What the program may pass to a call: a reply meant for the machine, one that proves
\* something else, or one nobody can read.
Replies(m) ==
  {Bad, [step |-> 8]}
    \cup {[step |-> 2, eph |-> 7, ltpk |-> k, signer |-> Server, order |-> o] : k \in {None, Server}, o \in Orders}
    \cup {[step |-> s, proof |-> p, ltpk |-> Server] : s \in {4, 6}, p \in {<<>>, m}}

Secret(p) == IF p = "fairplay" THEN <<>> ELSE machine[p].secret

Started(p) ==
  CASE p \in {"setup", "transient"} -> SetupM1(machine[p])
    [] p = "verify" -> VerifyM1(machine[p], 3)
    [] p = "fairplay" -> Phase1(machine[p])

Start(p) ==
  /\ stage[p] = "NotStarted"
  /\ machine' = [machine EXCEPT ![p] = Started(p)]
  /\ stage' = [stage EXCEPT ![p] = "WaitingM2"]
  /\ UNCHANGED keys

\* The reply is processed first: when it is refused the error is returned and the stage stays.
\* Mutant: the stage moves on before the reply is looked at.
TakeBadly(p, read, good, sent, next) ==
  /\ machine' = [machine EXCEPT ![p] = IF read.state = good THEN sent ELSE read]
  /\ stage' = [stage EXCEPT ![p] = next]
  /\ keys' = IF read.state = good /\ next = "Complete" /\ p \in {"transient", "verify"}
             THEN sent.secret ELSE keys
Take(p, read, good, sent, next) ==
  /\ machine' = [machine EXCEPT ![p] = IF read.state = good THEN sent ELSE read]
  /\ stage' = IF read.state = good THEN [stage EXCEPT ![p] = next] ELSE stage
  /\ keys' = IF read.state = good /\ next = "Complete" /\ p \in {"transient", "verify"}
             THEN sent.secret ELSE keys

ContinueSetup(r) ==
  LET m == machine["setup"] IN
  \/ stage["setup"] = "WaitingM2" /\ Take("setup", SetupM2(m, r), "M2Received", SetupM3(SetupM2(m, r)), "WaitingM4")
  \/ stage["setup"] = "WaitingM4" /\ Take("setup", SetupM4(m, r), "M4Received", SetupM5(SetupM4(m, r)), "WaitingM6")
  \/ stage["setup"] = "WaitingM6" /\ Take("setup", SetupM6(m, r), "Complete", SetupM6(m, r), "Complete")

ContinueTransient(r) ==
  LET m == machine["transient"] IN
  \/ stage["transient"] = "WaitingM2"
     /\ Take("transient", SetupM2(m, r), "M2Received", SetupM3(SetupM2(m, r)), "WaitingM4")
  \/ stage["transient"] = "WaitingM4"
     /\ Take("transient", SetupM4(m, r), "M4Received", SetupDone(SetupM4(m, r)), "Complete")

ContinueVerify(r) ==
  LET m == machine["verify"] IN
  \/ stage["verify"] = "WaitingM2" /\ Take("verify", VerifyM2(m, r), "M2Received", VerifyM3(VerifyM2(m, r)), "WaitingM4")
  \/ stage["verify"] = "WaitingM4" /\ Take("verify", VerifyM4(m, r), "Complete", VerifyM4(m, r), "Complete")

ContinueFairPlay(r) ==
  LET m == machine["fairplay"] IN
  \/ stage["fairplay"] = "WaitingM2"
     /\ Take("fairplay", Phase1Reply(m, r), "Phase1Complete", Phase3(Phase1Reply(m, r)), "WaitingM4")
  \/ stage["fairplay"] = "WaitingM4" /\ Take("fairplay", Phase3Reply(m, r), "Complete", Phase3Reply(m, r), "Complete")

Session ==
  /\ \/ \E p \in Protocols : Start(p)
     \/ \E r \in Replies(Secret("setup")) : ContinueSetup(r)
     \/ \E r \in Replies(Secret("transient")) : ContinueTransient(r)
     \/ \E r \in Replies(Secret("verify")) : ContinueVerify(r)
     \/ \E r \in Replies(<<>>) : ContinueFairPlay(r)
  /\ UNCHANGED <<pv, tries, exchange>>

TakeKeys == keys # <<>> /\ keys' = <<>> /\ UNCHANGED <<stage, machine, pv, tries, exchange>>

\* The machine on its own, with no stage to guard it.
Verify ==
  /\ \/ pv' \in {VerifyM1(pv, tries + 1), VerifyM1Transient(pv, tries + 1), VerifyM3(pv), VerifyM3Transient(pv),
                 SetServerLtpk(pv, Server)}
        /\ UNCHANGED tries
     \/ \E r \in Replies(pv.secret) :
          /\ pv' \in {VerifyM2(pv, r), VerifyM2Transient(pv, r), VerifyM4(pv, r), VerifyM4Transient(pv, r)}
          /\ UNCHANGED tries
     \/ tries < MaxTries /\ tries' = tries + 1 /\ pv' = Reset(pv)
  /\ UNCHANGED <<stage, machine, keys, exchange>>

Exchange ==
  /\ \/ exchange' = ExchangeM1(exchange)
     \/ \E r \in Replies(<<>>) : exchange' = ExchangeM2(exchange, r)
  /\ UNCHANGED <<stage, machine, keys, pv, tries>>

ApiNext == Session \/ TakeKeys \/ Verify \/ Exchange

ApiTypeOK ==
  /\ stage \in [Protocols -> Stages]
  /\ \A p \in {"setup", "transient"} : machine[p].state \in SetupStates
  /\ \A v \in {machine["verify"], pv} : v.state \in VerifyStates /\ v.order \in Orders
  /\ machine["fairplay"].state \in FairPlayStates
  /\ exchange.state \in {"Initial", "M1Sent", "Complete", "Failed"}
  /\ tries \in 0..MaxTries

Behind(p) ==
  CASE stage[p] = "NotStarted" -> {"Initial"}
    [] stage[p] = "WaitingM2" -> {"M1Sent", "Phase1Sent", "Failed"}
    [] stage[p] = "WaitingM4" -> {"M3Sent", "Phase3Sent", "Failed"}
    [] stage[p] = "WaitingM6" -> {"M5Sent", "Failed"}
    [] stage[p] = "Complete" -> {"Complete"}

\* The session's stage and the machine behind it never drift apart: a session that waits
\* for a message has a machine that either waits for the same one or has failed for good,
\* a complete one has a complete machine, and keys come only from a complete exchange
\* (session.rs advances its stage by hand, pair_setup.rs and pair_verify.rs their own).
StagesAgree ==
  /\ \A p \in Protocols : machine[p].state \in Behind(p)
  /\ keys # <<>> => \E p \in {"transient", "verify"} :
                      /\ stage[p] = "Complete"
                      /\ keys = machine[p].secret
=============================================================================
