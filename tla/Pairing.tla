------------------------------- MODULE Pairing -------------------------------
(***************************************************************************)
(* How a Connection is paired (connection.rs connect_auto,                 *)
(* connect_with_pin, connect_with_pin_pairing), by programs that run at    *)
(* the same time and share one identity file, and the pair_with_device     *)
(* tool, which reads and writes the same file.                             *)
(*                                                                         *)
(* A link is one TCP connection; its number is also the ephemeral number   *)
(* of both its ends, and the number of a key generated for it. A caller    *)
(* has one request under way, and its machines tell what it says; asked[p] *)
(* is TRUE until the accessory has read it. The accessory is external: it  *)
(* follows the protocol, but may answer any request with an error, close   *)
(* a link, forget a controller or be reset to a new identity.              *)
(***************************************************************************)
EXTENDS PairingMachines

CONSTANTS Callers,
          MaxLinks,   \* bound: links opened and identities generated
          MaxResets,  \* bound: how often the accessory gets a new identity
          Pins        \* what users may type

Pin == 1              \* what the accessory expects
Default == 1          \* "3939", which receivers with a password do not accept
Nobody == [key |-> None, id |-> "none", ltpk |-> None]

ASSUME PairingAssumption == Pin \in Pins /\ MaxLinks \in Nat /\ MaxResets \in Nat

VARIABLES
  pc, how,          \* where a caller is, and what it called
  n,                \* its link
  setup, verify,    \* its machines
  cred,             \* the controller it uses, with what it knows of the accessory
  keys,             \* the keys of its cipher
  file,             \* the identity file
  links,
  open, asked, reply, \* the link: up, request not yet read, reply not yet read
  acc,              \* the accessory's keys of this link
  known, accepted, forgotten, ident, order \* controllers it knows, ever accepted, removed; its LTPK; how it signs

ours == <<pc, how, n, setup, verify, cred, keys, file, links>>
theirs == <<acc, known, accepted, forgotten, ident, order>>
wire == <<open, asked, reply>>
vars == <<ours, theirs, wire>>

Waiting == {"info", "t2", "t4", "s2", "s4", "s6", "v2", "v4", "options"}

NoSetup == NewSetup(FALSE, Pin, 0)
NoVerify == NewVerify(None, "none")

Init ==
  /\ pc = [p \in Callers |-> "idle"] /\ how = [p \in Callers |-> "auto"] /\ n = [p \in Callers |-> 0]
  /\ setup = [p \in Callers |-> NoSetup] /\ verify = [p \in Callers |-> NoVerify]
  /\ cred = [p \in Callers |-> Nobody] /\ keys = [p \in Callers |-> <<>>]
  /\ file = Nobody /\ links = 0
  /\ open = [p \in Callers |-> FALSE] /\ asked = open /\ reply = [p \in Callers |-> Bad]
  /\ acc = [p \in Callers |-> <<>>]
  /\ known = {} /\ accepted = {} /\ forgotten = {} /\ ident = 1 /\ order \in Orders

(***************************************************************************)
(* The caller.                                                             *)
(***************************************************************************)
Ask(p, next) ==
  /\ pc' = [pc EXCEPT ![p] = next]
  /\ asked' = [asked EXCEPT ![p] = TRUE]

\* A new link, whose first request is next. Nothing of an older link is left.
Connect(p, call, next) ==
  /\ links < MaxLinks /\ links' = links + 1 /\ n' = [n EXCEPT ![p] = links']
  /\ how' = [how EXCEPT ![p] = call]
  /\ Ask(p, next)
  /\ open' = [open EXCEPT ![p] = TRUE] /\ reply' = [reply EXCEPT ![p] = Bad]
  /\ acc' = [acc EXCEPT ![p] = <<>>] /\ keys' = [keys EXCEPT ![p] = <<>>]

\* The call returns, or is dropped, with its connection and all it held.
Leave(p, where) ==
  /\ pc' = [pc EXCEPT ![p] = where]
  /\ setup' = [setup EXCEPT ![p] = NoSetup] /\ verify' = [verify EXCEPT ![p] = NoVerify]
  /\ keys' = [keys EXCEPT ![p] = <<>>] /\ n' = [n EXCEPT ![p] = 0]
  /\ open' = [open EXCEPT ![p] = FALSE] /\ asked' = [asked EXCEPT ![p] = FALSE]
  /\ reply' = [reply EXCEPT ![p] = Bad]
  /\ acc' = [acc EXCEPT ![p] = <<>>]

Begun(transient, pin, link) == SetupM1(NewSetup(transient, pin, link))
TheirsStay == UNCHANGED <<known, accepted, forgotten, ident, order>>

ConnectWithPin(p, call, pin) ==
  /\ Connect(p, call, "info")
  /\ setup' = [setup EXCEPT ![p] = Begun(TRUE, pin, links')]
  /\ verify' = [verify EXCEPT ![p] = NoVerify] /\ cred' = [cred EXCEPT ![p] = Nobody]
  /\ UNCHANGED file /\ TheirsStay

\* The same controller, under the same identifier, that was registered with M5.
\* Mutant: PairVerify::new, which derives an identifier from the key.
ToVerifyBadly(c, link) == VerifyM1(SetServerLtpk(NewVerify(c.key, "derived"), c.ltpk), link)
ToVerify(c, link) == VerifyM1(SetServerLtpk(NewVerify(c.key, c.id), c.ltpk), link)

ConnectWithPairVerify(p) ==
  /\ Connect(p, "verify", "info")
  /\ cred' = [cred EXCEPT ![p] = file]
  /\ verify' = [verify EXCEPT ![p] = ToVerify(file, links')]
  /\ UNCHANGED <<setup, file>> /\ TheirsStay

ConnectWithPinPairing(p, pin) ==
  /\ Connect(p, "pairing", "info")
  /\ cred' = [cred EXCEPT ![p] = [key |-> links', id |-> "derived", ltpk |-> None]]
  /\ setup' = [setup EXCEPT ![p] = Begun(FALSE, pin, links')]
  /\ UNCHANGED <<verify, file>> /\ TheirsStay

ConnectAuto(p) == IF file = Nobody THEN ConnectWithPin(p, "pin", Default) ELSE ConnectWithPairVerify(p)

Call(p) ==
  /\ pc[p] = "idle"
  /\ \/ ConnectAuto(p)
     \/ \E pin \in Pins : ConnectWithPin(p, "pin", pin) \/ ConnectWithPinPairing(p, pin)

\* Any error of connect_with_pair_verify has connect_auto try once more, on a new link.
Quits(p) ==
  /\ Leave(p, "idle") /\ cred' = [cred EXCEPT ![p] = Nobody] /\ how' = [how EXCEPT ![p] = "auto"]
  /\ TheirsStay /\ UNCHANGED <<file, links>>

Fails(p) ==
  CASE how[p] = "verify" /\ links < MaxLinks -> ConnectWithPin(p, "pin", Default)
    [] how[p] = "tool" -> Leave(p, "menu") /\ TheirsStay /\ UNCHANGED <<how, cred, file, links>>
    [] OTHER -> Quits(p)

Answered(p, at) == pc[p] = at /\ ~asked[p] /\ reply' = [reply EXCEPT ![p] = Bad]
Same == UNCHANGED <<how, n, links, open>> /\ UNCHANGED theirs

Info(p) ==
  /\ Answered(p, "info")
  /\ Ask(p, CASE how[p] = "pin" -> "t2" [] how[p] = "pairing" -> "s2" [] OTHER -> "v2")
  /\ Same /\ UNCHANGED <<setup, verify, cred, keys, file>>

\* M2 was good: M3 goes out.
Setup2(p, m, next) ==
  /\ m.state = "M2Received"
  /\ setup' = [setup EXCEPT ![p] = SetupM3(m)] /\ Ask(p, next)
  /\ Same /\ UNCHANGED <<verify, cred, keys, file>>

Cipher(p, secret) == keys' = [keys EXCEPT ![p] = secret] /\ Ask(p, "options")

Transient4(p, m) ==
  /\ m.state = "M4Received"
  /\ setup' = [setup EXCEPT ![p] = SetupDone(m)] /\ Cipher(p, m.secret)
  /\ Same /\ UNCHANGED <<verify, cred, file>>

\* Mutant: the identity is saved as soon as the PIN was right.
Setup4Badly(p, m) ==
  /\ m.state = "M4Received"
  /\ setup' = [setup EXCEPT ![p] = SetupM5(m)] /\ Ask(p, "s6")
  /\ file' = [cred[p] EXCEPT !.ltpk = ident]
  /\ Same /\ UNCHANGED <<verify, cred, keys>>
Setup4(p, m) ==
  /\ m.state = "M4Received"
  /\ setup' = [setup EXCEPT ![p] = SetupM5(m)] /\ Ask(p, "s6")
  /\ Same /\ UNCHANGED <<verify, cred, keys, file>>

\* The identity is saved, as far as the disk lets it; the client goes on to pair-verify,
\* the tool goes back to its menu.
Setup6(p, m) ==
  LET c == [cred[p] EXCEPT !.ltpk = m.ltpk] IN
  /\ m.state = "Complete"
  /\ cred' = [cred EXCEPT ![p] = c] /\ file' \in {file, c}
  /\ IF how[p] = "tool"
     THEN Leave(p, "menu") /\ TheirsStay /\ UNCHANGED <<how, links>>
     ELSE /\ setup' = [setup EXCEPT ![p] = m] /\ verify' = [verify EXCEPT ![p] = ToVerify(c, n[p])]
          /\ Ask(p, "v2") /\ Same /\ UNCHANGED keys

Verify2(p, m) ==
  /\ m.state = "M2Received"
  /\ verify' = [verify EXCEPT ![p] = VerifyM3(m)] /\ Ask(p, "v4")
  /\ Same /\ UNCHANGED <<setup, cred, keys, file>>

Verify4(p, m) ==
  /\ m.state = "Complete"
  /\ verify' = [verify EXCEPT ![p] = m] /\ Cipher(p, m.secret)
  /\ Same /\ UNCHANGED <<setup, cred, file>>

SetupReply(p) ==
  LET s == setup[p]  r == reply[p] IN
  \/ Answered(p, "t2") /\ Setup2(p, SetupM2(s, r), "t4")
  \/ Answered(p, "s2") /\ Setup2(p, SetupM2(s, r), "s4")
  \/ Answered(p, "t4") /\ Transient4(p, SetupM4(s, r))
  \/ Answered(p, "s4") /\ Setup4(p, SetupM4(s, r))
  \/ pc[p] = "s6" /\ ~asked[p] /\ (how[p] # "tool" => reply' = [reply EXCEPT ![p] = Bad]) /\ Setup6(p, SetupM6(s, r))

VerifyReply(p) ==
  LET v == verify[p]  r == reply[p] IN
  \/ Answered(p, "v2") /\ Verify2(p, VerifyM2(v, r))
  \/ Answered(p, "v4") /\ Verify4(p, VerifyM4(v, r))

\* What every machine makes of a reply that it cannot use.
Refuses(p) ==
  LET s == setup[p]  v == verify[p]  r == reply[p] IN
  CASE pc[p] \in {"t2", "s2"} -> SetupM2(s, r).state = "Failed"
    [] pc[p] \in {"t4", "s4"} -> SetupM4(s, r).state = "Failed"
    [] pc[p] = "s6" -> SetupM6(s, r).state = "Failed"
    [] pc[p] = "v2" -> VerifyM2(v, r).state = "Failed"
    [] pc[p] = "v4" -> VerifyM4(v, r).state = "Failed"
    [] OTHER -> FALSE

Refused(p) == pc[p] \in Waiting /\ ~asked[p] /\ Refuses(p) /\ Fails(p)

Paired(p) ==
  /\ pc' = [pc EXCEPT ![p] = "paired"] /\ asked' = [asked EXCEPT ![p] = FALSE]
  /\ reply' = [reply EXCEPT ![p] = Bad]
  /\ setup' = [setup EXCEPT ![p] = NoSetup] /\ verify' = [verify EXCEPT ![p] = NoVerify]
  /\ cred' = [cred EXCEPT ![p] = Nobody] /\ how' = [how EXCEPT ![p] = "auto"]
  /\ n' = [n EXCEPT ![p] = 0]
  /\ UNCHANGED <<keys, links, open, file>> /\ UNCHANGED theirs

\* The outcome of the first encrypted request is logged and nothing else. The tool
\* has finished here, and drops the connection.
Options(p) ==
  /\ pc[p] = "options" /\ ~asked[p]
  /\ IF how[p] = "tool" THEN Leave(p, "menu") /\ TheirsStay /\ UNCHANGED <<how, cred, links, file>>
     ELSE Paired(p)

OptionsFails(p) == pc[p] = "options" /\ ~open[p] /\ how[p] # "tool" /\ Paired(p)

\* The link went down and the caller notices,
LinkFails(p) == pc[p] \in Waiting \ {"options"} /\ ~open[p] /\ Fails(p)

\* or it never does, and whoever called gives up; or the program is killed, or disconnects.
GiveUp(p) == pc[p] # "idle" /\ Quits(p)

(***************************************************************************)
(* The tool. It makes an identity, and saves it, before any pairing; the   *)
(* one in memory is what it uses and saves again, whatever became of the   *)
(* file since.                                                             *)
(***************************************************************************)
ToolStart(p) ==
  /\ pc[p] = "idle" /\ pc' = [pc EXCEPT ![p] = "menu"] /\ how' = [how EXCEPT ![p] = "tool"]
  /\ IF file # Nobody
     THEN cred' = [cred EXCEPT ![p] = file] /\ UNCHANGED <<file, links>>
     ELSE /\ links < MaxLinks /\ links' = links + 1
          /\ file' = [key |-> links', id |-> "random", ltpk |-> None]
          /\ cred' = [cred EXCEPT ![p] = file']
  /\ UNCHANGED <<n, setup, verify, keys, theirs, wire>>

ToolSetup(p, transient, pin) ==
  /\ pc[p] = "menu" /\ Connect(p, "tool", IF transient THEN "t2" ELSE "s2")
  /\ setup' = [setup EXCEPT ![p] = Begun(transient, pin, links')]
  /\ UNCHANGED <<verify, cred, file>> /\ TheirsStay

\* Without a stored LTPK the tool asks the accessory for it.
ToolVerify(p) ==
  /\ pc[p] = "menu" /\ Connect(p, "tool", "v2")
  /\ \E k \in IF cred[p].ltpk # None THEN {cred[p].ltpk} ELSE {None, ident} :
       verify' = [verify EXCEPT ![p] = ToVerify([cred[p] EXCEPT !.ltpk = k], links')]
  /\ UNCHANGED <<setup, cred, file>> /\ TheirsStay

Tool(p) ==
  \/ ToolStart(p)
  \/ \E pin \in Pins, t \in BOOLEAN : ToolSetup(p, t, pin)
  \/ ToolVerify(p)

(***************************************************************************)
(* The accessory.                                                          *)
(***************************************************************************)
Controller(p) == [key |-> cred[p].key, id |-> cred[p].id]
SameSecret(p) == setup[p].secret = <<n[p], n[p], Pin>>

\* M3 of pair-verify names a controller it knows, signed as it signs, about this exchange.
Acceptable(p) ==
  /\ [key |-> verify[p].key, id |-> verify[p].id] \in known
  /\ verify[p].order = order /\ verify[p].secret = <<n[p], n[p]>>

Says(p, r) ==
  /\ open[p] /\ asked[p]
  /\ asked' = [asked EXCEPT ![p] = FALSE] /\ reply' = [reply EXCEPT ![p] = r]
  /\ UNCHANGED <<open, forgotten, ident, order>> /\ UNCHANGED ours

Encrypts(p, secret) == acc' = [acc EXCEPT ![p] = secret]

Answer(p) ==
  \/ Says(p, Bad) /\ UNCHANGED <<acc, known, accepted>>
  \/ /\ pc[p] \in {"t2", "s2", "v2"} /\ UNCHANGED <<acc, known, accepted>>
     /\ \E k \in IF pc[p] = "v2" THEN {None, ident} ELSE {None} :
          Says(p, [step |-> 2, eph |-> n[p], ltpk |-> k, signer |-> ident, order |-> order])
  \/ /\ pc[p] = "t4" /\ SameSecret(p) /\ Encrypts(p, setup[p].secret)
     /\ Says(p, [step |-> 4, proof |-> setup[p].secret]) /\ UNCHANGED <<known, accepted>>
  \/ /\ pc[p] = "s4" /\ SameSecret(p) /\ Says(p, [step |-> 4, proof |-> setup[p].secret])
     /\ UNCHANGED <<acc, known, accepted>>
  \/ /\ pc[p] = "s6" /\ known' = known \cup {Controller(p)}
     /\ accepted' = accepted \cup {[cred[p] EXCEPT !.ltpk = ident]}
     /\ Says(p, [step |-> 6, proof |-> setup[p].secret, ltpk |-> ident]) /\ UNCHANGED acc
  \/ /\ pc[p] = "v4" /\ Acceptable(p) /\ Encrypts(p, verify[p].secret)
     /\ Says(p, [step |-> 4]) /\ UNCHANGED <<known, accepted>>

\* The link goes down: while an answer is awaited or afterwards, since a caller that has
\* its answer does not look at the link before it sends again.
Close(p) ==
  /\ open[p] /\ (asked[p] \/ pc[p] = "paired")
  /\ open' = [open EXCEPT ![p] = FALSE] /\ acc' = [acc EXCEPT ![p] = <<>>]
  /\ UNCHANGED <<asked, reply, known, accepted, forgotten, ident, order>> /\ UNCHANGED ours

Forget(c) ==
  /\ known' = known \ {c} /\ forgotten' = forgotten \cup {c}
  /\ UNCHANGED <<acc, accepted, ident, order, ours, wire>>

\* Before it accepted anybody its identity is known on open links only, which a reset ends.
FactoryReset ==
  /\ accepted # {} /\ ident <= MaxResets /\ ident' = ident + 1 /\ known' = {}
  /\ open' = [p \in Callers |-> FALSE] /\ acc' = [p \in Callers |-> <<>>]
  /\ UNCHANGED <<asked, reply, accepted, forgotten, order, ours>>

Next ==
  \/ \E p \in Callers :
       \/ Call(p) \/ Info(p) \/ SetupReply(p) \/ VerifyReply(p) \/ Refused(p)
       \/ Options(p) \/ OptionsFails(p) \/ LinkFails(p) \/ GiveUp(p) \/ Tool(p)
       \/ Answer(p) \/ Close(p)
  \/ \E c \in known : Forget(c)
  \/ FactoryReset

ConnectTypeOK ==
  /\ \A p \in Callers :
       /\ pc[p] \in Waiting \cup {"idle", "menu", "paired"}
       /\ setup[p].state \in SetupStates /\ verify[p].state \in VerifyStates
       /\ asked[p] => pc[p] \in Waiting
       /\ pc[p] \in {"t2", "s2"} => setup[p].state = "M1Sent"
       /\ pc[p] \in {"t4", "s4"} => setup[p].state = "M3Sent"
       /\ pc[p] = "v4" => verify[p].state = "M3Sent"
  /\ file = Nobody \/ file.key \in 1..MaxLinks
  /\ links \in 0..MaxLinks /\ ident \in 1..(MaxResets + 1)

\* A connection handed to its caller talks to a receiver that uses the same keys, unless
\* the receiver is gone: no path through connection.rs ends with a cipher only one side has.
PairedIsMutual ==
  \A p \in Callers : pc[p] = "paired" /\ open[p] => keys[p] # <<>> /\ acc[p] = keys[p]

\* An identity file with an accessory's key in it is of a controller which that accessory
\* accepted under that key, whichever program wrote it, and however many wrote it at the same
\* time. Of a file without a key nothing is claimed: the tool writes one before it pairs
\* (pair_with_device.rs:125), and connect_auto starts from it as from any other
\* (connection.rs:366), to fall back to transient pairing when it is refused.
SavedIsAccepted == file.ltpk # None => file \in accepted

\* Who paired is recognised: a controller that knows the accessory's present key, and was
\* not removed there, sends an M3 which the accessory accepts, with the identifier it has
\* registered and in the signature order it uses.
PairedAreRecognised ==
  \A p \in Callers :
    /\ pc[p] = "v4" /\ asked[p] /\ open[p]
    /\ cred[p].ltpk = ident /\ Controller(p) \notin forgotten
    => Acceptable(p)
=============================================================================
