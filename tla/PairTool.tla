------------------------------ MODULE PairTool ------------------------------
(***************************************************************************)
(* The pair_with_device program: a menu of pairing methods, each a script  *)
(* of requests on a TCP connection of its own, most of them plain HTTP or  *)
(* RTSP, the last two sealed with the keys the method produced.            *)
(*                                                                         *)
(* An answer crosses the connection in parts. A plaintext answer is read   *)
(* by a reader of its own that takes whatever has arrived and is dropped   *)
(* afterwards; a sealed one is read frame by frame. Both read on until the *)
(* body is as long as the headers say, and both take the headers for the   *)
(* whole answer when they find no length there: the rest comes later. The  *)
(* receiver is external: it answers one request after the other, with its  *)
(* headers in the first part, and may refuse any, stay silent, skip a      *)
(* frame number or answer in plaintext.                                    *)
(***************************************************************************)
EXTENDS PairingMachines, Sequences

CONSTANTS Pins,       \* what the user may type
          MaxParts,   \* bound: parts of an answer
          MaxResets   \* bound: how often the receiver gets a new identity

VARIABLES
  at, once, homekit,   \* the method that runs, "menu" or "off"; from the command line; how the device pairs
  step, drive,         \* place in the method's script; the machine it drives
  memory, disk,        \* the identity: the accessory's key it knows, in the program and in its file
  waiting,             \* whether the tool reads
  due, verdict, left,  \* the receiver: the request to answer, the answer, its parts not yet sent
  line, got,           \* parts on the connection; parts of the answer already taken
  sealed, opened,      \* frame counters: the receiver's writing, the tool's reading
  heard,               \* the requests whose parts made the answer last judged, and the one it was judged for
  cut,                 \* whether an answer was taken for whole before it was, and its rest not yet met
  host, knows          \* the receiver's identity, and whether it knows this controller

program == <<at, once, homekit, memory, disk>>
conn == <<step, drive, waiting, due, verdict, left, line, got, sealed, opened, heard, cut>>
receiver == <<host, knows>>
toolVars == <<program, conn, receiver>>

Absent == MaxResets + 2  \* no identity file yet
Pin == 1
Theirs == 7         \* the receiver's ephemeral number

\* The requests of each method, in order; the body of each is made from the answer before.
Diagnostics == <<"options", "details">>
TrueTransient == <<"info", "key">>
TransientRtsp == <<"info", "t1", "t3">> \o Diagnostics
TransientHttp == <<"t1", "t3">>
SrpPairSetup == <<"s1", "s3", "s5">>
VerifyTlv == <<"v1", "v3">> \o Diagnostics
VerifyRaw == <<"r1", "r3">>
QueryInfo == <<"info">>
StartPairPin == <<"start">>

Methods == {"exchange", "rtsp", "http", "setup", "verify", "raw", "info", "pin"}
OverHttp == {"http", "setup", "info", "pin"}

Script(m) ==
  CASE m = "exchange" -> TrueTransient
    [] m = "rtsp" -> TransientRtsp
    [] m = "http" -> TransientHttp
    [] m = "setup" -> SrpPairSetup
    [] m = "verify" -> VerifyTlv
    [] m = "raw" -> VerifyRaw
    [] m = "info" -> QueryInfo
    [] m = "pin" -> StartPairPin

NoMachine == NewSetup(FALSE, Pin, 1)
Running == at \in Methods
Request == Script(at)[step]
Encrypted == Request \in {"options", "details"}

ToolInit ==
  /\ at = "off" /\ once = FALSE /\ homekit = FALSE
  /\ step = 1 /\ drive = NoMachine /\ waiting = FALSE
  /\ memory = None /\ disk = Absent
  /\ due = 0 /\ verdict = Bad /\ left = 0 /\ line = <<>> /\ got = <<>>
  /\ sealed = 0 /\ opened = 0 /\ heard = {} /\ cut = FALSE
  /\ host = 1 /\ knows = FALSE

(***************************************************************************)
(* The program.                                                            *)
(***************************************************************************)

\* Arguments, scan and selection may end the program first; the file is read, or written anew.
LoadOrCreate ==
  \/ disk # Absent /\ memory' = disk /\ UNCHANGED disk
  \/ disk = Absent /\ memory' = None /\ disk' \in {None, Absent}

Idle == /\ step' = 1 /\ waiting' = FALSE /\ due' = 0 /\ left' = 0 /\ line' = <<>> /\ got' = <<>>
        /\ sealed' = 0 /\ opened' = 0 /\ heard' = {} /\ cut' = FALSE /\ verdict' = Bad

\* What /info tells of the receiver's key, on a connection of its own.
FetchServerLtpk == {None, host}

\* connect(), and the machine the method uses. A pair-verify starts from the stored key or,
\* without one, from the receiver's /info.
Opens(m, pin) ==
  /\ at' = m /\ Idle
  /\ \/ m \in {"rtsp", "http"} /\ drive' = SetupM1(NewSetup(TRUE, pin, 1))
     \/ m = "setup" /\ drive' = SetupM1(NewSetup(FALSE, pin, 1))
     \/ m = "verify" /\ \E k \in IF memory # None THEN {memory} ELSE FetchServerLtpk :
                          drive' = VerifyM1(SetServerLtpk(NewVerify(1, "stored"), k), 1)
     \/ m \in {"exchange", "raw", "info", "pin"} /\ drive' = NoMachine

Main ==
  /\ at = "off"
  /\ \E h \in BOOLEAN : homekit' = h
  /\ LoadOrCreate
  /\ \/ at' = "menu" /\ once' = FALSE /\ UNCHANGED conn
     \/ once' = TRUE /\ \E m \in {"rtsp", "http"}, p \in Pins : Opens(m, p)
  /\ UNCHANGED receiver

\* Two methods are not offered for a HomeKit device; a failed connect is back at the menu.
Choose(m) ==
  /\ at = "menu" /\ ~(homekit /\ m \in {"exchange", "verify"})
  /\ \E p \in Pins : Opens(m, p)
  /\ UNCHANGED <<once, homekit, memory, disk, receiver>>

\* Number 9, and any number that is not on the menu, end the program.
Exit == at = "menu" /\ at' = "off" /\ UNCHANGED <<once, homekit, memory, disk, conn, receiver>>

Ends == at' = IF once THEN "off" ELSE "menu"

(***************************************************************************)
(* One request and its answer.                                             *)
(***************************************************************************)

\* write_all and flush; the machine made the body when it took the answer before. A receiver
\* still busy with that one comes to this request when it is done.
Ask ==
  /\ Running /\ ~waiting
  /\ waiting' = TRUE /\ due' = IF due = 0 THEN step ELSE due
  /\ UNCHANGED <<program, step, drive, verdict, left, line, got, sealed, opened, heard, cut, receiver>>

\* What the machine makes of the answer, and whether the method goes on.
After(r) ==
  CASE Request \in {"t1", "s1"} -> SetupM3(SetupM2(drive, r))
    [] Request = "t3" -> SetupDone(SetupM4(drive, r))
    [] Request = "s3" -> SetupM5(SetupM4(drive, r))
    [] Request = "s5" -> SetupM6(drive, r)
    [] Request = "v1" -> VerifyM3(VerifyM2(drive, r))
    [] Request = "v3" -> VerifyM4(drive, r)
    [] OTHER -> drive

Fine(r) == r # Bad /\ After(r).state # "Failed"

\* check_tlv8_error and the machine; M6 puts the accessory's key in the program and, when the
\* write succeeds, in the file.
Judge(r, parts) ==
  /\ heard' = {[of |-> p.req, for |-> step] : p \in parts} /\ waiting' = FALSE
  /\ IF Fine(r) /\ step < Len(Script(at))
     THEN step' = step + 1 /\ drive' = After(r) /\ UNCHANGED <<at, memory, disk>>
     ELSE /\ Ends /\ UNCHANGED <<step, drive>>
          /\ IF Fine(r) /\ Request = "s5"
             THEN memory' = r.ltpk /\ disk' \in {r.ltpk, disk}
             ELSE UNCHANGED <<memory, disk>>
  /\ got' = <<>>
  /\ UNCHANGED <<once, homekit, due, verdict, left, sealed, receiver>>

PartsOf(s) == {s[i] : i \in 1..Len(s)}
Whole(s) == s # <<>> /\ s[Len(s)].more = 0 /\ s[Len(s)].req = step

\* A reader of its own takes everything that is there, up to the end of the answer.
ReadPlain ==
  /\ ~cut /\ got = <<>> /\ Whole(line) /\ line[1].frame = None
  /\ line' = <<>> /\ cut' = FALSE
  /\ Judge(verdict, PartsOf(line))
  /\ UNCHANGED opened

\* "Content-Length: " is known with its space only, over HTTP in that case only; without it the
\* body is empty. A method goes on from that only where the body is but shown. What the reader
\* had taken is lost with it, and the rest of that answer is no status line for the next.
ReadHeaders ==
  /\ got = <<>> /\ line # <<>> /\ line[1].frame = None
  /\ line' = <<>> /\ cut' = ~Whole(line)
  /\ Judge(IF ~cut /\ Request \in {"info", "options", "details"} THEN verdict ELSE Bad, PartsOf(line))
  /\ UNCHANGED opened

\* A rest that ends in no line break stands before the next status line, in which 200 is still
\* found: the answer is read as if it stood alone.
ReadJoined ==
  /\ cut /\ Whole(line)
  /\ line' = <<>> /\ cut' = FALSE
  /\ Judge(verdict, {p \in PartsOf(line) : p.req = step})
  /\ UNCHANGED opened

ReadHttp == Running /\ waiting /\ at \in OverHttp /\ (ReadPlain \/ ReadHeaders)

ReadRtsp == Running /\ waiting /\ at \notin OverHttp /\ ~Encrypted /\ (ReadPlain \/ ReadHeaders \/ ReadJoined)

\* An answer in plaintext to a sealed request starts with two letters no frame's length has.
ReadPrefixed == Running /\ waiting /\ Encrypted /\ ~cut /\ (ReadPlain \/ ReadHeaders)

\* The frame's number is the one expected or the next; another is an error.
Opened(f) == f.frame - 1 \in {opened, opened + 1}

\* Mutant: a frame is taken for a whole answer.
TakeFrameBadly(f) ==
  /\ opened' = f.frame /\ UNCHANGED cut
  /\ Judge(verdict, {f} \cup PartsOf(got))
\* The first frame is the whole answer when it has no headers, or headers without a length.
TakeFrame(f) ==
  /\ opened' = f.frame
  /\ \/ /\ f.more > 0 /\ ~cut /\ got' = Append(got, f)
        /\ UNCHANGED <<program, step, drive, waiting, due, verdict, left, sealed, heard, cut, receiver>>
     \/ /\ f.more = 0 \/ got = <<>>
        /\ cut' = (cut \/ f.more > 0)
        /\ Judge(verdict, {f} \cup PartsOf(got))

ReadFrame ==
  /\ Running /\ waiting /\ Encrypted /\ line # <<>> /\ Head(line).frame # None /\ Opened(Head(line))
  /\ line' = Tail(line)
  /\ TakeFrame(Head(line))

\* The timeouts of the socket, its end, a status that is not 200, a frame that does not open.
GivesUp ==
  /\ Running /\ waiting
  /\ Ends /\ Idle /\ drive' = NoMachine
  /\ UNCHANGED <<once, homekit, memory, disk, receiver>>

(***************************************************************************)
(* The receiver (external).                                                *)
(***************************************************************************)
BothSecret == <<drive.eph, Theirs, Pin>>

Proper ==
  CASE Request \in {"t1", "s1"} -> [step |-> 2, eph |-> Theirs]
    [] Request = "t3" -> IF drive.secret = BothSecret THEN [step |-> 4, proof |-> BothSecret] ELSE Bad
    [] Request = "s3" -> IF drive.secret = BothSecret THEN [step |-> 4, proof |-> BothSecret] ELSE Bad
    [] Request = "s5" -> [step |-> 6, proof |-> BothSecret, ltpk |-> host]
    [] Request = "v1" -> [step |-> 2, eph |-> Theirs, ltpk |-> None, signer |-> host, order |-> DefaultOrder]
    [] Request = "v3" -> IF knows THEN [step |-> 4] ELSE Bad
    [] OTHER -> [step |-> 2]

Answer ==
  /\ Running /\ due # 0 /\ left = 0
  /\ \E r \in {Proper, Bad}, parts \in 1..MaxParts :
       /\ verdict' = r /\ left' = parts
       /\ knows' = (knows \/ (Request = "s5" /\ r # Bad))
  /\ UNCHANGED <<program, step, drive, waiting, due, line, got, sealed, opened, heard, cut, host>>

\* A sealed part carries its number, counted from 1 here; an answer does not change its form.
SendPart ==
  /\ Running /\ left > 0
  /\ left' = left - 1
  /\ \/ /\ (\A i \in 1..Len(line) : line[i].frame = None) /\ got = <<>> /\ ~(cut /\ sealed > 0)
        /\ line' = Append(line, [req |-> due, more |-> left - 1, frame |-> None])
        /\ UNCHANGED sealed
     \/ /\ Encrypted /\ (\A i \in 1..Len(line) : line[i].frame # None) /\ ~(cut /\ sealed = 0)
        /\ \E c \in {sealed, sealed + 1} :
             /\ line' = Append(line, [req |-> due, more |-> left - 1, frame |-> c + 1])
             /\ sealed' = c + 1
  /\ due' = CASE left > 1 -> due
              [] left = 1 /\ waiting /\ due # step -> step
              [] OTHER -> 0
  /\ UNCHANGED <<program, step, drive, waiting, verdict, got, opened, heard, cut, receiver>>

Forgets ==
  /\ host <= MaxResets
  /\ host' = host + 1 /\ knows' = FALSE
  /\ UNCHANGED <<program, conn>>

MenuNext ==
  \/ Main \/ Exit \/ Ask \/ ReadHttp \/ ReadRtsp \/ ReadPrefixed \/ ReadFrame \/ GivesUp
  \/ Answer \/ SendPart \/ Forgets
  \/ \E m \in Methods : Choose(m)

\* No method goes on with the answer to another request, and where every answer said its
\* length in a form the reader knows, nothing of one is left for the next read and both ends
\* agree on the next frame (pair_with_device.rs:2148 joins frames by Content-Length, 2181 finds
\* their numbers by trying; no request is ever matched with its answer by CSeq). Where one did
\* not, its rest meets a request that reads past it or fails on it, or the last one, whose
\* answer is only printed.
AnswersAreItsOwn ==
  /\ Running => \A h \in heard : h.of = h.for
  /\ \A h \in heard : h.of # h.for => h.of = h.for - 1
  /\ Running /\ ~waiting /\ ~cut => line = <<>> /\ got = <<>> /\ opened = sealed
  /\ Running /\ cut => Request \in {"key", "t1", "details"}
=============================================================================
