---------------------------- MODULE RtspChannel ----------------------------
(***************************************************************************)
(* RtspConnection::send (crates/airplay-rtsp/src/connection.rs): requests  *)
(* and responses on one TCP stream, matched by their order alone.          *)
(*                                                                         *)
(* A call writes its request and reads until a response is complete.  It   *)
(* is given up at any await: by its own 10 s, by the caller's 2 s          *)
(* (send_feedback, RECORD) or 30 s.  What it had read is then gone, and    *)
(* what comes later is left for the next call.                             *)
(*                                                                         *)
(* A response is a sequence of parts, the first of which holds all of its  *)
(* header.  A part is a HomeKit block when the channel is encrypted (read  *)
(* in two steps, its length and its ciphertext), a TCP segment when not.   *)
(***************************************************************************)
EXTENDS Naturals, Sequences

CONSTANTS
  MaxRequests,  \* bound: requests sent
  MaxParts,     \* bound: parts of a response
  GivesUp       \* whether calls are given up

ASSUME ChannelAssumption ==
  /\ GivesUp \in BOOLEAN
  /\ MaxRequests \in Nat /\ MaxParts \in Nat \ {0}

VARIABLES
  encrypted, \* a cipher is set
  phase,     \* the await of the call in progress, or "idle"
  cseq,      \* number of the last request
  partial,   \* parts read by the call in progress
  outbound,  \* requests the receiver has yet to answer
  inbound,   \* parts of responses not yet read
  skewed,    \* bytes of a block were lost: the reader is off the frame boundaries
  deaf,      \* the receiver cannot make out further requests
  alive,     \* the TCP connection works
  answers,   \* history: what send() returned, to which request, and whether encrypted
  givenUp    \* history: calls given up

channelVars ==
  <<encrypted, phase, cseq, partial, outbound, inbound, skewed, deaf, alive, answers, givenUp>>

Part == [cseq : Nat, part : Nat, of : Nat]
Reading == IF encrypted THEN "length" ELSE "plain"

ChannelInit ==
  /\ encrypted = FALSE /\ phase = "idle" /\ cseq = 0 /\ partial = <<>>
  /\ outbound = <<>> /\ inbound = <<>>
  /\ skewed = FALSE /\ deaf = FALSE /\ alive = TRUE
  /\ answers = <<>> /\ givenUp = 0

\* Pairing is over.  What is left of plaintext responses is then taken for blocks.
SetCipher ==
  /\ phase = "idle" /\ ~encrypted
  /\ encrypted' = TRUE
  /\ skewed' = (skewed \/ inbound # <<>> \/ outbound # <<>>)
  /\ UNCHANGED <<phase, cseq, partial, outbound, inbound, deaf, alive, answers, givenUp>>

-----------------------------------------------------------------------------
(* Writing the request. *)

Send ==
  /\ phase = "idle" /\ cseq < MaxRequests
  /\ cseq' = cseq + 1 /\ partial' = <<>>
  /\ phase' = "writing"
  /\ UNCHANGED <<encrypted, outbound, inbound, skewed, deaf, alive, answers, givenUp>>

Deliver == outbound' = IF alive /\ ~deaf THEN Append(outbound, cseq) ELSE outbound

Written ==
  /\ phase = "writing"
  /\ Deliver
  /\ phase' = Reading
  /\ UNCHANGED <<encrypted, cseq, partial, inbound, skewed, deaf, alive, answers, givenUp>>

-----------------------------------------------------------------------------
(* The receiver answers in order. *)

Response(n, parts) == [i \in 1..parts |-> [cseq |-> n, part |-> i, of |-> parts]]

Answer ==
  /\ alive /\ outbound # <<>>
  /\ \E parts \in 1..MaxParts : inbound' = inbound \o Response(Head(outbound), parts)
  /\ outbound' = Tail(outbound)
  /\ UNCHANGED <<encrypted, phase, cseq, partial, skewed, deaf, alive, answers, givenUp>>

-----------------------------------------------------------------------------
(* Reading the response. *)

\* The place in what was read where the first header is followed by all of its
\* body; 0 if there is none yet.
CompleteAt(read) ==
  LET heads == {i \in 1..Len(read) : read[i].part = 1}
      ends  == {j \in 1..Len(read) :
                  \E i \in heads : /\ \A h \in heads : i <= h
                                   /\ j = i + read[i].of - 1}
  IN IF ends = {} THEN 0 ELSE CHOOSE j \in ends : TRUE

\* Parse what was read: the rest of a response whose beginning an earlier call
\* took makes the status line unreadable.
Return(read) ==
  /\ phase' = "idle" /\ partial' = <<>>
  /\ answers' = IF read[1].part = 1
                THEN Append(answers, [request |-> cseq, response |-> read[1].cseq,
                                      secure |-> encrypted])
                ELSE answers

\* Mutant: only the last block read is kept.
ForgetEarlierBlocks(chunk) ==
  LET read == chunk IN
  IF CompleteAt(read) > 0
  THEN Return(read)
  ELSE phase' = Reading /\ partial' = read /\ UNCHANGED answers

\* What arrived beyond the end of the response is dropped with the reader.
Take(chunk) ==
  LET read == partial \o chunk IN
  IF CompleteAt(read) > 0
  THEN Return(read)
  ELSE phase' = Reading /\ partial' = read /\ UNCHANGED answers

ReadLength ==
  /\ phase = "length" /\ inbound # <<>>
  /\ phase' = "block"
  /\ UNCHANGED <<encrypted, cseq, partial, outbound, inbound, skewed, deaf, alive,
                 answers, givenUp>>

ReadBlock ==
  /\ phase = "block" /\ ~skewed
  /\ Take(<<Head(inbound)>>)
  /\ inbound' = Tail(inbound)
  /\ UNCHANGED <<encrypted, cseq, outbound, skewed, deaf, alive, givenUp>>

\* Off the boundaries: a block of any length, which does not authenticate.
ReadGarbage ==
  /\ phase = "block" /\ skewed
  /\ phase' = "idle" /\ partial' = <<>>
  /\ \E n \in 1..Len(inbound) : inbound' = SubSeq(inbound, n + 1, Len(inbound))
  /\ UNCHANGED <<encrypted, cseq, outbound, skewed, deaf, alive, answers, givenUp>>

\* The BufReader takes whatever has arrived.
ReadPlain ==
  /\ phase = "plain"
  /\ \E n \in 1..Len(inbound) :
       /\ Take(SubSeq(inbound, 1, n))
       /\ inbound' = SubSeq(inbound, n + 1, Len(inbound))
  /\ UNCHANGED <<encrypted, cseq, outbound, skewed, deaf, alive, givenUp>>

\* The rest of an old response may already fail as a line of text.
ReadNonsense ==
  /\ phase = "plain" /\ inbound # <<>>
  /\ Head(partial \o inbound).part # 1
  /\ phase' = "idle" /\ partial' = <<>>
  /\ \E n \in 1..Len(inbound) : inbound' = SubSeq(inbound, n + 1, Len(inbound))
  /\ UNCHANGED <<encrypted, cseq, outbound, skewed, deaf, alive, answers, givenUp>>

-----------------------------------------------------------------------------
(* Timeouts and failures. *)

\* Mutant: a timeout sends the request again.
GiveUpCallAndRetry ==
  /\ GivesUp /\ phase \in {"length", "plain"}
  /\ Deliver
  /\ UNCHANGED <<encrypted, phase, cseq, partial, inbound, skewed, deaf, alive, answers, givenUp>>

\* The future is dropped.  While writing, all of the request may be out already,
\* or a part of it, or nothing; the encryption counter has moved in any case.
\* While reading a block its length, and perhaps more, has been taken.
GiveUpCall ==
  /\ GivesUp /\ phase # "idle"
  /\ IF phase = "writing"
     THEN \/ Deliver /\ UNCHANGED deaf
          \/ deaf' = TRUE /\ UNCHANGED outbound
          \/ ~encrypted /\ UNCHANGED <<outbound, deaf>>
     ELSE UNCHANGED <<outbound, deaf>>
  /\ skewed' = (skewed \/ phase = "block")
  /\ phase' = "idle" /\ partial' = <<>>
  /\ givenUp' = givenUp + 1
  /\ UNCHANGED <<encrypted, cseq, inbound, alive, answers>>

\* The receiver closes the connection.
Hangup ==
  /\ alive /\ alive' = FALSE
  /\ outbound' = <<>>
  /\ UNCHANGED <<encrypted, phase, cseq, partial, inbound, skewed, deaf, answers, givenUp>>

\* Writing then fails, or reading, in the middle of a block or at the end of the
\* stream, and nothing more can be read; but the plaintext reader takes the end of
\* the stream for an empty line and spins until its timeout.
Fails ==
  /\ ~alive
  /\ phase \in {"writing", "block"} \/ (phase = "length" /\ inbound = <<>>)
  /\ phase' = "idle" /\ partial' = <<>>
  /\ inbound' = <<>>
  /\ UNCHANGED <<encrypted, cseq, outbound, skewed, deaf, alive, answers, givenUp>>

Read == ReadLength \/ ReadBlock \/ ReadGarbage \/ ReadPlain \/ ReadNonsense

ChannelNext == SetCipher \/ Send \/ Written \/ Answer \/ Read \/ GiveUpCall \/ Hangup \/ Fails

ChannelSpec == ChannelInit /\ [][ChannelNext]_channelVars

\* A call under way goes on, and the receiver answers what it got.
ChannelFairSpec == ChannelSpec /\ WF_channelVars(Written) /\ WF_channelVars(Answer) /\ WF_channelVars(Read) /\ WF_channelVars(Fails)

-----------------------------------------------------------------------------
(* Properties. *)

\* The variables keep their types, and a block is only awaited when one is there.
ChannelTypeOK ==
  /\ phase \in {"idle", "writing", "length", "block", "plain"}
  /\ cseq \in 0..MaxRequests /\ partial \in Seq(Part)
  /\ outbound \in Seq(1..MaxRequests) /\ inbound \in Seq(Part)
  /\ {encrypted, skewed, deaf, alive} \subseteq BOOLEAN
  /\ answers \in Seq([request : Nat, response : Nat, secure : BOOLEAN]) /\ givenUp \in Nat
  /\ phase = "block" => inbound # <<>>

\* No response is taken for the answer to two requests, none overtakes another, whatever
\* was given up; and a call returns its own response or an older one: its own as long as
\* no call was given up, and on the encrypted channel one older by no more than the calls
\* that were.  (A plaintext call that meets the rest of an old response fails at once, so
\* that its own is left for the next: there one call given up may cost any number.)
AnswersInOrder ==
  /\ \A i, j \in 1..Len(answers) : i < j => answers[i].response < answers[j].response
  /\ \A i \in 1..Len(answers) :
       /\ answers[i].response <= answers[i].request
       /\ answers[i].secure \/ givenUp = 0 => answers[i].request <= answers[i].response + givenUp

\* When no call is given up and the receiver stays, each gets its own answer.
EachIsAnswered ==
  \A n \in 1..MaxRequests :
    (cseq = n) ~> (~alive \/ givenUp > 0 \/
                   \E i \in 1..Len(answers) : answers[i].request = n /\ answers[i].response = n)

-----------------------------------------------------------------------------
(* Properties that the source states and the code does not keep. *)

\* send(): "Verify CSeq matches".
AnswerIsForRequest ==
  \A i \in 1..Len(answers) : answers[i].response = answers[i].request
=============================================================================
