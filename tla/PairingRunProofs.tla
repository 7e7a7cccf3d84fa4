------------------------- MODULE PairingRunProofs -------------------------
(***************************************************************************)
(* What holds of pairing for any number of callers, restarts and forgotten *)
(* pairings: the connection's callers and the accessory they share (when a *)
(* pairing is mutual, what is saved, who is recognised), the library's     *)
(* stages and machines, and the answers the pairing tool reads.            *)
(***************************************************************************)
EXTENDS PairingRun, Sequences, TLAPS

-----------------------------------------------------------------------------
(* The tool: an answer and the request it is read for.                       *)

\* A part of an answer: its request, how many follow it, its frame or 0.
Part == [req : Nat, more : Nat, frame : Nat]

PlaceType == at \in Menu!Methods \cup {"menu", "off"} /\ waiting \in BOOLEAN /\ cut \in BOOLEAN

CountType ==
  /\ step \in Nat \ {0} /\ due \in {0, step - 1, step} /\ left \in Nat
  /\ opened \in Nat /\ sealed \in Nat
  /\ line \in Seq(Part)
  /\ got \in Seq(Part)

ToolType == PlaceType /\ CountType

\* What is on the connection is of the present request, and the last of it tells how much is
\* to come; it is all plaintext, or all frames, of which the last is the last one written.
LineInv ==
  /\ due \in {0, step}
  /\ left > 0 => due = step
  /\ due # 0 /\ left = 0 => line = <<>> /\ got = <<>>
  /\ \A i \in 1 .. Len(line) : line[i].req = step /\ line[i].more = left + (Len(line) - i)
  /\ \A i \in 1 .. Len(got) : got[i].req = step

PlainOrFrames ==
  \/ (\A i \in 1 .. Len(line) : line[i].frame = 0) /\ opened = sealed
  \/ /\ line # <<>> /\ (\A i \in 1 .. Len(line) : line[i].frame # 0)
     /\ line[Len(line)].frame = sealed

\* Before a request is written nothing is left of the one before.
QuietInv == ~waiting => due = 0 /\ left = 0 /\ line = <<>> /\ got = <<>> /\ opened = sealed

\* An answer taken too early was the one before: its rest, then the present one, is what
\* comes, and once the present one is all there nothing more does.
CutInv ==
  /\ step > 1 /\ got = <<>> /\ Menu!Request \in {"key", "t1", "details"}
  /\ left > 0 => due # 0
  /\ due = step - 1 => left > 0
  /\ ~waiting => due # step
  /\ \A i \in 1 .. Len(line) : line[i].req \in {step - 1, step}
  /\ line # <<>> /\ line[Len(line)].req = step =>
       waiting /\ line[Len(line)].more = left /\ due # step - 1 /\ (due = 0 <=> left = 0)
  /\ Menu!Request # "details" => opened = sealed

WholeInv == LineInv /\ PlainOrFrames /\ QuietInv

HeardInv == \A h \in heard : h.of # h.for => h.of = h.for - 1
OwnInv == \A h \in heard : h.of = h.for

ToolInv ==
  /\ ToolType /\ HeardInv
  /\ Menu!Running => OwnInv /\ (cut => CutInv) /\ (~cut => WholeInv)

LEMMA FirstTool == Menu!ToolInit => ToolInv
<1>1. <<>> \in Seq(Part)
  OBVIOUS
<1> SUFFICES ASSUME Menu!ToolInit PROVE ToolInv
  OBVIOUS
<1>2. at = "off" /\ waiting = FALSE
  BY DEF Menu!ToolInit
<1>3. /\ step = 1 /\ due = 0 /\ left = 0 /\ line = <<>> /\ got = <<>> /\ sealed = 0 /\ opened = 0
      /\ heard = {} /\ cut = FALSE
  BY DEF Menu!ToolInit
<1>4. PlaceType
  BY <1>2, <1>3 DEF PlaceType
<1>5. ~Menu!Running
  BY <1>2 DEF Menu!Running, Menu!Methods
<1>6. CountType
  BY <1>1, <1>3 DEF CountType
<1>7. HeardInv
  BY <1>3 DEF HeardInv
<1> QED BY <1>4, <1>5, <1>6, <1>7 DEF ToolInv, ToolType

LEMMA IdleIsQuiet ==
  ASSUME Menu!Idle, at' \in Menu!Methods \cup {"menu", "off"}
  PROVE  ToolInv'
<1>1. <<>> \in Seq(Part)
  OBVIOUS
<1>2. ToolType' /\ HeardInv'
  <2>1. PlaceType'
    BY <1>1 DEF Menu!Idle, ToolType, PlaceType, HeardInv
  <2>2. CountType'
    BY <1>1 DEF Menu!Idle, ToolType, CountType, HeardInv
  <2>3. HeardInv'
    BY <1>1 DEF Menu!Idle, ToolType, CountType, HeardInv
  <2> QED BY <2>1, <2>2, <2>3 DEF ToolType
<1>3. OwnInv' /\ WholeInv' /\ ~cut'
  BY DEF Menu!Idle, OwnInv, WholeInv, LineInv, PlainOrFrames, QuietInv
<1> QED BY <1>2, <1>3 DEF ToolInv

LEMMA EndsOff == ASSUME Menu!Ends PROVE at' \in {"menu", "off"} /\ ~Menu!Running'
BY DEF Menu!Ends, Menu!Running, Menu!Methods

LEMMA SameRequest == ASSUME UNCHANGED <<at, step>> PROVE Menu!Request' = Menu!Request
BY DEF Menu!Request, Menu!Script, Menu!TrueTransient, Menu!TransientRtsp, Menu!TransientHttp,
       Menu!SrpPairSetup, Menu!VerifyTlv, Menu!VerifyRaw, Menu!QueryInfo, Menu!StartPairPin, Menu!Diagnostics

\* Which request follows an answer that may have been taken too early, and which is the last.
LEMMA AfterShort ==
  ASSUME Menu!Running, step \in Nat \ {0}, step < Len(Menu!Script(at))
  PROVE  /\ Menu!Request = "info" => Menu!Script(at)[step + 1] \in {"key", "t1"}
         /\ Menu!Request = "options" => Menu!Script(at)[step + 1] = "details"
         /\ Menu!Request # "details"
<1>1. CASE at = "exchange"
  BY <1>1 DEF Menu!Request, Menu!Script, Menu!TrueTransient
<1>2. CASE at = "rtsp"
  <2> DEFINE s == <<"info", "t1", "t3">> \o <<"options", "details">>
  <2>1. Menu!Script(at) = s
    BY <1>2 DEF Menu!Script, Menu!TransientRtsp, Menu!Diagnostics
  <2>2. /\ Len(s) = 5 /\ s[1] = "info" /\ s[2] = "t1" /\ s[3] = "t3" /\ s[4] = "options"
        /\ s[5] = "details"
    OBVIOUS
  <2> HIDE DEF s
  <2> QED BY <2>1, <2>2 DEF Menu!Request
<1>3. CASE at = "http"
  BY <1>3 DEF Menu!Request, Menu!Script, Menu!TransientHttp
<1>4. CASE at = "setup"
  BY <1>4 DEF Menu!Request, Menu!Script, Menu!SrpPairSetup
<1>5. CASE at = "verify"
  <2> DEFINE s == <<"v1", "v3">> \o <<"options", "details">>
  <2>1. Menu!Script(at) = s
    BY <1>5 DEF Menu!Script, Menu!VerifyTlv, Menu!Diagnostics
  <2>2. Len(s) = 4 /\ s[1] = "v1" /\ s[2] = "v3" /\ s[3] = "options" /\ s[4] = "details"
    OBVIOUS
  <2> HIDE DEF s
  <2> QED BY <2>1, <2>2 DEF Menu!Request
<1>6. CASE at = "raw"
  BY <1>6 DEF Menu!Request, Menu!Script, Menu!VerifyRaw
<1>7. CASE at = "info"
  BY <1>7 DEF Menu!Request, Menu!Script, Menu!QueryInfo
<1>8. CASE at = "pin"
  BY <1>8 DEF Menu!Request, Menu!Script, Menu!StartPairPin
<1> QED BY <1>1, <1>2, <1>3, <1>4, <1>5, <1>6, <1>7, <1>8 DEF Menu!Running, Menu!Methods

\* What a judged answer leaves: a method that goes on had its own answer, and nothing more is
\* to come, or the rest of one that was taken too early.
GoesOn(r) == Menu!Fine(r) /\ step < Len(Menu!Script(at))

TakenEarly ==
  /\ due \in {0, step} /\ (due = step => left > 0) /\ (left > 0 => due = step)
  /\ \A i \in 1 .. Len(line') : line'[i].req = step
  /\ Menu!Request \in {"info", "options"} /\ (Menu!Request = "info" => opened' = sealed)

TakenWhole == due = 0 /\ left = 0 /\ line' = <<>> /\ opened' = sealed

LEMMA JudgedIsOwn ==
  ASSUME ToolInv, Menu!Running, NEW r, NEW parts, Menu!Judge(r, parts),
         \A x \in parts : x.req \in {step - 1, step},
         line' \in Seq(Part), opened' \in Nat, cut' \in BOOLEAN,
         GoesOn(r) => /\ \A x \in parts : x.req = step
                      /\ (cut' => TakenEarly) /\ (~cut' => TakenWhole)
  PROVE  ToolInv'
<1>1. <<>> \in Seq(Part) /\ step \in Nat \ {0} /\ left \in Nat /\ sealed \in Nat
  BY DEF ToolInv, ToolType, CountType
<1>2. /\ HeardInv' /\ waiting' = FALSE /\ got' = <<>> /\ UNCHANGED <<due, left, sealed>>
      /\ heard' = {[of |-> p.req, for |-> step] : p \in parts}
  BY <1>1 DEF Menu!Judge, HeardInv, Menu!receiver
<1>3. CASE GoesOn(r)
  <2>1. step' = step + 1 /\ at' = at
    BY <1>3 DEF Menu!Judge, GoesOn
  <2>2. OwnInv'
    BY <1>2, <1>3 DEF OwnInv
  <2>3. CASE cut'
    <3>1. TakenEarly
      BY <1>3, <2>3
    <3>2. ToolType'
      <4>1. PlaceType'
        BY <1>2, <2>1 DEF ToolInv, ToolType, PlaceType
      <4>2. CountType'
        BY <1>1, <1>2, <2>1, <3>1 DEF CountType, TakenEarly
      <4> QED BY <4>1, <4>2 DEF ToolType
    <3>3. Menu!Request' \in {"key", "t1", "details"} /\ (Menu!Request' # "details" => opened' = sealed')
      <4>1. Menu!Request' = Menu!Script(at)[step + 1]
        BY <2>1 DEF Menu!Request, Menu!Script, Menu!TrueTransient, Menu!TransientRtsp, Menu!TransientHttp,
             Menu!SrpPairSetup, Menu!VerifyTlv, Menu!VerifyRaw, Menu!QueryInfo, Menu!StartPairPin, Menu!Diagnostics
      <4>2. /\ Menu!Request = "info" => Menu!Script(at)[step + 1] \in {"key", "t1"}
            /\ Menu!Request = "options" => Menu!Script(at)[step + 1] = "details"
        BY <1>1, <1>3, AfterShort DEF GoesOn
      <4> QED BY <1>2, <3>1, <4>1, <4>2 DEF TakenEarly
    <3>4. /\ step' > 1 /\ (left' > 0 => due' # 0) /\ (due' = step' - 1 => left' > 0) /\ due' # step'
      BY <1>1, <1>2, <2>1, <3>1 DEF TakenEarly
    <3>5. /\ \A i \in 1 .. Len(line') : line'[i].req \in {step' - 1, step'}
          /\ line' # <<>> => line'[Len(line')].req # step'
      <4>1. \A i \in 1 .. Len(line') : line'[i].req = step
        BY <3>1 DEF TakenEarly
      <4>2. line' # <<>> => Len(line') \in 1 .. Len(line')
        OBVIOUS
      <4> QED BY <4>1, <4>2, <2>1, <1>1
    <3> QED BY <1>2, <2>2, <2>3, <3>2, <3>3, <3>4, <3>5 DEF ToolInv, CutInv
  <2>4. CASE ~cut'
    <3>1. TakenWhole
      BY <1>3, <2>4
    <3>2. ToolType'
      <4>1. PlaceType'
        BY <1>2, <2>1 DEF ToolInv, ToolType, PlaceType
      <4>2. CountType'
        BY <1>1, <1>2, <2>1, <3>1 DEF CountType, TakenWhole
      <4> QED BY <4>1, <4>2 DEF ToolType
    <3>3. WholeInv'
      BY <1>2, <2>1, <3>1 DEF TakenWhole, WholeInv, LineInv, PlainOrFrames, QuietInv
    <3> QED BY <1>2, <2>2, <2>4, <3>2, <3>3 DEF ToolInv
  <2> QED BY <2>3, <2>4
<1>4. CASE ~GoesOn(r)
  <2>1. step' = step /\ Menu!Ends
    BY <1>4 DEF Menu!Judge, GoesOn
  <2>2. ToolType'
    <3>1. PlaceType'
      BY <1>2, <2>1, EndsOff DEF PlaceType
    <3>2. CountType'
      BY <1>1, <1>2, <2>1 DEF ToolInv, ToolType, CountType
    <3> QED BY <3>1, <3>2 DEF ToolType
  <2> QED BY <1>2, <2>1, <2>2, EndsOff DEF ToolInv
<1> QED BY <1>3, <1>4

LEMMA LineIsOwn ==
  ASSUME ToolInv, Menu!Running
  PROVE  /\ \A x \in Menu!PartsOf(line) \cup Menu!PartsOf(got) : x.req \in {step - 1, step}
         /\ ~cut => \A x \in Menu!PartsOf(line) \cup Menu!PartsOf(got) : x.req = step
<1>1. got = <<>> => Menu!PartsOf(got) = {}
  BY DEF Menu!PartsOf
<1> QED BY <1>1 DEF ToolInv, WholeInv, LineInv, CutInv, Menu!PartsOf

\* A line whose last part is there is all that comes.
LEMMA WholeIsAll ==
  ASSUME ToolInv, Menu!Running, Menu!Whole(line)
  PROVE  due = 0 /\ left = 0
<1>1. /\ Len(line) \in 1 .. Len(line) /\ left \in Nat /\ due \in {0, step - 1, step} /\ line # <<>>
      /\ line[Len(line)].more = 0 /\ line[Len(line)].req = step
  BY DEF ToolInv, ToolType, PlaceType, CountType, Menu!Whole
<1>2. CASE ~cut
  <2>1. LineInv /\ line[Len(line)].more = left + (Len(line) - Len(line))
    BY <1>1, <1>2 DEF ToolInv, WholeInv, LineInv
  <2>2. left = 0
    BY <2>1, <1>1
  <2> QED BY <2>1, <2>2, <1>1 DEF LineInv
<1>3. CASE cut
  BY <1>1, <1>3 DEF ToolInv, CutInv
<1> QED BY <1>2, <1>3 DEF ToolInv, ToolType, PlaceType

LEMMA PlainRead ==
  ASSUME ToolInv, Menu!Running, Menu!ReadPlain
  PROVE  ToolInv'
<1>1. /\ Menu!Judge(verdict, Menu!PartsOf(line)) /\ line' = <<>> /\ opened' = opened
      /\ cut' = FALSE /\ ~cut /\ Menu!Whole(line)
  BY DEF Menu!ReadPlain
<1>2. opened = sealed
  <2>1. 1 \in 1 .. Len(line) /\ line[1].frame = 0
    BY <1>1 DEF Menu!ReadPlain, ToolInv, ToolType, PlaceType, CountType, Menu!None, Menu!Whole
  <2> QED BY <1>1, <2>1 DEF ToolInv, WholeInv, PlainOrFrames
<1>3. line' \in Seq(Part) /\ opened' \in Nat
  BY <1>1 DEF ToolInv, ToolType, PlaceType, CountType
<1>4. TakenWhole
  BY <1>1, <1>2, WholeIsAll DEF TakenWhole
<1> QED BY <1>1, <1>3, <1>4, LineIsOwn, JudgedIsOwn

\* What is to come when an answer was taken for whole and it was not.
LEMMA RestIsOwn ==
  ASSUME ToolInv, Menu!Running, ~cut, line # <<>>, line' = <<>>, ~Menu!Whole(line), opened' = opened,
         Menu!Request \in {"options", "info"}, opened = sealed
  PROVE  TakenEarly
<1>1. LineInv /\ step \in Nat \ {0} /\ left \in Nat
  BY DEF ToolInv, WholeInv, ToolType, CountType
<1>2. left > 0
  <2>1. Len(line) \in 1 .. Len(line)
    BY DEF ToolInv, ToolType, CountType
  <2>2. line[Len(line)].req = step /\ line[Len(line)].more = left + (Len(line) - Len(line))
    BY <1>1, <2>1 DEF LineInv
  <2> QED BY <1>1, <2>1, <2>2 DEF Menu!Whole
<1> QED BY <1>1, <1>2 DEF LineInv, TakenEarly

\* Plaintext takes no frame number.
LEMMA PlainIsEven ==
  ASSUME ToolInv, Menu!Running, ~cut, line # <<>>, line[1].frame = 0
  PROVE  opened = sealed
<1>1. 1 \in 1 .. Len(line)
  BY DEF ToolInv, ToolType, CountType
<1> QED BY <1>1 DEF ToolInv, WholeInv, PlainOrFrames

LEMMA HeadersRead ==
  ASSUME ToolInv, Menu!Running, Menu!ReadHeaders
  PROVE  ToolInv'
<1> DEFINE r == IF ~cut /\ Menu!Request \in {"info", "options", "details"} THEN verdict ELSE Menu!Bad
<1>1. /\ Menu!Judge(r, Menu!PartsOf(line)) /\ line' = <<>> /\ opened' = opened
      /\ line # <<>> /\ line[1].frame = 0 /\ cut' = ~Menu!Whole(line)
  BY DEF Menu!ReadHeaders, Menu!None
<1>2. line' \in Seq(Part) /\ opened' \in Nat /\ cut' \in BOOLEAN /\ step \in Nat \ {0}
  BY <1>1 DEF ToolInv, ToolType, CountType
<1>3. ASSUME GoesOn(r)
      PROVE  (\A x \in Menu!PartsOf(line) : x.req = step) /\ (cut' => TakenEarly) /\ (~cut' => TakenWhole)
  <2>1. ~cut /\ Menu!Request \in {"info", "options"}
    BY <1>2, <1>3, AfterShort DEF GoesOn, Menu!Fine
  <2>2. opened = sealed
    BY <1>1, <2>1, PlainIsEven
  <2>3. cut' => TakenEarly
    BY <1>1, <2>1, <2>2, RestIsOwn
  <2>4. ~cut' => TakenWhole
    BY <1>1, <2>2, WholeIsAll DEF TakenWhole
  <2> QED BY <2>1, <2>3, <2>4, LineIsOwn
<1> HIDE DEF r
<1> QED BY <1>1, <1>2, <1>3, LineIsOwn, JudgedIsOwn

LEMMA JoinedRead ==
  ASSUME ToolInv, Menu!Running, Menu!ReadJoined, ~Menu!Encrypted
  PROVE  ToolInv'
<1> DEFINE own == {p \in Menu!PartsOf(line) : p.req = step}
<1>1. /\ Menu!Judge(verdict, own) /\ line' = <<>> /\ opened' = opened /\ cut /\ cut' = FALSE
      /\ Menu!Whole(line)
  BY DEF Menu!ReadJoined
<1>2. line' \in Seq(Part) /\ opened' \in Nat
  BY <1>1 DEF ToolInv, ToolType, CountType
<1>3. opened = sealed
  BY <1>1 DEF ToolInv, CutInv, Menu!Encrypted
<1>4. TakenWhole
  BY <1>1, <1>3, WholeIsAll DEF TakenWhole
<1>5. \A x \in own : x.req = step
  OBVIOUS
<1> HIDE DEF own
<1> QED BY <1>1, <1>2, <1>4, <1>5, JudgedIsOwn

LEMMA FrameRead ==
  ASSUME ToolInv, Menu!ReadFrame
  PROVE  ToolInv'
<1> DEFINE f == Head(line)
<1>0. /\ Menu!Running /\ waiting /\ Menu!Encrypted /\ line # <<>> /\ f.frame # 0 /\ line' = Tail(line)
      /\ Menu!TakeFrame(f)
  BY DEF Menu!ReadFrame, Menu!None
<1>1. /\ line \in Seq(Part) /\ f \in Part
      /\ f = line[1] /\ 1 \in 1 .. Len(line) /\ Len(line) \in 1 .. Len(line)
      /\ Tail(line) \in Seq(Part)
      /\ Len(Tail(line)) = Len(line) - 1 /\ (\A i \in 1 .. Len(line) - 1 : Tail(line)[i] = line[i + 1])
  BY <1>0 DEF ToolInv, ToolType, PlaceType, CountType
<1>2. ASSUME ~cut
      PROVE  /\ LineInv /\ f.req = step /\ f.more = left + (Len(line) - 1)
             /\ (\A i \in 1 .. Len(line) : line[i].frame # 0) /\ line[Len(line)].frame = sealed
  BY <1>0, <1>1, <1>2 DEF ToolInv, WholeInv, LineInv, PlainOrFrames
<1>3. \A i \in 1 .. Len(Tail(line)) : line[i + 1].req \in {step - 1, step} /\ (~cut => line[i + 1].req = step)
  BY <1>0, <1>1, LineIsOwn DEF Menu!PartsOf
<1>t. step \in Nat \ {0} /\ left \in Nat /\ sealed \in Nat /\ f.frame \in Nat /\ f.more \in Nat /\ cut \in BOOLEAN
  BY <1>1 DEF ToolInv, ToolType, PlaceType, CountType, Part
<1> HIDE DEF f
<1>4. CASE /\ f.more > 0 /\ ~cut /\ got' = Append(got, f) /\ opened' = f.frame
           /\ UNCHANGED <<at, step, waiting, due, left, sealed, heard, cut>>
  <2>2. ToolType'
    <3>1. PlaceType'
      BY <1>4 DEF ToolInv, ToolType, PlaceType
    <3>2. CountType'
      <4>1. f.frame \in Nat /\ Append(got, f) \in Seq(Part)
        BY <1>1 DEF ToolInv, ToolType, CountType, Part
      <4>2. CountType
        BY DEF ToolInv, ToolType
      <4> QED BY <4>1, <4>2, <1>0, <1>1, <1>4 DEF CountType
    <3> QED BY <3>1, <3>2 DEF ToolType
  <2>3. HeardInv' /\ OwnInv' /\ QuietInv'
    BY <1>0, <1>4 DEF ToolInv, HeardInv, OwnInv, QuietInv
  <2>4. LineInv'
    <3>1. \A i \in 1 .. Len(got') : got'[i].req = step
      BY <1>4, <1>2 DEF LineInv, ToolInv, ToolType, PlaceType, CountType
    <3>2. \A i \in 1 .. Len(line') : line'[i].req = step /\ line'[i].more = left + (Len(line') - i)
      <4> SUFFICES ASSUME NEW i \in 1 .. Len(line) - 1
                   PROVE  Tail(line)[i].req = step /\ Tail(line)[i].more = left + (Len(line) - 1 - i)
        BY <1>0, <1>1
      <4>1. i + 1 \in 1 .. Len(line) /\ Tail(line)[i] = line[i + 1]
        BY <1>1
      <4>2. line[i + 1].req = step /\ line[i + 1].more = left + (Len(line) - (i + 1))
        BY <4>1, <1>2, <1>4 DEF LineInv
      <4> QED BY <4>1, <4>2, <1>1
    <3>3. due # 0 => left # 0
      BY <1>0, <1>2, <1>4 DEF LineInv
    <3> QED BY <1>2, <1>4, <3>1, <3>2, <3>3 DEF LineInv
  <2>5. PlainOrFrames'
    <3>1. CASE Len(line) = 1
      BY <3>1, <1>0, <1>1, <1>2, <1>4 DEF PlainOrFrames
    <3>2. CASE Len(line) # 1
      <4>1. Tail(line) # <<>> /\ Tail(line)[Len(line) - 1] = line[Len(line)]
        BY <3>2, <1>1
      <4>2. \A i \in 1 .. Len(Tail(line)) : Tail(line)[i].frame # 0
        BY <1>1, <1>2, <1>4
      <4> QED BY <4>1, <4>2, <1>0, <1>1, <1>2, <1>4 DEF PlainOrFrames
    <3> QED BY <3>1, <3>2
  <2> QED BY <1>4, <2>2, <2>3, <2>4, <2>5 DEF ToolInv, WholeInv
<1>5. CASE /\ f.more = 0 \/ got = <<>>
           /\ cut' = (cut \/ f.more > 0) /\ opened' = f.frame
           /\ Menu!Judge(verdict, {f} \cup Menu!PartsOf(got))
  <2>1. \A x \in {f} \cup Menu!PartsOf(got) : x.req \in {step - 1, step} /\ (~cut => x.req = step)
    <3>1. f \in Menu!PartsOf(line)
      BY <1>1 DEF Menu!PartsOf
    <3> QED BY <1>0, <3>1, LineIsOwn
  <2>2. line' \in Seq(Part) /\ opened' \in Nat /\ cut' \in BOOLEAN
    BY <1>0, <1>1, <1>5, <1>t
  <2>3. ASSUME GoesOn(verdict)
        PROVE  ~cut /\ Menu!Request = "options"
    <3>1. Menu!Request = "options"
      BY <1>0, <1>t, <2>3, AfterShort DEF GoesOn, Menu!Encrypted
    <3>2. cut => Menu!Request \in {"key", "t1", "details"}
      BY <1>0 DEF ToolInv, CutInv
    <3> QED BY <3>1, <3>2
  <2>4. ASSUME GoesOn(verdict), f.more > 0 PROVE TakenEarly
    <3>1. ~cut /\ Menu!Request = "options" /\ LineInv
      BY <1>2, <2>3, <2>4
    <3>2. due \in {0, step} /\ (due = step => left > 0) /\ (left > 0 => due = step)
      BY <1>0, <1>t, <3>1 DEF LineInv
    <3>3. \A i \in 1 .. Len(line') : line'[i].req = step
      BY <1>0, <1>1, <1>3, <3>1
    <3> QED BY <3>1, <3>2, <3>3 DEF TakenEarly
  <2>5. ASSUME GoesOn(verdict), f.more = 0 PROVE TakenWhole
    <3>1. Len(line) = 1 /\ left = 0
      BY <1>1, <1>2, <1>t, <2>3, <2>5
    <3>2. due = 0
      BY <1>0, <1>2, <1>t, <2>3, <2>5, <3>1 DEF LineInv
    <3>3. line' = <<>> /\ opened' = sealed
      BY <1>0, <1>1, <1>2, <1>5, <2>3, <2>5, <3>1
    <3> QED BY <3>1, <3>2, <3>3 DEF TakenWhole
  <2>6. GoesOn(verdict) => /\ \A x \in {f} \cup Menu!PartsOf(got) : x.req = step
                           /\ (cut' => TakenEarly) /\ (~cut' => TakenWhole)
    <3>1. cut' = (cut \/ f.more > 0) /\ (f.more > 0 \/ f.more = 0)
      BY <1>5, <1>t
    <3>2. GoesOn(verdict) => ~cut /\ (cut' <=> f.more > 0)
      BY <3>1, <2>3
    <3>3. GoesOn(verdict) /\ cut' => TakenEarly
      BY <2>4, <3>2
    <3>4. GoesOn(verdict) /\ ~cut' => TakenWhole
      BY <2>5, <3>1, <3>2
    <3> QED BY <2>1, <3>2, <3>3, <3>4
  <2> DEFINE parts == {f} \cup Menu!PartsOf(got)
  <2>7. \A x \in parts : x.req \in {step - 1, step}
    BY <2>1
  <2>8. Menu!Judge(verdict, parts) /\ (GoesOn(verdict) => \A x \in parts : x.req = step)
    BY <1>5, <2>6
  <2> HIDE DEF parts
  <2> QED BY <1>0, <2>2, <2>6, <2>7, <2>8, JudgedIsOwn
<1> QED BY <1>0, <1>4, <1>5 DEF Menu!TakeFrame, Menu!program

LEMMA PartSent ==
  ASSUME ToolInv, Menu!SendPart
  PROVE  ToolInv'
<1>0. /\ Menu!Running /\ left > 0 /\ left' = left - 1
      /\ due' = CASE left > 1 -> due [] left = 1 /\ waiting /\ due # step -> step [] OTHER -> 0
      /\ UNCHANGED <<at, step, waiting, got, opened, heard, cut>>
  BY DEF Menu!SendPart, Menu!program
<1>1. /\ left \in Nat /\ due \in {0, step - 1, step} /\ step \in Nat \ {0} /\ sealed \in Nat /\ opened \in Nat
      /\ line \in Seq(Part) /\ due \in Nat /\ cut \in BOOLEAN
  BY DEF ToolInv, ToolType, PlaceType, CountType
<1> DEFINE Next1(part) ==
      \/ (\A i \in 1 .. Len(line) : line[i].frame = 0) /\ part.frame = 0 /\ sealed' = sealed
      \/ (\A i \in 1 .. Len(line) : line[i].frame # 0) /\ part.frame # 0 /\ sealed' = part.frame
         /\ Menu!Encrypted
<1>2. \E part \in Part :
        line' = Append(line, part) /\ part.req = due /\ part.more = left - 1 /\ Next1(part)
  <2>1. CASE /\ (\A i \in 1 .. Len(line) : line[i].frame = Menu!None)
             /\ line' = Append(line, [req |-> due, more |-> left - 1, frame |-> Menu!None])
             /\ UNCHANGED sealed
    <3> DEFINE part == [req |-> due, more |-> left - 1, frame |-> Menu!None]
    <3>1. part \in Part /\ part.req = due /\ part.more = left - 1 /\ part.frame = 0
      BY <1>0, <1>1 DEF Menu!None, Part
    <3>2. line' = Append(line, part) /\ Next1(part)
      BY <2>1, <3>1 DEF Menu!None
    <3> HIDE DEF part, Next1
    <3> QED BY <3>1, <3>2
  <2>2. CASE /\ \A i \in 1 .. Len(line) : line[i].frame # Menu!None
             /\ Menu!Encrypted
             /\ \E c \in {sealed, sealed + 1} :
                  /\ line' = Append(line, [req |-> due, more |-> left - 1, frame |-> c + 1])
                  /\ sealed' = c + 1
    <3>0. PICK c \in {sealed, sealed + 1} :
             /\ line' = Append(line, [req |-> due, more |-> left - 1, frame |-> c + 1])
             /\ sealed' = c + 1
      BY <2>2
    <3> DEFINE part == [req |-> due, more |-> left - 1, frame |-> c + 1]
    <3>1. part \in Part /\ part.req = due /\ part.more = left - 1 /\ part.frame = c + 1 /\ c + 1 # 0
      BY <1>0, <1>1 DEF Part
    <3>2. line' = Append(line, part) /\ Next1(part)
      BY <2>2, <3>0, <3>1 DEF Menu!None
    <3> HIDE DEF part, Next1
    <3> QED BY <3>1, <3>2
  <2> HIDE DEF Next1
  <2> QED BY <2>1, <2>2 DEF Menu!SendPart
<1>3. PICK part \in Part :
        line' = Append(line, part) /\ part.req = due /\ part.more = left - 1 /\ Next1(part)
  BY <1>2
<1>4. /\ line' \in Seq(Part) /\ Len(line') = Len(line) + 1 /\ Len(line) \in Nat
      /\ (\A i \in 1 .. Len(line) : line'[i] = line[i]) /\ line'[Len(line) + 1] = part
      /\ line' # <<>> /\ part.frame \in Nat
  BY <1>1, <1>3 DEF Part
<1>c. due' \in {0, due, step}
  BY <1>0
<1>5. ToolType'
  <2>1. PlaceType'
    BY <1>0 DEF ToolInv, ToolType, PlaceType
  <2>2. CountType'
    BY <1>0, <1>1, <1>3, <1>4, <1>c DEF ToolInv, ToolType, CountType
  <2> QED BY <2>1, <2>2 DEF ToolType
<1>6. HeardInv' /\ OwnInv'
  BY <1>0 DEF ToolInv, HeardInv, OwnInv
<1>7. ASSUME ~cut PROVE WholeInv'
  <2>1. LineInv /\ PlainOrFrames /\ QuietInv
    BY <1>0, <1>7 DEF ToolInv, WholeInv
  <2>2. due = step /\ waiting /\ due' = (IF left = 1 THEN 0 ELSE due)
    BY <2>1, <1>0, <1>1 DEF LineInv, QuietInv
  <2>3. LineInv'
    <3>1. \A i \in 1 .. Len(line') : line'[i].req = step /\ line'[i].more = left' + (Len(line') - i)
      <4> TAKE i \in 1 .. Len(line')
      <4>1. CASE i \in 1 .. Len(line)
        <5>1. line'[i].req = step /\ line'[i].more = left + (Len(line) - i)
          BY <2>1, <4>1, <1>4 DEF LineInv
        <5> QED BY <5>1, <4>1, <1>0, <1>1, <1>4
      <4>2. CASE i = Len(line) + 1
        BY <4>2, <2>2, <1>0, <1>1, <1>3, <1>4
      <4> QED BY <4>1, <4>2, <1>4
    <3>2. (left' > 0 => due' = step') /\ (due' # 0 => left' # 0) /\ due' \in {0, step'}
      BY <2>2, <1>0, <1>1
    <3> QED BY <2>1, <3>1, <3>2, <1>0 DEF LineInv
  <2>4. PlainOrFrames'
    <3>1. CASE (\A i \in 1 .. Len(line) : line[i].frame = 0) /\ part.frame = 0 /\ sealed' = sealed
      <4>1. opened = sealed
        BY <2>1, <3>1, <1>1 DEF PlainOrFrames
      <4>2. \A i \in 1 .. Len(line') : line'[i].frame = 0
        BY <3>1, <1>4
      <4> QED BY <4>1, <4>2, <3>1, <1>0 DEF PlainOrFrames
    <3>2. CASE (\A i \in 1 .. Len(line) : line[i].frame # 0) /\ part.frame # 0 /\ sealed' = part.frame
      BY <3>2, <1>4 DEF PlainOrFrames
    <3> QED BY <3>1, <3>2, <1>3
  <2>5. QuietInv'
    BY <1>0, <2>2 DEF QuietInv
  <2> QED BY <2>3, <2>4, <2>5 DEF WholeInv
<1>8. ASSUME cut PROVE CutInv'
  <2>1. CutInv
    BY <1>0, <1>8 DEF ToolInv
  <2>2. due \in {step - 1, step} /\ step > 1 /\ (~waiting => due = step - 1)
    BY <2>1, <1>0, <1>1 DEF CutInv
  <2>3. Menu!Request' = Menu!Request
    BY <1>0, SameRequest
  <2>4. /\ left' > 0 => due' # 0
        /\ due' = step - 1 => left' > 0
        /\ ~waiting => due' # step
        /\ due = step => due' # step - 1 /\ (due' = 0 <=> left' = 0) /\ waiting
    BY <2>2, <1>0, <1>1
  <2>5. \A i \in 1 .. Len(line') : line'[i].req \in {step - 1, step}
    <3> TAKE i \in 1 .. Len(line')
    <3>1. CASE i \in 1 .. Len(line)
      BY <3>1, <2>1, <1>4 DEF CutInv
    <3>2. CASE i = Len(line) + 1
      BY <3>2, <2>2, <1>3, <1>4
    <3> QED BY <3>1, <3>2, <1>4
  <2>6. line'[Len(line')].req = due /\ line'[Len(line')].more = left'
    BY <1>0, <1>3, <1>4
  <2>7. Menu!Request # "details" => opened' = sealed'
    <3>1. Menu!Request # "details" => sealed' = sealed
      BY <2>1, <1>3 DEF CutInv, Menu!Encrypted
    <3> QED BY <2>1, <3>1, <1>0 DEF CutInv
  <2> QED BY <1>0, <2>1, <2>2, <2>3, <2>4, <2>5, <2>6, <2>7 DEF CutInv
<1> QED BY <1>0, <1>5, <1>6, <1>7, <1>8 DEF ToolInv, Menu!Running

LEMMA RequestSent ==
  ASSUME ToolInv, Menu!Ask
  PROVE  ToolInv'
<1>1. /\ Menu!Running /\ ~waiting /\ waiting' = TRUE /\ due' = (IF due = 0 THEN step ELSE due)
      /\ UNCHANGED <<at, step, left, line, got, sealed, opened, heard, cut>>
  BY DEF Menu!Ask, Menu!program
<1>2. ToolType'
  <2>1. PlaceType'
    BY <1>1 DEF ToolInv, ToolType, PlaceType
  <2>2. CountType'
    BY <1>1 DEF ToolInv, ToolType, CountType
  <2> QED BY <2>1, <2>2 DEF ToolType
<1>3. HeardInv' /\ OwnInv'
  BY <1>1 DEF ToolInv, HeardInv, OwnInv
<1>4. ~cut => WholeInv'
  BY <1>1 DEF ToolInv, WholeInv, LineInv, PlainOrFrames, QuietInv
<1>5. ASSUME cut PROVE CutInv'
  <2>1. CutInv /\ step \in Nat \ {0} /\ left \in Nat /\ due \in {0, step - 1, step}
    BY <1>1, <1>5 DEF ToolInv, ToolType, CountType
  <2>2. due # step /\ (line # <<>> => line[Len(line)].req # step)
    BY <1>1, <2>1 DEF CutInv
  <2>3. due' \in {step - 1, step} /\ (due' = step - 1 => left > 0) /\ (left > 0 => due' # 0)
    BY <1>1, <2>1, <2>2 DEF CutInv
  <2> QED BY <1>1, <2>1, <2>2, <2>3, SameRequest DEF CutInv
<1> QED BY <1>1, <1>2, <1>3, <1>4, <1>5 DEF ToolInv

LEMMA ToolAnswered ==
  ASSUME ToolInv, Menu!Answer, MaxParts \in Nat
  PROVE  ToolInv'
<1>1. /\ Menu!Running /\ due # 0 /\ left = 0 /\ left' \in 1 .. MaxParts
      /\ UNCHANGED <<at, step, waiting, due, line, got, sealed, opened, heard, cut>>
  BY DEF Menu!Answer, Menu!program
<1>2. ToolType' /\ left' > 0 /\ left' \in Nat
  <2>1. PlaceType'
    BY <1>1 DEF ToolInv, ToolType, PlaceType
  <2>2. CountType'
    BY <1>1 DEF ToolInv, ToolType, CountType
  <2>3. left' > 0 /\ left' \in Nat
    BY <1>1
  <2> QED BY <2>1, <2>2, <2>3 DEF ToolType
<1>3. HeardInv' /\ OwnInv'
  BY <1>1 DEF ToolInv, HeardInv, OwnInv
<1>4. ASSUME ~cut PROVE WholeInv'
  <2>1. LineInv /\ PlainOrFrames /\ QuietInv
    BY <1>1, <1>4 DEF ToolInv, WholeInv
  <2>2. due = step /\ line = <<>> /\ got = <<>> /\ waiting
    BY <1>1, <2>1 DEF LineInv, QuietInv
  <2>3. LineInv'
    BY <1>1, <1>2, <2>1, <2>2 DEF LineInv
  <2>4. PlainOrFrames' /\ QuietInv'
    BY <1>1, <2>1, <2>2 DEF PlainOrFrames, QuietInv
  <2> QED BY <2>3, <2>4 DEF WholeInv
<1>5. ASSUME cut PROVE CutInv'
  <2>1. CutInv /\ step \in Nat \ {0} /\ due \in {0, step - 1, step}
    BY <1>1, <1>5 DEF ToolInv, ToolType, CountType
  <2>2. due = step
    BY <1>1, <2>1 DEF CutInv
  <2>3. line # <<>> => line[Len(line)].req # step
    BY <1>1, <2>1, <2>2 DEF CutInv
  <2> QED BY <1>1, <1>2, <2>1, <2>2, <2>3, SameRequest DEF CutInv
<1> QED BY <1>1, <1>2, <1>3, <1>4, <1>5 DEF ToolInv

LEMMA ToolWaits ==
  ASSUME ToolInv, UNCHANGED <<step, waiting, due, left, line, got, sealed, opened, heard, cut>>,
         at' \in {"menu", "off"} \/ at' = at
  PROVE  ToolInv'
<1>1. ToolType' /\ HeardInv' /\ (OwnInv => OwnInv')
  <2>1. PlaceType'
    BY DEF ToolInv, ToolType, PlaceType
  <2>2. CountType'
    BY DEF ToolInv, ToolType, CountType
  <2>3. HeardInv' /\ (OwnInv => OwnInv')
    BY DEF ToolInv, HeardInv, OwnInv
  <2> QED BY <2>1, <2>2, <2>3 DEF ToolType
<1>2. Menu!Running' => Menu!Running /\ at' = at
  BY DEF Menu!Running, Menu!Methods
<1>3. WholeInv => WholeInv'
  BY DEF WholeInv, LineInv, PlainOrFrames, QuietInv
<1>4. at' = at /\ CutInv => CutInv'
  BY SameRequest DEF CutInv
<1> QED BY <1>1, <1>2, <1>3, <1>4 DEF ToolInv

LEMMA ToolStepKeeps == ToolInv /\ MaxParts \in Nat /\ [Menu!MenuNext]_menu => ToolInv'
<1> SUFFICES ASSUME ToolInv, MaxParts \in Nat, [Menu!MenuNext]_menu PROVE ToolInv'
  OBVIOUS
<1>1. CASE UNCHANGED menu
  BY <1>1, ToolWaits DEF menu
<1>2. CASE Menu!Main
  BY <1>2, ToolWaits, IdleIsQuiet DEF Menu!Main, Menu!Opens, Menu!conn, Menu!Methods
<1>3. CASE Menu!Exit
  BY <1>3, ToolWaits DEF Menu!Exit, Menu!conn
<1>4. CASE Menu!Ask
  BY <1>4, RequestSent
<1>5. CASE Menu!ReadHttp
  BY <1>5, PlainRead, HeadersRead DEF Menu!ReadHttp
<1>6. CASE Menu!ReadRtsp \/ Menu!ReadPrefixed
  BY <1>6, PlainRead, HeadersRead, JoinedRead DEF Menu!ReadRtsp, Menu!ReadPrefixed
<1>7. CASE Menu!ReadFrame
  BY <1>7, FrameRead
<1>8. CASE Menu!GivesUp
  BY <1>8, IdleIsQuiet, EndsOff DEF Menu!GivesUp
<1>9. CASE Menu!Answer
  BY <1>9, ToolAnswered
<1>10. CASE Menu!SendPart
  BY <1>10, PartSent
<1>11. CASE Menu!Forgets
  BY <1>11, ToolWaits DEF Menu!Forgets, Menu!conn, Menu!program
<1>12. ASSUME NEW m \in Menu!Methods, Menu!Choose(m) PROVE ToolInv'
  BY <1>12, IdleIsQuiet DEF Menu!Choose, Menu!Opens
<1> QED BY <1>1, <1>2, <1>3, <1>4, <1>5, <1>6, <1>7, <1>8, <1>9, <1>10, <1>11, <1>12
         DEF Menu!MenuNext

-----------------------------------------------------------------------------
(* The library: the stage of a protocol and its machine.                     *)

ApiType ==
  /\ stage \in [Api!Protocols -> Api!Stages]
  /\ DOMAIN machine = Api!Protocols
  /\ \A p \in Api!Protocols : "state" \in DOMAIN machine[p]

\* A transient machine stays one, so that SetupDone completes it.
ApiInv ==
  /\ ApiType
  /\ "transient" \in DOMAIN machine["transient"] /\ machine["transient"].transient
  /\ Api!StagesAgree

LEMMA FirstApi == Api!ApiInit => ApiInv
<1> SUFFICES ASSUME Api!ApiInit PROVE ApiInv
  OBVIOUS
<1>1. /\ stage = [p \in Api!Protocols |-> "NotStarted"] /\ taken = <<>>
      /\ DOMAIN machine = Api!Protocols
      /\ machine["setup"] = Api!NewSetup(FALSE, Api!Pin, 1)
      /\ machine["transient"] = Api!NewSetup(TRUE, Api!Pin, 2)
      /\ machine["verify"] = Api!NewVerify(1, "derived") /\ machine["fairplay"] = Api!NewFairPlay
  BY DEF Api!ApiInit, Api!Protocols
<1>2. \A p \in Api!Protocols : "state" \in DOMAIN machine[p] /\ machine[p].state = "Initial"
  BY <1>1 DEF Api!NewSetup, Api!NewVerify, Api!NewFairPlay, Api!Protocols
<1>3. "transient" \in DOMAIN machine["transient"] /\ machine["transient"].transient
  BY <1>1 DEF Api!NewSetup
<1>4. Api!StagesAgree
  BY <1>1, <1>2 DEF Api!StagesAgree, Api!Behind
<1>5. ApiType
  BY <1>1, <1>2 DEF ApiType, Api!Stages
<1> QED BY <1>3, <1>4, <1>5 DEF ApiInv

\* One protocol goes on: its machine is one that the new stage may have, and if keys come
\* with it they are the ones of its complete exchange.
LEMMA OneGoesOn ==
  ASSUME ApiInv, NEW p \in Api!Protocols, NEW m, NEW s \in Api!Stages,
         "state" \in DOMAIN m,
         machine' = [machine EXCEPT ![p] = m],
         stage' = [stage EXCEPT ![p] = s],
         m.state \in Api!Behind(p)',
         p = "transient" => "transient" \in DOMAIN m /\ m.transient,
         stage[p] # "Complete",
         \/ taken' = taken
         \/ p \in {"transient", "verify"} /\ s = "Complete" /\ taken' = m.secret
  PROVE  ApiInv'
<1>1. ApiType'
  BY DEF ApiInv, ApiType
<1>2. /\ machine'[p] = m /\ stage'[p] = s
      /\ \A q \in Api!Protocols \ {p} : machine'[q] = machine[q] /\ stage'[q] = stage[q]
  BY DEF ApiInv, ApiType
<1>3. "transient" \in DOMAIN machine'["transient"] /\ machine'["transient"].transient
  BY <1>2 DEF ApiInv, Api!Protocols
<1>4. \A q \in Api!Protocols : machine'[q].state \in Api!Behind(q)'
  BY <1>2 DEF ApiInv, Api!StagesAgree, Api!Behind
<1>5. taken' # <<>> => \E q \in {"transient", "verify"} :
                          stage'[q] = "Complete" /\ taken' = machine'[q].secret
  <2>1. CASE taken' = taken
    <3> SUFFICES ASSUME taken # <<>>
                 PROVE  \E q \in {"transient", "verify"} :
                          stage'[q] = "Complete" /\ taken' = machine'[q].secret
      BY <2>1
    <3>1. PICK q \in {"transient", "verify"} : stage[q] = "Complete" /\ taken = machine[q].secret
      BY DEF ApiInv, Api!StagesAgree
    <3>2. q \in Api!Protocols \ {p}
      BY <3>1 DEF Api!Protocols
    <3> QED BY <2>1, <3>1, <3>2, <1>2
  <2>2. CASE p \in {"transient", "verify"} /\ s = "Complete" /\ taken' = m.secret
    BY <2>2, <1>2
  <2> QED BY <2>1, <2>2
<1>6. Api!StagesAgree'
  BY <1>4, <1>5 DEF Api!StagesAgree
<1> QED BY <1>1, <1>3, <1>6 DEF ApiInv

\* A reply is good and the protocol moves on, or it is refused.
LEMMA ReplyTaken ==
  ASSUME ApiInv, NEW p \in Api!Protocols, NEW read, NEW good, NEW sent, NEW next \in Api!Stages,
         Api!Take(p, read, good, sent, next),
         stage[p] \in {"WaitingM2", "WaitingM4", "WaitingM6"},
         "state" \in DOMAIN read, "state" \in DOMAIN sent,
         p = "transient" => /\ "transient" \in DOMAIN read /\ read.transient
                            /\ "transient" \in DOMAIN sent /\ sent.transient,
         read.state # good => read.state \in Api!Behind(p),
         read.state = good => sent.state = (CASE next = "WaitingM4" -> "M3Sent"
                                              [] next = "WaitingM6" -> "M5Sent"
                                              [] OTHER -> "Complete")
                              \/ (next = "WaitingM4" /\ sent.state = "Phase3Sent"),
         next \in {"WaitingM4", "WaitingM6", "Complete"}
  PROVE  ApiInv'
<1> DEFINE s == IF read.state = good THEN next ELSE stage[p]
           m == IF read.state = good THEN sent ELSE read
<1>1. machine' = [machine EXCEPT ![p] = m]
  BY DEF Api!Take
<1>2. stage' = [stage EXCEPT ![p] = s]
  <2>1. stage = [stage EXCEPT ![p] = stage[p]]
    BY DEF ApiInv, ApiType
  <2> QED BY <2>1 DEF Api!Take
<1>3. s \in Api!Stages /\ "state" \in DOMAIN m /\ stage'[p] = s
  BY <1>2 DEF ApiInv, ApiType
<1>4. p = "transient" => "transient" \in DOMAIN m /\ m.transient
  OBVIOUS
<1>5. m.state \in Api!Behind(p)'
  <2>1. CASE read.state = good
    BY <2>1, <1>3 DEF Api!Behind
  <2>2. CASE read.state # good
    BY <2>2, <1>3 DEF Api!Behind
  <2> QED BY <2>1, <2>2
<1>6. \/ taken' = taken
      \/ p \in {"transient", "verify"} /\ s = "Complete" /\ taken' = m.secret
  BY DEF Api!Take
<1>7. stage[p] # "Complete"
  OBVIOUS
<1> HIDE DEF s, m
<1> QED BY <1>1, <1>2, <1>3, <1>4, <1>5, <1>6, <1>7, OneGoesOn

\* What the machines of setup make of a reply.
LEMMA ApiSetup ==
  ASSUME NEW s, "state" \in DOMAIN s, NEW r
  PROVE  /\ DOMAIN Api!SetupM2(s, r) = DOMAIN s /\ Api!SetupM2(s, r).state \in {"M2Received", "Failed"}
         /\ DOMAIN Api!SetupM3(s) = DOMAIN s /\ Api!SetupM3(s).state \in {"M3Sent", "Failed"}
         /\ s.state = "M2Received" => Api!SetupM3(s).state = "M3Sent"
         /\ DOMAIN Api!SetupM4(s, r) = DOMAIN s /\ Api!SetupM4(s, r).state \in {"M4Received", "Failed"}
         /\ DOMAIN Api!SetupM5(s) = DOMAIN s
         /\ s.state = "M4Received" => Api!SetupM5(s).state = "M5Sent"
         /\ DOMAIN Api!SetupM6(s, r) = DOMAIN s /\ Api!SetupM6(s, r).state \in {"Complete", "Failed"}
         /\ DOMAIN Api!SetupDone(s) = DOMAIN s
         /\ s.state = "M4Received" /\ s.transient /\ "transient" \in DOMAIN s
              => Api!SetupDone(s).state = "Complete"
BY DEF Api!SetupM2, Api!SetupM3, Api!SetupM4, Api!SetupM5, Api!SetupM6, Api!SetupDone, Api!Fail

LEMMA TransientStays ==
  ASSUME NEW s, "state" \in DOMAIN s, "transient" \in DOMAIN s, s.transient, NEW r
  PROVE  /\ Api!SetupM1(s).transient /\ Api!SetupM2(s, r).transient /\ Api!SetupM3(s).transient
         /\ Api!SetupM4(s, r).transient /\ Api!SetupDone(s).transient
BY DEF Api!SetupM1, Api!SetupM2, Api!SetupM3, Api!SetupM4, Api!SetupDone, Api!Fail

LEMMA ApiVerify ==
  ASSUME NEW v, "state" \in DOMAIN v, NEW r
  PROVE  /\ "state" \in DOMAIN Api!VerifyM2(v, r)
         /\ Api!VerifyM2(v, r).state \in {"M2Received", "Failed", v.state}
         /\ v.state = "M2Received" => Api!VerifyM3(v).state = "M3Sent"
         /\ "state" \in DOMAIN Api!VerifyM3(v)
         /\ "state" \in DOMAIN Api!VerifyM4(v, r)
         /\ Api!VerifyM4(v, r).state \in {"Complete", "Failed", v.state}
<1>1. /\ "state" \in DOMAIN Api!Agreed(v, r) /\ Api!Agreed(v, r).state = v.state
      /\ DOMAIN Api!Agreed(v, r) = DOMAIN v
  BY DEF Api!Agreed
<1>2. ASSUME NEW w, "state" \in DOMAIN w
      PROVE  "state" \in DOMAIN Api!LearnOrder(w, r) /\ Api!LearnOrder(w, r).state \in {"M2Received", "Failed"}
  BY <1>2 DEF Api!LearnOrder, Api!Fail
<1>3. /\ "state" \in DOMAIN Api!VerifyM2(v, r)
      /\ Api!VerifyM2(v, r).state \in {"M2Received", "Failed", v.state}
  BY <1>1, <1>2 DEF Api!VerifyM2, Api!Fail
<1>4. /\ v.state = "M2Received" => Api!VerifyM3(v).state = "M3Sent"
      /\ "state" \in DOMAIN Api!VerifyM3(v)
  BY DEF Api!VerifyM3
<1>5. /\ "state" \in DOMAIN Api!VerifyM4(v, r)
      /\ Api!VerifyM4(v, r).state \in {"Complete", "Failed", v.state}
  BY DEF Api!VerifyM4, Api!Fail
<1> QED BY <1>3, <1>4, <1>5

LEMMA ApiStarts ==
  ASSUME ApiInv, NEW p \in Api!Protocols, Api!Start(p)
  PROVE  ApiInv'
<1> DEFINE m == Api!Started(p)
<1>1. /\ machine' = [machine EXCEPT ![p] = m] /\ stage' = [stage EXCEPT ![p] = "WaitingM2"]
      /\ taken' = taken /\ stage[p] = "NotStarted"
  BY DEF Api!Start
<1>2. "state" \in DOMAIN machine[p] /\ machine[p].state = "Initial"
  BY <1>1 DEF ApiInv, ApiType, Api!StagesAgree, Api!Behind
<1>3. "state" \in DOMAIN m /\ m.state \in {"M1Sent", "Phase1Sent"}
  BY <1>2 DEF Api!Started, Api!SetupM1, Api!VerifyM1, Api!Phase1, Api!Protocols
<1>4. p = "transient" => "transient" \in DOMAIN m /\ m.transient
  BY <1>2 DEF Api!Started, Api!SetupM1, ApiInv
<1>5. m.state \in Api!Behind(p)'
  BY <1>1, <1>3 DEF Api!Behind, ApiInv, ApiType
<1> HIDE DEF m
<1>6. "WaitingM2" \in Api!Stages
  BY DEF Api!Stages
<1> QED BY <1>1, <1>3, <1>4, <1>5, <1>6, OneGoesOn

LEMMA StagesThere == {"WaitingM2", "WaitingM4", "WaitingM6", "Complete"} \subseteq Api!Stages
BY DEF Api!Stages

LEMMA SetupGoesOn ==
  ASSUME ApiInv, NEW r, Api!ContinueSetup(r)
  PROVE  ApiInv'
<1> DEFINE p == "setup"  m == machine["setup"]
           m2 == Api!SetupM2(m, r)  m4 == Api!SetupM4(m, r)  m6 == Api!SetupM6(m, r)
<1>0. p \in Api!Protocols /\ p # "transient"
  BY DEF Api!Protocols
<1>1. "state" \in DOMAIN m
  BY <1>0 DEF ApiInv, ApiType
<1>2. CASE stage[p] = "WaitingM2" /\ Api!Take(p, m2, "M2Received", Api!SetupM3(m2), "WaitingM4")
  <2>1. DOMAIN m2 = DOMAIN m /\ m2.state \in {"M2Received", "Failed"}
    BY <1>1, ApiSetup
  <2>2. DOMAIN Api!SetupM3(m2) = DOMAIN m /\ (m2.state = "M2Received" => Api!SetupM3(m2).state = "M3Sent")
    BY <1>1, <2>1, ApiSetup
  <2>3. m2.state # "M2Received" => m2.state \in Api!Behind(p)
    BY <1>2, <2>1 DEF Api!Behind
  <2> HIDE DEF m, m2
  <2> QED BY <1>0, <1>1, <1>2, <2>1, <2>2, <2>3, StagesThere, ReplyTaken
<1>3. CASE stage[p] = "WaitingM4" /\ Api!Take(p, m4, "M4Received", Api!SetupM5(m4), "WaitingM6")
  <2>1. DOMAIN m4 = DOMAIN m /\ m4.state \in {"M4Received", "Failed"}
    BY <1>1, ApiSetup
  <2>2. DOMAIN Api!SetupM5(m4) = DOMAIN m /\ (m4.state = "M4Received" => Api!SetupM5(m4).state = "M5Sent")
    BY <1>1, <2>1, ApiSetup
  <2>3. m4.state # "M4Received" => m4.state \in Api!Behind(p)
    BY <1>3, <2>1 DEF Api!Behind
  <2> HIDE DEF m, m4
  <2> QED BY <1>0, <1>1, <1>3, <2>1, <2>2, <2>3, StagesThere, ReplyTaken
<1>4. CASE stage[p] = "WaitingM6" /\ Api!Take(p, m6, "Complete", m6, "Complete")
  <2>1. DOMAIN m6 = DOMAIN m /\ m6.state \in {"Complete", "Failed"}
    BY <1>1, ApiSetup
  <2>3. m6.state # "Complete" => m6.state \in Api!Behind(p)
    BY <1>4, <2>1 DEF Api!Behind
  <2> HIDE DEF m, m6
  <2> QED BY <1>0, <1>1, <1>4, <2>1, <2>3, StagesThere, ReplyTaken
<1> QED BY <1>2, <1>3, <1>4 DEF Api!ContinueSetup

LEMMA TransientGoesOn ==
  ASSUME ApiInv, NEW r, Api!ContinueTransient(r)
  PROVE  ApiInv'
<1> DEFINE p == "transient"  m == machine["transient"]
           m2 == Api!SetupM2(m, r)  m4 == Api!SetupM4(m, r)
<1>0. p \in Api!Protocols
  BY DEF Api!Protocols
<1>1. "state" \in DOMAIN m /\ "transient" \in DOMAIN m /\ m.transient
  BY <1>0 DEF ApiInv, ApiType
<1>2. CASE stage[p] = "WaitingM2" /\ Api!Take(p, m2, "M2Received", Api!SetupM3(m2), "WaitingM4")
  <2>1. DOMAIN m2 = DOMAIN m /\ m2.state \in {"M2Received", "Failed"} /\ m2.transient
    BY <1>1, ApiSetup, TransientStays
  <2>2. /\ DOMAIN Api!SetupM3(m2) = DOMAIN m /\ Api!SetupM3(m2).transient
        /\ m2.state = "M2Received" => Api!SetupM3(m2).state = "M3Sent"
    BY <1>1, <2>1, ApiSetup, TransientStays
  <2>3. m2.state # "M2Received" => m2.state \in Api!Behind(p)
    BY <1>2, <2>1 DEF Api!Behind
  <2> HIDE DEF m, m2
  <2> QED BY <1>0, <1>1, <1>2, <2>1, <2>2, <2>3, StagesThere, ReplyTaken
<1>3. CASE stage[p] = "WaitingM4" /\ Api!Take(p, m4, "M4Received", Api!SetupDone(m4), "Complete")
  <2>1. DOMAIN m4 = DOMAIN m /\ m4.state \in {"M4Received", "Failed"} /\ m4.transient
    BY <1>1, ApiSetup, TransientStays
  <2>2. /\ DOMAIN Api!SetupDone(m4) = DOMAIN m /\ Api!SetupDone(m4).transient
        /\ m4.state = "M4Received" => Api!SetupDone(m4).state = "Complete"
    BY <1>1, <2>1, ApiSetup, TransientStays
  <2>3. m4.state # "M4Received" => m4.state \in Api!Behind(p)
    BY <1>3, <2>1 DEF Api!Behind
  <2> HIDE DEF m, m4
  <2> QED BY <1>0, <1>1, <1>3, <2>1, <2>2, <2>3, StagesThere, ReplyTaken
<1> QED BY <1>2, <1>3 DEF Api!ContinueTransient

LEMMA VerifyGoesOn ==
  ASSUME ApiInv, NEW r, Api!ContinueVerify(r)
  PROVE  ApiInv'
<1> DEFINE p == "verify"  m == machine["verify"]  m2 == Api!VerifyM2(m, r)  m4 == Api!VerifyM4(m, r)
<1>0. p \in Api!Protocols /\ p # "transient"
  BY DEF Api!Protocols
<1>1. "state" \in DOMAIN m /\ m.state \in Api!Behind(p)
  BY <1>0 DEF ApiInv, ApiType, Api!StagesAgree
<1>2. CASE stage[p] = "WaitingM2" /\ Api!Take(p, m2, "M2Received", Api!VerifyM3(m2), "WaitingM4")
  <2>1. "state" \in DOMAIN m2 /\ m2.state \in {"M2Received", "Failed", m.state}
    BY <1>1, ApiVerify
  <2>2. "state" \in DOMAIN Api!VerifyM3(m2) /\ (m2.state = "M2Received" => Api!VerifyM3(m2).state = "M3Sent")
    BY <2>1, ApiVerify
  <2>3. m2.state # "M2Received" => m2.state \in Api!Behind(p)
    BY <1>1, <1>2, <2>1 DEF Api!Behind
  <2> HIDE DEF m, m2
  <2> QED BY <1>0, <1>2, <2>1, <2>2, <2>3, StagesThere, ReplyTaken
<1>3. CASE stage[p] = "WaitingM4" /\ Api!Take(p, m4, "Complete", m4, "Complete")
  <2>1. "state" \in DOMAIN m4 /\ m4.state \in {"Complete", "Failed", m.state}
    BY <1>1, ApiVerify
  <2>3. m4.state # "Complete" => m4.state \in Api!Behind(p)
    BY <1>1, <1>3, <2>1 DEF Api!Behind
  <2> HIDE DEF m, m4
  <2> QED BY <1>0, <1>3, <2>1, <2>3, StagesThere, ReplyTaken
<1> QED BY <1>2, <1>3 DEF Api!ContinueVerify

LEMMA FairPlayGoesOn ==
  ASSUME ApiInv, NEW r, Api!ContinueFairPlay(r)
  PROVE  ApiInv'
<1> DEFINE p == "fairplay"  m == machine["fairplay"]
           m2 == Api!Phase1Reply(m, r)  m4 == Api!Phase3Reply(m, r)
<1>0. p \in Api!Protocols /\ p # "transient"
  BY DEF Api!Protocols
<1>1. "state" \in DOMAIN m
  BY <1>0 DEF ApiInv, ApiType
<1>2. CASE stage[p] = "WaitingM2" /\ Api!Take(p, m2, "Phase1Complete", Api!Phase3(m2), "WaitingM4")
  <2>1. "state" \in DOMAIN m2 /\ m2.state \in {"Phase1Complete", "Failed"}
    BY <1>1 DEF Api!Phase1Reply, Api!Fail
  <2>2. "state" \in DOMAIN Api!Phase3(m2) /\ (m2.state = "Phase1Complete" => Api!Phase3(m2).state = "Phase3Sent")
    BY <2>1 DEF Api!Phase3, Api!Fail
  <2>3. m2.state # "Phase1Complete" => m2.state \in Api!Behind(p)
    BY <1>2, <2>1 DEF Api!Behind
  <2> HIDE DEF m, m2
  <2> QED BY <1>0, <1>2, <2>1, <2>2, <2>3, StagesThere, ReplyTaken
<1>3. CASE stage[p] = "WaitingM4" /\ Api!Take(p, m4, "Complete", m4, "Complete")
  <2>1. "state" \in DOMAIN m4 /\ m4.state \in {"Complete", "Failed"}
    BY <1>1 DEF Api!Phase3Reply, Api!Fail
  <2>3. m4.state # "Complete" => m4.state \in Api!Behind(p)
    BY <1>3, <2>1 DEF Api!Behind
  <2> HIDE DEF m, m4
  <2> QED BY <1>0, <1>3, <2>1, <2>3, StagesThere, ReplyTaken
<1> QED BY <1>2, <1>3 DEF Api!ContinueFairPlay

LEMMA ApiStands ==
  ASSUME ApiInv, UNCHANGED <<stage, machine>>, taken' \in {taken, <<>>}
  PROVE  ApiInv'
<1>1. ApiType'
  BY DEF ApiInv, ApiType
<1>2. Api!StagesAgree'
  BY DEF ApiInv, Api!StagesAgree, Api!Behind
<1> QED BY <1>1, <1>2 DEF ApiInv

LEMMA ApiStepKeeps ==
  ASSUME ApiInv, Api!Session \/ Api!TakeKeys \/ Api!Verify \/ Api!Exchange \/ UNCHANGED session
  PROVE  ApiInv'
<1>1. CASE Api!Session
  <2>1. ASSUME NEW p \in Api!Protocols, Api!Start(p) PROVE ApiInv'
    BY <2>1, ApiStarts
  <2> QED BY <1>1, <2>1, SetupGoesOn, TransientGoesOn, VerifyGoesOn, FairPlayGoesOn DEF Api!Session
<1>2. CASE Api!TakeKeys
  BY <1>2, ApiStands DEF Api!TakeKeys
<1>3. CASE Api!Verify \/ Api!Exchange
  BY <1>3, ApiStands DEF Api!Verify, Api!Exchange
<1>4. CASE UNCHANGED session
  BY <1>4, ApiStands DEF session
<1> QED BY <1>1, <1>2, <1>3, <1>4

-----------------------------------------------------------------------------
(* The connection.  What a caller's machines, credentials and reply are      *)
(* worth at each of its awaits.                                              *)

Domains ==
  /\ DOMAIN pc = Callers /\ DOMAIN how = Callers /\ DOMAIN n = Callers
  /\ DOMAIN setup = Callers /\ DOMAIN verify = Callers /\ DOMAIN cred = Callers
  /\ DOMAIN keys = Callers /\ DOMAIN open = Callers /\ DOMAIN asked = Callers
  /\ DOMAIN reply = Callers /\ DOMAIN acc = Callers

Identity(c) ==
  /\ DOMAIN c = {"key", "id", "ltpk"}
  /\ c = Nobody \/ c.key \in 1 .. links

Shape(p) ==
  /\ pc[p] \in Waiting \cup {"idle", "menu", "paired"}
  /\ Identity(cred[p])
  /\ {"state", "secret", "ltpk"} \subseteq DOMAIN setup[p]
  /\ {"state", "key", "id", "eph", "own", "secret", "ltpk", "order"} \subseteq DOMAIN verify[p]
  /\ setup[p].state \in SetupStates /\ verify[p].state \in VerifyStates
  /\ asked[p] => pc[p] \in Waiting /\ reply[p] = Bad

\* An identity with a key was accepted, and so will be the one that a good M6 completes.
CredInv(p) ==
  /\ cred[p].ltpk # None => cred[p] \in accepted
  /\ pc[p] = "s6" /\ ~asked[p] /\ reply[p].step = 6 =>
       [cred[p] EXCEPT !.ltpk = reply[p].ltpk] \in accepted

\* Who asks to be registered has an identity of its own.
KeyInv(p) ==
  /\ how[p] \in {"pairing", "tool"} => cred[p].key \in 1 .. links
  /\ pc[p] \in {"s2", "s4", "s6"} => how[p] \in {"pairing", "tool"}
  /\ pc[p] = "menu" => how[p] = "tool"

Verifying(p) == pc[p] = "v2" \/ (pc[p] = "info" /\ how[p] = "verify")

SetupInv(p) ==
  /\ pc[p] = "info" => how[p] \in {"pin", "pairing", "verify"}
  /\ pc[p] \in {"t2", "s2"} \/ (pc[p] = "info" /\ how[p] # "verify") => setup[p].state = "M1Sent"
  /\ pc[p] \in {"t4", "s4"} => setup[p].state = "M3Sent" /\ setup[p].secret # <<>>

\* The machine of pair-verify is of the caller's identity and of this link; the order of
\* the signature has been learned when a key was known to check it with.
VerifyInv(p) ==
  /\ Verifying(p) \/ pc[p] = "v4" => verify[p].key = cred[p].key /\ verify[p].id = cred[p].id
  /\ Verifying(p) =>
       /\ verify[p].state = "M1Sent" /\ verify[p].eph = n[p]
       /\ cred[p].ltpk # None => verify[p].ltpk = cred[p].ltpk
  /\ pc[p] = "v2" /\ reply[p].step = 2 => reply[p].eph = n[p] /\ reply[p].order = order
  /\ pc[p] = "v4" =>
       /\ verify[p].state = "M3Sent" /\ verify[p].secret = <<n[p], n[p]>>
       /\ cred[p].ltpk # None => verify[p].order = order

\* A good M4 comes from an accessory that has changed to the keys of this exchange.
KeysInv(p) ==
  /\ pc[p] = "t4" /\ ~asked[p] /\ open[p] /\ reply[p].step = 4 => acc[p] = setup[p].secret
  /\ pc[p] = "v4" /\ ~asked[p] /\ open[p] /\ reply[p].step = 4 => acc[p] = verify[p].secret
  /\ pc[p] \in {"options", "paired"} => keys[p] # <<>> /\ (open[p] => acc[p] = keys[p])

CallerInv(p) ==
  Shape(p) /\ CredInv(p) /\ KeyInv(p) /\ SetupInv(p) /\ VerifyInv(p) /\ KeysInv(p)

FileInv == Identity(file) /\ SavedIsAccepted

\* A controller accepted by the present identity is known until it is removed.
TheirInv ==
  /\ links \in 0 .. MaxLinks /\ ident \in 1 .. (MaxResets + 1)
  /\ \A a \in accepted : a.ltpk \in Nat /\ a.ltpk <= ident
  /\ \A a \in accepted : a.ltpk = ident /\ [key |-> a.key, id |-> a.id] \notin forgotten =>
                            [key |-> a.key, id |-> a.id] \in known

ConnInv == Domains /\ (\A p \in Callers : CallerInv(p)) /\ FileInv /\ TheirInv

-----------------------------------------------------------------------------
(* What a step leaves alone.                                                 *)

SameAt(q) ==
  /\ pc'[q] = pc[q] /\ how'[q] = how[q] /\ n'[q] = n[q] /\ setup'[q] = setup[q]
  /\ verify'[q] = verify[q] /\ cred'[q] = cred[q] /\ keys'[q] = keys[q] /\ open'[q] = open[q]
  /\ asked'[q] = asked[q] /\ reply'[q] = reply[q] /\ acc'[q] = acc[q]

\* Only the caller p moves; what is accepted and opened grows.
OnlyHere(p) ==
  /\ Domains'
  /\ \A q \in Callers \ {p} : SameAt(q)

Grows ==
  /\ accepted \subseteq accepted' /\ links' \in Nat /\ links <= links' /\ order' = order

LEMMA IdentityStays ==
  ASSUME links \in Nat, Grows, NEW c, Identity(c)
  PROVE  Identity(c)'
BY DEF Identity, Grows

LEMMA SameKeeps ==
  ASSUME ConnInv, NEW q \in Callers, SameAt(q), Grows
  PROVE  CallerInv(q)'
<1>0. CallerInv(q) /\ links \in Nat
  BY PairingAssumption DEF ConnInv, TheirInv
<1>1. Identity(cred[q])'
  BY <1>0, IdentityStays DEF CallerInv, Shape, SameAt
<1>2. Shape(q)'
  BY <1>0, <1>1 DEF CallerInv, Shape, SameAt
<1>3. CredInv(q)'
  BY <1>0 DEF CallerInv, CredInv, SameAt, Grows
<1>4. SetupInv(q)'
  BY <1>0 DEF CallerInv, SetupInv, SameAt
<1>5. VerifyInv(q)'
  BY <1>0 DEF CallerInv, VerifyInv, Verifying, SameAt, Grows
<1>6. KeysInv(q)'
  BY <1>0 DEF CallerInv, KeysInv, SameAt
<1>7. KeyInv(q)'
  BY <1>0 DEF CallerInv, KeyInv, SameAt, Grows
<1> QED BY <1>2, <1>3, <1>4, <1>5, <1>6, <1>7 DEF CallerInv

LEMMA TheirsStayInv ==
  ASSUME ConnInv, TheirsStay, links' \in 0 .. MaxLinks
  PROVE  TheirInv'
<1>1. TheirInv /\ UNCHANGED <<known, accepted, forgotten, ident, order>>
  BY DEF ConnInv, TheirsStay
<1> QED BY <1>1 DEF TheirInv

\* A step of one caller with its own program, file included.
LEMMA OneMoves ==
  ASSUME ConnInv, NEW p \in Callers, OnlyHere(p), TheirsStay, links' \in 0 .. MaxLinks, links <= links',
         CallerInv(p)', FileInv'
  PROVE  ConnInv'
<1>1. Grows
  BY PairingAssumption DEF Grows, TheirsStay
<1>2. \A q \in Callers \ {p} : CallerInv(q)'
  BY <1>1, SameKeeps DEF OnlyHere
<1>3. TheirInv'
  BY TheirsStayInv
<1> QED BY <1>2, <1>3 DEF ConnInv, OnlyHere

LEMMA FileStays ==
  ASSUME ConnInv, file' = file, TheirsStay, links' \in 0 .. MaxLinks, links <= links'
  PROVE  FileInv'
<1>1. Grows /\ links \in Nat
  BY PairingAssumption DEF ConnInv, TheirInv, Grows, TheirsStay
<1>2. Identity(file)'
  BY <1>1, IdentityStays DEF ConnInv, FileInv
<1> QED BY <1>1, <1>2 DEF ConnInv, FileInv, SavedIsAccepted, Grows

\* A call that is over waits for nothing.
LEMMA AtRest ==
  ASSUME NEW p \in Callers, pc'[p] \in {"idle", "menu"}, Shape(p)', KeyInv(p)',
         cred'[p].ltpk # None => cred'[p] \in accepted'
  PROVE  CallerInv(p)'
<1>1. CredInv(p)' /\ SetupInv(p)' /\ VerifyInv(p)' /\ KeysInv(p)'
  BY DEF CredInv, SetupInv, VerifyInv, Verifying, KeysInv
<1> QED BY <1>1 DEF CallerInv

LEMMA FirstConn == Init => ConnInv
<1> SUFFICES ASSUME Init PROVE ConnInv
  OBVIOUS
<1>1. Domains
  BY DEF Init, Domains
<1>2. links = 0 /\ ident = 1 /\ accepted = {} /\ file = Nobody
  BY DEF Init
<1>3. FileInv
  BY <1>2 DEF FileInv, Identity, SavedIsAccepted, Nobody, None
<1>4. TheirInv
  BY <1>2, PairingAssumption DEF TheirInv
<1>5. ASSUME NEW p \in Callers PROVE CallerInv(p)
  <2>1. /\ pc[p] = "idle" /\ how[p] = "auto" /\ setup[p] = NoSetup /\ verify[p] = NoVerify
        /\ cred[p] = Nobody /\ asked[p] = FALSE
    BY DEF Init
  <2>2. /\ {"state", "secret", "ltpk"} \subseteq DOMAIN setup[p] /\ setup[p].state \in SetupStates
    BY <2>1 DEF NoSetup, NewSetup, SetupStates
  <2>3. /\ {"state", "key", "id", "eph", "own", "secret", "ltpk", "order"} \subseteq DOMAIN verify[p]
        /\ verify[p].state \in VerifyStates
    BY <2>1 DEF NoVerify, NewVerify, VerifyStates
  <2>4. Identity(cred[p]) /\ cred[p].ltpk = None
    BY <2>1 DEF Identity, Nobody, None
  <2>5. Shape(p)
    BY <2>1, <2>2, <2>3, <2>4 DEF Shape
  <2>6. CredInv(p) /\ KeyInv(p) /\ SetupInv(p) /\ VerifyInv(p) /\ KeysInv(p)
    BY <2>1, <2>4 DEF CredInv, KeyInv, SetupInv, VerifyInv, Verifying, KeysInv
  <2> QED BY <2>5, <2>6 DEF CallerInv
<1> QED BY <1>1, <1>3, <1>4, <1>5 DEF ConnInv

-----------------------------------------------------------------------------
(* Calls begin and end.                                                      *)

LEMMA FreshMachines ==
  /\ {"state", "secret", "ltpk"} \subseteq DOMAIN NoSetup /\ NoSetup.state \in SetupStates
  /\ {"state", "key", "id", "eph", "own", "secret", "ltpk", "order"} \subseteq DOMAIN NoVerify
  /\ NoVerify.state \in VerifyStates
BY DEF NoSetup, NewSetup, SetupStates, NoVerify, NewVerify, VerifyStates

LEMMA NobodyIsNew == Identity(Nobody) /\ Nobody.ltpk = None
BY DEF Identity, Nobody, None

LEMMA LinksAre == ASSUME ConnInv PROVE links \in 0 .. MaxLinks /\ links \in Nat /\ MaxLinks \in Nat
BY PairingAssumption DEF ConnInv, TheirInv

\* The call is over, and the caller keeps an identity that was accepted or has no key.
LEMMA Leaves ==
  ASSUME ConnInv, NEW p \in Callers, NEW where \in {"idle", "menu"}, Leave(p, where), TheirsStay,
         links' = links, how' = how \/ how' = [how EXCEPT ![p] = "auto"],
         DOMAIN cred' = Callers, \A q \in Callers \ {p} : cred'[q] = cred[q], Identity(cred'[p]),
         cred'[p].ltpk # None => cred'[p] \in accepted', KeyInv(p)', FileInv'
  PROVE  ConnInv'
<1>1. Domains
  BY DEF ConnInv
<1>2. OnlyHere(p)
  BY <1>1 DEF Leave, OnlyHere, SameAt, Domains
<1>3. /\ pc'[p] = where /\ setup'[p] = NoSetup /\ verify'[p] = NoVerify /\ asked'[p] = FALSE
  BY <1>1 DEF Leave, Domains
<1>4. Identity(cred[p])'
  BY DEF Identity
<1>5. Shape(p)'
  BY <1>3, <1>4, FreshMachines DEF Shape
<1>6. CallerInv(p)'
  BY <1>3, <1>5, AtRest
<1> QED BY <1>2, <1>6, OneMoves, LinksAre

LEMMA QuitsKeeps ==
  ASSUME ConnInv, NEW p \in Callers, Quits(p)
  PROVE  ConnInv'
<1>1. /\ Leave(p, "idle") /\ TheirsStay /\ links' = links /\ file' = file
      /\ how' = [how EXCEPT ![p] = "auto"] /\ cred' = [cred EXCEPT ![p] = Nobody]
  BY DEF Quits
<1>2. FileInv'
  BY <1>1, FileStays, LinksAre
<1>3. DOMAIN cred' = Callers /\ cred'[p] = Nobody /\ \A q \in Callers \ {p} : cred'[q] = cred[q]
  BY <1>1 DEF ConnInv, Domains
<1>4. KeyInv(p)'
  BY <1>1 DEF ConnInv, Domains, Leave, KeyInv
<1> QED BY <1>1, <1>2, <1>3, <1>4, Leaves, NobodyIsNew

\* A new link, with the machines and the identity that the call starts with.
LEMMA Connects ==
  ASSUME ConnInv, NEW p \in Callers, NEW call, NEW next \in {"info", "t2", "s2", "v2"},
         Connect(p, call, next), TheirsStay, OnlyHere(p), file' = file,
         Identity(cred[p])', cred'[p].ltpk # None => cred'[p] \in accepted, KeyInv(p)',
         {"state", "secret", "ltpk"} \subseteq DOMAIN setup'[p], setup'[p].state \in SetupStates,
         {"state", "key", "id", "eph", "own", "secret", "ltpk", "order"} \subseteq DOMAIN verify'[p],
         verify'[p].state \in VerifyStates,
         next = "info" => call \in {"pin", "pairing", "verify"},
         next \in {"t2", "s2"} \/ (next = "info" /\ call # "verify") => setup'[p].state = "M1Sent",
         next = "v2" \/ (next = "info" /\ call = "verify") =>
           /\ verify'[p].state = "M1Sent" /\ verify'[p].eph = links'
           /\ verify'[p].key = cred'[p].key /\ verify'[p].id = cred'[p].id
           /\ cred'[p].ltpk # None => verify'[p].ltpk = cred'[p].ltpk
  PROVE  ConnInv'
<1>1. Domains
  BY DEF ConnInv
<1>3. /\ pc'[p] = next /\ how'[p] = call /\ n'[p] = links' /\ asked'[p] = TRUE /\ reply'[p] = Bad
  BY <1>1 DEF Connect, Ask, Domains
<1>4. links' \in 0 .. MaxLinks /\ links <= links'
  BY LinksAre DEF Connect
<1>6. Shape(p)'
  BY <1>3 DEF Shape, Waiting
<1>7. CredInv(p)'
  BY <1>3 DEF CredInv, TheirsStay
<1>8. SetupInv(p)'
  BY <1>3 DEF SetupInv
<1>9. VerifyInv(p)'
  BY <1>3 DEF VerifyInv, Verifying, Bad
<1>10. KeysInv(p)'
  BY <1>3 DEF KeysInv
<1>11. CallerInv(p)'
  BY <1>6, <1>7, <1>8, <1>9, <1>10 DEF CallerInv
<1>12. FileInv'
  BY <1>4, FileStays
<1> QED BY <1>4, <1>11, <1>12, OneMoves

LEMMA SetupBegun ==
  ASSUME NEW transient, NEW pin, NEW link
  PROVE  LET s == Begun(transient, pin, link)
         IN {"state", "secret", "ltpk"} \subseteq DOMAIN s /\ s.state = "M1Sent"
BY DEF Begun, SetupM1, NewSetup

LEMMA VerifyBegun ==
  ASSUME NEW c, NEW link
  PROVE  LET v == ToVerify(c, link)
         IN /\ {"state", "key", "id", "eph", "own", "secret", "ltpk", "order"} \subseteq DOMAIN v
            /\ v.state = "M1Sent" /\ v.key = c.key /\ v.id = c.id /\ v.eph = link /\ v.ltpk = c.ltpk
BY DEF ToVerify, VerifyM1, SetServerLtpk, NewVerify

LEMMA MachineAt ==
  ASSUME ConnInv, NEW p \in Callers
  PROVE  /\ Domains /\ CallerInv(p) /\ Shape(p) /\ Identity(cred[p]) /\ CredInv(p) /\ KeyInv(p)
         /\ SetupInv(p) /\ VerifyInv(p) /\ KeysInv(p)
BY DEF ConnInv, CallerInv, Shape

LEMMA PinKeeps ==
  ASSUME ConnInv, NEW p \in Callers, NEW pin, ConnectWithPin(p, "pin", pin)
  PROVE  ConnInv'
<1>0. Domains
  BY DEF ConnInv
<1>1. Connect(p, "pin", "info") /\ TheirsStay /\ file' = file
  BY DEF ConnectWithPin
<1>2. OnlyHere(p)
  BY <1>0 DEF ConnectWithPin, Connect, Ask, OnlyHere, SameAt, Domains
<1>3. setup'[p] = Begun(TRUE, pin, links') /\ verify'[p] = NoVerify /\ cred'[p] = Nobody
  BY <1>0 DEF ConnectWithPin, Domains
<1>4. {"state", "secret", "ltpk"} \subseteq DOMAIN setup'[p] /\ setup'[p].state = "M1Sent"
  BY <1>3, SetupBegun
<1>5. setup'[p].state \in SetupStates
  BY <1>4 DEF SetupStates
<1>6. Identity(cred[p])' /\ cred'[p].ltpk = None
  BY <1>3 DEF Identity, Nobody, None
<1>7. KeyInv(p)'
  BY <1>0, <1>1 DEF KeyInv, Connect, Ask, Domains
<1> QED BY <1>1, <1>2, <1>3, <1>4, <1>5, <1>6, <1>7, FreshMachines, Connects

LEMMA VerifyKeeps ==
  ASSUME ConnInv, NEW p \in Callers, ConnectWithPairVerify(p)
  PROVE  ConnInv'
<1>0. Domains
  BY DEF ConnInv
<1>1. Connect(p, "verify", "info") /\ TheirsStay /\ file' = file
  BY DEF ConnectWithPairVerify
<1>2. OnlyHere(p)
  BY <1>0 DEF ConnectWithPairVerify, Connect, Ask, OnlyHere, SameAt, Domains
<1>3. setup'[p] = setup[p] /\ verify'[p] = ToVerify(file, links') /\ cred'[p] = file
  BY <1>0 DEF ConnectWithPairVerify, Domains
<1>4. /\ {"state", "key", "id", "eph", "own", "secret", "ltpk", "order"} \subseteq DOMAIN verify'[p]
      /\ verify'[p].state = "M1Sent" /\ verify'[p].key = cred'[p].key /\ verify'[p].id = cred'[p].id
      /\ verify'[p].eph = links' /\ verify'[p].ltpk = cred'[p].ltpk
  BY <1>3, VerifyBegun
<1>5. verify'[p].state \in VerifyStates
  BY <1>4 DEF VerifyStates
<1>6. {"state", "secret", "ltpk"} \subseteq DOMAIN setup'[p] /\ setup'[p].state \in SetupStates
  BY <1>3, MachineAt DEF Shape
<1>7. Identity(cred[p])' /\ (cred'[p].ltpk # None => cred'[p] \in accepted)
  <2>1. links' \in 0 .. MaxLinks /\ links <= links'
    BY <1>1, LinksAre DEF Connect
  <2>2. Identity(file)'
    BY <1>1, <2>1, FileStays DEF FileInv
  <2>3. SavedIsAccepted
    BY DEF ConnInv, FileInv
  <2> QED BY <1>1, <1>3, <2>2, <2>3 DEF Identity, SavedIsAccepted
<1>8. KeyInv(p)'
  BY <1>0, <1>1 DEF KeyInv, Connect, Ask, Domains
<1> QED BY <1>1, <1>2, <1>4, <1>5, <1>6, <1>7, <1>8, Connects

LEMMA PairingKeeps ==
  ASSUME ConnInv, NEW p \in Callers, NEW pin, ConnectWithPinPairing(p, pin)
  PROVE  ConnInv'
<1>0. Domains
  BY DEF ConnInv
<1>1. Connect(p, "pairing", "info") /\ TheirsStay /\ file' = file
  BY DEF ConnectWithPinPairing
<1>2. OnlyHere(p)
  BY <1>0 DEF ConnectWithPinPairing, Connect, Ask, OnlyHere, SameAt, Domains
<1>3. /\ setup'[p] = Begun(FALSE, pin, links') /\ verify'[p] = verify[p]
      /\ cred'[p] = [key |-> links', id |-> "derived", ltpk |-> None]
  BY <1>0 DEF ConnectWithPinPairing, Domains
<1>4. {"state", "secret", "ltpk"} \subseteq DOMAIN setup'[p] /\ setup'[p].state = "M1Sent"
  BY <1>3, SetupBegun
<1>5. setup'[p].state \in SetupStates
  BY <1>4 DEF SetupStates
<1>6. Identity(cred[p])' /\ cred'[p].ltpk = None
  <2>1. links' \in 1 .. links'
    BY <1>1, LinksAre DEF Connect
  <2> QED BY <1>3, <2>1 DEF Identity
<1>7. /\ {"state", "key", "id", "eph", "own", "secret", "ltpk", "order"} \subseteq DOMAIN verify'[p]
      /\ verify'[p].state \in VerifyStates
  BY <1>3, MachineAt DEF Shape
<1>8. KeyInv(p)'
  <2>1. links' \in 1 .. links' /\ pc'[p] = "info" /\ cred'[p].key = links'
    BY <1>0, <1>1, <1>3, LinksAre DEF Connect, Ask, Domains
  <2> QED BY <2>1 DEF KeyInv
<1> QED BY <1>1, <1>2, <1>4, <1>5, <1>6, <1>7, <1>8, Connects

LEMMA CallKeeps ==
  ASSUME ConnInv, NEW p \in Callers, Call(p)
  PROVE  ConnInv'
BY PinKeeps, VerifyKeeps, PairingKeeps DEF Call, ConnectAuto

LEMMA FailsKeeps ==
  ASSUME ConnInv, NEW p \in Callers, Fails(p)
  PROVE  ConnInv'
<1>1. CASE ConnectWithPin(p, "pin", Default)
  BY <1>1, PinKeeps
<1>2. CASE /\ how[p] = "tool" /\ Leave(p, "menu") /\ TheirsStay
           /\ UNCHANGED <<how, cred, file, links>>
  <2>1. FileInv'
    BY <1>2, FileStays, LinksAre
  <2>2. Identity(cred[p]) /\ (cred[p].ltpk # None => cred[p] \in accepted) /\ DOMAIN cred = Callers
    BY MachineAt DEF CredInv, Domains
  <2>3. accepted' = accepted
    BY <1>2 DEF TheirsStay
  <2>4. KeyInv(p)'
    BY <1>2, MachineAt DEF KeyInv, Leave, Domains
  <2> QED BY <1>2, <2>1, <2>2, <2>3, <2>4, Leaves
<1>3. CASE Quits(p)
  BY <1>3, QuitsKeeps
<1> QED BY <1>1, <1>2, <1>3 DEF Fails

LEMMA GivingUpKeeps ==
  ASSUME ConnInv, NEW p \in Callers, Refused(p) \/ LinkFails(p) \/ GiveUp(p)
  PROVE  ConnInv'
BY FailsKeeps, QuitsKeeps DEF Refused, LinkFails, GiveUp

-----------------------------------------------------------------------------
(* What the machines make of a reply.                                        *)

SetupFields == {"state", "secret", "ltpk"}
VerifyFields == {"state", "key", "id", "eph", "own", "secret", "ltpk", "order"}

LEMMA SetupReply2 ==
  ASSUME NEW s, SetupFields \subseteq DOMAIN s, NEW r
  PROVE  /\ SetupFields \subseteq DOMAIN SetupM2(s, r)
         /\ SetupM2(s, r).state = "M2Received" => SetupM2(s, r).secret # <<>>
<1>1. <<s.eph, r.eph, s.pin>> # <<>>
  OBVIOUS
<1> QED BY <1>1 DEF SetupFields, Fail, SetupM2

LEMMA SetupReply4 ==
  ASSUME NEW s, SetupFields \subseteq DOMAIN s, NEW r
  PROVE  /\ SetupFields \subseteq DOMAIN SetupM4(s, r)
         /\ SetupM4(s, r).state = "M4Received" =>
              r.step = 4 /\ SetupM4(s, r).secret = s.secret
BY DEF SetupFields, Fail, SetupM4

LEMMA SetupReply6 ==
  ASSUME NEW s, SetupFields \subseteq DOMAIN s, NEW r
  PROVE  /\ SetupFields \subseteq DOMAIN SetupM6(s, r)
         /\ SetupM6(s, r).state = "Complete" => r.step = 6 /\ SetupM6(s, r).ltpk = r.ltpk
BY DEF SetupFields, Fail, SetupM6

LEMMA SetupSends ==
  ASSUME NEW s, SetupFields \subseteq DOMAIN s
  PROVE  /\ SetupFields \subseteq DOMAIN SetupM3(s) /\ SetupM3(s).secret = s.secret
         /\ s.state = "M2Received" => SetupM3(s).state = "M3Sent"
         /\ SetupFields \subseteq DOMAIN SetupM5(s)
         /\ s.state = "M4Received" => SetupM5(s).state = "M5Sent"
         /\ SetupFields \subseteq DOMAIN SetupDone(s)
         /\ s.state = "M4Received" => SetupDone(s).state \in {"Complete", "M4Received"}
BY DEF SetupFields, Fail, SetupM3, SetupM5, SetupDone

LEMMA VerifyReplies ==
  ASSUME NEW v, VerifyFields \subseteq DOMAIN v, NEW r, v.state = "M1Sent",
         VerifyM2(v, r).state = "M2Received"
  PROVE  LET m == VerifyM2(v, r)
         IN /\ VerifyFields \subseteq DOMAIN m /\ m.key = v.key /\ m.id = v.id
            /\ r.step = 2 /\ m.secret = <<v.eph, r.eph>>
            /\ v.ltpk # None => m.order = r.order
<1> DEFINE g == Agreed(v, r)
<1>1. /\ VerifyFields \subseteq DOMAIN g /\ g.key = v.key /\ g.id = v.id /\ g.ltpk = v.ltpk
      /\ g.secret = <<v.eph, r.eph>>
  BY DEF VerifyFields, Agreed
<1>2. r.step = 2 /\ VerifyM2(v, r) = LearnOrder(g, r)
  BY DEF VerifyM2, Fail, VerifyFields
<1>3. v.ltpk # None => KeyFor(g, r) # None
  BY <1>1 DEF KeyFor
<1> HIDE DEF g
<1>4. CASE KeyFor(g, r) = None
  BY <1>1, <1>2, <1>3, <1>4 DEF LearnOrder, VerifyFields
<1>5. CASE KeyFor(g, r) # None /\ KeyFor(g, r) = r.signer
  BY <1>1, <1>2, <1>5 DEF LearnOrder, VerifyFields
<1>6. CASE KeyFor(g, r) # None /\ KeyFor(g, r) # r.signer
  <2>1. VerifyM2(v, r) = Fail(g)
    BY <1>2, <1>6 DEF LearnOrder
  <2>2. Fail(g).state = "Failed"
    BY <1>1 DEF Fail, VerifyFields
  <2> QED BY <2>1, <2>2
<1> QED BY <1>4, <1>5, <1>6

LEMMA VerifySends ==
  ASSUME NEW v, VerifyFields \subseteq DOMAIN v, v.state = "M2Received"
  PROVE  LET m == VerifyM3(v)
         IN /\ VerifyFields \subseteq DOMAIN m /\ m.state = "M3Sent"
            /\ m.key = v.key /\ m.id = v.id /\ m.secret = v.secret /\ m.order = v.order
BY DEF VerifyFields, VerifyM3

LEMMA VerifyEnds ==
  ASSUME NEW v, VerifyFields \subseteq DOMAIN v, NEW r, v.state = "M3Sent",
         VerifyM4(v, r).state = "Complete"
  PROVE  /\ VerifyFields \subseteq DOMAIN VerifyM4(v, r) /\ r.step = 4
         /\ VerifyM4(v, r).secret = v.secret
BY DEF VerifyFields, VerifyM4, Fail

-----------------------------------------------------------------------------
(* The caller goes on.                                                       *)

\* It has a reply, and sends the next request of its call.
LEMMA AsksNext ==
  ASSUME ConnInv, NEW p \in Callers, NEW next \in Waiting, Ask(p, next), OnlyHere(p), TheirsStay,
         links' = links, n' = n, how' = how, open' = open, acc' = acc, reply'[p] = Bad,
         FileInv', Identity(cred[p])', cred'[p].ltpk # None => cred'[p] \in accepted',
         SetupFields \subseteq DOMAIN setup'[p], setup'[p].state \in SetupStates,
         VerifyFields \subseteq DOMAIN verify'[p], verify'[p].state \in VerifyStates,
         KeyInv(p)', SetupInv(p)', VerifyInv(p)', KeysInv(p)'
  PROVE  ConnInv'
<1>1. pc'[p] = next /\ asked'[p] = TRUE
  BY DEF Ask, ConnInv, Domains
<1>2. Shape(p)'
  BY <1>1 DEF Shape, SetupFields, VerifyFields
<1>3. CredInv(p)'
  BY <1>1 DEF CredInv
<1>4. CallerInv(p)'
  BY <1>2, <1>3 DEF CallerInv
<1> QED BY <1>4, OneMoves, LinksAre

\* The machines and the identity at a step that leaves the identity alone.
LEMMA IdentityKept ==
  ASSUME ConnInv, NEW p \in Callers, cred'[p] = cred[p], file' = file, TheirsStay, links' = links
  PROVE  /\ FileInv' /\ Identity(cred[p])'
         /\ cred'[p].ltpk # None => cred'[p] \in accepted'
<1>1. FileInv'
  BY FileStays, LinksAre
<1>2. Identity(cred[p]) /\ (cred[p].ltpk # None => cred[p] \in accepted)
  BY MachineAt DEF CredInv
<1>3. Identity(cred[p])'
  BY <1>2 DEF Identity
<1> QED BY <1>1, <1>2, <1>3 DEF TheirsStay

LEMMA InfoKeeps ==
  ASSUME ConnInv, NEW p \in Callers, Info(p)
  PROVE  ConnInv'
<1>0. Domains /\ Shape(p) /\ SetupInv(p) /\ VerifyInv(p)
  BY MachineAt
<1> DEFINE next == CASE how[p] = "pin" -> "t2" [] how[p] = "pairing" -> "s2" [] OTHER -> "v2"
<1>1. /\ pc[p] = "info" /\ reply' = [reply EXCEPT ![p] = Bad] /\ Ask(p, next) /\ TheirsStay
      /\ UNCHANGED <<how, n, links, open, acc, setup, verify, cred, keys, file>>
  BY DEF Info, Answered, Same, theirs, TheirsStay
<1>2. OnlyHere(p) /\ reply'[p] = Bad /\ pc'[p] = next /\ asked'[p] = TRUE
  BY <1>0, <1>1 DEF Ask, OnlyHere, SameAt, Domains
<1>3. /\ how[p] \in {"pin", "pairing", "verify"}
      /\ how[p] # "verify" => setup[p].state = "M1Sent"
  BY <1>0, <1>1 DEF SetupInv
<1>4. next \in Waiting
  BY DEF Waiting
<1>5. SetupInv(p)'
  BY <1>1, <1>2, <1>3 DEF SetupInv
<1>6. VerifyInv(p)'
  BY <1>0, <1>1, <1>2, <1>3 DEF VerifyInv, Verifying, Bad
<1>7. KeysInv(p)'
  BY <1>2 DEF KeysInv
<1>8. /\ SetupFields \subseteq DOMAIN setup'[p] /\ setup'[p].state \in SetupStates
      /\ VerifyFields \subseteq DOMAIN verify'[p] /\ verify'[p].state \in VerifyStates
  BY <1>0, <1>1 DEF Shape, SetupFields, VerifyFields
<1>20. KeyInv(p)'
  BY <1>1, <1>2, <1>3, MachineAt DEF KeyInv, Answered
<1> HIDE DEF next
<1> QED BY <1>1, <1>2, <1>4, <1>5, <1>6, <1>7, <1>8, <1>20, IdentityKept, AsksNext

LEMMA Setup2Keeps ==
  ASSUME ConnInv, NEW p \in Callers, NEW from \in {"t2", "s2"}, NEW next, Answered(p, from),
         Setup2(p, SetupM2(setup[p], reply[p]), next),
         next = (IF from = "t2" THEN "t4" ELSE "s4")
  PROVE  ConnInv'
<1> DEFINE m == SetupM2(setup[p], reply[p])
<1>0. Domains /\ Shape(p) /\ SetupFields \subseteq DOMAIN setup[p]
  BY MachineAt DEF Shape, SetupFields
<1>1. /\ m.state = "M2Received" /\ reply' = [reply EXCEPT ![p] = Bad] /\ Ask(p, next) /\ TheirsStay
      /\ setup' = [setup EXCEPT ![p] = SetupM3(m)]
      /\ UNCHANGED <<how, n, links, open, acc, verify, cred, keys, file>>
  BY DEF Setup2, Answered, Same, theirs, TheirsStay
<1>2. OnlyHere(p) /\ reply'[p] = Bad /\ pc'[p] = next /\ asked'[p] = TRUE /\ setup'[p] = SetupM3(m)
  BY <1>0, <1>1 DEF Ask, OnlyHere, SameAt, Domains
<1>3. SetupFields \subseteq DOMAIN m /\ m.secret # <<>>
  BY <1>0, <1>1, SetupReply2
<1>4. /\ SetupFields \subseteq DOMAIN setup'[p] /\ setup'[p].state = "M3Sent" /\ setup'[p].secret # <<>>
  BY <1>1, <1>2, <1>3, SetupSends
<1>5. SetupInv(p)'
  BY <1>2, <1>4 DEF SetupInv
<1>6. VerifyInv(p)'
  BY <1>2 DEF VerifyInv, Verifying
<1>7. KeysInv(p)'
  BY <1>2 DEF KeysInv
<1>8. /\ setup'[p].state \in SetupStates
      /\ VerifyFields \subseteq DOMAIN verify'[p] /\ verify'[p].state \in VerifyStates
  BY <1>0, <1>1, <1>4 DEF Shape, SetupStates, VerifyFields
<1>9. next \in Waiting
  BY DEF Waiting
<1>20. KeyInv(p)'
  BY <1>1, <1>2, MachineAt DEF KeyInv, Answered
<1> HIDE DEF m
<1> QED BY <1>1, <1>2, <1>4, <1>5, <1>6, <1>7, <1>8, <1>9, <1>20, IdentityKept, AsksNext

LEMMA Setup4Keeps ==
  ASSUME ConnInv, NEW p \in Callers, Answered(p, "s4"), Setup4(p, SetupM4(setup[p], reply[p]))
  PROVE  ConnInv'
<1> DEFINE m == SetupM4(setup[p], reply[p])
<1>0. Domains /\ Shape(p) /\ SetupFields \subseteq DOMAIN setup[p]
  BY MachineAt DEF Shape, SetupFields
<1>1. /\ m.state = "M4Received" /\ reply' = [reply EXCEPT ![p] = Bad] /\ Ask(p, "s6") /\ TheirsStay
      /\ setup' = [setup EXCEPT ![p] = SetupM5(m)]
      /\ UNCHANGED <<how, n, links, open, acc, verify, cred, keys, file>>
  BY DEF Setup4, Answered, Same, theirs, TheirsStay
<1>2. OnlyHere(p) /\ reply'[p] = Bad /\ pc'[p] = "s6" /\ asked'[p] = TRUE /\ setup'[p] = SetupM5(m)
  BY <1>0, <1>1 DEF Ask, OnlyHere, SameAt, Domains
<1>3. SetupFields \subseteq DOMAIN m
  BY <1>0, SetupReply4
<1>4. SetupFields \subseteq DOMAIN setup'[p] /\ setup'[p].state = "M5Sent"
  BY <1>1, <1>2, <1>3, SetupSends
<1>5. SetupInv(p)' /\ KeysInv(p)'
  BY <1>2 DEF SetupInv, KeysInv
<1>6. VerifyInv(p)'
  BY <1>2 DEF VerifyInv, Verifying
<1>8. /\ setup'[p].state \in SetupStates
      /\ VerifyFields \subseteq DOMAIN verify'[p] /\ verify'[p].state \in VerifyStates
  BY <1>0, <1>1, <1>4 DEF Shape, SetupStates, VerifyFields
<1>9. "s6" \in Waiting
  BY DEF Waiting
<1>20. KeyInv(p)'
  BY <1>1, <1>2, MachineAt DEF KeyInv, Answered
<1> HIDE DEF m
<1> QED BY <1>1, <1>2, <1>4, <1>5, <1>6, <1>8, <1>9, <1>20, IdentityKept, AsksNext

\* The cipher gets the secret that the accessory, if it is still there, has changed to.
LEMMA Transient4Keeps ==
  ASSUME ConnInv, NEW p \in Callers, Answered(p, "t4"), Transient4(p, SetupM4(setup[p], reply[p]))
  PROVE  ConnInv'
<1> DEFINE m == SetupM4(setup[p], reply[p])
<1>0. /\ Domains /\ Shape(p) /\ SetupInv(p) /\ KeysInv(p) /\ SetupFields \subseteq DOMAIN setup[p]
      /\ pc[p] = "t4" /\ ~asked[p]
  BY MachineAt DEF Shape, SetupFields, Answered
<1>1. /\ m.state = "M4Received" /\ reply' = [reply EXCEPT ![p] = Bad] /\ Ask(p, "options")
      /\ TheirsStay /\ setup' = [setup EXCEPT ![p] = SetupDone(m)]
      /\ keys' = [keys EXCEPT ![p] = m.secret]
      /\ UNCHANGED <<how, n, links, open, acc, verify, cred, file>>
  BY DEF Transient4, Cipher, Answered, Same, theirs, TheirsStay
<1>2. /\ OnlyHere(p) /\ reply'[p] = Bad /\ pc'[p] = "options" /\ asked'[p] = TRUE
      /\ setup'[p] = SetupDone(m) /\ keys'[p] = m.secret
  BY <1>0, <1>1 DEF Ask, OnlyHere, SameAt, Domains
<1>3. SetupFields \subseteq DOMAIN m /\ reply[p].step = 4 /\ m.secret = setup[p].secret
  BY <1>0, <1>1, SetupReply4
<1>4. /\ SetupFields \subseteq DOMAIN setup'[p] /\ setup'[p].state \in {"Complete", "M4Received"}
  BY <1>1, <1>2, <1>3, SetupSends
<1>5. KeysInv(p)'
  BY <1>0, <1>1, <1>2, <1>3 DEF SetupInv, KeysInv
<1>6. SetupInv(p)' /\ VerifyInv(p)'
  BY <1>2 DEF SetupInv, VerifyInv, Verifying
<1>8. /\ setup'[p].state \in SetupStates
      /\ VerifyFields \subseteq DOMAIN verify'[p] /\ verify'[p].state \in VerifyStates
  BY <1>0, <1>1, <1>4 DEF Shape, SetupStates, VerifyFields
<1>9. "options" \in Waiting
  BY DEF Waiting
<1>20. KeyInv(p)'
  BY <1>1, <1>2, MachineAt DEF KeyInv, Answered
<1> HIDE DEF m
<1> QED BY <1>1, <1>2, <1>4, <1>5, <1>6, <1>8, <1>9, <1>20, IdentityKept, AsksNext

LEMMA Verify2Keeps ==
  ASSUME ConnInv, NEW p \in Callers, Answered(p, "v2"), Verify2(p, VerifyM2(verify[p], reply[p]))
  PROVE  ConnInv'
<1> DEFINE m == VerifyM2(verify[p], reply[p])
<1>0. /\ Domains /\ Shape(p) /\ VerifyInv(p) /\ VerifyFields \subseteq DOMAIN verify[p]
      /\ pc[p] = "v2" /\ verify[p].state = "M1Sent"
  BY MachineAt DEF Shape, VerifyFields, Answered, VerifyInv, Verifying
<1>1. /\ m.state = "M2Received" /\ reply' = [reply EXCEPT ![p] = Bad] /\ Ask(p, "v4") /\ TheirsStay
      /\ verify' = [verify EXCEPT ![p] = VerifyM3(m)]
      /\ UNCHANGED <<how, n, links, open, acc, setup, cred, keys, file>>
  BY DEF Verify2, Answered, Same, theirs, TheirsStay
<1>2. OnlyHere(p) /\ reply'[p] = Bad /\ pc'[p] = "v4" /\ asked'[p] = TRUE /\ verify'[p] = VerifyM3(m)
  BY <1>0, <1>1 DEF Ask, OnlyHere, SameAt, Domains
<1>3. /\ VerifyFields \subseteq DOMAIN m /\ m.key = verify[p].key /\ m.id = verify[p].id
      /\ reply[p].step = 2 /\ m.secret = <<verify[p].eph, reply[p].eph>>
      /\ verify[p].ltpk # None => m.order = reply[p].order
  BY <1>0, <1>1, VerifyReplies
<1>4. /\ VerifyFields \subseteq DOMAIN verify'[p] /\ verify'[p].state = "M3Sent"
      /\ verify'[p].key = verify[p].key /\ verify'[p].id = verify[p].id
      /\ verify'[p].secret = m.secret /\ verify'[p].order = m.order
  BY <1>1, <1>2, <1>3, VerifySends
<1>5. /\ verify[p].key = cred[p].key /\ verify[p].id = cred[p].id /\ verify[p].eph = n[p]
      /\ reply[p].eph = n[p] /\ reply[p].order = order
      /\ cred[p].ltpk # None => verify[p].ltpk = cred[p].ltpk
  BY <1>0, <1>3 DEF VerifyInv, Verifying
<1>6. SetupInv(p)' /\ KeysInv(p)'
  BY <1>2 DEF SetupInv, KeysInv
<1>7. VerifyInv(p)'
  <2>1. verify'[p].secret = <<n'[p], n'[p]>> /\ cred' = cred /\ order' = order
    BY <1>1, <1>3, <1>4, <1>5 DEF TheirsStay
  <2>2. cred[p].ltpk # None => verify'[p].order = order
    BY <1>3, <1>4, <1>5
  <2> QED BY <2>1, <2>2, <1>2, <1>4, <1>5 DEF VerifyInv, Verifying
<1>8. /\ verify'[p].state \in VerifyStates
      /\ SetupFields \subseteq DOMAIN setup'[p] /\ setup'[p].state \in SetupStates
  BY <1>0, <1>1, <1>4 DEF Shape, VerifyStates, SetupFields
<1>9. "v4" \in Waiting
  BY DEF Waiting
<1>20. KeyInv(p)'
  BY <1>1, <1>2, MachineAt DEF KeyInv, Answered
<1> HIDE DEF m
<1> QED BY <1>1, <1>2, <1>4, <1>6, <1>7, <1>8, <1>9, <1>20, IdentityKept, AsksNext

LEMMA Verify4Keeps ==
  ASSUME ConnInv, NEW p \in Callers, Answered(p, "v4"), Verify4(p, VerifyM4(verify[p], reply[p]))
  PROVE  ConnInv'
<1> DEFINE m == VerifyM4(verify[p], reply[p])
<1>0. /\ Domains /\ Shape(p) /\ VerifyInv(p) /\ KeysInv(p) /\ VerifyFields \subseteq DOMAIN verify[p]
      /\ pc[p] = "v4" /\ ~asked[p] /\ verify[p].state = "M3Sent" /\ verify[p].secret = <<n[p], n[p]>>
  BY MachineAt DEF Shape, VerifyFields, Answered, VerifyInv
<1>1. /\ m.state = "Complete" /\ reply' = [reply EXCEPT ![p] = Bad] /\ Ask(p, "options")
      /\ TheirsStay /\ verify' = [verify EXCEPT ![p] = m] /\ keys' = [keys EXCEPT ![p] = m.secret]
      /\ UNCHANGED <<how, n, links, open, acc, setup, cred, file>>
  BY DEF Verify4, Cipher, Answered, Same, theirs, TheirsStay
<1>2. /\ OnlyHere(p) /\ reply'[p] = Bad /\ pc'[p] = "options" /\ asked'[p] = TRUE
      /\ verify'[p] = m /\ keys'[p] = m.secret
  BY <1>0, <1>1 DEF Ask, OnlyHere, SameAt, Domains
<1>3. VerifyFields \subseteq DOMAIN m /\ reply[p].step = 4 /\ m.secret = verify[p].secret
  BY <1>0, <1>1, VerifyEnds
<1>4. KeysInv(p)'
  <2>1. keys'[p] # <<>> /\ (open'[p] => acc'[p] = keys'[p])
    BY <1>0, <1>1, <1>2, <1>3 DEF KeysInv
  <2> QED BY <2>1, <1>2 DEF KeysInv
<1>6. SetupInv(p)' /\ VerifyInv(p)'
  BY <1>2 DEF SetupInv, VerifyInv, Verifying
<1>8. /\ verify'[p].state \in VerifyStates
      /\ SetupFields \subseteq DOMAIN setup'[p] /\ setup'[p].state \in SetupStates
  BY <1>0, <1>1, <1>2 DEF Shape, VerifyStates, SetupFields
<1>9. "options" \in Waiting
  BY DEF Waiting
<1>20. KeyInv(p)'
  BY <1>1, <1>2, MachineAt DEF KeyInv, Answered
<1> HIDE DEF m
<1> QED BY <1>1, <1>2, <1>3, <1>4, <1>6, <1>8, <1>9, <1>20, IdentityKept, AsksNext

\* The identity is saved with the key of an accessory that has accepted it.
LEMMA Setup6Keeps ==
  ASSUME ConnInv, NEW p \in Callers, pc[p] = "s6", ~asked[p],
         how[p] # "tool" => reply' = [reply EXCEPT ![p] = Bad],
         Setup6(p, SetupM6(setup[p], reply[p]))
  PROVE  ConnInv'
<1> DEFINE m == SetupM6(setup[p], reply[p])
           c == [cred[p] EXCEPT !.ltpk = m.ltpk]
<1>0. /\ Domains /\ Shape(p) /\ CredInv(p) /\ KeyInv(p) /\ SetupFields \subseteq DOMAIN setup[p]
      /\ DOMAIN cred[p] = {"key", "id", "ltpk"}
  BY MachineAt DEF Shape, SetupFields, Identity
<1>1. /\ m.state = "Complete" /\ cred' = [cred EXCEPT ![p] = c] /\ file' \in {file, c}
      /\ IF how[p] = "tool"
         THEN Leave(p, "menu") /\ TheirsStay /\ UNCHANGED <<how, links>>
         ELSE /\ setup' = [setup EXCEPT ![p] = m] /\ verify' = [verify EXCEPT ![p] = ToVerify(c, n[p])]
              /\ Ask(p, "v2") /\ UNCHANGED <<how, n, links, open, acc, keys>> /\ TheirsStay
  BY DEF Setup6, Same, theirs, TheirsStay
<1>2. SetupFields \subseteq DOMAIN m /\ reply[p].step = 6 /\ m.ltpk = reply[p].ltpk
  <2>1. m.state = "Complete"
    BY <1>1
  <2>2. SetupFields \subseteq DOMAIN setup[p]
    BY <1>0
  <2>3. /\ SetupFields \subseteq DOMAIN m
        /\ m.state = "Complete" => reply[p].step = 6 /\ m.ltpk = reply[p].ltpk
    BY <2>2, SetupReply6
  <2> QED BY <2>1, <2>3
<1>3. c \in accepted
  BY <1>0, <1>2 DEF CredInv
<1>4. /\ DOMAIN c = {"key", "id", "ltpk"} /\ c.key = cred[p].key /\ c.id = cred[p].id
  BY <1>0
<1>5. c.key \in 1 .. links
  BY <1>0, <1>4 DEF KeyInv
<1>6. TheirsStay /\ links' = links /\ accepted' = accepted
  BY <1>1 DEF TheirsStay
<1>7. FileInv'
  <2>1. CASE file' = file
    BY <2>1, <1>6, FileStays, LinksAre
  <2>2. CASE file' = c
    <3>1. Identity(file)'
      BY <2>2, <1>4, <1>5, <1>6 DEF Identity
    <3> QED BY <2>2, <3>1, <1>3, <1>6 DEF FileInv, SavedIsAccepted
  <2> QED BY <1>1, <2>1, <2>2
<1>8. /\ DOMAIN cred' = Callers /\ cred'[p] = c /\ \A q \in Callers \ {p} : cred'[q] = cred[q]
  BY <1>0, <1>1 DEF Domains
<1>9. Identity(cred[p])' /\ cred'[p] \in accepted' /\ cred'[p] \in accepted
  BY <1>3, <1>4, <1>5, <1>6, <1>8 DEF Identity
<1>a. cred'[p].key \in 1 .. links'
  BY <1>5, <1>6, <1>8
<1>10. CASE how[p] = "tool"
  <2>1. Leave(p, "menu") /\ how' = how
    BY <1>1, <1>10
  <2>2. Identity(cred'[p])
    BY <1>3, <1>4, <1>5, <1>8 DEF Identity
  <2>3. KeyInv(p)'
    BY <1>0, <2>1, <1>10, <1>a DEF Leave, Domains, KeyInv
  <2> HIDE DEF m, c
  <2> QED BY <1>6, <1>7, <1>8, <1>9, <2>1, <2>2, <2>3, Leaves
<1>11. CASE how[p] # "tool"
  <2>1. /\ setup' = [setup EXCEPT ![p] = m] /\ verify' = [verify EXCEPT ![p] = ToVerify(c, n[p])]
        /\ Ask(p, "v2") /\ UNCHANGED <<how, n, links, open, acc, keys>>
        /\ reply' = [reply EXCEPT ![p] = Bad] /\ cred' = [cred EXCEPT ![p] = c]
    BY <1>1, <1>11
  <2> HIDE DEF c, m
  <2>2. /\ OnlyHere(p) /\ reply'[p] = Bad /\ pc'[p] = "v2" /\ asked'[p] = TRUE
        /\ setup'[p] = m /\ verify'[p] = ToVerify(cred'[p], n[p])
    BY <1>0, <1>8, <2>1 DEF Ask, OnlyHere, SameAt, Domains
  <2>3. /\ VerifyFields \subseteq DOMAIN verify'[p]
        /\ verify'[p].state = "M1Sent" /\ verify'[p].key = cred'[p].key /\ verify'[p].id = cred'[p].id
        /\ verify'[p].eph = n[p] /\ verify'[p].ltpk = cred'[p].ltpk
    BY <2>2, VerifyBegun DEF VerifyFields
  <2>4. verify'[p].state \in VerifyStates /\ setup'[p].state \in SetupStates
    BY <2>2, <2>3, <1>1 DEF VerifyStates, SetupStates
  <2>5. SetupInv(p)' /\ KeysInv(p)'
    BY <2>2 DEF SetupInv, KeysInv
  <2>6. VerifyInv(p)'
    BY <2>1, <2>2, <2>3 DEF VerifyInv, Verifying, Bad
  <2>7. KeyInv(p)'
    BY <2>2, <1>a DEF KeyInv
  <2>8. "v2" \in Waiting
    BY DEF Waiting
  <2> QED BY <1>2, <1>6, <1>7, <1>9, <2>1, <2>2, <2>3, <2>4, <2>5, <2>6, <2>7, <2>8, AsksNext
<1> QED BY <1>10, <1>11

LEMMA SetupReplyKeeps ==
  ASSUME ConnInv, NEW p \in Callers, SetupReply(p)
  PROVE  ConnInv'
BY Setup2Keeps, Setup4Keeps, Transient4Keeps, Setup6Keeps DEF SetupReply

LEMMA VerifyReplyKeeps ==
  ASSUME ConnInv, NEW p \in Callers, VerifyReply(p)
  PROVE  ConnInv'
BY Verify2Keeps, Verify4Keeps DEF VerifyReply

\* The connection is handed over with the keys it had at its last request.
LEMMA PairedKeeps ==
  ASSUME ConnInv, NEW p \in Callers, pc[p] = "options", Paired(p)
  PROVE  ConnInv'
<1>0. Domains /\ KeysInv(p)
  BY MachineAt
<1>1. /\ OnlyHere(p) /\ TheirsStay /\ UNCHANGED <<keys, links, open, file, acc>>
  BY <1>0 DEF Paired, OnlyHere, SameAt, Domains, TheirsStay, theirs
<1>2. /\ pc'[p] = "paired" /\ asked'[p] = FALSE /\ setup'[p] = NoSetup /\ verify'[p] = NoVerify
      /\ cred'[p] = Nobody /\ how'[p] = "auto"
  BY <1>0 DEF Paired, Domains
<1>3. Identity(cred[p])' /\ cred'[p].ltpk = None
  BY <1>2 DEF Identity, Nobody, None
<1>4. Shape(p)'
  BY <1>2, <1>3, FreshMachines DEF Shape
<1>5. CredInv(p)' /\ KeyInv(p)' /\ SetupInv(p)' /\ VerifyInv(p)'
  BY <1>2, <1>3 DEF CredInv, KeyInv, SetupInv, VerifyInv, Verifying
<1>6. KeysInv(p)'
  BY <1>0, <1>1, <1>2 DEF KeysInv
<1>7. FileInv' /\ links' \in 0 .. MaxLinks /\ links <= links'
  BY <1>1, FileStays, LinksAre
<1>8. CallerInv(p)'
  BY <1>4, <1>5, <1>6 DEF CallerInv
<1> QED BY <1>1, <1>7, <1>8, OneMoves

LEMMA OptionsKeeps ==
  ASSUME ConnInv, NEW p \in Callers, Options(p) \/ OptionsFails(p)
  PROVE  ConnInv'
<1>1. pc[p] = "options" /\ DOMAIN how = Callers
  BY DEF Options, OptionsFails, ConnInv, Domains
<1>2. CASE Paired(p)
  BY <1>1, <1>2, PairedKeeps
<1>3. CASE /\ how[p] = "tool" /\ Leave(p, "menu") /\ TheirsStay
           /\ UNCHANGED <<how, cred, links, file>>
  BY <1>3, FailsKeeps DEF Fails
<1> QED BY <1>2, <1>3 DEF Options, OptionsFails

-----------------------------------------------------------------------------
(* The tool beside the other programs.                                       *)

LEMMA ToolStartKeeps ==
  ASSUME ConnInv, NEW p \in Callers, ToolStart(p)
  PROVE  ConnInv'
<1>0. Domains /\ Shape(p) /\ FileInv /\ CredInv(p) /\ pc[p] = "idle" /\ links \in Nat
  BY MachineAt, LinksAre DEF ConnInv, ToolStart
<1>1. /\ pc' = [pc EXCEPT ![p] = "menu"] /\ how' = [how EXCEPT ![p] = "tool"]
      /\ UNCHANGED <<n, setup, verify, keys, open, asked, reply, acc>> /\ TheirsStay
  BY DEF ToolStart, theirs, wire, TheirsStay
<1>2. CASE file # Nobody /\ cred' = [cred EXCEPT ![p] = file] /\ UNCHANGED <<file, links>>
  <2>1. cred'[p] = file /\ OnlyHere(p) /\ pc'[p] = "menu" /\ how'[p] = "tool"
    BY <1>0, <1>1, <1>2 DEF OnlyHere, SameAt, Domains
  <2>2. Identity(file) /\ file.key \in 1 .. links /\ (file.ltpk # None => file \in accepted)
    BY <1>0, <1>2 DEF FileInv, Identity, SavedIsAccepted
  <2>3. Identity(cred[p])'
    BY <1>2, <2>1, <2>2 DEF Identity
  <2>4. Shape(p)'
    BY <1>0, <1>1, <2>1, <2>3 DEF Shape, Waiting
  <2>5. KeyInv(p)'
    BY <1>2, <2>1, <2>2 DEF KeyInv
  <2>6. CallerInv(p)'
    BY <1>1, <2>1, <2>2, <2>4, <2>5, AtRest DEF TheirsStay
  <2>7. FileInv' /\ links' \in 0 .. MaxLinks /\ links <= links'
    BY <1>1, <1>2, FileStays, LinksAre
  <2> QED BY <1>1, <2>1, <2>6, <2>7, OneMoves
<1>3. CASE /\ links < MaxLinks /\ links' = links + 1
           /\ file' = [key |-> links', id |-> "random", ltpk |-> None]
           /\ cred' = [cred EXCEPT ![p] = file']
  <2>1. cred'[p] = file' /\ OnlyHere(p) /\ pc'[p] = "menu" /\ how'[p] = "tool"
    BY <1>0, <1>1, <1>3 DEF OnlyHere, SameAt, Domains
  <2>2. links' \in 1 .. links' /\ links' \in 0 .. MaxLinks /\ links <= links'
    BY <1>0, <1>3, LinksAre
  <2>3. Identity(file)' /\ file'.ltpk = None /\ file'.key = links'
    BY <1>3, <2>2 DEF Identity
  <2>4. FileInv'
    BY <2>3 DEF FileInv, SavedIsAccepted
  <2>5. Identity(cred[p])'
    BY <2>1, <2>3 DEF Identity
  <2>6. Shape(p)'
    BY <1>0, <1>1, <2>1, <2>5 DEF Shape, Waiting
  <2>7. KeyInv(p)'
    BY <2>1, <2>2, <2>3 DEF KeyInv
  <2>8. CallerInv(p)'
    BY <2>1, <2>3, <2>6, <2>7, AtRest
  <2> QED BY <1>1, <2>1, <2>2, <2>4, <2>8, OneMoves
<1> QED BY <1>2, <1>3 DEF ToolStart

LEMMA ToolKeeps ==
  ASSUME ConnInv, NEW p \in Callers, Tool(p)
  PROVE  ConnInv'
<1>0. Domains /\ Shape(p) /\ CredInv(p) /\ KeyInv(p)
  BY MachineAt
<1>a. ASSUME NEW next, pc[p] = "menu", Connect(p, "tool", next), cred' = cred, TheirsStay
      PROVE  /\ Identity(cred[p])' /\ (cred'[p].ltpk # None => cred'[p] \in accepted)
             /\ (next \in {"t2", "s2", "v2"} => KeyInv(p)')
  <2>1. how[p] = "tool" /\ cred[p].key \in 1 .. links
    BY <1>0, <1>a DEF KeyInv
  <2>2. links' = links + 1 /\ links \in Nat /\ pc'[p] = next /\ how'[p] = "tool"
    BY <1>0, <1>a, LinksAre DEF Connect, Ask, Domains
  <2>3. cred'[p].key \in 1 .. links'
    BY <1>a, <2>1, <2>2
  <2>4. Identity(cred[p])'
    BY <1>0, <1>a, <2>3 DEF Shape, Identity
  <2> QED BY <1>0, <1>a, <2>2, <2>3, <2>4 DEF CredInv, KeyInv
<1>1. ASSUME NEW pin \in Pins, NEW t \in BOOLEAN, ToolSetup(p, t, pin) PROVE ConnInv'
  <2> DEFINE next == IF t THEN "t2" ELSE "s2"
  <2>1. /\ pc[p] = "menu" /\ Connect(p, "tool", next) /\ TheirsStay /\ file' = file /\ cred' = cred
        /\ setup' = [setup EXCEPT ![p] = Begun(t, pin, links')] /\ verify' = verify
    BY <1>1 DEF ToolSetup
  <2>2. OnlyHere(p) /\ setup'[p] = Begun(t, pin, links')
    BY <1>0, <2>1 DEF Connect, Ask, OnlyHere, SameAt, Domains
  <2>3. {"state", "secret", "ltpk"} \subseteq DOMAIN setup'[p] /\ setup'[p].state = "M1Sent"
    BY <2>2, SetupBegun
  <2>4. setup'[p].state \in SetupStates
    BY <2>3 DEF SetupStates
  <2>5. /\ {"state", "key", "id", "eph", "own", "secret", "ltpk", "order"} \subseteq DOMAIN verify'[p]
        /\ verify'[p].state \in VerifyStates
    BY <1>0, <2>1 DEF Shape
  <2>6. next \in {"t2", "s2"}
    OBVIOUS
  <2> HIDE DEF next
  <2> QED BY <1>a, <2>1, <2>2, <2>3, <2>4, <2>5, <2>6, Connects
<1>2. CASE ToolVerify(p)
  <2>0. PICK k \in IF cred[p].ltpk # None THEN {cred[p].ltpk} ELSE {None, ident} :
          verify' = [verify EXCEPT ![p] = ToVerify([cred[p] EXCEPT !.ltpk = k], links')]
    BY <1>2 DEF ToolVerify
  <2> DEFINE c == [cred[p] EXCEPT !.ltpk = k]
  <2>1. /\ pc[p] = "menu" /\ Connect(p, "tool", "v2") /\ TheirsStay /\ file' = file /\ cred' = cred
        /\ setup' = setup
    BY <1>2 DEF ToolVerify
  <2>2. c.key = cred[p].key /\ c.id = cred[p].id /\ c.ltpk = k
    BY <1>0 DEF Shape, Identity
  <2>3. cred[p].ltpk # None => c.ltpk = cred[p].ltpk
    BY <2>0, <2>2
  <2>4. verify' = [verify EXCEPT ![p] = ToVerify(c, links')]
    BY <2>0
  <2> HIDE DEF c
  <2>5. OnlyHere(p) /\ verify'[p] = ToVerify(c, links') /\ cred'[p] = cred[p] /\ setup'[p] = setup[p]
    BY <1>0, <2>1, <2>4 DEF Connect, Ask, OnlyHere, SameAt, Domains
  <2>6. /\ {"state", "key", "id", "eph", "own", "secret", "ltpk", "order"} \subseteq DOMAIN verify'[p]
        /\ verify'[p].state = "M1Sent" /\ verify'[p].key = c.key /\ verify'[p].id = c.id
        /\ verify'[p].eph = links' /\ verify'[p].ltpk = c.ltpk
    BY <2>5, VerifyBegun
  <2>7. verify'[p].state \in VerifyStates
    BY <2>6 DEF VerifyStates
  <2>8. /\ {"state", "secret", "ltpk"} \subseteq DOMAIN setup'[p] /\ setup'[p].state \in SetupStates
    BY <1>0, <2>5 DEF Shape
  <2> QED BY <1>a, <2>1, <2>2, <2>3, <2>5, <2>6, <2>7, <2>8, Connects
<1> QED BY <1>1, <1>2, ToolStartKeeps DEF Tool

-----------------------------------------------------------------------------
(* The accessory.                                                            *)

\* An accessory speaks to one caller, with what it accepts growing.
LEMMA AccessorySpeaks ==
  ASSUME ConnInv, NEW p \in Callers, OnlyHere(p), UNCHANGED ours, UNCHANGED order,
         accepted \subseteq accepted', TheirInv', CallerInv(p)'
  PROVE  ConnInv'
<1>1. Grows
  BY LinksAre DEF Grows, ours
<1>2. \A q \in Callers \ {p} : CallerInv(q)'
  BY <1>1, SameKeeps DEF OnlyHere
<1>3. FileInv'
  <2>1. Identity(file)'
    BY <1>1, LinksAre, IdentityStays DEF ConnInv, FileInv, ours
  <2> QED BY <2>1, <1>1 DEF ConnInv, FileInv, SavedIsAccepted, ours, Grows
<1> QED BY <1>2, <1>3 DEF ConnInv, OnlyHere

\* What Says leaves of the caller's own.
LEMMA SaysHere ==
  ASSUME ConnInv, NEW p \in Callers, NEW r, Says(p, r),
         acc' = acc \/ acc' = [acc EXCEPT ![p] = acc'[p]]
  PROVE  /\ OnlyHere(p) /\ asked'[p] = FALSE /\ reply'[p] = r /\ open[p] /\ asked[p] /\ pc[p] \in Waiting
         /\ UNCHANGED ours /\ UNCHANGED <<open, forgotten, ident, order>>
         /\ Shape(p)' /\ KeyInv(p)' /\ SetupInv(p)'
<1>0. Domains /\ Shape(p) /\ KeyInv(p) /\ SetupInv(p)
  BY MachineAt
<1>1. /\ open[p] /\ asked[p] /\ asked' = [asked EXCEPT ![p] = FALSE] /\ reply' = [reply EXCEPT ![p] = r]
      /\ UNCHANGED <<open, forgotten, ident, order>> /\ UNCHANGED ours
  BY DEF Says
<1>2. OnlyHere(p) /\ asked'[p] = FALSE /\ reply'[p] = r
  BY <1>0, <1>1 DEF OnlyHere, SameAt, Domains, ours
<1>3. Shape(p)'
  BY <1>0, <1>1, <1>2 DEF Shape, Identity, ours
<1>4. KeyInv(p)' /\ SetupInv(p)'
  BY <1>0, <1>1 DEF KeyInv, SetupInv, ours
<1> QED BY <1>0, <1>1, <1>2, <1>3, <1>4 DEF Shape

LEMMA TheirsSame ==
  ASSUME ConnInv, UNCHANGED <<links, known, accepted, forgotten, ident>>
  PROVE  TheirInv'
BY DEF ConnInv, TheirInv

\* An answer that accepts nobody.
LEMMA PlainAnswer ==
  ASSUME ConnInv, NEW p \in Callers, NEW r, Says(p, r), UNCHANGED <<known, accepted>>,
         r.step # 6,
         r.step = 2 => r.eph = n[p] /\ r.order = order,
         \/ acc' = acc /\ (r.step = 4 => pc[p] \notin {"t4", "v4"})
         \/ pc[p] = "t4" /\ acc' = [acc EXCEPT ![p] = setup[p].secret]
         \/ pc[p] = "v4" /\ acc' = [acc EXCEPT ![p] = verify[p].secret]
  PROVE  ConnInv'
<1>0. Domains /\ CredInv(p) /\ VerifyInv(p) /\ KeysInv(p)
  BY MachineAt
<1>1. acc' = acc \/ acc' = [acc EXCEPT ![p] = acc'[p]]
  BY <1>0 DEF Domains
<1>2. /\ OnlyHere(p) /\ asked'[p] = FALSE /\ reply'[p] = r /\ pc[p] \in Waiting
      /\ UNCHANGED ours /\ UNCHANGED <<open, forgotten, ident, order>>
      /\ Shape(p)' /\ KeyInv(p)' /\ SetupInv(p)'
  BY <1>1, SaysHere
<1>3. CredInv(p)'
  BY <1>0, <1>2 DEF CredInv, ours
<1>4. VerifyInv(p)'
  BY <1>0, <1>2 DEF VerifyInv, Verifying, ours
<1>5. KeysInv(p)'
  <2>1. pc' = pc /\ keys' = keys /\ setup' = setup /\ verify' = verify /\ open' = open /\ pc[p] # "paired"
    BY <1>2 DEF ours, Waiting
  <2>2. CASE acc' = acc /\ (r.step = 4 => pc[p] \notin {"t4", "v4"})
    BY <1>0, <1>2, <2>1, <2>2 DEF KeysInv
  <2>3. CASE pc[p] = "t4" /\ acc' = [acc EXCEPT ![p] = setup[p].secret]
    BY <1>0, <2>1, <2>3 DEF KeysInv, Domains
  <2>4. CASE pc[p] = "v4" /\ acc' = [acc EXCEPT ![p] = verify[p].secret]
    BY <1>0, <2>1, <2>4 DEF KeysInv, Domains
  <2> QED BY <2>2, <2>3, <2>4
<1>6. TheirInv' /\ UNCHANGED order
  BY <1>2, TheirsSame DEF ours
<1>7. CallerInv(p)'
  BY <1>2, <1>3, <1>4, <1>5 DEF CallerInv
<1> QED BY <1>2, <1>6, <1>7, AccessorySpeaks

\* M5 registers the controller, under the accessory's present identity.
LEMMA Registers ==
  ASSUME ConnInv, NEW p \in Callers, pc[p] = "s6", known' = known \cup {Controller(p)},
         accepted' = accepted \cup {[cred[p] EXCEPT !.ltpk = ident]},
         Says(p, [step |-> 6, proof |-> setup[p].secret, ltpk |-> ident]), acc' = acc
  PROVE  ConnInv'
<1> DEFINE a == [cred[p] EXCEPT !.ltpk = ident]
<1>0. Domains /\ Shape(p) /\ CredInv(p) /\ TheirInv
  BY MachineAt DEF ConnInv
<1>2. /\ OnlyHere(p) /\ asked'[p] = FALSE /\ pc[p] \in Waiting
      /\ reply'[p] = [step |-> 6, proof |-> setup[p].secret, ltpk |-> ident]
      /\ UNCHANGED ours /\ UNCHANGED <<open, forgotten, ident, order>>
      /\ Shape(p)' /\ KeyInv(p)' /\ SetupInv(p)'
  BY SaysHere
<1>3. /\ DOMAIN cred[p] = {"key", "id", "ltpk"} /\ a.key = cred[p].key /\ a.id = cred[p].id
      /\ a.ltpk = ident
  BY <1>0 DEF Shape, Identity
<1>4. reply'[p].ltpk = ident
  BY <1>2
<1>5. CredInv(p)'
  <2>1. cred' = cred /\ a \in accepted'
    BY <1>2 DEF ours
  <2> QED BY <1>0, <1>4, <2>1 DEF CredInv
<1>6. VerifyInv(p)' /\ KeysInv(p)'
  BY <1>2 DEF VerifyInv, Verifying, KeysInv, ours
<1>7. TheirInv'
  <2>1. ident \in Nat /\ ident' = ident /\ links' = links /\ forgotten' = forgotten
    BY <1>0, <1>2, PairingAssumption DEF TheirInv, ours
  <2>2. Controller(p) = [key |-> a.key, id |-> a.id]
    BY <1>3 DEF Controller
  <2> HIDE DEF a
  <2>3. \A x \in accepted' : x \in accepted \/ x = a
    BY DEF a
  <2>4. \A x \in accepted' : x.ltpk \in Nat /\ x.ltpk <= ident
    BY <1>0, <1>3, <2>1, <2>3 DEF TheirInv
  <2>5. \A x \in accepted' : x.ltpk = ident /\ [key |-> x.key, id |-> x.id] \notin forgotten =>
                                [key |-> x.key, id |-> x.id] \in known'
    BY <1>0, <2>2, <2>3 DEF TheirInv
  <2> QED BY <1>0, <2>1, <2>4, <2>5 DEF TheirInv
<1>8. CallerInv(p)'
  BY <1>2, <1>5, <1>6 DEF CallerInv
<1> QED BY <1>2, <1>7, <1>8, AccessorySpeaks

LEMMA AnswerKeeps ==
  ASSUME ConnInv, NEW p \in Callers, Answer(p)
  PROVE  ConnInv'
<1>1. CASE Says(p, Bad) /\ UNCHANGED <<acc, known, accepted>>
  <2> DEFINE r == Bad
  <2>1. r.step = 0 /\ Says(p, r)
    BY <1>1 DEF Bad
  <2>2. r.step # 6 /\ r.step # 2 /\ r.step # 4 /\ acc' = acc /\ UNCHANGED <<known, accepted>>
    BY <1>1, <2>1
  <2> HIDE DEF r
  <2> QED BY <2>1, <2>2, PlainAnswer
<1>2. ASSUME pc[p] \in {"t2", "s2", "v2"}, UNCHANGED <<acc, known, accepted>>, NEW k,
             Says(p, [step |-> 2, eph |-> n[p], ltpk |-> k, signer |-> ident, order |-> order])
      PROVE  ConnInv'
  <2> DEFINE r == [step |-> 2, eph |-> n[p], ltpk |-> k, signer |-> ident, order |-> order]
  <2>1. r.step = 2 /\ r.eph = n[p] /\ r.order = order
    OBVIOUS
  <2>2. Says(p, r)
    BY <1>2
  <2> HIDE DEF r
  <2> QED BY <1>2, <2>1, <2>2, PlainAnswer
<1>3. CASE /\ pc[p] = "t4" /\ Encrypts(p, setup[p].secret)
           /\ Says(p, [step |-> 4, proof |-> setup[p].secret]) /\ UNCHANGED <<known, accepted>>
  <2> DEFINE r == [step |-> 4, proof |-> setup[p].secret]
  <2>1. r.step = 4 /\ Says(p, r) /\ acc' = [acc EXCEPT ![p] = setup[p].secret]
    BY <1>3 DEF Encrypts
  <2> HIDE DEF r
  <2>2. r.step # 6 /\ r.step # 2
    BY <2>1
  <2>3. pc[p] = "t4" /\ UNCHANGED <<known, accepted>>
    BY <1>3
  <2> QED BY <2>1, <2>2, <2>3, PlainAnswer
<1>4. CASE /\ pc[p] = "s4" /\ Says(p, [step |-> 4, proof |-> setup[p].secret])
           /\ UNCHANGED <<acc, known, accepted>>
  <2> DEFINE r == [step |-> 4, proof |-> setup[p].secret]
  <2>1. r.step = 4 /\ Says(p, r)
    BY <1>4
  <2> HIDE DEF r
  <2>2. r.step # 6 /\ r.step # 2 /\ pc[p] \notin {"t4", "v4"} /\ acc' = acc
    BY <1>4, <2>1
  <2> QED BY <1>4, <2>1, <2>2, PlainAnswer
<1>5. CASE /\ pc[p] = "s6" /\ known' = known \cup {Controller(p)}
           /\ accepted' = accepted \cup {[cred[p] EXCEPT !.ltpk = ident]}
           /\ Says(p, [step |-> 6, proof |-> setup[p].secret, ltpk |-> ident]) /\ UNCHANGED acc
  BY <1>5, Registers
<1>6. CASE /\ pc[p] = "v4" /\ Encrypts(p, verify[p].secret)
           /\ Says(p, [step |-> 4]) /\ UNCHANGED <<known, accepted>>
  <2> DEFINE r == [step |-> 4]
  <2>1. r.step = 4 /\ Says(p, r) /\ acc' = [acc EXCEPT ![p] = verify[p].secret]
    BY <1>6 DEF Encrypts
  <2> HIDE DEF r
  <2>2. r.step # 6 /\ r.step # 2
    BY <2>1
  <2>3. pc[p] = "v4" /\ UNCHANGED <<known, accepted>>
    BY <1>6
  <2> QED BY <2>1, <2>2, <2>3, PlainAnswer
<1> QED BY <1>1, <1>2, <1>3, <1>4, <1>5, <1>6 DEF Answer

LEMMA CloseKeeps ==
  ASSUME ConnInv, NEW p \in Callers, Close(p)
  PROVE  ConnInv'
<1>0. Domains /\ CallerInv(p)
  BY MachineAt
<1>1. /\ open' = [open EXCEPT ![p] = FALSE] /\ acc' = [acc EXCEPT ![p] = <<>>]
      /\ UNCHANGED <<asked, reply, known, accepted, forgotten, ident, order>> /\ UNCHANGED ours
  BY DEF Close
<1>2. OnlyHere(p) /\ open'[p] = FALSE
  BY <1>0, <1>1 DEF OnlyHere, SameAt, Domains, ours
<1>3. Shape(p)' /\ CredInv(p)' /\ KeyInv(p)' /\ SetupInv(p)'
  BY <1>0, <1>1 DEF CallerInv, Shape, Identity, CredInv, KeyInv, SetupInv, ours
<1>4. VerifyInv(p)'
  BY <1>0, <1>1 DEF CallerInv, VerifyInv, Verifying, ours
<1>5. KeysInv(p)'
  BY <1>0, <1>1, <1>2 DEF CallerInv, KeysInv, ours
<1>6. CallerInv(p)'
  BY <1>3, <1>4, <1>5 DEF CallerInv
<1>7. TheirInv'
  BY <1>1, TheirsSame DEF ours
<1> QED BY <1>1, <1>2, <1>6, <1>7, AccessorySpeaks

\* What the accessory does by itself touches no caller but through its link.
LEMMA ByItself ==
  ASSUME ConnInv, UNCHANGED ours, UNCHANGED <<asked, reply, accepted, order>>, TheirInv',
         DOMAIN open' = Callers, DOMAIN acc' = Callers,
         \A p \in Callers : open'[p] = FALSE \/ (open'[p] = open[p] /\ acc'[p] = acc[p])
  PROVE  ConnInv'
<1>1. Domains'
  BY DEF ConnInv, Domains, ours
<1>2. ASSUME NEW p \in Callers PROVE CallerInv(p)'
  <2>0. CallerInv(p)
    BY DEF ConnInv
  <2>1. Shape(p)' /\ CredInv(p)' /\ KeyInv(p)' /\ SetupInv(p)'
    BY <2>0 DEF CallerInv, Shape, Identity, CredInv, KeyInv, SetupInv, ours
  <2>2. VerifyInv(p)'
    BY <2>0 DEF CallerInv, VerifyInv, Verifying, ours
  <2>3. KeysInv(p)'
    BY <2>0 DEF CallerInv, KeysInv, ours
  <2> QED BY <2>1, <2>2, <2>3 DEF CallerInv
<1>3. FileInv'
  BY DEF ConnInv, FileInv, Identity, SavedIsAccepted, ours
<1> QED BY <1>1, <1>2, <1>3 DEF ConnInv

LEMMA ForgetKeeps ==
  ASSUME ConnInv, NEW c \in known, Forget(c)
  PROVE  ConnInv'
<1>1. /\ known' = known \ {c} /\ forgotten' = forgotten \cup {c}
      /\ UNCHANGED <<acc, accepted, ident, order>> /\ UNCHANGED ours /\ UNCHANGED <<open, asked, reply>>
  BY DEF Forget, wire
<1>2. TheirInv'
  BY <1>1 DEF ConnInv, TheirInv, ours
<1>3. DOMAIN open' = Callers /\ DOMAIN acc' = Callers
  BY <1>1 DEF ConnInv, Domains
<1> QED BY <1>1, <1>2, <1>3, ByItself

LEMMA ResetKeeps ==
  ASSUME ConnInv, FactoryReset
  PROVE  ConnInv'
<1>1. /\ ident <= MaxResets /\ ident' = ident + 1 /\ known' = {}
      /\ open' = [p \in Callers |-> FALSE] /\ acc' = [p \in Callers |-> <<>>]
      /\ UNCHANGED <<asked, reply, accepted, forgotten, order>> /\ UNCHANGED ours
  BY DEF FactoryReset
<1>2. TheirInv'
  <2>1. TheirInv /\ links' = links /\ ident \in Nat /\ MaxResets \in Nat /\ accepted' = accepted
    BY <1>1, PairingAssumption DEF ConnInv, TheirInv, ours
  <2>2. \A a \in accepted : a.ltpk \in Nat /\ a.ltpk <= ident /\ a.ltpk # ident'
    BY <1>1, <2>1 DEF TheirInv
  <2>3. \A a \in accepted' : a.ltpk \in Nat /\ a.ltpk <= ident' /\ a.ltpk # ident'
    BY <1>1, <2>1, <2>2
  <2>4. links' \in 0 .. MaxLinks /\ ident' \in 1 .. (MaxResets + 1)
    BY <1>1, <2>1 DEF TheirInv
  <2> QED BY <2>3, <2>4 DEF TheirInv
<1> QED BY <1>1, <1>2, ByItself

LEMMA ConnStepKeeps == ConnInv /\ [Next]_vars => ConnInv'
<1> SUFFICES ASSUME ConnInv, [Next]_vars PROVE ConnInv'
  OBVIOUS
<1>1. CASE UNCHANGED vars
  <2>1. /\ UNCHANGED ours /\ UNCHANGED <<asked, reply, accepted, order>>
        /\ UNCHANGED <<links, known, accepted, forgotten, ident, open, acc>>
    BY <1>1 DEF vars, ours, theirs, wire
  <2>2. TheirInv' /\ DOMAIN open' = Callers /\ DOMAIN acc' = Callers
    BY <2>1, TheirsSame DEF ConnInv, Domains
  <2> QED BY <2>1, <2>2, ByItself
<1>2. ASSUME NEW p \in Callers, Call(p) \/ Info(p) \/ SetupReply(p) \/ VerifyReply(p) \/ Refused(p)
                                \/ Options(p) \/ OptionsFails(p) \/ LinkFails(p) \/ GiveUp(p)
      PROVE  ConnInv'
  BY <1>2, CallKeeps, InfoKeeps, SetupReplyKeeps, VerifyReplyKeeps, GivingUpKeeps, OptionsKeeps
<1>3. ASSUME NEW p \in Callers, Tool(p) \/ Answer(p) \/ Close(p) PROVE ConnInv'
  BY <1>3, ToolKeeps, AnswerKeeps, CloseKeeps
<1>4. ASSUME NEW c \in known, Forget(c) PROVE ConnInv'
  BY <1>4, ForgetKeeps
<1> QED BY <1>1, <1>2, <1>3, <1>4, ResetKeeps DEF Next

LEMMA ConnHolds ==
  ConnInv => ConnectTypeOK /\ PairedIsMutual /\ SavedIsAccepted /\ PairedAreRecognised
<1> SUFFICES ASSUME ConnInv
             PROVE  ConnectTypeOK /\ PairedIsMutual /\ SavedIsAccepted /\ PairedAreRecognised
  OBVIOUS
<1>1. SavedIsAccepted
  BY DEF ConnInv, FileInv
<1>2. PairedIsMutual
  BY DEF ConnInv, CallerInv, KeysInv, PairedIsMutual
<1>3. ASSUME NEW p \in Callers, pc[p] = "v4", cred[p].ltpk = ident, Controller(p) \notin forgotten
      PROVE  Acceptable(p)
  <2>1. CredInv(p) /\ VerifyInv(p) /\ TheirInv
    BY MachineAt DEF ConnInv
  <2>2. cred[p].ltpk # None
    BY <1>3, <2>1, PairingAssumption DEF TheirInv, None
  <2>3. cred[p] \in accepted
    BY <2>1, <2>2 DEF CredInv
  <2>4. Controller(p) \in known
    BY <1>3, <2>1, <2>3 DEF TheirInv, Controller
  <2>5. /\ verify[p].key = cred[p].key /\ verify[p].id = cred[p].id
        /\ verify[p].secret = <<n[p], n[p]>> /\ verify[p].order = order
    BY <1>3, <2>1, <2>2 DEF VerifyInv
  <2> QED BY <2>4, <2>5 DEF Acceptable, Controller
<1>4. PairedAreRecognised
  BY <1>3 DEF PairedAreRecognised
<1>5. ConnectTypeOK
  <2>1. ASSUME NEW p \in Callers
        PROVE  /\ pc[p] \in Waiting \cup {"idle", "menu", "paired"}
               /\ setup[p].state \in SetupStates /\ verify[p].state \in VerifyStates
               /\ asked[p] => pc[p] \in Waiting
               /\ pc[p] \in {"t2", "s2"} => setup[p].state = "M1Sent"
               /\ pc[p] \in {"t4", "s4"} => setup[p].state = "M3Sent"
               /\ pc[p] = "v4" => verify[p].state = "M3Sent"
    BY MachineAt DEF Shape, SetupInv, VerifyInv
  <2>2. file = Nobody \/ file.key \in 1 .. MaxLinks
    BY LinksAre DEF ConnInv, FileInv, Identity
  <2> QED BY <2>1, <2>2 DEF ConnectTypeOK, ConnInv, TheirInv
<1> QED BY <1>1, <1>2, <1>4, <1>5

LEMMA RunKeepsConn == RunSpec => []ConnInv
<1>1. RunInit => ConnInv
  BY FirstConn DEF RunInit
<1>2. ConnInv /\ [RunNext]_allVars => ConnInv'
  BY ConnStepKeeps DEF RunNext, allVars
<1> QED BY <1>1, <1>2, PTL DEF RunSpec

-----------------------------------------------------------------------------
(* The library: every machine stays in the states it has, whoever calls it   *)
(* and in whatever order.                                                    *)

SetupLike(s) == "state" \in DOMAIN s /\ s.state \in Api!SetupStates
VerifyLike(v) == {"state", "order"} \subseteq DOMAIN v /\ v.state \in Api!VerifyStates /\ v.order \in Orders
FairPlayLike(f) == "state" \in DOMAIN f /\ f.state \in Api!FairPlayStates
ExchangeLike(t) == "state" \in DOMAIN t /\ t.state \in {"Initial", "M1Sent", "Complete", "Failed"}

MachineLike(p, m) ==
  /\ p \in {"setup", "transient"} => SetupLike(m)
  /\ p = "verify" => VerifyLike(m)
  /\ p = "fairplay" => FairPlayLike(m)

SessionLike ==
  /\ stage \in [Api!Protocols -> Api!Stages] /\ DOMAIN machine = Api!Protocols
  /\ \A p \in Api!Protocols : MachineLike(p, machine[p])

AloneLike == VerifyLike(pv) /\ ExchangeLike(exchange) /\ tries \in 0 .. MaxTries

LEMMA SetupKeepsStates ==
  ASSUME NEW s, SetupLike(s), NEW r
  PROVE  /\ SetupLike(Api!SetupM1(s)) /\ SetupLike(Api!SetupM2(s, r)) /\ SetupLike(Api!SetupM3(s))
         /\ SetupLike(Api!SetupM4(s, r)) /\ SetupLike(Api!SetupM5(s)) /\ SetupLike(Api!SetupM6(s, r))
         /\ SetupLike(Api!SetupDone(s))
BY DEF SetupLike, Api!SetupStates, Api!SetupM1, Api!SetupM2, Api!SetupM3, Api!SetupM4, Api!SetupM5,
       Api!SetupM6, Api!SetupDone, Api!Fail

LEMMA FairPlayKeepsStates ==
  ASSUME NEW f, FairPlayLike(f), NEW r
  PROVE  /\ FairPlayLike(Api!Phase1(f)) /\ FairPlayLike(Api!Phase1Reply(f, r))
         /\ FairPlayLike(Api!Phase3(f)) /\ FairPlayLike(Api!Phase3Reply(f, r))
BY DEF FairPlayLike, Api!FairPlayStates, Api!Phase1, Api!Phase1Reply, Api!Phase3, Api!Phase3Reply, Api!Fail

\* The calls that read no reply.
LEMMA VerifyStartsWell ==
  ASSUME NEW v, VerifyLike(v), NEW e
  PROVE  /\ VerifyLike(Api!VerifyM1(v, e)) /\ VerifyLike(Api!VerifyM1Transient(v, e))
         /\ VerifyLike(Api!VerifyM3(v)) /\ VerifyLike(Api!VerifyM3Transient(v))
         /\ VerifyLike(Api!Reset(v)) /\ VerifyLike(Api!SetServerLtpk(v, e)) /\ VerifyLike(Api!Fail(v))
BY DEF VerifyLike, Api!VerifyStates, Api!VerifyM1, Api!VerifyM1Transient, Api!VerifyM3,
       Api!VerifyM3Transient, Api!Reset, Api!SetServerLtpk, Api!Fail

\* A reply to M1 says in which order it was signed: what is learned from it is an order.
LEMMA RepliesAreOrdered ==
  ASSUME NEW m, NEW r \in Api!Replies(m), r.step = 2
  PROVE  r.order \in Orders
BY DEF Api!Replies, Api!Bad

LEMMA VerifyReadsWell ==
  ASSUME NEW v, VerifyLike(v), NEW m, NEW r \in Api!Replies(m)
  PROVE  /\ VerifyLike(Api!VerifyM2(v, r)) /\ VerifyLike(Api!VerifyM2Transient(v, r))
         /\ VerifyLike(Api!VerifyM4(v, r)) /\ VerifyLike(Api!VerifyM4Transient(v, r))
<1>1. VerifyLike(Api!Agreed(v, r))
  BY DEF VerifyLike, Api!Agreed
<1>2. ASSUME NEW w, VerifyLike(w), r.step = 2 PROVE VerifyLike(Api!LearnOrder(w, r))
  BY <1>2, RepliesAreOrdered, VerifyStartsWell DEF VerifyLike, Api!VerifyStates, Api!LearnOrder
<1>3. VerifyLike(Api!VerifyM2(v, r))
  BY <1>1, <1>2, VerifyStartsWell DEF Api!VerifyM2
<1>4. VerifyLike(Api!VerifyM2Transient(v, r))
  <2>1. VerifyLike([Api!Agreed(v, r) EXCEPT !.state = "M2Received"])
    BY <1>1 DEF VerifyLike, Api!VerifyStates
  <2> QED BY <1>1, <2>1, VerifyStartsWell DEF Api!VerifyM2Transient
<1>5. VerifyLike(Api!VerifyM4(v, r)) /\ VerifyLike(Api!VerifyM4Transient(v, r))
  <2>1. VerifyLike([v EXCEPT !.state = "Complete"])
    BY DEF VerifyLike, Api!VerifyStates
  <2> QED BY <2>1, VerifyStartsWell DEF Api!VerifyM4, Api!VerifyM4Transient
<1> QED BY <1>3, <1>4, <1>5

\* One protocol of the session moves: its new machine is one it may have.
LEMMA MachineGoesOn ==
  ASSUME SessionLike, NEW p \in Api!Protocols, NEW m, MachineLike(p, m), NEW s \in Api!Stages,
         machine' = [machine EXCEPT ![p] = m],
         stage' = stage \/ stage' = [stage EXCEPT ![p] = s]
  PROVE  SessionLike'
<1>1. stage' \in [Api!Protocols -> Api!Stages] /\ DOMAIN machine' = Api!Protocols
  <2>1. stage \in [Api!Protocols -> Api!Stages] /\ DOMAIN machine = Api!Protocols
    BY DEF SessionLike
  <2>2. [stage EXCEPT ![p] = s] \in [Api!Protocols -> Api!Stages]
    BY <2>1
  <2>3. DOMAIN [machine EXCEPT ![p] = m] = Api!Protocols
    BY <2>1
  <2> QED BY <2>1, <2>2, <2>3
<1>2. \A q \in Api!Protocols : machine'[q] = IF q = p THEN m ELSE machine[q]
  BY DEF SessionLike
<1>3. \A q \in Api!Protocols : MachineLike(q, machine'[q])
  BY <1>2 DEF SessionLike
<1> QED BY <1>1, <1>3 DEF SessionLike

LEMMA TakenMoves ==
  ASSUME SessionLike, NEW p \in Api!Protocols, NEW read, NEW good, NEW sent, NEW next \in Api!Stages,
         MachineLike(p, read), MachineLike(p, sent), Api!Take(p, read, good, sent, next)
  PROVE  SessionLike'
<1> DEFINE m == IF read.state = good THEN sent ELSE read
<1>1. MachineLike(p, m)
  OBVIOUS
<1>2. machine' = [machine EXCEPT ![p] = m] /\ (stage' = stage \/ stage' = [stage EXCEPT ![p] = next])
  BY DEF Api!Take
<1> HIDE DEF m
<1> QED BY <1>1, <1>2, MachineGoesOn

LEMMA SessionKeepsStates ==
  ASSUME SessionLike, Api!Session
  PROVE  SessionLike'
<1>1. \A p \in Api!Protocols : MachineLike(p, machine[p])
  BY DEF SessionLike
<1>2. {"setup", "transient", "verify", "fairplay"} = Api!Protocols
  BY DEF Api!Protocols
<1>3. ASSUME NEW p \in Api!Protocols, Api!Start(p) PROVE SessionLike'
  <2>1. MachineLike(p, Api!Started(p))
    BY <1>1, SetupKeepsStates, FairPlayKeepsStates, VerifyStartsWell
       DEF MachineLike, Api!Started, Api!Protocols
  <2>2. "WaitingM2" \in Api!Stages
    BY DEF Api!Stages
  <2>3. /\ machine' = [machine EXCEPT ![p] = Api!Started(p)]
        /\ stage' = stage \/ stage' = [stage EXCEPT ![p] = "WaitingM2"]
    BY <1>3 DEF Api!Start
  <2> QED BY <2>1, <2>2, <2>3, MachineGoesOn
<1>4. ASSUME NEW s, SetupLike(s), NEW p \in {"setup", "transient"} PROVE MachineLike(p, s)
  BY <1>4 DEF MachineLike
<1>5. SetupLike(machine["setup"]) /\ SetupLike(machine["transient"])
      /\ VerifyLike(machine["verify"]) /\ FairPlayLike(machine["fairplay"])
  BY <1>1, <1>2 DEF MachineLike
<1>6. ASSUME NEW r, Api!ContinueSetup(r) PROVE SessionLike'
  BY <1>2, <1>4, <1>5, <1>6, SetupKeepsStates, StagesThere, TakenMoves DEF Api!ContinueSetup
<1>7. ASSUME NEW r, Api!ContinueTransient(r) PROVE SessionLike'
  BY <1>2, <1>4, <1>5, <1>7, SetupKeepsStates, StagesThere, TakenMoves DEF Api!ContinueTransient
<1>8. ASSUME NEW r \in Api!Replies(Api!Secret("verify")), Api!ContinueVerify(r) PROVE SessionLike'
  <2>1. ASSUME NEW v, VerifyLike(v) PROVE MachineLike("verify", v)
    BY <2>1 DEF MachineLike
  <2> QED BY <1>2, <1>5, <1>8, <2>1, VerifyReadsWell, VerifyStartsWell, StagesThere, TakenMoves
          DEF Api!ContinueVerify
<1>9. ASSUME NEW r, Api!ContinueFairPlay(r) PROVE SessionLike'
  <2>1. ASSUME NEW f, FairPlayLike(f) PROVE MachineLike("fairplay", f)
    BY <2>1 DEF MachineLike
  <2> QED BY <1>2, <1>5, <1>9, <2>1, FairPlayKeepsStates, StagesThere, TakenMoves
          DEF Api!ContinueFairPlay
<1> QED BY <1>3, <1>6, <1>7, <1>8, <1>9 DEF Api!Session

LEMMA AloneKeepsStates ==
  ASSUME AloneLike, Api!Verify \/ Api!Exchange, MaxTries \in Nat
  PROVE  AloneLike'
<1>1. CASE Api!Verify
  <2>1. CASE tries < MaxTries /\ tries' = tries + 1 /\ pv' = Api!Reset(pv)
    BY <1>1, <2>1, VerifyStartsWell DEF AloneLike, Api!Verify
  <2>2. CASE /\ pv' \in {Api!VerifyM1(pv, tries + 1), Api!VerifyM1Transient(pv, tries + 1), Api!VerifyM3(pv),
                         Api!VerifyM3Transient(pv), Api!SetServerLtpk(pv, Api!Server)}
             /\ UNCHANGED tries
    BY <1>1, <2>2, VerifyStartsWell DEF AloneLike, Api!Verify
  <2>3. ASSUME NEW r \in Api!Replies(pv.secret),
               pv' \in {Api!VerifyM2(pv, r), Api!VerifyM2Transient(pv, r),
                        Api!VerifyM4(pv, r), Api!VerifyM4Transient(pv, r)},
               UNCHANGED tries
        PROVE  AloneLike'
    BY <1>1, <2>3, VerifyReadsWell DEF AloneLike, Api!Verify
  <2> QED BY <1>1, <2>1, <2>2, <2>3 DEF Api!Verify
<1>2. CASE Api!Exchange
  <2>1. ExchangeLike(Api!ExchangeM1(exchange)) /\ \A r : ExchangeLike(Api!ExchangeM2(exchange, r))
    BY DEF AloneLike, ExchangeLike, Api!ExchangeM1, Api!ExchangeM2, Api!Fail
  <2> QED BY <1>2, <2>1 DEF AloneLike, Api!Exchange
<1> QED BY <1>1, <1>2

\* Every machine of the library stays in a state of its protocol, in a session that keeps its
\* stage as on its own, and the order learned for a signature is one there is.
THEOREM ApiTypesHold == RunSpec => []Api!ApiTypeOK
<1>1. RunInit => SessionLike /\ AloneLike
  <2> SUFFICES ASSUME RunInit PROVE SessionLike /\ AloneLike
    OBVIOUS
  <2>1. /\ stage = [p \in Api!Protocols |-> "NotStarted"] /\ DOMAIN machine = Api!Protocols
        /\ machine["setup"] = Api!NewSetup(FALSE, Api!Pin, 1)
        /\ machine["transient"] = Api!NewSetup(TRUE, Api!Pin, 2)
        /\ machine["verify"] = Api!NewVerify(1, "derived") /\ machine["fairplay"] = Api!NewFairPlay
    BY DEF RunInit, Api!ApiInit, Api!Protocols
  <2>2. \A t, k, e : SetupLike(Api!NewSetup(t, k, e))
    BY DEF SetupLike, Api!NewSetup, Api!SetupStates
  <2>3. \A k, i : VerifyLike(Api!NewVerify(k, i))
    BY OrdersAssumption DEF VerifyLike, Api!NewVerify, Api!VerifyStates
  <2>4. FairPlayLike(Api!NewFairPlay) /\ ExchangeLike(Api!NewExchange)
    BY DEF FairPlayLike, ExchangeLike, Api!NewFairPlay, Api!NewExchange, Api!FairPlayStates
  <2>5. \A p \in Api!Protocols : MachineLike(p, machine[p])
    BY <2>1, <2>2, <2>3, <2>4 DEF MachineLike
  <2>6. SessionLike
    BY <2>1, <2>5 DEF SessionLike, Api!Stages
  <2>7. AloneLike
    BY <2>3, <2>4, RunAssumption DEF AloneLike, RunInit, Api!ApiInit
  <2> QED BY <2>6, <2>7
<1>2. SessionLike /\ AloneLike /\ [RunNext]_allVars => SessionLike' /\ AloneLike'
  <2> SUFFICES ASSUME SessionLike, AloneLike, [RunNext]_allVars PROVE SessionLike' /\ AloneLike'
    OBVIOUS
  <2>1. ASSUME UNCHANGED <<stage, machine>> PROVE SessionLike'
    BY <2>1 DEF SessionLike
  <2>2. ASSUME UNCHANGED alone PROVE AloneLike'
    BY <2>2 DEF AloneLike, alone
  <2>3. CASE Api!Session \/ Api!TakeKeys
    BY <2>1, <2>2, <2>3, SessionKeepsStates DEF Api!Session, Api!TakeKeys, alone
  <2>4. CASE Api!Verify \/ Api!Exchange
    BY <2>1, <2>4, AloneKeepsStates, RunAssumption DEF Api!Verify, Api!Exchange
  <2>5. CASE UNCHANGED <<session, alone>>
    BY <2>1, <2>2, <2>5 DEF session
  <2> QED BY <2>3, <2>4, <2>5 DEF RunNext, allVars
<1>3. SessionLike /\ AloneLike => Api!ApiTypeOK
  <2> SUFFICES ASSUME SessionLike, AloneLike PROVE Api!ApiTypeOK
    OBVIOUS
  <2>1. /\ SetupLike(machine["setup"]) /\ SetupLike(machine["transient"])
        /\ VerifyLike(machine["verify"]) /\ FairPlayLike(machine["fairplay"])
    BY DEF SessionLike, MachineLike, Api!Protocols
  <2> QED BY <2>1 DEF SessionLike, AloneLike, SetupLike, VerifyLike, FairPlayLike, ExchangeLike, Api!ApiTypeOK
<1> QED BY <1>1, <1>2, <1>3, PTL DEF RunSpec

-----------------------------------------------------------------------------
(* What every run keeps.                                                     *)

\* The stage of a session and its machine never drift apart, whatever replies come.
THEOREM StagesStayTogether == RunSpec => []StagesAgree
<1>1. RunInit => ApiInv
  BY FirstApi DEF RunInit
<1>2. ApiInv /\ [RunNext]_allVars => ApiInv'
  BY ApiStepKeeps DEF RunNext, allVars, menu
<1>3. ApiInv => StagesAgree
  BY DEF ApiInv, StagesAgree
<1> QED BY <1>1, <1>2, <1>3, PTL DEF RunSpec

\* A method goes on with the answers to its own requests. What is left of an answer was left
\* where a length was not found, and meets a request that reads past it or fails, or the last.
THEOREM AnswersStayOwn == RunSpec => []AnswersAreItsOwn
<1>1. RunInit => ToolInv
  BY FirstTool DEF RunInit
<1>2. ToolInv /\ [RunNext]_allVars => ToolInv'
  BY ToolStepKeeps, RunAssumption DEF RunNext, allVars, menu
<1>3. ToolInv => AnswersAreItsOwn
  BY DEF ToolInv, HeardInv, OwnInv, WholeInv, CutInv, QuietInv, AnswersAreItsOwn, Menu!AnswersAreItsOwn
<1> QED BY <1>1, <1>2, <1>3, PTL DEF RunSpec

\* The machine at each await is in the state its next message needs, and every identity in
\* use was generated once.
THEOREM ConnectTypeCorrect == RunSpec => []ConnectTypeOK
BY RunKeepsConn, ConnHolds, PTL

\* For any number of programs and links, with answers refused, links lost, callers giving up,
\* controllers forgotten and accessories reset: a connection handed over has its receiver's
\* keys, or the receiver is gone.
THEOREM PairedStaysMutual == RunSpec => []PairedIsMutual
BY RunKeepsConn, ConnHolds, PTL

\* However many programs write the one identity file, an accessory's key stands in it only
\* beside the controller that accessory accepted.
THEOREM SavedStaysAccepted == RunSpec => []SavedIsAccepted
BY RunKeepsConn, ConnHolds, PTL

\* Who was accepted by this identity of the accessory, and is not forgotten, passes pair-verify.
THEOREM PairedStayRecognised == RunSpec => []PairedAreRecognised
BY RunKeepsConn, ConnHolds, PTL
=============================================================================
