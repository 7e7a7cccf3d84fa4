-------------------------- MODULE SoloPartsProofs --------------------------
(***************************************************************************)
(* What holds of the parts that work by themselves, for every size of      *)
(* ring, queue, list and burst, and any number of packets, requests, plays *)
(* and keys.  Each part has its inductive invariant, and a step of the     *)
(* composition is a step of the part or leaves it alone.  The last two, a  *)
(* live capture from inside and the captures of the player's live sources, *)
(* are sides of AudioSources, which takes their steps or leaves them alone *)
(* likewise.                                                               *)
(***************************************************************************)
EXTENDS SoloParts, LiveFeed, CaptureSources, FiniteSetTheorems, SequenceTheorems,
        WellFoundedInduction, TLAPS

\* A part of a sequence has its elements.
LEMMA PartIsOf ==
  ASSUME NEW S, NEW s \in Seq(S), NEW m \in Nat \ {0}, NEW n \in Int, n <= Len(s)
  PROVE  SubSeq(s, m, n) \in Seq(S)
<1>1. \A i \in m..n : s[i] \in S
  BY ElementOfSeq
<1> QED BY <1>1, SubSeqProperties

-----------------------------------------------------------------------------
(* Remainders.  Sequence numbers are remainders of packet numbers, and     *)
(* slots of a ring remainders of sequence numbers.                         *)

LEMMA DivMod ==
  ASSUME NEW a \in Int, NEW d \in Nat \ {0}
  PROVE  a \div d \in Int /\ a % d \in 0..(d - 1) /\ a = d * (a \div d) + (a % d)
  OBVIOUS

LEMMA Remainder ==
  ASSUME NEW d \in Nat \ {0}, NEW q \in Int, NEW r \in 0..(d - 1)
  PROVE  (d * q + r) % d = r
<1> DEFINE a == d * q + r
           p == a \div d
<1>1. a \in Int
  OBVIOUS
<1>2. p \in Int /\ a % d \in 0..(d - 1) /\ d * (q - p) = (a % d) - r
  BY <1>1, DivMod
<1>3. CASE q - p >= 1
  <2>1. d * (q - p) >= d
    BY <1>2, <1>3
  <2> QED BY <2>1, <1>2
<1>4. CASE q - p <= -1
  <2>1. d * (q - p) <= -d
    BY <1>2, <1>4
  <2> QED BY <2>1, <1>2
<1> QED BY <1>2, <1>3, <1>4

\* Numbers with one remainder are a divisor apart, if they are not the same.
LEMMA SameRemainder ==
  ASSUME NEW d \in Nat \ {0}, NEW a \in Int, NEW b \in Int, a % d = b % d, a < b
  PROVE  a + d <= b
<1> DEFINE p == a \div d
           q == b \div d
<1>1. p \in Int /\ q \in Int /\ b - a = d * (q - p)
  BY DivMod
<1>2. q - p >= 1
  <2> SUFFICES ASSUME q - p <= 0 PROVE FALSE
    BY <1>1
  <2>1. d * (q - p) <= 0
    BY <1>1
  <2> QED BY <2>1, <1>1
<1>3. d * (q - p) >= d
  BY <1>1, <1>2
<1> QED BY <1>1, <1>3

\* One more of the divisor leaves the same remainder, and so does taking it twice.
LEMMA RemainderRepeats ==
  ASSUME NEW d \in Nat \ {0}, NEW a \in Int
  PROVE  (a + d) % d = a % d
<1> DEFINE q == (a \div d) + 1
<1>1. q \in Int /\ a % d \in 0..(d - 1) /\ a + d = d * q + (a % d)
  BY DivMod
<1> HIDE DEF q
<1> QED BY <1>1, Remainder

LEMMA RemainderOfRemainder ==
  ASSUME NEW d \in Nat \ {0}, NEW e \in Nat \ {0}, e % d = 0, NEW a \in Int
  PROVE  (a % e) % d = a % d
<1> DEFINE q == a \div e
           k == e \div d
           p == (a % e) \div d
           r == (a % e) % d
           n == k * q + p
<1>1. q \in Int /\ a % e \in Int /\ a = e * q + (a % e)
  BY DivMod
<1>2. k \in Int /\ e = d * k
  BY DivMod
<1>3. p \in Int /\ r \in 0..(d - 1) /\ a % e = d * p + r
  BY DivMod, <1>1
<1> HIDE DEF q, k, p, r
<1>4. n \in Int
  BY <1>1, <1>2, <1>3
<1>5. a = d * n + r
  <2>1. e * q = d * (k * q)
    BY <1>1, <1>2
  <2>2. d * n = d * (k * q) + d * p
    BY <1>1, <1>2, <1>3
  <2> QED BY <2>1, <2>2, <1>1, <1>3
<1> HIDE DEF n
<1>6. a % d = r
  BY <1>3, <1>4, <1>5, Remainder
<1> QED BY <1>6 DEF r

LEMMA RemainderOfNext ==
  ASSUME NEW d \in Nat \ {0}, NEW a \in Nat
  PROVE  ((a % d) + 1) % d = (a + 1) % d
<1> DEFINE q == a \div d
           r == ((a % d) + 1) % d
           p == ((a % d) + 1) \div d
           n == q + p
<1>1. q \in Int /\ a % d \in 0..(d - 1) /\ a = d * q + (a % d)
  BY DivMod
<1>2. p \in Int /\ r \in 0..(d - 1) /\ (a % d) + 1 = d * p + r
  BY DivMod, <1>1
<1> HIDE DEF q, p, r
<1>3. n \in Int /\ a + 1 = d * n + r
  BY <1>1, <1>2
<1> HIDE DEF n
<1>4. (a + 1) % d = r
  BY <1>2, <1>3, Remainder
<1> QED BY <1>4 DEF r

LEMMA MultipleIsLarger ==
  ASSUME NEW d \in Nat \ {0}, NEW e \in Nat \ {0}, e % d = 0
  PROVE  d <= e
<1>1. 0 % d = 0
  BY DivMod
<1> QED BY <1>1, SameRemainder

-----------------------------------------------------------------------------
(* PacketHistory: the ring, and what is sent from it. *)

\* A packet in the ring is one of the last HistSize, in the slot its number says, and each
\* of those is there.
HistoryInv ==
  /\ HistoryTypeOK
  /\ sequence = prepared % SeqRange
  /\ \A n \in 0..(prepared - 1) :
       n >= prepared - HistSize => history[n % HistSize] = [number |-> n, seq |-> n % SeqRange]
  /\ \A s \in Slots : history[s] # None =>
       /\ history[s].number < prepared /\ history[s].number >= prepared - HistSize
       /\ history[s].number % HistSize = s
       /\ history[s].seq = history[s].number % SeqRange

LEMMA SlotOfPacket ==
  ASSUME NEW p \in Int
  PROVE  Slot(SequenceOf(p)) = p % HistSize /\ p % HistSize \in Slots /\ p % SeqRange \in 0..(SeqRange - 1)
  BY HistoryAssumption, RemainderOfRemainder, DivMod DEF Slot, SequenceOf, Slots

LEMMA FirstHistory == HistoryInit => HistoryInv /\ ResentIsMeant
<1> SUFFICES ASSUME HistoryInit PROVE HistoryInv /\ ResentIsMeant
  OBVIOUS
<1>1. 0 % SeqRange = 0 /\ 0 \in 0..(SeqRange - 1)
  BY HistoryAssumption, DivMod
<1>2. HistoryTypeOK
  BY <1>1 DEF HistoryInit, HistoryTypeOK, Packet
<1>3. \A s \in Slots : history[s] = None
  BY DEF HistoryInit
<1> QED BY <1>1, <1>2, <1>3 DEF HistoryInit, HistoryInv, ResentIsMeant

\* Storing a packet overwrites the one that is HistSize older, and no other.
LEMMA PrepareKeeps == HistoryInv /\ Prepare => HistoryInv'
<1> SUFFICES ASSUME HistoryInv, Prepare PROVE HistoryInv'
  OBVIOUS
<1> DEFINE new == [number |-> prepared, seq |-> prepared % SeqRange]
           at == prepared % HistSize
<1> USE HistoryAssumption
<1>1. /\ HistoryTypeOK /\ prepared \in Int /\ prepared \in Nat /\ prepared' = prepared + 1
      /\ history \in [Slots -> Packet \cup {None}]
  BY DEF HistoryInv, HistoryTypeOK, Prepare
<1>2. Slot(SequenceOf(prepared)) = at /\ at \in Slots /\ prepared % SeqRange \in 0..(SeqRange - 1)
  BY <1>1, SlotOfPacket, Zenon
<1>3. history' = [history EXCEPT ![at] = new]
  BY <1>2 DEF Prepare, SequenceOf, HistoryInv
<1>4. new \in Packet
  BY <1>1, <1>2 DEF Packet
<1>5. sequence' = prepared' % SeqRange /\ sequence' \in 0..(SeqRange - 1)
  <2>1. sequence' = ((prepared % SeqRange) + 1) % SeqRange
    BY DEF Prepare, HistoryInv
  <2>2. ((prepared % SeqRange) + 1) % SeqRange = (prepared + 1) % SeqRange
    BY <1>1, RemainderOfNext, Zenon
  <2>3. prepared + 1 \in Int
    BY <1>1
  <2>4. (prepared + 1) % SeqRange \in 0..(SeqRange - 1)
    BY <2>3, SlotOfPacket, Zenon
  <2> QED BY <1>1, <2>1, <2>2, <2>4
<1> HIDE DEF new, at
<1>6. HistoryTypeOK'
  <2>1. history' \in [Slots -> Packet \cup {None}]
    BY <1>1, <1>2, <1>3, <1>4
  <2>2. left' \in 0..prepared'
    BY <1>1 DEF Prepare, HistoryTypeOK
  <2>3. request' = {} /\ answer' = {} /\ counted' = 0
    BY DEF Prepare, Quiet
  <2> QED BY <1>1, <1>5, <2>1, <2>2, <2>3 DEF HistoryTypeOK
<1>7. ASSUME NEW n \in 0..(prepared' - 1), n >= prepared' - HistSize
      PROVE  history'[n % HistSize] = [number |-> n, seq |-> n % SeqRange]
  <2>1. CASE n = prepared
    BY <2>1, <1>1, <1>2, <1>3 DEF new, at
  <2>2. CASE n # prepared
    <3>1. n \in Int /\ n \in 0..(prepared - 1) /\ n < prepared
      BY <1>1, <2>2
    <3>2. n % HistSize # at
      <4> SUFFICES ASSUME n % HistSize = prepared % HistSize PROVE FALSE
        BY DEF at
      <4>1. n + HistSize <= prepared
        BY <1>1, <3>1, SameRemainder, Zenon
      <4> QED BY <4>1, <1>1, <1>7
    <3>3. n % HistSize \in Slots
      BY <3>1, SlotOfPacket, Zenon
    <3>4. history'[n % HistSize] = history[n % HistSize]
      BY <3>2, <3>3, <1>1, <1>3
    <3> QED BY <3>1, <3>4, <1>1, <1>7 DEF HistoryInv
  <2> QED BY <2>1, <2>2
<1>8. ASSUME NEW s \in Slots, history'[s] # None
      PROVE  /\ history'[s].number < prepared' /\ history'[s].number >= prepared' - HistSize
             /\ history'[s].number % HistSize = s
             /\ history'[s].seq = history'[s].number % SeqRange
  <2>1. CASE s = at
    <3>1. history'[s] = new
      BY <2>1, <1>1, <1>2, <1>3
    <3> QED BY <3>1, <2>1, <1>1 DEF new, at
  <2>2. CASE s # at
    <3>1. history'[s] = history[s] /\ history[s] \in Packet
      BY <2>2, <1>1, <1>3, <1>8
    <3>2. (prepared - HistSize) % HistSize = at
      <4> DEFINE a == prepared - HistSize
      <4>1. a \in Int /\ a + HistSize = prepared
        BY <1>1
      <4> HIDE DEF a
      <4>2. a % HistSize = at
        BY <4>1, RemainderRepeats, Zenon DEF at
      <4> QED BY <4>2 DEF a
    <3>3. /\ history[s].number < prepared /\ history[s].number >= prepared - HistSize
          /\ history[s].number % HistSize = s
          /\ history[s].seq = history[s].number % SeqRange
      BY <3>1, <1>8 DEF HistoryInv
    <3>4. history[s].number # prepared - HistSize
      BY <3>2, <3>3, <2>2
    <3>5. history[s].number \in Nat
      BY <3>1 DEF Packet
    <3> QED BY <3>1, <3>3, <3>4, <3>5, <1>1
  <2> QED BY <2>1, <2>2
<1> QED BY <1>5, <1>6, <1>7, <1>8 DEF HistoryInv

\* What the ring answers for a packet that has left is that packet, or one a whole round of
\* sequence numbers younger.
LEMMA AnswerIsMeant ==
  ASSUME HistoryInv, NEW p \in 0..(prepared - 1)
  PROVE  /\ Holds(SequenceOf(p)) =>
              /\ history[Slot(SequenceOf(p))].number \in Nat
              /\ history[Slot(SequenceOf(p))].number = p \/ p + SeqRange < prepared
         /\ p >= prepared - HistSize =>
              Holds(SequenceOf(p)) /\ history[Slot(SequenceOf(p))].number = p
<1> DEFINE s == p % HistSize
           n == history[s].number
<1> USE HistoryAssumption
<1>1. p \in Int /\ prepared \in Nat /\ history \in [Slots -> Packet \cup {None}]
  BY DEF HistoryInv, HistoryTypeOK
<1>2. Slot(SequenceOf(p)) = s /\ s \in Slots /\ p % SeqRange \in 0..(SeqRange - 1)
  BY <1>1, SlotOfPacket, Zenon
<1>3. SequenceOf(p) = p % SeqRange /\ SequenceOf(p) # -1
  BY <1>2 DEF SequenceOf
<1>4. ASSUME Holds(SequenceOf(p)) PROVE n \in Nat /\ (n = p \/ p + SeqRange < prepared)
  <2>1. history[s].seq = p % SeqRange
    BY <1>2, <1>3, <1>4 DEF Holds
  <2>2. history[s] # None
    BY <1>3, <2>1 DEF None
  <2>3. n \in Nat /\ n \in Int
    BY <1>1, <1>2, <2>2 DEF Packet
  <2>4. n < prepared /\ n >= prepared - HistSize /\ n % SeqRange = p % SeqRange
    BY <1>2, <2>1, <2>2 DEF HistoryInv
  <2> HIDE DEF n
  <2>5. (n < p => n + SeqRange <= p) /\ (p < n => p + SeqRange <= n)
    BY <1>1, <2>3, <2>4, SameRemainder, Zenon
  <2>6. HistSize <= SeqRange
    BY MultipleIsLarger, Zenon
  <2> QED BY <1>1, <2>3, <2>4, <2>5, <2>6
<1>5. ASSUME p >= prepared - HistSize PROVE Holds(SequenceOf(p)) /\ n = p
  <2>1. history[s] = [number |-> p, seq |-> p % SeqRange]
    BY <1>5 DEF HistoryInv
  <2> QED BY <1>2, <1>3, <2>1 DEF Holds
<1> QED BY <1>2, <1>4, <1>5

LEMMA RequestIsAnswered == HistoryInv /\ HandleRetransmit => HistoryInv' /\ ResentIsMeant'
<1> SUFFICES ASSUME HistoryInv, HandleRetransmit PROVE HistoryInv' /\ ResentIsMeant'
  OBVIOUS
<1>1. PICK first \in 0..(left - 1), count \in 1..MaxAsked, tried \in 0..MaxAsked :
        /\ first + count <= left /\ tried <= count
        /\ request' = first..(first + tried - 1)
        /\ answer' = Answers(request')
        /\ \/ tried = count /\ counted' = Cardinality(answer')
           \/ /\ Faults /\ tried < count /\ Holds(SequenceOf(first + tried))
              /\ counted' = 0
        /\ UNCHANGED <<sequence, history, prepared, left>>
  BY Zenon DEF HandleRetransmit
<1>2. request' \subseteq 0..(prepared - 1)
  BY <1>1, HistoryAssumption DEF HistoryInv, HistoryTypeOK
<1>3. answer' = {[meant |-> p, number |-> history[Slot(SequenceOf(p))].number] :
                   p \in {q \in request' : Holds(SequenceOf(q))}}
  BY <1>1 DEF Answers
<1>4. answer' \subseteq [meant : Nat, number : Nat]
  BY <1>2, <1>3, AnswerIsMeant
<1>5. counted' \in Nat
  <2> DEFINE some == {q \in request' : Holds(SequenceOf(q))}
             f == [p \in some |-> [meant |-> p, number |-> history[Slot(SequenceOf(p))].number]]
  <2>1. IsFiniteSet(request')
    BY <1>1, FS_Interval, HistoryAssumption DEF HistoryInv, HistoryTypeOK
  <2>2. IsFiniteSet(some)
    BY <2>1, FS_Subset
  <2>3. f \in Surjection(some, answer')
    BY <1>3 DEF Surjection
  <2>4. IsFiniteSet(answer')
    BY <2>2, <2>3, FS_Surjection
  <2> QED BY <1>1, <2>4, FS_CardinalityType
<1>6. HistoryInv'
  BY <1>1, <1>2, <1>4, <1>5 DEF HistoryInv, HistoryTypeOK
<1>7. ASSUME NEW a \in answer' PROVE a.number = a.meant \/ a.meant + SeqRange < prepared'
  BY <1>1, <1>2, <1>3, AnswerIsMeant
<1>8. ASSUME NEW p \in request', p >= prepared' - HistSize
      PROVE  [meant |-> p, number |-> p] \in answer'
  BY <1>1, <1>2, <1>3, <1>8, AnswerIsMeant
<1> QED BY <1>6, <1>7, <1>8 DEF ResentIsMeant

LEMMA HistoryStepKeeps ==
  /\ HistoryInv /\ [HistoryNext]_historyVars => HistoryInv'
  /\ HistoryInv /\ ResentIsMeant /\ [HistoryNext]_historyVars => ResentIsMeant'
<1> SUFFICES ASSUME HistoryInv, [HistoryNext]_historyVars
             PROVE  HistoryInv' /\ (ResentIsMeant => ResentIsMeant')
  OBVIOUS
<1>1. CASE Prepare
  BY <1>1, PrepareKeeps DEF Prepare, Quiet, ResentIsMeant
<1>2. CASE Leave
  BY <1>2 DEF Leave, Quiet, HistoryInv, HistoryTypeOK, ResentIsMeant
<1>3. CASE HandleRetransmit
  BY <1>3, RequestIsAnswered
<1>4. CASE UNCHANGED historyVars
  BY <1>4 DEF historyVars, HistoryInv, HistoryTypeOK, ResentIsMeant, Holds
<1> QED BY <1>1, <1>2, <1>3, <1>4 DEF HistoryNext

LEMMA KeptAreRecent == HistoryInv => RecentAreKept
<1> SUFFICES ASSUME HistoryInv PROVE RecentAreKept
  OBVIOUS
<1> USE HistoryAssumption
<1>1. prepared \in Nat /\ history \in [Slots -> Packet \cup {None}]
  BY DEF HistoryInv, HistoryTypeOK
<1>2. ASSUME NEW s \in Slots, history[s].number # -1
      PROVE  history[s].number \in 0..(prepared - 1) /\ history[s].number >= prepared - HistSize
  BY <1>1, <1>2 DEF HistoryInv, None, Packet
<1>3. ASSUME NEW n \in 0..(prepared - 1), n >= prepared - HistSize
      PROVE  \E s \in Slots : history[s].number = n
  <2>1. n \in Int
    OBVIOUS
  <2>2. n % HistSize \in Slots
    BY <2>1, SlotOfPacket, Zenon
  <2>3. history[n % HistSize] = [number |-> n, seq |-> n % SeqRange]
    BY <1>3, Zenon DEF HistoryInv
  <2> QED BY <2>2, <2>3
<1> QED BY <1>2, <1>3 DEF RecentAreKept

\* A step of the composition is one of the part, or leaves it alone.
LEMMA HistoryStep == [Next]_vars => [HistoryNext]_historyVars
  BY Zenon DEF Next, vars, historyVars

\* The ring of a sender: type-correct, and exactly the last HistSize packets are in it,
\* under the slots their sequence numbers say, however often those have wrapped.
THEOREM HistoryIsKept == Spec => [](HistoryTypeOK /\ RecentAreKept)
<1>1. Init => HistoryInv
  BY FirstHistory DEF Init
<1>2. HistoryInv /\ [Next]_vars => HistoryInv'
  BY HistoryStep, HistoryStepKeeps
<1>3. HistoryInv => HistoryTypeOK /\ RecentAreKept
  BY KeptAreRecent DEF HistoryInv
<1> QED BY <1>1, <1>2, <1>3, PTL DEF Spec

\* A request that comes however late or more than once is answered with the packets it
\* meant, as far as the ring has them, and never with another one but by a whole round
\* of sequence numbers.
THEOREM ResentAreMeant == Spec => []ResentIsMeant
<1>1. Init => HistoryInv /\ ResentIsMeant
  BY FirstHistory DEF Init
<1>2. HistoryInv /\ ResentIsMeant /\ [Next]_vars => HistoryInv' /\ ResentIsMeant'
  BY HistoryStep, HistoryStepKeeps
<1> QED BY <1>1, <1>2, PTL DEF Spec

-----------------------------------------------------------------------------
(* ScreenLists: the lists and their highlights. *)

TodoNames == {"next", "back", "up", "down", "select", "scan", "navigate", "refresh", "scanned",
              "listed", "started"}

ListInv ==
  /\ receivers \in [size : Nat, at : Nat] /\ inputs \in [size : Nat, at : Nat]
  /\ browser \in [size : Nat, at : Nat, depth : Nat]
  /\ todo \in Seq([do : TodoNames, n : Nat])
  /\ HighlightIsListed

Listed(l) == l.at < l.size \/ l.at = 0

\* Every way a list or its highlight is changed leaves the highlight on the list.
LEMMA MovesStayListed ==
  ASSUME NEW l \in [size : Nat, at : Nat], Listed(l)
  PROVE  /\ SelectPrev(l) \in [size : Nat, at : Nat] /\ Listed(SelectPrev(l))
         /\ SelectNext(l) \in [size : Nat, at : Nat] /\ Listed(SelectNext(l))
         /\ \A n \in Nat : Replaced(l, n) \in [size : Nat, at : Nat] /\ Listed(Replaced(l, n))
<1>1. ASSUME NEW n \in Nat
      PROVE  Replaced(l, n) = [size |-> n, at |-> IF l.at >= n THEN 0 ELSE l.at]
  <2> DEFINE k == IF l.at >= n THEN 0 ELSE l.at
  <2>1. [l EXCEPT !.size = n] = [size |-> n, at |-> l.at]
    OBVIOUS
  <2>2. Replaced(l, n) = [[size |-> n, at |-> l.at] EXCEPT !.at = k]
    BY <2>1 DEF Replaced
  <2> HIDE DEF k
  <2>3. [[size |-> n, at |-> l.at] EXCEPT !.at = k] = [size |-> n, at |-> k]
    OBVIOUS
  <2> QED BY <2>2, <2>3 DEF k
<1>2. \A n \in Nat : Replaced(l, n) \in [size : Nat, at : Nat] /\ Listed(Replaced(l, n))
  BY <1>1 DEF Listed
<1> QED BY <1>2 DEF SelectPrev, SelectNext, Listed

LEMMA MovesInBrowser ==
  ASSUME NEW b \in [size : Nat, at : Nat, depth : Nat], Listed(b)
  PROVE  /\ SelectPrev(b) \in [size : Nat, at : Nat, depth : Nat] /\ Listed(SelectPrev(b))
         /\ SelectNext(b) \in [size : Nat, at : Nat, depth : Nat] /\ Listed(SelectNext(b))
  BY DEF SelectPrev, SelectNext, Listed

LEMMA RefreshedIsListed ==
  ASSUME NEW b \in [size : Nat, at : Nat, depth : Nat], NEW c \in Refreshed(b)
  PROVE  c \in [size : Nat, at : Nat, depth : Nat] /\ Listed(c)
<1> DEFINE Kept(n) == IF b.at < n THEN b.at ELSE IF n = 0 THEN 0 ELSE n - 1
           sizes == {0} \cup (IF b.depth > 0 THEN 1..(MaxEntries + 1) ELSE 0..MaxEntries)
<1>1. PICK n \in sizes : c = [b EXCEPT !.size = n, !.at = Kept(n)]
  BY Zenon DEF Refreshed
<1>2. n \in Nat
  BY ScreenListsAssumption
<1>3. c = [size |-> n, at |-> Kept(n), depth |-> b.depth]
  BY <1>1
<1>4. Kept(n) \in Nat /\ (Kept(n) < n \/ Kept(n) = 0)
  BY <1>2
<1> HIDE DEF Kept
<1> QED BY <1>2, <1>3, <1>4 DEF Listed

LEMMA NavigateIsListed ==
  ASSUME NEW b \in [size : Nat, at : Nat, depth : Nat], Listed(b), NEW d \in Nat,
         NEW c \in Navigate(b, d)
  PROVE  c \in [size : Nat, at : Nat, depth : Nat] /\ Listed(c)
<1>1. [b EXCEPT !.depth = d, !.at = 0] \in [size : Nat, at : Nat, depth : Nat]
  OBVIOUS
<1> QED BY <1>1, RefreshedIsListed DEF Navigate

LEMMA ActivateIsListed ==
  ASSUME NEW b \in [size : Nat, at : Nat, depth : Nat], Listed(b), NEW c \in Activate(b)
  PROVE  c \in [size : Nat, at : Nat, depth : Nat] /\ Listed(c)
<1>1. CASE b.depth > 0 /\ c \in Navigate(b, b.depth - 1)
  BY <1>1, NavigateIsListed
<1>2. CASE c \in Navigate(b, b.depth + 1)
  BY <1>2, NavigateIsListed
<1>3. CASE c = b
  BY <1>3
<1> QED BY <1>1, <1>2, <1>3 DEF Activate

LEMMA FirstLists == ListInit => ListInv
<1> SUFFICES ASSUME ListInit PROVE ListInv
  OBVIOUS
<1>1. browser \in [size : Nat, at : Nat, depth : Nat] /\ Listed(browser)
  <2>1. [size |-> 0, at |-> 0, depth |-> MaxDepth] \in [size : Nat, at : Nat, depth : Nat]
    BY ScreenListsAssumption
  <2> QED BY <2>1, RefreshedIsListed DEF ListInit
<1> QED BY <1>1 DEF ListInit, ListInv, HighlightIsListed, Listed

\* An action that waits has the type of the queue, and so has what is left.
LEMMA TurnOfTodo ==
  ASSUME todo \in Seq([do : TodoNames, n : Nat]), NEW a, Turns(a),
         NEW more \in Seq([do : TodoNames, n : Nat]), Then(more)
  PROVE  Head(todo).n \in Nat /\ todo' \in Seq([do : TodoNames, n : Nat])
<1> DEFINE T == [do : TodoNames, n : Nat]
<1>1. Head(todo) \in T /\ Tail(todo) \in Seq(T)
  <2>1. todo # <<>>
    BY DEF Turns
  <2>2. todo \in Seq(T)
    OBVIOUS
  <2> HIDE DEF T
  <2> QED BY <2>1, <2>2
<1>2. Tail(todo) \o more \in Seq(T)
  BY <1>1
<1> QED BY <1>1, <1>2 DEF Then

LEMMA ListStepKeeps == ListInv /\ [ListNext]_listVars => ListInv'
<1> SUFFICES ASSUME ListInv, [ListNext]_listVars PROVE ListInv'
  OBVIOUS
<1> DEFINE L == [size : Nat, at : Nat]
           B == [size : Nat, at : Nat, depth : Nat]
           T == [do : TodoNames, n : Nat]
<1>1. /\ receivers \in L /\ inputs \in L /\ browser \in B /\ todo \in Seq(T)
      /\ Listed(receivers) /\ Listed(inputs) /\ Listed(browser)
  BY DEF ListInv, HighlightIsListed, Listed
<1> DEFINE Goal == /\ receivers' \in L /\ inputs' \in L /\ browser' \in B /\ todo' \in Seq(T)
                   /\ Listed(receivers') /\ Listed(inputs') /\ Listed(browser')
<1>2. SUFFICES Goal
  BY DEF ListInv, HighlightIsListed, Listed
<1>3. <<>> \in Seq(T)
  OBVIOUS
<1>4. ASSUME NEW n \in Nat, NEW a \in TodoNames PROVE Todo(a, n) \in T /\ <<Todo(a, n)>> \in Seq(T)
  BY DEF Todo
<1>5. CASE PressListKey
  <2>1. ViewKeys \subseteq T
    <3>1. (IF browser.depth > 0 THEN browser.depth - 1 ELSE 0) \in Nat
      BY <1>1
    <3> QED BY <3>1, <1>4 DEF ViewKeys, TodoNames
  <2>2. PICK k \in {Todo(a, 0) : a \in {"next", "back", "up", "down", "select"}} \cup ViewKeys :
          todo' = Append(todo, k)
    BY <1>5 DEF PressListKey
  <2>3. k \in T
    <3>1. CASE k \in {Todo(a, 0) : a \in {"next", "back", "up", "down", "select"}}
      <4>1. PICK a \in {"next", "back", "up", "down", "select"} : k = Todo(a, 0)
        BY <3>1
      <4> QED BY <4>1, <1>4 DEF TodoNames
    <3> QED BY <2>1, <3>1
  <2>4. todo' \in Seq(T)
    BY <1>1, <2>2, <2>3
  <2> QED BY <1>1, <1>5, <2>4 DEF PressListKey
<1>6. CASE NextView
  <2>1. \E more \in Seq(T) : Then(more)
    BY <1>3, <1>4, <1>6 DEF NextView, TodoNames
  <2>2. todo' \in Seq(T)
    BY <1>1, <1>6, <2>1, TurnOfTodo DEF NextView
  <2> QED BY <1>1, <1>6, <2>2 DEF NextView
<1>7. CASE Back
  BY <1>1, <1>3, <1>7, TurnOfTodo DEF Back
<1>8. ASSUME NEW a \in {"up", "down"}, Move(a) PROVE Goal
  <2>1. todo' \in Seq(T)
    BY <1>1, <1>3, <1>8, TurnOfTodo DEF Move
  <2> QED BY <1>1, <1>8, <2>1, MovesStayListed, MovesInBrowser DEF Move
<1>9. CASE Select
  <2>1. todo' \in Seq(T)
    BY <1>1, <1>3, <1>9, TurnOfTodo DEF Select
  <2> QED BY <1>1, <1>9, <2>1, ActivateIsListed DEF Select
<1>10. CASE NavigateDir
  <2>1. todo' \in Seq(T) /\ Head(todo).n \in Nat
    BY <1>1, <1>3, <1>10, TurnOfTodo DEF NavigateDir
  <2> QED BY <1>1, <1>10, <2>1, NavigateIsListed DEF NavigateDir
<1>11. ASSUME NEW a, NEW result \in {"scanned", "listed"}, ScanList(a, result) PROVE Goal
  <2>1. PICK n \in 0..MaxEntries : Then(<<Todo(result, n)>>)
    BY <1>11 DEF ScanList
  <2>2. <<Todo(result, n)>> \in Seq(T)
    <3>1. n \in Nat /\ result \in TodoNames
      BY ScreenListsAssumption DEF TodoNames
    <3> QED BY <1>4, <3>1
  <2>3. todo' \in Seq(T)
    BY <1>1, <1>11, <2>1, <2>2, TurnOfTodo DEF ScanList
  <2> QED BY <1>1, <1>11, <2>3 DEF ScanList
<1>12. CASE ReceiversScanned
  <2>1. todo' \in Seq(T) /\ Head(todo).n \in Nat
    BY <1>1, <1>3, <1>12, TurnOfTodo DEF ReceiversScanned
  <2> QED BY <1>1, <1>12, <2>1, MovesStayListed DEF ReceiversScanned
<1>13. CASE InputsListed
  <2>1. todo' \in Seq(T) /\ Head(todo).n \in Nat
    BY <1>1, <1>3, <1>13, TurnOfTodo DEF InputsListed
  <2> QED BY <1>1, <1>13, <2>1, MovesStayListed DEF InputsListed
<1>14. CASE FileStarts
  <2>1. Todo("started", 0) \in T
    BY <1>4 DEF TodoNames
  <2>2. todo' \in Seq(T)
    BY <1>1, <1>14, <2>1 DEF FileStarts
  <2> QED BY <1>1, <1>14, <2>2 DEF FileStarts
<1>15. CASE PlaybackStarted
  <2>1. todo' \in Seq(T)
    BY <1>1, <1>3, <1>15, TurnOfTodo DEF PlaybackStarted
  <2> QED BY <1>1, <1>15, <2>1 DEF PlaybackStarted
<1>16. CASE UNCHANGED listVars
  BY <1>1, <1>16 DEF listVars
<1> QED BY <1>5, <1>6, <1>7, <1>8, <1>9, <1>10, <1>11, <1>12, <1>13, <1>14, <1>15, <1>16 DEF ListNext

LEMMA ListStep == [Next]_vars => [ListNext]_listVars
  BY Zenon DEF Next, vars, listVars

\* The highlight of every list is on one of its entries, or at the start of an empty one,
\* whatever keys wait while scans bring other lists.
THEOREM HighlightStaysListed == Spec => []HighlightIsListed
<1>1. Init => ListInv
  BY FirstLists DEF Init
<1>2. ListInv /\ [Next]_vars => ListInv'
  BY ListStep, ListStepKeeps
<1>3. ListInv => HighlightIsListed
  BY DEF ListInv
<1> QED BY <1>1, <1>2, <1>3, PTL DEF Spec

-----------------------------------------------------------------------------
(* SenderPacing: how far packets may run ahead. *)

PacingTypes ==
  /\ now \in Nat /\ deadline \in Nat /\ resumed \in Nat /\ started \in BOOLEAN
  /\ bursts \in Seq([at : Nat, resumed : Nat])
  /\ ~started => bursts = <<>> /\ pace \notin {"sleeping", "advancing"}

PastBursts == \A i \in DOMAIN bursts : bursts[i].at <= now /\ bursts[i].resumed <= resumed

\* The deadline has moved on by a burst for every burst sent since the i-th, but for one
\* that is caught up and one for each Resume; `sent` bursts have been accounted for.
Ahead(i, sent) ==
  bursts[i].at + (sent - i - 1) * BurstTime <= deadline + (resumed - bursts[i].resumed) * BurstTime

DeadlineMovesOn ==
  IF pace = "advancing"
  THEN /\ bursts # <<>> /\ deadline <= now
       /\ \A i \in 1..(Len(bursts) - 1) : Ahead(i, Len(bursts) - 1)
  ELSE \A i \in DOMAIN bursts : Ahead(i, Len(bursts))

Paced(i, j) ==
  j - i <= (bursts[j].at - bursts[i].at) \div BurstTime + 2 + (bursts[j].resumed - bursts[i].resumed)

PacingInv ==
  /\ PacingTypes /\ PastBursts /\ DeadlineMovesOn
  /\ deadline <= now + BurstTime
  /\ \A i, j \in DOMAIN bursts : i < j => Paced(i, j)

LEMMA BurstTakesTime == BurstTime \in Nat \ {0}
<1>1. BurstTime \in {BurstSize, BurstTime}
  OBVIOUS
<1> QED BY <1>1, SenderPacingAssumption, Zenon

LEMMA Distribute ==
  ASSUME NEW a \in Int, NEW b \in Int, NEW d \in Int
  PROVE  (a + b) * d = a * d + b * d /\ a * d \in Int
  OBVIOUS

LEMMA AddAcross ==
  ASSUME NEW a \in Int, NEW b \in Int, NEW c \in Int, NEW d \in Int, NEW e \in Int, NEW t \in Int,
         a + b <= c + d, c + t <= e
  PROVE  a + (b + t) <= e + d
  OBVIOUS

\* What is known of the numbers of a burst.
LEMMA BurstTypes ==
  ASSUME PacingTypes
  PROVE  /\ now \in Nat /\ deadline \in Nat /\ resumed \in Nat /\ started \in BOOLEAN
         /\ Len(bursts) \in Nat /\ DOMAIN bursts = 1..Len(bursts)
         /\ \A i \in DOMAIN bursts : bursts[i].at \in Nat /\ bursts[i].resumed \in Nat
<1> DEFINE B == [at : Nat, resumed : Nat]
<1>1. bursts \in Seq(B)
  BY DEF PacingTypes
<1>2. Len(bursts) \in Nat /\ DOMAIN bursts = 1..Len(bursts) /\ \A i \in DOMAIN bursts : bursts[i] \in B
  <2> HIDE DEF B
  <2> QED BY <1>1
<1> QED BY <1>2 DEF PacingTypes

LEMMA WholeBursts ==
  ASSUME NEW d \in Nat \ {0}, NEW t \in Int, NEW k \in Int, k * d <= t
  PROVE  k <= t \div d
<1> DEFINE q == t \div d
<1>1. q \in Int /\ t < d * (q + 1)
  <2>1. q \in Int /\ t % d \in 0..(d - 1) /\ t = d * q + (t % d)
    BY DivMod
  <2> HIDE DEF q
  <2>2. d * (q + 1) = d * q + d
    BY <2>1
  <2> QED BY <2>1, <2>2
<1> HIDE DEF q
<1>2. k <= q
  <2> SUFFICES ASSUME k >= q + 1 PROVE FALSE
    BY <1>1
  <2>1. d * k >= d * (q + 1)
    <3>1. k - (q + 1) \in Nat
      BY <1>1
    <3>2. d * (k - (q + 1)) \in Nat
      BY <3>1
    <3>3. d * (k - (q + 1)) = d * k - d * (q + 1)
      BY <1>1
    <3> QED BY <3>2, <3>3, <1>1
  <2> QED BY <2>1, <1>1
<1> QED BY <1>2 DEF q

\* A burst that is sent when its deadline has come keeps the pace with each before it.
LEMMA SendingKeepsPace ==
  ASSUME PacingInv, SendBurst, NEW i \in DOMAIN bursts
  PROVE  (Len(bursts) + 1) - i
           <= (now - bursts[i].at) \div BurstTime + 2 + (resumed - bursts[i].resumed)
<1> DEFINE k == (Len(bursts) - i - 1) - (resumed - bursts[i].resumed)
           t == now - bursts[i].at
<1>1. BurstTime \in Nat \ {0} /\ i \in 1..Len(bursts) /\ Len(bursts) \in Nat /\ now \in Nat
      /\ resumed \in Nat /\ deadline \in Nat /\ bursts[i].at \in Nat /\ bursts[i].resumed \in Nat
  BY BurstTakesTime, BurstTypes DEF PacingInv
<1>2. Ahead(i, Len(bursts)) /\ deadline <= now
  BY DEF PacingInv, DeadlineMovesOn, SendBurst
<1>3. k \in Int /\ t \in Int /\ k * BurstTime <= t
  <2> DEFINE m == Len(bursts) - i - 1
             r == resumed - bursts[i].resumed
             e == -r
  <2>1. m \in Int /\ r \in Int /\ e \in Int /\ k = m + e /\ t \in Int
    <3> HIDE DEF m, r
    <3>1. m \in Int /\ r \in Int
      BY ONLY <1>1 DEF m, r
    <3>2. e \in Int /\ k = m + e
      <4>1. k = m - r
        BY ONLY DEF k, m, r
      <4> QED BY ONLY <3>1, <4>1 DEF e
    <3>3. t \in Int
      BY ONLY <1>1 DEF t
    <3> QED BY <3>1, <3>2, <3>3
  <2>2. bursts[i].at + m * BurstTime <= deadline + r * BurstTime
    BY <1>2 DEF Ahead
  <2> HIDE DEF m, k
  <2>3. e * BurstTime = -(r * BurstTime)
    BY <1>1, <2>1
  <2> HIDE DEF r, e
  <2>4. k * BurstTime = m * BurstTime + e * BurstTime
    BY <1>1, <2>1, Distribute
  <2>5. m * BurstTime \in Int /\ r * BurstTime \in Int
    BY <1>1, <2>1
  <2> DEFINE x == m * BurstTime
             y == r * BurstTime
             z == e * BurstTime
             w == k * BurstTime
  <2>6. /\ x \in Int /\ y \in Int /\ z = -y /\ w = x + z
        /\ bursts[i].at + x <= deadline + y /\ deadline <= now
        /\ now \in Nat /\ deadline \in Nat /\ bursts[i].at \in Nat
    BY ONLY <1>1, <1>2, <2>2, <2>3, <2>4, <2>5
  <2> HIDE DEF x, y, z, w
  <2>7. w <= now - bursts[i].at
    BY ONLY <2>6
  <2>8. k * BurstTime <= now - bursts[i].at
    BY ONLY <2>7 DEF w
  <2> QED BY <1>1, <2>1, <2>8
<1> HIDE DEF k, t
<1>4. k <= t \div BurstTime
  BY <1>1, <1>3, WholeBursts
<1>5. t \div BurstTime \in Int
  BY <1>1, <1>3, DivMod
<1>6. k = (Len(bursts) - i - 1) - (resumed - bursts[i].resumed) /\ t = now - bursts[i].at
  BY DEF k, t
<1> DEFINE u == t \div BurstTime
           l == Len(bursts)
<1>7. u = (now - bursts[i].at) \div BurstTime /\ u \in Int /\ k <= u
  BY <1>4, <1>5, <1>6
<1> HIDE DEF u
<1>8. u \in Int /\ k <= u /\ k = (l - i - 1) - (resumed - bursts[i].resumed) /\ l \in Int /\ i \in Int
  BY <1>1, <1>6, <1>7
<1> HIDE DEF l
<1> DEFINE g == resumed - bursts[i].resumed
<1>9. g \in Int /\ k \in Int /\ k = (l - i - 1) - g
  BY <1>1, <1>3, <1>8
<1> HIDE DEF g
<1>10. l + 1 - i <= u + 2 + g
  BY <1>8, <1>9
<1> QED BY <1>7, <1>10 DEF l, g

LEMMA FirstPacing == PacingInit => PacingInv
<1> SUFFICES ASSUME PacingInit PROVE PacingInv
  OBVIOUS
<1>1. bursts = <<>> /\ bursts \in Seq([at : Nat, resumed : Nat]) /\ DOMAIN bursts = {}
  BY DEF PacingInit
<1>2. PacingTypes
  BY <1>1 DEF PacingInit, PacingTypes
<1>3. deadline <= now + BurstTime
  BY BurstTakesTime DEF PacingInit
<1> QED BY <1>1, <1>2, <1>3 DEF PacingInit, PacingInv, PastBursts, DeadlineMovesOn

LEMMA PacingStepKeeps == PacingInv /\ [PacingNext]_pacingVars => PacingInv'
<1> SUFFICES ASSUME PacingInv, [PacingNext]_pacingVars PROVE PacingInv'
  OBVIOUS
<1>0. /\ now \in Nat /\ deadline \in Nat /\ resumed \in Nat /\ BurstTime \in Nat \ {0}
      /\ Len(bursts) \in Nat /\ deadline <= now + BurstTime
  BY BurstTakesTime, BurstTypes DEF PacingInv
<1>1. /\ now \in Nat /\ deadline \in Nat /\ resumed \in Nat /\ started \in BOOLEAN
      /\ BurstTime \in Nat \ {0} /\ Len(bursts) \in Nat /\ DOMAIN bursts = 1..Len(bursts)
      /\ \A i \in DOMAIN bursts : bursts[i].at \in Nat /\ bursts[i].resumed \in Nat
      /\ bursts \in Seq([at : Nat, resumed : Nat])
      /\ deadline <= now + BurstTime
  BY BurstTakesTime, BurstTypes DEF PacingInv, PacingTypes
<1>2. CASE TimePasses
  BY <1>1, <1>2 DEF TimePasses, PacingInv, PacingTypes, PastBursts, DeadlineMovesOn, Ahead, Paced
<1>3. CASE TakePacket
  <2>1. pace' \in {"receiving", "sleeping"} /\ started'
    BY <1>3 DEF TakePacket
  <2>2. CASE started
    BY <1>1, <1>3, <2>1, <2>2
    DEF TakePacket, PacingInv, PacingTypes, PastBursts, DeadlineMovesOn, Ahead, Paced
  <2>3. CASE ~started
    <3>1. bursts = <<>> /\ bursts' = bursts /\ deadline' = now
      BY <1>3, <2>3 DEF TakePacket, PacingInv, PacingTypes
    <3> QED BY <1>1, <1>3, <2>1, <3>1
        DEF TakePacket, PacingInv, PacingTypes, PastBursts, DeadlineMovesOn, Paced
  <2> QED BY <2>2, <2>3, <1>1
<1>4. CASE SendBurst
  <2> DEFINE new == [at |-> now, resumed |-> resumed]
             n == Len(bursts)
  <2>1. /\ bursts' = Append(bursts, new) /\ Len(bursts') = n + 1 /\ bursts'[n + 1] = new
        /\ DOMAIN bursts' = 1..(n + 1)
        /\ \A i \in 1..n : bursts'[i] = bursts[i]
        /\ bursts' \in Seq([at : Nat, resumed : Nat])
    BY <1>1, <1>4 DEF SendBurst
  <2>2. PacingTypes' /\ PastBursts'
    BY <1>1, <1>4, <2>1 DEF SendBurst, PacingInv, PacingTypes, PastBursts
  <2>3. \A i \in 1..n : Ahead(i, n)
    BY <1>1, <1>4 DEF SendBurst, PacingInv, DeadlineMovesOn
  <2>4. DeadlineMovesOn'
    BY <1>1, <1>4, <2>1, <2>3 DEF SendBurst, DeadlineMovesOn, Ahead
  <2>5. ASSUME NEW i \in DOMAIN bursts', NEW j \in DOMAIN bursts', i < j PROVE Paced(i, j)'
    <3>1. CASE j = n + 1
      <4>1. i \in DOMAIN bursts /\ bursts'[i] = bursts[i]
        BY <1>1, <2>1, <2>5, <3>1
      <4> QED BY <1>4, <2>1, <3>1, <4>1, SendingKeepsPace DEF Paced
    <3>2. CASE j # n + 1
      <4>1. i \in DOMAIN bursts /\ j \in DOMAIN bursts
        BY <1>1, <2>1, <2>5, <3>2
      <4> QED BY <1>1, <2>1, <2>5, <4>1 DEF PacingInv, Paced
    <3> QED BY <3>1, <3>2
  <2> QED BY <1>1, <1>4, <2>2, <2>4, <2>5 DEF SendBurst, PacingInv
<1>5. CASE Advance
  <2> DEFINE n == Len(bursts)
  <2>1. /\ deadline' \in Nat /\ deadline' >= deadline + BurstTime /\ deadline' <= now + BurstTime
        /\ deadline' >= now - BurstTime
    BY <1>1, <1>5 DEF Advance, PacingInv, DeadlineMovesOn
  <2>2. n >= 1 /\ \A i \in 1..(n - 1) : Ahead(i, n - 1)
    BY <1>1, <1>5 DEF Advance, PacingInv, DeadlineMovesOn
  <2>3. ASSUME NEW i \in 1..n PROVE Ahead(i, n)'
    <3>1. /\ bursts' = bursts /\ resumed' = resumed /\ i \in Int
          /\ bursts[i].at \in Nat /\ bursts[i].resumed \in Nat
          /\ bursts[i].at <= now /\ bursts[i].resumed <= resumed
      BY <1>1, <1>5 DEF Advance, PacingInv, PastBursts
    <3>2. CASE i = n
      <4>1. (resumed - bursts[i].resumed) * BurstTime >= 0
        BY <1>1, <3>1
      <4>2. (n - i - 1) * BurstTime = -BurstTime
        BY <1>1, <3>2
      <4> DEFINE r == (resumed - bursts[i].resumed) * BurstTime
      <4>3. r \in Int /\ r >= 0
        BY <1>0, <3>1, <4>1
      <4> HIDE DEF r
      <4>4. bursts[i].at + -BurstTime <= deadline' + r
        BY <1>0, <2>1, <3>1, <4>3
      <4> QED BY <3>1, <4>2, <4>4 DEF Ahead, r
    <3>3. CASE i # n
      <4>1. Ahead(i, n - 1)
        BY <2>2, <3>3
      <4> DEFINE r == (resumed - bursts[i].resumed) * BurstTime
                 m == (n - 1 - i - 1) * BurstTime
      <4>2. r \in Int /\ m \in Int /\ (n - i - 1) * BurstTime = m + BurstTime
        <5> DEFINE x == n - 1 - i - 1
        <5>1. x \in Int /\ x + 1 = n - i - 1 /\ BurstTime \in Int
          BY <1>0
        <5> HIDE DEF x
        <5>2. (x + 1) * BurstTime = x * BurstTime + 1 * BurstTime /\ x * BurstTime \in Int
          BY <5>1, Distribute
        <5> QED BY <1>0, <3>1, <5>1, <5>2 DEF x
      <4>3. bursts[i].at + m <= deadline + r
        BY <4>1 DEF Ahead
      <4> HIDE DEF r, m
      <4>4. bursts[i].at + (m + BurstTime) <= deadline' + r
        <5>1. deadline' \in Int /\ deadline \in Int /\ BurstTime \in Int /\ deadline + BurstTime <= deadline'
          BY <1>0, <2>1
        <5> DEFINE b == bursts[i].at
        <5>2. b \in Int /\ r \in Int /\ m \in Int /\ b + m <= deadline + r
          BY <3>1, <4>2, <4>3
        <5> HIDE DEF b
        <5>3. b + (m + BurstTime) <= deadline' + r
          BY <5>1, <5>2, AddAcross, Zenon
        <5> QED BY <5>3 DEF b
      <4> QED BY <3>1, <4>2, <4>4 DEF Ahead, r
    <3> QED BY <3>2, <3>3
  <2>4. DeadlineMovesOn'
    BY <1>1, <1>5, <2>3 DEF Advance, DeadlineMovesOn, Ahead
  <2> QED BY <1>1, <1>5, <2>1, <2>4 DEF Advance, PacingInv, PacingTypes, PastBursts, Paced
<1>6. CASE TakeResume
  <2>1. deadline' = now /\ resumed' = resumed + 1 /\ bursts' = bursts /\ now' = now
        /\ pace' = "receiving" /\ pace # "advancing" /\ started' = started
    BY <1>6 DEF TakeResume
  <2>2. ASSUME NEW i \in DOMAIN bursts PROVE Ahead(i, Len(bursts))'
    <3>1. Ahead(i, Len(bursts)) /\ bursts[i].resumed \in Nat /\ bursts[i].at \in Nat /\ i \in Int
      BY <1>1, <2>1 DEF PacingInv, DeadlineMovesOn
    <3> DEFINE r == (resumed - bursts[i].resumed) * BurstTime
               m == (Len(bursts) - i - 1) * BurstTime
    <3>2. r \in Int /\ m \in Int /\ (resumed + 1 - bursts[i].resumed) * BurstTime = r + BurstTime
      <4> DEFINE x == resumed - bursts[i].resumed
      <4>1. x \in Int /\ x + 1 = resumed + 1 - bursts[i].resumed /\ BurstTime \in Int
        BY <1>0, <3>1
      <4> HIDE DEF x
      <4>2. (x + 1) * BurstTime = x * BurstTime + 1 * BurstTime /\ x * BurstTime \in Int
        BY <4>1, Distribute
      <4> QED BY <1>0, <3>1, <4>1, <4>2 DEF x
    <3>3. bursts[i].at + m <= deadline + r
      BY <3>1 DEF Ahead
    <3> HIDE DEF r, m
    <3>4. bursts[i].at + m <= now + (r + BurstTime)
      BY <1>0, <3>1, <3>2, <3>3
    <3>5. (resumed' - bursts'[i].resumed) * BurstTime = r + BurstTime
      <4>1. resumed' - bursts'[i].resumed = resumed + 1 - bursts[i].resumed
        <5>1. bursts'[i].resumed = bursts[i].resumed
          BY <2>1
        <5> QED BY <1>0, <2>1, <3>1, <5>1
      <4> QED BY ONLY <3>2, <4>1
    <3>6. bursts'[i].at + (Len(bursts') - i - 1) * BurstTime <= deadline' + (r + BurstTime)
      BY <2>1, <3>4 DEF m
    <3> QED BY <3>5, <3>6 DEF Ahead
  <2>3. DeadlineMovesOn'
    BY <1>1, <2>1, <2>2 DEF DeadlineMovesOn
  <2> QED BY <1>1, <2>1, <2>3 DEF PacingInv, PacingTypes, PastBursts, Paced
<1>7. CASE TakePause \/ TakeStop
  BY <1>1, <1>7 DEF TakePause, TakeStop, PacingInv, PacingTypes, PastBursts, DeadlineMovesOn, Ahead, Paced
<1>8. CASE UNCHANGED pacingVars
  BY <1>1, <1>8 DEF pacingVars, PacingInv, PacingTypes, PastBursts, DeadlineMovesOn, Ahead, Paced
<1> QED BY <1>2, <1>3, <1>4, <1>5, <1>6, <1>7, <1>8 DEF PacingNext

LEMMA PacingStep == [Next]_vars => [PacingNext]_pacingVars
  BY Zenon DEF Next, vars, pacingVars

\* However long the sender thread is held up and however often it is resumed, the packets it
\* has sent never run ahead of their pace by more than two bursts and one for every Resume,
\* and its deadline is never more than a burst away.
THEOREM PacketsStayPaced == Spec => []PacketsArePaced
<1>1. Init => PacingInv
  BY FirstPacing DEF Init
<1>2. PacingInv /\ [Next]_vars => PacingInv'
  BY PacingStep, PacingStepKeeps
<1>3. PacingInv => PacketsArePaced
  BY Zenon DEF PacingInv, PacketsArePaced, Paced
<1> QED BY <1>1, <1>2, <1>3, PTL DEF Spec

-----------------------------------------------------------------------------
(* Sums over a finite set. *)

LEMMA Least ==
  ASSUME NEW T \in SUBSET Nat, T # {}
  PROVE  \E x \in T : \A y \in T : y >= x
<1>1. IsWellFoundedOn(OpToRel(<, Nat), Nat)
  BY NatLessThanWellFounded
<1>2. PICK x \in T : \A y \in T : ~ (<<y, x>> \in OpToRel(<, Nat))
  BY <1>1, WFMin
<1>3. OpToRel(<, Nat) = {ss \in Nat \X Nat : ss[1] < ss[2]}
  BY Zenon DEF OpToRel
<1>4. ASSUME NEW y \in T PROVE y >= x
  <2>1. <<y, x>> \in Nat \X Nat /\ ~(<<y, x>> \in {ss \in Nat \X Nat : ss[1] < ss[2]})
    BY <1>2, <1>3
  <2>2. ~(y < x)
    BY <2>1
  <2> QED BY <2>2
<1> QED BY <1>4

\* Induction over the numbers of a set.
LEMMA EveryNumber ==
  ASSUME NEW S, 0 \in S, \A n \in Nat : n \in S => n + 1 \in S
  PROVE  Nat \subseteq S
<1> SUFFICES ASSUME Nat \ S # {} PROVE FALSE
  OBVIOUS
<1>1. PICK x \in Nat \ S : \A y \in Nat \ S : y >= x
  BY Least
<1>2. x - 1 \in Nat /\ x - 1 \in S
  BY <1>1
<1> QED BY <1>2

Picked(s) == CHOOSE x \in s : TRUE

\* Induction over the subsets of a finite set, by the element that is picked.
LEMMA EverySubset ==
  ASSUME NEW S, IsFiniteSet(S), NEW P, {} \in P,
         \A s \in SUBSET S : s # {} /\ s \ {Picked(s)} \in P => s \in P
  PROVE  SUBSET S \subseteq P
<1> DEFINE N == {n \in Nat : \A s \in SUBSET S : Cardinality(s) <= n => s \in P}
<1>1. ASSUME NEW s \in SUBSET S
      PROVE  /\ IsFiniteSet(s) /\ Cardinality(s) \in Nat /\ (Cardinality(s) = 0 => s = {})
             /\ s # {} => /\ Picked(s) \in s /\ s \ {Picked(s)} \in SUBSET S
                          /\ Cardinality(s \ {Picked(s)}) = Cardinality(s) - 1
  <2>1. IsFiniteSet(s) /\ Cardinality(s) \in Nat /\ (Cardinality(s) = 0 => s = {})
    BY FS_Subset, FS_CardinalityType, FS_EmptySet
  <2>2. s # {} => Picked(s) \in s
    BY DEF Picked
  <2> QED BY <2>1, <2>2, FS_RemoveElement
<1>2. 0 \in N
  <2>1. ASSUME NEW s \in SUBSET S, Cardinality(s) <= 0 PROVE s \in P
    <3>1. Cardinality(s) \in Nat /\ (Cardinality(s) = 0 => s = {})
      BY <1>1
    <3>2. s = {}
      BY <2>1, <3>1
    <3> QED BY <3>2
  <2> QED BY <2>1
<1>3. ASSUME NEW n \in Nat, n \in N PROVE n + 1 \in N
  <2>1. ASSUME NEW s \in SUBSET S, Cardinality(s) <= n + 1 PROVE s \in P
    <3>1. CASE s = {}
      BY <3>1
    <3>2. CASE s # {}
      <4>1. s \ {Picked(s)} \in SUBSET S /\ Cardinality(s) \in Nat
            /\ Cardinality(s \ {Picked(s)}) = Cardinality(s) - 1
        BY <1>1, <3>2
      <4>2. Cardinality(s \ {Picked(s)}) <= n
        BY <2>1, <4>1
      <4>3. s \ {Picked(s)} \in P
        BY <1>3, <4>1, <4>2
      <4> QED BY <3>2, <4>3
    <3> QED BY <3>1, <3>2
  <2> QED BY <2>1
<1> HIDE DEF N
<1>4. Nat \subseteq N
  BY <1>2, <1>3, EveryNumber
<1>5. ASSUME NEW s \in SUBSET S PROVE s \in P
  <2>1. Cardinality(s) \in Nat
    BY <1>1
  <2>2. Cardinality(s) \in N /\ Cardinality(s) <= Cardinality(s)
    BY <1>4, <2>1
  <2> QED BY <2>2 DEF N
<1> QED BY <1>5

\* g has the sum of f over every subset of S; n is the sum over S.
IsSum(g, f, S) == g = [s \in SUBSET S |-> IF s = {} THEN 0 ELSE f[Picked(s)] + g[s \ {Picked(s)}]]

SumsTo(f, S, n) == \E g : IsSum(g, f, S) /\ n = g[S]

\* The function that sums over the subsets exists.
LEMMA SumExists ==
  ASSUME NEW S, IsFiniteSet(S), NEW f
  PROVE  \E g : IsSum(g, f, S)
<1> DEFINE Small(n) == {s \in SUBSET S : Cardinality(s) <= n}
           Of(g, s) == IF s = {} THEN 0 ELSE f[Picked(s)] + g[s \ {Picked(s)}]
           N == {n \in Nat : \E g : g = [s \in Small(n) |-> Of(g, s)]}
<1>1. ASSUME NEW s \in SUBSET S
      PROVE  /\ Cardinality(s) \in Nat /\ (Cardinality(s) = 0 <=> s = {})
             /\ s # {} => /\ s \ {Picked(s)} \in SUBSET S
                          /\ Cardinality(s \ {Picked(s)}) = Cardinality(s) - 1
  <2>1. IsFiniteSet(s) /\ Cardinality(s) \in Nat /\ (Cardinality(s) = 0 <=> s = {})
    BY FS_Subset, FS_CardinalityType, FS_EmptySet
  <2>2. s # {} => Picked(s) \in s
    BY DEF Picked
  <2> QED BY <2>1, <2>2, FS_RemoveElement
<1>2. 0 \in N
  <2> DEFINE g == [s \in Small(0) |-> 0]
  <2>1. ASSUME NEW s \in Small(0) PROVE s = {}
    <3>1. Cardinality(s) \in Nat /\ (Cardinality(s) = 0 => s = {}) /\ Cardinality(s) <= 0
      BY <1>1
    <3> QED BY <3>1
  <2>2. g = [s \in Small(0) |-> Of(g, s)]
    BY <2>1
  <2> QED BY <2>2
<1>3. ASSUME NEW n \in Nat, n \in N PROVE n + 1 \in N
  <2>1. PICK g : g = [s \in Small(n) |-> Of(g, s)]
    BY <1>3
  <2> DEFINE h == [s \in Small(n + 1) |-> Of(g, s)]
  <2>2. ASSUME NEW s \in Small(n) PROVE s \in Small(n + 1) /\ h[s] = g[s]
    <3>1. s \in Small(n + 1)
      <4>1. Cardinality(s) \in Nat /\ Cardinality(s) <= n
        BY <1>1
      <4>2. Cardinality(s) <= n + 1
        BY <4>1
      <4> QED BY <4>2
    <3>2. g[s] = Of(g, s)
      BY <2>1, Zenon
    <3> QED BY <3>1, <3>2, Zenon
  <2>3. ASSUME NEW s \in Small(n + 1) PROVE Of(g, s) = Of(h, s)
    <3>1. s # {} => s \ {Picked(s)} \in Small(n)
      BY <1>1
    <3> HIDE DEF h, Small
    <3> QED BY <2>2, <3>1
  <2>4. h = [s \in Small(n + 1) |-> Of(h, s)]
    <3> HIDE DEF Of, Small
    <3> QED BY <2>3
  <2> HIDE DEF h, Small, Of
  <2> QED BY <2>4
<1> HIDE DEF N
<1>4. Cardinality(S) \in N
  BY <1>1, <1>2, <1>3, EveryNumber
<1>5. PICK g : g = [s \in Small(Cardinality(S)) |-> Of(g, s)]
  BY <1>4 DEF N
<1>6. Small(Cardinality(S)) = SUBSET S
  <2>1. \A s \in SUBSET S : Cardinality(s) <= Cardinality(S)
    BY FS_Subset
  <2> QED BY <2>1
<1>7. IsSum(g, f, S)
  BY <1>5, <1>6 DEF IsSum
<1> QED BY <1>7

\* What one value more or less does to the sum.
LEMMA SumChanges ==
  ASSUME NEW S, IsFiniteSet(S), NEW f \in [S -> Int], NEW g \in [S -> Int], NEW m \in S, NEW k \in Int,
         g[m] = f[m] + k, \A x \in S : x # m => g[x] = f[x],
         NEW a, IsSum(a, f, S), NEW b, IsSum(b, g, S)
  PROVE  a[S] \in Int /\ b[S] = a[S] + k
<1> DEFINE P == {s \in SUBSET S : a[s] \in Int /\ b[s] = a[s] + (IF m \in s THEN k ELSE 0)}
<1>1. {} \in P
  BY DEF IsSum
<1>2. ASSUME NEW s \in SUBSET S, s # {}, s \ {Picked(s)} \in P PROVE s \in P
  <2> DEFINE p == Picked(s)
             rest == s \ {p}
  <2>1. p \in s
    BY <1>2 DEF Picked
  <2> HIDE DEF p
  <2>2. a[s] = f[p] + a[rest] /\ b[s] = g[p] + b[rest]
    BY <1>2 DEF IsSum, p
  <2>3. a[rest] \in Int /\ b[rest] = a[rest] + (IF m \in rest THEN k ELSE 0)
    BY <1>2 DEF p
  <2>4. f[p] \in Int /\ g[p] = IF p = m THEN f[p] + k ELSE f[p]
    BY <2>1
  <2>5. m \in s <=> p = m \/ m \in rest
    BY <2>1
  <2>6. ~(p = m /\ m \in rest)
    OBVIOUS
  <2> HIDE DEF rest
  <2> QED BY <2>2, <2>3, <2>4, <2>5, <2>6
<1> HIDE DEF P
<1>3. SUBSET S \subseteq P
  BY <1>1, <1>2, EverySubset
<1> QED BY <1>3 DEF P

LEMMA SumsChange ==
  ASSUME NEW S, IsFiniteSet(S), NEW f \in [S -> Int], NEW g \in [S -> Int], NEW m \in S, NEW k \in Int,
         g[m] = f[m] + k, \A x \in S : x # m => g[x] = f[x], NEW n, SumsTo(f, S, n)
  PROVE  n \in Int /\ SumsTo(g, S, n + k)
<1>1. PICK a : IsSum(a, f, S) /\ n = a[S]
  BY DEF SumsTo
<1>2. PICK b : IsSum(b, g, S)
  BY SumExists
<1>3. a[S] \in Int /\ b[S] = a[S] + k
  BY <1>1, <1>2, SumChanges
<1> QED BY <1>1, <1>2, <1>3 DEF SumsTo

\* There is one sum.
LEMMA SumsAreOne ==
  ASSUME NEW S, IsFiniteSet(S), S # {}, NEW f \in [S -> Int], NEW n, SumsTo(f, S, n), NEW k, SumsTo(f, S, k)
  PROVE  n = k
<1>1. PICK a : IsSum(a, f, S) /\ n = a[S]
  BY DEF SumsTo
<1>2. PICK b : IsSum(b, f, S) /\ k = b[S]
  BY DEF SumsTo
<1>3. PICK m \in S : TRUE
  OBVIOUS
<1>4. f[m] = f[m] + 0
  BY <1>3
<1>5. a[S] \in Int /\ b[S] = a[S] + 0
  BY <1>1, <1>2, <1>4, SumChanges
<1> QED BY <1>1, <1>2, <1>5

LEMMA ZerosSum == ASSUME NEW S, IsFiniteSet(S) PROVE SumsTo([x \in S |-> 0], S, 0)
<1> DEFINE f == [x \in S |-> 0]
           a == [s \in SUBSET S |-> 0]
<1>1. ASSUME NEW s \in SUBSET S, s # {} PROVE a[s] = f[Picked(s)] + a[s \ {Picked(s)}]
  <2>1. Picked(s) \in s
    BY <1>1 DEF Picked
  <2> QED BY <2>1
<1>2. IsSum(a, f, S)
  BY <1>1 DEF IsSum
<1> QED BY <1>2 DEF SumsTo

-----------------------------------------------------------------------------
(* GroupWire: the syncs. *)

Sent == [number : Nat, sync : {"none", "start", "regular"}]

StreamType ==
  [phase : {"none", "running", "stopping", "over"}, threaded : BOOLEAN, syncs : BOOLEAN,
   next : Nat, left : Nat, first : BOOLEAN, lastSync : Nat, bare : [Member -> Nat]]

\* The queue holds the packets from stream.left to stream.next, in order.
QueueInv ==
  /\ stream \in StreamType /\ queue \in Seq(Sent)
  /\ stream.left + Len(queue) = stream.next
  /\ \A i \in 1..Len(queue) : queue[i].number = stream.left + i - 1
  /\ ~stream.threaded => queue = <<>>

\* Every member got the last sync when the first did.
Alike == \A m \in Member : stream.bare[m] = stream.bare[1]

\* A sync goes before packet n: one that went out is no further back than the first
\* member's `bare` says.
Synced(n) ==
  IF n < stream.left THEN stream.bare[1] <= stream.left - n - 1
  ELSE queue[n - stream.left + 1].sync # "none"

\* The last sync is a little way back from every packet of the queue, and from the next one.
SyncInv ==
  /\ QueueInv
  /\ stream.next > 0 => stream.lastSync < stream.next
  /\ stream.threaded => Alike
  /\ stream.syncs =>
       /\ stream.bare[1] < SyncEvery
       /\ stream.next > 0 => Synced(stream.lastSync) /\ stream.next - stream.lastSync <= SyncEvery
       /\ \A i \in 1..Len(queue) : \E n \in 0..(stream.left + i - 1) :
            stream.left + i - 1 - n < SyncEvery /\ Synced(n)

LEMMA SyncEveryType == SyncEvery \in Nat \ {0}
<1>1. SyncEvery \in {Members, MaxPlays, RingSize, Sequences, SyncEvery, Waiting}
  OBVIOUS
<1> QED BY <1>1, GroupWireAssumption, Zenon DEF GroupWireAssumption

LEMMA OneIsMember == 1 \in Member
<1>1. Members \in Nat \ {0}
  BY GroupWireAssumption DEF GroupWireAssumption
<1> QED BY <1>1 DEF Member

\* What the streamer has after preparing the next packet.
LEMMA PreparedIs ==
  ASSUME stream \in StreamType
  PROVE  /\ Prepared \in StreamType /\ Message \in Sent /\ Message.number = stream.next
         /\ Prepared.next = stream.next + 1 /\ Prepared.left = stream.left
         /\ Prepared.bare = stream.bare /\ Prepared.syncs = stream.syncs
         /\ Prepared.threaded = stream.threaded /\ Prepared.phase = stream.phase
         /\ stream.syncs => (Message.sync # "none" <=> SyncDue)
         /\ Prepared.lastSync = IF SyncDue THEN stream.next ELSE stream.lastSync
<1>1. Sync \in {"none", "start", "regular"} /\ (stream.syncs => (Sync # "none" <=> SyncDue))
  BY DEF Sync, StreamType
<1>2. Message \in Sent /\ Message.number = stream.next /\ Message.sync = Sync
  BY <1>1 DEF Message, Sent, StreamType
<1> DEFINE last == IF SyncDue THEN stream.next ELSE stream.lastSync
           first == stream.first /\ Sync = "none"
<1>3. last \in Nat /\ first \in BOOLEAN
  BY DEF StreamType
<1> HIDE DEF last, first
<1>4. Prepared = [stream EXCEPT !.next = @ + 1, !.first = first, !.lastSync = last]
  BY DEF Prepared, first, last
<1>5. Prepared = [phase |-> stream.phase, threaded |-> stream.threaded, syncs |-> stream.syncs,
                  next |-> stream.next + 1, left |-> stream.left, first |-> first,
                  lastSync |-> last, bare |-> stream.bare]
  BY <1>4 DEF StreamType
<1> QED BY <1>1, <1>2, <1>3, <1>5 DEF StreamType, last

LEMMA OutIs ==
  ASSUME NEW s \in StreamType, NEW message \in Sent, NEW to, 1 \in to
  PROVE  /\ Out(s, message, to) \in StreamType /\ Out(s, message, to).left = message.number + 1
         /\ Out(s, message, to).bare[1] = IF message.sync # "none" THEN 0 ELSE s.bare[1] + 1
         /\ \A m \in Member : m \in to =>
              Out(s, message, to).bare[m] = IF message.sync # "none" THEN 0 ELSE s.bare[m] + 1
         /\ Out(s, message, to).next = s.next /\ Out(s, message, to).lastSync = s.lastSync
         /\ Out(s, message, to).syncs = s.syncs /\ Out(s, message, to).threaded = s.threaded
         /\ Out(s, message, to).phase = s.phase
<1> DEFINE bare == [m \in Member |-> IF message.sync # "none" /\ m \in to THEN 0 ELSE s.bare[m] + 1]
<1>1. bare \in [Member -> Nat] /\ message.number + 1 \in Nat
  BY DEF StreamType, Sent
<1>2. \A m \in Member : m \in to => bare[m] = IF message.sync # "none" THEN 0 ELSE s.bare[m] + 1
  OBVIOUS
<1>3. Out(s, message, to) = [s EXCEPT !.left = message.number + 1, !.bare = bare]
  <2>1. s.bare = [s EXCEPT !.left = message.number + 1].bare
    BY DEF StreamType
  <2> QED BY <2>1 DEF Out
<1> HIDE DEF bare
<1>4. Out(s, message, to) =
        [phase |-> s.phase, threaded |-> s.threaded, syncs |-> s.syncs, next |-> s.next,
         left |-> message.number + 1, first |-> s.first, lastSync |-> s.lastSync, bare |-> bare]
  BY <1>3 DEF StreamType
<1> QED BY <1>1, <1>2, <1>4, OneIsMember DEF StreamType

LEMMA NotDue ==
  ASSUME SyncInv, ~SyncDue, stream.syncs
  PROVE  /\ stream.next > 0 /\ stream.lastSync < stream.next
         /\ stream.next - stream.lastSync < SyncEvery /\ Synced(stream.lastSync)
  BY SyncEveryType DEF SyncInv, QueueInv, StreamType, SyncDue

LEMMA PrepareKeepsSyncs == SyncInv /\ PrepareAll => SyncInv'
<1> SUFFICES ASSUME SyncInv, PrepareAll PROVE SyncInv'
  OBVIOUS
<1> DEFINE l == Len(queue)
           out == stream.left
<1>1. /\ stream \in StreamType /\ queue \in Seq(Sent) /\ l \in Nat /\ out \in Nat
      /\ out + l = stream.next /\ stream.next \in Nat /\ stream.lastSync \in Nat /\ stream.bare[1] \in Nat
      /\ SyncEvery \in Nat \ {0}
  BY SyncEveryType, OneIsMember DEF SyncInv, QueueInv, StreamType
<1>2. queue' = Append(queue, Message) /\ stream' = Prepared /\ stream.threaded
  BY DEF PrepareAll
<1>3. /\ stream' \in StreamType /\ Message \in Sent /\ Message.number = stream.next
      /\ stream'.next = stream.next + 1 /\ stream'.left = out
      /\ stream'.bare = stream.bare /\ stream'.syncs = stream.syncs
      /\ stream'.threaded = stream.threaded
      /\ stream.syncs => (Message.sync # "none" <=> SyncDue)
      /\ stream'.lastSync = IF SyncDue THEN stream.next ELSE stream.lastSync
  BY <1>1, <1>2, PreparedIs
<1>4. /\ queue' \in Seq(Sent) /\ Len(queue') = l + 1 /\ queue'[l + 1] = Message
      /\ \A i \in 1..l : queue'[i] = queue[i]
  BY <1>1, <1>2, <1>3
<1>5. QueueInv'
  <2>1. ASSUME NEW i \in 1..(l + 1) PROVE queue'[i].number = out + i - 1
    <3>1. CASE i = l + 1
      BY <1>1, <1>3, <1>4, <3>1
    <3>2. CASE i # l + 1
      <4>1. i \in 1..l
        BY <1>1, <3>2
      <4>2. queue[i].number = out + i - 1
        BY <4>1 DEF SyncInv, QueueInv
      <4> QED BY <1>4, <4>1, <4>2
    <3> QED BY <3>1, <3>2
  <2>2. out + (l + 1) = stream.next + 1
    BY <1>1
  <2> QED BY <1>2, <1>3, <1>4, <2>1, <2>2 DEF QueueInv
<1>6. ASSUME NEW n \in Nat, n < stream.next, Synced(n) PROVE Synced(n)'
  <2>1. CASE n < out
    BY <1>3, <1>6, <2>1 DEF Synced
  <2>2. CASE ~(n < out)
    <3>1. n - out + 1 \in 1..l
      BY <1>1, <1>6, <2>2
    <3> QED BY <1>3, <1>4, <1>6, <2>2, <3>1 DEF Synced
  <2> QED BY <2>1, <2>2
<1>7. ASSUME stream.syncs, SyncDue, NEW n, n = stream.next PROVE Synced(n)'
  <2>1. n - out + 1 = l + 1 /\ ~(n < out)
    BY <1>1, <1>7
  <2> QED BY <1>3, <1>4, <1>7, <2>1 DEF Synced
<1>8. ASSUME stream.syncs
      PROVE  /\ Synced(stream.lastSync)' /\ stream'.next - stream'.lastSync <= SyncEvery
             /\ \A i \in 1..(l + 1) : \E n \in 0..(out + i - 1) :
                  out + i - 1 - n < SyncEvery /\ Synced(n)'
  <2>1. PICK last : last = stream'.lastSync
    OBVIOUS
  <2>2. Synced(last)' /\ last \in Nat /\ last <= stream.next /\ stream.next - last < SyncEvery
    <3>1. CASE SyncDue
      <4>1. last = stream.next
        BY <1>3, <2>1, <3>1
      <4> QED BY <1>1, <1>7, <1>8, <3>1, <4>1
    <3>2. CASE ~SyncDue
      <4>1. /\ stream.lastSync < stream.next /\ stream.next - stream.lastSync < SyncEvery
            /\ Synced(stream.lastSync)
        BY <1>8, <3>2, NotDue
      <4>2. last = stream.lastSync
        BY <1>3, <2>1, <3>2
      <4>3. last \in Nat /\ last < stream.next /\ Synced(last)
        BY <1>1, <4>1, <4>2
      <4> QED BY <1>1, <1>6, <4>1, <4>2, <4>3
    <3> QED BY <3>1, <3>2
  <2>3. Synced(stream.lastSync)' /\ stream'.next - stream'.lastSync <= SyncEvery
    BY <1>1, <1>3, <2>1, <2>2 DEF Synced
  <2>4. ASSUME NEW i \in 1..(l + 1)
        PROVE  \E n \in 0..(out + i - 1) : out + i - 1 - n < SyncEvery /\ Synced(n)'
    <3>1. CASE i = l + 1
      <4>1. last \in 0..(out + i - 1) /\ out + i - 1 - last < SyncEvery
        BY <1>1, <2>2, <3>1
      <4> QED BY <2>2, <4>1
    <3>2. CASE i # l + 1
      <4>1. i \in 1..l
        BY <1>1, <3>2
      <4>2. PICK n \in 0..(out + i - 1) : out + i - 1 - n < SyncEvery /\ Synced(n)
        BY <1>8, <4>1 DEF SyncInv
      <4>3. n \in Nat /\ n < stream.next
        BY <1>1, <4>1
      <4> QED BY <1>6, <4>2, <4>3
    <3> QED BY <3>1, <3>2
  <2> QED BY <2>3, <2>4
<1>9. stream'.lastSync < stream'.next
  <2>1. stream.next > 0 => stream.lastSync < stream.next
    BY DEF SyncInv
  <2>2. ~SyncDue => stream.next # 0
    BY DEF SyncDue
  <2> QED BY <1>1, <1>3, <2>1, <2>2
<1>10. (stream'.syncs => stream'.bare[1] < SyncEvery) /\ (stream'.threaded => Alike')
  BY <1>3 DEF SyncInv, Alike
<1> QED BY <1>3, <1>4, <1>5, <1>8, <1>9, <1>10 DEF SyncInv

LEMMA SendKeepsSyncs == SyncInv /\ Send => SyncInv'
<1> SUFFICES ASSUME SyncInv, Send PROVE SyncInv'
  OBVIOUS
<1> DEFINE l == Len(queue)
           out == stream.left
           oldest == Head(queue)
<1>1. /\ stream \in StreamType /\ queue \in Seq(Sent) /\ l \in Nat /\ out \in Nat
      /\ out + l = stream.next /\ stream.next \in Nat /\ stream.lastSync \in Nat /\ stream.bare[1] \in Nat
      /\ SyncEvery \in Nat \ {0}
  BY SyncEveryType, OneIsMember DEF SyncInv, QueueInv, StreamType
<1>2. queue # <<>> /\ stream' = Out(stream, oldest, Member) /\ queue' = Tail(queue)
  BY DEF Send
<1>3. /\ l >= 1 /\ oldest = queue[1] /\ oldest \in Sent /\ oldest.number = out
  BY <1>1, <1>2 DEF SyncInv, QueueInv
<1>4. /\ stream' \in StreamType /\ stream'.left = out + 1
      /\ stream'.bare[1] = IF oldest.sync # "none" THEN 0 ELSE stream.bare[1] + 1
      /\ stream'.next = stream.next /\ stream'.lastSync = stream.lastSync
      /\ stream'.syncs = stream.syncs /\ stream'.threaded = stream.threaded
      /\ \A m \in Member : stream'.bare[m] = IF oldest.sync # "none" THEN 0 ELSE stream.bare[m] + 1
  BY <1>1, <1>2, <1>3, OutIs, OneIsMember
<1>5. /\ queue' \in Seq(Sent) /\ Len(queue') = l - 1
      /\ \A i \in 1..(l - 1) : queue'[i] = queue[i + 1]
  BY <1>1, <1>2, <1>3
<1>6. QueueInv'
  <2>1. ASSUME NEW i \in 1..(l - 1) PROVE queue'[i].number = out + 1 + i - 1
    <3>1. i + 1 \in 1..l
      BY <1>1
    <3>2. queue[i + 1].number = out + (i + 1) - 1
      BY <3>1 DEF SyncInv, QueueInv
    <3>3. queue'[i] = queue[i + 1]
      BY <1>5
    <3>4. out + (i + 1) - 1 = out + 1 + i - 1
      BY <1>1
    <3> QED BY <3>2, <3>3, <3>4
  <2>2. out + 1 + (l - 1) = stream.next
    BY <1>1
  <2>3. stream'.threaded
    BY <1>2, <1>4 DEF SyncInv, QueueInv
  <2> QED BY <1>1, <1>4, <1>5, <2>1, <2>2, <2>3 DEF QueueInv
<1>7. ASSUME NEW n \in Nat, n < stream.next, Synced(n) PROVE Synced(n)'
  <2>1. CASE n < out
    <3>1. stream.bare[1] <= out - n - 1
      BY <2>1, <1>7 DEF Synced
    <3>2. stream'.bare[1] <= stream.bare[1] + 1
      BY <1>1, <1>4
    <3>3. stream'.bare[1] \in Nat /\ stream'.left = out + 1
      <4>1. stream'.bare \in [Member -> Nat]
        BY <1>4 DEF StreamType
      <4> QED BY <1>4, <4>1, OneIsMember
    <3>4. PICK b, c : b = stream.bare[1] /\ c = stream'.bare[1]
      OBVIOUS
    <3>5. n < out + 1 /\ c <= out + 1 - n - 1
      BY <1>1, <2>1, <3>1, <3>2, <3>3, <3>4
    <3>6. n < stream'.left /\ stream'.bare[1] <= stream'.left - n - 1
      BY <1>1, <3>3, <3>4, <3>5
    <3> QED BY <3>6 DEF Synced
  <2>2. CASE n = out
    <3>1. queue[n - out + 1].sync # "none" /\ n - out + 1 = 1
      BY <1>1, <1>7, <2>2 DEF Synced
    <3>2. stream'.bare[1] = 0
      BY <1>3, <1>4, <3>1
    <3>3. n < stream'.left /\ stream'.bare[1] <= stream'.left - n - 1
      BY <1>1, <1>4, <2>2, <3>2
    <3> QED BY <3>3 DEF Synced
  <2>3. CASE n > out
    <3>1. n - (out + 1) + 1 \in 1..(l - 1) /\ n - (out + 1) + 1 + 1 = n - out + 1
      BY <1>1, <1>7, <2>3
    <3>2. queue[n - out + 1].sync # "none"
      BY <1>1, <1>7, <2>3 DEF Synced
    <3> DEFINE k == n - (out + 1) + 1
    <3>3. queue'[k] = queue[k + 1]
      BY <1>5, <3>1
    <3>4. ~(n < stream'.left) /\ n - stream'.left + 1 = k
      BY <1>1, <1>4, <2>3
    <3>5. queue'[k].sync # "none"
      BY <1>1, <3>1, <3>2, <3>3
    <3> HIDE DEF k
    <3> QED BY <3>4, <3>5 DEF Synced
  <2> QED BY <1>1, <2>1, <2>2, <2>3
<1>8. ASSUME stream.syncs PROVE stream'.bare[1] < SyncEvery
  <2>1. CASE oldest.sync # "none"
    BY <1>1, <1>4, <2>1
  <2>2. CASE oldest.sync = "none"
    <3>1. 1 \in 1..l /\ out + 1 - 1 = out
      BY <1>1, <1>3
    <3>2. PICK n \in 0..(out + 1 - 1) : out + 1 - 1 - n < SyncEvery /\ Synced(n)
      BY <1>8, <3>1 DEF SyncInv
    <3>3. n # out
      <4> SUFFICES ASSUME n = out PROVE FALSE
        OBVIOUS
      <4>1. n - out + 1 = 1 /\ ~(n < out)
        BY <1>1
      <4> QED BY <1>3, <2>2, <3>2, <4>1 DEF Synced
    <3>4. n < out /\ n \in Nat /\ out - n < SyncEvery
      BY <1>1, <3>1, <3>2, <3>3
    <3>5. stream.bare[1] <= out - n - 1
      BY <3>2, <3>4 DEF Synced
    <3>6. stream'.bare[1] = stream.bare[1] + 1
      BY <1>4, <2>2
    <3> QED BY <1>1, <3>4, <3>5, <3>6
  <2> QED BY <2>1, <2>2
<1>9. ASSUME stream.syncs, NEW i \in 1..(l - 1)
      PROVE  \E n \in 0..(out + 1 + i - 1) : out + 1 + i - 1 - n < SyncEvery /\ Synced(n)'
  <2>1. i + 1 \in 1..l /\ out + (i + 1) - 1 = out + 1 + i - 1
    BY <1>1
  <2>2. PICK n \in 0..(out + (i + 1) - 1) : out + (i + 1) - 1 - n < SyncEvery /\ Synced(n)
    BY <1>9, <2>1 DEF SyncInv
  <2>3. n \in Nat /\ n < stream.next
    BY <1>1, <2>1
  <2>4. Synced(n)'
    BY <1>7, <2>2, <2>3
  <2>5. out + 1 + i - 1 - n < SyncEvery /\ n \in 0..(out + 1 + i - 1)
    BY <1>1, <2>1, <2>2
  <2> QED BY <2>4, <2>5
<1>10. ASSUME stream.syncs, stream.next > 0
       PROVE  Synced(stream.lastSync)' /\ stream'.next - stream'.lastSync <= SyncEvery
  <2>1. PICK last : last = stream.lastSync
    OBVIOUS
  <2>2. last \in Nat /\ last < stream.next /\ Synced(last) /\ stream.next - last <= SyncEvery
    BY <1>1, <1>10, <2>1 DEF SyncInv, Synced
  <2>3. Synced(last)'
    BY <1>7, <2>2
  <2> QED BY <1>4, <2>1, <2>2, <2>3 DEF Synced
<1>11. stream'.next > 0 => stream'.lastSync < stream'.next
  BY <1>4 DEF SyncInv
<1>12. stream'.threaded => Alike'
  <2>1. stream.threaded => Alike
    BY DEF SyncInv
  <2> QED BY <1>4, <2>1, OneIsMember DEF Alike
<1> QED BY <1>1, <1>4, <1>5, <1>6, <1>8, <1>9, <1>10, <1>11, <1>12 DEF SyncInv

LEMMA DirectKeepsSyncs == SyncInv /\ SendDirect => SyncInv'
<1> SUFFICES ASSUME SyncInv, SendDirect PROVE SyncInv'
  OBVIOUS
<1>1. /\ stream \in StreamType /\ queue = <<>> /\ queue' = <<>> /\ Len(queue) = 0
      /\ stream.left = stream.next /\ stream.next \in Nat /\ stream.lastSync \in Nat
      /\ stream.bare[1] \in Nat /\ SyncEvery \in Nat \ {0} /\ ~stream.threaded
  BY SyncEveryType, OneIsMember DEF SyncInv, QueueInv, StreamType, SendDirect
<1>2. stream' = Out(Prepared, Message, {1})
  BY DEF SendDirect
<1>3. /\ Prepared \in StreamType /\ Message \in Sent /\ Message.number = stream.next
      /\ Prepared.next = stream.next + 1 /\ Prepared.bare = stream.bare
      /\ Prepared.syncs = stream.syncs /\ Prepared.threaded = stream.threaded
      /\ stream.syncs => (Message.sync # "none" <=> SyncDue)
      /\ Prepared.lastSync = IF SyncDue THEN stream.next ELSE stream.lastSync
  BY <1>1, PreparedIs
<1>4. /\ stream' \in StreamType /\ stream'.left = stream.next + 1 /\ stream'.next = stream.next + 1
      /\ stream'.bare[1] = IF Message.sync # "none" THEN 0 ELSE stream.bare[1] + 1
      /\ stream'.lastSync = IF SyncDue THEN stream.next ELSE stream.lastSync
      /\ stream'.syncs = stream.syncs /\ stream'.threaded = stream.threaded
  BY <1>2, <1>3, OutIs
<1>5. QueueInv'
  BY <1>1, <1>4 DEF QueueInv
<1>6. CASE SyncDue
  BY <1>1, <1>3, <1>4, <1>5, <1>6 DEF SyncInv, Synced
<1>7. CASE ~SyncDue
  <2>1. stream.next > 0 /\ stream.lastSync < stream.next
    BY <1>1, <1>7 DEF SyncInv, SyncDue
  <2>2. ASSUME stream.syncs
        PROVE  /\ stream.next - stream.lastSync < SyncEvery
               /\ stream.bare[1] <= stream.next - stream.lastSync - 1
    BY <1>1, <1>7, <2>1, <2>2, NotDue DEF Synced
  <2> QED BY <1>1, <1>3, <1>4, <1>5, <1>7, <2>1, <2>2 DEF SyncInv, Synced
<1> QED BY <1>6, <1>7

LEMMA OthersKeepSyncs ==
  ASSUME SyncInv, stream' \in StreamType, UNCHANGED queue, UNCHANGED <<stream.threaded, stream.syncs>>,
         UNCHANGED <<stream.next, stream.left, stream.lastSync, stream.bare>>
  PROVE  SyncInv'
<1>1. QueueInv'
  BY DEF SyncInv, QueueInv
<1>2. (\A n : Synced(n) => Synced(n)') /\ (Alike => Alike')
  BY DEF Synced, Alike
<1>3. Synced(stream.lastSync) => Synced(stream.lastSync)'
  BY DEF Synced
<1> QED BY <1>1, <1>2, <1>3 DEF SyncInv

LEMMA FirstSyncs == WireInit => SyncInv
<1> SUFFICES ASSUME WireInit PROVE SyncInv
  OBVIOUS
<1>1. stream = NoStream /\ stream \in StreamType /\ queue = <<>> /\ queue \in Seq(Sent) /\ Len(queue) = 0
  BY DEF WireInit, NoStream, StreamType
<1> QED BY <1>1, SyncEveryType, OneIsMember DEF SyncInv, QueueInv, NoStream, Alike

LEMMA SyncStepKeeps == SyncInv /\ [WireNext]_wireVars => SyncInv'
<1> SUFFICES ASSUME SyncInv, [WireNext]_wireVars PROVE SyncInv'
  OBVIOUS
<1>1. stream \in StreamType
  BY DEF SyncInv, QueueInv
<1>2. CASE StopOld
  BY <1>1, <1>2, OthersKeepSyncs DEF StopOld, StreamType
<1>3. CASE NewPlay
  <2>1. PICK threaded, syncs \in BOOLEAN :
          stream' = [NoStream EXCEPT !.phase = "running", !.threaded = threaded, !.syncs = syncs]
    BY <1>3 DEF NewPlay
  <2>2. stream' = [phase |-> "running", threaded |-> threaded, syncs |-> syncs, next |-> 0, left |-> 0,
                   first |-> TRUE, lastSync |-> 0, bare |-> [m \in Member |-> 0]]
    BY <2>1 DEF NoStream
  <2>3. queue' = <<>> /\ Len(queue') = 0 /\ queue' \in Seq(Sent)
    BY <1>3 DEF NewPlay, Stopped
  <2> QED BY <2>2, <2>3, SyncEveryType, OneIsMember DEF SyncInv, QueueInv, StreamType, Alike
<1>4. CASE PrepareAll
  BY <1>4, PrepareKeepsSyncs
<1>5. CASE Send
  BY <1>5, SendKeepsSyncs
<1>6. CASE SendDirect
  BY <1>6, DirectKeepsSyncs
<1>7. CASE SenderFails
  BY <1>1, <1>7, OthersKeepSyncs DEF SenderFails, StreamType
<1>8. ASSUME UNCHANGED <<stream, queue>> PROVE SyncInv'
  BY <1>1, <1>8, OthersKeepSyncs
<1>9. ASSUME NEW m \in Member, Ask(m) PROVE SyncInv'
  BY <1>8, <1>9 DEF Ask
<1>10. ASSUME NEW m \in Member, NEW l \in Play, Hear(l, m) \/ NotARequest(l, m) PROVE SyncInv'
  BY <1>8, <1>10 DEF Hear, NotARequest
<1>11. ASSUME NEW l \in Play, CountDevice(l) \/ Answer(l) PROVE SyncInv'
  BY <1>8, <1>11 DEF Answer, CountDevice
<1>12. CASE UNCHANGED wireVars
  BY <1>8, <1>12 DEF wireVars
<1> QED BY <1>2, <1>3, <1>4, <1>5, <1>6, <1>7, <1>9, <1>10, <1>11, <1>12 DEF WireNext

-----------------------------------------------------------------------------
(* GroupWire: the rings and the answers. *)

LEMMA WireConstants ==
  /\ RingSize \in Nat \ {0} /\ Sequences \in Nat \ {0} /\ Members \in Nat \ {0}
  /\ MaxPlays \in Nat \ {0} /\ MaxCount \in Nat
<1>1. {RingSize, Sequences, Members, MaxPlays}
        \subseteq {Members, MaxPlays, RingSize, Sequences, SyncEvery, Waiting}
      /\ MaxCount \in {MaxNumber, MaxRequests, MaxCount}
  OBVIOUS
<1>2. {RingSize, Sequences, Members, MaxPlays} \subseteq Nat \ {0} /\ MaxCount \in Nat
  BY <1>1, GroupWireAssumption, Zenon
<1> QED BY <1>2

\* Where a packet is stored.
Spot(n) == (n % Sequences) % RingSize

LEMMA AtPlace == ASSUME NEW n \in Int PROVE Spot(n) \in Place /\ n % Sequences \in Nat
<1>1. n % Sequences \in 0..(Sequences - 1)
  BY WireConstants, DivMod
<1>2. n % Sequences \in Int
  BY <1>1, WireConstants
<1>3. (n % Sequences) % RingSize \in 0..(RingSize - 1)
  BY <1>2, WireConstants, DivMod
<1> QED BY <1>1, <1>3, WireConstants DEF Spot, Place

\* The requests whose packets were stored in the ring of the member that asks, in its play; what
\* is there now is not older.
Standing ==
  {r \in Request :
     /\ r.play <= play
     /\ \A n \in r.first..(r.first + r.count - 1) : rings[r.play][r.member][Spot(n)] >= n}

RingType == [Play -> [Member -> [Place -> Nat \cup {Empty}]]]

RingInv ==
  /\ play \in 0..MaxPlays /\ stream.next \in Nat /\ stream.left \in 0..stream.next
  /\ rings \in RingType
  /\ \A p \in Play, m \in Member, s \in Place : p > play => rings[p][m][s] = Empty
  /\ Running => play > 0 /\ \A m \in Member, s \in Place : rings[play][m][s] < stream.next
  /\ play > 0 =>
       \A m \in Member, n \in 0..(stream.next - 1) : rings[play][m][Spot(n)] >= n

RequestInv ==
  /\ taken \in [Play -> Standing \cup {Nothing}]
  /\ sockets \in [Member -> Seq(Standing)]
  /\ \A m \in Member : \A i \in 1..Len(sockets[m]) : sockets[m][i].member = m

\* What storing a packet does to the rings: the place it belongs to has it, and nothing older
\* comes anywhere.
LEMMA StoredIs ==
  ASSUME RingInv, Running, NEW upTo \in 0..Members, Stored(upTo)
  PROVE  /\ rings' \in RingType /\ play \in Play
         /\ \A p \in Play, m \in Member, s \in Place : p # play => rings'[p][m][s] = rings[p][m][s]
         /\ \A m \in Member, s \in Place :
              rings'[play][m][s] = IF m <= upTo /\ s = Spot(stream.next) THEN stream.next
                                                                       ELSE rings[play][m][s]
         /\ \A p \in Play, m \in Member, s \in Place : rings'[p][m][s] >= rings[p][m][s]
<1> DEFINE n == stream.next
<1>1. play \in Play /\ rings \in RingType /\ n \in Nat /\ n \in Int
      /\ \A m \in Member, s \in Place : rings[play][m][s] < n
  BY WireConstants DEF RingInv, Play
<1>2. Spot(n) \in Place
  BY <1>1, AtPlace
<1>3. \A m \in Member : InRing(rings[play][m], n) = [rings[play][m] EXCEPT ![Spot(n)] = n]
  BY DEF InRing, Spot
<1> DEFINE new == [m \in Member |-> IF m <= upTo THEN InRing(rings[play][m], n) ELSE rings[play][m]]
<1>4. rings' = [rings EXCEPT ![play] = new]
  BY DEF Stored
<1> HIDE DEF n
<1>5. ASSUME NEW m \in Member
      PROVE  /\ new[m] \in [Place -> Nat \cup {Empty}]
             /\ \A s \in Place : new[m][s] = IF m <= upTo /\ s = Spot(n) THEN n ELSE rings[play][m][s]
  <2>1. rings[play][m] \in [Place -> Nat \cup {Empty}]
    BY <1>1 DEF RingType
  <2> QED BY <1>1, <1>2, <1>3, <2>1
<1>6. new \in [Member -> [Place -> Nat \cup {Empty}]]
  BY <1>5
<1> HIDE DEF new
<1>7. rings' \in RingType /\ rings'[play] = new /\ \A p \in Play : p # play => rings'[p] = rings[p]
  BY <1>1, <1>4, <1>6 DEF RingType
<1>8. \A m \in Member, s \in Place :
        rings'[play][m][s] = IF m <= upTo /\ s = Spot(n) THEN n ELSE rings[play][m][s]
  BY <1>5, <1>7
<1>9. ASSUME NEW p \in Play, NEW m \in Member, NEW s \in Place PROVE rings'[p][m][s] >= rings[p][m][s]
  <2>1. rings[p][m][s] \in Nat \cup {-1}
    BY <1>1 DEF RingType, Empty
  <2>2. CASE p = play
    <3>1. rings[play][m][s] < n
      BY <1>1
    <3> QED BY <1>1, <1>8, <2>1, <2>2, <3>1
  <2>3. CASE p # play
    BY <1>7, <2>1, <2>3
  <2> QED BY <2>2, <2>3
<1> QED BY <1>1, <1>7, <1>8, <1>9 DEF n

\* Plays are only added, and no place of a ring goes back.
RingsGrown ==
  /\ play \in Nat /\ play' \in Nat /\ play' >= play
  /\ rings \in RingType /\ rings' \in RingType
  /\ \A p \in Play, m \in Member, s \in Place : rings'[p][m][s] >= rings[p][m][s]

\* A request made once stays true of the rings as they grow.
LEMMA StandingStays == RingsGrown => Standing \subseteq Standing'
<1> SUFFICES ASSUME RingsGrown, NEW r \in Standing PROVE r \in Standing'
  OBVIOUS
<1>1. r \in Request /\ r.play <= play
      /\ \A n \in r.first..(r.first + r.count - 1) : rings[r.play][r.member][Spot(n)] >= n
  BY DEF Standing
<1>2. r.play \in Play /\ r.member \in Member /\ r.first \in Nat /\ r.count \in Nat
  BY <1>1, WireConstants DEF Request
<1>3. r.play <= play'
  <2>1. r.play \in Int
    BY <1>2, WireConstants DEF Play
  <2>2. play \in Int /\ play' \in Int /\ play' >= play
    BY DEF RingsGrown
  <2>3. r.play <= play
    BY <1>1
  <2> QED BY <2>1, <2>2, <2>3
<1>4. ASSUME NEW n \in r.first..(r.first + r.count - 1) PROVE rings'[r.play][r.member][Spot(n)] >= n
  <2>1. n \in Int /\ Spot(n) \in Place
    BY <1>2, AtPlace
  <2> DEFINE old == rings[r.play][r.member][Spot(n)]
             new == rings'[r.play][r.member][Spot(n)]
  <2>2. old \in Int /\ new \in Int
    BY <1>2, <2>1 DEF RingType, Empty, RingsGrown
  <2>3. old >= n
    BY <1>1
  <2>4. new >= old
    BY <1>2, <2>1 DEF RingsGrown
  <2> HIDE DEF old, new
  <2>5. new >= n
    BY <2>1, <2>2, <2>3, <2>4
  <2> QED BY <2>5 DEF new
<1> QED BY <1>1, <1>3, <1>4 DEF Standing

LEMMA RingsGrow ==
  ASSUME SyncInv, SyncInv', RingInv, [WireNext]_wireVars
  PROVE  RingInv' /\ RingsGrown
<1>1. /\ play \in 0..MaxPlays /\ rings \in RingType /\ stream \in StreamType
      /\ stream.next \in Nat /\ play \in Nat /\ play \in Int
  BY WireConstants DEF RingInv, SyncInv, QueueInv, StreamType
<1>2. stream'.next \in Nat /\ stream'.left \in 0..stream'.next
  <2>1. stream' \in StreamType /\ queue' \in Seq(Sent) /\ stream'.left + Len(queue') = stream'.next
    BY DEF SyncInv, QueueInv
  <2>2. stream'.left \in Nat /\ stream'.next \in Nat /\ Len(queue') \in Nat
    BY <2>1 DEF StreamType
  <2> QED BY <2>1, <2>2
<1>3. UNCHANGED rings => \A p \in Play, m \in Member, s \in Place : rings'[p][m][s] >= rings[p][m][s]
  <2> SUFFICES ASSUME UNCHANGED rings, NEW p \in Play, NEW m \in Member, NEW s \in Place
               PROVE  rings'[p][m][s] >= rings[p][m][s]
    OBVIOUS
  <2>1. rings[p][m][s] \in Int
    BY <1>1 DEF RingType, Empty
  <2> QED BY <2>1
<1>4. ASSUME UNCHANGED <<play, rings>>, stream'.next = stream.next, Running' => Running
      PROVE  RingInv' /\ RingsGrown
  <2>1. RingsGrown
    BY <1>1, <1>3, <1>4 DEF RingsGrown
  <2>2. RingInv'
    BY <1>2, <1>4 DEF RingInv
  <2> QED BY <2>1, <2>2
<1>5. CASE StopOld
  <2>1. stream'.next = stream.next /\ ~Running'
    BY <1>1, <1>5 DEF StopOld, StreamType, Running
  <2> QED BY <1>4, <1>5, <2>1 DEF StopOld
<1>6. CASE Send
  <2>1. stream' = Out(stream, Head(queue), Member) /\ Head(queue) \in Sent
    BY <1>6 DEF Send, SyncInv, QueueInv
  <2>2. stream'.next = stream.next /\ stream'.phase = stream.phase
    BY <1>1, <2>1, OutIs, OneIsMember
  <2> QED BY <1>4, <1>6, <2>2 DEF Send, Running
<1>7. ASSUME UNCHANGED <<play, rings, stream>> PROVE RingInv' /\ RingsGrown
  BY <1>4, <1>7 DEF Running
<1>8. ASSUME NEW m \in Member, Ask(m) PROVE RingInv' /\ RingsGrown
  BY <1>7, <1>8 DEF Ask
<1>9. ASSUME NEW m \in Member, NEW l \in Play, Hear(l, m) \/ NotARequest(l, m) PROVE RingInv' /\ RingsGrown
  BY <1>7, <1>9 DEF Hear, NotARequest
<1>10. ASSUME NEW l \in Play, CountDevice(l) \/ Answer(l) PROVE RingInv' /\ RingsGrown
  BY <1>7, <1>10 DEF CountDevice, Answer
<1>11. CASE UNCHANGED wireVars
  BY <1>7, <1>11 DEF wireVars
<1>12. CASE NewPlay
  <2>1. stream'.next = 0 /\ play' = play + 1 /\ play < MaxPlays /\ UNCHANGED rings
    BY <1>12 DEF NewPlay, NoStream
  <2>2. play' \in Nat /\ play' \in 0..MaxPlays /\ play' > 0 /\ play' \in Play
    BY <1>1, <2>1, WireConstants DEF Play
  <2>3. \A m \in Member, s \in Place : rings[play'][m][s] = Empty
    BY <1>1, <2>1, <2>2 DEF RingInv
  <2>4. \A p \in Play : p > play' => p > play
    BY <1>1, <2>1, WireConstants DEF Play
  <2>5. RingsGrown
    <3>1. play' >= play
      BY <1>1, <2>1
    <3>2. rings' \in RingType
      BY <1>1, <2>1
    <3> QED BY <1>1, <1>3, <2>1, <2>2, <3>1, <3>2 DEF RingsGrown
  <2>6. RingInv'
    BY <1>1, <1>2, <2>1, <2>2, <2>3, <2>4 DEF RingInv, Empty
  <2> QED BY <2>5, <2>6
<1>13. CASE SenderFails
  <2>1. PICK upTo \in 0..Members : Stored(upTo)
    BY <1>13 DEF SenderFails
  <2>2. Running /\ UNCHANGED play /\ stream'.next = stream.next /\ ~Running'
    BY <1>1, <1>13 DEF SenderFails, StreamType, Running
  <2>3. /\ rings' \in RingType /\ play \in Play
        /\ \A p \in Play, m \in Member, s \in Place : p # play => rings'[p][m][s] = rings[p][m][s]
        /\ \A p \in Play, m \in Member, s \in Place : rings'[p][m][s] >= rings[p][m][s]
    BY <2>1, <2>2, StoredIs
  <2>4. ASSUME NEW m \in Member, NEW n \in 0..(stream.next - 1) PROVE rings'[play][m][Spot(n)] >= n
    <3>1. Spot(n) \in Place /\ n \in Int
      BY AtPlace
    <3>2. rings[play][m][Spot(n)] >= n
      BY <2>2 DEF RingInv
    <3>3. rings[play][m][Spot(n)] \in Int /\ rings'[play][m][Spot(n)] \in Int
      BY <1>1, <2>3, <3>1 DEF RingType, Empty
    <3>4. rings'[play][m][Spot(n)] >= rings[play][m][Spot(n)]
      BY <2>3, <3>1
    <3> DEFINE old == rings[play][m][Spot(n)]
               new == rings'[play][m][Spot(n)]
    <3>5. old \in Int /\ new \in Int /\ new >= old /\ old >= n
      BY <3>2, <3>3, <3>4
    <3> HIDE DEF old, new
    <3>6. new >= n
      BY <3>1, <3>5
    <3> QED BY <3>6 DEF new
  <2>5. \A p \in Play, m \in Member, s \in Place : p > play' => rings'[p][m][s] = Empty
    BY <1>1, <2>2, <2>3, WireConstants DEF RingInv, Play
  <2>6. RingsGrown
    BY <1>1, <2>2, <2>3 DEF RingsGrown
  <2>7. RingInv'
    BY <1>1, <1>2, <2>2, <2>3, <2>4, <2>5 DEF RingInv
  <2> QED BY <2>6, <2>7
<1>14. ASSUME Running, Stored(Members), UNCHANGED play, stream'.next = stream.next + 1 PROVE RingInv' /\ RingsGrown
  <2>1. Members \in 0..Members /\ \A m \in Member : m <= Members
    BY WireConstants DEF Member
  <2>2. /\ rings' \in RingType /\ play \in Play
        /\ \A p \in Play, m \in Member, s \in Place : p # play => rings'[p][m][s] = rings[p][m][s]
        /\ \A m \in Member, s \in Place :
             rings'[play][m][s] = IF m <= Members /\ s = Spot(stream.next) THEN stream.next
                                                                        ELSE rings[play][m][s]
        /\ \A p \in Play, m \in Member, s \in Place : rings'[p][m][s] >= rings[p][m][s]
    BY <1>14, <2>1, StoredIs
  <2>3. play > 0 /\ \A m \in Member, s \in Place : rings[play][m][s] < stream.next
    BY <1>14 DEF RingInv
  <2>4. ASSUME NEW m \in Member, NEW s \in Place PROVE rings'[play][m][s] < stream'.next
    <3>1. rings[play][m][s] \in Int /\ rings[play][m][s] < stream.next
      BY <1>1, <2>2, <2>3 DEF RingType, Empty
    <3> QED BY <1>1, <1>14, <2>2, <3>1
  <2>5. ASSUME NEW m \in Member, NEW n \in 0..(stream'.next - 1) PROVE rings'[play][m][Spot(n)] >= n
    <3>1. Spot(n) \in Place /\ n \in Int
      BY AtPlace
    <3>2. CASE n = stream.next
      <4>1. rings'[play][m][Spot(n)] = n
        BY <2>1, <2>2, <3>1, <3>2
      <4> QED BY <3>1, <4>1
    <3>3. CASE n # stream.next
      <4>1. n \in 0..(stream.next - 1)
        BY <1>1, <1>14, <3>3
      <4> DEFINE old == rings[play][m][Spot(n)]
                 new == rings'[play][m][Spot(n)]
      <4>2. old \in Int /\ new \in Int
        BY <1>1, <2>2, <3>1 DEF RingType, Empty
      <4>3. old >= n
        BY <2>3, <4>1 DEF RingInv
      <4>4. new >= old
        BY <2>2, <3>1
      <4> HIDE DEF old, new
      <4>5. new >= n
        BY <3>1, <4>2, <4>3, <4>4
      <4> QED BY <4>5 DEF new
    <3> QED BY <3>2, <3>3
  <2>6. \A p \in Play, m \in Member, s \in Place : p > play' => rings'[p][m][s] = Empty
    BY <1>1, <1>14, <2>2, WireConstants DEF RingInv, Play
  <2>7. RingsGrown
    BY <1>1, <1>14, <2>2 DEF RingsGrown
  <2>8. RingInv'
    BY <1>1, <1>2, <1>14, <2>2, <2>3, <2>4, <2>5, <2>6 DEF RingInv
  <2> QED BY <2>7, <2>8
<1>15. CASE PrepareAll
  <2>1. stream'.next = stream.next + 1
    BY <1>1, <1>15, PreparedIs DEF PrepareAll
  <2> QED BY <1>14, <1>15, <2>1 DEF PrepareAll
<1>16. CASE SendDirect
  <2>1. Out(Prepared, Message, {1}).next = Prepared.next /\ Prepared.next = stream.next + 1
    BY <1>1, PreparedIs, OutIs
  <2> QED BY <1>14, <1>16, <2>1 DEF SendDirect
<1> QED BY <1>5, <1>6, <1>8, <1>9, <1>10, <1>11, <1>12, <1>13, <1>15, <1>16 DEF WireNext

LEMMA NothingIsNoRequest == Nothing \notin Request
<1> SUFFICES ASSUME Nothing \in Request PROVE FALSE
  OBVIOUS
<1>1. Nothing.member = 0 /\ Nothing.member \in Member
  BY DEF Nothing, Request
<1> QED BY <1>1, WireConstants DEF Member

LEMMA AskedStands ==
  ASSUME RingInv, play > 0, NEW m \in Member,
         NEW first \in 0..(stream.left - 1), NEW count \in 0..MaxCount, first + count <= stream.left
  PROVE  [member |-> m, play |-> play, first |-> first, count |-> count] \in Standing
<1>1. play \in Play /\ stream.next \in Nat /\ stream.left \in Nat /\ stream.left <= stream.next
  BY WireConstants DEF RingInv, Play
<1> DEFINE r == [member |-> m, play |-> play, first |-> first, count |-> count]
<1>2. r \in Request
  BY <1>1 DEF Request
<1>3. \A n \in first..(first + count - 1) : n \in 0..(stream.next - 1)
  BY <1>1, WireConstants
<1>4. \A n \in first..(first + count - 1) : rings[play][m][Spot(n)] >= n
  BY <1>3 DEF RingInv
<1>5. r.play <= play
  BY <1>1, WireConstants DEF Play
<1> QED BY <1>2, <1>4, <1>5 DEF Standing

LEMMA RequestStepKeeps ==
  ASSUME SyncInv, SyncInv', RingInv, RequestInv, [WireNext]_wireVars
  PROVE  RequestInv'
<1>1. RingInv' /\ Standing \subseteq Standing'
  BY RingsGrow, StandingStays
<1>2. /\ taken \in [Play -> Standing \cup {Nothing}] /\ sockets \in [Member -> Seq(Standing)]
      /\ \A m \in Member : \A i \in 1..Len(sockets[m]) : sockets[m][i].member = m
  BY DEF RequestInv
<1>3. ASSUME taken' \in [Play -> Standing \cup {Nothing}], sockets' \in [Member -> Seq(Standing)],
             NEW m \in Member, \A k \in Member : k # m => sockets'[k] = sockets[k],
             \A i \in 1..Len(sockets'[m]) : sockets'[m][i].member = m
      PROVE  RequestInv'
  <2>1. taken' \in [Play -> Standing' \cup {Nothing}] /\ sockets' \in [Member -> Seq(Standing')]
    BY <1>1, <1>3
  <2>2. \A k \in Member : \A i \in 1..Len(sockets'[k]) : sockets'[k][i].member = k
    BY <1>2, <1>3
  <2> QED BY <2>1, <2>2 DEF RequestInv, Nothing
<1>4. PICK one \in Member : TRUE
  BY WireConstants DEF Member
<1>5. ASSUME UNCHANGED <<taken, sockets>> PROVE RequestInv'
  BY <1>2, <1>3, <1>4, <1>5
<1>6. ASSUME NEW m \in Member, Ask(m) PROVE RequestInv'
  <2>1. PICK first \in 0..stream.left - 1, count \in 0..MaxCount :
          /\ first + count <= stream.left
          /\ sockets' = [sockets EXCEPT ![m] = Append(@, [member |-> m, play |-> play,
                                                        first |-> first, count |-> count])]
    BY <1>6 DEF Ask
  <2> DEFINE r == [member |-> m, play |-> play, first |-> first, count |-> count]
  <2>2. r \in Standing /\ r.member = m
    BY <1>6, <2>1, AskedStands DEF Ask
  <2> HIDE DEF r
  <2>3. sockets[m] = <<>> /\ UNCHANGED taken /\ sockets' = [sockets EXCEPT ![m] = Append(@, r)]
    BY <1>6, <2>1 DEF Ask, r
  <2>4. sockets'[m] = <<r>> /\ sockets' \in [Member -> Seq(Standing)]
    BY <1>2, <2>2, <2>3
  <2>5. \A i \in 1..Len(sockets'[m]) : sockets'[m][i].member = m
    BY <2>2, <2>4
  <2> QED BY <1>2, <1>3, <2>3, <2>4, <2>5
<1>7. ASSUME NEW m \in Member, sockets[m] # <<>>, sockets' = [sockets EXCEPT ![m] = Tail(@)],
             taken' \in [Play -> Standing \cup {Nothing}]
      PROVE  RequestInv'
  <2>1. sockets[m] \in Seq(Standing) /\ sockets'[m] = Tail(sockets[m])
    BY <1>2, <1>7
  <2>2. Tail(sockets[m]) \in Seq(Standing) /\ Len(Tail(sockets[m])) = Len(sockets[m]) - 1
        /\ \A i \in 1..Len(Tail(sockets[m])) :
             Tail(sockets[m])[i] = sockets[m][i + 1] /\ i + 1 \in 1..Len(sockets[m])
    BY <1>7, <2>1
  <2>3. \A i \in 1..Len(sockets'[m]) : sockets'[m][i].member = m
    BY <1>2, <2>1, <2>2
  <2>4. sockets' \in [Member -> Seq(Standing)]
    BY <1>2, <1>7, <2>2
  <2> QED BY <1>3, <1>7, <2>3, <2>4, <1>2
<1>8. ASSUME NEW m \in Member, NEW l \in Play, Hear(l, m) PROVE RequestInv'
  <2>1. Head(sockets[m]) \in Standing
    BY <1>2, <1>8 DEF Hear
  <2>2. taken' \in [Play -> Standing \cup {Nothing}]
    BY <1>2, <1>8, <2>1 DEF Hear
  <2> QED BY <1>7, <1>8, <2>2 DEF Hear
<1>9. ASSUME NEW m \in Member, NEW l \in Play, NotARequest(l, m) PROVE RequestInv'
  BY <1>2, <1>7, <1>9 DEF NotARequest
<1>10. ASSUME NEW l \in Play, CountDevice(l) \/ Answer(l) PROVE RequestInv'
  <2>1. taken' = taken \/ taken' = [taken EXCEPT ![l] = Nothing]
    BY <1>10 DEF CountDevice, Answer
  <2>2. taken' \in [Play -> Standing \cup {Nothing}] /\ UNCHANGED sockets
    BY <1>2, <1>10, <2>1 DEF CountDevice, Answer
  <2> QED BY <1>2, <1>3, <1>4, <2>2
<1>11. CASE StopOld \/ NewPlay \/ PrepareAll \/ Send \/ SendDirect \/ SenderFails \/ UNCHANGED wireVars
  BY <1>5, <1>11 DEF StopOld, NewPlay, PrepareAll, Send, SendDirect, SenderFails, wireVars
<1> QED BY <1>6, <1>8, <1>9, <1>10, <1>11 DEF WireNext

\* What is resent is what AnswersAreMeant says, one answer at a time.
LEMMA AnsweredIsMeant ==
  ASSUME RingInv, RequestInv, NEW l \in Play, taken[l] # Nothing, NEW k \in Nat, k <= taken[l].count,
         NEW a \in Resendable(l, taken[l], k)
  PROVE  /\ a.number \in Range(rings[a.listener][a.member])
         /\ a.number % Sequences = a.meant % Sequences
         /\ a.play = a.listener => a.number = a.meant \/ a.number >= a.meant + Sequences
<1>1. PICK r : r = taken[l]
  OBVIOUS
<1>2. r \in Standing /\ r \in Request /\ r.member \in Member /\ r.play \in Play /\ r.first \in Nat
      /\ r.count \in Nat
  BY <1>1, WireConstants DEF RequestInv, Standing, Request
<1>3. PICK n \in r.first..r.first + k - 1 :
        InHistory(rings[l][r.member], n % Sequences) /\ a = Response(l, r, n)
  BY <1>1 DEF Resendable
<1>4. n \in Int /\ n \in r.first..(r.first + r.count - 1) /\ Spot(n) \in Place
  BY <1>1, <1>2, <1>3, AtPlace
<1> DEFINE ring == rings[l][r.member]
           kept == rings[l][r.member][Spot(n)]
<1>5. a.listener = l /\ a.member = r.member /\ a.play = r.play /\ a.meant = n /\ a.number = kept
  BY <1>3 DEF Response, Spot
<1>6. kept # Empty /\ kept % Sequences = n % Sequences
  BY <1>3 DEF InHistory, Spot
<1>7. ring \in [Place -> Nat \cup {Empty}]
  BY <1>2 DEF RingInv, RingType
<1>8. kept \in Nat
  BY <1>4, <1>6, <1>7
<1>9. kept \in Range(ring)
  BY <1>4, <1>7 DEF Range
<1>10. a.play = a.listener => kept >= n
  BY <1>2, <1>4, <1>5 DEF Standing
<1> HIDE DEF kept
<1>11. kept >= n => kept = n \/ kept >= n + Sequences
  <2>1. SUFFICES ASSUME kept > n PROVE kept >= n + Sequences
    BY <1>4, <1>8
  <2>2. n + Sequences <= kept
    <3>1. kept \in Int /\ n < kept /\ n % Sequences = kept % Sequences
      BY <1>6, <1>8, <2>1, <1>4
    <3>2. Sequences \in Nat \ {0} /\ n \in Int
      BY <1>4, WireConstants
    <3> QED BY <3>1, <3>2, SameRemainder, Zenon
  <2> QED BY <2>2, <1>4, <1>8, WireConstants
<1> QED BY <1>5, <1>6, <1>9, <1>10, <1>11

LEMMA AnswerStepIsMeant ==
  ASSUME RingInv, RequestInv, AnswersAreMeant, [WireNext]_wireVars
  PROVE  AnswersAreMeant'
<1>1. CASE resent' = {}
  BY <1>1 DEF AnswersAreMeant
<1>2. CASE UNCHANGED wireVars
  BY <1>2 DEF AnswersAreMeant, wireVars
<1>3. ASSUME NEW l \in Play, Answer(l) PROVE AnswersAreMeant'
  <2>1. taken[l] # Nothing /\ taken[l].count \in Nat /\ UNCHANGED rings
    BY <1>3, WireConstants DEF Answer, RequestInv, Standing, Request
  <2>2. PICK k \in Nat : k <= taken[l].count /\ resent' = Resendable(l, taken[l], k)
    BY <1>3, <2>1 DEF Answer
  <2> QED BY <2>1, <2>2, AnsweredIsMeant DEF AnswersAreMeant
<1> QED
  BY <1>1, <1>2, <1>3
  DEF WireNext, StopOld, NewPlay, PrepareAll, Send, SendDirect, SenderFails, Ask, Hear, NotARequest,
      CountDevice

-----------------------------------------------------------------------------
(* GroupWire: the counts. *)

RequestedOf(d) == [m \in Member |-> d[m].requested]
FulfilledOf(d) == [m \in Member |-> d[m].fulfilled]

\* What the request t that a listener has taken, with o not yet in the device's counts, may still
\* add to a member's count.
Due(t, o, m) ==
  IF t # Nothing /\ t.member = m
  THEN IF o.fulfilled > 0 THEN o.fulfilled ELSE t.count - o.requested
  ELSE 0

PlayCounts == [all : Counts, device : [Member -> Counts]]

\* The counts s of one play, with the request t that its listener has taken and o still to be
\* added to the device's.
Even(s, t, o) ==
  /\ s \in PlayCounts /\ o \in Counts
  /\ t = Nothing => o = Zero
  /\ t # Nothing => o.requested = 0 \/ (o.requested = t.count /\ o.fulfilled = 0)
  /\ \A m \in Member : s.device[m].fulfilled + Due(t, o, m) <= s.device[m].requested
  /\ SumsTo(RequestedOf(s.device), Member, s.all.requested - o.requested)
  /\ SumsTo(FulfilledOf(s.device), Member, s.all.fulfilled - o.fulfilled)

CountsInv ==
  /\ stats \in [Play -> PlayCounts] /\ owed \in [Play -> Counts]
  /\ \A p \in Play : Even(stats[p], taken[p], owed[p])

LEMMA MemberIsFinite == IsFiniteSet(Member) /\ Member # {}
<1>1. Member # {}
  BY WireConstants DEF Member
<1> QED BY <1>1, WireConstants, FS_Interval DEF Member

LEMMA MapSums ==
  ASSUME NEW d \in [Member -> Counts]
  PROVE  /\ SumsTo(RequestedOf(d), Member, MapThenSumSet(LAMBDA m : d[m].requested, Member))
         /\ SumsTo(FulfilledOf(d), Member, MapThenSumSet(LAMBDA m : d[m].fulfilled, Member))
<1>1. SumsTo(RequestedOf(d), Member, MapThenSumSet(LAMBDA m : d[m].requested, Member))
  <2> DEFINE f == RequestedOf(d)
             Adds(g) == g = [s \in SUBSET Member |->
                               IF s = {} THEN 0 ELSE d[Picked(s)].requested + g[s \ {Picked(s)}]]
  <2>1. ASSUME NEW g PROVE IsSum(g, f, Member) <=> Adds(g)
    <3>1. \A s \in SUBSET Member : s # {} => f[Picked(s)] = d[Picked(s)].requested
      BY DEF Picked, RequestedOf
    <3> HIDE DEF f
    <3> QED BY <3>1 DEF IsSum
  <2>2. PICK g : IsSum(g, f, Member)
    BY SumExists, MemberIsFinite
  <2>3. \E h : Adds(h) /\ MapThenSumSet(LAMBDA m : d[m].requested, Member) = h[Member]
    <3>1. Adds(g)
      BY <2>1, <2>2
    <3> QED BY <3>1, Zenon DEF MapThenSumSet, MapThenFoldSet, Picked
  <2> HIDE DEF Adds, f
  <2>4. \E h : IsSum(h, f, Member) /\ MapThenSumSet(LAMBDA m : d[m].requested, Member) = h[Member]
    BY <2>1, <2>3, Zenon
  <2> QED BY <2>4, Zenon DEF SumsTo, f
<1>2. SumsTo(FulfilledOf(d), Member, MapThenSumSet(LAMBDA m : d[m].fulfilled, Member))
  <2> DEFINE f == FulfilledOf(d)
             Adds(g) == g = [s \in SUBSET Member |->
                               IF s = {} THEN 0 ELSE d[Picked(s)].fulfilled + g[s \ {Picked(s)}]]
  <2>1. ASSUME NEW g PROVE IsSum(g, f, Member) <=> Adds(g)
    <3>1. \A s \in SUBSET Member : s # {} => f[Picked(s)] = d[Picked(s)].fulfilled
      BY DEF Picked, FulfilledOf
    <3> HIDE DEF f
    <3> QED BY <3>1 DEF IsSum
  <2>2. PICK g : IsSum(g, f, Member)
    BY SumExists, MemberIsFinite
  <2>3. \E h : Adds(h) /\ MapThenSumSet(LAMBDA m : d[m].fulfilled, Member) = h[Member]
    <3>1. Adds(g)
      BY <2>1, <2>2
    <3> QED BY <3>1, Zenon DEF MapThenSumSet, MapThenFoldSet, Picked
  <2> HIDE DEF Adds, f
  <2>4. \E h : IsSum(h, f, Member) /\ MapThenSumSet(LAMBDA m : d[m].fulfilled, Member) = h[Member]
    BY <2>1, <2>3, Zenon
  <2> QED BY <2>4, Zenon DEF SumsTo, f
<1> QED BY <1>1, <1>2

LEMMA CountsFollow == RequestInv /\ CountsInv => CountsAgree
<1> SUFFICES ASSUME RequestInv, CountsInv, NEW p \in Play
             PROVE  /\ \A m \in Member : stats[p].device[m].fulfilled <= stats[p].device[m].requested
                    /\ stats[p].all.requested
                         = owed[p].requested
                             + MapThenSumSet(LAMBDA m : stats[p].device[m].requested, Member)
                    /\ stats[p].all.fulfilled
                         = owed[p].fulfilled
                             + MapThenSumSet(LAMBDA m : stats[p].device[m].fulfilled, Member)
                    /\ taken[p] = Nothing => owed[p] = Zero
  BY DEF CountsAgree
<1> DEFINE d == stats[p].device
           rs == MapThenSumSet(LAMBDA m : stats[p].device[m].requested, Member)
           fs == MapThenSumSet(LAMBDA m : stats[p].device[m].fulfilled, Member)
<1>1. /\ Even(stats[p], taken[p], owed[p])
      /\ taken[p] # Nothing => taken[p].count \in Nat
  BY WireConstants DEF CountsInv, RequestInv, Standing, Request
<1>2. /\ d \in [Member -> Counts] /\ stats[p].all \in Counts /\ owed[p] \in Counts
  BY <1>1 DEF Even, PlayCounts
<1>3. RequestedOf(d) \in [Member -> Int] /\ FulfilledOf(d) \in [Member -> Int]
  BY <1>2 DEF RequestedOf, FulfilledOf, Counts
<1>4. ASSUME NEW m \in Member PROVE d[m].fulfilled <= d[m].requested
  <2>1. d[m].fulfilled \in Nat /\ d[m].requested \in Nat
    BY <1>2 DEF Counts
  <2>2. Due(taken[p], owed[p], m) \in Nat
    <3>1. owed[p].requested \in Nat /\ owed[p].fulfilled \in Nat
      BY <1>2 DEF Counts
    <3> QED BY <1>1, <3>1 DEF Due, Even
  <2>3. d[m].fulfilled + Due(taken[p], owed[p], m) <= d[m].requested
    BY <1>1 DEF Even
  <2> QED BY <2>1, <2>2, <2>3
<1>5. /\ SumsTo(RequestedOf(d), Member, stats[p].all.requested - owed[p].requested)
      /\ SumsTo(FulfilledOf(d), Member, stats[p].all.fulfilled - owed[p].fulfilled)
  BY <1>1 DEF Even
<1>6. SumsTo(RequestedOf(d), Member, rs) /\ SumsTo(FulfilledOf(d), Member, fs)
  BY <1>2, MapSums
<1> HIDE DEF rs, fs
<1>7. stats[p].all.requested - owed[p].requested = rs
      /\ stats[p].all.fulfilled - owed[p].fulfilled = fs
  BY <1>3, <1>5, <1>6, MemberIsFinite, SumsAreOne
<1>8. /\ stats[p].all.requested \in Nat /\ owed[p].requested \in Nat
      /\ stats[p].all.fulfilled \in Nat /\ owed[p].fulfilled \in Nat
  BY <1>2 DEF Counts
<1>9. stats[p].all.requested = owed[p].requested + rs /\ stats[p].all.fulfilled = owed[p].fulfilled + fs
  BY <1>7, <1>8
<1>10. taken[p] = Nothing => owed[p] = Zero
  BY <1>1 DEF Even
<1> QED BY <1>4, <1>9, <1>10 DEF rs, fs

LEMMA FirstCounts == WireInit => CountsInv
<1> SUFFICES ASSUME WireInit, NEW p \in Play PROVE Even(stats[p], taken[p], owed[p])
  BY DEF WireInit, CountsInv, PlayCounts, Counts, Zero
<1>1. RequestedOf(stats[p].device) = [m \in Member |-> 0] /\ FulfilledOf(stats[p].device) = [m \in Member |-> 0]
  BY DEF WireInit, RequestedOf, FulfilledOf, Zero
<1>2. /\ stats[p].all.requested = 0 /\ stats[p].all.fulfilled = 0
      /\ owed[p] = Zero /\ owed[p].requested = 0 /\ owed[p].fulfilled = 0 /\ taken[p] = Nothing
      /\ stats[p] \in PlayCounts /\ owed[p] \in Counts
  BY DEF WireInit, Zero, PlayCounts, Counts
<1>3. \A m \in Member : Due(taken[p], owed[p], m) = 0
  BY <1>2 DEF Due
<1>4. \A m \in Member : stats[p].device[m].fulfilled = 0 /\ stats[p].device[m].requested = 0
  BY DEF WireInit, Zero
<1>5. /\ SumsTo(RequestedOf(stats[p].device), Member, 0)
      /\ SumsTo(FulfilledOf(stats[p].device), Member, 0)
  BY <1>1, ZerosSum, MemberIsFinite
<1> QED BY <1>2, <1>3, <1>4, <1>5 DEF Even

\* No more is resent than was asked for.
LEMMA ResendableIsSmall ==
  ASSUME NEW l \in Play, NEW r \in Request, NEW k \in Nat
  PROVE  Cardinality(Resendable(l, r, k)) \in 0..k
<1> DEFINE asked == r.first..(r.first + k - 1)
           there == {i \in asked : InHistory(rings[l][r.member], i % Sequences)}
           f == [n \in there |-> Response(l, r, n)]
<1>1. r.first \in Nat
  BY DEF Request
<1>2. IsFiniteSet(asked) /\ Cardinality(asked) = k
  <2>1. IF r.first > r.first + k - 1 THEN Cardinality(asked) = 0
                                     ELSE Cardinality(asked) = (r.first + k - 1) - r.first + 1
    BY <1>1, FS_Interval
  <2>2. IsFiniteSet(asked)
    BY <1>1, FS_Interval
  <2> DEFINE size == Cardinality(asked)
  <2>3. IF r.first > r.first + k - 1 THEN size = 0 ELSE size = (r.first + k - 1) - r.first + 1
    BY <2>1
  <2> HIDE DEF size
  <2>4. size = k
    BY <1>1, <2>3
  <2> QED BY <2>2, <2>4 DEF size
<1>3. there \in SUBSET asked
  OBVIOUS
<1> HIDE DEF asked
<1>4. IsFiniteSet(there) /\ Cardinality(there) \in Nat /\ Cardinality(there) <= k
  BY <1>2, <1>3, FS_Subset, FS_CardinalityType
<1>5. f \in Surjection(there, Resendable(l, r, k))
  <2>1. Resendable(l, r, k) = {Response(l, r, n) : n \in there}
    BY DEF Resendable, asked
  <2> QED BY <2>1 DEF Surjection
<1>6. IsFiniteSet(Resendable(l, r, k)) /\ Cardinality(Resendable(l, r, k)) <= Cardinality(there)
  BY <1>4, <1>5, FS_Surjection
<1>7. Cardinality(Resendable(l, r, k)) \in Nat
  BY <1>6, FS_CardinalityType
<1> QED BY <1>4, <1>6, <1>7

\* One play's sums follow a member's count.
LEMMA SumsFollow ==
  ASSUME NEW d \in [Member -> Counts], NEW m \in Member, NEW c \in Counts,
         NEW rs, SumsTo(RequestedOf(d), Member, rs), NEW fs, SumsTo(FulfilledOf(d), Member, fs)
  PROVE  /\ SumsTo(RequestedOf([d EXCEPT ![m] = c]), Member, rs + (c.requested - d[m].requested))
         /\ SumsTo(FulfilledOf([d EXCEPT ![m] = c]), Member, fs + (c.fulfilled - d[m].fulfilled))
<1> DEFINE e == [d EXCEPT ![m] = c]
           k == c.requested - d[m].requested
           j == c.fulfilled - d[m].fulfilled
<1>1. /\ RequestedOf(d) \in [Member -> Int] /\ RequestedOf(e) \in [Member -> Int]
      /\ FulfilledOf(d) \in [Member -> Int] /\ FulfilledOf(e) \in [Member -> Int]
      /\ k \in Int /\ j \in Int
  BY DEF RequestedOf, FulfilledOf, Counts
<1>2. RequestedOf(e)[m] = RequestedOf(d)[m] + k /\ FulfilledOf(e)[m] = FulfilledOf(d)[m] + j
  <2>1. RequestedOf(e)[m] = c.requested /\ FulfilledOf(e)[m] = c.fulfilled
        /\ RequestedOf(d)[m] = d[m].requested /\ FulfilledOf(d)[m] = d[m].fulfilled
    BY DEF RequestedOf, FulfilledOf
  <2>2. c.requested \in Nat /\ c.fulfilled \in Nat /\ d[m].requested \in Nat /\ d[m].fulfilled \in Nat
    BY DEF Counts
  <2> QED BY <2>1, <2>2
<1>3. \A x \in Member : x # m => /\ RequestedOf(e)[x] = RequestedOf(d)[x]
                                 /\ FulfilledOf(e)[x] = FulfilledOf(d)[x]
  BY DEF RequestedOf, FulfilledOf
<1> HIDE DEF e, k, j
<1>4. SumsTo(RequestedOf(e), Member, rs + k)
  BY <1>1, <1>2, <1>3, MemberIsFinite, SumsChange
<1>5. SumsTo(FulfilledOf(e), Member, fs + j)
  BY <1>1, <1>2, <1>3, MemberIsFinite, SumsChange
<1> QED BY <1>4, <1>5 DEF e, k, j

\* A request is heard: the sum has it, the device's count is owed it.
LEMMA HearingCounts ==
  ASSUME NEW s, NEW o, Even(s, Nothing, o), NEW r \in Request
  PROVE  Even([s EXCEPT !.all.requested = @ + r.count], r, [o EXCEPT !.requested = r.count])
<1>1. PICK a \in Nat, b \in Nat, d \in [Member -> Counts] :
        s = [all |-> [requested |-> a, fulfilled |-> b], device |-> d]
  BY DEF Even, PlayCounts, Counts
<1>2. o = [requested |-> 0, fulfilled |-> 0] /\ r.count \in Nat /\ r # Nothing
  BY NothingIsNoRequest, WireConstants DEF Even, Zero, Request
<1> DEFINE s2 == [s EXCEPT !.all.requested = @ + r.count]
           o2 == [o EXCEPT !.requested = r.count]
<1>3. s2 = [all |-> [requested |-> a + r.count, fulfilled |-> b], device |-> d]
  BY <1>1
<1>4. o2 = [requested |-> r.count, fulfilled |-> 0]
  BY <1>2
<1>5. /\ s2 \in PlayCounts /\ o2 \in Counts
      /\ s2.device = d /\ s2.all.requested = a + r.count /\ s2.all.fulfilled = b
      /\ o2.requested = r.count /\ o2.fulfilled = 0
  BY <1>2, <1>3, <1>4 DEF PlayCounts, Counts
<1> HIDE DEF s2, o2
<1>6. ASSUME NEW m \in Member PROVE d[m].fulfilled + Due(r, o2, m) <= d[m].requested
  <2>1. Due(r, o2, m) = 0 /\ Due(Nothing, o, m) = 0
    BY <1>2, <1>5 DEF Due
  <2>2. d[m].fulfilled + Due(Nothing, o, m) <= d[m].requested
    BY <1>1 DEF Even
  <2> QED BY <2>1, <2>2
<1>7. SumsTo(RequestedOf(d), Member, a) /\ SumsTo(FulfilledOf(d), Member, b)
  BY <1>1, <1>2 DEF Even
<1>8. s2.all.requested - o2.requested = a /\ s2.all.fulfilled - o2.fulfilled = b
  BY <1>2, <1>5
<1>9. Even(s2, r, o2)
  BY <1>2, <1>5, <1>6, <1>7, <1>8 DEF Even
<1> QED BY <1>9 DEF s2, o2

\* n answers went out: the sum has them, the device's count is owed them.
LEMMA AnsweringCounts ==
  ASSUME NEW s, NEW r \in Request, NEW o, Even(s, r, o), o = Zero, NEW n \in 0..r.count
  PROVE  Even([s EXCEPT !.all.fulfilled = @ + n], IF n > 0 THEN r ELSE Nothing, [o EXCEPT !.fulfilled = n])
<1>1. PICK a \in Nat, b \in Nat, d \in [Member -> Counts] :
        s = [all |-> [requested |-> a, fulfilled |-> b], device |-> d]
  BY DEF Even, PlayCounts, Counts
<1>2. /\ o = [requested |-> 0, fulfilled |-> 0] /\ r.count \in Nat /\ r # Nothing
      /\ n \in Nat /\ n <= r.count
  BY NothingIsNoRequest, WireConstants DEF Even, Zero, Request
<1> DEFINE s2 == [s EXCEPT !.all.fulfilled = @ + n]
           t2 == IF n > 0 THEN r ELSE Nothing
           o2 == [o EXCEPT !.fulfilled = n]
<1>3. s2 = [all |-> [requested |-> a, fulfilled |-> b + n], device |-> d]
  BY <1>1
<1>4. o2 = [requested |-> 0, fulfilled |-> n]
  BY <1>2
<1>5. /\ s2 \in PlayCounts /\ o2 \in Counts
      /\ s2.device = d /\ s2.all.requested = a /\ s2.all.fulfilled = b + n
      /\ o2.requested = 0 /\ o2.fulfilled = n
  BY <1>2, <1>3, <1>4 DEF PlayCounts, Counts
<1>6. t2 = Nothing => o2 = Zero
  BY <1>2, <1>4 DEF Zero
<1> HIDE DEF s2, o2
<1>7. ASSUME NEW m \in Member PROVE d[m].fulfilled + Due(t2, o2, m) <= d[m].requested
  <2>1. Due(t2, o2, m) = IF r.member = m THEN n ELSE 0
    BY <1>2, <1>5 DEF Due
  <2>2. Due(r, o, m) = IF r.member = m THEN r.count ELSE 0
    BY <1>2 DEF Due
  <2>3. d[m].fulfilled + Due(r, o, m) <= d[m].requested
    BY <1>1 DEF Even
  <2>4. d[m].fulfilled \in Nat /\ d[m].requested \in Nat
    BY DEF Counts
  <2> QED BY <1>2, <2>1, <2>2, <2>3, <2>4
<1>8. SumsTo(RequestedOf(d), Member, a) /\ SumsTo(FulfilledOf(d), Member, b)
  BY <1>1, <1>2 DEF Even
<1>9. s2.all.requested - o2.requested = a /\ s2.all.fulfilled - o2.fulfilled = b
  BY <1>2, <1>5
<1> HIDE DEF t2
<1>10. Even(s2, t2, o2)
  BY <1>2, <1>5, <1>6, <1>7, <1>8, <1>9 DEF Even
<1> QED BY <1>10 DEF s2, t2, o2

\* The request is given up: nothing more is counted of it.
LEMMA GivingUpCounts ==
  ASSUME NEW s, NEW r \in Request, NEW o, Even(s, r, o), o = Zero
  PROVE  Even(s, Nothing, o)
<1>1. o.requested = 0 /\ o.fulfilled = 0 /\ r # Nothing /\ r.count \in Nat
  BY NothingIsNoRequest, WireConstants DEF Zero, Request
<1>2. ASSUME NEW m \in Member PROVE s.device[m].fulfilled + Due(Nothing, o, m) <= s.device[m].requested
  <2>1. s.device[m].fulfilled \in Nat /\ s.device[m].requested \in Nat
    BY DEF Even, PlayCounts, Counts
  <2>2. Due(Nothing, o, m) = 0 /\ Due(r, o, m) \in Nat
    BY <1>1 DEF Due
  <2>3. s.device[m].fulfilled + Due(r, o, m) <= s.device[m].requested
    BY DEF Even
  <2> QED BY <2>1, <2>2, <2>3
<1> QED BY <1>2 DEF Even

\* The device's counts get what they are owed.
LEMMA DeviceCounts ==
  ASSUME NEW s, NEW r \in Request, NEW o, Even(s, r, o), o # Zero
  PROVE  Even([s EXCEPT !.device[r.member] = [requested |-> @.requested + o.requested,
                                             fulfilled |-> @.fulfilled + o.fulfilled]],
              IF o.fulfilled > 0 THEN Nothing ELSE r, Zero)
<1>1. PICK a \in Nat, b \in Nat, d \in [Member -> Counts] :
        s = [all |-> [requested |-> a, fulfilled |-> b], device |-> d]
  BY DEF Even, PlayCounts, Counts
<1>2. PICK q \in Nat, f \in Nat : o = [requested |-> q, fulfilled |-> f]
  BY DEF Even, Counts
<1>3. PICK m \in Member : m = r.member
  BY DEF Request
<1>4. r.count \in Nat /\ r # Nothing /\ (q = 0 \/ (q = r.count /\ f = 0)) /\ ~(q = 0 /\ f = 0)
  BY <1>2, NothingIsNoRequest, WireConstants DEF Even, Zero, Request
<1>5. d[m].requested \in Nat /\ d[m].fulfilled \in Nat
  BY DEF Counts
<1>6. PICK c \in Counts : c = [requested |-> d[m].requested + q, fulfilled |-> d[m].fulfilled + f]
  <2>1. PICK v \in Nat, w \in Nat : v = d[m].requested + q /\ w = d[m].fulfilled + f
    BY <1>5
  <2>2. [requested |-> v, fulfilled |-> w] \in Counts
    BY DEF Counts
  <2> QED BY <2>1, <2>2
<1> DEFINE s2 == [s EXCEPT !.device[r.member] = [requested |-> @.requested + o.requested,
                                                fulfilled |-> @.fulfilled + o.fulfilled]]
           t2 == IF o.fulfilled > 0 THEN Nothing ELSE r
           e == [d EXCEPT ![m] = c]
<1>7. s2 = [all |-> [requested |-> a, fulfilled |-> b], device |-> e]
  BY <1>1, <1>2, <1>3, <1>6
<1>8. /\ e \in [Member -> Counts] /\ e[m] = c /\ \A x \in Member : x # m => e[x] = d[x]
  OBVIOUS
<1> HIDE DEF e, s2
<1>9. /\ s2 \in PlayCounts /\ Zero \in Counts
      /\ s2.device = e /\ s2.all.requested = a /\ s2.all.fulfilled = b
      /\ Zero.requested = 0 /\ Zero.fulfilled = 0
  BY <1>7, <1>8 DEF PlayCounts, Counts, Zero
<1>10. t2 = IF f > 0 THEN Nothing ELSE r
  BY <1>2
<1> HIDE DEF t2
<1>11. ASSUME NEW x \in Member PROVE e[x].fulfilled + Due(t2, Zero, x) <= e[x].requested
  <2>1. Due(t2, Zero, x) = IF x = m /\ f = 0 THEN r.count ELSE 0
    BY <1>3, <1>4, <1>9, <1>10 DEF Due
  <2>2. Due(r, o, x) = IF x = m THEN (IF f > 0 THEN f ELSE r.count - q) ELSE 0
    BY <1>2, <1>3, <1>4 DEF Due
  <2>3. d[x].fulfilled + Due(r, o, x) <= d[x].requested
    BY <1>1 DEF Even
  <2>4. CASE x = m
    <3>1. e[x].requested = d[m].requested + q /\ e[x].fulfilled = d[m].fulfilled + f
      BY <1>6, <1>8, <2>4
    <3>2. PICK dr \in Nat, df \in Nat : dr = d[m].requested /\ df = d[m].fulfilled
      BY <1>5
    <3>3. df + (IF f > 0 THEN f ELSE r.count - q) <= dr
      BY <2>2, <2>3, <2>4, <3>2
    <3>4. df + f + (IF f = 0 THEN r.count ELSE 0) <= dr + q
      BY <1>4, <3>3
    <3> QED BY <2>1, <2>4, <3>1, <3>2, <3>4
  <2>5. CASE x # m
    BY <1>8, <2>1, <2>2, <2>3, <2>5
  <2> QED BY <2>4, <2>5
<1>12. /\ SumsTo(RequestedOf(d), Member, a - q) /\ SumsTo(FulfilledOf(d), Member, b - f)
  BY <1>1, <1>2 DEF Even
<1>13. /\ SumsTo(RequestedOf(e), Member, a - q + (c.requested - d[m].requested))
       /\ SumsTo(FulfilledOf(e), Member, b - f + (c.fulfilled - d[m].fulfilled))
  BY <1>12, SumsFollow DEF e
<1>14. /\ a - q + (c.requested - d[m].requested) = a - 0
       /\ b - f + (c.fulfilled - d[m].fulfilled) = b - 0
  BY <1>5, <1>6
<1>15. SumsTo(RequestedOf(e), Member, a - 0) /\ SumsTo(FulfilledOf(e), Member, b - 0)
  BY <1>13, <1>14
<1>16. t2 # Nothing => Zero.requested = 0
  BY <1>9
<1>17. Even(s2, t2, Zero)
  BY <1>9, <1>11, <1>15, <1>16 DEF Even
<1> QED BY <1>17 DEF s2, t2

LEMMA CountsStepKeeps == RequestInv /\ CountsInv /\ [WireNext]_wireVars => CountsInv'
<1> SUFFICES ASSUME RequestInv, CountsInv, [WireNext]_wireVars PROVE CountsInv'
  OBVIOUS
<1>1. stats \in [Play -> PlayCounts] /\ owed \in [Play -> Counts]
      /\ \A p \in Play : Even(stats[p], taken[p], owed[p])
  BY DEF CountsInv
<1>2. taken \in [Play -> Request \cup {Nothing}]
  BY DEF RequestInv, Standing
<1>3. ASSUME UNCHANGED <<taken, stats, owed>> PROVE CountsInv'
  BY <1>1, <1>3 DEF CountsInv
<1>4. ASSUME NEW l \in Play, NEW s, NEW t, NEW o, Even(s, t, o),
             stats' = [stats EXCEPT ![l] = s], taken' = [taken EXCEPT ![l] = t],
             owed' = [owed EXCEPT ![l] = o]
      PROVE  CountsInv'
  <2>1. s \in PlayCounts /\ o \in Counts
    BY <1>4 DEF Even
  <2>2. stats' \in [Play -> PlayCounts] /\ owed' \in [Play -> Counts]
    BY <1>1, <1>4, <2>1
  <2>3. ASSUME NEW p \in Play PROVE Even(stats'[p], taken'[p], owed'[p])
    <3>1. CASE p = l
      BY <1>1, <1>2, <1>4, <3>1
    <3>2. CASE p # l
      BY <1>1, <1>2, <1>4, <3>2
    <3> QED BY <3>1, <3>2
  <2> QED BY <2>2, <2>3 DEF CountsInv
<1>5. ASSUME NEW m \in Member, NEW l \in Play, Hear(l, m) PROVE CountsInv'
  <2>1. PICK asked : asked = Head(sockets[m])
    OBVIOUS
  <2>2. asked \in Request
    <3>1. sockets[m] \in Seq(Standing) /\ sockets[m] # <<>>
      BY <1>5 DEF Hear, RequestInv
    <3>2. asked \in Standing
      BY <2>1, <3>1
    <3> QED BY <3>2 DEF Standing
  <2>3. Even(stats[l], Nothing, owed[l])
    BY <1>1, <1>5 DEF Hear
  <2>4. Even([stats[l] EXCEPT !.all.requested = @ + asked.count], asked,
             [owed[l] EXCEPT !.requested = asked.count])
    BY <2>2, <2>3, HearingCounts
  <2>5. /\ stats' = [stats EXCEPT ![l] = [stats[l] EXCEPT !.all.requested = @ + asked.count]]
        /\ taken' = [taken EXCEPT ![l] = asked]
        /\ owed' = [owed EXCEPT ![l] = [owed[l] EXCEPT !.requested = asked.count]]
    BY <1>1, <1>5, <2>1 DEF Hear
  <2> QED BY <1>4, <2>4, <2>5
<1>6. ASSUME NEW l \in Play, CountDevice(l) PROVE CountsInv'
  <2>1. taken[l] \in Request /\ taken[l] # Nothing /\ owed[l] # Zero
    BY <1>2, <1>6 DEF CountDevice
  <2> DEFINE s == [stats[l] EXCEPT !.device[taken[l].member] =
                    [requested |-> @.requested + owed[l].requested,
                     fulfilled |-> @.fulfilled + owed[l].fulfilled]]
             t == IF owed[l].fulfilled > 0 THEN Nothing ELSE taken[l]
  <2>2. Even(s, t, Zero)
    BY <1>1, <2>1, DeviceCounts
  <2>3. stats' = [stats EXCEPT ![l] = s]
    BY <1>1, <1>6 DEF CountDevice
  <2>4. taken' = [taken EXCEPT ![l] = t] /\ owed' = [owed EXCEPT ![l] = Zero]
    BY <1>2, <1>6 DEF CountDevice
  <2> HIDE DEF s, t
  <2> QED BY <1>4, <2>2, <2>3, <2>4
<1>7. ASSUME NEW l \in Play, Answer(l) PROVE CountsInv'
  <2>1. PICK r : r = taken[l]
    OBVIOUS
  <2>2. r \in Request /\ r # Nothing /\ owed[l] = Zero /\ Even(stats[l], r, owed[l]) /\ r.count \in Nat
    BY <1>1, <1>2, <1>7, <2>1, WireConstants DEF Answer, Request
  <2>3. CASE /\ \E k \in 0..r.count - 1 : resent' = Resendable(l, r, k)
             /\ taken' = [taken EXCEPT ![l] = Nothing]
             /\ UNCHANGED <<stats, owed>>
    <3>1. Even(stats[l], Nothing, owed[l])
      BY <2>2, GivingUpCounts
    <3>2. stats' = [stats EXCEPT ![l] = stats[l]] /\ owed' = [owed EXCEPT ![l] = owed[l]]
      BY <1>1, <2>3
    <3> QED BY <1>4, <2>3, <3>1, <3>2
  <2>4. CASE ~(/\ \E k \in 0..r.count - 1 : resent' = Resendable(l, r, k)
               /\ taken' = [taken EXCEPT ![l] = Nothing]
               /\ UNCHANGED <<stats, owed>>)
    <3>1. PICK n : n = Cardinality(resent')
      OBVIOUS
    <3>2. /\ resent' = Resendable(l, r, r.count)
          /\ stats' = [stats EXCEPT ![l].all.fulfilled = @ + n]
          /\ owed' = [owed EXCEPT ![l].fulfilled = n]
          /\ taken' = IF n > 0 THEN taken ELSE [taken EXCEPT ![l] = Nothing]
      BY <1>7, <2>1, <2>4, <3>1 DEF Answer
    <3>3. n \in 0..r.count
      BY <2>2, <3>1, <3>2, ResendableIsSmall
    <3> DEFINE s == [stats[l] EXCEPT !.all.fulfilled = @ + n]
               t == IF n > 0 THEN r ELSE Nothing
               o == [owed[l] EXCEPT !.fulfilled = n]
    <3>4. Even(s, t, o)
      BY <2>2, <3>3, AnsweringCounts
    <3>5. stats' = [stats EXCEPT ![l] = s] /\ owed' = [owed EXCEPT ![l] = o]
      BY <1>1, <3>2
    <3>6. taken' = [taken EXCEPT ![l] = t]
      BY <1>2, <2>1, <3>2
    <3> HIDE DEF s, t, o
    <3> QED BY <1>4, <3>4, <3>5, <3>6
  <2> QED BY <2>3, <2>4
<1> QED
  BY <1>3, <1>5, <1>6, <1>7
  DEF WireNext, wireVars, StopOld, NewPlay, PrepareAll, Send, SendDirect, SenderFails, Ask, NotARequest

-----------------------------------------------------------------------------
(* GroupWire: all of it. *)

GroupInv == SyncInv /\ RingInv /\ RequestInv /\ AnswersAreMeant /\ CountsInv

LEMMA FirstGroup == WireInit => GroupInv
<1> SUFFICES ASSUME WireInit PROVE GroupInv
  OBVIOUS
<1>1. stream.next = 0 /\ stream.left = 0 /\ ~Running /\ play = 0
  BY DEF WireInit, NoStream, Running
<1>2. rings \in RingType /\ \A p \in Play, m \in Member, s \in Place : rings[p][m][s] = Empty
  BY DEF WireInit, RingType
<1>3. RingInv
  BY <1>1, <1>2, WireConstants DEF RingInv
<1>4. RequestInv
  BY DEF WireInit, RequestInv
<1>5. AnswersAreMeant
  BY DEF WireInit, AnswersAreMeant
<1> QED BY <1>3, <1>4, <1>5, FirstSyncs, FirstCounts DEF GroupInv

LEMMA GroupStepKeeps == GroupInv /\ [WireNext]_wireVars => GroupInv'
<1> SUFFICES ASSUME GroupInv, [WireNext]_wireVars PROVE GroupInv'
  OBVIOUS
<1>1. SyncInv'
  BY SyncStepKeeps DEF GroupInv
<1>2. RingInv' /\ RequestInv'
  BY <1>1, RingsGrow, RequestStepKeeps DEF GroupInv
<1>3. AnswersAreMeant' /\ CountsInv'
  BY AnswerStepIsMeant, CountsStepKeeps DEF GroupInv
<1> QED BY <1>1, <1>2, <1>3 DEF GroupInv

LEMMA GroupStep == [Next]_vars => [WireNext]_wireVars
  BY Zenon DEF Next, vars, wireVars

\* In a group of any size, over any number of plays whose listeners are never ended, with any
\* delay between a request and its answer: what is resent is the packet meant or one of its
\* number from the same ring; the sums are the members' sums but for what a listener has yet
\* to add to its device, with no more answered than was asked; with a sender thread no member
\* goes without a sync for SyncEvery packets, and without one the primary does not.
THEOREM GroupStaysServed == Spec => []GroupIsServed
<1>1. Init => GroupInv
  BY FirstGroup DEF Init
<1>2. GroupInv /\ [Next]_vars => GroupInv'
  BY GroupStep, GroupStepKeeps
<1>3. GroupInv => GroupIsServed
  <2>1. GroupInv => SyncsLead
    <3> SUFFICES ASSUME GroupInv, stream.syncs, NEW m \in (IF stream.threaded THEN Member ELSE {1})
                 PROVE  stream.bare[m] < SyncEvery
      BY DEF SyncsLead
    <3>1. stream.bare[1] < SyncEvery /\ (stream.threaded => Alike)
      BY DEF GroupInv, SyncInv
    <3>2. stream.bare[m] = stream.bare[1]
      BY <3>1 DEF Alike
    <3> QED BY <3>1, <3>2
  <2>2. GroupInv => CountsAgree
    BY CountsFollow DEF GroupInv
  <2> QED BY <2>1, <2>2 DEF GroupInv, GroupIsServed
<1> QED BY <1>1, <1>2, <1>3, PTL DEF Spec

\* The bounds: of the packets, of the queue to the sender thread and of the requests.
WithinBounds ==
  /\ stream.next <= MaxNumber /\ stream.lastSync <= MaxNumber
  /\ Len(queue) <= Waiting /\ requests \in 0..MaxRequests
  /\ \A p \in Play, m \in Member, s \in Place : rings[p][m][s] <= MaxNumber

LEMMA WireBounds ==
  MaxPlays \in Nat /\ MaxNumber \in Nat /\ MaxRequests \in Nat /\ MaxCount \in Nat /\ Waiting \in Nat
BY GroupWireAssumption DEF GroupWireAssumption

LEMMA StoringStaysWithin ==
  ASSUME GroupInv, WithinBounds, Running, stream.next < MaxNumber, NEW upTo \in 0..Members, Stored(upTo)
  PROVE  \A p \in Play, m \in Member, s \in Place : rings'[p][m][s] <= MaxNumber
<1>1. /\ \A p \in Play, m \in Member, s \in Place : p # play => rings'[p][m][s] = rings[p][m][s]
      /\ \A m \in Member, s \in Place :
           rings'[play][m][s] = IF m <= upTo /\ s = Spot(stream.next) THEN stream.next
                                                                 ELSE rings[play][m][s]
  BY StoredIs DEF GroupInv
<1>2. stream.next <= MaxNumber
  BY WireBounds DEF GroupInv, RingInv
<1> SUFFICES ASSUME NEW p \in Play, NEW m \in Member, NEW s \in Place
             PROVE  rings'[p][m][s] <= MaxNumber
  OBVIOUS
<1>3. rings[p][m][s] <= MaxNumber
  BY DEF WithinBounds
<1>4. rings'[p][m][s] = stream.next \/ rings'[p][m][s] = rings[p][m][s]
  <2>1. CASE p = play
    BY <1>1, <2>1
  <2>2. CASE p # play
    BY <1>1, <2>2
  <2> QED BY <2>1, <2>2
<1> QED BY <1>2, <1>3, <1>4

LEMMA StayWithinBounds ==
  ASSUME GroupInv, WithinBounds, [WireNext]_wireVars
  PROVE  WithinBounds'
<1>1. /\ stream \in StreamType /\ queue \in Seq(Sent) /\ Len(queue) \in Nat
      /\ MaxPlays \in Nat /\ MaxNumber \in Nat /\ MaxRequests \in Nat /\ Waiting \in Nat
      /\ stream.next \in Nat /\ stream.next <= MaxNumber /\ Len(queue) <= Waiting
      /\ stream.lastSync \in Nat /\ stream.lastSync <= MaxNumber
      /\ requests \in 0..MaxRequests
  BY WireBounds DEF WithinBounds, GroupInv, SyncInv, QueueInv, StreamType
<1>2. Members \in 0..Members
  BY WireConstants
<1> DEFINE Rings == \A p \in Play, m \in Member, s \in Place : rings[p][m][s] <= MaxNumber
           Queue == Len(queue) <= Waiting
           Number == stream.next <= MaxNumber /\ stream.lastSync <= MaxNumber
<1>3. Rings'
  <2>1. CASE PrepareAll \/ SendDirect
    <3>1. Running /\ stream.next < MaxNumber /\ Stored(Members)
      BY <2>1 DEF PrepareAll, SendDirect
    <3> QED BY <1>2, <3>1, StoringStaysWithin
  <2>2. CASE SenderFails
    <3>1. PICK upTo \in 0..Members : Stored(upTo)
      BY <2>2 DEF SenderFails
    <3>2. Running /\ stream.next < MaxNumber
      BY <2>2 DEF SenderFails
    <3> QED BY <3>1, <3>2, StoringStaysWithin
  <2>3. CASE UNCHANGED rings
    BY <2>3 DEF WithinBounds
  <2>4. PrepareAll \/ SendDirect \/ SenderFails \/ UNCHANGED rings
    BY DEF WireNext, wireVars, StopOld, NewPlay, Send, Ask, Hear, NotARequest, CountDevice, Answer
  <2> QED BY <2>1, <2>2, <2>3, <2>4
<1>4. Queue'
  <2>1. CASE PrepareAll
    <3>1. queue' = Append(queue, Message) /\ Len(queue) < Waiting
      BY <2>1 DEF PrepareAll
    <3>2. Message \in Sent
      BY <1>1, PreparedIs
    <3>3. Len(queue') = Len(queue) + 1
      BY <1>1, <3>1, <3>2
    <3> QED BY <1>1, <3>1, <3>3
  <2>2. CASE Send
    <3>1. queue # <<>> /\ queue' = Tail(queue)
      BY <2>2 DEF Send
    <3>2. Len(queue') = Len(queue) - 1
      BY <1>1, <3>1
    <3> QED BY <1>1, <3>2
  <2>3. CASE UNCHANGED queue
    BY <1>1, <2>3
  <2>4. PrepareAll \/ Send \/ UNCHANGED queue
    BY DEF WireNext, wireVars, StopOld, NewPlay, SendDirect, SenderFails, Ask, Hear, NotARequest,
           CountDevice, Answer
  <2> QED BY <2>1, <2>2, <2>3, <2>4
<1>5. Number'
  <2>1. CASE PrepareAll
    <3>1. /\ stream'.next = stream.next + 1 /\ stream.next < MaxNumber
          /\ stream'.lastSync \in {stream.next, stream.lastSync}
      BY <1>1, <2>1, PreparedIs DEF PrepareAll
    <3> QED BY <1>1, <3>1
  <2>2. CASE SendDirect
    <3>1. stream' = Out(Prepared, Message, {1}) /\ stream.next < MaxNumber
      BY <2>2 DEF SendDirect
    <3>2. /\ Prepared \in StreamType /\ Message \in Sent /\ Prepared.next = stream.next + 1
          /\ Prepared.lastSync \in {stream.next, stream.lastSync}
      BY <1>1, PreparedIs
    <3>3. stream'.next = stream.next + 1 /\ stream'.lastSync \in {stream.next, stream.lastSync}
      BY <3>1, <3>2, OutIs
    <3> QED BY <1>1, <3>1, <3>3
  <2>3. CASE Send
    <3>1. queue # <<>> /\ stream' = Out(stream, Head(queue), Member)
      BY <2>3 DEF Send
    <3>2. Head(queue) \in Sent
      BY <1>1, <3>1
    <3>3. stream'.next = stream.next /\ stream'.lastSync = stream.lastSync
      BY <1>1, <3>1, <3>2, OutIs, OneIsMember
    <3> QED BY <1>1, <3>3
  <2>4. CASE NewPlay
    <3>1. PICK threaded \in BOOLEAN, syncs \in BOOLEAN :
            stream' = [NoStream EXCEPT !.phase = "running", !.threaded = threaded, !.syncs = syncs]
      BY <2>4 DEF NewPlay
    <3>2. stream'.next = 0 /\ stream'.lastSync = 0
      BY <3>1 DEF NoStream
    <3> QED BY <1>1, <3>2
  <2>5. CASE StopOld \/ SenderFails
    <3>1. stream'.next = stream.next /\ stream'.lastSync = stream.lastSync
      BY <1>1, <2>5 DEF StopOld, SenderFails, StreamType
    <3> QED BY <1>1, <3>1
  <2>6. CASE UNCHANGED stream
    BY <1>1, <2>6
  <2>7. PrepareAll \/ SendDirect \/ Send \/ NewPlay \/ StopOld \/ SenderFails \/ UNCHANGED stream
    BY DEF WireNext, wireVars, Ask, Hear, NotARequest, CountDevice, Answer
  <2> QED BY <2>1, <2>2, <2>3, <2>4, <2>5, <2>6, <2>7
<1>6. requests' \in 0..MaxRequests
  <2>1. requests' = requests \/ (requests < MaxRequests /\ requests' = requests + 1)
    BY DEF WireNext, wireVars, StopOld, NewPlay, PrepareAll, Send, SendDirect, SenderFails, Ask, Hear,
           NotARequest, CountDevice, Answer
  <2> QED BY <1>1, <2>1
<1> QED BY <1>3, <1>4, <1>5, <1>6 DEF WithinBounds

\* The loop never has more packets before the sender thread than the channel takes, what is in a
\* ring was prepared, and every request that waits is one of the group's (group_sender,
\* sender_thread_main, handle_retransmit).
THEOREM QueueStaysBounded == Spec => []WireTypeOK
<1>1. Init => WithinBounds
  <2> SUFFICES ASSUME WireInit PROVE WithinBounds
    BY DEF Init
  <2>1. Len(<<>>) = 0 /\ Empty <= MaxNumber /\ 0 <= Waiting /\ 0 \in 0..MaxRequests /\ 0 <= MaxNumber
    BY WireBounds DEF Empty
  <2>2. /\ stream.next = 0 /\ stream.lastSync = 0 /\ queue = <<>> /\ requests = 0
        /\ \A p \in Play, m \in Member, s \in Place : rings[p][m][s] = Empty
    BY DEF WireInit, NoStream
  <2> QED BY <2>1, <2>2 DEF WithinBounds
<1>2. GroupInv /\ WithinBounds /\ [Next]_vars => GroupInv' /\ WithinBounds'
  BY GroupStep, GroupStepKeeps, StayWithinBounds
<1>3. GroupInv /\ WithinBounds => WireTypeOK
  <2> SUFFICES ASSUME GroupInv, WithinBounds PROVE WireTypeOK
    OBVIOUS
  <2>1. /\ play \in 0..MaxPlays /\ stream \in StreamType /\ stream.next <= MaxNumber
        /\ stream.left <= stream.next /\ rings \in RingType /\ stats \in [Play -> PlayCounts]
        /\ owed \in [Play -> Counts]
        /\ stream.lastSync <= MaxNumber
        /\ stream.next \in Nat /\ stream.left \in Nat /\ stream.lastSync \in Nat
    BY DEF GroupInv, SyncInv, QueueInv, RingInv, CountsInv, WithinBounds, StreamType
  <2>3. stream \in [phase : {"none", "running", "stopping", "over"}, threaded : BOOLEAN,
                    syncs : BOOLEAN, next : 0..MaxNumber, left : 0..MaxNumber, first : BOOLEAN,
                    lastSync : 0..MaxNumber, bare : [Member -> Nat]]
    BY <2>1, WireBounds DEF StreamType
  <2>4. rings \in [Play -> [Member -> [Place -> 0..MaxNumber \cup {Empty}]]]
    <3>1. ASSUME NEW p \in Play, NEW m \in Member
          PROVE  rings[p][m] \in [Place -> 0..MaxNumber \cup {Empty}]
      <4>1. rings[p][m] \in [Place -> Nat \cup {Empty}]
        BY <2>1 DEF RingType
      <4>2. \A s \in Place : rings[p][m][s] <= MaxNumber
        BY DEF WithinBounds
      <4> QED BY <4>1, <4>2, WireBounds DEF Empty
    <3> QED BY <2>1, <3>1 DEF RingType
  <2>5. /\ taken \in [Play -> Request \cup {Nothing}]
        /\ \A m \in Member : \A i \in DOMAIN sockets[m] : sockets[m][i] \in Request
    <3>1. Standing \subseteq Request
      BY DEF Standing
    <3>2. taken \in [Play -> Standing \cup {Nothing}] /\ sockets \in [Member -> Seq(Standing)]
      BY DEF GroupInv, RequestInv
    <3> HIDE DEF Standing
    <3> QED BY <3>1, <3>2
  <2> QED BY <2>1, <2>3, <2>4, <2>5 DEF WithinBounds, PlayCounts, WireTypeOK
<1> QED BY <1>1, <1>2, <1>3, FirstGroup, PTL DEF Spec, Init

-----------------------------------------------------------------------------
(* BluetoothSource: frames and their stamps. *)

StampedFrame == Nat \X Nat
Given == [frame : StampedFrame, at : Nat]

\* What was given and what waits are of the running capture and in its order.
SourceInv ==
  /\ starts \in Nat /\ captured \in Nat /\ stamp = Len(given)
  /\ waiting \in Seq(StampedFrame) /\ given \in Seq(Given)
  /\ \A i \in 1..Len(waiting) : /\ waiting[i][1] = starts /\ waiting[i][2] < captured
                                /\ \A j \in 1..Len(given) : given[j].frame[2] < waiting[i][2]
                                /\ \A j \in 1..(i - 1) : waiting[j][2] < waiting[i][2]
  /\ \A j \in 1..Len(given) : /\ given[j].at = j - 1 /\ given[j].frame[1] = starts
                              /\ given[j].frame[2] < captured
                              /\ j > 1 => given[j].frame[2] > given[j - 1].frame[2]

LEMMA SourceStepKeeps == SourceInv /\ [SourceNext]_sourceSideVars => SourceInv'
<1> SUFFICES ASSUME SourceInv, [SourceNext]_sourceSideVars PROVE SourceInv'
  OBVIOUS
<1>1. /\ starts \in Nat /\ captured \in Nat /\ stamp = Len(given)
      /\ waiting \in Seq(StampedFrame) /\ given \in Seq(Given)
  BY DEF SourceInv
<1>0. ASSUME NEW j \in 1..Len(given) PROVE given[j].frame \in StampedFrame /\ given[j].frame[2] \in Nat
  <2>1. given[j] \in Given
    BY <1>1
  <2>2. given[j].frame \in StampedFrame
    BY <2>1 DEF Given
  <2> QED BY <2>2 DEF StampedFrame
<1>2. CASE StartSource
  <2>1. starts' = starts + 1 /\ captured' = 0 /\ waiting' = <<>> /\ given' = <<>> /\ stamp' = 0
    BY <1>2 DEF StartSource
  <2>2. waiting' \in Seq(StampedFrame) /\ given' \in Seq(Given) /\ Len(given') = 0 /\ Len(waiting') = 0
    BY <2>1
  <2> QED BY <1>1, <2>1, <2>2 DEF SourceInv
<1>3. CASE StopSource
  <2>1. waiting' = <<>> /\ waiting' \in Seq(StampedFrame) /\ Len(waiting') = 0
        /\ UNCHANGED <<starts, captured, stamp, given>>
    BY <1>3 DEF StopSource
  <2> QED BY <2>1 DEF SourceInv
<1>4. CASE CaptureFrame
  <2>1. captured' = captured + 1 /\ UNCHANGED <<starts, stamp, given>>
    BY <1>4 DEF CaptureFrame, readerVars
  <2>2. \A j \in 1..Len(given) : given[j].frame[2] < captured'
    <3> SUFFICES ASSUME NEW j \in 1..Len(given) PROVE given[j].frame[2] < captured'
      OBVIOUS
    <3>1. given[j].frame[2] < captured /\ given[j].frame[2] \in Nat
      BY <1>0 DEF SourceInv
    <3> QED BY <1>1, <2>1, <3>1
  <2>3. ASSUME NEW i \in 1..Len(waiting)
        PROVE  waiting[i][2] \in Nat /\ waiting[i][2] < captured /\ waiting[i][2] < captured'
    <3>1. waiting[i] \in StampedFrame
      BY <1>1
    <3>2. waiting[i][2] \in Nat
      BY <3>1 DEF StampedFrame
    <3>3. waiting[i][2] < captured
      BY DEF SourceInv
    <3> QED BY <1>1, <2>1, <3>2, <3>3
  <2>4. CASE waiting' = waiting
    BY <1>1, <2>1, <2>2, <2>3, <2>4 DEF SourceInv
  <2>5. CASE waiting' # waiting
    <3>1. waiting' = Append(waiting, <<starts, captured>>) /\ <<starts, captured>> \in StampedFrame
      BY <1>1, <1>4, <2>5 DEF CaptureFrame, StampedFrame
    <3>2. /\ waiting' \in Seq(StampedFrame) /\ Len(waiting') = Len(waiting) + 1
          /\ waiting'[Len(waiting) + 1] = <<starts, captured>>
          /\ \A i \in 1..Len(waiting) : waiting'[i] = waiting[i]
      BY <1>1, <3>1
    <3>3. ASSUME NEW i \in 1..Len(waiting')
          PROVE  /\ waiting'[i][1] = starts /\ waiting'[i][2] < captured'
                 /\ \A j \in 1..Len(given) : given[j].frame[2] < waiting'[i][2]
                 /\ \A j \in 1..(i - 1) : waiting'[j][2] < waiting'[i][2]
      <4>1. CASE i \in 1..Len(waiting)
        <5>1. waiting'[i] = waiting[i] /\ \A j \in 1..(i - 1) : waiting'[j] = waiting[j]
          BY <1>1, <3>2, <4>1
        <5> QED BY <2>3, <4>1, <5>1 DEF SourceInv
      <4>2. CASE i \notin 1..Len(waiting)
        <5>1. i = Len(waiting) + 1 /\ waiting'[i] = <<starts, captured>>
              /\ \A j \in 1..(i - 1) : j \in 1..Len(waiting)
          BY <1>1, <3>2, <4>2
        <5>2. waiting'[i][1] = starts /\ waiting'[i][2] = captured /\ captured < captured'
          BY <1>1, <2>1, <5>1
        <5>3. \A j \in 1..(i - 1) : waiting'[j][2] < captured
          BY <2>3, <3>2, <5>1
        <5>4. \A j \in 1..Len(given) : given[j].frame[2] < captured
          BY DEF SourceInv
        <5> QED BY <5>2, <5>3, <5>4
      <4> QED BY <4>1, <4>2
    <3> QED BY <1>1, <2>1, <2>2, <3>2, <3>3 DEF SourceInv
  <2> QED BY <2>4, <2>5
<1>5. CASE GiveFrame
  <2> DEFINE first == Head(waiting)
             one == [frame |-> first, at |-> stamp]
  <2>1. /\ waiting # <<>> /\ waiting' = Tail(waiting) /\ given' = Append(given, one)
        /\ stamp' = stamp + 1 /\ UNCHANGED <<starts, captured>>
    BY <1>5 DEF GiveFrame
  <2>2. /\ 1 \in 1..Len(waiting) /\ first = waiting[1] /\ first \in StampedFrame
    BY <1>1, <2>1
  <2>3. one \in Given /\ one.frame = first /\ one.at = Len(given)
    BY <1>1, <2>2 DEF Given
  <2> HIDE DEF one, first
  <2>4. /\ given' \in Seq(Given) /\ Len(given') = Len(given) + 1
        /\ given'[Len(given) + 1] = one /\ \A j \in 1..Len(given) : given'[j] = given[j]
    BY <1>1, <2>1, <2>3
  <2>5. /\ waiting' \in Seq(StampedFrame) /\ Len(waiting') = Len(waiting) - 1
        /\ \A i \in 1..Len(waiting') : waiting'[i] = waiting[i + 1] /\ i + 1 \in 1..Len(waiting)
    BY <1>1, <2>1
  <2>6. ASSUME NEW i \in 1..Len(waiting')
        PROVE  /\ waiting'[i][1] = starts /\ waiting'[i][2] < captured
               /\ \A j \in 1..Len(given') : given'[j].frame[2] < waiting'[i][2]
               /\ \A j \in 1..(i - 1) : waiting'[j][2] < waiting'[i][2]
    <3>1. waiting'[i] = waiting[i + 1] /\ i + 1 \in 1..Len(waiting) /\ 1 \in 1..(i + 1 - 1)
      BY <1>1, <2>5
    <3>2. \A j \in 1..(i - 1) : waiting'[j] = waiting[j + 1] /\ j + 1 \in 1..(i + 1 - 1)
      BY <1>1, <2>5
    <3>3. /\ waiting[i + 1][1] = starts /\ waiting[i + 1][2] < captured
          /\ \A j \in 1..Len(given) : given[j].frame[2] < waiting[i + 1][2]
          /\ \A j \in 1..(i + 1 - 1) : waiting[j][2] < waiting[i + 1][2]
      BY <3>1 DEF SourceInv
    <3>4. \A j \in 1..Len(given') : j \in 1..Len(given) \/ j = Len(given) + 1
      BY <1>1, <2>4
    <3>5. one.frame[2] < waiting[i + 1][2]
      BY <2>2, <2>3, <3>1, <3>3
    <3>6. \A j \in 1..Len(given') : given'[j].frame[2] < waiting'[i][2]
      BY <2>4, <3>1, <3>3, <3>4, <3>5
    <3> QED BY <3>1, <3>2, <3>3, <3>6
  <2>7. ASSUME NEW j \in 1..Len(given')
        PROVE  /\ given'[j].at = j - 1 /\ given'[j].frame[1] = starts /\ given'[j].frame[2] < captured
               /\ j > 1 => given'[j].frame[2] > given'[j - 1].frame[2]
    <3>1. CASE j \in 1..Len(given)
      <4>1. given'[j] = given[j] /\ (j > 1 => given'[j - 1] = given[j - 1])
        BY <1>1, <2>4, <3>1
      <4> QED BY <3>1, <4>1 DEF SourceInv
    <3>2. CASE j \notin 1..Len(given)
      <4>1. j = Len(given) + 1 /\ given'[j] = one /\ j - 1 = Len(given)
            /\ (j > 1 => j - 1 \in 1..Len(given) /\ given'[j - 1] = given[j - 1])
        BY <1>1, <2>4, <3>2
      <4>2. first[1] = starts /\ first[2] < captured
            /\ \A k \in 1..Len(given) : given[k].frame[2] < first[2]
        BY <2>2 DEF SourceInv
      <4>3. first[2] \in Nat /\ \A k \in 1..Len(given) : given[k].frame[2] \in Nat
        BY <1>0, <2>2 DEF StampedFrame
      <4>4. j > 1 => one.frame[2] > given[j - 1].frame[2]
        BY <2>3, <4>1, <4>2, <4>3
      <4> QED BY <2>3, <4>1, <4>2, <4>4
    <3> QED BY <3>1, <3>2
  <2>8. stamp' = Len(given')
    BY <1>1, <2>1, <2>4
  <2> QED BY <1>1, <2>1, <2>4, <2>5, <2>6, <2>7, <2>8 DEF SourceInv
<1>6. CASE UNCHANGED <<starts, captured, waiting, stamp, given>>
  BY <1>6 DEF SourceInv
<1> QED
  BY <1>2, <1>3, <1>4, <1>5, <1>6
  DEF SourceNext, CaptureThreadEnds, ReadFrame, NoFrameYet, readerVars, sourceSideVars

-----------------------------------------------------------------------------
(* BluetoothLibrary: what a call has seen when it says Ok. *)

\* The stages of the calls, and what has been so by each of them.
Stages ==
  /\ call.name = "pair" => call.at \in {"pair", "auto-trust", "returned"}
  /\ call.name = "pair_and_connect" => call.at \in {"pair", "auto-trust", "trust", "connect", "returned"}
  /\ call.name \in {"connect", "disconnect", "remove"} => call.at \in {call.name, "returned"}
  /\ call.name = "make_connectable" => call.at \in Modes \cup {"returned"}
  /\ call.name \in {"scan", "wait_for_connection"} => call.at \in {"list", "discover", "listen", "returned"}
  /\ call.name = "auto_install" => call.at \in {"apt", "bluez", "bluealsa", "verify", "returned"}
  /\ call.name = "none" => call.at = "returned" /\ ~call.ok

SeenSoFar ==
  /\ call.name = "pair_and_connect" =>
       /\ call.at \in {"auto-trust", "trust", "connect"} => "paired" \in held
       /\ call.at = "connect" => "trusted" \in held
  /\ call.name = "pair" /\ call.at = "auto-trust" => "paired" \in held
  /\ call.at \in {"discoverable", "pairable"} => "powered" \in held
  /\ call.at = "pairable" => "discoverable" \in held
  /\ call.name = "scan" /\ call.at \in {"discover", "listen"} => call.read \subseteq Range(found)

CallIs ==
  /\ DOMAIN call = {"name", "at", "who", "ok", "read"} /\ call.who \in Phones
  /\ call.name \in {"none", "pair", "pair_and_connect", "connect", "disconnect", "remove",
                    "make_connectable", "scan", "wait_for_connection", "auto_install"}

LibraryInv ==
  /\ DOMAIN facts = Phones /\ CallIs
  /\ events \in Seq(Phones) /\ found \in Seq(Phones)
  /\ Stages /\ SeenSoFar /\ OkIsMeant

\* A listing has every phone, once.
LEMMA ListingIs ==
  ASSUME NEW ps \in SUBSET Phones
  PROVE  Listing(ps) \in Seq(ps) /\ Range(Listing(ps)) = ps
<1> DEFINE n == Cardinality(ps)
<1>1. IsFiniteSet(ps) /\ n \in Nat /\ ExistsBijection(1..n, ps)
  BY BluetoothLibraryAssumption, FS_Subset, FS_CardinalityType DEF BluetoothLibraryAssumption
<1> HIDE DEF n
<1>2. PICK f : f \in Bijection(1..n, ps)
  BY <1>1 DEF ExistsBijection
<1>3. f \in {g \in [1..n -> ps] : \A i, j \in 1..n : i # j => g[i] # g[j]}
  BY <1>2 DEF Bijection, Injection, Surjection, IsInjective
<1>4. SetToSeqs(ps) = {g \in [1..n -> ps] : \A i, j \in 1..n : i # j => g[i] # g[j]}
  BY Zenon DEF SetToSeqs, n
<1>5. Listing(ps) \in SetToSeqs(ps)
  BY <1>3, <1>4 DEF Listing
<1> DEFINE l == Listing(ps)
<1> HIDE DEF l
<1>6. l \in [1..n -> ps] /\ \A i, j \in 1..n : i # j => l[i] # l[j]
  BY <1>4, <1>5 DEF l
<1>7. l \in Injection(1..n, ps)
  BY <1>6 DEF Injection, IsInjective
<1>8. IsFiniteSet(1..n) /\ Cardinality(1..n) = n
  <2>1. Cardinality(1..n) = IF 1 > n THEN 0 ELSE n - 1 + 1
    BY <1>1, FS_Interval
  <2>2. (IF 1 > n THEN 0 ELSE n - 1 + 1) = n
    BY <1>1
  <2> QED BY <1>1, <2>1, <2>2, FS_Interval
<1>9. l \in Surjection(1..n, ps)
  BY <1>1, <1>7, <1>8, FS_Injection DEF n
<1>10. l \in Seq(ps)
  BY <1>1, <1>6
<1>11. Range(l) = ps
  BY <1>6, <1>9 DEF Surjection, Range
<1> QED BY <1>10, <1>11 DEF l

LEMMA CallGoes ==
  ASSUME LibraryInv, NEW at
  PROVE  /\ [call EXCEPT !.at = at].name = call.name /\ [call EXCEPT !.at = at].at = at
         /\ [call EXCEPT !.at = at].who = call.who /\ [call EXCEPT !.at = at].ok = call.ok
         /\ [call EXCEPT !.at = at].read = call.read
         /\ DOMAIN [call EXCEPT !.at = at] = DOMAIN call
  BY DEF LibraryInv, CallIs

LEMMA CallReturns ==
  ASSUME LibraryInv, NEW ok
  PROVE  /\ [call EXCEPT !.at = "returned", !.ok = ok].name = call.name
         /\ [call EXCEPT !.at = "returned", !.ok = ok].at = "returned"
         /\ [call EXCEPT !.at = "returned", !.ok = ok].who = call.who
         /\ [call EXCEPT !.at = "returned", !.ok = ok].ok = ok
         /\ [call EXCEPT !.at = "returned", !.ok = ok].read = call.read
         /\ DOMAIN [call EXCEPT !.at = "returned", !.ok = ok] = DOMAIN call
  BY DEF LibraryInv, CallIs

\* What one step does to a call that goes on, or returns.
Same == call'.name = call.name /\ call'.who = call.who /\ call'.read = call.read
        /\ DOMAIN call' = DOMAIN call

\* What the call has seen after it.
Seen ==
  /\ held \subseteq held' /\ facts'[call.who] \subseteq held' /\ modes' \subseteq held'
  /\ "connected" \notin facts'[call.who] => "apart" \in held'
  /\ facts'[call.who] = {} => "forgotten" \in held'

LEMMA Moves ==
  ASSUME LibraryInv
  PROVE  /\ \A at : Goes(at) => Same /\ call'.at = at /\ call'.ok = call.ok /\ Seen
         /\ \A ok : Returns(ok) => Same /\ call'.at = "returned" /\ call'.ok = ok /\ Seen
<1>1. Gathers => Seen
  BY DEF Gathers, Says, Seen
<1>2. ASSUME NEW at, Goes(at)
      PROVE  Same /\ call'.at = at /\ call'.ok = call.ok /\ Seen
  BY <1>1, <1>2, CallGoes DEF Goes, Same
<1>3. ASSUME NEW ok, Returns(ok)
      PROVE  Same /\ call'.at = "returned" /\ call'.ok = ok /\ Seen
  BY <1>1, <1>3, CallReturns DEF Returns, Same
<1> QED BY <1>2, <1>3

LEMMA Became ==
  ASSUME LibraryInv, NEW fs
  PROVE  /\ Becomes(fs) => facts'[call.who] = fs /\ DOMAIN facts' = Phones
         /\ UNCHANGED blueZ => facts'[call.who] = Its /\ DOMAIN facts' = Phones
  BY DEF LibraryInv, CallIs, Becomes, blueZ, Its

\* A step that keeps listing, events and sink.
LEMMA CallStep ==
  ASSUME LibraryInv, UNCHANGED heardOf, DOMAIN facts' = Phones, Same,
         Stages', SeenSoFar', OkIsMeant'
  PROVE  LibraryInv'
  BY DEF LibraryInv, CallIs, Same, heardOf

LEMMA FailingKeeps == LibraryInv /\ RequestFails => LibraryInv'
<1> SUFFICES ASSUME LibraryInv, RequestFails PROVE LibraryInv'
  OBVIOUS
<1>1. Same /\ call'.at = "returned" /\ call'.ok = FALSE /\ DOMAIN facts' = Phones /\ UNCHANGED heardOf
  BY Moves, Became DEF RequestFails
<1>2. Stages' /\ SeenSoFar'
  BY <1>1 DEF LibraryInv, Stages, SeenSoFar, Same, CallIs, RequestFails, Service, Modes
<1>3. OkIsMeant'
  BY <1>1 DEF OkIsMeant, Answered, LibraryInv, heardOf
<1> QED BY <1>1, <1>2, <1>3, CallStep

LEMMA PairingKeeps ==
  LibraryInv /\ (PairFirst \/ AutoTrust \/ TrustNext \/ ConnectLast \/ DisconnectIt \/ ForgetPhone) => LibraryInv'
<1> SUFFICES ASSUME LibraryInv,
                    PairFirst \/ AutoTrust \/ TrustNext \/ ConnectLast \/ DisconnectIt \/ ForgetPhone
             PROVE  LibraryInv'
  OBVIOUS
<1>1. /\ Stages /\ SeenSoFar /\ OkIsMeant /\ CallIs
  BY DEF LibraryInv
<1>2. CASE PairFirst
  <2>1. /\ Same /\ DOMAIN facts' = Phones /\ UNCHANGED heardOf /\ held \subseteq held' /\ "paired" \in held'
        /\ call.at = "pair"
        /\ \/ call.name = "pair" /\ call'.at = "returned"
           \/ call.name # "pair" /\ call'.at = "trust"
           \/ call'.at = "auto-trust"
    <3>1. CASE "paired" \in Its /\ UNCHANGED blueZ /\ IF call.name = "pair" THEN Returns(TRUE) ELSE Goes("trust")
      <4>1. facts'[call.who] = Its /\ DOMAIN facts' = Phones
        BY <3>1, Became
      <4> QED BY <1>2, <3>1, <4>1, Moves DEF PairFirst, Seen
    <3>2. CASE Becomes(Its \cup {"paired"}) /\ Goes("auto-trust")
      <4>1. "paired" \in facts'[call.who] /\ DOMAIN facts' = Phones
        BY <3>2, Became
      <4> QED BY <1>2, <3>2, <4>1, Moves DEF PairFirst, Seen
    <3> QED BY <1>2, <3>1, <3>2 DEF PairFirst
  <2>2. Stages' /\ SeenSoFar'
    BY <1>1, <2>1 DEF Stages, SeenSoFar, Same, CallIs, Modes
  <2>3. OkIsMeant'
    BY <1>1, <2>1 DEF OkIsMeant, Answered, heardOf, Same, Stages
  <2> QED BY <2>1, <2>2, <2>3, CallStep
<1>3. CASE AutoTrust
  <2>1. /\ Same /\ DOMAIN facts' = Phones /\ UNCHANGED heardOf /\ held \subseteq held'
        /\ call.at = "auto-trust"
        /\ \/ call.name = "pair" /\ call'.at = "returned"
           \/ call.name # "pair" /\ call'.at = "trust"
    BY <1>3, Moves, Became DEF AutoTrust, Its, Seen
  <2>2. Stages' /\ SeenSoFar'
    BY <1>1, <2>1 DEF Stages, SeenSoFar, Same, CallIs, Modes
  <2>3. OkIsMeant'
    BY <1>1, <2>1 DEF OkIsMeant, Answered, heardOf, Same, Stages, SeenSoFar
  <2> QED BY <2>1, <2>2, <2>3, CallStep
<1>4. CASE TrustNext
  <2>1. /\ Same /\ DOMAIN facts' = Phones /\ UNCHANGED heardOf /\ held \subseteq held' /\ "trusted" \in held'
        /\ call.at = "trust" /\ call'.at = "connect"
    BY <1>4, Moves, Became DEF TrustNext, Its, Seen
  <2>2. Stages' /\ SeenSoFar'
    BY <1>1, <2>1 DEF Stages, SeenSoFar, Same, CallIs, Modes
  <2>3. OkIsMeant'
    BY <1>1, <2>1 DEF OkIsMeant, Answered, heardOf, Same
  <2> QED BY <2>1, <2>2, <2>3, CallStep
<1>5. CASE ConnectLast
  <2>1. /\ Same /\ DOMAIN facts' = Phones /\ UNCHANGED heardOf /\ held \subseteq held' /\ "connected" \in held'
        /\ call.at = "connect" /\ call'.at = "returned"
    <3>1. Returns(TRUE) /\ call.at = "connect" /\ UNCHANGED heardOf
      BY <1>5 DEF ConnectLast
    <3>2. "connected" \in facts'[call.who] /\ DOMAIN facts' = Phones
      BY <1>5, Became DEF ConnectLast, Its
    <3> QED BY <3>1, <3>2, Moves DEF Seen
  <2>2. Stages' /\ SeenSoFar'
    BY <1>1, <2>1 DEF Stages, SeenSoFar, Same, CallIs, Modes
  <2>3. OkIsMeant'
    BY <1>1, <2>1 DEF OkIsMeant, Answered, heardOf, Same, Stages, SeenSoFar, CallIs, Modes
  <2> QED BY <2>1, <2>2, <2>3, CallStep
<1>6. CASE DisconnectIt
  <2>1. /\ Same /\ DOMAIN facts' = Phones /\ UNCHANGED heardOf /\ held \subseteq held'
        /\ call.at = "disconnect" /\ call'.at = "returned" /\ ("apart" \in held' \/ "unasked" \in held')
    <3>1. CASE Becomes(Its \ {"connected"}) /\ Returns(TRUE)
      <4>1. "connected" \notin facts'[call.who] /\ DOMAIN facts' = Phones
        BY <3>1, Became
      <4> QED BY <1>6, <3>1, <4>1, Moves DEF DisconnectIt, Seen
    <3>2. CASE "connected" \notin Its /\ UNCHANGED blueZ /\ Returns(TRUE)
      <4>1. "connected" \notin facts'[call.who] /\ DOMAIN facts' = Phones
        BY <3>2, Became
      <4> QED BY <1>6, <3>2, <4>1, Moves DEF DisconnectIt, Seen
    <3>3. CASE /\ UNCHANGED blueZ /\ held' = held \cup {"unasked"}
               /\ call' = [call EXCEPT !.at = "returned", !.ok = TRUE]
      BY <1>6, <3>3, CallReturns, Became DEF DisconnectIt, Same
    <3> QED BY <1>6, <3>1, <3>2, <3>3 DEF DisconnectIt
  <2>2. Stages' /\ SeenSoFar' /\ call.name = "disconnect"
    BY <1>1, <2>1 DEF Stages, SeenSoFar, Same, CallIs, Modes
  <2>3. OkIsMeant'
    BY <1>1, <2>1, <2>2 DEF OkIsMeant, Answered, heardOf, Same
  <2> QED BY <2>1, <2>2, <2>3, CallStep
<1>7. CASE ForgetPhone
  <2>1. /\ Same /\ DOMAIN facts' = Phones /\ UNCHANGED heardOf /\ held \subseteq held'
        /\ call.at = "remove" /\ call'.at = "returned" /\ "forgotten" \in held'
    BY <1>7, Moves, Became DEF ForgetPhone, Seen
  <2>2. Stages' /\ SeenSoFar' /\ call.name = "remove"
    BY <1>1, <2>1 DEF Stages, SeenSoFar, Same, CallIs, Modes
  <2>3. OkIsMeant'
    BY <1>1, <2>1, <2>2 DEF OkIsMeant, Answered, heardOf, Same
  <2> QED BY <2>1, <2>2, <2>3, CallStep
<1> QED BY <1>2, <1>3, <1>4, <1>5, <1>6, <1>7

LEMMA TurningOnKeeps == LibraryInv /\ TurnOn => LibraryInv'
<1> SUFFICES ASSUME LibraryInv, TurnOn PROVE LibraryInv'
  OBVIOUS
<1>1. Stages /\ SeenSoFar /\ OkIsMeant /\ CallIs
  BY DEF LibraryInv
<1>2. /\ call.at \in Modes /\ modes' = modes \cup {call.at} /\ DOMAIN facts' = Phones /\ UNCHANGED heardOf
      /\ \/ call.at = "powered" /\ Goes("discoverable")
         \/ call.at = "discoverable" /\ Goes("pairable")
         \/ call.at = "pairable" /\ Returns(TRUE)
  BY DEF TurnOn, Modes, LibraryInv
<1>3. /\ Same /\ held \subseteq held' /\ call.at \in held'
      /\ \/ call.at = "powered" /\ call'.at = "discoverable"
         \/ call.at = "discoverable" /\ call'.at = "pairable"
         \/ call.at = "pairable" /\ call'.at = "returned"
  BY <1>2, Moves DEF Seen
<1>4. call.name = "make_connectable"
  BY <1>1, <1>2 DEF Stages, CallIs, Modes
<1>5. Stages' /\ SeenSoFar'
  BY <1>1, <1>3, <1>4 DEF Stages, SeenSoFar, Same, CallIs, Modes
<1>6. OkIsMeant'
  BY <1>1, <1>2, <1>3, <1>4 DEF OkIsMeant, Answered, heardOf, Same, SeenSoFar, Modes
<1> QED BY <1>2, <1>3, <1>5, <1>6, CallStep

LEMMA InstallingKeeps ==
  LibraryInv /\ (HasApt \/ Provide("bluez", "bluealsa") \/ Provide("bluealsa", "verify") \/ Verify)
    => LibraryInv'
<1> SUFFICES ASSUME LibraryInv,
                    HasApt \/ Provide("bluez", "bluealsa") \/ Provide("bluealsa", "verify") \/ Verify
             PROVE  LibraryInv'
  OBVIOUS
<1>1. Stages /\ SeenSoFar /\ OkIsMeant /\ CallIs
  BY DEF LibraryInv
<1>2. CASE Verify
  <2>1. /\ Same /\ DOMAIN facts' = Phones /\ UNCHANGED heardOf /\ call.at = "verify"
        /\ call'.at = "returned" /\ (call'.ok => services = AllRunning) /\ UNCHANGED services
    BY <1>2, Moves, Became DEF Verify
  <2>2. call.name = "auto_install"
    BY <1>1, <2>1 DEF Stages, CallIs, Modes
  <2>3. Stages' /\ SeenSoFar'
    BY <1>1, <2>1, <2>2 DEF Stages, SeenSoFar, Same, CallIs, Modes
  <2>4. OkIsMeant'
    BY <1>1, <2>1, <2>2 DEF OkIsMeant, Answered, heardOf, Same
  <2> QED BY <2>1, <2>3, <2>4, CallStep
<1>3. CASE ~Verify
  <2>1. /\ Same /\ DOMAIN facts' = Phones /\ UNCHANGED heardOf /\ call.at \in {"apt", "bluez", "bluealsa"}
        /\ call'.at \in {"bluez", "bluealsa", "verify"}
    BY <1>3, Moves, Became DEF HasApt, Provide
  <2>2. call.name = "auto_install"
    BY <1>1, <2>1 DEF Stages, CallIs, Modes
  <2>3. Stages' /\ SeenSoFar'
    BY <1>1, <2>1, <2>2 DEF Stages, SeenSoFar, Same, CallIs, Modes
  <2>4. OkIsMeant'
    BY <1>1, <2>1, <2>2 DEF OkIsMeant, Answered, heardOf, Same
  <2> QED BY <2>1, <2>3, <2>4, CallStep
<1> QED BY <1>2, <1>3

LEMMA BeginningKeeps ==
  ASSUME LibraryInv, NEW name, NEW first, NEW who \in Phones, NEW read, BeginCall(name, first, who, read),
         name \in {"pair", "pair_and_connect", "connect", "disconnect", "remove",
                   "make_connectable", "scan", "wait_for_connection", "auto_install"},
         name \in {"pair", "pair_and_connect"} => first = "pair",
         name \in {"connect", "disconnect", "remove"} => first = name,
         name \in {"scan", "wait_for_connection"} => first = "list",
         name = "auto_install" => first = "apt",
         name = "make_connectable" => first = "powered"
  PROVE  LibraryInv'
<1>1. call' = [name |-> name, at |-> first, who |-> who, ok |-> FALSE, read |-> read]
  BY DEF BeginCall
<1>2. call'.name = name /\ call'.at = first /\ ~call'.ok /\ CallIs'
  BY <1>1 DEF CallIs
<1>3. found' \in Seq(Phones) /\ events' \in Seq(Phones) /\ UNCHANGED <<facts, sink>>
  BY DEF BeginCall, blueZ
<1>4. Stages' /\ SeenSoFar'
  BY <1>2 DEF Stages, SeenSoFar, Modes
<1>5. OkIsMeant'
  BY <1>2, <1>3 DEF OkIsMeant, Answered, LibraryInv
<1> QED BY <1>2, <1>3, <1>4, <1>5 DEF LibraryInv

LEMMA BeginsKeep == LibraryInv /\ BeginsCall => LibraryInv'
<1> SUFFICES ASSUME LibraryInv, BeginsCall PROVE LibraryInv'
  OBVIOUS
<1>1. SomePhone \in Phones /\ Known \subseteq Phones
  BY BluetoothLibraryAssumption DEF SomePhone, Known, BluetoothLibraryAssumption
<1>2. CASE BeginCall("auto_install", "apt", SomePhone, services)
  BY <1>1, <1>2, BeginningKeeps
<1>3. CASE BeginCall("make_connectable", "powered", SomePhone, <<>>)
  BY <1>1, <1>3, BeginningKeeps
<1>4. ASSUME NEW name \in {"scan", "wait_for_connection"}, BeginCall(name, "list", SomePhone, <<>>)
      PROVE  LibraryInv'
  BY <1>1, <1>4, BeginningKeeps
<1>5. ASSUME NEW p \in Known, NEW name \in {"pair", "pair_and_connect"}, BeginCall(name, "pair", p, <<>>)
      PROVE  LibraryInv'
  BY <1>1, <1>5, BeginningKeeps
<1>6. ASSUME NEW p \in Known, NEW at \in {"connect", "disconnect", "remove"}, BeginCall(at, at, p, <<>>)
      PROVE  LibraryInv'
  BY <1>1, <1>6, BeginningKeeps
<1> QED BY <1>2, <1>3, <1>4, <1>5, <1>6 DEF BeginsCall

LEMMA ScanningKeeps == LibraryInv /\ (ListKnown \/ Discover \/ ScanHears \/ TimeIsUp) => LibraryInv'
<1> SUFFICES ASSUME LibraryInv, ListKnown \/ Discover \/ ScanHears \/ TimeIsUp PROVE LibraryInv'
  OBVIOUS
<1>1. /\ Stages /\ SeenSoFar /\ OkIsMeant /\ CallIs /\ DOMAIN facts = Phones
      /\ events \in Seq(Phones) /\ found \in Seq(Phones)
  BY DEF LibraryInv
<1>2. Known \subseteq Phones
  BY DEF Known
<1>3. CASE ListKnown /\ "powered" \in modes
  <2> PICK had \in SUBSET Known :
        found' = Listing(had) /\ call' = [call EXCEPT !.at = "discover", !.read = had] /\ Gathers
    BY <1>3 DEF ListKnown
  <2>1. /\ call.name = "scan" /\ call.at = "list" /\ found' = Listing(had)
        /\ call' = [call EXCEPT !.at = "discover", !.read = had]
        /\ UNCHANGED <<services, facts, events, sink>> /\ held \subseteq held'
    BY <1>3 DEF ListKnown, Does, blueZ, Gathers
  <2>2. found' \in Seq(Phones) /\ Range(found') = had
    <3>1. Listing(had) \in Seq(had) /\ Range(Listing(had)) = had
      BY <1>2, ListingIs
    <3>2. Listing(had) \in Seq(Phones)
      BY <1>2, <3>1
    <3> QED BY <2>1, <3>1, <3>2
  <2>3. /\ call'.name = "scan" /\ call'.at = "discover" /\ call'.read = had /\ call'.who = call.who
        /\ DOMAIN call' = DOMAIN call
    BY <1>1, <2>1 DEF CallIs
  <2>4. Stages' /\ SeenSoFar' /\ CallIs'
    BY <1>1, <2>2, <2>3 DEF Stages, SeenSoFar, CallIs, Modes
  <2>5. OkIsMeant'
    BY <1>1, <2>1, <2>3 DEF OkIsMeant, Answered
  <2> QED BY <1>1, <2>1, <2>2, <2>4, <2>5 DEF LibraryInv
<1>4. CASE ListKnown /\ ~("powered" \in modes)
  <2>1. /\ Same /\ DOMAIN facts' = Phones /\ UNCHANGED heardOf /\ held \subseteq held'
        /\ call.name = "scan" /\ call'.at = "returned" /\ ~call'.ok
    BY <1>4, Moves, Became DEF ListKnown, Does, heardOf, Seen
  <2>2. Stages' /\ SeenSoFar'
    BY <1>1, <2>1 DEF Stages, SeenSoFar, Same, CallIs, Modes
  <2>3. OkIsMeant'
    BY <1>1, <2>1 DEF OkIsMeant, Answered, heardOf
  <2> QED BY <2>1, <2>2, <2>3, CallStep
<1>5. CASE Discover
  <2>1. /\ Same /\ DOMAIN facts' = Phones /\ UNCHANGED <<found, sink, services>> /\ held \subseteq held'
        /\ call.at = "discover" /\ call'.at = "listen" /\ call'.ok = call.ok
    BY <1>5, Moves, Became DEF Discover, Seen
  <2>2. events' \in Seq(Phones)
    <3>1. Listing(Known) \in Seq(Known)
      BY <1>2, ListingIs
    <3>2. Listing(Known) \in Seq(Phones) /\ <<>> \in Seq(Phones)
      BY <1>2, <3>1
    <3> QED BY <1>5, <3>2 DEF Discover
  <2>3. Stages' /\ SeenSoFar' /\ CallIs'
    BY <1>1, <2>1 DEF Stages, SeenSoFar, Same, CallIs, Modes
  <2>4. OkIsMeant'
    BY <1>1, <2>1 DEF OkIsMeant, Answered, Same
  <2> QED BY <1>1, <2>1, <2>2, <2>3, <2>4 DEF LibraryInv
<1>6. CASE ScanHears
  <2>1. /\ UNCHANGED <<services, facts, call, held, sink>> /\ call.at = "listen" /\ events # <<>>
        /\ events' = Tail(events) /\ Head(events) \in Phones
        /\ found' = found \/ found' = Append(found, Head(events))
    BY <1>1, <1>6 DEF ScanHears, Does, blueZ
  <2>2. events' \in Seq(Phones) /\ found' \in Seq(Phones)
    BY <1>1, <2>1
  <2>3. Range(found) \subseteq Range(found')
    <3>1. CASE found' = Append(found, Head(events))
      <4>1. \A i \in DOMAIN found : i \in DOMAIN found' /\ found'[i] = found[i]
        BY <1>1, <2>1, <3>1
      <4> QED BY <4>1 DEF Range
    <3> QED BY <2>1, <3>1
  <2>4. Stages' /\ SeenSoFar' /\ CallIs' /\ OkIsMeant'
    BY <1>1, <2>1, <2>3 DEF Stages, SeenSoFar, CallIs, OkIsMeant, Answered
  <2> QED BY <1>1, <2>1, <2>2, <2>4 DEF LibraryInv
<1>7. CASE TimeIsUp
  <2>1. /\ Same /\ DOMAIN facts' = Phones /\ UNCHANGED heardOf /\ held \subseteq held'
        /\ call.at = "listen" /\ call'.at = "returned" /\ call'.ok = (call.name = "scan")
    BY <1>7, Moves, Became DEF TimeIsUp, Seen
  <2>2. Stages' /\ SeenSoFar'
    BY <1>1, <2>1 DEF Stages, SeenSoFar, Same, CallIs, Modes
  <2>3. OkIsMeant'
    BY <1>1, <2>1 DEF OkIsMeant, Answered, heardOf, Same, SeenSoFar
  <2> QED BY <2>1, <2>2, <2>3, CallStep
<1> QED BY <1>3, <1>4, <1>5, <1>6, <1>7

LEMMA WaitingKeeps == LibraryInv /\ (FindConnected \/ SinkHears) => LibraryInv'
<1> SUFFICES ASSUME LibraryInv, FindConnected \/ SinkHears PROVE LibraryInv'
  OBVIOUS
<1>1. /\ Stages /\ SeenSoFar /\ OkIsMeant /\ CallIs /\ DOMAIN facts = Phones
      /\ events \in Seq(Phones) /\ found \in Seq(Phones)
  BY DEF LibraryInv
<1>2. call.name = "wait_for_connection" /\ UNCHANGED <<services, facts, found>>
  BY DEF FindConnected, SinkHears, Does, blueZ
<1>3. events' \in Seq(Phones)
  BY <1>1 DEF FindConnected, SinkHears
<1>4. ASSUME NEW p \in Phones, "connected" \in facts[p], Returning(p),
             sink' = [state |-> "Connected", of |-> {p}]
      PROVE  LibraryInv'
  <2>1. call' = [call EXCEPT !.at = "returned", !.ok = TRUE, !.who = p]
    BY <1>4 DEF Returning
  <2>2. call'.name = call.name /\ call'.at = "returned" /\ call'.who = p /\ DOMAIN call' = DOMAIN call
    BY <1>1, <2>1 DEF CallIs
  <2>3. Stages' /\ SeenSoFar' /\ CallIs'
    BY <1>1, <1>2, <2>2 DEF Stages, SeenSoFar, CallIs, Modes
  <2>4. OkIsMeant'
    BY <1>2, <1>4, <2>2 DEF OkIsMeant, Answered, Returning, Says
  <2> QED BY <1>1, <1>2, <1>3, <2>3, <2>4 DEF LibraryInv
<1>5. ASSUME Goes("discover"), call.at = "list", UNCHANGED sink PROVE LibraryInv'
  <2>1. Same /\ call'.at = "discover" /\ call'.ok = call.ok
    BY <1>5, Moves
  <2>2. Stages' /\ SeenSoFar' /\ CallIs' /\ OkIsMeant'
    BY <1>1, <1>2, <1>5, <2>1 DEF Stages, SeenSoFar, Same, CallIs, Modes, OkIsMeant, Answered
  <2> QED BY <1>1, <1>2, <1>3, <2>2 DEF LibraryInv
<1>6. ASSUME UNCHANGED <<call, held, sink>> PROVE LibraryInv'
  BY <1>1, <1>2, <1>3, <1>6 DEF LibraryInv, Stages, SeenSoFar, CallIs, OkIsMeant, Answered
<1>7. CASE FindConnected
  BY <1>4, <1>5, <1>7 DEF FindConnected, Does, Known
<1>8. CASE SinkHears
  <2>1. Head(events) \in Phones
    BY <1>1, <1>8 DEF SinkHears
  <2> QED BY <1>4, <1>6, <1>8, <2>1 DEF SinkHears
<1> QED BY <1>7, <1>8

LEMMA LibraryStepKeeps == LibraryInv /\ [LibraryNext]_libraryVars => LibraryInv'
<1> SUFFICES ASSUME LibraryInv, [LibraryNext]_libraryVars PROVE LibraryInv'
  OBVIOUS
<1>1. CASE Changes
  <2>1. UNCHANGED <<call, found, sink, services>> /\ held \subseteq held' /\ DOMAIN facts' = Phones
    BY <1>1 DEF Changes, Gathers, LibraryInv
  <2>2. events' \in Seq(Phones)
    BY <1>1 DEF Changes, LibraryInv
  <2>3. Stages' /\ SeenSoFar' /\ CallIs' /\ OkIsMeant'
    BY <2>1 DEF LibraryInv, Stages, SeenSoFar, CallIs, OkIsMeant, Answered
  <2> QED BY <2>1, <2>2, <2>3 DEF LibraryInv
<1>2. CASE SetSink
  <2>1. UNCHANGED <<call, held, found, events, facts, services>> /\ ((sink'.state = "Disconnected") = (sink'.of = {}))
    <3>1. CASE sink' = [state |-> "Disconnected", of |-> {}]
      BY <1>2, <3>1 DEF SetSink, blueZ
    <3>2. ASSUME NEW state \in {"Streaming", "Connected"}, sink' = [sink EXCEPT !.state = state]
          PROVE  (sink'.state = "Disconnected") = (sink'.of = {})
      BY <1>2, <3>2 DEF SetSink, LibraryInv, OkIsMeant
    <3> QED BY <1>2, <3>1, <3>2 DEF SetSink, blueZ
  <2> QED BY <2>1 DEF LibraryInv, Stages, SeenSoFar, CallIs, OkIsMeant, Answered
<1>3. CASE UNCHANGED libraryVars
  BY <1>3 DEF libraryVars, LibraryInv, Stages, SeenSoFar, CallIs, OkIsMeant, Answered
<1> QED
  BY <1>1, <1>2, <1>3, FailingKeeps, PairingKeeps, TurningOnKeeps, InstallingKeeps, BeginsKeep,
     ScanningKeeps, WaitingKeeps
  DEF LibraryNext

LEMMA FirstLibrary == LibraryInit => LibraryInv
<1> SUFFICES ASSUME LibraryInit PROVE LibraryInv
  OBVIOUS
<1>1. call = [name |-> "none", at |-> "returned", who |-> SomePhone, ok |-> FALSE, read |-> <<>>]
      /\ SomePhone \in Phones
  BY BluetoothLibraryAssumption DEF LibraryInit, SomePhone, BluetoothLibraryAssumption
<1>2. CallIs /\ Stages /\ SeenSoFar
  BY <1>1 DEF CallIs, Stages, SeenSoFar, Modes
<1>3. OkIsMeant
  BY <1>1 DEF OkIsMeant, Answered, LibraryInit
<1> QED BY <1>2, <1>3 DEF LibraryInv, LibraryInit

-----------------------------------------------------------------------------
(* Bluetooth: both. *)

LEMMA FirstSource == SourceInit => SourceInv
<1> SUFFICES ASSUME SourceInit PROVE SourceInv
  OBVIOUS
<1>1. waiting = <<>> /\ given = <<>> /\ waiting \in Seq(StampedFrame) /\ given \in Seq(Given)
      /\ Len(waiting) = 0 /\ Len(given) = 0
  BY DEF SourceInit
<1> QED BY <1>1 DEF SourceInit, SourceInv

LEMMA SourceStep == [Next]_vars => [SourceNext]_sourceSideVars
  BY Zenon DEF Next, vars, sourceSideVars

LEMMA LibraryStep == [Next]_vars => [LibraryNext]_libraryVars
  BY Zenon DEF Next, vars, libraryVars

\* Whatever phones, adapter and requests do during a call of the Bluetooth crate, an Ok says that
\* what was asked for was so at some moment of the call; and whatever captures start, stop, lose
\* frames or die, the frames given are the running capture's in their order and time.
THEOREM BluetoothStaysMeant == Spec => []BluetoothIsMeant
<1>1. Init => LibraryInv /\ SourceInv
  BY FirstLibrary, FirstSource DEF Init
<1>2. LibraryInv /\ SourceInv /\ [Next]_vars => (LibraryInv /\ SourceInv)'
  BY LibraryStep, LibraryStepKeeps, SourceStep, SourceStepKeeps
<1>3. LibraryInv /\ SourceInv => BluetoothIsMeant
  <2>1. LibraryInv => OkIsMeant
    BY DEF LibraryInv
  <2>2. ASSUME SourceInv PROVE SourceKeepsTime
    <3>1. DOMAIN given = 1..Len(given)
      BY <2>2 DEF SourceInv
    <3> QED BY <2>2, <3>1 DEF SourceInv, SourceKeepsTime
  <2> QED BY <2>1, <2>2 DEF BluetoothIsMeant
<1> QED BY <1>1, <1>2, <1>3, PTL DEF Spec

-----------------------------------------------------------------------------
(* Flattening.  FlattenSeq is computed by a recursive function; that the   *)
(* function exists, and is the only one, is by induction.                  *)

Flattens(f, seqs) ==
  f = [i \in 1..Len(seqs) |-> IF i = 1 THEN seqs[i] ELSE f[i - 1] \o seqs[i]]

\* One such function for a sequence, and one for it and another element, agree where both are.
LEMMA FlattensAlike ==
  ASSUME NEW s, NEW t, Len(s) \in Nat, Len(t) \in Nat, Len(s) <= Len(t),
         \A i \in 1..Len(s) : s[i] = t[i],
         NEW f, Flattens(f, s), NEW g, Flattens(g, t)
  PROVE  \A i \in 1..Len(s) : f[i] = g[i]
<1> DEFINE N == {n \in Nat : n \in 1..Len(s) => f[n] = g[n]}
<1>1. 0 \in N
  OBVIOUS
<1>2. ASSUME NEW n \in Nat, n \in N PROVE n + 1 \in N
  <2> SUFFICES ASSUME n + 1 \in 1..Len(s) PROVE f[n + 1] = g[n + 1]
    OBVIOUS
  <2>1. f[n + 1] = IF n + 1 = 1 THEN s[n + 1] ELSE f[(n + 1) - 1] \o s[n + 1]
    BY DEF Flattens
  <2>2. g[n + 1] = IF n + 1 = 1 THEN t[n + 1] ELSE g[(n + 1) - 1] \o t[n + 1]
    <3>1. n + 1 \in 1..Len(t)
      OBVIOUS
    <3> QED BY <3>1 DEF Flattens
  <2>3. CASE n = 0
    BY <2>1, <2>2, <2>3
  <2>4. CASE n # 0
    <3>1. f[n] = g[n] /\ (n + 1) - 1 = n /\ n + 1 # 1 /\ s[n + 1] = t[n + 1]
      BY <1>2, <2>4
    <3> QED BY <2>1, <2>2, <3>1
  <2> QED BY <2>3, <2>4
<1> HIDE DEF N
<1>3. Nat \subseteq N
  BY <1>1, <1>2, EveryNumber
<1> QED BY <1>3 DEF N

LEMMA FlattensExists ==
  ASSUME NEW s, Len(s) \in Nat
  PROVE  \E f : Flattens(f, s)
<1> DEFINE Step(f, i) == IF i = 1 THEN s[i] ELSE f[i - 1] \o s[i]
           N == {n \in Nat : \E f : f = [i \in 1..n |-> Step(f, i)]}
<1>1. 0 \in N
  <2> DEFINE f == [i \in 1..0 |-> 0]
  <2>1. f = [i \in 1..0 |-> Step(f, i)]
    OBVIOUS
  <2> QED BY <2>1
<1>2. ASSUME NEW n \in Nat, n \in N PROVE n + 1 \in N
  <2>1. PICK f : f = [i \in 1..n |-> Step(f, i)]
    BY <1>2
  <2> DEFINE g == [i \in 1..(n + 1) |-> Step(f, i)]
  <2>2. ASSUME NEW i \in 1..n PROVE i \in 1..(n + 1) /\ g[i] = f[i]
    <3>1. i \in 1..(n + 1)
      OBVIOUS
    <3>2. f[i] = Step(f, i)
      BY <2>1, Zenon
    <3> QED BY <3>1, <3>2, Zenon
  <2>3. ASSUME NEW i \in 1..(n + 1) PROVE Step(f, i) = Step(g, i)
    <3>1. i # 1 => i - 1 \in 1..n
      OBVIOUS
    <3> HIDE DEF g
    <3> QED BY <2>2, <3>1
  <2>4. g = [i \in 1..(n + 1) |-> Step(g, i)]
    <3> HIDE DEF Step
    <3> QED BY <2>3
  <2> HIDE DEF g, Step
  <2> QED BY <2>4
<1> HIDE DEF N
<1>3. Len(s) \in N
  BY <1>1, <1>2, EveryNumber
<1> QED BY <1>3 DEF N, Flattens

\* FlattenSeq conforms to the equation that defines it.
LEMMA FlattenIs ==
  ASSUME NEW s, Len(s) \in Nat, NEW f, Flattens(f, s)
  PROVE  FlattenSeq(s) = IF Len(s) = 0 THEN s ELSE f[Len(s)]
<1> DEFINE C == CHOOSE g : g = [i \in 1..Len(s) |-> IF i = 1 THEN s[i] ELSE g[i - 1] \o s[i]]
<1>1. Flattens(C, s)
  BY DEF Flattens
<1>2. Len(s) # 0 => FlattenSeq(s) = C[Len(s)]
  BY Zenon DEF FlattenSeq
<1>3. Len(s) = 0 => FlattenSeq(s) = s
  BY Zenon DEF FlattenSeq
<1> HIDE DEF C
<1>4. Len(s) # 0 => C[Len(s)] = f[Len(s)]
  <2>1. \A i \in 1..Len(s) : C[i] = f[i]
    BY <1>1, FlattensAlike
  <2> QED BY <2>1
<1> QED BY <1>2, <1>3, <1>4

LEMMA FlattenEmpty == FlattenSeq(<<>>) = <<>>
<1>1. Len(<<>>) = 0
  OBVIOUS
<1> QED BY <1>1, Zenon DEF FlattenSeq

LEMMA FlattenType ==
  ASSUME NEW S, NEW s \in Seq(Seq(S))
  PROVE  FlattenSeq(s) \in Seq(S)
<1>1. PICK f : Flattens(f, s)
  BY FlattensExists
<1> DEFINE N == {n \in Nat : n \in 1..Len(s) => f[n] \in Seq(S)}
<1>2. 0 \in N
  OBVIOUS
<1>3. ASSUME NEW n \in Nat, n \in N PROVE n + 1 \in N
  <2> SUFFICES ASSUME n + 1 \in 1..Len(s) PROVE f[n + 1] \in Seq(S)
    OBVIOUS
  <2>1. f[n + 1] = IF n + 1 = 1 THEN s[n + 1] ELSE f[(n + 1) - 1] \o s[n + 1]
    BY <1>1 DEF Flattens
  <2>2. s[n + 1] \in Seq(S)
    OBVIOUS
  <2>3. n # 0 => f[n] \in Seq(S) /\ (n + 1) - 1 = n /\ n + 1 # 1
    BY <1>3
  <2> QED BY <2>1, <2>2, <2>3
<1> HIDE DEF N
<1>4. Nat \subseteq N
  BY <1>2, <1>3, EveryNumber
<1>5. Len(s) \in Nat /\ (Len(s) # 0 => Len(s) \in 1..Len(s)) /\ (Len(s) = 0 => s = <<>>)
  OBVIOUS
<1>6. Len(s) # 0 => f[Len(s)] \in Seq(S)
  BY <1>4, <1>5 DEF N
<1>7. FlattenSeq(s) = IF Len(s) = 0 THEN s ELSE f[Len(s)]
  BY <1>1, <1>5, FlattenIs
<1> QED BY <1>5, <1>6, <1>7

\* One sequence more at the end.
LEMMA FlattenAppend ==
  ASSUME NEW S, NEW s \in Seq(Seq(S)), NEW e \in Seq(S)
  PROVE  FlattenSeq(Append(s, e)) = FlattenSeq(s) \o e
<1> DEFINE t == Append(s, e)
           n == Len(s)
<1>1. n \in Nat /\ t \in Seq(Seq(S)) /\ Len(t) = n + 1 /\ t[n + 1] = e /\ \A i \in 1..n : s[i] = t[i]
  OBVIOUS
<1> HIDE DEF t
<1>2. PICK f : Flattens(f, s)
  BY <1>1, FlattensExists
<1>3. PICK g : Flattens(g, t)
  BY <1>1, FlattensExists
<1>4. FlattenSeq(t) = g[n + 1]
  BY <1>1, <1>3, FlattenIs
<1>5. g[n + 1] = IF n + 1 = 1 THEN e ELSE g[(n + 1) - 1] \o e
  <2>1. n + 1 \in 1..Len(t)
    BY <1>1
  <2> QED BY <1>1, <1>3, <2>1 DEF Flattens
<1>6. CASE n = 0
  <2>1. s = <<>> /\ <<>> \o e = e
    BY <1>6, ConcatEmptySeq
  <2>2. FlattenSeq(s) = <<>>
    BY <2>1, FlattenEmpty
  <2> QED BY <1>4, <1>5, <1>6, <2>1, <2>2 DEF t
<1>7. CASE n # 0
  <2>1. FlattenSeq(s) = f[n]
    BY <1>1, <1>2, <1>7, FlattenIs
  <2>2. \A i \in 1..n : f[i] = g[i]
    <3>1. Len(s) <= Len(t) /\ Len(t) \in Nat /\ Len(s) \in Nat
      BY <1>1
    <3>2. \A i \in 1..Len(s) : s[i] = t[i]
      BY <1>1
    <3>3. \A i \in 1..Len(s) : f[i] = g[i]
      BY ONLY <1>2, <1>3, <3>1, <3>2, FlattensAlike
    <3> QED BY <3>3
  <2>3. f[n] = g[n] /\ (n + 1) - 1 = n /\ n + 1 # 1
    BY <1>1, <1>7, <2>2
  <2> QED BY <1>4, <1>5, <2>1, <2>3 DEF t
<1> QED BY <1>6, <1>7

LEMMA Associates ==
  ASSUME NEW S
  PROVE  \A x, y, z \in Seq(S) : (x \o y) \o z = x \o (y \o z)
  BY ConcatAssociative

\* The first one taken off.
LEMMA FlattenTail ==
  ASSUME NEW S, NEW s \in Seq(Seq(S)), s # <<>>
  PROVE  FlattenSeq(s) = Head(s) \o FlattenSeq(Tail(s))
<1> DEFINE t == Tail(s)
           h == Head(s)
           n == Len(t)
<1>1. /\ n \in Nat /\ t \in Seq(Seq(S)) /\ h \in Seq(S) /\ Len(s) = n + 1 /\ s[1] = h
      /\ \A i \in 1..n : t[i] = s[i + 1] /\ t[i] \in Seq(S)
  OBVIOUS
<1> HIDE DEF t, h
<1>2. PICK f : Flattens(f, s)
  BY <1>1, FlattensExists
<1>3. PICK g : Flattens(g, t)
  BY <1>1, FlattensExists
<1> DEFINE N == {k \in Nat : k \in 1..n => g[k] \in Seq(S) /\ f[k + 1] = h \o g[k]}
<1>4. f[1] = h
  <2>1. 1 \in 1..Len(s)
    BY <1>1
  <2> QED BY <1>1, <1>2, <2>1 DEF Flattens
<1>5. 0 \in N
  OBVIOUS
<1>6. ASSUME NEW k \in Nat, k \in N PROVE k + 1 \in N
  <2> SUFFICES ASSUME k + 1 \in 1..n PROVE g[k + 1] \in Seq(S) /\ f[(k + 1) + 1] = h \o g[k + 1]
    OBVIOUS
  <2>1. g[k + 1] = IF k + 1 = 1 THEN t[k + 1] ELSE g[(k + 1) - 1] \o t[k + 1]
    BY <1>1, <1>3 DEF Flattens
  <2>2. f[k + 2] = f[k + 1] \o t[k + 1]
    <3>1. /\ k + 2 \in 1..Len(s) /\ k + 2 # 1 /\ (k + 2) - 1 = k + 1 /\ (k + 1) + 1 = k + 2
          /\ t[k + 1] = s[(k + 1) + 1]
      BY <1>1
    <3>2. f[k + 2] = IF k + 2 = 1 THEN s[k + 2] ELSE f[(k + 2) - 1] \o s[k + 2]
      BY <1>2, <3>1 DEF Flattens
    <3> QED BY <3>1, <3>2
  <2>3. t[k + 1] \in Seq(S) /\ (k + 1) + 1 = k + 2 /\ h \in Seq(S)
    BY <1>1
  <2>4. CASE k = 0
    <3>1. k + 1 = 1 /\ k + 2 = 2 /\ (k + 1) + 1 = 2
      BY <2>4
    <3>2. g[k + 1] = t[k + 1] /\ f[k + 1] = h
      BY <1>4, <2>1, <3>1
    <3> QED BY <2>2, <2>3, <3>2, Zenon
  <2>5. CASE k # 0
    <3>1. k \in 1..n /\ (k + 1) - 1 = k /\ k + 1 # 1
      BY <1>1, <2>5
    <3>2. g[k] \in Seq(S) /\ f[k + 1] = h \o g[k]
      BY <1>6, <3>1
    <3>3. g[k + 1] = g[k] \o t[k + 1]
      BY <2>1, <3>1
    <3>4. g[k] \o t[k + 1] \in Seq(S)
      BY <2>3, <3>2, ConcatProperties, Zenon
    <3>5. (h \o g[k]) \o t[k + 1] = h \o (g[k] \o t[k + 1])
      <4>1. h \in Seq(S) /\ g[k] \in Seq(S) /\ t[k + 1] \in Seq(S)
        BY <2>3, <3>2
      <4>2. \A x, y, z \in Seq(S) : (x \o y) \o z = x \o (y \o z)
        BY ONLY Associates
      <4>3. \A x, y \in Seq(S) : (h \o x) \o y = h \o (x \o y)
        BY ONLY <4>1, <4>2, Zenon
      <4>4. \A y \in Seq(S) : (h \o g[k]) \o y = h \o (g[k] \o y)
        BY ONLY <4>1, <4>3, Zenon
      <4> QED BY ONLY <4>1, <4>4, Zenon
    <3> QED BY <2>2, <2>3, <3>2, <3>3, <3>4, <3>5, Zenon
  <2> QED BY <2>4, <2>5
<1> HIDE DEF N
<1>7. Nat \subseteq N
  BY <1>5, <1>6, EveryNumber
<1>8. FlattenSeq(s) = f[n + 1]
  BY <1>1, <1>2, FlattenIs
<1>9. CASE n = 0
  <2>1. t = <<>> /\ h \o <<>> = h
    BY <1>1, <1>9, ConcatEmptySeq
  <2>2. FlattenSeq(s) = h
    BY <1>4, <1>8, <1>9
  <2> QED BY <2>1, <2>2, FlattenEmpty, Zenon DEF t, h
<1>10. CASE n # 0
  <2>1. FlattenSeq(t) = g[n]
    BY <1>1, <1>3, <1>10, FlattenIs
  <2>2. f[n + 1] = h \o g[n]
    <3>1. n \in N /\ n \in 1..n
      BY <1>1, <1>7, <1>10
    <3> QED BY <3>1 DEF N
  <2> QED BY <1>8, <2>1, <2>2, Zenon DEF t, h
<1> QED BY <1>9, <1>10

-----------------------------------------------------------------------------
(* Concatenation, as far as the lines of frames need it. *)

Joins(T) == /\ \A x, y, z \in T : (x \o y) \o z = x \o (y \o z)
            /\ \A x, y \in T : x \o y \in T
            /\ <<>> \in T /\ \A x \in T : x \o <<>> = x /\ <<>> \o x = x

LEMMA SeqJoins == ASSUME NEW S PROVE Joins(Seq(S))
<1>1. \A x, y, z \in Seq(S) : (x \o y) \o z = x \o (y \o z)
  BY ConcatAssociative
<1>2. \A x, y \in Seq(S) : x \o y \in Seq(S)
  OBVIOUS
<1>3. <<>> \in Seq(S) /\ \A x \in Seq(S) : x \o <<>> = x /\ <<>> \o x = x
  BY ConcatEmptySeq
<1> QED BY <1>1, <1>2, <1>3, Zenon DEF Joins

\* What a place passes to the one before it stays where it was in the line.
LEMMA FourMove ==
  \A x, f, h, r \in Seq(Nat) : (x \o f) \o (h \o r) = (x \o (f \o h)) \o r
<1> TAKE x \in Seq(Nat), f \in Seq(Nat), h \in Seq(Nat), r \in Seq(Nat)
<1> DEFINE T == Seq(Nat)
           y == x \o f
<1>1. \A u, v, w \in T : (u \o v) \o w = u \o (v \o w)
  BY SeqJoins, Zenon DEF Joins
<1>2. x \in T /\ f \in T /\ h \in T /\ r \in T /\ y \in T
  OBVIOUS
<1> HIDE DEF T
<1>3. y \o h = x \o (f \o h)
  BY ONLY <1>1, <1>2
<1> HIDE DEF y
<1>4. (y \o h) \o r = y \o (h \o r)
  BY ONLY <1>1, <1>2
<1> QED BY ONLY <1>3, <1>4 DEF y

LEMMA RangeJoins ==
  ASSUME NEW S, NEW a \in Seq(S), NEW b \in Seq(S)
  PROVE  Range(a \o b) = Range(a) \cup Range(b)
  BY RangeConcatenation

-----------------------------------------------------------------------------
(* FileFeed: where the frames of a file are. *)

\* The container is read up to the end of a packet.
AtPacket == cursor < Duration => \E k \in Nat : cursor = k * ContainerSize

\* From a place on it has nothing that the resampler uses.
Idle(e) == \A f \in (e + 1)..cursor : ~IsUsed(f)

FileTypes ==
  /\ cursor \in 0..Duration /\ from \in Nat /\ from <= cursor /\ damaged \subseteq 1..cursor
  /\ otherRate \in BOOLEAN /\ AtPacket
  /\ residue \in Seq(Nat) /\ gathered \in Seq(Nat) /\ outgoing \in Seq(Nat)
  /\ encoding \in Seq(Nat) /\ played \in Seq(Nat) /\ buffer \in Seq(Seq(Nat))

EqTypes ==
  /\ gains \in [Band -> Gain] /\ cached \in [Band -> Gain] /\ filters \in [Band -> Gain \X Gain]
  /\ band \in Nat /\ band >= 1

\* Which of the places can hold frames: the encoder is given a packet at most and keeps nothing, a
\* packet is on its way only until it is encoded, and what is left over or being gathered ends
\* where the container was read to, but for the frames no resampler uses.
ResidueEnds == \E e \in 0..cursor : Idle(e) /\ \A i \in 1..Len(residue) : residue[i] + Len(residue) = e + i

GatheredEnds ==
  \E e \in 0..cursor :
    Idle(e) /\ \A i \in 1..Len(gathered) : StreamSize < i => gathered[i] + Len(gathered) = e + i

PlaceInv ==
  /\ encoding = <<>>
  /\ Len(outgoing) <= StreamSize /\ \A i \in 1..Len(buffer) : Len(buffer[i]) <= StreamSize
  /\ lock \notin {"comparing", "tuning", "encoding"} => outgoing = <<>>
  /\ lock = "decoding" => residue = <<>>
  /\ lock # "decoding" => gathered = <<>>
  /\ ResidueEnds /\ GatheredEnds

FileInv == FileTypes /\ EqTypes /\ PlaceInv /\ FileIsPlayed

LEMMA FileConstants ==
  /\ Duration \in Nat /\ ContainerSize \in Nat \ {0} /\ StreamSize \in Nat \ {0} /\ Bands \in Nat \ {0}
  /\ ResamplerChunk \in Nat \ {0}
<1>1. Duration \in {Duration, MaxSeeks, MaxTurns}
      /\ {ContainerSize, StreamSize, ResamplerChunk, Bands}
           \subseteq {ContainerSize, StreamSize, ResamplerChunk, BufferSize, Bands}
  OBVIOUS
<1> QED BY <1>1, FileFeedAssumption, Zenon DEF FileFeedAssumption

\* The ends stay where nothing is read, and nothing ends anywhere.
LEMMA EndsStay ==
  ASSUME UNCHANGED <<otherRate, cursor>>
  PROVE  /\ residue' = residue /\ ResidueEnds => ResidueEnds'
         /\ gathered' = gathered /\ GatheredEnds => GatheredEnds'
<1>1. \A e : Idle(e) => Idle(e)'
  BY DEF Idle, IsUsed
<1>2. ASSUME residue' = residue, ResidueEnds PROVE ResidueEnds'
  <2>1. PICK e \in 0..cursor : Idle(e) /\ \A i \in 1..Len(residue) : residue[i] + Len(residue) = e + i
    BY <1>2 DEF ResidueEnds
  <2>2. e \in 0..cursor' /\ Idle(e)' /\ \A i \in 1..Len(residue') : residue'[i] + Len(residue') = e + i
    BY <1>1, <1>2, <2>1
  <2> QED BY <2>2 DEF ResidueEnds
<1>3. ASSUME gathered' = gathered, GatheredEnds PROVE GatheredEnds'
  <2>1. PICK e \in 0..cursor :
          Idle(e) /\ \A i \in 1..Len(gathered) : StreamSize < i => gathered[i] + Len(gathered) = e + i
    BY <1>3 DEF GatheredEnds
  <2>2. /\ e \in 0..cursor' /\ Idle(e)'
        /\ \A i \in 1..Len(gathered') : StreamSize < i => gathered'[i] + Len(gathered') = e + i
    BY <1>1, <1>3, <2>1
  <2> QED BY <2>2 DEF GatheredEnds
<1> QED BY <1>2, <1>3

LEMMA NothingEnds ==
  ASSUME cursor' \in Nat
  PROVE  /\ residue' = <<>> => ResidueEnds'
         /\ (\A i \in 1..Len(gathered') : ~(StreamSize < i)) => GatheredEnds'
<1>1. cursor' \in 0..cursor' /\ (cursor' + 1)..cursor' = {}
  <2>1. \A n \in Nat : n \in 0..n /\ (n + 1)..n = {}
    OBVIOUS
  <2> QED BY <2>1, Zenon
<1>2. Idle(cursor)'
  BY <1>1, Zenon DEF Idle
<1> QED BY <1>1, <1>2 DEF ResidueEnds, GatheredEnds

\* The line is as long as its parts, and its parts are sequences of frames.
LEMMA LineType ==
  ASSUME FileTypes
  PROVE  /\ FlattenSeq(buffer) \in Seq(Nat) /\ played \o encoding \in Seq(Nat)
         /\ played \o encoding \o outgoing \in Seq(Nat)
         /\ played \o encoding \o outgoing \o FlattenSeq(buffer) \in Seq(Nat)
         /\ played \o encoding \o outgoing \o FlattenSeq(buffer) \o gathered \in Seq(Nat)
         /\ Line \in Seq(Nat)
<1>1. FlattenSeq(buffer) \in Seq(Nat)
  BY FlattenType DEF FileTypes
<1>2. \A x, y \in Seq(Nat) : x \o y \in Seq(Nat)
  OBVIOUS
<1> QED BY <1>1, <1>2, Zenon DEF FileTypes, Line

\* Begin: what was left over is gathered first.
LEMMA BeginStays ==
  ASSUME FileTypes, gathered = <<>>, gathered' = residue, residue' = <<>>,
         UNCHANGED <<played, encoding, outgoing, buffer>>
  PROVE  Line' = Line
<1> DEFINE x == played \o encoding \o outgoing \o FlattenSeq(buffer)
<1>1. x \in Seq(Nat) /\ residue \in Seq(Nat)
  BY LineType DEF FileTypes
<1>2. Line = x \o <<>> \o residue /\ Line' = x \o residue \o <<>>
  BY DEF Line
<1> HIDE DEF x
<1>3. x \o residue \in Seq(Nat)
  BY <1>1
<1>4. x \o <<>> = x /\ (x \o residue) \o <<>> = x \o residue
  BY <1>1, <1>3, SeqJoins DEF Joins
<1> QED BY <1>2, <1>4

\* Push: the first part of what is gathered goes to the buffer's end, the rest is left over.
LEMMA PushStays ==
  ASSUME FileTypes, residue = <<>>, gathered' = <<>>, NEW first \in Seq(Nat), residue' \in Seq(Nat),
         gathered = first \o residue', FlattenSeq(buffer') = FlattenSeq(buffer) \o first,
         UNCHANGED <<played, encoding, outgoing>>
  PROVE  Line' = Line
<1> DEFINE x == played \o encoding \o outgoing
           f == FlattenSeq(buffer)
           r == residue'
<1>1. x \in Seq(Nat) /\ f \in Seq(Nat) /\ r \in Seq(Nat)
  BY LineType
<1>2. Line = x \o f \o (first \o r) \o <<>> /\ Line' = x \o (f \o first) \o <<>> \o r
  BY DEF Line
<1> HIDE DEF x, f, r
<1>3. (x \o f) \o (first \o r) = (x \o (f \o first)) \o r
  <2> DEFINE T == Seq(Nat)
  <2>1. \A u, v, w, z \in T : (u \o v) \o (w \o z) = (u \o (v \o w)) \o z
    BY FourMove, Zenon
  <2>2. x \in T /\ f \in T /\ first \in T /\ r \in T
    BY <1>1
  <2> HIDE DEF T
  <2>3. \A w, z \in T : (x \o f) \o (w \o z) = (x \o (f \o w)) \o z
    BY ONLY <2>1, <2>2, Zenon
  <2> QED BY ONLY <2>2, <2>3, Zenon
<1>4. x \o (f \o first) \in Seq(Nat) /\ (x \o f) \o (first \o r) \in Seq(Nat)
  <2>1. x \o f \in Seq(Nat) /\ first \o r \in Seq(Nat) /\ f \o first \in Seq(Nat)
    BY <1>1
  <2> QED BY <1>1, <2>1
<1>5. \A y \in Seq(Nat) : y \o <<>> = y
  BY SeqJoins DEF Joins
<1> QED BY ONLY <1>2, <1>3, <1>4, <1>5

\* Pop: the first packet of the buffer is on its way.
LEMMA PopStays ==
  ASSUME FileTypes, outgoing = <<>>, outgoing' \in Seq(Nat), FlattenSeq(buffer') \in Seq(Nat),
         FlattenSeq(buffer) = outgoing' \o FlattenSeq(buffer'),
         UNCHANGED <<played, encoding, gathered, residue>>
  PROVE  Line' = Line
<1> DEFINE x == played \o encoding
           o == outgoing'
           f == FlattenSeq(buffer')
<1>1. x \in Seq(Nat) /\ o \in Seq(Nat) /\ f \in Seq(Nat)
  BY LineType
<1>2. Line = x \o <<>> \o (o \o f) \o gathered \o residue /\ Line' = x \o o \o f \o gathered \o residue
  BY DEF Line
<1> HIDE DEF x, o, f
<1>3. x \o (o \o f) = (x \o o) \o f
  <2> DEFINE T == Seq(Nat)
  <2>1. \A u, v, w \in T : (u \o v) \o w = u \o (v \o w)
    BY SeqJoins, Zenon DEF Joins
  <2>2. x \in T /\ o \in T /\ f \in T
    BY <1>1
  <2> HIDE DEF T
  <2> QED BY ONLY <2>1, <2>2
<1>4. x \o <<>> = x
  BY ONLY <1>1, SeqJoins DEF Joins
<1> QED BY ONLY <1>2, <1>3, <1>4

\* Encode: the packet that was on its way has been played.
LEMMA EncodeStays ==
  ASSUME FileTypes, encoding = <<>>, encoding' = <<>>, played' = played \o outgoing, outgoing' = <<>>,
         UNCHANGED <<buffer, gathered, residue>>
  PROVE  Line' = Line
<1> DEFINE x == played \o outgoing
<1>1. x \in Seq(Nat) /\ played \in Seq(Nat)
  BY DEF FileTypes
<1>2. /\ Line = played \o <<>> \o outgoing \o FlattenSeq(buffer) \o gathered \o residue
      /\ Line' = x \o <<>> \o <<>> \o FlattenSeq(buffer) \o gathered \o residue
  BY DEF Line
<1>3. played \o <<>> = played
  BY ONLY <1>1, SeqJoins DEF Joins
<1> HIDE DEF x
<1>4. x \o <<>> = x
  BY ONLY <1>1, SeqJoins DEF Joins
<1> QED BY ONLY <1>2, <1>3, <1>4 DEF x

-----------------------------------------------------------------------------
(* FileFeed: the steps. *)

Plays(line, frames) == Ascends(line) /\ Range(line) = frames

LEMMA RangeIs ==
  ASSUME NEW s \in Seq(Nat)
  PROVE  /\ \A i \in 1..Len(s) : s[i] \in Range(s)
         /\ \A x \in Range(s) : \E i \in 1..Len(s) : x = s[i]
  BY DEF Range

LEMMA AscendsIs ==
  ASSUME NEW s \in Seq(Nat)
  PROVE  Ascends(s) <=> \A i, j \in 1..Len(s) : i < j => s[i] < s[j]
<1>1. DOMAIN s = 1..Len(s)
  OBVIOUS
<1> QED BY <1>1, Zenon DEF Ascends

\* Later frames behind a line that ascends.
LEMMA PlaysOn ==
  ASSUME NEW s \in Seq(Nat), NEW t \in Seq(Nat), NEW F, NEW G, NEW c \in Nat,
         Plays(s, F), Plays(t, G), \A x \in F : x <= c, \A x \in G : x > c
  PROVE  Plays(s \o t, F \cup G)
<1>1. /\ \A i \in 1..Len(s) : s[i] \in Nat /\ s[i] <= c
      /\ \A i \in 1..Len(t) : t[i] \in Nat /\ t[i] > c
  BY RangeIs DEF Plays
<1> DEFINE n == Len(s)
           l == Len(t)
<1>2. /\ \A i, j \in 1..n : i < j => s[i] < s[j]
      /\ \A i, j \in 1..l : i < j => t[i] < t[j]
  BY AscendsIs DEF Plays
<1>3. Ascends(s \o t)
  <2> DEFINE u == s \o t
  <2>1. /\ u \in Seq(Nat) /\ Len(u) = Len(s) + Len(t) /\ Len(s) \in Nat /\ Len(t) \in Nat
        /\ \A i \in 1..Len(u) : u[i] = IF i <= Len(s) THEN s[i] ELSE t[i - Len(s)]
    BY ConcatProperties
  <2> HIDE DEF u
  <2>5. (\A i, j \in 1..Len(u) : i < j => u[i] < u[j]) => Ascends(u)
    BY <2>1, AscendsIs
  <2> SUFFICES ASSUME NEW i \in 1..Len(u), NEW j \in 1..Len(u), i < j PROVE u[i] < u[j]
    BY <2>5, Zenon DEF u
  <2>2. CASE j <= n
    <3>1. i \in 1..n /\ j \in 1..n
      BY <2>1, <2>2
    <3>2. i \in 1..Len(u) /\ j \in 1..Len(u) /\ i <= Len(s) /\ j <= Len(s)
      BY <2>1, <2>2, <3>1
    <3>3. u[i] = s[i] /\ u[j] = s[j]
      BY <2>1, <3>2
    <3> QED BY <1>2, <3>1, <3>3
  <2>3. CASE i > n
    <3>0. n \in Nat /\ l \in Nat /\ n = Len(s) /\ i \in 1..(n + l) /\ j \in 1..(n + l)
      BY <2>1
    <3> HIDE DEF n, l
    <3>1. i - n \in 1..l /\ j - n \in 1..l /\ i - n < j - n /\ ~(i <= Len(s)) /\ ~(j <= Len(s))
      BY <3>0, <2>3
    <3> USE DEF n, l
    <3>2. u[i] = t[i - n] /\ u[j] = t[j - n]
      BY <2>1, <3>1
    <3> QED BY <1>2, <3>1, <3>2
  <2>4. CASE i <= n /\ j > n
    <3>1. i \in 1..n /\ j - n \in 1..l /\ i <= Len(s) /\ ~(j <= Len(s))
      BY <2>1, <2>4
    <3>2. u[i] = s[i] /\ u[j] = t[j - n]
      BY <2>1, <3>1
    <3>3. s[i] \in Nat /\ s[i] <= c /\ t[j - n] \in Nat /\ t[j - n] > c
      BY <1>1, <3>1
    <3> QED BY <3>2, <3>3
  <2>6. i \in Nat /\ j \in Nat /\ n \in Nat /\ i < j
    BY <2>1
  <2> QED BY ONLY <2>2, <2>3, <2>4, <2>6
<1>4. Range(s \o t) = F \cup G
  BY RangeJoins DEF Plays
<1> QED BY <1>3, <1>4 DEF Plays

\* A run of the file's frames.
LEMMA RunPlays ==
  ASSUME NEW s \in Seq(Nat), NEW c \in Nat, \A i \in 1..Len(s) : s[i] = c + i
  PROVE  Plays(s, (c + 1)..(c + Len(s)))
<1>1. Ascends(s)
  <2>1. \A i, j \in 1..Len(s) : i < j => s[i] < s[j]
    OBVIOUS
  <2> QED BY <2>1, AscendsIs
<1>2. ASSUME NEW x \in Range(s) PROVE x \in (c + 1)..(c + Len(s))
  BY <1>2, RangeIs
<1>3. ASSUME NEW x \in (c + 1)..(c + Len(s)) PROVE x \in Range(s)
  <2>1. x - c \in 1..Len(s) /\ s[x - c] = x
    OBVIOUS
  <2> QED BY <2>1, RangeIs
<1> QED BY <1>1, <1>2, <1>3 DEF Plays

CutsAt(s, n, m, a, b) ==
  /\ m = (IF Len(s) < n THEN Len(s) ELSE n)
  /\ a = SubSeq(s, 1, m) /\ b = SubSeq(s, n + 1, Len(s))
  /\ a \in Seq(Nat) /\ Len(a) = m
  /\ b \in Seq(Nat) /\ Len(b) = Len(s) - m
  /\ \A i \in 1..(Len(s) - m) : b[i] = s[n + i]
  /\ s = a \o b

\* What Push cuts off goes to the buffer.
LEMMA Cuts ==
  ASSUME NEW s \in Seq(Nat), NEW n \in Nat,
         NEW m, m = IF Len(s) < n THEN Len(s) ELSE n,
         NEW a, a = SubSeq(s, 1, m), NEW b, b = SubSeq(s, n + 1, Len(s))
  PROVE  CutsAt(s, n, m, a, b)
<1> DEFINE l == Len(s)
<1>1. l \in Nat /\ m \in Nat /\ m <= n /\ m <= l /\ (l > m => m = n)
  OBVIOUS
<1>2. a \in Seq(Nat) /\ Len(a) = m /\ \A i \in 1..m : a[i] = s[i]
  BY <1>1, SMTT(30)
<1>3. b \in Seq(Nat) /\ Len(b) = l - m /\ \A i \in 1..(l - m) : b[i] = s[n + i]
  <2>1. CASE l > m
    <3>1. /\ b \in Seq(Nat)
          /\ Len(b) = IF n + 1 <= l THEN l - (n + 1) + 1 ELSE 0
          /\ \A i \in 1..(l - (n + 1) + 1) : b[i] = s[(n + 1) + i - 1]
      <4>1. n + 1 \in Int /\ l \in Int /\ \A i \in (n + 1)..l : s[i] \in Nat
        BY <1>1
      <4> HIDE DEF l
      <4>2. b = SubSeq(s, n + 1, l)
        BY DEF l
      <4> QED BY <4>1, <4>2, SubSeqProperties
    <3>2. n + 1 <= l /\ l - (n + 1) + 1 = l - m
      BY <1>1, <2>1
    <3> HIDE DEF l
    <3>3. ASSUME NEW i \in 1..(l - m) PROVE b[i] = s[n + i]
      <4>1. (n + 1) + i - 1 = n + i /\ i \in 1..(l - (n + 1) + 1)
        BY <1>1, <3>2
      <4> QED BY <3>1, <4>1
    <3>4. Len(b) = l - m
      BY <3>1, <3>2
    <3> QED BY ONLY <3>1, <3>3, <3>4
  <2>2. CASE l = m
    <3>1. b = <<>>
      <4>1. l < n + 1 /\ n + 1 \in Int /\ l \in Int
        BY <1>1, <2>2
      <4> QED BY <4>1, SubSeqEmpty
    <3>2. Len(b) = 0 /\ l - m = 0 /\ b \in Seq(Nat)
      BY <1>1, <2>2, <3>1
    <3> QED BY ONLY <3>2
  <2>3. l > m \/ l = m
    BY <1>1
  <2> QED BY ONLY <2>1, <2>2, <2>3, Zenon
<1>4. s = a \o b
  <2> DEFINE u == a \o b
  <2>1. /\ u \in Seq(Nat) /\ Len(u) = Len(a) + Len(b)
        /\ \A i \in 1..Len(a) + Len(b) : u[i] = IF i <= Len(a) THEN a[i] ELSE b[i - Len(a)]
    <3>1. a \in Seq(Nat) /\ b \in Seq(Nat)
      BY <1>2, <1>3
    <3> QED BY ONLY <3>1, ConcatProperties
  <2> HIDE DEF u
  <2>2. Len(a) + Len(b) = l
    <3>1. Len(a) = m /\ Len(b) = l - m
      BY ONLY <1>2, <1>3
    <3> HIDE DEF l
    <3> QED BY ONLY <1>1, <3>1
  <2>3. \A i \in 1..l : u[i] = IF i <= m THEN a[i] ELSE b[i - m]
    BY ONLY <1>2, <2>1, <2>2
  <2>4. ASSUME NEW i \in 1..l PROVE s[i] = u[i]
    <3>1. CASE i <= m
      <4>1. i \in 1..m /\ u[i] = a[i]
        BY <1>1, <2>3, <3>1
      <4> QED BY <1>2, <4>1
    <3>2. CASE i > m
      <4>1. i - m \in 1..(l - m) /\ m = n /\ n + (i - m) = i /\ ~(i <= m)
        BY <1>1, <3>2
      <4>2. b[i - m] = s[i]
        BY <1>3, <4>1
      <4>3. u[i] = b[i - m]
        BY <2>3, <4>1
      <4> QED BY <4>2, <4>3
    <3>3. i \in Nat /\ m \in Nat
      BY <1>1
    <3> QED BY ONLY <3>1, <3>2, <3>3
  <2>5. s = u
    BY <2>1, <2>2, <2>4, SeqEqual
  <2> QED BY <2>5 DEF u
<1> QED BY <1>2, <1>3, <1>4 DEF CutsAt

LEMMA CutAt ==
  ASSUME NEW s \in Seq(Nat), NEW n \in Nat
  PROVE  \E m, a, b : CutsAt(s, n, m, a, b)
<1>1. \E m : m = IF Len(s) < n THEN Len(s) ELSE n
  BY Zenon
<1>2. PICK m : m = IF Len(s) < n THEN Len(s) ELSE n
  BY <1>1, Zenon
<1>3. PICK a : a = SubSeq(s, 1, m)
  BY Zenon
<1>4. PICK b : b = SubSeq(s, n + 1, Len(s))
  BY Zenon
<1>5. CutsAt(s, n, m, a, b)
  BY <1>2, <1>3, <1>4, Cuts
<1> QED BY <1>5, Zenon

LEMMA PlaysThroughIs == PlaysThrough <=> (lock # "failed" => Plays(Line, Readable))
  BY Zenon DEF PlaysThrough, Plays

LEMMA SamePlays ==
  ASSUME PlaysThrough, lock' # "failed" => lock # "failed", Line' = Line, Readable' = Readable
  PROVE  PlaysThrough'
<1>1. Ascends(Line)' <=> Ascends(Line')
  BY DEF Ascends
<1>2. Range(Line)' = Range(Line')
  BY DEF Range
<1>3. lock' # "failed" => Ascends(Line') /\ Range(Line') = Readable'
  BY Zenon DEF PlaysThrough
<1> QED BY <1>1, <1>2, <1>3, Zenon DEF PlaysThrough

LEMMA NextPacketIs ==
  ASSUME cursor \in 0..Duration, cursor < Duration
  PROVE  /\ NextPacket \in Seq(Nat) /\ Len(NextPacket) \in Nat \ {0}
         /\ cursor + Len(NextPacket) <= Duration
         /\ \A i \in 1..Len(NextPacket) : NextPacket[i] = cursor + i
         /\ Range(NextPacket) = (cursor + 1)..(cursor + Len(NextPacket))
         /\ Len(NextPacket) <= ContainerSize
         /\ cursor + Len(NextPacket) < Duration => Len(NextPacket) = ContainerSize
<1> DEFINE n == (IF cursor + ContainerSize > Duration THEN Duration ELSE cursor + ContainerSize) - cursor
<1>1. n \in Nat \ {0} /\ cursor + n <= Duration /\ cursor \in Nat
      /\ n <= ContainerSize /\ (cursor + n < Duration => n = ContainerSize)
  BY FileConstants
<1>2. NextPacket = [i \in 1..n |-> cursor + i]
  BY Zenon DEF NextPacket
<1> HIDE DEF n
<1>3. NextPacket \in Seq(Nat) /\ Len(NextPacket) = n /\ \A i \in 1..n : NextPacket[i] = cursor + i
  BY <1>1, <1>2
<1>4. Range(NextPacket) = (cursor + 1)..(cursor + n)
  BY <1>1, <1>3, RunPlays DEF Plays
<1> QED BY <1>1, <1>3, <1>4

\* A packet further is the end of one.
LEMMA PacketEnds ==
  ASSUME FileTypes, cursor < Duration, cursor' = cursor + Len(NextPacket)
  PROVE  AtPacket'
<1> SUFFICES ASSUME cursor' < Duration PROVE \E k \in Nat : cursor' = k * ContainerSize
  BY DEF AtPacket
<1>1. Len(NextPacket) = ContainerSize
  BY NextPacketIs DEF FileTypes
<1>2. PICK k \in Nat : cursor = k * ContainerSize
  BY DEF FileTypes, AtPacket
<1>3. cursor' = (k + 1) * ContainerSize /\ k + 1 \in Nat
  BY <1>1, <1>2, FileConstants
<1> QED BY <1>3

\* Of the next packet the first chunk is used, and no more, if its rate is another.
LEMMA UsedOfNext ==
  ASSUME FileTypes, cursor < Duration, otherRate,
         NEW i \in 1..ContainerSize, ResamplerChunk <= ContainerSize, cursor + i <= Duration
  PROVE  IsUsed(cursor + i) <=> i <= ResamplerChunk
<1> DEFINE c == ContainerSize
           d == ResamplerChunk
<1>1. PICK k \in Nat : cursor = k * c
  BY DEF FileTypes, AtPacket
<1>2. c \in Nat \ {0} /\ d \in Nat \ {0} /\ cursor \in 0..Duration /\ Duration \in Nat /\ d <= c
  BY FileConstants DEF FileTypes
<1>3. ASSUME i <= d PROVE IsUsed(cursor + i)
  <2>1. k \in 0..cursor
    <3>1. k <= k * c
      BY <1>2
    <3> QED BY <1>1, <1>2, <3>1
  <2>2. Begins(cursor)
    BY <1>1, <2>1 DEF Begins
  <2>3. cursor + i \in (cursor + 1)..(cursor + d)
    BY <1>2, <1>3
  <2> QED BY <1>2, <2>2, <2>3 DEF IsUsed
<1>4. ASSUME IsUsed(cursor + i) PROVE i <= d
  <2>1. PICK place \in 0..Duration : Begins(place) /\ cursor + i \in (place + 1)..(place + d)
    BY <1>4 DEF IsUsed
  <2>2. PICK j \in 0..place : place = j * c
    BY <2>1 DEF Begins
  <2>3. j \in Nat /\ place \in Nat
    BY <1>2, <2>1
  <2> DEFINE a == k * c
             b == j * c
  <2>4. CASE j < k
    <3>1. k - j >= 1 /\ k - j \in Int
      BY <2>3, <2>4
    <3>2. (k - j) * c >= c /\ (k - j) * c = k * c - j * c
      BY <1>2, <2>3, <3>1
    <3>3. a - b >= c /\ a \in Nat /\ b \in Nat /\ cursor = a /\ place = b
      BY <1>1, <1>2, <2>2, <2>3, <3>2
    <3> HIDE DEF a, b, c, d
    <3> QED BY <1>2, <2>1, <3>3
  <2>5. CASE k < j
    <3>1. j - k >= 1 /\ j - k \in Int
      BY <2>3, <2>5
    <3>2. (j - k) * c >= c /\ (j - k) * c = j * c - k * c
      BY <1>2, <2>3, <3>1
    <3>3. b - a >= c /\ a \in Nat /\ b \in Nat /\ cursor = a /\ place = b /\ i <= c /\ i \in Nat
      BY <1>1, <1>2, <2>2, <2>3, <3>2
    <3> HIDE DEF a, b, c, d
    <3> QED BY <1>2, <2>1, <3>3
  <2>6. CASE j = k
    <3>1. place = cursor
      BY <1>1, <2>2, <2>6
    <3> QED BY <1>2, <2>1, <3>1
  <2> QED BY <2>3, <2>4, <2>5, <2>6
<1> QED BY <1>3, <1>4

LEMMA ConvertedIs ==
  ASSUME FileTypes, cursor < Duration, ~Refuses
  PROVE  \E m \in 1..Len(NextPacket) :
           /\ Converted \in Seq(Nat) /\ Len(Converted) = m
           /\ \A i \in 1..m : Converted[i] = cursor + i
           /\ \A f \in (cursor + 1)..(cursor + m) : IsUsed(f)
           /\ \A f \in (cursor + m + 1)..(cursor + Len(NextPacket)) : ~IsUsed(f)
<1> DEFINE n == Len(NextPacket)
<1>1. /\ NextPacket \in Seq(Nat) /\ n \in Nat \ {0} /\ cursor + n <= Duration /\ n <= ContainerSize
      /\ \A i \in 1..n : NextPacket[i] = cursor + i
  BY NextPacketIs DEF FileTypes
<1>2. cursor \in Nat /\ Duration \in Nat /\ ContainerSize \in Nat /\ ResamplerChunk \in Nat \ {0}
  BY FileConstants DEF FileTypes
<1> HIDE DEF n
<1>3. CASE ~otherRate
  <2>1. Converted = NextPacket /\ \A f : IsUsed(f)
    BY <1>3 DEF Converted, IsUsed
  <2>2. n \in 1..n /\ \A f \in (cursor + n + 1)..(cursor + n) : FALSE
    BY <1>1, <1>2
  <2> QED BY <1>1, <2>1, <2>2 DEF n
<1>4. CASE otherRate
  <2> DEFINE d == ResamplerChunk
  <2>1. Converted = SubSeq(NextPacket, 1, d) /\ d \in 1..n
    BY <1>1, <1>2, <1>4 DEF Converted, Refuses, n
  <2>2. Converted \in Seq(Nat) /\ Len(Converted) = d /\ \A i \in 1..d : Converted[i] = NextPacket[i]
    BY <1>1, <2>1 DEF n
  <2>3. \A i \in 1..n : IsUsed(cursor + i) <=> i <= d
    <3> SUFFICES ASSUME NEW i \in 1..n PROVE IsUsed(cursor + i) <=> i <= d
      OBVIOUS
    <3>1. i \in 1..ContainerSize /\ ResamplerChunk <= ContainerSize /\ cursor + i <= Duration
      BY <1>1, <1>2, <2>1
    <3> QED BY <1>4, <3>1, UsedOfNext
  <2>4. ASSUME NEW f \in (cursor + 1)..(cursor + n) PROVE IsUsed(f) <=> f <= cursor + d
    <3>1. f - cursor \in 1..n /\ cursor + (f - cursor) = f
      BY <1>1, <1>2
    <3> QED BY <1>2, <2>1, <2>3, <3>1
  <2>5. /\ \A f \in (cursor + 1)..(cursor + d) : IsUsed(f)
        /\ \A f \in (cursor + d + 1)..(cursor + n) : ~IsUsed(f)
    <3> HIDE DEF d
    <3> QED BY <1>1, <1>2, <2>1, <2>4
  <2>6. \A i \in 1..d : Converted[i] = cursor + i
    BY <1>1, <2>1, <2>2
  <2> HIDE DEF d
  <2> QED BY <2>1, <2>2, <2>5, <2>6 DEF n
<1> QED BY <1>3, <1>4

LEMMA FirstFile == FileInit => FileInv
<1> SUFFICES ASSUME FileInit PROVE FileInv
  OBVIOUS
<1>1. FileTypes /\ PlaceInv
  <2>1. 0 \in 0..Duration
    BY FileConstants
  <2>2. FileTypes
    <3>1. 0 = 0 * ContainerSize
      BY FileConstants
    <3>2. AtPacket
      BY <3>1 DEF FileInit, AtPacket
    <3> QED BY <2>1, <3>2 DEF FileInit, FileTypes
  <2>3. PlaceInv
    <3>1. Idle(0) /\ 0 \in 0..cursor
      BY DEF FileInit, Idle
    <3>2. ResidueEnds /\ GatheredEnds
      BY <3>1 DEF FileInit, ResidueEnds, GatheredEnds
    <3> QED BY <3>2, FileConstants DEF FileInit, PlaceInv
  <2> QED BY <2>2, <2>3
<1>2. EqTypes /\ FiltersAgree
  BY FileConstants DEF FileInit, EqTypes, FiltersAgree, Band, Gain
<1>3. PlaysThrough
  <2>1. Line = <<>> \o <<>> \o <<>> \o <<>> \o <<>> \o <<>>
    BY FlattenEmpty, Zenon DEF FileInit, Line
  <2>2. Line = <<>>
    BY <2>1
  <2>3. Readable = {}
    BY DEF FileInit, Readable
  <2> QED BY <2>2, <2>3 DEF PlaysThrough, Ascends, Range
<1> QED BY <1>1, <1>2, <1>3 DEF FileInv, FileIsPlayed

LEMMA BeginKeeps == FileInv /\ Begin => FileInv'
<1> SUFFICES ASSUME FileInv, Begin PROVE FileInv'
  OBVIOUS
<1> USE DEF FileInv, FileIsPlayed
<1>1. FileTypes'
  BY DEF FileTypes, Begin, outVars, AtPacket
<1>2. EqTypes' /\ FiltersAgree'
  BY DEF EqTypes, FiltersAgree, Begin, eqVars, paramVars
<1>3. PlaceInv'
  <2>1. ResidueEnds' /\ GatheredEnds'
    <3>1. residue' = <<>> /\ gathered' = residue /\ UNCHANGED <<cursor, otherRate>> /\ cursor' \in Nat
      BY DEF Begin, FileTypes
    <3>2. PICK e \in 0..cursor : Idle(e) /\ \A i \in 1..Len(residue) : residue[i] + Len(residue) = e + i
      BY DEF PlaceInv, ResidueEnds
    <3>3. Idle(e)' /\ e \in 0..cursor'
      BY <3>1, <3>2 DEF Idle, IsUsed
    <3>4. GatheredEnds'
      BY <3>1, <3>2, <3>3 DEF GatheredEnds
    <3> QED BY <3>1, <3>4, NothingEnds
  <2> QED BY <2>1 DEF FileTypes, PlaceInv, Begin, outVars
<1>4. PlaysThrough'
  <2>1. Line' = Line
    BY BeginStays DEF PlaceInv, Begin, outVars
  <2>2. Readable' = Readable /\ lock # "failed"
    BY DEF Begin, Readable, IsUsed
  <2> QED BY <2>1, <2>2, SamePlays
<1> QED BY <1>1, <1>2, <1>3, <1>4

LEMMA DecodeKeeps == FileInv /\ DecodeFrame => FileInv'
<1> SUFFICES ASSUME FileInv, DecodeFrame PROVE FileInv'
  OBVIOUS
<1> USE DEF FileInv, FileIsPlayed
<1> DEFINE p == Converted
           l == Len(NextPacket)
<1>0. PICK n \in 1..l :
        /\ p \in Seq(Nat) /\ Len(p) = n
        /\ \A i \in 1..n : p[i] = cursor + i
        /\ \A f \in (cursor + 1)..(cursor + n) : IsUsed(f)
        /\ \A f \in (cursor + n + 1)..(cursor + l) : ~IsUsed(f)
  BY ConvertedIs DEF DecodeFrame
<1>1. /\ p \in Seq(Nat) /\ n \in Nat \ {0} /\ l \in Nat /\ n <= l /\ cursor + l <= Duration
      /\ \A i \in 1..n : p[i] = cursor + i
  BY <1>0, NextPacketIs DEF FileTypes, DecodeFrame
<1>2. gathered' = gathered \o p /\ cursor' = cursor + l /\ otherRate' = otherRate
  BY DEF DecodeFrame
<1>3. cursor \in Nat /\ Duration \in Nat /\ gathered \in Seq(Nat)
  BY FileConstants DEF FileTypes
<1>4. n = Len(p)
  BY <1>0
<1>5. FileTypes'
  <2>0. AtPacket' /\ otherRate' \in BOOLEAN
    BY PacketEnds DEF DecodeFrame, FileTypes
  <2> HIDE DEF p, l
  <2>1. cursor' \in 0..Duration /\ gathered' \in Seq(Nat)
    BY <1>1, <1>2, <1>3
  <2>2. damaged \subseteq 1..cursor' /\ from <= cursor'
    BY <1>1, <1>2, <1>3 DEF FileTypes
  <2> QED BY <2>0, <2>1, <2>2 DEF FileTypes, DecodeFrame, outVars
<1> HIDE DEF p, l
<1>6. EqTypes' /\ FiltersAgree'
  BY DEF EqTypes, FiltersAgree, DecodeFrame, eqVars, paramVars
<1>7. PlaceInv'
  <2>1. lock = "decoding" /\ lock' = "decoding" /\ residue = <<>> /\ residue' = <<>>
        /\ Len(gathered) < StreamSize
    BY DEF DecodeFrame, Needs, PlaceInv
  <2>2. ASSUME NEW i \in 1..Len(gathered'), StreamSize < i
        PROVE  gathered'[i] + Len(gathered') = (cursor + n) + i
    <3> DEFINE h == Len(gathered)
    <3>1. h \in Nat /\ Len(gathered') = h + n /\ i \in 1..(h + n) /\ StreamSize \in Nat
      BY <1>1, <1>2, <1>3, <1>4, <2>2, FileConstants
    <3>2. i - h \in 1..n /\ ~(i <= h)
      <4>1. h < StreamSize /\ StreamSize < i
        BY <2>1, <2>2
      <4> HIDE DEF h
      <4> QED BY ONLY <1>1, <3>1, <4>1
    <3>3. gathered'[i] = p[i - h]
      BY <1>1, <1>2, <1>3, <1>4, <3>1, <3>2, ConcatProperties
    <3> HIDE DEF h
    <3>4. gathered'[i] = cursor + (i - h)
      BY <1>1, <3>2, <3>3
    <3> QED BY <1>1, <1>2, <1>3, <3>1, <3>2, <3>4
  <2>3. GatheredEnds'
    <3>1. cursor + n \in 0..cursor'
      BY <1>1, <1>2, <1>3
    <3>2. \A f \in (cursor + n + 1)..cursor' : ~IsUsed(f)'
      BY <1>0, <1>2 DEF IsUsed
    <3> DEFINE e == cursor + n
    <3> HIDE DEF e
    <3>3. \E x : x = e
      OBVIOUS
    <3>4. PICK x : x = e
      BY <3>3
    <3>5. x \in 0..cursor' /\ Idle(x)'
      BY <3>1, <3>2, <3>4 DEF Idle, e
    <3>6. \A i \in 1..Len(gathered') : StreamSize < i => gathered'[i] + Len(gathered') = x + i
      BY <2>2, <3>4 DEF e
    <3> QED BY <3>5, <3>6 DEF GatheredEnds
  <2>4. ResidueEnds'
    BY <1>1, <1>2, <1>3, <2>1, NothingEnds
  <2> QED BY <2>1, <2>3, <2>4 DEF PlaceInv, DecodeFrame, outVars
<1>8. PlaysThrough'
  <2> DEFINE x == played \o encoding \o outgoing \o FlattenSeq(buffer)
  <2>1. x \in Seq(Nat) /\ x \o gathered \in Seq(Nat) /\ residue = <<>> /\ residue' = <<>>
    BY LineType DEF DecodeFrame, Needs, PlaceInv
  <2>2. Line = x \o gathered \o <<>> /\ Line' = x \o (gathered \o p) \o <<>>
    BY <1>2, <2>1, Zenon DEF Line, DecodeFrame, outVars
  <2> HIDE DEF x
  <2>3. x \o (gathered \o p) = (x \o gathered) \o p
    <3> DEFINE T == Seq(Nat)
    <3>1. \A u, v, w \in T : (u \o v) \o w = u \o (v \o w)
      BY SeqJoins, Zenon DEF Joins
    <3>2. x \in T /\ gathered \in T /\ p \in T
      BY <1>1, <1>3, <2>1
    <3> HIDE DEF T
    <3> QED BY ONLY <3>1, <3>2
  <2>4. (x \o gathered) \o p \in Seq(Nat)
    BY <1>1, <2>1
  <2>5. \A y \in Seq(Nat) : y \o <<>> = y
    BY SeqJoins, Zenon DEF Joins
  <2>6. Line = x \o gathered /\ Line' = Line \o p /\ Line \in Seq(Nat)
    BY ONLY <2>1, <2>2, <2>3, <2>4, <2>5
  <2>7. Plays(Line, Readable) /\ Plays(p, (cursor + 1)..(cursor + n))
    <3>1. lock # "failed"
      BY DEF DecodeFrame, Needs
    <3> QED BY <1>1, <1>3, <1>4, <3>1, RunPlays, PlaysThroughIs
  <2>8. Plays(Line \o p, Readable \cup (cursor + 1)..(cursor + n))
    <3>1. \A f \in Readable : f <= cursor
      BY <1>3 DEF Readable, FileTypes
    <3>2. \A f \in (cursor + 1)..(cursor + n) : f > cursor
      BY <1>1, <1>3
    <3> QED BY <1>1, <1>3, <2>6, <2>7, <3>1, <3>2, PlaysOn
  <2>9. Readable' = Readable \cup (cursor + 1)..(cursor + n)
    <3>1. from' = from /\ damaged' = damaged /\ damaged \subseteq 1..cursor /\ from \in Nat /\ from <= cursor
      BY DEF FileTypes, DecodeFrame
    <3>2. \A f : IsUsed(f)' <=> IsUsed(f)
      BY <1>2 DEF IsUsed
    <3>3. \A f \in (from + 1)..(cursor + l) : f <= cursor \/ f \in (cursor + 1)..(cursor + n)
                                            \/ f \in (cursor + n + 1)..(cursor + l)
      BY <1>1, <1>3, <3>1
    <3>4. Readable' = {f \in (from + 1)..(cursor + l) : f \notin damaged /\ IsUsed(f)}
      BY <1>2, <3>1, <3>2 DEF Readable
    <3>5. ASSUME NEW f \in Readable' PROVE f \in Readable \cup (cursor + 1)..(cursor + n)
      <4>1. f \in (from + 1)..(cursor + l) /\ f \notin damaged /\ IsUsed(f) /\ from + 1 <= f /\ f \in Nat
        BY <1>1, <1>3, <3>1, <3>4, <3>5
      <4> QED BY <1>0, <1>1, <1>3, <3>3, <4>1 DEF Readable
    <3>6. ASSUME NEW f \in Readable \cup (cursor + 1)..(cursor + n) PROVE f \in Readable'
      <4>1. CASE f \in Readable
        BY <1>1, <1>3, <3>1, <3>4, <4>1 DEF Readable
      <4>2. CASE f \in (cursor + 1)..(cursor + n)
        BY <1>0, <1>1, <1>3, <3>1, <3>4, <4>2
      <4> QED BY <3>6, <4>1, <4>2
    <3> QED BY <3>5, <3>6
  <2>10. Plays(Line', Readable')
    BY <2>6, <2>8, <2>9
  <2> QED BY <2>10, Zenon DEF Plays, PlaysThrough, Ascends, Range
<1> QED BY <1>5, <1>6, <1>7, <1>8

LEMMA SkipKeeps == FileInv /\ Skip => FileInv'
<1> SUFFICES ASSUME FileInv, Skip PROVE FileInv'
  OBVIOUS
<1> USE DEF FileInv, FileIsPlayed
<1> DEFINE n == Len(NextPacket)
<1>1. /\ n \in Nat \ {0} /\ cursor + n <= Duration
      /\ Range(NextPacket) = (cursor + 1)..(cursor + n)
  BY NextPacketIs DEF FileTypes, Skip
<1>2. cursor' = cursor + n /\ damaged' = damaged \cup (cursor + 1)..(cursor + n)
  BY <1>1 DEF Skip
<1>3. cursor \in Nat /\ Duration \in Nat
  BY FileConstants DEF FileTypes
<1> HIDE DEF n
<1>4. FileTypes'
  <2>0. AtPacket' /\ otherRate' \in BOOLEAN
    BY PacketEnds DEF Skip, FileTypes
  <2>1. cursor' \in 0..Duration
    BY <1>1, <1>2, <1>3
  <2>2. damaged' \subseteq 1..cursor' /\ from <= cursor'
    BY <1>1, <1>2, <1>3 DEF FileTypes
  <2> QED BY <2>0, <2>1, <2>2 DEF FileTypes, Skip, outVars
<1>5. EqTypes' /\ FiltersAgree'
  BY DEF EqTypes, FiltersAgree, Skip, eqVars, paramVars
<1>6. PlaceInv'
  <2>1. residue = <<>> /\ residue' = <<>> /\ gathered' = gathered /\ lock = "decoding" /\ lock' = lock
        /\ Len(gathered) < StreamSize /\ StreamSize \in Nat /\ Len(gathered) \in Nat
    BY FileConstants DEF Skip, Needs, PlaceInv, FileTypes
  <2>2. \A i \in 1..Len(gathered) : ~(StreamSize < i)
    BY <2>1
  <2>3. ResidueEnds' /\ GatheredEnds'
    <3>1. cursor' \in Nat /\ \A i \in 1..Len(gathered') : ~(StreamSize < i)
      BY <1>1, <1>2, <1>3, <2>1, <2>2
    <3> QED BY <2>1, <3>1, NothingEnds
  <2> QED BY <2>1, <2>3 DEF PlaceInv, Skip, outVars
<1>7. PlaysThrough'
  <2>1. Line' = Line
    BY DEF Line, Skip, outVars
  <2>2. Readable' = Readable
    <3>1. from' = from /\ damaged \subseteq 1..cursor /\ from \in Nat /\ from <= cursor
      BY DEF FileTypes, Skip
    <3>2. \A f : IsUsed(f)' <=> IsUsed(f)
      BY DEF Skip, IsUsed
    <3>3. /\ Readable = {f \in (from + 1)..cursor : f \notin damaged /\ IsUsed(f)}
          /\ Readable' = {f \in (from + 1)..(cursor + n) :
                            f \notin damaged \cup (cursor + 1)..(cursor + n) /\ IsUsed(f)}
      BY <1>2, <3>1, <3>2 DEF Readable
    <3> QED BY <1>1, <1>3, <3>1, <3>3
  <2>3. lock # "failed"
    BY DEF Skip, Needs
  <2> QED BY <2>1, <2>2, <2>3, SamePlays
<1> QED BY <1>4, <1>5, <1>6, <1>7

LEMMA PushKeeps == FileInv /\ Push => FileInv'
<1> SUFFICES ASSUME FileInv, Push PROVE FileInv'
  OBVIOUS
<1> USE DEF FileInv, FileIsPlayed
<1>1. gathered \in Seq(Nat) /\ StreamSize \in Nat
  BY FileConstants DEF FileTypes
<1>2. PICK m, first, rest : CutsAt(gathered, StreamSize, m, first, rest)
  BY <1>1, CutAt
<1>3. /\ gathered \in Seq(Nat) /\ StreamSize \in Nat /\ lock = "decoding" /\ residue = <<>>
      /\ buffer' = (IF gathered = <<>> THEN buffer ELSE Append(buffer, first))
      /\ residue' = rest /\ gathered' = <<>> /\ cursor \in Nat /\ buffer \in Seq(Seq(Nat))
  BY <1>1, <1>2 DEF FileTypes, PlaceInv, Push, CutsAt
<1>4. m \in Nat /\ m <= StreamSize /\ m <= Len(gathered) /\ Len(gathered) \in Nat
      /\ (Len(gathered) > m => m = StreamSize)
  <2>1. m = (IF Len(gathered) < StreamSize THEN Len(gathered) ELSE StreamSize)
    BY <1>2, Zenon DEF CutsAt
  <2> QED BY <1>1, <2>1
<1>5. /\ first \in Seq(Nat) /\ Len(first) = m /\ rest \in Seq(Nat) /\ Len(rest) = Len(gathered) - m
      /\ \A i \in 1..(Len(gathered) - m) : rest[i] = gathered[StreamSize + i]
      /\ gathered = first \o rest
  BY <1>2, Zenon DEF CutsAt
<1>6. buffer' \in Seq(Seq(Nat)) /\ \A i \in 1..Len(buffer') : Len(buffer'[i]) <= StreamSize
  <2>1. CASE gathered = <<>>
    BY <1>3, <2>1 DEF PlaceInv
  <2>2. CASE gathered # <<>>
    <3>1. buffer' = Append(buffer, first)
      BY <1>3, <2>2
    <3> QED BY <1>3, <1>5, <1>4, <3>1 DEF PlaceInv
  <2> QED BY <2>1, <2>2
<1>7. FileTypes'
  BY <1>3, <1>5, <1>6 DEF FileTypes, Push, outVars, AtPacket
<1>8. EqTypes' /\ FiltersAgree'
  BY DEF EqTypes, FiltersAgree, Push, eqVars, paramVars
<1>9. PlaceInv'
  <2>0. PICK e \in 0..cursor :
          Idle(e) /\ \A i \in 1..Len(gathered) : StreamSize < i => gathered[i] + Len(gathered) = e + i
    BY DEF PlaceInv, GatheredEnds
  <2>1. ASSUME NEW i \in 1..Len(residue') PROVE residue'[i] + Len(residue') = e + i
    <3> DEFINE l == Len(gathered)
    <3>1. i \in 1..(l - m) /\ Len(residue') = l - m
      BY <1>3, <1>5
    <3>2. m = StreamSize /\ StreamSize + i \in 1..l /\ StreamSize < StreamSize + i
      BY <1>3, <1>4, <3>1
    <3>3. gathered[StreamSize + i] + l = e + (StreamSize + i)
      <4>1. \A j \in 1..l : StreamSize < j => gathered[j] + l = e + j
        BY <2>0
      <4> HIDE DEF l
      <4> QED BY ONLY <3>2, <4>1
    <3>4. residue'[i] = gathered[StreamSize + i] /\ gathered[StreamSize + i] \in Nat
      <4>1. gathered[StreamSize + i] \in Nat
        BY <1>1, <3>2
      <4>2. rest[i] = gathered[StreamSize + i] /\ residue' = rest
        BY <1>3, <1>5, <3>1
      <4> QED BY <4>1, <4>2
    <3>5. l \in Nat /\ i \in Nat
      BY <1>4
    <3> DEFINE g == gathered[StreamSize + i]
    <3>6. residue'[i] = g /\ g \in Nat /\ g + l = e + (StreamSize + i)
      BY <3>3, <3>4
    <3>7. m \in Nat /\ e \in Nat
      BY <1>3, <1>4, <2>0
    <3> HIDE DEF l, g
    <3> QED BY ONLY <3>1, <3>2, <3>5, <3>6, <3>7
  <2>2. /\ encoding' = <<>> /\ outgoing' = <<>> /\ lock' = "free" /\ gathered' = <<>>
        /\ Len(outgoing') <= StreamSize
    BY <1>3 DEF PlaceInv, Push, outVars
  <2>3. ResidueEnds' /\ GatheredEnds'
    <3>1. UNCHANGED <<cursor, otherRate>> /\ cursor' \in Nat /\ \A i \in 1..Len(gathered') : ~(StreamSize < i)
      BY <1>3, <2>2 DEF Push
    <3>2. Idle(e)' /\ e \in 0..cursor'
      BY <2>0, <3>1 DEF Idle, IsUsed
    <3> QED BY <2>1, <3>1, <3>2, NothingEnds DEF ResidueEnds
  <2> QED BY <1>6, <2>2, <2>3 DEF PlaceInv
<1>10. PlaysThrough'
  <2>1. FlattenSeq(buffer') = FlattenSeq(buffer) \o first
    <3>1. CASE gathered = <<>>
      <4>1. Len(first) = 0
        BY <1>5, <1>4, <3>1
      <4>2. first = <<>>
        BY <1>5, <4>1
      <4>3. FlattenSeq(buffer) \in Seq(Nat)
        BY LineType
      <4>4. FlattenSeq(buffer) \o <<>> = FlattenSeq(buffer)
        BY <4>3, SeqJoins, Zenon DEF Joins
      <4> QED BY <1>3, <3>1, <4>2, <4>4
    <3>2. CASE gathered # <<>>
      BY <1>3, <1>5, <3>2, FlattenAppend
    <3> QED BY <3>1, <3>2
  <2>2. Line' = Line
    <3>1. UNCHANGED <<played, encoding, outgoing>>
      BY DEF Push, outVars
    <3> QED BY <1>3, <1>5, <2>1, <3>1, PushStays
  <2>3. Readable' = Readable /\ lock # "failed"
    BY <1>3 DEF Push, Readable, IsUsed
  <2> QED BY <2>2, <2>3, SamePlays
<1> QED BY <1>7, <1>8, <1>9, <1>10

LEMMA PopKeeps == FileInv /\ Pop => FileInv'
<1> SUFFICES ASSUME FileInv, Pop PROVE FileInv'
  OBVIOUS
<1> USE DEF FileInv, FileIsPlayed
<1>1. /\ buffer \in Seq(Seq(Nat)) /\ buffer # <<>> /\ outgoing' = Head(buffer) /\ buffer' = Tail(buffer)
      /\ lock = "free" /\ lock' \in {"encoding", "comparing"} /\ outgoing = <<>>
  BY DEF FileTypes, PlaceInv, Pop
<1>2. /\ outgoing' \in Seq(Nat) /\ buffer' \in Seq(Seq(Nat)) /\ outgoing' = buffer[1]
      /\ \A i \in 1..Len(buffer') : i + 1 \in 1..Len(buffer) /\ buffer'[i] = buffer[i + 1]
      /\ 1 \in 1..Len(buffer)
  BY <1>1
<1>3. FileTypes'
  BY <1>2 DEF FileTypes, Pop, decodeVars, AtPacket
<1>4. EqTypes' /\ FiltersAgree'
  BY DEF EqTypes, FiltersAgree, Pop, paramVars
<1>5. PlaceInv'
  <2>1. Len(outgoing') <= StreamSize /\ \A i \in 1..Len(buffer') : Len(buffer'[i]) <= StreamSize
    BY <1>2 DEF PlaceInv
  <2>2. encoding' = <<>> /\ UNCHANGED <<residue, gathered, cursor>> /\ gathered = <<>>
    BY <1>1 DEF PlaceInv, Pop, decodeVars
  <2>3. ResidueEnds' /\ GatheredEnds'
    BY EndsStay DEF PlaceInv, Pop, decodeVars
  <2> QED BY <1>1, <2>1, <2>2, <2>3 DEF PlaceInv
<1>6. PlaysThrough'
  <2>1. FlattenSeq(buffer) = outgoing' \o FlattenSeq(buffer') /\ FlattenSeq(buffer') \in Seq(Nat)
    BY <1>1, <1>2, FlattenTail, FlattenType
  <2>2. UNCHANGED <<played, encoding, gathered, residue>>
    BY DEF Pop, decodeVars
  <2>3. Line' = Line
    BY <1>1, <1>2, <2>1, <2>2, PopStays
  <2>4. Readable' = Readable /\ lock # "failed"
    BY <1>1 DEF Pop, decodeVars, Readable, IsUsed
  <2> QED BY <2>3, <2>4, SamePlays
<1> QED BY <1>3, <1>4, <1>5, <1>6

LEMMA EncodeKeeps == FileInv /\ Encode => FileInv'
<1> SUFFICES ASSUME FileInv, Encode PROVE FileInv'
  OBVIOUS
<1> USE DEF FileInv, FileIsPlayed
<1>1. /\ outgoing \in Seq(Nat) /\ played \in Seq(Nat) /\ encoding = <<>> /\ Len(outgoing) <= StreamSize
      /\ StreamSize \in Nat /\ lock = "encoding" /\ lock' = "free" /\ outgoing' = <<>>
  BY FileConstants DEF FileTypes, PlaceInv, Encode
<1> DEFINE whole == encoding \o outgoing
           n == IF Len(whole) >= StreamSize THEN StreamSize ELSE Len(whole)
<1>2. encoding' = SubSeq(whole, n + 1, Len(whole)) /\ played' = played \o SubSeq(whole, 1, n)
  BY DEF Encode
<1>3. whole = outgoing
  BY <1>1, SeqJoins, Zenon DEF Joins
<1>4. n = Len(outgoing) /\ Len(whole) = Len(outgoing) /\ Len(outgoing) \in Nat
  BY <1>1, <1>3
<1> HIDE DEF whole, n
<1>5. SubSeq(whole, n + 1, Len(whole)) = <<>>
  <2>1. n + 1 \in Int /\ Len(whole) \in Int /\ Len(whole) < n + 1
    BY <1>4
  <2> QED BY <2>1, SubSeqEmpty
<1>6. SubSeq(whole, 1, n) = outgoing
  BY <1>1, <1>3, <1>4, SubSeqFull
<1>7. encoding' = <<>> /\ played' = played \o outgoing /\ played' \in Seq(Nat)
  <2>1. encoding' = <<>> /\ played' = played \o outgoing
    BY ONLY <1>2, <1>5, <1>6
  <2>2. played \o outgoing \in Seq(Nat)
    BY <1>1
  <2> QED BY ONLY <2>1, <2>2
<1>8. FileTypes'
  BY <1>1, <1>7 DEF FileTypes, Encode, decodeVars, AtPacket
<1>9. EqTypes' /\ FiltersAgree'
  BY DEF EqTypes, FiltersAgree, Encode, eqVars, paramVars
<1>10. PlaceInv'
  <2>1. UNCHANGED <<residue, gathered, cursor, buffer>> /\ gathered = <<>> /\ Len(outgoing') <= StreamSize
    BY <1>1 DEF PlaceInv, Encode, decodeVars
  <2>2. ResidueEnds' /\ GatheredEnds'
    BY EndsStay DEF PlaceInv, Encode, decodeVars
  <2> QED BY <1>1, <1>7, <2>1, <2>2 DEF PlaceInv
<1>11. PlaysThrough'
  <2>1. UNCHANGED <<buffer, gathered, residue>>
    BY DEF Encode, decodeVars
  <2>2. Line' = Line
    BY <1>1, <1>7, <2>1, EncodeStays
  <2>3. Readable' = Readable /\ lock # "failed"
    BY <1>1 DEF Encode, decodeVars, Readable, IsUsed
  <2> QED BY <2>2, <2>3, SamePlays
<1> QED BY <1>8, <1>9, <1>10, <1>11

LEMMA TuneKeeps == FileInv /\ (Compare \/ Tune) => FileInv'
<1> SUFFICES ASSUME FileInv, Compare \/ Tune PROVE FileInv'
  OBVIOUS
<1> USE DEF FileInv, FileIsPlayed
<1>1. UNCHANGED <<buffer, from, seeks>> /\ UNCHANGED decodeVars /\ UNCHANGED outVars
      /\ UNCHANGED paramVars /\ lock \in {"comparing", "tuning"}
      /\ lock' \in {"comparing", "tuning", "encoding"}
  BY DEF Compare, Tune
<1>2. FileTypes'
  BY <1>1 DEF FileTypes, decodeVars, outVars, AtPacket
<1>3. EqTypes' /\ FiltersAgree'
  <2>1. CASE Compare
    <3>1. UNCHANGED <<cached, filters, gains>> /\ band' \in {1, band, band + 1}
      BY <2>1 DEF Compare, paramVars
    <3> QED BY <3>1 DEF EqTypes, FiltersAgree
  <2>2. CASE Tune
    <3>1. CASE band > Bands
      BY <2>2, <3>1 DEF Tune, EqTypes, FiltersAgree, paramVars
    <3>2. CASE band <= Bands
      <4>1. band \in Band /\ gains[band] \in Gain
        BY <3>2 DEF EqTypes, Band
      <4>2. /\ filters' = [filters EXCEPT ![band] = <<gains[band], gains[band]>>]
            /\ cached' = [cached EXCEPT ![band] = gains[band]] /\ band' = band + 1 /\ gains' = gains
        <5>1. ~(band > Bands)
          BY <3>2, FileConstants DEF EqTypes
        <5> QED BY <2>2, <5>1 DEF Tune, paramVars
      <4>3. EqTypes'
        BY <4>1, <4>2 DEF EqTypes
      <4>4. ASSUME NEW b \in Band PROVE filters'[b] = <<cached'[b], cached'[b]>>
        BY <4>1, <4>2 DEF EqTypes, FiltersAgree
      <4> QED BY <4>3, <4>4 DEF FiltersAgree
    <3>3. band \in Nat /\ Bands \in Nat
      BY FileConstants DEF EqTypes
    <3> QED BY <3>1, <3>2, <3>3
  <2> QED BY <2>1, <2>2
<1>4. PlaceInv'
  <2>1. ResidueEnds' /\ GatheredEnds'
    BY <1>1, EndsStay DEF PlaceInv, decodeVars
  <2> QED BY <1>1, <2>1 DEF PlaceInv, decodeVars, outVars
<1>5. PlaysThrough'
  <2>1. Line' = Line /\ Readable' = Readable /\ lock # "failed"
    BY <1>1 DEF Line, Readable, IsUsed, decodeVars, outVars
  <2> QED BY <2>1, SamePlays
<1> QED BY <1>2, <1>3, <1>4, <1>5

\* A line of one place only.
LEMMA OneResidue ==
  ASSUME NEW s \in Seq(Nat)
  PROVE  <<>> \o <<>> \o <<>> \o FlattenSeq(<<>>) \o <<>> \o s = s
<1>1. <<>> \o <<>> \o <<>> \o FlattenSeq(<<>>) \o <<>> = <<>>
  <2>1. <<>> \o <<>> \o <<>> \o <<>> \o <<>> = <<>>
    OBVIOUS
  <2> QED BY <2>1, FlattenEmpty, Zenon
<1>2. <<>> \o s = s
  BY SeqJoins, Zenon DEF Joins
<1> QED BY <1>1, <1>2, Zenon

\* The container's packet that holds a frame does not begin after it.
LEMMA PacketStart ==
  ASSUME NEW a \in Nat, NEW d \in Nat \ {0}
  PROVE  a \div d \in Nat /\ (a \div d) * d \in 0..a
<1> DEFINE q == a \div d
           r == a % d
           p == d * q
<1>1. q \in Int /\ r \in 0..(d - 1) /\ a = p + r
  OBVIOUS
<1>2. q >= 0
  <2> SUFFICES ASSUME q <= -1 PROVE FALSE
    BY <1>1
  <2>1. p <= -d
    BY <1>1
  <2>2. a \in Nat /\ d \in Nat /\ r \in Int /\ r <= d - 1 /\ a = p + r /\ p \in Int
    BY <1>1
  <2> HIDE DEF p, q, r
  <2> QED BY ONLY <2>1, <2>2
<1>3. p \in Nat /\ q * d = p /\ q \in Nat
  BY <1>1, <1>2
<1> HIDE DEF p, q, r
<1>4. q * d \in 0..a
  BY <1>1, <1>3
<1> QED BY <1>3, <1>4 DEF q

LEMMA SeekKeeps == ASSUME FileInv, NEW to \in 0..Duration + 1, Seek(to) PROVE FileInv'
<1> USE DEF FileInv, FileIsPlayed
<1>1. /\ gathered = <<>> /\ outgoing = <<>> /\ encoding = <<>> /\ lock = "free"
      /\ buffer' = <<>> /\ residue' = <<>> /\ played' = <<>> /\ damaged' = {} /\ from' = cursor'
      /\ UNCHANGED <<gathered, outgoing, encoding, lock, otherRate>>
  BY DEF PlaceInv, Seek
<1>2. cursor' \in 0..Duration /\ AtPacket'
  <2> DEFINE target == IF to > Duration THEN Duration ELSE to
  <2>1. target \in 0..Duration
    BY FileConstants
  <2>2. cursor' = IF target = Duration THEN Duration ELSE (target \div ContainerSize) * ContainerSize
    BY DEF Seek
  <2> HIDE DEF target
  <2>3. (target \div ContainerSize) * ContainerSize \in 0..target
    BY <2>1, FileConstants, PacketStart
  <2>4. Duration \in Nat
    BY FileConstants
  <2> DEFINE q == (target \div ContainerSize) * ContainerSize
  <2>5. q \in 0..target /\ cursor' = IF target = Duration THEN Duration ELSE q
    BY <2>2, <2>3
  <2>6. ASSUME cursor' < Duration PROVE \E k \in Nat : cursor' = k * ContainerSize
    <3>1. target # Duration /\ target \div ContainerSize \in Nat
      BY <2>1, <2>2, <2>4, <2>6, FileConstants, PacketStart
    <3> QED BY <2>2, <3>1
  <2> HIDE DEF q
  <2> QED BY <2>1, <2>4, <2>5, <2>6 DEF AtPacket
<1>3. FileTypes'
  <2>1. /\ cursor' \in Nat /\ damaged' \subseteq 1..cursor' /\ from' <= cursor' /\ from' \in Nat
        /\ residue' \in Seq(Nat) /\ gathered' \in Seq(Nat) /\ outgoing' \in Seq(Nat)
        /\ encoding' \in Seq(Nat) /\ played' \in Seq(Nat) /\ buffer' \in Seq(Seq(Nat))
    BY <1>1, <1>2
  <2>2. otherRate' \in BOOLEAN
    BY <1>1 DEF FileTypes
  <2> QED BY <1>2, <2>1, <2>2 DEF FileTypes
<1>4. EqTypes' /\ FiltersAgree'
  BY DEF EqTypes, FiltersAgree, Seek, eqVars, paramVars
<1>5. PlaceInv'
  <2>1. ResidueEnds' /\ GatheredEnds'
    <3>1. cursor' \in Nat /\ gathered' = <<>>
      BY <1>1, <1>2
    <3> QED BY <1>1, <3>1, NothingEnds
  <2> QED BY <1>1, <2>1, FileConstants DEF PlaceInv
<1>6. PlaysThrough'
  <2>1. Line' = <<>>
    <3>1. Line' = <<>> \o <<>> \o <<>> \o FlattenSeq(<<>>) \o <<>> \o <<>>
      BY <1>1, Zenon DEF Line
    <3>2. <<>> \in Seq(Nat)
      OBVIOUS
    <3> QED BY <3>1, <3>2, OneResidue
  <2>2. Readable' = {}
    BY <1>1, <1>2 DEF Readable
  <2>3. Ascends(<<>>) /\ Range(<<>>) = {}
    BY DEF Ascends, Range
  <2> QED BY <2>1, <2>2, <2>3, Zenon DEF PlaysThrough, Ascends, Range
<1> QED BY <1>3, <1>4, <1>5, <1>6

LEMMA RefusedSeekKeeps == FileInv /\ SeekFails => FileInv'
<1> SUFFICES ASSUME FileInv, SeekFails PROVE FileInv'
  OBVIOUS
<1> USE DEF FileInv, FileIsPlayed
<1> DEFINE l == Len(residue)
<1>1. /\ gathered = <<>> /\ outgoing = <<>> /\ encoding = <<>> /\ lock = "free"
      /\ buffer' = <<>> /\ played' = <<>> /\ damaged' = {}
      /\ from' = (IF residue = <<>> THEN cursor ELSE residue[1] - 1)
      /\ UNCHANGED <<cursor, residue, gathered, outgoing, encoding, lock, otherRate>>
  BY DEF PlaceInv, SeekFails
<1>2. residue \in Seq(Nat) /\ l \in Nat /\ cursor \in Nat
  BY DEF FileTypes
<1>3. \A i \in 1..l : residue[i] \in Readable
  <2> DEFINE x == played \o encoding \o outgoing \o FlattenSeq(buffer) \o gathered
  <2>1. x \in Seq(Nat)
    BY LineType
  <2>2. Line = x \o residue
    BY Zenon DEF Line
  <2> HIDE DEF x
  <2>3. Range(Line) = Range(x) \cup Range(residue) /\ \A i \in 1..l : residue[i] \in Range(residue)
    BY <1>2, <2>1, <2>2, RangeJoins, RangeIs
  <2> QED BY <1>1, <2>3 DEF PlaysThrough
<1>9. PICK e \in 0..cursor : /\ Idle(e) /\ from' \in Nat /\ from' + l = e
                            /\ \A i \in 1..l : residue[i] + l = e + i
  <2>1. CASE residue = <<>>
    <3>1. cursor \in 0..cursor /\ Idle(cursor) /\ l = 0 /\ from' = cursor
      BY <1>1, <1>2, <2>1 DEF Idle
    <3> QED BY <1>2, <3>1
  <2>2. CASE residue # <<>>
    <3>0. PICK e \in 0..cursor : Idle(e) /\ \A i \in 1..l : residue[i] + l = e + i
      BY DEF PlaceInv, ResidueEnds
    <3>1. 1 \in 1..l /\ residue[1] \in Nat /\ residue[1] + l = e + 1 /\ from' = residue[1] - 1
      BY <1>1, <1>2, <2>2, <3>0
    <3>2. residue[1] >= 1
      BY <1>3, <3>1 DEF Readable, FileTypes
    <3> DEFINE g == residue[1]
    <3>3. g \in Nat /\ g + l = e + 1 /\ from' = g - 1 /\ g >= 1 /\ l \in Nat /\ e \in Nat
      BY <1>2, <3>0, <3>1, <3>2
    <3>4. from' \in Nat /\ from' + l = e
      <4> HIDE DEF l, g
      <4> QED BY ONLY <3>3
    <3> QED BY <3>0, <3>4
  <2> QED BY <2>1, <2>2
<1>10. e \in Nat /\ e <= cursor
  BY <1>2, <1>9
<1>4. FileTypes'
  <2>1. /\ from' <= cursor' /\ damaged' \subseteq 1..cursor' /\ cursor' \in 0..Duration
        /\ otherRate' \in BOOLEAN /\ AtPacket'
    BY <1>1, <1>2, <1>9, <1>10 DEF FileTypes, AtPacket
  <2>2. /\ residue' \in Seq(Nat) /\ gathered' \in Seq(Nat) /\ outgoing' \in Seq(Nat)
        /\ encoding' \in Seq(Nat) /\ played' \in Seq(Nat) /\ buffer' \in Seq(Seq(Nat))
    BY <1>1, <1>2
  <2> QED BY <1>9, <2>1, <2>2 DEF FileTypes
<1>5. EqTypes' /\ FiltersAgree'
  BY DEF EqTypes, FiltersAgree, SeekFails, eqVars, paramVars
<1>6. PlaceInv'
  <2>1. ResidueEnds' /\ GatheredEnds'
    BY <1>1, EndsStay DEF PlaceInv
  <2> QED BY <1>1, <1>2, <2>1, FileConstants DEF PlaceInv
<1>7. PlaysThrough'
  <2>1. Line' = residue
    <3>1. Line' = <<>> \o <<>> \o <<>> \o FlattenSeq(<<>>) \o <<>> \o residue
      BY <1>1, Zenon DEF Line
    <3> QED BY <1>2, <3>1, OneResidue
  <2>3. ASSUME NEW i \in 1..Len(residue) PROVE residue[i] = from' + i
    <3>1. residue[i] + l = e + i /\ residue[i] \in Nat /\ i \in Nat
      BY <1>2, <1>9
    <3> DEFINE g == residue[i]
               f == from'
    <3>2. g + l = e + i /\ f + l = e
      BY <1>9, <3>1
    <3>3. g \in Nat /\ i \in Nat /\ l \in Nat /\ f \in Nat /\ e \in Nat
      BY <1>2, <1>9, <1>10, <3>1
    <3> HIDE DEF l, g, f
    <3>4. g = f + i
      BY ONLY <3>2, <3>3
    <3> QED BY <3>4 DEF g, f
  <2>2. Readable' = (from' + 1)..(from' + l)
    <3>1. Readable' = {f \in (from' + 1)..cursor : IsUsed(f)}
      BY <1>1 DEF Readable, IsUsed
    <3>2. PICK start : start = from'
      OBVIOUS
    <3>3. start \in Nat /\ l \in Nat /\ start + l = e
      BY <1>2, <1>9, <3>2
    <3>4. \A i \in 1..l : residue[i] = start + i /\ IsUsed(residue[i])
      BY <1>3, <2>3, <3>2 DEF Readable
    <3>5. \A f \in (e + 1)..cursor : ~IsUsed(f)
      BY <1>9 DEF Idle
    <3>6. Readable' = {f \in (start + 1)..cursor : IsUsed(f)}
      BY <3>1, <3>2
    <3> HIDE DEF l
    <3>7. ASSUME NEW f \in (start + 1)..(start + l) PROVE IsUsed(f)
      <4>1. f - start \in 1..l /\ start + (f - start) = f
        BY ONLY <3>3, <3>7
      <4> QED BY ONLY <3>4, <4>1
    <3>8. Readable' = (start + 1)..(start + l)
      BY ONLY <1>2, <1>10, <3>3, <3>5, <3>6, <3>7
    <3> QED BY <3>2, <3>8
  <2>4. Plays(residue, (from' + 1)..(from' + Len(residue)))
    BY <1>2, <1>9, <2>3, RunPlays
  <2>5. Plays(Line', Readable')
    BY <2>1, <2>2, <2>4
  <2> QED BY <2>5, Zenon DEF Plays, PlaysThrough, Ascends, Range
<1> QED BY <1>4, <1>5, <1>6, <1>7

\* What moves no frame, and what fails for good.
LEMMA FailingFileKeeps == FileInv /\ (Fails \/ EncodeFails) => FileInv'
<1> SUFFICES ASSUME FileInv, Fails \/ EncodeFails PROVE FileInv'
  OBVIOUS
<1> USE DEF FileInv, FileIsPlayed
<1>1. /\ UNCHANGED <<otherRate, cursor, damaged, residue, buffer, from, played>> /\ UNCHANGED eqVars
      /\ UNCHANGED paramVars /\ lock' = "failed"
      /\ gathered' \in {<<>>, gathered} /\ outgoing' \in {<<>>, outgoing} /\ encoding' = <<>>
      /\ (Fails => gathered' = <<>> /\ outgoing' = outgoing /\ outgoing = <<>>)
      /\ (EncodeFails => outgoing' = <<>> /\ gathered' = gathered /\ gathered = <<>>)
  BY DEF Fails, EncodeFails, Needs, PlaceInv, decodeVars, outVars
<1>2. FileTypes'
  BY <1>1 DEF FileTypes, AtPacket
<1>3. EqTypes' /\ FiltersAgree'
  BY <1>1 DEF EqTypes, FiltersAgree, eqVars, paramVars
<1>4. PlaceInv'
  <2>1. gathered' = <<>> /\ outgoing' = <<>>
    BY <1>1
  <2>2. ResidueEnds' /\ GatheredEnds'
    <3>1. cursor' \in Nat /\ \A i \in 1..Len(gathered') : ~(StreamSize < i)
      BY <1>1, <2>1 DEF FileTypes
    <3> QED BY <1>1, <3>1, EndsStay, NothingEnds DEF PlaceInv
  <2> QED BY <1>1, <2>1, <2>2, FileConstants DEF PlaceInv
<1>5. PlaysThrough'
  BY <1>1, Zenon DEF PlaysThrough
<1> QED BY <1>2, <1>3, <1>4, <1>5

LEMMA QuietFileKeeps ==
  ASSUME FileInv,
         UNCHANGED <<otherRate, cursor, damaged, residue, gathered, buffer, from, lock>>, UNCHANGED outVars,
         UNCHANGED eqVars, gains' \in [Band -> Gain]
  PROVE  FileInv'
<1> USE DEF FileInv, FileIsPlayed
<1>1. FileTypes'
  BY DEF FileTypes, outVars, AtPacket
<1>2. EqTypes' /\ FiltersAgree'
  BY DEF EqTypes, FiltersAgree, eqVars
<1>3. PlaceInv'
  <2>1. ResidueEnds' /\ GatheredEnds'
    BY EndsStay DEF PlaceInv
  <2> QED BY <2>1 DEF PlaceInv, outVars
<1>4. PlaysThrough'
  <2>1. Line' = Line /\ Readable' = Readable /\ lock' = lock
    BY DEF Line, Readable, IsUsed, outVars
  <2> QED BY <2>1, SamePlays
<1> QED BY <1>1, <1>2, <1>3, <1>4

LEMMA FileStepKeeps == FileInv /\ [FileNext]_fileVars => FileInv'
<1> SUFFICES ASSUME FileInv, [FileNext]_fileVars PROVE FileInv'
  OBVIOUS
<1>0. gains \in [Band -> Gain]
  BY DEF FileInv, EqTypes
<1>1. CASE Begin \/ DecodeFrame \/ Skip \/ Push
  BY <1>1, BeginKeeps, DecodeKeeps, SkipKeeps, PushKeeps
<1>2. CASE Pop \/ Compare \/ Tune \/ Encode
  BY <1>2, PopKeeps, TuneKeeps, EncodeKeeps
<1>3. CASE Fails \/ EncodeFails \/ SeekFails
  BY <1>3, FailingFileKeeps, RefusedSeekKeeps
<1>4. CASE \E to \in 0..Duration + 1 : Seek(to)
  BY <1>4, SeekKeeps
<1>5. CASE End
  BY <1>0, <1>5, QuietFileKeeps DEF End, paramVars
<1>6. CASE \E b \in Band : Turn(b)
  <2>1. PICK b \in Band : Turn(b)
    BY <1>6
  <2>2. gains' \in [Band -> Gain]
    <3>1. gains' = [gains EXCEPT ![b] = 1 - gains[b]] /\ gains[b] \in Gain /\ 1 - gains[b] \in Gain
      BY <1>0, <2>1 DEF Turn, Gain
    <3> QED BY <1>0, <3>1
  <2> QED BY <2>1, <2>2, QuietFileKeeps DEF Turn, decodeVars
<1>7. CASE Bypass
  BY <1>0, <1>7, QuietFileKeeps DEF Bypass, decodeVars
<1>8. CASE UNCHANGED fileVars
  BY <1>0, <1>8, QuietFileKeeps DEF fileVars, outVars, eqVars
<1> QED BY <1>1, <1>2, <1>3, <1>4, <1>5, <1>6, <1>7, <1>8 DEF FileNext

LEMMA FileStep == [Next]_vars => [FileNext]_fileVars
  BY Zenon DEF Next, vars, fileVars

\* Of a file of any length, in packets of any size on either side, over any number of seeks and
\* turns of a knob: what has been encoded, is on its way and has been read is what could be
\* decoded since the last seek, or as much of it as the resampler uses when its rate is not the
\* stream's, every one of these frames once and in the file's order, and both channels of a
\* band are filtered for the gain that the cache says (decode_some, AudioDecoder::decode_resampled,
\* AudioBuffer, Equalizer::process, AudioEncoder::encode, AudioStreamer::seek).
THEOREM FileStaysPlayed == Spec => []FileIsPlayed
<1>1. Init => FileInv
  BY FirstFile DEF Init
<1>2. FileInv /\ [Next]_vars => FileInv'
  BY FileStep, FileStepKeeps
<1>3. FileInv => FileIsPlayed
  BY Zenon DEF FileInv
<1> QED BY <1>1, <1>2, <1>3, PTL DEF Spec

\* The frames on the way are the file's, and a packet is decoded only when there is room for it.
RoomInv ==
  /\ cursor \in 0..Duration /\ from \in 0..Duration /\ damaged \subseteq 1..Duration
  /\ position \in Nat /\ clock \in Nat /\ atEnd \in BOOLEAN /\ otherRate \in BOOLEAN
  /\ residue \in Frames /\ gathered \in Frames
  /\ outgoing \in Frames /\ encoding \in Frames /\ played \in Frames
  /\ buffer \in Seq(Frames) /\ Len(buffer) <= BufferSize
  /\ lock \in {"free", "decoding", "comparing", "tuning", "encoding", "failed"}
  /\ lock = "decoding" => Len(buffer) < BufferSize
  /\ band \in 1..Bands + 1 /\ bypass \in BOOLEAN
  /\ seeks \in 0..MaxSeeks /\ turns \in 0..MaxTurns

LEMMA FileBounds ==
  /\ Duration \in Nat /\ MaxSeeks \in Nat /\ MaxTurns \in Nat /\ ContainerSize \in Nat \ {0}
  /\ StreamSize \in Nat \ {0} /\ BufferSize \in Nat \ {0} /\ Bands \in Nat \ {0}
  /\ ResamplerChunk \in Nat \ {0}
BY FileFeedAssumption DEF FileFeedAssumption

LEMMA FramesJoin ==
  /\ <<>> \in Frames
  /\ \A s, t \in Frames : s \o t \in Frames /\ Len(s) \in Nat
  /\ \A s \in Frames : \A m \in 1..Len(s) + 1, n \in 0..Len(s) : SubSeq(s, m, n) \in Frames
<1>1. \A s, t \in Seq(1..Duration) : s \o t \in Seq(1..Duration)
  OBVIOUS
<1>2. ASSUME NEW s \in Seq(1..Duration), NEW m \in 1..Len(s) + 1, NEW n \in 0..Len(s)
      PROVE  SubSeq(s, m, n) \in Seq(1..Duration)
  <2>1. m \in Nat \ {0} /\ n \in Int /\ n <= Len(s)
    OBVIOUS
  <2> QED BY <2>1, PartIsOf
<1> QED BY <1>1, <1>2 DEF Frames

LEMMA PacketIsFrames ==
  ASSUME RoomInv
  PROVE  /\ NextPacket \in Frames /\ cursor + Len(NextPacket) \in 0..Duration
         /\ Len(NextPacket) \in Nat /\ Range(NextPacket) \subseteq 1..Duration
         /\ ~Refuses => Converted \in Frames
<1> DEFINE n == (IF cursor + ContainerSize > Duration THEN Duration ELSE cursor + ContainerSize) - cursor
<1>1. n \in Nat /\ cursor \in Nat /\ cursor + n <= Duration /\ Duration \in Nat
  BY FileBounds DEF RoomInv
<1>2. NextPacket = [i \in 1..n |-> cursor + i]
  BY DEF NextPacket
<1> HIDE DEF n
<1>3. \A i \in 1..n : cursor + i \in 1..Duration
  BY <1>1
<1>4. [i \in 1..n |-> cursor + i] \in [1..n -> 1..Duration]
  BY <1>3
<1>5. NextPacket \in Seq(1..Duration) /\ Len(NextPacket) = n
  BY <1>1, <1>2, <1>4
<1>6. Range(NextPacket) \subseteq 1..Duration
  BY <1>2, <1>3 DEF Range
<1>7. ASSUME ~Refuses PROVE Converted \in Seq(1..Duration)
  <2>1. otherRate => ResamplerChunk \in Nat \ {0} /\ ResamplerChunk <= Len(NextPacket)
    BY <1>1, <1>5, <1>7, FileBounds DEF Refuses
  <2>2. otherRate => SubSeq(NextPacket, 1, ResamplerChunk) \in Seq(1..Duration)
    <3>1. 1 \in Nat \ {0} /\ (otherRate => ResamplerChunk \in Int /\ ResamplerChunk <= Len(NextPacket))
      BY <2>1
    <3> QED BY <1>5, <3>1, PartIsOf
  <2> QED BY <1>5, <2>2 DEF Converted
<1> QED BY <1>1, <1>5, <1>6, <1>7 DEF Frames

LEMMA WayInKeepsRoom ==
  ASSUME RoomInv, Begin \/ DecodeFrame \/ Skip \/ End \/ Fails \/ Push
  PROVE  RoomInv'
<1>0. /\ cursor \in 0..Duration /\ damaged \subseteq 1..Duration /\ position \in Nat /\ atEnd \in BOOLEAN
      /\ residue \in Frames /\ gathered \in Frames
      /\ buffer \in Seq(Frames) /\ Len(buffer) <= BufferSize
      /\ lock \in {"free", "decoding", "comparing", "tuning", "encoding", "failed"}
      /\ lock = "decoding" => Len(buffer) < BufferSize
  BY DEF RoomInv
<1> DEFINE Ours == /\ cursor \in 0..Duration /\ damaged \subseteq 1..Duration /\ position \in Nat
                   /\ atEnd \in BOOLEAN /\ residue \in Frames /\ gathered \in Frames
                   /\ buffer \in Seq(Frames) /\ Len(buffer) <= BufferSize
                   /\ lock \in {"free", "decoding", "comparing", "tuning", "encoding", "failed"}
                   /\ lock = "decoding" => Len(buffer) < BufferSize
<1>1. UNCHANGED <<otherRate, from, seeks, outgoing, encoding, clock, played, band, gains, bypass, turns>>
  BY DEF Begin, DecodeFrame, Skip, End, Fails, Push, outVars, eqVars, paramVars
<1>2. SUFFICES Ours'
  BY <1>1 DEF RoomInv
<1>3. CASE Begin
  <2>1. Len(buffer) \in Nat /\ ~(Len(buffer) >= BufferSize) /\ BufferSize \in Nat
    BY <1>0, <1>3, FileBounds DEF Begin, IsFull
  <2>2. Len(buffer) < BufferSize
    BY <2>1
  <2> QED BY <1>0, <1>3, <2>2, FramesJoin DEF Begin
<1>4. CASE DecodeFrame
  <2>1. /\ gathered' = gathered \o Converted /\ position' = position + Len(NextPacket)
        /\ cursor' = cursor + Len(NextPacket) /\ ~Refuses
        /\ UNCHANGED <<damaged, atEnd, residue, buffer, lock>>
    BY <1>4 DEF DecodeFrame
  <2>2. gathered' \in Frames
    BY <1>0, <2>1, FramesJoin, PacketIsFrames
  <2>3. position' \in Nat /\ cursor' \in 0..Duration
    BY <1>0, <2>1, PacketIsFrames
  <2> QED BY <1>0, <2>1, <2>2, <2>3
<1>5. CASE Skip
  <2>1. /\ cursor' = cursor + Len(NextPacket) /\ damaged' = damaged \cup Range(NextPacket)
        /\ UNCHANGED <<position, atEnd, residue, gathered, buffer, lock>>
    BY <1>5 DEF Skip
  <2> QED BY <1>0, <2>1, PacketIsFrames
<1>6. CASE End \/ Fails
  BY <1>0, <1>6, FramesJoin DEF End, Fails
<1>7. CASE Push
  <2> DEFINE n == IF Len(gathered) < StreamSize THEN Len(gathered) ELSE StreamSize
  <2>1. /\ lock = "decoding" /\ gathered' = <<>> /\ lock' = "free"
        /\ buffer' = IF gathered = <<>> THEN buffer ELSE Append(buffer, SubSeq(gathered, 1, n))
        /\ residue' = SubSeq(gathered, StreamSize + 1, Len(gathered))
        /\ UNCHANGED <<cursor, damaged, position, atEnd>>
    BY <1>7 DEF Push
  <2>2. Len(gathered) \in Nat /\ StreamSize \in Nat \ {0} /\ gathered \in Seq(1..Duration)
    BY <1>0, FileBounds DEF Frames
  <2>3. SubSeq(gathered, 1, n) \in Frames
    <3>1. 1 \in 1..Len(gathered) + 1 /\ n \in 0..Len(gathered)
      BY <2>2
    <3> HIDE DEF n
    <3> QED BY <1>0, <3>1, FramesJoin
  <2>4. residue' \in Frames
    <3>1. StreamSize + 1 \in Nat \ {0} /\ Len(gathered) \in Int /\ Len(gathered) <= Len(gathered)
      BY <2>2
    <3>2. SubSeq(gathered, StreamSize + 1, Len(gathered)) \in Seq(1..Duration)
      BY <2>2, <3>1, PartIsOf
    <3> QED BY <2>1, <3>2 DEF Frames
  <2> HIDE DEF n
  <2>5. buffer' \in Seq(Frames) /\ Len(buffer') <= Len(buffer) + 1 /\ Len(buffer) \in Nat /\ Len(buffer') \in Nat
    <3>1. /\ Append(buffer, SubSeq(gathered, 1, n)) \in Seq(Frames)
          /\ Len(Append(buffer, SubSeq(gathered, 1, n))) = Len(buffer) + 1 /\ Len(buffer) \in Nat
      BY <1>0, <2>3
    <3> QED BY <1>0, <2>1, <3>1
  <2>6. Len(buffer') <= BufferSize
    BY <1>0, <2>1, <2>5, FileBounds
  <2> QED BY <1>0, <2>1, <2>4, <2>5, <2>6, FramesJoin
<1> HIDE DEF Ours
<1> QED BY <1>3, <1>4, <1>5, <1>6, <1>7

LEMMA WayOutKeepsRoom ==
  ASSUME RoomInv, Pop \/ Compare \/ Tune \/ Encode \/ EncodeFails
  PROVE  RoomInv'
<1>0. /\ clock \in Nat /\ outgoing \in Frames /\ encoding \in Frames /\ played \in Frames
      /\ buffer \in Seq(Frames) /\ Len(buffer) <= BufferSize
      /\ lock \in {"free", "decoding", "comparing", "tuning", "encoding", "failed"}
      /\ band \in 1..Bands + 1
  BY DEF RoomInv
<1> DEFINE Ours == /\ clock \in Nat /\ outgoing \in Frames /\ encoding \in Frames /\ played \in Frames
                   /\ buffer \in Seq(Frames) /\ Len(buffer) <= BufferSize
                   /\ lock \in {"free", "comparing", "tuning", "encoding", "failed"}
                   /\ band \in 1..Bands + 1
<1>1. UNCHANGED <<otherRate, from, seeks, cursor, damaged, position, atEnd, residue, gathered, gains, bypass, turns>>
  BY DEF Pop, Compare, Tune, Encode, EncodeFails, decodeVars, paramVars
<1>2. SUFFICES Ours'
  BY <1>1 DEF RoomInv
<1>3. CASE Pop
  <2>1. /\ buffer # <<>> /\ outgoing' = Head(buffer) /\ buffer' = Tail(buffer) /\ band' = 1
        /\ lock' \in {"encoding", "comparing"} /\ UNCHANGED <<encoding, clock, played>>
    BY <1>3 DEF Pop
  <2>2. outgoing' \in Frames /\ buffer' \in Seq(Frames) /\ Len(buffer') = Len(buffer) - 1
    BY <1>0, <2>1
  <2>3. Len(buffer') <= BufferSize
    BY <1>0, <2>2, FileBounds
  <2>4. band' \in 1..Bands + 1
    BY <2>1, FileBounds
  <2> QED BY <1>0, <2>1, <2>2, <2>3, <2>4
<1>4. CASE Compare
  <2>1. /\ lock' \in {"encoding", "tuning", "comparing"}
        /\ band' = band \/ band' = 1 \/ (~(band > Bands) /\ band' = band + 1)
        /\ UNCHANGED <<buffer, outgoing, encoding, clock, played>>
    BY <1>4 DEF Compare, outVars
  <2>2. band' \in 1..Bands + 1
    BY <1>0, <2>1, FileBounds
  <2> QED BY <1>0, <2>1, <2>2
<1>5. CASE Tune
  <2>1. /\ lock' \in {"encoding", "tuning"}
        /\ band' = band \/ (~(band > Bands) /\ band' = band + 1)
        /\ UNCHANGED <<buffer, outgoing, encoding, clock, played>>
    BY <1>5 DEF Tune, outVars
  <2>2. band' \in 1..Bands + 1
    BY <1>0, <2>1, FileBounds
  <2> QED BY <1>0, <2>1, <2>2
<1>6. CASE Encode
  <2> DEFINE joined == encoding \o outgoing
             n == IF Len(joined) >= StreamSize THEN StreamSize ELSE Len(joined)
  <2>1. /\ encoding' = SubSeq(joined, n + 1, Len(joined)) /\ played' = played \o SubSeq(joined, 1, n)
        /\ clock' = clock + n /\ outgoing' = <<>> /\ lock' = "free" /\ UNCHANGED <<buffer, band>>
    BY <1>6 DEF Encode, eqVars
  <2>2. joined \in Frames /\ Len(joined) \in Nat
    BY <1>0, FramesJoin
  <2> HIDE DEF joined
  <2>3. n \in 0..Len(joined) /\ n + 1 \in 1..Len(joined) + 1 /\ 1 \in 1..Len(joined) + 1
        /\ Len(joined) \in 0..Len(joined) /\ n \in Nat
    BY <2>2, FileBounds
  <2> HIDE DEF n
  <2>4. SubSeq(joined, n + 1, Len(joined)) \in Frames /\ SubSeq(joined, 1, n) \in Frames
    BY <2>2, <2>3, FramesJoin
  <2>5. clock' \in Nat
    BY <1>0, <2>1, <2>3
  <2> QED BY <1>0, <2>1, <2>4, <2>5, FramesJoin
<1>7. CASE EncodeFails
  BY <1>0, <1>7, FramesJoin DEF EncodeFails, eqVars
<1> HIDE DEF Ours
<1> QED BY <1>3, <1>4, <1>5, <1>6, <1>7

LEMMA SeeksKeepRoom ==
  ASSUME RoomInv, SeekFails \/ \E to \in 0..Duration + 1 : Seek(to)
  PROVE  RoomInv'
<1>0. /\ cursor \in 0..Duration /\ position \in Nat /\ atEnd \in BOOLEAN /\ residue \in Frames
      /\ seeks \in 0..MaxSeeks
  BY DEF RoomInv
<1>1. /\ UNCHANGED <<otherRate, gathered, outgoing, encoding, clock, lock, band, gains, bypass, turns>>
      /\ lock = "free" /\ seeks < MaxSeeks /\ seeks' = seeks + 1
      /\ buffer' = <<>> /\ played' = <<>> /\ damaged' = {}
  BY DEF SeekFails, Seek, eqVars, paramVars
<1>2. /\ seeks' \in 0..MaxSeeks /\ damaged' \subseteq 1..Duration /\ played' \in Frames
      /\ buffer' \in Seq(Frames) /\ Len(buffer') <= BufferSize
  <2>1. <<>> \in Seq(Frames) /\ Len(<<>>) <= BufferSize
    BY FileBounds
  <2> QED BY <1>0, <1>1, <2>1, FramesJoin, FileBounds
<1>3. /\ cursor' \in 0..Duration /\ from' \in 0..Duration /\ position' \in Nat
      /\ atEnd' \in BOOLEAN /\ residue' \in Frames
  <2>1. CASE SeekFails
    <3>1. /\ from' = (IF residue = <<>> THEN cursor ELSE residue[1] - 1)
          /\ UNCHANGED <<cursor, position, atEnd, residue>>
      BY <2>1 DEF SeekFails
    <3>2. residue # <<>> => residue[1] \in 1..Duration
      <4>1. residue \in Seq(1..Duration) /\ (residue # <<>> => 1 \in 1..Len(residue))
        BY <1>0 DEF Frames
      <4> QED BY <4>1, ElementOfSeq
    <3>3. residue # <<>> => residue[1] - 1 \in 0..Duration
      BY <3>2, FileBounds
    <3> QED BY <1>0, <3>1, <3>3
  <2>2. ASSUME NEW to \in 0..Duration + 1, Seek(to)
        PROVE  /\ cursor' \in 0..Duration /\ from' \in 0..Duration /\ position' \in Nat
               /\ atEnd' \in BOOLEAN /\ residue' \in Frames
    <3> DEFINE target == IF to > Duration THEN Duration ELSE to
               q == (target \div ContainerSize) * ContainerSize
    <3>1. /\ cursor' = IF target = Duration THEN Duration ELSE q
          /\ position' = target /\ from' = cursor' /\ atEnd' = FALSE /\ residue' = <<>>
      BY <2>2 DEF Seek
    <3>2. target \in 0..Duration /\ target \in Nat /\ Duration \in Nat
      BY FileBounds
    <3> HIDE DEF target
    <3>3. q \in 0..target
      BY <3>2, FileBounds, PacketStart
    <3> HIDE DEF q
    <3>4. cursor' \in 0..Duration
      BY <3>1, <3>2, <3>3
    <3> QED BY <3>1, <3>2, <3>4, FramesJoin
  <2> QED BY <2>1, <2>2
<1> QED BY <1>1, <1>2, <1>3 DEF RoomInv

LEMMA ParamsKeepRoom ==
  ASSUME RoomInv, Bypass \/ (\E b \in Band : Turn(b)) \/ UNCHANGED fileVars
  PROVE  RoomInv'
<1>1. turns' \in 0..MaxTurns /\ bypass' \in BOOLEAN
  <2>1. turns \in 0..MaxTurns /\ bypass \in BOOLEAN
    BY DEF RoomInv
  <2>2. turns' = turns \/ (turns < MaxTurns /\ turns' = turns + 1)
    BY DEF Bypass, Turn, fileVars
  <2>3. bypass' = bypass \/ bypass' = ~bypass
    BY DEF Bypass, Turn, fileVars
  <2>4. turns' \in 0..MaxTurns
    BY <2>1, <2>2, FileBounds
  <2> QED BY <2>1, <2>3, <2>4
<1>2. UNCHANGED <<otherRate, cursor, damaged, position, atEnd, residue, gathered, buffer, outgoing, encoding, clock,
                  played, from, lock, band, seeks>>
  BY DEF Bypass, Turn, fileVars, decodeVars, outVars, eqVars
<1> QED BY <1>1, <1>2 DEF RoomInv

\* The buffer never holds more than its capacity, since a packet is decoded only when there is room
\* and nobody else puts one in; and what is on its way are frames of the file, whatever the sizes
\* of the packets and wherever a seek lands (AudioBuffer::is_full, decode_some, AudioStreamer::seek).
THEOREM BufferStaysBounded == Spec => []FileTypeOK
<1>1. Init => FileInv /\ RoomInv
  <2> SUFFICES ASSUME FileInit PROVE RoomInv
    BY FirstFile DEF Init
  <2>1. <<>> \in Seq(Frames) /\ Len(<<>>) <= BufferSize
    BY FileBounds
  <2>2. 0 \in 0..Duration /\ 0 \in 0..MaxSeeks /\ 0 \in 0..MaxTurns /\ 1 \in 1..Bands + 1
    BY FileBounds
  <2> QED BY <2>1, <2>2, FramesJoin DEF FileInit, RoomInv
<1>2. FileInv /\ RoomInv /\ [Next]_vars => FileInv' /\ RoomInv'
  <2> SUFFICES ASSUME FileInv, RoomInv, [FileNext]_fileVars PROVE FileInv' /\ RoomInv'
    BY FileStep
  <2>1. RoomInv'
    BY WayInKeepsRoom, WayOutKeepsRoom, SeeksKeepRoom, ParamsKeepRoom DEF FileNext
  <2> QED BY <2>1, FileStepKeeps
<1>3. FileInv /\ RoomInv => FileTypeOK
  <2> SUFFICES ASSUME EqTypes, RoomInv PROVE FileTypeOK
    BY DEF FileInv
  <2>1. \A i \in DOMAIN buffer : buffer[i] \in Frames
    BY DEF RoomInv
  <2>2. \A s \in {residue, gathered, outgoing, encoding, played} : s \in Frames
    BY DEF RoomInv
  <2> QED BY <2>1, <2>2 DEF RoomInv, EqTypes, FileTypeOK
<1> QED BY <1>1, <1>2, <1>3, PTL DEF Spec

-----------------------------------------------------------------------------
(* LiveFeed: what the live channel has taken. *)

FeedTypes ==
  /\ heard \in Seq(Nat) /\ collected \in Seq(Nat) /\ residual \in Seq(Nat)
  /\ channel \in Seq(Seq(Nat)) /\ frameQueue \in Seq(Seq(Nat)) /\ made \in Nat

\* A packet is collected from what was left over and from nothing else before; packets are whole.
FeedInv ==
  /\ FeedTypes
  /\ decoder # "collecting" => collected = <<>>
  /\ decoder = "collecting" => residual = <<>>
  /\ Len(heard) % PacketSize = 0

\* What AcceptedIsHeard allows of a step.
HandsOn ==
  \/ IsPrefix(Accepted, Accepted') /\ Len(heard') % PacketSize = 0
  \/ decoder = "collecting" /\ channel # <<>> /\ TooShort(Head(channel))
       /\ channel' = Tail(channel) /\ decoder' = "idle"
  \/ decoder' = "dropped"

LEMMA FeedConstants == PacketSize \in Nat \ {0} /\ FrameSize \in Nat \ {0} /\ ChunkSize \in Nat \ {0}
<1>1. {PacketSize, FrameSize, ChunkSize}
        \subseteq {FrameSize, ChunkSize, PacketSize, QueueSize, ChannelSize}
  OBVIOUS
<1> QED BY <1>1, LiveFeedAssumption DEF LiveFeedAssumption

LEMMA PrefixOfLonger ==
  ASSUME NEW s \in Seq(Nat), NEW t \in Seq(Nat)
  PROVE  IsPrefix(s, s \o t)
<1> DEFINE u == s \o t
           n == Len(s)
<1>1. /\ u \in Seq(Nat) /\ Len(u) = n + Len(t) /\ n \in Nat /\ Len(t) \in Nat
      /\ \A i \in 1..n + Len(t) : u[i] = IF i <= Len(s) THEN s[i] ELSE t[i - Len(s)]
  BY ConcatProperties
<1> HIDE DEF u
<1>2. \A i \in 1..n : i \in 1..n + Len(t) /\ u[i] = s[i] /\ u[i] \in Nat
  BY <1>1
<1> DEFINE a == SubSeq(u, 1, n)
<1>3. a \in Seq(Nat) /\ Len(a) = n /\ \A i \in 1..n : a[i] = s[i]
  <2>1. /\ a \in Seq(Nat) /\ Len(a) = (IF 1 <= n THEN n - 1 + 1 ELSE 0)
        /\ \A i \in 1..n - 1 + 1 : a[i] = u[1 + i - 1]
    BY <1>1, <1>2, SubSeqProperties
  <2> HIDE DEF a
  <2>2. ASSUME NEW i \in 1..n PROVE a[i] = s[i]
    <3>1. i \in 1..n - 1 + 1 /\ 1 + i - 1 = i
      BY <1>1
    <3> QED BY <1>2, <2>1, <3>1
  <2> QED BY <1>1, <2>1, <2>2
<1> HIDE DEF a
<1>4. a = s
  BY <1>3, SeqEqual
<1>5. n <= Len(u)
  BY <1>1
<1>6. SubSeq(s, 1, n) = s
  BY SubSeqFull
<1> QED BY <1>1, <1>3, <1>4, <1>5, <1>6 DEF a, u, IsPrefix

LEMMA PrefixOfItself == ASSUME NEW s \in Seq(Nat) PROVE IsPrefix(s, s)
<1>1. s \o <<>> = s /\ <<>> \in Seq(Nat)
  BY ConcatEmptySeq
<1> QED BY <1>1, PrefixOfLonger

\* Where the samples of a packet are does not matter to what has been accepted.
LEMMA WaitingMoves ==
  \A h, a, f \in Seq(Nat) : h \o a \o <<>> \o f = h \o <<>> \o a \o f
<1> TAKE h \in Seq(Nat), a \in Seq(Nat), f \in Seq(Nat)
<1> DEFINE x == h \o a
<1>1. \A u \in Seq(Nat) : u \o <<>> = u
  BY SeqJoins, Zenon DEF Joins
<1>2. x \o <<>> = x /\ h \o <<>> = h
  BY <1>1
<1> QED BY ONLY <1>2 DEF x

LEMMA HeardMoves ==
  \A h, a, b, f \in Seq(Nat) : h \o (a \o b) \o <<>> \o f = (h \o a) \o <<>> \o b \o f
<1> TAKE h \in Seq(Nat), a \in Seq(Nat), b \in Seq(Nat), f \in Seq(Nat)
<1> DEFINE T == Seq(Nat)
           x == h \o a
           y == a \o b
<1>1. /\ \A u, v, w \in T : (u \o v) \o w = u \o (v \o w)
      /\ \A u \in T : u \o <<>> = u
  BY SeqJoins, Zenon DEF Joins
<1>2. h \in T /\ a \in T /\ b \in T /\ x \in T /\ h \o y \in T
  OBVIOUS
<1>3. x \o b = h \o y
  <2> HIDE DEF T
  <2> QED BY ONLY <1>1, <1>2
<1>4. x \o <<>> = x /\ (h \o y) \o <<>> = h \o y
  <2> HIDE DEF T, x, y
  <2> QED BY ONLY <1>1, <1>2
<1> HIDE DEF x, y
<1>5. (h \o y) \o <<>> \o f = x \o <<>> \o b \o f
  BY ONLY <1>3, <1>4
<1> QED BY ONLY <1>5 DEF x, y

LEMMA TakenMoves ==
  \A h, a, b, f \in Seq(Nat) : h \o a \o <<>> \o (b \o f) = h \o (a \o b) \o <<>> \o f
<1> TAKE h \in Seq(Nat), a \in Seq(Nat), b \in Seq(Nat), f \in Seq(Nat)
<1> DEFINE T == Seq(Nat)
           x == h \o a
           y == a \o b
<1>1. /\ \A u, v, w \in T : (u \o v) \o w = u \o (v \o w)
      /\ \A u \in T : u \o <<>> = u
  BY SeqJoins, Zenon DEF Joins
<1>2. h \in T /\ a \in T /\ b \in T /\ f \in T /\ x \in T /\ h \o y \in T
  OBVIOUS
<1>3. x \o b = h \o y
  <2> HIDE DEF T
  <2> QED BY ONLY <1>1, <1>2
<1>4. x \o <<>> = x /\ (h \o y) \o <<>> = h \o y
  <2> HIDE DEF T, x, y
  <2> QED BY ONLY <1>1, <1>2
<1>5. (x \o b) \o f = x \o (b \o f)
  <2> HIDE DEF T, x
  <2> QED BY ONLY <1>1, <1>2
<1> HIDE DEF x, y
<1>6. x \o <<>> \o (b \o f) = (h \o y) \o <<>> \o f
  BY ONLY <1>3, <1>4, <1>5
<1> QED BY ONLY <1>6 DEF x, y

\* What becomes of a frame is a sequence of samples, and of the frames in their order.
LEMMA DecodedType ==
  ASSUME NEW S, NEW frame \in Seq(S)
  PROVE  Decoded(frame) \in Seq(S)
<1>1. CASE TooShort(frame) \/ ~converts
  BY <1>1 DEF Decoded
<1>2. CASE ~TooShort(frame) /\ converts
  <2>1. Decoded(frame) = SubSeq(frame, 1, ChunkSize) /\ ~(Len(frame) < ChunkSize)
    BY <1>2 DEF Decoded, TooShort
  <2>2. ChunkSize \in Int /\ ChunkSize <= Len(frame) /\ 1 \in Nat \ {0}
    BY <2>1, FeedConstants
  <2> QED BY <2>1, <2>2, PartIsOf
<1> QED BY <1>1, <1>2

LEMMA ToBeDecodedIs ==
  ASSUME NEW frames \in Seq(Seq(Nat))
  PROVE  /\ ToBeDecoded(frames) \in Seq(Seq(Nat)) /\ Len(ToBeDecoded(frames)) = Len(frames)
         /\ \A i \in 1..Len(frames) : ToBeDecoded(frames)[i] = Decoded(frames[i])
<1>1. DOMAIN frames = 1..Len(frames) /\ Len(frames) \in Nat
  OBVIOUS
<1>2. \A i \in 1..Len(frames) : Decoded(frames[i]) \in Seq(Nat)
  BY <1>1, DecodedType
<1> DEFINE turned(i) == Decoded(frames[i])
<1>3. ToBeDecoded(frames) = [i \in 1..Len(frames) |-> turned(i)]
  BY <1>1 DEF ToBeDecoded
<1>4. \A i \in 1..Len(frames) : turned(i) \in Seq(Nat)
  BY <1>2
<1> HIDE DEF turned
<1>5. /\ ToBeDecoded(frames) \in Seq(Seq(Nat)) /\ Len(ToBeDecoded(frames)) = Len(frames)
      /\ \A i \in 1..Len(frames) : ToBeDecoded(frames)[i] = turned(i)
  BY <1>1, <1>3, <1>4
<1> QED BY <1>5 DEF turned

LEMMA ToBeDecodedAppend ==
  ASSUME NEW frames \in Seq(Seq(Nat)), NEW frame \in Seq(Nat)
  PROVE  ToBeDecoded(Append(frames, frame)) = Append(ToBeDecoded(frames), Decoded(frame))
<1> DEFINE longer == Append(frames, frame)
           a == ToBeDecoded(longer)
           b == Append(ToBeDecoded(frames), Decoded(frame))
<1>1. /\ longer \in Seq(Seq(Nat)) /\ Len(longer) = Len(frames) + 1 /\ Len(frames) \in Nat
      /\ longer[Len(frames) + 1] = frame /\ \A i \in 1..Len(frames) : longer[i] = frames[i]
  BY AppendProperties
<1>2. Decoded(frame) \in Seq(Nat)
  BY DecodedType
<1> HIDE DEF longer
<1>3. /\ a \in Seq(Seq(Nat)) /\ Len(a) = Len(frames) + 1
      /\ a[Len(frames) + 1] = Decoded(frame)
      /\ \A i \in 1..Len(frames) : a[i] = Decoded(frames[i])
  <2>1. /\ a \in Seq(Seq(Nat)) /\ Len(a) = Len(longer)
        /\ \A i \in 1..Len(longer) : a[i] = Decoded(longer[i])
    BY <1>1, ToBeDecodedIs
  <2>2. Len(frames) + 1 \in 1..Len(longer) /\ \A i \in 1..Len(frames) : i \in 1..Len(longer)
    BY <1>1
  <2> HIDE DEF a
  <2> QED BY ONLY <1>1, <2>1, <2>2
<1>4. /\ b \in Seq(Seq(Nat)) /\ Len(b) = Len(frames) + 1
      /\ b[Len(frames) + 1] = Decoded(frame)
      /\ \A i \in 1..Len(frames) : b[i] = Decoded(frames[i])
  <2> DEFINE u == ToBeDecoded(frames)
  <2>1. /\ u \in Seq(Seq(Nat)) /\ Len(u) = Len(frames)
        /\ \A i \in 1..Len(frames) : u[i] = Decoded(frames[i])
    BY ToBeDecodedIs
  <2> HIDE DEF u
  <2>2. PICK last \in Seq(Nat) : last = Decoded(frame)
    BY <1>2
  <2>3. /\ Append(u, last) \in Seq(Seq(Nat)) /\ Len(Append(u, last)) = Len(u) + 1
        /\ \A i \in 1..Len(u) : Append(u, last)[i] = u[i]
        /\ Append(u, last)[Len(u) + 1] = last
    <3>1. u \in Seq(Seq(Nat)) /\ last \in Seq(Nat)
      BY <2>1
    <3> QED BY ONLY <3>1, AppendProperties
  <2> QED BY ONLY <2>1, <2>2, <2>3 DEF u
<1> HIDE DEF a, b
<1>5. ASSUME NEW i \in 1..Len(frames) + 1
      PROVE  a[i] = b[i]
  <2>1. i \in 1..Len(frames) \/ i = Len(frames) + 1
    BY <1>1
  <2>2. CASE i \in 1..Len(frames)
    BY ONLY <1>3, <1>4, <2>2
  <2>3. CASE i = Len(frames) + 1
    BY ONLY <1>3, <1>4, <2>3
  <2> QED BY ONLY <2>1, <2>2, <2>3
<1>6. a = b
  BY <1>3, <1>4, <1>5, SeqEqual
<1> QED BY <1>6 DEF a, b, longer

LEMMA ToBeDecodedTail ==
  ASSUME NEW frames \in Seq(Seq(Nat)), frames # <<>>
  PROVE  /\ ToBeDecoded(frames) # <<>> /\ Head(ToBeDecoded(frames)) = Decoded(Head(frames))
         /\ Tail(ToBeDecoded(frames)) = ToBeDecoded(Tail(frames))
<1> DEFINE u == ToBeDecoded(frames)
           rest == Tail(frames)
           v == ToBeDecoded(rest)
<1>1. /\ Len(frames) \in Nat \ {0} /\ Head(frames) = frames[1]
      /\ rest \in Seq(Seq(Nat)) /\ Len(rest) = Len(frames) - 1
      /\ \A i \in 1..Len(rest) : rest[i] = frames[i + 1]
  BY HeadTailProperties, EmptySeq
<1>2. /\ u \in Seq(Seq(Nat)) /\ Len(u) = Len(frames)
      /\ \A i \in 1..Len(frames) : u[i] = Decoded(frames[i])
  BY ToBeDecodedIs
<1> HIDE DEF rest, u
<1>3. /\ v \in Seq(Seq(Nat)) /\ Len(v) = Len(rest)
      /\ \A i \in 1..Len(rest) : v[i] = Decoded(rest[i])
  BY <1>1, ToBeDecodedIs
<1> HIDE DEF v
<1>4. u # <<>> /\ Len(u) # 0
  BY <1>1, <1>2
<1>5. /\ Head(u) = u[1] /\ Tail(u) \in Seq(Seq(Nat)) /\ Len(Tail(u)) = Len(u) - 1
      /\ \A i \in 1..Len(Tail(u)) : Tail(u)[i] = u[i + 1]
  BY <1>2, <1>4, HeadTailProperties
<1>6. Head(u) = Decoded(Head(frames))
  <2>1. 1 \in 1..Len(frames)
    BY <1>1
  <2> QED BY <1>1, <1>2, <1>5, <2>1
<1> DEFINE w == Tail(u)
<1>7. w = v
  <2>1. w \in Seq(Seq(Nat)) /\ Len(w) = Len(v) /\ \A i \in 1..Len(w) : w[i] = u[i + 1]
    BY <1>1, <1>2, <1>3, <1>5
  <2> HIDE DEF w
  <2>2. ASSUME NEW i \in 1..Len(w) PROVE w[i] = v[i]
    <3>1. i \in 1..Len(rest) /\ i + 1 \in 1..Len(frames)
      BY <1>1, <1>3, <2>1
    <3>2. w[i] = Decoded(frames[i + 1]) /\ v[i] = Decoded(rest[i]) /\ rest[i] = frames[i + 1]
      BY <1>1, <1>2, <1>3, <2>1, <3>1
    <3> QED BY <3>2
  <2> QED BY <1>3, <2>1, <2>2, SeqEqual
<1> QED BY <1>4, <1>6, <1>7 DEF u, v, w, rest

LEMMA AcceptedType ==
  ASSUME FeedTypes
  PROVE  /\ FlattenSeq(ToBeDecoded(channel)) \in Seq(Nat) /\ heard \o collected \o residual \in Seq(Nat)
         /\ Accepted \in Seq(Nat)
<1>1. FlattenSeq(ToBeDecoded(channel)) \in Seq(Nat)
  BY FlattenType, ToBeDecodedIs DEF FeedTypes
<1>2. \A x, y \in Seq(Nat) : x \o y \in Seq(Nat)
  OBVIOUS
<1> QED BY <1>1, <1>2, Zenon DEF FeedTypes, Accepted

LEMMA SameHandsOn ==
  ASSUME FeedInv, Accepted' = Accepted, Len(heard') % PacketSize = 0
  PROVE  HandsOn
<1>1. IsPrefix(Accepted, Accepted')
  BY AcceptedType, PrefixOfItself DEF FeedInv
<1> QED BY <1>1 DEF HandsOn

\* The sender of a frame: at the channel's end, or nowhere.
\* What is to be heard of frames depends on them and on the source's rate.
LEMMA ChannelIs ==
  ASSUME UNCHANGED converts
  PROVE  ToBeDecoded(channel)' = ToBeDecoded(channel')
BY DEF ToBeDecoded, Decoded, TooShort

LEMMA SendingHandsOn ==
  ASSUME FeedInv, NEW frame \in Seq(Nat), TrySend(frame), UNCHANGED decoderVars, UNCHANGED converts,
         frameQueue' \in Seq(Seq(Nat)), made' \in Nat
  PROVE  FeedInv' /\ HandsOn
<1>1. channel' = channel \/ channel' = Append(channel, frame)
  BY DEF TrySend
<1>2. FeedInv'
  <2>1. channel \in Seq(Seq(Nat))
    BY DEF FeedInv, FeedTypes
  <2>2. channel' \in Seq(Seq(Nat))
    <3>1. Append(channel, frame) \in Seq(Seq(Nat))
      BY <2>1, AppendProperties
    <3> QED BY <1>1, <2>1, <3>1
  <2> QED BY <2>2 DEF FeedInv, FeedTypes, decoderVars
<1>3. Len(heard') % PacketSize = 0 /\ UNCHANGED <<heard, collected, residual>>
  BY DEF FeedInv, decoderVars
<1>4. CASE channel' = channel
  <2>1. Accepted' = Accepted
    BY <1>4, <1>3, ChannelIs, Zenon DEF Accepted
  <2> QED BY <1>2, <1>3, <2>1, SameHandsOn
<1>5. CASE channel' = Append(channel, frame)
  <2> DEFINE g == Decoded(frame)
             x == heard \o collected \o residual
             f == FlattenSeq(ToBeDecoded(channel))
  <2>0. g \in Seq(Nat)
    BY DecodedType
  <2>1. FlattenSeq(ToBeDecoded(channel)') = f \o g
    <3>1. channel \in Seq(Seq(Nat)) /\ ToBeDecoded(channel) \in Seq(Seq(Nat))
      BY ToBeDecodedIs DEF FeedInv, FeedTypes
    <3>2. ToBeDecoded(channel)' = ToBeDecoded(Append(channel, frame))
      BY <1>5, ChannelIs
    <3>3. ToBeDecoded(channel)' = Append(ToBeDecoded(channel), g)
      BY <3>1, <3>2, ToBeDecodedAppend
    <3> HIDE DEF g
    <3> QED BY <2>0, <3>1, <3>3, FlattenAppend
  <2>2. Accepted = x \o f /\ Accepted' = x \o (f \o g)
    BY <2>1, Zenon DEF Accepted, decoderVars
  <2>3. x \in Seq(Nat) /\ f \in Seq(Nat) /\ x \o f \in Seq(Nat)
    BY AcceptedType DEF FeedInv
  <2>4. x \o (f \o g) = (x \o f) \o g
    <3> DEFINE T == Seq(Nat)
    <3>1. \A u, v, w \in T : (u \o v) \o w = u \o (v \o w)
      BY SeqJoins, Zenon DEF Joins
    <3>2. x \in T /\ f \in T /\ g \in T
      BY <2>0, <2>3
    <3> HIDE DEF T, x, f, g
    <3> QED BY ONLY <3>1, <3>2
  <2>5. IsPrefix(x \o f, (x \o f) \o g)
    <3> HIDE DEF x, f, g
    <3> QED BY <2>0, <2>3, PrefixOfLonger
  <2>6. IsPrefix(Accepted, Accepted')
    BY ONLY <2>2, <2>4, <2>5
  <2> QED BY <1>2, <1>3, <2>6, Zenon DEF HandsOn
<1> QED BY ONLY <1>1, <1>4, <1>5, Zenon

\* The device, the relay and the flags.
LEMMA SourceHandsOn ==
  ASSUME FeedInv,
         \/ \E n \in 1..FrameSize : Callback(n) \/ Read(n) \/ Loopback(n)
         \/ ReadEnds \/ PutSilence \/ LoopbackEnds
         \/ Relay \/ TellStop \/ RelayLeaves \/ RelayEnds
  PROVE  FeedInv' /\ HandsOn
<1>1. /\ \A n \in 1..FrameSize : Frame(n) \in Seq(Nat)
      /\ [i \in 1..FrameSize |-> Silence] \in Seq(Nat) /\ made \in Nat
  BY FeedConstants DEF FeedInv, FeedTypes, Frame, Silence
<1>2. CASE \E n \in 1..FrameSize : Loopback(n)
  <2>1. PICK n \in 1..FrameSize : Loopback(n)
    BY <1>2
  <2>2. Frame(n) \in Seq(Nat) /\ made' \in Nat /\ frameQueue' \in Seq(Seq(Nat)) /\ converts' = converts
    BY <1>1, <2>1 DEF Loopback, Brings, FeedInv, FeedTypes
  <2> QED BY <2>1, <2>2, SendingHandsOn DEF Loopback
<1>3. CASE PutSilence
  <2>1. made' \in Nat /\ frameQueue' \in Seq(Seq(Nat)) /\ converts' = converts
    BY <1>3 DEF PutSilence, FeedInv, FeedTypes
  <2> QED BY <1>1, <1>3, <2>1, SendingHandsOn DEF PutSilence
<1>4. CASE Relay
  <2>1. Head(frameQueue) \in Seq(Nat) /\ made' \in Nat /\ frameQueue' \in Seq(Seq(Nat))
        /\ converts' = converts
    BY <1>4 DEF Relay, FeedInv, FeedTypes
  <2> QED BY <1>4, <2>1, SendingHandsOn DEF Relay
<1>5. CASE (\E n \in 1..FrameSize : Callback(n) \/ Read(n)) \/ ReadEnds \/ LoopbackEnds \/ TellStop
           \/ RelayLeaves \/ RelayEnds
  <2>1. channel' = channel /\ converts' = converts /\ UNCHANGED decoderVars
    BY <1>5 DEF Callback, Read, ReadEnds, LoopbackEnds, TellStop, RelayLeaves, RelayEnds
  <2>2. made' \in Nat
    BY <1>1, <1>5
       DEF Callback, Read, Brings, ReadEnds, LoopbackEnds, TellStop, RelayLeaves, RelayEnds
  <2>3. frameQueue' \in Seq(Seq(Nat))
    <3>1. frameQueue \in Seq(Seq(Nat))
      BY DEF FeedInv, FeedTypes
    <3>2. CASE \E n \in 1..FrameSize : Callback(n) \/ Read(n)
      <4>1. PICK n \in 1..FrameSize : Callback(n) \/ Read(n)
        BY <3>2
      <4>2. frameQueue' = frameQueue \/ frameQueue' = Append(frameQueue, Frame(n))
        BY <4>1 DEF Callback, Read
      <4>3. Frame(n) \in Seq(Nat)
        BY <1>1
      <4>4. Append(frameQueue, Frame(n)) \in Seq(Seq(Nat))
        BY <3>1, <4>3
      <4> QED BY ONLY <3>1, <4>2, <4>4, Zenon
    <3>3. CASE ReadEnds \/ LoopbackEnds \/ TellStop \/ RelayLeaves \/ RelayEnds
      <4>1. frameQueue' = frameQueue \/ frameQueue' = <<>>
        BY <3>3 DEF ReadEnds, LoopbackEnds, TellStop, RelayLeaves, RelayEnds
      <4>2. <<>> \in Seq(Seq(Nat))
        OBVIOUS
      <4> QED BY <3>1, <4>1, <4>2, Zenon
    <3> QED BY <1>5, <3>2, <3>3, Zenon
  <2>4. FeedInv'
    BY <2>1, <2>2, <2>3 DEF FeedInv, FeedTypes, decoderVars
  <2>5. Accepted' = Accepted
    BY <2>1, ChannelIs, Zenon DEF Accepted, decoderVars
  <2> QED BY <2>1, <2>4, <2>5, SameHandsOn DEF FeedInv, decoderVars
<1> QED BY <1>2, <1>3, <1>4, <1>5

\* The decoder.
LEMMA CollectHandsOn ==
  ASSUME FeedInv, Collect \/ NoFrame PROVE FeedInv' /\ HandsOn
<1>1. /\ UNCHANGED <<channel, heard, frameQueue, made, converts>>
      /\ \/ decoder = "idle" /\ decoder' = "collecting" /\ collected' = residual /\ residual' = <<>>
         \/ decoder = "collecting" /\ decoder' = "idle" /\ residual' = collected /\ collected' = <<>>
  BY DEF Collect, NoFrame, sourceVars
<1>2. FeedInv'
  BY <1>1 DEF FeedInv, FeedTypes
<1>3. Accepted' = Accepted
  <2> DEFINE flat == FlattenSeq(ToBeDecoded(channel))
  <2>1. heard \in Seq(Nat) /\ collected \in Seq(Nat) /\ residual \in Seq(Nat)
        /\ flat \in Seq(Nat)
    BY AcceptedType DEF FeedInv, FeedTypes
  <2>0. FlattenSeq(ToBeDecoded(channel)') = flat
    BY <1>1, ChannelIs
  <2>2. \A a \in Seq(Nat) : heard \o a \o <<>> \o flat
                            = heard \o <<>> \o a \o flat
    <3> HIDE DEF flat
    <3>1. \A a, f \in Seq(Nat) : heard \o a \o <<>> \o f = heard \o <<>> \o a \o f
      BY ONLY <2>1, WaitingMoves, Zenon
    <3> QED BY ONLY <2>1, <3>1, Zenon
  <2>3. CASE decoder = "idle"
    <3>1. /\ Accepted = heard \o <<>> \o residual \o flat
          /\ Accepted' = heard \o residual \o <<>> \o flat
      BY <1>1, <2>0, <2>3, Zenon DEF FeedInv, Accepted
    <3> QED BY <2>1, <2>2, <3>1, Zenon
  <2>4. CASE decoder = "collecting"
    <3>1. /\ Accepted = heard \o collected \o <<>> \o flat
          /\ Accepted' = heard \o <<>> \o collected \o flat
      BY <1>1, <2>0, <2>4, Zenon DEF FeedInv, Accepted
    <3> QED BY <2>1, <2>2, <3>1, Zenon
  <2> QED BY <1>1, <2>3, <2>4
<1> QED BY <1>2, <1>3, SameHandsOn DEF FeedInv

LEMMA TakeHandsOn ==
  ASSUME FeedInv, TakeFrame PROVE FeedInv' /\ HandsOn
<1>1. /\ UNCHANGED <<decoder, heard, residual, frameQueue, made, converts>> /\ decoder = "collecting"
      /\ residual = <<>> /\ channel # <<>>
      /\ channel' = Tail(channel) /\ collected' = collected \o Decoded(Head(channel))
      /\ channel \in Seq(Seq(Nat))
  BY DEF TakeFrame, sourceVars, FeedInv, FeedTypes
<1>2. Decoded(Head(channel)) \in Seq(Nat) /\ channel' \in Seq(Seq(Nat)) /\ collected' \in Seq(Nat)
  <2>1. Head(channel) \in Seq(Nat) /\ channel' \in Seq(Seq(Nat)) /\ collected \in Seq(Nat)
    BY <1>1 DEF FeedInv, FeedTypes
  <2>2. Decoded(Head(channel)) \in Seq(Nat)
    BY <2>1, DecodedType
  <2> QED BY <1>1, <2>1, <2>2
<1>3. FeedInv'
  BY <1>1, <1>2 DEF FeedInv, FeedTypes
<1>4. Accepted' = Accepted
  <2> DEFINE g == Decoded(Head(channel))
             f == FlattenSeq(ToBeDecoded(channel'))
  <2>0. ToBeDecoded(channel)' = ToBeDecoded(channel')
    BY <1>1, ChannelIs
  <2>1. FlattenSeq(ToBeDecoded(channel)) = g \o f /\ f \in Seq(Nat)
    <3>1. ToBeDecoded(channel) \in Seq(Seq(Nat)) /\ ToBeDecoded(channel') \in Seq(Seq(Nat))
      BY <1>1, <1>2, ToBeDecodedIs
    <3>2. /\ ToBeDecoded(channel) # <<>> /\ Head(ToBeDecoded(channel)) = g
          /\ Tail(ToBeDecoded(channel)) = ToBeDecoded(channel')
      BY <1>1, ToBeDecodedTail
    <3> HIDE DEF g
    <3> QED BY <3>1, <3>2, FlattenTail, FlattenType
  <2>2. Accepted = heard \o collected \o <<>> \o (g \o f)
        /\ Accepted' = heard \o (collected \o g) \o <<>> \o f
    BY <1>1, <2>0, <2>1, Zenon DEF Accepted
  <2>3. heard \in Seq(Nat) /\ collected \in Seq(Nat) /\ g \in Seq(Nat) /\ f \in Seq(Nat)
    BY <1>2, <2>1 DEF FeedInv, FeedTypes
  <2> HIDE DEF g, f
  <2>4. heard \o collected \o <<>> \o (g \o f) = heard \o (collected \o g) \o <<>> \o f
    <3>1. \A a, b, c \in Seq(Nat) : heard \o a \o <<>> \o (b \o c) = heard \o (a \o b) \o <<>> \o c
      BY ONLY <2>3, TakenMoves, Zenon
    <3>2. \A b, c \in Seq(Nat) : heard \o collected \o <<>> \o (b \o c)
                                 = heard \o (collected \o b) \o <<>> \o c
      BY ONLY <2>3, <3>1, Zenon
    <3>3. \A c \in Seq(Nat) : heard \o collected \o <<>> \o (g \o c)
                              = heard \o (collected \o g) \o <<>> \o c
      BY ONLY <2>3, <3>2, Zenon
    <3> QED BY ONLY <2>3, <3>3, Zenon
  <2> QED BY ONLY <2>2, <2>4
<1> QED BY <1>3, <1>4, SameHandsOn DEF FeedInv

LEMMA DeliverHandsOn ==
  ASSUME FeedInv, DeliverPacket PROVE FeedInv' /\ HandsOn
<1>1. /\ UNCHANGED <<channel, frameQueue, made, converts>> /\ decoder = "collecting" /\ decoder' = "idle"
      /\ residual = <<>> /\ collected' = <<>> /\ Len(collected) >= PacketSize
      /\ collected \in Seq(Nat) /\ heard \in Seq(Nat)
  BY DEF DeliverPacket, sourceVars, FeedInv, FeedTypes
<1>2. PICK m, a, b : CutsAt(collected, PacketSize, m, a, b)
  BY <1>1, FeedConstants, CutAt
<1>3. /\ m = (IF Len(collected) < PacketSize THEN Len(collected) ELSE PacketSize)
      /\ a = SubSeq(collected, 1, m) /\ b = SubSeq(collected, PacketSize + 1, Len(collected))
      /\ a \in Seq(Nat) /\ Len(a) = m /\ b \in Seq(Nat) /\ collected = a \o b
  BY <1>2, Zenon DEF CutsAt
<1>4. m = PacketSize
  <2>1. Len(collected) \in Nat /\ PacketSize \in Nat /\ Len(collected) >= PacketSize
    BY <1>1, FeedConstants
  <2>2. m = IF Len(collected) < PacketSize THEN Len(collected) ELSE PacketSize
    BY ONLY <1>3
  <2> QED BY ONLY <2>1, <2>2
<1>5. heard' = heard \o a /\ residual' = b
  BY <1>3, <1>4, Zenon DEF DeliverPacket
<1>6. heard' \in Seq(Nat) /\ Len(heard') = Len(heard) + PacketSize
  <2>1. heard \in Seq(Nat) /\ a \in Seq(Nat) /\ Len(a) = PacketSize /\ heard' = heard \o a
    BY <1>1, <1>3, <1>4, <1>5
  <2> QED BY ONLY <2>1, ConcatProperties
<1>7. Len(heard') % PacketSize = 0
  <2>1. Len(heard) \in Int
    BY <1>1
  <2> QED BY <1>6, <2>1, FeedConstants, RemainderRepeats DEF FeedInv
<1>8. FeedInv'
  BY <1>1, <1>3, <1>5, <1>6, <1>7 DEF FeedInv, FeedTypes
<1>9. Accepted' = Accepted
  <2> DEFINE f == FlattenSeq(ToBeDecoded(channel))
  <2>0. FlattenSeq(ToBeDecoded(channel)') = f
    BY <1>1, ChannelIs
  <2>1. f \in Seq(Nat)
    BY AcceptedType DEF FeedInv
  <2>2. Accepted = heard \o (a \o b) \o <<>> \o f /\ Accepted' = (heard \o a) \o <<>> \o b \o f
    BY <1>1, <1>3, <1>5, <2>0, Zenon DEF Accepted
  <2> HIDE DEF f
  <2>3. heard \o (a \o b) \o <<>> \o f = (heard \o a) \o <<>> \o b \o f
    <3>1. \A x, y, z \in Seq(Nat) : heard \o (x \o y) \o <<>> \o z = (heard \o x) \o <<>> \o y \o z
      BY ONLY <1>1, HeardMoves, Zenon
    <3>2. \A y, z \in Seq(Nat) : heard \o (a \o y) \o <<>> \o z = (heard \o a) \o <<>> \o y \o z
      BY ONLY <1>3, <3>1, Zenon
    <3>3. \A z \in Seq(Nat) : heard \o (a \o b) \o <<>> \o z = (heard \o a) \o <<>> \o b \o z
      BY ONLY <1>3, <3>2, Zenon
    <3> QED BY ONLY <2>1, <3>3, Zenon
  <2> QED BY ONLY <2>2, <2>3
<1> QED BY <1>7, <1>8, <1>9, SameHandsOn

\* A frame refused and the end of the decoder.
LEMMA LosingKeeps ==
  ASSUME FeedInv, Refused \/ DecoderDropped PROVE FeedInv' /\ HandsOn
<1>1. CASE Refused
  <2>1. HandsOn
    BY <1>1 DEF Refused, HandsOn
  <2>2. channel' \in Seq(Seq(Nat))
    BY <1>1 DEF Refused, FeedInv, FeedTypes
  <2> QED BY <1>1, <2>1, <2>2 DEF Refused, sourceVars, FeedInv, FeedTypes
<1>2. CASE DecoderDropped
  BY <1>2 DEF DecoderDropped, sourceVars, HandsOn, FeedInv, FeedTypes
<1> QED BY <1>1, <1>2

LEMMA FeedStepKeeps ==
  ASSUME FeedInv, FeedNext
  PROVE  FeedInv' /\ HandsOn
<1>1. CASE \/ \E n \in 1..FrameSize : Callback(n) \/ Read(n) \/ Loopback(n)
           \/ ReadEnds \/ PutSilence \/ LoopbackEnds
           \/ Relay \/ TellStop \/ RelayLeaves \/ RelayEnds
  BY <1>1, SourceHandsOn
<1>2. CASE Collect \/ NoFrame
  BY <1>2, CollectHandsOn
<1>3. CASE TakeFrame
  BY <1>3, TakeHandsOn
<1>4. CASE DeliverPacket
  BY <1>4, DeliverHandsOn
<1>5. CASE Refused \/ DecoderDropped
  BY <1>5, LosingKeeps
<1> QED BY <1>1, <1>2, <1>3, <1>4, <1>5 DEF FeedNext

LEMMA FeedStarts == FeedInit => FeedInv
<1>1. 0 % PacketSize = 0
  BY FeedConstants
<1> QED BY <1>1 DEF FeedInit, FeedInv, FeedTypes

\* What the live channel has taken is handed on in its order, in whole packets, whatever the sizes
\* of frames and packets and however often the channel runs empty, but for a frame the resampler
\* refuses and the end of the decoder (LiveFrameSender::try_send,
\* LiveAudioDecoder::decode_resampled).  For any number of samples.
THEOREM AcceptedStaysHeard == FeedInit /\ [][FeedNext]_feedVars => AcceptedIsHeard
<1>1. FeedInit => FeedInv
  BY FeedStarts
<1>2. FeedInv /\ [FeedNext]_feedVars => FeedInv' /\ [HandsOn]_feedVars
  <2>1. CASE UNCHANGED feedVars
    BY <2>1 DEF feedVars, FeedInv, FeedTypes
  <2> QED BY <2>1, FeedStepKeeps
<1> QED BY <1>1, <1>2, PTL DEF AcceptedIsHeard, HandsOn

LEMMA FeedBounds ==
  /\ MaxSamples \in Nat /\ MaxSilence \in Nat /\ WarmUp \in Nat
  /\ FrameSize \in Nat \ {0} /\ PacketSize \in Nat \ {0}
  /\ QueueSize \in Nat \ {0} /\ ChannelSize \in Nat \ {0}
BY LiveFeedAssumption DEF LiveFeedAssumption

LEMMA FrameIsSamples ==
  ASSUME FeedTypeOK, NEW n \in 1..FrameSize, Brings(n)
  PROVE  Frame(n) \in Samples /\ made' \in 0..MaxSamples
<1>1. made \in Nat /\ n \in Nat /\ made + n <= MaxSamples /\ made' = made + n /\ MaxSamples \in Nat
  BY FeedBounds DEF FeedTypeOK, Brings
<1>2. \A i \in 1..n : made + i \in 0..MaxSamples
  BY <1>1
<1>3. [i \in 1..n |-> made + i] \in [1..n -> 0..MaxSamples]
  BY <1>2
<1> QED BY <1>1, <1>3 DEF Frame, Samples

LEMMA QueueTakes ==
  ASSUME FeedTypeOK, NEW frame \in Samples,
         frameQueue' = IF Len(frameQueue) = QueueSize THEN frameQueue ELSE Append(frameQueue, frame)
  PROVE  frameQueue' \in Seq(Samples) /\ Len(frameQueue') <= QueueSize
<1>1. frameQueue \in Seq(Samples) /\ Len(frameQueue) <= QueueSize /\ QueueSize \in Nat
  BY FeedBounds DEF FeedTypeOK
<1>2. Append(frameQueue, frame) \in Seq(Samples) /\ Len(Append(frameQueue, frame)) = Len(frameQueue) + 1
  BY <1>1
<1>3. Len(frameQueue) \in Nat
  BY <1>1
<1> QED BY <1>1, <1>2, <1>3

LEMMA ChannelTakes ==
  ASSUME FeedTypeOK, NEW frame \in Samples, TrySend(frame)
  PROVE  channel' \in Seq(Samples) /\ Len(channel') <= ChannelSize
<1>1. channel \in Seq(Samples) /\ Len(channel) <= ChannelSize /\ ChannelSize \in Nat
  BY FeedBounds DEF FeedTypeOK
<1>2. Append(channel, frame) \in Seq(Samples) /\ Len(Append(channel, frame)) = Len(channel) + 1
  BY <1>1
<1>3. Len(channel) \in Nat
  BY <1>1
<1> QED BY <1>1, <1>2, <1>3 DEF TrySend

LEMMA TailIsShorter ==
  ASSUME NEW S, NEW s \in Seq(S), s # <<>>
  PROVE  Head(s) \in S /\ Tail(s) \in Seq(S) /\ Len(Tail(s)) = Len(s) - 1
OBVIOUS

LEMMA SourceKeepsTypes ==
  ASSUME FeedTypeOK, UNCHANGED decoderVars,
         \/ \E n \in 1..FrameSize : Callback(n) \/ Read(n) \/ Loopback(n)
         \/ ReadEnds \/ PutSilence \/ LoopbackEnds
         \/ Relay \/ TellStop \/ RelayLeaves \/ RelayEnds
  PROVE  FeedTypeOK'
<1>1. UNCHANGED <<decoder, collected, residual, eof, heard>>
  BY DEF decoderVars
<1>2. /\ kind \in Kinds /\ converts \in BOOLEAN /\ told \in BOOLEAN
      /\ made \in 0..MaxSamples /\ quiet \in 0..MaxSilence /\ warmUp \in 0..WarmUp
      /\ capture \in {"running", "ended"} /\ relay \in {"running", "joining", "ended"}
      /\ frameQueue \in Seq(Samples) /\ Len(frameQueue) <= QueueSize
      /\ channel \in Seq(Samples) /\ Len(channel) <= ChannelSize
  BY DEF FeedTypeOK
<1> DEFINE Ours == /\ kind \in Kinds /\ converts \in BOOLEAN /\ told \in BOOLEAN
                   /\ made \in 0..MaxSamples /\ quiet \in 0..MaxSilence /\ warmUp \in 0..WarmUp
                   /\ capture \in {"running", "ended"} /\ relay \in {"running", "joining", "ended"}
                   /\ frameQueue \in Seq(Samples) /\ Len(frameQueue) <= QueueSize
                   /\ channel \in Seq(Samples) /\ Len(channel) <= ChannelSize
<1>3. SUFFICES Ours'
  BY <1>1 DEF FeedTypeOK
<1>4. <<>> \in Seq(Samples) /\ Len(<<>>) <= QueueSize
  BY FeedBounds
<1>5. ASSUME NEW n \in 1..FrameSize, Callback(n) PROVE Ours'
  <2>1. Brings(n) /\ Frame(n) \in Samples /\ made' \in 0..MaxSamples
    BY <1>5, FrameIsSamples DEF Callback
  <2>2. frameQueue' \in Seq(Samples) /\ Len(frameQueue') <= QueueSize
    BY <1>5, <2>1, QueueTakes DEF Callback
  <2> QED BY <1>2, <1>5, <2>1, <2>2 DEF Callback
<1>6. ASSUME NEW n \in 1..FrameSize, Read(n) PROVE Ours'
  <2>1. Brings(n) /\ Frame(n) \in Samples /\ made' \in 0..MaxSamples
    BY <1>6, FrameIsSamples DEF Read
  <2>2. frameQueue' \in Seq(Samples) /\ Len(frameQueue') <= QueueSize
    <3>1. \/ frameQueue' = frameQueue
          \/ frameQueue' = IF Len(frameQueue) = QueueSize THEN frameQueue
                           ELSE Append(frameQueue, Frame(n))
      BY <1>6 DEF Read
    <3> QED BY <1>2, <2>1, <3>1, QueueTakes
  <2>3. warmUp' \in 0..WarmUp
    <3>1. warmUp' = IF warmUp = 0 THEN 0 ELSE warmUp - 1
      BY <1>6 DEF Read
    <3> QED BY <1>2, <3>1, FeedBounds
  <2> QED BY <1>2, <1>6, <2>1, <2>2, <2>3 DEF Read
<1>7. ASSUME NEW n \in 1..FrameSize, Loopback(n) PROVE Ours'
  <2>1. Brings(n) /\ Frame(n) \in Samples /\ made' \in 0..MaxSamples
    BY <1>7, FrameIsSamples DEF Loopback
  <2>2. channel' \in Seq(Samples) /\ Len(channel') <= ChannelSize
    BY <1>7, <2>1, ChannelTakes DEF Loopback
  <2> QED BY <1>2, <1>7, <2>1, <2>2 DEF Loopback
<1>8. CASE PutSilence
  <2>1. [i \in 1..FrameSize |-> Silence] \in Samples
    <3>1. FrameSize \in Nat /\ Silence \in 0..MaxSamples
      BY FeedBounds DEF Silence
    <3>2. [i \in 1..FrameSize |-> Silence] \in [1..FrameSize -> 0..MaxSamples]
      BY <3>1
    <3> QED BY <3>1, <3>2 DEF Samples
  <2>2. channel' \in Seq(Samples) /\ Len(channel') <= ChannelSize
    BY <1>8, <2>1, ChannelTakes DEF PutSilence
  <2>3. quiet' \in 0..MaxSilence
    BY <1>2, <1>8, FeedBounds DEF PutSilence
  <2> QED BY <1>2, <1>8, <2>2, <2>3 DEF PutSilence
<1>9. CASE Relay
  <2>1. frameQueue # <<>> /\ frameQueue' = Tail(frameQueue) /\ TrySend(Head(frameQueue))
    BY <1>9 DEF Relay
  <2>2. /\ Head(frameQueue) \in Samples /\ frameQueue' \in Seq(Samples)
        /\ Len(frameQueue') = Len(frameQueue) - 1
    BY <1>2, <2>1, TailIsShorter
  <2>3. Len(frameQueue') <= QueueSize
    BY <1>2, <2>2, FeedBounds
  <2>4. channel' \in Seq(Samples) /\ Len(channel') <= ChannelSize
    BY <2>1, <2>2, ChannelTakes
  <2> QED BY <1>2, <1>9, <2>2, <2>3, <2>4 DEF Relay
<1>10. CASE ReadEnds \/ LoopbackEnds \/ TellStop
  BY <1>2, <1>10 DEF ReadEnds, LoopbackEnds, TellStop
<1>11. CASE RelayLeaves \/ RelayEnds
  BY <1>2, <1>4, <1>11 DEF RelayLeaves, RelayEnds
<1> HIDE DEF Ours
<1> QED BY <1>5, <1>6, <1>7, <1>8, <1>9, <1>10, <1>11

LEMMA DecoderKeepsTypes ==
  ASSUME FeedTypeOK, Collect \/ TakeFrame \/ Refused \/ NoFrame \/ DeliverPacket \/ DecoderDropped
  PROVE  FeedTypeOK'
<1>1. UNCHANGED <<kind, converts, made, warmUp, quiet, capture, frameQueue, relay, told>>
  BY DEF Collect, TakeFrame, Refused, NoFrame, DeliverPacket, DecoderDropped, sourceVars
<1>2. /\ channel \in Seq(Samples) /\ Len(channel) <= ChannelSize /\ eof \in BOOLEAN
      /\ decoder \in {"idle", "collecting", "dropped"}
      /\ collected \in Samples /\ residual \in Samples /\ heard \in Samples
      /\ decoder # "collecting" => collected = <<>>
  BY DEF FeedTypeOK
<1> DEFINE Ours == /\ channel \in Seq(Samples) /\ Len(channel) <= ChannelSize /\ eof \in BOOLEAN
                   /\ decoder \in {"idle", "collecting", "dropped"}
                   /\ collected \in Samples /\ residual \in Samples /\ heard \in Samples
                   /\ decoder # "collecting" => collected = <<>>
<1>3. SUFFICES Ours'
  BY <1>1 DEF FeedTypeOK
<1>4. <<>> \in Samples /\ <<>> \in Seq(Samples) /\ Len(<<>>) <= ChannelSize
  BY FeedBounds DEF Samples
<1>5. ASSUME channel # <<>>, channel' = Tail(channel)
      PROVE  Head(channel) \in Samples /\ channel' \in Seq(Samples) /\ Len(channel') <= ChannelSize
  <2>1. Head(channel) \in Samples /\ channel' \in Seq(Samples) /\ Len(channel') = Len(channel) - 1
    BY <1>2, <1>5, TailIsShorter
  <2> QED BY <1>2, <2>1, FeedBounds
<1>6. CASE Collect
  BY <1>2, <1>4, <1>6 DEF Collect
<1>7. CASE TakeFrame
  <2>1. /\ channel # <<>> /\ channel' = Tail(channel) /\ collected' = collected \o Decoded(Head(channel))
        /\ decoder = "collecting" /\ UNCHANGED <<decoder, residual, eof, heard>>
    BY <1>7 DEF TakeFrame
  <2>2. Head(channel) \in Samples /\ channel' \in Seq(Samples) /\ Len(channel') <= ChannelSize
    BY <1>5, <2>1
  <2>3. collected' \in Samples
    <3>1. Decoded(Head(channel)) \in Samples
      BY <2>2, DecodedType DEF Samples
    <3> QED BY <1>2, <2>1, <3>1 DEF Samples
  <2> QED BY <1>2, <2>1, <2>2, <2>3
<1>8. CASE Refused
  <2>1. /\ channel # <<>> /\ channel' = Tail(channel) /\ collected' = <<>> /\ decoder' = "idle"
        /\ UNCHANGED <<residual, eof, heard>>
    BY <1>8 DEF Refused
  <2> QED BY <1>2, <1>4, <1>5, <2>1
<1>9. CASE NoFrame
  <2>1. /\ decoder' = "idle" /\ residual' = collected /\ collected' = <<>>
        /\ eof' = (eof \/ SenderGone) /\ UNCHANGED <<channel, heard>>
    BY <1>9 DEF NoFrame
  <2>2. eof' \in BOOLEAN
    BY <1>2, <2>1 DEF SenderGone
  <2> QED BY <1>2, <1>4, <2>1, <2>2
<1>10. CASE DeliverPacket
  <2>1. /\ Len(collected) >= PacketSize /\ heard' = heard \o SubSeq(collected, 1, PacketSize)
        /\ residual' = SubSeq(collected, PacketSize + 1, Len(collected))
        /\ decoder' = "idle" /\ collected' = <<>> /\ UNCHANGED <<channel, eof>>
    BY <1>10 DEF DeliverPacket
  <2>2. collected \in Seq(0..MaxSamples) /\ heard \in Seq(0..MaxSamples) /\ PacketSize \in Nat \ {0}
    BY <1>2, FeedBounds DEF Samples
  <2>3. SubSeq(collected, 1, PacketSize) \in Seq(0..MaxSamples)
    <3>1. 1 \in Nat \ {0} /\ PacketSize \in Int /\ PacketSize <= Len(collected)
      BY <2>1, <2>2
    <3> QED BY <2>2, <3>1, PartIsOf
  <2>4. residual' \in Seq(0..MaxSamples)
    <3>1. PacketSize + 1 \in Nat \ {0} /\ Len(collected) \in Int /\ Len(collected) <= Len(collected)
      BY <2>2
    <3> QED BY <2>1, <2>2, <3>1, PartIsOf
  <2>5. heard' \in Seq(0..MaxSamples)
    BY <2>1, <2>2, <2>3, ConcatProperties
  <2> QED BY <1>2, <1>4, <2>1, <2>4, <2>5 DEF Samples
<1>11. CASE DecoderDropped
  BY <1>2, <1>4, <1>11 DEF DecoderDropped
<1> HIDE DEF Ours
<1> QED BY <1>6, <1>7, <1>8, <1>9, <1>10, <1>11

\* The two queues on the way of live sound never hold more than their capacity, whoever is slow:
\* a frame that finds one full is lost; and between packets nothing is left in the one being
\* collected (LiveFrameSender::try_send, start_usb_capture, send_frame).
THEOREM FeedStaysBounded == FeedInit /\ [][FeedNext]_feedVars => []FeedTypeOK
<1>1. FeedInit => FeedTypeOK
  <2> SUFFICES ASSUME FeedInit PROVE FeedTypeOK
    OBVIOUS
  <2>1. <<>> \in Samples /\ <<>> \in Seq(Samples) /\ Len(<<>>) <= ChannelSize /\ Len(<<>>) <= QueueSize
    BY FeedBounds DEF Samples
  <2>2. 0 \in 0..MaxSamples /\ 0 \in 0..MaxSilence /\ warmUp \in 0..WarmUp
    BY FeedBounds DEF FeedInit
  <2> QED BY <2>1, <2>2 DEF FeedInit, FeedTypeOK
<1>2. FeedTypeOK /\ [FeedNext]_feedVars => FeedTypeOK'
  <2> SUFFICES ASSUME FeedTypeOK, [FeedNext]_feedVars PROVE FeedTypeOK'
    OBVIOUS
  <2>1. CASE \/ \E n \in 1..FrameSize : Callback(n) \/ Read(n) \/ Loopback(n)
             \/ ReadEnds \/ PutSilence \/ LoopbackEnds
             \/ Relay \/ TellStop \/ RelayLeaves \/ RelayEnds
    <3>1. UNCHANGED decoderVars
      BY <2>1 DEF Callback, Read, Loopback, ReadEnds, PutSilence, LoopbackEnds, Relay, TellStop,
                  RelayLeaves, RelayEnds
    <3> QED BY <2>1, <3>1, SourceKeepsTypes
  <2>2. CASE Collect \/ TakeFrame \/ Refused \/ NoFrame \/ DeliverPacket \/ DecoderDropped
    BY <2>2, DecoderKeepsTypes
  <2>3. CASE UNCHANGED feedVars
    BY <2>3 DEF feedVars, FeedTypeOK
  <2> QED BY <2>1, <2>2, <2>3 DEF FeedNext
<1> QED BY <1>1, <1>2, PTL

-----------------------------------------------------------------------------
(* CaptureSources: the captures of the player's live sources.                *)

CaptureRecord ==
  [src : Source, device : {"none", "open", "dead", "closed"},
   thread : {"none", "running", "ended"}, stop : BOOLEAN]

CaptureTypes ==
  /\ MaxCaptures \in Nat /\ begun \in 0 .. MaxCaptures
  /\ captures \in [Capture -> CaptureRecord]
  /\ handle \in [Source -> Capture \cup {NoCapture}]
  /\ step \in [at : {"idle", "checking", "joiningOld", "opening", "starting", "joiningNew",
                     "joiningStop", "stopping"},
               src : Source, new : Capture \cup {NoCapture}]
  /\ client \in [linked : BOOLEAN, grouped : BOOLEAN, session : {"Ready", "Playing"},
                 plays : Capture \cup {NoCapture}]

\* What is held or listened to has begun, and is the source's own.
BegunInv ==
  /\ \A c \in Capture : captures[c].thread # "none" => c <= begun
  /\ \A s \in Source : handle[s] # NoCapture => handle[s] <= begun /\ captures[handle[s]].src = s
  /\ client.plays # NoCapture => client.plays <= begun

\* How far the start of a source has come: there is room for its capture, the old one is let
\* go of before the new one begins, and the new one is the source's own.
StartInv ==
  /\ step.at \in {"checking", "joiningOld", "opening"} => begun < MaxCaptures
  /\ step.at \in {"opening", "starting", "joiningNew"} => handle[step.src] = NoCapture
  /\ IF step.at \in {"starting", "joiningNew"}
     THEN /\ step.new # NoCapture /\ step.new <= begun
          /\ captures[step.new].src = step.src
     ELSE step.new = NoCapture
  /\ step.at = "joiningNew" => captures[step.new].stop = TRUE

LiveInv == CaptureTypes /\ BegunInv /\ StartInv /\ CapturesAreHeld

\* c alone is told to stop, if it is one.
ToldOnly(c) ==
  /\ captures' \in [Capture -> CaptureRecord]
  /\ \A d \in Capture : /\ captures'[d].src = captures[d].src
                        /\ captures'[d].thread = captures[d].thread
                        /\ captures[d].stop = TRUE => captures'[d].stop = TRUE
                        /\ d # c => captures'[d] = captures[d]
                        /\ d = c => captures'[d].stop = TRUE

LEMMA ToldIs ==
  ASSUME CaptureTypes, NEW c \in Capture \cup {NoCapture}, NEW closes \in BOOLEAN,
         captures' = Told(captures, c, closes)
  PROVE  ToldOnly(c)
<1>1. CASE c = NoCapture
  <2>1. captures' = captures /\ c \notin Capture
    BY <1>1 DEF Told, NoCapture, Capture
  <2> QED BY <2>1 DEF ToldOnly, CaptureTypes
<1>2. CASE c # NoCapture
  <2>1. c \in Capture /\ captures \in [Capture -> CaptureRecord]
    BY <1>2 DEF CaptureTypes
  <2>2. PICK device \in {"none", "open", "dead", "closed"} :
          captures' = [captures EXCEPT ![c].stop = TRUE, ![c].device = device]
    <3>1. captures[c].device \in {"none", "open", "dead", "closed"}
      BY <2>1 DEF CaptureRecord
    <3> QED BY <1>2, <3>1 DEF Told
  <2>3. \A d \in Capture :
          captures'[d] = IF d = c THEN [captures[d] EXCEPT !.stop = TRUE, !.device = device]
                                  ELSE captures[d]
    BY <2>1, <2>2
  <2>4. captures' \in [Capture -> CaptureRecord]
    BY <2>1, <2>2 DEF CaptureRecord
  <2>5. ASSUME NEW d \in Capture
        PROVE  /\ captures'[d].src = captures[d].src /\ captures'[d].thread = captures[d].thread
               /\ captures[d].stop = TRUE => captures'[d].stop = TRUE
               /\ d # c => captures'[d] = captures[d]
               /\ d = c => captures'[d].stop = TRUE
    <3>1. captures[d] \in CaptureRecord
      BY <2>1
    <3>2. CASE d = c
      <4>1. captures'[d] = [captures[d] EXCEPT !.stop = TRUE, !.device = device]
        BY <2>3, <3>2
      <4> QED BY <3>1, <3>2, <4>1 DEF CaptureRecord
    <3>3. CASE d # c
      BY <2>3, <3>3
    <3> QED BY <3>2, <3>3
  <2> QED BY <2>4, <2>5 DEF ToldOnly
<1> QED BY <1>1, <1>2

\* A capture by itself: its device dies, its thread ends.
LEMMA StepCapture ==
  ASSUME LiveInv, NEW c \in Capture, DeviceDies(c) \/ ThreadEnds(c)
  PROVE  LiveInv'
<1>1. /\ CaptureTypes /\ BegunInv /\ StartInv /\ CapturesAreHeld
      /\ UNCHANGED <<begun, handle, chosen, shown, step, links, client>>
  BY DEF LiveInv, DeviceDies, ThreadEnds
<1>2. /\ captures' \in [Capture -> CaptureRecord]
      /\ \A d \in Capture : /\ captures'[d].src = captures[d].src
                            /\ captures'[d].stop = captures[d].stop
                            /\ captures'[d].thread \in {captures[d].thread, "ended"}
                            /\ captures[d].thread = "none" => captures'[d].thread = "none"
  <2>1. CASE DeviceDies(c)
    <3>1. captures' = [captures EXCEPT ![c].device = "dead"]
      BY <2>1 DEF DeviceDies
    <3> QED BY <1>1, <3>1 DEF CaptureTypes, CaptureRecord
  <2>2. CASE ThreadEnds(c)
    <3>1. PICK device \in {"none", "open", "dead", "closed"} :
            captures' = [captures EXCEPT ![c].thread = "ended", ![c].device = device]
      <4>1. captures[c].device \in {"none", "open", "dead", "closed"}
        BY <1>1 DEF CaptureTypes, CaptureRecord
      <4> QED BY <2>2, <4>1 DEF ThreadEnds
    <3>2. captures[c].thread = "running"
      BY <2>2 DEF ThreadEnds
    <3> QED BY <1>1, <3>1, <3>2 DEF CaptureTypes, CaptureRecord
  <2> QED BY <2>1, <2>2
<1>3. CaptureTypes'
  BY <1>1, <1>2 DEF CaptureTypes
<1>4. BegunInv'
  BY <1>1, <1>2 DEF BegunInv, CaptureTypes
<1>5. StartInv'
  <2>1. step.new # NoCapture => step.new \in Capture
    BY <1>1 DEF CaptureTypes
  <2> QED BY <1>1, <1>2, <2>1 DEF StartInv
<1>6. CapturesAreHeld'
  <2>1. client.plays # NoCapture => client.plays \in Capture
    BY <1>1 DEF CaptureTypes
  <2>2. \A d \in Capture : captures'[d].thread = "running" => captures[d].thread = "running"
    BY <1>2
  <2> QED BY <1>1, <1>2, <2>1, <2>2 DEF CapturesAreHeld, Unstopped
<1> QED BY <1>3, <1>4, <1>5, <1>6 DEF LiveInv

\* The captures and their holders stay; the start of a source comes to where no capture of its
\* own has begun, or the client changes.
LEMMA StepQuiet ==
  ASSUME LiveInv, UNCHANGED <<captures, begun, handle>>, CaptureTypes',
         \/ UNCHANGED step
         \/ /\ step.new = NoCapture /\ step'.new = NoCapture
            /\ \/ step'.at \in {"idle", "stopping"}
               \/ step'.at = "checking" /\ begun < MaxCaptures,
         client'.plays \in {client.plays, NoCapture}
  PROVE  LiveInv'
<1>1. BegunInv /\ StartInv /\ CapturesAreHeld
  BY DEF LiveInv
<1>2. BegunInv' /\ StartInv'
  BY <1>1 DEF BegunInv, StartInv
<1>3. CapturesAreHeld'
  BY <1>1 DEF CapturesAreHeld, Unstopped
<1> QED BY <1>2, <1>3 DEF LiveInv

LEMMA StepClient ==
  ASSUME LiveInv, Disconnect \/ PlayFile \/ \E grouped \in BOOLEAN : Connect(grouped)
  PROVE  LiveInv'
<1>1. CaptureTypes
  BY DEF LiveInv
<1>2. UNCHANGED <<captures, begun, handle, step>>
  BY DEF Disconnect, PlayFile, Connect
<1>3. /\ client' \in [linked : BOOLEAN, grouped : BOOLEAN, session : {"Ready", "Playing"},
                     plays : Capture \cup {NoCapture}]
      /\ client'.plays = NoCapture
  <2>1. CASE Disconnect
    BY <2>1 DEF Disconnect
  <2>2. CASE PlayFile
    <3>1. client.session \in {"Ready", "Playing"} /\ client.grouped \in BOOLEAN
      BY <1>1 DEF CaptureTypes
    <3>2. PICK session \in {"Ready", "Playing"} :
            client' = [client EXCEPT !.plays = NoCapture, !.session = session]
      BY <2>2, <3>1 DEF PlayFile
    <3> QED BY <1>1, <3>2 DEF CaptureTypes
  <2>3. CASE \E grouped \in BOOLEAN : Connect(grouped)
    BY <2>3 DEF Connect
  <2> QED BY <2>1, <2>2, <2>3
<1>4. CaptureTypes'
  BY <1>1, <1>2, <1>3 DEF CaptureTypes
<1> QED BY <1>2, <1>3, <1>4, StepQuiet

\* The handlers' steps that begin no capture and let go of none.
LEMMA StepLoop ==
  ASSUME LiveInv, NEW s \in Source,
         \/ Choose(s) \/ BluetoothLeft \/ Start(s) \/ NotConnected(s)
         \/ OpenFails(s) \/ StopClient(s)
  PROVE  LiveInv'
<1>1. CaptureTypes /\ StartInv
  BY DEF LiveInv
<1>2. UNCHANGED <<captures, begun, handle>>
  BY DEF Choose, BluetoothLeft, Start, NotConnected, OpenFails, StopClient
<1>3. \/ UNCHANGED step
      \/ /\ step.at \in {"idle", "checking", "opening", "stopping"} /\ step' = AtRest
      \/ /\ step = AtRest /\ begun < MaxCaptures
         /\ step' = [at |-> "checking", src |-> s, new |-> NoCapture]
  BY DEF Choose, BluetoothLeft, Start, NotConnected, OpenFails,
         StopClient, At
<1>4. UNCHANGED client \/ client' = [client EXCEPT !.plays = NoCapture]
  BY DEF Choose, BluetoothLeft, Start, NotConnected, OpenFails, StopClient
<1>5. client'.plays \in {client.plays, NoCapture}
  BY <1>1, <1>4 DEF CaptureTypes
<1>6. \/ UNCHANGED step
      \/ /\ step.new = NoCapture /\ step'.new = NoCapture
         /\ \/ step'.at \in {"idle", "stopping"}
            \/ step'.at = "checking" /\ begun < MaxCaptures
  BY <1>1, <1>3 DEF StartInv, AtRest
<1>7. CaptureTypes'
  <2>1. step' \in [at : {"idle", "checking", "joiningOld", "opening", "starting", "joiningNew",
                          "joiningStop", "stopping"},
                    src : Source, new : Capture \cup {NoCapture}]
    BY <1>1, <1>3 DEF CaptureTypes, AtRest, Source
  <2>2. client' \in [linked : BOOLEAN, grouped : BOOLEAN, session : {"Ready", "Playing"},
                    plays : Capture \cup {NoCapture}]
    BY <1>1, <1>4 DEF CaptureTypes
  <2> QED BY <1>1, <1>2, <2>1, <2>2 DEF CaptureTypes
<1> QED BY <1>2, <1>5, <1>6, <1>7, StepQuiet

\* A capture is told to stop; at most that one is let go of.
LEMMA StepTold ==
  ASSUME LiveInv, NEW c \in Capture \cup {NoCapture}, ToldOnly(c), CaptureTypes', StartInv',
         UNCHANGED <<begun, client>>, step'.new = step.new \/ step.new \in {c, NoCapture},
         \A s \in Source : handle'[s] = handle[s] \/ (handle[s] = c /\ handle'[s] = NoCapture)
  PROVE  LiveInv'
<1>1. CaptureTypes /\ BegunInv /\ CapturesAreHeld
  BY DEF LiveInv
<1>2. \A d \in Capture : /\ captures'[d].src = captures[d].src
                         /\ captures'[d].thread = captures[d].thread
                         /\ captures[d].stop = TRUE => captures'[d].stop = TRUE
                         /\ d = c => captures'[d].stop = TRUE
                         /\ captures[d].src \in Source /\ captures[d].stop \in BOOLEAN
                         /\ captures'[d].stop \in BOOLEAN /\ d # NoCapture
  BY <1>1 DEF ToldOnly, CaptureTypes, CaptureRecord, Capture, NoCapture
<1>3. BegunInv'
  <2>1. \A s \in Source : handle'[s] # NoCapture => handle'[s] = handle[s] /\ handle[s] \in Capture
    BY <1>1 DEF CaptureTypes
  <2> QED BY <1>1, <1>2, <2>1 DEF BegunInv
<1>4. CapturesAreHeld'
  <2>1. ASSUME NEW d \in Capture, Unstopped(d)'
        PROVE  handle'[captures'[d].src] = d \/ step'.new = d
    <3>1. captures[d].thread = "running" /\ captures[d].stop # TRUE /\ d # c
      BY <1>2, <2>1 DEF Unstopped
    <3>2. handle[captures[d].src] = d \/ step.new = d
      BY <1>1, <1>2, <3>1 DEF CapturesAreHeld, Unstopped
    <3> QED BY <1>2, <3>1, <3>2
  <2>2. ASSUME client'.plays # NoCapture
        PROVE  \/ captures'[client'.plays].thread = "ended" \/ captures'[client'.plays].stop
               \/ handle'[captures'[client'.plays].src] = client'.plays
    <3> DEFINE p == client.plays
    <3>1. p \in Capture /\ client' = client
      BY <1>1, <2>2 DEF CaptureTypes
    <3>2. captures[p].thread = "ended" \/ captures[p].stop = TRUE \/ handle[captures[p].src] = p
      BY <1>1, <1>2, <2>2, <3>1 DEF CapturesAreHeld
    <3>3. captures'[p].thread = "ended" \/ captures'[p].stop = TRUE \/ handle'[captures'[p].src] = p
      BY <1>2, <3>1, <3>2
    <3> QED BY <3>1, <3>3
  <2> QED BY <2>1, <2>2 DEF CapturesAreHeld
<1> QED BY <1>3, <1>4 DEF LiveInv

LEMMA StepTellOld ==
  ASSUME LiveInv, NEW s \in Source, TellOld(s)
  PROVE  LiveInv'
<1>1. /\ step.at = "checking" /\ step.src = s /\ captures' = Told(captures, handle[s], TRUE)
      /\ step' = [step EXCEPT !.at = "joiningOld"]
      /\ UNCHANGED <<begun, handle, chosen, shown, links, client>>
  BY DEF TellOld, At, Going
<1>2. CaptureTypes /\ StartInv /\ handle[s] \in Capture \cup {NoCapture}
  BY DEF LiveInv, CaptureTypes
<1>3. ToldOnly(handle[s])
  BY <1>1, <1>2, ToldIs
<1>4. CaptureTypes'
  BY <1>1, <1>2, <1>3 DEF CaptureTypes, ToldOnly
<1>5. step'.at = "joiningOld" /\ step'.new = step.new /\ step.new = NoCapture
  BY <1>1, <1>2 DEF CaptureTypes, StartInv
<1>6. StartInv'
  BY <1>1, <1>2, <1>5 DEF StartInv
<1> QED BY <1>1, <1>2, <1>3, <1>4, <1>5, <1>6, StepTold

LEMMA StepStreamFails ==
  ASSUME LiveInv, NEW s \in Source, StreamFails(s)
  PROVE  LiveInv'
<1>1. /\ step.at = "starting" /\ step.src = s
      /\ captures' = Told(captures, step.new, FALSE)
      /\ step' = [step EXCEPT !.at = "joiningNew"]
      /\ client' = client \/ client' = [client EXCEPT !.plays = NoCapture]
      /\ UNCHANGED <<begun, handle, chosen, shown, links>>
  BY DEF StreamFails, At, Going
<1>2. /\ CaptureTypes /\ BegunInv /\ StartInv /\ CapturesAreHeld
      /\ step.new \in Capture /\ step.new # NoCapture
  BY <1>1 DEF LiveInv, CaptureTypes, StartInv
<1>3. ToldOnly(step.new)
  BY <1>1, <1>2, ToldIs
<1>4. CaptureTypes'
  BY <1>1, <1>2, <1>3 DEF CaptureTypes, ToldOnly
<1>5. /\ step'.at = "joiningNew" /\ step'.new = step.new /\ step'.src = s
      /\ captures'[step.new].stop = TRUE /\ captures'[step.new].src = captures[step.new].src
  BY <1>1, <1>2, <1>3 DEF CaptureTypes, ToldOnly
<1>6. StartInv'
  BY <1>1, <1>2, <1>5 DEF StartInv
<1>7. client'.plays \in {client.plays, NoCapture}
  BY <1>1, <1>2 DEF CaptureTypes
<1>8. \A d \in Capture : /\ captures'[d].src = captures[d].src
                         /\ captures'[d].thread = captures[d].thread
                         /\ captures[d].stop = TRUE => captures'[d].stop = TRUE
                         /\ captures[d].stop \in BOOLEAN /\ captures'[d].stop \in BOOLEAN
  BY <1>2, <1>3 DEF ToldOnly, CaptureTypes, CaptureRecord
<1>9. BegunInv'
  <2>1. \A t \in Source : handle[t] # NoCapture => handle[t] \in Capture
    BY <1>2 DEF CaptureTypes
  <2> QED BY <1>1, <1>2, <1>7, <1>8, <2>1 DEF BegunInv
<1>10. CapturesAreHeld'
  <2>1. client.plays # NoCapture => client.plays \in Capture
    BY <1>2 DEF CaptureTypes
  <2>2. \A d \in Capture : captures'[d].stop # TRUE => captures[d].stop # TRUE
    BY <1>8
  <2>3. ASSUME NEW d \in Capture, Unstopped(d)'
        PROVE  handle'[captures'[d].src] = d \/ step'.new = d
    <3>1. captures'[d].thread = "running" /\ captures'[d].stop # TRUE
      BY <1>8, <2>3 DEF Unstopped
    <3>2. captures[d].thread = "running" /\ ~captures[d].stop
      BY <1>8, <2>2, <3>1
    <3>3. handle[captures[d].src] = d \/ step.new = d
      BY <1>2, <3>2 DEF CapturesAreHeld, Unstopped
    <3> QED BY <1>1, <1>5, <1>8, <3>3
  <2>4. ASSUME client'.plays # NoCapture
        PROVE  \/ captures'[client'.plays].thread = "ended" \/ captures'[client'.plays].stop
               \/ handle'[captures'[client'.plays].src] = client'.plays
    <3> DEFINE c == client.plays
    <3>1. client'.plays = c /\ c \in Capture /\ c # NoCapture
      BY <1>7, <2>1, <2>4
    <3>2. captures[c].thread = "ended" \/ captures[c].stop = TRUE \/ handle[captures[c].src] = c
      BY <1>2, <1>8, <3>1 DEF CapturesAreHeld
    <3>3. captures'[c].thread = "ended" \/ captures'[c].stop = TRUE \/ handle'[captures'[c].src] = c
      BY <1>1, <1>8, <3>1, <3>2
    <3> QED BY <3>1, <3>3
  <2> QED BY <2>3, <2>4 DEF CapturesAreHeld
<1> QED BY <1>4, <1>6, <1>9, <1>10 DEF LiveInv

LEMMA StepJoinNew ==
  ASSUME LiveInv, NEW s \in Source, JoinNew(s)
  PROVE  LiveInv'
<1>1. /\ step.at = "joiningNew" /\ captures' = Told(captures, step.new, TRUE)
      /\ step' = AtRest
      /\ UNCHANGED <<begun, handle, chosen, shown, links, client>>
  BY DEF JoinNew, At
<1>2. CaptureTypes /\ StartInv /\ step.new \in Capture \cup {NoCapture}
  BY DEF LiveInv, CaptureTypes
<1>3. ToldOnly(step.new)
  BY <1>1, <1>2, ToldIs
<1>4. CaptureTypes'
  BY <1>1, <1>2, <1>3 DEF CaptureTypes, ToldOnly, AtRest, Source
<1>5. StartInv'
  BY <1>1 DEF StartInv, AtRest
<1> QED BY <1>1, <1>2, <1>3, <1>4, <1>5, StepTold

LEMMA StepStop ==
  ASSUME LiveInv, NEW s \in Source, Stop(s)
  PROVE  LiveInv'
<1>1. /\ step = AtRest /\ captures' = Told(captures, handle[s], TRUE)
      /\ step'.at \in {"stopping", "joiningStop"} /\ step'.new = NoCapture
      /\ step' \in [at : {"stopping", "joiningStop"}, src : {s}, new : {NoCapture}]
      /\ handle' = handle \/ handle' = [handle EXCEPT ![s] = NoCapture]
      /\ UNCHANGED <<begun, chosen, shown, links, client>>
  BY DEF Stop
<1>2. CaptureTypes /\ handle[s] \in Capture \cup {NoCapture}
  BY DEF LiveInv, CaptureTypes
<1>3. ToldOnly(handle[s])
  BY <1>1, <1>2, ToldIs
<1>4. CaptureTypes'
  BY <1>1, <1>2, <1>3 DEF CaptureTypes, ToldOnly
<1>5. StartInv'
  BY <1>1 DEF StartInv
<1>6. \A t \in Source : handle'[t] = handle[t] \/ (handle[t] = handle[s] /\ handle'[t] = NoCapture)
  BY <1>1, <1>2 DEF CaptureTypes
<1>7. step'.new = step.new
  BY <1>1 DEF AtRest
<1> QED BY <1>1, <1>2, <1>3, <1>4, <1>5, <1>6, <1>7, StepTold

\* The old capture is let go of once its thread has ended.
LEMMA StepJoin ==
  ASSUME LiveInv, NEW s \in Source, JoinOld(s) \/ JoinStopped(s)
  PROVE  LiveInv'
<1>1. /\ step.at \in {"joiningOld", "joiningStop"} /\ step.src = s
      /\ handle[s] # NoCapture => captures[handle[s]].thread = "ended"
      /\ handle' = [handle EXCEPT ![s] = NoCapture]
      /\ step' = [step EXCEPT !.at = IF step.at = "joiningOld" THEN "opening" ELSE "stopping"]
      /\ UNCHANGED <<captures, begun, client>>
  BY DEF JoinOld, JoinStopped, At, Joinable, Going
<1>2. CaptureTypes /\ BegunInv /\ StartInv /\ CapturesAreHeld
  BY DEF LiveInv
<1>3. CaptureTypes'
  BY <1>1, <1>2 DEF CaptureTypes
<1>4. /\ handle'[s] = NoCapture /\ \A t \in Source : t # s => handle'[t] = handle[t]
      /\ step'.src = s /\ step'.new = step.new
      /\ step'.at = IF step.at = "joiningOld" THEN "opening" ELSE "stopping"
  BY <1>1, <1>2 DEF CaptureTypes
<1>5. BegunInv' /\ StartInv'
  BY <1>1, <1>2, <1>4 DEF BegunInv, StartInv
<1>6. CapturesAreHeld'
  <2>1. \A d \in Capture : captures[d].src \in Source /\ d # NoCapture
    BY <1>2 DEF CaptureTypes, CaptureRecord, Capture, NoCapture
  <2>2. \A d \in Capture : handle[captures[d].src] = d =>
          handle'[captures[d].src] = d \/ captures[d].thread = "ended"
    BY <1>1, <1>4, <2>1
  <2>3. client.plays # NoCapture => client.plays \in Capture
    BY <1>2 DEF CaptureTypes
  <2> QED BY <1>1, <1>2, <1>4, <2>2, <2>3 DEF CapturesAreHeld, Unstopped
<1> QED BY <1>3, <1>5, <1>6 DEF LiveInv

\* A capture begins, held by the handler.
LEMMA StepOpen ==
  ASSUME LiveInv, NEW s \in Source, Open(s)
  PROVE  LiveInv'
<1>1. CaptureTypes /\ BegunInv /\ StartInv /\ CapturesAreHeld
  BY DEF LiveInv
<1> DEFINE n == begun + 1
<1>2. PICK device \in {"open", "dead"} :
        captures' = [captures EXCEPT ![n] = [src |-> s, device |-> device, thread |-> "running",
                                             stop |-> FALSE]]
  BY DEF Open
<1>3. /\ step.at = "opening" /\ step.src = s /\ begun' = n
      /\ step' = [[step EXCEPT !.at = "starting"] EXCEPT !.new = n]
      /\ UNCHANGED <<handle, client>>
  BY DEF Open, At, Going
<1>4. /\ n \in Capture /\ n \in Nat /\ begun \in Nat /\ n \in 0 .. MaxCaptures
      /\ n # NoCapture /\ ~(n <= begun)
  BY <1>1, <1>3 DEF CaptureTypes, StartInv, Capture, NoCapture
<1> HIDE DEF n
<1>5. /\ captures'[n] = [src |-> s, device |-> device, thread |-> "running", stop |-> FALSE]
      /\ \A d \in Capture : d # n => captures'[d] = captures[d]
  BY <1>1, <1>2, <1>4 DEF CaptureTypes
<1>6. CaptureTypes'
  BY <1>1, <1>2, <1>3, <1>4 DEF CaptureTypes, CaptureRecord
<1>7. step'.at = "starting" /\ step'.src = s /\ step'.new = n
  BY <1>1, <1>3 DEF CaptureTypes
<1>8. \A d \in Capture : d \in Nat /\ (d <= begun => d <= n)
  BY <1>4 DEF Capture, n
<1>9. /\ \A t \in Source : handle[t] # NoCapture => handle[t] \in Capture /\ handle[t] # n
      /\ client.plays # NoCapture => client.plays \in Capture /\ client.plays # n
  BY <1>1, <1>4 DEF CaptureTypes, BegunInv
<1>10. n <= n
  BY <1>4
<1>11. BegunInv'
  <2>1. \A d \in Capture : captures'[d].thread # "none" => d <= n
    BY <1>1, <1>5, <1>8, <1>10 DEF BegunInv
  <2>2. \A t \in Source : handle[t] # NoCapture => handle[t] <= n /\ captures'[handle[t]].src = t
    BY <1>1, <1>5, <1>8, <1>9 DEF BegunInv
  <2>3. client.plays # NoCapture => client.plays <= n
    BY <1>1, <1>8, <1>9 DEF BegunInv
  <2> QED BY <1>3, <2>1, <2>2, <2>3 DEF BegunInv
<1>12. StartInv'
  BY <1>1, <1>3, <1>4, <1>5, <1>7, <1>10 DEF StartInv
<1>13. CapturesAreHeld'
  <2>1. step.new = NoCapture /\ \A d \in Capture : d # NoCapture
    BY <1>1, <1>3 DEF StartInv, Capture, NoCapture
  <2> QED BY <1>1, <1>3, <1>5, <1>7, <1>9, <2>1 DEF CapturesAreHeld, Unstopped
<1> QED BY <1>6, <1>11, <1>12, <1>13 DEF LiveInv

\* The streamer takes the new capture, and the source holds it.
LEMMA StepStreams ==
  ASSUME LiveInv, NEW s \in Source, Streams(s)
  PROVE  LiveInv'
<1>1. /\ step.at = "starting" /\ step.src = s /\ step' = AtRest
      /\ handle' = [handle EXCEPT ![s] = step.new]
      /\ client' = [client EXCEPT !.plays = step.new,
                                !.session = IF client.grouped THEN @ ELSE "Playing"]
      /\ UNCHANGED <<captures, begun>>
  BY DEF Streams, At
<1>2. /\ CaptureTypes /\ BegunInv /\ StartInv /\ CapturesAreHeld
      /\ step.new \in Capture \cup {NoCapture}
  BY DEF LiveInv, CaptureTypes
<1>3. /\ step.new # NoCapture /\ step.new <= begun /\ captures[step.new].src = s
      /\ step.new \in Capture /\ handle[s] = NoCapture
  BY <1>1, <1>2 DEF StartInv
<1>4. /\ handle'[s] = step.new /\ \A t \in Source : t # s => handle'[t] = handle[t]
      /\ client'.plays = step.new /\ step'.new = NoCapture /\ step'.at = "idle"
  BY <1>1, <1>2 DEF CaptureTypes, AtRest
<1>5. CaptureTypes'
  BY <1>1, <1>2 DEF CaptureTypes, AtRest, Source
<1>6. BegunInv'
  BY <1>1, <1>2, <1>3, <1>4 DEF BegunInv
<1>7. StartInv'
  BY <1>4 DEF StartInv
<1>8. CapturesAreHeld'
  <2>1. \A d \in Capture : captures[d].src \in Source /\ d # NoCapture
    BY <1>2 DEF CaptureTypes, CaptureRecord, Capture, NoCapture
  <2>2. \A d \in Capture : handle[captures[d].src] = d \/ step.new = d =>
          handle'[captures[d].src] = d
    BY <1>3, <1>4, <2>1
  <2> QED BY <1>1, <1>2, <1>3, <1>4, <2>2 DEF CapturesAreHeld, Unstopped
<1> QED BY <1>5, <1>6, <1>7, <1>8 DEF LiveInv

LEMMA LiveStarts ==
  ASSUME AppInit
  PROVE  LiveInv
<1>1. CaptureTypes
  <2>1. MaxCaptures \in Nat
    BY CaptureSourcesAssumption DEF CaptureSourcesAssumption
  <2> QED BY <2>1 DEF AppInit, CaptureTypes, CaptureRecord, Source, AtRest
<1>2. BegunInv
  BY DEF AppInit, BegunInv, NoCapture
<1>3. StartInv
  BY DEF AppInit, StartInv, AtRest
<1>4. CapturesAreHeld
  BY DEF AppInit, CapturesAreHeld, Unstopped
<1> QED BY <1>1, <1>2, <1>3, <1>4 DEF LiveInv

LEMMA LiveStays == AppInit /\ [][AppNext]_appVars => []LiveInv
<1>1. AppInit => LiveInv
  BY LiveStarts
<1>2. LiveInv /\ [AppNext]_appVars => LiveInv'
  <2> SUFFICES ASSUME LiveInv, [AppNext]_appVars PROVE LiveInv'
    OBVIOUS
  <2>1. ASSUME NEW c \in Capture, DeviceDies(c) \/ ThreadEnds(c)
        PROVE  LiveInv'
    BY <2>1, StepCapture
  <2>2. ASSUME NEW s \in Source, Choose(s) \/ Start(s)
        PROVE  LiveInv'
    BY <2>2, StepLoop
  <2>3. ASSUME NEW s \in Source, Stop(s)
        PROVE  LiveInv'
    BY <2>3, StepStop
  <2>4. ASSUME NEW s \in Source, Handler(s)
        PROVE  LiveInv'
    <3>1. CASE NotConnected(s) \/ OpenFails(s) \/ StopClient(s)
      BY <3>1, StepLoop
    <3>2. CASE TellOld(s)
      BY <3>2, StepTellOld
    <3>3. CASE JoinOld(s) \/ JoinStopped(s)
      BY <3>3, StepJoin
    <3>4. CASE Open(s)
      BY <3>4, StepOpen
    <3>5. CASE Streams(s)
      BY <3>5, StepStreams
    <3>6. CASE StreamFails(s)
      BY <3>6, StepStreamFails
    <3>7. CASE JoinNew(s)
      BY <3>7, StepJoinNew
    <3> QED BY <2>4, <3>1, <3>2, <3>3, <3>4, <3>5, <3>6, <3>7 DEF Handler
  <2>5. CASE BluetoothLeft
    <3>1. "bluetooth" \in Source
      BY DEF Source
    <3> QED BY <2>5, <3>1, StepLoop
  <2>6. CASE Disconnect \/ PlayFile \/ \E grouped \in BOOLEAN : Connect(grouped)
    BY <2>6, StepClient
  <2>7. CASE UNCHANGED appVars
    <3>1. /\ UNCHANGED <<captures, begun, handle, step, client>>
          /\ CaptureTypes
      BY <2>7 DEF appVars, LiveInv
    <3>2. CaptureTypes'
      BY <3>1 DEF CaptureTypes
    <3> QED BY <3>1, <3>2, StepQuiet
  <2> QED BY <2>1, <2>2, <2>3, <2>4, <2>5, <2>6, <2>7 DEF AppNext
<1> QED BY <1>1, <1>2, PTL

\* A capture that goes on without having been told to stop is the one that the application holds
\* for its source or is just starting, so that a source never has two; and what the streamer
\* listens to is one that has ended, was told to, or is held (UsbAudioStartSource and StopSource,
\* BluetoothStartSource and StopSource in app.rs).  For any number of starts.
THEOREM CapturesStayHeld == AppInit /\ [][AppNext]_appVars => []CapturesAreHeld
<1>1. LiveInv => CapturesAreHeld
  BY DEF LiveInv
<1> QED BY <1>1, LiveStays, PTL

\* Captures are begun one after the other, and a handler that has ended leaves nothing behind.
BegunInOrder ==
  /\ links \in 0..MaxLinks /\ chosen \subseteq Source /\ shown \subseteq Source
  /\ (step.at = "idle" <=> step = AtRest)
  /\ \A c \in Capture : captures[c].thread # "none" <=> c <= begun

LEMMA BegunStep ==
  ASSUME LiveInv, BegunInOrder, [AppNext]_appVars
  PROVE  BegunInOrder'
<1>1. /\ MaxCaptures \in Nat /\ MaxLinks \in Nat
      /\ captures \in [Capture -> CaptureRecord] /\ begun \in 0..MaxCaptures
      /\ handle \in [Source -> Capture \cup {NoCapture}]
      /\ step \in [at : {"idle", "checking", "joiningOld", "opening", "starting", "joiningNew",
                         "joiningStop", "stopping"},
                   src : Source, new : Capture \cup {NoCapture}]
  BY CaptureSourcesAssumption DEF CaptureSourcesAssumption, LiveInv, CaptureTypes
<1>2. /\ links \in 0..MaxLinks /\ chosen \subseteq Source /\ shown \subseteq Source
      /\ (step.at = "idle" <=> step = AtRest)
      /\ \A c \in Capture : captures[c].thread # "none" <=> c <= begun
  BY DEF BegunInOrder
<1> DEFINE Threads == \A c \in Capture : captures[c].thread # "none" <=> c <= begun
           Ended == step.at = "idle" <=> step = AtRest
           Shown == links \in 0..MaxLinks /\ chosen \subseteq Source /\ shown \subseteq Source
<1>3. Shown'
  <2>1. chosen' \subseteq Source
    BY <1>2 DEF AppNext, DeviceDies, ThreadEnds, Choose, Start, Stop, Handler, NotConnected, TellOld,
                JoinOld, OpenFails, Open, Streams, StreamFails, JoinNew, JoinStopped, StopClient,
                BluetoothLeft, Connect, Disconnect, PlayFile, appVars
  <2>2. shown' \subseteq Source
    BY <1>2 DEF AppNext, DeviceDies, ThreadEnds, Choose, Start, Stop, Handler, NotConnected, TellOld,
                JoinOld, OpenFails, Open, Streams, StreamFails, JoinNew, JoinStopped, StopClient,
                BluetoothLeft, Connect, Disconnect, PlayFile, appVars
  <2>3. links' = links \/ (links < MaxLinks /\ links' = links + 1)
    BY DEF AppNext, DeviceDies, ThreadEnds, Choose, Start, Stop, Handler, NotConnected, TellOld,
           JoinOld, OpenFails, Open, Streams, StreamFails, JoinNew, JoinStopped, StopClient,
           BluetoothLeft, Connect, Disconnect, PlayFile, appVars
  <2> QED BY <1>1, <1>2, <2>1, <2>2, <2>3
<1>4. Ended'
  <2>1. \A where \in {"checking", "joiningOld", "opening", "starting", "joiningNew", "joiningStop",
                      "stopping"} : Going(where).at = where /\ where # "idle"
    BY <1>1 DEF Going
  <2>2. AtRest.at = "idle"
    BY DEF AtRest
  <2>3. (step' = step) \/ (step' = AtRest) \/ (step'.at # "idle")
    <3>1. CASE \E s \in Source : Choose(s) \/ NotConnected(s) \/ OpenFails(s) \/ Streams(s)
                                  \/ JoinNew(s) \/ StopClient(s)
      <4>1. PICK s \in Source : Choose(s) \/ NotConnected(s) \/ OpenFails(s) \/ Streams(s)
                                 \/ JoinNew(s) \/ StopClient(s)
        BY <3>1
      <4>2. Choose(s) => step' = step
        BY DEF Choose
      <4>3. NotConnected(s) \/ OpenFails(s) \/ Streams(s) => step' = AtRest
        BY DEF NotConnected, OpenFails, Streams
      <4>4. JoinNew(s) \/ StopClient(s) => step' = AtRest
        BY DEF JoinNew, StopClient
      <4> QED BY <4>1, <4>2, <4>3, <4>4, Zenon
    <3>2. CASE \E s \in Source : Start(s) \/ Stop(s)
      <4>1. ASSUME NEW s \in Source, Start(s) PROVE step'.at = "checking"
        BY <4>1 DEF Start
      <4>2. ASSUME NEW s \in Source, Stop(s) PROVE step'.at \in {"stopping", "joiningStop"}
        BY <4>2 DEF Stop
      <4> QED BY <3>2, <4>1, <4>2
    <3>3. CASE \E s \in Source : TellOld(s) \/ JoinOld(s) \/ StreamFails(s) \/ JoinStopped(s)
      BY <3>3, <2>1 DEF TellOld, JoinOld, StreamFails, JoinStopped
    <3>4. CASE \E s \in Source : Open(s)
      <4>1. step' = [Going("starting") EXCEPT !.new = begun']
        BY <3>4 DEF Open
      <4>2. step'.at = "starting"
        BY <1>1, <4>1 DEF Going
      <4> QED BY <4>2
    <3>5. CASE \E c \in Capture : DeviceDies(c) \/ ThreadEnds(c)
      BY <3>5 DEF DeviceDies, ThreadEnds
    <3>6. CASE \/ BluetoothLeft \/ Disconnect \/ PlayFile \/ UNCHANGED appVars
               \/ \E grouped \in BOOLEAN : Connect(grouped)
      BY <3>6 DEF BluetoothLeft, Disconnect, PlayFile, Connect, appVars
    <3> QED BY <3>1, <3>2, <3>3, <3>4, <3>5, <3>6 DEF AppNext, Handler
  <2> QED BY <1>2, <2>2, <2>3
<1>5. Threads'
  <2>1. ASSUME UNCHANGED begun,
               \A c \in Capture : captures'[c].thread # "none" <=> captures[c].thread # "none"
        PROVE  Threads'
    BY <1>2, <2>1
  <2>2. CASE \E c \in Capture : DeviceDies(c) \/ ThreadEnds(c)
    <3>1. PICK c \in Capture : DeviceDies(c) \/ ThreadEnds(c)
      BY <2>2
    <3>2. CASE DeviceDies(c)
      <4>1. captures' = [captures EXCEPT ![c].device = "dead"] /\ UNCHANGED begun
        BY <3>2 DEF DeviceDies
      <4>2. \A d \in Capture : captures'[d].thread = captures[d].thread
        BY <1>1, <4>1 DEF CaptureRecord
      <4> QED BY <2>1, <4>1, <4>2
    <3>3. CASE ThreadEnds(c)
      <4>1. PICK device : captures' = [captures EXCEPT ![c].thread = "ended", ![c].device = device]
        BY <3>3 DEF ThreadEnds
      <4>2. UNCHANGED begun /\ captures[c].thread = "running"
        BY <3>3 DEF ThreadEnds
      <4>3. \A d \in Capture : captures'[d].thread = IF d = c THEN "ended" ELSE captures[d].thread
        BY <1>1, <4>1 DEF CaptureRecord
      <4> QED BY <2>1, <4>2, <4>3
    <3> QED BY <3>1, <3>2, <3>3
  <2>3. CASE \E s \in Source : TellOld(s) \/ StreamFails(s) \/ JoinNew(s) \/ Stop(s)
    <3>1. PICK c \in Capture \cup {NoCapture}, closes \in BOOLEAN : captures' = Told(captures, c, closes)
      BY <1>1, <2>3 DEF TellOld, StreamFails, JoinNew, Stop
    <3>2. ToldOnly(c) /\ UNCHANGED begun
      BY <2>3, <3>1, ToldIs DEF LiveInv, TellOld, StreamFails, JoinNew, Stop
    <3> QED BY <2>1, <3>2 DEF ToldOnly
  <2>4. CASE \E s \in Source : Open(s)
    <3>1. PICK s \in Source : Open(s)
      BY <2>4
    <3>2. PICK device : captures' = [captures EXCEPT ![begun'] = [src |-> s, device |-> device,
                                                         thread |-> "running", stop |-> FALSE]]
      BY <3>1 DEF Open
    <3>3. begun' = begun + 1
      BY <3>1 DEF Open
    <3>4. \A d \in Capture : captures'[d].thread = IF d = begun + 1 THEN "running" ELSE captures[d].thread
      BY <1>1, <3>2, <3>3
    <3>5. \A d \in Capture : d \in Nat /\ begun \in Nat /\ (d <= begun + 1 <=> d = begun + 1 \/ d <= begun)
      BY <1>1 DEF Capture
    <3> QED BY <1>2, <3>3, <3>4, <3>5
  <2>5. CASE UNCHANGED <<captures, begun>>
    BY <2>1, <2>5
  <2>6. \/ \E c \in Capture : DeviceDies(c) \/ ThreadEnds(c)
        \/ \E s \in Source : TellOld(s) \/ StreamFails(s) \/ JoinNew(s) \/ Stop(s)
        \/ \E s \in Source : Open(s)
        \/ UNCHANGED <<captures, begun>>
    BY DEF AppNext, Choose, Start, Handler, NotConnected, JoinOld, OpenFails, Streams, JoinStopped,
           StopClient, BluetoothLeft, Connect, Disconnect, PlayFile, appVars
  <2> QED BY <2>2, <2>3, <2>4, <2>5, <2>6
<1> QED BY <1>3, <1>4, <1>5 DEF BegunInOrder

\* What the application holds for a source is a capture of that source, captures are begun in their
\* order, and a handler that has ended has let go of the one it was starting (UsbAudioStartSource,
\* BluetoothStartSource and the stops).
THEOREM HandlesStayOwn == AppInit /\ [][AppNext]_appVars => []AppTypeOK
<1>1. AppInit => BegunInOrder
  <2> SUFFICES ASSUME AppInit PROVE BegunInOrder
    OBVIOUS
  <2>1. 0 \in 0..MaxLinks /\ \A c \in Capture : ~(c <= 0)
    BY CaptureSourcesAssumption DEF CaptureSourcesAssumption, Capture
  <2> QED BY <2>1 DEF AppInit, BegunInOrder, AtRest
<1>2. LiveInv /\ BegunInOrder /\ [AppNext]_appVars => BegunInOrder'
  BY BegunStep
<1>3. LiveInv /\ BegunInOrder => AppTypeOK
  BY DEF LiveInv, BegunInOrder, CaptureTypes, CaptureRecord, BegunInv, AppTypeOK
<1> QED BY <1>1, <1>2, <1>3, LiveStays, PTL
=============================================================================
