--------------------------- MODULE TimingProofs ---------------------------
(***************************************************************************)
(* What holds of clock synchronisation, for any skew of the clocks, any    *)
(* losses, delays and reordering, and however long it goes on: a session   *)
(* follows the clock it was started for, and an offset is true to within   *)
(* the delay it reports.                                                   *)
(***************************************************************************)
EXTENDS Timing, TLAPS

-----------------------------------------------------------------------------
(* PTP: who is followed.                                                     *)

OfMaster(s) == s = None \/ s.src = Master

\* The timestamps the BMCA flow holds are of the receiver it follows, as is what it
\* reported; the group master reports itself and measures nothing.
ClockInv ==
  /\ flow = "bmca" => /\ OfMaster(t1) /\ OfMaster(t2) /\ OfMaster(t3)
                      /\ clockId # None => clockId.from = Master \/ clockId.id = Zeros
                      /\ used # None => /\ used.t1.src = Master /\ used.t2.src = Master
                                        /\ used.t3.src = Master /\ used.t4.src = Master
  /\ flow = "group" => clockId \in {None, OwnClock} /\ offset = ZeroOffset

LEMMA ClockSteps ==
  ASSUME ClockInv, PtpNext
  PROVE  ClockInv'
<1> USE DEF ClockInv, OfMaster
<1>1. CASE Tick \/ (\E p \in Peers : PeerSyncs(p) \/ PeerAnnounces(p) \/ PeerAsks(p) \/ PeerAnswers(p))
           \/ SlaveHello \/ BmcaHello \/ GroupHello \/ HelloFails \/ DrainEvent \/ DropGeneral
           \/ HandleDelayReq \/ SlaveAnnounces \/ SocketError
  <2>1. UNCHANGED <<flow, exchange, report>>
    BY <1>1 DEF Tick, PeerSyncs, PeerAnnounces, PeerAsks, PeerAnswers, SlaveHello, BmcaHello,
                GroupHello, HelloFails, DrainEvent, DropGeneral, HandleDelayReq, SlaveAnnounces,
                SocketError
  <2> QED BY <2>1 DEF exchange, report
<1>2. CASE GroupSyncs
  BY <1>2 DEF GroupSyncs, report
<1>3. CASE BmcaHears
  BY <1>3 DEF BmcaHears, Decide, Listens, exchange
<1>4. CASE BmcaTimesOut
  BY <1>4 DEF BmcaTimesOut, Decide, exchange
<1>5. CASE GroupHears \/ GroupTimesOut
  BY <1>5 DEF GroupHears, GroupTimesOut, exchange
<1>6. CASE HandleSync
  BY <1>6 DEF HandleSync, Follows, Listens, Stamp, report
<1>7. CASE HandleFollowUp
  <2>1. /\ flow' = flow /\ flow # "group" /\ UNCHANGED <<t2, report>>
        /\ flow = "bmca" => Head(generalIn).src = Master
        /\ t1' = Stamp(Head(generalIn).time, Head(generalIn))
        /\ flow = "bmca" => t3' = t3 \/ t3' = [time |-> now, seq |-> reqSeq', src |-> Master]
    BY <1>7 DEF HandleFollowUp, Follows, Listens
  <2>2. t1'.src = Head(generalIn).src
    BY <2>1 DEF Stamp
  <2> QED BY <2>1, <2>2 DEF report
<1>8. CASE HandleDelayResp
  <2>1. /\ flow' = flow /\ flow # "group" /\ clockId' = clockId
        /\ \/ UNCHANGED <<offset, used>>
           \/ /\ Listens(Head(eventIn)) /\ Complete
              /\ used' = [t1 |-> t1, t2 |-> t2, t3 |-> t3, t4 |-> Stamp(Head(eventIn).time, Head(eventIn))]
        /\ UNCHANGED <<t1, t2, t3>> \/ (t1' = None /\ t2' = None /\ t3' = None)
    BY <1>8 DEF HandleDelayResp, Follows
  <2> QED BY <2>1 DEF Listens, Complete, Stamp
<1> QED BY <1>1, <1>2, <1>3, <1>4, <1>5, <1>6, <1>7, <1>8 DEF PtpNext

LEMMA TimingSteps ==
  ASSUME [Next]_vars
  PROVE  \/ PtpNext /\ UNCHANGED ntpOnly
         \/ N!NtpNext /\ UNCHANGED ptpOnly
         \/ UNCHANGED <<ptpVars, ntpOnly>>
  BY DEF Next, vars

\* Of its receivers a session follows the one it was started for: in the BMCA flow no
\* other clock is reported and no timestamp of another receiver enters an offset; the
\* group master reports itself and follows nobody.
THEOREM OneClockIsFollowed == Spec => []FollowsOneClock
<1>1. Init => ClockInv
  BY DEF Init, PtpInit, ClockInv, OfMaster
<1>2. ClockInv /\ [Next]_vars => ClockInv'
  <2> SUFFICES ASSUME ClockInv, [Next]_vars PROVE ClockInv'
    OBVIOUS
  <2>1. CASE PtpNext
    BY <2>1, ClockSteps
  <2>2. CASE UNCHANGED <<flow, t1, t2, t3, clockId, offset, used>>
    BY <2>2 DEF ClockInv, OfMaster
  <2>3. UNCHANGED ptpOnly => UNCHANGED <<flow, exchange, report>>
    BY DEF ptpOnly
  <2> QED BY <2>1, <2>2, <2>3, TimingSteps DEF ptpVars, exchange, report
<1>3. ClockInv => FollowsOneClock
  <2> SUFFICES ASSUME ClockInv PROVE FollowsOneClock
    OBVIOUS
  <2>1. ASSUME flow = "bmca", used # None, NEW f \in {"t1", "t2", "t3", "t4"} PROVE used[f].src = Master
    BY <2>1 DEF ClockInv
  <2> QED BY <2>1 DEF ClockInv, FollowsOneClock
<1> QED BY <1>1, <1>2, <1>3, PTL DEF Spec

-----------------------------------------------------------------------------
(* PTP: what an offset is worth.                                             *)

StampRecord == [time : Int, seq : Nat, src : Peers]

\* A Sync has a number its sender has used; an answer comes after the request it is for.
EventMessages ==
  {m \in Datagram :
     /\ m.type = "Sync" => m.seq <= peerSeq[m.src]
     /\ m.type = "DelayResp" =>
          /\ m.seq <= reqSeq
          /\ t3 # None /\ t3.src = m.src /\ t3.seq = m.seq => t3.time + Skew[m.src] <= m.time}

\* A Follow_Up tells a time that has been, before any Sync of its number or a later one
\* was taken.
GeneralMessages ==
  {m \in Datagram :
     m.type = "FollowUp" =>
       /\ m.time <= now + Skew[m.src]
       /\ t2 # None /\ t2.src = m.src /\ m.seq <= t2.seq => m.time <= t2.time + Skew[m.src]}

WireType ==
  /\ now \in Nat /\ reqSeq \in Nat /\ peerSeq \in [Peers -> Nat]
  /\ eventIn \in Seq(EventMessages) /\ generalIn \in Seq(GeneralMessages)
  /\ asked \in [Peers -> Seq(0 .. reqSeq)]
  /\ masterAddr \in Peers \cup {None}

StampsInv ==
  /\ t1 # None => t1 \in StampRecord /\ t1.time <= now + Skew[t1.src]
  /\ t2 # None => t2 \in StampRecord /\ t2.time <= now /\ t2.seq <= peerSeq[t2.src]
  /\ t3 # None => t3 \in StampRecord /\ t3.time <= now
  /\ t1 # None /\ t2 # None /\ t1.src = t2.src /\ t1.seq <= t2.seq =>
       t1.time <= t2.time + Skew[t1.src]

ExchangeInv == WireType /\ StampsInv /\ PtpIsBracketed

LEMMA SeqGrows ==
  ASSUME NEW S, NEW T, S \subseteq T, NEW q \in Seq(S)
  PROVE  q \in Seq(T)
  OBVIOUS

LEMMA Arrives ==
  ASSUME NEW S, NEW q \in Seq(S), NEW m \in S, NEW r \in MayArrive(q, m)
  PROVE  r \in Seq(S)
<1>1. r = q \/ r = Append(q, m)
  BY DEF MayArrive
<1> QED BY <1>1

LEMMA Takes ==
  ASSUME NEW S, NEW q \in Seq(S), q # <<>>
  PROVE  Head(q) \in S /\ Tail(q) \in Seq(S)
  OBVIOUS

LEMMA SkewType ==
  \A p \in Peers : Skew[p] \in Int
  BY PtpAssumption

\* The offset of any four timestamps, the first of a clock s1 ahead and the last of one s4
\* ahead.
LEMMA OffsetBound ==
  ASSUME NEW a1 \in Int, NEW a2 \in Int, NEW a3 \in Int, NEW a4 \in Int, NEW s1 \in Int,
         NEW s4 \in Int
  PROVE  Abs(2 * ClockOffset(a1, a2, a3, a4).offset + s1 + s4)
           <= 2 * (ClockOffset(a1, a2, a3, a4).rtt + Over((a1 - s1) - a2) + Over(a3 - (a4 - s4)))
                + Abs(s1 - s4) + 2
<1> DEFINE delay == Half((a2 - a1) - (a3 - a4))
           off == Half((a2 - a1) + (a3 - a4))
           e == Over((a1 - s1) - a2)
           l == Over(a3 - (a4 - s4))
           rtt == Abs(delay)
           apart == Abs(s1 - s4)
<1>1. ClockOffset(a1, a2, a3, a4).rtt = rtt /\ ClockOffset(a1, a2, a3, a4).offset = off
  BY DEF ClockOffset
<1>2. ASSUME NEW x \in Int PROVE Half(x) \in Int /\ 2 * Half(x) <= x + 1 /\ x <= 2 * Half(x) + 1
  <2>1. CASE x >= 0
    BY <2>1 DEF Half
  <2>2. CASE x < 0
    BY <2>2 DEF Half, Abs
  <2> QED BY <2>1, <2>2
<1>3. (a2 - a1) - (a3 - a4) \in Int /\ (a2 - a1) + (a3 - a4) \in Int
  OBVIOUS
<1>4. delay \in Int /\ (a2 - a1) - (a3 - a4) <= 2 * delay + 1
  BY <1>2, <1>3, Zenon
<1>5. off \in Int /\ 2 * off <= (a2 - a1) + (a3 - a4) + 1 /\ (a2 - a1) + (a3 - a4) <= 2 * off + 1
  BY <1>2, <1>3, Zenon
<1> HIDE DEF delay, off
<1>6. rtt \in Int /\ delay <= rtt
  BY <1>4 DEF Abs
<1>7. e \in Int /\ e >= 0 /\ (a1 - s1) - a2 <= e
  BY DEF Over
<1>8. l \in Int /\ l >= 0 /\ a3 - (a4 - s4) <= l
  BY DEF Over
<1>9. apart \in Int /\ s1 - s4 <= apart
  BY DEF Abs
<1> HIDE DEF e, l, rtt, apart
<1> DEFINE wrong == 2 * off + s1 + s4
           bound == 2 * (rtt + e + l) + apart + 2
<1>10. wrong <= bound /\ -wrong <= bound
  BY <1>4, <1>5, <1>6, <1>7, <1>8, <1>9
<1>11. wrong \in Int
  BY <1>5
<1>12. Abs(wrong) <= bound
  <2> HIDE DEF wrong, bound
  <2> QED BY <1>10, <1>11 DEF Abs
<1> QED BY <1>1, <1>12 DEF e, l, apart

\* Time passes.
LEMMA TimePasses ==
  ASSUME ExchangeInv, now' \in Nat, now <= now',
         UNCHANGED <<eventIn, generalIn, asked, exchange, peerSeq, offset, used>>
  PROVE  ExchangeInv'
<1> USE DEF exchange
<1>1. EventMessages' = EventMessages
  BY DEF EventMessages
<1>2. GeneralMessages \subseteq GeneralMessages'
  BY SkewType DEF GeneralMessages, ExchangeInv, WireType, Datagram
<1>3. WireType'
  BY <1>1, <1>2, SeqGrows DEF ExchangeInv, WireType
<1>4. StampsInv'
  BY SkewType DEF ExchangeInv, WireType, StampsInv, StampRecord
<1>5. PtpIsBracketed'
  BY DEF ExchangeInv, PtpIsBracketed, Early, Late, Apart
<1> QED BY <1>3, <1>4, <1>5 DEF ExchangeInv

\* What comes and is taken from the sockets.
LEMMA QueuesMove ==
  ASSUME ExchangeInv, UNCHANGED <<now, exchange, offset, used>>,
         peerSeq' \in [Peers -> Nat], \A p \in Peers : peerSeq[p] <= peerSeq'[p],
         eventIn' \in Seq(EventMessages'), generalIn' \in Seq(GeneralMessages'),
         asked' \in [Peers -> Seq(0 .. reqSeq)]
  PROVE  ExchangeInv'
<1> USE DEF exchange
<1>1. WireType'
  BY DEF ExchangeInv, WireType
<1>2. StampsInv'
  BY DEF ExchangeInv, WireType, StampsInv, StampRecord
<1>3. PtpIsBracketed'
  BY DEF ExchangeInv, PtpIsBracketed, Early, Late, Apart
<1> QED BY <1>1, <1>2, <1>3 DEF ExchangeInv

LEMMA MessagesStay ==
  ASSUME ExchangeInv, UNCHANGED <<now, exchange>>,
         peerSeq' \in [Peers -> Nat], \A p \in Peers : peerSeq[p] <= peerSeq'[p]
  PROVE  /\ EventMessages \subseteq EventMessages' /\ GeneralMessages' = GeneralMessages
         /\ eventIn \in Seq(EventMessages') /\ generalIn \in Seq(GeneralMessages')
<1> USE DEF exchange
<1>1. EventMessages \subseteq EventMessages'
  BY DEF EventMessages, ExchangeInv, WireType, Datagram
<1>2. GeneralMessages' = GeneralMessages
  BY DEF GeneralMessages
<1>3. eventIn \in Seq(EventMessages) /\ generalIn \in Seq(GeneralMessages)
  BY DEF ExchangeInv, WireType
<1> QED BY <1>1, <1>2, <1>3, SeqGrows

LEMMA PeerSyncsInv ==
  ASSUME ExchangeInv, NEW p \in Peers, PeerSyncs(p)
  PROVE  ExchangeInv'
<1> DEFINE n == peerSeq[p] + 1
           sync == Msg("Sync", n, 0, p)
           up == Msg("FollowUp", n, PeerTime(p), p)
<1>1. /\ peerSeq' = [peerSeq EXCEPT ![p] = n]
      /\ eventIn' \in MayArrive(eventIn, sync) /\ generalIn' \in MayArrive(generalIn, up)
      /\ UNCHANGED <<now, exchange, asked, offset, used>>
  BY DEF PeerSyncs, report
<1>2. /\ now \in Nat /\ peerSeq \in [Peers -> Nat] /\ asked \in [Peers -> Seq(0 .. reqSeq)]
      /\ Skew[p] \in Int
  BY SkewType DEF ExchangeInv, WireType
<1>3. n \in Nat /\ peerSeq' \in [Peers -> Nat] /\ \A q \in Peers : peerSeq[q] <= peerSeq'[q]
  BY <1>1, <1>2
<1>4. peerSeq'[p] = n
  BY <1>1, <1>2
<1>5. sync \in Datagram /\ sync.type = "Sync" /\ sync.seq = n /\ sync.src = p
  BY <1>3 DEF Msg, Datagram
<1>6. up \in Datagram /\ up.type = "FollowUp" /\ up.seq = n /\ up.src = p /\ up.time = now + Skew[p]
  BY <1>2, <1>3 DEF Msg, Datagram, PeerTime
<1>7. t2 # None /\ t2.src = p => ~(n <= t2.seq)
  <2>1. t2 # None => t2 \in StampRecord /\ t2.seq <= peerSeq[t2.src]
    BY DEF ExchangeInv, StampsInv
  <2> QED BY <1>2, <2>1 DEF StampRecord
<1> HIDE DEF n, sync, up
<1>8. sync \in EventMessages'
  BY <1>3, <1>4, <1>5 DEF EventMessages
<1>9. up \in GeneralMessages'
  BY <1>1, <1>2, <1>3, <1>6, <1>7 DEF GeneralMessages, exchange
<1>10. eventIn \in Seq(EventMessages') /\ generalIn \in Seq(GeneralMessages')
  BY <1>1, <1>3, MessagesStay
<1>11. eventIn' \in Seq(EventMessages') /\ generalIn' \in Seq(GeneralMessages')
  BY <1>1, <1>8, <1>9, <1>10, Arrives
<1>12. asked' \in [Peers -> Seq(0 .. reqSeq)]
  BY <1>1, <1>2
<1> QED BY <1>1, <1>3, <1>11, <1>12, QueuesMove

LEMMA PeerSendsInv ==
  ASSUME ExchangeInv, NEW p \in Peers, PeerAnnounces(p) \/ PeerAsks(p)
  PROVE  ExchangeInv'
<1>1. /\ now \in Nat /\ peerSeq \in [Peers -> Nat] /\ asked \in [Peers -> Seq(0 .. reqSeq)]
  BY DEF ExchangeInv, WireType
<1>2. /\ UNCHANGED <<now, exchange, asked, offset, used>>
      /\ peerSeq' = peerSeq \/ peerSeq' = [peerSeq EXCEPT ![p] = @ + 1]
  BY DEF PeerAnnounces, PeerAsks, report
<1>3. peerSeq' \in [Peers -> Nat] /\ \A q \in Peers : peerSeq[q] <= peerSeq'[q]
  <2>1. CASE peerSeq' = peerSeq
    BY <1>1, <2>1
  <2>2. CASE peerSeq' = [peerSeq EXCEPT ![p] = @ + 1]
    BY <1>1, <2>2
  <2> QED BY <1>2, <2>1, <2>2
<1>4. eventIn \in Seq(EventMessages') /\ generalIn \in Seq(GeneralMessages')
  BY <1>2, <1>3, MessagesStay
<1>5. CASE PeerAnnounces(p)
  <2>1. PICK p1 \in Priorities, c \in Peers :
          generalIn' = Append(generalIn, [Msg("Announce", p1, 0, p) EXCEPT !.clock = c])
    BY <1>5 DEF PeerAnnounces
  <2>2. p1 \in Nat
    BY PtpAssumption
  <2>3. [Msg("Announce", p1, 0, p) EXCEPT !.clock = c] \in GeneralMessages'
    BY <2>2 DEF Msg, Datagram, GeneralMessages
  <2>4. generalIn' \in Seq(GeneralMessages') /\ eventIn' = eventIn
    BY <1>4, <1>5, <2>1, <2>3 DEF PeerAnnounces
  <2> QED BY <1>1, <1>2, <1>3, <1>4, <2>4, QueuesMove
<1>6. CASE PeerAsks(p)
  <2>1. eventIn' \in MayArrive(eventIn, Msg("DelayReq", peerSeq[p] + 1, 0, p)) /\ generalIn' = generalIn
    BY <1>6 DEF PeerAsks
  <2>2. Msg("DelayReq", peerSeq[p] + 1, 0, p) \in EventMessages'
    BY <1>1 DEF Msg, Datagram, EventMessages
  <2>3. eventIn' \in Seq(EventMessages')
    BY <1>4, <2>1, <2>2, Arrives
  <2> QED BY <1>1, <1>2, <1>3, <1>4, <2>1, <2>3, QueuesMove
<1> QED BY <1>5, <1>6

LEMMA PeerAnswersInv ==
  ASSUME ExchangeInv, NEW p \in Peers, PeerAnswers(p)
  PROVE  ExchangeInv'
<1> DEFINE m == Msg("DelayResp", Head(asked[p]), PeerTime(p), p)
<1>1. /\ now \in Nat /\ peerSeq \in [Peers -> Nat] /\ asked \in [Peers -> Seq(0 .. reqSeq)]
      /\ reqSeq \in Nat /\ Skew[p] \in Int
  BY SkewType DEF ExchangeInv, WireType
<1>2. /\ UNCHANGED <<now, exchange, peerSeq, generalIn, offset, used>>
      /\ asked[p] # <<>> /\ asked' = [asked EXCEPT ![p] = Tail(@)]
      /\ eventIn' \in MayArrive(eventIn, m)
  BY DEF PeerAnswers, report
<1>3. \A q \in Peers : peerSeq[q] <= peerSeq'[q]
  BY <1>1, <1>2
<1>4. peerSeq' \in [Peers -> Nat]
  BY <1>1, <1>2
<1>5. Head(asked[p]) \in 0 .. reqSeq /\ Tail(asked[p]) \in Seq(0 .. reqSeq)
  BY <1>1, <1>2, Takes
<1>6. asked' \in [Peers -> Seq(0 .. reqSeq)]
  BY <1>1, <1>2, <1>5
<1>7. /\ m \in Datagram /\ m.type = "DelayResp" /\ m.src = p /\ m.time = now + Skew[p]
      /\ m.seq \in 0 .. reqSeq
  BY <1>1, <1>5 DEF Msg, Datagram, PeerTime
<1> HIDE DEF m
<1>8. t3 # None => t3.time \in Int /\ t3.time <= now
  BY DEF ExchangeInv, StampsInv, StampRecord
<1>9. m \in EventMessages
  BY <1>1, <1>7, <1>8 DEF EventMessages
<1>10. EventMessages \subseteq EventMessages' /\ eventIn \in Seq(EventMessages') /\ generalIn \in Seq(GeneralMessages')
  BY <1>2, <1>3, <1>4, MessagesStay
<1>11. eventIn' \in Seq(EventMessages') /\ generalIn' \in Seq(GeneralMessages')
  BY <1>2, <1>9, <1>10, Arrives
<1> QED BY <1>2, <1>3, <1>4, <1>6, <1>11, QueuesMove

\* Steps of our side that take a datagram or none, and look at no time.
LEMMA DropsInv ==
  ASSUME ExchangeInv, UNCHANGED <<now, exchange, asked, peerSeq, offset, used>>,
         eventIn' = eventIn \/ (eventIn # <<>> /\ eventIn' = Tail(eventIn)),
         generalIn' = generalIn \/ (generalIn # <<>> /\ generalIn' = Tail(generalIn))
  PROVE  ExchangeInv'
<1>1. /\ peerSeq' \in [Peers -> Nat] /\ peerSeq \in [Peers -> Nat] /\ asked' \in [Peers -> Seq(0 .. reqSeq)]
  BY DEF ExchangeInv, WireType
<1>2. \A q \in Peers : peerSeq[q] <= peerSeq'[q]
  BY <1>1
<1>3. eventIn \in Seq(EventMessages') /\ generalIn \in Seq(GeneralMessages')
  BY <1>1, <1>2, MessagesStay
<1>4. eventIn' \in Seq(EventMessages') /\ generalIn' \in Seq(GeneralMessages')
  BY <1>3, Takes
<1> QED BY <1>1, <1>2, <1>4, QueuesMove

LEMMA OursInv ==
  ASSUME ExchangeInv,
         SlaveHello \/ BmcaHello \/ GroupHello \/ HelloFails \/ DrainEvent \/ BmcaHears
           \/ BmcaTimesOut \/ GroupHears \/ GroupTimesOut \/ DropGeneral \/ HandleDelayReq \/ SlaveAnnounces
           \/ SocketError
  PROVE  ExchangeInv'
<1>1. UNCHANGED <<now, exchange, asked, peerSeq, offset, used>>
  BY DEF SlaveHello, BmcaHello, GroupHello, HelloFails, DrainEvent, BmcaHears, BmcaTimesOut,
         GroupHears, GroupTimesOut, DropGeneral, HandleDelayReq, SlaveAnnounces, SocketError, report
<1>2. /\ eventIn' = eventIn \/ (eventIn # <<>> /\ eventIn' = Tail(eventIn))
      /\ generalIn' = generalIn \/ (generalIn # <<>> /\ generalIn' = Tail(generalIn))
  BY DEF SlaveHello, BmcaHello, GroupHello, HelloFails, DrainEvent, BmcaHears, BmcaTimesOut,
         GroupHears, GroupTimesOut, DropGeneral, HandleDelayReq, SlaveAnnounces, SocketError, TakesEvent,
         TakesGeneral
<1> QED BY <1>1, <1>2, DropsInv

LEMMA GroupSyncsInv ==
  ASSUME ExchangeInv, GroupSyncs
  PROVE  ExchangeInv'
<1>1. /\ UNCHANGED <<now, eventIn, generalIn, asked, t1, t2, t3, masterAddr, peerSeq, offset, used>>
      /\ reqSeq' = reqSeq + 1
  BY DEF GroupSyncs, report
<1>2. reqSeq \in Nat /\ asked \in [Peers -> Seq(0 .. reqSeq)]
  BY DEF ExchangeInv, WireType
<1>3. EventMessages \subseteq EventMessages'
  BY <1>1, <1>2 DEF EventMessages, Datagram
<1>4. GeneralMessages' = GeneralMessages
  BY <1>1 DEF GeneralMessages
<1>5. asked' \in [Peers -> Seq(0 .. reqSeq')]
  <2>1. 0 .. reqSeq \subseteq 0 .. reqSeq'
    BY <1>1, <1>2
  <2>2. \A p \in Peers : asked[p] \in Seq(0 .. reqSeq')
    BY <1>2, <2>1, SeqGrows
  <2> QED BY <1>1, <1>2, <2>2
<1>6. eventIn \in Seq(EventMessages')
  BY <1>3, SeqGrows DEF ExchangeInv, WireType
<1>7. WireType'
  BY <1>1, <1>2, <1>4, <1>5, <1>6 DEF ExchangeInv, WireType
<1>8. StampsInv'
  BY <1>1 DEF ExchangeInv, StampsInv
<1>9. PtpIsBracketed'
  BY <1>1 DEF ExchangeInv, PtpIsBracketed, Early, Late, Apart
<1> QED BY <1>7, <1>8, <1>9 DEF ExchangeInv

LEMMA HandleSyncInv ==
  ASSUME ExchangeInv, HandleSync
  PROVE  ExchangeInv'
<1> DEFINE m == Head(eventIn)
<1>1. /\ eventIn # <<>> /\ m.type = "Sync" /\ eventIn' = Tail(eventIn)
      /\ UNCHANGED <<now, generalIn, asked, t1, t3, reqSeq, peerSeq, offset, used>>
      /\ (t2' = t2 /\ masterAddr' = masterAddr)
           \/ (t2' = Stamp(now, m) /\ masterAddr' \in {m.src, masterAddr})
  BY DEF HandleSync, TakesEvent, report
<1>2. CASE t2' = t2 /\ masterAddr' = masterAddr
  <2>1. UNCHANGED <<now, exchange, asked, peerSeq, offset, used>>
    BY <1>1, <1>2 DEF exchange
  <2> QED BY <1>1, <2>1, DropsInv
<1>3. CASE t2' = Stamp(now, m) /\ masterAddr' \in {m.src, masterAddr}
  <2>1. /\ eventIn \in Seq(EventMessages) /\ generalIn \in Seq(GeneralMessages) /\ now \in Nat
        /\ peerSeq \in [Peers -> Nat]
    BY DEF ExchangeInv, WireType
  <2>2. m \in EventMessages /\ Tail(eventIn) \in Seq(EventMessages)
    BY <1>1, <2>1, Takes
  <2>3. m \in Datagram /\ m.seq <= peerSeq[m.src] /\ m.src \in Peers /\ m.seq \in Nat
    BY <1>1, <2>2 DEF EventMessages, Datagram
  <2>4. t2' \in StampRecord /\ t2'.time = now /\ t2'.src = m.src /\ t2'.seq = m.seq
    BY <1>3, <2>1, <2>3 DEF Stamp, StampRecord
  <2> HIDE DEF m
  <2>5. EventMessages' = EventMessages
    BY <1>1 DEF EventMessages
  <2>6. GeneralMessages \subseteq GeneralMessages'
    BY <1>1, <2>4 DEF GeneralMessages
  <2>7. generalIn \in Seq(GeneralMessages')
    BY <2>1, <2>6, SeqGrows
  <2>8. WireType'
    BY <1>1, <1>3, <2>2, <2>3, <2>5, <2>7 DEF ExchangeInv, WireType
  <2>9. StampsInv'
    BY <1>1, <2>1, <2>3, <2>4 DEF ExchangeInv, StampsInv
  <2>10. PtpIsBracketed'
    BY <1>1 DEF ExchangeInv, PtpIsBracketed, Early, Late, Apart
  <2> QED BY <2>8, <2>9, <2>10 DEF ExchangeInv
<1> QED BY <1>1, <1>2, <1>3

LEMMA HandleFollowUpInv ==
  ASSUME ExchangeInv, HandleFollowUp
  PROVE  ExchangeInv'
<1> DEFINE m == Head(generalIn)
           to == IF flow = "gptp" THEN masterAddr ELSE Master
<1>1. /\ generalIn # <<>> /\ m.type = "FollowUp" /\ generalIn' = Tail(generalIn)
      /\ UNCHANGED <<now, eventIn, t2, masterAddr, peerSeq, offset, used>>
      /\ t1' = Stamp(m.time, m)
      /\ \/ UNCHANGED <<t3, reqSeq, asked>>
         \/ /\ to # None /\ reqSeq' = reqSeq + 1
            /\ t3' = [time |-> now, seq |-> reqSeq', src |-> to]
            /\ \E q \in MayArrive(asked[to], reqSeq') : asked' = [asked EXCEPT ![to] = q]
  BY DEF HandleFollowUp, TakesGeneral, report
<1>2. /\ eventIn \in Seq(EventMessages) /\ generalIn \in Seq(GeneralMessages) /\ now \in Nat
      /\ reqSeq \in Nat /\ asked \in [Peers -> Seq(0 .. reqSeq)] /\ masterAddr \in Peers \cup {None}
  BY DEF ExchangeInv, WireType
<1>3. m \in GeneralMessages /\ Tail(generalIn) \in Seq(GeneralMessages)
  BY <1>1, <1>2, Takes
<1>4. /\ m \in Datagram /\ m.src \in Peers /\ m.seq \in Nat /\ m.time \in Int
      /\ m.time <= now + Skew[m.src]
      /\ t2 # None /\ t2.src = m.src /\ m.seq <= t2.seq => m.time <= t2.time + Skew[m.src]
  BY <1>1, <1>3 DEF GeneralMessages, Datagram
<1>5. t1' \in StampRecord /\ t1'.time = m.time /\ t1'.src = m.src /\ t1'.seq = m.seq
  BY <1>1, <1>4 DEF Stamp, StampRecord
<1>6. to # None => to \in Peers
  BY <1>2 DEF Peers
<1> HIDE DEF m, to
<1>7. GeneralMessages' = GeneralMessages
  BY <1>1 DEF GeneralMessages
<1>8. EventMessages \subseteq EventMessages' /\ reqSeq' \in Nat /\ asked' \in [Peers -> Seq(0 .. reqSeq')]
      /\ (t3' = t3 \/ (t3' \in StampRecord /\ t3'.time = now))
  <2>1. CASE UNCHANGED <<t3, reqSeq, asked>>
    <3>1. EventMessages' = EventMessages
      BY <1>1, <2>1 DEF EventMessages
    <3> QED BY <1>2, <2>1, <3>1
  <2>2. CASE /\ to # None /\ reqSeq' = reqSeq + 1
             /\ t3' = [time |-> now, seq |-> reqSeq', src |-> to]
             /\ \E q \in MayArrive(asked[to], reqSeq') : asked' = [asked EXCEPT ![to] = q]
    <3>1. t3' \in StampRecord /\ t3'.time = now /\ t3'.seq = reqSeq + 1
      BY <1>2, <1>6, <2>2 DEF StampRecord
    <3>2. EventMessages \subseteq EventMessages'
      BY <1>1, <1>2, <2>2, <3>1 DEF EventMessages, Datagram
    <3>3. 0 .. reqSeq \subseteq 0 .. reqSeq' /\ reqSeq' \in 0 .. reqSeq'
      BY <1>2, <2>2
    <3>4. \A p \in Peers : asked[p] \in Seq(0 .. reqSeq')
      BY <1>2, <3>3, SeqGrows
    <3>5. PICK q \in MayArrive(asked[to], reqSeq') : asked' = [asked EXCEPT ![to] = q]
      BY <2>2
    <3>6. q \in Seq(0 .. reqSeq')
      BY <1>6, <2>2, <3>3, <3>4, <3>5, Arrives
    <3>7. asked' \in [Peers -> Seq(0 .. reqSeq')]
      BY <1>2, <3>4, <3>5, <3>6
    <3> QED BY <1>2, <2>2, <3>1, <3>2, <3>7
  <2> QED BY <1>1, <2>1, <2>2
<1>9. eventIn \in Seq(EventMessages')
  BY <1>2, <1>8, SeqGrows
<1>10. WireType'
  BY <1>1, <1>3, <1>7, <1>8, <1>9 DEF ExchangeInv, WireType
<1>11. StampsInv'
  BY <1>1, <1>2, <1>4, <1>5, <1>8 DEF ExchangeInv, StampsInv
<1>12. PtpIsBracketed'
  BY <1>1 DEF ExchangeInv, PtpIsBracketed, Early, Late, Apart
<1> QED BY <1>10, <1>11, <1>12 DEF ExchangeInv

LEMMA HandleDelayRespInv ==
  ASSUME ExchangeInv, HandleDelayResp
  PROVE  ExchangeInv'
<1> DEFINE m == Head(eventIn)
           s4 == Stamp(m.time, m)
<1>1. /\ eventIn # <<>> /\ m.type = "DelayResp" /\ eventIn' = Tail(eventIn)
      /\ UNCHANGED <<now, generalIn, asked, masterAddr, reqSeq, peerSeq>>
      /\ \/ UNCHANGED <<offset, used>>
         \/ /\ None \notin {t1, t2, t3}
            /\ offset' = ClockOffset(t1.time, t2.time, t3.time, m.time)
            /\ used' = [t1 |-> t1, t2 |-> t2, t3 |-> t3, t4 |-> s4]
      /\ UNCHANGED <<t1, t2, t3>> \/ (t1' = None /\ t2' = None /\ t3' = None)
  BY DEF HandleDelayResp, TakesEvent, Complete
<1>2. /\ eventIn \in Seq(EventMessages) /\ generalIn \in Seq(GeneralMessages)
  BY DEF ExchangeInv, WireType
<1>3. m \in EventMessages /\ Tail(eventIn) \in Seq(EventMessages)
  BY <1>1, <1>2, Takes
<1>4. /\ m \in Datagram /\ m.src \in Peers /\ m.seq \in Nat /\ m.time \in Int
      /\ t3 # None /\ t3.src = m.src /\ t3.seq = m.seq => t3.time + Skew[m.src] <= m.time
  BY <1>1, <1>3 DEF EventMessages, Datagram
<1>5. s4.src = m.src /\ s4.seq = m.seq
  BY DEF Stamp
<1> HIDE DEF m, s4
<1>6. EventMessages \subseteq EventMessages' /\ GeneralMessages \subseteq GeneralMessages'
  BY <1>1 DEF EventMessages, GeneralMessages
<1>7. eventIn' \in Seq(EventMessages') /\ generalIn' \in Seq(GeneralMessages')
  BY <1>1, <1>2, <1>3, <1>6, SeqGrows
<1>8. WireType'
  BY <1>1, <1>7 DEF ExchangeInv, WireType
<1>9. StampsInv'
  BY <1>1 DEF ExchangeInv, StampsInv
<1>10. PtpIsBracketed'
  <2>1. CASE UNCHANGED <<offset, used>>
    BY <2>1 DEF ExchangeInv, PtpIsBracketed, Early, Late, Apart
  <2>2. CASE /\ None \notin {t1, t2, t3}
             /\ offset' = ClockOffset(t1.time, t2.time, t3.time, m.time)
             /\ used' = [t1 |-> t1, t2 |-> t2, t3 |-> t3, t4 |-> s4]
    <3>1. /\ t1 \in StampRecord /\ t2 \in StampRecord /\ t3 \in StampRecord
          /\ t1.src = t2.src /\ t1.seq <= t2.seq => t1.time <= t2.time + Skew[t1.src]
      BY <2>2 DEF ExchangeInv, StampsInv
    <3>2. s4.time = m.time /\ s4.src = m.src
      BY <1>5 DEF s4, Stamp
    <3>3. /\ t1.time \in Int /\ t2.time \in Int /\ t3.time \in Int /\ m.time \in Int
          /\ Skew[t1.src] \in Int /\ Skew[m.src] \in Int
      BY <1>4, <3>1, SkewType DEF StampRecord
    <3>4. /\ Early' = Over((t1.time - Skew[t1.src]) - t2.time)
          /\ Late' = Over(t3.time - (m.time - Skew[m.src]))
          /\ Apart' = Abs(Skew[t1.src] - Skew[m.src])
      BY <2>2, <3>2 DEF Early, Late, Apart
    <3> DEFINE result == ClockOffset(t1.time, t2.time, t3.time, m.time)
    <3>a. Abs(2 * result.offset + Skew[t1.src] + Skew[m.src])
            <= 2 * (result.rtt + Over((t1.time - Skew[t1.src]) - t2.time)
                      + Over(t3.time - (m.time - Skew[m.src])))
                 + Abs(Skew[t1.src] - Skew[m.src]) + 2
      BY ONLY <3>3, OffsetBound, ZenonT(60)
    <3>b. offset' = result
      BY <2>2
    <3> HIDE DEF result
    <3>5. Abs(2 * offset'.offset + Skew[t1.src] + Skew[m.src])
            <= 2 * (offset'.rtt + Early' + Late') + Apart' + 2
      BY ONLY <3>a, <3>b, <3>4
    <3>6. t1.src = t2.src /\ t1.seq <= t2.seq => Early' = 0
      BY <3>1, <3>3, <3>4 DEF Over
    <3>7. t3.src = m.src /\ t3.seq = m.seq => Late' = 0
      BY <1>4, <2>2, <3>3, <3>4 DEF Over
    <3>8. used'.t1 = t1 /\ used'.t2 = t2 /\ used'.t3 = t3 /\ used'.t4 = s4
      BY <2>2
    <3> QED BY <1>5, <3>2, <3>5, <3>6, <3>7, <3>8 DEF PtpIsBracketed
  <2> QED BY <1>1, <2>1, <2>2
<1> QED BY <1>8, <1>9, <1>10 DEF ExchangeInv

LEMMA ExchangeStarts ==
  ASSUME Init
  PROVE  ExchangeInv
<1>1. /\ now = 0 /\ eventIn = <<>> /\ generalIn = <<>> /\ asked = [p \in Peers |-> <<>>]
      /\ t1 = None /\ t2 = None /\ t3 = None /\ masterAddr = None /\ reqSeq = 0
      /\ peerSeq = [p \in Peers |-> 0] /\ used = None
  BY DEF Init, PtpInit
<1>2. WireType
  BY <1>1 DEF WireType
<1>3. StampsInv /\ PtpIsBracketed
  BY <1>1 DEF StampsInv, PtpIsBracketed, Early, Late, Apart
<1> QED BY <1>2, <1>3 DEF ExchangeInv

LEMMA ExchangeSteps ==
  ASSUME ExchangeInv, [Next]_vars
  PROVE  ExchangeInv'
<1>1. CASE PtpNext
  <2>1. CASE Tick
    BY <2>1, TimePasses DEF Tick, ExchangeInv, WireType, report
  <2>2. ASSUME NEW p \in Peers, PeerSyncs(p) \/ PeerAnnounces(p) \/ PeerAsks(p) \/ PeerAnswers(p)
        PROVE  ExchangeInv'
    BY <2>2, PeerSyncsInv, PeerSendsInv, PeerAnswersInv
  <2> QED BY <1>1, <2>1, <2>2, OursInv, GroupSyncsInv, HandleSyncInv, HandleFollowUpInv,
             HandleDelayRespInv, Zenon DEF PtpNext
<1>2. ASSUME now' = now \/ (now' = now + 1), UNCHANGED ptpOnly PROVE ExchangeInv'
  <2>1. now' \in Nat /\ now <= now'
    BY <1>2 DEF ExchangeInv, WireType
  <2> QED BY <1>2, <2>1, TimePasses DEF ptpOnly, report
<1>3. N!NtpNext => now' = now \/ now' = now + 1
  BY DEF N!NtpNext, N!NtpTick, N!SyncSends, N!SyncReceives, N!SyncTimesOut, N!ClientStops,
         N!ClientStarts, N!ServerAnswers, N!StopServer, N!ServerEnds
<1>4. UNCHANGED ptpVars => now' = now /\ UNCHANGED ptpOnly
  BY DEF ptpVars, ptpOnly, exchange, report
<1> QED BY <1>1, <1>2, <1>3, <1>4, TimingSteps

-----------------------------------------------------------------------------
(* NTP: a timestamp and back loses a nanosecond at most.                     *)

LEMMA Divides ==
  ASSUME NEW d \in Nat \ {0}, NEW a \in Int
  PROVE  a \div d \in Int /\ a % d \in 0..(d - 1) /\ a = d * (a \div d) + (a % d)
  OBVIOUS

LEMMA FactorsCompare ==
  ASSUME NEW d \in Nat \ {0}, NEW a \in Int, NEW b \in Int, d * a < d * b
  PROVE  a < b
<1> SUFFICES ASSUME b <= a PROVE FALSE
  OBVIOUS
<1>1. d * a = d * b + d * (a - b)
  OBVIOUS
<1>2. d * (a - b) >= 0
  OBVIOUS
<1>3. d * a \in Int /\ d * b \in Int /\ d * (a - b) \in Int
  OBVIOUS
<1> QED BY <1>1, <1>2, <1>3

LEMMA QuotientIsNat ==
  ASSUME NEW d \in Nat \ {0}, NEW a \in Nat
  PROVE  a \div d \in Nat
<1> DEFINE q == a \div d
<1>1. q \in Int /\ a % d \in 0..(d - 1) /\ a = d * q + (a % d)
  BY Divides
<1> HIDE DEF q
<1>2. d * (-1) < d * q
  BY <1>1
<1>3. -1 < q
  BY <1>1, <1>2, FactorsCompare
<1> QED BY <1>1, <1>3 DEF q

LEMMA DivisionOfNat ==
  ASSUME NEW d \in Nat \ {0}, NEW a \in Nat
  PROVE  a \div d \in Nat /\ a % d \in 0..(d - 1) /\ a = d * (a \div d) + (a % d)
<1>1. a \in Int
  OBVIOUS
<1>2. a \div d \in Nat
  BY QuotientIsNat
<1>3. a % d \in 0..(d - 1) /\ a = d * (a \div d) + (a % d)
  OBVIOUS
<1> QED BY <1>2, <1>3, Zenon

LEMMA QuotientsOrder ==
  ASSUME NEW d \in Nat \ {0}, NEW a \in Int, NEW b \in Int, a <= b
  PROVE  a \div d <= b \div d
<1> DEFINE p == a \div d
           q == b \div d
<1>1. /\ p \in Int /\ a % d \in 0..(d - 1) /\ a = d * p + (a % d)
      /\ q \in Int /\ b % d \in 0..(d - 1) /\ b = d * q + (b % d)
  BY Divides
<1> HIDE DEF p, q
<1>2. d * p < d * q + d
  BY <1>1
<1>3. d * q + d = d * (q + 1)
  BY <1>1
<1>4. p < q + 1
  BY <1>1, <1>2, <1>3, FactorsCompare
<1> QED BY <1>1, <1>4 DEF p, q

LEMMA SmallRemainder ==
  ASSUME NEW d \in Nat \ {0}, NEW a \in 0 .. (d - 1)
  PROVE  a % d = a
  OBVIOUS

\* A share r of a second, counted in units of fraction, and back.
LEMMA FractionAndBack ==
  ASSUME NEW n \in Nat \ {0}, NEW f \in Nat \ {0}, n <= f, NEW r \in 0 .. (n - 1)
  PROVE  ((r * f) \div n) \in Nat /\ (((r * f) \div n) * n) \div f \in {r - 1, r}
<1> DEFINE q == (r * f) \div n
           k == (q * n) \div f
<1>1. r * f \in Nat
  OBVIOUS
<1>2. q \in Nat /\ (r * f) % n \in 0..(n - 1) /\ r * f = n * q + ((r * f) % n)
  <2>1. \A x \in Nat : /\ x \div n \in Nat /\ x % n \in 0..(n - 1)
                      /\ x = n * (x \div n) + (x % n)
    BY DivisionOfNat
  <2> QED BY <1>1, <2>1, Zenon
<1> HIDE DEF q
<1>3. q * n \in Int
  BY <1>2
<1>4. k \in Int /\ (q * n) % f \in 0..(f - 1) /\ q * n = f * k + ((q * n) % f)
  BY <1>3, Divides
<1> HIDE DEF k
<1>5. q * n = n * q /\ r * f = f * r
  BY <1>2
<1>6. f * k \in Int /\ f * r \in Int /\ n * q \in Int
  BY <1>2, <1>4
<1>7. f * k <= f * r /\ f * r < f * k + (f + f)
  BY <1>2, <1>4, <1>5, <1>6
<1>8. f * (r + 1) = f * r + f /\ f * (k + 2) = f * k + (f + f)
  BY <1>4
<1>9. f * k < f * (r + 1) /\ f * r < f * (k + 2)
  BY <1>6, <1>7, <1>8
<1>10. k < r + 1
  BY <1>4, <1>9, FactorsCompare
<1>11. r < k + 2
  BY <1>4, <1>9, FactorsCompare
<1>12. k \in {r - 1, r}
  BY <1>4, <1>10, <1>11
<1> QED BY <1>2, <1>12 DEF q, k

LEMMA NtpConstants ==
  /\ NsPerSec \in Nat \ {0} /\ FracPerSec \in Nat \ {0} /\ NsPerSec <= FracPerSec
  /\ Epoch \in Nat /\ EraSecs \in Nat \ {0} /\ Ahead \in Int /\ Start \in Nat
  /\ MaxNow \in Nat /\ Start + Ahead >= 0
  BY TimingAssumption DEF N!NtpAssumption

\* Within the era.
LEMMA ThereAndBack ==
  ASSUME NEW ns \in Nat, ns \div NsPerSec + Epoch < EraSecs
  PROVE  N!ntp_to_unix(N!unix_to_ntp(ns)) \in {ns - 1, ns}
<1> DEFINE s == ns \div NsPerSec
           r == ns % NsPerSec
           fr == (r * FracPerSec) \div NsPerSec
           k == (fr * NsPerSec) \div FracPerSec
<1> USE NtpConstants
<1>1. s \in Nat /\ r \in 0 .. (NsPerSec - 1) /\ ns = NsPerSec * s + r
  <2>1. NsPerSec \in Nat \ {0}
    OBVIOUS
  <2> QED BY <2>1, DivisionOfNat, Zenon
<1>2. k \in {r - 1, r}
  <2> HIDE DEF r
  <2> QED BY <1>1, FractionAndBack
<1>3. s + Epoch < EraSecs
  OBVIOUS
<1>4. N!unix_to_ntp(ns) = [secs |-> (s + Epoch) % EraSecs, frac |-> fr]
  BY DEF N!unix_to_ntp
<1> HIDE DEF s, r, fr, k
<1>5. (s + Epoch) % EraSecs = s + Epoch
  <2>1. s + Epoch \in 0 .. (EraSecs - 1) /\ EraSecs \in Nat \ {0}
    BY <1>1, <1>3
  <2> QED BY <2>1, SmallRemainder
<1>6. N!ntp_to_unix([secs |-> s + Epoch, frac |-> fr]) = s * NsPerSec + k
  <2>1. s + Epoch >= Epoch /\ (s + Epoch) - Epoch = s
    BY <1>1
  <2> QED BY <2>1 DEF N!ntp_to_unix, k
<1>7. s * NsPerSec = NsPerSec * s
  BY <1>1
<1> QED BY <1>1, <1>2, <1>4, <1>5, <1>6, <1>7

-----------------------------------------------------------------------------
(* NTP: what an answer is worth, whichever request it answers.               *)

\* A request sent at t; the answer to it given at g.
RequestAt(s, t) == [seq |-> s, reference |-> N!unix_to_ntp(Start + t)]
AnswerAt(s, t, g) ==
  [seq |-> s, reference |-> N!unix_to_ntp(Start + t),
   receive |-> N!unix_to_ntp(Start + g + Ahead), send |-> N!unix_to_ntp(Start + g + Ahead)]

RequestsSent == {RequestAt(s, t) : s \in Nat, t \in 0 .. now}
AnswersSent == UNION {{AnswerAt(s, t, g) : s \in Nat, t \in 0 .. g} : g \in 0 .. now}

NtpInv ==
  /\ now \in 0 .. MaxNow /\ sequence \in Nat
  /\ requests \in Seq(RequestsSent) /\ answers \in Seq(AnswersSent)
  /\ N!NtpIsBracketed

LEMMA Delivers ==
  ASSUME NEW S, NEW q \in Seq(S), NEW m \in S, NEW r \in N!Delivered(q, m)
  PROVE  r \in Seq(S)
<1>1. r = q \/ r = Append(q, m)
  BY DEF N!Delivered
<1> QED BY <1>1

\* As long as both clocks are in the era, and for every time they have shown.
LEMMA ReadInEra ==
  ASSUME now \in Nat, N!InEra, NEW t \in 0 .. now
  PROVE  /\ N!ntp_to_unix(N!unix_to_ntp(Start + t)) \in {(Start + t) - 1, Start + t}
         /\ N!ntp_to_unix(N!unix_to_ntp(Start + t + Ahead)) \in {(Start + t + Ahead) - 1, Start + t + Ahead}
<1>1. /\ Start + t \in Nat /\ Start + t <= Start + now /\ Start + now \in Nat
      /\ Start + t + Ahead \in Nat /\ Start + t + Ahead <= Start + now + Ahead
      /\ Start + now + Ahead \in Nat
  BY NtpConstants
<1>2. /\ (Start + t) \div NsPerSec <= (Start + now) \div NsPerSec
      /\ (Start + t + Ahead) \div NsPerSec <= (Start + now + Ahead) \div NsPerSec
  <2>1. NsPerSec \in Nat \ {0}
    BY NtpConstants
  <2>2. /\ Start + t \in Int /\ Start + now \in Int
        /\ Start + t + Ahead \in Int /\ Start + now + Ahead \in Int
    BY <1>1
  <2> QED BY <1>1, <2>1, <2>2, QuotientsOrder, Zenon
<1>3. /\ (Start + t) \div NsPerSec \in Nat /\ (Start + now) \div NsPerSec \in Nat
      /\ (Start + t + Ahead) \div NsPerSec \in Nat /\ (Start + now + Ahead) \div NsPerSec \in Nat
  <2>1. NsPerSec \in Nat \ {0}
    BY NtpConstants
  <2> QED BY <1>1, <2>1, QuotientIsNat, Zenon
<1>4. \A a, b \in Nat : a <= b /\ b + Epoch < EraSecs => a + Epoch < EraSecs
  BY NtpConstants
<1>5. /\ (Start + now) \div NsPerSec + Epoch < EraSecs
      /\ (Start + now + Ahead) \div NsPerSec + Epoch < EraSecs
  BY DEF N!InEra, N!Local, N!Remote
<1>6. (Start + t) \div NsPerSec + Epoch < EraSecs /\ (Start + t + Ahead) \div NsPerSec + Epoch < EraSecs
  BY <1>2, <1>3, <1>4, <1>5, Zenon
<1> QED BY <1>1, <1>6, ThereAndBack, Zenon

\* An era that has not ended had not ended before.
LEMMA EraWasOn ==
  ASSUME now \in Nat, now' \in Nat, now <= now', N!InEra'
  PROVE  N!InEra
<1>1. /\ Start + now \in Nat /\ Start + now' \in Nat /\ Start + now <= Start + now'
      /\ Start + now + Ahead \in Nat /\ Start + now' + Ahead \in Nat
      /\ Start + now + Ahead <= Start + now' + Ahead
  <2>1. \A x, y \in Nat :
          x <= y => /\ Start + x \in Nat /\ Start + y \in Nat /\ Start + x <= Start + y
                    /\ Start + x + Ahead \in Nat /\ Start + y + Ahead \in Nat
                    /\ Start + x + Ahead <= Start + y + Ahead
    BY NtpConstants
  <2> QED BY <2>1, Zenon
<1>2. \A a, b \in Nat : a <= b => a \div NsPerSec <= b \div NsPerSec
  <2>1. NsPerSec \in Nat \ {0} /\ \A a \in Nat : a \in Int
    BY NtpConstants
  <2> QED BY <2>1, QuotientsOrder, Zenon
<1>3. \A a \in Nat : a \div NsPerSec \in Nat
  <2>1. NsPerSec \in Nat \ {0}
    BY NtpConstants
  <2> QED BY <2>1, QuotientIsNat, Zenon
<1>4. \A a, b \in Nat : a <= b /\ b + Epoch < EraSecs => a + Epoch < EraSecs
  BY NtpConstants
<1>5. /\ (Start + now') \div NsPerSec + Epoch < EraSecs
      /\ (Start + now' + Ahead) \div NsPerSec + Epoch < EraSecs
  BY DEF N!InEra, N!Local, N!Remote
<1>6. /\ (Start + now) \div NsPerSec + Epoch < EraSecs
      /\ (Start + now + Ahead) \div NsPerSec + Epoch < EraSecs
  BY <1>1, <1>2, <1>3, <1>4, <1>5, Zenon
<1> QED BY <1>6, Zenon DEF N!InEra, N!Local, N!Remote

LEMMA BracketStays ==
  ASSUME now \in Nat, now' \in Nat, now <= now', ntpOffset' = ntpOffset, N!NtpIsBracketed
  PROVE  N!NtpIsBracketed'
  BY EraWasOn DEF N!NtpIsBracketed

Reads(u, time) == u \in {time - 1, time}

\* u0, u1, u2: what is read of the request, the answer and the clock on its arrival, each
\* right but for a nanosecond.
LEMMA LeadBound ==
  ASSUME NEW s \in Int, NEW lead \in Int, NEW t \in Int, NEW g \in Int, NEW n \in Int, t <= g, g <= n,
         NEW u0, Reads(u0, s + t), NEW u1, Reads(u1, s + g + lead), NEW u2, Reads(u2, s + n)
  PROVE  N!NtpAbs(N!NtpHalf((u1 - u0) + (u1 - u2)) - lead) <= N!NtpAbs((u2 - u0) - (u1 - u1)) \div 2 + 2
<1> DEFINE sum == (u1 - u0) + (u1 - u2)
           half == N!NtpHalf(sum)
           rtt == N!NtpAbs((u2 - u0) - (u1 - u1))
           err == rtt \div 2
<1>1. u0 \in Int /\ u1 \in Int /\ u2 \in Int
  BY DEF Reads
<1>2. sum \in Int
  BY <1>1
<1>3. /\ u0 <= s + t /\ u0 >= (s + t) - 1 /\ u1 <= s + g + lead /\ u1 >= (s + g + lead) - 1
      /\ u2 <= s + n /\ u2 >= (s + n) - 1
  BY DEF Reads
<1>4. rtt \in Nat /\ rtt >= u2 - u0 /\ rtt >= u0 - u2
  BY <1>1 DEF N!NtpAbs
<1>5. ASSUME NEW x \in Int
      PROVE  N!NtpHalf(x) \in Int /\ 2 * N!NtpHalf(x) <= x + 1 /\ x <= 2 * N!NtpHalf(x) + 1
  <2>1. CASE x >= 0
    BY <2>1 DEF N!NtpHalf
  <2>2. CASE x < 0
    BY <2>2 DEF N!NtpHalf, N!NtpAbs
  <2> QED BY <2>1, <2>2
<1>6. half \in Int /\ 2 * half <= sum + 1 /\ sum <= 2 * half + 1
  BY <1>2, <1>5, Zenon
<1>7. \A x \in Nat : x \div 2 \in Int /\ x <= 2 * (x \div 2) + 1
  OBVIOUS
<1>8. err \in Int /\ rtt <= 2 * err + 1
  BY <1>4, <1>7, Zenon
<1>9. sum = (u1 - u0) + (u1 - u2)
  OBVIOUS
<1> HIDE DEF sum, half, rtt, err
<1>10. half - lead <= err + 2 /\ lead - half <= err + 2
  BY <1>1, <1>2, <1>3, <1>4, <1>6, <1>8, <1>9
<1>11. N!NtpAbs(half - lead) <= err + 2
  BY <1>6, <1>8, <1>10 DEF N!NtpAbs
<1> QED BY <1>11 DEF half, sum, rtt, err

\* The clock only goes on.
LEMMA SentStay ==
  ASSUME NtpInv, now' \in 0 .. MaxNow, now <= now'
  PROVE  /\ RequestsSent \subseteq RequestsSent' /\ AnswersSent \subseteq AnswersSent'
         /\ requests \in Seq(RequestsSent') /\ answers \in Seq(AnswersSent')
<1>1. 0 .. now \subseteq 0 .. now'
  BY DEF NtpInv
<1>2. RequestsSent \subseteq RequestsSent'
  <2> SUFFICES ASSUME NEW m \in RequestsSent PROVE m \in RequestsSent'
    OBVIOUS
  <2>1. PICK s \in Nat, t \in 0 .. now : m = RequestAt(s, t)
    BY DEF RequestsSent
  <2>2. t \in 0 .. now'
    BY <1>1
  <2>3. m \in {RequestAt(x, y) : x \in Nat, y \in 0 .. now'}
    BY <2>1, <2>2
  <2> QED BY <2>3 DEF RequestsSent, RequestAt, N!unix_to_ntp
<1>3. AnswersSent \subseteq AnswersSent'
  <2> SUFFICES ASSUME NEW m \in AnswersSent PROVE m \in AnswersSent'
    OBVIOUS
  <2>1. PICK g \in 0 .. now : m \in {AnswerAt(x, y, g) : x \in Nat, y \in 0 .. g}
    BY DEF AnswersSent
  <2>2. g \in 0 .. now'
    BY <1>1
  <2>3. m \in UNION {{AnswerAt(x, y, h) : x \in Nat, y \in 0 .. h} : h \in 0 .. now'}
    BY <2>1, <2>2
  <2> QED BY <2>3 DEF AnswersSent, AnswerAt, N!unix_to_ntp
<1> QED BY <1>2, <1>3, SeqGrows DEF NtpInv

LEMMA ReceivesInv ==
  ASSUME NtpInv, N!SyncReceives
  PROVE  NtpInv'
<1> DEFINE a == Head(answers)
           arrival == N!unix_to_ntp(N!Local)
<1>1. /\ answers # <<>> /\ answers' = Tail(answers) /\ UNCHANGED <<now, sequence, requests>>
      /\ ntpOffset' = [offset |-> N!clock_offset(a, arrival), error |-> N!NtpAbs(N!round_trip_time(a, arrival)) \div 2,
                       rtt |-> N!NtpAbs(N!round_trip_time(a, arrival))]
  BY DEF N!SyncReceives
<1>2. a \in AnswersSent /\ answers' \in Seq(AnswersSent)
  BY <1>1, Takes DEF NtpInv
<1> HIDE DEF a
<1>3. PICK g \in 0 .. now : \E s \in Nat, t \in 0 .. g : a = AnswerAt(s, t, g)
  BY <1>2 DEF AnswersSent
<1>4. PICK t \in 0 .. g : \E s \in Nat : a = AnswerAt(s, t, g)
  BY <1>3
<1>5. /\ a.reference = N!unix_to_ntp(Start + t) /\ a.receive = N!unix_to_ntp(Start + g + Ahead)
      /\ a.send = a.receive
  BY <1>4 DEF AnswerAt
<1>6. arrival = N!unix_to_ntp(Start + now)
  BY DEF N!Local
<1> HIDE DEF arrival
<1>7. now \in Nat /\ t \in 0 .. now /\ g \in 0 .. now /\ now \in 0 .. now /\ t <= g /\ g <= now
  BY NtpConstants DEF NtpInv
<1> DEFINE u0 == N!ntp_to_unix(a.reference)
           u1 == N!ntp_to_unix(a.receive)
           u2 == N!ntp_to_unix(arrival)
<1>8. N!InEra => Reads(u0, Start + t) /\ Reads(u1, Start + g + Ahead) /\ Reads(u2, Start + now)
  BY <1>5, <1>6, <1>7, ReadInEra DEF Reads
<1>9. /\ N!clock_offset(a, arrival) = N!NtpHalf((u1 - u0) + (u1 - u2))
      /\ N!round_trip_time(a, arrival) = (u2 - u0) - (u1 - u1)
  <2>1. N!ntp_to_unix(a.send) = u1
    BY <1>5
  <2> QED BY <2>1 DEF N!clock_offset, N!round_trip_time
<1> HIDE DEF u0, u1, u2
<1>10. N!InEra => N!NtpAbs(N!NtpHalf((u1 - u0) + (u1 - u2)) - Ahead) <= N!NtpAbs((u2 - u0) - (u1 - u1)) \div 2 + 2
  <2>1. Start \in Int /\ Ahead \in Int /\ t \in Int /\ g \in Int /\ now \in Int
    BY <1>7, NtpConstants
  <2> QED BY <1>7, <1>8, <2>1, LeadBound, Zenon
<1>11. /\ ntpOffset'.offset = N!NtpHalf((u1 - u0) + (u1 - u2))
       /\ ntpOffset'.error = N!NtpAbs((u2 - u0) - (u1 - u1)) \div 2
  BY <1>1, <1>9
<1>12. N!NtpIsBracketed'
  <2>1. N!InEra' => N!InEra
    BY <1>1 DEF N!InEra, N!Local, N!Remote
  <2> QED BY <1>10, <1>11, <2>1 DEF N!NtpIsBracketed
<1>13. requests' \in Seq(RequestsSent') /\ answers' \in Seq(AnswersSent')
  BY <1>1, <1>2 DEF NtpInv, RequestsSent, AnswersSent
<1> QED BY <1>1, <1>12, <1>13 DEF NtpInv

LEMMA NtpSteps ==
  ASSUME NtpInv, N!NtpNext
  PROVE  NtpInv'
<1>1. CASE N!NtpTick
  <2>1. now' \in 0 .. MaxNow /\ now <= now' /\ UNCHANGED <<sequence, requests, answers, ntpOffset>>
    BY <1>1, NtpConstants DEF N!NtpTick, NtpInv
  <2>2. N!NtpIsBracketed'
    BY <2>1, BracketStays, NtpConstants DEF NtpInv
  <2> QED BY <2>1, <2>2, SentStay DEF NtpInv
<1>2. CASE N!SyncReceives
  BY <1>2, ReceivesInv
<1>3. ASSUME UNCHANGED <<now, ntpOffset>>, sequence' \in Nat,
             requests' \in Seq(RequestsSent), answers' \in Seq(AnswersSent)
      PROVE  NtpInv'
  <2>1. RequestsSent' = RequestsSent /\ AnswersSent' = AnswersSent
    BY <1>3 DEF RequestsSent, AnswersSent
  <2>2. N!NtpIsBracketed'
    BY <1>3, BracketStays, NtpConstants DEF NtpInv
  <2> QED BY <1>3, <2>1, <2>2 DEF NtpInv
<1>4. /\ now \in 0 .. MaxNow /\ sequence \in Nat
      /\ requests \in Seq(RequestsSent) /\ answers \in Seq(AnswersSent)
  BY DEF NtpInv
<1>5. CASE N!SyncSends
  <2>1. N!Request(sequence) \in RequestsSent
    <3>1. N!Request(sequence) = RequestAt(sequence, now)
      BY DEF N!Request, RequestAt, N!Local
    <3>2. now \in 0 .. now
      BY <1>4
    <3> QED BY <1>4, <3>1, <3>2 DEF RequestsSent
  <2>2. requests' \in Seq(RequestsSent)
    BY <1>4, <1>5, <2>1, Delivers DEF N!SyncSends
  <2>3. sequence' \in Nat /\ UNCHANGED <<now, ntpOffset, answers>>
    BY <1>4, <1>5 DEF N!SyncSends
  <2> QED BY <1>3, <1>4, <2>2, <2>3
<1>6. CASE N!ServerAnswers
  <2>1. Head(requests) \in RequestsSent /\ requests' \in Seq(RequestsSent)
    BY <1>4, <1>6, Takes DEF N!ServerAnswers
  <2>2. PICK s \in Nat, t \in 0 .. now : Head(requests) = RequestAt(s, t)
    BY <2>1 DEF RequestsSent
  <2>3. N!Answer(Head(requests)) = AnswerAt(s, t, now)
    <3>1. RequestAt(s, t).seq = s /\ RequestAt(s, t).reference = N!unix_to_ntp(Start + t)
      BY DEF RequestAt
    <3>2. N!Remote = Start + now + Ahead
      BY DEF N!Remote
    <3> QED BY <2>2, <3>1, <3>2 DEF N!Answer, AnswerAt
  <2>4. AnswerAt(s, t, now) \in AnswersSent
    <3>1. now \in 0 .. now
      BY <1>4
    <3> QED BY <3>1 DEF AnswersSent
  <2>5. answers' = answers \/ answers' \in N!Delivered(answers, N!Answer(Head(requests)))
    BY <1>6 DEF N!ServerAnswers
  <2>6. answers' \in Seq(AnswersSent)
    BY <1>4, <2>3, <2>4, <2>5, Delivers
  <2>7. UNCHANGED <<now, ntpOffset, sequence>>
    BY <1>6 DEF N!ServerAnswers
  <2> QED BY <1>3, <1>4, <2>1, <2>6, <2>7
<1>7. CASE N!SyncTimesOut \/ N!StopServer \/ N!ServerEnds \/ N!ClientStops \/ N!ClientStarts
  <2>1. /\ UNCHANGED <<now, ntpOffset, sequence>>
        /\ requests' \in {requests, <<>>} /\ answers' \in {answers, <<>>}
    BY <1>7 DEF N!SyncTimesOut, N!StopServer, N!ServerEnds, N!ClientStops, N!ClientStarts
  <2>2. requests' \in Seq(RequestsSent) /\ answers' \in Seq(AnswersSent)
    <3>1. \A S : <<>> \in Seq(S)
      OBVIOUS
    <3> QED BY <1>4, <2>1, <3>1, Zenon
  <2>3. sequence' \in Nat /\ now' = now /\ ntpOffset' = ntpOffset
    BY <1>4, <2>1
  <2> QED BY <1>3, <2>2, <2>3
<1> QED BY <1>1, <1>2, <1>5, <1>6, <1>7 DEF N!NtpNext

LEMMA TimingStays == Spec => [](ExchangeInv /\ NtpInv)
<1>1. Init => ExchangeInv /\ NtpInv
  <2> SUFFICES ASSUME Init PROVE NtpInv
    BY ExchangeStarts
  <2>1. /\ now = 0 /\ sequence = 0 /\ requests = <<>> /\ answers = <<>>
        /\ ntpOffset = [offset |-> 0, error |-> 0, rtt |-> 0]
    BY DEF Init, N!NtpInit
  <2> QED BY <2>1, NtpConstants DEF NtpInv, N!NtpIsBracketed
<1>2. ExchangeInv /\ NtpInv /\ [Next]_vars => ExchangeInv' /\ NtpInv'
  <2> SUFFICES ASSUME ExchangeInv, NtpInv, [Next]_vars PROVE NtpInv'
    BY ExchangeSteps
  <2>1. CASE N!NtpNext
    BY <2>1, NtpSteps
  <2>2. ASSUME now' \in 0 .. MaxNow, now <= now', UNCHANGED ntpOnly PROVE NtpInv'
    <3>1. UNCHANGED <<sequence, requests, answers, ntpOffset>>
      BY <2>2 DEF ntpOnly
    <3>2. N!NtpIsBracketed'
      BY <2>2, <3>1, BracketStays, NtpConstants DEF NtpInv
    <3>3. requests' \in Seq(RequestsSent') /\ answers' \in Seq(AnswersSent')
      BY <2>2, <3>1, SentStay
    <3> QED BY <2>2, <3>1, <3>2, <3>3 DEF NtpInv
  <2>3. PtpNext => now' = now \/ (now < MaxNow /\ now' = now + 1)
    <3>1. Tick => now < MaxNow /\ now' = now + 1
      BY DEF Tick
    <3>2. \A p \in Peers : PeerSyncs(p) \/ PeerAnnounces(p) \/ PeerAsks(p) \/ PeerAnswers(p) => now' = now
      BY DEF PeerSyncs, PeerAnnounces, PeerAsks, PeerAnswers
    <3>3. \/ SlaveHello \/ BmcaHello \/ GroupHello \/ HelloFails \/ DrainEvent
          \/ BmcaHears \/ BmcaTimesOut \/ GroupHears \/ GroupTimesOut
          \/ HandleSync \/ HandleFollowUp \/ DropGeneral \/ HandleDelayResp \/ HandleDelayReq
          \/ SlaveAnnounces \/ GroupSyncs \/ SocketError
          => now' = now
      BY DEF SlaveHello, BmcaHello, GroupHello, HelloFails, DrainEvent, BmcaHears, BmcaTimesOut, GroupHears,
             GroupTimesOut, HandleSync, HandleFollowUp, DropGeneral, HandleDelayResp,
             HandleDelayReq, SlaveAnnounces, GroupSyncs, SocketError
    <3> QED BY <3>1, <3>2, <3>3, Zenon DEF PtpNext
  <2>4. now \in 0 .. MaxNow
    BY DEF NtpInv
  <2>5. now' = now \/ (now < MaxNow /\ now' = now + 1) => now' \in 0 .. MaxNow /\ now <= now'
    BY <2>4, NtpConstants
  <2>6. UNCHANGED ptpVars => now' = now
    BY DEF ptpVars
  <2> QED BY <2>1, <2>2, <2>3, <2>5, <2>6, TimingSteps
<1> QED BY <1>1, <1>2, PTL DEF Spec

\* For any clocks, losses, delays and reordered or late answers. Over NTP, until the era ends:
\* an offset is true to within the error it reports. Over PTP: it is true to within the delay
\* it reports when Sync, Follow_Up, Delay_Req and Delay_Resp belong together, and of any other
\* exchange wrong by no more than its messages run backwards and its two receivers differ.
THEOREM OffsetStaysBracketed == Spec => []OffsetIsBracketed
<1>1. ExchangeInv /\ NtpInv => OffsetIsBracketed
  BY DEF ExchangeInv, NtpInv, OffsetIsBracketed
<1> QED BY <1>1, TimingStays, PTL

-----------------------------------------------------------------------------
(* The types: the stages of a PTP task and the sockets of NTP.               *)

\* The identity of a clock is told when the wait for it ends, by the tasks that wait.
StageInv ==
  /\ flow \in Flows /\ stage \in {"hello", "wait", "loop", "ended"}
  /\ clockId \in ClockReport \cup {None}
  /\ clockId # None <=> flow \in {"bmca", "group"} /\ stage = "loop"

LEMMA StageSteps ==
  ASSUME ExchangeInv, StageInv, PtpNext
  PROVE  StageInv'
<1>1. CASE Tick \/ (\E p \in Peers : PeerSyncs(p) \/ PeerAnnounces(p) \/ PeerAsks(p) \/ PeerAnswers(p))
           \/ DrainEvent \/ DropGeneral \/ HandleDelayReq \/ SlaveAnnounces \/ GroupSyncs
  <2>1. UNCHANGED <<flow, stage, clockId>>
    BY <1>1 DEF Tick, PeerSyncs, PeerAnnounces, PeerAsks, PeerAnswers, DrainEvent, DropGeneral,
                HandleDelayReq, SlaveAnnounces, GroupSyncs, report
  <2> QED BY <2>1 DEF StageInv
<1>2. CASE HandleSync \/ HandleFollowUp \/ HandleDelayResp
  <2>1. UNCHANGED <<flow, stage, clockId>>
    BY <1>2 DEF HandleSync, HandleFollowUp, HandleDelayResp, report
  <2> QED BY <2>1 DEF StageInv
<1>3. CASE SlaveHello \/ BmcaHello \/ GroupHello \/ HelloFails \/ SocketError
  <2>1. /\ UNCHANGED <<flow, clockId>> /\ stage' \in {"wait", "loop", "ended"}
        /\ flow \in {"bmca", "group"} => stage = "hello" /\ stage' \in {"wait", "ended"}
    BY <1>3 DEF SlaveHello, BmcaHello, GroupHello, HelloFails, SocketError, report
  <2> QED BY <2>1 DEF StageInv, Flows
<1>4. CASE BmcaHears
  <2>1. Head(generalIn) \in Datagram
    <3>1. generalIn \in Seq(GeneralMessages) /\ generalIn # <<>>
      BY <1>4 DEF BmcaHears, ExchangeInv, WireType
    <3> QED BY <3>1, Takes DEF GeneralMessages
  <2>2. Head(generalIn).src \in Peers /\ Head(generalIn).clock \in Peers
    BY <2>1 DEF Datagram
  <2>3. flow' = flow /\ flow = "bmca" /\ stage = "wait"
    BY <1>4 DEF BmcaHears
  <2>4. \/ clockId' = [id |-> Head(generalIn).clock, from |-> Head(generalIn).src] /\ stage' = "loop"
        \/ clockId' = clockId /\ stage' \in {stage, "ended"}
    BY <1>4 DEF BmcaHears, Decide
  <2>5. [id |-> Head(generalIn).clock, from |-> Head(generalIn).src] \in ClockReport
    BY <2>2 DEF ClockReport
  <2> QED BY <2>3, <2>4, <2>5, PtpAssumption DEF StageInv
<1>5. CASE BmcaTimesOut \/ GroupHears \/ GroupTimesOut
  <2>1. /\ flow' = flow /\ flow \in {"bmca", "group"} /\ stage = "wait"
        /\ \/ clockId' \in {[id |-> Zeros, from |-> None], OwnClock} /\ stage' = "loop"
           \/ clockId' = clockId /\ stage' \in {"wait", "ended"}
    BY <1>5 DEF BmcaTimesOut, GroupHears, GroupTimesOut, Decide
  <2>2. {[id |-> Zeros, from |-> None], OwnClock} \subseteq ClockReport
    BY DEF OwnClock, ClockReport
  <2> QED BY <2>1, <2>2, PtpAssumption DEF StageInv
<1> QED BY <1>1, <1>2, <1>3, <1>4, <1>5, Zenon DEF PtpNext

\* The client counts its requests, the sockets hold so much and no more, and a client that
\* has stopped has no socket.
SocketInv ==
  /\ client \in {"idle", "waiting", "stopped"} /\ sequence \in 0..MaxRequests
  /\ Len(requests) <= MaxQueue /\ Len(answers) <= MaxQueue
  /\ server \in {"running", "told", "ended"} /\ synchronized \in BOOLEAN
  /\ client = "stopped" => answers = <<>> /\ ~synchronized

LEMMA DeliversSome ==
  ASSUME NEW S, NEW q \in Seq(S), NEW m, NEW r \in N!Delivered(q, m), Len(q) <= MaxQueue
  PROVE  Len(r) <= MaxQueue
<1>1. MaxQueue \in Nat /\ Len(q) \in Nat /\ Len(Append(q, m)) = Len(q) + 1
  BY PtpAssumption
<1>2. r = q \/ (Len(q) < MaxQueue /\ r = Append(q, m))
  BY DEF N!Delivered
<1> QED BY <1>1, <1>2

LEMMA TakesOne ==
  ASSUME NEW S, NEW q \in Seq(S), q # <<>>, Len(q) <= MaxQueue
  PROVE  Len(Tail(q)) <= MaxQueue
<1>1. MaxQueue \in Nat /\ Len(q) \in Nat /\ Len(Tail(q)) = Len(q) - 1
  BY PtpAssumption
<1> QED BY <1>1

LEMMA SocketSteps ==
  ASSUME NtpInv, SocketInv, N!NtpNext
  PROVE  SocketInv'
<1>1. requests \in Seq(RequestsSent) /\ answers \in Seq(AnswersSent)
  BY DEF NtpInv
<1>2. Len(<<>>) <= MaxQueue /\ MaxRequests \in Nat
  BY PtpAssumption, TimingAssumption DEF N!NtpAssumption
<1>3. CASE N!NtpTick \/ N!SyncTimesOut \/ N!StopServer \/ N!ServerEnds
  <2>1. UNCHANGED <<sequence, requests, answers, synchronized>>
    BY <1>3 DEF N!NtpTick, N!SyncTimesOut, N!StopServer, N!ServerEnds
  <2>2. (client' = client \/ client' = "idle") /\ server' \in {server, "told", "ended"}
    BY <1>3 DEF N!NtpTick, N!SyncTimesOut, N!StopServer, N!ServerEnds
  <2> QED BY <2>1, <2>2 DEF SocketInv
<1>4. CASE N!SyncSends
  <2>1. requests' \in N!Delivered(requests, N!Request(sequence)) /\ Len(requests) <= MaxQueue
    BY <1>4 DEF N!SyncSends, SocketInv
  <2>2. Len(requests') <= MaxQueue
    BY <1>1, <2>1, DeliversSome
  <2>3. sequence' \in 0..MaxRequests
    BY <1>2, <1>4 DEF N!SyncSends, SocketInv
  <2>4. client' = "waiting" /\ UNCHANGED <<answers, server, synchronized>>
    BY <1>4 DEF N!SyncSends
  <2> QED BY <2>2, <2>3, <2>4 DEF SocketInv
<1>5. CASE N!SyncReceives
  <2>1. answers # <<>> /\ answers' = Tail(answers) /\ Len(answers) <= MaxQueue
    BY <1>5 DEF N!SyncReceives, SocketInv
  <2>2. Len(answers') <= MaxQueue
    BY <1>1, <2>1, TakesOne
  <2>3. client' = "idle" /\ synchronized' = TRUE /\ UNCHANGED <<sequence, requests, server>>
    BY <1>5 DEF N!SyncReceives
  <2> QED BY <2>2, <2>3 DEF SocketInv
<1>6. CASE N!ClientStops \/ N!ClientStarts
  <2>1. \/ client' = "stopped" /\ answers' = <<>> /\ synchronized' = FALSE /\ requests' = requests
        \/ client' = "idle" /\ requests' = <<>> /\ UNCHANGED <<answers, synchronized>>
    BY <1>6 DEF N!ClientStops, N!ClientStarts
  <2>2. UNCHANGED <<sequence, server>>
    BY <1>6 DEF N!ClientStops, N!ClientStarts
  <2> QED BY <1>2, <2>1, <2>2 DEF SocketInv
<1>7. CASE N!ServerAnswers
  <2>1. /\ requests # <<>> /\ requests' = Tail(requests) /\ Len(requests) <= MaxQueue
        /\ Len(answers) <= MaxQueue /\ UNCHANGED <<client, sequence, server, synchronized>>
        /\ IF client = "stopped" THEN answers' = answers
           ELSE answers' \in N!Delivered(answers, N!Answer(Head(requests)))
    BY <1>7 DEF N!ServerAnswers, SocketInv
  <2>2. Len(requests') <= MaxQueue
    BY <1>1, <2>1, TakesOne
  <2>3. Len(answers') <= MaxQueue
    BY <1>1, <2>1, DeliversSome
  <2> QED BY <2>1, <2>2, <2>3 DEF SocketInv
<1> QED BY <1>3, <1>4, <1>5, <1>6, <1>7, Zenon DEF N!NtpNext

\* A share of a second fits into the fraction of a timestamp.
LEMMA FractionFits ==
  ASSUME NEW n \in Nat \ {0}, NEW f \in Nat \ {0}, NEW r \in 0 .. (n - 1)
  PROVE  ((r * f) \div n) \in 0 .. (f - 1)
<1> DEFINE q == (r * f) \div n
<1>1. r * f \in Nat
  OBVIOUS
<1>2. q \in Nat /\ (r * f) % n \in 0..(n - 1) /\ r * f = n * q + ((r * f) % n)
  <2>1. \A x \in Nat : /\ x \div n \in Nat /\ x % n \in 0..(n - 1)
                      /\ x = n * (x \div n) + (x % n)
    BY DivisionOfNat
  <2> QED BY <1>1, <2>1, Zenon
<1> HIDE DEF q
<1>3. n * q <= r * f /\ n * q \in Int /\ n * f \in Int
  BY <1>1, <1>2
<1>4. r * f < n * f
  <2>1. n * f = r * f + f * (n - r)
    OBVIOUS
  <2>2. f * (n - r) > 0
    OBVIOUS
  <2>3. f * (n - r) \in Int
    OBVIOUS
  <2> QED BY <1>1, <1>3, <2>1, <2>2, <2>3
<1>5. n * q < n * f
  BY <1>1, <1>3, <1>4
<1>6. q < f
  BY <1>2, <1>5, FactorsCompare
<1>7. q \in 0 .. (f - 1)
  BY <1>2, <1>6
<1> QED BY <1>7 DEF q

LEMMA TimestampType ==
  ASSUME NEW ns \in Nat
  PROVE  N!unix_to_ntp(ns) \in N!NtpTime
<1>1. NsPerSec \in Nat \ {0} /\ FracPerSec \in Nat \ {0} /\ Epoch \in Nat
  BY NtpConstants
<1>2. ns \div NsPerSec \in Nat /\ ns % NsPerSec \in 0 .. (NsPerSec - 1)
  BY <1>1, DivisionOfNat, Zenon
<1>3. EraSecs \in Nat \ {0}
  BY NtpConstants
<1> DEFINE s == ns \div NsPerSec
           r == ns % NsPerSec
<1>4. ((r * FracPerSec) \div NsPerSec) \in 0 .. (FracPerSec - 1)
  <2>1. r \in 0 .. (NsPerSec - 1)
    BY <1>2
  <2> HIDE DEF r
  <2> QED BY <1>1, <2>1, FractionFits, Zenon
<1>5. (s + Epoch) % EraSecs \in 0 .. (EraSecs - 1)
  <2>1. s + Epoch \in Nat
    BY <1>1, <1>2
  <2> HIDE DEF s
  <2> QED BY <1>3, <2>1, DivisionOfNat, Zenon
<1>6. N!unix_to_ntp(ns) = [secs |-> (s + Epoch) % EraSecs, frac |-> ((r * FracPerSec) \div NsPerSec)]
  BY DEF N!unix_to_ntp
<1> HIDE DEF s, r
<1>7. \A a \in 0 .. (EraSecs - 1), b \in 0 .. (FracPerSec - 1) : [secs |-> a, frac |-> b] \in N!NtpTime
  BY DEF N!NtpTime
<1> QED BY <1>4, <1>5, <1>6, <1>7, Zenon

LEMMA MessageTypes ==
  ASSUME NtpInv
  PROVE  requests \in Seq(N!RequestType) /\ answers \in Seq(N!AnswerType)
<1>1. now \in Nat /\ now \in 0 .. MaxNow /\ Start \in Nat /\ MaxNow \in Nat
  BY NtpConstants DEF NtpInv
<1>2. \A t \in 0 .. now : N!unix_to_ntp(Start + t) \in N!NtpTime
  <2> SUFFICES ASSUME NEW t \in 0 .. now PROVE N!unix_to_ntp(Start + t) \in N!NtpTime
    OBVIOUS
  <2>1. Start + t \in Nat
    BY <1>1
  <2> QED BY <2>1, TimestampType, Zenon
<1>3. \A g \in 0 .. now : N!unix_to_ntp(Start + g + Ahead) \in N!NtpTime
  <2> SUFFICES ASSUME NEW g \in 0 .. now PROVE N!unix_to_ntp(Start + g + Ahead) \in N!NtpTime
    OBVIOUS
  <2>1. Start + g + Ahead \in Nat
    BY <1>1, NtpConstants
  <2> QED BY <2>1, TimestampType, Zenon
<1>4. RequestsSent \subseteq N!RequestType
  BY <1>2 DEF RequestsSent, RequestAt, N!RequestType
<1>5. AnswersSent \subseteq N!AnswerType
  <2> SUFFICES ASSUME NEW m \in AnswersSent PROVE m \in N!AnswerType
    OBVIOUS
  <2>1. PICK g \in 0 .. now : \E s \in Nat, t \in 0 .. g : m = AnswerAt(s, t, g)
    BY DEF AnswersSent
  <2>2. PICK s \in Nat, t \in 0 .. g : m = AnswerAt(s, t, g)
    BY <2>1
  <2>3. t \in 0 .. now
    BY <1>1
  <2> QED BY <1>2, <1>3, <2>2, <2>3 DEF AnswerAt, N!AnswerType
<1> QED BY <1>4, <1>5, SeqGrows DEF NtpInv

\* In every state of a session's clock, over PTP or NTP, a task that waits for an Announce
\* has told no clock identity yet and one that does not wait never will, no socket holds
\* more than it can, and a stopped NTP client neither has answers nor calls itself
\* synchronized.
THEOREM TimingTypesHold == Spec => []TypeOK
<1> DEFINE Inv == ExchangeInv /\ NtpInv
           Types == StageInv /\ SocketInv /\ timing_protocol \in {"Ntp", "Ptp"}
<1>1. Init => Types
  <2> SUFFICES ASSUME Init PROVE Types
    OBVIOUS
  <2>1. StageInv
    BY DEF Init, PtpInit, StageInv, Flows
  <2>2. SocketInv
    <3>1. requests = <<>> /\ answers = <<>>
      BY DEF Init, N!NtpInit
    <3>2. Len(<<>>) <= MaxQueue /\ 0 \in 0 .. MaxRequests
      BY PtpAssumption, TimingAssumption DEF N!NtpAssumption
    <3>3. /\ client = "idle" /\ sequence = 0 /\ server = "running" /\ synchronized = FALSE
      BY DEF Init, N!NtpInit
    <3>4. Len(requests) <= MaxQueue /\ Len(answers) <= MaxQueue
      BY <3>1, <3>2, Zenon
    <3> QED BY <3>1, <3>2, <3>3, <3>4 DEF SocketInv
  <2> QED BY <2>1, <2>2 DEF Init
<1>2. Inv /\ Types /\ [Next]_vars => Types'
  <2> SUFFICES ASSUME Inv, Types, [Next]_vars PROVE Types'
    OBVIOUS
  <2>1. timing_protocol' = timing_protocol
    BY DEF Next, vars
  <2>2. UNCHANGED ntpOnly => SocketInv'
    BY DEF SocketInv, ntpOnly
  <2>3. UNCHANGED ptpOnly => StageInv'
    BY DEF StageInv, ptpOnly, report
  <2>4. UNCHANGED ptpVars => StageInv'
    BY DEF StageInv, ptpVars
  <2> QED BY <2>1, <2>2, <2>3, <2>4, StageSteps, SocketSteps, TimingSteps
<1>3. Inv /\ Types => TypeOK
  <2> SUFFICES ASSUME Inv, Types PROVE PtpTypeOK /\ N!NtpTypeOK
    BY DEF TypeOK
  <2>1. eventIn \in Seq(Datagram) /\ generalIn \in Seq(Datagram)
    <3>1. EventMessages \subseteq Datagram /\ GeneralMessages \subseteq Datagram
      BY DEF EventMessages, GeneralMessages
    <3> QED BY <3>1, SeqGrows DEF ExchangeInv, WireType
  <2>2. \A p \in Peers : asked[p] \in Seq(Nat) /\ peerSeq[p] \in Nat
    <3>1. reqSeq \in Nat /\ peerSeq \in [Peers -> Nat] /\ asked \in [Peers -> Seq(0 .. reqSeq)]
      BY DEF ExchangeInv, WireType
    <3>2. 0 .. reqSeq \subseteq Nat
      BY <3>1
    <3> QED BY <3>1, <3>2, SeqGrows
  <2>3. t1 \in StampOrNone /\ t2 \in StampOrNone /\ t3 \in StampOrNone
    BY DEF ExchangeInv, StampsInv, StampRecord, StampOrNone
  <2>4. now \in 0 .. MaxNow /\ masterAddr \in Peers \cup {None}
    BY DEF ExchangeInv, WireType, NtpInv
  <2>5. PtpTypeOK
    BY <2>1, <2>2, <2>3, <2>4 DEF PtpTypeOK, StageInv
  <2>6. N!NtpTypeOK
    BY <2>4, MessageTypes DEF N!NtpTypeOK, SocketInv
  <2> QED BY <2>5, <2>6
<1>4. Spec => []Inv
  BY TimingStays
<1>5. Spec => []Types
  <2> HIDE DEF Inv, Types
  <2> QED BY <1>1, <1>2, <1>4, PTL DEF Spec
<1> QED
  <2> HIDE DEF Inv, Types
  <2> QED BY <1>3, <1>4, <1>5, PTL
=============================================================================
