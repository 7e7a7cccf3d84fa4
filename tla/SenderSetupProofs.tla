------------------------ MODULE SenderSetupProofs ------------------------
(***************************************************************************)
(* What holds of connecting, grouping and leaving receivers, for any       *)
(* number of receivers and calls and whatever fails or is given up: who    *)
(* owns a timing task, whose clock a group follows, and, for AirPlay 1,    *)
(* that the ports a receiver was told of are answered.                     *)
(***************************************************************************)
EXTENDS SenderSetup, FiniteSetTheorems, WellFoundedInduction, TLAPS

-----------------------------------------------------------------------------
(* AirPlay 1: who answers the ports.                                         *)

\* The receiver was told of a server that still runs, and of the control socket unless a
\* later setup() opened its sockets.
Answered == told # R!Unbound /\ told \in {server} \cup orphans /\ (opened = told => control = told)

\* From the announcement on: the sockets of this setup() are the last opened; a session
\* that was set up is answered until it is torn down; and a stream is started only once
\* in a session, for the session never returns to SetupComplete.
RaopInv ==
  /\ R!RaopTypeOK /\ opened \in Nat /\ starts \in 0 .. 1
  /\ await \in {"announce", "announce again", "setup"} =>
       server = opened /\ control = opened /\ opened # 0
  /\ await = "setup" => state = "Announced"
  /\ await \in {"record", "streamer"} => state = "SetupComplete"
  /\ state \in {"Connected", "Announced", "SetupComplete"} => starts = 0 /\ strm = "none"
  /\ state = "SetupComplete" \/ strm \in {"running", "paused"} => Answered

LEMMA FirstRaop == R!RaopInit => RaopInv
BY DEF R!RaopInit, RaopInv, R!RaopTypeOK, R!RaopStates, R!Unbound

\* Answers and calls that leave the sockets, the streamer and the session alone.
LEMMA RaopWaits ==
  ASSUME RaopInv, UNCHANGED <<state, password, opened, server, orphans, control, told, strm, starts>>,
         \/ await' \in {"idle", "dropped", "options", "options again", "announce again", "flush",
                        "record again", "stop", "exchange", "teardown"}
            /\ (await' = "announce again" => await = "announce")
         \/ await' = "streamer" /\ state = "SetupComplete"
         \/ await' = await
  PROVE  RaopInv'
BY DEF RaopInv, R!RaopTypeOK, Answered

LEMMA RaopStepKeeps == RaopInv /\ [R!RaopNext]_raopOnly => RaopInv'
<1> SUFFICES ASSUME RaopInv, [R!RaopNext]_raopOnly PROVE RaopInv'
  OBVIOUS
<1>1. CASE UNCHANGED raopOnly
  BY <1>1, RaopWaits DEF raopOnly
<1>2. CASE R!Fails
  BY <1>2, RaopWaits DEF R!Fails
<1>3. ASSUME R!Announced, await \in {"announce", "announce again"} PROVE RaopInv'
  <2>1. CASE state = "Connected"
    <3>1. /\ state' = "Announced" /\ await' = "setup"
          /\ UNCHANGED <<password, opened, server, orphans, control, told, strm, starts>>
      BY <1>3, <2>1 DEF R!Announced
    <3>2. server = opened /\ control = opened /\ opened # 0 /\ starts = 0 /\ strm = "none"
      BY <1>3, <2>1 DEF RaopInv
    <3>3. R!RaopTypeOK'
      BY <3>1 DEF RaopInv, R!RaopTypeOK, R!RaopStates
    <3> QED BY <3>1, <3>2, <3>3 DEF RaopInv
  <2> QED BY <1>2, <1>3, <2>1 DEF R!Announced
<1>4. CASE R!NoReply
  BY <1>4, <1>2 DEF R!NoReply
<1>5. CASE R!OptionsReply \/ R!OptionsAgainReply
  <2>1. R!Fails \/ R!Goes("options again") \/ R!Goes("idle")
    BY <1>5 DEF R!OptionsReply, R!OptionsAgainReply
  <2> QED BY <2>1, <1>2, RaopWaits DEF R!Goes
<1>6. CASE R!AnnounceReply \/ R!AnnounceAgainReply
  <2>1. /\ await \in {"announce", "announce again"}
        /\ \/ R!Fails \/ R!Announced
           \/ await = "announce" /\ R!Goes("announce again")
    BY <1>6 DEF R!AnnounceReply, R!AnnounceAgainReply
  <2> QED BY <2>1, <1>2, <1>3, RaopWaits DEF R!Goes
<1>7. CASE R!SetupReply
  <2>1. CASE state' = "SetupComplete"
    BY <1>2, <1>7, <2>1 DEF R!SetupReply, R!Fails, RaopInv, R!RaopTypeOK, R!RaopStates, R!Unbound, Answered
  <2> QED BY <1>2, <1>7, <2>1 DEF R!SetupReply
<1>8. CASE R!RecordReply
  BY <1>8, RaopWaits DEF R!RecordReply, R!Goes, RaopInv
<1>9. CASE R!RaopSetup
  <2>1. opened' = opened + 1 /\ server' = opened + 1 /\ orphans' = orphans \cup ({server} \ {0})
        /\ \/ control' = opened + 1 /\ await' = "announce"
           \/ control' = control /\ await' = "idle"
        /\ UNCHANGED <<state, password, told, strm, starts>>
    BY <1>9 DEF R!RaopSetup, R!Calls, R!OpenSockets, R!OpenServerOnly, R!Unbound
  <2>0. /\ opened \in Nat /\ server \in 0 .. opened /\ control \in 0 .. opened /\ told \in 0 .. opened
        /\ \A s \in orphans : s \in 1 .. opened
    BY DEF RaopInv, R!RaopTypeOK
  <2>2. /\ opened' \in Nat /\ server' \in 0 .. opened' /\ control' \in 0 .. opened'
        /\ told' \in 0 .. opened'
    BY <2>0, <2>1
  <2>3. \A s \in orphans' : s \in 1 .. opened' /\ s # server'
    BY <2>0, <2>1
  <2>4. R!RaopTypeOK'
    BY <2>1, <2>2, <2>3 DEF RaopInv, R!RaopTypeOK
  <2>5. opened' # 0 /\ opened' # told
    BY <2>0, <2>1
  <2>6. Answered => Answered'
    BY <2>1, <2>5 DEF R!Unbound, Answered
  <2> QED BY <2>1, <2>2, <2>4, <2>5, <2>6 DEF RaopInv
<1>10. CASE R!StartRaop
  BY <1>10, RaopWaits DEF R!StartRaop
<1>11. CASE R!Streams
  <2>1. CASE R!Fails
    BY <2>1, <1>2
  <2>2. CASE /\ strm' = "running" /\ starts' = starts + 1
             /\ state' = "Playing" /\ await' = "idle"
             /\ UNCHANGED <<password, opened, server, orphans, control, told, steps>>
    BY <1>11, <2>2 DEF R!Streams, RaopInv, R!RaopTypeOK, R!RaopStates, Answered
  <2> QED BY <1>11, <2>1, <2>2 DEF R!Streams
<1>12. CASE R!PauseRaop \/ R!ResumeRaop \/ R!StopRaop \/ R!RaopStreamEnds
  <2>1. /\ UNCHANGED <<state, password, opened, server, orphans, control, told, starts>>
        /\ await' \in {await, "flush", "record again", "stop"}
        /\ strm' \in {"running", "paused"} => strm \in {"running", "paused"}
        /\ strm = "none" => strm' = "none"
        /\ strm' \in {strm, "running", "paused", "stopped"}
    BY <1>12 DEF R!PauseRaop, R!ResumeRaop, R!StopRaop, R!RaopStreamEnds
  <2> QED BY <2>1 DEF RaopInv, R!RaopTypeOK, Answered
<1>13. CASE R!FlushReply \/ R!RecordAgainReply
  <2>1. /\ UNCHANGED <<password, opened, server, orphans, control, told, strm, starts>>
        /\ await' = "idle" /\ state' \in {state, "Paused", "Playing"}
    BY <1>13 DEF R!FlushReply, R!RecordAgainReply
  <2> QED BY <2>1 DEF RaopInv, R!RaopTypeOK, R!RaopStates, Answered
<1>14. CASE R!StopReply \/ R!ExchangeReply \/ R!TeardownReply \/ R!ExchangeRaop
  BY <1>14, RaopWaits DEF R!StopReply, R!ExchangeReply, R!TeardownReply, R!ExchangeRaop, R!Goes
<1>15. CASE R!DisconnectRaop
  <2>1. /\ strm' = IF strm = "none" THEN "none" ELSE "stopped"
        /\ \/ /\ server' = R!Unbound /\ control' = R!Unbound
              /\ state' = "TearingDown" /\ await' = "teardown"
           \/ strm # "none" /\ UNCHANGED <<server, control, state>> /\ await' = await
        /\ UNCHANGED <<password, opened, orphans, told, starts>>
    BY <1>15 DEF R!DisconnectRaop
  <2>0. opened \in Nat /\ \A s \in orphans : s \in 1 .. opened
    BY DEF RaopInv, R!RaopTypeOK
  <2>1a. 0 \in 0 .. opened /\ \A s \in orphans : s # 0
    BY <2>0
  <2>2. R!RaopTypeOK'
    BY <2>1, <2>1a DEF RaopInv, R!RaopTypeOK, R!RaopStates, R!Unbound
  <2>3. await = "idle"
    BY <1>15 DEF R!DisconnectRaop, R!Calls
  <2> QED BY <2>1, <2>2, <2>3 DEF RaopInv, Answered
<1> QED
  BY <1>1, <1>4, <1>5, <1>6, <1>7, <1>8, <1>9, <1>10, <1>11, <1>12, <1>13, <1>14, <1>15
  DEF R!RaopNext

-----------------------------------------------------------------------------
(* AirPlay 2: tasks, groups and the streamer.                                *)

Kinds == {"none", "ntp", "slave", "master", "forward"}
Flows == {"slave", "master"}
Leading == {"ntp", "slave", "master"}
Lives == {"starting", "negotiating", "following", "woken", "aborted", "ended"}
Offsets == 0 .. MaxOffset
TaskRecord == [kind : Kinds, life : Lives, ports : BOOLEAN, measured : Offsets, source : Nat,
               blocker : Nat]
ConnRecord == [stage : {"paired", "ready", "closed"}, clock : {"none", "silent", "known"},
               offset : Offsets, from : Offsets, handle : BOOLEAN]

SetupTypes ==
  /\ pc \in {"idle", "leaving", "connecting", "setup", "served", "sync", "peers", "ready"}
  /\ size \in Nat /\ size \in Sizes \cup {0} /\ protocol \in Protocols \cup {"master"}
  /\ made \in 0 .. MaxConns /\ calls \in 0 .. MaxCalls
  /\ held \in Seq(Nat) /\ building \in Seq(Nat) /\ abandoned \subseteq 1 .. made
  /\ conn \in [Conns -> ConnRecord] /\ task \in [Conns -> TaskRecord] /\ seen \in [Conns -> Offsets]
  /\ stream \in [on : BOOLEAN, conn : Nat, offset : Offsets, from : Offsets]

\* A sequence of connections in the order they were made.
Made(s) ==
  /\ \A i \in 1 .. Len(s) : s[i] \in 1 .. made
  /\ \A i, j \in 1 .. Len(s) : i < j => s[i] < s[j]

\* Nothing was set up in it.
Fresh(c) == conn[c] = NewConn /\ task[c] = NoTask

\* Whose clock is known, or known to be silent, and will not change.
Settled(c) == conn[c].clock # "none" /\ task[c].life \notin {"starting", "negotiating"}

\* Set up as a member of p's group.
Joined(c, p) ==
  /\ conn[c].clock = conn[p].clock /\ task[c].kind = "forward"

\* What each wait of the client's call can rely on: the sequences, ...
CallInv ==
  /\ Made(held) /\ Made(building)
  /\ IF pc \in {"idle", "leaving"} THEN building = <<>> ELSE held = <<>> /\ size # 0
  /\ pc # "idle" /\ size > 1 => protocol = "master"
  /\ pc = "leaving" => held # <<>> /\ made + size <= MaxConns
  /\ pc = "connecting" => Len(building) < size /\ made + size - Len(building) <= MaxConns
  /\ pc \in {"setup", "served", "sync", "peers", "ready"} => Len(building) = size

\* ... the members of a group that is being connected, ...
MembersInv ==
  \A i \in 2 .. Len(building) :
    \/ pc # "ready" /\ Fresh(building[i])
    \/ /\ pc \in {"setup", "ready"} /\ conn[Primary].stage = "ready" /\ Settled(Primary)
       /\ conn[building[i]].stage = "ready" /\ Joined(building[i], Primary)

\* ... its primary, ...
PrimaryInv ==
  /\ pc = "connecting" /\ building # <<>> => Fresh(Primary)
  /\ pc = "setup" =>
       \/ Fresh(Primary)
       \/ /\ conn[Primary].stage = "ready" /\ Settled(Primary) /\ task[Primary].kind \in Flows
          /\ \E i \in 2 .. Len(building) : Fresh(building[i])
  /\ pc = "served" => protocol = "ntp" /\ conn[Primary].stage # "ready" /\ task[Primary].kind = "ntp"
  /\ pc = "sync" => conn[Primary].stage # "ready" /\ task[Primary].kind = protocol /\ protocol # "ntp"
  /\ pc = "peers" => /\ size > 1 /\ conn[Primary].stage = "ready" /\ task[Primary].kind \in Flows
                     /\ task[Primary].life \notin {"starting", "negotiating"}
  /\ pc = "ready" => task[Primary].kind \in Leading /\ conn[Primary].stage = "ready"

\* ... and the receivers the client has.
HeldInv ==
  held # <<>> => /\ task[held[1]].kind \in Leading
                 /\ \A i \in 2 .. Len(held) : Settled(held[1]) /\ Joined(held[i], held[1])

PhaseInv ==
  /\ CallInv /\ MembersInv /\ PrimaryInv /\ HeldInv
  /\ \A c \in Conns : c > made => Fresh(c)

\* Tasks.
TaskInv ==
  \A c \in Conns :
    /\ task[c].kind = "none" => Fresh(c)
    /\ task[c].life \in {"starting", "negotiating"} => task[c].kind \in Flows
    /\ task[c].life = "starting" => ~task[c].ports /\ task[c].blocker = None
    /\ task[c].life = "negotiating" => task[c].kind = "master"
    /\ task[c].life = "woken" => task[c].kind = "forward"
    /\ task[c].ports => task[c].kind \in Flows /\ task[c].blocker = None
    /\ task[c].blocker # None => task[c].blocker \in Conns /\ task[task[c].blocker].kind \in Flows
    /\ conn[c].handle => task[c].kind # "none"

Holders == \A c, d \in Conns : HoldsPorts(c) /\ HoldsPorts(d) => c = d

\* Who follows whom, and how far.
FollowInv ==
  /\ \A c \in Conns :
       /\ task[c].kind = "forward" =>
            /\ task[c].source \in Conns /\ task[task[c].source].kind \in Flows
            /\ seen[c] <= task[task[c].source].measured
       /\ task[c].kind # "forward" => conn[c].from <= task[c].measured
  /\ stream.on => /\ stream.conn \in Conns /\ task[stream.conn].kind \in Leading
                  /\ seen[stream.conn] <= task[stream.conn].measured

\* What a forwarder, and the streamer, passed on or took over is the last offset unless
\* there is one it has not looked at.
OffsetsInv ==
  /\ \A c \in Conns :
       task[c].kind = "forward" /\ task[c].life = "following"
         /\ seen[c] = task[task[c].source].measured /\ seen[c] # conn[c].from
       => conn[c].offset = seen[c]
  /\ stream.on /\ seen[stream.conn] = task[stream.conn].measured /\ seen[stream.conn] # stream.from
       => stream.offset = seen[stream.conn]

SetupInv ==
  SetupTypes /\ PhaseInv /\ TaskInv /\ Holders /\ FollowInv /\ OffsetsInv /\ TasksAreAccounted

LEMMA SetupBounds ==
  /\ MaxConns \in Nat /\ MaxOffset \in Nat /\ MaxCalls \in Nat /\ 0 \in Offsets
  /\ Sizes \subseteq Nat \ {0}
  /\ Conns = 1 .. MaxConns
BY ClientSetupAssumption DEF Conns, Offsets

\* The elements of a sequence, and of two.
LEMMA Elements ==
  ASSUME NEW s \in Seq(Nat)
  PROVE  \A c : c \in Range(s) <=> \E i \in 1 .. Len(s) : c = s[i]
BY DEF Range

LEMMA ElementsOfBoth ==
  ASSUME NEW s \in Seq(Nat), NEW t \in Seq(Nat), s = <<>> \/ t = <<>>
  PROVE  /\ s \o t \in Seq(Nat) /\ s \o t \in {s, t}
         /\ \A c : c \in Range(s \o t) <=> c \in Range(s) \/ c \in Range(t)
<1>1. s \o t = IF s = <<>> THEN t ELSE s
  OBVIOUS
<1>2. Range(<<>>) = {}
  BY DEF Range
<1> QED BY <1>1, <1>2

\* Every set of numbers that is not empty has a least one.
LEMMA Least ==
  ASSUME NEW S \in SUBSET Nat, S # {}
  PROVE  \E m \in S : \A n \in S : m <= n
<1>1. IsWellFoundedOn(OpToRel(<, Nat), Nat)
  BY NatLessThanWellFounded
<1>2. PICK m \in S : \A n \in S : ~ (<<n, m>> \in OpToRel(<, Nat))
  BY <1>1, WFMin
<1>3. OpToRel(<, Nat) = {pair \in Nat \X Nat : pair[1] < pair[2]}
  BY Zenon DEF OpToRel
<1>4. ASSUME NEW n \in S PROVE m <= n
  <2>1. <<n, m>> \in Nat \X Nat /\ ~(<<n, m>> \in {pair \in Nat \X Nat : pair[1] < pair[2]})
    BY <1>2, <1>3
  <2>2. ~(n < m)
    BY <2>1
  <2> QED BY <2>2
<1> QED BY <1>4

\* The primary is the first made.
LEMMA PrimaryIsFirst ==
  ASSUME SetupTypes, PhaseInv, pc \in {"setup", "served", "sync", "peers", "ready"} \/ building # <<>>
  PROVE  /\ Len(building) \in Nat \ {0} /\ Primary \in Conns
         /\ \A i \in 1 .. Len(building) : building[i] \in 1 .. made /\ building[i] \in Conns
         /\ \A i \in 2 .. Len(building) : i \in 1 .. Len(building) /\ Primary < building[i]
<1>1. Len(building) \in Nat \ {0} /\ made \in Nat /\ made <= MaxConns
  BY SetupBounds DEF SetupTypes, PhaseInv, CallInv
<1>2. \A i \in 1 .. Len(building) : building[i] \in 1 .. made
  BY DEF PhaseInv, CallInv, Made
<1>3. \A i \in 2 .. Len(building) : i \in 1 .. Len(building) /\ 1 \in 1 .. Len(building) /\ 1 < i
  BY <1>1
<1>4. \A i \in 2 .. Len(building) : building[1] < building[i]
  BY <1>3 DEF PhaseInv, CallInv, Made
<1> QED BY <1>1, <1>2, <1>3, <1>4, SetupBounds DEF Primary

\* The connection setup() goes on with.
LEMMA NextSetUp ==
  ASSUME SetupTypes, PhaseInv, pc \in {"setup", "served"}
  PROVE  \/ /\ ToSetUp = Primary /\ conn[Primary].stage # "ready"
            /\ pc = "setup" => Fresh(Primary)
         \/ /\ pc = "setup" /\ conn[Primary].stage = "ready" /\ Settled(Primary) 
            /\ task[Primary].kind \in Flows /\ size > 1 /\ ToSetUp # Primary
            /\ \E i \in 2 .. Len(building) : ToSetUp = building[i] /\ Fresh(building[i])
<1> DEFINE Unready == {c \in Range(building) : conn[c].stage # "ready"}
           First(c) == c \in Unready /\ \A d \in Unready : c <= d
<1>1. ToSetUp = CHOOSE c : First(c)
  BY DEF ToSetUp
<1>2. /\ building \in Seq(Nat) /\ Len(building) \in Nat \ {0} /\ Primary \in Conns
      /\ \A i \in 1 .. Len(building) : building[i] \in 1 .. made /\ building[i] \in Conns
      /\ \A i \in 2 .. Len(building) : i \in 1 .. Len(building) /\ Primary < building[i]
  BY PrimaryIsFirst DEF SetupTypes
<1>3. /\ Unready \in SUBSET Nat
      /\ \A c : c \in Unready <=> \E i \in 1 .. Len(building) : c = building[i] /\ conn[c].stage # "ready"
  BY <1>2, Elements
<1>4. Primary \in Nat /\ 1 \in 1 .. Len(building) /\ Primary = building[1]
  BY <1>2, SetupBounds DEF Primary
<1>5. \A c, d : First(c) /\ First(d) => c = d
  BY <1>3
<1> HIDE DEF Unready
<1>6. CASE conn[Primary].stage # "ready"
  <2>1. \A d \in Unready : Primary <= d
    BY <1>2, <1>3, <1>4
  <2>2. First(Primary)
    BY <1>3, <1>4, <1>6, <2>1
  <2>3. ToSetUp = Primary
    BY <1>1, <1>5, <2>2
  <2> QED BY <1>6, <2>3 DEF PhaseInv, PrimaryInv, Fresh, NewConn
<1>7. CASE conn[Primary].stage = "ready"
  <2>1. /\ pc = "setup" /\ Settled(Primary) /\ task[Primary].kind \in Flows
        /\ \E i \in 2 .. Len(building) : Fresh(building[i])
    BY <1>7 DEF PhaseInv, PrimaryInv, Fresh, NewConn
  <2>2. PICK i \in 2 .. Len(building) : Fresh(building[i])
    BY <2>1
  <2>3. building[i] \in Unready
    BY <1>2, <1>3, <2>2 DEF Fresh, NewConn
  <2>4. \E c : First(c)
    BY <1>3, <2>3, Least
  <2>5. First(ToSetUp)
    BY <1>1, <2>4
  <2>6. PICK j \in 1 .. Len(building) : ToSetUp = building[j] /\ conn[ToSetUp].stage # "ready"
    BY <1>3, <2>5
  <2>7. j # 1 /\ j \in 2 .. Len(building)
    BY <1>2, <1>4, <1>7, <2>6
  <2>8. Fresh(building[j])
    BY <2>1, <2>6, <2>7 DEF PhaseInv, MembersInv
  <2>9. size > 1
    BY <1>2, <2>1, <2>7 DEF PhaseInv, CallInv, SetupTypes
  <2> QED BY <1>2, <1>7, <2>1, <2>6, <2>7, <2>8, <2>9
<1> QED BY <1>6, <1>7

LEMMA RecordsOf ==
  ASSUME SetupTypes, NEW c \in Conns
  PROVE  /\ task[c] \in TaskRecord /\ conn[c] \in ConnRecord /\ seen[c] \in Offsets
         /\ Aborted(c) \in TaskRecord /\ task[c].measured \in Offsets
         /\ NewConn \in ConnRecord /\ NoTask \in TaskRecord
         /\ \A kind \in Kinds : Started(kind, c) \in TaskRecord
<1>1. task[c] \in TaskRecord /\ conn[c] \in ConnRecord /\ seen[c] \in Offsets /\ c \in Nat
  BY SetupBounds DEF SetupTypes
<1>2. NewConn \in ConnRecord
  BY SetupBounds DEF NewConn, ConnRecord
<1>3. NoTask \in TaskRecord
  BY SetupBounds DEF NoTask, TaskRecord, Kinds, Lives, None
<1>4. Aborted(c) \in TaskRecord
  BY <1>1 DEF Aborted, TaskRecord, Lives
<1>5. \A kind \in Kinds : Started(kind, c) \in TaskRecord
  BY <1>1, <1>3 DEF Started, TaskRecord, Lives
<1>6. task[c].measured \in Offsets
  BY <1>1 DEF TaskRecord
<1> QED BY <1>1, <1>2, <1>3, <1>4, <1>5, <1>6

LEMMA FirstTypes == Init => SetupTypes
<1> SUFFICES ASSUME Init PROVE SetupTypes
  OBVIOUS
<1>1. NewConn \in ConnRecord
  BY SetupBounds DEF NewConn, ConnRecord
<1>2. NoTask \in TaskRecord
  BY SetupBounds DEF NoTask, TaskRecord, Kinds, Lives, None
<1> QED BY <1>1, <1>2, SetupBounds DEF Init, SetupTypes, NoStream, None

\* Calls that look at the connections only.
LEMMA CallTypes ==
  ASSUME SetupTypes, PhaseInv, FollowInv,
         \/ \E n \in Sizes : Connect(n)
         \/ Disconnect \/ PairNext \/ Return \/ Play \/ TakeOffset
  PROVE  SetupTypes'
<1> USE SetupBounds DEF SetupTypes
<1>1. CASE \E n \in Sizes : Connect(n)
  BY <1>1 DEF Connect, Called
<1>2. CASE Disconnect
  BY <1>2 DEF Disconnect, Called
<1>3. CASE PairNext
  <2>1. made + 1 \in 0 .. MaxConns /\ building' \in Seq(Nat)
    BY <1>3 DEF PairNext, PhaseInv, CallInv
  <2> QED BY <1>3, <2>1 DEF PairNext
<1>4. CASE Return
  <2>1. <<>> \in Seq(Nat)
    OBVIOUS
  <2> QED BY <1>4, <2>1 DEF Return
<1>5. CASE Play
  <2>1. held[1] \in Conns /\ held[1] \in Nat
    BY <1>5 DEF Play, PhaseInv, CallInv, Made
  <2>2. task[held[1]].measured \in Offsets /\ conn[held[1]].offset \in Offsets
    BY <2>1, RecordsOf DEF ConnRecord
  <2>3. stream' \in [on : BOOLEAN, conn : Nat, offset : Offsets, from : Offsets]
    BY <1>5, <2>1, <2>2 DEF Play
  <2>4. seen' \in [Conns -> Offsets]
    BY <1>5, <2>2 DEF Play
  <2> QED BY <1>5, <2>3, <2>4 DEF Play, Called
<1>6. CASE TakeOffset
  <2>1. stream.conn \in Conns
    BY <1>6 DEF TakeOffset, FollowInv
  <2>2. task[stream.conn].measured \in Offsets
    BY <2>1, RecordsOf
  <2>3. stream' \in [on : BOOLEAN, conn : Nat, offset : Offsets, from : Offsets]
    BY <1>6, <2>2 DEF TakeOffset
  <2>4. seen' \in [Conns -> Offsets]
    BY <1>6, <2>2 DEF TakeOffset
  <2> QED BY <1>6, <2>3, <2>4 DEF TakeOffset
<1> QED BY <1>1, <1>2, <1>3, <1>4, <1>5, <1>6

\* Leaving and giving up.
LEMMA LeftTypes ==
  ASSUME SetupTypes, NEW left, Left(left)
  PROVE  conn' \in [Conns -> ConnRecord] /\ task' \in [Conns -> TaskRecord]
<1>1. \A c \in Conns : task[c] \in TaskRecord /\ conn[c] \in ConnRecord /\ Aborted(c) \in TaskRecord
  BY RecordsOf
<1>2. \A c \in Conns : [conn[c] EXCEPT !.handle = FALSE, !.stage = "closed"] \in ConnRecord
  BY <1>1 DEF ConnRecord
<1> QED BY <1>1, <1>2 DEF Left

LEMMA LeavingTypes ==
  ASSUME SetupTypes, PhaseInv, LeaveMembers \/ LeavePrimary \/ LeavingFails \/ NoClock \/ ConnectFails
  PROVE  SetupTypes'
<1>1. <<>> \in Seq(Nat) /\ NoStream \in [on : BOOLEAN, conn : Nat, offset : Offsets, from : Offsets]
  BY SetupBounds DEF NoStream, None
<1>2. CASE LeaveMembers
  <2>1. <<held[1]>> \in Seq(Nat)
    BY <1>2 DEF LeaveMembers, SetupTypes
  <2> QED BY <1>1, <1>2, <2>1, LeftTypes DEF LeaveMembers, SetupTypes
<1>3. CASE LeavePrimary
  BY <1>1, <1>3, LeftTypes DEF LeavePrimary, SetupTypes
<1>4. CASE LeavingFails
  <2>1. \E left : Left(left)
    BY <1>4 DEF LeavingFails
  <2> QED BY <1>1, <1>4, <2>1, LeftTypes DEF LeavingFails, SetupTypes
<1>5. CASE NoClock \/ ConnectFails
  <2>1. Dropped /\ calls' = calls
    BY <1>5 DEF NoClock, ConnectFails, Dropped
  <2>2. conn' \in [Conns -> ConnRecord]
    <3>1. \A c \in Conns : conn[c] \in ConnRecord /\ [conn[c] EXCEPT !.handle = FALSE] \in ConnRecord
      BY RecordsOf DEF ConnRecord
    <3> QED BY <2>1, <3>1 DEF Dropped
  <2>3. abandoned' \subseteq 1 .. made
    <3>1. \A c \in Range(building) : c \in 1 .. made
      BY Elements DEF SetupTypes, PhaseInv, CallInv, Made
    <3> QED BY <2>1, <3>1 DEF Dropped, SetupTypes
  <2> QED BY <1>1, <2>1, <2>2, <2>3 DEF Dropped, SetupTypes
<1> QED BY <1>2, <1>3, <1>4, <1>5

\* Setting up.
LEMMA SetUpTypes ==
  ASSUME SetupTypes, PhaseInv,
         Serve \/ SetUpServed \/ SetUpPrimary \/ Synced \/ PeersOfPrimary \/ SetUpMember
  PROVE  SetupTypes'
<1>1. Primary \in Conns
  <2>1. pc \in {"setup", "served", "sync", "peers", "ready"}
    BY DEF Serve, SetUpServed, SetUpPrimary, Synced, PeersOfPrimary, SetUpMember
  <2> QED BY <2>1, PrimaryIsFirst
<1>2. /\ task[Primary] \in TaskRecord /\ conn[Primary] \in ConnRecord
      /\ task[Primary].measured \in Offsets /\ conn[Primary].from \in Offsets
  BY <1>1, RecordsOf DEF ConnRecord
<1>3. \A c \in Conns, kind \in Kinds :
        Started(kind, c) \in TaskRecord /\ [Started(kind, c) EXCEPT !.life = "following"] \in TaskRecord
  BY RecordsOf DEF TaskRecord, Lives
<1>4. /\ \A c \in Conns : /\ [conn[c] EXCEPT !.handle = TRUE] \in ConnRecord
                          /\ [conn[c] EXCEPT !.stage = "ready"] \in ConnRecord
      /\ [conn[Primary] EXCEPT !.stage = "ready", !.offset = task[Primary].measured] \in ConnRecord
      /\ [conn[Primary] EXCEPT !.from = task[Primary].measured] \in ConnRecord
      /\ [conn[Primary] EXCEPT !.handle = TRUE, !.stage = "ready"] \in ConnRecord
  BY <1>2, RecordsOf DEF ConnRecord
<1>5. CASE Serve \/ SetUpServed \/ SetUpMember
  <2>1. ToSetUp \in Conns
    BY <1>5, NextSetUp, PrimaryIsFirst DEF Serve, SetUpServed, SetUpMember
  <2>2. CASE Serve
    BY <1>3, <1>4, <2>1, <2>2 DEF Serve, SetupTypes, Kinds
  <2>3. CASE SetUpServed
    BY <1>3, <1>4, <2>1, <2>3 DEF SetUpServed, SetupTypes
  <2>4. CASE SetUpMember
    BY <1>1, <1>2, <1>3, <1>4, <2>1, <2>4 DEF SetUpMember, SetupTypes, Kinds
  <2> QED BY <1>5, <2>2, <2>3, <2>4
<1>6. CASE SetUpPrimary
  <2>1. protocol \in Kinds
    BY ClientSetupAssumption DEF SetupTypes, Kinds
  <2> QED BY <1>1, <1>3, <1>4, <1>6, <2>1 DEF SetUpPrimary, SetupTypes
<1>7. CASE Synced \/ PeersOfPrimary
  BY <1>1, <1>4, <1>7 DEF Synced, PeersOfPrimary, SetupTypes
<1> QED BY <1>5, <1>6, <1>7

\* Timing tasks: what a step of one leaves alone in all of them.
TasksMove ==
  /\ UNCHANGED <<pc, size, protocol, calls, made, held, building, abandoned, stream>>
  /\ \A d \in Conns :
       /\ task'[d].kind = task[d].kind /\ task'[d].source = task[d].source
       /\ task[d].measured <= task'[d].measured
       /\ conn'[d].stage = conn[d].stage /\ conn'[d].handle = conn[d].handle
       /\ conn'[d].from = conn[d].from
       /\ conn'[d].clock = conn[d].clock \/ task[d].life = "negotiating"
       /\ task[d].kind = "none" => task'[d] = task[d] /\ conn'[d] = conn[d]
       /\ task'[d].life \in {"starting", "negotiating", "following", "woken"} =>
            task[d].life \in {"starting", "negotiating", "following", "woken"}
       /\ task'[d].life \in {"starting", "negotiating"} => task[d].life \in {"starting", "negotiating"}

TaskSteps(c) ==
  \/ Bind(c) \/ Negotiate(c) \/ Measure(c) \/ TaskFails(c) \/ AbortTakesEffect(c)
  \/ Wake(c) \/ Forward(c) \/ ForwarderEnds(c)

LEMMA TaskTypes ==
  ASSUME SetupTypes, TaskInv, FollowInv, NEW c \in Conns, TaskSteps(c)
  PROVE  SetupTypes' /\ TasksMove
<1> USE SetupBounds DEF SetupTypes, TasksMove
<1>1. /\ task[c] \in TaskRecord /\ conn[c] \in ConnRecord
      /\ task[c].kind = "forward" => /\ task[c].source \in Conns 
                                     /\ task[task[c].source].measured \in Offsets
  BY RecordsOf DEF FollowInv
<1>2. \A d \in Conns : task[d].measured \in Nat
  BY RecordsOf DEF Offsets
<1>3. CASE Bind(c)
  <2> DEFINE holders == {d \in Conns : HoldsPorts(d)}
             next == IF task[c].kind = "master" THEN "negotiating" ELSE "following"
             blocker == IF holders = {} THEN None ELSE CHOOSE d \in holders : TRUE
             t == [task[c] EXCEPT !.life = next, !.ports = holders = {}, !.blocker = blocker]
  <2>1. /\ task' = [task EXCEPT ![c] = t] /\ task[c].life = "starting" /\ task[c].kind \in Flows
        /\ UNCHANGED <<pc, size, protocol, calls, made, held, building, conn, seen, stream, abandoned>>
    BY <1>3 DEF Bind, Flows
  <2>2. blocker \in Nat
    <3>1. holders # {} => (CHOOSE d \in holders : TRUE) \in Conns
      OBVIOUS
    <3> QED BY <3>1 DEF None
  <2>3. next \in {"negotiating", "following"}
    OBVIOUS
  <2> HIDE DEF blocker, next, holders
  <2>4. /\ t \in TaskRecord /\ t.kind = task[c].kind /\ t.source = task[c].source
        /\ t.measured = task[c].measured
    BY <1>1, <2>2, <2>3 DEF TaskRecord, Lives
  <2> HIDE DEF t
  <2>5. task' \in [Conns -> TaskRecord] /\ task'[c] = t /\ \A d \in Conns : d # c => task'[d] = task[d]
    BY <2>1, <2>4
  <2>6. SetupTypes'
    BY <2>1, <2>5
  <2>7. TasksMove
    BY <1>2, <2>1, <2>4, <2>5 DEF Flows
  <2> QED BY <2>6, <2>7
<1>4. CASE Negotiate(c)
  <2>1. PICK clock \in {"silent", "known"} : conn' = [conn EXCEPT ![c].clock = clock]
    BY <1>4 DEF Negotiate
  <2> DEFINE t == [task[c] EXCEPT !.life = "following"]
             k == [conn[c] EXCEPT !.clock = clock]
  <2>2. /\ task' = [task EXCEPT ![c] = t] /\ conn' = [conn EXCEPT ![c] = k]
        /\ task[c].life = "negotiating"
        /\ UNCHANGED <<pc, size, protocol, calls, made, held, building, seen, stream, abandoned>>
    BY <1>4, <2>1 DEF Negotiate
  <2>3. task[c].kind = "master"
    BY <2>2 DEF TaskInv
  <2>4. /\ t \in TaskRecord /\ t.kind = "master" /\ t.source = task[c].source
        /\ t.measured = task[c].measured /\ t.life = "following"
    BY <1>1, <2>3 DEF TaskRecord, Lives
  <2>5. /\ k \in ConnRecord /\ k.stage = conn[c].stage /\ k.handle = conn[c].handle
        /\ k.from = conn[c].from
    BY <1>1 DEF ConnRecord
  <2> HIDE DEF t, k
  <2>6. /\ task' \in [Conns -> TaskRecord] /\ task'[c] = t
        /\ conn' \in [Conns -> ConnRecord] /\ conn'[c] = k
        /\ \A d \in Conns : d # c => task'[d] = task[d] /\ conn'[d] = conn[d]
    BY <2>2, <2>4, <2>5
  <2>7. SetupTypes'
    BY <2>2, <2>6
  <2>8. ASSUME NEW d \in Conns
        PROVE  /\ task'[d].kind = task[d].kind /\ task'[d].source = task[d].source
               /\ task[d].measured <= task'[d].measured
               /\ conn'[d].stage = conn[d].stage /\ conn'[d].handle = conn[d].handle
               /\ conn'[d].from = conn[d].from
               /\ conn'[d].clock = conn[d].clock \/ task[d].life = "negotiating"
               /\ task[d].kind = "none" => task'[d] = task[d] /\ conn'[d] = conn[d]
               /\ task'[d].life \in {"starting", "negotiating", "following", "woken"} =>
                    task[d].life \in {"starting", "negotiating", "following", "woken"}
               /\ task'[d].life \in {"starting", "negotiating"} =>
                    task[d].life \in {"starting", "negotiating"}
    <3>1. CASE d = c
      BY <1>2, <2>2, <2>3, <2>4, <2>5, <2>6, <3>1
    <3>2. CASE d # c
      BY <1>2, <2>6, <3>2
    <3> QED BY <3>1, <3>2
  <2>9. TasksMove
    BY <2>2, <2>8
  <2> QED BY <2>7, <2>9
<1>5. CASE Measure(c)
  <2> DEFINE m == task[c].measured + 1
             t == [task[c] EXCEPT !.measured = m]
  <2>1. /\ task' = [task EXCEPT ![c] = t] /\ task[c].kind \in Flows /\ task[c].measured < MaxOffset
        /\ UNCHANGED <<pc, size, protocol, calls, made, held, building, conn, seen, stream, abandoned>>
    BY <1>5 DEF Measure, Flows
  <2>2. m \in Offsets /\ m >= task[c].measured
    BY <1>2, <2>1 DEF Offsets
  <2> HIDE DEF m
  <2>3. t \in TaskRecord /\ t.kind = task[c].kind /\ t.source = task[c].source
        /\ t.measured = m /\ t.life = task[c].life
    BY <1>1, <2>2 DEF TaskRecord
  <2> HIDE DEF t
  <2>4. task' \in [Conns -> TaskRecord] /\ task'[c] = t /\ \A d \in Conns : d # c => task'[d] = task[d]
    BY <2>1, <2>3
  <2>5. SetupTypes'
    BY <2>1, <2>4
  <2>6. TasksMove
    BY <1>2, <2>1, <2>2, <2>3, <2>4 DEF Flows
  <2> QED BY <2>5, <2>6
<1>6. CASE TaskFails(c) \/ AbortTakesEffect(c)
  <2> DEFINE t == [task[c] EXCEPT !.life = "ended", !.ports = FALSE]
  <2>1. /\ task' = [task EXCEPT ![c] = t] /\ task[c].life # "ended"
        /\ UNCHANGED <<pc, size, protocol, calls, made, held, building, conn, seen, stream, abandoned>>
    BY <1>1, <1>6 DEF TaskFails, AbortTakesEffect, TaskRecord
  <2>2. task[c].kind # "none"
    BY <2>1 DEF TaskInv, Fresh, NoTask
  <2>3. t \in TaskRecord /\ t.kind = task[c].kind /\ t.source = task[c].source
        /\ t.measured = task[c].measured /\ t.life = "ended"
    BY <1>1 DEF TaskRecord, Lives
  <2> HIDE DEF t
  <2>4. task' \in [Conns -> TaskRecord] /\ task'[c] = t /\ \A d \in Conns : d # c => task'[d] = task[d]
    BY <2>1, <2>3
  <2>5. SetupTypes'
    BY <2>1, <2>4
  <2>6. TasksMove
    BY <1>2, <2>1, <2>2, <2>3, <2>4
  <2> QED BY <2>5, <2>6
<1>7. CASE Wake(c)
  <2>1. [task[c] EXCEPT !.life = "woken"] \in TaskRecord
    BY <1>1 DEF TaskRecord, Lives
  <2> DEFINE t == [task[c] EXCEPT !.life = "woken"]
  <2>2. /\ task' = [task EXCEPT ![c] = t] /\ task[c].kind = "forward"
        /\ task[c].life = "following" /\ seen' = [seen EXCEPT ![c] = task[task[c].source].measured]
        /\ UNCHANGED <<pc, size, protocol, calls, made, held, building, conn, stream, abandoned>>
    BY <1>7 DEF Wake
  <2>3. seen' \in [Conns -> Offsets]
    BY <1>1, <2>2
  <2>4. /\ t \in TaskRecord /\ t.kind = task[c].kind /\ t.source = task[c].source
        /\ t.measured = task[c].measured /\ t.life = "woken"
    BY <1>1, <2>1 DEF TaskRecord
  <2> HIDE DEF t
  <2>5. task' \in [Conns -> TaskRecord] /\ task'[c] = t /\ \A d \in Conns : d # c => task'[d] = task[d]
    BY <2>2, <2>4
  <2>6. SetupTypes'
    BY <2>2, <2>3, <2>5
  <2>7. TasksMove
    <3>1. task[c].kind # "none"
      BY <2>2
    <3> QED BY <1>2, <2>2, <2>4, <2>5, <3>1
  <2> QED BY <2>6, <2>7
<1>8. CASE Forward(c)
  <2>1. [task[c] EXCEPT !.life = "following"] \in TaskRecord /\ task[c].kind = "forward"
    BY <1>1, <1>8 DEF TaskRecord, Lives, Forward, TaskInv
  <2>2. [conn[c] EXCEPT !.offset = task[task[c].source].measured] \in ConnRecord
    BY <1>1, <2>1 DEF ConnRecord
  <2>3. SetupTypes'
    BY <1>8, <2>1, <2>2 DEF Forward
  <2>4. TasksMove
    BY <1>2, <1>8, <2>1, <2>2 DEF Forward
  <2> QED BY <2>3, <2>4
<1>9. CASE ForwarderEnds(c)
  <2>1. [task[c] EXCEPT !.life = "ended"] \in TaskRecord
    BY <1>1 DEF TaskRecord, Lives
  <2>2. SetupTypes'
    BY <1>9, <2>1 DEF ForwarderEnds
  <2>3. TasksMove
    BY <1>2, <1>9, <2>1 DEF ForwarderEnds
  <2> QED BY <2>2, <2>3
<1> QED BY <1>3, <1>4, <1>5, <1>6, <1>7, <1>8, <1>9 DEF TaskSteps

LEMMA HeldAreMade ==
  ASSUME SetupTypes, PhaseInv
  PROVE  /\ Len(held) \in Nat /\ made \in Nat /\ made <= MaxConns
         /\ \A i \in 1 .. Len(held) : held[i] \in 1 .. made /\ held[i] \in Conns
         /\ held # <<>> => held[1] \in 1 .. made /\ held[1] \in Conns /\ Len(held) # 0
         /\ \A i \in 2 .. Len(held) : i \in 1 .. Len(held) /\ held # <<>> /\ held[1] < held[i]
<1>1. Len(held) \in Nat /\ made \in Nat /\ made <= MaxConns /\ (held # <<>> => Len(held) # 0)
  BY SetupBounds DEF SetupTypes
<1>2. \A i \in 1 .. Len(held) : held[i] \in 1 .. made /\ held[i] \in Conns
  BY <1>1, SetupBounds DEF PhaseInv, CallInv, Made
<1>3. \A i \in 2 .. Len(held) : i \in 1 .. Len(held) /\ 1 \in 1 .. Len(held) /\ 1 < i /\ held # <<>>
  BY <1>1
<1>4. \A i \in 2 .. Len(held) : held[1] < held[i]
  BY <1>3 DEF PhaseInv, CallInv, Made
<1> QED BY <1>1, <1>2, <1>3, <1>4

\* The same for the connections that are being set up.
LEMMA BuildingAreMade ==
  ASSUME SetupTypes, PhaseInv
  PROVE  /\ Len(building) \in Nat
         /\ \A i \in 1 .. Len(building) : building[i] \in 1 .. made /\ building[i] \in Conns
         /\ building # <<>> => Primary \in 1 .. made /\ Primary \in Conns
         /\ pc \in {"setup", "served", "sync", "peers", "ready"} => building # <<>>
         /\ \A i \in 2 .. Len(building) :
              i \in 1 .. Len(building) /\ building # <<>> /\ Primary < building[i]
<1>1. /\ Len(building) \in Nat /\ made \in Nat /\ made <= MaxConns
      /\ building = <<>> <=> Len(building) = 0
  BY SetupBounds DEF SetupTypes
<1>2. \A i \in 1 .. Len(building) : building[i] \in 1 .. made /\ building[i] \in Conns
  BY <1>1, SetupBounds DEF PhaseInv, CallInv, Made
<1>3. pc \in {"setup", "served", "sync", "peers", "ready"} => building # <<>>
  BY <1>1 DEF PhaseInv, CallInv, SetupTypes
<1>4. \A i \in 2 .. Len(building) : i \in 1 .. Len(building) /\ building # <<>>
  BY <1>1
<1>5. building # <<>> => 1 \in 1 .. Len(building)
  BY <1>1
<1> QED BY <1>1, <1>2, <1>3, <1>4, <1>5, PrimaryIsFirst DEF Primary

\* What is kept while the kinds of all tasks are.
Steady ==
  \A d \in Conns :
    /\ task'[d].kind = task[d].kind
    /\ Fresh(d) => Fresh(d)'
    /\ Settled(d) => Settled(d)' /\ conn'[d].clock = conn[d].clock
    /\ task[d].kind = "forward" => conn'[d].clock = conn[d].clock
    /\ task[d].life \notin {"starting", "negotiating"} => task'[d].life \notin {"starting", "negotiating"}

LEMMA TasksStaySteady ==
  ASSUME TasksMove, TaskInv
  PROVE  Steady
<1> SUFFICES ASSUME NEW d \in Conns
             PROVE  /\ task'[d].kind = task[d].kind
                    /\ Fresh(d) => Fresh(d)'
                    /\ Settled(d) => Settled(d)' /\ conn'[d].clock = conn[d].clock
                    /\ task[d].kind = "forward" => conn'[d].clock = conn[d].clock
                    /\ task[d].life \notin {"starting", "negotiating"} =>
                         task'[d].life \notin {"starting", "negotiating"}
  BY DEF Steady
<1>1. /\ task'[d].kind = task[d].kind
      /\ conn'[d].clock = conn[d].clock \/ task[d].life = "negotiating"
      /\ task[d].kind = "none" => task'[d] = task[d] /\ conn'[d] = conn[d]
      /\ task'[d].life \in {"starting", "negotiating"} => task[d].life \in {"starting", "negotiating"}
  BY DEF TasksMove
<1>2. task[d].life = "negotiating" => task[d].kind = "master"
  BY DEF TaskInv
<1>3. Fresh(d) => task[d].kind = "none"
  BY DEF Fresh, NoTask
<1>4. Fresh(d) => Fresh(d)'
  BY <1>1, <1>3 DEF Fresh
<1>5. Settled(d) => Settled(d)' /\ conn'[d].clock = conn[d].clock
  BY <1>1 DEF Settled
<1> QED BY <1>1, <1>2, <1>4, <1>5

LEMMA SteadyJoined ==
  ASSUME Steady, NEW c \in Conns, NEW p \in Conns, Settled(p), Joined(c, p)
  PROVE  Joined(c, p)'
BY DEF Steady, Joined

LEMMA TasksKeepPhase ==
  ASSUME SetupTypes, PhaseInv, TaskInv, TasksMove
  PROVE  PhaseInv'
<1> DEFINE Same == UNCHANGED <<pc, size, protocol, made, held, building>>
<1>1. Same /\ Steady /\ \A d \in Conns : conn'[d].stage = conn[d].stage
  BY TasksStaySteady DEF TasksMove
<1>2. CallInv'
  BY <1>1 DEF PhaseInv, CallInv, Made
<1>3. MembersInv'
  <2> SUFFICES ASSUME NEW i \in 2 .. Len(building)
               PROVE  \/ pc # "ready" /\ Fresh(building[i])'
                      \/ /\ pc \in {"setup", "ready"} /\ conn'[Primary].stage = "ready" /\ Settled(Primary)'
                         /\ conn'[building[i]].stage = "ready" /\ Joined(building[i], Primary)'
    BY <1>1 DEF MembersInv, Primary
  <2>1. building[i] \in Conns /\ Primary \in Conns /\ Primary' = Primary
    BY <1>1, BuildingAreMade DEF Primary
  <2>2. CASE pc # "ready" /\ Fresh(building[i])
    BY <1>1, <2>1, <2>2 DEF Steady
  <2>3. CASE /\ pc \in {"setup", "ready"} /\ conn[Primary].stage = "ready" /\ Settled(Primary)
             /\ conn[building[i]].stage = "ready" /\ Joined(building[i], Primary)
    <3>1. Settled(Primary)'
      BY <1>1, <2>1, <2>3 DEF Steady, Primary, Settled
    <3>2. Joined(building[i], Primary)'
      BY <1>1, <2>1, <2>3 DEF Steady, Joined, Primary
    <3> QED BY <1>1, <2>1, <2>3, <3>1, <3>2
  <2> QED BY <2>2, <2>3 DEF PhaseInv, MembersInv
<1>4. PrimaryInv'
  <2>1. CASE building = <<>>
    BY <1>1, <2>1, BuildingAreMade DEF PrimaryInv
  <2>2. CASE building # <<>>
    <3>1. Primary \in Conns /\ Primary' = Primary
      BY <1>1, <2>2, BuildingAreMade DEF Primary
    <3>2. \A i \in 2 .. Len(building) : Fresh(building[i]) => Fresh(building[i])'
      BY <1>1, BuildingAreMade DEF Steady, Fresh
    <3>3. Fresh(Primary) => Fresh(Primary)'
      BY <1>1, <3>1 DEF Steady, Fresh
    <3>4. Settled(Primary) => Settled(Primary)'
      BY <1>1, <3>1 DEF Steady, Settled
    <3>5. /\ task'[Primary].kind = task[Primary].kind /\ conn'[Primary].stage = conn[Primary].stage
          /\ task[Primary].life \notin {"starting", "negotiating"} =>
               task'[Primary].life \notin {"starting", "negotiating"}
      BY <1>1, <3>1 DEF Steady
    <3> QED BY <1>1, <3>1, <3>2, <3>3, <3>4, <3>5 DEF PhaseInv, PrimaryInv
  <2> QED BY <2>1, <2>2
<1>5. HeldInv'
  <2> SUFFICES ASSUME held # <<>>
               PROVE  /\ task'[held[1]].kind \in Leading
                      /\ \A i \in 2 .. Len(held) : Settled(held[1])' /\ Joined(held[i], held[1])'
    BY <1>1 DEF HeldInv, Settled, Joined
  <2>1. held[1] \in Conns /\ task'[held[1]].kind \in Leading
    BY <1>1, HeldAreMade DEF PhaseInv, HeldInv, Steady
  <2>2. ASSUME NEW i \in 2 .. Len(held) PROVE Settled(held[1])' /\ Joined(held[i], held[1])'
    <3>1. held[i] \in Conns /\ Settled(held[1]) /\ Joined(held[i], held[1])
      BY HeldAreMade DEF PhaseInv, HeldInv
    <3> QED BY <1>1, <2>1, <3>1 DEF Steady, Settled, Joined
  <2> QED BY <2>1, <2>2
<1>6. \A c \in Conns : c > made' => Fresh(c)'
  BY <1>1 DEF PhaseInv, Steady
<1> QED BY <1>2, <1>3, <1>4, <1>5, <1>6 DEF PhaseInv

LEMMA FirstPhase == Init => PhaseInv
<1> SUFFICES ASSUME Init PROVE PhaseInv
  OBVIOUS
<1>1. pc = "idle" /\ size = 0 /\ held = <<>> /\ building = <<>> /\ \A c \in Conns : Fresh(c)
  BY DEF Init, Fresh
<1> QED BY <1>1 DEF PhaseInv, CallInv, MembersInv, PrimaryInv, HeldInv, Made

\* Calls that look at the connections only.
LEMMA CallsKeepPhase ==
  ASSUME SetupTypes, PhaseInv,
         \/ \E n \in Sizes : Connect(n)
         \/ Disconnect \/ PairNext \/ Return \/ Play \/ TakeOffset
  PROVE  PhaseInv'
<1>1. CASE Play \/ TakeOffset
  <2>1. UNCHANGED <<pc, size, protocol, made, held, building, conn, task>>
    BY <1>1 DEF Play, TakeOffset
  <2> QED BY <2>1 DEF PhaseInv, CallInv, MembersInv, PrimaryInv, HeldInv, Made, Primary, Fresh,
                      Settled, Joined
<1>2. CASE (\E n \in Sizes : Connect(n)) \/ Disconnect
  <2>1. /\ pc = "idle" /\ pc' \in {"connecting", "leaving"} /\ UNCHANGED <<made, held, building, conn, task>>
        /\ pc' = "connecting" => size' # 0 /\ held = <<>>
        /\ pc' = "leaving" => held # <<>>
        /\ size' \in Nat /\ made + size' <= MaxConns
        /\ size' > 1 => protocol' = "master"
    BY <1>2, SetupBounds DEF Connect, Disconnect, Called, SetupTypes
  <2>2. building = <<>> /\ Made(held) /\ Made(building) /\ HeldInv /\ made \in Nat
    BY <2>1 DEF PhaseInv, CallInv, SetupTypes
  <2>3. CallInv'
    BY <2>1, <2>2 DEF CallInv, Made
  <2>4. MembersInv' /\ PrimaryInv'
    BY <2>1, <2>2 DEF MembersInv, PrimaryInv
  <2>5. HeldInv'
    BY <2>1, <2>2 DEF HeldInv, Settled, Joined
  <2> QED BY <2>1, <2>3, <2>4, <2>5 DEF PhaseInv, Fresh
<1>3. CASE PairNext
  <2> DEFINE n == Len(building)
  <2>1. /\ pc = "connecting" /\ made' = made + 1 /\ building' = Append(building, made + 1)
        /\ pc' = IF n + 1 = size THEN "setup" ELSE "connecting"
        /\ UNCHANGED <<size, protocol, held, conn, task>>
    BY <1>3 DEF PairNext
  <2>2. /\ building \in Seq(Nat) /\ n \in Nat /\ made \in Nat /\ size \in Nat /\ held = <<>>
        /\ n < size /\ made + size - n <= MaxConns /\ size # 0 /\ (size > 1 => protocol = "master")
        /\ \A i \in 1 .. n : building[i] \in 1 .. made
        /\ \A i, j \in 1 .. n : i < j => building[i] < building[j]
    BY <2>1 DEF PhaseInv, CallInv, SetupTypes, Made
  <2>3. /\ Len(building') = n + 1 /\ building'[n + 1] = made + 1
        /\ \A i \in 1 .. n : building'[i] = building[i]
    BY <2>1, <2>2
  <2>4. made + 1 \in Conns /\ made + 1 > made /\ Fresh(made + 1)
    BY <2>2, SetupBounds DEF PhaseInv
  <2>5. \A i \in 1 .. n + 1 : i \in 1 .. n \/ i = n + 1
    BY <2>2
  <2>6. Made(building)'
    BY <2>1, <2>2, <2>3, <2>5 DEF Made
  <2>7. CallInv'
    BY <2>1, <2>2, <2>3, <2>6 DEF CallInv, Made
  <2>8. \A i \in 1 .. n : Fresh(building[i])
    <3>1. \A i \in 2 .. n : Fresh(building[i])
      BY <2>1 DEF PhaseInv, MembersInv
    <3>2. n > 0 => Fresh(building[1])
      BY <2>1, <2>2 DEF PhaseInv, PrimaryInv, Primary
    <3> QED BY <2>2, <3>1, <3>2
  <2>9. \A i \in 1 .. n + 1 : Fresh(building[i])'
    BY <2>1, <2>3, <2>4, <2>5, <2>8 DEF Fresh
  <2>10. MembersInv'
    <3>1. \A i \in 2 .. Len(building') : i \in 1 .. n + 1
      BY <2>2, <2>3
    <3> QED BY <2>1, <2>9, <3>1 DEF MembersInv
  <2>11. Fresh(Primary)'
    <3>1. 1 \in 1 .. n + 1
      BY <2>2
    <3> QED BY <2>9, <3>1 DEF Primary
  <2>12. PrimaryInv'
    BY <2>1, <2>11 DEF PrimaryInv
  <2>13. HeldInv'
    BY <2>1, <2>2 DEF HeldInv
  <2>14. \A c \in Conns : c > made' => Fresh(c)'
    BY <2>1, <2>2, SetupBounds DEF PhaseInv, Fresh
  <2> QED BY <2>7, <2>10, <2>12, <2>13, <2>14 DEF PhaseInv
<1>4. CASE Return
  <2>1. /\ pc = "ready" /\ held' = building /\ building' = <<>> /\ pc' = "idle"
        /\ UNCHANGED <<size, protocol, made, conn, task>>
    BY <1>4 DEF Return
  <2>2. CallInv'
    BY <2>1 DEF PhaseInv, CallInv, Made
  <2>3. MembersInv' /\ PrimaryInv'
    BY <2>1 DEF MembersInv, PrimaryInv
  <2>4. HeldInv'
    BY <2>1 DEF PhaseInv, MembersInv, PrimaryInv, HeldInv, Primary, Settled, Joined
  <2> QED BY <2>1, <2>2, <2>3, <2>4 DEF PhaseInv, Fresh
<1> QED BY <1>1, <1>2, <1>3, <1>4

\* The client's connections have a timing task.
LEMMA HeldAreNotFresh ==
  ASSUME SetupTypes, PhaseInv, NEW c \in Range(held)
  PROVE  c \in Conns /\ c \in 1 .. made /\ task[c].kind # "none"
<1>1. PICK i \in 1 .. Len(held) : c = held[i]
  BY Elements DEF SetupTypes
<1>2. i = 1 \/ i \in 2 .. Len(held)
  BY HeldAreMade
<1>3. held # <<>>
  BY HeldAreMade, <1>1
<1> QED BY <1>1, <1>2, <1>3, HeldAreMade DEF PhaseInv, HeldInv, Joined, Leading

LEMMA LeftIsSteady ==
  ASSUME SetupTypes, PhaseInv, NEW left \in SUBSET Range(held), Left(left)
  PROVE  Steady
<1> SUFFICES ASSUME NEW d \in Conns
             PROVE  /\ task'[d].kind = task[d].kind
                    /\ Fresh(d) => Fresh(d)'
                    /\ Settled(d) => Settled(d)' /\ conn'[d].clock = conn[d].clock
                    /\ task[d].kind = "forward" => conn'[d].clock = conn[d].clock
                    /\ task[d].life \notin {"starting", "negotiating"} =>
                         task'[d].life \notin {"starting", "negotiating"}
  BY DEF Steady
<1>1. task[d] \in TaskRecord /\ conn[d] \in ConnRecord
  BY RecordsOf
<1>2. CASE d \notin left
  BY <1>2 DEF Left, Fresh, Settled
<1>3. CASE d \in left
  <2>1. task'[d] = Aborted(d) /\ conn'[d] = [conn[d] EXCEPT !.handle = FALSE, !.stage = "closed"]
    BY <1>3 DEF Left
  <2>2. conn'[d].clock = conn[d].clock
    BY <1>1, <2>1 DEF ConnRecord
  <2>3. /\ task'[d].kind = task[d].kind
        /\ task'[d].life = task[d].life \/ task'[d].life \in {"ended", "aborted"}
    BY <1>1, <2>1 DEF Aborted, TaskRecord
  <2>4. ~Fresh(d)
    BY <1>3, HeldAreNotFresh DEF Fresh, NoTask
  <2> QED BY <2>2, <2>3, <2>4 DEF Settled
<1> QED BY <1>2, <1>3

\* The elements of a sequence after its first, and the first of them.
LEMMA Others ==
  ASSUME NEW s \in Seq(Nat), s # <<>>
  PROVE  /\ \A c : c \in Range(Tail(s)) <=> \E i \in 2 .. Len(s) : c = s[i]
         /\ \A n \in 1 .. Len(s) : Range(SubSeq(s, 2, n)) \subseteq Range(s)
         /\ Range(Tail(s)) \subseteq Range(s)
<1>1. /\ Tail(s) \in Seq(Nat) /\ Len(s) \in Nat \ {0} /\ Len(Tail(s)) = Len(s) - 1
      /\ \A i \in 1 .. Len(Tail(s)) : Tail(s)[i] = s[i + 1] /\ i + 1 \in 2 .. Len(s)
      /\ \A i \in 2 .. Len(s) : i \in 1 .. Len(s) /\ i - 1 \in 1 .. Len(Tail(s)) /\ s[i] = Tail(s)[i - 1]
  OBVIOUS
<1>2. \A c : c \in Range(Tail(s)) <=> \E i \in 1 .. Len(Tail(s)) : c = Tail(s)[i]
  BY <1>1, Elements
<1>3. \A c : c \in Range(Tail(s)) <=> \E i \in 2 .. Len(s) : c = s[i]
  <2>1. ASSUME NEW c, NEW i \in 1 .. Len(Tail(s)), c = Tail(s)[i] PROVE \E j \in 2 .. Len(s) : c = s[j]
    BY <1>1, <2>1
  <2>2. ASSUME NEW c, NEW i \in 2 .. Len(s), c = s[i] PROVE \E j \in 1 .. Len(Tail(s)) : c = Tail(s)[j]
    BY <1>1, <2>2
  <2> QED BY <1>2, <2>1, <2>2
<1>4. ASSUME NEW n \in 1 .. Len(s) PROVE Range(SubSeq(s, 2, n)) \subseteq Range(s)
  <2> DEFINE t == SubSeq(s, 2, n)
  <2>1. /\ t \in Seq(Nat)
        /\ \A i \in 1 .. Len(t) : t[i] = s[i + 1] /\ i + 1 \in 1 .. Len(s)
    OBVIOUS
  <2> HIDE DEF t
  <2>2. \A c : c \in Range(t) <=> \E i \in 1 .. Len(t) : c = t[i]
    BY <2>1, Elements
  <2>3. Range(t) \subseteq Range(s)
    BY <2>1, <2>2, Elements
  <2> QED BY <2>3 DEF t
<1> QED BY <1>1, <1>3, <1>4, Elements

LEMMA LeavingLeaves ==
  ASSUME SetupTypes, PhaseInv, LeaveMembers \/ LeavePrimary \/ LeavingFails
  PROVE  /\ pc = "leaving" /\ held # <<>> /\ Len(held) \in Nat \ {0}
         /\ \E left \in SUBSET Range(held) : Left(left)
         /\ UNCHANGED <<size, protocol, made, building, abandoned, seen>> /\ stream' \in {stream, NoStream}
         /\ \/ held' = held /\ pc' = "idle"
            \/ held' = <<held[1]>> /\ held # <<>> /\ pc' = "leaving"
            \/ held' = <<>> /\ pc' = IF size = 0 THEN "idle" ELSE "connecting"
<1>1. /\ held \in Seq(Nat) /\ Len(held) \in Nat \ {0} /\ held # <<>> /\ pc = "leaving"
      /\ \A c : c \in Range(held) <=> \E i \in 1 .. Len(held) : c = held[i]
  BY Elements, HeldAreMade DEF SetupTypes, PhaseInv, CallInv, LeaveMembers, LeavePrimary, LeavingFails
<1>2. CASE LeaveMembers
  <2>1. Range(Tail(held)) \subseteq Range(held)
    BY <1>1, Others
  <2> QED BY <1>1, <1>2, <2>1 DEF LeaveMembers
<1>3. CASE LeavePrimary
  <2>1. {held[1]} \subseteq Range(held)
    BY <1>1
  <2> QED BY <1>1, <1>3, <2>1 DEF LeavePrimary
<1>4. CASE LeavingFails
  <2>1. CASE Len(held) > 1
    <3>1. PICK n \in 1 .. Len(held) : Left(Range(SubSeq(held, 2, n)))
      BY <1>4, <2>1 DEF LeavingFails
    <3>2. Range(SubSeq(held, 2, n)) \subseteq Range(held)
      BY <1>1, <3>1, Others
    <3> QED BY <1>1, <1>4, <3>1, <3>2 DEF LeavingFails
  <2>2. CASE ~(Len(held) > 1)
    <3>1. PICK left \in {{}, {held[1]}} : Left(left)
      BY <1>4, <2>2 DEF LeavingFails
    <3>2. left \subseteq Range(held)
      BY <1>1
    <3> QED BY <1>1, <1>4, <3>1, <3>2 DEF LeavingFails
  <2> QED BY <2>1, <2>2
<1> QED BY <1>2, <1>3, <1>4

LEMMA LeavingKeepsPhase ==
  ASSUME SetupTypes, PhaseInv, LeaveMembers \/ LeavePrimary \/ LeavingFails
  PROVE  PhaseInv'
<1>1. /\ pc = "leaving" /\ held # <<>> /\ Len(held) \in Nat \ {0}
      /\ \E left \in SUBSET Range(held) : Left(left)
      /\ UNCHANGED <<size, protocol, made, building, abandoned, seen>>
      /\ \/ held' = held /\ pc' = "idle"
         \/ held' = <<held[1]>> /\ held # <<>> /\ pc' = "leaving"
         \/ held' = <<>> /\ pc' = IF size = 0 THEN "idle" ELSE "connecting"
  BY LeavingLeaves
<1>2. Steady
  BY <1>1, LeftIsSteady
<1>3. building = <<>> /\ Made(held) /\ HeldInv /\ held \in Seq(Nat)
      /\ made \in Nat /\ size \in Nat /\ made + size <= MaxConns /\ (size > 1 => protocol = "master")
  BY <1>1 DEF PhaseInv, CallInv, SetupTypes
<1>4. /\ Len(held') <= Len(held) /\ Len(held') \in Nat
      /\ \A i \in 1 .. Len(held') : i \in 1 .. Len(held) /\ held'[i] = held[i]
  BY <1>1, <1>3
<1>5. Made(held)'
  BY <1>1, <1>3, <1>4 DEF Made
<1>6. CallInv'
  <2>1. Made(building)'
    BY <1>1, <1>3 DEF Made
  <2>2. Len(building) = 0 /\ building' = <<>>
    BY <1>1, <1>3
  <2>3. pc' \in {"idle", "leaving", "connecting"} /\ (pc' = "leaving" => held' # <<>>)
        /\ (pc' = "connecting" => held' = <<>> /\ size # 0)
    BY <1>1
  <2>4. pc' = "connecting" => Len(building') < size' /\ made' + size' - Len(building') <= MaxConns
    BY <1>1, <1>3, <2>2, <2>3, SetupBounds
  <2> QED BY <1>1, <1>3, <1>5, <2>1, <2>2, <2>3, <2>4 DEF CallInv
<1>7. MembersInv' /\ PrimaryInv'
  BY <1>1, <1>3 DEF MembersInv, PrimaryInv
<1>8. HeldInv'
  <2> SUFFICES ASSUME held' # <<>>
               PROVE  /\ task'[held'[1]].kind \in Leading
                      /\ \A i \in 2 .. Len(held') : Settled(held[1])' /\ Joined(held[i], held[1])'
    BY DEF HeldInv
  <2>1. held'[1] = held[1] /\ held[1] \in Conns /\ task'[held[1]].kind \in Leading
    BY <1>1, <1>2, <1>3, HeldAreMade DEF HeldInv, Steady
  <2>2. ASSUME NEW i \in 2 .. Len(held') PROVE Settled(held[1])' /\ Joined(held[i], held[1])'
    <3>1. /\ i \in 2 .. Len(held) /\ held'[i] = held[i] /\ held[i] \in Conns
          /\ Settled(held[1]) /\ Joined(held[i], held[1])
      BY <1>3, <1>4, HeldAreMade DEF HeldInv
    <3>2. /\ conn'[held[1]].clock = conn[held[1]].clock /\ conn'[held[i]].clock = conn[held[i]].clock
          /\ task'[held[i]].kind = task[held[i]].kind
          /\ task'[held[1]].life \notin {"starting", "negotiating"}
      BY <1>2, <2>1, <3>1 DEF Steady, Settled, Joined
    <3> QED BY <2>1, <3>1, <3>2 DEF Settled, Joined
  <2> QED BY <2>1, <2>2
<1>9. \A c \in Conns : c > made' => Fresh(c)'
  BY <1>1, <1>2 DEF PhaseInv, Steady
<1> QED BY <1>6, <1>7, <1>8, <1>9 DEF PhaseInv

\* Giving up.
LEMMA DroppingKeepsPhase ==
  ASSUME SetupTypes, PhaseInv, NoClock \/ ConnectFails
  PROVE  PhaseInv'
<1>1. Dropped /\ held = <<>>
  BY DEF NoClock, ConnectFails, PhaseInv, CallInv
<1>2. pc' = "idle" /\ building' = <<>> /\ held' = <<>> /\ made' = made /\ size' = size /\ task' = task
  BY <1>1 DEF Dropped
<1>3. CallInv' /\ MembersInv' /\ PrimaryInv' /\ HeldInv'
  BY <1>2 DEF CallInv, MembersInv, PrimaryInv, HeldInv, Made
<1>4. ASSUME NEW c \in Conns, c > made PROVE Fresh(c)'
  <2>1. c \notin Range(building)
    <3>1. \A d \in Range(building) : d \in 1 .. made
      BY BuildingAreMade, Elements DEF SetupTypes
    <3>2. c \notin 1 .. made
      BY <1>4, SetupBounds DEF SetupTypes
    <3> QED BY <3>1, <3>2
  <2>2. conn'[c] = conn[c]
    BY <1>1, <2>1 DEF Dropped
  <2> QED BY <1>2, <1>4, <2>2 DEF PhaseInv, Fresh
<1> QED BY <1>2, <1>3, <1>4 DEF PhaseInv

\* Setting up; the connections after the one that is set up are left alone.
LEMMA SetUpFrame ==
  ASSUME SetupTypes, PhaseInv, NEW c \in 1 .. made,
         UNCHANGED <<made, held, building, size, protocol>>,
         \A d \in Conns \ {c} : conn'[d] = conn[d] /\ task'[d] = task[d],
         pc \in {"setup", "served", "sync", "peers"},
         pc' \in {"setup", "served", "sync", "peers", "ready"}
  PROVE  /\ CallInv' /\ HeldInv'
         /\ \A d \in Conns : d > made' => Fresh(d)'
<1>1. CallInv' /\ held = <<>>
  BY DEF PhaseInv, CallInv, Made
<1>2. HeldInv'
  BY <1>1 DEF HeldInv
<1>3. \A d \in Conns : d > made' => Fresh(d)'
  BY SetupBounds DEF PhaseInv, Fresh, SetupTypes
<1> QED BY <1>1, <1>2, <1>3

LEMMA PrimaryKeepsPhase ==
  ASSUME SetupTypes, PhaseInv, TaskInv,
         Serve \/ SetUpServed \/ SetUpPrimary \/ Synced \/ PeersOfPrimary
  PROVE  PhaseInv'
<1>1. /\ pc \in {"setup", "served", "sync", "peers"} /\ UNCHANGED <<size, protocol, made, held, building>>
      /\ pc' \in {"setup", "served", "sync", "peers", "ready"}
  BY DEF Serve, SetUpServed, SetUpPrimary, Synced, PeersOfPrimary
<1>2. /\ building # <<>> /\ Primary \in Conns /\ Primary \in 1 .. made /\ Primary' = Primary
      /\ \A i \in 2 .. Len(building) : building[i] \in Conns /\ building[i] # Primary
      /\ Len(building) = size /\ Len(building) \in Nat \ {0} /\ protocol \in {"ntp", "slave", "master"}
      /\ size > 1 => protocol = "master"
  <2>1. \A i \in 2 .. Len(building) : building[i] \in Conns /\ Primary < building[i]
    BY BuildingAreMade
  <2>2. building # <<>> /\ Primary \in Conns /\ Primary \in 1 .. made
    BY <1>1, BuildingAreMade
  <2>3. protocol \in {"ntp", "slave", "master"}
    BY ClientSetupAssumption DEF SetupTypes
  <2>4. \A i \in 2 .. Len(building) : building[i] # Primary
    BY <2>1, <2>2, SetupBounds
  <2>5. Len(building) = size /\ Len(building) \in Nat \ {0} /\ (size > 1 => protocol = "master")
    BY <1>1, PrimaryIsFirst DEF PhaseInv, CallInv
  <2> QED BY <1>1, <2>1, <2>2, <2>3, <2>4, <2>5 DEF Primary
<1>3. Serve \/ SetUpServed => ToSetUp = Primary /\ conn[Primary].stage # "ready"
  BY <1>2, NextSetUp DEF Serve, SetUpServed
<1>4. \A d \in Conns \ {Primary} : conn'[d] = conn[d] /\ task'[d] = task[d]
  BY <1>3 DEF Serve, SetUpServed, SetUpPrimary, Synced, PeersOfPrimary, SetupTypes
<1>5. CallInv' /\ HeldInv' /\ \A d \in Conns : d > made' => Fresh(d)'
  BY <1>1, <1>2, <1>4, SetUpFrame
<1>6. conn[Primary] \in ConnRecord /\ task[Primary] \in TaskRecord
  BY <1>2, RecordsOf
<1>7. CASE Serve \/ SetUpServed
  <2>1. size = 1
    <3>1. protocol = "ntp"
      BY <1>7 DEF Serve, SetUpServed, PhaseInv, PrimaryInv
    <3> QED BY <1>2, <3>1
  <2>2. MembersInv'
    BY <1>1, <1>2, <2>1 DEF MembersInv
  <2>3. CASE Serve
    <3>1. pc' = "served" /\ protocol = "ntp" /\ task'[Primary].kind = "ntp"
          /\ conn'[Primary].stage = conn[Primary].stage
      BY <1>2, <1>3, <1>6, <2>3 DEF Serve, Started, NoTask, SetupTypes, ConnRecord
    <3> QED BY <1>1, <1>2, <1>3, <1>5, <2>2, <2>3, <3>1 DEF PhaseInv, PrimaryInv
  <2>4. CASE SetUpServed
    <3>1. pc' = "ready" /\ task' = task /\ conn'[Primary].stage = "ready" /\ task[Primary].kind = "ntp"
      BY <1>2, <1>3, <1>6, <2>4 DEF SetUpServed, SetupTypes, ConnRecord, PhaseInv, PrimaryInv
    <3> QED BY <1>1, <1>2, <1>5, <2>2, <3>1 DEF PhaseInv, PrimaryInv, Leading
  <2> QED BY <1>7, <2>3, <2>4
<1>8. CASE SetUpPrimary \/ Synced \/ PeersOfPrimary
  <2>1. \A i \in 2 .. Len(building) : Fresh(building[i])
    <3>1. CASE pc = "setup"
      <4>1. ToSetUp = Primary /\ conn[Primary].stage # "ready"
        BY <1>8, <3>1, NextSetUp DEF SetUpPrimary, Synced, PeersOfPrimary
      <4> QED BY <4>1 DEF PhaseInv, MembersInv
    <3> QED BY <1>1, <1>8, <3>1 DEF SetUpPrimary, Synced, PeersOfPrimary, PhaseInv, MembersInv
  <2>2. \A i \in 2 .. Len(building) : Fresh(building[i])'
    BY <1>1, <1>2, <1>4, <2>1 DEF Fresh
  <2>3. pc' # "ready" \/ size = 1
    BY <1>2, <1>8 DEF SetUpPrimary, Synced, PeersOfPrimary
  <2>4. MembersInv'
    BY <1>1, <1>2, <2>2, <2>3 DEF MembersInv
  <2>5. CASE SetUpPrimary
    <3>1. /\ pc = "setup" /\ pc' = "sync" /\ ToSetUp = Primary /\ protocol # "ntp"
          /\ task'[Primary].kind = protocol /\ conn'[Primary].stage = conn[Primary].stage
      BY <1>2, <1>6, <2>5 DEF SetUpPrimary, Started, NoTask, SetupTypes, ConnRecord
    <3>2. conn[Primary].stage # "ready"
      BY <3>1, NextSetUp
    <3> QED BY <1>1, <1>2, <1>5, <2>4, <3>1, <3>2 DEF PhaseInv, PrimaryInv
  <2>6. CASE Synced
    <3>1. /\ pc = "sync" /\ pc' = IF size > 1 THEN "peers" ELSE "ready"
          /\ conn'[Primary].stage = "ready" /\ task' = task
          /\ task[Primary].kind = protocol /\ protocol \in Flows
          /\ protocol = "master" => task[Primary].life \in {"following", "ended"}
      BY <1>2, <1>6, <2>6 DEF Synced, SetupTypes, ConnRecord, PhaseInv, PrimaryInv, Flows
    <3> QED BY <1>1, <1>2, <1>5, <2>4, <3>1 DEF PhaseInv, PrimaryInv, Leading, Flows
  <2>7. CASE PeersOfPrimary
    <3>1. /\ pc = "peers" /\ pc' = "setup" /\ size > 1 /\ task' = task /\ conn[Primary].clock # "none"
          /\ conn'[Primary].stage = conn[Primary].stage /\ conn'[Primary].clock = conn[Primary].clock
          /\ conn[Primary].stage = "ready" /\ task[Primary].kind \in Flows
          /\ task[Primary].life \notin {"starting", "negotiating"}
      BY <1>2, <1>6, <2>7 DEF PeersOfPrimary, SetupTypes, ConnRecord, PhaseInv, PrimaryInv
    <3>2. Settled(Primary)'
      BY <1>2, <3>1 DEF Settled
    <3>3. 2 \in 2 .. Len(building)
      BY <1>2, <3>1
    <3> QED BY <1>1, <1>2, <1>5, <2>2, <2>4, <3>1, <3>2, <3>3 DEF PhaseInv, PrimaryInv
  <2> QED BY <1>8, <2>5, <2>6, <2>7
<1> QED BY <1>7, <1>8

LEMMA MemberKeepsPhase ==
  ASSUME SetupTypes, PhaseInv, TaskInv, SetUpMember
  PROVE  PhaseInv'
<1> DEFINE Unready == {c \in Range(building) : conn[c].stage # "ready"}
           s == ToSetUp
<1>1. /\ pc = "setup" /\ protocol # "ntp" /\ UNCHANGED <<size, protocol, made, held, building>>
      /\ pc' = IF Cardinality(Unready) = 1 THEN "ready" ELSE "setup"
      /\ conn' = [conn EXCEPT ![s] = [conn[Primary] EXCEPT !.handle = TRUE, !.stage = "ready"]]
      /\ task' = [task EXCEPT ![s] = [Started("forward", Primary) EXCEPT !.life = "following"]]
      /\ s # Primary
  BY DEF SetUpMember
<1>2. /\ conn[Primary].stage = "ready" /\ Settled(Primary) /\ task[Primary].kind \in Flows
      /\ \E i \in 2 .. Len(building) : s = building[i] /\ Fresh(building[i])
  BY <1>1, NextSetUp
<1>3. PICK k \in 2 .. Len(building) : s = building[k] /\ Fresh(building[k])
  BY <1>2
<1>4. /\ Primary \in Conns /\ Primary' = Primary /\ k \in 1 .. Len(building) /\ s \in Conns /\ s \in 1 .. made
      /\ \A i \in 1 .. Len(building) : building[i] \in Conns /\ building[i] \in 1 .. made
      /\ \A i \in 2 .. Len(building) : i \in 1 .. Len(building)
      /\ \A i \in 1 .. Len(building) : i # 1 => i \in 2 .. Len(building)
  BY <1>1, <1>3, BuildingAreMade DEF Primary
<1> HIDE DEF s
<1>5. /\ \A d \in Conns \ {s} : conn'[d] = conn[d] /\ task'[d] = task[d]
      /\ conn'[s].stage = "ready" /\ conn'[s].clock = conn[Primary].clock /\ task'[s].kind = "forward"
  <2>1. conn[Primary] \in ConnRecord
    BY <1>4, RecordsOf
  <2>2. [Started("forward", Primary) EXCEPT !.life = "following"].kind = "forward"
    BY DEF Started, NoTask
  <2> QED BY <1>1, <1>4, <2>1, <2>2 DEF SetupTypes, ConnRecord
<1>6. CallInv' /\ HeldInv' /\ \A d \in Conns : d > made' => Fresh(d)'
  <2>1. pc' \in {"setup", "ready"}
    BY <1>1
  <2> QED BY <1>1, <1>4, <1>5, <2>1, SetUpFrame
<1>7. conn'[Primary] = conn[Primary] /\ task'[Primary] = task[Primary] /\ Settled(Primary)'
  BY <1>1, <1>2, <1>4, <1>5 DEF Settled
<1>8. \A c : c \in Unready <=> \E i \in 2 .. Len(building) : c = building[i] /\ Fresh(c)
  <2>1. \A c : c \in Range(building) <=> \E i \in 1 .. Len(building) : c = building[i]
    BY Elements DEF SetupTypes
  <2>2. ASSUME NEW c \in Unready PROVE \E i \in 2 .. Len(building) : c = building[i] /\ Fresh(c)
    <3>1. PICK i \in 1 .. Len(building) : c = building[i] /\ conn[c].stage # "ready"
      BY <2>1, <2>2
    <3>2. i \in 2 .. Len(building)
      BY <1>2, <1>4, <3>1 DEF Primary
    <3> QED BY <3>1, <3>2 DEF PhaseInv, MembersInv
  <2>3. ASSUME NEW i \in 2 .. Len(building), Fresh(building[i]) PROVE building[i] \in Unready
    BY <1>4, <2>1, <2>3 DEF Fresh, NewConn
  <2> QED BY <2>2, <2>3
<1>9. Unready \subseteq Conns /\ s \in Unready
  BY <1>3, <1>4, <1>8
<1> HIDE DEF Unready
<1>10. Cardinality(Unready) = 1 <=> Unready = {s}
  <2>1. IsFiniteSet(1 .. MaxConns)
    BY SetupBounds, FS_Interval
  <2>2. IsFiniteSet(Unready)
    BY <1>9, <2>1, FS_Subset DEF Conns
  <2>3. Cardinality(Unready) = 1 <=> \E x : Unready = {x}
    BY <2>2, FS_Singleton
  <2> QED BY <1>9, <2>3
<1>11. \A i \in 2 .. Len(building) : building[i] # s =>
         Fresh(building[i])' <=> Fresh(building[i])
  BY <1>1, <1>4, <1>5 DEF Fresh
<1>12. \A i \in 2 .. Len(building) : ~Fresh(building[i])' =>
         conn'[building[i]].stage = "ready" /\ Joined(building[i], Primary)'
  <2> SUFFICES ASSUME NEW i \in 2 .. Len(building), ~Fresh(building[i])'
               PROVE  conn'[building[i]].stage = "ready" /\ Joined(building[i], Primary)'
    OBVIOUS
  <2>1. CASE building[i] = s
    BY <1>1, <1>4, <1>5, <1>7, <2>1 DEF Joined
  <2>2. CASE building[i] # s
    <3>1. ~Fresh(building[i]) /\ building[i] \in Conns \ {s}
      BY <1>4, <1>11, <2>2
    <3>2. conn[building[i]].stage = "ready" /\ Joined(building[i], Primary)
      BY <3>1 DEF PhaseInv, MembersInv
    <3> QED BY <1>1, <1>4, <1>5, <1>7, <3>1, <3>2 DEF Joined
  <2> QED BY <2>1, <2>2
<1>13. CASE Unready = {s}
  <2>1. pc' = "ready"
    BY <1>1, <1>10, <1>13
  <2>2. \A i \in 2 .. Len(building) : ~Fresh(building[i])'
    <3>1. ASSUME NEW i \in 2 .. Len(building), Fresh(building[i])' PROVE FALSE
      <4>1. building[i] # s
        BY <1>1, <1>5, <3>1 DEF Fresh, NoTask
      <4>2. Fresh(building[i])
        BY <1>11, <3>1, <4>1
      <4> QED BY <1>8, <1>13, <4>1, <4>2
    <3> QED BY <3>1
  <2>3. MembersInv'
    BY <1>1, <1>2, <1>4, <1>7, <1>12, <2>1, <2>2 DEF MembersInv
  <2>4. PrimaryInv'
    BY <1>2, <1>4, <1>7, <2>1 DEF PrimaryInv, Leading, Flows
  <2> QED BY <1>6, <2>3, <2>4 DEF PhaseInv
<1>14. CASE Unready # {s}
  <2>1. pc' = "setup"
    BY <1>1, <1>10, <1>14
  <2>2. PICK j \in 2 .. Len(building) : Fresh(building[j]) /\ building[j] # s
    BY <1>8, <1>9, <1>14
  <2>3. Fresh(building[j])' /\ j \in 2 .. Len(building')
    BY <1>1, <1>11, <2>2
  <2>4. MembersInv'
    BY <1>1, <1>2, <1>4, <1>7, <1>12, <2>1 DEF MembersInv
  <2>5. PrimaryInv'
    BY <1>2, <1>4, <1>7, <2>1, <2>3 DEF PrimaryInv
  <2> QED BY <1>6, <2>4, <2>5 DEF PhaseInv
<1> QED BY <1>13, <1>14

\* One task goes on as t.
LEMMA OneTask ==
  ASSUME SetupTypes, TaskInv, Holders,
         NEW c \in Conns, NEW t \in TaskRecord, task' = [task EXCEPT ![c] = t],
         \A d \in Conns \ {c} : conn'[d] = conn[d],
         t.kind = task[c].kind, t.kind # "none",
         t.life \in {"starting", "negotiating"} => t.kind \in Flows,
         t.life = "starting" => ~t.ports /\ t.blocker = None,
         t.life = "negotiating" => t.kind = "master",
         t.life = "woken" => t.kind = "forward",
         t.ports => t.kind \in Flows /\ t.blocker = None,
         t.blocker # None => t.blocker \in Conns /\ task[t.blocker].kind \in Flows,
         t.ports /\ t.life # "ended" => HoldsPorts(c) \/ \A d \in Conns : ~HoldsPorts(d)
  PROVE  TaskInv' /\ Holders'
<1>1. /\ task'[c] = t /\ \A d \in Conns : d # c => task'[d] = task[d]
  BY DEF SetupTypes
<1>2. \A d \in Conns : task'[d].kind = task[d].kind
  BY <1>1
<1>3. TaskInv'
  <2> SUFFICES ASSUME NEW d \in Conns
               PROVE  /\ task'[d].kind = "none" => Fresh(d)'
                      /\ task'[d].life \in {"starting", "negotiating"} => task'[d].kind \in Flows
                      /\ task'[d].life = "starting" => ~task'[d].ports /\ task'[d].blocker = None
                      /\ task'[d].life = "negotiating" => task'[d].kind = "master"
                      /\ task'[d].life = "woken" => task'[d].kind = "forward"
                      /\ task'[d].ports => task'[d].kind \in Flows /\ task'[d].blocker = None
                      /\ task'[d].blocker # None =>
                           task'[d].blocker \in Conns /\ task'[task'[d].blocker].kind \in Flows
                      /\ conn'[d].handle => task'[d].kind # "none"
    BY DEF TaskInv
  <2>1. CASE d = c
    BY <1>1, <1>2, <2>1
  <2>2. CASE d # c
    BY <1>1, <1>2, <2>2 DEF TaskInv, Fresh
  <2> QED BY <2>1, <2>2
<1>4. Holders'
  <2>1. \A d \in Conns : d # c => (HoldsPorts(d)' <=> HoldsPorts(d))
    BY <1>1 DEF HoldsPorts
  <2>2. HoldsPorts(c)' => HoldsPorts(c) \/ \A d \in Conns : ~HoldsPorts(d)
    BY <1>1 DEF HoldsPorts
  <2> QED BY <2>1, <2>2 DEF Holders
<1> QED BY <1>3, <1>4

LEMMA TasksKeepTasks ==
  ASSUME SetupTypes, TaskInv, FollowInv, Holders, NEW c \in Conns, TaskSteps(c)
  PROVE  TaskInv' /\ Holders'
<1>1. task[c] \in TaskRecord /\ conn[c] \in ConnRecord
  BY RecordsOf
<1>2. /\ task[c].kind = "none" => Fresh(c)
      /\ task[c].life \in {"starting", "negotiating"} => task[c].kind \in Flows
      /\ task[c].life = "starting" => ~task[c].ports /\ task[c].blocker = None
      /\ task[c].life = "negotiating" => task[c].kind = "master"
      /\ task[c].life = "woken" => task[c].kind = "forward"
      /\ task[c].ports => task[c].kind \in Flows /\ task[c].blocker = None
      /\ task[c].blocker # None => task[c].blocker \in Conns /\ task[task[c].blocker].kind \in Flows
  BY DEF TaskInv
<1>3. task[c].life # "ended" => task[c].kind # "none"
  BY <1>2 DEF Fresh, NoTask
<1>4. CASE Bind(c)
  <2> DEFINE holders == {d \in Conns : HoldsPorts(d)}
             next == IF task[c].kind = "master" THEN "negotiating" ELSE "following"
             blocker == IF holders = {} THEN None ELSE CHOOSE d \in holders : TRUE
             t == [task[c] EXCEPT !.life = next, !.ports = holders = {}, !.blocker = blocker]
  <2>1. /\ task' = [task EXCEPT ![c] = t] /\ task[c].life = "starting" /\ task[c].kind \in Flows
        /\ conn' = conn
    BY <1>4 DEF Bind, Flows
  <2>2. IF holders = {} THEN blocker = None 
        ELSE blocker \in Conns /\ task[blocker].kind \in Flows /\ blocker # None
    <3>1. holders # {} => blocker \in holders
      OBVIOUS
    <3>2. \A d \in Conns : HoldsPorts(d) => task[d].kind \in Flows
      BY DEF HoldsPorts, TaskInv
    <3> QED BY <3>1, <3>2, SetupBounds DEF None
  <2>3. (next = "negotiating" /\ task[c].kind = "master") \/ next = "following"
    OBVIOUS
  <2>4. (holders = {}) <=> \A d \in Conns : ~HoldsPorts(d)
    OBVIOUS
  <2>5. blocker \in Nat
    BY <2>2, SetupBounds DEF None
  <2> HIDE DEF blocker, next, holders
  <2>6. /\ t \in TaskRecord /\ t.kind = task[c].kind /\ t.life = next /\ t.ports = (holders = {})
        /\ t.blocker = blocker
    BY <1>1, <2>3, <2>5 DEF TaskRecord, Lives
  <2> HIDE DEF t
  <2>7. t.kind # "none"
    BY <2>1, <2>6 DEF Flows
  <2> QED BY <2>1, <2>2, <2>3, <2>4, <2>6, <2>7, OneTask
<1>5. CASE Negotiate(c) \/ Wake(c) \/ Forward(c)
  <2>1. PICK life \in {"following", "woken"} :
          /\ task' = [task EXCEPT ![c] = [task[c] EXCEPT !.life = life]] /\ task[c].life # "ended"
          /\ life = "woken" => task[c].kind = "forward"
          /\ \A d \in Conns \ {c} : conn'[d] = conn[d]
    BY <1>5 DEF Negotiate, Wake, Forward, SetupTypes
  <2> DEFINE t == [task[c] EXCEPT !.life = life]
  <2>2. /\ t \in TaskRecord /\ t.kind = task[c].kind /\ t.life = life /\ t.ports = task[c].ports
        /\ t.blocker = task[c].blocker
    BY <1>1 DEF TaskRecord, Lives
  <2> HIDE DEF t
  <2>3. task' = [task EXCEPT ![c] = t]
    BY <2>1 DEF t
  <2>4. t.ports /\ t.life # "ended" => HoldsPorts(c)
    BY <2>1, <2>2 DEF HoldsPorts
  <2> QED BY <1>2, <1>3, <2>1, <2>2, <2>3, <2>4, OneTask
<1>6. CASE Measure(c)
  <2> DEFINE m == task[c].measured + 1
             t == [task[c] EXCEPT !.measured = m]
  <2>1. /\ task' = [task EXCEPT ![c] = t] /\ task[c].life = "following" /\ conn' = conn
        /\ m \in Offsets
    BY <1>1, <1>6, SetupBounds DEF Measure, TaskRecord, Offsets
  <2> HIDE DEF m
  <2>2. /\ t \in TaskRecord /\ t.kind = task[c].kind /\ t.life = "following" /\ t.ports = task[c].ports
        /\ t.blocker = task[c].blocker
    BY <1>1, <2>1 DEF TaskRecord
  <2> HIDE DEF t
  <2>3. t.ports /\ t.life # "ended" => HoldsPorts(c)
    BY <2>1, <2>2 DEF HoldsPorts
  <2> QED BY <1>2, <1>3, <2>1, <2>2, <2>3, OneTask
<1>7. CASE TaskFails(c) \/ AbortTakesEffect(c) \/ ForwarderEnds(c)
  <2>1. PICK ports \in {FALSE, task[c].ports} :
          /\ task' = [task EXCEPT ![c] = [task[c] EXCEPT !.life = "ended", !.ports = ports]]
          /\ task[c].life # "ended" /\ conn' = conn
    <3>1. [task[c] EXCEPT !.life = "ended"] = [task[c] EXCEPT !.life = "ended", !.ports = task[c].ports]
      BY <1>1 DEF TaskRecord
    <3>2. task[c].life # "ended"
      BY <1>7 DEF TaskFails, AbortTakesEffect, ForwarderEnds
    <3> QED BY <1>7, <3>1, <3>2 DEF TaskFails, AbortTakesEffect, ForwarderEnds
  <2> DEFINE t == [task[c] EXCEPT !.life = "ended", !.ports = ports]
  <2>2. /\ t \in TaskRecord /\ t.kind = task[c].kind /\ t.life = "ended" /\ t.ports = ports
        /\ t.blocker = task[c].blocker
    BY <1>1, <2>1 DEF TaskRecord, Lives
  <2> HIDE DEF t
  <2>3. task' = [task EXCEPT ![c] = t]
    BY <2>1 DEF t
  <2> QED BY <1>2, <1>3, <2>1, <2>2, <2>3, OneTask
<1> QED BY <1>4, <1>5, <1>6, <1>7 DEF TaskSteps

\* A connection's task starts.
LEMMA NewTask ==
  ASSUME SetupTypes, TaskInv, Holders,
         NEW c \in Conns, Fresh(c), NEW t \in TaskRecord, task' = [task EXCEPT ![c] = t],
         \A d \in Conns \ {c} : conn'[d] = conn[d],
         t.kind # "none", t.life \in {"starting", "following"}, t.life = "starting" => t.kind \in Flows,
         t.ports = FALSE, t.blocker = None
  PROVE  TaskInv' /\ Holders'
<1>1. /\ task'[c] = t /\ \A d \in Conns : d # c => task'[d] = task[d]
  BY DEF SetupTypes
<1>2. \A d \in Conns : task[d].kind \in Flows => task'[d].kind = task[d].kind
  BY <1>1 DEF Fresh, NoTask, Flows
<1>3. TaskInv'
  <2> SUFFICES ASSUME NEW d \in Conns
               PROVE  /\ task'[d].kind = "none" => Fresh(d)'
                      /\ task'[d].life \in {"starting", "negotiating"} => task'[d].kind \in Flows
                      /\ task'[d].life = "starting" => ~task'[d].ports /\ task'[d].blocker = None
                      /\ task'[d].life = "negotiating" => task'[d].kind = "master"
                      /\ task'[d].life = "woken" => task'[d].kind = "forward"
                      /\ task'[d].ports => task'[d].kind \in Flows /\ task'[d].blocker = None
                      /\ task'[d].blocker # None =>
                           task'[d].blocker \in Conns /\ task'[task'[d].blocker].kind \in Flows
                      /\ conn'[d].handle => task'[d].kind # "none"
    BY DEF TaskInv
  <2>1. CASE d = c
    BY <1>1, <2>1
  <2>2. CASE d # c
    BY <1>1, <1>2, <2>2 DEF TaskInv, Fresh
  <2> QED BY <2>1, <2>2
<1>4. Holders'
  <2>1. \A d \in Conns : HoldsPorts(d)' => HoldsPorts(d)
    BY <1>1 DEF HoldsPorts
  <2> QED BY <2>1 DEF Holders
<1> QED BY <1>3, <1>4

LEMMA OthersKeepTasks ==
  ASSUME SetupTypes, PhaseInv, TaskInv, Holders, Steady,
         \A d \in Conns :
           /\ task'[d].life = task[d].life \/ task'[d].life \in {"aborted", "ended"}
           /\ task[d].life = "ended" => task'[d].life = "ended"
           /\ task'[d].ports = task[d].ports /\ task'[d].blocker = task[d].blocker
           /\ conn'[d].handle => conn[d].handle
  PROVE  TaskInv' /\ Holders'
<1>1. \A d \in Conns : task'[d].kind = task[d].kind /\ (Fresh(d) => Fresh(d)')
  BY DEF Steady
<1>2. TaskInv'
  <2> SUFFICES ASSUME NEW d \in Conns
               PROVE  /\ task'[d].kind = "none" => Fresh(d)'
                      /\ task'[d].life \in {"starting", "negotiating"} => task'[d].kind \in Flows
                      /\ task'[d].life = "starting" => ~task'[d].ports /\ task'[d].blocker = None
                      /\ task'[d].life = "negotiating" => task'[d].kind = "master"
                      /\ task'[d].life = "woken" => task'[d].kind = "forward"
                      /\ task'[d].ports => task'[d].kind \in Flows /\ task'[d].blocker = None
                      /\ task'[d].blocker # None =>
                           task'[d].blocker \in Conns /\ task'[task'[d].blocker].kind \in Flows
                      /\ conn'[d].handle => task'[d].kind # "none"
    BY DEF TaskInv
  <2> QED BY <1>1 DEF TaskInv
<1>3. Holders'
  BY DEF Holders, HoldsPorts
<1> QED BY <1>2, <1>3

LEMMA DroppedIsSteady ==
  ASSUME SetupTypes, Dropped
  PROVE  /\ Steady /\ task' = task
         /\ \A d \in Conns : /\ conn'[d].from = conn[d].from /\ conn'[d].offset = conn[d].offset
                             /\ conn'[d].handle => conn[d].handle
<1> SUFFICES ASSUME NEW d \in Conns
             PROVE  /\ task' = task /\ Fresh(d) => Fresh(d)'
                    /\ Settled(d) => Settled(d)'
                    /\ conn'[d].clock = conn[d].clock
                    /\ conn'[d].from = conn[d].from /\ conn'[d].offset = conn[d].offset
                    /\ conn'[d].handle => conn[d].handle
  BY DEF Steady, Dropped
<1>1. conn[d] \in ConnRecord /\ task' = task
  BY RecordsOf DEF Dropped
<1>2. conn'[d] = conn[d] \/ conn'[d] = [conn[d] EXCEPT !.handle = FALSE]
  BY DEF Dropped
<1>3. [NewConn EXCEPT !.handle = FALSE] = NewConn
  <2> DEFINE r == [NewConn EXCEPT !.handle = FALSE]
  <2>1. NewConn \in ConnRecord /\ NewConn.handle = FALSE
    BY RecordsOf DEF NewConn
  <2>2. /\ r \in ConnRecord /\ r.handle = FALSE /\ r.stage = NewConn.stage /\ r.clock = NewConn.clock
        /\ r.offset = NewConn.offset /\ r.from = NewConn.from
    BY <2>1 DEF ConnRecord
  <2> HIDE DEF r
  <2>3. r = NewConn
    BY <2>1, <2>2 DEF ConnRecord
  <2> QED BY <2>3 DEF r
<1>4. /\ conn'[d].clock = conn[d].clock /\ conn'[d].from = conn[d].from
      /\ conn'[d].offset = conn[d].offset /\ (conn'[d].handle => conn[d].handle)
  BY <1>1, <1>2 DEF ConnRecord
<1>5. Fresh(d) => Fresh(d)'
  BY <1>1, <1>2, <1>3 DEF Fresh
<1> QED BY <1>1, <1>4, <1>5 DEF Settled

LEMMA LeftLeaves ==
  ASSUME SetupTypes, NEW left \in SUBSET Range(held), Left(left), NEW d \in Conns
  PROVE  /\ task'[d].kind = task[d].kind /\ task'[d].source = task[d].source
         /\ task'[d].measured = task[d].measured /\ task'[d].ports = task[d].ports
         /\ task'[d].blocker = task[d].blocker
         /\ task'[d].life = task[d].life \/ task'[d].life \in {"aborted", "ended"}
         /\ task[d].life = "ended" => task'[d].life = "ended"
         /\ conn'[d].from = conn[d].from /\ conn'[d].offset = conn[d].offset
         /\ d \in left => ~conn'[d].handle
         /\ d \notin left => conn'[d].handle = conn[d].handle /\ task'[d] = task[d]
         /\ d \in left /\ conn[d].handle => task'[d].life \in {"aborted", "ended"}
         /\ d \in left /\ ~conn[d].handle => task'[d] = task[d]
<1>1. task[d] \in TaskRecord /\ conn[d] \in ConnRecord
  BY RecordsOf
<1>2. CASE d \notin left
  BY <1>2 DEF Left
<1>3. CASE d \in left
  <2>1. task'[d] = Aborted(d) /\ conn'[d] = [conn[d] EXCEPT !.handle = FALSE, !.stage = "closed"]
    BY <1>3 DEF Left
  <2>2. conn'[d].from = conn[d].from /\ conn'[d].offset = conn[d].offset /\ ~conn'[d].handle
    BY <1>1, <2>1 DEF ConnRecord
  <2>3. CASE ~conn[d].handle
    BY <1>3, <2>1, <2>2, <2>3 DEF Aborted
  <2>4. CASE conn[d].handle
    <3>1. PICK life \in {"aborted", "ended"} : /\ Aborted(d) = [task[d] EXCEPT !.life = life]
                                               /\ task[d].life = "ended" => life = "ended"
      BY <2>4 DEF Aborted
    <3>2. /\ task'[d].kind = task[d].kind /\ task'[d].source = task[d].source
          /\ task'[d].measured = task[d].measured /\ task'[d].ports = task[d].ports
          /\ task'[d].blocker = task[d].blocker /\ task'[d].life = life
      BY <1>1, <2>1, <3>1 DEF TaskRecord
    <3> QED BY <1>3, <2>2, <2>4, <3>1, <3>2
  <2> QED BY <2>3, <2>4
<1> QED BY <1>2, <1>3

LEMMA LeavingKeepsTasks ==
  ASSUME SetupTypes, PhaseInv, TaskInv, Holders,
         LeaveMembers \/ LeavePrimary \/ LeavingFails \/ NoClock \/ ConnectFails
  PROVE  TaskInv' /\ Holders'
<1>1. CASE LeaveMembers \/ LeavePrimary \/ LeavingFails
  <2>1. PICK left \in SUBSET Range(held) : Left(left)
    BY <1>1, LeavingLeaves
  <2>2. Steady
    BY <2>1, LeftIsSteady
  <2>3. \A d \in Conns :
          /\ task'[d].life = task[d].life \/ task'[d].life \in {"aborted", "ended"}
          /\ task[d].life = "ended" => task'[d].life = "ended"
          /\ task'[d].ports = task[d].ports /\ task'[d].blocker = task[d].blocker
          /\ conn'[d].handle => conn[d].handle
    BY <2>1, LeftLeaves
  <2> QED BY <2>2, <2>3, OthersKeepTasks
<1>2. CASE NoClock \/ ConnectFails
  <2>1. Dropped
    BY <1>2 DEF NoClock, ConnectFails
  <2> QED BY <2>1, DroppedIsSteady, OthersKeepTasks
<1> QED BY <1>1, <1>2

\* What is started for a connection, by whom.
LEMMA Starts ==
  ASSUME SetupTypes, PhaseInv, Serve \/ SetUpPrimary \/ SetUpMember
  PROVE  \E c \in Conns, t \in TaskRecord :
           /\ c = ToSetUp /\ Fresh(c) /\ c \in Range(building)
           /\ task' = [task EXCEPT ![c] = t] /\ \A d \in Conns \ {c} : conn'[d] = conn[d]
           /\ conn'[c].handle
           /\ t.kind # "none" /\ t.life \in {"starting", "following"}
           /\ t.life = "starting" => t.kind \in Flows
           /\ t.ports = FALSE /\ t.blocker = None /\ t.measured = 0
           /\ IF SetUpMember 
              THEN /\ t.kind = "forward" /\ t.source = Primary /\ t.life = "following"
                   /\ conn'[c].from = conn[Primary].from
                   /\ Primary \in Conns /\ task[Primary].kind \in Flows
              ELSE t.kind \in Leading /\ conn'[c].from = conn[c].from
<1>1. pc = "setup"
  BY DEF Serve, SetUpPrimary, SetUpMember
<1>2. /\ ToSetUp = Primary /\ conn[Primary].stage # "ready" /\ Fresh(Primary)
      \/ /\ task[Primary].kind \in Flows /\ ToSetUp # Primary /\ conn[Primary].stage = "ready"
         /\ size > 1
         /\ \E i \in 2 .. Len(building) : ToSetUp = building[i] /\ Fresh(building[i])
  BY <1>1, NextSetUp
<1>3. ToSetUp \in Conns /\ Primary \in Conns /\ Fresh(ToSetUp) /\ ToSetUp \in Range(building)
  <2>1. Primary \in Conns /\ Primary = building[1] /\ 1 \in 1 .. Len(building)
    BY <1>1, PrimaryIsFirst DEF Primary
  <2>2. \A i \in 1 .. Len(building) : building[i] \in Range(building) /\ building[i] \in Conns
    BY BuildingAreMade, Elements DEF SetupTypes
  <2>3. \A i \in 2 .. Len(building) : i \in 1 .. Len(building)
    BY BuildingAreMade
  <2> QED BY <1>2, <2>1, <2>2, <2>3
<1>4. conn[ToSetUp] \in ConnRecord /\ conn[Primary] \in ConnRecord
  BY <1>3, RecordsOf
<1>5. CASE Serve
  <2> DEFINE t == [Started("ntp", ToSetUp) EXCEPT !.life = "following"]
  <2>1. Started("ntp", ToSetUp) \in TaskRecord
    BY <1>3, RecordsOf DEF Kinds
  <2>2. /\ t \in TaskRecord /\ t.kind = "ntp" /\ t.life = "following" /\ t.ports = FALSE
        /\ t.blocker = None /\ t.measured = 0
    BY <2>1 DEF Started, NoTask, TaskRecord, Lives
  <2>3. /\ task' = [task EXCEPT ![ToSetUp] = t] /\ conn'[ToSetUp].handle
        /\ \A d \in Conns \ {ToSetUp} : conn'[d] = conn[d] 
        /\ conn'[ToSetUp].from = conn[ToSetUp].from
    BY <1>3, <1>4, <1>5 DEF Serve, SetupTypes, ConnRecord
  <2>4. ~SetUpMember
    BY <1>5 DEF Serve, SetUpMember
  <2> HIDE DEF t
  <2> QED BY <1>3, <2>2, <2>3, <2>4 DEF Leading
<1>6. CASE SetUpPrimary
  <2> DEFINE t == Started(protocol, Primary)
  <2>1. protocol \in Flows /\ t \in TaskRecord
    <3>1. protocol \in Flows
      BY <1>6, ClientSetupAssumption DEF SetUpPrimary, SetupTypes, Flows
    <3> QED BY <1>3, <3>1, RecordsOf DEF Kinds, Flows
  <2>2. /\ t.kind = protocol /\ t.life = "starting" /\ t.ports = FALSE /\ t.blocker = None /\ t.measured = 0
    BY DEF Started, NoTask
  <2>3. /\ ToSetUp = Primary
        /\ task' = [task EXCEPT ![ToSetUp] = t] /\ conn'[ToSetUp].handle
        /\ \A d \in Conns \ {ToSetUp} : conn'[d] = conn[d] 
        /\ conn'[ToSetUp].from = conn[ToSetUp].from
    BY <1>3, <1>4, <1>6 DEF SetUpPrimary, SetupTypes, ConnRecord
  <2>4. ~SetUpMember
    BY <1>6 DEF SetUpPrimary, SetUpMember
  <2> HIDE DEF t
  <2> QED BY <1>3, <2>1, <2>2, <2>3, <2>4 DEF Leading, Flows
<1>7. CASE SetUpMember
  <2> DEFINE t == [Started("forward", Primary) EXCEPT !.life = "following"]
  <2>1. Started("forward", Primary) \in TaskRecord
    BY <1>3, RecordsOf DEF Kinds
  <2>2. /\ t \in TaskRecord /\ t.kind = "forward" /\ t.life = "following" /\ t.ports = FALSE
        /\ t.blocker = None /\ t.measured = 0 /\ t.source = Primary
    BY <2>1 DEF Started, NoTask, TaskRecord, Lives
  <2>3. /\ task' = [task EXCEPT ![ToSetUp] = t] /\ conn'[ToSetUp].handle
        /\ \A d \in Conns \ {ToSetUp} : conn'[d] = conn[d] 
        /\ conn'[ToSetUp].from = conn[Primary].from
    BY <1>3, <1>4, <1>7 DEF SetUpMember, SetupTypes, ConnRecord
  <2>4. task[Primary].kind \in Flows
    BY <1>2, <1>7 DEF SetUpMember
  <2> HIDE DEF t
  <2> QED BY <1>3, <1>7, <2>2, <2>3, <2>4
<1> QED BY <1>5, <1>6, <1>7

LEMMA SetUpKeepsTasks ==
  ASSUME SetupTypes, PhaseInv, TaskInv, Holders,
         Serve \/ SetUpServed \/ SetUpPrimary \/ Synced \/ PeersOfPrimary \/ SetUpMember
  PROVE  TaskInv' /\ Holders'
<1>1. CASE Serve \/ SetUpPrimary \/ SetUpMember
  BY <1>1, Starts, NewTask
<1>2. CASE SetUpServed \/ Synced \/ PeersOfPrimary
  <2>1. Primary \in Conns /\ task[Primary].kind # "none" /\ conn[Primary] \in ConnRecord
    <3>1. pc \in {"served", "sync", "peers"}
      BY <1>2 DEF SetUpServed, Synced, PeersOfPrimary
    <3>2. Primary \in Conns
      BY <3>1, PrimaryIsFirst
    <3>3. protocol # "none"
      BY ClientSetupAssumption DEF SetupTypes
    <3> QED BY <3>1, <3>2, <3>3, RecordsOf DEF PhaseInv, PrimaryInv, Flows
  <2>2. /\ task' = task /\ \A d \in Conns \ {Primary} : conn'[d] = conn[d]
        /\ conn'[Primary].clock = conn[Primary].clock /\ conn'[Primary].handle = conn[Primary].handle
    <3>1. CASE SetUpServed
      <4>1. ToSetUp = Primary
        BY <3>1, NextSetUp DEF SetUpServed
      <4> QED BY <2>1, <3>1, <4>1 DEF SetUpServed, SetupTypes, ConnRecord
    <3>2. CASE Synced \/ PeersOfPrimary
      BY <2>1, <3>2 DEF Synced, PeersOfPrimary, SetupTypes, ConnRecord
    <3> QED BY <1>2, <3>1, <3>2
  <2>3. Steady
    BY <2>1, <2>2 DEF Steady, Fresh, Settled, NoTask
  <2> QED BY <2>2, <2>3, OthersKeepTasks
<1> QED BY <1>1, <1>2

\* Measurements go up; a forwarder wakes up to the last one and passes on the last one; a
\* new member has looked at what its connection was subscribed from.
Forwards(d) ==
  LET p == task'[d].source
  IN \/ /\ task[d].kind = "forward" /\ task[d].source = p
        /\ seen'[d] \in {seen[d], task[p].measured}
        /\ task'[d].life = "following" =>
             \/ /\ task[d].life = "following" /\ seen'[d] = seen[d]
                /\ conn'[d].from = conn[d].from /\ conn'[d].offset = conn[d].offset
             \/ conn'[d].offset = task'[p].measured
     \/ /\ p \in Conns /\ task[p].kind \in Flows
        /\ seen'[d] <= task[p].measured /\ seen'[d] = conn'[d].from

StreamsOn ==
  \/ ~stream'.on
  \/ stream' = stream /\ seen'[stream.conn] = seen[stream.conn]
  \/ LET c == stream'.conn
     IN /\ c \in Conns /\ task[c].kind \in Leading /\ seen'[c] = task'[c].measured
        /\ stream'.offset = seen'[c] \/ stream'.from = seen'[c]

LEMMA KeepsFollowing ==
  ASSUME SetupTypes, SetupTypes', FollowInv, OffsetsInv, StreamsOn,
         \A d \in Conns :
           /\ task[d].measured <= task'[d].measured
           /\ task[d].kind \in Leading => task'[d].kind = task[d].kind
           /\ task'[d].kind = "forward" => Forwards(d)
           /\ task'[d].kind # "forward" =>
                \/ task[d].kind # "forward" /\ conn'[d].from = conn[d].from
                \/ conn'[d].from <= task'[d].measured
  PROVE  FollowInv' /\ OffsetsInv'
<1>1. \A d \in Conns : /\ task[d].measured \in Nat /\ task'[d].measured \in Nat
                       /\ seen[d] \in Nat /\ seen'[d] \in Nat
                       /\ conn[d].from \in Nat /\ conn'[d].from \in Nat
  <2>1. Offsets \subseteq Nat
    BY DEF Offsets
  <2>2. ASSUME NEW d \in Conns
        PROVE  /\ task[d] \in TaskRecord /\ conn[d] \in ConnRecord /\ seen[d] \in Offsets
               /\ task'[d] \in TaskRecord /\ conn'[d] \in ConnRecord /\ seen'[d] \in Offsets
    BY DEF SetupTypes
  <2>3. \A t \in TaskRecord : t.measured \in Offsets
    BY DEF TaskRecord
  <2>4. \A k \in ConnRecord : k.from \in Offsets
    BY DEF ConnRecord
  <2> QED BY <2>1, <2>2, <2>3, <2>4
<1>2. Flows \subseteq Leading
  BY DEF Flows, Leading
<1>3. ASSUME NEW d \in Conns, task'[d].kind = "forward"
      PROVE  LET p == task'[d].source
             IN /\ p \in Conns /\ task'[p].kind \in Flows /\ seen'[d] <= task'[p].measured
                /\ task'[d].life = "following" /\ seen'[d] = task'[p].measured /\ seen'[d] # conn'[d].from
                     => conn'[d].offset = seen'[d]
  <2> DEFINE p == task'[d].source
  <2>1. Forwards(d)
    BY <1>3
  <2>2. p \in Conns /\ task[p].kind \in Flows
    BY <2>1 DEF Forwards, FollowInv
  <2>3. task'[p].kind \in Flows /\ task[p].measured <= task'[p].measured
    BY <1>2, <2>2
  <2>4. seen'[d] <= task[p].measured
    <3>1. task[d].kind = "forward" /\ task[d].source = p => seen[d] <= task[p].measured
      BY DEF FollowInv
    <3> QED BY <1>1, <2>1, <2>2, <3>1 DEF Forwards
  <2>5. seen'[d] <= task'[p].measured
    BY <1>1, <2>2, <2>3, <2>4
  <2>6. ASSUME task'[d].life = "following", seen'[d] = task'[p].measured, seen'[d] # conn'[d].from
        PROVE  conn'[d].offset = seen'[d]
    <3>1. task[p].measured = seen'[d]
      BY <1>1, <2>2, <2>3, <2>4, <2>6
    <3>2. /\ task[d].kind = "forward" /\ task[d].source = p
          /\ \/ /\ task[d].life = "following" /\ seen'[d] = seen[d]
                /\ conn'[d].from = conn[d].from /\ conn'[d].offset = conn[d].offset
             \/ conn'[d].offset = task'[p].measured
      BY <2>1, <2>6 DEF Forwards
    <3>3. task[d].life = "following" /\ seen[d] = task[p].measured /\ seen[d] # conn[d].from
            => conn[d].offset = seen[d]
      BY <3>2 DEF OffsetsInv
    <3> QED BY <2>6, <3>1, <3>2, <3>3
  <2> QED BY <2>2, <2>3, <2>5, <2>6
<1>4. ASSUME NEW d \in Conns, task'[d].kind # "forward" PROVE conn'[d].from <= task'[d].measured
  <2>1. task[d].kind # "forward" => conn[d].from <= task[d].measured
    BY DEF FollowInv
  <2> QED BY <1>1, <1>4, <2>1
<1>5. ASSUME stream'.on
      PROVE  LET c == stream'.conn
             IN /\ c \in Conns /\ task'[c].kind \in Leading /\ seen'[c] <= task'[c].measured
                /\ seen'[c] = task'[c].measured /\ seen'[c] # stream'.from => stream'.offset = seen'[c]
  <2>1. CASE stream' = stream /\ seen'[stream.conn] = seen[stream.conn]
    <3>1. stream.conn \in Conns /\ task[stream.conn].kind \in Leading
          /\ seen[stream.conn] <= task[stream.conn].measured
      BY <1>5, <2>1 DEF FollowInv
    <3>2. seen[stream.conn] = task[stream.conn].measured /\ seen[stream.conn] # stream.from
            => stream.offset = seen[stream.conn]
      BY <1>5, <2>1 DEF OffsetsInv
    <3>3. /\ task[stream.conn].measured <= task'[stream.conn].measured
          /\ task'[stream.conn].kind = task[stream.conn].kind
      BY <3>1
    <3> QED BY <1>1, <2>1, <3>1, <3>2, <3>3
  <2>2. CASE LET c == stream'.conn
             IN /\ c \in Conns /\ task[c].kind \in Leading /\ seen'[c] = task'[c].measured
                /\ stream'.offset = seen'[c] \/ stream'.from = seen'[c]
    BY <1>1, <2>2
  <2> QED BY <1>5, <2>1, <2>2 DEF StreamsOn
<1> QED BY <1>3, <1>4, <1>5 DEF FollowInv, OffsetsInv

LEMMA ClientKeepsFollowing ==
  ASSUME SetupTypes, SetupTypes', PhaseInv, TaskInv, FollowInv, OffsetsInv, ClientNext
  PROVE  FollowInv' /\ OffsetsInv'
<1>0. \A d \in Conns : task[d].measured \in Nat
  <2>1. \A d \in Conns : task[d].measured \in Offsets
    BY RecordsOf
  <2> QED BY <2>1 DEF Offsets
<1>1. CASE (\E n \in Sizes : Connect(n)) \/ Disconnect \/ PairNext \/ Return
  <2>1. UNCHANGED <<conn, task, seen, stream>>
    BY <1>1 DEF Connect, Disconnect, PairNext, Return
  <2> QED BY <2>1 DEF FollowInv, OffsetsInv
<1>2. CASE Play \/ TakeOffset
  <2>1. PICK c \in Conns :
          /\ task[c].kind \in Leading /\ seen' = [seen EXCEPT ![c] = task[c].measured]
          /\ stream'.conn = c /\ (stream'.from = task[c].measured \/ stream'.offset = task[c].measured)
          /\ UNCHANGED <<conn, task>>
    <3>1. CASE Play
      <4>1. held[1] \in Conns /\ task[held[1]].kind \in Leading
        BY <3>1, HeldAreMade DEF Play, PhaseInv, HeldInv
      <4> QED BY <3>1, <4>1 DEF Play
    <3>2. CASE TakeOffset
      <4>1. stream.conn \in Conns /\ task[stream.conn].kind \in Leading
        BY <3>2 DEF TakeOffset, FollowInv
      <4> QED BY <3>2, <4>1 DEF TakeOffset, SetupTypes
    <3> QED BY <1>2, <3>1, <3>2
  <2>2. seen'[c] = task[c].measured /\ \A d \in Conns \ {c} : seen'[d] = seen[d]
    BY <2>1 DEF SetupTypes
  <2>3. StreamsOn
    BY <2>1, <2>2 DEF StreamsOn
  <2>4. \A d \in Conns : task[d].kind = "forward" => Forwards(d)
    BY <2>1, <2>2 DEF Forwards, Leading
  <2> QED BY <1>0, <2>1, <2>3, <2>4, KeepsFollowing
<1>3. CASE LeaveMembers \/ LeavePrimary \/ LeavingFails \/ NoClock \/ ConnectFails
  <2>1. /\ seen' = seen /\ stream' \in {stream, NoStream}
        /\ \A d \in Conns :
             /\ task'[d].kind = task[d].kind /\ task'[d].source = task[d].source
             /\ task'[d].measured = task[d].measured
             /\ task'[d].life = "following" => task[d].life = "following"
             /\ conn'[d].from = conn[d].from /\ conn'[d].offset = conn[d].offset
    <3>1. CASE LeaveMembers \/ LeavePrimary \/ LeavingFails
      <4>1. PICK left \in SUBSET Range(held) : Left(left)
        BY <3>1, LeavingLeaves
      <4>2. seen' = seen /\ stream' \in {stream, NoStream}
        BY <3>1, LeavingLeaves
      <4> QED BY <4>1, <4>2, LeftLeaves
    <3>2. CASE NoClock \/ ConnectFails
      BY <3>2, DroppedIsSteady DEF NoClock, ConnectFails, Dropped
    <3> QED BY <1>3, <3>1, <3>2
  <2>2. StreamsOn
    BY <2>1 DEF StreamsOn, NoStream
  <2>3. \A d \in Conns : task'[d].kind = "forward" => Forwards(d)
    BY <2>1 DEF Forwards
  <2> QED BY <1>0, <2>1, <2>2, <2>3, KeepsFollowing
<1>4. CASE Serve \/ SetUpPrimary \/ SetUpMember
  <2>1. PICK c \in Conns, t \in TaskRecord :
           /\ c = ToSetUp /\ Fresh(c)
           /\ task' = [task EXCEPT ![c] = t] /\ \A d \in Conns \ {c} : conn'[d] = conn[d]
           /\ t.kind # "none" /\ t.measured = 0
           /\ IF SetUpMember 
              THEN /\ t.kind = "forward" /\ t.source = Primary /\ t.life = "following"
                   /\ conn'[c].from = conn[Primary].from
                   /\ Primary \in Conns /\ task[Primary].kind \in Flows
              ELSE t.kind \in Leading /\ conn'[c].from = conn[c].from
    BY <1>4, Starts
  <2>2. task'[c] = t /\ \A d \in Conns \ {c} : task'[d] = task[d]
    BY <2>1 DEF SetupTypes
  <2>3. task[c].kind = "none" /\ task[c].measured = 0 /\ conn[c].from = 0
    BY <2>1 DEF Fresh, NoTask, NewConn
  <2>4. stream' = stream /\ (stream.on => seen'[stream.conn] = seen[stream.conn])
        /\ \A d \in Conns \ {c} : seen'[d] = seen[d]
    <3>1. CASE SetUpMember
      <4>1. stream.on => stream.conn \in Conns \ {c}
        BY <2>3 DEF FollowInv, Leading
      <4> QED BY <2>1, <3>1, <4>1 DEF SetUpMember, SetupTypes
    <3>2. CASE Serve \/ SetUpPrimary
      BY <3>2 DEF Serve, SetUpPrimary
    <3> QED BY <1>4, <3>1, <3>2
  <2>5. StreamsOn
    BY <2>4 DEF StreamsOn
  <2>6. SetUpMember => seen'[c] = conn[Primary].from /\ conn[Primary].from <= task[Primary].measured
    BY <2>1 DEF SetUpMember, SetupTypes, FollowInv, Flows
  <2>7. ASSUME NEW d \in Conns, task'[d].kind = "forward" PROVE Forwards(d)
    <3>1. CASE d = c
      BY <2>1, <2>2, <2>6, <2>7, <3>1 DEF Forwards, Leading
    <3>2. CASE d # c
      BY <2>1, <2>2, <2>4, <2>7, <3>2 DEF Forwards
    <3> QED BY <3>1, <3>2
  <2>8. \A d \in Conns :
           /\ task[d].measured <= task'[d].measured
           /\ task[d].kind \in Leading => task'[d].kind = task[d].kind
           /\ task'[d].kind # "forward" =>
                \/ task[d].kind # "forward" /\ conn'[d].from = conn[d].from
                \/ conn'[d].from <= task'[d].measured
    BY <1>0, <2>1, <2>2, <2>3 DEF Leading
  <2> QED BY <2>5, <2>7, <2>8, KeepsFollowing
<1>5. CASE SetUpServed \/ Synced \/ PeersOfPrimary
  <2>1. pc \in {"served", "sync", "peers"}
    BY <1>5 DEF SetUpServed, Synced, PeersOfPrimary
  <2>2. Primary \in Conns /\ task[Primary].kind \in Leading
    <3>1. protocol \in {"ntp", "slave", "master"}
      BY ClientSetupAssumption DEF SetupTypes
    <3> QED BY <2>1, <3>1, PrimaryIsFirst DEF PhaseInv, PrimaryInv, Flows, Leading
  <2>3. /\ task' = task /\ seen' = seen /\ stream' = stream
        /\ \A d \in Conns \ {Primary} : conn'[d] = conn[d]
        /\ conn'[Primary].from \in {conn[Primary].from, task[Primary].measured}
    <3>1. conn[Primary] \in ConnRecord
      BY <2>2, RecordsOf
    <3>2. CASE SetUpServed
      <4>1. ToSetUp = Primary
        BY <3>2, NextSetUp DEF SetUpServed
      <4> QED BY <2>2, <3>1, <3>2, <4>1 DEF SetUpServed, SetupTypes, ConnRecord
    <3>3. CASE Synced \/ PeersOfPrimary
      BY <2>2, <3>1, <3>3 DEF Synced, PeersOfPrimary, SetupTypes, ConnRecord
    <3> QED BY <1>5, <3>2, <3>3
  <2>4. StreamsOn
    BY <2>3 DEF StreamsOn
  <2>5. \A d \in Conns : task[d].kind = "forward" => Forwards(d)
    BY <2>2, <2>3 DEF Forwards, Leading
  <2> QED BY <1>0, <2>2, <2>3, <2>4, <2>5, KeepsFollowing DEF Leading
<1> QED BY <1>1, <1>2, <1>3, <1>4, <1>5 DEF ClientNext

LEMMA TasksKeepFollowing ==
  ASSUME SetupTypes, SetupTypes', TaskInv, FollowInv, OffsetsInv, TasksMove, NEW c \in Conns, TaskSteps(c)
  PROVE  FollowInv' /\ OffsetsInv'
<1> DEFINE Rest == \A d \in Conns \ {c} : task'[d] = task[d] /\ seen'[d] = seen[d] /\ conn'[d] = conn[d]
           Woken == seen'[c] = task[task[c].source].measured /\ task'[c].life = "woken"
           Passed == conn'[c].offset = task[task[c].source].measured /\ seen' = seen
<1>0. task[c] \in TaskRecord /\ conn[c] \in ConnRecord
  BY RecordsOf
<1>1. Rest /\ (task[c].kind = "forward" => Woken \/ Passed \/ (seen' = seen /\ task'[c].life = "ended"))
      /\ (task[c].kind # "forward" => seen' = seen)
  <2>1. CASE Bind(c) \/ Negotiate(c) \/ Measure(c)
    <3>1. Rest /\ seen' = seen
      BY <2>1 DEF Bind, Negotiate, Measure, SetupTypes
    <3>2. task[c].kind # "forward"
      BY <2>1 DEF Bind, Negotiate, Measure, TaskInv
    <3> QED BY <3>1, <3>2
  <2>2. CASE TaskFails(c) \/ AbortTakesEffect(c) \/ ForwarderEnds(c)
    <3>1. Rest /\ seen' = seen
      BY <2>2 DEF TaskFails, AbortTakesEffect, ForwarderEnds, SetupTypes
    <3>2. task'[c].life = "ended"
      BY <1>0, <2>2 DEF TaskFails, AbortTakesEffect, ForwarderEnds, SetupTypes, TaskRecord
    <3> QED BY <3>1, <3>2
  <2>3. CASE Wake(c)
    BY <1>0, <2>3 DEF Wake, SetupTypes, TaskRecord
  <2>4. CASE Forward(c)
    <3>1. Rest /\ seen' = seen /\ conn'[c].offset = task[task[c].source].measured
      BY <1>0, <2>4 DEF Forward, SetupTypes, ConnRecord
    <3> QED BY <3>1
  <2> QED BY <2>1, <2>2, <2>3, <2>4 DEF TaskSteps
<1>2. \A d \in Conns : /\ task'[d].kind = task[d].kind /\ task'[d].source = task[d].source
                       /\ conn'[d].from = conn[d].from /\ task[d].measured <= task'[d].measured
                       /\ stream' = stream
  BY DEF TasksMove
<1>3. StreamsOn
  <2>1. stream' = stream
    BY DEF TasksMove
  <2>2. stream.on => stream.conn \in Conns /\ task[stream.conn].kind \in Leading
    BY DEF FollowInv
  <2>3. stream.on => seen'[stream.conn] = seen[stream.conn]
    BY <1>1, <2>2 DEF Leading
  <2> QED BY <2>1, <2>3 DEF StreamsOn
<1>4. ASSUME NEW d \in Conns, task'[d].kind = "forward" PROVE Forwards(d)
  <2>1. task[d].kind = "forward" /\ task'[d].source = task[d].source /\ conn'[d].from = conn[d].from
    BY <1>2, <1>4
  <2>2. CASE d # c
    BY <1>1, <2>1, <2>2 DEF Forwards
  <2>3. CASE d = c
    <3>1. CASE Woken
      BY <2>1, <2>3, <3>1 DEF Forwards
    <3>2. CASE Passed
      <4>1. task[c].source # c /\ task[c].source \in Conns
        BY <2>1, <2>3 DEF FollowInv, Flows
      <4>2. task'[task[c].source].measured = task[task[c].source].measured
        BY <1>1, <4>1
      <4> QED BY <2>1, <2>3, <3>2, <4>2 DEF Forwards
    <3>3. CASE seen' = seen /\ task'[c].life = "ended"
      BY <2>1, <2>3, <3>3 DEF Forwards
    <3> QED BY <1>1, <2>1, <2>3, <3>1, <3>2, <3>3
  <2> QED BY <2>2, <2>3
<1> QED BY <1>2, <1>3, <1>4, KeepsFollowing

\* A task that runs on has an owner, ...
Owned ==
  \A d \in Conns :
    Alive(d) => d \in abandoned \/ ((d \in Range(held) \/ d \in Range(building)) /\ conn[d].handle)

\* ... and one that has no ports is kept from them by one that has none.
Blocked ==
  \A d \in Conns :
    d \notin abandoned /\ task[d].blocker # None =>
      task[d].blocker \in abandoned \/ ~Alive(task[d].blocker)

LEMMA AccountedMeans ==
  ASSUME SetupTypes, PhaseInv
  PROVE  TasksAreAccounted <=> Owned /\ Blocked
<1>1. held = <<>> \/ building = <<>>
  BY DEF PhaseInv, CallInv
<1>2. \A d : d \in Range(held \o building) <=> d \in Range(held) \/ d \in Range(building)
  BY <1>1, ElementsOfBoth DEF SetupTypes
<1> QED BY <1>2 DEF TasksAreAccounted, Owned, Blocked

LEMMA StaysBlocked ==
  ASSUME SetupTypes, TaskInv, Blocked, abandoned \subseteq abandoned',
         \A d \in Conns : /\ task'[d].blocker \in {task[d].blocker, None}
                          /\ Alive(d)' => Alive(d) \/ Fresh(d)
  PROVE  Blocked'
<1> SUFFICES ASSUME NEW d \in Conns, d \notin abandoned', task'[d].blocker # None
             PROVE  task'[d].blocker \in abandoned' \/ ~Alive(task[d].blocker)'
  BY DEF Blocked
<1>1. task'[d].blocker = task[d].blocker /\ task[d].blocker \in Conns /\ task[task[d].blocker].kind \in Flows
  BY DEF TaskInv
<1>2. ~Fresh(task[d].blocker)
  BY <1>1 DEF Fresh, NoTask, Flows
<1>3. task[d].blocker \in abandoned \/ ~Alive(task[d].blocker)
  BY <1>1 DEF Blocked
<1> QED BY <1>1, <1>2, <1>3

LEMMA ClientKeepsAccount ==
  ASSUME SetupTypes, PhaseInv, TaskInv, Owned, Blocked, ClientNext
  PROVE  Owned' /\ Blocked'
<1>1. CASE (\E n \in Sizes : Connect(n)) \/ Disconnect \/ PairNext \/ Return \/ Play \/ TakeOffset
  <2>1. UNCHANGED <<conn, task, abandoned>>
    BY <1>1 DEF Connect, Disconnect, PairNext, Return, Play, TakeOffset
  <2>2. Blocked'
    BY <2>1, StaysBlocked DEF Alive
  <2>3. \A d : d \in Range(held) \/ d \in Range(building) => d \in Range(held') \/ d \in Range(building')
    <3>1. CASE (\E n \in Sizes : Connect(n)) \/ Disconnect \/ Play \/ TakeOffset
      BY <3>1 DEF Connect, Disconnect, Play, TakeOffset
    <3>2. CASE PairNext
      <4>1. /\ held' = held /\ building' = Append(building, made + 1) /\ building \in Seq(Nat) /\ made + 1 \in Nat
        BY <3>2 DEF PairNext, SetupTypes
      <4>2. /\ building' \in Seq(Nat) 
            /\ \A i \in 1 .. Len(building) : i \in 1 .. Len(building') /\ building'[i] = building[i]
        BY <4>1
      <4>3. \A d : d \in Range(building) <=> \E i \in 1 .. Len(building) : d = building[i]
        BY <4>1, Elements
      <4>4. \A d : d \in Range(building') <=> \E i \in 1 .. Len(building') : d = building'[i]
        BY <4>2, Elements
      <4>5. Range(building) \subseteq Range(building')
        BY <4>2, <4>3, <4>4
      <4> QED BY <4>1, <4>5
    <3>3. CASE Return
      <4>1. held' = building /\ held = <<>>
        BY <3>3 DEF Return, PhaseInv, CallInv
      <4>2. Range(<<>>) = {}
        BY DEF Range
      <4> QED BY <4>1, <4>2
    <3> QED BY <1>1, <3>1, <3>2, <3>3
  <2>4. Owned'
    BY <2>1, <2>3 DEF Owned, Alive
  <2> QED BY <2>2, <2>4
<1>2. CASE LeaveMembers \/ LeavePrimary \/ LeavingFails
  <2>1. PICK left \in SUBSET Range(held) :
          /\ Left(left) /\ \A d \in Range(held) : d \in Range(held') \/ d \in left
    <3>1. /\ held \in Seq(Nat) /\ held # <<>> /\ Len(held) \in Nat \ {0} /\ <<held[1]>> \in Seq(Nat)
          /\ <<>> \in Seq(Nat)
      BY <1>2, LeavingLeaves DEF SetupTypes
    <3>2. \A d : d \in Range(held) <=> \E i \in 1 .. Len(held) : d = held[i]
      BY <3>1, Elements
    <3>3. CASE LeaveMembers
      <4>1. Left(Range(Tail(held))) /\ held' = <<held[1]>>
        BY <3>3 DEF LeaveMembers
      <4>2. /\ Range(Tail(held)) \subseteq Range(held)
            /\ \A d : d \in Range(Tail(held)) <=> \E i \in 2 .. Len(held) : d = held[i]
        BY <3>1, Others
      <4>3. held[1] \in Range(held')
        BY <3>1, <4>1 DEF Range
      <4>4. \A i \in 1 .. Len(held) : i = 1 \/ i \in 2 .. Len(held)
        BY <3>1
      <4>5. \A d \in Range(held) : d \in Range(held') \/ d \in Range(Tail(held))
        BY <3>2, <4>2, <4>3, <4>4
      <4> QED BY <4>1, <4>2, <4>5
    <3>4. CASE LeavePrimary
      <4>1. Left({held[1]}) /\ Len(held) = 1
        BY <3>4 DEF LeavePrimary
      <4>2. \A d \in Range(held) : d = held[1]
        BY <3>2, <4>1
      <4>3. {held[1]} \subseteq Range(held)
        BY <3>1, <3>2
      <4> QED BY <4>1, <4>2, <4>3
    <3>5. CASE LeavingFails
      <4>1. held' = held
        BY <3>5 DEF LeavingFails
      <4> QED BY <1>2, <4>1, LeavingLeaves
    <3> QED BY <1>2, <3>3, <3>4, <3>5
  <2>2. abandoned' = abandoned /\ building' = building /\ building = <<>>
    BY <1>2, LeavingLeaves DEF PhaseInv, CallInv
  <2>3. \A d \in Conns :
          /\ task'[d].blocker = task[d].blocker /\ (Alive(d)' => Alive(d))
          /\ Alive(d)' => (d \notin left /\ conn'[d].handle = conn[d].handle) \/ ~conn[d].handle
    BY <2>1, LeftLeaves DEF Alive
  <2>4. Blocked'
    BY <2>2, <2>3, StaysBlocked
  <2>5. Range(building) = {}
    BY <2>2 DEF Range
  <2>6. Owned'
    BY <2>1, <2>2, <2>3, <2>5 DEF Owned
  <2> QED BY <2>4, <2>6
<1>3. CASE NoClock \/ ConnectFails
  <2>1. Dropped /\ held = <<>>
    BY <1>3 DEF NoClock, ConnectFails, PhaseInv, CallInv
  <2>2. task' = task /\ abandoned' = abandoned \cup {c \in Range(building) : conn[c].handle}
    BY <2>1 DEF Dropped
  <2>3. Blocked'
    BY <2>2, StaysBlocked DEF Alive
  <2>4. Range(held) = {}
    BY <2>1 DEF Range
  <2>5. Owned'
    BY <2>2, <2>4 DEF Owned, Alive
  <2> QED BY <2>3, <2>5
<1>4. CASE Serve \/ SetUpPrimary \/ SetUpMember
  <2>1. PICK c \in Conns, t \in TaskRecord :
           /\ c = ToSetUp /\ Fresh(c) /\ c \in Range(building)
           /\ task' = [task EXCEPT ![c] = t] /\ \A d \in Conns \ {c} : conn'[d] = conn[d]
           /\ conn'[c].handle /\ t.blocker = None
    BY <1>4, Starts
  <2>2. task'[c] = t /\ \A d \in Conns \ {c} : task'[d] = task[d]
    BY <2>1 DEF SetupTypes
  <2>3. UNCHANGED <<held, building, abandoned>>
    BY <1>4 DEF Serve, SetUpPrimary, SetUpMember
  <2>4. \A d \in Conns : /\ task'[d].blocker \in {task[d].blocker, None}
                         /\ Alive(d)' => Alive(d) \/ Fresh(d)
    BY <2>1, <2>2 DEF Alive
  <2>5. Blocked'
    BY <2>3, <2>4, StaysBlocked
  <2>6. Owned'
    BY <2>1, <2>2, <2>3 DEF Owned, Alive
  <2> QED BY <2>5, <2>6
<1>5. CASE SetUpServed \/ Synced \/ PeersOfPrimary
  <2>1. UNCHANGED <<held, building, abandoned, task>>
    BY <1>5 DEF SetUpServed, Synced, PeersOfPrimary
  <2>2. \A d \in Conns : conn'[d].handle = conn[d].handle
    <3>1. \A d \in Conns : conn[d] \in ConnRecord
      BY RecordsOf
    <3>2. CASE SetUpServed
      BY <3>1, <3>2 DEF SetUpServed, SetupTypes, ConnRecord
    <3>3. CASE Synced
      BY <3>1, <3>3 DEF Synced, SetupTypes, ConnRecord
    <3>4. CASE PeersOfPrimary
      BY <3>1, <3>4 DEF PeersOfPrimary, SetupTypes, ConnRecord
    <3> QED BY <1>5, <3>2, <3>3, <3>4
  <2>3. Blocked'
    BY <2>1, StaysBlocked DEF Alive
  <2> QED BY <2>1, <2>2, <2>3 DEF Owned, Alive
<1> QED BY <1>1, <1>2, <1>3, <1>4, <1>5 DEF ClientNext

\* Whoever else holds the ports when a task wants them was dropped, or is about to end.
LEMMA BinderIsBlocked ==
  ASSUME SetupTypes, PhaseInv, TaskInv, Owned, NEW c \in Conns, NEW d \in Conns,
         task[c].life = "starting", task[c].kind \in Flows, c \notin abandoned,
         HoldsPorts(d), Alive(d)
  PROVE  d \in abandoned
<1> SUFFICES ASSUME d \notin abandoned PROVE FALSE
  OBVIOUS
<1>1. Alive(c)
  BY DEF Alive
<1>2. /\ ~task[c].ports /\ task[d].ports /\ task[d].kind \in Flows
  BY DEF TaskInv, HoldsPorts
<1>3. c # d
  BY <1>2
<1>4. \A e \in {c, d} : e \in Range(held) \/ e \in Range(building)
  BY <1>1 DEF Owned
<1>5. \A e \in Range(held) : task[e].kind \in Flows => held # <<>> /\ e = held[1]
  <2>1. \A i \in 1 .. Len(held) : held # <<>> /\ (i = 1 \/ i \in 2 .. Len(held))
    BY HeldAreMade
  <2>2. \A i \in 2 .. Len(held) : task[held[i]].kind = "forward"
    BY HeldAreMade DEF PhaseInv, HeldInv, Joined
  <2>3. \A e \in Range(held) : \E i \in 1 .. Len(held) : e = held[i]
    BY Elements DEF SetupTypes
  <2> QED BY <2>1, <2>2, <2>3 DEF Flows
<1>6. \A e \in Range(building) : task[e].kind \in Flows => building # <<>> /\ e = building[1]
  <2>1. \A i \in 1 .. Len(building) : building # <<>> /\ (i = 1 \/ i \in 2 .. Len(building))
    BY BuildingAreMade
  <2>2. \A i \in 2 .. Len(building) : task[building[i]].kind \in {"none", "forward"}
    BY BuildingAreMade DEF PhaseInv, MembersInv, Joined, Fresh, NoTask
  <2>3. \A e \in Range(building) : \E i \in 1 .. Len(building) : e = building[i]
    BY Elements DEF SetupTypes
  <2> QED BY <2>1, <2>2, <2>3 DEF Flows
<1>7. held = <<>> \/ building = <<>>
  BY DEF PhaseInv, CallInv
<1> QED BY <1>2, <1>3, <1>4, <1>5, <1>6, <1>7

LEMMA TasksKeepAccount ==
  ASSUME SetupTypes, PhaseInv, TaskInv, FollowInv, Owned, Blocked, TasksMove, NEW c \in Conns, TaskSteps(c)
  PROVE  Owned' /\ Blocked'
<1>1. Owned'
  BY DEF TasksMove, Owned, Alive
<1>2. \A d \in Conns : Alive(d)' => Alive(d)
  BY DEF TasksMove, Alive
<1>3. abandoned' = abandoned
  BY DEF TasksMove
<1>4. CASE ~Bind(c)
  <2>1. \A d \in Conns : task'[d].blocker = task[d].blocker
    <3>1. \A d \in Conns : task[d] \in TaskRecord
      BY RecordsOf
    <3>2. ASSUME NEW d \in Conns, d # c PROVE task'[d] = task[d]
      BY <1>4, <3>2 DEF TaskSteps, Negotiate, Measure, TaskFails, AbortTakesEffect, Wake, Forward,
                        ForwarderEnds, SetupTypes
    <3>3. CASE Negotiate(c)
      BY <3>1, <3>3 DEF Negotiate, SetupTypes, TaskRecord
    <3>4. CASE Measure(c)
      BY <3>1, <3>4 DEF Measure, SetupTypes, TaskRecord
    <3>5. CASE TaskFails(c)
      BY <3>1, <3>5 DEF TaskFails, SetupTypes, TaskRecord
    <3>6. CASE AbortTakesEffect(c)
      BY <3>1, <3>6 DEF AbortTakesEffect, SetupTypes, TaskRecord
    <3>7. CASE Wake(c)
      <4>1. task' = [task EXCEPT ![c].life = "woken"]
        BY <3>7 DEF Wake
      <4> QED BY <3>1, <4>1 DEF SetupTypes, TaskRecord
    <3>8. CASE Forward(c)
      BY <3>1, <3>8 DEF Forward, SetupTypes, TaskRecord
    <3>9. CASE ForwarderEnds(c)
      <4>1. task' = [task EXCEPT ![c].life = "ended"]
        BY <3>9 DEF ForwarderEnds
      <4> QED BY <3>1, <4>1 DEF SetupTypes, TaskRecord
    <3> QED BY <1>4, <3>3, <3>4, <3>5, <3>6, <3>7, <3>8, <3>9 DEF TaskSteps
  <2> QED BY <1>1, <1>2, <1>3, <2>1, StaysBlocked
<1>5. CASE Bind(c)
  <2> DEFINE holders == {d \in Conns : HoldsPorts(d)}
             blocker == IF holders = {} THEN None ELSE CHOOSE d \in holders : TRUE
  <2>1. task[c].life = "starting" /\ task[c].kind \in Flows /\ task[c] \in TaskRecord
    BY <1>5, RecordsOf DEF Bind, Flows
  <2>2. task'[c].blocker = blocker /\ \A d \in Conns \ {c} : task'[d] = task[d]
    BY <1>5, <2>1 DEF Bind, SetupTypes, TaskRecord
  <2>3. blocker # None => blocker \in holders
    OBVIOUS
  <2> HIDE DEF blocker
  <2>4. c \notin abandoned /\ blocker # None => blocker \in abandoned \/ ~Alive(blocker)
    BY <2>1, <2>3, BinderIsBlocked
  <2>5. ASSUME NEW d \in Conns, d \notin abandoned, task'[d].blocker # None
        PROVE  task'[d].blocker \in abandoned \/ ~Alive(task[d].blocker)'
    <3>1. CASE d = c
      <4>1. blocker \in Conns /\ (blocker \in abandoned \/ ~Alive(blocker))
        BY <1>3, <2>2, <2>3, <2>4, <2>5, <3>1 DEF holders
      <4>2. blocker \in abandoned \/ ~(task'[blocker].life \in {"starting", "negotiating", "following", "woken"})
        BY <1>2, <4>1 DEF Alive
      <4> QED BY <2>2, <3>1, <4>2 DEF Alive
    <3>2. CASE d # c
      <4>1. task'[d].blocker = task[d].blocker /\ task[d].blocker \in Conns
        BY <2>2, <2>5, <3>2 DEF TaskInv
      <4>2. task[d].blocker \in abandoned \/ ~Alive(task[d].blocker)
        BY <2>5, <4>1 DEF Blocked
      <4>3. \A e \in Conns : ~Alive(e) => ~Alive(e)'
        BY <1>2
      <4> QED BY <4>1, <4>2, <4>3 DEF Alive
    <3> QED BY <3>1, <3>2
  <2> QED BY <1>1, <1>3, <2>5 DEF Blocked
<1> QED BY <1>4, <1>5

LEMMA FirstSetup == Init => SetupInv
<1> SUFFICES ASSUME Init PROVE SetupInv
  OBVIOUS
<1>1. SetupTypes /\ PhaseInv
  BY FirstTypes, FirstPhase
<1>2. \A c \in Conns : task[c] = NoTask /\ conn[c] = NewConn /\ seen[c] = 0
  BY DEF Init
<1>3. stream = NoStream
  BY DEF Init
<1>4. TaskInv /\ Holders
  BY <1>2 DEF TaskInv, Holders, HoldsPorts, NoTask, NewConn, Fresh, None
<1>5. FollowInv /\ OffsetsInv
  BY <1>2, <1>3 DEF FollowInv, OffsetsInv, NoTask, NewConn, NoStream
<1>6. Owned /\ Blocked
  BY <1>2 DEF Owned, Blocked, Alive, NoTask, None
<1> QED BY <1>1, <1>4, <1>5, <1>6, AccountedMeans DEF SetupInv

LEMMA SetupStepKeeps == SetupInv /\ [Next]_vars => SetupInv'
<1> SUFFICES ASSUME SetupInv, [Next]_vars PROVE SetupInv'
  OBVIOUS
<1>1. SetupTypes /\ PhaseInv /\ TaskInv /\ Holders /\ FollowInv /\ OffsetsInv /\ Owned /\ Blocked
  BY AccountedMeans DEF SetupInv
<1>2. CASE ClientNext
  <2>1. SetupTypes'
    BY <1>1, <1>2, CallTypes, LeavingTypes, SetUpTypes DEF ClientNext
  <2>2. PhaseInv'
    BY <1>1, <1>2, CallsKeepPhase, LeavingKeepsPhase, DroppingKeepsPhase, PrimaryKeepsPhase,
       MemberKeepsPhase DEF ClientNext
  <2>3. TaskInv' /\ Holders'
    <3>1. CASE (\E n \in Sizes : Connect(n)) \/ Disconnect \/ PairNext \/ Return \/ Play \/ TakeOffset
      <4>1. UNCHANGED <<conn, task>>
        BY <3>1 DEF Connect, Disconnect, PairNext, Return, Play, TakeOffset
      <4> QED BY <1>1, <4>1 DEF TaskInv, Holders, HoldsPorts, Fresh
    <3>2. CASE LeaveMembers \/ LeavePrimary \/ LeavingFails \/ NoClock \/ ConnectFails
      BY <1>1, <3>2, LeavingKeepsTasks
    <3>3. CASE Serve \/ SetUpServed \/ SetUpPrimary \/ Synced \/ PeersOfPrimary \/ SetUpMember
      BY <1>1, <3>3, SetUpKeepsTasks
    <3> QED BY <1>2, <3>1, <3>2, <3>3 DEF ClientNext
  <2>4. FollowInv' /\ OffsetsInv'
    BY <1>1, <1>2, <2>1, ClientKeepsFollowing
  <2>5. Owned' /\ Blocked'
    BY <1>1, <1>2, ClientKeepsAccount
  <2>6. TasksAreAccounted'
    BY <2>1, <2>2, <2>5, AccountedMeans, PTL
  <2> QED BY <2>1, <2>2, <2>3, <2>4, <2>6 DEF SetupInv
<1>3. CASE TaskNext
  <2>1. PICK c \in Conns : TaskSteps(c)
    BY <1>3 DEF TaskNext, TaskSteps
  <2>2. SetupTypes' /\ TasksMove
    BY <1>1, <2>1, TaskTypes
  <2>3. PhaseInv'
    BY <1>1, <2>2, TasksKeepPhase
  <2>4. TaskInv' /\ Holders'
    BY <1>1, <2>1, TasksKeepTasks
  <2>5. FollowInv' /\ OffsetsInv'
    BY <1>1, <2>1, <2>2, TasksKeepFollowing
  <2>6. Owned' /\ Blocked'
    BY <1>1, <2>1, <2>2, TasksKeepAccount
  <2>7. TasksAreAccounted'
    BY <2>2, <2>3, <2>6, AccountedMeans, PTL
  <2> QED BY <2>2, <2>3, <2>4, <2>5, <2>7 DEF SetupInv
<1>4. CASE UNCHANGED vars
  <2>1. UNCHANGED <<pc, size, protocol, calls, made, held, building, conn, task, seen, stream, abandoned>>
    BY <1>4 DEF vars
  <2>2. SetupTypes'
    BY <1>1, <2>1 DEF SetupTypes
  <2>3. PhaseInv'
    BY <1>1, <2>1 DEF PhaseInv, CallInv, MembersInv, PrimaryInv, HeldInv, Made, Primary, Fresh, Settled, Joined
  <2>4. TaskInv' /\ Holders' /\ FollowInv' /\ OffsetsInv'
    BY <1>1, <2>1 DEF TaskInv, Holders, HoldsPorts, Fresh, FollowInv, OffsetsInv
  <2>5. TasksAreAccounted'
    BY <2>1 DEF SetupInv, TasksAreAccounted, Alive
  <2> QED BY <2>2, <2>3, <2>4, <2>5 DEF SetupInv
<1> QED BY <1>2, <1>3, <1>4 DEF Next

LEMMA SenderSteps ==
  ASSUME [SenderNext]_allVars
  PROVE  [Next]_vars /\ [R!RaopNext]_raopOnly /\ UNCHANGED path
<1>1. CASE SenderNext
  BY <1>1 DEF SenderNext
<1>2. CASE UNCHANGED allVars
  BY <1>2 DEF allVars
<1> QED BY <1>1, <1>2

SenderInv == SetupInv /\ RaopInv /\ path \in {"AirPlay2", "Raop"}

LEMMA SenderKeeps == SenderSpec => []SenderInv
<1>1. SenderInit => SenderInv
  BY FirstSetup, FirstRaop DEF SenderInit, SenderInv
<1>2. SenderInv /\ [SenderNext]_allVars => SenderInv'
  BY SenderSteps, SetupStepKeeps, RaopStepKeeps DEF SenderInv
<1> QED BY <1>1, <1>2, PTL DEF SenderSpec

LEMMA FollowsPrimary == SetupInv => GroupFollowsPrimary
<1> SUFFICES ASSUME SetupInv PROVE GroupFollowsPrimary
  OBVIOUS
<1>1. SetupTypes /\ PhaseInv /\ OffsetsInv
  BY DEF SetupInv
<1>2. \A i \in 2 .. Len(held) :
        conn[held[i]].clock = conn[held[1]].clock /\ conn[held[1]].clock # "none"
  BY <1>1, HeldAreMade DEF PhaseInv, HeldInv, Joined, Settled
<1>3. \A c \in Conns :
        LET p == task[c].source IN
        /\ task[c].kind = "forward" /\ task[c].life = "following"
        /\ seen[c] \in {task[p].measured} \ {conn[c].from}
        => conn[c].offset = seen[c]
  BY <1>1 DEF OffsetsInv
<1>4. LET c == stream.conn IN
      stream.on /\ seen[c] \in {task[c].measured} \ {stream.from} => stream.offset = seen[c]
  BY <1>1 DEF OffsetsInv
<1> QED BY <1>2, <1>3, <1>4 DEF GroupFollowsPrimary

LEMMA SetupTypeFollows == SetupInv => SetupTypeOK
<1> SUFFICES ASSUME SetupInv PROVE SetupTypeOK
  OBVIOUS
<1>1. SetupTypes /\ PhaseInv /\ TaskInv /\ Holders
  BY DEF SetupInv
<1>2. IsInjective(held \o building) /\ Range(held \o building) \subseteq 1 .. made
  <2>1. \A s : Made(s) /\ s \in Seq(Nat) => IsInjective(s) /\ Range(s) \subseteq 1 .. made
    <3> SUFFICES ASSUME NEW s \in Seq(Nat), Made(s) PROVE IsInjective(s) /\ Range(s) \subseteq 1 .. made
      OBVIOUS
    <3>1. \A i, j \in 1 .. Len(s) : s[i] = s[j] => i = j
      <4>1. \A i \in 1 .. Len(s) : s[i] \in Nat
        OBVIOUS
      <4>2. \A i, j \in 1 .. Len(s) : i < j \/ j < i \/ i = j
        OBVIOUS
      <4> QED BY <4>1, <4>2 DEF Made
    <3>2. DOMAIN s = 1 .. Len(s)
      OBVIOUS
    <3>3. IsInjective(s)
      BY <3>1, <3>2 DEF IsInjective
    <3> QED BY <3>3, Elements DEF Made
  <2>2. held \o building \in {held, building}
    BY <1>1, ElementsOfBoth DEF PhaseInv, CallInv, SetupTypes
  <2> QED BY <1>1, <2>1, <2>2 DEF PhaseInv, CallInv, SetupTypes
<1>3. Cardinality({c \in Conns : HoldsPorts(c)}) <= 1
  <2> DEFINE H == {c \in Conns : HoldsPorts(c)}
  <2>1. CASE H = {}
    BY <2>1, FS_EmptySet
  <2>2. CASE H # {}
    <3>1. PICK c \in Conns : HoldsPorts(c)
      BY <2>2
    <3>2. H = {c}
      BY <1>1, <3>1 DEF Holders
    <3> QED BY <3>2, FS_Singleton
  <2> QED BY <2>1, <2>2
<1>4. ASSUME NEW c \in Conns
      PROVE  /\ conn[c].stage \in {"paired", "ready", "closed"}
             /\ conn[c].clock \in {"none", "silent", "known"}
             /\ conn[c].offset \in 0 .. MaxOffset /\ seen[c] \in 0 .. MaxOffset
             /\ task[c].life \in {"starting", "negotiating", "following", "woken", "aborted", "ended"}
             /\ task[c].blocker # None => ~task[c].ports
  <2>1. task[c] \in TaskRecord /\ conn[c] \in ConnRecord /\ seen[c] \in Offsets
    BY <1>1, RecordsOf
  <2>2. task[c].blocker # None => ~task[c].ports
    BY <1>1 DEF TaskInv
  <2> QED BY <2>1, <2>2 DEF TaskRecord, ConnRecord, Lives, Offsets
<1> QED BY <1>1, <1>2, <1>3, <1>4 DEF SetupTypeOK, SetupTypes

\* Types, and that two flows never hold the PTP ports at once, for any number of
\* receivers, calls and failures.
THEOREM SenderTypeCorrect == SenderSpec => []TypeOK
<1>1. SenderInv => TypeOK
  BY SetupTypeFollows DEF SenderInv, RaopInv, TypeOK
<1> QED BY <1>1, SenderKeeps, PTL

\* Every timing task that runs on belongs to a connection the client has or one that was
\* dropped without disconnect(), and only such a one keeps a flow from its ports.
THEOREM TasksStayAccounted == SenderSpec => []TasksAreAccounted
<1>1. SenderInv => TasksAreAccounted
  BY DEF SenderInv, SetupInv
<1> QED BY <1>1, SenderKeeps, PTL

\* All members of a group follow the primary's clock, whatever is measured, sent on and
\* taken over in between.
THEOREM GroupStaysWithPrimary == SenderSpec => []GroupFollowsPrimary
<1>1. SenderInv => GroupFollowsPrimary
  BY FollowsPrimary DEF SenderInv
<1> QED BY <1>1, SenderKeeps, PTL

\* While an AirPlay 1 receiver plays, somebody answers the ports it was told of.
THEOREM RaopStaysServed == SenderSpec => []RaopIsServed
<1>1. SenderInv => RaopIsServed
  <2> SUFFICES ASSUME RaopInv PROVE R!RaopIsServed
    BY DEF SenderInv, RaopIsServed
  <2>0. starts \in 0 .. 1
    BY DEF RaopInv
  <2>1. starts <= 1
    BY <2>0
  <2>2. strm \in {"running", "paused"} => Answered
    BY DEF RaopInv
  <2> QED BY <2>1, <2>2 DEF Answered, R!RaopIsServed
<1> QED BY <1>1, SenderKeeps, PTL
=============================================================================
