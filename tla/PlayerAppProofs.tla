------------------------- MODULE PlayerAppProofs -------------------------
(***************************************************************************)
(* What holds of the terminal player, for any devices and however many     *)
(* keys are pressed: the group's streamer feeds the devices connected, the *)
(* news in the queue tell the player the truth in the end, and what it     *)
(* shows as connecting will be ended.                                      *)
(***************************************************************************)
EXTENDS PlayerApp, FiniteSetTheorems, TLAPS

-----------------------------------------------------------------------------
(* The queue of actions: what it says of the device, and how many of them    *)
(* may spawn a task.                                                         *)

What == Device \cup {NoDevice, NoState} \cup Playback
EventNames ==
  Keys \cup {"DevicesScanned", "NothingScanned", "Connected", "Disconnected", "GroupChanged",
            "GroupConnected", "ShowError", "PlaybackStateChanged"}
ActionRecord ==
  {a \in [event : EventNames, what : What] :
     /\ a.event = "Connected" => a.what \in Device
     /\ a.event = "PlaybackStateChanged" => a.what \in Playback}

\* A connection was made or left.
IsNews(a) == a.event \in {"Connected", "Disconnected"}
Says(a) == IF a.event = "Connected" THEN a.what ELSE NoDevice

\* There is no such action; or the last one says that the device is d.
NoNews(q) == \A i \in DOMAIN q : ~IsNews(q[i])
LastSays(q, d) ==
  \A i \in DOMAIN q :
    IsNews(q[i]) /\ (\A j \in DOMAIN q : j > i => ~IsNews(q[j])) => Says(q[i]) = d

Spawns(a) == a.event \in {"Connect", "Play"}
Spawners(q) == {i \in DOMAIN q : Spawns(q[i])}

LEMMA Joining ==
  ASSUME NEW q \in Seq(ActionRecord), NEW e \in Seq(ActionRecord)
  PROVE  /\ q \o e \in Seq(ActionRecord)
         /\ Len(q) \in Nat /\ Len(e) \in Nat
         /\ DOMAIN q = 1 .. Len(q) /\ DOMAIN e = 1 .. Len(e)
         /\ DOMAIN (q \o e) = 1 .. Len(q) + Len(e)
         /\ \A i \in DOMAIN q : (q \o e)[i] = q[i]
         /\ \A i \in DOMAIN e : (q \o e)[i + Len(q)] = e[i]
  OBVIOUS

LEMMA JoinedNews ==
  ASSUME NEW q \in Seq(ActionRecord), NEW e \in Seq(ActionRecord)
  PROVE  /\ NoNews(q \o e) <=> NoNews(q) /\ NoNews(e)
         /\ \A c, d : LastSays(q, c) /\ LastSays(e, d) /\ (NoNews(e) => c = d) => LastSays(q \o e, d)
<1> DEFINE b == q \o e
<1>1. /\ Len(q) \in Nat /\ Len(e) \in Nat
      /\ DOMAIN q = 1 .. Len(q) /\ DOMAIN e = 1 .. Len(e) /\ DOMAIN b = 1 .. Len(q) + Len(e)
      /\ \A i \in DOMAIN q : b[i] = q[i]
      /\ \A i \in DOMAIN e : b[i + Len(q)] = e[i]
  BY Joining
<1> HIDE DEF b
<1>2. \A k \in DOMAIN b : k \in DOMAIN q \/ (k - Len(q) \in DOMAIN e /\ b[k] = e[k - Len(q)])
  BY <1>1
<1>3. \A i \in DOMAIN e : i + Len(q) \in DOMAIN b /\ b[i + Len(q)] = e[i]
  BY <1>1
<1>4. \A i \in DOMAIN q : i \in DOMAIN b /\ b[i] = q[i]
  BY <1>1
<1>5. NoNews(b) <=> NoNews(q) /\ NoNews(e)
  BY <1>2, <1>3, <1>4 DEF NoNews
<1>6. ASSUME NEW c, NEW d, LastSays(q, c), LastSays(e, d), NoNews(e) => c = d
      PROVE  LastSays(b, d)
  <2> SUFFICES ASSUME NEW i \in DOMAIN b, IsNews(b[i]), \A j \in DOMAIN b : j > i => ~IsNews(b[j])
               PROVE  Says(b[i]) = d
    BY DEF LastSays
  <2>1. CASE i \notin DOMAIN q
    <3>1. i - Len(q) \in DOMAIN e /\ b[i] = e[i - Len(q)]
      BY <2>1, <1>2
    <3>2. ASSUME NEW j \in DOMAIN e, j > i - Len(q) PROVE ~IsNews(e[j])
      <4>1. j + Len(q) > i /\ j + Len(q) \in DOMAIN b
        BY <3>2, <1>1, <1>3
      <4> QED BY <4>1, <1>3
    <3> QED BY <3>1, <3>2, <1>6 DEF LastSays
  <2>2. CASE i \in DOMAIN q
    <3>1. NoNews(e)
      <4> SUFFICES ASSUME NEW j \in DOMAIN e PROVE ~IsNews(e[j])
        BY DEF NoNews
      <4>1. j + Len(q) > i /\ j + Len(q) \in DOMAIN b
        BY <2>2, <1>1, <1>3
      <4> QED BY <4>1, <1>3
    <3>2. \A j \in DOMAIN q : j > i => ~IsNews(q[j])
      BY <1>4
    <3>3. Says(q[i]) = c
      BY <2>2, <1>4, <1>6, <3>2 DEF LastSays
    <3> QED BY <2>2, <1>4, <1>6, <3>1, <3>3
  <2> QED BY <2>1, <2>2
<1> QED BY <1>5, <1>6 DEF b

LEMMA Taking ==
  ASSUME NEW q \in Seq(ActionRecord), q # <<>>
  PROVE  /\ Tail(q) \in Seq(ActionRecord) /\ Head(q) \in ActionRecord
         /\ Len(q) \in Nat /\ 1 \in DOMAIN q /\ Head(q) = q[1]
         /\ DOMAIN q = 1 .. Len(q) /\ DOMAIN Tail(q) = 1 .. Len(q) - 1
         /\ \A i \in DOMAIN Tail(q) : i + 1 \in DOMAIN q /\ Tail(q)[i] = q[i + 1]
         /\ \A i \in DOMAIN q : i # 1 => i - 1 \in DOMAIN Tail(q) /\ Tail(q)[i - 1] = q[i]
  OBVIOUS

LEMMA TakenNews ==
  ASSUME NEW q \in Seq(ActionRecord), q # <<>>
  PROVE  /\ NoNews(Tail(q)) /\ ~IsNews(Head(q)) => NoNews(q)
         /\ \A d : LastSays(q, d) => LastSays(Tail(q), d)
         /\ \A d : LastSays(q, d) /\ NoNews(Tail(q)) /\ IsNews(Head(q)) => Says(Head(q)) = d
<1> DEFINE t == Tail(q)
<1>1. /\ Len(q) \in Nat /\ 1 \in DOMAIN q /\ Head(q) = q[1]
      /\ DOMAIN q = 1 .. Len(q) /\ DOMAIN t = 1 .. Len(q) - 1
      /\ \A i \in DOMAIN t : i + 1 \in DOMAIN q /\ t[i] = q[i + 1]
      /\ \A i \in DOMAIN q : i # 1 => i - 1 \in DOMAIN t /\ t[i - 1] = q[i]
  BY Taking
<1> HIDE DEF t
<1>2. ASSUME NoNews(t), ~IsNews(Head(q)) PROVE NoNews(q)
  BY <1>1, <1>2 DEF NoNews
<1>3. ASSUME NEW d, LastSays(q, d) PROVE LastSays(t, d)
  <2> SUFFICES ASSUME NEW i \in DOMAIN t, IsNews(t[i]), \A j \in DOMAIN t : j > i => ~IsNews(t[j])
               PROVE  Says(t[i]) = d
    BY DEF LastSays
  <2>1. ASSUME NEW j \in DOMAIN q, j > i + 1 PROVE ~IsNews(q[j])
    <3>1. j # 1 /\ j - 1 > i
      BY <2>1, <1>1
    <3> QED BY <3>1, <1>1
  <2> QED BY <2>1, <1>1, <1>3 DEF LastSays
<1>4. ASSUME NEW d, LastSays(q, d), NoNews(t), IsNews(Head(q)) PROVE Says(Head(q)) = d
  <2>1. ASSUME NEW j \in DOMAIN q, j > 1 PROVE ~IsNews(q[j])
    BY <2>1, <1>1, <1>4 DEF NoNews
  <2> QED BY <2>1, <1>1, <1>4 DEF LastSays
<1> QED BY <1>2, <1>3, <1>4 DEF t

LEMMA SpawnersAreFinite ==
  ASSUME NEW q \in Seq(ActionRecord)
  PROVE  IsFiniteSet(Spawners(q)) /\ Cardinality(Spawners(q)) \in Nat
<1>1. Len(q) \in Nat /\ DOMAIN q = 1 .. Len(q)
  OBVIOUS
<1>2. IsFiniteSet(1 .. Len(q))
  BY <1>1, FS_Interval
<1>3. Spawners(q) \subseteq 1 .. Len(q)
  BY <1>1 DEF Spawners
<1> QED BY <1>2, <1>3, FS_Subset, FS_CardinalityType

LEMMA JoinedSpawners ==
  ASSUME NEW q \in Seq(ActionRecord), NEW e \in Seq(ActionRecord), \A i \in DOMAIN e : ~Spawns(e[i])
  PROVE  Spawners(q \o e) = Spawners(q)
<1> DEFINE b == q \o e
<1>1. /\ Len(q) \in Nat /\ Len(e) \in Nat
      /\ DOMAIN q = 1 .. Len(q) /\ DOMAIN e = 1 .. Len(e) /\ DOMAIN b = 1 .. Len(q) + Len(e)
      /\ \A i \in DOMAIN q : b[i] = q[i]
      /\ \A i \in DOMAIN e : b[i + Len(q)] = e[i]
  BY Joining
<1> HIDE DEF b
<1>2. \A k \in DOMAIN b : k \in DOMAIN q \/ (k - Len(q) \in DOMAIN e /\ b[k] = e[k - Len(q)])
  BY <1>1
<1>3. Spawners(b) = Spawners(q)
  BY <1>1, <1>2 DEF Spawners
<1> QED BY <1>3 DEF b

LEMMA PressedSpawners ==
  ASSUME NEW q \in Seq(ActionRecord), NEW a \in ActionRecord
  PROVE  Cardinality(Spawners(Append(q, a))) <= Cardinality(Spawners(q)) + 1
<1>1. Spawners(Append(q, a)) \subseteq Spawners(q) \cup {Len(q) + 1}
  BY DEF Spawners
<1>2. IsFiniteSet(Spawners(q)) /\ Cardinality(Spawners(q)) \in Nat
  BY SpawnersAreFinite
<1>3. /\ IsFiniteSet(Spawners(q) \cup {Len(q) + 1})
      /\ Cardinality(Spawners(q) \cup {Len(q) + 1}) \in
           {Cardinality(Spawners(q)), Cardinality(Spawners(q)) + 1}
  BY <1>2, FS_AddElement
<1>4. /\ Cardinality(Spawners(Append(q, a))) \in Nat
      /\ Cardinality(Spawners(Append(q, a))) <= Cardinality(Spawners(q) \cup {Len(q) + 1})
  BY <1>1, <1>3, FS_Subset, FS_CardinalityType
<1> QED BY <1>2, <1>3, <1>4

\* Taking the first action leaves all the others that spawn.
LEMMA TakenSpawners ==
  ASSUME NEW q \in Seq(ActionRecord), q # <<>>
  PROVE  /\ Cardinality(Spawners(Tail(q))) <= Cardinality(Spawners(q))
         /\ Spawns(Head(q)) => Cardinality(Spawners(Tail(q))) + 1 <= Cardinality(Spawners(q))
<1> DEFINE t == Tail(q)
           rest == Spawners(q) \ {1}
           f == [i \in Spawners(t) |-> i + 1]
<1>1. /\ t \in Seq(ActionRecord) /\ Len(q) \in Nat /\ 1 \in DOMAIN q /\ Head(q) = q[1]
      /\ DOMAIN q = 1 .. Len(q) /\ DOMAIN t = 1 .. Len(q) - 1
      /\ \A i \in DOMAIN t : i + 1 \in DOMAIN q /\ t[i] = q[i + 1]
  BY Taking
<1> HIDE DEF t
<1>2. IsFiniteSet(Spawners(q)) /\ Cardinality(Spawners(q)) \in Nat
  BY SpawnersAreFinite
<1>3. f \in Injection(Spawners(t), rest)
  <2>1. \A i \in Spawners(t) : i \in Nat /\ i + 1 \in Spawners(q) /\ i + 1 # 1
    BY <1>1 DEF Spawners
  <2>2. f \in [Spawners(t) -> rest]
    BY <2>1
  <2>3. \A i, j \in Spawners(t) : f[i] = f[j] => i = j
    BY <2>1
  <2> QED BY <2>2, <2>3 DEF Injection, IsInjective
<1>4. /\ IsFiniteSet(rest)
      /\ Cardinality(rest) = IF 1 \in Spawners(q) THEN Cardinality(Spawners(q)) - 1
                             ELSE Cardinality(Spawners(q))
  BY <1>2, FS_RemoveElement
<1> HIDE DEF f, rest
<1>5. Cardinality(Spawners(t)) <= Cardinality(rest)
  BY <1>3, <1>4, FS_Injection DEF ExistsInjection
<1>6. Cardinality(Spawners(t)) \in Nat
  BY <1>1, SpawnersAreFinite
<1>7. Spawns(Head(q)) => 1 \in Spawners(q)
  BY <1>1 DEF Spawners
<1> QED BY <1>2, <1>4, <1>5, <1>6, <1>7 DEF t

-----------------------------------------------------------------------------
(* What a call leaves of the client, and what its events say of it.          *)

\* The group's streamer feeds the devices that are connected.
Matches(c) == c.targets # {} => c.targets = {c.device} \cup c.members

ClientInv(c) == c \in Client /\ Matches(c)

\* The events e of a call that found the device before and leaves the device after.
Tell(e, before, after) ==
  /\ e \in Seq(ActionRecord) /\ \A i \in DOMAIN e : ~Spawns(e[i])
  /\ LastSays(e, after)
  /\ NoNews(e) => before = after

Sound(c, o) == ClientInv(o.client) /\ Tell(o.events, c.device, o.client.device)

LEMMA EventType ==
  ASSUME NEW name \in EventNames, NEW w \in What,
         name = "Connected" => w \in Device, name = "PlaybackStateChanged" => w \in Playback
  PROVE  /\ Event(name, w) \in ActionRecord
         /\ Event(name, w).event = name /\ Event(name, w).what = w
  BY DEF Event, ActionRecord

LEMMA WhatType ==
  /\ NoState \in What /\ NoDevice \in What
  /\ Device \subseteq What /\ Playback \subseteq What
  BY DEF What

LEMMA NothingTold ==
  ASSUME NEW d
  PROVE  Tell(<<>>, d, d)
  BY DEF Tell, LastSays, NoNews

LEMMA LeftTold ==
  ASSUME NEW c
  PROVE  Tell(<<Left>>, c, NoDevice)
<1>1. Left \in ActionRecord /\ Left.event = "Disconnected"
  <2>1. "Disconnected" \in EventNames /\ NoState \in What
    BY WhatType DEF EventNames
  <2> QED BY <2>1, EventType DEF Left
<1>2. <<Left>> \in Seq(ActionRecord) /\ DOMAIN <<Left>> = {1} /\ <<Left>>[1] = Left
  <2> HIDE DEF Left
  <2> QED BY <1>1
<1>3. IsNews(Left) /\ Says(Left) = NoDevice /\ ~Spawns(Left)
  BY <1>1 DEF IsNews, Says, Spawns
<1> QED BY <1>2, <1>3, Zenon DEF Tell, LastSays, NoNews

LEMMA JoinedTold ==
  ASSUME NEW c, NEW d \in Device, NEW e, NEW x, Tell(e, c, x)
  PROVE  Tell(Append(e, Joined(d)), c, d)
<1> DEFINE b == Append(e, Joined(d))
<1>1. Joined(d) \in ActionRecord /\ Joined(d).event = "Connected" /\ Joined(d).what = d
  <2>1. "Connected" \in EventNames /\ d \in What
    BY WhatType DEF EventNames
  <2> QED BY <2>1, EventType DEF Joined
<1>2. e \in Seq(ActionRecord) /\ \A i \in DOMAIN e : ~Spawns(e[i])
  BY DEF Tell
<1>3. /\ b \in Seq(ActionRecord)
      /\ Len(e) \in Nat /\ DOMAIN e = 1 .. Len(e) /\ DOMAIN b = 1 .. Len(e) + 1
      /\ b[Len(e) + 1] = Joined(d) /\ \A i \in DOMAIN e : b[i] = e[i]
  BY <1>1, <1>2
<1> HIDE DEF b
<1>4. IsNews(Joined(d)) /\ Says(Joined(d)) = d /\ ~Spawns(Joined(d))
  BY <1>1 DEF IsNews, Says, Spawns
<1>5. \A i \in DOMAIN b : i \in DOMAIN e \/ i = Len(e) + 1
  BY <1>3
<1>6. \A i \in DOMAIN b : ~Spawns(b[i])
  BY <1>2, <1>3, <1>4, <1>5
<1>7. LastSays(b, d)
  <2> SUFFICES ASSUME NEW i \in DOMAIN b, IsNews(b[i]), \A j \in DOMAIN b : j > i => ~IsNews(b[j])
               PROVE  Says(b[i]) = d
    BY DEF LastSays
  <2>1. Len(e) + 1 \in DOMAIN b /\ (i \in DOMAIN e => Len(e) + 1 > i)
    BY <1>3
  <2> QED BY <2>1, <1>3, <1>4, <1>5
<1>8. ~NoNews(b)
  BY <1>3, <1>4 DEF NoNews
<1>9. Tell(b, c, d)
  BY <1>3, <1>6, <1>7, <1>8 DEF Tell
<1> QED BY <1>9 DEF b

\* An event that says nothing of the device.
LEMMA AsideTold ==
  ASSUME NEW a \in ActionRecord, ~IsNews(a), ~Spawns(a), NEW e, NEW c, NEW d, Tell(e, c, d)
  PROVE  Tell(Append(e, a), c, d)
<1> DEFINE b == Append(e, a)
<1>1. e \in Seq(ActionRecord) /\ \A i \in DOMAIN e : ~Spawns(e[i])
  BY DEF Tell
<1>2. /\ b \in Seq(ActionRecord)
      /\ Len(e) \in Nat /\ DOMAIN e = 1 .. Len(e) /\ DOMAIN b = 1 .. Len(e) + 1
      /\ b[Len(e) + 1] = a /\ \A i \in DOMAIN e : b[i] = e[i]
  BY <1>1
<1> HIDE DEF b
<1>3. \A i \in DOMAIN b : i \in DOMAIN e \/ i = Len(e) + 1
  BY <1>2
<1>4. \A i \in DOMAIN e : i \in DOMAIN b
  BY <1>2
<1>5. \A i \in DOMAIN b : ~Spawns(b[i])
  BY <1>1, <1>2, <1>3
<1>6. LastSays(b, d)
  BY <1>2, <1>3, <1>4 DEF Tell, LastSays
<1>7. NoNews(b) => NoNews(e)
  BY <1>2, <1>4 DEF NoNews
<1>8. Tell(b, c, d)
  BY <1>2, <1>5, <1>6, <1>7 DEF Tell
<1> QED BY <1>8 DEF b

LEMMA Asides ==
  /\ \A p \in Playback : /\ PlaybackChanged(p) \in ActionRecord /\ ~IsNews(PlaybackChanged(p))
                         /\ ~Spawns(PlaybackChanged(p))
  /\ GroupChanged \in ActionRecord /\ ~IsNews(GroupChanged) /\ ~Spawns(GroupChanged)
  /\ \A name \in {"ShowError", "GroupConnected", "DevicesScanned", "NothingScanned"} :
       Action(name) \in ActionRecord /\ ~IsNews(Action(name)) /\ ~Spawns(Action(name))
<1>1. ASSUME NEW name \in EventNames, NEW w \in What, name \notin {"Connected", "Disconnected", "Connect", "Play"},
             name = "PlaybackStateChanged" => w \in Playback
      PROVE  Event(name, w) \in ActionRecord /\ ~IsNews(Event(name, w)) /\ ~Spawns(Event(name, w))
  <2>1. Event(name, w) \in ActionRecord /\ Event(name, w).event = name
    BY <1>1, EventType
  <2> QED BY <2>1, <1>1 DEF IsNews, Spawns
<1>2. \A name \in {"PlaybackStateChanged", "GroupChanged", "ShowError", "GroupConnected",
                 "DevicesScanned", "NothingScanned"} :
        name \in EventNames /\ name \notin {"Connected", "Disconnected", "Connect", "Play"}
  BY DEF EventNames
<1>3. \A name \in {"PlaybackStateChanged", "GroupChanged", "ShowError", "GroupConnected",
                 "DevicesScanned", "NothingScanned"} : \A w \in What :
        (name = "PlaybackStateChanged" => w \in Playback) =>
          Event(name, w) \in ActionRecord /\ ~IsNews(Event(name, w)) /\ ~Spawns(Event(name, w))
  BY <1>1, <1>2, Zenon
<1>4. \A p \in Playback : p \in What
  BY WhatType
<1>5. NoState \in What
  BY WhatType
<1>6. \A name \in {"GroupChanged", "ShowError", "GroupConnected", "DevicesScanned", "NothingScanned"} :
        name # "PlaybackStateChanged"
  OBVIOUS
<1> QED BY <1>3, <1>4, <1>5, <1>6, Zenon DEF PlaybackChanged, GroupChanged, Action

LEMMA PlaybackTold ==
  ASSUME NEW p \in Playback, NEW d
  PROVE  Tell(<<PlaybackChanged(p)>>, d, d)
<1>1. <<PlaybackChanged(p)>> = Append(<<>>, PlaybackChanged(p))
  OBVIOUS
<1>2. Tell(<<>>, d, d)
  BY NothingTold
<1>3. PlaybackChanged(p) \in ActionRecord /\ ~IsNews(PlaybackChanged(p)) /\ ~Spawns(PlaybackChanged(p))
  BY Asides
<1> QED BY <1>1, <1>2, <1>3, AsideTold

LEMMA GroupTold ==
  ASSUME NEW d
  PROVE  Tell(<<GroupChanged>>, d, d)
<1>1. <<GroupChanged>> = Append(<<>>, GroupChanged)
  OBVIOUS
<1>2. Tell(<<>>, d, d)
  BY NothingTold
<1> QED BY <1>1, <1>2, Asides, AsideTold

LEMMA LeaderTold ==
  ASSUME NEW leader \in Device, NEW d
  PROVE  Tell(<<Joined(leader), GroupChanged>>, d, leader)
<1>1. <<Joined(leader), GroupChanged>> = Append(Append(<<>>, Joined(leader)), GroupChanged)
  OBVIOUS
<1>2. Tell(Append(<<>>, Joined(leader)), d, leader)
  BY NothingTold, JoinedTold
<1> QED BY <1>1, <1>2, Asides, AsideTold

-----------------------------------------------------------------------------
LEMMA FailedSound ==
  ASSUME NEW c, NEW h, ClientInv(h), h.device = c.device
  PROVE  Sound(c, Failed(h))
<1>1. Failed(h).client = h /\ Failed(h).events = <<>>
  BY DEF Failed
<1> QED BY <1>1, NothingTold DEF Sound

LEMMA DoneSound ==
  ASSUME NEW c, NEW h, NEW e, ClientInv(h), Tell(e, c.device, h.device)
  PROVE  Sound(c, Done(h, e))
  BY DEF Sound, Done

LEMMA MayFailSound ==
  ASSUME NEW c, NEW h, ClientInv(h), h.device = c.device
  PROVE  \A o \in MayFail(h) : Sound(c, o)
  BY FailedSound DEF MayFail

LEMMA DisconnectedType ==
  ASSUME NEW g \in SUBSET Device
  PROVE  /\ ClientInv(Disconnected(g))
         /\ Disconnected(g).device = NoDevice /\ Disconnected(g).group = g
  BY DEF ClientInv, Client, Matches, Disconnected, Playback, NoState

LEMMA ConnectedType ==
  ASSUME NEW c \in Client, NEW d \in Device, NEW ptp \in BOOLEAN
  PROVE  /\ ClientInv(Connected(c, d, ptp)) /\ Connected(c, d, ptp).device = d
         /\ Connected(c, d, ptp).targets = {}
<1>1. c.group \in SUBSET Device
  BY DEF Client
<1>2. Disconnected(c.group) \in Client /\ Disconnected(c.group).targets = {}
  BY <1>1, DisconnectedType DEF ClientInv, Disconnected
<1>3. /\ Connected(c, d, ptp) \in Client /\ Connected(c, d, ptp).device = d
      /\ Connected(c, d, ptp).targets = {}
  <2> HIDE DEF Disconnected
  <2> QED BY <1>2 DEF Connected, Client
<1> QED BY <1>3 DEF ClientInv, Matches

LEMMA SilentType ==
  ASSUME NEW c, ClientInv(c)
  PROVE  ClientInv([c EXCEPT !.targets = {}]) /\ [c EXCEPT !.targets = {}].device = c.device
<1> DEFINE h == [c EXCEPT !.targets = {}]
<1>1. h \in Client /\ h.device = c.device /\ h.targets = {}
  BY DEF ClientInv, Client
<1>2. ClientInv(h) /\ h.device = c.device
  <2> HIDE DEF h
  <2> QED BY <1>1 DEF ClientInv, Matches
<1> QED BY <1>2

LEMMA HalfDisconnectedType ==
  ASSUME NEW c, ClientInv(c), NEW h \in HalfDisconnected(c)
  PROVE  ClientInv(h) /\ h.device = c.device
<1>1. PICK s \in {c.session, "TearingDown"} :
        h = [c EXCEPT !.own = IF @ = "none" THEN "none" ELSE "Stopped", !.session = s,
                      !.members = {}, !.targets = {}, !.playing = NoState]
  BY DEF HalfDisconnected
<1>2. c \in Client
  BY DEF ClientInv
<1>3. s \in {"Ready", "Playing", "Paused", "TearingDown"}
  BY <1>2 DEF Client
<1>4. h \in Client
  BY <1>1, <1>2, <1>3 DEF Client, NoState
<1>5. h.device = c.device /\ h.targets = {}
  BY <1>1, <1>2 DEF Client
<1> QED BY <1>4, <1>5 DEF ClientInv, Matches

LEMMA DisconnectsSound ==
  ASSUME NEW c, ClientInv(c), NEW o \in Disconnects(c)
  PROVE  Sound(c, o)
<1>1. c.group \in SUBSET Device
  BY DEF ClientInv, Client
<1>2. Sound(c, Done(Disconnected(c.group), <<Left>>))
  BY <1>1, DisconnectedType, LeftTold, DoneSound
<1>3. ASSUME NEW h \in HalfDisconnected(c), NEW p \in MayFail(h) PROVE Sound(c, p)
  BY HalfDisconnectedType, MayFailSound
<1> QED BY <1>2, <1>3 DEF Disconnects

LEMMA DisconnectDroppedSound ==
  ASSUME NEW c, ClientInv(c), NEW o \in DisconnectDropped(c)
  PROVE  Sound(c, o)
<1>1. PICK h : /\ o = Failed(h)
               /\ h = c \/ h = [c EXCEPT !.targets = {}] \/ h \in HalfDisconnected(c)
  BY DEF DisconnectDropped
<1>2. ClientInv(h) /\ h.device = c.device
  BY <1>1, SilentType, HalfDisconnectedType
<1> QED BY <1>1, <1>2, FailedSound

LEMMA ConnectsSound ==
  ASSUME NEW c, ClientInv(c), NEW d \in Device, NEW o \in Connects(c, d)
  PROVE  Sound(c, o)
<1> DEFINE cleared == IF IsConnected(c) THEN Disconnects(c) ELSE {Done(c, <<>>)}
<1>1. ASSUME NEW p \in cleared PROVE Sound(c, p)
  <2>1. Sound(c, Done(c, <<>>))
    BY NothingTold, DoneSound
  <2> QED BY <2>1, DisconnectsSound
<1>2. \/ o \in cleared
      \/ \E p \in cleared : o = Done(Connected(p.client, d, FALSE), Append(p.events, Joined(d)))
      \/ \E p \in cleared : o = [p EXCEPT !.ok = FALSE]
  BY DEF Connects
<1> HIDE DEF cleared
<1>3. CASE o \in cleared
  BY <1>1, <1>3
<1>4. ASSUME NEW p \in cleared, o = Done(Connected(p.client, d, FALSE), Append(p.events, Joined(d)))
      PROVE  Sound(c, o)
  <2>1. Sound(c, p)
    BY <1>1
  <2>2. p.client \in Client /\ Tell(p.events, c.device, p.client.device)
    BY <2>1 DEF Sound, ClientInv
  <2>3. Tell(Append(p.events, Joined(d)), c.device, d)
    BY <2>2, JoinedTold
  <2>4. ClientInv(Connected(p.client, d, FALSE)) /\ Connected(p.client, d, FALSE).device = d
    BY <2>2, ConnectedType
  <2> QED BY <1>4, <2>3, <2>4, DoneSound
<1>5. ASSUME NEW p \in cleared, o = [p EXCEPT !.ok = FALSE]
      PROVE  Sound(c, o)
  <2>1. o.client = p.client /\ o.events = p.events
    BY <1>5
  <2> QED BY <1>1, <2>1 DEF Sound
<1> QED BY <1>2, <1>3, <1>4, <1>5

LEMMA ConnectDroppedSound ==
  ASSUME NEW c, ClientInv(c), NEW o \in ConnectDropped(c)
  PROVE  Sound(c, o)
  BY DisconnectDroppedSound, FailedSound DEF ConnectDropped

LEMMA GroupEndsSound ==
  ASSUME NEW c, ClientInv(c), NEW devices \in SUBSET Device, NEW leader \in devices,
         NEW o \in GroupEnds(c, devices, leader)
  PROVE  Sound(c, o)
<1> DEFINE h == [Connected(c, leader, TRUE) EXCEPT !.members = devices \ {leader}, !.group = devices]
<1>1. c \in Client /\ leader \in Device
  BY DEF ClientInv
<1>2. /\ Connected(c, leader, TRUE) \in Client /\ Connected(c, leader, TRUE).device = leader
      /\ Connected(c, leader, TRUE).targets = {}
  BY <1>1, ConnectedType DEF ClientInv
<1>3. h \in Client /\ h.device = leader /\ h.targets = {}
  BY <1>2 DEF Client
<1>4. o = Done(h, <<Joined(leader), GroupChanged>>) \/ o \in MayFail(c)
  BY DEF GroupEnds
<1> HIDE DEF h
<1>5. ClientInv(h)
  BY <1>3 DEF ClientInv, Matches
<1>6. Sound(c, Done(h, <<Joined(leader), GroupChanged>>))
  BY <1>1, <1>3, <1>5, LeaderTold, DoneSound
<1> QED BY <1>4, <1>6, MayFailSound

LEMMA PlaysFileSound ==
  ASSUME NEW c, ClientInv(c), NEW o \in PlaysFile(c)
  PROVE  Sound(c, o)
<1> DEFINE h == [c EXCEPT !.own = "Streaming", !.session = "Playing", !.reports = "Playing"]
<1>1. c \in Client
  BY DEF ClientInv
<1>2. h \in Client /\ h.device = c.device /\ h.targets = c.targets /\ h.members = c.members
  BY <1>1 DEF Client, Playback
<1>3. o = Done(h, <<PlaybackChanged("Playing")>>) \/ o \in MayFail(c) \/ o = Failed(c)
  BY DEF PlaysFile
<1> HIDE DEF h
<1>4. ClientInv(h)
  BY <1>2 DEF ClientInv, Matches
<1>5. Sound(c, Done(h, <<PlaybackChanged("Playing")>>))
  BY <1>2, <1>4, PlaybackTold, DoneSound DEF Playback
<1> QED BY <1>3, <1>5, MayFailSound, FailedSound

LEMMA PlayFileDroppedSound ==
  ASSUME NEW c, ClientInv(c), NEW o \in PlayFileDropped(c)
  PROVE  Sound(c, o)
<1> DEFINE h == [c EXCEPT !.session = "Playing"]
<1>1. c \in Client
  BY DEF ClientInv
<1>2. h \in Client /\ h.device = c.device /\ h.targets = c.targets /\ h.members = c.members
  BY <1>1 DEF Client
<1>3. o = Failed(h) \/ o = Failed(c)
  BY DEF PlayFileDropped
<1> HIDE DEF h
<1>4. ClientInv(h)
  BY <1>2 DEF ClientInv, Matches
<1> QED BY <1>2, <1>3, <1>4, FailedSound

LEMMA PlaysToGroupSound ==
  ASSUME NEW c, ClientInv(c), NEW o \in PlaysToGroup(c)
  PROVE  Sound(c, o)
<1> DEFINE h == [c EXCEPT !.targets = {c.device} \cup c.members, !.playing = "Playing"]
           silent == [c EXCEPT !.targets = {}]
<1>1. c \in Client
  BY DEF ClientInv
<1>2. ClientInv(silent) /\ silent.device = c.device
  BY SilentType
<1>3. (IsConnected(c) /\ o = Done(h, <<PlaybackChanged("Playing")>>)) \/ o \in MayFail(silent)
      \/ o = Failed(silent)
  BY DEF PlaysToGroup
<1>4. ASSUME IsConnected(c) PROVE ClientInv(h) /\ h.device = c.device
  <2>1. c.device \in Device /\ c.members \in SUBSET Device
    BY <1>1, <1>4 DEF Client, IsConnected
  <2>2. h \in Client /\ h.device = c.device /\ h.members = c.members /\ h.targets = {c.device} \cup c.members
    BY <1>1, <2>1 DEF Client, Playback
  <2> HIDE DEF h
  <2> QED BY <2>2 DEF ClientInv, Matches
<1> HIDE DEF h, silent
<1>5. IsConnected(c) => Sound(c, Done(h, <<PlaybackChanged("Playing")>>))
  BY <1>4, PlaybackTold, DoneSound DEF Playback
<1> QED BY <1>2, <1>3, <1>5, MayFailSound, FailedSound

LEMMA PlayToGroupDroppedSound ==
  ASSUME NEW c, ClientInv(c), NEW o \in PlayToGroupDropped(c)
  PROVE  Sound(c, o)
  BY SilentType, FailedSound DEF PlayToGroupDropped

LEMMA PausesSound ==
  ASSUME NEW c, ClientInv(c), NEW o \in Pauses(c)
  PROVE  Sound(c, o)
<1> DEFINE held == [c EXCEPT !.own = IF @ = "Streaming" THEN "Paused" ELSE @]
           h == [held EXCEPT !.session = "Paused", !.reports = "Paused",
                             !.playing = IF @ = NoState THEN NoState ELSE "Paused"]
<1>1. c \in Client
  BY DEF ClientInv
<1>2. held \in Client /\ held.device = c.device /\ held.targets = c.targets /\ held.members = c.members
  BY <1>1 DEF Client
<1>3. o = Failed(c) \/ o \in MayFail(held) \/ o = Failed(held) \/ o = Done(h, <<PlaybackChanged("Paused")>>)
  BY DEF Pauses
<1> HIDE DEF held
<1>4. h \in Client /\ h.device = held.device /\ h.targets = held.targets /\ h.members = held.members
  BY <1>2 DEF Client, Playback, NoState
<1> HIDE DEF h
<1>5. ClientInv(held) /\ ClientInv(h)
  BY <1>2, <1>4 DEF ClientInv, Matches
<1>6. Sound(c, Done(h, <<PlaybackChanged("Paused")>>))
  BY <1>2, <1>4, <1>5, PlaybackTold, DoneSound DEF Playback
<1> QED BY <1>2, <1>3, <1>5, <1>6, MayFailSound, FailedSound

LEMMA ResumesSound ==
  ASSUME NEW c, ClientInv(c), NEW o \in Resumes(c)
  PROVE  Sound(c, o)
<1> DEFINE going == [c EXCEPT !.own = IF @ = "Paused" THEN "Streaming" ELSE @]
           h == [going EXCEPT !.session = "Playing", !.reports = "Playing",
                              !.playing = IF @ = NoState THEN NoState ELSE "Playing"]
<1>1. c \in Client
  BY DEF ClientInv
<1>2. going \in Client /\ going.device = c.device /\ going.targets = c.targets /\ going.members = c.members
  BY <1>1 DEF Client
<1>3. o = Failed(c) \/ o \in MayFail(going) \/ o = Failed(going) \/ o = Done(h, <<PlaybackChanged("Playing")>>)
  BY DEF Resumes
<1> HIDE DEF going
<1>4. h \in Client /\ h.device = going.device /\ h.targets = going.targets /\ h.members = going.members
  BY <1>2 DEF Client, Playback, NoState
<1> HIDE DEF h
<1>5. ClientInv(going) /\ ClientInv(h)
  BY <1>2, <1>4 DEF ClientInv, Matches
<1>6. Sound(c, Done(h, <<PlaybackChanged("Playing")>>))
  BY <1>2, <1>4, <1>5, PlaybackTold, DoneSound DEF Playback
<1> QED BY <1>2, <1>3, <1>5, <1>6, MayFailSound, FailedSound

LEMMA StopsSound ==
  ASSUME NEW c, ClientInv(c), NEW o \in Stops(c)
  PROVE  Sound(c, o)
<1> DEFINE silent == [c EXCEPT !.targets = {}]
           h == [silent EXCEPT !.own = IF @ = "none" THEN "none" ELSE "Stopped",
                               !.reports = "Stopped", !.playing = NoState]
<1>1. ClientInv(silent) /\ silent.device = c.device
  BY SilentType
<1>2. o = Failed(silent) \/ o \in MayFail(silent) \/ o = Done(h, <<PlaybackChanged("Stopped")>>)
  BY DEF Stops
<1> HIDE DEF silent
<1>3. h \in Client /\ h.device = silent.device /\ h.targets = silent.targets /\ h.members = silent.members
  <2>1. silent \in Client
    BY <1>1 DEF ClientInv
  <2> QED BY <2>1 DEF Client, Playback, NoState
<1> HIDE DEF h
<1>4. ClientInv(h)
  BY <1>1, <1>3 DEF ClientInv, Matches
<1>5. Sound(c, Done(h, <<PlaybackChanged("Stopped")>>))
  BY <1>1, <1>3, <1>4, PlaybackTold, DoneSound DEF Playback
<1> QED BY <1>1, <1>2, <1>5, MayFailSound, FailedSound

LEMMA DisbandsSound ==
  ASSUME NEW c, ClientInv(c), NEW o \in Disbands(c)
  PROVE  Sound(c, o)
<1> DEFINE h == [c EXCEPT !.group = {}]
<1>1. h \in Client /\ h.device = c.device /\ h.targets = c.targets /\ h.members = c.members
  BY DEF ClientInv, Client
<1>2. o = Done(h, <<GroupChanged>>)
  BY DEF Disbands
<1> HIDE DEF h
<1>3. ClientInv(h)
  BY <1>1 DEF ClientInv, Matches
<1> QED BY <1>1, <1>2, <1>3, GroupTold, DoneSound

-----------------------------------------------------------------------------
(* The player.                                                               *)

TaskRecord ==
  [op : {"none", "group", "file", "toGroup"}, devices : SUBSET Device,
   at : {"none", "spawned", "locking", "connecting"}]

PlayerType ==
  /\ ClientInv(client)
  /\ actions \in Seq(ActionRecord)
  /\ tasks \in [Task -> TaskRecord]
  /\ step \in {"start", "file", "toGroup", "calling"}
  /\ listed \in SUBSET Device
  /\ keys \in Nat /\ connecting \in BOOLEAN

\* Each task there is, or may be yet, comes of a key of its own, so there is always a
\* number for it.
Busy == {t \in Task : tasks[t] # NoTask}
TasksSuffice == Cardinality(Busy) + Cardinality(Spawners(actions)) + keys <= MaxKeys

\* The last news in the queue is right; if there is none, so is what is shown, unless
\* the last news was ignored.
ShownFollows ==
  /\ LastSays(actions, client.device)
  /\ NoNews(actions) => shown = client.device \/ (ignored /\ client.device = NoDevice)

\* What is shown as connecting will be ended by an action in the queue or by the task.
Ends(a) == a.event \in {"Connected", "GroupConnected", "ShowError"}
HasEnd(q) == \E i \in DOMAIN q : Ends(q[i])
GroupTask == \E t \in Task : tasks[t].op = "group"
ConnectingEnds == connecting => GroupTask \/ HasEnd(actions)

PlayerInv == PlayerType /\ TasksSuffice /\ ShownFollows /\ ConnectingEnds

LEMMA JoinedEnds ==
  ASSUME NEW q \in Seq(ActionRecord), NEW e \in Seq(ActionRecord)
  PROVE  HasEnd(q) \/ HasEnd(e) => HasEnd(q \o e)
<1> DEFINE b == q \o e
<1>1. /\ Len(q) \in Nat /\ DOMAIN q = 1 .. Len(q) /\ DOMAIN e = 1 .. Len(e) /\ Len(e) \in Nat
      /\ DOMAIN b = 1 .. Len(q) + Len(e)
      /\ \A i \in DOMAIN q : b[i] = q[i]
      /\ \A i \in DOMAIN e : b[i + Len(q)] = e[i]
  BY Joining
<1> HIDE DEF b
<1>2. /\ \A i \in DOMAIN q : i \in DOMAIN b
      /\ \A i \in DOMAIN e : i + Len(q) \in DOMAIN b
  BY <1>1
<1>3. HasEnd(q) \/ HasEnd(e) => HasEnd(b)
  BY <1>1, <1>2 DEF HasEnd
<1> QED BY <1>3 DEF b

LEMMA TakenEnds ==
  ASSUME NEW q \in Seq(ActionRecord), q # <<>>, HasEnd(q), ~Ends(Head(q))
  PROVE  HasEnd(Tail(q))
<1> DEFINE t == Tail(q)
<1>1. /\ Head(q) = q[1]
      /\ \A i \in DOMAIN q : i # 1 => i - 1 \in DOMAIN t /\ t[i - 1] = q[i]
  BY Taking
<1> HIDE DEF t
<1>2. PICK i \in DOMAIN q : Ends(q[i])
  BY DEF HasEnd
<1>3. i # 1
  BY <1>1, <1>2
<1>4. HasEnd(t)
  BY <1>1, <1>2, <1>3 DEF HasEnd
<1> QED BY <1>4 DEF t

\* What a step does to the queue, apart from the head that was taken.
QueueFollows ==
  /\ actions' \in Seq(ActionRecord)
  /\ LastSays(actions', client'.device)
  /\ NoNews(actions') => NoNews(actions) /\ client'.device = client.device

LEMMA HandledStep ==
  ASSUME PlayerInv, actions # <<>>, ~IsNews(Head(actions)),
         NEW e, Tell(e, client.device, client'.device), Handled(e)
  PROVE  /\ QueueFollows
         /\ Cardinality(Spawners(actions')) \in Nat
         /\ Cardinality(Spawners(actions')) <= Cardinality(Spawners(actions))
         /\ Spawns(Head(actions)) =>
              Cardinality(Spawners(actions')) + 1 <= Cardinality(Spawners(actions))
         /\ HasEnd(e) \/ (HasEnd(actions) /\ ~Ends(Head(actions))) => HasEnd(actions')
<1> DEFINE t == Tail(actions)
<1>1. /\ actions \in Seq(ActionRecord) /\ LastSays(actions, client.device)
      /\ e \in Seq(ActionRecord) /\ LastSays(e, client'.device)
      /\ NoNews(e) => client.device = client'.device
      /\ \A i \in DOMAIN e : ~Spawns(e[i])
      /\ actions' = t \o e
  BY DEF PlayerInv, PlayerType, ShownFollows, Tell, Handled
<1>2. /\ t \in Seq(ActionRecord) /\ LastSays(t, client.device)
      /\ NoNews(t) => NoNews(actions)
  BY <1>1, Taking, TakenNews
<1>3. HasEnd(actions) /\ ~Ends(Head(actions)) => HasEnd(t)
  BY <1>1, TakenEnds
<1>4. /\ Cardinality(Spawners(t)) \in Nat
      /\ Cardinality(Spawners(t)) <= Cardinality(Spawners(actions))
      /\ Spawns(Head(actions)) => Cardinality(Spawners(t)) + 1 <= Cardinality(Spawners(actions))
  BY <1>1, <1>2, TakenSpawners, SpawnersAreFinite
<1> HIDE DEF t
<1>5. t \o e \in Seq(ActionRecord) /\ Spawners(t \o e) = Spawners(t)
  BY <1>1, <1>2, Joining, JoinedSpawners
<1>6. LastSays(t \o e, client'.device) /\ (NoNews(t \o e) <=> NoNews(t) /\ NoNews(e))
  BY <1>1, <1>2, JoinedNews
<1>7. HasEnd(t) \/ HasEnd(e) => HasEnd(t \o e)
  BY <1>1, <1>2, JoinedEnds
<1> QED BY <1>1, <1>2, <1>3, <1>4, <1>5, <1>6, <1>7 DEF QueueFollows

\* The list of what the tasks, or the scan, say besides their events.
Notes == {<<>>, <<Action("ShowError")>>, <<Action("GroupConnected")>>, <<Action("DevicesScanned")>>,
          <<Action("NothingScanned"), Action("ShowError")>>}

LEMMA NotesTold ==
  ASSUME NEW e \in Notes, NEW d
  PROVE  Tell(e, d, d)
<1>1. Tell(<<>>, d, d)
  BY NothingTold
<1>2. ASSUME NEW name \in {"ShowError", "GroupConnected", "DevicesScanned", "NothingScanned"}
      PROVE  /\ Tell(<<Action(name)>>, d, d)
             /\ Tell(<<Action(name), Action("ShowError")>>, d, d)
  <2>1. /\ Action(name) \in ActionRecord /\ ~IsNews(Action(name)) /\ ~Spawns(Action(name))
        /\ Action("ShowError") \in ActionRecord /\ ~IsNews(Action("ShowError"))
        /\ ~Spawns(Action("ShowError"))
    BY Asides
  <2>2. /\ <<Action(name)>> = Append(<<>>, Action(name))
        /\ <<Action(name), Action("ShowError")>> = Append(Append(<<>>, Action(name)), Action("ShowError"))
    OBVIOUS
  <2>3. Tell(Append(<<>>, Action(name)), d, d)
    BY <1>1, <2>1, AsideTold
  <2>4. Tell(Append(Append(<<>>, Action(name)), Action("ShowError")), d, d)
    BY <2>1, <2>3, AsideTold
  <2> QED BY <2>2, <2>3, <2>4
<1> QED BY <1>1, <1>2 DEF Notes

LEMMA AddedStep ==
  ASSUME PlayerInv, NEW e, Tell(e, client.device, client'.device), NEW notes \in Notes,
         actions' = actions \o e \o notes
  PROVE  /\ QueueFollows
         /\ Cardinality(Spawners(actions')) \in Nat
         /\ Cardinality(Spawners(actions')) <= Cardinality(Spawners(actions))
         /\ HasEnd(actions) \/ HasEnd(notes) => HasEnd(actions')
<1>1. /\ actions \in Seq(ActionRecord) /\ LastSays(actions, client.device)
      /\ e \in Seq(ActionRecord) /\ LastSays(e, client'.device)
      /\ NoNews(e) => client.device = client'.device
      /\ \A i \in DOMAIN e : ~Spawns(e[i])
  BY DEF PlayerInv, PlayerType, ShownFollows, Tell
<1>2. /\ notes \in Seq(ActionRecord) /\ LastSays(notes, client'.device)
      /\ \A i \in DOMAIN notes : ~Spawns(notes[i])
  BY NotesTold DEF Tell
<1> DEFINE b == actions \o e
<1>3. /\ b \in Seq(ActionRecord) /\ Spawners(b) = Spawners(actions)
      /\ LastSays(b, client'.device) /\ (NoNews(b) <=> NoNews(actions) /\ NoNews(e))
      /\ HasEnd(actions) => HasEnd(b)
  BY <1>1, Joining, JoinedSpawners, JoinedNews, JoinedEnds
<1>4. actions' = b \o notes
  OBVIOUS
<1> HIDE DEF b
<1>5. /\ b \o notes \in Seq(ActionRecord) /\ Spawners(b \o notes) = Spawners(b)
      /\ LastSays(b \o notes, client'.device) /\ (NoNews(b \o notes) <=> NoNews(b) /\ NoNews(notes))
      /\ HasEnd(b) \/ HasEnd(notes) => HasEnd(b \o notes)
  BY <1>2, <1>3, Joining, JoinedSpawners, JoinedNews, JoinedEnds
<1>6. Cardinality(Spawners(actions)) \in Nat
  BY <1>1, SpawnersAreFinite
<1> QED BY <1>1, <1>3, <1>4, <1>5, <1>6 DEF QueueFollows

-----------------------------------------------------------------------------
LEMMA BusyIsFinite ==
  /\ IsFiniteSet(Busy) /\ Cardinality(Busy) \in Nat
  /\ \A S \in SUBSET Task : IsFiniteSet(S) /\ Cardinality(S) \in Nat
<1>1. IsFiniteSet(Task)
  BY PlayerAssumption, FS_Interval DEF Task
<1>2. \A S \in SUBSET Task : IsFiniteSet(S) /\ Cardinality(S) \in Nat
  BY <1>1, FS_Subset, FS_CardinalityType
<1>3. Busy \in SUBSET Task
  BY DEF Busy
<1> QED BY <1>2, <1>3

\* No more tasks, no more actions that spawn, no more keys.
LEMMA StillSuffice ==
  ASSUME PlayerInv, Busy' \subseteq Busy, keys' = keys,
         Cardinality(Spawners(actions')) \in Nat,
         Cardinality(Spawners(actions')) <= Cardinality(Spawners(actions))
  PROVE  TasksSuffice'
<1>1. Cardinality(Busy') <= Cardinality(Busy) /\ Cardinality(Busy') \in Nat /\ Cardinality(Busy) \in Nat
  BY BusyIsFinite, FS_Subset, FS_CardinalityType
<1>2. /\ Cardinality(Spawners(actions)) \in Nat /\ keys \in Nat
      /\ Cardinality(Busy) + Cardinality(Spawners(actions)) + keys <= MaxKeys
  BY SpawnersAreFinite DEF PlayerInv, PlayerType, TasksSuffice
<1> QED BY <1>1, <1>2, PlayerAssumption DEF TasksSuffice

\* Nothing but the queue, and what the handler shows.
LEMMA HandledShown ==
  ASSUME PlayerInv, QueueFollows, UNCHANGED <<shown, ignored>>
  PROVE  ShownFollows'
  BY DEF QueueFollows, ShownFollows, PlayerInv

\* A spawned task gets a number that is free.
LEMMA Spawning ==
  ASSUME PlayerInv, actions # <<>>, Spawns(Head(actions)), Handled(<<>>), UNCHANGED <<client, keys>>,
         NEW op \in {"group", "file", "toGroup"}, NEW devices \in SUBSET Device, Spawn(op, devices)
  PROVE  /\ TasksSuffice'
         /\ \E t \in Task : tasks[t] = NoTask /\ tasks' = [tasks EXCEPT ![t] = Spawned(op, devices)]
<1> DEFINE t == CHOOSE i \in Task : tasks[i] = NoTask
<1>1. actions \in Seq(ActionRecord) /\ keys \in Nat /\ tasks \in [Task -> TaskRecord]
  BY DEF PlayerInv, PlayerType
<1>2. /\ Cardinality(Spawners(Tail(actions))) + 1 <= Cardinality(Spawners(actions))
      /\ Cardinality(Spawners(actions)) \in Nat /\ Cardinality(Spawners(Tail(actions))) \in Nat
  BY <1>1, Taking, TakenSpawners, SpawnersAreFinite
<1>3. actions' = Tail(actions)
  BY <1>1 DEF Handled
<1>4. Cardinality(Busy) + Cardinality(Spawners(actions)) + keys <= MaxKeys /\ Cardinality(Busy) \in Nat
  BY BusyIsFinite DEF PlayerInv, TasksSuffice
<1>5. Cardinality(Busy) < MaxKeys
  BY <1>1, <1>2, <1>4, PlayerAssumption
<1>6. \E i \in Task : tasks[i] = NoTask
  <2> SUFFICES ASSUME \A i \in Task : tasks[i] # NoTask PROVE FALSE
    OBVIOUS
  <2>1. Busy = 1 .. MaxKeys
    BY DEF Busy, Task
  <2>2. Cardinality(1 .. MaxKeys) = MaxKeys
    BY PlayerAssumption, FS_Interval
  <2> QED BY <1>5, <2>1, <2>2, PlayerAssumption
<1>7. t \in Task /\ tasks[t] = NoTask
  BY <1>6
<1>8. tasks' = [tasks EXCEPT ![t] = Spawned(op, devices)]
  BY DEF Spawn
<1> HIDE DEF t
<1>9. Busy' = Busy \cup {t}
  <2>1. Spawned(op, devices) # NoTask
    BY DEF Spawned, NoTask
  <2> QED BY <1>1, <1>7, <1>8, <2>1 DEF Busy
<1>10. Cardinality(Busy') \in {Cardinality(Busy), Cardinality(Busy) + 1}
  <2>1. IsFiniteSet(Busy)
    BY BusyIsFinite
  <2>2. Cardinality(Busy \cup {t}) = IF t \in Busy THEN Cardinality(Busy) ELSE Cardinality(Busy) + 1
    BY <2>1, FS_AddElement
  <2> QED BY <1>9, <2>2
<1>11. keys' = keys /\ MaxKeys \in Nat
  BY PlayerAssumption
<1>12. Cardinality(Busy') + Cardinality(Spawners(actions')) + keys' <= MaxKeys
  BY <1>1, <1>2, <1>3, <1>4, <1>10, <1>11
<1>13. TasksSuffice'
  BY <1>12 DEF TasksSuffice
<1>14. \E i \in Task : tasks[i] = NoTask /\ tasks' = [tasks EXCEPT ![i] = Spawned(op, devices)]
  BY <1>7, <1>8
<1> QED BY <1>13, <1>14

\* A task ends, and says so.
LEMMA Ending ==
  ASSUME PlayerInv, NEW t \in Task, NEW o, NEW notes \in Notes, Sound(client, o), End(t, o, notes),
         UNCHANGED <<step, state, keys, ignored>>,
         tasks[t].op = "group" => HasEnd(notes)
  PROVE  PlayerInv'
<1>1. /\ client' = o.client /\ actions' = actions \o o.events \o notes
      /\ tasks' = [tasks EXCEPT ![t] = NoTask]
  BY DEF End
<1>2. PlayerType
  BY DEF PlayerInv
<1>3. Tell(o.events, client.device, client'.device) /\ ClientInv(client')
  BY <1>1 DEF Sound
<1>4. /\ QueueFollows
      /\ Cardinality(Spawners(actions')) \in Nat
      /\ Cardinality(Spawners(actions')) <= Cardinality(Spawners(actions))
      /\ HasEnd(actions) \/ HasEnd(notes) => HasEnd(actions')
  BY <1>1, <1>3, AddedStep
<1>5. NoTask \in TaskRecord
  BY DEF NoTask, TaskRecord
<1>6. PlayerType'
  BY <1>1, <1>2, <1>3, <1>4, <1>5 DEF PlayerType, QueueFollows, state, lists
<1>7. Busy' \subseteq Busy
  BY <1>1, <1>2 DEF Busy, PlayerType
<1>8. TasksSuffice'
  BY <1>4, <1>7, StillSuffice
<1>9. ShownFollows'
  BY <1>4, HandledShown DEF state
<1>10. ConnectingEnds'
  <2> SUFFICES ASSUME connecting', ~HasEnd(actions') PROVE GroupTask'
    BY DEF ConnectingEnds
  <2>1. PICK s \in Task : tasks[s].op = "group"
    BY <1>4 DEF PlayerInv, ConnectingEnds, state, GroupTask
  <2>2. s # t
    BY <1>4, <2>1
  <2>3. tasks'[s].op = "group"
    BY <1>1, <1>2, <2>1, <2>2 DEF PlayerType
  <2> QED BY <2>3 DEF GroupTask
<1> QED BY <1>6, <1>8, <1>9, <1>10 DEF PlayerInv

\* A handler that ends no connecting and starts no task.
LEMMA Handling ==
  ASSUME PlayerInv, actions # <<>>, ~IsNews(Head(actions)), NEW e,
         Tell(e, client.device, client'.device), Handled(e), ClientInv(client'),
         UNCHANGED <<tasks, keys, shown, ignored>>, listed' \in SUBSET Device,
         connecting' \in BOOLEAN, connecting' => HasEnd(e) \/ (connecting /\ ~Ends(Head(actions)))
  PROVE  PlayerInv'
<1>1. /\ QueueFollows
      /\ Cardinality(Spawners(actions')) \in Nat
      /\ Cardinality(Spawners(actions')) <= Cardinality(Spawners(actions))
      /\ HasEnd(e) \/ (HasEnd(actions) /\ ~Ends(Head(actions))) => HasEnd(actions')
  BY HandledStep
<1>2. PlayerType'
  BY <1>1 DEF PlayerInv, PlayerType, QueueFollows, Handled
<1>3. Busy' = Busy
  BY DEF Busy
<1>4. TasksSuffice'
  BY <1>1, <1>3, StillSuffice
<1>5. ShownFollows'
  BY <1>1, HandledShown
<1>6. ConnectingEnds'
  BY <1>1 DEF PlayerInv, ConnectingEnds, GroupTask
<1> QED BY <1>2, <1>4, <1>5, <1>6 DEF PlayerInv

-----------------------------------------------------------------------------
(* The actions of the loop.                                                  *)

\* The queue only gets longer by what says nothing, or shorter by its head.
LEMMA TakenAside ==
  ASSUME PlayerInv, actions # <<>>, ~IsNews(Head(actions)), Handled(<<>>), UNCHANGED client
  PROVE  /\ QueueFollows
         /\ Cardinality(Spawners(actions')) \in Nat
         /\ Cardinality(Spawners(actions')) <= Cardinality(Spawners(actions))
         /\ HasEnd(actions) /\ ~Ends(Head(actions)) => HasEnd(actions')
<1>1. Tell(<<>>, client.device, client'.device)
  BY NothingTold
<1> QED BY <1>1, HandledStep

LEMMA PressKeyInv ==
  ASSUME PlayerInv, NEW name \in Keys, PressKey(name)
  PROVE  PlayerInv'
<1> DEFINE a == Action(name)
<1>1. /\ keys > 0 /\ keys' = keys - 1 /\ actions' = Append(actions, a)
      /\ UNCHANGED <<client, tasks, step, state, ignored>>
  BY DEF PressKey
<1>2. a \in ActionRecord /\ a.event = name
  <2>1. /\ name \in EventNames /\ NoState \in What
        /\ name # "Connected" /\ name # "PlaybackStateChanged"
    BY WhatType DEF EventNames, Keys
  <2> QED BY <2>1, EventType, Zenon DEF Action
<1>3. ~IsNews(a)
  BY <1>2 DEF IsNews, Keys
<1> HIDE DEF a
<1>4. PlayerType /\ actions \in Seq(ActionRecord) /\ keys \in Nat
  BY DEF PlayerInv, PlayerType
<1>5. <<a>> \in Seq(ActionRecord) /\ DOMAIN <<a>> = {1} /\ <<a>>[1] = a
  BY <1>2
<1>6. actions' = actions \o <<a>> /\ actions' \in Seq(ActionRecord)
  BY <1>1, <1>2, <1>4
<1>7. \A d : LastSays(<<a>>, d)
  BY <1>3, <1>5, Zenon DEF LastSays
<1>8. NoNews(<<a>>)
  BY <1>3, <1>5, Zenon DEF NoNews
<1>9. LastSays(actions', client'.device) /\ (NoNews(actions') => NoNews(actions))
  <2>1. LastSays(actions, client.device) /\ client' = client
    BY <1>1 DEF PlayerInv, ShownFollows
  <2>2. LastSays(actions \o <<a>>, client.device) /\ (NoNews(actions \o <<a>>) => NoNews(actions))
    BY <1>4, <1>5, <1>7, <2>1, JoinedNews
  <2> QED BY <1>6, <2>1, <2>2
<1>10. QueueFollows
  BY <1>1, <1>6, <1>9 DEF QueueFollows
<1>11. ShownFollows'
  BY <1>1, <1>10, HandledShown DEF state
<1>12. TasksSuffice'
  <2>1. /\ Cardinality(Spawners(actions')) <= Cardinality(Spawners(actions)) + 1
        /\ Cardinality(Spawners(actions)) \in Nat /\ Cardinality(Spawners(actions')) \in Nat
    BY <1>1, <1>2, <1>4, <1>6, PressedSpawners, SpawnersAreFinite
  <2>2. Busy' = Busy /\ Cardinality(Busy) \in Nat
    BY <1>1, BusyIsFinite DEF Busy
  <2>3. Cardinality(Busy) + Cardinality(Spawners(actions)) + keys <= MaxKeys
    BY DEF PlayerInv, TasksSuffice
  <2>4. Cardinality(Busy') + Cardinality(Spawners(actions')) + keys' <= MaxKeys
    BY <1>1, <1>4, <2>1, <2>2, <2>3, PlayerAssumption
  <2> QED BY <2>4 DEF TasksSuffice
<1>13. HasEnd(actions) => HasEnd(actions')
  BY <1>4, <1>5, <1>6, JoinedEnds
<1>14. ConnectingEnds'
  BY <1>1, <1>13 DEF PlayerInv, ConnectingEnds, GroupTask, state
<1>15. PlayerType'
  BY <1>1, <1>4, <1>6 DEF PlayerType, state, lists
<1> QED BY <1>11, <1>12, <1>14, <1>15 DEF PlayerInv

LEMMA ScanDevicesInv ==
  ASSUME PlayerInv, ScanDevices
  PROVE  PlayerInv'
<1>1. /\ actions # <<>> /\ ~IsNews(Head(actions)) /\ ~Ends(Head(actions))
      /\ UNCHANGED <<client, tasks, state, keys, ignored>>
  BY DEF ScanDevices, Comes, IsNews, Ends
<1>2. PICK e \in Notes : Handled(e)
  BY DEF ScanDevices, Notes
<1>3. Tell(e, client.device, client'.device)
  BY <1>1, NotesTold
<1>4. listed' \in SUBSET Device /\ connecting' \in BOOLEAN /\ ClientInv(client')
  BY <1>1 DEF PlayerInv, PlayerType, state, lists
<1>5. UNCHANGED <<tasks, keys, shown, ignored, connecting>>
  BY <1>1 DEF state
<1> QED BY <1>1, <1>2, <1>3, <1>4, <1>5, Handling

\* Handlers that call nothing.
LEMMA AsideInv ==
  ASSUME PlayerInv, actions # <<>>, ~IsNews(Head(actions)), Handled(<<>>),
         UNCHANGED <<client, tasks, keys, shown, ignored>>, listed' \in SUBSET Device,
         connecting' = FALSE \/ (connecting' = connecting /\ ~Ends(Head(actions)))
  PROVE  PlayerInv'
<1>1. Tell(<<>>, client.device, client'.device)
  BY NothingTold
<1>2. connecting' \in BOOLEAN /\ ClientInv(client')
  BY DEF PlayerInv, PlayerType
<1> QED BY <1>1, <1>2, Handling

LEMMA AsidesInv ==
  ASSUME PlayerInv,
         Quit \/ DevicesScanned \/ ConnectGivesUp \/ HandleGroupChanged \/ HandleShowError
           \/ Adjust \/ HandlePlaybackChanged
  PROVE  PlayerInv'
<1>1. actions # <<>> /\ ~IsNews(Head(actions)) /\ Handled(<<>>)
  BY DEF Quit, DevicesScanned, ConnectGivesUp, HandleGroupChanged, HandleShowError, Adjust,
         HandlePlaybackChanged, Comes, IsNews
<1>2. UNCHANGED <<client, tasks, keys, shown, ignored>>
  BY DEF Quit, DevicesScanned, ConnectGivesUp, HandleGroupChanged, HandleShowError, Adjust,
         HandlePlaybackChanged, state
<1>3. listed \in SUBSET Device
  BY DEF PlayerInv, PlayerType
<1>4. listed' \in SUBSET Device
  BY <1>3 DEF Quit, DevicesScanned, ConnectGivesUp, HandleGroupChanged, HandleShowError, Adjust,
         HandlePlaybackChanged, state, lists
<1>5. connecting' = FALSE \/ (connecting' = connecting /\ ~Ends(Head(actions)))
  BY DEF Quit, DevicesScanned, ConnectGivesUp, HandleGroupChanged, HandleShowError, Adjust,
         HandlePlaybackChanged, Comes, Ends, state
<1> QED BY <1>1, <1>2, <1>4, <1>5, AsideInv

\* A task is spawned: the group's is the one that ends the connecting.
LEMMA SpawnedInv ==
  ASSUME PlayerInv, actions # <<>>, Spawns(Head(actions)), Handled(<<>>),
         UNCHANGED <<client, keys, lists, shown, ignored>>,
         NEW op \in {"group", "file", "toGroup"}, NEW devices \in SUBSET Device, Spawn(op, devices),
         connecting' = connecting \/ (connecting' = TRUE /\ op = "group")
  PROVE  PlayerInv'
<1>1. ~IsNews(Head(actions)) /\ ~Ends(Head(actions))
  BY DEF IsNews, Ends, Spawns
<1>2. /\ QueueFollows
      /\ HasEnd(actions) => HasEnd(actions')
  BY <1>1, TakenAside
<1>3. /\ TasksSuffice'
      /\ \E t \in Task : tasks[t] = NoTask /\ tasks' = [tasks EXCEPT ![t] = Spawned(op, devices)]
  BY Spawning
<1>4. PICK t \in Task : tasks[t] = NoTask /\ tasks' = [tasks EXCEPT ![t] = Spawned(op, devices)]
  BY <1>3
<1>5. Spawned(op, devices) \in TaskRecord /\ Spawned(op, devices).op = op
  BY DEF Spawned, TaskRecord
<1>6. PlayerType /\ tasks \in [Task -> TaskRecord]
  BY DEF PlayerInv, PlayerType
<1>7. step' \in {"start", "file", "toGroup", "calling"}
  BY DEF Handled
<1>8. PlayerType'
  BY <1>2, <1>4, <1>5, <1>6, <1>7 DEF PlayerType, QueueFollows, lists
<1>9. ShownFollows'
  BY <1>2, HandledShown
<1>10. tasks'[t].op = op
  BY <1>4, <1>5, <1>6
<1>11. GroupTask => GroupTask'
  <2> SUFFICES ASSUME NEW s \in Task, tasks[s].op = "group" PROVE GroupTask'
    BY DEF GroupTask
  <2>1. s # t
    BY <1>4 DEF NoTask
  <2>2. tasks'[s].op = "group"
    BY <1>4, <1>6, <2>1
  <2> QED BY <2>2 DEF GroupTask
<1>12. ConnectingEnds'
  BY <1>2, <1>10, <1>11 DEF PlayerInv, ConnectingEnds, GroupTask
<1> QED BY <1>3, <1>8, <1>9, <1>12 DEF PlayerInv

LEMMA ConnectGroupInv ==
  ASSUME PlayerInv, ConnectGroup
  PROVE  PlayerInv'
<1>1. PICK selected \in SUBSET listed : Spawn("group", selected)
  BY DEF ConnectGroup
<1>2. selected \in SUBSET Device
  BY DEF PlayerInv, PlayerType
<1>3. /\ actions # <<>> /\ Spawns(Head(actions)) /\ Handled(<<>>) /\ connecting' = TRUE
      /\ UNCHANGED <<client, keys, lists, shown, ignored>>
  BY DEF ConnectGroup, Comes, Spawns
<1> QED BY <1>1, <1>2, <1>3, SpawnedInv

LEMMA PlayFileInv ==
  ASSUME PlayerInv, PlayFile
  PROVE  PlayerInv'
<1>1. /\ actions # <<>> /\ Spawns(Head(actions)) /\ ~IsNews(Head(actions)) /\ ~Ends(Head(actions))
      /\ Handled(<<>>) /\ UNCHANGED <<client, keys, lists, shown, ignored, connecting>>
  BY DEF PlayFile, Comes, Spawns, IsNews, Ends, state
<1>2. CASE Spawn(step, {})
  <2>1. step \in {"file", "toGroup"}
    BY DEF PlayFile
  <2> QED BY <1>1, <1>2, <2>1, SpawnedInv
<1>3. CASE UNCHANGED tasks
  <2>1. listed' \in SUBSET Device
    BY <1>1 DEF PlayerInv, PlayerType, lists
  <2> QED BY <1>1, <1>3, <2>1, AsideInv
<1> QED BY <1>2, <1>3 DEF PlayFile

\* A connection that is made says so.
LEMMA ConnectsEnd ==
  ASSUME NEW c, ClientInv(c), NEW d \in Device, NEW o \in Connects(c, d), o.ok
  PROVE  HasEnd(o.events)
<1> DEFINE cleared == IF IsConnected(c) THEN Disconnects(c) ELSE {Done(c, <<>>)}
<1>1. ASSUME NEW p \in cleared PROVE Sound(c, p)
  <2>1. Sound(c, Done(c, <<>>))
    BY NothingTold, DoneSound
  <2> QED BY <2>1, DisconnectsSound
<1>2. \/ \E p \in cleared : o = Done(Connected(p.client, d, FALSE), Append(p.events, Joined(d)))
      \/ \E p \in cleared : ~p.ok /\ o = p
      \/ \E p \in cleared : p \in {Done(c, <<>>)} \cup Disconnects(c) /\ o = [p EXCEPT !.ok = FALSE]
  BY DEF Connects
<1> HIDE DEF cleared
<1>3. ASSUME NEW p \in {Done(c, <<>>)} \cup Disconnects(c) PROVE [p EXCEPT !.ok = FALSE].ok = FALSE
  BY DEF Done, Failed, Disconnects, MayFail
<1>4. PICK p \in cleared : o = Done(Connected(p.client, d, FALSE), Append(p.events, Joined(d)))
  BY <1>2, <1>3
<1>5. p.events \in Seq(ActionRecord) /\ o.events = Append(p.events, Joined(d))
  BY <1>1, <1>4 DEF Sound, Tell, Done
<1>6. Joined(d).event = "Connected"
  BY DEF Joined, Event
<1>7. Len(p.events) + 1 \in DOMAIN o.events /\ o.events[Len(p.events) + 1] = Joined(d)
  <2> HIDE DEF Joined
  <2> QED BY <1>5
<1> QED BY <1>6, <1>7 DEF HasEnd, Ends

LEMMA ConnectsType ==
  ASSUME NEW c, NEW d, NEW o \in Connects(c, d)
  PROVE  o.ok \in BOOLEAN
<1> DEFINE before == {Done(c, <<>>)} \cup Disconnects(c)
<1>1. \A p \in before : p.ok \in BOOLEAN /\ [p EXCEPT !.ok = FALSE].ok = FALSE
  <2>1. \A h, e : Done(h, e).ok \in BOOLEAN /\ [Done(h, e) EXCEPT !.ok = FALSE].ok = FALSE
    BY DEF Done
  <2>2. \A h : Failed(h).ok \in BOOLEAN /\ [Failed(h) EXCEPT !.ok = FALSE].ok = FALSE
    BY DEF Failed
  <2>3. \A p \in before : (\E h, e : p = Done(h, e)) \/ (\E h : p = Failed(h))
    <3> HIDE DEF Done, Failed
    <3> QED BY DEF Disconnects, MayFail
  <2> QED BY <2>1, <2>2, <2>3, Zenon
<1>2. \/ o \in before
      \/ \E p \in before : o = Done(Connected(p.client, d, FALSE), Append(p.events, Joined(d)))
      \/ \E p \in before : o = [p EXCEPT !.ok = FALSE]
  BY DEF Connects
<1> HIDE DEF before
<1>3. \A h, e : Done(h, e).ok = TRUE
  BY DEF Done
<1> QED BY <1>1, <1>2, <1>3

LEMMA ConnectDroppedEnds ==
  ASSUME NEW c, NEW o \in ConnectDropped(c)
  PROVE  o.ok = FALSE
  BY DEF ConnectDropped, DisconnectDropped, Failed

LEMMA ConnectToSelectedInv ==
  ASSUME PlayerInv, ConnectToSelected
  PROVE  PlayerInv'
<1>1. /\ actions # <<>> /\ ~IsNews(Head(actions)) /\ ~Ends(Head(actions))
      /\ UNCHANGED <<tasks, keys, lists, shown, ignored>>
  BY DEF ConnectToSelected, Comes, IsNews, Ends
<1>2. listed' \in SUBSET Device /\ listed \in SUBSET Device /\ ClientInv(client)
  BY <1>1 DEF PlayerInv, PlayerType, lists
<1>3. CASE Handled(<<>>) /\ UNCHANGED <<client, connecting>>
  BY <1>1, <1>2, <1>3, AsideInv
<1>4. ASSUME NEW d \in listed, NEW o \in Connects(client, d) \cup ConnectDropped(client),
             client' = o.client, Handled(o.events), connecting' = o.ok
      PROVE  PlayerInv'
  <2>1. Sound(client, o)
    BY <1>2, ConnectsSound, ConnectDroppedSound
  <2>2. Tell(o.events, client.device, client'.device) /\ ClientInv(client')
    BY <1>4, <2>1 DEF Sound
  <2>3. connecting' \in BOOLEAN
    <3>1. o.ok \in BOOLEAN
      BY ConnectsType, ConnectDroppedEnds
    <3> QED BY <1>4, <3>1
  <2>4. connecting' => HasEnd(o.events)
    BY <1>2, <1>4, ConnectsEnd, ConnectDroppedEnds
  <2> QED BY <1>1, <1>2, <1>4, <2>2, <2>3, <2>4, Handling
<1>5. \/ Handled(<<>>) /\ UNCHANGED <<client, connecting>>
      \/ \E d \in listed : \E o \in Connects(client, d) \cup ConnectDropped(client) :
           client' = o.client /\ Handled(o.events) /\ connecting' = o.ok
  BY DEF ConnectToSelected
<1> QED BY <1>3, <1>4, <1>5

\* News of the device is taken from the queue.
LEMMA NewsInv ==
  ASSUME PlayerInv, actions # <<>>, IsNews(Head(actions)), Handled(<<>>),
         UNCHANGED <<client, tasks, keys, listed>>,
         Says(Head(actions)) = client.device =>
           shown' = client.device \/ (ignored' /\ client.device = NoDevice),
         connecting' = FALSE \/ (connecting' = connecting /\ ~Ends(Head(actions)))
  PROVE  PlayerInv'
<1> DEFINE t == Tail(actions)
<1>1. PlayerType /\ actions \in Seq(ActionRecord) /\ LastSays(actions, client.device)
  BY DEF PlayerInv, PlayerType, ShownFollows
<1>2. t \in Seq(ActionRecord)
  BY <1>1, Taking
<1>3. actions' = t
  BY <1>2 DEF Handled
<1>4. /\ LastSays(t, client.device)
      /\ NoNews(t) => Says(Head(actions)) = client.device
  BY <1>1, TakenNews
<1>5. /\ Cardinality(Spawners(t)) \in Nat
      /\ Cardinality(Spawners(t)) <= Cardinality(Spawners(actions))
  BY <1>1, <1>2, TakenSpawners, SpawnersAreFinite
<1>6. HasEnd(actions) /\ ~Ends(Head(actions)) => HasEnd(t)
  BY <1>1, TakenEnds
<1> HIDE DEF t
<1>7. PlayerType'
  BY <1>1, <1>2, <1>3 DEF PlayerType, Handled
<1>8. Busy' = Busy
  BY DEF Busy
<1>9. TasksSuffice'
  BY <1>3, <1>5, <1>8, StillSuffice
<1>10. ShownFollows'
  BY <1>3, <1>4 DEF ShownFollows
<1>11. ConnectingEnds'
  BY <1>3, <1>6 DEF PlayerInv, ConnectingEnds, GroupTask
<1> QED BY <1>7, <1>9, <1>10, <1>11 DEF PlayerInv

LEMMA HandleConnectedInv ==
  ASSUME PlayerInv, HandleConnected
  PROVE  PlayerInv'
<1>1. /\ actions # <<>> /\ IsNews(Head(actions)) /\ Says(Head(actions)) = shown'
      /\ Handled(<<>>) /\ connecting' = FALSE /\ UNCHANGED <<client, tasks, keys, listed>>
  BY DEF HandleConnected, Comes, IsNews, Says
<1> QED BY <1>1, NewsInv

LEMMA HandleDisconnectedInv ==
  ASSUME PlayerInv, HandleDisconnected
  PROVE  PlayerInv'
<1>1. /\ actions # <<>> /\ IsNews(Head(actions)) /\ Says(Head(actions)) = NoDevice
      /\ ~Ends(Head(actions))
      /\ Handled(<<>>) /\ UNCHANGED <<client, tasks, keys>>
  BY DEF HandleDisconnected, Comes, IsNews, Says, Ends
<1>2. UNCHANGED <<listed, connecting>>
  BY DEF HandleDisconnected, state, lists
<1>3. ignored' \/ shown' = NoDevice
  BY DEF HandleDisconnected
<1> QED BY <1>1, <1>2, <1>3, NewsInv

LEMMA HandleGroupConnectedInv ==
  ASSUME PlayerInv, HandleGroupConnected
  PROVE  PlayerInv'
<1>1. /\ actions # <<>> /\ ~IsNews(Head(actions)) /\ Handled(<<>>) /\ connecting' = FALSE
      /\ UNCHANGED <<client, tasks, listed, keys, ignored>>
      /\ shown' = IF IsConnected(client) THEN client.device ELSE shown
  BY DEF HandleGroupConnected, Comes, IsNews
<1>2. /\ QueueFollows
      /\ Cardinality(Spawners(actions')) \in Nat
      /\ Cardinality(Spawners(actions')) <= Cardinality(Spawners(actions))
  BY <1>1, TakenAside
<1>3. PlayerType'
  BY <1>1, <1>2 DEF PlayerInv, PlayerType, QueueFollows, Handled
<1>4. Busy' = Busy
  BY <1>1 DEF Busy
<1>5. TasksSuffice'
  BY <1>1, <1>2, <1>4, StillSuffice
<1>6. ShownFollows'
  BY <1>1, <1>2 DEF PlayerInv, ShownFollows, QueueFollows, IsConnected
<1>7. ConnectingEnds'
  BY <1>1 DEF ConnectingEnds
<1> QED BY <1>3, <1>5, <1>6, <1>7 DEF PlayerInv

LEMMA CallsInv ==
  ASSUME PlayerInv, NEW outcomes, \A o \in outcomes : Sound(client, o), Calls(outcomes),
         actions # <<>>, ~IsNews(Head(actions)), ~Ends(Head(actions)),
         UNCHANGED <<tasks, lists, shown, connecting, keys, ignored>>
  PROVE  PlayerInv'
<1>1. PICK o \in outcomes : client' = o.client /\ Handled(o.events)
  BY DEF Calls
<1>2. Tell(o.events, client.device, client'.device) /\ ClientInv(client')
  BY <1>1 DEF Sound
<1>3. listed' \in SUBSET Device /\ connecting' \in BOOLEAN
  BY DEF PlayerInv, PlayerType, lists
<1> QED BY <1>1, <1>2, <1>3, Handling

LEMMA PlayingInv ==
  ASSUME PlayerInv, TogglePlayback \/ Stop \/ DisbandGroup
  PROVE  PlayerInv'
<1>1. /\ actions # <<>> /\ ~IsNews(Head(actions)) /\ ~Ends(Head(actions))
      /\ UNCHANGED <<tasks, lists, shown, connecting, keys, ignored>>
  BY DEF TogglePlayback, Stop, DisbandGroup, Comes, IsNews, Ends, state
<1>2. ClientInv(client) /\ listed' \in SUBSET Device
  BY <1>1 DEF PlayerInv, PlayerType, lists
<1>3. /\ \A o \in Pauses(client) : Sound(client, o)
      /\ \A o \in Resumes(client) : Sound(client, o)
      /\ \A o \in Stops(client) : Sound(client, o)
      /\ \A o \in Disbands(client) : Sound(client, o)
  BY <1>2, PausesSound, ResumesSound, StopsSound, DisbandsSound
<1>4. CASE Handled(<<>>) /\ UNCHANGED client
  BY <1>1, <1>2, <1>4, AsideInv
<1>5. CASE Calls(Pauses(client))
  BY <1>1, <1>3, <1>5, CallsInv
<1>6. CASE Calls(Resumes(client))
  BY <1>1, <1>3, <1>6, CallsInv
<1>7. CASE Calls(Stops(client))
  BY <1>1, <1>3, <1>7, CallsInv
<1>8. CASE Calls(Disbands(client))
  BY <1>1, <1>3, <1>8, CallsInv
<1>9. \/ Handled(<<>>) /\ UNCHANGED client
      \/ Calls(Pauses(client)) \/ Calls(Resumes(client)) \/ Calls(Stops(client)) \/ Calls(Disbands(client))
  BY DEF TogglePlayback, Stop, DisbandGroup
<1> QED BY <1>4, <1>5, <1>6, <1>7, <1>8, <1>9

\* Steps that leave all of it alone: a look at the client, the line, the clock.
LEMMA LooksInv ==
  ASSUME PlayerInv, Wait \/ FindGroup \/ CallBegins \/ Tick
  PROVE  PlayerInv'
<1>1. /\ UNCHANGED <<client, tasks, actions, lists, shown, connecting, keys, ignored>>
      /\ step' \in {"start", "file", "toGroup", "calling"}
  BY DEF Wait, FindGroup, CallBegins, Tick, state, PlayerInv, PlayerType
<1>2. PlayerType'
  BY <1>1 DEF PlayerInv, PlayerType, lists
<1>3. TasksSuffice'
  BY <1>1 DEF PlayerInv, TasksSuffice, Busy
<1>4. ShownFollows'
  BY <1>1 DEF PlayerInv, ShownFollows
<1>5. ConnectingEnds'
  BY <1>1 DEF PlayerInv, ConnectingEnds, GroupTask
<1> QED BY <1>2, <1>3, <1>4, <1>5 DEF PlayerInv

-----------------------------------------------------------------------------
(* The steps of the tasks.                                                   *)

\* A task goes on: it still is what it was.
LEMMA GoesOn ==
  ASSUME PlayerInv, NEW t \in Task, NEW to \in {"locking", "connecting"},
         tasks[t].at \in {"spawned", "locking"}, tasks' = [tasks EXCEPT ![t].at = to]
  PROVE  /\ tasks' \in [Task -> TaskRecord]
         /\ Busy' \subseteq Busy
         /\ GroupTask => GroupTask'
<1>1. tasks \in [Task -> TaskRecord]
  BY DEF PlayerInv, PlayerType
<1>2. [tasks[t] EXCEPT !.at = to] \in TaskRecord /\ [tasks[t] EXCEPT !.at = to].op = tasks[t].op
  BY <1>1 DEF TaskRecord
<1>3. /\ tasks' \in [Task -> TaskRecord]
      /\ \A s \in Task : tasks'[s].op = tasks[s].op
      /\ \A s \in Task : s # t => tasks'[s] = tasks[s]
  BY <1>1, <1>2
<1>4. tasks[t] # NoTask
  BY DEF NoTask
<1> QED BY <1>3, <1>4 DEF Busy, GroupTask

LEMMA ArriveInv ==
  ASSUME PlayerInv, NEW t \in Task, Arrive(t)
  PROVE  PlayerInv'
<1>1. /\ UNCHANGED <<client, actions, step, lists, shown, connecting, keys, ignored>>
      /\ tasks[t].at = "spawned" /\ tasks' = [tasks EXCEPT ![t].at = "locking"]
  BY DEF Arrive, state
<1>2. tasks' \in [Task -> TaskRecord] /\ Busy' \subseteq Busy /\ (GroupTask => GroupTask')
  BY <1>1, GoesOn
<1>3. PlayerType'
  BY <1>1, <1>2 DEF PlayerInv, PlayerType, lists
<1>4. Cardinality(Spawners(actions')) \in Nat /\ actions' = actions
  BY <1>1, SpawnersAreFinite DEF PlayerInv, PlayerType
<1>5. Cardinality(Spawners(actions')) <= Cardinality(Spawners(actions))
  BY <1>4
<1>6. TasksSuffice'
  BY <1>1, <1>2, <1>4, <1>5, StillSuffice
<1>7. ShownFollows'
  BY <1>1 DEF PlayerInv, ShownFollows
<1>8. ConnectingEnds'
  BY <1>1, <1>2 DEF PlayerInv, ConnectingEnds
<1> QED BY <1>3, <1>6, <1>7, <1>8 DEF PlayerInv

\* What a task says when it fails, or when a group is connected, ends the connecting.
LEMMA EndNotes ==
  /\ <<>> \in Notes /\ <<Action("ShowError")>> \in Notes /\ <<Action("GroupConnected")>> \in Notes
  /\ HasEnd(<<Action("ShowError")>>) /\ HasEnd(<<Action("GroupConnected")>>)
<1>1. Action("ShowError").event = "ShowError" /\ Action("GroupConnected").event = "GroupConnected"
  BY DEF Action, Event
<1>2. \A a : 1 \in DOMAIN <<a>> /\ <<a>>[1] = a
  OBVIOUS
<1>3. Ends(Action("ShowError")) /\ Ends(Action("GroupConnected"))
  BY <1>1 DEF Ends
<1>4. HasEnd(<<Action("ShowError")>>) /\ HasEnd(<<Action("GroupConnected")>>)
  BY <1>2, <1>3, Zenon DEF HasEnd
<1> QED BY <1>4 DEF Notes

LEMMA BeginGroupInv ==
  ASSUME PlayerInv, NEW t \in Task, BeginGroup(t)
  PROVE  PlayerInv'
<1>1. /\ UNCHANGED <<step, state, keys, ignored>> /\ tasks[t].at = "locking"
      /\ ClientInv(client)
  BY DEF BeginGroup, Works, PlayerInv, PlayerType
<1>2. PICK o \in GroupBegins(client) :
        IF o.ok
        THEN /\ client' = o.client /\ actions' = actions \o o.events
             /\ tasks' = [tasks EXCEPT ![t].at = "connecting"]
        ELSE End(t, o, <<Action("ShowError")>>)
  BY DEF BeginGroup
<1>3. Sound(client, o)
  BY <1>1, DisconnectsSound DEF GroupBegins
<1>4. CASE End(t, o, <<Action("ShowError")>>)
  BY <1>1, <1>3, <1>4, EndNotes, Ending
<1>5. ASSUME client' = o.client, actions' = actions \o o.events,
             tasks' = [tasks EXCEPT ![t].at = "connecting"]
      PROVE  PlayerInv'
  <2>1. Tell(o.events, client.device, client'.device) /\ ClientInv(client')
    BY <1>3, <1>5 DEF Sound
  <2>2. <<>> \in Notes /\ actions' = actions \o o.events \o <<>>
    <3>1. o.events \in Seq(ActionRecord) /\ actions \in Seq(ActionRecord)
      BY <2>1 DEF Tell, PlayerInv, PlayerType
    <3> QED BY <1>5, <3>1, EndNotes
  <2>3. /\ QueueFollows
        /\ Cardinality(Spawners(actions')) \in Nat
        /\ Cardinality(Spawners(actions')) <= Cardinality(Spawners(actions))
        /\ HasEnd(actions) => HasEnd(actions')
    BY <2>1, <2>2, AddedStep
  <2>4. tasks' \in [Task -> TaskRecord] /\ Busy' \subseteq Busy /\ (GroupTask => GroupTask')
    BY <1>1, <1>5, GoesOn
  <2>5. PlayerType'
    BY <1>1, <2>1, <2>3, <2>4 DEF PlayerInv, PlayerType, QueueFollows, state, lists
  <2>6. TasksSuffice'
    BY <1>1, <2>3, <2>4, StillSuffice
  <2>7. ShownFollows'
    BY <1>1, <2>3, HandledShown DEF state
  <2>8. ConnectingEnds'
    BY <1>1, <2>3, <2>4 DEF PlayerInv, ConnectingEnds, state
  <2> QED BY <2>5, <2>6, <2>7, <2>8 DEF PlayerInv
<1> QED BY <1>2, <1>4, <1>5

LEMMA EndGroupInv ==
  ASSUME PlayerInv, NEW t \in Task, EndGroup(t)
  PROVE  PlayerInv'
<1>1. UNCHANGED <<step, state, keys, ignored>> /\ ClientInv(client)
  BY DEF EndGroup, PlayerInv, PlayerType
<1>2. tasks[t].devices \in SUBSET Device
  BY DEF PlayerInv, PlayerType, TaskRecord
<1>3. PICK leader \in tasks[t].devices : \E o \in GroupEnds(client, tasks[t].devices, leader) :
        End(t, o, <<Action(IF o.ok THEN "GroupConnected" ELSE "ShowError")>>)
  BY DEF EndGroup
<1>4. PICK o \in GroupEnds(client, tasks[t].devices, leader) :
        End(t, o, <<Action(IF o.ok THEN "GroupConnected" ELSE "ShowError")>>)
  BY <1>3
<1>5. Sound(client, o)
  BY <1>1, <1>2, GroupEndsSound
<1> DEFINE notes == <<Action(IF o.ok THEN "GroupConnected" ELSE "ShowError")>>
<1>6. notes \in Notes /\ HasEnd(notes)
  BY EndNotes
<1> HIDE DEF notes
<1>7. End(t, o, notes)
  BY <1>4 DEF notes
<1> QED BY <1>1, <1>5, <1>6, <1>7, Ending

LEMMA StartFileInv ==
  ASSUME PlayerInv, NEW t \in Task, StartFile(t)
  PROVE  PlayerInv'
<1>1. /\ UNCHANGED <<step, state, keys, ignored>> /\ ClientInv(client)
      /\ tasks[t].op # "group"
  BY DEF StartFile, Works, PlayerInv, PlayerType
<1>2. PICK o \in PlaysFile(client) \cup PlaysToGroup(client) :
        End(t, o, IF o.ok THEN <<>> ELSE <<Action("ShowError")>>)
  BY DEF StartFile
<1>3. Sound(client, o)
  BY <1>1, PlaysFileSound, PlaysToGroupSound
<1> DEFINE notes == IF o.ok THEN <<>> ELSE <<Action("ShowError")>>
<1>4. notes \in Notes
  BY EndNotes
<1> HIDE DEF notes
<1>5. End(t, o, notes)
  BY <1>2 DEF notes
<1> QED BY <1>1, <1>3, <1>4, <1>5, Ending

LEMMA TimeOutInv ==
  ASSUME PlayerInv, NEW t \in Task, TimeOut(t)
  PROVE  PlayerInv'
<1>1. UNCHANGED <<step, state, keys, ignored>> /\ ClientInv(client)
  BY DEF TimeOut, PlayerInv, PlayerType
<1>2. PICK o \in IF Holds(t) THEN Dropped(tasks[t]) ELSE {Failed(client)} :
        End(t, o, <<Action("ShowError")>>)
  BY DEF TimeOut
<1>3. o \in DisconnectDropped(client) \/ o \in PlayToGroupDropped(client) \/ o \in PlayFileDropped(client)
      \/ o = Failed(client)
  BY <1>2 DEF Dropped
<1>4. Sound(client, o)
  BY <1>1, <1>3, DisconnectDroppedSound, PlayToGroupDroppedSound, PlayFileDroppedSound,
     FailedSound
<1> QED BY <1>1, <1>2, <1>4, EndNotes, Ending

-----------------------------------------------------------------------------
(* The theorems.                                                             *)

LEMMA PlayerStarts ==
  ASSUME Init
  PROVE  PlayerInv
<1> DEFINE first == Action("ScanDevices")
<1>1. /\ client = Disconnected({}) /\ tasks = [t \in Task |-> NoTask] /\ actions = <<first>>
      /\ step = "start" /\ listed = {} /\ shown = NoDevice /\ connecting = FALSE /\ keys = MaxKeys
  BY DEF Init
<1>2. first \in ActionRecord /\ first.event = "ScanDevices"
  <2>1. "ScanDevices" \in EventNames /\ NoState \in What
    BY WhatType DEF EventNames, Keys
  <2> QED BY <2>1, EventType DEF Action
<1>3. ~IsNews(first) /\ ~Spawns(first)
  BY <1>2 DEF IsNews, Spawns
<1> HIDE DEF first
<1>4. actions \in Seq(ActionRecord) /\ DOMAIN actions = {1} /\ actions[1] = first
  BY <1>1, <1>2
<1>5. ClientInv(client) /\ client.device = NoDevice
  <2>1. {} \in SUBSET Device
    OBVIOUS
  <2> HIDE DEF Disconnected
  <2> QED BY <1>1, <2>1, DisconnectedType
<1>6. NoTask \in TaskRecord
  BY DEF NoTask, TaskRecord
<1>7. PlayerType
  BY <1>1, <1>4, <1>5, <1>6, PlayerAssumption DEF PlayerType
<1>8. TasksSuffice
  <2>1. Busy = {} /\ Spawners(actions) = {}
    BY <1>1, <1>3, <1>4 DEF Busy, Spawners
  <2>2. Cardinality({}) = 0
    BY FS_EmptySet
  <2> QED BY <1>1, <2>1, <2>2, PlayerAssumption DEF TasksSuffice
<1>9. ShownFollows
  BY <1>1, <1>3, <1>4, <1>5 DEF ShownFollows, LastSays
<1>10. ConnectingEnds
  BY <1>1 DEF ConnectingEnds
<1> QED BY <1>7, <1>8, <1>9, <1>10 DEF PlayerInv

LEMMA PlayerSteps ==
  ASSUME PlayerInv, [Next]_vars
  PROVE  PlayerInv'
<1>1. ASSUME NEW name \in Keys, PressKey(name) PROVE PlayerInv'
  BY <1>1, PressKeyInv
<1>2. CASE LoopNext
  <2>1. \/ Wait \/ FindGroup \/ CallBegins
        \/ ScanDevices
        \/ Quit \/ DevicesScanned \/ ConnectGivesUp \/ HandleGroupChanged \/ HandleShowError
        \/ Adjust \/ HandlePlaybackChanged
        \/ ConnectGroup \/ PlayFile \/ ConnectToSelected
        \/ HandleConnected \/ HandleDisconnected \/ HandleGroupConnected
        \/ TogglePlayback \/ Stop \/ DisbandGroup
    BY <1>2, Zenon DEF LoopNext
  <2>2. CASE Wait \/ FindGroup \/ CallBegins
    BY <2>2, LooksInv
  <2>3. CASE ScanDevices
    BY <2>3, ScanDevicesInv
  <2>4. CASE Quit \/ DevicesScanned \/ ConnectGivesUp \/ HandleGroupChanged \/ HandleShowError
             \/ Adjust \/ HandlePlaybackChanged
    BY <2>4, AsidesInv
  <2>5. CASE ConnectGroup \/ PlayFile \/ ConnectToSelected
    BY <2>5, ConnectGroupInv, PlayFileInv, ConnectToSelectedInv
  <2>6. CASE HandleConnected \/ HandleDisconnected \/ HandleGroupConnected
    BY <2>6, HandleConnectedInv, HandleDisconnectedInv, HandleGroupConnectedInv
  <2>7. CASE TogglePlayback \/ Stop \/ DisbandGroup
    BY <2>7, PlayingInv
  <2> QED BY <2>1, <2>2, <2>3, <2>4, <2>5, <2>6, <2>7
<1>3. CASE Tick
  BY <1>3, LooksInv
<1>4. ASSUME NEW t \in Task, TaskNext(t) \/ TimeOut(t) PROVE PlayerInv'
  BY <1>4, ArriveInv, BeginGroupInv, EndGroupInv, StartFileInv, TimeOutInv DEF TaskNext
<1>5. CASE UNCHANGED vars
  <2>1. UNCHANGED <<client, tasks, actions, step, lists, shown, connecting, keys, ignored>>
    BY <1>5 DEF vars, state
  <2>2. PlayerType'
    BY <2>1 DEF PlayerInv, PlayerType, lists
  <2>3. TasksSuffice'
    BY <2>1 DEF PlayerInv, TasksSuffice, Busy
  <2>4. ShownFollows'
    BY <2>1 DEF PlayerInv, ShownFollows
  <2>5. ConnectingEnds'
    BY <2>1 DEF PlayerInv, ConnectingEnds, GroupTask
  <2> QED BY <2>2, <2>3, <2>4, <2>5 DEF PlayerInv
<1> QED BY <1>1, <1>2, <1>3, <1>4, <1>5, Zenon DEF Next

\* The invariant holds in every reachable state, so there is a free number for every
\* task the player spawns, whatever keys are pressed.
THEOREM PlayerStaysSound == Spec => []PlayerInv
<1>1. Init => PlayerInv
  BY PlayerStarts
<1>2. PlayerInv /\ [Next]_vars => PlayerInv'
  BY PlayerSteps
<1> QED BY <1>1, <1>2, PTL DEF Spec

\* Through reconnects, failed or abandoned disconnects, and stops, the group's streamer
\* feeds the devices that are connected, all of them and no other.
THEOREM StreamsStayMatched == Spec => []StreamsMatchMembers
<1>1. PlayerInv => StreamsMatchMembers
  BY DEF PlayerInv, PlayerType, ClientInv, Matches, StreamsMatchMembers
<1> QED BY <1>1, PlayerStaysSound, PTL

\* When all is done the player shows the device the client is connected to, or one that
\* is gone whose Disconnected it ignored, and no connect as going on: the last news in
\* the queue is always right, and what is shown as connecting has a task or an action
\* to end it.
THEOREM ShownStaysTrue == Spec => []UiAgrees
<1>1. ASSUME PlayerInv, Quiet PROVE ~connecting /\ (shown = client.device \/ (ignored /\ client.device = NoDevice))
  <2>1. actions = <<>> /\ DOMAIN actions = {} /\ \A t \in Task : tasks[t] = NoTask
    BY <1>1 DEF Quiet
  <2>2. ~HasEnd(actions) /\ NoNews(actions)
    BY <2>1 DEF HasEnd, NoNews
  <2>3. ~GroupTask
    BY <2>1 DEF GroupTask, NoTask
  <2> QED BY <1>1, <2>2, <2>3 DEF PlayerInv, ShownFollows, ConnectingEnds
<1>2. PlayerInv => UiAgrees
  BY <1>1 DEF UiAgrees
<1> QED BY <1>2, PlayerStaysSound, PTL

-----------------------------------------------------------------------------
(* The lock's line: its first is the holder, and nobody stands in it twice.  *)

LEMMA Queuing ==
  ASSUME NEW S, NEW q \in Seq(S), NEW w \in S, IsInjective(q), ~Contains(q, w)
  PROVE  /\ Append(q, w) \in Seq(S) /\ IsInjective(Append(q, w))
         /\ \A v : Contains(Append(q, w), v) <=> (Contains(q, v) \/ v = w)
         /\ q # <<>> => Append(q, w) # <<>> /\ Head(Append(q, w)) = Head(q)
<1> DEFINE b == Append(q, w)
<1>1. /\ b \in Seq(S) /\ Len(q) \in Nat /\ Len(b) = Len(q) + 1
      /\ DOMAIN q = 1 .. Len(q) /\ DOMAIN b = 1 .. Len(q) + 1
      /\ b[Len(q) + 1] = w /\ \A i \in DOMAIN q : b[i] = q[i]
  OBVIOUS
<1>2. q # <<>> => b # <<>> /\ Head(b) = Head(q)
  OBVIOUS
<1> HIDE DEF b
<1>3. \A i \in DOMAIN b : i \in DOMAIN q \/ i = Len(q) + 1
  BY <1>1
<1>4. \A i \in DOMAIN q : q[i] # w
  BY <1>1 DEF Contains
<1>5. IsInjective(b)
  BY <1>1, <1>3, <1>4 DEF IsInjective
<1>6. \A v : Contains(b, v) <=> (Contains(q, v) \/ v = w)
  BY <1>1, <1>3 DEF Contains
<1> QED BY <1>1, <1>2, <1>5, <1>6 DEF b

LEMMA JoinedIs ==
  ASSUME NEW S, NEW s \in Seq(S), NEW t \in Seq(S)
  PROVE  /\ s \o t \in Seq(S) /\ Len(s \o t) = Len(s) + Len(t)
         /\ \A i \in 1 .. Len(s) : (s \o t)[i] = s[i]
         /\ \A i \in Len(s) + 1 .. Len(s) + Len(t) : (s \o t)[i] = t[i - Len(s)]
<1>1. s \o t \in Seq(S) /\ Len(s \o t) = Len(s) + Len(t)
  OBVIOUS
<1>2. ASSUME NEW i \in 1 .. Len(s) PROVE (s \o t)[i] = s[i]
  OBVIOUS
<1>3. ASSUME NEW i \in Len(s) + 1 .. Len(s) + Len(t) PROVE (s \o t)[i] = t[i - Len(s)]
  OBVIOUS
<1> QED BY <1>1, <1>2, <1>3

LEMMA Leaving ==
  ASSUME NEW S, NEW q \in Seq(S), IsInjective(q), NEW k \in DOMAIN q
  PROVE  /\ RemoveAt(q, k) \in Seq(S) /\ IsInjective(RemoveAt(q, k))
         /\ \A v : Contains(RemoveAt(q, k), v) <=> (Contains(q, v) /\ v # q[k])
         /\ k # 1 => RemoveAt(q, k) # <<>> /\ Head(RemoveAt(q, k)) = Head(q)
<1> DEFINE b == RemoveAt(q, k)
           before == SubSeq(q, 1, k - 1)
           after == SubSeq(q, k + 1, Len(q))
<1>1. Len(q) \in Nat /\ DOMAIN q = 1 .. Len(q) /\ k \in 1 .. Len(q)
  OBVIOUS
<1>2. /\ before \in Seq(S) /\ Len(before) = k - 1
      /\ \A i \in 1 .. k - 1 : before[i] = q[i]
  BY <1>1
<1>3. /\ after \in Seq(S) /\ Len(after) = Len(q) - k
      /\ \A i \in 1 .. Len(q) - k : after[i] = q[i + k]
  BY <1>1
<1>4. b = before \o after
  BY DEF RemoveAt
<1> HIDE DEF before, after, b
<1>5. /\ b \in Seq(S) /\ Len(b) = Len(q) - 1 /\ DOMAIN b = 1 .. Len(q) - 1
      /\ \A i \in 1 .. k - 1 : b[i] = q[i]
      /\ \A i \in k .. Len(q) - 1 : b[i] = q[i + 1]
  <2>0. /\ b \in Seq(S) /\ Len(b) = Len(before) + Len(after)
        /\ \A i \in 1 .. Len(before) : b[i] = before[i]
        /\ \A i \in Len(before) + 1 .. Len(before) + Len(after) : b[i] = after[i - Len(before)]
    BY <1>2, <1>3, <1>4, JoinedIs
  <2>1. /\ b \in Seq(S) /\ Len(b) = (k - 1) + (Len(q) - k)
        /\ \A i \in 1 .. k - 1 : b[i] = before[i]
        /\ \A i \in (k - 1) + 1 .. (k - 1) + (Len(q) - k) : b[i] = after[i - (k - 1)]
    BY <1>2, <1>3, <2>0
  <2>2. Len(b) = Len(q) - 1 /\ DOMAIN b = 1 .. Len(b)
    BY <1>1, <2>1
  <2>3. ASSUME NEW i \in k .. Len(q) - 1 PROVE b[i] = q[i + 1]
    <3>1. /\ i \in (k - 1) + 1 .. (k - 1) + (Len(q) - k)
          /\ i - (k - 1) \in 1 .. Len(q) - k /\ (i - (k - 1)) + k = i + 1
      BY <1>1
    <3>2. b[i] = after[i - (k - 1)]
      BY <2>1, <3>1
    <3>3. after[i - (k - 1)] = q[(i - (k - 1)) + k]
      BY <1>3, <3>1
    <3> QED BY <3>1, <3>2, <3>3
  <2> QED BY <1>2, <2>1, <2>2, <2>3
<1>6. IsInjective(b)
  <2> SUFFICES ASSUME NEW i \in DOMAIN b, NEW j \in DOMAIN b, b[i] = b[j] PROVE i = j
    BY DEF IsInjective
  <2> DEFINE from(n) == IF n < k THEN n ELSE n + 1
  <2>1. \A n \in DOMAIN b : n \in Nat /\ from(n) \in DOMAIN q /\ b[n] = q[from(n)]
    BY <1>1, <1>5
  <2>2. from(i) = from(j)
    BY <2>1 DEF IsInjective
  <2> QED BY <1>1, <2>1, <2>2
<1>7. ASSUME NEW v PROVE Contains(b, v) <=> (Contains(q, v) /\ v # q[k])
  <2>1. ASSUME Contains(b, v) PROVE Contains(q, v) /\ v # q[k]
    <3>1. PICK i \in 1 .. Len(q) - 1 : b[i] = v
      BY <2>1, <1>5 DEF Contains
    <3>2. PICK j \in 1 .. Len(q) : j # k /\ q[j] = v
      <4>1. CASE i < k
        BY <4>1, <3>1, <1>1, <1>5
      <4>2. CASE i >= k
        <5>1. i + 1 \in 1 .. Len(q) /\ i + 1 # k /\ q[i + 1] = v
          BY <4>2, <3>1, <1>1, <1>5
        <5> QED BY <5>1
      <4> QED BY <4>1, <4>2, <1>1
    <3> QED BY <3>2, <1>1 DEF IsInjective, Contains
  <2>2. ASSUME Contains(q, v), v # q[k] PROVE Contains(b, v)
    <3>1. PICK j \in 1 .. Len(q) : q[j] = v
      BY <2>2 DEF Contains
    <3>2. j # k
      BY <2>2, <3>1
    <3>3. \E i \in 1 .. Len(b) : b[i] = v
      <4>1. CASE j < k
        BY <4>1, <3>1, <1>1, <1>5
      <4>2. CASE j > k
        <5>1. j - 1 \in k .. Len(q) - 1 /\ (j - 1) + 1 = j
          BY <4>2, <1>1
        <5>2. b[j - 1] = v /\ j - 1 \in 1 .. Len(b)
          BY <5>1, <3>1, <1>1, <1>5
        <5> QED BY <5>2
      <4> QED BY <4>1, <4>2, <3>2, <1>1
    <3> QED BY <3>3 DEF Contains
  <2> QED BY <2>1, <2>2
<1>8. k # 1 => b # <<>> /\ Head(b) = Head(q)
  <2> SUFFICES ASSUME k # 1 PROVE b # <<>> /\ Head(b) = Head(q)
    OBVIOUS
  <2>1. Len(b) >= 1 /\ b[1] = q[1]
    BY <1>1, <1>5
  <2>2. Head(q) = q[1] /\ Head(b) = b[1]
    OBVIOUS
  <2>3. b # <<>>
    BY <2>1
  <2> QED BY <2>1, <2>2, <2>3
<1> QED BY <1>5, <1>6, <1>7, <1>8 DEF b

LEMMA GoingFirst ==
  ASSUME NEW S, NEW q \in Seq(S), IsInjective(q), q # <<>>
  PROVE  /\ Tail(q) \in Seq(S) /\ IsInjective(Tail(q))
         /\ \A v : Contains(Tail(q), v) <=> (Contains(q, v) /\ v # Head(q))
<1>1. 1 \in DOMAIN q /\ Head(q) = q[1]
  OBVIOUS
<1>2. RemoveAt(q, 1) = Tail(q)
  <2>1. SubSeq(q, 1, 0) = <<>> /\ SubSeq(q, 2, Len(q)) = Tail(q) /\ <<>> \o Tail(q) = Tail(q)
    OBVIOUS
  <2> QED BY <2>1 DEF RemoveAt
<1>3. /\ RemoveAt(q, 1) \in Seq(S) /\ IsInjective(RemoveAt(q, 1))
      /\ \A v : Contains(RemoveAt(q, 1), v) <=> (Contains(q, v) /\ v # q[1])
  BY <1>1, Leaving
<1> QED BY <1>1, <1>2, <1>3

\* Those who wait for the lock and the one who has it stand in line, and a task that is
\* connecting a group has it.
Waiting(task) == task.at \in {"locking", "connecting"}
LineInv ==
  /\ line \in Seq(Task \cup {Loop}) /\ IsInjective(line)
  /\ \A t \in Task : Contains(line, t) <=> Waiting(tasks[t])
  /\ \A t \in Task : tasks[t].at = "connecting" => Holds(t)

\* The step lets no task into the line nor out of it.
TasksStay ==
  \A t \in Task : tasks'[t].at = tasks[t].at \/ (tasks[t].at = "none" /\ tasks'[t].at = "spawned")

LEMMA LoopIsNoTask == \A t \in Task : t # Loop
  BY PlayerAssumption DEF Task, Loop

LEMMA LineUntouched ==
  ASSUME LineInv, TasksStay, line' = line
  PROVE  LineInv'
<1>1. \A t \in Task : Waiting(tasks'[t]) <=> Waiting(tasks[t])
  BY DEF TasksStay, Waiting
<1>2. \A t \in Task : tasks'[t].at = "connecting" => tasks[t].at = "connecting"
  BY DEF TasksStay
<1> QED BY <1>1, <1>2 DEF LineInv, Holds

\* The loop only comes to the lock when no task is connecting.
LEMMA LockIsFree ==
  ASSUME LineInv, CanLock
  PROVE  \A t \in Task : tasks[t].at # "connecting"
  BY LoopIsNoTask DEF LineInv, CanLock, Holds

LEMMA LoopUnlocks ==
  ASSUME LineInv, TasksStay, CanLock, Unlock
  PROVE  LineInv'
<1>1. CASE line = <<>>
  BY <1>1, LineUntouched DEF Unlock
<1>2. CASE line # <<>>
  <2>1. Head(line) = Loop /\ line' = Tail(line)
    BY <1>2 DEF CanLock, Holds, Unlock
  <2>2. /\ line' \in Seq(Task \cup {Loop}) /\ IsInjective(line')
        /\ \A v : Contains(line', v) <=> (Contains(line, v) /\ v # Loop)
    BY <1>2, <2>1, GoingFirst DEF LineInv
  <2>3. \A t \in Task : (Waiting(tasks'[t]) <=> Waiting(tasks[t])) /\ tasks'[t].at # "connecting"
    BY LockIsFree DEF TasksStay, Waiting
  <2>4. \A t \in Task : Contains(line', t) <=> Waiting(tasks'[t])
    BY <2>2, <2>3, LoopIsNoTask DEF LineInv
  <2> QED BY <2>2, <2>3, <2>4 DEF LineInv
<1> QED BY <1>1, <1>2

LEMMA LoopWaits ==
  ASSUME LineInv, Wait
  PROVE  LineInv'
<1>1. line # <<>> /\ ~Contains(line, Loop) /\ line' = Append(line, Loop) /\ tasks' = tasks
  BY DEF Wait
<1>2. line \in Seq(Task \cup {Loop}) /\ IsInjective(line) /\ Loop \in Task \cup {Loop}
  BY DEF LineInv
<1>3. /\ line' \in Seq(Task \cup {Loop}) /\ IsInjective(line')
      /\ \A v : Contains(line', v) <=> (Contains(line, v) \/ v = Loop)
      /\ line' # <<>> /\ Head(line') = Head(line)
  BY <1>1, <1>2, Queuing
<1>4. \A t \in Task : Contains(line', t) <=> Waiting(tasks'[t])
  BY <1>1, <1>3, LoopIsNoTask DEF LineInv
<1>5. \A t \in Task : tasks'[t].at = "connecting" => line' # <<>> /\ Head(line') = t
  BY <1>1, <1>3 DEF LineInv, Holds
<1> QED BY <1>3, <1>4, <1>5 DEF LineInv, Holds

LEMMA LoopGivesUp ==
  ASSUME LineInv, ConnectGivesUp
  PROVE  LineInv'
<1>1. PICK k \in DOMAIN line : line[k] = Loop /\ line' = RemoveAt(line, k)
  BY DEF ConnectGivesUp, Leave
<1>2. line \in Seq(Task \cup {Loop}) /\ IsInjective(line)
  BY DEF LineInv
<1>3. k # 1 /\ tasks' = tasks
  BY <1>1, <1>2 DEF ConnectGivesUp, Holds
<1>4. /\ line' \in Seq(Task \cup {Loop}) /\ IsInjective(line')
      /\ \A v : Contains(line', v) <=> (Contains(line, v) /\ v # Loop)
      /\ line' # <<>> /\ Head(line') = Head(line)
  BY <1>1, <1>2, <1>3, Leaving
<1>5. \A t \in Task : Contains(line', t) <=> Waiting(tasks'[t])
  BY <1>3, <1>4, LoopIsNoTask DEF LineInv
<1>6. \A t \in Task : tasks'[t].at = "connecting" => line' # <<>> /\ Head(line') = t
  BY <1>3, <1>4 DEF LineInv, Holds
<1> QED BY <1>4, <1>5, <1>6 DEF LineInv, Holds

\* A call of the loop begins with the lock, and ends with giving it back.
LEMMA LoopKeeps ==
  ASSUME LineInv, CallBegins
  PROVE  LineInv'
<1>1. CanLock /\ tasks' = tasks /\ line' = IF line = <<>> THEN <<Loop>> ELSE line
  BY DEF CallBegins
<1>2. CASE line # <<>>
  BY <1>1, <1>2, LineUntouched DEF TasksStay
<1>3. CASE line = <<>>
  <2>1. line' = Append(line, Loop) /\ line \in Seq(Task \cup {Loop}) /\ IsInjective(line)
        /\ Loop \in Task \cup {Loop} /\ ~Contains(line, Loop)
    BY <1>1, <1>3 DEF LineInv, Contains
  <2>2. /\ line' \in Seq(Task \cup {Loop}) /\ IsInjective(line')
        /\ \A v : Contains(line', v) <=> (Contains(line, v) \/ v = Loop)
    BY <2>1, Queuing
  <2>3. \A t \in Task : Contains(line', t) <=> Waiting(tasks'[t])
    BY <1>1, <2>2, LoopIsNoTask DEF LineInv
  <2>4. \A t \in Task : tasks'[t].at # "connecting"
    BY <1>1, LockIsFree
  <2> QED BY <2>2, <2>3, <2>4 DEF LineInv
<1> QED BY <1>2, <1>3

LEMMA LoopReturns ==
  ASSUME LineInv, TasksStay, InCall, Unlock
  PROVE  LineInv'
<1>1. CanLock
  BY DEF InCall, CanLock
<1> QED BY <1>1, LoopUnlocks

\* A task comes to the line, and the group's goes on at its head.
LEMMA TaskArrives ==
  ASSUME LineInv, PlayerType, NEW t \in Task, Arrive(t)
  PROVE  LineInv'
<1>1. /\ tasks[t].at = "spawned" /\ tasks' = [tasks EXCEPT ![t].at = "locking"]
      /\ line' = Append(line, t)
  BY DEF Arrive
<1>2. tasks \in [Task -> TaskRecord]
  BY DEF PlayerType
<1>3. tasks'[t].at = "locking" /\ \A s \in Task : s # t => tasks'[s] = tasks[s]
  BY <1>1, <1>2 DEF TaskRecord
<1>4. /\ line \in Seq(Task \cup {Loop}) /\ IsInjective(line) /\ t \in Task \cup {Loop}
      /\ ~Contains(line, t)
  BY <1>1 DEF LineInv, Waiting
<1>5. /\ line' \in Seq(Task \cup {Loop}) /\ IsInjective(line')
      /\ \A v : Contains(line', v) <=> (Contains(line, v) \/ v = t)
      /\ line # <<>> => line' # <<>> /\ Head(line') = Head(line)
  BY <1>1, <1>4, Queuing
<1>6. \A s \in Task : Contains(line', s) <=> Waiting(tasks'[s])
  BY <1>3, <1>5 DEF LineInv, Waiting
<1>7. \A s \in Task : tasks'[s].at = "connecting" => line' # <<>> /\ Head(line') = s
  BY <1>3, <1>5 DEF LineInv, Holds
<1> QED BY <1>5, <1>6, <1>7 DEF LineInv, Holds

LEMMA TaskEnds ==
  ASSUME LineInv, PlayerType, NEW t \in Task, NEW o, NEW news, End(t, o, news)
  PROVE  LineInv'
<1>1. tasks' = [tasks EXCEPT ![t] = NoTask] /\ \E k \in DOMAIN line : line[k] = t /\ line' = RemoveAt(line, k)
  BY DEF End, Leave
<1>2. PICK k \in DOMAIN line : line[k] = t /\ line' = RemoveAt(line, k)
  BY <1>1
<1>3. line \in Seq(Task \cup {Loop}) /\ IsInjective(line)
  BY DEF LineInv
<1>4. tasks'[t].at = "none" /\ \A s \in Task : s # t => tasks'[s] = tasks[s]
  BY <1>1 DEF PlayerType, NoTask
<1>5. /\ line' \in Seq(Task \cup {Loop}) /\ IsInjective(line')
      /\ \A v : Contains(line', v) <=> (Contains(line, v) /\ v # t)
      /\ k # 1 => line' # <<>> /\ Head(line') = Head(line)
  BY <1>2, <1>3, Leaving
<1>6. \A s \in Task : Contains(line', s) <=> Waiting(tasks'[s])
  BY <1>4, <1>5 DEF LineInv, Waiting
<1>7. ASSUME NEW s \in Task, tasks'[s].at = "connecting" PROVE line' # <<>> /\ Head(line') = s
  <2>1. s # t
    BY <1>4, <1>7
  <2>2. line # <<>> /\ Head(line) = s
    BY <1>4, <1>7, <2>1 DEF LineInv, Holds
  <2>3. k # 1
    BY <1>2, <1>3, <2>1, <2>2
  <2> QED BY <1>5, <2>2, <2>3
<1> QED BY <1>5, <1>6, <1>7 DEF LineInv, Holds

LEMMA GroupBeginsInLine ==
  ASSUME LineInv, PlayerType, NEW t \in Task, BeginGroup(t)
  PROVE  LineInv'
<1>1. CASE \E o \in GroupBegins(client) : End(t, o, <<Action("ShowError")>>)
  BY <1>1, TaskEnds
<1>2. CASE tasks' = [tasks EXCEPT ![t].at = "connecting"] /\ line' = line
  <2>1. tasks \in [Task -> TaskRecord] /\ Holds(t) /\ tasks[t].at = "locking"
    BY DEF PlayerType, BeginGroup, Works
  <2>2. tasks'[t].at = "connecting" /\ \A s \in Task : s # t => tasks'[s] = tasks[s]
    BY <1>2, <2>1 DEF TaskRecord
  <2>3. \A s \in Task : Waiting(tasks'[s]) <=> Waiting(tasks[s])
    BY <2>1, <2>2 DEF Waiting
  <2>4. \A s \in Task : tasks'[s].at = "connecting" => Holds(s)
    BY <2>1, <2>2 DEF LineInv
  <2> QED BY <1>2, <2>3, <2>4 DEF LineInv, Holds
<1> QED BY <1>1, <1>2 DEF BeginGroup

\* A task is spawned at a number that was free.
LEMMA SpawnedStays ==
  ASSUME PlayerInv, ConnectGroup \/ (PlayFile /\ tasks' # tasks)
  PROVE  TasksStay
<1>1. actions # <<>> /\ Spawns(Head(actions)) /\ Handled(<<>>) /\ UNCHANGED <<client, keys>>
  BY DEF ConnectGroup, PlayFile, Comes, Spawns
<1>2. PICK op \in {"group", "file", "toGroup"}, devices \in SUBSET Device : Spawn(op, devices)
  BY DEF ConnectGroup, PlayFile, PlayerInv, PlayerType
<1>3. PICK t \in Task : tasks[t] = NoTask /\ tasks' = [tasks EXCEPT ![t] = Spawned(op, devices)]
  BY <1>1, <1>2, Spawning
<1>4. tasks[t].at = "none" /\ tasks'[t].at = "spawned" /\ \A s \in Task : s # t => tasks'[s] = tasks[s]
  BY <1>3 DEF PlayerInv, PlayerType, NoTask, Spawned
<1> QED BY <1>4 DEF TasksStay

LEMMA LineSteps ==
  ASSUME PlayerInv, LineInv, [Next]_vars
  PROVE  LineInv'
<1>0. PlayerType /\ (tasks' = tasks => TasksStay)
  BY DEF PlayerInv, TasksStay
<1>1. ASSUME NEW name \in Keys, PressKey(name) PROVE LineInv'
  <2>1. UNCHANGED <<line, tasks>>
    BY <1>1 DEF PressKey
  <2> QED BY <1>0, <2>1, LineUntouched
<1>2. CASE Wait
  BY <1>2, LoopWaits
<1>3. CASE ConnectGivesUp
  BY <1>3, LoopGivesUp
<1>4. CASE ConnectGroup
  <2>1. line' = line
    BY <1>4 DEF ConnectGroup
  <2> QED BY <1>4, <2>1, SpawnedStays, LineUntouched
<1>5. CASE PlayFile
  <2>1. CanLock /\ Unlock
    BY <1>5 DEF PlayFile
  <2> QED BY <1>0, <1>5, <2>1, SpawnedStays, LoopUnlocks
<1>6. CASE \/ Quit \/ DevicesScanned \/ HandleConnected \/ HandleDisconnected \/ HandleShowError
           \/ HandlePlaybackChanged \/ Tick \/ UNCHANGED vars
  <2>1. UNCHANGED <<line, tasks>>
    BY <1>6 DEF Quit, DevicesScanned, HandleConnected, HandleDisconnected, HandleShowError,
                HandlePlaybackChanged, Tick, vars
  <2> QED BY <1>0, <2>1, LineUntouched
<1>7. CASE \/ ScanDevices \/ HandleGroupChanged \/ HandleGroupConnected \/ FindGroup
           \/ DisbandGroup
  <2>1. CanLock /\ Unlock /\ tasks' = tasks
    BY <1>7 DEF ScanDevices, HandleGroupChanged, HandleGroupConnected, FindGroup, DisbandGroup
  <2> QED BY <1>0, <2>1, LoopUnlocks
<1>8. CASE ConnectToSelected \/ TogglePlayback \/ Stop \/ Adjust
  <2>1. tasks' = tasks /\ (line' = line \/ (CanLock /\ Unlock) \/ (InCall /\ Unlock))
    BY <1>8 DEF ConnectToSelected, TogglePlayback, Stop, Adjust
  <2> QED BY <1>0, <2>1, LineUntouched, LoopUnlocks, LoopReturns
<1>10. CASE CallBegins
  BY <1>10, LoopKeeps
<1>9. ASSUME NEW t \in Task, TaskNext(t) \/ TimeOut(t) PROVE LineInv'
  <2>1. Arrive(t) \/ BeginGroup(t) \/ \E o, news : End(t, o, news)
    BY <1>9 DEF TaskNext, EndGroup, StartFile, TimeOut
  <2> QED BY <1>0, <2>1, TaskArrives, GroupBeginsInLine, TaskEnds
<1> QED BY <1>1, <1>2, <1>3, <1>4, <1>5, <1>6, <1>7, <1>8, <1>9, <1>10, Zenon DEF Next, LoopNext

-----------------------------------------------------------------------------
(* What is shown.                                                            *)

ShownType ==
  /\ quit \in BOOLEAN /\ marked \subseteq listed
  /\ shown \in Device \cup {NoDevice} /\ playback \in Playback /\ group \subseteq Device

LEMMA ShownSteps ==
  ASSUME PlayerInv, ShownType, [Next]_vars
  PROVE  ShownType'
<1>1. client \in Client /\ listed \subseteq Device /\ actions \in Seq(ActionRecord)
  BY DEF PlayerInv, PlayerType, ClientInv
<1>2. /\ client.device \in Device \cup {NoDevice} /\ client.group \subseteq Device
      /\ PlaybackState(client) \in Playback
  BY <1>1 DEF Client, PlaybackState
<1>3. CASE DevicesScanned
  BY <1>3 DEF DevicesScanned, ShownType
<1>4. CASE HandleConnected
  <2>1. Head(actions) \in ActionRecord /\ Head(actions).event = "Connected"
    BY <1>1, <1>4 DEF HandleConnected, Comes
  <2>2. shown' \in Device
    BY <1>4, <2>1 DEF HandleConnected, ActionRecord
  <2> QED BY <1>4, <2>2 DEF HandleConnected, ShownType
<1>5. CASE HandleDisconnected
  <2>1. CASE connecting
    BY <1>5, <2>1 DEF HandleDisconnected, ShownType, state, lists
  <2>2. CASE ~connecting
    BY <1>5, <2>2 DEF HandleDisconnected, ShownType, Playback
  <2> QED BY <2>1, <2>2
<1>6. CASE HandleGroupChanged
  BY <1>2, <1>6 DEF HandleGroupChanged, ShownType, lists
<1>7. CASE HandleGroupConnected
  BY <1>2, <1>7 DEF HandleGroupConnected, ShownType
<1>8. CASE HandlePlaybackChanged
  <2>1. Head(actions) \in ActionRecord /\ Head(actions).event = "PlaybackStateChanged"
    BY <1>1, <1>8 DEF HandlePlaybackChanged, Comes
  <2>2. playback' \in Playback
    BY <1>8, <2>1 DEF HandlePlaybackChanged, ActionRecord
  <2> QED BY <1>8, <2>2 DEF HandlePlaybackChanged, ShownType, lists
<1>9. CASE Tick
  BY <1>2, <1>9 DEF Tick, ShownType, lists
<1>10. CASE Quit
  BY <1>10 DEF Quit, ShownType, state, lists
<1>11. CASE DisbandGroup
  BY <1>11 DEF DisbandGroup, ShownType, lists
<1>12. CASE \/ Wait \/ ScanDevices \/ ConnectGroup \/ ConnectToSelected \/ ConnectGivesUp \/ HandleShowError
            \/ FindGroup \/ PlayFile \/ CallBegins \/ TogglePlayback \/ Stop \/ Adjust
            \/ (\E name \in Keys : PressKey(name)) \/ UNCHANGED vars
  <2>1. UNCHANGED <<quit, lists, shown, playback, group>>
    BY <1>12 DEF Wait, ScanDevices, ConnectGroup, ConnectToSelected, ConnectGivesUp, HandleShowError,
                 FindGroup, PlayFile, CallBegins, TogglePlayback, Stop, Adjust, PressKey, vars, state
  <2> QED BY <2>1 DEF ShownType, lists
<1>13. ASSUME NEW t \in Task, TaskNext(t) \/ TimeOut(t) PROVE ShownType'
  <2>1. UNCHANGED <<quit, lists, shown, playback, group>>
    BY <1>13 DEF TaskNext, Arrive, BeginGroup, EndGroup, StartFile, TimeOut, state
  <2> QED BY <2>1 DEF ShownType, lists
<1> QED BY <1>3, <1>4, <1>5, <1>6, <1>7, <1>8, <1>9, <1>10, <1>11, <1>12, <1>13, Zenon DEF Next, LoopNext

-----------------------------------------------------------------------------
(* The client behind its lock.                                               *)

\* While a task is connecting a group, only the step that ends this task changes the
\* client.
NobodyElse ==
  \A t \in Task : tasks[t].at = "connecting" /\ client' # client => tasks'[t] = NoTask

LEMMA LockedOut ==
  ASSUME PlayerInv, LineInv, [Next]_vars
  PROVE  NobodyElse
<1> SUFFICES ASSUME NEW t \in Task, tasks[t].at = "connecting", client' # client
             PROVE  tasks'[t] = NoTask
  BY DEF NobodyElse
<1>1. Holds(t) /\ ~CanLock
  BY LockIsFree DEF LineInv
<1>2. /\ \A name \in Keys : ~PressKey(name)
      /\ ~Tick /\ ~UNCHANGED vars
  BY DEF PressKey, Tick, vars
<1>3. ~Wait /\ ~Quit /\ ~DevicesScanned /\ ~ConnectGroup /\ ~ConnectGivesUp
  BY DEF Wait, Quit, DevicesScanned, ConnectGroup, ConnectGivesUp
<1>4. ~HandleConnected /\ ~HandleDisconnected /\ ~HandleShowError /\ ~HandlePlaybackChanged
  BY DEF HandleConnected, HandleDisconnected, HandleShowError, HandlePlaybackChanged
<1>5. ~ScanDevices /\ ~HandleGroupChanged /\ ~HandleGroupConnected /\ ~FindGroup /\ ~PlayFile /\ ~CallBegins
  BY <1>1 DEF ScanDevices, HandleGroupChanged, HandleGroupConnected, FindGroup, PlayFile, CallBegins
<1>6. ~DisbandGroup /\ ~Adjust /\ ~ConnectToSelected /\ ~TogglePlayback /\ ~Stop
  <2>1. ~InCall
    BY <1>1 DEF InCall, CanLock
  <2> QED BY <1>1, <2>1 DEF DisbandGroup, Adjust, ConnectToSelected, TogglePlayback, Stop
<1>7. PICK s \in Task : TaskNext(s) \/ TimeOut(s)
  BY <1>2, <1>3, <1>4, <1>5, <1>6, Zenon DEF Next, LoopNext
<1>8. s = t
  <2>1. Holds(s)
    <3>1. CASE TaskNext(s)
      BY <3>1 DEF TaskNext, Arrive, BeginGroup, EndGroup, StartFile, Works
    <3>2. CASE TimeOut(s)
      BY <3>2 DEF TimeOut, End, Failed
    <3> QED BY <1>7, <3>1, <3>2
  <2> QED BY <1>1, <2>1 DEF Holds
<1>9. EndGroup(t) \/ TimeOut(t)
  BY <1>7, <1>8 DEF TaskNext, Arrive, BeginGroup, StartFile, Works
<1>10. tasks' = [tasks EXCEPT ![t] = NoTask]
  BY <1>9 DEF EndGroup, TimeOut, End
<1> QED BY <1>10 DEF PlayerInv, PlayerType

LEMMA LineStarts ==
  ASSUME Init
  PROVE  LineInv /\ ShownType
<1>1. line = <<>> /\ \A t \in Task : tasks[t] = NoTask
  BY DEF Init
<1>2. line \in Seq(Task \cup {Loop}) /\ IsInjective(line) /\ \A t \in Task : ~Contains(line, t)
  BY <1>1 DEF IsInjective, Contains
<1>3. \A t \in Task : tasks[t].at = "none"
  BY <1>1 DEF NoTask
<1>4. LineInv
  BY <1>2, <1>3 DEF LineInv, Waiting
<1>5. ShownType
  BY DEF Init, ShownType, Playback
<1> QED BY <1>4, <1>5

LEMMA AppStaysSound == Spec => [](PlayerInv /\ LineInv /\ ShownType)
<1>1. Init => PlayerInv /\ LineInv /\ ShownType
  BY PlayerStarts, LineStarts
<1>2. PlayerInv /\ LineInv /\ ShownType /\ [Next]_vars => (PlayerInv /\ LineInv /\ ShownType)'
  BY PlayerSteps, LineSteps, ShownSteps
<1> QED BY <1>1, <1>2, PTL DEF Spec

\* The client stays well-formed, and so does what is shown; who stands in the lock's line
\* is the loop or a task that waits or works, and a group is connected under the lock.
THEOREM PlayerTypesHold == Spec => []TypeOK
<1>1. ASSUME PlayerInv, LineInv, ShownType PROVE TypeOK
  <2>1. client \in Client /\ step \in {"start", "file", "toGroup", "calling"} /\ listed \subseteq Device
        /\ connecting \in BOOLEAN
    BY <1>1 DEF PlayerInv, PlayerType, ClientInv
  <2>2. ASSUME NEW i \in DOMAIN line PROVE line[i] = Loop \/ tasks[line[i]].at \in {"locking", "connecting"}
    <3>1. line[i] \in Task \cup {Loop} /\ i \in 1 .. Len(line)
      BY <1>1 DEF LineInv
    <3>2. line[i] \in Task => Waiting(tasks[line[i]])
      BY <1>1, <3>1 DEF LineInv, Contains
    <3> QED BY <3>1, <3>2 DEF Waiting
  <2> QED BY <1>1, <2>1, <2>2 DEF TypeOK, LineInv, ShownType
<1> QED BY <1>1, AppStaysSound, PTL

\* A group is connected in two halves, and between them the lock keeps everybody else
\* from the client: no handler and no other task finds it half disconnected.
THEOREM GroupIsConnectedAlone == Spec => [][NobodyElse]_vars
<1>1. PlayerInv /\ LineInv /\ ShownType /\ [Next]_vars => [NobodyElse]_vars
  BY LockedOut
<1> QED BY <1>1, AppStaysSound, PTL DEF Spec

\* The loop waits for nobody but a task that has the lock and is timed: who stands before
\* it in line is not the loop, and not a task that has gone.
THEOREM LoopWaitsForATask ==
  Spec => [](Contains(line, Loop) /\ ~Holds(Loop) =>
               \E t \in Task : Holds(t) /\ tasks[t].at \in {"locking", "connecting"})
<1> DEFINE Waits == Contains(line, Loop) /\ ~Holds(Loop) =>
                      \E t \in Task : Holds(t) /\ tasks[t].at \in {"locking", "connecting"}
<1>1. ASSUME LineInv, Contains(line, Loop), ~Holds(Loop)
      PROVE  \E t \in Task : Holds(t) /\ tasks[t].at \in {"locking", "connecting"}
  <2>1. line \in Seq(Task \cup {Loop}) /\ line # <<>>
    BY <1>1 DEF LineInv, Contains
  <2>2. Head(line) \in Task \cup {Loop} /\ Contains(line, Head(line))
    BY <2>1 DEF Contains
  <2>3. Head(line) \in Task /\ Holds(Head(line))
    BY <1>1, <2>1, <2>2 DEF Holds
  <2> QED BY <1>1, <2>2, <2>3 DEF LineInv, Waiting
<1>2. LineInv => Waits
  BY <1>1
<1> HIDE DEF Waits
<1>3. Spec => []Waits
  BY <1>2, AppStaysSound, PTL
<1> QED BY <1>3 DEF Waits
=============================================================================
