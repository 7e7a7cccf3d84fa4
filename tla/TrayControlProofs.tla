------------------------ MODULE TrayControlProofs ------------------------
(***************************************************************************)
(* What holds of the tray program, for any receivers, records, modes,      *)
(* volumes and outputs, and however many inputs and scans: the table says  *)
(* what was heard; a session is of the receiver its index names and what   *)
(* was chosen last; and the check marks follow the sessions.               *)
(***************************************************************************)
EXTENDS TrayControl, FiniteSetTheorems, TLAPS

-----------------------------------------------------------------------------
(* The table of the browser.                                                 *)

\* What was heard of a receiver did parse and is its own.
HeardIsOwn ==
  \A d \in Device : \A rec \in heard[d] : rec.id = d /\ Parses(rec)

TableInv == TableType /\ HeardIsOwn /\ EntriesAreJoins

Entry == [airplay2 : BOOLEAN, raop : BOOLEAN, addresses : SUBSET {"v4", "v6"}]

\* What the entry of d says, given what was heard.
Join(d) ==
  [airplay2  |-> \E rec \in Deciding(d) : rec.airplay2,
   raop      |-> RaopHeard(d) # {},
   addresses |-> UNION {rec.addresses : rec \in heard[d]}]

LEMMA RecordType ==
  ASSUME NEW rec \in Records
  PROVE  /\ rec.id \in Device /\ rec.raop \in BOOLEAN /\ rec.airplay2 \in BOOLEAN
         /\ rec.addresses \in SUBSET {"v4", "v6"}
         /\ Parsed(rec) \in Entry
  BY DeviceTableAssumption DEF Parsed, Entry

\* What parses has an address, and so has an entry made of it.
LEMMA UpdatedEntry ==
  ASSUME TableInv, NEW rec \in Records, Parses(rec), Known(rec.id)
  PROVE  /\ Updated(rec) \in Entry
         /\ Updated(rec) # Absent
         /\ Updated(rec).addresses = table[rec.id].addresses \cup rec.addresses
         /\ Updated(rec).raop = (rec.raop \/ table[rec.id].raop)
         /\ Updated(rec).airplay2 = (IF rec.raop THEN table[rec.id].airplay2 ELSE rec.airplay2)
<1> DEFINE e == table[rec.id]
<1>1. /\ e \in Entry
      /\ rec.id \in Device /\ rec.raop \in BOOLEAN /\ rec.airplay2 \in BOOLEAN
      /\ rec.addresses \in SUBSET {"v4", "v6"} /\ rec.addresses # {}
  BY RecordType DEF TableInv, TableType, Entry, Parses
<1>2. CASE rec.raop = TRUE
  <2>1. Updated(rec) = [airplay2 |-> e.airplay2, raop |-> rec.raop,
                        addresses |-> e.addresses \cup rec.addresses]
    BY <1>2 DEF Updated, Merged, Parsed
  <2> QED BY <2>1, <1>1, <1>2 DEF Entry, Absent
<1>3. CASE rec.raop = FALSE
  <2>1. Updated(rec) = [airplay2 |-> rec.airplay2, raop |-> e.raop,
                        addresses |-> rec.addresses \cup e.addresses]
    BY <1>3 DEF Updated, Merged, Parsed
  <2> QED BY <2>1, <1>1, <1>3 DEF Entry, Absent
<1> QED BY <1>1, <1>2, <1>3, Zenon

LEMMA ResolveKeepsJoins ==
  ASSUME TableInv, NEW rec \in Records, Resolve(rec)
  PROVE  TableInv'
<1> DEFINE d == rec.id
           entry == IF Known(d) THEN Updated(rec) ELSE Parsed(rec)
<1>1. CASE ~Parses(rec)
  BY <1>1 DEF Resolve, TableInv, TableType, HeardIsOwn, EntriesAreJoins, Known, AirPlayHeard,
              RaopHeard, Deciding
<1>2. CASE Parses(rec)
  <2>1. /\ d \in Device /\ rec.raop \in BOOLEAN /\ rec.airplay2 \in BOOLEAN
        /\ rec.addresses \in SUBSET {"v4", "v6"} /\ rec.addresses # {}
    BY <1>2, RecordType DEF Parses
  <2>2. /\ table' = [table EXCEPT ![d] = entry]
        /\ heard' = [heard EXCEPT ![d] = @ \cup {rec}]
    BY <1>2 DEF Resolve
  <2>3. /\ table \in [Device -> Entry] /\ heard \in [Device -> SUBSET Records]
    BY DEF TableInv, TableType, Entry
  <2>4. entry \in Entry /\ entry # Absent
    <3>1. Parsed(rec) # Absent
      BY <2>1 DEF Parsed, Absent
    <3> QED BY <3>1, <1>2, UpdatedEntry, RecordType
  <2> HIDE DEF entry
  <2>5. /\ table'[d] = entry /\ heard'[d] = heard[d] \cup {rec}
        /\ \A c \in Device \ {d} : table'[c] = table[c] /\ heard'[c] = heard[c]
    BY <2>1, <2>2, <2>3
  <2>6. TableType'
    BY <2>1, <2>2, <2>3, <2>4 DEF TableType, Entry
  <2>7. HeardIsOwn'
    BY <1>2, <2>1, <2>5 DEF TableInv, HeardIsOwn, Parses
  <2>8. ASSUME NEW c \in Device
        PROVE  /\ Known(c)' <=> heard'[c] # {}
               /\ Known(c)' => table'[c] = Join(c)'
    <3>1. CASE c # d
      <4>1. table'[c] = table[c] /\ heard'[c] = heard[c]
        BY <2>5, <3>1
      <4>2. /\ Known(c) <=> heard[c] # {}
            /\ Known(c) => table[c] = Join(c)
        BY DEF TableInv, EntriesAreJoins, Join
      <4> QED BY <4>1, <4>2 DEF Known, Join, Deciding, AirPlayHeard, RaopHeard
    <3>2. CASE c = d
      <4>1. Known(d) <=> heard[d] # {}
        BY <2>1 DEF TableInv, EntriesAreJoins
      <4>2. Known(d) => table[d] = Join(d)
        BY <2>1 DEF TableInv, EntriesAreJoins, Join
      <4>3. /\ AirPlayHeard(d)' = AirPlayHeard(d) \cup (IF rec.raop THEN {} ELSE {rec})
            /\ RaopHeard(d)' = RaopHeard(d) \cup (IF rec.raop THEN {rec} ELSE {})
        BY <2>5 DEF AirPlayHeard, RaopHeard
      <4>4. \A r \in heard[d] : r.id = d /\ r \in Records
        BY <2>1, <2>3 DEF TableInv, HeardIsOwn
      <4>5. \A r \in heard[d] : r.raop = rec.raop => r.airplay2 = rec.airplay2
        BY <4>4, FeaturesAreFixed
      <4>6. entry.addresses = UNION {r.addresses : r \in heard'[d]}
        <5>1. entry.addresses = (UNION {r.addresses : r \in heard[d]}) \cup rec.addresses
          <6>1. CASE Known(d)
            BY <6>1, <4>2, <1>2, UpdatedEntry DEF entry, Join
          <6>2. CASE ~Known(d)
            BY <6>2, <4>1 DEF entry, Parsed
          <6> QED BY <6>1, <6>2
        <5> QED BY <5>1, <2>5
      <4>7. entry.raop = (RaopHeard(d)' # {})
        <5>1. CASE Known(d)
          <6>1. entry.raop = (rec.raop \/ table[d].raop)
            BY <5>1, <1>2, UpdatedEntry DEF entry
          <6>2. table[d].raop = (RaopHeard(d) # {})
            BY <5>1, <4>2 DEF Join
          <6> QED BY <6>1, <6>2, <4>3, <2>1
        <5>2. CASE ~Known(d)
          <6>1. RaopHeard(d) = {} /\ entry.raop = rec.raop
            BY <5>2, <4>1 DEF entry, Parsed, RaopHeard
          <6> QED BY <6>1, <4>3, <2>1
        <5> QED BY <5>1, <5>2
      <4>8. entry.airplay2 = (\E r \in Deciding(d)' : r.airplay2)
        <5>1. CASE rec.raop /\ AirPlayHeard(d) # {}
          <6>1. Known(d)
            BY <5>1, <4>1 DEF AirPlayHeard
          <6>2. Deciding(d)' = Deciding(d)
            BY <5>1, <4>3 DEF Deciding
          <6>3. entry.airplay2 = table[d].airplay2
            BY <5>1, <6>1, <1>2, UpdatedEntry DEF entry
          <6>4. Join(d).airplay2 = \E r \in Deciding(d) : r.airplay2
            BY DEF Join
          <6> QED BY <6>1, <6>2, <6>3, <6>4, <4>2, Zenon
        <5>2. CASE rec.raop /\ AirPlayHeard(d) = {}
          <6>1. heard[d] = RaopHeard(d) /\ Deciding(d) = RaopHeard(d)
            BY <5>2, <4>4, RecordType DEF AirPlayHeard, RaopHeard, Deciding
          <6>2. \A r \in RaopHeard(d) : r.airplay2 = rec.airplay2
            BY <4>5, <5>2 DEF RaopHeard
          <6>3. Deciding(d)' = RaopHeard(d) \cup {rec}
            BY <5>2, <4>3 DEF Deciding
          <6>4. entry.airplay2 = rec.airplay2
            <7>1. CASE Known(d)
              <8>1. entry.airplay2 = table[d].airplay2
                BY <5>2, <7>1, <1>2, UpdatedEntry DEF entry
              <8>2. table[d].airplay2 = \E r \in RaopHeard(d) : r.airplay2
                <9>1. Join(d).airplay2 = \E r \in Deciding(d) : r.airplay2
                  BY DEF Join
                <9> QED BY <9>1, <7>1, <4>2, <6>1, Zenon
              <8>3. RaopHeard(d) # {}
                BY <7>1, <4>1, <6>1
              <8> QED BY <8>1, <8>2, <8>3, <6>2, <2>1
            <7>2. CASE ~Known(d)
              BY <7>2 DEF entry, Parsed
            <7> QED BY <7>1, <7>2
          <6> QED BY <6>2, <6>3, <6>4, <2>1
        <5>3. CASE ~rec.raop
          <6>1. Deciding(d)' = AirPlayHeard(d) \cup {rec}
            BY <5>3, <4>3 DEF Deciding
          <6>2. \A r \in AirPlayHeard(d) : r.airplay2 = rec.airplay2
            <7>1. \A r \in AirPlayHeard(d) : r \in heard[d] /\ r.raop = FALSE
              BY <4>4, RecordType DEF AirPlayHeard
            <7> QED BY <7>1, <4>5, <5>3, <2>1
          <6>3. entry.airplay2 = rec.airplay2
            <7>1. CASE Known(d)
              BY <7>1, <5>3, <1>2, UpdatedEntry DEF entry
            <7>2. CASE ~Known(d)
              BY <7>2 DEF entry, Parsed
            <7> QED BY <7>1, <7>2
          <6> QED BY <6>1, <6>2, <6>3, <2>1
        <5> QED BY <5>1, <5>2, <5>3
      <4>9. entry = Join(d)'
        <5>1. Join(d)' = [airplay2 |-> entry.airplay2, raop |-> entry.raop,
                          addresses |-> entry.addresses]
          BY <4>6, <4>7, <4>8 DEF Join
        <5> QED BY <5>1, <2>4 DEF Entry
      <4> QED BY <3>2, <4>9, <2>4, <2>5 DEF Known
    <3> QED BY <3>1, <3>2
  <2>9. EntriesAreJoins'
    BY <2>8 DEF EntriesAreJoins, Join
  <2> QED BY <2>6, <2>7, <2>9 DEF TableInv
<1> QED BY <1>1, <1>2

LEMMA EmptyTable ==
  ASSUME NEW t, NEW h, t = [d \in Device |-> Absent], h = [d \in Device |-> {}]
  PROVE  /\ t \in [Device -> Entry] /\ h \in [Device -> SUBSET Records]
         /\ \A d \in Device : t[d] = Absent /\ h[d] = {}
  BY DEF Absent, Entry

\* The browser's table is what was heard, whatever the order.
LEMMA TableStep ==
  ASSUME TableInv, [Next]_vars
  PROVE  TableInv'
<1>1. CASE UNCHANGED browser
  BY <1>1 DEF browser, TableInv, TableType, HeardIsOwn, EntriesAreJoins, Known, AirPlayHeard,
              RaopHeard, Deciding
<1>2. CASE Hear
  <2>1. CASE \E rec \in Records : Resolve(rec)
    BY <2>1, ResolveKeepsJoins
  <2>2. ASSUME NEW d \in Device, NEW raop \in BOOLEAN, RemoveRecord(d, raop)
        PROVE  TableInv'
    <3>1. CASE ~raop
      BY <3>1, <2>2, <1>1 DEF RemoveRecord, browser
    <3>2. CASE raop
      <4>1. /\ table' = [table EXCEPT ![d] = Absent] /\ heard' = [heard EXCEPT ![d] = {}]
        BY <3>2, <2>2 DEF RemoveRecord
      <4>2. table \in [Device -> Entry] /\ heard \in [Device -> SUBSET Records] /\ Absent \in Entry
        BY DEF TableInv, TableType, Entry, Absent
      <4>3. /\ table'[d] = Absent /\ heard'[d] = {}
            /\ \A c \in Device \ {d} : table'[c] = table[c] /\ heard'[c] = heard[c]
        BY <4>1, <4>2
      <4>4. TableType'
        BY <4>1, <4>2 DEF TableType, Entry
      <4>5. HeardIsOwn'
        BY <4>3 DEF TableInv, HeardIsOwn, Parses
      <4>6. EntriesAreJoins'
        BY <4>3 DEF TableInv, EntriesAreJoins, Known, AirPlayHeard, RaopHeard, Deciding
      <4> QED BY <4>4, <4>5, <4>6 DEF TableInv
    <3> QED BY <3>1, <3>2
  <2> QED BY <1>2, <2>1, <2>2 DEF Hear
<1>3. CASE EndScan
  <2>1. table' = [d \in Device |-> Absent] /\ heard' = [d \in Device |-> {}]
    BY <1>3 DEF EndScan
  <2>2. /\ table' \in [Device -> Entry] /\ heard' \in [Device -> SUBSET Records]
        /\ \A d \in Device : table'[d] = Absent /\ heard'[d] = {}
    BY <2>1, EmptyTable, Zenon
  <2> QED BY <2>2 DEF TableInv, TableType, Entry, HeardIsOwn, EntriesAreJoins, Known
<1>4. CASE ~Hear /\ ~EndScan
  <2>1. UNCHANGED browser
    BY <1>4, Zenon DEF Next, ControlNext, UserNext, RoundNext, vars, PressHotkey, ClickOff, ClickSettings,
       ClickQuit, ClickRescan, ClickDevice, ClickOutput, MoveSlider, PickMode, Save, CloseWindow,
       UserInput, WindowInput, StartUp, TakeUpdate, TakeHotkeys, TakeStatus, EndRound, Exit,
       StartControl, DoSetTargets, DoRescan, DoSetVolume, DoSetMode, DoSetOutput, DoQuit,
       KeepAlive, Elapse
  <2> QED BY <2>1, <1>1
<1> QED BY <1>2, <1>3, <1>4

LEMMA TableInit ==
  ASSUME Init
  PROVE  TableInv
<1>1. table = [d \in Device |-> Absent] /\ heard = [d \in Device |-> {}]
  BY DEF Init
<1>2. /\ table \in [Device -> Entry] /\ heard \in [Device -> SUBSET Records]
      /\ \A d \in Device : table[d] = Absent /\ heard[d] = {}
  BY <1>1, EmptyTable, Zenon
<1> QED BY <1>2 DEF TableInv, TableType, Entry, HeardIsOwn, EntriesAreJoins, Known

\* The order in which a receiver's records come, and how often, does not matter for what
\* its entry says (merge_device_info, parser.rs:393; handle_service_event, browser.rs:105).
THEOREM EntriesStayJoins == Spec => []EntriesAreJoins
<1>1. Init => TableInv
  BY TableInit
<1>2. TableInv => EntriesAreJoins
  BY DEF TableInv
<1> QED BY <1>1, <1>2, TableStep, PTL DEF Spec

-----------------------------------------------------------------------------
(* The types: of what the threads keep, and of what they send each other.    *)

OutputNames == Outputs \cup {f.output : f \in Files} \cup {Default}
Mode == [preset : BOOLEAN, ms : 50 .. 4000]
Settings == [volume : Volumes, ms : 50 .. 4000, output : OutputNames]
Status == [active : SUBSET Index, failed : BOOLEAN]
Update == [ready : BOOLEAN, names : Seq(Device)]
Command ==
  [op : {"SetTargets"}, targets : SUBSET Index] \cup [op : {"SetOutput"}, output : OutputNames]
    \cup [op : {"SetVolume"}, volume : Volumes] \cup [op : {"SetMode"}, mode : Mode]
    \cup [op : {"Rescan", "Quit"}]

UiType ==
  /\ round \in {"starting", "input", "updates", "statuses", "joining", "exited"}
  /\ menu \in Seq(Device)
  /\ active \in SUBSET Index /\ lastTargets \in SUBSET Index
  /\ selected \in Outputs \cup {Default}
  /\ window \in Mode \cup {Closed}

ChannelType ==
  /\ cmds \in Seq(Command) /\ updates \in Seq(Update) /\ statuses \in Seq(Status)

\* The settings are read at the end of the first scan, before any command.
ControlType ==
  /\ pc \in {"starting", "scanning", "hearing", "loop", "keepalive", "ended"}
  /\ devices \in Seq(Device)
  /\ volume \in Volumes \cup {Unknown} /\ output \in OutputNames
  /\ saved \in Settings
  /\ scans \in Nat
  /\ pc = "starting" => scans = 0
  /\ pc \in {"scanning", "hearing"} => scans > 0
  /\ pc \in {"loop", "keepalive"} => scans > 0 /\ mode \in Mode
  /\ scans > 1 => mode \in Mode

\* A session for the i-th receiver listed, with what was chosen.
IsCurrent(s, i, devs, v, m, o) ==
  /\ s \in Session
  /\ i \in DOMAIN devs /\ s.device = devs[i]
  /\ s.ms = m.ms /\ s.output = o /\ s.volume \in {v, Unknown}

AreCurrent(all, devs, v, m, o) ==
  /\ all = [i \in Index |-> all[i]]
  /\ \A i \in Index : all[i] = NoSession \/ IsCurrent(all[i], i, devs, v, m, o)

\* Only the loop has sessions.
SessionsInv ==
  /\ AreCurrent(sessions, devices, volume, mode, output)
  /\ pc \notin {"loop", "keepalive"} => Streaming = {}

\* Before the main thread polls there is no input, so nothing streams.
StartInv ==
  round = "starting" =>
    active = {} /\ cmds = <<>> /\ statuses = <<>> /\ window = Closed /\ Streaming = {}

TrayInv == UiType /\ ChannelType /\ ControlType /\ SessionsInv /\ StartInv

LEMMA Indices ==
  /\ Cardinality(Device) \in Nat
  /\ Index \subseteq Nat
  /\ \A list \in Seq(Device) : list # <<>> => 1 \in Index
<1>1. Cardinality(Device) \in Nat /\ (Cardinality(Device) = 0 <=> Device = {})
  BY TrayAssumption, FS_CardinalityType, FS_EmptySet
<1>2. ASSUME NEW list \in Seq(Device), list # <<>>
      PROVE  Device # {}
  <2>1. Len(list) > 0 /\ list[1] \in Device
    BY <1>2
  <2> QED BY <2>1
<1> QED BY <1>1, <1>2 DEF Index

LEMMA ListingType ==
  ASSUME NEW list \in Listings
  PROVE  list \in Seq(Device)
<1>1. IsFiniteSet(Usable) /\ Usable \subseteq Device
  BY TrayAssumption, FS_Subset DEF Usable
<1>2. Cardinality(Usable) \in Nat
  BY <1>1, FS_CardinalityType
<1>3. list \in [1 .. Cardinality(Usable) -> Usable]
  BY DEF Listings, SetToSeqs
<1> QED BY <1>1, <1>2, <1>3

LEMMA MessageTypes ==
  /\ \A S \in SUBSET Index : SetTargets(S) \in Command
  /\ \A o \in OutputNames : SetOutput(o) \in Command
  /\ \A v \in Volumes : SetVolume(v) \in Command
  /\ \A m \in Mode : SetMode(m) \in Command
  /\ Rescan \in Command /\ Quit \in Command
  /\ Failed \in Update
  /\ \A list \in Seq(Device) : Ready(list) \in Update
  BY DEF Command, SetTargets, SetOutput, SetVolume, SetMode, Rescan, Quit, Failed, Ready, Update

LEMMA CommandTypes ==
  ASSUME NEW c \in Command
  PROVE  /\ c.op = "SetTargets" => c.targets \in SUBSET Index
         /\ c.op = "SetOutput" => c.output \in OutputNames
         /\ c.op = "SetVolume" => c.volume \in Volumes
         /\ c.op = "SetMode" => c.mode \in Mode
  BY DEF Command

\* A queue loses its first or gains a last message.
LEMMA Queues ==
  ASSUME NEW S, NEW q \in Seq(S)
  PROVE  /\ q # <<>> => Head(q) \in S /\ Tail(q) \in Seq(S)
         /\ \A e \in S : Append(q, e) \in Seq(S)
  OBVIOUS

\* The mode the window shows is one that can be chosen.
LEMMA ModeTypes ==
  /\ \A ms \in 50 .. 4000 : FromLatency(ms) \in Mode
  /\ Modes \subseteq Mode
  /\ Closed \notin Mode
  /\ Files \subseteq Settings
<1>1. \A ms \in 50 .. 4000 : FromLatency(ms) \in Mode
  BY DEF FromLatency, Mode
<1>2. Modes \subseteq Mode
  <2>1. Modes \subseteq [preset : BOOLEAN, ms : 50 .. 4000]
    BY TrayAssumption
  <2> QED BY <2>1 DEF Mode
<1>3. Closed \notin Mode
  BY DEF Closed, Mode
<1>4. Files \subseteq Settings
  <2>1. {f.output : f \in Files} \subseteq OutputNames
    BY DEF OutputNames
  <2> QED BY <2>1, TrayAssumption DEF Settings
<1> QED BY <1>1, <1>2, <1>3, <1>4

LEMMA ModeLasts ==
  ASSUME NEW m \in Mode
  PROVE  m.ms # 0
<1>1. m.ms \in 50 .. 4000
  BY DEF Mode
<1>2. PICK n \in 50 .. 4000 : m.ms = n
  BY <1>1
<1> QED BY <1>2

LEMMA UiTypeStep ==
  ASSUME TrayInv, [Next]_vars
  PROVE  UiType'
<1> USE DEF UiType
<1>1. UiType /\ ChannelType
  BY DEF TrayInv
<1>2. CASE UNCHANGED <<round, menu, active, lastTargets, selected, window>>
  BY <1>1, <1>2
<1>3. updates # <<>> => Head(updates).names \in Seq(Device)
  <2>1. updates # <<>> => Head(updates) \in Update
    BY <1>1 DEF ChannelType
  <2> QED BY <2>1 DEF Update
<1>4. statuses # <<>> => Head(statuses).active \in SUBSET Index
  <2>1. statuses # <<>> => Head(statuses) \in Status
    BY <1>1 DEF ChannelType
  <2> QED BY <2>1 DEF Status
<1>5. CASE StartUp
  BY <1>1, <1>3, <1>5 DEF StartUp
<1>6. CASE PressHotkey
  <2>1. active' \in SUBSET Index
    BY <1>1, <1>6, Indices DEF PressHotkey, Target, HotkeyTargets
  <2>2. lastTargets' \in SUBSET Index
    BY <1>1, <1>6 DEF PressHotkey
  <2> QED BY <1>1, <1>6, <2>1, <2>2 DEF PressHotkey, UserInput
<1>7. CASE ClickOff
  BY <1>1, <1>7 DEF ClickOff, UserInput, Target
<1>8. CASE ClickSettings
  <2>1. saved.ms \in 50 .. 4000
    <3>1. saved \in Settings
      BY DEF TrayInv, ControlType
    <3> QED BY <3>1 DEF Settings
  <2>2. window' \in Mode
    <3>1. FromLatency(saved.ms) \in Mode
      BY <2>1 DEF FromLatency, Mode
    <3> QED BY <1>8, <3>1 DEF ClickSettings
  <2> QED BY <1>1, <1>8, <2>2 DEF ClickSettings, UserInput
<1>9. CASE ClickQuit
  BY <1>1, <1>9 DEF ClickQuit, UserInput
<1>10. CASE ClickRescan
  BY <1>1, <1>10 DEF ClickRescan, UserInput
<1>11. ASSUME NEW i \in Index, ClickDevice(i) PROVE UiType'
  BY <1>1, <1>11 DEF ClickDevice, UserInput, Target
<1>12. ASSUME NEW o \in Outputs \cup {Default}, ClickOutput(o) PROVE UiType'
  BY <1>1, <1>12 DEF ClickOutput, UserInput
<1>13. ASSUME NEW v \in Volumes, MoveSlider(v) PROVE UiType'
  BY <1>13, <1>2 DEF MoveSlider, WindowInput, ui
<1>14. ASSUME NEW m \in Modes, PickMode(m) PROVE UiType'
  <2>1. m \in Mode
    BY ModeTypes
  <2> QED BY <1>1, <1>14, <2>1 DEF PickMode, WindowInput, ui
<1>15. ASSUME NEW key \in BOOLEAN, Save(key) PROVE UiType'
  BY <1>1, <1>15 DEF Save, WindowInput, ui
<1>16. CASE CloseWindow
  BY <1>1, <1>16 DEF CloseWindow, WindowInput, ui
<1>17. CASE TakeUpdate
  BY <1>1, <1>3, <1>17 DEF TakeUpdate
<1>18. CASE TakeHotkeys
  BY <1>1, <1>18 DEF TakeHotkeys
<1>19. CASE TakeStatus
  BY <1>1, <1>4, <1>19 DEF TakeStatus
<1>20. CASE EndRound
  BY <1>1, <1>20 DEF EndRound
<1>21. CASE Exit
  BY <1>1, <1>21 DEF Exit
<1>22. CASE Hear \/ ControlNext \/ Elapse \/ UNCHANGED vars
  <2>1. UNCHANGED <<ui, window>>
    BY <1>22, Zenon DEF Hear, ControlNext, StartControl, EndScan, Receive, DoSetTargets, DoRescan,
       DoSetVolume, DoSetMode, DoSetOutput, DoQuit, KeepAlive, Elapse, vars
  <2> QED BY <2>1, <1>2 DEF ui
<1> QED BY <1>5, <1>6, <1>7, <1>8, <1>9, <1>10, <1>11, <1>12, <1>13, <1>14, <1>15, <1>16, <1>17,
           <1>18, <1>19, <1>20, <1>21, <1>22 DEF Next, UserNext, RoundNext

\* What reconcile_targets leaves is current, and it reports what streams.
LEMMA Reconciled ==
  ASSUME NEW old, NEW v \in Volumes \cup {Unknown}, NEW m \in Mode, NEW o \in OutputNames,
         devices \in Seq(Device), AreCurrent(old, devices, v, m, o),
         NEW targets \in SUBSET Index, Reconcile(old, targets, v, m, o)
  PROVE  /\ AreCurrent(sessions', devices, v, m, o)
         /\ \E st \in Status : /\ statuses' = Append(statuses, st)
                               /\ st.active = {i \in Index : sessions'[i] # NoSession}
<1> DEFINE desired == Normalized(targets)
           missing == {i \in desired : old[i] = NoSession}
<1>1. PICK up \in SUBSET missing, mute \in SUBSET missing :
        /\ sessions' =
            [i \in Index |->
               CASE i \in desired \ missing -> old[i]
                 [] i \in up -> Started(i, IF i \in mute THEN Unknown ELSE v, m, o)
                 [] OTHER -> NoSession]
        /\ statuses' = Append(statuses, [active |-> up \cup (desired \ missing),
                                         failed |-> up # missing])
  BY Zenon DEF Reconcile
<1>2. /\ desired \subseteq Index
      /\ \A i \in desired : i \in DOMAIN devices /\ devices[i] \in Device
  BY DEF Normalized
<1>3. \A i \in desired \ missing : old[i] # NoSession
  OBVIOUS
<1>4. \A i \in up : i \in desired /\ i \in missing
  OBVIOUS
<1> HIDE DEF desired, missing
<1>5. \A i \in Index :
        sessions'[i] = CASE i \in desired \ missing -> old[i]
                         [] i \in up -> Started(i, IF i \in mute THEN Unknown ELSE v, m, o)
                         [] OTHER -> NoSession
  BY <1>1, Zenon
<1>6. /\ \A i \in desired \ missing : sessions'[i] = old[i]
      /\ \A i \in up : sessions'[i] = Started(i, IF i \in mute THEN Unknown ELSE v, m, o)
      /\ \A i \in Index : i \notin desired \ missing /\ i \notin up => sessions'[i] = NoSession
  BY <1>2, <1>4, <1>5
<1>7. \A i \in up : /\ IsCurrent(sessions'[i], i, devices, v, m, o)
                    /\ sessions'[i] # NoSession
  <2> SUFFICES ASSUME NEW i \in up
               PROVE  IsCurrent(sessions'[i], i, devices, v, m, o) /\ sessions'[i] # NoSession
    OBVIOUS
  <2>1. PICK w \in {v, Unknown} : sessions'[i] = Started(i, w, m, o)
    BY <1>6
  <2>2. /\ i \in DOMAIN devices /\ devices[i] \in Device /\ m.ms \in 50 .. 4000
        /\ w \in Volumes \cup {Unknown}
    BY <1>2, <1>4, <2>1 DEF Mode
  <2> DEFINE s == [device |-> devices[i], ms |-> m.ms, output |-> o, volume |-> w, hungry |-> FALSE]
  <2>3. sessions'[i] = s
    BY <2>1 DEF Started
  <2>4. s \in [device : Device, ms : 50 .. 4000, output : OutputNames,
               volume : Volumes \cup {Unknown}, hungry : BOOLEAN]
    BY <2>2
  <2>6. s.ms # NoSession.ms
    <3>1. NoSession.ms = 0
      BY DEF NoSession
    <3>3. s.ms = m.ms
      OBVIOUS
    <3>4. m.ms # 0
      BY ModeLasts
    <3> HIDE DEF s
    <3> QED BY <3>1, <3>3, <3>4, Zenon
  <2>7. s.device = devices[i] /\ s.ms = m.ms /\ s.output = o /\ s.volume \in {v, Unknown}
    BY <2>1
  <2> HIDE DEF s
  <2>5. s \in Session
    BY <2>4 DEF Session, OutputNames
  <2>8. s # NoSession
    BY <2>6
  <2>9. IsCurrent(s, i, devices, v, m, o)
    BY <2>2, <2>5, <2>7 DEF IsCurrent
  <2> QED BY <2>3, <2>8, <2>9
<1>8. AreCurrent(sessions', devices, v, m, o)
  <2>1. sessions' = [i \in Index |-> sessions'[i]]
    BY <1>1
  <2>2. \A i \in Index : sessions'[i] = NoSession \/ IsCurrent(sessions'[i], i, devices, v, m, o)
    BY <1>2, <1>6, <1>7 DEF AreCurrent
  <2> QED BY <2>1, <2>2, Zenon DEF AreCurrent
<1>9. up \cup (desired \ missing) = {i \in Index : sessions'[i] # NoSession}
  BY <1>2, <1>3, <1>4, <1>6, <1>7
<1>10. [active |-> up \cup (desired \ missing), failed |-> up # missing] \in Status
  BY <1>2, <1>4 DEF Status
<1> QED BY <1>1, <1>8, <1>9, <1>10

\* Nothing streams, whatever is chosen.
LEMMA AllStoppedIsCurrent ==
  ASSUME NEW devs, NEW v, NEW m, NEW o
  PROVE  /\ AreCurrent(AllStopped, devs, v, m, o)
         /\ {i \in Index : AllStopped[i] # NoSession} = {}
  BY DEF AreCurrent, AllStopped

\* The same, when it is known that nothing streams.
LEMMA NothingIsCurrent ==
  ASSUME SessionsInv, Streaming = {}
  PROVE  sessions = AllStopped
<1>1. \A i \in Index : sessions[i] = NoSession
  BY DEF Streaming, Streams
<1>2. sessions = [i \in Index |-> sessions[i]]
  BY DEF SessionsInv, AreCurrent
<1> QED BY <1>1, <1>2 DEF AllStopped

-----------------------------------------------------------------------------
(* What the control thread does to its sessions, and what it says of it.     *)

\* A status says what streams, or there is none because that is as before.
Reported == \E st \in Status : statuses' = Append(statuses, st) /\ st.active = Streaming'
Told == Reported \/ (Streaming' = Streaming /\ UNCHANGED statuses)

LEMMA SessionIsOne ==
  ASSUME NEW s \in Session
  PROVE  s # NoSession
<1>1. s.ms \in 50 .. 4000
  BY DEF Session
<1>2. PICK n \in 50 .. 4000 : s.ms = n
  BY <1>1
<1>3. s.ms # 0
  BY <1>2
<1>4. NoSession.ms = 0
  BY DEF NoSession
<1> QED BY <1>3, <1>4

\* A keepalive, or the time that makes one due, is all that happens to a session.
LEMMA HungerChanges ==
  ASSUME NEW s, NEW i, NEW devs, NEW v, NEW m, NEW o, IsCurrent(s, i, devs, v, m, o),
         NEW h \in BOOLEAN
  PROVE  IsCurrent([s EXCEPT !.hungry = h], i, devs, v, m, o)
<1> DEFINE t == [s EXCEPT !.hungry = h]
<1>1. s \in Session
  BY DEF IsCurrent
<1>2. t \in Session
  BY <1>1 DEF Session
<1>3. /\ t.device = s.device /\ t.ms = s.ms /\ t.output = s.output /\ t.volume = s.volume
  BY <1>1 DEF Session
<1>4. IsCurrent(t, i, devs, v, m, o)
  <2> HIDE DEF t
  <2> QED BY <1>2, <1>3 DEF IsCurrent
<1> QED BY <1>4

LEMMA VolumeChanges ==
  ASSUME NEW s, NEW i, NEW devs, NEW v, NEW m, NEW o, IsCurrent(s, i, devs, v, m, o),
         NEW w \in Volumes, NEW x \in {w, Unknown}
  PROVE  IsCurrent([s EXCEPT !.volume = x], i, devs, w, m, o)
<1> DEFINE t == [s EXCEPT !.volume = x]
<1>1. s \in Session /\ x \in Volumes \cup {Unknown}
  BY DEF IsCurrent
<1>2. t \in Session
  BY <1>1 DEF Session
<1>3. /\ t.device = s.device /\ t.ms = s.ms /\ t.output = s.output /\ t.volume = x
  BY <1>1 DEF Session
<1>4. IsCurrent(t, i, devs, w, m, o)
  <2> HIDE DEF t
  <2> QED BY <1>2, <1>3 DEF IsCurrent
<1> QED BY <1>4

\* A step that changes one field of some sessions, and ends the others.
LEMMA SomeGoOn ==
  ASSUME NEW on \in SUBSET Index, NEW f, NEW devs, NEW v, NEW m, NEW o,
         \A i \in on : IsCurrent(f[i], i, devs, v, m, o),
         sessions' = [i \in Index |-> IF i \in on THEN f[i] ELSE NoSession]
  PROVE  AreCurrent(sessions', devs, v, m, o) /\ Streaming' = on
<1>1. \A i \in Index : sessions'[i] = IF i \in on THEN f[i] ELSE NoSession
  BY Zenon
<1>2. \A i \in on : f[i] # NoSession
  BY SessionIsOne DEF IsCurrent
<1>3. Streaming' = on
  BY <1>1, <1>2 DEF Streaming, Streams
<1>4. sessions' = [i \in Index |-> sessions'[i]]
  OBVIOUS
<1>5. AreCurrent(sessions', devs, v, m, o)
  BY <1>1, <1>4 DEF AreCurrent
<1> QED BY <1>3, <1>5

LEMMA StreamingIsCurrent ==
  ASSUME SessionsInv, NEW i \in Streaming
  PROVE  i \in Index /\ Streams(i) /\ IsCurrent(sessions[i], i, devices, volume, mode, output)
  BY DEF SessionsInv, AreCurrent, Streaming, Streams

LEMMA TargetsTold ==
  ASSUME TrayInv, DoSetTargets
  PROVE  SessionsInv' /\ Reported
<1>1. Head(cmds) \in Command /\ Head(cmds).op = "SetTargets"
  BY DEF TrayInv, ChannelType, DoSetTargets, Receive
<1>2. Head(cmds).targets \in SUBSET Index
  BY <1>1, CommandTypes
<1>3. /\ pc = "loop" /\ pc' = "keepalive" /\ UNCHANGED <<devices, volume, mode, output>>
      /\ Reconcile(sessions, Head(cmds).targets, volume, mode, output)
  BY DEF DoSetTargets, Receive
<1>4. /\ volume \in Volumes \cup {Unknown} /\ mode \in Mode /\ output \in OutputNames
      /\ devices \in Seq(Device) /\ AreCurrent(sessions, devices, volume, mode, output)
  BY <1>3 DEF TrayInv, ControlType, SessionsInv
<1>5. /\ AreCurrent(sessions', devices, volume, mode, output)
      /\ \E st \in Status : /\ statuses' = Append(statuses, st)
                            /\ st.active = {i \in Index : sessions'[i] # NoSession}
  BY <1>2, <1>3, <1>4, Reconciled
<1>6. Streaming' = {i \in Index : sessions'[i] # NoSession}
  BY DEF Streaming, Streams
<1> QED BY <1>3, <1>5, <1>6 DEF SessionsInv, Told, Reported

\* Everything starts again with one choice changed.
LEMMA RestartTold ==
  ASSUME TrayInv, pc = "loop", pc' = "keepalive", UNCHANGED <<devices, volume>>,
         mode' \in Mode, output' \in OutputNames,
         Reconcile(AllStopped, Streaming, volume, mode', output')
  PROVE  SessionsInv' /\ Told
<1>1. /\ volume \in Volumes \cup {Unknown} /\ devices \in Seq(Device)
      /\ Streaming \in SUBSET Index /\ AreCurrent(AllStopped, devices, volume, mode', output')
  BY AllStoppedIsCurrent DEF TrayInv, ControlType, Streaming
<1>2. /\ AreCurrent(sessions', devices, volume, mode', output')
      /\ \E st \in Status : /\ statuses' = Append(statuses, st)
                            /\ st.active = {i \in Index : sessions'[i] # NoSession}
  BY <1>1, Reconciled
<1>3. Streaming' = {i \in Index : sessions'[i] # NoSession}
  BY DEF Streaming, Streams
<1> QED BY <1>2, <1>3 DEF SessionsInv, Told, Reported

LEMMA ModeTold ==
  ASSUME TrayInv, DoSetMode
  PROVE  SessionsInv' /\ Told
<1>1. Head(cmds) \in Command /\ Head(cmds).op = "SetMode"
  BY DEF TrayInv, ChannelType, DoSetMode, Receive
<1>2. Head(cmds).mode \in Mode
  BY <1>1, CommandTypes
<1>3. pc = "loop" /\ pc' = "keepalive" /\ UNCHANGED <<devices, volume, output>>
  BY DEF DoSetMode, Receive
<1>4. CASE Head(cmds).mode = mode
  <2>1. UNCHANGED <<mode, sessions, statuses>>
    BY <1>4 DEF DoSetMode
  <2> QED BY <2>1, <1>3 DEF TrayInv, SessionsInv, Told, Streaming, Streams
<1>5. CASE Head(cmds).mode # mode
  <2>1. mode' = Head(cmds).mode /\ Reconcile(AllStopped, Streaming, volume, mode', output)
    BY <1>5 DEF DoSetMode
  <2>2. output' = output /\ output \in OutputNames
    BY <1>3 DEF TrayInv, ControlType
  <2> QED BY <2>1, <2>2, <1>2, <1>3, RestartTold
<1> QED BY <1>4, <1>5

LEMMA OutputTold ==
  ASSUME TrayInv, DoSetOutput
  PROVE  SessionsInv' /\ Told
<1>1. Head(cmds) \in Command /\ Head(cmds).op = "SetOutput"
  BY DEF TrayInv, ChannelType, DoSetOutput, Receive
<1>2. Head(cmds).output \in OutputNames
  BY <1>1, CommandTypes
<1>3. pc = "loop" /\ pc' = "keepalive" /\ UNCHANGED <<devices, volume, mode>>
  BY DEF DoSetOutput, Receive
<1>4. CASE Head(cmds).output = output
  <2>1. UNCHANGED <<output, sessions, statuses>>
    BY <1>4 DEF DoSetOutput
  <2> QED BY <2>1, <1>3 DEF TrayInv, SessionsInv, Told, Streaming, Streams
<1>5. CASE Head(cmds).output # output
  <2>1. output' = Head(cmds).output /\ Reconcile(AllStopped, Streaming, volume, mode, output')
    BY <1>5 DEF DoSetOutput
  <2>2. mode' = mode /\ mode \in Mode
    BY <1>3 DEF TrayInv, ControlType
  <2> QED BY <2>1, <2>2, <1>2, <1>3, RestartTold
<1> QED BY <1>4, <1>5

LEMMA VolumeTold ==
  ASSUME TrayInv, DoSetVolume
  PROVE  SessionsInv' /\ Told
<1>1. Head(cmds) \in Command /\ Head(cmds).op = "SetVolume"
  BY DEF TrayInv, ChannelType, DoSetVolume, Receive
<1>2. Head(cmds).volume \in Volumes
  BY <1>1, CommandTypes
<1>3. pc' = "keepalive" /\ volume' = Head(cmds).volume /\ UNCHANGED <<statuses, devices, mode, output>>
  BY DEF DoSetVolume
<1>4. PICK mute \in SUBSET Streaming :
        sessions' = [i \in Index |->
            IF Streams(i)
            THEN [sessions[i] EXCEPT !.volume = IF i \in mute THEN Unknown ELSE volume']
            ELSE NoSession]
  BY Zenon DEF DoSetVolume
<1> DEFINE f == [i \in Index |-> [sessions[i] EXCEPT !.volume = IF i \in mute THEN Unknown ELSE volume']]
<1>5. \A i \in Streaming : IsCurrent(f[i], i, devices, volume', mode, output)
  <2> SUFFICES ASSUME NEW i \in Streaming PROVE IsCurrent(f[i], i, devices, volume', mode, output)
    OBVIOUS
  <2>1. i \in Index /\ IsCurrent(sessions[i], i, devices, volume, mode, output)
    BY StreamingIsCurrent DEF TrayInv
  <2>2. PICK x \in {volume', Unknown} : x = IF i \in mute THEN Unknown ELSE volume'
    OBVIOUS
  <2>3. f[i] = [sessions[i] EXCEPT !.volume = x]
    BY <2>1, <2>2
  <2>4. volume' \in Volumes
    BY <1>2, <1>3
  <2>5. IsCurrent([sessions[i] EXCEPT !.volume = x], i, devices, volume', mode, output)
    BY <2>1, <2>2, <2>4, VolumeChanges
  <2> HIDE DEF f
  <2> QED BY <2>3, <2>5, Zenon
<1>6. sessions' = [i \in Index |-> IF i \in Streaming THEN f[i] ELSE NoSession]
  BY <1>4 DEF Streaming
<1>7. Streaming \in SUBSET Index
  BY DEF Streaming
<1> HIDE DEF f
<1>8. AreCurrent(sessions', devices, volume', mode, output) /\ Streaming' = Streaming
  BY <1>5, <1>6, <1>7, SomeGoOn
<1> QED BY <1>3, <1>8 DEF SessionsInv, Told, Reported

LEMMA KeepAliveTold ==
  ASSUME TrayInv, KeepAlive
  PROVE  SessionsInv' /\ Told
<1>1. pc' = "loop" /\ UNCHANGED <<devices, volume, mode, output>>
  BY DEF KeepAlive
<1>2. CASE Streaming = {} \/ ~due
  <2>1. UNCHANGED <<sessions, statuses>>
    BY <1>2 DEF KeepAlive
  <2> QED BY <1>1, <2>1 DEF TrayInv, SessionsInv, Told, Streaming, Streams
<1>3. CASE ~(Streaming = {} \/ ~due)
  <2>1. PICK dead \in SUBSET Streaming :
          /\ sessions' = [i \in Index |->
               IF i \in Streaming \ dead THEN [sessions[i] EXCEPT !.hungry = FALSE] ELSE NoSession]
          /\ statuses' = IF dead = {} THEN statuses
                         ELSE Append(statuses, [active |-> Streaming \ dead, failed |-> TRUE])
    BY <1>3, Zenon DEF KeepAlive
  <2> DEFINE f == [i \in Index |-> [sessions[i] EXCEPT !.hungry = FALSE]]
             on == Streaming \ dead
  <2>2. on \in SUBSET Index
    BY DEF Streaming
  <2>3. \A i \in on : IsCurrent(f[i], i, devices, volume, mode, output)
    <3> SUFFICES ASSUME NEW i \in on PROVE IsCurrent(f[i], i, devices, volume, mode, output)
      OBVIOUS
    <3>1. i \in Index /\ IsCurrent(sessions[i], i, devices, volume, mode, output)
      BY StreamingIsCurrent DEF TrayInv
    <3>2. f[i] = [sessions[i] EXCEPT !.hungry = FALSE]
      BY <3>1
    <3>3. IsCurrent([sessions[i] EXCEPT !.hungry = FALSE], i, devices, volume, mode, output)
      BY <3>1, HungerChanges, Zenon
    <3> HIDE DEF f
    <3> QED BY <3>2, <3>3, Zenon
  <2>4. sessions' = [i \in Index |-> IF i \in on THEN f[i] ELSE NoSession]
    BY <2>1
  <2> HIDE DEF f
  <2>5. AreCurrent(sessions', devices, volume, mode, output) /\ Streaming' = on
    BY <2>2, <2>3, <2>4, SomeGoOn
  <2>6. [active |-> on, failed |-> TRUE] \in Status
    BY <2>2 DEF Status
  <2>7. Told
    BY <2>1, <2>5, <2>6 DEF Told, Reported
  <2> QED BY <1>1, <2>5, <2>7 DEF SessionsInv
<1> QED BY <1>2, <1>3

LEMMA ElapseTold ==
  ASSUME TrayInv, Elapse
  PROVE  SessionsInv' /\ Told
<1> DEFINE f == [i \in Index |-> [sessions[i] EXCEPT !.hungry = TRUE]]
<1>1. /\ sessions' = [i \in Index |-> IF i \in Streaming THEN f[i] ELSE NoSession]
      /\ pc \in {"loop", "keepalive"}
      /\ UNCHANGED <<pc, devices, volume, mode, output, statuses>>
  BY DEF Elapse, Streaming, channels
<1>2. \A i \in Streaming : IsCurrent(f[i], i, devices, volume, mode, output)
  <2> SUFFICES ASSUME NEW i \in Streaming PROVE IsCurrent(f[i], i, devices, volume, mode, output)
    OBVIOUS
  <2>1. i \in Index /\ IsCurrent(sessions[i], i, devices, volume, mode, output)
    BY StreamingIsCurrent DEF TrayInv
  <2>2. f[i] = [sessions[i] EXCEPT !.hungry = TRUE]
    BY <2>1
  <2>3. IsCurrent([sessions[i] EXCEPT !.hungry = TRUE], i, devices, volume, mode, output)
    BY <2>1, HungerChanges, Zenon
  <2> HIDE DEF f
  <2> QED BY <2>2, <2>3, Zenon
<1>3. Streaming \in SUBSET Index
  BY DEF Streaming
<1> HIDE DEF f
<1>4. AreCurrent(sessions', devices, volume, mode, output) /\ Streaming' = Streaming
  BY <1>1, <1>2, <1>3, SomeGoOn
<1> QED BY <1>1, <1>4 DEF SessionsInv, Told, Reported

\* Nothing streams once everything is stopped, whatever is chosen then.
LEMMA StoppedIsInv ==
  ASSUME sessions' = AllStopped
  PROVE  SessionsInv' /\ Streaming' = {}
<1>1. AreCurrent(sessions', devices', volume', mode', output')
  BY AllStoppedIsCurrent
<1>2. Streaming' = {}
  BY AllStoppedIsCurrent DEF Streaming, Streams
<1> QED BY <1>1, <1>2 DEF SessionsInv

LEMMA RescanTold ==
  ASSUME TrayInv, DoRescan
  PROVE  SessionsInv' /\ Reported
<1>1. sessions' = AllStopped /\ statuses' = Append(statuses, [active |-> {}, failed |-> FALSE])
  BY DEF DoRescan
<1>2. [active |-> {}, failed |-> FALSE] \in Status
  BY DEF Status
<1> QED BY <1>1, <1>2, StoppedIsInv DEF Told, Reported

LEMMA EndScanTold ==
  ASSUME TrayInv, EndScan
  PROVE  SessionsInv' /\ Told
<1>1. pc \in {"scanning", "hearing"} /\ UNCHANGED <<sessions, statuses>>
  BY DEF EndScan
<1>2. Streaming = {}
  BY <1>1 DEF TrayInv, SessionsInv
<1>3. sessions' = AllStopped
  BY <1>1, <1>2, NothingIsCurrent DEF TrayInv
<1> QED BY <1>1, <1>2, <1>3, StoppedIsInv DEF Told, Reported

\* The steps that touch neither the sessions nor what they follow.
SessionsStay == UNCHANGED <<pc, devices, sessions, volume, mode, output>>

LEMMA SessionsStayInv ==
  ASSUME SessionsInv, SessionsStay
  PROVE  SessionsInv' /\ Streaming' = Streaming
  BY DEF SessionsInv, SessionsStay, Streaming, Streams

LEMMA SessionsStep ==
  ASSUME TrayInv, [Next]_vars
  PROVE  SessionsInv'
<1>1. SessionsInv
  BY DEF TrayInv
<1>2. CASE DoSetTargets \/ DoRescan \/ DoSetVolume \/ DoSetMode \/ DoSetOutput \/ KeepAlive \/ Elapse
           \/ EndScan
  BY <1>2, TargetsTold, RescanTold, VolumeTold, ModeTold, OutputTold, KeepAliveTold, ElapseTold,
     EndScanTold
<1>3. CASE DoQuit
  BY <1>3, StoppedIsInv DEF DoQuit
<1>4. CASE Hear \/ StartControl
  <2>1. pc \notin {"loop", "keepalive"} /\ pc' \notin {"loop", "keepalive"}
        /\ UNCHANGED <<devices, sessions, volume, mode, output>>
    BY <1>4 DEF Hear, StartControl, BeginScan
  <2> QED BY <1>1, <2>1 DEF SessionsInv, Streaming, Streams
<1>5. CASE UserNext \/ RoundNext \/ UNCHANGED vars
  <2>1. SessionsStay
    BY <1>5, Zenon DEF SessionsStay, UserNext, RoundNext, vars, control, PressHotkey, ClickOff,
       ClickSettings, ClickQuit, ClickRescan, ClickDevice, ClickOutput, MoveSlider, PickMode, Save,
       CloseWindow, UserInput, WindowInput, StartUp, TakeUpdate, TakeHotkeys, TakeStatus, EndRound,
       Exit
  <2> QED BY <2>1, <1>1, SessionsStayInv
<1> QED BY <1>2, <1>3, <1>4, <1>5 DEF Next, ControlNext

\* The steps of the main thread and the window that send nothing, and those that send c.
Sends(c) == c \in Command /\ cmds' = Append(cmds, c) /\ UNCHANGED <<updates, statuses>>

LEMMA InputSends ==
  ASSUME TrayInv, UserNext
  PROVE  UNCHANGED <<cmds, updates, statuses>> \/ \E c \in Command : Sends(c)
<1>1. UiType
  BY DEF TrayInv
<1>2. CASE ClickSettings
  BY <1>2 DEF ClickSettings, UserInput
<1>3. CASE CloseWindow
  BY <1>3 DEF CloseWindow, WindowInput
<1>4. ASSUME NEW m \in Modes, PickMode(m)
      PROVE  UNCHANGED <<cmds, updates, statuses>>
  BY <1>4 DEF PickMode, WindowInput
<1>5. ASSUME NEW S \in SUBSET Index, Target(S), UNCHANGED <<updates, statuses>>
      PROVE  \E c \in Command : Sends(c)
  BY <1>5, MessageTypes DEF Target, Sends
<1>6. CASE PressHotkey
  <2>1. UNCHANGED <<updates, statuses>>
    BY <1>6 DEF PressHotkey, UserInput
  <2>2. HotkeyTargets \in SUBSET Index \/ menu = <<>>
    BY <1>1, Indices DEF UiType, HotkeyTargets
  <2>3. Target({}) \/ (menu # <<>> /\ Target(HotkeyTargets))
    BY <1>6 DEF PressHotkey
  <2> QED BY <2>1, <2>2, <2>3, <1>5
<1>7. CASE ClickOff
  BY <1>7, <1>5 DEF ClickOff, UserInput
<1>8. CASE ClickQuit
  BY <1>8, MessageTypes DEF ClickQuit, UserInput, Sends
<1>9. CASE ClickRescan
  BY <1>9, MessageTypes DEF ClickRescan, UserInput, Sends
<1>10. ASSUME NEW i \in Index, ClickDevice(i)
       PROVE  \E c \in Command : Sends(c)
  <2>1. active \cup {i} \in SUBSET Index /\ active \ {i} \in SUBSET Index
    BY <1>1 DEF UiType
  <2> QED BY <2>1, <1>5, <1>10 DEF ClickDevice, UserInput
<1>11. ASSUME NEW o \in Outputs \cup {Default}, ClickOutput(o)
       PROVE  \E c \in Command : Sends(c)
  <2>1. o \in OutputNames
    BY DEF OutputNames
  <2> QED BY <2>1, <1>11, MessageTypes DEF ClickOutput, UserInput, Sends
<1>12. ASSUME NEW v \in Volumes, MoveSlider(v)
       PROVE  \E c \in Command : Sends(c)
  BY <1>12, MessageTypes DEF MoveSlider, WindowInput, Sends
<1>13. ASSUME NEW key \in BOOLEAN, Save(key)
       PROVE  \E c \in Command : Sends(c)
  <2>1. window \in Mode
    BY <1>1, <1>13 DEF Save, WindowInput, UiType
  <2> QED BY <2>1, <1>13, MessageTypes DEF Save, WindowInput, Sends
<1> QED BY <1>2, <1>3, <1>4, <1>6, <1>7, <1>8, <1>9, <1>10, <1>11, <1>12, <1>13 DEF UserNext

Handles == DoSetTargets \/ DoRescan \/ DoSetVolume \/ DoSetMode \/ DoSetOutput

LEMMA HandlesTold ==
  ASSUME TrayInv, Handles \/ KeepAlive \/ Elapse \/ EndScan
  PROVE  Told
  BY TargetsTold, RescanTold, VolumeTold, ModeTold, OutputTold, KeepAliveTold, ElapseTold, EndScanTold
     DEF Handles, Told

LEMMA ToldTypes ==
  ASSUME ChannelType, Told
  PROVE  statuses' \in Seq(Status)
<1>1. statuses \in Seq(Status)
  BY DEF ChannelType
<1> QED BY <1>1, Queues DEF Told, Reported

LEMMA TakenTypes ==
  ASSUME ChannelType
  PROVE  /\ cmds # <<>> => Head(cmds) \in Command /\ Tail(cmds) \in Seq(Command)
         /\ updates # <<>> => Head(updates) \in Update /\ Tail(updates) \in Seq(Update)
         /\ statuses # <<>> => Head(statuses) \in Status /\ Tail(statuses) \in Seq(Status)
  BY Queues DEF ChannelType

LEMMA ChannelTypeStep ==
  ASSUME TrayInv, [Next]_vars
  PROVE  ChannelType'
<1>1. ChannelType /\ UiType
  BY DEF TrayInv
<1>2. CASE UserNext
  <2>1. CASE UNCHANGED <<cmds, updates, statuses>>
    BY <2>1, <1>1 DEF ChannelType
  <2>2. ASSUME NEW c \in Command, Sends(c) PROVE ChannelType'
    <3>1. cmds' \in Seq(Command)
      BY <2>2, <1>1, Queues DEF Sends, ChannelType
    <3> QED BY <3>1, <2>2, <1>1 DEF Sends, ChannelType
  <2> QED BY <2>1, <2>2, <1>2, InputSends
<1>3. CASE StartUp
  <2>1. selected' \in OutputNames
    BY <1>3 DEF StartUp, OutputNames
  <2>2. cmds' \in Seq(Command)
    <3>1. cmds' = Append(cmds, SetOutput(selected'))
      BY <1>3 DEF StartUp
    <3>2. SetOutput(selected') \in Command
      BY <2>1, MessageTypes
    <3> QED BY <3>1, <3>2, <1>1, Queues DEF ChannelType
  <2>3. updates' \in Seq(Update) /\ UNCHANGED statuses
    BY <1>3, <1>1, TakenTypes DEF StartUp, ChannelType
  <2> QED BY <2>2, <2>3, <1>1 DEF ChannelType
<1>4. CASE TakeUpdate
  BY <1>4, <1>1, TakenTypes DEF TakeUpdate, ChannelType
<1>5. CASE TakeStatus
  BY <1>5, <1>1, TakenTypes DEF TakeStatus, ChannelType
<1>6. CASE StartControl
  <2>1. updates' \in Seq(Update)
    BY <1>6, <1>1, Queues, MessageTypes DEF StartControl, ChannelType
  <2> QED BY <2>1, <1>6, <1>1 DEF StartControl, ChannelType
<1>7. CASE EndScan
  <2>1. \A list \in Listings : Ready(list) \in Update
    BY ListingType, MessageTypes
  <2>2. Failed \in Update
    BY MessageTypes
  <2>3. \E u \in Update : updates' = Append(updates, u)
    BY <1>7, <2>1, <2>2 DEF EndScan
  <2>4. updates' \in Seq(Update)
    BY <2>3, <1>1, Queues DEF ChannelType
  <2> QED BY <2>4, <1>7, <1>1 DEF EndScan, ChannelType
<1>8. CASE Handles
  <2>1. cmds # <<>> /\ cmds' = Tail(cmds) /\ UNCHANGED updates
    BY <1>8 DEF Handles, DoSetTargets, DoRescan, DoSetVolume, DoSetMode, DoSetOutput, Receive
  <2>2. cmds' \in Seq(Command) /\ updates' \in Seq(Update)
    BY <2>1, <1>1, TakenTypes DEF ChannelType
  <2>3. statuses' \in Seq(Status)
    BY <1>8, <1>1, HandlesTold, ToldTypes
  <2> QED BY <2>2, <2>3 DEF ChannelType
<1>9. CASE DoQuit
  BY <1>9, <1>1, TakenTypes DEF DoQuit, Receive, ChannelType
<1>10. CASE KeepAlive
  <2>1. statuses' \in Seq(Status)
    BY <1>10, <1>1, HandlesTold, ToldTypes
  <2> QED BY <2>1, <1>10, <1>1 DEF KeepAlive, ChannelType
<1>11. CASE Hear \/ TakeHotkeys \/ EndRound \/ Exit \/ Elapse \/ UNCHANGED vars
  <2>1. UNCHANGED <<cmds, updates, statuses>>
    BY <1>11, Zenon DEF Hear, TakeHotkeys, EndRound, Exit, Elapse, vars, channels
  <2> QED BY <2>1, <1>1 DEF ChannelType
<1> QED BY <1>2, <1>3, <1>4, <1>5, <1>6, <1>7, <1>8, <1>9, <1>10, <1>11
        DEF Next, ControlNext, RoundNext, Handles

LEMMA VolumeSaved ==
  ASSUME NEW s \in Settings, NEW v \in Volumes
  PROVE  [s EXCEPT !.volume = v] \in Settings
  BY DEF Settings

LEMMA OutputSaved ==
  ASSUME NEW s \in Settings, NEW o \in OutputNames
  PROVE  [s EXCEPT !.output = o] \in Settings
  BY DEF Settings

LEMMA ModeSaved ==
  ASSUME NEW s \in Settings, NEW m \in Mode
  PROVE  [s EXCEPT !.ms = m.ms] \in Settings
<1>1. m.ms \in 50 .. 4000
  BY DEF Mode
<1>2. PICK n \in 50 .. 4000 : n = m.ms
  BY <1>1
<1>3. [s EXCEPT !.ms = n] \in Settings
  BY DEF Settings
<1> QED BY <1>2, <1>3

LEMMA ControlTypeStep ==
  ASSUME TrayInv, [Next]_vars
  PROVE  ControlType'
<1>1. ControlType /\ ChannelType
  BY DEF TrayInv
<1>2. CASE UNCHANGED <<pc, devices, volume, mode, output, saved, scans>>
  BY <1>1, <1>2 DEF ControlType
<1>3. saved \in Settings /\ saved.volume \in Volumes /\ saved.ms \in 50 .. 4000
      /\ saved.output \in OutputNames
  <2>1. saved \in Settings
    BY <1>1 DEF ControlType
  <2> QED BY <2>1 DEF Settings
<1>4. FromLatency(saved.ms) \in Mode
  BY <1>3 DEF FromLatency, Mode
<1>5. cmds # <<>> => Head(cmds) \in Command
  BY <1>1, TakenTypes
<1>6. ASSUME NEW o \in Outputs \cup {Default}, ClickOutput(o) PROVE ControlType'
  <2>1. o \in OutputNames
    BY DEF OutputNames
  <2>2. saved' \in Settings
    <3>1. saved' = [saved EXCEPT !.output = o]
      BY <1>6 DEF ClickOutput
    <3> QED BY <3>1, <1>3, <2>1, OutputSaved
  <2>3. UNCHANGED <<pc, devices, volume, mode, output, scans>>
    BY <1>6 DEF ClickOutput, UserInput, control
  <2> QED BY <2>2, <2>3, <1>1 DEF ControlType
<1>7. CASE StartControl
  <2>1. pc = "starting" /\ scans = 0 /\ UNCHANGED <<devices, volume, mode, output, saved>>
    BY <1>7, <1>1 DEF StartControl, ControlType
  <2>2. (pc' = "scanning" /\ scans' = 1) \/ (pc' = "ended" /\ scans' = 0)
    BY <1>7, <2>1 DEF StartControl, BeginScan
  <2> QED BY <2>1, <2>2, <1>1 DEF ControlType
<1>8. CASE Hear
  BY <1>8, <1>1 DEF Hear, ControlType
<1>9. CASE EndScan
  <2>1. /\ pc \in {"scanning", "hearing"} /\ pc' = "loop" /\ scans' = scans /\ saved' = saved
        /\ scans \in Nat /\ scans > 0
    BY <1>9, <1>1 DEF EndScan, ControlType
  <2>2. devices' \in Seq(Device)
    <3>1. devices' = <<>> \/ devices' \in Listings
      BY <1>9, Zenon DEF EndScan
    <3>2. <<>> \in Seq(Device)
      OBVIOUS
    <3> QED BY <3>1, <3>2, ListingType, Zenon
  <2>3. CASE scans = 1
    <3>1. volume' = saved.volume /\ mode' = FromLatency(saved.ms) /\ output' = saved.output
      BY <1>9, <2>3 DEF EndScan
    <3> QED BY <3>1, <2>1, <2>2, <1>3, <1>4 DEF ControlType
  <2>4. CASE scans # 1
    <3>1. UNCHANGED <<volume, mode, output>> /\ scans > 1
      BY <1>9, <2>1, <2>4 DEF EndScan
    <3> QED BY <3>1, <2>1, <2>2, <1>1 DEF ControlType
  <2> QED BY <2>3, <2>4
<1>10. CASE DoSetTargets \/ KeepAlive
  BY <1>10, <1>1 DEF DoSetTargets, KeepAlive, Receive, Looks, ControlType
<1>11. CASE DoRescan
  <2>1. pc = "loop" /\ pc' = "scanning" /\ scans' = scans + 1
        /\ UNCHANGED <<devices, volume, mode, output, saved>>
    BY <1>11 DEF DoRescan, Receive, BeginScan
  <2> QED BY <2>1, <1>1 DEF ControlType
<1>12. CASE DoSetVolume
  <2>1. Head(cmds).volume \in Volumes
    BY <1>12, <1>5, CommandTypes DEF DoSetVolume, Receive
  <2>2. /\ pc = "loop" /\ pc' = "keepalive" /\ volume' = Head(cmds).volume
        /\ saved' = [saved EXCEPT !.volume = Head(cmds).volume]
        /\ UNCHANGED <<devices, mode, output, scans>>
    BY <1>12 DEF DoSetVolume, Receive
  <2>3. saved' \in Settings
    BY <1>3, <2>1, <2>2, VolumeSaved
  <2> QED BY <2>1, <2>2, <2>3, <1>1 DEF ControlType
<1>13. CASE DoSetMode
  <2>1. Head(cmds).mode \in Mode
    BY <1>13, <1>5, CommandTypes DEF DoSetMode, Receive
  <2>2. pc = "loop" /\ pc' = "keepalive" /\ UNCHANGED <<devices, volume, output, scans>>
    BY <1>13 DEF DoSetMode, Receive
  <2>3. CASE Head(cmds).mode = mode
    <3>1. UNCHANGED <<mode, saved>>
      BY <1>13, <2>3 DEF DoSetMode
    <3> QED BY <2>2, <3>1, <1>1 DEF ControlType
  <2>4. CASE Head(cmds).mode # mode
    <3>1. mode' = Head(cmds).mode /\ saved' = [saved EXCEPT !.ms = mode'.ms]
      BY <1>13, <2>4 DEF DoSetMode
    <3>2. mode' \in Mode
      BY <2>1, <3>1
    <3>3. saved' \in Settings
      BY <1>3, <3>1, <3>2, ModeSaved
    <3> QED BY <2>1, <2>2, <3>1, <3>3, <1>1 DEF ControlType
  <2> QED BY <2>3, <2>4
<1>14. CASE DoSetOutput
  <2>1. Head(cmds).output \in OutputNames
    BY <1>14, <1>5, CommandTypes DEF DoSetOutput, Receive
  <2>2. /\ pc = "loop" /\ pc' = "keepalive" /\ UNCHANGED <<devices, volume, mode, saved, scans>>
        /\ output' \in {output, Head(cmds).output}
    BY <1>14 DEF DoSetOutput, Receive
  <2> QED BY <2>1, <2>2, <1>1 DEF ControlType
<1>15. CASE DoQuit
  BY <1>15, <1>1 DEF DoQuit, ControlType
<1>16. CASE \/ PressHotkey \/ ClickOff \/ ClickSettings \/ ClickQuit \/ ClickRescan
            \/ \E i \in Index : ClickDevice(i)
            \/ \E v \in Volumes : MoveSlider(v)
            \/ \E m \in Modes : PickMode(m)
            \/ \E key \in BOOLEAN : Save(key)
            \/ CloseWindow \/ RoundNext \/ Elapse \/ UNCHANGED vars
  <2>1. UNCHANGED <<pc, devices, volume, mode, output, saved, scans>>
    BY <1>16, Zenon DEF RoundNext, vars, control, PressHotkey, ClickOff, ClickSettings, ClickQuit,
       ClickRescan, ClickDevice, MoveSlider, PickMode, Save, CloseWindow, UserInput, WindowInput,
       StartUp, TakeUpdate, TakeHotkeys, TakeStatus, EndRound, Exit, Elapse
  <2> QED BY <2>1, <1>2
<1> QED BY <1>6, <1>7, <1>8, <1>9, <1>10, <1>11, <1>12, <1>13, <1>14, <1>15, <1>16
        DEF Next, ControlNext, UserNext

\* Until the first list is there, nobody asks for anything.
LEMMA StartStep ==
  ASSUME TrayInv, [Next]_vars
  PROVE  StartInv'
<1>1. CASE round # "starting"
  <2>1. round' # "starting"
    BY <1>1, Zenon DEF Next, ControlNext, UserNext, RoundNext, vars, ui, PressHotkey, ClickOff,
       ClickSettings, ClickQuit, ClickRescan, ClickDevice, ClickOutput, MoveSlider, PickMode, Save,
       CloseWindow, UserInput, WindowInput, StartUp, TakeUpdate, TakeHotkeys, TakeStatus, EndRound,
       Exit, Hear, StartControl, EndScan, Receive, DoSetTargets, DoRescan, DoSetVolume, DoSetMode,
       DoSetOutput, DoQuit, KeepAlive, Elapse
  <2> QED BY <2>1 DEF StartInv
<1>2. CASE round = "starting"
  <2>1. active = {} /\ cmds = <<>> /\ statuses = <<>> /\ window = Closed /\ Streaming = {}
    BY <1>2 DEF TrayInv, StartInv
  <2>2. CASE StartUp
    BY <2>2 DEF StartUp, StartInv
  <2>3. CASE StartControl \/ EndScan \/ Hear \/ KeepAlive \/ UNCHANGED vars
    <3>1. UNCHANGED <<active, cmds, statuses, window, sessions>>
      BY <2>1, <2>3, Zenon DEF StartControl, EndScan, Hear, KeepAlive, vars, ui, channels, control
    <3> QED BY <2>1, <3>1 DEF StartInv, Streaming, Streams
  <2>4. ~UserNext
    BY <1>2, <2>1, Zenon DEF UserNext, UserInput, WindowInput, PressHotkey, ClickOff, ClickSettings,
       ClickQuit, ClickRescan, ClickDevice, ClickOutput, MoveSlider, PickMode, Save, CloseWindow
  <2>5. ~(TakeUpdate \/ TakeHotkeys \/ TakeStatus \/ EndRound \/ Exit \/ Elapse)
    BY <1>2, <2>1 DEF TakeUpdate, TakeHotkeys, TakeStatus, EndRound, Exit, Elapse
  <2>6. ~(DoSetTargets \/ DoRescan \/ DoSetVolume \/ DoSetMode \/ DoSetOutput \/ DoQuit)
    BY <2>1, Zenon DEF DoSetTargets, DoRescan, DoSetVolume, DoSetMode, DoSetOutput, DoQuit, Receive
  <2> QED BY <2>2, <2>3, <2>4, <2>5, <2>6 DEF Next, ControlNext, RoundNext
<1> QED BY <1>1, <1>2

LEMMA TrayStep ==
  ASSUME TrayInv, [Next]_vars
  PROVE  TrayInv'
  BY UiTypeStep, ChannelTypeStep, ControlTypeStep, SessionsStep, StartStep DEF TrayInv

-----------------------------------------------------------------------------
(* The check marks.                                                          *)

Reporting == {"SetTargets", "Rescan"}

\* A command is on its way after which a status will say what streams.
Pending == \E k \in DOMAIN cmds : cmds[k].op \in Reporting

\* Unless there will be a status, the last one waiting is right; if none waits, the marks
\* are; and a device list, which wipes the marks, finds nothing streaming, unless a status
\* overtook it.
MarksFollow ==
  pc # "ended" /\ ~Pending =>
    IF statuses # <<>> THEN Last(statuses).active = Streaming
    ELSE IF updates # <<>> THEN overtaken \/ Streaming = {}
    ELSE active = Streaming \/ (overtaken /\ active = {})

\* What else is left as it was, the marks follow if the queues do.
LEMMA MarksStay ==
  ASSUME MarksFollow, Pending' <=> Pending, pc = "ended" => pc' = "ended", Streaming' = Streaming,
         UNCHANGED <<statuses, updates, active, overtaken>>
  PROVE  MarksFollow'
  BY DEF MarksFollow, Last

LEMMA ReportedFollow ==
  ASSUME ChannelType, Reported
  PROVE  MarksFollow'
<1>1. PICK st \in Status : statuses' = Append(statuses, st) /\ st.active = Streaming'
  BY DEF Reported
<1>2. statuses \in Seq(Status)
  BY DEF ChannelType
<1>3. statuses' # <<>> /\ Last(statuses') = st
  BY <1>1, <1>2 DEF Last
<1> QED BY <1>1, <1>3 DEF MarksFollow

LEMMA SentPending ==
  ASSUME ChannelType, NEW c \in Command, cmds' = Append(cmds, c)
  PROVE  Pending' <=> (Pending \/ c.op \in Reporting)
<1>1. cmds \in Seq(Command)
  BY DEF ChannelType
<1>2. /\ DOMAIN cmds' = DOMAIN cmds \cup {Len(cmds) + 1}
      /\ \A k \in DOMAIN cmds : cmds'[k] = cmds[k]
      /\ cmds'[Len(cmds) + 1] = c
  BY <1>1
<1> QED BY <1>2 DEF Pending

LEMMA TakenPending ==
  ASSUME ChannelType, cmds # <<>>, cmds' = Tail(cmds), Head(cmds).op \notin Reporting
  PROVE  Pending' <=> Pending
<1>1. cmds \in Seq(Command) /\ Len(cmds) \in Nat /\ Len(cmds) > 0
  BY DEF ChannelType
<1>2. /\ DOMAIN cmds = 1 .. Len(cmds) /\ DOMAIN cmds' = 1 .. Len(cmds) - 1
      /\ \A k \in DOMAIN cmds' : cmds'[k] = cmds[k + 1]
      /\ Head(cmds) = cmds[1]
  BY <1>1
<1>3. ASSUME Pending' PROVE Pending
  <2>1. PICK k \in DOMAIN cmds' : cmds'[k].op \in Reporting
    BY <1>3 DEF Pending
  <2>2. k + 1 \in DOMAIN cmds /\ cmds[k + 1].op \in Reporting
    BY <1>1, <1>2, <2>1
  <2> QED BY <2>2 DEF Pending
<1>4. ASSUME Pending PROVE Pending'
  <2>1. PICK k \in DOMAIN cmds : cmds[k].op \in Reporting
    BY <1>4 DEF Pending
  <2>2. k # 1
    BY <1>2, <2>1
  <2>3. k - 1 \in DOMAIN cmds' /\ cmds'[k - 1] = cmds[k]
    BY <1>1, <1>2, <2>1, <2>2
  <2> QED BY <2>1, <2>3 DEF Pending
<1> QED BY <1>3, <1>4

LEMMA MarksStep ==
  ASSUME TrayInv, MarksFollow, [Next]_vars
  PROVE  MarksFollow'
<1>1. ChannelType /\ UiType /\ ControlType
  BY DEF TrayInv
<1> USE DEF Reporting
<1>2. CASE UserNext
  <2>1. UNCHANGED <<pc, sessions>>
    BY <1>2, Zenon DEF UserNext, control, PressHotkey, ClickOff, ClickSettings, ClickQuit, ClickRescan,
       ClickDevice, ClickOutput, MoveSlider, PickMode, Save, CloseWindow, UserInput, WindowInput
  <2>2. Streaming' = Streaming
    BY <2>1 DEF Streaming, Streams
  <2>3. ASSUME NEW c \in Command, Sends(c), c.op \in Reporting PROVE MarksFollow'
    <3>1. Pending'
      BY <2>3, <1>1, SentPending DEF Sends
    <3> QED BY <3>1 DEF MarksFollow
  <2>4. CASE UNCHANGED active
    <3>1. UNCHANGED overtaken
      BY <1>2, Zenon DEF UserNext, PressHotkey, ClickOff, ClickSettings, ClickQuit, ClickRescan,
         ClickDevice, ClickOutput, MoveSlider, PickMode, Save, CloseWindow, UserInput, WindowInput
    <3>2. CASE UNCHANGED <<cmds, updates, statuses>>
      <4>1. Pending' <=> Pending
        BY <3>2 DEF Pending
      <4> QED BY <2>1, <2>2, <2>4, <3>1, <3>2, <4>1, MarksStay
    <3>3. ASSUME NEW c \in Command, Sends(c), c.op \notin Reporting PROVE MarksFollow'
      <4>1. Pending' <=> Pending
        BY <3>3, <1>1, SentPending DEF Sends
      <4> QED BY <2>1, <2>2, <2>4, <3>1, <3>3, <4>1, MarksStay DEF Sends
    <3> QED BY <3>2, <3>3, <2>3, <1>2, InputSends
  <2>5. CASE \/ PressHotkey \/ ClickOff \/ ClickRescan \/ \E i \in Index : ClickDevice(i)
    <3>1. cmds' = Append(cmds, Rescan) \/ \E S : cmds' = Append(cmds, SetTargets(S))
      BY <2>5, Zenon DEF PressHotkey, ClickOff, ClickRescan, ClickDevice, Target
    <3>2. PICK c \in Command : Sends(c)
      <4>1. Len(cmds') = Len(cmds) + 1
        BY <3>1, <1>1 DEF ChannelType
      <4>2. cmds' # cmds
        BY <4>1, <1>1 DEF ChannelType
      <4> QED BY <4>2, <1>2, InputSends
    <3>3. c = Rescan \/ \E S : c = SetTargets(S)
      <4>1. cmds'[Len(cmds) + 1] = c
        BY <3>2, <1>1 DEF Sends, ChannelType
      <4>2. \A d : cmds' = Append(cmds, d) => cmds'[Len(cmds) + 1] = d
        BY <1>1 DEF ChannelType
      <4> QED BY <3>1, <4>1, <4>2, Zenon
    <3>4. c.op \in Reporting
      BY <3>3 DEF Rescan, SetTargets
    <3> QED BY <3>2, <3>4, <2>3
  <2>6. CASE \/ ClickSettings \/ ClickQuit \/ CloseWindow
             \/ \E o \in Outputs \cup {Default} : ClickOutput(o)
             \/ \E v \in Volumes : MoveSlider(v)
             \/ \E m \in Modes : PickMode(m)
             \/ \E key \in BOOLEAN : Save(key)
    <3>1. UNCHANGED active
      BY <2>6, Zenon DEF ClickSettings, ClickQuit, CloseWindow, ClickOutput, MoveSlider, PickMode, Save,
         UserInput, WindowInput, ui
    <3> QED BY <3>1, <2>4
  <2> QED BY <1>2, <2>5, <2>6 DEF UserNext
<1>3. CASE StartUp
  <2>1. active = {} /\ statuses = <<>> /\ Streaming = {}
    BY <1>3 DEF StartUp, TrayInv, StartInv
  <2>2. UNCHANGED <<active, statuses, pc, sessions>>
    BY <1>3 DEF StartUp, control
  <2>3. Streaming' = Streaming
    BY <2>2 DEF Streaming, Streams
  <2> QED BY <2>1, <2>2, <2>3 DEF MarksFollow
<1>4. CASE TakeUpdate
  <2>1. /\ active' = {} /\ updates # <<>>
        /\ UNCHANGED <<statuses, pc, sessions, cmds, overtaken>>
    BY <1>4 DEF TakeUpdate, control
  <2>2. Streaming' = Streaming /\ (Pending' <=> Pending)
    BY <2>1 DEF Streaming, Streams, Pending
  <2> QED BY <2>1, <2>2 DEF MarksFollow, Last
<1>5. CASE TakeStatus
  <2>1. /\ statuses # <<>> /\ statuses' = Tail(statuses) /\ active' = Head(statuses).active
        /\ overtaken' = (updates # <<>>)
        /\ UNCHANGED <<updates, pc, sessions, cmds>>
    BY <1>5 DEF TakeStatus, control
  <2>2. Streaming' = Streaming /\ (Pending' <=> Pending)
    BY <2>1 DEF Streaming, Streams, Pending
  <2>3. statuses \in Seq(Status)
    BY <1>1 DEF ChannelType
  <2>4. CASE statuses' # <<>>
    <3>1. Last(statuses') = Last(statuses)
      BY <2>1, <2>3, <2>4 DEF Last
    <3> QED BY <2>1, <2>2, <2>4, <3>1 DEF MarksFollow
  <2>5. CASE statuses' = <<>>
    <3>1. Last(statuses) = Head(statuses)
      <4>1. Len(statuses) = 1
        <5>1. Len(Tail(statuses)) = Len(statuses) - 1 /\ Len(statuses) \in Nat
          BY <2>1, <2>3
        <5>2. Tail(statuses) = <<>> /\ Len(<<>>) = 0
          BY <2>1, <2>5
        <5>3. Len(Tail(statuses)) = 0
          BY <5>2, Zenon
        <5> QED BY <5>1, <5>3
      <4> QED BY <2>3, <4>1 DEF Last
    <3> QED BY <2>1, <2>2, <2>5, <3>1 DEF MarksFollow
  <2> QED BY <2>4, <2>5
<1>6. CASE TakeHotkeys \/ EndRound \/ Exit \/ Hear \/ UNCHANGED vars
  <2>1. UNCHANGED <<cmds, updates, statuses, active, sessions, overtaken>>
        /\ (pc = "ended" => pc' = "ended")
    BY <1>6 DEF TakeHotkeys, EndRound, Exit, Hear, vars, ui, channels, control
  <2>2. Streaming' = Streaming /\ (Pending' <=> Pending)
    BY <2>1 DEF Streaming, Streams, Pending
  <2> QED BY <2>1, <2>2, MarksStay
<1>7. CASE StartControl
  <2>1. CASE pc' = "ended"
    BY <2>1 DEF MarksFollow
  <2>2. CASE pc' # "ended"
    <3>1. UNCHANGED <<cmds, updates, statuses, active, sessions, overtaken>> /\ pc # "ended"
      BY <1>7, <2>2 DEF StartControl, ui
    <3>2. Streaming' = Streaming /\ (Pending' <=> Pending)
      BY <3>1 DEF Streaming, Streams, Pending
    <3> QED BY <3>1, <3>2, MarksStay
  <2> QED BY <2>1, <2>2
<1>8. CASE EndScan
  <2>1. /\ UNCHANGED <<cmds, statuses, active, sessions, overtaken>>
        /\ pc \in {"scanning", "hearing"}
        /\ \E u : updates' = Append(updates, u)
    BY <1>8, Zenon DEF EndScan, ui
  <2>2. Streaming' = Streaming /\ (Pending' <=> Pending)
    BY <2>1 DEF Streaming, Streams, Pending
  <2>3. Streaming = {}
    BY <2>1 DEF TrayInv, SessionsInv
  <2>4. updates' # <<>>
    <3>1. updates \in Seq(Update)
      BY <1>1 DEF ChannelType
    <3> QED BY <2>1, <3>1
  <2> QED BY <2>1, <2>2, <2>3, <2>4 DEF MarksFollow, Last
<1>9. CASE DoSetTargets \/ DoRescan
  BY <1>9, <1>1, TargetsTold, RescanTold, ReportedFollow
<1>10. CASE DoSetVolume \/ DoSetMode \/ DoSetOutput
  <2>1. CASE Reported
    BY <2>1, <1>1, ReportedFollow
  <2>2. CASE ~Reported
    <3>1. Streaming' = Streaming /\ UNCHANGED statuses
      BY <1>10, <2>2, VolumeTold, ModeTold, OutputTold DEF Told
    <3>2. /\ cmds # <<>> /\ cmds' = Tail(cmds) /\ Head(cmds).op \notin Reporting
          /\ UNCHANGED <<updates, active, overtaken>> /\ pc # "ended"
      BY <1>10 DEF DoSetVolume, DoSetMode, DoSetOutput, Receive, ui
    <3>3. Pending' <=> Pending
      BY <3>2, <1>1, TakenPending
    <3> QED BY <3>1, <3>2, <3>3, MarksStay
  <2> QED BY <2>1, <2>2
<1>11. CASE DoQuit
  BY <1>11 DEF DoQuit, MarksFollow
<1>12. CASE KeepAlive \/ Elapse
  <2>1. CASE Reported
    BY <2>1, <1>1, ReportedFollow
  <2>2. CASE ~Reported
    <3>1. Streaming' = Streaming /\ UNCHANGED statuses
      BY <1>12, <2>2, KeepAliveTold, ElapseTold DEF Told
    <3>2. UNCHANGED <<cmds, updates, active, overtaken>> /\ pc # "ended"
      BY <1>12 DEF KeepAlive, Elapse, Looks, ui, channels
    <3>3. Pending' <=> Pending
      BY <3>2 DEF Pending
    <3> QED BY <3>1, <3>2, <3>3, MarksStay
  <2> QED BY <2>1, <2>2
<1> QED BY <1>2, <1>3, <1>4, <1>5, <1>6, <1>7, <1>8, <1>9, <1>10, <1>11, <1>12
        DEF Next, ControlNext, RoundNext

LEMMA TrayInit ==
  ASSUME Init
  PROVE  TrayInv /\ MarksFollow
<1>1. sessions = AllStopped
  BY DEF Init
<1>2. Streaming = {}
  BY <1>1, AllStoppedIsCurrent DEF Streaming, Streams
<1>3. SessionsInv
  BY <1>1, <1>2, AllStoppedIsCurrent DEF SessionsInv
<1>4. UiType
  BY DEF Init, UiType, Closed
<1>5. ChannelType
  BY DEF Init, ChannelType
<1>6. ControlType
  <2>1. saved \in Settings
    <3>1. saved \in Files
      BY DEF Init
    <3> QED BY <3>1, ModeTypes
  <2>2. /\ pc = "starting" /\ devices = <<>> /\ volume = Unknown /\ output = Default /\ scans = 0
    BY DEF Init
  <2>3. output \in OutputNames
    BY <2>2 DEF OutputNames
  <2> QED BY <2>1, <2>2, <2>3 DEF ControlType
<1>7. StartInv
  BY <1>2 DEF Init, StartInv
<1>8. MarksFollow
  BY <1>2 DEF Init, MarksFollow
<1> QED BY <1>3, <1>4, <1>5, <1>6, <1>7, <1>8 DEF TrayInv

\* The variables keep their types: the indices in every mark, command and status are
\* among the receivers there can be, and a session is of the receiver its index names.
THEOREM TypeCorrect == Spec => []TypeOK
<1>1. TrayInv /\ TableInv => TypeOK
  <2> SUFFICES ASSUME TrayInv, TableInv PROVE TypeOK
    OBVIOUS
  <2>1. UiType /\ ControlType /\ AreCurrent(sessions, devices, volume, mode, output)
    BY DEF TrayInv, SessionsInv
  <2>2. \A i \in Index : sessions[i] \in Session \cup {NoSession}
    BY <2>1 DEF AreCurrent, IsCurrent
  <2>3. sessions \in [Index -> Session \cup {NoSession}]
    BY <2>1, <2>2 DEF AreCurrent
  <2>4. \A i \in Index : Streams(i) => i \in DOMAIN devices /\ sessions[i].device = devices[i]
    BY <2>1 DEF AreCurrent, IsCurrent, Streams
  <2>5. window \in [preset : BOOLEAN, ms : 0 .. 4000]
    <3>1. Closed \in [preset : BOOLEAN, ms : 0 .. 4000]
      BY DEF Closed
    <3>2. ASSUME NEW m \in Mode PROVE m \in [preset : BOOLEAN, ms : 0 .. 4000]
      BY DEF Mode
    <3>3. window \in Mode \/ window = Closed
      BY <2>1 DEF UiType
    <3>4. CASE window = Closed
      BY <3>4, <3>1
    <3>5. CASE window \in Mode
      BY <3>5, <3>2
    <3> QED BY <3>3, <3>4, <3>5
  <2>6. TableType
    BY DEF TableInv
  <2> QED BY <2>1, <2>3, <2>4, <2>5, <2>6 DEF TypeOK, UiType, ControlType
<1>2. Init => TrayInv
  BY TrayInit
<1>3. Init => TableInv
  BY TableInit
<1> QED BY <1>1, <1>2, <1>3, TrayStep, TableStep, PTL DEF Spec

\* Whatever was queued while it started, a session streams in the mode, from the output
\* and at the volume chosen last (reconcile_targets, tray.rs:515; control_loop, tray.rs:564).
THEOREM SessionsStayCurrent == Spec => []SessionsAreCurrent
<1>1. TrayInv => SessionsAreCurrent
  BY StreamingIsCurrent DEF TrayInv, SessionsAreCurrent, IsCurrent
<1>2. Init => TrayInv
  BY TrayInit
<1> QED BY <1>1, <1>2, TrayStep, PTL DEF Spec

\* The check marks are the sessions once everything sent was handled; a status that
\* overtook a device list aside (tray.rs:5-6, run, tray.rs:312 and tray.rs:355).
THEOREM MarksStayTrue == Spec => []MarksAreTrue
<1>1. TrayInv /\ MarksFollow => MarksAreTrue
  <2> SUFFICES ASSUME MarksFollow, Quiet PROVE IF overtaken THEN active \subseteq Streaming ELSE active = Streaming
    BY DEF MarksAreTrue
  <2>1. ~Pending
    BY DEF Pending, Quiet
  <2> QED BY <2>1 DEF MarksFollow, Quiet
<1>2. Init => TrayInv /\ MarksFollow
  BY TrayInit
<1>3. TrayInv /\ MarksFollow /\ [Next]_vars => (TrayInv /\ MarksFollow)'
  BY TrayStep, MarksStep
<1> QED BY <1>1, <1>2, <1>3, PTL DEF Spec
=============================================================================
