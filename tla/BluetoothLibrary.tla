-------------------------- MODULE BluetoothLibrary --------------------------
(***************************************************************************)
(* The calls of the crate airplay-bluetooth: on the adapter (adapter.rs),  *)
(* on phones (pairing.rs), the scan for them (discovery.rs), the wait for  *)
(* one that plays (a2dp.rs), and the installation of the two services all  *)
(* of these need (setup.rs).                                               *)
(*                                                                         *)
(* BlueZ and the packages are external: what they say of the adapter and   *)
(* of a phone changes while a call is under way, and every request can     *)
(* fail.  A call is a sequence of steps, one for each request, with the    *)
(* question before it whether there is anything to do; a question that     *)
(* fails counts as a no.                                                   *)
(***************************************************************************)
EXTENDS Naturals, SequencesExt

CONSTANTS Phones,
          MaxCalls,   \* bound: calls
          MaxChanges  \* bound: changes of BlueZ's own

ASSUME BluetoothLibraryAssumption ==
  IsFiniteSet(Phones) /\ Phones # {} /\ {MaxCalls, MaxChanges} \subseteq Nat

VARIABLES
  services, \* bluez and bluealsa: how far each is
  modes,    \* what the adapter has on
  facts,    \* what BlueZ says of each phone; nothing of one it does not know
  call,     \* the call under way, or the last one: name, next step, phone, outcome, and what it read first
  held,     \* what was so of its phone and of the adapter at some moment of it
  found,    \* the phones a scan has listed
  events,   \* phones the adapter has announced and the call has not read
  sink,     \* A2dpSink: state and phone
  budget      \* calls and changes still to come

libraryVars == <<services, modes, facts, call, held, found, events, sink, budget>>
blueZ == <<modes, facts>>
heardOf == <<found, events, sink>>

Modes == {"powered", "discoverable", "pairable"}
Service == {"bluez", "bluealsa"}
AllRunning == [s \in Service |-> "Ok"]
SomePhone == CHOOSE p \in Phones : TRUE

LibraryInit ==
  /\ services \in [Service -> {"NotInstalled", "NotRunning", "Ok"}]
  /\ modes \in {{}, Modes}
  /\ facts \in [Phones -> {{}, {"known"}, {"known", "paired", "connected"}}]
  /\ services # AllRunning => modes = {} /\ \A p \in Phones : facts[p] = {}
  /\ call = [name |-> "none", at |-> "returned", who |-> SomePhone, ok |-> FALSE, read |-> <<>>]
  /\ held = {} /\ found = <<>> /\ events = <<>>
  /\ sink = [state |-> "Disconnected", of |-> {}]
  /\ budget = [calls |-> MaxCalls, changes |-> MaxChanges]

Known == {p \in Phones : facts[p] # {}}
Listing(ps) == CHOOSE s \in SetToSeqs(ps) : TRUE

(***************************************************************************)
(* The steps of a call. Its phone is call.who.                             *)
(***************************************************************************)
Does(name, at) == call.name = name /\ call.at = at
Its == facts[call.who]
Says(fs) == fs \cup {s \in {"apart"} : "connected" \notin fs} \cup {s \in {"forgotten"} : fs = {}}
Gathers == held' = held \cup Says(facts'[call.who]) \cup modes'
Goes(at) == call' = [call EXCEPT !.at = at] /\ Gathers
Returns(ok) == call' = [call EXCEPT !.at = "returned", !.ok = ok] /\ Gathers
Returning(p) == call' = [call EXCEPT !.at = "returned", !.ok = TRUE, !.who = p] /\ held' = Says(facts[p])

Becomes(fs) == Its # {} /\ facts' = [facts EXCEPT ![call.who] = fs] /\ UNCHANGED modes

BeginCall(name, first, who, read) ==
  /\ budget.calls > 0 /\ call.at = "returned"
  /\ budget' = [budget EXCEPT !.calls = @ - 1]
  /\ call' = [name |-> name, at |-> first, who |-> who, ok |-> FALSE, read |-> read]
  /\ held' = Says(facts[who]) \cup modes /\ found' = <<>> /\ events' = <<>>
  /\ UNCHANGED <<services, blueZ, sink>>

BeginsCall ==
  \/ BeginCall("auto_install", "apt", SomePhone, services)
  \/ /\ services = AllRunning
     /\ \/ BeginCall("make_connectable", "powered", SomePhone, <<>>)
        \/ \E name \in {"scan", "wait_for_connection"} : BeginCall(name, "list", SomePhone, <<>>)
        \/ \E p \in Known : \/ \E name \in {"pair", "pair_and_connect"} : BeginCall(name, "pair", p, <<>>)
                            \/ \E at \in {"connect", "disconnect", "remove"} : BeginCall(at, at, p, <<>>)

\* A request fails, or takes too long.  It may have been made of a phone that is paired, connected
\* or apart already: the question before it failed, or was answered before that came about.
RequestFails ==
  /\ call.at \in {"pair", "trust", "connect", "disconnect", "remove", "list", "discover", "apt",
                  "bluez", "bluealsa"} \cup Modes
  /\ call.at \in Service => call.read[call.at] # "Ok"
  /\ UNCHANGED <<services, blueZ, heardOf, budget>> /\ Returns(FALSE)

\* PairingManager::pair: a phone that says it is paired is left as it is.
PairFirst ==
  /\ call.at = "pair"
  /\ \/ "paired" \in Its /\ UNCHANGED blueZ /\ IF call.name = "pair" THEN Returns(TRUE) ELSE Goes("trust")
     \/ Becomes(Its \cup {"paired"}) /\ Goes("auto-trust")
  /\ UNCHANGED <<services, heardOf, budget>>

\* Mutant: a phone trusted on pairing is not trusted again.
AutoTrustBadly ==
  /\ call.at = "auto-trust"
  /\ UNCHANGED blueZ \/ Becomes(Its \cup {"trusted"})
  /\ IF call.name = "pair" THEN Returns(TRUE) ELSE Goes("connect")
  /\ UNCHANGED <<services, heardOf, budget>>

\* That trusting it fails is only logged.
AutoTrust ==
  /\ call.at = "auto-trust"
  /\ UNCHANGED blueZ \/ Becomes(Its \cup {"trusted"})
  /\ IF call.name = "pair" THEN Returns(TRUE) ELSE Goes("trust")
  /\ UNCHANGED <<services, heardOf, budget>>

TrustNext ==
  /\ call.at = "trust" /\ Becomes(Its \cup {"trusted"}) /\ Goes("connect")
  /\ UNCHANGED <<services, heardOf, budget>>

ConnectLast ==
  /\ call.at = "connect"
  /\ ("connected" \in Its /\ UNCHANGED blueZ) \/ Becomes(Its \cup {"connected"})
  /\ Returns(TRUE)
  /\ UNCHANGED <<services, heardOf, budget>>

\* A phone that is not connected is left as it is, and so is one that cannot be asked.
DisconnectIt ==
  /\ call.at = "disconnect"
  /\ \/ Becomes(Its \ {"connected"}) /\ Returns(TRUE)
     \/ "connected" \notin Its /\ UNCHANGED blueZ /\ Returns(TRUE)
     \/ /\ UNCHANGED blueZ /\ held' = held \cup {"unasked"}
        /\ call' = [call EXCEPT !.at = "returned", !.ok = TRUE]
  /\ UNCHANGED <<services, heardOf, budget>>

ForgetPhone ==
  /\ call.at = "remove" /\ Becomes({}) /\ Returns(TRUE)
  /\ UNCHANGED <<services, heardOf, budget>>

\* make_connectable turns on one after the other; power only if it is off.
TurnOn ==
  /\ call.at \in Modes
  /\ modes' = modes \cup {call.at} /\ UNCHANGED facts
  /\ CASE call.at = "powered" -> Goes("discoverable")
       [] call.at = "discoverable" -> Goes("pairable")
       [] call.at = "pairable" -> Returns(TRUE)
  /\ UNCHANGED <<services, heardOf, budget>>

\* DeviceScanner::scan: the phones known first, but for those BlueZ does not give when asked for
\* one of them.
ListKnown ==
  /\ Does("scan", "list")
  /\ UNCHANGED <<services, blueZ, events, sink, budget>>
  /\ IF "powered" \in modes
     THEN \E had \in SUBSET Known :
            found' = Listing(had) /\ call' = [call EXCEPT !.at = "discover", !.read = had] /\ Gathers
     ELSE Returns(FALSE) /\ UNCHANGED found

\* A2dpSink::wait_for_connection: a phone that is connected already is the one, if it can be asked.
FindConnected ==
  /\ Does("wait_for_connection", "list")
  /\ UNCHANGED <<services, blueZ, found, events, budget>>
  /\ \/ \E p \in Known : /\ "connected" \in facts[p]
                         /\ sink' = [state |-> "Connected", of |-> {p}] /\ Returning(p)
     \/ Goes("discover") /\ UNCHANGED sink

\* The adapter may announce the phones it knows once more.
Discover ==
  /\ call.at = "discover"
  /\ events' \in {<<>>, Listing(Known)}
  /\ UNCHANGED <<services, blueZ, found, sink, budget>> /\ Goes("listen")

\* A phone listed when the scan began is not listed again, nor one that BlueZ does not give.
ScanHears ==
  /\ Does("scan", "listen") /\ events # <<>>
  /\ events' = Tail(events)
  /\ \/ UNCHANGED found
     \/ Head(events) \notin call.read /\ found' = Append(found, Head(events))
  /\ UNCHANGED <<services, blueZ, call, held, sink, budget>>

SinkHears ==
  /\ Does("wait_for_connection", "listen") /\ events # <<>>
  /\ events' = Tail(events) /\ UNCHANGED <<services, blueZ, found, budget>>
  /\ \/ /\ "connected" \in facts[Head(events)]
        /\ sink' = [state |-> "Connected", of |-> {Head(events)}] /\ Returning(Head(events))
     \/ UNCHANGED <<call, held, sink>>

\* Time is up: for a scan that is its end, for a wait a failure.
TimeIsUp ==
  /\ call.at = "listen"
  /\ UNCHANGED <<services, blueZ, heardOf, budget>> /\ Returns(call.name = "scan")

\* set_connected_device(None) and set_streaming.
SetSink ==
  /\ call.at = "returned" /\ sink.of # {}
  /\ \/ sink' = [state |-> "Disconnected", of |-> {}]
     \/ \E s \in {"Streaming", "Connected"} : sink' = [sink EXCEPT !.state = s]
  /\ UNCHANGED <<services, blueZ, call, held, found, events, budget>>

(***************************************************************************)
(* SystemSetup::auto_install. What is done about a service depends on what *)
(* was read of both at the start; a package may start what it installs.    *)
(***************************************************************************)
HasApt == call.at = "apt" /\ UNCHANGED <<services, blueZ, heardOf, budget>> /\ Goes("bluez")

Provide(s, next) ==
  /\ call.at = s
  /\ services' \in {[services EXCEPT ![s] = v] :
        v \in CASE call.read[s] = "NotInstalled" -> {"NotRunning", "Ok"}
                [] call.read[s] = "NotRunning" -> {"Ok"}
                [] OTHER -> {services[s]}}
  /\ UNCHANGED <<blueZ, heardOf, budget>> /\ Goes(next)

\* The end of it is to look once more.
Verify == call.at = "verify" /\ UNCHANGED <<services, blueZ, heardOf, budget>> /\ Returns(services = AllRunning)

(***************************************************************************)
(* BlueZ's own changes, external: a phone comes, connects, leaves, is      *)
(* forgotten; the adapter is turned off.                                   *)
(***************************************************************************)
Changes ==
  /\ services = AllRunning /\ budget.changes > 0 /\ budget' = [budget EXCEPT !.changes = @ - 1]
  /\ \/ \E p \in Phones :
          /\ \/ /\ facts[p] = {} /\ facts' = [facts EXCEPT ![p] = {"known"}]
                /\ events' = IF call.at = "listen" THEN Append(events, p) ELSE events
             \/ /\ facts[p] # {} /\ UNCHANGED events
                /\ facts' \in {[facts EXCEPT ![p] = fs] : fs \in {facts[p] \cup {"connected"}, facts[p] \ {"connected"}, {}}}
          /\ UNCHANGED modes
     \/ modes' = {} /\ UNCHANGED <<facts, events>>
  /\ Gathers
  /\ UNCHANGED <<services, call, found, sink>>

LibraryNext ==
  \/ BeginsCall \/ RequestFails \/ PairFirst \/ AutoTrust \/ TrustNext \/ ConnectLast \/ DisconnectIt \/ ForgetPhone
  \/ TurnOn \/ ListKnown \/ FindConnected \/ Discover \/ ScanHears \/ SinkHears \/ TimeIsUp \/ SetSink
  \/ HasApt \/ Provide("bluez", "bluealsa") \/ Provide("bluealsa", "verify") \/ Verify
  \/ Changes

-----------------------------------------------------------------------------
Answered(name) == call.name = name /\ call.at = "returned" /\ call.ok

\* What a call that says Ok was asked for was so at some moment of it, whatever phones and adapter
\* did meanwhile and whichever requests failed without failing the call.  A disconnect is the
\* exception: when BlueZ cannot say whether the phone is connected it says Ok all the same.  A scan
\* lists every phone known when it started that BlueZ gave it, and the sink has a phone just when
\* it says so.
OkIsMeant ==
  /\ Answered("pair_and_connect") => {"paired", "trusted", "connected"} \subseteq held
  /\ Answered("pair") => "paired" \in held
  /\ Answered("connect") => "connected" \in held
  /\ Answered("disconnect") => "apart" \in held \/ "unasked" \in held
  /\ Answered("remove") => "forgotten" \in held
  /\ Answered("wait_for_connection") => "connected" \in held
  /\ Answered("make_connectable") => Modes \subseteq held
  /\ Answered("scan") => call.read \subseteq Range(found)
  /\ Answered("auto_install") => services = AllRunning
  /\ (sink.state = "Disconnected") = (sink.of = {})
=============================================================================
