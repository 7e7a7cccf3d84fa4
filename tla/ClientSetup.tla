---------------------------- MODULE ClientSetup ----------------------------
(***************************************************************************)
(* How AirPlayClient connects one receiver or a group                      *)
(* (crates/airplay-client/src/client.rs) and what Connection::setup,       *)
(* setup_for_group and disconnect (connection.rs) start and end on the     *)
(* way: the NTP server, the PTP task that owns UDP ports 319 and 320 and   *)
(* measures the offset to the receiver's clock, the tasks that pass this   *)
(* offset on to the other members, and the streamer that follows it.       *)
(*                                                                         *)
(* Connections are numbered in the order they are made.  A task's handle   *)
(* lives in its connection; a connection that is dropped detaches its      *)
(* task, which goes on.  Offsets are the numbers of the measurements, 0    *)
(* the default nothing was measured for.  The requests of a setup and the  *)
(* session are one wait (Connection has them), as is pairing (Pairing).    *)
(***************************************************************************)
EXTENDS Naturals, FiniteSets, SequencesExt

CONSTANTS
  MaxConns,   \* bound: connections made
  MaxCalls,   \* bound: calls on the client
  MaxOffset,  \* bound: offsets measured by one task
  Sizes,      \* numbers of receivers a call connects
  Protocols,  \* "ntp", "slave", "master": timing_protocol and ptp_mode
  Faults      \* whether requests, sockets and tasks may fail

ASSUME ClientSetupAssumption ==
  /\ MaxConns \in Nat /\ MaxCalls \in Nat /\ MaxOffset \in Nat
  /\ Sizes \subseteq Nat \ {0}
  /\ Protocols \subseteq {"ntp", "slave", "master"}
  /\ Faults \in BOOLEAN

VARIABLES
  pc,        \* the await of the client's call, or "idle"
  size,      \* receivers the call connects
  protocol,  \* timing of the call's connections
  calls, made,
  held,      \* connection, then group_connections
  building,  \* connections in the call's locals
  conn,      \* what setup stored in each connection
  task,      \* its timing task: server, PTP flow or forwarder
  seen,      \* the measurement the forwarder, or the streamer, has looked at
  stream,    \* the streamer: the offset it uses
  abandoned  \* history: connections dropped with their task's handle

vars == <<pc, size, protocol, calls, made, held, building, conn, task, seen, stream, abandoned>>

Conns == 1 .. MaxConns
None == 0
Primary == building[1]
Current == building[Len(building)]

NoTask == [kind |-> "none", life |-> "ended", ports |-> FALSE, measured |-> 0, source |-> None,
           blocker |-> None]
Started(kind, c) == [NoTask EXCEPT !.kind = kind, !.life = "starting", !.source = c]

\* clock: the receiver's identity was learned, "silent" if it did not announce itself.
NewConn == [stage |-> "paired", clock |-> "none", offset |-> 0, from |-> 0, handle |-> FALSE]
NoStream == [on |-> FALSE, conn |-> None, offset |-> 0, from |-> 0]

Alive(c) == task[c].life \in {"starting", "negotiating", "following", "woken"}
HoldsPorts(c) == task[c].ports /\ task[c].life # "ended"

Init ==
  /\ pc = "idle" /\ size = 0 /\ protocol \in Protocols
  /\ calls = 0 /\ made = 0 /\ held = <<>> /\ building = <<>>
  /\ conn = [c \in Conns |-> NewConn] /\ task = [c \in Conns |-> NoTask]
  /\ seen = [c \in Conns |-> 0] /\ stream = NoStream /\ abandoned = {}

-----------------------------------------------------------------------------
(* Leaving: disconnect().                                                    *)

\* Mutant: the forwarder's and the slave's handle are left alone.
AbortedBadly(c) ==
  IF ~conn[c].handle THEN task[c]
  ELSE [task[c] EXCEPT !.life = IF task[c].kind = "ntp" \/ @ = "ended" THEN "ended"
                                ELSE IF task[c].kind = "master" THEN "aborted" ELSE @]

\* abort() only asks; the NTP server is waited for.
Aborted(c) ==
  IF ~conn[c].handle THEN task[c]
  ELSE [task[c] EXCEPT !.life = IF task[c].kind = "ntp" \/ @ = "ended" THEN "ended" ELSE "aborted"]

Left(left) ==
  /\ task' = [c \in Conns |-> IF c \in left THEN Aborted(c) ELSE task[c]]
  /\ conn' = [c \in Conns |-> IF c \in left THEN [conn[c] EXCEPT !.handle = FALSE, !.stage = "closed"]
                              ELSE conn[c]]

\* The group's streamer is stopped, then each member is left, whatever its requests answer.
LeaveMembers ==
  /\ pc = "leaving" /\ Len(held) > 1
  /\ Left(Range(Tail(held)))
  /\ held' = <<held[1]>> /\ stream' = NoStream
  /\ UNCHANGED <<pc, size, protocol, calls, made, building, seen, abandoned>>

LeavePrimary ==
  /\ pc = "leaving" /\ Len(held) = 1
  /\ Left({held[1]})
  /\ held' = <<>> /\ stream' = NoStream
  /\ pc' = IF size = 0 THEN "idle" ELSE "connecting"
  /\ UNCHANGED <<size, protocol, calls, made, building, seen, abandoned>>

\* The caller gives up at some member; or the primary's streamer does not stop, which
\* ends the call at once, or its socket does not close.
LeavingFails ==
  /\ pc = "leaving" /\ Faults
  /\ IF Len(held) > 1
     THEN \E n \in 1 .. Len(held) : Left(Range(SubSeq(held, 2, n)))
     ELSE \E left \in {{}, {held[1]}} : Left(left)
  /\ stream' \in {stream, NoStream} /\ pc' = "idle"
  /\ UNCHANGED <<size, protocol, calls, made, held, building, seen, abandoned>>

-----------------------------------------------------------------------------
(* Connecting: connect() and connect_group().                                *)

\* A dropped connection keeps nothing from running.
Dropped ==
  /\ pc' = "idle"
  /\ building' = <<>>
  /\ abandoned' = abandoned \cup {c \in Range(building) : conn[c].handle}
  /\ conn' = [c \in Conns |-> IF c \in Range(building) THEN [conn[c] EXCEPT !.handle = FALSE]
                              ELSE conn[c]]
  /\ UNCHANGED <<size, protocol, calls, made, held, task, seen, stream>>

Called == pc = "idle" /\ calls < MaxCalls /\ calls' = calls + 1

\* connect_group() uses PTP, and the receiver is its master; connect() what is configured.
Connect(n) ==
  /\ Called /\ made + n <= MaxConns
  /\ size' = n
  /\ protocol' \in IF n > 1 THEN {"master"} ELSE Protocols
  /\ pc' = IF held = <<>> THEN "connecting" ELSE "leaving"
  /\ UNCHANGED <<made, held, building, conn, task, seen, stream, abandoned>>

Disconnect ==
  /\ Called /\ held # <<>>
  /\ size' = 0 /\ pc' = "leaving"
  /\ UNCHANGED <<protocol, made, held, building, conn, task, seen, stream, abandoned>>

\* Every receiver is connected and paired before the first is set up.
PairNext ==
  /\ pc = "connecting"
  /\ made' = made + 1
  /\ building' = Append(building, made + 1)
  /\ pc' = IF Len(building) + 1 = size THEN "setup" ELSE "connecting"
  /\ UNCHANGED <<size, protocol, calls, held, conn, task, seen, stream, abandoned>>

\* The connection being set up: the first that is not.
ToSetUp == CHOOSE c \in Range(building) :
             conn[c].stage # "ready" /\ \A d \in Range(building) : conn[d].stage # "ready" => c <= d
AllReady == \A c \in Range(building) : conn[c].stage = "ready"

Serve ==
  /\ pc = "setup" /\ protocol = "ntp"
  /\ task' = [task EXCEPT ![ToSetUp] = [Started("ntp", ToSetUp) EXCEPT !.life = "following"]]
  /\ conn' = [conn EXCEPT ![ToSetUp].handle = TRUE]
  /\ pc' = "served"
  /\ UNCHANGED <<size, protocol, calls, made, held, building, seen, stream, abandoned>>

\* Both SETUP requests are answered and RECORD is over, however it went.
SetUpServed ==
  /\ pc = "served"
  /\ conn' = [conn EXCEPT ![ToSetUp].stage = "ready"]
  /\ pc' = "ready"
  /\ UNCHANGED <<size, protocol, calls, made, held, building, task, seen, stream, abandoned>>

\* The PTP flow is spawned after that.
SetUpPrimary ==
  /\ pc = "setup" /\ protocol # "ntp" /\ ToSetUp = Primary
  /\ task' = [task EXCEPT ![Primary] = Started(protocol, Primary)]
  /\ conn' = [conn EXCEPT ![Primary].handle = TRUE]
  /\ pc' = "sync"
  /\ UNCHANGED <<size, protocol, calls, made, held, building, seen, stream, abandoned>>

\* setup() waits for the clock identity, which the yielding flow reports in time unless
\* it ended, and half a second for an offset.
Synced ==
  /\ pc = "sync"
  /\ protocol = "master" => task[Primary].life \in {"following", "ended"}
  /\ conn' = [conn EXCEPT ![Primary].stage = "ready", ![Primary].offset = task[Primary].measured]
  /\ pc' = IF size > 1 THEN "peers" ELSE "ready"
  /\ UNCHANGED <<size, protocol, calls, made, held, building, task, seen, stream, abandoned>>

\* SETPEERS to the primary; then its clock identity is required, its channel subscribed to.
PeersOfPrimary ==
  /\ pc = "peers" /\ conn[Primary].clock # "none"
  /\ conn' = [conn EXCEPT ![Primary].from = task[Primary].measured]
  /\ pc' = "setup"
  /\ UNCHANGED <<size, protocol, calls, made, held, building, task, seen, stream, abandoned>>

NoClock ==
  /\ pc = "peers" /\ conn[Primary].clock = "none"
  /\ Dropped

\* A member takes over the primary's clock and offset as they were after its setup; its
\* forwarder goes on from the subscription.  SETPEERS follows.
SetUpMember ==
  /\ pc = "setup" /\ protocol # "ntp" /\ ToSetUp # Primary
  /\ conn' = [conn EXCEPT ![ToSetUp] = [conn[Primary] EXCEPT !.handle = TRUE, !.stage = "ready"]]
  /\ task' = [task EXCEPT ![ToSetUp] = [Started("forward", Primary) EXCEPT !.life = "following"]]
  /\ seen' = [seen EXCEPT ![ToSetUp] = conn[Primary].from]
  /\ pc' = IF Cardinality({c \in Range(building) : conn[c].stage # "ready"}) = 1 THEN "ready"
           ELSE "setup"
  /\ UNCHANGED <<size, protocol, calls, made, held, building, stream, abandoned>>

Return ==
  /\ pc = "ready"
  /\ held' = building /\ building' = <<>> /\ pc' = "idle"
  /\ UNCHANGED <<size, protocol, calls, made, conn, task, seen, stream, abandoned>>

\* Any other request fails, or the caller gives up.
ConnectFails ==
  /\ Faults /\ pc \in {"connecting", "setup", "served", "sync", "peers", "ready"}
  /\ Dropped

-----------------------------------------------------------------------------
(* The timing tasks.                                                         *)

\* Both ports, or an ephemeral one instead of each: then the receiver, which sends to
\* 319 and 320, is never heard.
Bind(c) ==
  /\ task[c].kind \in {"slave", "master"} /\ task[c].life = "starting"
  /\ LET holders == {d \in Conns : HoldsPorts(d)}
         next == IF task[c].kind = "master" THEN "negotiating" ELSE "following"
     IN task' = [task EXCEPT ![c] = [@ EXCEPT !.life = next, !.ports = holders = {},
                                              !.blocker = IF holders = {} THEN None
                                                          ELSE CHOOSE d \in holders : TRUE]]
  /\ UNCHANGED <<pc, size, protocol, calls, made, held, building, conn, seen, stream, abandoned>>

\* The receiver's Announce, or three seconds without one; the identity goes to setup().
Negotiate(c) ==
  /\ task[c].life = "negotiating"
  /\ task' = [task EXCEPT ![c].life = "following"]
  /\ \E clock \in {"silent"} \cup (IF task[c].ports THEN {"known"} ELSE {}) :
       conn' = [conn EXCEPT ![c].clock = clock]
  /\ UNCHANGED <<pc, size, protocol, calls, made, held, building, seen, stream, abandoned>>

Measure(c) ==
  /\ task[c].kind \in {"slave", "master"} /\ task[c].life = "following" /\ task[c].ports
  /\ task[c].measured < MaxOffset
  /\ task' = [task EXCEPT ![c].measured = @ + 1]
  /\ UNCHANGED <<pc, size, protocol, calls, made, held, building, conn, seen, stream, abandoned>>

\* A socket error, which a flow does not survive.
TaskFails(c) ==
  /\ Faults /\ task[c].kind \in {"slave", "master"} /\ task[c].life \in {"starting", "negotiating"}
  /\ task' = [task EXCEPT ![c].life = "ended", ![c].ports = FALSE]
  /\ UNCHANGED <<pc, size, protocol, calls, made, held, building, conn, seen, stream, abandoned>>

\* The runtime gets round to an aborted task.
AbortTakesEffect(c) ==
  /\ task[c].life = "aborted"
  /\ task' = [task EXCEPT ![c].life = "ended", ![c].ports = FALSE]
  /\ UNCHANGED <<pc, size, protocol, calls, made, held, building, conn, seen, stream, abandoned>>

\* changed() returns ...
Wake(c) ==
  /\ task[c].kind = "forward" /\ task[c].life = "following"
  /\ seen[c] < task[task[c].source].measured
  /\ seen' = [seen EXCEPT ![c] = task[task[c].source].measured]
  /\ task' = [task EXCEPT ![c].life = "woken"]
  /\ UNCHANGED <<pc, size, protocol, calls, made, held, building, conn, stream, abandoned>>

\* Mutant: the task sends on the offset it was started with.
ForwardBadly(c) ==
  /\ task[c].life = "woken"
  /\ task' = [task EXCEPT ![c].life = "following"]
  /\ UNCHANGED <<pc, size, protocol, calls, made, held, building, conn, seen, stream, abandoned>>

\* ... and what the channel holds by then is sent on.
Forward(c) ==
  /\ task[c].life = "woken"
  /\ conn' = [conn EXCEPT ![c].offset = task[task[c].source].measured]
  /\ task' = [task EXCEPT ![c].life = "following"]
  /\ UNCHANGED <<pc, size, protocol, calls, made, held, building, seen, stream, abandoned>>

\* The primary's connection and its task are gone, and with them the channel.
ForwarderEnds(c) ==
  /\ task[c].kind = "forward" /\ task[c].life = "following"
  /\ LET p == task[c].source
     IN task[p].life = "ended" /\ p \notin Range(held) \cup Range(building)
  /\ task' = [task EXCEPT ![c].life = "ended"]
  /\ UNCHANGED <<pc, size, protocol, calls, made, held, building, conn, seen, stream, abandoned>>

-----------------------------------------------------------------------------
(* The streamer.                                                             *)

\* start_streaming() and play_file_to_group(): the offset of the setup, and a
\* subscription that takes what was measured since as seen.
Play ==
  /\ Called /\ held # <<>> /\ ~stream.on /\ conn[held[1]].stage = "ready"
  /\ Len(held) > 1 => conn[held[1]].clock # "none"
  /\ stream' = [on |-> TRUE, conn |-> held[1], offset |-> conn[held[1]].offset,
                from |-> task[held[1]].measured]
  /\ seen' = [seen EXCEPT ![held[1]] = task[held[1]].measured]
  /\ UNCHANGED <<pc, size, protocol, made, held, building, conn, task, abandoned>>

\* Once per round of its loop the streamer looks for a new offset.
TakeOffset ==
  /\ stream.on /\ seen[stream.conn] < task[stream.conn].measured
  /\ stream' = [stream EXCEPT !.offset = task[stream.conn].measured]
  /\ seen' = [seen EXCEPT ![stream.conn] = task[stream.conn].measured]
  /\ UNCHANGED <<pc, size, protocol, calls, made, held, building, conn, task, abandoned>>

ClientNext ==
  \/ \E n \in Sizes : Connect(n)
  \/ Disconnect
  \/ LeaveMembers \/ LeavePrimary \/ LeavingFails
  \/ PairNext \/ Serve \/ SetUpServed \/ SetUpPrimary \/ Synced \/ PeersOfPrimary \/ NoClock
  \/ SetUpMember \/ Return \/ ConnectFails
  \/ Play \/ TakeOffset

TaskNext ==
  \E c \in Conns :
    \/ Bind(c) \/ Negotiate(c) \/ Measure(c) \/ TaskFails(c) \/ AbortTakesEffect(c)
    \/ Wake(c) \/ Forward(c) \/ ForwarderEnds(c)

Next == ClientNext \/ TaskNext

-----------------------------------------------------------------------------

SetupTypeOK ==
  /\ pc \in {"idle", "leaving", "connecting", "setup", "served", "sync", "peers", "ready"}
  /\ protocol \in Protocols \cup {"master"} /\ size \in Sizes \cup {0}
  /\ made \in 0 .. MaxConns /\ calls \in 0 .. MaxCalls
  /\ IsInjective(held \o building) /\ Range(held \o building) \subseteq 1 .. made
  /\ abandoned \subseteq 1 .. made
  /\ \A c \in Conns :
       /\ conn[c].stage \in {"paired", "ready", "closed"}
       /\ conn[c].clock \in {"none", "silent", "known"}
       /\ conn[c].offset \in 0 .. MaxOffset /\ seen[c] \in 0 .. MaxOffset
       /\ task[c].life \in {"starting", "negotiating", "following", "woken", "aborted", "ended"}
       /\ task[c].blocker # None => ~task[c].ports
  /\ Cardinality({c \in Conns : HoldsPorts(c)}) <= 1

\* A task runs on only for a connection the client has, or one that was dropped without
\* disconnect(); a PTP flow that did not get its ports, so that its receiver's clock is
\* never heard, was kept from them by a dropped connection or by one just left.
TasksAreAccounted ==
  \A c \in Conns :
    /\ Alive(c) => c \in abandoned \/ (c \in Range(held \o building) /\ conn[c].handle)
    /\ LET d == task[c].blocker IN
       c \notin abandoned /\ d # None => d \in abandoned \/ ~Alive(d)

\* Everybody in a group follows the primary's clock: a member has its identity, and once
\* the member's forwarder, or the streamer, has nothing to look at, the last offset
\* measured since it subscribed (earlier ones, since setup() looked, may be missed).
GroupFollowsPrimary ==
  /\ \A i \in 2 .. Len(held) :
       conn[held[i]].clock = conn[held[1]].clock /\ conn[held[1]].clock # "none"
  /\ \A c \in Conns :
       LET p == task[c].source IN
       /\ task[c].kind = "forward" /\ task[c].life = "following"
       /\ seen[c] \in {task[p].measured} \ {conn[c].from}
       => conn[c].offset = seen[c]
  /\ LET c == stream.conn IN
     stream.on /\ seen[c] \in {task[c].measured} \ {stream.from} => stream.offset = seen[c]
=============================================================================
