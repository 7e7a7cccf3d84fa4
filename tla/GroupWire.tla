----------------------------- MODULE GroupWire -----------------------------
(***************************************************************************)
(* A group's packets on the wire and its listeners for retransmit          *)
(* requests: AirPlayClient::play_file_to_group,                            *)
(* start_live_streaming_to_group and spawn_group_control_listener          *)
(* (crates/airplay-client/src/client.rs), the sender's rings, sync packets *)
(* and answers (crates/airplay-audio/src/rtp.rs, streamer.rs), the counts  *)
(* (crates/airplay-client/src/stats.rs).  PacketHistory has the ring of    *)
(* one sender by itself, AudioStreamer the loop and its thread.            *)
(*                                                                         *)
(* Every play makes a streamer, senders with rings of their own, counters  *)
(* and a listener thread that polls the control sockets of all members.    *)
(* Nothing ends a listener: after the next play two of them take requests  *)
(* from the same sockets, the older one for a streamer that has stopped    *)
(* and whose rings are still there.                                        *)
(*                                                                         *)
(* Packets of a play are numbered from 0; the payload, the cipher, and the *)
(* layout of the headers are left out, their sequence number is not.       *)
(***************************************************************************)
EXTENDS Integers, Sequences, FiniteSets, FiniteSetsExt, Functions

CONSTANTS
  Members,     \* devices of the group; the first is the primary
  MaxPlays,    \* bound: plays
  MaxNumber,   \* bound: packets of a play
  RingSize,    \* PACKET_HISTORY_SIZE
  Sequences,   \* 2^16, the range of the sequence number
  SyncEvery,   \* packets from a sync to the next
  Waiting,     \* capacity of the queue to the sender thread
  MaxRequests, \* bound: requests
  MaxCount     \* bound: packets of a request

ASSUME GroupWireAssumption ==
  /\ {Members, MaxPlays, RingSize, Sequences, SyncEvery, Waiting} \subseteq Nat \ {0}
  /\ {MaxNumber, MaxRequests, MaxCount} \subseteq Nat
  /\ Sequences % RingSize = 0

Member == 1..Members
Play == 1..MaxPlays
Place == 0..RingSize - 1
Empty == -1
Nothing == [member |-> 0]

VARIABLES
  play,      \* plays so far
  stream,    \* the last play's streamer: phase, packets prepared and sent, syncs
  rings,     \* Play -> Member -> the ring of its sender
  queue,     \* messages on their way to the sender thread of the last play
  sockets,   \* Member -> requests waiting on its control socket
  taken,     \* Play -> the request its listener has taken, or Nothing
  stats,     \* Play -> StreamStats
  owed,      \* Play -> what its listener has added to the sums and not yet to a device's counts
  requests,  \* requests sent so far
  resent     \* the answers just sent

wireVars == <<play, stream, rings, queue, sockets, taken, stats, owed, requests, resent>>

Counts == [requested : Nat, fulfilled : Nat]
Request == [member : Member, play : Play, first : Nat, count : 0..MaxCount]

WireTypeOK ==
  /\ play \in 0..MaxPlays /\ requests \in 0..MaxRequests
  /\ stream \in [phase : {"none", "running", "stopping", "over"}, threaded : BOOLEAN,
                 syncs : BOOLEAN, next : 0..MaxNumber, left : 0..MaxNumber, first : BOOLEAN,
                 lastSync : 0..MaxNumber, bare : [Member -> Nat]]
  /\ rings \in [Play -> [Member -> [Place -> 0..MaxNumber \cup {Empty}]]]
  /\ Len(queue) <= Waiting
  /\ \A m \in Member : \A i \in DOMAIN sockets[m] : sockets[m][i] \in Request
  /\ taken \in [Play -> Request \cup {Nothing}]
  /\ stats \in [Play -> [all : Counts, device : [Member -> Counts]]] /\ owed \in [Play -> Counts]

Zero == [requested |-> 0, fulfilled |-> 0]

NoStream ==
  [phase |-> "none", threaded |-> TRUE, syncs |-> TRUE, next |-> 0, left |-> 0, first |-> TRUE,
   lastSync |-> 0, bare |-> [m \in Member |-> 0]]

WireInit ==
  /\ play = 0 /\ stream = NoStream /\ queue = <<>>
  /\ rings = [p \in Play |-> [m \in Member |-> [s \in Place |-> Empty]]]
  /\ sockets = [m \in Member |-> <<>>] /\ taken = [p \in Play |-> Nothing]
  /\ stats = [p \in Play |-> [all |-> Zero, device |-> [m \in Member |-> Zero]]]
  /\ owed = [p \in Play |-> Zero] /\ requests = 0 /\ resent = {}

Running == stream.phase = "running"

-----------------------------------------------------------------------------
(* Playing to the group.                                                                        *)

\* The old streamer stops: it produces no more, its thread sends what is in the queue and is
\* waited for.
StopOld ==
  /\ Running
  /\ stream' = [stream EXCEPT !.phase = "stopping"]
  /\ resent' = {}
  /\ UNCHANGED <<play, rings, queue, sockets, taken, stats, owed, requests>>

Stopped == ~Running /\ queue = <<>>

\* FLUSH everywhere, a new sender for every connection (its sequence starts at 0), new counters, a
\* new listener.  If the primary has no control port nobody gets sync packets; without a socket
\* for any sender there is no thread.
NewPlay ==
  /\ Stopped /\ play < MaxPlays
  /\ play' = play + 1
  /\ \E threaded, syncs \in BOOLEAN :
       stream' = [NoStream EXCEPT !.phase = "running", !.threaded = threaded, !.syncs = syncs]
  /\ resent' = {}
  /\ UNCHANGED <<rings, queue, sockets, taken, stats, owed, requests>>

-----------------------------------------------------------------------------
(* A packet: the sync before it when one is due, the same number for every member.              *)

\* Due with the first packet, when the last was at timestamp 0, and every SyncEvery packets.
SyncDue ==
  stream.next = 0 \/ stream.lastSync = 0 \/ stream.next - stream.lastSync >= SyncEvery

Sync == IF ~SyncDue \/ ~stream.syncs THEN "none" ELSE IF stream.first THEN "start" ELSE "regular"

\* serialize_audio of one sender: stored where its sequence number says.
InRing(ring, n) == [ring EXCEPT ![(n % Sequences) % RingSize] = n]

Stored(upTo) ==
  rings' = [rings EXCEPT ![play] = [m \in Member |-> IF m <= upTo THEN InRing(@[m], stream.next)
                                                    ELSE @[m]]]

Message == [number |-> stream.next, sync |-> Sync]

Prepared ==
  [stream EXCEPT !.next = @ + 1, !.first = @ /\ Sync = "none",
                 !.lastSync = IF SyncDue THEN stream.next ELSE @]

\* What goes out: the packet to all members one after the other, the sync before it to those of
\* `to`; that a datagram is not sent is only logged.
Out(s, message, to) ==
  [s EXCEPT !.left = message.number + 1,
            !.bare = [m \in Member |-> IF message.sync # "none" /\ m \in to THEN 0 ELSE @[m] + 1]]

\* Prepared under the streamer's lock, and queued for the thread.
PrepareAll ==
  /\ Running /\ stream.threaded /\ stream.next < MaxNumber /\ Len(queue) < Waiting
  /\ queue' = Append(queue, Message) /\ stream' = Prepared /\ Stored(Members)
  /\ resent' = {}
  /\ UNCHANGED <<play, sockets, taken, stats, owed, requests>>

\* sender_thread_main sends the oldest, a sync to every target.
Send ==
  /\ queue # <<>>
  /\ stream' = Out(stream, Head(queue), Member) /\ queue' = Tail(queue)
  /\ resent' = {}
  /\ UNCHANGED <<play, rings, sockets, taken, stats, owed, requests>>

\* Without a thread the loop sends at once, and a sync from the first sender only.
SendDirect ==
  /\ Running /\ ~stream.threaded /\ stream.next < MaxNumber
  /\ stream' = Out(Prepared, Message, {1}) /\ Stored(Members)
  /\ resent' = {}
  /\ UNCHANGED <<play, queue, sockets, taken, stats, owed, requests>>

\* A cipher or a direct send fails for one sender: those before it have the packet in their rings,
\* and the error ends the stream.
SenderFails ==
  /\ Running /\ stream.next < MaxNumber
  /\ stream' = [stream EXCEPT !.phase = "over"]
  /\ \E upTo \in 0..Members : Stored(upTo)
  /\ resent' = {}
  /\ UNCHANGED <<play, queue, sockets, taken, stats, owed, requests>>

-----------------------------------------------------------------------------
(* Requests and their answers.                                                                  *)

\* A member misses packets that went out.
Ask(m) ==
  /\ requests < MaxRequests /\ play > 0 /\ sockets[m] = <<>>
  /\ \E first \in 0..stream.left - 1, count \in 0..MaxCount :
       /\ first + count <= stream.left
       /\ sockets' = [sockets EXCEPT ![m] = Append(@, [member |-> m, play |-> play,
                                                     first |-> first, count |-> count])]
  /\ requests' = requests + 1
  /\ resent' = {}
  /\ UNCHANGED <<play, stream, rings, queue, taken, stats, owed>>

\* Mutant: only the sum is counted.
HearBadly(l, m) ==
  /\ l <= play /\ taken[l] = Nothing /\ sockets[m] # <<>>
  /\ LET asked == Head(sockets[m])
     IN /\ taken' = [taken EXCEPT ![l] = asked]
        /\ stats' = [stats EXCEPT ![l].all.requested = @ + asked.count]
  /\ sockets' = [sockets EXCEPT ![m] = Tail(@)]
  /\ resent' = {}
  /\ UNCHANGED <<play, stream, rings, queue, owed, requests>>

\* A listener, of this play or of one before, takes a request off the socket, and counts it: in
\* the sum first ...
Hear(l, m) ==
  /\ l <= play /\ taken[l] = Nothing /\ sockets[m] # <<>>
  /\ LET asked == Head(sockets[m])
     IN /\ taken' = [taken EXCEPT ![l] = asked]
        /\ stats' = [stats EXCEPT ![l].all.requested = @ + asked.count]
        /\ owed' = [owed EXCEPT ![l].requested = asked.count]
  /\ sockets' = [sockets EXCEPT ![m] = Tail(@)]
  /\ resent' = {}
  /\ UNCHANGED <<play, stream, rings, queue, requests>>

\* ... then in the device's own counts; a request whose answers are counted is done with.
CountDevice(l) ==
  /\ taken[l] # Nothing /\ owed[l] # Zero
  /\ stats' = [stats EXCEPT ![l].device[taken[l].member] =
                  [requested |-> @.requested + owed[l].requested,
                   fulfilled |-> @.fulfilled + owed[l].fulfilled]]
  /\ owed' = [owed EXCEPT ![l] = Zero]
  /\ taken' = IF owed[l].fulfilled > 0 THEN [taken EXCEPT ![l] = Nothing] ELSE taken
  /\ resent' = {}
  /\ UNCHANGED <<play, stream, rings, queue, sockets, requests>>

\* A datagram too short, of another payload type or of neither layout (8 bytes, or 12 and more) is
\* left alone.
NotARequest(l, m) ==
  /\ l <= play /\ taken[l] = Nothing /\ sockets[m] # <<>>
  /\ sockets' = [sockets EXCEPT ![m] = Tail(@)]
  /\ resent' = {}
  /\ UNCHANGED <<play, stream, rings, queue, taken, stats, owed, requests>>

\* The slot is filled with a packet of that sequence number.
InHistory(ring, seq) ==
  ring[seq % RingSize] # Empty /\ ring[seq % RingSize] % Sequences = seq

\* The packet in the slot, behind a header with its number.
Response(l, r, n) ==
  [listener |-> l, member |-> r.member, play |-> r.play, meant |-> n,
   number |-> rings[l][r.member][(n % Sequences) % RingSize]]

\* What the listener's own streamer has of the first k packets asked for, in the ring of the sender
\* with the member's index.
Resendable(l, r, k) ==
  {Response(l, r, n) : n \in {i \in r.first..r.first + k - 1 :
                                InHistory(rings[l][r.member], i % Sequences)}}

\* handle_retransmit_for_target under the streamer's lock: one answer for every number still in
\* the ring, unless one cannot be sent, which ends it uncounted.
Answer(l) ==
  /\ taken[l] # Nothing /\ owed[l] = Zero
  /\ LET r == taken[l]
         n == Cardinality(resent')
     IN \/ /\ resent' = Resendable(l, r, r.count)
           /\ stats' = [stats EXCEPT ![l].all.fulfilled = @ + n]
           /\ owed' = [owed EXCEPT ![l].fulfilled = n]
           /\ taken' = IF n > 0 THEN taken ELSE [taken EXCEPT ![l] = Nothing]
        \/ /\ \E k \in 0..r.count - 1 : resent' = Resendable(l, r, k)
           /\ taken' = [taken EXCEPT ![l] = Nothing]
           /\ UNCHANGED <<stats, owed>>
  /\ UNCHANGED <<play, stream, rings, queue, sockets, requests>>

WireNext ==
  \/ StopOld \/ NewPlay \/ PrepareAll \/ Send \/ SendDirect \/ SenderFails
  \/ \E m \in Member : Ask(m) \/ \E l \in Play : Hear(l, m) \/ NotARequest(l, m)
  \/ \E l \in Play : CountDevice(l) \/ Answer(l)

-----------------------------------------------------------------------------
(* Properties.                                                               *)

\* What the listener of the play a request was made in resends is the packet meant, or, when the
\* sequence numbers have gone round since, the later one of that number.  What an older listener
\* resends is a packet of the play before: that it takes the request at all is what the code
\* does, and allowed here; but it is one it has kept, of that number, for that member.
AnswersAreMeant ==
  \A a \in resent :
    /\ a.number \in Range(rings[a.listener][a.member])
    /\ a.number % Sequences = a.meant % Sequences
    /\ a.play = a.listener => a.number = a.meant \/ a.number >= a.meant + Sequences

\* Whichever listener takes a request, the sums are the members' sums but for what that listener
\* has added to the one and not yet to the other, and no member is counted more answers than it
\* asked for.  (A snapshot reads them one after the other, in the middle of this; what it shows
\* is not claimed.)
CountsAgree ==
  \A p \in Play :
    /\ \A m \in Member : stats[p].device[m].fulfilled <= stats[p].device[m].requested
    /\ stats[p].all.requested
         = owed[p].requested + MapThenSumSet(LAMBDA m : stats[p].device[m].requested, Member)
    /\ stats[p].all.fulfilled
         = owed[p].fulfilled + MapThenSumSet(LAMBDA m : stats[p].device[m].fulfilled, Member)
    /\ taken[p] = Nothing => owed[p] = Zero

\* With a sender thread no member goes without a sync for SyncEvery packets, from the first packet
\* on; without one this is true of the primary, and the others get none.
SyncsLead ==
  stream.syncs =>
    \A m \in (IF stream.threaded THEN Member ELSE {1}) : stream.bare[m] < SyncEvery

GroupIsServed == AnswersAreMeant /\ CountsAgree /\ SyncsLead
=============================================================================
