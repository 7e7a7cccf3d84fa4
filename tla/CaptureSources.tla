--------------------------- MODULE CaptureSources ---------------------------
(***************************************************************************)
(* How the terminal application starts and stops its two live sources, a   *)
(* USB device and a Bluetooth device (crates/airplay-tui/src/app.rs), on   *)
(* the one client it has.  Every start makes a capture of its own: a       *)
(* device, a thread that relays its frames, a stop flag, a channel whose   *)
(* decoder the streamer takes.  LiveFeed has the inside of one capture.    *)
(*                                                                         *)
(* The handlers run in the event loop, one at a time, but each waits: for  *)
(* the client's lock, for a thread it joins.  Meanwhile captures go on or  *)
(* die, and the tasks that connect, disconnect or play a file use the      *)
(* client.  Of the client there are what GroupClient says a start and a    *)
(* stop depend on.                                                         *)
(***************************************************************************)
EXTENDS Naturals, FiniteSets

CONSTANTS
  MaxCaptures, \* bound: captures started
  MaxLinks     \* bound: times the client is connected

ASSUME CaptureSourcesAssumption == {MaxCaptures, MaxLinks} \subseteq Nat \ {0}

Source == {"usb", "bluetooth"}
Capture == 1..MaxCaptures
NoCapture == 0

VARIABLES
  captures, \* Capture -> source, device, thread, stop flag
  begun,    \* captures begun so far
  handle,   \* Source -> the capture the application holds: shared state, thread and stream
  chosen,   \* sources whose device is selected (USB) or connected (Bluetooth)
  shown,    \* sources shown as streaming
  step,     \* where the event loop is: [at, src, new]
  links,    \* connections made so far
  client    \* [linked, grouped, session, plays]: whose decoder the streamer holds

appVars == <<captures, begun, handle, chosen, shown, step, links, client>>

AtRest == [at |-> "idle", src |-> "usb", new |-> NoCapture]
At(where, s) == step.at = where /\ step.src = s
Going(where) == [step EXCEPT !.at = where]

AppTypeOK ==
  /\ captures \in [Capture -> [src : Source, device : {"none", "open", "dead", "closed"},
                               thread : {"none", "running", "ended"}, stop : BOOLEAN]]
  /\ begun \in 0..MaxCaptures /\ links \in 0..MaxLinks
  /\ handle \in [Source -> Capture \cup {NoCapture}]
  /\ chosen \subseteq Source /\ shown \subseteq Source
  /\ step \in [at : {"idle", "checking", "joiningOld", "opening", "starting", "joiningNew",
                     "joiningStop", "stopping"}, src : Source, new : Capture \cup {NoCapture}]
  /\ step.at = "idle" <=> step = AtRest
  /\ client \in [linked : BOOLEAN, grouped : BOOLEAN, session : {"Ready", "Playing"},
                 plays : Capture \cup {NoCapture}]
  /\ \A c \in Capture : captures[c].thread # "none" <=> c <= begun
  /\ \A s \in Source : handle[s] # NoCapture => captures[handle[s]].src = s

AppInit ==
  /\ captures = [c \in Capture |-> [src |-> "usb", device |-> "none", thread |-> "none",
                                    stop |-> FALSE]]
  /\ begun = 0 /\ links = 0 /\ handle = [s \in Source |-> NoCapture]
  /\ chosen = {} /\ shown = {} /\ step = AtRest
  /\ client = [linked |-> FALSE, grouped |-> FALSE, session |-> "Ready", plays |-> NoCapture]

-----------------------------------------------------------------------------
(* Captures by themselves.                                                                      *)

\* The flag; a stop of USB drops the cpal stream as well.
Told(cs, c, closes) ==
  IF c = NoCapture THEN cs
  ELSE [cs EXCEPT ![c].stop = TRUE,
                  ![c].device = IF closes /\ cs[c].src = "usb" THEN "closed" ELSE @]

\* The device goes away.  Of a USB device the callback that would tell is only logged.
DeviceDies(c) ==
  /\ captures[c].device = "open"
  /\ captures' = [captures EXCEPT ![c].device = "dead"]
  /\ UNCHANGED <<begun, handle, chosen, shown, step, links, client>>

\* Mutant: the thread waits for a frame without a limit.
ThreadEndsBadly(c) ==
  /\ captures[c].thread = "running" /\ captures[c].stop /\ captures[c].device = "open"
  /\ captures' = [captures EXCEPT ![c].thread = "ended",
                                  ![c].device = IF captures[c].src = "usb" THEN @ ELSE "closed"]
  /\ UNCHANGED <<begun, handle, chosen, shown, step, links, client>>

\* The thread sees its flag, or that its channel is disconnected: the Bluetooth reader ended, the
\* USB stream was dropped.  The Bluetooth thread stops its reader on the way out.
ThreadEnds(c) ==
  /\ captures[c].thread = "running"
  /\ \/ captures[c].stop
     \/ captures[c].device = (IF captures[c].src = "usb" THEN "closed" ELSE "dead")
  /\ captures' = [captures EXCEPT ![c].thread = "ended",
                                  ![c].device = IF captures[c].src = "usb" THEN @ ELSE "closed"]
  /\ UNCHANGED <<begun, handle, chosen, shown, step, links, client>>

Joinable(c) == c # NoCapture => captures[c].thread = "ended"

-----------------------------------------------------------------------------
(* UsbAudioSelectDevice, BluetoothConnected, BluetoothDisconnected.                             *)

Choose(s) ==
  /\ step = AtRest /\ s \notin chosen
  /\ chosen' = chosen \cup {s}
  /\ UNCHANGED <<captures, begun, handle, shown, step, links, client>>

\* The capture is not stopped, only no longer shown; its device may die of it.
BluetoothLeft ==
  /\ step = AtRest
  /\ chosen' = chosen \ {"bluetooth"} /\ shown' = shown \ {"bluetooth"}
  /\ UNCHANGED <<captures, begun, handle, step, links, client>>

-----------------------------------------------------------------------------
(* UsbAudioStartSource and BluetoothStartSource.                                                *)

\* A USB device that is only highlighted is selected now.
Start(s) ==
  /\ step = AtRest /\ begun < MaxCaptures
  /\ s = "bluetooth" => s \in chosen
  /\ chosen' = chosen \cup {s}
  /\ step' = [at |-> "checking", src |-> s, new |-> NoCapture]
  /\ UNCHANGED <<captures, begun, handle, shown, links, client>>

NotConnected(s) ==
  /\ At("checking", s) /\ ~client.linked
  /\ step' = AtRest
  /\ UNCHANGED <<captures, begun, handle, chosen, shown, links, client>>

\* The source's old capture is told to stop ...
TellOld(s) ==
  /\ At("checking", s) /\ client.linked
  /\ captures' = Told(captures, handle[s], TRUE)
  /\ step' = Going("joiningOld")
  /\ UNCHANGED <<begun, handle, chosen, shown, links, client>>

\* ... and joined, in the event loop.
JoinOld(s) ==
  /\ At("joiningOld", s) /\ Joinable(handle[s])
  /\ handle' = [handle EXCEPT ![s] = NoCapture]
  /\ step' = Going("opening")
  /\ UNCHANGED <<captures, begun, chosen, shown, links, client>>

\* The device does not open: an error is shown, and whatever was shown as streaming stays.
OpenFails(s) ==
  /\ At("opening", s)
  /\ step' = AtRest
  /\ UNCHANGED <<captures, begun, handle, chosen, shown, links, client>>

\* ALSA's device is only opened by the thread that reads from it: the start goes on either way.
Open(s) ==
  /\ At("opening", s)
  /\ begun' = begun + 1
  /\ \E device \in IF s = "usb" THEN {"open"} ELSE {"open", "dead"} :
       captures' = [captures EXCEPT ![begun'] = [src |-> s, device |-> device,
                                                 thread |-> "running", stop |-> FALSE]]
  /\ step' = [Going("starting") EXCEPT !.new = begun']
  /\ UNCHANGED <<handle, chosen, shown, links, client>>

\* start_live_streaming...: a single connection streams once, when its session is Ready; to a
\* group the streamer there is is stopped first and another one started.
MayStream == client.linked /\ (client.grouped \/ client.session = "Ready")

Streams(s) ==
  /\ At("starting", s) /\ MayStream
  /\ client' = [client EXCEPT !.plays = step.new,
                              !.session = IF client.grouped THEN @ ELSE "Playing"]
  /\ handle' = [handle EXCEPT ![s] = step.new]
  /\ shown' = shown \cup {s}
  /\ step' = AtRest
  /\ UNCHANGED <<captures, begun, chosen, links>>

\* Mutant: a start that fails leaves its capture alone.
StreamFailsBadly(s) ==
  /\ At("starting", s)
  /\ client' = IF client.linked /\ client.grouped THEN [client EXCEPT !.plays = NoCapture] ELSE client
  /\ step' = AtRest
  /\ UNCHANGED <<captures, begun, handle, chosen, shown, links>>

\* The new capture is told to stop; a group has lost its streamer, old and new.
StreamFails(s) ==
  /\ At("starting", s)
  /\ client' = IF client.linked /\ client.grouped THEN [client EXCEPT !.plays = NoCapture] ELSE client
  /\ captures' = Told(captures, step.new, FALSE)
  /\ step' = Going("joiningNew")
  /\ UNCHANGED <<begun, handle, chosen, shown, links>>

\* Joined, and only then the USB stream is dropped.
JoinNew(s) ==
  /\ At("joiningNew", s) /\ Joinable(step.new)
  /\ captures' = Told(captures, step.new, TRUE)
  /\ step' = AtRest
  /\ UNCHANGED <<begun, handle, chosen, shown, links, client>>

-----------------------------------------------------------------------------
(* UsbAudioStopSource and BluetoothStopSource.                                                  *)

\* The thread of a USB capture is joined by a task of its own, that of Bluetooth in the loop.
Stop(s) ==
  /\ step = AtRest
  /\ captures' = Told(captures, handle[s], TRUE)
  /\ IF s = "usb"
     THEN /\ handle' = [handle EXCEPT ![s] = NoCapture]
          /\ step' = [at |-> "stopping", src |-> s, new |-> NoCapture]
     ELSE /\ UNCHANGED handle
          /\ step' = [at |-> "joiningStop", src |-> s, new |-> NoCapture]
  /\ UNCHANGED <<begun, chosen, shown, links, client>>

JoinStopped(s) ==
  /\ At("joiningStop", s) /\ Joinable(handle[s])
  /\ handle' = [handle EXCEPT ![s] = NoCapture]
  /\ step' = Going("stopping")
  /\ UNCHANGED <<captures, begun, chosen, shown, links, client>>

\* client.stop() stops whatever plays, this source's stream or not; its errors are only logged.
\* The session stays as it is.
StopClient(s) ==
  /\ At("stopping", s)
  /\ client' = [client EXCEPT !.plays = NoCapture]
  /\ shown' = shown \ {s}
  /\ step' = AtRest
  /\ UNCHANGED <<captures, begun, handle, chosen, links>>

-----------------------------------------------------------------------------
(* The client's other users: connect (alone or to a group), disconnect, play a file.            *)

Connect(grouped) ==
  /\ links < MaxLinks /\ links' = links + 1
  /\ client' = [linked |-> TRUE, grouped |-> grouped, session |-> "Ready", plays |-> NoCapture]
  /\ UNCHANGED <<captures, begun, handle, chosen, shown, step>>

Disconnect ==
  /\ client.linked
  /\ client' = [linked |-> FALSE, grouped |-> FALSE, session |-> "Ready", plays |-> NoCapture]
  /\ UNCHANGED <<captures, begun, handle, chosen, shown, step, links>>

PlayFile ==
  /\ MayStream
  /\ client' = [client EXCEPT !.plays = NoCapture, !.session = IF client.grouped THEN @ ELSE "Playing"]
  /\ UNCHANGED <<captures, begun, handle, chosen, shown, step, links>>

Handler(s) ==
  \/ NotConnected(s) \/ TellOld(s) \/ JoinOld(s) \/ OpenFails(s) \/ Open(s)
  \/ Streams(s) \/ StreamFails(s) \/ JoinNew(s) \/ JoinStopped(s) \/ StopClient(s)

AppNext ==
  \/ \E c \in Capture : DeviceDies(c) \/ ThreadEnds(c)
  \/ \E s \in Source : Choose(s) \/ Start(s) \/ Stop(s) \/ Handler(s)
  \/ BluetoothLeft
  \/ \E grouped \in BOOLEAN : Connect(grouped)
  \/ Disconnect \/ PlayFile

\* The handler awaits a call of the client, which stops a streamer or starts one, without a limit.
InCall == step.at \in {"starting", "stopping"}

\* The loop goes on with its handler, but that a call of the client comes back is not assumed; a
\* thread looks at its flag and at its queue every 50 ms (a Bluetooth reader comes back from its
\* device).
AppFairness ==
  /\ WF_appVars(~InCall /\ \E s \in Source : Handler(s))
  /\ \A c \in Capture : WF_appVars(ThreadEnds(c))

-----------------------------------------------------------------------------
(* Properties.                                                               *)

\* A capture that goes on without having been told to stop is one the application can stop: the
\* one it holds for the source, or the one the handler is just starting.  So a source has one
\* capture at a time, whatever starts, failed starts, stops, disconnects and lost devices came
\* before, and what the streamer listens to is never a capture nobody can stop.
Unstopped(c) == captures[c].thread = "running" /\ ~captures[c].stop

CapturesAreHeld ==
  /\ \A c \in Capture : Unstopped(c) => handle[captures[c].src] = c \/ step.new = c
  /\ client.plays # NoCapture =>
       \/ captures[client.plays].thread = "ended" \/ captures[client.plays].stop
       \/ handle[captures[client.plays].src] = client.plays

\* What is stopped ends: every thread that was told to, the one joined by nobody included, and
\* the event loop, which joins threads, comes back from a start or a stop.  Nothing but a call of
\* the client that never returns keeps it (client.stop() joins the sender's thread, which may not
\* end), and even that does not keep a thread from ending.
StopsComeThrough ==
  /\ <>[]InCall \/ [](step # AtRest => <>(step = AtRest))
  /\ \A c \in Capture : [](captures[c].stop => <>(captures[c].thread = "ended"))
=============================================================================
