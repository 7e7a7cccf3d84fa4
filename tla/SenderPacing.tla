---------------------------- MODULE SenderPacing ----------------------------
(***************************************************************************)
(* The clock of the rt-sender thread (sender_thread_main,                  *)
(* crates/airplay-audio/src/streamer.rs): packets wait in the thread until *)
(* a deadline that moves on by one burst each time, is set to the present  *)
(* by a Resume, and is given up for the present when the thread fell       *)
(* behind by more than a burst.  The thread may be held up between any two *)
(* of its steps, and any message may come next: the channel and who sends  *)
(* on it are AudioStreamer's.                                              *)
(*                                                                         *)
(* Time counts ticks.  The sleep ends at its deadline or later; jitter     *)
(* statistics and what is sent are left out.                               *)
(***************************************************************************)
EXTENDS Naturals, Sequences

CONSTANTS
  BurstSize,  \* packets of a burst; the streamer has 1
  BurstTime,  \* ticks of a burst: frame_duration * burst_size
  MaxTime,    \* bound: ticks
  MaxBursts,  \* bound: bursts sent
  MaxResumes  \* bound: Resume messages

ASSUME SenderPacingAssumption ==
  {BurstSize, BurstTime} \subseteq Nat \ {0} /\ {MaxTime, MaxBursts, MaxResumes} \subseteq Nat

VARIABLES
  now,
  pace,      \* "receiving", "sleeping", "advancing", "paused" or "ended"
  deadline,  \* next_deadline_ns
  started,
  burst,     \* packets in burst_buffer
  resumed,   \* history: Resume messages received
  bursts     \* history: when each burst was sent, and how many Resumes came before

pacingVars == <<now, pace, deadline, started, burst, resumed, bursts>>

PacingInit ==
  /\ now = 0 /\ pace = "receiving" /\ deadline = 0 /\ started = FALSE /\ burst = 0
  /\ resumed = 0 /\ bursts = <<>>

TimePasses ==
  /\ now < MaxTime /\ now' = now + 1
  /\ UNCHANGED <<pace, deadline, started, burst, resumed, bursts>>

\* A packet waits for its burst to be full, but for the first, which sets the clock.
TakePacket ==
  /\ pace = "receiving" /\ Len(bursts) < MaxBursts
  /\ burst' = burst + 1
  /\ IF started THEN UNCHANGED deadline ELSE deadline' = now
  /\ pace' = IF started /\ burst' < BurstSize THEN pace ELSE "sleeping"
  /\ started' = TRUE
  /\ UNCHANGED <<now, resumed, bursts>>

SendBurst ==
  /\ pace = "sleeping" /\ now >= deadline
  /\ bursts' = Append(bursts, [at |-> now, resumed |-> resumed])
  /\ burst' = 0 /\ pace' = "advancing"
  /\ UNCHANGED <<now, deadline, started, resumed>>

\* Mutant: a thread that fell behind makes up for all of it.
AdvanceBadly ==
  /\ pace = "advancing"
  /\ deadline' = deadline + BurstTime
  /\ pace' = "receiving"
  /\ UNCHANGED <<now, started, burst, resumed, bursts>>

\* The clock is read again, after the last packet of the burst.
Advance ==
  /\ pace = "advancing"
  /\ LET next == deadline + BurstTime
     IN deadline' = IF now > next + BurstTime THEN now ELSE next
  /\ pace' = "receiving"
  /\ UNCHANGED <<now, started, burst, resumed, bursts>>

\* Paused or not: a Resume arrives without a Pause when that found the channel full.
TakeResume ==
  /\ pace \in {"receiving", "paused"} /\ resumed < MaxResumes
  /\ resumed' = resumed + 1
  /\ deadline' = now /\ pace' = "receiving"
  /\ UNCHANGED <<now, started, burst, bursts>>

\* Until the Resume packets are taken and thrown away.
TakePause ==
  /\ pace = "receiving" /\ pace' = "paused"
  /\ UNCHANGED <<now, deadline, started, burst, resumed, bursts>>

\* A Stop, or nobody left to send: a burst that is not full is not sent.
TakeStop ==
  /\ pace \in {"receiving", "paused"} /\ pace' = "ended"
  /\ UNCHANGED <<now, deadline, started, burst, resumed, bursts>>

PacingNext ==
  TimePasses \/ TakePacket \/ SendBurst \/ Advance \/ TakeResume \/ TakePause \/ TakeStop

-----------------------------------------------------------------------------
\* Wherever the thread is held up, and however often it is resumed, over any stretch of
\* time packets run ahead of the pace they are played at by two bursts at most, and one for
\* every Resume: a small delay is caught up, a longer one given up ("Catch up if we've
\* fallen behind by more than one burst", streamer.rs:407).  And none is kept back for
\* longer than a burst.
PacketsArePaced ==
  /\ \A i, j \in DOMAIN bursts :
       i < j => j - i <= (bursts[j].at - bursts[i].at) \div BurstTime + 2
                           + (bursts[j].resumed - bursts[i].resumed)
  /\ pace # "ended" => deadline <= now + BurstTime
=============================================================================
