------------------------------ MODULE Rumination ------------------------------
(***************************************************************************)
(* The idle loop's heartbeat for one agent: it continues, ends or starts   *)
(* the agent's thread of rumination with one call of the LLM, writes the   *)
(* thread to its file, and puts the thought into the in-memory queue that  *)
(* GET /dmn/thoughts drains.  A heartbeat is one coroutine with awaits; a  *)
(* failing call ends it half done, and so does the end of the process.     *)
(*                                                                         *)
(* A thread is its id, in order of starting.  A thought is its first       *)
(* characters, all that the repetition filter looks at.  seen is history:  *)
(* what the queue has handed out since the process started.                *)
(***************************************************************************)
EXTENDS Integers, Sequences, FiniteSets

CONSTANTS
  Topics,        \* first characters of thoughts
  MaxCycles, MaxHistory, MaxCompleted,   \* 50, 10 and 20 in the code
  FlatAfter,     \* a flat gut ends a thread of more cycles than this: 3
  RecentTopics, Repeats,                 \* 2 in the last 5 are a repetition
  MaxThreads,    \* bound: threads started
  MaxFaults      \* bound: failed calls and restarts

ASSUME LimitsAssumption ==
  /\ {MaxCycles, MaxHistory, MaxCompleted, FlatAfter, RecentTopics, Repeats} \subseteq Nat \ {0}
  /\ FlatAfter < MaxCycles
ASSUME BoundsAssumption == MaxThreads \in Nat /\ MaxFaults \in Nat
ASSUME TopicsAssumption == Topics # {} /\ IsFiniteSet(Topics)

VARIABLES
  rm, loaded,     \* the RuminationManager, and whether _rumination has it
  file,           \* rumination_state.json
  pc, popped,     \* the heartbeat, and whether it popped a thread
  said,           \* the thought it has got
  queue, recent,  \* ThoughtQueue, _recent_topics
  seen, started, unsaved, faults

vars == <<rm, loaded, file, pc, popped, said, queue, recent, seen, started, unsaved, faults>>

NoThread == [id |-> 0, cycles |-> 0, hist |-> <<>>]

\* A fresh manager.  A file that is missing or torn loads as this.
Blank == [active |-> NoThread, completed |-> <<>>]

Latest(s, n) == IF Len(s) > n THEN SubSeq(s, Len(s) - n + 1, Len(s)) ELSE s

\* mutant of EndThread: the thread stays active
EndKeeping(r, why) ==
  [r EXCEPT !.completed =
     Latest(Append(@, [id |-> r.active.id, cycles |-> r.active.cycles, reason |-> why]), MaxCompleted)]

EndThread(r, why) ==
  [active |-> NoThread,
   completed |-> Latest(Append(r.completed,
                   [id |-> r.active.id, cycles |-> r.active.cycles, reason |-> why]), MaxCompleted)]

StartThread(r, i) ==
  [(IF r.active # NoThread THEN EndThread(r, "superseded") ELSE r)
     EXCEPT !.active = [id |-> i, cycles |-> 0, hist |-> <<>>]]

\* The thread after one more cycle.
Longer(t) ==
  [t EXCEPT !.cycles = @ + 1, !.hist = Latest(Append(@, t.cycles + 1), MaxHistory)]

\* continue_thread; flat says that the gut's magnitude is under its minimum.
ContinueThread(r, flat) ==
  LET s == [r EXCEPT !.active = Longer(@)]
  IN IF s.active.cycles >= MaxCycles THEN EndThread(s, "max_cycles")
     ELSE IF flat /\ s.active.cycles > FlatAfter THEN EndThread(s, "gut_flat")
     ELSE s

\* mutant of Repetitive: one repetition too many
RepetitiveLater(t) == Cardinality({i \in DOMAIN recent : recent[i] = t}) > Repeats

Repetitive(t) == Cardinality({i \in DOMAIN recent : recent[i] = t}) >= Repeats

AnyTopic == CHOOSE t \in Topics : TRUE

Init ==
  /\ rm = Blank /\ loaded = FALSE /\ file = Blank
  /\ pc = "rest" /\ popped = FALSE /\ said = AnyTopic
  /\ queue = <<>> /\ recent = <<>> /\ seen = <<>>
  /\ started = 0 /\ unsaved = FALSE /\ faults = 0
-----------------------------------------------------------------------------
(* A heartbeat.                                                            *)

Fault == faults < MaxFaults /\ faults' = faults + 1

\* save, which overwrites the file in place, then go on to p.  When it
\* raises, the file is as it was or torn, and the heartbeat is over.
SaveThen(p) ==
  \/ file' = rm' /\ unsaved' = FALSE /\ pc' = p /\ UNCHANGED faults
  \/ Fault /\ file' \in {file, Blank} /\ unsaved' = TRUE /\ pc' = "rest"

\* After a random pop _heartbeat saves before it feeds the gut.
SaveIfPopped(p) ==
  IF popped THEN SaveThen(p) ELSE pc' = p /\ UNCHANGED <<file, unsaved, faults>>

\* _get_rumination: the manager, loaded when it is first used.
Manager == IF loaded THEN rm ELSE file

\* The thread goes on ...
BeatOn ==
  /\ pc = "rest" /\ Manager.active # NoThread
  /\ rm' = Manager /\ loaded' = TRUE
  /\ pc' = "next" /\ popped' = FALSE
  /\ UNCHANGED <<file, said, queue, recent, seen, started, unsaved, faults>>

\* ... or is popped at random, which is saved after the next thread's first thought ...
BeatPop ==
  /\ pc = "rest" /\ Manager.active # NoThread
  /\ rm' = EndThread(Manager, "random_pop") /\ loaded' = TRUE
  /\ pc' = "sample" /\ popped' = TRUE
  /\ UNCHANGED <<file, said, queue, recent, seen, started, unsaved, faults>>

\* ... or there is none.
BeatNew ==
  /\ pc = "rest" /\ Manager.active = NoThread
  /\ rm' = Manager /\ loaded' = TRUE
  /\ pc' = "sample" /\ popped' = FALSE
  /\ UNCHANGED <<file, said, queue, recent, seen, started, unsaved, faults>>

\* A memory is found: _start_new_thread asks for a first thought.
Sample ==
  /\ pc = "sample" /\ started < MaxThreads
  /\ rm' = StartThread(rm, started + 1) /\ started' = started + 1
  /\ pc' = "first"
  /\ UNCHANGED <<loaded, file, popped, said, queue, recent, seen, unsaved, faults>>

\* mutant of SampleNothing: the popped thread is not saved
SampleNothingUnsaved ==
  /\ pc = "sample" /\ pc' = "rest"
  /\ UNCHANGED <<rm, loaded, file, popped, said, queue, recent, seen, started, unsaved, faults>>

\* No channel has a memory, and neither has the fallback.
SampleNothing ==
  /\ pc = "sample"
  /\ UNCHANGED <<rm, loaded, popped, said, queue, recent, seen, started>>
  /\ SaveIfPopped("rest")

\* The first thought; the gut is taken as flat, and nobody looks whether it resolves.
First(t) ==
  /\ pc = "first"
  /\ rm' = ContinueThread(rm, TRUE) /\ said' = t
  /\ SaveThen("queue")
  /\ UNCHANGED <<loaded, popped, queue, recent, seen, started>>

\* mutant of Further: the end is read before it is recorded
FurtherUnended(t, flat) ==
  /\ pc = "next" /\ said' = t
  /\ rm' = IF ContinueThread(rm, flat).active = NoThread THEN rm ELSE ContinueThread(rm, flat)
  /\ SaveThen(IF ContinueThread(rm, flat).active = NoThread THEN "rest" ELSE "queue")
  /\ UNCHANGED <<loaded, popped, queue, recent, seen, started>>

\* A further thought.  When it ends its thread, the next line reads a field
\* of the thread that is gone: the heartbeat raises, the thought is not queued.
Further(t, flat) ==
  /\ pc = "next"
  /\ rm' = ContinueThread(rm, flat) /\ said' = t
  /\ SaveThen(IF rm'.active = NoThread THEN "rest" ELSE "queue")
  /\ UNCHANGED <<loaded, popped, queue, recent, seen, started>>

\* The LLM says THREAD_RESOLVED.
Resolve ==
  /\ pc = "next"
  /\ rm' = EndThread(rm, "self_resolved")
  /\ SaveThen("gut")
  /\ UNCHANGED <<loaded, popped, said, queue, recent, seen, started>>

\* _classify_channel has read the database; _queue_thought drops a
\* repetitive thought.
Drop ==
  /\ pc = "queue" /\ Repetitive(said)
  /\ UNCHANGED <<rm, loaded, popped, said, queue, recent, seen, started>>
  /\ SaveIfPopped("gut")

Put ==
  /\ pc = "queue" /\ ~Repetitive(said)
  /\ queue' = Append(queue, said) /\ pc' = "track"
  /\ UNCHANGED <<rm, loaded, file, popped, said, recent, seen, started, unsaved, faults>>

\* The INSERT into dmn_log and the notification are over; they may fail unnoticed.
Track ==
  /\ pc = "track"
  /\ recent' = Latest(Append(recent, said), RecentTopics)
  /\ UNCHANGED <<rm, loaded, popped, said, queue, seen, started>>
  /\ SaveIfPopped("gut")

\* _feed_gut is over; it swallows what it raises.
EndBeat ==
  /\ pc = "gut" /\ pc' = "rest"
  /\ UNCHANGED <<rm, loaded, file, popped, said, queue, recent, seen, started, unsaved, faults>>

\* The database or the LLM fails: _safe_run swallows it.  A pop or a new
\* thread is then not saved.
Fail ==
  /\ pc \in {"sample", "first", "next", "queue"} /\ Fault
  /\ pc' = "rest"
  /\ unsaved' = IF pc = "first" \/ (pc = "sample" /\ popped) THEN TRUE ELSE unsaved
  /\ UNCHANGED <<rm, loaded, file, popped, said, queue, recent, seen, started>>
-----------------------------------------------------------------------------
(* The surroundings.                                                       *)

\* GET /dmn/thoughts
Drain ==
  /\ queue # <<>>
  /\ seen' = seen \o queue /\ queue' = <<>>
  /\ UNCHANGED <<rm, loaded, file, pc, popped, said, recent, started, unsaved, faults>>

\* A crash, or a shutdown: it cancels the loop's task, and the cancellation
\* leaves run before the saves at its end.
Restart ==
  /\ Fault
  /\ rm' = Blank /\ loaded' = FALSE /\ pc' = "rest" /\ popped' = FALSE /\ said' = AnyTopic
  /\ queue' = <<>> /\ recent' = <<>> /\ seen' = <<>> /\ unsaved' = FALSE
  /\ UNCHANGED <<file, started>>

Heartbeat ==
  \/ BeatOn \/ BeatPop \/ BeatNew
  \/ Sample \/ SampleNothing
  \/ \E t \in Topics : First(t) \/ \E flat \in BOOLEAN : Further(t, flat)
  \/ Resolve \/ Drop \/ Put \/ Track \/ EndBeat

Next == Heartbeat \/ Fail \/ Drain \/ Restart

Spec == Init /\ [][Next]_vars

\* The interval between heartbeats passes, and calls return.
FairSpec == Spec /\ WF_vars(Heartbeat)
-----------------------------------------------------------------------------
Reasons == {"random_pop", "self_resolved", "max_cycles", "gut_flat"}
Thread == [id : 0..MaxThreads, cycles : 0..MaxCycles, hist : Seq(1..MaxCycles)]
Ended == [id : 1..MaxThreads, cycles : 0..MaxCycles, reason : Reasons]
Managers == [active : Thread, completed : Seq(Ended)]

(* The variables have their types; in particular no thread is ever         *)
(* superseded, and the lists respect their limits.                         *)
TypeOK ==
  /\ rm \in Managers /\ file \in Managers
  /\ loaded \in BOOLEAN /\ popped \in BOOLEAN /\ unsaved \in BOOLEAN
  /\ pc \in {"rest", "sample", "first", "next", "queue", "track", "gut"}
  /\ said \in Topics
  /\ queue \in Seq(Topics) /\ recent \in Seq(Topics) /\ seen \in Seq(Topics)
  /\ Len(recent) <= RecentTopics
  /\ started \in 0..MaxThreads /\ faults \in 0..MaxFaults

\* A manager in which no thread is active and archived, or archived twice,
\* and in which every thread ended for the reason it gives.
WellKept(r) ==
  /\ Len(r.completed) <= MaxCompleted
  /\ \A i, j \in DOMAIN r.completed : i < j => r.completed[i].id < r.completed[j].id
  /\ r.active # NoThread =>
       \A i \in DOMAIN r.completed : r.completed[i].id < r.active.id
  /\ \A i \in DOMAIN r.completed :
       /\ (r.completed[i].reason = "max_cycles") <=> (r.completed[i].cycles = MaxCycles)
       /\ r.completed[i].reason = "gut_flat" => r.completed[i].cycles > FlatAfter

\* The history is that of the last cycles, and there is a cycle to come.
HistoryKept(t) ==
  /\ t.cycles < MaxCycles
  /\ Len(t.hist) = (IF t.cycles < MaxHistory THEN t.cycles ELSE MaxHistory)
  /\ \A i \in DOMAIN t.hist : t.hist[i] = t.cycles - Len(t.hist) + i

(* Whatever fails and wherever the process stops: a thread is archived     *)
(* once and never active after it (completed_threads is in the order of    *)
(* starting), it ends for the reason given, and the active one has its     *)
(* last MAX_HISTORY thoughts; this of the manager and of what a restart    *)
(* would load.                                                             *)
ThreadsOnce ==
  /\ WellKept(rm) /\ WellKept(file)
  /\ HistoryKept(rm.active) /\ HistoryKept(file.active)

(* Between heartbeats the file has the manager's state, so that a restart  *)
(* then loses only the queue; unless, since the last save, a save failed,  *)
(* or a call before the first thought, with which a pop and a new thread   *)
(* are saved.                                                              *)
FileCurrent == pc = "rest" /\ loaded /\ ~unsaved => file = rm

(* What clients get between two restarts does not repeat itself: among     *)
(* RecentTopics + 1 thoughts in a row no topic is found more than Repeats  *)
(* times, whenever they drain the queue.                                   *)
NoRepetition ==
  LET all == seen \o queue
  IN \A i \in DOMAIN all, t \in Topics :
       Cardinality({j \in DOMAIN all : j \in i..(i + RecentTopics) /\ all[j] = t}) <= Repeats

(* No thread goes on for ever: it ends for good, restarts included, even   *)
(* if it is never popped and never resolves.                               *)
EveryThreadEnds == \A i \in 1..MaxThreads : <>[](rm.active.id # i)
=============================================================================
