---------------------------- MODULE CronService ----------------------------
(***************************************************************************)
(* The scheduler of the gateway's cron jobs (src/cron/service/*.ts).       *)
(*                                                                         *)
(* The jobs are kept in a file and in the memory of a service.  A timer    *)
(* tick reloads the file, marks the jobs that are due, executes them one   *)
(* after the other, and writes down the results.  What is inside           *)
(* `locked' is one step, also with respect to other services over the same *)
(* file, unless a job is executed in it: at the start (missed jobs) and by *)
(* a manual run, which hold the lock as long as the job runs.              *)
(*                                                                         *)
(* Time: the occurrences of a job are numbered, and occ[j] of them have    *)
(* come.  An execution takes some time, so the next run computed at its    *)
(* end is the first occurrence still to come.  A timer that is armed may   *)
(* fire at any time: it is never set further than a minute ahead.          *)
(***************************************************************************)
EXTENDS Naturals, FiniteSets

CONSTANTS
  Jobs,     \* the ids of jobs
  Kind,     \* "every" (and cron expressions), "at", "once" (at, deleteAfterRun)
  Present,  \* the jobs that are there from the beginning
  Services, \* the instances of the scheduler; a hot reload makes a new one
  Backoffs, \* occurrences an error backoff may cover
  MaxOcc,   \* bound: occurrences of a recurring job
  MaxEvents \* bound: calls of the user, restarts, crashes, disk errors, and
            \* batches of more than two hours, all together

ASSUME CronAssumption ==
  /\ Kind \in [Jobs -> {"every", "at", "once"}]
  /\ Present \subseteq Jobs /\ Services # {} /\ IsFiniteSet(Services)
  /\ 0 \in Backoffs /\ Backoffs \subseteq Nat
  /\ MaxOcc \in Nat /\ MaxEvents \in Nat

VARIABLES
  file,     \* the jobs in the store file
  mem,      \* the jobs in the memory of each service
  life,     \* a service is off, starting, or on; or its start or a later call
            \* "failed", or its start has left it with an "unread" store
  armed,    \* the timer of a service is set
  tick,     \* onTimer of a service
  hold,     \* what a service executes while it holds the lock
  current,  \* the service that the gateway has started last
  bound,    \* the service that the request handlers were given
  occ,      \* the occurrences that have come
  born,     \* the jobs that were ever there
  events,   \* calls, restarts and faults so far
  fired,    \* history: the occurrences whose execution began
  redo,     \* history: jobs that may be executed again, see OccurrenceOnce
  clash     \* history: jobs that may overlap, see NoOverlap
store == <<file, mem>>
control == <<life, armed, tick, hold, current, bound>>
world == <<occ, born, events>>
excuses == <<redo, clash>>
vars == <<store, control, world, fired, excuses>>

OneShot(j) == Kind[j] # "every"
Run == [j : Jobs, n : Nat]  \* an execution and the occurrence it is for; 0: none
NoJob == [here |-> FALSE, on |-> FALSE, next |-> 0, run |-> FALSE, last |-> "none"]
Idle == [pc |-> "idle", todo |-> {}, busy |-> {}, got |-> [j \in Jobs |-> "none"]]
NoHold == [what |-> "none", todo |-> {}, busy |-> {}, done |-> {}]
First == CHOOSE s \in Services : TRUE

\* mutant of NextRun: the occurrence that has just come counts as the next.
NextRunNotLater(j, r) ==
  IF ~r.on \/ (OneShot(j) /\ r.last = "ok") THEN 0
  ELSE IF OneShot(j) THEN 1 ELSE occ[j]

\* computeJobNextRunAtMs
NextRun(j, r) ==
  IF ~r.on \/ (OneShot(j) /\ r.last = "ok") THEN 0
  ELSE IF OneShot(j) THEN 1 ELSE occ[j] + 1

NewJob(j) == [NoJob EXCEPT !.here = TRUE, !.on = TRUE, !.next = IF OneShot(j) THEN 1 ELSE occ[j] + 1]

Due(j, r) == r.on /\ 0 < r.next /\ r.next <= occ[j]
Runnable(j, r) == Due(j, r) /\ ~r.run
Marked(m) == {j \in Jobs : m[j].run}
\* mutant of Wake: only next runs that are still to come set the timer.
WakeLater(m) == \E j \in Jobs : m[j].on /\ m[j].next > occ[j]
\* nextWakeAtMs: armTimer sets a timer if it finds a job with a next run.
Wake(m) == \E j \in Jobs : m[j].on /\ m[j].next > 0

\* normalizeJobTickState; stuck: the marker is more than two hours old.
Tidy(r, stuck) ==
  IF r.on THEN [r EXCEPT !.run = @ /\ ~stuck] ELSE [r EXCEPT !.next = 0, !.run = FALSE]

\* mutant of Maintain: next runs that have passed are recomputed as well.
MaintainAll(m, S) == [j \in Jobs |->
  LET r == Tidy(m[j], j \in S) IN
  IF r.on /\ (r.next = 0 \/ Due(j, r)) THEN [r EXCEPT !.next = NextRun(j, r)] ELSE r]

\* recomputeNextRunsForMaintenance: next runs are filled in, never moved.
Maintain(m, S) == [j \in Jobs |->
  LET r == Tidy(m[j], j \in S) IN
  IF r.on /\ r.next = 0 THEN [r EXCEPT !.next = NextRun(j, r)] ELSE r]

\* recomputeNextRuns: a next run that has passed is moved as well.
Recompute(m, S) == [j \in Jobs |->
  LET r == Tidy(m[j], j \in S) IN
  IF r.on /\ (r.next = 0 \/ Due(j, r)) THEN [r EXCEPT !.next = NextRun(j, r)] ELSE r]

\* applyJobResult, and the removal of a one-shot job that is done.
Applied(j, r, status, backoff) ==
  IF ~r.here \/ (Kind[j] = "once" /\ status = "ok") THEN NoJob
  ELSE LET s == IF OneShot(j) THEN [r EXCEPT !.run = FALSE, !.on = FALSE, !.last = status]
                ELSE [r EXCEPT !.run = FALSE]
       IN
       [s EXCEPT !.next = IF ~s.on THEN 0
                          ELSE NextRun(j, s) + (IF status = "error" THEN backoff ELSE 0)]

Init ==
  /\ file = [j \in Jobs |-> IF j \in Present
       THEN [NoJob EXCEPT !.here = TRUE, !.on = TRUE, !.next = 1] ELSE NoJob]
  /\ mem = [s \in Services |-> [j \in Jobs |-> NoJob]]
  /\ life = [s \in Services |-> "off"] /\ armed = [s \in Services |-> FALSE]
  /\ tick = [s \in Services |-> Idle] /\ hold = [s \in Services |-> NoHold]
  /\ current = First /\ bound = First
  /\ occ = [j \in Jobs |-> 0] /\ born = Present
  /\ events = 0 /\ fired = {} /\ redo = {} /\ clash = {}

Unlocked == \A s \in Services : hold[s].what = "none"
Event(n) == events + n <= MaxEvents /\ events' = events + n
Excused(F, C) == redo' = redo \cup F /\ clash' = clash \cup C
Arm(s, m) == armed' = [armed EXCEPT ![s] = Wake(m)]
Ids(X) == {x.j : x \in X}
Open == {"on", "failed", "unread"}
\* ensureLoaded: a store that could not be read at the start is read by the
\* next call, which changes nothing if the reading fails once more.
Store(s) == IF life[s] = "unread" THEN file ELSE mem[s]
Got(s) == {j \in Jobs : tick[s].got[j] # "none"}
\* Jobs under execution, or executed and not written down.
InHand(s) == Ids(tick[s].busy \cup hold[s].busy) \cup Got(s) \cup hold[s].done
Executing(j) ==
  Cardinality({s \in Services : j \in Ids(tick[s].busy)})
  + Cardinality({s \in Services : j \in Ids(hold[s].busy)})

InBatch == UNION {InHand(s) \cup Ids(tick[s].todo) : s \in Services}
\* Markers that nobody will clear, and that are two hours old some time.
Leftover(m) == Marked(m) \ InBatch

\* persist, which may fail and then leaves the memory changed.  The markers
\* of S were cleared, because they were more than two hours old.
Save(s, m, ok, S, calls) ==
  /\ mem' = [mem EXCEPT ![s] = m]
  /\ file' = IF ok THEN m ELSE file
  /\ Event(calls + (IF ok THEN 0 ELSE 1) + (IF S \cap InBatch = {} THEN 0 ELSE 1))

-----------------------------------------------------------------------------
(* onTimer *)

\* The timer fires; while a tick is running it is only set again.
Fire(s) ==
  /\ armed[s]
  /\ armed' = [armed EXCEPT ![s] = tick[s].pc # "idle"]
  /\ tick' = [tick EXCEPT ![s].pc = IF @ = "idle" THEN "collect" ELSE @]
  /\ UNCHANGED <<store, life, hold, current, bound, world, fired, excuses>>

\* Nothing is due: maintenance, written down if it changed anything.
CollectNothing(s, S, ok) ==
  LET m == Maintain(file, S) IN
  /\ tick[s].pc = "collect" /\ Unlocked
  /\ \A j \in Jobs : ~Runnable(j, file[j])
  /\ Save(s, m, ok, S, 0) /\ (m = file => ok) /\ Excused(S, S)
  /\ tick' = [tick EXCEPT ![s].pc = "done"]
  /\ UNCHANGED <<life, armed, hold, current, bound, occ, born, fired>>

\* The due jobs are marked as running and make up the batch of this tick.
Collect(s, ok) ==
  LET due == {j \in Jobs : Runnable(j, file[j])}
      m == [j \in Jobs |-> [file[j] EXCEPT !.run = @ \/ j \in due]]
  IN
  /\ tick[s].pc = "collect" /\ Unlocked /\ due # {}
  /\ Save(s, m, ok, {}, 0)
  /\ tick' = [tick EXCEPT
       ![s].pc = IF ok THEN "exec" ELSE "done",
       ![s].todo = IF ok THEN {[j |-> j, n |-> file[j].next] : j \in due} ELSE {}]
  /\ UNCHANGED <<life, armed, hold, current, bound, occ, born, fired, excuses>>

\* The next job of the batch, without another look at it.
Begin(s) ==
  /\ tick[s].pc = "exec" /\ tick[s].busy = {}
  /\ \E x \in tick[s].todo :
       /\ tick' = [tick EXCEPT ![s].todo = @ \ {x}, ![s].busy = {x}]
       /\ mem' = [mem EXCEPT ![s][x.j].run = @ \/ mem[s][x.j].here]
       /\ fired' = fired \cup {x}
  /\ UNCHANGED <<file, life, armed, hold, current, bound, world, excuses>>

\* The execution ends, or is given up after its timeout and goes on unwatched.
End(s) ==
  /\ \E x \in tick[s].busy, status \in {"ok", "error"} :
       tick' = [tick EXCEPT ![s].busy = {}, ![s].got[x.j] = status]
  /\ UNCHANGED <<store, life, armed, hold, current, bound, world, fired, excuses>>

\* The results are written into the reloaded store.
Apply(s, S, backoff, ok) ==
  LET results == [j \in Jobs |-> IF j \in Got(s)
                    THEN Applied(j, file[j], tick[s].got[j], backoff) ELSE file[j]]
  IN
  /\ tick[s].pc = "exec" /\ tick[s].busy = {} /\ tick[s].todo = {} /\ Unlocked
  /\ S \subseteq Marked(results)
  /\ Save(s, Maintain(results, S), ok, S, 0)
  /\ Excused(IF ok THEN S ELSE S \cup Got(s), S)
  /\ tick' = [tick EXCEPT ![s] = [Idle EXCEPT !.pc = "done"]]
  /\ UNCHANGED <<life, armed, hold, current, bound, occ, born, fired>>

\* Reading the file fails, before or after the executions.
LoadFails(s) ==
  /\ tick[s].pc = "collect" \/ (tick[s].pc = "exec" /\ tick[s].busy = {} /\ tick[s].todo = {})
  /\ Unlocked /\ Event(1) /\ Excused(Got(s), {})
  /\ tick' = [tick EXCEPT ![s] = [Idle EXCEPT !.pc = "done"]]
  /\ UNCHANGED <<store, life, armed, hold, current, bound, occ, born, fired>>

\* finally: whatever happened, the timer is set, also of a stopped service.
Done(s) ==
  /\ tick[s].pc = "done" /\ Arm(s, mem[s])
  /\ tick' = [tick EXCEPT ![s] = Idle]
  /\ UNCHANGED <<store, life, hold, current, bound, world, fired, excuses>>

-----------------------------------------------------------------------------
(* Executions that hold the lock: missed jobs and manual runs *)

\* start: markers of interrupted jobs are cleared and these jobs passed over.
Start(s) ==
  LET m == [j \in Jobs |-> [file[j] EXCEPT !.run = FALSE]]
      missed == {j \in Jobs : Runnable(j, file[j]) /\ (OneShot(j) => file[j].last = "none")}
  IN
  /\ life[s] = "starting" /\ Unlocked
  /\ life' = [life EXCEPT ![s] = "on"]
  /\ mem' = [mem EXCEPT ![s] = m]
  /\ hold' = [hold EXCEPT ![s] = [NoHold EXCEPT !.what = "start",
                !.todo = {[j |-> j, n |-> file[j].next] : j \in missed}]]
  /\ UNCHANGED <<file, armed, tick, current, bound, world, fired, excuses>>

\* The file cannot be read, or not be written after old entries in it were
\* brought up to date: start gives up before it has set the timer.
StartFails(s, read) ==
  /\ life[s] = "starting" /\ Unlocked /\ Event(1)
  /\ life' = [life EXCEPT ![s] = IF read THEN "failed" ELSE "unread"]
  /\ mem' = [mem EXCEPT ![s] = IF read THEN file ELSE @]
  /\ UNCHANGED <<file, armed, tick, hold, current, bound, occ, born, fired, excuses>>

Running(j, n) ==
  /\ hold' = [hold EXCEPT ![bound] = [NoHold EXCEPT !.what = "run", !.todo = {[j |-> j, n |-> n]}]]
  /\ mem' = [mem EXCEPT ![bound] = Store(bound)]
  /\ life' = [life EXCEPT ![bound] = IF @ = "unread" THEN "failed" ELSE @]
  /\ UNCHANGED <<file, armed, tick, current, bound, occ, born, fired, excuses>>

\* mutant of RunNow: the running marker is not looked at.
RunNowAgain(j, force) ==
  LET r == Store(bound)[j] IN
  /\ life[bound] \in Open /\ Unlocked
  /\ r.here /\ (force \/ Due(j, r))
  /\ Event(1)
  /\ Running(j, IF Due(j, r) THEN r.next ELSE 0)

\* run, forced or only if the job is due.
RunNow(j, force) ==
  LET r == Store(bound)[j] IN
  /\ life[bound] \in Open /\ Unlocked
  /\ r.here /\ ~r.run /\ (force \/ Due(j, r))
  /\ Event(1)
  /\ Running(j, IF Due(j, r) THEN r.next ELSE 0)

\* An update or a run that stops at findJobOrThrow, at the running marker or
\* at isJobDue may be the one that reads the store.
Refused ==
  /\ life[bound] = "unread" /\ Unlocked
  /\ life' = [life EXCEPT ![bound] = "failed"]
  /\ mem' = [mem EXCEPT ![bound] = file]
  /\ UNCHANGED <<file, armed, tick, hold, current, bound, world, fired, excuses>>

HoldBegin(s) ==
  /\ hold[s].busy = {}
  /\ \E x \in hold[s].todo :
       /\ hold' = [hold EXCEPT ![s].todo = @ \ {x}, ![s].busy = {x}]
       /\ mem' = [mem EXCEPT ![s][x.j].run = TRUE]
       /\ fired' = fired \cup {x}
  /\ UNCHANGED <<file, life, armed, tick, current, bound, world, excuses>>

HoldEnd(s) ==
  /\ \E x \in hold[s].busy, status \in {"ok", "error"}, backoff \in Backoffs :
       /\ hold' = [hold EXCEPT ![s].busy = {}, ![s].done = @ \cup {x.j}]
       /\ mem' = [mem EXCEPT ![s][x.j] = Applied(x.j, @, status, backoff)]
  /\ UNCHANGED <<file, life, armed, tick, current, bound, world, fired, excuses>>

\* All next runs are recomputed, and only now anything is written down.
HoldFinish(s, S, ok) ==
  LET m == Recompute(mem[s], S) IN
  /\ hold[s].what # "none" /\ hold[s].todo = {} /\ hold[s].busy = {}
  /\ Save(s, m, ok, S, 0)
  /\ IF ok THEN Arm(s, m) ELSE UNCHANGED armed
  /\ life' = [life EXCEPT ![s] = IF ok THEN "on" ELSE "failed"]
  /\ Excused(IF ok THEN S ELSE Jobs, S)
  /\ hold' = [hold EXCEPT ![s] = NoHold]
  /\ UNCHANGED <<tick, current, bound, occ, born, fired>>

-----------------------------------------------------------------------------
(* Calls of the user, to the service the request handlers know *)

Call(m, ok, S, F, C) ==
  LET s == bound IN
  /\ life[s] \in Open /\ Unlocked
  /\ Save(s, m, ok, S, 1)
  /\ IF ok THEN Arm(s, m) ELSE UNCHANGED armed
  /\ Excused(IF ok THEN F ELSE Jobs, C)
  /\ life' = [life EXCEPT ![s] = IF ok THEN "on" ELSE "failed"]
  /\ UNCHANGED <<tick, hold, current, bound, occ, fired>>

\* add: the next runs of all jobs are recomputed.
Add(j, S, ok) ==
  LET m == [Store(bound) EXCEPT ![j] = NewJob(j)] IN
  /\ j \notin born /\ born' = born \cup {j}
  /\ Call(Recompute(m, S), ok, S, S, S)

\* update: enable (or a new schedule), disable, or anything else.
Updated(j, r, patch) ==
  LET e == [r EXCEPT !.on = TRUE] IN
  CASE patch = "enable"  -> [e EXCEPT !.next = NextRun(j, e)]
    [] patch = "disable" -> [r EXCEPT !.on = FALSE, !.next = 0, !.run = FALSE]
    [] OTHER -> IF r.on /\ r.next = 0 THEN [r EXCEPT !.next = NextRun(j, r)] ELSE r
Update(j, patch, ok) ==
  LET r == Store(bound)[j] IN
  /\ r.here
  /\ Call([Store(bound) EXCEPT ![j] = Updated(j, r, patch)], ok, {},
          {i \in {j} : patch = "enable" /\ OneShot(i)}, {i \in {j} : patch = "disable"})
  /\ UNCHANGED born

\* remove: a store that is read only now is recomputed as well.
Remove(j, S, ok) ==
  LET m == IF life[bound] = "unread" THEN Recompute(file, S) ELSE mem[bound] IN
  /\ m[j].here /\ (S # {} => life[bound] = "unread")
  /\ Call([m EXCEPT ![j] = NoJob], ok, S, S, S \cup {j})
  /\ UNCHANGED born

\* list and status do maintenance, and write it down if it changed anything;
\* they set no timer.
Read(S, ok) ==
  LET m == Maintain(Store(bound), S) IN
  /\ m # mem[bound]
  /\ Save(bound, m, ok, S, 0) /\ (m = Store(bound) => ok)
  /\ Excused(IF ok THEN S ELSE Jobs, S)
  /\ life[bound] \in Open /\ Unlocked
  /\ life' = [life EXCEPT ![bound] = IF @ = "unread" THEN "failed" ELSE @]
  /\ UNCHANGED <<armed, tick, hold, current, bound, occ, born, fired>>

-----------------------------------------------------------------------------
(* The gateway around it, and time *)

\* The process starts.
Boot ==
  /\ \A s \in Services : life[s] = "off"
  /\ current' = First /\ bound' = First
  /\ life' = [life EXCEPT ![First] = "starting"]
  /\ UNCHANGED <<store, armed, tick, hold, world, fired, excuses>>

Quiet == \A s \in Services :
  life[s] # "starting" /\ tick[s].pc = "idle" /\ hold[s].what = "none"
Replace(old, new) ==
  /\ life[old] # "off" /\ life[new] = "off"
  /\ life' = [life EXCEPT ![new] = "starting"]
  /\ armed' = [armed EXCEPT ![old] = FALSE]
  /\ current' = new /\ Event(1)
  /\ UNCHANGED <<store, tick, hold, occ, born, fired>>

\* A hot reload of the configuration: stop() clears the timer of the current
\* service and a new one is started; the request handlers keep the old one.
Reload(new) == Replace(current, new) /\ UNCHANGED bound /\ Excused(Jobs, Jobs)

\* A restart in the same process: the service the handlers know is stopped.
Restart(new) ==
  /\ Replace(bound, new) /\ bound' = new
  /\ LET all == IF Quiet THEN {} ELSE Jobs IN Excused(all, all)

\* The process dies: only the file stays.  A recurring job in the hands of a
\* tick is marked as running in it.
Crash ==
  LET held == UNION {Ids(hold[s].busy) \cup hold[s].done : s \in Services}
      once == {j \in UNION {InHand(s) : s \in Services} : OneShot(j)}
  IN
  /\ \E s \in Services : life[s] # "off"
  /\ Event(1) /\ Excused(held \cup once, {})
  /\ mem' = [s \in Services |-> [j \in Jobs |-> NoJob]]
  /\ life' = [s \in Services |-> "off"] /\ armed' = [s \in Services |-> FALSE]
  /\ tick' = [s \in Services |-> Idle] /\ hold' = [s \in Services |-> NoHold]
  /\ UNCHANGED <<file, current, bound, occ, born, fired>>

\* The next occurrence of a job comes.
Pass(j) ==
  /\ occ[j] < (IF OneShot(j) THEN 1 ELSE MaxOcc)
  /\ occ' = [occ EXCEPT ![j] = @ + 1]
  /\ UNCHANGED <<store, control, born, events, fired, excuses>>

-----------------------------------------------------------------------------
Tick(s) ==
  \/ Fire(s) \/ Begin(s) \/ End(s) \/ LoadFails(s) \/ Done(s)
  \/ \E ok \in BOOLEAN :
       \/ Collect(s, ok)
       \/ \E S \in SUBSET Marked(file) : CollectNothing(s, S, ok)
       \/ \E S \in SUBSET Marked(file), backoff \in Backoffs : Apply(s, S, backoff, ok)
Holding(s) ==
  \/ Start(s) \/ (\E read \in BOOLEAN : StartFails(s, read)) \/ HoldBegin(s) \/ HoldEnd(s)
  \/ \E S \in SUBSET Marked(mem[s]), ok \in BOOLEAN : HoldFinish(s, S, ok)
User(j, ok) ==
  \/ \E S \in SUBSET Marked(Store(bound)) : Add(j, S, ok) \/ Remove(j, S, ok)
  \/ \E patch \in {"enable", "disable", "other"} : Update(j, patch, ok)

Next ==
  \/ \E s \in Services :
       Tick(s) \/ Holding(s) \/ Reload(s) \/ Restart(s)
  \/ \E j \in Jobs :
       \/ Pass(j)
       \/ \E ok \in BOOLEAN : User(j, ok) \/ RunNow(j, ok)
  \/ \E S \in SUBSET Marked(Store(bound)), ok \in BOOLEAN : Read(S, ok)
  \/ Refused \/ Boot \/ Crash

\* The lock is handed on in the order of the requests, so whoever waits for
\* it gets it; timers fire, executions end or are given up; a marker that
\* was left behind is two hours old some time; a dead process is started
\* again.
Fairness ==
  /\ WF_vars(Boot)
  /\ \A s \in Services :
       /\ SF_vars(Tick(s)) /\ SF_vars(Holding(s))
       /\ SF_vars(CollectNothing(s, Leftover(file), TRUE))

Spec == Init /\ [][Next]_vars
FairSpec == Spec /\ Fairness

-----------------------------------------------------------------------------
Entry == [here : BOOLEAN, on : BOOLEAN, next : Nat, run : BOOLEAN,
          last : {"none", "ok", "error"}]
TypeOK ==
  /\ file \in [Jobs -> Entry] /\ mem \in [Services -> [Jobs -> Entry]]
  /\ life \in [Services -> {"off", "starting", "on", "failed", "unread"}]
  /\ armed \in [Services -> BOOLEAN]
  /\ tick \in [Services -> [pc : {"idle", "collect", "exec", "done"},
                            todo : SUBSET Run, busy : SUBSET Run,
                            got : [Jobs -> {"none", "ok", "error"}]]]
  /\ hold \in [Services -> [what : {"none", "start", "run"},
                            todo : SUBSET Run, busy : SUBSET Run, done : SUBSET Jobs]]
  /\ current \in Services /\ bound \in Services
  /\ occ \in [Jobs -> Nat] /\ born \subseteq Jobs
  /\ events \in 0..MaxEvents
  /\ fired \subseteq Run
  /\ redo \subseteq Jobs /\ clash \subseteq Jobs

\* No two executions of a job are waited for at the same time, unless it was
\* disabled, removed or running for two hours, or the service replaced.
NoOverlap == \A j \in Jobs : Executing(j) > 1 => j \in clash

\* The executions that start in this step.
Busy(s) == tick[s].busy \cup hold[s].busy
Started == UNION {Busy(s)' \ Busy(s) : s \in Services}

\* An occurrence is executed once, unless its result was lost by a disk error
\* or a marker of two hours, a one-shot job interrupted by a crash or enabled
\* again, a missed or manual run interrupted, or the service replaced.
OccurrenceOnce ==
  [][\A x \in Started : x.n > 0 /\ x \in fired => x.j \in redo]_vars

\* A due occurrence is moved on without execution only by the user, by a
\* manual run and by a start, never by a tick, list or status (issues 13992,
\* 16156 and 17852), unless its result was lost or the job disabled while it
\* was running.
NeverSkipped ==
  [][\A j \in Jobs :
       /\ Runnable(j, file[j]) /\ file'[j].on /\ file'[j].next > file[j].next
       /\ UNCHANGED <<events, hold>>
       => [j |-> j, n |-> file[j].next] \in fired \/ j \in redo \cup clash]_vars

\* An occurrence that has come is executed or taken back, unless a start has
\* failed to read or to write the file, or a call to write it, and no call has
\* gone through since: such a service may be without a timer.
EveryDueRuns ==
  \A j \in Jobs, n \in 1..(MaxOcc + 1) :
    file[j].on /\ file[j].next = n /\ n <= occ[j]
      ~> \/ [j |-> j, n |-> n] \in fired \/ ~file[j].on \/ file[j].next # n
         \/ \E s \in Services : life[s] \in {"failed", "unread"}
=============================================================================
