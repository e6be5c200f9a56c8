------------------------- MODULE CronService_proofs -------------------------
(***************************************************************************)
(* Proofs about CronService, for any jobs, services, backoffs and number   *)
(* of occurrences and events; and about the schedules it abstracts from.   *)
(***************************************************************************)
EXTENDS CronService, CronSchedule, FiniteSetTheorems, TLAPS

(* A service that does nothing and will not begin to by itself.            *)
Rested(s) == tick[s].pc = "idle" /\ hold[s].what = "none" /\ ~armed[s]

Rests == \A s \in Services :
  /\ tick[s].pc # "exec" => tick[s].todo = {} /\ tick[s].busy = {} /\ Got(s) = {}
  /\ hold[s].what = "none" => hold[s].todo = {} /\ hold[s].busy = {}
  /\ life[s] \in {"off", "starting", "unread"} => Rested(s)

(* Jobs that are there were added.                                         *)
Alive(r) == r.here \/ r.on
Known == \A j \in Jobs :
  /\ Alive(file[j]) => j \in born
  /\ \A s \in Services : Alive(mem[s][j]) => j \in born

(* Only the service of the request handlers does anything.                 *)
Lone == Jobs \subseteq clash \/ \A s \in Services : s # bound => Rested(s) /\ life[s] # "starting"

(* What a tick has in its batch is marked, on disk and in memory, and is   *)
(* not executed inside the lock as well.                                   *)
Own(s) == Ids(tick[s].todo \cup tick[s].busy) \cup Got(s)
Held(s) == Ids(hold[s].todo \cup hold[s].busy)
Marks == \A j \in Jobs : j \notin clash /\ j \in Own(bound) =>
  /\ file[j].run /\ file[j].on /\ mem[bound][j].run /\ mem[bound][j].on
  /\ j \notin Held(bound)

IInv == TypeOK /\ Rests /\ Known /\ Lone /\ Marks

Ticks == [pc : {"idle", "collect", "exec", "done"}, todo : SUBSET Run, busy : SUBSET Run,
          got : [Jobs -> {"none", "ok", "error"}]]
Holds == [what : {"none", "start", "run"}, todo : SUBSET Run, busy : SUBSET Run,
          done : SUBSET Jobs]
-----------------------------------------------------------------------------
LEMMA Given ==
  /\ Kind \in [Jobs -> {"every", "at", "once"}] /\ Present \subseteq Jobs
  /\ IsFiniteSet(Services) /\ First \in Services
  /\ Backoffs \subseteq Nat /\ MaxOcc \in Nat /\ MaxEvents \in Nat
BY CronAssumption DEF First

(* Entries.                                                                *)
LEMMA EntryFields ==
  ASSUME NEW r \in Entry
  PROVE  /\ r.here \in BOOLEAN /\ r.on \in BOOLEAN /\ r.run \in BOOLEAN /\ r.next \in Nat
         /\ r.last \in {"none", "ok", "error"}
         /\ r = [here |-> r.here, on |-> r.on, next |-> r.next, run |-> r.run, last |-> r.last]
BY DEF Entry

LEMMA NoJobType == NoJob \in Entry /\ ~Alive(NoJob)
BY DEF NoJob, Entry, Alive

LEMMA NextRunType ==
  ASSUME NEW j \in Jobs, NEW r, occ \in [Jobs -> Nat] PROVE NextRun(j, r) \in Nat
BY DEF NextRun

LEMMA NewJobType ==
  ASSUME NEW j \in Jobs, occ \in [Jobs -> Nat] PROVE NewJob(j) \in Entry
<1>1. PICK n \in Nat : n = IF OneShot(j) THEN 1 ELSE occ[j] + 1 OBVIOUS
<1>2. NewJob(j) = [NoJob EXCEPT !.here = TRUE, !.on = TRUE, !.next = n]
  BY <1>1, Zenon DEF NewJob
<1>3. [NoJob EXCEPT !.here = TRUE, !.on = TRUE, !.next = n] \in Entry BY DEF NoJob, Entry
<1> QED BY <1>2, <1>3

(* A marker is only taken from a job that is off, or from those of S.      *)
LEMMA TidyEntry ==
  ASSUME NEW r \in Entry, NEW stuck \in BOOLEAN
  PROVE  /\ Tidy(r, stuck) \in Entry
         /\ Tidy(r, stuck).here = r.here /\ Tidy(r, stuck).on = r.on
         /\ r.on /\ ~stuck => Tidy(r, stuck).run = r.run
BY DEF Tidy, Entry

LEMMA NextEntry ==
  ASSUME NEW r \in Entry, NEW n \in Nat
  PROVE  /\ [r EXCEPT !.next = n] \in Entry
         /\ [r EXCEPT !.next = n].here = r.here /\ [r EXCEPT !.next = n].on = r.on
         /\ [r EXCEPT !.next = n].run = r.run
BY DEF Entry

LEMMA MaintainEntries ==
  ASSUME NEW m \in [Jobs -> Entry], NEW S, occ \in [Jobs -> Nat]
  PROVE  /\ Maintain(m, S) \in [Jobs -> Entry]
         /\ \A j \in Jobs : /\ Alive(Maintain(m, S)[j]) <=> Alive(m[j])
                            /\ Maintain(m, S)[j].on = m[j].on
                            /\ m[j].on /\ j \notin S => Maintain(m, S)[j].run = m[j].run
<1> SUFFICES ASSUME NEW j \in Jobs
             PROVE  /\ Maintain(m, S)[j] \in Entry
                    /\ Alive(Maintain(m, S)[j]) <=> Alive(m[j])
                    /\ Maintain(m, S)[j].on = m[j].on
                    /\ m[j].on /\ j \notin S => Maintain(m, S)[j].run = m[j].run
  BY DEF Maintain
<1> DEFINE r == Tidy(m[j], j \in S)
<1>1. m[j] \in Entry /\ (j \in S) \in BOOLEAN OBVIOUS
<1>2. /\ r \in Entry /\ r.here = m[j].here /\ r.on = m[j].on
      /\ m[j].on /\ j \notin S => r.run = m[j].run
  BY <1>1, TidyEntry
<1>3. Maintain(m, S)[j] = IF r.on /\ r.next = 0 THEN [r EXCEPT !.next = NextRun(j, r)] ELSE r
  BY DEF Maintain
<1>4. NextRun(j, r) \in Nat BY NextRunType
<1> HIDE DEF r
<1> QED BY <1>2, <1>3, <1>4, NextEntry DEF Alive

LEMMA RecomputeEntries ==
  ASSUME NEW m \in [Jobs -> Entry], NEW S, occ \in [Jobs -> Nat]
  PROVE  /\ Recompute(m, S) \in [Jobs -> Entry]
         /\ \A j \in Jobs : /\ Alive(Recompute(m, S)[j]) <=> Alive(m[j])
                            /\ Recompute(m, S)[j].on = m[j].on
                            /\ m[j].on /\ j \notin S => Recompute(m, S)[j].run = m[j].run
<1> SUFFICES ASSUME NEW j \in Jobs
             PROVE  /\ Recompute(m, S)[j] \in Entry
                    /\ Alive(Recompute(m, S)[j]) <=> Alive(m[j])
                    /\ Recompute(m, S)[j].on = m[j].on
                    /\ m[j].on /\ j \notin S => Recompute(m, S)[j].run = m[j].run
  BY DEF Recompute
<1> DEFINE r == Tidy(m[j], j \in S)
<1>1. m[j] \in Entry /\ (j \in S) \in BOOLEAN OBVIOUS
<1>2. /\ r \in Entry /\ r.here = m[j].here /\ r.on = m[j].on
      /\ m[j].on /\ j \notin S => r.run = m[j].run
  BY <1>1, TidyEntry
<1>3. Recompute(m, S)[j] =
        IF r.on /\ (r.next = 0 \/ Due(j, r)) THEN [r EXCEPT !.next = NextRun(j, r)] ELSE r
  BY DEF Recompute
<1>4. NextRun(j, r) \in Nat BY NextRunType
<1> HIDE DEF r
<1> QED BY <1>2, <1>3, <1>4, NextEntry DEF Alive

LEMMA AppliedEntry ==
  ASSUME NEW j \in Jobs, NEW r \in Entry, NEW status \in {"ok", "error"}, NEW backoff \in Backoffs,
         occ \in [Jobs -> Nat]
  PROVE  Applied(j, r, status, backoff) \in Entry /\ (Alive(Applied(j, r, status, backoff)) => Alive(r))
<1> DEFINE s == IF OneShot(j) THEN [r EXCEPT !.run = FALSE, !.on = FALSE, !.last = status]
                ELSE [r EXCEPT !.run = FALSE]
           n == IF ~s.on THEN 0
                ELSE NextRun(j, s) + (IF status = "error" THEN backoff ELSE 0)
<1>1. s \in Entry /\ s.here = r.here /\ (s.on => r.on) BY DEF Entry
<1>2. n \in Nat
  <2>1. backoff \in Nat BY Given
  <2>2. NextRun(j, s) \in Nat BY NextRunType
  <2> HIDE DEF s
  <2> QED BY <2>1, <2>2
<1>3. Applied(j, r, status, backoff) =
        IF ~r.here \/ (Kind[j] = "once" /\ status = "ok") THEN NoJob ELSE [s EXCEPT !.next = n]
  BY DEF Applied
<1> HIDE DEF s, n
<1> QED BY <1>1, <1>2, <1>3, NoJobType, NextEntry DEF Alive

LEMMA UpdatedEntry ==
  ASSUME NEW j \in Jobs, NEW r \in Entry, NEW patch \in {"enable", "disable", "other"},
         occ \in [Jobs -> Nat]
  PROVE  /\ Updated(j, r, patch) \in Entry
         /\ patch # "disable" /\ r.on => Updated(j, r, patch).on /\ Updated(j, r, patch).run = r.run
<1> DEFINE e == [r EXCEPT !.on = TRUE]
<1>1. e \in Entry /\ e.run = r.run /\ e.on = TRUE BY DEF Entry
<1>2. NextRun(j, e) \in Nat /\ NextRun(j, r) \in Nat BY NextRunType
<1>3. CASE patch = "enable"
  <2>1. Updated(j, r, patch) = [e EXCEPT !.next = NextRun(j, e)] BY <1>3 DEF Updated
  <2> HIDE DEF e
  <2> QED BY <2>1, <1>1, <1>2, NextEntry
<1>4. CASE patch = "disable"
  <2>1. Updated(j, r, patch) = [r EXCEPT !.on = FALSE, !.next = 0, !.run = FALSE]
    BY <1>4 DEF Updated
  <2>2. [r EXCEPT !.on = FALSE, !.next = 0, !.run = FALSE] \in Entry BY DEF Entry
  <2> QED BY <2>1, <2>2, <1>4
<1>5. CASE patch = "other"
  <2>1. Updated(j, r, patch) = IF r.on /\ r.next = 0 THEN [r EXCEPT !.next = NextRun(j, r)] ELSE r
    BY <1>5 DEF Updated
  <2> QED BY <2>1, <1>2, NextEntry
<1> QED BY <1>3, <1>4, <1>5

-----------------------------------------------------------------------------
(* What services, files and memories are.                                  *)
LEMMA Parts ==
  ASSUME TypeOK
  PROVE  /\ tick \in [Services -> Ticks] /\ hold \in [Services -> Holds]
         /\ \A s \in Services : /\ tick[s] \in Ticks /\ hold[s] \in Holds
                                /\ mem[s] \in [Jobs -> Entry] /\ armed[s] \in BOOLEAN
         /\ file \in [Jobs -> Entry] /\ mem \in [Services -> [Jobs -> Entry]]
         /\ life \in [Services -> {"off", "starting", "on", "failed", "unread"}]
         /\ armed \in [Services -> BOOLEAN] /\ bound \in Services
         /\ occ \in [Jobs -> Nat] /\ born \subseteq Jobs /\ events \in 0..MaxEvents
BY DEF TypeOK, Ticks, Holds

LEMMA TickFields ==
  ASSUME NEW t \in Ticks
  PROVE  /\ t.pc \in {"idle", "collect", "exec", "done"}
         /\ t.todo \subseteq Run /\ t.busy \subseteq Run /\ t.got \in [Jobs -> {"none", "ok", "error"}]
BY DEF Ticks

LEMMA HoldFields ==
  ASSUME NEW h \in Holds
  PROVE  /\ h.what \in {"none", "start", "run"}
         /\ h.todo \subseteq Run /\ h.busy \subseteq Run /\ h.done \subseteq Jobs
BY DEF Holds

LEMMA IdleTypes ==
  /\ Idle \in Ticks /\ Idle.pc = "idle" /\ Idle.todo = {} /\ Idle.busy = {}
  /\ \A j \in Jobs : Idle.got[j] = "none"
  /\ NoHold \in Holds /\ NoHold.what = "none" /\ NoHold.todo = {} /\ NoHold.busy = {}
  /\ [Idle EXCEPT !.pc = "done"] \in Ticks
  /\ [Idle EXCEPT !.pc = "done"].pc = "done" /\ [Idle EXCEPT !.pc = "done"].todo = {}
  /\ [Idle EXCEPT !.pc = "done"].busy = {}
  /\ \A j \in Jobs : [Idle EXCEPT !.pc = "done"].got[j] = "none"
BY DEF Idle, NoHold, Ticks, Holds

LEMMA RunFields ==
  ASSUME NEW x \in Run PROVE x.j \in Jobs /\ x.n \in Nat
BY DEF Run

(* Everything but service s stays as it is.                                *)
Others(s) == \A t \in Services : t # s =>
  tick'[t] = tick[t] /\ hold'[t] = hold[t] /\ armed'[t] = armed[t] /\ life'[t] = life[t]

(* A step of one service.                                                  *)
LEMMA LocalStep ==
  ASSUME IInv, NEW s \in Services, ~Rested(s) \/ life[s] = "starting" \/ s = bound,
         Others(s), bound' = bound, clash \subseteq clash',
         tick'[s].pc # "exec" => tick'[s].todo = {} /\ tick'[s].busy = {} /\ Got(s)' = {},
         hold'[s].what = "none" => hold'[s].todo = {} /\ hold'[s].busy = {},
         life'[s] \in {"off", "starting", "unread"} => Rested(s)'
  PROVE  Rests' /\ Lone' /\ (s = bound \/ Jobs \subseteq clash)
<1>1. s = bound \/ Jobs \subseteq clash BY DEF IInv, Lone
<1>2. Rests'
  <2> SUFFICES ASSUME NEW t \in Services
               PROVE  /\ tick'[t].pc # "exec" =>
                           tick'[t].todo = {} /\ tick'[t].busy = {} /\ Got(t)' = {}
                      /\ hold'[t].what = "none" => hold'[t].todo = {} /\ hold'[t].busy = {}
                      /\ life'[t] \in {"off", "starting", "unread"} => Rested(t)'
    BY DEF Rests
  <2>1. CASE t = s BY <2>1
  <2>2. CASE t # s
    <3>1. tick'[t] = tick[t] /\ hold'[t] = hold[t] /\ armed'[t] = armed[t] /\ life'[t] = life[t]
      BY <2>2 DEF Others
    <3>2. Got(t)' = Got(t) /\ (Rested(t) => Rested(t)') BY <3>1 DEF Got, Rested
    <3> QED BY <3>1, <3>2 DEF IInv, Rests
  <2> QED BY <2>1, <2>2
<1>3. Lone'
  <2>1. CASE Jobs \subseteq clash BY <2>1 DEF Lone
  <2>2. CASE ~(Jobs \subseteq clash)
    <3>1. s = bound' BY <2>2, <1>1
    <3>2. \A t \in Services : t # bound => Rested(t) /\ life[t] # "starting"
      BY <2>2 DEF IInv, Lone
    <3>3. \A t \in Services : t # s => Rested(t)' /\ life'[t] # "starting"
      BY <3>1, <3>2 DEF Others, Rested
    <3> QED BY <3>1, <3>3 DEF Lone
  <2> QED BY <2>1, <2>2
<1> QED BY <1>1, <1>2, <1>3

(* The jobs are written to memory and, perhaps, to the file.               *)
LEMMA SaveStep ==
  ASSUME IInv, NEW s \in Services, NEW m \in [Jobs -> Entry], NEW ok \in BOOLEAN, NEW S,
         NEW calls \in Nat, Save(s, m, ok, S, calls), born \subseteq born',
         \A j \in Jobs : Alive(m[j]) => j \in born'
  PROVE  /\ file' \in [Jobs -> Entry] /\ mem' \in [Services -> [Jobs -> Entry]]
         /\ events' \in 0..MaxEvents /\ Known'
         /\ mem'[s] = m /\ \A j \in Jobs : file'[j] \in {file[j], m[j]}
         /\ ok => file' = m
<1>1. /\ mem' = [mem EXCEPT ![s] = m] /\ file' = IF ok THEN m ELSE file
      /\ mem \in [Services -> [Jobs -> Entry]] /\ file \in [Jobs -> Entry]
  BY Parts DEF Save, IInv
<1>2. events' \in 0..MaxEvents
  <2>1. PICK n \in Nat : events + n <= MaxEvents /\ events' = events + n
    <3>1. calls + (IF ok THEN 0 ELSE 1) + (IF S \cap InBatch = {} THEN 0 ELSE 1) \in Nat OBVIOUS
    <3> QED BY <3>1, Zenon DEF Save, Event
  <2>2. events \in Nat /\ MaxEvents \in Nat BY Given, Parts DEF IInv
  <2> QED BY <2>1, <2>2
<1>3. Known' BY <1>1 DEF Known, IInv, Alive
<1> QED BY <1>1, <1>2, <1>3

(* Nothing is in the batch of a tick that does not execute.                *)
LEMMA NothingOwned ==
  ASSUME IInv, NEW s \in Services, tick[s].pc # "exec" PROVE Own(s) = {}
BY DEF IInv, Rests, Own, Ids

LEMMA NothingHeld ==
  ASSUME IInv, NEW s \in Services, hold[s].what = "none" PROVE Held(s) = {}
BY DEF IInv, Rests, Held, Ids

-----------------------------------------------------------------------------
(* The steps of a tick.                                                    *)
LEMMA FireInv ==
  ASSUME IInv, NEW s \in Services, Fire(s) PROVE IInv'
<1> DEFINE p == IF tick[s].pc = "idle" THEN "collect" ELSE tick[s].pc
           t == [tick[s] EXCEPT !.pc = p]
<1>0. TypeOK BY DEF IInv
<1>1. /\ armed[s] /\ armed' = [armed EXCEPT ![s] = tick[s].pc # "idle"]
      /\ tick' = [tick EXCEPT ![s].pc = IF @ = "idle" THEN "collect" ELSE @]
      /\ UNCHANGED <<store, life, hold, current, bound, world, fired, excuses>>
  BY DEF Fire
<1>2. tick[s] \in Ticks /\ tick \in [Services -> Ticks] /\ armed \in [Services -> BOOLEAN]
  BY <1>0, Parts
<1>3. p \in {"idle", "collect", "exec", "done"} /\ (p = "exec" <=> tick[s].pc = "exec")
  BY <1>2, TickFields
<1> HIDE DEF p
<1>4. /\ t \in Ticks /\ t.pc = p /\ t.todo = tick[s].todo /\ t.busy = tick[s].busy
      /\ t.got = tick[s].got
  BY <1>2, <1>3 DEF Ticks
<1>5. tick' = [tick EXCEPT ![s] = t] BY <1>1, <1>2 DEF Ticks, p
<1> HIDE DEF t
<1>6. tick' \in [Services -> Ticks] /\ tick'[s] = t /\ armed' \in [Services -> BOOLEAN]
  BY <1>1, <1>2, <1>4, <1>5
<1>7. TypeOK'
  BY <1>0, <1>1, <1>6 DEF TypeOK, Ticks, store, world, excuses
<1>8. Others(s) BY <1>1, <1>2, <1>5 DEF Others
<1>9. Got(s)' = Got(s) /\ Own(s)' = Own(s) BY <1>4, <1>6 DEF Got, Own, Ids
<1>10. Rests' /\ Lone' /\ (s = bound \/ Jobs \subseteq clash)
  <2>1. ~Rested(s) BY <1>1 DEF Rested
  <2>2. life[s] \notin {"off", "starting", "unread"} BY <2>1 DEF IInv, Rests
  <2>3. tick'[s].pc # "exec" => tick'[s].todo = {} /\ tick'[s].busy = {} /\ Got(s)' = {}
    BY <1>3, <1>4, <1>6, <1>9 DEF IInv, Rests
  <2>4. hold'[s].what = "none" => hold'[s].todo = {} /\ hold'[s].busy = {}
    BY <1>1 DEF IInv, Rests
  <2>5. bound' = bound /\ clash \subseteq clash' /\ life'[s] = life[s]
    BY <1>1 DEF excuses
  <2> QED BY <2>1, <2>2, <2>3, <2>4, <2>5, <1>8, LocalStep
<1>11. Known' BY <1>1 DEF IInv, Known, Alive, store, world
<1>12. Marks'
  <2>1. CASE Jobs \subseteq clash BY <2>1, <1>1 DEF Marks, excuses
  <2>2. CASE s = bound
    <3>1. Own(bound)' = Own(bound) BY <2>2, <1>1, <1>9
    <3> QED BY <3>1, <1>1 DEF IInv, Marks, Held, store, excuses
  <2> QED BY <2>1, <2>2, <1>10
<1> QED BY <1>7, <1>10, <1>11, <1>12 DEF IInv

(* A step of a tick that leaves it with an empty batch.                    *)
LEMMA EmptyBatch ==
  ASSUME IInv, NEW s \in Services, tick[s].pc # "idle", TypeOK', Known', Others(s),
         bound' = bound, clash \subseteq clash', hold' = hold, life' = life,
         tick'[s].pc # "exec", tick'[s].todo = {}, tick'[s].busy = {}, Got(s)' = {}
  PROVE  IInv'
<1>1. ~Rested(s) BY DEF Rested
<1>2. life[s] \notin {"off", "starting", "unread"} BY <1>1 DEF IInv, Rests
<1>3. hold'[s].what = "none" => hold'[s].todo = {} /\ hold'[s].busy = {} BY DEF IInv, Rests
<1>4. Rests' /\ Lone' /\ (s = bound \/ Jobs \subseteq clash)
  BY <1>1, <1>2, <1>3, LocalStep
<1>5. Marks'
  <2>1. CASE Jobs \subseteq clash BY <2>1 DEF Marks
  <2>2. CASE s = bound
    <3>1. Own(bound)' = {} BY <2>2 DEF Own, Ids
    <3> QED BY <3>1 DEF Marks
  <2> QED BY <2>1, <2>2, <1>4
<1> QED BY <1>4, <1>5 DEF IInv

LEMMA CollectNothingInv ==
  ASSUME IInv, NEW s \in Services, NEW S \in SUBSET Marked(file), NEW ok \in BOOLEAN,
         CollectNothing(s, S, ok)
  PROVE  IInv'
<1> DEFINE m == Maintain(file, S)
           t == [tick[s] EXCEPT !.pc = "done"]
<1>0. TypeOK BY DEF IInv
<1>1. /\ tick[s].pc = "collect" /\ Save(s, m, ok, S, 0) /\ Excused(S, S)
      /\ tick' = [tick EXCEPT ![s].pc = "done"]
      /\ UNCHANGED <<life, armed, hold, current, bound, occ, born, fired>>
  BY DEF CollectNothing
<1>2. tick[s] \in Ticks /\ tick \in [Services -> Ticks] /\ file \in [Jobs -> Entry]
      /\ occ \in [Jobs -> Nat]
  BY <1>0, Parts
<1>3. m \in [Jobs -> Entry] /\ \A j \in Jobs : Alive(m[j]) => j \in born'
  BY <1>1, <1>2, MaintainEntries DEF IInv, Known
<1> HIDE DEF m
<1>4. /\ file' \in [Jobs -> Entry] /\ mem' \in [Services -> [Jobs -> Entry]]
      /\ events' \in 0..MaxEvents /\ Known'
  BY <1>1, <1>3, SaveStep
<1>5. /\ t \in Ticks /\ t.pc = "done" /\ t.todo = tick[s].todo /\ t.busy = tick[s].busy
      /\ t.got = tick[s].got /\ tick' = [tick EXCEPT ![s] = t]
  BY <1>1, <1>2 DEF Ticks
<1> HIDE DEF t
<1>6. tick' \in [Services -> Ticks] /\ tick'[s] = t /\ Others(s)
  BY <1>1, <1>2, <1>5 DEF Others
<1>7. S \subseteq Jobs BY DEF Marked
<1>8. TypeOK' BY <1>0, <1>1, <1>4, <1>6, <1>7 DEF TypeOK, Ticks, Excused
<1>9. tick'[s].todo = {} /\ tick'[s].busy = {} /\ Got(s)' = {}
  <2>1. tick[s].todo = {} /\ tick[s].busy = {} /\ Got(s) = {} BY <1>1 DEF IInv, Rests
  <2> QED BY <2>1, <1>5, <1>6 DEF Got
<1>10. bound' = bound /\ clash \subseteq clash' /\ hold' = hold /\ life' = life
       /\ tick[s].pc # "idle" /\ tick'[s].pc # "exec"
  BY <1>1, <1>5, <1>6 DEF Excused
<1> QED BY <1>4, <1>6, <1>8, <1>9, <1>10, EmptyBatch

LEMMA CollectInv ==
  ASSUME IInv, NEW s \in Services, NEW ok \in BOOLEAN, Collect(s, ok) PROVE IInv'
<1> DEFINE due == {j \in Jobs : Runnable(j, file[j])}
           m == [j \in Jobs |-> [file[j] EXCEPT !.run = @ \/ j \in due]]
           p == IF ok THEN "exec" ELSE "done"
           todo == IF ok THEN {[j |-> j, n |-> file[j].next] : j \in due} ELSE {}
           t == [tick[s] EXCEPT !.pc = p, !.todo = todo]
<1>0. TypeOK BY DEF IInv
<1>1. /\ tick[s].pc = "collect" /\ Unlocked /\ Save(s, m, ok, {}, 0)
      /\ tick' = [tick EXCEPT ![s].pc = p, ![s].todo = todo]
      /\ UNCHANGED <<life, armed, hold, current, bound, occ, born, fired, excuses>>
  BY DEF Collect
<1>2. tick[s] \in Ticks /\ tick \in [Services -> Ticks] /\ file \in [Jobs -> Entry]
      /\ occ \in [Jobs -> Nat] /\ bound \in Services
  BY <1>0, Parts
<1>3. m \in [Jobs -> Entry]
      /\ \A j \in Jobs : m[j].here = file[j].here /\ m[j].on = file[j].on
  BY <1>2 DEF Entry
<1>4. \A j \in due : m[j].run /\ m[j].on
  BY <1>2, <1>3 DEF Runnable, Due, Entry
<1>5. todo \subseteq Run /\ Ids(todo) \subseteq due /\ (~ok => todo = {})
  <2>1. \A j \in due : file[j].next \in Nat BY <1>2 DEF Entry
  <2> QED BY <2>1 DEF Run, Ids
<1> HIDE DEF m, todo
<1>6. \A j \in Jobs : Alive(m[j]) => j \in born' BY <1>1, <1>3 DEF IInv, Known, Alive
<1>7. /\ file' \in [Jobs -> Entry] /\ mem' \in [Services -> [Jobs -> Entry]]
      /\ events' \in 0..MaxEvents /\ Known' /\ mem'[s] = m /\ (ok => file' = m)
  <2>1. 0 \in Nat /\ born \subseteq born' BY <1>1
  <2> QED BY <2>1, <1>1, <1>3, <1>6, SaveStep
<1>8. p \in {"exec", "done"} /\ (p = "exec" <=> ok) OBVIOUS
<1> HIDE DEF p
<1>9. /\ t \in Ticks /\ t.pc = p /\ t.todo = todo /\ t.busy = tick[s].busy
      /\ t.got = tick[s].got /\ tick' = [tick EXCEPT ![s] = t]
  BY <1>1, <1>2, <1>5, <1>8 DEF Ticks
<1> HIDE DEF t
<1>10. tick' \in [Services -> Ticks] /\ tick'[s] = t /\ Others(s)
  BY <1>1, <1>2, <1>9 DEF Others
<1>11. TypeOK' BY <1>0, <1>1, <1>7, <1>10 DEF TypeOK, Ticks, excuses
<1>12. tick'[s].busy = {} /\ Got(s)' = {} /\ Own(s)' \subseteq due
  <2>1. tick[s].busy = {} /\ Got(s) = {} BY <1>1 DEF IInv, Rests
  <2>2. tick'[s].busy = {} /\ Got(s)' = {} BY <2>1, <1>9, <1>10 DEF Got
  <2> QED BY <2>2, <1>5, <1>9, <1>10 DEF Own
<1>13. CASE ~ok
  <2>1. tick'[s].todo = {} /\ tick'[s].pc # "exec" BY <1>5, <1>8, <1>9, <1>10, <1>13
  <2>2. bound' = bound /\ clash \subseteq clash' /\ hold' = hold /\ life' = life
        /\ tick[s].pc # "idle"
    BY <1>1 DEF excuses
  <2> QED BY <2>1, <2>2, <1>7, <1>10, <1>11, <1>12, EmptyBatch
<1>14. CASE ok
  <2>1. tick'[s].pc = "exec" BY <1>8, <1>9, <1>10, <1>14
  <2>2. ~Rested(s) BY <1>1 DEF Rested
  <2>3. life'[s] \notin {"off", "starting", "unread"} BY <2>2, <1>1 DEF IInv, Rests
  <2>4. hold'[s].what = "none" => hold'[s].todo = {} /\ hold'[s].busy = {}
    BY <1>1 DEF IInv, Rests
  <2>5. Rests' /\ Lone' /\ (s = bound \/ Jobs \subseteq clash)
    <3>1. bound' = bound /\ clash \subseteq clash' BY <1>1 DEF excuses
    <3> QED BY <3>1, <2>1, <2>2, <2>3, <2>4, <1>10, LocalStep
  <2>6. Marks'
    <3>1. CASE Jobs \subseteq clash BY <3>1, <1>1 DEF Marks, excuses
    <3>2. CASE s = bound
      <4>1. Held(bound) = {} BY <1>1, <1>2, NothingHeld DEF Unlocked
      <4>2. Held(bound)' = {} BY <4>1, <1>1 DEF Held
      <4>3. \A j \in Own(bound)' : file'[j].run /\ file'[j].on /\ mem'[bound][j].run /\ mem'[bound][j].on
        BY <3>2, <1>1, <1>4, <1>7, <1>12, <1>14
      <4> QED BY <4>2, <4>3, <1>1 DEF Marks
    <3> QED BY <3>1, <3>2, <2>5
  <2> QED BY <2>5, <2>6, <1>7, <1>11 DEF IInv
<1> QED BY <1>13, <1>14

(* A step of a tick that executes its batch.                               *)
LEMMA BatchStep ==
  ASSUME IInv, NEW s \in Services, tick[s].pc # "idle", TypeOK', Known', Others(s),
         bound' = bound, clash' = clash, hold' = hold, life' = life, file' = file,
         tick'[s].pc = "exec", Own(s)' \subseteq Own(s),
         \A j \in Jobs : /\ mem[bound][j].on => mem'[bound][j].on
                         /\ mem[bound][j].run => mem'[bound][j].run
  PROVE  IInv'
<1>1. ~Rested(s) BY DEF Rested
<1>2. life[s] \notin {"off", "starting", "unread"} BY <1>1 DEF IInv, Rests
<1>3. hold'[s].what = "none" => hold'[s].todo = {} /\ hold'[s].busy = {} BY DEF IInv, Rests
<1>4. Rests' /\ Lone' /\ (s = bound \/ Jobs \subseteq clash)
  BY <1>1, <1>2, <1>3, LocalStep
<1>5. Marks'
  <2>1. CASE Jobs \subseteq clash BY <2>1 DEF Marks
  <2>2. CASE s = bound
    <3>1. Held(bound)' = Held(bound) /\ Own(bound)' \subseteq Own(bound) BY <2>2 DEF Held
    <3> SUFFICES ASSUME NEW j \in Jobs, j \notin clash', j \in Own(bound)'
                 PROVE  /\ file'[j].run /\ file'[j].on /\ mem'[bound][j].run /\ mem'[bound][j].on
                        /\ j \notin Held(bound)'
      BY DEF Marks
    <3>2. /\ file[j].run /\ file[j].on /\ mem[bound][j].run /\ mem[bound][j].on
          /\ j \notin Held(bound)
      BY <3>1 DEF IInv, Marks
    <3>3. mem'[bound][j].run /\ mem'[bound][j].on BY <3>2, Zenon
    <3>4. file'[j].run /\ file'[j].on /\ j \notin Held(bound)' BY <3>1, <3>2
    <3>5. bound' = bound OBVIOUS
    <3> QED BY <3>3, <3>4, <3>5
  <2> QED BY <2>1, <2>2, <1>4
<1> QED BY <1>4, <1>5 DEF IInv

LEMMA BeginInv ==
  ASSUME IInv, NEW s \in Services, Begin(s) PROVE IInv'
<1>0. TypeOK BY DEF IInv
<1>1. PICK x \in tick[s].todo :
        /\ tick' = [tick EXCEPT ![s].todo = @ \ {x}, ![s].busy = {x}]
        /\ mem' = [mem EXCEPT ![s][x.j].run = @ \/ mem[s][x.j].here]
        /\ fired' = fired \cup {x}
  BY DEF Begin
<1>2. /\ tick[s].pc = "exec" /\ tick[s].busy = {}
      /\ UNCHANGED <<file, life, armed, hold, current, bound, world, excuses>>
  BY DEF Begin
<1>3. tick[s] \in Ticks /\ tick \in [Services -> Ticks] /\ mem \in [Services -> [Jobs -> Entry]]
  BY <1>0, Parts
<1>4. x \in Run /\ x.j \in Jobs BY <1>3, TickFields, RunFields
<1> DEFINE t == [tick[s] EXCEPT !.todo = @ \ {x}, !.busy = {x}]
           r == [mem[s][x.j] EXCEPT !.run = @ \/ mem[s][x.j].here]
<1>5. /\ t \in Ticks /\ t.pc = "exec" /\ t.todo \cup t.busy = tick[s].todo
      /\ t.got = tick[s].got /\ tick' = [tick EXCEPT ![s] = t]
  <2>1. /\ t \in Ticks /\ t.pc = tick[s].pc /\ t.todo = tick[s].todo \ {x} /\ t.busy = {x}
        /\ t.got = tick[s].got
    BY <1>3, <1>4 DEF Ticks
  <2>2. tick' = [tick EXCEPT ![s] = t] BY <1>1, <1>3 DEF Ticks
  <2> HIDE DEF t
  <2>3. t.todo \cup t.busy = tick[s].todo BY <2>1
  <2> QED BY <2>1, <2>2, <2>3, <1>2
<1> HIDE DEF t
<1>6. /\ r \in Entry /\ r.here = mem[s][x.j].here /\ r.on = mem[s][x.j].on
      /\ (mem[s][x.j].run => r.run)
  <2>1. PICK b \in BOOLEAN : b = (mem[s][x.j].run \/ mem[s][x.j].here) OBVIOUS
  <2>2. r = [mem[s][x.j] EXCEPT !.run = b] BY <2>1, Zenon
  <2>3. mem[s][x.j] \in Entry BY <1>3, <1>4
  <2> HIDE DEF r
  <2>4. r \in Entry /\ r.here = mem[s][x.j].here /\ r.on = mem[s][x.j].on /\ r.run = b
    BY <2>2, <2>3 DEF Entry
  <2> QED BY <2>1, <2>4
<1>7. mem' = [mem EXCEPT ![s] = [mem[s] EXCEPT ![x.j] = r]] BY <1>1, <1>3, <1>4
<1> HIDE DEF r
<1>8. /\ tick' \in [Services -> Ticks] /\ tick'[s] = t /\ Others(s)
      /\ mem' \in [Services -> [Jobs -> Entry]]
  BY <1>2, <1>3, <1>5, <1>6, <1>7 DEF Others
<1>9. \A a \in Services, j \in Jobs :
        /\ mem'[a][j].here = mem[a][j].here /\ mem'[a][j].on = mem[a][j].on
        /\ (mem[a][j].run => mem'[a][j].run)
  BY <1>3, <1>4, <1>6, <1>7
<1>10. TypeOK' BY <1>0, <1>1, <1>2, <1>4, <1>8 DEF TypeOK, Ticks, world, excuses
<1>11. Known' BY <1>2, <1>9 DEF IInv, Known, Alive, world
<1>12. Own(s)' \subseteq Own(s) BY <1>2, <1>5, <1>8 DEF Own, Ids, Got
<1>13. bound \in Services BY <1>0, Parts
<1> QED BY <1>2, <1>5, <1>8, <1>9, <1>10, <1>11, <1>12, <1>13, BatchStep DEF excuses

LEMMA EndInv ==
  ASSUME IInv, NEW s \in Services, End(s) PROVE IInv'
<1>0. TypeOK BY DEF IInv
<1>1. PICK x \in tick[s].busy, status \in {"ok", "error"} :
        tick' = [tick EXCEPT ![s].busy = {}, ![s].got[x.j] = status]
  BY DEF End
<1>2. UNCHANGED <<store, life, armed, hold, current, bound, world, fired, excuses>> BY DEF End
<1>3. tick[s] \in Ticks /\ tick \in [Services -> Ticks] /\ bound \in Services
  BY <1>0, Parts
<1>4. x \in Run /\ x.j \in Jobs /\ tick[s].got \in [Jobs -> {"none", "ok", "error"}]
  BY <1>3, TickFields, RunFields
<1>5. tick[s].pc = "exec" BY <1>1 DEF IInv, Rests
<1> DEFINE g == [tick[s].got EXCEPT ![x.j] = status]
           t == [tick[s] EXCEPT !.busy = {}, !.got = g]
<1>6. g \in [Jobs -> {"none", "ok", "error"}] /\ \A j \in Jobs : j # x.j => g[j] = tick[s].got[j]
  BY <1>4
<1>7. tick' = [tick EXCEPT ![s] = t] BY <1>1, <1>3 DEF Ticks
<1> HIDE DEF g
<1>8. t \in Ticks /\ t.pc = "exec" /\ t.todo = tick[s].todo /\ t.busy = {} /\ t.got = g
  BY <1>3, <1>5, <1>6 DEF Ticks
<1> HIDE DEF t
<1>9. tick' \in [Services -> Ticks] /\ tick'[s] = t /\ Others(s)
  BY <1>2, <1>3, <1>7, <1>8 DEF Others
<1>10. TypeOK' BY <1>0, <1>2, <1>9 DEF TypeOK, Ticks, store, world, excuses
<1>11. Known' BY <1>2 DEF IInv, Known, Alive, store, world
<1>12. Own(s)' \subseteq Own(s)
  <2>1. x.j \in Own(s) BY <1>1 DEF Own, Ids
  <2>2. \A j \in Got(s)' : j = x.j \/ j \in Got(s) BY <1>6, <1>8, <1>9 DEF Got
  <2>3. Ids(tick'[s].todo \cup tick'[s].busy) \subseteq Ids(tick[s].todo \cup tick[s].busy)
    BY <1>8, <1>9 DEF Ids
  <2> QED BY <2>1, <2>2, <2>3 DEF Own
<1> QED BY <1>2, <1>5, <1>8, <1>9, <1>10, <1>11, <1>12, BatchStep DEF excuses, store

LEMMA ApplyInv ==
  ASSUME IInv, NEW s \in Services, NEW S \in SUBSET Marked(file), NEW backoff \in Backoffs,
         NEW ok \in BOOLEAN, Apply(s, S, backoff, ok)
  PROVE  IInv'
<1> DEFINE results == [j \in Jobs |-> IF j \in Got(s)
                         THEN Applied(j, file[j], tick[s].got[j], backoff) ELSE file[j]]
           m == Maintain(results, S)
           t == [Idle EXCEPT !.pc = "done"]
<1>0. TypeOK BY DEF IInv
<1>1. /\ tick[s].pc = "exec" /\ Save(s, m, ok, S, 0)
      /\ Excused(IF ok THEN S ELSE S \cup Got(s), S)
      /\ tick' = [tick EXCEPT ![s] = t]
      /\ UNCHANGED <<life, armed, hold, current, bound, occ, born, fired>>
  BY DEF Apply
<1>2. tick[s] \in Ticks /\ tick \in [Services -> Ticks] /\ file \in [Jobs -> Entry]
      /\ occ \in [Jobs -> Nat] /\ tick[s].got \in [Jobs -> {"none", "ok", "error"}]
  BY <1>0, Parts, TickFields
<1>3. \A j \in Jobs : results[j] \in Entry /\ (Alive(results[j]) => Alive(file[j]))
  <2> SUFFICES ASSUME NEW j \in Jobs
               PROVE  results[j] \in Entry /\ (Alive(results[j]) => Alive(file[j]))
    OBVIOUS
  <2>1. CASE j \in Got(s)
    <3>1. tick[s].got[j] \in {"ok", "error"} BY <2>1, <1>2 DEF Got
    <3>2. file[j] \in Entry BY <1>2
    <3>3. results[j] = Applied(j, file[j], tick[s].got[j], backoff) BY <2>1
    <3> HIDE DEF results
    <3> QED BY <3>1, <3>2, <3>3, <1>2, AppliedEntry
  <2>2. CASE j \notin Got(s) BY <2>2, <1>2
  <2> QED BY <2>1, <2>2
<1>4. results \in [Jobs -> Entry] BY <1>3
<1> HIDE DEF results
<1>5. m \in [Jobs -> Entry] /\ \A j \in Jobs : Alive(m[j]) => j \in born'
  BY <1>1, <1>2, <1>3, <1>4, MaintainEntries DEF IInv, Known
<1> HIDE DEF m
<1>6. /\ file' \in [Jobs -> Entry] /\ mem' \in [Services -> [Jobs -> Entry]]
      /\ events' \in 0..MaxEvents /\ Known'
  <2>1. 0 \in Nat /\ born \subseteq born' BY <1>1
  <2> QED BY <2>1, <1>1, <1>5, SaveStep
<1>7. /\ t \in Ticks /\ t.pc = "done" /\ t.todo = {} /\ t.busy = {}
      /\ \A j \in Jobs : t.got[j] = "none"
  BY IdleTypes
<1> HIDE DEF t
<1>8. tick' \in [Services -> Ticks] /\ tick'[s] = t /\ Others(s)
  BY <1>1, <1>2, <1>7 DEF Others
<1>9. S \subseteq Jobs /\ Got(s) \subseteq Jobs BY DEF Marked, Got
<1>10. TypeOK' BY <1>0, <1>1, <1>6, <1>8, <1>9 DEF TypeOK, Ticks, Excused
<1>11. tick'[s].todo = {} /\ tick'[s].busy = {} /\ Got(s)' = {} BY <1>7, <1>8 DEF Got
<1>12. bound' = bound /\ clash \subseteq clash' /\ hold' = hold /\ life' = life
       /\ tick[s].pc # "idle" /\ tick'[s].pc # "exec"
  BY <1>1, <1>7, <1>8 DEF Excused
<1> QED BY <1>6, <1>8, <1>10, <1>11, <1>12, EmptyBatch

LEMMA LoadFailsInv ==
  ASSUME IInv, NEW s \in Services, LoadFails(s) PROVE IInv'
<1> DEFINE t == [Idle EXCEPT !.pc = "done"]
<1>0. TypeOK BY DEF IInv
<1>1. /\ tick[s].pc \in {"collect", "exec"} /\ Event(1) /\ Excused(Got(s), {})
      /\ tick' = [tick EXCEPT ![s] = t]
      /\ UNCHANGED <<store, life, armed, hold, current, bound, occ, born, fired>>
  BY DEF LoadFails
<1>2. tick \in [Services -> Ticks] BY <1>0, Parts
<1>3. events' \in 0..MaxEvents BY <1>0, <1>1, Given, Parts DEF Event
<1>4. /\ t \in Ticks /\ t.pc = "done" /\ t.todo = {} /\ t.busy = {}
      /\ \A j \in Jobs : t.got[j] = "none"
  BY IdleTypes
<1> HIDE DEF t
<1>5. tick' \in [Services -> Ticks] /\ tick'[s] = t /\ Others(s)
  BY <1>1, <1>2, <1>4 DEF Others
<1>6. Got(s) \subseteq Jobs BY DEF Got
<1>7. TypeOK' BY <1>0, <1>1, <1>3, <1>5, <1>6 DEF TypeOK, Ticks, Excused, store
<1>8. Known' BY <1>1 DEF IInv, Known, Alive, store
<1>9. tick'[s].todo = {} /\ tick'[s].busy = {} /\ Got(s)' = {} BY <1>4, <1>5 DEF Got
<1>10. bound' = bound /\ clash \subseteq clash' /\ hold' = hold /\ life' = life
       /\ tick[s].pc # "idle" /\ tick'[s].pc # "exec"
  BY <1>1, <1>4, <1>5 DEF Excused
<1> QED BY <1>5, <1>7, <1>8, <1>9, <1>10, EmptyBatch

LEMMA DoneInv ==
  ASSUME IInv, NEW s \in Services, Done(s) PROVE IInv'
<1>0. TypeOK BY DEF IInv
<1>1. /\ tick[s].pc = "done" /\ armed' = [armed EXCEPT ![s] = Wake(mem[s])]
      /\ tick' = [tick EXCEPT ![s] = Idle]
      /\ UNCHANGED <<store, life, hold, current, bound, world, fired, excuses>>
  BY DEF Done, Arm
<1>2. tick \in [Services -> Ticks] /\ armed \in [Services -> BOOLEAN] BY <1>0, Parts
<1>3. Wake(mem[s]) \in BOOLEAN BY DEF Wake
<1>4. /\ tick' \in [Services -> Ticks] /\ tick'[s] = Idle /\ Others(s)
      /\ armed' \in [Services -> BOOLEAN]
  BY <1>1, <1>2, <1>3, IdleTypes DEF Others
<1>5. TypeOK' BY <1>0, <1>1, <1>4 DEF TypeOK, Ticks, store, world, excuses
<1>6. Known' BY <1>1 DEF IInv, Known, Alive, store, world
<1>7. tick'[s].todo = {} /\ tick'[s].busy = {} /\ Got(s)' = {} BY <1>4, IdleTypes DEF Got
<1>8. bound' = bound /\ clash \subseteq clash' /\ hold' = hold /\ life' = life
       /\ tick[s].pc # "idle" /\ tick'[s].pc # "exec"
  BY <1>1, <1>4, IdleTypes DEF excuses
<1> QED BY <1>4, <1>5, <1>6, <1>7, <1>8, EmptyBatch

(* The jobs a call of the user sees, in memory or read from the file.       *)
LEMMA StoreFacts ==
  ASSUME IInv
  PROVE  /\ bound \in Services /\ Store(bound) \in [Jobs -> Entry]
         /\ mem[bound] \in [Jobs -> Entry] /\ file \in [Jobs -> Entry]
         /\ \A j \in Jobs : Alive(Store(bound)[j]) => j \in born
         /\ \A j \in Jobs : j \notin clash /\ j \in Own(bound) =>
              Store(bound)[j].run /\ Store(bound)[j].on
<1>1. /\ bound \in Services /\ file \in [Jobs -> Entry] /\ mem[bound] \in [Jobs -> Entry]
  BY Parts DEF IInv
<1>2. CASE life[bound] = "unread"
  <2>1. Store(bound) = file BY <1>2 DEF Store
  <2> QED BY <1>1, <2>1 DEF IInv, Known, Marks
<1>3. CASE life[bound] # "unread"
  <2>1. Store(bound) = mem[bound] BY <1>3 DEF Store
  <2> QED BY <1>1, <2>1 DEF IInv, Known, Marks
<1> QED BY <1>2, <1>3

-----------------------------------------------------------------------------
(* The steps that hold the lock.                                           *)

(* A step that leaves the tick of a service alone.                         *)
LEMMA HoldingStep ==
  ASSUME IInv, NEW s \in Services, hold[s].what # "none" \/ s = bound, TypeOK', Known', Others(s),
         bound' = bound, clash \subseteq clash', tick' = tick,
         life'[s] \notin {"off", "starting", "unread"},
         hold'[s].what = "none" => hold'[s].todo = {} /\ hold'[s].busy = {},
         \A j \in Jobs : j \notin clash' /\ j \in Own(bound) /\ s = bound =>
           /\ (j \notin Held(bound) => j \notin Held(bound)')
           /\ (file[j].on => file'[j].on)
           /\ (j \notin Held(bound) /\ mem[bound][j].on => mem'[bound][j].on)
           /\ (file[j].on /\ file[j].run /\ mem[bound][j].on /\ mem[bound][j].run
                 /\ j \notin Held(bound) => file'[j].run /\ mem'[bound][j].run)
  PROVE  IInv'
<1>1. ~Rested(s) \/ s = bound BY DEF Rested
<1>2. tick'[s].pc # "exec" => tick'[s].todo = {} /\ tick'[s].busy = {} /\ Got(s)' = {}
  BY DEF IInv, Rests, Got
<1>3. Rests' /\ Lone' /\ (s = bound \/ Jobs \subseteq clash)
  BY <1>1, <1>2, LocalStep
<1>4. Marks'
  <2>1. CASE Jobs \subseteq clash BY <2>1 DEF Marks
  <2>2. CASE s = bound
    <3>1. Own(bound)' = Own(bound) BY DEF Own, Got, Ids
    <3> SUFFICES ASSUME NEW j \in Jobs, j \notin clash', j \in Own(bound)
                 PROVE  /\ file'[j].run /\ file'[j].on /\ mem'[bound][j].run /\ mem'[bound][j].on
                        /\ j \notin Held(bound)'
      BY <3>1 DEF Marks
    <3>2. /\ file[j].run /\ file[j].on /\ mem[bound][j].run /\ mem[bound][j].on
          /\ j \notin Held(bound)
      BY DEF IInv, Marks
    <3> QED BY <3>2, <2>2
  <2> QED BY <2>1, <2>2, <1>3
<1> QED BY <1>3, <1>4 DEF IInv

LEMMA StartInv ==
  ASSUME IInv, NEW s \in Services, Start(s) PROVE IInv'
<1> DEFINE m == [j \in Jobs |-> [file[j] EXCEPT !.run = FALSE]]
           missed == {j \in Jobs : Runnable(j, file[j]) /\ (OneShot(j) => file[j].last = "none")}
           todo == {[j |-> j, n |-> file[j].next] : j \in missed}
           h == [NoHold EXCEPT !.what = "start", !.todo = todo]
<1>0. TypeOK BY DEF IInv
<1>1. /\ life[s] = "starting" /\ life' = [life EXCEPT ![s] = "on"]
      /\ mem' = [mem EXCEPT ![s] = m] /\ hold' = [hold EXCEPT ![s] = h]
      /\ UNCHANGED <<file, armed, tick, current, bound, world, fired, excuses>>
  BY DEF Start
<1>2. /\ file \in [Jobs -> Entry] /\ hold \in [Services -> Holds] /\ bound \in Services
      /\ mem \in [Services -> [Jobs -> Entry]]
      /\ life \in [Services -> {"off", "starting", "on", "failed", "unread"}]
  BY <1>0, Parts
<1>3. m \in [Jobs -> Entry] /\ \A j \in Jobs : Alive(m[j]) <=> Alive(file[j])
  <2> SUFFICES ASSUME NEW j \in Jobs PROVE m[j] \in Entry /\ (Alive(m[j]) <=> Alive(file[j]))
    OBVIOUS
  <2>1. file[j] \in Entry /\ m[j] = [file[j] EXCEPT !.run = FALSE] BY <1>2
  <2> QED BY <2>1 DEF Entry, Alive
<1> HIDE DEF m
<1>4. todo \subseteq Run
  <2>1. \A j \in Jobs : file[j].next \in Nat BY <1>2 DEF Entry
  <2> QED BY <2>1 DEF Run
<1> HIDE DEF todo
<1>5. h \in Holds /\ h.what = "start" BY <1>4 DEF NoHold, Holds
<1> HIDE DEF h
<1>6. /\ hold' \in [Services -> Holds] /\ hold'[s].what = "start" /\ Others(s)
      /\ life' \in [Services -> {"off", "starting", "on", "failed", "unread"}] /\ life'[s] = "on"
      /\ mem' \in [Services -> [Jobs -> Entry]]
  BY <1>1, <1>2, <1>3, <1>5 DEF Others
<1>7. TypeOK' BY <1>0, <1>1, <1>6 DEF TypeOK, Holds, world, excuses
<1>8. Known' BY <1>1, <1>2, <1>3 DEF IInv, Known, world, Alive
<1>9. Rested(s) BY <1>1 DEF IInv, Rests
<1>10. tick'[s].pc # "exec" /\ tick'[s].todo = {} /\ tick'[s].busy = {} /\ Got(s)' = {}
  BY <1>1, <1>9 DEF IInv, Rests, Rested, Got
<1>11. Rests' /\ Lone' /\ (s = bound \/ Jobs \subseteq clash)
  <2>1. bound' = bound /\ clash \subseteq clash' BY <1>1 DEF excuses
  <2> QED BY <2>1, <1>1, <1>6, <1>10, LocalStep
<1>12. Marks'
  <2>1. CASE Jobs \subseteq clash BY <2>1, <1>1 DEF Marks, excuses
  <2>2. CASE s = bound
    <3>1. Own(bound)' = {} BY <2>2, <1>1, <1>10 DEF Own, Ids
    <3> QED BY <3>1 DEF Marks
  <2> QED BY <2>1, <2>2, <1>11
<1> QED BY <1>7, <1>8, <1>11, <1>12 DEF IInv

LEMMA StartFailsInv ==
  ASSUME IInv, NEW s \in Services, NEW read \in BOOLEAN, StartFails(s, read) PROVE IInv'
<1> DEFINE m == IF read THEN file ELSE mem[s]
           l == IF read THEN "failed" ELSE "unread"
<1>0. TypeOK BY DEF IInv
<1>1. /\ life[s] = "starting" /\ Event(1)
      /\ life' = [life EXCEPT ![s] = l] /\ mem' = [mem EXCEPT ![s] = m]
      /\ UNCHANGED <<file, armed, tick, hold, current, bound, occ, born, fired, excuses>>
  BY <1>0 DEF StartFails
<1>2. /\ file \in [Jobs -> Entry] /\ bound \in Services /\ mem \in [Services -> [Jobs -> Entry]]
      /\ life \in [Services -> {"off", "starting", "on", "failed", "unread"}]
  BY <1>0, Parts
<1>3. m \in [Jobs -> Entry] /\ \A j \in Jobs : Alive(m[j]) => j \in born
  BY <1>2 DEF IInv, Known
<1> HIDE DEF m
<1>4. /\ Others(s) /\ mem' \in [Services -> [Jobs -> Entry]]
      /\ life' \in [Services -> {"off", "starting", "on", "failed", "unread"}]
  BY <1>1, <1>2, <1>3 DEF Others
<1>5. events' \in 0..MaxEvents BY <1>0, <1>1, Given, Parts DEF Event
<1>6. TypeOK' BY <1>0, <1>1, <1>4, <1>5 DEF TypeOK, excuses
<1>7. Known' BY <1>1, <1>2, <1>3 DEF IInv, Known
<1>8. Rested(s) BY <1>1 DEF IInv, Rests
<1>9. /\ tick'[s].pc # "exec" /\ tick'[s].todo = {} /\ tick'[s].busy = {} /\ Got(s)' = {}
      /\ hold'[s].todo = {} /\ hold'[s].busy = {} /\ Rested(s)'
  BY <1>1, <1>8 DEF IInv, Rests, Rested, Got
<1>10. Rests' /\ Lone' /\ (s = bound \/ Jobs \subseteq clash)
  <2>1. bound' = bound /\ clash \subseteq clash' BY <1>1 DEF excuses
  <2> QED BY <2>1, <1>1, <1>4, <1>9, LocalStep
<1>11. Marks'
  <2>1. CASE Jobs \subseteq clash BY <2>1, <1>1 DEF Marks, excuses
  <2>2. CASE s = bound
    <3>1. Own(bound)' = {} BY <2>2, <1>1, <1>9 DEF Own, Ids
    <3> QED BY <3>1 DEF Marks
  <2> QED BY <2>1, <2>2, <1>10
<1> QED BY <1>6, <1>7, <1>10, <1>11 DEF IInv

(* A call that finds the store unread brings it into memory.               *)
LEMMA LoadStep ==
  ASSUME IInv, mem' = [mem EXCEPT ![bound] = Store(bound)], UNCHANGED <<file, bound, born, clash>>
  PROVE  /\ mem' \in [Services -> [Jobs -> Entry]] /\ Known' /\ mem'[bound] = Store(bound)
         /\ \A j \in Jobs : j \notin clash /\ j \in Own(bound) =>
              /\ file'[j].run /\ file'[j].on /\ mem'[bound][j].run /\ mem'[bound][j].on
              /\ j \notin Held(bound)
<1>1. mem \in [Services -> [Jobs -> Entry]] BY Parts DEF IInv
<1>2. mem' \in [Services -> [Jobs -> Entry]] /\ mem'[bound] = Store(bound) BY <1>1, StoreFacts
<1>3. Known' BY <1>1, StoreFacts DEF IInv, Known
<1>4. \A j \in Jobs : j \notin clash /\ j \in Own(bound) =>
        file[j].run /\ file[j].on /\ j \notin Held(bound)
  BY DEF IInv, Marks
<1> QED BY <1>2, <1>3, <1>4, StoreFacts

LEMMA RunNowInv ==
  ASSUME IInv, NEW j \in Jobs, NEW force \in BOOLEAN, RunNow(j, force) PROVE IInv'
<1> DEFINE s == bound
           r == Store(s)[j]
           n == IF Due(j, r) THEN r.next ELSE 0
           h == [NoHold EXCEPT !.what = "run", !.todo = {[j |-> j, n |-> n]}]
<1>0. TypeOK BY DEF IInv
<1>1. /\ life[s] \in Open /\ Unlocked /\ ~r.run /\ Event(1)
      /\ hold' = [hold EXCEPT ![s] = h] /\ mem' = [mem EXCEPT ![s] = Store(s)]
      /\ life' = [life EXCEPT ![s] = IF @ = "unread" THEN "failed" ELSE @]
      /\ UNCHANGED <<file, armed, tick, current, bound, occ, born, fired, excuses>>
  BY DEF RunNow, Running
<1>2. /\ s \in Services /\ hold \in [Services -> Holds] /\ Store(s) \in [Jobs -> Entry]
      /\ life \in [Services -> {"off", "starting", "on", "failed", "unread"}]
  BY <1>0, Parts, StoreFacts
<1>3. r \in Entry BY <1>2
<1> HIDE DEF r
<1>4. n \in Nat BY <1>3 DEF Entry
<1> HIDE DEF n
<1>5. h \in Holds /\ h.what = "run" /\ h.todo = {[j |-> j, n |-> n]} /\ h.busy = {}
  <2>1. [j |-> j, n |-> n] \in Run BY <1>4 DEF Run
  <2> DEFINE x == [j |-> j, n |-> n]
  <2> HIDE DEF x
  <2>2. [NoHold EXCEPT !.what = "run", !.todo = {x}].todo = {x} BY DEF NoHold
  <2>3. x \in Run BY <2>1 DEF x
  <2>4. LET g == [NoHold EXCEPT !.what = "run", !.todo = {x}] IN
        g \in Holds /\ g.what = "run" /\ g.busy = {}
    BY <2>3 DEF NoHold, Holds
  <2> QED BY <2>2, <2>4 DEF x
<1> HIDE DEF h
<1>6. /\ hold' \in [Services -> Holds] /\ hold'[s] = h /\ Others(s)
      /\ life' \in [Services -> {"off", "starting", "on", "failed", "unread"}]
      /\ life'[s] \notin {"off", "starting", "unread"}
  BY <1>1, <1>2, <1>5 DEF Others, Open
<1>7. events' \in 0..MaxEvents BY <1>0, <1>1, Given, Parts DEF Event
<1>8. /\ mem' \in [Services -> [Jobs -> Entry]] /\ Known'
      /\ \A i \in Jobs : i \notin clash /\ i \in Own(s) =>
           file'[i].run /\ file'[i].on /\ mem'[s][i].run /\ mem'[s][i].on
  BY <1>1, LoadStep DEF excuses
<1>9. TypeOK' BY <1>0, <1>1, <1>6, <1>7, <1>8 DEF TypeOK, Holds, excuses
<1>10. Held(s)' = {j}
  <2>1. bound' = bound /\ hold'[s].todo \cup hold'[s].busy = {[j |-> j, n |-> n]}
    BY <1>1, <1>5, <1>6
  <2>2. Ids({[j |-> j, n |-> n]}) = {j} BY DEF Ids
  <2> QED BY <2>1, <2>2 DEF Held
<1>11. \A i \in Jobs : i \notin clash' /\ i \in Own(bound) => i # j
  BY <1>1, StoreFacts DEF r, excuses
<1>12. /\ bound' = bound /\ clash' = clash /\ tick' = tick /\ hold'[s].what # "none"
  BY <1>1, <1>5, <1>6 DEF excuses
<1> HIDE DEF s
<1>13. \A i \in Jobs : i \notin clash' /\ i \in Own(bound) =>
         /\ i \notin Held(bound)'
         /\ file'[i].run /\ file'[i].on /\ mem'[bound][i].run /\ mem'[bound][i].on
  BY <1>8, <1>10, <1>11, <1>12 DEF s
<1> QED BY <1>2, <1>6, <1>8, <1>9, <1>12, <1>13, HoldingStep DEF s

LEMMA RefusedInv == ASSUME IInv, Refused PROVE IInv'
<1>0. TypeOK BY DEF IInv
<1>1. /\ life[bound] = "unread" /\ life' = [life EXCEPT ![bound] = "failed"]
      /\ mem' = [mem EXCEPT ![bound] = file]
      /\ UNCHANGED <<file, armed, tick, hold, current, bound, world, fired, excuses>>
  BY DEF Refused
<1>2. mem' = [mem EXCEPT ![bound] = Store(bound)] BY <1>1 DEF Store
<1>3. /\ bound \in Services
      /\ life \in [Services -> {"off", "starting", "on", "failed", "unread"}]
  BY <1>0, Parts
<1>4. /\ mem' \in [Services -> [Jobs -> Entry]] /\ Known'
      /\ \A i \in Jobs : i \notin clash /\ i \in Own(bound) =>
           /\ file'[i].run /\ file'[i].on /\ mem'[bound][i].run /\ mem'[bound][i].on
           /\ i \notin Held(bound)
  BY <1>1, <1>2, LoadStep DEF excuses, world
<1>5. /\ Others(bound) /\ life' \in [Services -> {"off", "starting", "on", "failed", "unread"}]
      /\ life'[bound] = "failed"
  BY <1>1, <1>3 DEF Others
<1>6. TypeOK' BY <1>0, <1>1, <1>4, <1>5 DEF TypeOK, world, excuses
<1>7. /\ bound' = bound /\ clash' = clash /\ tick' = tick /\ hold' = hold
      /\ Held(bound)' = Held(bound)
  BY <1>1 DEF excuses, Held, Ids
<1>8. hold'[bound].what = "none" => hold'[bound].todo = {} /\ hold'[bound].busy = {}
  BY <1>3, <1>7 DEF IInv, Rests
<1> QED BY <1>3, <1>4, <1>5, <1>6, <1>7, <1>8, HoldingStep

LEMMA HoldBeginInv ==
  ASSUME IInv, NEW s \in Services, HoldBegin(s) PROVE IInv'
<1>0. TypeOK BY DEF IInv
<1>1. PICK x \in hold[s].todo :
        /\ hold' = [hold EXCEPT ![s].todo = @ \ {x}, ![s].busy = {x}]
        /\ mem' = [mem EXCEPT ![s][x.j].run = TRUE]
        /\ fired' = fired \cup {x}
  BY DEF HoldBegin
<1>2. UNCHANGED <<file, life, armed, tick, current, bound, world, excuses>> /\ hold[s].busy = {}
  BY DEF HoldBegin
<1>3. /\ hold[s] \in Holds /\ hold \in [Services -> Holds] /\ bound \in Services
      /\ mem \in [Services -> [Jobs -> Entry]]
  BY <1>0, Parts
<1>4. x \in Run /\ x.j \in Jobs BY <1>3, HoldFields, RunFields
<1>5. hold[s].what # "none" BY <1>1 DEF IInv, Rests
<1> DEFINE h == [hold[s] EXCEPT !.todo = @ \ {x}, !.busy = {x}]
           r == [mem[s][x.j] EXCEPT !.run = TRUE]
<1>6. /\ h \in Holds /\ h.what = hold[s].what /\ h.todo = hold[s].todo \ {x} /\ h.busy = {x}
      /\ hold' = [hold EXCEPT ![s] = h]
  BY <1>1, <1>3, <1>4 DEF Holds
<1>7. r \in Entry /\ r.here = mem[s][x.j].here /\ r.on = mem[s][x.j].on /\ r.run = TRUE
  <2>1. mem[s][x.j] \in Entry BY <1>3, <1>4
  <2> QED BY <2>1 DEF Entry
<1>8. mem' = [mem EXCEPT ![s] = [mem[s] EXCEPT ![x.j] = r]] BY <1>1, <1>3, <1>4
<1> HIDE DEF h, r
<1>9. /\ hold' \in [Services -> Holds] /\ hold'[s] = h /\ Others(s)
      /\ mem' \in [Services -> [Jobs -> Entry]]
  BY <1>2, <1>3, <1>6, <1>7, <1>8, <1>4 DEF Others
<1>10. \A a \in Services, j \in Jobs :
        /\ mem'[a][j].here = mem[a][j].here /\ mem'[a][j].on = mem[a][j].on
        /\ (mem[a][j].run => mem'[a][j].run)
  BY <1>3, <1>4, <1>7, <1>8
<1>11. TypeOK' BY <1>0, <1>1, <1>2, <1>4, <1>9 DEF TypeOK, Holds, world, excuses
<1>12. Known' BY <1>2, <1>10 DEF IInv, Known, Alive, world
<1>13. Held(s)' \subseteq Held(s) BY <1>1, <1>6, <1>9 DEF Held, Ids
<1>14. life[s] \notin {"off", "starting", "unread"} BY <1>5 DEF IInv, Rests, Rested
<1>15. /\ bound' = bound /\ clash \subseteq clash' /\ tick' = tick /\ life' = life
       /\ file' = file /\ hold'[s].what # "none"
  BY <1>2, <1>5, <1>6, <1>9 DEF excuses
<1> QED BY <1>3, <1>5, <1>9, <1>10, <1>11, <1>12, <1>13, <1>14, <1>15, HoldingStep

LEMMA HoldEndInv ==
  ASSUME IInv, NEW s \in Services, HoldEnd(s) PROVE IInv'
<1>0. TypeOK BY DEF IInv
<1>1. PICK x \in hold[s].busy, status \in {"ok", "error"}, backoff \in Backoffs :
        /\ hold' = [hold EXCEPT ![s].busy = {}, ![s].done = @ \cup {x.j}]
        /\ mem' = [mem EXCEPT ![s][x.j] = Applied(x.j, @, status, backoff)]
  BY DEF HoldEnd
<1>2. UNCHANGED <<file, life, armed, tick, current, bound, world, fired, excuses>>
  BY DEF HoldEnd
<1>3. /\ hold[s] \in Holds /\ hold \in [Services -> Holds] /\ bound \in Services
      /\ mem \in [Services -> [Jobs -> Entry]] /\ occ \in [Jobs -> Nat]
  BY <1>0, Parts
<1>4. x \in Run /\ x.j \in Jobs BY <1>3, HoldFields, RunFields
<1>5. hold[s].what # "none" BY <1>1 DEF IInv, Rests
<1> DEFINE h == [hold[s] EXCEPT !.busy = {}, !.done = @ \cup {x.j}]
           r == Applied(x.j, mem[s][x.j], status, backoff)
<1>6. /\ h \in Holds /\ h.what = hold[s].what /\ h.todo = hold[s].todo /\ h.busy = {}
      /\ hold' = [hold EXCEPT ![s] = h]
  BY <1>1, <1>3, <1>4 DEF Holds
<1>7. r \in Entry /\ (Alive(r) => Alive(mem[s][x.j])) BY <1>3, <1>4, AppliedEntry
<1>8. mem' = [mem EXCEPT ![s] = [mem[s] EXCEPT ![x.j] = r]] BY <1>1, <1>3, <1>4
<1> HIDE DEF h, r
<1>9. /\ hold' \in [Services -> Holds] /\ hold'[s] = h /\ Others(s)
      /\ mem' \in [Services -> [Jobs -> Entry]]
  BY <1>2, <1>3, <1>6, <1>7, <1>8, <1>4 DEF Others
<1>10. \A a \in Services, j \in Jobs :
        /\ Alive(mem'[a][j]) => Alive(mem[a][j])
        /\ j # x.j => mem'[a][j] = mem[a][j]
  BY <1>3, <1>4, <1>7, <1>8
<1>11. TypeOK' BY <1>0, <1>2, <1>9 DEF TypeOK, Holds, world, excuses
<1>12. Known' BY <1>2, <1>10 DEF IInv, Known, world
<1>13. Held(s)' \subseteq Held(s) /\ x.j \in Held(s) BY <1>1, <1>6, <1>9 DEF Held, Ids
<1>14. life[s] \notin {"off", "starting", "unread"} BY <1>5 DEF IInv, Rests, Rested
<1>15. /\ bound' = bound /\ clash \subseteq clash' /\ tick' = tick /\ life' = life
       /\ file' = file /\ hold'[s].what # "none"
  BY <1>2, <1>5, <1>6, <1>9 DEF excuses
<1>16. \A j \in Jobs : s = bound /\ j \notin Held(bound) => mem'[bound][j] = mem[bound][j]
  BY <1>3, <1>10, <1>13
<1> QED BY <1>5, <1>9, <1>11, <1>12, <1>13, <1>14, <1>15, <1>16, HoldingStep

LEMMA HoldFinishInv ==
  ASSUME IInv, NEW s \in Services, NEW S \in SUBSET Marked(mem[s]), NEW ok \in BOOLEAN,
         HoldFinish(s, S, ok)
  PROVE  IInv'
<1> DEFINE m == Recompute(mem[s], S)
<1>0. TypeOK BY DEF IInv
<1>1. /\ hold[s].what # "none" /\ Save(s, m, ok, S, 0)
      /\ life' = [life EXCEPT ![s] = IF ok THEN "on" ELSE "failed"]
      /\ Excused(IF ok THEN S ELSE Jobs, S)
      /\ hold' = [hold EXCEPT ![s] = NoHold]
      /\ UNCHANGED <<tick, current, bound, occ, born, fired>>
  BY DEF HoldFinish
<1>2. IF ok THEN armed' = [armed EXCEPT ![s] = Wake(m)] ELSE UNCHANGED armed
  BY DEF HoldFinish, Arm
<1>3. /\ hold \in [Services -> Holds] /\ bound \in Services /\ mem[s] \in [Jobs -> Entry]
      /\ occ \in [Jobs -> Nat] /\ life \in [Services -> {"off", "starting", "on", "failed", "unread"}]
      /\ armed \in [Services -> BOOLEAN]
  BY <1>0, Parts
<1>4. /\ m \in [Jobs -> Entry] /\ \A j \in Jobs : Alive(m[j]) => j \in born'
      /\ \A j \in Jobs : mem[s][j].on => m[j].on
      /\ \A j \in Jobs : mem[s][j].on /\ j \notin S => m[j].run = mem[s][j].run
  BY <1>1, <1>3, RecomputeEntries DEF IInv, Known
<1> HIDE DEF m
<1>5. /\ file' \in [Jobs -> Entry] /\ mem' \in [Services -> [Jobs -> Entry]]
      /\ events' \in 0..MaxEvents /\ Known'
      /\ mem'[s] = m /\ \A j \in Jobs : file'[j] \in {file[j], m[j]}
  <2>1. 0 \in Nat /\ born \subseteq born' BY <1>1
  <2> QED BY <2>1, <1>1, <1>4, SaveStep
<1>6. Wake(m) \in BOOLEAN BY DEF Wake
<1>7. life[s] \notin {"off", "starting", "unread"} BY <1>1 DEF IInv, Rests, Rested
<1>8. /\ hold' \in [Services -> Holds] /\ hold'[s] = NoHold /\ Others(s)
      /\ life' \in [Services -> {"off", "starting", "on", "failed", "unread"}]
      /\ life'[s] \notin {"off", "starting", "unread"} /\ armed' \in [Services -> BOOLEAN]
  BY <1>1, <1>2, <1>3, <1>6, <1>7, IdleTypes DEF Others
<1>9. S \subseteq Jobs BY DEF Marked
<1>10. TypeOK' BY <1>0, <1>1, <1>5, <1>8, <1>9 DEF TypeOK, Holds, Excused
<1>11. Held(s)' = {} BY <1>8, IdleTypes DEF Held, Ids
<1>12. /\ bound' = bound /\ clash \subseteq clash' /\ S \subseteq clash' /\ tick' = tick
       /\ hold'[s].todo = {} /\ hold'[s].busy = {}
  BY <1>1, <1>8, IdleTypes DEF Excused
<1>13. \A j \in Jobs : j \notin clash' /\ j \in Own(bound) /\ s = bound =>
         /\ (j \notin Held(bound) => j \notin Held(bound)')
         /\ (file[j].on => file'[j].on)
         /\ (j \notin Held(bound) /\ mem[bound][j].on => mem'[bound][j].on)
         /\ (file[j].on /\ file[j].run /\ mem[bound][j].on /\ mem[bound][j].run
               /\ j \notin Held(bound) => file'[j].run /\ mem'[bound][j].run)
  <2> SUFFICES ASSUME NEW j \in Jobs, j \notin clash', j \in Own(bound), s = bound
               PROVE  /\ j \notin Held(bound)' /\ file'[j].on /\ mem'[bound][j].on
                      /\ file'[j].run /\ mem'[bound][j].run
    OBVIOUS
  <2>1. file[j].run /\ file[j].on /\ mem[bound][j].run /\ mem[bound][j].on
    BY <1>12 DEF IInv, Marks
  <2>2. j \notin S BY <1>12
  <2>3. m[j].on /\ m[j].run BY <2>1, <2>2, <1>4
  <2>4. file'[j].on /\ file'[j].run BY <2>1, <2>3, <1>5
  <2>5. j \notin Held(bound)' BY <1>11, <1>12
  <2> QED BY <2>3, <2>4, <2>5, <1>5
<1> QED BY <1>1, <1>5, <1>7, <1>8, <1>10, <1>12, <1>13, HoldingStep

-----------------------------------------------------------------------------
(* Calls of the user, to the service of the request handlers.              *)
LEMMA CallInv ==
  ASSUME IInv, NEW m \in [Jobs -> Entry], NEW ok \in BOOLEAN, NEW S,
         NEW F \in SUBSET Jobs, NEW C \in SUBSET Jobs,
         Call(m, ok, S, F, C), born \subseteq born', born' \subseteq Jobs,
         \A j \in Jobs : Alive(m[j]) => j \in born',
         \A j \in Jobs : j \notin C /\ j \in Own(bound) /\ Store(bound)[j].on =>
           m[j].on /\ (Store(bound)[j].run => m[j].run)
  PROVE  IInv'
<1> DEFINE s == bound
<1>0. TypeOK BY DEF IInv
<1>1. /\ life[s] \in Open /\ Save(s, m, ok, S, 1)
      /\ life' = [life EXCEPT ![s] = IF ok THEN "on" ELSE "failed"]
      /\ Excused(IF ok THEN F ELSE Jobs, C)
      /\ UNCHANGED <<tick, hold, current, bound, occ, fired>>
  BY DEF Call
<1>2. IF ok THEN armed' = [armed EXCEPT ![s] = Wake(m)] ELSE UNCHANGED armed
  BY DEF Call, Arm
<1>3. /\ s \in Services /\ life \in [Services -> {"off", "starting", "on", "failed", "unread"}]
      /\ armed \in [Services -> BOOLEAN]
  BY <1>0, Parts
<1>4. /\ file' \in [Jobs -> Entry] /\ mem' \in [Services -> [Jobs -> Entry]]
      /\ events' \in 0..MaxEvents /\ Known'
      /\ mem'[s] = m /\ \A j \in Jobs : file'[j] \in {file[j], m[j]}
  <2>1. 1 \in Nat OBVIOUS
  <2> QED BY <2>1, <1>1, <1>3, SaveStep
<1>5. Wake(m) \in BOOLEAN BY DEF Wake
<1>6. /\ Others(s) /\ life' \in [Services -> {"off", "starting", "on", "failed", "unread"}]
      /\ life'[s] \notin {"off", "starting", "unread"}
      /\ armed' \in [Services -> BOOLEAN]
  BY <1>1, <1>2, <1>3, <1>5 DEF Others
<1>7. TypeOK' BY <1>0, <1>1, <1>4, <1>6 DEF TypeOK, Excused
<1>8. /\ bound' = bound /\ clash \subseteq clash' /\ C \subseteq clash' /\ tick' = tick /\ hold' = hold
  BY <1>1 DEF Excused
<1>9. hold'[s].what = "none" => hold'[s].todo = {} /\ hold'[s].busy = {}
  BY <1>3, <1>8 DEF IInv, Rests
<1>10. \A j \in Jobs : j \notin clash' /\ j \in Own(bound) /\ s = bound =>
         /\ (j \notin Held(bound) => j \notin Held(bound)')
         /\ (file[j].on => file'[j].on)
         /\ (j \notin Held(bound) /\ mem[bound][j].on => mem'[bound][j].on)
         /\ (file[j].on /\ file[j].run /\ mem[bound][j].on /\ mem[bound][j].run
               /\ j \notin Held(bound) => file'[j].run /\ mem'[bound][j].run)
  <2> SUFFICES ASSUME NEW j \in Jobs, j \notin clash', j \in Own(bound)
               PROVE  /\ j \notin Held(bound)' /\ file'[j].on /\ mem'[bound][j].on
                      /\ file'[j].run /\ mem'[bound][j].run
    OBVIOUS
  <2>1. /\ file[j].run /\ file[j].on /\ mem[bound][j].run /\ mem[bound][j].on
        /\ j \notin Held(bound) /\ Store(bound)[j].run /\ Store(bound)[j].on
    BY <1>8, StoreFacts DEF IInv, Marks
  <2>2. m[j].on /\ m[j].run BY <2>1, <1>8
  <2>3. file'[j].on /\ file'[j].run BY <2>1, <2>2, <1>4
  <2>4. j \notin Held(bound)' BY <2>1, <1>8 DEF Held, Ids
  <2> QED BY <2>2, <2>3, <2>4, <1>4
<1> QED BY <1>3, <1>4, <1>6, <1>7, <1>8, <1>9, <1>10, HoldingStep

LEMMA AddInv ==
  ASSUME IInv, NEW j \in Jobs, NEW S \in SUBSET Marked(Store(bound)), NEW ok \in BOOLEAN,
         Add(j, S, ok)
  PROVE  IInv'
<1> DEFINE a == [Store(bound) EXCEPT ![j] = NewJob(j)]
           m == Recompute(a, S)
<1>0. TypeOK BY DEF IInv
<1>1. j \notin born /\ born' = born \cup {j} /\ Call(m, ok, S, S, S) BY DEF Add
<1>2. Store(bound) \in [Jobs -> Entry] /\ occ \in [Jobs -> Nat] /\ born \subseteq Jobs /\ bound \in Services
  BY <1>0, Parts, StoreFacts
<1>3. a \in [Jobs -> Entry] /\ \A i \in Jobs : i # j => a[i] = Store(bound)[i]
  BY <1>2, NewJobType
<1> HIDE DEF a
<1>4. m \in [Jobs -> Entry]
      /\ \A i \in Jobs : /\ Alive(m[i]) <=> Alive(a[i])
                         /\ m[i].on = a[i].on
                         /\ a[i].on /\ i \notin S => m[i].run = a[i].run
  BY <1>2, <1>3, RecomputeEntries
<1> HIDE DEF m
<1>5. ASSUME NEW i \in Jobs, Alive(m[i]) PROVE i \in born'
  <2>1. CASE i = j BY <2>1, <1>1
  <2>2. CASE i # j
    <3>1. Alive(a[i]) BY <1>4, <1>5
    <3>2. a[i] = Store(bound)[i] BY <2>2, <1>3
    <3>3. Alive(Store(bound)[i]) => i \in born BY <1>2, StoreFacts
    <3> QED BY <3>1, <3>2, <3>3, <1>1
  <2> QED BY <2>1, <2>2
<1>6. \A i \in Jobs : i \notin S /\ i \in Own(bound) /\ Store(bound)[i].on =>
        m[i].on /\ (Store(bound)[i].run => m[i].run)
  <2> SUFFICES ASSUME NEW i \in Jobs, i \notin S, Store(bound)[i].on
               PROVE  m[i].on /\ (Store(bound)[i].run => m[i].run)
    OBVIOUS
  <2>1. i # j BY <1>1, <1>2, StoreFacts DEF Alive
  <2>2. a[i] = Store(bound)[i] BY <2>1, <1>3
  <2>3. a[i].on BY <2>2
  <2>4. m[i].on /\ m[i].run = a[i].run BY <2>3, <1>4
  <2> QED BY <2>2, <2>4
<1>7. S \in SUBSET Jobs /\ born \subseteq born' /\ born' \subseteq Jobs BY <1>1, <1>2 DEF Marked
<1> QED BY <1>1, <1>4, <1>5, <1>6, <1>7, CallInv

LEMMA UpdateInv ==
  ASSUME IInv, NEW j \in Jobs, NEW patch \in {"enable", "disable", "other"}, NEW ok \in BOOLEAN,
         Update(j, patch, ok)
  PROVE  IInv'
<1> DEFINE r == Updated(j, Store(bound)[j], patch)
           m == [Store(bound) EXCEPT ![j] = r]
           F == {i \in {j} : patch = "enable" /\ OneShot(i)}
           C == {i \in {j} : patch = "disable"}
<1>0. TypeOK BY DEF IInv
<1>1. Store(bound)[j].here /\ Call(m, ok, {}, F, C) /\ UNCHANGED born BY DEF Update
<1>2. Store(bound) \in [Jobs -> Entry] /\ occ \in [Jobs -> Nat] /\ born \subseteq Jobs /\ bound \in Services
  BY <1>0, Parts, StoreFacts
<1>3. /\ r \in Entry
      /\ patch # "disable" /\ Store(bound)[j].on => r.on /\ r.run = Store(bound)[j].run
  BY <1>2, UpdatedEntry
<1> HIDE DEF r
<1>4. m \in [Jobs -> Entry] /\ m[j] = r /\ \A i \in Jobs : i # j => m[i] = Store(bound)[i]
  BY <1>2, <1>3
<1> HIDE DEF m
<1>5. \A i \in Jobs : Alive(m[i]) => i \in born'
  BY <1>1, <1>2, <1>4, StoreFacts DEF Alive
<1>6. \A i \in Jobs : i \notin C /\ i \in Own(bound) /\ Store(bound)[i].on =>
        m[i].on /\ (Store(bound)[i].run => m[i].run)
  <2>1. j \notin C => patch # "disable" OBVIOUS
  <2> QED BY <2>1, <1>3, <1>4
<1>7. F \in SUBSET Jobs /\ C \in SUBSET Jobs /\ born \subseteq born' /\ born' \subseteq Jobs
  BY <1>1, <1>2
<1> HIDE DEF F, C
<1> QED BY <1>1, <1>4, <1>5, <1>6, <1>7, CallInv

(* The store a removal sees.                                               *)
LEMMA RecomputedStore ==
  ASSUME IInv, NEW S \in SUBSET Jobs, S # {} => life[bound] = "unread"
  PROVE  LET m == IF life[bound] = "unread" THEN Recompute(file, S) ELSE mem[bound] IN
         /\ m \in [Jobs -> Entry]
         /\ \A j \in Jobs : /\ Alive(m[j]) => j \in born
                            /\ m[j].on = Store(bound)[j].on
                            /\ Store(bound)[j].on /\ j \notin S => m[j].run = Store(bound)[j].run
<1>0. occ \in [Jobs -> Nat] /\ file \in [Jobs -> Entry] /\ mem[bound] \in [Jobs -> Entry]
  BY Parts, StoreFacts DEF IInv
<1>1. CASE life[bound] = "unread"
  <2> DEFINE m == Recompute(file, S)
  <2>1. Store(bound) = file BY <1>1 DEF Store
  <2>2. /\ m \in [Jobs -> Entry]
        /\ \A j \in Jobs : /\ Alive(m[j]) <=> Alive(file[j])
                           /\ m[j].on = file[j].on
                           /\ file[j].on /\ j \notin S => m[j].run = file[j].run
    BY <1>0, RecomputeEntries
  <2> HIDE DEF m
  <2>3. \A j \in Jobs : Alive(file[j]) => j \in born BY DEF IInv, Known
  <2> QED BY <1>1, <2>1, <2>2, <2>3 DEF m
<1>2. CASE life[bound] # "unread"
  <2>1. Store(bound) = mem[bound] BY <1>2 DEF Store
  <2> QED BY <1>0, <1>2, <2>1, StoreFacts
<1> QED BY <1>1, <1>2

LEMMA RemoveInv ==
  ASSUME IInv, NEW j \in Jobs, NEW S \in SUBSET Marked(Store(bound)), NEW ok \in BOOLEAN,
         Remove(j, S, ok)
  PROVE  IInv'
<1> DEFINE a == IF life[bound] = "unread" THEN Recompute(file, S) ELSE mem[bound]
           m == [a EXCEPT ![j] = NoJob]
<1>0. TypeOK BY DEF IInv
<1>1. (S # {} => life[bound] = "unread") /\ Call(m, ok, S, S, S \cup {j}) /\ UNCHANGED born
  BY DEF Remove
<1>2. born \subseteq Jobs /\ bound \in Services /\ S \in SUBSET Jobs
  BY <1>0, Parts DEF Marked
<1>3. /\ a \in [Jobs -> Entry]
      /\ \A i \in Jobs : /\ Alive(a[i]) => i \in born
                         /\ a[i].on = Store(bound)[i].on
                         /\ Store(bound)[i].on /\ i \notin S => a[i].run = Store(bound)[i].run
  BY <1>1, <1>2, RecomputedStore
<1> HIDE DEF a
<1>4. /\ m \in [Jobs -> Entry] /\ m[j] = NoJob
      /\ \A i \in Jobs : i # j => m[i] = a[i]
  BY <1>3, NoJobType
<1> HIDE DEF m
<1>5. \A i \in Jobs : Alive(m[i]) => i \in born'
  BY <1>1, <1>3, <1>4, NoJobType
<1>6. \A i \in Jobs : i \notin S \cup {j} /\ i \in Own(bound) /\ Store(bound)[i].on =>
        m[i].on /\ (Store(bound)[i].run => m[i].run)
  BY <1>3, <1>4
<1>7. S \cup {j} \in SUBSET Jobs /\ S \in SUBSET Jobs /\ born \subseteq born' /\ born' \subseteq Jobs
  BY <1>1, <1>2
<1> QED BY <1>1, <1>4, <1>5, <1>6, <1>7, CallInv

LEMMA ReadInv ==
  ASSUME IInv, NEW S \in SUBSET Marked(Store(bound)), NEW ok \in BOOLEAN, Read(S, ok)
  PROVE  IInv'
<1> DEFINE m == Maintain(Store(bound), S)
<1>0. TypeOK BY DEF IInv
<1>1. /\ Save(bound, m, ok, S, 0) /\ Excused(IF ok THEN S ELSE Jobs, S)
      /\ life[bound] \in Open
      /\ life' = [life EXCEPT ![bound] = IF @ = "unread" THEN "failed" ELSE @]
      /\ UNCHANGED <<armed, tick, hold, current, bound, occ, born, fired>>
  BY DEF Read
<1>2. /\ Store(bound) \in [Jobs -> Entry] /\ occ \in [Jobs -> Nat] /\ bound \in Services
      /\ life \in [Services -> {"off", "starting", "on", "failed", "unread"}]
  BY <1>0, Parts, StoreFacts
<1>3. /\ m \in [Jobs -> Entry] /\ \A j \in Jobs : Alive(m[j]) => j \in born'
      /\ \A j \in Jobs : Store(bound)[j].on => m[j].on
      /\ \A j \in Jobs : Store(bound)[j].on /\ j \notin S => m[j].run = Store(bound)[j].run
  BY <1>1, <1>2, MaintainEntries, StoreFacts
<1> HIDE DEF m
<1>4. /\ file' \in [Jobs -> Entry] /\ mem' \in [Services -> [Jobs -> Entry]]
      /\ events' \in 0..MaxEvents /\ Known'
      /\ mem'[bound] = m /\ \A j \in Jobs : file'[j] \in {file[j], m[j]}
  <2>1. 0 \in Nat /\ born \subseteq born' BY <1>1
  <2> QED BY <2>1, <1>1, <1>2, <1>3, SaveStep
<1>5. S \subseteq Jobs BY DEF Marked
<1>6. /\ life' \in [Services -> {"off", "starting", "on", "failed", "unread"}] /\ Others(bound)
      /\ life'[bound] \notin {"off", "starting", "unread"}
  BY <1>1, <1>2 DEF Others, Open
<1>7. TypeOK' BY <1>0, <1>1, <1>4, <1>5, <1>6 DEF TypeOK, Excused
<1>8. /\ bound' = bound /\ clash \subseteq clash' /\ S \subseteq clash' /\ tick' = tick /\ hold' = hold
  BY <1>1 DEF Excused
<1>9. hold'[bound].what = "none" => hold'[bound].todo = {} /\ hold'[bound].busy = {}
  BY <1>2, <1>8 DEF IInv, Rests
<1>10. \A j \in Jobs : j \notin clash' /\ j \in Own(bound) =>
         /\ (j \notin Held(bound) => j \notin Held(bound)')
         /\ (file[j].on => file'[j].on)
         /\ (j \notin Held(bound) /\ mem[bound][j].on => mem'[bound][j].on)
         /\ (file[j].on /\ file[j].run /\ mem[bound][j].on /\ mem[bound][j].run
               /\ j \notin Held(bound) => file'[j].run /\ mem'[bound][j].run)
  <2> SUFFICES ASSUME NEW j \in Jobs, j \notin clash', j \in Own(bound)
               PROVE  /\ j \notin Held(bound)' /\ file'[j].on /\ mem'[bound][j].on
                      /\ file'[j].run /\ mem'[bound][j].run
    OBVIOUS
  <2>1. /\ file[j].run /\ file[j].on /\ Store(bound)[j].run /\ Store(bound)[j].on
        /\ j \notin Held(bound) /\ j \notin S
    BY <1>8, StoreFacts DEF IInv, Marks
  <2>2. m[j].on /\ m[j].run BY <2>1, <1>3
  <2>3. file'[j].on /\ file'[j].run BY <2>1, <2>2, <1>4
  <2>4. j \notin Held(bound)' BY <2>1, <1>8 DEF Held, Ids
  <2> QED BY <2>2, <2>3, <2>4, <1>4
<1> QED BY <1>2, <1>4, <1>6, <1>7, <1>8, <1>9, <1>10, HoldingStep

-----------------------------------------------------------------------------
(* The gateway around it, and time.                                        *)
LEMMA BootInv == ASSUME IInv, Boot PROVE IInv'
<1>0. TypeOK BY DEF IInv
<1>1. /\ \A s \in Services : life[s] = "off"
      /\ bound' = First /\ current' = First
      /\ life' = [life EXCEPT ![First] = "starting"]
      /\ UNCHANGED <<store, armed, tick, hold, world, fired, excuses>>
  BY DEF Boot
<1>2. /\ life \in [Services -> {"off", "starting", "on", "failed", "unread"}] /\ First \in Services
  BY <1>0, Parts, Given
<1>3. \A s \in Services : Rested(s) BY <1>1 DEF IInv, Rests
<1>4. TypeOK' BY <1>0, <1>1, <1>2 DEF TypeOK, store, world, excuses
<1>5. Rests'
  <2>1. \A s \in Services : Rested(s)' BY <1>1, <1>3 DEF Rested
  <2>2. \A s \in Services : Got(s)' = Got(s) BY <1>1 DEF Got
  <2> QED BY <2>1, <2>2, <1>1 DEF IInv, Rests
<1>6. Known' BY <1>1 DEF IInv, Known, Alive, store, world
<1>7. Lone'
  <2>1. \A s \in Services : s # bound' => Rested(s)' /\ life'[s] # "starting"
    BY <1>1, <1>2, <1>3 DEF Rested
  <2> QED BY <2>1 DEF Lone
<1>8. Marks'
  <2>1. Own(First) = {} BY <1>2, <1>3, NothingOwned DEF Rested
  <2>2. Own(bound)' = {} BY <2>1, <1>1 DEF Own, Got
  <2> QED BY <2>2 DEF Marks
<1> QED BY <1>4, <1>5, <1>6, <1>7, <1>8 DEF IInv

(* A service takes the place of another.                                   *)
LEMMA ReplaceStep ==
  ASSUME IInv, NEW old \in Services, NEW new \in Services, Replace(old, new),
         NEW all \in SUBSET Jobs, Excused(all, all), bound' \in Services
  PROVE  /\ TypeOK' /\ Rests' /\ Known' /\ Rested(new)
         /\ \A s \in Services : /\ tick'[s] = tick[s] /\ hold'[s] = hold[s]
                                /\ armed'[s] => armed[s] /\ s # old
                                /\ s # new => life'[s] = life[s]
<1>0. TypeOK BY DEF IInv
<1>1. /\ life[new] = "off" /\ life' = [life EXCEPT ![new] = "starting"]
      /\ armed' = [armed EXCEPT ![old] = FALSE] /\ current' = new /\ Event(1)
      /\ UNCHANGED <<store, tick, hold, occ, born, fired>>
      /\ redo' = redo \cup all /\ clash' = clash \cup all
  BY DEF Replace, Excused
<1>2. /\ life \in [Services -> {"off", "starting", "on", "failed", "unread"}]
      /\ armed \in [Services -> BOOLEAN]
  BY <1>0, Parts
<1>3. events' \in 0..MaxEvents BY <1>0, <1>1, Parts, Given DEF Event
<1>4. TypeOK' BY <1>0, <1>1, <1>2, <1>3 DEF TypeOK, store
<1>5. Rested(new) BY <1>1 DEF IInv, Rests
<1>6. \A s \in Services : /\ tick'[s] = tick[s] /\ hold'[s] = hold[s]
                          /\ armed'[s] => armed[s] /\ s # old
                          /\ s # new => life'[s] = life[s]
  BY <1>1, <1>2
<1>7. Rests'
  <2> SUFFICES ASSUME NEW s \in Services
               PROVE  /\ tick'[s].pc # "exec" =>
                           tick'[s].todo = {} /\ tick'[s].busy = {} /\ Got(s)' = {}
                      /\ hold'[s].what = "none" => hold'[s].todo = {} /\ hold'[s].busy = {}
                      /\ life'[s] \in {"off", "starting", "unread"} => Rested(s)'
    BY DEF Rests
  <2>1. Got(s)' = Got(s) /\ (Rested(s) => Rested(s)') BY <1>6 DEF Got, Rested
  <2>2. life'[s] \in {"off", "starting", "unread"} => Rested(s) BY <1>5, <1>6 DEF IInv, Rests
  <2> QED BY <2>1, <2>2, <1>6 DEF IInv, Rests
<1>8. Known' BY <1>1 DEF IInv, Known, Alive, store
<1> QED BY <1>4, <1>5, <1>6, <1>7, <1>8

LEMMA ReloadInv == ASSUME IInv, NEW new \in Services, Reload(new) PROVE IInv'
<1>1. Replace(current, new) /\ bound' = bound /\ Excused(Jobs, Jobs) BY DEF Reload
<1>2. current \in Services /\ bound \in Services BY DEF IInv, TypeOK
<1>3. TypeOK' /\ Rests' /\ Known'
  <2>1. Jobs \in SUBSET Jobs /\ bound' \in Services BY <1>1, <1>2
  <2> QED BY <2>1, <1>1, <1>2, ReplaceStep
<1>4. Jobs \subseteq clash' BY <1>1 DEF Excused
<1> QED BY <1>3, <1>4 DEF IInv, Lone, Marks

LEMMA RestartInv == ASSUME IInv, NEW new \in Services, Restart(new) PROVE IInv'
<1> DEFINE all == IF Quiet THEN {} ELSE Jobs
<1>1. Replace(bound, new) /\ bound' = new /\ Excused(all, all) BY DEF Restart
<1>2. bound \in Services /\ all \in SUBSET Jobs BY DEF IInv, TypeOK
<1>3. /\ TypeOK' /\ Rests' /\ Known' /\ Rested(new)
      /\ \A s \in Services : /\ tick'[s] = tick[s] /\ hold'[s] = hold[s]
                             /\ armed'[s] => armed[s] /\ s # bound
                             /\ s # new => life'[s] = life[s]
  <2>1. bound' \in Services BY <1>1
  <2> HIDE DEF all
  <2> QED BY <2>1, <1>1, <1>2, ReplaceStep
<1>4. clash' = clash \cup all BY <1>1 DEF Excused
<1>5. Lone'
  <2>1. CASE ~Quiet \/ Jobs \subseteq clash BY <2>1, <1>4 DEF Lone
  <2>2. CASE Quiet /\ ~(Jobs \subseteq clash)
    <3>1. \A s \in Services : s # bound => ~armed[s] BY <2>2 DEF IInv, Lone, Rested
    <3>2. \A s \in Services : ~armed'[s] BY <3>1, <1>3
    <3>3. \A s \in Services : s # bound' => Rested(s)' /\ life'[s] # "starting"
      BY <3>2, <2>2, <1>1, <1>3 DEF Quiet, Rested
    <3> QED BY <3>3 DEF Lone
  <2> QED BY <2>1, <2>2
<1>6. Marks'
  <2>1. Own(new) = {} BY <1>3, NothingOwned DEF Rested
  <2>2. Own(new)' = {} BY <2>1, <1>3 DEF Own, Got
  <2>3. Own(bound)' = {} BY <2>2, <1>1 DEF Own, Got
  <2> QED BY <2>3 DEF Marks
<1> QED BY <1>3, <1>5, <1>6 DEF IInv

LEMMA CrashInv == ASSUME IInv, Crash PROVE IInv'
<1> DEFINE held == UNION {Ids(hold[s].busy) \cup hold[s].done : s \in Services}
           once == {j \in UNION {InHand(s) : s \in Services} : OneShot(j)}
<1>0. TypeOK BY DEF IInv
<1>1. /\ Event(1) /\ Excused(held \cup once, {})
      /\ mem' = [s \in Services |-> [j \in Jobs |-> NoJob]]
      /\ life' = [s \in Services |-> "off"] /\ armed' = [s \in Services |-> FALSE]
      /\ tick' = [s \in Services |-> Idle] /\ hold' = [s \in Services |-> NoHold]
      /\ UNCHANGED <<file, current, bound, occ, born, fired>>
  BY DEF Crash
<1>2. held \cup once \subseteq Jobs
  <2>1. \A s \in Services : /\ Ids(hold[s].busy) \subseteq Jobs /\ hold[s].done \subseteq Jobs
                            /\ Ids(tick[s].busy \cup hold[s].busy) \subseteq Jobs
                            /\ Got(s) \subseteq Jobs
    BY <1>0, Parts, TickFields, HoldFields, RunFields DEF Ids, Got
  <2>2. \A s \in Services : InHand(s) \subseteq Jobs BY <2>1 DEF InHand
  <2> QED BY <2>1, <2>2
<1> HIDE DEF held, once
<1>3. events' \in 0..MaxEvents BY <1>0, <1>1, Parts, Given DEF Event
<1>4. mem' \in [Services -> [Jobs -> Entry]] BY <1>1, NoJobType
<1>5. tick' \in [Services -> Ticks] /\ hold' \in [Services -> Holds] BY <1>1, IdleTypes
<1>6. TypeOK' BY <1>0, <1>1, <1>2, <1>3, <1>4, <1>5 DEF TypeOK, Ticks, Holds, Excused
<1>7. \A s \in Services : /\ Rested(s)' /\ Got(s)' = {}
                          /\ tick'[s].todo = {} /\ tick'[s].busy = {}
                          /\ hold'[s].todo = {} /\ hold'[s].busy = {}
  BY <1>1, IdleTypes DEF Rested, Got
<1>8. Rests' BY <1>7 DEF Rests
<1>9. Known' BY <1>1, NoJobType DEF IInv, Known
<1>10. Lone' BY <1>1, <1>7 DEF Lone
<1>11. Marks'
  <2>1. \A s \in Services : Own(s)' = {} BY <1>7 DEF Own, Ids
  <2>2. Own(bound)' = {} BY <2>1, <1>0, <1>1, Parts
  <2> QED BY <2>2 DEF Marks
<1> QED BY <1>6, <1>8, <1>9, <1>10, <1>11 DEF IInv

LEMMA PassInv == ASSUME IInv, NEW j \in Jobs, Pass(j) PROVE IInv'
<1>1. /\ occ' = [occ EXCEPT ![j] = @ + 1]
      /\ UNCHANGED <<store, control, born, events, fired, excuses>>
  BY DEF Pass
<1>2. TypeOK' BY <1>1 DEF IInv, TypeOK, store, control, excuses
<1>3. Rests' /\ Lone' BY <1>1 DEF IInv, Rests, Lone, Rested, Got, control, excuses
<1>4. Known' BY <1>1 DEF IInv, Known, Alive, store
<1>5. Marks' BY <1>1 DEF IInv, Marks, Own, Held, Got, store, control, excuses
<1> QED BY <1>2, <1>3, <1>4, <1>5 DEF IInv

LEMMA StutterInv == ASSUME IInv, UNCHANGED vars PROVE IInv'
<1>1. UNCHANGED <<store, control, world, fired, excuses>> BY DEF vars
<1>2. TypeOK' BY <1>1 DEF IInv, TypeOK, store, control, world, excuses
<1>3. Rests' /\ Lone' BY <1>1 DEF IInv, Rests, Lone, Rested, Got, control, excuses
<1>4. Known' BY <1>1 DEF IInv, Known, Alive, store, world
<1>5. Marks' BY <1>1 DEF IInv, Marks, Own, Held, Got, store, control, excuses
<1> QED BY <1>2, <1>3, <1>4, <1>5 DEF IInv

-----------------------------------------------------------------------------
LEMMA InitIInv == Init => IInv
<1> SUFFICES ASSUME Init PROVE IInv OBVIOUS
<1>1. /\ file = [j \in Jobs |-> IF j \in Present
           THEN [NoJob EXCEPT !.here = TRUE, !.on = TRUE, !.next = 1] ELSE NoJob]
      /\ mem = [s \in Services |-> [j \in Jobs |-> NoJob]]
      /\ life = [s \in Services |-> "off"] /\ armed = [s \in Services |-> FALSE]
      /\ tick = [s \in Services |-> Idle] /\ hold = [s \in Services |-> NoHold]
      /\ current = First /\ bound = First
      /\ occ = [j \in Jobs |-> 0] /\ born = Present
      /\ events = 0 /\ fired = {} /\ redo = {} /\ clash = {}
  BY DEF Init
<1>2. [NoJob EXCEPT !.here = TRUE, !.on = TRUE, !.next = 1] \in Entry BY DEF NoJob, Entry
<1>3. TypeOK
  <2>1. file \in [Jobs -> Entry] /\ mem \in [Services -> [Jobs -> Entry]]
    BY <1>1, <1>2, NoJobType
  <2>2. tick \in [Services -> Ticks] /\ hold \in [Services -> Holds] BY <1>1, IdleTypes
  <2>3. events \in 0..MaxEvents BY <1>1, Given
  <2> QED BY <2>1, <2>2, <2>3, <1>1, Given DEF TypeOK, Ticks, Holds
<1>4. \A s \in Services : /\ Rested(s) /\ Got(s) = {}
                          /\ tick[s].todo = {} /\ tick[s].busy = {}
                          /\ hold[s].todo = {} /\ hold[s].busy = {}
  BY <1>1, IdleTypes DEF Rested, Got
<1>5. Rests BY <1>4 DEF Rests
<1>6. Known
  <2>1. \A j \in Jobs : Alive(file[j]) => j \in born
    <3> SUFFICES ASSUME NEW j \in Jobs, j \notin Present PROVE ~Alive(file[j]) BY <1>1
    <3> QED BY <1>1, NoJobType
  <2>2. \A j \in Jobs, s \in Services : ~Alive(mem[s][j]) BY <1>1, NoJobType
  <2> QED BY <2>1, <2>2 DEF Known
<1>7. Lone BY <1>1, <1>4 DEF Lone
<1>8. Marks
  <2>1. Own(bound) = {} BY <1>1, <1>4, Given DEF Own, Ids
  <2> QED BY <2>1 DEF Marks
<1> QED BY <1>3, <1>5, <1>6, <1>7, <1>8 DEF IInv

LEMMA TickInv == ASSUME IInv, NEW s \in Services, Tick(s) PROVE IInv'
<1>1. CASE Fire(s) BY <1>1, FireInv
<1>2. CASE Begin(s) BY <1>2, BeginInv
<1>3. CASE End(s) BY <1>3, EndInv
<1>4. CASE LoadFails(s) BY <1>4, LoadFailsInv
<1>5. CASE Done(s) BY <1>5, DoneInv
<1>6. ASSUME NEW ok \in BOOLEAN, Collect(s, ok) PROVE IInv' BY <1>6, CollectInv
<1>7. ASSUME NEW ok \in BOOLEAN, NEW S \in SUBSET Marked(file), CollectNothing(s, S, ok)
      PROVE  IInv'
  BY <1>7, CollectNothingInv
<1>8. ASSUME NEW ok \in BOOLEAN, NEW S \in SUBSET Marked(file), NEW backoff \in Backoffs,
             Apply(s, S, backoff, ok)
      PROVE  IInv'
  BY <1>8, ApplyInv
<1> QED BY <1>1, <1>2, <1>3, <1>4, <1>5, <1>6, <1>7, <1>8 DEF Tick

LEMMA HoldingInv == ASSUME IInv, NEW s \in Services, Holding(s) PROVE IInv'
<1>1. CASE Start(s) BY <1>1, StartInv
<1>2. CASE HoldBegin(s) BY <1>2, HoldBeginInv
<1>3. CASE HoldEnd(s) BY <1>3, HoldEndInv
<1>4. ASSUME NEW S \in SUBSET Marked(mem[s]), NEW ok \in BOOLEAN, HoldFinish(s, S, ok)
      PROVE  IInv'
  BY <1>4, HoldFinishInv
<1>5. ASSUME NEW read \in BOOLEAN, StartFails(s, read) PROVE IInv' BY <1>5, StartFailsInv
<1> QED BY <1>1, <1>2, <1>3, <1>4, <1>5 DEF Holding

LEMMA UserInv == ASSUME IInv, NEW j \in Jobs, NEW ok \in BOOLEAN, User(j, ok) PROVE IInv'
<1>1. ASSUME NEW S \in SUBSET Marked(Store(bound)), Add(j, S, ok) PROVE IInv' BY <1>1, AddInv
<1>2. ASSUME NEW patch \in {"enable", "disable", "other"}, Update(j, patch, ok) PROVE IInv'
  BY <1>2, UpdateInv
<1>3. ASSUME NEW S \in SUBSET Marked(Store(bound)), Remove(j, S, ok) PROVE IInv'
  BY <1>3, RemoveInv
<1> QED BY <1>1, <1>2, <1>3 DEF User

LEMMA StepIInv == IInv /\ [Next]_vars => IInv'
<1> SUFFICES ASSUME IInv, [Next]_vars PROVE IInv' OBVIOUS
<1>1. ASSUME NEW s \in Services, Tick(s) PROVE IInv' BY <1>1, TickInv
<1>2. ASSUME NEW s \in Services, Holding(s) PROVE IInv' BY <1>2, HoldingInv
<1>3. ASSUME NEW s \in Services, Reload(s) PROVE IInv' BY <1>3, ReloadInv
<1>4. ASSUME NEW s \in Services, Restart(s) PROVE IInv' BY <1>4, RestartInv
<1>5. ASSUME NEW j \in Jobs, Pass(j) PROVE IInv' BY <1>5, PassInv
<1>6. ASSUME NEW j \in Jobs, NEW ok \in BOOLEAN, User(j, ok) PROVE IInv' BY <1>6, UserInv
<1>7. ASSUME NEW j \in Jobs, NEW force \in BOOLEAN, RunNow(j, force) PROVE IInv'
  BY <1>7, RunNowInv
<1>8. ASSUME NEW S \in SUBSET Marked(Store(bound)), NEW ok \in BOOLEAN, Read(S, ok) PROVE IInv'
  BY <1>8, ReadInv
<1>9. CASE Boot BY <1>9, BootInv
<1>10. CASE Crash BY <1>10, CrashInv
<1>11. CASE UNCHANGED vars BY <1>11, StutterInv
<1>12. CASE Refused BY <1>12, RefusedInv
<1> QED BY <1>1, <1>2, <1>3, <1>4, <1>5, <1>6, <1>7, <1>8, <1>9, <1>10, <1>11, <1>12 DEF Next

(* The conjuncts together are inductive.                                   *)
LEMMA Invariance == Spec => []IInv
BY InitIInv, StepIInv, PTL DEF Spec

(* The variables of the scheduler have the types of the records of the     *)
(* code, whatever is called, restarted or fails.                           *)
THEOREM TypeCorrect == Spec => []TypeOK
<1>1. IInv => TypeOK BY DEF IInv
<1> QED BY <1>1, Invariance, PTL

-----------------------------------------------------------------------------
(* A set with at most one element is not larger than one.                  *)
LEMMA OneAtMost ==
  ASSUME NEW A, NEW a, A \subseteq {a} PROVE Cardinality(A) \in {0, 1} /\ (A = {} => Cardinality(A) = 0)
<1>1. CASE A = {} BY <1>1, FS_EmptySet
<1>2. CASE A # {}
  <2>1. A = {a} BY <1>2
  <2> QED BY <2>1, FS_Singleton
<1> QED BY <1>1, <1>2

LEMMA AtMostOne == IInv => NoOverlap
<1> SUFFICES ASSUME IInv, NEW j \in Jobs, j \notin clash PROVE ~(Executing(j) > 1)
  BY DEF NoOverlap
<1> DEFINE A == {s \in Services : j \in Ids(tick[s].busy)}
           B == {s \in Services : j \in Ids(hold[s].busy)}
<1>1. \A s \in Services : s # bound => Rested(s) BY DEF IInv, Lone
<1>2. \A s \in Services : Rested(s) => tick[s].busy = {} /\ hold[s].busy = {}
  BY DEF IInv, Rests, Rested
<1>3. A \subseteq {bound} /\ B \subseteq {bound} BY <1>1, <1>2 DEF Ids
<1>4. A = {} \/ B = {}
  <2>1. ~(j \in Ids(tick[bound].busy) /\ j \in Ids(hold[bound].busy))
    <3>1. j \in Ids(tick[bound].busy) => j \in Own(bound) BY DEF Own, Ids
    <3>2. j \in Ids(hold[bound].busy) => j \in Held(bound) BY DEF Held, Ids
    <3> QED BY <3>1, <3>2 DEF IInv, Marks
  <2> QED BY <2>1, <1>3
<1>5. Executing(j) = Cardinality(A) + Cardinality(B) BY DEF Executing
<1> HIDE DEF A, B
<1> QED BY <1>3, <1>4, <1>5, OneAtMost

(* Whatever ticks, manual runs, starts, calls, crashes and restarts        *)
(* interleave, a job is executed by one of them at a time.                 *)
THEOREM OneAtATime == Spec => []NoOverlap
BY Invariance, AtMostOne, PTL
-----------------------------------------------------------------------------
(* Due occurrences are not passed over.  What the service of the request   *)
(* handlers has in memory tells the next runs of the file.                 *)

Synced ==
  life[bound] \in {"on", "failed"} /\ hold[bound].what = "none" =>
    \A j \in Jobs \ (redo \cup clash) :
      file[j].on /\ file[j].next > 0 => mem[bound][j].next = file[j].next

(* Maintenance leaves a next run where it is.                              *)
LEMMA MaintainNext ==
  ASSUME NEW m \in [Jobs -> Entry], NEW S, NEW j \in Jobs, m[j].on, m[j].next > 0
  PROVE  Maintain(m, S)[j].next = m[j].next
<1> DEFINE r == Tidy(m[j], j \in S)
<1>1. m[j] \in Entry OBVIOUS
<1>2. r.on = m[j].on /\ r.next = m[j].next BY <1>1 DEF Tidy, Entry
<1>3. Maintain(m, S)[j] = IF r.on /\ r.next = 0 THEN [r EXCEPT !.next = NextRun(j, r)] ELSE r
  BY DEF Maintain
<1> HIDE DEF r
<1>4. m[j].next \in Nat BY <1>1 DEF Entry
<1> QED BY <1>2, <1>3, <1>4

(* Whoever works is the service of the request handlers.                   *)
LEMMA Worker ==
  ASSUME IInv, NEW s \in Services, tick[s].pc # "idle" \/ hold[s].what # "none" \/ life[s] = "starting"
  PROVE  s = bound \/ Jobs \subseteq clash
BY DEF IInv, Lone, Rested

(* A step that writes the jobs.  If the file is not written, the jobs in   *)
(* memory have the next runs of the file, or are excused.                  *)
LEMMA SyncedSave ==
  ASSUME IInv, Synced, NEW s \in Services, s = bound \/ Jobs \subseteq clash,
         NEW m \in [Jobs -> Entry], NEW ok \in BOOLEAN, NEW S, NEW calls, Save(s, m, ok, S, calls),
         bound' = bound, redo \subseteq redo', clash \subseteq clash',
         ~ok => \A j \in Jobs \ redo' : file[j].on /\ file[j].next > 0 => m[j].next = file[j].next
  PROVE  Synced'
<1>1. mem' = [mem EXCEPT ![s] = m] /\ file' = IF ok THEN m ELSE file
  BY DEF Save
<1>2. mem \in [Services -> [Jobs -> Entry]] BY Parts DEF IInv
<1>3. CASE s = bound
  <2>1. mem'[bound] = m BY <1>1, <1>2, <1>3
  <2> QED BY <1>1, <2>1 DEF Synced
<1>4. CASE Jobs \subseteq clash BY <1>4 DEF Synced
<1> QED BY <1>3, <1>4

(* A step that writes nothing.                                             *)
LEMMA SyncedQuiet ==
  ASSUME Synced, file' = file, bound' = bound, redo \subseteq redo', clash \subseteq clash',
         \/ Jobs \subseteq clash
         \/ hold'[bound].what # "none"
         \/ life'[bound] \notin {"on", "failed"}
         \/ /\ \A j \in Jobs : mem'[bound][j].next = mem[bound][j].next
            /\ life'[bound] = life[bound] /\ hold'[bound].what = hold[bound].what
  PROVE  Synced'
BY DEF Synced

(* The results of a batch are entries.                                     *)
LEMMA ResultsType ==
  ASSUME TypeOK, NEW s \in Services, NEW backoff \in Backoffs
  PROVE  [j \in Jobs |-> IF j \in Got(s) THEN Applied(j, file[j], tick[s].got[j], backoff)
                        ELSE file[j]] \in [Jobs -> Entry]
<1>1. file \in [Jobs -> Entry] /\ occ \in [Jobs -> Nat]
      /\ tick[s].got \in [Jobs -> {"none", "ok", "error"}]
  BY Parts, TickFields
<1>2. \A j \in Got(s) : Applied(j, file[j], tick[s].got[j], backoff) \in Entry
  BY <1>1, AppliedEntry DEF Got
<1> QED BY <1>1, <1>2

LEMMA SyncedTick == ASSUME IInv, Synced, NEW s \in Services, Tick(s) PROVE Synced'
<1>0. /\ TypeOK /\ file \in [Jobs -> Entry] /\ occ \in [Jobs -> Nat] /\ bound \in Services
      /\ mem \in [Services -> [Jobs -> Entry]] /\ tick[s] \in Ticks
  BY Parts DEF IInv
<1>1. CASE Fire(s) \/ End(s) \/ LoadFails(s) \/ Done(s)
  <2>1. /\ file' = file /\ mem' = mem /\ bound' = bound /\ life' = life /\ hold' = hold
        /\ redo \subseteq redo' /\ clash \subseteq clash'
    BY <1>1 DEF Fire, End, LoadFails, Done, store, excuses, Excused
  <2> QED BY <2>1, SyncedQuiet
<1>2. CASE Begin(s)
  <2>1. PICK x \in tick[s].todo : mem' = [mem EXCEPT ![s][x.j].run = @ \/ mem[s][x.j].here]
    BY <1>2 DEF Begin
  <2>2. /\ file' = file /\ bound' = bound /\ life' = life /\ hold' = hold
        /\ redo \subseteq redo' /\ clash \subseteq clash'
    BY <1>2 DEF Begin, excuses
  <2>3. x.j \in Jobs BY <1>0, TickFields, RunFields
  <2>4. \A j \in Jobs : mem'[bound][j].next = mem[bound][j].next
    BY <1>0, <2>1, <2>3 DEF Entry
  <2> QED BY <2>2, <2>4, SyncedQuiet
<1>3. ASSUME NEW ok \in BOOLEAN, Collect(s, ok) PROVE Synced'
  <2> DEFINE m == [j \in Jobs |-> [file[j] EXCEPT
                     !.run = @ \/ j \in {i \in Jobs : Runnable(i, file[i])}]]
  <2>1. /\ tick[s].pc = "collect" /\ Save(s, m, ok, {}, 0) /\ bound' = bound
        /\ redo \subseteq redo' /\ clash \subseteq clash'
    BY <1>3 DEF Collect, excuses
  <2>2. m \in [Jobs -> Entry] /\ \A j \in Jobs : m[j].next = file[j].next
    BY <1>0 DEF Entry
  <2>3. s = bound \/ Jobs \subseteq clash BY <2>1, Worker
  <2> HIDE DEF m
  <2> QED BY <2>1, <2>2, <2>3, SyncedSave
<1>4. ASSUME NEW ok \in BOOLEAN, NEW S \in SUBSET Marked(file), CollectNothing(s, S, ok)
      PROVE  Synced'
  <2> DEFINE m == Maintain(file, S)
  <2>1. /\ tick[s].pc = "collect" /\ Save(s, m, ok, S, 0) /\ bound' = bound
        /\ redo \subseteq redo' /\ clash \subseteq clash'
    BY <1>4 DEF CollectNothing, Excused
  <2>2. /\ m \in [Jobs -> Entry]
        /\ \A j \in Jobs : file[j].on /\ file[j].next > 0 => m[j].next = file[j].next
    BY <1>0, MaintainEntries, MaintainNext
  <2>3. s = bound \/ Jobs \subseteq clash BY <2>1, Worker
  <2> HIDE DEF m
  <2> QED BY <2>1, <2>2, <2>3, SyncedSave
<1>5. ASSUME NEW ok \in BOOLEAN, NEW S \in SUBSET Marked(file), NEW backoff \in Backoffs,
             Apply(s, S, backoff, ok)
      PROVE  Synced'
  <2> DEFINE results == [j \in Jobs |-> IF j \in Got(s)
                           THEN Applied(j, file[j], tick[s].got[j], backoff) ELSE file[j]]
             m == Maintain(results, S)
  <2>1. /\ tick[s].pc = "exec" /\ Save(s, m, ok, S, 0) /\ bound' = bound
        /\ redo \subseteq redo' /\ clash \subseteq clash' /\ (~ok => Got(s) \subseteq redo')
    BY <1>5 DEF Apply, Excused
  <2>2. results \in [Jobs -> Entry] BY <1>0, ResultsType
  <2>3. /\ m \in [Jobs -> Entry]
        /\ \A j \in Jobs \ Got(s) : file[j].on /\ file[j].next > 0 => m[j].next = file[j].next
    <3>1. \A j \in Jobs \ Got(s) : results[j] = file[j] OBVIOUS
    <3> HIDE DEF results
    <3> QED BY <1>0, <2>2, <3>1, MaintainEntries, MaintainNext
  <2>4. s = bound \/ Jobs \subseteq clash BY <2>1, Worker
  <2> HIDE DEF m
  <2> QED BY <2>1, <2>3, <2>4, SyncedSave
<1> QED BY <1>1, <1>2, <1>3, <1>4, <1>5 DEF Tick

LEMMA SyncedHolding == ASSUME IInv, Synced, NEW s \in Services, Holding(s) PROVE Synced'
<1>0. /\ TypeOK /\ bound \in Services /\ occ \in [Jobs -> Nat]
      /\ mem \in [Services -> [Jobs -> Entry]] /\ hold \in [Services -> Holds] /\ hold[s] \in Holds
  BY Parts DEF IInv
<1>1. s = bound \/ Jobs \subseteq clash
  <2>1. life[s] = "starting" \/ hold[s].what # "none"
    BY DEF Holding, Start, StartFails, HoldBegin, HoldEnd, HoldFinish, IInv, Rests
  <2> QED BY <2>1, Worker
<1>2. CASE Start(s) \/ HoldBegin(s) \/ HoldEnd(s)
  <2>1. file' = file /\ bound' = bound /\ redo \subseteq redo' /\ clash \subseteq clash'
    BY <1>2 DEF Start, HoldBegin, HoldEnd, excuses
  <2>2. hold'[s].what # "none"
    <3>1. CASE Start(s) BY <1>0, <3>1 DEF Start, NoHold
    <3>2. CASE HoldBegin(s)
      <4>1. hold[s].what # "none" BY <3>2 DEF HoldBegin, IInv, Rests
      <4> QED BY <1>0, <3>2, <4>1 DEF HoldBegin, Holds
    <3>3. CASE HoldEnd(s)
      <4>1. hold[s].what # "none" BY <3>3 DEF HoldEnd, IInv, Rests
      <4> QED BY <1>0, <3>3, <4>1 DEF HoldEnd, Holds
    <3> QED BY <1>2, <3>1, <3>2, <3>3
  <2> QED BY <1>1, <2>1, <2>2, SyncedQuiet
<1>3. ASSUME NEW S \in SUBSET Marked(mem[s]), NEW ok \in BOOLEAN, HoldFinish(s, S, ok)
      PROVE  Synced'
  <2> DEFINE m == Recompute(mem[s], S)
  <2>1. /\ Save(s, m, ok, S, 0) /\ bound' = bound
        /\ redo \subseteq redo' /\ clash \subseteq clash' /\ (~ok => Jobs \subseteq redo')
    BY <1>3 DEF HoldFinish, Excused
  <2>2. m \in [Jobs -> Entry] BY <1>0, RecomputeEntries
  <2> HIDE DEF m
  <2> QED BY <1>1, <2>1, <2>2, SyncedSave
<1>4. ASSUME NEW read \in BOOLEAN, StartFails(s, read) PROVE Synced'
  <2>1. /\ life' = [life EXCEPT ![s] = IF read THEN "failed" ELSE "unread"]
        /\ mem' = [mem EXCEPT ![s] = IF read THEN file ELSE @]
        /\ file' = file /\ bound' = bound /\ redo' = redo /\ clash' = clash
    BY <1>4 DEF StartFails, excuses
  <2>2. CASE s = bound BY <1>0, <2>1, <2>2, Parts DEF Synced
  <2>3. CASE Jobs \subseteq clash BY <2>1, <2>3 DEF Synced
  <2> QED BY <1>1, <2>2, <2>3
<1> QED BY <1>2, <1>3, <1>4 DEF Holding

LEMMA SyncedCall ==
  ASSUME IInv, Synced, NEW m \in [Jobs -> Entry], NEW ok \in BOOLEAN, NEW S, NEW F, NEW C,
         Call(m, ok, S, F, C)
  PROVE  Synced'
<1>1. /\ Save(bound, m, ok, S, 1) /\ bound' = bound
      /\ redo \subseteq redo' /\ clash \subseteq clash' /\ (~ok => Jobs \subseteq redo')
  BY DEF Call, Excused
<1>2. bound \in Services BY DEF IInv, TypeOK
<1> QED BY <1>1, <1>2, SyncedSave

LEMMA SyncedStep == IInv /\ Synced /\ [Next]_vars => Synced'
<1> SUFFICES ASSUME IInv, Synced, [Next]_vars PROVE Synced' OBVIOUS
<1>0. /\ TypeOK /\ bound \in Services /\ occ \in [Jobs -> Nat] /\ Store(bound) \in [Jobs -> Entry]
      /\ life \in [Services -> {"off", "starting", "on", "failed", "unread"}] /\ hold \in [Services -> Holds]
  BY Parts, StoreFacts DEF IInv
<1>1. ASSUME NEW s \in Services, Tick(s) PROVE Synced' BY <1>1, SyncedTick
<1>2. ASSUME NEW s \in Services, Holding(s) PROVE Synced' BY <1>2, SyncedHolding
<1>3. ASSUME NEW s \in Services, Reload(s) PROVE Synced'
  BY <1>3 DEF Reload, Excused, Synced
<1>4. ASSUME NEW s \in Services, Restart(s) PROVE Synced'
  BY <1>0, <1>4 DEF Restart, Replace, Synced
<1>5. ASSUME NEW j \in Jobs, Pass(j) PROVE Synced'
  <2>1. UNCHANGED <<store, control, excuses>> BY <1>5 DEF Pass
  <2> QED BY <2>1, SyncedQuiet DEF store, control, excuses
<1>6. ASSUME NEW j \in Jobs, NEW ok \in BOOLEAN, User(j, ok) PROVE Synced'
  <2>1. ASSUME NEW S \in SUBSET Marked(Store(bound)), Add(j, S, ok) PROVE Synced'
    <3> DEFINE a == [Store(bound) EXCEPT ![j] = NewJob(j)]
               m == Recompute(a, S)
    <3>1. Call(m, ok, S, S, S) BY <2>1 DEF Add
    <3>2. a \in [Jobs -> Entry] BY <1>0, NewJobType
    <3> HIDE DEF a
    <3>3. m \in [Jobs -> Entry] BY <1>0, <3>2, RecomputeEntries
    <3> HIDE DEF m
    <3> QED BY <3>1, <3>3, SyncedCall
  <2>2. ASSUME NEW patch \in {"enable", "disable", "other"}, Update(j, patch, ok) PROVE Synced'
    <3> DEFINE m == [Store(bound) EXCEPT ![j] = Updated(j, Store(bound)[j], patch)]
    <3>1. PICK F, C : Call(m, ok, {}, F, C) BY <2>2 DEF Update
    <3>2. Updated(j, Store(bound)[j], patch) \in Entry BY <1>0, UpdatedEntry
    <3>3. m \in [Jobs -> Entry] BY <1>0, <3>2
    <3> HIDE DEF m
    <3> QED BY <3>1, <3>3, SyncedCall
  <2>3. ASSUME NEW S \in SUBSET Marked(Store(bound)), Remove(j, S, ok) PROVE Synced'
    <3> DEFINE a == IF life[bound] = "unread" THEN Recompute(file, S) ELSE mem[bound]
               m == [a EXCEPT ![j] = NoJob]
    <3>1. Call(m, ok, S, S, S \cup {j}) /\ (S # {} => life[bound] = "unread")
      BY <2>3 DEF Remove
    <3>2. a \in [Jobs -> Entry] BY <3>1, RecomputedStore DEF Marked
    <3> HIDE DEF a
    <3>3. m \in [Jobs -> Entry] BY <3>2, NoJobType
    <3> HIDE DEF m
    <3> QED BY <3>1, <3>3, SyncedCall
  <2> QED BY <1>6, <2>1, <2>2, <2>3 DEF User
<1>7. ASSUME NEW j \in Jobs, NEW force \in BOOLEAN, RunNow(j, force) PROVE Synced'
  <2>1. /\ file' = file /\ bound' = bound /\ redo' = redo /\ clash' = clash
        /\ hold'[bound].what = "run"
    BY <1>0, <1>7 DEF RunNow, Running, excuses, NoHold
  <2> QED BY <2>1, SyncedQuiet
<1>8. ASSUME NEW S \in SUBSET Marked(Store(bound)), NEW ok \in BOOLEAN, Read(S, ok) PROVE Synced'
  <2> DEFINE m == Maintain(Store(bound), S)
  <2>1. /\ Save(bound, m, ok, S, 0) /\ bound' = bound
        /\ redo \subseteq redo' /\ clash \subseteq clash' /\ (~ok => Jobs \subseteq redo')
    BY <1>8 DEF Read, Excused
  <2>2. m \in [Jobs -> Entry] BY <1>0, MaintainEntries
  <2> HIDE DEF m
  <2> QED BY <1>0, <2>1, <2>2, SyncedSave
<1>9. CASE Boot BY <1>0, <1>9, Given DEF Boot, Synced
<1>10. CASE Crash BY <1>0, <1>10 DEF Crash, Synced
<1>11. CASE UNCHANGED vars
  <2>1. UNCHANGED <<store, control, excuses>> BY <1>11 DEF vars
  <2> QED BY <2>1, SyncedQuiet DEF store, control, excuses
<1>12. CASE Refused
  <2>1. /\ mem' = [mem EXCEPT ![bound] = file]
        /\ file' = file /\ bound' = bound /\ redo' = redo /\ clash' = clash
    BY <1>12 DEF Refused, excuses
  <2>2. mem'[bound] = file BY <1>0, <2>1, Parts
  <2> QED BY <2>1, <2>2 DEF Synced
<1> QED BY <1>1, <1>2, <1>3, <1>4, <1>5, <1>6, <1>7, <1>8, <1>9, <1>10, <1>11, <1>12 DEF Next

LEMMA InitSynced == Init => Synced
<1>1. Init => life[bound] = "off" BY Given DEF Init
<1> QED BY <1>1 DEF Synced

(* Maintenance moves no due occurrence, and only a tick writes its results.*)
LEMMA NotMoved ==
  ASSUME IInv, Synced, Next, UNCHANGED <<events, hold>>,
         NEW j \in Jobs, j \notin redo \cup clash, Runnable(j, file[j]), file'[j].on
  PROVE  file'[j].next = file[j].next
<1>0. /\ TypeOK /\ file \in [Jobs -> Entry] /\ mem \in [Services -> [Jobs -> Entry]]
      /\ bound \in Services /\ events \in Nat /\ hold \in [Services -> Holds]
      /\ occ \in [Jobs -> Nat]
  <2>1. TypeOK BY DEF IInv
  <2> QED BY <2>1, Parts, Given
<1>1. ~Event(1) BY <1>0 DEF Event
<1>2. file[j].on /\ file[j].next > 0 /\ ~file[j].run BY DEF Runnable, Due
<1>3. ASSUME NEW s \in Services, Tick(s) PROVE file'[j].next = file[j].next
  <2>1. CASE Fire(s) \/ Begin(s) \/ End(s) \/ LoadFails(s) \/ Done(s)
    BY <2>1 DEF Fire, Begin, End, LoadFails, Done, store
  <2>2. ASSUME NEW ok \in BOOLEAN, Collect(s, ok) PROVE file'[j].next = file[j].next
    <3> DEFINE m == [i \in Jobs |-> [file[i] EXCEPT
                       !.run = @ \/ i \in {k \in Jobs : Runnable(k, file[k])}]]
    <3>1. Save(s, m, ok, {}, 0) BY <2>2 DEF Collect
    <3>2. m[j].next = file[j].next BY <1>0 DEF Entry
    <3> HIDE DEF m
    <3> QED BY <3>1, <3>2 DEF Save
  <2>3. ASSUME NEW ok \in BOOLEAN, NEW S \in SUBSET Marked(file), CollectNothing(s, S, ok)
        PROVE  file'[j].next = file[j].next
    BY <2>3 DEF CollectNothing
  <2>4. ASSUME NEW ok \in BOOLEAN, NEW S \in SUBSET Marked(file), NEW backoff \in Backoffs,
               Apply(s, S, backoff, ok)
        PROVE  file'[j].next = file[j].next
    <3> DEFINE results == [i \in Jobs |-> IF i \in Got(s)
                             THEN Applied(i, file[i], tick[s].got[i], backoff) ELSE file[i]]
    <3>1. tick[s].pc = "exec" /\ Save(s, Maintain(results, S), ok, S, 0) BY <2>4 DEF Apply
    <3>2. results \in [Jobs -> Entry] BY <1>0, ResultsType
    <3>3. s = bound BY <3>1, Worker
    <3>4. j \notin Got(s) BY <1>2, <3>3 DEF IInv, Marks, Own
    <3>5. results[j] = file[j] BY <3>4
    <3> HIDE DEF results
    <3>6. Maintain(results, S)[j].next = file[j].next BY <1>2, <3>2, <3>5, MaintainNext
    <3> QED BY <3>1, <3>6 DEF Save
  <2> QED BY <1>3, <2>1, <2>2, <2>3, <2>4 DEF Tick
<1>4. ASSUME NEW s \in Services, Holding(s) PROVE FALSE
  <2>1. hold'[s] # hold[s]
    <3>1. CASE Start(s) BY <1>0, <3>1 DEF Start, Unlocked, NoHold
    <3>2. CASE HoldBegin(s)
      <4>1. PICK x \in hold[s].todo :
              hold' = [hold EXCEPT ![s].todo = @ \ {x}, ![s].busy = {x}]
        BY <3>2 DEF HoldBegin
      <4>2. hold[s].busy = {} BY <3>2 DEF HoldBegin
      <4>3. hold'[s].busy = {x} BY <1>0, <4>1 DEF Holds
      <4> QED BY <4>2, <4>3
    <3>3. CASE HoldEnd(s)
      <4>1. hold[s].busy # {} /\ hold'[s].busy = {} BY <1>0, <3>3 DEF HoldEnd, Holds
      <4> QED BY <4>1
    <3>4. CASE \E S \in SUBSET Marked(mem[s]), ok \in BOOLEAN : HoldFinish(s, S, ok)
      BY <1>0, <3>4 DEF HoldFinish, NoHold
    <3>5. CASE \E read \in BOOLEAN : StartFails(s, read) BY <1>1, <3>5 DEF StartFails
    <3> QED BY <1>4, <3>1, <3>2, <3>3, <3>4, <3>5 DEF Holding
  <2> QED BY <2>1
<1>5. ASSUME NEW s \in Services PROVE ~Reload(s) /\ ~Restart(s)
  BY <1>1 DEF Reload, Restart, Replace
<1>6. ASSUME NEW i \in Jobs, Pass(i) PROVE file' = file BY <1>6 DEF Pass, store
<1>7. ASSUME NEW i \in Jobs, NEW ok \in BOOLEAN, User(i, ok) PROVE FALSE
  <2>1. PICK m, S, F, C : Call(m, ok, S, F, C)
    BY <1>7 DEF User, Add, Update, Remove
  <2>2. PICK n \in Nat : n >= 1 /\ Event(n)
    <3>1. 1 + (IF ok THEN 0 ELSE 1) + (IF S \cap InBatch = {} THEN 0 ELSE 1) \in Nat \ {0}
      OBVIOUS
    <3> QED BY <2>1, <3>1 DEF Call, Save
  <2> QED BY <1>0, <2>2 DEF Event
<1>8. ASSUME NEW i \in Jobs, NEW force \in BOOLEAN PROVE ~RunNow(i, force)
  BY <1>1 DEF RunNow
<1>9. ASSUME NEW S \in SUBSET Marked(Store(bound)), NEW ok \in BOOLEAN, Read(S, ok)
      PROVE  file'[j].next = file[j].next
  <2> DEFINE m == Maintain(Store(bound), S)
  <2>1. Save(bound, m, ok, S, 0) /\ life[bound] \in Open /\ hold[bound].what = "none"
    BY <1>0, <1>9 DEF Read, Unlocked
  <2>2. Store(bound)[j].next = file[j].next
    <3>1. CASE life[bound] = "unread" BY <3>1 DEF Store
    <3>2. CASE life[bound] # "unread"
      <4>1. mem[bound][j].next = file[j].next BY <1>2, <2>1, <3>2 DEF Synced, Open
      <4> QED BY <3>2, <4>1 DEF Store
    <3> QED BY <3>1, <3>2
  <2>3. m[j].on = Store(bound)[j].on /\ (m[j].on => m[j].next = file[j].next)
    BY <1>0, <1>2, <2>2, StoreFacts, MaintainEntries, MaintainNext
  <2> HIDE DEF m
  <2>4. CASE ok BY <2>1, <2>3, <2>4 DEF Save
  <2>5. CASE ~ok BY <2>1, <2>5 DEF Save
  <2> QED BY <2>4, <2>5
<1>10. Boot => file' = file BY DEF Boot, store
<1>11. ~Crash BY <1>1 DEF Crash
<1>12. Refused => file' = file BY DEF Refused
<1> QED BY <1>3, <1>4, <1>5, <1>6, <1>7, <1>8, <1>9, <1>10, <1>11, <1>12 DEF Next

(* A due occurrence is moved on without execution by the user, a manual    *)
(* run or a start only: no tick, and no list or status, skips it, however  *)
(* they interleave with calls, crashes and failing writes.                 *)
THEOREM TicksSkipNothing == Spec => NeverSkipped
<1>1. IInv /\ Synced /\ [Next]_vars => Synced' BY SyncedStep
<1>2. Spec => [](IInv /\ Synced) BY <1>1, InitIInv, InitSynced, StepIInv, PTL DEF Spec
<1>3. IInv /\ Synced /\ [Next]_vars =>
        [\A j \in Jobs :
           /\ Runnable(j, file[j]) /\ file'[j].on /\ file'[j].next > file[j].next
           /\ UNCHANGED <<events, hold>>
           => [j |-> j, n |-> file[j].next] \in fired \/ j \in redo \cup clash]_vars
  <2> SUFFICES ASSUME IInv, Synced, Next, NEW j \in Jobs, Runnable(j, file[j]), file'[j].on,
                      file'[j].next > file[j].next, UNCHANGED <<events, hold>>,
                      j \notin redo \cup clash
               PROVE  FALSE
    OBVIOUS
  <2>1. file'[j].next = file[j].next BY NotMoved
  <2>2. file[j].next \in Nat BY DEF IInv, TypeOK, Entry
  <2> QED BY <2>1, <2>2
<1> QED BY <1>2, <1>3, PTL DEF Spec, NeverSkipped
-----------------------------------------------------------------------------
(* Occurrences are executed once.  Executions are for occurrences that     *)
(* have come, of jobs that were added.                                     *)
Came(x) == x.n <= occ[x.j] /\ x.j \in born
Past ==
  /\ \A x \in fired : Came(x)
  /\ \A s \in Services : /\ \A x \in tick[s].todo : Came(x) /\ x.n > 0
                         /\ \A x \in hold[s].todo : Came(x)
  /\ \A j \in Jobs : OneShot(j) => occ[j] <= 1

(* One job is executed after the other.                                    *)
Single == \A s \in Services :
  /\ \A x, y \in tick[s].busy : x = y
  /\ \A x, y \in hold[s].busy : x = y
  /\ hold[s].what = "none" => hold[s].done = {}

Sole == Jobs \subseteq redo \/ \A s \in Services : s # bound => Rested(s) /\ life[s] # "starting"

(* The occurrences that are executed, or will be by the tick.  An entry    *)
(* repeats one if it would make a start, a tick or a run take it up again. *)
Drawn == fired \cup tick[bound].todo
Repeats(X, j, r) == r.on /\ \E x \in X : x.j = j /\ x.n > 0 /\ (OneShot(j) \/ x.n = r.next)
Taken(s) == Ids(hold[s].busy) \cup hold[s].done

(* What keeps a job whose entry repeats an occurrence from being executed. *)
FileGuarded == \A j \in Jobs \ redo : Repeats(Drawn, j, file[j]) =>
  /\ file[j].run \/ j \in Taken(bound)
  /\ OneShot(j) => j \in Own(bound) \cup Taken(bound)
MemGuarded == life[bound] \in {"on", "failed"} =>
  \A j \in Jobs \ redo : Repeats(Drawn, j, mem[bound][j]) =>
    /\ mem[bound][j].run \/ (hold[bound].what # "none" /\ ~OneShot(j))
    /\ OneShot(j) => j \in Own(bound) \cup Ids(hold[bound].busy)
Unbegun == \A x \in tick[bound].todo \cup hold[bound].todo : x.j \notin redo /\ x.n > 0 =>
  x \notin fired /\ x \notin tick[bound].todo \cap hold[bound].todo

Guards == FileGuarded /\ MemGuarded /\ Unbegun
OnceInv == Past /\ Single /\ Sole /\ Guards

-----------------------------------------------------------------------------
(* Which entries repeat an occurrence that has come.                       *)
Come(X) == \A x \in X : x.j \in Jobs /\ x.n \in Nat /\ x.n <= occ[x.j]

LEMMA RepeatsLike ==
  ASSUME NEW X, NEW j, NEW r, NEW q, r.on => q.on /\ q.next = r.next, Repeats(X, j, r)
  PROVE  Repeats(X, j, q)
BY DEF Repeats

LEMMA OneShotRepeats ==
  ASSUME NEW X, NEW j, NEW r, NEW q, OneShot(j), r.on => q.on, Repeats(X, j, r)
  PROVE  Repeats(X, j, q)
BY DEF Repeats

LEMMA LaterBars ==
  ASSUME NEW X, Come(X), NEW j \in Jobs, ~OneShot(j), NEW r, occ \in [Jobs -> Nat],
         r.on => r.next \in Nat /\ r.next > occ[j]
  PROVE  ~Repeats(X, j, r)
<1> SUFFICES ASSUME r.on, NEW x \in X, x.j = j, x.n = r.next PROVE FALSE BY DEF Repeats
<1>1. x.n <= occ[j] /\ occ[j] \in Nat BY DEF Come
<1> QED BY <1>1

LEMMA MaintainBars ==
  ASSUME NEW m \in [Jobs -> Entry], NEW S, NEW j \in Jobs, j \notin S, occ \in [Jobs -> Nat],
         NEW X, Come(X), Repeats(X, j, Maintain(m, S)[j])
  PROVE  Repeats(X, j, m[j]) /\ Maintain(m, S)[j].run = m[j].run
<1> DEFINE r == Maintain(m, S)[j]
<1>0. Repeats(X, j, r) OBVIOUS
<1>1. r.on = m[j].on /\ (m[j].on => r.run = m[j].run) BY MaintainEntries
<1>2. r.on BY DEF Repeats
<1>3. CASE OneShot(j) BY <1>1, <1>2, <1>3, OneShotRepeats
<1>4. CASE ~OneShot(j)
  <2>1. m[j].next # 0
    <3>1. SUFFICES ASSUME m[j].next = 0 PROVE FALSE OBVIOUS
    <3>2. m[j] \in Entry OBVIOUS
    <3> DEFINE t == Tidy(m[j], j \in S)
    <3>3. t.on = m[j].on /\ t.next = 0 /\ t \in Entry
      BY <3>1, <3>2, <1>1, <1>2 DEF Tidy, Entry
    <3>4. r = [t EXCEPT !.next = NextRun(j, t)] BY <1>1, <1>2, <3>3 DEF Maintain
    <3>5. NextRun(j, t) = occ[j] + 1 BY <1>1, <1>2, <1>4, <3>3 DEF NextRun
    <3> HIDE DEF t
    <3>6. r.next = occ[j] + 1 /\ r.next \in Nat BY <3>3, <3>4, <3>5 DEF Entry
    <3> HIDE DEF r
    <3> QED BY <1>0, <1>4, <3>6, LaterBars
  <2>2. m[j].next > 0
    <3>1. m[j].next \in Nat BY DEF Entry
    <3> QED BY <2>1, <3>1
  <2>3. r.next = m[j].next BY <1>1, <1>2, <2>2, MaintainNext
  <2> QED BY <1>1, <1>2, <2>3, RepeatsLike
<1> QED BY <1>1, <1>2, <1>3, <1>4

LEMMA RecomputeBars ==
  ASSUME NEW m \in [Jobs -> Entry], NEW S, NEW j \in Jobs, j \notin S, occ \in [Jobs -> Nat],
         NEW X, Come(X), Repeats(X, j, Recompute(m, S)[j])
  PROVE  OneShot(j) /\ Repeats(X, j, m[j]) /\ Recompute(m, S)[j].run = m[j].run
<1> DEFINE r == Recompute(m, S)[j]
           t == Tidy(m[j], j \in S)
<1>0. Repeats(X, j, r) OBVIOUS
<1>1. r.on = m[j].on /\ (m[j].on => r.run = m[j].run) BY RecomputeEntries
<1>2. r.on BY DEF Repeats
<1>3. CASE OneShot(j) BY <1>1, <1>2, <1>3, OneShotRepeats
<1>4. CASE ~OneShot(j)
  <2>1. t \in Entry /\ t.on = m[j].on
    <3>1. m[j] \in Entry OBVIOUS
    <3> QED BY <3>1 DEF Tidy, Entry
  <2>2. NextRun(j, t) = occ[j] + 1 BY <1>1, <1>2, <1>4, <2>1 DEF NextRun
  <2>3. r = IF t.next = 0 \/ Due(j, t) THEN [t EXCEPT !.next = NextRun(j, t)] ELSE t
    BY <1>1, <1>2, <2>1 DEF Recompute
  <2> HIDE DEF t
  <2> HIDE DEF r
  <2>4. r.next \in Nat /\ r.next > occ[j]
    <3>1. CASE t.next = 0 \/ Due(j, t)
      <4>1. r.next = occ[j] + 1 BY <2>1, <2>2, <2>3, <3>1 DEF Entry
      <4> QED BY <4>1
    <3>2. CASE ~(t.next = 0 \/ Due(j, t))
      <4>1. r = t /\ t.next \in Nat BY <2>1, <2>3, <3>2 DEF Entry
      <4>2. t.on /\ t.next # 0 BY <1>2, <3>2, <4>1
      <4>3. ~(t.next <= occ[j]) BY <3>2, <4>1, <4>2 DEF Due
      <4>4. occ[j] \in Nat OBVIOUS
      <4> QED BY <4>1, <4>3, <4>4
    <3> QED BY <3>1, <3>2
  <2> QED BY <1>0, <1>4, <2>4, LaterBars
<1> QED BY <1>1, <1>2, <1>3, <1>4

LEMMA AppliedBars ==
  ASSUME NEW j \in Jobs, NEW r \in Entry, NEW status \in {"ok", "error"}, NEW backoff \in Backoffs,
         occ \in [Jobs -> Nat], NEW X, Come(X)
  PROVE  ~Repeats(X, j, Applied(j, r, status, backoff))
<1> DEFINE a == Applied(j, r, status, backoff)
           s == IF OneShot(j) THEN [r EXCEPT !.run = FALSE, !.on = FALSE, !.last = status]
                ELSE [r EXCEPT !.run = FALSE]
           n == IF ~s.on THEN 0
                ELSE NextRun(j, s) + (IF status = "error" THEN backoff ELSE 0)
<1>1. a = IF ~r.here \/ (Kind[j] = "once" /\ status = "ok") THEN NoJob ELSE [s EXCEPT !.next = n]
  BY DEF Applied
<1>2. s \in Entry /\ (OneShot(j) => ~s.on) BY DEF Entry
<1>3. ~OneShot(j) /\ s.on => n \in Nat /\ n > occ[j]
  <2> SUFFICES ASSUME ~OneShot(j), s.on PROVE n \in Nat /\ n > occ[j] OBVIOUS
  <2>1. backoff \in Nat BY Given
  <2> HIDE DEF s
  <2>2. NextRun(j, s) = occ[j] + 1 BY DEF NextRun
  <2>3. n = NextRun(j, s) + (IF status = "error" THEN backoff ELSE 0) OBVIOUS
  <2> HIDE DEF n
  <2> QED BY <2>1, <2>2, <2>3
<1> HIDE DEF s, n
<1>4. a.on => ~OneShot(j) /\ a.next \in Nat /\ a.next > occ[j]
  BY <1>1, <1>2, <1>3 DEF Entry, NoJob
<1>5. SUFFICES ~Repeats(X, j, a) OBVIOUS
<1> HIDE DEF a
<1>6. OneShot(j) => ~Repeats(X, j, a) BY <1>4 DEF Repeats
<1> QED BY <1>4, <1>6, LaterBars

LEMMA UpdatedBars ==
  ASSUME NEW j \in Jobs, NEW r \in Entry, NEW patch \in {"enable", "disable", "other"},
         patch = "enable" => ~OneShot(j), occ \in [Jobs -> Nat], NEW X, Come(X),
         Repeats(X, j, Updated(j, r, patch))
  PROVE  Repeats(X, j, r) /\ Updated(j, r, patch).run = r.run
<1> DEFINE e == [r EXCEPT !.on = TRUE]
           u == Updated(j, r, patch)
<1>0. u.on /\ Repeats(X, j, u) BY DEF Repeats
<1>1. CASE patch = "enable"
  <2>1. u = [e EXCEPT !.next = NextRun(j, e)] BY <1>1 DEF Updated
  <2>2. e \in Entry /\ e.on BY DEF Entry
  <2> HIDE DEF e
  <2>3. NextRun(j, e) = occ[j] + 1 BY <1>1, <2>2 DEF NextRun
  <2>4. u.next = occ[j] + 1 BY <2>1, <2>2, <2>3 DEF Entry
  <2> HIDE DEF u
  <2> QED BY <1>0, <1>1, <2>4, LaterBars
<1>2. CASE patch = "disable"
  <2>1. u = [r EXCEPT !.on = FALSE, !.next = 0, !.run = FALSE] BY <1>2 DEF Updated
  <2> QED BY <1>0, <2>1 DEF Entry
<1>3. CASE patch = "other"
  <2>1. u = IF r.on /\ r.next = 0 THEN [r EXCEPT !.next = NextRun(j, r)] ELSE r
    BY <1>3 DEF Updated
  <2>2. u.on = r.on /\ u.run = r.run BY <2>1 DEF Entry
  <2>3. CASE OneShot(j) BY <2>2, <2>3, OneShotRepeats
  <2>4. CASE ~OneShot(j)
    <3>1. r.next # 0 \/ u.next = occ[j] + 1
      BY <1>0, <2>1, <2>2, <2>4 DEF NextRun, Entry
    <3>2. r.next # 0 => u = r BY <2>1
    <3>3. CASE r.next # 0 BY <1>0, <2>2, <3>2, <3>3
    <3>4. CASE u.next = occ[j] + 1
      <4>1. u.next \in Nat /\ u.next > occ[j] BY <3>4
      <4> HIDE DEF u
      <4> QED BY <1>0, <2>4, <4>1, LaterBars
    <3> QED BY <3>1, <3>3, <3>4
  <2> QED BY <2>2, <2>3, <2>4
<1> QED BY <1>1, <1>2, <1>3

-----------------------------------------------------------------------------
(* How the batches change: what is added to one has come, and only what is *)
(* in a batch is begun.                                                    *)
Proceeds(t) ==
  /\ tick'[t].todo \subseteq tick[t].todo \/ \A x \in tick'[t].todo : Came(x) /\ x.n > 0
  /\ hold'[t].todo \subseteq hold[t].todo \/ \A x \in hold'[t].todo : Came(x)
  /\ tick'[t].busy \subseteq tick[t].busy \/ \E x \in tick[t].todo : tick'[t].busy = {x}
  /\ hold'[t].busy \subseteq hold[t].busy \/ \E x \in hold[t].todo : hold'[t].busy = {x}
  /\ hold'[t].what = "none" =>
       hold'[t].done = {} \/ (hold[t].what = "none" /\ hold'[t].done = hold[t].done)
Batches == UNION {tick[s].todo \cup hold[s].todo : s \in Services}
Progress == fired' \subseteq fired \cup Batches /\ \A t \in Services : Proceeds(t)

LEMMA StillProgress ==
  ASSUME fired' = fired,
         \A t \in Services : /\ tick'[t].todo = tick[t].todo /\ tick'[t].busy \subseteq tick[t].busy
                             /\ hold'[t] = hold[t]
  PROVE  Progress
BY DEF Progress, Proceeds

LEMMA TickProgress ==
  ASSUME IInv, NEW s \in Services, Tick(s) PROVE Progress /\ occ' = occ /\ born' = born
<1>0. /\ TypeOK /\ tick \in [Services -> Ticks] /\ hold \in [Services -> Holds]
      /\ file \in [Jobs -> Entry] /\ occ \in [Jobs -> Nat]
  BY Parts DEF IInv
<1>1. CASE Fire(s)
  <2>1. hold' = hold /\ fired' = fired /\ occ' = occ /\ born' = born BY <1>1 DEF Fire, world
  <2>2. \A t \in Services : tick'[t].todo = tick[t].todo /\ tick'[t].busy = tick[t].busy
    BY <1>0, <1>1 DEF Fire, Ticks
  <2> QED BY <2>1, <2>2, StillProgress
<1>2. CASE Begin(s)
  <2>1. PICK x \in tick[s].todo :
          /\ tick' = [tick EXCEPT ![s].todo = @ \ {x}, ![s].busy = {x}] /\ fired' = fired \cup {x}
    BY <1>2 DEF Begin
  <2>2. hold' = hold /\ occ' = occ /\ born' = born BY <1>2 DEF Begin, world
  <2>3. /\ tick'[s].todo = tick[s].todo \ {x} /\ tick'[s].busy = {x}
        /\ \A t \in Services : t # s => tick'[t] = tick[t]
    BY <1>0, <2>1 DEF Ticks
  <2>4. \A t \in Services : Proceeds(t) BY <2>2, <2>3 DEF Proceeds
  <2>5. x \in Batches BY DEF Batches
  <2> QED BY <2>1, <2>2, <2>4, <2>5 DEF Progress
<1>3. CASE End(s)
  <2>1. hold' = hold /\ fired' = fired /\ occ' = occ /\ born' = born BY <1>3 DEF End, world
  <2>2. \A t \in Services : tick'[t].todo = tick[t].todo /\ tick'[t].busy \subseteq tick[t].busy
    BY <1>0, <1>3 DEF End, Ticks
  <2> QED BY <2>1, <2>2, StillProgress
<1>4. CASE LoadFails(s) \/ Done(s)
  <2>1. hold' = hold /\ fired' = fired /\ occ' = occ /\ born' = born
    BY <1>4 DEF LoadFails, Done, world
  <2>2. /\ tick'[s].todo = {} /\ tick'[s].busy = {}
        /\ \A t \in Services : t # s => tick'[t] = tick[t]
    BY <1>0, <1>4, IdleTypes DEF LoadFails, Done
  <2>3. tick[s].todo = {} /\ tick[s].busy = {}
    BY <1>4 DEF LoadFails, Done, IInv, Rests
  <2>4. \A t \in Services : tick'[t].todo = tick[t].todo /\ tick'[t].busy \subseteq tick[t].busy
    BY <2>2, <2>3
  <2> QED BY <2>1, <2>4, StillProgress
<1>5. ASSUME NEW ok \in BOOLEAN, Collect(s, ok) PROVE Progress /\ occ' = occ /\ born' = born
  <2> DEFINE due == {j \in Jobs : Runnable(j, file[j])}
             todo == IF ok THEN {[j |-> j, n |-> file[j].next] : j \in due} ELSE {}
             p == IF ok THEN "exec" ELSE "done"
  <2>1. /\ tick' = [tick EXCEPT ![s].pc = p, ![s].todo = todo]
        /\ hold' = hold /\ fired' = fired /\ occ' = occ /\ born' = born
    BY <1>5 DEF Collect
  <2>2. \A x \in todo : Came(x) /\ x.n > 0
    <3>1. \A j \in due : /\ file[j].next > 0 /\ file[j].next <= occ[j] /\ j \in born
      BY DEF Runnable, Due, IInv, Known, Alive
    <3> QED BY <3>1 DEF Came
  <2> HIDE DEF todo, p
  <2>3. /\ tick'[s].todo = todo /\ tick'[s].busy = tick[s].busy
        /\ \A t \in Services : t # s => tick'[t] = tick[t]
    BY <1>0, <2>1 DEF Ticks
  <2>4. \A t \in Services : Proceeds(t) BY <2>1, <2>2, <2>3 DEF Proceeds
  <2> QED BY <2>1, <2>4 DEF Progress
<1>6. ASSUME NEW ok \in BOOLEAN, NEW S \in SUBSET Marked(file), CollectNothing(s, S, ok)
      PROVE  Progress /\ occ' = occ /\ born' = born
  <2>1. hold' = hold /\ fired' = fired /\ occ' = occ /\ born' = born BY <1>6 DEF CollectNothing
  <2>2. \A t \in Services : tick'[t].todo = tick[t].todo /\ tick'[t].busy = tick[t].busy
    BY <1>0, <1>6 DEF CollectNothing, Ticks
  <2> QED BY <2>1, <2>2, StillProgress
<1>7. ASSUME NEW ok \in BOOLEAN, NEW S \in SUBSET Marked(file), NEW backoff \in Backoffs,
             Apply(s, S, backoff, ok)
      PROVE  Progress /\ occ' = occ /\ born' = born
  <2>1. /\ tick[s].todo = {} /\ tick[s].busy = {}
        /\ tick' = [tick EXCEPT ![s] = [Idle EXCEPT !.pc = "done"]]
        /\ hold' = hold /\ fired' = fired /\ occ' = occ /\ born' = born
    BY <1>7 DEF Apply
  <2>2. \A t \in Services : tick'[t].todo = tick[t].todo /\ tick'[t].busy \subseteq tick[t].busy
    BY <1>0, <2>1, IdleTypes
  <2> QED BY <2>1, <2>2, StillProgress
<1> QED BY <1>1, <1>2, <1>3, <1>4, <1>5, <1>6, <1>7 DEF Tick

LEMMA HoldingProgress ==
  ASSUME IInv, NEW s \in Services, Holding(s) PROVE Progress /\ occ' = occ /\ born' = born
<1>0. /\ TypeOK /\ tick \in [Services -> Ticks] /\ hold \in [Services -> Holds]
      /\ file \in [Jobs -> Entry] /\ occ \in [Jobs -> Nat]
  BY Parts DEF IInv
<1>1. CASE Start(s)
  <2> DEFINE missed == {j \in Jobs : Runnable(j, file[j]) /\ (OneShot(j) => file[j].last = "none")}
             todo == {[j |-> j, n |-> file[j].next] : j \in missed}
  <2>1. /\ hold' = [hold EXCEPT ![s] = [NoHold EXCEPT !.what = "start", !.todo = todo]]
        /\ tick' = tick /\ fired' = fired /\ occ' = occ /\ born' = born
    BY <1>1 DEF Start, world
  <2>2. \A x \in todo : Came(x)
    <3>1. \A j \in missed : file[j].next <= occ[j] /\ j \in born
      BY DEF Runnable, Due, IInv, Known, Alive
    <3> QED BY <3>1 DEF Came
  <2> HIDE DEF todo
  <2>3. /\ hold'[s].todo = todo /\ hold'[s].busy = {} /\ hold'[s].what = "start"
        /\ \A t \in Services : t # s => hold'[t] = hold[t]
    BY <1>0, <2>1 DEF NoHold
  <2>4. \A t \in Services : Proceeds(t) BY <2>1, <2>2, <2>3 DEF Proceeds
  <2> QED BY <2>1, <2>4 DEF Progress
<1>2. CASE HoldBegin(s)
  <2>1. PICK x \in hold[s].todo :
          /\ hold' = [hold EXCEPT ![s].todo = @ \ {x}, ![s].busy = {x}] /\ fired' = fired \cup {x}
    BY <1>2 DEF HoldBegin
  <2>2. tick' = tick /\ occ' = occ /\ born' = born BY <1>2 DEF HoldBegin, world
  <2>3. /\ hold'[s].todo = hold[s].todo \ {x} /\ hold'[s].busy = {x}
        /\ hold'[s].what = hold[s].what /\ hold'[s].done = hold[s].done
        /\ \A t \in Services : t # s => hold'[t] = hold[t]
    BY <1>0, <2>1 DEF Holds
  <2>4. \A t \in Services : Proceeds(t) BY <2>2, <2>3 DEF Proceeds
  <2>5. x \in Batches BY DEF Batches
  <2> QED BY <2>1, <2>2, <2>4, <2>5 DEF Progress
<1>3. CASE HoldEnd(s)
  <2>1. tick' = tick /\ fired' = fired /\ occ' = occ /\ born' = born BY <1>3 DEF HoldEnd, world
  <2>2. /\ hold'[s].todo = hold[s].todo /\ hold'[s].busy = {} /\ hold'[s].what = hold[s].what
        /\ \A t \in Services : t # s => hold'[t] = hold[t]
    BY <1>0, <1>3 DEF HoldEnd, Holds
  <2>3. hold[s].what # "none" BY <1>3 DEF HoldEnd, IInv, Rests
  <2>4. \A t \in Services : Proceeds(t) BY <2>1, <2>2, <2>3 DEF Proceeds
  <2> QED BY <2>1, <2>4 DEF Progress
<1>4. ASSUME NEW S \in SUBSET Marked(mem[s]), NEW ok \in BOOLEAN, HoldFinish(s, S, ok)
      PROVE  Progress /\ occ' = occ /\ born' = born
  <2>1. /\ hold' = [hold EXCEPT ![s] = NoHold]
        /\ tick' = tick /\ fired' = fired /\ occ' = occ /\ born' = born
    BY <1>4 DEF HoldFinish
  <2>2. /\ hold'[s].todo = {} /\ hold'[s].busy = {} /\ hold'[s].done = {}
        /\ \A t \in Services : t # s => hold'[t] = hold[t]
    BY <1>0, <2>1 DEF NoHold
  <2>3. \A t \in Services : Proceeds(t) BY <2>1, <2>2 DEF Proceeds
  <2> QED BY <2>1, <2>3 DEF Progress
<1>5. ASSUME NEW read \in BOOLEAN, StartFails(s, read) PROVE Progress /\ occ' = occ /\ born' = born
  <2>1. tick' = tick /\ hold' = hold /\ fired' = fired /\ occ' = occ /\ born' = born
    BY <1>5 DEF StartFails
  <2> QED BY <2>1, StillProgress
<1> QED BY <1>1, <1>2, <1>3, <1>4, <1>5 DEF Holding

LEMMA AnyProgress ==
  ASSUME IInv, [Next]_vars
  PROVE  /\ Progress /\ \A j \in Jobs : occ'[j] \in Nat /\ occ[j] <= occ'[j]
         /\ born \subseteq born' /\ \A j \in Jobs : OneShot(j) /\ occ[j] <= 1 => occ'[j] <= 1
<1>0. /\ TypeOK /\ tick \in [Services -> Ticks] /\ hold \in [Services -> Holds]
      /\ occ \in [Jobs -> Nat] /\ bound \in Services /\ Store(bound) \in [Jobs -> Entry]
  BY Parts, StoreFacts DEF IInv
<1> DEFINE Still == occ' = occ /\ born \subseteq born'
<1>1. ASSUME NEW s \in Services, Tick(s) \/ Holding(s) PROVE Progress /\ Still
  BY <1>1, TickProgress, HoldingProgress
<1>2. ASSUME NEW s \in Services, Reload(s) \/ Restart(s) PROVE Progress /\ Still
  <2>1. tick' = tick /\ hold' = hold /\ fired' = fired /\ Still
    BY <1>2 DEF Reload, Restart, Replace
  <2> QED BY <2>1, StillProgress
<1>3. ASSUME NEW i \in Jobs, Pass(i)
      PROVE  /\ Progress /\ born \subseteq born'
             /\ \A j \in Jobs : /\ occ'[j] \in Nat /\ occ[j] <= occ'[j]
                                /\ OneShot(j) /\ occ[j] <= 1 => occ'[j] <= 1
  <2>1. /\ tick' = tick /\ hold' = hold /\ fired' = fired /\ born' = born
        /\ occ[i] < (IF OneShot(i) THEN 1 ELSE MaxOcc) /\ occ' = [occ EXCEPT ![i] = @ + 1]
    BY <1>3 DEF Pass, control
  <2>2. Progress BY <2>1, StillProgress
  <2>3. ASSUME NEW j \in Jobs
        PROVE  /\ occ'[j] \in Nat /\ occ[j] <= occ'[j]
               /\ OneShot(j) /\ occ[j] <= 1 => occ'[j] <= 1
    BY <1>0, <2>1
  <2> QED BY <2>1, <2>2, <2>3
<1>4. ASSUME NEW j \in Jobs, NEW ok \in BOOLEAN, User(j, ok) PROVE Progress /\ Still
  <2>1. tick' = tick /\ hold' = hold /\ fired' = fired /\ Still
    BY <1>4 DEF User, Add, Update, Remove, Call
  <2> QED BY <2>1, StillProgress
<1>5. ASSUME NEW j \in Jobs, NEW force \in BOOLEAN, RunNow(j, force) PROVE Progress /\ Still
  <2> DEFINE r == Store(bound)[j]
             todo == {[j |-> j, n |-> IF Due(j, r) THEN r.next ELSE 0]}
  <2>1. /\ hold' = [hold EXCEPT ![bound] = [NoHold EXCEPT !.what = "run", !.todo = todo]]
        /\ r.here /\ tick' = tick /\ fired' = fired /\ occ' = occ /\ born' = born
    BY <1>5 DEF RunNow, Running
  <2>2. \A x \in todo : Came(x)
    <3>1. j \in born BY <1>0, <2>1, StoreFacts DEF Alive
    <3>2. (IF Due(j, r) THEN r.next ELSE 0) <= occ[j] BY <1>0 DEF Due
    <3> QED BY <3>1, <3>2 DEF Came
  <2> HIDE DEF todo
  <2>3. /\ hold'[bound].todo = todo /\ hold'[bound].busy = {} /\ hold'[bound].what = "run"
        /\ \A t \in Services : t # bound => hold'[t] = hold[t]
    BY <1>0, <2>1 DEF NoHold
  <2>4. \A t \in Services : Proceeds(t) BY <2>1, <2>2, <2>3 DEF Proceeds
  <2> QED BY <2>1, <2>4 DEF Progress
<1>6. ASSUME NEW S \in SUBSET Marked(Store(bound)), NEW ok \in BOOLEAN, Read(S, ok)
      PROVE  Progress /\ Still
  <2>1. tick' = tick /\ hold' = hold /\ fired' = fired /\ Still BY <1>6 DEF Read
  <2> QED BY <2>1, StillProgress
<1>7. ASSUME Boot \/ Refused \/ UNCHANGED vars PROVE Progress /\ Still
  <2>1. tick' = tick /\ hold' = hold /\ fired' = fired /\ Still
    BY <1>7 DEF Boot, Refused, vars, control, world
  <2> QED BY <2>1, StillProgress
<1>8. ASSUME Crash PROVE Progress /\ Still
  <2>1. /\ tick' = [s \in Services |-> Idle] /\ hold' = [s \in Services |-> NoHold]
        /\ fired' = fired /\ Still
    BY <1>8 DEF Crash
  <2>2. NoHold.done = {} BY DEF NoHold
  <2>3. \A t \in Services : Proceeds(t) BY <2>1, <2>2, IdleTypes DEF Proceeds
  <2> QED BY <2>1, <2>3 DEF Progress
<1>9. Still => /\ \A j \in Jobs : occ'[j] \in Nat /\ occ[j] <= occ'[j]
               /\ born \subseteq born' /\ \A j \in Jobs : OneShot(j) /\ occ[j] <= 1 => occ'[j] <= 1
  BY <1>0
<1>10. CASE \E i \in Jobs : Pass(i) BY <1>3, <1>10
<1>11. CASE ~\E i \in Jobs : Pass(i)
  <2>1. Progress /\ Still
    <3> HIDE DEF Still
    <3> QED BY <1>1, <1>2, <1>4, <1>5, <1>6, <1>7, <1>8, <1>11 DEF Next
  <2> QED BY <1>9, <2>1
<1> QED BY <1>10, <1>11

LEMMA PastStep ==
  ASSUME IInv, Past, Single, [Next]_vars PROVE Past' /\ Single'
<1>0. /\ TypeOK /\ tick \in [Services -> Ticks] /\ hold \in [Services -> Holds]
      /\ occ \in [Jobs -> Nat] /\ fired \subseteq Run
  <2>1. TypeOK BY DEF IInv
  <2> QED BY <2>1, Parts DEF TypeOK
<1>1. /\ Progress /\ \A j \in Jobs : occ'[j] \in Nat /\ occ[j] <= occ'[j]
      /\ born \subseteq born' /\ \A j \in Jobs : OneShot(j) /\ occ[j] <= 1 => occ'[j] <= 1
  BY AnyProgress
<1>2. \A x \in Run : Came(x) => Came(x)'
  <2> SUFFICES ASSUME NEW x \in Run, Came(x) PROVE Came(x)' OBVIOUS
  <2>1. x.j \in Jobs /\ x.n \in Nat BY RunFields
  <2>2. occ[x.j] \in Nat /\ occ'[x.j] \in Nat /\ occ[x.j] <= occ'[x.j] BY <1>0, <1>1, <2>1
  <2> QED BY <1>1, <2>1, <2>2 DEF Came
<1>3. TypeOK' BY StepIInv DEF IInv
<1>4. \A s \in Services : /\ tick[s].todo \subseteq Run /\ hold[s].todo \subseteq Run
                          /\ tick'[s].todo \subseteq Run /\ hold'[s].todo \subseteq Run
  BY <1>0, <1>3 DEF TypeOK, Ticks, Holds
<1>5. \A x \in fired' : Came(x)'
  <2> SUFFICES ASSUME NEW x \in fired' PROVE Came(x) /\ x \in Run BY <1>2
  <2>1. CASE x \in fired BY <1>0, <2>1 DEF Past
  <2>2. CASE x \in Batches BY <1>4, <2>2 DEF Batches, Past
  <2> QED BY <1>1, <2>1, <2>2 DEF Progress
<1>6. ASSUME NEW s \in Services
      PROVE  /\ \A x \in tick'[s].todo : Came(x)' /\ x.n > 0
             /\ \A x \in hold'[s].todo : Came(x)'
  <2>1. Proceeds(s) BY <1>1 DEF Progress
  <2>2. \A x \in tick'[s].todo : Came(x) /\ x.n > 0 BY <2>1 DEF Proceeds, Past
  <2>3. \A x \in hold'[s].todo : Came(x) BY <2>1 DEF Proceeds, Past
  <2> QED BY <1>2, <1>4, <2>2, <2>3
<1>7. Past' BY <1>1, <1>5, <1>6 DEF Past
<1>8. Single'
  <2> SUFFICES ASSUME NEW s \in Services
               PROVE  /\ \A x, y \in tick'[s].busy : x = y
                      /\ \A x, y \in hold'[s].busy : x = y
                      /\ hold'[s].what = "none" => hold'[s].done = {}
    BY DEF Single
  <2>1. Proceeds(s) BY <1>1 DEF Progress
  <2> QED BY <2>1 DEF Proceeds, Single
<1> QED BY <1>7, <1>8

-----------------------------------------------------------------------------
(* A service that acts leaves the others alone.                            *)
LEMMA Locally ==
  ASSUME IInv, NEW s \in Services, Tick(s) \/ Holding(s)
  PROVE  Others(s) /\ bound' = bound /\ redo \subseteq redo' /\ (~Rested(s) \/ life[s] = "starting")
<1>0. TypeOK BY DEF IInv
<1>1. /\ tick \in [Services -> Ticks] /\ hold \in [Services -> Holds]
      /\ armed \in [Services -> BOOLEAN] /\ life \in [Services -> {"off", "starting", "on", "failed", "unread"}]
  BY <1>0, Parts
<1>2. CASE Fire(s) \/ Begin(s) \/ End(s) \/ LoadFails(s) \/ Done(s)
  <2>1. \A t \in Services : t # s => tick'[t] = tick[t] /\ armed'[t] = armed[t]
    BY <1>1, <1>2 DEF Fire, Begin, End, LoadFails, Done, Arm, Ticks
  <2>2. hold' = hold /\ life' = life /\ bound' = bound /\ redo \subseteq redo'
    BY <1>2 DEF Fire, Begin, End, LoadFails, Done, excuses, Excused
  <2>3. ~Rested(s)
    BY <1>2 DEF Fire, Begin, End, LoadFails, Done, Rested, IInv, Rests
  <2> QED BY <2>1, <2>2, <2>3 DEF Others
<1>3. ASSUME NEW ok \in BOOLEAN,
             \/ Collect(s, ok)
             \/ \E S \in SUBSET Marked(file) : CollectNothing(s, S, ok)
             \/ \E S \in SUBSET Marked(file), backoff \in Backoffs : Apply(s, S, backoff, ok)
      PROVE  Others(s) /\ bound' = bound /\ redo \subseteq redo' /\ ~Rested(s)
  <2>1. \A t \in Services : t # s => tick'[t] = tick[t]
    BY <1>1, <1>3 DEF Collect, CollectNothing, Apply, Ticks
  <2>2. hold' = hold /\ life' = life /\ armed' = armed /\ bound' = bound /\ redo \subseteq redo'
    BY <1>3 DEF Collect, CollectNothing, Apply, excuses, Excused
  <2>3. tick[s].pc # "idle" BY <1>3 DEF Collect, CollectNothing, Apply
  <2> QED BY <2>1, <2>2, <2>3 DEF Others, Rested
<1>4. CASE Start(s)
  <2>1. \A t \in Services : t # s => hold'[t] = hold[t] /\ life'[t] = life[t]
    BY <1>1, <1>4 DEF Start
  <2> QED BY <1>4, <2>1 DEF Start, Others, excuses
<1>7. ASSUME NEW read \in BOOLEAN, StartFails(s, read)
      PROVE  Others(s) /\ bound' = bound /\ redo \subseteq redo' /\ life[s] = "starting"
  BY <1>1, <1>7 DEF StartFails, Others, excuses
<1>5. CASE HoldBegin(s) \/ HoldEnd(s)
  <2>1. \A t \in Services : t # s => hold'[t] = hold[t]
    BY <1>1, <1>5 DEF HoldBegin, HoldEnd, Holds
  <2>2. hold[s].what # "none" BY <1>5 DEF HoldBegin, HoldEnd, IInv, Rests
  <2> QED BY <1>5, <2>1, <2>2 DEF HoldBegin, HoldEnd, Others, excuses, Rested
<1>6. ASSUME NEW S \in SUBSET Marked(mem[s]), NEW ok \in BOOLEAN, HoldFinish(s, S, ok)
      PROVE  Others(s) /\ bound' = bound /\ redo \subseteq redo' /\ ~Rested(s)
  <2>1. \A t \in Services : t # s =>
           hold'[t] = hold[t] /\ life'[t] = life[t] /\ armed'[t] = armed[t]
    BY <1>1, <1>6 DEF HoldFinish, Arm
  <2> QED BY <1>6, <2>1 DEF HoldFinish, Others, Excused, Rested
<1> QED BY <1>2, <1>3, <1>4, <1>5, <1>6, <1>7 DEF Tick, Holding

LEMMA Acting ==
  ASSUME Sole, NEW s \in Services, ~Rested(s) \/ life[s] = "starting"
  PROVE  s = bound \/ Jobs \subseteq redo
BY DEF Sole

LEMMA SoleLocal ==
  ASSUME Sole, NEW s \in Services, s = bound \/ Jobs \subseteq redo,
         Others(s), bound' = bound, redo \subseteq redo'
  PROVE  Sole'
<1>1. CASE Jobs \subseteq redo BY <1>1 DEF Sole
<1>2. CASE s = bound /\ ~(Jobs \subseteq redo) BY <1>2 DEF Sole, Others, Rested
<1> QED BY <1>1, <1>2

LEMMA SoleStep == ASSUME IInv, Sole, [Next]_vars PROVE Sole'
<1>0. /\ TypeOK /\ bound \in Services /\ hold \in [Services -> Holds]
      /\ armed \in [Services -> BOOLEAN] /\ life \in [Services -> {"off", "starting", "on", "failed", "unread"}]
  BY Parts DEF IInv
<1>1. ASSUME NEW s \in Services, Tick(s) \/ Holding(s) PROVE Sole'
  BY <1>1, Locally, Acting, SoleLocal
<1>2. ASSUME NEW s \in Services, Reload(s) PROVE Sole'
  BY <1>2 DEF Reload, Excused, Sole
<1>3. ASSUME NEW s \in Services, Restart(s) PROVE Sole'
  <2>1. CASE Jobs \subseteq redo \/ ~Quiet BY <1>3, <2>1 DEF Restart, Excused, Sole
  <2>2. CASE Quiet /\ ~(Jobs \subseteq redo)
    <3>1. /\ bound' = s /\ tick' = tick /\ hold' = hold
          /\ armed' = [armed EXCEPT ![bound] = FALSE] /\ life' = [life EXCEPT ![s] = "starting"]
      BY <1>3 DEF Restart, Replace
    <3>2. \A t \in Services : ~armed'[t] BY <1>0, <2>2, <3>1 DEF Sole, Rested
    <3>3. \A t \in Services : t # s => Rested(t)' /\ life'[t] # "starting"
      BY <1>0, <2>2, <3>1, <3>2 DEF Quiet, Rested
    <3> QED BY <3>1, <3>3 DEF Sole
  <2> QED BY <2>1, <2>2
<1>4. ASSUME NEW j \in Jobs, Pass(j) PROVE Sole'
  BY <1>4 DEF Pass, control, excuses, Sole, Rested
<1>5. ASSUME NEW j \in Jobs, NEW ok \in BOOLEAN, User(j, ok) PROVE Sole'
  <2>1. PICK m, S, F, C : Call(m, ok, S, F, C) BY <1>5 DEF User, Add, Update, Remove
  <2>2. Others(bound) BY <1>0, <2>1 DEF Call, Others, Arm
  <2> QED BY <1>0, <2>1, <2>2, SoleLocal DEF Call, Excused
<1>6. ASSUME NEW j \in Jobs, NEW force \in BOOLEAN, RunNow(j, force) PROVE Sole'
  <2>1. Others(bound) BY <1>0, <1>6 DEF RunNow, Running, Others
  <2> QED BY <1>0, <1>6, <2>1, SoleLocal DEF RunNow, Running, excuses
<1>7. ASSUME NEW S \in SUBSET Marked(Store(bound)), NEW ok \in BOOLEAN, Read(S, ok) PROVE Sole'
  <2>1. Others(bound) BY <1>0, <1>7 DEF Read, Others
  <2> QED BY <1>0, <1>7, <2>1, SoleLocal DEF Read, Excused
<1>11. CASE Refused
  <2>1. Others(bound) BY <1>0, <1>11 DEF Refused, Others
  <2> QED BY <1>0, <1>11, <2>1, SoleLocal DEF Refused, excuses
<1>8. CASE Boot
  <2>1. /\ \A s \in Services : Rested(s) /\ life[s] = "off"
        /\ life' = [life EXCEPT ![First] = "starting"] /\ bound' = First
        /\ tick' = tick /\ hold' = hold /\ armed' = armed
    BY <1>8 DEF Boot, IInv, Rests
  <2>2. \A s \in Services : s # First => Rested(s)' /\ life'[s] # "starting"
    BY <1>0, <2>1 DEF Rested
  <2> QED BY <2>1, <2>2 DEF Sole
<1>9. CASE Crash
  <2>1. \A s \in Services : Rested(s)' /\ life'[s] = "off"
    BY <1>9, IdleTypes DEF Crash, Rested
  <2> QED BY <2>1 DEF Sole
<1>10. CASE UNCHANGED vars BY <1>10 DEF vars, control, excuses, Sole, Rested
<1> QED BY <1>1, <1>2, <1>3, <1>4, <1>5, <1>6, <1>7, <1>8, <1>9, <1>10, <1>11 DEF Next

-----------------------------------------------------------------------------
(* The guards.                                                             *)
LEMMA AllCome == ASSUME IInv, Past PROVE Come(Drawn) /\ Come(fired)
<1>1. /\ fired \subseteq Run /\ tick[bound].todo \subseteq Run /\ bound \in Services
  BY DEF IInv, TypeOK
<1> QED BY <1>1, RunFields DEF Past, Came, Come, Drawn

LEMMA Pardoned == ASSUME TypeOK', Jobs \subseteq redo' PROVE Guards'
<1>1. \A x \in (tick[bound].todo \cup hold[bound].todo)' : x.j \in Jobs
  BY DEF TypeOK, Run
<1> QED BY <1>1 DEF Guards, FileGuarded, MemGuarded, Unbegun

(* A step that writes the jobs, in memory and perhaps to the file.         *)
LEMMA WrittenGuards ==
  ASSUME NEW m, mem'[bound'] = m,
         \A j \in Jobs \ redo' : \A r \in {file'[j], m[j]} : Repeats(Drawn', j, r) =>
           r.run /\ (OneShot(j) => j \in Own(bound)')
  PROVE  FileGuarded' /\ MemGuarded'
BY DEF FileGuarded, MemGuarded

(* A step that writes no job.                                              *)
LEMMA KeptGuards ==
  ASSUME FileGuarded, MemGuarded, bound' = bound, redo \subseteq redo', file' = file,
         life'[bound] \in {"on", "failed"} => life[bound] \in {"on", "failed"},
         \A j \in Jobs : /\ mem'[bound][j].on = mem[bound][j].on
                         /\ mem'[bound][j].next = mem[bound][j].next
                         /\ mem[bound][j].run => mem'[bound][j].run,
         Drawn' \subseteq Drawn, Own(bound) \subseteq Own(bound)' \cup redo',
         hold'[bound].busy = hold[bound].busy, hold'[bound].done = hold[bound].done,
         hold[bound].what # "none" => hold'[bound].what # "none"
  PROVE  FileGuarded' /\ MemGuarded'
<1>1. \A j, r : Repeats(Drawn', j, r) => Repeats(Drawn, j, r) BY DEF Repeats
<1>2. Taken(bound)' = Taken(bound) BY DEF Taken, Ids
<1>3. Ids(hold[bound].busy)' = Ids(hold[bound].busy) BY DEF Ids
<1>4. FileGuarded' BY <1>1, <1>2 DEF FileGuarded
<1>5. MemGuarded'
  <2> SUFFICES ASSUME life'[bound] \in {"on", "failed"}, NEW j \in Jobs \ redo',
                      Repeats(Drawn', j, mem'[bound][j])
               PROVE  /\ mem'[bound][j].run \/ (hold'[bound].what # "none" /\ ~OneShot(j))
                      /\ OneShot(j) => j \in Own(bound)' \cup Ids(hold'[bound].busy)
    BY DEF MemGuarded
  <2>1. Repeats(Drawn, j, mem[bound][j]) BY <1>1, RepeatsLike
  <2> QED BY <2>1, <1>3 DEF MemGuarded
<1> QED BY <1>4, <1>5

(* Nothing is held and nothing is owned by a service that rests.           *)
LEMMA NothingTaken ==
  ASSUME IInv, Single, NEW s \in Services, hold[s].what = "none"
  PROVE  Taken(s) = {} /\ Ids(hold[s].busy) = {} /\ hold[s].todo = {}
BY DEF Taken, Ids, Single, IInv, Rests

(* What is in nobody's hands is not repeated, unless it is marked.         *)
LEMMA FreeFile ==
  ASSUME IInv, Single, FileGuarded, hold[bound].what = "none", Own(bound) \subseteq redo,
         NEW j \in Jobs \ redo, Repeats(Drawn, j, file[j])
  PROVE  file[j].run /\ ~OneShot(j)
<1>1. bound \in Services BY DEF IInv, TypeOK
<1>2. Taken(bound) = {} BY <1>1, NothingTaken
<1> QED BY <1>2 DEF FileGuarded

LEMMA QuietTickGuards ==
  ASSUME IInv, OnceInv, Fire(bound) \/ Done(bound) \/ LoadFails(bound) \/ End(bound)
  PROVE  Guards'
<1>0. /\ TypeOK /\ bound \in Services /\ tick \in [Services -> Ticks] /\ tick[bound] \in Ticks
  BY Parts DEF IInv
<1>1. /\ file' = file /\ mem' = mem /\ hold' = hold /\ life' = life /\ bound' = bound
      /\ redo \subseteq redo' /\ fired' = fired
  BY DEF Fire, Done, LoadFails, End, store, excuses, Excused
<1>2. tick'[bound].todo = tick[bound].todo /\ Own(bound) \subseteq Own(bound)' \cup redo'
  <2>1. CASE Fire(bound)
    <3>1. tick'[bound].todo = tick[bound].todo /\ tick'[bound].busy = tick[bound].busy
          /\ tick'[bound].got = tick[bound].got
      BY <1>0, <2>1 DEF Fire, Ticks
    <3> QED BY <1>1, <3>1 DEF Own, Got, Ids
  <2>2. CASE Done(bound) \/ LoadFails(bound)
    <3>1. tick[bound].todo = {} /\ tick[bound].busy = {}
      BY <1>0, <2>2 DEF Done, LoadFails, IInv, Rests
    <3>2. tick'[bound].todo = {} BY <1>0, <2>2, IdleTypes DEF Done, LoadFails
    <3>3. Got(bound) \subseteq redo'
      <4>1. CASE LoadFails(bound) BY <4>1 DEF LoadFails, Excused
      <4>2. CASE Done(bound) BY <1>0, <4>2 DEF Done, IInv, Rests
      <4> QED BY <2>2, <4>1, <4>2
    <3> QED BY <3>1, <3>2, <3>3 DEF Own, Ids
  <2>3. CASE End(bound)
    <3>1. PICK x \in tick[bound].busy, status \in {"ok", "error"} :
            tick' = [tick EXCEPT ![bound].busy = {}, ![bound].got[x.j] = status]
      BY <2>3 DEF End
    <3>2. x.j \in Jobs BY <1>0, TickFields, RunFields
    <3>3. /\ tick'[bound].todo = tick[bound].todo
          /\ tick'[bound].got = [tick[bound].got EXCEPT ![x.j] = status]
      BY <1>0, <3>1 DEF Ticks
    <3>4. tick[bound].got \in [Jobs -> {"none", "ok", "error"}] BY <1>0, TickFields
    <3>5. Got(bound)' = Got(bound) \cup {x.j} BY <1>1, <3>2, <3>3, <3>4 DEF Got
    <3>6. tick[bound].busy \subseteq {x} BY <1>0 DEF OnceInv, Single
    <3> QED BY <1>1, <3>3, <3>5, <3>6 DEF Own, Ids
  <2> QED BY <2>1, <2>2, <2>3
<1>3. Drawn' = Drawn BY <1>1, <1>2 DEF Drawn
<1>4. FileGuarded' /\ MemGuarded' BY <1>1, <1>2, <1>3, KeptGuards DEF OnceInv, Guards
<1>5. Unbegun' BY <1>1, <1>2 DEF OnceInv, Guards, Unbegun
<1> QED BY <1>4, <1>5 DEF Guards

LEMMA BeginGuards == ASSUME IInv, OnceInv, Begin(bound) PROVE Guards'
<1>0. /\ TypeOK /\ bound \in Services /\ tick \in [Services -> Ticks] /\ tick[bound] \in Ticks
      /\ mem \in [Services -> [Jobs -> Entry]]
  BY Parts DEF IInv
<1>1. PICK x \in tick[bound].todo :
        /\ tick' = [tick EXCEPT ![bound].todo = @ \ {x}, ![bound].busy = {x}]
        /\ mem' = [mem EXCEPT ![bound][x.j].run = @ \/ mem[bound][x.j].here]
        /\ fired' = fired \cup {x}
  BY DEF Begin
<1>2. /\ tick[bound].busy = {} /\ file' = file /\ hold' = hold /\ life' = life /\ bound' = bound
      /\ redo' = redo
  BY DEF Begin, excuses
<1>3. /\ tick'[bound].todo = tick[bound].todo \ {x} /\ tick'[bound].busy = {x}
      /\ tick'[bound].got = tick[bound].got
  BY <1>0, <1>1 DEF Ticks
<1>4. Drawn' = Drawn BY <1>1, <1>2, <1>3 DEF Drawn
<1>5. Own(bound)' = Own(bound)
  <2>1. Got(bound)' = Got(bound) BY <1>2, <1>3 DEF Got
  <2>2. (tick[bound].todo \cup tick[bound].busy)' = tick[bound].todo \cup tick[bound].busy
    BY <1>2, <1>3
  <2> QED BY <1>2, <2>1, <2>2 DEF Own, Ids
<1>6. x.j \in Jobs BY <1>0, TickFields, RunFields
<1>7. \A j \in Jobs : /\ mem'[bound][j].on = mem[bound][j].on
                      /\ mem'[bound][j].next = mem[bound][j].next
                      /\ mem[bound][j].run => mem'[bound][j].run
  BY <1>0, <1>1, <1>6 DEF Entry
<1>8. FileGuarded' /\ MemGuarded'
  BY <1>2, <1>4, <1>5, <1>7, KeptGuards DEF OnceInv, Guards
<1>9. Unbegun' BY <1>1, <1>2, <1>3 DEF OnceInv, Guards, Unbegun
<1> QED BY <1>8, <1>9 DEF Guards

LEMMA CollectGuards ==
  ASSUME IInv, OnceInv, NEW ok \in BOOLEAN, Collect(bound, ok) PROVE Guards'
<1> DEFINE due == {j \in Jobs : Runnable(j, file[j])}
           m == [j \in Jobs |-> [file[j] EXCEPT !.run = @ \/ j \in due]]
           todo == IF ok THEN {[j |-> j, n |-> file[j].next] : j \in due} ELSE {}
           p == IF ok THEN "exec" ELSE "done"
<1>0. /\ TypeOK /\ bound \in Services /\ tick \in [Services -> Ticks] /\ file \in [Jobs -> Entry]
      /\ mem \in [Services -> [Jobs -> Entry]] /\ occ \in [Jobs -> Nat]
  BY Parts DEF IInv
<1>1. /\ tick[bound].pc = "collect" /\ hold[bound].what = "none" /\ Save(bound, m, ok, {}, 0)
      /\ tick' = [tick EXCEPT ![bound].pc = p, ![bound].todo = todo]
      /\ hold' = hold /\ bound' = bound /\ redo' = redo /\ fired' = fired
  BY <1>0 DEF Collect, Unlocked, excuses
<1>2. \A j \in Jobs : /\ m[j].on = file[j].on /\ m[j].next = file[j].next
                      /\ m[j].run <=> file[j].run \/ j \in due
  BY <1>0 DEF Entry
<1>3. /\ \A x \in todo : x.j \in due /\ x.n = file[x.j].next
      /\ ok => \A j \in due : \E x \in todo : x.j = j
      /\ ~ok => todo = {}
  <2>1. CASE ok
    <3>1. todo = {[j |-> j, n |-> file[j].next] : j \in due} BY <2>1
    <3> HIDE DEF todo, m, due
    <3>2. \A x \in todo : x.j \in due /\ x.n = file[x.j].next BY <3>1
    <3>3. ASSUME NEW j \in due PROVE \E x \in todo : x.j = j
      <4>1. [j |-> j, n |-> file[j].next] \in todo BY <3>1
      <4> QED BY <4>1
    <3> QED BY <2>1, <3>2, <3>3
  <2>2. CASE ~ok BY <2>2
  <2> QED BY <2>1, <2>2
<1>4. mem'[bound] = m /\ file' = IF ok THEN m ELSE file BY <1>0, <1>1 DEF Save
<1> HIDE DEF m, todo, p
<1>5. tick'[bound].todo = todo BY <1>0, <1>1 DEF Ticks
<1>6. tick[bound].todo = {} /\ Own(bound) = {} BY <1>0, <1>1, NothingOwned DEF IInv, Rests
<1>7. Drawn = fired /\ Drawn' = fired \cup todo BY <1>1, <1>5, <1>6 DEF Drawn
<1>8. \A j \in Jobs \ redo : Repeats(fired, j, file[j]) => file[j].run /\ ~OneShot(j)
  BY <1>1, <1>6, <1>7, FreeFile DEF OnceInv, Guards
<1>9. \A j \in due : ok => j \in Own(bound)' BY <1>1, <1>3, <1>5 DEF Own, Ids
<1>10. FileGuarded' /\ MemGuarded'
  <2> SUFFICES ASSUME NEW j \in Jobs \ redo, NEW r \in {file'[j], m[j]}, Repeats(Drawn', j, r)
               PROVE  r.run /\ (OneShot(j) => j \in Own(bound)')
    BY <1>1, <1>4, WrittenGuards
  <2>1. r.on = file[j].on /\ r.next = file[j].next /\ (file[j].run => r.run)
    BY <1>2, <1>4
  <2>2. CASE Repeats(fired, j, r)
    <3>1. Repeats(fired, j, file[j]) BY <2>1, <2>2, RepeatsLike
    <3> QED BY <1>8, <2>1, <3>1
  <2>3. CASE ~Repeats(fired, j, r)
    <3>1. PICK x \in todo : x.j = j BY <1>7, <2>3 DEF Repeats
    <3>2. ok /\ j \in due BY <1>3, <3>1
    <3>3. r = m[j] BY <1>4, <3>2
    <3> QED BY <1>2, <1>9, <3>2, <3>3
  <2> QED BY <2>2, <2>3
<1>11. Unbegun'
  <2>1. hold'[bound].todo = {} BY <1>0, <1>1 DEF IInv, Rests
  <2> SUFFICES ASSUME NEW x \in todo, x.j \notin redo, x.n > 0 PROVE x \notin fired
    BY <1>1, <1>5, <2>1 DEF Unbegun
  <2>2. x.j \in Jobs /\ Runnable(x.j, file[x.j]) /\ x.n = file[x.j].next BY <1>3
  <2>3. x \in fired => Repeats(fired, x.j, file[x.j]) BY <2>2 DEF Repeats, Runnable, Due
  <2> QED BY <1>8, <2>2, <2>3 DEF Runnable
<1> QED BY <1>10, <1>11 DEF Guards

LEMMA CollectNothingGuards ==
  ASSUME IInv, OnceInv, NEW S \in SUBSET Marked(file), NEW ok \in BOOLEAN,
         CollectNothing(bound, S, ok)
  PROVE  Guards'
<1> DEFINE m == Maintain(file, S)
<1>0. /\ TypeOK /\ bound \in Services /\ tick \in [Services -> Ticks] /\ file \in [Jobs -> Entry]
      /\ mem \in [Services -> [Jobs -> Entry]] /\ occ \in [Jobs -> Nat]
  BY Parts DEF IInv
<1>1. /\ tick[bound].pc = "collect" /\ hold[bound].what = "none" /\ Save(bound, m, ok, S, 0)
      /\ tick' = [tick EXCEPT ![bound].pc = "done"]
      /\ hold' = hold /\ bound' = bound /\ redo' = redo \cup S /\ fired' = fired
  BY <1>0 DEF CollectNothing, Unlocked, Excused
<1>2. mem'[bound] = m /\ file' = IF ok THEN m ELSE file BY <1>0, <1>1 DEF Save
<1>3. tick[bound].todo = {} /\ Own(bound) = {} BY <1>0, <1>1, NothingOwned DEF IInv, Rests
<1>4. tick'[bound].todo = {} BY <1>0, <1>1, <1>3 DEF Ticks
<1>5. Drawn = fired /\ Drawn' = fired BY <1>1, <1>3, <1>4 DEF Drawn
<1>6. FileGuarded' /\ MemGuarded'
  <2> SUFFICES ASSUME NEW j \in Jobs \ redo', NEW r \in {file'[j], m[j]}, Repeats(fired, j, r)
               PROVE  r.run /\ ~OneShot(j)
    BY <1>1, <1>2, <1>5, WrittenGuards
  <2>1. Repeats(fired, j, file[j]) /\ r.run = file[j].run
    BY <1>0, <1>1, <1>2, MaintainBars, AllCome DEF OnceInv
  <2> QED BY <1>1, <1>3, <1>5, <2>1, FreeFile DEF OnceInv, Guards
<1>7. Unbegun' BY <1>0, <1>1, <1>4 DEF Unbegun, IInv, Rests
<1> QED BY <1>6, <1>7 DEF Guards

LEMMA ApplyGuards ==
  ASSUME IInv, OnceInv, NEW S \in SUBSET Marked(file), NEW backoff \in Backoffs, NEW ok \in BOOLEAN,
         Apply(bound, S, backoff, ok)
  PROVE  Guards'
<1> DEFINE results == [j \in Jobs |-> IF j \in Got(bound)
                         THEN Applied(j, file[j], tick[bound].got[j], backoff) ELSE file[j]]
           m == Maintain(results, S)
<1>0. /\ TypeOK /\ bound \in Services /\ tick \in [Services -> Ticks] /\ file \in [Jobs -> Entry]
      /\ mem \in [Services -> [Jobs -> Entry]] /\ occ \in [Jobs -> Nat] /\ tick[bound] \in Ticks
  BY Parts DEF IInv
<1>1. /\ tick[bound].busy = {} /\ tick[bound].todo = {} /\ hold[bound].what = "none"
      /\ Save(bound, m, ok, S, 0) /\ tick' = [tick EXCEPT ![bound] = [Idle EXCEPT !.pc = "done"]]
      /\ hold' = hold /\ bound' = bound /\ fired' = fired
      /\ redo' = redo \cup (IF ok THEN S ELSE S \cup Got(bound))
  BY <1>0 DEF Apply, Unlocked, Excused
<1>2. results \in [Jobs -> Entry] BY <1>0, ResultsType
<1>3. Come(fired) BY AllCome DEF OnceInv
<1>4. \A j \in Got(bound) : ~Repeats(fired, j, results[j])
  <2>1. tick[bound].got \in [Jobs -> {"none", "ok", "error"}] BY <1>0, TickFields
  <2> QED BY <1>0, <1>3, <2>1, AppliedBars DEF Got
<1>5. \A j \in Jobs \ Got(bound) : results[j] = file[j] OBVIOUS
<1>6. mem'[bound] = m /\ file' = IF ok THEN m ELSE file BY <1>0, <1>1 DEF Save
<1> HIDE DEF results
<1>7. tick'[bound].todo = {} BY <1>0, <1>1, IdleTypes
<1>8. Drawn = fired /\ Drawn' = fired /\ Own(bound) = Got(bound)
  BY <1>1, <1>7 DEF Drawn, Own, Ids
<1>9. \A j \in Jobs \ (redo \cup Got(bound)) : Repeats(fired, j, file[j]) => file[j].run /\ ~OneShot(j)
  <2>1. Taken(bound) = {} BY <1>0, <1>1, NothingTaken DEF OnceInv
  <2> QED BY <1>8, <2>1 DEF OnceInv, Guards, FileGuarded
<1>10. FileGuarded' /\ MemGuarded'
  <2> SUFFICES ASSUME NEW j \in Jobs \ redo', NEW r \in {file'[j], m[j]}, Repeats(fired, j, r)
               PROVE  r.run /\ ~OneShot(j)
    BY <1>1, <1>6, <1>8, WrittenGuards
  <2>1. CASE r = m[j]
    <3>1. Repeats(fired, j, results[j]) /\ r.run = results[j].run
      BY <1>0, <1>1, <1>2, <1>3, <2>1, MaintainBars
    <3>2. j \notin Got(bound) BY <1>4, <3>1
    <3> QED BY <1>1, <1>5, <1>9, <3>1, <3>2
  <2>2. CASE r = file[j] /\ ~ok
    <3>1. j \notin Got(bound) BY <1>1, <2>2
    <3> QED BY <1>1, <1>9, <2>2, <3>1
  <2> QED BY <1>6, <2>1, <2>2
<1>11. Unbegun' BY <1>0, <1>1, <1>7 DEF Unbegun, IInv, Rests
<1> QED BY <1>10, <1>11 DEF Guards

LEMMA TickGuards == ASSUME IInv, OnceInv, Tick(bound) PROVE Guards'
BY QuietTickGuards, BeginGuards, CollectGuards, CollectNothingGuards, ApplyGuards DEF Tick

LEMMA StartGuards == ASSUME IInv, OnceInv, Start(bound) PROVE Guards'
<1> DEFINE m == [j \in Jobs |-> [file[j] EXCEPT !.run = FALSE]]
           missed == {j \in Jobs : Runnable(j, file[j]) /\ (OneShot(j) => file[j].last = "none")}
           todo == {[j |-> j, n |-> file[j].next] : j \in missed}
<1>0. /\ TypeOK /\ bound \in Services /\ hold \in [Services -> Holds] /\ file \in [Jobs -> Entry]
      /\ mem \in [Services -> [Jobs -> Entry]]
  BY Parts DEF IInv
<1>1. /\ mem' = [mem EXCEPT ![bound] = m] /\ file' = file /\ tick' = tick /\ bound' = bound
      /\ hold' = [hold EXCEPT ![bound] = [NoHold EXCEPT !.what = "start", !.todo = todo]]
      /\ fired' = fired /\ redo' = redo
  BY DEF Start, excuses
<1>2. Rested(bound) BY <1>0 DEF Start, IInv, Rests
<1>3. tick[bound].todo = {} /\ Own(bound) = {} /\ hold[bound].what = "none"
  BY <1>0, <1>2, NothingOwned DEF Rested, IInv, Rests
<1>4. mem'[bound] = m /\ \A j \in Jobs : m[j].on = file[j].on /\ m[j].next = file[j].next
  BY <1>0, <1>1 DEF Entry
<1>5. \A x \in todo : x.j \in missed /\ x.n = file[x.j].next OBVIOUS
<1> HIDE DEF m, todo
<1>6. hold'[bound].todo = todo /\ hold'[bound].what = "start" BY <1>0, <1>1 DEF NoHold
<1>7. Drawn = fired /\ Drawn' = fired BY <1>1, <1>3 DEF Drawn
<1>8. \A j \in Jobs \ redo : Repeats(fired, j, file[j]) => file[j].run /\ ~OneShot(j)
  BY <1>3, <1>7, FreeFile DEF OnceInv, Guards
<1>9. FileGuarded' BY <1>1, <1>7, <1>8 DEF FileGuarded
<1>10. MemGuarded'
  <2> SUFFICES ASSUME NEW j \in Jobs \ redo, Repeats(fired, j, m[j]) PROVE ~OneShot(j)
    BY <1>1, <1>4, <1>6, <1>7 DEF MemGuarded
  <2>1. Repeats(fired, j, file[j]) BY <1>4, RepeatsLike
  <2> QED BY <1>8, <2>1
<1>11. Unbegun'
  <2> SUFFICES ASSUME NEW x \in todo, x.j \notin redo, x.n > 0 PROVE x \notin fired
    BY <1>1, <1>3, <1>6 DEF Unbegun
  <2>1. x.j \in Jobs /\ Runnable(x.j, file[x.j]) /\ x.n = file[x.j].next BY <1>5
  <2>2. x \in fired => Repeats(fired, x.j, file[x.j]) BY <2>1 DEF Repeats, Runnable, Due
  <2> QED BY <1>8, <2>1, <2>2 DEF Runnable
<1> QED BY <1>9, <1>10, <1>11 DEF Guards

LEMMA StartFailsGuards ==
  ASSUME IInv, OnceInv, NEW read \in BOOLEAN, StartFails(bound, read) PROVE Guards'
<1>0. /\ TypeOK /\ bound \in Services /\ mem \in [Services -> [Jobs -> Entry]]
      /\ life \in [Services -> {"off", "starting", "on", "failed", "unread"}]
  BY Parts DEF IInv
<1>1. /\ life' = [life EXCEPT ![bound] = IF read THEN "failed" ELSE "unread"]
      /\ mem' = [mem EXCEPT ![bound] = IF read THEN file ELSE @]
      /\ file' = file /\ tick' = tick /\ hold' = hold /\ bound' = bound
      /\ fired' = fired /\ redo' = redo
  BY DEF StartFails, excuses
<1>2. Rested(bound) BY <1>0 DEF StartFails, IInv, Rests
<1>3. /\ Own(bound) = {} /\ hold[bound].what = "none"
      /\ tick[bound].todo = {} /\ hold[bound].todo = {}
  BY <1>0, <1>2, NothingOwned DEF Rested, IInv, Rests
<1>4. /\ Drawn' = Drawn /\ Own(bound)' = Own(bound) /\ Taken(bound)' = Taken(bound)
      /\ Ids(hold'[bound].busy) = Ids(hold[bound].busy)
  BY <1>1 DEF Drawn, Own, Got, Taken, Ids
<1>5. FileGuarded' BY <1>1, <1>4 DEF OnceInv, Guards, FileGuarded
<1>6. MemGuarded'
  <2>1. CASE ~read BY <1>0, <1>1, <2>1 DEF MemGuarded
  <2>2. CASE read
    <3>1. mem'[bound] = file BY <1>0, <1>1, <2>2
    <3>2. \A j \in Jobs \ redo : Repeats(Drawn, j, file[j]) => file[j].run /\ ~OneShot(j)
      BY <1>3, FreeFile DEF OnceInv, Guards
    <3> QED BY <1>1, <1>4, <3>1, <3>2 DEF MemGuarded
  <2> QED BY <2>1, <2>2
<1>7. Unbegun' BY <1>1, <1>3 DEF Unbegun
<1> QED BY <1>5, <1>6, <1>7 DEF Guards

(* With the lock free, an entry that a call sees and that repeats an       *)
(* occurrence is marked.                                                   *)
LEMMA StoreGuarded ==
  ASSUME IInv, OnceInv, life[bound] \in Open, hold[bound].what = "none",
         NEW j \in Jobs \ redo, Repeats(Drawn, j, Store(bound)[j])
  PROVE  Store(bound)[j].run /\ (OneShot(j) => j \in Own(bound))
<1>0. bound \in Services BY StoreFacts
<1>1. Taken(bound) = {} /\ Ids(hold[bound].busy) = {} BY <1>0, NothingTaken DEF OnceInv
<1>2. CASE life[bound] = "unread"
  <2>1. Store(bound) = file BY <1>2 DEF Store
  <2> QED BY <1>1, <2>1 DEF OnceInv, Guards, FileGuarded
<1>3. CASE life[bound] # "unread"
  <2>1. Store(bound) = mem[bound] /\ life[bound] \in {"on", "failed"} BY <1>3 DEF Store, Open
  <2> QED BY <1>1, <2>1 DEF OnceInv, Guards, MemGuarded
<1> QED BY <1>2, <1>3

(* What is read into memory is guarded there as well.                      *)
LEMMA LoadedGuards ==
  ASSUME IInv, OnceInv, life[bound] \in Open, hold[bound].what = "none",
         mem' = [mem EXCEPT ![bound] = Store(bound)], file' = file, bound' = bound,
         redo' = redo, Drawn' = Drawn, Own(bound)' = Own(bound),
         hold'[bound].busy = {}, hold'[bound].done = {}
  PROVE  FileGuarded' /\ MemGuarded'
<1>1. mem'[bound] = Store(bound) BY Parts DEF IInv
<1>2. bound \in Services BY StoreFacts
<1>3. Taken(bound) = {} BY <1>2, NothingTaken DEF OnceInv
<1>4. FileGuarded' BY <1>3 DEF OnceInv, Guards, FileGuarded
<1>5. MemGuarded' BY <1>1, StoreGuarded DEF MemGuarded
<1> QED BY <1>4, <1>5

LEMMA RefusedGuards == ASSUME IInv, OnceInv, Refused PROVE Guards'
<1>1. /\ life[bound] \in Open /\ Store(bound) = file /\ Unlocked
      /\ mem' = [mem EXCEPT ![bound] = Store(bound)]
      /\ file' = file /\ tick' = tick /\ hold' = hold /\ bound' = bound
      /\ fired' = fired /\ redo' = redo
  BY DEF Refused, Open, Store, excuses
<1>2. Drawn' = Drawn /\ Own(bound)' = Own(bound) BY <1>1 DEF Drawn, Own, Got
<1>3. hold[bound].what = "none" /\ hold[bound].busy = {} /\ hold[bound].done = {}
  BY <1>1, StoreFacts DEF Unlocked, OnceInv, Single, IInv, Rests
<1>4. FileGuarded' /\ MemGuarded' BY <1>1, <1>2, <1>3, LoadedGuards
<1>5. Unbegun' BY <1>1 DEF OnceInv, Guards, Unbegun
<1> QED BY <1>4, <1>5 DEF Guards

LEMMA RunNowGuards ==
  ASSUME IInv, OnceInv, NEW j \in Jobs, NEW force \in BOOLEAN, RunNow(j, force) PROVE Guards'
<1> DEFINE r == Store(bound)[j]
           x == [j |-> j, n |-> IF Due(j, r) THEN r.next ELSE 0]
<1>0. TypeOK /\ bound \in Services /\ hold \in [Services -> Holds] BY Parts DEF IInv
<1>1. /\ life[bound] \in Open /\ hold[bound].what = "none" /\ ~r.run
      /\ hold' = [hold EXCEPT ![bound] = [NoHold EXCEPT !.what = "run", !.todo = {x}]]
      /\ mem' = [mem EXCEPT ![bound] = Store(bound)] /\ file' = file /\ tick' = tick /\ bound' = bound
      /\ fired' = fired /\ redo' = redo
  BY <1>0 DEF RunNow, Running, Unlocked, excuses
<1>2. Drawn' = Drawn /\ Own(bound)' = Own(bound) BY <1>1 DEF Drawn, Own, Got
<1>3. /\ hold'[bound].todo = {x} /\ hold'[bound].busy = {} /\ hold'[bound].done = {}
      /\ hold'[bound].what = "run"
  BY <1>0, <1>1 DEF NoHold
<1>5. FileGuarded' /\ MemGuarded'
  BY <1>1, <1>2, <1>3, LoadedGuards
<1>6. x.j = j /\ (x.n > 0 => r.on /\ x.n = r.next) BY DEF Due
<1> HIDE DEF x
<1>7. Unbegun'
  <2>1. j \notin redo /\ x.n > 0 => x \notin Drawn
    <3> SUFFICES ASSUME j \notin redo, x.n > 0, x \in Drawn PROVE FALSE OBVIOUS
    <3>1. Repeats(Drawn, j, r) BY <1>6 DEF Repeats
    <3> QED BY <1>1, <3>1, StoreGuarded
  <2> QED BY <1>1, <1>3, <1>6, <2>1 DEF Unbegun, OnceInv, Guards, Drawn
<1> QED BY <1>5, <1>7 DEF Guards

LEMMA HoldBeginGuards == ASSUME IInv, OnceInv, HoldBegin(bound) PROVE Guards'
<1>0. /\ TypeOK /\ bound \in Services /\ hold \in [Services -> Holds] /\ hold[bound] \in Holds
      /\ mem \in [Services -> [Jobs -> Entry]]
  BY Parts DEF IInv
<1>1. PICK x \in hold[bound].todo :
        /\ hold' = [hold EXCEPT ![bound].todo = @ \ {x}, ![bound].busy = {x}]
        /\ mem' = [mem EXCEPT ![bound][x.j].run = TRUE]
        /\ fired' = fired \cup {x}
  BY DEF HoldBegin
<1>2. /\ hold[bound].busy = {} /\ file' = file /\ tick' = tick /\ life' = life /\ bound' = bound
      /\ redo' = redo
  BY DEF HoldBegin, excuses
<1>3. /\ hold'[bound].todo = hold[bound].todo \ {x} /\ hold'[bound].busy = {x}
      /\ hold'[bound].done = hold[bound].done /\ hold'[bound].what = hold[bound].what
  BY <1>0, <1>1 DEF Holds
<1>4. Drawn' = Drawn \cup {x} /\ Own(bound)' = Own(bound) BY <1>1, <1>2 DEF Drawn, Own, Got
<1>5. x.j \in Jobs BY <1>0, HoldFields, RunFields
<1>6. /\ mem'[bound][x.j].run
      /\ \A j \in Jobs \ {x.j} : mem'[bound][j] = mem[bound][j]
  BY <1>0, <1>1, <1>5 DEF Entry
<1>7. /\ Taken(bound) = hold[bound].done /\ Ids(hold[bound].busy) = {}
      /\ Taken(bound)' = hold[bound].done \cup {x.j} /\ Ids(hold'[bound].busy) = {x.j}
  BY <1>2, <1>3 DEF Taken, Ids
<1>8. \A j \in Jobs \ {x.j}, r \in Entry : Repeats(Drawn', j, r) => Repeats(Drawn, j, r)
  BY <1>4 DEF Repeats
<1>9. FileGuarded'
  <2> SUFFICES ASSUME NEW j \in Jobs \ redo, Repeats(Drawn', j, file[j]), j # x.j
               PROVE  /\ file[j].run \/ j \in Taken(bound)'
                      /\ OneShot(j) => j \in Own(bound)' \cup Taken(bound)'
    BY <1>2, <1>7 DEF FileGuarded
  <2>1. file[j] \in Entry BY <1>0, Parts
  <2>2. Repeats(Drawn, j, file[j]) BY <1>8, <2>1
  <2> QED BY <1>4, <1>7, <2>2 DEF OnceInv, Guards, FileGuarded
<1>10. MemGuarded'
  <2> SUFFICES ASSUME life[bound] \in {"on", "failed"}, NEW j \in Jobs \ redo, j # x.j,
                      Repeats(Drawn', j, mem[bound][j])
               PROVE  /\ mem[bound][j].run \/ (hold[bound].what # "none" /\ ~OneShot(j))
                      /\ OneShot(j) => j \in Own(bound)
    BY <1>2, <1>3, <1>4, <1>6, <1>7 DEF MemGuarded
  <2>1. mem[bound][j] \in Entry BY <1>0
  <2>2. Repeats(Drawn, j, mem[bound][j]) BY <1>8, <2>1
  <2> QED BY <1>7, <2>2 DEF OnceInv, Guards, MemGuarded
<1>11. Unbegun' BY <1>1, <1>2, <1>3 DEF OnceInv, Guards, Unbegun
<1> QED BY <1>9, <1>10, <1>11 DEF Guards

LEMMA HoldEndGuards == ASSUME IInv, OnceInv, HoldEnd(bound) PROVE Guards'
<1>0. /\ TypeOK /\ bound \in Services /\ hold \in [Services -> Holds] /\ hold[bound] \in Holds
      /\ mem \in [Services -> [Jobs -> Entry]] /\ occ \in [Jobs -> Nat]
  BY Parts DEF IInv
<1>1. PICK x \in hold[bound].busy, status \in {"ok", "error"}, backoff \in Backoffs :
        /\ hold' = [hold EXCEPT ![bound].busy = {}, ![bound].done = @ \cup {x.j}]
        /\ mem' = [mem EXCEPT ![bound][x.j] = Applied(x.j, @, status, backoff)]
  BY DEF HoldEnd
<1>2. /\ file' = file /\ tick' = tick /\ life' = life /\ bound' = bound
      /\ redo' = redo /\ fired' = fired
  BY DEF HoldEnd, excuses
<1>3. /\ hold'[bound].todo = hold[bound].todo /\ hold'[bound].busy = {}
      /\ hold'[bound].done = hold[bound].done \cup {x.j} /\ hold'[bound].what = hold[bound].what
  BY <1>0, <1>1 DEF Holds
<1>4. hold[bound].busy = {x} BY <1>0, <1>1 DEF OnceInv, Single
<1>5. Drawn' = Drawn /\ Own(bound)' = Own(bound) BY <1>2 DEF Drawn, Own, Got
<1>6. Taken(bound)' = Taken(bound) /\ Ids(hold[bound].busy) = {x.j}
  BY <1>2, <1>3, <1>4 DEF Taken, Ids
<1>7. x.j \in Jobs BY <1>0, HoldFields, RunFields
<1>8. /\ mem'[bound][x.j] = Applied(x.j, mem[bound][x.j], status, backoff)
      /\ \A j \in Jobs \ {x.j} : mem'[bound][j] = mem[bound][j]
  BY <1>0, <1>1, <1>7
<1>9. FileGuarded' BY <1>2, <1>5, <1>6 DEF OnceInv, Guards, FileGuarded
<1>10. MemGuarded'
  <2>1. mem[bound][x.j] \in Entry BY <1>0, <1>7
  <2>2. ~Repeats(Drawn, x.j, mem'[bound][x.j])
    BY <1>0, <1>7, <1>8, <2>1, AppliedBars, AllCome DEF OnceInv
  <2> SUFFICES ASSUME life[bound] \in {"on", "failed"}, NEW j \in Jobs \ redo, j # x.j,
                      Repeats(Drawn, j, mem[bound][j])
               PROVE  /\ mem[bound][j].run \/ (hold[bound].what # "none" /\ ~OneShot(j))
                      /\ OneShot(j) => j \in Own(bound)
    BY <1>2, <1>3, <1>5, <1>8, <2>2 DEF MemGuarded
  <2> QED BY <1>6 DEF OnceInv, Guards, MemGuarded
<1>11. Unbegun' BY <1>2, <1>3 DEF OnceInv, Guards, Unbegun
<1> QED BY <1>9, <1>10, <1>11 DEF Guards

LEMMA HoldFinishGuards ==
  ASSUME IInv, OnceInv, NEW S \in SUBSET Marked(mem[bound]), NEW ok \in BOOLEAN,
         HoldFinish(bound, S, ok), ~(Jobs \subseteq redo')
  PROVE  Guards'
<1> DEFINE m == Recompute(mem[bound], S)
<1>0. /\ TypeOK /\ bound \in Services /\ hold \in [Services -> Holds]
      /\ mem \in [Services -> [Jobs -> Entry]] /\ occ \in [Jobs -> Nat]
  BY Parts DEF IInv
<1>1. /\ ok /\ hold[bound].what # "none" /\ hold[bound].busy = {} /\ Save(bound, m, ok, S, 0)
      /\ hold' = [hold EXCEPT ![bound] = NoHold] /\ tick' = tick /\ bound' = bound
      /\ fired' = fired /\ redo' = redo \cup S
  BY DEF HoldFinish, Excused
<1>2. mem'[bound] = m /\ file' = m BY <1>0, <1>1 DEF Save
<1>3. Drawn' = Drawn /\ Own(bound)' = Own(bound) BY <1>1 DEF Drawn, Own, Got
<1>4. hold'[bound].todo = {} BY <1>0, <1>1, IdleTypes
<1>5. life[bound] \in {"on", "failed"}
  <2>1. ~Rested(bound) BY <1>1 DEF Rested
  <2> QED BY <1>0, <2>1 DEF IInv, Rests, TypeOK
<1>6. FileGuarded' /\ MemGuarded'
  <2> SUFFICES ASSUME NEW j \in Jobs \ (redo \cup S), Repeats(Drawn, j, m[j])
               PROVE  m[j].run /\ j \in Own(bound)
    BY <1>1, <1>2, <1>3, WrittenGuards
  <2>1. OneShot(j) /\ Repeats(Drawn, j, mem[bound][j]) /\ m[j].run = mem[bound][j].run
    BY <1>0, RecomputeBars, AllCome DEF OnceInv
  <2>2. Ids(hold[bound].busy) = {} BY <1>1 DEF Ids
  <2> QED BY <1>5, <2>1, <2>2 DEF OnceInv, Guards, MemGuarded
<1>7. Unbegun' BY <1>1, <1>4 DEF OnceInv, Guards, Unbegun
<1> QED BY <1>6, <1>7 DEF Guards

LEMMA HoldingGuards ==
  ASSUME IInv, OnceInv, Holding(bound), ~(Jobs \subseteq redo') PROVE Guards'
BY StartGuards, StartFailsGuards, HoldBeginGuards, HoldEndGuards, HoldFinishGuards DEF Holding

-----------------------------------------------------------------------------
(* What a call, a list or a status writes repeats nothing that memory does *)
(* not repeat.                                                             *)
LEMMA WriteGuards ==
  ASSUME IInv, OnceInv, NEW m, NEW S, NEW calls, Save(bound, m, TRUE, S, calls),
         life[bound] \in Open, Unlocked,
         tick' = tick, hold' = hold, bound' = bound, fired' = fired, redo \subseteq redo',
         \A j \in Jobs \ redo' : Repeats(Drawn, j, m[j]) =>
           Repeats(Drawn, j, Store(bound)[j]) /\ m[j].run = Store(bound)[j].run
  PROVE  Guards'
<1>0. bound \in Services /\ mem \in [Services -> [Jobs -> Entry]] BY DEF IInv, TypeOK
<1>1. mem'[bound] = m /\ file' = m BY <1>0 DEF Save
<1>2. Drawn' = Drawn /\ Own(bound)' = Own(bound) BY DEF Drawn, Own, Got
<1>3. hold[bound].what = "none" BY <1>0 DEF Unlocked
<1>5. FileGuarded' /\ MemGuarded'
  <2> SUFFICES ASSUME NEW j \in Jobs \ redo', Repeats(Drawn, j, m[j])
               PROVE  m[j].run /\ (OneShot(j) => j \in Own(bound))
    BY <1>1, <1>2, WrittenGuards
  <2> QED BY <1>3, StoreGuarded
<1>6. Unbegun' BY DEF OnceInv, Guards, Unbegun
<1> QED BY <1>5, <1>6 DEF Guards

LEMMA CallGuards ==
  ASSUME IInv, OnceInv, NEW m, NEW ok \in BOOLEAN, NEW S, NEW F, NEW C, Call(m, ok, S, F, C),
         ~(Jobs \subseteq redo'),
         \A j \in Jobs \ (redo \cup F) : Repeats(Drawn, j, m[j]) =>
           Repeats(Drawn, j, Store(bound)[j]) /\ m[j].run = Store(bound)[j].run
  PROVE  Guards'
<1>1. ok = TRUE /\ redo' = redo \cup F BY DEF Call, Excused
<1>2. /\ Save(bound, m, TRUE, S, 1) /\ life[bound] \in Open /\ Unlocked
      /\ tick' = tick /\ hold' = hold /\ bound' = bound /\ fired' = fired
  BY <1>1 DEF Call
<1> QED BY <1>1, <1>2, WriteGuards

LEMMA UserGuards ==
  ASSUME IInv, OnceInv, NEW j \in Jobs, NEW ok \in BOOLEAN, User(j, ok), ~(Jobs \subseteq redo')
  PROVE  Guards'
<1>0. /\ TypeOK /\ bound \in Services /\ Store(bound) \in [Jobs -> Entry] /\ occ \in [Jobs -> Nat]
      /\ Come(Drawn)
  BY Parts, StoreFacts, AllCome DEF IInv, OnceInv
<1>1. ASSUME NEW S \in SUBSET Marked(Store(bound)), Add(j, S, ok) PROVE Guards'
  <2> DEFINE a == [Store(bound) EXCEPT ![j] = NewJob(j)]
             m == Recompute(a, S)
  <2>1. Call(m, ok, S, S, S) /\ j \notin born BY <1>1 DEF Add
  <2>2. a \in [Jobs -> Entry] /\ \A i \in Jobs \ {j} : a[i] = Store(bound)[i]
    BY <1>0, NewJobType
  <2>3. ~\E x \in Drawn : x.j = j
    BY <1>0, <2>1 DEF OnceInv, Past, Came, Drawn
  <2> HIDE DEF a
  <2>4. ASSUME NEW i \in Jobs \ (redo \cup S), Repeats(Drawn, i, m[i])
        PROVE  Repeats(Drawn, i, Store(bound)[i]) /\ m[i].run = Store(bound)[i].run
    <3>1. Repeats(Drawn, i, a[i]) /\ m[i].run = a[i].run
      BY <1>0, <2>2, <2>4, RecomputeBars
    <3>2. i # j BY <2>3, <3>1 DEF Repeats
    <3> QED BY <2>2, <3>1, <3>2
  <2> HIDE DEF m
  <2> QED BY <2>1, <2>4, CallGuards
<1>2. ASSUME NEW patch \in {"enable", "disable", "other"}, Update(j, patch, ok) PROVE Guards'
  <2> DEFINE r == Store(bound)[j]
             m == [Store(bound) EXCEPT ![j] = Updated(j, r, patch)]
             F == {i \in {j} : patch = "enable" /\ OneShot(i)}
  <2>1. PICK C : Call(m, ok, {}, F, C) BY <1>2 DEF Update
  <2>2. r \in Entry BY <1>0
  <2>3. m[j] = Updated(j, r, patch) /\ \A i \in Jobs \ {j} : m[i] = Store(bound)[i] BY <1>0
  <2>4. j \notin F => (patch = "enable" => ~OneShot(j)) OBVIOUS
  <2> HIDE DEF m, F
  <2>5. ASSUME NEW i \in Jobs \ (redo \cup F), Repeats(Drawn, i, m[i])
        PROVE  Repeats(Drawn, i, Store(bound)[i]) /\ m[i].run = Store(bound)[i].run
    <3>1. CASE i = j
      <4>1. /\ Repeats(Drawn, j, Updated(j, r, patch)) /\ (patch = "enable" => ~OneShot(j))
        BY <2>3, <2>4, <2>5, <3>1
      <4> HIDE DEF r
      <4>2. Repeats(Drawn, j, r) /\ Updated(j, r, patch).run = r.run
        BY <1>0, <2>2, <4>1, UpdatedBars
      <4> USE DEF r
      <4> QED BY <2>3, <3>1, <4>2
    <3>2. CASE i # j BY <2>3, <2>5, <3>2
    <3> QED BY <3>1, <3>2
  <2> QED BY <2>1, <2>5, CallGuards
<1>3. ASSUME NEW S \in SUBSET Marked(Store(bound)), Remove(j, S, ok) PROVE Guards'
  <2> DEFINE a == IF life[bound] = "unread" THEN Recompute(file, S) ELSE mem[bound]
             m == [a EXCEPT ![j] = NoJob]
  <2>1. Call(m, ok, S, S, S \cup {j}) /\ (S # {} => life[bound] = "unread") BY <1>3 DEF Remove
  <2>2. a \in [Jobs -> Entry] BY <2>1, RecomputedStore DEF Marked
  <2>3. ASSUME NEW i \in Jobs \ (redo \cup S), Repeats(Drawn, i, a[i])
        PROVE  Repeats(Drawn, i, Store(bound)[i]) /\ a[i].run = Store(bound)[i].run
    <3>1. CASE life[bound] = "unread"
      <4>1. a = Recompute(file, S) /\ Store(bound) = file BY <3>1 DEF Store
      <4> HIDE DEF a
      <4> QED BY <1>0, <2>3, <4>1, RecomputeBars
    <3>2. CASE life[bound] # "unread" BY <2>3, <3>2 DEF Store
    <3> QED BY <3>1, <3>2
  <2> HIDE DEF a
  <2>4. m[j] = NoJob /\ \A i \in Jobs \ {j} : m[i] = a[i] BY <2>2
  <2> HIDE DEF m
  <2>5. ASSUME NEW i \in Jobs \ (redo \cup S), Repeats(Drawn, i, m[i])
        PROVE  Repeats(Drawn, i, Store(bound)[i]) /\ m[i].run = Store(bound)[i].run
    <3>1. i # j BY <2>4, <2>5 DEF Repeats, NoJob
    <3> QED BY <2>3, <2>4, <2>5, <3>1
  <2> QED BY <2>1, <2>5, CallGuards
<1> QED BY <1>1, <1>2, <1>3 DEF User

LEMMA ReadGuards ==
  ASSUME IInv, OnceInv, NEW S \in SUBSET Marked(Store(bound)), NEW ok \in BOOLEAN, Read(S, ok),
         ~(Jobs \subseteq redo')
  PROVE  Guards'
<1> DEFINE m == Maintain(Store(bound), S)
<1>0. /\ TypeOK /\ Store(bound) \in [Jobs -> Entry] /\ occ \in [Jobs -> Nat] /\ Come(Drawn)
  BY Parts, StoreFacts, AllCome DEF IInv, OnceInv
<1>1. ok = TRUE /\ redo' = redo \cup S BY DEF Read, Excused
<1>2. /\ Save(bound, m, TRUE, S, 0) /\ life[bound] \in Open /\ Unlocked
      /\ tick' = tick /\ hold' = hold /\ bound' = bound /\ fired' = fired
  BY <1>1 DEF Read
<1>3. \A j \in Jobs \ redo' : Repeats(Drawn, j, m[j]) =>
        Repeats(Drawn, j, Store(bound)[j]) /\ m[j].run = Store(bound)[j].run
  BY <1>0, <1>1, MaintainBars
<1> HIDE DEF m
<1> QED BY <1>1, <1>2, <1>3, WriteGuards

-----------------------------------------------------------------------------
(* The service of the request handlers is another one, and neither of them *)
(* does anything: what was taken from the file is marked in it.            *)
LEMMA IdleGuards ==
  ASSUME IInv, OnceInv, tick[bound].pc = "idle", hold[bound].what = "none",
         NEW s \in Services, Rested(s), bound' = s,
         tick' = tick, hold' = hold, life'[s] = "starting", file' = file, fired' = fired,
         redo \subseteq redo'
  PROVE  Guards'
<1>0. bound \in Services BY DEF IInv, TypeOK
<1>1. /\ tick[bound].todo = {} /\ tick[s].todo = {} /\ hold[s].todo = {}
      /\ Own(bound) = {} /\ Taken(bound) = {}
  BY <1>0, NothingOwned, NothingTaken DEF Rested, OnceInv, IInv, Rests
<1>2. Drawn' = Drawn BY <1>1 DEF Drawn
<1>3. FileGuarded' BY <1>1, <1>2 DEF OnceInv, Guards, FileGuarded
<1>4. MemGuarded' BY DEF MemGuarded
<1>5. Unbegun' BY <1>1 DEF Unbegun
<1> QED BY <1>3, <1>4, <1>5 DEF Guards

(* The process dies.  The marker of a recurring job stays in the file; the *)
(* result of a job that held the lock, or of a one-shot job, is lost.      *)
LEMMA CrashGuards == ASSUME IInv, OnceInv, Crash PROVE Guards'
<1> DEFINE held == UNION {Ids(hold[s].busy) \cup hold[s].done : s \in Services}
           once == {j \in UNION {InHand(s) : s \in Services} : OneShot(j)}
<1>0. /\ TypeOK /\ bound \in Services /\ tick[bound] \in Ticks /\ occ \in [Jobs -> Nat]
      /\ fired \subseteq Run
  <2>1. TypeOK BY DEF IInv
  <2> QED BY <2>1, Parts DEF TypeOK
<1>1. /\ redo' = redo \cup (held \cup once)
      /\ life' = [s \in Services |-> "off"] /\ bound' = bound /\ file' = file /\ fired' = fired
      /\ tick' = [s \in Services |-> Idle] /\ hold' = [s \in Services |-> NoHold]
  BY DEF Crash, Excused
<1>2. Taken(bound) \subseteq held BY <1>0 DEF Taken
<1>3. ASSUME NEW j \in Ids(tick[bound].busy) \cup Got(bound), OneShot(j) PROVE j \in once
  <2>1. j \in InHand(bound) BY DEF InHand, Ids
  <2> QED BY <1>0, <1>3, <2>1
<1> HIDE DEF held, once
<1>4. tick'[bound].todo = {} /\ hold'[bound].todo = {} BY <1>0, <1>1, IdleTypes
<1>5. Drawn' = fired BY <1>1, <1>4 DEF Drawn
<1>6. FileGuarded'
  <2> SUFFICES ASSUME NEW j \in Jobs \ redo', Repeats(fired, j, file[j])
               PROVE  file[j].run /\ ~OneShot(j)
    BY <1>1, <1>5 DEF FileGuarded
  <2>1. Repeats(Drawn, j, file[j]) BY DEF Repeats, Drawn
  <2>2. j \notin Taken(bound) BY <1>1, <1>2
  <2>3. file[j].run /\ (OneShot(j) => j \in Own(bound))
    BY <1>1, <2>1, <2>2 DEF OnceInv, Guards, FileGuarded
  <2>4. SUFFICES ASSUME OneShot(j) PROVE FALSE BY <2>3
  <2>5. PICK x \in tick[bound].todo : x.j = j
    <3>1. j \in Ids(tick[bound].todo \cup tick[bound].busy) \cup Got(bound)
      BY <2>3, <2>4 DEF Own
    <3>2. j \notin Ids(tick[bound].busy) \cup Got(bound) BY <1>1, <1>3, <2>4
    <3> QED BY <3>1, <3>2 DEF Ids
  <2>6. PICK y \in fired : y.j = j /\ y.n > 0 BY DEF Repeats
  <2>7. x.n > 0 /\ x.n <= occ[j] /\ y.n <= occ[j] /\ occ[j] <= 1
    BY <1>0, <2>4, <2>5, <2>6 DEF OnceInv, Past, Came
  <2>8. x \in Run /\ y \in Run BY <1>0, <2>5, TickFields
  <2>9. x.n \in Nat /\ y.n \in Nat /\ occ[j] \in Nat BY <1>0, <2>8, RunFields
  <2>10. x.n = y.n BY <2>6, <2>7, <2>9
  <2>11. x = y BY <2>5, <2>6, <2>8, <2>10 DEF Run
  <2> QED BY <1>1, <2>5, <2>7, <2>11 DEF OnceInv, Guards, Unbegun
<1>7. MemGuarded' BY <1>0, <1>1 DEF MemGuarded
<1>8. Unbegun' BY <1>1, <1>4 DEF Unbegun
<1> QED BY <1>6, <1>7, <1>8 DEF Guards

(* Time, and a step of nobody, change nothing the guards look at.          *)
LEMMA StillGuards ==
  ASSUME OnceInv, UNCHANGED <<store, control, fired, excuses>> PROVE Guards'
<1>1. /\ file' = file /\ mem' = mem /\ life' = life /\ tick' = tick /\ hold' = hold
      /\ bound' = bound /\ fired' = fired /\ redo' = redo
  BY DEF store, control, excuses
<1>2. /\ Drawn' = Drawn /\ Own(bound)' = Own(bound) /\ Taken(bound)' = Taken(bound)
      /\ Ids(hold'[bound].busy) = Ids(hold[bound].busy)
  BY <1>1 DEF Drawn, Own, Got, Taken, Ids
<1> QED BY <1>1, <1>2 DEF OnceInv, Guards, FileGuarded, MemGuarded, Unbegun

LEMMA GuardsStep == ASSUME IInv, OnceInv, [Next]_vars PROVE Guards'
<1>0. IInv' /\ TypeOK' BY StepIInv DEF IInv
<1>1. CASE Jobs \subseteq redo' BY <1>0, <1>1, Pardoned
<1>2. CASE ~(Jobs \subseteq redo')
  <2>0. TypeOK /\ bound \in Services BY DEF IInv, TypeOK
  <2>1. ASSUME NEW s \in Services, Tick(s) \/ Holding(s) PROVE Guards'
    <3>1. redo \subseteq redo' /\ (~Rested(s) \/ life[s] = "starting") BY <2>1, Locally
    <3>2. s = bound BY <1>2, <3>1, Acting DEF OnceInv
    <3> QED BY <1>2, <2>1, <3>2, TickGuards, HoldingGuards
  <2>2. ASSUME NEW s \in Services PROVE ~Reload(s) BY <1>2 DEF Reload, Excused
  <2>3. ASSUME NEW s \in Services, Restart(s) PROVE Guards'
    <3>1. Quiet /\ redo \subseteq redo' BY <1>2, <2>3 DEF Restart, Excused
    <3>2. /\ life[bound] # "off" /\ life[s] = "off" /\ life' = [life EXCEPT ![s] = "starting"]
          /\ armed' = [armed EXCEPT ![bound] = FALSE] /\ bound' = s
          /\ tick' = tick /\ hold' = hold /\ file' = file /\ fired' = fired
      BY <2>3 DEF Restart, Replace, store
    <3>3. Rested(s) /\ life'[s] = "starting" BY <2>0, <3>2 DEF IInv, Rests, TypeOK
    <3>4. tick[bound].pc = "idle" /\ hold[bound].what = "none" BY <2>0, <3>1 DEF Quiet
    <3> QED BY <2>0, <3>1, <3>2, <3>3, <3>4, IdleGuards
  <2>4. ASSUME NEW j \in Jobs, Pass(j) PROVE Guards'
    BY <2>4, StillGuards DEF Pass
  <2>5. ASSUME NEW j \in Jobs, NEW ok \in BOOLEAN, User(j, ok) PROVE Guards'
    BY <1>2, <2>5, UserGuards
  <2>6. ASSUME NEW j \in Jobs, NEW force \in BOOLEAN, RunNow(j, force) PROVE Guards'
    BY <2>6, RunNowGuards
  <2>7. ASSUME NEW S \in SUBSET Marked(Store(bound)), NEW ok \in BOOLEAN, Read(S, ok) PROVE Guards'
    BY <1>2, <2>7, ReadGuards
  <2>8. CASE Boot
    <3>1. /\ \A s \in Services : Rested(s) /\ bound' = First
          /\ life' = [life EXCEPT ![First] = "starting"]
          /\ tick' = tick /\ hold' = hold /\ file' = file /\ fired' = fired /\ redo' = redo
      BY <2>8 DEF Boot, IInv, Rests, store, excuses
    <3>2. life'[First] = "starting" BY <3>1, Given DEF IInv, TypeOK
    <3> QED BY <2>0, <3>1, <3>2, Given, IdleGuards DEF Rested
  <2>9. CASE Crash BY <2>9, CrashGuards
  <2>10. CASE UNCHANGED vars BY <2>10, StillGuards DEF vars
  <2>11. CASE Refused BY <2>11, RefusedGuards
  <2> QED BY <2>1, <2>2, <2>3, <2>4, <2>5, <2>6, <2>7, <2>8, <2>9, <2>10, <2>11 DEF Next
<1> QED BY <1>1, <1>2

LEMMA InitOnce == Init => OnceInv
<1> SUFFICES ASSUME Init PROVE OnceInv OBVIOUS
<1>1. /\ tick = [s \in Services |-> Idle] /\ hold = [s \in Services |-> NoHold]
      /\ life = [s \in Services |-> "off"] /\ armed = [s \in Services |-> FALSE]
      /\ bound = First /\ occ = [j \in Jobs |-> 0] /\ fired = {}
  BY DEF Init
<1>2. NoHold.done = {} BY DEF NoHold
<1>3. Past BY <1>1, IdleTypes DEF Past
<1>4. Single BY <1>1, <1>2, IdleTypes DEF Single
<1>5. Sole BY <1>1, IdleTypes DEF Sole, Rested
<1>6. Drawn = {} /\ tick[bound].todo = {} /\ hold[bound].todo = {}
  BY <1>1, Given, IdleTypes DEF Drawn
<1>7. Guards BY <1>6 DEF Guards, FileGuarded, MemGuarded, Unbegun, Repeats
<1> QED BY <1>3, <1>4, <1>5, <1>7 DEF OnceInv

LEMMA OnceStep == IInv /\ OnceInv /\ [Next]_vars => OnceInv'
BY PastStep, SoleStep, GuardsStep DEF OnceInv

(* An occurrence is executed once, by whatever tick, start or manual run,  *)
(* through any crashes, restarts and failing writes, except where its      *)
(* result was lost in one of the ways that redo counts.                    *)
THEOREM ExecutedOnce == Spec => OccurrenceOnce
<1>1. Spec => [](IInv /\ OnceInv) BY InitIInv, InitOnce, StepIInv, OnceStep, PTL DEF Spec
<1>2. IInv /\ OnceInv /\ [Next]_vars =>
        [\A x \in Started : x.n > 0 /\ x \in fired => x.j \in redo]_vars
  <2> SUFFICES ASSUME IInv, OnceInv, [Next]_vars, NEW s \in Services,
                      NEW x \in Busy(s)' \ Busy(s), x.n > 0, x \in fired
               PROVE  x.j \in redo
    BY DEF Started
  <2>1. x \in tick[s].todo \cup hold[s].todo
    <3>1. Proceeds(s) BY AnyProgress DEF Progress
    <3> QED BY <3>1 DEF Proceeds, Busy
  <2>2. CASE Jobs \subseteq redo
    <3>1. x.j \in Jobs BY <2>1 DEF IInv, TypeOK, Run
    <3> QED BY <2>2, <3>1
  <2>3. CASE ~(Jobs \subseteq redo)
    <3>1. ~Rested(s) BY <2>1 DEF Rested, IInv, Rests
    <3>2. s = bound BY <2>3, <3>1, Acting DEF OnceInv
    <3> QED BY <2>1, <3>2 DEF OnceInv, Guards, Unbegun
  <2> QED BY <2>2, <2>3
<1> QED BY <1>1, <1>2, PTL DEF Spec, OccurrenceOnce
-----------------------------------------------------------------------------
(* The arithmetic of schedules.                                            *)
LEMMA Divided ==
  ASSUME NEW x \in Nat, NEW e \in Nat \ {0}
  PROVE  /\ x \div e \in Nat
         /\ (x \div e) * e <= x /\ x < (x \div e) * e + e
OBVIOUS

LEMMA MoreTimes ==
  ASSUME NEW a \in Nat, NEW b \in Nat, NEW e \in Nat, a <= b
  PROVE  a * e \in Nat /\ a * e <= b * e
OBVIOUS

LEMMA OnceMore ==
  ASSUME NEW a \in Int, NEW e \in Int
  PROVE  a * e \in Int /\ (a + 1) * e = a * e + e
OBVIOUS

LEMMA Settings ==
  ASSUME NEW everyMs \in Int, NEW anchorMs \in Int
  PROVE  Period(everyMs) \in Nat \ {0} /\ Anchor(anchorMs) \in Nat
BY DEF Period, Anchor, AtLeast

(* From an anchor on: the next run is less than a period away.             *)
LEMMA StepsNear ==
  ASSUME NEW d \in Nat, NEW e \in Nat \ {0}
  PROVE  LET s == Steps(d, e)
         IN  /\ s \in Nat \ {0} /\ s * e >= d
             /\ s # 1 => s * e < d + e
<1> DEFINE q == (d + e - 1) \div e
<1>1. d + e - 1 \in Nat OBVIOUS
<1>2. q \in Nat /\ q * e <= d + e - 1 /\ d + e - 1 < q * e + e BY <1>1, Divided
<1>3. q * e \in Int BY <1>2
<1>4. CASE q < 1
  <2>1. q = 0 /\ q * e = 0 BY <1>2, <1>4
  <2>2. d = 0 BY <1>2, <2>1
  <2>3. Steps(d, e) = 1 BY <1>4 DEF Steps, AtLeast
  <2> QED BY <2>2, <2>3
<1>5. CASE ~(q < 1)
  <2>1. Steps(d, e) = q BY <1>5 DEF Steps, AtLeast
  <2> HIDE DEF q
  <2> QED BY <1>2, <1>3, <1>5, <2>1
<1> QED BY <1>4, <1>5

(* The next run of a schedule is the first of its occurrences that is not  *)
(* past, whatever period and anchor are configured; only the anchor itself *)
(* is never one once it has come.  No occurrence is passed over, and none  *)
(* is brought back (computeNextRunAtMs).                                   *)
THEOREM NextEveryIsFirst ==
  ASSUME NEW everyMs \in Int, NEW anchorMs \in Int, NEW nowMs \in Nat
  PROVE  LET next == NextEvery(everyMs, anchorMs, nowMs)
             Occ(k) == Occurrence(everyMs, anchorMs, k)
         IN  /\ next >= nowMs
             /\ \E k \in Nat : next = Occ(k) /\ (k = 0 => nowMs < next)
             /\ \A k \in Nat : Occ(k) >= nowMs /\ Occ(k) < next => k = 0 /\ nowMs = Occ(0)
<1> DEFINE e == Period(everyMs)
           a == Anchor(anchorMs)
           d == nowMs - a
           s == Steps(d, e)
           next == NextEvery(everyMs, anchorMs, nowMs)
           Occ(k) == Occurrence(everyMs, anchorMs, k)
           Found == \E k \in Nat : next = Occ(k) /\ (k = 0 => nowMs < next)
           Earliest == \A k \in Nat : Occ(k) >= nowMs /\ Occ(k) < next => k = 0 /\ nowMs = Occ(0)
<1> SUFFICES next >= nowMs /\ Found /\ Earliest OBVIOUS
<1>1. e \in Nat \ {0} /\ a \in Nat /\ d \in Int BY Settings
<1>2. Occ(0) = a /\ \A k \in Nat : Occ(k) = a + k * e /\ Occ(k) \in Nat /\ Occ(k) >= a
  BY <1>1, MoreTimes DEF Occurrence
<1>3. CASE nowMs < a
  <2>1. next = a BY <1>3 DEF NextEvery
  <2> HIDE DEF next, Occ, e, a
  <2>2. next >= nowMs BY <1>1, <1>3, <2>1
  <2>3. Found BY <1>2, <1>3, <2>1
  <2>4. Earliest BY <1>1, <1>2, <2>1
  <2> QED BY <2>2, <2>3, <2>4
<1>4. CASE ~(nowMs < a)
  <2>1. next = a + s * e BY <1>4 DEF NextEvery
  <2>2. d \in Nat /\ nowMs = a + d BY <1>1, <1>4
  <2>3. s \in Nat \ {0} /\ s * e >= d /\ (s # 1 => s * e < d + e)
    BY <1>1, <2>2, StepsNear
  <2> HIDE DEF s, d, e, a, next, Occ
  <2>4. s * e \in Nat BY <1>1, <2>3, MoreTimes
  <2>5. next = Occ(s) BY <1>2, <2>1, <2>3
  <2>6. ASSUME NEW k \in Nat, Occ(k) >= nowMs, Occ(k) < next
        PROVE  k = 0 /\ nowMs = Occ(0)
    <3>1. k * e \in Nat /\ k * e >= d /\ k * e < s * e
      BY <1>1, <1>2, <2>1, <2>2, <2>4, <2>6, MoreTimes
    <3>2. k < s
      <4>1. ASSUME s <= k PROVE FALSE
        BY <1>1, <2>3, <3>1, <4>1, MoreTimes
      <4> QED BY <2>3, <4>1
    <3>3. (k + 1) * e <= s * e /\ (k + 1) * e = k * e + e
      BY <1>1, <2>3, <3>2, MoreTimes, OnceMore
    <3>4. s = 1
      BY <1>1, <2>2, <2>3, <2>4, <3>1, <3>3
    <3>5. k = 0 BY <2>3, <3>2, <3>4
    <3>6. d = 0 BY <1>1, <2>2, <3>1, <3>5
    <3> QED BY <1>1, <1>2, <2>2, <3>5, <3>6
  <2>7. next >= nowMs BY <1>1, <2>1, <2>2, <2>3, <2>4
  <2>8. Found BY <2>3, <2>5
  <2> QED BY <2>6, <2>7, <2>8
<1> QED BY <1>3, <1>4

(* CronService counts the occurrences that have come, and takes the one    *)
(* after them for the next run (NextRun).  This is what the arithmetic of  *)
(* the code gives for every period, anchor and clock, unless the job is    *)
(* looked at in the very millisecond of an occurrence.                     *)
THEOREM NextEveryIsToCome ==
  ASSUME NEW everyMs \in Int, NEW anchorMs \in Int, NEW nowMs \in Nat
  PROVE  NextIsToCome(everyMs, anchorMs, nowMs)
<1> DEFINE e == Period(everyMs)
           a == Anchor(anchorMs)
           d == nowMs - a
           k == LastCome(everyMs, anchorMs, nowMs)
           next == NextEvery(everyMs, anchorMs, nowMs)
           dot == OnTheDot(everyMs, anchorMs, nowMs)
<1>1. e \in Nat \ {0} /\ a \in Nat /\ d \in Int BY Settings
<1>2. CASE nowMs < a BY <1>2 DEF NextIsToCome, NextEvery
<1>3. CASE ~(nowMs < a)
  <2>1. d \in Nat /\ nowMs = a + d BY <1>1, <1>3
  <2>2. k \in Nat /\ k * e <= d /\ d < k * e + e BY <1>1, <2>1, Divided DEF LastCome
  <2>3. k * e \in Nat /\ (k + 1) * e = k * e + e /\ k <= k * e
    BY <1>1, <2>2, MoreTimes, OnceMore
  <2>4. next = a + Steps(d, e) * e BY <1>3 DEF NextEvery
  <2>5. dot <=> k > 0 /\ d = k * e
    <3>1. ASSUME NEW i \in 1..nowMs, nowMs = a + i * e PROVE k = i
      <4>1. i * e = d BY <1>1, <2>1, <3>1, MoreTimes
      <4>2. ASSUME i < k PROVE FALSE
        BY <1>1, <2>2, <4>1, <4>2, MoreTimes, OnceMore
      <4>3. ASSUME k < i PROVE FALSE
        <5>1. (k + 1) * e <= i * e BY <1>1, <2>2, <4>3, MoreTimes
        <5> QED BY <1>1, <2>2, <2>3, <4>1, <5>1
      <4> QED BY <2>2, <4>2, <4>3
    <3>2. ASSUME k > 0, d = k * e PROVE k \in 1..nowMs /\ nowMs = a + k * e
      BY <1>1, <2>1, <2>2, <2>3, <3>2
    <3>3. dot <=> \E i \in 1..nowMs : nowMs = a + i * e BY DEF OnTheDot, Occurrence
    <3> HIDE DEF k, dot, a, e, d
    <3>4. ASSUME NEW i \in 1..nowMs, nowMs = a + i * e PROVE k > 0 /\ d = k * e
      <4>1. k = i BY <3>1, <3>4
      <4> QED BY <1>1, <2>1, <2>3, <3>4, <4>1
    <3> QED BY <3>2, <3>3, <3>4
  <2>6. (d + e - 1) \div e = IF d = k * e THEN k ELSE k + 1
    <3> DEFINE q == (d + e - 1) \div e
    <3>1. q \in Nat /\ q * e <= d + e - 1 /\ d + e - 1 < q * e + e
      BY <1>1, <2>1, Divided
    <3> HIDE DEF q, d, e, k
    <3>2. (q + 1) * e = q * e + e /\ q * e \in Nat BY <1>1, <3>1, MoreTimes, OnceMore
    <3>3. (k + 2) * e = k * e + e + e BY <1>1, <2>2, OnceMore
    <3>4. ASSUME q < k PROVE FALSE
      <4>1. (q + 1) * e <= k * e BY <1>1, <2>2, <3>1, <3>4, MoreTimes
      <4> QED BY <1>1, <2>1, <2>2, <2>3, <3>1, <3>2, <4>1
    <3>5. ASSUME q > k + 1 PROVE FALSE
      <4>1. (k + 2) * e <= q * e BY <1>1, <2>2, <3>1, <3>5, MoreTimes
      <4> QED BY <1>1, <2>1, <2>2, <2>3, <3>1, <3>2, <3>3, <4>1
    <3>6. q = k => d = k * e BY <1>1, <2>1, <2>2, <2>3, <3>1
    <3>7. q = k + 1 => d # k * e BY <1>1, <2>1, <2>2, <2>3, <3>1
    <3>8. q = IF d = k * e THEN k ELSE k + 1
      BY <2>2, <3>1, <3>4, <3>5, <3>6, <3>7
    <3> QED BY <3>8 DEF q
  <2>7. Steps(d, e) = IF dot THEN k ELSE k + 1
    <3> HIDE DEF k, dot, e, d
    <3> QED BY <1>1, <2>2, <2>5, <2>6 DEF Steps, AtLeast
  <2>8. next = a + (IF dot THEN k ELSE k + 1) * e BY <2>4, <2>7
  <2> QED BY <1>3, <2>8 DEF NextIsToCome, Occurrence
<1> QED BY <1>2, <1>3
=============================================================================
