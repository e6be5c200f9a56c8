------------------------------- MODULE Outbox -------------------------------
(***************************************************************************)
(* The notification outbox of one agent.  Rows are put into it by the idle *)
(* loop's tick (due reminders, memory milestones) and by the consolidation *)
(* and DMN loops; the delivery worker pushes the rows routed to Telegram;  *)
(* handlers of POST /context/assemble inject the passive rows into the     *)
(* next prompt.  All are coroutines of one event loop; they read rows or   *)
(* preferences in one statement and act on them in later ones, with no     *)
(* transaction.                                                            *)
(*                                                                         *)
(* pushed, shown and told are history: what the user and the prompt have   *)
(* really seen, and what enqueue returned for a source.                    *)
(***************************************************************************)
EXTENDS Integers, FiniteSets

CONSTANTS
  Reminders,     \* memories with a remind_at
  Milestones,    \* thresholds of the memory count
  Notes,         \* ids of outbox rows
  OtherNotes,    \* those the consolidation and DMN loops get
  Handlers,      \* concurrent POST /context/assemble
  Preferences,   \* what notification_preferences may say
  DueLimit, PushLimit, PassiveLimit,   \* the LIMITs: 10, 10 and 3 in the code
  MaxFaults      \* bound: failures and restarts

Sources == Reminders \cup Milestones
ASSUME SourcesAssumption == Reminders \cap Milestones = {}
ASSUME NotesAssumption == OtherNotes \subseteq Notes
ASSUME HandlersAssumption == IsFiniteSet(Handlers)
ASSUME PreferencesAssumption ==
  /\ Preferences # {}
  /\ Preferences \subseteq [on : BOOLEAN, push : SUBSET {"urgent", "other"}, quiet : BOOLEAN]
ASSUME LimitsAssumption ==
  DueLimit \in Nat \ {0} /\ PushLimit \in Nat \ {0} /\ PassiveLimit \in Nat \ {0}
ASSUME FaultsAssumption == MaxFaults \in Nat

VARIABLES
  prefs,                   \* notification_preferences
  status, channel, source, \* notification_outbox; "none" before the INSERT
  late,                    \* rows whose expires_at has passed
  remind, live, boosted,   \* memories: remind_at, NOT archived, importance = 1.0
  logged,                  \* consolidation_log
  tpc, due, cur, seen,     \* the tick of the idle loop
  oseen,                   \* one enqueue of another loop: the route it has read
  wpc, wq, wcur, wsnap, wok,   \* the delivery worker
  hmark, hshow,            \* one handler: rows to mark, rows in its prompt
  pushed, shown, told, faults

memory == <<remind, live, boosted, logged>>
box == <<status, channel, source, late>>
tick == <<tpc, due, cur, seen>>
worker == <<wpc, wq, wcur, wsnap, wok>>
handlers == <<hmark, hshow>>
history == <<pushed, shown, told, faults>>
vars == <<prefs, box, memory, tick, oseen, worker, handlers, history>>

\* mutant of Pending: the status is not in the WHERE
PendingAny(ch) == {n \in Notes : status[n] # "none" /\ channel[n] = ch /\ n \notin late}

Pending(ch) == {n \in Notes : status[n] = "pending" /\ channel[n] = ch /\ n \notin late}

\* SELECT ... LIMIT k of the rows R; the order (urgency, importance) is open.
Limited(S, R, k) ==
  /\ S \subseteq R
  /\ IF Cardinality(R) <= k THEN S = R ELSE Cardinality(S) = k

\* enqueue's routing; "off" makes it return -1.
Route(p, u) == IF ~p.on THEN "off" ELSE IF u \in p.push THEN "push" ELSE "passive"
Urgency(s) == IF s \in Reminders THEN "urgent" ELSE "other"

AnySource == CHOOSE s \in Sources : TRUE
AnyPreferences == CHOOSE p \in Preferences : TRUE
AnyNote == CHOOSE n \in Notes : TRUE
ASSUME SomeAssumption == Sources # {} /\ Notes # {}

Init ==
  /\ prefs \in Preferences 
  /\ status = [n \in Notes |-> "none"]
  /\ channel = [n \in Notes |-> "passive"]
  /\ source = [n \in Notes |-> AnySource]
  /\ late = {}
  /\ remind = [r \in Reminders |-> "unset"]
  /\ live = [r \in Reminders |-> TRUE]
  /\ boosted = [r \in Reminders |-> FALSE]
  /\ logged = [s \in Sources |-> FALSE]
  /\ tpc = "idle" /\ due = {} /\ cur = AnySource /\ seen = "off"
  /\ oseen = "off"
  /\ wpc = "idle" /\ wq = {} /\ wcur = AnyNote /\ wsnap = AnyPreferences /\ wok = FALSE
  /\ hmark = [h \in Handlers |-> {}] /\ hshow = [h \in Handlers |-> {}]
  /\ pushed = [n \in Notes |-> 0] /\ shown = [n \in Notes |-> 0]
  /\ told = [s \in Sources |-> "nothing"] /\ faults = 0
-----------------------------------------------------------------------------
(* The surroundings: memories, preferences, time.                          *)

\* The memory gate stores a memory with remind_at.
Schedule(r) ==
  /\ remind[r] = "unset" /\ live[r]
  /\ remind' = [remind EXCEPT ![r] = "armed"]
  /\ UNCHANGED <<prefs, box, live, boosted, logged, tick, oseen, worker, handlers, history>>

FallDue(r) ==
  /\ remind[r] = "armed"
  /\ remind' = [remind EXCEPT ![r] = "due"]
  /\ UNCHANGED <<prefs, box, live, boosted, logged, tick, oseen, worker, handlers, history>>

\* Dedup archives the memory, or somebody deletes it.
Archive(r) ==
  /\ live[r] /\ live' = [live EXCEPT ![r] = FALSE]
  /\ UNCHANGED <<prefs, box, remind, boosted, logged, tick, oseen, worker, handlers, history>>

SetPreferences(p) ==
  /\ prefs' = p
  /\ UNCHANGED <<box, memory, tick, oseen, worker, handlers, history>>

\* expires_at of a row passes.
GetLate(n) ==
  /\ status[n] = "pending" /\ n \notin late
  /\ late' = late \cup {n}
  /\ UNCHANGED <<prefs, status, channel, source, memory, tick, oseen, worker, handlers, history>>
-----------------------------------------------------------------------------
(* The tick of the idle loop: _check_due_reminders, then                   *)
(* _check_memory_milestones; both end in an enqueue and a log entry.       *)

DueNow == {r \in Reminders : remind[r] = "due" /\ live[r]}

BeginReminders(S) ==
  /\ tpc = "idle" /\ DueNow # {} /\ Limited(S, DueNow, DueLimit)
  /\ tpc' = "next" /\ due' = S
  /\ UNCHANGED <<prefs, box, memory, cur, seen, oseen, worker, handlers, history>>

\* mutant of Boost: the UPDATE has NOT archived
BoostLive(r) ==
  /\ tpc = "next" /\ r \in due
  /\ tpc' = "clear" /\ due' = due \ {r} /\ cur' = r
  /\ boosted' = [boosted EXCEPT ![r] = @ \/ live[r]]
  /\ UNCHANGED <<prefs, box, remind, live, logged, seen, oseen, worker, handlers, history>>

\* importance = 1.0: the memory is forced into the next contexts.
Boost(r) ==
  /\ tpc = "next" /\ r \in due
  /\ tpc' = "clear" /\ due' = due \ {r} /\ cur' = r
  /\ boosted' = [boosted EXCEPT ![r] = TRUE]
  /\ UNCHANGED <<prefs, box, remind, live, logged, seen, oseen, worker, handlers, history>>

\* mutant of Clear: remind_at stays set
ClearNothing ==
  /\ tpc = "clear"
  /\ tpc' = "prefs"
  /\ UNCHANGED <<prefs, box, memory, due, cur, seen, oseen, worker, handlers, history>>

Clear ==
  /\ tpc = "clear"
  /\ tpc' = "prefs"
  /\ remind' = [remind EXCEPT ![cur] = "cleared"]
  /\ UNCHANGED <<prefs, box, live, boosted, logged, due, cur, seen, oseen, worker, handlers, history>>

EndReminders ==
  /\ tpc = "next" /\ due = {}
  /\ tpc' = "idle"
  /\ UNCHANGED <<prefs, box, memory, due, cur, seen, oseen, worker, handlers, history>>

\* The memory count has reached k, and the log does not know of it.
BeginMilestone(k) ==
  /\ tpc = "idle" /\ ~logged[k]
  /\ tpc' = "prefs" /\ cur' = k
  /\ UNCHANGED <<prefs, box, memory, due, seen, oseen, worker, handlers, history>>

\* enqueue: get_preferences; disabled notifications end it.
ReadPreferences ==
  /\ tpc = "prefs"
  /\ seen' = Route(prefs, Urgency(cur))
  /\ IF seen' = "off"
     THEN tpc' = "log" /\ told' = [told EXCEPT ![cur] = "disabled"]
     ELSE tpc' = "insert" /\ UNCHANGED told
  /\ UNCHANGED <<prefs, box, memory, due, cur, oseen, worker, handlers, pushed, shown, faults>>

Put(n, ch, s) ==
  /\ status[n] = "none"
  /\ status' = [status EXCEPT ![n] = "pending"]
  /\ channel' = [channel EXCEPT ![n] = ch]
  /\ source' = [source EXCEPT ![n] = s]

\* enqueue: INSERT, routed by the preferences as they were.
Insert(n) ==
  /\ tpc = "insert" /\ n \notin OtherNotes
  /\ Put(n, seen, cur)
  /\ tpc' = "log" /\ seen' = "off"
  /\ told' = [told EXCEPT ![cur] = "queued"]
  /\ UNCHANGED <<prefs, late, memory, due, cur, oseen, worker, handlers, pushed, shown, faults>>

\* mutant of Log: no entry
LogNothing ==
  /\ tpc = "log"
  /\ tpc' = IF cur \in Reminders THEN "next" ELSE "idle"
  /\ cur' = AnySource
  /\ UNCHANGED <<prefs, box, memory, due, seen, oseen, worker, handlers, history>>

\* The entry is written whatever enqueue returned.
Log ==
  /\ tpc = "log"
  /\ tpc' = IF cur \in Reminders THEN "next" ELSE "idle"
  /\ logged' = [logged EXCEPT ![cur] = TRUE]
  /\ cur' = AnySource
  /\ UNCHANGED <<prefs, box, remind, live, boosted, due, seen, oseen, worker, handlers, history>>

\* A statement raises: _safe_run_global swallows it and the tick is over.
FailTick ==
  /\ tpc # "idle" /\ faults < MaxFaults
  /\ tpc' = "idle" /\ due' = {} /\ cur' = AnySource /\ seen' = "off"
  /\ faults' = faults + 1
  /\ UNCHANGED <<prefs, box, memory, oseen, worker, handlers, pushed, shown, told>>
-----------------------------------------------------------------------------
(* The other producers: contradictions, research, DMN thoughts.            *)

OtherReads ==
  /\ oseen = "off" /\ oseen' = Route(prefs, "other") /\ oseen' # "off"
  /\ UNCHANGED <<prefs, box, memory, tick, worker, handlers, history>>

OtherInserts(n) ==
  /\ oseen # "off" /\ n \in OtherNotes
  /\ Put(n, oseen, AnySource)
  /\ oseen' = "off"
  /\ UNCHANGED <<prefs, late, memory, tick, worker, handlers, history>>
-----------------------------------------------------------------------------
(* DeliveryWorker.run.                                                     *)

\* mutant of Expire: only passive rows
ExpirePassive ==
  /\ wpc = "idle"
  /\ wpc' = "select"
  /\ status' = [n \in Notes |-> IF status[n] = "pending" /\ n \in late /\ channel[n] = "passive"
                                THEN "expired" ELSE status[n]]
  /\ UNCHANGED <<prefs, channel, source, late, memory, tick, oseen, wq, wcur, wsnap, wok, handlers, history>>

\* expire_old.
Expire ==
  /\ wpc = "idle"
  /\ wpc' = "select"
  /\ status' = [n \in Notes |-> IF status[n] = "pending" /\ n \in late THEN "expired" ELSE status[n]]
  /\ UNCHANGED <<prefs, channel, source, late, memory, tick, oseen, wq, wcur, wsnap, wok, handlers, history>>

\* get_pending_push, joined with the preferences of this moment.
Select(S) ==
  /\ wpc = "select" /\ Limited(S, Pending("push"), PushLimit)
  /\ wpc' = "loop" /\ wq' = S /\ wsnap' = prefs
  /\ UNCHANGED <<prefs, box, memory, tick, oseen, wcur, wok, handlers, history>>

\* The clock is open: whoever has quiet hours may be in them or not.
Skip(n) ==
  /\ wpc = "loop" /\ n \in wq /\ wsnap.quiet
  /\ wq' = wq \ {n}
  /\ UNCHANGED <<prefs, box, memory, tick, oseen, wpc, wcur, wsnap, wok, handlers, history>>

\* The request to Telegram: it is done or refused; an answer that is lost
\* looks like a refusal.
Send(n, ok) ==
  /\ wpc = "loop" /\ n \in wq
  /\ wpc' = "mark" /\ wq' = wq \ {n} /\ wcur' = n /\ wok' = ok
  /\ \/ pushed' = [pushed EXCEPT ![n] = IF ok THEN @ + 1 ELSE @] /\ UNCHANGED faults
     \/ /\ ~ok /\ faults < MaxFaults
        /\ pushed' = [pushed EXCEPT ![n] = @ + 1] /\ faults' = faults + 1
  /\ UNCHANGED <<prefs, box, memory, tick, oseen, wsnap, handlers, shown, told>>

\* mutant of MarkSent: the update is forgotten
MarkNothing ==
  /\ wpc = "mark"
  /\ wpc' = "loop" /\ wcur' = AnyNote /\ wok' = FALSE
  /\ UNCHANGED <<prefs, box, memory, tick, oseen, wq, wsnap, handlers, history>>

\* mutant of MarkSent: the answer of the request is not looked at
MarkDelivered ==
  /\ wpc = "mark"
  /\ wpc' = "loop" /\ wcur' = AnyNote /\ wok' = FALSE
  /\ status' = [status EXCEPT ![wcur] = "delivered"]
  /\ UNCHANGED <<prefs, channel, source, late, memory, tick, oseen, wq, wsnap, handlers, history>>

\* mark_delivered or mark_failed: UPDATE ... WHERE id, whatever the status.
MarkSent ==
  /\ wpc = "mark"
  /\ wpc' = "loop" /\ wcur' = AnyNote /\ wok' = FALSE
  /\ status' = [status EXCEPT ![wcur] = IF wok THEN "delivered" ELSE "failed"]
  /\ UNCHANGED <<prefs, channel, source, late, memory, tick, oseen, wq, wsnap, handlers, history>>

EndRound ==
  /\ wpc = "loop" /\ wq = {}
  /\ wpc' = "idle" /\ wsnap' = AnyPreferences
  /\ UNCHANGED <<prefs, box, memory, tick, oseen, wq, wcur, wok, handlers, history>>

WorkerReset ==
  wpc' = "idle" /\ wq' = {} /\ wcur' = AnyNote /\ wsnap' = AnyPreferences /\ wok' = FALSE

\* Anything raises, a send that went through included: the round is over.
FailRound ==
  /\ wpc # "idle" /\ faults < MaxFaults
  /\ WorkerReset
  /\ faults' = faults + 1
  /\ UNCHANGED <<prefs, box, memory, tick, oseen, handlers, pushed, shown, told>>
-----------------------------------------------------------------------------
(* POST /context/assemble.                                                 *)

\* get_pending_passive; the lines are in the prompt from here on.
Assemble(h, S) ==
  /\ hmark[h] = {} /\ hshow[h] = {} /\ S # {}
  /\ Limited(S, Pending("passive"), PassiveLimit)
  /\ hmark' = [hmark EXCEPT ![h] = S] /\ hshow' = [hshow EXCEPT ![h] = S]
  /\ UNCHANGED <<prefs, box, memory, tick, oseen, worker, history>>

\* mutant of MarkShown: delivered_at is written, the status is not
MarkShownNothing(h, n) ==
  /\ n \in hmark[h]
  /\ hmark' = [hmark EXCEPT ![h] = @ \ {n}]
  /\ UNCHANGED <<prefs, box, memory, tick, oseen, worker, hshow, history>>

\* mark_delivered, row by row, before the prompt is returned.
MarkShown(h, n) ==
  /\ n \in hmark[h]
  /\ hmark' = [hmark EXCEPT ![h] = @ \ {n}]
  /\ status' = [status EXCEPT ![n] = "delivered"]
  /\ UNCHANGED <<prefs, channel, source, late, memory, tick, oseen, worker, hshow, history>>

Answer(h) ==
  /\ hmark[h] = {} /\ hshow[h] # {}
  /\ hshow' = [hshow EXCEPT ![h] = {}]
  /\ shown' = [n \in Notes |-> IF n \in hshow[h] THEN shown[n] + 1 ELSE shown[n]]
  /\ UNCHANGED <<prefs, box, memory, tick, oseen, worker, hmark, pushed, told, faults>>

\* Marking raises: the exception is swallowed, the lines stay in the prompt.
FailMark(h) ==
  /\ hmark[h] # {} /\ faults < MaxFaults
  /\ hmark' = [hmark EXCEPT ![h] = {}]
  /\ faults' = faults + 1
  /\ UNCHANGED <<prefs, box, memory, tick, oseen, worker, hshow, pushed, shown, told>>

\* The rest of the handler raises, or the answer does not arrive.
FailAnswer(h) ==
  /\ hmark[h] = {} /\ hshow[h] # {} /\ faults < MaxFaults
  /\ hshow' = [hshow EXCEPT ![h] = {}]
  /\ faults' = faults + 1
  /\ UNCHANGED <<prefs, box, memory, tick, oseen, worker, hmark, pushed, shown, told>>
-----------------------------------------------------------------------------
\* The process dies, or is shut down, which cancels the loops at any await.
Restart ==
  /\ faults < MaxFaults /\ faults' = faults + 1
  /\ tpc' = "idle" /\ due' = {} /\ cur' = AnySource /\ seen' = "off" /\ oseen' = "off"
  /\ WorkerReset
  /\ hmark' = [h \in Handlers |-> {}] /\ hshow' = [h \in Handlers |-> {}]
  /\ UNCHANGED <<prefs, box, memory, pushed, shown, told>>

Surroundings ==
  \/ \E r \in Reminders : Schedule(r) \/ FallDue(r) \/ Archive(r)
  \/ \E p \in Preferences : SetPreferences(p)
  \/ \E n \in Notes : GetLate(n)

Tick ==
  \/ \E S \in SUBSET Reminders : BeginReminders(S)
  \/ \E r \in Reminders : Boost(r)
  \/ \E n \in Notes : Insert(n)
  \/ Clear \/ EndReminders \/ ReadPreferences \/ Log

Round ==
  \/ \E S \in SUBSET Notes : Select(S)
  \/ \E n \in Notes, ok \in BOOLEAN : Send(n, ok)
  \/ \E n \in Notes : Skip(n)
  \/ Expire \/ MarkSent \/ EndRound

Serve(h) ==
  \/ \E S \in SUBSET Notes : Assemble(h, S)
  \/ \E n \in Notes : MarkShown(h, n)
  \/ Answer(h)

Next ==
  \/ Surroundings \/ Tick \/ FailTick \/ Round \/ FailRound \/ Restart
  \/ \E k \in Milestones : BeginMilestone(k)
  \/ OtherReads \/ \E n \in Notes : OtherInserts(n)
  \/ \E h \in Handlers : Serve(h) \/ FailMark(h) \/ FailAnswer(h)

Spec == Init /\ [][Next]_vars

\* The idle loop and the worker are driven by timers, and time passes.
Clock == (\E r \in Reminders : FallDue(r)) \/ (\E n \in Notes : GetLate(n))
FairSpec == Spec /\ WF_vars(Tick) /\ WF_vars(Round) /\ WF_vars(Clock)
-----------------------------------------------------------------------------
TypeOK ==
  /\ prefs \in Preferences /\ wsnap \in Preferences
  /\ status \in [Notes -> {"none", "pending", "delivered", "failed", "expired"}]
  /\ channel \in [Notes -> {"push", "passive"}] /\ source \in [Notes -> Sources]
  /\ late \subseteq Notes
  /\ remind \in [Reminders -> {"unset", "armed", "due", "cleared"}]
  /\ live \in [Reminders -> BOOLEAN] /\ boosted \in [Reminders -> BOOLEAN]
  /\ logged \in [Sources -> BOOLEAN]
  /\ tpc \in {"idle", "next", "clear", "prefs", "insert", "log"}
  /\ due \subseteq Reminders /\ cur \in Sources
  /\ seen \in (IF tpc = "insert" THEN {"push", "passive"} ELSE {"off", "push", "passive"})
  /\ oseen \in {"off", "push", "passive"}
  /\ wpc \in {"idle", "select", "loop", "mark"} /\ wq \subseteq Notes
  /\ wcur \in Notes /\ wok \in BOOLEAN
  /\ hmark \in [Handlers -> SUBSET Notes] /\ hshow \in [Handlers -> SUBSET Notes]
  /\ pushed \in [Notes -> Nat] /\ shown \in [Notes -> Nat]
  /\ told \in [Sources -> {"nothing", "disabled", "queued"}] /\ faults \in 0..MaxFaults

(* A push reaches the user at most once, and once more for every failure   *)
(* or restart that comes between a send and its mark.                      *)
PushedOnce == \A n \in Notes : pushed[n] <= 1 + faults

(* A row is never shown in more prompts than there are handlers beside     *)
(* each other, and one more for every failure to mark it.                  *)
ShownBounded == \A n \in Notes : shown[n] <= Cardinality(Handlers) + faults

(* The rows tell what the user has seen: a delivered push was sent, and,   *)
(* as long as nothing has failed, a failed push was not, and a delivered   *)
(* passive row that no handler holds any more has been shown.              *)
StatusIsHonest ==
  \A n \in Notes :
    /\ status[n] = "delivered" /\ channel[n] = "push" => pushed[n] > 0
    /\ faults = 0 =>
         /\ status[n] = "failed" => pushed[n] = 0
         /\ (status[n] = "delivered" /\ channel[n] = "passive" /\ \A h \in Handlers : n \notin hshow[h])
              => shown[n] > 0

(* Whatever fails, a reminder is put into the outbox at most once.         *)
Queued(n, x) == n \notin OtherNotes /\ status[n] # "none" /\ source[n] = x
ReminderQueuedOnce ==
  \A r \in Reminders : \A m, n \in Notes : Queued(m, r) /\ Queued(n, r) => m = n

(* A milestone is put into the outbox once, and once more for every        *)
(* failure that comes before its log entry.                                *)
MilestoneQueuedOnce ==
  \A k \in Milestones : Cardinality({n \in Notes : Queued(n, k)}) <= 1 + faults

(* A reminder whose remind_at is gone has told enqueue, unless a failure   *)
(* came between the two; one failure costs one reminder at most.  Its      *)
(* memory is in any case forced into the next contexts.                    *)
InTick(r) == tpc \in {"prefs", "insert"} /\ cur = r
Forgotten == {r \in Reminders : remind[r] = "cleared" /\ told[r] = "nothing" /\ ~InTick(r)}
ClearedIsTold ==
  /\ Cardinality(Forgotten) <= faults
  /\ \A r \in Reminders : remind[r] = "cleared" => boosted[r]

(* A push that is closed (delivered, failed, expired) stays as it is, and  *)
(* no row is opened again: the worker's snapshot never reaches over an     *)
(* expiry.  (A passive row may: shown by a handler just when it expires.)  *)
Closed == {"delivered", "failed", "expired"}
ClosedForGood ==
  [][\A n \in Notes : status[n] \in Closed =>
       status'[n] \in (IF channel[n] = "push" THEN {status[n]} ELSE {status[n], "delivered"})]_vars

(* The pushes keep the promise of PushPromise: whatever fails between the   *)
(* selection of a row, the request, its answer and the mark, a row is sent *)
(* again only after a failure, closed once and by its own attempt, and     *)
(* never sent or opened once it is closed.                                 *)
InFlight(n) == wpc = "mark" /\ wcur = n
PhaseOf(n) ==
  IF channel[n] = "passive" THEN "none"
  ELSE IF InFlight(n) THEN IF wok THEN "sent" ELSE "refused"
  ELSE IF status[n] = "pending" THEN "open" ELSE status[n]
Phase == [n \in Notes |-> PhaseOf(n)]
Promise == INSTANCE PushPromise WITH
  Messages <- Notes, phase <- Phase, out <- pushed, failures <- faults
PushPromiseSpec == Promise!Spec

(* A pending push is closed in the end, whatever the quiet hours, the      *)
(* preferences and the other rows before it in the queue.                  *)
PushClosed ==
  \A n \in Notes : status[n] = "pending" /\ channel[n] = "push" ~> status[n] # "pending"

(* A due reminder whose memory stays is fired: its remind_at is cleared.   *)
DueFires ==
  \A r \in Reminders : remind[r] = "due" ~> remind[r] = "cleared" \/ ~live[r]
=============================================================================
