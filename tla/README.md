# botbot: a TLA+ verification project

The repository holds **botbot**, an agent with a long-term memory, in two
programs:

* the *brain* (`brain/src/*.py`, Python asyncio + PostgreSQL/pgvector): a
  service that stores memories with Beta(alpha, beta) weights, gates what enters
  them, assembles prompt context from them, consolidates them in the background
  and thinks while idle;
* the *gateway* (`openclaw/`, TypeScript on Node): it connects chat channels to
  agent runs, schedules jobs, and talks to the brain over HTTP through one plugin
  (`openclaw/extensions/memory-brain`).

The brain runs as coroutines of **one event loop**, without locks or database
transactions: a step is the code between two `await`s, each SQL statement is
atomic, and any other coroutine may run at an `await`. The gateway runs on
**one Node event loop**: again a step is the code between two `await`s, a
`rename` in the file system is atomic, and what an in-process lock (`locked` in
the cron service) covers is one step where nothing is executed in it. That is
the atomicity all the modules here use.

## The system's parts

| part | code | state | operations | correct when |
|---|---|---|---|---|
| memory rows and weights | `memory.py`, `safety.py` | `memories` (alpha, beta, access_count, immutable, archived) | store, store_insight, delete, apply_retrieval_mutation, transfer_weights, archive_memory, decay tick | the ceiling holds, dead rows stay dead, immutable rows are not decayed |
| deep consolidation (Tier 2) | `consolidation.py` | Phase B switch, cycle id, `_running` | promote, decay, weaken, cluster, contextualise | promotions happen, one cycle at a time, Phase B off outside |
| dedup | `consolidation.dedup_pair`, `memory.execute_dedup_verdict`, `api.py` sweep and gate | `dedup_verdicts`, `archived`, `archived_reason` | arbitrate a pair (LLM), cache the verdict, execute it | no idea is lost, no weight is lost or counted twice |
| constant consolidation (Tier 1) | `consolidation.py` | timers per operation | decay tick, contradiction scan, research queue, pattern detection | one failing operation does not stop the others |
| research queue | `consolidation.py` | `research_queue` | queue, first search, confirmation after 24 h | what is stored agrees with an item's status, a closed item is done with, the limits hold at queueing |
| idle loop / DMN | `idle.py`, `rumination.py`, `dmn_store.py` | idle timer, active thread per agent, thought queues | heartbeat, start/continue/end a thread, reminders, protections, milestones | no reminder is lost, a thread ends and is archived once, its file keeps up |
| notifications | `notification.py` | `notification_outbox`, preferences | enqueue, deliver (push), hand out (passive), expire | delivered at least once and not for ever, quiet hours delay but do not lose |
| gate | `gate.py`, `api.gate_memory` | `scratch_buffer` | entry decision, exit decision, persist/reinforce/buffer/drop | what is buffered is persisted or expires |
| context assembly, gut, relevance | `context_assembly.py`, `gut.py`, `relevance.py` | attention, identity cache, co-access | assemble, update attention | budget respected, what was injected is live |
| bootstrap, activation, stochastic, llm, db, config | same names | – | pure functions, wiring, retries | – |
| outbound delivery queue | `openclaw/src/infra/outbound/{delivery-queue,deliver}.ts` | one file per message, `failed/` | write ahead, send, acknowledge, count a failure, recover at a start, park | a message is delivered at least once or openly given up; no entry waits for ever |
| cron service | `openclaw/src/cron/service/*.ts`, `store.ts`, `schedule.ts` | the jobs in a file and in memory, timer, running markers | tick, start, add, update, remove, run, list, status, hot reload, restart | no job beside itself, no occurrence twice, skipped or forgotten |
| followup queue | `openclaw/src/auto-reply/reply/queue/*.ts`, `agent-runner.ts`, `get-reply-run.ts` | the messages of a session that wait for its run, the drain | enqueue, drop at the cap, drain singly or collected, summarise, clear | messages are run once, in order, and none vanishes or is left |
| memory-brain plugin | `openclaw/extensions/memory-brain/index.ts` | pending capture | recall, capture | – |
| rest of the gateway | `openclaw/**` | command lanes, heartbeat wake, session store, subagents, approvals, memory index; channels, agents, configuration, tools, apps | – | see "Not modelled" |

Interactions: HTTP handlers, the two consolidation tiers, the idle loop and the
notification worker are concurrent coroutines that share the tables, the one
`SafetyMonitor`, the identity cache and the thought queues. In the gateway, a
message becomes a turn or a followup; a drain, a cron job or a live call runs an
agent, whose answer goes through the delivery queue. The three queues share no
state, only the event loop and its restarts, so they are modelled side by side:
a run, its time and its outcome are free choices in each.

Hard behaviours: snapshots read before an `await` and used after it; a verdict
cached in a table and executed later; a process-wide safety switch; steps that
fail half way and are swallowed; flags cleared before the thing they announce
is done; rows that must be delivered exactly once with no acknowledgement;
recoveries that overlap what they recover; results written long after the
decision to execute; removal by position after an `await`; services that are
replaced while they work.

## Modules

### MemoryWeights (`memory.py`, `safety.py`, `consolidation.py`)

The rows of `memories` as weights and everything that changes them.

* **State.** Per row `status` (none, live, archived, deleted), `alpha`, `beta`,
  `accessed` (access_count > 0) and the history counter `absorbed` (how many
  stored weights dedup has merged into the row). `phaseB` is the switch of the
  `SafetyMonitor`; `insights` the weights that calls of `store_insight` have read and not
  yet stored. Per caller of `apply_retrieval_mutation`: its program counter,
  the ids still to do, the near misses, the rows as SELECTed (`snap`) and the row
  just granted. Per execution of a dedup verdict: survivor, losers and the
  weights held between the SELECT and the UPDATE of `transfer_weights`. The deep
  cycle has one program counter, since `_running` admits one cycle.
* **Actions.** One per stretch between two awaits. `BeginCall` / `Select` /
  `Check` / `Reinforce` / `NearMisses` are the statements of
  `apply_retrieval_mutation`, in its order; `Check` is the synchronous call of
  `check_weight_change` on the snapshot and `Reinforce` the relative UPDATE of
  the current row. `BeginDeep` .. `EndDeep` are `_deep_cycle` and its steps;
  `LoopRow` is one row of a loop, judged by the snapshot, which nobody else writes;
  `FailStep` is an exception swallowed by `_safe_step`. `ReadSources`, `StoreInsight`
  and `FailInsight` are `store_insight` before and after the embedding, or without an
  end; what was read may be deleted or merged by the INSERT. `Restart` kills every
  coroutine and keeps the rows.
* **Abstraction.** Weights are naturals of some unit and every threshold
  comparison is the equivalent linear inequality (centre <= 0.95 is
  `alpha <= 19 beta`). `Diminished` divides by the integer part of log2; the
  proofs only use that the result lies between 0 and the gain. Which rows a
  search finds, which are stale, protected, old or of the right type is left
  open: the actions choose any set the remaining filters admit. The store has its
  `SafetyMonitor`, as the lifespan of `api.py` wires it. `store_insight`
  inherits a weighted average; since every checked bound is linear, the average
  is represented by its extreme points, the weights of one source.
* **Phase C and the rate limiter.** `enable_phase_c` is called nowhere, so the
  entropy monitor and the circuit breaker never run. The rate limiter is enabled
  together with the two-gate guardrail, which refuses everything it is asked, so
  what the limiter would say cannot be observed; it is left out.

### Dedup (`consolidation.dedup_pair`, `memory.execute_dedup_verdict`, `api.py`)

The dedup engine seen as what happens to ideas and weights rather than to numbers.

* **State.** Per row `status`, `heir` (the `survivor_id` in `archived_reason`) and
  `holds`, a history variable: how often the weight each memory was stored with is
  contained in the row. `verdict` is the table `dedup_verdicts`. A job (a sweep, or
  the gate after a PERSIST) has its list of pairs as SELECTed at its start, the
  pair at hand, its own verdict, `dry_run`, and the merge it is executing.
* **Actions.** `Lookup` (the cache; a hit skips the check that the rows are live),
  `Fetch`, `Ask`, `Record` (ON CONFLICT DO NOTHING, and the job goes on with its own
  verdict), `Decide`, then the statements of `execute_dedup_verdict`: `StoreSynthesis`
  or `Fallback` where the verdict asks for them, `ReadLoser` and `AddWeights` (the
  two statements of `transfer_weights`), `Archive`. `Fail` is an exception swallowed
  per pair, `Restart` the death of the process. Without the
  column `synthesis`, which the schema of the repository does not create, every
  `Lookup` raises and the pair is passed over (`SynthesisColumn`).
* **Abstraction.** Which live pairs are similar and what the LLM answers is open; an
  answer that does not parse is "distinct", an unknown label is treated as a
  synthesis without text, as in the code. `Quality` restricts the LLM: constant, it
  may contradict itself; injective, it ranks the memories. Centres are not
  modelled, so the fallback may keep either row. In a synthesis the two transfers,
  and then the two archivings, may come in either order.
* **IdeaPartition** is the abstract specification: every idea that was stored has one home, two
  homes may be joined with all the ideas in them, and only a deletion parts ideas. `Dedup`
  implements it with an idea's home being the memory that `survivor_id` leads to (`Home`).
  Where it leads is defined by closed sets and not by recursion, so that it can be proved about:
  k leads to m if every set with k and without m has a row whose survivor is not in it
  (`Leads`). Property `IdeaPartitionSpec`, theorem `KeepsPartition`.

### Outbox (`notification.py`, the producers in `idle.py`, `api.context_assemble`)

The notifications of one agent, from their producers to the user.

* **State.** Per outbox row `status`, `channel`, `source` and whether it is `late`
  (its `expires_at` has passed). Per reminder `remind` (unset, armed, due, cleared:
  `memories.remind_at`), `live`, `boosted`; per producer `logged`
  (`consolidation_log`). A program counter each for the idle loop's tick and the
  delivery worker, with what they have SELECTed (`due`; `wq`, and `wsnap`, the
  preferences joined to it); `oseen` is one enqueue of the other loops between its two
  statements; per handler of `/context/assemble` the rows it still has to mark and
  those in its prompt. `pushed`, `shown` and `told` are history: what reached Telegram
  and the prompts, and what `enqueue` returned.
* **Actions.** `BeginReminders`, `Boost`, `Clear`, `ReadPreferences`, `Insert`, `Log`
  are the statements of `_check_due_reminders` in the order of the code;
  `BeginMilestone` leads into the same enqueue. `Expire`, `Select`, `Skip`, `Send`,
  `MarkSent` are a round of the worker, `Assemble`, `MarkShown`, `Answer` a handler.
  A request to Telegram whose answer is lost is a fault that delivers and reports
  failure. Every exception the code swallows (`FailTick`, `FailRound`, `FailMark`,
  `FailAnswer`) and the death or shutdown of the process (`Restart`, which cancels the
  loops at whatever await they are at) costs one of `MaxFaults`.
* **Abstraction.** The text of a row, its urgency beyond the two thresholds, and which
  of more rows than its LIMIT a SELECT returns are open. So is the clock's hour: a user
  with quiet hours may be in them at any round. Preferences change at any time.
* **PushPromise** is the abstract specification of the pushes: a message is accepted, sent or
  refused, closed; several expire together; a failure may make an attempt forgotten, and only
  then is a message sent again. `Outbox` implements it with a message's phase read off its
  row and the worker's program counter (`PhaseOf`): property `PushPromiseSpec`, theorem
  `KeepsPushPromise`. `ClosedForGood`, for passive rows too, is proved but checked by no run.

### ResearchQueue (`consolidation.py` 420-826)

What Tier 1 makes of two memories that may contradict each other.

* **State.** Per row of `research_queue` its status `st`, `subject` (the pair), `asks`
  (there is a `research_question`), `first` (which memory the first answer calls
  correct, `unclear` if its text has neither form that is looked for) and `age` (hours since
  `first_researched_at`). Per item what was stored and said about it: `findings`,
  `corrections`, `told`; per session the age of its row in `consolidation_log` (`logged`);
  `beta`, what displacement has added to a memory. `recent`: two memories of the last
  24 hours are live. `pc`, `todo`, `pair`, `cur`, `hand` are the coroutine.
* **Actions.** `Scan` samples pairs; `Weigh`, `CheckLimits`, `Enqueue`/`Dismiss` are
  `_maybe_queue_research`; `PickPending` to `TellFinding` the first search; `PickDue` to
  `LogConfirmation` the confirmation: one action per statement or call. `SearchFails` is
  the RuntimeError of the LLM; `Raise` any other exception, caught per pair while
  queueing and per queue run afterwards; `Archive`, `Recency` and `Tick` are the world.
* **Abstraction.** The tension rows, the reinforcement and the notification of the scan
  are left out, since neither the queueing (which takes every sampled pair, contradictory
  or not) nor anything after it reads them. A centre above 0.3 and what the LLM says are
  free. The store has its `SafetyMonitor`, as in the service: `DeltaBeta` is the
  delta_beta that `check_weight_change` is given and hands back, zero.

### Rumination (`idle.py` 78-117, 365-767, `rumination.py`, `dmn_store.py`)

What the agent thinks while idle: the heartbeat of one agent.

* **State.** `rm` is the `RuminationManager` (the active thread with its cycles and history,
  `completed_threads`), `loaded` whether `_rumination` has it, `file` its
  `rumination_state.json`; `queue` is the agent's `ThoughtQueue`, `recent` its
  `_recent_topics`; `pc`, `popped` and `said` are the coroutine. `seen`, `started` and
  `unsaved` are history: what the queue has handed out, how many threads there were, and
  whether a failure has left the file behind since the last save.
* **Actions.** `BeatOn`, `BeatPop`, `BeatNew` are the three ways a heartbeat begins, up to its
  first `await`; `Sample`, `First`, `Further`, `Resolve`, `Drop`, `Put`, `Track`, `EndBeat` the
  code between one `await` and the next; `Fail` is a database or LLM call that raises,
  `SaveThen` a save that may; `Drain` is `GET /dmn/thoughts`, `Restart` a crash or a
  shutdown.
* **What follows the code closely.** `Further` ends the heartbeat where
  `idle.py:690` dereferences the thread that `continue_thread` has just ended. `SaveIfPopped`
  keeps the order of `_heartbeat`: a popped thread is saved after the next thread has
  had its first thought, not when it is popped. `Restart` saves nothing, since the
  cancellation leaves `run` before its last lines.
* **Abstraction.** A thought is its first 50 characters, a member of `Topics`; the sampled
  memory, the channel, `dmn_log`, the notification (that is a row of `Outbox`) and the gut
  are left out, except for whether the gut is flat. The probability of a random pop is a
  free choice. Agents share nothing here, so one is modelled.

### DeliveryQueue and AtLeastOnce (`infra/outbound/delivery-queue.ts`, `deliver.ts`)

The write-ahead queue of outbound messages, and what it promises.

* **State.** The files: `queued`, `retry` (`retryCount`), `failedDir`, `enqueuedAt` as an
  order. A `worker` is a call in flight, live or of a recovery; both run the same core, so
  they share its actions. `todo` is a recovery's snapshot, `left` what remains of its
  `maxRecoveryMs`. `sent`, `aborted` and `cut` are history.
* **Actions.** `Enqueue`/`EnqueueError` begin a live call, with or without its file; `SendOk`,
  `PayloadFails`, `CoreThrows`, `Abort`, `TimesOut`, `Resolve` are the core; `Ack`, `AckError`, `FailRead`,
  `FailWrite`, `FailError` settle the file (`failDelivery` reads and renames in two steps);
  `Start`, `Load`, `MoveToFailed`, `Retry`, `Stop` are `recoverPendingDeliveries`. `Start` may
  come while earlier calls are in flight: a restart in the process does not wait for them.
  `Crash` keeps the files only. `deliver.ts:246` acknowledges on any error named AbortError:
  the one of a caller that withdraws (`Abort`) and the one that `fetchWithTimeout` throws when
  a send takes too long (`TimesOut`, which marks the message as `cut`). A recovery passes
  `skipQueue` and counts both as failures.
* **Abstraction.** Time is the budget of a recovery, in units of five seconds; a delivery may
  use up what is left of it. Payloads are numbers; channel, chunking, hooks and mirroring are
  left out, except that the core can throw before the first payload and after the last one.
* **AtLeastOnce** is the abstract specification: messages that are *owed*, parts that went
  *out*, messages *given up* openly. It may let go of a message only when nothing is missing,
  it was given up, best effort was asked for, or its first sending was *cut off*. `DeliveryQueue` implements it with
  `owed <- queued`, `out <- sent`, `givenUp <- failedDir \cup aborted`, `cutOff <- cut`, checked by TLC as the
  property `AtLeastOnceSpec` and proved (`ImplementsAtLeastOnce`).

### CronService (`cron/service/*.ts`, `cron/store.ts`, `cron/schedule.ts`)

The scheduler of the gateway's jobs, together with the reloads and restarts around it.

* **State.** `file` and, per service, `mem`: a job's `here`, `on` (enabled), `next`
  (`nextRunAtMs`), `run` (`runningAtMs`), `last` (`lastStatus`). `tick` is `onTimer` between its
  two locked sections with its batch; `hold` an execution inside the lock (missed jobs of
  `start`, a manual `run`); `armed` the timer. `current` and `bound` differ after a hot
  reload, since the request handlers keep the service they were given. `fired`, `redo` and
  `clash` are history: `redo` and `clash` collect the jobs for which a *named* event
  (a failed write, a marker of two hours, a call of the user, a replaced service, a crash
  under a one-shot job) may cause a repetition or an overlap.
* **Actions.** `Fire`, `Collect`/`CollectNothing`, `Begin`, `End`, `Apply`, `LoadFails`, `Done` are
  `onTimer` with its `finally`; `Start`, `StartFails`, `RunNow`, `HoldBegin`, `HoldEnd`, `HoldFinish` the
  executions in the lock; `Add`, `Update`, `Remove`, `Read` the other operations; `Boot`,
  `Reload`, `Restart`, `Crash` the gateway; `Pass` the clock. Each locked section is one step
  with its reload, recomputation, save and re-arming; `ok` is whether the write succeeded.
  A start that cannot read the file, or not write a migrated one, stops before it arms the
  timer (`StartFails`) and leaves the service `failed`, or `unread` when nothing was read:
  the next call then reads the file (`Store`, `Refused`). A call that goes through puts it `on`.
* **Abstraction.** Occurrences of a job are numbered, `occ` of them have come; a next run is a
  number, and an error backoff moves it by some of `Backoffs`. `Maintain` and `Recompute` are
  the two ways the code recomputes next runs, and which is used where is kept. What a job
  executes, wake modes, delivery of results, run logs and the migration of old files are
  left out; schedules can always be computed.
* **CronSchedule** is the arithmetic left out by this for recurring jobs: `NextEvery` computes the
  next run from period, anchor and clock in milliseconds. `NextIsToCome` is what counting
  occurrences takes for granted, and `OnTheDot` the exception.

### FollowupQueue (`auto-reply/reply/queue/*.ts`, `agent-runner.ts`, `get-reply-run.ts`)

The messages of one session that wait for its run.

* **State.** `queue`: queue objects with their settings, items, the dropped messages to be told
  (`sum`), and the drain that runs on the object (`pc`, `flight` what it is running, `told`).
  `map` is `FOLLOWUP_QUEUES`. A drain keeps its object when an abort takes it out of the map,
  so there may be several. `late` counts messages that have seen a run and are not queued
  yet, `turns` the turns in progress.
* **Actions.** `Arrive`, `Enqueue` (with its three drop policies), `Duplicate`, `TurnEnd`,
  `TurnThrows`, `Clear`; the drain's `Collect`, `RunOne`, `Summarize`, `Break`, `Finish`, `Fail`.
  What a step of the drain does after its `await` (removal by position, summary state, the
  `finally` that schedules again or empties the map) is in `Finish`, `Fail` and `Break`.
* **Abstraction.** A message is a number and a route. Prompts, debouncing times and the
  lanes in which runs wait are left out, so any runs may overlap; the mode `interrupt`,
  which never enqueues, is left out, and the steering modes drain as `followup`.
* **FifoQueue** is the abstract specification: messages join a line or are refused at its
  limit, and the front of it is served. It promises nothing once it has been disturbed, which
  the cap (dropping what was queued) and an abort do. Property `FifoQueueSpec`, theorem
  `IsFifoQueue`; `LossNeedsOverflow`, which follows, is proved but checked by no run.

### MC modules

Each `MC` module gives the constants of its component their values. Some also restrict the
next-state relation for a run, to keep its states few:

* `RacingNext` (`weights_merging`, `weights_promotion`): two callers race for a row, or a merge
  and one caller, not all three; an insight is under way beside merges, deletions and the decay
  tick;
* `SweepingNext` (`dedup_racing`): the jobs are sweeps, which is where many pairs are in hand
  at once; the gate's trigger is covered by `dedup_alone`;
* `UserNext` (`outbox`): the two users of the run, and when the handlers come;
* `FewPairsNext` (`research`, `research_displaced`): pairs are sampled from two, and archiving and time keep to the
  moments where the next step can tell.

## Runs

| run | instance | shows |
|---|---|---|
| `weights_merging` | three rows, of which one is immutable and one is only stored as an insight or a synthesis; two callers that may race for a row until a merge begins, one merger, one insight, the deep cycle, failures and restarts | `CeilingOverrunBounded`: the ceiling is passed, by at most one gain for the other caller; `DeadRowsFrozen`: no list, snapshot or verdict from before brings back or changes a row that was archived or deleted; `ImmutableOnlyMerged` |
| `weights_promotion` | the same | `PromotionReinforces`, what the docstring of `_promote_patterns` says, is violated: see below |

A gain of 37 takes a row with alpha 1 and beta 2 exactly to its ceiling, two racing
gains beyond it, and `MaxBeta` (the only bound of the model: a row at it starts to receive
no more beta) lets every kind of decay happen. Deadlock is checked: a restart is always
possible, so no state is stuck. The type invariants of all modules are proved
(`TypeCorrect`), and so are not listed with the runs.

| run | instance | shows |
|---|---|---|
| `dedup_alone` | three rows, one job at a time while rows are deleted, no failure, no dry run, an LLM that may contradict itself | `IdeaPartitionSpec`: the refinement; `CountedOnce` (no weight is contained twice), `HeirHoldsAll` (none is lost), `MergesLiveRows` |
| `dedup_racing` | three rows, two sweeps of which some are dry runs, one failure or restart, an LLM that ranks the memories | `NoIdeaLost` although both jobs judge the same pair, each executes its own answer, and verdicts are executed from the cache much later |

Three rows are what a contradiction of the LLM needs (a over b over c over a), and
what a synthesis of two needs. A run in which no id is left for a synthesis stops
there, so deadlock is not checked where syntheses are.

| run | instance | shows |
|---|---|---|
| `outbox` | two reminders and a milestone, three rows, two handlers, one fault, a LIMIT of one for the tick and the worker and of two for prompts; the user is one of two, below | `DueFires` and `PushClosed` under fairness; `PushedOnce`, `ReminderQueuedOnce`, `MilestoneQueuedOnce`, `ShownBounded`, `StatusIsHonest`, `ClearedIsTold`; `PushPromiseSpec`: the refinement |

The *steady* user has everything pushed and quiet hours, and changes nothing: rows compete
for the worker's LIMIT, and two reminders, or one and a milestone, for the tick's. The other
one switches notifications off and on while two producers fill his outbox and two handlers
assemble his prompts; `UserNext` keeps out of the run what would only repeat a case (the
second reminder for him, prompts for the steady one, handlers while the worker is at a row
of the other channel). With a LIMIT of one a row or reminder waits behind another;
two handlers are what showing a row twice needs; one fault separates every pair of
statements once. The properties are stated relative to the number of faults so far, so a
second fault adds another instance of the same case.

**Fairness.** `Tick` and `Round` are weakly fair because the idle loop and the worker
each run in a task of their own, sleep 30 s, and swallow every exception. `Clock` is weakly
fair because time passes: a `remind_at` and an `expires_at` are reached. A milestone need
not ever be reached, a handler need never come, and nothing is assumed about failures.
Deadlock is checked.


| run | instance | shows |
|---|---|---|
| `research` | two items, three memories of which one is the user's, a limit of one session, one exception or restart, searches that fail at will | `EffectsMatchStatus`: one finding per search and one correction per confirmation, and one more per fault; `ClosedForGood`; `QueuedUnderLimits`; `EveryItemClosed` under fairness |
| `research_displaced` | the same | `ToldIsDisplaced`, what the notification says, is violated: see below |

Two items are what LIMIT 1 and one scan that searches one item and confirms another
need. A day is two hours long in the instance, and the confirmation comes after two hours
as in the code both are 24. To keep the states few, only one memory is archived, where
the next step reads rows, and hours pass between scans or while the LLM classifies;
the theorems do without these restrictions. `MaxFaults` bounds exceptions and restarts.

**Fairness.** `Progress` is weakly fair: the Tier 1 loop has a task of its own, comes round
every 30 s and isolates every error. `Tick`: hours pass. `Answered` is strongly fair: a search
may fail any number of times, but the provider answers again and again; without this an item
stays pending for ever, as nothing expires it. `EveryItemClosed` also needs the agent to
keep two recent memories: with fewer the scan returns before it looks at the queue.

| run | instance | shows |
|---|---|---|
| `rumination` | three threads, two topics, threads of at most three cycles, histories and archives of two, two faults | `ThreadsOnce`: a thread is archived once, for its true reason, never active again, in memory and in the file; `FileCurrent`: the file keeps up with memory; `NoRepetition`: clients get no topic more than twice in four; `EveryThreadEnds` under fairness |

The limits are scaled so that all are met: three cycles with a flat gut after one make the
flat end, the last cycle and the ends that do not come all possible; three threads with an
archive of two drop the oldest; a window of three topics with two repetitions is filled
and slides. Two faults are a failing call and then a restart, or a torn save and what is
built on it. `MaxThreads` ends the run: a heartbeat then finds no memory, which it may at
any time.

**Fairness.** `Heartbeat` is weakly fair: the idle loop sleeps 30 s, intervals are at most
hours, calls return or raise (`Fail`, which is bounded), and `_safe_run` swallows what they
raise. Nothing is assumed about random pops or resolution: `EveryThreadEnds` rests on
`MAX_THREAD_CYCLES` alone. The restart counts as a fault, so a thread may be thrown back
to its last save only so often; a service that crashed in every heartbeat would never
end one.

| run | instance | shows |
|---|---|---|
| `delivery` | one live delivery of two payloads, two recoveries that overlap it and each other, one retry, one crash or disk error | `NothingLost`: a message that was written ahead and has left the queue went out completely, was parked or aborted, unless it was sent with best effort or cut off by a timeout of its own call; `AtLeastOnceSpec`: the refinement; `EveryEntrySettled`: every entry leaves the queue |
| `delivery_starved` | the code's own retries (five), delays and budget (60 s) | `EveryEntrySettled` is violated: see below |

Two payloads make a half-sent message; two recoveries and the live call are what losing an
update of `retryCount`, or bringing an acknowledged file back, needs. A second delivery
only adds a place in the snapshot: entries are handled one by one and share nothing but the
budget, which `delivery_starved` is about. `MaxRetries` is one there, which
lets an entry be tried again and then be parked; from three on the run would starve like
`delivery_starved`, since the wait before the third try is 120 s. Deadlock is checked in both.

**Fairness.** A call in flight goes on (`Run`: sends return or raise, files are written or
not); a recovery goes on; the gateway is started again and again with the budget in use
(`Start` is strongly fair: it is possible only when no recovery of that name is under way).
Sends may fail for ever.

| run | instance | shows |
|---|---|---|
| `cron` | a recurring job that is there, a one-shot job (`deleteAfterRun`) that may be added, two services over one file, two events out of: calls, manual runs, hot reload, restart, crash, failing reads (of a start too) and writes, two-hour batches | `NoOverlap`, `OccurrenceOnce`, `NeverSkipped`: no job beside itself, no occurrence twice or passed over, but for the named exceptions; `EveryDueRuns` under fairness |
| `followup` | five messages to two routes in both modes and all policies, a cap of two, one abort, one run that throws, three queue objects | `FifoQueueSpec`: the refinement, so a message vanishes only if the cap or an abort moved positions; `InOrder`: none is run twice or overtaken; `QueuedIsDrained` under fairness |

With `cron` TLC evaluates `SchedulesAssumption`: the arithmetic of `CronSchedule` against a
reference definition, for small periods, anchors and times, zero and negative settings included.

`cron`: one occurrence of the recurring job comes, and its next run is for a second one that
does not come any more (`MaxOcc`); every pair of events in every order; a hot reload with a call to the old
service, a crash after a failed write, and a manual run beside a tick are such pairs.
`followup`: a cap of two with five messages lets the cap drop while a batch is running, and
the queue fill again; three objects are an abort while a drain is running and another one
after that. Neither checks deadlock: time, messages and events are bounded, and when they
are used up an idle scheduler or queue really stops.

**Fairness of `cron`.** `Tick` and `Holding` are strongly fair: the lock is a promise chain that
is handed on in the order of the requests, and another service may hold it again and again;
executions end or are given up by their timeout (inside the lock they have none and are
assumed to end). A marker that nobody clears is two hours old some time; a dead process is
started again (`Boot`).

**Fairness of `followup`.** A turn ends; the drain's next step is taken; a run returns (or
throws). Nothing is assumed about arrivals, aborts and failures.

## What is proved

**MemoryWeights_proofs** proves every property of the weight runs and the type invariant for any set of
memories, any finite non-empty set of callers, any set of mergers and any natural
gains. Assumptions: `Immutable` is a set of memories, the callers are finitely
many, and a stored memory starts below the ceiling.

The inductive invariant `IInv` is `TypeOK` with

* `DeepInv`: Phase B is on exactly while a deep cycle runs, and nothing is granted
  in it (Gate 1 is asked with no evidence);
* `CallInv`: per caller, what its program counter says of its snapshot: rows still
  to do were counted as accessed, a granted row passed the ceiling in the snapshot;
* `MergeInv`: the weights a merger holds obey the bound of the row they were read from;
* `RoomInv`: the heart of it. The *holders* of a row are the callers that may still
  add their gain because the row in their snapshot passes the ceiling. There is a
  holder for which the row has room for its own gain plus one `Gain` for each other
  holder. `RoomJoin` (a new holder selects the current weights), `RoomSpend` (a
  holder adds its gain and leaves) and `RoomShrink` (holders leave, slack does not
  shrink) are the three ways the room can change; every action is one of them.
* `InsightInv`: so do the weights an insight has read from its sources;
* `SeedInv`: immutable rows exist from the start.

Two more theorems follow that no run repeats, since the repository says the opposite of
them: `NoBonus`, no retrieval is ever given the doubled gain of a dormant memory, and
`DeepCycleFrozen`, no step of the deep cycle changes a weight. The run `weights_promotion`
shows a trace of the second.

`CeilingOverrunBounded` is not inductive by itself: whether a granted UPDATE stays
within the bound depends on all the other callers that hold a grant on the same row.


**Dedup_proofs** proves, for any set of memories and any set of jobs:

* `RankedKeepsIdeas`: if the LLM ranks the memories (injective, bounded `Quality`,
  and never a synthesis without text), `NoIdeaLost` holds under every interleaving,
  failure, restart and dry run. The invariant says that every verdict found,
  recorded or in execution prefers the higher rank (`RankInv`); then a chain of
  survivors climbs for ever, which well-foundedness of the naturals excludes
  (`HighestRank`).
* `AloneKeepsIdeas`, `AloneMergesLiveRows`, `AloneKeepsWeights`: with a single job,
  no dry runs and no failures, nothing is lost even if the LLM contradicts itself.
  `NoIdeaLost` is not inductive: the step that archives needs its survivor not
  archived. `AloneInv` gives that, because then a redundant verdict in the table
  belongs to a pair that is being executed or of which one row is gone (`Settled`),
  so the cache never brings up a stale one (`QueueOpen`).

Both hypotheses matter: two jobs that judge a pair at the same time and contradict each
other, or an empty synthesis executed twice, lose ideas.

* `AloneCountsOnce`, for such a job too. `CountedOnce` speaks of the time outside of a merge
  only; its invariant `CountInv` has to say how it is broken during one. Two live rows contain
  the same memory only if one of them is the row merged into and the other a loser that is
  still to be archived (`Apart`); the weights in a job's hands are found in no other live row
  (`HeldApart`); nothing is contained twice (`Once`) or before it is stored (`Fresh`).
* `KeepsPartition`, under either hypothesis: the refinement of `IdeaPartition` from
  `NoIdeaLost` before and after a step. It gives every memory exactly one home (`HomesAreRight`:
  memories without a home, or with two, would be a set of archived rows closed under
  `survivor_id`). `ArchiveJoins` is the case that matters: the survivor's home cannot be the
  loser, as its ideas would be lost after the step. `DeleteParts` says what stays at a deleted
  row. TLC checks the refinement with a lone job; with racing jobs it has been left to the
  proof, since computing homes at every step of that run takes too long.


**Outbox_proofs** proves every safety property of the outbox run for any number of
reminders, milestones, rows, handlers and failures. The assumptions are that the
handlers are finitely many and what the declarations say of the constants.

* `WorkInv`: what the worker has selected is a pending push until it is marked, and
  what a handler has to mark is passive and in its prompt. This is why a mark, which
  tests nothing, cannot reach over an expiry (`ClosedRowsStay`).
* `PushInv`: a row that may still be sent has been sent no more often than things
  failed (`PushesBounded`).
* `TickInv`: a reminder in the tick's hands is due until cleared, and boosted before;
  with it `ReminderInv` (a queued reminder is cleared and out of the tick's hands),
  `ForgottenInv` and `MilestoneInv` (a milestone still to be logged has been queued no
  more often than things failed) give `RemindersQueuedOnce`, `RemindersTold` and
  `MilestonesQueuedOnce`. The last two count sets, so they rest on `FewMore`: one
  failure adds at most one element.
* `ShownInv`: of a row that is not marked yet, the prompts that show it and have no mark
  to come are no more than the failures. A handler that selects it then adds itself to
  the holders, of whom there are never more than handlers (`PromptsBounded`).
* `HonestInv`: between a send and its mark, the answer tells whether the row was sent.


**ResearchQueue_proofs** proves every safety property of the run `research`, for any memories,
items, limits and failures (`QueuedWithinLimits` for finitely many items: it counts sessions),
and `NeverDisplaced`: where a displacement is announced, a correction is stored and no weight
was added. This contradicts what the repository says, so no run has it as a property;
`research_displaced` shows a trace.

* `HandInv`: the row the coroutine has selected still has the status it was selected by,
  since nobody else updates `research_queue`; a decided one has a loser. With `AskedInv`
  (only items with a question get beyond pending) the steps balance their effects:
  `FaultKeepsEffects` is the one place where a finding or correction can be left
  without its status, and it pays with a fault (`EffectsCounted`).
* `FreshInv` and `UserInv`: nothing is stored before the first search, and the user's
  memories are kept out where a pair is queued.
* `LimitsInv`: at the INSERT the limits hold as at the check, because hours only take
  sessions out of the two windows.
* `KeepsPushPromise`: `Outbox` implements `PushPromise`. The phase of a message is its row's
  status, but for the row whose attempt is at hand, of which it is how the attempt ended.
  Here `WorkInv` is needed again: the row at hand must be an open push, or its mark would move
  a closed row. `Insert` accepts, `Send` sends, refuses or misjudges, `MarkSent` closes,
  `Expire` expires all late rows but none at hand (the worker expires and sends in one task),
  `FailRound` and `Restart` lapse, and all else, the other failures included, changes no phase.

**Rumination_proofs** proves `TypeOK`, `ThreadsOnce`, `FileCurrent` and `NoRepetition` for any
limits, topics, threads and faults.

* `Sound(r, n)` says of a manager that it has its type, is well kept and knows only the first
  `n` threads; it grows with `n` (`SoundGrows`), and each operation of the manager keeps it
  (`EndSound`, `StartSound`, `ContinueSound`, and `BlankSound` for a file that is gone). Both
  `rm` and `file` are sound at every moment, so that whichever of them the next heartbeat
  starts from is.
* The archive is cut with `Latest`; `LatestAppend` says what a cut list is, and
  `ArchiveGrows` and `HistoryGrows` follow for the two lists.
* `PcInv` ties the program counter to the thread: there is one before a further thought and
  before a first, none while sampling. Without it `EndThread` could archive `NoThread`,
  and the `superseded` of `start_thread` would be possible; it never is.
* `FileInv` is `FileCurrent` for every point between the save and the end of a heartbeat.

* `NoRepetition` counts in a window that slides over two lists, while the filter counts in a
  third one. `Remembered` says that this one is the end of the other two put together, but for
  a thought that is queued and not remembered yet. `FilterSees` is an injection from what a
  window has of a topic to what the filter counts of it; `SpacedGrows` adds a thought that has
  passed the filter. Draining moves a thought from one list to the other and changes nothing.

**DeliveryQueue_proofs** proves `NothingLost` and the refinement of `AtLeastOnce`, for any
deliveries, payloads, recoveries, budgets and delays.

* The invariant says that a delivery that was not called has left no trace (`Untouched`),
  that a call in flight is at a delivery that was written, or is a live one without a file,
  and that what it has passed without a failure was sent (`Good`); so an acknowledgement
  finds every payload out, or best effort asked for, or an abort, or a timeout that was taken
  for one (`cut`).
* `ReturnStep`, `SettleStep`, `CallStep` are the three shapes of a step; an action is an
  instance of one of them. The refinement then is one mapping per action: `Enqueue` owes,
  `FailWrite` owes (again, if the file had gone meanwhile), `Ack` settles, `MoveToFailed`
  parks, `TimesOut` cuts off, everything else but sends and aborts stutters.

**CronService_proofs** proves `NoOverlap`, `NeverSkipped` and `OccurrenceOnce` for any jobs,
services, backoffs and events.

* `Lone`: unless all jobs are excused, only the service that the request handlers know does
  anything. It is what `Boot`, `Reload` and `Restart` have to keep.
* `Marks`: a job in the batch of a tick is enabled and marked as running, in the file and in
  memory, and is not executed in the lock as well; `run` looks at the memory's marker and
  `Collect` at the file's, and this is why neither takes a job that the other has. Every
  recomputation must keep the markers (`MaintainEntries`, `RecomputeEntries`), which is
  where the excuses come from: a disabled job loses its marker, and so does one of two hours.
* `Known` (an id is added once) keeps an `add` from replacing a job in a batch; `Rests` says
  that a service that is off or has not started does nothing.
* Overlap is a count of services; `Lone` reduces it to one tick and one hold, `Marks` to one of
  the two (`AtMostOne`).
* `NeverSkipped` needs that the next runs in memory are those of the file (`Synced`), as an
  execution's result is applied to what was reloaded, and maintenance starts from it and leaves
  a next run that is set where it is (`MaintainNext`).
* `OccurrenceOnce` has an invariant of its own, `OnceInv`. Executions are for occurrences that
  have come (`Past`), so that a next run computed anew is for a later one. An entry that still
  shows an occurrence that was executed or is in a tick's batch is guarded by its marker, or
  in the lock, until the result is applied (`FileGuarded`, `MemGuarded`); so what a batch has
  not begun was not executed (`Unbegun`). `Sole` and `Single` are for this what `Lone` is for overlaps.
* About `CronSchedule`, for all integers as period and anchor: the next run is the first
  occurrence that is not past (`NextEveryIsFirst`), and it is the occurrence after those that
  have come, as `NextRun` has it, but for a job looked at in the very millisecond of an
  occurrence (`NextEveryIsToCome`). Both rest on `Divided` (what `Math.floor` of a quotient is)
  and on products growing with their factors; nothing is proved by induction.

**FollowupQueue_proofs** proves `IsFifoQueue`, `LossNeedsOverflow` and `InOrder` for any messages, routes, cap
and number of queue objects, aborts and failures.

* `Tame`: the items of an object are in the order of their numbers, and those behind the ones
  in flight are younger. Removing by position keeps this.
* `Exact`: as long as the cap was not hit and nothing was cleared, the messages in flight are
  the first items of the object, so that what is removed is what was run and nothing vanishes.
* `Alone` and `Apart`: before an abort there is one object with a drain, and objects share no
  message; `Young`: what is still to be run is younger than what was run. `InOrder` follows.
* `IsFifoQueue` is the refinement of `FifoQueue`: the line is what waits in the object that the
  map has. `Alone` makes this the only one, and `Exact` makes removal by position the serving of
  the front. A new message joins or, at the cap, is refused; a run that throws, or is for
  messages already run, leaves the line alone. What disturbs stays so (`DisturbedStays`).

Model-checked only: the liveness of all modules (`DueFires`, `PushClosed`, `EveryItemClosed`,
`EveryThreadEnds`, `EveryEntrySettled`, `EveryDueRuns`, `QueuedIsDrained`), since neither
fairness nor ENABLED is within the prover's reach. Every other property of a run that is
expected to pass is a theorem.
No proof takes anything on trust but the named assumptions on the constants.

## Where the code and its documents disagree

Three disagreements are runs that TLC finds violated:

* **Promotion promotes nothing** (`weights_promotion`). `consolidation.py:1293` says of
  `_promote_patterns`: "Promote frequently accessed memories by reinforcing weights
  directly.", and KB_01:380 gives the gains. `_deep_cycle` switches Phase B on before the
  step, and the step asks `check_weight_change` without evidence or confidence: Gate 1
  (`safety.py:214`) refuses every candidate. Deep decay and the weakening of insights fare
  the same (theorem `DeepCycleFrozen`).
* **A confirmed research displaces nothing** (`research_displaced`). KB_01:376 says "beta +=
  5.0 on loser via safety", the comment at `consolidation.py:759` "displace the loser via
  safety", and the notification "Research confirmed: displaced memory". The call at line 771
  passes the 5.0 as `current_beta` and 0.0 as `delta_beta`; correction and notification go out
  all the same (theorem `NeverDisplaced`).
* **A delivery that failed twice is never retried** (`delivery_starved`).
  `delivery-queue.ts:212` says that a recovery "Uses exponential backoff and moves entries
  that exceed MAX_RETRIES to failed/." The waits before the third and later tries, 120 s and
  600 s, do not fit the 60 s a recovery is given (`server.impl.ts:509` passes no other), and
  then the loop ends for all entries (`delivery-queue.ts:265`). Such an entry is neither sent
  nor parked, by any number of starts, and as the oldest it is met first by each.

Observations the models record, without a run of their own. In the brain:

* The ceiling is not hard: `safety.py:84` says HardCeiling "Blocks if new weight center would
  exceed MAX_CENTER.", but it blocks on a snapshot (`CeilingOverrunBounded` says by how much it
  is passed).
* Two jobs that judge one pair at the same time each execute their own answer; if the answers
  contradict each other both rows are archived. The properties of `Dedup` need a ranking LLM
  or a job alone.
* `schema.sql` creates no column `synthesis`: on a new database every `dedup_pair` raises and
  the sweep counts errors (`SynthesisColumn` is TRUE in the runs).

* The novelty bonus of `memory.py:608` ("dormant with score>0.9 get 0.2", KB_01:67) is
  never granted: the UPDATE of step 1 counts the access first (theorem `NoBonus`).
* Neither the sweep nor `dedup_pair` nor `archive_memory` excludes immutable rows, so a
  seed can be merged and archived; `ImmutableOnlyMerged` says that this is the only way
  it can change.
* A verdict found in the cache (`consolidation.py:124`) skips the check that both rows
  are live, and a merge that fails between the transfer and the archiving
  (`memory.py:921`) is executed again from the cache and adds the weights twice. Both are
  why `MergesLiveRows` and `CountedOnce` are stated for a job alone and without failures.
* The docstring of `_check_due_reminders` (`idle.py:164`) gives the order boost,
  enqueue, clear; the code clears before it enqueues, so a failure between the two loses
  the notification (`ClearedIsTold` bounds the loss by one reminder for each failure).
* A reminder is logged as delivered, and a milestone is never announced again, also when
  `enqueue` returned -1 because notifications are off.
* KB_01:376 says that a displacement needs "both searches agree + MEDIUM confidence";
  the code looks at the structural confidence of the second search only.
* "Rate-limits (1/hour, 24/day)" is asked when an item is queued (`QueuedUnderLimits`), never
  when one is searched: a scan may search one item and confirm another, six times an hour.
* The scan queues every pair it sampled (`consolidation.py:508`), also those the LLM has
  just found not to contradict each other.
* "Persist all rumination states on shutdown" (`idle.py:111`) does not happen: `api.py:117` cancels
  the loop's task, and in the image's Python 3.12 the cancellation leaves `run` at its
  `await`. As every heartbeat saves what it does, all that is lost is a pop or a new thread
  whose first thought is still on its way.
* The thought that ends its thread, by the last cycle or a flat gut, is never queued:
  `idle.py:690` raises an AttributeError that `_safe_run` logs. The gut is not fed either,
  though KB_01:462 says that it is "after every branch".
* Thoughts are said to be surfaced by the plugin (`idle.py:4`), which never asks for
  them: its `brainGetDMNThoughts` has no caller. The queue then grows until the restart.
* `rumination.py:173` overwrites the file in place. A torn file loads as a fresh manager; the
  properties hold in spite of that, but the archive is gone.

In the gateway:

* The comment at `server.impl.ts:509` speaks of deliveries left by a crash or restart; a
  recovery also finds what a live call is just sending, and sends it again. `deliver.ts:219`
  says that failed payloads are tracked with bestEffort; three callers and every recovery
  pass no `onError`, and then a message whose payloads all failed is acknowledged
  (`NothingLost` and `AtLeastOnce` leave best effort aside for this).
* `deliver.ts:202` says "persist before sending, remove after success.", but line 246 removes
  the file on any error named AbortError. A Signal send that takes longer than its ten seconds
  (`utils/fetch-timeout.ts:30`, `signal/client.ts:63`) throws one though nobody withdrew the
  message, and a live call without bestEffort then gives up a message that may not be out
  (`TimesOut`; `NothingLost` and `AtLeastOnce` leave such messages aside by name).
* A start of the cron service that cannot read its file, or not write a migrated one, ends
  before it arms the timer (`ops.ts:36`), and `server.impl.ts:506` only logs it: due jobs wait
  for the next call that writes. This is an exception in `EveryDueRuns`.
* A hot reload (`server-reload-handlers.ts:68`) while a one-shot job is executed: the start of
  the new service clears its marker and its first tick executes it again, although
  `docs/automation/cron-jobs.md:499` says that one-shot jobs disable after a terminal run. The
  request handlers keep the old service (`server.impl.ts:552`), whose memory then overwrites
  the file. This is why `Reload` excuses all jobs.
* A one-shot job interrupted by a crash is executed again by the first tick, in spite of the
  changelog's #16694; a recurring one is not, and `OccurrenceOnce` checks that.
* When the write of a disable or a manual run fails, memory is ahead of the file and the timer
  is not set (`HoldFinish`, `Call`): this is an exception in `EveryDueRuns` too.
* A followup vanishes without run or summary if, while a batch is running, later arrivals hit
  the cap: the cap shifts the first items away and `drain.ts:123` then splices younger ones.
  `docs/concepts/queue.md:69` promises a short list of dropped messages. Erasing the summary
  state after the run (`drain.ts:145`) also erases what was dropped during it. That the cap or
  an abort is needed for a loss is proved (`LossNeedsOverflow`).
* In mode `followup` a drain with dropped messages to tell and no message left neither runs nor
  ends (`Spins`); `QueuedIsDrained` excludes it by name.
* The `finally` of a drain deletes whatever queue the map holds by then (`drain.ts:163`): after an
  abort this may be a newer one, and two drains run beside each other. This is why `InOrder`
  promises the order of messages only until an abort.
* A turn that throws (`agent-runner.ts:514`) does not schedule the drain: what was queued waits
  for the next turn of the session.

## Left out, and the plan

### What is modelled, and in which order the rest follows

Modelled first is what the agent cannot do without: its memories (weights, then the
merging that archives them), then the one path on which it reaches its user, then the
queue that decides between memories that contradict each other, then what it does when
nobody talks to it; in the gateway, the three queues on which every answer depends. The
rest, in order of how much can go wrong:

1. **CommandLanes** (`openclaw/src/process/command-queue.ts`): the lanes in which runs wait, with
   generations that make the completions of a lane's tasks void after a reset; with
   FollowupQueue it would say which runs may overlap.
2. **HeartbeatWake** (`openclaw/src/infra/heartbeat-wake.ts`): coalescing wake requests with
   priorities and retries; a request must not be lost when a run is skipped.
3. **SessionStore** (`openclaw/src/config/sessions/store.ts`, `agents/session-write-lock.ts`):
   read-modify-write under a lock file with stale-lock removal, against the cache.
4. **Subagents** (`openclaw/src/agents/subagent-registry.ts`): announcing a finished run once over
   restarts.
5. **Protections** (`idle.py` 218-318), beside the reminders of `Outbox`: an expired protection is
   judged by the LLM and extended or cleared by id, whatever was written to it in between.
6. **DeepSchedule** (`consolidation.py` 985-1085, 1219-1288, 1566-1690): manual triggers against
   the hourly schedule, with the clustering and contextual steps, whose two writes can be torn.
7. **Gate** (`gate.py`, `api.gate_memory`): the decision tables as operators against a reference
   definition, the life of a scratch row.
8. **ContextAssembly** (`context_assembly.py`): the identity cache against archiving (composes
   with the rows of `Dedup`), the token budget.
9. **TaskOrder** (`taskmaster._toposort_tasks`) as a pure algorithm.

### Composition and abstract specifications

* **AtLeastOnce**, implemented by `DeliveryQueue`, **PushPromise** by `Outbox`, **FifoQueue** by
  `FollowupQueue` and **IdeaPartition** by `Dedup` are checked and proved.
* `MemoryWeights` and `Dedup` model the execution of a verdict twice, once as numbers and
  once as ideas; a refinement from one to the other would say that they agree.

### Theorems to come

The agreement of `MemoryWeights` with `Dedup` and
an abstract specification for `ResearchQueue` and for `Rumination`.

### Hazards seen and not on the list

The list of hazards names those of the modelled parts. In parts that are not modelled: the
process-wide Phase B switch while HTTP handlers mutate (`safety.py:405`); triggered agents
that keep the hourly schedule waiting (`consolidation.py:1010`); contextual text written before
its embedding (`consolidation.py:1646`); a protection released by id after an LLM call
(`idle.py:286`); the scratch row of a failed REINFORCE (`api.py:612`); the identity cache
injecting archived memories (`context_assembly.py:157`); thoughts drained before the answer is
on its way (`dmn_store.py:54`).

### Not modelled

Floating-point and vector arithmetic (similarity, gut, activation, stochastic choice) is
a free choice wherever a state change depends on it. What the LLM, the embedding
service, Telegram and the channels do is free too, within what the code accepts. Searching
and ranking read only. `touch_memory` and `last_accessed` only matter for which rows decay
picks, and that is free. The rate limiter and Phase C of the `SafetyMonitor` cannot take
effect (see MemoryWeights).

Most of `openclaw/` is not modelled: of its some 440 000 lines of TypeScript the larger part
translates between formats and protocols (channel adapters, provider clients, command-line
and browser front ends, configuration schemas and their migrations, rendering of messages,
native apps) and keeps no state of its own that its steps could get wrong; a model of them
would repeat them. The parts with state and concurrency of their own are few and small by
comparison: the three queues above are modelled, lanes, wake requests, the session store and
subagents are in the plan. So the share of all lines that the definitions map is small and
will stay so, also when the plan is done.
