--------------------------- MODULE FollowupQueue ---------------------------
(***************************************************************************)
(* The followup queue of a session (src/auto-reply/reply/queue/*.ts).      *)
(*                                                                         *)
(* A message that arrives while an agent run of its session is active is   *)
(* queued; when a turn ends, the queue is drained: its messages are run    *)
(* one by one or collected into one run, and those that were dropped at    *)
(* the cap are told in a summary.  The drain awaits every run and removes  *)
(* from the queue afterwards, by position, while messages arrive and an    *)
(* abort may clear the queue.                                              *)
(*                                                                         *)
(* A queue is an object, and a map holds the present one of the session; a *)
(* drain keeps the object it was started with.  Messages are numbered in   *)
(* the order in which they are queued.  The lanes that make the runs of a  *)
(* session wait for each other are left out: any runs may overlap.  A      *)
(* dropped message counts as told although only the lines of the last Cap  *)
(* of them are kept, the others being told as a number.                    *)
(***************************************************************************)
EXTENDS Naturals, Sequences, FiniteSets

CONSTANTS
  Routes,      \* channel, recipient, account and thread of a message
  Unroutable,  \* routes that replies cannot be sent to directly
  Modes,       \* "collect", "followup"; the steering modes drain as "followup"
  Policies,    \* what happens at the cap: "summarize", "old", "new"
  Cap,         \* queued messages per session
  MaxQueues,   \* bound: queue objects that are alive at a time
  MaxMessages, \* bound: messages of the session
  MaxClears,   \* bound: aborts
  MaxFailures  \* bound: runs that throw

ASSUME FollowupAssumption ==
  /\ Unroutable \subseteq Routes
  /\ Modes \subseteq {"collect", "followup"} /\ Policies \subseteq {"summarize", "old", "new"}
  /\ Cap \in Nat \ {0} /\ MaxQueues \in Nat \ {0}
  /\ MaxMessages \in Nat /\ MaxClears \in Nat /\ MaxFailures \in Nat

VARIABLES
  queue,    \* the queue objects, each with its drain
  map,      \* FOLLOWUP_QUEUES: the object of the session, or None
  arrived,  \* messages that arrived
  late,     \* messages that found a run active and are not queued yet
  turns,    \* turns of the session that are in progress
  count,    \* messages that were queued
  clears, failures,
  thrown,   \* a turn ended with an exception
  ran,      \* history: the messages that were run
  settled,  \* history: dropped by policy, told in a summary, or cleared
  overflow  \* history: the cap was hit
arrivals == <<arrived, late, turns, count>>
bounds == <<clears, failures, thrown>>
history == <<ran, settled, overflow>>
vars == <<queue, map, arrivals, bounds, history>>

Queues == 1..MaxQueues
None == 0
Messages == 1..MaxMessages
Fresh == [items |-> <<>>, sum |-> {}, mode |-> "none", drop |-> "none",
          pc |-> "idle", force |-> FALSE, flight |-> <<>>, told |-> {}]

Nums(items) == {items[i].n : i \in DOMAIN items}
Empty(o) == o.items = <<>> /\ o.sum = {}
Rest(items, k) == SubSeq(items, k + 1, Len(items))
Running == turns > 0 \/ \E q \in Queues : queue[q].pc \in {"one", "batch", "summary"}

\* hasCrossChannelItems
Crossing(items) ==
  LET to == {items[i].to : i \in DOMAIN items} IN
  Cardinality(to) > 1 \/ to \cap Unroutable # {}

Init ==
  /\ queue = [q \in Queues |-> Fresh] /\ map = None
  /\ arrived = 0 /\ late = 0 /\ turns = 0 /\ count = 0
  /\ clears = 0 /\ failures = 0 /\ thrown = FALSE
  /\ ran = {} /\ settled = {} /\ overflow = FALSE

\* An object that is neither in the map nor drained is garbage.
Keep(Q, m) ==
  /\ map' = m
  /\ queue' = [q \in Queues |-> IF q # m /\ Q[q].pc = "idle" THEN Fresh ELSE Q[q]]

\* scheduleFollowupDrain: the object in the map, if nobody drains it.
Schedule(Q) ==
  IF map = None \/ Q[map].pc # "idle" THEN Keep(Q, map)
  ELSE IF Empty(Q[map]) THEN Keep(Q, None)
  ELSE Keep([Q EXCEPT ![map].pc = "wait", ![map].force = FALSE], map)

\* mutant of Finally: nobody is asked to go on with what is left.
FinallyGivesUp(q, Q) ==
  LET R == [Q EXCEPT ![q].pc = "idle", ![q].flight = <<>>, ![q].told = {}] IN
  Keep(R, IF Empty(R[q]) THEN None ELSE map)

\* The finally block: the map is emptied whatever it holds by now.
Finally(q, Q) ==
  LET R == [Q EXCEPT ![q].pc = "idle", ![q].flight = <<>>, ![q].told = {}] IN
  IF Empty(R[q]) THEN Keep(R, None) ELSE Schedule(R)

-----------------------------------------------------------------------------
(* Messages and turns *)

\* A message looks whether a run is active; a run that has only begun is not.
Arrive ==
  /\ arrived < MaxMessages /\ arrived' = arrived + 1
  /\ \/ Running /\ late' = late + 1 /\ UNCHANGED turns
     \/ turns' = turns + 1 /\ UNCHANGED late
  /\ UNCHANGED <<queue, map, count, bounds, history>>

\* getFollowupQueue: the object, made if there is none, with new settings.
Settle(o, mode, drop) == [o EXCEPT !.mode = mode, !.drop = drop]
Free == {q \in Queues : q # map /\ queue[q].pc = "idle"}

\* enqueueFollowupRun, some time after the message looked.
Enqueue(mode, drop, to) ==
  LET n == count + 1
      x == [n |-> n, to |-> to]
      q == IF map = None THEN CHOOSE f \in Free : TRUE ELSE map
      o == Settle(queue[q], mode, drop)
      k == Len(o.items) - Cap + 1  \* applyQueueDropPolicy
      first == Nums(SubSeq(o.items, 1, k))
  IN
  /\ late > 0 /\ late' = late - 1 /\ count' = n
  /\ map = None => Free # {}
  /\ map' = q
  /\ \/ /\ Len(o.items) < Cap
        /\ queue' = [queue EXCEPT ![q] = [o EXCEPT !.items = Append(@, x)]]
        /\ UNCHANGED <<settled, overflow>>
     \/ /\ Len(o.items) >= Cap /\ drop = "new"
        /\ queue' = [queue EXCEPT ![q] = o]
        /\ settled' = settled \cup {n} /\ UNCHANGED overflow
     \/ /\ Len(o.items) >= Cap /\ drop # "new"
        /\ queue' = [queue EXCEPT ![q] = [o EXCEPT
             !.items = Append(Rest(@, k), x),
             !.sum = IF drop = "summarize" THEN @ \cup first ELSE @]]
        /\ settled' = IF drop = "summarize" THEN settled ELSE settled \cup first
        /\ overflow' = TRUE
  /\ UNCHANGED <<arrived, turns, bounds, ran>>

\* isRunAlreadyQueued: a message that is delivered again is only skipped.
Duplicate(mode, drop) ==
  /\ late > 0 /\ late' = late - 1
  /\ map # None /\ queue[map].items # <<>>
  /\ queue' = [queue EXCEPT ![map] = Settle(@, mode, drop)]
  /\ UNCHANGED <<map, arrived, turns, count, bounds, history>>

\* finalizeWithFollowup; a turn that throws does not get there.
TurnEnd ==
  /\ turns > 0 /\ turns' = turns - 1
  /\ Schedule(queue)
  /\ UNCHANGED <<arrived, late, count, bounds, history>>
TurnThrows ==
  /\ turns > 0 /\ turns' = turns - 1
  /\ failures < MaxFailures /\ failures' = failures + 1 /\ thrown' = TRUE
  /\ UNCHANGED <<queue, map, arrived, late, count, clears, history>>

\* clearFollowupQueue; a drain of the object goes on.
Clear ==
  /\ map # None /\ clears < MaxClears /\ clears' = clears + 1
  /\ settled' = settled \cup Nums(queue[map].items) \cup queue[map].sum
  /\ Keep([queue EXCEPT ![map].items = <<>>, ![map].sum = {}], None)
  /\ UNCHANGED <<arrivals, failures, thrown, ran, overflow>>

-----------------------------------------------------------------------------
(* The drain of queue q *)

Begin(q, pc, flight, told, force) ==
  /\ queue' = [queue EXCEPT ![q].pc = pc, ![q].flight = flight,
                            ![q].told = told, ![q].force = force]
  /\ UNCHANGED <<map, arrivals, bounds, history>>

\* The debounce is over: the next run is chosen.
Collect(q) ==
  LET o == queue[q] IN
  /\ o.pc = "wait" /\ o.mode = "collect" /\ ~o.force /\ ~Crossing(o.items) /\ ~Empty(o)
  /\ Begin(q, "batch", o.items, IF o.drop = "summarize" THEN o.sum ELSE {}, FALSE)

\* mutant of RunOne: the newest message is run first.
RunNewest(q) ==
  LET o == queue[q]
      single == o.mode = "collect" /\ (o.force \/ Crossing(o.items))
      plain == o.mode # "collect" /\ (o.drop # "summarize" \/ o.sum = {})
  IN
  /\ o.pc = "wait" /\ o.items # <<>> /\ (single \/ plain)
  /\ Begin(q, "one", <<o.items[Len(o.items)]>>, {}, o.force \/ single)

RunOne(q) ==
  LET o == queue[q]
      single == o.mode = "collect" /\ (o.force \/ Crossing(o.items))
      plain == o.mode # "collect" /\ (o.drop # "summarize" \/ o.sum = {})
  IN
  /\ o.pc = "wait" /\ o.items # <<>> /\ (single \/ plain)
  /\ Begin(q, "one", <<o.items[1]>>, {}, o.force \/ single)

Summarize(q) ==
  LET o == queue[q] IN
  /\ o.pc = "wait" /\ o.mode # "collect" /\ o.items # <<>>
  /\ o.drop = "summarize" /\ o.sum # {}
  /\ Begin(q, "summary", <<>>, o.sum, o.force)

\* break: there is no message to go on with, or the queue has been cleared.
Break(q) ==
  LET o == queue[q] IN
  /\ o.pc = "wait" /\ o.items = <<>> /\ (o.mode # "collect" \/ o.force \/ o.sum = {})
  /\ Finally(q, queue)
  /\ UNCHANGED <<arrivals, bounds, history>>

\* mutant of Finish: a batch empties the queue.
FinishAll(q) ==
  LET o == queue[q]
      n == IF o.pc = "batch" THEN Len(o.items) ELSE 1
      p == [o EXCEPT !.items = Rest(@, n), !.flight = <<>>, !.told = {}, !.pc = "wait",
                     !.sum = IF o.told # {} THEN {} ELSE @]
      Q == [queue EXCEPT ![q] = p]
  IN
  /\ o.pc \in {"one", "batch", "summary"}
  /\ ran' = ran \cup Nums(o.flight) /\ settled' = settled \cup o.told
  /\ IF Empty(p) THEN Finally(q, Q) ELSE Keep(Q, map)
  /\ UNCHANGED <<arrivals, bounds, overflow>>

\* The run is over: what was run leaves the queue, by position.
Finish(q) ==
  LET o == queue[q]
      n == IF o.pc = "batch" THEN Len(o.flight) ELSE 1
      p == [o EXCEPT !.items = Rest(@, n), !.flight = <<>>, !.told = {}, !.pc = "wait",
                     !.sum = IF o.told # {} THEN {} ELSE @]
      Q == [queue EXCEPT ![q] = p]
  IN
  /\ o.pc \in {"one", "batch", "summary"}
  /\ ran' = ran \cup Nums(o.flight) /\ settled' = settled \cup o.told
  /\ IF Empty(p) THEN Finally(q, Q) ELSE Keep(Q, map)
  /\ UNCHANGED <<arrivals, bounds, overflow>>

\* The run throws, and nothing leaves the queue.
Fail(q) ==
  /\ queue[q].pc \in {"one", "batch", "summary"}
  /\ failures < MaxFailures /\ failures' = failures + 1
  /\ Finally(q, queue)
  /\ UNCHANGED <<arrivals, clears, thrown, history>>

-----------------------------------------------------------------------------
Choose(q) == Collect(q) \/ RunOne(q) \/ Summarize(q) \/ Break(q)
Next ==
  \/ Arrive \/ TurnEnd \/ TurnThrows \/ Clear
  \/ \E mode \in Modes, drop \in Policies :
       \/ \E to \in Routes : Enqueue(mode, drop, to)
       \/ Duplicate(mode, drop)
  \/ \E q \in Queues : Choose(q) \/ Finish(q) \/ Fail(q)

\* Runs, and the wait for a quiet moment, come to an end.
Fairness ==
  /\ WF_vars(TurnEnd)
  /\ \A q \in Queues : WF_vars(Choose(q)) /\ WF_vars(Finish(q))

Spec == Init /\ [][Next]_vars
FairSpec == Spec /\ Fairness

-----------------------------------------------------------------------------
Object == [items : Seq([n : Messages, to : Routes]), sum : SUBSET Messages,
           mode : Modes \cup {"none"}, drop : Policies \cup {"none"},
           pc : {"idle", "wait", "one", "batch", "summary"}, force : BOOLEAN,
           flight : Seq([n : Messages, to : Routes]), told : SUBSET Messages]
TypeOK ==
  /\ queue \in [Queues -> Object] /\ map \in Queues \cup {None}
  /\ arrived \in 0..MaxMessages /\ late \in Nat /\ turns \in Nat /\ count \in Nat
  /\ clears \in 0..MaxClears /\ failures \in 0..MaxFailures /\ thrown \in BOOLEAN
  /\ ran \subseteq Messages /\ settled \subseteq Messages /\ overflow \in BOOLEAN

Held(q) == Nums(queue[q].items) \cup queue[q].sum \cup Nums(queue[q].flight)
\* Messages that were queued and are in no queue, run, told, dropped by the
\* policy or cleared by the user.
Vanished == (1..count) \ (ran \cup settled \cup UNION {Held(q) : q \in Queues})

\* A message vanishes only from a queue that has been at its cap, or after an
\* abort: removal by position hits what was run otherwise.
LossNeedsOverflow == Vanished # {} => overflow \/ clears > 0

\* No message is run a second time, though a run that throws is repeated; and
\* none is overtaken, until an abort: the drain of a cleared queue takes the
\* queue that was made since out of the map, and the next one runs beside it.
InOrder ==
  [][\A q \in Queues : queue'[q].flight # queue[q].flight =>
       \A n \in Nums(queue'[q].flight), r \in ran : n # r /\ (clears = 0 => n > r)]_vars

\* Until the cap drops a message that was queued, or an abort clears the queue,
\* the objects, the map and the drain are one first-in-first-out queue: messages
\* are run from its front, each until a run of it succeeds, and none vanishes.
Numbered(items) == [i \in DOMAIN items |-> items[i].n]
Line == IF map = None THEN <<>> ELSE Numbered(queue[map].items)
Fifo == INSTANCE FifoQueue WITH
  Full <- Cap, line <- Line, came <- count, served <- ran, refused <- settled,
  disturbed <- overflow \/ clears > 0
FifoQueueSpec == Fifo!Spec

\* A drain that has dropped messages to tell and no message to tell them with
\* goes round for ever: in mode "followup", or after the policy was changed.
Spins(q) ==
  queue[q].items = <<>> /\ queue[q].sum # {}
  /\ (queue[q].mode # "collect" \/ queue[q].drop # "summarize")

\* A message that is queued while a turn is in progress leaves the queue,
\* unless that turn throws, the queue is cleared, or the drain spins.
QueuedIsDrained ==
  \A n \in Messages :
    map # None /\ turns > 0 /\ n \in Nums(queue[map].items)
      ~> \/ \A q \in Queues : n \notin Nums(queue[q].items)
         \/ thrown \/ \E q \in Queues : Spins(q)
=============================================================================
