--------------------------- MODULE ResearchQueue ---------------------------
(***************************************************************************)
(* Research sessions: the contradiction scan of the Tier 1 loop samples    *)
(* pairs of recent memories, queues those worth a web search, runs the     *)
(* first search of one queued item and the confirmation of one that was    *)
(* researched a day ago, and corrects the memory that lost.                *)
(*                                                                         *)
(* One coroutine does all this for an agent; beside it rows are archived,  *)
(* hours pass, statements raise and the process restarts.  What the scan   *)
(* itself stores (tension rows, a notification) is left out: nothing that  *)
(* follows depends on it, not even whether the LLM saw a contradiction.    *)
(***************************************************************************)
EXTENDS Integers, FiniteSets

CONSTANTS
  Memories,       \* ids, the newer of two being the smaller
  UserMemories,   \* those with source_tag external_user
  Items,          \* ids of research_queue, a SERIAL
  Verdicts,       \* which memory the first answer calls correct
  HourlyLimit, DailyLimit,
  Day,            \* hours in the window of DailyLimit
  ConfirmationHours,
  DisplaceBeta,
  MaxFaults       \* bound: exceptions and restarts

ASSUME MemoriesAssumption == Memories \subseteq Nat /\ UserMemories \subseteq Memories
ASSUME VerdictsAssumption == "unclear" \in Verdicts /\ Verdicts \subseteq {"A", "B", "unclear"}
ASSUME LimitsAssumption ==
  {HourlyLimit, DailyLimit, Day, ConfirmationHours, DisplaceBeta} \subseteq Nat \ {0}
ASSUME FaultsAssumption == MaxFaults \in Nat

VARIABLES
  live, beta,     \* memories: NOT archived, the displacement added so far
  recent,         \* two live memories are younger than 24 hours
  st, subject, asks, first, age,    \* research_queue
  findings, corrections, told,      \* what was stored and announced for an item
  logged,         \* age in hours of the research_session rows of the log
  pc, todo, pair, cur, hand,        \* the coroutine
  faults

queue == <<st, subject, asks, first, age>>
effects == <<beta, findings, corrections, told, logged>>
vars == <<live, recent, queue, effects, pc, todo, pair, cur, hand, faults>>

Pairs == {p \in Memories \X Memories : p[1] < p[2]}
ASSUME PairsAssumption == Pairs # {} /\ Items # {} /\ Items \subseteq Nat
Sessions == Items \X {"first", "confirmation"}
Closed == {"confirmed", "expired"}
AnyPair == CHOOSE p \in Pairs : TRUE
AnyItem == CHOOSE i \in Items : TRUE
NoHand == [verdict |-> "unclear", medium |-> FALSE, outcome |-> "expired"]

Capped(n, top) == IF n > top THEN top ELSE n
LivePair(p) == {p[1], p[2]} \subseteq live
Decisive(i) == first[i] \in {"A", "B"}
Loser(i) == IF first[i] = "A" THEN subject[i][2] ELSE subject[i][1]

Init ==
  /\ live = Memories
  /\ beta = [m \in Memories |-> 0]
  /\ recent = TRUE
  /\ st = [i \in Items |-> "none"]
  /\ subject = [i \in Items |-> AnyPair]
  /\ asks = [i \in Items |-> FALSE]
  /\ first = [i \in Items |-> "unclear"]
  /\ age = [i \in Items |-> 0]
  /\ findings = [i \in Items |-> 0]
  /\ corrections = [i \in Items |-> 0]
  /\ told = [i \in Items |-> {}]
  /\ logged = [s \in Sessions |-> Day]
  /\ pc = "idle" /\ todo = {} /\ pair = AnyPair /\ cur = AnyItem /\ hand = NoHand
  /\ faults = 0
-----------------------------------------------------------------------------
(* Around the coroutine.                                                   *)

\* Dedup or a DELETE takes a row away.
Archive(m) ==
  /\ m \in live
  /\ live' = live \ {m}
  /\ UNCHANGED <<recent, queue, effects, pc, todo, pair, cur, hand, faults>>

\* The agent falls silent for a day, or stores memories again.
Recency ==
  /\ recent' = ~recent
  /\ UNCHANGED <<live, queue, effects, pc, todo, pair, cur, hand, faults>>

\* An hour passes; ages are kept as far as the code compares them.
Tick ==
  /\ age' = [i \in Items |-> IF st[i] = "researched"
                             THEN Capped(age[i] + 1, ConfirmationHours + 1) ELSE age[i]]
  /\ logged' = [s \in Sessions |-> Capped(logged[s] + 1, Day)]
  /\ UNCHANGED <<live, recent, st, subject, asks, first, beta, findings, corrections, told,
                 pc, todo, pair, cur, hand, faults>>
-----------------------------------------------------------------------------
(* _contradiction_scan and _maybe_queue_research.                          *)

\* Up to two pairs are sampled (the empty set: pairs of other memories).
Eligible(p) == LivePair(p) /\ {p[1], p[2]} \cap UserMemories = {}

\* With fewer than two recent rows the scan returns before it looks at the
\* research queue.
Scan(S) ==
  /\ pc = "idle" /\ recent
  /\ Cardinality(S) <= 2 /\ \A p \in S : LivePair(p)
  /\ pc' = "queue" /\ todo' = S
  /\ UNCHANGED <<live, recent, queue, effects, pair, cur, hand, faults>>

\* The SELECT of both rows; at least one of them must weigh 0.3 (weights are
\* not modelled: an eligible pair may be dropped).
Weigh(p) ==
  /\ pc = "queue" /\ p \in todo
  /\ todo' = todo \ {p}
  /\ \/ Eligible(p) /\ pc' = "limits" /\ pair' = p
     \/ UNCHANGED <<pc, pair>>
  /\ UNCHANGED <<live, recent, queue, effects, cur, hand, faults>>

Hourly == Cardinality({s \in Sessions : logged[s] < 1})
Daily == Cardinality({s \in Sessions : logged[s] < Day})
\* mutant of UnderLimits: at the limit, one more
UnderLimitsOrAt == Hourly <= HourlyLimit /\ Daily <= DailyLimit
UnderLimits == Hourly < HourlyLimit /\ Daily < DailyLimit

\* The limits are asked when an item is queued, and not when it is searched.
CheckLimits ==
  /\ pc = "limits"
  /\ pc' = IF UnderLimits THEN "classify" ELSE "queue"
  /\ UNCHANGED <<live, recent, queue, effects, todo, pair, cur, hand, faults>>

\* The LLM calls the contradiction factual and worth a search, with or
\* without a research_question: INSERT.
Enqueue(i, question) ==
  /\ pc = "classify"
  /\ st[i] = "none" /\ \A k \in Items : k < i => st[k] # "none"
  /\ st' = [st EXCEPT ![i] = "pending"]
  /\ subject' = [subject EXCEPT ![i] = pair]
  /\ asks' = [asks EXCEPT ![i] = question]
  /\ pc' = "queue"
  /\ UNCHANGED <<live, recent, first, age, effects, todo, pair, cur, hand, faults>>

\* Subjective, unsure, not worth a search, or not JSON.
Dismiss ==
  /\ pc = "classify"
  /\ pc' = "queue"
  /\ UNCHANGED <<live, recent, queue, effects, todo, pair, cur, hand, faults>>

EndQueueing ==
  /\ pc = "queue" /\ todo = {}
  /\ pc' = "pending" /\ pair' = AnyPair
  /\ UNCHANGED <<live, recent, queue, effects, todo, cur, hand, faults>>
-----------------------------------------------------------------------------
(* _process_research_queue, first half, and _run_first_research.           *)

\* LIMIT 1 without ORDER BY: any pending row.
PickPending(i) ==
  /\ pc = "pending" /\ st[i] = "pending"
  /\ cur' = i
  /\ pc' = IF asks[i] THEN "search" ELSE "no question"
  /\ UNCHANGED <<live, recent, queue, effects, todo, pair, hand, faults>>

NothingPending ==
  /\ pc = "pending" /\ \A i \in Items : st[i] # "pending"
  /\ pc' = "awaiting"
  /\ UNCHANGED <<live, recent, queue, effects, todo, pair, cur, hand, faults>>

\* mutant of ExpireUnasked: the item is passed over
PassUnasked ==
  /\ pc = "no question"
  /\ pc' = "awaiting"
  /\ UNCHANGED <<live, recent, queue, effects, todo, pair, cur, hand, faults>>

ExpireUnasked ==
  /\ pc = "no question"
  /\ st' = [st EXCEPT ![cur] = "expired"]
  /\ pc' = "awaiting"
  /\ UNCHANGED <<live, recent, subject, asks, first, age, effects, todo, pair, cur, hand, faults>>

\* The LLM with web search answers; its text names A, B or neither of them
\* in the form that is looked for later.
Search(v, medium) ==
  /\ pc = "search"
  /\ hand' = [hand EXCEPT !.verdict = v, !.medium = medium]
  /\ pc' = "finding"
  /\ UNCHANGED <<live, recent, queue, effects, todo, pair, cur, faults>>

\* RuntimeError: the item stays as it is.
SearchFails ==
  /\ pc \in {"search", "verify"}
  /\ pc' = IF pc = "search" THEN "awaiting" ELSE "idle"
  /\ UNCHANGED <<live, recent, queue, effects, todo, pair, cur, hand, faults>>

\* A memory of type research_finding.
StoreFinding ==
  /\ pc = "finding"
  /\ findings' = [findings EXCEPT ![cur] = @ + 1]
  /\ pc' = "mark"
  /\ UNCHANGED <<live, recent, queue, beta, corrections, told, logged, todo, pair, cur, hand, faults>>

\* mutant of MarkResearched: the status is forgotten
MarkNothing ==
  /\ pc = "mark"
  /\ first' = [first EXCEPT ![cur] = hand.verdict]
  /\ pc' = "log first"
  /\ UNCHANGED <<live, recent, st, subject, asks, age, effects, todo, pair, cur, hand, faults>>

MarkResearched ==
  /\ pc = "mark"
  /\ st' = [st EXCEPT ![cur] = "researched"]
  /\ first' = [first EXCEPT ![cur] = hand.verdict]
  /\ pc' = "log first"
  /\ UNCHANGED <<live, recent, subject, asks, age, effects, todo, pair, cur, hand, faults>>

Log(phase) == logged' = [logged EXCEPT ![<<cur, phase>>] = 0]

LogFirst ==
  /\ pc = "log first"
  /\ Log("first")
  /\ pc' = IF hand.medium THEN "tell finding" ELSE "awaiting"
  /\ hand' = NoHand
  /\ UNCHANGED <<live, recent, queue, beta, findings, corrections, told, todo, pair, cur, faults>>

\* Outbox takes the notice or raises, which is swallowed.
Tell(notice) ==
  \/ told' = [told EXCEPT ![cur] = @ \cup {notice}]
  \/ UNCHANGED told

TellFinding ==
  /\ pc = "tell finding"
  /\ Tell("finding")
  /\ pc' = "awaiting"
  /\ UNCHANGED <<live, recent, queue, beta, findings, corrections, logged, todo, pair, cur, hand, faults>>
-----------------------------------------------------------------------------
(* _process_research_queue, second half, and _run_confirmation_research.   *)

\* mutant of Due: the status is not looked at
DueAgain(i) == age[i] > ConfirmationHours
Due(i) == st[i] = "researched" /\ age[i] > ConfirmationHours

PickDue(i) ==
  /\ pc = "awaiting" /\ Due(i)
  /\ cur' = i
  /\ pc' = "verify"
  /\ UNCHANGED <<live, recent, queue, effects, todo, pair, hand, faults>>

NothingDue ==
  /\ pc = "awaiting" /\ \A i \in Items : ~Due(i)
  /\ pc' = "idle" /\ cur' = AnyItem
  /\ UNCHANGED <<live, recent, queue, effects, todo, pair, hand, faults>>

\* The second search.  Its own answer and its own sources decide; a loser
\* is looked for in the text of the first.
Verify(confirmed) ==
  /\ pc = "verify"
  /\ hand' = [hand EXCEPT !.outcome = IF confirmed THEN "confirmed" ELSE "expired"]
  /\ pc' = IF confirmed /\ Decisive(cur) THEN "displace" ELSE "close"
  /\ UNCHANGED <<live, recent, queue, effects, todo, pair, cur, faults>>

\* check_weight_change(0.0, 0.0, RESEARCH_DISPLACE_BETA, 0.0, 0.0): the third
\* parameter is current_beta; delta_beta, which is returned, is the fifth.
DeltaBeta == 0

Displace ==
  /\ pc = "displace"
  /\ beta' = [m \in Memories |-> IF m = Loser(cur) /\ m \in live THEN beta[m] + DeltaBeta
                                 ELSE beta[m]]
  /\ pc' = "correct"
  /\ UNCHANGED <<live, recent, queue, findings, corrections, told, logged, todo, pair, cur, hand, faults>>

\* A memory of type correction, with the loser's id.
StoreCorrection ==
  /\ pc = "correct"
  /\ corrections' = [corrections EXCEPT ![cur] = @ + 1]
  /\ pc' = "tell"
  /\ UNCHANGED <<live, recent, queue, beta, findings, told, logged, todo, pair, cur, hand, faults>>

TellDisplaced ==
  /\ pc = "tell"
  /\ Tell("displaced")
  /\ pc' = "close"
  /\ UNCHANGED <<live, recent, queue, beta, findings, corrections, logged, todo, pair, cur, hand, faults>>

Close ==
  /\ pc = "close"
  /\ st' = [st EXCEPT ![cur] = hand.outcome]
  /\ pc' = "log" /\ hand' = NoHand
  /\ UNCHANGED <<live, recent, subject, asks, first, age, effects, todo, pair, cur, faults>>

LogConfirmation ==
  /\ pc = "log"
  /\ Log("confirmation")
  /\ pc' = "idle" /\ cur' = AnyItem
  /\ UNCHANGED <<live, recent, queue, beta, findings, corrections, told, todo, pair, hand, faults>>
-----------------------------------------------------------------------------
(* Failures.                                                               *)

Queueing == {"limits", "classify"}

\* A statement raises: while queueing the next pair is tried, while
\* processing the queue (or between the two) the scan is over.
Raise ==
  /\ pc # "idle" /\ faults < MaxFaults
  /\ faults' = faults + 1
  /\ pc' = IF pc \in Queueing THEN "queue" ELSE "idle"
  /\ todo' = IF pc \in Queueing THEN todo ELSE {}
  /\ pair' = AnyPair /\ cur' = AnyItem /\ hand' = NoHand
  /\ UNCHANGED <<live, recent, queue, effects>>

\* The process dies and starts again; the tables stay.
Restart ==
  /\ faults < MaxFaults
  /\ faults' = faults + 1
  /\ pc' = "idle" /\ todo' = {} /\ pair' = AnyPair /\ cur' = AnyItem /\ hand' = NoHand
  /\ UNCHANGED <<live, recent, queue, effects>>

\* A search that is answered.
Answered ==
  \/ \E v \in Verdicts, medium \in BOOLEAN : Search(v, medium)
  \/ \E confirmed \in BOOLEAN : Verify(confirmed)

\* The loop comes round again and every await returns.
Progress ==
  \/ \E S \in SUBSET Pairs : Scan(S)
  \/ \E p \in Pairs : Weigh(p)
  \/ CheckLimits \/ Dismiss \/ EndQueueing \/ NothingPending \/ NothingDue
  \/ \E i \in Items : PickPending(i) \/ PickDue(i) \/ \E question \in BOOLEAN : Enqueue(i, question)
  \/ ExpireUnasked \/ StoreFinding \/ MarkResearched \/ LogFirst \/ TellFinding
  \/ Displace \/ StoreCorrection \/ TellDisplaced \/ Close \/ LogConfirmation
  \/ Answered \/ SearchFails

Next ==
  \/ \E m \in Memories : Archive(m)
  \/ Recency \/ Tick \/ Raise \/ Restart \/ Progress

Spec == Init /\ [][Next]_vars

\* The loop runs on, time passes, and the searches, which may fail again and
\* again, are answered again and again.
FairSpec == Spec /\ WF_vars(Progress) /\ WF_vars(Tick) /\ SF_vars(Answered)
-----------------------------------------------------------------------------
Pcs == {"idle", "queue", "limits", "classify", "pending", "no question", "search", "finding",
        "mark", "log first", "tell finding", "awaiting", "verify", "displace", "correct", "tell",
        "close", "log"}

TypeOK ==
  /\ live \subseteq Memories
  /\ beta \in [Memories -> Nat]
  /\ recent \in BOOLEAN
  /\ st \in [Items -> {"none", "pending", "researched"} \cup Closed]
  /\ subject \in [Items -> Pairs]
  /\ asks \in [Items -> BOOLEAN]
  /\ first \in [Items -> Verdicts]
  /\ age \in [Items -> 0..ConfirmationHours + 1]
  /\ findings \in [Items -> Nat]
  /\ corrections \in [Items -> Nat]
  /\ told \in [Items -> SUBSET {"finding", "displaced"}]
  /\ logged \in [Sessions -> 0..Day]
  /\ pc \in Pcs
  /\ todo \subseteq Pairs
  /\ pair \in Pairs
  /\ cur \in Items
  /\ hand \in [verdict : Verdicts, medium : BOOLEAN, outcome : Closed]
  /\ faults \in 0..MaxFaults

(* What is stored about an item agrees with its status, up to the step in  *)
(* hand: one finding once it was researched, one correction once it was    *)
(* confirmed, and one more of them for every exception or restart at most. *)
Searched(i) == st[i] \in {"researched", "confirmed"} \/ (st[i] = "expired" /\ asks[i])
Corrected(i) == st[i] = "confirmed" /\ Decisive(i)
Unmarked(i) == cur = i /\ pc = "mark"
Unclosed(i) == cur = i /\ pc \in {"tell", "close"} /\ Decisive(i)
                 /\ (pc = "close" => hand.outcome = "confirmed")
Count(b) == IF b THEN 1 ELSE 0
FindingsDue(i) == Count(Searched(i)) + Count(Unmarked(i))
CorrectionsDue(i) == Count(Corrected(i)) + Count(Unclosed(i))
EffectsMatchStatus ==
  \A i \in Items :
    /\ findings[i] >= FindingsDue(i)
    /\ corrections[i] >= CorrectionsDue(i)
    /\ (findings[i] - FindingsDue(i)) + (corrections[i] - CorrectionsDue(i)) <= faults

(* The user's own word is trusted: no correction is ever stored against a  *)
(* memory of the user's, nor against what contradicts one.                 *)
UserTrusted ==
  \A i \in Items : corrections[i] > 0 =>
    {subject[i][1], subject[i][2]} \cap UserMemories = {}

(* What the notification says, and KB_01 of the research sessions: a memory *)
(* that is announced as displaced has lost, by the beta that was added to  *)
(* it, unless it was archived.                                             *)
ToldIsDisplaced ==
  \A i \in Items : "displaced" \in told[i] /\ Loser(i) \in live => beta[Loser(i)] > 0

(* A closed item is done with: whatever fails, nothing more is stored or   *)
(* announced about it, and it is never opened again.                       *)
ClosedForGood ==
  [][\A i \in Items : st[i] \in Closed =>
       /\ st'[i] = st[i]
       /\ findings'[i] = findings[i] /\ corrections'[i] = corrections[i]
       /\ told'[i] = told[i]]_vars

(* An item is only queued while fewer sessions than the limits were logged *)
(* in the last hour and the last day, though time passes and rows change   *)
(* between the check and the INSERT.                                       *)
QueuedUnderLimits ==
  [][\A i \in Items : st[i] = "none" /\ st'[i] = "pending" =>
       Hourly < HourlyLimit /\ Daily < DailyLimit]_vars

(* Every queued item is confirmed or expires in the end, whatever failed   *)
(* in between, as long as the agent has two recent memories.               *)
EveryItemClosed ==
  \A i \in Items : st[i] = "pending" ~> st[i] \in Closed \/ ~recent
=============================================================================
