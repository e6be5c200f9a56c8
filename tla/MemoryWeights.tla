--------------------------- MODULE MemoryWeights ---------------------------
(***************************************************************************)
(* The rows of the `memories` table as weights: every memory carries a     *)
(* Beta(alpha, beta) depth weight, and its centre alpha/(alpha+beta) is    *)
(* how much the agent believes it.  Six kinds of actor change it, all of   *)
(* them coroutines of one event loop that lose control at every await of   *)
(* the pool, with no transaction around any two statements:                *)
(*   - callers of MemoryStore.apply_retrieval_mutation (HTTP handlers, the *)
(*     memory gate, both consolidation tiers): SELECT a snapshot, check    *)
(*     it with the SafetyMonitor row by row, UPDATE alpha = alpha + gain;  *)
(*   - the Tier 1 decay tick, one UPDATE;                                  *)
(*   - the Tier 2 deep cycle, which switches Phase B safety on, promotes,  *)
(*     decays and weakens, and switches it off;                            *)
(*   - mergers, which execute a dedup verdict: transfer the losers'        *)
(*     weights to the survivor, then archive the losers;                   *)
(*   - store_insight: SELECT the weights of the sources, await the         *)
(*     embedding, INSERT the insight with what was read;                   *)
(*   - DELETE /memory.                                                     *)
(* The store is the one of the service, whose lifespan gives it a          *)
(* SafetyMonitor; without one, apply_retrieval_mutation has another branch *)
(* (memory.py:637) that nothing reaches.                                   *)
(* Weights are integers of some unit; every comparison of a centre with a  *)
(* threshold is the equivalent linear inequality.                          *)
(***************************************************************************)
EXTENDS Integers, FiniteSets

CONSTANTS
  Memories,      \* ids a row may be stored under
  Immutable,     \* the rows seeded with immutable = true
  Callers,       \* concurrent calls of apply_retrieval_mutation
  Mergers,       \* concurrent calls of execute_dedup_verdict
  InitAlpha, InitBeta,         \* weights of a stored memory
  Gain,          \* alpha of one retrieval (the novelty bonus doubles it)
  NearMiss,      \* beta of one near miss
  DecayNudge,    \* beta of one decay tick
  GoalGain, IdentityGain,      \* alpha of the two kinds of promotion
  DeepDecay,     \* beta of one deep decay, and of one weakened insight
  MaxBeta        \* bound: no row at MaxBeta starts to receive more beta

ASSUME MemoriesAssumption == Immutable \subseteq Memories
ASSUME CallersAssumption == IsFiniteSet(Callers) /\ Callers # {}
ASSUME WeightsAssumption ==
  /\ InitAlpha \in Nat \ {0} /\ InitBeta \in Nat \ {0}
  /\ InitAlpha <= 19 * InitBeta
  /\ Gain \in Nat /\ NearMiss \in Nat /\ DecayNudge \in Nat
  /\ GoalGain \in Nat /\ IdentityGain \in Nat /\ DeepDecay \in Nat
  /\ MaxBeta \in Nat

VARIABLES
  status,        \* "none" before the INSERT, "live", "archived", "deleted"
  alpha, beta,   \* depth_weight_alpha, depth_weight_beta
  accessed,      \* access_count > 0
  absorbed,      \* history: how many stored weights the row now holds
  insights,      \* the weights calls of store_insight have read and not yet stored
  phaseB,        \* rate_limiter.enabled and two_gate.enabled
  pc, todo, near, snap, granted,   \* one call of apply_retrieval_mutation
  mpc, into, from, gone, held,     \* one call of execute_dedup_verdict
  dpc, dtodo, dsnap, dgranted      \* the deep cycle

rows == <<status, alpha, beta, accessed, absorbed>>
calls == <<pc, todo, near, snap, granted>>
merges == <<mpc, into, from, gone, held>>
deep == <<dpc, dtodo, dsnap, dgranted>>
vars == <<status, alpha, beta, accessed, absorbed, insights, phaseB, calls, merges, deep>>

Live(m) == status[m] = "live"
Stored(m) == status[m] \in {"live", "archived"}
Mutable(m) == Live(m) /\ m \notin Immutable     \* NOT immutable AND NOT archived

(***************************************************************************)
(* The SafetyMonitor.  MAX_CENTER = 0.95 reads a/(a+b) <= 0.95, that is    *)
(* a <= 19 b.  The callers of check_weight_change never pass               *)
(* evidence_count or confidence, so Gate 1 sees the defaults.              *)
(***************************************************************************)
UnderCeiling(a, b) == a <= 19 * b

Log2(n) == Cardinality({k \in 1..30 : 2^k <= n})
Diminished(gain, a, b) ==
  LET divisor == Log2(a + b) IN IF divisor <= 1 THEN gain ELSE gain \div divisor

EvidenceAtTheGate == 2   \* mutant of EvidenceCount
EvidenceCount == 0
Confidence == 50        \* percent
TwoGate == ~(EvidenceCount < 2 /\ Confidence < 70)

\* mutant of Allowed: the ceiling is asked about the weights before the change
AllowedBefore(a, b, da, db) == UnderCeiling(a, b) /\ (phaseB => TwoGate)

\* check_weight_change: the ceiling always, the gate in Phase B.  The rate
\* limiter, asked between the two, can only refuse what the gate refuses too.
Allowed(a, b, da, db) == UnderCeiling(a + da, b + db) /\ (phaseB => TwoGate)

NoSnap == [a |-> 0, b |-> 0, first |-> FALSE]
Snapshot(S) ==
  [m \in Memories |-> IF m \in S THEN [a |-> alpha[m], b |-> beta[m], first |-> ~accessed[m]]
                                 ELSE NoSnap]
EmptySnap == [m \in Memories |-> NoSnap]

\* The gain of one retrieved row: 0.1, or 0.2 for a very similar row whose
\* access_count was still 0 in the snapshot; diminished by the evidence.
RetrievalGain(s) == Diminished(IF s.first THEN 2 * Gain ELSE Gain, s.a, s.b)

Init ==
  /\ status = [m \in Memories |-> IF m \in Immutable THEN "live" ELSE "none"]
  /\ alpha = [m \in Memories |-> IF m \in Immutable THEN InitAlpha ELSE 0]
  /\ beta = [m \in Memories |-> IF m \in Immutable THEN InitBeta ELSE 0]
  /\ accessed = [m \in Memories |-> FALSE]
  /\ absorbed = [m \in Memories |-> 1]
  /\ insights = {}
  /\ phaseB = FALSE
  /\ pc = [w \in Callers |-> "idle"]
  /\ todo = [w \in Callers |-> {}]
  /\ near = [w \in Callers |-> {}]
  /\ snap = [w \in Callers |-> EmptySnap]
  /\ granted = [w \in Callers |-> {}]
  /\ mpc = [d \in Mergers |-> "idle"]
  /\ into \in [Mergers -> Memories]
  /\ from = [d \in Mergers |-> {}]
  /\ gone = [d \in Mergers |-> {}]
  /\ held = [d \in Mergers |-> [a |-> 0, b |-> 0, n |-> 0]]
  /\ dpc = "idle" /\ dtodo = {} /\ dsnap = EmptySnap /\ dgranted = {}
-----------------------------------------------------------------------------
(* Storing, deleting, the decay tick.                                      *)

Insert(m, a, b) ==
  /\ status[m] = "none"
  /\ status' = [status EXCEPT ![m] = "live"]
  /\ alpha' = [alpha EXCEPT ![m] = a]
  /\ beta' = [beta EXCEPT ![m] = b]

\* store_memory: INSERT with the default weights.
Store(m) ==
  /\ Insert(m, InitAlpha, InitBeta)
  /\ UNCHANGED <<accessed, absorbed, insights, phaseB, calls, merges, deep>>

\* store_insight: the new row takes a weighted average of its sources'
\* weights, archived sources included.  Every inequality checked here is
\* linear, so the extreme points of the average, the weights of one source,
\* stand for all of them.  Without any source left the defaults are taken.
Weights(m) == [a |-> alpha[m], b |-> beta[m], n |-> absorbed[m]]
NewWeights == [a |-> InitAlpha, b |-> InitBeta, n |-> 1]

ReadSources(source) ==
  /\ status[source] # "none"
  /\ insights' = insights \cup {IF Stored(source) THEN Weights(source) ELSE NewWeights}
  /\ UNCHANGED <<rows, phaseB, calls, merges, deep>>

\* The INSERT, after the embedding was awaited: the sources have moved on.
StoreInsight(m, r) ==
  /\ r \in insights
  /\ Insert(m, r.a, r.b)
  /\ absorbed' = [absorbed EXCEPT ![m] = r.n]
  /\ insights' = insights \ {r}
  /\ UNCHANGED <<accessed, phaseB, calls, merges, deep>>

FailInsight(r) ==
  /\ r \in insights /\ insights' = insights \ {r}
  /\ UNCHANGED <<rows, phaseB, calls, merges, deep>>

\* delete_memory: a hard DELETE of whatever row has that id.
Delete(m) ==
  /\ Stored(m)
  /\ status' = [status EXCEPT ![m] = "deleted"]
  /\ UNCHANGED <<alpha, beta, accessed, absorbed, insights, phaseB, calls, merges, deep>>

\* _decay_tick: one UPDATE over the stale rows (which of them are stale or
\* protected is left open) whose centre is above 0.1, that is 9 a > b.
DecayTick(S) ==
  /\ S # {} /\ \A m \in S : Mutable(m) /\ 9 * alpha[m] > beta[m] /\ beta[m] < MaxBeta
  /\ beta' = [m \in Memories |-> IF m \in S THEN beta[m] + DecayNudge ELSE beta[m]]
  /\ UNCHANGED <<status, alpha, accessed, absorbed, insights, phaseB, calls, merges, deep>>
-----------------------------------------------------------------------------
(* apply_retrieval_mutation.                                               *)

\* Step 1, the batch UPDATE of access_count and last_accessed.  The ids come
\* from an earlier search: rows may have been archived or deleted since.
BeginCall(w, R, N) ==
  /\ pc[w] = "idle"
  /\ R # {} /\ R \cap N = {}
  /\ \A m \in R \cup N : status[m] # "none"
  /\ \A m \in N : beta[m] < MaxBeta
  /\ accessed' = [m \in Memories |-> accessed[m] \/ (m \in R /\ Mutable(m))]
  /\ pc' = [pc EXCEPT ![w] = "select"]
  /\ todo' = [todo EXCEPT ![w] = R]
  /\ near' = [near EXCEPT ![w] = N]
  /\ UNCHANGED <<status, alpha, beta, absorbed, insights, phaseB, snap, granted, merges, deep>>

\* Step 2, the batch SELECT of the weights the loop will check.
Select(w) ==
  LET found == {m \in todo[w] : Mutable(m)} IN
  /\ pc[w] = "select"
  /\ pc' = [pc EXCEPT ![w] = "loop"]
  /\ todo' = [todo EXCEPT ![w] = found]
  /\ snap' = [snap EXCEPT ![w] = Snapshot(found)]
  /\ UNCHANGED <<rows, insights, phaseB, near, granted, merges, deep>>

\* One iteration up to its await: check_weight_change on the SNAPSHOT.
Check(w, m) ==
  LET s == snap[w][m] IN
  /\ pc[w] = "loop" /\ granted[w] = {} /\ m \in todo[w]
  /\ todo' = [todo EXCEPT ![w] = @ \ {m}]
  /\ granted' = [granted EXCEPT ![w] =
                   IF Allowed(s.a, s.b, RetrievalGain(s), 0) THEN {m} ELSE {}]
  /\ UNCHANGED <<rows, insights, phaseB, pc, near, snap, merges, deep>>

\* mutant of Reinforce: the UPDATE trusts the snapshot's NOT archived
ReinforceBlindly(w) ==
  /\ pc[w] = "loop" /\ granted[w] # {}
  /\ alpha' = [m \in Memories |-> IF m \in granted[w] THEN alpha[m] + RetrievalGain(snap[w][m])
                                                     ELSE alpha[m]]
  /\ granted' = [granted EXCEPT ![w] = {}]
  /\ UNCHANGED <<status, beta, accessed, absorbed, insights, phaseB, pc, todo, near, snap, merges, deep>>

\* The UPDATE of that iteration: alpha = alpha + gain on the CURRENT row.
Reinforce(w) ==
  /\ pc[w] = "loop" /\ granted[w] # {}
  /\ alpha' = [m \in Memories |-> IF m \in granted[w] /\ Mutable(m)
                                  THEN alpha[m] + RetrievalGain(snap[w][m])
                                  ELSE alpha[m]]
  /\ granted' = [granted EXCEPT ![w] = {}]
  /\ UNCHANGED <<status, beta, accessed, absorbed, insights, phaseB, pc, todo, near, snap, merges, deep>>

ClearCall(w) ==
  /\ pc' = [pc EXCEPT ![w] = "idle"]
  /\ todo' = [todo EXCEPT ![w] = {}]
  /\ near' = [near EXCEPT ![w] = {}]
  /\ snap' = [snap EXCEPT ![w] = EmptySnap]
  /\ granted' = [granted EXCEPT ![w] = {}]

\* Step 3, the batch UPDATE of the near misses, and the return.
NearMisses(w) ==
  /\ pc[w] = "loop" /\ todo[w] = {} /\ granted[w] = {}
  /\ beta' = [m \in Memories |-> IF m \in near[w] /\ Mutable(m)
                                 THEN beta[m] + NearMiss ELSE beta[m]]
  /\ ClearCall(w)
  /\ UNCHANGED <<status, alpha, accessed, absorbed, insights, phaseB, merges, deep>>

\* A statement raises: what was written stays, the rest never happens.
FailCall(w) ==
  /\ pc[w] # "idle"
  /\ ClearCall(w)
  /\ UNCHANGED <<rows, insights, phaseB, merges, deep>>
-----------------------------------------------------------------------------
(* execute_dedup_verdict.  The verdict was reached earlier, across an LLM  *)
(* call or from the cache, so either row may be archived or gone by now.   *)

BeginMerge(d, s, L) ==
  /\ mpc[d] = "idle"
  /\ mpc' = [mpc EXCEPT ![d] = "read"]
  /\ into' = [into EXCEPT ![d] = s]
  /\ from' = [from EXCEPT ![d] = L]
  /\ gone' = [gone EXCEPT ![d] = L]
  /\ UNCHANGED <<accessed, absorbed, insights, phaseB, held, calls, deep>>

\* survivor "A" or "B".
BeginSurvivor(d, s, l) ==
  /\ s # l /\ Stored(s) /\ Stored(l) /\ beta[s] < MaxBeta
  /\ BeginMerge(d, s, {l})
  /\ UNCHANGED <<status, alpha, beta>>

\* survivor "synthesize": a new row is stored first, both old ones lose.
BeginSynthesis(d, s, L) ==
  /\ Cardinality(L) = 2 /\ \A l \in L : Stored(l)
  /\ Insert(s, InitAlpha, InitBeta)
  /\ BeginMerge(d, s, L)

\* "synthesize" without a text (BUG-003): both rows are looked up again and
\* the one with the higher centre survives.
BeginFallback(d, s, l) ==
  /\ s # l /\ Live(s) /\ Live(l) /\ beta[s] < MaxBeta
  /\ alpha[s] * beta[l] >= alpha[l] * beta[s]
  /\ BeginMerge(d, s, {l})
  /\ UNCHANGED <<status, alpha, beta>>

\* transfer_weights, its SELECT: no filter on archived.
ReadLoser(d, l) ==
  /\ mpc[d] = "read" /\ l \in from[d]
  /\ from' = [from EXCEPT ![d] = @ \ {l}]
  /\ IF Stored(l)
     THEN /\ held' = [held EXCEPT ![d] = [a |-> alpha[l], b |-> beta[l], n |-> absorbed[l]]]
          /\ mpc' = [mpc EXCEPT ![d] = "add"]
     ELSE UNCHANGED <<held, mpc>>
  /\ UNCHANGED <<rows, insights, phaseB, into, gone, calls, deep>>

\* transfer_weights, its UPDATE: relative, and only of a live survivor.
AddWeights(d) ==
  LET s == into[d] IN
  /\ mpc[d] = "add"
  /\ mpc' = [mpc EXCEPT ![d] = "read"]
  /\ IF Live(s)
     THEN /\ alpha' = [alpha EXCEPT ![s] = @ + held[d].a]
          /\ beta' = [beta EXCEPT ![s] = @ + held[d].b]
          /\ absorbed' = [absorbed EXCEPT ![s] = @ + held[d].n]
     ELSE UNCHANGED <<alpha, beta, absorbed>>
  /\ held' = [held EXCEPT ![d] = [a |-> 0, b |-> 0, n |-> 0]]
  /\ UNCHANGED <<status, accessed, insights, phaseB, into, from, gone, calls, deep>>

\* archive_memory of one loser, after every transfer.
ArchiveLoser(d, l) ==
  /\ mpc[d] = "read" /\ from[d] = {} /\ l \in gone[d]
  /\ gone' = [gone EXCEPT ![d] = @ \ {l}]
  /\ status' = [status EXCEPT ![l] = IF Live(l) THEN "archived" ELSE @]
  /\ mpc' = [mpc EXCEPT ![d] = IF gone[d] = {l} THEN "idle" ELSE @]
  /\ UNCHANGED <<alpha, beta, accessed, absorbed, insights, phaseB, into, from, held, calls, deep>>

\* A statement raises in the middle of the verdict; both callers swallow it.
FailMerge(d) ==
  /\ mpc[d] # "idle"
  /\ mpc' = [mpc EXCEPT ![d] = "idle"]
  /\ from' = [from EXCEPT ![d] = {}]
  /\ gone' = [gone EXCEPT ![d] = {}]
  /\ held' = [held EXCEPT ![d] = [a |-> 0, b |-> 0, n |-> 0]]
  /\ UNCHANGED <<rows, insights, phaseB, into, calls, deep>>
-----------------------------------------------------------------------------
(* _deep_cycle: enable_phase_b, five error-isolated steps,                 *)
(* end_consolidation_cycle.  The _running flag admits one cycle at a time. *)

Loops == {"goal loop", "identity loop", "weaken loop"}
DeepPc == {"idle", "merge", "goal", "identity", "stale", "stale update", "weaken", "rest"}
            \cup Loops

BeginDeep ==
  /\ dpc = "idle"
  /\ dpc' = "merge"
  /\ phaseB' = TRUE
  /\ UNCHANGED <<rows, insights, dtodo, dsnap, dgranted, calls, merges>>

\* _merge_and_insight stores insights (StoreInsight) and reinforces existing
\* ones (a call of apply_retrieval_mutation); then the cycle goes on.
MergeAndInsight ==
  /\ dpc = "merge"
  /\ dpc' = "goal"
  /\ UNCHANGED <<rows, insights, phaseB, dtodo, dsnap, dgranted, calls, merges>>

\* The rows of the three SELECTs that are followed by a loop.  The centre
\* windows of the promotions are < 0.65 and 0.65..0.82; age, exact access
\* count, type and what the LLM answers about an insight are left open.
GoalCandidate(m) == Mutable(m) /\ accessed[m] /\ 7 * alpha[m] < 13 * beta[m]
IdentityCandidate(m) ==
  /\ Mutable(m) /\ accessed[m]
  /\ 7 * alpha[m] >= 13 * beta[m] /\ 9 * alpha[m] <= 41 * beta[m]

SelectRows(S) ==
  /\ \/ dpc = "goal" /\ dpc' = "goal loop" /\ \A m \in S : GoalCandidate(m)
     \/ dpc = "identity" /\ dpc' = "identity loop" /\ \A m \in S : IdentityCandidate(m)
     \/ dpc = "weaken" /\ dpc' = "weaken loop" /\ \A m \in S : Live(m) /\ beta[m] < MaxBeta
  /\ dtodo' = S
  /\ dsnap' = Snapshot(S)
  /\ UNCHANGED <<rows, insights, phaseB, dgranted, calls, merges>>

\* What the loop adds to one row: a diminished alpha, or the beta of a
\* superseded insight.
LoopAlpha(s) == CASE dpc = "goal loop" -> Diminished(GoalGain, s.a, s.b)
                  [] dpc = "identity loop" -> Diminished(IdentityGain, s.a, s.b)
                  [] OTHER -> 0
LoopBeta == IF dpc = "weaken loop" THEN DeepDecay ELSE 0

\* One row of a loop: check_weight_change on the snapshot, then the UPDATE of
\* the current row.  The check reads nothing but the snapshot and a gate that
\* nobody else switches, so that it may as well be made at the UPDATE.
LoopRow(m) ==
  LET s == dsnap[m]
      allowed == Allowed(s.a, s.b, LoopAlpha(s), LoopBeta) IN
  /\ dpc \in Loops /\ m \in dtodo
  /\ dtodo' = dtodo \ {m}
  /\ alpha' = [alpha EXCEPT ![m] = IF allowed /\ Live(m) THEN @ + LoopAlpha(s) ELSE @]
  /\ beta' = [beta EXCEPT ![m] = IF allowed /\ Live(m) THEN @ + LoopBeta ELSE @]
  /\ UNCHANGED <<status, accessed, absorbed, insights, phaseB, dpc, dsnap, dgranted, calls, merges>>

EndLoop ==
  /\ dpc \in Loops /\ dtodo = {}
  /\ dpc' = CASE dpc = "goal loop" -> "identity"
              [] dpc = "identity loop" -> "stale"
              [] OTHER -> "rest"
  /\ dsnap' = EmptySnap
  /\ UNCHANGED <<rows, insights, phaseB, dtodo, dgranted, calls, merges>>

\* _decay_and_reconsolidate: the SELECT (get_stale_memories does not exclude
\* immutable rows), the synchronous checks, then one UPDATE of the allowed.
SelectStale(S) ==
  /\ dpc = "stale" /\ dpc' = "stale update"
  /\ \A m \in S : Live(m) /\ beta[m] < MaxBeta
  /\ dgranted' = {m \in S : Allowed(alpha[m], beta[m], 0, DeepDecay)}
  /\ UNCHANGED <<rows, insights, phaseB, dtodo, dsnap, calls, merges>>

DecayStale ==
  /\ dpc = "stale update" /\ dpc' = "weaken"
  /\ beta' = [m \in Memories |-> IF m \in dgranted /\ Live(m)
                                 THEN beta[m] + DeepDecay ELSE beta[m]]
  /\ dgranted' = {}
  /\ UNCHANGED <<status, alpha, accessed, absorbed, insights, phaseB, dtodo, dsnap, calls, merges>>

\* _tune_parameters and _contextual_retrieval touch no weight; the cycle ends.
EndDeep ==
  /\ dpc = "rest" /\ dpc' = "idle"
  /\ phaseB' = FALSE
  /\ UNCHANGED <<rows, insights, dtodo, dsnap, dgranted, calls, merges>>

\* A statement or an LLM call raises inside a step: _safe_step swallows it
\* and the cycle goes on with the next one.
FailStep ==
  /\ dpc \notin {"idle", "rest"}
  /\ dpc' = CASE dpc = "merge" -> "goal"
              [] dpc \in {"goal", "goal loop", "identity", "identity loop"} -> "stale"
              [] OTHER -> "rest"
  /\ dtodo' = {} /\ dsnap' = EmptySnap /\ dgranted' = {}
  /\ UNCHANGED <<rows, insights, phaseB, calls, merges>>
-----------------------------------------------------------------------------
\* The process dies and starts again: the rows stay, everything else is new.
Restart ==
  /\ phaseB' = FALSE
  /\ pc' = [w \in Callers |-> "idle"] /\ todo' = [w \in Callers |-> {}]
  /\ near' = [w \in Callers |-> {}] /\ snap' = [w \in Callers |-> EmptySnap]
  /\ granted' = [w \in Callers |-> {}]
  /\ mpc' = [d \in Mergers |-> "idle"] /\ from' = [d \in Mergers |-> {}]
  /\ gone' = [d \in Mergers |-> {}]
  /\ held' = [d \in Mergers |-> [a |-> 0, b |-> 0, n |-> 0]]
  /\ dpc' = "idle" /\ dtodo' = {} /\ dsnap' = EmptySnap /\ dgranted' = {}
  /\ insights' = {}
  /\ UNCHANGED <<rows, into>>

RowStep ==
  \/ \E m \in Memories : Store(m) \/ Delete(m)
  \/ \E m \in Memories : ReadSources(m)
  \/ \E r \in insights : FailInsight(r) \/ \E m \in Memories : StoreInsight(m, r)
  \/ \E S \in SUBSET Memories : DecayTick(S)

CallStep(w) ==
  \/ \E R, N \in SUBSET Memories : BeginCall(w, R, N)
  \/ Select(w) \/ Reinforce(w) \/ NearMisses(w) \/ FailCall(w)
  \/ \E m \in Memories : Check(w, m)

MergeStep(d) ==
  \/ \E s, l \in Memories : BeginSurvivor(d, s, l) \/ BeginFallback(d, s, l)
  \/ \E s \in Memories, L \in SUBSET Memories : BeginSynthesis(d, s, L)
  \/ \E l \in Memories : ReadLoser(d, l) \/ ArchiveLoser(d, l)
  \/ AddWeights(d) \/ FailMerge(d)

DeepStep ==
  \/ BeginDeep \/ MergeAndInsight \/ EndLoop \/ DecayStale \/ EndDeep \/ FailStep
  \/ \E S \in SUBSET Memories : SelectRows(S) \/ SelectStale(S)
  \/ \E m \in Memories : LoopRow(m)

Next ==
  \/ RowStep \/ DeepStep \/ Restart
  \/ \E w \in Callers : CallStep(w)
  \/ \E d \in Mergers : MergeStep(d)

Spec == Init /\ [][Next]_vars
-----------------------------------------------------------------------------
(* Types.  The deep cycle runs exactly while Phase B is on.                *)
Pair == [a : Nat, b : Nat, first : BOOLEAN]

TypeOK ==
  /\ status \in [Memories -> {"none", "live", "archived", "deleted"}]
  /\ alpha \in [Memories -> Nat] /\ beta \in [Memories -> Nat]
  /\ accessed \in [Memories -> BOOLEAN] /\ absorbed \in [Memories -> Nat \ {0}]
  /\ insights \subseteq [a : Nat, b : Nat, n : Nat \ {0}]
  /\ phaseB \in BOOLEAN
  /\ pc \in [Callers -> {"idle", "select", "loop"}]
  /\ todo \in [Callers -> SUBSET Memories] /\ near \in [Callers -> SUBSET Memories]
  /\ granted \in [Callers -> SUBSET Memories]
  /\ snap \in [Callers -> [Memories -> Pair]]
  /\ mpc \in [Mergers -> {"idle", "read", "add"}] /\ into \in [Mergers -> Memories]
  /\ from \in [Mergers -> SUBSET Memories] /\ gone \in [Mergers -> SUBSET Memories]
  /\ held \in [Mergers -> [a : Nat, b : Nat, n : Nat]]
  /\ dpc \in DeepPc /\ dtodo \in SUBSET Memories /\ dgranted \in SUBSET Memories
  /\ dsnap \in [Memories -> Pair]

(* HardCeiling says a weight centre never exceeds 0.95.  Every check is    *)
(* made on a snapshot, so concurrent calls overrun it: but by less than    *)
(* one retrieval's gain for every other caller, times the number of stored *)
(* weights merged into the row.  With a single caller it is exact.         *)
Overrun == (Cardinality(Callers) - 1) * Gain
CeilingOverrunBounded == \A m \in Memories : alpha[m] <= 19 * beta[m] + Overrun * absorbed[m]

(* An archived or deleted row is out of the game for good: no statement of *)
(* any actor, however old the snapshot it works from, changes its weights, *)
(* and it is never live again.                                             *)
DeadRowsFrozen ==
  [][\A m \in Memories : status[m] \in {"archived", "deleted"} =>
       /\ alpha'[m] = alpha[m] /\ beta'[m] = beta[m]
       /\ status'[m] \in {status[m], "deleted"}]_vars

(* An immutable row is changed by dedup and by nothing else: its weights   *)
(* only as the survivor of a merge in progress, and it is archived only as *)
(* the loser of one.  Deep decay selects immutable rows too and is stopped *)
(* by the safety gate alone.                                               *)
SeedMoved(m) == alpha'[m] # alpha[m] \/ beta'[m] # beta[m]
SeedArchived(m) == status'[m] # status[m] /\ status'[m] # "deleted"
ImmutableOnlyMerged ==
  [][\A m \in Immutable :
       /\ SeedMoved(m) => \E d \in Mergers : mpc[d] = "add" /\ into[d] = m
       /\ SeedArchived(m) => \E d \in Mergers : m \in gone[d]]_vars

(* The docstring of _promote_patterns (consolidation.py:1293) says that it  *)
(* promotes memories "by reinforcing weights directly", and KB_01 (line    *)
(* 380) gives the gains: a candidate that is still live at its turn, and   *)
(* that the gain leaves under the ceiling, is given weight.                *)
Promoted(m) == dpc \in {"goal loop", "identity loop"} /\ dpc' = dpc /\ m \in dtodo \ dtodo'
PromotionReinforces ==
  [][\A m \in Memories :
       LET s == dsnap[m] IN
       Promoted(m) /\ Live(m) /\ UnderCeiling(s.a + LoopAlpha(s), s.b) => alpha'[m] > alpha[m]]_vars
=============================================================================
