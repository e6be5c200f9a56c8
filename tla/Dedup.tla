------------------------------- MODULE Dedup -------------------------------
(***************************************************************************)
(* The two-stage dedup engine.  A job, the retroactive sweep or the memory *)
(* gate after it stored a new row, takes pairs of similar memories one by  *)
(* one through dedup_pair (look the pair up in dedup_verdicts, fetch both  *)
(* rows, ask the LLM, record its verdict) and through                      *)
(* execute_dedup_verdict (transfer the loser's weights to the survivor,    *)
(* archive the loser).  Jobs are HTTP handlers of one event loop: every    *)
(* await of the pool or of the LLM lets another job, or a DELETE, run.     *)
(*                                                                         *)
(* What a row weighs is modelled by provenance: holds[m][k] counts how     *)
(* often the weight that memory k was stored with is contained in row m.   *)
(***************************************************************************)
EXTENDS Integers, FiniteSets

CONSTANTS
  Memories,         \* ids a row may be stored under, ordered as strings are
  Jobs,             \* concurrent sweeps and gate handlers
  Answers,          \* what the LLM may answer about a pair
  Quality,          \* the LLM never keeps a row over one of higher quality
  DryRuns,          \* the values of dry_run a sweep is called with
  SynthesisColumn,  \* dedup_verdicts has a column synthesis
  MayFail,          \* statements raise and the process restarts
  MaxCopies         \* bound: holds does not count further

ASSUME MemoriesAssumption == Memories \subseteq Nat
ASSUME QualityAssumption == Quality \in [Memories -> Nat]
ASSUME AnswersAssumption == Answers \subseteq {"distinct", "A", "B", "synthesize", "no text"}
ASSUME SwitchesAssumption ==
  DryRuns \subseteq BOOLEAN /\ SynthesisColumn \in BOOLEAN /\ MayFail \in BOOLEAN
ASSUME CopiesAssumption == MaxCopies \in Nat \ {0}

VARIABLES
  status,        \* "none" before the INSERT, "live", "archived", "deleted"
  heir,          \* archived_reason.survivor_id of an archived row
  holds,         \* the weights a row contains
  verdict,       \* dedup_verdicts; "none" where there is no row
  jpc, queue, pair, got, dry,   \* one job: its pairs, the one at hand, its verdict
  into, from, gone, held        \* the verdict being executed

rows == <<status, heir, holds>>
merge == <<into, from, gone, held>>
vars == <<status, heir, holds, verdict, jpc, queue, pair, got, dry, merge>>

Pairs == {p \in Memories \X Memories : p[1] < p[2]}
Members(p) == {p[1], p[2]}
ASSUME PairsAssumption == Pairs # {}
Sorted(m, n) == IF m < n THEN <<m, n>> ELSE <<n, m>>
Live(m) == status[m] = "live"
BothLive(p) == Live(p[1]) /\ Live(p[2])

Redundant == {"A", "B", "synthesize", "no text"}
\* mutant of Survivor: the label is only looked at for the loser
SurvivorFirst(p, v) == p[1]
Survivor(p, v) == IF v = "A" THEN p[1] ELSE p[2]
Loser(p, v) == IF v = "A" THEN p[2] ELSE p[1]

AnyPair == CHOOSE p \in Pairs : TRUE     \* of a job that has none at hand
AnyRow == AnyPair[1]
Nothing == [k \in Memories |-> 0]
Capped(n) == IF n > MaxCopies THEN MaxCopies ELSE n

Init ==
  /\ status = [m \in Memories |-> "none"]
  /\ heir = [m \in Memories |-> m]
  /\ holds = [m \in Memories |-> Nothing]
  /\ verdict = [p \in Pairs |-> "none"]
  /\ jpc = [j \in Jobs |-> "idle"]
  /\ queue = [j \in Jobs |-> {}]
  /\ pair = [j \in Jobs |-> AnyPair]
  /\ got = [j \in Jobs |-> "none"]
  /\ dry = [j \in Jobs |-> FALSE]
  /\ into = [j \in Jobs |-> AnyRow]
  /\ from = [j \in Jobs |-> {}]
  /\ gone = [j \in Jobs |-> {}]
  /\ held = [j \in Jobs |-> Nothing]
-----------------------------------------------------------------------------
(* The rows.                                                               *)

Insert(m) ==
  /\ status[m] = "none"
  /\ status' = [status EXCEPT ![m] = "live"]
  /\ holds' = [holds EXCEPT ![m][m] = 1]
  /\ UNCHANGED heir

Store(m) ==
  /\ Insert(m)
  /\ UNCHANGED <<verdict, jpc, queue, pair, got, dry, merge>>

Delete(m) ==
  /\ status[m] \in {"live", "archived"}
  /\ status' = [status EXCEPT ![m] = "deleted"]
  /\ UNCHANGED <<heir, holds, verdict, jpc, queue, pair, got, dry, merge>>
-----------------------------------------------------------------------------
(* A job and its pairs.                                                    *)

\* The sweep SELECTs its pairs once; which live pairs are similar is open.
StartSweep(j, d, S) ==
  /\ jpc[j] = "idle"
  /\ \A p \in S : BothLive(p)
  /\ jpc' = [jpc EXCEPT ![j] = "next"]
  /\ queue' = [queue EXCEPT ![j] = S]
  /\ dry' = [dry EXCEPT ![j] = d]
  /\ UNCHANGED <<rows, verdict, pair, got, merge>>

\* gate_memory PERSISTs m; the exit gate had found o most similar before.
StartGate(j, m, o) ==
  /\ jpc[j] = "idle"
  /\ m # o /\ status[o] # "none"
  /\ Insert(m)
  /\ jpc' = [jpc EXCEPT ![j] = "next"]
  /\ queue' = [queue EXCEPT ![j] = {Sorted(m, o)}]
  /\ dry' = [dry EXCEPT ![j] = FALSE]
  /\ UNCHANGED <<verdict, pair, got, merge>>

\* The cache: a recorded verdict is taken as it is, live rows or not.  If the
\* SELECT names a column that does not exist it raises: the pair is counted
\* as an error and the next one is tried.
Lookup(j, p) ==
  /\ jpc[j] = "next" /\ p \in queue[j]
  /\ queue' = [queue EXCEPT ![j] = @ \ {p}]
  /\ IF SynthesisColumn
     THEN /\ pair' = [pair EXCEPT ![j] = p]
          /\ got' = [got EXCEPT ![j] = verdict[p]]
          /\ jpc' = [jpc EXCEPT ![j] = IF verdict[p] = "none" THEN "fetch" ELSE "decide"]
     ELSE UNCHANGED <<jpc, pair, got>>
  /\ UNCHANGED <<rows, verdict, dry, merge>>

\* mutant of Fetch: NOT archived is missing in the SELECT
FetchArchived(j) ==
  /\ jpc[j] = "fetch"
  /\ jpc' = [jpc EXCEPT ![j] = "ask"]
  /\ UNCHANGED <<rows, verdict, queue, pair, got, dry, merge>>

\* Both rows are fetched; one missing or archived means "distinct".
Fetch(j) ==
  /\ jpc[j] = "fetch"
  /\ IF BothLive(pair[j])
     THEN /\ jpc' = [jpc EXCEPT ![j] = "ask"]
          /\ UNCHANGED got
     ELSE /\ jpc' = [jpc EXCEPT ![j] = "insert"]
          /\ got' = [got EXCEPT ![j] = "distinct"]
  /\ UNCHANGED <<rows, verdict, queue, pair, dry, merge>>

\* The LLM answers; a text that does not parse counts as "distinct".
Ask(j, v) ==
  /\ jpc[j] = "ask"
  /\ v \in {"A", "B"} => Quality[Survivor(pair[j], v)] >= Quality[Loser(pair[j], v)]
  /\ jpc' = [jpc EXCEPT ![j] = "insert"]
  /\ got' = [got EXCEPT ![j] = v]
  /\ UNCHANGED <<rows, verdict, queue, pair, dry, merge>>

\* INSERT ... ON CONFLICT DO NOTHING.  The job goes on with its own verdict.
Record(j) ==
  /\ jpc[j] = "insert"
  /\ jpc' = [jpc EXCEPT ![j] = "decide"]
  /\ verdict' = [verdict EXCEPT ![pair[j]] = IF @ = "none" THEN got[j] ELSE @]
  /\ UNCHANGED <<rows, queue, pair, got, dry, merge>>

Executes(j) == got[j] \in Redundant /\ ~dry[j]

\* Back in the job: a redundant pair is executed unless this is a dry run.
Decide(j) ==
  /\ jpc[j] = "decide"
  /\ IF ~Executes(j)
     THEN jpc' = [jpc EXCEPT ![j] = "next"] /\ UNCHANGED merge
     ELSE CASE got[j] = "synthesize" ->
                 jpc' = [jpc EXCEPT ![j] = "synthesize"] /\ UNCHANGED merge
            [] got[j] = "no text" ->
                 jpc' = [jpc EXCEPT ![j] = "fallback"] /\ UNCHANGED merge
            [] OTHER ->
                 /\ jpc' = [jpc EXCEPT ![j] = "read"]
                 /\ into' = [into EXCEPT ![j] = Survivor(pair[j], got[j])]
                 /\ from' = [from EXCEPT ![j] = {Loser(pair[j], got[j])}]
                 /\ gone' = [gone EXCEPT ![j] = {Loser(pair[j], got[j])}]
                 /\ UNCHANGED held
  /\ UNCHANGED <<rows, verdict, queue, pair, got, dry>>
-----------------------------------------------------------------------------
(* execute_dedup_verdict.                                                  *)

\* The merged text becomes a new row, and both old rows lose.
StoreSynthesis(j, m) ==
  /\ jpc[j] = "synthesize"
  /\ \A l \in Members(pair[j]) : Quality[m] >= Quality[l]
  /\ Insert(m)
  /\ jpc' = [jpc EXCEPT ![j] = "read"]
  /\ into' = [into EXCEPT ![j] = m]
  /\ from' = [from EXCEPT ![j] = Members(pair[j])]
  /\ gone' = [gone EXCEPT ![j] = Members(pair[j])]
  /\ UNCHANGED <<verdict, queue, pair, got, dry, held>>

\* No text: if both rows are still live, the one with the higher centre
\* survives (centres are not modelled: either may be).
Fallback(j, v) ==
  /\ jpc[j] = "fallback" /\ v \in {"A", "B"}
  /\ IF BothLive(pair[j])
     THEN /\ jpc' = [jpc EXCEPT ![j] = "read"]
          /\ into' = [into EXCEPT ![j] = Survivor(pair[j], v)]
          /\ from' = [from EXCEPT ![j] = {Loser(pair[j], v)}]
          /\ gone' = [gone EXCEPT ![j] = {Loser(pair[j], v)}]
     ELSE /\ jpc' = [jpc EXCEPT ![j] = "next"]
          /\ UNCHANGED <<into, from, gone>>
  /\ UNCHANGED <<rows, verdict, queue, pair, got, dry, held>>

\* transfer_weights: the SELECT of the loser, archived or not; a deleted
\* loser has nothing to give.
ReadLoser(j, l) ==
  /\ jpc[j] = "read" /\ l \in from[j]
  /\ from' = [from EXCEPT ![j] = @ \ {l}]
  /\ IF status[l] \in {"live", "archived"}
     THEN /\ jpc' = [jpc EXCEPT ![j] = "add"]
          /\ held' = [held EXCEPT ![j] = holds[l]]
     ELSE UNCHANGED <<jpc, held>>
  /\ UNCHANGED <<rows, verdict, queue, pair, got, dry, into, gone>>

\* mutant of AddWeights: SET depth_weight_alpha = the loser's
AddWeightsAbsolute(j) ==
  LET s == into[j] IN
  /\ jpc[j] = "add"
  /\ jpc' = [jpc EXCEPT ![j] = "read"]
  /\ holds' = [holds EXCEPT ![s] = IF Live(s) THEN held[j] ELSE @]
  /\ held' = [held EXCEPT ![j] = Nothing]
  /\ UNCHANGED <<status, heir, verdict, queue, pair, got, dry, into, from, gone>>

\* transfer_weights: the UPDATE adds to the survivor, if it is live.
AddWeights(j) ==
  LET s == into[j] IN
  /\ jpc[j] = "add"
  /\ jpc' = [jpc EXCEPT ![j] = "read"]
  /\ holds' = [holds EXCEPT ![s] =
                 IF Live(s) THEN [k \in Memories |-> Capped(@[k] + held[j][k])] ELSE @]
  /\ held' = [held EXCEPT ![j] = Nothing]
  /\ UNCHANGED <<status, heir, verdict, queue, pair, got, dry, into, from, gone>>

\* mutant of Archive: the loser stays
ArchiveNothing(j, l) ==
  /\ jpc[j] = "read" /\ from[j] = {} /\ l \in gone[j]
  /\ gone' = [gone EXCEPT ![j] = @ \ {l}]
  /\ jpc' = [jpc EXCEPT ![j] = IF gone[j] = {l} THEN "next" ELSE @]
  /\ UNCHANGED <<rows, verdict, queue, pair, got, dry, into, from, held>>

\* archive_memory of one loser: UPDATE ... WHERE NOT archived.
Archive(j, l) ==
  /\ jpc[j] = "read" /\ from[j] = {} /\ l \in gone[j]
  /\ gone' = [gone EXCEPT ![j] = @ \ {l}]
  /\ IF Live(l)
     THEN /\ status' = [status EXCEPT ![l] = "archived"]
          /\ heir' = [heir EXCEPT ![l] = into[j]]
     ELSE UNCHANGED <<status, heir>>
  /\ jpc' = [jpc EXCEPT ![j] = IF gone[j] = {l} THEN "next" ELSE @]
  /\ UNCHANGED <<holds, verdict, queue, pair, got, dry, into, from, held>>
-----------------------------------------------------------------------------
(* The end of a job, and failures.                                         *)

Finish(j) ==
  /\ jpc[j] = "next" /\ queue[j] = {}
  /\ jpc' = [jpc EXCEPT ![j] = "idle"]
  /\ pair' = [pair EXCEPT ![j] = AnyPair]
  /\ got' = [got EXCEPT ![j] = "none"]
  /\ dry' = [dry EXCEPT ![j] = FALSE]
  /\ into' = [into EXCEPT ![j] = AnyRow]
  /\ UNCHANGED <<rows, verdict, queue, from, gone, held>>

\* A statement or the LLM raises: the pair is left as it is, the next one
\* is tried.
Fail(j) ==
  /\ MayFail /\ jpc[j] \notin {"idle", "next"}
  /\ jpc' = [jpc EXCEPT ![j] = "next"]
  /\ from' = [from EXCEPT ![j] = {}]
  /\ gone' = [gone EXCEPT ![j] = {}]
  /\ held' = [held EXCEPT ![j] = Nothing]
  /\ UNCHANGED <<rows, verdict, queue, pair, got, dry, into>>

\* The process dies and starts again; the tables stay.
Restart ==
  /\ MayFail
  /\ jpc' = [j \in Jobs |-> "idle"]
  /\ queue' = [j \in Jobs |-> {}]
  /\ pair' = [j \in Jobs |-> AnyPair]
  /\ got' = [j \in Jobs |-> "none"]
  /\ dry' = [j \in Jobs |-> FALSE]
  /\ into' = [j \in Jobs |-> AnyRow]
  /\ from' = [j \in Jobs |-> {}]
  /\ gone' = [j \in Jobs |-> {}]
  /\ held' = [j \in Jobs |-> Nothing]
  /\ UNCHANGED <<rows, verdict>>

\* Once called, a job is driven by its own coroutine: every await of the
\* pool or the LLM returns, and the loop over the pairs goes on.
Progress(j) ==
  \/ \E p \in Pairs : Lookup(j, p)
  \/ Fetch(j) \/ Record(j) \/ Decide(j) \/ AddWeights(j) \/ Finish(j)
  \/ \E v \in Answers : Ask(j, v)
  \/ \E v \in {"A", "B"} : Fallback(j, v)
  \/ \E m \in Memories : StoreSynthesis(j, m) \/ ReadLoser(j, m) \/ Archive(j, m)

Start(j) ==
  \/ \E d \in DryRuns, S \in SUBSET Pairs : StartSweep(j, d, S)
  \/ \E m, o \in Memories : StartGate(j, m, o)

Next ==
  \/ \E m \in Memories : Store(m) \/ Delete(m)
  \/ \E j \in Jobs : Start(j) \/ Progress(j) \/ Fail(j)
  \/ Restart

Spec == Init /\ [][Next]_vars

FairSpec == Spec /\ \A j \in Jobs : WF_vars(Progress(j))
-----------------------------------------------------------------------------
Copies == [Memories -> 0..MaxCopies]
Merging(j) == jpc[j] \in {"read", "add"}

TypeOK ==
  /\ status \in [Memories -> {"none", "live", "archived", "deleted"}]
  /\ heir \in [Memories -> Memories]
  /\ holds \in [Memories -> Copies]
  /\ verdict \in [Pairs -> Redundant \cup {"none", "distinct"}]
  /\ jpc \in [Jobs -> {"idle", "next", "fetch", "ask", "insert", "decide",
                       "synthesize", "fallback", "read", "add"}]
  /\ queue \in [Jobs -> SUBSET Pairs]
  /\ pair \in [Jobs -> Pairs]
  /\ got \in [Jobs -> Redundant \cup {"none", "distinct"}]
  /\ dry \in [Jobs -> BOOLEAN]
  /\ into \in [Jobs -> Memories]
  /\ from \in [Jobs -> SUBSET Memories]
  /\ gone \in [Jobs -> SUBSET Memories]
  /\ held \in [Jobs -> Copies]

(* An idea is never lost: following survivor_id from an archived memory    *)
(* leads to one that is not archived.  (No set of archived memories is     *)
(* closed under survivor_id.)                                              *)
Archived == {m \in Memories : status[m] = "archived"}
NoIdeaLost == \A S \in SUBSET Archived : S # {} => \E m \in S : heir[m] \notin S

(* A weight is never counted twice: outside of a merge the weight a memory *)
(* was stored with is contained in at most one live row, and there once.   *)
CountedOnce ==
  (\A j \in Jobs : ~Merging(j)) =>
    \A k, m \in Memories : Live(m) /\ holds[m][k] > 0 =>
      /\ holds[m][k] = 1
      /\ \A n \in Memories : Live(n) /\ holds[n][k] > 0 => n = m

(* Nothing a loser has earned is lost: the row it was archived into        *)
(* contains all that the loser contains, unless someone deleted that row.  *)
HeirHoldsAll ==
  \A l \in Archived : status[heir[l]] # "deleted" =>
    \A k \in Memories : holds[l][k] <= holds[heir[l]][k]

(* A verdict is only executed for rows that are there: when a memory is    *)
(* archived, the one that survives it has not been archived itself.        *)
MergesLiveRows ==
  [][\A l \in Memories : status[l] = "live" /\ status'[l] = "archived" =>
       status[heir'[l]] # "archived"]_vars

(* The ideas stay a partition (IdeaPartition): following survivor_id leads *)
(* from every memory to one that is not archived, and what once led to the *)
(* same memory goes on doing so, whoever archives what at the same time,   *)
(* until somebody deletes a row on the way.                                *)
Leads(k, m) ==      \* a set with k is only left by survivor_id if it is without m
  \A S \in SUBSET (Memories \ {m}) :
    k \in S => \E l \in S : status[l] = "archived" /\ heir[l] \notin S
Found(k, m) == status[m] # "archived" /\ Leads(k, m)
Home(k) ==
  IF status[k] # "archived" \/ \A m \in Memories : ~Found(k, m) THEN k   \* the latter: it is lost
  ELSE CHOOSE m \in Memories : Found(k, m)
Partition == INSTANCE IdeaPartition WITH
  Ideas <- Memories, known <- {m \in Memories : status[m] # "none"},
  deleted <- {m \in Memories : status[m] = "deleted"}, home <- [k \in Memories |-> Home(k)]
IdeaPartitionSpec == Partition!Spec
=============================================================================
