------------------------------ MODULE MCDedup ------------------------------
(* Small instances of Dedup. *)
EXTENDS Dedup, TLC

CONSTANTS j1, j2

AnyQuality == [m \in Memories |-> 0]      \* the LLM may contradict itself
Ranked == [m \in Memories |-> m]          \* the LLM ranks all memories
Symmetry == Permutations(Jobs)

(* Two jobs beside each other are many states: here every sweep finds all  *)
(* pairs of live memories, and nobody deletes a row.                       *)
LivePairs == {p \in Pairs : BothLive(p)}
SweepingNext ==
  \/ \E m \in Memories : Store(m)
  \/ \E j \in Jobs, d \in DryRuns : StartSweep(j, d, LivePairs)
  \/ \E j \in Jobs, m, o \in Memories : StartGate(j, m, o)
  \/ \E j \in Jobs : Progress(j) \/ Fail(j)
  \/ Restart
SweepingSpec == Init /\ [][SweepingNext]_vars
=============================================================================
