-------------------------- MODULE MCMemoryWeights --------------------------
(* A small instance of MemoryWeights. *)
EXTENDS MemoryWeights, TLC

CONSTANT Fresh   \* the id kept for the row of an insight or of a synthesis

Symmetry == Permutations(Callers)

(* To keep the states few: two callers may race for a mutable row until a  *)
(* merge begins; other calls are made one after the other, and the deep    *)
(* cycle runs beside calls or beside merged rows, not beside both; one     *)
(* insight is under way at a time, with merges, deletions and the decay    *)
(* tick beside it; and once the fresh row is stored only these three go on.*)
Merging == (\E m \in Memories : absorbed'[m] > 1) \/ (\E d \in Mergers : mpc'[d] # "idle")
Busy == {w \in Callers : pc'[w] # "idle"}
Quiet == Busy = {} /\ dpc' = "idle"
RacingNext ==
  /\ Next
  /\ Cardinality(Busy) > 1 =>
       ~Merging /\ \A w \in Busy : near'[w] = {} /\ todo'[w] \cap Immutable = {}
  /\ Busy # {} /\ dpc' # "idle" => ~Merging
  /\ insights' # {} => Quiet /\ Cardinality(insights') = 1 /\ status'[Fresh] = "none"
  /\ status'[Fresh] # "none" => Quiet /\ (status[Fresh] = "none" => insights' # insights \/ mpc' # mpc)
RacingSpec == Init /\ [][RacingNext]_vars
=============================================================================
