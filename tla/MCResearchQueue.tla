-------------------------- MODULE MCResearchQueue --------------------------
(* Small instances of ResearchQueue. *)
EXTENDS ResearchQueue

(* Two items are many states: here only memory 1 is ever archived, at a    *)
(* moment when the next step reads the rows, the agent falls silent        *)
(* between two scans, hours pass between two scans or while the LLM        *)
(* classifies a pair, and the scan samples the pair of 1 with another      *)
(* memory and its pair with a memory of the user's.                        *)
Sampled == {<<1, 2>>, <<1, 3>>}
FewPairsNext ==
  \/ pc \in {"queue", "displace"} /\ Archive(1)
  \/ pc = "idle" /\ Recency
  \/ pc \in {"idle", "classify"} /\ Tick
  \/ Raise \/ Restart
  \/ \E S \in SUBSET Sampled : Scan(S)
  \/ pc # "idle" /\ Progress
FewPairsSpec ==
  Init /\ [][FewPairsNext]_vars /\ WF_vars(Progress) /\ WF_vars(Tick) /\ SF_vars(Answered)
=============================================================================
