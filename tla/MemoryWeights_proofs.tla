----------------------- MODULE MemoryWeights_proofs ------------------------
(***************************************************************************)
(* Theorems about MemoryWeights, for any set of memories, any finite       *)
(* number of concurrent callers and mergers, and any gains.                *)
(***************************************************************************)
EXTENDS MemoryWeights, FiniteSetTheorems, TLAPS

(***************************************************************************)
(* The callers that may still add their gain to a row, because the row in  *)
(* their snapshot passes the ceiling, and what each of them would add.     *)
(***************************************************************************)
Gains(m) == [w \in Callers |-> RetrievalGain(snap[w][m])]
Passes(w, m) == UnderCeiling(snap[w][m].a + RetrievalGain(snap[w][m]), snap[w][m].b)
Holders(m) == {w \in Callers : pc[w] = "loop" /\ m \in todo[w] \cup granted[w] /\ Passes(w, m)}

(***************************************************************************)
(* There is room for every holder: x stays below y even when all of them   *)
(* add their gain.  One of them, the last that joined, found room for its  *)
(* own gain; the others are charged a whole Gain each.                     *)
(***************************************************************************)
Room(H, g, x, y) ==
  /\ x <= y
  /\ H = {} \/ \E q \in H : x + g[q] + Gain * (Cardinality(H) - 1) <= y

Allowance(m) == 19 * beta[m] + Overrun * absorbed[m]

DeepInv == (phaseB <=> dpc # "idle") /\ dgranted = {}

CallOK(w) ==
  /\ pc[w] = "idle" => todo[w] = {} /\ granted[w] = {}
  /\ pc[w] = "select" => granted[w] = {}
  /\ todo[w] \cap granted[w] = {}
  /\ \A m \in todo[w] \cup granted[w] : status[m] # "none"
  /\ pc[w] = "select" => \A m \in todo[w] : Mutable(m) => accessed[m]
  /\ pc[w] = "loop" => \A m \in todo[w] \cup granted[w] : ~snap[w][m].first
  /\ \A m \in granted[w] : Passes(w, m)
CallInv == \A w \in Callers : CallOK(w)

(* Weights that were read and are still to be written obey the bound too.  *)
MergeInv == \A d \in Mergers : held[d].a <= 19 * held[d].b + Overrun * held[d].n
InsightInv == \A r \in insights : r.a <= 19 * r.b + Overrun * r.n

RoomInv == \A m \in Memories : Room(Holders(m), Gains(m), alpha[m], Allowance(m))

(* The seeded rows are never in the state before an INSERT.                *)
SeedInv == \A m \in Immutable : status[m] # "none"

IInv == TypeOK /\ DeepInv /\ CallInv /\ MergeInv /\ InsightInv /\ RoomInv /\ SeedInv
-----------------------------------------------------------------------------
(* Arithmetic.                                                             *)

(* An integer quotient lies between 0 and its dividend.                    *)
LEMMA QuotientBound ==
  ASSUME NEW g \in Nat, NEW d \in Nat, d >= 1
  PROVE  g \div d \in 0..g
<1> DEFINE q == g \div d
<1>1. q \in Int /\ d * q <= g /\ g < d * q + d
  BY Z3
<1>2. q >= 0
  <2>1. SUFFICES ASSUME q <= -1 PROVE FALSE
    BY <1>1
  <2>2. d * q <= d * (-1)
    BY <1>1, <2>1
  <2>3. QED BY <1>1, <2>2
<1>3. q <= d * q
  BY <1>1, <1>2
<1>4. QED BY <1>1, <1>2, <1>3

LEMMA LogType == ASSUME NEW n \in Nat PROVE Log2(n) \in Nat
<1>1. IsFiniteSet(1..30)
  <2>1. \A b \in Int : IsFiniteSet(1..b) BY FS_Interval
  <2>2. 30 \in Int OBVIOUS
  <2>3. QED BY <2>1, <2>2, Zenon
<1>2. {k \in 1..30 : 2^k <= n} \subseteq 1..30 OBVIOUS
<1>3. IsFiniteSet({k \in 1..30 : 2^k <= n}) BY <1>1, <1>2, FS_Subset
<1>4. QED BY <1>3, FS_CardinalityType DEF Log2

(* Diminishing returns: a gain is never increased and never negative.      *)
LEMMA DiminishedBound ==
  ASSUME NEW g \in Nat, NEW a \in Nat, NEW b \in Nat
  PROVE  Diminished(g, a, b) \in 0..g
<1> DEFINE d == Log2(a + b)
<1>1. d \in Nat BY LogType
<1>2. CASE d <= 1
  <2>1. Diminished(g, a, b) = g BY <1>2 DEF Diminished
  <2>2. QED BY <2>1
<1>3. CASE ~(d <= 1)
  <2>1. Diminished(g, a, b) = g \div d BY <1>3 DEF Diminished
  <2>2. d >= 1 BY <1>1, <1>3
  <2>3. g \div d \in 0..g
    <3> HIDE DEF d
    <3>1. QED BY <1>1, <2>2, QuotientBound
  <2>4. QED BY <2>1, <2>3
<1>4. QED BY <1>2, <1>3

(* A row counted as accessed adds at most Gain; any row a natural number.  *)
LEMMA RetrievalGainBound ==
  ASSUME NEW s \in Pair
  PROVE  RetrievalGain(s) \in Nat /\ (~s.first => RetrievalGain(s) <= Gain)
<1>1. s.a \in Nat /\ s.b \in Nat /\ s.first \in BOOLEAN BY DEF Pair
<1>2. Gain \in Nat /\ 2 * Gain \in Nat BY WeightsAssumption
<1>3. CASE s.first
  <2>1. RetrievalGain(s) = Diminished(2 * Gain, s.a, s.b) BY <1>3 DEF RetrievalGain
  <2>2. Diminished(2 * Gain, s.a, s.b) \in 0..(2 * Gain) BY <1>1, <1>2, DiminishedBound
  <2>3. QED BY <1>2, <1>3, <2>1, <2>2
<1>4. CASE ~s.first
  <2>1. RetrievalGain(s) = Diminished(Gain, s.a, s.b) BY <1>4 DEF RetrievalGain
  <2>2. RetrievalGain(s) \in 0..Gain BY <1>1, <1>2, <2>1, DiminishedBound
  <2>3. QED BY <1>2, <2>2
<1>5. QED BY <1>1, <1>3, <1>4

LEMMA OverrunNat == Overrun \in Nat
<1>1. Cardinality(Callers) \in Nat /\ Cardinality(Callers) # 0
  BY CallersAssumption, FS_CardinalityType, FS_EmptySet
<1>2. Cardinality(Callers) - 1 \in Nat BY <1>1
<1>3. QED BY <1>2, WeightsAssumption DEF Overrun
-----------------------------------------------------------------------------
(* Room.                                                                   *)

(* Room survives when holders leave and the slack y - x does not shrink.   *)
LEMMA RoomShrink ==
  ASSUME NEW H, IsFiniteSet(H), NEW H2 \in SUBSET H, NEW g, NEW g2,
         \A w \in H : g[w] \in 0..Gain,
         \A w \in H2 : g2[w] = g[w],
         NEW x \in Int, NEW y \in Int, NEW x2 \in Int, NEW y2 \in Int,
         x2 - y2 <= x - y, Room(H, g, x, y)
  PROVE  Room(H2, g2, x2, y2)
<1>1. x2 <= y2 BY DEF Room
<1>2. SUFFICES ASSUME H2 # {}
               PROVE  \E q \in H2 : x2 + g2[q] + Gain * (Cardinality(H2) - 1) <= y2
  BY <1>1 DEF Room
<1>3. PICK q \in H : x + g[q] + Gain * (Cardinality(H) - 1) <= y
  BY <1>2 DEF Room
<1>4. /\ IsFiniteSet(H2) /\ Cardinality(H2) \in Nat /\ Cardinality(H) \in Nat
      /\ Cardinality(H2) <= Cardinality(H) /\ Gain \in Nat
  BY FS_Subset, FS_CardinalityType, WeightsAssumption
<1>5. CASE q \in H2
  <2>1. Gain * (Cardinality(H2) - 1) <= Gain * (Cardinality(H) - 1) BY <1>4
  <2>2. QED BY <1>3, <1>4, <1>5, <2>1
<1>6. CASE q \notin H2
  <2>1. PICK r \in H2 : TRUE BY <1>2
  <2>2. H2 \subseteq H \ {q} BY <1>6
  <2>3. IsFiniteSet(H \ {q}) /\ Cardinality(H \ {q}) = Cardinality(H) - 1
    BY FS_RemoveElement
  <2>4. Cardinality(H2) <= Cardinality(H) - 1 BY <2>2, <2>3, FS_Subset
  <2>5. Gain * (Cardinality(H2) - 1) <= Gain * (Cardinality(H) - 1) - Gain BY <1>4, <2>4
  <2>6. g2[r] = g[r] /\ g[r] \in 0..Gain /\ g[q] \in 0..Gain BY <2>1
  <2>7. x2 + g2[r] + Gain * (Cardinality(H2) - 1) <= y2 BY <1>3, <1>4, <2>5, <2>6
  <2>8. QED BY <2>1, <2>7
<1>7. QED BY <1>5, <1>6

(* Room survives a holder adding its gain and leaving.                     *)
LEMMA RoomSpend ==
  ASSUME NEW H, IsFiniteSet(H), NEW w \in H, NEW g, NEW g2,
         \A v \in H : g[v] \in 0..Gain,
         \A v \in H \ {w} : g2[v] = g[v],
         NEW x \in Int, NEW y \in Int, Room(H, g, x, y)
  PROVE  Room(H \ {w}, g2, x + g[w], y)
<1>1. PICK q \in H : x + g[q] + Gain * (Cardinality(H) - 1) <= y
  BY DEF Room
<1>2. /\ IsFiniteSet(H \ {w}) /\ Cardinality(H \ {w}) = Cardinality(H) - 1
      /\ Cardinality(H) \in Nat /\ Cardinality(H \ {w}) \in Nat /\ Gain \in Nat
  BY FS_RemoveElement, FS_CardinalityType, WeightsAssumption
<1> DEFINE c == Cardinality(H \ {w})
<1>3. Gain * (Cardinality(H) - 1) = Gain * c BY <1>2
<1>4. g[w] \in 0..Gain /\ g[q] \in 0..Gain BY <1>1
<1>5. CASE H \ {w} = {}
  <2>1. c = 0 /\ q = w BY <1>1, <1>5, FS_EmptySet
  <2>2. x + g[w] <= y BY <1>1, <1>2, <1>3, <1>4, <2>1
  <2>3. QED BY <1>5, <2>2 DEF Room
<1>6. CASE H \ {w} # {}
  <2>1. c >= 1 BY <1>2, <1>6, FS_EmptySet
  <2>2. Gain * (c - 1) = Gain * c - Gain /\ Gain * (c - 1) >= 0 BY <1>2, <2>1
  <2>3. CASE q = w
    <3>1. PICK r \in H \ {w} : TRUE BY <1>6
    <3>2. g2[r] = g[r] /\ g[r] \in 0..Gain BY <3>1
    <3>3. (x + g[w]) + g2[r] + Gain * (c - 1) <= y
      BY <1>1, <1>2, <1>3, <1>4, <2>2, <2>3, <3>2
    <3>4. x + g[w] <= y BY <1>1, <1>2, <1>3, <1>4, <2>2, <2>3
    <3>5. QED BY <3>1, <3>3, <3>4 DEF Room
  <2>4. CASE q # w
    <3>1. q \in H \ {w} /\ g2[q] = g[q] BY <1>1, <2>4
    <3>2. (x + g[w]) + g2[q] + Gain * (c - 1) <= y
      BY <1>1, <1>2, <1>3, <1>4, <2>2, <3>1
    <3>3. x + g[w] <= y BY <1>1, <1>2, <1>3, <1>4, <2>2
    <3>4. QED BY <3>1, <3>2, <3>3 DEF Room
  <2>5. QED BY <2>3, <2>4
<1>7. QED BY <1>5, <1>6

(* There is room for a new holder that passes the ceiling, next to any     *)
(* other callers.                                                          *)
LEMMA RoomJoin ==
  ASSUME NEW H \in SUBSET Callers, NEW w \in H, NEW g, g[w] \in Nat,
         NEW x \in Int, NEW y \in Int, NEW n \in Nat \ {0},
         x + g[w] <= y
  PROVE  Room(H, g, x, y + Overrun * n)
<1>1. /\ IsFiniteSet(H) /\ Cardinality(H) \in Nat /\ Cardinality(Callers) \in Nat
      /\ Cardinality(H) <= Cardinality(Callers) /\ Gain \in Nat
  BY CallersAssumption, FS_Subset, FS_CardinalityType, WeightsAssumption
<1>2. Overrun \in Nat BY OverrunNat
<1>3. Overrun <= Overrun * n BY <1>2
<1>4. Gain * (Cardinality(H) - 1) <= Overrun BY <1>1 DEF Overrun
<1>5. x + g[w] + Gain * (Cardinality(H) - 1) <= y + Overrun * n BY <1>1, <1>2, <1>3, <1>4
<1>6. x <= y + Overrun * n BY <1>2, <1>3
<1>7. QED BY <1>5, <1>6 DEF Room
-----------------------------------------------------------------------------
(* Types.                                                                  *)

LEMMA SnapshotType ==
  ASSUME TypeOK, NEW S
  PROVE  Snapshot(S) \in [Memories -> Pair] /\ EmptySnap \in [Memories -> Pair]
<1>1. NoSnap \in Pair BY DEF NoSnap, Pair
<1>2. \A m \in Memories : [a |-> alpha[m], b |-> beta[m], first |-> ~accessed[m]] \in Pair
  BY DEF TypeOK, Pair
<1>3. QED BY <1>1, <1>2 DEF Snapshot, EmptySnap

LEMMA InitType == Init => TypeOK
<1>1. SUFFICES ASSUME Init PROVE TypeOK
  OBVIOUS
<1>2. EmptySnap \in [Memories -> Pair] BY DEF EmptySnap, NoSnap, Pair
<1>3. InitAlpha \in Nat /\ InitBeta \in Nat BY WeightsAssumption
<1>4. status \in [Memories -> {"none", "live", "archived", "deleted"}]
  BY <1>1 DEF Init
<1>5. /\ alpha \in [Memories -> Nat] /\ beta \in [Memories -> Nat]
      /\ accessed \in [Memories -> BOOLEAN] /\ absorbed \in [Memories -> Nat \ {0}]
      /\ phaseB \in BOOLEAN /\ insights \subseteq [a : Nat, b : Nat, n : Nat \ {0}]
  <2>1. alpha \in [Memories -> Nat] BY <1>1, <1>3 DEF Init
  <2>2. beta \in [Memories -> Nat] BY <1>1, <1>3 DEF Init
  <2>3. accessed \in [Memories -> BOOLEAN] /\ phaseB \in BOOLEAN /\ insights = {} BY <1>1 DEF Init
  <2>4. absorbed \in [Memories -> Nat \ {0}] BY <1>1 DEF Init
  <2>5. QED BY <2>1, <2>2, <2>3, <2>4
<1>6. /\ pc \in [Callers -> {"idle", "select", "loop"}] /\ snap \in [Callers -> [Memories -> Pair]]
      /\ todo \in [Callers -> SUBSET Memories] /\ near \in [Callers -> SUBSET Memories]
      /\ granted \in [Callers -> SUBSET Memories]
  BY <1>1, <1>2 DEF Init
<1>7. /\ mpc \in [Mergers -> {"idle", "read", "add"}] /\ into \in [Mergers -> Memories]
      /\ from \in [Mergers -> SUBSET Memories] /\ gone \in [Mergers -> SUBSET Memories]
      /\ held \in [Mergers -> [a : Nat, b : Nat, n : Nat]]
  BY <1>1 DEF Init
<1>8. /\ dpc \in DeepPc /\ dtodo \in SUBSET Memories /\ dgranted \in SUBSET Memories
      /\ dsnap \in [Memories -> Pair]
  BY <1>1, <1>2 DEF Init, DeepPc
<1>9. QED BY <1>4, <1>5, <1>6, <1>7, <1>8 DEF TypeOK

LEMMA RowStepType == TypeOK /\ RowStep => TypeOK'
<1> SUFFICES ASSUME TypeOK, RowStep PROVE TypeOK'
  OBVIOUS
<1>0. InitAlpha \in Nat /\ InitBeta \in Nat /\ DecayNudge \in Nat BY WeightsAssumption
<1>1. ASSUME NEW m \in Memories, Store(m) PROVE TypeOK'
  BY <1>0, <1>1 DEF TypeOK, Store, Insert, calls, merges, deep
<1>2. ASSUME NEW m \in Memories, Delete(m) PROVE TypeOK'
  BY <1>2 DEF TypeOK, Delete, calls, merges, deep
<1>3. ASSUME NEW m \in Memories, NEW r \in insights, StoreInsight(m, r) PROVE TypeOK'
  <2>1. r \in [a : Nat, b : Nat, n : Nat \ {0}] BY DEF TypeOK
  <2>2. r.a \in Nat /\ r.b \in Nat /\ r.n \in Nat \ {0} BY <2>1
  <2>3. QED BY <1>3, <2>2 DEF TypeOK, StoreInsight, Insert, calls, merges, deep
<1>4. ASSUME NEW S \in SUBSET Memories, DecayTick(S) PROVE TypeOK'
  BY <1>0, <1>4 DEF TypeOK, DecayTick, calls, merges, deep
<1>5. ASSUME NEW m \in Memories, ReadSources(m) PROVE TypeOK'
  <2>1. Weights(m) \in [a : Nat, b : Nat, n : Nat \ {0}] BY DEF TypeOK, Weights
  <2>2. NewWeights \in [a : Nat, b : Nat, n : Nat \ {0}] BY <1>0 DEF NewWeights
  <2>3. insights' \subseteq [a : Nat, b : Nat, n : Nat \ {0}]
    BY <1>5, <2>1, <2>2 DEF TypeOK, ReadSources
  <2>4. QED BY <1>5, <2>3 DEF TypeOK, ReadSources, rows, calls, merges, deep
<1>6. ASSUME NEW r \in insights, FailInsight(r) PROVE TypeOK'
  BY <1>6 DEF TypeOK, FailInsight, rows, calls, merges, deep
<1>7. QED BY <1>1, <1>2, <1>3, <1>4, <1>5, <1>6 DEF RowStep

LEMMA CallStepType == ASSUME TypeOK, NEW w \in Callers, CallStep(w) PROVE TypeOK'
<1>0. NearMiss \in Nat /\ EmptySnap \in [Memories -> Pair] BY WeightsAssumption, SnapshotType
<1>1. ASSUME NEW R \in SUBSET Memories, NEW N \in SUBSET Memories, BeginCall(w, R, N) PROVE TypeOK'
  BY <1>1 DEF TypeOK, BeginCall, Mutable, Live, merges, deep
<1>2. CASE Select(w)
  <2>1. Snapshot({m \in todo[w] : Mutable(m)}) \in [Memories -> Pair] BY SnapshotType
  <2>2. {m \in todo[w] : Mutable(m)} \in SUBSET Memories BY DEF TypeOK
  <2> DEFINE found == {m \in todo[w] : Mutable(m)}
  <2>3. /\ todo' = [todo EXCEPT ![w] = found] /\ snap' = [snap EXCEPT ![w] = Snapshot(found)]
        /\ pc' = [pc EXCEPT ![w] = "loop"]
        /\ UNCHANGED <<rows, insights, phaseB, near, granted, merges, deep>>
    BY <1>2 DEF Select
  <2> HIDE DEF found
  <2>4. QED BY <2>1, <2>2, <2>3 DEF TypeOK, rows, merges, deep, found
<1>3. CASE Reinforce(w)
  <2>1. \A m \in Memories : RetrievalGain(snap[w][m]) \in Nat
    BY RetrievalGainBound DEF TypeOK
  <2>2. alpha' \in [Memories -> Nat] BY <1>3, <2>1 DEF TypeOK, Reinforce
  <2>3. QED BY <1>3, <2>2 DEF TypeOK, Reinforce, merges, deep
<1>4. CASE NearMisses(w)
  BY <1>0, <1>4 DEF TypeOK, NearMisses, ClearCall, merges, deep
<1>5. CASE FailCall(w)
  BY <1>0, <1>5 DEF TypeOK, FailCall, ClearCall, rows, merges, deep
<1>6. ASSUME NEW m \in Memories, Check(w, m) PROVE TypeOK'
  BY <1>6 DEF TypeOK, Check, rows, merges, deep
<1>7. QED BY <1>1, <1>2, <1>3, <1>4, <1>5, <1>6 DEF CallStep

LEMMA MergeStepType == ASSUME TypeOK, NEW d \in Mergers, MergeStep(d) PROVE TypeOK'
<1>0. InitAlpha \in Nat /\ InitBeta \in Nat BY WeightsAssumption
<1>1. ASSUME NEW s \in Memories, NEW l \in Memories, BeginSurvivor(d, s, l) PROVE TypeOK'
  BY <1>1 DEF TypeOK, BeginSurvivor, BeginMerge, calls, deep
<1>2. ASSUME NEW s \in Memories, NEW l \in Memories, BeginFallback(d, s, l) PROVE TypeOK'
  BY <1>2 DEF TypeOK, BeginFallback, BeginMerge, calls, deep
<1>3. ASSUME NEW s \in Memories, NEW L \in SUBSET Memories, BeginSynthesis(d, s, L) PROVE TypeOK'
  BY <1>0, <1>3 DEF TypeOK, BeginSynthesis, BeginMerge, Insert, calls, deep
<1>4. ASSUME NEW l \in Memories, ReadLoser(d, l) PROVE TypeOK'
  <2>1. CASE Stored(l)
    <3>1. [a |-> alpha[l], b |-> beta[l], n |-> absorbed[l]] \in [a : Nat, b : Nat, n : Nat]
      BY DEF TypeOK
    <3>2. held' \in [Mergers -> [a : Nat, b : Nat, n : Nat]] BY <1>4, <2>1, <3>1 DEF TypeOK, ReadLoser
    <3>3. mpc' \in [Mergers -> {"idle", "read", "add"}] /\ from' \in [Mergers -> SUBSET Memories]
      BY <1>4, <2>1 DEF TypeOK, ReadLoser
    <3>4. QED BY <1>4, <3>2, <3>3 DEF TypeOK, ReadLoser, rows, calls, deep
  <2>2. CASE ~Stored(l)
    BY <1>4, <2>2 DEF TypeOK, ReadLoser, rows, calls, deep
  <2>3. QED BY <2>1, <2>2
<1>5. ASSUME NEW l \in Memories, ArchiveLoser(d, l) PROVE TypeOK'
  BY <1>5 DEF TypeOK, ArchiveLoser, calls, deep
<1>6. CASE AddWeights(d)
  <2>1. into[d] \in Memories /\ held[d] \in [a : Nat, b : Nat, n : Nat] BY DEF TypeOK
  <2>2. CASE Live(into[d])
    <3>1. /\ alpha' \in [Memories -> Nat] /\ beta' \in [Memories -> Nat]
          /\ absorbed' \in [Memories -> Nat \ {0}]
      <4>1. /\ alpha' = [alpha EXCEPT ![into[d]] = alpha[into[d]] + held[d].a]
            /\ beta' = [beta EXCEPT ![into[d]] = beta[into[d]] + held[d].b]
            /\ absorbed' = [absorbed EXCEPT ![into[d]] = absorbed[into[d]] + held[d].n]
        BY <1>6, <2>2, Zenon DEF AddWeights
      <4>2. /\ held[d].a \in Nat /\ held[d].b \in Nat /\ held[d].n \in Nat BY <2>1
      <4>3. /\ alpha[into[d]] + held[d].a \in Nat /\ beta[into[d]] + held[d].b \in Nat
            /\ absorbed[into[d]] + held[d].n \in Nat \ {0}
        BY <2>1, <4>2 DEF TypeOK
      <4>4. alpha \in [Memories -> Nat] /\ beta \in [Memories -> Nat]
            /\ absorbed \in [Memories -> Nat \ {0}]
        BY DEF TypeOK
      <4>5. QED BY <4>1, <4>3, <4>4
    <3>2. /\ mpc' \in [Mergers -> {"idle", "read", "add"}]
          /\ held' \in [Mergers -> [a : Nat, b : Nat, n : Nat]]
      BY <1>6 DEF TypeOK, AddWeights
    <3>3. QED BY <1>6, <3>1, <3>2 DEF TypeOK, AddWeights, calls, deep
  <2>3. CASE ~Live(into[d])
    BY <1>6, <2>1, <2>3 DEF TypeOK, AddWeights, calls, deep
  <2>4. QED BY <2>2, <2>3
<1>7. CASE FailMerge(d)
  BY <1>7 DEF TypeOK, FailMerge, rows, calls, deep
<1>8. QED BY <1>1, <1>2, <1>3, <1>4, <1>5, <1>6, <1>7 DEF MergeStep

LEMMA DeepStepType == TypeOK /\ DeepStep => TypeOK'
<1> SUFFICES ASSUME TypeOK, DeepStep PROVE TypeOK'
  OBVIOUS
<1>0. DeepDecay \in Nat /\ GoalGain \in Nat /\ IdentityGain \in Nat BY WeightsAssumption
<1>1. EmptySnap \in [Memories -> Pair] BY SnapshotType
<1>2. CASE BeginDeep
  BY <1>2 DEF TypeOK, BeginDeep, DeepPc, rows, calls, merges
<1>3. CASE MergeAndInsight
  BY <1>3 DEF TypeOK, MergeAndInsight, DeepPc, rows, calls, merges
<1>4. ASSUME NEW x \in Memories, LoopRow(x) PROVE TypeOK'
  <2>1. LoopAlpha(dsnap[x]) \in Nat
    <3>1. dsnap[x].a \in Nat /\ dsnap[x].b \in Nat BY DEF TypeOK, Pair
    <3>2. /\ Diminished(GoalGain, dsnap[x].a, dsnap[x].b) \in 0..GoalGain
          /\ Diminished(IdentityGain, dsnap[x].a, dsnap[x].b) \in 0..IdentityGain
      BY <1>0, <3>1, DiminishedBound
    <3>3. CASE dpc = "goal loop"
      <4>1. LoopAlpha(dsnap[x]) = Diminished(GoalGain, dsnap[x].a, dsnap[x].b)
        BY <3>3 DEF LoopAlpha
      <4>2. QED BY <1>0, <3>2, <4>1
    <3>4. CASE dpc = "identity loop"
      <4>1. LoopAlpha(dsnap[x]) = Diminished(IdentityGain, dsnap[x].a, dsnap[x].b)
        BY <3>4 DEF LoopAlpha
      <4>2. QED BY <1>0, <3>2, <4>1
    <3>5. CASE dpc \notin {"goal loop", "identity loop"} BY <3>5 DEF LoopAlpha
    <3>6. QED BY <3>3, <3>4, <3>5
  <2>2. LoopBeta \in Nat BY <1>0 DEF LoopBeta
  <2>3. /\ alpha[x] \in Nat /\ alpha[x] + LoopAlpha(dsnap[x]) \in Nat
        /\ beta[x] \in Nat /\ beta[x] + LoopBeta \in Nat
    BY <2>1, <2>2 DEF TypeOK
  <2>4. alpha' \in [Memories -> Nat] /\ beta' \in [Memories -> Nat]
    BY <1>4, <2>3 DEF TypeOK, LoopRow
  <2>5. QED BY <1>4, <2>4 DEF TypeOK, LoopRow, calls, merges
<1>5. CASE EndLoop
  BY <1>1, <1>5 DEF TypeOK, EndLoop, DeepPc, Loops, rows, calls, merges
<1>6. CASE DecayStale
  <2>1. beta' = [m \in Memories |-> IF m \in dgranted /\ Live(m)
                                   THEN beta[m] + DeepDecay ELSE beta[m]]
    BY <1>6 DEF DecayStale
  <2>2. \A m \in Memories : beta[m] \in Nat /\ beta[m] + DeepDecay \in Nat BY <1>0 DEF TypeOK
  <2>3. beta' \in [Memories -> Nat] BY <2>1, <2>2
  <2>4. QED BY <1>6, <2>3 DEF TypeOK, DecayStale, DeepPc, calls, merges
<1>7. CASE EndDeep
  BY <1>7 DEF TypeOK, EndDeep, DeepPc, rows, calls, merges
<1>8. CASE FailStep
  BY <1>1, <1>8 DEF TypeOK, FailStep, DeepPc, Loops, rows, calls, merges
<1>9. ASSUME NEW S \in SUBSET Memories, SelectRows(S) PROVE TypeOK'
  <2>1. Snapshot(S) \in [Memories -> Pair] BY SnapshotType
  <2>2. QED BY <1>9, <2>1 DEF TypeOK, SelectRows, DeepPc, Loops, rows, calls, merges
<1>10. ASSUME NEW S \in SUBSET Memories, SelectStale(S) PROVE TypeOK'
  BY <1>10 DEF TypeOK, SelectStale, DeepPc, rows, calls, merges
<1>11. QED
  BY <1>2, <1>3, <1>4, <1>5, <1>6, <1>7, <1>8, <1>9, <1>10 DEF DeepStep

LEMMA NextType == TypeOK /\ [Next]_vars => TypeOK'
<1> SUFFICES ASSUME TypeOK, [Next]_vars PROVE TypeOK'
  OBVIOUS
<1>1. CASE Restart
  <2>1. EmptySnap \in [Memories -> Pair] BY SnapshotType
  <2>2. QED BY <1>1, <2>1 DEF TypeOK, Restart, DeepPc, rows
<1>2. CASE UNCHANGED vars
  BY <1>2 DEF TypeOK, vars, calls, merges, deep
<1>3. QED
  BY <1>1, <1>2, RowStepType, CallStepType, MergeStepType, DeepStepType DEF Next

(* Every variable of every reachable state has its type.                   *)
THEOREM TypeCorrect == Spec => []TypeOK
<1>1. QED BY InitType, NextType, PTL DEF Spec
-----------------------------------------------------------------------------
(* What every step does to a row, and the deep cycle.                      *)

(* No step turns a stored row back into one not yet inserted, revives a    *)
(* dead row or forgets an access.                                          *)
Ages(m) ==
  /\ status[m] # "none" => status'[m] # "none" /\ (status'[m] = "live" => status[m] = "live")
  /\ accessed[m] => accessed'[m]

LEMMA RowStepAges == ASSUME TypeOK, RowStep, NEW m \in Memories PROVE Ages(m)
<1>1. ASSUME NEW x \in Memories, NEW a, NEW b, Insert(x, a, b), UNCHANGED accessed PROVE Ages(m)
  BY <1>1 DEF TypeOK, Insert, Ages
<1>2. ASSUME NEW x \in Memories, Store(x) PROVE Ages(m)
  BY <1>1, <1>2 DEF Store
<1>3. ASSUME NEW x \in Memories, NEW r \in insights, StoreInsight(x, r) PROVE Ages(m)
  BY <1>1, <1>3 DEF StoreInsight
<1>4. ASSUME NEW x \in Memories, Delete(x) PROVE Ages(m)
  BY <1>4 DEF TypeOK, Delete, Ages, Stored
<1>5. ASSUME NEW S \in SUBSET Memories, DecayTick(S) PROVE Ages(m)
  BY <1>5 DEF DecayTick, Ages
<1>6. ASSUME NEW x \in Memories, ReadSources(x) PROVE Ages(m)
  BY <1>6 DEF ReadSources, rows, Ages
<1>7. ASSUME NEW r \in insights, FailInsight(r) PROVE Ages(m)
  BY <1>7 DEF FailInsight, rows, Ages
<1>8. QED BY <1>2, <1>3, <1>4, <1>5, <1>6, <1>7 DEF RowStep

LEMMA CallStepAges ==
  ASSUME TypeOK, NEW w \in Callers, CallStep(w), NEW m \in Memories
  PROVE  Ages(m) /\ UNCHANGED <<status, insights, phaseB, merges, deep>>
<1>1. ASSUME NEW R \in SUBSET Memories, NEW N \in SUBSET Memories, BeginCall(w, R, N)
      PROVE  Ages(m) /\ UNCHANGED <<status, insights, phaseB, merges, deep>>
  BY <1>1 DEF TypeOK, BeginCall, Ages
<1>2. CASE Select(w) BY <1>2 DEF Select, Ages, rows
<1>3. CASE Reinforce(w) BY <1>3 DEF Reinforce, Ages
<1>4. CASE NearMisses(w) BY <1>4 DEF NearMisses, Ages
<1>5. CASE FailCall(w) BY <1>5 DEF FailCall, Ages, rows
<1>6. ASSUME NEW x \in Memories, Check(w, x)
      PROVE  Ages(m) /\ UNCHANGED <<status, insights, phaseB, merges, deep>>
  BY <1>6 DEF Check, Ages, rows
<1>7. QED BY <1>1, <1>2, <1>3, <1>4, <1>5, <1>6 DEF CallStep

LEMMA MergeStepAges ==
  ASSUME TypeOK, NEW d \in Mergers, MergeStep(d), NEW m \in Memories
  PROVE  Ages(m) /\ UNCHANGED <<insights, phaseB, calls, deep>>
<1>1. ASSUME NEW s \in Memories, NEW l \in Memories, BeginSurvivor(d, s, l)
      PROVE  Ages(m) /\ UNCHANGED <<insights, phaseB, calls, deep>>
  BY <1>1 DEF BeginSurvivor, BeginMerge, Ages
<1>2. ASSUME NEW s \in Memories, NEW l \in Memories, BeginFallback(d, s, l)
      PROVE  Ages(m) /\ UNCHANGED <<insights, phaseB, calls, deep>>
  BY <1>2 DEF BeginFallback, BeginMerge, Ages
<1>3. ASSUME NEW s \in Memories, NEW L \in SUBSET Memories, BeginSynthesis(d, s, L)
      PROVE  Ages(m) /\ UNCHANGED <<insights, phaseB, calls, deep>>
  BY <1>3 DEF TypeOK, BeginSynthesis, BeginMerge, Insert, Ages
<1>4. ASSUME NEW l \in Memories, ReadLoser(d, l) PROVE Ages(m) /\ UNCHANGED <<insights, phaseB, calls, deep>>
  BY <1>4 DEF ReadLoser, rows, Ages
<1>5. ASSUME NEW l \in Memories, ArchiveLoser(d, l)
      PROVE  Ages(m) /\ UNCHANGED <<insights, phaseB, calls, deep>>
  BY <1>5 DEF TypeOK, ArchiveLoser, Live, Ages
<1>6. CASE AddWeights(d) BY <1>6, Zenon DEF AddWeights, Ages
<1>7. CASE FailMerge(d) BY <1>7 DEF FailMerge, rows, Ages
<1>8. QED BY <1>1, <1>2, <1>3, <1>4, <1>5, <1>6, <1>7 DEF MergeStep

(* Whatever the SafetyMonitor is asked while Phase B is on, Gate 1 refuses. *)
LEMMA GateShut ==
  ASSUME NEW a, NEW b, NEW da, NEW db, phaseB
  PROVE  ~Allowed(a, b, da, db)
BY DEF Allowed, TwoGate, EvidenceCount, Confidence

(* A step of the deep cycle leaves every row as it is.                     *)
LEMMA DeepStepFrozen ==
  ASSUME TypeOK, DeepInv, DeepStep
  PROVE  DeepInv' /\ UNCHANGED <<rows, insights, calls, merges>>
<1>0. /\ dgranted = {} /\ (phaseB <=> dpc # "idle") /\ dpc \in DeepPc
      /\ alpha \in [Memories -> Nat] /\ beta \in [Memories -> Nat]
  BY DEF DeepInv, TypeOK
<1>1. CASE BeginDeep BY <1>0, <1>1 DEF BeginDeep, DeepInv
<1>2. CASE MergeAndInsight BY <1>0, <1>2 DEF MergeAndInsight, DeepInv
<1>3. ASSUME NEW m \in Memories, LoopRow(m)
      PROVE  DeepInv' /\ UNCHANGED <<rows, insights, calls, merges>>
  <2>1. phaseB BY <1>0, <1>3 DEF LoopRow, Loops
  <2>2. ~Allowed(dsnap[m].a, dsnap[m].b, LoopAlpha(dsnap[m]), LoopBeta) BY <2>1, GateShut
  <2>3. alpha' = [alpha EXCEPT ![m] = alpha[m]] /\ beta' = [beta EXCEPT ![m] = beta[m]]
    BY <1>3, <2>2 DEF LoopRow
  <2>4. alpha' = alpha /\ beta' = beta BY <1>0, <2>3
  <2>5. QED BY <1>0, <1>3, <2>4 DEF LoopRow, DeepInv, rows
<1>4. CASE EndLoop BY <1>0, <1>4 DEF EndLoop, DeepInv, Loops
<1>5. CASE DecayStale
  <2>1. beta' = [m \in Memories |-> beta[m]] BY <1>0, <1>5 DEF DecayStale
  <2>2. beta' = beta BY <1>0, <2>1
  <2>3. QED BY <1>0, <1>5, <2>2 DEF DecayStale, DeepInv, rows
<1>6. CASE EndDeep BY <1>0, <1>6 DEF EndDeep, DeepInv
<1>7. CASE FailStep BY <1>0, <1>7 DEF FailStep, DeepInv, DeepPc, Loops
<1>8. ASSUME NEW S \in SUBSET Memories, SelectRows(S)
      PROVE  DeepInv' /\ UNCHANGED <<rows, insights, calls, merges>>
  BY <1>0, <1>8 DEF SelectRows, DeepInv
<1>9. ASSUME NEW S \in SUBSET Memories, SelectStale(S)
      PROVE  DeepInv' /\ UNCHANGED <<rows, insights, calls, merges>>
  <2>1. phaseB BY <1>0, <1>9 DEF SelectStale
  <2>2. dgranted' = {} BY <1>0, <1>9, <2>1, GateShut DEF SelectStale
  <2>3. QED BY <1>0, <1>9, <2>2 DEF SelectStale, DeepInv
<1>10. QED BY <1>1, <1>2, <1>3, <1>4, <1>5, <1>6, <1>7, <1>8, <1>9 DEF DeepStep
-----------------------------------------------------------------------------
(* The calls of apply_retrieval_mutation.                                  *)

(* A caller that does not move keeps its invariant whatever the others do. *)
LEMMA CallOKKept ==
  ASSUME TypeOK, NEW w \in Callers, CallOK(w), \A m \in Memories : Ages(m),
         pc'[w] = pc[w], todo'[w] = todo[w], granted'[w] = granted[w], snap'[w] = snap[w]
  PROVE  CallOK(w)'
<1>1. todo[w] \subseteq Memories /\ granted[w] \subseteq Memories BY DEF TypeOK
<1>2. \A m \in todo[w] \cup granted[w] : status'[m] # "none"
  BY <1>1 DEF CallOK, Ages
<1>3. \A m \in todo[w] : Mutable(m)' /\ status[m] # "none" => Mutable(m)
  BY <1>1 DEF Mutable, Live, Ages
<1>4. pc[w] = "select" => \A m \in todo[w] : Mutable(m)' => accessed'[m]
  BY <1>1, <1>3 DEF CallOK, Ages
<1>5. \A m \in granted[w] : Passes(w, m)'
  BY <1>1 DEF CallOK, Passes, RetrievalGain
<1>6. QED BY <1>2, <1>4, <1>5 DEF CallOK

(* The step of one caller: its own invariant holds afterwards.             *)
LEMMA CallOKStep ==
  ASSUME TypeOK, TypeOK', NEW w \in Callers, CallOK(w), CallStep(w)
  PROVE  CallOK(w)'
<1>0. todo[w] \subseteq Memories /\ granted[w] \subseteq Memories BY DEF TypeOK
<1>1. ASSUME NEW R \in SUBSET Memories, NEW N \in SUBSET Memories, BeginCall(w, R, N)
      PROVE  CallOK(w)'
  <2>1. pc'[w] = "select" /\ todo'[w] = R /\ granted'[w] = {} /\ status' = status
    BY <1>1 DEF TypeOK, BeginCall, CallOK
  <2>2. \A m \in R : status[m] # "none" /\ (Mutable(m)' => accessed'[m])
    BY <1>1 DEF BeginCall, Mutable, Live
  <2>3. QED BY <2>1, <2>2 DEF CallOK
<1>2. CASE Select(w)
  <2> DEFINE found == {m \in todo[w] : Mutable(m)}
  <2>1. pc'[w] = "loop" /\ todo'[w] = found /\ granted'[w] = {} /\ snap'[w] = Snapshot(found)
        /\ status' = status
    BY <1>2 DEF TypeOK, Select, CallOK, rows
  <2>2. \A m \in found : accessed[m] /\ status[m] # "none" BY <1>2 DEF Select, CallOK
  <2>3. \A m \in found : Snapshot(found)[m].first = ~accessed[m] BY <1>0 DEF Snapshot
  <2>4. QED BY <2>1, <2>2, <2>3 DEF CallOK
<1>3. CASE Reinforce(w)
  <2>1. pc'[w] = "loop" /\ todo'[w] = todo[w] /\ granted'[w] = {} /\ snap' = snap /\ status' = status
    BY <1>3 DEF TypeOK, Reinforce
  <2>2. pc[w] = "loop" BY <1>3 DEF Reinforce
  <2>3. QED BY <2>1, <2>2 DEF CallOK
<1>4. CASE NearMisses(w) \/ FailCall(w)
  <2>1. pc'[w] = "idle" /\ todo'[w] = {} /\ granted'[w] = {}
    BY <1>4 DEF TypeOK, NearMisses, FailCall, ClearCall
  <2>2. QED BY <2>1 DEF CallOK
<1>5. ASSUME NEW m \in Memories, Check(w, m) PROVE CallOK(w)'
  <2> DEFINE ok == Allowed(snap[w][m].a, snap[w][m].b, RetrievalGain(snap[w][m]), 0)
  <2>1. /\ pc'[w] = "loop" /\ todo'[w] = todo[w] \ {m} /\ snap' = snap /\ status' = status
        /\ granted'[w] = IF ok THEN {m} ELSE {}
    BY <1>5 DEF TypeOK, Check, rows
  <2>2. pc[w] = "loop" /\ m \in todo[w] BY <1>5 DEF Check
  <2>3. ok => Passes(w, m)'
    <3>1. snap[w][m].b + 0 = snap[w][m].b BY DEF TypeOK, Pair
    <3>2. QED BY <2>1, <3>1 DEF Allowed, Passes, RetrievalGain
  <2> HIDE DEF ok
  <2>4. todo'[w] \cap granted'[w] = {} /\ todo'[w] \cup granted'[w] \subseteq todo[w]
    BY <2>1, <2>2
  <2>5. \A x \in granted'[w] : Passes(w, x)' BY <2>1, <2>3
  <2>6. QED BY <2>1, <2>2, <2>4, <2>5 DEF CallOK
<1>6. QED BY <1>1, <1>2, <1>3, <1>4, <1>5 DEF CallStep

(* The other callers' local state.                                         *)
LEMMA OthersUntouched ==
  ASSUME TypeOK, NEW w \in Callers, CallStep(w), NEW v \in Callers, v # w
  PROVE  pc'[v] = pc[v] /\ todo'[v] = todo[v] /\ granted'[v] = granted[v] /\ snap'[v] = snap[v]
<1>1. ASSUME NEW R \in SUBSET Memories, NEW N \in SUBSET Memories, BeginCall(w, R, N)
      PROVE  pc'[v] = pc[v] /\ todo'[v] = todo[v] /\ granted'[v] = granted[v] /\ snap'[v] = snap[v]
  BY <1>1 DEF TypeOK, BeginCall
<1>2. CASE Select(w) BY <1>2 DEF TypeOK, Select
<1>3. CASE Reinforce(w) BY <1>3 DEF TypeOK, Reinforce
<1>4. CASE NearMisses(w) \/ FailCall(w) BY <1>4 DEF TypeOK, NearMisses, FailCall, ClearCall
<1>5. ASSUME NEW m \in Memories, Check(w, m)
      PROVE  pc'[v] = pc[v] /\ todo'[v] = todo[v] /\ granted'[v] = granted[v] /\ snap'[v] = snap[v]
  BY <1>5 DEF TypeOK, Check
<1>6. QED BY <1>1, <1>2, <1>3, <1>4, <1>5 DEF CallStep

LEMMA CallInvStep ==
  ASSUME TypeOK, TypeOK', CallInv, NEW w \in Callers, CallStep(w)
  PROVE  CallInv'
<1>1. SUFFICES ASSUME NEW v \in Callers PROVE CallOK(v)'
  BY DEF CallInv
<1>2. \A m \in Memories : Ages(m) BY CallStepAges
<1>3. CASE v = w BY <1>3, CallOKStep DEF CallInv
<1>4. CASE v # w BY <1>2, <1>4, CallOKKept, OthersUntouched DEF CallInv
<1>5. QED BY <1>3, <1>4

LEMMA CallInvKept ==
  ASSUME TypeOK, CallInv, UNCHANGED calls, \A m \in Memories : Ages(m)
  PROVE  CallInv'
<1>1. SUFFICES ASSUME NEW v \in Callers PROVE CallOK(v)'
  BY DEF CallInv
<1>2. QED BY CallOKKept DEF CallInv, calls
-----------------------------------------------------------------------------
(* The ceiling.                                                            *)

LEMMA HoldersGains ==
  ASSUME TypeOK, CallInv, NEW m \in Memories
  PROVE  IsFiniteSet(Holders(m)) /\ \A w \in Holders(m) : Gains(m)[w] \in 0..Gain
<1>1. IsFiniteSet(Holders(m)) BY CallersAssumption, FS_Subset DEF Holders
<1>2. ASSUME NEW w \in Holders(m) PROVE Gains(m)[w] \in 0..Gain
  <2>1. w \in Callers /\ ~snap[w][m].first BY DEF Holders, CallInv, CallOK
  <2>2. snap[w][m] \in Pair BY <2>1 DEF TypeOK
  <2>3. Gain \in Nat BY WeightsAssumption
  <2>4. RetrievalGain(snap[w][m]) \in 0..Gain BY <2>1, <2>2, <2>3, RetrievalGainBound
  <2>5. QED BY <2>1, <2>4 DEF Gains
<1>3. QED BY <1>1, <1>2

LEMMA AllowanceType ==
  ASSUME TypeOK, NEW m \in Memories
  PROVE  alpha[m] \in Int /\ Allowance(m) \in Int
<1>1. Overrun \in Nat BY OverrunNat
<1>2. Overrun * absorbed[m] \in Int BY <1>1 DEF TypeOK
<1>3. QED BY <1>2 DEF TypeOK, Allowance

(* A step that only lets holders of m go and does not shrink the slack.    *)
LEMMA RoomKept ==
  ASSUME TypeOK, TypeOK', CallInv, RoomInv, NEW m \in Memories,
         Holders(m)' \subseteq Holders(m),
         \A w \in Holders(m)' : Gains(m)'[w] = Gains(m)[w],
         alpha'[m] - Allowance(m)' <= alpha[m] - Allowance(m)
  PROVE  Room(Holders(m)', Gains(m)', alpha'[m], Allowance(m)')
<1>1. Room(Holders(m), Gains(m), alpha[m], Allowance(m)) BY DEF RoomInv
<1>2. alpha[m] \in Int /\ Allowance(m) \in Int BY AllowanceType
<1>3. alpha'[m] \in Int /\ Allowance(m)' \in Int
  <2>1. Overrun \in Nat BY OverrunNat
  <2>2. absorbed'[m] \in Nat /\ beta'[m] \in Nat /\ alpha'[m] \in Nat BY DEF TypeOK
  <2>3. Overrun * absorbed'[m] \in Nat BY <2>1, <2>2
  <2>4. QED BY <2>2, <2>3 DEF Allowance, Overrun
<1>4. IsFiniteSet(Holders(m)) /\ \A w \in Holders(m) : Gains(m)[w] \in 0..Gain
  BY HoldersGains
<1>5. QED BY <1>1, <1>2, <1>3, <1>4, RoomShrink

(* A row without holders only has to stay below its allowance.             *)
LEMMA RoomFresh ==
  ASSUME NEW H, NEW g, NEW x, NEW y, H = {}, x <= y PROVE Room(H, g, x, y)
BY DEF Room

LEMMA HoldersKept ==
  ASSUME UNCHANGED calls, NEW m \in Memories
  PROVE  Holders(m)' = Holders(m) /\ Gains(m)' = Gains(m)
<1>1. pc' = pc /\ todo' = todo /\ granted' = granted /\ snap' = snap BY DEF calls
<1>2. \A w \in Callers : RetrievalGain(snap[w][m])' = RetrievalGain(snap[w][m])
  BY <1>1 DEF RetrievalGain
<1>3. \A w \in Callers : Passes(w, m)' <=> Passes(w, m) BY <1>1 DEF Passes, RetrievalGain
<1>4. Gains(m)' = Gains(m) BY <1>2 DEF Gains
<1>5. Holders(m)' = Holders(m) BY <1>1, <1>3 DEF Holders
<1>6. QED BY <1>4, <1>5

LEMMA StillRoom ==
  ASSUME TypeOK, TypeOK', CallInv, RoomInv, UNCHANGED calls, NEW m \in Memories,
         alpha'[m] - Allowance(m)' <= alpha[m] - Allowance(m)
  PROVE  Room(Holders(m)', Gains(m)', alpha'[m], Allowance(m)')
BY RoomKept, HoldersKept

LEMMA NewRoom ==
  ASSUME TypeOK, CallInv, UNCHANGED calls, NEW m \in Memories, status[m] = "none",
         alpha'[m] <= Allowance(m)'
  PROVE  Room(Holders(m)', Gains(m)', alpha'[m], Allowance(m)')
<1>1. Holders(m) = {} BY DEF Holders, CallInv, CallOK
<1>2. QED BY <1>1, HoldersKept, RoomFresh

LEMMA RowStepRoom ==
  ASSUME TypeOK, TypeOK', CallInv, InsightInv, RoomInv, RowStep, NEW m \in Memories
  PROVE  Room(Holders(m)', Gains(m)', alpha'[m], Allowance(m)')
<1>0. UNCHANGED calls BY DEF RowStep, Store, ReadSources, StoreInsight, FailInsight, Delete, DecayTick
<1>1. Overrun \in Nat BY OverrunNat
<1>2. /\ alpha[m] \in Nat /\ beta[m] \in Nat /\ absorbed[m] \in Nat
      /\ Overrun * absorbed[m] \in Nat
  BY <1>1 DEF TypeOK
<1>3. ASSUME alpha'[m] = alpha[m], beta'[m] >= beta[m], beta'[m] \in Nat, absorbed'[m] = absorbed[m]
      PROVE  Room(Holders(m)', Gains(m)', alpha'[m], Allowance(m)')
  <2>1. alpha'[m] - Allowance(m)' <= alpha[m] - Allowance(m)
    BY <1>1, <1>2, <1>3 DEF Allowance, Overrun
  <2>2. QED BY <1>0, <2>1, StillRoom
<1>4. ASSUME NEW x \in Memories, Store(x)
      PROVE  Room(Holders(m)', Gains(m)', alpha'[m], Allowance(m)')
  <2>1. CASE x = m
    <3>1. /\ alpha'[m] = InitAlpha /\ beta'[m] = InitBeta /\ absorbed'[m] = absorbed[m]
          /\ status[m] = "none"
      BY <1>4, <2>1 DEF TypeOK, Store, Insert
    <3>2. alpha'[m] <= Allowance(m)'
      BY <1>1, <1>2, <3>1, WeightsAssumption DEF Allowance, Overrun
    <3>3. QED BY <1>0, <3>1, <3>2, NewRoom
  <2>2. CASE x # m
    <3>1. alpha'[m] = alpha[m] /\ beta'[m] = beta[m] /\ absorbed'[m] = absorbed[m]
      BY <1>4, <2>2 DEF TypeOK, Store, Insert
    <3>2. QED BY <1>2, <1>3, <3>1
  <2>3. QED BY <2>1, <2>2
<1>5. ASSUME NEW x \in Memories, NEW r \in insights, StoreInsight(x, r)
      PROVE  Room(Holders(m)', Gains(m)', alpha'[m], Allowance(m)')
  <2>1. CASE x = m
    <3>1. alpha'[m] = r.a /\ beta'[m] = r.b /\ absorbed'[m] = r.n /\ status[m] = "none"
      BY <1>5, <2>1 DEF TypeOK, StoreInsight, Insert
    <3>2. r.a <= 19 * r.b + Overrun * r.n BY DEF InsightInv
    <3>3. alpha'[m] <= Allowance(m)' BY <3>1, <3>2 DEF Allowance, Overrun
    <3>4. QED BY <1>0, <3>1, <3>3, NewRoom
  <2>2. CASE x # m
    <3>1. alpha'[m] = alpha[m] /\ beta'[m] = beta[m] /\ absorbed'[m] = absorbed[m]
      BY <1>5, <2>2 DEF TypeOK, StoreInsight, Insert
    <3>2. QED BY <1>2, <1>3, <3>1
  <2>3. QED BY <2>1, <2>2
<1>6. ASSUME NEW x \in Memories, Delete(x)
      PROVE  Room(Holders(m)', Gains(m)', alpha'[m], Allowance(m)')
  BY <1>2, <1>3, <1>6 DEF Delete
<1>7. ASSUME NEW S \in SUBSET Memories, DecayTick(S)
      PROVE  Room(Holders(m)', Gains(m)', alpha'[m], Allowance(m)')
  <2>1. DecayNudge \in Nat BY WeightsAssumption
  <2>2. alpha' = alpha /\ absorbed' = absorbed /\ beta'[m] >= beta[m] /\ beta'[m] \in Nat
    BY <1>2, <1>7, <2>1 DEF DecayTick
  <2>3. QED BY <1>3, <2>2
<1>8. ASSUME UNCHANGED rows
      PROVE  Room(Holders(m)', Gains(m)', alpha'[m], Allowance(m)')
  BY <1>2, <1>3, <1>8 DEF rows
<1>9. ASSUME NEW x \in Memories, ReadSources(x)
      PROVE  Room(Holders(m)', Gains(m)', alpha'[m], Allowance(m)')
  BY <1>8, <1>9 DEF ReadSources
<1>10. ASSUME NEW r \in insights, FailInsight(r)
       PROVE  Room(Holders(m)', Gains(m)', alpha'[m], Allowance(m)')
  BY <1>8, <1>10 DEF FailInsight
<1>11. QED BY <1>4, <1>5, <1>6, <1>7, <1>9, <1>10 DEF RowStep

(* What an insight has read is the weights of a row or the defaults.       *)
LEMMA InsightInvStep ==
  ASSUME TypeOK, RoomInv, InsightInv, RowStep
  PROVE  InsightInv'
<1>0. Overrun' = Overrun /\ Overrun \in Nat BY OverrunNat DEF Overrun
<1>1. ASSUME insights' \subseteq insights PROVE InsightInv'
  BY <1>0, <1>1 DEF InsightInv
<1>2. ASSUME NEW x \in Memories, ReadSources(x) PROVE InsightInv'
  <2>1. Weights(x).a <= 19 * Weights(x).b + Overrun * Weights(x).n
    BY DEF Weights, RoomInv, Room, Allowance
  <2>2. NewWeights.a <= 19 * NewWeights.b + Overrun * NewWeights.n
    <3>1. Overrun * 1 = Overrun BY <1>0
    <3>2. QED BY <1>0, <3>1, WeightsAssumption DEF NewWeights
  <2>3. insights' \subseteq insights \cup {Weights(x), NewWeights} BY <1>2 DEF ReadSources
  <2>4. QED BY <1>0, <2>1, <2>2, <2>3 DEF InsightInv
<1>3. ASSUME NEW x \in Memories, Store(x) \/ Delete(x) PROVE InsightInv'
  BY <1>1, <1>3 DEF Store, Delete
<1>4. ASSUME NEW S \in SUBSET Memories, DecayTick(S) PROVE InsightInv'
  BY <1>1, <1>4 DEF DecayTick
<1>5. ASSUME NEW r \in insights, FailInsight(r) PROVE InsightInv'
  BY <1>1, <1>5 DEF FailInsight
<1>6. ASSUME NEW x \in Memories, NEW r \in insights, StoreInsight(x, r) PROVE InsightInv'
  BY <1>1, <1>6 DEF StoreInsight
<1>7. QED BY <1>2, <1>3, <1>4, <1>5, <1>6 DEF RowStep

LEMMA MergeStepRoom ==
  ASSUME TypeOK, TypeOK', CallInv, MergeInv, RoomInv, NEW d \in Mergers, MergeStep(d),
         NEW m \in Memories
  PROVE  Room(Holders(m)', Gains(m)', alpha'[m], Allowance(m)')
<1>0. UNCHANGED calls BY MergeStepAges
<1>1. Overrun \in Nat BY OverrunNat
<1>2. /\ alpha[m] \in Nat /\ beta[m] \in Nat /\ absorbed[m] \in Nat
      /\ Overrun * absorbed[m] \in Nat
  BY <1>1 DEF TypeOK
<1>3. ASSUME alpha'[m] = alpha[m], beta'[m] = beta[m], absorbed'[m] = absorbed[m]
      PROVE  Room(Holders(m)', Gains(m)', alpha'[m], Allowance(m)')
  <2>1. alpha'[m] - Allowance(m)' <= alpha[m] - Allowance(m)
    BY <1>1, <1>2, <1>3 DEF Allowance, Overrun
  <2>2. QED BY <1>0, <2>1, StillRoom
<1>4. ASSUME NEW s \in Memories, NEW l \in Memories, BeginSurvivor(d, s, l) \/ BeginFallback(d, s, l)
      PROVE  Room(Holders(m)', Gains(m)', alpha'[m], Allowance(m)')
  BY <1>3, <1>4 DEF BeginSurvivor, BeginFallback, BeginMerge
<1>5. ASSUME NEW s \in Memories, NEW L \in SUBSET Memories, BeginSynthesis(d, s, L)
      PROVE  Room(Holders(m)', Gains(m)', alpha'[m], Allowance(m)')
  <2>1. CASE s = m
    <3>1. /\ alpha'[m] = InitAlpha /\ beta'[m] = InitBeta /\ absorbed'[m] = absorbed[m]
          /\ status[m] = "none"
      BY <1>5, <2>1 DEF TypeOK, BeginSynthesis, BeginMerge, Insert
    <3>2. alpha'[m] <= Allowance(m)'
      BY <1>1, <1>2, <3>1, WeightsAssumption DEF Allowance, Overrun
    <3>3. QED BY <1>0, <3>1, <3>2, NewRoom
  <2>2. CASE s # m
    <3>1. alpha'[m] = alpha[m] /\ beta'[m] = beta[m] /\ absorbed'[m] = absorbed[m]
      BY <1>5, <2>2 DEF TypeOK, BeginSynthesis, BeginMerge, Insert
    <3>2. QED BY <1>3, <3>1
  <2>3. QED BY <2>1, <2>2
<1>6. ASSUME NEW l \in Memories, ReadLoser(d, l) \/ ArchiveLoser(d, l)
      PROVE  Room(Holders(m)', Gains(m)', alpha'[m], Allowance(m)')
  BY <1>3, <1>6 DEF ReadLoser, ArchiveLoser, rows
<1>7. CASE FailMerge(d)
  BY <1>3, <1>7 DEF FailMerge, rows
<1>8. CASE AddWeights(d)
  <2>0. held[d].a \in Nat /\ held[d].b \in Nat /\ held[d].n \in Nat BY DEF TypeOK
  <2>1. CASE Live(into[d]) /\ into[d] = m
    <3>1. /\ alpha' = [alpha EXCEPT ![m] = alpha[m] + held[d].a]
          /\ beta' = [beta EXCEPT ![m] = beta[m] + held[d].b]
          /\ absorbed' = [absorbed EXCEPT ![m] = absorbed[m] + held[d].n]
      BY <1>8, <2>1, Zenon DEF AddWeights
    <3>2. /\ alpha'[m] = alpha[m] + held[d].a /\ beta'[m] = beta[m] + held[d].b
          /\ absorbed'[m] = absorbed[m] + held[d].n
      BY <3>1 DEF TypeOK
    <3>3. Overrun * absorbed'[m] = Overrun * absorbed[m] + Overrun * held[d].n
      BY <1>1, <1>2, <2>0, <3>2
    <3>4. held[d].a <= 19 * held[d].b + Overrun * held[d].n BY DEF MergeInv
    <3>5. Overrun * held[d].n \in Nat BY <1>1, <2>0
    <3>6. alpha'[m] - (19 * beta'[m] + Overrun * absorbed'[m])
            <= alpha[m] - (19 * beta[m] + Overrun * absorbed[m])
      BY <1>2, <2>0, <3>2, <3>3, <3>4, <3>5
    <3>7. alpha'[m] - Allowance(m)' <= alpha[m] - Allowance(m)
      BY <3>6 DEF Allowance, Overrun
    <3>8. QED BY <1>0, <3>7, StillRoom
  <2>2. CASE Live(into[d]) /\ into[d] # m
    <3>1. /\ alpha' = [alpha EXCEPT ![into[d]] = alpha[into[d]] + held[d].a]
          /\ beta' = [beta EXCEPT ![into[d]] = beta[into[d]] + held[d].b]
          /\ absorbed' = [absorbed EXCEPT ![into[d]] = absorbed[into[d]] + held[d].n]
      BY <1>8, <2>2, Zenon DEF AddWeights
    <3>2. alpha'[m] = alpha[m] /\ beta'[m] = beta[m] /\ absorbed'[m] = absorbed[m]
      BY <2>2, <3>1 DEF TypeOK
    <3>3. QED BY <1>3, <3>2
  <2>3. CASE ~Live(into[d])
    BY <1>3, <1>8, <2>3 DEF AddWeights
  <2>4. QED BY <2>1, <2>2, <2>3
<1>9. QED BY <1>4, <1>5, <1>6, <1>7, <1>8 DEF MergeStep

(* What a merger holds is the weights of a row, and obeys the same bound.  *)
LEMMA MergeInvStep ==
  ASSUME TypeOK, MergeInv, RoomInv, NEW d \in Mergers, MergeStep(d)
  PROVE  MergeInv'
<1>0. Overrun \in Nat BY OverrunNat
<1>1. ASSUME held' = held PROVE MergeInv' BY <1>1 DEF MergeInv, Overrun
<1>2. ASSUME held' = [held EXCEPT ![d] = [a |-> 0, b |-> 0, n |-> 0]] PROVE MergeInv'
  <2>1. SUFFICES ASSUME NEW e \in Mergers
                 PROVE  held'[e].a <= 19 * held'[e].b + Overrun * held'[e].n
    BY DEF MergeInv, Overrun
  <2>2. CASE e = d
    <3>1. held'[e] = [a |-> 0, b |-> 0, n |-> 0] BY <1>2, <2>2 DEF TypeOK
    <3>2. Overrun * 0 = 0 BY <1>0
    <3>3. QED BY <3>1, <3>2
  <2>3. CASE e # d BY <1>2, <2>3 DEF TypeOK, MergeInv
  <2>4. QED BY <2>2, <2>3
<1>3. ASSUME NEW l \in Memories, ReadLoser(d, l) PROVE MergeInv'
  <2>1. CASE Stored(l)
    <3>1. SUFFICES ASSUME NEW e \in Mergers
                   PROVE  held'[e].a <= 19 * held'[e].b + Overrun * held'[e].n
      BY DEF MergeInv, Overrun
    <3>2. held' = [held EXCEPT ![d] = [a |-> alpha[l], b |-> beta[l], n |-> absorbed[l]]]
      BY <1>3, <2>1 DEF ReadLoser
    <3>3. CASE e = d
      <4>1. held'[e] = [a |-> alpha[l], b |-> beta[l], n |-> absorbed[l]]
        BY <3>2, <3>3 DEF TypeOK
      <4>2. alpha[l] <= 19 * beta[l] + Overrun * absorbed[l] BY DEF RoomInv, Room, Allowance
      <4>3. QED BY <4>1, <4>2
    <3>4. CASE e # d BY <3>2, <3>4 DEF TypeOK, MergeInv
    <3>5. QED BY <3>3, <3>4
  <2>2. CASE ~Stored(l) BY <1>1, <1>3, <2>2 DEF ReadLoser
  <2>3. QED BY <2>1, <2>2
<1>4. ASSUME NEW s \in Memories, NEW l \in Memories, BeginSurvivor(d, s, l) \/ BeginFallback(d, s, l)
      PROVE  MergeInv'
  BY <1>1, <1>4 DEF BeginSurvivor, BeginFallback, BeginMerge
<1>5. ASSUME NEW s \in Memories, NEW L \in SUBSET Memories, BeginSynthesis(d, s, L)
      PROVE  MergeInv'
  BY <1>1, <1>5 DEF BeginSynthesis, BeginMerge
<1>6. ASSUME NEW l \in Memories, ArchiveLoser(d, l) PROVE MergeInv'
  BY <1>1, <1>6 DEF ArchiveLoser
<1>7. CASE AddWeights(d) BY <1>2, <1>7, Zenon DEF AddWeights
<1>8. CASE FailMerge(d) BY <1>2, <1>8 DEF FailMerge
<1>9. QED BY <1>3, <1>4, <1>5, <1>6, <1>7, <1>8 DEF MergeStep

(* A step of one caller: select lets it join, the UPDATE spends its gain   *)
(* and lets it go.                                                         *)
LEMMA CallStepRoom ==
  ASSUME TypeOK, TypeOK', CallInv, CallInv', RoomInv,
         NEW w \in Callers, CallStep(w),
         NEW m \in Memories
  PROVE  Room(Holders(m)', Gains(m)', alpha'[m], Allowance(m)')
<1>0. /\ alpha[m] \in Nat /\ beta[m] \in Nat /\ absorbed[m] \in Nat \ {0} /\ Overrun \in Nat
      /\ Overrun * absorbed[m] \in Nat
  <2>1. Overrun \in Nat BY OverrunNat
  <2>2. QED BY <2>1 DEF TypeOK
<1>1. \A v \in Callers : v # w =>
        /\ (v \in Holders(m)' <=> v \in Holders(m))
        /\ Gains(m)'[v] = Gains(m)[v]
  <2>1. TAKE v \in Callers
  <2>2. HAVE v # w
  <2>3. pc'[v] = pc[v] /\ todo'[v] = todo[v] /\ granted'[v] = granted[v] /\ snap'[v] = snap[v]
    BY <2>2, OthersUntouched
  <2>4. RetrievalGain(snap[v][m])' = RetrievalGain(snap[v][m]) BY <2>3 DEF RetrievalGain
  <2>5. Passes(v, m)' <=> Passes(v, m) BY <2>3 DEF Passes, RetrievalGain
  <2>6. Gains(m)'[v] = Gains(m)[v] BY <2>4 DEF Gains
  <2>7. v \in Holders(m)' <=> v \in Holders(m) BY <2>3, <2>5 DEF Holders
  <2>8. QED BY <2>6, <2>7
<1>2. Holders(m) \subseteq Callers /\ Holders(m)' \subseteq Callers BY DEF Holders
<1>3. ASSUME w \in Holders(m)' => w \in Holders(m) /\ snap'[w] = snap[w],
             alpha'[m] = alpha[m], beta'[m] \in Nat, beta'[m] >= beta[m],
             absorbed'[m] = absorbed[m]
      PROVE  Room(Holders(m)', Gains(m)', alpha'[m], Allowance(m)')
  <2>1. Holders(m)' \subseteq Holders(m) BY <1>1, <1>2, <1>3
  <2>2. w \in Holders(m)' => Gains(m)'[w] = Gains(m)[w] BY <1>3 DEF Gains, RetrievalGain
  <2>3. \A v \in Holders(m)' : Gains(m)'[v] = Gains(m)[v] BY <1>1, <1>2, <2>2
  <2>4. alpha'[m] - Allowance(m)' <= alpha[m] - Allowance(m)
    BY <1>0, <1>3 DEF Allowance, Overrun
  <2>5. QED BY <2>1, <2>3, <2>4, RoomKept
<1>4. ASSUME NEW R \in SUBSET Memories, NEW N \in SUBSET Memories, BeginCall(w, R, N)
      PROVE  Room(Holders(m)', Gains(m)', alpha'[m], Allowance(m)')
  <2>1. pc'[w] = "select" /\ alpha' = alpha /\ beta' = beta /\ absorbed' = absorbed
    BY <1>4 DEF TypeOK, BeginCall
  <2>2. w \notin Holders(m)' BY <2>1 DEF Holders
  <2>3. QED BY <1>0, <1>3, <2>1, <2>2
<1>5. CASE FailCall(w)
  <2>1. pc'[w] = "idle" /\ alpha' = alpha /\ beta' = beta /\ absorbed' = absorbed
    BY <1>5 DEF TypeOK, FailCall, ClearCall, rows
  <2>2. w \notin Holders(m)' BY <2>1 DEF Holders
  <2>3. QED BY <1>0, <1>3, <2>1, <2>2
<1>6. CASE NearMisses(w)
  <2>1. pc'[w] = "idle" /\ alpha' = alpha /\ absorbed' = absorbed
    BY <1>6 DEF TypeOK, NearMisses, ClearCall
  <2>2. w \notin Holders(m)' BY <2>1 DEF Holders
  <2>3. NearMiss \in Nat BY WeightsAssumption
  <2>4. beta'[m] \in Nat /\ beta'[m] >= beta[m] BY <1>0, <1>6, <2>3 DEF NearMisses
  <2>5. QED BY <1>3, <2>1, <2>2, <2>4
<1>7. ASSUME NEW x \in Memories, Check(w, x)
      PROVE  Room(Holders(m)', Gains(m)', alpha'[m], Allowance(m)')
  <2>1. /\ pc[w] = "loop" /\ snap' = snap /\ alpha' = alpha /\ beta' = beta /\ absorbed' = absorbed
        /\ todo'[w] \cup granted'[w] \subseteq todo[w]
    BY <1>7 DEF TypeOK, Check, rows
  <2>2. Passes(w, m)' <=> Passes(w, m) BY <2>1 DEF Passes, RetrievalGain
  <2>3. w \in Holders(m)' => w \in Holders(m) BY <2>1, <2>2 DEF Holders
  <2>4. QED BY <1>0, <1>3, <2>1, <2>3
<1>8. CASE Select(w)
  <2> DEFINE found == {x \in todo[w] : Mutable(x)}
  <2>1. /\ snap'[w] = Snapshot(found) /\ alpha' = alpha /\ beta' = beta /\ absorbed' = absorbed
        /\ todo'[w] = found /\ granted'[w] = {}
    BY <1>8 DEF TypeOK, Select, rows, CallInv, CallOK
  <2>2. CASE w \in Holders(m)'
    <3>1. m \in found BY <2>1, <2>2 DEF Holders
    <3>2. snap'[w][m].a = alpha[m] /\ snap'[w][m].b = beta[m] BY <2>1, <3>1 DEF Snapshot
    <3>3. snap'[w][m] \in Pair BY DEF TypeOK
    <3>4. Gains(m)'[w] = RetrievalGain(snap'[w][m]) BY DEF Gains, RetrievalGain
    <3>5. RetrievalGain(snap'[w][m]) \in Nat BY <3>3, RetrievalGainBound
    <3>6. alpha[m] + RetrievalGain(snap'[w][m]) <= 19 * beta[m]
      BY <2>2, <3>2 DEF Holders, Passes, UnderCeiling, RetrievalGain
    <3>7. 19 * beta[m] \in Int BY <1>0
    <3>8. Gains(m)'[w] \in Nat /\ alpha[m] + Gains(m)'[w] <= 19 * beta[m] BY <3>4, <3>5, <3>6
    <3>9. ASSUME NEW H, H = Holders(m)', NEW g, g = Gains(m)'
          PROVE  Room(H, g, alpha[m], 19 * beta[m] + Overrun * absorbed[m])
      <4>1. H \in SUBSET Callers /\ w \in H BY <1>2, <2>2, <3>9
      <4>2. g[w] \in Nat /\ alpha[m] + g[w] <= 19 * beta[m] BY <3>8, <3>9
      <4>3. alpha[m] \in Int /\ absorbed[m] \in Nat \ {0} BY <1>0
      <4>4. QED BY <3>7, <4>1, <4>2, <4>3, RoomJoin
    <3>10. QED BY <2>1, <3>9 DEF Allowance, Overrun
  <2>3. CASE w \notin Holders(m)'
    BY <1>0, <1>3, <2>1, <2>3
  <2>4. QED BY <2>2, <2>3
<1>9. CASE Reinforce(w)
  <2>1. /\ pc[w] = "loop" /\ snap' = snap /\ beta' = beta /\ absorbed' = absorbed
        /\ todo' = todo /\ granted'[w] = {} /\ pc' = pc
    BY <1>9 DEF TypeOK, Reinforce
  <2>2. Passes(w, m)' <=> Passes(w, m) BY <2>1 DEF Passes, RetrievalGain
  <2>3. CASE m \in granted[w] /\ Mutable(m)
    <3>1. w \in Holders(m) /\ w \notin Holders(m)'
      BY <2>1, <2>3 DEF Holders, CallInv, CallOK
    <3>2. Holders(m)' = Holders(m) \ {w} BY <1>1, <1>2, <3>1
    <3>3. alpha'[m] = alpha[m] + Gains(m)[w] BY <1>9, <2>3 DEF Reinforce, Gains
    <3>4. \A v \in Holders(m) \ {w} : Gains(m)'[v] = Gains(m)[v] BY <1>1, <1>2
    <3>5. Room(Holders(m), Gains(m), alpha[m], Allowance(m)) BY DEF RoomInv
    <3>6. alpha[m] \in Int /\ Allowance(m) \in Int BY AllowanceType
    <3>7. IsFiniteSet(Holders(m)) /\ \A v \in Holders(m) : Gains(m)[v] \in 0..Gain
      BY HoldersGains
    <3>8. Room(Holders(m) \ {w}, Gains(m)', alpha[m] + Gains(m)[w], Allowance(m))
      BY <3>1, <3>4, <3>5, <3>6, <3>7, RoomSpend
    <3>9. Allowance(m)' = Allowance(m) BY <2>1 DEF Allowance, Overrun
    <3>10. QED BY <3>2, <3>3, <3>8, <3>9
  <2>4. CASE ~(m \in granted[w] /\ Mutable(m))
    <3>1. alpha'[m] = alpha[m] BY <1>9, <2>4 DEF Reinforce
    <3>2. w \in Holders(m)' => w \in Holders(m) BY <2>1, <2>2 DEF Holders
    <3>3. QED BY <1>0, <1>3, <2>1, <3>1, <3>2
  <2>5. QED BY <2>3, <2>4
<1>10. QED BY <1>4, <1>5, <1>6, <1>7, <1>8, <1>9 DEF CallStep
-----------------------------------------------------------------------------
(* The invariant is inductive.                                             *)

LEMMA InitInv == ASSUME Init PROVE IInv
<1>1. TypeOK BY InitType
<1>2. Overrun \in Nat BY OverrunNat
<1>3. Overrun * 0 = 0 /\ Overrun * 1 = Overrun BY <1>2
<1>4. DeepInv BY DEF Init, DeepInv
<1>5. CallInv BY DEF Init, CallInv, CallOK
<1>6. MergeInv /\ InsightInv BY <1>3 DEF Init, MergeInv, InsightInv
<1>7. RoomInv
  <2>1. SUFFICES ASSUME NEW m \in Memories
                 PROVE  Room(Holders(m), Gains(m), alpha[m], Allowance(m))
    BY DEF RoomInv
  <2>2. Holders(m) = {} BY DEF Init, Holders
  <2>3. absorbed[m] = 1 BY DEF Init
  <2>4. alpha[m] <= 19 * beta[m]
    BY WeightsAssumption DEF Init
  <2>5. alpha[m] <= Allowance(m) BY <1>1, <1>2, <1>3, <2>3, <2>4 DEF Allowance, TypeOK
  <2>6. QED BY <2>2, <2>5, RoomFresh
<1>8. SeedInv BY MemoriesAssumption DEF Init, SeedInv
<1>9. QED BY <1>1, <1>4, <1>5, <1>6, <1>7, <1>8 DEF IInv

LEMMA NextInv == IInv /\ [Next]_vars => IInv'
<1> SUFFICES ASSUME IInv, [Next]_vars PROVE IInv'
  OBVIOUS
<1>0. /\ TypeOK /\ DeepInv /\ CallInv /\ MergeInv /\ InsightInv /\ RoomInv /\ SeedInv
      /\ TypeOK'
  BY NextType DEF IInv, DeepInv
<1>1. ASSUME \A m \in Memories : Ages(m) PROVE SeedInv'
  BY <1>0, <1>1, MemoriesAssumption DEF SeedInv, Ages
<1>2. ASSUME UNCHANGED <<rows, insights, calls, merges>> 
      PROVE  CallInv' /\ MergeInv' /\ InsightInv' /\ RoomInv' /\ SeedInv'
  <2>1. \A m \in Memories : Ages(m) BY <1>2 DEF Ages, rows
  <2>2. \A m \in Memories : Allowance(m)' = Allowance(m)
    BY <1>2 DEF Allowance, Overrun, rows
  <2>3. \A m \in Memories : Room(Holders(m)', Gains(m)', alpha'[m], Allowance(m)')
    BY <1>0, <1>2, <2>2, HoldersKept DEF RoomInv, rows
  <2>4. MergeInv' /\ InsightInv' BY <1>0, <1>2 DEF MergeInv, InsightInv, merges, Overrun
  <2>5. CallInv' BY <1>0, <1>2, <2>1, CallInvKept
  <2>6. QED BY <1>1, <2>1, <2>3, <2>4, <2>5 DEF RoomInv
<1>3. CASE RowStep
  <2>1. \A m \in Memories : Ages(m) BY <1>0, <1>3, RowStepAges
  <2>2. UNCHANGED <<phaseB, calls, merges, deep>>
    BY <1>3 DEF RowStep, Store, ReadSources, StoreInsight, FailInsight, Delete, DecayTick
  <2>3. CallInv' BY <1>0, <2>1, <2>2, CallInvKept
  <2>4. DeepInv' /\ MergeInv' BY <1>0, <2>2 DEF DeepInv, MergeInv, deep, merges, Overrun
  <2>5. InsightInv' /\ RoomInv' BY <1>0, <1>3, InsightInvStep, RowStepRoom DEF RoomInv
  <2>6. QED BY <1>0, <1>1, <2>1, <2>3, <2>4, <2>5 DEF IInv
<1>4. CASE DeepStep
  <2>1. DeepInv' /\ UNCHANGED <<rows, insights, calls, merges>> BY <1>0, <1>4, DeepStepFrozen
  <2>2. QED BY <1>0, <1>2, <2>1 DEF IInv
<1>5. CASE Restart
  <2>1. UNCHANGED rows BY <1>5 DEF Restart
  <2>2. \A m \in Memories : Ages(m) BY <2>1 DEF Ages, rows
  <2>3. CallInv' BY <1>5 DEF Restart, CallInv, CallOK
  <2>4. DeepInv' BY <1>0, <1>5 DEF Restart, DeepInv
  <2>5. MergeInv' /\ InsightInv'
    <3>1. Overrun * 0 = 0 BY OverrunNat
    <3>2. QED BY <1>5, <3>1 DEF Restart, MergeInv, InsightInv, Overrun
  <2>6. ASSUME NEW m \in Memories
        PROVE  Room(Holders(m)', Gains(m)', alpha'[m], Allowance(m)')
    <3>1. Holders(m)' = {} BY <1>5 DEF Restart, Holders
    <3>2. alpha'[m] <= Allowance(m)' BY <1>0, <2>1 DEF RoomInv, Room, Allowance, Overrun, rows
    <3>3. QED BY <3>1, <3>2, RoomFresh
  <2>7. QED BY <1>0, <1>1, <2>2, <2>3, <2>4, <2>5, <2>6 DEF IInv, RoomInv
<1>6. ASSUME NEW w \in Callers, CallStep(w) PROVE IInv'
  <2>1. (\A m \in Memories : Ages(m)) BY <1>0, <1>6, CallStepAges
  <2>2. CallInv' BY <1>0, <1>6, CallInvStep
  <2>3. UNCHANGED <<status, insights, phaseB, merges, deep>>
    <3>1. CASE Memories = {}
      BY <1>0, <1>6, <3>1 DEF CallStep, BeginCall, Select, Reinforce, NearMisses,
                         FailCall, Check, rows
    <3>2. CASE Memories # {} BY <1>0, <1>6, <3>2, CallStepAges
    <3>3. QED BY <3>1, <3>2
  <2>4. DeepInv' /\ MergeInv' /\ InsightInv'
    BY <1>0, <2>3 DEF DeepInv, MergeInv, InsightInv, deep, merges, Overrun
  <2>5. RoomInv' BY <1>0, <1>6, <2>2, CallStepRoom DEF RoomInv
  <2>6. QED BY <1>0, <1>1, <2>1, <2>2, <2>4, <2>5 DEF IInv
<1>7. ASSUME NEW d \in Mergers, MergeStep(d) PROVE IInv'
  <2>1. into[d] \in Memories BY <1>0 DEF TypeOK
  <2>2. (\A m \in Memories : Ages(m)) /\ UNCHANGED <<insights, phaseB, calls, deep>>
    BY <1>0, <1>7, <2>1, MergeStepAges
  <2>3. CallInv' BY <1>0, <2>2, CallInvKept
  <2>4. DeepInv' /\ InsightInv' BY <1>0, <2>2 DEF DeepInv, InsightInv, deep, Overrun
  <2>5. MergeInv' BY <1>0, <1>7, MergeInvStep
  <2>6. RoomInv' BY <1>0, <1>7, MergeStepRoom DEF RoomInv
  <2>7. QED BY <1>0, <1>1, <2>2, <2>3, <2>4, <2>5, <2>6 DEF IInv
<1>8. CASE UNCHANGED vars
  <2>1. UNCHANGED <<rows, insights, calls, merges>> BY <1>8 DEF vars, rows
  <2>2. DeepInv' BY <1>0, <1>8 DEF vars, deep, DeepInv
  <2>3. QED BY <1>0, <1>2, <2>1, <2>2 DEF IInv
<1>9. QED BY <1>3, <1>4, <1>5, <1>6, <1>7, <1>8 DEF Next

THEOREM Invariance == Spec => []IInv
<1>1. Init => IInv BY InitInv
<1>2. QED BY <1>1, NextInv, PTL DEF Spec

(* With any number of concurrent callers the centre of a row passes the    *)
(* ceiling by at most one gain for every caller but one, times the stored  *)
(* weights merged into it.                                                 *)
THEOREM CeilingBound == Spec => []CeilingOverrunBounded
<1>1. IInv => CeilingOverrunBounded
  BY DEF IInv, RoomInv, Room, Allowance, CeilingOverrunBounded
<1>2. QED BY <1>1, Invariance, PTL

(* Step 1 of a call counts the access before step 2 reads whether there    *)
(* was one: no row is ever found without an access, and the bonus of the   *)
(* first retrieval (memory.py:608, KB_01 line 67) is given to nobody.      *)
NoveltyBonusNeverGranted ==
  \A w \in Callers : pc[w] = "loop" => \A m \in todo[w] \cup granted[w] : ~snap[w][m].first

(* The gain of a first retrieval is never doubled.                         *)
THEOREM NoBonus == Spec => []NoveltyBonusNeverGranted
<1>1. IInv => NoveltyBonusNeverGranted
  BY DEF IInv, CallInv, CallOK, NoveltyBonusNeverGranted
<1>2. QED BY <1>1, Invariance, PTL

(* The deep cycle asks the SafetyMonitor with Phase B on and without       *)
(* evidence, and Gate 1 refuses: its steps change no weight.               *)
DeepCycleChangesNothing == [][deep' # deep => UNCHANGED <<alpha, beta>>]_vars

(* No step of the deep cycle changes a weight.                             *)
THEOREM DeepCycleFrozen == Spec => DeepCycleChangesNothing
<1>1. IInv /\ [Next]_vars => [deep' # deep => UNCHANGED <<alpha, beta>>]_vars
  <2> SUFFICES ASSUME IInv, Next, deep' # deep PROVE UNCHANGED <<alpha, beta>>
    BY DEF vars
  <2>0. TypeOK /\ DeepInv BY DEF IInv
  <2>1. CASE RowStep BY <2>1 DEF RowStep, Store, ReadSources, StoreInsight, FailInsight, Delete, DecayTick
  <2>2. CASE DeepStep BY <2>0, <2>2, DeepStepFrozen DEF rows
  <2>3. CASE Restart BY <2>3 DEF Restart, rows
  <2>4. ASSUME NEW w \in Callers, CallStep(w) PROVE deep' = deep
    BY <2>4 DEF CallStep, BeginCall, Select, Reinforce, NearMisses, FailCall, Check
  <2>5. ASSUME NEW d \in Mergers, MergeStep(d) PROVE deep' = deep
    <3>1. into[d] \in Memories BY <2>0 DEF TypeOK
    <3>2. QED BY <2>0, <2>5, <3>1, MergeStepAges
  <2>6. QED BY <2>1, <2>2, <2>3, <2>4, <2>5 DEF Next
<1>2. QED BY <1>1, Invariance, PTL DEF Spec, DeepCycleChangesNothing

LEMMA DeadStep ==
  ASSUME TypeOK, Next, NEW m \in Memories, status[m] \in {"archived", "deleted"}
  PROVE  alpha'[m] = alpha[m] /\ beta'[m] = beta[m] /\ status'[m] \in {status[m], "deleted"}
<1> DEFINE Frozen == alpha'[m] = alpha[m] /\ beta'[m] = beta[m] /\ status'[m] \in {status[m], "deleted"}
<1>0. TypeOK /\ ~Live(m) /\ ~Mutable(m) /\ status[m] # "none"
  BY DEF Live, Mutable
<1>1. ASSUME UNCHANGED rows PROVE Frozen BY <1>1 DEF rows
<1>2. CASE RowStep
  <2>1. ASSUME NEW x \in Memories, NEW a, NEW b, Insert(x, a, b) PROVE Frozen
    BY <1>0, <2>1 DEF TypeOK, Insert
  <2>2. ASSUME NEW x \in Memories, Delete(x) PROVE Frozen BY <1>0, <2>2 DEF TypeOK, Delete
  <2>3. ASSUME NEW S \in SUBSET Memories, DecayTick(S) PROVE Frozen
    BY <1>0, <2>3 DEF TypeOK, DecayTick
  <2>4. ASSUME NEW x \in Memories, Store(x) \/ ReadSources(x) PROVE Frozen
    BY <1>1, <2>1, <2>4 DEF Store, ReadSources
  <2>5. ASSUME NEW r \in insights, FailInsight(r) PROVE Frozen BY <1>1, <2>5 DEF FailInsight
  <2>6. ASSUME NEW x \in Memories, NEW r \in insights, StoreInsight(x, r) PROVE Frozen
    BY <2>1, <2>6 DEF StoreInsight
  <2>7. QED BY <1>2, <2>2, <2>3, <2>4, <2>5, <2>6 DEF RowStep
<1>3. CASE DeepStep
  <2>1. ASSUME NEW x \in Memories, LoopRow(x) PROVE Frozen BY <1>0, <2>1 DEF TypeOK, LoopRow
  <2>2. CASE DecayStale BY <1>0, <2>2 DEF TypeOK, DecayStale
  <2>3. CASE \/ BeginDeep \/ MergeAndInsight \/ EndLoop \/ EndDeep \/ FailStep
             \/ \E S \in SUBSET Memories : SelectRows(S) \/ SelectStale(S)
    <3>1. UNCHANGED rows
      BY <2>3, Zenon DEF BeginDeep, MergeAndInsight, EndLoop, EndDeep, FailStep, SelectRows,
         SelectStale
    <3>2. QED BY <1>1, <3>1
  <2>4. QED BY <1>3, <2>1, <2>2, <2>3 DEF DeepStep
<1>4. CASE Restart BY <1>1, <1>4 DEF Restart
<1>5. ASSUME NEW w \in Callers, CallStep(w) PROVE Frozen
  <2>1. CASE Reinforce(w) BY <1>0, <2>1 DEF TypeOK, Reinforce
  <2>2. CASE NearMisses(w) BY <1>0, <2>2 DEF TypeOK, NearMisses
  <2>3. CASE Select(w) \/ FailCall(w) BY <1>1, <2>3 DEF Select, FailCall
  <2>4. ASSUME NEW R \in SUBSET Memories, NEW N \in SUBSET Memories, BeginCall(w, R, N)
        PROVE  Frozen
    BY <2>4 DEF BeginCall
  <2>5. ASSUME NEW x \in Memories, Check(w, x) PROVE Frozen BY <1>1, <2>5 DEF Check
  <2>6. QED BY <1>5, <2>1, <2>2, <2>3, <2>4, <2>5 DEF CallStep
<1>6. ASSUME NEW d \in Mergers, MergeStep(d) PROVE Frozen
  <2>1. ASSUME NEW s \in Memories, NEW l \in Memories, BeginSurvivor(d, s, l) \/ BeginFallback(d, s, l)
        PROVE  Frozen
    BY <2>1 DEF BeginSurvivor, BeginFallback
  <2>2. ASSUME NEW s \in Memories, NEW L \in SUBSET Memories, BeginSynthesis(d, s, L) PROVE Frozen
    BY <1>0, <2>2 DEF TypeOK, BeginSynthesis, Insert
  <2>3. ASSUME NEW l \in Memories, ReadLoser(d, l) PROVE Frozen BY <1>1, <2>3 DEF ReadLoser
  <2>4. ASSUME NEW l \in Memories, ArchiveLoser(d, l) PROVE Frozen
    BY <1>0, <2>4 DEF TypeOK, ArchiveLoser
  <2>5. CASE FailMerge(d) BY <1>1, <2>5 DEF FailMerge
  <2>6. CASE AddWeights(d)
    <3>1. CASE Live(into[d])
      <4>1. m # into[d] BY <1>0, <3>1 DEF Live
      <4>2. /\ alpha' = [alpha EXCEPT ![into[d]] = alpha[into[d]] + held[d].a]
            /\ beta' = [beta EXCEPT ![into[d]] = beta[into[d]] + held[d].b]
            /\ status' = status
        BY <2>6, <3>1, Zenon DEF AddWeights
      <4>3. QED BY <1>0, <4>1, <4>2 DEF TypeOK
    <3>2. CASE ~Live(into[d]) BY <2>6, <3>2 DEF AddWeights
    <3>3. QED BY <3>1, <3>2
  <2>7. QED BY <1>6, <2>1, <2>2, <2>3, <2>4, <2>5, <2>6 DEF MergeStep
<1>7. QED BY <1>2, <1>3, <1>4, <1>5, <1>6 DEF Next

(* An archived or deleted row never changes its weights or comes back: the *)
(* filters of the UPDATEs see to it, whatever the SafetyMonitor answers.   *)
THEOREM DeadFrozen == Spec => DeadRowsFrozen
<1>1. TypeOK /\ [Next]_vars =>
        [\A m \in Memories : status[m] \in {"archived", "deleted"} =>
           /\ alpha'[m] = alpha[m] /\ beta'[m] = beta[m]
           /\ status'[m] \in {status[m], "deleted"}]_vars
  BY DeadStep
<1>2. QED BY <1>1, TypeCorrect, PTL DEF Spec, DeadRowsFrozen

LEMMA SeededStep ==
  ASSUME IInv, Next, NEW m \in Immutable
  PROVE  /\ SeedMoved(m) => \E d \in Mergers : mpc[d] = "add" /\ into[d] = m
         /\ SeedArchived(m) => \E d \in Mergers : m \in gone[d]
<1> DEFINE Kept == alpha'[m] = alpha[m] /\ beta'[m] = beta[m] /\ status'[m] \in {status[m], "deleted"}
           Merged == /\ SeedMoved(m) => \E d \in Mergers : mpc[d] = "add" /\ into[d] = m
                     /\ SeedArchived(m) => \E d \in Mergers : m \in gone[d]
<1>0. TypeOK /\ DeepInv /\ m \in Memories /\ ~Mutable(m) /\ status[m] # "none"
  BY MemoriesAssumption DEF IInv, SeedInv, Mutable
<1>1. ASSUME UNCHANGED rows PROVE Kept BY <1>1 DEF rows
<1>2. ASSUME RowStep PROVE Kept
  <2>1. ASSUME NEW x \in Memories, NEW a, NEW b, Insert(x, a, b) PROVE Kept
    BY <1>0, <2>1 DEF TypeOK, Insert
  <2>2. ASSUME NEW x \in Memories, Delete(x) PROVE Kept BY <1>0, <2>2 DEF TypeOK, Delete
  <2>3. ASSUME NEW S \in SUBSET Memories, DecayTick(S) PROVE Kept
    BY <1>0, <2>3 DEF TypeOK, DecayTick
  <2>4. ASSUME NEW x \in Memories, Store(x) \/ ReadSources(x) PROVE Kept
    BY <1>1, <2>1, <2>4 DEF Store, ReadSources
  <2>5. ASSUME NEW r \in insights, FailInsight(r) PROVE Kept BY <1>1, <2>5 DEF FailInsight
  <2>6. ASSUME NEW x \in Memories, NEW r \in insights, StoreInsight(x, r) PROVE Kept
    BY <2>1, <2>6 DEF StoreInsight
  <2>7. QED BY <1>2, <2>2, <2>3, <2>4, <2>5, <2>6 DEF RowStep
<1>3. ASSUME DeepStep PROVE Kept BY <1>0, <1>1, <1>3, DeepStepFrozen
<1>4. ASSUME Restart PROVE Kept BY <1>1, <1>4 DEF Restart
<1>5. ASSUME NEW w \in Callers, CallStep(w) PROVE Kept
  <2>1. CASE Reinforce(w) BY <1>0, <2>1 DEF TypeOK, Reinforce
  <2>2. CASE NearMisses(w) BY <1>0, <2>2 DEF TypeOK, NearMisses
  <2>3. CASE Select(w) \/ FailCall(w) BY <1>1, <2>3 DEF Select, FailCall
  <2>4. ASSUME NEW R \in SUBSET Memories, NEW N \in SUBSET Memories, BeginCall(w, R, N)
        PROVE  Kept
    BY <2>4 DEF BeginCall
  <2>5. ASSUME NEW x \in Memories, Check(w, x) PROVE Kept BY <1>1, <2>5 DEF Check
  <2>6. QED BY <1>5, <2>1, <2>2, <2>3, <2>4, <2>5 DEF CallStep
<1>6. ASSUME NEW d \in Mergers, MergeStep(d) PROVE Kept \/ Merged
  <2>1. ASSUME NEW s \in Memories, NEW l \in Memories, BeginSurvivor(d, s, l) \/ BeginFallback(d, s, l)
        PROVE  Kept
    BY <2>1 DEF BeginSurvivor, BeginFallback
  <2>2. ASSUME NEW s \in Memories, NEW L \in SUBSET Memories, BeginSynthesis(d, s, L) PROVE Kept
    BY <1>0, <2>2 DEF TypeOK, BeginSynthesis, Insert
  <2>3. ASSUME NEW l \in Memories, ReadLoser(d, l) PROVE Kept BY <1>1, <2>3 DEF ReadLoser
  <2>4. ASSUME NEW l \in Memories, ArchiveLoser(d, l) PROVE Merged
    <3>1. l \in gone[d] /\ alpha' = alpha /\ beta' = beta
          /\ status' = [status EXCEPT ![l] = IF Live(l) THEN "archived" ELSE @]
      BY <2>4 DEF ArchiveLoser
    <3>2. l # m => status'[m] = status[m] BY <1>0, <3>1 DEF TypeOK
    <3>3. QED BY <3>1, <3>2 DEF SeedMoved, SeedArchived
  <2>5. CASE FailMerge(d) BY <1>1, <2>5 DEF FailMerge
  <2>6. CASE AddWeights(d)
    <3>1. mpc[d] = "add" /\ status' = status BY <2>6, Zenon DEF AddWeights
    <3>2. CASE Live(into[d]) /\ into[d] # m
      <4>1. /\ alpha' = [alpha EXCEPT ![into[d]] = alpha[into[d]] + held[d].a]
            /\ beta' = [beta EXCEPT ![into[d]] = beta[into[d]] + held[d].b]
        BY <2>6, <3>2, Zenon DEF AddWeights
      <4>2. QED BY <1>0, <3>1, <3>2, <4>1 DEF TypeOK
    <3>3. CASE ~Live(into[d]) BY <2>6, <3>1, <3>3 DEF AddWeights
    <3>4. CASE into[d] = m BY <3>1, <3>4 DEF SeedMoved, SeedArchived
    <3>5. QED BY <3>2, <3>3, <3>4
  <2>7. QED BY <1>6, <2>1, <2>2, <2>3, <2>4, <2>5, <2>6 DEF MergeStep
<1>7. ASSUME Kept PROVE Merged BY <1>7 DEF SeedMoved, SeedArchived
<1>8. QED BY <1>2, <1>3, <1>4, <1>5, <1>6, <1>7 DEF Next

(* An immutable row is changed by dedup alone.                             *)
THEOREM SeedsOnlyMerged == Spec => ImmutableOnlyMerged
<1>1. IInv /\ [Next]_vars =>
        [\A m \in Immutable :
           /\ SeedMoved(m) => \E d \in Mergers : mpc[d] = "add" /\ into[d] = m
           /\ SeedArchived(m) => \E d \in Mergers : m \in gone[d]]_vars
  BY SeededStep
<1>2. QED BY <1>1, Invariance, PTL DEF Spec, ImmutableOnlyMerged
=============================================================================
