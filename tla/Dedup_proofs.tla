--------------------------- MODULE Dedup_proofs ---------------------------
(***************************************************************************)
(* Theorems about Dedup, for any set of memories and of jobs: types; that  *)
(* with an LLM that ranks the memories no idea is lost, however many jobs  *)
(* race and fail; that a single job without failures and dry runs loses    *)
(* none, and no weight, even if the LLM contradicts itself; and that       *)
(* merging keeps the ideas a partition.                                    *)
(***************************************************************************)
EXTENDS Dedup, WellFoundedInduction, TLAPS

Working == {"fetch", "ask", "insert", "decide", "synthesize", "fallback", "read", "add"}

LEMMA PairParts ==
  ASSUME NEW p \in Pairs
  PROVE  p[1] \in Memories /\ p[2] \in Memories /\ p[1] # p[2] /\ p = <<p[1], p[2]>>
<1>1. p \in Memories \X Memories /\ p[1] < p[2]
  BY DEF Pairs
<1>2. PICK a, b \in Memories : p = <<a, b>>
  BY <1>1
<1>3. p[1] = a /\ p[2] = b
  BY <1>2
<1>4. QED BY <1>1, <1>2, <1>3, MemoriesAssumption

LEMMA SortedPair ==
  ASSUME NEW m \in Memories, NEW n \in Memories, m # n
  PROVE  Sorted(m, n) \in Pairs /\ Members(Sorted(m, n)) = {m, n}
BY MemoriesAssumption DEF Sorted, Pairs, Members

LEMMA Roles ==
  ASSUME NEW p \in Pairs, NEW v
  PROVE  /\ Survivor(p, v) \in Members(p) /\ Loser(p, v) \in Members(p)
         /\ Survivor(p, v) # Loser(p, v)
         /\ Members(p) \subseteq Memories
BY PairParts DEF Survivor, Loser, Members

LEMMA Anything == AnyPair \in Pairs /\ AnyRow \in Memories
BY PairsAssumption, PairParts DEF AnyPair, AnyRow

LEMMA CappedBound ==
  ASSUME NEW n \in Nat
  PROVE  Capped(n) \in 0..MaxCopies
BY CopiesAssumption DEF Capped

LEMMA CopiesType ==
  /\ Nothing \in Copies
  /\ \A f, g \in Copies : [k \in Memories |-> Capped(f[k] + g[k])] \in Copies
BY CappedBound, CopiesAssumption DEF Copies, Nothing

-----------------------------------------------------------------------------
(* Types.                                                                  *)

LEMMA TypeInit == Init => TypeOK
BY Anything, CopiesType DEF Init, TypeOK, Redundant

LEMMA InsertType ==
  ASSUME TypeOK, NEW m \in Memories, Insert(m)
  PROVE  /\ status' = [status EXCEPT ![m] = "live"] /\ heir' = heir
         /\ status' \in [Memories -> {"none", "live", "archived", "deleted"}]
         /\ heir' \in [Memories -> Memories]
         /\ holds' \in [Memories -> Copies]
BY CopiesAssumption DEF Insert, TypeOK, Copies

LEMMA TypeStep == TypeOK /\ [Next]_vars => TypeOK'
<1> SUFFICES ASSUME TypeOK, [Next]_vars PROVE TypeOK' OBVIOUS
<1>1. ASSUME NEW m \in Memories, Store(m) PROVE TypeOK'
  BY <1>1, InsertType DEF Store, TypeOK, merge
<1>2. ASSUME NEW m \in Memories, Delete(m) PROVE TypeOK'
  BY <1>2 DEF Delete, TypeOK, merge
<1>3. ASSUME NEW j \in Jobs, NEW d \in DryRuns, NEW S \in SUBSET Pairs, StartSweep(j, d, S)
      PROVE TypeOK'
  BY <1>3, SwitchesAssumption DEF StartSweep, TypeOK, rows, merge
<1>4. ASSUME NEW j \in Jobs, NEW m \in Memories, NEW o \in Memories, StartGate(j, m, o)
      PROVE TypeOK'
  BY <1>4, InsertType, SortedPair DEF StartGate, TypeOK, merge
<1>5. ASSUME NEW j \in Jobs, NEW p \in Pairs, Lookup(j, p) PROVE TypeOK'
  BY <1>5 DEF Lookup, TypeOK, rows, merge
<1>7. ASSUME NEW j \in Jobs, Fetch(j) PROVE TypeOK'
  BY <1>7 DEF Fetch, TypeOK, rows, merge
<1>8. ASSUME NEW j \in Jobs, NEW v \in Answers, Ask(j, v) PROVE TypeOK'
  BY <1>8, AnswersAssumption DEF Ask, TypeOK, rows, merge, Redundant
<1>9. ASSUME NEW j \in Jobs, Record(j) PROVE TypeOK'
  BY <1>9 DEF Record, TypeOK, rows, merge
<1>10. ASSUME NEW j \in Jobs, Decide(j) PROVE TypeOK'
  <2>1. CASE ~Executes(j) \/ got[j] \in {"synthesize", "no text"}
    BY <1>10, <2>1 DEF Decide, TypeOK, rows, merge
  <2>2. CASE Executes(j) /\ got[j] \notin {"synthesize", "no text"}
    <3>1. /\ Survivor(pair[j], got[j]) \in Memories
          /\ {Loser(pair[j], got[j])} \subseteq Memories
      BY Roles DEF TypeOK
    <3>2. /\ jpc' = [jpc EXCEPT ![j] = "read"]
          /\ into' = [into EXCEPT ![j] = Survivor(pair[j], got[j])]
          /\ from' = [from EXCEPT ![j] = {Loser(pair[j], got[j])}]
          /\ gone' = [gone EXCEPT ![j] = {Loser(pair[j], got[j])}]
      BY <1>10, <2>2 DEF Decide
    <3>3. QED BY <1>10, <2>2, <3>1, <3>2 DEF Decide, TypeOK, rows
  <2>3. QED BY <2>1, <2>2
<1>11. ASSUME NEW j \in Jobs, AddWeights(j) PROVE TypeOK'
  <2>1. holds' \in [Memories -> Copies]
    BY <1>11, CopiesType DEF AddWeights, TypeOK
  <2>2. QED BY <1>11, <2>1, CopiesType DEF AddWeights, TypeOK, merge
<1>12. ASSUME NEW j \in Jobs, Finish(j) PROVE TypeOK'
  BY <1>12, Anything DEF Finish, TypeOK, rows, merge
<1>13. ASSUME NEW j \in Jobs, Fail(j) PROVE TypeOK'
  BY <1>13, CopiesType DEF Fail, TypeOK, rows, merge
<1>14. ASSUME NEW j \in Jobs, NEW v \in {"A", "B"}, Fallback(j, v) PROVE TypeOK'
  BY <1>14, Roles DEF Fallback, TypeOK, rows, merge
<1>15. ASSUME NEW j \in Jobs, NEW m \in Memories, StoreSynthesis(j, m) PROVE TypeOK'
  BY <1>15, InsertType, Roles DEF StoreSynthesis, TypeOK, merge
<1>16. ASSUME NEW j \in Jobs, NEW l \in Memories, ReadLoser(j, l) PROVE TypeOK'
  BY <1>16 DEF ReadLoser, TypeOK, rows, merge
<1>17. ASSUME NEW j \in Jobs, NEW l \in Memories, Archive(j, l) PROVE TypeOK'
  BY <1>17 DEF Archive, TypeOK, merge
<1>18. ASSUME Restart PROVE TypeOK'
  BY <1>18, Anything, CopiesType DEF Restart, TypeOK, rows, merge
<1>19. ASSUME UNCHANGED vars PROVE TypeOK'
  BY <1>19 DEF vars, TypeOK, merge
<1>20. QED
  BY <1>1, <1>2, <1>3, <1>4, <1>5, <1>7, <1>8, <1>9, <1>10, <1>11, <1>12, <1>13,
     <1>14, <1>15, <1>16, <1>17, <1>18, <1>19 DEF Next, Start, Progress

(* Every variable keeps its type: in particular only rows that exist are   *)
(* named as survivors, and only pairs in normalised order are judged.      *)
THEOREM TypeCorrect == Spec => []TypeOK
BY TypeInit, TypeStep, PTL DEF Spec
-----------------------------------------------------------------------------
(* Rows that are named exist: an id never leads back to "none".            *)

Exists(p) == status[p[1]] # "none" /\ status[p[2]] # "none"

QueueStored == \A j \in Jobs : \A p \in queue[j] : Exists(p)
PairStored == \A j \in Jobs : jpc[j] \in Working => Exists(pair[j])
VerdictStored == \A p \in Pairs : verdict[p] # "none" => Exists(p)
MergeStored ==
  \A j \in Jobs : jpc[j] \in {"read", "add"} =>
    /\ status[into[j]] # "none" /\ into[j] \notin gone[j]
    /\ gone[j] \subseteq Members(pair[j]) /\ gone[j] # {}
    /\ from[j] \subseteq gone[j]
HeirStored == \A l \in Archived : status[heir[l]] # "none"

StoredInv == QueueStored /\ PairStored /\ VerdictStored /\ MergeStored /\ HeirStored

LEMMA Kept ==
  ASSUME TypeOK, [Next]_vars
  PROVE  \A m \in Memories : status[m] # "none" => status'[m] # "none"
<1> USE DEF TypeOK, rows, merge
<1>1. ASSUME NEW n \in Memories, Store(n)
      PROVE \A m \in Memories : status[m] # "none" => status'[m] # "none"
  BY <1>1 DEF Store, Insert
<1>2. ASSUME NEW n \in Memories, Delete(n)
      PROVE \A m \in Memories : status[m] # "none" => status'[m] # "none"
  BY <1>2 DEF Delete
<1>3. ASSUME NEW j \in Jobs, NEW d \in DryRuns, NEW S \in SUBSET Pairs, StartSweep(j, d, S)
      PROVE \A m \in Memories : status[m] # "none" => status'[m] # "none"
  BY <1>3 DEF StartSweep
<1>4. ASSUME NEW j \in Jobs, NEW n \in Memories, NEW o \in Memories, StartGate(j, n, o)
      PROVE \A m \in Memories : status[m] # "none" => status'[m] # "none"
  BY <1>4 DEF StartGate, Insert
<1>5. ASSUME NEW j \in Jobs, NEW p \in Pairs, Lookup(j, p)
      PROVE \A m \in Memories : status[m] # "none" => status'[m] # "none"
  BY <1>5 DEF Lookup
<1>7. ASSUME NEW j \in Jobs, Fetch(j)
      PROVE \A m \in Memories : status[m] # "none" => status'[m] # "none"
  BY <1>7 DEF Fetch
<1>8. ASSUME NEW j \in Jobs, NEW v \in Answers, Ask(j, v)
      PROVE \A m \in Memories : status[m] # "none" => status'[m] # "none"
  BY <1>8 DEF Ask
<1>9. ASSUME NEW j \in Jobs, Record(j)
      PROVE \A m \in Memories : status[m] # "none" => status'[m] # "none"
  BY <1>9 DEF Record
<1>10. ASSUME NEW j \in Jobs, Decide(j)
      PROVE \A m \in Memories : status[m] # "none" => status'[m] # "none"
  BY <1>10 DEF Decide
<1>11. ASSUME NEW j \in Jobs, AddWeights(j)
      PROVE \A m \in Memories : status[m] # "none" => status'[m] # "none"
  BY <1>11 DEF AddWeights
<1>12. ASSUME NEW j \in Jobs, Finish(j)
      PROVE \A m \in Memories : status[m] # "none" => status'[m] # "none"
  BY <1>12 DEF Finish
<1>13. ASSUME NEW j \in Jobs, Fail(j)
      PROVE \A m \in Memories : status[m] # "none" => status'[m] # "none"
  BY <1>13 DEF Fail
<1>14. ASSUME NEW j \in Jobs, NEW v \in {"A", "B"}, Fallback(j, v)
      PROVE \A m \in Memories : status[m] # "none" => status'[m] # "none"
  BY <1>14 DEF Fallback
<1>15. ASSUME NEW j \in Jobs, NEW n \in Memories, StoreSynthesis(j, n)
      PROVE \A m \in Memories : status[m] # "none" => status'[m] # "none"
  BY <1>15 DEF StoreSynthesis, Insert
<1>16. ASSUME NEW j \in Jobs, NEW l \in Memories, ReadLoser(j, l)
      PROVE \A m \in Memories : status[m] # "none" => status'[m] # "none"
  BY <1>16 DEF ReadLoser
<1>17. ASSUME NEW j \in Jobs, NEW l \in Memories, Archive(j, l)
      PROVE \A m \in Memories : status[m] # "none" => status'[m] # "none"
  BY <1>17 DEF Archive
<1>18. ASSUME Restart
      PROVE \A m \in Memories : status[m] # "none" => status'[m] # "none"
  BY <1>18 DEF Restart
<1>19. ASSUME UNCHANGED vars
      PROVE \A m \in Memories : status[m] # "none" => status'[m] # "none"
  BY <1>19 DEF vars
<1>20. QED
  BY <1>1, <1>2, <1>3, <1>4, <1>5, <1>7, <1>8, <1>9, <1>10, <1>11, <1>12, <1>13, <1>14, <1>15, <1>16, <1>17, <1>18, <1>19 DEF Next, Start, Progress

LEMMA StoredStep == TypeOK /\ StoredInv /\ [Next]_vars => StoredInv'
<1> SUFFICES ASSUME TypeOK, StoredInv, [Next]_vars PROVE StoredInv' OBVIOUS
<1> USE DEF TypeOK, rows, merge, StoredInv, QueueStored, PairStored, VerdictStored, MergeStored,
            HeirStored, Working, Exists, Archived
<1>0. \A m \in Memories : status[m] # "none" => status'[m] # "none"
  BY Kept
<1>p. \A p \in Pairs : p[1] \in Memories /\ p[2] \in Memories
  BY PairParts
<1>1. ASSUME NEW m \in Memories, Store(m) PROVE StoredInv'
  BY <1>1, <1>0, <1>p DEF Store, Insert
<1>2. ASSUME NEW m \in Memories, Delete(m) PROVE StoredInv'
  BY <1>2, <1>0, <1>p DEF Delete
<1>3. ASSUME NEW j \in Jobs, NEW d \in DryRuns, NEW S \in SUBSET Pairs, StartSweep(j, d, S)
      PROVE StoredInv'
  BY <1>3, <1>0, <1>p DEF StartSweep, BothLive, Live
<1>4. ASSUME NEW j \in Jobs, NEW m \in Memories, NEW o \in Memories, StartGate(j, m, o)
      PROVE StoredInv'
  <2>0. /\ status'[m] # "none" /\ status'[o] # "none"
        /\ Exists(Sorted(m, o))'
    BY <1>4, <1>0 DEF StartGate, Insert, Sorted
  <2>7. /\ \A i \in Jobs : jpc'[i] \in Working => i # j /\ jpc'[i] = jpc[i]
        /\ \A i \in Jobs : queue'[i] = IF i = j THEN {Sorted(m, o)} ELSE queue[i]
        /\ Archived' = Archived /\ heir' = heir
    BY <1>4 DEF StartGate, Insert
  <2>1. QueueStored'
    BY <1>4, <1>0, <1>p, <2>0, <2>7 DEF StartGate, Insert
  <2>2. PairStored'
    BY <1>4, <1>0, <1>p, <2>7 DEF StartGate, Insert
  <2>3. VerdictStored'
    BY <1>4, <1>0, <1>p DEF StartGate, Insert
  <2>4. MergeStored'
    BY <1>4, <1>0, <1>p, <2>7 DEF StartGate, Insert
  <2>5. HeirStored'
    BY <1>4, <1>0, <1>p, <2>7 DEF StartGate, Insert
  <2>6. QED BY <2>1, <2>2, <2>3, <2>4, <2>5
<1>5. ASSUME NEW j \in Jobs, NEW p \in Pairs, Lookup(j, p) PROVE StoredInv'
  BY <1>5, <1>0, <1>p DEF Lookup
<1>7. ASSUME NEW j \in Jobs, Fetch(j) PROVE StoredInv'
  BY <1>7, <1>0, <1>p DEF Fetch
<1>8. ASSUME NEW j \in Jobs, NEW v \in Answers, Ask(j, v) PROVE StoredInv'
  BY <1>8, <1>0, <1>p DEF Ask
<1>9. ASSUME NEW j \in Jobs, Record(j) PROVE StoredInv'
  BY <1>9, <1>0, <1>p DEF Record
<1>10. ASSUME NEW j \in Jobs, Decide(j) PROVE StoredInv'
  <2>0. /\ Survivor(pair[j], got[j]) \in Members(pair[j]) /\ Loser(pair[j], got[j]) \in Members(pair[j])
        /\ Survivor(pair[j], got[j]) # Loser(pair[j], got[j])
        /\ Exists(pair[j])
    BY <1>10, Roles DEF Decide
  <2>1. QueueStored'
    BY <1>10, <1>0, <1>p DEF Decide
  <2>2. PairStored'
    <3>1. /\ jpc[j] = "decide" /\ pair' = pair /\ status' = status
          /\ \A i \in Jobs : i # j => jpc'[i] = jpc[i]
      BY <1>10 DEF Decide
    <3>2. QED BY <3>1
  <2>3. VerdictStored'
    BY <1>10, <1>0, <1>p DEF Decide
  <2>4. MergeStored'
    <3>1. /\ \A i \in Jobs : jpc'[i] \in {"read", "add"} /\ i # j => jpc'[i] = jpc[i]
          /\ \A i \in Jobs : i # j => into'[i] = into[i] /\ gone'[i] = gone[i] /\ from'[i] = from[i]
          /\ status' = status /\ pair' = pair
      BY <1>10 DEF Decide
    <3>2. jpc'[j] \in {"read", "add"} =>
            /\ into'[j] = Survivor(pair[j], got[j])
            /\ gone'[j] = {Loser(pair[j], got[j])} /\ from'[j] = {Loser(pair[j], got[j])}
      BY <1>10 DEF Decide
    <3>3. jpc'[j] \in {"read", "add"} =>
            /\ status'[into'[j]] # "none" /\ into'[j] \notin gone'[j]
            /\ gone'[j] \subseteq Members(pair'[j]) /\ gone'[j] # {}
            /\ from'[j] \subseteq gone'[j]
      <4>1. status[Survivor(pair[j], got[j])] # "none"
        BY <2>0 DEF Members
      <4>2. SUFFICES ASSUME jpc'[j] \in {"read", "add"} PROVE
              /\ status'[into'[j]] # "none" /\ into'[j] \notin gone'[j]
              /\ gone'[j] \subseteq Members(pair'[j]) /\ gone'[j] # {}
              /\ from'[j] \subseteq gone'[j]
        BY Zenon
      <4>3. /\ into'[j] = Survivor(pair[j], got[j]) /\ gone'[j] = {Loser(pair[j], got[j])}
            /\ from'[j] = gone'[j] /\ pair' = pair /\ status' = status
        BY <3>1, <3>2, <4>2, Zenon
      <4>4. status'[into'[j]] # "none" /\ into'[j] \notin gone'[j]
        BY <2>0, <4>1, <4>3
      <4>5. gone'[j] \subseteq Members(pair'[j]) /\ gone'[j] # {}
        BY <2>0, <4>3
      <4>6. QED BY <4>3, <4>4, <4>5
    <3>4. \A i \in Jobs : i # j /\ jpc'[i] \in {"read", "add"} =>
            /\ status'[into'[i]] # "none" /\ into'[i] \notin gone'[i]
            /\ gone'[i] \subseteq Members(pair'[i]) /\ gone'[i] # {}
            /\ from'[i] \subseteq gone'[i]
      BY <3>1
    <3>5. QED BY <3>3, <3>4
  <2>5. HeirStored'
    BY <1>10, <1>0, <1>p DEF Decide
  <2>6. QED BY <2>1, <2>2, <2>3, <2>4, <2>5
<1>11. ASSUME NEW j \in Jobs, AddWeights(j) PROVE StoredInv'
  BY <1>11, <1>0, <1>p DEF AddWeights
<1>12. ASSUME NEW j \in Jobs, Finish(j) PROVE StoredInv'
  BY <1>12, <1>0, <1>p DEF Finish
<1>13. ASSUME NEW j \in Jobs, Fail(j) PROVE StoredInv'
  BY <1>13, <1>0, <1>p DEF Fail
<1>14. ASSUME NEW j \in Jobs, NEW v \in {"A", "B"}, Fallback(j, v) PROVE StoredInv'
  <2>0. /\ Survivor(pair[j], v) \in Members(pair[j]) /\ Loser(pair[j], v) \in Members(pair[j])
        /\ Survivor(pair[j], v) # Loser(pair[j], v)
        /\ Exists(pair[j])
    BY <1>14, Roles DEF Fallback
  <2>1. QueueStored'
    BY <1>14, <1>0, <1>p DEF Fallback
  <2>2. PairStored'
    BY <1>14, <1>0, <1>p DEF Fallback
  <2>3. VerdictStored'
    BY <1>14, <1>0, <1>p DEF Fallback
  <2>4. MergeStored'
    <3>1. /\ \A i \in Jobs : jpc'[i] \in {"read", "add"} /\ i # j => jpc'[i] = jpc[i]
          /\ \A i \in Jobs : i # j => into'[i] = into[i] /\ gone'[i] = gone[i] /\ from'[i] = from[i]
          /\ status' = status /\ pair' = pair
      BY <1>14 DEF Fallback
    <3>2. jpc'[j] \in {"read", "add"} =>
            /\ into'[j] = Survivor(pair[j], v)
            /\ gone'[j] = {Loser(pair[j], v)} /\ from'[j] = {Loser(pair[j], v)}
      BY <1>14 DEF Fallback
    <3>3. jpc'[j] \in {"read", "add"} =>
            /\ status'[into'[j]] # "none" /\ into'[j] \notin gone'[j]
            /\ gone'[j] \subseteq Members(pair'[j]) /\ gone'[j] # {}
            /\ from'[j] \subseteq gone'[j]
      <4>1. status[Survivor(pair[j], v)] # "none"
        BY <2>0 DEF Members
      <4>2. SUFFICES ASSUME jpc'[j] \in {"read", "add"} PROVE
              /\ status'[into'[j]] # "none" /\ into'[j] \notin gone'[j]
              /\ gone'[j] \subseteq Members(pair'[j]) /\ gone'[j] # {}
              /\ from'[j] \subseteq gone'[j]
        BY Zenon
      <4>3. /\ into'[j] = Survivor(pair[j], v) /\ gone'[j] = {Loser(pair[j], v)}
            /\ from'[j] = gone'[j] /\ pair' = pair /\ status' = status
        BY <3>1, <3>2, <4>2, Zenon
      <4>4. status'[into'[j]] # "none" /\ into'[j] \notin gone'[j]
        BY <2>0, <4>1, <4>3
      <4>5. gone'[j] \subseteq Members(pair'[j]) /\ gone'[j] # {}
        BY <2>0, <4>3
      <4>6. QED BY <4>3, <4>4, <4>5
    <3>4. \A i \in Jobs : i # j /\ jpc'[i] \in {"read", "add"} =>
            /\ status'[into'[i]] # "none" /\ into'[i] \notin gone'[i]
            /\ gone'[i] \subseteq Members(pair'[i]) /\ gone'[i] # {}
            /\ from'[i] \subseteq gone'[i]
      BY <3>1
    <3>5. QED BY <3>3, <3>4
  <2>5. HeirStored'
    BY <1>14, <1>0, <1>p DEF Fallback
  <2>6. QED BY <2>1, <2>2, <2>3, <2>4, <2>5
<1>15. ASSUME NEW j \in Jobs, NEW m \in Memories, StoreSynthesis(j, m) PROVE StoredInv'
  <2>0. /\ Archived' = Archived /\ heir' = heir
        /\ m \notin Members(pair[j]) /\ Members(pair[j]) # {}
    BY <1>15, <1>p DEF StoreSynthesis, Insert, Members
  <2>1. QueueStored'
    BY <1>15, <1>0, <1>p DEF StoreSynthesis, Insert
  <2>2. PairStored'
    BY <1>15, <1>0, <1>p DEF StoreSynthesis, Insert
  <2>3. VerdictStored'
    BY <1>15, <1>0, <1>p DEF StoreSynthesis, Insert
  <2>4. MergeStored'
    BY <1>15, <1>0, <1>p, <2>0 DEF StoreSynthesis, Insert
  <2>5. HeirStored'
    BY <1>15, <1>0, <1>p, <2>0 DEF StoreSynthesis, Insert
  <2>6. QED BY <2>1, <2>2, <2>3, <2>4, <2>5
<1>16. ASSUME NEW j \in Jobs, NEW l \in Memories, ReadLoser(j, l) PROVE StoredInv'
  BY <1>16, <1>0, <1>p DEF ReadLoser
<1>17. ASSUME NEW j \in Jobs, NEW l \in Memories, Archive(j, l) PROVE StoredInv'
  <2>1. QueueStored'
    BY <1>17, <1>0, <1>p DEF Archive, Live
  <2>2. PairStored'
    BY <1>17, <1>0, <1>p DEF Archive, Live
  <2>3. VerdictStored'
    BY <1>17, <1>0, <1>p DEF Archive, Live
  <2>4. MergeStored'
    BY <1>17, <1>0, <1>p DEF Archive, Live
  <2>5. HeirStored'
    BY <1>17, <1>0, <1>p DEF Archive, Live
  <2>6. QED BY <2>1, <2>2, <2>3, <2>4, <2>5
<1>18. ASSUME Restart PROVE StoredInv'
  BY <1>18, <1>0, <1>p DEF Restart
<1>19. ASSUME UNCHANGED vars PROVE StoredInv'
  BY <1>19 DEF vars
<1>20. QED
  BY <1>1, <1>2, <1>3, <1>4, <1>5, <1>7, <1>8, <1>9, <1>10, <1>11, <1>12, <1>13, <1>14, <1>15, <1>16, <1>17, <1>18, <1>19 DEF Next, Start, Progress
-----------------------------------------------------------------------------
(* An LLM that ranks the memories: whoever races or fails, a row is only   *)
(* archived into one that ranks above it.                                  *)

RankedLLM ==
  /\ "no text" \notin Answers
  /\ \A m, n \in Memories : m # n => Quality[m] # Quality[n]
  /\ \E b \in Nat : \A m \in Memories : Quality[m] <= b

Above(p, v) == v \in {"A", "B"} => Quality[Survivor(p, v)] > Quality[Loser(p, v)]

NoFallback ==
  /\ \A j \in Jobs : got[j] # "no text" /\ jpc[j] # "fallback"
  /\ \A p \in Pairs : verdict[p] # "no text"
VerdictRanked == \A p \in Pairs : Above(p, verdict[p])
GotRanked == \A j \in Jobs : jpc[j] \in {"insert", "decide"} => Above(pair[j], got[j])
MergeRanked ==
  \A j \in Jobs : jpc[j] \in {"read", "add"} =>
    \A l \in gone[j] : Quality[into[j]] > Quality[l]
HeirRanked == \A l \in Archived : Quality[heir[l]] > Quality[l]

RankInv == NoFallback /\ VerdictRanked /\ GotRanked /\ MergeRanked /\ HeirRanked

LEMMA StrictRank ==
  ASSUME RankedLLM, NEW m \in Memories, NEW n \in Memories, m # n, Quality[m] >= Quality[n]
  PROVE  Quality[m] > Quality[n]
<1>1. Quality[m] \in Nat /\ Quality[n] \in Nat /\ Quality[m] # Quality[n]
  BY QualityAssumption DEF RankedLLM
<1>2. QED BY <1>1

LEMMA RankStep ==
  ASSUME RankedLLM, TypeOK, StoredInv, RankInv, [Next]_vars
  PROVE  RankInv'
<1> USE DEF TypeOK, rows, merge, RankInv, NoFallback, VerdictRanked, GotRanked, MergeRanked,
            HeirRanked, Archived
<1>1. ASSUME NEW m \in Memories, Store(m) PROVE RankInv'
  BY <1>1 DEF Store, Insert
<1>2. ASSUME NEW m \in Memories, Delete(m) PROVE RankInv'
  BY <1>2 DEF Delete
<1>3. ASSUME NEW j \in Jobs, NEW d \in DryRuns, NEW S \in SUBSET Pairs, StartSweep(j, d, S)
      PROVE RankInv'
  BY <1>3 DEF StartSweep
<1>4. ASSUME NEW j \in Jobs, NEW m \in Memories, NEW o \in Memories, StartGate(j, m, o)
      PROVE RankInv'
  BY <1>4 DEF StartGate, Insert
<1>5. ASSUME NEW j \in Jobs, NEW p \in Pairs, Lookup(j, p) PROVE RankInv'
  <2>1. CASE SynthesisColumn
    <3>1. /\ UNCHANGED <<rows, verdict, merge>>
          /\ pair' = [pair EXCEPT ![j] = p]
          /\ got' = [got EXCEPT ![j] = verdict[p]]
          /\ jpc' = [jpc EXCEPT ![j] = IF verdict[p] = "none" THEN "fetch" ELSE "decide"]
      BY <1>5, <2>1 DEF Lookup
    <3>2. QED BY <3>1
  <2>2. CASE ~SynthesisColumn BY <1>5, <2>2 DEF Lookup
  <2>3. QED BY <2>1, <2>2
<1>7. ASSUME NEW j \in Jobs, Fetch(j) PROVE RankInv'
  <2>1. /\ UNCHANGED <<rows, verdict, pair, merge>>
        /\ jpc' = [jpc EXCEPT ![j] = IF BothLive(pair[j]) THEN "ask" ELSE "insert"]
        /\ got' = [got EXCEPT ![j] = IF BothLive(pair[j]) THEN @ ELSE "distinct"]
    BY <1>7 DEF Fetch
  <2>2. NoFallback' /\ VerdictRanked' /\ MergeRanked' /\ HeirRanked'
    BY <2>1
  <2>3. GotRanked'
    BY <2>1 DEF Above
  <2>4. QED BY <2>2, <2>3
<1>8. ASSUME NEW j \in Jobs, NEW v \in Answers, Ask(j, v) PROVE RankInv'
  <2>1. Above(pair[j], v)
    <3> DEFINE x == Survivor(pair[j], v)
               y == Loser(pair[j], v)
    <3>1. x \in Memories /\ y \in Memories /\ x # y
      BY Roles
    <3>2. v \in {"A", "B"} => Quality[x] >= Quality[y]
      BY <1>8 DEF Ask
    <3> HIDE DEF x, y
    <3>3. v \in {"A", "B"} => Quality[x] > Quality[y]
      BY <3>1, <3>2, StrictRank
    <3>4. QED BY <3>3 DEF Above, x, y
  <2>2. v # "no text"
    BY DEF RankedLLM
  <2>3. QED BY <1>8, <2>1, <2>2 DEF Ask
<1>9. ASSUME NEW j \in Jobs, Record(j) PROVE RankInv'
  BY <1>9 DEF Record
<1>10. ASSUME NEW j \in Jobs, Decide(j) PROVE RankInv'
  <2>1. /\ jpc' \in [Jobs -> {"idle", "next", "fetch", "ask", "insert", "decide",
                             "synthesize", "fallback", "read", "add"}]
        /\ \A i \in Jobs : i # j => jpc'[i] = jpc[i] /\ into'[i] = into[i] /\ gone'[i] = gone[i]
        /\ jpc[j] = "decide" /\ jpc'[j] \in {"next", "synthesize", "read"}
        /\ UNCHANGED <<status, heir, verdict, pair, got>>
    BY <1>10 DEF Decide
  <2>2. jpc'[j] = "read" => /\ got[j] \in {"A", "B"}
                            /\ into'[j] = Survivor(pair[j], got[j])
                            /\ gone'[j] = {Loser(pair[j], got[j])}
    BY <1>10 DEF Decide, Executes, Redundant
  <2>3. MergeRanked'
    <3>1. Above(pair[j], got[j])
      BY <2>1
    <3>2. jpc'[j] \in {"read", "add"} => \A l \in gone'[j] : Quality[into'[j]] > Quality[l]
      <4>1. SUFFICES ASSUME jpc'[j] = "read", NEW l \in gone'[j] PROVE Quality[into'[j]] > Quality[l]
        BY <2>1
      <4>2. into'[j] = Survivor(pair[j], got[j]) /\ l = Loser(pair[j], got[j]) /\ got[j] \in {"A", "B"}
        BY <2>2, <4>1
      <4>3. QED BY <3>1, <4>2 DEF Above
    <3>3. \A i \in Jobs : i # j /\ jpc'[i] \in {"read", "add"} =>
            \A l \in gone'[i] : Quality[into'[i]] > Quality[l]
      BY <2>1
    <3>4. QED BY <3>2, <3>3
  <2>4. QED BY <2>1, <2>3
<1>11. ASSUME NEW j \in Jobs, AddWeights(j) PROVE RankInv'
  BY <1>11 DEF AddWeights
<1>12. ASSUME NEW j \in Jobs, Finish(j) PROVE RankInv'
  BY <1>12 DEF Finish
<1>13. ASSUME NEW j \in Jobs, Fail(j) PROVE RankInv'
  BY <1>13 DEF Fail
<1>14. ASSUME NEW j \in Jobs, NEW v \in {"A", "B"}, Fallback(j, v) PROVE RankInv'
  BY <1>14 DEF Fallback
<1>15. ASSUME NEW j \in Jobs, NEW m \in Memories, StoreSynthesis(j, m) PROVE RankInv'
  <2>1. \A l \in Members(pair[j]) : l \in Memories /\ status[l] # "none"
    BY <1>15, Roles DEF StoreSynthesis, StoredInv, PairStored, Working, Exists, Members
  <2>2. \A l \in Members(pair[j]) : Quality[m] > Quality[l]
    <3>1. \A l \in Members(pair[j]) : m # l /\ Quality[m] >= Quality[l]
      BY <1>15, <2>1 DEF StoreSynthesis, Insert
    <3>2. QED BY <2>1, <3>1, StrictRank
  <2>3. QED BY <1>15, <2>2 DEF StoreSynthesis, Insert
<1>16. ASSUME NEW j \in Jobs, NEW l \in Memories, ReadLoser(j, l) PROVE RankInv'
  <2>1. /\ \A i \in Jobs : jpc'[i] = jpc[i] \/ (jpc[i] = "read" /\ jpc'[i] = "add")
        /\ UNCHANGED <<status, heir, verdict, pair, got, into, gone>>
    BY <1>16 DEF ReadLoser
  <2>2. QED BY <2>1
<1>17. ASSUME NEW j \in Jobs, NEW l \in Memories, Archive(j, l) PROVE RankInv'
  BY <1>17 DEF Archive, Live
<1>18. ASSUME Restart PROVE RankInv'
  BY <1>18 DEF Restart
<1>19. ASSUME UNCHANGED vars PROVE RankInv'
  BY <1>19 DEF vars
<1>20. QED
  BY <1>1, <1>2, <1>3, <1>4, <1>5, <1>7, <1>8, <1>9, <1>10, <1>11, <1>12, <1>13, <1>14, <1>15, <1>16, <1>17, <1>18, <1>19 DEF Next, Start, Progress

LEMMA RankInit == ASSUME Init PROVE StoredInv /\ RankInv
BY DEF Init, StoredInv, QueueStored, PairStored, VerdictStored, MergeStored, HeirStored, RankInv,
       NoFallback, VerdictRanked, GotRanked, MergeRanked, HeirRanked, Archived, Above, Working

(* Ever higher ranks cannot lead back into a set of ranked memories.       *)
LEMMA HighestRank ==
  ASSUME RankedLLM, TypeOK, HeirRanked
  PROVE  NoIdeaLost
<1> SUFFICES ASSUME NEW S \in SUBSET Archived, S # {}, \A m \in S : heir[m] \in S
             PROVE  FALSE
  BY DEF NoIdeaLost
<1>1. PICK b \in Nat : \A m \in Memories : Quality[m] <= b
  BY DEF RankedLLM
<1> DEFINE T == {b - Quality[m] : m \in S}
           R == OpToRel(<, Nat)
<1>2. S \subseteq Memories
  BY DEF Archived
<1>3. T \subseteq Nat /\ T # {}
  BY <1>1, <1>2, QualityAssumption
<1>4. PICK x \in T : \A y \in T : ~(<<y, x>> \in R)
  <2> HIDE DEF T, R
  <2>1. IsWellFoundedOn(R, Nat) BY NatLessThanWellFounded DEF R
  <2>2. QED BY <1>3, <2>1, WFMin, Zenon
<1>5. PICK m \in S : x = b - Quality[m]
  OBVIOUS
<1>6. b - Quality[heir[m]] \in T /\ b - Quality[heir[m]] < x
  BY <1>1, <1>2, <1>5, QualityAssumption DEF HeirRanked
<1>7. <<b - Quality[heir[m]], x>> \in R
  BY <1>3, <1>6 DEF OpToRel
<1>8. QED BY <1>4, <1>6, <1>7

(* With an LLM that ranks the memories no idea is ever lost, however many  *)
(* jobs judge the same pairs at once, fail, restart or only preview.       *)
THEOREM RankedKeepsIdeas ==
  ASSUME RankedLLM
  PROVE  Spec => []NoIdeaLost
<1>1. Init => TypeOK /\ StoredInv /\ RankInv
  BY TypeInit, RankInit
<1>2. TypeOK /\ StoredInv /\ RankInv /\ [Next]_vars => (TypeOK /\ StoredInv /\ RankInv)'
  BY TypeStep, StoredStep, RankStep
<1>3. TypeOK /\ StoredInv /\ RankInv => NoIdeaLost
  BY HighestRank DEF RankInv
<1>4. QED BY <1>1, <1>2, <1>3, PTL DEF Spec
-----------------------------------------------------------------------------
(* One job at a time, without dry runs and failures: a verdict is executed *)
(* at once or never, so the cache never brings up a stale one.             *)

Alone ==
  /\ \A i, j \in Jobs : i = j
  /\ DryRuns \subseteq {FALSE}
  /\ ~MayFail

Unarchived(p) == status[p[1]] # "archived" /\ status[p[2]] # "archived"
Executing == {"decide", "synthesize", "fallback", "read", "add"}

NotDry == \A j \in Jobs : ~dry[j]
QueueOpen == \A j \in Jobs : \A p \in queue[j] : verdict[p] \notin Redundant
PairTaken == \A j \in Jobs : jpc[j] \in Working => pair[j] \notin queue[j]
PairOpen ==
  \A j \in Jobs :
    /\ jpc[j] \in {"fetch", "ask", "insert"} => verdict[pair[j]] = "none"
    /\ jpc[j] = "decide" => got[j] = verdict[pair[j]]
PairUnarchived ==
  \A j \in Jobs :
    /\ jpc[j] \in {"ask", "synthesize", "fallback"} => Unarchived(pair[j])
    /\ jpc[j] \in {"insert", "decide"} /\ got[j] \in Redundant => Unarchived(pair[j])
    /\ jpc[j] \in {"read", "add"} => status[into[j]] # "archived"
Settled ==
  \A p \in Pairs : verdict[p] \in Redundant /\ BothLive(p) =>
    \E j \in Jobs : jpc[j] \in Executing /\ pair[j] = p

AloneInv == NotDry /\ QueueOpen /\ PairTaken /\ PairOpen /\ PairUnarchived /\ Settled

LEMMA FreshRow ==
  ASSUME VerdictStored, NEW m \in Memories, status[m] = "none"
  PROVE  \A q \in Pairs : verdict[q] \in Redundant => q[1] # m /\ q[2] # m
BY DEF VerdictStored, Exists, Redundant

LEMMA AloneStep ==
  ASSUME Alone, TypeOK, StoredInv, AloneInv, [Next]_vars
  PROVE  AloneInv'
<1> USE DEF TypeOK, rows, merge, AloneInv, NotDry, QueueOpen, PairTaken, PairOpen,
            PairUnarchived, Settled, Unarchived, BothLive, Live, Working, Executing
<1>p. \A p \in Pairs : p[1] \in Memories /\ p[2] \in Memories
  BY PairParts
<1>a. /\ \A i, k \in Jobs : i = k
      /\ DryRuns \subseteq {FALSE} /\ ~MayFail
  BY DEF Alone
<1>s. QueueStored /\ PairStored /\ VerdictStored /\ MergeStored
  BY DEF StoredInv
<1>1. ASSUME NEW m \in Memories, Store(m) PROVE AloneInv'
  <2>1. NotDry'
    BY <1>1, <1>p, <1>s DEF Store, Insert, VerdictStored, PairStored, MergeStored, Exists
  <2>2. QueueOpen'
    BY <1>1, <1>p, <1>s DEF Store, Insert, VerdictStored, PairStored, MergeStored, Exists
  <2>3. PairTaken'
    BY <1>1, <1>p, <1>s DEF Store, Insert, VerdictStored, PairStored, MergeStored, Exists
  <2>4. PairOpen'
    BY <1>1, <1>p, <1>s DEF Store, Insert, VerdictStored, PairStored, MergeStored, Exists
  <2>5. PairUnarchived'
    BY <1>1, <1>p, <1>s DEF Store, Insert, VerdictStored, PairStored, MergeStored, Exists
  <2>6. Settled'
    <3>1. \A q \in Pairs : verdict[q] \in Redundant => q[1] # m /\ q[2] # m
      BY <1>1, <1>s, FreshRow DEF Store, Insert
    <3>2. QED BY <1>1, <1>p, <3>1 DEF Store, Insert
  <2>7. QED BY <2>1, <2>2, <2>3, <2>4, <2>5, <2>6
<1>2. ASSUME NEW m \in Memories, Delete(m) PROVE AloneInv'
  BY <1>2, <1>p, <1>a DEF Delete
<1>3. ASSUME NEW j \in Jobs, NEW d \in DryRuns, NEW S \in SUBSET Pairs, StartSweep(j, d, S)
      PROVE AloneInv'
  <2>1. NotDry'
    <3>1. d = FALSE BY <1>a
    <3>2. QED BY <1>3, <3>1 DEF StartSweep
  <2>2. QueueOpen'
    BY <1>3, <1>p, <1>a DEF StartSweep
  <2>3. PairTaken'
    BY <1>3, <1>p, <1>a DEF StartSweep
  <2>4. PairOpen'
    BY <1>3, <1>p, <1>a DEF StartSweep
  <2>5. PairUnarchived'
    BY <1>3, <1>p, <1>a DEF StartSweep
  <2>6. Settled'
    BY <1>3, <1>p, <1>a DEF StartSweep
  <2>7. QED BY <2>1, <2>2, <2>3, <2>4, <2>5, <2>6
<1>4. ASSUME NEW j \in Jobs, NEW m \in Memories, NEW o \in Memories, StartGate(j, m, o)
      PROVE AloneInv'
  <2>1. NotDry'
    BY <1>4, <1>p, <1>a, <1>s, SortedPair DEF StartGate, Insert, VerdictStored, Exists, Members
  <2>0. \A q \in Pairs : verdict[q] \in Redundant => q[1] # m /\ q[2] # m
    BY <1>4, <1>s, FreshRow DEF StartGate, Insert
  <2>2. QueueOpen'
    <3>1. verdict[Sorted(m, o)] \notin Redundant
      <4>1. Sorted(m, o) \in Pairs /\ m \in Members(Sorted(m, o))
        BY <1>4, SortedPair DEF StartGate
      <4>2. QED BY <2>0, <4>1 DEF Members
    <3>2. QED BY <1>4, <1>a, <3>1 DEF StartGate
  <2>3. PairTaken'
    BY <1>4, <1>p, <1>a, <1>s, SortedPair DEF StartGate, Insert, VerdictStored, Exists, Members
  <2>4. PairOpen'
    BY <1>4, <1>p, <1>a, <1>s, SortedPair DEF StartGate, Insert, VerdictStored, Exists, Members
  <2>5. PairUnarchived'
    BY <1>4, <1>p, <1>a, <1>s, SortedPair DEF StartGate, Insert, VerdictStored, Exists, Members
  <2>6. Settled'
    <3>1. \A q \in Pairs : verdict[q] \in Redundant => ~BothLive(q)
      BY <1>4, <1>a DEF StartGate
    <3>2. QED BY <1>4, <1>p, <2>0, <3>1 DEF StartGate, Insert
  <2>7. QED BY <2>1, <2>2, <2>3, <2>4, <2>5, <2>6
<1>5. ASSUME NEW j \in Jobs, NEW p \in Pairs, Lookup(j, p) PROVE AloneInv'
  BY <1>5, <1>p, <1>a DEF Lookup
<1>7. ASSUME NEW j \in Jobs, Fetch(j) PROVE AloneInv'
  <2>1. /\ UNCHANGED <<status, verdict, queue, pair, dry, into>>
        /\ jpc[j] = "fetch" /\ jpc' \in [Jobs -> {"idle", "next", "fetch", "ask", "insert",
                                     "decide", "synthesize", "fallback", "read", "add"}]
    BY <1>7 DEF Fetch
  <2>2. \/ jpc'[j] = "ask" /\ BothLive(pair[j])
        \/ jpc'[j] = "insert" /\ got'[j] = "distinct"
    BY <1>7 DEF Fetch
  <2>3. Unarchived(pair[j]) \/ got'[j] \notin Redundant
    BY <2>2 DEF Redundant
  <2>4. NotDry' /\ QueueOpen'
    BY <2>1
  <2>5. PairTaken' /\ PairOpen'
    BY <2>1, <2>2, <1>a
  <2>6. PairUnarchived'
    BY <2>1, <2>2, <2>3, <1>a
  <2>7. Settled'
    BY <2>1, <1>a
  <2>8. QED BY <2>4, <2>5, <2>6, <2>7
<1>8. ASSUME NEW j \in Jobs, NEW v \in Answers, Ask(j, v) PROVE AloneInv'
  BY <1>8, <1>p, <1>a DEF Ask
<1>9. ASSUME NEW j \in Jobs, Record(j) PROVE AloneInv'
  BY <1>9, <1>p, <1>a DEF Record
<1>10. ASSUME NEW j \in Jobs, Decide(j) PROVE AloneInv'
  <2>1. /\ UNCHANGED <<status, verdict, queue, pair, got, dry>>
        /\ jpc[j] = "decide" /\ got[j] = verdict[pair[j]]
    BY <1>10 DEF Decide
  <2>2. \/ jpc'[j] = "next" /\ got[j] \notin Redundant
        \/ jpc'[j] \in {"synthesize", "fallback"} /\ got[j] \in Redundant
        \/ /\ jpc'[j] = "read" /\ got[j] \in Redundant
           /\ into'[j] = Survivor(pair[j], got[j])
    <3>1. CASE ~Executes(j)
      BY <1>10, <2>1, <3>1 DEF Decide, Executes
    <3>2. CASE Executes(j) /\ got[j] \in {"synthesize", "no text"}
      <4>1. got[j] \in Redundant BY <3>2 DEF Executes
      <4>2. jpc' = [jpc EXCEPT ![j] = "synthesize"] \/ jpc' = [jpc EXCEPT ![j] = "fallback"]
        BY <1>10, <3>2 DEF Decide
      <4>3. QED BY <4>1, <4>2
    <3>3. CASE Executes(j) /\ got[j] \notin {"synthesize", "no text"}
      <4>1. got[j] \in Redundant BY <3>3 DEF Executes
      <4>2. /\ jpc' = [jpc EXCEPT ![j] = "read"]
            /\ into' = [into EXCEPT ![j] = Survivor(pair[j], got[j])]
        BY <1>10, <3>3 DEF Decide
      <4>3. QED BY <4>1, <4>2
    <3>4. QED BY <3>1, <3>2, <3>3
  <2>3. status[Survivor(pair[j], got[j])] # "archived" \/ got[j] \notin Redundant
    BY <2>1, Roles DEF Members
  <2>4. NotDry' /\ QueueOpen'
    BY <2>1
  <2>5. PairTaken' /\ PairOpen'
    BY <2>1, <2>2, <1>a
  <2>6. PairUnarchived'
    BY <2>1, <2>2, <2>3, <1>a
  <2>7. Settled'
    BY <2>1, <2>2, <1>a
  <2>8. QED BY <2>4, <2>5, <2>6, <2>7
<1>11. ASSUME NEW j \in Jobs, AddWeights(j) PROVE AloneInv'
  BY <1>11, <1>p, <1>a DEF AddWeights
<1>12. ASSUME NEW j \in Jobs, Finish(j) PROVE AloneInv'
  BY <1>12, <1>p, <1>a DEF Finish
<1>13. ASSUME NEW j \in Jobs, Fail(j) PROVE AloneInv'
  BY <1>13, <1>a DEF Fail
<1>14. ASSUME NEW j \in Jobs, NEW v \in {"A", "B"}, Fallback(j, v) PROVE AloneInv'
  BY <1>14, <1>p, <1>a, Roles DEF Fallback, Members
<1>15. ASSUME NEW j \in Jobs, NEW m \in Memories, StoreSynthesis(j, m) PROVE AloneInv'
  <2>1. NotDry'
    BY <1>15, <1>p, <1>a, <1>s DEF StoreSynthesis, Insert, VerdictStored, PairStored, Exists
  <2>2. QueueOpen'
    BY <1>15, <1>p, <1>a, <1>s DEF StoreSynthesis, Insert, VerdictStored, PairStored, Exists
  <2>3. PairTaken'
    BY <1>15, <1>p, <1>a, <1>s DEF StoreSynthesis, Insert, VerdictStored, PairStored, Exists
  <2>4. PairOpen'
    BY <1>15, <1>p, <1>a, <1>s DEF StoreSynthesis, Insert, VerdictStored, PairStored, Exists
  <2>5. PairUnarchived'
    BY <1>15, <1>p, <1>a, <1>s DEF StoreSynthesis, Insert, VerdictStored, PairStored, Exists
  <2>6. Settled'
    <3>1. \A q \in Pairs : verdict[q] \in Redundant => q[1] # m /\ q[2] # m
      BY <1>15, <1>s, FreshRow DEF StoreSynthesis, Insert
    <3>2. QED BY <1>15, <1>p, <1>a, <3>1 DEF StoreSynthesis, Insert
  <2>7. QED BY <2>1, <2>2, <2>3, <2>4, <2>5, <2>6
<1>16. ASSUME NEW j \in Jobs, NEW l \in Memories, ReadLoser(j, l) PROVE AloneInv'
  BY <1>16, <1>p, <1>a DEF ReadLoser
<1>17. ASSUME NEW j \in Jobs, NEW l \in Memories, Archive(j, l) PROVE AloneInv'
  BY <1>17, <1>p, <1>a, <1>s DEF Archive, MergeStored, Members
<1>18. ASSUME Restart PROVE AloneInv'
  BY <1>18, <1>a DEF Restart
<1>19. ASSUME UNCHANGED vars PROVE AloneInv'
  BY <1>19 DEF vars
<1>20. QED
  BY <1>1, <1>2, <1>3, <1>4, <1>5, <1>7, <1>8, <1>9, <1>10, <1>11, <1>12, <1>13, <1>14, <1>15, <1>16, <1>17, <1>18, <1>19 DEF Next, Start, Progress

LEMMA AloneInit == ASSUME Init PROVE StoredInv /\ AloneInv
BY DEF Init, StoredInv, QueueStored, PairStored, VerdictStored, MergeStored, HeirStored, Archived,
       AloneInv, NotDry, QueueOpen, PairTaken, PairOpen, PairUnarchived, Settled, Working,
       Redundant, Executing

LEMMA AloneInvariant ==
  ASSUME Alone
  PROVE  Spec => [](TypeOK /\ StoredInv /\ AloneInv)
<1>1. Init => TypeOK /\ StoredInv /\ AloneInv
  BY TypeInit, AloneInit
<1>2. TypeOK /\ StoredInv /\ AloneInv /\ [Next]_vars => (TypeOK /\ StoredInv /\ AloneInv)'
  BY TypeStep, StoredStep, AloneStep
<1>3. QED BY <1>1, <1>2, PTL DEF Spec

(* Rows are archived and survivors named by archive_memory alone.          *)
LEMMA OnlyArchive ==
  ASSUME TypeOK, [Next]_vars
  PROVE  \/ heir' = heir /\ \A m \in Memories : status'[m] = "archived" => status[m] = "archived"
         \/ \E j \in Jobs : \E l \in Memories : Archive(j, l)
<1> DEFINE Goal ==
      \/ heir' = heir /\ \A m \in Memories : status'[m] = "archived" => status[m] = "archived"
      \/ \E j \in Jobs : \E l \in Memories : Archive(j, l)
<1> USE DEF TypeOK, rows, merge
<1>1. ASSUME NEW m \in Memories, Store(m) PROVE Goal
  BY <1>1 DEF Store, Insert
<1>2. ASSUME NEW m \in Memories, Delete(m) PROVE Goal
  BY <1>2 DEF Delete
<1>3. ASSUME NEW j \in Jobs, NEW d \in DryRuns, NEW S \in SUBSET Pairs, StartSweep(j, d, S)
      PROVE Goal
  BY <1>3 DEF StartSweep
<1>4. ASSUME NEW j \in Jobs, NEW m \in Memories, NEW o \in Memories, StartGate(j, m, o)
      PROVE Goal
  BY <1>4 DEF StartGate, Insert
<1>5. ASSUME NEW j \in Jobs, NEW p \in Pairs, Lookup(j, p) PROVE Goal
  BY <1>5 DEF Lookup
<1>7. ASSUME NEW j \in Jobs, Fetch(j) PROVE Goal
  BY <1>7 DEF Fetch
<1>8. ASSUME NEW j \in Jobs, NEW v \in Answers, Ask(j, v) PROVE Goal
  BY <1>8 DEF Ask
<1>9. ASSUME NEW j \in Jobs, Record(j) PROVE Goal
  BY <1>9 DEF Record
<1>10. ASSUME NEW j \in Jobs, Decide(j) PROVE Goal
  BY <1>10 DEF Decide
<1>11. ASSUME NEW j \in Jobs, AddWeights(j) PROVE Goal
  BY <1>11 DEF AddWeights
<1>12. ASSUME NEW j \in Jobs, Finish(j) PROVE Goal
  BY <1>12 DEF Finish
<1>13. ASSUME NEW j \in Jobs, Fail(j) PROVE Goal
  BY <1>13 DEF Fail
<1>14. ASSUME NEW j \in Jobs, NEW v \in {"A", "B"}, Fallback(j, v) PROVE Goal
  BY <1>14 DEF Fallback
<1>15. ASSUME NEW j \in Jobs, NEW m \in Memories, StoreSynthesis(j, m) PROVE Goal
  BY <1>15 DEF StoreSynthesis, Insert
<1>16. ASSUME NEW j \in Jobs, NEW l \in Memories, ReadLoser(j, l) PROVE Goal
  BY <1>16 DEF ReadLoser
<1>17. ASSUME NEW j \in Jobs, NEW l \in Memories, Archive(j, l) PROVE Goal
  BY <1>17
<1>18. ASSUME Restart PROVE Goal
  BY <1>18 DEF Restart
<1>19. ASSUME UNCHANGED vars PROVE Goal
  BY <1>19 DEF vars
<1>20. QED
  BY <1>1, <1>2, <1>3, <1>4, <1>5, <1>7, <1>8, <1>9, <1>10, <1>11, <1>12, <1>13, <1>14, <1>15, <1>16, <1>17, <1>18, <1>19 DEF Next, Start, Progress
LEMMA ArchiveKeeps ==
  ASSUME TypeOK, StoredInv, AloneInv, NoIdeaLost, NEW j \in Jobs, NEW l \in Memories, Archive(j, l)
  PROVE  NoIdeaLost'
<1>1. /\ into[j] \in Memories /\ into[j] # l /\ status[into[j]] # "archived"
      /\ \A m \in Memories : m # l => status'[m] = status[m] /\ heir'[m] = heir[m]
      /\ status'[l] = "archived" => (status[l] = "archived" /\ heir'[l] = heir[l]) \/ heir'[l] = into[j]
  BY DEF Archive, TypeOK, StoredInv, MergeStored, AloneInv, PairUnarchived
<1>2. SUFFICES ASSUME NEW S \in SUBSET Archived', S # {}
               PROVE  \E m \in S : heir'[m] \notin S
  BY DEF NoIdeaLost
<1>3. CASE l \in S /\ status[l] # "archived"
  BY <1>1, <1>2, <1>3 DEF Archived
<1>4. CASE ~(l \in S /\ status[l] # "archived")
  <2>1. S \subseteq Archived
    BY <1>1, <1>2, <1>4 DEF Archived
  <2>2. PICK m \in S : heir[m] \notin S
    BY <1>2, <2>1 DEF NoIdeaLost
  <2>3. heir'[m] = heir[m] \/ heir'[m] = into[j]
    BY <1>1, <2>1 DEF Archived
  <2>4. into[j] \notin S
    BY <1>1, <2>1 DEF Archived
  <2>5. QED BY <2>2, <2>3, <2>4
<1>5. QED BY <1>3, <1>4

(* A single job that previews nothing and never fails keeps every idea,    *)
(* whatever the LLM answers.                                               *)
THEOREM AloneKeepsIdeas ==
  ASSUME Alone
  PROVE  Spec => []NoIdeaLost
<1>1. Init => NoIdeaLost
  BY DEF Init, NoIdeaLost, Archived
<1>2. TypeOK /\ StoredInv /\ AloneInv /\ NoIdeaLost /\ [Next]_vars => NoIdeaLost'
  <2> SUFFICES ASSUME TypeOK, StoredInv, AloneInv, NoIdeaLost, [Next]_vars PROVE NoIdeaLost'
    OBVIOUS
  <2>1. CASE \E j \in Jobs : \E l \in Memories : Archive(j, l)
    BY <2>1, ArchiveKeeps
  <2>2. CASE heir' = heir /\ \A m \in Memories : status'[m] = "archived" => status[m] = "archived"
    <3>1. Archived' \subseteq Archived
      BY <2>2 DEF Archived
    <3>2. QED BY <2>2, <3>1 DEF NoIdeaLost
  <2>3. QED BY <2>1, <2>2, OnlyArchive
<1>3. QED BY <1>1, <1>2, AloneInvariant, PTL DEF Spec

(* A single job that previews nothing and never fails archives a memory    *)
(* only into one that is not archived itself.                              *)
THEOREM AloneMergesLiveRows ==
  ASSUME Alone
  PROVE  Spec => MergesLiveRows
<1>1. TypeOK /\ StoredInv /\ AloneInv /\ [Next]_vars =>
        [\A l \in Memories : status[l] = "live" /\ status'[l] = "archived" =>
           status[heir'[l]] # "archived"]_vars
  <2> SUFFICES ASSUME TypeOK, StoredInv, AloneInv, [Next]_vars,
                      NEW l \in Memories, status[l] = "live", status'[l] = "archived"
               PROVE  status[heir'[l]] # "archived"
    OBVIOUS
  <2>1. PICK j \in Jobs, k \in Memories : Archive(j, k)
    BY OnlyArchive
  <2>2. heir'[l] = into[j] /\ status[into[j]] # "archived"
    BY <2>1 DEF Archive, TypeOK, AloneInv, PairUnarchived
  <2>3. QED BY <2>2
<1>2. QED BY <1>1, AloneInvariant, PTL DEF Spec, MergesLiveRows
-----------------------------------------------------------------------------
(* Weights: before a loser is archived its survivor contains all it holds. *)

AtMost(f, g) == \A k \in Memories : f[k] <= g[k]

MergeHolds ==
  \A j \in Jobs : jpc[j] \in {"read", "add"} =>
    \A l \in gone[j] \ from[j] : Live(l) /\ Live(into[j]) =>
      \/ AtMost(holds[l], holds[into[j]])
      \/ jpc[j] = "add" /\ held[j] = holds[l]

LEMMA CappedSum ==
  ASSUME NEW f \in Copies, NEW g \in Copies
  PROVE  /\ AtMost(f, [k \in Memories |-> Capped(f[k] + g[k])])
         /\ AtMost(g, [k \in Memories |-> Capped(f[k] + g[k])])
BY CopiesAssumption DEF AtMost, Copies, Capped

LEMMA AtMostTransitive ==
  ASSUME NEW f \in Copies, NEW g \in Copies, NEW h \in Copies, AtMost(f, g), AtMost(g, h)
  PROVE  AtMost(f, h)
BY CopiesAssumption DEF AtMost, Copies

LEMMA AtMostSelf == ASSUME NEW f \in Copies PROVE AtMost(f, f)
BY CopiesAssumption DEF AtMost, Copies

(* What a row contains only grows, and only while the row is live.         *)
LEMMA HoldsGrow ==
  ASSUME TypeOK, [Next]_vars
  PROVE  \A m \in Memories : status[m] # "none" =>
           AtMost(holds[m], holds'[m]) /\ (~Live(m) => holds'[m] = holds[m])
<1> DEFINE Goal == \A m \in Memories : status[m] # "none" =>
                     AtMost(holds[m], holds'[m]) /\ (~Live(m) => holds'[m] = holds[m])
<1>a. \A m \in Memories : AtMost(holds[m], holds[m])
  BY AtMostSelf DEF TypeOK
<1> USE DEF TypeOK, rows, merge
<1>1. ASSUME NEW m \in Memories, Store(m) PROVE Goal
  BY <1>1, <1>a DEF Store, Insert
<1>2. ASSUME NEW m \in Memories, Delete(m) PROVE Goal
  BY <1>2, <1>a DEF Delete
<1>3. ASSUME NEW j \in Jobs, NEW d \in DryRuns, NEW S \in SUBSET Pairs, StartSweep(j, d, S)
      PROVE Goal
  BY <1>3, <1>a DEF StartSweep
<1>4. ASSUME NEW j \in Jobs, NEW m \in Memories, NEW o \in Memories, StartGate(j, m, o)
      PROVE Goal
  BY <1>4, <1>a DEF StartGate, Insert
<1>5. ASSUME NEW j \in Jobs, NEW p \in Pairs, Lookup(j, p) PROVE Goal
  BY <1>5, <1>a DEF Lookup
<1>7. ASSUME NEW j \in Jobs, Fetch(j) PROVE Goal
  BY <1>7, <1>a DEF Fetch
<1>8. ASSUME NEW j \in Jobs, NEW v \in Answers, Ask(j, v) PROVE Goal
  BY <1>8, <1>a DEF Ask
<1>9. ASSUME NEW j \in Jobs, Record(j) PROVE Goal
  BY <1>9, <1>a DEF Record
<1>10. ASSUME NEW j \in Jobs, Decide(j) PROVE Goal
  BY <1>10, <1>a DEF Decide
<1>11. ASSUME NEW j \in Jobs, AddWeights(j) PROVE Goal
  <2>1. /\ held[j] \in Copies /\ into[j] \in Memories
        /\ \A m \in Memories : holds[m] \in Copies /\ (m # into[j] => holds'[m] = holds[m])
        /\ ~Live(into[j]) => holds'[into[j]] = holds[into[j]]
        /\ Live(into[j]) => holds'[into[j]] =
               [k \in Memories |-> Capped(holds[into[j]][k] + held[j][k])]
    BY <1>11 DEF AddWeights
  <2>2. Live(into[j]) => AtMost(holds[into[j]], holds'[into[j]])
    BY <2>1, CappedSum
  <2>3. QED BY <1>a, <2>1, <2>2
<1>12. ASSUME NEW j \in Jobs, Finish(j) PROVE Goal
  BY <1>12, <1>a DEF Finish
<1>13. ASSUME NEW j \in Jobs, Fail(j) PROVE Goal
  BY <1>13, <1>a DEF Fail
<1>14. ASSUME NEW j \in Jobs, NEW v \in {"A", "B"}, Fallback(j, v) PROVE Goal
  BY <1>14, <1>a DEF Fallback
<1>15. ASSUME NEW j \in Jobs, NEW m \in Memories, StoreSynthesis(j, m) PROVE Goal
  BY <1>15, <1>a DEF StoreSynthesis, Insert
<1>16. ASSUME NEW j \in Jobs, NEW l \in Memories, ReadLoser(j, l) PROVE Goal
  BY <1>16, <1>a DEF ReadLoser
<1>17. ASSUME NEW j \in Jobs, NEW l \in Memories, Archive(j, l) PROVE Goal
  BY <1>17, <1>a DEF Archive
<1>18. ASSUME Restart PROVE Goal
  BY <1>18, <1>a DEF Restart
<1>19. ASSUME UNCHANGED vars PROVE Goal
  BY <1>19, <1>a DEF vars
<1>20. QED
  BY <1>1, <1>2, <1>3, <1>4, <1>5, <1>7, <1>8, <1>9, <1>10, <1>11, <1>12, <1>13, <1>14, <1>15, <1>16, <1>17, <1>18, <1>19 DEF Next, Start, Progress

LEMMA MergeHoldsStep ==
  ASSUME Alone, TypeOK, StoredInv, MergeHolds, [Next]_vars
  PROVE  MergeHolds'
<1> USE DEF TypeOK, rows, merge, MergeHolds, Live
<1>a. \A m \in Memories : holds[m] \in Copies /\ AtMost(holds[m], holds[m])
  BY AtMostSelf
<1>s. /\ MergeStored
      /\ \A j \in Jobs : jpc[j] \in {"read", "add"} =>
           \A l \in gone[j] : l \in Memories /\ status[l] # "none"
  BY Roles DEF StoredInv, MergeStored, PairStored, Working, Exists, Members
<1>b. \A i, j \in Jobs : i = j
  BY DEF Alone
<1>1. ASSUME NEW m \in Memories, Store(m) PROVE MergeHolds'
  BY <1>1, <1>s DEF Store, Insert, MergeStored
<1>2. ASSUME NEW m \in Memories, Delete(m) PROVE MergeHolds'
  BY <1>2, <1>s DEF Delete
<1>3. ASSUME NEW j \in Jobs, NEW d \in DryRuns, NEW S \in SUBSET Pairs, StartSweep(j, d, S)
      PROVE MergeHolds'
  BY <1>3, <1>s DEF StartSweep
<1>4. ASSUME NEW j \in Jobs, NEW m \in Memories, NEW o \in Memories, StartGate(j, m, o)
      PROVE MergeHolds'
  BY <1>4, <1>s DEF StartGate, Insert, MergeStored
<1>5. ASSUME NEW j \in Jobs, NEW p \in Pairs, Lookup(j, p) PROVE MergeHolds'
  BY <1>5, <1>s DEF Lookup
<1>7. ASSUME NEW j \in Jobs, Fetch(j) PROVE MergeHolds'
  BY <1>7, <1>s DEF Fetch
<1>8. ASSUME NEW j \in Jobs, NEW v \in Answers, Ask(j, v) PROVE MergeHolds'
  BY <1>8, <1>s DEF Ask
<1>9. ASSUME NEW j \in Jobs, Record(j) PROVE MergeHolds'
  BY <1>9, <1>s DEF Record
<1>10. ASSUME NEW j \in Jobs, Decide(j) PROVE MergeHolds'
  <2>1. /\ status' = status /\ jpc'[j] # "add" /\ (jpc'[j] = "read" => gone'[j] = from'[j])
    <3>1. CASE ~Executes(j) \/ got[j] \in {"synthesize", "no text"}
      BY <1>10, <3>1 DEF Decide
    <3>2. CASE Executes(j) /\ got[j] \notin {"synthesize", "no text"}
      <4>1. /\ jpc' = [jpc EXCEPT ![j] = "read"]
            /\ from' = [from EXCEPT ![j] = {Loser(pair[j], got[j])}]
            /\ gone' = [gone EXCEPT ![j] = {Loser(pair[j], got[j])}]
        BY <1>10, <3>2 DEF Decide
      <4>2. QED BY <1>10, <4>1 DEF Decide
    <3>3. QED BY <3>1, <3>2
  <2>2. QED BY <1>b, <2>1
<1>11. ASSUME NEW j \in Jobs, AddWeights(j) PROVE MergeHolds'
  <2>1. /\ jpc[j] = "add" /\ UNCHANGED <<status, into, gone, from>>
        /\ into[j] \notin gone[j] /\ into[j] \in Memories /\ held[j] \in Copies
    BY <1>11, <1>s DEF AddWeights, MergeStored
  <2>2. SUFFICES ASSUME NEW l \in gone[j] \ from[j], status[l] = "live", status[into[j]] = "live"
                 PROVE  AtMost(holds'[l], holds'[into[j]])
    BY <1>b, <2>1
  <2>3. /\ l \in Memories /\ holds'[l] = holds[l]
        /\ holds'[into[j]] = [k \in Memories |-> Capped(holds[into[j]][k] + held[j][k])]
    BY <1>11, <1>s, <2>1, <2>2 DEF AddWeights
  <2>4. /\ AtMost(holds[into[j]], holds'[into[j]]) /\ AtMost(held[j], holds'[into[j]])
        /\ holds'[into[j]] \in Copies
    <3>1. holds[into[j]] \in Copies
      BY <1>a, <2>1
    <3>2. [k \in Memories |-> Capped(holds[into[j]][k] + held[j][k])] \in Copies
      BY <2>1, <3>1, CopiesType
    <3>3. /\ AtMost(holds[into[j]], [k \in Memories |-> Capped(holds[into[j]][k] + held[j][k])])
          /\ AtMost(held[j], [k \in Memories |-> Capped(holds[into[j]][k] + held[j][k])])
      BY <2>1, <3>1, CappedSum
    <3>4. QED BY <2>3, <3>2, <3>3, Zenon
  <2>5. AtMost(holds[l], holds[into[j]]) \/ held[j] = holds[l]
    BY <2>1, <2>2
  <2>6. QED BY <1>a, <2>1, <2>3, <2>4, <2>5, AtMostTransitive
<1>12. ASSUME NEW j \in Jobs, Finish(j) PROVE MergeHolds'
  BY <1>12, <1>s DEF Finish
<1>13. ASSUME NEW j \in Jobs, Fail(j) PROVE MergeHolds'
  BY <1>13, <1>s DEF Fail
<1>14. ASSUME NEW j \in Jobs, NEW v \in {"A", "B"}, Fallback(j, v) PROVE MergeHolds'
  BY <1>14, <1>s DEF Fallback
<1>15. ASSUME NEW j \in Jobs, NEW m \in Memories, StoreSynthesis(j, m) PROVE MergeHolds'
  <2>1. jpc'[j] = "read" /\ gone'[j] = from'[j]
    BY <1>15 DEF StoreSynthesis
  <2>2. QED BY <1>b, <2>1
<1>16. ASSUME NEW j \in Jobs, NEW l \in Memories, ReadLoser(j, l) PROVE MergeHolds'
  BY <1>16, <1>s DEF ReadLoser
<1>17. ASSUME NEW j \in Jobs, NEW l \in Memories, Archive(j, l) PROVE MergeHolds'
  BY <1>17, <1>s DEF Archive
<1>18. ASSUME Restart PROVE MergeHolds'
  BY <1>18, <1>s DEF Restart
<1>19. ASSUME UNCHANGED vars PROVE MergeHolds'
  BY <1>19 DEF vars
<1>20. QED
  <2> HIDE DEF MergeHolds
  <2>1. QED BY <1>1, <1>2, <1>3, <1>4, <1>5, <1>7, <1>8, <1>9, <1>10, <1>11, <1>12, <1>13, <1>14, <1>15, <1>16, <1>17, <1>18, <1>19 DEF Next, Start, Progress

LEMMA DeletedStays ==
  ASSUME TypeOK, [Next]_vars
  PROVE  \A m \in Memories : status[m] = "deleted" => status'[m] = "deleted"
<1> DEFINE Goal == \A m \in Memories : status[m] = "deleted" => status'[m] = "deleted"
<1> USE DEF TypeOK, rows, merge
<1>1. ASSUME NEW m \in Memories, Store(m) PROVE Goal
  BY <1>1 DEF Store, Insert
<1>2. ASSUME NEW m \in Memories, Delete(m) PROVE Goal
  BY <1>2 DEF Delete
<1>3. ASSUME NEW j \in Jobs, NEW d \in DryRuns, NEW S \in SUBSET Pairs, StartSweep(j, d, S)
      PROVE Goal
  BY <1>3 DEF StartSweep
<1>4. ASSUME NEW j \in Jobs, NEW m \in Memories, NEW o \in Memories, StartGate(j, m, o)
      PROVE Goal
  BY <1>4 DEF StartGate, Insert
<1>5. ASSUME NEW j \in Jobs, NEW p \in Pairs, Lookup(j, p) PROVE Goal
  BY <1>5 DEF Lookup
<1>7. ASSUME NEW j \in Jobs, Fetch(j) PROVE Goal
  BY <1>7 DEF Fetch
<1>8. ASSUME NEW j \in Jobs, NEW v \in Answers, Ask(j, v) PROVE Goal
  BY <1>8 DEF Ask
<1>9. ASSUME NEW j \in Jobs, Record(j) PROVE Goal
  BY <1>9 DEF Record
<1>10. ASSUME NEW j \in Jobs, Decide(j) PROVE Goal
  BY <1>10 DEF Decide
<1>11. ASSUME NEW j \in Jobs, AddWeights(j) PROVE Goal
  BY <1>11 DEF AddWeights
<1>12. ASSUME NEW j \in Jobs, Finish(j) PROVE Goal
  BY <1>12 DEF Finish
<1>13. ASSUME NEW j \in Jobs, Fail(j) PROVE Goal
  BY <1>13 DEF Fail
<1>14. ASSUME NEW j \in Jobs, NEW v \in {"A", "B"}, Fallback(j, v) PROVE Goal
  BY <1>14 DEF Fallback
<1>15. ASSUME NEW j \in Jobs, NEW m \in Memories, StoreSynthesis(j, m) PROVE Goal
  BY <1>15 DEF StoreSynthesis, Insert
<1>16. ASSUME NEW j \in Jobs, NEW l \in Memories, ReadLoser(j, l) PROVE Goal
  BY <1>16 DEF ReadLoser
<1>17. ASSUME NEW j \in Jobs, NEW l \in Memories, Archive(j, l) PROVE Goal
  BY <1>17 DEF Archive, Live
<1>18. ASSUME Restart PROVE Goal
  BY <1>18 DEF Restart
<1>19. ASSUME UNCHANGED vars PROVE Goal
  BY <1>19 DEF vars
<1>20. QED
  BY <1>1, <1>2, <1>3, <1>4, <1>5, <1>7, <1>8, <1>9, <1>10, <1>11, <1>12, <1>13, <1>14, <1>15, <1>16, <1>17, <1>18, <1>19 DEF Next, Start, Progress
LEMMA HeirHoldsStep ==
  ASSUME TypeOK, StoredInv, AloneInv, MergeHolds, HeirHoldsAll, [Next]_vars
  PROVE  HeirHoldsAll'
<1>a. \A m \in Memories : holds[m] \in Copies /\ holds'[m] \in Copies /\ heir[m] \in Memories
  BY TypeStep DEF TypeOK
<1>1. SUFFICES ASSUME NEW l \in Archived', status'[heir'[l]] # "deleted"
               PROVE  AtMost(holds'[l], holds'[heir'[l]])
  BY DEF HeirHoldsAll, AtMost
<1>2. l \in Memories /\ status'[l] = "archived"
  BY DEF Archived
<1>3. CASE status[l] = "archived" /\ heir'[l] = heir[l]
  <2>1. l \in Archived /\ status[heir[l]] # "none"
    BY <1>2, <1>3 DEF Archived, StoredInv, HeirStored
  <2>2. status[heir[l]] # "deleted"
    BY <1>1, <1>3, <1>a, <1>2, DeletedStays
  <2>3. AtMost(holds[l], holds[heir[l]])
    BY <2>1, <2>2 DEF HeirHoldsAll, AtMost
  <2>4. holds'[l] = holds[l]
    BY <1>2, <1>3, HoldsGrow DEF Live
  <2>5. AtMost(holds[heir[l]], holds'[heir[l]])
    BY <1>a, <1>2, <2>1, HoldsGrow
  <2>6. QED BY <1>2, <1>3, <1>a, <2>3, <2>4, <2>5, AtMostTransitive
<1>4. CASE \E j \in Jobs : \E k \in Memories : Archive(j, k)
  <2>1. PICK j \in Jobs, k \in Memories : Archive(j, k)
    BY <1>4
  <2>2. CASE k # l \/ ~Live(k)
    BY <1>2, <1>3, <2>1, <2>2 DEF Archive, Live, TypeOK
  <2>3. CASE k = l /\ Live(k)
    <3>1. /\ jpc[j] = "read" /\ l \in gone[j] \ from[j] /\ heir'[l] = into[j]
          /\ into[j] \in Memories /\ into[j] # l /\ holds' = holds
          /\ status[into[j]] \notin {"none", "archived"} /\ status'[into[j]] = status[into[j]]
      BY <2>1, <2>3 DEF Archive, TypeOK, StoredInv, MergeStored, AloneInv, PairUnarchived
    <3>2. Live(into[j])
      BY <1>1, <3>1 DEF TypeOK, Live
    <3>3. AtMost(holds[l], holds[into[j]])
      BY <2>3, <3>1, <3>2 DEF MergeHolds
    <3>4. QED BY <3>1, <3>3
  <2>4. QED BY <2>2, <2>3
<1>5. QED BY <1>2, <1>3, <1>4, OnlyArchive

(* A single job that previews nothing and never fails loses no weight: an  *)
(* archived row's survivor contains all that the row contains.             *)
THEOREM AloneKeepsWeights ==
  ASSUME Alone
  PROVE  Spec => []HeirHoldsAll
<1>1. Init => MergeHolds /\ HeirHoldsAll
  BY DEF Init, MergeHolds, HeirHoldsAll, Archived
<1>2. /\ TypeOK /\ StoredInv /\ AloneInv /\ MergeHolds /\ HeirHoldsAll /\ [Next]_vars
      => MergeHolds' /\ HeirHoldsAll'
  BY MergeHoldsStep, HeirHoldsStep
<1>3. QED BY <1>1, <1>2, AloneInvariant, PTL DEF Spec
-----------------------------------------------------------------------------
(* Weights are not counted twice.  While a job merges, its survivor may    *)
(* contain what a loser that was read contains too; the loser goes before  *)
(* the job is done.                                                        *)

Shares(m, n) == \E j \in Jobs : Merging(j) /\ m = into[j] /\ n \in gone[j] \ from[j]

LosersUnarchived ==
  \A j \in Jobs : Merging(j) => \A l \in gone[j] : status[l] # "archived"
Fresh ==
  \A k \in Memories : status[k] = "none" =>
    /\ \A m \in Memories : holds[m][k] = 0 /\ holds[k][m] = 0
    /\ \A j \in Jobs : held[j][k] = 0
Once == \A m, k \in Memories : holds[m][k] <= 1
Apart ==
  \A m, n, k \in Memories :
    m # n /\ Live(m) /\ Live(n) /\ holds[m][k] > 0 /\ holds[n][k] > 0
      => Shares(m, n) \/ Shares(n, m)
HeldApart ==
  \A j \in Jobs : jpc[j] = "add" =>
    \A k \in Memories : held[j][k] > 0 =>
      /\ held[j][k] = 1
      /\ \A n \in Memories : Live(n) /\ holds[n][k] > 0 => n \in gone[j] \ from[j]

CountInv == LosersUnarchived /\ Fresh /\ Once /\ Apart /\ HeldApart

SameMerge(j) ==
  /\ jpc'[j] = jpc[j] /\ into'[j] = into[j] /\ gone'[j] = gone[j] /\ from'[j] = from[j]

(* A step of a job that is not merging, and leaves the rows alone.         *)
LEMMA CountQuiet ==
  ASSUME TypeOK, CountInv, UNCHANGED <<status, holds, held>>,
         \A j \in Jobs : (Merging(j) \/ Merging(j)') => SameMerge(j)
  PROVE  CountInv'
BY DEF CountInv, LosersUnarchived, Fresh, Once, Apart, HeldApart, Shares, SameMerge, Merging, Live

(* The only job of the process begins to merge.                            *)
LEMMA CountBegin ==
  ASSUME Alone, TypeOK, CountInv, UNCHANGED <<status, holds, held>>, NEW j \in Jobs,
         ~Merging(j), jpc'[j] = "read", gone'[j] = from'[j],
         \A l \in gone'[j] : status[l] # "archived"
  PROVE  CountInv'
<1>1. \A i \in Jobs : i = j
  BY DEF Alone
<1>2. \A m, n \in Memories : ~Shares(m, n)
  BY <1>1 DEF Shares
<1>3. QED
  BY <1>1, <1>2 DEF CountInv, LosersUnarchived, Fresh, Once, Apart, HeldApart, Merging, Live

(* What an INSERT writes: the row is live and contains itself once.        *)
LEMMA InsertCounts ==
  ASSUME TypeOK, Fresh, NEW m \in Memories, Insert(m)
  PROVE  /\ status[m] = "none" /\ status'[m] = "live" /\ holds'[m][m] = 1
         /\ \A k \in Memories : k # m => holds'[m][k] = 0
         /\ \A n \in Memories : n # m => status'[n] = status[n] /\ holds'[n] = holds[n]
         /\ \A n \in Memories : n # m => holds'[n][m] = 0
         /\ \A j \in Jobs : held[j][m] = 0
BY DEF Insert, TypeOK, Fresh, Copies

(* A new row, of a job that does not merge or of nobody.                   *)
LEMMA CountInsert ==
  ASSUME TypeOK, StoredInv, CountInv, NEW m \in Memories, Insert(m), held' = held,
         \A j \in Jobs : (Merging(j) \/ Merging(j)') => SameMerge(j)
  PROVE  CountInv'
<1>1. /\ status[m] = "none" /\ status'[m] = "live" /\ holds'[m][m] = 1
      /\ \A k \in Memories : k # m => holds'[m][k] = 0
      /\ \A n \in Memories : n # m => status'[n] = status[n] /\ holds'[n] = holds[n]
      /\ \A n \in Memories : n # m => holds'[n][m] = 0
      /\ \A j \in Jobs : held[j][m] = 0
  BY InsertCounts DEF CountInv
<1>2. LosersUnarchived'
  BY <1>1 DEF CountInv, LosersUnarchived, SameMerge, Merging, TypeOK
<1>3. Fresh'
  BY <1>1 DEF CountInv, Fresh
<1>4. Once'
  BY <1>1 DEF CountInv, Once
<1>5. Apart'
  <2>1. \A a, b \in Memories : Shares(a, b) => Shares(a, b)'
    BY DEF Shares, SameMerge, Merging
  <2>2. QED BY <1>1, <2>1 DEF CountInv, Apart, Live
<1>6. HeldApart'
  BY <1>1 DEF CountInv, HeldApart, SameMerge, Merging, Live
<1>7. QED BY <1>2, <1>3, <1>4, <1>5, <1>6 DEF CountInv
LEMMA CountRead ==
  ASSUME Alone, TypeOK, StoredInv, CountInv, NEW j \in Jobs, NEW l \in Memories, ReadLoser(j, l)
  PROVE  CountInv'
<1> USE DEF rows
<1>a. \A i \in Jobs : i = j
  BY DEF Alone
<1>1. /\ jpc[j] = "read" /\ l \in from[j] /\ from'[j] = from[j] \ {l}
      /\ into'[j] = into[j] /\ gone'[j] = gone[j]
      /\ UNCHANGED <<status, holds>> /\ Merging(j) /\ Merging(j)'
  BY DEF ReadLoser, TypeOK, Merging
<1>2. /\ l \in gone[j] /\ into[j] \notin gone[j] /\ into[j] \in Memories
      /\ status[l] # "archived"
  BY <1>1 DEF StoredInv, MergeStored, CountInv, LosersUnarchived, TypeOK
<1>3. LosersUnarchived'
  BY <1>1, <1>a DEF CountInv, LosersUnarchived
<1>4. Apart'
  <2>1. \A a, b \in Memories : Shares(a, b) => Shares(a, b)'
    BY <1>1, <1>a DEF Shares
  <2>2. QED BY <1>1, <2>1 DEF CountInv, Apart, Live
<1>5. CASE status[l] \in {"live", "archived"}
  <2>1. status[l] = "live" /\ held'[j] = holds[l]
    BY <1>2, <1>5 DEF ReadLoser, TypeOK
  <2>2. Fresh'
    BY <1>1, <1>a, <2>1 DEF CountInv, Fresh
  <2>3. HeldApart'
    <3>1. ASSUME NEW k \in Memories, holds[l][k] > 0
          PROVE  /\ holds[l][k] = 1
                 /\ \A n \in Memories : Live(n) /\ holds[n][k] > 0 => n \in gone[j] \ from'[j]
      <4>1. holds[l][k] = 1
        BY <3>1 DEF CountInv, Once, TypeOK, Copies
      <4>2. ASSUME NEW n \in Memories, Live(n), holds[n][k] > 0, n # l
            PROVE  n \in gone[j] \ from[j]
        <5>1. Shares(n, l) \/ Shares(l, n)
          BY <2>1, <3>1, <4>2 DEF CountInv, Apart, Live
        <5>2. QED BY <1>1, <1>2, <1>a, <5>1 DEF Shares
      <4>3. QED BY <1>1, <1>2, <4>1, <4>2
    <3>2. QED BY <1>1, <1>a, <2>1, <3>1 DEF HeldApart, Live
  <2>4. QED BY <1>1, <1>3, <1>4, <2>2, <2>3 DEF CountInv, Once
<1>6. CASE status[l] \notin {"live", "archived"}
  <2>1. held' = held /\ jpc' = jpc
    BY <1>6 DEF ReadLoser
  <2>2. Fresh' /\ HeldApart'
    BY <1>1, <1>a, <2>1 DEF CountInv, Fresh, HeldApart
  <2>3. QED BY <1>1, <1>3, <1>4, <2>2 DEF CountInv, Once
<1>7. QED BY <1>5, <1>6

LEMMA CountAdd ==
  ASSUME Alone, TypeOK, StoredInv, CountInv, NEW j \in Jobs, AddWeights(j)
  PROVE  CountInv'
<1>a. \A i \in Jobs : i = j
  BY DEF Alone
<1> DEFINE s == into[j]
<1>1. /\ jpc[j] = "add" /\ jpc'[j] = "read" /\ Merging(j) /\ Merging(j)'
      /\ UNCHANGED <<status, into, from, gone>> /\ held'[j] = Nothing
  BY DEF AddWeights, TypeOK, Merging
<1>2. s \in Memories /\ s \notin gone[j] /\ status[s] # "none"
  BY <1>1 DEF StoredInv, MergeStored, TypeOK
<1>3. /\ \A m \in Memories : m # s => holds'[m] = holds[m]
      /\ ~Live(s) => holds'[s] = holds[s]
      /\ Live(s) => \A k \in Memories : holds'[s][k] = Capped(holds[s][k] + held[j][k])
  BY <1>2 DEF AddWeights, TypeOK
<1>4. Live(s) => \A k \in Memories :
        holds'[s][k] = IF held[j][k] > 0 THEN 1 ELSE holds[s][k]
  <2> SUFFICES ASSUME Live(s), NEW k \in Memories
               PROVE  holds'[s][k] = IF held[j][k] > 0 THEN 1 ELSE holds[s][k]
    OBVIOUS
  <2>1. /\ holds'[s][k] = Capped(holds[s][k] + held[j][k])
        /\ holds[s][k] \in 0..MaxCopies /\ held[j][k] \in 0..MaxCopies
    BY <1>2, <1>3 DEF TypeOK, Copies
  <2>2. held[j][k] > 0 => held[j][k] = 1 /\ ~(holds[s][k] > 0)
    BY <1>1, <1>2 DEF CountInv, HeldApart
  <2>3. QED BY <2>1, <2>2, CopiesAssumption DEF Capped
<1>5. LosersUnarchived' /\ HeldApart'
  BY <1>1, <1>a DEF CountInv, LosersUnarchived, HeldApart
<1>6. Fresh'
  <2>1. ASSUME NEW k \in Memories, status[k] = "none"
        PROVE  \A m \in Memories : holds'[m][k] = 0 /\ holds'[k][m] = 0
    <3>1. k # s /\ held[j][k] = 0 /\ \A m \in Memories : holds[m][k] = 0 /\ holds[k][m] = 0
      BY <1>2, <2>1 DEF CountInv, Fresh
    <3>2. QED BY <1>2, <1>3, <1>4, <3>1
  <2>2. QED BY <1>1, <1>a, <2>1 DEF Fresh, Nothing
<1>7. Once'
  <2>1. \A m, k \in Memories : holds[m][k] <= 1
    BY DEF CountInv, Once
  <2>2. QED BY <1>2, <1>3, <1>4, <2>1 DEF Once
<1>8. Apart'
  <2>1. \A a, b \in Memories : Shares(a, b)' <=> Shares(a, b)
    BY <1>1, <1>a DEF Shares
  <2>2. ASSUME NEW n \in Memories, n # s, Live(s), Live(n), NEW k \in Memories,
               holds'[s][k] > 0, holds[n][k] > 0
        PROVE  Shares(s, n) \/ Shares(n, s)
    <3>1. CASE held[j][k] > 0
      <4>1. n \in gone[j] \ from[j]
        BY <1>1, <2>2, <3>1 DEF CountInv, HeldApart
      <4>2. QED BY <1>1, <4>1 DEF Shares
    <3>2. CASE ~(held[j][k] > 0)
      BY <1>2, <1>4, <2>2, <3>2 DEF CountInv, Apart
    <3>3. QED BY <3>1, <3>2
  <2>3. QED BY <1>1, <1>2, <1>3, <2>1, <2>2 DEF CountInv, Apart, Live
<1>9. QED BY <1>5, <1>6, <1>7, <1>8 DEF CountInv

LEMMA CountArchive ==
  ASSUME Alone, TypeOK, StoredInv, CountInv, NEW j \in Jobs, NEW l \in Memories, Archive(j, l)
  PROVE  CountInv'
<1>a. \A i \in Jobs : i = j
  BY DEF Alone
<1>1. /\ jpc[j] = "read" /\ from[j] = {} /\ l \in gone[j] /\ Merging(j)
      /\ gone'[j] = gone[j] \ {l} /\ UNCHANGED <<holds, held, into, from>>
      /\ ~Live(l)' /\ \A m \in Memories : m # l => status'[m] = status[m]
      /\ status'[l] # "none" => status[l] # "none"
      /\ IF gone[j] = {l} THEN jpc'[j] = "next" ELSE jpc'[j] = "read"
  <2>1. status[l] # "none"
    BY Roles DEF Archive, StoredInv, MergeStored, PairStored, Exists, Working, Members, TypeOK
  <2>2. QED BY <2>1 DEF Archive, TypeOK, Merging, Live
<1>2. LosersUnarchived'
  BY <1>1, <1>a DEF CountInv, LosersUnarchived, TypeOK
<1>3. Fresh'
  BY <1>1 DEF CountInv, Fresh, Archive, Live, TypeOK
<1>4. Apart'
  <2>1. ASSUME NEW m \in Memories, NEW n \in Memories, Shares(m, n), Live(n)', Live(n)
        PROVE  Shares(m, n)'
    <3>1. m = into[j] /\ n \in gone[j] /\ n # l
      BY <1>1, <1>a, <2>1 DEF Shares
    <3>2. jpc'[j] = "read"
      BY <1>1, <3>1
    <3>3. QED BY <1>1, <3>1, <3>2 DEF Shares, Merging
  <2>2. \A m \in Memories : Live(m)' => Live(m)
    BY <1>1 DEF Live
  <2>3. QED BY <1>1, <2>1, <2>2 DEF CountInv, Apart
<1>5. HeldApart'
  BY <1>1, <1>a DEF HeldApart
<1>6. QED BY <1>1, <1>2, <1>3, <1>4, <1>5 DEF CountInv, Once
(* The merged text becomes the survivor, and the job begins to merge.      *)
LEMMA CountSynthesis ==
  ASSUME Alone, TypeOK, StoredInv, PairUnarchived, CountInv,
         NEW j \in Jobs, NEW m \in Memories, StoreSynthesis(j, m)
  PROVE  CountInv'
<1>a. \A i \in Jobs : i = j
  BY DEF Alone
<1>1. /\ jpc[j] = "synthesize" /\ ~Merging(j) /\ jpc'[j] = "read" /\ Insert(m) /\ held' = held
      /\ gone'[j] = from'[j] /\ gone'[j] = Members(pair[j])
  BY DEF StoreSynthesis, TypeOK, Merging
<1>2. /\ status[m] = "none" /\ status'[m] = "live" /\ holds'[m][m] = 1
      /\ \A k \in Memories : k # m => holds'[m][k] = 0
      /\ \A n \in Memories : n # m => status'[n] = status[n] /\ holds'[n] = holds[n]
      /\ \A n \in Memories : n # m => holds'[n][m] = 0
      /\ \A i \in Jobs : held[i][m] = 0
  BY <1>1, InsertCounts DEF CountInv
<1>3. LosersUnarchived'
  <2>1. \A l \in Members(pair[j]) : l \in Memories /\ status[l] # "archived"
    BY <1>1, Roles DEF PairUnarchived, Unarchived, Members, TypeOK
  <2>2. QED BY <1>1, <1>2, <1>a, <2>1 DEF LosersUnarchived
<1>4. Fresh'
  BY <1>1, <1>2 DEF CountInv, Fresh
<1>5. Once'
  BY <1>2 DEF CountInv, Once
<1>6. Apart'
  <2>1. \A a, b \in Memories : ~Shares(a, b)
    BY <1>1, <1>a DEF Shares
  <2>2. QED BY <1>2, <2>1 DEF CountInv, Apart, Live
<1>7. HeldApart'
  BY <1>1, <1>a DEF HeldApart
<1>8. QED BY <1>3, <1>4, <1>5, <1>6, <1>7 DEF CountInv

LEMMA CountStep ==
  ASSUME Alone, TypeOK, StoredInv, AloneInv, CountInv, [Next]_vars
  PROVE  CountInv'
<1>a. \A i, j \in Jobs : i = j
  BY DEF Alone
<1>p. PairUnarchived
  BY DEF AloneInv
<1> USE DEF rows, merge
<1>1. ASSUME NEW m \in Memories, Store(m) PROVE CountInv'
  <2>1. Insert(m) /\ held' = held /\ \A j \in Jobs : SameMerge(j)
    BY <1>1 DEF Store, SameMerge
  <2>2. QED BY <2>1, CountInsert
<1>2. ASSUME NEW m \in Memories, Delete(m) PROVE CountInv'
  <2>1. /\ UNCHANGED <<holds, held, jpc, into, from, gone>>
        /\ status[m] # "none" /\ status'[m] = "deleted"
        /\ \A n \in Memories : n # m => status'[n] = status[n]
    BY <1>2 DEF Delete, TypeOK
  <2>2. \A n \in Memories : status'[n] \in {"none", "live", "archived"} => status'[n] = status[n]
    BY <2>1
  <2>3. LosersUnarchived' /\ Fresh'
    BY <2>1, <2>2 DEF CountInv, LosersUnarchived, Fresh, Merging, TypeOK
  <2>4. Apart'
    BY <2>1, <2>2 DEF CountInv, Apart, Shares, Merging, Live
  <2>5. HeldApart' /\ Once'
    BY <2>1, <2>2 DEF CountInv, HeldApart, Once, Live
  <2>6. QED BY <2>3, <2>4, <2>5 DEF CountInv
<1>3. ASSUME NEW j \in Jobs, NEW d \in DryRuns, NEW S \in SUBSET Pairs, StartSweep(j, d, S)
      PROVE CountInv'
  <2>1. /\ UNCHANGED <<status, holds, held>> /\ ~Merging(j) /\ ~Merging(j)'
    BY <1>3 DEF StartSweep, Merging, TypeOK
  <2>2. QED BY <1>a, <2>1, CountQuiet
<1>4. ASSUME NEW j \in Jobs, NEW m \in Memories, NEW o \in Memories, StartGate(j, m, o)
      PROVE CountInv'
  <2>1. Insert(m) /\ held' = held /\ ~Merging(j) /\ ~Merging(j)'
    BY <1>4 DEF StartGate, Merging, TypeOK
  <2>2. QED BY <1>a, <2>1, CountInsert
<1>5. ASSUME NEW j \in Jobs, NEW p \in Pairs, Lookup(j, p) PROVE CountInv'
  <2>1. /\ UNCHANGED <<status, holds, held>> /\ ~Merging(j) /\ ~Merging(j)'
    BY <1>5 DEF Lookup, Merging, TypeOK
  <2>2. QED BY <1>a, <2>1, CountQuiet
<1>7. ASSUME NEW j \in Jobs, Fetch(j) PROVE CountInv'
  <2>1. /\ UNCHANGED <<status, holds, held>> /\ ~Merging(j) /\ ~Merging(j)'
    BY <1>7 DEF Fetch, Merging, TypeOK
  <2>2. QED BY <1>a, <2>1, CountQuiet
<1>8. ASSUME NEW j \in Jobs, NEW v \in Answers, Ask(j, v) PROVE CountInv'
  <2>1. /\ UNCHANGED <<status, holds, held>> /\ ~Merging(j) /\ ~Merging(j)'
    BY <1>8 DEF Ask, Merging, TypeOK
  <2>2. QED BY <1>a, <2>1, CountQuiet
<1>9. ASSUME NEW j \in Jobs, Record(j) PROVE CountInv'
  <2>1. /\ UNCHANGED <<status, holds, held>> /\ ~Merging(j) /\ ~Merging(j)'
    BY <1>9 DEF Record, Merging, TypeOK
  <2>2. QED BY <1>a, <2>1, CountQuiet
<1>10. ASSUME NEW j \in Jobs, Decide(j) PROVE CountInv'
  <2>0. UNCHANGED <<status, holds, held>> /\ jpc[j] = "decide" /\ ~Merging(j)
    BY <1>10 DEF Decide, Merging
  <2>1. CASE ~Executes(j) \/ got[j] \in {"synthesize", "no text"}
    <3>1. jpc'[j] \in {"next", "synthesize", "fallback"}
      BY <1>10, <2>1 DEF Decide, TypeOK
    <3>2. QED BY <1>a, <2>0, <3>1, CountQuiet DEF Merging
  <2>2. CASE Executes(j) /\ got[j] \notin {"synthesize", "no text"}
    <3>1. /\ jpc' = [jpc EXCEPT ![j] = "read"]
          /\ from' = [from EXCEPT ![j] = {Loser(pair[j], got[j])}]
          /\ gone' = [gone EXCEPT ![j] = {Loser(pair[j], got[j])}]
      BY <1>10, <2>2 DEF Decide
    <3>2. status[Loser(pair[j], got[j])] # "archived"
      <4>1. Unarchived(pair[j]) /\ Loser(pair[j], got[j]) \in Members(pair[j])
        BY <1>p, <2>0, <2>2, Roles DEF PairUnarchived, Executes, TypeOK
      <4>2. QED BY <4>1 DEF Unarchived, Members
    <3>3. jpc'[j] = "read" /\ gone'[j] = from'[j] /\ gone'[j] = {Loser(pair[j], got[j])}
      BY <3>1 DEF TypeOK
    <3>4. QED BY <2>0, <3>2, <3>3, CountBegin
  <2>3. QED BY <2>1, <2>2
<1>11. ASSUME NEW j \in Jobs, AddWeights(j) PROVE CountInv'
  BY <1>11, CountAdd
<1>12. ASSUME NEW j \in Jobs, Finish(j) PROVE CountInv'
  <2>1. /\ UNCHANGED <<status, holds, held>> /\ ~Merging(j) /\ ~Merging(j)'
    BY <1>12 DEF Finish, Merging, TypeOK
  <2>2. QED BY <1>a, <2>1, CountQuiet
<1>13. ASSUME NEW j \in Jobs, Fail(j) PROVE CountInv'
  BY <1>13 DEF Fail, Alone
<1>14. ASSUME NEW j \in Jobs, NEW v \in {"A", "B"}, Fallback(j, v) PROVE CountInv'
  <2>0. UNCHANGED <<status, holds, held>> /\ jpc[j] = "fallback" /\ ~Merging(j)
    BY <1>14 DEF Fallback, Merging
  <2>1. CASE BothLive(pair[j])
    <3>0. /\ jpc' = [jpc EXCEPT ![j] = "read"]
          /\ from' = [from EXCEPT ![j] = {Loser(pair[j], v)}]
          /\ gone' = [gone EXCEPT ![j] = {Loser(pair[j], v)}]
      BY <1>14, <2>1 DEF Fallback
    <3>1. jpc'[j] = "read" /\ gone'[j] = from'[j] /\ gone'[j] = {Loser(pair[j], v)}
      BY <3>0 DEF TypeOK
    <3>2. status[Loser(pair[j], v)] # "archived"
      BY <2>1, Roles DEF BothLive, Live, Members, TypeOK
    <3>3. QED BY <2>0, <3>1, <3>2, CountBegin
  <2>2. CASE ~BothLive(pair[j])
    <3>1. jpc'[j] = "next"
      BY <1>14, <2>2 DEF Fallback, TypeOK
    <3>2. QED BY <1>a, <2>0, <3>1, CountQuiet DEF Merging
  <2>3. QED BY <2>1, <2>2
<1>15. ASSUME NEW j \in Jobs, NEW m \in Memories, StoreSynthesis(j, m) PROVE CountInv'
  BY <1>15, CountSynthesis DEF AloneInv
<1>16. ASSUME NEW j \in Jobs, NEW l \in Memories, ReadLoser(j, l) PROVE CountInv'
  BY <1>16, CountRead
<1>17. ASSUME NEW j \in Jobs, NEW l \in Memories, Archive(j, l) PROVE CountInv'
  BY <1>17, CountArchive
<1>18. ASSUME Restart PROVE CountInv'
  BY <1>18 DEF Restart, Alone
<1>19. ASSUME UNCHANGED vars PROVE CountInv'
  BY <1>19, CountQuiet DEF vars, SameMerge
<1>20. QED
  BY <1>1, <1>2, <1>3, <1>4, <1>5, <1>7, <1>8, <1>9, <1>10, <1>11, <1>12, <1>13, <1>14, <1>15, <1>16, <1>17, <1>18, <1>19 DEF Next, Start, Progress

(* A single job that previews nothing and never fails never counts a       *)
(* weight twice: between two merges the weight a memory was stored with is *)
(* contained in one live row at most, and there once.                      *)
THEOREM AloneCountsOnce ==
  ASSUME Alone
  PROVE  Spec => []CountedOnce
<1>1. Init => CountInv
  BY CopiesAssumption DEF Init, CountInv, LosersUnarchived, Fresh, Once, Apart, HeldApart, Merging,
     Live, Nothing
<1>2. TypeOK /\ StoredInv /\ AloneInv /\ CountInv /\ [Next]_vars => CountInv'
  BY CountStep
<1>3. TypeOK /\ CountInv => CountedOnce
  <2> SUFFICES ASSUME TypeOK, CountInv, \A j \in Jobs : ~Merging(j),
                      NEW k \in Memories, NEW m \in Memories, Live(m), holds[m][k] > 0
               PROVE  /\ holds[m][k] = 1
                      /\ \A n \in Memories : Live(n) /\ holds[n][k] > 0 => n = m
    BY DEF CountedOnce
  <2>1. holds[m][k] = 1
    BY DEF TypeOK, Copies, CountInv, Once
  <2>2. QED BY <2>1 DEF CountInv, Apart, Shares
<1>4. QED BY <1>1, <1>2, <1>3, AloneInvariant, PTL DEF Spec
-----------------------------------------------------------------------------
(* The ideas stay a partition.  Where survivor_id leads: on from an        *)
(* archived memory, nowhere from any other.                                *)

LEMMA LeadsOn ==
  ASSUME TypeOK, NEW k \in Memories, NEW m \in Memories, status[k] = "archived", k # m
  PROVE  Leads(k, m) <=> Leads(heir[k], m)
<1>1. heir[k] \in Memories BY DEF TypeOK
<1>2. ASSUME Leads(heir[k], m) PROVE Leads(k, m)
  BY <1>1, <1>2 DEF Leads
<1>3. ASSUME Leads(k, m), NEW S \in SUBSET (Memories \ {m}), heir[k] \in S
      PROVE  \E l \in S : status[l] = "archived" /\ heir[l] \notin S
  <2>1. S \cup {k} \in SUBSET (Memories \ {m}) OBVIOUS
  <2>2. PICK l \in S \cup {k} : status[l] = "archived" /\ heir[l] \notin S \cup {k}
    BY <1>3, <2>1 DEF Leads
  <2> QED BY <1>3, <2>2
<1> QED BY <1>2, <1>3 DEF Leads

LEMMA LeadsNowhere ==
  ASSUME NEW k \in Memories, NEW m \in Memories, status[k] # "archived"
  PROVE  Leads(k, m) <=> k = m
<1>1. ASSUME Leads(k, m), k # m PROVE FALSE
  <2>1. {k} \in SUBSET (Memories \ {m}) BY <1>1
  <2> QED BY <1>1, <2>1 DEF Leads
<1>2. Leads(k, k) BY DEF Leads
<1> QED BY <1>1, <1>2

(* If no idea is lost, every memory leads to one that is not archived, and *)
(* to one only.                                                            *)
HomesRight ==
  \A k, m \in Memories : Home(k) \in Memories /\ (Found(k, m) <=> Home(k) = m)

LEMMA HomesAreRight == TypeOK /\ NoIdeaLost => HomesRight
<1> SUFFICES ASSUME TypeOK, NoIdeaLost PROVE HomesRight OBVIOUS
<1>0. heir \in [Memories -> Memories] BY DEF TypeOK
<1>1. ASSUME NEW k \in Memories PROVE \E m \in Memories : Found(k, m)
  <2> DEFINE S == {x \in Memories : \A m \in Memories : ~Found(x, m)}
  <2>1. S \subseteq Archived BY LeadsNowhere DEF Found, Archived
  <2>2. ASSUME NEW x \in S PROVE heir[x] \in S
    <3>1. x \in Memories /\ status[x] = "archived" /\ heir[x] \in Memories
      BY <1>0, <2>1 DEF Archived
    <3>2. ASSUME NEW m \in Memories, Found(heir[x], m) PROVE FALSE
      BY <2>2, <3>1, <3>2, LeadsOn DEF Found
    <3> QED BY <3>1, <3>2
  <2>3. S = {} BY <2>1, <2>2 DEF NoIdeaLost
  <2> QED BY <2>3
<1>2. ASSUME NEW k \in Memories, NEW m \in Memories, NEW n \in Memories,
             Found(k, m), Found(k, n), m # n
      PROVE  FALSE
  <2> DEFINE S == {x \in Memories : Found(x, m) /\ Found(x, n)}
  <2>1. S \subseteq Archived
    BY <1>2, LeadsNowhere DEF Found, Archived
  <2>2. ASSUME NEW x \in S PROVE heir[x] \in S
    BY <1>0, <2>1, <2>2, LeadsOn DEF Found, Archived
  <2>3. k \in S BY <1>2
  <2> QED BY <2>1, <2>2, <2>3 DEF NoIdeaLost
<1>3. ASSUME NEW k \in Memories PROVE Home(k) \in Memories /\ Found(k, Home(k))
  <2>1. CASE status[k] # "archived"
    BY <2>1, LeadsNowhere DEF Home, Found
  <2>2. CASE status[k] = "archived"
    <3>1. Home(k) = CHOOSE m \in Memories : Found(k, m) BY <1>1, <2>2 DEF Home
    <3> QED BY <1>1, <3>1
  <2> QED BY <2>1, <2>2
<1> QED BY <1>2, <1>3 DEF HomesRight

(* A memory that is stored leads to one that is stored.                    *)
LEMMA HomeKnown ==
  ASSUME TypeOK, StoredInv, HomesRight, NEW k \in Memories, status[k] # "none"
  PROVE  Home(k) \in Memories /\ status[Home(k)] # "none"
<1> DEFINE S == {x \in Memories : status[x] # "none"}
<1>1. Home(k) \in Memories /\ Leads(k, Home(k)) BY DEF HomesRight, Found
<1>2. \A l \in S : status[l] = "archived" => heir[l] \in S
  BY DEF StoredInv, HeirStored, Archived, TypeOK
<1>3. S \in SUBSET (Memories \ {Home(k)}) => FALSE
  BY <1>1, <1>2 DEF Leads
<1> QED BY <1>1, <1>3

Homes == [k \in Memories |-> Home(k)]
Known == {m \in Memories : status[m] # "none"}
Deleted == {m \in Memories : status[m] = "deleted"}

LEMMA SameHomes ==
  ASSUME HomesRight, HomesRight', heir' = heir,
         \A l \in Memories : status'[l] = "archived" <=> status[l] = "archived"
  PROVE  Homes' = Homes
<1>1. ASSUME NEW k \in Memories PROVE Home(k)' = Home(k)
  <2>1. PICK h \in Memories : h = Home(k) /\ Found(k, h) BY DEF HomesRight
  <2>2. Found(k, h)' BY <2>1 DEF Found, Leads
  <2> QED BY <2>1, <2>2 DEF HomesRight
<1> QED BY <1>1 DEF Homes

(* A new row: an idea that is its own home.                                *)
LEMMA InsertNew ==
  ASSUME TypeOK, HomesRight, HomesRight', NEW m \in Memories, Insert(m)
  PROVE  Partition!New(m)
<1>1. status' = [status EXCEPT ![m] = "live"] /\ status[m] = "none" /\ heir' = heir
  BY DEF Insert
<1>2. Homes' = Homes BY <1>1, SameHomes DEF TypeOK
<1>3. m \notin Known /\ Known' = Known \cup {m} /\ Deleted' = Deleted
  BY <1>1 DEF Known, Deleted, TypeOK
<1> QED BY <1>2, <1>3 DEF Partition!New, Homes, Known, Deleted

(* A live loser is archived: all that led to it leads on to the home of    *)
(* the survivor, which cannot be the loser itself.                         *)
LEMMA ArchiveJoins ==
  ASSUME TypeOK, StoredInv, HomesRight, HomesRight', NoIdeaLost',
         NEW l \in Memories, Live(l), NEW b \in Memories, status[b] # "none",
         status' = [status EXCEPT ![l] = "archived"], heir' = [heir EXCEPT ![l] = b]
  PROVE  \E c \in Memories : Partition!Join(l, c)
<1>1. PICK h \in Memories : h = Home(b) /\ status[h] # "none" /\ Found(b, h)
  BY HomeKnown DEF HomesRight
<1>2. /\ status[l] = "live" /\ status'[l] = "archived" /\ heir'[l] = b
      /\ \A x \in Memories \ {l} : status'[x] = status[x] /\ heir'[x] = heir[x]
      /\ heir \in [Memories -> Memories]
  BY DEF TypeOK, Live
<1>3. Home(l) = l BY <1>2, LeadsNowhere DEF HomesRight, Found
<1>4. Home(h) = h BY <1>1, LeadsNowhere DEF HomesRight, Found
<1>5. h # l
  <2> SUFFICES ASSUME Home(b) = l PROVE FALSE BY <1>1
  <2> DEFINE S == {x \in Memories : Home(x) = l}
  <2>1. ASSUME NEW x \in S PROVE x = l \/ status[x] = "archived"
    BY <2>1, LeadsNowhere DEF HomesRight, Found
  <2>2. S \subseteq Archived' BY <1>2, <2>1 DEF Archived
  <2>3. ASSUME NEW x \in S PROVE heir'[x] \in S
    <3>1. CASE x = l BY <1>2, <3>1
    <3>2. CASE x # l
      <4>1. status[x] = "archived" /\ heir'[x] = heir[x] /\ heir[x] \in Memories
        BY <1>2, <2>1, <3>2
      <4>2. Found(x, l) BY <2>3 DEF HomesRight
      <4>3. Found(heir[x], l) BY <3>2, <4>1, <4>2, LeadsOn DEF Found
      <4> QED BY <4>1, <4>3 DEF HomesRight
    <3> QED BY <3>1, <3>2
  <2>4. l \in S BY <1>3
  <2> QED BY <2>2, <2>3, <2>4 DEF NoIdeaLost
<1>6. ASSUME NEW k \in Memories, Home(k) # l PROVE Home(k)' = Home(k)
  <2>1. PICK r \in Memories : r = Home(k) /\ Found(k, r) BY DEF HomesRight
  <2>2. status'[r] # "archived" BY <1>2, <1>6, <2>1 DEF Found
  <2>3. ASSUME NEW S \in SUBSET (Memories \ {r}), k \in S
        PROVE  \E x \in S : status'[x] = "archived" /\ heir'[x] \notin S
    <3>1. PICK x \in S : status[x] = "archived" /\ heir[x] \notin S
      BY <2>1, <2>3 DEF Found, Leads
    <3> QED BY <1>2, <3>1
  <2>4. Found(k, r)' BY <2>2, <2>3 DEF Found, Leads
  <2> QED BY <2>1, <2>4 DEF HomesRight
<1>7. ASSUME NEW k \in Memories, Home(k) = l PROVE Home(k)' = h
  <2>1. Leads(k, l) BY <1>7 DEF HomesRight, Found
  <2>2. status'[h] # "archived" BY <1>1, <1>2, <1>5 DEF Found
  <2>3. ASSUME NEW S \in SUBSET (Memories \ {h}), k \in S
        PROVE  \E x \in S : status'[x] = "archived" /\ heir'[x] \notin S
    <3>1. CASE l \notin S
      <4>1. PICK x \in S : status[x] = "archived" /\ heir[x] \notin S
        BY <2>1, <2>3, <3>1 DEF Leads
      <4> QED BY <1>2, <4>1
    <3>2. CASE l \in S /\ b \notin S BY <1>2, <3>2
    <3>3. CASE b \in S
      <4>1. PICK x \in S : status[x] = "archived" /\ heir[x] \notin S
        BY <1>1, <2>3, <3>3 DEF Found, Leads
      <4> QED BY <1>2, <4>1
    <3> QED BY <3>1, <3>2, <3>3
  <2>4. Found(k, h)' BY <2>2, <2>3 DEF Found, Leads
  <2> QED BY <2>4 DEF HomesRight
<1>8. Homes' = [k \in Memories |-> IF Homes[k] = l THEN h ELSE Homes[k]]
  BY <1>6, <1>7 DEF Homes
<1>9. Known' = Known /\ Deleted' = Deleted /\ l \in Known \ Deleted /\ h \in Known
  BY <1>1, <1>2 DEF Known, Deleted
<1>10. Homes[l] = l /\ Homes[h] = h BY <1>3, <1>4 DEF Homes
<1>11. Partition!Join(l, h)
  BY <1>5, <1>8, <1>9, <1>10 DEF Partition!Join, Homes, Known, Deleted
<1> QED BY <1>11

(* A row is deleted.  If it was archived, what led through it stays there. *)
LEMMA DeleteParts ==
  ASSUME TypeOK, HomesRight, HomesRight', NEW m \in Memories, Delete(m)
  PROVE  \E S \in SUBSET Memories : Partition!Delete(m, S)
<1>1. /\ status[m] \in {"live", "archived"} /\ status'[m] = "deleted" /\ heir' = heir
      /\ \A x \in Memories \ {m} : status'[x] = status[x]
      /\ heir \in [Memories -> Memories]
  BY DEF Delete, TypeOK
<1>2. m \in Known \ Deleted /\ Known' = Known /\ Deleted' = Deleted \cup {m}
  BY <1>1 DEF Known, Deleted
<1>3. CASE status[m] = "live"
  <2>1. Homes' = Homes BY <1>1, <1>3, SameHomes
  <2>2. Homes[m] = m BY <1>3, LeadsNowhere DEF Homes, HomesRight, Found
  <2>0. PICK S \in SUBSET Memories : S = {k \in Memories : Homes[k] = m} OBVIOUS
  <2>3. /\ m \in S /\ S \subseteq Memories
        /\ Homes' = [k \in Memories |-> IF k \in S THEN m ELSE Homes[k]]
    BY <2>0, <2>1, <2>2 DEF Homes
  <2>4. Partition!Delete(m, S)
    BY <1>2, <2>0, <2>2, <2>3 DEF Partition!Delete, Partition!AtHome, Homes, Known, Deleted
  <2> QED BY <2>4
<1>4. CASE status[m] = "archived"
  <2>0. PICK S \in SUBSET Memories : S = {k \in Memories : Leads(k, m)} OBVIOUS
  <2>1. PICK r \in Memories : r = Home(m) /\ Found(m, r) BY DEF HomesRight
  <2>2. r # m /\ r \notin S BY <1>4, <2>0, <2>1, LeadsNowhere DEF Found
  <2>3. m \in S BY <2>0 DEF Leads
  <2>4. ASSUME NEW k \in S PROVE Home(k) = r
    <3>1. Leads(k, r) BY <2>0, <2>1, <2>4 DEF Found, Leads
    <3> QED BY <2>1, <3>1 DEF HomesRight, Found
  <2>5. ASSUME NEW k \in S PROVE Home(k)' = m
    <3>1. Found(k, m)' BY <1>1, <2>0, <2>5 DEF Found, Leads
    <3> QED BY <3>1 DEF HomesRight
  <2>6. ASSUME NEW k \in Memories \ S PROVE Home(k)' = Home(k)
    <3>1. PICK h \in Memories : h = Home(k) /\ Found(k, h) BY DEF HomesRight
    <3>2. PICK U \in SUBSET (Memories \ {m}) :
            k \in U /\ \A x \in U : status[x] = "archived" => heir[x] \in U
      BY <2>0, <2>6 DEF Leads
    <3>3. ASSUME NEW T \in SUBSET (Memories \ {h}), k \in T
          PROVE  \E x \in T : status'[x] = "archived" /\ heir'[x] \notin T
      <4>1. T \cap U \in SUBSET (Memories \ {h}) /\ k \in T \cap U BY <3>2, <3>3
      <4>2. PICK x \in T \cap U : status[x] = "archived" /\ heir[x] \notin T \cap U
        BY <3>1, <4>1 DEF Found, Leads
      <4> QED BY <1>1, <3>2, <4>2
    <3>4. h # m BY <1>4, <3>1 DEF Found
    <3>5. Found(k, h)' BY <1>1, <3>1, <3>3, <3>4 DEF Found, Leads
    <3> QED BY <3>1, <3>5 DEF HomesRight
  <2>7. Homes' = [k \in Memories |-> IF k \in S THEN m ELSE Homes[k]]
    BY <2>5, <2>6 DEF Homes
  <2>8. Homes[m] = r /\ r \notin S /\ r # m /\ S \subseteq {k \in Memories : Homes[k] = r}
    BY <2>1, <2>2, <2>4 DEF Homes
  <2>9. Partition!Delete(m, S)
    BY <1>2, <2>3, <2>7, <2>8 DEF Partition!Delete, Partition!AtHome, Homes, Known, Deleted
  <2> QED BY <2>9
<1> QED BY <1>1, <1>3, <1>4

LEMMA PartitionStep ==
  ASSUME TypeOK, StoredInv, HomesRight, HomesRight', NoIdeaLost', [Next]_vars
  PROVE  [Partition!Next]_(Partition!vars)
<1>1. ASSUME NEW m \in Memories, Insert(m) PROVE Partition!Next
  BY <1>1, InsertNew DEF Partition!Next
<1>2. ASSUME NEW m \in Memories, Delete(m) PROVE Partition!Next
  BY <1>2, DeleteParts DEF Partition!Next
<1>3. ASSUME UNCHANGED <<status, heir>> PROVE UNCHANGED Partition!vars
  <2>1. Homes' = Homes BY <1>3, SameHomes
  <2> QED BY <1>3, <2>1 DEF Partition!vars, Homes
<1>4. ASSUME NEW j \in Jobs, NEW l \in Memories, Archive(j, l)
      PROVE  Partition!Next \/ UNCHANGED <<status, heir>>
  <2>1. CASE Live(l)
    <3>1. into[j] \in Memories /\ status[into[j]] # "none"
      BY <1>4 DEF Archive, StoredInv, MergeStored, TypeOK
    <3>2. \E c \in Memories : Partition!Join(l, c)
      BY <1>4, <2>1, <3>1, ArchiveJoins DEF Archive
    <3> QED BY <3>2 DEF Partition!Next
  <2>2. CASE ~Live(l) BY <1>4, <2>2 DEF Archive
  <2> QED BY <2>1, <2>2
<1>5. \/ UNCHANGED <<status, heir>>
      \/ \E m \in Memories : Insert(m) \/ Delete(m)
      \/ \E j \in Jobs, l \in Memories : Archive(j, l)
  <2>1. ASSUME NEW j \in Jobs, Start(j) \/ Progress(j) \/ Fail(j)
        PROVE  \/ UNCHANGED <<status, heir>>
               \/ \E m \in Memories : Insert(m)
               \/ \E l \in Memories : Archive(j, l)
    <3>1. \/ \E d \in DryRuns, S \in SUBSET Pairs : StartSweep(j, d, S)
          \/ \E p \in Pairs : Lookup(j, p)
          \/ Fetch(j) \/ Record(j) \/ Decide(j) \/ AddWeights(j) \/ Finish(j) \/ Fail(j)
          \/ \E v \in Answers : Ask(j, v)
          \/ \E v \in {"A", "B"} : Fallback(j, v)
          \/ \E m \in Memories : ReadLoser(j, m)
          => UNCHANGED <<status, heir>>
      BY DEF StartSweep, Lookup, Fetch, Record, Decide, AddWeights, Finish, Fail, Ask, Fallback, ReadLoser, rows
    <3>2. ASSUME NEW m \in Memories, NEW o \in Memories, StartGate(j, m, o) PROVE Insert(m)
      BY <3>2 DEF StartGate
    <3>3. ASSUME NEW m \in Memories, StoreSynthesis(j, m) PROVE Insert(m)
      BY <3>3 DEF StoreSynthesis
    <3> QED BY <2>1, <3>1, <3>2, <3>3 DEF Start, Progress
  <2>2. ASSUME NEW m \in Memories, Store(m) PROVE Insert(m) BY <2>2 DEF Store
  <2>3. Restart \/ UNCHANGED vars => UNCHANGED <<status, heir>> BY DEF Restart, vars, rows
  <2> QED BY <2>1, <2>2, <2>3 DEF Next
<1> QED BY <1>1, <1>2, <1>3, <1>4, <1>5

LEMMA PartitionInit ==
  ASSUME Init
  PROVE  Partition!Init
<1>1. \A m \in Memories : status[m] = "none" BY DEF Init
<1>2. \A k \in Memories : Home(k) = k BY <1>1 DEF Home
<1> QED BY <1>1, <1>2 DEF Partition!Init

(* Merging memories keeps the ideas a partition, each with one memory that *)
(* speaks for it: Dedup implements IdeaPartition for any number of racing  *)
(* and failing jobs if the LLM ranks the memories, and for a job that runs *)
(* alone whatever the LLM answers.                                         *)
THEOREM KeepsPartition ==
  ASSUME RankedLLM \/ Alone
  PROVE  Spec => IdeaPartitionSpec
<1>1. Spec => []TypeOK BY TypeCorrect
<1>2. Spec => []StoredInv
  <2>1. Init => StoredInv BY RankInit
  <2>2. TypeOK /\ StoredInv /\ [Next]_vars => StoredInv' BY StoredStep
  <2> QED BY <1>1, <2>1, <2>2, PTL DEF Spec
<1>3. Spec => []NoIdeaLost
  <2>1. CASE RankedLLM BY <2>1, RankedKeepsIdeas
  <2>2. CASE Alone BY <2>2, AloneKeepsIdeas
  <2> QED BY <2>1, <2>2
<1>4. Spec => []HomesRight
  <2>1. TypeOK /\ NoIdeaLost => HomesRight BY HomesAreRight
  <2> QED BY <1>1, <1>3, <2>1, PTL
<1>5. Init => Partition!Init BY PartitionInit
<1>6. TypeOK /\ StoredInv /\ HomesRight /\ HomesRight' /\ NoIdeaLost' /\ [Next]_vars
        => [Partition!Next]_(Partition!vars)
  BY PartitionStep
<1> QED BY <1>1, <1>2, <1>3, <1>4, <1>5, <1>6, PTL DEF Spec, IdeaPartitionSpec, Partition!Spec
=============================================================================
