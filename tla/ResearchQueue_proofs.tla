------------------------ MODULE ResearchQueue_proofs ------------------------
(***************************************************************************)
(* Proofs about ResearchQueue, for any number of memories, items, failures *)
(* and any limits.  The heart is HandInv: what the coroutine has in its    *)
(* hands agrees with the row it selected, because nobody else updates      *)
(* research_queue.                                                         *)
(***************************************************************************)
EXTENDS ResearchQueue, FiniteSetTheorems, TLAPS

LEMMA Chosen == AnyPair \in Pairs /\ AnyItem \in Items
  BY PairsAssumption DEF AnyPair, AnyItem

LEMMA PairMembers == ASSUME NEW p \in Pairs PROVE p[1] \in Memories /\ p[2] \in Memories
  BY DEF Pairs

LEMMA Limits == Day \in Nat \ {0} /\ ConfirmationHours \in Nat \ {0} /\ MaxFaults \in Nat
  BY LimitsAssumption, FaultsAssumption

LEMMA OneMore ==
  /\ ConfirmationHours + 1 \in Nat
  /\ \A n \in 0..MaxFaults : n < MaxFaults => n + 1 \in 0..MaxFaults
  BY Limits

LEMMA CappedType == ASSUME NEW top \in Nat, NEW n \in 0..top PROVE Capped(n + 1, top) \in 0..top
  BY DEF Capped

LEMMA UpdateType ==
  ASSUME NEW S, NEW T, NEW f \in [S -> T], NEW x, NEW v \in T
  PROVE  [f EXCEPT ![x] = v] \in [S -> T]
  OBVIOUS

LEMMA LoggedType ==
  ASSUME TypeOK, NEW phase, Log(phase) PROVE logged' \in [Sessions -> 0..Day]
<1>1. 0 \in 0..Day BY Limits
<1>2. QED BY <1>1, UpdateType DEF TypeOK, Log

LEMMA NoHandType == NoHand \in [verdict : Verdicts, medium : BOOLEAN, outcome : Closed]
  BY VerdictsAssumption DEF NoHand, Closed
-----------------------------------------------------------------------------
LEMMA InitType == Init => TypeOK
<1> SUFFICES ASSUME Init PROVE TypeOK
  OBVIOUS
<1>1. QED
  BY NoHandType, Chosen, VerdictsAssumption, LimitsAssumption, FaultsAssumption DEF Init, TypeOK, Pcs

LEMMA TypeStep == TypeOK /\ [Next]_vars => TypeOK'
<1> SUFFICES ASSUME TypeOK, [Next]_vars PROVE TypeOK'
  OBVIOUS
<1> USE DEF TypeOK, Pcs
<1>1. ASSUME NEW m \in Memories, Archive(m) PROVE TypeOK'
  BY <1>1 DEF Archive, queue, effects
<1>2. CASE Recency BY <1>2 DEF Recency, queue, effects
<1>3. CASE Tick
  <2>1. age' \in [Items -> 0..ConfirmationHours + 1]
    <3>1. ConfirmationHours + 1 \in Nat BY OneMore
    <3>2. \A i \in Items : Capped(age[i] + 1, ConfirmationHours + 1) \in 0..ConfirmationHours + 1
      BY <3>1, CappedType
    <3>3. QED BY <1>3, <3>2 DEF Tick
  <2>2. logged' \in [Sessions -> 0..Day]
    BY <1>3, Limits, CappedType DEF Tick
  <2>3. QED BY <1>3, <2>1, <2>2 DEF Tick
<1>4. CASE Raise
  <2>1. faults' \in 0..MaxFaults BY <1>4, OneMore DEF Raise
  <2>2. QED BY <1>4, <2>1, Chosen, NoHandType DEF Raise, Queueing, queue, effects
<1>5. CASE Restart
  <2>1. faults' \in 0..MaxFaults BY <1>5, OneMore DEF Restart
  <2>2. QED BY <1>5, <2>1, Chosen, NoHandType DEF Restart, queue, effects
<1>6. ASSUME NEW S \in SUBSET Pairs, Scan(S) PROVE TypeOK'
  BY <1>6 DEF Scan, queue, effects
<1>7. ASSUME NEW p \in Pairs, Weigh(p) PROVE TypeOK'
  BY <1>7 DEF Weigh, queue, effects
<1>8. CASE CheckLimits BY <1>8 DEF CheckLimits, queue, effects
<1>9. CASE Dismiss BY <1>9 DEF Dismiss, queue, effects
<1>10. CASE EndQueueing BY <1>10, Chosen DEF EndQueueing, queue, effects
<1>11. CASE NothingPending BY <1>11 DEF NothingPending, queue, effects
<1>12. CASE NothingDue BY <1>12, Chosen DEF NothingDue, queue, effects
<1>13. ASSUME NEW i \in Items, PickPending(i) PROVE TypeOK'
  BY <1>13 DEF PickPending, queue, effects
<1>14. ASSUME NEW i \in Items, PickDue(i) PROVE TypeOK'
  BY <1>14 DEF PickDue, queue, effects
<1>15. ASSUME NEW i \in Items, NEW question \in BOOLEAN, Enqueue(i, question) PROVE TypeOK'
  BY <1>15 DEF Enqueue, effects
<1>16. CASE ExpireUnasked BY <1>16 DEF ExpireUnasked, effects, Closed
<1>17. CASE StoreFinding BY <1>17 DEF StoreFinding, queue
<1>18. CASE MarkResearched BY <1>18 DEF MarkResearched, effects
<1>19. CASE LogFirst
  <2>1. logged' \in [Sessions -> 0..Day] BY <1>19, LoggedType DEF LogFirst
  <2>2. QED BY <1>19, <2>1, NoHandType DEF LogFirst, queue
<1>20. CASE TellFinding BY <1>20 DEF TellFinding, Tell, queue
<1>21. CASE Displace
  BY <1>21 DEF Displace, DeltaBeta, queue
<1>22. CASE StoreCorrection BY <1>22 DEF StoreCorrection, queue
<1>23. CASE TellDisplaced BY <1>23 DEF TellDisplaced, Tell, queue
<1>24. CASE Close
  <2>1. st' \in [Items -> {"none", "pending", "researched"} \cup Closed] BY <1>24 DEF Close
  <2>2. QED BY <1>24, <2>1, NoHandType DEF Close, effects
<1>25. CASE LogConfirmation
  <2>1. logged' \in [Sessions -> 0..Day] BY <1>25, LoggedType DEF LogConfirmation
  <2>2. QED BY <1>25, <2>1, Chosen DEF LogConfirmation, queue
<1>26. ASSUME NEW v \in Verdicts, NEW medium \in BOOLEAN, Search(v, medium) PROVE TypeOK'
  BY <1>26 DEF Search, queue, effects
<1>27. ASSUME NEW confirmed \in BOOLEAN, Verify(confirmed) PROVE TypeOK'
  BY <1>27 DEF Verify, queue, effects, Closed
<1>28. CASE SearchFails BY <1>28 DEF SearchFails, queue, effects
<1>29. CASE UNCHANGED vars BY <1>29 DEF vars, queue, effects
<1>30. QED
  BY <1>1, <1>2, <1>3, <1>4, <1>5, <1>6, <1>7, <1>8, <1>9, <1>10, <1>11, <1>12, <1>13, <1>14,
     <1>15, <1>16, <1>17, <1>18, <1>19, <1>20, <1>21, <1>22, <1>23, <1>24, <1>25, <1>26, <1>27,
     <1>28, <1>29 DEF Next, Progress, Answered

(* Every variable keeps its type, for any values of the constants.         *)
THEOREM TypeCorrect == Spec => []TypeOK
<1>1. QED BY InitType, TypeStep, PTL DEF Spec
-----------------------------------------------------------------------------
(* What is in hand.                                                        *)

Unsearched == {"search", "finding", "mark"}
JustSearched == {"log first", "tell finding"}
Deciding == {"displace", "correct", "tell"}
Verifying == {"verify", "close"} \cup Deciding

\* The row the coroutine works on is as it was SELECTed.
HandInv ==
  /\ pc = "no question" => st[cur] = "pending" /\ ~asks[cur]
  /\ pc \in Unsearched => st[cur] = "pending" /\ asks[cur]
  /\ pc \in JustSearched \cup Verifying => st[cur] = "researched"
  /\ pc \in Deciding => Decisive(cur) /\ hand.outcome = "confirmed"

\* Only items with a question are searched.
AskedInv == \A i \in Items : st[i] \in {"researched", "confirmed"} => asks[i]

LEMMA HandStep == TypeOK /\ HandInv /\ [Next]_vars => HandInv'
<1> SUFFICES ASSUME TypeOK, HandInv, [Next]_vars PROVE HandInv'
  OBVIOUS
<1> USE DEF TypeOK, HandInv, Unsearched, JustSearched, Deciding, Verifying, Decisive, queue, effects
<1>1. ASSUME NEW m \in Memories, Archive(m) PROVE HandInv'
  BY <1>1 DEF Archive
<1>2. CASE Recency
  BY <1>2 DEF Recency
<1>3. CASE Tick
  BY <1>3 DEF Tick
<1>4. CASE Raise
  BY <1>4 DEF Raise
<1>5. CASE Restart
  BY <1>5 DEF Restart
<1>6. ASSUME NEW S \in SUBSET Pairs, Scan(S) PROVE HandInv'
  BY <1>6 DEF Scan
<1>7. ASSUME NEW p \in Pairs, Weigh(p) PROVE HandInv'
  BY <1>7 DEF Weigh, Eligible
<1>8. CASE CheckLimits
  BY <1>8 DEF CheckLimits
<1>9. CASE Dismiss
  BY <1>9 DEF Dismiss
<1>10. CASE EndQueueing
  BY <1>10 DEF EndQueueing
<1>11. CASE NothingPending
  BY <1>11 DEF NothingPending
<1>12. CASE NothingDue
  BY <1>12 DEF NothingDue
<1>13. ASSUME NEW k \in Items, PickPending(k) PROVE HandInv'
  BY <1>13 DEF PickPending
<1>14. ASSUME NEW k \in Items, PickDue(k) PROVE HandInv'
  BY <1>14 DEF PickDue, Due
<1>15. ASSUME NEW k \in Items, NEW question \in BOOLEAN, Enqueue(k, question) PROVE HandInv'
  BY <1>15 DEF Enqueue
<1>16. CASE ExpireUnasked
  BY <1>16 DEF ExpireUnasked
<1>17. CASE StoreFinding
  BY <1>17 DEF StoreFinding
<1>18. CASE MarkResearched
  BY <1>18 DEF MarkResearched
<1>19. CASE LogFirst
  BY <1>19 DEF LogFirst, Log
<1>20. CASE TellFinding
  BY <1>20 DEF TellFinding, Tell
<1>21. CASE Displace
  BY <1>21 DEF Displace, DeltaBeta
<1>22. CASE StoreCorrection
  BY <1>22 DEF StoreCorrection
<1>23. CASE TellDisplaced
  BY <1>23 DEF TellDisplaced, Tell
<1>24. CASE Close
  BY <1>24 DEF Close
<1>25. CASE LogConfirmation
  BY <1>25 DEF LogConfirmation, Log
<1>26. ASSUME NEW v \in Verdicts, NEW medium \in BOOLEAN, Search(v, medium) PROVE HandInv'
  BY <1>26 DEF Search
<1>27. ASSUME NEW confirmed \in BOOLEAN, Verify(confirmed) PROVE HandInv'
  BY <1>27 DEF Verify
<1>28. CASE SearchFails
  BY <1>28 DEF SearchFails
<1>29. CASE UNCHANGED vars
  BY <1>29 DEF vars
<1>30. QED
  BY <1>1, <1>2, <1>3, <1>4, <1>5, <1>6, <1>7, <1>8, <1>9, <1>10, <1>11, <1>12, <1>13, <1>14,
     <1>15, <1>16, <1>17, <1>18, <1>19, <1>20, <1>21, <1>22, <1>23, <1>24, <1>25, <1>26, <1>27,
     <1>28, <1>29 DEF Next, Progress, Answered

LEMMA AskedStep == TypeOK /\ HandInv /\ AskedInv /\ [Next]_vars => AskedInv'
<1> SUFFICES ASSUME TypeOK, HandInv, AskedInv, [Next]_vars PROVE AskedInv'
  OBVIOUS
<1> USE DEF TypeOK, HandInv, AskedInv, Unsearched, JustSearched, Deciding, Verifying, Closed, queue, effects
<1>1. ASSUME NEW m \in Memories, Archive(m) PROVE AskedInv'
  BY <1>1 DEF Archive
<1>2. CASE Recency
  BY <1>2 DEF Recency
<1>3. CASE Tick
  BY <1>3 DEF Tick
<1>4. CASE Raise
  BY <1>4 DEF Raise
<1>5. CASE Restart
  BY <1>5 DEF Restart
<1>6. ASSUME NEW S \in SUBSET Pairs, Scan(S) PROVE AskedInv'
  BY <1>6 DEF Scan
<1>7. ASSUME NEW p \in Pairs, Weigh(p) PROVE AskedInv'
  BY <1>7 DEF Weigh, Eligible
<1>8. CASE CheckLimits
  BY <1>8 DEF CheckLimits
<1>9. CASE Dismiss
  BY <1>9 DEF Dismiss
<1>10. CASE EndQueueing
  BY <1>10 DEF EndQueueing
<1>11. CASE NothingPending
  BY <1>11 DEF NothingPending
<1>12. CASE NothingDue
  BY <1>12 DEF NothingDue
<1>13. ASSUME NEW k \in Items, PickPending(k) PROVE AskedInv'
  BY <1>13 DEF PickPending
<1>14. ASSUME NEW k \in Items, PickDue(k) PROVE AskedInv'
  BY <1>14 DEF PickDue, Due
<1>15. ASSUME NEW k \in Items, NEW question \in BOOLEAN, Enqueue(k, question) PROVE AskedInv'
  BY <1>15 DEF Enqueue
<1>16. CASE ExpireUnasked
  BY <1>16 DEF ExpireUnasked
<1>17. CASE StoreFinding
  BY <1>17 DEF StoreFinding
<1>18. CASE MarkResearched
  BY <1>18 DEF MarkResearched
<1>19. CASE LogFirst
  BY <1>19 DEF LogFirst, Log
<1>20. CASE TellFinding
  BY <1>20 DEF TellFinding, Tell
<1>21. CASE Displace
  BY <1>21 DEF Displace, DeltaBeta
<1>22. CASE StoreCorrection
  BY <1>22 DEF StoreCorrection
<1>23. CASE TellDisplaced
  BY <1>23 DEF TellDisplaced, Tell
<1>24. CASE Close
  BY <1>24 DEF Close
<1>25. CASE LogConfirmation
  BY <1>25 DEF LogConfirmation, Log
<1>26. ASSUME NEW v \in Verdicts, NEW medium \in BOOLEAN, Search(v, medium) PROVE AskedInv'
  BY <1>26 DEF Search
<1>27. ASSUME NEW confirmed \in BOOLEAN, Verify(confirmed) PROVE AskedInv'
  BY <1>27 DEF Verify
<1>28. CASE SearchFails
  BY <1>28 DEF SearchFails
<1>29. CASE UNCHANGED vars
  BY <1>29 DEF vars
<1> HIDE DEF TypeOK, HandInv, AskedInv, Unsearched, JustSearched, Deciding, Verifying, Closed, queue, effects
<1>30. QED
  BY <1>1, <1>2, <1>3, <1>4, <1>5, <1>6, <1>7, <1>8, <1>9, <1>10, <1>11, <1>12, <1>13, <1>14,
     <1>15, <1>16, <1>17, <1>18, <1>19, <1>20, <1>21, <1>22, <1>23, <1>24, <1>25, <1>26, <1>27,
     <1>28, <1>29 DEF Next, Progress, Answered
-----------------------------------------------------------------------------
(* What is stored about an item.                                           *)

\* Before the first search nothing is.
FreshInv ==
  \A i \in Items : st[i] \in {"none", "pending"} => corrections[i] = 0 /\ "displaced" \notin told[i]

LEMMA FreshStep == TypeOK /\ HandInv /\ FreshInv /\ [Next]_vars => FreshInv'
<1> SUFFICES ASSUME TypeOK, HandInv, FreshInv, [Next]_vars PROVE FreshInv'
  OBVIOUS
<1> USE DEF TypeOK, HandInv, FreshInv, Unsearched, JustSearched, Deciding, Verifying, Closed, queue, effects
<1>1. ASSUME NEW m \in Memories, Archive(m) PROVE FreshInv'
  BY <1>1 DEF Archive
<1>2. CASE Recency
  BY <1>2 DEF Recency
<1>3. CASE Tick
  BY <1>3 DEF Tick
<1>4. CASE Raise
  BY <1>4 DEF Raise
<1>5. CASE Restart
  BY <1>5 DEF Restart
<1>6. ASSUME NEW S \in SUBSET Pairs, Scan(S) PROVE FreshInv'
  BY <1>6 DEF Scan
<1>7. ASSUME NEW p \in Pairs, Weigh(p) PROVE FreshInv'
  BY <1>7 DEF Weigh, Eligible
<1>8. CASE CheckLimits
  BY <1>8 DEF CheckLimits
<1>9. CASE Dismiss
  BY <1>9 DEF Dismiss
<1>10. CASE EndQueueing
  BY <1>10 DEF EndQueueing
<1>11. CASE NothingPending
  BY <1>11 DEF NothingPending
<1>12. CASE NothingDue
  BY <1>12 DEF NothingDue
<1>13. ASSUME NEW k \in Items, PickPending(k) PROVE FreshInv'
  BY <1>13 DEF PickPending
<1>14. ASSUME NEW k \in Items, PickDue(k) PROVE FreshInv'
  BY <1>14 DEF PickDue, Due
<1>15. ASSUME NEW k \in Items, NEW question \in BOOLEAN, Enqueue(k, question) PROVE FreshInv'
  BY <1>15 DEF Enqueue
<1>16. CASE ExpireUnasked
  BY <1>16 DEF ExpireUnasked
<1>17. CASE StoreFinding
  BY <1>17 DEF StoreFinding
<1>18. CASE MarkResearched
  BY <1>18 DEF MarkResearched
<1>19. CASE LogFirst
  BY <1>19 DEF LogFirst, Log
<1>20. CASE TellFinding
  BY <1>20 DEF TellFinding, Tell
<1>21. CASE Displace
  BY <1>21 DEF Displace, DeltaBeta
<1>22. CASE StoreCorrection
  BY <1>22 DEF StoreCorrection
<1>23. CASE TellDisplaced
  BY <1>23 DEF TellDisplaced, Tell
<1>24. CASE Close
  BY <1>24 DEF Close
<1>25. CASE LogConfirmation
  BY <1>25 DEF LogConfirmation, Log
<1>26. ASSUME NEW v \in Verdicts, NEW medium \in BOOLEAN, Search(v, medium) PROVE FreshInv'
  BY <1>26 DEF Search
<1>27. ASSUME NEW confirmed \in BOOLEAN, Verify(confirmed) PROVE FreshInv'
  BY <1>27 DEF Verify
<1>28. CASE SearchFails
  BY <1>28 DEF SearchFails
<1>29. CASE UNCHANGED vars
  BY <1>29 DEF vars
<1> HIDE DEF TypeOK, HandInv, FreshInv, Unsearched, JustSearched, Deciding, Verifying, Closed, queue, effects
<1>30. QED
  BY <1>1, <1>2, <1>3, <1>4, <1>5, <1>6, <1>7, <1>8, <1>9, <1>10, <1>11, <1>12, <1>13, <1>14,
     <1>15, <1>16, <1>17, <1>18, <1>19, <1>20, <1>21, <1>22, <1>23, <1>24, <1>25, <1>26, <1>27,
     <1>28, <1>29 DEF Next, Progress, Answered

\* The user's memories are kept out where a pair is queued.
UserInv ==
  /\ pc \in {"limits", "classify"} => {pair[1], pair[2]} \cap UserMemories = {}
  /\ \A i \in Items : st[i] # "none" => {subject[i][1], subject[i][2]} \cap UserMemories = {}

LEMMA UserStep == TypeOK /\ HandInv /\ UserInv /\ [Next]_vars => UserInv'
<1> SUFFICES ASSUME TypeOK, HandInv, UserInv, [Next]_vars PROVE UserInv'
  OBVIOUS
<1> USE DEF TypeOK, HandInv, UserInv, Unsearched, JustSearched, Deciding, Verifying, Closed, queue, effects
<1>1. ASSUME NEW m \in Memories, Archive(m) PROVE UserInv'
  BY <1>1 DEF Archive
<1>2. CASE Recency
  BY <1>2 DEF Recency
<1>3. CASE Tick
  BY <1>3 DEF Tick
<1>4. CASE Raise
  BY <1>4 DEF Raise
<1>5. CASE Restart
  BY <1>5 DEF Restart
<1>6. ASSUME NEW S \in SUBSET Pairs, Scan(S) PROVE UserInv'
  BY <1>6 DEF Scan
<1>7. ASSUME NEW p \in Pairs, Weigh(p) PROVE UserInv'
  BY <1>7 DEF Weigh, Eligible
<1>8. CASE CheckLimits
  BY <1>8 DEF CheckLimits
<1>9. CASE Dismiss
  BY <1>9 DEF Dismiss
<1>10. CASE EndQueueing
  BY <1>10 DEF EndQueueing
<1>11. CASE NothingPending
  BY <1>11 DEF NothingPending
<1>12. CASE NothingDue
  BY <1>12 DEF NothingDue
<1>13. ASSUME NEW k \in Items, PickPending(k) PROVE UserInv'
  BY <1>13 DEF PickPending
<1>14. ASSUME NEW k \in Items, PickDue(k) PROVE UserInv'
  BY <1>14 DEF PickDue, Due
<1>15. ASSUME NEW k \in Items, NEW question \in BOOLEAN, Enqueue(k, question) PROVE UserInv'
  BY <1>15 DEF Enqueue
<1>16. CASE ExpireUnasked
  BY <1>16 DEF ExpireUnasked
<1>17. CASE StoreFinding
  BY <1>17 DEF StoreFinding
<1>18. CASE MarkResearched
  BY <1>18 DEF MarkResearched
<1>19. CASE LogFirst
  BY <1>19 DEF LogFirst, Log
<1>20. CASE TellFinding
  BY <1>20 DEF TellFinding, Tell
<1>21. CASE Displace
  BY <1>21 DEF Displace, DeltaBeta
<1>22. CASE StoreCorrection
  BY <1>22 DEF StoreCorrection
<1>23. CASE TellDisplaced
  BY <1>23 DEF TellDisplaced, Tell
<1>24. CASE Close
  BY <1>24 DEF Close
<1>25. CASE LogConfirmation
  BY <1>25 DEF LogConfirmation, Log
<1>26. ASSUME NEW v \in Verdicts, NEW medium \in BOOLEAN, Search(v, medium) PROVE UserInv'
  BY <1>26 DEF Search
<1>27. ASSUME NEW confirmed \in BOOLEAN, Verify(confirmed) PROVE UserInv'
  BY <1>27 DEF Verify
<1>28. CASE SearchFails
  BY <1>28 DEF SearchFails
<1>29. CASE UNCHANGED vars
  BY <1>29 DEF vars
<1> HIDE DEF TypeOK, HandInv, UserInv, Unsearched, JustSearched, Deciding, Verifying, Closed, queue, effects
<1>30. QED
  BY <1>1, <1>2, <1>3, <1>4, <1>5, <1>6, <1>7, <1>8, <1>9, <1>10, <1>11, <1>12, <1>13, <1>14,
     <1>15, <1>16, <1>17, <1>18, <1>19, <1>20, <1>21, <1>22, <1>23, <1>24, <1>25, <1>26, <1>27,
     <1>28, <1>29 DEF Next, Progress, Answered

\* An exception or a restart leaves one effect at most without its status.
LEMMA FaultKeepsEffects ==
  ASSUME TypeOK, EffectsMatchStatus, UNCHANGED <<queue, findings, corrections>>,
         faults' = faults + 1, pc' \in {"idle", "queue"}
  PROVE  EffectsMatchStatus'
<1> SUFFICES ASSUME NEW i \in Items
             PROVE  /\ findings'[i] >= FindingsDue(i)'
                    /\ corrections'[i] >= CorrectionsDue(i)'
                    /\ (findings'[i] - FindingsDue(i)') + (corrections'[i] - CorrectionsDue(i)') <= faults'
  BY DEF EffectsMatchStatus
<1>1. ~Unmarked(i)' /\ ~Unclosed(i)' BY DEF Unmarked, Unclosed
<1>2. Searched(i)' = Searched(i) /\ Corrected(i)' = Corrected(i)
  BY DEF queue, Searched, Corrected, Decisive
<1>3. ~(Unmarked(i) /\ Unclosed(i)) BY DEF Unmarked, Unclosed
<1>4. /\ findings[i] \in Nat /\ corrections[i] \in Nat /\ faults \in Nat
      /\ findings[i] >= FindingsDue(i) /\ corrections[i] >= CorrectionsDue(i)
      /\ (findings[i] - FindingsDue(i)) + (corrections[i] - CorrectionsDue(i)) <= faults
  BY Limits DEF TypeOK, EffectsMatchStatus
<1>5. FindingsDue(i)' = Count(Searched(i)) /\ CorrectionsDue(i)' = Count(Corrected(i))
  BY <1>1, <1>2 DEF FindingsDue, CorrectionsDue, Count
<1>6. /\ FindingsDue(i) = Count(Searched(i)) + Count(Unmarked(i))
      /\ CorrectionsDue(i) = Count(Corrected(i)) + Count(Unclosed(i))
      /\ Count(Unmarked(i)) + Count(Unclosed(i)) <= 1
      /\ Count(Searched(i)) \in {0, 1} /\ Count(Corrected(i)) \in {0, 1}
      /\ Count(Unmarked(i)) \in {0, 1} /\ Count(Unclosed(i)) \in {0, 1}
  BY <1>3 DEF FindingsDue, CorrectionsDue, Count
<1>7. QED BY <1>4, <1>5, <1>6

LEMMA EffectsStep == TypeOK /\ HandInv /\ AskedInv /\ EffectsMatchStatus /\ [Next]_vars => EffectsMatchStatus'
<1> SUFFICES ASSUME TypeOK, HandInv, AskedInv, EffectsMatchStatus, [Next]_vars PROVE EffectsMatchStatus'
  OBVIOUS
<1> USE DEF TypeOK, HandInv, AskedInv, EffectsMatchStatus, Unsearched, JustSearched, Deciding, Verifying,
            Closed, queue, effects, Searched, Corrected, Unmarked, Unclosed, Count, FindingsDue,
            CorrectionsDue, Decisive
<1>1. ASSUME NEW m \in Memories, Archive(m) PROVE EffectsMatchStatus'
  BY <1>1 DEF Archive
<1>2. CASE Recency
  BY <1>2 DEF Recency
<1>3. CASE Tick
  BY <1>3 DEF Tick
<1>4. CASE Raise
  <2>1. /\ UNCHANGED <<queue, findings, corrections>>
        /\ faults' = faults + 1 /\ pc' \in {"idle", "queue"}
    BY <1>4 DEF Raise
  <2>2. QED BY <2>1, FaultKeepsEffects
<1>5. CASE Restart
  <2>1. /\ UNCHANGED <<queue, findings, corrections>>
        /\ faults' = faults + 1 /\ pc' \in {"idle", "queue"}
    BY <1>5 DEF Restart
  <2>2. QED BY <2>1, FaultKeepsEffects
<1>6. ASSUME NEW S \in SUBSET Pairs, Scan(S) PROVE EffectsMatchStatus'
  BY <1>6 DEF Scan
<1>7. ASSUME NEW p \in Pairs, Weigh(p) PROVE EffectsMatchStatus'
  BY <1>7 DEF Weigh, Eligible
<1>8. CASE CheckLimits
  BY <1>8 DEF CheckLimits
<1>9. CASE Dismiss
  BY <1>9 DEF Dismiss
<1>10. CASE EndQueueing
  BY <1>10 DEF EndQueueing
<1>11. CASE NothingPending
  BY <1>11 DEF NothingPending
<1>12. CASE NothingDue
  BY <1>12 DEF NothingDue
<1>13. ASSUME NEW k \in Items, PickPending(k) PROVE EffectsMatchStatus'
  BY <1>13 DEF PickPending
<1>14. ASSUME NEW k \in Items, PickDue(k) PROVE EffectsMatchStatus'
  BY <1>14 DEF PickDue, Due
<1>15. ASSUME NEW k \in Items, NEW question \in BOOLEAN, Enqueue(k, question) PROVE EffectsMatchStatus'
  BY <1>15 DEF Enqueue
<1>16. CASE ExpireUnasked
  BY <1>16 DEF ExpireUnasked
<1>17. CASE StoreFinding
  BY <1>17 DEF StoreFinding
<1>18. CASE MarkResearched
  <2> SUFFICES ASSUME NEW i \in Items
               PROVE  FindingsDue(i)' = FindingsDue(i) /\ CorrectionsDue(i)' = CorrectionsDue(i)
    BY <1>18 DEF MarkResearched
  <2>1. CASE i = cur
    <3>1. st[i] = "pending" /\ st'[i] = "researched" /\ pc = "mark" /\ pc' = "log first"
      BY <1>18, <2>1 DEF MarkResearched
    <3>2. ~Searched(i) /\ Unmarked(i) /\ Searched(i)' /\ ~Unmarked(i)' BY <2>1, <3>1
    <3>3. ~Corrected(i) /\ ~Unclosed(i) /\ ~Corrected(i)' /\ ~Unclosed(i)' BY <3>1
    <3>4. QED BY <3>2, <3>3
  <2>2. CASE i # cur BY <1>18, <2>2 DEF MarkResearched
  <2>3. QED BY <2>1, <2>2
<1>19. CASE LogFirst
  BY <1>19 DEF LogFirst, Log
<1>20. CASE TellFinding
  BY <1>20 DEF TellFinding, Tell
<1>21. CASE Displace
  BY <1>21 DEF Displace, DeltaBeta
<1>22. CASE StoreCorrection
  BY <1>22 DEF StoreCorrection
<1>23. CASE TellDisplaced
  BY <1>23 DEF TellDisplaced, Tell
<1>24. CASE Close
  BY <1>24 DEF Close
<1>25. CASE LogConfirmation
  BY <1>25 DEF LogConfirmation, Log
<1>26. ASSUME NEW v \in Verdicts, NEW medium \in BOOLEAN, Search(v, medium) PROVE EffectsMatchStatus'
  BY <1>26 DEF Search
<1>27. ASSUME NEW confirmed \in BOOLEAN, Verify(confirmed) PROVE EffectsMatchStatus'
  BY <1>27 DEF Verify
<1>28. CASE SearchFails
  BY <1>28 DEF SearchFails
<1>29. CASE UNCHANGED vars
  BY <1>29 DEF vars
<1> HIDE DEF TypeOK, HandInv, AskedInv, EffectsMatchStatus, Unsearched, JustSearched, Deciding, Verifying,
            Closed, queue, effects, Searched, Corrected, Unmarked, Unclosed, Count, FindingsDue,
            CorrectionsDue, Decisive
<1>30. QED
  BY <1>1, <1>2, <1>3, <1>4, <1>5, <1>6, <1>7, <1>8, <1>9, <1>10, <1>11, <1>12, <1>13, <1>14,
     <1>15, <1>16, <1>17, <1>18, <1>19, <1>20, <1>21, <1>22, <1>23, <1>24, <1>25, <1>26, <1>27,
     <1>28, <1>29 DEF Next, Progress, Answered

\* Nothing was ever displaced.
BetaInv == \A m \in Memories : beta[m] = 0

LEMMA BetaStep == TypeOK /\ BetaInv /\ [Next]_vars => BetaInv'
<1> SUFFICES ASSUME TypeOK, BetaInv, [Next]_vars PROVE BetaInv'
  OBVIOUS
<1> USE DEF TypeOK, BetaInv, queue, effects
<1>1. ASSUME NEW m \in Memories, Archive(m) PROVE BetaInv'
  BY <1>1 DEF Archive
<1>2. CASE Recency
  BY <1>2 DEF Recency
<1>3. CASE Tick
  BY <1>3 DEF Tick
<1>4. CASE Raise
  BY <1>4 DEF Raise
<1>5. CASE Restart
  BY <1>5 DEF Restart
<1>6. ASSUME NEW S \in SUBSET Pairs, Scan(S) PROVE BetaInv'
  BY <1>6 DEF Scan
<1>7. ASSUME NEW p \in Pairs, Weigh(p) PROVE BetaInv'
  BY <1>7 DEF Weigh, Eligible
<1>8. CASE CheckLimits
  BY <1>8 DEF CheckLimits
<1>9. CASE Dismiss
  BY <1>9 DEF Dismiss
<1>10. CASE EndQueueing
  BY <1>10 DEF EndQueueing
<1>11. CASE NothingPending
  BY <1>11 DEF NothingPending
<1>12. CASE NothingDue
  BY <1>12 DEF NothingDue
<1>13. ASSUME NEW k \in Items, PickPending(k) PROVE BetaInv'
  BY <1>13 DEF PickPending
<1>14. ASSUME NEW k \in Items, PickDue(k) PROVE BetaInv'
  BY <1>14 DEF PickDue, Due
<1>15. ASSUME NEW k \in Items, NEW question \in BOOLEAN, Enqueue(k, question) PROVE BetaInv'
  BY <1>15 DEF Enqueue
<1>16. CASE ExpireUnasked
  BY <1>16 DEF ExpireUnasked
<1>17. CASE StoreFinding
  BY <1>17 DEF StoreFinding
<1>18. CASE MarkResearched
  BY <1>18 DEF MarkResearched
<1>19. CASE LogFirst
  BY <1>19 DEF LogFirst, Log
<1>20. CASE TellFinding
  BY <1>20 DEF TellFinding, Tell
<1>21. CASE Displace
  BY <1>21 DEF Displace, DeltaBeta
<1>22. CASE StoreCorrection
  BY <1>22 DEF StoreCorrection
<1>23. CASE TellDisplaced
  BY <1>23 DEF TellDisplaced, Tell
<1>24. CASE Close
  BY <1>24 DEF Close
<1>25. CASE LogConfirmation
  BY <1>25 DEF LogConfirmation, Log
<1>26. ASSUME NEW v \in Verdicts, NEW medium \in BOOLEAN, Search(v, medium) PROVE BetaInv'
  BY <1>26 DEF Search
<1>27. ASSUME NEW confirmed \in BOOLEAN, Verify(confirmed) PROVE BetaInv'
  BY <1>27 DEF Verify
<1>28. CASE SearchFails
  BY <1>28 DEF SearchFails
<1>29. CASE UNCHANGED vars
  BY <1>29 DEF vars
<1> HIDE DEF TypeOK, BetaInv, queue, effects
<1>30. QED
  BY <1>1, <1>2, <1>3, <1>4, <1>5, <1>6, <1>7, <1>8, <1>9, <1>10, <1>11, <1>12, <1>13, <1>14,
     <1>15, <1>16, <1>17, <1>18, <1>19, <1>20, <1>21, <1>22, <1>23, <1>24, <1>25, <1>26, <1>27,
     <1>28, <1>29 DEF Next, Progress, Answered

LEMMA FindingTold ==
  ASSUME NEW T, NEW f \in [Items -> T], NEW c,
         NEW g, g = [f EXCEPT ![c] = f[c] \cup {"finding"}], NEW i \in Items, "displaced" \in g[i]
  PROVE  "displaced" \in f[i]
<1>1. CASE i = c BY <1>1
<1>2. CASE i # c BY <1>2
<1>3. QED BY <1>1, <1>2

(* Who is told that a memory was displaced finds the correction stored,    *)
(* and the memory that lost weighing what it weighed before.               *)
ToldNotDisplaced ==
  \A i \in Items : "displaced" \in told[i] =>
    /\ Decisive(i) /\ corrections[i] > 0
    /\ beta[Loser(i)] = 0

LEMMA ToldStep ==
  ASSUME TypeOK, HandInv, FreshInv, EffectsMatchStatus, BetaInv, BetaInv', ToldNotDisplaced, [Next]_vars
  PROVE  ToldNotDisplaced'
<1> DEFINE Told == \A i \in Items : "displaced" \in told[i] => Decisive(i) /\ corrections[i] > 0
<1>a. Told BY DEF ToldNotDisplaced
<1>b. Told' => ToldNotDisplaced'
  <2>1. \A i \in Items : TypeOK' => Loser(i)' \in Memories
    BY PairMembers DEF TypeOK, Loser
  <2>2. TypeOK' BY TypeStep
  <2>3. QED BY <2>1, <2>2 DEF ToldNotDisplaced, BetaInv
<1> SUFFICES Told'
  BY <1>b
<1>c. pc = "tell" => corrections[cur] > 0
  BY DEF TypeOK, HandInv, Deciding, EffectsMatchStatus, CorrectionsDue, FindingsDue, Unclosed, Count
<1> USE DEF TypeOK, HandInv, FreshInv, Unsearched, JustSearched, Deciding, Verifying, Closed, queue, effects, Decisive
<1>1. ASSUME NEW m \in Memories, Archive(m) PROVE Told'
  BY <1>1, <1>a, <1>c DEF Archive
<1>2. CASE Recency
  BY <1>2, <1>a, <1>c DEF Recency
<1>3. CASE Tick
  BY <1>3, <1>a, <1>c DEF Tick
<1>4. CASE Raise
  BY <1>4, <1>a, <1>c DEF Raise
<1>5. CASE Restart
  BY <1>5, <1>a, <1>c DEF Restart
<1>6. ASSUME NEW S \in SUBSET Pairs, Scan(S) PROVE Told'
  BY <1>6, <1>a, <1>c DEF Scan
<1>7. ASSUME NEW p \in Pairs, Weigh(p) PROVE Told'
  BY <1>7, <1>a, <1>c DEF Weigh, Eligible
<1>8. CASE CheckLimits
  BY <1>8, <1>a, <1>c DEF CheckLimits
<1>9. CASE Dismiss
  BY <1>9, <1>a, <1>c DEF Dismiss
<1>10. CASE EndQueueing
  BY <1>10, <1>a, <1>c DEF EndQueueing
<1>11. CASE NothingPending
  BY <1>11, <1>a, <1>c DEF NothingPending
<1>12. CASE NothingDue
  BY <1>12, <1>a, <1>c DEF NothingDue
<1>13. ASSUME NEW k \in Items, PickPending(k) PROVE Told'
  BY <1>13, <1>a, <1>c DEF PickPending
<1>14. ASSUME NEW k \in Items, PickDue(k) PROVE Told'
  BY <1>14, <1>a, <1>c DEF PickDue, Due
<1>15. ASSUME NEW k \in Items, NEW question \in BOOLEAN, Enqueue(k, question) PROVE Told'
  BY <1>15, <1>a, <1>c DEF Enqueue
<1>16. CASE ExpireUnasked
  BY <1>16, <1>a, <1>c DEF ExpireUnasked
<1>17. CASE StoreFinding
  BY <1>17, <1>a, <1>c DEF StoreFinding
<1>18. CASE MarkResearched
  BY <1>18, <1>a, <1>c DEF MarkResearched
<1>19. CASE LogFirst
  BY <1>19, <1>a, <1>c DEF LogFirst, Log
<1>20. CASE TellFinding
  <2>1. UNCHANGED <<queue, corrections>> BY <1>20 DEF TellFinding
  <2>2. \A i \in Items : "displaced" \in told'[i] => "displaced" \in told[i]
    <3>1. \/ told' = [told EXCEPT ![cur] = told[cur] \cup {"finding"}]
          \/ told' = told
      BY <1>20 DEF TellFinding, Tell
    <3>2. QED BY <3>1, FindingTold
  <2>3. QED BY <2>1, <2>2, <1>a
<1>21. CASE Displace
  BY <1>21, <1>a, <1>c DEF Displace, DeltaBeta
<1>22. CASE StoreCorrection
  BY <1>22, <1>a, <1>c DEF StoreCorrection
<1>23. CASE TellDisplaced
  BY <1>23, <1>a, <1>c DEF TellDisplaced, Tell
<1>24. CASE Close
  BY <1>24, <1>a, <1>c DEF Close
<1>25. CASE LogConfirmation
  BY <1>25, <1>a, <1>c DEF LogConfirmation, Log
<1>26. ASSUME NEW v \in Verdicts, NEW medium \in BOOLEAN, Search(v, medium) PROVE Told'
  BY <1>26, <1>a, <1>c DEF Search
<1>27. ASSUME NEW confirmed \in BOOLEAN, Verify(confirmed) PROVE Told'
  BY <1>27, <1>a, <1>c DEF Verify
<1>28. CASE SearchFails
  BY <1>28, <1>a, <1>c DEF SearchFails
<1>29. CASE UNCHANGED vars
  BY <1>29, <1>a, <1>c DEF vars
<1> HIDE DEF TypeOK, HandInv, Unsearched, JustSearched, Deciding, Verifying, Closed, queue, effects, FreshInv, Decisive, Told
<1>30. QED
  BY <1>1, <1>2, <1>3, <1>4, <1>5, <1>6, <1>7, <1>8, <1>9, <1>10, <1>11, <1>12, <1>13, <1>14,
     <1>15, <1>16, <1>17, <1>18, <1>19, <1>20, <1>21, <1>22, <1>23, <1>24, <1>25, <1>26, <1>27,
     <1>28, <1>29 DEF Next, Progress, Answered
-----------------------------------------------------------------------------
(* The theorems.                                                           *)

IInv ==
  /\ TypeOK /\ HandInv /\ AskedInv /\ FreshInv /\ UserInv
  /\ EffectsMatchStatus /\ BetaInv /\ ToldNotDisplaced

LEMMA InitInv == Init => IInv
<1> SUFFICES ASSUME Init PROVE IInv
  OBVIOUS
<1>1. TypeOK BY InitType
<1>2. HandInv /\ AskedInv /\ FreshInv /\ UserInv /\ BetaInv /\ ToldNotDisplaced
  BY DEF Init, HandInv, AskedInv, FreshInv, UserInv, BetaInv, ToldNotDisplaced, Unsearched,
         JustSearched, Deciding, Verifying
<1>3. EffectsMatchStatus
  BY DEF Init, EffectsMatchStatus, FindingsDue, CorrectionsDue, Searched, Corrected, Unmarked,
         Unclosed, Count
<1>4. QED BY <1>1, <1>2, <1>3 DEF IInv

LEMMA InvStep == IInv /\ [Next]_vars => IInv'
  BY TypeStep, HandStep, AskedStep, FreshStep, UserStep, EffectsStep, BetaStep, ToldStep DEF IInv

THEOREM Invariance == Spec => []IInv
<1>1. QED BY InitInv, InvStep, PTL DEF Spec

(* One finding for a search, one correction for a confirmation, and one    *)
(* more for every exception or restart at most.                            *)
THEOREM EffectsCounted == Spec => []EffectsMatchStatus
<1>1. IInv => EffectsMatchStatus BY DEF IInv
<1>2. QED BY <1>1, Invariance, PTL

(* Nothing is ever corrected that the user said.                           *)
THEOREM UsersTrusted == Spec => []UserTrusted
<1>1. IInv => UserTrusted
  <2> SUFFICES ASSUME IInv, NEW i \in Items, corrections[i] > 0
               PROVE  {subject[i][1], subject[i][2]} \cap UserMemories = {}
    BY DEF UserTrusted
  <2>1. st[i] # "none" BY DEF IInv, FreshInv
  <2>2. QED BY <2>1 DEF IInv, UserInv
<1>2. QED BY <1>1, Invariance, PTL

(* A displacement that was announced has a correction and no displacement. *)
THEOREM NeverDisplaced == Spec => []ToldNotDisplaced
<1>1. IInv => ToldNotDisplaced BY DEF IInv
<1>2. QED BY <1>1, Invariance, PTL

(* A closed item is done with.                                             *)
THEOREM ClosedStay == Spec => ClosedForGood
<1> DEFINE Stay == \A i \in Items : st[i] \in Closed =>
                     /\ st'[i] = st[i]
                     /\ findings'[i] = findings[i] /\ corrections'[i] = corrections[i]
                     /\ told'[i] = told[i]
<1>0. IInv /\ [Next]_vars => Stay
  <2> SUFFICES ASSUME TypeOK, HandInv, [Next]_vars PROVE Stay
    BY DEF IInv
  <2> USE DEF TypeOK, HandInv, Unsearched, JustSearched, Deciding, Verifying, Closed, queue, effects
  <2>1. ASSUME NEW m \in Memories, Archive(m) PROVE Stay
    BY <2>1 DEF Archive
  <2>2. CASE Recency
    BY <2>2 DEF Recency
  <2>3. CASE Tick
    BY <2>3 DEF Tick
  <2>4. CASE Raise
    BY <2>4 DEF Raise
  <2>5. CASE Restart
    BY <2>5 DEF Restart
  <2>6. ASSUME NEW S \in SUBSET Pairs, Scan(S) PROVE Stay
    BY <2>6 DEF Scan
  <2>7. ASSUME NEW p \in Pairs, Weigh(p) PROVE Stay
    BY <2>7 DEF Weigh, Eligible
  <2>8. CASE CheckLimits
    BY <2>8 DEF CheckLimits
  <2>9. CASE Dismiss
    BY <2>9 DEF Dismiss
  <2>10. CASE EndQueueing
    BY <2>10 DEF EndQueueing
  <2>11. CASE NothingPending
    BY <2>11 DEF NothingPending
  <2>12. CASE NothingDue
    BY <2>12 DEF NothingDue
  <2>13. ASSUME NEW k \in Items, PickPending(k) PROVE Stay
    BY <2>13 DEF PickPending
  <2>14. ASSUME NEW k \in Items, PickDue(k) PROVE Stay
    BY <2>14 DEF PickDue, Due
  <2>15. ASSUME NEW k \in Items, NEW question \in BOOLEAN, Enqueue(k, question) PROVE Stay
    BY <2>15 DEF Enqueue
  <2>16. CASE ExpireUnasked
    BY <2>16 DEF ExpireUnasked
  <2>17. CASE StoreFinding
    BY <2>17 DEF StoreFinding
  <2>18. CASE MarkResearched
    BY <2>18 DEF MarkResearched
  <2>19. CASE LogFirst
    BY <2>19 DEF LogFirst, Log
  <2>20. CASE TellFinding
    BY <2>20 DEF TellFinding, Tell
  <2>21. CASE Displace
    BY <2>21 DEF Displace, DeltaBeta
  <2>22. CASE StoreCorrection
    BY <2>22 DEF StoreCorrection
  <2>23. CASE TellDisplaced
    BY <2>23 DEF TellDisplaced, Tell
  <2>24. CASE Close
    BY <2>24 DEF Close
  <2>25. CASE LogConfirmation
    BY <2>25 DEF LogConfirmation, Log
  <2>26. ASSUME NEW v \in Verdicts, NEW medium \in BOOLEAN, Search(v, medium) PROVE Stay
    BY <2>26 DEF Search
  <2>27. ASSUME NEW confirmed \in BOOLEAN, Verify(confirmed) PROVE Stay
    BY <2>27 DEF Verify
  <2>28. CASE SearchFails
    BY <2>28 DEF SearchFails
  <2>29. CASE UNCHANGED vars
    BY <2>29 DEF vars
  <2> HIDE DEF TypeOK, HandInv, Unsearched, JustSearched, Deciding, Verifying, Closed, queue, effects, Stay
  <2>30. QED
    BY <2>1, <2>2, <2>3, <2>4, <2>5, <2>6, <2>7, <2>8, <2>9, <2>10, <2>11, <2>12, <2>13, <2>14,
       <2>15, <2>16, <2>17, <2>18, <2>19, <2>20, <2>21, <2>22, <2>23, <2>24, <2>25, <2>26, <2>27,
       <2>28, <2>29 DEF Next, Progress, Answered
<1>1. QED BY <1>0, Invariance, PTL DEF Spec, ClosedForGood

(* The limits hold at every INSERT: between the check and the INSERT time  *)
(* may pass, which only takes sessions out of the windows, and only this   *)
(* coroutine logs sessions.                                                *)
LimitsInv == pc = "classify" => UnderLimits

LEMMA LimitsStep ==
  ASSUME IsFiniteSet(Items), TypeOK, LimitsInv, [Next]_vars PROVE LimitsInv'
<1>a. UNCHANGED logged => UnderLimits' = UnderLimits
  BY DEF UnderLimits, Hourly, Daily
<1>b. IsFiniteSet(Sessions)
  <2>1. IsFiniteSet({"first"} \cup {"confirmation"}) BY FS_Singleton, FS_AddElement
  <2>2. {"first", "confirmation"} = {"first"} \cup {"confirmation"} OBVIOUS
  <2>3. IsFiniteSet({"first", "confirmation"}) BY <2>1, <2>2
  <2>4. QED BY <2>3, FS_Product DEF Sessions
<1> USE DEF TypeOK, LimitsInv, queue, effects
<1>1. ASSUME NEW m \in Memories, Archive(m) PROVE LimitsInv'
  BY <1>1, <1>a DEF Archive
<1>2. CASE Recency
  BY <1>2, <1>a DEF Recency
<1>3. CASE Tick
  <2> DEFINE In(n) == {s \in Sessions : logged[s] < n}
             After(n) == {s \in Sessions : logged'[s] < n}
  <2>1. \A s \in Sessions : logged[s] \in 0..Day /\ logged'[s] = Capped(logged[s] + 1, Day)
    BY <1>3 DEF Tick
  <2>2. Day \in Nat \ {0} BY Limits
  <2>3. ASSUME NEW n \in 1..Day PROVE After(n) \subseteq In(n)
    BY <2>1, <2>2 DEF Capped
  <2>4. ASSUME NEW n \in 1..Day PROVE Cardinality(After(n)) <= Cardinality(In(n))
    <3>1. IsFiniteSet(In(n)) BY <1>b, FS_Subset
    <3>2. QED BY <2>3, <3>1, FS_Subset
  <2>5. Cardinality(After(1)) <= Cardinality(In(1)) /\ Cardinality(After(Day)) <= Cardinality(In(Day))
    BY <2>2, <2>4
  <2>6. /\ Cardinality(In(1)) \in Nat /\ Cardinality(In(Day)) \in Nat
        /\ Cardinality(After(1)) \in Nat /\ Cardinality(After(Day)) \in Nat
    BY <1>b, FS_Subset, FS_CardinalityType
  <2>7. Hourly' <= Hourly /\ Daily' <= Daily BY <2>5 DEF Hourly, Daily
  <2>8. Hourly \in Nat /\ Daily \in Nat /\ Hourly' \in Nat /\ Daily' \in Nat
    BY <2>6 DEF Hourly, Daily
  <2>9. HourlyLimit \in Nat /\ DailyLimit \in Nat BY LimitsAssumption
  <2>10. pc' = pc BY <1>3 DEF Tick
  <2>11. QED BY <2>7, <2>8, <2>9, <2>10 DEF UnderLimits
<1>4. CASE Raise
  BY <1>4, <1>a DEF Raise
<1>5. CASE Restart
  BY <1>5, <1>a DEF Restart
<1>6. ASSUME NEW S \in SUBSET Pairs, Scan(S) PROVE LimitsInv'
  BY <1>6, <1>a DEF Scan
<1>7. ASSUME NEW p \in Pairs, Weigh(p) PROVE LimitsInv'
  BY <1>7, <1>a DEF Weigh, Eligible
<1>8. CASE CheckLimits
  BY <1>8, <1>a DEF CheckLimits
<1>9. CASE Dismiss
  BY <1>9, <1>a DEF Dismiss
<1>10. CASE EndQueueing
  BY <1>10, <1>a DEF EndQueueing
<1>11. CASE NothingPending
  BY <1>11, <1>a DEF NothingPending
<1>12. CASE NothingDue
  BY <1>12, <1>a DEF NothingDue
<1>13. ASSUME NEW k \in Items, PickPending(k) PROVE LimitsInv'
  BY <1>13, <1>a DEF PickPending
<1>14. ASSUME NEW k \in Items, PickDue(k) PROVE LimitsInv'
  BY <1>14, <1>a DEF PickDue, Due
<1>15. ASSUME NEW k \in Items, NEW question \in BOOLEAN, Enqueue(k, question) PROVE LimitsInv'
  BY <1>15, <1>a DEF Enqueue
<1>16. CASE ExpireUnasked
  BY <1>16, <1>a DEF ExpireUnasked
<1>17. CASE StoreFinding
  BY <1>17, <1>a DEF StoreFinding
<1>18. CASE MarkResearched
  BY <1>18, <1>a DEF MarkResearched
<1>19. CASE LogFirst
  BY <1>19, <1>a DEF LogFirst, Log
<1>20. CASE TellFinding
  BY <1>20, <1>a DEF TellFinding, Tell
<1>21. CASE Displace
  BY <1>21, <1>a DEF Displace, DeltaBeta
<1>22. CASE StoreCorrection
  BY <1>22, <1>a DEF StoreCorrection
<1>23. CASE TellDisplaced
  BY <1>23, <1>a DEF TellDisplaced, Tell
<1>24. CASE Close
  BY <1>24, <1>a DEF Close
<1>25. CASE LogConfirmation
  BY <1>25, <1>a DEF LogConfirmation, Log
<1>26. ASSUME NEW v \in Verdicts, NEW medium \in BOOLEAN, Search(v, medium) PROVE LimitsInv'
  BY <1>26, <1>a DEF Search
<1>27. ASSUME NEW confirmed \in BOOLEAN, Verify(confirmed) PROVE LimitsInv'
  BY <1>27, <1>a DEF Verify
<1>28. CASE SearchFails
  BY <1>28, <1>a DEF SearchFails
<1>29. CASE UNCHANGED vars
  BY <1>29, <1>a DEF vars
<1> HIDE DEF TypeOK, LimitsInv, queue, effects
<1>30. QED
  BY <1>1, <1>2, <1>3, <1>4, <1>5, <1>6, <1>7, <1>8, <1>9, <1>10, <1>11, <1>12, <1>13, <1>14,
     <1>15, <1>16, <1>17, <1>18, <1>19, <1>20, <1>21, <1>22, <1>23, <1>24, <1>25, <1>26, <1>27,
     <1>28, <1>29 DEF Next, Progress, Answered

(* An item is queued only while the limits admit a session.                *)
THEOREM QueuedWithinLimits ==
  ASSUME IsFiniteSet(Items) PROVE Spec => QueuedUnderLimits
<1>1. Init => LimitsInv BY DEF Init, LimitsInv
<1>2. TypeOK /\ LimitsInv /\ [Next]_vars => LimitsInv'
  BY LimitsStep
<1> DEFINE Below == \A i \in Items : st[i] = "none" /\ st'[i] = "pending" =>
                      Hourly < HourlyLimit /\ Daily < DailyLimit
<1>3. TypeOK /\ LimitsInv /\ [Next]_vars => Below
  <2> SUFFICES ASSUME TypeOK, LimitsInv, [Next]_vars, NEW i \in Items,
                      st[i] = "none", st'[i] = "pending"
               PROVE  pc = "classify"
    BY DEF LimitsInv, UnderLimits
  <2> USE DEF TypeOK, queue, effects, Closed
  <2>1. ASSUME NEW m \in Memories, Archive(m) PROVE pc = "classify"
    BY <2>1 DEF Archive
  <2>2. CASE Recency
    BY <2>2 DEF Recency
  <2>3. CASE Tick
    BY <2>3 DEF Tick
  <2>4. CASE Raise
    BY <2>4 DEF Raise
  <2>5. CASE Restart
    BY <2>5 DEF Restart
  <2>6. ASSUME NEW S \in SUBSET Pairs, Scan(S) PROVE pc = "classify"
    BY <2>6 DEF Scan
  <2>7. ASSUME NEW p \in Pairs, Weigh(p) PROVE pc = "classify"
    BY <2>7 DEF Weigh, Eligible
  <2>8. CASE CheckLimits
    BY <2>8 DEF CheckLimits
  <2>9. CASE Dismiss
    BY <2>9 DEF Dismiss
  <2>10. CASE EndQueueing
    BY <2>10 DEF EndQueueing
  <2>11. CASE NothingPending
    BY <2>11 DEF NothingPending
  <2>12. CASE NothingDue
    BY <2>12 DEF NothingDue
  <2>13. ASSUME NEW k \in Items, PickPending(k) PROVE pc = "classify"
    BY <2>13 DEF PickPending
  <2>14. ASSUME NEW k \in Items, PickDue(k) PROVE pc = "classify"
    BY <2>14 DEF PickDue, Due
  <2>15. ASSUME NEW k \in Items, NEW question \in BOOLEAN, Enqueue(k, question) PROVE pc = "classify"
    BY <2>15 DEF Enqueue
  <2>16. CASE ExpireUnasked
    BY <2>16 DEF ExpireUnasked
  <2>17. CASE StoreFinding
    BY <2>17 DEF StoreFinding
  <2>18. CASE MarkResearched
    BY <2>18 DEF MarkResearched
  <2>19. CASE LogFirst
    BY <2>19 DEF LogFirst, Log
  <2>20. CASE TellFinding
    BY <2>20 DEF TellFinding, Tell
  <2>21. CASE Displace
    BY <2>21 DEF Displace, DeltaBeta
  <2>22. CASE StoreCorrection
    BY <2>22 DEF StoreCorrection
  <2>23. CASE TellDisplaced
    BY <2>23 DEF TellDisplaced, Tell
  <2>24. CASE Close
    BY <2>24 DEF Close
  <2>25. CASE LogConfirmation
    BY <2>25 DEF LogConfirmation, Log
  <2>26. ASSUME NEW v \in Verdicts, NEW medium \in BOOLEAN, Search(v, medium) PROVE pc = "classify"
    BY <2>26 DEF Search
  <2>27. ASSUME NEW confirmed \in BOOLEAN, Verify(confirmed) PROVE pc = "classify"
    BY <2>27 DEF Verify
  <2>28. CASE SearchFails
    BY <2>28 DEF SearchFails
  <2>29. CASE UNCHANGED vars
    BY <2>29 DEF vars
  <2> HIDE DEF TypeOK, queue, effects, Closed
  <2>30. QED
    BY <2>1, <2>2, <2>3, <2>4, <2>5, <2>6, <2>7, <2>8, <2>9, <2>10, <2>11, <2>12, <2>13, <2>14,
       <2>15, <2>16, <2>17, <2>18, <2>19, <2>20, <2>21, <2>22, <2>23, <2>24, <2>25, <2>26, <2>27,
       <2>28, <2>29 DEF Next, Progress, Answered
<1>4. QED BY <1>1, <1>2, <1>3, TypeCorrect, PTL DEF Spec, QueuedUnderLimits
=============================================================================
