--------------------------- MODULE Outbox_proofs ---------------------------
(***************************************************************************)
(* Theorems about Outbox, for any number of reminders, rows, handlers and  *)
(* failures; and that its pushes keep the promise of PushPromise.          *)
(***************************************************************************)
EXTENDS Outbox, FiniteSetTheorems, TLAPS

LEMMA Anything == AnySource \in Sources /\ AnyNote \in Notes /\ AnyPreferences \in Preferences
BY SomeAssumption, PreferencesAssumption DEF AnySource, AnyNote, AnyPreferences

LEMMA RouteType ==
  ASSUME NEW p, NEW u
  PROVE  Route(p, u) \in {"off", "push", "passive"}
BY DEF Route

LEMMA CurIsSource ==
  ASSUME TypeOK
  PROVE  cur \in Sources
BY DEF TypeOK

LEMMA PutType ==
  ASSUME TypeOK, NEW n \in Notes, NEW ch \in {"push", "passive"}, NEW s \in Sources, Put(n, ch, s)
  PROVE  /\ status' \in [Notes -> {"none", "pending", "delivered", "failed", "expired"}]
         /\ channel' \in [Notes -> {"push", "passive"}]
         /\ source' \in [Notes -> Sources]
BY DEF Put, TypeOK

-----------------------------------------------------------------------------
(* Types.                                                                  *)

LEMMA TypeInit == Init => TypeOK
<1> SUFFICES ASSUME Init PROVE TypeOK OBVIOUS
<1>1. /\ prefs \in Preferences /\ wsnap \in Preferences /\ cur \in Sources /\ wcur \in Notes
      /\ faults \in 0..MaxFaults
  BY Anything, FaultsAssumption DEF Init
<1>2. /\ status \in [Notes -> {"none", "pending", "delivered", "failed", "expired"}]
      /\ channel \in [Notes -> {"push", "passive"}] /\ source \in [Notes -> Sources]
      /\ pushed \in [Notes -> Nat] /\ shown \in [Notes -> Nat]
  BY Anything DEF Init
<1>3. QED BY <1>1, <1>2 DEF Init, TypeOK

LEMMA TypeStep == TypeOK /\ [Next]_vars => TypeOK'
<1> SUFFICES ASSUME TypeOK, [Next]_vars PROVE TypeOK' OBVIOUS
<1>1. ASSUME NEW r \in Reminders, Schedule(r) PROVE TypeOK'
  BY <1>1 DEF Schedule, TypeOK, history, handlers, worker, tick, memory, box
<1>2. ASSUME NEW r \in Reminders, FallDue(r) PROVE TypeOK'
  BY <1>2 DEF FallDue, TypeOK, history, handlers, worker, tick, memory, box
<1>3. ASSUME NEW r \in Reminders, Archive(r) PROVE TypeOK'
  BY <1>3 DEF Archive, TypeOK, history, handlers, worker, tick, memory, box
<1>4. ASSUME NEW p \in Preferences, SetPreferences(p) PROVE TypeOK'
  BY <1>4 DEF SetPreferences, TypeOK, history, handlers, worker, tick, memory, box
<1>5. ASSUME NEW n \in Notes, GetLate(n) PROVE TypeOK'
  BY <1>5 DEF GetLate, TypeOK, history, handlers, worker, tick, memory, box
<1>6. ASSUME NEW S \in SUBSET Reminders, BeginReminders(S) PROVE TypeOK'
  BY <1>6 DEF BeginReminders, TypeOK, history, handlers, worker, tick, memory, box
<1>7. ASSUME NEW r \in Reminders, Boost(r) PROVE TypeOK'
  BY <1>7 DEF Boost, Sources, TypeOK, history, handlers, worker, tick, memory, box
<1>8. ASSUME Clear PROVE TypeOK'
  BY <1>8 DEF Clear, TypeOK, history, handlers, worker, tick, memory, box
<1>9. ASSUME EndReminders PROVE TypeOK'
  BY <1>9 DEF EndReminders, TypeOK, history, handlers, worker, tick, memory, box
<1>10. ASSUME NEW k \in Milestones, BeginMilestone(k) PROVE TypeOK'
  BY <1>10 DEF BeginMilestone, Sources, TypeOK, history, handlers, worker, tick, memory, box
<1>11. ASSUME ReadPreferences PROVE TypeOK'
  BY <1>11, RouteType DEF ReadPreferences, TypeOK, history, handlers, worker, tick, memory, box
<1>12. ASSUME NEW n \in Notes, Insert(n) PROVE TypeOK'
  BY <1>12, PutType DEF Insert, TypeOK, history, handlers, worker, tick, memory, box
<1>13. ASSUME Log PROVE TypeOK'
  BY <1>13, Anything, FaultsAssumption DEF Log, TypeOK, WorkerReset, history, handlers, worker, tick, memory, box
<1>14. ASSUME FailTick PROVE TypeOK'
  BY <1>14, Anything, FaultsAssumption DEF FailTick, TypeOK, WorkerReset, history, handlers, worker, tick, memory, box
<1>15. ASSUME OtherReads PROVE TypeOK'
  BY <1>15, RouteType DEF OtherReads, TypeOK, history, handlers, worker, tick, memory, box
<1>16. ASSUME NEW n \in Notes, OtherInserts(n) PROVE TypeOK'
  BY <1>16, PutType, Anything DEF OtherInserts, TypeOK, history, handlers, worker, tick, memory, box
<1>17. ASSUME Expire PROVE TypeOK'
  BY <1>17 DEF Expire, TypeOK, history, handlers, worker, tick, memory, box
<1>18. ASSUME NEW S \in SUBSET Notes, Select(S) PROVE TypeOK'
  BY <1>18 DEF Select, TypeOK, history, handlers, worker, tick, memory, box
<1>19. ASSUME NEW n \in Notes, Skip(n) PROVE TypeOK'
  BY <1>19 DEF Skip, TypeOK, history, handlers, worker, tick, memory, box
<1>20. ASSUME NEW n \in Notes, NEW ok \in BOOLEAN, Send(n, ok) PROVE TypeOK'
  BY <1>20, Anything, FaultsAssumption DEF Send, TypeOK, WorkerReset, history, handlers, worker, tick, memory, box
<1>21. ASSUME MarkSent PROVE TypeOK'
  BY <1>21, Anything, FaultsAssumption DEF MarkSent, TypeOK, WorkerReset, history, handlers, worker, tick, memory, box
<1>22. ASSUME EndRound PROVE TypeOK'
  BY <1>22, Anything, FaultsAssumption DEF EndRound, TypeOK, WorkerReset, history, handlers, worker, tick, memory, box
<1>23. ASSUME FailRound PROVE TypeOK'
  <2>1. wpc' = "idle" /\ wq' = {} /\ wcur' \in Notes /\ wsnap' \in Preferences /\ wok' = FALSE
    BY <1>23, Anything DEF FailRound, WorkerReset
  <2>2. faults' \in 0..MaxFaults
    BY <1>23, FaultsAssumption DEF FailRound, TypeOK
  <2>3. QED BY <1>23, <2>1, <2>2 DEF FailRound, TypeOK, handlers, tick, memory, box
<1>24. ASSUME NEW h \in Handlers, NEW S \in SUBSET Notes, Assemble(h, S) PROVE TypeOK'
  BY <1>24 DEF Assemble, TypeOK, history, handlers, worker, tick, memory, box
<1>25. ASSUME NEW h \in Handlers, NEW n \in Notes, MarkShown(h, n) PROVE TypeOK'
  BY <1>25 DEF MarkShown, TypeOK, history, handlers, worker, tick, memory, box
<1>26. ASSUME NEW h \in Handlers, Answer(h) PROVE TypeOK'
  BY <1>26 DEF Answer, TypeOK, history, handlers, worker, tick, memory, box
<1>27. ASSUME NEW h \in Handlers, FailMark(h) PROVE TypeOK'
  BY <1>27, Anything, FaultsAssumption DEF FailMark, TypeOK, WorkerReset, history, handlers, worker, tick, memory, box
<1>28. ASSUME NEW h \in Handlers, FailAnswer(h) PROVE TypeOK'
  BY <1>28, Anything, FaultsAssumption DEF FailAnswer, TypeOK, WorkerReset, history, handlers, worker, tick, memory, box
<1>29. ASSUME Restart PROVE TypeOK'
  <2>1. wpc' = "idle" /\ wq' = {} /\ wcur' \in Notes /\ wsnap' \in Preferences /\ wok' = FALSE
    BY <1>29, Anything DEF Restart, WorkerReset
  <2>2. faults' \in 0..MaxFaults
    BY <1>29, FaultsAssumption DEF Restart, TypeOK
  <2>3. cur' \in Sources
    BY <1>29, Anything DEF Restart
  <2>4. QED BY <1>29, <2>1, <2>2, <2>3 DEF Restart, TypeOK, memory, box
<1>30. ASSUME UNCHANGED vars PROVE TypeOK'
  BY <1>30 DEF vars, TypeOK, history, handlers, worker, tick, memory, box
<1>31. QED
  BY <1>1, <1>2, <1>3, <1>4, <1>5, <1>6, <1>7, <1>8, <1>9, <1>10, <1>11, <1>12, <1>13, <1>14, <1>15,
     <1>16, <1>17, <1>18, <1>19, <1>20, <1>21, <1>22, <1>23, <1>24, <1>25, <1>26, <1>27, <1>28, <1>29, <1>30
  DEF Next, Surroundings, Tick, Round, Serve

(* Every variable keeps its type, for all values of the constants.         *)
THEOREM TypeCorrect == Spec => []TypeOK
BY TypeInit, TypeStep, PTL DEF Spec
-----------------------------------------------------------------------------
(* The worker and the handlers.                                            *)

\* What the worker has selected is pending until it is marked; handlers hold
\* passive rows only.
WorkInv ==
  /\ wpc \in {"idle", "select"} => wq = {}
  /\ \A n \in wq : status[n] = "pending" /\ channel[n] = "push"
  /\ wpc = "mark" => status[wcur] = "pending" /\ channel[wcur] = "push" /\ wcur \notin wq
  /\ \A h \in Handlers : \A n \in hmark[h] :
       status[n] # "none" /\ channel[n] = "passive" /\ n \in hshow[h]

Visible == <<status, channel, worker, handlers, pushed, shown, faults>>

\* Most steps do not concern rows, worker or handlers.
LEMMA VisibleSteps ==
  ASSUME [Next]_vars
  PROVE  \/ \E n \in Notes : Insert(n) \/ OtherInserts(n) \/ Skip(n)
         \/ \E n \in Notes, ok \in BOOLEAN : Send(n, ok)
         \/ Expire \/ MarkSent \/ EndRound \/ FailRound \/ FailTick \/ Restart
         \/ \E S \in SUBSET Notes : Select(S)
         \/ \E h \in Handlers : Serve(h) \/ FailMark(h) \/ FailAnswer(h)
         \/ UNCHANGED Visible
<1>1. CASE Surroundings
  BY <1>1 DEF Surroundings, Schedule, FallDue, Archive, SetPreferences, GetLate, Visible, box, handlers, worker, history
<1>2. CASE Tick
  <2>1. CASE \E S \in SUBSET Reminders : BeginReminders(S)
    BY <2>1 DEF BeginReminders, Visible, box, handlers, worker, history
  <2>2. CASE \E r \in Reminders : Boost(r)
    BY <2>2 DEF Boost, Visible, box, handlers, worker, history
  <2>3. CASE Clear \/ EndReminders \/ Log
    BY <2>3 DEF Clear, EndReminders, Log, Visible, box, handlers, worker, history
  <2>4. CASE ReadPreferences
    BY <2>4 DEF ReadPreferences, Visible, box, handlers, worker, history
  <2>5. QED BY <1>2, <2>1, <2>2, <2>3, <2>4 DEF Tick
<1>3. CASE OtherReads \/ \E k \in Milestones : BeginMilestone(k)
  BY <1>3 DEF OtherReads, BeginMilestone, Visible, box, handlers, worker, history
<1>4. CASE UNCHANGED vars
  BY <1>4 DEF vars, Visible, box, handlers, worker, history
<1>5. QED BY <1>1, <1>2, <1>3, <1>4 DEF Next, Round

LEMMA WorkInit == Init => WorkInv
BY DEF Init, WorkInv

LEMMA WorkStep == TypeOK /\ WorkInv /\ [Next]_vars => WorkInv'
<1> SUFFICES ASSUME TypeOK, WorkInv, [Next]_vars PROVE WorkInv' OBVIOUS
<1>1. ASSUME NEW n \in Notes, Insert(n) PROVE WorkInv'
  BY <1>1 DEF Insert, Put, WorkInv, TypeOK, worker, handlers
<1>2. ASSUME NEW n \in Notes, OtherInserts(n) PROVE WorkInv'
  BY <1>2 DEF OtherInserts, Put, WorkInv, TypeOK, worker, handlers
<1>3. ASSUME NEW n \in Notes, Skip(n) PROVE WorkInv'
  BY <1>3 DEF Skip, WorkInv, TypeOK, box, handlers
<1>4. ASSUME NEW n \in Notes, NEW ok \in BOOLEAN, Send(n, ok) PROVE WorkInv'
  BY <1>4 DEF Send, WorkInv, TypeOK, box, handlers
<1>5. CASE Expire
  BY <1>5 DEF Expire, WorkInv, TypeOK, handlers
<1>6. CASE MarkSent
  BY <1>6 DEF MarkSent, WorkInv, TypeOK, handlers
<1>7. CASE EndRound
  BY <1>7 DEF EndRound, WorkInv, TypeOK, box, handlers
<1>8. CASE FailRound
  BY <1>8 DEF FailRound, WorkerReset, WorkInv, TypeOK, box, handlers
<1>9. CASE FailTick
  BY <1>9 DEF FailTick, WorkInv, box, worker, handlers
<1>10. CASE Restart
  BY <1>10 DEF Restart, WorkerReset, WorkInv, box
<1>11. ASSUME NEW S \in SUBSET Notes, Select(S) PROVE WorkInv'
  BY <1>11 DEF Select, Limited, Pending, WorkInv, TypeOK, box, handlers
<1>12. ASSUME NEW h \in Handlers, NEW S \in SUBSET Notes, Assemble(h, S) PROVE WorkInv'
  BY <1>12 DEF Assemble, Limited, Pending, WorkInv, TypeOK, box, worker
<1>13. ASSUME NEW h \in Handlers, NEW n \in Notes, MarkShown(h, n) PROVE WorkInv'
  BY <1>13 DEF MarkShown, WorkInv, TypeOK, worker
<1>14. ASSUME NEW h \in Handlers, Answer(h) PROVE WorkInv'
  BY <1>14 DEF Answer, WorkInv, TypeOK, box, worker
<1>15. ASSUME NEW h \in Handlers, FailMark(h) PROVE WorkInv'
  BY <1>15 DEF FailMark, WorkInv, TypeOK, box, worker
<1>16. ASSUME NEW h \in Handlers, FailAnswer(h) PROVE WorkInv'
  BY <1>16 DEF FailAnswer, WorkInv, TypeOK, box, worker
<1>17. CASE UNCHANGED Visible
  BY <1>17 DEF Visible, WorkInv, worker, handlers
<1>18. QED
  BY <1>1, <1>2, <1>3, <1>4, <1>5, <1>6, <1>7, <1>8, <1>9, <1>10, <1>11, <1>12, <1>13,
     <1>14, <1>15, <1>16, <1>17, VisibleSteps DEF Serve

LEMMA Working == Spec => [](TypeOK /\ WorkInv)
<1>1. Init => TypeOK /\ WorkInv
  BY TypeInit, WorkInit
<1>2. TypeOK /\ WorkInv /\ [Next]_vars => (TypeOK /\ WorkInv)'
  BY TypeStep, WorkStep
<1>3. QED BY <1>1, <1>2, PTL DEF Spec

-----------------------------------------------------------------------------
(* Closed rows.                                                            *)

LEMMA ClosedStep ==
  ASSUME TypeOK, WorkInv, [Next]_vars, NEW n \in Notes, status[n] \in Closed
  PROVE  status'[n] \in (IF channel[n] = "push" THEN {status[n]} ELSE {status[n], "delivered"})
<1> USE DEF Closed
<1>1. ASSUME NEW k \in Notes, Insert(k) \/ OtherInserts(k) PROVE status'[n] = status[n]
  BY <1>1 DEF Insert, OtherInserts, Put, TypeOK
<1>2. CASE Expire
  BY <1>2 DEF Expire, TypeOK
<1>3. CASE MarkSent
  BY <1>3 DEF MarkSent, WorkInv, TypeOK
<1>4. ASSUME NEW h \in Handlers, NEW k \in Notes, MarkShown(h, k)
      PROVE  status'[n] = status[n] \/ (channel[n] # "push" /\ status'[n] = "delivered")
  <2>1. channel[k] = "passive" /\ status' = [status EXCEPT ![k] = "delivered"]
    BY <1>4 DEF MarkShown, WorkInv
  <2>2. CASE n = k
    BY <2>1, <2>2 DEF TypeOK
  <2>3. CASE n # k
    <3>1. status'[n] = status[n]
      BY <2>1, <2>3 DEF TypeOK
    <3>2. QED BY <3>1
  <2>4. QED BY <2>2, <2>3
<1>5. ASSUME NEW k \in Notes, Skip(k) PROVE status' = status
  BY <1>5 DEF Skip, box
<1>6. ASSUME NEW k \in Notes, NEW ok \in BOOLEAN, Send(k, ok) PROVE status' = status
  BY <1>6 DEF Send, box
<1>7. CASE EndRound \/ FailRound \/ FailTick \/ Restart
  BY <1>7 DEF EndRound, FailRound, FailTick, Restart, box
<1>8. ASSUME NEW S \in SUBSET Notes, Select(S) PROVE status' = status
  BY <1>8 DEF Select, box
<1>9. ASSUME NEW h \in Handlers, Answer(h) \/ FailMark(h) \/ FailAnswer(h) PROVE status' = status
  BY <1>9 DEF Answer, FailMark, FailAnswer, box
<1>10. ASSUME NEW h \in Handlers, NEW S \in SUBSET Notes, Assemble(h, S) PROVE status' = status
  BY <1>10 DEF Assemble, box
<1>11. CASE UNCHANGED Visible
  BY <1>11 DEF Visible
<1>12. QED
  BY <1>1, <1>2, <1>3, <1>4, <1>5, <1>6, <1>7, <1>8, <1>9, <1>10, <1>11, VisibleSteps DEF Serve

(* A closed push stays as it is, and no row is ever opened again.          *)
THEOREM ClosedRowsStay == Spec => ClosedForGood
<1>1. TypeOK /\ WorkInv /\ [Next]_vars =>
        [\A n \in Notes : status[n] \in Closed =>
           status'[n] \in (IF channel[n] = "push" THEN {status[n]} ELSE {status[n], "delivered"})]_vars
  BY ClosedStep
<1>2. QED BY <1>1, Working, PTL DEF Spec, ClosedForGood

-----------------------------------------------------------------------------
(* Pushes.                                                                 *)

\* A row that may still be sent has been sent no more often than things failed.
PushInv ==
  \A n \in Notes :
    /\ pushed[n] <= 1 + faults
    /\ status[n] \in {"none", "pending"} /\ ~InFlight(n) => pushed[n] <= faults

LEMMA PushInit == Init => PushInv
BY FaultsAssumption DEF Init, PushInv

LEMMA PushStep == TypeOK /\ WorkInv /\ PushInv /\ [Next]_vars => PushInv'
<1> SUFFICES ASSUME TypeOK, WorkInv, PushInv, [Next]_vars PROVE PushInv' OBVIOUS
<1> USE DEF InFlight
<1>0. faults \in Nat /\ pushed \in [Notes -> Nat]
  BY FaultsAssumption DEF TypeOK
<1>1. ASSUME NEW n \in Notes, Insert(n) \/ OtherInserts(n) PROVE PushInv'
  <2>1. /\ status[n] = "none" /\ status' = [status EXCEPT ![n] = "pending"]
        /\ pushed' = pushed /\ faults' = faults /\ wpc' = wpc /\ wcur' = wcur
    BY <1>1 DEF Insert, OtherInserts, Put, worker, history
  <2>2. QED BY <1>0, <2>1 DEF PushInv, TypeOK
<1>2. ASSUME NEW n \in Notes, Skip(n) PROVE PushInv'
  BY <1>0, <1>2 DEF Skip, PushInv, box, history
<1>3. ASSUME NEW n \in Notes, NEW ok \in BOOLEAN, Send(n, ok) PROVE PushInv'
  <2>1. pushed[n] <= faults
    BY <1>3 DEF Send, PushInv, WorkInv
  <2>2. /\ wpc' = "mark" /\ wcur' = n /\ wpc # "mark" /\ status' = status
        /\ \/ pushed' = [pushed EXCEPT ![n] = @ + 1] /\ faults' = faults
           \/ pushed' = pushed /\ faults' = faults
           \/ pushed' = [pushed EXCEPT ![n] = @ + 1] /\ faults' = faults + 1
    BY <1>0, <1>3 DEF Send, box
  <2>3. QED BY <1>0, <2>1, <2>2 DEF PushInv
<1>4. CASE Expire
  BY <1>0, <1>4 DEF Expire, PushInv, TypeOK, history
<1>5. CASE MarkSent
  BY <1>0, <1>5 DEF MarkSent, PushInv, TypeOK, history
<1>6. CASE EndRound
  BY <1>0, <1>6 DEF EndRound, PushInv, box, history
<1>7. CASE FailRound
  BY <1>0, <1>7 DEF FailRound, WorkerReset, PushInv, box
<1>8. CASE FailTick
  BY <1>0, <1>8 DEF FailTick, PushInv, box, worker
<1>9. CASE Restart
  BY <1>0, <1>9 DEF Restart, WorkerReset, PushInv, box
<1>10. ASSUME NEW S \in SUBSET Notes, Select(S) PROVE PushInv'
  BY <1>0, <1>10 DEF Select, PushInv, box, history
<1>11. ASSUME NEW h \in Handlers, NEW S \in SUBSET Notes, Assemble(h, S) PROVE PushInv'
  BY <1>0, <1>11 DEF Assemble, PushInv, box, worker, history
<1>12. ASSUME NEW h \in Handlers, NEW n \in Notes, MarkShown(h, n) PROVE PushInv'
  BY <1>0, <1>12 DEF MarkShown, PushInv, TypeOK, worker, history
<1>13. ASSUME NEW h \in Handlers, Answer(h) PROVE PushInv'
  BY <1>0, <1>13 DEF Answer, PushInv, box, worker
<1>14. ASSUME NEW h \in Handlers, FailMark(h) \/ FailAnswer(h) PROVE PushInv'
  BY <1>0, <1>14 DEF FailMark, FailAnswer, PushInv, box, worker
<1>15. CASE UNCHANGED Visible
  BY <1>15 DEF Visible, PushInv, worker
<1>16. QED
  BY <1>1, <1>2, <1>3, <1>4, <1>5, <1>6, <1>7, <1>8, <1>9, <1>10, <1>11, <1>12, <1>13,
     <1>14, <1>15, VisibleSteps DEF Serve

(* A push reaches the user once, and once more for every failure.          *)
THEOREM PushesBounded == Spec => []PushedOnce
<1>1. Init => PushInv
  BY PushInit
<1>2. TypeOK /\ WorkInv /\ PushInv /\ [Next]_vars => PushInv'
  BY PushStep
<1>3. PushInv => PushedOnce
  BY DEF PushInv, PushedOnce
<1>4. QED BY <1>1, <1>2, <1>3, Working, PTL DEF Spec
-----------------------------------------------------------------------------
(* The tick.                                                               *)

\* A reminder the tick holds is due until it is cleared, and boosted before.
TickInv ==
  /\ tpc = "idle" => due = {}
  /\ tpc \in {"prefs", "insert", "log"} /\ cur \notin Reminders => due = {}
  /\ tpc = "clear" => cur \in Reminders /\ remind[cur] = "due" /\ boosted[cur] /\ cur \notin due
  /\ \A r \in due : remind[r] = "due"
  /\ tpc \in {"prefs", "insert", "log"} /\ cur \in Reminders => remind[cur] = "cleared"
  /\ \A r \in Reminders : remind[r] = "cleared" => boosted[r]

\* What a step of the other actors leaves to the tick.
TickQuiet ==
  /\ UNCHANGED <<remind, boosted, logged, tick, told>> /\ faults' >= faults
  /\ source' \in [Notes -> Sources]
  /\ \A n \in Notes \ OtherNotes : source'[n] = source[n] /\ (status'[n] = "none" <=> status[n] = "none")

LEMMA TickSteps ==
  ASSUME TypeOK, WorkInv, [Next]_vars
  PROVE  \/ \E r \in Reminders : Schedule(r) \/ FallDue(r) \/ Boost(r)
         \/ \E S \in SUBSET Reminders : BeginReminders(S)
         \/ \E k \in Milestones : BeginMilestone(k)
         \/ \E n \in Notes : Insert(n)
         \/ Clear \/ EndReminders \/ ReadPreferences \/ Log \/ FailTick \/ Restart
         \/ TickQuiet
<1>0. faults \in Nat /\ source \in [Notes -> Sources]
  BY FaultsAssumption DEF TypeOK
<1>1. ASSUME NEW r \in Reminders, Archive(r) PROVE TickQuiet
  BY <1>0, <1>1 DEF Archive, TickQuiet, box, history
<1>2. ASSUME NEW p \in Preferences, SetPreferences(p) PROVE TickQuiet
  BY <1>0, <1>2 DEF SetPreferences, TickQuiet, box, memory, history
<1>3. ASSUME NEW n \in Notes, GetLate(n) PROVE TickQuiet
  BY <1>0, <1>3 DEF GetLate, TickQuiet, memory, history
<1>4. CASE OtherReads
  BY <1>0, <1>4 DEF OtherReads, TickQuiet, box, memory, history
<1>5. ASSUME NEW n \in Notes, OtherInserts(n) PROVE TickQuiet
  BY <1>0, <1>5, Anything DEF OtherInserts, Put, TypeOK, TickQuiet, memory, history
<1>6. CASE Expire
  BY <1>0, <1>6 DEF Expire, TypeOK, TickQuiet, memory, history
<1>7. ASSUME NEW S \in SUBSET Notes, Select(S) PROVE TickQuiet
  BY <1>0, <1>7 DEF Select, TickQuiet, box, memory, history
<1>8. ASSUME NEW n \in Notes, Skip(n) PROVE TickQuiet
  BY <1>0, <1>8 DEF Skip, TickQuiet, box, memory, history
<1>9. ASSUME NEW n \in Notes, NEW ok \in BOOLEAN, Send(n, ok) PROVE TickQuiet
  BY <1>0, <1>9 DEF Send, TickQuiet, box, memory
<1>10. CASE MarkSent
  <2>1. status[wcur] # "none"
    BY <1>10 DEF MarkSent, WorkInv
  <2>2. QED BY <1>0, <1>10, <2>1 DEF MarkSent, TypeOK, TickQuiet, memory, history
<1>11. CASE EndRound \/ FailRound
  BY <1>0, <1>11 DEF EndRound, FailRound, TickQuiet, box, memory, history
<1>12. ASSUME NEW h \in Handlers, NEW S \in SUBSET Notes, Assemble(h, S) PROVE TickQuiet
  BY <1>0, <1>12 DEF Assemble, TickQuiet, box, memory, history
<1>13. ASSUME NEW h \in Handlers, NEW n \in Notes, MarkShown(h, n) PROVE TickQuiet
  <2>1. status[n] # "none"
    BY <1>13 DEF MarkShown, WorkInv
  <2>2. QED BY <1>0, <1>13, <2>1 DEF MarkShown, TypeOK, TickQuiet, memory, history
<1>14. ASSUME NEW h \in Handlers, Answer(h) PROVE TickQuiet
  BY <1>0, <1>14 DEF Answer, TickQuiet, box, memory
<1>15. ASSUME NEW h \in Handlers, FailMark(h) \/ FailAnswer(h) PROVE TickQuiet
  BY <1>0, <1>15 DEF FailMark, FailAnswer, TickQuiet, box, memory
<1>16. CASE UNCHANGED vars
  BY <1>0, <1>16 DEF vars, TickQuiet, box, memory, history
<1>17. QED
  BY <1>1, <1>2, <1>3, <1>4, <1>5, <1>6, <1>7, <1>8, <1>9, <1>10, <1>11, <1>12, <1>13,
     <1>14, <1>15, <1>16 DEF Next, Surroundings, Tick, Round, Serve

LEMMA TickInit == Init => TickInv
BY DEF Init, TickInv

LEMMA TickStep == TypeOK /\ WorkInv /\ TickInv /\ [Next]_vars => TickInv'
<1> SUFFICES ASSUME TypeOK, WorkInv, TickInv, [Next]_vars PROVE TickInv' OBVIOUS
<1>0. remind \in [Reminders -> {"unset", "armed", "due", "cleared"}] /\ boosted \in [Reminders -> BOOLEAN]
      /\ due \subseteq Reminders /\ cur \in Sources
  BY DEF TypeOK
<1>1. ASSUME NEW r \in Reminders, Schedule(r) \/ FallDue(r) PROVE TickInv'
  BY <1>0, <1>1 DEF Schedule, FallDue, TickInv, tick
<1>2. ASSUME NEW r \in Reminders, Boost(r) PROVE TickInv'
  BY <1>0, <1>2 DEF Boost, TickInv
<1>3. ASSUME NEW S \in SUBSET Reminders, BeginReminders(S) PROVE TickInv'
  BY <1>0, <1>3 DEF BeginReminders, DueNow, Limited, TickInv, memory
<1>4. ASSUME NEW k \in Milestones, BeginMilestone(k) PROVE TickInv'
  BY <1>0, <1>4, SourcesAssumption DEF BeginMilestone, TickInv, memory
<1>5. ASSUME NEW n \in Notes, Insert(n) PROVE TickInv'
  BY <1>0, <1>5 DEF Insert, TickInv, memory
<1>6. CASE Clear
  BY <1>0, <1>6 DEF Clear, TickInv
<1>7. CASE EndReminders
  BY <1>7 DEF EndReminders, TickInv, memory
<1>8. CASE ReadPreferences
  BY <1>8 DEF ReadPreferences, TickInv, memory
<1>9. CASE Log
  BY <1>9 DEF Log, TickInv
<1>10. CASE FailTick
  BY <1>10 DEF FailTick, TickInv, memory
<1>11. CASE Restart
  BY <1>11 DEF Restart, TickInv, memory
<1>12. CASE TickQuiet
  BY <1>12 DEF TickQuiet, TickInv, tick
<1>13. QED
  BY <1>1, <1>2, <1>3, <1>4, <1>5, <1>6, <1>7, <1>8, <1>9, <1>10, <1>11, <1>12, TickSteps

LEMMA Ticking == Spec => [](TypeOK /\ WorkInv /\ TickInv)
<1>1. Init => TickInv
  BY TickInit
<1>2. TypeOK /\ WorkInv /\ TickInv /\ [Next]_vars => TickInv'
  BY TickStep
<1>3. QED BY <1>1, <1>2, Working, PTL DEF Spec

\* How the rows of one source may change: the tick adds one, or nothing does.
RowsSame == \A n \in Notes, x \in Sources : Queued(n, x)' <=> Queued(n, x)

LEMMA RowsStep ==
  ASSUME TypeOK, WorkInv, [Next]_vars
  PROVE  (\E n \in Notes : Insert(n)) \/ RowsSame
<1>1. ASSUME box' = box PROVE RowsSame
  BY <1>1 DEF box, RowsSame, Queued
<1>2. CASE TickQuiet
  BY <1>2 DEF TickQuiet, RowsSame, Queued
<1>3. ASSUME NEW r \in Reminders, Schedule(r) \/ FallDue(r) \/ Boost(r) PROVE box' = box
  BY <1>3 DEF Schedule, FallDue, Boost, box
<1>4. ASSUME NEW S \in SUBSET Reminders, BeginReminders(S) PROVE box' = box
  BY <1>4 DEF BeginReminders, box
<1>5. ASSUME NEW k \in Milestones, BeginMilestone(k) PROVE box' = box
  BY <1>5 DEF BeginMilestone, box
<1>6. CASE Clear \/ EndReminders \/ ReadPreferences \/ Log \/ FailTick \/ Restart
  BY <1>1, <1>6 DEF Clear, EndReminders, ReadPreferences, Log, FailTick, Restart, box
<1>7. QED BY <1>1, <1>2, <1>3, <1>4, <1>5, <1>6, TickSteps

LEMMA InsertRows ==
  ASSUME TypeOK, NEW n \in Notes, Insert(n)
  PROVE  /\ tpc = "insert" /\ tpc' = "log" /\ cur' = cur /\ n \notin OtherNotes
         /\ \A x \in Sources : ~Queued(n, x)
         /\ \A m \in Notes, x \in Sources : Queued(m, x)' <=> Queued(m, x) \/ (m = n /\ x = cur)
<1>1. /\ status[n] = "none" /\ n \notin OtherNotes
      /\ status' = [status EXCEPT ![n] = "pending"] /\ source' = [source EXCEPT ![n] = cur]
      /\ tpc = "insert" /\ tpc' = "log" /\ cur' = cur
  BY DEF Insert, Put
<1>2. QED BY <1>1 DEF Queued, TypeOK

-----------------------------------------------------------------------------
(* Reminders are queued once.                                              *)

ReminderInv ==
  \A r \in Reminders : \A n \in Notes : Queued(n, r) =>
    /\ remind[r] = "cleared" /\ ~InTick(r)
    /\ \A m \in Notes : Queued(m, r) => m = n

LEMMA ReminderStep == TypeOK /\ WorkInv /\ TickInv /\ ReminderInv /\ [Next]_vars => ReminderInv'
<1> SUFFICES ASSUME TypeOK, WorkInv, TickInv, ReminderInv, [Next]_vars PROVE ReminderInv' OBVIOUS
<1> USE DEF InTick, ReminderInv
<1>0. Reminders \subseteq Sources /\ remind \in [Reminders -> {"unset", "armed", "due", "cleared"}]
  BY DEF Sources, TypeOK
<1>1. ASSUME NEW n \in Notes, Insert(n) PROVE ReminderInv'
  <2>1. remind' = remind
    BY <1>1 DEF Insert, memory
  <2>2. cur \in Reminders => remind[cur] = "cleared" /\ \A m \in Notes : ~Queued(m, cur)
    BY <1>1, InsertRows DEF TickInv
  <2>3. QED BY <1>0, <1>1, <2>1, <2>2, InsertRows
<1>2. ASSUME RowsSame,
             \A r \in Reminders : remind[r] = "cleared" => remind'[r] = "cleared",
             \A r \in Reminders : remind[r] = "cleared" /\ InTick(r)' => InTick(r)
      PROVE  ReminderInv'
  BY <1>0, <1>2 DEF RowsSame
<1>3. ASSUME NEW r \in Reminders, Schedule(r) \/ FallDue(r)
      PROVE  /\ \A s \in Reminders : remind[s] = "cleared" => remind'[s] = "cleared"
             /\ tpc' = tpc /\ cur' = cur
  BY <1>0, <1>3 DEF Schedule, FallDue, tick
<1>4. ASSUME NEW r \in Reminders, Boost(r) PROVE remind' = remind /\ tpc' = "clear"
  BY <1>4 DEF Boost
<1>5. ASSUME NEW S \in SUBSET Reminders, BeginReminders(S) PROVE remind' = remind /\ tpc' = "next"
  BY <1>5 DEF BeginReminders, memory
<1>6. ASSUME NEW k \in Milestones, BeginMilestone(k)
      PROVE  remind' = remind /\ cur' \notin Reminders
  BY <1>6, SourcesAssumption DEF BeginMilestone, memory
<1>7. ASSUME Clear
      PROVE  /\ \A r \in Reminders : remind[r] = "cleared" => remind'[r] = "cleared"
             /\ cur' = cur /\ remind[cur] = "due"
  BY <1>0, <1>7 DEF Clear, TickInv
<1>8. ASSUME ReadPreferences PROVE remind' = remind /\ tpc = "prefs" /\ cur' = cur
  BY <1>8 DEF ReadPreferences, memory
<1>9. CASE EndReminders \/ Log \/ FailTick \/ Restart
  <2>1. remind' = remind /\ tpc' \in {"idle", "next"}
    BY <1>9 DEF EndReminders, Log, FailTick, Restart, memory
  <2>2. QED BY <1>1, <1>2, <2>1, RowsStep
<1>10. CASE TickQuiet
  BY <1>1, <1>2, <1>10, RowsStep DEF TickQuiet, tick
<1>11. QED
  BY <1>1, <1>2, <1>3, <1>4, <1>5, <1>6, <1>7, <1>8, <1>9, <1>10, TickSteps, RowsStep

(* Whatever fails, a reminder is put into the outbox at most once.         *)
THEOREM RemindersQueuedOnce == Spec => []ReminderQueuedOnce
<1>1. Init => ReminderInv
  BY DEF Init, ReminderInv, Queued
<1>2. TypeOK /\ WorkInv /\ TickInv /\ ReminderInv /\ [Next]_vars => ReminderInv'
  BY ReminderStep
<1>3. ReminderInv => ReminderQueuedOnce
  BY DEF ReminderInv, ReminderQueuedOnce
<1>4. QED BY <1>1, <1>2, <1>3, Ticking, PTL DEF Spec

-----------------------------------------------------------------------------
(* Forgotten reminders.                                                    *)

ForgottenInv == IsFiniteSet(Forgotten) /\ Cardinality(Forgotten) <= faults

\* One failure adds at most the reminder the tick has in hand.
LEMMA FewMore ==
  ASSUME NEW A, IsFiniteSet(A), NEW x, NEW B \in SUBSET (A \cup {x}), NEW f \in Nat,
         Cardinality(A) <= f
  PROVE  IsFiniteSet(B) /\ Cardinality(B) <= f + 1
<1>1. /\ IsFiniteSet(A \cup {x}) /\ Cardinality(A) \in Nat
      /\ Cardinality(A \cup {x}) = IF x \in A THEN Cardinality(A) ELSE Cardinality(A) + 1
  BY FS_AddElement, FS_CardinalityType
<1>2. IsFiniteSet(B) /\ Cardinality(B) <= Cardinality(A \cup {x})
  BY <1>1, FS_Subset
<1>3. Cardinality(B) \in Nat
  BY <1>2, FS_CardinalityType
<1>4. QED BY <1>1, <1>2, <1>3

LEMMA ForgottenShrinks ==
  ASSUME ForgottenInv, Forgotten' \subseteq Forgotten, faults \in Nat, faults' \in Nat, faults' >= faults
  PROVE  ForgottenInv'
<1>1. IsFiniteSet(Forgotten') /\ Cardinality(Forgotten') <= Cardinality(Forgotten)
  BY FS_Subset DEF ForgottenInv
<1>2. Cardinality(Forgotten) \in Nat /\ Cardinality(Forgotten') \in Nat
  BY <1>1, FS_CardinalityType DEF ForgottenInv
<1>3. QED BY <1>1, <1>2 DEF ForgottenInv

LEMMA ForgottenStep == TypeOK /\ TypeOK' /\ WorkInv /\ TickInv /\ ForgottenInv /\ [Next]_vars => ForgottenInv'
<1> SUFFICES ASSUME TypeOK, TypeOK', WorkInv, TickInv, ForgottenInv, [Next]_vars PROVE ForgottenInv' OBVIOUS
<1>0. /\ remind \in [Reminders -> {"unset", "armed", "due", "cleared"}] /\ Reminders \subseteq Sources
      /\ told \in [Sources -> {"nothing", "disabled", "queued"}] /\ faults \in Nat /\ faults' \in Nat
  BY FaultsAssumption DEF TypeOK, Sources
<1>1. ASSUME Forgotten' \subseteq Forgotten, faults' >= faults PROVE ForgottenInv'
  BY <1>0, <1>1, ForgottenShrinks
<1>2. ASSUME NEW r \in Reminders, Schedule(r) \/ FallDue(r) PROVE ForgottenInv'
  BY <1>0, <1>1, <1>2 DEF Schedule, FallDue, Forgotten, InTick, tick, history
<1>3. ASSUME NEW r \in Reminders, Boost(r) PROVE ForgottenInv'
  BY <1>0, <1>1, <1>3 DEF Boost, Forgotten, InTick, history
<1>4. ASSUME NEW S \in SUBSET Reminders, BeginReminders(S) PROVE ForgottenInv'
  BY <1>0, <1>1, <1>4 DEF BeginReminders, Forgotten, InTick, memory, history
<1>5. ASSUME NEW k \in Milestones, BeginMilestone(k) PROVE ForgottenInv'
  BY <1>0, <1>1, <1>5 DEF BeginMilestone, Forgotten, InTick, memory, history
<1>6. ASSUME NEW n \in Notes, Insert(n) PROVE ForgottenInv'
  BY <1>0, <1>1, <1>6 DEF Insert, Forgotten, InTick, memory
<1>7. CASE Clear
  BY <1>0, <1>1, <1>7 DEF Clear, Forgotten, InTick, history
<1>8. CASE EndReminders \/ Log
  BY <1>0, <1>1, <1>8 DEF EndReminders, Log, Forgotten, InTick, memory, history
<1>9. CASE ReadPreferences
  BY <1>0, <1>1, <1>9 DEF ReadPreferences, Forgotten, InTick, memory
<1>10. CASE FailTick \/ Restart
  <2>1. /\ remind' = remind /\ told' = told /\ faults' = faults + 1
    BY <1>10 DEF FailTick, Restart, memory
  <2>2. Forgotten' \in SUBSET (Forgotten \cup {cur})
    BY <2>1 DEF Forgotten, InTick
  <2>3. QED BY <1>0, <2>1, <2>2, FewMore DEF ForgottenInv
<1>11. CASE TickQuiet
  BY <1>0, <1>1, <1>11 DEF TickQuiet, Forgotten, InTick, tick
<1>12. QED
  BY <1>2, <1>3, <1>4, <1>5, <1>6, <1>7, <1>8, <1>9, <1>10, <1>11, TickSteps

(* Every failure costs the notification of one reminder at most, and a     *)
(* reminder whose remind_at is gone has its memory boosted in any case.    *)
THEOREM RemindersTold == Spec => []ClearedIsTold
<1>1. Init => ForgottenInv
  <2>1. Init => Forgotten = {} /\ faults = 0
    BY DEF Init, Forgotten
  <2>2. ASSUME NEW A, A = {} PROVE IsFiniteSet(A) /\ Cardinality(A) <= 0
    BY <2>2, FS_EmptySet
  <2>3. QED BY <2>1, <2>2 DEF ForgottenInv
<1>2. TypeOK /\ TypeOK' /\ WorkInv /\ TickInv /\ ForgottenInv /\ [Next]_vars => ForgottenInv'
  BY ForgottenStep
<1>3. TickInv /\ ForgottenInv => ClearedIsTold
  BY DEF TickInv, ForgottenInv, ClearedIsTold
<1>4. QED BY <1>1, <1>2, <1>3, Ticking, PTL DEF Spec

-----------------------------------------------------------------------------
(* Milestones.                                                             *)

RowsOf(k) == {n \in Notes : Queued(n, k)}
Logging(k) == tpc = "log" /\ cur = k
Announcing(k) == tpc \in {"prefs", "insert"} /\ cur = k

\* A milestone whose entry is still to be written has been queued no more
\* often than things failed, unless it is about to be written.
MilestoneInv ==
  \A k \in Milestones :
    /\ IsFiniteSet(RowsOf(k)) /\ Cardinality(RowsOf(k)) <= 1 + faults
    /\ ~logged[k] /\ ~Logging(k) => Cardinality(RowsOf(k)) <= faults
    /\ Announcing(k) => ~logged[k]

LEMMA MilestoneFrame ==
  ASSUME MilestoneInv, RowsSame, faults \in Nat, faults' \in Nat, faults' >= faults,
         \A k \in Milestones : faults' > faults \/ (~logged'[k] /\ ~Logging(k)' => ~logged[k] /\ ~Logging(k)),
         \A k \in Milestones : Announcing(k)' => ~logged'[k]
  PROVE  MilestoneInv'
<1>1. \A k \in Milestones : RowsOf(k)' = RowsOf(k)
  BY DEF RowsOf, RowsSame, Sources
<1>2. \A k \in Milestones : Cardinality(RowsOf(k)) \in Nat
  BY FS_CardinalityType DEF MilestoneInv
<1>3. ASSUME NEW k \in Milestones
      PROVE  /\ IsFiniteSet(RowsOf(k)') /\ Cardinality(RowsOf(k)') <= 1 + faults'
             /\ ~logged'[k] /\ ~Logging(k)' => Cardinality(RowsOf(k)') <= faults'
  BY <1>1, <1>2, <1>3 DEF MilestoneInv
<1>4. QED BY <1>3 DEF MilestoneInv

LEMMA MilestoneStep == TypeOK /\ TypeOK' /\ WorkInv /\ TickInv /\ MilestoneInv /\ [Next]_vars => MilestoneInv'
<1> SUFFICES ASSUME TypeOK, TypeOK', WorkInv, TickInv, MilestoneInv, [Next]_vars PROVE MilestoneInv' OBVIOUS
<1> USE DEF Logging, Announcing
<1>0. /\ logged \in [Sources -> BOOLEAN] /\ faults \in Nat /\ faults' \in Nat
      /\ \A k \in Milestones : k \in Sources /\ k \notin Reminders
  BY FaultsAssumption, SourcesAssumption DEF TypeOK, Sources
<1>1. ASSUME NEW n \in Notes, Insert(n) PROVE MilestoneInv'
  <2>1. logged' = logged /\ faults' = faults /\ tpc = "insert" /\ tpc' = "log" /\ cur' = cur
    BY <1>1 DEF Insert, memory
  <2>2. ASSUME NEW k \in Milestones, k # cur
        PROVE  RowsOf(k)' = RowsOf(k)
    BY <1>0, <1>1, <2>2, InsertRows DEF RowsOf
  <2>3. ASSUME NEW k \in Milestones, k = cur
        PROVE  RowsOf(k)' = RowsOf(k) \cup {n}
    BY <1>0, <1>1, <2>3, InsertRows DEF RowsOf
  <2>4. ASSUME NEW k \in Milestones, k = cur
        PROVE  IsFiniteSet(RowsOf(k)') /\ Cardinality(RowsOf(k)') <= 1 + faults
    <3>1. IsFiniteSet(RowsOf(k)) /\ Cardinality(RowsOf(k)) <= faults
      BY <2>1, <2>4 DEF MilestoneInv
    <3>2. RowsOf(k)' \in SUBSET (RowsOf(k) \cup {n})
      BY <2>3, <2>4
    <3>3. IsFiniteSet(RowsOf(k)') /\ Cardinality(RowsOf(k)') <= faults + 1
      BY <1>0, <3>1, <3>2, FewMore
    <3>4. QED BY <1>0, <3>3
  <2>5. QED BY <2>1, <2>2, <2>4 DEF MilestoneInv
<1>2. CASE \E r \in Reminders : Schedule(r) \/ FallDue(r)
  <2>1. logged' = logged /\ faults' = faults /\ tpc' = tpc /\ cur' = cur
    BY <1>2 DEF Schedule, FallDue, tick, history
  <2>2. RowsSame
    BY <1>2 DEF Schedule, FallDue, box, RowsSame, Queued
  <2>3. QED BY <1>0, <2>1, <2>2, MilestoneFrame DEF MilestoneInv
<1>3. CASE (\E r \in Reminders : Boost(r)) \/ (\E S \in SUBSET Reminders : BeginReminders(S)) \/ EndReminders
  <2>1. /\ logged' = logged /\ faults' = faults /\ tpc' \in {"clear", "next", "idle"} /\ tpc # "log"
        /\ box' = box
    BY <1>3 DEF Boost, BeginReminders, EndReminders, memory, history
  <2>2. RowsSame
    BY <2>1 DEF box, RowsSame, Queued
  <2>3. QED BY <1>0, <2>1, <2>2, MilestoneFrame
<1>4. ASSUME NEW k \in Milestones, BeginMilestone(k) PROVE MilestoneInv'
  <2>1. /\ logged' = logged /\ faults' = faults /\ tpc' = "prefs" /\ cur' = k /\ tpc = "idle" /\ ~logged[k]
        /\ box' = box
    BY <1>4 DEF BeginMilestone, memory, history
  <2>2. RowsSame
    BY <2>1 DEF box, RowsSame, Queued
  <2>3. QED BY <1>0, <2>1, <2>2, MilestoneFrame
<1>5. CASE Clear
  <2>1. /\ logged' = logged /\ faults' = faults /\ cur' \in Reminders /\ tpc = "clear" /\ tpc' = "prefs"
        /\ box' = box
    BY <1>5 DEF Clear, TickInv, history
  <2>2. RowsSame
    BY <2>1 DEF box, RowsSame, Queued
  <2>3. QED BY <1>0, <2>1, <2>2, MilestoneFrame
<1>6. CASE ReadPreferences
  <2>1. /\ logged' = logged /\ faults' = faults /\ cur' = cur /\ tpc = "prefs" /\ tpc' \in {"insert", "log"}
        /\ box' = box
    BY <1>6 DEF ReadPreferences, memory
  <2>2. RowsSame
    BY <2>1 DEF box, RowsSame, Queued
  <2>3. QED BY <1>0, <2>1, <2>2, MilestoneFrame DEF MilestoneInv
<1>7. CASE Log
  <2>1. /\ logged' = [logged EXCEPT ![cur] = TRUE] /\ faults' = faults /\ tpc = "log" /\ tpc' \in {"next", "idle"}
        /\ box' = box
    BY <1>7 DEF Log, history
  <2>2. RowsSame
    BY <2>1 DEF box, RowsSame, Queued
  <2>3. QED BY <1>0, <2>1, <2>2, MilestoneFrame
<1>8. CASE FailTick \/ Restart
  <2>1. logged' = logged /\ faults' = faults + 1 /\ tpc' = "idle" /\ box' = box
    BY <1>8 DEF FailTick, Restart, memory
  <2>2. RowsSame
    BY <2>1 DEF box, RowsSame, Queued
  <2>3. faults' > faults /\ faults' >= faults
    BY <1>0, <2>1
  <2>4. QED BY <1>0, <2>1, <2>2, <2>3, MilestoneFrame
<1>9. CASE TickQuiet
  <2>1. logged' = logged /\ faults' >= faults /\ tpc' = tpc /\ cur' = cur /\ RowsSame
    BY <1>9 DEF TickQuiet, tick, RowsSame, Queued
  <2>2. QED BY <1>0, <2>1, MilestoneFrame DEF MilestoneInv
<1>10. QED
  BY <1>1, <1>2, <1>3, <1>4, <1>5, <1>6, <1>7, <1>8, <1>9, TickSteps

(* A milestone is queued once, and once more for every failure.            *)
THEOREM MilestonesQueuedOnce == Spec => []MilestoneQueuedOnce
<1>1. Init => MilestoneInv
  <2>1. ASSUME Init, NEW k \in Milestones PROVE RowsOf(k) = {} /\ faults = 0 /\ ~Announcing(k)
    BY <2>1 DEF Init, RowsOf, Queued, Announcing
  <2>2. ASSUME NEW A, A = {} PROVE IsFiniteSet(A) /\ Cardinality(A) <= 0 /\ Cardinality(A) <= 1 + 0
    BY <2>2, FS_EmptySet
  <2>3. QED BY <2>1, <2>2 DEF MilestoneInv
<1>2. TypeOK /\ TypeOK' /\ WorkInv /\ TickInv /\ MilestoneInv /\ [Next]_vars => MilestoneInv'
  BY MilestoneStep
<1>3. MilestoneInv => MilestoneQueuedOnce
  BY DEF MilestoneInv, MilestoneQueuedOnce, RowsOf
<1>4. QED BY <1>1, <1>2, <1>3, Ticking, PTL DEF Spec

-----------------------------------------------------------------------------
(* Prompts.                                                                *)

Holders(n) == {h \in Handlers : n \in hshow[h]}
Unmarked(n) == {h \in Holders(n) : n \notin hmark[h]}

\* A row that is not marked yet is in a prompt without a mark to come only
\* where marking has failed.
ShownInv ==
  \A n \in Notes :
    /\ shown[n] + Cardinality(Holders(n)) <= Cardinality(Handlers) + faults
    /\ status[n] \in {"none", "pending"} => shown[n] + Cardinality(Unmarked(n)) <= faults

LEMMA HoldersFinite ==
  ASSUME NEW n
  PROVE  /\ IsFiniteSet(Holders(n)) /\ IsFiniteSet(Unmarked(n))
         /\ Cardinality(Holders(n)) \in Nat /\ Cardinality(Unmarked(n)) \in Nat
         /\ Cardinality(Handlers) \in Nat /\ Cardinality(Holders(n)) <= Cardinality(Handlers)
<1>1. Holders(n) \in SUBSET Handlers /\ Unmarked(n) \in SUBSET Handlers
  BY DEF Holders, Unmarked
<1>2. QED BY <1>1, HandlersAssumption, FS_Subset, FS_CardinalityType

LEMMA HoldersFinitePrimed ==
  ASSUME NEW n
  PROVE  /\ IsFiniteSet(Holders(n)') /\ IsFiniteSet(Unmarked(n)')
         /\ Cardinality(Holders(n)') \in Nat /\ Cardinality(Unmarked(n)') \in Nat
         /\ Cardinality(Holders(n)') <= Cardinality(Handlers)
<1>1. Holders(n)' \in SUBSET Handlers /\ Unmarked(n)' \in SUBSET Handlers
  BY DEF Holders, Unmarked
<1>2. QED BY <1>1, HandlersAssumption, FS_Subset, FS_CardinalityType

LEMMA Fewer ==
  ASSUME NEW A, IsFiniteSet(A), NEW B \in SUBSET A
  PROVE  Cardinality(B) <= Cardinality(A)
BY FS_Subset

\* Nothing is shown, no holder comes, no row is opened again.
LEMMA ShownFrame ==
  ASSUME ShownInv, shown \in [Notes -> Nat], faults \in Nat, faults' \in Nat, faults' >= faults,
         shown' = shown,
         \A n \in Notes : Holders(n)' \subseteq Holders(n),
         \A n \in Notes : status'[n] \in {"none", "pending"} =>
           status[n] \in {"none", "pending"} /\ Unmarked(n)' \subseteq Unmarked(n)
  PROVE  ShownInv'
<1> SUFFICES ASSUME NEW n \in Notes
             PROVE  /\ shown'[n] + Cardinality(Holders(n)') <= Cardinality(Handlers) + faults'
                    /\ status'[n] \in {"none", "pending"} => shown'[n] + Cardinality(Unmarked(n)') <= faults'
  BY DEF ShownInv
<1>1. Cardinality(Holders(n)') <= Cardinality(Holders(n))
  BY HoldersFinite, Fewer
<1>2. status'[n] \in {"none", "pending"} => Cardinality(Unmarked(n)') <= Cardinality(Unmarked(n))
  BY HoldersFinite, Fewer
<1>3. /\ Cardinality(Holders(n)) \in Nat /\ Cardinality(Holders(n)') \in Nat /\ Cardinality(Handlers) \in Nat
      /\ Cardinality(Unmarked(n)) \in Nat /\ Cardinality(Unmarked(n)') \in Nat
  BY HoldersFinite, HoldersFinitePrimed
<1>4. QED BY <1>1, <1>2, <1>3 DEF ShownInv

LEMMA ShownStep == TypeOK /\ TypeOK' /\ WorkInv /\ ShownInv /\ [Next]_vars => ShownInv'
<1> SUFFICES ASSUME TypeOK, TypeOK', WorkInv, ShownInv, [Next]_vars PROVE ShownInv' OBVIOUS
<1>0. /\ faults \in Nat /\ faults' \in Nat /\ shown \in [Notes -> Nat] /\ shown' \in [Notes -> Nat]
      /\ hmark \in [Handlers -> SUBSET Notes] /\ hshow \in [Handlers -> SUBSET Notes]
      /\ status \in [Notes -> {"none", "pending", "delivered", "failed", "expired"}]
  BY FaultsAssumption DEF TypeOK
<1>1. ASSUME handlers' = handlers, shown' = shown, faults' >= faults,
             \A n \in Notes : status'[n] \in {"none", "pending"} => status[n] \in {"none", "pending"}
      PROVE  ShownInv'
  BY <1>0, <1>1, ShownFrame DEF handlers, Holders, Unmarked
<1>2. ASSUME NEW n \in Notes, Insert(n) \/ OtherInserts(n) PROVE ShownInv'
  BY <1>0, <1>1, <1>2 DEF Insert, OtherInserts, Put, history
<1>3. ASSUME NEW n \in Notes, Skip(n) PROVE ShownInv'
  BY <1>0, <1>1, <1>3 DEF Skip, box, history
<1>4. ASSUME NEW n \in Notes, NEW ok \in BOOLEAN, Send(n, ok) PROVE ShownInv'
  BY <1>0, <1>1, <1>4 DEF Send, box
<1>5. CASE Expire \/ MarkSent \/ EndRound
  BY <1>0, <1>1, <1>5 DEF Expire, MarkSent, EndRound, box, history
<1>6. CASE FailRound \/ FailTick
  BY <1>0, <1>1, <1>6 DEF FailRound, FailTick, box
<1>7. ASSUME NEW S \in SUBSET Notes, Select(S) PROVE ShownInv'
  BY <1>0, <1>1, <1>7 DEF Select, box, history
<1>8. CASE UNCHANGED Visible
  BY <1>0, <1>1, <1>8 DEF Visible
<1>9. CASE Restart
  <2>1. /\ shown' = shown /\ status' = status /\ faults' = faults + 1
        /\ hshow' = [h \in Handlers |-> {}]
    BY <1>9 DEF Restart, box
  <2>2. \A n \in Notes : Holders(n)' \subseteq Holders(n) /\ Unmarked(n)' \subseteq Unmarked(n)
    BY <2>1 DEF Holders, Unmarked
  <2>3. QED BY <1>0, <2>1, <2>2, ShownFrame
<1>10. ASSUME NEW h \in Handlers, NEW S \in SUBSET Notes, Assemble(h, S) PROVE ShownInv'
  <2>1. /\ hmark' = [hmark EXCEPT ![h] = S] /\ hshow' = [hshow EXCEPT ![h] = S]
        /\ hshow[h] = {} /\ status' = status /\ shown' = shown /\ faults' = faults
        /\ \A n \in S : status[n] = "pending"
    BY <1>10 DEF Assemble, Limited, Pending, box, history
  <2>2. ASSUME NEW n \in Notes
        PROVE  shown[n] + Cardinality(Holders(n)') <= Cardinality(Handlers) + faults
    <3>1. CASE n \in S
      <4>1. shown[n] <= faults
        BY <1>0, <2>1, <3>1, HoldersFinite DEF ShownInv
      <4>2. QED BY <1>0, <4>1, HoldersFinite, HoldersFinitePrimed
    <3>2. CASE n \notin S
      <4>1. Holders(n)' = Holders(n)
        BY <1>0, <2>1, <3>2 DEF Holders
      <4>2. QED BY <4>1 DEF ShownInv
    <3>3. QED BY <3>1, <3>2
  <2>3. ASSUME NEW n \in Notes PROVE Unmarked(n)' = Unmarked(n)
    BY <1>0, <2>1 DEF Holders, Unmarked
  <2>4. QED BY <2>1, <2>2, <2>3 DEF ShownInv
<1>11. ASSUME NEW h \in Handlers, NEW k \in Notes, MarkShown(h, k) PROVE ShownInv'
  <2>1. /\ hmark' = [hmark EXCEPT ![h] = @ \ {k}] /\ hshow' = hshow /\ shown' = shown /\ faults' = faults
        /\ status' = [status EXCEPT ![k] = "delivered"]
    BY <1>11 DEF MarkShown, history
  <2>2. \A n \in Notes : Holders(n)' = Holders(n) /\ (n # k => Unmarked(n)' = Unmarked(n))
    BY <1>0, <2>1 DEF Holders, Unmarked
  <2>3. \A n \in Notes : status'[n] \in {"none", "pending"} => n # k /\ status[n] \in {"none", "pending"}
    BY <1>0, <2>1
  <2>4. QED BY <1>0, <2>1, <2>2, <2>3, ShownFrame
<1>12. ASSUME NEW h \in Handlers, Answer(h) PROVE ShownInv'
  <2>1. /\ hshow' = [hshow EXCEPT ![h] = {}] /\ hmark' = hmark /\ hmark[h] = {} /\ faults' = faults
        /\ shown' = [n \in Notes |-> IF n \in hshow[h] THEN shown[n] + 1 ELSE shown[n]]
        /\ status' = status
    BY <1>12 DEF Answer, box
  <2>2. ASSUME NEW n \in Notes, n \in hshow[h]
        PROVE  /\ shown'[n] + Cardinality(Holders(n)') = shown[n] + Cardinality(Holders(n))
               /\ shown'[n] + Cardinality(Unmarked(n)') = shown[n] + Cardinality(Unmarked(n))
    <3>1. Holders(n)' = Holders(n) \ {h} /\ h \in Holders(n)
      BY <1>0, <2>1, <2>2 DEF Holders
    <3>2. Unmarked(n)' = Unmarked(n) \ {h} /\ h \in Unmarked(n)
      BY <1>0, <2>1, <2>2 DEF Holders, Unmarked
    <3>3. /\ Cardinality(Holders(n)') = Cardinality(Holders(n)) - 1
          /\ Cardinality(Unmarked(n)') = Cardinality(Unmarked(n)) - 1
      BY <3>1, <3>2, HoldersFinite, FS_RemoveElement
    <3>4. shown'[n] = shown[n] + 1
      BY <2>1, <2>2
    <3>5. QED BY <1>0, <3>3, <3>4, HoldersFinite
  <2>3. ASSUME NEW n \in Notes, n \notin hshow[h]
        PROVE  shown'[n] = shown[n] /\ Holders(n)' = Holders(n) /\ Unmarked(n)' = Unmarked(n)
    BY <1>0, <2>1, <2>3 DEF Holders, Unmarked
  <2>4. QED BY <2>1, <2>2, <2>3 DEF ShownInv
<1>13. ASSUME NEW h \in Handlers, FailAnswer(h) PROVE ShownInv'
  <2>1. /\ hshow' = [hshow EXCEPT ![h] = {}] /\ hmark' = hmark /\ faults' = faults + 1
        /\ shown' = shown /\ status' = status
    BY <1>13 DEF FailAnswer, box
  <2>2. \A n \in Notes : Holders(n)' \subseteq Holders(n) /\ Unmarked(n)' \subseteq Unmarked(n)
    BY <1>0, <2>1 DEF Holders, Unmarked
  <2>3. QED BY <1>0, <2>1, <2>2, ShownFrame
<1>14. ASSUME NEW h \in Handlers, FailMark(h) PROVE ShownInv'
  <2>1. /\ hmark' = [hmark EXCEPT ![h] = {}] /\ hshow' = hshow /\ faults' = faults + 1
        /\ shown' = shown /\ status' = status
    BY <1>14 DEF FailMark, box
  <2>2. ASSUME NEW n \in Notes
        PROVE  Holders(n)' = Holders(n) /\ Unmarked(n)' \in SUBSET (Unmarked(n) \cup {h})
    BY <1>0, <2>1 DEF Holders, Unmarked
  <2>3. ASSUME NEW n \in Notes
        PROVE  Cardinality(Unmarked(n)') <= Cardinality(Unmarked(n)) + 1
    BY <2>2, HoldersFinite, FewMore
  <2>4. QED BY <1>0, <2>1, <2>2, <2>3, HoldersFinite, HoldersFinitePrimed DEF ShownInv
<1>15. QED
  BY <1>2, <1>3, <1>4, <1>5, <1>6, <1>7, <1>8, <1>9, <1>10, <1>11, <1>12, <1>13, <1>14, VisibleSteps DEF Serve

(* A row is shown in no more prompts than there are handlers beside each   *)
(* other, and one more for every failure.                                  *)
THEOREM PromptsBounded == Spec => []ShownBounded
<1>1. Init => ShownInv
  <2> SUFFICES ASSUME Init, NEW n \in Notes
               PROVE  /\ shown[n] + Cardinality(Holders(n)) <= Cardinality(Handlers) + faults
                      /\ shown[n] + Cardinality(Unmarked(n)) <= faults
    BY DEF ShownInv
  <2>1. Holders(n) = {} /\ Unmarked(n) = {} /\ shown[n] = 0 /\ faults = 0
    BY DEF Init, Holders, Unmarked
  <2>2. Cardinality({}) = 0 /\ Cardinality(Handlers) \in Nat
    BY FS_EmptySet, HoldersFinite
  <2>3. QED BY <2>1, <2>2
<1>2. TypeOK /\ TypeOK' /\ WorkInv /\ ShownInv /\ [Next]_vars => ShownInv'
  BY ShownStep
<1>3. TypeOK /\ ShownInv => ShownBounded
  <2> SUFFICES ASSUME TypeOK, ShownInv, NEW n \in Notes PROVE shown[n] <= Cardinality(Handlers) + faults
    BY DEF ShownBounded
  <2>1. shown[n] \in Nat /\ faults \in Nat
    BY FaultsAssumption DEF TypeOK
  <2>2. Cardinality(Holders(n)) \in Nat /\ Cardinality(Handlers) \in Nat
    BY HoldersFinite
  <2>3. QED BY <2>1, <2>2 DEF ShownInv
<1>4. QED BY <1>1, <1>2, <1>3, Working, PTL DEF Spec

-----------------------------------------------------------------------------
(* What a row says of itself.                                              *)

HonestInv ==
  /\ wpc = "mark" /\ wok => pushed[wcur] > 0
  /\ wpc = "mark" /\ ~wok /\ faults = 0 => pushed[wcur] = 0
  /\ \A n \in Notes :
       /\ status[n] = "delivered" /\ channel[n] = "push" => pushed[n] > 0
       /\ status[n] = "failed" => channel[n] = "push" /\ (faults = 0 => pushed[n] = 0)
       /\ status[n] = "delivered" /\ channel[n] = "passive" /\ faults = 0 =>
            shown[n] > 0 \/ \E h \in Handlers : n \in hshow[h]

\* Steps that leave rows, pushes and prompts alone.
LEMMA HonestFrame ==
  ASSUME HonestInv, UNCHANGED <<status, channel, pushed, shown, hshow>>,
         wpc' = "mark" => UNCHANGED <<wpc, wcur, wok>>, faults \in Nat, faults' >= faults
  PROVE  HonestInv'
<1>1. faults' = 0 => faults = 0
  OBVIOUS
<1>2. QED BY <1>1 DEF HonestInv

LEMMA HonestStep == TypeOK /\ TypeOK' /\ WorkInv /\ PushInv /\ HonestInv /\ [Next]_vars => HonestInv'
<1> SUFFICES ASSUME TypeOK, TypeOK', WorkInv, PushInv, HonestInv, [Next]_vars PROVE HonestInv' OBVIOUS
<1>0. /\ faults \in Nat /\ faults' \in Nat /\ pushed \in [Notes -> Nat] /\ shown \in [Notes -> Nat]
      /\ hshow \in [Handlers -> SUBSET Notes] /\ wcur \in Notes
      /\ status \in [Notes -> {"none", "pending", "delivered", "failed", "expired"}]
      /\ channel \in [Notes -> {"push", "passive"}]
  BY FaultsAssumption DEF TypeOK
<1>1. ASSUME NEW n \in Notes, Insert(n) \/ OtherInserts(n) PROVE HonestInv'
  <2>1. /\ status[n] = "none" /\ status' = [status EXCEPT ![n] = "pending"]
        /\ \E ch : channel' = [channel EXCEPT ![n] = ch]
        /\ UNCHANGED <<pushed, shown, hshow, wpc, wcur, wok, faults>>
    BY <1>1 DEF Insert, OtherInserts, Put, worker, handlers, history
  <2>2. QED BY <1>0, <2>1 DEF HonestInv
<1>2. ASSUME NEW n \in Notes, Skip(n) PROVE HonestInv'
  BY <1>0, <1>2, HonestFrame DEF Skip, box, handlers, history
<1>3. ASSUME NEW n \in Notes, NEW ok \in BOOLEAN, Send(n, ok) PROVE HonestInv'
  <2>1. /\ status[n] = "pending" /\ pushed[n] <= faults
        /\ UNCHANGED <<status, channel, shown, hshow>>
        /\ wpc' = "mark" /\ wcur' = n /\ wok' = ok
    BY <1>3 DEF Send, WorkInv, PushInv, InFlight, box, handlers
  <2>2. \/ ok /\ pushed' = [pushed EXCEPT ![n] = @ + 1] /\ faults' = faults
        \/ ~ok /\ pushed' = pushed /\ faults' = faults
        \/ ~ok /\ pushed' = [pushed EXCEPT ![n] = @ + 1] /\ faults' = faults + 1
    BY <1>0, <1>3 DEF Send
  <2>3. QED BY <1>0, <2>1, <2>2 DEF HonestInv
<1>4. CASE Expire
  BY <1>0, <1>4 DEF Expire, HonestInv, handlers, history
<1>5. CASE MarkSent
  <2>1. /\ wpc = "mark" /\ wpc' = "loop" /\ channel[wcur] = "push"
        /\ status' = [status EXCEPT ![wcur] = IF wok THEN "delivered" ELSE "failed"]
        /\ UNCHANGED <<channel, pushed, shown, hshow, faults>>
    BY <1>5 DEF MarkSent, WorkInv, handlers, history
  <2>2. QED BY <1>0, <2>1 DEF HonestInv
<1>6. CASE EndRound \/ FailRound
  BY <1>0, <1>6, HonestFrame DEF EndRound, FailRound, WorkerReset, box, handlers, history
<1>7. CASE FailTick
  BY <1>0, <1>7, HonestFrame DEF FailTick, box, worker, handlers
<1>8. CASE Restart
  <2>1. /\ UNCHANGED <<status, channel, pushed, shown>> /\ faults' = faults + 1 /\ wpc' = "idle"
    BY <1>8 DEF Restart, WorkerReset, box
  <2>2. QED BY <1>0, <2>1 DEF HonestInv
<1>9. ASSUME NEW S \in SUBSET Notes, Select(S) PROVE HonestInv'
  BY <1>0, <1>9, HonestFrame DEF Select, box, handlers, history
<1>10. ASSUME NEW h \in Handlers, NEW S \in SUBSET Notes, Assemble(h, S) PROVE HonestInv'
  <2>1. /\ hshow' = [hshow EXCEPT ![h] = S] /\ hshow[h] = {}
        /\ UNCHANGED <<status, channel, pushed, shown, faults, wpc, wcur, wok>>
    BY <1>10 DEF Assemble, box, worker, history
  <2>2. \A n \in Notes : (\E g \in Handlers : n \in hshow[g]) => \E g \in Handlers : n \in hshow'[g]
    BY <1>0, <2>1
  <2>3. QED BY <2>1, <2>2 DEF HonestInv
<1>11. ASSUME NEW h \in Handlers, NEW k \in Notes, MarkShown(h, k) PROVE HonestInv'
  <2>1. /\ k \in hshow[h] /\ channel[k] = "passive"
        /\ status' = [status EXCEPT ![k] = "delivered"]
        /\ UNCHANGED <<channel, pushed, shown, hshow, faults, wpc, wcur, wok>>
    BY <1>11 DEF MarkShown, WorkInv, worker, history
  <2>2. QED BY <1>0, <2>1 DEF HonestInv
<1>12. ASSUME NEW h \in Handlers, Answer(h) PROVE HonestInv'
  <2>1. /\ hshow' = [hshow EXCEPT ![h] = {}]
        /\ shown' = [n \in Notes |-> IF n \in hshow[h] THEN shown[n] + 1 ELSE shown[n]]
        /\ UNCHANGED <<status, channel, pushed, faults, wpc, wcur, wok>>
    BY <1>12 DEF Answer, box, worker
  <2>2. \A n \in Notes : shown[n] > 0 \/ (\E g \in Handlers : n \in hshow[g])
          => shown'[n] > 0 \/ \E g \in Handlers : n \in hshow'[g]
    BY <1>0, <2>1
  <2>3. QED BY <2>1, <2>2 DEF HonestInv
<1>13. ASSUME NEW h \in Handlers, FailMark(h) \/ FailAnswer(h) PROVE HonestInv'
  <2>1. UNCHANGED <<status, channel, pushed, shown, wpc, wcur, wok>> /\ faults' = faults + 1
    BY <1>13 DEF FailMark, FailAnswer, box, worker
  <2>2. QED BY <1>0, <2>1 DEF HonestInv
<1>14. CASE UNCHANGED Visible
  BY <1>0, <1>14, HonestFrame DEF Visible, worker, handlers
<1>15. QED
  BY <1>1, <1>2, <1>3, <1>4, <1>5, <1>6, <1>7, <1>8, <1>9, <1>10, <1>11, <1>12, <1>13, <1>14, VisibleSteps DEF Serve

(* The rows tell what the user has seen.                                   *)
THEOREM RowsAreHonest == Spec => []StatusIsHonest
<1>1. Init => PushInv /\ HonestInv
  BY PushInit DEF Init, HonestInv
<1>2. TypeOK /\ TypeOK' /\ WorkInv /\ PushInv /\ HonestInv /\ [Next]_vars => PushInv' /\ HonestInv'
  BY PushStep, HonestStep
<1>3. HonestInv => StatusIsHonest
  BY DEF HonestInv, StatusIsHonest
<1>4. QED BY <1>1, <1>2, <1>3, Working, PTL DEF Spec

-----------------------------------------------------------------------------
(* The refinement of PushPromise.                                          *)

LEMMA PromiseInit == Init => Promise!Init
BY DEF Init, Promise!Init, Phase, PhaseOf, InFlight

\* A step that does not concern the rows, nor the attempt at hand.
LEMMA PhaseKept ==
  ASSUME status' = status, channel' = channel, wcur' = wcur, wok' = wok,
         wpc' = "mark" <=> wpc = "mark"
  PROVE  Phase' = Phase
<1>1. \A n \in Notes : PhaseOf(n)' = PhaseOf(n)
  BY DEF PhaseOf, InFlight
<1>2. QED BY <1>1 DEF Phase

\* A row takes the next phase and the others stay.
LEMMA OneMoves ==
  ASSUME NEW n \in Notes, NEW a, NEW b, PhaseOf(n) = a, PhaseOf(n)' = b,
         \A m \in Notes : m # n => PhaseOf(m)' = PhaseOf(m)
  PROVE  Promise!Move(n, a, b)
BY DEF Promise!Move, Phase

LEMMA PutAccepts ==
  ASSUME TypeOK, WorkInv, NEW n \in Notes, NEW ch \in {"push", "passive"}, NEW s, Put(n, ch, s),
         UNCHANGED <<worker, pushed, faults>>
  PROVE  Promise!Next \/ UNCHANGED Promise!vars
<1>1. /\ status[n] = "none" /\ status' = [status EXCEPT ![n] = "pending"]
      /\ channel' = [channel EXCEPT ![n] = ch] /\ ~InFlight(n)
  BY DEF Put, WorkInv, InFlight
<1>2. \A m \in Notes : m # n => PhaseOf(m)' = PhaseOf(m)
  BY <1>1 DEF PhaseOf, InFlight, TypeOK, worker
<1>3. PhaseOf(n) = "none"
  BY <1>1 DEF PhaseOf, TypeOK
<1>4. CASE ch = "push"
  <2>1. PhaseOf(n)' = "open"
    BY <1>1, <1>4 DEF PhaseOf, InFlight, TypeOK, worker
  <2>2. Promise!Accept(n)
    BY <1>2, <1>3, <2>1, OneMoves DEF Promise!Accept
  <2>3. QED BY <2>2 DEF Promise!Next
<1>5. CASE ch = "passive"
  <2>1. PhaseOf(n)' = "none"
    BY <1>1, <1>5 DEF PhaseOf, TypeOK
  <2>2. Phase' = Phase
    BY <1>2, <1>3, <2>1 DEF Phase
  <2>3. QED BY <2>2 DEF Promise!vars
<1>6. QED BY <1>4, <1>5

LEMMA SendPromised ==
  ASSUME TypeOK, WorkInv, NEW n \in Notes, NEW ok \in BOOLEAN, Send(n, ok)
  PROVE  Promise!Next
<1>1. /\ wpc = "loop" /\ wpc' = "mark" /\ wcur' = n /\ wok' = ok
      /\ UNCHANGED <<status, channel>>
      /\ status[n] = "pending" /\ channel[n] = "push"
  BY DEF Send, WorkInv, box
<1>2. \A m \in Notes : m # n => PhaseOf(m)' = PhaseOf(m)
  BY <1>1 DEF PhaseOf, InFlight
<1>3. PhaseOf(n) = "open" /\ PhaseOf(n)' = IF ok THEN "sent" ELSE "refused"
  BY <1>1 DEF PhaseOf, InFlight
<1>4. \/ /\ pushed' = [pushed EXCEPT ![n] = IF ok THEN @ + 1 ELSE @] /\ UNCHANGED faults
      \/ /\ ~ok /\ pushed' = [pushed EXCEPT ![n] = @ + 1] /\ faults' = faults + 1
  BY DEF Send
<1>5. CASE ok /\ UNCHANGED faults
  <2>1. pushed' = [pushed EXCEPT ![n] = @ + 1]
    BY <1>4, <1>5
  <2>2. Promise!Send(n)
    BY <1>2, <1>3, <1>5, <2>1, OneMoves DEF Promise!Send, Promise!GoesOut
  <2>3. QED BY <2>2 DEF Promise!Next
<1>6. CASE ~ok /\ pushed' = [pushed EXCEPT ![n] = IF ok THEN @ + 1 ELSE @] /\ UNCHANGED faults
  <2>1. pushed' = pushed
    BY <1>6 DEF TypeOK
  <2>2. Promise!Refuse(n)
    BY <1>2, <1>3, <1>6, <2>1, OneMoves DEF Promise!Refuse
  <2>3. QED BY <2>2 DEF Promise!Next
<1>7. CASE ~ok /\ pushed' = [pushed EXCEPT ![n] = @ + 1] /\ faults' = faults + 1
  <2>1. Promise!Misjudge(n)
    BY <1>2, <1>3, <1>7, OneMoves DEF Promise!Misjudge, Promise!GoesOut
  <2>2. QED BY <2>1 DEF Promise!Next
<1>8. CASE ok /\ faults' = faults + 1 /\ ~ok
  BY <1>8
<1>9. QED BY <1>4, <1>5, <1>6, <1>7, <1>8

LEMMA MarkPromised ==
  ASSUME TypeOK, WorkInv, MarkSent
  PROVE  Promise!Next
<1>1. /\ wpc = "mark" /\ wpc' = "loop" /\ wcur \in Notes
      /\ status' = [status EXCEPT ![wcur] = IF wok THEN "delivered" ELSE "failed"]
      /\ UNCHANGED <<channel, pushed, faults>>
      /\ channel[wcur] = "push"
  BY DEF MarkSent, WorkInv, TypeOK, history
<1>2. \A m \in Notes : m # wcur => PhaseOf(m)' = PhaseOf(m)
  BY <1>1 DEF PhaseOf, InFlight, TypeOK
<1>3. /\ PhaseOf(wcur) = IF wok THEN "sent" ELSE "refused"
      /\ status'[wcur] = IF wok THEN "delivered" ELSE "failed"
  BY <1>1 DEF PhaseOf, InFlight, TypeOK
<1>4. \A m \in Notes : PhaseOf(m)' = IF channel[m] = "passive" THEN "none"
                                    ELSE IF status'[m] = "pending" THEN "open" ELSE status'[m]
  BY <1>1 DEF PhaseOf, InFlight
<1> DEFINE end == IF wok THEN "delivered" ELSE "failed"
<1>5. [n \in Notes |-> PhaseOf(n)]' = [Phase EXCEPT ![wcur] = end]
  <2>1. \A m \in Notes : PhaseOf(m)' = IF m = wcur THEN end ELSE PhaseOf(m)
    BY <1>1, <1>2, <1>3, <1>4
  <2>2. QED BY <2>1, <1>1 DEF Phase
<1>6. Promise!Close(wcur)
  BY <1>1, <1>3, <1>5 DEF Promise!Close, Promise!Move, Phase
<1>7. QED BY <1>1, <1>6 DEF Promise!Next

LEMMA ExpirePromised ==
  ASSUME TypeOK, WorkInv, Expire
  PROVE  Promise!Next
<1> DEFINE S == {n \in Notes : PhaseOf(n) = "open" /\ n \in late}
<1>1. /\ wpc = "idle" /\ wpc' = "select" /\ UNCHANGED <<channel, pushed, faults>>
      /\ status' = [n \in Notes |-> IF status[n] = "pending" /\ n \in late THEN "expired" ELSE status[n]]
  BY DEF Expire, history
<1>2. \A n \in Notes : PhaseOf(n)' = IF n \in S THEN "expired" ELSE PhaseOf(n)
  BY <1>1 DEF PhaseOf, InFlight, TypeOK
<1>3. Promise!Expire(S)
  BY <1>1, <1>2 DEF Promise!Expire, Phase
<1>4. QED BY <1>3 DEF Promise!Next

\* A failure: the attempt at hand, if there is one, is forgotten or goes on.
LEMMA FaultPromised ==
  ASSUME TypeOK, WorkInv, faults' = faults + 1, UNCHANGED <<status, channel, pushed>>,
         wpc' = "idle" \/ UNCHANGED worker
  PROVE  Promise!Next
<1> DEFINE S == {n \in Notes : InFlight(n) /\ wpc' = "idle"}
<1>1. \A n \in Notes : InFlight(n) => PhaseOf(n) \in {"sent", "refused"}
                                      /\ status[n] = "pending" /\ channel[n] = "push"
  BY DEF PhaseOf, WorkInv, InFlight
<1>2. \A n \in Notes : PhaseOf(n)' = IF n \in S THEN "open" ELSE PhaseOf(n)
  BY <1>1 DEF PhaseOf, InFlight, worker
<1>3. Promise!Lapse(S)
  BY <1>1, <1>2 DEF Promise!Lapse, Phase
<1>4. QED BY <1>3 DEF Promise!Next

LEMMA PromiseStep == TypeOK /\ WorkInv /\ [Next]_vars => [Promise!Next]_Promise!vars
<1> SUFFICES ASSUME TypeOK, WorkInv, [Next]_vars
             PROVE  Promise!Next \/ UNCHANGED Promise!vars
  OBVIOUS
<1>0. ASSUME status' = status, channel' = channel, wcur' = wcur, wok' = wok,
             wpc' = "mark" <=> wpc = "mark", UNCHANGED <<pushed, faults>>
      PROVE  UNCHANGED Promise!vars
  BY <1>0, PhaseKept DEF Promise!vars
<1>1. ASSUME NEW n \in Notes, Insert(n) PROVE Promise!Next \/ UNCHANGED Promise!vars
  <2>1. seen \in {"push", "passive"}
    BY <1>1 DEF Insert, TypeOK
  <2>2. QED BY <1>1, <2>1, PutAccepts DEF Insert
<1>2. ASSUME NEW n \in Notes, OtherInserts(n) PROVE Promise!Next \/ UNCHANGED Promise!vars
  <2>1. oseen \in {"push", "passive"} /\ UNCHANGED <<worker, pushed, faults>>
    BY <1>2 DEF OtherInserts, TypeOK, history
  <2>2. QED BY <1>2, <2>1, PutAccepts DEF OtherInserts
<1>3. ASSUME NEW n \in Notes, NEW ok \in BOOLEAN, Send(n, ok) PROVE Promise!Next
  BY <1>3, SendPromised
<1>4. CASE MarkSent
  BY <1>4, MarkPromised
<1>5. CASE Expire
  BY <1>5, ExpirePromised
<1>6. CASE FailRound \/ FailTick \/ Restart
  <2>1. /\ faults' = faults + 1 /\ UNCHANGED <<status, channel, pushed>>
        /\ wpc' = "idle" \/ UNCHANGED worker
    BY <1>6 DEF FailRound, FailTick, Restart, WorkerReset, box
  <2>2. QED BY <2>1, FaultPromised
<1>7. ASSUME NEW h \in Handlers, FailMark(h) \/ FailAnswer(h) PROVE Promise!Next
  <2>1. faults' = faults + 1 /\ UNCHANGED <<status, channel, pushed, worker>>
    BY <1>7 DEF FailMark, FailAnswer, box
  <2>2. QED BY <2>1, FaultPromised
<1>8. ASSUME NEW n \in Notes, Skip(n) PROVE UNCHANGED Promise!vars
  BY <1>0, <1>8 DEF Skip, box, history
<1>9. CASE EndRound
  BY <1>0, <1>9 DEF EndRound, box, history
<1>10. ASSUME NEW S \in SUBSET Notes, Select(S) PROVE UNCHANGED Promise!vars
  BY <1>0, <1>10 DEF Select, box, history
<1>11. ASSUME NEW h \in Handlers, NEW S \in SUBSET Notes, Assemble(h, S)
       PROVE  UNCHANGED Promise!vars
  BY <1>0, <1>11 DEF Assemble, box, worker, history
<1>12. ASSUME NEW h \in Handlers, Answer(h) PROVE UNCHANGED Promise!vars
  BY <1>0, <1>12 DEF Answer, box, worker
<1>13. ASSUME NEW h \in Handlers, NEW n \in Notes, MarkShown(h, n) PROVE UNCHANGED Promise!vars
  <2>1. /\ channel[n] = "passive" /\ status' = [status EXCEPT ![n] = "delivered"]
        /\ UNCHANGED <<channel, worker, pushed, faults>>
    BY <1>13 DEF MarkShown, WorkInv, history
  <2>2. \A m \in Notes : PhaseOf(m)' = PhaseOf(m)
    BY <2>1 DEF PhaseOf, InFlight, TypeOK, worker
  <2>3. QED BY <2>1, <2>2 DEF Promise!vars, Phase
<1>14. CASE UNCHANGED Visible
  BY <1>0, <1>14 DEF Visible, worker
<1>15. QED
  BY <1>1, <1>2, <1>3, <1>4, <1>5, <1>6, <1>7, <1>8, <1>9, <1>10, <1>11, <1>12, <1>13, <1>14,
     VisibleSteps DEF Serve

(* The delivery worker, beside everything else that happens to the table,  *)
(* keeps the promise about pushes: every step of the system is one of its  *)
(* steps or does not concern it.                                           *)
THEOREM KeepsPushPromise == Spec => PushPromiseSpec
<1>1. Spec => Promise!Init
  BY PromiseInit DEF Spec
<1>2. QED BY <1>1, PromiseStep, Working, PTL DEF Spec, PushPromiseSpec, Promise!Spec
=============================================================================
