------------------------ MODULE DeliveryQueue_proofs ------------------------
(***************************************************************************)
(* Proofs about DeliveryQueue, for any deliveries, payloads, overlapping   *)
(* recoveries, backoffs, budgets and number of faults.                     *)
(***************************************************************************)
EXTENDS DeliveryQueue, TLAPS, FiniteSetTheorems

(* The call has a delivery at hand.                                        *)
Active(w) == worker[w].pc \in {"sending", "ack", "fail", "write"}

(* Nothing happened to a delivery whose call has not begun.                *)
Untouched(d) ==
  /\ d \notin queued /\ enqueuedAt[d] = 0 /\ sent[d] = {}
  /\ d \notin failedDir /\ d \notin aborted /\ d \notin bestEffort
  /\ worker[d].d = d /\ worker[d].k = 1

(* What is known of the delivery a call has at hand.                       *)
Good(w) ==
  LET s == worker[w] IN
  /\ IsLive(w) => s.d = w
  /\ IsLive(w) /\ s.pc \in {"ack", "fail", "write"} => s.id
  /\ ~IsLive(w) \/ s.id => enqueuedAt[s.d] > 0
  /\ s.d \notin bestEffort /\ s.pc = "sending" => 1..(s.k - 1) \subseteq sent[s.d]
  /\ s.d \notin bestEffort /\ s.pc = "ack" =>
       sent[s.d] = Payloads \/ s.d \in aborted \cup cut

IInv ==
  /\ TypeOK
  /\ \A d \in Deliveries : At(d, "idle") => Untouched(d)
  /\ \A w \in Workers : Active(w) => Good(w)
  /\ \A r \in Recoveries : \A i \in 1..Len(todo[r]) : enqueuedAt[todo[r][i].d] > 0
  /\ queued \subseteq Written
  /\ NothingLost
-----------------------------------------------------------------------------
(* The assumptions, and a recovery is no delivery.                         *)
LEMMA Given ==
  /\ NPayloads \in Nat /\ NPayloads > 0 /\ MaxRetries \in Nat /\ MaxFaults \in Nat
  /\ Budgets \subseteq Nat /\ Backoff \in Seq(Nat) /\ Backoff # <<>>
  /\ IsFiniteSet(Deliveries)
  /\ \A r \in Recoveries : r \in Workers /\ r \notin Deliveries /\ ~IsLive(r)
  /\ \A d \in Deliveries : d \in Workers /\ IsLive(d)
  /\ \A w \in Workers : w \in Deliveries \/ w \in Recoveries
BY DeliveryAssumption DEF Workers, IsLive

(* A backoff is a natural number.                                          *)
LEMMA BackoffType ==
  ASSUME NEW n \in Nat \ {0} PROVE ComputeBackoff(n) \in Nat
<1>1. Len(Backoff) \in Nat \ {0} BY Given
<1>2. (IF n > Len(Backoff) THEN Len(Backoff) ELSE n) \in 1..Len(Backoff) BY <1>1
<1> QED BY <1>2, Given DEF ComputeBackoff

(* The worker records.                                                     *)
WorkerRec == [pc : {"idle", "load", "loop", "sending", "ack", "fail", "write", "over"},
              d : Workers, k : 1..NPayloads + 1, bad : Nat, id : BOOLEAN,
              tell : BOOLEAN, read : Nat]

LEMMA RestType ==
  ASSUME NEW w \in Workers,
         NEW pc \in {"idle", "load", "loop", "sending", "ack", "fail", "write", "over"}
  PROVE  Rest(w, pc) \in WorkerRec
BY Given DEF Rest, WorkerRec

LEMMA RestFields ==
  ASSUME NEW w, NEW pc
  PROVE  Rest(w, pc).pc = pc /\ Rest(w, pc).d = w /\ Rest(w, pc).k = 1
BY DEF Rest

(* The number of written deliveries is a natural number.                   *)
LEMMA WrittenCounts == Cardinality(Written) \in Nat
<1>1. IsFiniteSet(Written) BY Given, FS_Subset DEF Written
<1> QED BY <1>1, FS_CardinalityType

-----------------------------------------------------------------------------
LEMMA InitIInv == Init => IInv
<1> SUFFICES ASSUME Init PROVE IInv OBVIOUS
<1>1. \A w \in Workers : worker[w] = Rest(w, "idle") /\ worker[w].pc = "idle"
  BY DEF Init, Rest
<1>2. TypeOK
  <2>1. worker \in [Workers -> WorkerRec] BY RestType DEF Init
  <2>2. \A w \in Workers : worker[w].pc = "idle" BY <1>1
  <2>3. 0 \in 0..MaxFaults /\ FALSE \in BOOLEAN BY Given
  <2>4. \A r \in Recoveries : <<>> \in Seq(Entry) OBVIOUS
  <2> QED BY <2>1, <2>2, <2>3, <2>4, Given DEF Init, TypeOK, WorkerRec
<1>3. \A d \in Deliveries : Untouched(d) BY Given DEF Init, Untouched, Rest
<1>4. \A w \in Workers : ~Active(w) BY <1>1 DEF Active
<1>5. Written = {} BY DEF Written, Init
<1>6. queued = {} /\ \A r \in Recoveries : Len(todo[r]) = 0 BY DEF Init
<1> QED BY <1>2, <1>3, <1>4, <1>5, <1>6 DEF IInv, NothingLost

-----------------------------------------------------------------------------
(* A step that writes a record of one call leaves the others alone, and    *)
(* what it owes is about that call only.                                   *)
LEMMA OneCall ==
  ASSUME TypeOK, NEW w \in Workers, NEW new \in WorkerRec,
         worker' = [worker EXCEPT ![w] = new],
         new.pc \in {"sending", "ack", "fail", "write"} => new.d \in Deliveries
  PROVE  /\ worker' \in [Workers -> WorkerRec]
         /\ worker'[w] = new
         /\ \A v \in Workers : v # w => worker'[v] = worker[v]
         /\ \A v \in Workers : worker'[v].pc \in {"sending", "ack", "fail", "write"}
                                  => worker'[v].d \in Deliveries
<1>1. worker \in [Workers -> WorkerRec] BY DEF TypeOK, WorkerRec
<1>2. /\ worker'[w] = new
      /\ \A v \in Workers : v # w => worker'[v] = worker[v]
  BY <1>1
<1>3. worker' \in [Workers -> WorkerRec] BY <1>1
<1>4. \A v \in Workers : worker[v].pc \in {"sending", "ack", "fail", "write"}
                            => worker[v].d \in Deliveries
  BY DEF TypeOK
<1> QED BY <1>2, <1>3, <1>4

(* What the invariant says of the call at hand.                            *)
LEMMA AtHand ==
  ASSUME IInv, NEW w \in Workers
  PROVE  /\ worker[w] \in WorkerRec
         /\ Active(w) => worker[w].d \in Deliveries /\ Good(w)
BY DEF IInv, TypeOK, WorkerRec, Active

(* What may become of the history in one step.                             *)
Logged ==
  /\ sent' \in [Deliveries -> SUBSET Payloads]
  /\ aborted' \subseteq Deliveries /\ cut' \subseteq Deliveries
  /\ aborted \subseteq aborted' /\ cut \subseteq cut'
  /\ \A d \in Deliveries :
       /\ sent[d] \subseteq sent'[d]
       /\ At(d, "idle") => sent'[d] = sent[d] /\ (d \in aborted' => d \in aborted)

LEMMA NothingLogged == ASSUME IInv, UNCHANGED <<sent, aborted, cut>> PROVE Logged
BY DEF Logged, IInv, TypeOK

(* Only the sends and the state of one call change: what is left to show   *)
(* is about that call.                                                     *)
LEMMA CallStep ==
  ASSUME IInv, NEW w \in Workers, NEW new \in WorkerRec,
         worker' = [worker EXCEPT ![w] = new],
         new.pc \in {"sending", "ack", "fail", "write"} =>
           new.d \in Deliveries /\ Good(w)',
         new.pc # "idle" \/ w \in Recoveries,
         UNCHANGED <<queued, retry, failedDir, enqueuedAt, bestEffort>>,
         todo' \in [Recoveries -> Seq(Entry)],
         \A r \in Recoveries : \A i \in 1..Len(todo'[r]) : enqueuedAt[todo'[r][i].d] > 0,
         left' \in [Recoveries -> Nat], up' \in BOOLEAN, faults' \in 0..MaxFaults,
         Logged
  PROVE  IInv'
<1>1. TypeOK BY DEF IInv
<1>2. /\ worker' \in [Workers -> WorkerRec]
      /\ worker'[w] = new
      /\ \A v \in Workers : v # w => worker'[v] = worker[v]
      /\ \A v \in Workers : worker'[v].pc \in {"sending", "ack", "fail", "write"}
                               => worker'[v].d \in Deliveries
  BY <1>1, OneCall
<1>3. TypeOK'
  BY <1>1, <1>2 DEF TypeOK, WorkerRec, Entry, Logged
<1>4. ASSUME NEW d \in Deliveries, At(d, "idle")' PROVE Untouched(d)'
  <2>1. d \in Workers /\ d \notin Recoveries BY Given
  <2>2. At(d, "idle") /\ worker'[d] = worker[d] BY <1>2, <1>4, <2>1 DEF At
  <2>3. Untouched(d) BY <2>2 DEF IInv
  <2> QED BY <2>2, <2>3 DEF Untouched, Logged
<1>5. ASSUME NEW v \in Workers, Active(v)' PROVE Good(v)'
  <2>1. CASE v = w BY <1>2, <1>5, <2>1 DEF Active
  <2>2. CASE v # w
    <3>1. worker'[v] = worker[v] BY <1>2, <2>2
    <3>2. Good(v) /\ worker[v].d \in Deliveries BY <1>5, <3>1, AtHand DEF Active
    <3> DEFINE d == worker[v].d
    <3>3. sent[d] \subseteq sent'[d] /\ sent'[d] \subseteq Payloads BY <3>2 DEF Logged
    <3>4. sent[d] = Payloads => sent'[d] = Payloads BY <3>3
    <3>5. worker'[v].d = d /\ d \in Deliveries BY <3>1, <3>2
    <3> HIDE DEF d
    <3> QED BY <3>1, <3>2, <3>3, <3>4, <3>5 DEF Good, IsLive, Logged, d
  <2> QED BY <2>1, <2>2
<1>6. (queued \subseteq Written)' BY DEF IInv, Written
<1>7. NothingLost'
  <2> SUFFICES ASSUME NEW d \in Written',
                      d \notin bestEffort, d \notin queued, d \notin failedDir,
                      d \notin aborted', d \notin cut'
               PROVE sent'[d] = Payloads
    BY DEF NothingLost
  <2>1. d \in Written /\ d \in Deliveries BY DEF Written
  <2>2. sent[d] = Payloads BY <2>1 DEF IInv, NothingLost, Logged
  <2>3. sent'[d] \in SUBSET Payloads BY <2>1 DEF Logged
  <2> QED BY <2>1, <2>2, <2>3 DEF Logged
<1> QED BY <1>3, <1>4, <1>5, <1>6, <1>7 DEF IInv

-----------------------------------------------------------------------------
(* Return and Settle, written as records.                                  *)
LEMMA ReturnIs ==
  ASSUME IInv, NEW w \in Workers, Return(w)
  PROVE  /\ worker' = [worker EXCEPT ![w] = Rest(w, IF IsLive(w) THEN "over" ELSE "loop")]
         /\ Rest(w, IF IsLive(w) THEN "over" ELSE "loop") \in WorkerRec
         /\ Rest(w, IF IsLive(w) THEN "over" ELSE "loop").pc \in {"over", "loop"}
<1>1. (IF IsLive(w) THEN "over" ELSE "loop") \in {"over", "loop"} OBVIOUS
<1> QED BY <1>1, RestType DEF Return, Rest

LEMMA GoIs ==
  ASSUME IInv, NEW w \in Workers,
         NEW pc \in {"idle", "load", "loop", "sending", "ack", "fail", "write", "over"},
         Go(w, pc)
  PROVE  /\ worker' = [worker EXCEPT ![w] = [worker[w] EXCEPT !.pc = pc]]
         /\ [worker[w] EXCEPT !.pc = pc] \in WorkerRec
<1>1. worker[w] \in WorkerRec /\ worker \in [Workers -> WorkerRec]
  BY AtHand DEF IInv, TypeOK, WorkerRec
<1>2. [worker[w] EXCEPT !.pc = pc] \in WorkerRec BY <1>1 DEF WorkerRec
<1>3. worker' = [worker EXCEPT ![w] = [worker[w] EXCEPT !.pc = pc]] BY <1>1 DEF Go
<1> QED BY <1>2, <1>3

(* A call that is over, with what else it changed.                         *)
LEMMA ReturnStep ==
  ASSUME IInv, NEW w \in Workers, worker[w].pc # "idle", Return(w),
         UNCHANGED <<queued, retry, failedDir, enqueuedAt, bestEffort, todo, left, up>>,
         faults' \in 0..MaxFaults, Logged
  PROVE  IInv'
<1> DEFINE new == Rest(w, IF IsLive(w) THEN "over" ELSE "loop")
<1>1. /\ worker' = [worker EXCEPT ![w] = new] /\ new \in WorkerRec
      /\ new.pc \in {"over", "loop"}
  BY ReturnIs
<1>2. /\ todo' \in [Recoveries -> Seq(Entry)]
      /\ \A r \in Recoveries : \A i \in 1..Len(todo'[r]) : enqueuedAt[todo'[r][i].d] > 0
      /\ left' \in [Recoveries -> Nat] /\ up' \in BOOLEAN
  BY DEF IInv, TypeOK
<1> HIDE DEF new
<1> QED BY <1>1, <1>2, CallStep

(* A call that goes on to settle its file.                                 *)
LEMMA SettleStep ==
  ASSUME IInv, NEW w \in Workers, At(w, "sending"), NEW pc \in {"ack", "fail"},
         Settle(w, pc),
         UNCHANGED <<queued, retry, failedDir, enqueuedAt, bestEffort, todo, left, up, faults>>, Logged,
         pc = "ack" /\ worker[w].d \notin bestEffort =>
           sent[worker[w].d] = Payloads \/ worker[w].d \in aborted' \cup cut'
  PROVE  IInv'
<1>1. Active(w) BY DEF Active, At
<1>2. worker[w] \in WorkerRec /\ worker[w].d \in Deliveries /\ Good(w)
  BY <1>1, AtHand
<1>3. faults' \in 0..MaxFaults BY DEF IInv, TypeOK
<1>4. CASE IsLive(w) /\ ~worker[w].id
  BY <1>3, <1>4, ReturnStep DEF Settle, At
<1>5. CASE ~(IsLive(w) /\ ~worker[w].id)
  <2> DEFINE new == [worker[w] EXCEPT !.pc = pc]
  <2>1. worker' = [worker EXCEPT ![w] = new] /\ new \in WorkerRec
    BY <1>5, GoIs DEF Settle
  <2>2. new.pc = pc /\ new.d = worker[w].d /\ new.id = worker[w].id
    BY <1>2 DEF WorkerRec
  <2>3. worker'[w] = new BY <2>1, OneCall, <1>2, <2>2 DEF IInv
  <2>a. sent[worker[w].d] = Payloads => sent'[worker[w].d] = Payloads
    BY <1>2 DEF Logged
  <2>4. Good(w)' BY <1>2, <1>5, <2>2, <2>3, <2>a DEF Good, IsLive
  <2>5. /\ todo' \in [Recoveries -> Seq(Entry)]
        /\ \A r \in Recoveries : \A i \in 1..Len(todo'[r]) : enqueuedAt[todo'[r][i].d] > 0
        /\ left' \in [Recoveries -> Nat] /\ up' \in BOOLEAN
    BY DEF IInv, TypeOK
  <2> HIDE DEF new
  <2> QED BY <1>2, <1>3, <2>1, <2>2, <2>4, <2>5, CallStep
<1> QED BY <1>4, <1>5

-----------------------------------------------------------------------------
(* What the steps that only move a call leave as it was.                   *)
LEMMA RecoveryFacts ==
  ASSUME IInv
  PROVE  /\ todo \in [Recoveries -> Seq(Entry)]
         /\ \A r \in Recoveries : \A i \in 1..Len(todo[r]) : enqueuedAt[todo[r][i].d] > 0
         /\ left \in [Recoveries -> Nat] /\ up \in BOOLEAN /\ faults \in 0..MaxFaults
         /\ sent \in [Deliveries -> SUBSET Payloads]
         /\ aborted \subseteq Deliveries /\ cut \subseteq Deliveries
BY DEF IInv, TypeOK

LEMMA FaultType == ASSUME IInv, Fault PROVE faults' \in 0..MaxFaults
BY Given, RecoveryFacts DEF Fault

(* The call that is made writes its file or not; nothing was sent before.  *)
LEMMA BeginStep ==
  ASSUME IInv, NEW d \in Deliveries, NEW hasFile \in BOOLEAN, Begin(d, hasFile),
         UNCHANGED <<retry, failedDir, todo, left, up, sent, aborted, cut>>,
         faults' \in 0..MaxFaults,
         \/ hasFile /\ queued' = queued \cup {d}
                    /\ enqueuedAt' = [enqueuedAt EXCEPT ![d] = Cardinality(Written) + 1]
         \/ ~hasFile /\ UNCHANGED <<queued, enqueuedAt>>
  PROVE  IInv'
<1>1. d \in Workers /\ worker[d] \in WorkerRec /\ d \notin Recoveries /\ IsLive(d)
  BY Given, AtHand
<1>2. PICK best \in BOOLEAN, tell \in BOOLEAN :
        /\ bestEffort' = IF best THEN bestEffort \cup {d} ELSE bestEffort
        /\ worker' = [worker EXCEPT ![d].pc = "sending", ![d].id = hasFile, ![d].tell = tell]
  BY DEF Begin
<1> DEFINE new == [worker[d] EXCEPT !.pc = "sending", !.id = hasFile, !.tell = tell]
<1>3. worker \in [Workers -> WorkerRec] BY DEF IInv, TypeOK, WorkerRec
<1>4. worker' = [worker EXCEPT ![d] = new] BY <1>1, <1>2, <1>3 DEF WorkerRec
<1>5. new \in WorkerRec /\ new.pc = "sending" /\ new.id = hasFile
      /\ new.d = worker[d].d /\ new.k = worker[d].k
  BY <1>1 DEF WorkerRec
<1>6. At(d, "idle") /\ Untouched(d) BY DEF Begin, IInv
<1>7. worker[d].d = d /\ worker[d].k = 1 BY <1>6 DEF Untouched
<1>8. IInv'
  <2>1. /\ worker' \in [Workers -> WorkerRec] /\ worker'[d] = new
        /\ \A v \in Workers : v # d => worker'[v] = worker[v]
        /\ \A v \in Workers : worker'[v].pc \in {"sending", "ack", "fail", "write"}
                                 => worker'[v].d \in Deliveries
    BY <1>1, <1>4, <1>5, <1>7, OneCall DEF IInv
  <2> DEFINE n == Cardinality(Written) + 1
  <2>0. n \in Nat /\ n > 0 /\ enqueuedAt \in [Deliveries -> Nat]
    BY WrittenCounts DEF IInv, TypeOK
  <2>a. enqueuedAt' = enqueuedAt \/ enqueuedAt' = [enqueuedAt EXCEPT ![d] = n]
    OBVIOUS
  <2>b. hasFile => enqueuedAt' = [enqueuedAt EXCEPT ![d] = n] OBVIOUS
  <2> HIDE DEF n
  <2>2. enqueuedAt' \in [Deliveries -> Nat] BY <2>0, <2>a
  <2>3. \A c \in Deliveries : enqueuedAt[c] > 0 => enqueuedAt'[c] > 0 BY <2>0, <2>a
  <2>4. \A c \in Deliveries : c # d => enqueuedAt'[c] = enqueuedAt[c] BY <2>0, <2>a
  <2>5. hasFile => enqueuedAt'[d] > 0 BY <2>0, <2>b
  <2>6. TypeOK'
    <3>1. queued' \subseteq Deliveries /\ bestEffort' \subseteq Deliveries
      BY <1>2 DEF IInv, TypeOK
    <3> QED BY <2>1, <2>2, <3>1, Given DEF IInv, TypeOK, WorkerRec
  <2>7. ASSUME NEW c \in Deliveries, At(c, "idle")' PROVE Untouched(c)'
    <3>1. c \in Workers /\ c # d BY <2>1, <1>5, <2>7, Given DEF At
    <3>2. Untouched(c) BY <2>1, <2>7, <3>1 DEF IInv, At
    <3> QED BY <1>2, <2>1, <2>4, <3>1, <3>2 DEF Untouched
  <2>8. ASSUME NEW v \in Workers, Active(v)' PROVE Good(v)'
    <3>1. CASE v = d
      <4>1. worker'[v] = new /\ new.d = d /\ new.k = 1 /\ new.pc = "sending"
        BY <2>1, <3>1, <1>5, <1>7
      <4>2. 1..(new.k - 1) = {} BY <4>1
      <4> HIDE DEF new
      <4> QED BY <1>1, <1>5, <2>5, <3>1, <4>1, <4>2 DEF Good, IsLive
    <3>2. CASE v # d
      <4>1. worker'[v] = worker[v] BY <2>1, <3>2
      <4>2. Good(v) /\ worker[v].d \in Deliveries BY <2>8, <4>1, AtHand DEF Active
      <4>3. worker[v].d # d
        BY <1>6, <3>2, <4>2, Given DEF Good, Untouched, IsLive
      <4>4. enqueuedAt'[worker[v].d] = enqueuedAt[worker[v].d]
            /\ (worker[v].d \in bestEffort' <=> worker[v].d \in bestEffort)
        BY <1>2, <2>4, <4>2, <4>3
      <4> QED BY <4>1, <4>2, <4>4 DEF Good, IsLive
    <3> QED BY <3>1, <3>2
  <2>9. \A r \in Recoveries : \A i \in 1..Len(todo'[r]) : enqueuedAt'[todo'[r][i].d] > 0
    <3> SUFFICES ASSUME NEW r \in Recoveries, NEW i \in 1..Len(todo[r])
                 PROVE enqueuedAt'[todo[r][i].d] > 0
      OBVIOUS
    <3>0. todo[r] \in Seq(Entry) BY RecoveryFacts
    <3>x. todo[r][i] \in Entry BY <3>0
    <3>1. todo[r][i].d \in Deliveries BY <3>x DEF Entry
    <3> QED BY <2>3, <3>1, RecoveryFacts
  <2>10. (queued \subseteq Written)'
    BY <2>3, <2>5 DEF IInv, Written
  <2>11. NothingLost'
    <3> SUFFICES ASSUME NEW c \in Written', c \notin bestEffort', c \notin queued',
                        c \notin failedDir, c \notin aborted, c \notin cut
                 PROVE sent[c] = Payloads
      BY DEF NothingLost
    <3>1. c # d BY <1>6 DEF Written, Untouched
    <3>2. c \in Written BY <2>4, <3>1 DEF Written
    <3> QED BY <1>2, <3>2 DEF IInv, NothingLost
  <2> QED BY <2>6, <2>7, <2>8, <2>9, <2>10, <2>11 DEF IInv
<1> QED BY <1>8

-----------------------------------------------------------------------------
(* The sends.                                                              *)
LEMMA TransmitLogged ==
  ASSUME IInv, NEW w \in Workers, Sending(w),
         MaybeSent(w) \/ sent' = [sent EXCEPT ![worker[w].d] = @ \cup {worker[w].k}],
         aborted' = aborted, cut \subseteq cut', cut' \subseteq Deliveries
  PROVE  Logged
<1> DEFINE d == worker[w].d  k == worker[w].k
<1>1. Active(w) /\ worker[w].pc = "sending" BY DEF Active, Sending, At
<1>2. worker[w] \in WorkerRec /\ d \in Deliveries /\ Good(w) BY <1>1, AtHand
<1>3. k \in 1..NPayloads BY <1>2, Given DEF Sending, WorkerRec
<1>4. sent \in [Deliveries -> SUBSET Payloads] BY RecoveryFacts
<1>5. CASE sent' = sent BY <1>4, <1>5, RecoveryFacts DEF Logged
<1>6. CASE sent' = [sent EXCEPT ![d] = @ \cup {k}]
  <2>1. /\ sent' \in [Deliveries -> SUBSET Payloads]
        /\ \A c \in Deliveries : sent[c] \subseteq sent'[c]
        /\ \A c \in Deliveries : c # d => sent'[c] = sent[c]
    BY <1>2, <1>3, <1>4, <1>6 DEF Payloads
  <2>2. ~At(d, "idle")
    <3>1. w \in Deliveries => d = w BY <1>2 DEF Good, IsLive
    <3>2. w \notin Deliveries => enqueuedAt[d] > 0 BY <1>2 DEF Good, IsLive
    <3>3. At(d, "idle") => enqueuedAt[d] = 0 BY <1>2 DEF IInv, Untouched
    <3> QED BY <1>1, <3>1, <3>2, <3>3 DEF At
  <2> HIDE DEF d, k
  <2> QED BY <2>1, <2>2, RecoveryFacts DEF Logged
<1> QED BY <1>5, <1>6 DEF MaybeSent

LEMMA SendOkStep == ASSUME IInv, NEW w \in Workers, SendOk(w) PROVE IInv'
<1> DEFINE d == worker[w].d  k == worker[w].k
           new == [worker[w] EXCEPT !.k = k + 1]
<1>1. Active(w) /\ worker[w].pc = "sending" BY DEF Active, SendOk, Sending, At
<1>2. worker[w] \in WorkerRec /\ d \in Deliveries /\ Good(w) BY <1>1, AtHand
<1>3. k \in 1..NPayloads /\ k + 1 \in 1..NPayloads + 1 /\ k + 1 - 1 = k
  BY <1>2, Given DEF SendOk, Sending, WorkerRec
<1>4. worker \in [Workers -> WorkerRec] /\ sent \in [Deliveries -> SUBSET Payloads]
  BY DEF IInv, TypeOK, WorkerRec
<1>5. /\ worker' = [worker EXCEPT ![w] = new] /\ new \in WorkerRec
      /\ new.pc = "sending" /\ new.d = d /\ new.id = worker[w].id /\ new.k = k + 1
  BY <1>1, <1>2, <1>3, <1>4 DEF SendOk, WorkerRec
<1>6. sent' = [sent EXCEPT ![d] = @ \cup {k}] BY DEF SendOk
<1>7. /\ sent' \in [Deliveries -> SUBSET Payloads]
      /\ \A c \in Deliveries : sent[c] \subseteq sent'[c]
      /\ \A c \in Deliveries : c # d => sent'[c] = sent[c]
      /\ sent'[d] = sent[d] \cup {k}
  BY <1>2, <1>3, <1>4, <1>6 DEF Payloads
<1>8. Logged
  <2>1. Sending(w) /\ aborted' = aborted /\ cut' = cut BY DEF SendOk
  <2> HIDE DEF new
  <2> QED BY <1>6, <2>1, RecoveryFacts, TransmitLogged
<1>9. worker'[w] = new BY <1>2, <1>5, OneCall DEF IInv
<1>10. Good(w)'
  <2>1. d \notin bestEffort => 1..k \subseteq sent'[d]
    <3>1. d \notin bestEffort => 1..(k - 1) \subseteq sent[d] BY <1>1, <1>2 DEF Good
    <3>2. 1..k = 1..(k - 1) \cup {k} BY <1>3
    <3> QED BY <1>7, <3>1, <3>2
  <2>2. UNCHANGED <<bestEffort, enqueuedAt>> BY DEF SendOk, disk
  <2>3. /\ IsLive(w) => d = w
        /\ ~IsLive(w) \/ worker[w].id => enqueuedAt[d] > 0
    BY <1>2 DEF Good
  <2>4. /\ worker'[w].pc = "sending" /\ worker'[w].d = d
        /\ worker'[w].id = worker[w].id /\ worker'[w].k - 1 = k
    <3> HIDE DEF d, k, new
    <3>1. worker'[w].k = k + 1 BY <1>5, <1>9
    <3> QED BY <1>3, <1>5, <1>9, <3>1
  <2> HIDE DEF d, k, new
  <2> QED BY <2>1, <2>2, <2>3, <2>4 DEF Good, IsLive
<1>11. UNCHANGED <<queued, retry, failedDir, enqueuedAt, bestEffort, todo, left, up, faults, aborted, cut>>
  BY DEF SendOk, disk, recovery
<1> HIDE DEF d, k, new
<1> QED BY <1>2, <1>5, <1>7, <1>8, <1>10, <1>11, RecoveryFacts, CallStep

LEMMA PayloadFailsStep == ASSUME IInv, NEW w \in Workers, PayloadFails(w) PROVE IInv'
<1> DEFINE d == worker[w].d  k == worker[w].k
<1>1. Active(w) /\ worker[w].pc = "sending" /\ At(w, "sending")
  BY DEF Active, PayloadFails, Sending, At
<1>2. worker[w] \in WorkerRec /\ d \in Deliveries /\ Good(w) BY <1>1, AtHand
<1>3. UNCHANGED <<queued, retry, failedDir, enqueuedAt, bestEffort, todo, left, up, faults>>
  BY DEF PayloadFails, disk, recovery
<1>a. Logged
  <2>1. Sending(w) /\ MaybeSent(w) /\ aborted' = aborted /\ cut' = cut BY DEF PayloadFails
  <2> HIDE DEF d, k
  <2> QED BY <2>1, RecoveryFacts, TransmitLogged
<1>4. CASE d \in bestEffort
  <2> DEFINE new == [worker[w] EXCEPT !.k = k + 1, !.bad = @ + 1]
  <2>1. k + 1 \in 1..NPayloads + 1 BY <1>2, Given DEF PayloadFails, Sending, WorkerRec
  <2>2. worker \in [Workers -> WorkerRec] BY DEF IInv, TypeOK, WorkerRec
  <2>3. /\ worker' = [worker EXCEPT ![w] = new] /\ new \in WorkerRec
        /\ new.pc = "sending" /\ new.d = d /\ new.id = worker[w].id
    BY <1>1, <1>2, <1>4, <2>1, <2>2 DEF PayloadFails, WorkerRec
  <2>4. worker'[w] = new BY <1>2, <2>3, OneCall DEF IInv
  <2>5. Good(w)'
    BY <1>2, <1>3, <1>4, <2>3, <2>4 DEF Good, IsLive
  <2> HIDE DEF new
  <2> QED BY <1>2, <1>3, <1>a, <2>3, <2>5, RecoveryFacts, CallStep
<1>5. CASE d \notin bestEffort
  <2>1. Settle(w, "fail") BY <1>5 DEF PayloadFails
  <2> HIDE DEF d, k
  <2> QED BY <1>1, <1>3, <1>a, <2>1, RecoveryFacts, SettleStep
<1> QED BY <1>4, <1>5

LEMMA CoreThrowsStep == ASSUME IInv, NEW w \in Workers, CoreThrows(w) PROVE IInv'
<1>1. At(w, "sending") /\ Settle(w, "fail") BY DEF CoreThrows
<1>2. UNCHANGED <<queued, retry, failedDir, enqueuedAt, bestEffort, todo, left, up, faults, sent, aborted, cut>>
  BY DEF CoreThrows, disk, recovery, history
<1> QED BY <1>1, <1>2, RecoveryFacts, NothingLogged, SettleStep

LEMMA AbortStep == ASSUME IInv, NEW d \in Deliveries, Abort(d) PROVE IInv'
<1>1. At(d, "sending") /\ Settle(d, "ack") /\ aborted' = aborted \cup {d} /\ d \in Workers
  BY Given DEF Abort, Sending
<1>2. UNCHANGED <<queued, retry, failedDir, enqueuedAt, bestEffort, todo, left, up, faults, sent, cut>>
  BY DEF Abort, disk, recovery
<1>3. worker[d].d = d BY <1>1, AtHand, Given DEF Active, Good, At
<1>4. Logged BY <1>1, <1>2, RecoveryFacts DEF At, Logged
<1> QED BY <1>1, <1>2, <1>3, <1>4, RecoveryFacts, SettleStep

LEMMA TimesOutStep == ASSUME IInv, NEW d \in Deliveries, TimesOut(d) PROVE IInv'
<1>1. At(d, "sending") /\ Settle(d, "ack") /\ cut' = cut \cup {d} /\ d \in Workers
  BY Given DEF TimesOut, Sending
<1>2. UNCHANGED <<queued, retry, failedDir, enqueuedAt, bestEffort, todo, left, up, faults, aborted>>
  BY DEF TimesOut, disk, recovery
<1>3. worker[d].d = d BY <1>1, AtHand, Given DEF Active, Good, At
<1>4. Logged
  <2>1. Sending(d) /\ MaybeSent(d) BY DEF TimesOut
  <2> QED BY <1>1, <1>2, <2>1, RecoveryFacts, TransmitLogged
<1> QED BY <1>1, <1>2, <1>3, <1>4, RecoveryFacts, SettleStep

LEMMA ResolveStep == ASSUME IInv, NEW w \in Workers, Resolve(w) PROVE IInv'
<1> DEFINE d == worker[w].d
<1>1. At(w, "sending") /\ worker[w].k = NPayloads + 1 BY DEF Resolve
<1>2. worker[w] \in WorkerRec /\ d \in Deliveries /\ Good(w) BY <1>1, AtHand DEF Active, At
<1>3. UNCHANGED <<queued, retry, failedDir, enqueuedAt, bestEffort, todo, left, up, faults, sent, aborted, cut>>
  BY DEF Resolve, disk, recovery, history
<1>4. d \notin bestEffort => sent[d] = Payloads
  <2>1. worker[w].k - 1 = NPayloads BY <1>1, Given
  <2>2. d \notin bestEffort => Payloads \subseteq sent[d]
    BY <1>1, <1>2, <2>1 DEF Good, At, Payloads
  <2> QED BY <1>2, <2>2, RecoveryFacts
<1>5. Settle(w, "fail") \/ Settle(w, "ack") BY DEF Resolve
<1> HIDE DEF d
<1>6. CASE Settle(w, "fail") BY <1>1, <1>3, <1>6, RecoveryFacts, NothingLogged, SettleStep
<1>7. CASE Settle(w, "ack")
  BY <1>1, <1>3, <1>4, <1>7, RecoveryFacts, NothingLogged, SettleStep DEF d
<1> QED BY <1>5, <1>6, <1>7

-----------------------------------------------------------------------------
(* Settling the file.                                                      *)

(* A file goes away: it was parked, or nothing of it is missing.           *)
LEMMA UnlinkStep ==
  ASSUME IInv, NEW d \in Deliveries, Unlinked(d),
         failedDir \subseteq failedDir', failedDir' \subseteq Deliveries,
         \A c \in Deliveries : At(c, "idle") => (c \in failedDir' => c \in failedDir),
         d \in bestEffort \/ d \in failedDir' \/ sent[d] = Payloads \/ d \in aborted \cup cut,
         UNCHANGED <<enqueuedAt, bestEffort, left, up, faults, sent, aborted, cut>>,
         todo' \in [Recoveries -> Seq(Entry)],
         \A r \in Recoveries : \A i \in 1..Len(todo'[r]) : enqueuedAt[todo'[r][i].d] > 0,
         worker' \in [Workers -> WorkerRec],
         \A v \in Workers : worker'[v] = worker[v] \/ worker'[v].pc \in {"over", "loop"}
  PROVE  IInv'
<1>1. /\ queued' = queued \ {d} /\ retry' \in [Deliveries -> Nat]
  BY DEF Unlinked, IInv, TypeOK
<1>2. TypeOK'
  <2>1. \A v \in Workers : worker'[v].pc \in {"sending", "ack", "fail", "write"}
          => worker'[v].d \in Deliveries
    BY DEF IInv, TypeOK
  <2> QED BY <1>1, <2>1 DEF IInv, TypeOK, WorkerRec, Entry
<1>3. ASSUME NEW c \in Deliveries, At(c, "idle")' PROVE Untouched(c)'
  <2>1. worker'[c] = worker[c] /\ At(c, "idle") BY <1>3, Given DEF At
  <2>2. Untouched(c) BY <2>1 DEF IInv
  <2> QED BY <1>1, <2>1, <2>2 DEF Untouched
<1>4. ASSUME NEW v \in Workers, Active(v)' PROVE Good(v)'
  <2>1. worker'[v] = worker[v] BY <1>4 DEF Active
  <2>2. Good(v) BY <1>4, <2>1, AtHand DEF Active
  <2> QED BY <2>1, <2>2 DEF Good, IsLive
<1>5. (queued \subseteq Written)' BY <1>1 DEF IInv, Written
<1>6. NothingLost'
  <2> SUFFICES ASSUME NEW c \in Written', c \notin bestEffort, c \notin queued',
                      c \notin failedDir', c \notin aborted, c \notin cut
               PROVE sent[c] = Payloads
    BY DEF NothingLost
  <2>1. CASE c = d BY <2>1
  <2>2. CASE c # d
    <3>1. c \in Written /\ c \notin queued /\ c \notin failedDir
      BY <1>1, <2>2 DEF Written
    <3> QED BY <3>1 DEF IInv, NothingLost
  <2> QED BY <2>1, <2>2
<1> QED BY <1>2, <1>3, <1>4, <1>5, <1>6 DEF IInv

LEMMA AckStep == ASSUME IInv, NEW w \in Workers, Ack(w) PROVE IInv'
<1> DEFINE d == worker[w].d  new == Rest(w, IF IsLive(w) THEN "over" ELSE "loop")
<1>1. At(w, "ack") /\ Unlinked(d) /\ Return(w) BY DEF Ack
<1>2. worker[w] \in WorkerRec /\ d \in Deliveries /\ Good(w) BY <1>1, AtHand DEF Active, At
<1>3. UNCHANGED <<failedDir, enqueuedAt, bestEffort, todo, left, up, faults, sent, aborted, cut>>
  BY DEF Ack, recovery, history
<1>4. worker' = [worker EXCEPT ![w] = new] /\ new \in WorkerRec /\ new.pc \in {"over", "loop"}
  BY <1>1, ReturnIs
<1>5. /\ worker' \in [Workers -> WorkerRec] /\ worker'[w] = new
      /\ \A v \in Workers : v # w => worker'[v] = worker[v]
  BY <1>4, OneCall DEF IInv
<1>6. d \in bestEffort \/ sent[d] = Payloads \/ d \in aborted \cup cut
  BY <1>1, <1>2 DEF Good, At
<1>7. failedDir \subseteq Deliveries BY DEF IInv, TypeOK
<1> HIDE DEF d, new
<1> QED BY <1>1, <1>2, <1>3, <1>4, <1>5, <1>6, <1>7, RecoveryFacts, UnlinkStep

LEMMA AckErrorStep == ASSUME IInv, NEW w \in Workers, AckError(w) PROVE IInv'
<1>1. At(w, "ack") /\ Fault BY DEF AckError
<1>2. UNCHANGED <<queued, retry, failedDir, enqueuedAt, bestEffort, todo, left, up, sent, aborted, cut>>
  BY DEF AckError, disk, recovery, history
<1>3. worker[w] \in WorkerRec /\ worker[w].d \in Deliveries /\ Good(w)
  BY <1>1, AtHand DEF Active, At
<1>4. CASE IsLive(w) /\ Return(w)
  BY <1>1, <1>2, <1>4, RecoveryFacts, FaultType, NothingLogged, ReturnStep DEF At
<1>5. CASE ~IsLive(w) /\ Go(w, "fail")
  <2> DEFINE new == [worker[w] EXCEPT !.pc = "fail"]
  <2>1. worker' = [worker EXCEPT ![w] = new] /\ new \in WorkerRec BY <1>5, GoIs
  <2>2. new.pc = "fail" /\ new.d = worker[w].d /\ new.id = worker[w].id
    BY <1>3 DEF WorkerRec
  <2>3. worker'[w] = new BY <1>3, <2>1, <2>2, OneCall DEF IInv
  <2>4. Good(w)' BY <1>2, <1>3, <1>5, <2>2, <2>3 DEF Good, IsLive
  <2> HIDE DEF new
  <2> QED BY <1>1, <1>2, <1>3, <2>1, <2>2, <2>4, RecoveryFacts, FaultType, NothingLogged, CallStep
<1> QED BY <1>4, <1>5 DEF AckError

LEMMA FailReadStep == ASSUME IInv, NEW w \in Workers, FailRead(w) PROVE IInv'
<1> DEFINE d == worker[w].d
<1>1. At(w, "fail") BY DEF FailRead
<1>2. UNCHANGED <<queued, retry, failedDir, enqueuedAt, bestEffort, todo, left, up, faults, sent, aborted, cut>>
  BY DEF FailRead, disk, recovery, history
<1>3. worker[w] \in WorkerRec /\ d \in Deliveries /\ Good(w) BY <1>1, AtHand DEF Active, At
<1>4. CASE Return(w) BY <1>1, <1>2, <1>4, RecoveryFacts, NothingLogged, ReturnStep DEF At
<1>5. CASE worker' = [worker EXCEPT ![w].pc = "write", ![w].read = retry[d]]
  <2> DEFINE new == [worker[w] EXCEPT !.pc = "write", !.read = retry[d]]
  <2>1. worker \in [Workers -> WorkerRec] /\ retry[d] \in Nat
    BY <1>3 DEF IInv, TypeOK, WorkerRec
  <2>2. /\ worker' = [worker EXCEPT ![w] = new] /\ new \in WorkerRec
        /\ new.pc = "write" /\ new.d = d /\ new.id = worker[w].id
    BY <1>3, <1>5, <2>1 DEF WorkerRec
  <2>3. worker'[w] = new BY <1>3, <2>2, OneCall DEF IInv
  <2>4. Good(w)' BY <1>1, <1>2, <1>3, <2>2, <2>3 DEF Good, IsLive, At
  <2> HIDE DEF new
  <2> QED BY <1>2, <1>3, <2>2, <2>4, RecoveryFacts, NothingLogged, CallStep
<1> QED BY <1>4, <1>5 DEF FailRead

LEMMA FailErrorStep == ASSUME IInv, NEW w \in Workers, FailError(w) PROVE IInv'
<1>1. UNCHANGED <<queued, retry, failedDir, enqueuedAt, bestEffort, todo, left, up, sent, aborted, cut>>
  BY DEF FailError, disk, recovery, history
<1> QED BY <1>1, RecoveryFacts, FaultType, NothingLogged, ReturnStep DEF FailError, At

LEMMA FailWriteStep == ASSUME IInv, NEW w \in Workers, FailWrite(w) PROVE IInv'
<1> DEFINE d == worker[w].d  new == Rest(w, IF IsLive(w) THEN "over" ELSE "loop")
<1>1. At(w, "write") /\ Return(w) BY DEF FailWrite
<1>2. worker[w] \in WorkerRec /\ d \in Deliveries /\ Good(w) BY <1>1, AtHand DEF Active, At
<1>3. UNCHANGED <<failedDir, enqueuedAt, bestEffort, todo, left, up, faults, sent, aborted, cut>>
  BY DEF FailWrite, recovery, history
<1>4. worker' = [worker EXCEPT ![w] = new] /\ new \in WorkerRec /\ new.pc \in {"over", "loop"}
  BY <1>1, ReturnIs
<1>5. /\ worker' \in [Workers -> WorkerRec] /\ worker'[w] = new
      /\ \A v \in Workers : v # w => worker'[v] = worker[v]
      /\ \A v \in Workers : worker'[v].pc \in {"sending", "ack", "fail", "write"}
                               => worker'[v].d \in Deliveries
  BY <1>4, OneCall DEF IInv
<1>6. queued' = queued \cup {d} /\ retry' = [retry EXCEPT ![d] = worker[w].read + 1]
  BY DEF FailWrite
<1>7. retry' \in [Deliveries -> Nat] BY <1>2, <1>6 DEF IInv, TypeOK, WorkerRec
<1>8. d \in Written BY <1>1, <1>2 DEF Good, At, Written, IsLive
<1> HIDE DEF d, new
<1>9. TypeOK' BY <1>2, <1>3, <1>5, <1>6, <1>7 DEF IInv, TypeOK, WorkerRec
<1>10. ASSUME NEW c \in Deliveries, At(c, "idle")' PROVE Untouched(c)'
  <2>1. worker'[c] = worker[c] /\ At(c, "idle")
    BY <1>4, <1>5, <1>10, Given DEF At
  <2>2. Untouched(c) BY <2>1 DEF IInv
  <2>3. c # d BY <1>8, <2>2 DEF Untouched, Written
  <2> QED BY <1>3, <1>6, <2>1, <2>2, <2>3 DEF Untouched
<1>11. ASSUME NEW v \in Workers, Active(v)' PROVE Good(v)'
  <2>1. worker'[v] = worker[v] BY <1>4, <1>5, <1>11 DEF Active
  <2>2. Good(v) BY <1>11, <2>1, AtHand DEF Active
  <2> QED BY <1>3, <2>1, <2>2 DEF Good, IsLive
<1>12. (queued \subseteq Written)' BY <1>3, <1>6, <1>8 DEF IInv, Written
<1>13. NothingLost' BY <1>3, <1>6 DEF IInv, NothingLost, Written
<1>14. \A r \in Recoveries : \A i \in 1..Len(todo'[r]) : enqueuedAt'[todo'[r][i].d] > 0
  BY <1>3, RecoveryFacts
<1> QED BY <1>9, <1>10, <1>11, <1>12, <1>13, <1>14 DEF IInv

-----------------------------------------------------------------------------
(* The recovery loop.                                                      *)
LEMMA StartStep ==
  ASSUME IInv, NEW r \in Recoveries, NEW b \in Budgets, Start(r, b) PROVE IInv'
<1> DEFINE new == [worker[r] EXCEPT !.pc = "load"]
<1>1. r \in Workers /\ worker[r] \in WorkerRec BY Given, AtHand
<1>2. worker' = [worker EXCEPT ![r] = new] /\ new \in WorkerRec
  BY <1>1, GoIs DEF Start
<1>3. new.pc = "load" BY <1>1 DEF WorkerRec
<1>4. UNCHANGED <<queued, retry, failedDir, enqueuedAt, bestEffort, todo, faults, sent, aborted, cut>>
  BY DEF Start, disk, history
<1>5. left' \in [Recoveries -> Nat] /\ up' \in BOOLEAN
  BY Given, RecoveryFacts DEF Start
<1> HIDE DEF new
<1> QED BY <1>1, <1>2, <1>3, <1>4, <1>5, RecoveryFacts, NothingLogged, CallStep

LEMMA LoadStep == ASSUME IInv, NEW r \in Recoveries, Load(r) PROVE IInv'
<1> DEFINE new == [worker[r] EXCEPT !.pc = "loop"]
<1>1. r \in Workers /\ worker[r] \in WorkerRec BY Given, AtHand
<1>2. worker' = [worker EXCEPT ![r] = new] /\ new \in WorkerRec
  BY <1>1, GoIs DEF Load
<1>3. new.pc = "loop" BY <1>1 DEF WorkerRec
<1>4. UNCHANGED <<queued, retry, failedDir, enqueuedAt, bestEffort, left, up, faults, sent, aborted, cut>>
  BY DEF Load, disk, history
<1>5. PICK found \in [1..Cardinality(queued) -> queued] :
        todo' = [todo EXCEPT ![r] =
                   [i \in DOMAIN found |-> [d |-> found[i], retry |-> retry[found[i]]]]]
  BY DEF Load
<1> DEFINE list == [i \in DOMAIN found |-> [d |-> found[i], retry |-> retry[found[i]]]]
<1>6. queued \subseteq Deliveries /\ retry \in [Deliveries -> Nat] /\ queued \subseteq Written
  BY DEF IInv, TypeOK
<1>7. Cardinality(queued) \in Nat
  BY <1>6, Given, FS_Subset, FS_CardinalityType
<1>8. list \in Seq(Entry) /\ Len(list) = Cardinality(queued)
  <2> DEFINE n == Cardinality(queued)
  <2>1. DOMAIN found = 1..n OBVIOUS
  <2>2. \A i \in 1..n : [d |-> found[i], retry |-> retry[found[i]]] \in Entry
    BY <1>6 DEF Entry
  <2>3. list \in [1..n -> Entry] BY <2>1, <2>2
  <2> HIDE DEF list, n
  <2> QED BY <1>7, <2>3 DEF n
<1>9. \A i \in 1..Len(list) : enqueuedAt[list[i].d] > 0
  BY <1>6, <1>8 DEF Written
<1>10. todo' = [todo EXCEPT ![r] = list] BY <1>5
<1> HIDE DEF new, list
<1>11. /\ todo' \in [Recoveries -> Seq(Entry)]
       /\ \A q \in Recoveries : \A i \in 1..Len(todo'[q]) : enqueuedAt[todo'[q][i].d] > 0
  <2>1. todo'[r] = list /\ \A q \in Recoveries : q # r => todo'[q] = todo[q]
    BY <1>10, RecoveryFacts
  <2> QED BY <1>8, <1>9, <1>10, <2>1, RecoveryFacts
<1> QED BY <1>1, <1>2, <1>3, <1>4, <1>11, RecoveryFacts, NothingLogged, CallStep

(* Dropping the first entry of a snapshot.                                 *)
LEMMA PopFacts ==
  ASSUME IInv, NEW r \in Recoveries, todo[r] # <<>>, Pop(r)
  PROVE  /\ todo' \in [Recoveries -> Seq(Entry)]
         /\ \A q \in Recoveries : \A i \in 1..Len(todo'[q]) : enqueuedAt[todo'[q][i].d] > 0
         /\ Head(todo[r]) \in Entry
         /\ enqueuedAt[Head(todo[r]).d] > 0
<1>1. todo[r] \in Seq(Entry) /\ Len(todo[r]) \in Nat \ {0}
  BY RecoveryFacts
<1>2. /\ Head(todo[r]) = todo[r][1] /\ Head(todo[r]) \in Entry
      /\ Tail(todo[r]) \in Seq(Entry) /\ Len(Tail(todo[r])) = Len(todo[r]) - 1
      /\ \A i \in 1..Len(Tail(todo[r])) : Tail(todo[r])[i] = todo[r][i + 1]
  BY <1>1
<1>3. \A i \in 1..Len(Tail(todo[r])) : enqueuedAt[Tail(todo[r])[i].d] > 0
  BY <1>1, <1>2, RecoveryFacts
<1>4. todo'[r] = Tail(todo[r]) /\ \A q \in Recoveries : q # r => todo'[q] = todo[q]
  BY RecoveryFacts DEF Pop
<1>5. todo' \in [Recoveries -> Seq(Entry)] BY <1>2, RecoveryFacts DEF Pop
<1>6. enqueuedAt[Head(todo[r]).d] > 0 BY <1>1, <1>2, RecoveryFacts
<1> QED BY <1>2, <1>3, <1>4, <1>5, <1>6, RecoveryFacts

LEMMA MoveToFailedStep == ASSUME IInv, NEW r \in Recoveries, MoveToFailed(r) PROVE IInv'
<1> DEFINE d == Head(todo[r]).d
<1>1. Pop(r) /\ todo[r] # <<>> BY DEF MoveToFailed
<1>2. UNCHANGED <<enqueuedAt, worker, bestEffort, left, up, faults, sent, aborted, cut>>
  BY DEF MoveToFailed, history
<1>3. d \in Deliveries BY <1>1, PopFacts DEF Entry
<1>4. worker \in [Workers -> WorkerRec] /\ failedDir \subseteq Deliveries
  BY DEF IInv, TypeOK, WorkerRec
<1>5. CASE d \in queued
  <2>1. failedDir' = failedDir \cup {d} /\ Unlinked(d) BY <1>5 DEF MoveToFailed
  <2>2. \A c \in Deliveries : At(c, "idle") => c # d
    BY <1>3, <1>5 DEF IInv, Untouched
  <2> HIDE DEF d
  <2> QED BY <1>1, <1>2, <1>3, <1>4, <2>1, <2>2, PopFacts, UnlinkStep
<1>6. CASE d \notin queued
  <2>1. UNCHANGED <<failedDir, queued, retry>> BY <1>6 DEF MoveToFailed
  <2>2. TypeOK' BY <1>1, <1>2, <2>1, PopFacts DEF IInv, TypeOK
  <2>3. \A v \in Workers : Active(v)' => Good(v)'
    BY <1>2, <2>1 DEF IInv, Active, Good, IsLive
  <2>4. \A c \in Deliveries : At(c, "idle")' => Untouched(c)'
    BY <1>2, <2>1 DEF IInv, At, Untouched
  <2>5. NothingLost' /\ (queued \subseteq Written)'
    BY <1>2, <2>1 DEF IInv, NothingLost, Written
  <2> QED BY <1>1, <1>2, <2>2, <2>3, <2>4, <2>5, PopFacts DEF IInv
<1> QED BY <1>5, <1>6

LEMMA RetryStep == ASSUME IInv, NEW r \in Recoveries, Retry(r) PROVE IInv'
<1> DEFINE e == Head(todo[r])  new == [Rest(e.d, "sending") EXCEPT !.id = TRUE]
<1>1. Pop(r) /\ todo[r] # <<>> BY DEF Retry
<1>2. e \in Entry /\ e.d \in Deliveries /\ e.retry \in Nat /\ enqueuedAt[e.d] > 0
  BY <1>1, PopFacts DEF Entry
<1>3. UNCHANGED <<queued, retry, failedDir, enqueuedAt, bestEffort, up, faults, sent, aborted, cut>>
  BY DEF Retry, disk, history
<1>4. r \in Workers /\ ~IsLive(r) /\ e.d \in Workers BY <1>2, Given
<1>5. /\ worker' = [worker EXCEPT ![r] = new] /\ new \in WorkerRec
      /\ new.pc = "sending" /\ new.d = e.d /\ new.id /\ new.k = 1
  <2>1. Rest(e.d, "sending") \in WorkerRec BY <1>4, RestType
  <2> QED BY <2>1 DEF Retry, WorkerRec, Rest
<1>6. worker'[r] = new BY <1>2, <1>4, <1>5, OneCall DEF IInv
<1> HIDE DEF e, new
<1>7. Good(r)'
  <2>1. 1..(new.k - 1) = {} BY <1>5
  <2> QED BY <1>2, <1>3, <1>4, <1>5, <1>6, <2>1 DEF Good, IsLive
<1>8. left' \in [Recoveries -> Nat]
  <2> DEFINE bo == ComputeBackoff(e.retry + 1)
  <2>1. bo \in Nat BY <1>2, BackoffType
  <2>2. bo < left[r] BY DEF Retry, e
  <2>3. PICK spare \in {0, IF Len(todo[r]) = 1 THEN 0 ELSE left[r] - bo} :
          left' = [left EXCEPT ![r] = spare]
    BY DEF Retry, e
  <2> HIDE DEF bo
  <2>4. left[r] \in Nat /\ left[r] - bo \in Nat BY <2>1, <2>2, RecoveryFacts
  <2> QED BY <2>3, <2>4, RecoveryFacts
<1> QED BY <1>1, <1>2, <1>3, <1>4, <1>5, <1>7, <1>8, RecoveryFacts, PopFacts, NothingLogged, CallStep

LEMMA StopStep == ASSUME IInv, NEW r \in Recoveries, Stop(r) PROVE IInv'
<1> DEFINE new == [worker[r] EXCEPT !.pc = "idle"]
<1>1. r \in Workers /\ worker[r] \in WorkerRec BY Given, AtHand
<1>2. worker' = [worker EXCEPT ![r] = new] /\ new \in WorkerRec
  BY <1>1, GoIs DEF Stop
<1>3. new.pc = "idle" BY <1>1 DEF WorkerRec
<1>4. UNCHANGED <<queued, retry, failedDir, enqueuedAt, bestEffort, up, faults, sent, aborted, cut>>
  BY DEF Stop, disk, history
<1>5. /\ todo' \in [Recoveries -> Seq(Entry)] /\ left' \in [Recoveries -> Nat]
      /\ \A q \in Recoveries : \A i \in 1..Len(todo'[q]) : enqueuedAt[todo'[q][i].d] > 0
  <2>1. todo' = [todo EXCEPT ![r] = <<>>] /\ left' = [left EXCEPT ![r] = 0] BY DEF Stop
  <2>2. \A q \in Recoveries : todo'[q] = todo[q] \/ todo'[q] = <<>>
    BY <2>1, RecoveryFacts
  <2> QED BY <2>1, <2>2, RecoveryFacts
<1> HIDE DEF new
<1> QED BY <1>1, <1>2, <1>3, <1>4, <1>5, RecoveryFacts, NothingLogged, CallStep

LEMMA CrashStep == ASSUME IInv, Crash PROVE IInv'
<1>1. UNCHANGED <<queued, retry, failedDir, enqueuedAt, bestEffort, sent, aborted, cut>>
  BY DEF Crash, disk, history
<1>2. faults' \in 0..MaxFaults /\ up' = FALSE BY FaultType DEF Crash
<1>3. \A w \in Workers :
        worker'[w] = Rest(w, IF IsLive(w) /\ ~At(w, "idle") THEN "over" ELSE "idle")
  BY DEF Crash
<1>4. \A w \in Workers : (IF IsLive(w) /\ ~At(w, "idle") THEN "over" ELSE "idle") \in {"over", "idle"}
  OBVIOUS
<1>5. worker' \in [Workers -> WorkerRec] BY <1>3, <1>4, RestType DEF Crash
<1>6. \A w \in Workers : worker'[w].pc \in {"over", "idle"} BY <1>3, <1>4, RestFields
<1>7. /\ todo' \in [Recoveries -> Seq(Entry)] /\ left' \in [Recoveries -> Nat]
      /\ \A q \in Recoveries : Len(todo'[q]) = 0
  BY DEF Crash
<1>8. TypeOK' BY <1>1, <1>2, <1>5, <1>6, <1>7 DEF IInv, TypeOK, WorkerRec
<1>9. ASSUME NEW c \in Deliveries, At(c, "idle")' PROVE Untouched(c)'
  <2>1. At(c, "idle") BY <1>3, <1>9, Given, RestFields DEF At
  <2>2. Untouched(c) BY <2>1 DEF IInv
  <2>3. worker'[c].d = c /\ worker'[c].k = 1 BY <1>3, Given, RestFields
  <2> QED BY <1>1, <2>2, <2>3 DEF Untouched
<1>10. \A v \in Workers : ~Active(v)' BY <1>6 DEF Active
<1>11. NothingLost' /\ (queued \subseteq Written)' BY <1>1 DEF IInv, NothingLost, Written
<1> QED BY <1>1, <1>7, <1>8, <1>9, <1>10, <1>11 DEF IInv

-----------------------------------------------------------------------------
LEMMA NextIInv == IInv /\ [Next]_vars => IInv'
<1> SUFFICES ASSUME IInv, [Next]_vars PROVE IInv' OBVIOUS
<1>1. ASSUME NEW d \in Deliveries, Deliver(d) PROVE IInv'
  <2>1. CASE Enqueue(d)
    <3>1. UNCHANGED <<retry, failedDir, todo, left, up, sent, aborted, cut>>
      BY <2>1 DEF Enqueue, recovery, history
    <3>2. faults' \in 0..MaxFaults BY <2>1, RecoveryFacts DEF Enqueue
    <3> QED BY <2>1, <3>1, <3>2, BeginStep DEF Enqueue
  <2>2. CASE EnqueueError(d)
    <3>1. UNCHANGED <<queued, enqueuedAt, retry, failedDir, todo, left, up, sent, aborted, cut>>
      BY <2>2 DEF EnqueueError, disk, recovery, history
    <3> QED BY <2>2, <3>1, FaultType, BeginStep DEF EnqueueError
  <2> QED BY <1>1, <2>1, <2>2, AbortStep, TimesOutStep DEF Deliver
<1>2. ASSUME NEW w \in Workers, Run(w) \/ AckError(w) \/ FailError(w) PROVE IInv'
  BY <1>2, SendOkStep, PayloadFailsStep, CoreThrowsStep, ResolveStep, AckStep,
     FailReadStep, FailWriteStep, AckErrorStep, FailErrorStep DEF Run
<1>3. ASSUME NEW r \in Recoveries,
             Recover(r) \/ \E b \in Budgets : Start(r, b)
      PROVE IInv'
  BY <1>3, LoadStep, MoveToFailedStep, RetryStep, StopStep, StartStep
     DEF Recover
<1>4. CASE Crash BY <1>4, CrashStep
<1>5. CASE UNCHANGED vars
  <2>1. UNCHANGED <<queued, retry, failedDir, enqueuedAt, bestEffort, worker, todo, left,
                    up, faults, sent, aborted, cut>>
    BY <1>5 DEF vars, disk, recovery, history
  <2>2. TypeOK' BY <2>1 DEF IInv, TypeOK
  <2>3. \A v \in Workers : Active(v)' => Good(v)' BY <2>1 DEF IInv, Active, Good, IsLive
  <2>4. \A c \in Deliveries : At(c, "idle")' => Untouched(c)' BY <2>1 DEF IInv, At, Untouched
  <2>5. NothingLost' /\ (queued \subseteq Written)' BY <2>1 DEF IInv, NothingLost, Written
  <2> QED BY <2>1, <2>2, <2>3, <2>4, <2>5 DEF IInv
<1> QED BY <1>1, <1>2, <1>3, <1>4, <1>5 DEF Next

(* Every state of the delivery queue is well typed.                        *)
THEOREM TypeCorrect == Spec => []TypeOK
<1>1. IInv => TypeOK BY DEF IInv
<1> QED BY <1>1, InitIInv, NextIInv, PTL DEF Spec

(* A message written ahead is never lost: once its file is gone it went    *)
(* out completely, or was aborted, or is parked, whatever crashes and      *)
(* overlaps (deliverOutboundPayloads and recoverPendingDeliveries).  Left  *)
(* out are the messages sent with bestEffort and those whose own call      *)
(* ended in a timed-out send, the file of which is removed at once.        *)
THEOREM NothingIsLost == Spec => []NothingLost
<1>1. IInv => NothingLost BY DEF IInv
<1> QED BY <1>1, InitIInv, NextIInv, PTL DEF Spec

-----------------------------------------------------------------------------
(* The refinement.                                                         *)
LEMMA InitPromise == Init => Promise!Init
BY DEF Init, Promise!Init

LEMMA StepPromise == IInv /\ [Next]_vars => [Promise!Next]_Promise!vars
<1> SUFFICES ASSUME IInv, [Next]_vars PROVE Promise!Next \/ UNCHANGED Promise!vars
  OBVIOUS
<1> DEFINE Same == UNCHANGED <<queued, failedDir, bestEffort, sent, aborted, cut>>
<1>0. ASSUME Same PROVE UNCHANGED Promise!vars BY <1>0 DEF Promise!vars
<1>1. ASSUME NEW d \in Deliveries, Deliver(d) PROVE Promise!Next
  <2>1. ASSUME NEW f \in BOOLEAN, Begin(d, f), UNCHANGED <<failedDir, sent, aborted, cut>>
        PROVE Promise!Mode(d)
    <3>1. Untouched(d) BY <2>1 DEF Begin, IInv
    <3>2. bestEffort' = bestEffort \/ bestEffort' = bestEffort \cup {d} BY <2>1 DEF Begin
    <3> QED BY <3>1, <3>2 DEF Promise!Mode, Untouched
  <2>2. CASE Enqueue(d)
    <3>1. UNCHANGED <<failedDir, sent, aborted, cut>> BY <2>2 DEF Enqueue, history
    <3>2. Promise!Owe(d) BY <2>1, <2>2, <3>1 DEF Enqueue, Promise!Owe
    <3> QED BY <3>2 DEF Promise!Next
  <2>3. CASE EnqueueError(d)
    <3>1. UNCHANGED <<queued, failedDir, sent, aborted, cut>>
      BY <2>3 DEF EnqueueError, disk, history
    <3>2. Promise!Offer(d) BY <2>1, <2>3, <3>1 DEF EnqueueError, Promise!Offer
    <3> QED BY <3>2 DEF Promise!Next
  <2>4. CASE Abort(d)
    <3>1. Promise!Withdraw(d)
      BY <2>4 DEF Abort, disk, Promise!Withdraw
    <3> QED BY <3>1 DEF Promise!Next
  <2>5. CASE TimesOut(d)
    <3>1. d \in Workers /\ At(d, "sending") /\ worker[d].k <= NPayloads
      BY <2>5, Given DEF TimesOut, Sending
    <3>2. worker[d] \in WorkerRec /\ worker[d].d = d
      BY <3>1, AtHand, Given DEF Active, Good, At
    <3>3. worker[d].k \in Payloads BY <3>1, <3>2, Given DEF Payloads, WorkerRec
    <3>4. UNCHANGED sent \/ \E p \in Payloads : Promise!Out(d, p)
      BY <2>5, <3>2, <3>3 DEF TimesOut, MaybeSent, Promise!Out
    <3>5. Promise!CutOff(d) BY <2>5, <3>4 DEF TimesOut, disk, Promise!CutOff
    <3> QED BY <3>5 DEF Promise!Next
  <2> QED BY <1>1, <2>2, <2>3, <2>4, <2>5 DEF Deliver
<1>2. ASSUME NEW w \in Workers, Run(w) \/ AckError(w) \/ FailError(w)
      PROVE Promise!Next \/ Same
  <2> DEFINE d == worker[w].d
  <2>1. CASE SendOk(w)
    <3>1. Active(w) BY <2>1 DEF SendOk, Sending, At, Active
    <3>2. worker[w] \in WorkerRec /\ d \in Deliveries BY <3>1, AtHand
    <3>3. worker[w].k \in Payloads
      BY <2>1, <3>2, Given DEF SendOk, Sending, Payloads, WorkerRec
    <3>4. Promise!Transmit(d, worker[w].k)
      BY <2>1 DEF SendOk, disk, Promise!Transmit, Promise!Out
    <3> QED BY <3>2, <3>3, <3>4 DEF Promise!Next
  <2>a. CASE PayloadFails(w)
    <3>1. Active(w) BY <2>a DEF PayloadFails, Sending, At, Active
    <3>2. worker[w] \in WorkerRec /\ d \in Deliveries BY <3>1, AtHand
    <3>3. worker[w].k \in Payloads
      BY <2>a, <3>2, Given DEF PayloadFails, Sending, Payloads, WorkerRec
    <3>4. Same \/ Promise!Transmit(d, worker[w].k)
      BY <2>a DEF PayloadFails, MaybeSent, disk, Promise!Transmit, Promise!Out
    <3> QED BY <3>2, <3>3, <3>4 DEF Promise!Next
  <2>2. CASE CoreThrows(w) \/ Resolve(w) \/ FailRead(w)
             \/ AckError(w) \/ FailError(w)
    BY <2>2 DEF CoreThrows, Resolve, FailRead, AckError, FailError,
                disk, history
  <2>3. CASE Ack(w)
    <3>1. At(w, "ack") /\ d \in Deliveries /\ Good(w)
      BY <2>3, AtHand DEF Ack, Active, At
    <3>2. queued' = queued \ {d} /\ UNCHANGED <<failedDir, bestEffort, sent, aborted, cut>>
      BY <2>3 DEF Ack, Unlinked, history
    <3>3. d \in bestEffort \/ sent[d] = Payloads \/ d \in aborted \cup cut
      BY <3>1 DEF Good, At
    <3>4. CASE d \in queued
      <4>1. Promise!Settle(d) BY <3>2, <3>3, <3>4 DEF Promise!Settle
      <4> QED BY <3>1, <4>1 DEF Promise!Next
    <3>5. CASE d \notin queued BY <3>2, <3>5
    <3> QED BY <3>4, <3>5
  <2>4. CASE FailWrite(w)
    <3>1. d \in Deliveries BY <2>4, AtHand DEF FailWrite, Active, At
    <3>2. Promise!Owe(d) BY <2>4 DEF FailWrite, history, Promise!Owe, Promise!Mode
    <3> QED BY <3>1, <3>2 DEF Promise!Next
  <2> QED BY <1>2, <2>1, <2>2, <2>3, <2>4, <2>a DEF Run
<1>3. ASSUME NEW r \in Recoveries,
             Recover(r) \/ \E b \in Budgets : Start(r, b)
      PROVE Promise!Next \/ Same
  <2>1. CASE MoveToFailed(r)
    <3> DEFINE d == Head(todo[r]).d
    <3>1. d \in Deliveries BY <2>1, PopFacts DEF MoveToFailed, Entry
    <3>2. UNCHANGED <<bestEffort, sent, aborted, cut>> BY <2>1 DEF MoveToFailed, history
    <3>3. CASE d \in queued
      <4>1. failedDir' = failedDir \cup {d} /\ queued' = queued \ {d}
        BY <2>1, <3>3 DEF MoveToFailed, Unlinked
      <4>2. Promise!Park(d) BY <3>2, <3>3, <4>1 DEF Promise!Park
      <4> QED BY <3>1, <4>2 DEF Promise!Next
    <3>4. CASE d \notin queued BY <2>1, <3>2, <3>4 DEF MoveToFailed
    <3> QED BY <3>3, <3>4
  <2>2. CASE Load(r) \/ Retry(r) \/ Stop(r) \/ \E b \in Budgets : Start(r, b)
    BY <2>2 DEF Load, Retry, Stop, Start, disk, history
  <2> QED BY <1>3, <2>1, <2>2 DEF Recover
<1>4. CASE Crash BY <1>4, <1>0 DEF Crash, disk, history
<1>5. CASE UNCHANGED vars BY <1>5, <1>0 DEF vars, disk, history
<1> HIDE DEF Same
<1> QED BY <1>0, <1>1, <1>2, <1>3, <1>4, <1>5 DEF Next

(* The delivery queue implements the at-least-once promise, which does not *)
(* cover best effort nor a first sending that was cut off by a timeout.    *)
THEOREM ImplementsAtLeastOnce == Spec => AtLeastOnceSpec
<1> QED BY InitIInv, NextIInv, InitPromise, StepPromise, PTL
        DEF Spec, AtLeastOnceSpec, Promise!Spec
=============================================================================
