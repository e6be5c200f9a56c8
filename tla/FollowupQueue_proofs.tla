------------------------ MODULE FollowupQueue_proofs ------------------------
(***************************************************************************)
(* Proofs about FollowupQueue, for any routes, cap and number of queue     *)
(* objects, messages, aborts and failures.                                 *)
(***************************************************************************)
EXTENDS FollowupQueue, SequenceTheorems, TLAPS

Msg == [n : Messages, to : Routes]

(* What a queue object and its drain are like: the messages are in the     *)
(* order of their numbers, and those behind the ones that are being run    *)
(* are younger.                                                            *)
Tame(o) ==
  /\ \A i, j \in 1..Len(o.items) : i < j => o.items[i].n < o.items[j].n
  /\ \A i \in 1..Len(o.items), j \in 1..Len(o.flight) :
       Len(o.flight) < i => o.flight[j].n < o.items[i].n
  /\ o.pc = "one" => Len(o.flight) = 1
  /\ o.pc \in {"idle", "wait", "summary"} => o.flight = <<>>
  /\ o.pc \in {"idle", "wait"} => o.told = {}

(* An object that has never been at its cap: what is run is its front.     *)
Clean(o) ==
  /\ o.sum = {} /\ o.told = {} /\ o.pc # "summary"
  /\ Len(o.flight) <= Len(o.items)
  /\ \A i \in 1..Len(o.flight) : o.flight[i] = o.items[i]

(* The invariant, of objects Q, the map m, c queued messages, the messages *)
(* R that were run and S that were settled, cl aborts and the cap hit.     *)
Young(Q, c, R, cl) ==
  \A q \in Queues :
    /\ Tame(Q[q])
    /\ \A n \in Nums(Q[q].items) \cup Nums(Q[q].flight) : n <= c
    /\ \A n \in Nums(Q[q].items), r \in R : n # r /\ (cl = 0 => r < n)
Apart(Q) ==
  \A q, p \in Queues : q # p =>
    \A n \in Nums(Q[q].items) : n \notin Nums(Q[p].items) \cup Nums(Q[p].flight)
Alone(Q, m, cl) == cl = 0 => \A q \in Queues : q # m => Q[q] = Fresh
Exact(Q, c, R, S, cl, ov) ==
  cl = 0 /\ ov = FALSE =>
    /\ \A q \in Queues : Clean(Q[q])
    /\ \A n \in 1..c : n \in R \/ n \in S \/ \E q \in Queues : n \in Nums(Q[q].items)
Inv(Q, m, c, R, S, cl, ov) ==
  /\ Q \in [Queues -> Object] /\ m \in Queues \cup {None} /\ \A r \in R : r <= c
  /\ Young(Q, c, R, cl) /\ Apart(Q) /\ Alone(Q, m, cl) /\ Exact(Q, c, R, S, cl, ov)

Bounds ==
  /\ arrived \in 0..MaxMessages /\ late \in Nat /\ turns \in Nat /\ count \in Nat
  /\ count + late <= arrived
  /\ clears \in 0..MaxClears /\ failures \in 0..MaxFailures /\ thrown \in BOOLEAN
  /\ ran \subseteq Messages /\ settled \subseteq Messages /\ overflow \in BOOLEAN
IInv == Bounds /\ Inv(queue, map, count, ran, settled, clears, overflow)
-----------------------------------------------------------------------------
(* Sequences of messages.                                                  *)
LEMMA NumsType ==
  ASSUME NEW s \in Seq(Msg)
  PROVE  /\ Nums(s) \subseteq Messages
         /\ Len(s) \in Nat
         /\ \A n : n \in Nums(s) <=> \E i \in 1..Len(s) : n = s[i].n
         /\ \A i \in 1..Len(s) : s[i] \in Msg /\ s[i].n \in Nat /\ s[i].n \in Nums(s)
<1>1. Len(s) \in Nat /\ DOMAIN s = 1..Len(s) /\ s \in [1..Len(s) -> Msg] BY LenProperties
<1>2. \A x \in Msg : x.n \in Messages /\ x.n \in Nat BY DEF Msg, Messages
<1> QED BY <1>1, <1>2, Zenon DEF Nums

LEMMA NumsEmpty == Nums(<<>>) = {} /\ Len(<<>>) = 0 /\ <<>> \in Seq(Msg)
<1>1. <<>> \in Seq(Msg) /\ Len(<<>>) = 0 BY EmptySeq
<1>2. \A n : n \notin Nums(<<>>)
  <2>1. 1..0 = {} OBVIOUS
  <2> QED BY <1>1, <2>1, NumsType
<1> QED BY <1>1, <1>2

LEMMA RestType ==
  ASSUME NEW s \in Seq(Msg), NEW k \in Nat
  PROVE  /\ Rest(s, k) \in Seq(Msg)
         /\ Len(Rest(s, k)) = IF k <= Len(s) THEN Len(s) - k ELSE 0
         /\ \A i \in 1..Len(Rest(s, k)) : i + k \in 1..Len(s) /\ Rest(s, k)[i] = s[i + k]
<1>1. Len(s) \in Nat /\ \A i \in 1..Len(s) : s[i] \in Msg BY NumsType
<1>2. \A i \in (k + 1)..Len(s) : s[i] \in Msg BY <1>1
<1>3. /\ SubSeq(s, k + 1, Len(s)) \in Seq(Msg)
      /\ Len(SubSeq(s, k + 1, Len(s))) = IF k + 1 <= Len(s) THEN Len(s) - (k + 1) + 1 ELSE 0
      /\ \A i \in 1..(Len(s) - (k + 1) + 1) :
           SubSeq(s, k + 1, Len(s))[i] = s[(k + 1) + i - 1]
  BY <1>1, <1>2, SubSeqProperties
<1> QED BY <1>1, <1>3 DEF Rest

(* What is left is younger than nothing it was not younger than before.    *)
LEMMA RestNums ==
  ASSUME NEW s \in Seq(Msg), NEW k \in Nat
  PROVE  /\ Nums(Rest(s, k)) \subseteq Nums(s)
         /\ \A i \in 1..Len(s) : k < i => s[i].n \in Nums(Rest(s, k))
<1>1. \A i \in 1..Len(s) : k < i => i - k \in 1..Len(Rest(s, k))
  BY RestType, NumsType
<1>2. \A i \in 1..Len(s) : k < i => Rest(s, k)[i - k] = s[(i - k) + k]
  BY <1>1, RestType
<1>3. \A i \in 1..Len(s) : (i - k) + k = i BY NumsType
<1>4. \A i \in 1..Len(s) : k < i => s[i].n \in Nums(Rest(s, k))
  <2> SUFFICES ASSUME NEW i \in 1..Len(s), k < i PROVE s[i].n \in Nums(Rest(s, k)) OBVIOUS
  <2>1. i - k \in 1..Len(Rest(s, k)) /\ Rest(s, k)[i - k] = s[i] BY <1>1, <1>2, <1>3
  <2> QED BY <2>1, RestType, NumsType, Zenon
<1>5. \A n \in Nums(Rest(s, k)) : n \in Nums(s)
  <2> SUFFICES ASSUME NEW n \in Nums(Rest(s, k)) PROVE n \in Nums(s) OBVIOUS
  <2>1. PICK i \in 1..Len(Rest(s, k)) : n = Rest(s, k)[i].n BY RestType, NumsType
  <2>2. i + k \in 1..Len(s) /\ n = s[i + k].n BY <2>1, RestType
  <2> QED BY <2>2, NumsType, Zenon
<1> QED BY <1>4, <1>5

LEMMA AppendNums ==
  ASSUME NEW s \in Seq(Msg), NEW x \in Msg
  PROVE  /\ Append(s, x) \in Seq(Msg) /\ Nums(Append(s, x)) = Nums(s) \cup {x.n}
         /\ Len(Append(s, x)) = Len(s) + 1
         /\ \A i \in 1..Len(s) : Append(s, x)[i] = s[i]
         /\ Append(s, x)[Len(s) + 1] = x
<1>1. /\ Append(s, x) \in Seq(Msg) /\ Len(Append(s, x)) = Len(s) + 1
      /\ \A i \in 1..Len(s) : Append(s, x)[i] = s[i]
      /\ Append(s, x)[Len(s) + 1] = x
  BY AppendProperties
<1>2. Len(s) \in Nat BY NumsType
<1>3. \A n \in Nums(Append(s, x)) : n \in Nums(s) \cup {x.n}
  <2> SUFFICES ASSUME NEW n \in Nums(Append(s, x)) PROVE n \in Nums(s) \cup {x.n} OBVIOUS
  <2>1. PICK i \in 1..Len(Append(s, x)) : n = Append(s, x)[i].n BY <1>1, NumsType
  <2>2. i \in 1..Len(s) \/ i = Len(s) + 1 BY <1>1, <1>2
  <2>3. CASE i \in 1..Len(s) BY <2>1, <2>3, <1>1, NumsType, Zenon
  <2>4. CASE i = Len(s) + 1 BY <2>1, <2>4, <1>1
  <2> QED BY <2>2, <2>3, <2>4
<1>4. \A n \in Nums(s) : n \in Nums(Append(s, x))
  <2> SUFFICES ASSUME NEW n \in Nums(s) PROVE n \in Nums(Append(s, x)) OBVIOUS
  <2>1. PICK i \in 1..Len(s) : n = s[i].n BY NumsType
  <2>2. i \in 1..Len(Append(s, x)) /\ n = Append(s, x)[i].n BY <2>1, <1>1, <1>2
  <2> QED BY <2>2, <1>1, NumsType, Zenon
<1>5. x.n \in Nums(Append(s, x))
  <2>1. Len(s) + 1 \in 1..Len(Append(s, x)) BY <1>1, <1>2
  <2> QED BY <2>1, <1>1, NumsType, Zenon
<1> QED BY <1>1, <1>3, <1>4, <1>5

-----------------------------------------------------------------------------
(* Objects.                                                                *)
LEMMA ObjectFields ==
  ASSUME NEW o \in Object
  PROVE  /\ o.items \in Seq(Msg) /\ o.flight \in Seq(Msg)
         /\ o.sum \subseteq Messages /\ o.told \subseteq Messages
         /\ o.pc \in {"idle", "wait", "one", "batch", "summary"}
BY Zenon DEF Object, Msg

LEMMA FreshType ==
  /\ Fresh \in Object /\ Tame(Fresh) /\ Clean(Fresh) /\ Empty(Fresh)
  /\ Fresh.pc = "idle" /\ Nums(Fresh.items) = {} /\ Nums(Fresh.flight) = {}
<1>1. Fresh.items = <<>> /\ Fresh.flight = <<>> /\ Fresh.pc = "idle"
      /\ Fresh.sum = {} /\ Fresh.told = {}
  BY DEF Fresh
<1>2. <<>> \in Seq([n : Messages, to : Routes]) BY NumsEmpty DEF Msg
<1>3. Fresh \in Object BY <1>2 DEF Fresh, Object
<1>4. 1..0 = {} OBVIOUS
<1>5. Tame(Fresh) BY <1>1, <1>4, NumsEmpty DEF Tame
<1>6. Clean(Fresh) BY <1>1, <1>4, NumsEmpty DEF Clean
<1> QED BY <1>1, <1>3, <1>5, <1>6, NumsEmpty DEF Empty

LEMMA ItemsKnown ==
  ASSUME NEW o, o.items = <<>> PROVE Nums(o.items) = {}
BY NumsEmpty

(* Keep only lets go of objects that nobody will miss.                     *)
LEMMA KeepInv ==
  ASSUME NEW Q, NEW m \in Queues \cup {None}, NEW l \in Queues \cup {None},
         NEW c \in Nat, NEW R, NEW S, NEW cl, NEW ov,
         Inv(Q, m, c, R, S, cl, ov), Keep(Q, l),
         cl = 0 => l = m \/ m = None \/ (Empty(Q[m]) /\ Q[m].pc = "idle")
  PROVE  map' = l /\ Inv(queue', l, c, R, S, cl, ov)
<1>1. Q \in [Queues -> Object] BY DEF Inv
<1>2. map' = l /\ queue' = [q \in Queues |-> IF q # l /\ Q[q].pc = "idle" THEN Fresh ELSE Q[q]]
  BY DEF Keep
<1>3. \A q \in Queues : queue'[q] = Q[q] \/ queue'[q] = Fresh BY <1>2
<1>4. queue' \in [Queues -> Object] BY <1>1, <1>2, FreshType
<1>5. Young(queue', c, R, cl) BY <1>3, FreshType, Zenon DEF Young, Inv
<1>6. Apart(queue')
  <2> SUFFICES ASSUME NEW q \in Queues, NEW p \in Queues, q # p,
                      NEW n \in Nums(queue'[q].items)
               PROVE  n \notin Nums(queue'[p].items) \cup Nums(queue'[p].flight)
    BY DEF Apart
  <2>1. queue'[q] = Q[q] BY <1>3, FreshType
  <2>2. n \notin Nums(Q[p].items) \cup Nums(Q[p].flight) BY <2>1, Zenon DEF Apart, Inv
  <2> QED BY <2>2, <1>3, FreshType
<1>7. Alone(queue', l, cl)
  <2> SUFFICES ASSUME cl = 0, NEW q \in Queues, q # l PROVE queue'[q] = Fresh
    BY DEF Alone
  <2>1. CASE q # m BY <2>1, <1>3, Zenon DEF Alone, Inv
  <2>2. CASE q = m
    <3>1. m # None BY <2>2 DEF Queues, None
    <3>2. Q[q].pc = "idle" BY <2>2, <3>1
    <3> QED BY <3>2, <1>2
  <2> QED BY <2>1, <2>2
<1>8. Exact(queue', c, R, S, cl, ov)
  <2> SUFFICES ASSUME cl = 0, ov = FALSE
               PROVE /\ \A q \in Queues : Clean(queue'[q])
                     /\ \A n \in 1..c : n \in R \/ n \in S \/ \E q \in Queues : n \in Nums(queue'[q].items)
    BY DEF Exact
  <2>1. \A q \in Queues : Clean(queue'[q]) BY <1>3, FreshType, Zenon DEF Exact, Inv
  <2>2. \A q \in Queues : Nums(queue'[q].items) = Nums(Q[q].items)
    <3> SUFFICES ASSUME NEW q \in Queues, queue'[q] # Q[q]
                 PROVE  Nums(queue'[q].items) = Nums(Q[q].items)
      OBVIOUS
    <3>1. queue'[q] = Fresh /\ q # l BY <1>2
    <3>2. CASE q # m
      <4>1. Q[q] = Fresh BY <3>2 DEF Alone, Inv
      <4> QED BY <4>1, <3>1
    <3>3. CASE q = m
      <4>1. m # None BY <3>3 DEF Queues, None
      <4>2. Q[q].items = <<>> BY <4>1, <3>3, <3>1 DEF Empty
      <4> QED BY <4>2, <3>1, FreshType, NumsEmpty
    <3> QED BY <3>2, <3>3
  <2>3. \A n \in 1..c : n \in R \/ n \in S \/ \E q \in Queues : n \in Nums(Q[q].items)
    BY DEF Exact, Inv
  <2> QED BY <2>1, <2>2, <2>3
<1>9. \A r \in R : r <= c BY DEF Inv
<1> QED BY <1>2, <1>4, <1>5, <1>6, <1>7, <1>8, <1>9 DEF Inv

(* An object whose messages stay may begin or end its drain.               *)
LEMMA TurnInv ==
  ASSUME NEW Q, NEW m \in Queues \cup {None}, NEW c \in Nat, NEW R, NEW S, NEW cl, NEW ov,
         Inv(Q, m, c, R, S, cl, ov),
         NEW q \in Queues, NEW o \in Object, cl = 0 => q = m,
         o.items = Q[q].items, o.flight = <<>>, o.told = {}, o.sum = Q[q].sum,
         o.pc \in {"idle", "wait"}
  PROVE  Inv([Q EXCEPT ![q] = o], m, c, R, S, cl, ov)
<1> DEFINE P == [Q EXCEPT ![q] = o]
<1>1. Q \in [Queues -> Object] BY DEF Inv
<1>2. P \in [Queues -> Object] /\ P[q] = o /\ \A p \in Queues : p # q => P[p] = Q[p] BY <1>1
<1>3. Nums(o.flight) = {} /\ Len(o.flight) = 0 /\ 1..Len(o.flight) = {}
  <2>1. 1..0 = {} OBVIOUS
  <2> QED BY <2>1, NumsEmpty
<1>4. Tame(o)
  <2>1. Tame(Q[q]) BY DEF Young, Inv
  <2> QED BY <2>1, <1>3 DEF Tame
<1>5. \A p \in Queues : P[p].items = Q[p].items /\ (P[p].flight = Q[p].flight \/ Nums(P[p].flight) = {})
  BY <1>2, <1>3
<1>6. Young(P, c, R, cl)
  <2>1. \A p \in Queues : Tame(P[p]) BY <1>2, <1>4, Zenon DEF Young, Inv
  <2> QED BY <2>1, <1>5 DEF Young, Inv
<1>7. Apart(P) BY <1>5 DEF Apart, Inv
<1>8. Alone(P, m, cl) BY <1>2 DEF Alone, Inv
<1>9. Exact(P, c, R, S, cl, ov)
  <2> SUFFICES ASSUME cl = 0, ov = FALSE PROVE Exact(P, c, R, S, cl, ov) BY DEF Exact
  <2>1. Clean(Q[q]) /\ Len(Q[q].items) \in Nat
    BY <1>1, ObjectFields, NumsType DEF Exact, Inv
  <2>2. Clean(o) BY <2>1, <1>3 DEF Clean
  <2>3. \A p \in Queues : Clean(P[p]) BY <2>2, <1>2, Zenon DEF Exact, Inv
  <2> QED BY <2>3, <1>5 DEF Exact, Inv
<1> HIDE DEF P
<1>11. \A r \in R : r <= c BY DEF Inv
<1>10. Inv(P, m, c, R, S, cl, ov) BY <1>2, <1>6, <1>7, <1>8, <1>9, <1>11 DEF Inv
<1> QED BY <1>10 DEF P

LEMMA ScheduleInv ==
  ASSUME NEW Q, map \in Queues \cup {None}, NEW c \in Nat, NEW R, NEW S, NEW cl, NEW ov,
         Inv(Q, map, c, R, S, cl, ov), Schedule(Q)
  PROVE  Inv(queue', map', c, R, S, cl, ov)
<1>1. Q \in [Queues -> Object] BY DEF Inv
<1>2. CASE map = None \/ Q[map].pc # "idle"
  <2>1. Keep(Q, map) BY <1>2 DEF Schedule
  <2>2. map' = map /\ Inv(queue', map, c, R, S, cl, ov) BY <2>1, KeepInv
  <2> QED BY <2>2
<1>3. CASE map # None /\ Q[map].pc = "idle" /\ Empty(Q[map])
  <2>1. Keep(Q, None) BY <1>3 DEF Schedule
  <2> QED BY <2>1, <1>3, KeepInv
<1>4. CASE map # None /\ Q[map].pc = "idle" /\ ~Empty(Q[map])
  <2> DEFINE o == [Q[map] EXCEPT !.pc = "wait", !.force = FALSE]
             P == [Q EXCEPT ![map] = o]
  <2>1. map \in Queues BY <1>4
  <2>2. Q[map] \in Object /\ Tame(Q[map]) /\ (cl = 0 /\ ov = FALSE => Clean(Q[map]))
    BY <1>1, <2>1 DEF Inv, Young, Exact
  <2>3. o \in Object /\ o.items = Q[map].items /\ o.sum = Q[map].sum /\ o.pc = "wait"
        /\ o.flight = Q[map].flight /\ o.told = Q[map].told
    BY <2>2 DEF Object
  <2>4. Keep(P, map)
    <3>1. P = [Q EXCEPT ![map].pc = "wait", ![map].force = FALSE] BY <1>1, <2>1, <2>2 DEF Object
    <3> QED BY <3>1, <1>4 DEF Schedule
  <2>5. o.flight = <<>> /\ o.told = {} BY <2>2, <2>3, <1>4 DEF Tame
  <2> HIDE DEF o
  <2>6. Inv(P, map, c, R, S, cl, ov) BY <2>1, <2>3, <2>5, TurnInv
  <2> HIDE DEF P
  <2>7. map' = map /\ Inv(queue', map, c, R, S, cl, ov) BY <2>4, <2>6, KeepInv
  <2> QED BY <2>7
<1> QED BY <1>2, <1>3, <1>4

LEMMA FinallyInv ==
  ASSUME NEW Q, map \in Queues \cup {None}, NEW c \in Nat, NEW R, NEW S, NEW cl, NEW ov,
         NEW q \in Queues, Inv(Q, map, c, R, S, cl, ov), Q[q].pc # "idle", Finally(q, Q)
  PROVE  Inv(queue', map', c, R, S, cl, ov)
<1> DEFINE o == [Q[q] EXCEPT !.pc = "idle", !.flight = <<>>, !.told = {}]
           P == [Q EXCEPT ![q] = o]
<1>1. Q \in [Queues -> Object] /\ Q[q] \in Object BY DEF Inv
<1>2. P = [Q EXCEPT ![q].pc = "idle", ![q].flight = <<>>, ![q].told = {}]
  BY <1>1 DEF Object
<1>3. cl = 0 => q = map BY FreshType DEF Inv, Alone
<1>4. /\ o \in Object /\ o.items = Q[q].items /\ o.sum = Q[q].sum /\ o.pc = "idle"
      /\ o.flight = <<>> /\ o.told = {}
  BY <1>1, NumsEmpty DEF Object, Msg
<1>5. IF Empty(P[q]) THEN Keep(P, None) ELSE Schedule(P) BY <1>2 DEF Finally
<1>6. P[q] = o BY <1>1
<1> HIDE DEF o
<1>7. Inv(P, map, c, R, S, cl, ov) BY <1>3, <1>4, TurnInv
<1> HIDE DEF P
<1>8. CASE Empty(P[q])
  <2>1. Keep(P, None) BY <1>5, <1>8
  <2>2. cl = 0 => Empty(P[map]) /\ P[map].pc = "idle" BY <1>3, <1>4, <1>6, <1>8
  <2>3. map' = None /\ Inv(queue', None, c, R, S, cl, ov) BY <2>1, <2>2, <1>7, KeepInv
  <2> QED BY <2>3
<1>9. CASE ~Empty(P[q])
  <2>1. Schedule(P) BY <1>5, <1>9
  <2> QED BY <2>1, <1>7, ScheduleInv
<1> QED BY <1>8, <1>9
-----------------------------------------------------------------------------
(* The next run of a drain is chosen: the front of the queue, or no        *)
(* message.                                                                *)
LEMMA BeginInv ==
  ASSUME Bounds, Inv(queue, map, count, ran, settled, clears, overflow),
         NEW q \in Queues, NEW pc \in {"one", "batch", "summary"},
         NEW flight \in Seq(Msg), NEW told \in SUBSET Messages, NEW force \in BOOLEAN,
         queue[q].pc = "wait", Begin(q, pc, flight, told, force),
         Len(flight) <= Len(queue[q].items),
         \A i \in 1..Len(flight) : flight[i] = queue[q].items[i],
         pc = "one" => Len(flight) = 1,
         pc = "summary" => flight = <<>>,
         queue[q].sum = {} => told = {} /\ pc # "summary"
  PROVE  Inv(queue', map', count, ran, settled, clears, overflow)
<1> DEFINE o == [queue[q] EXCEPT !.pc = pc, !.flight = flight, !.told = told, !.force = force]
           items == queue[q].items
<1>1. queue \in [Queues -> Object] /\ queue[q] \in Object BY DEF Inv
<1>2. items \in Seq(Msg) BY <1>1, ObjectFields
<1>3. /\ o \in Object /\ o.items = items /\ o.sum = queue[q].sum /\ o.pc = pc
      /\ o.flight = flight /\ o.told = told
  BY <1>1 DEF Object, Msg
<1>4. queue' = [queue EXCEPT ![q] = o] /\ map' = map BY <1>1 DEF Begin, Object
<1> HIDE DEF o
<1>5. queue'[q] = o /\ queue' \in [Queues -> Object]
      /\ \A p \in Queues : p # q => queue'[p] = queue[p]
  BY <1>1, <1>3, <1>4
<1>6. Len(flight) \in Nat /\ Len(items) \in Nat BY <1>2, NumsType
<1>7. Nums(flight) \subseteq Nums(items)
  <2> SUFFICES ASSUME NEW n \in Nums(flight) PROVE n \in Nums(items) OBVIOUS
  <2>1. PICK i \in 1..Len(flight) : n = flight[i].n BY NumsType
  <2>2. i \in 1..Len(items) /\ n = items[i].n BY <2>1, <1>6
  <2> QED BY <2>2, <1>2, NumsType
<1>8. Tame(queue[q]) BY DEF Inv, Young
<1>9. Tame(o)
  <2>1. \A i \in 1..Len(items), j \in 1..Len(flight) :
          Len(flight) < i => flight[j].n < items[i].n
    <3> SUFFICES ASSUME NEW i \in 1..Len(items), NEW j \in 1..Len(flight), Len(flight) < i
                 PROVE  flight[j].n < items[i].n
      OBVIOUS
    <3>1. j \in 1..Len(items) /\ j < i /\ flight[j] = items[j] BY <1>6
    <3> QED BY <3>1, <1>8 DEF Tame
  <2>2. pc \notin {"idle", "wait"} OBVIOUS
  <2> QED BY <2>1, <2>2, <1>3, <1>8 DEF Tame
<1>10. \A p \in Queues : queue'[p].items = queue[p].items
         /\ Nums(queue'[p].flight) \subseteq Nums(queue[p].flight) \cup Nums(queue[p].items)
  BY <1>3, <1>5, <1>7
<1>11. Young(queue', count, ran, clears)
  <2>1. \A p \in Queues : Tame(queue'[p]) BY <1>5, <1>9, Zenon DEF Young, Inv
  <2> QED BY <2>1, <1>10 DEF Young, Inv
<1>12. Apart(queue') BY <1>10, Zenon DEF Apart, Inv
<1>13. Alone(queue', map', clears)
  <2>1. clears = 0 => q = map BY FreshType DEF Inv, Alone
  <2> QED BY <2>1, <1>4, <1>5 DEF Alone, Inv
<1>14. Exact(queue', count, ran, settled, clears, overflow)
  <2> SUFFICES ASSUME clears = 0, overflow = FALSE
               PROVE  Exact(queue', count, ran, settled, clears, overflow)
    BY DEF Exact
  <2>1. Clean(queue[q]) BY DEF Exact, Inv
  <2>2. Clean(o) BY <2>1, <1>3 DEF Clean
  <2>3. \A p \in Queues : Clean(queue'[p]) BY <2>2, <1>5, Zenon DEF Exact, Inv
  <2> QED BY <2>3, <1>10 DEF Exact, Inv
<1>15. \A r \in ran : r <= count BY DEF Inv
<1> QED BY <1>4, <1>5, <1>11, <1>12, <1>13, <1>14, <1>15 DEF Inv

(* The messages of a run that is over leave the queue, with those that     *)
(* were in their places.                                                   *)
LEMMA FinishInv ==
  ASSUME Bounds, Inv(queue, map, count, ran, settled, clears, overflow),
         NEW q \in Queues, Finish(q)
  PROVE  Inv(queue', map', count, ran', settled', clears, overflow)
<1> DEFINE items == queue[q].items
           flight == queue[q].flight
           k == IF queue[q].pc = "batch" THEN Len(flight) ELSE 1
           o == [queue[q] EXCEPT !.items = Rest(@, k), !.flight = <<>>, !.told = {}, !.pc = "wait",
                                 !.sum = IF queue[q].told # {} THEN {} ELSE @]
           Q == [queue EXCEPT ![q] = o]
<1>1. queue \in [Queues -> Object] /\ queue[q] \in Object /\ Tame(queue[q])
      /\ map \in Queues \cup {None}
  BY DEF Inv, Young
<1>2. items \in Seq(Msg) /\ flight \in Seq(Msg) BY <1>1, ObjectFields
<1>3. /\ queue[q].pc \in {"one", "batch", "summary"}
      /\ ran' = ran \cup Nums(flight) /\ settled' = settled \cup queue[q].told
      /\ IF Empty(o) THEN Finally(q, Q) ELSE Keep(Q, map)
  BY DEF Finish
<1>4. k \in Nat /\ Len(flight) <= k /\ Len(flight) \in Nat
      /\ (queue[q].pc # "summary" => k = Len(flight))
  <2>1. Len(flight) \in Nat BY <1>2, NumsType
  <2>2. queue[q].pc = "summary" => Len(flight) = 0 BY <1>1, NumsEmpty DEF Tame
  <2>3. queue[q].pc = "one" => Len(flight) = 1 BY <1>1 DEF Tame
  <2>4. queue[q].pc = "batch" => k = Len(flight) OBVIOUS
  <2>5. queue[q].pc # "batch" => k = 1 OBVIOUS
  <2>6. queue[q].pc \in {"one", "batch", "summary"} BY <1>3
  <2>7. CASE queue[q].pc = "summary"
    <3>1. k = 1 /\ Len(flight) = 0 BY <2>2, <2>5, <2>7
    <3>2. 1 \in Nat /\ 0 <= 1 /\ 0 \in Nat OBVIOUS
    <3> QED BY <3>1, <3>2, <2>7, Zenon
  <2>8. CASE queue[q].pc # "summary"
    <3>1. k = Len(flight) BY <2>3, <2>4, <2>5, <2>6, <2>8, Zenon
    <3>2. \A x \in Nat : x <= x OBVIOUS
    <3> QED BY <3>1, <3>2, <2>1, Zenon
  <2> QED BY <2>7, <2>8
<1> HIDE DEF k
<1>5. Rest(items, k) \in Seq(Msg) BY <1>2, <1>4, RestType
<1>6. /\ o \in Object /\ o.items = Rest(items, k) /\ o.pc = "wait"
      /\ o.flight = <<>> /\ o.told = {} /\ (queue[q].sum = {} => o.sum = {})
  BY <1>1, <1>5, NumsEmpty DEF Object, Msg
<1> HIDE DEF o
<1>7. Q[q] = o /\ Q \in [Queues -> Object] /\ \A p \in Queues : p # q => Q[p] = queue[p]
  BY <1>1, <1>6
<1> HIDE DEF Q
<1>8. Nums(o.items) \subseteq Nums(items) /\ Nums(o.flight) = {}
  BY <1>2, <1>4, <1>6, RestNums, NumsEmpty
<1>9. \A n \in Nums(o.items), r \in Nums(flight) : r < n
  <2> SUFFICES ASSUME NEW n \in Nums(o.items), NEW r \in Nums(flight) PROVE r < n OBVIOUS
  <2>1. PICK i \in 1..Len(Rest(items, k)) : n = Rest(items, k)[i].n
    BY <1>5, <1>6, NumsType
  <2>2. PICK j \in 1..Len(flight) : r = flight[j].n BY <1>2, NumsType
  <2>3. i + k \in 1..Len(items) /\ n = items[i + k].n /\ i > 0 /\ i \in Nat
    BY <2>1, <1>2, <1>4, RestType
  <2>4. Len(flight) < i + k BY <2>3, <1>4
  <2> QED BY <2>2, <2>3, <2>4, <1>1 DEF Tame
<1>10. Tame(o)
  <2>1. \A i, j \in 1..Len(o.items) : i < j => o.items[i].n < o.items[j].n
    <3> SUFFICES ASSUME NEW i \in 1..Len(o.items), NEW j \in 1..Len(o.items), i < j
                 PROVE  o.items[i].n < o.items[j].n
      OBVIOUS
    <3>1. /\ i + k \in 1..Len(items) /\ j + k \in 1..Len(items)
          /\ o.items[i] = items[i + k] /\ o.items[j] = items[j + k]
      <4>1. \A h \in 1..Len(Rest(items, k)) :
              h + k \in 1..Len(items) /\ Rest(items, k)[h] = items[h + k]
        BY <1>2, <1>4, RestType, Zenon
      <4> QED BY <4>1, <1>6
    <3>2. i + k < j + k BY <1>4
    <3> QED BY <3>1, <3>2, <1>1 DEF Tame
  <2>2. 1..Len(o.flight) = {}
    <3>1. Len(o.flight) = 0 BY <1>6, NumsEmpty
    <3> QED BY <3>1
  <2> QED BY <2>1, <2>2, <1>6 DEF Tame
<1>11. Young(Q, count, ran', clears)
  <2> SUFFICES ASSUME NEW p \in Queues
               PROVE  /\ Tame(Q[p])
                      /\ \A n \in Nums(Q[p].items) \cup Nums(Q[p].flight) : n <= count
                      /\ \A n \in Nums(Q[p].items), r \in ran' : n # r /\ (clears = 0 => r < n)
    BY DEF Young
  <2>1. CASE p = q
    <3>1. \A n \in Nums(o.items), r \in Nums(flight) : n # r
      <4>1. Nums(o.items) \subseteq Nat /\ Nums(flight) \subseteq Nat
        BY <1>2, <1>5, <1>6, NumsType DEF Messages
      <4> QED BY <4>1, <1>9
    <3> QED BY <2>1, <3>1, <1>3, <1>7, <1>8, <1>9, <1>10 DEF Young, Inv
  <2>2. CASE p # q
    <3>1. Q[p] = queue[p] BY <2>2, <1>7
    <3>2. \A n \in Nums(queue[p].items) : n \notin Nums(flight) BY <2>2 DEF Apart, Inv
    <3>3. clears = 0 => Nums(flight) = {} \/ Nums(queue[p].items) = {}
      BY <2>2, FreshType DEF Alone, Inv
    <3> QED BY <3>1, <3>2, <3>3, <1>3, Zenon DEF Young, Inv
  <2> QED BY <2>1, <2>2
<1>12. Apart(Q)
  <2>1. \A p \in Queues : Nums(Q[p].items) \subseteq Nums(queue[p].items)
          /\ Nums(Q[p].flight) \subseteq Nums(queue[p].flight)
    BY <1>7, <1>8
  <2> QED BY <2>1, Zenon DEF Apart, Inv
<1>13. Alone(Q, map, clears)
  <2>1. clears = 0 => q = map
    <3>1. queue[q] # Fresh BY <1>3, FreshType
    <3> QED BY <3>1 DEF Inv, Alone
  <2> QED BY <2>1, <1>7 DEF Alone, Inv
<1>14. Exact(Q, count, ran', settled', clears, overflow)
  <2> SUFFICES ASSUME clears = 0, overflow = FALSE
               PROVE  Exact(Q, count, ran', settled', clears, overflow)
    BY DEF Exact
  <2>1. Clean(queue[q]) BY DEF Exact, Inv
  <2>2. Clean(o)
    <3>1. 1..Len(o.flight) = {} /\ Len(o.flight) = 0
      <4>1. Len(o.flight) = 0 BY <1>6, NumsEmpty
      <4> QED BY <4>1
    <3>2. Len(o.items) \in Nat BY <1>5, <1>6, NumsType
    <3> QED BY <3>1, <3>2, <2>1, <1>6 DEF Clean
  <2>3. \A p \in Queues : Clean(Q[p]) BY <2>2, <1>7, Zenon DEF Exact, Inv
  <2>4. k = Len(flight) /\ Len(flight) <= Len(items)
        /\ \A i \in 1..Len(flight) : flight[i] = items[i]
    BY <2>1, <1>4 DEF Clean
  <2>5. \A n \in Nums(items) : n \in Nums(flight) \/ n \in Nums(o.items)
    <3> SUFFICES ASSUME NEW n \in Nums(items)
                 PROVE  n \in Nums(flight) \/ n \in Nums(o.items)
      OBVIOUS
    <3>1. PICK i \in 1..Len(items) : n = items[i].n BY <1>2, NumsType
    <3>2. CASE k < i BY <3>1, <3>2, <1>2, <1>4, <1>6, RestNums
    <3>3. CASE ~(k < i)
      <4>1. i \in 1..Len(flight) BY <3>3, <2>4, <1>4
      <4>2. n = flight[i].n BY <4>1, <3>1, <2>4
      <4> QED BY <4>1, <4>2, <1>2, NumsType, Zenon
    <3> QED BY <3>2, <3>3
  <2>6. \A n \in 1..count : n \in ran' \/ n \in settled' \/ \E p \in Queues : n \in Nums(Q[p].items)
    <3> SUFFICES ASSUME NEW n \in 1..count
                 PROVE n \in ran' \/ n \in settled' \/ \E p \in Queues : n \in Nums(Q[p].items)
      OBVIOUS
    <3>1. CASE n \in ran \/ n \in settled BY <3>1, <1>3
    <3>2. CASE \E p \in Queues : n \in Nums(queue[p].items)
      <4>1. PICK p \in Queues : n \in Nums(queue[p].items) BY <3>2
      <4>2. CASE p = q BY <4>1, <4>2, <2>5, <1>3, <1>7
      <4>3. CASE p # q BY <4>1, <4>3, <1>7
      <4> QED BY <4>2, <4>3
    <3> QED BY <3>1, <3>2 DEF Exact, Inv
  <2> QED BY <2>3, <2>6 DEF Exact
<1>15. Inv(Q, map, count, ran', settled', clears, overflow)
  <2>1. \A r \in ran' : r <= count BY <1>3 DEF Inv, Young
  <2> QED BY <2>1, <1>1, <1>7, <1>11, <1>12, <1>13, <1>14 DEF Inv
<1>16. count \in Nat BY DEF Bounds
<1>17. CASE Empty(o)
  <2>1. Finally(q, Q) /\ Q[q].pc # "idle" BY <1>3, <1>6, <1>7, <1>17
  <2> QED BY <2>1, <1>1, <1>15, <1>16, FinallyInv
<1>18. CASE ~Empty(o)
  <2>1. Keep(Q, map) BY <1>3, <1>18
  <2>2. map' = map /\ Inv(queue', map, count, ran', settled', clears, overflow)
    BY <2>1, <1>1, <1>15, <1>16, KeepInv
  <2> QED BY <2>2
<1> QED BY <1>17, <1>18

-----------------------------------------------------------------------------
(* Only the settings of an object change, and some messages are refused.   *)
LEMMA SettleInv ==
  ASSUME Bounds, Inv(queue, map, count, ran, settled, clears, overflow),
         NEW q \in Queues, q = map \/ map = None,
         NEW mode \in Modes, NEW drop \in Policies,
         NEW c \in Nat, NEW S, count <= c, settled \subseteq S,
         \A n \in 1..c : n <= count \/ n \in S
  PROVE  Inv([queue EXCEPT ![q] = Settle(queue[q], mode, drop)], q, c, ran, S, clears, overflow)
<1> DEFINE o == Settle(queue[q], mode, drop)
           Q == [queue EXCEPT ![q] = o]
<1>1. queue \in [Queues -> Object] /\ queue[q] \in Object BY DEF Inv
<1>2. /\ o \in Object /\ o.items = queue[q].items /\ o.flight = queue[q].flight
      /\ o.sum = queue[q].sum /\ o.told = queue[q].told /\ o.pc = queue[q].pc
  BY <1>1 DEF Object, Settle
<1> HIDE DEF o
<1>3. Q \in [Queues -> Object] /\ Q[q] = o /\ \A p \in Queues : p # q => Q[p] = queue[p]
  BY <1>1, <1>2
<1> HIDE DEF Q
<1>4. \A p \in Queues : /\ Q[p].items = queue[p].items /\ Q[p].flight = queue[p].flight
                        /\ Tame(Q[p]) /\ (Clean(queue[p]) => Clean(Q[p]))
  <2>1. Tame(queue[q]) BY DEF Inv, Young
  <2>2. Tame(o) /\ (Clean(queue[q]) => Clean(o)) BY <2>1, <1>2, Zenon DEF Tame, Clean
  <2>3. \A p \in Queues : Tame(queue[p]) BY DEF Inv, Young
  <2> QED BY <2>2, <2>3, <1>2, <1>3, Zenon
<1>5. \A n \in Nat : n <= count => n <= c BY DEF Bounds
<1>6. Young(Q, c, ran, clears)
  <2>1. \A p \in Queues : \A n \in Nums(queue[p].items) \cup Nums(queue[p].flight) :
          n <= count /\ n \in Nat
    BY <1>1, ObjectFields, NumsType DEF Inv, Young, Messages
  <2> QED BY <2>1, <1>4, <1>5 DEF Young, Inv
<1>7. Apart(Q) BY <1>4, Zenon DEF Apart, Inv
<1>8. Alone(Q, q, clears)
  <2>1. \A p \in Queues : p # None BY DEF Queues, None
  <2> QED BY <2>1, <1>3 DEF Alone, Inv
<1>9. Exact(Q, c, ran, S, clears, overflow)
  <2> SUFFICES ASSUME clears = 0, overflow = FALSE
               PROVE  /\ \A p \in Queues : Clean(Q[p])
                      /\ \A n \in 1..c : n \in ran \/ n \in S \/ \E p \in Queues : n \in Nums(Q[p].items)
    BY DEF Exact
  <2>1. \A p \in Queues : Clean(Q[p]) BY <1>4, Zenon DEF Exact, Inv
  <2>2. \A n \in 1..c : n \in 1..count \/ n \in S BY DEF Bounds
  <2> QED BY <2>1, <2>2, <1>4 DEF Exact, Inv
<1>10. \A r \in ran : r <= c BY <1>5 DEF Inv, Bounds, Messages
<1>11. Inv(Q, q, c, ran, S, clears, overflow)
  BY <1>3, <1>6, <1>7, <1>8, <1>9, <1>10 DEF Inv
<1> QED BY <1>11 DEF Q, o

(* A message is queued in object q, and the first k are dropped for it.    *)
LEMMA PutInv ==
  ASSUME Bounds, Inv(queue, map, count, ran, settled, clears, overflow),
         NEW q \in Queues, q = map \/ map = None,
         NEW k \in Nat, NEW x \in Msg, x.n = count + 1,
         NEW o \in Object, o.items = Append(Rest(queue[q].items, k), x),
         o.flight = queue[q].flight, o.told = queue[q].told, o.pc = queue[q].pc,
         NEW S, settled \subseteq S, NEW ov, ov = FALSE => overflow = FALSE,
         ov = FALSE => k = 0 /\ o.sum = queue[q].sum
  PROVE  Inv([queue EXCEPT ![q] = o], q, count + 1, ran, S, clears, ov)
<1> DEFINE Q == [queue EXCEPT ![q] = o]
           items == queue[q].items
           rest == Rest(items, k)
<1>1. queue \in [Queues -> Object] /\ queue[q] \in Object /\ Tame(queue[q]) /\ count \in Nat
  BY DEF Inv, Young, Bounds
<1>2. items \in Seq(Msg) /\ o.flight \in Seq(Msg) /\ rest \in Seq(Msg)
  BY <1>1, ObjectFields, RestType
<1>3. /\ Nums(o.items) = Nums(rest) \cup {count + 1} /\ Nums(rest) \subseteq Nums(items)
      /\ Len(rest) \in Nat /\ Len(items) \in Nat /\ Len(o.flight) \in Nat
      /\ Len(o.items) = Len(rest) + 1
  BY <1>2, AppendNums, RestNums, NumsType
<1>4. \A i \in 1..Len(rest) : /\ i + k \in 1..Len(items) /\ o.items[i] = items[i + k]
                             /\ o.items[i].n \in Nums(items)
  <2>1. \A i \in 1..Len(rest) : i + k \in 1..Len(items) /\ rest[i] = items[i + k]
    BY <1>2, RestType
  <2>2. \A i \in 1..Len(rest) : o.items[i] = rest[i] BY <1>2, AppendNums
  <2>3. \A i \in 1..Len(items) : items[i].n \in Nums(items) BY <1>2, NumsType
  <2> QED BY <2>1, <2>2, <2>3, Zenon
<1>5. o.items[Len(rest) + 1].n = count + 1 BY <1>2, AppendNums
<1>6. \A p \in Queues : \A n \in Nums(queue[p].items) \cup Nums(queue[p].flight) :
        n \in Nat /\ n <= count /\ n # count + 1
  BY <1>1, ObjectFields, NumsType DEF Inv, Young, Messages
<1>7. Q \in [Queues -> Object] /\ Q[q] = o /\ \A p \in Queues : p # q => Q[p] = queue[p]
  BY <1>1
<1> HIDE DEF Q, items, rest
<1>8. Tame(o)
  <2>1. \A i, j \in 1..Len(o.items) : i < j => o.items[i].n < o.items[j].n
    <3> SUFFICES ASSUME NEW i \in 1..Len(o.items), NEW j \in 1..Len(o.items), i < j
                 PROVE  o.items[i].n < o.items[j].n
      OBVIOUS
    <3>1. i \in 1..Len(rest) BY <1>3
    <3>2. CASE j \in 1..Len(rest)
      <4>1. i + k < j + k BY <3>1, <3>2, <1>3
      <4> QED BY <4>1, <3>1, <3>2, <1>1, <1>4 DEF Tame, items
    <3>3. CASE j = Len(rest) + 1
      <4>1. o.items[i].n \in Nums(queue[q].items) BY <3>1, <1>4 DEF items
      <4>2. o.items[i].n \in Nat /\ o.items[i].n <= count BY <4>1, <1>6
      <4> QED BY <4>2, <3>3, <1>1, <1>5
    <3> QED BY <3>2, <3>3, <1>3
  <2>2. \A i \in 1..Len(o.items), j \in 1..Len(o.flight) :
          Len(o.flight) < i => o.flight[j].n < o.items[i].n
    <3> SUFFICES ASSUME NEW i \in 1..Len(o.items), NEW j \in 1..Len(o.flight), Len(o.flight) < i
                 PROVE  o.flight[j].n < o.items[i].n
      OBVIOUS
    <3>1. CASE i \in 1..Len(rest)
      <4>1. Len(o.flight) < i + k BY <1>3
      <4> QED BY <4>1, <3>1, <1>1, <1>4 DEF Tame, items
    <3>2. CASE i = Len(rest) + 1
      <4>1. o.flight[j].n \in Nums(queue[q].flight) BY <1>2, NumsType
      <4>2. o.flight[j].n \in Nat /\ o.flight[j].n <= count BY <4>1, <1>6
      <4> QED BY <4>2, <3>2, <1>1, <1>5
    <3> QED BY <3>1, <3>2, <1>3
  <2> QED BY <2>1, <2>2, <1>1, Zenon DEF Tame
<1>9. \A r \in ran : r \in Nat /\ r <= count BY DEF Inv, Bounds, Messages
<1>10. Young(Q, count + 1, ran, clears)
  <2> SUFFICES ASSUME NEW p \in Queues
               PROVE  /\ Tame(Q[p])
                      /\ \A n \in Nums(Q[p].items) \cup Nums(Q[p].flight) : n <= count + 1
                      /\ \A n \in Nums(Q[p].items), r \in ran : n # r /\ (clears = 0 => r < n)
    BY DEF Young
  <2>1. CASE p = q
    <3>1. \A n \in Nums(o.items) : n \in Nums(queue[q].items) \/ n = count + 1
      BY <1>3 DEF items
    <3>2. \A n \in Nums(o.items), r \in ran : n # r /\ (clears = 0 => r < n)
      <4>1. \A n \in Nums(queue[q].items), r \in ran : n # r /\ (clears = 0 => r < n)
        BY DEF Young, Inv
      <4>2. \A r \in ran : r < count + 1 /\ count + 1 # r BY <1>1, <1>9
      <4> QED BY <4>1, <4>2, <3>1, Zenon
    <3>3. \A n \in Nums(o.items) \cup Nums(o.flight) : n <= count + 1
      BY <3>1, <1>1, <1>6
    <3> QED BY <2>1, <3>2, <3>3, <1>7, <1>8
  <2>2. CASE p # q
    <3>1. Q[p] = queue[p] BY <2>2, <1>7
    <3>2. \A n \in Nums(queue[p].items) \cup Nums(queue[p].flight) : n <= count + 1
      BY <1>1, <1>6
    <3> QED BY <3>1, <3>2 DEF Young, Inv
  <2> QED BY <2>1, <2>2
<1>11. Apart(Q)
  <2>1. \A p \in Queues : /\ Nums(Q[p].items) \subseteq Nums(queue[p].items) \cup {count + 1}
                          /\ Q[p].flight = queue[p].flight
                          /\ (p # q => Q[p].items = queue[p].items)
    BY <1>3, <1>7 DEF items
  <2> SUFFICES ASSUME NEW a \in Queues, NEW p \in Queues, a # p, NEW n \in Nums(Q[a].items)
               PROVE  n \notin Nums(Q[p].items) \cup Nums(Q[p].flight)
    BY DEF Apart
  <2>2. CASE n = count + 1
    <3>1. a = q BY <2>1, <2>2, <1>6
    <3> QED BY <3>1, <2>1, <2>2, <1>6
  <2>3. CASE n # count + 1
    <3>1. n \in Nums(queue[a].items) BY <2>1, <2>3
    <3>2. n \notin Nums(queue[p].items) \cup Nums(queue[p].flight)
      BY <3>1, Zenon DEF Apart, Inv
    <3> QED BY <3>2, <2>1, <2>3
  <2> QED BY <2>2, <2>3
<1>12. Alone(Q, q, clears)
  <2>1. \A p \in Queues : p # None BY DEF Queues, None
  <2> QED BY <2>1, <1>7 DEF Alone, Inv
<1>13. Exact(Q, count + 1, ran, S, clears, ov)
  <2> SUFFICES ASSUME clears = 0, ov = FALSE PROVE Exact(Q, count + 1, ran, S, clears, ov)
    BY DEF Exact
  <2>1. Clean(queue[q]) /\ k = 0 /\ o.sum = queue[q].sum BY DEF Exact, Inv
  <2>2. Len(rest) = Len(items) /\ \A i \in 1..Len(items) : o.items[i] = items[i]
    <3>1. Len(rest) = Len(items) BY <2>1, <1>2, <1>3, RestType DEF rest
    <3>2. \A i \in 1..Len(items) : o.items[i] = items[i + 0] BY <3>1, <2>1, <1>4
    <3> QED BY <3>1, <3>2, <1>3
  <2>3. Clean(o) BY <2>1, <2>2, <1>3 DEF Clean, items
  <2>4. \A p \in Queues : Clean(Q[p]) BY <2>3, <1>7, Zenon DEF Exact, Inv
  <2>5. \A n \in Nums(items) : n \in Nums(o.items)
    <3> SUFFICES ASSUME NEW n \in Nums(items) PROVE n \in Nums(o.items) OBVIOUS
    <3>1. PICK i \in 1..Len(items) : n = items[i].n BY <1>2, NumsType
    <3>2. i \in 1..Len(o.items) /\ n = o.items[i].n BY <3>1, <2>2, <1>3
    <3>3. o.items \in Seq(Msg) BY ObjectFields
    <3> QED BY <3>2, <3>3, NumsType, Zenon
  <2>6. \A n \in 1..(count + 1) : n \in ran \/ n \in S \/ \E p \in Queues : n \in Nums(Q[p].items)
    <3> SUFFICES ASSUME NEW n \in 1..(count + 1)
                 PROVE n \in ran \/ n \in S \/ \E p \in Queues : n \in Nums(Q[p].items)
      OBVIOUS
    <3>1. CASE n = count + 1 BY <3>1, <1>3, <1>7
    <3>2. CASE n \in 1..count
      <4>1. n \in ran \/ n \in settled \/ \E p \in Queues : n \in Nums(queue[p].items)
        BY <3>2 DEF Exact, Inv
      <4>2. \A p \in Queues : n \in Nums(queue[p].items) => n \in Nums(Q[p].items)
        BY <2>5, <1>7, Zenon DEF items
      <4> QED BY <4>1, <4>2
    <3> QED BY <3>1, <3>2, <1>1
  <2> QED BY <2>4, <2>6 DEF Exact
<1>14. \A r \in ran : r <= count + 1 BY <1>1, <1>9
<1>15. Inv(Q, q, count + 1, ran, S, clears, ov)
  BY <1>7, <1>10, <1>11, <1>12, <1>13, <1>14 DEF Inv
<1> QED BY <1>15 DEF Q

-----------------------------------------------------------------------------
LEMMA Limits ==
  /\ Cap \in Nat \ {0} /\ MaxQueues \in Nat /\ MaxMessages \in Nat
  /\ MaxClears \in Nat /\ MaxFailures \in Nat
BY FollowupAssumption

LEMMA InitIInv == Init => IInv
<1> SUFFICES ASSUME Init PROVE IInv OBVIOUS
<1>1. Bounds
  <2>1. /\ arrived = 0 /\ late = 0 /\ turns = 0 /\ count = 0 /\ clears = 0
        /\ failures = 0 /\ thrown = FALSE /\ ran = {} /\ settled = {} /\ overflow = FALSE
    BY DEF Init
  <2>2. 0 \in 0..MaxMessages /\ 0 \in 0..MaxClears /\ 0 \in 0..MaxFailures /\ 0 + 0 <= 0
    BY Limits
  <2> QED BY <2>1, <2>2 DEF Bounds
<1>2. /\ queue = [q \in Queues |-> Fresh] /\ map = None /\ count = 0 /\ ran = {}
      /\ \A q \in Queues : queue[q] = Fresh
  BY DEF Init
<1>3. Young(queue, count, ran, clears) BY <1>2, FreshType, Zenon DEF Young
<1>4. Apart(queue) BY <1>2, FreshType, Zenon DEF Apart
<1>5. Alone(queue, map, clears) BY <1>2 DEF Alone
<1>6. Exact(queue, count, ran, settled, clears, overflow)
  <2>1. 1..count = {} BY <1>2
  <2> QED BY <2>1, <1>2, FreshType, Zenon DEF Exact
<1> QED BY <1>1, <1>2, <1>3, <1>4, <1>5, <1>6, FreshType DEF Inv, IInv

(* The message that is queued.                                             *)
LEMMA EnqueueInv ==
  ASSUME IInv, NEW mode \in Modes, NEW drop \in Policies, NEW to \in Routes,
         Enqueue(mode, drop, to)
  PROVE  IInv'
<1> DEFINE x == [n |-> count + 1, to |-> to]
           q == IF map = None THEN CHOOSE f \in Free : TRUE ELSE map
           o == Settle(queue[q], mode, drop)
           k == Len(o.items) - Cap + 1
           first == Nums(SubSeq(o.items, 1, k))
<1>1. /\ Bounds /\ Inv(queue, map, count, ran, settled, clears, overflow)
      /\ queue \in [Queues -> Object] /\ map \in Queues \cup {None}
  BY DEF IInv, Inv
<1>2. /\ late > 0 /\ late' = late - 1 /\ count' = count + 1 /\ map' = q
      /\ map = None => Free # {}
      /\ UNCHANGED <<arrived, turns, bounds, ran>>
  BY DEF Enqueue
<1>3. q \in Queues /\ (q = map \/ map = None) /\ queue[q] \in Object
  BY <1>1, <1>2 DEF Free
<1>4. /\ \/ /\ Len(o.items) < Cap
            /\ queue' = [queue EXCEPT ![q] = [o EXCEPT !.items = Append(@, x)]]
            /\ UNCHANGED <<settled, overflow>>
         \/ /\ Len(o.items) >= Cap /\ drop = "new"
            /\ queue' = [queue EXCEPT ![q] = o]
            /\ settled' = settled \cup {count + 1} /\ UNCHANGED overflow
         \/ /\ Len(o.items) >= Cap /\ drop # "new"
            /\ queue' = [queue EXCEPT ![q] = [o EXCEPT
                 !.items = Append(Rest(@, k), x),
                 !.sum = IF drop = "summarize" THEN @ \cup first ELSE @]]
            /\ settled' = IF drop = "summarize" THEN settled ELSE settled \cup first
            /\ overflow' = TRUE
  BY DEF Enqueue
<1> HIDE DEF q
<1>5. /\ o \in Object /\ o.items = queue[q].items /\ o.flight = queue[q].flight
      /\ o.sum = queue[q].sum /\ o.told = queue[q].told /\ o.pc = queue[q].pc
  BY <1>3 DEF Object, Settle
<1>6. x \in Msg /\ x.n = count + 1 /\ count + 1 \in Messages
  BY <1>1, <1>2, Limits DEF Bounds, Messages, Msg
<1>7. o.items \in Seq(Msg) /\ Len(o.items) \in Nat BY <1>5, ObjectFields, NumsType
<1>8. Bounds'
  <2>1. settled' \subseteq Messages
    <3>1. CASE UNCHANGED <<settled, overflow>> BY <3>1, <1>1 DEF Bounds
    <3>2. CASE settled' = settled \cup {count + 1} BY <3>2, <1>1, <1>6 DEF Bounds
    <3>3. CASE /\ Len(o.items) >= Cap
               /\ settled' = IF drop = "summarize" THEN settled ELSE settled \cup first
      <4>1. k \in Int /\ k <= Len(o.items) BY <1>7, Limits
      <4>2. \A i \in 1..k : o.items[i] \in Msg BY <4>1, <1>7, NumsType
      <4>3. SubSeq(o.items, 1, k) \in Seq(Msg) BY <4>1, <4>2, SubSeqProperties
      <4>4. first \subseteq Messages BY <4>3, NumsType
      <4> QED BY <4>4, <3>3, <1>1 DEF Bounds
    <3> QED BY <3>1, <3>2, <3>3, <1>4
  <2>2. overflow' \in BOOLEAN BY <1>1, <1>4 DEF Bounds
  <2> QED BY <2>1, <2>2, <1>1, <1>2 DEF Bounds, bounds
<1> HIDE DEF x, o
<1>9. CASE /\ Len(o.items) < Cap /\ UNCHANGED <<settled, overflow>>
           /\ queue' = [queue EXCEPT ![q] = [o EXCEPT !.items = Append(@, x)]]
  <2> DEFINE p == [o EXCEPT !.items = Append(@, x)]
  <2>1. Append(o.items, x) \in Seq(Msg) /\ Rest(o.items, 0) = o.items
    BY <1>6, <1>7, AppendNums, SubSeqFull DEF Rest
  <2>2. /\ p \in Object /\ p.items = Append(Rest(queue[q].items, 0), x) /\ p.flight = o.flight
        /\ p.sum = o.sum /\ p.told = o.told /\ p.pc = o.pc
    BY <2>1, <1>5 DEF Object, Msg
  <2> HIDE DEF p
  <2>3. Inv([queue EXCEPT ![q] = p], q, count + 1, ran, settled, clears, overflow)
    <3>1. settled \subseteq settled /\ 0 \in Nat OBVIOUS
    <3>2. /\ p.flight = queue[q].flight /\ p.told = queue[q].told
          /\ p.pc = queue[q].pc /\ p.sum = queue[q].sum
      BY <2>2, <1>5
    <3> QED BY <3>1, <3>2, <2>2, <1>1, <1>3, <1>6, PutInv
  <2> QED BY <2>3, <1>2, <1>8, <1>9 DEF IInv, bounds, p
<1>10. CASE /\ Len(o.items) >= Cap /\ queue' = [queue EXCEPT ![q] = o]
            /\ settled' = settled \cup {count + 1} /\ UNCHANGED overflow
  <2> DEFINE S == settled \cup {count + 1}
  <2>1. count \in Nat BY <1>1 DEF Bounds
  <2>2. \A n \in 1..(count + 1) : n <= count \/ n \in S BY <2>1
  <2>3. count + 1 \in Nat /\ count <= count + 1 /\ settled \subseteq S BY <2>1
  <2> HIDE DEF S
  <2>4. Inv([queue EXCEPT ![q] = Settle(queue[q], mode, drop)], q, count + 1, ran, S, clears, overflow)
    BY <2>2, <2>3, <1>1, <1>3, SettleInv
  <2> QED BY <2>4, <1>2, <1>8, <1>10 DEF IInv, bounds, o, S
<1>11. CASE /\ Len(o.items) >= Cap /\ overflow' = TRUE
            /\ queue' = [queue EXCEPT ![q] = [o EXCEPT
                 !.items = Append(Rest(@, k), x),
                 !.sum = IF drop = "summarize" THEN @ \cup first ELSE @]]
            /\ settled' = IF drop = "summarize" THEN settled ELSE settled \cup first
  <2> DEFINE p == [o EXCEPT !.items = Append(Rest(@, k), x),
                            !.sum = IF drop = "summarize" THEN @ \cup first ELSE @]
  <2>1. k \in Nat /\ k <= Len(o.items) BY <1>7, <1>11, Limits
  <2>2. Append(Rest(o.items, k), x) \in Seq(Msg) BY <2>1, <1>6, <1>7, AppendNums, RestType
  <2>3. first \subseteq Messages
    <3>1. \A i \in 1..k : o.items[i] \in Msg BY <2>1, <1>7, NumsType
    <3>2. SubSeq(o.items, 1, k) \in Seq(Msg) BY <2>1, <3>1, SubSeqProperties
    <3> QED BY <3>2, NumsType
  <2>4. settled \subseteq settled' BY <1>11
  <2> HIDE DEF k, first
  <2>5. /\ p \in Object /\ p.items = Append(Rest(queue[q].items, k), x) /\ p.flight = o.flight
        /\ p.told = o.told /\ p.pc = o.pc
    BY <2>2, <2>3, <1>5 DEF Object, Msg
  <2>6. queue' = [queue EXCEPT ![q] = p] BY <1>11
  <2> HIDE DEF p
  <2>7. Inv([queue EXCEPT ![q] = p], q, count + 1, ran, settled', clears, TRUE)
    <3>1. p.flight = queue[q].flight /\ p.told = queue[q].told /\ p.pc = queue[q].pc
      BY <2>5, <1>5
    <3> QED BY <3>1, <2>1, <2>4, <2>5, <1>1, <1>3, <1>6, PutInv
  <2> QED BY <2>6, <2>7, <1>2, <1>8, <1>11 DEF IInv, bounds
<1> QED BY <1>4, <1>9, <1>10, <1>11 DEF o, x

(* What a drain does keeps the invariant.                                  *)
LEMMA DrainInv ==
  ASSUME IInv, NEW q \in Queues, Choose(q) \/ Finish(q) \/ Fail(q)
  PROVE  IInv'
<1> DEFINE o == queue[q]
<1>1. /\ Bounds /\ Inv(queue, map, count, ran, settled, clears, overflow)
      /\ queue[q] \in Object /\ map \in Queues \cup {None} /\ count \in Nat
  BY DEF IInv, Inv, Bounds
<1>2. o.items \in Seq(Msg) /\ o.sum \in SUBSET Messages /\ Len(o.items) \in Nat
      /\ o.force \in BOOLEAN /\ DOMAIN o.items = 1..Len(o.items)
  BY <1>1, ObjectFields, NumsType, LenProperties DEF Object
<1>3. CASE Collect(q)
  <2> DEFINE told == IF o.drop = "summarize" THEN o.sum ELSE {}
  <2>1. o.pc = "wait" /\ Begin(q, "batch", o.items, told, FALSE) BY <1>3 DEF Collect
  <2>2. told \in SUBSET Messages /\ (o.sum = {} => told = {} /\ "batch" # "summary") BY <1>2
  <2> HIDE DEF told
  <2>3. Inv(queue', map', count, ran, settled, clears, overflow)
    <3>1. Len(o.items) <= Len(o.items) BY <1>2
    <3>2. \A i \in 1..Len(o.items) : o.items[i] = queue[q].items[i] OBVIOUS
    <3>3. "batch" # "one" /\ "batch" # "summary" /\ FALSE \in BOOLEAN OBVIOUS
    <3> QED BY <3>1, <3>2, <3>3, <2>1, <2>2, <1>1, <1>2, BeginInv
  <2>4. UNCHANGED <<arrivals, bounds, history>> BY <2>1 DEF Begin
  <2> QED BY <2>3, <2>4, <1>1 DEF IInv, Bounds, arrivals, bounds, history
<1>4. CASE RunOne(q)
  <2>1. PICK force \in BOOLEAN :
          o.pc = "wait" /\ o.items # <<>> /\ Begin(q, "one", <<o.items[1]>>, {}, force)
    <3>1. \A x : (o.force \/ x) \in BOOLEAN OBVIOUS
    <3> QED BY <3>1, <1>4, Zenon DEF RunOne
  <2>2. Len(o.items) > 0 BY <2>1, <1>2, EmptySeq
  <2>3. o.items[1] \in Msg BY <2>2, <1>2, NumsType
  <2>4. /\ <<o.items[1]>> \in Seq(Msg) /\ Len(<<o.items[1]>>) = 1
        /\ \A i \in 1..1 : <<o.items[1]>>[i] = o.items[i]
    BY <2>3
  <2>5. Inv(queue', map', count, ran, settled, clears, overflow)
    <3>1. Len(<<o.items[1]>>) <= Len(o.items) BY <2>2, <2>4, <1>2
    <3>2. \A i \in 1..Len(<<o.items[1]>>) : <<o.items[1]>>[i] = o.items[i] BY <2>4
    <3>3. {} \in SUBSET Messages /\ "one" # "summary" OBVIOUS
    <3> QED BY <3>1, <3>2, <3>3, <2>1, <2>4, <1>1, BeginInv
  <2>6. UNCHANGED <<arrivals, bounds, history>> BY <2>1 DEF Begin
  <2> QED BY <2>5, <2>6, <1>1 DEF IInv, Bounds, arrivals, bounds, history
<1>5. CASE Summarize(q)
  <2>1. o.pc = "wait" /\ o.sum # {} /\ Begin(q, "summary", <<>>, o.sum, o.force)
    BY <1>5 DEF Summarize
  <2>2. Inv(queue', map', count, ran, settled, clears, overflow)
    <3>1. Len(<<>>) <= Len(o.items) /\ <<>> \in Seq(Msg) BY <1>2, NumsEmpty
    <3>2. \A i \in 1..Len(<<>>) : <<>>[i] = o.items[i] BY NumsEmpty
    <3> QED BY <3>1, <3>2, <2>1, <1>1, <1>2, BeginInv
  <2>3. UNCHANGED <<arrivals, bounds, history>> BY <2>1 DEF Begin
  <2> QED BY <2>2, <2>3, <1>1 DEF IInv, Bounds, arrivals, bounds, history
<1>6. CASE Break(q)
  <2>1. queue[q].pc # "idle" /\ Finally(q, queue) BY <1>6 DEF Break
  <2>2. Inv(queue', map', count, ran, settled, clears, overflow) BY <2>1, <1>1, FinallyInv
  <2>3. UNCHANGED <<arrivals, bounds, history>> BY <1>6 DEF Break
  <2> QED BY <2>2, <2>3, <1>1 DEF IInv, Bounds, arrivals, bounds, history
<1>7. CASE Finish(q)
  <2>1. Inv(queue', map', count, ran', settled', clears, overflow) BY <1>1, <1>7, FinishInv
  <2>2. UNCHANGED <<arrivals, bounds, overflow>> /\ ran' = ran \cup Nums(o.flight)
        /\ settled' = settled \cup o.told
    BY <1>7 DEF Finish
  <2>3. Nums(o.flight) \subseteq Messages /\ o.told \subseteq Messages
    BY <1>1, ObjectFields, NumsType
  <2> QED BY <2>1, <2>2, <2>3, <1>1 DEF IInv, Bounds, arrivals, bounds
<1>8. CASE Fail(q)
  <2>1. queue[q].pc # "idle" /\ Finally(q, queue) BY <1>8 DEF Fail
  <2>2. Inv(queue', map', count, ran, settled, clears, overflow) BY <2>1, <1>1, FinallyInv
  <2>3. UNCHANGED <<arrivals, clears, thrown, history>>
        /\ failures < MaxFailures /\ failures' = failures + 1
    BY <1>8 DEF Fail
  <2>4. failures' \in 0..MaxFailures BY <2>3, <1>1, Limits DEF Bounds
  <2> QED BY <2>2, <2>3, <2>4, <1>1 DEF IInv, Bounds, arrivals, history
<1> QED BY <1>3, <1>4, <1>5, <1>6, <1>7, <1>8 DEF Choose

(* An abort empties the queue that is in the map.                          *)
LEMMA ClearInv ==
  ASSUME IInv, Clear
  PROVE  IInv'
<1> DEFINE o == [queue[map] EXCEPT !.items = <<>>, !.sum = {}]
           Q == [queue EXCEPT ![map] = o]
           S == settled \cup Nums(queue[map].items) \cup queue[map].sum
<1>1. /\ Bounds /\ Inv(queue, map, count, ran, settled, clears, overflow)
      /\ queue \in [Queues -> Object] /\ map \in Queues /\ queue[map] \in Object /\ count \in Nat
  BY DEF IInv, Inv, Bounds, Clear
<1>2. /\ clears < MaxClears /\ clears' = clears + 1 /\ settled' = S
      /\ Keep([queue EXCEPT ![map].items = <<>>, ![map].sum = {}], None)
      /\ UNCHANGED <<arrivals, failures, thrown, ran, overflow>>
  BY DEF Clear
<1>3. S \subseteq Messages BY <1>1, ObjectFields, NumsType DEF Bounds
<1>4. clears' \in 0..MaxClears /\ clears' # 0 BY <1>1, <1>2, Limits DEF Bounds
<1>5. Bounds' BY <1>1, <1>2, <1>3, <1>4 DEF Bounds, arrivals
<1>6. Q = [queue EXCEPT ![map].items = <<>>, ![map].sum = {}] BY <1>1 DEF Object
<1>7. /\ o \in Object /\ o.items = <<>> /\ o.flight = queue[map].flight
      /\ o.pc = queue[map].pc /\ o.told = queue[map].told
  BY <1>1, NumsEmpty DEF Object, Msg
<1>8. Q \in [Queues -> Object] /\ Q[map] = o /\ \A p \in Queues : p # map => Q[p] = queue[p]
  BY <1>1, <1>7
<1> HIDE DEF o, Q, S
<1>9. Nums(o.items) = {} /\ 1..Len(o.items) = {}
  <2>1. 1..0 = {} OBVIOUS
  <2> QED BY <2>1, <1>7, NumsEmpty
<1>10. Tame(o)
  <2>1. Tame(queue[map]) BY <1>1 DEF Inv, Young
  <2> QED BY <2>1, <1>7, <1>9 DEF Tame
<1>11. \A p \in Queues : /\ Nums(Q[p].items) \subseteq Nums(queue[p].items)
                         /\ Q[p].flight = queue[p].flight /\ Tame(Q[p])
  <2>1. \A p \in Queues : Tame(queue[p]) BY <1>1 DEF Inv, Young
  <2> QED BY <2>1, <1>7, <1>8, <1>9, <1>10, Zenon
<1>12. Young(Q, count, ran, clears')
  <2>1. \A p \in Queues : \A n \in Nums(queue[p].items), r \in ran : n # r
    BY <1>1 DEF Young, Inv
  <2>2. \A p \in Queues : \A n \in Nums(queue[p].items) \cup Nums(queue[p].flight) : n <= count
    BY <1>1 DEF Young, Inv
  <2> QED BY <2>1, <2>2, <1>4, <1>11 DEF Young
<1>13. Apart(Q)
  <2>1. Apart(queue) BY <1>1 DEF Inv
  <2> QED BY <2>1, <1>11, Zenon DEF Apart
<1>14. Alone(Q, map, clears') /\ Exact(Q, count, ran, settled', clears', overflow)
  BY <1>4 DEF Alone, Exact
<1>15. Inv(Q, map, count, ran, settled', clears', overflow)
  <2>1. \A r \in ran : r <= count BY <1>1 DEF Inv
  <2> QED BY <2>1, <1>1, <1>8, <1>12, <1>13, <1>14 DEF Inv
<1>16. map' = None /\ Inv(queue', None, count, ran, settled', clears', overflow)
  <2>1. Keep(Q, None) BY <1>2, <1>6
  <2> QED BY <2>1, <1>1, <1>4, <1>15, KeepInv
<1> QED BY <1>2, <1>5, <1>16 DEF IInv, arrivals

LEMMA StepIInv == IInv /\ [Next]_vars => IInv'
<1> SUFFICES ASSUME IInv, [Next]_vars PROVE IInv' OBVIOUS
<1>1. /\ Bounds /\ Inv(queue, map, count, ran, settled, clears, overflow)
      /\ map \in Queues \cup {None} /\ count \in Nat
  BY DEF IInv, Inv, Bounds
<1>2. CASE Arrive
  <2>1. UNCHANGED <<queue, map, count, bounds, history>> BY <1>2 DEF Arrive
  <2>2. /\ arrived < MaxMessages /\ arrived' = arrived + 1
        /\ \/ late' = late + 1 /\ UNCHANGED turns
           \/ turns' = turns + 1 /\ UNCHANGED late
    BY <1>2 DEF Arrive
  <2>3. /\ arrived' \in 0..MaxMessages /\ late' \in Nat /\ turns' \in Nat
        /\ count + late' <= arrived'
    BY <2>2, <1>1, Limits DEF Bounds
  <2> QED BY <2>1, <2>3, <1>1 DEF IInv, Bounds, bounds, history
<1>3. CASE TurnEnd
  <2>1. /\ turns > 0 /\ turns' = turns - 1 /\ Schedule(queue)
        /\ UNCHANGED <<arrived, late, count, bounds, history>>
    BY <1>3 DEF TurnEnd
  <2>2. Inv(queue', map', count, ran, settled, clears, overflow) BY <2>1, <1>1, ScheduleInv
  <2>3. turns' \in Nat BY <2>1, <1>1 DEF Bounds
  <2> QED BY <2>1, <2>2, <2>3, <1>1 DEF IInv, Bounds, bounds, history
<1>4. CASE TurnThrows
  <2>1. /\ turns > 0 /\ turns' = turns - 1 /\ failures < MaxFailures
        /\ failures' = failures + 1 /\ thrown' = TRUE
        /\ UNCHANGED <<queue, map, arrived, late, count, clears, history>>
    BY <1>4 DEF TurnThrows
  <2>2. turns' \in Nat /\ failures' \in 0..MaxFailures BY <2>1, <1>1, Limits DEF Bounds
  <2> QED BY <2>1, <2>2, <1>1 DEF IInv, Bounds, history
<1>5. CASE Clear BY <1>5, ClearInv
<1>6. ASSUME NEW mode \in Modes, NEW drop \in Policies, NEW to \in Routes, Enqueue(mode, drop, to)
      PROVE  IInv'
  BY <1>6, EnqueueInv
<1>7. ASSUME NEW mode \in Modes, NEW drop \in Policies, Duplicate(mode, drop)
      PROVE  IInv'
  <2>1. /\ late > 0 /\ late' = late - 1 /\ map # None
        /\ queue' = [queue EXCEPT ![map] = Settle(@, mode, drop)]
        /\ UNCHANGED <<map, arrived, turns, count, bounds, history>>
    BY <1>7 DEF Duplicate
  <2>2. Inv([queue EXCEPT ![map] = Settle(queue[map], mode, drop)], map, count, ran, settled, clears, overflow)
    <3>1. \A n \in 1..count : n <= count \/ n \in settled BY <1>1
    <3>2. count <= count /\ settled \subseteq settled BY <1>1
    <3>3. map \in Queues BY <2>1, <1>1
    <3> QED BY <3>1, <3>2, <3>3, <1>1, SettleInv
  <2>3. late' \in Nat /\ count + late' <= arrived BY <2>1, <1>1 DEF Bounds
  <2> QED BY <2>1, <2>2, <2>3, <1>1 DEF IInv, Bounds, bounds, history
<1>8. ASSUME NEW q \in Queues, Choose(q) \/ Finish(q) \/ Fail(q) PROVE IInv'
  BY <1>8, DrainInv
<1>9. CASE UNCHANGED vars
  BY <1>1, <1>9 DEF IInv, Bounds, vars, arrivals, bounds, history
<1> QED BY <1>2, <1>3, <1>4, <1>5, <1>6, <1>7, <1>8, <1>9 DEF Next

LEMMA Invariance == Spec => []IInv
BY InitIInv, StepIInv, PTL DEF Spec

(* The variables keep their types.                                         *)
THEOREM TypeCorrect == Spec => []TypeOK
<1>1. IInv => TypeOK BY DEF IInv, Inv, Bounds, TypeOK
<1> QED BY <1>1, Invariance, PTL

(* A message vanishes only after the cap was hit or the queue was cleared, *)
(* however arrivals, turns, runs, failures and settings interleave: what   *)
(* drain.ts removes by position is what it has run.                        *)
THEOREM NothingLost == Spec => []LossNeedsOverflow
<1>1. IInv => LossNeedsOverflow
  <2> SUFFICES ASSUME IInv, clears = 0, overflow = FALSE, NEW n \in Vanished PROVE FALSE
    <3>1. IInv => clears \in Nat /\ overflow \in BOOLEAN BY DEF IInv, Bounds
    <3>2. clears \in Nat => clears = 0 \/ clears > 0 OBVIOUS
    <3> QED BY <3>1, <3>2 DEF LossNeedsOverflow
  <2>1. n \in 1..count /\ n \notin ran /\ n \notin settled
        /\ \A q \in Queues : n \notin Nums(queue[q].items)
    BY DEF Vanished, Held
  <2> QED BY <2>1 DEF IInv, Inv, Exact
<1> QED BY <1>1, Invariance, PTL

-----------------------------------------------------------------------------
(* The order.                                                              *)

(* What a step makes a drain run was at its queue, or ran already.         *)
Runs(Q, p) == queue'[p].flight \in {Q[p].flight, <<>>}

LEMMA KeepRuns ==
  ASSUME NEW Q, NEW m, Keep(Q, m), NEW p \in Queues PROVE Runs(Q, p)
BY DEF Keep, Fresh, Runs

LEMMA ScheduleRuns ==
  ASSUME NEW Q \in [Queues -> Object], map \in Queues \cup {None}, Schedule(Q), NEW p \in Queues
  PROVE  Runs(Q, p)
<1>1. CASE Keep(Q, map) \/ Keep(Q, None) BY <1>1, KeepRuns
<1>2. CASE /\ map # None
           /\ Keep([Q EXCEPT ![map].pc = "wait", ![map].force = FALSE], map)
  <2> DEFINE P == [Q EXCEPT ![map].pc = "wait", ![map].force = FALSE]
  <2>1. map \in Queues /\ Q[map] \in Object BY <1>2
  <2>2. P[p].flight = Q[p].flight BY <2>1 DEF Object
  <2> HIDE DEF P
  <2>3. Runs(P, p) BY <1>2, KeepRuns DEF P
  <2> QED BY <2>2, <2>3 DEF Runs
<1> QED BY <1>1, <1>2 DEF Schedule

LEMMA FinallyRuns ==
  ASSUME NEW Q \in [Queues -> Object], map \in Queues \cup {None}, NEW q \in Queues,
         Finally(q, Q), NEW p \in Queues
  PROVE  Runs(Q, p)
<1> DEFINE R == [Q EXCEPT ![q].pc = "idle", ![q].flight = <<>>, ![q].told = {}]
<1>1. R \in [Queues -> Object] /\ R[p].flight \in {Q[p].flight, <<>>}
  <2>1. Q[q] \in Object /\ <<>> \in Seq([n : Messages, to : Routes]) BY NumsEmpty DEF Msg
  <2>2. [Q[q] EXCEPT !.pc = "idle", !.flight = <<>>, !.told = {}] \in Object
    BY <2>1 DEF Object
  <2> QED BY <2>1, <2>2 DEF Object
<1>2. Keep(R, None) \/ Schedule(R) BY DEF Finally
<1> HIDE DEF R
<1>3. Runs(R, p) BY <1>1, <1>2, KeepRuns, ScheduleRuns
<1> QED BY <1>1, <1>3 DEF Runs

LEMMA OrderKept ==
  ASSUME IInv, [Next]_vars, NEW q \in Queues, queue'[q].flight # queue[q].flight
  PROVE  Nums(queue'[q].flight) \subseteq Nums(queue[q].items)
<1>1. queue \in [Queues -> Object] /\ map \in Queues \cup {None} BY DEF IInv, Inv
<1>2. /\ queue[q].items \in Seq(Msg) /\ queue[q] \in Object
      /\ \A p \in Queues : queue[p] \in Object
  BY <1>1, ObjectFields
<1>3. ASSUME Runs(queue, q) PROVE Nums(queue'[q].flight) \subseteq Nums(queue[q].items)
  BY <1>3, NumsEmpty DEF Runs
<1>4. CASE UNCHANGED queue BY <1>4
<1>5. CASE TurnEnd
  <2>1. Schedule(queue) BY <1>5 DEF TurnEnd
  <2> QED BY <2>1, <1>1, <1>3, ScheduleRuns
<1>6. CASE Clear
  <2> DEFINE Q == [queue EXCEPT ![map].items = <<>>, ![map].sum = {}]
  <2>1. Keep(Q, None) /\ map \in Queues BY <1>1, <1>6 DEF Clear
  <2>2. Q[q].flight = queue[q].flight BY <2>1, <1>1, <1>2 DEF Object
  <2> HIDE DEF Q
  <2>3. Runs(Q, q) BY <2>1, KeepRuns
  <2> QED BY <2>2, <2>3, <1>3 DEF Runs
<1>7. ASSUME NEW mode \in Modes, NEW drop \in Policies, NEW to \in Routes, Enqueue(mode, drop, to)
      PROVE  queue'[q].flight = queue[q].flight
  <2> DEFINE a == IF map = None THEN CHOOSE f \in Free : TRUE ELSE map
             o == Settle(queue[a], mode, drop)
             k == Len(o.items) - Cap + 1
  <2>1. a \in Queues BY <1>1, <1>7 DEF Enqueue, Free
  <2>2. PICK b : queue' = [queue EXCEPT ![a] = b] /\ b.flight = o.flight
    <3> DEFINE x == [n |-> count + 1, to |-> to]
               b == [o EXCEPT !.items = Append(@, x)]
               c(s) == [o EXCEPT !.items = Append(Rest(@, k), x), !.sum = s]
    <3>1. b.flight = o.flight /\ \A s : c(s).flight = o.flight
      BY <2>1, <1>2 DEF Object, Settle
    <3>2. \/ queue' = [queue EXCEPT ![a] = b]
          \/ queue' = [queue EXCEPT ![a] = o]
          \/ \E s : queue' = [queue EXCEPT ![a] = c(s)]
      BY <1>7, Zenon DEF Enqueue
    <3> HIDE DEF o, b, c, a
    <3> QED BY <3>1, <3>2, Zenon
  <2>3. o.flight = queue[a].flight BY <2>1, <1>2 DEF Object, Settle
  <2> HIDE DEF o, a
  <2> QED BY <2>1, <2>2, <2>3, <1>1
<1>8. ASSUME NEW mode \in Modes, NEW drop \in Policies, Duplicate(mode, drop)
      PROVE  queue'[q].flight = queue[q].flight
  BY <1>1, <1>2, <1>8 DEF Duplicate, Settle, Object
<1>9. ASSUME NEW p \in Queues, NEW pc, NEW flight, NEW told, NEW force,
             Begin(p, pc, flight, told, force), Nums(flight) \subseteq Nums(queue[p].items)
      PROVE  Nums(queue'[q].flight) \subseteq Nums(queue[q].items)
  <2>1. CASE q = p
    <3>1. queue'[q].flight = flight BY <2>1, <1>1, <1>2, <1>9 DEF Begin, Object
    <3> QED BY <3>1, <2>1, <1>9
  <2>2. CASE q # p BY <2>2, <1>1, <1>9 DEF Begin
  <2> QED BY <2>1, <2>2
<1>10. ASSUME NEW p \in Queues, Collect(p)
       PROVE  Nums(queue'[q].flight) \subseteq Nums(queue[q].items)
  <2>1. PICK told : Begin(p, "batch", queue[p].items, told, FALSE) BY <1>10, Zenon DEF Collect
  <2> QED BY <2>1, <1>9
<1>11. ASSUME NEW p \in Queues, RunOne(p)
       PROVE  Nums(queue'[q].flight) \subseteq Nums(queue[q].items)
  <2>1. PICK force : Begin(p, "one", <<queue[p].items[1]>>, {}, force) /\ queue[p].items # <<>>
    BY <1>11, Zenon DEF RunOne
  <2>2. queue[p].items \in Seq(Msg) BY <1>2, ObjectFields
  <2>3. 1 \in 1..Len(queue[p].items)
    <3>1. Len(queue[p].items) \in Nat \ {0} BY <2>1, <2>2, EmptySeq
    <3> QED BY <3>1
  <2>4. queue[p].items[1] \in Msg /\ queue[p].items[1].n \in Nums(queue[p].items)
    BY <2>2, <2>3, NumsType
  <2>5. <<queue[p].items[1]>> \in Seq(Msg) /\ Len(<<queue[p].items[1]>>) = 1
        /\ <<queue[p].items[1]>>[1] = queue[p].items[1]
    BY <2>4
  <2>6. \A n \in Nums(<<queue[p].items[1]>>) : n = queue[p].items[1].n
    <3> SUFFICES ASSUME NEW n \in Nums(<<queue[p].items[1]>>) PROVE n = queue[p].items[1].n
      OBVIOUS
    <3>1. PICK i \in 1..Len(<<queue[p].items[1]>>) : n = <<queue[p].items[1]>>[i].n
      BY <2>5, NumsType
    <3>2. i = 1 BY <2>5
    <3> QED BY <3>1, <3>2, <2>5
  <2> QED BY <2>1, <2>4, <2>6, <1>9
<1>12. ASSUME NEW p \in Queues, Summarize(p)
       PROVE  Nums(queue'[q].flight) \subseteq Nums(queue[q].items)
  <2>1. Begin(p, "summary", <<>>, queue[p].sum, queue[p].force) BY <1>12 DEF Summarize
  <2>2. Nums(<<>>) \subseteq Nums(queue[p].items) BY NumsEmpty
  <2> QED BY <2>1, <2>2, <1>9
<1>13. ASSUME NEW p \in Queues, Break(p) \/ Fail(p)
       PROVE  Nums(queue'[q].flight) \subseteq Nums(queue[q].items)
  <2>1. Finally(p, queue) BY <1>13 DEF Break, Fail
  <2> QED BY <2>1, <1>1, <1>3, FinallyRuns
<1>14. ASSUME NEW p \in Queues, Finish(p)
       PROVE  Nums(queue'[q].flight) \subseteq Nums(queue[q].items)
  <2> DEFINE k == IF queue[p].pc = "batch" THEN Len(queue[p].flight) ELSE 1
             o == [queue[p] EXCEPT !.items = Rest(@, k), !.flight = <<>>, !.told = {}, !.pc = "wait",
                                   !.sum = IF queue[p].told # {} THEN {} ELSE @]
             Q == [queue EXCEPT ![p] = o]
  <2>1. Finally(p, Q) \/ Keep(Q, map) BY <1>14, Zenon DEF Finish
  <2>2. k \in Nat
    <3>1. queue[p].flight \in Seq(Msg) BY <1>2, ObjectFields
    <3>2. Len(queue[p].flight) \in Nat BY <3>1, NumsType
    <3> QED BY <3>2
  <2> HIDE DEF k
  <2>3. Rest(queue[p].items, k) \in Seq(Msg) BY <2>2, <1>2, ObjectFields, RestType
  <2>4. o \in Object /\ o.flight = <<>> BY <2>3, <1>2, NumsEmpty DEF Object, Msg
  <2> HIDE DEF o
  <2>5. Q \in [Queues -> Object] /\ Q[q].flight \in {queue[q].flight, <<>>} BY <2>4, <1>1
  <2> HIDE DEF Q
  <2>6. Runs(Q, q) BY <2>1, <2>5, <1>1, FinallyRuns, KeepRuns
  <2> QED BY <2>5, <2>6, <1>3 DEF Runs
<1>15. CASE Arrive \/ TurnThrows BY <1>15, <1>4 DEF Arrive, TurnThrows
<1>16. CASE UNCHANGED vars BY <1>16, <1>4 DEF vars
<1> QED BY <1>5, <1>6, <1>7, <1>8, <1>10, <1>11, <1>12, <1>13, <1>14, <1>15, <1>16 DEF Next, Choose

(* No message is run a second time once its run came to an end, whatever   *)
(* is cleared, dropped or thrown; without an abort none overtakes another. *)
THEOREM RunInOrder == Spec => InOrder
<1>1. IInv /\ [Next]_vars =>
        [\A q \in Queues : queue'[q].flight # queue[q].flight =>
          \A n \in Nums(queue'[q].flight), r \in ran : n # r /\ (clears = 0 => n > r)]_vars
  <2> SUFFICES ASSUME IInv, [Next]_vars, NEW q \in Queues, queue'[q].flight # queue[q].flight,
                      NEW n \in Nums(queue'[q].flight), NEW r \in ran
               PROVE  n # r /\ (clears = 0 => n > r)
    OBVIOUS
  <2>1. n \in Nums(queue[q].items) BY OrderKept
  <2> QED BY <2>1 DEF IInv, Inv, Young
<1> QED BY <1>1, Invariance, PTL DEF InOrder, Spec

-----------------------------------------------------------------------------
(* The refinement of FifoQueue.                                            *)
LineOf(Q, m) == IF m = None THEN <<>> ELSE Numbered(Q[m].items)

LEMMA NumberedType ==
  ASSUME NEW s \in Seq(Msg)
  PROVE  /\ Numbered(s) \in Seq(Nat) /\ Len(Numbered(s)) = Len(s)
         /\ \A i \in 1..Len(s) : Numbered(s)[i] = s[i].n
<1>1. Len(s) \in Nat /\ DOMAIN s = 1..Len(s) BY LenProperties
<1>2. \A i \in 1..Len(s) : s[i].n \in Nat BY NumsType
<1>3. Numbered(s) = [i \in 1..Len(s) |-> s[i].n] BY <1>1 DEF Numbered
<1>4. [i \in 1..Len(s) |-> s[i].n] \in [1..Len(s) -> Nat] BY <1>2
<1>5. Numbered(s) \in Seq(Nat) BY <1>1, <1>3, <1>4
<1>6. Len(Numbered(s)) = Len(s)
  <2>1. DOMAIN Numbered(s) = 1..Len(s) BY <1>3
  <2>2. DOMAIN Numbered(s) = 1..Len(Numbered(s)) /\ Len(Numbered(s)) \in Nat
    BY <1>5, LenProperties
  <2> QED BY <2>1, <2>2, <1>1
<1> QED BY <1>3, <1>5, <1>6

LEMMA NumberedEmpty == Numbered(<<>>) = <<>>
<1>1. <<>> \in Seq(Msg) /\ Len(<<>>) = 0 BY EmptySeq
<1>2. Numbered(<<>>) \in Seq(Nat) /\ Len(Numbered(<<>>)) = 0 BY <1>1, NumberedType
<1> QED BY <1>2, EmptySeq

LEMMA NumberedAppend ==
  ASSUME NEW s \in Seq(Msg), NEW x \in Msg
  PROVE  Numbered(Append(s, x)) = Append(Numbered(s), x.n)
<1> DEFINE a == Numbered(Append(s, x))
           b == Append(Numbered(s), x.n)
<1>1. /\ Append(s, x) \in Seq(Msg) /\ Len(Append(s, x)) = Len(s) + 1
      /\ \A i \in 1..Len(s) : Append(s, x)[i] = s[i]
      /\ Append(s, x)[Len(s) + 1] = x
  BY AppendProperties
<1>2. /\ Numbered(s) \in Seq(Nat) /\ Len(Numbered(s)) = Len(s) /\ Len(s) \in Nat
      /\ \A i \in 1..Len(s) : Numbered(s)[i] = s[i].n
  BY NumberedType, LenProperties
<1>3. x.n \in Nat BY DEF Msg, Messages
<1>4. /\ b \in Seq(Nat) /\ Len(b) = Len(s) + 1
      /\ \A i \in 1..Len(s) : b[i] = s[i].n
      /\ b[Len(s) + 1] = x.n
  BY <1>2, <1>3, AppendProperties
<1>5. /\ a \in Seq(Nat) /\ Len(a) = Len(s) + 1
      /\ \A i \in 1..(Len(s) + 1) : a[i] = Append(s, x)[i].n
  BY <1>1, NumberedType
<1>6. \A i \in 1..Len(a) : a[i] = b[i]
  <2> SUFFICES ASSUME NEW i \in 1..(Len(s) + 1) PROVE a[i] = b[i] BY <1>5
  <2>1. CASE i = Len(s) + 1 BY <2>1, <1>1, <1>4, <1>5
  <2>2. CASE i # Len(s) + 1
    <3>1. i \in 1..Len(s) BY <2>2, <1>2
    <3> QED BY <3>1, <1>1, <1>4, <1>5
  <2> QED BY <2>1, <2>2
<1> HIDE DEF a, b
<1>7. a = b BY <1>4, <1>5, <1>6, SeqEqual
<1> QED BY <1>7 DEF a, b

LEMMA NumberedRest ==
  ASSUME NEW s \in Seq(Msg), NEW k \in Nat, k <= Len(s)
  PROVE  Numbered(Rest(s, k)) = SubSeq(Numbered(s), k + 1, Len(Numbered(s)))
<1> DEFINE a == Numbered(Rest(s, k))
           b == SubSeq(Numbered(s), k + 1, Len(Numbered(s)))
<1>1. /\ Numbered(s) \in Seq(Nat) /\ Len(Numbered(s)) = Len(s) /\ Len(s) \in Nat
      /\ \A i \in 1..Len(s) : Numbered(s)[i] = s[i].n /\ s[i].n \in Nat
  BY NumberedType, NumsType
<1>2. /\ Rest(s, k) \in Seq(Msg) /\ Len(Rest(s, k)) = Len(s) - k
      /\ \A i \in 1..(Len(s) - k) : i + k \in 1..Len(s) /\ Rest(s, k)[i] = s[i + k]
  BY RestType
<1>3. /\ a \in Seq(Nat) /\ Len(a) = Len(s) - k
      /\ \A i \in 1..(Len(s) - k) : a[i] = s[i + k].n
  BY <1>2, NumberedType
<1>4. \A i \in (k + 1)..Len(s) : Numbered(s)[i] \in Nat BY <1>1
<1>5. /\ b \in Seq(Nat) /\ Len(b) = IF k + 1 <= Len(s) THEN Len(s) - (k + 1) + 1 ELSE 0
      /\ \A i \in 1..(Len(s) - (k + 1) + 1) : b[i] = Numbered(s)[(k + 1) + i - 1]
  BY <1>1, <1>4, SubSeqProperties
<1>6. Len(a) = Len(b) BY <1>1, <1>3, <1>5
<1>7. \A i \in 1..Len(a) : a[i] = b[i]
  <2> SUFFICES ASSUME NEW i \in 1..(Len(s) - k) PROVE a[i] = b[i] BY <1>3
  <2>1. i \in 1..(Len(s) - (k + 1) + 1) /\ (k + 1) + i - 1 = i + k BY <1>1
  <2>2. b[i] = Numbered(s)[i + k] BY <2>1, <1>5
  <2>3. i + k \in 1..Len(s) BY <1>2
  <2> QED BY <2>2, <2>3, <1>1, <1>3
<1> HIDE DEF a, b
<1>8. a = b BY <1>3, <1>5, <1>6, <1>7, SeqEqual
<1> QED BY <1>8 DEF a, b

LEMMA EmptyLine ==
  ASSUME NEW Q, NEW m, m = None \/ Q[m].items = <<>>
  PROVE  LineOf(Q, m) = <<>>
BY NumberedEmpty DEF LineOf

LEMMA SameLine ==
  ASSUME NEW Q, NEW P, NEW m, m # None => P[m].items = Q[m].items
  PROVE  LineOf(P, m) = LineOf(Q, m)
BY DEF LineOf

LEMMA KeepLine ==
  ASSUME NEW Q, NEW m \in Queues \cup {None}, Keep(Q, m)
  PROVE  LineOf(queue', map') = LineOf(Q, m)
<1>1. map' = m /\ (m # None => queue'[m] = Q[m]) BY DEF Keep
<1> QED BY <1>1, SameLine

LEMMA ScheduleLine ==
  ASSUME NEW Q \in [Queues -> Object], map \in Queues \cup {None}, Schedule(Q)
  PROVE  LineOf(queue', map') = LineOf(Q, map)
<1>1. CASE Keep(Q, map) BY <1>1, KeepLine
<1>2. CASE map # None /\ Empty(Q[map]) /\ Keep(Q, None)
  <2>1. LineOf(queue', map') = LineOf(Q, None) BY <1>2, KeepLine
  <2>2. LineOf(Q, None) = <<>> /\ LineOf(Q, map) = <<>> BY <1>2, EmptyLine DEF Empty
  <2> QED BY <2>1, <2>2
<1>3. CASE map # None /\ Keep([Q EXCEPT ![map].pc = "wait", ![map].force = FALSE], map)
  <2> DEFINE P == [Q EXCEPT ![map].pc = "wait", ![map].force = FALSE]
  <2>1. map \in Queues /\ Q[map] \in Object BY <1>3
  <2>2. P[map].items = Q[map].items BY <2>1 DEF Object
  <2>3. Keep(P, map) BY <1>3
  <2> HIDE DEF P
  <2>4. LineOf(queue', map') = LineOf(P, map) BY <2>3, KeepLine
  <2> QED BY <2>2, <2>4, SameLine
<1> QED BY <1>1, <1>2, <1>3 DEF Schedule

LEMMA FinallyLine ==
  ASSUME NEW Q \in [Queues -> Object], map \in Queues, Finally(map, Q)
  PROVE  LineOf(queue', map') = LineOf(Q, map)
<1> DEFINE P == [Q EXCEPT ![map].pc = "idle", ![map].flight = <<>>, ![map].told = {}]
<1>1. Q[map] \in Object /\ <<>> \in Seq(Msg) BY NumsEmpty
<1>2. P \in [Queues -> Object] /\ P[map].items = Q[map].items BY <1>1 DEF Object, Msg
<1>3. IF Empty(P[map]) THEN Keep(P, None) ELSE Schedule(P) BY DEF Finally
<1> HIDE DEF P
<1>4. CASE Empty(P[map])
  <2>1. LineOf(queue', map') = LineOf(P, None) BY <1>3, <1>4, KeepLine
  <2>2. LineOf(P, None) = <<>> /\ LineOf(Q, map) = <<>> BY <1>2, <1>4, EmptyLine DEF Empty
  <2> QED BY <2>1, <2>2
<1>5. CASE ~Empty(P[map])
  <2>1. LineOf(queue', map') = LineOf(P, map) BY <1>2, <1>3, <1>5, ScheduleLine
  <2> QED BY <2>1, <1>2, SameLine
<1> QED BY <1>4, <1>5

LEMMA LineIs == Line = LineOf(queue, map) /\ Line' = LineOf(queue', map')
BY DEF Line, LineOf

LEMMA EnqueueFifo ==
  ASSUME IInv, clears = 0, overflow = FALSE, overflow' = FALSE,
         NEW mode \in Modes, NEW drop \in Policies, NEW to \in Routes, Enqueue(mode, drop, to)
  PROVE  Fifo!Join \/ Fifo!Refuse
<1> DEFINE x == [n |-> count + 1, to |-> to]
           q == IF map = None THEN CHOOSE f \in Free : TRUE ELSE map
           o == Settle(queue[q], mode, drop)
<1>1. /\ Bounds /\ Inv(queue, map, count, ran, settled, clears, overflow)
      /\ queue \in [Queues -> Object] /\ map \in Queues \cup {None}
  BY DEF IInv, Inv
<1>2. /\ count' = count + 1 /\ map' = q /\ ran' = ran /\ (map = None => Free # {})
      /\ late > 0
  BY DEF Enqueue
<1>3. q \in Queues /\ (q = map \/ map = None) /\ queue[q] \in Object
  BY <1>1, <1>2 DEF Free
<1>4. \/ /\ queue' = [queue EXCEPT ![q] = [o EXCEPT !.items = Append(@, x)]]
         /\ settled' = settled
      \/ /\ Len(o.items) >= Cap /\ queue' = [queue EXCEPT ![q] = o]
         /\ settled' = settled \cup {count + 1}
  BY DEF Enqueue
<1> HIDE DEF q
<1>5. q # None BY <1>3 DEF Queues, None
<1>6. o \in Object /\ o.items = queue[q].items BY <1>3 DEF Object, Settle
<1>7. o.items \in Seq(Msg) BY <1>6, ObjectFields
<1> HIDE DEF o
<1>8. Line = Numbered(o.items)
  <2>1. CASE q = map BY <2>1, <1>5, <1>6 DEF Line
  <2>2. CASE map = None
    <3>1. queue[q] = Fresh BY <2>2, <1>1, <1>3, <1>5 DEF Inv, Alone
    <3>2. o.items = <<>> BY <3>1, <1>6 DEF Fresh
    <3> QED BY <2>2, <3>2, NumberedEmpty DEF Line
  <2> QED BY <2>1, <2>2, <1>3
<1>9. CASE queue' = [queue EXCEPT ![q] = [o EXCEPT !.items = Append(@, x)]] /\ settled' = settled
  <2>1. count + 1 \in Messages BY <1>1, <1>2, Limits DEF Bounds, Messages
  <2>2. x \in Msg /\ x.n = count + 1 BY <2>1 DEF Msg
  <2> HIDE DEF x
  <2>3. queue'[q].items = Append(o.items, x) BY <1>3, <1>6, <1>9, <1>1 DEF Object
  <2>4. Line' = Numbered(Append(o.items, x)) BY <1>2, <1>5, <2>3 DEF Line
  <2>5. Line' = Append(Line, count') BY <1>2, <1>7, <1>8, <2>2, <2>4, NumberedAppend
  <2> QED BY <2>5, <1>2, <1>9 DEF Fifo!Join
<1>10. CASE /\ Len(o.items) >= Cap /\ queue' = [queue EXCEPT ![q] = o]
            /\ settled' = settled \cup {count + 1}
  <2>1. queue'[q].items = o.items BY <1>1, <1>3, <1>10
  <2>2. Line' = Line BY <1>2, <1>5, <1>8, <2>1 DEF Line
  <2>3. Len(Line) >= Cap BY <1>7, <1>8, <1>10, NumberedType
  <2> QED BY <1>2, <1>10, <2>2, <2>3 DEF Fifo!Refuse
<1> QED BY <1>4, <1>9, <1>10

LEMMA FinishFifo ==
  ASSUME IInv, clears = 0, overflow = FALSE, NEW q \in Queues, Finish(q)
  PROVE  Fifo!Serve \/ UNCHANGED Fifo!vars
<1> DEFINE items == queue[q].items
           flight == queue[q].flight
           k == IF queue[q].pc = "batch" THEN Len(flight) ELSE 1
           o == [queue[q] EXCEPT !.items = Rest(@, k), !.flight = <<>>, !.told = {}, !.pc = "wait",
                                 !.sum = IF queue[q].told # {} THEN {} ELSE @]
           Q == [queue EXCEPT ![q] = o]
<1>1. /\ queue \in [Queues -> Object] /\ queue[q] \in Object /\ Tame(queue[q])
      /\ Clean(queue[q]) /\ Alone(queue, map, clears)
  BY DEF IInv, Inv, Young, Exact
<1>2. items \in Seq(Msg) /\ flight \in Seq(Msg) /\ Len(items) \in Nat /\ Len(flight) \in Nat
  BY <1>1, ObjectFields, NumsType
<1>3. /\ queue[q].pc \in {"one", "batch", "summary"}
      /\ ran' = ran \cup Nums(flight) /\ settled' = settled \cup queue[q].told
      /\ IF Empty(o) THEN Finally(q, Q) ELSE Keep(Q, map)
      /\ UNCHANGED <<count, clears, overflow>>
  BY DEF Finish, arrivals, bounds
<1>4. q = map /\ q # None
  <2>1. queue[q] # Fresh BY <1>3 DEF Fresh
  <2> QED BY <2>1, <1>1 DEF Alone, Queues, None
<1>5. k = Len(flight) /\ k \in Nat /\ k <= Len(items)
      /\ \A i \in 1..k : flight[i] = items[i]
  BY <1>1, <1>2, <1>3 DEF Tame, Clean
<1> HIDE DEF k
<1>6. Rest(items, k) \in Seq(Msg) BY <1>2, <1>5, RestType
<1>7. Q \in [Queues -> Object] /\ Q[q].items = Rest(items, k)
  <2>1. o \in Object /\ o.items = Rest(items, k) BY <1>1, <1>6, NumsEmpty DEF Object, Msg
  <2> HIDE DEF o
  <2> QED BY <2>1, <1>1
<1> HIDE DEF o, Q
<1>8. LineOf(queue', map') = LineOf(Q, map)
  BY <1>3, <1>4, <1>7, FinallyLine, KeepLine
<1>9. Line = Numbered(items) /\ Line' = Numbered(Rest(items, k))
  BY <1>4, <1>7, <1>8, LineIs DEF LineOf
<1>10. /\ Line' = SubSeq(Line, k + 1, Len(Line)) /\ Len(Line) = Len(items)
       /\ \A i \in 1..Len(items) : Line[i] = items[i].n
  BY <1>2, <1>5, <1>9, NumberedRest, NumberedType
<1>11. Nums(flight) = {Line[i] : i \in 1..k}
  <2>1. \A n : n \in Nums(flight) <=> \E i \in 1..k : n = flight[i].n
    BY <1>2, <1>5, NumsType
  <2>2. \A i \in 1..k : flight[i].n = Line[i]
    <3>1. \A i \in 1..k : i \in 1..Len(items) BY <1>2, <1>5
    <3> QED BY <3>1, <1>5, <1>10
  <2> QED BY <2>1, <2>2
<1>12. settled' = settled BY <1>1, <1>3 DEF Clean
<1>13. CASE k = 0
  <2>1. Nums(flight) = {} BY <1>11, <1>13
  <2>2. Rest(items, 0) = items BY <1>2, SubSeqFull DEF Rest
  <2> QED BY <1>3, <1>9, <1>12, <1>13, <2>1, <2>2 DEF Fifo!vars
<1>14. CASE k # 0
  <2>1. k \in 1..Len(Line) BY <1>2, <1>5, <1>10, <1>14
  <2> QED BY <2>1, <1>3, <1>10, <1>11, <1>12 DEF Fifo!Serve
<1> QED BY <1>13, <1>14

LEMMA FifoInit == Init => Fifo!Init
BY DEF Init, Fifo!Init, Line

\* What is disturbed stays so.
LEMMA DisturbedStays ==
  ASSUME IInv, [Next]_vars, overflow \/ clears > 0
  PROVE  (overflow \/ clears > 0)'
<1>1. clears \in Nat BY Limits DEF IInv, Bounds
<1>2. ASSUME NEW mode \in Modes, NEW drop \in Policies, NEW to \in Routes, Enqueue(mode, drop, to)
      PROVE  (overflow \/ clears > 0)'
  <2>1. clears' = clears /\ (overflow' = overflow \/ overflow' = TRUE)
    BY <1>2, Zenon DEF Enqueue, bounds
  <2> QED BY <2>1
<1>3. CASE Clear
  <2>1. clears' = clears + 1 BY <1>3 DEF Clear
  <2> QED BY <2>1, <1>1
<1>4. ASSUME UNCHANGED <<clears, overflow>> PROVE (overflow \/ clears > 0)'
  BY <1>4
<1>5. CASE \/ Arrive \/ TurnEnd \/ TurnThrows \/ UNCHANGED vars
           \/ \E mode \in Modes, drop \in Policies : Duplicate(mode, drop)
           \/ \E q \in Queues : Choose(q) \/ Finish(q) \/ Fail(q)
  <2>1. UNCHANGED <<clears, overflow>>
    BY <1>5, Zenon DEF Arrive, TurnEnd, TurnThrows, Duplicate, Choose, Collect, RunOne, Summarize,
       Begin, Break, Finish, Fail, vars, bounds, history
  <2> QED BY <2>1, <1>4
<1> QED BY <1>2, <1>3, <1>5 DEF Next

LEMMA FifoStep == IInv /\ [Next]_vars => [Fifo!Next]_Fifo!vars
<1> DEFINE Same == UNCHANGED <<Line, count, ran, settled>>
<1> SUFFICES ASSUME IInv, [Next]_vars, ~(overflow \/ clears > 0), ~(overflow \/ clears > 0)'
             PROVE  Fifo!Join \/ Fifo!Refuse \/ Fifo!Serve \/ Same
  <2> SUFFICES ASSUME IInv, [Next]_vars PROVE Fifo!Next \/ UNCHANGED Fifo!vars OBVIOUS
  <2> DEFINE over == overflow \/ clears > 0
  <2>1. over \in BOOLEAN /\ over' \in BOOLEAN OBVIOUS
  <2>2. CASE over' BY <2>2 DEF Fifo!Next
  <2>3. CASE ~over /\ ~over' BY <2>3 DEF Fifo!Next, Fifo!vars
  <2>4. over => over' BY DisturbedStays
  <2> QED BY <2>1, <2>2, <2>3, <2>4
<1>1. /\ queue \in [Queues -> Object] /\ map \in Queues \cup {None}
      /\ clears = 0 /\ overflow = FALSE /\ overflow' = FALSE /\ Alone(queue, map, clears)
  BY Limits DEF IInv, Inv, Bounds
<1>2. ASSUME UNCHANGED queue, UNCHANGED map PROVE Line' = Line
  BY <1>2 DEF Line
<1>3. CASE Arrive \/ TurnThrows \/ UNCHANGED vars
  BY <1>2, <1>3 DEF Arrive, TurnThrows, vars, arrivals, history
<1>4. CASE TurnEnd
  <2>1. Schedule(queue) /\ UNCHANGED <<count, history>> BY <1>4 DEF TurnEnd
  <2>2. LineOf(queue', map') = LineOf(queue, map) BY <2>1, <1>1, ScheduleLine
  <2> QED BY <2>1, <2>2, LineIs DEF history
<1>5. CASE Clear
  <2>1. clears' = 1 BY <1>1, <1>5 DEF Clear
  <2> QED BY <2>1
<1>6. ASSUME NEW mode \in Modes, NEW drop \in Policies, NEW to \in Routes, Enqueue(mode, drop, to)
      PROVE  Fifo!Join \/ Fifo!Refuse
  BY <1>1, <1>6, EnqueueFifo
<1>7. ASSUME NEW mode \in Modes, NEW drop \in Policies, Duplicate(mode, drop) PROVE Same
  <2>1. /\ map \in Queues /\ map' = map /\ UNCHANGED <<count, history>>
        /\ queue' = [queue EXCEPT ![map] = Settle(@, mode, drop)]
    BY <1>1, <1>7 DEF Duplicate
  <2>2. queue'[map].items = queue[map].items BY <1>1, <2>1 DEF Settle, Object
  <2> QED BY <2>1, <2>2 DEF Line, history
<1>8. ASSUME NEW q \in Queues, Collect(q) \/ RunOne(q) \/ Summarize(q) PROVE Same
  <2>1. PICK pc, flight, told, force : Begin(q, pc, flight, told, force)
    BY <1>8, Zenon DEF Collect, RunOne, Summarize
  <2>2. /\ UNCHANGED <<map, arrivals, bounds, history>>
        /\ \A p \in Queues : queue'[p].items = queue[p].items
    BY <1>1, <2>1 DEF Begin, Object
  <2> QED BY <1>1, <2>2 DEF Line, arrivals, history
<1>9. ASSUME NEW q \in Queues, Break(q) \/ Fail(q) PROVE Same
  <2>1. queue[q].pc # "idle" /\ Finally(q, queue) /\ UNCHANGED <<count, history>>
    BY <1>9 DEF Break, Fail, arrivals, history
  <2>2. q = map
    <3>1. queue[q] # Fresh BY <2>1 DEF Fresh
    <3> QED BY <3>1, <1>1 DEF Alone
  <2>3. LineOf(queue', map') = LineOf(queue, map) BY <1>1, <2>1, <2>2, FinallyLine
  <2> QED BY <2>1, <2>3, LineIs DEF history
<1>10. ASSUME NEW q \in Queues, Finish(q) PROVE Fifo!Serve \/ Same
  BY <1>1, <1>10, FinishFifo DEF Fifo!vars
<1> QED BY <1>3, <1>4, <1>5, <1>6, <1>7, <1>8, <1>9, <1>10 DEF Next, Choose

(* As long as no queued message is dropped and nothing is cleared, what    *)
(* enqueue.ts and drain.ts do with their objects is first in, first out.   *)
THEOREM IsFifoQueue == Spec => FifoQueueSpec
BY FifoInit, FifoStep, Invariance, PTL DEF Spec, FifoQueueSpec, Fifo!Spec
=============================================================================
