-------------------------- MODULE Rumination_proofs --------------------------
(***************************************************************************)
(* Proofs about Rumination, for any limits, topics and number of faults.   *)
(***************************************************************************)
EXTENDS Rumination, Functions, SequenceTheorems, FiniteSetTheorems, TLAPS

(* The manager's archive, with threads up to the n-th.                     *)
Archive(r, n) ==
  /\ r \in Managers /\ WellKept(r)
  /\ r.active.id <= n
  /\ r.active # NoThread => r.active.id > 0
  /\ \A i \in DOMAIN r.completed : r.completed[i].id <= n

Sound(r, n) == Archive(r, n) /\ HistoryKept(r.active)

(* What the heartbeat knows of the thread at each of its awaits.           *)
PcInv ==
  /\ pc \in {"first", "next"} => rm.active # NoThread
  /\ pc = "sample" => rm.active = NoThread
  /\ pc # "rest" => loaded

(* Where the file lags behind without a failure: after a pop, and until    *)
(* the first thought of a thread.                                          *)
FileInv ==
  loaded /\ ~unsaved /\ pc # "first" /\ ~(pc = "sample" /\ popped) => file = rm

IInv == TypeOK /\ Sound(rm, started) /\ Sound(file, started) /\ PcInv /\ FileInv
-----------------------------------------------------------------------------
(* The constants are natural numbers.                                      *)
LEMMA Limits ==
  /\ MaxCycles \in Nat /\ MaxCycles > 0 /\ MaxHistory \in Nat \ {0}
  /\ MaxCompleted \in Nat \ {0} /\ FlatAfter \in Nat /\ FlatAfter > 0 /\ FlatAfter < MaxCycles
  /\ RecentTopics \in Nat \ {0}
  /\ MaxThreads \in Nat /\ MaxFaults \in Nat
BY LimitsAssumption, BoundsAssumption

(* Latest(s, n) is the tail of s of length n, or s if it is shorter.       *)
LEMMA LatestIsTail ==
  ASSUME NEW S, NEW s \in Seq(S), NEW n \in Nat \ {0}
  PROVE  /\ Latest(s, n) \in Seq(S)
         /\ Len(Latest(s, n)) = IF Len(s) > n THEN n ELSE Len(s)
         /\ \A i \in 1..Len(Latest(s, n)) :
              Latest(s, n)[i] = s[i + (Len(s) - Len(Latest(s, n)))]
<1>1. CASE Len(s) > n
  <2> DEFINE a == Len(s) - n + 1
  <2>1. Latest(s, n) = SubSeq(s, a, Len(s)) BY <1>1 DEF Latest
  <2>2. /\ a \in 1..Len(s) /\ Len(s) \in Nat
        /\ Len(s) - a + 1 = n
    BY <1>1
  <2>3. SubSeq(s, a, Len(s)) = [i \in 1..n |-> s[i + a - 1]]
    BY <2>2
  <2>4. \A i \in 1..n : i + a - 1 \in 1..Len(s) /\ s[i + a - 1] \in S
    BY <2>2
  <2>5. SubSeq(s, a, Len(s)) \in Seq(S) /\ Len(SubSeq(s, a, Len(s))) = n
    BY <2>2, <2>3, <2>4
  <2>6. \A i \in 1..n : SubSeq(s, a, Len(s))[i] = s[i + (Len(s) - n)]
    BY <2>2, <2>3
  <2> QED BY <1>1, <2>1, <2>5, <2>6
<1>2. CASE ~(Len(s) > n)
  <2>1. Latest(s, n) = s BY <1>2 DEF Latest
  <2> QED BY <1>2, <2>1
<1> QED BY <1>1, <1>2

(* u is s with x appended, cut to the last n: the last is x, the others    *)
(* are those of s before.                                                  *)
Cut(u, s, x, n) ==
  /\ Len(u) = IF Len(s) + 1 > n THEN n ELSE Len(s) + 1
  /\ u[Len(u)] = x
  /\ \A i \in 1..(Len(u) - 1) :
       /\ i + (Len(s) + 1 - Len(u)) \in 1..Len(s)
       /\ u[i] = s[i + (Len(s) + 1 - Len(u))]

LEMMA LatestAppend ==
  ASSUME NEW S, NEW s \in Seq(S), NEW x \in S, NEW n \in Nat \ {0},
         NEW u, u = Latest(Append(s, x), n)
  PROVE  u \in Seq(S) /\ Cut(u, s, x, n)
<1>0. Append(s, x) \in Seq(S)
  OBVIOUS
<1>1. PICK a \in Seq(S) : a = Append(s, x)
  BY <1>0, Zenon
<1>2. Len(s) \in Nat /\ Len(a) = Len(s) + 1 /\ a[Len(s) + 1] = x
      /\ \A i \in 1..Len(s) : a[i] = s[i]
  BY <1>1
<1>3. /\ u \in Seq(S)
      /\ Len(u) = IF Len(a) > n THEN n ELSE Len(a)
      /\ \A i \in 1..Len(u) : u[i] = a[i + (Len(a) - Len(u))]
  BY <1>1, LatestIsTail
<1>4. PICK l \in 1..(Len(s) + 1) : l = Len(u)
  BY <1>2, <1>3
<1>4a. /\ u \in Seq(S)
       /\ \A i \in 1..l : u[i] = a[i + (Len(a) - l)]
  BY <1>3, <1>4, Zenon
<1>5. u[l] = x
  <2>1. u[l] = a[l + (Len(a) - l)] BY <1>4, <1>4a
  <2>2. l + (Len(a) - l) = Len(s) + 1 BY <1>2, <1>4
  <2> QED BY <2>1, <2>2, <1>2
<1>6. ASSUME NEW i \in 1..(l - 1)
      PROVE  i + (Len(s) + 1 - l) \in 1..Len(s) /\ u[i] = s[i + (Len(s) + 1 - l)]
  <2>1. i + (Len(s) + 1 - l) \in 1..Len(s) /\ i \in 1..l BY <1>2, <1>4
  <2>2. u[i] = a[i + (Len(a) - l)] BY <2>1, <1>4a
  <2>3. i + (Len(a) - l) = i + (Len(s) + 1 - l) BY <1>2, <1>4
  <2> QED BY <2>1, <2>2, <2>3, <1>2
<1> QED BY <1>2, <1>3, <1>4, <1>5, <1>6 DEF Cut

(* A true reason.                                                          *)
True(e) ==
  /\ (e.reason = "max_cycles") <=> (e.cycles = MaxCycles)
  /\ e.reason = "gut_flat" => e.cycles > FlatAfter

(* Threads in the order of starting, all with a true reason.               *)
Ordered(c) ==
  /\ \A i, j \in DOMAIN c : i < j => c[i].id < c[j].id
  /\ \A i \in DOMAIN c : True(c[i])

(* The archive stays in order when a younger thread is added to it.        *)
LEMMA ArchiveGrows ==
  ASSUME NEW c \in Seq(Ended), NEW e \in Ended, NEW n \in Nat, NEW u,
         u = Latest(Append(c, e), MaxCompleted),
         Ordered(c), True(e), e.id <= n,
         \A i \in DOMAIN c : c[i].id < e.id
  PROVE  /\ u \in Seq(Ended) /\ Len(u) <= MaxCompleted
         /\ Ordered(u)
         /\ \A i \in DOMAIN u : u[i].id <= n
<1>1. /\ u \in Seq(Ended)
      /\ Len(u) = IF Len(c) + 1 > MaxCompleted THEN MaxCompleted ELSE Len(c) + 1
      /\ u[Len(u)] = e
      /\ \A i \in 1..(Len(u) - 1) :
           /\ i + (Len(c) + 1 - Len(u)) \in 1..Len(c)
           /\ u[i] = c[i + (Len(c) + 1 - Len(u))]
  <2>1. MaxCompleted \in Nat \ {0} BY Limits
  <2>2. u \in Seq(Ended) /\ Cut(u, c, e, MaxCompleted) BY <2>1, LatestAppend, Zenon
  <2> QED BY <2>2 DEF Cut
<1>2. Len(u) <= MaxCompleted
  BY <1>1, Limits
<1>3. PICK l \in Nat : l = Len(u)
  BY <1>1
<1>4. PICK d \in Int : d = Len(c) + 1 - Len(u)
  BY <1>1
<1>5. /\ u[l] = e
      /\ \A i \in 1..(l - 1) : i + d \in DOMAIN c /\ u[i] = c[i + d]
      /\ DOMAIN u = 1..l
  BY <1>1, <1>3, <1>4
<1>6. \A i \in DOMAIN c : c[i].id \in Nat /\ c[i].id <= n
  <2>1. \A i \in DOMAIN c : c[i] \in Ended OBVIOUS
  <2> QED BY <2>1, Limits DEF Ended
<1>7. ASSUME NEW i \in DOMAIN u PROVE u[i].id <= n /\ True(u[i])
  <2>1. i = l \/ i \in 1..(l - 1) BY <1>5
  <2> QED BY <2>1, <1>5, <1>6 DEF Ordered
<1>8. ASSUME NEW i \in DOMAIN u, NEW j \in DOMAIN u, i < j
      PROVE  u[i].id < u[j].id
  <2>1. i \in 1..(l - 1) /\ (j = l \/ j \in 1..(l - 1)) BY <1>5, <1>8
  <2>2. CASE j = l BY <2>1, <2>2, <1>5
  <2>3. CASE j \in 1..(l - 1)
    <3>1. i + d \in DOMAIN c /\ j + d \in DOMAIN c /\ i + d < j + d
      BY <2>1, <2>3, <1>5, <1>8
    <3> QED BY <3>1, <2>1, <2>3, <1>5 DEF Ordered
  <2> QED BY <2>1, <2>2, <2>3
<1> QED BY <1>1, <1>2, <1>7, <1>8 DEF Ordered

(* The history stays that of the last cycles when the k-th is added.       *)
LEMMA HistoryGrows ==
  ASSUME NEW h \in Seq(1..MaxCycles), NEW k \in 1..MaxCycles, NEW u,
         u = Latest(Append(h, k), MaxHistory),
         Len(h) = (IF k - 1 < MaxHistory THEN k - 1 ELSE MaxHistory),
         \A i \in DOMAIN h : h[i] = (k - 1) - Len(h) + i
  PROVE  /\ u \in Seq(1..MaxCycles)
         /\ Len(u) = (IF k < MaxHistory THEN k ELSE MaxHistory)
         /\ \A i \in DOMAIN u : u[i] = k - Len(u) + i
<1>1. /\ u \in Seq(1..MaxCycles)
      /\ Len(u) = IF Len(h) + 1 > MaxHistory THEN MaxHistory ELSE Len(h) + 1
      /\ u[Len(u)] = k
      /\ \A i \in 1..(Len(u) - 1) :
           /\ i + (Len(h) + 1 - Len(u)) \in 1..Len(h)
           /\ u[i] = h[i + (Len(h) + 1 - Len(u))]
  <2>1. MaxHistory \in Nat \ {0} BY Limits
  <2>2. u \in Seq(1..MaxCycles) /\ Cut(u, h, k, MaxHistory) BY <2>1, LatestAppend, Zenon
  <2> QED BY <2>2 DEF Cut
<1>2. Len(u) = (IF k < MaxHistory THEN k ELSE MaxHistory)
  BY <1>1, Limits
<1>3. PICK l \in Nat : l = Len(u)
  BY <1>1
<1>4. PICK d \in Int : d = Len(h) + 1 - Len(u)
  BY <1>1
<1>5. /\ u[l] = k
      /\ \A i \in 1..(l - 1) : i + d \in DOMAIN h /\ u[i] = h[i + d]
      /\ DOMAIN u = 1..l
  <2>1. u[l] = k BY <1>1, <1>3
  <2>2. ASSUME NEW i \in 1..(l - 1) PROVE i + d \in DOMAIN h /\ u[i] = h[i + d]
    <3>1. i \in 1..(Len(u) - 1) /\ i + d = i + (Len(h) + 1 - Len(u)) BY <1>3, <1>4
    <3>2. i + (Len(h) + 1 - Len(u)) \in 1..Len(h) /\ u[i] = h[i + (Len(h) + 1 - Len(u))]
      BY <3>1, <1>1
    <3> QED BY <3>1, <3>2
  <2>3. DOMAIN u = 1..l BY <1>1, <1>3
  <2> QED BY <2>1, <2>2, <2>3
<1>6. ASSUME NEW i \in DOMAIN u PROVE u[i] = k - l + i
  <2>1. i = l \/ i \in 1..(l - 1) BY <1>5
  <2>2. CASE i = l BY <2>2, <1>5
  <2>3. CASE i \in 1..(l - 1)
    <3>1. u[i] = (k - 1) - Len(h) + (i + d) BY <2>3, <1>5
    <3> QED BY <3>1, <2>3, <1>3, <1>4
  <2> QED BY <2>1, <2>2, <2>3
<1> QED BY <1>1, <1>2, <1>3, <1>6

(* Ending a thread for a true reason archives it once.                     *)
LEMMA EndSound ==
  ASSUME NEW n \in 0..MaxThreads, NEW r, Archive(r, n), r.active # NoThread,
         NEW why \in Reasons,
         (why = "max_cycles") <=> (r.active.cycles = MaxCycles),
         why = "gut_flat" => r.active.cycles > FlatAfter
  PROVE  Sound(EndThread(r, why), n) /\ EndThread(r, why).active = NoThread
<1>1. PICK e : e = [id |-> r.active.id, cycles |-> r.active.cycles, reason |-> why]
  OBVIOUS
<1>2. PICK u : u = Latest(Append(r.completed, e), MaxCompleted)
  OBVIOUS
<1>3. r.active.id \in 1..MaxThreads /\ r.active.cycles \in 0..MaxCycles /\ r.completed \in Seq(Ended)
  BY Limits DEF Archive, Managers, Thread
<1>4. e \in Ended /\ True(e) /\ e.id = r.active.id
  BY <1>1, <1>3 DEF Ended, True
<1>5. /\ Ordered(r.completed) /\ r.active.id <= n
      /\ \A i \in DOMAIN r.completed : r.completed[i].id < r.active.id
  BY DEF Archive, WellKept, Ordered, True
<1>6. /\ u \in Seq(Ended) /\ Len(u) <= MaxCompleted
      /\ Ordered(u)
      /\ \A i \in DOMAIN u : u[i].id <= n
  <2>1. n \in Nat BY Limits
  <2>2. /\ r.completed \in Seq(Ended) /\ e \in Ended /\ Ordered(r.completed)
        /\ True(e) /\ e.id <= n
        /\ \A i \in DOMAIN r.completed : r.completed[i].id < e.id
    BY <1>3, <1>4, <1>5
  <2> QED BY <2>1, <2>2, <1>2, ArchiveGrows, Zenon
<1>7. EndThread(r, why) = [active |-> NoThread, completed |-> u]
  BY <1>1, <1>2 DEF EndThread
<1>8. NoThread \in Thread /\ NoThread.id = 0 /\ HistoryKept(NoThread)
  BY Limits DEF NoThread, Thread, HistoryKept
<1>9. WellKept([active |-> NoThread, completed |-> u])
  BY <1>6 DEF WellKept, Ordered, True
<1> QED BY <1>6, <1>7, <1>8, <1>9 DEF Sound, Archive, Managers

(* One more cycle keeps the history that of the last cycles.               *)
LEMMA LongerKept ==
  ASSUME NEW t \in Thread, HistoryKept(t)
  PROVE  /\ Longer(t) \in Thread
         /\ Longer(t).id = t.id /\ Longer(t).cycles = t.cycles + 1
         /\ Longer(t).cycles < MaxCycles => HistoryKept(Longer(t))
<1>1. PICK u : u = Latest(Append(t.hist, t.cycles + 1), MaxHistory)
  OBVIOUS
<1>2. /\ t.id \in 0..MaxThreads /\ t.cycles \in Nat /\ t.cycles + 1 \in 1..MaxCycles
      /\ t.hist \in Seq(1..MaxCycles)
  BY Limits DEF Thread, HistoryKept
<1>3. /\ Len(t.hist) = (IF t.cycles < MaxHistory THEN t.cycles ELSE MaxHistory)
      /\ \A i \in DOMAIN t.hist : t.hist[i] = t.cycles - Len(t.hist) + i
      /\ (t.cycles + 1) - 1 = t.cycles
  BY <1>2 DEF HistoryKept
<1>4. /\ u \in Seq(1..MaxCycles)
      /\ Len(u) = (IF t.cycles + 1 < MaxHistory THEN t.cycles + 1 ELSE MaxHistory)
      /\ \A i \in DOMAIN u : u[i] = t.cycles + 1 - Len(u) + i
  BY <1>1, <1>2, <1>3, HistoryGrows
<1>5. Longer(t) = [id |-> t.id, cycles |-> t.cycles + 1, hist |-> u]
  <2>1. t = [id |-> t.id, cycles |-> t.cycles, hist |-> t.hist] BY DEF Thread
  <2>2. Longer(t) = [[id |-> t.id, cycles |-> t.cycles, hist |-> t.hist] EXCEPT !.cycles = @ + 1, !.hist = u]
    BY <1>1, <2>1 DEF Longer
  <2> QED BY <2>2
<1> QED BY <1>2, <1>4, <1>5, Limits DEF Thread, HistoryKept

(* A further thought leaves a sound manager, whether it ends the thread.   *)
LEMMA ContinueSound ==
  ASSUME NEW n \in 0..MaxThreads, NEW r, Sound(r, n), r.active # NoThread, NEW flat \in BOOLEAN
  PROVE  Sound(ContinueThread(r, flat), n)
<1> DEFINE s == [r EXCEPT !.active = Longer(@)]
<1>1. r \in Managers /\ r.active \in Thread /\ HistoryKept(r.active)
  BY DEF Sound, Archive, Managers
<1>2. /\ Longer(r.active) \in Thread
      /\ Longer(r.active).id = r.active.id /\ Longer(r.active).cycles = r.active.cycles + 1
      /\ Longer(r.active).cycles < MaxCycles => HistoryKept(Longer(r.active))
  BY <1>1, LongerKept
<1>3. /\ s = [active |-> Longer(r.active), completed |-> r.completed]
      /\ s.active = Longer(r.active) /\ s.completed = r.completed
  BY <1>1 DEF Managers
<1>4. r.active.id > 0 /\ r.active.id \in Nat
  BY <1>1 DEF Sound, Archive, Thread
<1>5. s.active # NoThread
  BY <1>2, <1>3, <1>4 DEF NoThread
<1>6. Archive(s, n)
  BY <1>1, <1>2, <1>3, <1>4 DEF Sound, Archive, WellKept, Managers
<1>7. s.active.cycles \in 0..MaxCycles
  BY <1>2, <1>3 DEF Thread
<1> HIDE DEF s
<1>8. CASE s.active.cycles >= MaxCycles
  <2>1. Sound(EndThread(s, "max_cycles"), n)
    BY <1>5, <1>6, <1>7, <1>8, EndSound, Limits DEF Reasons
  <2> QED BY <2>1, <1>8 DEF ContinueThread, s
<1>9. CASE s.active.cycles < MaxCycles /\ flat /\ s.active.cycles > FlatAfter
  <2>1. Sound(EndThread(s, "gut_flat"), n)
    BY <1>5, <1>6, <1>7, <1>9, EndSound, Limits DEF Reasons
  <2>2. ~(s.active.cycles >= MaxCycles) BY <1>7, <1>9, Limits
  <2> QED BY <2>1, <2>2, <1>9 DEF ContinueThread, s
<1>10. CASE s.active.cycles < MaxCycles /\ ~(flat /\ s.active.cycles > FlatAfter)
  <2>1. Sound(s, n) BY <1>2, <1>3, <1>6, <1>10 DEF Sound
  <2>2. ~(s.active.cycles >= MaxCycles) BY <1>7, <1>10, Limits
  <2> QED BY <2>1, <2>2, <1>10 DEF ContinueThread, s
<1> QED BY <1>7, <1>8, <1>9, <1>10, Limits

(* The first thought does not end its thread.                              *)
LEMMA StartSound ==
  ASSUME NEW n \in 0..MaxThreads, n < MaxThreads, NEW r, Sound(r, n), r.active = NoThread
  PROVE  Sound(StartThread(r, n + 1), n + 1) /\ StartThread(r, n + 1).active # NoThread
<1> DEFINE t == [id |-> n + 1, cycles |-> 0, hist |-> <<>>]
<1>1. r \in Managers BY DEF Sound, Archive
<1>2. StartThread(r, n + 1) = [active |-> t, completed |-> r.completed]
  BY <1>1 DEF StartThread, Managers
<1>3. t \in Thread /\ t # NoThread /\ HistoryKept(t) /\ t.id = n + 1
  BY Limits DEF Thread, NoThread, HistoryKept
<1>4. \A i \in DOMAIN r.completed : r.completed[i].id <= n /\ r.completed[i].id \in Nat
  <2>1. r.completed \in Seq(Ended) /\ \A i \in DOMAIN r.completed : r.completed[i].id <= n
    BY <1>1 DEF Sound, Archive, Managers
  <2>2. \A i \in DOMAIN r.completed : r.completed[i] \in Ended BY <2>1
  <2> QED BY <2>1, <2>2, Limits DEF Ended
<1>5. WellKept([active |-> t, completed |-> r.completed])
  BY <1>3, <1>4 DEF Sound, Archive, WellKept
<1> QED BY <1>1, <1>2, <1>3, <1>4, <1>5 DEF Sound, Archive, Managers

(* A sound manager stays sound when more threads have been started.        *)
LEMMA SoundGrows ==
  ASSUME NEW n \in 0..MaxThreads, n < MaxThreads, NEW r, Sound(r, n)
  PROVE  Sound(r, n + 1)
<1>1. r \in Managers BY DEF Sound, Archive
<1>2. r.active.id \in Nat /\ \A i \in DOMAIN r.completed : r.completed[i].id \in Nat
  <2>1. r.completed \in Seq(Ended) /\ r.active \in Thread BY <1>1 DEF Managers
  <2>2. \A i \in DOMAIN r.completed : r.completed[i] \in Ended BY <2>1
  <2> QED BY <2>1, <2>2, Limits DEF Ended, Thread
<1> QED BY <1>1, <1>2 DEF Sound, Archive

LEMMA BlankSound == ASSUME NEW n \in 0..MaxThreads PROVE Sound(Blank, n)
<1>1. Blank \in Managers /\ Blank.active = NoThread /\ Blank.completed = <<>> /\ NoThread.id = 0
  BY Limits DEF Blank, Managers, NoThread, Thread
<1>2. HistoryKept(NoThread) BY Limits DEF NoThread, HistoryKept
<1>3. WellKept(Blank) BY <1>1, Limits DEF WellKept
<1> QED BY <1>1, <1>2, <1>3 DEF Sound, Archive
-----------------------------------------------------------------------------
(* A save that may fail.                                                   *)
LEMMA SaveKeeps ==
  ASSUME IInv, NEW n \in 0..MaxThreads, Sound(rm', n), Sound(file, n), NEW p, SaveThen(p)
  PROVE  /\ Sound(file', n) /\ file' \in Managers
         /\ unsaved' \in BOOLEAN /\ faults' \in 0..MaxFaults
         /\ pc' \in {p, "rest"}
         /\ unsaved' \/ file' = rm'
         /\ pc' = p \/ unsaved'
<1>1. CASE file' = rm' /\ unsaved' = FALSE /\ pc' = p /\ UNCHANGED faults
  BY <1>1 DEF IInv, TypeOK, Sound, Archive
<1>2. CASE Fault /\ file' \in {file, Blank} /\ unsaved' = TRUE /\ pc' = "rest"
  <2>1. faults' \in 0..MaxFaults BY <1>2, Limits DEF Fault, IInv, TypeOK
  <2> QED BY <1>2, <2>1, BlankSound DEF Sound, Archive
<1> QED BY <1>1, <1>2 DEF SaveThen

(* The values of a process that has just started.                          *)
LEMMA FreshSound ==
  /\ AnyTopic \in Topics
  /\ <<>> \in Seq(Topics) /\ Len(<<>>) = 0 /\ Len(<<>>) <= RecentTopics
  /\ Sound(Blank, 0) /\ Blank \in Managers
  /\ 0 \in 0..MaxThreads /\ 0 \in 0..MaxFaults
<1>1. AnyTopic \in Topics BY TopicsAssumption DEF AnyTopic
<1>2. <<>> \in Seq(Topics) /\ Len(<<>>) = 0 OBVIOUS
<1>3. 0 <= RecentTopics BY Limits
<1>4. 0 \in 0..MaxThreads /\ 0 \in 0..MaxFaults BY Limits
<1>5. Sound(Blank, 0) /\ Blank \in Managers BY <1>4, BlankSound DEF Sound, Archive
<1> QED BY <1>1, <1>2, <1>3, <1>4, <1>5

(* The initial state.                                                      *)
LEMMA InitIInv == Init => IInv
<1> SUFFICES ASSUME Init PROVE IInv
  OBVIOUS
<1>1. rm \in Managers /\ file \in Managers /\ said \in Topics BY FreshSound DEF Init
<1>2. /\ queue \in Seq(Topics) /\ recent \in Seq(Topics) /\ seen \in Seq(Topics)
      /\ Len(recent) <= RecentTopics
  BY FreshSound DEF Init
<1>3. TypeOK BY <1>1, <1>2, FreshSound DEF Init, TypeOK
<1>4. Sound(rm, started) /\ Sound(file, started) BY FreshSound DEF Init
<1> QED BY <1>3, <1>4 DEF Init, IInv, PcInv, FileInv

(* Every step of the heartbeat and around it.                              *)
LEMMA NextIInv == IInv /\ [Next]_vars => IInv'
<1> SUFFICES ASSUME IInv, [Next]_vars PROVE IInv'
  OBVIOUS
<1>0. /\ TypeOK /\ Sound(rm, started) /\ Sound(file, started) /\ PcInv /\ FileInv
      /\ started \in 0..MaxThreads
  BY DEF IInv, TypeOK
<1>m. Sound(Manager, started) /\ Manager \in Managers
  BY <1>0 DEF Manager, TypeOK
<1>1. CASE BeatOn
  <2>1. Sound(rm', started') /\ Sound(file', started') BY <1>0, <1>1, <1>m DEF BeatOn
  <2>2. TypeOK' BY <1>0, <1>1, <1>m DEF BeatOn, TypeOK
  <2>3. PcInv' BY <1>1 DEF BeatOn, PcInv
  <2>4. FileInv' BY <1>0, <1>1 DEF BeatOn, FileInv, Manager
  <2> QED BY <2>1, <2>2, <2>3, <2>4 DEF IInv
<1>2. CASE BeatPop
  <2>1. Sound(rm', started') /\ rm'.active = NoThread
    <3>1. Manager.active.cycles \in 0..MaxCycles /\ Manager.active.cycles < MaxCycles
      BY <1>m DEF Managers, Thread, Sound, HistoryKept
    <3>2. Archive(Manager, started) /\ Manager.active # NoThread BY <1>2, <1>m DEF BeatPop, Sound
    <3>3. "random_pop" \in Reasons BY DEF Reasons
    <3>4. ~("random_pop" = "max_cycles") /\ ~("random_pop" = "gut_flat") OBVIOUS
    <3>5. Manager.active.cycles # MaxCycles BY <3>1, Limits
    <3>6. Sound(EndThread(Manager, "random_pop"), started)
          /\ EndThread(Manager, "random_pop").active = NoThread
      BY <1>0, <3>2, <3>3, <3>4, <3>5, EndSound
    <3> QED BY <3>6, <1>2 DEF BeatPop
  <2>2. Sound(file', started') BY <1>0, <1>2 DEF BeatPop
  <2>3. TypeOK' BY <1>0, <1>2, <2>1 DEF BeatPop, TypeOK, Sound, Archive
  <2>4. PcInv' BY <1>2, <2>1 DEF BeatPop, PcInv
  <2>5. FileInv' BY <1>2 DEF BeatPop, FileInv
  <2> QED BY <2>1, <2>2, <2>3, <2>4, <2>5 DEF IInv
<1>3. CASE BeatNew
  <2>1. Sound(rm', started') /\ Sound(file', started') BY <1>0, <1>3, <1>m DEF BeatNew
  <2>2. TypeOK' BY <1>0, <1>3, <1>m DEF BeatNew, TypeOK
  <2>3. PcInv' BY <1>3 DEF BeatNew, PcInv
  <2>4. FileInv' BY <1>0, <1>3 DEF BeatNew, FileInv, Manager
  <2> QED BY <2>1, <2>2, <2>3, <2>4 DEF IInv
<1>4. CASE Sample
  <2>1. started < MaxThreads /\ started' = started + 1 /\ started' \in 0..MaxThreads
    BY <1>0, <1>4, Limits DEF Sample
  <2>2. rm.active = NoThread BY <1>0, <1>4 DEF Sample, PcInv
  <2>3. Sound(StartThread(rm, started + 1), started + 1)
        /\ StartThread(rm, started + 1).active # NoThread
    BY <1>0, <2>1, <2>2, StartSound
  <2>4. Sound(rm', started') /\ rm'.active # NoThread BY <1>4, <2>3 DEF Sample
  <2>5. Sound(file', started') BY <1>0, <1>4, <2>1, SoundGrows DEF Sample
  <2>6. TypeOK' BY <1>0, <1>4, <2>1, <2>4 DEF Sample, TypeOK, Sound, Archive
  <2>7. PcInv' BY <1>0, <1>4, <2>4 DEF Sample, PcInv
  <2>8. FileInv' BY <1>4 DEF Sample, FileInv
  <2> QED BY <2>4, <2>5, <2>6, <2>7, <2>8 DEF IInv
<1>5. CASE SampleNothing
  <2>1. Sound(rm', started') /\ Sound(file, started') /\ started' \in 0..MaxThreads
    BY <1>0, <1>5 DEF SampleNothing
  <2>2. CASE popped
    <3>1. SaveThen("rest") BY <1>5, <2>2 DEF SampleNothing, SaveIfPopped
    <3>2. /\ Sound(file', started') /\ file' \in Managers /\ unsaved' \in BOOLEAN
          /\ faults' \in 0..MaxFaults /\ pc' = "rest" /\ (unsaved' \/ file' = rm')
      BY <2>1, <3>1, SaveKeeps
    <3>3. TypeOK' BY <1>0, <1>5, <3>2 DEF SampleNothing, TypeOK
    <3>4. PcInv' BY <3>2 DEF PcInv
    <3>5. FileInv' BY <3>2 DEF FileInv
    <3> QED BY <2>1, <3>2, <3>3, <3>4, <3>5 DEF IInv
  <2>3. CASE ~popped
    <3>1. pc' = "rest" /\ UNCHANGED <<file, unsaved, faults>>
      BY <1>5, <2>3 DEF SampleNothing, SaveIfPopped
    <3>2. TypeOK' BY <1>0, <1>5, <3>1 DEF SampleNothing, TypeOK
    <3>3. PcInv' BY <3>1 DEF PcInv
    <3>4. FileInv' BY <1>0, <1>5, <2>3, <3>1 DEF SampleNothing, FileInv
    <3> QED BY <2>1, <3>1, <3>2, <3>3, <3>4 DEF IInv
  <2> QED BY <2>2, <2>3
<1>6. ASSUME NEW t \in Topics, First(t) PROVE IInv'
  <2>1. rm.active # NoThread /\ loaded BY <1>0, <1>6 DEF First, PcInv
  <2>2. Sound(rm', started') /\ Sound(file, started') /\ started' \in 0..MaxThreads
    BY <1>0, <1>6, <2>1, ContinueSound DEF First
  <2>3. /\ Sound(file', started') /\ file' \in Managers /\ unsaved' \in BOOLEAN
        /\ faults' \in 0..MaxFaults /\ pc' \in {"queue", "rest"} /\ (unsaved' \/ file' = rm')
    BY <1>6, <2>2, SaveKeeps DEF First
  <2>4. TypeOK' BY <1>0, <1>6, <2>2, <2>3 DEF First, TypeOK, Sound, Archive
  <2>5. PcInv' BY <1>6, <2>1, <2>3 DEF First, PcInv
  <2>6. FileInv' BY <2>3 DEF FileInv
  <2> QED BY <2>2, <2>3, <2>4, <2>5, <2>6 DEF IInv
<1>7. ASSUME NEW t \in Topics, NEW flat \in BOOLEAN, Further(t, flat) PROVE IInv'
  <2>1. rm.active # NoThread /\ loaded BY <1>0, <1>7 DEF Further, PcInv
  <2>2. Sound(rm', started') /\ Sound(file, started') /\ started' \in 0..MaxThreads
    BY <1>0, <1>7, <2>1, ContinueSound DEF Further
  <2>3. PICK p \in {"rest", "queue"} : SaveThen(p)
    BY <1>7 DEF Further
  <2>4. /\ Sound(file', started') /\ file' \in Managers /\ unsaved' \in BOOLEAN
        /\ faults' \in 0..MaxFaults /\ pc' \in {"queue", "rest"} /\ (unsaved' \/ file' = rm')
    BY <2>2, <2>3, SaveKeeps
  <2>5. TypeOK' BY <1>0, <1>7, <2>2, <2>4 DEF Further, TypeOK, Sound, Archive
  <2>6. PcInv' BY <1>7, <2>1, <2>4 DEF Further, PcInv
  <2>7. FileInv' BY <2>4 DEF FileInv
  <2> QED BY <2>2, <2>4, <2>5, <2>6, <2>7 DEF IInv
<1>8. CASE Resolve
  <2>1. rm.active # NoThread /\ loaded BY <1>0, <1>8 DEF Resolve, PcInv
  <2>2. Sound(rm', started')
    <3>1. rm.active.cycles \in 0..MaxCycles /\ rm.active.cycles < MaxCycles
      BY <1>0 DEF TypeOK, Managers, Thread, Sound, HistoryKept
    <3>2. "self_resolved" \in Reasons /\ Archive(rm, started) BY <1>0 DEF Reasons, Sound
    <3>3. ~("self_resolved" = "max_cycles") /\ ~("self_resolved" = "gut_flat") OBVIOUS
    <3>4. rm.active.cycles # MaxCycles BY <3>1, Limits
    <3>5. Sound(EndThread(rm, "self_resolved"), started)
      BY <1>0, <2>1, <3>2, <3>3, <3>4, EndSound
    <3> QED BY <3>5, <1>8 DEF Resolve
  <2>3. Sound(file, started') /\ started' \in 0..MaxThreads BY <1>0, <1>8 DEF Resolve
  <2>4. /\ Sound(file', started') /\ file' \in Managers /\ unsaved' \in BOOLEAN
        /\ faults' \in 0..MaxFaults /\ pc' \in {"gut", "rest"} /\ (unsaved' \/ file' = rm')
    BY <1>8, <2>2, <2>3, SaveKeeps DEF Resolve
  <2>5. TypeOK' BY <1>0, <1>8, <2>2, <2>4 DEF Resolve, TypeOK, Sound, Archive
  <2>6. PcInv' BY <1>8, <2>1, <2>4 DEF Resolve, PcInv
  <2>7. FileInv' BY <2>4 DEF FileInv
  <2> QED BY <2>2, <2>4, <2>5, <2>6, <2>7 DEF IInv
<1>9. ASSUME pc \in {"queue", "track"}, SaveIfPopped("gut"),
             UNCHANGED <<rm, loaded, popped, said, queue, seen, started>>,
             recent' \in Seq(Topics), Len(recent') <= RecentTopics
      PROVE  IInv'
  <2>1. Sound(rm', started') /\ Sound(file, started') /\ started' \in 0..MaxThreads
    BY <1>0, <1>9
  <2>2. loaded BY <1>0, <1>9 DEF PcInv
  <2>3. CASE popped
    <3>1. SaveThen("gut") BY <1>9, <2>3 DEF SaveIfPopped
    <3>2. /\ Sound(file', started') /\ file' \in Managers /\ unsaved' \in BOOLEAN
          /\ faults' \in 0..MaxFaults /\ pc' \in {"gut", "rest"} /\ (unsaved' \/ file' = rm')
      BY <2>1, <3>1, SaveKeeps
    <3>3. TypeOK' BY <1>0, <1>9, <3>2 DEF TypeOK
    <3>4. PcInv' BY <1>9, <2>2, <3>2 DEF PcInv
    <3>5. FileInv' BY <3>2 DEF FileInv
    <3> QED BY <2>1, <3>2, <3>3, <3>4, <3>5 DEF IInv
  <2>4. CASE ~popped
    <3>1. pc' = "gut" /\ UNCHANGED <<file, unsaved, faults>> BY <1>9, <2>4 DEF SaveIfPopped
    <3>2. TypeOK' BY <1>0, <1>9, <3>1 DEF TypeOK
    <3>3. PcInv' BY <1>9, <2>2, <3>1 DEF PcInv
    <3>4. FileInv' BY <1>0, <1>9, <2>4, <3>1 DEF FileInv
    <3> QED BY <2>1, <3>1, <3>2, <3>3, <3>4 DEF IInv
  <2> QED BY <2>3, <2>4
<1>10. CASE Drop
  BY <1>0, <1>9, <1>10 DEF Drop, TypeOK
<1>11. CASE Track
  <2>1. Latest(Append(recent, said), RecentTopics) \in Seq(Topics)
        /\ Cut(Latest(Append(recent, said), RecentTopics), recent, said, RecentTopics)
    BY <1>0, Limits, LatestAppend DEF TypeOK
  <2>2. Len(Latest(Append(recent, said), RecentTopics)) <= RecentTopics
    BY <1>0, <2>1, Limits DEF Cut, TypeOK
  <2> QED BY <1>9, <1>11, <2>1, <2>2 DEF Track
<1>12. CASE Put
  <2>1. TypeOK' BY <1>0, <1>12 DEF Put, TypeOK
  <2>2. PcInv' BY <1>0, <1>12 DEF Put, PcInv
  <2>3. FileInv' BY <1>0, <1>12 DEF Put, FileInv
  <2> QED BY <1>0, <1>12, <2>1, <2>2, <2>3 DEF Put, IInv
<1>13. CASE EndBeat
  <2>1. TypeOK' BY <1>0, <1>13 DEF EndBeat, TypeOK
  <2>2. PcInv' BY <1>13 DEF EndBeat, PcInv
  <2>3. FileInv' BY <1>0, <1>13 DEF EndBeat, FileInv
  <2> QED BY <1>0, <1>13, <2>1, <2>2, <2>3 DEF EndBeat, IInv
<1>14. CASE Fail
  <2>u. unsaved' \in BOOLEAN BY <1>0, <1>14 DEF Fail, TypeOK
  <2>f. faults' \in 0..MaxFaults BY <1>0, <1>14, Limits DEF Fail, Fault, TypeOK
  <2>1. TypeOK' BY <1>0, <1>14, <2>u, <2>f DEF Fail, TypeOK
  <2>2. PcInv' /\ FileInv' BY <1>0, <1>14 DEF Fail, PcInv, FileInv, TypeOK
  <2> QED BY <1>0, <1>14, <2>1, <2>2 DEF Fail, IInv
<1>15. CASE Drain
  <2>1. seen \o queue \in Seq(Topics) /\ <<>> \in Seq(Topics) BY <1>0 DEF TypeOK
  <2>2. TypeOK' BY <1>0, <1>15, <2>1 DEF Drain, TypeOK
  <2>3. PcInv' /\ FileInv' BY <1>0, <1>15 DEF Drain, PcInv, FileInv
  <2> QED BY <1>0, <1>15, <2>2, <2>3 DEF Drain, IInv
<1>16. CASE Restart
  <2>1. Sound(Blank, started) BY <1>0, BlankSound
  <2>2. rm' \in Managers /\ said' \in Topics BY <1>16, FreshSound DEF Restart
  <2>q. /\ queue' \in Seq(Topics) /\ recent' \in Seq(Topics) /\ seen' \in Seq(Topics)
        /\ Len(recent') <= RecentTopics
    BY <1>16, FreshSound DEF Restart
  <2>f. faults' \in 0..MaxFaults BY <1>0, <1>16, Limits DEF Restart, Fault, TypeOK
  <2>3. TypeOK' BY <1>0, <1>16, <2>2, <2>q, <2>f DEF Restart, TypeOK
  <2>4. PcInv' /\ FileInv' BY <1>16 DEF Restart, PcInv, FileInv
  <2> QED BY <1>0, <1>16, <2>1, <2>3, <2>4 DEF Restart, IInv
<1>17. CASE UNCHANGED vars
  <2>1. TypeOK' BY <1>0, <1>17 DEF vars, TypeOK
  <2>2. PcInv' /\ FileInv' BY <1>0, <1>17 DEF vars, PcInv, FileInv
  <2> QED BY <1>0, <1>17, <2>1, <2>2 DEF vars, IInv
<1> QED
  BY <1>1, <1>2, <1>3, <1>4, <1>5, <1>6, <1>7, <1>8, <1>10, <1>11, <1>12, <1>13, <1>14,
     <1>15, <1>16, <1>17 DEF Next, Heartbeat
-----------------------------------------------------------------------------
(* Whatever fails and whenever the process stops, the manager, its file    *)
(* and the heartbeat keep to the invariant.                                *)
THEOREM Invariance == Spec => []IInv
<1> QED BY InitIInv, NextIInv, PTL DEF Spec

(* The variables keep their types, and no thread is ever superseded.       *)
THEOREM TypeCorrect == Spec => []TypeOK
<1>1. IInv => TypeOK BY DEF IInv
<1> QED BY Invariance, <1>1, PTL

(* A thread is archived once and for its true reason, the active one is    *)
(* none of the archived and has its last thoughts, in memory and in the    *)
(* file that a restart loads.                                              *)
THEOREM ThreadsArchivedOnce == Spec => []ThreadsOnce
<1>1. IInv => ThreadsOnce BY DEF IInv, Sound, Archive, ThreadsOnce
<1> QED BY Invariance, <1>1, PTL

(* Between heartbeats the file has the manager's state, unless a save, or  *)
(* a call before the first thought with which it is saved, has failed.     *)
THEOREM FileKeepsUp == Spec => []FileCurrent
<1>1. IInv => FileCurrent BY DEF IInv, FileInv, FileCurrent
<1> QED BY Invariance, <1>1, PTL
-----------------------------------------------------------------------------
(* What clients have got or can get; and, of it, what the repetition       *)
(* filter looks at: the last topics, without a thought that is queued and  *)
(* not remembered yet.                                                     *)
All == seen \o queue
Judged == IF pc = "track" THEN Len(All) - 1 ELSE Len(All)
Window(u, all, n) ==
  /\ n \in Nat /\ Len(u) = IF n > RecentTopics THEN RecentTopics ELSE n
  /\ \A k \in DOMAIN u : k + (n - Len(u)) \in 1..n /\ u[k] = all[k + (n - Len(u))]
Remembered ==
  /\ Window(recent, All, Judged)
  /\ pc = "track" => All[Len(All)] = said

(* The thoughts t in a stretch of the sequence.                            *)
Hits(all, t, lo, hi) == {j \in DOMAIN all : j \in lo..hi /\ all[j] = t}
Spaced(all) ==
  \A i \in DOMAIN all, t \in Topics : Cardinality(Hits(all, t, i, i + RecentTopics)) <= Repeats

LEMMA HitsFinite ==
  ASSUME NEW all \in Seq(Topics), NEW t, NEW lo \in Int, NEW hi \in Int
  PROVE  IsFiniteSet(Hits(all, t, lo, hi)) /\ Cardinality(Hits(all, t, lo, hi)) \in Nat
<1>1. IsFiniteSet(1..Len(all)) BY FS_Interval
<1>2. Hits(all, t, lo, hi) \subseteq 1..Len(all) BY DEF Hits
<1>3. IsFiniteSet(Hits(all, t, lo, hi)) BY <1>1, <1>2, FS_Subset
<1> QED BY <1>3, FS_CardinalityType

(* The filter sees all that a window of the sequence has before its end.   *)
LEMMA FilterSees ==
  ASSUME NEW all \in Seq(Topics), NEW u \in Seq(Topics), Window(u, all, Len(all)), NEW t,
         NEW i \in Int, i > Len(all) - RecentTopics
  PROVE  Cardinality(Hits(all, t, i, Len(all))) <= Cardinality({k \in DOMAIN u : u[k] = t})
<1> DEFINE A == Hits(all, t, i, Len(all))
           D == {k \in DOMAIN u : u[k] = t}
           d == Len(all) - Len(u)
           f == [j \in A |-> j - d]
<1>0. RecentTopics \in Nat \ {0} BY Limits
<1>1. /\ Len(all) \in Nat /\ Len(u) \in Nat /\ d \in Int
      /\ DOMAIN u = 1..Len(u) /\ DOMAIN all = 1..Len(all)
  OBVIOUS
<1>2. IsFiniteSet(D)
  <2>1. IsFiniteSet(1..Len(u)) BY <1>1, FS_Interval
  <2> QED BY <1>1, <2>1, FS_Subset
<1>3. ASSUME NEW j \in A PROVE j \in Int /\ j - d \in D
  <2>1. j \in 1..Len(all) /\ j >= i /\ all[j] = t BY <1>1, <1>3 DEF Hits
  <2>2. j - d \in 1..Len(u) BY <1>0, <1>1, <2>1 DEF Window
  <2>3. u[j - d] = all[(j - d) + (Len(all) - Len(u))] BY <1>1, <2>2 DEF Window
  <2>4. (j - d) + (Len(all) - Len(u)) = j BY <1>1, <2>1
  <2> QED BY <1>1, <2>1, <2>2, <2>3, <2>4
<1>4. f \in [A -> D] BY <1>3
<1>5. \A j, k \in A : f[j] = f[k] => j = k
  <2> SUFFICES ASSUME NEW j \in A, NEW k \in A, j - d = k - d PROVE j = k OBVIOUS
  <2> QED BY <1>1, <1>3
<1> HIDE DEF f, A, D
<1>6. f \in Injection(A, D) BY <1>4, <1>5 DEF Injection, IsInjective
<1> QED BY <1>2, <1>6, FS_Injection DEF A, D

(* A thought that the filter lets through keeps the sequence spaced.       *)
LEMMA SpacedGrows ==
  ASSUME NEW all \in Seq(Topics), NEW u \in Seq(Topics), NEW x \in Topics,
         Window(u, all, Len(all)), Spaced(all),
         ~(Cardinality({k \in DOMAIN u : u[k] = x}) >= Repeats)
  PROVE  Spaced(Append(all, x))
<1> DEFINE b == Append(all, x)  n == Len(all)
<1>0. RecentTopics \in Nat \ {0} /\ Repeats \in Nat \ {0} /\ n \in Nat
  BY Limits, LimitsAssumption
<1>1. /\ DOMAIN b = 1..(n + 1) /\ DOMAIN all = 1..n /\ b[n + 1] = x
      /\ \A j \in 1..n : b[j] = all[j]
  OBVIOUS
<1> HIDE DEF b, n
<1> SUFFICES ASSUME NEW i \in 1..(n + 1), NEW t \in Topics
             PROVE  Cardinality(Hits(b, t, i, i + RecentTopics)) <= Repeats
  BY <1>1 DEF Spaced, b
<1> DEFINE H == Hits(b, t, i, i + RecentTopics)
           O == Hits(all, t, i, i + RecentTopics)
<1>2. IsFiniteSet(O) /\ Cardinality(O) \in Nat
  BY <1>0, HitsFinite
<1>3. i \in 1..n => Cardinality(O) <= Repeats BY <1>1 DEF Spaced
<1>4. CASE i \in 1..n /\ (t # x \/ i + RecentTopics < n + 1)
  <2>1. H = O BY <1>0, <1>1, <1>4 DEF Hits
  <2> QED BY <1>3, <1>4, <2>1
<1>5. CASE i \in 1..n /\ t = x /\ i + RecentTopics >= n + 1
  <2> DEFINE P == Hits(all, x, i, n)
  <2>1. H = P \cup {n + 1}
    <3>1. \A j \in 1..n : j <= i + RecentTopics BY <1>0, <1>5
    <3> QED BY <1>0, <1>1, <1>5, <3>1 DEF Hits
  <2>2. IsFiniteSet(P) /\ Cardinality(P) \in Nat BY <1>0, HitsFinite
  <2>3. n + 1 \notin P BY <1>0 DEF Hits
  <2>4. Cardinality(P) <= Cardinality({k \in DOMAIN u : u[k] = x})
    <3>1. i \in Int /\ i > n - RecentTopics BY <1>0, <1>5
    <3> QED BY <3>1, FilterSees DEF n
  <2>5. Cardinality({k \in DOMAIN u : u[k] = x}) \in Nat
    <3>1. IsFiniteSet(1..Len(u)) BY FS_Interval
    <3>2. {k \in DOMAIN u : u[k] = x} \subseteq 1..Len(u) OBVIOUS
    <3> QED BY <3>1, <3>2, FS_Subset, FS_CardinalityType
  <2> HIDE DEF P
  <2>6. Cardinality(H) = Cardinality(P) + 1 BY <2>1, <2>2, <2>3, FS_AddElement
  <2> QED BY <1>0, <2>2, <2>4, <2>5, <2>6
<1>6. CASE i = n + 1
  <2>1. H \subseteq {n + 1} BY <1>0, <1>1, <1>6 DEF Hits
  <2>2. Cardinality(H) <= 1
    <3>1. IsFiniteSet({n + 1}) /\ Cardinality({n + 1}) = 1 BY FS_Singleton
    <3> QED BY <2>1, <3>1, FS_Subset
  <2>3. Cardinality(H) \in Nat
    <3>1. IsFiniteSet(H) BY <2>1, FS_Singleton, FS_Subset
    <3> QED BY <3>1, FS_CardinalityType
  <2> QED BY <1>0, <2>2, <2>3
<1> QED BY <1>0, <1>4, <1>5, <1>6

(* The window moves on when the last thought is remembered.                *)
LEMMA WindowMoves ==
  ASSUME NEW all \in Seq(Topics), NEW u \in Seq(Topics), NEW x \in Topics, NEW v,
         Len(all) > 0, Window(u, all, Len(all) - 1), all[Len(all)] = x,
         v = Latest(Append(u, x), RecentTopics)
  PROVE  Window(v, all, Len(all))
<1>0. RecentTopics \in Nat \ {0} BY Limits
<1>1. v \in Seq(Topics) /\ Cut(v, u, x, RecentTopics) BY <1>0, LatestAppend
<1>a. PICK l \in Nat : l = Len(v) BY <1>1
<1>b. PICK k \in Nat : k = Len(u) OBVIOUS
<1>c. PICK n \in Nat : n = Len(all) - 1 OBVIOUS
<1>2. l = Len(v) /\ k = Len(u) /\ n = Len(all) - 1 /\ n + 1 = Len(all)
  <2>1. Len(all) \in Nat OBVIOUS
  <2> QED BY <1>a, <1>b, <1>c, <2>1
<1>3. /\ k = (IF n > RecentTopics THEN RecentTopics ELSE n)
      /\ \A i \in 1..k : i + (n - k) \in 1..n /\ u[i] = all[i + (n - k)]
  <2>1. Window(u, all, n) BY <1>2
  <2>2. DOMAIN u = 1..k BY <1>2
  <2>3. k = Len(u) BY <1>2
  <2> QED BY <2>1, <2>2, <2>3 DEF Window
<1>4. /\ l = (IF k + 1 > RecentTopics THEN RecentTopics ELSE k + 1) /\ v[l] = x
      /\ \A i \in 1..(l - 1) : i + (k + 1 - l) \in 1..k /\ v[i] = u[i + (k + 1 - l)]
  BY <1>1, <1>2 DEF Cut
<1>5. l = IF n + 1 > RecentTopics THEN RecentTopics ELSE n + 1 BY <1>0, <1>3, <1>4
<1>6. ASSUME NEW i \in 1..l
      PROVE  i + (n + 1 - l) \in 1..(n + 1) /\ v[i] = all[i + (n + 1 - l)]
  <2>1. CASE i = l
    <3>1. i + (n + 1 - l) = n + 1 BY <2>1
    <3> QED BY <1>2, <1>4, <2>1, <3>1
  <2>2. CASE i # l
    <3>1. i \in 1..(l - 1) BY <2>2
    <3>2. i + (k + 1 - l) \in 1..k /\ v[i] = u[i + (k + 1 - l)] BY <1>4, <3>1
    <3>3. u[i + (k + 1 - l)] = all[(i + (k + 1 - l)) + (n - k)] BY <1>3, <3>2
    <3>4. (i + (k + 1 - l)) + (n - k) = i + (n + 1 - l) OBVIOUS
    <3>5. i + (n + 1 - l) \in 1..(n + 1) BY <1>5, <3>1
    <3> QED BY <3>2, <3>3, <3>4, <3>5
  <2> QED BY <2>1, <2>2
<1>7. DOMAIN v = 1..l BY <1>1, <1>2
<1>8. Window(v, all, n + 1)
  <2>1. PICK e \in Nat : e = n + 1 OBVIOUS
  <2>2. e \in Nat /\ Len(v) = IF e > RecentTopics THEN RecentTopics ELSE e
    BY <1>2, <1>5, <2>1
  <2>3. ASSUME NEW i \in DOMAIN v
        PROVE  i + (e - Len(v)) \in 1..e /\ v[i] = all[i + (e - Len(v))]
    <3>1. i \in 1..l /\ Len(v) = l BY <1>2, <1>7
    <3>2. i + (e - l) \in 1..e /\ v[i] = all[i + (e - l)] BY <1>6, <2>1, <3>1
    <3> QED BY <3>1, <3>2
  <2>4. Window(v, all, e) BY <2>2, <2>3, Zenon DEF Window
  <2> QED BY <2>1, <2>4
<1> QED BY <1>2, <1>8

-----------------------------------------------------------------------------
LEMMA AllSteps ==
  ASSUME TypeOK
  PROVE  /\ All \in Seq(Topics)
         /\ \A t \in Topics : seen \o Append(queue, t) = Append(All, t)
         /\ (seen \o queue) \o <<>> = All
<1>1. seen \in Seq(Topics) /\ queue \in Seq(Topics) BY DEF TypeOK
<1> QED BY <1>1 DEF All

LEMMA InitRemembered == Init => Remembered /\ Spaced(All)
<1> SUFFICES ASSUME Init PROVE Remembered /\ Spaced(All) OBVIOUS
<1>1. pc = "rest" /\ recent = <<>> /\ All = <<>> BY DEF Init, All
<1>2. Window(<<>>, <<>>, 0) BY Limits DEF Window
<1> QED BY <1>1, <1>2 DEF Remembered, Judged, Spaced

(* Clients draining the queue change nothing, a thought that is put into   *)
(* it has passed the filter, and the filter remembers it before the next.  *)
LEMMA RememberedStep ==
  ASSUME IInv, Remembered, Spaced(All), [Next]_vars PROVE Remembered' /\ Spaced(All)'
<1>0. /\ TypeOK /\ seen \in Seq(Topics) /\ queue \in Seq(Topics) /\ recent \in Seq(Topics)
      /\ said \in Topics /\ All \in Seq(Topics)
  BY AllSteps DEF IInv, TypeOK
<1>1. ASSUME All' = All, recent' = recent, pc' # "track", pc # "track"
      PROVE  Remembered' /\ Spaced(All)'
  BY <1>1 DEF Remembered, Judged
<1>2. ASSUME UNCHANGED <<seen, queue, recent>>, pc' # "track", pc # "track"
      PROVE  Remembered' /\ Spaced(All)'
  BY <1>1, <1>2 DEF All
<1>3. ASSUME NEW p \in {"rest", "gut", "queue"}, SaveThen(p) \/ SaveIfPopped(p)
      PROVE  pc' # "track"
  BY <1>3 DEF SaveThen, SaveIfPopped
<1>4. CASE BeatOn \/ BeatPop \/ BeatNew \/ Sample \/ EndBeat \/ Fail
  BY <1>2, <1>4 DEF BeatOn, BeatPop, BeatNew, Sample, EndBeat, Fail
<1>5. CASE SampleNothing \/ Resolve \/ Drop
  BY <1>2, <1>3, <1>5 DEF SampleNothing, Resolve, Drop
<1>6. ASSUME NEW t \in Topics, First(t) PROVE Remembered' /\ Spaced(All)'
  BY <1>2, <1>3, <1>6 DEF First
<1>7. ASSUME NEW t \in Topics, NEW flat \in BOOLEAN, Further(t, flat)
      PROVE  Remembered' /\ Spaced(All)'
  BY <1>2, <1>3, <1>7 DEF Further
<1>8. CASE Put
  <2>1. /\ ~(Cardinality({k \in DOMAIN recent : recent[k] = said}) >= Repeats)
        /\ pc = "queue" /\ pc' = "track" /\ recent' = recent /\ said' = said
        /\ seen' = seen /\ queue' = Append(queue, said)
    BY <1>8 DEF Put, Repetitive
  <2>2. All' = Append(All, said) BY <1>0, <2>1, AllSteps DEF All
  <2>3. Window(recent, All, Len(All)) BY <2>1 DEF Remembered, Judged
  <2>4. Spaced(All)' BY <1>0, <2>1, <2>2, <2>3, SpacedGrows
  <2>5. /\ Len(All') - 1 = Len(All) /\ All'[Len(All')] = said
        /\ \A j \in 1..Len(All) : All'[j] = All[j]
    BY <1>0, <2>2
  <2>6. Window(recent, All', Len(All)) BY <2>3, <2>5 DEF Window
  <2> QED BY <2>1, <2>4, <2>5, <2>6 DEF Remembered, Judged
<1>9. CASE Track
  <2>1. /\ pc = "track" /\ recent' = Latest(Append(recent, said), RecentTopics)
        /\ seen' = seen /\ queue' = queue /\ pc' # "track"
    BY <1>3, <1>9 DEF Track
  <2>2. All' = All BY <2>1 DEF All
  <2>3. Window(recent, All, Len(All) - 1) /\ All[Len(All)] = said
    BY <2>1 DEF Remembered, Judged
  <2>4. Len(All) > 0
    <3>1. Len(All) - 1 \in Nat /\ Len(All) \in Nat BY <1>0, <2>3 DEF Window
    <3> QED BY <3>1
  <2>5. Window(recent', All, Len(All)) BY <1>0, <2>1, <2>3, <2>4, WindowMoves
  <2> QED BY <2>1, <2>2, <2>5 DEF Remembered, Judged
<1>10. CASE Drain
  <2>1. seen' = seen \o queue /\ queue' = <<>> /\ pc' = pc /\ recent' = recent /\ said' = said
    BY <1>10 DEF Drain
  <2>2. All' = All BY <1>0, <2>1, AllSteps DEF All
  <2> QED BY <2>1, <2>2 DEF Remembered, Judged
<1>11. CASE Restart
  <2>1. pc' = "rest" /\ recent' = <<>> /\ All' = <<>> BY <1>11 DEF Restart, All
  <2>2. Window(<<>>, <<>>, 0) BY Limits DEF Window
  <2> QED BY <2>1, <2>2 DEF Remembered, Judged, Spaced
<1>12. CASE UNCHANGED vars BY <1>12 DEF vars, Remembered, Judged, All
<1> QED
  BY <1>4, <1>5, <1>6, <1>7, <1>8, <1>9, <1>10, <1>11, <1>12 DEF Next, Heartbeat

(* Among RecentTopics + 1 thoughts in a row that clients get between two   *)
(* restarts no topic is found more than Repeats times: for any limits, and *)
(* however draining interleaves with the awaits between queueing a thought *)
(* and remembering its topic.                                              *)
THEOREM ThoughtsSpaced == Spec => []NoRepetition
<1>1. IInv /\ Remembered /\ Spaced(All) /\ [Next]_vars => (Remembered /\ Spaced(All))'
  BY RememberedStep
<1>2. Spaced(All) => NoRepetition BY DEF Spaced, Hits, NoRepetition, All
<1> QED BY <1>1, <1>2, InitIInv, NextIInv, InitRemembered, PTL DEF Spec
=============================================================================
