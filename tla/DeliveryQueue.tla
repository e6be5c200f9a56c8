--------------------------- MODULE DeliveryQueue ---------------------------
(***************************************************************************)
(* The write-ahead queue of outbound messages of the gateway               *)
(* (infra/outbound/delivery-queue.ts and deliverOutboundPayloads of        *)
(* infra/outbound/deliver.ts).  A call of deliverOutboundPayloads writes   *)
(* the message to a file, sends its payloads one by one, and removes the   *)
(* file or counts a failed try in it.  recoverPendingDeliveries, launched  *)
(* without being awaited whenever the gateway starts, takes a snapshot of  *)
(* the files and sends what it found.                                      *)
(*                                                                         *)
(* A worker is one call in flight: a delivery itself (its first, live,     *)
(* attempt) or a recovery.  Both run the same core.  An await is the end   *)
(* of a step.  Times are in units of five seconds.                         *)
(***************************************************************************)
EXTENDS Naturals, Sequences, FiniteSets

CONSTANTS
  Deliveries,  \* the calls of deliverOutboundPayloads
  NPayloads,   \* how many payloads each of them carries
  Recoveries,  \* recoveries that can be under way at the same time
  Budgets,     \* the values of maxRecoveryMs (60 s = 12 when not given)
  Backoff,     \* BACKOFF_MS: the delay before each retry
  MaxRetries,  \* MAX_RETRIES
  MaxFaults    \* bound: crashes and disk errors in a behaviour

ASSUME DeliveryAssumption ==
  /\ NPayloads \in Nat \ {0} /\ MaxRetries \in Nat /\ MaxFaults \in Nat
  /\ Budgets \subseteq Nat /\ Backoff \in Seq(Nat) /\ Backoff # <<>>
  /\ IsFiniteSet(Deliveries) /\ Deliveries \cap Recoveries = {}

VARIABLES
  queued,     \* the deliveries with a file in the queue directory
  retry,      \* the retryCount in that file
  failedDir,  \* the deliveries with a file in failed/
  enqueuedAt, \* when a delivery was written; 0: it never was
  bestEffort, \* the deliveries called with bestEffort, also in the file
  worker,     \* the state of every call in flight
  todo,       \* what a recovery still has before it: its snapshot
  left,       \* the time left to a recovery before its deadline
  up,         \* the gateway runs
  faults,     \* crashes and disk errors so far
  sent,       \* history: payloads the channel took or a hook cancelled
  aborted,    \* history: deliveries whose caller aborted them
  cut         \* history: deliveries whose own call ended in a timed-out send
disk == <<queued, retry, failedDir, enqueuedAt>>
recovery == <<todo, left>>
history == <<sent, aborted, cut>>
vars == <<disk, bestEffort, worker, recovery, up, faults, history>>

Workers == Deliveries \cup Recoveries
Payloads == 1..NPayloads

\* mutant of ComputeBackoff: the longest delay first
ComputeBackoffLongest(n) == Backoff[IF n < Len(Backoff) THEN Len(Backoff) ELSE n]

\* The delay before the retry with this (1-based) number.
ComputeBackoff(n) == Backoff[IF n > Len(Backoff) THEN Len(Backoff) ELSE n]

\* d: the delivery at hand; k: its next payload; bad: how many of them
\* failed so far; id: it has a file (queueId # null); tell: the caller gave
\* onError; read: the retryCount failDelivery found.
Rest(w, pc) == [pc |-> pc, d |-> w, k |-> 1, bad |-> 0, id |-> FALSE,
                tell |-> FALSE, read |-> 0]

Init ==
  /\ queued = {} /\ retry = [d \in Deliveries |-> 0] /\ failedDir = {}
  /\ enqueuedAt = [d \in Deliveries |-> 0] /\ bestEffort = {}
  /\ worker = [w \in Workers |-> Rest(w, "idle")]
  /\ todo = [r \in Recoveries |-> <<>>] /\ left = [r \in Recoveries |-> 0]
  /\ up = FALSE /\ faults = 0
  /\ sent = [d \in Deliveries |-> {}] /\ aborted = {} /\ cut = {}

Written == {d \in Deliveries : enqueuedAt[d] > 0}
IsLive(w) == w \in Deliveries
At(w, pc) == worker[w].pc = pc
Go(w, pc) == worker' = [worker EXCEPT ![w].pc = pc]
\* The call is over: a recovery goes on with its next entry.
Return(w) ==
  worker' = [worker EXCEPT ![w] = Rest(w, IF IsLive(w) THEN "over" ELSE "loop")]
\* The sends are over: without a file there is nothing to settle.
Settle(w, pc) ==
  IF IsLive(w) /\ ~worker[w].id THEN Return(w) ELSE Go(w, pc)
Fault == faults < MaxFaults /\ faults' = faults + 1

-----------------------------------------------------------------------------
(* deliverOutboundPayloads: the write-ahead part *)

\* The call begins, with or without bestEffort and then onError.
Begin(d, hasFile) ==
  /\ up /\ At(d, "idle")
  /\ \E best, tell \in BOOLEAN :
       /\ tell => best
       /\ bestEffort' = IF best THEN bestEffort \cup {d} ELSE bestEffort
       /\ worker' = [worker EXCEPT ![d].pc = "sending", ![d].id = hasFile,
                                   ![d].tell = tell]

\* enqueueDelivery: the file is there once it has been renamed.
Enqueue(d) ==
  /\ Begin(d, TRUE)
  /\ queued' = queued \cup {d}
  /\ enqueuedAt' = [enqueuedAt EXCEPT ![d] = Cardinality(Written) + 1]
  /\ UNCHANGED <<retry, failedDir, recovery, up, faults, history>>

\* The file cannot be written: the message is sent all the same.
EnqueueError(d) ==
  /\ Begin(d, FALSE) /\ Fault
  /\ UNCHANGED <<disk, recovery, up, history>>

(* deliverOutboundPayloadsCore *)

Sending(w) == At(w, "sending") /\ worker[w].k <= NPayloads

\* The next payload goes out, or a message_sending hook cancels it.
SendOk(w) ==
  /\ Sending(w)
  /\ sent' = [sent EXCEPT ![worker[w].d] = @ \cup {worker[w].k}]
  /\ worker' = [worker EXCEPT ![w].k = @ + 1]
  /\ UNCHANGED <<disk, bestEffort, recovery, up, faults, aborted, cut>>

\* The channel may have taken the payload of a send that throws.
MaybeSent(w) ==
  \/ UNCHANGED sent
  \/ sent' = [sent EXCEPT ![worker[w].d] = @ \cup {worker[w].k}]

\* mutant of PayloadFails: an exception is settled as a success
PayloadFailsSilently(w) ==
  LET d == worker[w].d IN
  /\ Sending(w) /\ MaybeSent(w)
  /\ \/ /\ d \in bestEffort
        /\ worker' = [worker EXCEPT ![w].k = @ + 1, ![w].bad = @ + 1]
     \/ /\ d \notin bestEffort
        /\ Settle(w, "ack")
  /\ UNCHANGED <<disk, bestEffort, recovery, up, faults, aborted, cut>>

\* The next payload fails; with bestEffort the others follow all the same.
\* A recovery treats every exception alike, a timeout too.
PayloadFails(w) ==
  LET d == worker[w].d IN
  /\ Sending(w) /\ MaybeSent(w)
  /\ \/ /\ d \in bestEffort
        /\ worker' = [worker EXCEPT ![w].k = @ + 1, ![w].bad = @ + 1]
     \/ /\ d \notin bestEffort
        /\ Settle(w, "fail")
  /\ UNCHANGED <<disk, bestEffort, recovery, up, faults, aborted, cut>>

\* What throws outside the loop, with bestEffort too: the channel has no
\* handler, or the transcript of what was sent cannot be written.
CoreThrows(w) ==
  LET s == worker[w] IN
  /\ At(w, "sending")
  /\ s.k = 1 \/ (s.k = NPayloads + 1 /\ s.bad < NPayloads)
  /\ Settle(w, "fail")
  /\ UNCHANGED <<disk, bestEffort, recovery, up, faults, history>>

\* A live call without bestEffort takes any exception named AbortError for
\* an abort of its caller and removes the file.  One is thrown when the
\* caller's signal is seen before a payload ...
Abort(d) ==
  /\ Sending(d) /\ d \notin bestEffort
  /\ aborted' = aborted \cup {d} /\ Settle(d, "ack")
  /\ UNCHANGED <<disk, bestEffort, recovery, up, faults, sent, cut>>

\* ... and another by fetchWithTimeout, when the request that sends the next
\* payload takes too long: nobody withdrew the message.
TimesOut(d) ==
  /\ Sending(d) /\ d \notin bestEffort
  /\ MaybeSent(d)
  /\ cut' = cut \cup {d} /\ Settle(d, "ack")
  /\ UNCHANGED <<disk, bestEffort, recovery, up, faults, aborted>>

\* The core returns.  Only a live call with onError knows of failed payloads.
Resolve(w) ==
  LET known == worker[w].tell /\ worker[w].bad > 0 IN
  /\ At(w, "sending") /\ worker[w].k = NPayloads + 1
  /\ Settle(w, IF known THEN "fail" ELSE "ack")
  /\ UNCHANGED <<disk, bestEffort, recovery, up, faults, history>>

-----------------------------------------------------------------------------
(* Settling the file *)

Unlinked(d) == queued' = queued \ {d} /\ retry' = [retry EXCEPT ![d] = 0]

\* ackDelivery: a file that is gone already is fine.
Ack(w) ==
  /\ At(w, "ack")
  /\ Unlinked(worker[w].d) /\ Return(w)
  /\ UNCHANGED <<failedDir, enqueuedAt, bestEffort, recovery, up, faults, history>>

\* The file cannot be removed.  A live call ignores that; in a recovery it
\* counts as a failed delivery.
AckError(w) ==
  /\ At(w, "ack") /\ Fault
  /\ \/ IsLive(w) /\ Return(w)
     \/ ~IsLive(w) /\ Go(w, "fail")
  /\ UNCHANGED <<disk, bestEffort, recovery, up, history>>

\* failDelivery reads the file; if it is gone, the exception is swallowed.
FailRead(w) ==
  LET d == worker[w].d IN
  /\ At(w, "fail")
  /\ \/ d \in queued
        /\ worker' = [worker EXCEPT ![w].pc = "write", ![w].read = retry[d]]
     \/ d \notin queued /\ Return(w)
  /\ UNCHANGED <<disk, bestEffort, recovery, up, faults, history>>

\* mutant of FailWrite: after a failed try the file is removed
FailRemoves(w) ==
  LET d == worker[w].d IN
  /\ At(w, "write")
  /\ queued' = queued \ {d} /\ retry' = [retry EXCEPT ![d] = 0]
  /\ Return(w)
  /\ UNCHANGED <<failedDir, enqueuedAt, bestEffort, recovery, up, faults, history>>

\* ... and renames a new one over it, whether or not it is still there.
FailWrite(w) ==
  LET d == worker[w].d IN
  /\ At(w, "write")
  /\ queued' = queued \cup {d}
  /\ retry' = [retry EXCEPT ![d] = worker[w].read + 1]
  /\ Return(w)
  /\ UNCHANGED <<failedDir, enqueuedAt, bestEffort, recovery, up, faults, history>>

\* Reading or writing fails: a best-effort update.
FailError(w) ==
  /\ At(w, "fail") \/ At(w, "write")
  /\ Fault /\ Return(w)
  /\ UNCHANGED <<disk, bestEffort, recovery, up, history>>

-----------------------------------------------------------------------------
(* recoverPendingDeliveries *)

\* The gateway starts: after a crash, or again in the same process (SIGUSR1),
\* where the calls of before are still in flight.
Start(r, budget) ==
  /\ At(r, "idle") /\ Go(r, "load")
  /\ up' = TRUE
  /\ left' = [left EXCEPT ![r] = budget]
  /\ UNCHANGED <<disk, bestEffort, todo, faults, history>>

\* loadPendingDeliveries, oldest first.
Load(r) ==
  /\ At(r, "load") /\ Go(r, "loop")
  /\ \E found \in [1..Cardinality(queued) -> queued] :
       /\ \A i, j \in DOMAIN found : i < j => enqueuedAt[found[i]] < enqueuedAt[found[j]]
       /\ todo' = [todo EXCEPT ![r] =
                     [i \in DOMAIN found |-> [d |-> found[i], retry |-> retry[found[i]]]]]
  /\ UNCHANGED <<disk, bestEffort, left, up, faults, history>>

Pop(r) == todo' = [todo EXCEPT ![r] = Tail(@)]

\* The next entry has been tried too often: it goes to failed/.  If the file
\* is gone, the error is only logged.
MoveToFailed(r) ==
  LET d == Head(todo[r]).d IN
  /\ At(r, "loop") /\ todo[r] # <<>> /\ left[r] > 0
  /\ Head(todo[r]).retry >= MaxRetries
  /\ IF d \in queued
     THEN failedDir' = failedDir \cup {d} /\ Unlinked(d)
     ELSE UNCHANGED <<failedDir, queued, retry>>
  /\ Pop(r)
  /\ UNCHANGED <<enqueuedAt, bestEffort, worker, left, up, faults, history>>

\* The next entry is delivered, after its backoff and without a look at
\* whether its file is still there.  The delivery may take what is left of
\* the time; after the last entry nobody asks.
Retry(r) ==
  LET e == Head(todo[r])
      backoff == ComputeBackoff(e.retry + 1)
  IN
  /\ At(r, "loop") /\ todo[r] # <<>>
  /\ e.retry < MaxRetries /\ backoff < left[r]
  /\ \E spare \in {0, IF Len(todo[r]) = 1 THEN 0 ELSE left[r] - backoff} :
       left' = [left EXCEPT ![r] = spare]
  /\ worker' = [worker EXCEPT ![r] = [Rest(e.d, "sending") EXCEPT !.id = TRUE]]
  /\ Pop(r)
  /\ UNCHANGED <<disk, bestEffort, up, faults, history>>

\* The loop is over: nothing is left, or the budget does not cover the wait
\* before the next entry; it and all after it are left to the next start.
Stop(r) ==
  /\ At(r, "loop")
  /\ \/ todo[r] = <<>>
     \/ /\ todo[r] # <<>>
        /\ \/ left[r] = 0
           \/ /\ Head(todo[r]).retry < MaxRetries
              /\ ComputeBackoff(Head(todo[r]).retry + 1) >= left[r]
  /\ Go(r, "idle")
  /\ todo' = [todo EXCEPT ![r] = <<>>] /\ left' = [left EXCEPT ![r] = 0]
  /\ UNCHANGED <<disk, bestEffort, up, faults, history>>

\* The process dies: only the files stay.
Crash ==
  /\ up /\ Fault
  /\ up' = FALSE
  /\ worker' = [w \in Workers |->
       Rest(w, IF IsLive(w) /\ ~At(w, "idle") THEN "over" ELSE "idle")]
  /\ todo' = [r \in Recoveries |-> <<>>] /\ left' = [r \in Recoveries |-> 0]
  /\ UNCHANGED <<disk, bestEffort, history>>

-----------------------------------------------------------------------------
Deliver(d) == Enqueue(d) \/ EnqueueError(d) \/ Abort(d) \/ TimesOut(d)

\* What the event loop runs by itself: sends and their end, file operations.
Run(w) ==
  \/ SendOk(w) \/ PayloadFails(w) \/ CoreThrows(w) \/ Resolve(w)
  \/ Ack(w) \/ FailRead(w) \/ FailWrite(w)
Recover(r) == Load(r) \/ MoveToFailed(r) \/ Retry(r) \/ Stop(r)

Next ==
  \/ \E d \in Deliveries : Deliver(d)
  \/ \E w \in Workers : Run(w) \/ AckError(w) \/ FailError(w)
  \/ \E r \in Recoveries :
       Recover(r) \/ \E b \in Budgets : Start(r, b)
  \/ Crash

\* Every call ends, and the gateway is started again and again, with each of
\* the budgets.  Sends may fail for ever.
Fairness ==
  /\ \A w \in Workers : WF_vars(Run(w))
  /\ \A r \in Recoveries :
       WF_vars(Recover(r)) /\ \A b \in Budgets : SF_vars(Start(r, b))

Spec == Init /\ [][Next]_vars
FairSpec == Spec /\ Fairness

-----------------------------------------------------------------------------
Entry == [d : Deliveries, retry : Nat]

TypeOK ==
  /\ queued \subseteq Deliveries /\ failedDir \subseteq Deliveries
  /\ retry \in [Deliveries -> Nat] /\ enqueuedAt \in [Deliveries -> Nat]
  /\ bestEffort \subseteq Deliveries
  /\ worker \in [Workers -> [pc : {"idle", "load", "loop", "sending", "ack",
                                   "fail", "write", "over"},
                             d : Workers, k : 1..NPayloads + 1, bad : Nat,
                             id : BOOLEAN, tell : BOOLEAN, read : Nat]]
  /\ \A w \in Workers :
       worker[w].pc \in {"sending", "ack", "fail", "write"} => worker[w].d \in Deliveries
  /\ todo \in [Recoveries -> Seq(Entry)] /\ left \in [Recoveries -> Nat]
  /\ up \in BOOLEAN /\ faults \in 0..MaxFaults
  /\ sent \in [Deliveries -> SUBSET Payloads] /\ aborted \subseteq Deliveries
  /\ cut \subseteq Deliveries

\* A message that was written ahead, and is neither in the queue nor in
\* failed/ nor aborted, went out completely, whatever crashed, failed or
\* overlapped.  Two kinds of message are not protected: those sent with
\* bestEffort, and those whose own call ended in a timed-out send, which
\* deliver.ts:246 takes for an abort.
NothingLost ==
  \A d \in Written \ (bestEffort \cup cut \cup queued \cup failedDir \cup aborted) :
    sent[d] = Payloads

\* The queue implements the at-least-once promise, as far as it goes.
Promise == INSTANCE AtLeastOnce WITH
  Messages <- Deliveries, Parts <- Payloads, droppable <- bestEffort,
  owed <- queued, out <- sent, givenUp <- failedDir \cup aborted, cutOff <- cut
AtLeastOnceSpec == Promise!Spec

\* If the gateway is started again and again, every message leaves the
\* queue: sent, or parked after its retries (the doc comment at
\* delivery-queue.ts:212).
EveryEntrySettled == \A d \in Deliveries : d \in queued ~> d \notin queued
=============================================================================
