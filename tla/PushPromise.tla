---------------------------- MODULE PushPromise ----------------------------
(***************************************************************************)
(* What an outbox promises of the messages it pushes.  A message is handed *)
(* over once; its row is closed once, with what came of the last attempt,  *)
(* or because nobody tried in time; a closed row is neither sent nor       *)
(* opened.  A message goes out again only if something failed after it     *)
(* had gone out, and it goes out without the outbox knowing only if the    *)
(* answer itself is what failed.                                           *)
(***************************************************************************)
EXTENDS Naturals

CONSTANT Messages

VARIABLES phase,    \* of a message: what its row and the attempt at hand say
          out,      \* how often it went out
          failures  \* how often anything failed
vars == <<phase, out, failures>>

Phases == {"none", "open", "sent", "refused", "delivered", "failed", "expired"}

Init ==
  /\ phase = [m \in Messages |-> "none"]
  /\ out = [m \in Messages |-> 0] /\ failures = 0

Move(m, a, b) == phase[m] = a /\ phase' = [phase EXCEPT ![m] = b]
GoesOut(m) == out' = [out EXCEPT ![m] = @ + 1]

Accept(m) == Move(m, "none", "open") /\ UNCHANGED <<out, failures>>
Send(m) == Move(m, "open", "sent") /\ GoesOut(m) /\ UNCHANGED failures
Refuse(m) == Move(m, "open", "refused") /\ UNCHANGED <<out, failures>>

\* The message goes out, but the answer that says so is lost.
Misjudge(m) == Move(m, "open", "refused") /\ GoesOut(m) /\ failures' = failures + 1

\* The row is closed as the attempt ended.
Close(m) ==
  /\ Move(m, "sent", "delivered") \/ Move(m, "refused", "failed")
  /\ UNCHANGED <<out, failures>>

\* Several rows that nobody is trying to send expire at once.
Expire(S) ==
  /\ \A m \in S : phase[m] = "open"
  /\ phase' = [m \in Messages |-> IF m \in S THEN "expired" ELSE phase[m]]
  /\ UNCHANGED <<out, failures>>

\* Something fails; attempts S that have ended are forgotten.
Lapse(S) ==
  /\ \A m \in S : phase[m] \in {"sent", "refused"}
  /\ phase' = [m \in Messages |-> IF m \in S THEN "open" ELSE phase[m]]
  /\ failures' = failures + 1 /\ UNCHANGED out

Next ==
  \/ \E m \in Messages : Accept(m) \/ Send(m) \/ Refuse(m) \/ Misjudge(m) \/ Close(m)
  \/ \E S \in SUBSET Messages : Expire(S) \/ Lapse(S)

Spec == Init /\ [][Next]_vars
=============================================================================
