------------------------------ MODULE MCOutbox ------------------------------
(* A small instance of Outbox.                                             *)
EXTENDS Outbox, TLC

CONSTANTS r1, r2, k1, h1, h2

P(on, push, quiet) == [on |-> on, push |-> push, quiet |-> quiet]
PushAll == P(TRUE, {"urgent", "other"}, TRUE)
Users == {PushAll, P(TRUE, {"urgent"}, TRUE), P(FALSE, {"urgent"}, TRUE)}

(* Two users share the run.  The steady one has everything pushed, never   *)
(* changes that and asks for no prompt: rows compete for the worker's      *)
(* LIMIT, and two reminders for the tick's, or one and a milestone.  The   *)
(* other one switches notifications off and on while two producers, one    *)
(* after the other, fill his outbox and two handlers (a lone one is h1)    *)
(* assemble his prompts; they pause while the worker is in its loop, whose *)
(* rows are of the other channel.                                          *)
Steady == prefs = PushAll
Milestoned == cur = k1 \/ told[k1] # "nothing"
UserNext ==
  /\ Next
  /\ Steady <=> Steady'
  /\ Steady => /\ hshow' = hshow /\ oseen' = oseen
               /\ remind'[r2] = remind[r2] \/ remind[r2] # "unset" \/ remind[r1] = "due"
               /\ remind'[r2] = "unset" \/ ~Milestoned'
               /\ live' = live \/ (remind'[r2] = "unset" /\ ~Milestoned')
  /\ ~Steady => /\ remind'[r2] = "unset" /\ ~Milestoned' /\ status'[3] = "none"
                /\ hshow[h1] # {} \/ hshow'[h2] \subseteq hshow[h2]
                /\ wpc' \notin {"loop", "mark"} \/ UNCHANGED handlers
                /\ live' = live /\ (oseen' = "off" \/ tpc' = "idle")

UserSpec ==
  Init /\ [][UserNext]_vars /\ WF_vars(Tick) /\ WF_vars(Round) /\ WF_vars(Clock)
=============================================================================
