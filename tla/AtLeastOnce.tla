---------------------------- MODULE AtLeastOnce ----------------------------
(***************************************************************************)
(* What a write-ahead queue of outbound messages promises its callers: a   *)
(* message it has accepted is owed until every part of it went out or the  *)
(* queue gave it up, openly.  Parts may go out more than once, and a       *)
(* settled message may be owed again: it is at least once, not exactly     *)
(* once.  The promise does not cover a message for which the caller asked  *)
(* for best effort, nor one whose first sending was cut off by a timeout:  *)
(* these may be dropped with parts missing.                                *)
(***************************************************************************)
CONSTANTS Messages,  \* the messages callers may hand over
          Parts      \* the parts of a message, sent one by one

VARIABLES owed,      \* the messages the queue is still responsible for
          out,       \* the parts that went out, for each message
          givenUp,   \* the messages given up openly (parked or aborted)
          droppable, \* the messages handed over for best effort only
          cutOff     \* the messages whose first sending timed out
vars == <<owed, out, givenUp, droppable, cutOff>>

Init ==
  /\ owed = {} /\ out = [m \in Messages |-> {}]
  /\ givenUp = {} /\ droppable = {} /\ cutOff = {}

\* The caller may ask for best effort only as long as nothing happened.
Mode(m) ==
  \/ UNCHANGED droppable
  \/ out[m] = {} /\ m \notin owed /\ droppable' = droppable \cup {m}

\* The caller hands a message over; the queue need not take it.
Offer(m) == Mode(m) /\ UNCHANGED <<owed, out, givenUp, cutOff>>

\* The queue takes responsibility, for the first time or again.
Owe(m) == Mode(m) /\ owed' = owed \cup {m} /\ UNCHANGED <<out, givenUp, cutOff>>

\* A part goes out, whether or not it was already out.
Out(m, p) == out' = [out EXCEPT ![m] = @ \cup {p}]
Transmit(m, p) == Out(m, p) /\ UNCHANGED <<owed, givenUp, droppable, cutOff>>

\* The first sending of a message ends in a timeout; the part that was on
\* its way may be out.
CutOff(m) ==
  /\ cutOff' = cutOff \cup {m}
  /\ UNCHANGED out \/ \E p \in Parts : Out(m, p)
  /\ UNCHANGED <<owed, givenUp, droppable>>

\* A caller withdraws a message.
Withdraw(m) ==
  givenUp' = givenUp \cup {m} /\ UNCHANGED <<owed, out, droppable, cutOff>>

\* The queue parks a message it could not deliver.
Park(m) ==
  /\ m \in owed
  /\ owed' = owed \ {m} /\ givenUp' = givenUp \cup {m}
  /\ UNCHANGED <<out, droppable, cutOff>>

\* The queue lets go of a message: a protected one only when nothing of it
\* is missing.
Settle(m) ==
  /\ m \in owed
  /\ out[m] = Parts \/ m \in givenUp \cup droppable \cup cutOff
  /\ owed' = owed \ {m} /\ UNCHANGED <<out, givenUp, droppable, cutOff>>

Next == \E m \in Messages :
          \/ Offer(m) \/ Owe(m) \/ CutOff(m) \/ Withdraw(m) \/ Park(m) \/ Settle(m)
          \/ \E p \in Parts : Transmit(m, p)

Spec == Init /\ [][Next]_vars
=============================================================================
