--------------------------- MODULE IdeaPartition ---------------------------
(***************************************************************************)
(* What merging memories promises of the ideas in them.  An idea that was  *)
(* stored has one home, a memory that speaks for it.  Two homes may be     *)
(* joined, with all the ideas that are at home in them; joining never      *)
(* parts ideas and leaves none without a home.  Only who deletes a memory  *)
(* parts the ideas that had come to it from the others of its home.        *)
(***************************************************************************)
EXTENDS Naturals

CONSTANT Ideas

VARIABLES known,    \* the ideas that were stored
          deleted,  \* those whose memory the user has deleted
          home      \* of an idea: the memory that speaks for it
vars == <<known, deleted, home>>

AtHome(a) == {k \in Ideas : home[k] = a}

Init ==
  /\ known = {} /\ deleted = {}
  /\ home = [k \in Ideas |-> k]

New(k) ==
  /\ k \notin known
  /\ known' = known \cup {k}
  /\ UNCHANGED <<deleted, home>>

\* All that is at home in a moves to b.
Join(a, b) ==
  /\ a \in known \ deleted /\ b \in known /\ a # b
  /\ home[a] = a /\ home[b] = b
  /\ home' = [k \in Ideas |-> IF home[k] = a THEN b ELSE home[k]]
  /\ UNCHANGED <<known, deleted>>

\* The memory of idea m is deleted, and keeps the ideas S that came to it.
Delete(m, S) ==
  /\ m \in known \ deleted /\ deleted' = deleted \cup {m}
  /\ m \in S /\ S \subseteq AtHome(home[m])
  /\ IF home[m] = m THEN S = AtHome(m) ELSE home[m] \notin S
  /\ home' = [k \in Ideas |-> IF k \in S THEN m ELSE home[k]]
  /\ UNCHANGED known

Next ==
  \/ \E k \in Ideas : New(k)
  \/ \E a, b \in Ideas : Join(a, b)
  \/ \E m \in Ideas, S \in SUBSET Ideas : Delete(m, S)

Spec == Init /\ [][Next]_vars
=============================================================================
