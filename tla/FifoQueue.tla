----------------------------- MODULE FifoQueue -----------------------------
(***************************************************************************)
(* What a queue of messages promises as long as it is let alone: messages  *)
(* are numbered as they come and join the line at its end, or are refused  *)
(* at once if the line is full; the front of the line is served, one       *)
(* message or several together, and leaves it with that.  Once the line    *)
(* has been disturbed, nothing is promised any more.                       *)
(***************************************************************************)
EXTENDS Naturals, Sequences

CONSTANT Full       \* the length at which messages may be refused

VARIABLES line,     \* the waiting messages
          came,     \* how many messages came
          served, refused,
          disturbed
vars == <<line, came, served, refused, disturbed>>

Init ==
  /\ line = <<>> /\ came = 0
  /\ served = {} /\ refused = {} /\ disturbed = FALSE

Join ==
  /\ came' = came + 1 /\ line' = Append(line, came')
  /\ UNCHANGED <<served, refused>>

Refuse ==
  /\ Len(line) >= Full
  /\ came' = came + 1 /\ refused' = refused \cup {came'}
  /\ UNCHANGED <<line, served>>

Serve ==
  \E k \in 1..Len(line) :
    /\ served' = served \cup {line[i] : i \in 1..k}
    /\ line' = SubSeq(line, k + 1, Len(line))
    /\ UNCHANGED <<came, refused>>

Next ==
  \/ ~disturbed /\ (Join \/ Refuse \/ Serve) /\ UNCHANGED disturbed
  \/ disturbed' = TRUE

Spec == Init /\ [][Next]_vars
=============================================================================
