--------------------------- MODULE MCCronService ---------------------------
(* Small instances of CronService, and of the arithmetic of CronSchedule. *)
EXTENDS CronService, CronSchedule

CONSTANTS everyJob, onceJob
Kinds == [j \in Jobs |-> IF j = everyJob THEN "every" ELSE "once"]

\* The first occurrence that is not past; the anchor only before it comes.
FirstFrom(everyMs, anchorMs, nowMs) ==
  LET Later == {n \in nowMs..(nowMs + 20) : \E k \in 0..nowMs + 20 :
                  n = Occurrence(everyMs, anchorMs, k) /\ (k = 0 => nowMs < n)}
  IN CHOOSE n \in Later : \A m \in Later : n <= m

ASSUME SchedulesAssumption ==
  \A everyMs \in -1..4, anchorMs \in -2..6, nowMs \in 0..14 :
    /\ NextEvery(everyMs, anchorMs, nowMs) = FirstFrom(everyMs, anchorMs, nowMs)
    /\ NextIsToCome(everyMs, anchorMs, nowMs)
=============================================================================
