--------------------------- MODULE CronSchedule ---------------------------
(***************************************************************************)
(* The arithmetic of the jobs that recur every so many milliseconds: when  *)
(* such a job runs next, counted from its anchor.  CronService counts a    *)
(* job's occurrences instead of milliseconds; what is proved here says     *)
(* when that is right.                                                     *)
(***************************************************************************)
EXTENDS Integers

AtLeast(low, n) == IF n < low THEN low ELSE n

\* The period and the anchor (or createdAtMs) as they are used, whatever number was
\* configured; Math.floor has made it whole.
Period(everyMs) == AtLeast(1, everyMs)
Anchor(anchorMs) == AtLeast(0, anchorMs)

Steps(elapsed, every) == AtLeast(1, (elapsed + every - 1) \div every)

\* computeNextRunAtMs of a schedule of kind "every"
NextEvery(everyMs, anchorMs, nowMs) ==
  LET every == Period(everyMs)
      anchor == Anchor(anchorMs)
  IN IF nowMs < anchor THEN anchor ELSE anchor + Steps(nowMs - anchor, every) * every

-----------------------------------------------------------------------------
\* The occurrences of a schedule, and the last of them that has come.
Occurrence(everyMs, anchorMs, k) == Anchor(anchorMs) + k * Period(everyMs)
LastCome(everyMs, anchorMs, nowMs) == (nowMs - Anchor(anchorMs)) \div Period(everyMs)

\* A job that ends in the very millisecond of an occurrence.
OnTheDot(everyMs, anchorMs, nowMs) ==
  \E k \in 1..nowMs : nowMs = Occurrence(everyMs, anchorMs, k)

\* What CronService takes for granted: the next run is the first occurrence that
\* has not come, but for OnTheDot, where it is the one that has just come.
NextIsToCome(everyMs, anchorMs, nowMs) ==
  LET k == LastCome(everyMs, anchorMs, nowMs) IN
  NextEvery(everyMs, anchorMs, nowMs) =
    IF nowMs < Anchor(anchorMs) THEN Anchor(anchorMs)
    ELSE Occurrence(everyMs, anchorMs, IF OnTheDot(everyMs, anchorMs, nowMs) THEN k ELSE k + 1)
=============================================================================
