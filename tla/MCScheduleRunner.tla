--------------------------- MODULE MCScheduleRunner ---------------------------
(* Small instances of the schedule runner for TLC.                          *)
EXTENDS ScheduleRunner, TLC

CONSTANTS i1, i2, s1, s2

\* A cron expression that matches every minute but the first.
EverySlot == 1..MaxTime

\* Instances are interchangeable.
MCSymmetry == Permutations(Instances)
=============================================================================
