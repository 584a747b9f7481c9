--------------------------- MODULE MCCronScheduler ---------------------------
(***************************************************************************)
(* Small instances of CronScheduler.                                       *)
(***************************************************************************)
EXTENDS CronScheduler, TLC

CONSTANTS hourly, daily, junk \* cron expressions; `junk` does not parse
CONSTANTS r1, r2, c1          \* executeScheduledJob goroutines, an API update

(* Runs are interchangeable.                                               *)
MCSymmetry == Permutations(Runs)
=============================================================================
