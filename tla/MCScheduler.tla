----------------------------- MODULE MCScheduler -----------------------------
(* Instances of Scheduler for TLC. *)
EXTENDS Scheduler

\* The clocks go forward over this time of a day.
DailyAtOne == {[time |-> 1, weekdays |-> 1 .. 7]}

\* Mondays; the clocks skip its time on the second Monday.
Weekly == {[time |-> 1, weekdays |-> {1}]}
=============================================================================
