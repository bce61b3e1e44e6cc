---------------------------- MODULE MCScheduler ----------------------------
(* Instances of Scheduler for TLC.                                         *)
EXTENDS Scheduler

\* Minutes 1 and 2 show the same wall clock: the repeated hour.
MCWall == [t \in Times |-> IF t <= 1 THEN t ELSE t - 1]

\* A plan on the repeated hour and after, one that shares its workload, and
\* two on workloads of their own; the fifth does not parse.
MCCron == <<{1, 2, 4}, {1}, {1}, {2}, {1}>>
MCWorkload == <<"a", "a", "b", "c", "d">>

\* A plan with slots on both sides of an outage.
MCCronOne == <<{1, 3}>>
MCWorkloadOne == <<"a">>

\* Every request is for the first plan.
MCAsks == [c \in Clients |-> 1]

=============================================================================
