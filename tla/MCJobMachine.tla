---------------------------- MODULE MCJobMachine ----------------------------
(* Two jobs on a mesh of two parties: job a uses one party, job b both.  With  *)
(* thresholds above 0 a run would need three parties for each job; ValidSize   *)
(* only decides who is rejected, and job c is (threshold 1 on two parties).    *)
EXTENDS JobMachine

CONSTANTS a, b, c

SmallAndLarge == [j \in Jobs |-> IF j = a THEN 1 ELSE 2]
OnlyCTooHigh == [j \in Jobs |-> IF j = c THEN 1 ELSE 0]
=============================================================================
