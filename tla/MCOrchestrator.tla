--------------------------- MODULE MCOrchestrator ---------------------------
(* Two jobs on a deployment of two parties. *)
EXTENDS Orchestrator

MCN == 2

\* A mesh of two, of one, too few parties for the threshold, no number, no program.
Ask(p, t) == [parties |-> p, threshold |-> t, numeric |-> TRUE, uploaded |-> TRUE]
MCRequests == {Ask(2, 0), Ask(1, 0), Ask(2, 1), [Ask(2, 0) EXCEPT !.numeric = FALSE],
               [Ask(2, 0) EXCEPT !.uploaded = FALSE]}
=============================================================================
