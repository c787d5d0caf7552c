---------------------------- MODULE MCCrossRegion ----------------------------
(* Three party regions and two runs. *)
EXTENDS CrossRegion

Size(p, t) == [parties |-> p, threshold |-> t]

\* All but the first are refused by app.py.
MCContexts == {Size(3, 1), Size(3, 0), Size(3, 2), Size(4, 1)}

\* All three parties, two of them, more than have a stack, or too few for the threshold;
\* then, beside whatever is left of that, two parties.
MCAsks == <<{Size(3, 1), Size(2, 0), Size(4, 1), Size(2, 1)}, {Size(2, 0)}>>
=============================================================================
