---------------------------- MODULE ExecutionRow ----------------------------
(***************************************************************************)
(* What a row of EXECUTIONS_TABLE promises to its readers, whichever of    *)
(* admission, cancel API and cancel worker writes it, in whatever order:   *)
(* admission's verdict is written once, and RUNNING only when every party  *)
(* has accepted; a cancel begins while the row is open, and ends a row     *)
(* once.  It does not promise that the last writer knew of the others: a   *)
(* verdict may follow a cancel, and a cancel a verdict.                    *)
(***************************************************************************)
CONSTANTS Executions, Parties

VARIABLES
    status,
    finished,   \* finished[e]: the row has finished_at
    accepted,   \* accepted[e]: the parties that have accepted e
    judged,     \* executions whose admission has written its verdict
    wanted      \* executions that a cancel found open

vars == <<status, finished, accepted, judged, wanted>>

Open == {"PREPARING", "RUNNING", "CANCELLING"}

Init == /\ status = [e \in Executions |-> "none"]
        /\ finished = [e \in Executions |-> FALSE]
        /\ accepted = [e \in Executions |-> {}]
        /\ judged = {}
        /\ wanted = {}

Record(e, s) == status' = [status EXCEPT ![e] = s]

Create(e) == /\ status[e] = "none"
             /\ Record(e, "PREPARING")
             /\ UNCHANGED <<finished, accepted, judged, wanted>>

Accept(e, p) == /\ status[e] # "none"
                /\ accepted' = [accepted EXCEPT ![e] = @ \cup {p}]
                /\ UNCHANGED <<status, finished, judged, wanted>>

Run(e) == /\ e \notin judged /\ accepted[e] = Parties
          /\ judged' = judged \cup {e}
          /\ Record(e, "RUNNING")
          /\ UNCHANGED <<finished, accepted, wanted>>

Fail(e) == /\ e \notin judged
           /\ judged' = judged \cup {e}
           /\ Record(e, "FAILED")
           /\ finished' = [finished EXCEPT ![e] = TRUE]
           /\ UNCHANGED <<accepted, wanted>>

Want(e) == /\ status[e] \in Open
           /\ wanted' = wanted \cup {e}
           /\ UNCHANGED <<status, finished, accepted, judged>>

Cancelling(e) == /\ e \in wanted
                 /\ Record(e, "CANCELLING")
                 /\ UNCHANGED <<finished, accepted, judged, wanted>>

Cancelled(e) == /\ e \in wanted /\ ~finished[e]
                /\ Record(e, "CANCELLED")
                /\ finished' = [finished EXCEPT ![e] = TRUE]
                /\ UNCHANGED <<accepted, judged, wanted>>

Next == \E e \in Executions :
            \/ Create(e) \/ Run(e) \/ Fail(e) \/ Want(e) \/ Cancelling(e) \/ Cancelled(e)
            \/ \E p \in Parties : Accept(e, p)

Spec == Init /\ [][Next]_vars
=============================================================================
