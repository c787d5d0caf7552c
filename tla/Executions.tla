----------------------------- MODULE Executions -----------------------------
(***************************************************************************)
(* The life of an execution on the standing mesh: submit_execution.py      *)
(* stores it and invokes admit_execution.py, which prepares it on every    *)
(* party at once; cancel_execution.py records CANCELLING and invokes a     *)
(* worker, which cancels it on one party after the other.  All of them     *)
(* write the same row of EXECUTIONS_TABLE.                                 *)
(*                                                                         *)
(* A party is its command log, the promise that PartyControl is shown to   *)
(* keep (CommandLog): numbered commands, applied in order.  A call of      *)
(* _publish_and_wait_ack gets a number or gives up before; what it         *)
(* publishes there is its command, the gap filler, or nothing at all; and  *)
(* it may stop waiting while its command is still to be applied.           *)
(*                                                                         *)
(* Other API keys' cancels (403), unknown ids (404) and rejected request   *)
(* bodies (400) change nothing and are left out.                           *)
(***************************************************************************)
EXTENDS Naturals, Sequences, FiniteSets

CONSTANTS
    Executions,   \* the submitted executions
    Requests,     \* the cancel requests
    N,            \* number of parties
    Refusals,     \* <<p, e>>: party p may not have the program of e
    Faults,       \* the faults that may happen
    MaxFaults,    \* bound: how many happen in one behaviour
    MaxAttempts   \* deliveries of one cancel request to its worker

Parties == 1..N

AllFaults == {"send",     \* SSM refuses a command, perhaps the gap filler too, or a poll or a
                          \* release raises
              "drop",     \* SSM never starts a command, or a number is burnt
              "kill",     \* a Lambda is killed at its timeout
              "invoke"}   \* the asynchronous invoke itself fails

ASSUME ExecutionsAssumption ==
    /\ N \in Nat \ {0}
    /\ MaxAttempts \in Nat \ {0}
    /\ Refusals \subseteq Parties \X Executions
    /\ Faults \subseteq AllFaults
    /\ MaxFaults \in Nat

VARIABLES
    status,    \* the row's status, "none" before put_item
    finished,  \* whether the row has finished_at
    admit,     \* the submission and its admit_execution invocation
    prepare,   \* prepare[e][p]: the admission's call on party p
    ticket,    \* ticket[e][p]: the number that call waits for, 0 for none
    request,   \* the cancel API's handler
    target,    \* the execution a request is about
    seen,      \* the status api_handler read
    worker,    \* the cancel worker of a request
    index,     \* the worker's loop variable, one party after the other
    slot,      \* the number the worker waits for, 0 for none
    attempts,  \* deliveries of the request to the worker
    clean,     \* history: this attempt of the worker swallowed no exception
    journal,   \* journal[p]: the commands by number
    acks,      \* acks[p]: the outcomes of those applied
    live,      \* live[p][e]: e at party p
    faults     \* how many faults have happened

row == <<status, finished>>
admitVars == <<admit, prepare, ticket>>
cancelVars == <<request, target, seen, worker, index, slot, attempts, clean>>
partyVars == <<journal, acks, live>>
vars == <<row, admitVars, cancelVars, partyVars, faults>>

TERMINAL_STATUSES == {"SUCCEEDED", "FAILED", "CANCELLED"}
Statuses == TERMINAL_STATUSES \cup {"none", "PREPARING", "RUNNING", "CANCELLING"}
Commands == [op : {"prepare", "cancel", "filler", "gap"}, exec : Executions]

TypeOK ==
    /\ status \in [Executions -> Statuses]
    /\ finished \in [Executions -> BOOLEAN]
    /\ admit \in [Executions -> {"idle", "stored", "lost", "invoked", "done",
                                 "crashed", "killed"}]
    /\ prepare \in [Executions -> [Parties -> {"todo", "waiting", "ok", "error",
                                               "raised"}]]
    /\ ticket \in [Executions -> [Parties -> Nat]]
    /\ request \in [Requests -> {"idle", "read", "written", "done"}]
    /\ target \in [Requests -> Executions \cup {"none"}]
    /\ seen \in [Requests -> Statuses]
    /\ worker \in [Requests -> {"none", "queued", "running", "done", "dead"}]
    /\ index \in [Requests -> 1..(N + 1)]
    /\ slot \in [Requests -> Nat]
    /\ attempts \in [Requests -> 0..MaxAttempts]
    /\ clean \in [Requests -> BOOLEAN]
    /\ journal \in [Parties -> Seq(Commands)]
    /\ acks \in [Parties -> Seq({"event", "rejected"})]
    /\ live \in [Parties -> [Executions -> {"unknown", "live", "ended"}]]
    /\ faults \in 0..MaxFaults

Init ==
    /\ status = [e \in Executions |-> "none"]
    /\ finished = [e \in Executions |-> FALSE]
    /\ admit = [e \in Executions |-> "idle"]
    /\ prepare = [e \in Executions |-> [p \in Parties |-> "todo"]]
    /\ ticket = [e \in Executions |-> [p \in Parties |-> 0]]
    /\ request = [c \in Requests |-> "idle"]
    /\ target = [c \in Requests |-> "none"]
    /\ seen = [c \in Requests |-> "none"]
    /\ worker = [c \in Requests |-> "none"]
    /\ index = [c \in Requests |-> 1]
    /\ slot = [c \in Requests |-> 0]
    /\ attempts = [c \in Requests |-> 0]
    /\ clean = [c \in Requests |-> TRUE]
    /\ journal = [p \in Parties |-> << >>]
    /\ acks = [p \in Parties |-> << >>]
    /\ live = [p \in Parties |-> [e \in Executions |-> "unknown"]]
    /\ faults = 0
-----------------------------------------------------------------------------
(* A party's control plane (PartyControl) and its pump (external). *)

Publish(p, op, e) ==
    journal' = [journal EXCEPT ![p] = Append(@, [op |-> op, exec |-> e])]

NextNumber(p) == Len(journal[p]) + 1

\* The ways a call's send can fail: the slot is filled, or stays a gap, or the
\* command was accepted although the caller saw an error.
SendFails(p, op, e) == \E sent \in {"filler", "gap", op} : Publish(p, sent, e)

Applied(p, n) == n \in 1..Len(acks[p])

\* Commands that party p accepts now: prepare once per execution and only of a
\* program in its catalog, cancel only of what is live there.
Accepts(p, cmd) ==
    \/ cmd.op = "prepare" /\ live[p][cmd.exec] = "unknown"
    \/ cmd.op = "cancel" /\ live[p][cmd.exec] = "live"

MayRefuse(p, cmd) == cmd.op = "prepare" /\ <<p, cmd.exec>> \in Refusals

\* poll_one: the command with the next number; a gap holds the pump for ever.
PumpPolls(p) ==
    LET next == Len(acks[p]) + 1
        cmd  == journal[p][next]
        Accept == /\ Accepts(p, cmd)
                  /\ acks' = [acks EXCEPT ![p] = Append(@, "event")]
                  /\ live' = [live EXCEPT ![p][cmd.exec] =
                                IF cmd.op = "prepare" THEN "live" ELSE "ended"]
        Reject == /\ ~Accepts(p, cmd) \/ MayRefuse(p, cmd)
                  /\ acks' = [acks EXCEPT ![p] = Append(@, "rejected")]
                  /\ UNCHANGED live
    IN /\ next <= Len(journal[p])
       /\ cmd.op # "gap"
       /\ Accept \/ Reject
       /\ UNCHANGED <<row, admitVars, cancelVars, journal>>

\* SSM gives up on a command that it accepted: its number stays empty.
CommandDropped(p) ==
    /\ "drop" \in Faults
    /\ \E n \in (Len(acks[p]) + 1)..Len(journal[p]) :
         journal' = [journal EXCEPT ![p][n].op = "gap"]
    /\ UNCHANGED <<row, admitVars, cancelVars, acks, live>>

\* The mesh finishes an execution by itself; nothing tells the row.
PartyEnds(p, e) ==
    /\ live[p][e] = "live"
    /\ live' = [live EXCEPT ![p][e] = "ended"]
    /\ UNCHANGED <<row, admitVars, cancelVars, journal, acks>>
-----------------------------------------------------------------------------
(* submit_execution.py and admit_execution.py *)

\* put_item of the new row.
Submit(e) ==
    /\ admit[e] = "idle"
    /\ status' = [status EXCEPT ![e] = "PREPARING"]
    /\ admit' = [admit EXCEPT ![e] = "stored"]
    /\ UNCHANGED <<finished, prepare, ticket, cancelVars, partyVars>>

\* lambda_client.invoke, which may raise although the row is stored already.
InvokeAdmit(e) ==
    /\ admit[e] = "stored"
    /\ admit' = [admit EXCEPT ![e] = "invoked"]
    /\ UNCHANGED <<row, prepare, ticket, cancelVars, partyVars>>

InvokeAdmitRaises(e) ==
    /\ "invoke" \in Faults
    /\ admit[e] = "stored"
    /\ admit' = [admit EXCEPT ![e] = "lost"]
    /\ UNCHANGED <<row, prepare, ticket, cancelVars, partyVars>>

\* One task of the thread pool publishes its prepare command.
PreparePublishes(e, p) ==
    /\ admit[e] = "invoked"
    /\ prepare[e][p] = "todo"
    /\ Publish(p, "prepare", e)
    /\ prepare' = [prepare EXCEPT ![e][p] = "waiting"]
    /\ ticket' = [ticket EXCEPT ![e][p] = NextNumber(p)]
    /\ UNCHANGED <<row, admit, cancelVars, acks, live>>

\* _send_ssm raises: not a PartyControlError, so _admit_on_party does not catch it.
PrepareSendRaises(e, p) ==
    /\ "send" \in Faults
    /\ admit[e] = "invoked"
    /\ prepare[e][p] = "todo"
    /\ SendFails(p, "prepare", e)
    /\ prepare' = [prepare EXCEPT ![e][p] = "raised"]
    /\ UNCHANGED <<row, admit, ticket, cancelVars, acks, live>>

\* So does an error of the poll or of the release, with the command on its way.
PrepareWaitRaises(e, p) ==
    /\ "send" \in Faults
    /\ admit[e] = "invoked"
    /\ prepare[e][p] = "waiting"
    /\ prepare' = [prepare EXCEPT ![e][p] = "raised"]
    /\ ticket' = [ticket EXCEPT ![e][p] = 0]
    /\ UNCHANGED <<row, admit, cancelVars, partyVars>>

\* PartyControlError: no lease in time, or no acknowledgement in time.
PrepareTimesOut(e, p) ==
    /\ admit[e] = "invoked"
    /\ prepare[e][p] \in {"todo", "waiting"}
    /\ prepare' = [prepare EXCEPT ![e][p] = "error"]
    /\ ticket' = [ticket EXCEPT ![e][p] = 0]
    /\ UNCHANGED <<row, admit, cancelVars, partyVars>>

\* Mutant of PrepareAcked: the outcome in the acknowledgement is taken as it is.
PrepareAckedRaw(e, p) ==
    /\ admit[e] = "invoked"
    /\ prepare[e][p] = "waiting"
    /\ Applied(p, ticket[e][p])
    /\ prepare' = [prepare EXCEPT ![e][p] = acks[p][ticket[e][p]]]
    /\ ticket' = [ticket EXCEPT ![e][p] = 0]
    /\ UNCHANGED <<row, admit, cancelVars, partyVars>>

\* The acknowledgement arrives; send_prepare_command turns a rejection into a
\* PartyControlError.
PrepareAcked(e, p) ==
    /\ admit[e] = "invoked"
    /\ prepare[e][p] = "waiting"
    /\ Applied(p, ticket[e][p])
    /\ prepare' = [prepare EXCEPT ![e][p] =
                     IF acks[p][ticket[e][p]] = "event" THEN "ok" ELSE "error"]
    /\ ticket' = [ticket EXCEPT ![e][p] = 0]
    /\ UNCHANGED <<row, admit, cancelVars, partyVars>>

\* list(pool.map(...)) waits for every task.
PoolDone(e) == /\ admit[e] = "invoked"
               /\ \A p \in Parties : prepare[e][p] \notin {"todo", "waiting"}

\* An uncaught exception of a task is raised again: the handler ends without
\* writing the row, and the invocation is not retried.
AdmitCrashes(e) ==
    /\ PoolDone(e)
    /\ \E p \in Parties : prepare[e][p] = "raised"
    /\ admit' = [admit EXCEPT ![e] = "crashed"]
    /\ UNCHANGED <<row, prepare, ticket, cancelVars, partyVars>>

\* Mutant of AdmitFails: the handler returns its errors without fail().
AdmitFailsSilently(e) ==
    /\ PoolDone(e)
    /\ \A p \in Parties : prepare[e][p] # "raised"
    /\ \E p \in Parties : prepare[e][p] = "error"
    /\ admit' = [admit EXCEPT ![e] = "done"]
    /\ UNCHANGED <<row, prepare, ticket, cancelVars, partyVars>>

\* fail(): the parties that did accept are not told.
AdmitFails(e) ==
    /\ PoolDone(e)
    /\ \A p \in Parties : prepare[e][p] # "raised"
    /\ \E p \in Parties : prepare[e][p] = "error"
    /\ status' = [status EXCEPT ![e] = "FAILED"]
    /\ finished' = [finished EXCEPT ![e] = TRUE]
    /\ admit' = [admit EXCEPT ![e] = "done"]
    /\ UNCHANGED <<prepare, ticket, cancelVars, partyVars>>

\* Mutant of AdmitSucceeds: RUNNING as soon as one party has acknowledged.
AdmitSucceedsOnFirst(e) ==
    /\ admit[e] = "invoked"
    /\ \E p \in Parties : prepare[e][p] = "ok"
    /\ status' = [status EXCEPT ![e] = "RUNNING"]
    /\ admit' = [admit EXCEPT ![e] = "done"]
    /\ UNCHANGED <<finished, prepare, ticket, cancelVars, partyVars>>

\* Mutant of AdmitSucceeds: the event may be delivered a second time.
AdmitSucceedsAgain(e) ==
    /\ PoolDone(e)
    /\ \A p \in Parties : prepare[e][p] = "ok"
    /\ status' = [status EXCEPT ![e] = "RUNNING"]
    /\ \E s \in {"done", "invoked"} : admit' = [admit EXCEPT ![e] = s]
    /\ UNCHANGED <<finished, prepare, ticket, cancelVars, partyVars>>

\* The row is set to RUNNING whatever it holds by now.
AdmitSucceeds(e) ==
    /\ PoolDone(e)
    /\ \A p \in Parties : prepare[e][p] = "ok"
    /\ status' = [status EXCEPT ![e] = "RUNNING"]
    /\ admit' = [admit EXCEPT ![e] = "done"]
    /\ UNCHANGED <<finished, prepare, ticket, cancelVars, partyVars>>

\* The 120 s timeout; each call killed after its number was reserved and before its
\* send leaves a gap.
AdmitKilled(e) ==
    /\ "kill" \in Faults
    /\ admit[e] = "invoked"
    /\ admit' = [admit EXCEPT ![e] = "killed"]
    /\ \E ps \in SUBSET {p \in Parties : prepare[e][p] = "todo"} :
         journal' = [p \in Parties |->
                       IF p \in ps THEN Append(journal[p], [op |-> "gap", exec |-> e])
                                   ELSE journal[p]]
    /\ UNCHANGED <<row, prepare, ticket, cancelVars, acks, live>>
-----------------------------------------------------------------------------
(* cancel_execution.py *)

\* api_handler up to its early returns: get_item.
CancelReads(c, e) ==
    /\ request[c] = "idle"
    /\ status[e] # "none"
    /\ seen' = [seen EXCEPT ![c] = status[e]]
    /\ target' = [target EXCEPT ![c] = e]
    /\ request' = [request EXCEPT ![c] = IF status[e] \in TERMINAL_STATUSES
                                         THEN "done" ELSE "read"]
    /\ UNCHANGED <<row, admitVars, worker, index, slot, attempts, clean, partyVars>>

\* update_item, unconditional.
CancelWrites(c) ==
    /\ request[c] = "read"
    /\ status' = [status EXCEPT ![target[c]] = "CANCELLING"]
    /\ request' = [request EXCEPT ![c] = "written"]
    /\ UNCHANGED <<finished, admitVars, target, seen, worker, index, slot, attempts,
                   clean, partyVars>>

\* The worker's invoke, which may raise although the row is updated already.
CancelInvokes(c) ==
    /\ request[c] = "written"
    /\ worker' = [worker EXCEPT ![c] = "queued"]
    /\ request' = [request EXCEPT ![c] = "done"]
    /\ UNCHANGED <<row, admitVars, target, seen, index, slot, attempts, clean, partyVars>>

CancelInvokeRaises(c) ==
    /\ "invoke" \in Faults
    /\ request[c] = "written"
    /\ request' = [request EXCEPT ![c] = "done"]
    /\ UNCHANGED <<row, admitVars, target, seen, worker, index, slot, attempts, clean,
                   partyVars>>

\* Lambda runs worker_handler, from the beginning on every attempt.
WorkerStarts(c) ==
    /\ worker[c] = "queued"
    /\ attempts[c] < MaxAttempts
    /\ worker' = [worker EXCEPT ![c] = "running"]
    /\ attempts' = [attempts EXCEPT ![c] = @ + 1]
    /\ clean' = [clean EXCEPT ![c] = TRUE]
    /\ UNCHANGED <<row, admitVars, request, target, seen, index, slot, partyVars>>

AtParty(c) == worker[c] = "running" /\ index[c] \in Parties

WorkerPublishes(c) ==
    /\ AtParty(c)
    /\ slot[c] = 0
    /\ Publish(index[c], "cancel", target[c])
    /\ slot' = [slot EXCEPT ![c] = NextNumber(index[c])]
    /\ UNCHANGED <<row, admitVars, request, target, seen, worker, index, attempts,
                   clean, acks, live>>

\* Mutant of WorkerAcked: the worker does not wait for the party to apply it.
WorkerDoesNotWait(c) ==
    /\ AtParty(c)
    /\ slot[c] # 0
    /\ index' = [index EXCEPT ![c] = @ + 1]
    /\ slot' = [slot EXCEPT ![c] = 0]
    /\ UNCHANGED <<row, admitVars, request, target, seen, worker, attempts, clean,
                   partyVars>>

\* The acknowledgement of the cancel; its content is not looked at.
WorkerAcked(c) ==
    /\ AtParty(c)
    /\ slot[c] # 0
    /\ Applied(index[c], slot[c])
    /\ index' = [index EXCEPT ![c] = @ + 1]
    /\ slot' = [slot EXCEPT ![c] = 0]
    /\ UNCHANGED <<row, admitVars, request, target, seen, worker, attempts, clean,
                   partyVars>>

\* Any exception of send_cancel_command is logged, and the loop goes on.
WorkerSwallows(c) ==
    /\ AtParty(c)
    /\ index' = [index EXCEPT ![c] = @ + 1]
    /\ slot' = [slot EXCEPT ![c] = 0]
    /\ clean' = [clean EXCEPT ![c] = FALSE]
    /\ UNCHANGED <<row, admitVars, request, target, seen, worker, attempts, acks, live>>

\* PartyControlError: no lease in time, or no acknowledgement in time.
WorkerTimesOut(c) == WorkerSwallows(c) /\ UNCHANGED journal

\* _send_ssm raises.
WorkerSendRaises(c) ==
    /\ "send" \in Faults
    /\ slot[c] = 0
    /\ SendFails(index[c], "cancel", target[c])
    /\ WorkerSwallows(c)

\* Mutant of WorkerFinishes: the update sets no finished_at.
WorkerFinishesUndated(c) ==
    /\ worker[c] = "running"
    /\ index[c] = N + 1
    /\ status' = IF finished[target[c]] THEN status
                 ELSE [status EXCEPT ![target[c]] = "CANCELLED"]
    /\ worker' = [worker EXCEPT ![c] = "done"]
    /\ index' = [index EXCEPT ![c] = 1]
    /\ UNCHANGED <<finished, admitVars, request, target, seen, slot, attempts, clean,
                   partyVars>>

\* CANCELLED, if no finished_at is recorded yet.
WorkerFinishes(c) ==
    /\ worker[c] = "running"
    /\ index[c] = N + 1
    /\ IF finished[target[c]] THEN UNCHANGED row
       ELSE /\ status' = [status EXCEPT ![target[c]] = "CANCELLED"]
            /\ finished' = [finished EXCEPT ![target[c]] = TRUE]
    /\ worker' = [worker EXCEPT ![c] = "done"]
    /\ index' = [index EXCEPT ![c] = 1]
    /\ UNCHANGED <<admitVars, request, target, seen, slot, attempts, clean, partyVars>>

\* The 60 s timeout: Lambda runs an asynchronous invocation again, MaxAttempts
\* times in all.
WorkerKilled(c) ==
    /\ "kill" \in Faults
    /\ worker[c] = "running"
    /\ worker' = [worker EXCEPT ![c] = IF attempts[c] < MaxAttempts THEN "queued"
                                                                    ELSE "dead"]
    /\ \/ UNCHANGED journal
       \/ AtParty(c) /\ slot[c] = 0 /\ Publish(index[c], "gap", target[c])
    /\ index' = [index EXCEPT ![c] = 1]
    /\ slot' = [slot EXCEPT ![c] = 0]
    /\ UNCHANGED <<row, admitVars, request, target, seen, attempts, clean, acks, live>>

\* DynamoDB's reply to a call at party p is lost: the retried update burns the number
\* and the call goes on asking for another.
NumberBurnt(p) ==
    /\ "drop" \in Faults
    /\ \E e \in Executions :
         /\ \/ admit[e] = "invoked" /\ prepare[e][p] = "todo"
            \/ \E c \in Requests : AtParty(c) /\ index[c] = p /\ slot[c] = 0
                                   /\ target[c] = e
         /\ Publish(p, "gap", e)
    /\ UNCHANGED <<row, admitVars, cancelVars, acks, live>>
-----------------------------------------------------------------------------
AdmitStep(e) ==
    /\ \/ InvokeAdmit(e)
       \/ \E p \in Parties :
            PreparePublishes(e, p) \/ PrepareAcked(e, p) \/ PrepareTimesOut(e, p)
       \/ AdmitCrashes(e) \/ AdmitFails(e) \/ AdmitSucceeds(e)
    /\ UNCHANGED faults

CancelStep(c) ==
    /\ \/ CancelWrites(c) \/ CancelInvokes(c)
       \/ WorkerStarts(c) \/ WorkerPublishes(c) \/ WorkerAcked(c) \/ WorkerTimesOut(c)
       \/ WorkerFinishes(c)
    /\ UNCHANGED faults

PumpStep(p) == PumpPolls(p) /\ UNCHANGED faults

\* Steps that nobody has to take: the users', and the end of a computation.
OutsideStep ==
    /\ \E e \in Executions :
         \/ Submit(e)
         \/ \E c \in Requests : CancelReads(c, e)
         \/ \E p \in Parties : PartyEnds(p, e)
    /\ UNCHANGED faults

FaultStep ==
    /\ faults < MaxFaults
    /\ faults' = faults + 1
    /\ \/ \E e \in Executions :
            \/ InvokeAdmitRaises(e) \/ AdmitKilled(e)
            \/ \E p \in Parties : PrepareSendRaises(e, p) \/ PrepareWaitRaises(e, p)
       \/ \E c \in Requests :
            CancelInvokeRaises(c) \/ WorkerSendRaises(c) \/ WorkerKilled(c)
       \/ \E p \in Parties : CommandDropped(p) \/ NumberBurnt(p)

Next ==
    \/ \E e \in Executions : AdmitStep(e)
    \/ \E c \in Requests : CancelStep(c)
    \/ \E p \in Parties : PumpStep(p)
    \/ OutsideStep
    \/ FaultStep

Spec == Init /\ [][Next]_vars

\* A Lambda that runs takes its next step, waits no longer than its timeouts, and
\* a pump polls.
Fairness == /\ \A e \in Executions : WF_vars(AdmitStep(e))
            /\ \A c \in Requests : WF_vars(CancelStep(c))
            /\ \A p \in Parties : WF_vars(PumpStep(p))

FairSpec == Spec /\ Fairness
-----------------------------------------------------------------------------
(* Properties *)

\* RUNNING is recorded only for an execution that every party has accepted.
RunningIsAdmitted ==
    \A e \in Executions :
        status[e] = "RUNNING" => \A p \in Parties : live[p][e] # "unknown"

\* A cancel that found the execution RUNNING, and whose worker swallowed no
\* exception, leaves it live at no party, whatever else was in the journals.
CleanCancelSilences ==
    \A c \in Requests :
        worker[c] = "done" /\ clean[c] /\ seen[c] = "RUNNING" =>
            \A p \in Parties : live[p][target[c]] # "live"

\* The worker never replaces a finish that is recorded already (the comment in
\* worker_handler).
CancelledKeepsFinish ==
    [][\A e \in Executions :
         finished[e] /\ status[e] # "CANCELLED" => status'[e] # "CANCELLED"]_vars

\* A row says RUNNING although its finish is recorded only if a cancel was accepted
\* while admission still ran (admit_execution.py writes RUNNING whatever it finds): a
\* cancel of what was RUNNING is never undone.
RevivedWasPreparing ==
    \A e \in Executions :
        status[e] = "RUNNING" /\ finished[e] =>
            \E c \in Requests : target[c] = e /\ seen[c] = "PREPARING"

\* Admission, the cancel API and its workers together keep what ExecutionRow promises
\* of the row that all of them write.
Row == INSTANCE ExecutionRow
         WITH accepted <- [e \in Executions |-> {p \in Parties : live[p][e] # "unknown"}],
              judged <- {e \in Executions : admit[e] = "done"},
              wanted <- {e \in Executions : \E c \in Requests :
                            target[c] = e /\ seen[c] \notin TERMINAL_STATUSES \cup {"none"}}

RowImplemented == Row!Spec

\* Admission ends by writing the row, unless its invocation was lost, killed or
\* brought down by an exception of the SSM client.
AdmissionSettles ==
    \A e \in Executions :
        status[e] = "PREPARING" ~> \/ status[e] # "PREPARING"
                                   \/ admit[e] \in {"lost", "killed", "crashed"}

\* An accepted cancel ends with a recorded finish, also against a party that is
\* wedged or refuses, unless the worker was never invoked or ran out of attempts.
CancelSettles ==
    \A c \in Requests, e \in Executions :
        request[c] = "read" /\ target[c] = e ~>
            \/ finished[e]
            \/ request[c] = "done" /\ worker[c] \in {"none", "dead"}

\* admit_execution.py's docstring: the handler waits for each party, "then
\* records RUNNING (or FAILED, via fail() below) directly on the execution".
AdmissionRecorded ==
    \A e \in Executions : admit[e] = "invoked" ~> status[e] # "PREPARING"

\* The comment in worker_handler: "Don't clobber a terminal status
\* admit_execution.py's own fail() already recorded in the meantime (e.g. admission
\* itself failed right as this cancel was requested) - first write wins."
FailureIsKept ==
    [][\A e \in Executions : status[e] = "FAILED" => status'[e] = "FAILED"]_vars
=============================================================================
