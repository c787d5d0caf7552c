----------------------------- MODULE JobMachine -----------------------------
(***************************************************************************)
(* Jobs on the EC2 mesh (stoffel-ec2-user-deployment): submit_job.py       *)
(* stores a job and queues it, the pipe starts one state-machine execution *)
(* per message, and the executions share one lock, one container per       *)
(* instance and one row per job.  StartJob, CheckJobStatus and FinishJob   *)
(* are Lambdas; what they send to the instances goes through SSM           *)
(* (external), which keeps no order between commands.                      *)
(*                                                                         *)
(* Node 0 is the coordinator's instance, nodes 1..N are the parties'.      *)
(* Every container is called CONTAINER_NAME, so each start script, each    *)
(* docker rm and each docker inspect meets whatever container is there.    *)
(***************************************************************************)
EXTENDS Naturals, Sequences, FiniteSets, SequencesExt

CONSTANTS
    Jobs,
    N,           \* DEPLOYED_PARTIES
    Size,        \* num_parties asked for by a job
    Threshold,   \* threshold asked for by a job
    None,        \* no container
    Faults,      \* the faults that may happen
    MaxFaults    \* bound: how many happen in one behaviour

AllFaults == {"queue",    \* sqs.send_message raises
              "send",     \* ssm.send_command raises
              "script",   \* a start script fails on its instance
              "party",    \* a party's program fails
              "invoke",   \* Step Functions gets an error instead of a Lambda's result
              "timeout"}  \* StartJob's 90 s or the state machine's 2 h run out

ASSUME JobsAssumption ==
    /\ None \notin Jobs
    /\ N \in Nat
    /\ Size \in [Jobs -> Nat] /\ Threshold \in [Jobs -> Nat]
    /\ Faults \subseteq AllFaults
    /\ MaxFaults \in Nat

Nodes == 0..N
Parties(j) == 1..Size[j]
NodesOf(j) == 0..Size[j]

VARIABLES
    status,    \* the job's row
    queue,     \* the FIFO queue
    sm,        \* the state of the job's execution
    verdict,   \* $.check_result.job_status, "RUNNING" before
    lock,      \* whether the item "jobs" is in LockTable
    run,       \* run[j][n]: the last start command for node n
    late,      \* late[j][n]: how many earlier ones are still on their way
    stop,      \* stop[j]: how many docker rm are on their way to the coordinator
    box,       \* box[n]: the container on node n
    served,    \* history: the parties that ended with exit 0 for their job
    crossed,   \* history: jobs that a command of another job took a container from
    restarted, \* history: jobs whose StartJob was run again
    faults     \* how many faults have happened

jobVars == <<status, queue, verdict>>
meshVars == <<run, late, stop, box, served, crossed, restarted>>
vars == <<jobVars, sm, lock, meshVars, faults>>

Terminal == {"SUCCEEDED", "FAILED"}
Holding == {"start", "starting", "poll", "finish", "release", "handle", "releaseFailed"}
Ended == {"succeeded", "failed", "dead"}

TypeOK ==
    /\ status \in [Jobs -> Terminal \cup {"none", "QUEUED", "RUNNING"}]
    /\ queue \in Seq(Jobs)
    /\ sm \in [Jobs -> {"none", "stored", "acquire", "wait"} \cup Holding \cup Ended]
    /\ verdict \in [Jobs -> Terminal \cup {"RUNNING"}]
    /\ lock \in BOOLEAN
    /\ run \in [Jobs -> [Nodes -> {"none", "sent", "success", "failed"}]]
    /\ late \in [Jobs -> [Nodes -> Nat]]
    /\ stop \in [Jobs -> Nat]
    /\ box \in [Nodes -> [job : Jobs \cup {None}, state : {"none", "up", "ok", "bad"}]]
    /\ served \in [Jobs -> SUBSET Nodes]
    /\ crossed \subseteq Jobs
    /\ restarted \subseteq Jobs
    /\ faults \in 0..MaxFaults

NoBox == [job |-> None, state |-> "none"]

Init ==
    /\ status = [j \in Jobs |-> "none"]
    /\ queue = << >>
    /\ sm = [j \in Jobs |-> "none"]
    /\ verdict = [j \in Jobs |-> "RUNNING"]
    /\ lock = FALSE
    /\ run = [j \in Jobs |-> [n \in Nodes |-> "none"]]
    /\ late = [j \in Jobs |-> [n \in Nodes |-> 0]]
    /\ stop = [j \in Jobs |-> 0]
    /\ box = [n \in Nodes |-> NoBox]
    /\ served = [j \in Jobs |-> {}]
    /\ crossed = {}
    /\ restarted = {}
    /\ faults = 0

Goto(j, s) == sm' = [sm EXCEPT ![j] = s]
Record(j, s) == status' = [status EXCEPT ![j] = s]
-----------------------------------------------------------------------------
(* Submission, the queue and the lock. *)

\* put_item, before the message is sent.
Submit(j) ==
    /\ sm[j] = "none"
    /\ Record(j, "QUEUED")
    /\ Goto(j, "stored")
    /\ UNCHANGED <<queue, verdict, lock, meshVars>>

Enqueue(j) ==
    /\ sm[j] = "stored"
    /\ j \notin Range(queue)
    /\ queue' = Append(queue, j)
    /\ UNCHANGED <<status, verdict, sm, lock, meshVars>>

\* send_message raises: the job is stored as QUEUED and in no queue.
EnqueueRaises(j) ==
    /\ "queue" \in Faults
    /\ sm[j] = "stored"
    /\ j \notin Range(queue)
    /\ Goto(j, "dead")
    /\ UNCHANGED <<jobVars, lock, meshVars>>

\* The pipe starts an execution for the first message and waits for nothing.
PipeStarts ==
    /\ queue # << >>
    /\ Goto(Head(queue), "acquire")
    /\ queue' = Tail(queue)
    /\ UNCHANGED <<status, verdict, lock, meshVars>>

\* Mutant of AcquireLock: the PutItem carries no ConditionExpression.
AcquireLockAlways(j) ==
    /\ sm[j] = "acquire"
    /\ lock' = TRUE
    /\ Goto(j, "start")
    /\ UNCHANGED <<jobVars, meshVars>>

AcquireLock(j) ==
    /\ sm[j] = "acquire"
    /\ IF lock THEN Goto(j, "wait") ELSE Goto(j, "start")
    /\ lock' = TRUE
    /\ UNCHANGED <<jobVars, meshVars>>

\* WaitForLock.  Who asks next is not the order of the queue.
WaitForLock(j) ==
    /\ sm[j] = "wait"
    /\ Goto(j, "acquire")
    /\ UNCHANGED <<jobVars, lock, meshVars>>
-----------------------------------------------------------------------------
(* StartJob *)

ValidSize(j) == 2 * Threshold[j] + 1 <= Size[j] /\ Size[j] <= N

\* fail() writes the row and raises, which the state machine catches.  submit_job.py
\* stores what it is given: int() of a size that is no number raises and writes nothing.
StartRejects(j) ==
    /\ sm[j] = "start"
    /\ ~ValidSize(j)
    /\ Record(j, "FAILED") \/ UNCHANGED status
    /\ Goto(j, "handle")
    /\ UNCHANGED <<queue, verdict, lock, meshVars>>

\* A command that StartJob sent when it ran before stays on its way.
SendTo(j, ns) ==
    /\ run' = [run EXCEPT ![j] = [n \in Nodes |-> IF n \in ns THEN "sent" ELSE @[n]]]
    /\ late' = [late EXCEPT ![j] = [n \in Nodes |-> IF n \in ns /\ run[j][n] = "sent"
                                                   THEN @[n] + 1 ELSE @[n]]]

\* The row is RUNNING and the first nodes, perhaps none, were sent to.
SendsSome(j) ==
    /\ Record(j, "RUNNING")
    /\ \E n \in NodesOf(j) : SendTo(j, {m \in NodesOf(j) : m < n})

StartSends(j) ==
    /\ sm[j] = "start"
    /\ ValidSize(j)
    /\ Record(j, "RUNNING")
    /\ SendTo(j, NodesOf(j))
    /\ Goto(j, "starting")
    /\ UNCHANGED <<queue, verdict, lock, stop, box, served, crossed, restarted>>

\* send_ssm raises; not caught by the handler.
StartSendRaises(j) ==
    /\ "send" \in Faults
    /\ sm[j] = "start"
    /\ ValidSize(j)
    /\ SendsSome(j)
    /\ Goto(j, "handle")
    /\ UNCHANGED <<queue, verdict, lock, stop, box, served, crossed, restarted>>

\* wait_all_ssm sees every command succeed; endpoints are recorded.
StartReturns(j) ==
    /\ sm[j] = "starting"
    /\ \A n \in NodesOf(j) : run[j][n] = "success"
    /\ Goto(j, "poll")
    /\ UNCHANGED <<jobVars, lock, meshVars>>

\* Mutant of StartFails: fail() records the failure and returns.
StartFailsQuietly(j) ==
    /\ sm[j] = "starting"
    /\ \E n \in NodesOf(j) : run[j][n] = "failed"
    /\ Record(j, "FAILED")
    /\ Goto(j, "poll")
    /\ UNCHANGED <<queue, verdict, lock, meshVars>>

\* wait_all_ssm raises on the first failure; the other commands are still out.
StartFails(j) ==
    /\ sm[j] = "starting"
    /\ \E n \in NodesOf(j) : run[j][n] = "failed"
    /\ Record(j, "FAILED")
    /\ Goto(j, "handle")
    /\ UNCHANGED <<queue, verdict, lock, meshVars>>

\* ... or after 90 s, with commands that may still be delivered.
StartTimesOut(j) ==
    /\ "timeout" \in Faults
    /\ sm[j] = "starting"
    /\ \E n \in NodesOf(j) : run[j][n] = "sent"
    /\ Record(j, "FAILED")
    /\ Goto(j, "handle")
    /\ UNCHANGED <<queue, verdict, lock, meshVars>>
-----------------------------------------------------------------------------
(* CheckJobStatus and FinishJob *)

\* Mutant of CheckEnds: a party counts as finished once its container is gone or
\* has exited, whatever the exit code.
CheckEndsOnAnyExit(j) ==
    /\ sm[j] = "poll"
    /\ \A n \in Parties(j) : box[n].state # "up"
    /\ verdict' = [verdict EXCEPT ![j] = "SUCCEEDED"]
    /\ Goto(j, "finish")
    /\ UNCHANGED <<status, queue, lock, meshVars>>

\* Mutant of CheckEnds: docker's word for the state is handed on.
CheckEndsRaw(j) ==
    /\ sm[j] = "poll"
    /\ \A n \in Parties(j) : box[n].state \in {"ok", "bad"}
    /\ verdict' = [verdict EXCEPT ![j] = "exited"]
    /\ Goto(j, "finish")
    /\ UNCHANGED <<status, queue, lock, meshVars>>

\* Mutant of CheckEnds: the first container that exits ends the job.
CheckEndsOnFirst(j) ==
    /\ sm[j] = "poll"
    /\ \E n \in Parties(j) : box[n].state \in {"ok", "bad"}
    /\ verdict' = [verdict EXCEPT ![j] =
                     IF \E n \in Parties(j) : box[n].state # "ok" THEN "FAILED"
                                                                   ELSE "SUCCEEDED"]
    /\ Goto(j, "finish")
    /\ UNCHANGED <<status, queue, lock, meshVars>>

\* WaitPoll, CheckJobStatus and IsRunning when every container asked has exited.
\* Any other poll, and one that SSM gives no answer to, is RUNNING.
CheckEnds(j) ==
    /\ sm[j] = "poll"
    /\ \A n \in Parties(j) : box[n].state \in {"ok", "bad"}
    /\ verdict' = [verdict EXCEPT ![j] =
                     IF \E n \in Parties(j) : box[n].state = "bad" THEN "FAILED"
                                                                   ELSE "SUCCEEDED"]
    /\ Goto(j, "finish")
    /\ UNCHANGED <<status, queue, lock, meshVars>>

\* stop_coordinator does not wait for the command.
StopCoordinator(j) == stop' = [stop EXCEPT ![j] = @ + 1]

\* Mutant of Finishes: the synthetic outcome of HandleFailure is not recorded.
FinishesSuccessOnly(j) ==
    \/ sm[j] = "finish" /\ Record(j, verdict[j]) /\ Goto(j, "release")
    \/ sm[j] = "handle" /\ UNCHANGED status /\ Goto(j, "releaseFailed")

\* What the handler of finish_job.py records, for FinishJob and for HandleFailure,
\* which calls it with the synthetic outcome FAILED.
Finishes(j) ==
    \/ sm[j] = "finish" /\ Record(j, verdict[j]) /\ Goto(j, "release")
    \/ sm[j] = "handle" /\ Record(j, "FAILED") /\ Goto(j, "releaseFailed")

\* Mutant of FinishJob: the coordinator is left running.
FinishJobOnly(j) ==
    /\ Finishes(j)
    /\ UNCHANGED <<queue, verdict, lock, meshVars>>

FinishJob(j) ==
    /\ Finishes(j)
    /\ StopCoordinator(j)
    /\ UNCHANGED <<queue, verdict, lock, run, late, box, served, crossed, restarted>>

\* stop_coordinator swallows the error of its send_command.
StopRaises(j) ==
    /\ "send" \in Faults
    /\ Finishes(j)
    /\ UNCHANGED <<queue, verdict, lock, meshVars>>

-----------------------------------------------------------------------------
(* Errors of an invocation.  LambdaInvoke retries the errors of the Lambda service *)
(* and of its SDK; the Lambda may have run.  An attempt is over when its error is  *)
(* seen.                                                                           *)

\* What an attempt of StartJob has done by then: nothing, everything, or a part.
StartAttempted(j) ==
    /\ sm[j] \in {"start", "starting"}
    /\ UNCHANGED stop
    /\ \/ UNCHANGED <<status, run, late>>
       \/ sm[j] = "start" /\ ValidSize(j) /\ SendsSome(j)
       \/ sm[j] = "start" /\ ~ValidSize(j) /\ Record(j, "FAILED") /\ UNCHANGED <<run, late>>
       \/ /\ sm[j] = "starting"
          /\ \E n \in NodesOf(j) :
                \/ run[j][n] = "failed"
                \/ run[j][n] = "sent" /\ "timeout" \in Faults
          /\ Record(j, "FAILED")
          /\ UNCHANGED <<run, late>>

\* ... and an attempt of FinishJob or HandleFailure.
FinishAttempted(j) ==
    /\ sm[j] \in {"finish", "handle"}
    /\ UNCHANGED <<run, late>>
    /\ \/ UNCHANGED <<status, stop>>
       \/ /\ StopCoordinator(j)
          /\ \/ UNCHANGED status
             \/ Record(j, IF sm[j] = "finish" THEN verdict[j] ELSE "FAILED")

\* The Lambda is run again from its beginning, over what the attempt before left; no
\* step if that is nothing.  (CheckJobStatus changes nothing: its retry is a poll.)
InvokeRetried(j) ==
    /\ "invoke" \in Faults
    /\ \/ StartAttempted(j) /\ Goto(j, "start") /\ restarted' = restarted \cup {j}
       \/ FinishAttempted(j) /\ UNCHANGED <<sm, restarted>>
    /\ ~ UNCHANGED <<status, sm, run, stop>>
    /\ UNCHANGED <<queue, verdict, lock, box, served, crossed>>

\* The error is not one of those, or the last retry failed too.  HandleFailure itself
\* has no catch: the execution fails and keeps the lock.
InvokeRaises(j) ==
    /\ "invoke" \in Faults
    /\ \/ StartAttempted(j) \/ FinishAttempted(j)
       \/ sm[j] = "poll" /\ UNCHANGED <<status, run, late, stop>>
    /\ Goto(j, IF sm[j] = "handle" THEN "dead" ELSE "handle")
    /\ UNCHANGED <<queue, verdict, lock, box, served, crossed, restarted>>
-----------------------------------------------------------------------------
(* The end of an execution. *)

\* Mutant of ReleaseLock: the failure path ends without it.
ReleaseLockOnSuccess(j) ==
    /\ sm[j] \in {"release", "releaseFailed"}
    /\ lock' = (sm[j] # "release")
    /\ Goto(j, IF sm[j] = "release" THEN "succeeded" ELSE "failed")
    /\ UNCHANGED <<jobVars, meshVars>>

\* ReleaseLock and ReleaseLockOnFailure: an unconditional DeleteItem.
ReleaseLock(j) ==
    /\ sm[j] \in {"release", "releaseFailed"}
    /\ lock' = FALSE
    /\ Goto(j, IF sm[j] = "release" THEN "succeeded" ELSE "failed")
    /\ UNCHANGED <<jobVars, meshVars>>

\* The 2 h timeout of the state machine runs no catch and no further state.
MachineTimesOut(j) ==
    /\ "timeout" \in Faults
    /\ sm[j] \in Holding \cup {"acquire", "wait"}
    /\ Goto(j, "dead")
    /\ UNCHANGED <<jobVars, lock, meshVars>>
-----------------------------------------------------------------------------
(* The instances: SSM, docker and the program (external). *)

\* A command of j takes node n from another job that still runs there.
Cross(j, n) ==
    crossed' = crossed \cup
        {k \in Jobs \ {j} :
            \/ sm[k] \in Holding /\ box[n].job = k
            \/ sm[k] \in {"starting", "poll"} /\ run[k][n] = "success"}

\* SSM delivers a start command of j, the last one or an earlier one.
Delivered(j, n, s) ==
    \/ /\ run[j][n] = "sent"
       /\ run' = [run EXCEPT ![j][n] = s]
       /\ UNCHANGED late
    \/ /\ late[j][n] > 0
       /\ late' = [late EXCEPT ![j][n] = @ - 1]
       /\ UNCHANGED run

\* The start script removes the container that is there and starts its own.
ScriptRuns(j, n) ==
    /\ Delivered(j, n, "success")
    /\ box' = [box EXCEPT ![n] = [job |-> j, state |-> "up"]]
    /\ Cross(j, n)
    /\ UNCHANGED <<jobVars, sm, lock, stop, served, restarted>>

\* It fails before docker run, perhaps after docker rm.
ScriptFails(j, n) ==
    /\ "script" \in Faults
    /\ Delivered(j, n, "failed")
    /\ \/ UNCHANGED <<box, crossed>>
       \/ box' = [box EXCEPT ![n] = NoBox] /\ Cross(j, n)
    /\ UNCHANGED <<jobVars, sm, lock, stop, served, restarted>>

\* The docker rm of FinishJob, whoever's container is there by now.
CoordinatorRemoved(j) ==
    /\ stop[j] > 0
    /\ stop' = [stop EXCEPT ![j] = @ - 1]
    /\ box' = [box EXCEPT ![0] = NoBox]
    /\ Cross(j, 0)
    /\ UNCHANGED <<jobVars, sm, lock, run, late, served, restarted>>

\* The mesh of job j is complete.
Together(j) == /\ box[0] = [job |-> j, state |-> "up"]
               /\ \A n \in Parties(j) : box[n].job = j /\ box[n].state # "bad"

Exit(n, s) == /\ box[n].state = "up"
              /\ box' = [box EXCEPT ![n].state = s]
              /\ UNCHANGED <<jobVars, sm, lock, run, late, stop, crossed, restarted>>

PartySucceeds(n) ==
    /\ n # 0 /\ box[n].state = "up"
    /\ Together(box[n].job)
    /\ Exit(n, "ok")
    /\ served' = [served EXCEPT ![box[n].job] = @ \cup {n}]

PartyFails(n) ==
    /\ "party" \in Faults
    /\ n # 0
    /\ Exit(n, "bad")
    /\ UNCHANGED served

\* A party waits for the others while its job starts; later, without its
\* coordinator or a peer, or among containers of two attempts, it may give up, or hang.
PartyGivesUp(n) ==
    /\ n # 0 /\ box[n].state = "up"
    /\ \/ sm[box[n].job] # "starting" /\ ~Together(box[n].job)
       \/ box[n].job \in restarted
    /\ Exit(n, "bad")
    /\ UNCHANGED served
-----------------------------------------------------------------------------
QueueStep(j) == Enqueue(j) /\ UNCHANGED faults

PipeStep == PipeStarts /\ UNCHANGED faults

MachineStep(j) ==
    /\ \/ AcquireLock(j) \/ WaitForLock(j)
       \/ StartRejects(j) \/ StartSends(j) \/ StartReturns(j) \/ StartFails(j)
       \/ CheckEnds(j) \/ FinishJob(j) \/ ReleaseLock(j)
    /\ UNCHANGED faults

ScriptStep(j) ==
    /\ \/ \E n \in Nodes : ScriptRuns(j, n)
       \/ CoordinatorRemoved(j)
    /\ UNCHANGED faults

PartyStep(n) == PartySucceeds(n) /\ UNCHANGED faults

FaultStep ==
    /\ faults < MaxFaults
    /\ faults' = faults + 1
    /\ \/ \E j \in Jobs :
            \/ EnqueueRaises(j) \/ StartSendRaises(j) \/ StartTimesOut(j)
            \/ StopRaises(j) \/ MachineTimesOut(j)
            \/ InvokeRetried(j) \/ InvokeRaises(j)
            \/ \E n \in Nodes : ScriptFails(j, n)
       \/ \E n \in Nodes : PartyFails(n)

\* Steps that nobody has to take.
OutsideStep ==
    /\ \/ \E j \in Jobs : Submit(j)
       \/ \E n \in Nodes : PartyGivesUp(n)
    /\ UNCHANGED faults

Next ==
    \/ \E j \in Jobs : QueueStep(j) \/ MachineStep(j) \/ ScriptStep(j)
    \/ \E n \in Nodes : PartyStep(n)
    \/ PipeStep
    \/ OutsideStep
    \/ FaultStep

Spec == Init /\ [][Next]_vars

\* Lambda, Step Functions, the pipe and SSM go on, and a complete mesh computes.
Fairness ==
    /\ \A j \in Jobs : /\ WF_vars(QueueStep(j)) /\ WF_vars(MachineStep(j))
                       /\ WF_vars(ScriptStep(j))
    /\ \A n \in Nodes : WF_vars(PartyStep(n))
    /\ WF_vars(PipeStep)

FairSpec == Spec /\ Fairness
-----------------------------------------------------------------------------
(* Properties *)

\* One state machine at a time is between AcquireLock and ReleaseLock, and the lock
\* is held while it is: no failure path gives it back early or gives back another's.
OneHolder ==
    \A j \in Jobs : sm[j] \in Holding =>
        lock /\ \A k \in Jobs : sm[k] \in Holding => k = j

\* The item in LockTable is the binary semaphore that JobLock describes.
LockSpec == INSTANCE JobLock WITH holders <- {j \in Jobs : sm[j] \in Holding}
LockImplemented == LockSpec!Spec

\* The lock is never left taken behind a job that ended: its holder is still on its
\* way to ReleaseLock, or an execution has died, in a failing HandleFailure or at the
\* 2 h timeout.
LockHasOwner == lock => \E j \in Jobs : sm[j] \in Holding \cup {"dead"}

\* A row that says QUEUED or RUNNING belongs to an execution that can still settle it,
\* or to one that died or never began: no path through StartJob, FinishJob and
\* HandleFailure reaches its end with the row still open.
OpenRowIsCarried ==
    \A j \in Jobs : status[j] \in {"QUEUED", "RUNNING"} => sm[j] \notin {"succeeded", "failed"}

\* A job fails for a reason: it asked for too much, a fault happened, or another job's
\* late command took one of its containers away.  Without them the lock alone keeps
\* its coordinator and its parties together.
FailureHasCause ==
    \A j \in Jobs : status[j] = "FAILED" => ~ValidSize(j) \/ j \in crossed \/ faults > 0

\* A job is recorded as SUCCEEDED only if each of its parties ended with exit 0 for
\* this job, or another job's late command took one of its containers away
\* (docker inspect asks for a name that all jobs use).
SuccessIsReal ==
    \A j \in Jobs : status[j] = "SUCCEEDED" => Parties(j) \subseteq served[j]
                                              \/ j \in crossed

\* A job that is recorded as FAILED stays FAILED, however the failure paths and the
\* retries of StartJob, FinishJob and HandleFailure follow each other, except that a
\* StartJob which Step Functions runs again makes RUNNING of its own FAILED: once
\* StartJob is over, no poll, verdict or retry of a later state replaces the failure.
\* (start_job.py says in line 5 that it is "Invoked once per queued job", which
\* LambdaInvoke's default retries do not keep.)
FailureStands ==
    [][\A j \in Jobs : status[j] = "FAILED" /\ sm[j] # "start" => status'[j] = "FAILED"]_vars

\* No job stays QUEUED or RUNNING for ever, whatever fails on the way: the lock comes
\* back and the waiting loop finds it free.  Only an execution that died, parties that may
\* wait for each other for ever (one has failed, another job's command took a container,
\* or two attempts of StartJob met) can keep it.
JobSettles ==
    []<>(\/ \A j \in Jobs : status[j] \notin {"QUEUED", "RUNNING"}
         \/ \E j \in Jobs : sm[j] = "dead"
         \/ \E n \in Nodes : box[n].state = "bad"
         \/ crossed # {} \/ restarted # {})

\* The coordinator of a job that is over does not stay for ever, unless a fault happens.
CoordinatorStops ==
    []<>((\A j \in Jobs : sm[j] = "succeeded" => box[0].job # j) \/ faults > 0)

\* "only one job's coordinator + parties run at a time" (app.py lines 64-65).
OneJobRuns ==
    \A m, n \in Nodes :
        box[m].state = "up" /\ box[n].state = "up" => box[m].job = box[n].job
=============================================================================
