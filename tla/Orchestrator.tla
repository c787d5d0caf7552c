---------------------------- MODULE Orchestrator ----------------------------
(***************************************************************************)
(* Jobs on Fargate (stoffel-fargate-user-deployment): the API stores and   *)
(* queues a job, the pipe starts one state-machine execution per message,  *)
(* and the execution that holds the lock runs one ECS task, the            *)
(* orchestrator (orchestrator.py).  It launches the coordinator and the    *)
(* parties as further tasks, publishes them in Cloud Map one stage after   *)
(* the other, waits for the parties and stops the coordinator.             *)
(*                                                                         *)
(* Parties are 0..N-1 and N is the coordinator; a task is a job and a      *)
(* node.  ECS, Cloud Map, DNS and the programs are external.               *)
(***************************************************************************)
EXTENDS Naturals, Sequences, FiniteSets

CONSTANTS
    Jobs,
    N,           \* DEPLOYED_PARTIES, the stack's N_PARTIES
    Requests,    \* what a job may ask for
    None,        \* nothing asked yet, or no address
    Faults,      \* the faults that may happen
    MaxFaults    \* bound: how many happen in one behaviour, each once

AllFaults == {"queue",    \* sqs.send_message raises
              "pipe",     \* StartExecution fails three times: dead-letter queue
              "launch",   \* ECS does not start the orchestrator
              "kill",     \* the orchestrator dies at once, or cannot write its failure
              "aws",      \* a call of the orchestrator raises
              "stop",     \* ... in stop_task, which swallows it
              "task",     \* a task stops before its container starts
              "party",    \* the program of a party, or the coordinator, fails
              "host",     \* a running task stops without an exit code
              "dns",      \* a deregistration reaches DNS later than a task starts
              "timeout"}  \* wait_stopped's hour, or the state machine's 2 h, run out

ASSUME OrchestratorAssumption ==
    /\ None \notin Jobs
    /\ N \in 1..10
    /\ Requests \subseteq [parties : Nat, threshold : Nat,
                      numeric : BOOLEAN,     \* both are decimal numbers
                      uploaded : BOOLEAN]    \* program_key names an uploaded object
    /\ None \notin Requests
    /\ Faults \subseteq AllFaults
    /\ MaxFaults \in Nat

Nodes == 0..N

VARIABLES
    asked,      \* asked[j]: params of the row
    status,     \* the job's row
    published,  \* rows with endpoints and log_streams
    queue,      \* the FIFO queue
    sm,         \* the state of the job's execution
    lock,       \* whether the item "jobs" is in LockTable
    pc,         \* where the job's orchestrator is
    stage,      \* 1 coordinator, 2 party0, 3 the other parties
    why,        \* how main() is left
    task,       \* task[j][n]
    reg,        \* reg[n]: jobs whose task is registered in node n's service
    dns,        \* dns[n]: jobs whose task the name of n resolves to
    stray,      \* history: parties of running jobs that resolved a wrong address
    happened    \* the kinds of fault that happened

rowVars == <<asked, status, published>>
machineVars == <<queue, sm, lock>>
procVars == <<pc, stage, why>>
meshVars == <<task, reg, dns, stray>>
vars == <<rowVars, machineVars, procVars, meshVars, happened>>

Terminal == {"SUCCEEDED", "FAILED"}
Holding == {"run", "release", "releaseFailed"}
Ended == {"succeeded", "failed", "dead"}
Steps == {"boot", "check", "fetch", "clean", "launch", "up", "register", "dns",
          "publish", "watch", "stop", "report"}
Stopped == {"ok", "bad", "lost"}

TypeOK ==
    /\ asked \in [Jobs -> Requests \cup {None}]
    /\ status \in [Jobs -> Terminal \cup {"none", "QUEUED", "RUNNING"}]
    /\ published \subseteq Jobs
    /\ queue \in Seq(Jobs)
    /\ sm \in [Jobs -> {"none", "stored", "acquire", "wait"} \cup Holding \cup Ended]
    /\ lock \in BOOLEAN
    /\ pc \in [Jobs -> Steps \cup {"off", "exit"}]
    /\ stage \in [Jobs -> 1..3]
    /\ why \in [Jobs -> {"ok", "failed", "raised"}]
    /\ task \in [Jobs -> [Nodes -> {"none", "pending", "up", "stopping"} \cup Stopped]]
    /\ reg \in [Nodes -> SUBSET Jobs]
    /\ dns \in [Nodes -> SUBSET Jobs]
    /\ stray \subseteq Jobs
    /\ happened \subseteq Faults

Init ==
    /\ asked = [j \in Jobs |-> None]
    /\ status = [j \in Jobs |-> "none"]
    /\ published = {}
    /\ queue = << >>
    /\ sm = [j \in Jobs |-> "none"]
    /\ lock = FALSE
    /\ pc = [j \in Jobs |-> "off"]
    /\ stage = [j \in Jobs |-> 1]
    /\ why = [j \in Jobs |-> "ok"]
    /\ task = [j \in Jobs |-> [n \in Nodes |-> "none"]]
    /\ reg = [n \in Nodes |-> {}]
    /\ dns = [n \in Nodes |-> {}]
    /\ stray = {}
    /\ happened = {}

Goto(j, s) == sm' = [sm EXCEPT ![j] = s]
Jump(j, s) == pc' = [pc EXCEPT ![j] = s]
Record(j, s) == status' = [status EXCEPT ![j] = s]
Fault(f) == /\ f \in Faults
            /\ f \notin happened /\ Cardinality(happened) < MaxFaults
            /\ happened' = happened \cup {f}
-----------------------------------------------------------------------------
(* What the stack allows. *)

\* Calls granted to the Lambdas behind the API.
ApiGrants == [submit  |-> {"PutItem", "SendMessage"},
              status  |-> {"GetItem"},
              logs    |-> {"GetItem", "GetLogEvents"}]

\* Mutant of Granted: the statement with ecs:DescribeTasks names nothing else.
GrantedNoStopTask ==
    {"GetObject", "UpdateItem", "RunTask", "PassRole", "DescribeTasks",
     "RegisterInstance", "DeregisterInstance", "ListInstances",
     "CreateHealthCheck", "DeleteHealthCheck", "DescribeNetworkInterfaces"}

\* Calls granted to the orchestrator's task role.
Granted ==
    {"GetObject", "UpdateItem", "RunTask", "PassRole", "DescribeTasks", "StopTask",
     "RegisterInstance", "DeregisterInstance", "ListInstances",
     "CreateHealthCheck", "DeleteHealthCheck", "DescribeNetworkInterfaces"}

\* The calls of each step.  Cloud Map creates and deletes the health checks in the
\* caller's name.
Calls == [boot |-> {"UpdateItem"}, check |-> {"UpdateItem"}, fetch |-> {"GetObject"},
          clean |-> {"ListInstances", "DeregisterInstance", "DeleteHealthCheck"},
          launch |-> {"RunTask", "PassRole"}, up |-> {"DescribeTasks"},
          register |-> {"DescribeTasks", "DescribeNetworkInterfaces",
                        "RegisterInstance", "CreateHealthCheck"},
          dns |-> {}, publish |-> {"UpdateItem"},
          watch |-> {"DescribeTasks", "UpdateItem"},
          stop |-> {"StopTask"}, report |-> {"UpdateItem"}]

At(j, s) == pc[j] = s /\ Calls[s] \subseteq Granted

\* Mutant of Ingress: the parties' ports begin at 9001.
IngressFrom1 == (9001..9009) \cup {10000, 31415} \cup (16180..16189)

\* Ingress of the security group all tasks share, and the port a node listens on.
Ingress == (9000..9009) \cup {10000, 31415} \cup (16180..16189)
ListenPort(n) == IF n = N THEN 31415 ELSE 9000 + n
-----------------------------------------------------------------------------
(* The API, the queue and the lock. *)

\* Any parameters are accepted; put_item, before the message is sent.
Submit(j) ==
    /\ sm[j] = "none"
    /\ "PutItem" \in ApiGrants.submit
    /\ \E r \in Requests : asked' = [asked EXCEPT ![j] = r]
    /\ Record(j, "QUEUED")
    /\ Goto(j, "stored")
    /\ UNCHANGED <<published, queue, lock, procVars, meshVars>>

Queued(j) == \E i \in DOMAIN queue : queue[i] = j

Enqueue(j) ==
    /\ sm[j] = "stored" /\ ~Queued(j)
    /\ "SendMessage" \in ApiGrants.submit
    /\ queue' = Append(queue, j)
    /\ UNCHANGED <<sm, lock, rowVars, procVars, meshVars>>

\* send_message raises: the row is QUEUED and the job in no queue.
EnqueueRaises(j) ==
    /\ sm[j] = "stored" /\ ~Queued(j)
    /\ Fault("queue")
    /\ Goto(j, "dead")
    /\ UNCHANGED <<queue, lock, rowVars, procVars, meshVars>>

\* get_status.py and get_logs.py: what a client reads of a job's row.
StatusReply(j) ==
    [code |-> IF status[j] # "none" THEN 200 ELSE 404, status |-> status[j],
     endpoints |-> j \in published]
LogsReply(j) == IF status[j] # "none" /\ j \in published THEN 200 ELSE 404

\* Fire and forget: the pipe waits for nothing.
PipeStarts ==
    /\ queue # << >>
    /\ Goto(Head(queue), "acquire")
    /\ queue' = Tail(queue)
    /\ UNCHANGED <<lock, rowVars, procVars, meshVars>>

\* After three receptions the message moves to the dead-letter queue.
PipeGivesUp ==
    /\ queue # << >>
    /\ Fault("pipe")
    /\ Goto(Head(queue), "dead")
    /\ queue' = Tail(queue)
    /\ UNCHANGED <<lock, rowVars, procVars, meshVars>>

\* Mutant of AcquireLock: the PutItem carries no ConditionExpression.
AcquireLockAlways(j) ==
    /\ sm[j] = "acquire"
    /\ lock' = TRUE
    /\ Goto(j, "run")
    /\ UNCHANGED <<queue, rowVars, procVars, meshVars>>

AcquireLock(j) ==
    /\ sm[j] = "acquire"
    /\ IF lock THEN Goto(j, "wait") ELSE Goto(j, "run")
    /\ lock' = TRUE
    /\ UNCHANGED <<queue, rowVars, procVars, meshVars>>

WaitForLock(j) ==
    /\ sm[j] = "wait"
    /\ Goto(j, "acquire")
    /\ UNCHANGED <<queue, lock, rowVars, procVars, meshVars>>

RunOrchestrator(j) ==
    /\ sm[j] = "run" /\ pc[j] = "off"
    /\ Jump(j, "boot")
    /\ UNCHANGED <<machineVars, rowVars, stage, why, meshVars>>

\* The catch of RunOrchestrator: straight to ReleaseLockOnFailure.
RunOrchestratorFails(j) ==
    /\ sm[j] = "run" /\ pc[j] = "off"
    /\ Fault("launch")
    /\ Goto(j, "releaseFailed")
    /\ UNCHANGED <<queue, lock, rowVars, procVars, meshVars>>

\* Mutant of OrchestratorEnded: the integration pattern does not wait for the task.
OrchestratorStarted(j) ==
    /\ sm[j] = "run" /\ pc[j] # "off"
    /\ Goto(j, "release")
    /\ UNCHANGED <<queue, lock, rowVars, procVars, meshVars>>

\* RunTask.sync goes on when the task has stopped, and fails on its exit code.
OrchestratorEnded(j) ==
    /\ sm[j] = "run" /\ pc[j] = "exit"
    /\ Goto(j, IF why[j] = "ok" THEN "release" ELSE "releaseFailed")
    /\ UNCHANGED <<queue, lock, rowVars, procVars, meshVars>>

\* Mutant of ReleaseLock: the failure path ends without it.
ReleaseLockOnSuccess(j) ==
    /\ sm[j] \in {"release", "releaseFailed"}
    /\ lock' = (sm[j] # "release")
    /\ Goto(j, IF sm[j] = "release" THEN "succeeded" ELSE "failed")
    /\ UNCHANGED <<queue, rowVars, procVars, meshVars>>

\* ReleaseLock and ReleaseLockOnFailure: an unconditional DeleteItem.
ReleaseLock(j) ==
    /\ sm[j] \in {"release", "releaseFailed"}
    /\ lock' = FALSE
    /\ Goto(j, IF sm[j] = "release" THEN "succeeded" ELSE "failed")
    /\ UNCHANGED <<queue, rowVars, procVars, meshVars>>

\* The 2 h of the state machine: no further state runs, and the orchestrator is
\* stopped if that succeeds.
MachineTimesOut(j) ==
    /\ sm[j] \in Holding \cup {"acquire", "wait"}
    /\ Fault("timeout")
    /\ Goto(j, "dead")
    /\ \/ UNCHANGED procVars
       \/ /\ pc[j] \in Steps
          /\ Jump(j, "exit")
          /\ UNCHANGED <<stage, why>>
    /\ UNCHANGED <<queue, lock, rowVars, meshVars>>
-----------------------------------------------------------------------------
(* orchestrator.py *)

Team(j) == << {N}, {0}, 1 .. asked[j].parties - 1 >>[stage[j]]
Parties(j) == 0 .. asked[j].parties - 1
ValidSize(j) == 2 * asked[j].threshold + 1 <= asked[j].parties /\ asked[j].parties <= N

Leave(j, w) == Jump(j, "exit") /\ why' = [why EXCEPT ![j] = w] /\ UNCHANGED stage

\* The finally block, once the coordinator has been launched.
Finally(j, w) == Jump(j, "stop") /\ why' = [why EXCEPT ![j] = w] /\ UNCHANGED stage

\* An exception: main()'s finally block if it is inside, else the handler of
\* __main__, which records it.
Throw(j) ==
    IF pc[j] \in {"boot", "check", "fetch", "clean"} \/ (pc[j] = "launch" /\ stage[j] = 1)
    THEN Leave(j, "raised") /\ Record(j, "FAILED")
    ELSE Finally(j, "raised") /\ UNCHANGED status

\* num_parties and threshold are converted when the module is loaded, outside of
\* every handler; main() starts with the row.
Boot(j) ==
    /\ At(j, "boot")
    /\ IF asked[j].numeric THEN Jump(j, "check") /\ Record(j, "RUNNING") /\ UNCHANGED why
                           ELSE Jump(j, "exit") /\ UNCHANGED status
                                /\ why' = [why EXCEPT ![j] = "raised"]
    /\ UNCHANGED <<asked, published, machineVars, stage, meshVars>>

Check(j) ==
    /\ At(j, "check")
    /\ IF ValidSize(j) THEN Jump(j, "fetch") /\ UNCHANGED <<stage, why, status>>
                       ELSE Leave(j, "failed") /\ Record(j, "FAILED")
    /\ UNCHANGED <<asked, published, machineVars, meshVars>>

\* download_program
Fetch(j) ==
    /\ At(j, "fetch")
    /\ IF asked[j].uploaded THEN Jump(j, "clean") /\ UNCHANGED <<stage, why, status>>
                               ELSE Throw(j)
    /\ UNCHANGED <<asked, published, machineVars, meshVars>>

\* Mutant of Clean: only the coordinator's registrations are removed.
CleanCoordinator(j) ==
    /\ At(j, "clean")
    /\ reg' = [reg EXCEPT ![N] = {}]
    /\ Jump(j, "launch")
    /\ UNCHANGED <<rowVars, machineVars, stage, why, task, dns, stray>>

\* cleanup_stale_cloudmap for the coordinator and the parties of this job.
Clean(j) ==
    /\ At(j, "clean")
    /\ reg' = [n \in Nodes |-> IF n \in Parties(j) \cup {N} THEN {} ELSE reg[n]]
    /\ Jump(j, "launch")
    /\ UNCHANGED <<rowVars, machineVars, stage, why, task, dns, stray>>

LaunchAll(j, ns) == task' = [task EXCEPT ![j] = [n \in Nodes |-> IF n \in ns THEN "pending"
                                                                           ELSE @[n]]]

Launch(j) ==
    /\ At(j, "launch")
    /\ LaunchAll(j, Team(j))
    /\ Jump(j, "up")
    /\ UNCHANGED <<rowVars, machineVars, stage, why, reg, dns, stray>>

\* wait_running: the waiter fails as soon as a task has stopped.
WaitRunning(j) ==
    /\ At(j, "up")
    /\ \/ /\ \A n \in Team(j) : task[j][n] = "up"
          /\ Jump(j, "register")
          /\ UNCHANGED <<stage, why, status>>
       \/ /\ \E n \in Team(j) : task[j][n] \in Stopped
          /\ Throw(j)
    /\ UNCHANGED <<asked, published, machineVars, meshVars>>

RegisterAll(j, ns) == reg' = [n \in Nodes |-> IF n \in ns THEN reg[n] \cup {j} ELSE reg[n]]

\* Mutant of Register: the stages are walked past the last one.
RegisterOn(j) ==
    /\ At(j, "register")
    /\ RegisterAll(j, Team(j))
    /\ Jump(j, "dns") /\ UNCHANGED <<stage, why, status>>
    /\ UNCHANGED <<asked, published, machineVars, task, dns, stray>>

\* task_ips and register_cloudmap, one task after the other; a task that has stopped
\* meanwhile has no network interface to ask for.
Register(j) ==
    /\ At(j, "register")
    /\ RegisterAll(j, {n \in Team(j) : \A m \in Team(j) : m <= n => task[j][m] = "up"})
    /\ IF \A n \in Team(j) : task[j][n] = "up"
       THEN Jump(j, IF stage[j] = 3 THEN "publish" ELSE "dns") /\ UNCHANGED <<stage, why, status>>
       ELSE Throw(j)
    /\ UNCHANGED <<asked, published, machineVars, task, dns, stray>>

NextStage(j) == /\ Jump(j, "launch")
                /\ stage' = [stage EXCEPT ![j] = @ + 1]
                /\ UNCHANGED why

\* wait_for_dns: whatever address answers.
WaitForDns(j) ==
    /\ At(j, "dns")
    /\ \A n \in Team(j) : dns[n] # {}
    /\ NextStage(j)
    /\ UNCHANGED <<rowVars, machineVars, meshVars>>

\* update_job(endpoints, log_streams)
Publish(j) ==
    /\ At(j, "publish")
    /\ published' = published \cup {j}
    /\ Jump(j, "watch")
    /\ UNCHANGED <<asked, status, machineVars, stage, why, meshVars>>

\* Mutant of Watch: the exit codes are not looked at.
WatchStopped(j) ==
    /\ At(j, "watch")
    /\ \A n \in Parties(j) : task[j][n] \in Stopped
    /\ Finally(j, "ok")
    /\ UNCHANGED <<rowVars, machineVars, meshVars>>

\* wait_stopped, then the exit codes: none counts as zero.  fail() records the
\* failure before the finally block runs.
Watch(j) ==
    /\ At(j, "watch")
    /\ \A n \in Parties(j) : task[j][n] \in Stopped
    /\ IF \E n \in Parties(j) : task[j][n] = "bad"
       THEN Finally(j, "failed") /\ Record(j, "FAILED")
       ELSE Finally(j, "ok") /\ UNCHANGED status
    /\ UNCHANGED <<asked, published, machineVars, meshVars>>

StopTask(j) == task' = IF task[j][N] \in {"pending", "up"}
                       THEN [task EXCEPT ![j][N] = "stopping"] ELSE task

\* stop_task does not wait for the coordinator, and swallows every error.
StopCoordinator(j) ==
    /\ pc[j] = "stop"
    /\ IF "StopTask" \in Granted THEN StopTask(j) ELSE UNCHANGED task
    /\ Jump(j, "report")
    /\ UNCHANGED <<rowVars, machineVars, stage, why, reg, dns, stray>>

StopRaises(j) ==
    /\ pc[j] = "stop"
    /\ Fault("stop")
    /\ Jump(j, "report")
    /\ UNCHANGED <<rowVars, machineVars, stage, why, meshVars>>

\* Mutant of Report: fail() returns.
ReportAfterFail(j) ==
    /\ At(j, "report")
    /\ Jump(j, "exit")
    /\ IF why[j] = "raised" THEN Record(j, "FAILED") ELSE Record(j, "SUCCEEDED")
    /\ UNCHANGED <<asked, published, machineVars, stage, why, meshVars>>

\* The last lines of main(), or the handler of __main__.
Report(j) ==
    /\ At(j, "report")
    /\ Jump(j, "exit")
    /\ CASE why[j] = "ok" -> Record(j, "SUCCEEDED")
         [] why[j] = "raised" -> Record(j, "FAILED")
         [] why[j] = "failed" -> UNCHANGED status
    /\ UNCHANGED <<asked, published, machineVars, stage, why, meshVars>>

\* A call raises after the calls before it took effect, or its reply is lost.
Raises(j) ==
    /\ pc[j] \in {"check", "fetch", "clean", "launch", "up", "register", "publish", "watch"}
    /\ Fault("aws")
    /\ \/ UNCHANGED <<task, reg>>
       \/ /\ pc[j] = "launch"
          /\ \E n \in Team(j) : LaunchAll(j, {m \in Team(j) : m < n})
          /\ UNCHANGED reg
       \/ /\ pc[j] = "register"
          /\ \E n \in Team(j) : RegisterAll(j, {m \in Team(j) : m <= n})
          /\ UNCHANGED task
       \/ /\ pc[j] = "clean"
          /\ reg' = [reg EXCEPT ![N] = {}]
          /\ UNCHANGED task
    /\ Throw(j)
    /\ UNCHANGED <<asked, published, machineVars, dns, stray>>

\* update_item raises at the end of main(), the success recorded or not.
ReportRaises(j) ==
    /\ pc[j] = "report" /\ why[j] = "ok"
    /\ Fault("aws")
    /\ why' = [why EXCEPT ![j] = "raised"]
    /\ Record(j, "SUCCEEDED") \/ UNCHANGED status
    /\ UNCHANGED <<asked, published, machineVars, pc, stage, meshVars>>

\* The waiters' own limits: 300 s, 30 s and 3600 s.
WaitTimesOut(j) ==
    /\ \/ pc[j] = "up" /\ (\E n \in Team(j) : task[j][n] = "pending") /\ Fault("timeout")
       \/ pc[j] = "dns" /\ (\E n \in Team(j) : dns[n] = {}) /\ Fault("dns")
       \/ pc[j] = "watch" /\ (\E n \in Parties(j) : task[j][n] \notin Stopped)
          /\ Fault("timeout")
    /\ Throw(j)
    /\ UNCHANGED <<asked, published, machineVars, meshVars>>

\* The process ends without another write and without its finally block.  So it does
\* when update_item raises in the handler of __main__ ("report", or the step at which
\* main() was left before anything was launched).
Killed(j) ==
    /\ pc[j] \in Steps
    /\ Fault("kill")
    /\ Leave(j, "raised")
    /\ UNCHANGED <<rowVars, machineVars, meshVars>>
-----------------------------------------------------------------------------
(* ECS, Cloud Map and the programs (external). *)

SetTask(j, n, s) == task' = [task EXCEPT ![j][n] = s]

\* A party resolves the coordinator, and party0 unless it is party0, when its
\* container starts; none of them asks twice.
Answers(m) == IF dns[m] = {} THEN {None} ELSE dns[m]
Resolves(j, n) ==
    \E c \in Answers(N), p \in Answers(0) :
        stray' = IF sm[j] = "run" /\ n # N /\ (c # j \/ (n # 0 /\ p # j))
                 THEN stray \cup {j} ELSE stray

\* Deregistrations reach DNS before a task that was launched after them runs.
TaskRuns(j, n) ==
    /\ task[j][n] = "pending"
    /\ \A m \in Nodes : dns[m] \subseteq reg[m]
    /\ Resolves(j, n)
    /\ SetTask(j, n, "up")
    /\ UNCHANGED <<rowVars, machineVars, procVars, reg, dns>>

TaskRunsEarly(j, n) ==
    /\ task[j][n] = "pending"
    /\ \E m \in Nodes : ~(dns[m] \subseteq reg[m])
    /\ Fault("dns")
    /\ Resolves(j, n)
    /\ SetTask(j, n, "up")
    /\ UNCHANGED <<rowVars, machineVars, procVars, reg, dns>>

Propagate(n) ==
    /\ dns[n] # reg[n]
    /\ dns' = [dns EXCEPT ![n] = reg[n]]
    /\ UNCHANGED <<rowVars, machineVars, procVars, task, reg, stray>>

\* The mesh of job j is complete and every port it uses is open.
Together(j) ==
    /\ j \notin stray
    /\ task[j][N] = "up"
    /\ \A n \in Parties(j) : task[j][n] \in {"up", "ok"}
    /\ \A n \in Parties(j) \cup {N} : ListenPort(n) \in Ingress

Moves(j, n, from, to) == /\ task[j][n] = from
                         /\ SetTask(j, n, to)
                         /\ UNCHANGED <<rowVars, machineVars, procVars, reg, dns, stray>>

\* The entry point hands on the program's exit code after a sleep and a ping loop.  A
\* party waits for its peers, and is seen running, while the job is being launched.
Launched(j) == pc[j] \in {"publish", "watch", "stop", "report", "exit"}
PartySucceeds(j, n) == n # N /\ Moves(j, n, "up", "ok") /\ Together(j) /\ Launched(j)

\* Without its peers or its coordinator it may then give up, or hang.
PartyGivesUp(j, n) == n # N /\ Moves(j, n, "up", "bad") /\ ~Together(j) /\ Launched(j)

ProgramFails(j, n) == Moves(j, n, "up", "bad") /\ Fault("party")
HostLost(j, n) == Moves(j, n, "up", "lost") /\ Fault("host")
TaskFailsToStart(j, n) == Moves(j, n, "pending", "lost") /\ Fault("task")
CoordinatorStops(j) == Moves(j, N, "stopping", "lost")

\* A mesh that cannot complete keeps wait_stopped for its hour.
WatchExpires(j) ==
    /\ pc[j] = "watch"
    /\ ~Together(j) /\ \E n \in Parties(j) : task[j][n] \notin Stopped
    /\ Throw(j)
    /\ UNCHANGED <<asked, published, machineVars, meshVars>>
-----------------------------------------------------------------------------
MachineStep(j) ==
    /\ \/ Enqueue(j) \/ AcquireLock(j) \/ WaitForLock(j)
       \/ RunOrchestrator(j) \/ OrchestratorEnded(j) \/ ReleaseLock(j)
    /\ UNCHANGED happened

ProcessStep(j) ==
    /\ \/ Boot(j) \/ Check(j) \/ Fetch(j) \/ Clean(j) \/ Launch(j) \/ WaitRunning(j)
       \/ Register(j) \/ WaitForDns(j) \/ Publish(j) \/ Watch(j) \/ WatchExpires(j)
       \/ StopCoordinator(j) \/ Report(j)
    /\ UNCHANGED happened

TaskStep(j, n) ==
    /\ TaskRuns(j, n) \/ PartySucceeds(j, n) \/ (n = N /\ CoordinatorStops(j))
    /\ UNCHANGED happened

DnsStep == (\E n \in Nodes : Propagate(n)) /\ UNCHANGED happened

PipeStep == PipeStarts /\ UNCHANGED happened

FaultStep ==
    \/ PipeGivesUp
    \/ \E j \in Jobs :
          \/ EnqueueRaises(j) \/ RunOrchestratorFails(j) \/ MachineTimesOut(j)
          \/ StopRaises(j) \/ Raises(j) \/ ReportRaises(j) \/ WaitTimesOut(j) \/ Killed(j)
          \/ \E n \in Nodes : \/ TaskRunsEarly(j, n) \/ ProgramFails(j, n)
                              \/ HostLost(j, n) \/ TaskFailsToStart(j, n)

\* Steps that nobody has to take.
OutsideStep ==
    /\ \E j \in Jobs : \/ Submit(j)
                       \/ \E n \in Nodes : PartyGivesUp(j, n)
    /\ UNCHANGED happened

Next ==
    \/ \E j \in Jobs : MachineStep(j) \/ ProcessStep(j) \/ \E n \in Nodes : TaskStep(j, n)
    \/ DnsStep
    \/ PipeStep
    \/ OutsideStep
    \/ FaultStep

Spec == Init /\ [][Next]_vars

\* Lambda, the pipe, Step Functions, ECS and Cloud Map go on, and a complete mesh
\* computes: its clients send their inputs.
Fairness ==
    /\ \A j \in Jobs : /\ WF_vars(MachineStep(j)) /\ WF_vars(ProcessStep(j))
                       /\ \A n \in Nodes : WF_vars(TaskStep(j, n))
    /\ WF_vars(DnsStep) /\ WF_vars(PipeStep)

FairSpec == Spec /\ Fairness
-----------------------------------------------------------------------------
(* Properties *)

\* One state machine at a time is between AcquireLock and ReleaseLock, and the lock
\* is held while it is, whatever faults happen.
OneHolder ==
    \A j \in Jobs : sm[j] \in Holding =>
        lock /\ \A k \in Jobs : sm[k] \in Holding => k = j

\* The lock item is the binary semaphore that JobLock describes.
LockSpec == INSTANCE JobLock WITH holders <- {j \in Jobs : sm[j] \in Holding}
LockImplemented == LockSpec!Spec

\* The lock is never left taken behind an execution that ended: its holder is on its
\* way to ReleaseLock, unless the 2 h timeout ended an execution.
LockHasOwner == lock => (\E j \in Jobs : sm[j] \in Holding) \/ "timeout" \in happened

\* A job is SUCCEEDED only if each of its parties ended with exit code 0 or, when a
\* host was lost, with none; a client can then read the endpoints and the logs.
SuccessIsReal ==
    \A j \in Jobs : status[j] = "SUCCEEDED" =>
        /\ \A n \in Parties(j) : \/ task[j][n] = "ok"
                                 \/ task[j][n] = "lost" /\ "host" \in happened
        /\ StatusReply(j).endpoints /\ LogsReply(j) = 200

\* The execution ends as the row says: a job whose execution succeeded is SUCCEEDED,
\* one whose execution failed is FAILED, unless the orchestrator had no chance to
\* write it (it never started, was killed, its handler's own write raised, or
\* num_parties is no number).
RowFollowsMachine ==
    \A j \in Jobs :
        /\ sm[j] = "succeeded" => status[j] = "SUCCEEDED"
        /\ sm[j] = "failed" => \/ status[j] = "FAILED"
                               \/ {"launch", "kill"} \cap happened # {}
                               \/ ~asked[j].numeric

\* "must explicitly stop it ... in every case" (orchestrator.py 215-220): once the
\* lock is given back, the job's coordinator is not running, except after a failed
\* stop_task or a killed orchestrator.
CoordinatorIsStopped ==
    \A j \in Jobs : sm[j] \in {"succeeded", "failed"} =>
        \/ task[j][N] \notin {"pending", "up"}
        \/ {"stop", "kill"} \cap happened # {}

\* While its job runs, a party never resolves the coordinator or party0 to nothing or
\* to another job's task, whatever a failed job left behind, as long as
\* deregistrations reach DNS in time.
NobodyStrays == stray # {} => "dns" \in happened

\* A row that says FAILED keeps saying so, and so does SUCCEEDED unless the reply of
\* its write was lost.
VerdictStands ==
    [][\A j \in Jobs :
          /\ status[j] = "FAILED" => status'[j] = "FAILED"
          /\ status[j] = "SUCCEEDED" => status'[j] = "SUCCEEDED" \/ "aws" \in happened]_vars

\* "a crashed job never leaves the cluster permanently locked" (ARCHITECTURE.md 203):
\* under every fault but the 2 h timeout, whose execution runs no further state.
LockReturns == lock ~> ~lock \/ "timeout" \in happened

\* "only one job's coordinator+parties ever run at a time" (app.py 46-47).
OneJobRuns ==
    \A j, k \in Jobs : j # k =>
        \A m, n \in Nodes : ~(task[j][m] = "up" /\ task[k][n] = "up")

\* Faults that reach an orchestrator or its tasks: not those of the API, of the pipe
\* and of the orchestrator's own launch.
MeshFaults == happened \ {"queue", "pipe", "launch"}

\* What is true of that claim: tasks of two jobs meet only after a fault in the mesh.
\* The lock, the stages and the finally block are enough for everything else.
OverlapNeedsFault == OneJobRuns \/ MeshFaults # {}

\* A job fails for a reason: its size, its program, or a fault in the mesh.  Without
\* them no wait expires, no party misses its peers and no call is refused.
FailureHasCause ==
    \A j \in Jobs : status[j] = "FAILED" =>
        ~ValidSize(j) \/ ~asked[j].uploaded \/ MeshFaults # {}
=============================================================================
