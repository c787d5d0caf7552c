------------------------- MODULE OrchestratorProofs -------------------------
(***************************************************************************)
(* Proofs about Orchestrator for every set of jobs and requests, every     *)
(* size of the deployment and every choice of faults: type correctness,    *)
(* the lock, its refinement of JobLock and its owner, what a row and an    *)
(* ended execution say of a job, and that the coordinator is stopped.      *)
(*                                                                         *)
(* All but the lock and the queue is said of one job at a time, of the     *)
(* variables at that job (Local): an action changes one job, and Untouched *)
(* takes care of the others.                                               *)
(***************************************************************************)
EXTENDS Orchestrator, TLAPS

\* The queue holds stored jobs, each once.
QueueInv ==
    /\ \A i \in DOMAIN queue : sm[queue[i]] = "stored"
    /\ \A i, k \in DOMAIN queue : queue[i] = queue[k] => i = k

Early == {"off", "boot", "check", "fetch", "clean"}
Inside == {"fetch", "clean", "launch", "up", "register", "dns", "publish", "watch"}
Seen == {"register", "dns", "publish", "watch"}

\* The orchestrator starts when its execution holds the lock, and the execution goes on
\* when the orchestrator has exited.
Machine(j) ==
    /\ sm[j] = "none" => pc[j] = "off"
    /\ sm[j] \in {"stored", "acquire", "wait"} => pc[j] = "off" /\ asked[j] \in Requests
    /\ pc[j] # "off" => asked[j] \in Requests
    /\ sm[j] \in {"release", "succeeded"} => pc[j] = "exit"
    /\ sm[j] \in {"releaseFailed", "failed"} => pc[j] \in {"exit", "off"}
    /\ sm[j] = "run" => asked[j] \in Requests

\* The last stage is neither begun early nor left.
Stages(j) ==
    /\ pc[j] \in Early => stage[j] = 1
    /\ pc[j] = "dns" => stage[j] # 3
    /\ pc[j] \in {"publish", "watch"} => stage[j] = 3
    /\ pc[j] \in Inside => ValidSize(j)

\* The row has no verdict before the orchestrator writes it, and follows why it left.
Verdict(j) ==
    /\ pc[j] \in Early \cup Inside => status[j] \notin Terminal
    /\ pc[j] \in {"stop", "report"} =>
          /\ why[j] = "ok" => status[j] \notin Terminal
          /\ why[j] = "failed" => status[j] = "FAILED"
          /\ why[j] = "raised" => \/ status[j] \notin Terminal
                                  \/ (status[j] = "SUCCEEDED" /\ "aws" \in happened)
    /\ pc[j] = "exit" /\ sm[j] # "dead" =>
          IF why[j] = "ok" THEN status[j] = "SUCCEEDED"
          ELSE status[j] = "FAILED" \/ "kill" \in happened \/ ~asked[j].numeric
    /\ sm[j] \in {"release", "succeeded"} => status[j] = "SUCCEEDED"
    /\ sm[j] \in {"releaseFailed", "failed"} =>
          \/ status[j] = "FAILED"
          \/ "launch" \in happened \/ "kill" \in happened
          \/ ~asked[j].numeric

\* The coordinator is launched once, and stopped before the row is settled.
Coordinator(j) ==
    /\ pc[j] \in Early \/ (pc[j] = "launch" /\ stage[j] = 1) => task[j][N] = "none"
    /\ pc[j] \in {"report", "exit"} =>
          \/ task[j][N] \notin {"pending", "up"}
          \/ "stop" \in happened \/ "kill" \in happened
          \/ sm[j] = "dead"

\* A party whose stage was seen running.
Passed(j, n) ==
    \/ n = 0 /\ pc[j] \in Inside /\ stage[j] = 3
    \/ n = 0 /\ pc[j] \in Seen /\ stage[j] = 2
    \/ pc[j] \in Seen /\ stage[j] = 3

Ran(s) == s \in {"up", "ok", "bad"} \/ (s = "lost" /\ "host" \in happened)

Done(j) ==
    /\ ValidSize(j) /\ asked[j] \in Requests /\ j \in published
    /\ \A n \in Parties(j) : task[j][n] = "ok" \/ (task[j][n] = "lost" /\ "host" \in happened)

\* Success is written for a job whose parties all ran and ended well.
Success(j) ==
    /\ \A n \in Nodes : Passed(j, n) => (n \in Parties(j) => Ran(task[j][n]))
    /\ pc[j] = "watch" => j \in published
    /\ pc[j] \in {"stop", "report"} /\ why[j] = "ok" => Done(j)
    /\ status[j] = "SUCCEEDED" => Done(j)

JobInv(j) == Machine(j) /\ Stages(j) /\ Verdict(j) /\ Coordinator(j) /\ Success(j)

IInv == TypeOK /\ QueueInv /\ OneHolder /\ \A j \in Jobs : JobInv(j)
-----------------------------------------------------------------------------
(* Types *)

LEMMA CoordinatorNode == N \in Nodes /\ N \in Nat
  BY OrchestratorAssumption DEF OrchestratorAssumption, Nodes

LEMMA InitTypes == Init => TypeOK
  <1> SUFFICES ASSUME Init
               PROVE  TypeOK
    OBVIOUS
  <1>1. /\ asked \in [Jobs -> Requests \cup {None}]
        /\ status \in [Jobs -> Terminal \cup {"none", "QUEUED", "RUNNING"}]
        /\ sm \in [Jobs -> {"none", "stored", "acquire", "wait"} \cup Holding \cup Ended]
        /\ pc \in [Jobs -> Steps \cup {"off", "exit"}]
        /\ stage \in [Jobs -> 1..3]
        /\ why \in [Jobs -> {"ok", "failed", "raised"}]
    BY DEF Init
  <1>2. task \in [Jobs -> [Nodes -> {"none", "pending", "up", "stopping"} \cup Stopped]]
    BY DEF Init
  <1>3. reg \in [Nodes -> SUBSET Jobs] /\ dns \in [Nodes -> SUBSET Jobs]
    BY DEF Init
  <1>4. published \subseteq Jobs /\ stray \subseteq Jobs /\ happened \subseteq Faults
    BY DEF Init
  <1>5. queue \in Seq(Jobs)
    BY DEF Init
  <1>6. lock \in BOOLEAN
    BY DEF Init
  <1>7. QED
    BY <1>1, <1>2, <1>3, <1>4, <1>5, <1>6 DEF TypeOK

\* Launching or registering some nodes keeps the tables typed.
LEMMA LaunchTypes ==
  ASSUME TypeOK, NEW j \in Jobs, NEW ns, LaunchAll(j, ns)
  PROVE  task' \in [Jobs -> [Nodes -> {"none", "pending", "up", "stopping"} \cup Stopped]]
  BY DEF TypeOK, LaunchAll

LEMMA RegisterTypes ==
  ASSUME TypeOK, NEW j \in Jobs, NEW ns, RegisterAll(j, ns)
  PROVE  reg' \in [Nodes -> SUBSET Jobs]
  BY DEF TypeOK, RegisterAll

LEMMA ThrowTypes ==
  ASSUME TypeOK, NEW j \in Jobs, Throw(j)
  PROVE  /\ pc' \in [Jobs -> Steps \cup {"off", "exit"}]
         /\ why' \in [Jobs -> {"ok", "failed", "raised"}]
         /\ stage' = stage
         /\ status' \in [Jobs -> Terminal \cup {"none", "QUEUED", "RUNNING"}]
  BY DEF TypeOK, Throw, Leave, Finally, Jump, Record, Steps, Terminal

LEMMA ResolvesTypes ==
  ASSUME TypeOK, NEW j \in Jobs, NEW n, Resolves(j, n)
  PROVE  stray' \subseteq Jobs
  BY DEF TypeOK, Resolves

LEMMA StepTypes ==
  TypeOK /\ (\A j \in Jobs : Stages(j)) /\ [Next]_vars => TypeOK'
  <1> SUFFICES ASSUME TypeOK, \A j \in Jobs : Stages(j), [Next]_vars
               PROVE  TypeOK'
    OBVIOUS
  <1> USE OrchestratorAssumption, CoordinatorNode
      DEF OrchestratorAssumption, TypeOK, rowVars, machineVars, procVars, meshVars,
          Goto, Jump, Record, Fault, Steps, Terminal, Stopped, Holding, Ended
  <1>1. ASSUME NEW j \in Jobs, MachineStep(j)
        PROVE  TypeOK'
    <2>1. CASE Enqueue(j)
      BY <1>1, <2>1 DEF MachineStep, Enqueue
    <2>2. CASE AcquireLock(j)
      BY <1>1, <2>2 DEF MachineStep, AcquireLock
    <2>3. CASE WaitForLock(j)
      BY <1>1, <2>3 DEF MachineStep, WaitForLock
    <2>4. CASE RunOrchestrator(j)
      BY <1>1, <2>4 DEF MachineStep, RunOrchestrator
    <2>5. CASE OrchestratorEnded(j)
      BY <1>1, <2>5 DEF MachineStep, OrchestratorEnded
    <2>6. CASE ReleaseLock(j)
      BY <1>1, <2>6 DEF MachineStep, ReleaseLock
    <2>7. QED
      BY <1>1, <2>1, <2>2, <2>3, <2>4, <2>5, <2>6 DEF MachineStep
  <1>2. ASSUME NEW j \in Jobs, ProcessStep(j)
        PROVE  TypeOK'
    <2>1. UNCHANGED happened
      BY <1>2 DEF ProcessStep
    <2>2. CASE Boot(j)
      BY <2>1, <2>2 DEF Boot
    <2>3. CASE Check(j)
      BY <2>1, <2>3 DEF Check, Leave
    <2>4. CASE Fetch(j)
      BY <2>1, <2>4, ThrowTypes DEF Fetch
    <2>5. CASE Clean(j)
      BY <2>1, <2>5 DEF Clean
    <2>6. CASE Launch(j)
      BY <2>1, <2>6, LaunchTypes DEF Launch
    <2>7. CASE WaitRunning(j)
      BY <2>1, <2>7, ThrowTypes DEF WaitRunning
    <2>8. CASE Register(j)
      BY <2>1, <2>8, RegisterTypes, ThrowTypes DEF Register
    <2>9. CASE WaitForDns(j)
      <3>1. stage[j] \in 1..2
        BY <2>9 DEF WaitForDns, Stages, At
      <3>2. QED
        BY <2>1, <2>9, <3>1 DEF WaitForDns, NextStage
    <2>10. CASE Publish(j)
      BY <2>1, <2>10 DEF Publish
    <2>11. CASE Watch(j)
      BY ZenonT(60), <2>1, <2>11 DEF Watch, Finally
    <2>12. CASE WatchExpires(j)
      BY <2>1, <2>12, ThrowTypes DEF WatchExpires
    <2>13. CASE StopCoordinator(j)
      BY SMTT(30), <2>1, <2>13 DEF StopCoordinator, StopTask
    <2>14. CASE Report(j)
      <3>1. \/ \E s \in {"SUCCEEDED", "FAILED"} : status' = [status EXCEPT ![j] = s]
            \/ status' = status
        <4>1. why[j] \in {"ok", "raised", "failed"}
          OBVIOUS
        <4>2. QED
          BY <2>14, <4>1 DEF Report
      <3>2. status' \in [Jobs -> Terminal \cup {"none", "QUEUED", "RUNNING"}]
        BY <3>1
      <3>3. pc' = [pc EXCEPT ![j] = "exit"]
        BY <2>14 DEF Report
      <3>4. QED
        BY <2>1, <2>14, <3>2, <3>3 DEF Report
    <2>15. QED
      BY <1>2, <2>2, <2>3, <2>4, <2>5, <2>6, <2>7, <2>8, <2>9, <2>10, <2>11, <2>12,
         <2>13, <2>14 DEF ProcessStep
  <1>3. ASSUME NEW j \in Jobs, NEW n \in Nodes, TaskStep(j, n)
        PROVE  TypeOK'
    <2>1. CASE TaskRuns(j, n)
      BY <1>3, <2>1, ResolvesTypes DEF TaskStep, TaskRuns, SetTask
    <2>2. CASE PartySucceeds(j, n)
      BY <1>3, <2>2 DEF TaskStep, PartySucceeds, Moves, SetTask
    <2>3. CASE n = N /\ CoordinatorStops(j)
      BY <1>3, <2>3 DEF TaskStep, CoordinatorStops, Moves, SetTask
    <2>4. QED
      BY <1>3, <2>1, <2>2, <2>3 DEF TaskStep
  <1>4. CASE DnsStep
    BY <1>4 DEF DnsStep, Propagate
  <1>5. CASE PipeStep
    <2>1. Head(queue) \in Jobs /\ Tail(queue) \in Seq(Jobs)
      BY <1>5 DEF PipeStep, PipeStarts
    <2>2. QED
      BY <1>5, <2>1 DEF PipeStep, PipeStarts
  <1>6. CASE OutsideStep
    <2>1. ASSUME NEW j \in Jobs, Submit(j)
          PROVE  TypeOK'
      <3>1. PICK r \in Requests : asked' = [asked EXCEPT ![j] = r]
        BY <2>1 DEF Submit
      <3>2. QED
        BY <1>6, <2>1, <3>1 DEF OutsideStep, Submit
    <2>2. ASSUME NEW j \in Jobs, NEW n \in Nodes, PartyGivesUp(j, n)
          PROVE  TypeOK'
      BY <1>6, <2>2 DEF OutsideStep, PartyGivesUp, Moves, SetTask
    <2>3. QED
      BY <1>6, <2>1, <2>2 DEF OutsideStep
  <1>7. CASE PipeGivesUp
    <2>1. Head(queue) \in Jobs /\ Tail(queue) \in Seq(Jobs)
      BY <1>7 DEF PipeGivesUp
    <2>2. QED
      BY <1>7, <2>1 DEF PipeGivesUp
  <1>8. ASSUME NEW j \in Jobs, EnqueueRaises(j) \/ RunOrchestratorFails(j)
        PROVE  TypeOK'
    <2>1. CASE EnqueueRaises(j)
      BY <2>1 DEF EnqueueRaises
    <2>2. CASE RunOrchestratorFails(j)
      BY <2>2 DEF RunOrchestratorFails
    <2>3. QED
      BY <1>8, <2>1, <2>2
  <1>9. ASSUME NEW j \in Jobs, MachineTimesOut(j)
        PROVE  TypeOK'
    <2>1. /\ pc' \in [Jobs -> Steps \cup {"off", "exit"}]
          /\ UNCHANGED <<stage, why>>
      BY <1>9 DEF MachineTimesOut
    <2>2. sm' \in [Jobs -> {"none", "stored", "acquire", "wait"} \cup Holding \cup Ended]
      BY <1>9 DEF MachineTimesOut
    <2>3. QED
      BY <1>9, <2>1, <2>2 DEF MachineTimesOut
  <1>10. ASSUME NEW j \in Jobs, StopRaises(j) \/ ReportRaises(j) \/ Killed(j)
         PROVE  TypeOK'
    <2>1. CASE StopRaises(j)
      BY <2>1 DEF StopRaises
    <2>2. CASE ReportRaises(j)
      <3>1. status' \in [Jobs -> Terminal \cup {"none", "QUEUED", "RUNNING"}]
        BY <2>2 DEF ReportRaises
      <3>2. QED
        BY <2>2, <3>1 DEF ReportRaises
    <2>3. CASE Killed(j)
      BY <2>3 DEF Killed, Leave
    <2>4. QED
      BY <1>10, <2>1, <2>2, <2>3
  <1>11. ASSUME NEW j \in Jobs, Raises(j)
         PROVE  TypeOK'
    <2>1. task' \in [Jobs -> [Nodes -> {"none", "pending", "up", "stopping"} \cup Stopped]]
      BY <1>11, LaunchTypes DEF Raises
    <2>2. reg' \in [Nodes -> SUBSET Jobs]
      BY <1>11, RegisterTypes DEF Raises
    <2>3. QED
      BY <1>11, <2>1, <2>2, ThrowTypes DEF Raises
  <1>12. ASSUME NEW j \in Jobs, WaitTimesOut(j)
         PROVE  TypeOK'
    BY <1>12, ThrowTypes DEF WaitTimesOut
  <1>13. ASSUME NEW j \in Jobs, NEW n \in Nodes, TaskRunsEarly(j, n)
         PROVE  TypeOK'
    BY <1>13, ResolvesTypes DEF TaskRunsEarly, SetTask
  <1>14. ASSUME NEW j \in Jobs, NEW n \in Nodes,
                ProgramFails(j, n) \/ HostLost(j, n) \/ TaskFailsToStart(j, n)
         PROVE  TypeOK'
    <2>1. CASE ProgramFails(j, n)
      BY <2>1 DEF ProgramFails, Moves, SetTask
    <2>2. CASE HostLost(j, n)
      BY <2>2 DEF HostLost, Moves, SetTask
    <2>3. CASE TaskFailsToStart(j, n)
      BY <2>3 DEF TaskFailsToStart, Moves, SetTask
    <2>4. QED
      BY <1>14, <2>1, <2>2, <2>3
  <1>15. CASE UNCHANGED vars
    BY <1>15 DEF vars
  <1>16. QED
    BY <1>1, <1>2, <1>3, <1>4, <1>5, <1>6, <1>7, <1>8, <1>9, <1>10, <1>11, <1>12, <1>13,
       <1>14, <1>15 DEF Next, FaultStep
-----------------------------------------------------------------------------
(* One job *)

Local(j) == <<asked[j], status[j], sm[j], pc[j], stage[j], why[j], task[j]>>

\* A step that leaves a job alone keeps what is said of it.
LEMMA Untouched ==
  ASSUME NEW j \in Jobs, JobInv(j), UNCHANGED Local(j),
         published \subseteq published', happened \subseteq happened'
  PROVE  JobInv(j)'
  <1>1. Machine(j)' /\ Stages(j)'
    BY DEF Local, JobInv, Machine, Stages, ValidSize
  <1>2. Verdict(j)'
    BY DEF Local, JobInv, Verdict
  <1>3. Coordinator(j)'
    BY DEF Local, JobInv, Coordinator
  <1>4. Success(j)'
    <2>1. Done(j) => Done(j)'
      BY DEF Local, Done, ValidSize, Parties
    <2>2. \A n \in Nodes : /\ Passed(j, n)' => Passed(j, n)
                           /\ Ran(task[j][n]) => Ran(task[j][n])'
      BY DEF Local, Passed, Ran
    <2>3. Parties(j)' = Parties(j)
      BY DEF Local, Parties
    <2>4. QED
      BY <2>1, <2>2, <2>3 DEF Local, JobInv, Success
  <1>5. QED
    BY <1>1, <1>3, <1>4, <1>2 DEF JobInv

\* No row loses its endpoints, and no job but j is touched.
OnlyJob(j) ==
    /\ published \subseteq published'
    /\ \A k \in Jobs : k # j => UNCHANGED Local(k)

LEMMA OneJobSteps ==
  ASSUME \A k \in Jobs : JobInv(k), NEW j \in Jobs, JobInv(j)', OnlyJob(j),
         happened \subseteq happened'
  PROVE  \A k \in Jobs : JobInv(k)'
  BY Untouched DEF OnlyJob

LEMMA TeamIs ==
  ASSUME TypeOK, NEW j \in Jobs
  PROVE  /\ stage[j] \in 1..3
         /\ stage[j] = 1 => Team(j) = {N}
         /\ stage[j] = 2 => Team(j) = {0}
         /\ stage[j] = 3 => Team(j) = 1 .. asked[j].parties - 1
  <1>1. stage[j] \in 1..3
    BY DEF TypeOK
  <1>2. QED
    BY <1>1 DEF Team

\* The parties of a valid job, of which the coordinator is none.
LEMMA SizeIs ==
  ASSUME NEW j \in Jobs, asked[j] \in Requests, ValidSize(j)
  PROVE  /\ Parties(j) \subseteq Nodes /\ N \notin Parties(j)
         /\ asked[j].parties \in Nat \ {0} /\ asked[j].parties <= N
  <1>1. asked[j].parties \in Nat /\ asked[j].threshold \in Nat
    BY OrchestratorAssumption DEF OrchestratorAssumption
  <1>2. N \in Nat
    BY CoordinatorNode
  <1>3. QED
    BY <1>1, <1>2 DEF ValidSize, Parties, Nodes

LEMMA TaskOthers ==
  ASSUME TypeOK, NEW j \in Jobs, NEW n \in Nodes, NEW to,
         SetTask(j, n, to), UNCHANGED <<rowVars, machineVars, procVars>>
  PROVE  OnlyJob(j)
  BY DEF TypeOK, SetTask, OnlyJob, Local, rowVars, machineVars, procVars

LEMMA TaskMoves ==
  ASSUME TypeOK, \A k \in Jobs : JobInv(k),
         NEW j \in Jobs, NEW n \in Nodes, NEW to,
         SetTask(j, n, to), UNCHANGED <<rowVars, machineVars, procVars>>,
         happened \subseteq happened',
         task[j][n] \in {"pending", "up", "stopping"},
         to \in {"up", "ok", "bad", "lost"},
         task[j][n] # "pending" => to # "up",
         task[j][n] = "up" /\ to = "lost" => "host" \in happened'
  PROVE  \A k \in Jobs : JobInv(k)'
  <1>1. OnlyJob(j)
    BY TaskOthers
  <1>2. /\ \A m \in Nodes : m # n => task'[j][m] = task[j][m]
        /\ task'[j][n] = to
    BY DEF TypeOK, SetTask
  <1>3. Machine(j)' /\ Stages(j)'
    BY DEF JobInv, Machine, Stages, ValidSize, rowVars, machineVars, procVars
  <1>4. Verdict(j)'
    BY DEF JobInv, Verdict, rowVars, machineVars, procVars
  <1>5. Coordinator(j)'
    BY <1>2, CoordinatorNode DEF JobInv, Coordinator, rowVars, machineVars, procVars
  <1>6. Success(j)'
    <2>1. \A m \in Nodes : Ran(task[j][m]) => Ran(task[j][m])'
      BY <1>2 DEF Ran
    <2>2. \A m \in Nodes : (task[j][m] = "ok" \/ (task[j][m] = "lost" /\ "host" \in happened))
                           => task'[j][m] = task[j][m]
      BY <1>2
    <2>3. Done(j) => Done(j)'
      BY <2>2, SizeIs DEF Done, ValidSize, Parties, rowVars
    <2>4. /\ Parties(j)' = Parties(j)
          /\ \A m \in Nodes : Passed(j, m)' <=> Passed(j, m)
      BY DEF Parties, Passed, rowVars, procVars
    <2>5. QED
      BY <2>1, <2>3, <2>4 DEF JobInv, Success, rowVars, procVars
  <1>7. QED
    BY <1>1, <1>3, <1>5, <1>6, <1>4, OneJobSteps DEF JobInv, rowVars
-----------------------------------------------------------------------------
(* The steps of one job *)

LEMMA MachineOthers ==
  ASSUME TypeOK, NEW j \in Jobs,
         \/ Enqueue(j) \/ AcquireLock(j) \/ WaitForLock(j) \/ RunOrchestrator(j)
         \/ OrchestratorEnded(j) \/ ReleaseLock(j)
         \/ EnqueueRaises(j) \/ RunOrchestratorFails(j) \/ MachineTimesOut(j)
  PROVE  OnlyJob(j)
  <1> USE DEF OnlyJob, Local, Goto, Jump, Record, rowVars, machineVars, procVars, meshVars
  <1>1. CASE Enqueue(j)
    BY <1>1 DEF TypeOK, Enqueue
  <1>2. CASE AcquireLock(j)
    BY <1>2 DEF TypeOK, AcquireLock
  <1>3. CASE WaitForLock(j)
    BY <1>3 DEF TypeOK, WaitForLock
  <1>4. CASE RunOrchestrator(j)
    BY <1>4 DEF TypeOK, RunOrchestrator
  <1>5. CASE OrchestratorEnded(j)
    BY <1>5 DEF TypeOK, OrchestratorEnded
  <1>6. CASE ReleaseLock(j)
    BY <1>6 DEF TypeOK, ReleaseLock
  <1>7. CASE EnqueueRaises(j)
    BY <1>7 DEF TypeOK, EnqueueRaises
  <1>8. CASE RunOrchestratorFails(j)
    BY <1>8 DEF TypeOK, RunOrchestratorFails
  <1>9. CASE MachineTimesOut(j)
    BY <1>9 DEF TypeOK, MachineTimesOut
  <1>10. QED
    BY <1>1, <1>2, <1>3, <1>4, <1>5, <1>6, <1>7, <1>8, <1>9

LEMMA ThrowOthers ==
  ASSUME TypeOK, NEW j \in Jobs, Throw(j)
  PROVE  /\ UNCHANGED stage
         /\ \A k \in Jobs : k # j => UNCHANGED <<status[k], pc[k], why[k]>>
  BY DEF TypeOK, Throw, Leave, Finally, Jump, Record

LEMMA ProcessOthers ==
  ASSUME TypeOK, NEW j \in Jobs,
         \/ Boot(j) \/ Check(j) \/ Fetch(j) \/ Clean(j) \/ Launch(j) \/ WaitRunning(j)
         \/ Register(j) \/ WaitForDns(j) \/ Publish(j) \/ Watch(j) \/ WatchExpires(j)
         \/ StopCoordinator(j) \/ Report(j)
  PROVE  OnlyJob(j)
  <1> USE DEF OnlyJob, Local, Goto, Jump, Record, rowVars, machineVars, procVars, meshVars
  <1>1. CASE Boot(j)
    BY <1>1 DEF TypeOK, Boot
  <1>2. CASE Check(j)
    BY <1>2 DEF TypeOK, Check, Leave
  <1>3. CASE Fetch(j)
    BY <1>3, ThrowOthers DEF TypeOK, Fetch
  <1>4. CASE Clean(j)
    BY <1>4 DEF TypeOK, Clean
  <1>5. CASE Launch(j)
    BY <1>5 DEF TypeOK, Launch, LaunchAll
  <1>6. CASE WaitRunning(j)
    BY <1>6, ThrowOthers DEF TypeOK, WaitRunning
  <1>7. CASE Register(j)
    BY <1>7, ThrowOthers DEF TypeOK, Register
  <1>8. CASE WaitForDns(j)
    BY <1>8 DEF TypeOK, WaitForDns, NextStage
  <1>9. CASE Publish(j)
    BY <1>9 DEF TypeOK, Publish
  <1>10. CASE Watch(j)
    BY <1>10 DEF TypeOK, Watch, Finally
  <1>11. CASE WatchExpires(j)
    BY <1>11, ThrowOthers DEF TypeOK, WatchExpires
  <1>12. CASE StopCoordinator(j)
    BY <1>12 DEF TypeOK, StopCoordinator, StopTask
  <1>13. CASE Report(j)
    BY <1>13 DEF TypeOK, Report
  <1>14. QED
    BY <1>1, <1>2, <1>3, <1>4, <1>5, <1>6, <1>7, <1>8, <1>9, <1>10, <1>11, <1>12, <1>13

LEMMA FaultOthers ==
  ASSUME TypeOK, NEW j \in Jobs,
         \/ StopRaises(j) \/ ReportRaises(j) \/ Killed(j) \/ WaitTimesOut(j) \/ Raises(j)
         \/ Submit(j)
  PROVE  OnlyJob(j)
  <1> USE DEF OnlyJob, Local, Goto, Jump, Record, rowVars, machineVars, procVars, meshVars
  <1>1. CASE StopRaises(j)
    BY <1>1 DEF TypeOK, StopRaises
  <1>2. CASE ReportRaises(j)
    BY <1>2 DEF TypeOK, ReportRaises
  <1>3. CASE Killed(j)
    BY <1>3 DEF TypeOK, Killed, Leave
  <1>4. CASE WaitTimesOut(j)
    BY <1>4, ThrowOthers DEF TypeOK, WaitTimesOut
  <1>5. CASE Raises(j)
    BY <1>5, ThrowOthers DEF TypeOK, Raises, LaunchAll
  <1>6. CASE Submit(j)
    BY <1>6 DEF TypeOK, Submit
  <1>7. QED
    BY <1>1, <1>2, <1>3, <1>4, <1>5, <1>6

LEMMA MachineSteps ==
  ASSUME TypeOK, NEW j \in Jobs, JobInv(j), happened \subseteq happened',
         \/ Enqueue(j) \/ AcquireLock(j) \/ WaitForLock(j) \/ RunOrchestrator(j)
         \/ OrchestratorEnded(j) \/ ReleaseLock(j)
         \/ EnqueueRaises(j) \/ RunOrchestratorFails(j) \/ MachineTimesOut(j)
  PROVE  JobInv(j)'
  <1> USE DEF Goto, Jump, Fault, rowVars, machineVars, procVars, meshVars
  <1>1. CASE Enqueue(j)
    BY <1>1 DEF TypeOK, JobInv, Machine, Stages, Verdict, Coordinator, Success, Passed, Ran,
                Done, Enqueue, Early, Inside, Seen, Terminal, Holding, Parties, ValidSize
  <1>2. CASE AcquireLock(j)
    BY <1>2 DEF TypeOK, JobInv, Machine, Stages, Verdict, Coordinator, Success, Passed, Ran,
                Done, AcquireLock, Early, Inside, Seen, Terminal, Holding, Parties,
                ValidSize
  <1>3. CASE WaitForLock(j)
    BY <1>3 DEF TypeOK, JobInv, Machine, Stages, Verdict, Coordinator, Success, Passed, Ran,
                Done, WaitForLock, Early, Inside, Seen, Terminal, Holding, Parties,
                ValidSize
  <1>4. CASE RunOrchestrator(j)
    BY <1>4 DEF TypeOK, JobInv, Machine, Stages, Verdict, Coordinator, Success, Passed, Ran,
                Done, RunOrchestrator, Early, Inside, Seen, Terminal, Holding, Parties,
                ValidSize
  <1>5. CASE OrchestratorEnded(j)
    BY <1>5 DEF TypeOK, JobInv, Machine, Stages, Verdict, Coordinator, Success, Passed, Ran,
                Done, OrchestratorEnded, Early, Inside, Seen, Terminal, Holding, Parties,
                ValidSize
  <1>6. CASE ReleaseLock(j)
    BY <1>6 DEF TypeOK, JobInv, Machine, Stages, Verdict, Coordinator, Success, Passed, Ran,
                Done, ReleaseLock, Early, Inside, Seen, Terminal, Holding, Parties,
                ValidSize
  <1>7. CASE EnqueueRaises(j)
    BY <1>7 DEF TypeOK, JobInv, Machine, Stages, Verdict, Coordinator, Success, Passed, Ran,
                Done, EnqueueRaises, Early, Inside, Seen, Terminal, Holding, Parties,
                ValidSize
  <1>8. CASE RunOrchestratorFails(j)
    BY <1>8 DEF TypeOK, JobInv, Machine, Stages, Verdict, Coordinator, Success, Passed, Ran,
                Done, RunOrchestratorFails, Early, Inside, Seen, Terminal, Holding, Parties,
                ValidSize
  <1>9. CASE MachineTimesOut(j)
    <2>1. /\ sm[j] \in Holding \cup {"acquire", "wait"} /\ sm'[j] = "dead"
          /\ UNCHANGED <<asked, status, published, stage, why, task>>
          /\ pc'[j] = pc[j] \/ (pc'[j] = "exit" /\ pc[j] \in Steps)
      <3>1. \/ UNCHANGED procVars
            \/ pc[j] \in Steps /\ pc' = [pc EXCEPT ![j] = "exit"] /\ UNCHANGED <<stage, why>>
        BY <1>9 DEF MachineTimesOut
      <3>2. pc'[j] = pc[j] \/ (pc'[j] = "exit" /\ pc[j] \in Steps)
        <4>1. CASE UNCHANGED procVars
          BY <4>1 DEF procVars
        <4>2. CASE pc[j] \in Steps /\ pc' = [pc EXCEPT ![j] = "exit"]
          BY <4>2 DEF TypeOK
        <4>3. QED
          BY <3>1, <4>1, <4>2
      <3>3. QED
        BY <1>9, <3>1, <3>2 DEF TypeOK, MachineTimesOut
    <2>2. Machine(j)' /\ Stages(j)' /\ Verdict(j)' /\ Coordinator(j)'
      BY <2>1 DEF JobInv, Machine, Stages, Verdict, Coordinator, ValidSize, Early, Inside,
                  Steps, Holding
    <2>3. Success(j)'
      BY <2>1 DEF JobInv, Success, Passed, Ran, Done, ValidSize, Parties, Seen, Inside
    <2>4. QED
      BY <2>2, <2>3 DEF JobInv
  <1>10. QED
    BY <1>1, <1>2, <1>3, <1>4, <1>5, <1>6, <1>7, <1>8, <1>9

LEMMA Thrown ==
  ASSUME TypeOK, NEW j \in Jobs, JobInv(j), pc[j] \in Inside \cup {"check"}, Throw(j),
         UNCHANGED <<asked, published, sm, task>>, happened \subseteq happened'
  PROVE  JobInv(j)'
  <1>1. \/ /\ pc[j] \in {"check", "fetch", "clean"} \/ (pc[j] = "launch" /\ stage[j] = 1)
           /\ pc'[j] = "exit" /\ status'[j] = "FAILED"
        \/ /\ pc[j] \in Inside /\ pc'[j] = "stop" /\ status'[j] = status[j]
    BY DEF TypeOK, Throw, Leave, Finally, Jump, Record, Inside
  <1>2. why'[j] = "raised" /\ stage'[j] = stage[j]
    BY DEF TypeOK, Throw, Leave, Finally
  <1>3. Machine(j)' /\ Stages(j)'
    BY <1>1, <1>2 DEF JobInv, Machine, Stages, Early, Inside
  <1>4. Coordinator(j)'
    BY <1>1, <1>2 DEF JobInv, Coordinator, Early
  <1>5. sm[j] \notin {"release", "succeeded", "releaseFailed", "failed"}
    BY DEF JobInv, Machine, Inside
  <1>6. status[j] \notin Terminal
    BY DEF JobInv, Verdict, Early, Inside
  <1>7. Verdict(j)'
    <2>1. CASE pc'[j] = "exit" /\ status'[j] = "FAILED"
      BY <2>1, <1>2, <1>5 DEF Verdict, Early, Inside
    <2>2. CASE pc'[j] = "stop" /\ status'[j] = status[j]
      BY <2>2, <1>2, <1>5, <1>6 DEF Verdict, Early, Inside, Terminal
    <2>3. QED
      BY <1>1, <2>1, <2>2
  <1>8. Success(j)'
    BY <1>1, <1>2, <1>6 DEF JobInv, Success, Passed, Seen, Inside, Terminal
  <1>9. QED
    BY <1>3, <1>4, <1>8, <1>7 DEF JobInv

LEMMA ProcessSteps ==
  ASSUME TypeOK, NEW j \in Jobs, JobInv(j), happened \subseteq happened',
         \/ Boot(j) \/ Check(j) \/ Fetch(j) \/ Clean(j) \/ Launch(j) \/ WaitRunning(j)
         \/ Register(j) \/ WaitForDns(j) \/ Publish(j) \/ Watch(j) \/ WatchExpires(j)
         \/ StopCoordinator(j) \/ Report(j)
  PROVE  JobInv(j)'
  <1> USE DEF Goto, Jump, Record, Fault, At, rowVars, machineVars, procVars, meshVars
  <1>1. CASE Boot(j)
    BY <1>1 DEF TypeOK, JobInv, Machine, Stages, Verdict, Coordinator, Success, Passed, Ran,
                Done, Boot, Early, Inside, Seen, Terminal, Holding, Parties, ValidSize
  <1>2. CASE Check(j)
    BY <1>2 DEF TypeOK, JobInv, Machine, Stages, Verdict, Coordinator, Success, Passed, Ran,
                Done, Check, Leave, Early, Inside, Seen, Terminal, Holding, Parties,
                ValidSize
  <1>3. CASE Fetch(j)
    BY <1>3 DEF TypeOK, JobInv, Machine, Stages, Verdict, Coordinator, Success, Passed, Ran,
                Done, Fetch, Throw, Leave, Early, Inside, Seen, Terminal, Holding, Parties,
                ValidSize
  <1>4. CASE Clean(j)
    BY <1>4 DEF TypeOK, JobInv, Machine, Stages, Verdict, Coordinator, Success, Passed, Ran,
                Done, Clean, Early, Inside, Seen, Terminal, Holding, Parties, ValidSize
  <1>5. CASE Launch(j)
    BY <1>5, TeamIs, SizeIs, CoordinatorNode DEF TypeOK, JobInv, Machine, Stages, Verdict,
       Coordinator, Success, Passed, Ran, Done, Launch, LaunchAll, Early, Inside, Seen,
       Terminal, Holding, Parties, ValidSize
  <1>6. CASE WaitRunning(j)
    <2>1. CASE Throw(j)
      BY <1>6, <2>1, Thrown DEF WaitRunning, Inside
    <2>2. CASE Jump(j, "register")
      <3>1. /\ UNCHANGED <<asked, sm, published, task>>
          /\ pc[j] = "up" /\ pc'[j] = "register"
          /\ UNCHANGED <<stage, why, status>>
          /\ \A n \in Team(j) : task[j][n] = "up"
        BY <1>6, <2>2 DEF TypeOK, WaitRunning, Throw, Leave, Finally
      <3>2. Machine(j)' /\ Stages(j)' /\ Verdict(j)' /\ Coordinator(j)'
        BY <3>1 DEF JobInv, Machine, Stages, Verdict, Coordinator, ValidSize, Early, Inside
      <3>3. \A n \in Parties(j) : Passed(j, n)' => Passed(j, n) \/ n \in Team(j)
        BY <3>1, TeamIs, SizeIs DEF JobInv, Passed, Parties, Inside, Seen, Stages, Machine,
                                    Nodes
      <3>4. Success(j)'
        BY <3>1, <3>3 DEF JobInv, Success, Ran, Done, ValidSize, Parties
      <3>5. QED
        BY <3>2, <3>4 DEF JobInv
    <2>3. QED
      BY <1>6, <2>1, <2>2 DEF WaitRunning
  <1>7. CASE Register(j)
    <2>1. CASE Throw(j)
      BY <1>7, <2>1, Thrown DEF Register, Inside
    <2>2. CASE Jump(j, IF stage[j] = 3 THEN "publish" ELSE "dns") /\ UNCHANGED <<stage, why, status>>
      <3>1. /\ UNCHANGED <<asked, sm, published, task>>
          /\ pc[j] = "register" /\ UNCHANGED <<stage, why, status>>
          /\ pc'[j] = IF stage[j] = 3 THEN "publish" ELSE "dns"
        BY <1>7, <2>2 DEF TypeOK, Register
      <3>2. Machine(j)' /\ Stages(j)' /\ Verdict(j)' /\ Coordinator(j)'
        BY <3>1 DEF JobInv, Machine, Stages, Verdict, Coordinator, ValidSize, Early, Inside
      <3>3. Success(j)'
        BY <3>1 DEF JobInv, Success, Passed, Ran, Done, ValidSize, Parties, Seen, Inside
      <3>4. QED
        BY <3>2, <3>3 DEF JobInv
    <2>3. QED
      BY <1>7, <2>1, <2>2 DEF Register
  <1>8. CASE WaitForDns(j)
    <2>1. /\ UNCHANGED <<asked, sm, published, task>>
          /\ pc[j] = "dns" /\ pc'[j] = "launch" /\ UNCHANGED <<why, status>>
          /\ stage'[j] = stage[j] + 1 /\ stage[j] \in 1..3
      BY <1>8 DEF TypeOK, WaitForDns, NextStage
    <2>2. Machine(j)' /\ Stages(j)'
      BY <2>1 DEF JobInv, Machine, Stages, ValidSize, Early, Inside, Seen
    <2>3. Verdict(j)'
      BY <2>1 DEF JobInv, Verdict, Machine, Early, Inside, Terminal
    <2>4. Coordinator(j)'
      BY <2>1 DEF JobInv, Coordinator, Early
    <2>5. Success(j)'
      BY <2>1 DEF JobInv, Success, Passed, Ran, Done, ValidSize, Parties, Machine, Stages,
                  Seen, Inside, Early, Terminal, Verdict
    <2>6. QED
      BY <2>2, <2>3, <2>4, <2>5 DEF JobInv
  <1>9. CASE Publish(j)
    BY <1>9 DEF TypeOK, JobInv, Machine, Stages, Verdict, Coordinator, Success, Passed, Ran,
                Done, Publish, Early, Inside, Seen, Terminal, Holding, Parties, ValidSize
  <1>10. CASE Watch(j)
    <2>1. /\ UNCHANGED <<asked, sm, published, task>>
          /\ pc[j] = "watch" /\ pc'[j] = "stop"
          /\ \A n \in Parties(j) : task[j][n] \in Stopped
          /\ \/ why'[j] = "failed" /\ status'[j] = "FAILED"
             \/ /\ why'[j] = "ok" /\ status'[j] = status[j]
                /\ \A n \in Parties(j) : task[j][n] # "bad"
      BY <1>10 DEF TypeOK, Watch, Finally
    <2>2. Machine(j)' /\ Stages(j)'
      BY <2>1 DEF JobInv, Machine, Stages, ValidSize, Early, Inside, Seen
    <2>3. Verdict(j)'
      BY <2>1 DEF JobInv, Verdict, Machine, Early, Inside, Terminal
    <2>4. Coordinator(j)'
      BY <2>1 DEF JobInv, Coordinator, Early
    <2>5. Success(j)'
      BY <2>1, SizeIs DEF JobInv, Success, Passed, Ran, Done, ValidSize, Parties, Machine,
                          Stages, Seen, Inside, Early, Terminal, Verdict, Stopped
    <2>6. QED
      BY <2>2, <2>3, <2>4, <2>5 DEF JobInv
  <1>11. CASE WatchExpires(j)
    BY <1>11, Thrown DEF WatchExpires, Inside
  <1>12. CASE StopCoordinator(j)
    <2>1. /\ UNCHANGED <<asked, sm, published, stage, why, status>>
          /\ pc[j] = "stop" /\ pc'[j] = "report"
          /\ task'[j][N] \notin {"pending", "up"}
          /\ \A n \in Nodes : n # N => task'[j][n] = task[j][n]
      BY <1>12, CoordinatorNode DEF TypeOK, StopCoordinator, StopTask, Granted, Nodes
    <2>2. Machine(j)' /\ Stages(j)'
      BY <2>1 DEF JobInv, Machine, Stages, ValidSize, Early, Inside, Seen
    <2>3. Verdict(j)'
      BY <2>1 DEF JobInv, Verdict, Machine, Early, Inside, Terminal
    <2>4. Coordinator(j)'
      BY <2>1 DEF JobInv, Coordinator, Early
    <2>5. Done(j) => Done(j)'
      BY <2>1, SizeIs DEF Done, ValidSize, Parties
    <2>6. Success(j)'
      BY <2>1, <2>5 DEF JobInv, Success, Passed, Inside, Seen
    <2>7. QED
      BY <2>2, <2>3, <2>4, <2>5, <2>6 DEF JobInv
  <1>13. CASE Report(j)
    <2>1. /\ UNCHANGED <<asked, sm, published, task>>
          /\ UNCHANGED <<stage, why>> /\ pc[j] = "report" /\ pc'[j] = "exit"
          /\ why[j] = "ok" => status'[j] = "SUCCEEDED"
          /\ why[j] = "raised" => status'[j] = "FAILED"
          /\ why[j] = "failed" => status'[j] = status[j]
          /\ why[j] \in {"ok", "failed", "raised"}
      BY <1>13 DEF TypeOK, Report
    <2>2. Machine(j)' /\ Stages(j)'
      BY <2>1 DEF JobInv, Machine, Stages, ValidSize, Early, Inside, Seen
    <2>3. Verdict(j)'
      BY <2>1 DEF JobInv, Verdict, Machine, Early, Inside, Terminal
    <2>4. Coordinator(j)'
      BY <2>1 DEF JobInv, Coordinator, Early
    <2>5. Success(j)'
      BY <2>1 DEF JobInv, Success, Passed, Inside, Seen, Done, ValidSize, Parties, Verdict
    <2>6. QED
      BY <2>2, <2>3, <2>4, <2>5 DEF JobInv
  <1>14. QED
    BY <1>1, <1>2, <1>3, <1>4, <1>5, <1>6, <1>7, <1>8, <1>9, <1>10, <1>11, <1>12, <1>13

LEMMA FaultSteps ==
  ASSUME TypeOK, NEW j \in Jobs, JobInv(j), happened \subseteq happened',
         \/ StopRaises(j) \/ ReportRaises(j) \/ Killed(j) \/ WaitTimesOut(j) \/ Raises(j)
         \/ Submit(j)
  PROVE  JobInv(j)'
  <1> USE DEF Goto, Jump, Record, Fault, At, rowVars, machineVars, procVars, meshVars
  <1>1. CASE StopRaises(j)
    BY <1>1 DEF TypeOK, JobInv, Machine, Stages, Verdict, Coordinator, Success, Passed, Ran,
                Done, StopRaises, Early, Inside, Seen, Terminal, Holding, Parties, ValidSize
  <1>2. CASE ReportRaises(j)
    BY <1>2 DEF TypeOK, JobInv, Machine, Stages, Verdict, Coordinator, Success, Passed, Ran,
                Done, ReportRaises, Early, Inside, Seen, Terminal, Holding, Parties,
                ValidSize
  <1>3. CASE Killed(j)
    <2>1. /\ UNCHANGED <<asked, sm, published, task>>
          /\ UNCHANGED <<stage, status>> /\ pc[j] \in Steps /\ pc'[j] = "exit"
          /\ why'[j] = "raised" /\ "kill" \in happened'
      BY <1>3 DEF TypeOK, Killed, Leave
    <2>2. Machine(j)' /\ Stages(j)'
      BY <2>1 DEF JobInv, Machine, Stages, Early, Inside, Steps
    <2>3. Verdict(j)'
      BY <2>1 DEF JobInv, Verdict, Machine, Steps, Early, Inside
    <2>4. Coordinator(j)'
      BY <2>1 DEF JobInv, Coordinator, Early
    <2>5. Success(j)'
      BY <2>1 DEF JobInv, Success, Passed, Inside, Seen, Done, ValidSize, Parties
    <2>6. QED
      BY <2>2, <2>3, <2>4, <2>5 DEF JobInv
  <1>4. CASE WaitTimesOut(j)
    BY <1>4, Thrown DEF WaitTimesOut, Inside
  <1>5. CASE Raises(j)
    BY <1>5, TeamIs, SizeIs, CoordinatorNode DEF TypeOK, JobInv, Machine, Stages, Verdict,
       Coordinator, Success, Passed, Ran, Done, Raises, Throw, Leave, Finally, LaunchAll,
       Early, Inside, Seen, Terminal, Holding, Parties, ValidSize
  <1>6. CASE Submit(j)
    BY <1>6 DEF TypeOK, JobInv, Machine, Stages, Verdict, Coordinator, Success, Passed, Ran,
                Done, Submit, Early, Inside, Seen, Terminal, Holding, Parties, ValidSize
  <1>7. QED
    BY <1>1, <1>2, <1>3, <1>4, <1>5, <1>6
-----------------------------------------------------------------------------
(* The inductive invariant *)

LEMMA PipeSteps ==
  ASSUME TypeOK, QueueInv, \A k \in Jobs : JobInv(k), happened \subseteq happened',
         queue # << >>, NEW s \in {"acquire", "dead"}, Goto(Head(queue), s),
         UNCHANGED <<rowVars, procVars, meshVars>>
  PROVE  \A k \in Jobs : JobInv(k)'
  <1>1. PICK j \in Jobs : j = Head(queue) /\ sm[j] = "stored"
    BY DEF TypeOK, QueueInv
  <1>2. OnlyJob(j)
    BY <1>1 DEF TypeOK, Goto, OnlyJob, Local, rowVars, procVars, meshVars
  <1>3. sm'[j] = s /\ UNCHANGED <<asked, status, published, pc, stage, why, task>>
    BY <1>1 DEF TypeOK, Goto, rowVars, procVars, meshVars
  <1>4. Machine(j)' /\ Stages(j)'
    BY <1>1, <1>3 DEF JobInv, Machine, Stages, ValidSize
  <1>5. Verdict(j)' /\ Coordinator(j)'
    BY <1>1, <1>3 DEF JobInv, Machine, Verdict, Coordinator
  <1>6. Success(j)'
    BY <1>1, <1>3 DEF JobInv, Success, Passed, Ran, Done, ValidSize, Parties
  <1>7. QED
    BY <1>1, <1>2, <1>3, <1>4, <1>5, <1>6, OneJobSteps DEF JobInv

LEMMA JobsStep ==
  TypeOK /\ QueueInv /\ (\A k \in Jobs : JobInv(k)) /\ [Next]_vars => \A k \in Jobs : JobInv(k)'
  <1> SUFFICES ASSUME TypeOK, QueueInv, \A k \in Jobs : JobInv(k), [Next]_vars
               PROVE  \A k \in Jobs : JobInv(k)'
    OBVIOUS
  <1>1. ASSUME NEW j \in Jobs, MachineStep(j)
        PROVE  \A k \in Jobs : JobInv(k)'
    BY <1>1, MachineSteps, MachineOthers, OneJobSteps DEF MachineStep
  <1>2. ASSUME NEW j \in Jobs, ProcessStep(j)
        PROVE  \A k \in Jobs : JobInv(k)'
    BY <1>2, ProcessSteps, ProcessOthers, OneJobSteps DEF ProcessStep
  <1>3. ASSUME NEW j \in Jobs, NEW n \in Nodes, TaskStep(j, n)
        PROVE  \A k \in Jobs : JobInv(k)'
    <2> USE TaskMoves, CoordinatorNode DEF machineVars, procVars, rowVars
    <2>1. CASE TaskRuns(j, n)
      BY <1>3, <2>1 DEF TaskStep, TaskRuns
    <2>2. CASE PartySucceeds(j, n)
      BY <1>3, <2>2 DEF TaskStep, PartySucceeds, Moves
    <2>3. CASE n = N /\ CoordinatorStops(j)
      BY <1>3, <2>3 DEF TaskStep, CoordinatorStops, Moves
    <2>4. QED
      BY <1>3, <2>1, <2>2, <2>3 DEF TaskStep
  <1>4. CASE DnsStep
    <2>1. UNCHANGED <<rowVars, machineVars, procVars, task, happened>>
      BY <1>4 DEF DnsStep, Propagate
    <2>2. QED
      BY <2>1, Untouched DEF Local, rowVars, machineVars, procVars
  <1>5. CASE PipeStep
    BY <1>5, PipeSteps DEF PipeStep, PipeStarts
  <1>6. CASE OutsideStep
    <2>1. ASSUME NEW j \in Jobs, Submit(j)
          PROVE  \A k \in Jobs : JobInv(k)'
      BY <1>6, <2>1, FaultSteps, FaultOthers, OneJobSteps DEF OutsideStep
    <2>2. ASSUME NEW j \in Jobs, NEW n \in Nodes, PartyGivesUp(j, n)
          PROVE  \A k \in Jobs : JobInv(k)'
      BY <1>6, <2>2, TaskMoves DEF OutsideStep, PartyGivesUp, Moves
    <2>3. QED
      BY <1>6, <2>1, <2>2 DEF OutsideStep
  <1>7. CASE PipeGivesUp
    BY <1>7, PipeSteps DEF PipeGivesUp, Fault
  <1>8. ASSUME NEW j \in Jobs,
               EnqueueRaises(j) \/ RunOrchestratorFails(j) \/ MachineTimesOut(j)
        PROVE  \A k \in Jobs : JobInv(k)'
    <2>1. happened \subseteq happened'
      BY <1>8 DEF EnqueueRaises, RunOrchestratorFails, MachineTimesOut, Fault
    <2>2. QED
      BY <1>8, <2>1, MachineSteps, MachineOthers, OneJobSteps
  <1>9. ASSUME NEW j \in Jobs,
               \/ StopRaises(j) \/ Raises(j) \/ ReportRaises(j) \/ WaitTimesOut(j) \/ Killed(j)
        PROVE  \A k \in Jobs : JobInv(k)'
    <2>1. happened \subseteq happened'
      BY <1>9 DEF StopRaises, Raises, ReportRaises, WaitTimesOut, Killed, Fault
    <2>2. QED
      BY <1>9, <2>1, FaultSteps, FaultOthers, OneJobSteps
  <1>10. ASSUME NEW j \in Jobs, NEW n \in Nodes,
                \/ TaskRunsEarly(j, n) \/ ProgramFails(j, n) \/ HostLost(j, n)
                \/ TaskFailsToStart(j, n)
         PROVE  \A k \in Jobs : JobInv(k)'
    <2> USE TaskMoves DEF Fault
    <2>1. CASE TaskRunsEarly(j, n)
      BY <2>1 DEF TaskRunsEarly, machineVars, procVars, rowVars
    <2>2. CASE ProgramFails(j, n)
      BY <2>2 DEF ProgramFails, Moves
    <2>3. CASE HostLost(j, n)
      BY <2>3 DEF HostLost, Moves
    <2>4. CASE TaskFailsToStart(j, n)
      BY <2>4 DEF TaskFailsToStart, Moves
    <2>5. QED
      BY <1>10, <2>1, <2>2, <2>3, <2>4
  <1>11. CASE UNCHANGED vars
    BY <1>11, Untouched DEF Local, vars, rowVars, machineVars, procVars, meshVars
  <1>12. QED
    BY <1>1, <1>2, <1>3, <1>4, <1>5, <1>6, <1>7, <1>8, <1>9, <1>10, <1>11
       DEF Next, FaultStep

\* What a step does to the lock, the queue and the executions: it moves one execution, or
\* leaves them alone.
MachineMoves ==
    \/ UNCHANGED machineVars
    \/ \E j \in Jobs :
          \/ Submit(j) \/ Enqueue(j) \/ AcquireLock(j) \/ WaitForLock(j) \/ OrchestratorEnded(j)
          \/ ReleaseLock(j) \/ EnqueueRaises(j) \/ RunOrchestratorFails(j) \/ MachineTimesOut(j)
    \/ PipeStarts \/ PipeGivesUp

LEMMA EveryStep == [Next]_vars => MachineMoves
  <1> SUFFICES ASSUME [Next]_vars
               PROVE  MachineMoves
    OBVIOUS
  <1>1. ASSUME NEW j \in Jobs, MachineStep(j)
        PROVE  MachineMoves
    BY <1>1 DEF MachineStep, MachineMoves, RunOrchestrator
  <1>2. ASSUME NEW j \in Jobs, ProcessStep(j)
        PROVE  UNCHANGED machineVars
    BY <1>2 DEF ProcessStep, Boot, Check, Fetch, Clean, Launch, WaitRunning, Register,
                WaitForDns,
                Publish, Watch, WatchExpires, StopCoordinator, Report
  <1>3. ASSUME NEW j \in Jobs, NEW n \in Nodes, TaskStep(j, n)
        PROVE  UNCHANGED machineVars
    BY <1>3 DEF TaskStep, TaskRuns, PartySucceeds, CoordinatorStops, Moves
  <1>4. CASE DnsStep
    BY <1>4 DEF DnsStep, Propagate, MachineMoves
  <1>5. CASE PipeStep \/ OutsideStep
    BY <1>5 DEF PipeStep, OutsideStep, MachineMoves, PartyGivesUp, Moves
  <1>6. CASE FaultStep
    BY <1>6 DEF FaultStep, MachineMoves, StopRaises, Raises, ReportRaises, WaitTimesOut,
                Killed,
                TaskRunsEarly, ProgramFails, HostLost, TaskFailsToStart, Moves
  <1>7. CASE UNCHANGED vars
    BY <1>7 DEF vars, MachineMoves
  <1>8. QED
    BY <1>1, <1>2, <1>3, <1>4, <1>5, <1>6, <1>7 DEF Next, MachineMoves

LEMMA QueueStep == TypeOK /\ QueueInv /\ [Next]_vars => QueueInv'
  <1> SUFFICES ASSUME TypeOK, QueueInv, MachineMoves
               PROVE  QueueInv'
    BY EveryStep
  <1>1. CASE UNCHANGED machineVars
    BY <1>1 DEF QueueInv, machineVars
  <1>2. ASSUME NEW j \in Jobs, Enqueue(j)
        PROVE  QueueInv'
    BY <1>2 DEF TypeOK, QueueInv, Enqueue, Queued
  <1>3. ASSUME NEW j \in Jobs, NEW s, Goto(j, s), UNCHANGED queue,
               sm[j] # "stored" \/ ~Queued(j)
        PROVE  QueueInv'
    BY <1>3 DEF TypeOK, QueueInv, Goto, Queued
  <1>4. ASSUME NEW s, queue # << >>, Goto(Head(queue), s), queue' = Tail(queue)
        PROVE  QueueInv'
    BY <1>4 DEF TypeOK, QueueInv, Goto
  <1>5. ASSUME NEW j \in Jobs, Submit(j) \/ EnqueueRaises(j)
        PROVE  QueueInv'
    BY <1>3, <1>5 DEF Submit, EnqueueRaises
  <1>6. ASSUME NEW j \in Jobs,
               \/ AcquireLock(j) \/ WaitForLock(j) \/ OrchestratorEnded(j) \/ ReleaseLock(j)
               \/ RunOrchestratorFails(j) \/ MachineTimesOut(j)
        PROVE  QueueInv'
    BY <1>3, <1>6 DEF AcquireLock, WaitForLock, OrchestratorEnded, ReleaseLock,
                      RunOrchestratorFails, MachineTimesOut, Holding
  <1>7. CASE PipeStarts \/ PipeGivesUp
    BY <1>4, <1>7 DEF PipeStarts, PipeGivesUp
  <1>8. QED
    BY <1>1, <1>2, <1>5, <1>6, <1>7 DEF MachineMoves

LEMMA HolderStep == TypeOK /\ QueueInv /\ OneHolder /\ [Next]_vars => OneHolder'
  <1> SUFFICES ASSUME TypeOK, QueueInv, OneHolder, MachineMoves
               PROVE  OneHolder'
    BY EveryStep
  <1>1. CASE UNCHANGED machineVars
    BY <1>1 DEF OneHolder, machineVars
  <1>2. ASSUME NEW j \in Jobs, NEW s, Goto(j, s), lock' = lock, s \in Holding => sm[j] \in Holding
        PROVE  OneHolder'
    BY <1>2 DEF TypeOK, OneHolder, Goto
  <1>3. ASSUME NEW j \in Jobs, AcquireLock(j)
        PROVE  OneHolder'
    BY <1>3 DEF TypeOK, OneHolder, AcquireLock, Goto, Holding
  <1>4. ASSUME NEW j \in Jobs, ReleaseLock(j)
        PROVE  OneHolder'
    BY <1>4 DEF TypeOK, OneHolder, ReleaseLock, Goto, Holding
  <1>5. ASSUME NEW j \in Jobs, Submit(j) \/ WaitForLock(j) \/ EnqueueRaises(j)
        PROVE  OneHolder'
    BY <1>2, <1>5 DEF Submit, WaitForLock, EnqueueRaises, Holding
  <1>6. ASSUME NEW j \in Jobs, OrchestratorEnded(j) \/ RunOrchestratorFails(j)
        PROVE  OneHolder'
    BY <1>2, <1>6 DEF OrchestratorEnded, RunOrchestratorFails, Holding
  <1>7. ASSUME NEW j \in Jobs, MachineTimesOut(j)
        PROVE  OneHolder'
    BY <1>2, <1>7 DEF MachineTimesOut, Holding
  <1>8. CASE PipeStarts \/ PipeGivesUp
    <2>1. Head(queue) \in Jobs
      BY <1>8 DEF TypeOK, PipeStarts, PipeGivesUp
    <2>2. QED
      BY <1>2, <1>8, <2>1 DEF PipeStarts, PipeGivesUp, Holding
  <1>9. ASSUME NEW j \in Jobs, Enqueue(j)
        PROVE  OneHolder'
    BY <1>9 DEF Enqueue, OneHolder
  <1>10. QED
    BY <1>1, <1>3, <1>4, <1>5, <1>6, <1>7, <1>8, <1>9 DEF MachineMoves
-----------------------------------------------------------------------------
(* The theorems *)

LEMMA InitInvariant == Init => IInv
  <1> SUFFICES ASSUME Init
               PROVE  IInv
    OBVIOUS
  <1>1. TypeOK
    BY InitTypes
  <1>2. QueueInv /\ OneHolder
    BY DEF Init, QueueInv, OneHolder, Holding
  <1>3. ASSUME NEW j \in Jobs
        PROVE  JobInv(j)
    <2>1. /\ asked[j] = None /\ status[j] = "none" /\ sm[j] = "none" /\ pc[j] = "off"
          /\ stage[j] = 1 /\ task[j][N] = "none"
      BY CoordinatorNode DEF Init
    <2>2. Machine(j) /\ Stages(j) /\ Verdict(j) /\ Coordinator(j) /\ Success(j)
      BY <2>1 DEF Machine, Stages, Verdict, Coordinator, Success, Passed, Terminal,
                  Inside, Seen
    <2>3. QED
      BY <2>2 DEF JobInv
  <1>4. QED
    BY <1>1, <1>2, <1>3 DEF IInv

LEMMA StepInvariant == IInv /\ [Next]_vars => IInv'
  <1>1. IInv => \A j \in Jobs : Stages(j)
    BY DEF IInv, JobInv
  <1>2. QED
    BY <1>1, StepTypes, QueueStep, HolderStep, JobsStep DEF IInv

\* The inductive invariant holds in every reachable state.
THEOREM Invariance == Spec => []IInv
  BY InitInvariant, StepInvariant, PTL DEF Spec

\* Every variable keeps its type; the stages never go past the last.
THEOREM TypeCorrect == Spec => []TypeOK
  <1>1. IInv => TypeOK
    BY DEF IInv
  <1>2. QED
    BY <1>1, Invariance, PTL

\* At most one execution is between AcquireLock and ReleaseLock, and the lock is held
\* while it is, whatever faults happen.
THEOREM LockExclusion == Spec => []OneHolder
  <1>1. IInv => OneHolder
    BY DEF IInv
  <1>2. QED
    BY <1>1, Invariance, PTL

\* A job is SUCCEEDED only if each of its parties ended well, or without an exit code.
THEOREM SuccessIsEarned == Spec => []SuccessIsReal
  <1>1. IInv => SuccessIsReal
    <2> SUFFICES ASSUME IInv, NEW j \in Jobs, status[j] = "SUCCEEDED"
                 PROVE  /\ \A n \in Parties(j) :
                              task[j][n] = "ok" \/ (task[j][n] = "lost" /\ "host" \in happened)
                        /\ StatusReply(j).endpoints /\ LogsReply(j) = 200
      BY DEF SuccessIsReal
    <2>1. Done(j)
      BY DEF IInv, JobInv, Success
    <2>2. StatusReply(j).endpoints = (j \in published)
      BY DEF StatusReply
    <2>3. QED
      BY <2>1, <2>2 DEF Done, LogsReply
  <1>2. QED
    BY <1>1, Invariance, PTL

\* The row of an ended execution says how the execution ended.
THEOREM RowsFollow == Spec => []RowFollowsMachine
  <1>1. IInv => RowFollowsMachine
    BY DEF IInv, JobInv, Verdict, RowFollowsMachine
  <1>2. QED
    BY <1>1, Invariance, PTL

\* The coordinator of a job is stopped by the time the lock is given back.
THEOREM CoordinatorStopped == Spec => []CoordinatorIsStopped
  <1>1. IInv => CoordinatorIsStopped
    BY DEF IInv, JobInv, Machine, Coordinator, Early, CoordinatorIsStopped
  <1>2. QED
    BY <1>1, Invariance, PTL
-----------------------------------------------------------------------------
(* The verdict in a row *)

\* A row is written while the orchestrator has no verdict yet, or by its last lines.
RowWritten(j) ==
    \/ pc[j] \in Early \cup Inside
    \/ pc[j] = "report" /\ why[j] = "ok"
    \/ pc[j] = "report" /\ why[j] = "raised" /\ status'[j] = "FAILED"

LEMMA RowWrites ==
  ASSUME TypeOK, \A j \in Jobs : Machine(j), [Next]_vars, NEW j \in Jobs
  PROVE  status'[j] = status[j] \/ RowWritten(j)
  <1> DEFINE Claim == status'[j] = status[j] \/ RowWritten(j)
  <1> USE DEF RowWritten, rowVars, Record
  <1>1. ASSUME NEW k \in Jobs, MachineStep(k)
        PROVE  Claim
    BY <1>1 DEF MachineStep, Enqueue, AcquireLock, WaitForLock, RunOrchestrator,
                OrchestratorEnded, ReleaseLock
  <1>2. ASSUME NEW k \in Jobs, Throw(k) \/ UNCHANGED status, pc[k] \in Inside
        PROVE  Claim
    BY <1>2 DEF TypeOK, Throw
  <1>3. ASSUME NEW k \in Jobs, ProcessStep(k)
        PROVE  Claim
    <2>1. CASE Boot(k) \/ Check(k)
      BY <2>1 DEF TypeOK, Boot, Check, At, Early
    <2>2. CASE Fetch(k) \/ WaitRunning(k) \/ Register(k) \/ WatchExpires(k)
      BY <1>2, <2>2 DEF Fetch, WaitRunning, Register, WatchExpires, At, Inside
    <2>3. CASE Watch(k)
      BY <2>3 DEF TypeOK, Watch, At, Inside
    <2>4. CASE Report(k)
      BY <2>4 DEF TypeOK, Report, At
    <2>5. CASE Clean(k) \/ Launch(k) \/ WaitForDns(k) \/ Publish(k) \/ StopCoordinator(k)
      BY <2>5 DEF Clean, Launch, WaitForDns, Publish, StopCoordinator
    <2>6. QED
      BY <1>3, <2>1, <2>2, <2>3, <2>4, <2>5 DEF ProcessStep
  <1>4. ASSUME NEW k \in Jobs, NEW n \in Nodes, TaskStep(k, n)
        PROVE  Claim
    BY <1>4 DEF TaskStep, TaskRuns, PartySucceeds, CoordinatorStops, Moves
  <1>5. CASE DnsStep \/ PipeStep
    BY <1>5 DEF DnsStep, Propagate, PipeStep, PipeStarts
  <1>6. ASSUME NEW k \in Jobs, Submit(k)
        PROVE  Claim
    <2>1. pc[k] = "off"
      BY <1>6 DEF Submit, Machine
    <2>2. QED
      BY <1>6, <2>1 DEF TypeOK, Submit, Early
  <1>7. ASSUME NEW k \in Jobs, NEW n \in Nodes,
               \/ PartyGivesUp(k, n) \/ TaskRunsEarly(k, n) \/ ProgramFails(k, n)
               \/ HostLost(k, n) \/ TaskFailsToStart(k, n)
        PROVE  Claim
    BY <1>7 DEF PartyGivesUp, TaskRunsEarly, ProgramFails, HostLost, TaskFailsToStart, Moves
  <1>8. CASE PipeGivesUp
    BY <1>8 DEF PipeGivesUp
  <1>9. ASSUME NEW k \in Jobs,
               \/ EnqueueRaises(k) \/ RunOrchestratorFails(k) \/ MachineTimesOut(k)
               \/ StopRaises(k) \/ Killed(k)
        PROVE  Claim
    BY <1>9 DEF EnqueueRaises, RunOrchestratorFails, MachineTimesOut, StopRaises, Killed
  <1>10. ASSUME NEW k \in Jobs, Raises(k) \/ WaitTimesOut(k)
         PROVE  Claim
    <2>1. pc[k] \in Inside \cup {"check"} /\ Throw(k)
      BY <1>10 DEF Raises, WaitTimesOut, Inside
    <2>2. QED
      BY <2>1 DEF TypeOK, Throw, Early
  <1>11. ASSUME NEW k \in Jobs, ReportRaises(k)
         PROVE  Claim
    BY <1>11 DEF TypeOK, ReportRaises
  <1>12. CASE UNCHANGED vars
    BY <1>12 DEF vars
  <1>13. QED
    BY <1>1, <1>3, <1>4, <1>5, <1>6, <1>7, <1>8, <1>9, <1>10, <1>11, <1>12
       DEF Next, OutsideStep, FaultStep

\* A verdict once written stands, unless the reply to the write of a success was lost.
THEOREM VerdictsStand == Spec => VerdictStands
  <1> DEFINE Kept == \A j \in Jobs :
                        /\ status[j] = "FAILED" => status'[j] = "FAILED"
                        /\ status[j] = "SUCCEEDED" =>
                              status'[j] = "SUCCEEDED" \/ "aws" \in happened
  <1>1. IInv /\ [Next]_vars => [Kept]_vars
    <2> SUFFICES ASSUME IInv, [Next]_vars, NEW j \in Jobs
                 PROVE  /\ status[j] = "FAILED" => status'[j] = "FAILED"
                        /\ status[j] = "SUCCEEDED" =>
                              status'[j] = "SUCCEEDED" \/ "aws" \in happened
      OBVIOUS
    <2>1. status'[j] = status[j] \/ RowWritten(j)
      BY RowWrites DEF IInv, JobInv
    <2>2. Verdict(j)
      BY DEF IInv, JobInv
    <2>3. QED
      BY <2>1, <2>2 DEF RowWritten, Verdict, Terminal
  <1>2. QED
    BY <1>1, Invariance, PTL DEF Spec, VerdictStands
-----------------------------------------------------------------------------
(* The refinement of JobLock *)

Holders == {j \in Jobs : sm[j] \in Holding}

LEMMA HoldersAre ==
  ASSUME OneHolder
  PROVE  /\ ~lock => Holders = {}
         /\ \A j \in Jobs : sm[j] \in Holding => Holders = {j}
  BY DEF OneHolder, Holders

LEMMA LockStep == IInv /\ [Next]_vars => [LockSpec!Next]_(LockSpec!vars)
  <1> SUFFICES ASSUME IInv, MachineMoves
               PROVE  [LockSpec!Next]_(LockSpec!vars)
    BY EveryStep
  <1> USE DEF LockSpec!vars
  <1>1. CASE UNCHANGED machineVars
    BY <1>1 DEF machineVars
  <1>2. ASSUME NEW j \in Jobs, NEW s, Goto(j, s), lock' = lock, sm[j] \in Holding <=> s \in Holding
        PROVE  UNCHANGED LockSpec!vars
    BY <1>2 DEF IInv, TypeOK, Goto
  <1>3. ASSUME NEW j \in Jobs, AcquireLock(j)
        PROVE  [LockSpec!Next]_(LockSpec!vars)
    <2>1. CASE lock
      BY <1>2, <1>3, <2>1 DEF AcquireLock, Holding
    <2>2. CASE ~lock
      <3>1. Holders = {}
        BY <2>2, HoldersAre DEF IInv
      <3>2. Holders' = {j} /\ lock' = TRUE
        BY <1>3, <2>2, <3>1 DEF IInv, TypeOK, AcquireLock, Goto, Holders, Holding
      <3>3. QED
        BY <2>2, <3>2 DEF LockSpec!Next, LockSpec!Acquire, Holders
    <2>3. QED
      BY <2>1, <2>2
  <1>4. ASSUME NEW j \in Jobs, ReleaseLock(j)
        PROVE  LockSpec!Release(j)
    <2>1. Holders = {j}
      BY <1>4, HoldersAre DEF IInv, ReleaseLock, Holding
    <2>2. Holders' = {} /\ lock' = FALSE
      BY <1>4, <2>1 DEF IInv, TypeOK, ReleaseLock, Goto, Holders, Holding
    <2>3. QED
      BY <2>1, <2>2 DEF LockSpec!Release, Holders
  <1>5. ASSUME NEW j \in Jobs, MachineTimesOut(j)
        PROVE  [LockSpec!Next]_(LockSpec!vars)
    <2>1. Goto(j, "dead") /\ lock' = lock
      BY <1>5 DEF MachineTimesOut
    <2>2. CASE sm[j] \in Holding
      <3>1. Holders = {j}
        BY <2>2, HoldersAre DEF IInv
      <3>2. Holders' = {}
        BY <2>1, <3>1 DEF IInv, TypeOK, Goto, Holders, Holding
      <3>3. QED
        BY <2>1, <3>1, <3>2 DEF LockSpec!Next, LockSpec!Abandon, Holders
    <2>3. CASE sm[j] \notin Holding
      BY <1>2, <2>1, <2>3 DEF Holding
    <2>4. QED
      BY <2>2, <2>3
  <1>6. ASSUME NEW j \in Jobs,
               \/ Submit(j) \/ WaitForLock(j) \/ OrchestratorEnded(j) \/ EnqueueRaises(j)
               \/ RunOrchestratorFails(j)
        PROVE  UNCHANGED LockSpec!vars
    BY <1>2, <1>6 DEF Submit, WaitForLock, OrchestratorEnded, EnqueueRaises,
                      RunOrchestratorFails, Holding
  <1>7. ASSUME NEW j \in Jobs, Enqueue(j)
        PROVE  UNCHANGED LockSpec!vars
    BY <1>7 DEF Enqueue
  <1>8. CASE PipeStarts \/ PipeGivesUp
    <2>1. Head(queue) \in Jobs /\ sm[Head(queue)] = "stored"
      BY <1>8 DEF IInv, TypeOK, QueueInv, PipeStarts, PipeGivesUp
    <2>2. QED
      BY <1>2, <1>8, <2>1 DEF PipeStarts, PipeGivesUp, Holding
  <1>9. QED
    BY <1>1, <1>3, <1>4, <1>5, <1>6, <1>7, <1>8 DEF MachineMoves, LockSpec!Next

\* The lock item behaves as the binary semaphore of JobLock.
THEOREM LockRefinement == Spec => LockImplemented
  <1>1. Init => LockSpec!Init
    BY DEF Init, LockSpec!Init, Holding
  <1>2. QED
    BY <1>1, LockStep, Invariance, PTL DEF Spec, LockSpec!Spec, LockImplemented
-----------------------------------------------------------------------------
(* The lock is not left behind. *)

\* A fault that happened stays so.
LEMMA Happenings ==
  ASSUME [Next]_vars
  PROVE  happened \subseteq happened'
  <1>1. CASE FaultStep
    BY <1>1 DEF FaultStep, PipeGivesUp, EnqueueRaises, RunOrchestratorFails, MachineTimesOut,
                StopRaises, Raises, ReportRaises, WaitTimesOut, Killed, TaskRunsEarly,
                ProgramFails, HostLost, TaskFailsToStart, Fault
  <1>2. QED
    BY <1>1 DEF Next, MachineStep, ProcessStep, TaskStep, DnsStep, PipeStep, OutsideStep, vars

LEMMA OwnerStep ==
  TypeOK /\ QueueInv /\ LockHasOwner /\ [Next]_vars => LockHasOwner'
  <1> SUFFICES ASSUME TypeOK, QueueInv, LockHasOwner, MachineMoves, happened \subseteq happened'
               PROVE  LockHasOwner'
    BY EveryStep, Happenings
  <1>1. CASE UNCHANGED machineVars
    BY <1>1 DEF LockHasOwner, machineVars
  <1>2. ASSUME NEW j \in Jobs, NEW s, Goto(j, s), lock' = lock, sm[j] \in Holding => s \in Holding
        PROVE  LockHasOwner'
    <2>1. \A k \in Jobs : sm[k] \in Holding => sm'[k] \in Holding
      BY <1>2 DEF TypeOK, Goto
    <2>2. QED
      BY <1>2, <2>1 DEF LockHasOwner
  <1>3. ASSUME NEW j \in Jobs, AcquireLock(j)
        PROVE  LockHasOwner'
    <2>1. CASE lock
      BY <1>2, <1>3, <2>1 DEF AcquireLock, Holding
    <2>2. CASE ~lock
      BY <1>3, <2>2 DEF TypeOK, AcquireLock, Goto, Holding, LockHasOwner
    <2>3. QED
      BY <2>1, <2>2
  <1>4. ASSUME NEW j \in Jobs, ReleaseLock(j) \/ MachineTimesOut(j)
        PROVE  LockHasOwner'
    BY <1>4 DEF ReleaseLock, MachineTimesOut, Fault, LockHasOwner
  <1>5. ASSUME NEW j \in Jobs,
               \/ Submit(j) \/ WaitForLock(j) \/ OrchestratorEnded(j) \/ EnqueueRaises(j)
               \/ RunOrchestratorFails(j)
        PROVE  LockHasOwner'
    BY <1>2, <1>5 DEF Submit, WaitForLock, OrchestratorEnded, EnqueueRaises,
         RunOrchestratorFails, Holding
  <1>6. ASSUME NEW j \in Jobs, Enqueue(j)
        PROVE  LockHasOwner'
    BY <1>6 DEF Enqueue, LockHasOwner
  <1>7. CASE PipeStarts \/ PipeGivesUp
    <2>1. Head(queue) \in Jobs /\ sm[Head(queue)] = "stored"
      BY <1>7 DEF TypeOK, QueueInv, PipeStarts, PipeGivesUp
    <2>2. QED
      BY <1>2, <1>7, <2>1 DEF PipeStarts, PipeGivesUp, Holding
  <1>8. QED
    BY <1>1, <1>3, <1>4, <1>5, <1>6, <1>7 DEF MachineMoves

\* The lock is never left taken behind an execution that ended, unless the 2 h timeout
\* ended one: every other way out of the held states passes ReleaseLock.
THEOREM LockOwned == Spec => []LockHasOwner
  <1>1. Init => LockHasOwner
    BY DEF Init, LockHasOwner
  <1>2. IInv /\ LockHasOwner /\ [Next]_vars => LockHasOwner'
    BY OwnerStep DEF IInv
  <1>3. QED
    BY <1>1, <1>2, Invariance, PTL DEF Spec
=============================================================================
