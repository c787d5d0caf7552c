-------------------- MODULE OrchestratorFaultlessProofs --------------------
(***************************************************************************)
(* Proofs of what jobs on Fargate do while no fault reaches the mesh, for  *)
(* every set of jobs and every size: tasks of two jobs never run together, *)
(* and a job fails only for its size or its program.                       *)
(*                                                                         *)
(* Until the first such fault every node's task is where its stage says    *)
(* (Calm): a stage that was passed is up, the ones to come are not         *)
(* launched, and what an orchestrator leaves behind has ended.             *)
(***************************************************************************)
EXTENDS OrchestratorAddressProofs

Quiet == MeshFaults = {}

\* The stage that launches a node.
Turn(n) == IF n = N THEN 1 ELSE IF n = 0 THEN 2 ELSE 3

Launching(j, n) ==
    /\ n \in Parties(j) \cup {N}
    /\ Turn(n) < stage[j] \/ (Turn(n) = stage[j] /\ pc[j] # "launch")

\* Why an orchestrator left, and what its row says of it.
Reason(j) ==
    /\ sm[j] = "dead" => pc[j] = "off"
    /\ pc[j] \in {"stop", "report"} => why[j] = "ok"
    /\ status[j] = "FAILED" => ~ValidSize(j) \/ ~asked[j].uploaded

\* Where node n is, from what the orchestrator does.
Calm(j, n) ==
    /\ pc[j] \in Early => task[j][n] = "none"
    /\ pc[j] \in Naming =>
          IF Launching(j, n)
          THEN \/ task[j][n] = "up"
               \/ task[j][n] = "pending" /\ pc[j] = "up" /\ Turn(n) = stage[j]
          ELSE task[j][n] = "none"
    /\ pc[j] \in {"publish", "watch", "stop"} =>
          IF n = N THEN task[j][n] = "up"
          ELSE IF n \in Parties(j)
               THEN task[j][n] = "ok" \/ (task[j][n] = "up" /\ pc[j] # "stop")
               ELSE task[j][n] = "none"
    /\ pc[j] \in {"report", "exit"} =>
          task[j][n] \in IF n = N THEN {"none", "stopping", "lost"} ELSE {"none", "ok"}

AllCalm(j) == Reason(j) /\ \A n \in Nodes : Calm(j, n)

FInv == AInv /\ (Quiet => \A j \in Jobs : AllCalm(j))
-----------------------------------------------------------------------------
\* A step without a fault of the mesh is one of the code, of DNS, of a task that runs,
\* succeeds or stops, or a fault of the API, of the pipe or of the launch.
CalmMachine(j) ==
    \/ Submit(j) \/ Enqueue(j) \/ AcquireLock(j) \/ WaitForLock(j) \/ OrchestratorEnded(j)
    \/ ReleaseLock(j) \/ EnqueueRaises(j) \/ RunOrchestrator(j) \/ RunOrchestratorFails(j)

CalmTask(j, n) ==
    TaskRuns(j, n) \/ PartySucceeds(j, n) \/ (n = N /\ CoordinatorStops(j)) \/ PartyGivesUp(j, n)

LEMMA QuietSteps ==
  ASSUME [Next]_vars, Quiet'
  PROVE  /\ Quiet
         /\ \/ \E j \in Jobs : CalmMachine(j) \/ ProcessStep(j)
            \/ PipeStarts \/ PipeGivesUp
            \/ \E j \in Jobs, n \in Nodes : CalmTask(j, n)
            \/ \E n \in Nodes : Propagate(n)
            \/ UNCHANGED vars
  <1>1. Quiet
    BY Happenings DEF Quiet, MeshFaults
  <1>2. ASSUME NEW f \in {"kill", "aws", "stop", "task", "party", "host", "dns", "timeout"},
               Fault(f)
        PROVE  FALSE
    BY <1>2 DEF Quiet, MeshFaults, Fault
  <1>3. ASSUME NEW j \in Jobs,
               \/ MachineTimesOut(j) \/ StopRaises(j) \/ Raises(j) \/ ReportRaises(j)
               \/ WaitTimesOut(j) \/ Killed(j)
        PROVE  FALSE
    BY <1>2, <1>3 DEF MachineTimesOut, StopRaises, Raises, ReportRaises, WaitTimesOut, Killed
  <1>4. ASSUME NEW j \in Jobs, NEW n \in Nodes,
               \/ TaskRunsEarly(j, n) \/ ProgramFails(j, n) \/ HostLost(j, n)
               \/ TaskFailsToStart(j, n)
        PROVE  FALSE
    BY <1>2, <1>4 DEF TaskRunsEarly, ProgramFails, HostLost, TaskFailsToStart
  <1>5. QED
    BY <1>1, <1>3, <1>4, Classes DEF MachineOnly, ProcessOnly, TaskOnly, CalmMachine, CalmTask

\* A job that a step leaves alone stays calm.
LEMMA CalmStays ==
  ASSUME NEW j \in Jobs, AllCalm(j), UNCHANGED Local(j)
  PROVE  AllCalm(j)'
  <1>1. Reason(j)'
    BY DEF AllCalm, Reason, Local, ValidSize
  <1>2. \A n \in Nodes : Calm(j, n)'
    BY DEF AllCalm, Calm, Local, Launching, Parties
  <1>3. QED
    BY <1>1, <1>2 DEF AllCalm

LEMMA CalmMachineStep ==
  ASSUME AInv, NEW j \in Jobs, AllCalm(j), CalmMachine(j)
  PROVE  AllCalm(j)'
  <1>1. TypeOK /\ Machine(j) /\ Coordinator(j)
    BY DEF AInv, IInv, JobInv
  <1> USE <1>1 DEF Goto, Jump, Record, rowVars, procVars, meshVars, machineVars
  <1>2. ASSUME UNCHANGED <<asked[j], status[j], pc[j], stage[j], why[j], task[j]>>,
               sm'[j] = "dead" => pc[j] = "off"
        PROVE  AllCalm(j)'
    <2>1. Reason(j)'
      BY <1>2 DEF AllCalm, Reason, ValidSize
    <2>2. \A n \in Nodes : Calm(j, n)'
      BY <1>2 DEF AllCalm, Calm, Launching, Parties
    <2>3. QED
      BY <2>1, <2>2 DEF AllCalm
  <1>3. CASE Submit(j)
    <2>1. /\ pc[j] = "off" /\ pc'[j] = "off" /\ sm'[j] = "stored" /\ status'[j] = "QUEUED"
          /\ UNCHANGED task
      BY <1>3 DEF TypeOK, Submit, Machine
    <2>2. QED
      BY <2>1 DEF AllCalm, Reason, Calm, Early, Naming
  <1>4. CASE RunOrchestrator(j)
    <2>1. /\ pc[j] = "off" /\ pc'[j] = "boot" /\ UNCHANGED <<task, asked, status>>
          /\ sm'[j] = "run"
      BY <1>4 DEF TypeOK, RunOrchestrator
    <2>2. Reason(j)'
      BY <2>1 DEF AllCalm, Reason, ValidSize
    <2>3. \A n \in Nodes : Calm(j, n)'
      BY <2>1 DEF AllCalm, Calm, Early, Naming
    <2>4. QED
      BY <2>2, <2>3 DEF AllCalm
  <1>5. CASE Enqueue(j) \/ EnqueueRaises(j)
    BY <1>2, <1>5 DEF TypeOK, Machine, Enqueue, EnqueueRaises, AllCalm, Reason
  <1>6. CASE AcquireLock(j) \/ WaitForLock(j) \/ OrchestratorEnded(j) \/ ReleaseLock(j)
             \/ RunOrchestratorFails(j)
    <2>1. sm'[j] # "dead"
      BY <1>6 DEF TypeOK, AcquireLock, WaitForLock, OrchestratorEnded, ReleaseLock,
                  RunOrchestratorFails
    <2>2. QED
      BY <1>2, <1>6, <2>1 DEF AcquireLock, WaitForLock, OrchestratorEnded, ReleaseLock,
                  RunOrchestratorFails
  <1>7. QED
    BY <1>3, <1>4, <1>5, <1>6 DEF CalmMachine
-----------------------------------------------------------------------------
(* The stages and the mesh *)

\* The tasks of a stage.
LEMMA TeamTurn ==
  ASSUME TypeOK, NEW j \in Jobs, asked[j] \in Requests, ValidSize(j)
  PROVE  /\ Team(j) \subseteq Nodes
         /\ \A n \in Nodes : n \in Team(j) <=> n \in Parties(j) \cup {N} /\ Turn(n) = stage[j]
  <1>1. /\ asked[j].parties \in Nat \ {0} /\ asked[j].parties <= N
        /\ Parties(j) \subseteq Nodes /\ N \notin Parties(j)
    BY SizeIs
  <1>2. N \in Nat /\ N \in Nodes /\ 0 \in Nodes /\ N # 0
    BY CoordinatorNode, Party0Node
  <1>3. 0 \in Parties(j) /\ \A n \in Nodes : n \in 1 .. asked[j].parties - 1 <=>
                                               n \in Parties(j) /\ n # 0
    BY <1>1, <1>2 DEF Parties, Nodes
  <1>4. 1 .. asked[j].parties - 1 \subseteq Nodes
    BY <1>1, <1>2 DEF Nodes
  <1>5. CASE stage[j] = 1
    BY <1>2, <1>5, TeamIs DEF Turn
  <1>6. CASE stage[j] = 2
    BY <1>1, <1>2, <1>3, <1>6, TeamIs DEF Turn
  <1>7. CASE stage[j] = 3
    <2>1. Team(j) = 1 .. asked[j].parties - 1
      BY <1>7, TeamIs
    <2>2. \A n \in Nodes : n \in Parties(j) \cup {N} /\ Turn(n) = 3 <=> n \in Parties(j) /\ n # 0
      BY <1>1 DEF Turn
    <2>3. QED
      BY <1>3, <1>4, <1>7, <2>1, <2>2
  <1>8. QED
    BY <1>5, <1>6, <1>7, TeamIs

\* A published mesh is complete: nobody strays and every port is open.
LEMMA MeshIsWhole ==
  ASSUME AInv, Quiet, NEW j \in Jobs, AllCalm(j), pc[j] \in {"publish", "watch"}
  PROVE  Together(j)
  <1>1. TypeOK /\ asked[j] \in Requests /\ ValidSize(j)
    BY DEF AInv, IInv, JobInv, Machine, Stages, Inside
  <1>2. stray = {}
    BY DEF AInv, NobodyStrays, Quiet, MeshFaults
  <1>3. Parties(j) \subseteq Nodes /\ N \notin Parties(j) /\ N \in Nodes
    BY <1>1, SizeIs, CoordinatorNode
  <1>4. task[j][N] = "up" /\ \A n \in Parties(j) : task[j][n] \in {"up", "ok"}
    <2>1. \A n \in Nodes : Calm(j, n)
      BY DEF AllCalm
    <2>2. QED
      BY <1>3, <2>1 DEF Calm
  <1>5. \A n \in Parties(j) \cup {N} : ListenPort(n) \in Ingress
    <2>1. asked[j].parties \in Nat /\ asked[j].parties <= N /\ N \in 1..10
      BY <1>1, SizeIs, OrchestratorAssumption DEF OrchestratorAssumption
    <2>2. \A n \in Parties(j) : n \in 0..9 /\ n # N
      BY <2>1 DEF Parties
    <2>3. \A n \in Parties(j) : ListenPort(n) \in 9000..9009
      BY <2>2 DEF ListenPort
    <2>4. ListenPort(N) = 31415
      BY DEF ListenPort
    <2>5. QED
      BY <2>3, <2>4 DEF Ingress
  <1>6. QED
    BY <1>2, <1>4, <1>5 DEF Together

\* What a step does at the nodes of a job that stays in its stage.
LEMMA CalmTaskStep ==
  ASSUME AInv, Quiet, NEW j \in Jobs, AllCalm(j), NEW n \in Nodes, CalmTask(j, n)
  PROVE  AllCalm(j)'
  <1>1. TypeOK /\ Calm(j, n)
    BY DEF AInv, IInv, AllCalm
  <1>2. UNCHANGED <<asked, status, sm, pc, stage, why>>
    BY DEF CalmTask, TaskRuns, PartySucceeds, CoordinatorStops, PartyGivesUp, Moves,
           rowVars, machineVars, procVars
  <1>3. ASSUME NEW to, SetTask(j, n, to)
        PROVE  task'[j][n] = to /\ \A m \in Nodes : m # n => task'[j][m] = task[j][m]
    BY <1>1, <1>3 DEF TypeOK, SetTask
  <1>4. Reason(j)'
    BY <1>2 DEF AllCalm, Reason, ValidSize
  <1>5. ASSUME NEW to, SetTask(j, n, to), Calm(j, n)'
        PROVE  AllCalm(j)'
    <2>1. \A m \in Nodes : m # n => Calm(j, m)'
      BY <1>2, <1>3, <1>5 DEF AllCalm, Calm, Launching, Parties
    <2>2. QED
      BY <1>4, <1>5, <2>1 DEF AllCalm
  <1>6. ASSUME n # N, task[j][n] = "up", Launched(j)
        PROVE  pc[j] \in {"publish", "watch"} /\ n \in Parties(j)
    BY <1>1, <1>6 DEF Calm, Launched
  <1>7. pc[j] \in Steps \cup {"off", "exit"}
    BY <1>1 DEF TypeOK
  <1>8. CASE TaskRuns(j, n)
    <2>1. task[j][n] = "pending" /\ SetTask(j, n, "up")
      BY <1>8 DEF TaskRuns
    <2>2. pc[j] = "up" /\ Launching(j, n)
      BY <1>1, <1>7, <2>1 DEF Calm, Steps, Early, Naming
    <2>3. Calm(j, n)'
      BY <1>2, <1>3, <2>1, <2>2 DEF Calm, Launching, Parties, Early
    <2>4. QED
      BY <1>5, <2>1, <2>3
  <1>9. CASE PartySucceeds(j, n)
    <2>1. n # N /\ task[j][n] = "up" /\ SetTask(j, n, "ok") /\ Launched(j)
      BY <1>9 DEF PartySucceeds, Moves
    <2>2. Calm(j, n)'
      BY <1>2, <1>3, <1>6, <2>1 DEF Calm, Launching, Parties, Early, Naming
    <2>3. QED
      BY <1>5, <2>1, <2>2
  <1>10. CASE n = N /\ CoordinatorStops(j)
    <2>1. n = N /\ task[j][n] = "stopping" /\ SetTask(j, n, "lost")
      BY <1>10 DEF CoordinatorStops, Moves
    <2>2. pc[j] \in {"report", "exit"}
      BY <1>1, <1>7, <2>1 DEF Calm, Steps, Early, Naming
    <2>3. Calm(j, n)'
      BY <1>2, <1>3, <2>1, <2>2 DEF Calm, Launching, Parties, Early, Naming
    <2>4. QED
      BY <1>5, <2>1, <2>3
  <1>11. CASE PartyGivesUp(j, n)
    BY <1>6, <1>11, MeshIsWhole DEF PartyGivesUp, Moves
  <1>12. QED
    BY <1>8, <1>9, <1>10, <1>11 DEF CalmTask

LEMMA CalmProcessStep ==
  ASSUME AInv, Quiet, NEW j \in Jobs, AllCalm(j), ProcessStep(j)
  PROVE  AllCalm(j)'
  <1>1. TypeOK /\ Machine(j) /\ Stages(j) /\ Reason(j) /\ \A n \in Nodes : Calm(j, n)
    BY DEF AInv, IInv, JobInv, AllCalm
  <1>2. pc[j] \in Steps /\ sm[j] # "dead" /\ sm' = sm /\ asked' = asked
    <2>1. pc[j] \in Steps /\ UNCHANGED machineVars
      BY <1>1, ProcessMoves
    <2>2. asked' = asked
      BY DEF ProcessStep, Boot, Check, Fetch, Clean, Launch, WaitRunning, Register, WaitForDns,
         Publish, Watch, WatchExpires, StopCoordinator, Report, rowVars
    <2>3. QED
      BY <1>1, <2>1, <2>2 DEF Reason, machineVars, Steps
  <1>3. asked[j] \in Requests
    BY <1>1, <1>2 DEF Machine, Steps
  <1>4. pc[j] \in Inside => ValidSize(j)
    BY <1>1 DEF Stages
  <1>5. ASSUME status'[j] # "FAILED" \/ status'[j] = status[j],
               pc'[j] \notin {"stop", "report"} \/ why'[j] = "ok",
               \A n \in Nodes : Calm(j, n)'
        PROVE  AllCalm(j)'
    BY <1>1, <1>2, <1>5 DEF AllCalm, Reason, ValidSize
  <1> USE <1>1, <1>2 DEF rowVars, machineVars, procVars, meshVars, At, Jump, Record
  \* Before the first launch there is no task.
  <1>6. CASE pc[j] \in {"boot", "check", "fetch"} /\ task' = task
                /\ pc'[j] \in {"check", "fetch", "clean", "exit"}
                /\ (status'[j] = "FAILED" => status[j] = "FAILED" \/ ~ValidSize(j) \/ ~asked[j].uploaded)
    <2>1. \A n \in Nodes : Calm(j, n)'
      BY <1>6 DEF Calm, Early, Naming
    <2>2. QED
      BY <1>6, <2>1 DEF AllCalm, Reason, ValidSize
  <1>7. CASE Boot(j)
    BY <1>6, <1>7 DEF TypeOK, Boot
  <1>8. CASE Check(j)
    BY <1>6, <1>8 DEF TypeOK, Check, Leave
  <1>9. CASE Fetch(j)
    BY <1>6, <1>9 DEF TypeOK, Fetch, Throw, Leave
  <1>10. CASE Clean(j)
    <2>1. /\ pc[j] = "clean" /\ pc'[j] = "launch" /\ stage'[j] = 1
          /\ UNCHANGED <<task, status>>
      BY <1>10 DEF TypeOK, Clean, Stages, Early
    <2>2. \A n \in Nodes : Calm(j, n)'
      BY <2>1 DEF Calm, Early, Naming, Launching, Turn
    <2>3. QED
      BY <1>5, <2>1, <2>2
  <1>11. CASE Launch(j)
    <2>1. /\ pc[j] = "launch" /\ pc'[j] = "up" /\ UNCHANGED <<stage, status>>
          /\ \A n \in Nodes : task'[j][n] = IF n \in Team(j) THEN "pending" ELSE task[j][n]
      BY <1>11 DEF TypeOK, Launch, LaunchAll
    <2>2. ValidSize(j)
      BY <1>4, <2>1 DEF Inside
    <2>3. ASSUME NEW n \in Nodes
          PROVE  Calm(j, n)'
      <3>1. n \in Team(j) <=> n \in Parties(j) \cup {N} /\ Turn(n) = stage[j]
        BY <1>3, <2>2, TeamTurn
      <3>2. Launching(j, n)' <=> Launching(j, n) \/ n \in Team(j)
        BY <2>1, <3>1 DEF Launching, Parties
      <3>3. Launching(j, n) => n \notin Team(j)
        BY <2>1, <3>1, TeamIs DEF Launching, Turn
      <3>4. QED
        BY <2>1, <3>1, <3>2, <3>3 DEF Calm, Early, Naming
    <2>4. QED
      BY <1>5, <2>1, <2>3
  <1>12. ASSUME pc[j] \in {"up", "register", "dns"}, NEW n \in Team(j)
         PROVE  n \in Nodes /\ Launching(j, n) /\ Turn(n) = stage[j] /\ task[j][n] \in {"up", "pending"}
                /\ (pc[j] # "up" => task[j][n] = "up")
    <2>1. n \in Nodes /\ Launching(j, n) /\ Turn(n) = stage[j]
      BY <1>3, <1>4, <1>12, TeamTurn DEF Inside, Launching
    <2>2. QED
      BY <1>12, <2>1 DEF Calm, Naming
  <1>13. CASE WaitRunning(j)
    <2>1. /\ pc[j] = "up" /\ pc'[j] = "register" /\ UNCHANGED <<stage, status, task>>
          /\ \A n \in Team(j) : task[j][n] = "up"
      BY <1>12, <1>13 DEF TypeOK, WaitRunning, Stopped
    <2>2. ASSUME NEW n \in Nodes
          PROVE  Calm(j, n)'
      <3>1. n \in Team(j) <=> n \in Parties(j) \cup {N} /\ Turn(n) = stage[j]
        BY <1>3, <1>4, <2>1, TeamTurn DEF Inside
      <3>2. Launching(j, n)' <=> Launching(j, n)
        BY <2>1 DEF Launching, Parties
      <3>3. QED
        BY <2>1, <3>1, <3>2 DEF Calm, Early, Naming, Launching
    <2>3. QED
      BY <1>5, <2>1, <2>2
  <1>14. CASE Register(j)
    <2>1. /\ pc[j] = "register" /\ UNCHANGED <<stage, status, task>>
          /\ pc'[j] = IF stage[j] = 3 THEN "publish" ELSE "dns"
      BY <1>12, <1>14 DEF TypeOK, Register
    <2>2. ASSUME NEW n \in Nodes
          PROVE  Calm(j, n)'
      <3>1. Launching(j, n)' <=> Launching(j, n)
        BY <2>1 DEF Launching, Parties
      <3>2. Parties(j)' = Parties(j) /\ N \notin Parties(j)
        BY <1>3, <1>4, <2>1, SizeIs DEF Parties, Inside
      <3>3. stage[j] = 3 => (Launching(j, n) <=> n \in Parties(j) \cup {N})
        BY <2>1 DEF Launching, Turn
      <3>4. QED
        BY <2>1, <3>1, <3>2, <3>3 DEF Calm, Early, Naming
    <2>3. QED
      BY <1>5, <2>1, <2>2
  <1>15. CASE WaitForDns(j)
    <2>1. /\ pc[j] = "dns" /\ pc'[j] = "launch" /\ UNCHANGED <<task, status>>
          /\ stage'[j] = stage[j] + 1
      BY <1>15 DEF TypeOK, WaitForDns, NextStage
    <2>2. ASSUME NEW n \in Nodes
          PROVE  Calm(j, n)'
      <3>1. Launching(j, n)' <=> Launching(j, n)
        BY <2>1, TeamIs DEF Launching, Parties, Turn
      <3>2. QED
        BY <2>1, <3>1 DEF Calm, Early, Naming
    <2>3. QED
      BY <1>5, <2>1, <2>2
  <1>16. CASE Publish(j)
    <2>1. pc[j] = "publish" /\ pc'[j] = "watch" /\ UNCHANGED <<task, status>>
      BY <1>16 DEF TypeOK, Publish
    <2>2. \A n \in Nodes : Calm(j, n)'
      BY <2>1 DEF Calm, Early, Naming, Parties
    <2>3. QED
      BY <1>5, <2>1, <2>2
  <1>17. CASE Watch(j)
    <2>1. pc[j] = "watch" /\ task' = task /\ \A n \in Parties(j) : task[j][n] \in Stopped
      BY <1>17 DEF Watch
    <2>2. N \notin Parties(j) /\ Parties(j) \subseteq Nodes
      BY <1>3, <1>4, <2>1, SizeIs DEF Inside
    <2>3. \A n \in Parties(j) : task[j][n] = "ok"
      BY <2>1, <2>2 DEF Calm, Stopped
    <2>4. pc'[j] = "stop" /\ why'[j] = "ok" /\ status' = status
      BY <1>17, <2>3 DEF TypeOK, Watch, Finally
    <2>5. \A n \in Nodes : Calm(j, n)'
      BY <2>1, <2>3, <2>4 DEF Calm, Early, Naming, Parties
    <2>6. QED
      BY <1>5, <2>4, <2>5
  <1>18. CASE WatchExpires(j)
    BY <1>18, MeshIsWhole DEF WatchExpires
  <1>19. CASE StopCoordinator(j)
    <2>1. /\ pc[j] = "stop" /\ pc'[j] = "report" /\ UNCHANGED <<why, status>> /\ StopTask(j)
      BY <1>19 DEF TypeOK, StopCoordinator, Granted
    <2>2. N \in Nodes /\ task[j][N] = "up"
      BY <2>1, CoordinatorNode DEF Calm
    <2>3. task'[j][N] = "stopping" /\ \A n \in Nodes : n # N => task'[j][n] = task[j][n]
      BY <2>1, <2>2 DEF TypeOK, StopTask
    <2>4. \A n \in Nodes : Calm(j, n)'
      BY <2>1, <2>3 DEF Calm, Early, Naming
    <2>5. QED
      BY <1>5, <2>1, <2>4 DEF Reason
  <1>20. CASE Report(j)
    <2>1. pc[j] = "report" /\ why[j] = "ok"
      BY <1>20 DEF Report, Reason
    <2>2. pc'[j] = "exit" /\ status'[j] = "SUCCEEDED" /\ UNCHANGED <<why, task>>
      BY <1>20, <2>1 DEF TypeOK, Report
    <2>3. \A n \in Nodes : Calm(j, n)'
      BY <2>1, <2>2 DEF Calm, Early, Naming
    <2>4. QED
      BY <1>5, <2>2, <2>3
  <1>21. QED
    BY <1>7, <1>8, <1>9, <1>10, <1>11, <1>13, <1>14, <1>15, <1>16, <1>17, <1>18, <1>19, <1>20
       DEF ProcessStep
-----------------------------------------------------------------------------
(* The theorems *)

LEMMA OthersCalm ==
  ASSUME \A k \in Jobs : AllCalm(k), NEW j \in Jobs, OnlyJob(j), AllCalm(j)'
  PROVE  \A k \in Jobs : AllCalm(k)'
  BY CalmStays DEF OnlyJob

\* The pipe moves an execution whose orchestrator has not been started.
LEMMA CalmPipeStep ==
  ASSUME AInv, \A k \in Jobs : AllCalm(k), PipeStarts \/ PipeGivesUp
  PROVE  \A k \in Jobs : AllCalm(k)'
  <1>1. TypeOK
    BY DEF AInv, IInv
  <1>2. PICK j \in Jobs : j = Head(queue) /\ sm[j] = "stored" /\ pc[j] = "off"
    BY DEF AInv, IInv, TypeOK, QueueInv, JobInv, Machine, PipeStarts, PipeGivesUp
  <1>3. /\ UNCHANGED <<asked, status, pc, stage, why, task>>
        /\ \A k \in Jobs : k # j => sm'[k] = sm[k]
    BY <1>1, <1>2 DEF TypeOK, PipeStarts, PipeGivesUp, Goto, rowVars, procVars, meshVars
  <1>4. ASSUME NEW k \in Jobs
        PROVE  AllCalm(k)'
    <2>1. Reason(k)'
      BY <1>2, <1>3 DEF AllCalm, Reason, ValidSize
    <2>2. \A n \in Nodes : Calm(k, n)'
      BY <1>3 DEF AllCalm, Calm, Launching, Parties
    <2>3. QED
      BY <2>1, <2>2 DEF AllCalm
  <1>5. QED
    BY <1>4

LEMMA StepCalm == FInv /\ [Next]_vars => FInv'
  <1> SUFFICES ASSUME FInv, [Next]_vars, Quiet'
               PROVE  \A k \in Jobs : AllCalm(k)'
    BY StepAddresses DEF FInv
  <1>1. AInv /\ TypeOK /\ Quiet /\ \A k \in Jobs : AllCalm(k)
    BY QuietSteps DEF FInv, AInv, IInv
  <1>2. ASSUME NEW j \in Jobs, CalmMachine(j)
        PROVE  \A k \in Jobs : AllCalm(k)'
    <2>1. OnlyJob(j)
      BY <1>1, <1>2, MachineOthers, FaultOthers DEF CalmMachine
    <2>2. QED
      BY <1>1, <1>2, <2>1, CalmMachineStep, OthersCalm
  <1>3. ASSUME NEW j \in Jobs, ProcessStep(j)
        PROVE  \A k \in Jobs : AllCalm(k)'
    <2>1. OnlyJob(j)
      BY <1>1, <1>3, ProcessOthers DEF ProcessStep
    <2>2. QED
      BY <1>1, <1>3, <2>1, CalmProcessStep, OthersCalm
  <1>4. ASSUME NEW j \in Jobs, NEW n \in Nodes, CalmTask(j, n)
        PROVE  \A k \in Jobs : AllCalm(k)'
    <2>1. OnlyJob(j)
      <3>1. /\ UNCHANGED <<rowVars, machineVars, procVars>>
            /\ \E to \in {"up", "ok", "bad", "lost"} : SetTask(j, n, to)
        BY <1>4, TaskFrame DEF CalmTask, TaskOnly
      <3>2. QED
        BY <1>1, <3>1, TaskOthers
    <2>2. QED
      BY <1>1, <1>4, <2>1, CalmTaskStep, OthersCalm
  <1>5. CASE PipeStarts \/ PipeGivesUp
    BY <1>1, <1>5, CalmPipeStep
  <1>6. CASE (\E n \in Nodes : Propagate(n)) \/ UNCHANGED vars
    <2>1. \A k \in Jobs : UNCHANGED Local(k)
      BY <1>6 DEF Propagate, Local, vars, rowVars, machineVars, procVars, meshVars
    <2>2. QED
      BY <1>1, <2>1, CalmStays
  <1>7. QED
    BY <1>2, <1>3, <1>4, <1>5, <1>6, QuietSteps

LEMMA InitCalm == Init => FInv
  <1> SUFFICES ASSUME Init
               PROVE  FInv
    OBVIOUS
  <1>1. ASSUME NEW j \in Jobs
        PROVE  AllCalm(j)
    BY DEF Init, AllCalm, Reason, Calm, Naming
  <1>2. QED
    BY <1>1, InitAddresses DEF FInv

THEOREM FaultlessInvariance == Spec => []FInv
  BY InitCalm, StepCalm, PTL DEF Spec

\* Tasks of two jobs meet only after a fault in the mesh: without one a task that runs
\* belongs to an orchestrator that works, and that one's execution holds the lock.
THEOREM OverlapsNeedFaults == Spec => []OverlapNeedsFault
  <1>1. FInv => OverlapNeedsFault
    <2> SUFFICES ASSUME FInv, Quiet, NEW j \in Jobs, NEW k \in Jobs,
                        NEW m \in Nodes, NEW n \in Nodes,
                        task[j][m] = "up", task[k][n] = "up"
                 PROVE  j = k
      BY DEF OverlapNeedsFault, OneJobRuns, Quiet
    <2>1. ASSUME NEW i \in Jobs, NEW l \in Nodes, task[i][l] = "up"
          PROVE  pc[i] \in Steps /\ sm[i] = "run"
      <3>1. Calm(i, l) /\ Reason(i)
        BY DEF FInv, AllCalm
      <3>2. pc[i] \in Steps \cup {"off", "exit"}
        BY DEF FInv, AInv, IInv, TypeOK
      <3>3. pc[i] \in Steps
        BY <2>1, <3>1, <3>2 DEF Calm, Early
      <3>4. sm[i] \in {"run", "dead"}
        BY <3>3 DEF FInv, AInv, Exclusive
      <3>5. QED
        BY <3>1, <3>3, <3>4 DEF Reason, Steps
    <2>2. QED
      BY <2>1 DEF FInv, AInv, Exclusive, Holding
  <1>2. QED
    BY <1>1, FaultlessInvariance, PTL

\* Without a fault in the mesh a job fails only because of its size or its program.
THEOREM FailuresHaveCause == Spec => []FailureHasCause
  <1>1. FInv => FailureHasCause
    BY DEF FInv, Quiet, AllCalm, Reason, FailureHasCause
  <1>2. QED
    BY <1>1, FaultlessInvariance, PTL
=============================================================================
