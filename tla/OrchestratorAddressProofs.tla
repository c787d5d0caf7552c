---------------------- MODULE OrchestratorAddressProofs ----------------------
(***************************************************************************)
(* Proof that no party of a running job resolves another job's task, for   *)
(* every set of jobs, every size and every fault but a deregistration that *)
(* reaches DNS late: while an orchestrator works no other job holds the    *)
(* lock, so nobody else changes the registrations, and stage by stage the  *)
(* names that the next tasks resolve belong to the job alone.              *)
(***************************************************************************)
EXTENDS OrchestratorProofs

\* While an orchestrator works, no execution but its own holds the lock.
Exclusive(k) ==
    pc[k] \in Steps =>
        /\ lock /\ sm[k] \in {"run", "dead"}
        /\ \A j \in Jobs : sm[j] \in Holding => j = k

Naming == {"launch", "up", "register", "dns"}

\* What a stage has registered, and seen answered, stays registered to the job alone.
Addresses(j) ==
    sm[j] = "run" =>
        /\ pc[j] \in Naming => reg[N] \subseteq {j} /\ reg[0] \subseteq {j}
        /\ stage[j] \in {2, 3} \/ pc[j] = "dns" => reg[N] = {j}
        /\ stage[j] \in {2, 3} => dns[N] # {}
        /\ stage[j] = 3 \/ (stage[j] = 2 /\ pc[j] = "dns") => reg[0] = {j}
        /\ stage[j] = 3 => dns[0] # {}

\* party0 is launched in the second stage, the other parties in the third.
Pending(j) ==
    \A n \in Nodes : task[j][n] = "pending" /\ n # N =>
        stage[j] \in {2, 3} /\ (n # 0 => stage[j] = 3)

AInv == IInv /\ NobodyStrays
        /\ \A j \in Jobs : Exclusive(j) /\ Addresses(j) /\ Pending(j)
-----------------------------------------------------------------------------
(* One orchestrator *)

LEMMA Party0Node == 0 \in Nodes /\ N # 0 /\ N \in Nodes
  BY OrchestratorAssumption DEF OrchestratorAssumption, Nodes

\* Starting an orchestrator is the one way into Steps.
LEMMA ProcessMoves ==
  ASSUME TypeOK, NEW j \in Jobs,
         ProcessStep(j) \/ StopRaises(j) \/ Raises(j) \/ ReportRaises(j) \/ WaitTimesOut(j)
         \/ Killed(j)
  PROVE  /\ pc[j] \in Steps
         /\ UNCHANGED <<machineVars, stray>>
         /\ \A k \in Jobs : k # j => pc'[k] = pc[k]
  <1>1. UNCHANGED <<machineVars, stray>> /\ pc[j] \in Steps
    BY DEF ProcessStep, Boot, Check, Fetch, Clean, Launch, WaitRunning, Register, WaitForDns,
           Publish, Watch, WatchExpires, StopCoordinator, Report, StopRaises, Raises,
           ReportRaises, WaitTimesOut, Killed, At, Steps, meshVars
  <1>2. OnlyJob(j)
    BY ProcessOthers, FaultOthers DEF ProcessStep
  <1>3. QED
    BY <1>1, <1>2 DEF OnlyJob, Local

\* A step of a task, of DNS, of the pipe or of a machine leaves every orchestrator where
\* it is, or ends one.
MachineOnly ==
    \/ \E j \in Jobs :
          \/ Submit(j) \/ Enqueue(j) \/ AcquireLock(j) \/ WaitForLock(j)
          \/ OrchestratorEnded(j) \/ ReleaseLock(j)
          \/ EnqueueRaises(j) \/ RunOrchestratorFails(j) \/ MachineTimesOut(j)
    \/ PipeStarts \/ PipeGivesUp
ProcessOnly(j) ==
    \/ ProcessStep(j) \/ StopRaises(j) \/ Raises(j) \/ ReportRaises(j) \/ WaitTimesOut(j)
    \/ Killed(j)
TaskOnly(j, n) ==
    /\ \/ TaskRuns(j, n) \/ PartySucceeds(j, n) \/ (n = N /\ CoordinatorStops(j))
       \/ PartyGivesUp(j, n) \/ TaskRunsEarly(j, n) \/ ProgramFails(j, n)
       \/ HostLost(j, n) \/ TaskFailsToStart(j, n)

LEMMA Classes ==
  ASSUME [Next]_vars
  PROVE  \/ MachineOnly
         \/ \E j \in Jobs : RunOrchestrator(j) \/ ProcessOnly(j)
         \/ \E j \in Jobs, n \in Nodes : TaskOnly(j, n)
         \/ \E n \in Nodes : Propagate(n)
         \/ UNCHANGED vars
  BY DEF Next, MachineStep, TaskStep, DnsStep, PipeStep, OutsideStep, FaultStep,
         MachineOnly, ProcessOnly, TaskOnly

LEMMA TaskFrame ==
  ASSUME NEW j \in Jobs, NEW n \in Nodes, TaskOnly(j, n)
  PROVE  /\ UNCHANGED <<rowVars, machineVars, procVars, reg, dns>>
         /\ \E to \in {"up", "ok", "bad", "lost"} : SetTask(j, n, to)
  BY DEF TaskOnly, TaskRuns, PartySucceeds, CoordinatorStops, PartyGivesUp, TaskRunsEarly,
         ProgramFails, HostLost, TaskFailsToStart, Moves

LEMMA ExclusiveStep ==
  IInv /\ (\A k \in Jobs : Exclusive(k)) /\ [Next]_vars => \A k \in Jobs : Exclusive(k)'
  <1> SUFFICES ASSUME IInv, \A k \in Jobs : Exclusive(k), [Next]_vars
               PROVE  \A k \in Jobs : Exclusive(k)'
    OBVIOUS
  <1> USE DEF IInv
  <1>1. ASSUME UNCHANGED machineVars, \A k \in Jobs : pc'[k] \in Steps => pc[k] \in Steps
        PROVE  \A k \in Jobs : Exclusive(k)'
    BY <1>1 DEF Exclusive, machineVars
  <1>2. ASSUME NEW j \in Jobs, NEW s, Goto(j, s), lock' = lock,
               s \in Holding => sm[j] \in Holding, pc[j] \in Steps => s = "dead",
               \A k \in Jobs : pc'[k] \in Steps => pc[k] \in Steps
        PROVE  \A k \in Jobs : Exclusive(k)'
    BY <1>2 DEF Exclusive, TypeOK, Goto
  <1>3. ASSUME NEW j \in Jobs, RunOrchestrator(j)
        PROVE  \A k \in Jobs : Exclusive(k)'
    <2>1. /\ UNCHANGED machineVars /\ sm[j] = "run"
          /\ \A k \in Jobs : k # j => pc'[k] = pc[k]
      BY <1>3 DEF RunOrchestrator, TypeOK, Jump
    <2>2. \A k \in Jobs : k # j => pc[k] \notin Steps
      BY <2>1 DEF Exclusive, Holding
    <2>3. Exclusive(j)'
      BY <2>1 DEF Exclusive, OneHolder, Holding, machineVars
    <2>4. QED
      BY <2>1, <2>2, <2>3 DEF Exclusive
  <1>4. ASSUME NEW j \in Jobs, ProcessOnly(j)
        PROVE  \A k \in Jobs : Exclusive(k)'
    BY <1>1, <1>4, ProcessMoves DEF ProcessOnly
  <1>5. ASSUME NEW j \in Jobs, AcquireLock(j) \/ ReleaseLock(j)
        PROVE  \A k \in Jobs : Exclusive(k)'
    <2>1. CASE AcquireLock(j) /\ lock
      <3>1. pc[j] = "off"
        BY <2>1 DEF JobInv, Machine, AcquireLock
      <3>2. QED
        BY <1>2, <2>1, <3>1 DEF AcquireLock, Holding, procVars, Steps
    <2>2. CASE AcquireLock(j) /\ ~lock
      <3>1. \A k \in Jobs : pc[k] \notin Steps
        BY <2>2 DEF Exclusive
      <3>2. QED
        BY <2>2, <3>1 DEF AcquireLock, procVars, Exclusive
    <2>3. CASE ReleaseLock(j)
      <3>1. \A k \in Jobs : pc[k] \notin Steps
        BY <2>3 DEF ReleaseLock, Exclusive, Holding
      <3>2. QED
        BY <2>3, <3>1 DEF ReleaseLock, procVars, Exclusive
    <2>4. QED
      BY <1>5, <2>1, <2>2, <2>3
  <1>6. ASSUME NEW j \in Jobs,
               \/ Submit(j) \/ WaitForLock(j) \/ OrchestratorEnded(j) \/ EnqueueRaises(j)
               \/ RunOrchestratorFails(j)
        PROVE  \A k \in Jobs : Exclusive(k)'
    <2>1. UNCHANGED procVars
      BY <1>6 DEF Submit, WaitForLock, OrchestratorEnded, EnqueueRaises, RunOrchestratorFails
    <2>2. pc[j] \notin Steps
      BY <1>6 DEF JobInv, Machine, Submit, WaitForLock, OrchestratorEnded, EnqueueRaises,
                  RunOrchestratorFails, Steps
    <2>3. QED
      BY <1>2, <1>6, <2>1, <2>2 DEF Submit, WaitForLock, OrchestratorEnded, EnqueueRaises,
                  RunOrchestratorFails, Holding, procVars
  <1>7. ASSUME NEW j \in Jobs, MachineTimesOut(j)
        PROVE  \A k \in Jobs : Exclusive(k)'
    <2>1. \A k \in Jobs : pc'[k] \in Steps => pc[k] \in Steps
      BY <1>7 DEF MachineTimesOut, TypeOK, procVars, Jump, Steps
    <2>2. QED
      BY <1>2, <1>7, <2>1 DEF MachineTimesOut, Holding
  <1>8. CASE PipeStarts \/ PipeGivesUp
    <2>1. PICK j \in Jobs : j = Head(queue) /\ sm[j] = "stored" /\ pc[j] = "off"
      BY <1>8 DEF TypeOK, QueueInv, JobInv, Machine, PipeStarts, PipeGivesUp
    <2>2. QED
      BY <1>2, <1>8, <2>1 DEF PipeStarts, PipeGivesUp, Holding, procVars, Steps
  <1>9. ASSUME NEW j \in Jobs, Enqueue(j)
        PROVE  \A k \in Jobs : Exclusive(k)'
    BY <1>9 DEF Enqueue, Exclusive, procVars
  <1>10. ASSUME NEW j \in Jobs, NEW n \in Nodes, TaskOnly(j, n)
         PROVE  \A k \in Jobs : Exclusive(k)'
    BY <1>1, <1>10, TaskFrame DEF procVars
  <1>11. CASE (\E n \in Nodes : Propagate(n)) \/ UNCHANGED vars
    BY <1>1, <1>11 DEF Propagate, procVars, vars
  <1>12. QED
    BY <1>3, <1>4, <1>5, <1>6, <1>7, <1>8, <1>9, <1>10, <1>11, Classes DEF MachineOnly
-----------------------------------------------------------------------------
(* The registrations *)

\* A step that neither registers, launches nor goes on keeps what is said of a job.
LEMMA AddressesStay ==
  ASSUME NEW j \in Jobs, Addresses(j),
         UNCHANGED <<reg, dns, stage[j]>>, sm'[j] = "run" => sm[j] = "run",
         pc'[j] \in Naming => pc[j] \in Naming, pc'[j] = "dns" => pc[j] = "dns"
  PROVE  Addresses(j)'
  BY DEF Addresses

LEMMA PendingStays ==
  ASSUME NEW j \in Jobs, Pending(j), UNCHANGED stage[j],
         \A n \in Nodes : task'[j][n] = "pending" => task[j][n] = "pending"
  PROVE  Pending(j)'
  BY DEF Pending

\* A step of job j that touches no registration leaves the other jobs alone.
LEMMA OthersStay ==
  ASSUME NEW j \in Jobs, OnlyJob(j), NEW k \in Jobs, k # j, Addresses(k), Pending(k),
         (UNCHANGED <<reg, dns>>) \/ (sm[k] # "run")
  PROVE  Addresses(k)' /\ Pending(k)'
  <1>1. UNCHANGED <<sm[k], pc[k], stage[k], task[k]>>
    BY DEF OnlyJob, Local
  <1>2. QED
    BY <1>1, AddressesStay, PendingStays DEF Addresses

\* Nobody but the job that holds the lock changes a registration.
LEMMA WorkerIsAlone ==
  ASSUME NEW j \in Jobs, Exclusive(j), pc[j] \in Steps, NEW k \in Jobs, k # j
  PROVE  sm[k] # "run"
  BY DEF Exclusive, Holding

LEMMA ThrownAddresses ==
  ASSUME TypeOK, NEW j \in Jobs, Addresses(j), Throw(j), UNCHANGED <<reg, dns, sm>>
  PROVE  Addresses(j)'
  <1>1. pc'[j] \in {"exit", "stop"} /\ stage' = stage
    BY DEF TypeOK, Throw, Leave, Finally, Jump
  <1>2. QED
    BY <1>1, AddressesStay DEF Naming

LEMMA ProcessAddresses ==
  ASSUME IInv, NEW j \in Jobs, Addresses(j), Pending(j), ProcessOnly(j)
  PROVE  Addresses(j)' /\ Pending(j)'
  <1>1. TypeOK /\ Stages(j) /\ Machine(j)
    BY DEF IInv, JobInv
  <1> USE <1>1 DEF rowVars, machineVars, procVars, meshVars, At, Jump
  <1>2. ASSUME UNCHANGED <<reg, dns, sm, stage, task>>, pc'[j] \notin Naming
        PROVE  Addresses(j)' /\ Pending(j)'
    BY <1>2, AddressesStay, PendingStays DEF Naming
  <1>3. ASSUME UNCHANGED <<reg, dns, sm, task>>, Throw(j)
        PROVE  Addresses(j)' /\ Pending(j)'
    BY <1>3, ThrownAddresses, PendingStays DEF Throw, Leave, Finally
  <1>4. CASE Boot(j) \/ Publish(j) \/ StopRaises(j) \/ Killed(j)
    BY <1>2, <1>4 DEF TypeOK, Boot, Publish, StopRaises, Killed, Leave, Naming
  <1>5. CASE Check(j)
    BY <1>2, <1>5 DEF TypeOK, Check, Leave, Naming
  <1>6. CASE Fetch(j)
    <2>1. CASE asked[j].uploaded
      BY <1>2, <1>6, <2>1 DEF TypeOK, Fetch, Naming
    <2>2. CASE ~asked[j].uploaded
      BY <1>3, <1>6, <2>2 DEF Fetch
    <2>3. QED
      BY <2>1, <2>2
  <1>7. CASE Clean(j)
    <2>1. stage[j] = 1 /\ stage' = stage /\ task' = task /\ pc'[j] = "launch"
      BY <1>7 DEF TypeOK, Clean, Stages, Early
    <2>2. asked[j] \in Requests /\ ValidSize(j)
      BY <1>7 DEF Clean, Machine, Stages, Inside
    <2>3. 0 \in Parties(j)
      BY <2>2, SizeIs DEF Parties
    <2>4. reg'[N] = {} /\ reg'[0] = {}
      BY <1>7, <2>3, Party0Node DEF Clean
    <2>5. QED
      BY <2>1, <2>4, PendingStays DEF Addresses
  <1>8. CASE Launch(j)
    <2>1. /\ pc[j] = "launch" /\ pc'[j] = "up"
          /\ UNCHANGED <<reg, dns, sm, stage>>
          /\ \A n \in Nodes : task'[j][n] = IF n \in Team(j) THEN "pending" ELSE task[j][n]
      BY <1>8 DEF TypeOK, Launch, LaunchAll
    <2>2. Addresses(j)'
      BY <2>1, AddressesStay DEF Naming
    <2>3. Pending(j)'
      BY <2>1, TeamIs DEF Pending, Nodes
    <2>4. QED
      BY <2>2, <2>3
  <1>9. CASE WaitRunning(j)
    <2>1. CASE Throw(j)
      BY <1>3, <1>9, <2>1 DEF WaitRunning
    <2>2. CASE Jump(j, "register") /\ UNCHANGED <<stage, why, status>>
      <3>1. pc[j] = "up" /\ pc'[j] = "register" /\ UNCHANGED <<reg, dns, sm, stage, task>>
        BY <1>9, <2>2 DEF TypeOK, WaitRunning
      <3>2. QED
        BY <3>1, AddressesStay, PendingStays DEF Naming
    <2>3. QED
      BY <1>9, <2>1, <2>2 DEF WaitRunning
  <1>10. ASSUME NEW ns, ns \subseteq Team(j), RegisterAll(j, ns), pc[j] = "register",
               UNCHANGED <<dns, sm, stage, task>>,
               pc'[j] \in Naming => ns = Team(j) /\ pc'[j] = "dns"
        PROVE  Addresses(j)' /\ Pending(j)'
    <2>1. asked[j] \in Requests /\ ValidSize(j)
      BY <1>10 DEF Machine, Stages, Inside
    <2>2. /\ reg'[N] = IF N \in ns THEN reg[N] \cup {j} ELSE reg[N]
          /\ reg'[0] = IF 0 \in ns THEN reg[0] \cup {j} ELSE reg[0]
      BY <1>10, Party0Node DEF TypeOK, RegisterAll
    <2>3. CASE stage[j] = 1
      <3>1. Team(j) = {N}
        BY <2>3, TeamIs
      <3>2. QED
        BY <1>10, <2>2, <2>3, <3>1, Party0Node, PendingStays DEF Addresses, Naming
    <2>4. CASE stage[j] = 2
      <3>1. Team(j) = {0}
        BY <2>4, TeamIs
      <3>2. QED
        BY <1>10, <2>2, <2>4, <3>1, Party0Node, PendingStays DEF Addresses, Naming
    <2>5. CASE stage[j] = 3
      <3>1. N \notin Team(j) /\ 0 \notin Team(j)
        BY <2>1, <2>5, TeamIs, SizeIs DEF Parties
      <3>2. QED
        BY <1>10, <2>2, <2>5, <3>1, PendingStays DEF Addresses, Naming
    <2>6. QED
      BY <2>3, <2>4, <2>5, TeamIs
  <1>11. CASE Register(j)
    <2> DEFINE ns == {n \in Team(j) : \A m \in Team(j) : m <= n => task[j][m] = "up"}
    <2>1. CASE Throw(j)
      <3>1. pc'[j] \in {"exit", "stop"} /\ stage' = stage
        BY <2>1 DEF TypeOK, Throw, Leave, Finally
      <3>2. QED
        BY <1>10, <1>11, <3>1 DEF Register, Naming
    <2>2. CASE \A n \in Team(j) : task[j][n] = "up"
      <3>1. ns = Team(j)
        BY <2>2
      <3>2. /\ UNCHANGED <<dns, sm, stage, task>>
            /\ pc[j] = "register" /\ pc'[j] \in {"publish", "dns"} /\ RegisterAll(j, ns)
        BY <1>11, <2>2 DEF TypeOK, Register
      <3>3. QED
        BY <1>10, <3>1, <3>2 DEF Naming
    <2>3. QED
      BY <1>11, <2>1, <2>2 DEF Register
  <1>12. CASE WaitForDns(j)
    <2>1. pc[j] = "dns" /\ NextStage(j) /\ UNCHANGED <<reg, dns, sm, task>>
          /\ \A n \in Team(j) : dns[n] # {}
      BY <1>12 DEF WaitForDns
    <2>2. stage[j] \in {1, 2}
      BY <2>1, TeamIs DEF Stages
    <2>3. pc'[j] = "launch" /\ stage'[j] = stage[j] + 1
      BY <2>1 DEF TypeOK, NextStage
    <2>4. Addresses(j)'
      BY <2>1, <2>2, <2>3, TeamIs DEF Addresses, Naming
    <2>5. Pending(j)'
      BY <2>1, <2>2, <2>3 DEF Pending
    <2>6. QED
      BY <2>4, <2>5
  <1>13. CASE Watch(j) \/ Report(j) \/ ReportRaises(j)
    BY <1>2, <1>13 DEF TypeOK, Watch, Finally, Report, ReportRaises, Naming
  <1>14. CASE WatchExpires(j) \/ WaitTimesOut(j)
    BY <1>3, <1>14 DEF WatchExpires, WaitTimesOut
  <1>15. CASE StopCoordinator(j)
    <2>1. /\ UNCHANGED <<reg, dns, sm, stage>> /\ pc'[j] = "report"
          /\ \A n \in Nodes : task'[j][n] = "pending" => task[j][n] = "pending"
      BY <1>15 DEF TypeOK, StopCoordinator, StopTask
    <2>2. QED
      BY <2>1, AddressesStay, PendingStays DEF Naming
  <1>16. CASE Raises(j)
    <2>1. /\ pc'[j] \in {"exit", "stop"} /\ UNCHANGED <<dns, sm, stage>> /\ Throw(j)
      BY <1>16 DEF TypeOK, Raises, Throw, Leave, Finally
    <2>2. CASE UNCHANGED <<task, reg>>
      BY <1>3, <2>1, <2>2
    <2>3. ASSUME pc[j] = "launch", NEW ns, ns \subseteq Team(j), LaunchAll(j, ns), UNCHANGED reg
          PROVE  Addresses(j)' /\ Pending(j)'
      <3>1. Addresses(j)'
        BY <2>1, <2>3, AddressesStay DEF Naming
      <3>2. \A n \in Nodes : task'[j][n] = IF n \in ns THEN "pending" ELSE task[j][n]
        BY <2>3 DEF TypeOK, LaunchAll
      <3>3. QED
        BY <2>1, <2>3, <3>1, <3>2, TeamIs DEF Pending, Nodes
    <2>4. ASSUME pc[j] = "register", NEW n \in Team(j),
                 RegisterAll(j, {m \in Team(j) : m <= n}), UNCHANGED task
          PROVE  Addresses(j)' /\ Pending(j)'
      BY <1>10, <2>1, <2>4 DEF Naming
    <2>5. CASE pc[j] = "clean" /\ UNCHANGED task
      <3>1. stage[j] = 1
        BY <2>5 DEF Stages, Early
      <3>2. QED
        BY <2>1, <2>5, <3>1, PendingStays DEF Addresses, Naming
    <2>6. QED
      BY <1>16, <2>2, <2>3, <2>4, <2>5 DEF Raises
  <1>17. QED
    BY <1>4, <1>5, <1>6, <1>7, <1>8, <1>9, <1>11, <1>12, <1>13, <1>14, <1>15, <1>16
       DEF ProcessOnly, ProcessStep

LEMMA MachineAddresses ==
  ASSUME IInv, NEW j \in Jobs, Addresses(j), Pending(j),
         \/ Submit(j) \/ Enqueue(j) \/ AcquireLock(j) \/ WaitForLock(j) \/ RunOrchestrator(j)
         \/ OrchestratorEnded(j) \/ ReleaseLock(j)
         \/ EnqueueRaises(j) \/ RunOrchestratorFails(j) \/ MachineTimesOut(j)
  PROVE  Addresses(j)' /\ Pending(j)'
  <1>1. TypeOK /\ Stages(j) /\ Machine(j)
    BY DEF IInv, JobInv
  <1> USE <1>1 DEF procVars, meshVars, Goto, Jump
  <1>2. UNCHANGED <<reg, dns, stage, task>>
    BY DEF Submit, Enqueue, AcquireLock, WaitForLock, RunOrchestrator, OrchestratorEnded,
           ReleaseLock, EnqueueRaises, RunOrchestratorFails, MachineTimesOut
  <1>3. Pending(j)'
    BY <1>2, PendingStays
  <1>4. CASE AcquireLock(j)
    <2>1. pc[j] = "off" /\ stage[j] = 1 /\ pc'[j] = "off"
      BY <1>4 DEF AcquireLock, Machine, Stages, Early
    <2>2. QED
      BY <1>2, <1>3, <2>1 DEF Addresses, Naming
  <1>5. CASE Submit(j) \/ Enqueue(j) \/ WaitForLock(j) \/ OrchestratorEnded(j) \/ ReleaseLock(j)
             \/ EnqueueRaises(j) \/ RunOrchestratorFails(j)
    <2>1. pc' = pc /\ (sm'[j] = "run" => sm[j] = "run")
      BY <1>5 DEF TypeOK, Submit, Enqueue, WaitForLock, OrchestratorEnded, ReleaseLock,
                  EnqueueRaises, RunOrchestratorFails
    <2>2. QED
      BY <1>2, <1>3, <2>1, AddressesStay
  <1>6. CASE RunOrchestrator(j)
    <2>1. pc'[j] = "boot" /\ sm[j] = "run"
      BY <1>6 DEF TypeOK, RunOrchestrator
    <2>2. QED
      BY <1>2, <1>3, <2>1, AddressesStay DEF Naming
  <1>7. CASE MachineTimesOut(j)
    <2>1. sm'[j] = "dead"
      BY <1>7 DEF TypeOK, MachineTimesOut
    <2>2. QED
      BY <1>3, <2>1 DEF Addresses
  <1>8. QED
    BY <1>4, <1>5, <1>6, <1>7

LEMMA AddressesStep ==
  AInv /\ [Next]_vars => \A k \in Jobs : Addresses(k)' /\ Pending(k)'
  <1> SUFFICES ASSUME AInv, [Next]_vars
               PROVE  \A k \in Jobs : Addresses(k)' /\ Pending(k)'
    OBVIOUS
  <1> USE DEF AInv
  <1>1. TypeOK
    BY DEF IInv
  <1>2. ASSUME NEW j \in Jobs, ProcessOnly(j)
        PROVE  \A k \in Jobs : Addresses(k)' /\ Pending(k)'
    <2>1. OnlyJob(j)
      BY <1>1, <1>2, ProcessOthers, FaultOthers DEF ProcessOnly, ProcessStep
    <2>2. \A k \in Jobs : k # j => sm[k] # "run"
      BY <1>1, <1>2, ProcessMoves, WorkerIsAlone DEF ProcessOnly
    <2>3. QED
      BY <1>2, <2>1, <2>2, ProcessAddresses, OthersStay
  <1>3. ASSUME NEW j \in Jobs,
               \/ Submit(j) \/ Enqueue(j) \/ AcquireLock(j) \/ WaitForLock(j)
               \/ RunOrchestrator(j) \/ OrchestratorEnded(j) \/ ReleaseLock(j)
               \/ EnqueueRaises(j) \/ RunOrchestratorFails(j) \/ MachineTimesOut(j)
        PROVE  \A k \in Jobs : Addresses(k)' /\ Pending(k)'
    <2>1. OnlyJob(j)
      BY <1>1, <1>3, MachineOthers, FaultOthers
    <2>2. UNCHANGED <<reg, dns>>
      BY <1>3 DEF Submit, Enqueue, AcquireLock, WaitForLock, RunOrchestrator, OrchestratorEnded,
           ReleaseLock, EnqueueRaises, RunOrchestratorFails, MachineTimesOut, meshVars
    <2>3. QED
      BY <1>3, <2>1, <2>2, MachineAddresses, OthersStay
  <1>4. CASE PipeStarts \/ PipeGivesUp
    <2>1. UNCHANGED <<procVars, meshVars>> /\ \A k \in Jobs : sm'[k] = "run" => sm[k] = "run"
      BY <1>1, <1>4 DEF TypeOK, PipeStarts, PipeGivesUp, Goto
    <2>2. QED
      BY <2>1, AddressesStay, PendingStays DEF procVars, meshVars
  <1>5. ASSUME NEW j \in Jobs, NEW n \in Nodes, TaskOnly(j, n)
        PROVE  \A k \in Jobs : Addresses(k)' /\ Pending(k)'
    <2>1. UNCHANGED <<machineVars, procVars, reg, dns>>
      BY <1>5, TaskFrame
    <2>2. \A k \in Jobs : \A m \in Nodes : task'[k][m] = "pending" => task[k][m] = "pending"
      <3>1. PICK to \in {"up", "ok", "bad", "lost"} : SetTask(j, n, to)
        BY <1>5, TaskFrame
      <3>2. to # "pending"
        OBVIOUS
      <3>3. task \in [Jobs -> [Nodes -> {"none", "pending", "up", "stopping"} \cup Stopped]]
        BY <1>1 DEF TypeOK
      <3>4. QED
        BY <3>1, <3>2, <3>3 DEF SetTask
    <2>3. QED
      BY <2>1, <2>2, AddressesStay, PendingStays DEF machineVars, procVars
  <1>6. ASSUME NEW n \in Nodes, Propagate(n)
        PROVE  \A k \in Jobs : Addresses(k)' /\ Pending(k)'
    <2>1. /\ UNCHANGED <<machineVars, procVars, task, reg>>
          /\ \A m \in Nodes : dns'[m] = dns[m] \/ dns'[m] = reg[m]
      BY <1>1, <1>6 DEF TypeOK, Propagate
    <2>2. QED
      BY <2>1, Party0Node DEF Addresses, Pending, machineVars, procVars
  <1>7. CASE UNCHANGED vars
    BY <1>7, AddressesStay, PendingStays DEF vars, machineVars, procVars, meshVars
  <1>8. QED
    BY <1>2, <1>3, <1>4, <1>5, <1>6, <1>7, Classes DEF MachineOnly

LEMMA StrayStep == AInv /\ [Next]_vars => NobodyStrays'
  <1> SUFFICES ASSUME AInv, [Next]_vars
               PROVE  NobodyStrays'
    OBVIOUS
  <1>1. ASSUME UNCHANGED stray
        PROVE  NobodyStrays'
    BY <1>1, Happenings DEF AInv, NobodyStrays
  <1>2. ASSUME NEW j \in Jobs, NEW n \in Nodes, TaskRuns(j, n)
        PROVE  UNCHANGED stray
    <2>1. /\ task[j][n] = "pending" /\ Resolves(j, n)
          /\ dns[N] \subseteq reg[N] /\ dns[0] \subseteq reg[0]
      BY <1>2, Party0Node DEF TaskRuns
    <2>2. CASE sm[j] = "run" /\ n # N
      <3>1. dns[N] = {j} /\ (n # 0 => dns[0] = {j})
        BY <2>1, <2>2 DEF AInv, Addresses, Pending
      <3>2. Answers(N) = {j} /\ (n # 0 => Answers(0) = {j})
        BY <3>1 DEF Answers
      <3>3. QED
        BY <2>1, <3>2 DEF Resolves
    <2>3. CASE ~(sm[j] = "run" /\ n # N)
      BY <2>1, <2>3 DEF Resolves
    <2>4. QED
      BY <2>2, <2>3
  <1>3. ASSUME NEW j \in Jobs, NEW n \in Nodes, TaskRunsEarly(j, n)
        PROVE  NobodyStrays'
    BY <1>3 DEF TaskRunsEarly, Fault, NobodyStrays
  <1>4. ASSUME NEW j \in Jobs, NEW n \in Nodes, TaskOnly(j, n)
        PROVE  NobodyStrays'
    BY <1>1, <1>2, <1>3, <1>4 DEF TaskOnly, PartySucceeds, CoordinatorStops, PartyGivesUp,
         ProgramFails, HostLost, TaskFailsToStart, Moves
  <1>5. ASSUME NEW j \in Jobs, RunOrchestrator(j) \/ ProcessOnly(j)
        PROVE  UNCHANGED stray
    BY <1>5, ProcessMoves DEF AInv, IInv, ProcessOnly, RunOrchestrator, meshVars
  <1>6. CASE MachineOnly
    BY <1>1, <1>6 DEF MachineOnly, Submit, Enqueue, AcquireLock, WaitForLock, OrchestratorEnded,
           ReleaseLock, EnqueueRaises, RunOrchestratorFails, MachineTimesOut, PipeStarts,
           PipeGivesUp, meshVars
  <1>7. CASE (\E n \in Nodes : Propagate(n)) \/ UNCHANGED vars
    BY <1>1, <1>7 DEF Propagate, vars, meshVars
  <1>8. QED
    BY <1>1, <1>4, <1>5, <1>6, <1>7, Classes
-----------------------------------------------------------------------------
(* The theorem *)

LEMMA InitAddresses == Init => AInv
  <1> SUFFICES ASSUME Init
               PROVE  AInv
    OBVIOUS
  <1>1. IInv
    BY InitInvariant
  <1>2. NobodyStrays
    BY DEF Init, NobodyStrays
  <1>3. \A j \in Jobs : Exclusive(j) /\ Addresses(j) /\ Pending(j)
    BY DEF Init, Exclusive, Addresses, Pending, Steps
  <1>4. QED
    BY <1>1, <1>2, <1>3 DEF AInv

LEMMA StepAddresses == AInv /\ [Next]_vars => AInv'
  BY StepInvariant, ExclusiveStep, AddressesStep, StrayStep DEF AInv

\* While its job runs, a party resolves the coordinator and party0 of its own job, as long
\* as deregistrations reach DNS in time.
THEOREM NoStrangers == Spec => []NobodyStrays
  <1>1. AInv => NobodyStrays
    BY DEF AInv
  <1>2. QED
    BY <1>1, InitAddresses, StepAddresses, PTL DEF Spec
=============================================================================
