-------------------------- MODULE JobMachineProofs --------------------------
(***************************************************************************)
(* Proofs about JobMachine for every set of jobs, every size and every     *)
(* number of faults: the lock, its owner and its refinement of JobLock, the *)
(* verdict that stands, the row that is carried to its end, the success    *)
(* that is earned or crossed by another job's command, and the failure that *)
(* has a cause.                                                            *)
(***************************************************************************)
EXTENDS JobMachine, TLAPS

\* The queue holds stored jobs, each once.
QueueInv ==
    /\ \A i \in DOMAIN queue : sm[queue[i]] = "stored"
    /\ \A i, k \in DOMAIN queue : queue[i] = queue[k] => i = k

Early == {"none", "stored", "acquire", "wait", "start", "starting", "poll"}

\* The parties of job j served it, or somebody took one of its containers away.
Earned(j) == Parties(j) \subseteq served[j] \/ j \in crossed

\* The coordinator is stopped when the polling is over; a failure is recorded then, or by
\* a StartJob that is run again; until then no other job's container is where j started
\* its own, or j has been crossed.
JobInv(j) ==
    /\ stop[j] > 0 => sm[j] \notin Early
    /\ status[j] = "FAILED" => /\ sm[j] \in Early => sm[j] = "start"
                               /\ sm[j] = "finish" => verdict[j] = "FAILED"
    /\ sm[j] \in {"starting", "poll"} => ValidSize(j)
    /\ sm[j] = "poll" => \A n \in NodesOf(j) : run[j][n] = "success"
    /\ sm[j] \in {"starting", "poll"} =>
          \A n \in NodesOf(j) : run[j][n] = "success" => box[n].job \in {j, None} \/ j \in crossed
    /\ verdict[j] = "SUCCEEDED" \/ status[j] = "SUCCEEDED" => Earned(j)

\* A container belongs to a job, and one that ended well served it.
BoxInv ==
    \A n \in Nodes : /\ box[n].state # "none" => box[n].job \in Jobs
                     /\ box[n].state = "ok" => n \in served[box[n].job]

IInv == TypeOK /\ QueueInv /\ OneHolder /\ BoxInv /\ \A j \in Jobs : JobInv(j)
-----------------------------------------------------------------------------
(* Classes of steps *)

\* The steps of Submit, of the queue and of the execution of job j.
JobStep(j) ==
    \/ Submit(j) \/ EnqueueRaises(j) \/ AcquireLock(j) \/ WaitForLock(j)
    \/ StartRejects(j) \/ StartSends(j) \/ StartSendRaises(j)
    \/ StartReturns(j) \/ StartFails(j) \/ StartTimesOut(j)
    \/ CheckEnds(j) \/ FinishJob(j) \/ StopRaises(j)
    \/ InvokeRetried(j) \/ InvokeRaises(j)
    \/ ReleaseLock(j) \/ MachineTimesOut(j)

\* The steps of an instance.
BoxStep ==
    \/ \E j \in Jobs, n \in Nodes : ScriptRuns(j, n) \/ ScriptFails(j, n)
    \/ \E j \in Jobs : CoordinatorRemoved(j)
    \/ \E n \in Nodes : PartySucceeds(n) \/ PartyFails(n) \/ PartyGivesUp(n)

Steps ==
    \/ \E j \in Jobs : JobStep(j) \/ Enqueue(j)
    \/ PipeStarts
    \/ BoxStep
    \/ UNCHANGED vars

LEMMA EveryStep == TypeOK /\ [Next]_vars => Steps /\ faults' \in 0..MaxFaults
  <1> SUFFICES ASSUME TypeOK, [Next]_vars
               PROVE  Steps /\ faults' \in 0..MaxFaults
    OBVIOUS
  <1>1. Steps
    BY DEF Steps, JobStep, BoxStep, Next, QueueStep, PipeStep, MachineStep, ScriptStep,
           PartyStep, FaultStep, OutsideStep
  <1>2. faults' = faults \/ (faults < MaxFaults /\ faults' = faults + 1)
    BY DEF Next, QueueStep, PipeStep, MachineStep, ScriptStep, PartyStep, FaultStep,
           OutsideStep, vars
  <1>3. QED
    BY <1>1, <1>2, JobsAssumption DEF JobsAssumption, TypeOK

\* Only job j's execution, row and commands change.
LEMMA JobOnly ==
  ASSUME TypeOK, NEW j \in Jobs, JobStep(j)
  PROVE  /\ UNCHANGED <<queue, box, served, crossed>>
         /\ \A k \in Jobs : k # j => /\ status'[k] = status[k] /\ verdict'[k] = verdict[k]
                                     /\ sm'[k] = sm[k] /\ run'[k] = run[k]
                                     /\ stop'[k] = stop[k]
  BY DEF TypeOK, JobStep, Submit, EnqueueRaises, AcquireLock, WaitForLock, StartRejects,
         StartSends, StartSendRaises, StartReturns, StartFails, StartTimesOut, CheckEnds,
         FinishJob, StopRaises, InvokeRetried, InvokeRaises, StartAttempted, FinishAttempted,
         SendsSome, ReleaseLock, MachineTimesOut, Finishes,
         StopCoordinator, Goto, Record, SendTo, jobVars, meshVars

\* A step of an instance leaves the executions and the rows alone.
LEMMA BoxOnly ==
  ASSUME BoxStep
  PROVE  UNCHANGED <<jobVars, sm, lock, restarted>>
  BY DEF BoxStep, ScriptRuns, ScriptFails, CoordinatorRemoved, PartySucceeds, PartyFails,
         PartyGivesUp, Exit
-----------------------------------------------------------------------------
(* Types *)

LEMMA InitTypes == Init => TypeOK
  <1> SUFFICES ASSUME Init
               PROVE  TypeOK
    OBVIOUS
  <1>1. box \in [Nodes -> [job : Jobs \cup {None}, state : {"none", "up", "ok", "bad"}]]
    BY DEF Init, NoBox
  <1>2. faults \in 0..MaxFaults
    BY JobsAssumption DEF JobsAssumption, Init
  <1>3. run \in [Jobs -> [Nodes -> {"none", "sent", "success", "failed"}]]
    BY DEF Init
  <1>4. served \in [Jobs -> SUBSET Nodes]
    BY DEF Init
  <1>5. /\ status \in [Jobs -> Terminal \cup {"none", "QUEUED", "RUNNING"}]
        /\ sm \in [Jobs -> {"none", "stored", "acquire", "wait"} \cup Holding \cup Ended]
        /\ verdict \in [Jobs -> Terminal \cup {"RUNNING"}]
    BY DEF Init
  <1>6. queue = << >> /\ lock \in BOOLEAN /\ crossed \subseteq Jobs /\ restarted \subseteq Jobs
    BY DEF Init
  <1>7. queue \in Seq(Jobs)
    BY <1>6
  <1>8. late \in [Jobs -> [Nodes -> Nat]] /\ stop \in [Jobs -> Nat]
    BY DEF Init
  <1>9. QED
    BY <1>1, <1>2, <1>3, <1>4, <1>5, <1>6, <1>7, <1>8 DEF TypeOK

LEMMA SendTypes ==
  ASSUME TypeOK, NEW j \in Jobs, NEW ns, SendTo(j, ns)
  PROVE  /\ run' \in [Jobs -> [Nodes -> {"none", "sent", "success", "failed"}]]
         /\ late' \in [Jobs -> [Nodes -> Nat]]
  <1> DEFINE sent == [n \in Nodes |-> IF n \in ns THEN "sent" ELSE run[j][n]]
             old == [n \in Nodes |-> IF n \in ns /\ run[j][n] = "sent" THEN late[j][n] + 1
                                                                   ELSE late[j][n]]
  <1>1. /\ run \in [Jobs -> [Nodes -> {"none", "sent", "success", "failed"}]]
        /\ late \in [Jobs -> [Nodes -> Nat]]
    BY DEF TypeOK
  <1>2. sent \in [Nodes -> {"none", "sent", "success", "failed"}] /\ old \in [Nodes -> Nat]
    BY <1>1
  <1>3. run' = [run EXCEPT ![j] = sent] /\ late' = [late EXCEPT ![j] = old]
    BY DEF SendTo
  <1>4. QED
    BY <1>1, <1>2, <1>3

LEMMA JobTypes ==
  ASSUME TypeOK, NEW j \in Jobs, JobStep(j), faults' \in 0..MaxFaults
  PROVE  TypeOK'
  <1>1. UNCHANGED <<queue, box, served, crossed>>
    BY JobOnly DEF TypeOK
  <1>2. sm' \in [Jobs -> {"none", "stored", "acquire", "wait"} \cup Holding \cup Ended]
    <2>1. UNCHANGED sm \/ \E s \in {"none", "stored", "acquire", "wait"} \cup Holding \cup Ended :
                              Goto(j, s)
      <3>1. CASE InvokeRaises(j) \/ InvokeRetried(j)
        BY <3>1 DEF InvokeRaises, InvokeRetried, Holding, Ended
      <3>2. CASE ReleaseLock(j) \/ MachineTimesOut(j)
        BY <3>2 DEF ReleaseLock, MachineTimesOut, Holding, Ended
      <3>3. CASE FinishJob(j) \/ StopRaises(j)
        BY <3>3 DEF FinishJob, StopRaises, Finishes, Holding, Ended
      <3>4. CASE Submit(j) \/ EnqueueRaises(j) \/ AcquireLock(j) \/ WaitForLock(j)
        BY <3>4 DEF Submit, EnqueueRaises, AcquireLock, WaitForLock, Holding, Ended
      <3>5. CASE \/ StartRejects(j) \/ StartSends(j) \/ StartSendRaises(j)
                 \/ StartReturns(j) \/ StartFails(j) \/ StartTimesOut(j) \/ CheckEnds(j)
        BY <3>5 DEF StartRejects, StartSends, StartSendRaises, StartReturns, StartFails,
                    StartTimesOut, CheckEnds, Holding, Ended
      <3>6. QED
        BY <3>1, <3>2, <3>3, <3>4, <3>5 DEF JobStep
    <2>2. QED
      BY <2>1 DEF TypeOK, Goto
  <1>3. status' \in [Jobs -> Terminal \cup {"none", "QUEUED", "RUNNING"}]
    BY DEF TypeOK, JobStep, Submit, EnqueueRaises, AcquireLock, WaitForLock, StartRejects,
           StartSends, StartSendRaises, StartReturns, StartFails, StartTimesOut, CheckEnds,
           FinishJob, StopRaises, InvokeRetried, InvokeRaises, StartAttempted,
           FinishAttempted, SendsSome, ReleaseLock, MachineTimesOut, Finishes, Record,
           Terminal, jobVars
  <1>4. verdict' \in [Jobs -> Terminal \cup {"RUNNING"}] /\ lock' \in BOOLEAN
    BY DEF TypeOK, JobStep, Submit, EnqueueRaises, AcquireLock, WaitForLock, StartRejects,
           StartSends, StartSendRaises, StartReturns, StartFails, StartTimesOut, CheckEnds,
           FinishJob, StopRaises, InvokeRetried, InvokeRaises, ReleaseLock, MachineTimesOut,
           Terminal, jobVars
  <1>5. /\ run' \in [Jobs -> [Nodes -> {"none", "sent", "success", "failed"}]]
        /\ late' \in [Jobs -> [Nodes -> Nat]]
    <2>1. UNCHANGED <<run, late>> \/ \E ns : SendTo(j, ns)
      BY DEF JobStep, Submit, EnqueueRaises, AcquireLock, WaitForLock, StartRejects,
           StartSends, StartSendRaises, StartReturns, StartFails, StartTimesOut, CheckEnds,
           FinishJob, StopRaises, InvokeRetried, InvokeRaises, StartAttempted,
           FinishAttempted, SendsSome, ReleaseLock, MachineTimesOut, meshVars
    <2>2. QED
      BY <2>1, SendTypes DEF TypeOK
  <1>6. stop' \in [Jobs -> Nat] /\ restarted' \subseteq Jobs
    <2>1. /\ UNCHANGED stop \/ StopCoordinator(j)
          /\ restarted' \in {restarted, restarted \cup {j}}
      BY DEF JobStep, Submit, EnqueueRaises, AcquireLock, WaitForLock, StartRejects,
           StartSends, StartSendRaises, StartReturns, StartFails, StartTimesOut, CheckEnds,
           FinishJob, StopRaises, InvokeRetried, InvokeRaises, StartAttempted,
           FinishAttempted, ReleaseLock, MachineTimesOut, meshVars
    <2>2. StopCoordinator(j) => stop' \in [Jobs -> Nat]
      BY DEF TypeOK, StopCoordinator
    <2>3. QED
      BY <2>1, <2>2 DEF TypeOK
  <1>7. QED
    BY <1>1, <1>2, <1>3, <1>4, <1>5, <1>6 DEF TypeOK

Boxes == [job : Jobs \cup {None}, state : {"none", "up", "ok", "bad"}]

MeshTypes ==
    /\ run \in [Jobs -> [Nodes -> {"none", "sent", "success", "failed"}]]
    /\ late \in [Jobs -> [Nodes -> Nat]]
    /\ stop \in [Jobs -> Nat]
    /\ box \in [Nodes -> Boxes]
    /\ served \in [Jobs -> SUBSET Nodes]
    /\ crossed \subseteq Jobs

LEMMA ExitTypes ==
  ASSUME TypeOK, NEW n \in Nodes, NEW s \in {"ok", "bad"}, Exit(n, s)
  PROVE  /\ box' \in [Nodes -> Boxes]
         /\ box'[n].job = box[n].job /\ box'[n].state = s
         /\ \A m \in Nodes : m # n => box'[m] = box[m]
         /\ box[n].state = "up"
  <1>1. box \in [Nodes -> Boxes] /\ box[n] \in Boxes
    BY DEF TypeOK, Boxes
  <1>2. box' = [box EXCEPT ![n] = [box[n] EXCEPT !.state = s]] /\ box[n].state = "up"
    BY DEF Exit
  <1>3. [box[n] EXCEPT !.state = s] \in Boxes
    BY <1>1 DEF Boxes
  <1>4. [box[n] EXCEPT !.state = s].job = box[n].job /\ [box[n] EXCEPT !.state = s].state = s
    BY <1>1 DEF Boxes
  <1>5. QED
    BY <1>1, <1>2, <1>3, <1>4

LEMMA CrossTypes ==
  ASSUME TypeOK, NEW j \in Jobs, NEW n \in Nodes, Cross(j, n)
  PROVE  /\ crossed' \subseteq Jobs /\ crossed \subseteq crossed'
         /\ \A k \in Jobs \ {j} :
               \/ sm[k] \in Holding /\ box[n].job = k
               \/ sm[k] \in {"starting", "poll"} /\ run[k][n] = "success"
               => k \in crossed'
  BY DEF Cross, TypeOK

\* What the delivery of a start command changes.
LEMMA Delivery ==
  ASSUME TypeOK, NEW j \in Jobs, NEW n \in Nodes, NEW s \in {"success", "failed"},
         Delivered(j, n, s)
  PROVE  /\ run' \in [Jobs -> [Nodes -> {"none", "sent", "success", "failed"}]]
         /\ late' \in [Jobs -> [Nodes -> Nat]]
         /\ \A k \in Jobs : k # j => run'[k] = run[k]
         /\ \A m \in Nodes : m # n => run'[j][m] = run[j][m]
         /\ run'[j][n] = run[j][n] \/ (run[j][n] = "sent" /\ run'[j][n] = s)
  <1>1. /\ run \in [Jobs -> [Nodes -> {"none", "sent", "success", "failed"}]]
        /\ late \in [Jobs -> [Nodes -> Nat]]
    BY DEF TypeOK
  <1>2. CASE run[j][n] = "sent" /\ run' = [run EXCEPT ![j][n] = s] /\ UNCHANGED late
    BY <1>1, <1>2
  <1>3. CASE /\ late[j][n] > 0 /\ late' = [late EXCEPT ![j][n] = @ - 1]
             /\ UNCHANGED run
    <2>1. late[j][n] - 1 \in Nat
      BY <1>1, <1>3
    <2>2. QED
      BY <1>1, <1>3, <2>1
  <1>4. QED
    BY <1>2, <1>3 DEF Delivered

LEMMA BoxTypes ==
  ASSUME TypeOK, BoxStep, faults' \in 0..MaxFaults
  PROVE  TypeOK'
  <1>1. UNCHANGED <<jobVars, sm, lock>>
    BY BoxOnly
  <1>2. SUFFICES MeshTypes'
    BY <1>1, BoxOnly DEF TypeOK, MeshTypes, Boxes, jobVars
  <1>3. 0 \in Nodes
    BY JobsAssumption DEF JobsAssumption, Nodes
  <1>4. ASSUME NEW j \in Jobs, NEW n \in Nodes, ScriptRuns(j, n) \/ ScriptFails(j, n)
        PROVE  MeshTypes'
    <2>1. UNCHANGED <<stop, served>> /\ crossed' \subseteq Jobs
      BY <1>4, CrossTypes DEF TypeOK, ScriptRuns, ScriptFails
    <2>2. box' = box \/ \E b \in Boxes : box' = [box EXCEPT ![n] = b]
      BY <1>4 DEF ScriptRuns, ScriptFails, NoBox, Boxes
    <2>3. box' \in [Nodes -> Boxes]
      BY <2>2 DEF TypeOK, Boxes
    <2>4. /\ run' \in [Jobs -> [Nodes -> {"none", "sent", "success", "failed"}]]
          /\ late' \in [Jobs -> [Nodes -> Nat]]
      BY <1>4, Delivery DEF ScriptRuns, ScriptFails
    <2>5. QED
      BY <2>1, <2>3, <2>4 DEF MeshTypes, TypeOK
  <1>5. ASSUME NEW j \in Jobs, CoordinatorRemoved(j)
        PROVE  MeshTypes'
    <2>1. stop' \in [Jobs -> Nat] /\ UNCHANGED <<run, late, served>>
      <3>1. stop \in [Jobs -> Nat] /\ stop[j] - 1 \in Nat
        BY <1>5 DEF TypeOK, CoordinatorRemoved
      <3>2. QED
        BY <1>5, <3>1 DEF CoordinatorRemoved
    <2>2. box' \in [Nodes -> Boxes] /\ crossed' \subseteq Jobs
      BY <1>3, <1>5, CrossTypes DEF TypeOK, CoordinatorRemoved, NoBox, Boxes
    <2>3. QED
      BY <2>1, <2>2 DEF MeshTypes, TypeOK
  <1>6. ASSUME NEW n \in Nodes, PartySucceeds(n) \/ PartyFails(n) \/ PartyGivesUp(n)
        PROVE  MeshTypes'
    <2>1. box' \in [Nodes -> Boxes] /\ UNCHANGED <<run, late, stop, crossed>>
      BY <1>6, ExitTypes DEF PartySucceeds, PartyFails, PartyGivesUp, Exit
    <2>2. served' \in [Jobs -> SUBSET Nodes]
      BY <1>6 DEF TypeOK, PartySucceeds, PartyFails, PartyGivesUp
    <2>3. QED
      BY <2>1, <2>2 DEF MeshTypes, TypeOK
  <1>7. QED
    BY <1>4, <1>5, <1>6 DEF BoxStep

LEMMA EnqueueTypes ==
  ASSUME TypeOK, NEW j \in Jobs, Enqueue(j), faults' \in 0..MaxFaults
  PROVE  TypeOK'
  BY DEF TypeOK, Enqueue, meshVars

LEMMA PipeTypes ==
  ASSUME TypeOK, PipeStarts, faults' \in 0..MaxFaults
  PROVE  TypeOK'
  BY DEF TypeOK, PipeStarts, Goto, meshVars, Holding, Ended

LEMMA StepTypes == TypeOK /\ [Next]_vars => TypeOK'
  <1> SUFFICES ASSUME TypeOK, [Next]_vars
               PROVE  TypeOK'
    OBVIOUS
  <1>1. CASE UNCHANGED vars
    BY <1>1 DEF TypeOK, vars, jobVars, meshVars
  <1>2. QED
    BY <1>1, EveryStep, JobTypes, EnqueueTypes, PipeTypes, BoxTypes DEF Steps
-----------------------------------------------------------------------------
(* The queue and the lock *)

LEMMA QueueStays == TypeOK /\ QueueInv /\ Steps => QueueInv'
  <1> SUFFICES ASSUME TypeOK, QueueInv, Steps
               PROVE  QueueInv'
    OBVIOUS
  <1>1. ASSUME UNCHANGED <<queue, sm>>
        PROVE  QueueInv'
    BY <1>1 DEF QueueInv
  <1>2. ASSUME NEW j \in Jobs, Enqueue(j)
        PROVE  QueueInv'
    BY <1>2 DEF TypeOK, QueueInv, Enqueue, Range
  <1>3. ASSUME NEW j \in Jobs, JobStep(j)
        PROVE  QueueInv'
    <2>1. UNCHANGED queue /\ \A k \in Jobs : k # j => sm'[k] = sm[k]
      BY <1>3, JobOnly
    <2>2. sm[j] = "stored" => j \notin Range(queue)
      BY <1>3 DEF JobStep, Submit, EnqueueRaises, AcquireLock, WaitForLock, StartRejects,
           StartSends, StartSendRaises, StartReturns, StartFails, StartTimesOut, CheckEnds,
           FinishJob, StopRaises, InvokeRetried, InvokeRaises, StartAttempted,
           FinishAttempted, ReleaseLock, MachineTimesOut, Finishes, Holding
    <2>3. \A i \in DOMAIN queue : queue[i] \in Jobs /\ queue[i] # j
      BY <2>2 DEF TypeOK, QueueInv, Range
    <2>4. QED
      BY <2>1, <2>3 DEF QueueInv
  <1>4. CASE PipeStarts
    <2>1. queue \in Seq(Jobs) /\ queue # << >> /\ queue' = Tail(queue)
      BY <1>4 DEF TypeOK, PipeStarts
    <2>2. \A k \in Jobs : k # Head(queue) => sm'[k] = sm[k]
      BY <1>4 DEF TypeOK, PipeStarts, Goto
    <2>3. Len(queue') = Len(queue) - 1 /\ \A i \in DOMAIN queue' :
             /\ i \in Nat /\ i + 1 \in DOMAIN queue /\ i + 1 # 1
             /\ queue'[i] = queue[i + 1] /\ queue[i + 1] \in Jobs
      BY <2>1
    <2>4. 1 \in DOMAIN queue /\ queue[1] = Head(queue)
      BY <2>1
    <2>5. \A i \in DOMAIN queue' : queue'[i] # Head(queue)
      BY <2>3, <2>4 DEF QueueInv
    <2>6. \A i \in DOMAIN queue' : sm'[queue'[i]] = "stored"
      BY <2>2, <2>3, <2>5 DEF QueueInv
    <2>7. \A i, k \in DOMAIN queue' : queue'[i] = queue'[k] => i = k
      BY <2>3 DEF QueueInv
    <2>8. QED
      BY <2>6, <2>7 DEF QueueInv
  <1>5. QED
    BY <1>1, <1>2, <1>3, <1>4, BoxOnly DEF Steps, vars, jobVars

\* How a step moves the execution of a job, and the lock.
LEMMA Moves ==
  ASSUME TypeOK, QueueInv, Steps
  PROVE  \/ UNCHANGED <<sm, lock>>
         \/ \E j \in Jobs, s \in {"none", "stored", "acquire", "wait"} \cup Holding \cup Ended :
               /\ Goto(j, s) /\ sm[j] # "dead"
               /\ \/ UNCHANGED lock /\ (s \in Holding <=> sm[j] \in Holding)
                  \/ UNCHANGED lock /\ s = "dead" /\ sm[j] \in Holding
                  \/ s = "start" /\ ~lock /\ lock' = TRUE
                  \/ s \in Ended /\ sm[j] \in Holding /\ lock' = FALSE
  <1> DEFINE Moved == \E j \in Jobs,
                         s \in {"none", "stored", "acquire", "wait"} \cup Holding \cup Ended :
               /\ Goto(j, s) /\ sm[j] # "dead"
               /\ \/ UNCHANGED lock /\ (s \in Holding <=> sm[j] \in Holding)
                  \/ UNCHANGED lock /\ s = "dead" /\ sm[j] \in Holding
                  \/ s = "start" /\ ~lock /\ lock' = TRUE
                  \/ s \in Ended /\ sm[j] \in Holding /\ lock' = FALSE
  <1>1. ASSUME NEW j \in Jobs, JobStep(j)
        PROVE  UNCHANGED <<sm, lock>> \/ Moved
    <2>1. CASE Submit(j) \/ EnqueueRaises(j) \/ WaitForLock(j)
      BY <2>1 DEF Submit, EnqueueRaises, WaitForLock, Holding, Ended
    <2>2. CASE AcquireLock(j)
      <3>1. CASE lock
        BY <2>2, <3>1 DEF AcquireLock, Holding, Ended
      <3>2. CASE ~lock
        BY <2>2, <3>2 DEF AcquireLock, Holding
      <3>3. QED
        BY <3>1, <3>2
    <2>3. CASE \/ StartRejects(j) \/ StartSends(j) \/ StartSendRaises(j)
               \/ StartReturns(j) \/ StartFails(j) \/ StartTimesOut(j) \/ CheckEnds(j)
      BY <2>3 DEF StartRejects, StartSends, StartSendRaises, StartReturns, StartFails,
                  StartTimesOut, CheckEnds, Holding, Ended
    <2>4. CASE FinishJob(j) \/ StopRaises(j)
      BY <2>4 DEF FinishJob, StopRaises, Finishes, Holding, Ended
    <2>5. CASE InvokeRetried(j) \/ InvokeRaises(j)
      BY <2>5 DEF InvokeRetried, InvokeRaises, StartAttempted, FinishAttempted, Holding, Ended
    <2>6. CASE ReleaseLock(j)
      BY <2>6 DEF ReleaseLock, Holding, Ended
    <2>7. CASE MachineTimesOut(j)
      BY <2>7 DEF MachineTimesOut, Holding, Ended
    <2>8. QED
      BY <1>1, <2>1, <2>2, <2>3, <2>4, <2>5, <2>6, <2>7 DEF JobStep
  <1>2. CASE PipeStarts
    <2>1. Head(queue) \in Jobs /\ sm[Head(queue)] = "stored"
      BY <1>2 DEF TypeOK, QueueInv, PipeStarts
    <2>2. QED
      BY <1>2, <2>1 DEF PipeStarts, Holding, Ended
  <1>3. QED
    BY <1>1, <1>2, BoxOnly DEF Steps, Enqueue, vars

LEMMA HolderStays == TypeOK /\ QueueInv /\ OneHolder /\ Steps => OneHolder'
  <1> SUFFICES ASSUME TypeOK, QueueInv, OneHolder, Steps
               PROVE  OneHolder'
    OBVIOUS
  <1>1. CASE UNCHANGED <<sm, lock>>
    BY <1>1 DEF OneHolder
  <1>2. ASSUME NEW j \in Jobs,
               NEW s \in {"none", "stored", "acquire", "wait"} \cup Holding \cup Ended,
               Goto(j, s),
               \/ UNCHANGED lock /\ (s \in Holding <=> sm[j] \in Holding)
               \/ UNCHANGED lock /\ s = "dead" /\ sm[j] \in Holding
               \/ s = "start" /\ ~lock /\ lock' = TRUE
               \/ s \in Ended /\ sm[j] \in Holding /\ lock' = FALSE
        PROVE  OneHolder'
    <2>1. sm'[j] = s /\ \A k \in Jobs : k # j => sm'[k] = sm[k]
      BY <1>2 DEF TypeOK, Goto
    <2>2. \A k \in Ended : k \notin Holding
      BY DEF Ended, Holding
    <2>3. "dead" \notin Holding
      BY DEF Holding
    <2>4. QED
      BY <1>2, <2>1, <2>2, <2>3 DEF OneHolder
  <1>3. QED
    BY <1>1, <1>2, Moves

\* The lock stays with an execution: only AcquireLock takes it, only a holder's
\* ReleaseLock gives it back, and a holder that is lost is dead.
LEMMA OwnerStays == TypeOK /\ QueueInv /\ LockHasOwner /\ Steps => LockHasOwner'
  <1> SUFFICES ASSUME TypeOK, QueueInv, LockHasOwner, Steps, lock'
               PROVE  \E k \in Jobs : sm'[k] \in Holding \cup {"dead"}
    BY DEF LockHasOwner
  <1>1. CASE UNCHANGED <<sm, lock>>
    BY <1>1 DEF LockHasOwner
  <1>2. ASSUME NEW j \in Jobs,
               NEW s \in {"none", "stored", "acquire", "wait"} \cup Holding \cup Ended,
               Goto(j, s), sm[j] # "dead",
               \/ UNCHANGED lock /\ (s \in Holding <=> sm[j] \in Holding)
               \/ UNCHANGED lock /\ s = "dead" /\ sm[j] \in Holding
               \/ s = "start" /\ ~lock /\ lock' = TRUE
               \/ s \in Ended /\ sm[j] \in Holding /\ lock' = FALSE
        PROVE  \E k \in Jobs : sm'[k] \in Holding \cup {"dead"}
    <2>1. sm'[j] = s /\ \A k \in Jobs : k # j => sm'[k] = sm[k]
      BY <1>2 DEF TypeOK, Goto
    <2>2. "start" \in Holding
      BY DEF Holding
    <2>3. CASE UNCHANGED lock
      <3>1. PICK k \in Jobs : sm[k] \in Holding \cup {"dead"}
        BY <2>3 DEF LockHasOwner
      <3>2. CASE k = j
        BY <1>2, <2>1, <2>3, <3>1, <3>2
      <3>3. CASE k # j
        BY <2>1, <3>1, <3>3
      <3>4. QED
        BY <3>2, <3>3
    <2>4. CASE s = "start"
      BY <2>1, <2>2, <2>4
    <2>5. QED
      BY <1>2, <2>3, <2>4
  <1>3. QED
    BY <1>1, <1>2, Moves
-----------------------------------------------------------------------------
(* The rows and the containers *)

\* A valid job's nodes are nodes of the mesh.
LEMMA Smaller ==
  ASSUME NEW j \in Jobs, ValidSize(j)
  PROVE  NodesOf(j) \subseteq Nodes /\ Parties(j) \subseteq NodesOf(j) /\ 0 \in NodesOf(j)
  BY JobsAssumption DEF ValidSize, NodesOf, Parties, Nodes, JobsAssumption

\* A step that takes no container from a job and gives nothing back keeps what is said
\* of that job.
LEMMA JobStays ==
  ASSUME NEW j \in Jobs, JobInv(j), UNCHANGED <<sm[j], status[j], verdict[j], run[j]>>,
         stop'[j] > 0 => stop[j] > 0,
         crossed \subseteq crossed', served[j] \subseteq served'[j],
         sm[j] \in {"starting", "poll"} =>
            \A n \in NodesOf(j) : \/ box'[n].job \in {box[n].job, None}
                                  \/ run[j][n] = "success" => j \in crossed'
  PROVE  JobInv(j)'
  BY DEF JobInv, Earned

\* A step of the job itself.
LEMMA OwnStep ==
  ASSUME TypeOK, BoxInv, NEW j \in Jobs, JobInv(j), JobStep(j)
  PROVE  JobInv(j)'
  <1> USE DEF TypeOK, JobInv, Earned, Goto, Record, Early, jobVars, meshVars
  <1>1. CASE Submit(j) \/ EnqueueRaises(j) \/ AcquireLock(j) \/ WaitForLock(j)
    BY <1>1 DEF Submit, EnqueueRaises, AcquireLock, WaitForLock
  <1>2. CASE StartRejects(j)
    BY <1>2 DEF StartRejects
  <1>13. CASE StartFails(j) \/ StartTimesOut(j)
    <2>1. /\ sm'[j] = "handle" /\ UNCHANGED <<verdict, meshVars>>
          /\ status'[j] = "FAILED" /\ sm[j] = "starting"
      BY <1>13 DEF StartFails, StartTimesOut
    <2>2. QED
      BY <2>1
  <1>3. ValidSize(j) => NodesOf(j) \subseteq Nodes /\ Parties(j) \subseteq NodesOf(j)
    BY Smaller
  <1>4. CASE StartSends(j)
    BY <1>3, <1>4 DEF StartSends, SendTo
  <1>5. CASE StartSendRaises(j)
    BY <1>5 DEF StartSendRaises, SendsSome
  <1>6. CASE StartReturns(j)
    BY <1>6 DEF StartReturns
  <1>7. CASE CheckEnds(j)
    <2>1. ASSUME \A n \in Parties(j) : box[n].state \notin {"bad"}
          PROVE  Earned(j)
      <3>1. \A n \in Parties(j) : n \in Nodes /\ n \in NodesOf(j) /\ box[n].state = "ok"
        BY <1>3, <1>7, <2>1 DEF CheckEnds
      <3>2. \A n \in Parties(j) : box[n].job \in Jobs /\ n \in served[box[n].job]
        BY <3>1 DEF BoxInv
      <3>3. \A n \in Parties(j) : box[n].job \in {j, None} \/ j \in crossed
        BY <1>7, <3>1 DEF CheckEnds
      <3>4. QED
        BY <3>2, <3>3, JobsAssumption DEF JobsAssumption
    <2>2. verdict'[j] = "SUCCEEDED" => \A n \in Parties(j) : box[n].state # "bad"
      BY <1>7 DEF CheckEnds
    <2>7. sm[j] = "poll"
      BY <1>7 DEF CheckEnds
    <2>8. status[j] # "FAILED" /\ ~(stop[j] > 0)
      BY <2>7
    <2>3. /\ sm'[j] = "finish" /\ status[j] # "FAILED" /\ UNCHANGED status
          /\ ~(stop[j] > 0) /\ UNCHANGED <<stop, run, box, served, crossed>>
      BY <1>7, <2>8 DEF CheckEnds
    <2>4. Earned(j) => Earned(j)'
      BY <2>3
    <2>5. verdict'[j] = "SUCCEEDED" => Earned(j)
      BY <2>1, <2>2
    <2>6. QED
      BY <2>3, <2>4, <2>5
  <1>8. CASE FinishJob(j) \/ StopRaises(j)
    BY <1>8 DEF FinishJob, StopRaises, Finishes, StopCoordinator
  <1>9. CASE InvokeRetried(j)
    BY <1>9 DEF InvokeRetried, StartAttempted, FinishAttempted, SendsSome, StopCoordinator
  <1>12. CASE InvokeRaises(j)
    BY <1>12 DEF InvokeRaises, StartAttempted, FinishAttempted, SendsSome, StopCoordinator
  <1>10. CASE ReleaseLock(j) \/ MachineTimesOut(j)
    BY <1>10 DEF ReleaseLock, MachineTimesOut, Holding
  <1>11. QED
    BY <1>1, <1>2, <1>4, <1>5, <1>6, <1>7, <1>8, <1>9, <1>10, <1>12, <1>13 DEF JobStep

\* What a command of job j does to node n, and to the containers' jobs.
LEMMA CommandStep ==
  ASSUME IInv, NEW j \in Jobs, NEW n \in Nodes, Cross(j, n),
         NEW b \in Boxes, box' = [box EXCEPT ![n] = b],
         b = NoBox \/ (b.job = j /\ b.state = "up"),
         UNCHANGED <<jobVars, sm, lock, served>>,
         \A k \in Jobs : k # j => run'[k] = run[k] /\ stop'[k] = stop[k],
         JobInv(j)'
  PROVE  BoxInv' /\ \A k \in Jobs : JobInv(k)'
  <1>1. TypeOK
    BY DEF IInv
  <1>2. /\ crossed \subseteq crossed'
        /\ \A k \in Jobs \ {j} :
              sm[k] \in {"starting", "poll"} /\ run[k][n] = "success" => k \in crossed'
    BY <1>1, CrossTypes
  <1>3. box'[n] = b /\ \A m \in Nodes : m # n => box'[m] = box[m]
    BY <1>1 DEF TypeOK
  <1>4. BoxInv'
    BY <1>3 DEF IInv, BoxInv, NoBox
  <1>5. ASSUME NEW k \in Jobs, k # j
        PROVE  JobInv(k)'
    <2>1. JobInv(k) /\ UNCHANGED <<sm[k], status[k], verdict[k], run[k], served[k], stop[k]>>
      BY <1>5 DEF IInv, jobVars
    <2>2. ASSUME sm[k] \in {"starting", "poll"}, NEW m \in NodesOf(k)
          PROVE  box'[m].job \in {box[m].job, None} \/ (run[k][m] = "success" => k \in crossed')
      <3>1. m \in Nodes
        BY <2>1, <2>2, JobsAssumption
           DEF JobInv, ValidSize, NodesOf, Nodes, JobsAssumption
      <3>2. CASE m = n
        BY <1>2, <1>5, <2>2, <3>2
      <3>3. CASE m # n
        BY <1>3, <3>1, <3>3
      <3>4. QED
        BY <3>2, <3>3
    <2>3. QED
      BY <1>2, <2>1, <2>2, JobStays
  <1>6. QED
    BY <1>4, <1>5

LEMMA BoxStays ==
  ASSUME IInv, BoxStep
  PROVE  BoxInv' /\ \A k \in Jobs : JobInv(k)'
  <1>1. TypeOK /\ 0 \in Nodes
    BY JobsAssumption DEF JobsAssumption, Nodes, IInv
  <1>2. UNCHANGED <<jobVars, sm, lock>>
    BY BoxOnly
  <1>3. ASSUME NEW j \in Jobs, NEW n \in Nodes, NEW s \in {"success", "failed"},
               NEW b \in {box[n], NoBox, [job |-> j, state |-> "up"]},
               Delivered(j, n, s), box' = [box EXCEPT ![n] = b], UNCHANGED <<served, stop>>,
               crossed \subseteq crossed',
               s = "success" => b = [job |-> j, state |-> "up"]
        PROVE  JobInv(j)'
    <2>1. /\ \A m \in Nodes : m # n => run'[j][m] = run[j][m] /\ box'[m] = box[m]
          /\ run'[j][n] = run[j][n] \/ (run[j][n] = "sent" /\ run'[j][n] = s)
          /\ box'[n] = b
      BY <1>1, <1>3, Delivery DEF TypeOK
    <2>2. b.job \in {box[n].job, None, j}
      BY <1>3 DEF NoBox
    <2>3. JobInv(j) /\ UNCHANGED <<sm[j], status[j], verdict[j], stop[j], served[j]>>
      BY <1>2, <1>3 DEF IInv, jobVars
    <2>4. sm[j] \in {"starting", "poll"} => NodesOf(j) \subseteq Nodes
      BY <2>3, JobsAssumption DEF JobInv, ValidSize, NodesOf, Nodes, JobsAssumption
    <2>5. ASSUME sm[j] \in {"starting", "poll"}, NEW m \in NodesOf(j), run'[j][m] = "success"
          PROVE  box'[m].job \in {j, None} \/ j \in crossed'
      <3>1. CASE m # n
        BY <1>3, <2>1, <2>3, <2>4, <2>5, <3>1 DEF JobInv
      <3>2. CASE m = n /\ run[j][n] = "success"
        BY <1>3, <2>1, <2>2, <2>3, <2>5, <3>2 DEF JobInv
      <3>3. CASE m = n /\ s = "success"
        BY <1>3, <2>1, <3>3
      <3>4. QED
        BY <2>1, <2>5, <3>1, <3>2, <3>3
    <2>6. sm[j] = "poll" => \A m \in NodesOf(j) : run'[j][m] = "success"
      BY <2>1, <2>3, <2>4 DEF JobInv
    <2>7. QED
      BY <1>3, <2>3, <2>5, <2>6 DEF JobInv, Earned
  <1>4. ASSUME NEW j \in Jobs, NEW n \in Nodes, ScriptRuns(j, n)
        PROVE  BoxInv' /\ \A k \in Jobs : JobInv(k)'
    <2> DEFINE b == [job |-> j, state |-> "up"]
    <2>1. /\ box' = [box EXCEPT ![n] = b] /\ Cross(j, n)
          /\ UNCHANGED <<served, stop>> /\ Delivered(j, n, "success")
      BY <1>4 DEF ScriptRuns
    <2>2. crossed \subseteq crossed' /\ \A k \in Jobs : k # j => run'[k] = run[k]
      BY <1>1, <2>1, CrossTypes, Delivery
    <2>3. JobInv(j)'
      BY <1>3, <2>1, <2>2
    <2>4. b \in Boxes
      BY DEF Boxes
    <2>5. QED
      BY <1>2, <2>1, <2>2, <2>3, <2>4, CommandStep
  <1>5. ASSUME NEW j \in Jobs, NEW n \in Nodes, ScriptFails(j, n)
        PROVE  BoxInv' /\ \A k \in Jobs : JobInv(k)'
    <2>1. /\ UNCHANGED <<served, stop>> /\ Delivered(j, n, "failed")
          /\ \/ UNCHANGED <<box, crossed>>
             \/ box' = [box EXCEPT ![n] = NoBox] /\ Cross(j, n)
      BY <1>5 DEF ScriptFails
    <2>2. crossed \subseteq crossed' /\ \A k \in Jobs : k # j => run'[k] = run[k]
      BY <1>1, <2>1, CrossTypes, Delivery
    <2>3. box' = [box EXCEPT ![n] = box[n]] \/ box' = [box EXCEPT ![n] = NoBox]
      BY <1>1, <2>1 DEF TypeOK
    <2>4. JobInv(j)'
      BY <1>3, <2>1, <2>2, <2>3
    <2>5. NoBox \in Boxes
      BY DEF Boxes, NoBox
    <2>6. CASE UNCHANGED <<box, crossed>>
      <3>1. ASSUME NEW k \in Jobs, k # j
            PROVE  JobInv(k)'
        BY <1>2, <2>1, <2>2, <2>6, <3>1, JobStays DEF IInv, jobVars
      <3>2. BoxInv'
        BY <2>1, <2>6 DEF IInv, BoxInv
      <3>3. QED
        BY <2>4, <3>1, <3>2
    <2>7. CASE box' = [box EXCEPT ![n] = NoBox] /\ Cross(j, n)
      BY <1>2, <2>1, <2>2, <2>4, <2>5, <2>7, CommandStep
    <2>8. QED
      BY <2>1, <2>6, <2>7
  <1>8. ASSUME NEW j \in Jobs, CoordinatorRemoved(j)
        PROVE  BoxInv' /\ \A k \in Jobs : JobInv(k)'
    <2>1. /\ box' = [box EXCEPT ![0] = NoBox] /\ Cross(j, 0) /\ stop[j] > 0
          /\ UNCHANGED <<run, served>>
          /\ \A k \in Jobs : k # j => stop'[k] = stop[k]
      BY <1>1, <1>8 DEF TypeOK, CoordinatorRemoved
    <2>2. crossed \subseteq crossed'
      BY <1>1, <2>1, CrossTypes
    <2>3. JobInv(j)'
      BY <1>2, <2>1, <2>2 DEF IInv, JobInv, Early, Earned, jobVars
    <2>4. NoBox \in Boxes
      BY DEF Boxes, NoBox
    <2>5. QED
      BY <1>1, <1>2, <2>1, <2>3, <2>4, CommandStep
  <1>6. ASSUME NEW n \in Nodes, PartySucceeds(n) \/ PartyFails(n) \/ PartyGivesUp(n)
        PROVE  BoxInv' /\ \A k \in Jobs : JobInv(k)'
    <2>1. PICK s \in {"ok", "bad"} :
             /\ Exit(n, s)
             /\ \/ served' = served /\ s = "bad"
                \/ served' = [served EXCEPT ![box[n].job] = @ \cup {n}]
      BY <1>6 DEF PartySucceeds, PartyFails, PartyGivesUp
    <2>2. /\ box'[n].job = box[n].job /\ box'[n].state = s /\ box[n].job \in Jobs
          /\ \A m \in Nodes : m # n => box'[m] = box[m]
      BY <1>1, <2>1, ExitTypes DEF IInv, BoxInv
    <2>3. \A k \in Jobs : served[k] \subseteq served'[k]
      <3>1. served \in [Jobs -> SUBSET Nodes]
        BY <1>1 DEF TypeOK
      <3>2. QED
        BY <2>1, <2>2, <3>1
    <2>4. s = "ok" => n \in served'[box[n].job]
      BY <1>1, <2>1, <2>2 DEF TypeOK
    <2>5. BoxInv'
      BY <2>2, <2>3, <2>4 DEF IInv, BoxInv
    <2>6. UNCHANGED <<run, stop, crossed>>
      BY <2>1 DEF Exit
    <2>7. ASSUME NEW k \in Jobs
          PROVE  JobInv(k)'
      <3>1. ASSUME sm[k] \in {"starting", "poll"}
            PROVE  \A m \in NodesOf(k) : box'[m].job = box[m].job
        <4>1. NodesOf(k) \subseteq Nodes
          BY <3>1, JobsAssumption DEF IInv, JobInv, ValidSize, NodesOf, Nodes, JobsAssumption
        <4>2. QED
          BY <2>2, <4>1
      <3>2. QED
        BY <1>2, <2>3, <2>6, <3>1 DEF IInv, JobInv, Earned, jobVars
    <2>8. QED
      BY <2>5, <2>7
  <1>7. QED
    BY <1>4, <1>5, <1>6, <1>8 DEF BoxStep

LEMMA InitInvariant == Init => IInv
  <1> SUFFICES ASSUME Init
               PROVE  IInv
    OBVIOUS
  <1>1. TypeOK
    BY InitTypes
  <1>2. QED
    BY <1>1, JobsAssumption DEF Init, IInv, QueueInv, OneHolder, BoxInv, JobInv, NoBox, Holding,
                JobsAssumption

LEMMA StepInvariant == IInv /\ [Next]_vars => IInv'
  <1> SUFFICES ASSUME IInv, [Next]_vars
               PROVE  IInv'
    OBVIOUS
  <1>1. TypeOK' /\ Steps
    BY StepTypes, EveryStep DEF IInv
  <1>2. QueueInv' /\ OneHolder'
    BY <1>1, QueueStays, HolderStays DEF IInv
  <1>3. ASSUME NEW j \in Jobs, JobStep(j)
        PROVE  BoxInv' /\ \A k \in Jobs : JobInv(k)'
    <2>1. UNCHANGED <<box, served, crossed>>
      BY <1>3, JobOnly DEF IInv
    <2>2. BoxInv'
      BY <2>1 DEF IInv, BoxInv
    <2>3. JobInv(j)'
      BY <1>3, OwnStep DEF IInv
    <2>4. ASSUME NEW k \in Jobs, k # j
          PROVE  JobInv(k)'
      BY <1>3, <2>1, <2>4, JobOnly, JobStays DEF IInv
    <2>5. QED
      BY <2>2, <2>3, <2>4
  <1>4. CASE (\E j \in Jobs : Enqueue(j)) \/ UNCHANGED vars
    <2>1. UNCHANGED <<status, verdict, sm, meshVars>>
      BY <1>4 DEF Enqueue, vars, jobVars
    <2>2. BoxInv' /\ \A k \in Jobs : JobInv(k)'
      BY <2>1, JobStays DEF IInv, BoxInv, meshVars
    <2>3. QED
      BY <1>1, <1>2, <2>2 DEF IInv
  <1>5. CASE PipeStarts
    <2>1. UNCHANGED <<status, verdict, meshVars>> /\ Head(queue) \in Jobs
          /\ sm[Head(queue)] = "stored" /\ Goto(Head(queue), "acquire")
      BY <1>5 DEF IInv, TypeOK, QueueInv, PipeStarts
    <2>2. BoxInv'
      BY <2>1 DEF IInv, BoxInv, meshVars
    <2>3. \A k \in Jobs : JobInv(k)'
      BY <2>1 DEF IInv, TypeOK, JobInv, Earned, Early, Goto, meshVars
    <2>4. QED
      BY <1>1, <1>2, <2>2, <2>3 DEF IInv
  <1>6. QED
    BY <1>1, <1>2, <1>3, <1>4, <1>5, BoxStays DEF IInv, Steps
-----------------------------------------------------------------------------
(* What the end of an execution says of its row *)

\* A job is on its way out with a row that is settled.
RowInv(j) ==
    /\ sm[j] \in {"release", "releaseFailed", "succeeded", "failed"} => status[j] \in Terminal
    /\ sm[j] = "finish" => verdict[j] \in Terminal

LEMMA RowStays == IInv /\ (\A j \in Jobs : RowInv(j)) /\ Steps => \A j \in Jobs : RowInv(j)'
  <1> SUFFICES ASSUME IInv, \A j \in Jobs : RowInv(j), Steps, NEW k \in Jobs
               PROVE  RowInv(k)'
    OBVIOUS
  <1>1. TypeOK /\ RowInv(k)
    BY DEF IInv
  <1>2. CASE UNCHANGED <<status, verdict, sm>>
    BY <1>1, <1>2 DEF RowInv
  <1>3. ASSUME NEW j \in Jobs, JobStep(j), k # j
        PROVE  RowInv(k)'
    BY <1>1, <1>3, JobOnly DEF RowInv
  <1>4. ASSUME JobStep(k)
        PROVE  RowInv(k)'
    <2> USE DEF TypeOK, RowInv, Goto, Record, Terminal, jobVars
    <2>1. CASE Submit(k) \/ EnqueueRaises(k) \/ AcquireLock(k) \/ WaitForLock(k)
      BY <1>1, <2>1 DEF Submit, EnqueueRaises, AcquireLock, WaitForLock
    <2>2. CASE \/ StartRejects(k) \/ StartSends(k) \/ StartSendRaises(k)
               \/ StartReturns(k) \/ StartFails(k) \/ StartTimesOut(k)
      BY <1>1, <2>2 DEF StartRejects, StartSends, StartSendRaises, StartReturns, StartFails,
                        StartTimesOut
    <2>3. CASE CheckEnds(k)
      BY <1>1, <2>3 DEF CheckEnds
    <2>4. CASE FinishJob(k) \/ StopRaises(k)
      BY <1>1, <2>4 DEF FinishJob, StopRaises, Finishes
    <2>5. CASE InvokeRetried(k) \/ InvokeRaises(k) \/ ReleaseLock(k) \/ MachineTimesOut(k)
      BY <1>1, <2>5 DEF InvokeRetried, InvokeRaises, StartAttempted, FinishAttempted,
                        ReleaseLock, MachineTimesOut
    <2>6. QED
      BY <1>4, <2>1, <2>2, <2>3, <2>4, <2>5 DEF JobStep
  <1>5. CASE PipeStarts
    BY <1>1, <1>5 DEF TypeOK, RowInv, PipeStarts, Goto
  <1>6. QED
    BY <1>2, <1>3, <1>4, <1>5, BoxOnly DEF Steps, Enqueue, vars, jobVars
-----------------------------------------------------------------------------
(* Behaviours in which no fault has happened yet *)

Caused(j) == ~ValidSize(j) \/ j \in crossed

\* A failure that is recorded, found or being handled has its cause, no start command
\* failed, and what job j started is there and has not ended badly.
CalmJob(j) ==
    /\ status[j] = "FAILED" \/ verdict[j] = "FAILED" \/ sm[j] = "handle" => Caused(j)
    /\ \A n \in Nodes : run[j][n] # "failed"
    /\ sm[j] \in {"starting", "poll"} =>
          \A n \in NodesOf(j) : run[j][n] = "success" =>
             (box[n].job = j /\ box[n].state # "bad") \/ j \in crossed

\* A container has a job, and the coordinator does not end by itself.
CalmBoxes ==
    \A n \in Nodes : /\ box[n].job \in Jobs => box[n].state # "none"
                     /\ n = 0 => box[n].state \in {"none", "up"}

Calm == faults = 0 => CalmBoxes /\ restarted = {} /\ \A j \in Jobs : CalmJob(j)

\* The steps of an execution that are no faults.
CalmStep(j) ==
    \/ Submit(j) \/ AcquireLock(j) \/ WaitForLock(j)
    \/ StartRejects(j) \/ StartSends(j) \/ StartReturns(j) \/ StartFails(j)
    \/ CheckEnds(j) \/ FinishJob(j) \/ ReleaseLock(j)

\* A step after which there is still no fault.
LEMMA CalmSteps ==
  ASSUME TypeOK, [Next]_vars, faults' = 0
  PROVE  /\ faults = 0
         /\ \/ \E j \in Jobs : CalmStep(j) \/ Enqueue(j)
            \/ PipeStarts
            \/ \E j \in Jobs, n \in Nodes : ScriptRuns(j, n)
            \/ \E j \in Jobs : CoordinatorRemoved(j)
            \/ \E n \in Nodes : PartySucceeds(n) \/ PartyGivesUp(n)
            \/ UNCHANGED vars
  <1>1. faults \in Nat
    BY JobsAssumption DEF TypeOK, JobsAssumption
  <1>2. ~FaultStep
    BY <1>1 DEF FaultStep
  <1>3. QED
    BY <1>2 DEF CalmStep, Next, QueueStep, PipeStep, MachineStep, ScriptStep, PartyStep,
                OutsideStep, vars

\* A step of the job itself.
LEMMA CalmOwnStep ==
  ASSUME IInv, NEW j \in Jobs, CalmJob(j), CalmStep(j)
  PROVE  CalmJob(j)'
  <1> USE DEF TypeOK, Caused, Goto, Record, jobVars, meshVars
  <1>1. TypeOK /\ JobInv(j)
    BY DEF IInv
  <1>2. CASE Submit(j) \/ AcquireLock(j) \/ WaitForLock(j) \/ ReleaseLock(j)
    BY <1>1, <1>2 DEF CalmJob, Submit, AcquireLock, WaitForLock, ReleaseLock
  <1>3. CASE StartRejects(j)
    BY <1>1, <1>3 DEF CalmJob, StartRejects
  <1>4. CASE StartSends(j)
    <2>1. run'[j] = [n \in Nodes |-> IF n \in NodesOf(j) THEN "sent" ELSE run[j][n]]
      BY <1>1, <1>4 DEF StartSends, SendTo
    <2>2. ValidSize(j)
      BY <1>4 DEF StartSends
    <2>3. \A n \in NodesOf(j) : run'[j][n] # "success"
      BY <2>1, <2>2, Smaller
    <2>4. \A n \in Nodes : run'[j][n] # "failed"
      BY <2>1 DEF CalmJob
    <2>5. sm'[j] = "starting" /\ status'[j] = "RUNNING" /\ UNCHANGED <<verdict, crossed>>
      BY <1>1, <1>4 DEF StartSends
    <2>6. QED
      BY <2>3, <2>4, <2>5 DEF CalmJob
  <1>5. CASE StartReturns(j)
    BY <1>1, <1>5 DEF CalmJob, StartReturns
  <1>6. CASE StartFails(j)
    BY <1>1, <1>6, Smaller DEF CalmJob, JobInv, StartFails
  <1>7. CASE CheckEnds(j)
    <2>1. ASSUME NEW n \in Parties(j), box[n].state = "bad"
          PROVE  Caused(j)
      BY <1>1, <1>7, <2>1, Smaller DEF CalmJob, JobInv, CheckEnds
    <2>2. /\ verdict'[j] = "FAILED" => \E n \in Parties(j) : box[n].state = "bad"
          /\ sm'[j] = "finish" /\ UNCHANGED <<status, run, crossed>>
      BY <1>1, <1>7 DEF CheckEnds
    <2>3. QED
      BY <2>1, <2>2 DEF CalmJob
  <1>8. CASE FinishJob(j)
    BY <1>1, <1>8 DEF CalmJob, FinishJob, Finishes
  <1>9. QED
    BY <1>2, <1>3, <1>4, <1>5, <1>6, <1>7, <1>8 DEF CalmStep

\* A complete mesh: all start commands succeeded and nobody took a container away.
LEMMA PolledTogether ==
  ASSUME IInv, CalmBoxes, NEW k \in Jobs, CalmJob(k), sm[k] = "poll", k \notin crossed
  PROVE  Together(k)
  <1>1. /\ \A n \in NodesOf(k) : box[n].job = k /\ box[n].state # "bad"
        /\ ValidSize(k)
    BY DEF IInv, JobInv, CalmJob
  <1>2. 0 \in NodesOf(k) /\ 0 \in Nodes /\ Parties(k) \subseteq NodesOf(k)
    BY <1>1, Smaller
  <1>3. box[0].job = k /\ box[0].state = "up"
    BY <1>1, <1>2 DEF CalmBoxes
  <1>4. box[0] = [job |-> k, state |-> "up"]
    BY <1>2, <1>3 DEF IInv, TypeOK
  <1>5. QED
    BY <1>1, <1>2, <1>4 DEF Together

\* A step of an instance.
LEMMA CalmBoxStep ==
  ASSUME IInv, CalmBoxes, restarted = {}, \A k \in Jobs : CalmJob(k), NEW k \in Jobs,
         \/ \E j \in Jobs, n \in Nodes : ScriptRuns(j, n)
         \/ \E j \in Jobs : CoordinatorRemoved(j)
         \/ \E n \in Nodes : PartySucceeds(n) \/ PartyGivesUp(n)
  PROVE  CalmBoxes' /\ CalmJob(k)'
  <1>1. TypeOK /\ 0 \in Nodes /\ CalmJob(k) /\ JobInv(k)
    BY JobsAssumption DEF JobsAssumption, Nodes, IInv
  <1>2. UNCHANGED <<status, verdict, sm>>
    BY BoxOnly DEF BoxStep, jobVars
  <1>3. sm[k] \in {"starting", "poll"} => NodesOf(k) \subseteq Nodes
    BY <1>1, Smaller DEF JobInv
  <1>4. ASSUME NEW j \in Jobs, NEW n \in Nodes, ScriptRuns(j, n)
        PROVE  CalmBoxes' /\ CalmJob(k)'
    <2>1. /\ box'[n] = [job |-> j, state |-> "up"] /\ \A m \in Nodes : m # n => box'[m] = box[m]
          /\ Delivered(j, n, "success") /\ Cross(j, n)
      BY <1>1, <1>4 DEF TypeOK, ScriptRuns
    <2>5. /\ run'[j][n] \in {run[j][n], "success"}
          /\ \A m \in Nodes : m # n => run'[j][m] = run[j][m]
          /\ j # k => run'[k] = run[k]
      BY <1>1, <2>1, Delivery
    <2>6. /\ crossed \subseteq crossed'
          /\ j # k /\ sm[k] \in {"starting", "poll"} /\ run[k][n] = "success" => k \in crossed'
      BY <1>1, <2>1, CrossTypes
    <2>2. CalmBoxes'
      BY <2>1 DEF CalmBoxes
    <2>3. \A m \in Nodes : /\ run'[k][m] # "failed"
                           /\ run'[k][m] = "success" =>
                                 run[k][m] = "success" \/ (j = k /\ m = n)
      BY <1>1, <2>5 DEF CalmJob
    <2>7. ASSUME sm[k] \in {"starting", "poll"}, NEW m \in NodesOf(k), run'[k][m] = "success"
          PROVE  (box'[m].job = k /\ box'[m].state # "bad") \/ k \in crossed'
      <3>1. CASE m # n
        BY <1>1, <1>3, <2>1, <2>3, <2>6, <2>7, <3>1 DEF CalmJob
      <3>2. CASE m = n /\ j = k
        BY <2>1, <3>2
      <3>3. CASE m = n /\ j # k
        BY <1>3, <2>3, <2>6, <2>7, <3>3
      <3>4. QED
        BY <3>1, <3>2, <3>3
    <2>4. QED
      BY <1>1, <1>2, <2>2, <2>3, <2>6, <2>7 DEF CalmJob, Caused
  <1>5. ASSUME NEW j \in Jobs, CoordinatorRemoved(j)
        PROVE  CalmBoxes' /\ CalmJob(k)'
    <2>1. /\ box'[0] = NoBox /\ \A m \in Nodes : m # 0 => box'[m] = box[m]
          /\ UNCHANGED run /\ Cross(j, 0) /\ stop[j] > 0
      BY <1>1, <1>5 DEF TypeOK, CoordinatorRemoved
    <2>5. /\ crossed \subseteq crossed'
          /\ j # k /\ sm[k] \in {"starting", "poll"} /\ run[k][0] = "success" => k \in crossed'
      BY <1>1, <2>1, CrossTypes
    <2>6. j = k => sm[k] \notin {"starting", "poll"}
      BY <1>1, <2>1 DEF JobInv, Early
    <2>2. NoBox.job \notin Jobs /\ NoBox.state = "none"
      BY JobsAssumption DEF JobsAssumption, NoBox
    <2>3. CalmBoxes'
      BY <2>1, <2>2 DEF CalmBoxes
    <2>4. QED
      BY <1>1, <1>2, <1>3, <2>1, <2>3, <2>5, <2>6 DEF CalmJob, Caused
  <1>6. ASSUME NEW n \in Nodes, PartySucceeds(n) \/ PartyGivesUp(n)
        PROVE  CalmBoxes' /\ CalmJob(k)'
    <2>1. PICK s \in {"ok", "bad"} : /\ Exit(n, s) /\ n # 0
                                     /\ s = "ok" \/ PartyGivesUp(n)
      BY <1>6 DEF PartySucceeds, PartyGivesUp
    <2>2. /\ box'[n].job = box[n].job /\ box'[n].state = s
          /\ \A m \in Nodes : m # n => box'[m] = box[m]
          /\ UNCHANGED <<run, crossed>>
      BY <1>1, <2>1, ExitTypes DEF Exit
    <2>3. CalmBoxes'
      BY <2>1, <2>2 DEF CalmBoxes
    <2>4. ASSUME sm[k] \in {"starting", "poll"}, n \in NodesOf(k), run[k][n] = "success",
                 PartyGivesUp(n)
          PROVE  k \in crossed
      <3>1. SUFFICES ASSUME k \notin crossed
                     PROVE  FALSE
        OBVIOUS
      <3>2. box[n].job = k
        BY <1>1, <2>4, <3>1 DEF CalmJob
      <3>3. sm[k] = "poll" /\ ~Together(k)
        BY <2>4, <3>2 DEF PartyGivesUp
      <3>4. QED
        BY <1>1, <3>1, <3>3, PolledTogether
    <2>5. QED
      BY <1>1, <1>2, <1>3, <2>1, <2>2, <2>3, <2>4 DEF CalmJob, Caused
  <1>7. QED
    BY <1>4, <1>5, <1>6

LEMMA CalmStays == IInv /\ Calm /\ [Next]_vars => Calm'
  <1> SUFFICES ASSUME IInv, Calm, [Next]_vars, faults' = 0
               PROVE  CalmBoxes' /\ restarted' = {} /\ \A k \in Jobs : CalmJob(k)'
    BY DEF Calm
  <1>1. TypeOK
    BY DEF IInv
  <1>2. CalmBoxes /\ restarted = {} /\ \A k \in Jobs : CalmJob(k)
    BY <1>1, CalmSteps DEF Calm
  <1>8. UNCHANGED restarted
    BY <1>1, CalmSteps
       DEF CalmStep, Submit, AcquireLock, WaitForLock, StartRejects, StartSends, StartReturns,
           StartFails, CheckEnds, FinishJob, ReleaseLock, Enqueue, PipeStarts, ScriptRuns,
           CoordinatorRemoved, PartySucceeds, PartyGivesUp, Exit, vars, meshVars
  <1>3. CASE \E j \in Jobs : CalmStep(j)
    <2>1. PICK j \in Jobs : CalmStep(j)
      BY <1>3
    <2>2. JobStep(j)
      BY <2>1 DEF CalmStep, JobStep
    <2>3. /\ UNCHANGED <<box, crossed>>
          /\ \A k \in Jobs : k # j => UNCHANGED <<status[k], verdict[k], sm[k], run[k]>>
      BY <1>1, <2>2, JobOnly
    <2>4. ASSUME NEW k \in Jobs, k # j
          PROVE  CalmJob(k)'
      BY <1>2, <2>3, <2>4 DEF CalmJob, Caused
    <2>5. QED
      BY <1>2, <1>8, <2>1, <2>3, <2>4, CalmOwnStep DEF CalmBoxes
  <1>4. CASE (\E j \in Jobs : Enqueue(j)) \/ UNCHANGED vars
    BY <1>2, <1>4 DEF Enqueue, CalmBoxes, CalmJob, Caused, vars, jobVars, meshVars
  <1>5. CASE PipeStarts
    <2>1. /\ UNCHANGED <<status, verdict, run, box, crossed>>
          /\ \A k \in Jobs : sm'[k] = sm[k] \/ sm'[k] = "acquire"
      BY <1>1, <1>5 DEF TypeOK, PipeStarts, Goto, meshVars
    <2>2. QED
      BY <1>2, <1>8, <2>1 DEF CalmBoxes, CalmJob, Caused
  <1>6. ASSUME \/ \E j \in Jobs, n \in Nodes : ScriptRuns(j, n)
               \/ \E j \in Jobs : CoordinatorRemoved(j)
               \/ \E n \in Nodes : PartySucceeds(n) \/ PartyGivesUp(n)
        PROVE  CalmBoxes' /\ \A k \in Jobs : CalmJob(k)'
    <2>1. Jobs # {}
      BY <1>6 DEF IInv, BoxInv, PartySucceeds, PartyGivesUp
    <2>2. QED
      BY <1>2, <1>6, <2>1, CalmBoxStep
  <1>7. QED
    BY <1>1, <1>2, <1>3, <1>4, <1>5, <1>6, <1>8, CalmSteps
-----------------------------------------------------------------------------
(* The theorems *)

\* The inductive invariant.
THEOREM Invariance == Spec => []IInv
  BY InitInvariant, StepInvariant, PTL DEF Spec

\* Type correctness of the jobs, their executions and the containers.
THEOREM TypeCorrect == Spec => []TypeOK
  <1>1. IInv => TypeOK
    BY DEF IInv
  <1>2. QED
    BY <1>1, Invariance, PTL

\* One execution at a time holds the lock, whatever faults happen.
THEOREM LockExclusion == Spec => []OneHolder
  <1>1. IInv => OneHolder
    BY DEF IInv
  <1>2. QED
    BY <1>1, Invariance, PTL

\* A job is SUCCEEDED only if each of its parties served it, or another job's command
\* took one of its containers away.
THEOREM SuccessIsEarned == Spec => []SuccessIsReal
  <1>1. IInv => SuccessIsReal
    BY DEF IInv, JobInv, Earned, SuccessIsReal
  <1>2. QED
    BY <1>1, Invariance, PTL

\* A recorded failure is overwritten by nothing but a StartJob that is run again: not by
\* a poll, a verdict, a failure path or the retry of any later state.
THEOREM FailuresStand == Spec => FailureStands
  <1>1. IInv /\ [Next]_vars =>
          [\A j \in Jobs : status[j] = "FAILED" /\ sm[j] # "start" => status'[j] = "FAILED"]_vars
    <2> SUFFICES ASSUME IInv, Steps, NEW k \in Jobs, status[k] = "FAILED", sm[k] # "start"
                 PROVE  status'[k] = "FAILED"
      BY EveryStep DEF IInv
    <2>5. TypeOK /\ JobInv(k)
      BY DEF IInv
    <2>1. /\ TypeOK
          /\ sm[k] \notin Early
          /\ sm[k] = "finish" => verdict[k] = "FAILED"
      BY <2>5 DEF JobInv, Early
    <2>2. ASSUME JobStep(k)
          PROVE  status'[k] = "FAILED"
      <3> USE DEF TypeOK, Record, Early, jobVars
      <3>1. CASE Submit(k) \/ EnqueueRaises(k) \/ AcquireLock(k) \/ WaitForLock(k)
        BY <2>1, <3>1 DEF Submit, EnqueueRaises, AcquireLock, WaitForLock
      <3>2. CASE \/ StartRejects(k) \/ StartSends(k) \/ StartSendRaises(k) \/ StartReturns(k)
                 \/ StartFails(k) \/ StartTimesOut(k) \/ CheckEnds(k)
        BY <2>1, <3>2 DEF StartRejects, StartSends, StartSendRaises, StartReturns, StartFails,
                          StartTimesOut, CheckEnds
      <3>3. CASE FinishJob(k) \/ StopRaises(k)
        BY <2>1, <3>3 DEF FinishJob, StopRaises, Finishes
      <3>4. CASE InvokeRetried(k) \/ InvokeRaises(k)
        BY <2>1, <3>4 DEF InvokeRetried, InvokeRaises, StartAttempted, FinishAttempted
      <3>5. CASE ReleaseLock(k) \/ MachineTimesOut(k)
        BY <2>1, <3>5 DEF ReleaseLock, MachineTimesOut
      <3>6. QED
        BY <2>2, <3>1, <3>2, <3>3, <3>4, <3>5 DEF JobStep
    <2>3. ASSUME NEW j \in Jobs, JobStep(j), j # k
          PROVE  status'[k] = "FAILED"
      BY <2>1, <2>3, JobOnly
    <2>4. QED
      BY <2>2, <2>3, BoxOnly DEF Steps, Enqueue, PipeStarts, vars, jobVars
  <1>2. QED
    BY <1>1, Invariance, PTL DEF Spec, FailureStands

\* The lock is never left taken behind executions that ended: one of them holds it, or
\* died with it.
THEOREM LockOwned == Spec => []LockHasOwner
  <1>1. Init => LockHasOwner
    BY DEF Init, LockHasOwner
  <1>2. IInv /\ LockHasOwner /\ [Next]_vars => LockHasOwner'
    BY OwnerStays, EveryStep DEF IInv
  <1>3. QED
    BY <1>1, <1>2, Invariance, PTL DEF Spec

\* No path through StartJob, FinishJob and HandleFailure ends with the row open.
THEOREM OpenRowsCarried == Spec => []OpenRowIsCarried
  <1> DEFINE Rows == \A j \in Jobs : RowInv(j)
  <1>1. Init => Rows
    BY DEF Init, RowInv
  <1>2. IInv /\ Rows /\ [Next]_vars => Rows'
    BY RowStays, EveryStep DEF IInv
  <1>3. Rows => OpenRowIsCarried
    BY DEF RowInv, OpenRowIsCarried, Terminal
  <1>4. QED
    BY <1>1, <1>2, <1>3, Invariance, PTL DEF Spec

\* As long as no fault happens, only a rejected size and another job's command fail a
\* job, however the jobs interleave.
THEOREM FailuresHaveCause == Spec => []FailureHasCause
  <1>1. Init => Calm
    BY JobsAssumption DEF Init, Calm, CalmBoxes, CalmJob, NoBox, JobsAssumption
  <1>2. IInv /\ Calm => FailureHasCause
    BY JobsAssumption DEF IInv, TypeOK, Calm, CalmJob, Caused, FailureHasCause, JobsAssumption
  <1>3. QED
    BY <1>1, <1>2, CalmStays, Invariance, PTL DEF Spec
-----------------------------------------------------------------------------
(* The abstract lock *)

Holders == {j \in Jobs : sm[j] \in Holding}

LEMMA LockStep == IInv /\ [Next]_vars => [LockSpec!Next]_(LockSpec!vars)
  <1> SUFFICES ASSUME IInv, Steps
               PROVE  [LockSpec!Next]_(LockSpec!vars)
    BY EveryStep DEF IInv
  <1> USE DEF LockSpec!vars
  <1>1. CASE UNCHANGED <<sm, lock>>
    BY <1>1
  <1>2. ASSUME NEW j \in Jobs,
               NEW s \in {"none", "stored", "acquire", "wait"} \cup Holding \cup Ended,
               Goto(j, s),
               \/ UNCHANGED lock /\ (s \in Holding <=> sm[j] \in Holding)
               \/ UNCHANGED lock /\ s = "dead" /\ sm[j] \in Holding
               \/ s = "start" /\ ~lock /\ lock' = TRUE
               \/ s \in Ended /\ sm[j] \in Holding /\ lock' = FALSE
        PROVE  [LockSpec!Next]_(LockSpec!vars)
    <2>1. Holders' = IF s \in Holding THEN Holders \cup {j} ELSE Holders \ {j}
      BY <1>2 DEF IInv, TypeOK, Goto, Holders
    <2>2. sm[j] \in Holding => Holders = {j} /\ lock
      BY DEF IInv, OneHolder, Holders
    <2>3. "dead" \notin Holding /\ "start" \in Holding /\ Ended \cap Holding = {}
      BY DEF Holding, Ended
    <2>4. CASE UNCHANGED lock /\ (s \in Holding <=> sm[j] \in Holding)
      BY <2>1, <2>2, <2>4 DEF Holders
    <2>5. CASE UNCHANGED lock /\ s = "dead" /\ sm[j] \in Holding
      BY <2>1, <2>2, <2>3, <2>5 DEF LockSpec!Next, LockSpec!Abandon, Holders
    <2>6. CASE s = "start" /\ ~lock /\ lock' = TRUE
      <3>1. Holders = {}
        BY <2>6 DEF IInv, OneHolder, Holders
      <3>2. QED
        BY <2>1, <2>3, <2>6, <3>1 DEF LockSpec!Next, LockSpec!Acquire, Holders
    <2>7. CASE s \in Ended /\ sm[j] \in Holding /\ lock' = FALSE
      BY <2>1, <2>2, <2>3, <2>7 DEF LockSpec!Next, LockSpec!Release, Holders
    <2>8. QED
      BY <1>2, <2>4, <2>5, <2>6, <2>7
  <1>3. QED
    BY <1>1, <1>2, Moves DEF IInv

\* The lock item behaves as the binary semaphore of JobLock, as the one of the Fargate
\* machine does.
THEOREM LockRefinement == Spec => LockImplemented
  <1>1. Init => LockSpec!Init
    BY DEF Init, LockSpec!Init, Holding
  <1>2. QED
    BY <1>1, LockStep, Invariance, PTL DEF Spec, LockSpec!Spec, LockImplemented
=============================================================================
