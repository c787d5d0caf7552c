--------------------------- MODULE CrossRegionProofs ---------------------------
(***************************************************************************)
(* Proofs about CrossRegion for every number of regions and of runs, every *)
(* size that is deployed or asked for, and every fault: the nodes of a run *)
(* agree on its size, a container that has exited pinged the nodes of its  *)
(* own run, or had a reason not to, and a run fails for a reason.          *)
(***************************************************************************)
EXTENDS CrossRegion, TLAPS

Mesh(r) == {r} \X (Parties(r) \cup {Coord})

\* What run-nodes and cdk deploy have checked.
Asked(r) ==
    /\ pc[r] \notin {"off", "failed"} \/ (\E n \in Nodes : task[r][n] # "none") =>
          /\ ask[r] \in Sizes
          /\ 2 * ask[r].threshold + 1 <= ask[r].parties
          /\ ask[r].parties <= Regions

\* Only nodes of the size asked for are launched.
Sized(r) ==
    \A n \in Nodes : task[r][n] # "none" => pc[r] # "off" /\ (n = Coord \/ n \in Parties(r))

\* The address book of a run is that run's, and uploaded at its end.
Booked(r) ==
    /\ book[r] # {} => book[r] = Mesh(r) /\ pc[r] = "done"
    /\ \A n \in Nodes : <<r, n>> \in expired => r \in slow

Swept(r) ==
    \A n \in Nodes :
        /\ row[r][n] # {} => task[r][n] # "none" /\ row[r][n] = Mesh(r) \ {<<r, n>>}
        /\ task[r][n] \in {"ok", "bad"} => row[r][n] # {} \/ pc[r] = "failed" \/ r \in slow

RunInv(r) == Asked(r) /\ Sized(r) /\ Booked(r) /\ Swept(r)

IInv == TypeOK /\ Deployable(context) /\ \A r \in Runs : RunInv(r)
-----------------------------------------------------------------------------
(* Facts about the definitions *)

LEMMA NodesAre ==
  /\ Regions \in Nat /\ Regions >= 1
  /\ Coord \in Nodes /\ 0 \in Nodes /\ 0 # Coord
  /\ \A n \in Nodes : n \in Nat /\ n <= Coord
  BY CrossRegionAssumption DEF CrossRegionAssumption, Coord, Nodes

LEMMA AskIsSize ==
  ASSUME NEW a \in Sizes
  PROVE  a.parties \in Nat /\ a.threshold \in Nat /\ a # None
  BY CrossRegionAssumption DEF CrossRegionAssumption, Sizes

\* The parties of a run that passed the checks, and those a stage launches.
LEMMA TeamIsMesh ==
  ASSUME TypeOK, NEW r \in Runs, Asked(r), pc[r] \notin {"off", "failed"}
  PROVE  /\ 0 \in Parties(r) /\ Coord \notin Parties(r)
         /\ \A n \in Team(r) : n = Coord \/ n \in Parties(r)
  <1>1. /\ ask[r] # None /\ ask[r].parties \in Nat /\ ask[r].threshold \in Nat
        /\ 2 * ask[r].threshold + 1 <= ask[r].parties /\ ask[r].parties <= Regions
    BY AskIsSize DEF Asked
  <1>2. Parties(r) = 0 .. ask[r].parties - 1
    BY <1>1, NodesAre DEF Parties, Nodes, Coord
  <1>3. 0 \in Parties(r) /\ Coord \notin Parties(r)
    BY <1>1, <1>2 DEF Parties
  <1>4. stage[r] \in 1..3
    BY DEF TypeOK
  <1>5. Team(r) \in {{Coord}, {0}, 1 .. ask[r].parties - 1}
    BY <1>4 DEF Team
  <1>6. QED
    BY <1>1, <1>2, <1>3, <1>5

\* The coordinator and party0 make two: every task has somebody else to ping.
LEMMA MeshHasOthers ==
  ASSUME TypeOK, NEW r \in Runs, Asked(r), NEW n \in Nodes, task[r][n] # "none"
  PROVE  Mesh(r) \ {<<r, n>>} # {}
  <1>1. /\ ask[r] # None /\ ask[r].parties \in Nat /\ ask[r].parties > 0
    BY AskIsSize DEF Asked
  <1>2. 0 \in Parties(r)
    BY <1>1, NodesAre DEF Parties
  <1>3. <<r, 0>> \in Mesh(r) /\ <<r, Coord>> \in Mesh(r)
    BY <1>2 DEF Mesh
  <1>4. <<r, 0>> # <<r, Coord>>
    BY NodesAre
  <1>5. QED
    BY <1>3, <1>4

LEMMA MeshOfTasks ==
  ASSUME NEW r \in Runs
  PROVE  Mesh(r) \subseteq Tasks
  BY NodesAre DEF Mesh, Tasks, Parties

\* What is said of a run depends on its own state, and faults and slowness only grow.
LEMMA RunStays ==
  ASSUME NEW r \in Runs, RunInv(r), UNCHANGED <<ask[r], pc[r], task[r], book[r], row[r]>>,
         \A n \in Nodes : <<r, n>> \in expired' => <<r, n>> \in expired \/ r \in slow,
         slow \subseteq slow'
  PROVE  RunInv(r)'
  BY DEF RunInv, Asked, Sized, Booked, Swept, Mesh, Parties

\* Only the tasks of a run move, and none of them begins or exits.
LEMMA TasksMove ==
  ASSUME NEW r \in Runs, RunInv(r), UNCHANGED <<ask[r], pc[r], book[r], row[r]>>,
         expired' = expired, slow' = slow,
         \A n \in Nodes : /\ task[r][n] = "none" <=> task'[r][n] = "none"
                          /\ task'[r][n] \in {"ok", "bad"} => task[r][n] \in {"ok", "bad"}
  PROVE  RunInv(r)'
  BY DEF RunInv, Asked, Sized, Booked, Swept, Mesh, Parties
-----------------------------------------------------------------------------
(* The steps of the operator and of run-nodes *)

LEMMA InitInvariant == Init => IInv
  <1> SUFFICES ASSUME Init
               PROVE  IInv
    OBVIOUS
  <1>1. TypeOK
    BY DEF Init, TypeOK, Tasks
  <1>2. \A r \in Runs : RunInv(r)
    BY DEF Init, RunInv, Asked, Sized, Booked, Swept
  <1>3. QED
    BY <1>1, <1>2 DEF Init, IInv

LEMMA OperatorStep ==
  ASSUME IInv,
         (\E f \in Files : Upload(f)) \/ (\E r \in Runs : RunNodes(r)) \/ CleanupTasks,
         happened' \subseteq Faults
  PROVE  IInv'
  <1> USE DEF IInv
  <1>1. ASSUME NEW f \in Files, Upload(f)
        PROVE  IInv'
    <2>1. TypeOK' /\ Deployable(context)'
      BY <1>1 DEF TypeOK, Upload, runVars, taskVars, Deployable
    <2>2. QED
      BY <1>1, <2>1, RunStays DEF Upload, runVars, taskVars
  <1>2. ASSUME NEW r \in Runs, RunNodes(r)
        PROVE  IInv'
    <2>1. PICK a \in Asks[r] :
             /\ ask' = [ask EXCEPT ![r] = a]
             /\ \/ /\ 2 * a.threshold + 1 <= a.parties
                   /\ \A n \in 0 .. a.parties - 1 : HasStack(n)
                   /\ pc' = [pc EXCEPT ![r] = "launch"]
                \/ pc' = [pc EXCEPT ![r] = "failed"]
      BY <1>2 DEF RunNodes
    <2>1a. a \in Sizes
      BY <2>1, CrossRegionAssumption DEF CrossRegionAssumption
    <2>2. TypeOK' /\ Deployable(context)'
      BY <1>2, <2>1, <2>1a DEF TypeOK, RunNodes, taskVars, Deployable
    <2>3. UNCHANGED <<task, book, row, expired, slow, context>> /\ pc[r] = "off"
      BY <1>2 DEF RunNodes, taskVars
    <2>4. ask'[r] = a /\ pc'[r] \in {"launch", "failed"}
      BY <2>1 DEF TypeOK
    <2>5. \A n \in Nodes : task[r][n] = "none" /\ row[r][n] = {}
      BY <2>3 DEF RunInv, Sized, Swept
    <2>6. ASSUME pc'[r] = "launch"
          PROVE  2 * a.threshold + 1 <= a.parties /\ a.parties <= Regions
      <3>1. /\ 2 * a.threshold + 1 <= a.parties
            /\ \A n \in 0 .. a.parties - 1 : n < context.parties
        BY <2>1, <2>6 DEF TypeOK, HasStack
      <3>2. a.parties \in Nat /\ a.threshold \in Nat
        BY <2>1a, AskIsSize
      <3>3. context.parties \in Nat /\ context.parties <= Regions
        BY CrossRegionAssumption DEF TypeOK, CrossRegionAssumption, Sizes, Deployable
      <3>4. a.parties - 1 < context.parties
        BY <3>1, <3>2
      <3>5. QED
        BY <3>1, <3>2, <3>3, <3>4, NodesAre
    <2>7. RunInv(r)'
      BY <2>1a, <2>3, <2>4, <2>5, <2>6 DEF RunInv, Asked, Sized, Booked, Swept
    <2>8. ASSUME NEW q \in Runs, q # r
          PROVE  RunInv(q)'
      <3>1. UNCHANGED <<ask[q], pc[q]>>
        BY <2>1, <2>8 DEF TypeOK
      <3>2. QED
        BY <2>3, <3>1, RunStays
    <2>9. QED
      BY <2>2, <2>7, <2>8
  <1>3. CASE CleanupTasks
    <2>1. TypeOK' /\ Deployable(context)'
      BY <1>3 DEF TypeOK, CleanupTasks, operatorVars, runVars, Stopped, Alive, Deployable
    <2>2. \A r \in Runs, n \in Nodes :
             /\ task[r][n] = "none" <=> task'[r][n] = "none"
             /\ task'[r][n] \in {"ok", "bad"} => task[r][n] \in {"ok", "bad"}
      BY <1>3 DEF CleanupTasks, Alive, Ended
    <2>3. QED
      BY <1>3, <2>1, <2>2, TasksMove DEF CleanupTasks, operatorVars, runVars
  <1>4. QED
    BY <1>1, <1>2, <1>3

LEMMA RunNodesStep ==
  ASSUME IInv, NEW r \in Runs, happened' \subseteq Faults,
         \/ RunTasks(r) \/ RunTaskFails(r) \/ TasksRunning(r) \/ WaitExpires(r)
         \/ PublishBook(r) \/ PublishFails(r) \/ LaunchIsSlow(r)
  PROVE  IInv'
  <1> USE DEF IInv
  <1>1. ASSUME NEW ns, ns \subseteq Team(r), Launch(r, ns), pc[r] = "launch",
               NEW s \in {"wait", "failed"}, Goto(r, s),
               UNCHANGED <<operatorVars, stage, slow, bare, expired, row, book>>
        PROVE  IInv'
    <2>1. TypeOK' /\ Deployable(context)'
      BY <1>1 DEF TypeOK, Launch, Goto, operatorVars, Deployable
    <2>2. \A n \in Nodes : task'[r][n] = IF n \in ns THEN "pending" ELSE task[r][n]
      BY <1>1 DEF TypeOK, Launch
    <2>3. pc'[r] = s
      BY <1>1 DEF TypeOK, Goto
    <2>4. RunInv(r)'
      BY <1>1, <2>2, <2>3, TeamIsMesh
         DEF RunInv, Asked, Sized, Booked, Swept, Mesh, Parties, operatorVars
    <2>5. ASSUME NEW q \in Runs, q # r
          PROVE  RunInv(q)'
      BY <1>1, <2>5, RunStays DEF TypeOK, Launch, Goto, operatorVars
    <2>6. QED
      BY <2>1, <2>4, <2>5
  <1>2. ASSUME NEW s \in {"launch", "publish", "failed"}, Goto(r, s),
               pc[r] \in {"wait", "publish"}, UNCHANGED <<operatorVars, slow, taskVars, book>>,
               stage' \in [Runs -> 1..3]
        PROVE  IInv'
    <2>1. TypeOK' /\ Deployable(context)'
      BY <1>2 DEF TypeOK, Goto, operatorVars, taskVars, Deployable
    <2>2. pc'[r] = s
      BY <1>2 DEF TypeOK, Goto
    <2>3. RunInv(r)'
      BY <1>2, <2>2 DEF RunInv, Asked, Sized, Booked, Swept, Mesh, Parties, operatorVars, taskVars
    <2>4. ASSUME NEW q \in Runs, q # r
          PROVE  RunInv(q)'
      BY <1>2, <2>4, RunStays DEF TypeOK, Goto, operatorVars, taskVars
    <2>5. QED
      BY <2>1, <2>3, <2>4
  <1>3. CASE RunTasks(r)
    BY <1>1, <1>3 DEF RunTasks
  <1>4. CASE RunTaskFails(r)
    <2>1. PICK n \in Team(r) : Launch(r, {m \in Team(r) : m < n})
      BY <1>4 DEF RunTaskFails
    <2>2. QED
      BY <1>1, <1>4, <2>1 DEF RunTaskFails
  <1>5. CASE TasksRunning(r)
    <2>1. stage' \in [Runs -> 1..3]
      BY SMTT(30), <1>5 DEF TypeOK, TasksRunning
    <2>2. QED
      BY <1>2, <1>5, <2>1 DEF TasksRunning
  <1>6. CASE WaitExpires(r) \/ PublishFails(r)
    BY <1>2, <1>6 DEF TypeOK, WaitExpires, PublishFails
  <1>7. CASE PublishBook(r)
    <2>1. /\ book' = [book EXCEPT ![r] = Mesh(r)] /\ pc[r] = "publish" /\ Goto(r, "done")
          /\ UNCHANGED <<operatorVars, stage, slow, taskVars>>
      BY <1>7 DEF PublishBook, Key, Mesh
    <2>2. TypeOK' /\ Deployable(context)'
      BY <2>1, MeshOfTasks DEF TypeOK, Goto, operatorVars, taskVars, Deployable
    <2>3. pc'[r] = "done" /\ book'[r] = Mesh(r)
      BY <2>1 DEF TypeOK, Goto
    <2>4. RunInv(r)'
      BY <2>1, <2>3 DEF RunInv, Asked, Sized, Booked, Swept, Mesh, Parties, operatorVars, taskVars
    <2>5. ASSUME NEW q \in Runs, q # r
          PROVE  RunInv(q)'
      BY <2>1, <2>5, RunStays DEF TypeOK, Goto, operatorVars, taskVars
    <2>6. QED
      BY <2>2, <2>4, <2>5
  <1>8. CASE LaunchIsSlow(r)
    <2>1. TypeOK' /\ Deployable(context)'
      BY <1>8 DEF TypeOK, LaunchIsSlow, operatorVars, taskVars, Deployable
    <2>2. QED
      BY <1>8, <2>1, RunStays DEF LaunchIsSlow, operatorVars, taskVars
  <1>9. QED
    BY <1>3, <1>4, <1>5, <1>6, <1>7, <1>8
-----------------------------------------------------------------------------
(* The steps of a task *)

LEMMA TaskSteps ==
  ASSUME IInv, NEW r \in Runs, NEW n \in Nodes, happened' \subseteq Faults,
         \/ TaskRuns(r, n) \/ InitFails(r, n) \/ NoCertificate(r, n)
         \/ PartySucceeds(r, n) \/ PartyGivesUp(r, n)
         \/ TaskFailsToStart(r, n) \/ ProgramFails(r, n) \/ HostLost(r, n)
         \/ Sweep(r, n) \/ LoopEnds(r, n) \/ WaiterExpires(r, n)
  PROVE  IInv'
  <1> USE DEF IInv
  <1>1. ASSUME NEW to \in {"up", "lost"} \cup Ended, NEW from, from # "none",
               Moves(r, n, from, to), UNCHANGED row,
               bare' \in {bare, bare \cup {<<r, n>>}}
        PROVE  IInv'
    <2>4. bare' \subseteq Tasks
      BY <1>1 DEF TypeOK, Tasks
    <2>1. TypeOK' /\ Deployable(context)'
      BY <1>1, <2>4 DEF TypeOK, Moves, operatorVars, runVars, Alive, Ended, Stopped, Deployable
    <2>2. \A q \in Runs, m \in Nodes :
             /\ task[q][m] = "none" <=> task'[q][m] = "none"
             /\ task'[q][m] \in {"ok", "bad"} => task[q][m] \in {"ok", "bad"}
      BY <1>1 DEF TypeOK, Moves, Ended
    <2>3. QED
      BY <1>1, <2>1, <2>2, TasksMove DEF Moves, operatorVars, runVars
  <1>2. CASE \/ TaskRuns(r, n) \/ InitFails(r, n) \/ NoCertificate(r, n)
             \/ PartySucceeds(r, n) \/ PartyGivesUp(r, n)
             \/ TaskFailsToStart(r, n) \/ ProgramFails(r, n) \/ HostLost(r, n)
    BY <1>1, <1>2 DEF TaskRuns, InitFails, NoCertificate, PartySucceeds, PartyGivesUp,
                      TaskFailsToStart, ProgramFails, HostLost, Alive, Ended
  <1>3. ASSUME task[r][n] \in Ended, NEW to \in {"ok", "bad"}, Moves(r, n, task[r][n], to),
               UNCHANGED bare,
               \/ row' = [row EXCEPT ![r][n] = Mesh(r) \ {<<r, n>>}]
               \/ UNCHANGED row /\ (pc[r] = "failed" \/ r \in slow)
        PROVE  IInv'
    <2>1. TypeOK' /\ Deployable(context)'
      <3>1. task' \in [Runs -> [Nodes -> {"none", "pending"} \cup Alive \cup Stopped]]
        BY <1>3 DEF TypeOK, Moves, Stopped
      <3>2. row' \in [Runs -> [Nodes -> SUBSET Tasks]]
        <4>1. Mesh(r) \ {<<r, n>>} \in SUBSET Tasks
          BY MeshOfTasks
        <4>2. row \in [Runs -> [Nodes -> SUBSET Tasks]]
          BY DEF TypeOK
        <4>3. QED
          BY <1>3, <4>1, <4>2
      <3>3. QED
        BY <1>3, <3>1, <3>2 DEF TypeOK, Moves, operatorVars, runVars, Deployable
    <2>2. /\ UNCHANGED <<ask, pc, slow, expired, book>>
          /\ task'[r][n] = to
          /\ \A m \in Nodes : m # n => task'[r][m] = task[r][m] /\ row'[r][m] = row[r][m]
          /\ row'[r][n] = Mesh(r) \ {<<r, n>>}
             \/ (row'[r][n] = row[r][n] /\ (pc[r] = "failed" \/ r \in slow))
      BY <1>3 DEF TypeOK, Moves, operatorVars, runVars
    <2>3. Mesh(r) \ {<<r, n>>} # {}
      BY <1>3, MeshHasOthers DEF RunInv, Ended
    <2>4. Mesh(r)' = Mesh(r)
      BY <2>2 DEF Mesh, Parties
    <2>5. task[r][n] # "none" /\ task'[r][n] # "none"
      BY <1>3, <2>2 DEF Ended
    <2>6. Asked(r)' /\ Sized(r)' /\ Booked(r)'
      BY <2>2, <2>4, <2>5 DEF RunInv, Asked, Sized, Booked, Parties
    <2>7. Swept(r)'
      BY <2>2, <2>3, <2>4, <2>5 DEF RunInv, Swept
    <2>8. ASSUME NEW q \in Runs, q # r
          PROVE  RunInv(q)'
      <3>1. UNCHANGED <<ask[q], pc[q], task[q], book[q], row[q]>>
        BY <1>3, <2>2, <2>8 DEF TypeOK, Moves
      <3>2. QED
        BY <2>2, <3>1, RunStays
    <2>9. QED
      BY <2>1, <2>6, <2>7, <2>8 DEF RunInv
  <1>4. CASE Sweep(r, n)
    <2>1. book[r] = Mesh(r)
      BY <1>4 DEF Sweep, HasBook, Key, RunInv, Booked
    <2>2. QED
      BY <1>3, <1>4, <2>1 DEF Sweep, Exits, Key
  <1>5. CASE LoopEnds(r, n)
    BY <1>3, <1>5 DEF LoopEnds, Exits
  <1>6. CASE WaiterExpires(r, n)
    <2>1. /\ r \in slow /\ expired' = expired \cup {<<r, n>>}
          /\ UNCHANGED <<operatorVars, runVars, task, bare, row, book>>
      BY <1>6 DEF WaiterExpires
    <2>2. TypeOK' /\ Deployable(context)'
      BY <2>1 DEF TypeOK, operatorVars, runVars, Tasks, Deployable
    <2>3. QED
      BY <2>1, <2>2, RunStays DEF operatorVars, runVars
  <1>7. QED
    BY <1>2, <1>4, <1>5, <1>6
-----------------------------------------------------------------------------
(* The theorems *)

LEMMA Happens == TypeOK /\ [Next]_vars => happened' \subseteq Faults
  BY DEF TypeOK, Next, RunStep, TaskStep, OutsideStep, FaultStep, CleanupTasks, LaunchIsSlow,
         RunTaskFails, WaitExpires, PublishFails, TaskFailsToStart, ProgramFails, HostLost,
         Fault, vars

LEMMA StepInvariant == IInv /\ [Next]_vars => IInv'
  <1> SUFFICES ASSUME IInv, [Next]_vars
               PROVE  IInv'
    OBVIOUS
  <1>1. happened' \subseteq Faults
    BY Happens DEF IInv
  <1>2. CASE UNCHANGED vars
    <2>1. TypeOK' /\ Deployable(context)'
      BY <1>2 DEF IInv, TypeOK, Deployable, vars, operatorVars, runVars, taskVars
    <2>2. QED
      BY <1>2, <2>1, RunStays DEF IInv, vars, operatorVars, runVars, taskVars
  <1>3. CASE (\E f \in Files : Upload(f)) \/ (\E r \in Runs : RunNodes(r)) \/ CleanupTasks
    BY <1>1, <1>3, OperatorStep
  <1>4. QED
    BY <1>1, <1>2, <1>3, RunNodesStep, TaskSteps
       DEF Next, RunStep, TaskStep, OutsideStep, FaultStep

\* The inductive invariant.
THEOREM Invariance == Spec => []IInv
  BY InitInvariant, StepInvariant, PTL DEF Spec

\* Type correctness of the deployment and its runs.
THEOREM TypeCorrect == Spec => []TypeOK
  <1>1. IInv => TypeOK
    BY DEF IInv
  <1>2. QED
    BY <1>1, Invariance, PTL

\* The coordinator and the parties of a run are started for the same size, which
\* tolerates the threshold, whatever size the stacks were deployed with.
THEOREM SizesAgree == Spec => []Agreement
  <1>1. IInv => Agreement
    <2> SUFFICES ASSUME IInv, NEW r \in Runs, \E n \in Nodes : task[r][n] # "none"
                 PROVE  /\ 2 * CoordCommand(r).threshold + 1 <= CoordCommand(r).parties
                        /\ \A n \in Parties(r) :
                              /\ PartyEnv(r, n).parties = CoordCommand(r).parties
                              /\ PartyEnv(r, n).threshold = CoordCommand(r).threshold
                        /\ \A n \in Nodes \ {Coord} :
                              task[r][n] # "none" => n \in CoordCommand(r).certs
      BY DEF Agreement
    <2>1. /\ CoordCommand(r).parties = ask[r].parties
          /\ CoordCommand(r).threshold = ask[r].threshold
          /\ CoordCommand(r).certs = Parties(r)
      BY DEF CoordCommand, BakedCommand
    <2>2. \A n \in Parties(r) : /\ PartyEnv(r, n).parties = ask[r].parties
                                /\ PartyEnv(r, n).threshold = ask[r].threshold
      BY DEF PartyEnv, BakedEnv
    <2>3. QED
      BY <2>1, <2>2 DEF IInv, RunInv, Asked, Sized
  <1>2. QED
    BY <1>1, Invariance, PTL

\* A container that has exited pinged every other task of its own run and nothing else,
\* unless run-nodes failed or was slow.
THEOREM EverybodyIsPinged == Spec => []SweepIsComplete
  <1>1. IInv => SweepIsComplete
    BY DEF IInv, RunInv, Swept, SweepIsComplete, Mesh
  <1>2. QED
    BY <1>1, Invariance, PTL
-----------------------------------------------------------------------------
(* Behaviours in which no fault has happened yet *)

\* run-nodes went on after it saw node n of run r running.
Passed(r, n) ==
    /\ pc[r] # "failed"
    /\ \/ n = Coord /\ stage[r] > 1
       \/ n = 0 /\ stage[r] = 3
       \/ n \in Parties(r) \cup {Coord} /\ pc[r] \in {"publish", "done"}

\* A party of run r started without certificates.
Uncertified(r) == \E n \in Parties(r) : <<r, n>> \in bare

\* A failure comes from a task that found no program, only such a run and one with an
\* uncertified party let programs fail, and what was seen running did not stop before
\* the address book was there.
CalmRun(r) ==
    /\ task[r][Coord] \in {"none", "pending", "up"}
    /\ pc[r] = "failed" => \/ \A n \in Nodes : task[r][n] = "none"
                           \/ \E n \in Nodes : task[r][n] = "lost"
    /\ \A n \in Nodes :
          /\ <<r, n>> \in bare => n # Coord /\ task[r][n] # "none"
          /\ task[r][n] \in {"endedBad", "bad"} => pc[r] = "failed" \/ Uncertified(r)
          /\ task[r][n] \in {"ok", "bad"} => pc[r] \in {"done", "failed"}
          /\ Passed(r, n) => task[r][n] \in Alive \cup {"ok", "bad"}

Calm == happened = {} => slow = {} /\ \A r \in Runs : CalmRun(r)

LEMMA CalmSteps ==
  ASSUME [Next]_vars, happened' = {}
  PROVE  /\ happened = {}
         /\ \/ \E f \in Files : Upload(f)
            \/ \E r \in Runs : RunNodes(r)
            \/ \E r \in Runs : RunTasks(r) \/ TasksRunning(r) \/ PublishBook(r) \/ WaitExpires(r)
            \/ \E r \in Runs, n \in Nodes :
                  \/ TaskRuns(r, n) \/ InitFails(r, n) \/ NoCertificate(r, n)
                  \/ PartySucceeds(r, n) \/ PartyGivesUp(r, n) \/ Sweep(r, n) \/ LoopEnds(r, n) \/ WaiterExpires(r, n)
            \/ UNCHANGED vars
  <1>1. \A f : ~Fault(f)
    BY DEF Fault
  <1>2. QED
    BY <1>1 DEF Next, RunStep, TaskStep, OutsideStep, FaultStep, CleanupTasks, LaunchIsSlow,
         RunTaskFails, WaitExpires, PublishFails, TaskFailsToStart, ProgramFails, HostLost, vars

\* Another run's step leaves this one alone.
LEMMA CalmStays ==
  ASSUME NEW r \in Runs, CalmRun(r), UNCHANGED <<ask[r], pc[r], stage[r], task[r]>>,
         \A n \in Nodes : <<r, n>> \in bare' <=> <<r, n>> \in bare
  PROVE  CalmRun(r)'
  <1>1. Parties(r)' = Parties(r) /\ Parties(r) \subseteq Nodes
    BY DEF Parties
  <1>2. Uncertified(r)' <=> Uncertified(r)
    BY <1>1 DEF Uncertified
  <1>3. \A n \in Nodes : Passed(r, n)' <=> Passed(r, n)
    BY <1>1 DEF Passed
  <1>4. QED
    BY <1>2, <1>3 DEF CalmRun

\* A stage has just been launched, or has been seen running.
LEMMA CalmTeam ==
  ASSUME TypeOK, NEW r \in Runs, Asked(r), pc[r] \notin {"off", "failed"}
  PROVE  /\ stage[r] = 1 => Team(r) = {Coord}
         /\ stage[r] = 2 => Team(r) = {0}
         /\ stage[r] = 3 => /\ 0 \notin Team(r) /\ Coord \notin Team(r)
                            /\ Parties(r) \subseteq {0} \cup Team(r)
         /\ Team(r) \subseteq Nodes
  <1>1. /\ ask[r] # None /\ ask[r].parties \in Nat /\ ask[r].parties <= Regions
    BY AskIsSize DEF Asked
  <1>2. Parties(r) = 0 .. ask[r].parties - 1
    BY <1>1, NodesAre DEF Parties, Nodes, Coord
  <1>3. /\ stage[r] = 1 => Team(r) = {Coord}
        /\ stage[r] = 2 => Team(r) = {0}
        /\ stage[r] = 3 => Team(r) = 1 .. ask[r].parties - 1
    BY DEF Team
  <1>4. stage[r] \in 1..3
    BY DEF TypeOK
  <1>5. QED
    BY <1>1, <1>2, <1>3, <1>4, NodesAre DEF Nodes, Coord

LEMMA CalmRunStep ==
  ASSUME IInv, slow = {}, \A q \in Runs : CalmRun(q), NEW r \in Runs,
         RunNodes(r) \/ RunTasks(r) \/ TasksRunning(r) \/ PublishBook(r) \/ WaitExpires(r)
  PROVE  slow' = {} /\ \A q \in Runs : CalmRun(q)'
  <1>1. TypeOK /\ Asked(r) /\ Sized(r) /\ CalmRun(r) /\ stage[r] \in 1..3
    BY DEF IInv, RunInv, TypeOK
  <1>2. slow' = {} /\ ~WaitExpires(r) /\ UNCHANGED bare
    BY DEF RunNodes, RunTasks, TasksRunning, PublishBook, WaitExpires, taskVars
  <1>3. ASSUME NEW q \in Runs, q # r
        PROVE  CalmRun(q)'
    <2>1. UNCHANGED <<ask[q], pc[q], stage[q], task[q]>>
      BY <1>1, <1>2, <1>3 DEF TypeOK, RunNodes, RunTasks, TasksRunning, PublishBook, Launch,
                              Goto, operatorVars, taskVars
    <2>2. QED
      BY <1>2, <1>3, <2>1, CalmStays
  <1>4. CASE RunNodes(r)
    <2>1. /\ UNCHANGED <<stage, task>> /\ pc[r] = "off" /\ pc'[r] \in {"launch", "failed"}
      BY <1>1, <1>4 DEF TypeOK, RunNodes, taskVars
    <2>2. \A n \in Nodes : task[r][n] = "none"
      BY <1>1, <2>1 DEF Sized
    <2>3. ~(\E n \in Nodes : Passed(r, n))
      BY <1>1, <2>2 DEF CalmRun, Alive, Ended
    <2>4. ~(\E n \in Nodes : Passed(r, n)')
      BY <2>1, <2>3 DEF Passed
    <2>5. QED
      BY <1>2, <1>3, <1>1, <2>1, <2>2, <2>4 DEF CalmRun
  <1>5. CASE RunTasks(r)
    <2>1. /\ UNCHANGED <<stage, ask>> /\ pc[r] = "launch" /\ pc'[r] = "wait"
          /\ \A n \in Nodes : task'[r][n] = IF n \in Team(r) THEN "pending" ELSE task[r][n]
      BY <1>1, <1>5 DEF TypeOK, RunTasks, Launch, Goto, operatorVars
    <2>2. ASSUME NEW n \in Nodes, Passed(r, n)'
          PROVE  Passed(r, n) /\ n \notin Team(r)
      BY <1>1, <2>1, <2>2, CalmTeam, NodesAre DEF Passed
    <2>3. Uncertified(r)' <=> Uncertified(r)
      BY <1>2, <2>1 DEF Uncertified, Parties
    <2>4. QED
      BY <1>1, <1>2, <1>3, <2>1, <2>2, <2>3, NodesAre DEF CalmRun
  <1>6. CASE TasksRunning(r)
    <2>1. UNCHANGED <<task, ask>> /\ pc[r] = "wait"
      BY <1>6 DEF TasksRunning, operatorVars, taskVars
    <2>5. Uncertified(r)' <=> Uncertified(r)
      BY <1>2, <2>1 DEF Uncertified, Parties
    <2>2. CASE /\ \A n \in Team(r) : task[r][n] \in Alive
               /\ \/ stage[r] = 3 /\ stage' = stage /\ pc'[r] = "publish"
                  \/ stage[r] # 3 /\ stage'[r] = stage[r] + 1 /\ pc'[r] = "launch"
      <3>2. ASSUME NEW n \in Nodes, Passed(r, n)'
            PROVE  Passed(r, n) \/ n \in Team(r)
        <4>1. Parties(r)' = Parties(r)
          BY <2>1 DEF Parties
        <4>2. QED
          BY <1>1, <2>1, <2>2, <3>2, <4>1, CalmTeam, NodesAre DEF Passed
      <3>3. \A n \in Nodes : Passed(r, n)' => task[r][n] \in Alive \cup {"ok", "bad"}
        BY <1>1, <2>2, <3>2 DEF CalmRun
      <3>4. QED
        BY <1>1, <1>2, <1>3, <2>1, <2>2, <2>5, <3>3 DEF CalmRun, Alive, Ended
    <2>3. CASE (\E n \in Team(r) : task[r][n] \in Stopped) /\ pc'[r] = "failed"
      <3>1. \E n \in Nodes : task[r][n] = "lost"
        BY <1>1, <2>1, <2>3, CalmTeam DEF CalmRun, Stopped
      <3>2. ~(\E n \in Nodes : Passed(r, n)')
        BY <2>3 DEF Passed
      <3>3. QED
        BY <1>1, <1>2, <1>3, <2>1, <2>3, <2>5, <3>1, <3>2 DEF CalmRun
    <2>4. QED
      BY <1>1, <1>6, <2>2, <2>3 DEF TypeOK, TasksRunning, Goto
  <1>7. CASE PublishBook(r)
    <2>1. UNCHANGED <<task, ask, stage>> /\ pc[r] = "publish" /\ pc'[r] = "done"
      BY <1>1, <1>7 DEF TypeOK, PublishBook, Goto, operatorVars, taskVars
    <2>2. \A n \in Nodes : Passed(r, n)' => Passed(r, n)
      BY <2>1 DEF Passed, Parties
    <2>3. Uncertified(r)' <=> Uncertified(r)
      BY <1>2, <2>1 DEF Uncertified, Parties
    <2>4. QED
      BY <1>1, <1>2, <1>3, <2>1, <2>2, <2>3 DEF CalmRun
  <1>8. QED
    BY <1>2, <1>4, <1>5, <1>6, <1>7

\* Run-nodes saw every node running, all have certificates, and every node listens
\* where its stack lets it.
LEMMA PublishedTogether ==
  ASSUME NEW r \in Runs, CalmRun(r), pc[r] \in {"publish", "done"}, ~Uncertified(r)
  PROVE  Together(r)
  <1>1. Coord \in Nodes /\ Parties(r) \subseteq Nodes
    BY NodesAre DEF Parties
  <1>2. \A n \in Parties(r) \cup {Coord} : task[r][n] \in {"up", "endedOk", "ok"}
    BY <1>1 DEF CalmRun, Passed, Alive, Ended
  <1>5. \A n \in Parties(r) \cup {Coord} : <<r, n>> \notin bare
    BY <1>1 DEF CalmRun, Uncertified
  <1>3. task[r][Coord] = "up"
    BY <1>2 DEF CalmRun
  <1>4. \A n : Listens(n) \subseteq Ingress(n)
    BY DEF Listens, Ingress
  <1>6. QED
    BY <1>2, <1>3, <1>4, <1>5 DEF Together

LEMMA CalmTaskStep ==
  ASSUME IInv, slow = {}, \A q \in Runs : CalmRun(q), NEW r \in Runs, NEW n \in Nodes,
         \/ TaskRuns(r, n) \/ InitFails(r, n) \/ NoCertificate(r, n)
         \/ PartySucceeds(r, n) \/ PartyGivesUp(r, n) \/ Sweep(r, n) \/ LoopEnds(r, n)
         \/ WaiterExpires(r, n)
  PROVE  slow' = {} /\ \A q \in Runs : CalmRun(q)'
  <1>1. TypeOK /\ CalmRun(r) /\ Sized(r) /\ Parties(r) \subseteq Nodes
    BY DEF IInv, RunInv, Parties
  <1>2. ASSUME NEW from, NEW to, Moves(r, n, from, to), from \notin {"none", "lost"},
               to # "none",
               bare' = bare \/ (bare' = bare \cup {<<r, n>>} /\ n # Coord),
               n = Coord => to \in {"pending", "up"},
               to \in {"endedBad", "bad"} => pc[r] = "failed" \/ Uncertified(r),
               to \in {"ok", "bad"} => pc[r] \in {"done", "failed"},
               Passed(r, n) => to \in Alive \cup {"ok", "bad"}
        PROVE  slow' = {} /\ \A q \in Runs : CalmRun(q)'
    <2>1. /\ UNCHANGED <<ask, pc, stage, slow>> /\ task[r][n] = from
          /\ task'[r][n] = to /\ \A m \in Nodes : m # n => task'[r][m] = task[r][m]
          /\ \A q \in Runs : q # r => task'[q] = task[q]
      BY <1>1, <1>2 DEF TypeOK, Moves, operatorVars, runVars
    <2>2. \A m \in Nodes : Passed(r, m)' <=> Passed(r, m)
      BY <2>1 DEF Passed, Parties
    <2>6. Uncertified(r) => Uncertified(r)'
      BY <1>2, <2>1 DEF Uncertified, Parties
    <2>7. \A m \in Nodes : /\ <<r, m>> \in bare' => <<r, m>> \in bare \/ (m = n /\ n # Coord)
                           /\ \A q \in Runs : q # r => (<<q, m>> \in bare' <=> <<q, m>> \in bare)
      BY <1>2
    <2>3. CalmRun(r)'
      BY <1>1, <1>2, <2>1, <2>2, <2>6, <2>7, NodesAre DEF CalmRun, Alive, Ended
    <2>4. \A q \in Runs : q # r => CalmRun(q)'
      BY <2>1, <2>7, CalmStays
    <2>5. QED
      BY <2>1, <2>3, <2>4
  <1>3. CASE TaskRuns(r, n)
    <2>1. bare' = bare \/ (bare' = bare \cup {<<r, n>>} /\ n # Coord)
      BY <1>3 DEF TaskRuns, Certified
    <2>2. QED
      BY <1>2, <1>3, <2>1 DEF TaskRuns, Alive
  <1>4. CASE InitFails(r, n)
    <2>1. Moves(r, n, "pending", "lost") /\ n # Coord /\ task[r][n] = "pending" /\ UNCHANGED bare
      BY <1>4 DEF InitFails, Startable, Moves
    <2>2. ~Passed(r, n)
      BY <1>1, <2>1 DEF CalmRun, Alive, Ended
    <2>3. QED
      BY <1>2, <2>1, <2>2
  <1>10. \A m \in Nodes : <<r, m>> \in bare => m # Coord /\ Uncertified(r)
    BY <1>1 DEF CalmRun, Sized, Uncertified
  <1>11. CASE NoCertificate(r, n)
    BY <1>2, <1>10, <1>11 DEF NoCertificate, Alive, Ended
  <1>5. CASE PartySucceeds(r, n)
    BY <1>2, <1>5 DEF PartySucceeds, Alive, Ended
  <1>6. CASE PartyGivesUp(r, n)
    <2>1. Moves(r, n, "up", "endedBad") /\ n # Coord /\ UNCHANGED bare
      BY <1>6 DEF PartyGivesUp
    <2>2. pc[r] = "failed" \/ Uncertified(r)
      BY <1>1, <1>6, <1>10, PublishedTogether DEF PartyGivesUp
    <2>3. QED
      BY <1>2, <2>1, <2>2 DEF Alive, Ended
  <1>7. ASSUME Exits(r, n), task[r][n] \in Ended, pc[r] \in {"done", "failed"}
        PROVE  slow' = {} /\ \A q \in Runs : CalmRun(q)'
    <2>1. n # Coord /\ UNCHANGED bare
      BY <1>1, <1>7 DEF CalmRun, Ended, Exits
    <2>2. CASE task[r][n] = "endedOk"
      BY <1>2, <1>7, <2>1, <2>2 DEF Exits
    <2>3. CASE task[r][n] = "endedBad"
      <3>1. pc[r] = "failed" \/ Uncertified(r)
        BY <1>1, <2>3 DEF CalmRun
      <3>2. Moves(r, n, "endedBad", "bad")
        BY <1>7, <2>3 DEF Exits
      <3>3. QED
        BY <1>2, <1>7, <2>1, <3>1, <3>2
    <2>4. QED
      BY <1>7, <2>2, <2>3 DEF Ended
  <1>8. CASE Sweep(r, n) \/ LoopEnds(r, n)
    <2>1. pc[r] \in {"done", "failed"}
      BY <1>8 DEF IInv, RunInv, Booked, Sweep, LoopEnds, HasBook, Key
    <2>2. QED
      BY <1>7, <1>8, <2>1 DEF Sweep, LoopEnds
  <1>9. CASE WaiterExpires(r, n)
    BY <1>9 DEF WaiterExpires
  <1>12. QED
    BY <1>3, <1>4, <1>5, <1>6, <1>8, <1>9, <1>11

LEMMA CalmStep == IInv /\ Calm /\ [Next]_vars => Calm'
  <1> SUFFICES ASSUME IInv, Calm, [Next]_vars, happened' = {}
               PROVE  slow' = {} /\ \A r \in Runs : CalmRun(r)'
    BY DEF Calm
  <1>1. slow = {} /\ \A r \in Runs : CalmRun(r)
    BY CalmSteps DEF Calm
  <1>2. CASE (\E f \in Files : Upload(f)) \/ UNCHANGED vars
    BY <1>1, <1>2, CalmStays DEF Upload, vars, operatorVars, runVars, taskVars
  <1>3. QED
    BY <1>1, <1>2, CalmSteps, CalmRunStep, CalmTaskStep

\* As long as no fault happens, a run fails only for want of its program, and a program
\* only in a run that failed or that has a party without certificates.
THEOREM FailuresHaveCause == Spec => []FailureHasCause
  <1>1. Init => Calm
    <2> SUFFICES ASSUME Init, NEW r \in Runs
                 PROVE  slow = {} /\ CalmRun(r)
      BY DEF Init, Calm
    <2>1. \A n \in Nodes : ~Passed(r, n)
      BY NodesAre DEF Init, Passed
    <2>2. QED
      BY <2>1, NodesAre DEF Init, CalmRun
  <1>2. Calm => FailureHasCause
    BY DEF Calm, CalmRun, Uncertified, FailureHasCause
  <1>3. QED
    BY <1>1, <1>2, CalmStep, Invariance, PTL DEF Spec
=============================================================================
