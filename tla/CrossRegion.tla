----------------------------- MODULE CrossRegion -----------------------------
(***************************************************************************)
(* One MPC cluster over many AWS regions on Fargate                        *)
(* (stoffel-fargate-cross-region-deployment).  Every party has a stack of  *)
(* its own, nothing is shared but one bucket.  run-nodes launches the      *)
(* coordinator, party0 and the other parties, hands each the public        *)
(* addresses it knows by then, and at last uploads the address book, which *)
(* the containers ping from when their program is done.                    *)
(*                                                                         *)
(* Parties are 0..Regions-1 and Regions is the coordinator; a task is a    *)
(* run and a node.  The operator may start run-nodes again whatever the    *)
(* run before left behind.  ECS, S3 and the programs are external.         *)
(***************************************************************************)
EXTENDS Naturals, FiniteSets

CONSTANTS
    Regions,     \* N_PARTIES, the length of PARTY_REGIONS
    MaxRuns,     \* bound: how often run-nodes is called
    Contexts,    \* num_nodes and threshold that cdk deploy may be given
    Asks,        \* Asks[r]: what run r may be asked for
    None,        \* nothing asked yet
    Faults,      \* the faults that may happen
    MaxFaults    \* bound: how many happen in one behaviour, each once

AllFaults == {"launch",    \* run-task returns no task
              "task",      \* a task stops before its container starts
              "party",     \* a program fails
              "host",      \* a running task is lost
              "s3",        \* the address book is not uploaded
              "cleanup",   \* the operator calls cleanup-tasks
              "slow"}      \* launching takes longer than the 300 s of the waits, or than
                           \* the 120 s that party0 leaves the others (run-nodes 289)

Sizes == [parties : Nat, threshold : Nat]
Runs == 1..MaxRuns

ASSUME CrossRegionAssumption ==
    /\ Regions \in 1..10
    /\ MaxRuns \in Nat
    /\ Contexts \subseteq Sizes
    /\ Asks \in [Runs -> SUBSET Sizes]
    /\ None \notin Sizes
    /\ Faults \subseteq AllFaults
    /\ MaxFaults \in Nat

Nodes == 0..Regions
Coord == Regions
Files == {"program", "ids"}

VARIABLES
    context,    \* the sizes the stacks were deployed with
    bucket,     \* which of program and ids have been uploaded
    ask,        \* ask[r]: what run r was asked for
    pc,         \* pc[r]: where run-nodes is
    stage,      \* 1 coordinator, 2 party0, 3 the other parties
    task,       \* task[r][n]
    book,       \* book[k]: the tasks in the address book under key k
    bare,       \* parties that started without certificates
    expired,    \* tasks whose AddressWaiter has given up
    row,        \* row[r][n]: the tasks that this task has pinged
    slow,       \* runs whose launch takes longer than 300 s
    happened    \* the kinds of fault that happened

operatorVars == <<context, bucket, ask>>
runVars == <<pc, stage, slow>>
taskVars == <<task, bare, expired, row>>
vars == <<operatorVars, runVars, taskVars, book, happened>>

Ended == {"endedOk", "endedBad"}    \* the program has ended, the container has not
Alive == {"up"} \cup Ended
Stopped == {"ok", "bad", "lost"}
Tasks == Runs \X Nodes

TypeOK ==
    /\ context \in Contexts
    /\ bucket \subseteq Files
    /\ ask \in [Runs -> Sizes \cup {None}]
    /\ pc \in [Runs -> {"off", "launch", "wait", "publish", "done", "failed"}]
    /\ stage \in [Runs -> 1..3]
    /\ task \in [Runs -> [Nodes -> {"none", "pending"} \cup Alive \cup Stopped]]
    /\ book \in [Runs -> SUBSET Tasks]
    /\ bare \subseteq Tasks
    /\ expired \subseteq Tasks
    /\ row \in [Runs -> [Nodes -> SUBSET Tasks]]
    /\ slow \subseteq Runs
    /\ happened \subseteq Faults

Fault(f) == /\ f \in Faults
            /\ f \notin happened /\ Cardinality(happened) < MaxFaults
            /\ happened' = happened \cup {f}
-----------------------------------------------------------------------------
(* What the stacks define. *)

\* The validation before the stacks are created.
Deployable(c) == c.threshold >= 1 /\ 2 * c.threshold + 1 <= c.parties /\ c.parties <= Regions

\* The first num_nodes regions get the stack of a party.
HasStack(n) == n < context.parties

Init ==
    /\ context \in {c \in Contexts : Deployable(c)}
    /\ bucket = {}
    /\ ask = [r \in Runs |-> None]
    /\ pc = [r \in Runs |-> "off"]
    /\ stage = [r \in Runs |-> 1]
    /\ task = [r \in Runs |-> [n \in Nodes |-> "none"]]
    /\ book = [r \in Runs |-> {}]
    /\ bare = {}
    /\ expired = {}
    /\ row = [r \in Runs |-> [n \in Nodes |-> {}]]
    /\ slow = {}
    /\ happened = {}

\* Mutant of Ingress: every stack opens the ports of party0.
IngressOfParty0(n) == IF n = Coord THEN {31415} ELSE {9000, 16180, 10000}

\* Each stack's security group opens the ports of its own node only.
Ingress(n) ==
    IF n = Coord THEN {31415}
    ELSE {9000 + n, 16180 + n} \cup (IF n = 0 THEN {10000} ELSE {})

\* STOFFEL_BIND_ADDR, STOFFEL_RPC_ADDR, and the port clients and parties dial.
Listens(n) == IF n = Coord THEN {31415} ELSE {9000 + n, 16180 + n}

\* The arguments baked into the coordinator's command at deployment.
BakedCommand == [parties |-> context.parties, threshold |-> context.threshold,
                 certs |-> 0 .. context.parties - 1]

Parties(r) == {n \in Nodes \ {Coord} : ask[r] # None /\ n < ask[r].parties}

\* Mutant of CoordCommand: the deployed threshold stays.
CoordCommandBaked(r) ==
    [BakedCommand EXCEPT !.parties = ask[r].parties, !.certs = Parties(r)]

\* The arguments run-nodes starts the coordinator with: each baked one is replaced.
CoordCommand(r) ==
    [BakedCommand EXCEPT !.parties = ask[r].parties, !.threshold = ask[r].threshold,
                         !.certs = Parties(r)]

\* The party's environment of the stack, and the two values run-nodes overrides.
BakedEnv(n) == [parties |-> context.parties, threshold |-> context.threshold, id |-> n]
PartyEnv(r, n) ==
    [BakedEnv(n) EXCEPT !.parties = ask[r].parties, !.threshold = ask[r].threshold]

\* The init containers that must succeed before the party's container starts, and what
\* each fetches from the bucket.  A copy of one object fails without it; a recursive copy
\* succeeds with whatever is there, also with nothing.
InitContainers == [Downloader |-> "program", IdsDownloader |-> "ids"]
DependsOn == {"Downloader", "IdsDownloader"}
Recursive == {"IdsDownloader"}
Startable(n) == n = Coord \/ \A d \in DependsOn \ Recursive : InitContainers[d] \in bucket

\* The coordinator has its certificates in its image.
Certified(n) == n = Coord \/ InitContainers.IdsDownloader \in bucket

\* Mutant of Key: one name for all runs.
KeyShared(r) == 1

\* The name the address book of run r is stored under: unique to the run.
Key(r) == r
-----------------------------------------------------------------------------
(* The operator *)

\* upload-program and upload-ids
Upload(f) ==
    /\ f \notin bucket
    /\ bucket' = bucket \cup {f}
    /\ UNCHANGED <<context, ask, runVars, taskVars, book>>

\* As run-exp does, the operator waits for the parties of the run before, unless that
\* run failed: then what it left may still run.
Over(q) ==
    pc[q] = "failed" \/ (pc[q] = "done" /\ \A n \in Parties(q) : task[q][n] \in Stopped)

\* The arguments are checked, and the outputs of every stack looked up, before
\* anything is launched; ten parties are taken for deployed.
RunNodes(r) ==
    /\ pc[r] = "off" /\ \A q \in Runs : q < r => Over(q)
    /\ \E a \in Asks[r] :
          /\ ask' = [ask EXCEPT ![r] = a]
          /\ IF /\ 2 * a.threshold + 1 <= a.parties /\ a.parties <= 10
                /\ \A n \in 0 .. a.parties - 1 : HasStack(n)
             THEN pc' = [pc EXCEPT ![r] = "launch"]
             ELSE pc' = [pc EXCEPT ![r] = "failed"]
    /\ UNCHANGED <<context, bucket, stage, slow, taskVars, book>>

\* cleanup-tasks stops what runs in every cluster.
CleanupTasks ==
    /\ \A r \in Runs : pc[r] \in {"off", "done", "failed"}
    /\ \E r \in Runs, n \in Nodes : task[r][n] \in Alive \cup {"pending"}
    /\ Fault("cleanup")
    /\ task' = [r \in Runs |-> [n \in Nodes |->
                   IF task[r][n] \in Alive \cup {"pending"} THEN "lost" ELSE task[r][n]]]
    /\ UNCHANGED <<operatorVars, runVars, bare, expired, row, book>>
-----------------------------------------------------------------------------
(* run-nodes: any error ends it (set -e), and leaves what it launched. *)

\* Mutant of Team: LAST_PARTY is one less.
TeamWithoutLast(r) == << {Coord}, {0}, 1 .. ask[r].parties - 2 >>[stage[r]]

Team(r) == << {Coord}, {0}, 1 .. ask[r].parties - 1 >>[stage[r]]
Goto(r, s) == pc' = [pc EXCEPT ![r] = s]
Launch(r, ns) == task' = [task EXCEPT ![r] = [n \in Nodes |-> IF n \in ns THEN "pending"
                                                                         ELSE @[n]]]

\* Every run-task call of a stage is made before the first wait.
RunTasks(r) ==
    /\ pc[r] = "launch"
    /\ Launch(r, Team(r))
    /\ Goto(r, "wait")
    /\ UNCHANGED <<operatorVars, stage, slow, bare, expired, row, book>>

RunTaskFails(r) ==
    /\ pc[r] = "launch"
    /\ Fault("launch")
    /\ \E n \in Team(r) : Launch(r, {m \in Team(r) : m < n})
    /\ Goto(r, "failed")
    /\ UNCHANGED <<operatorVars, stage, slow, bare, expired, row, book>>

\* Mutant of TasksRunning: the last stage is counted twice.
TasksRunningOn(r) ==
    /\ pc[r] = "wait"
    /\ \A n \in Team(r) : task[r][n] \in Alive
    /\ Goto(r, "launch") /\ stage' = [stage EXCEPT ![r] = @ + 1]
    /\ UNCHANGED <<operatorVars, slow, taskVars, book>>

\* aws ecs wait tasks-running, then the public addresses: both fail for a task that
\* has stopped.
TasksRunning(r) ==
    /\ pc[r] = "wait"
    /\ \/ /\ \A n \in Team(r) : task[r][n] \in Alive
          /\ IF stage[r] = 3 THEN Goto(r, "publish") /\ UNCHANGED stage
                             ELSE /\ Goto(r, "launch")
                                  /\ stage' = [stage EXCEPT ![r] = @ + 1]
       \/ /\ \E n \in Team(r) : task[r][n] \in Stopped
          /\ Goto(r, "failed") /\ UNCHANGED stage
    /\ UNCHANGED <<operatorVars, slow, taskVars, book>>

WaitExpires(r) ==
    /\ pc[r] = "wait"
    /\ \E n \in Team(r) : task[r][n] = "pending"
    /\ r \in slow
    /\ Goto(r, "failed")
    /\ UNCHANGED <<operatorVars, stage, slow, taskVars, book, happened>>

PublishBook(r) ==
    /\ pc[r] = "publish"
    /\ book' = [book EXCEPT ![Key(r)] = {r} \X (Parties(r) \cup {Coord})]
    /\ Goto(r, "done")
    /\ UNCHANGED <<operatorVars, stage, slow, taskVars>>

PublishFails(r) ==
    /\ pc[r] = "publish"
    /\ Fault("s3")
    /\ Goto(r, "failed")
    /\ UNCHANGED <<operatorVars, stage, slow, taskVars, book>>
-----------------------------------------------------------------------------
(* A task: its init containers, its container and its AddressWaiter. *)

Moves(r, n, from, to) == /\ task[r][n] = from
                         /\ task' = [task EXCEPT ![r][n] = to]
                         /\ UNCHANGED <<operatorVars, runVars, expired, book>>

\* The coordinator answers, and the parties have found each other.
Together(r) ==
    /\ task[r][Coord] = "up"
    /\ \A n \in Parties(r) \cup {Coord} :
          /\ task[r][n] \in {"up", "endedOk", "ok"} /\ <<r, n>> \notin bare
          /\ Listens(n) \subseteq Ingress(n)

TaskRuns(r, n) ==
    /\ Moves(r, n, "pending", "up") /\ UNCHANGED row
    /\ Startable(n)
    /\ bare' = IF Certified(n) THEN bare ELSE bare \cup {<<r, n>>}

\* A dependency that fails stops the task.
InitFails(r, n) ==
    Moves(r, n, "pending", "lost") /\ ~Startable(n) /\ UNCHANGED <<bare, row>>

\* The program of a party finds neither its certificate nor its key.
NoCertificate(r, n) ==
    <<r, n>> \in bare /\ Moves(r, n, "up", "endedBad") /\ UNCHANGED <<bare, row>>

PartySucceeds(r, n) ==
    n # Coord /\ Moves(r, n, "up", "endedOk") /\ Together(r) /\ UNCHANGED <<bare, row>>

\* Without its peers or its coordinator a party may give up, or hang; it has the time
\* that a launch takes unless that is slow, or a peer is there without certificates.
PartyGivesUp(r, n) ==
    /\ n # Coord /\ Moves(r, n, "up", "endedBad") /\ ~Together(r) /\ UNCHANGED <<bare, row>>
    /\ \/ pc[r] \in {"publish", "done", "failed"} \/ r \in slow
       \/ \E m \in Nodes : <<r, m>> \in bare

TaskFailsToStart(r, n) ==
    Moves(r, n, "pending", "lost") /\ Fault("task") /\ UNCHANGED <<bare, row>>
ProgramFails(r, n) ==
    Moves(r, n, "up", "endedBad") /\ Fault("party") /\ UNCHANGED <<bare, row>>
HostLost(r, n) ==
    /\ task[r][n] \in Alive /\ Moves(r, n, task[r][n], "lost")
    /\ Fault("host") /\ UNCHANGED <<bare, row>>

Exits(r, n) ==
    /\ Moves(r, n, task[r][n], IF task[r][n] = "endedOk" THEN "ok" ELSE "bad")
    /\ UNCHANGED bare
HasBook(r, n) == book[Key(r)] # {} /\ <<r, n>> \notin expired

\* The entry point: once the address book is on the volume, ping every task in it but
\* the own one, and exit with the program's exit code.
Sweep(r, n) ==
    /\ task[r][n] \in Ended /\ HasBook(r, n)
    /\ row' = [row EXCEPT ![r][n] = book[Key(r)] \ {<<r, n>>}]
    /\ Exits(r, n)

\* Mutant of LoopEnds: the loop has no limit.
LoopGoesOn(r, n) == FALSE

\* 150 rounds of 2 s without the address book: it is not uploaded in that time only
\* if run-nodes failed or is slow.
LoopEnds(r, n) ==
    /\ task[r][n] \in Ended /\ ~HasBook(r, n)
    /\ pc[r] = "failed" \/ r \in slow
    /\ Exits(r, n)
    /\ UNCHANGED row

\* The nodes launched before node n.
Before(n) == CASE n = Coord -> {} [] n = 0 -> {Coord} [] OTHER -> {Coord, 0}

\* 60 rounds of 5 s, over first where the task was launched first.  AddressWaiter is not
\* essential: the task goes on without it.
WaiterExpires(r, n) ==
    /\ task[r][n] \in Alive /\ <<r, n>> \notin expired
    /\ \A m \in Before(n) : <<r, m>> \in expired \/ task[r][m] \in Stopped
    /\ book[Key(r)] = {} /\ r \in slow
    /\ expired' = expired \cup {<<r, n>>}
    /\ UNCHANGED <<operatorVars, runVars, task, bare, row, book>>

LaunchIsSlow(r) ==
    /\ pc[r] \in {"launch", "wait", "publish"}
    /\ Fault("slow")
    /\ slow' = slow \cup {r}
    /\ UNCHANGED <<operatorVars, pc, stage, taskVars, book>>
-----------------------------------------------------------------------------
RunStep(r) == (RunTasks(r) \/ TasksRunning(r) \/ PublishBook(r)) /\ UNCHANGED happened

TaskStep(r, n) ==
    /\ \/ TaskRuns(r, n) \/ InitFails(r, n) \/ NoCertificate(r, n)
       \/ PartySucceeds(r, n) \/ Sweep(r, n) \/ LoopEnds(r, n)
    /\ UNCHANGED happened

\* Steps that nobody has to take.
OutsideStep ==
    /\ \/ \E f \in Files : Upload(f)
       \/ \E r \in Runs : \/ RunNodes(r)
                          \/ \E n \in Nodes : PartyGivesUp(r, n) \/ WaiterExpires(r, n)
    /\ UNCHANGED happened

FaultStep ==
    \/ CleanupTasks
    \/ \E r \in Runs : \/ LaunchIsSlow(r) \/ RunTaskFails(r) \/ WaitExpires(r) \/ PublishFails(r)
                       \/ \E n \in Nodes : \/ TaskFailsToStart(r, n) \/ ProgramFails(r, n)
                                           \/ HostLost(r, n)

Next ==
    \/ \E r \in Runs : RunStep(r) \/ \E n \in Nodes : TaskStep(r, n)
    \/ OutsideStep
    \/ FaultStep

Spec == Init /\ [][Next]_vars

\* run-nodes and ECS go on, the loops of the entry points end, and a complete mesh
\* computes: its clients send their inputs.
Fairness ==
    /\ WF_vars(\E r \in Runs : RunStep(r))
    /\ WF_vars(\E r \in Runs, n \in Nodes : TaskStep(r, n))

FairSpec == Spec /\ Fairness
-----------------------------------------------------------------------------
(* Properties *)

\* Whatever size the stacks were deployed with, the coordinator and the parties of a
\* run are started for the same n and t, n is at least 2t+1, and the certificates the
\* coordinator admits are those of the parties that are launched.
Agreement ==
    \A r \in Runs : (\E n \in Nodes : task[r][n] # "none") =>
        LET command == CoordCommand(r) IN
        /\ 2 * command.threshold + 1 <= command.parties
        /\ \A n \in Parties(r) : PartyEnv(r, n).parties = command.parties
                                 /\ PartyEnv(r, n).threshold = command.threshold
        /\ \A n \in Nodes \ {Coord} : task[r][n] # "none" => n \in command.certs

\* "avoids ever picking up a stale address book left over from a previous run"
\* (run-nodes 10-12): a container that has exited pinged every other task of its own
\* run and nothing else, unless run-nodes failed or was slow.  That is the full mesh of
\* the comments in app.py (361-365), and contradicts this deployment's README.md (28-32):
\* "Each party instead pings just the coordinator and its bootstrap peer".
SweepIsComplete ==
    \A r \in Runs, n \in Nodes :
        /\ row[r][n] # {} => row[r][n] = ({r} \X (Parties(r) \cup {Coord})) \ {<<r, n>>}
        /\ task[r][n] \in {"ok", "bad"} =>
              row[r][n] # {} \/ pc[r] = "failed" \/ r \in slow

\* Without a fault, run-nodes fails in the middle of a run only because a task found no
\* program in the bucket, and a program fails only in such a run or beside a party that
\* started before the ids were uploaded: no wait expires, no port is closed and no party
\* misses its peers.  (run-nodes does not see the missing ids and publishes.)
FailureHasCause ==
    happened = {} =>
        \A r \in Runs :
            /\ pc[r] = "failed" => \/ \A n \in Nodes : task[r][n] = "none"
                                  \/ \E n \in Nodes : task[r][n] = "lost"
            /\ (\E n \in Nodes : task[r][n] \in {"endedBad", "bad"}) =>
                  pc[r] = "failed" \/ \E n \in Parties(r) : <<r, n>> \in bare

\* A container whose program has ended exits, though nobody may ever upload the
\* address book it waits for.
ContainersExit == []<>(\A r \in Runs, n \in Nodes : task[r][n] \notin Ended)

\* A run that run-nodes has begun does not stop half-way: without a fault every party ends
\* with success in the end, unless the run was turned away before its first task, or a
\* party found no program or no certificates.
RunCompletes ==
    []<>(happened = {} =>
            \A r \in Runs :
                \/ \A n \in Nodes : task[r][n] = "none"
                \/ \E n \in Nodes : task[r][n] = "lost" \/ <<r, n>> \in bare
                \/ \A n \in Parties(r) : task[r][n] = "ok")
=============================================================================
