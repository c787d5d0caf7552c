# TLA+ models of the Stoffel AWS deployments

This directory specifies the parts of this repository that coordinate: the
Lambdas, scripts and state machines that share DynamoDB rows, sequence numbers,
locks, containers and key files, while AWS runs them concurrently, kills them at
their timeouts and delivers their commands in any order. TLC checks the models on
small instances; TLAPS proves their safety properties for every instance.

    tlc -workers 2 -config PartyControl.cfg PartyControl.tla
    tlapm PartyControlProofs.tla

A module `X` models a part of the system, `MCX` gives its CONSTANTS values for TLC where
a `.cfg` cannot, and `XProofs` holds its theorems (Orchestrator's are in three modules, each
of which EXTENDS the one before).

Paths below are relative to the repository's root: `P/` is
`stoffel-ec2-user-deployment-persistent/`, `E/` is `stoffel-ec2-user-deployment/`,
`F/` is `stoffel-fargate-user-deployment/`, `X/` is
`stoffel-fargate-cross-region-deployment/`.

## The system

### Inventory

| Component | State it keeps | Operations | Status |
|---|---|---|---|
| Party control plane (`P/lambdas/party_control.py`) | one row per party in `PARTY_CONTROL_TABLE`: `seq`, `lock_holder`, `lock_expires_at`; command and event files on the party's instance | `_acquire_sequence`, `_publish_and_wait_ack`, `_send_gap_filler`, `_wait_ssm`, `_release_sequence` | `PartyControl`, `CommandLog`, proofs |
| Execution lifecycle (`submit_execution.py`, `admit_execution.py`, `cancel_execution.py`) | one row per execution: `status`, `finished_at` | submit, admit on all parties, cancel API, cancel worker | `Executions`, `ExecutionRow`, proofs |
| Client registration (two Lambdas, `register.js`, five scripts) | one row per link; `ids/` locally, in S3, on the instances, in the nodes | link, ceremony, materialize, remove, upload, deploy | `Registration`, `KeyRegister`, proofs |
| EC2 job machine (`E/app.py`, `E/lambdas/`) | FIFO queue, lock item, one row per job, one container per instance | submit, pipe, StartJob, CheckJobStatus, FinishJob, HandleFailure, the lock states | `JobMachine`, `JobLock`, proofs |
| Fargate job machine (`F/app.py`, `F/orchestrator/`, `F/lambdas/`) | FIFO queue, lock item, one row per job, ECS tasks, Cloud Map registrations and their DNS answers | submit, pipe, the lock states, the orchestrator's steps, status and logs | `Orchestrator`, `JobLock`, proofs |
| Cross-region Fargate deployment (`X/`) | one stack per region with its sizes baked in, one bucket, address books, ECS tasks | cdk deploy, upload-program, upload-ids, run-nodes, the containers' loop, cleanup-tasks | `CrossRegion`, proofs |
| Standing mesh deployment (`P/deploy`, `start-nodes`, `stop-nodes`) | instances, `seq` | restart, counter synchronisation | copy of `ids/` only |
| Standing mesh operator runs (`P/run`, `run-program`, `wait-for-execution`) | command files | publish beside the Lambdas, poll | not modelled |
| `E/drain-and-stop` | the machine's | stops executions, deletes lock, rewrites rows | not modelled |
| Browser client (`P/web/stoffel-browser-client.js`, `app.js`, `webauthn-session.js`) | sockets, pending calls, bind material in IndexedDB | connect, bind, signed calls, rounds, submit, outputs | not modelled |
| Election page (`P/web/start.js`) | none of its own | start, lock in, submit, cancel through the API | not modelled |
| Status, log and list Lambdas of the EC2 stacks; key and log scripts | none of their own | reads | not modelled |
| Other single-run stacks, docker-compose generators, MP-SPDZ deployments, clean-up scripts, `hpke.js`, `qrcode.js` | none that is shared | run by hand, in sequence | not modelled |
| StoffelVM and the coordinator | journals, cursors, rounds | submodules, empty in this repository | external |

### How the components interact

`submit_execution` stores a row and asynchronously invokes `admit_execution`, which
calls `send_prepare_command` for every party in a thread pool. The cancel worker
calls `send_cancel_command` for one party after the other. Both calls are
`_publish_and_wait_ack`: one conditional UpdateItem takes the party's lease and its
next number, SSM carries a script to the instance, the script writes
`commands/<seq>.json` and waits for `events/party<p>/<seq>.json`. StandingControlPump
(in StoffelVM) consumes exactly the next number and never skips one. The rows of
`EXECUTIONS_TABLE` are shared between admission, the cancel API and the worker
without a common protocol. `E/`'s jobs share a lock item and, more dangerously, the
name of their containers: `docker rm`, `docker run` and `docker inspect` meet
whatever container is there. `F/`'s jobs share a lock item and, through Cloud Map, the
names `coordinator` and `party0`: a task that starts resolves them once. `X/`'s tasks
share nothing but a bucket; each gets the addresses known at its launch, and looks for
the rest in the address book that run-nodes uploads last.

### What is hard in it

Leases shorter than the work done under them; numbers reserved in one store and consumed in
another; commands that are accepted although the caller saw an error; unconditional writes
beside conditional ones; Lambdas killed between two writes; commands that are sent and not
awaited; invocations repeated after they did their work; scripts that scan first and write
later; registrations and DNS answers that outlive the tasks they name; a finally block that
a killed process never reaches; containers that wait for a file which a failed script never
uploads; one size given at deployment and again at every run. `PROJECT.json` lists each of
them at its line.

### What makes each component correct

* Control plane: every number is used by one call at most, applied once and in order;
  an acknowledgement is the call's own; a failed send does not wedge the party.
* Executions: RUNNING means all parties accepted; a cancel silences what it found
  running; a recorded end stays; every admission and cancel writes an end.
* Jobs: one holder of the lock; SUCCEEDED means the job's own parties ended well; every
  queued job ends and its coordinator goes.
* Fargate jobs: one holder of a lock that comes back; the row ends as the execution does;
  SUCCEEDED means every party exited with 0; the coordinator is stopped; no party meets
  another job's tasks.
* Cross-region runs: everybody computes with the same n, t and certificates; a sweep pings
  the tasks of its own run, all of them; every container exits.
* Registration: a link makes one identity; nodes load only verified keys, and always
  the same one; what is offered to voters has a key; what is removed is gone.

## The modules

### CommandLog: what a party's control plane promises

Callers reserve the next number, at most once each (`Reserve`); a number may be burnt
(`Burn`); the party consumes the reserved numbers in order (`Consume`) and never past
one it has not seen.

### PartyControl: one party, concurrent calls

One call of `_publish_and_wait_ack` per member of `Invocations`. `pc[i]` is the line the
call is at: `acquire` is the loop of `_acquire_sequence`, `reserved` is before `_send_ssm`,
`fill` is the inner exception handler, `wait` is `_wait_ssm`, `release` is the finally
block. `item` is the DynamoDB row. `script`, `filler`, `journal` and `applied` are SSM, the
instance's two scripts, its command files and the event files. `Acquire` is one step because
UpdateItem is one step; its clock reading may be up to `MaxLag` old, because
`int(time.time())` is taken before and truncated. A member of `Flaky` may be killed at any
point, lose DynamoDB's reply, have its send raise (with the command accepted or not), have
its gap filler raise, have its command dropped by SSM, or meet an error that nobody expects
in a poll of SSM (`PollRaises`) or in the release (`ReleaseRaises`, with the lease removed
or not); `fault` remembers which. `LOCK_RETRY_INTERVAL_SECONDS` and the polling intervals
are not modelled: a retry may happen at any moment. That a slot may hold both the call's own
command and its filler, in either order, is modelled.

### Executions: submission, admission, cancel

A party is its command log, which is the promise PartyControl is shown to keep. What a
caller may see of it: it publishes its command; or its send raises and the slot holds the
filler, a gap or the command after all; or it gives up waiting while the command is still to
be applied (`PrepareTimesOut`, `WorkerTimesOut`); or its poll or release raises, whatever
became of the command (`PrepareWaitRaises`; the worker swallows it). `PumpPolls` stops at a
gap for ever; `CommandDropped` and `NumberBurnt` are the other ways to get one (SSM gives up
on a command, DynamoDB's reply is lost). `live[p][e]` is what the party knows: `unknown`,
`live`, `ended`. Each DynamoDB read and write is an action of its own, each unconditional
write writes whatever it finds. `admit` ends as `crashed` when a pool task raised something
other than PartyControlError; `app.py` turns asynchronous retries off for admission and
leaves Lambda's default for the cancel worker (`attempts`, `MaxAttempts`). A timeout that
may always happen under PartyControl (a lease held by others, an acknowledgement that takes
too long) is an ordinary step here and not counted as a fault.

### ExecutionRow: what the row of an execution promises

Admission, the cancel API and the cancel worker write one row without a common protocol.
Together they still keep this: admission's verdict is written once, and RUNNING only when
every party has accepted (`Run`, `Fail`); a cancel begins while the row is open (`Want`),
and CANCELLED is written only where no finish is recorded (`Cancelled`). What it does not
promise is also visible in it: `Run` and `Cancelling` look at nothing else in the row.
In Executions `accepted` is what the parties know, `judged` the executions whose admission
is done, `wanted` those that a cancel read in an open state.

### JobMachine: jobs on the EC2 mesh

`sm[j]` is the state of the job's Step Functions execution; `Holding` are the states between
AcquireLock and ReleaseLock. `run[j][n]` is what became of the last start command for node
n; `late[j][n]` and `stop[j]` count the earlier ones and the `docker rm` still on their way.
They are delivered in any order and at any time later; `box[n]` is the one container called
`CONTAINER_NAME` on node `n`. `CheckEnds` is the poll that ends a job; polls answered
RUNNING change nothing and are stuttering steps. The poll reads its containers in one step:
an exited container stays as it is until a command replaces it, so a poll spread over time
sees a mix of states only when commands of two jobs cross, which `crossed` records.
LambdaInvoke retries the errors of the Lambda service and of its SDK, and the Lambda may
have run by then: `StartAttempted` and `FinishAttempted` are what an attempt can have done,
`InvokeRetried` runs the Lambda again over that (`restarted` remembers for whom),
`InvokeRaises` is the error that no retry removes. An attempt is over when its error is
seen. `PartyGivesUp` (external) lets a party whose mesh is incomplete exit with an error,
except while StartJob still starts the others, or when containers of two attempts of
StartJob meet. Sizes are natural numbers; one that is no number at all raises in StartJob
before anything is written, which `StartRejects` covers.

### JobLock: what a lock item promises

A binary semaphore whose holder may be lost: `Acquire`, `Release`, `Abandon`. Both job
machines are shown to implement it; `holders` is the set of executions that have acquired
the lock and neither released it nor died.

### Orchestrator: jobs on the Fargate stack

`sm[j]` is the job's Step Functions execution, `pc[j]` the place in `orchestrator.py` where
its ECS task is: `boot` (settings), `check` (the checks and the row), `fetch`, `clean`
(deregister what is registered), then per `stage` (coordinator, party0, other parties)
`launch`, `up` (wait_running), `register`, `dns` (wait_for_dns), and at last `publish`,
`watch` (wait_stopped), `stop` (the finally block) and `report`. `why` is how `main()` is
left. `task[j][n]` is an ECS task, `reg[n]` what is registered in the service of node n,
`dns[n]` what its name resolves to, which follows `reg` in a step of its own. `stray`
records a party that came up while a name it needs resolved to another job's task or to
nothing. `Granted` and `Ingress` are the IAM policy and the security group of `app.py`: a
call without its permission raises, a port that is not open is not reached. Every fault is
an action (`happened` remembers its kind): a lost message or launch, a kill, a call that
raises, before or after its effect, a refused stop_task, a task that stops before it starts,
a failing party, a lost host, a late DNS change, an expired wait. A kill leaves the same
behind as an error of DynamoDB while the failure is being recorded (`orchestrator.py` 297),
and stands for it. `StatusReply` and `LogsReply` are what the API answers from the row.

### CrossRegion: one run over many regions

`context` is what the stacks were deployed with, `ask[r]` what run r was asked for;
`CoordCommand` and `PartyEnv` are the command and the environment a container starts
with, as baked and as overridden by run-nodes. `pc` and `stage` are where run-nodes is,
`book[k]` the address book uploaded under the key of run k (`Key`: run-nodes gives each
run a key of its own). A container's program ends (`endedOk`, `endedBad`); then its entry
point waits for the book at most 300 s (`WaiterExpires`), pings what it says (`Sweep`)
and exits (`LoopEnds`). A run that takes longer than that to launch its tasks, or longer than
the 120 s for which party0 keeps its session open (`run-nodes` 289), is `slow`. Two init
containers fetch what a party needs: the copy of one program fails without it and keeps the
party from starting; the recursive copy of the ids succeeds with nothing, and the party starts
without certificates (`bare`), which its program does not survive (`NoCertificate`).
The second run starts when the first one's parties have stopped, as in run-exp, or after
the first one failed, beside whatever it left running.

### Registration: from the link to the running nodes

`row[t]` is the row of a link, `stage[c]` a browser's ceremony, cut at every DynamoDB
call. `crt`, `bucket`, `disk` and `catalog` are the four copies of a key. The scripts
are cut at every command that another actor can see, may be interrupted, and may run at
the same time as each other. `gone` is a history of what happened since a client's
removal. `Listed` is what `list_client_registrations.py` answers: nothing at all (a KeyError)
while a completed row has no client_name, which a removal between a scan and its
`update-item` can leave. The `|| continue` of `materialize-registered-clients` (line 80) is
never taken: `register_client.py` (136) stores only points that the conversion accepts.

### KeyRegister: what a registration promises

A write-once register: a client gets one key, a key belongs to one client, and the nodes
load only what is registered, and never lose or exchange it. `registered` are the pairs of
link and ceremony of which a browser was told so, `loaded` is the nodes' catalog.

## What is checked

| Run | Instance | States | Result |
|---|---|---|---|
| `party_control` | 3 calls (2 prepares, 1 cancel), one of them with all faults | 673,807 | passes |
| `party_control_lease` | 2 prepares, the code's durations in seconds | | violated, 21 s after the first lease |
| `executions` | 1 execution, 1 cancel, 2 parties, every kind of fault, one per behaviour | 175,003 | passes |
| `executions_raised` | as above, one send that raises | | violated |
| `executions_first_write` | as above, no fault but timeouts | | violated |
| `job_machine` | 3 jobs, 2 parties, six kinds of fault, one per behaviour | 361,023 | passes |
| `job_machine_overlap` | 2 jobs, no fault | | violated |
| `registration` | 2 links, 3 ceremonies, all scripts | 672,312 | passes |
| `registration_removal` | 1 link, 1 ceremony | | violated |
| `orchestrator` | 2 jobs, 2 parties, 5 kinds of request, eleven kinds of fault, one per behaviour | 245,656 | passes |
| `orchestrator_overlap` | 2 jobs, a party's program fails | | violated |
| `cross_region` | 2 runs, 3 regions, 4 sizes to ask for, seven kinds of fault, one per behaviour | 153,479 | passes |

What the passing runs show:

* `OneLiveLease`, `LeaseIsGivenBack`, `AckIsOwn`: although a lease regularly expires
  before the work under it ends, no two calls work in live leases at once, a late release
  does not hurt the next holder, and a reported acknowledgement is always the call's own.
  The row names a holder that no longer works only after a kill, a lost reply or a release
  that raised.
* `PartyCatchesUp`: a send, a poll or a release that raises never wedges the party by itself.
  A wedge needs a killed Lambda, a lost DynamoDB reply, a command dropped by SSM or a
  failing gap filler.
* `LogImplemented`: PartyControl implements CommandLog, so each number is applied once, in
  order, by the call that holds it.
* `RowImplemented`, `CleanCancelSilences`: what the statuses promise about the parties and
  about each other, under racing cancels, refusals and retries.
* `RevivedWasPreparing`: admission's unconditional write can make a cancelled execution
  RUNNING again only if a cancel of it came while it was PREPARING; a cancel of what was
  RUNNING is never undone.
* `AdmissionSettles`, `CancelSettles`: both handlers reach an end also against a wedged
  party; the exceptions (a lost invoke, a kill, an uncaught exception) are named in the
  property and are the code's own gaps.
* `LockImplemented`, `LockHasOwner`, `JobSettles`, `CoordinatorStops`: the lock is a
  semaphore. It comes back, and every queued job ends, whatever fails on the way; it stays
  taken only behind an execution that died (a failing HandleFailure, the 2 h timeout) or one
  whose parties may wait for each other for ever: a party failed, another job's command took
  a container, or containers of two attempts of StartJob met. Without a fault the coordinator
  of a finished job goes.
* `SuccessIsReal`, `FailureHasCause`, `FailureStands`, `OpenRowIsCarried`: SUCCEEDED is real
  unless another job's late command crossed the job; FAILED has its reason, and once StartJob
  is over it stands; no execution reaches its end with the row still open.
* `LockImplemented`, `LockReturns` of Orchestrator: the lock is a semaphore
  and comes back under every fault but the 2 h timeout, whose execution runs no state.
* `SuccessIsReal`, `RowFollowsMachine`, `VerdictStands`: the verdict is written before the
  execution goes on, once, and is what the parties did.
* `CoordinatorIsStopped`, `NobodyStrays`: cleaning up the registrations
  before the first launch is what keeps a job from the leftovers of a failed one.
* `OverlapNeedsFault`, `FailureHasCause`: before the first fault in the mesh (`MeshFaults`: all
  but those of the API, the pipe and the orchestrator's own launch) the tasks of two jobs
  never run together, and a job fails only for its size or its program: the stages, the
  ports and the names fit together. With `LockReturns` and `RowFollowsMachine` it follows
  that a valid job without faults succeeds.
* `Agreement`, `RunCompletes`, `FailureHasCause` of CrossRegion: whatever the stacks were
  deployed with, a run's own sizes reach every command and environment; without a fault a
  run that began fails only for a program that nobody uploaded. Without ids the parties fail
  one by one, and run-nodes does not notice and publishes the book.
* `SweepIsComplete`, `ContainersExit`: a key per run keeps the sweeps apart, and a
  container exits also when nobody uploads its book.
* `RegisterImplemented`, `ListedHasFile`: races of tabs and scripts neither register a link
  twice, nor exchange a key, nor let an unverified one through.

Some properties of the modules are in no cfg because what the same run checks implies
them. They are theorems of their own:

| Property | Implied by |
|---|---|
| `AppliedAtOwnSlot` | `LogImplemented`: a number is consumed by the call whose slot it is, and slots do not change |
| `WedgeNeedsSecondFault` | `PartyCatchesUp`: nobody can fill an abandoned number later, and the pump never passes it |
| `RunningIsAdmitted`, `CancelledKeepsFinish` | `RowImplemented`: `Run` and `Cancelled` are the only writers of these statuses |
| `OneHolder` of both machines | `LockImplemented`: `Acquire` needs a free lock and makes one holder |
| `LockHasOwner` of Orchestrator | `LockReturns`: a lock without an execution to release it would stay |
| `OneClaim`, `CatalogIsVerified`, `KeysAreStable` | `RegisterImplemented`: the register is write-once, and only what it holds is loaded |

What the violated runs show (each quotes the line it contradicts in `PROJECT.json`):

* `NoInterleavedDelivery`: the lease of 20 s does not cover an acknowledgement wait of
  25 s, so deliveries to one party do interleave. The numbers still protect the journal.
* `AdmissionRecorded`: an SSM error in one pool task leaves the row PREPARING for ever.
* `FailureIsKept`: the cancel API overwrites FAILED with CANCELLING, and the worker's
  condition then keeps it there.
* `OneJobRuns` of JobMachine: the coordinator of a finished job overlaps with the next job.
* `OneJobRuns` of Orchestrator: when a party's program fails (or a task does not come up), the
  orchestrator stops the coordinator, leaves the other parties running, and the lock is released.
* `RemovalTakesEffect`: upload-ids and deploy delete nothing, so a removed client stays.

Two more disagreements with the documentation show in properties that pass:

* `FailureStands` exempts a StartJob that Step Functions runs again. `E/lambdas/start_job.py`
  (5) says that it is "Invoked once per queued job"; its LambdaInvoke keeps the default retries
  of service errors, so a StartJob that recorded FAILED (68) may write RUNNING over it (225)
  and send every start command again.
* `SweepIsComplete` is about a full mesh. `X/README.md` (28-32) says that this "isn't
  reproducible here" and that "Each party instead pings just the coordinator and its bootstrap
  peer"; the containers (`X/app.py` 371-376) ping every address of the book, and run-nodes
  (355-371) uploads the addresses of all entities of the run.

### Bounds, and why they are enough

* PartyControl: durations are scaled to 0..2 units. What matters is their order and that
  a lease may end before, with and after each wait; `MaxLag = 1` makes clock readings
  differ from the row's. Three calls give a holder, one that takes over and one that
  comes after. `MaxSeq = 4` leaves room for a burnt number. `MaxNow` stops the clock and
  so bounds the takeovers; the theorems have no such bound. One flaky call is enough
  for every combination of faults of one call; the others must then cope.
* Executions: two parties separate "some" from "all" and the first from the last in the
  worker's order. `MaxFaults = 1`: with two faults (1.1 million states) it also passes, but
  takes several times as long. `MaxAttempts = 2` stands for Lambda's three attempts.
* JobMachine: one job uses a part of the mesh and one all of it, and a third is invalid,
  so that start, failure and waiting overlap. Thresholds only decide who is rejected.
  Of the commands that are sent twice each copy counts, so `late` and `stop` need no bound of
  their own: `MaxFaults` bounds the retries.
* Registration: three ceremonies over two links: two race on one link beside another.
* Orchestrator: two jobs give one that leaves something behind and one that meets it; two
  parties give party0 and one other, which is all that the stages tell apart. The five
  requests are a full and a smaller mesh and one for each way to be turned away. One
  fault per behaviour (`MaxFaults = 1`); the theorems allow any number.
* CrossRegion: three regions are the fewest that cdk deploy accepts (2t+1 with t = 1). The
  sizes to ask for are the deployed one, a smaller one with another threshold, one that
  is larger than what was deployed, and one with too few parties for its threshold. Two
  runs: one that leaves books and tasks behind, and a smaller one beside them, with whose
  parties the leftovers share their numbers.
* `CHECK_DEADLOCK FALSE` everywhere: a system in which no user asks for anything more,
  or whose clock stopped at its bound, has nothing left to do.

### Fairness, and what justifies it

Weak fairness per actor: a running Lambda takes its next step or its timeout, Step
Functions and the pipe go on, SSM delivers what it accepted unless it gives up on it,
the pump polls, a complete mesh computes. That is what AWS promises of a process that
is not killed, and every kill is an action of its own without fairness. No user step
and no fault is fair, so nothing holds because a fault had to happen. That a complete
mesh computes includes that its clients send their inputs: without them the code waits
for its timeouts, which are faults here. CrossRegion states fairness of the tasks as one
disjunction: a task makes finitely many moves, so none can be passed over for ever.

## What is proved

Every theorem holds for all values of the constants: any set of calls, executions, jobs,
links or requests, any mesh size (the Fargate stacks have at most ten parties), any
number of faults. The assumptions (`...Assumption` in each module) only say what the
constants are. Each proof module has an inductive invariant `IInv`, checked by TLC before
it was proved, and the same three facts: Init implies it, every step keeps it, it implies
the property. All state invariants, action properties and refinements of the passing
runs are proved, and so are the implied properties of the table above.

**PartyControlProofs.** `IInv` is `TypeOK /\ Numbered /\ Stages /\ Published /\ Leases /\
AckIsOwn`.

* `LeaseExclusion` follows from `Leases`: the row remembers the only lease that can still
  be live. A working call either is the holder, and then its `leaseOf` is the row's
  `expires`, or its lease lies in the past. Without it the takeover step proves nothing
  about the call that was overtaken. The proof needs that a clock reading is never ahead
  of the clock, and nothing about how old it is.
* `SlotOwnership` and `AckOwnership` follow from `Numbered` (numbers are unique, and at
  most `item.seq`) and `Published` (what lies in a slot, in the journal or applied,
  was put there by the call that holds the slot's number, as its filler only if it sent
  one). `Stages` says which calls can have sent a filler: never one that may still
  succeed.
* `WedgeTakesTwo` adds `Covered`: as long as sends, polls and releases are all that fails,
  every number has its call, and its file exists or is still to come.
* `LeaseGivenBack` is inductive with TypeOK: every way out of the work (answer, rejection,
  failed send, failed filler, failed poll) passes `ReleaseSequence`, which may itself raise, and
  a takeover replaces the name.
* `LogRefinement`: every step maps to a step of CommandLog or leaves it alone. `Acquire`
  is `Reserve`, `AcquireReplyLost` is `Burn`, `PumpPolls` is `Consume`; only the pump's
  step needs the invariant.

**ExecutionsProofs.** A step is seen through two relations: journals only grow, except that
what is not applied may turn into a gap (`Grows`), and an execution only goes from unknown
to live to ended (`Ages`). `StepKeeps` then carries every call that the step does not
touch. `Holds` says that a call's number is that of its own command or of a gap; a gap is
never applied (`Journal`), so an acknowledgement is the call's own. From that,
`RunningAdmitted`; and `CleanCancel` from `Calling` (once the worker's number is applied,
the execution is not live at that party) and `Silenced` (nor at the parties before).
`FinishStands` is the worker's condition, seen beside every other writer of the row.

The row has an invariant of its own, `RowInv`: what a cancel request has read says how far
admission was then (`Reader`), what the row holds fits what admission and the cancels have
done (`Written`), and every command in a journal is about a stored execution (`Posted`).
With it `RevivedPreparing`: if a finish is recorded before admission's RUNNING, it is a
cancel's, and that cancel read PREPARING, or CANCELLING, which goes back to one that did.
`RowRefinement` takes the steps by what they do to the row: most leave it alone (`Aside`),
the others are each one action of ExecutionRow.

**JobMachineProofs.** `LockExclusion` needs that the queue holds each stored job once.
`SuccessIsEarned` needs `BoxInv` and that, while its polls go on, a container that j started
is j's or j is marked as crossed (`JobInv`). `FailuresStand`: once StartJob is over, a
failure is recorded only in states from which no success is written; while it is in state
`start` a retry may write RUNNING over what the attempt before recorded. `LockRefinement`:
the lock implements JobLock. `LockOwned`: who releases the lock held it, and who holds it
leaves it by releasing or by dying. `OpenRowsCarried` needs that a job about to finish has a
verdict and one about to release the lock has a settled row (`RowInv`). `FailuresHaveCause`
needs what is true until the first fault, `Calm`: no start command has failed, no StartJob
was run again, the coordinator does not end by itself (`CalmBoxes`), what a job started has
not ended badly unless another job crossed it, and a failure that is recorded, found or
being handled is `Caused` (`CalmJob`).

**OrchestratorProofs.** `Machine` ties the execution to its orchestrator, `Stages` says how
far it is, `Verdict` what the row may hold at each step and for each way to leave,
`Coordinator` that it was launched once and stopped before the row is settled, `Success`
what was seen running. `RowsFollow`, `VerdictsStand`, `CoordinatorStopped` and
`SuccessIsEarned` are read off them; `LockRefinement` and `LockOwned` from `OneHolder`.

**OrchestratorAddressProofs.** `NoStrangers`: while an orchestrator works nobody else holds
the lock (`Exclusive`), so only it changes registrations, and stage by stage the names
that the next tasks resolve are the job's alone (`Addresses`, `Pending`). It needs that no
deregistration was late.

**OrchestratorFaultlessProofs.** Until the first fault in the mesh the task of every node is
where the stage of its orchestrator says (`Calm`): not launched before its stage, up after
it, ended once the orchestrator has left; `Reason` says why an orchestrator leaves. One job
runs at a time because whoever has tasks up works, and by `Exclusive` holds the lock alone
(`OverlapsNeedFaults`); no wait expires, no party misses a peer and no call is refused, so
only size and program make a job fail (`FailuresHaveCause`). It rests on `NoStrangers`: that
the parties find their peers is a matter of the names they resolve.

**CrossRegionProofs.** `SizesAgree` from what run-nodes and the stacks checked (`Asked`) and
which nodes can have been launched (`Sized`); `EverybodyIsPinged` because a book is its own
run's and is uploaded at the end (`Booked`).
`FailuresHaveCause` needs what is true until the first fault (`Calm`): a node whose stage was
passed is up or has ended, only the loss of a task makes run-nodes fail, and a program fails
only in such a run or beside a party without certificates.

**RegistrationProofs.** The key is `RowInv`: a row has a client_name from its creation to its
removal, and only a claim of a named row answers the browser, so a token is claimed once.
`Carried` says that every copy of a key, on its way or where it stays, is of a claim;
`CatalogVerified`, `StableKeys` and `ListedHaveFiles` follow, and with them every step is one of
KeyRegister (`RegisterRefinement`): a claim registers, a deploy loads, all else stutters.

Only model-checked: every liveness property (fairness and ENABLED are out of the prover's
reach), that is `PartyCatchesUp`, `AdmissionSettles`, `CancelSettles`, `JobSettles`,
`CoordinatorStops`, `LockReturns`, `ContainersExit`, `RunCompletes`. The safety under some of
them is proved: `WedgeTakesTwo`, `LockOwned`, `OpenRowsCarried`, `FailuresHaveCause`.

## What is not modelled, and why

* Contents: program bytes, payloads, log text, HTTP bodies and their validation.
* Other API keys' cancels, unknown ids and malformed requests: they return before any
  write.
* Duplicate deliveries by SQS and the pipe, and DynamoDB errors other than the failed
  condition, a lost reply, a release that raises and those that the orchestrator meets.
* An attempt of a Lambda that still runs while Step Functions retries it, and sizes below
  zero: the API stores any string, and StartJob accepts a negative threshold with any number
  of parties down to none.
* The scan of a large table in pages: `materialize-registered-clients` and
  `list_client_registrations.py` read the table in one step.
* `drain-and-stop`, `P/run` and the counters that `P/deploy` sets: operator scripts used
  while the machine or the mesh is stopped or stuck. They write beside the protocols
  above (a second publisher, a lock that is deleted unconditionally); the hazards in
  `PROJECT.json` name what they can break.
* The browser client and the election page: JavaScript of one browser, against servers that
  are not in this repository.
* `presign.py` signs a URL; the ids of a Fargate job are taken to be on EFS; the status,
  log and list Lambdas of the EC2 stacks only read.
* The other single-run stacks repeat CrossRegion and Orchestrator with Cloud Map names or
  Elastic IPs.
* `X/run-exp` waits ten minutes for the coordinator task to stop, which it never does by
  itself: a fact about a program outside this repository, from which the failure of that wait
  follows without any interleaving.
* Everything inside StoffelVM, docker and SSM: external, modelled by what this code
  relies on.

## Plan

1. Done: PartyControl, Executions, JobMachine, Registration, Orchestrator, CrossRegion; the
   abstract log, lock, row and register they implement; proofs of all their safety
   properties and of the five refinements (the lock is implemented twice).
2. Open, in this order: the deployment's counter synchronisation and `run`'s own numbering
   (MeshDeploy) as a second publisher over PartyControl's journal; `drain-and-stop` as
   actions of JobMachine beside the running machine; the browser client's sockets, rounds
   and bind material (BrowserClient). One run each, with two or three parties or tabs.
