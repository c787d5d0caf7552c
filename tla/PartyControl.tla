---------------------------- MODULE PartyControl ----------------------------
(***************************************************************************)
(* The control plane of ONE party of the standing mesh                     *)
(* (lambdas/party_control.py): concurrent calls of                         *)
(* _publish_and_wait_ack share the party's row of PARTY_CONTROL_TABLE      *)
(* (a lease and the next sequence number), send a script to the party's    *)
(* instance over SSM, and the script writes the command file and polls for *)
(* the acknowledgement that StandingControlPump (external) produces.       *)
(* Rows, instances, journals and pumps of different parties are disjoint.  *)
(*                                                                         *)
(* Every step of a call that another actor can interleave with is an       *)
(* action: reading the clock and updating the row is one conditional       *)
(* UpdateItem, carrying a clock reading up to MaxLag old.                  *)
(***************************************************************************)
EXTENDS Integers, Sequences, FiniteSets

CONSTANTS
    Invocations,     \* calls of _publish_and_wait_ack on this party
    Cancels,         \* those made by send_cancel_command; the rest prepare
    Admissible,      \* those whose command the party accepts when it applies it
    Flaky,           \* those whose process, SSM call or reply may fail
    None,            \* no lease holder
    Lease,           \* LOCK_LEASE_SECONDS
    AcquireTimeout,  \* LOCK_ACQUIRE_TIMEOUT_SECONDS
    PrepareAck,      \* ack_timeout_s of send_prepare_command
    CancelAck,       \* ack_timeout_s of send_cancel_command
    WaitSlack,       \* what _wait_ssm waits beyond ack_timeout_s
    MaxLag,          \* age of the clock reading a conditional update carries
    MaxNow,          \* bound: the clock stops here
    MaxSeq           \* bound: sequence numbers handed out

ASSUME ConstantsAssumption ==
    /\ None \notin Invocations
    /\ Cancels \subseteq Invocations
    /\ Admissible \subseteq Invocations
    /\ Flaky \subseteq Invocations
    /\ Lease \in Nat /\ AcquireTimeout \in Nat
    /\ PrepareAck \in Nat /\ CancelAck \in Nat /\ WaitSlack \in Nat
    /\ MaxLag \in Nat /\ MaxNow \in Nat /\ MaxSeq \in Nat

VARIABLES
    now,        \* wall clock, in whole units of time
    item,       \* the party's row: seq, lock_holder, lock_expires_at
    pc,         \* where each call is
                \* (locals below are 0 where the code has none in scope)
    deadline,   \* the deadline local to _acquire_sequence or _wait_ssm
    seqOf,      \* the sequence number the call was given, 0 for none
    leaseOf,    \* the lock_expires_at the call wrote
    outcome,    \* how the call ended
    script,     \* the call's script at SSM and on the instance
    scriptEnd,  \* DEADLINE of the running script
    filler,     \* the call's gap filler at SSM
    journal,    \* commands/<seq>.json: who wrote it, and whether as filler
    applied,    \* what the pump did with 1, 2, ...: events/party<p>/<seq>.json
    fault       \* history: the faults each call met

callVars == <<pc, deadline, seqOf, leaseOf, outcome>>
instanceVars == <<script, scriptEnd, filler, journal, applied>>
vars == <<now, item, callVars, instanceVars, fault>>

Calling == {"acquire", "reserved", "fill", "wait", "release"}
PC == Calling \cup {"idle", "done", "killed"}
Outcomes == {"none", "ok", "rejected", "error"}
Faults == {"killed", "reply", "send", "fill", "poll", "ssm", "release"}

Command == [by : Invocations, filler : BOOLEAN]
Event == [by : Invocations, filler : BOOLEAN, outcome : {"event", "rejected"}]

AckTimeout(i) == IF i \in Cancels THEN CancelAck ELSE PrepareAck

\* Values of int(time.time()) that a conditional update in flight may carry.
ClockReads == {t \in 0..now : now - t <= MaxLag}

\* The pump has written the acknowledgement of slot s.
Acked(s) == s \in 1..Len(applied)

\* commands/<s>.json after the mv of a script (it replaces a file of that name).
WriteSlot(s, c) == [t \in DOMAIN journal \cup {s} |-> IF t = s THEN c ELSE journal[t]]

TypeOK ==
    /\ now \in Nat
    /\ item \in [seq : Nat, holder : Invocations \cup {None}, expires : Nat]
    /\ pc \in [Invocations -> PC]
    /\ deadline \in [Invocations -> Nat]
    /\ seqOf \in [Invocations -> Nat]
    /\ leaseOf \in [Invocations -> Nat]
    /\ outcome \in [Invocations -> Outcomes]
    /\ script \in [Invocations -> {"none", "sent", "running", "success", "failed"}]
    /\ scriptEnd \in [Invocations -> Nat]
    /\ filler \in [Invocations -> {"none", "sent", "done"}]
    /\ DOMAIN journal \subseteq Nat
    /\ \A s \in DOMAIN journal : journal[s] \in Command
    /\ applied \in Seq(Event)
    /\ fault \in [Invocations -> SUBSET Faults]

Init ==
    /\ now = 0
    /\ item = [seq |-> 0, holder |-> None, expires |-> 0]
    /\ pc = [i \in Invocations |-> "idle"]
    /\ deadline = [i \in Invocations |-> 0]
    /\ seqOf = [i \in Invocations |-> 0]
    /\ leaseOf = [i \in Invocations |-> 0]
    /\ outcome = [i \in Invocations |-> "none"]
    /\ script = [i \in Invocations |-> "none"]
    /\ scriptEnd = [i \in Invocations |-> 0]
    /\ filler = [i \in Invocations |-> "none"]
    /\ journal = << >>
    /\ applied = << >>
    /\ fault = [i \in Invocations |-> {}]
-----------------------------------------------------------------------------
(* The call: _acquire_sequence. *)

Call(i) ==
    /\ pc[i] = "idle"
    /\ pc' = [pc EXCEPT ![i] = "acquire"]
    /\ deadline' = [deadline EXCEPT ![i] = now + AcquireTimeout]
    /\ UNCHANGED <<now, item, seqOf, leaseOf, outcome, instanceVars, fault>>

\* ConditionExpression, evaluated with the :now the update carries.
LeaseFree(t) == item.holder = None \/ item.expires < t

\* The row after the UpdateExpression of call i with clock reading t.
Claimed(i, t) == [seq |-> item.seq + 1, holder |-> i, expires |-> t + Lease]

\* Mutant of Acquire: the row's counter is only bumped when the lease was free,
\* not when an expired one is taken over.
AcquireNoBumpOnTakeover(i) ==
    /\ pc[i] = "acquire"
    /\ item.seq < MaxSeq
    /\ \E t \in ClockReads :
        /\ LeaseFree(t)
        /\ item' = [Claimed(i, t) EXCEPT !.seq = IF item.holder = None \/ item.seq = 0
                                                 THEN item.seq + 1 ELSE item.seq]
        /\ leaseOf' = [leaseOf EXCEPT ![i] = t + Lease]
        /\ seqOf' = [seqOf EXCEPT ![i] = item'.seq]
    /\ pc' = [pc EXCEPT ![i] = "reserved"]
    /\ deadline' = [deadline EXCEPT ![i] = 0]
    /\ UNCHANGED <<now, outcome, instanceVars, fault>>

\* The conditional update succeeds: one call to DynamoDB takes the lease and
\* the next number.
Acquire(i) ==
    /\ pc[i] = "acquire"
    /\ item.seq < MaxSeq
    /\ \E t \in ClockReads :
        /\ LeaseFree(t)
        /\ item' = Claimed(i, t)
        /\ leaseOf' = [leaseOf EXCEPT ![i] = t + Lease]
        /\ seqOf' = [seqOf EXCEPT ![i] = item.seq + 1]
    /\ pc' = [pc EXCEPT ![i] = "reserved"]
    /\ deadline' = [deadline EXCEPT ![i] = 0]
    /\ UNCHANGED <<now, outcome, instanceVars, fault>>

\* The update is applied but its reply is lost, and the SDK sends it again: the
\* retry fails the condition on the call's own lease, so the loop goes on and
\* the number is never used.
AcquireReplyLost(i) ==
    /\ pc[i] = "acquire"
    /\ i \in Flaky
    /\ item.seq < MaxSeq
    /\ \E t \in ClockReads :
        /\ LeaseFree(t)
        /\ item' = Claimed(i, t)
        /\ leaseOf' = [leaseOf EXCEPT ![i] = t + Lease]
    /\ fault' = [fault EXCEPT ![i] = @ \cup {"reply"}]
    /\ UNCHANGED <<now, pc, deadline, seqOf, outcome, instanceVars>>

\* The condition failed and the deadline has passed: PartyControlError, raised
\* before the try block, so nothing is released.
AcquireGivesUp(i) ==
    /\ pc[i] = "acquire"
    /\ \E t \in ClockReads : ~LeaseFree(t)
    /\ now >= deadline[i]
    /\ pc' = [pc EXCEPT ![i] = "done"]
    /\ outcome' = [outcome EXCEPT ![i] = "error"]
    /\ deadline' = [deadline EXCEPT ![i] = 0]
    /\ leaseOf' = [leaseOf EXCEPT ![i] = 0]
    /\ UNCHANGED <<now, item, seqOf, instanceVars, fault>>
-----------------------------------------------------------------------------
(* The call: _publish_and_wait_ack after the lease is taken. *)

Send(i) ==
    /\ pc[i] = "reserved"
    /\ script' = [script EXCEPT ![i] = "sent"]
    /\ pc' = [pc EXCEPT ![i] = "wait"]
    /\ deadline' = [deadline EXCEPT ![i] = now + AckTimeout(i) + WaitSlack]
    /\ UNCHANGED <<now, item, seqOf, leaseOf, outcome, scriptEnd, filler,
                   journal, applied, fault>>

\* Mutant of SendRaises: the error propagates without filling the slot.
SendRaisesNoFiller(i) ==
    /\ pc[i] = "reserved"
    /\ i \in Flaky
    /\ UNCHANGED script
    /\ pc' = [pc EXCEPT ![i] = "release"]
    /\ outcome' = [outcome EXCEPT ![i] = "error"]
    /\ fault' = [fault EXCEPT ![i] = @ \cup {"send"}]
    /\ UNCHANGED <<now, item, deadline, seqOf, leaseOf, scriptEnd, filler,
                   journal, applied>>

\* _send_ssm raises.  The command may have been lost (throttled) or accepted
\* with its reply lost; the code cannot tell.
SendRaises(i) ==
    /\ pc[i] = "reserved"
    /\ i \in Flaky
    /\ \E s \in {"none", "sent"} : script' = [script EXCEPT ![i] = s]
    /\ pc' = [pc EXCEPT ![i] = "fill"]
    /\ outcome' = [outcome EXCEPT ![i] = "error"]
    /\ fault' = [fault EXCEPT ![i] = @ \cup {"send"}]
    /\ UNCHANGED <<now, item, deadline, seqOf, leaseOf, scriptEnd, filler,
                   journal, applied>>

\* _send_gap_filler: the placeholder is sent and not waited for.
SendFiller(i) ==
    /\ pc[i] = "fill"
    /\ filler' = [filler EXCEPT ![i] = "sent"]
    /\ pc' = [pc EXCEPT ![i] = "release"]
    /\ UNCHANGED <<now, item, deadline, seqOf, leaseOf, outcome, script, scriptEnd,
                   journal, applied, fault>>

\* The gap filler fails as well: the error is printed and the slot stays empty.
FillerRaises(i) ==
    /\ pc[i] = "fill"
    /\ i \in Flaky
    /\ pc' = [pc EXCEPT ![i] = "release"]
    /\ fault' = [fault EXCEPT ![i] = @ \cup {"fill"}]
    /\ UNCHANGED <<now, item, deadline, seqOf, leaseOf, outcome, instanceVars>>

\* Mutant of WaitReturns: the acknowledgement's outcome is handed on as it is.
WaitReturnsRaw(i) ==
    /\ pc[i] = "wait"
    /\ script[i] = "success"
    /\ outcome' = [outcome EXCEPT ![i] = applied[seqOf[i]].outcome]
    /\ pc' = [pc EXCEPT ![i] = "release"]
    /\ deadline' = [deadline EXCEPT ![i] = 0]
    /\ UNCHANGED <<now, item, seqOf, leaseOf, instanceVars, fault>>

\* _wait_ssm returns the script's output, the acknowledgement of the slot.
\* send_prepare_command reads its outcome, send_cancel_command ignores it.
WaitReturns(i) ==
    /\ pc[i] = "wait"
    /\ script[i] = "success"
    /\ outcome' = [outcome EXCEPT ![i] =
                     IF i \in Cancels \/ applied[seqOf[i]].outcome = "event"
                     THEN "ok" ELSE "rejected"]
    /\ pc' = [pc EXCEPT ![i] = "release"]
    /\ deadline' = [deadline EXCEPT ![i] = 0]
    /\ UNCHANGED <<now, item, seqOf, leaseOf, instanceVars, fault>>

\* Mutant of WaitRaises: the error leaves the function past the finally block.
WaitRaisesOut(i) ==
    /\ pc[i] = "wait"
    /\ \/ script[i] = "failed"
       \/ script[i] \in {"sent", "running"} /\ now >= deadline[i]
    /\ outcome' = [outcome EXCEPT ![i] = "error"]
    /\ pc' = [pc EXCEPT ![i] = "done"]
    /\ deadline' = [deadline EXCEPT ![i] = 0]
    /\ UNCHANGED <<now, item, seqOf, leaseOf, instanceVars, fault>>

\* _wait_ssm raises: the script failed, or it is still not done at the deadline.
WaitRaises(i) ==
    /\ pc[i] = "wait"
    /\ \/ script[i] = "failed"
       \/ script[i] \in {"sent", "running"} /\ now >= deadline[i]
    /\ outcome' = [outcome EXCEPT ![i] = "error"]
    /\ pc' = [pc EXCEPT ![i] = "release"]
    /\ deadline' = [deadline EXCEPT ![i] = 0]
    /\ UNCHANGED <<now, item, seqOf, leaseOf, instanceVars, fault>>

\* get_command_invocation raises another error than InvocationDoesNotExist.
PollRaises(i) ==
    /\ pc[i] = "wait"
    /\ i \in Flaky
    /\ outcome' = [outcome EXCEPT ![i] = "error"]
    /\ pc' = [pc EXCEPT ![i] = "release"]
    /\ deadline' = [deadline EXCEPT ![i] = 0]
    /\ fault' = [fault EXCEPT ![i] = @ \cup {"poll"}]
    /\ UNCHANGED <<now, item, seqOf, leaseOf, instanceVars>>

\* Mutant of ReleaseSequence: the REMOVE carries no ConditionExpression.
ReleaseAnyone(i) ==
    /\ pc[i] = "release"
    /\ item' = [item EXCEPT !.holder = None, !.expires = 0]
    /\ pc' = [pc EXCEPT ![i] = "done"]
    /\ leaseOf' = [leaseOf EXCEPT ![i] = 0]
    /\ UNCHANGED <<now, deadline, seqOf, outcome, instanceVars, fault>>

\* The finally block: REMOVE if the lease is still the call's own.
ReleaseSequence(i) ==
    /\ pc[i] = "release"
    /\ item' = IF item.holder = i THEN [item EXCEPT !.holder = None, !.expires = 0]
                                  ELSE item
    /\ pc' = [pc EXCEPT ![i] = "done"]
    /\ leaseOf' = [leaseOf EXCEPT ![i] = 0]
    /\ UNCHANGED <<now, deadline, seqOf, outcome, instanceVars, fault>>

\* update_item raises another error than the failed condition, the lease removed or
\* not, and the error replaces whatever the work returned.
ReleaseRaises(i) ==
    /\ pc[i] = "release"
    /\ i \in Flaky
    /\ \/ UNCHANGED item
       \/ item.holder = i /\ item' = [item EXCEPT !.holder = None, !.expires = 0]
    /\ outcome' = [outcome EXCEPT ![i] = "error"]
    /\ pc' = [pc EXCEPT ![i] = "done"]
    /\ leaseOf' = [leaseOf EXCEPT ![i] = 0]
    /\ fault' = [fault EXCEPT ![i] = @ \cup {"release"}]
    /\ UNCHANGED <<now, deadline, seqOf, instanceVars>>

\* The Lambda around the call reaches its timeout, or its sandbox dies.
Killed(i) ==
    /\ pc[i] \in Calling
    /\ i \in Flaky
    /\ pc' = [pc EXCEPT ![i] = "killed"]
    /\ fault' = [fault EXCEPT ![i] = @ \cup {"killed"}]
    /\ deadline' = [deadline EXCEPT ![i] = 0]
    /\ leaseOf' = [leaseOf EXCEPT ![i] = 0]
    /\ UNCHANGED <<now, item, seqOf, outcome, instanceVars>>
-----------------------------------------------------------------------------
(* The instance: SSM (external, unordered), the two scripts, the pump. *)

\* Mutant of ScriptStarts: the script numbers its file by the events it finds.
ScriptStartsAtNext(i) ==
    /\ script[i] = "sent"
    /\ script' = [script EXCEPT ![i] = "running"]
    /\ scriptEnd' = [scriptEnd EXCEPT ![i] = now + AckTimeout(i)]
    /\ journal' = WriteSlot(Len(applied) + 1, [by |-> i, filler |-> FALSE])
    /\ UNCHANGED <<now, item, callVars, filler, applied, fault>>

\* The script starts and its mv publishes the command.
ScriptStarts(i) ==
    /\ script[i] = "sent"
    /\ script' = [script EXCEPT ![i] = "running"]
    /\ scriptEnd' = [scriptEnd EXCEPT ![i] = now + AckTimeout(i)]
    /\ journal' = WriteSlot(seqOf[i], [by |-> i, filler |-> FALSE])
    /\ UNCHANGED <<now, item, callVars, filler, applied, fault>>

ScriptSeesAck(i) ==
    /\ script[i] = "running"
    /\ Acked(seqOf[i])
    /\ script' = [script EXCEPT ![i] = "success"]
    /\ scriptEnd' = [scriptEnd EXCEPT ![i] = 0]
    /\ UNCHANGED <<now, item, callVars, filler, journal, applied, fault>>

\* exit 3
ScriptTimesOut(i) ==
    /\ script[i] = "running"
    /\ ~Acked(seqOf[i])
    /\ now >= scriptEnd[i]
    /\ script' = [script EXCEPT ![i] = "failed"]
    /\ scriptEnd' = [scriptEnd EXCEPT ![i] = 0]
    /\ UNCHANGED <<now, item, callVars, filler, journal, applied, fault>>

\* SSM gives up on a command it never started (Cancelled, TimedOut).
ScriptUndelivered(i) ==
    /\ script[i] = "sent"
    /\ i \in Flaky
    /\ script' = [script EXCEPT ![i] = "failed"]
    /\ fault' = [fault EXCEPT ![i] = @ \cup {"ssm"}]
    /\ UNCHANGED <<now, item, callVars, scriptEnd, filler, journal, applied>>

FillerStarts(i) ==
    /\ filler[i] = "sent"
    /\ filler' = [filler EXCEPT ![i] = "done"]
    /\ journal' = WriteSlot(seqOf[i], [by |-> i, filler |-> TRUE])
    /\ UNCHANGED <<now, item, callVars, script, scriptEnd, applied, fault>>

\* What the pump makes of a command; a placeholder cancels an unknown execution.
EventOf(c) == [by |-> c.by, filler |-> c.filler,
               outcome |-> IF ~c.filler /\ c.by \in Admissible THEN "event"
                                                              ELSE "rejected"]

\* poll_one: the pump waits for the file of exactly the next number, applies the
\* command and writes its event.
PumpPolls ==
    LET next == Len(applied) + 1 IN
    /\ next \in DOMAIN journal
    /\ applied' = Append(applied, EventOf(journal[next]))
    /\ UNCHANGED <<now, item, callVars, script, scriptEnd, filler, journal, fault>>

Tick == /\ now < MaxNow
        /\ now' = now + 1
        /\ UNCHANGED <<item, callVars, instanceVars, fault>>
-----------------------------------------------------------------------------
CallStep(i) == \/ Acquire(i) \/ AcquireGivesUp(i)
               \/ Send(i) \/ SendFiller(i)
               \/ WaitReturns(i) \/ WaitRaises(i)
               \/ ReleaseSequence(i)

FaultStep(i) == \/ AcquireReplyLost(i) \/ SendRaises(i) \/ FillerRaises(i)
                \/ PollRaises(i) \/ ReleaseRaises(i) \/ Killed(i) \/ ScriptUndelivered(i)

InstanceStep(i) == ScriptStarts(i) \/ ScriptSeesAck(i) \/ ScriptTimesOut(i)
                   \/ FillerStarts(i)

Next == \/ \E i \in Invocations : Call(i) \/ CallStep(i) \/ FaultStep(i)
                                  \/ InstanceStep(i)
        \/ PumpPolls
        \/ Tick

Spec == Init /\ [][Next]_vars

\* A running process takes its next step, SSM delivers what it accepted and did
\* not give up on, and the pump keeps polling.  No call has to be made, no fault
\* has to happen.
Fairness == /\ \A i \in Invocations : WF_vars(CallStep(i)) /\ WF_vars(InstanceStep(i))
            /\ WF_vars(PumpPolls)
            /\ WF_vars(Tick)

FairSpec == Spec /\ Fairness
-----------------------------------------------------------------------------
(* Properties *)

\* The call is between taking the lease and releasing it.
Working(i) == pc[i] \in {"reserved", "fill", "wait", "release"}

\* While a call works inside the lease it wrote, no other call does: the late
\* release of an expired holder and the takeover of an expired lease never give
\* two calls a live lease at once (_acquire_sequence, _release_sequence).
OneLiveLease ==
    \A i, j \in Invocations :
        Working(i) /\ Working(j) /\ now <= leaseOf[i] /\ now <= leaseOf[j] => i = j

\* The row names a call as lease holder only while it works, however it is left: by
\* an answer, a rejection, a failed send, poll or filler.  Only a call that was killed,
\* never saw DynamoDB's reply or whose release itself raised makes the others wait for
\* its lease to end.
LeaseIsGivenBack ==
    \A i \in Invocations :
        item.holder = i => Working(i) \/ fault[i] \cap {"killed", "reply", "release"} # {}

\* A call that reports success has had its own command applied, at the number
\* it reserved, and not the placeholder or another call's command.
AckIsOwn ==
    \A i \in Invocations :
        outcome[i] \in {"ok", "rejected"} =>
            /\ Acked(seqOf[i])
            /\ applied[seqOf[i]].by = i
            /\ ~applied[seqOf[i]].filler
            /\ i \notin Cancels =>
                 (outcome[i] = "ok" <=> applied[seqOf[i]].outcome = "event")

\* The pump applies at each number what the call that reserved it published, so
\* no command is applied twice and none at a number that belongs to another.
AppliedAtOwnSlot ==
    \A s \in 1..Len(applied) : seqOf[applied[s].by] = s

\* The inductive invariant of OneLiveLease, AckIsOwn and AppliedAtOwnSlot.  Numbered: who has
\* which number.  Stages: what a call can have sent and reported at each stage.
\* Published: command and event files belong to the holders of their numbers.
\* Leases: the row remembers the only lease that can still be live.
Numbered ==
    \A i \in Invocations :
        /\ seqOf[i] <= item.seq
        /\ \A j \in Invocations : seqOf[i] = seqOf[j] /\ seqOf[i] # 0 => i = j
        /\ pc[i] \in {"idle", "acquire"} => seqOf[i] = 0
        /\ Working(i) => seqOf[i] # 0

Stages ==
    \A i \in Invocations :
        /\ script[i] # "none" => seqOf[i] # 0
        /\ filler[i] # "none" => seqOf[i] # 0 /\ outcome[i] = "error"
        /\ pc[i] \in {"idle", "acquire", "reserved", "wait"} =>
             filler[i] = "none" /\ outcome[i] = "none"
        /\ pc[i] = "fill" => outcome[i] = "error"

OwnSlot(s, c) == s # 0 /\ seqOf[c.by] = s /\ (c.filler => filler[c.by] # "none")

Published ==
    /\ \A s \in DOMAIN journal : OwnSlot(s, journal[s])
    /\ \A s \in 1..Len(applied) : OwnSlot(s, applied[s])
    /\ \A i \in Invocations : script[i] = "success" => Acked(seqOf[i])

Leases ==
    \A i \in Invocations :
        Working(i) => IF item.holder = i THEN leaseOf[i] = item.expires
                                         ELSE leaseOf[i] < now

IInv == TypeOK /\ Numbered /\ Stages /\ Published /\ Leases /\ AckIsOwn

\* Number s will never have a command file: nobody holds it any more and nothing
\* on its way to the instance carries it.
Abandoned(s) ==
    /\ s \in 1..item.seq
    /\ s \notin DOMAIN journal
    /\ \A i \in Invocations :
         seqOf[i] = s => /\ pc[i] \notin {"reserved", "fill"}
                         /\ script[i] # "sent"
                         /\ filler[i] # "sent"

\* Faults after which a command or a filler is still on its way to the number.
Harmless == {"send", "poll", "release"}

\* "Wedging forever" (the docstring of _send_gap_filler) takes more than a failed
\* send, poll or release: some call was killed, lost DynamoDB's reply, was dropped by
\* SSM, or its gap filler failed too.
WedgeNeedsSecondFault ==
    \A s \in 1..item.seq :
        Abandoned(s) => \E i \in Invocations : fault[i] \ Harmless # {}

\* Liveness: as long as sends, polls and releases are all that fails, the party always
\* catches up with the numbers handed out, however the calls interleave.
PartyCatchesUp ==
    []<>(\/ Len(applied) = item.seq
         \/ \E i \in Invocations : fault[i] \ Harmless # {})

\* The control plane implements the numbered log of CommandLog.
AppliedBy == [s \in 1..Len(applied) |-> applied[s].by]

Log == INSTANCE CommandLog
         WITH Callers <- Invocations, issued <- item.seq, slot <- seqOf,
              done <- AppliedBy

LogImplemented == Log!LogSpec

\* The module docstring: the lease means "no other concurrent Lambda invocation
\* can interleave a delivery to this party" (party_control.py lines 14-16).
Delivering(i) == pc[i] = "wait" /\ script[i] \in {"sent", "running"}
NoInterleavedDelivery ==
    \A i, j \in Invocations : Delivering(i) /\ Delivering(j) => i = j
=============================================================================
