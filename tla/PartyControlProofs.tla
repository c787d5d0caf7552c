------------------------- MODULE PartyControlProofs -------------------------
(***************************************************************************)
(* Proofs about PartyControl for every set of calls, every choice of       *)
(* faults and every duration: type correctness, the single live lease,     *)
(* the lease that is given back, the ownership of sequence numbers and     *)
(* acknowledgements, the wedge that a failed send alone cannot cause, and  *)
(* the refinement of CommandLog.                                           *)
(***************************************************************************)
EXTENDS PartyControl, TLAPS

LEMMA InitTypes == Init => TypeOK
  BY ConstantsAssumption DEF ConstantsAssumption, Init, TypeOK, PC, Calling, Outcomes

\* Writing a command file keeps the journal a function into commands.
LEMMA WriteSlotTypes ==
  ASSUME DOMAIN journal \subseteq Nat,
         \A s \in DOMAIN journal : journal[s] \in Command,
         NEW n \in Nat, NEW c \in Command,
         journal' = WriteSlot(n, c)
  PROVE  /\ DOMAIN journal' \subseteq Nat
         /\ \A s \in DOMAIN journal' : journal'[s] \in Command
  BY DEF WriteSlot

LEMMA EventOfTypes ==
  ASSUME NEW c \in Command
  PROVE  EventOf(c) \in Event
  BY DEF EventOf, Command, Event

LEMMA ClockReadsTypes ==
  ASSUME now \in Nat, NEW t \in ClockReads
  PROVE  t \in Nat /\ t <= now
  BY DEF ClockReads

LEMMA AckTimeoutTypes == \A i \in Invocations : AckTimeout(i) \in Nat
  BY ConstantsAssumption DEF ConstantsAssumption, AckTimeout

\* The row after a conditional update is a row.
LEMMA ClaimedTypes ==
  ASSUME TypeOK, NEW i \in Invocations, NEW t \in ClockReads
  PROVE  /\ Claimed(i, t) \in [seq : Nat, holder : Invocations \cup {None}, expires : Nat]
         /\ t + Lease \in Nat
         /\ item.seq + 1 \in Nat
  <1>1. t \in Nat /\ now \in Nat /\ item.seq \in Nat /\ Lease \in Nat
    BY ClockReadsTypes, ConstantsAssumption DEF ConstantsAssumption, TypeOK
  <1>2. QED
    BY <1>1 DEF Claimed

LEMMA StepTypes == TypeOK /\ [Next]_vars => TypeOK'
  <1> SUFFICES ASSUME TypeOK, [Next]_vars
               PROVE  TypeOK'
    OBVIOUS
  <1> USE ConstantsAssumption DEF ConstantsAssumption, TypeOK, PC, Calling, Outcomes, callVars, instanceVars
  <1>1. ASSUME NEW i \in Invocations, Call(i)
        PROVE  TypeOK'
    BY SMTT(30), <1>1 DEF Call
  <1>2. ASSUME NEW i \in Invocations, Acquire(i)
        PROVE  TypeOK'
    <2>1. PICK t \in ClockReads :
            /\ item' = Claimed(i, t)
            /\ leaseOf' = [leaseOf EXCEPT ![i] = t + Lease]
            /\ seqOf' = [seqOf EXCEPT ![i] = item.seq + 1]
      BY <1>2 DEF Acquire
    <2>2. QED
      BY <1>2, <2>1, ClaimedTypes DEF Acquire
  <1>3. ASSUME NEW i \in Invocations, AcquireReplyLost(i)
        PROVE  TypeOK'
    <2>1. PICK t \in ClockReads :
            /\ item' = Claimed(i, t)
            /\ leaseOf' = [leaseOf EXCEPT ![i] = t + Lease]
      BY <1>3 DEF AcquireReplyLost
    <2>2. QED
      BY <1>3, <2>1, ClaimedTypes DEF AcquireReplyLost, Faults
  <1>4. ASSUME NEW i \in Invocations, AcquireGivesUp(i)
        PROVE  TypeOK'
    BY <1>4 DEF AcquireGivesUp
  <1>5. ASSUME NEW i \in Invocations, Send(i)
        PROVE  TypeOK'
    BY <1>5, SMTT(30) DEF Send, AckTimeout
  <1>6. ASSUME NEW i \in Invocations, SendRaises(i)
        PROVE  TypeOK'
    BY <1>6 DEF SendRaises, Faults
  <1>7. ASSUME NEW i \in Invocations, SendFiller(i)
        PROVE  TypeOK'
    BY <1>7 DEF SendFiller
  <1>8. ASSUME NEW i \in Invocations, FillerRaises(i)
        PROVE  TypeOK'
    BY <1>8 DEF FillerRaises, Faults
  <1>9. ASSUME NEW i \in Invocations, WaitReturns(i)
        PROVE  TypeOK'
    BY <1>9 DEF WaitReturns
  <1>10. ASSUME NEW i \in Invocations, WaitRaises(i)
         PROVE  TypeOK'
    BY <1>10 DEF WaitRaises
  <1>11. ASSUME NEW i \in Invocations, ReleaseSequence(i)
         PROVE  TypeOK'
    BY <1>11 DEF ReleaseSequence
  <1>12. ASSUME NEW i \in Invocations, Killed(i)
         PROVE  TypeOK'
    BY <1>12 DEF Killed, Faults
  <1>12a. ASSUME NEW i \in Invocations, PollRaises(i)
          PROVE  TypeOK'
    BY <1>12a DEF PollRaises, Faults
  <1>12b. ASSUME NEW i \in Invocations, ReleaseRaises(i)
          PROVE  TypeOK'
    <2>1. item' \in [seq : Nat, holder : Invocations \cup {None}, expires : Nat]
      <3>1. item' = item \/ item' = [item EXCEPT !.holder = None, !.expires = 0]
        BY <1>12b DEF ReleaseRaises
      <3>2. [item EXCEPT !.holder = None, !.expires = 0]
              \in [seq : Nat, holder : Invocations \cup {None}, expires : Nat]
        OBVIOUS
      <3>3. QED
        BY <3>1, <3>2
    <2>2. QED
      BY <1>12b, <2>1 DEF ReleaseRaises, Faults
  <1>13. ASSUME NEW i \in Invocations, ScriptStarts(i)
         PROVE  TypeOK'
    <2>1. [by |-> i, filler |-> FALSE] \in Command
      BY DEF Command
    <2>2. /\ DOMAIN journal' \subseteq Nat
          /\ \A s \in DOMAIN journal' : journal'[s] \in Command
      BY <1>13, <2>1, WriteSlotTypes DEF ScriptStarts
    <2>3. QED
      <3>1. now + AckTimeout(i) \in Nat
        BY AckTimeoutTypes
      <3>2. scriptEnd' \in [Invocations -> Nat]
        BY <1>13, <3>1 DEF ScriptStarts
      <3>3. QED
        BY <1>13, <2>2, <3>2 DEF ScriptStarts
  <1>14. ASSUME NEW i \in Invocations, ScriptSeesAck(i)
         PROVE  TypeOK'
    BY <1>14 DEF ScriptSeesAck
  <1>15. ASSUME NEW i \in Invocations, ScriptTimesOut(i)
         PROVE  TypeOK'
    BY <1>15 DEF ScriptTimesOut
  <1>16. ASSUME NEW i \in Invocations, ScriptUndelivered(i)
         PROVE  TypeOK'
    BY <1>16 DEF ScriptUndelivered, Faults
  <1>17. ASSUME NEW i \in Invocations, FillerStarts(i)
         PROVE  TypeOK'
    <2>1. [by |-> i, filler |-> TRUE] \in Command
      BY DEF Command
    <2>2. /\ DOMAIN journal' \subseteq Nat
          /\ \A s \in DOMAIN journal' : journal'[s] \in Command
      BY <1>17, <2>1, WriteSlotTypes DEF FillerStarts
    <2>3. QED
      BY <1>17, <2>2 DEF FillerStarts
  <1>18. CASE PumpPolls
    <2>1. EventOf(journal[Len(applied) + 1]) \in Event
      BY <1>18, EventOfTypes DEF PumpPolls
    <2>2. QED
      BY <1>18, <2>1 DEF PumpPolls
  <1>19. CASE Tick
    BY <1>19 DEF Tick
  <1>20. CASE UNCHANGED vars
    BY <1>20 DEF vars
  <1>21. QED
    BY <1>1, <1>2, <1>3, <1>4, <1>5, <1>6, <1>7, <1>8, <1>9, <1>10, <1>11, <1>12,
       <1>12a, <1>12b, <1>13, <1>14, <1>15, <1>16, <1>17, <1>18, <1>19, <1>20
       DEF Next, CallStep, FaultStep, InstanceStep

\* Every variable keeps its type, for every set of calls and every duration.
THEOREM TypeCorrect == Spec => []TypeOK
  BY InitTypes, StepTypes, PTL DEF Spec

-----------------------------------------------------------------------------
(* Who has which number. *)

LEMMA NumberedStep == TypeOK /\ Numbered /\ [Next]_vars => Numbered'
  <1> SUFFICES ASSUME TypeOK, Numbered, [Next]_vars
               PROVE  Numbered'
    OBVIOUS
  <1> USE DEF TypeOK, Numbered, Working, callVars, instanceVars
  <1>1. ASSUME NEW i \in Invocations, Call(i)
        PROVE  Numbered'
    BY <1>1 DEF Call
  <1>2. ASSUME NEW i \in Invocations, Acquire(i)
        PROVE  Numbered'
    BY <1>2, SMTT(30) DEF Acquire, Claimed
  <1>3. ASSUME NEW i \in Invocations, AcquireReplyLost(i)
        PROVE  Numbered'
    BY <1>3 DEF AcquireReplyLost, Claimed
  <1>4. ASSUME NEW i \in Invocations, AcquireGivesUp(i)
        PROVE  Numbered'
    BY <1>4 DEF AcquireGivesUp
  <1>5. ASSUME NEW i \in Invocations, Send(i)
        PROVE  Numbered'
    BY <1>5 DEF Send
  <1>6. ASSUME NEW i \in Invocations, SendRaises(i)
        PROVE  Numbered'
    BY <1>6 DEF SendRaises
  <1>7. ASSUME NEW i \in Invocations, SendFiller(i)
        PROVE  Numbered'
    BY <1>7 DEF SendFiller
  <1>8. ASSUME NEW i \in Invocations, FillerRaises(i)
        PROVE  Numbered'
    BY <1>8 DEF FillerRaises
  <1>9. ASSUME NEW i \in Invocations, WaitReturns(i)
        PROVE  Numbered'
    BY <1>9 DEF WaitReturns
  <1>10. ASSUME NEW i \in Invocations, WaitRaises(i)
         PROVE  Numbered'
    BY <1>10 DEF WaitRaises
  <1>11. ASSUME NEW i \in Invocations, ReleaseSequence(i)
         PROVE  Numbered'
    BY <1>11 DEF ReleaseSequence
  <1>12. ASSUME NEW i \in Invocations, Killed(i)
         PROVE  Numbered'
    BY <1>12 DEF Killed
  <1>12a. ASSUME NEW i \in Invocations, PollRaises(i)
          PROVE  Numbered'
    BY <1>12a DEF PollRaises
  <1>12b. ASSUME NEW i \in Invocations, ReleaseRaises(i)
          PROVE  Numbered'
    BY <1>12b DEF ReleaseRaises
  <1>13. ASSUME NEW i \in Invocations, ScriptStarts(i)
         PROVE  Numbered'
    BY <1>13 DEF ScriptStarts
  <1>14. ASSUME NEW i \in Invocations, ScriptSeesAck(i)
         PROVE  Numbered'
    BY <1>14 DEF ScriptSeesAck
  <1>15. ASSUME NEW i \in Invocations, ScriptTimesOut(i)
         PROVE  Numbered'
    BY <1>15 DEF ScriptTimesOut
  <1>16. ASSUME NEW i \in Invocations, ScriptUndelivered(i)
         PROVE  Numbered'
    BY <1>16 DEF ScriptUndelivered
  <1>17. ASSUME NEW i \in Invocations, FillerStarts(i)
         PROVE  Numbered'
    BY <1>17 DEF FillerStarts
  <1>18. CASE PumpPolls
    BY <1>18 DEF PumpPolls
  <1>19. CASE Tick
    BY <1>19 DEF Tick
  <1>20. CASE UNCHANGED vars
    BY <1>20 DEF vars
  <1>21. QED
    BY <1>1, <1>2, <1>3, <1>4, <1>5, <1>6, <1>7, <1>8, <1>9, <1>10,
       <1>11, <1>12, <1>12a, <1>12b, <1>13, <1>14, <1>15, <1>16, <1>17, <1>18, <1>19, <1>20
       DEF Next, CallStep, FaultStep, InstanceStep

(* What a call can have sent and reported at each stage. *)

LEMMA StagesStep == TypeOK /\ Numbered /\ Stages /\ [Next]_vars => Stages'
  <1> SUFFICES ASSUME TypeOK, Numbered, Stages, [Next]_vars
               PROVE  Stages'
    OBVIOUS
  <1> USE DEF TypeOK, Stages, Numbered, Working, callVars, instanceVars
  <1>1. ASSUME NEW i \in Invocations, Call(i)
        PROVE  Stages'
    BY <1>1 DEF Call
  <1>2. ASSUME NEW i \in Invocations, Acquire(i)
        PROVE  Stages'
    BY SMTT(30), <1>2 DEF Acquire
  <1>3. ASSUME NEW i \in Invocations, AcquireReplyLost(i)
        PROVE  Stages'
    BY <1>3 DEF AcquireReplyLost
  <1>4. ASSUME NEW i \in Invocations, AcquireGivesUp(i)
        PROVE  Stages'
    BY <1>4 DEF AcquireGivesUp
  <1>5. ASSUME NEW i \in Invocations, Send(i)
        PROVE  Stages'
    BY <1>5 DEF Send
  <1>6. ASSUME NEW i \in Invocations, SendRaises(i)
        PROVE  Stages'
    BY SMTT(30), <1>6 DEF SendRaises
  <1>7. ASSUME NEW i \in Invocations, SendFiller(i)
        PROVE  Stages'
    BY <1>7 DEF SendFiller
  <1>8. ASSUME NEW i \in Invocations, FillerRaises(i)
        PROVE  Stages'
    BY <1>8 DEF FillerRaises
  <1>9. ASSUME NEW i \in Invocations, WaitReturns(i)
        PROVE  Stages'
    BY <1>9 DEF WaitReturns
  <1>10. ASSUME NEW i \in Invocations, WaitRaises(i)
         PROVE  Stages'
    BY <1>10 DEF WaitRaises
  <1>11. ASSUME NEW i \in Invocations, ReleaseSequence(i)
         PROVE  Stages'
    BY <1>11 DEF ReleaseSequence
  <1>12. ASSUME NEW i \in Invocations, Killed(i)
         PROVE  Stages'
    BY <1>12 DEF Killed
  <1>12a. ASSUME NEW i \in Invocations, PollRaises(i)
          PROVE  Stages'
    BY <1>12a DEF PollRaises
  <1>12b. ASSUME NEW i \in Invocations, ReleaseRaises(i)
          PROVE  Stages'
    BY <1>12b DEF ReleaseRaises
  <1>13. ASSUME NEW i \in Invocations, ScriptStarts(i)
         PROVE  Stages'
    BY <1>13 DEF ScriptStarts
  <1>14. ASSUME NEW i \in Invocations, ScriptSeesAck(i)
         PROVE  Stages'
    BY <1>14 DEF ScriptSeesAck
  <1>15. ASSUME NEW i \in Invocations, ScriptTimesOut(i)
         PROVE  Stages'
    BY <1>15 DEF ScriptTimesOut
  <1>16. ASSUME NEW i \in Invocations, ScriptUndelivered(i)
         PROVE  Stages'
    BY <1>16 DEF ScriptUndelivered
  <1>17. ASSUME NEW i \in Invocations, FillerStarts(i)
         PROVE  Stages'
    BY <1>17 DEF FillerStarts
  <1>18. CASE PumpPolls
    BY <1>18 DEF PumpPolls
  <1>19. CASE Tick
    BY <1>19 DEF Tick
  <1>20. CASE UNCHANGED vars
    BY <1>20 DEF vars
  <1>21. QED
    BY <1>1, <1>2, <1>3, <1>4, <1>5, <1>6, <1>7, <1>8, <1>9, <1>10,
       <1>11, <1>12, <1>12a, <1>12b, <1>13, <1>14, <1>15, <1>16, <1>17, <1>18, <1>19, <1>20
       DEF Next, CallStep, FaultStep, InstanceStep

(* The row remembers the only lease that can still be live. *)

LEMMA LeasesStep == TypeOK /\ Leases /\ [Next]_vars => Leases'
  <1> SUFFICES ASSUME TypeOK, Leases, [Next]_vars
               PROVE  Leases'
    OBVIOUS
  <1> USE DEF TypeOK, Leases, Working, callVars, instanceVars
  <1>1. ASSUME NEW i \in Invocations, Call(i)
        PROVE  Leases'
    BY <1>1 DEF Call
  <1>2. ASSUME NEW i \in Invocations, Acquire(i)
        PROVE  Leases'
    <2>1. PICK t \in ClockReads :
            /\ item.holder = None \/ item.expires < t
            /\ item' = Claimed(i, t)
            /\ leaseOf' = [leaseOf EXCEPT ![i] = t + Lease]
      BY <1>2 DEF Acquire, LeaseFree
    <2>2. t \in Nat /\ t <= now /\ now' = now
      BY <1>2, ClockReadsTypes DEF Acquire
    <2>3. item'.holder = i /\ item'.expires = t + Lease
      BY <2>1 DEF Claimed
    <2>4. ASSUME NEW j \in Invocations, Working(j)'
          PROVE  IF item'.holder = j THEN leaseOf'[j] = item'.expires
                                     ELSE leaseOf'[j] < now'
      <3>1. CASE j = i
        BY <2>1, <2>3, <3>1
      <3>2. CASE j # i
        <4>1. Working(j) /\ leaseOf'[j] = leaseOf[j] /\ item'.holder # j
          BY <1>2, <2>1, <2>3, <2>4, <3>2 DEF Acquire
        <4>2. leaseOf[j] < now
          <5>1. CASE item.holder = j
            <6>1. item.expires < t
              BY <2>1, <5>1, ConstantsAssumption DEF ConstantsAssumption
            <6>2. leaseOf[j] = item.expires
              BY <4>1, <5>1
            <6>3. QED
              BY <2>2, <6>1, <6>2
          <5>2. CASE item.holder # j
            BY <4>1, <5>2
          <5>3. QED
            BY <5>1, <5>2
        <4>3. QED
          BY <2>2, <4>1, <4>2
      <3>3. QED
        BY <3>1, <3>2
    <2>5. QED
      BY <2>4
  <1>3. ASSUME NEW i \in Invocations, AcquireReplyLost(i)
        PROVE  Leases'
    <2>1. PICK t \in ClockReads :
            /\ item.holder = None \/ item.expires < t
            /\ item' = Claimed(i, t)
            /\ leaseOf' = [leaseOf EXCEPT ![i] = t + Lease]
      BY <1>3 DEF AcquireReplyLost, LeaseFree
    <2>2. t \in Nat /\ t <= now /\ now' = now
      BY <1>3, ClockReadsTypes DEF AcquireReplyLost
    <2>3. item'.holder = i
      BY <2>1 DEF Claimed
    <2>4. ASSUME NEW j \in Invocations, Working(j)'
          PROVE  item'.holder # j /\ leaseOf'[j] < now'
      <3>1. Working(j) /\ j # i /\ leaseOf'[j] = leaseOf[j]
        BY <1>3, <2>1, <2>4 DEF AcquireReplyLost
      <3>2. leaseOf[j] < now
        <4>1. CASE item.holder = j
          <5>1. item.expires < t
            BY <2>1, <4>1, ConstantsAssumption DEF ConstantsAssumption
          <5>2. leaseOf[j] = item.expires
            BY <3>1, <4>1
          <5>3. QED
            BY <2>2, <5>1, <5>2
        <4>2. CASE item.holder # j
          BY <3>1, <4>2
        <4>3. QED
          BY <4>1, <4>2
      <3>3. item'.holder # j
        BY <2>3, <3>1
      <3>4. QED
        BY <2>2, <3>1, <3>2, <3>3
    <2>5. QED
      BY <2>4
  <1>4. ASSUME NEW i \in Invocations, AcquireGivesUp(i)
        PROVE  Leases'
    BY <1>4 DEF AcquireGivesUp
  <1>5. ASSUME NEW i \in Invocations, Send(i)
        PROVE  Leases'
    BY <1>5 DEF Send
  <1>6. ASSUME NEW i \in Invocations, SendRaises(i)
        PROVE  Leases'
    BY <1>6 DEF SendRaises
  <1>7. ASSUME NEW i \in Invocations, SendFiller(i)
        PROVE  Leases'
    BY <1>7 DEF SendFiller
  <1>8. ASSUME NEW i \in Invocations, FillerRaises(i)
        PROVE  Leases'
    BY <1>8 DEF FillerRaises
  <1>9. ASSUME NEW i \in Invocations, WaitReturns(i)
        PROVE  Leases'
    BY <1>9 DEF WaitReturns
  <1>10. ASSUME NEW i \in Invocations, WaitRaises(i)
         PROVE  Leases'
    BY <1>10 DEF WaitRaises
  <1>11. ASSUME NEW i \in Invocations, ReleaseSequence(i)
         PROVE  Leases'
    BY <1>11, ConstantsAssumption DEF ReleaseSequence, ConstantsAssumption
  <1>12. ASSUME NEW i \in Invocations, Killed(i)
         PROVE  Leases'
    BY <1>12 DEF Killed
  <1>12a. ASSUME NEW i \in Invocations, PollRaises(i)
          PROVE  Leases'
    BY <1>12a DEF PollRaises
  <1>12b. ASSUME NEW i \in Invocations, ReleaseRaises(i)
          PROVE  Leases'
    BY <1>12b, ConstantsAssumption DEF ReleaseRaises, ConstantsAssumption
  <1>13. ASSUME NEW i \in Invocations, ScriptStarts(i)
         PROVE  Leases'
    BY <1>13 DEF ScriptStarts
  <1>14. ASSUME NEW i \in Invocations, ScriptSeesAck(i)
         PROVE  Leases'
    BY <1>14 DEF ScriptSeesAck
  <1>15. ASSUME NEW i \in Invocations, ScriptTimesOut(i)
         PROVE  Leases'
    BY <1>15 DEF ScriptTimesOut
  <1>16. ASSUME NEW i \in Invocations, ScriptUndelivered(i)
         PROVE  Leases'
    BY <1>16 DEF ScriptUndelivered
  <1>17. ASSUME NEW i \in Invocations, FillerStarts(i)
         PROVE  Leases'
    BY <1>17 DEF FillerStarts
  <1>18. CASE PumpPolls
    BY <1>18 DEF PumpPolls
  <1>19. CASE Tick
    BY <1>19 DEF Tick
  <1>20. CASE UNCHANGED vars
    BY <1>20 DEF vars
  <1>21. QED
    BY <1>1, <1>2, <1>3, <1>4, <1>5, <1>6, <1>7, <1>8, <1>9, <1>10,
       <1>11, <1>12, <1>12a, <1>12b, <1>13, <1>14, <1>15, <1>16, <1>17, <1>18, <1>19, <1>20
       DEF Next, CallStep, FaultStep, InstanceStep

(* Command and event files belong to the holders of their numbers. *)

LEMMA AppliedByTypes ==
  ASSUME applied \in Seq(Event)
  PROVE  \A s \in 1..Len(applied) : applied[s].by \in Invocations
  <1>1. \A s \in 1..Len(applied) : applied[s] \in Event
    OBVIOUS
  <1>2. QED
    BY <1>1 DEF Event

\* OwnSlot for a command c of the next state.
OwnSlotNext(s, c) == s # 0 /\ seqOf'[c.by] = s /\ (c.filler => filler'[c.by] # "none")

\* A step that touches no file and keeps the holders keeps Published.
LEMMA PublishedFrame ==
  ASSUME TypeOK, Published, UNCHANGED <<seqOf, filler, script, journal, applied>>
  PROVE  Published'
  BY DEF Published, OwnSlot, Acked

\* So does one that only gives a call without a number its first one, or moves
\* its scripts on without completing the one that waits.
LEMMA PublishedHolders ==
  ASSUME TypeOK, Published,
         UNCHANGED <<journal, applied>>,
         \A i \in Invocations : seqOf[i] # 0 => seqOf'[i] = seqOf[i],
         \A i \in Invocations : filler[i] # "none" => filler'[i] # "none",
         \A i \in Invocations : script'[i] = "success" => Acked(seqOf'[i])
  PROVE  Published'
  <1>1. ASSUME NEW s, NEW c, c.by \in Invocations, OwnSlot(s, c)
        PROVE  OwnSlotNext(s, c)
    BY <1>1 DEF OwnSlot, OwnSlotNext
  <1>2. \A s \in DOMAIN journal : journal[s].by \in Invocations
    BY DEF TypeOK, Command
  <1>3. \A s \in 1..Len(applied) : applied[s].by \in Invocations
    BY AppliedByTypes DEF TypeOK
  <1>4. QED
    <2>1. (\A s \in DOMAIN journal : OwnSlot(s, journal[s]))'
      BY <1>1, <1>2 DEF Published, OwnSlot, OwnSlotNext
    <2>2. (\A s \in 1..Len(applied) : OwnSlot(s, applied[s]))'
      BY <1>1, <1>3 DEF Published, OwnSlot, OwnSlotNext
    <2>3. QED
      BY <2>1, <2>2 DEF Published, Acked

\* Writing its own number's file, a call keeps every file with its holder.
LEMMA PublishedWrite ==
  ASSUME TypeOK, Published,
         NEW i \in Invocations, NEW f \in BOOLEAN,
         seqOf[i] # 0,
         f => filler'[i] # "none",
         journal' = WriteSlot(seqOf[i], [by |-> i, filler |-> f]),
         UNCHANGED <<seqOf, applied>>,
         \A j \in Invocations : filler[j] # "none" => filler'[j] # "none",
         \A j \in Invocations : script'[j] = "success" => script[j] = "success"
  PROVE  Published'
  <1>1. ASSUME NEW s, NEW c, c.by \in Invocations, OwnSlot(s, c)
        PROVE  OwnSlotNext(s, c)
    BY <1>1 DEF OwnSlot, OwnSlotNext
  <1>2. \A s \in 1..Len(applied') : OwnSlotNext(s, applied'[s])
    <2>1. \A s \in 1..Len(applied) : applied[s].by \in Invocations
      BY AppliedByTypes DEF TypeOK
    <2>2. QED
      BY <1>1, <2>1 DEF Published
  <1>3. ASSUME NEW s \in DOMAIN journal'
        PROVE  OwnSlotNext(s, journal'[s])
    <2>1. CASE s = seqOf[i]
      BY <2>1 DEF OwnSlotNext, WriteSlot
    <2>2. CASE s # seqOf[i]
      <3>1. s \in DOMAIN journal /\ journal'[s] = journal[s]
        BY <1>3, <2>2 DEF WriteSlot
      <3>2. journal[s].by \in Invocations /\ OwnSlot(s, journal[s])
        BY <3>1 DEF TypeOK, Command, Published
      <3>3. QED
        BY <1>1, <3>1, <3>2
    <2>3. QED
      BY <2>1, <2>2
  <1>4. \A j \in Invocations : script'[j] = "success" => Acked(seqOf[j])'
    BY DEF Published, Acked
  <1>5. QED
    BY <1>2, <1>3, <1>4 DEF Published, OwnSlot, OwnSlotNext

LEMMA PublishedStep == TypeOK /\ Numbered /\ Stages /\ Published /\ [Next]_vars => Published'
  <1> SUFFICES ASSUME TypeOK, Numbered, Stages, Published, [Next]_vars
               PROVE  Published'
    OBVIOUS
  <1>1. ASSUME NEW i \in Invocations, Call(i)
        PROVE  Published'
    BY <1>1, PublishedFrame DEF Call, callVars, instanceVars
  <1>2. ASSUME NEW i \in Invocations, Acquire(i)
        PROVE  Published'
    <2>1. UNCHANGED <<journal, applied, filler, script>>
      BY <1>2 DEF Acquire, instanceVars
    <2>2. \A j \in Invocations : seqOf[j] # 0 => seqOf'[j] = seqOf[j]
      BY <1>2 DEF Acquire, TypeOK, Numbered
    <2>3. ASSUME NEW j \in Invocations, script'[j] = "success"
          PROVE  Acked(seqOf'[j])
      BY <2>1, <2>2, <2>3 DEF Stages, Published
    <2>4. QED
      BY <2>1, <2>2, <2>3, PublishedHolders
  <1>3. ASSUME NEW i \in Invocations, AcquireReplyLost(i)
        PROVE  Published'
    BY <1>3, PublishedFrame DEF AcquireReplyLost, callVars, instanceVars
  <1>4. ASSUME NEW i \in Invocations, AcquireGivesUp(i)
        PROVE  Published'
    BY <1>4, PublishedFrame DEF AcquireGivesUp, callVars, instanceVars
  <1>5. ASSUME NEW i \in Invocations, Send(i)
        PROVE  Published'
    BY <1>5, PublishedHolders DEF Send, callVars, instanceVars, TypeOK, Numbered, Published, Acked
  <1>6. ASSUME NEW i \in Invocations, SendRaises(i)
        PROVE  Published'
    BY <1>6, PublishedHolders DEF SendRaises, callVars, instanceVars, TypeOK, Numbered, Published, Acked
  <1>7. ASSUME NEW i \in Invocations, SendFiller(i)
        PROVE  Published'
    BY <1>7, PublishedHolders DEF SendFiller, callVars, instanceVars, TypeOK, Numbered, Published, Acked
  <1>8. ASSUME NEW i \in Invocations, FillerRaises(i)
        PROVE  Published'
    BY <1>8, PublishedFrame DEF FillerRaises, callVars, instanceVars
  <1>9. ASSUME NEW i \in Invocations, WaitReturns(i)
        PROVE  Published'
    BY <1>9, PublishedFrame DEF WaitReturns, callVars, instanceVars
  <1>10. ASSUME NEW i \in Invocations, WaitRaises(i)
         PROVE  Published'
    BY <1>10, PublishedFrame DEF WaitRaises, callVars, instanceVars
  <1>11. ASSUME NEW i \in Invocations, ReleaseSequence(i)
         PROVE  Published'
    BY <1>11, PublishedFrame DEF ReleaseSequence, callVars, instanceVars
  <1>12. ASSUME NEW i \in Invocations, Killed(i)
         PROVE  Published'
    BY <1>12, PublishedFrame DEF Killed, callVars, instanceVars
  <1>12a. ASSUME NEW i \in Invocations, PollRaises(i)
          PROVE  Published'
    BY <1>12a, PublishedFrame DEF PollRaises, callVars, instanceVars
  <1>12b. ASSUME NEW i \in Invocations, ReleaseRaises(i)
          PROVE  Published'
    BY <1>12b, PublishedFrame DEF ReleaseRaises, callVars, instanceVars
  <1>13. ASSUME NEW i \in Invocations, ScriptStarts(i)
         PROVE  Published'
    BY <1>13, PublishedWrite DEF ScriptStarts, callVars, TypeOK, Stages
  <1>14. ASSUME NEW i \in Invocations, ScriptSeesAck(i)
         PROVE  Published'
    BY <1>14, PublishedHolders DEF ScriptSeesAck, callVars, instanceVars, TypeOK, Numbered, Published, Acked
  <1>15. ASSUME NEW i \in Invocations, ScriptTimesOut(i)
         PROVE  Published'
    BY <1>15, PublishedHolders DEF ScriptTimesOut, callVars, instanceVars, TypeOK, Numbered, Published, Acked
  <1>16. ASSUME NEW i \in Invocations, ScriptUndelivered(i)
         PROVE  Published'
    BY <1>16, PublishedHolders DEF ScriptUndelivered, callVars, instanceVars, TypeOK, Numbered, Published, Acked
  <1>17. ASSUME NEW i \in Invocations, FillerStarts(i)
         PROVE  Published'
    BY <1>17, PublishedWrite DEF FillerStarts, callVars, TypeOK, Stages
  <1>18. CASE PumpPolls
    <2> DEFINE next == Len(applied) + 1
    <2>1. /\ OwnSlot(next, journal[next])
          /\ journal[next] \in Command
          /\ applied' = Append(applied, EventOf(journal[next]))
          /\ Len(applied) \in Nat
          /\ UNCHANGED <<seqOf, filler, script, journal>>
      BY <1>18 DEF PumpPolls, Published, TypeOK, callVars
    <2>2. /\ EventOf(journal[next]).by = journal[next].by
          /\ EventOf(journal[next]).filler = journal[next].filler
      BY DEF EventOf
    <2>3. /\ Len(applied') = next
          /\ \A s \in 1..Len(applied) : applied'[s] = applied[s]
          /\ applied'[next] = EventOf(journal[next])
      BY <2>1 DEF TypeOK
    <2>4. ASSUME NEW s \in 1..Len(applied')
          PROVE  OwnSlotNext(s, applied'[s])
      <3>1. CASE s = next
        BY <2>1, <2>2, <2>3, <3>1 DEF OwnSlot, OwnSlotNext
      <3>2. CASE s # next
        BY <2>1, <2>3, <3>2 DEF OwnSlot, OwnSlotNext, Published
      <3>3. QED
        BY <3>1, <3>2
    <2>5. \A s \in DOMAIN journal' : OwnSlotNext(s, journal'[s])
      BY <2>1 DEF OwnSlot, OwnSlotNext, Published
    <2>6. \A i \in Invocations : script'[i] = "success" => Acked(seqOf[i])'
      BY <2>1, <2>3 DEF Published, Acked
    <2>7. QED
      BY <2>1, <2>4, <2>5, <2>6 DEF Published, OwnSlot, OwnSlotNext
  <1>19. CASE Tick
    BY <1>19, PublishedFrame DEF Tick, callVars, instanceVars
  <1>20. CASE UNCHANGED vars
    BY <1>20, PublishedFrame DEF vars, callVars, instanceVars
  <1>21. QED
    BY <1>1, <1>2, <1>3, <1>4, <1>5, <1>6, <1>7, <1>8, <1>9, <1>10,
       <1>11, <1>12, <1>12a, <1>12b, <1>13, <1>14, <1>15, <1>16, <1>17, <1>18, <1>19, <1>20
       DEF Next, CallStep, FaultStep, InstanceStep

(* A reported success is the call's own. *)

LEMMA AckFrame ==
  ASSUME AckIsOwn, UNCHANGED <<seqOf, outcome, applied>>
  PROVE  AckIsOwn'
  BY DEF AckIsOwn, Acked

\* A call that ends without an acknowledgement reports an error.
LEMMA AckError ==
  ASSUME TypeOK, AckIsOwn, NEW i \in Invocations,
         outcome' = [outcome EXCEPT ![i] = "error"],
         UNCHANGED <<seqOf, applied>>
  PROVE  AckIsOwn'
  BY DEF AckIsOwn, Acked, TypeOK

LEMMA AckStep ==
  TypeOK /\ Numbered /\ Stages /\ Published /\ AckIsOwn /\ [Next]_vars => AckIsOwn'
  <1> SUFFICES ASSUME TypeOK, Numbered, Stages, Published, AckIsOwn, [Next]_vars
               PROVE  AckIsOwn'
    OBVIOUS
  <1>1. ASSUME NEW i \in Invocations, Call(i)
        PROVE  AckIsOwn'
    BY <1>1, AckFrame DEF Call, callVars, instanceVars
  <1>2. ASSUME NEW i \in Invocations, Acquire(i)
        PROVE  AckIsOwn'
    <2>1. UNCHANGED <<outcome, applied>>
      BY <1>2 DEF Acquire, instanceVars
    <2>2. outcome[i] = "none"
      BY <1>2 DEF Acquire, Stages
    <2>3. \A j \in Invocations : j # i => seqOf'[j] = seqOf[j]
      BY <1>2 DEF Acquire, TypeOK
    <2>4. QED
      BY <2>1, <2>2, <2>3 DEF AckIsOwn, Acked
  <1>3. ASSUME NEW i \in Invocations, AcquireReplyLost(i)
        PROVE  AckIsOwn'
    BY <1>3, AckFrame DEF AcquireReplyLost, callVars, instanceVars
  <1>4. ASSUME NEW i \in Invocations, AcquireGivesUp(i)
        PROVE  AckIsOwn'
    BY <1>4, AckError DEF AcquireGivesUp, callVars, instanceVars
  <1>5. ASSUME NEW i \in Invocations, Send(i)
        PROVE  AckIsOwn'
    BY <1>5, AckFrame DEF Send, callVars, instanceVars
  <1>6. ASSUME NEW i \in Invocations, SendRaises(i)
        PROVE  AckIsOwn'
    BY <1>6, AckError DEF SendRaises, callVars, instanceVars
  <1>7. ASSUME NEW i \in Invocations, SendFiller(i)
        PROVE  AckIsOwn'
    BY <1>7, AckFrame DEF SendFiller, callVars, instanceVars
  <1>8. ASSUME NEW i \in Invocations, FillerRaises(i)
        PROVE  AckIsOwn'
    BY <1>8, AckFrame DEF FillerRaises, callVars, instanceVars
  <1>9. ASSUME NEW i \in Invocations, WaitReturns(i)
        PROVE  AckIsOwn'
    <2> DEFINE s == seqOf[i]
    <2>1. /\ script[i] = "success" /\ pc[i] = "wait"
          /\ UNCHANGED <<seqOf, applied>>
          /\ outcome' = [outcome EXCEPT ![i] =
                           IF i \in Cancels \/ applied[s].outcome = "event"
                           THEN "ok" ELSE "rejected"]
      BY <1>9 DEF WaitReturns, instanceVars
    <2>2. Acked(s) /\ OwnSlot(s, applied[s]) /\ applied[s].by \in Invocations
      BY <2>1, AppliedByTypes DEF Published, Acked, TypeOK
    <2>3. applied[s].by = i
      BY <2>2 DEF OwnSlot, Numbered
    <2>4. ~applied[s].filler
      BY <2>1, <2>2, <2>3 DEF OwnSlot, Stages
    <2>5. \A j \in Invocations : j # i => outcome'[j] = outcome[j]
      BY <2>1 DEF TypeOK
    <2>6. outcome'[i] = IF i \in Cancels \/ applied[s].outcome = "event"
                        THEN "ok" ELSE "rejected"
      BY <2>1 DEF TypeOK
    <2>7. QED
      BY <2>1, <2>2, <2>3, <2>4, <2>5, <2>6 DEF AckIsOwn, Acked
  <1>10. ASSUME NEW i \in Invocations, WaitRaises(i)
         PROVE  AckIsOwn'
    BY <1>10, AckError DEF WaitRaises, callVars, instanceVars
  <1>11. ASSUME NEW i \in Invocations, ReleaseSequence(i)
         PROVE  AckIsOwn'
    BY <1>11, AckFrame DEF ReleaseSequence, callVars, instanceVars
  <1>12. ASSUME NEW i \in Invocations, Killed(i)
         PROVE  AckIsOwn'
    BY <1>12, AckFrame DEF Killed, callVars, instanceVars
  <1>12a. ASSUME NEW i \in Invocations, PollRaises(i)
          PROVE  AckIsOwn'
    BY <1>12a, AckError DEF PollRaises, callVars, instanceVars
  <1>12b. ASSUME NEW i \in Invocations, ReleaseRaises(i)
          PROVE  AckIsOwn'
    BY <1>12b, AckError DEF ReleaseRaises, callVars, instanceVars
  <1>13. ASSUME NEW i \in Invocations, ScriptStarts(i)
         PROVE  AckIsOwn'
    BY <1>13, AckFrame DEF ScriptStarts, callVars, instanceVars
  <1>14. ASSUME NEW i \in Invocations, ScriptSeesAck(i)
         PROVE  AckIsOwn'
    BY <1>14, AckFrame DEF ScriptSeesAck, callVars, instanceVars
  <1>15. ASSUME NEW i \in Invocations, ScriptTimesOut(i)
         PROVE  AckIsOwn'
    BY <1>15, AckFrame DEF ScriptTimesOut, callVars, instanceVars
  <1>16. ASSUME NEW i \in Invocations, ScriptUndelivered(i)
         PROVE  AckIsOwn'
    BY <1>16, AckFrame DEF ScriptUndelivered, callVars, instanceVars
  <1>17. ASSUME NEW i \in Invocations, FillerStarts(i)
         PROVE  AckIsOwn'
    BY <1>17, AckFrame DEF FillerStarts, callVars, instanceVars
  <1>18. CASE PumpPolls
    <2>1. /\ UNCHANGED <<seqOf, outcome>>
          /\ applied' = Append(applied, EventOf(journal[Len(applied) + 1]))
      BY <1>18 DEF PumpPolls, callVars
    <2>2. /\ Len(applied') = Len(applied) + 1
          /\ Len(applied) \in Nat
          /\ \A s \in 1..Len(applied) : applied'[s] = applied[s]
      BY <2>1 DEF TypeOK
    <2>3. QED
      BY <2>1, <2>2 DEF AckIsOwn, Acked
  <1>19. CASE Tick
    BY <1>19, AckFrame DEF Tick, callVars, instanceVars
  <1>20. CASE UNCHANGED vars
    BY <1>20, AckFrame DEF vars, callVars, instanceVars
  <1>21. QED
    BY <1>1, <1>2, <1>3, <1>4, <1>5, <1>6, <1>7, <1>8, <1>9, <1>10,
       <1>11, <1>12, <1>12a, <1>12b, <1>13, <1>14, <1>15, <1>16, <1>17, <1>18, <1>19, <1>20
       DEF Next, CallStep, FaultStep, InstanceStep

-----------------------------------------------------------------------------
(* The theorems. *)

LEMMA InitInvariant == Init => IInv
  <1> SUFFICES ASSUME Init
               PROVE  IInv
    OBVIOUS
  <1>1. TypeOK
    BY InitTypes
  <1>2. Numbered /\ Stages /\ Leases /\ AckIsOwn
    BY ConstantsAssumption
       DEF ConstantsAssumption, Init, Numbered, Stages, Leases, AckIsOwn, Working
  <1>3. Published
    BY DEF Init, Published
  <1>4. QED
    BY <1>1, <1>2, <1>3 DEF IInv

LEMMA StepInvariant == IInv /\ [Next]_vars => IInv'
  BY StepTypes, NumberedStep, StagesStep, PublishedStep, LeasesStep, AckStep DEF IInv

THEOREM Invariance == Spec => []IInv
  BY InitInvariant, StepInvariant, PTL DEF Spec

\* Two calls never both work inside a live lease, whatever the durations are and
\* however late a call releases.
THEOREM LeaseExclusion == Spec => []OneLiveLease
  <1>1. IInv => OneLiveLease
    <2> SUFFICES ASSUME IInv,
                        NEW i \in Invocations, NEW j \in Invocations,
                        Working(i), Working(j), now <= leaseOf[i], now <= leaseOf[j]
                 PROVE  i = j
      BY DEF OneLiveLease
    <2>1. now \in Nat /\ leaseOf[i] \in Nat /\ leaseOf[j] \in Nat
      BY DEF IInv, TypeOK
    <2>2. item.holder = i
      BY <2>1 DEF IInv, Leases
    <2>3. item.holder = j
      BY <2>1 DEF IInv, Leases
    <2>4. QED
      BY <2>2, <2>3
  <1>2. QED
    BY <1>1, Invariance, PTL

\* What a call reports is what the party made of that call's own command.
THEOREM AckOwnership == Spec => []AckIsOwn
  <1>1. IInv => AckIsOwn
    BY DEF IInv
  <1>2. QED
    BY <1>1, Invariance, PTL

\* No command is applied twice, and none at a number another call reserved.
THEOREM SlotOwnership == Spec => []AppliedAtOwnSlot
  <1>1. IInv => AppliedAtOwnSlot
    BY DEF IInv, Published, OwnSlot, AppliedAtOwnSlot
  <1>2. QED
    BY <1>1, Invariance, PTL
-----------------------------------------------------------------------------
(* The refinement of CommandLog. *)

LEMMA LogInitialised == Init => Log!LogInit
  <1> SUFFICES ASSUME Init
               PROVE  Log!LogInit
    OBVIOUS
  <1>1. item.seq = 0 /\ seqOf = [i \in Invocations |-> 0] /\ applied = << >>
    BY DEF Init
  <1>2. AppliedBy = << >>
    BY <1>1 DEF AppliedBy
  <1>3. QED
    BY <1>1, <1>2 DEF Log!LogInit

\* A step that hands out no number and applies no command is a stutter.
LEMMA LogStutter ==
  ASSUME item'.seq = item.seq, UNCHANGED <<seqOf, applied>>
  PROVE  UNCHANGED Log!logVars
  BY DEF Log!logVars, AppliedBy

LEMMA LogStep == IInv /\ [Next]_vars => [Log!LogNext]_(Log!logVars)
  <1> SUFFICES ASSUME IInv, [Next]_vars
               PROVE  [Log!LogNext]_(Log!logVars)
    OBVIOUS
  <1>1. ASSUME NEW i \in Invocations, Acquire(i)
        PROVE  Log!Reserve(i)
    <2>1. seqOf[i] = 0
      BY <1>1 DEF IInv, Numbered, Acquire
    <2>2. /\ item'.seq = item.seq + 1
          /\ seqOf' = [seqOf EXCEPT ![i] = item.seq + 1]
          /\ applied' = applied
      BY <1>1 DEF Acquire, Claimed, instanceVars
    <2>3. QED
      BY <2>1, <2>2 DEF Log!Reserve, AppliedBy
  <1>2. ASSUME NEW i \in Invocations, AcquireReplyLost(i)
        PROVE  Log!Burn
    <2>1. item'.seq = item.seq + 1 /\ UNCHANGED <<seqOf, applied>>
      BY <1>2 DEF AcquireReplyLost, Claimed, instanceVars
    <2>2. QED
      BY <2>1 DEF Log!Burn, AppliedBy
  <1>3. ASSUME PumpPolls
        PROVE  \E c \in Invocations : Log!Consume(c)
    <2> DEFINE next == Len(applied) + 1
               c == journal[next].by
    <2>1. /\ next \in DOMAIN journal
          /\ applied' = Append(applied, EventOf(journal[next]))
          /\ UNCHANGED <<item, seqOf>>
      BY <1>3 DEF PumpPolls, callVars
    <2>2. c \in Invocations /\ seqOf[c] = next
      BY <2>1 DEF IInv, TypeOK, Command, Published, OwnSlot
    <2>3. /\ Len(applied) \in Nat
          /\ Len(applied') = next
          /\ \A s \in 1..Len(applied) : applied'[s] = applied[s]
          /\ applied'[next].by = c
      BY <2>1 DEF IInv, TypeOK, EventOf
    <2>4. AppliedBy \in Seq(Invocations) /\ Len(AppliedBy) = Len(applied)
      <3>1. \A s \in 1..Len(applied) : applied[s].by \in Invocations
        BY AppliedByTypes DEF IInv, TypeOK
      <3>2. AppliedBy \in Seq(Invocations)
        BY <2>3, <3>1 DEF AppliedBy
      <3>3. QED
        BY <2>3, <3>2 DEF AppliedBy
    <2>5. AppliedBy' = Append(AppliedBy, c)
      <3>1. AppliedBy' = [s \in 1..next |-> applied'[s].by]
        BY <2>3 DEF AppliedBy
      <3>2. \A s \in 1..Len(applied) : applied'[s].by = AppliedBy[s]
        BY <2>3 DEF AppliedBy
      <3>3. Append(AppliedBy, c) = [s \in 1..next |-> IF s = next THEN c ELSE AppliedBy[s]]
        BY <2>2, <2>3, <2>4
      <3>4. \A s \in 1..next : s = next \/ s \in 1..Len(applied)
        BY <2>3
      <3>5. QED
        BY <2>3, <3>1, <3>2, <3>3, <3>4
    <2>6. Log!Consume(c)
      BY <2>1, <2>2, <2>4, <2>5 DEF Log!Consume
    <2>7. QED
      BY <2>2, <2>6
  <1>4. ASSUME NEW i \in Invocations,
               \/ Call(i) \/ AcquireGivesUp(i) \/ Send(i) \/ SendFiller(i)
               \/ WaitReturns(i) \/ WaitRaises(i) \/ ReleaseSequence(i)
               \/ SendRaises(i) \/ FillerRaises(i) \/ PollRaises(i) \/ ReleaseRaises(i)
               \/ Killed(i)
               \/ ScriptUndelivered(i) \/ InstanceStep(i)
        PROVE  UNCHANGED Log!logVars
    <2>1. item'.seq = item.seq /\ UNCHANGED <<seqOf, applied>>
      BY <1>4 DEF Call, AcquireGivesUp, Send, SendFiller, WaitReturns, WaitRaises,
                  ReleaseSequence, SendRaises, FillerRaises, PollRaises, ReleaseRaises, Killed,
                  ScriptUndelivered, InstanceStep, ScriptStarts, ScriptSeesAck, ScriptTimesOut, FillerStarts,
                  callVars, instanceVars, IInv, TypeOK
    <2>2. QED
      BY <2>1, LogStutter
  <1>5. CASE Tick \/ UNCHANGED vars
    <2>1. item'.seq = item.seq /\ UNCHANGED <<seqOf, applied>>
      BY <1>5 DEF Tick, vars, callVars, instanceVars
    <2>2. QED
      BY <2>1, LogStutter
  <1>6. QED
    BY <1>1, <1>2, <1>3, <1>4, <1>5 DEF Next, CallStep, FaultStep, Log!LogNext

\* The lease, SSM and the pump together behave like one numbered log.
THEOREM LogRefinement == Spec => LogImplemented
  <1>1. Init => Log!LogInit
    BY LogInitialised
  <1>2. IInv /\ [Next]_vars => [Log!LogNext]_(Log!logVars)
    BY LogStep
  <1>3. QED
    BY <1>1, <1>2, Invariance, PTL DEF Spec, LogImplemented, Log!LogSpec
-----------------------------------------------------------------------------
(* Wedging *)

HarmlessOnly == \A i \in Invocations : fault[i] \ Harmless = {}

\* A number has its file, or its file is still to come.
Underway(i) ==
    \/ seqOf[i] \in DOMAIN journal
    \/ pc[i] \in {"reserved", "fill"}
    \/ script[i] = "sent"
    \/ filler[i] = "sent"

\* Every number has its call.
Covered ==
    HarmlessOnly =>
        /\ \A s \in 1..item.seq : \E i \in Invocations : seqOf[i] = s
        /\ \A i \in Invocations : seqOf[i] # 0 => Underway(i)

LEMMA CoveredStep == IInv /\ Covered /\ [Next]_vars => Covered'
  <1> SUFFICES ASSUME IInv, Covered, [Next]_vars, HarmlessOnly'
               PROVE  /\ \A s \in 1..item'.seq : \E i \in Invocations : seqOf'[i] = s
                      /\ \A i \in Invocations : seqOf'[i] # 0 => Underway(i)'
    BY DEF Covered
  <1>1. TypeOK /\ Numbered
    BY DEF IInv
  <1> DEFINE Goal == /\ \A s \in 1..item'.seq : \E i \in Invocations : seqOf'[i] = s
                     /\ \A i \in Invocations : seqOf'[i] # 0 => Underway(i)'
  <1>2. ASSUME NEW i \in Invocations,
               \/ AcquireReplyLost(i) \/ FillerRaises(i) \/ Killed(i) \/ ScriptUndelivered(i)
        PROVE  FALSE
    <2>1. \E f \in {"reply", "fill", "killed", "ssm"} : f \in fault'[i]
      BY <1>1, <1>2 DEF AcquireReplyLost, FillerRaises, Killed, ScriptUndelivered, TypeOK
    <2>2. QED
      BY <2>1 DEF HarmlessOnly, Harmless
  <1>3. ASSUME \/ fault' = fault
               \/ \E i \in Invocations : SendRaises(i) \/ PollRaises(i) \/ ReleaseRaises(i)
        PROVE  /\ \A s \in 1..item.seq : \E i \in Invocations : seqOf[i] = s
               /\ \A i \in Invocations : seqOf[i] # 0 => Underway(i)
    <2>1. \A i \in Invocations : fault[i] \subseteq fault'[i]
      <3>1. ASSUME NEW k \in Invocations,
                   SendRaises(k) \/ PollRaises(k) \/ ReleaseRaises(k)
            PROVE  \A i \in Invocations : fault[i] \subseteq fault'[i]
        <4>1. /\ \E f \in Harmless : fault' = [fault EXCEPT ![k] = fault[k] \cup {f}]
              /\ fault \in [Invocations -> SUBSET Faults]
          BY <1>1, <3>1 DEF SendRaises, PollRaises, ReleaseRaises, TypeOK, Harmless
        <4>2. QED
          BY <4>1
      <3>2. QED
        BY <1>3, <3>1
    <2>2. HarmlessOnly
      BY <2>1 DEF HarmlessOnly
    <2>3. QED
      BY <2>2 DEF Covered
  <1>4. ASSUME NEW i \in Invocations, Acquire(i)
        PROVE  Goal
    <2>1. /\ item'.seq = item.seq + 1 /\ item.seq \in Nat
          /\ seqOf' = [seqOf EXCEPT ![i] = item.seq + 1]
          /\ pc' = [pc EXCEPT ![i] = "reserved"]
          /\ pc[i] = "acquire"
          /\ UNCHANGED <<journal, script, filler, fault>>
      BY <1>1, <1>4 DEF Acquire, Claimed, instanceVars, TypeOK
    <2>2. seqOf[i] = 0
      BY <1>1, <2>1 DEF Numbered
    <2>3. /\ \A k \in Invocations : k # i => seqOf'[k] = seqOf[k] /\ pc'[k] = pc[k]
          /\ seqOf'[i] = item.seq + 1 /\ pc'[i] = "reserved"
      BY <1>1, <2>1 DEF TypeOK
    <2>4. \A s \in 1..item.seq : \E k \in Invocations : k # i /\ seqOf[k] = s
      BY <1>3, <2>1, <2>2
    <2>5. \A s \in 1..item'.seq : s \in 1..item.seq \/ s = item.seq + 1
      BY <2>1
    <2>6. QED
      BY <1>3, <2>1, <2>3, <2>4, <2>5 DEF Underway
  <1>5. ASSUME \/ fault' = fault
               \/ \E i \in Invocations : SendRaises(i) \/ PollRaises(i) \/ ReleaseRaises(i),
               item'.seq = item.seq, UNCHANGED seqOf,
               \A i \in Invocations : Underway(i) /\ seqOf[i] # 0 => Underway(i)'
        PROVE  Goal
    BY <1>3, <1>5
  <1>6. ASSUME NEW i \in Invocations,
               \/ Call(i) \/ AcquireGivesUp(i) \/ Send(i) \/ SendFiller(i)
               \/ WaitReturns(i) \/ WaitRaises(i) \/ ReleaseSequence(i)
               \/ ScriptSeesAck(i) \/ ScriptTimesOut(i)
        PROVE  Goal
    <2>1. item'.seq = item.seq /\ UNCHANGED <<seqOf, fault, journal>>
      BY <1>1, <1>6 DEF Call, AcquireGivesUp, Send, SendFiller, WaitReturns, WaitRaises,
                  ReleaseSequence, ScriptSeesAck, ScriptTimesOut, callVars, instanceVars, TypeOK
    <2>2. \A k \in Invocations : Underway(k) => Underway(k)'
      BY <1>1, <1>6, <2>1 DEF Underway, Call, AcquireGivesUp, Send, SendFiller, WaitReturns,
                  WaitRaises, ReleaseSequence, ScriptSeesAck, ScriptTimesOut, callVars,
                  instanceVars, TypeOK
    <2>3. QED
      BY <1>5, <2>1, <2>2
  <1>7. ASSUME NEW i \in Invocations, SendRaises(i)
        PROVE  Goal
    <2>1. /\ UNCHANGED <<item, seqOf, journal, filler>>
          /\ pc[i] = "reserved" /\ pc' = [pc EXCEPT ![i] = "fill"]
      BY <1>7 DEF SendRaises
    <2>2. \A k \in Invocations : k # i => script'[k] = script[k]
      BY <1>1, <1>7 DEF SendRaises, TypeOK
    <2>3. \A k \in Invocations : Underway(k) => Underway(k)'
      BY <1>1, <2>1, <2>2 DEF Underway, TypeOK
    <2>4. QED
      BY <1>5, <1>7, <2>1, <2>3
  <1>7a. ASSUME NEW i \in Invocations, PollRaises(i) \/ ReleaseRaises(i)
         PROVE  Goal
    <2>1. item'.seq = item.seq /\ UNCHANGED <<seqOf, journal, script, filler>>
      BY <1>1, <1>7a DEF PollRaises, ReleaseRaises, instanceVars, TypeOK
    <2>2. \A k \in Invocations : Underway(k) => Underway(k)'
      BY <1>1, <1>7a, <2>1 DEF Underway, PollRaises, ReleaseRaises, TypeOK
    <2>3. QED
      BY <1>5, <1>7a, <2>1, <2>2
  <1>8. ASSUME NEW i \in Invocations, ScriptStarts(i) \/ FillerStarts(i)
        PROVE  Goal
    <2>1. /\ UNCHANGED <<item, seqOf, fault, pc>>
          /\ DOMAIN journal' = DOMAIN journal \cup {seqOf[i]}
      BY <1>8 DEF ScriptStarts, FillerStarts, WriteSlot, callVars
    <2>2. \A k \in Invocations : k # i => script'[k] = script[k] /\ filler'[k] = filler[k]
      BY <1>1, <1>8 DEF ScriptStarts, FillerStarts, TypeOK
    <2>3. \A k \in Invocations : Underway(k) => Underway(k)'
      BY <2>1, <2>2 DEF Underway
    <2>4. QED
      BY <1>5, <2>1, <2>3
  <1>9. CASE PumpPolls \/ Tick \/ UNCHANGED vars
    <2>1. UNCHANGED <<item, seqOf, fault, journal, pc, script, filler>>
      BY <1>9 DEF PumpPolls, Tick, vars, callVars, instanceVars
    <2>2. QED
      BY <1>5, <2>1 DEF Underway
  <1>10. QED
    BY <1>2, <1>4, <1>6, <1>7, <1>7a, <1>8, <1>9 DEF Next, CallStep, FaultStep, InstanceStep

\* A send that fails never wedges the party by itself: while sends, polls and releases
\* are all that fails, every number handed out has its file or somebody about to write it.
THEOREM WedgeTakesTwo == Spec => []WedgeNeedsSecondFault
  <1>1. Init => Covered
    BY DEF Init, Covered
  <1>2. IInv /\ Covered => WedgeNeedsSecondFault
    <2> SUFFICES ASSUME IInv, Covered, NEW s \in 1..item.seq, Abandoned(s), HarmlessOnly
                 PROVE  FALSE
      BY DEF WedgeNeedsSecondFault, HarmlessOnly
    <2>1. PICK i \in Invocations : seqOf[i] = s
      BY DEF Covered
    <2>2. s # 0
      OBVIOUS
    <2>3. QED
      BY <2>1, <2>2 DEF Covered, Underway, Abandoned
  <1>3. QED
    BY <1>1, <1>2, CoveredStep, Invariance, PTL DEF Spec

-----------------------------------------------------------------------------
(* The lease is given back. *)

\* Every step but Acquire, AcquireReplyLost, ReleaseSequence, ReleaseRaises and Killed
\* leaves the row alone and no call its work.
LEMMA KeepsWorking ==
  ASSUME TypeOK, NEW i \in Invocations,
         \/ Call(i) \/ AcquireGivesUp(i) \/ Send(i) \/ SendFiller(i)
         \/ WaitReturns(i) \/ WaitRaises(i) \/ PollRaises(i)
         \/ SendRaises(i) \/ FillerRaises(i) \/ ScriptUndelivered(i)
         \/ InstanceStep(i)
  PROVE  /\ item' = item
         /\ \A j \in Invocations : /\ Working(j) => Working(j)'
                                   /\ fault[j] \subseteq fault'[j]
  <1> USE DEF TypeOK, Working, callVars, instanceVars
  <1>1. CASE Call(i) \/ AcquireGivesUp(i) \/ Send(i) \/ SendFiller(i)
    BY <1>1 DEF Call, AcquireGivesUp, Send, SendFiller
  <1>2. CASE WaitReturns(i) \/ WaitRaises(i)
    BY <1>2 DEF WaitReturns, WaitRaises
  <1>3. CASE SendRaises(i) \/ FillerRaises(i) \/ ScriptUndelivered(i)
    BY SMTT(30), <1>3 DEF SendRaises, FillerRaises, ScriptUndelivered
  <1>3a. CASE PollRaises(i)
    BY <1>3a DEF PollRaises
  <1>4. CASE InstanceStep(i)
    BY <1>4 DEF InstanceStep, ScriptStarts, ScriptSeesAck, ScriptTimesOut, FillerStarts
  <1>5. QED
    BY <1>1, <1>2, <1>3, <1>3a, <1>4

LEMMA GivenBackStep == TypeOK /\ LeaseIsGivenBack /\ [Next]_vars => LeaseIsGivenBack'
  <1> SUFFICES ASSUME TypeOK, LeaseIsGivenBack, [Next]_vars
               PROVE  LeaseIsGivenBack'
    OBVIOUS
  <1> USE DEF LeaseIsGivenBack
  <1>1. ASSUME NEW i \in Invocations, Acquire(i)
        PROVE  LeaseIsGivenBack'
    <2>1. item'.holder = i
      BY <1>1 DEF Acquire, Claimed
    <2>2. Working(i)'
      BY <1>1 DEF TypeOK, Acquire, Working
    <2>3. QED
      BY <2>1, <2>2
  <1>2. ASSUME NEW i \in Invocations, AcquireReplyLost(i)
        PROVE  LeaseIsGivenBack'
    <2>1. item'.holder = i
      BY <1>2 DEF AcquireReplyLost, Claimed
    <2>2. "reply" \in fault'[i]
      BY <1>2 DEF TypeOK, AcquireReplyLost
    <2>3. QED
      BY <2>1, <2>2
  <1>2a. ASSUME NEW i \in Invocations, ReleaseRaises(i)
         PROVE  LeaseIsGivenBack'
    <2>1. /\ item'.holder = item.holder \/ item'.holder = None
          /\ "release" \in fault'[i]
      BY <1>2a DEF TypeOK, ReleaseRaises
    <2>2. \A j \in Invocations : j # i => /\ Working(j) => Working(j)'
                                          /\ fault'[j] = fault[j]
      BY <1>2a DEF TypeOK, ReleaseRaises, Working
    <2>3. QED
      BY <2>1, <2>2, ConstantsAssumption DEF ConstantsAssumption
  <1>3. ASSUME NEW i \in Invocations, ReleaseSequence(i)
        PROVE  LeaseIsGivenBack'
    <2>1. item'.holder # i /\ (item'.holder = item.holder \/ item'.holder = None)
      BY <1>3, ConstantsAssumption DEF ConstantsAssumption, TypeOK, ReleaseSequence
    <2>2. \A j \in Invocations : j # i => /\ Working(j) => Working(j)'
                                          /\ fault'[j] = fault[j]
      BY <1>3 DEF TypeOK, ReleaseSequence, Working
    <2>3. QED
      BY <2>1, <2>2, ConstantsAssumption DEF ConstantsAssumption
  <1>4. ASSUME NEW i \in Invocations, Killed(i)
        PROVE  LeaseIsGivenBack'
    <2>1. item' = item /\ "killed" \in fault'[i]
      BY <1>4 DEF TypeOK, Killed
    <2>2. \A j \in Invocations : j # i => /\ Working(j) => Working(j)'
                                          /\ fault'[j] = fault[j]
      BY <1>4 DEF TypeOK, Killed, Working
    <2>3. QED
      BY <2>1, <2>2
  <1>5. ASSUME item' = item,
               \A j \in Invocations : /\ Working(j) => Working(j)'
                                      /\ fault[j] \subseteq fault'[j]
        PROVE  LeaseIsGivenBack'
    BY <1>5
  <1>6. CASE PumpPolls \/ Tick \/ UNCHANGED vars
    BY <1>5, <1>6 DEF PumpPolls, Tick, Working, vars, callVars
  <1>7. QED
    BY <1>1, <1>2, <1>2a, <1>3, <1>4, <1>5, <1>6, KeepsWorking DEF Next, CallStep, FaultStep

\* The row names a call only while it works, whatever way the call ends, unless it was
\* killed, never saw DynamoDB's reply or its release raised.
THEOREM LeaseGivenBack == Spec => []LeaseIsGivenBack
  <1>1. Init => LeaseIsGivenBack
    BY ConstantsAssumption DEF ConstantsAssumption, Init, LeaseIsGivenBack
  <1>2. QED
    BY <1>1, GivenBackStep, TypeCorrect, PTL DEF Spec
=============================================================================
