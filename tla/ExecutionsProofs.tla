-------------------------- MODULE ExecutionsProofs --------------------------
(***************************************************************************)
(* Proofs about Executions for every set of executions and cancel          *)
(* requests, every number of parties and every number of faults: RUNNING   *)
(* is recorded for what every party has accepted, and an undisturbed       *)
(* cancel of a running execution leaves it live at no party.               *)
(*                                                                         *)
(* Two things carry both: a call's number holds its own command or a gap,  *)
(* and at a party an execution only ever goes from unknown to live to      *)
(* ended.                                                                  *)
(*                                                                         *)
(* Then the row itself, which three Lambdas write without looking: what a  *)
(* cancel read tells how far admission was, so that a finished row is set  *)
(* back to RUNNING only over a cancel of a PREPARING execution, and every  *)
(* step is one of those that ExecutionRow allows.                          *)
(***************************************************************************)
EXTENDS Executions, TLAPS, SequenceTheorems

\* What was applied was no gap, and an accepted prepare made its execution known.
Journal(p) ==
    /\ Len(acks[p]) <= Len(journal[p])
    /\ \A n \in 1..Len(acks[p]) :
          /\ journal[p][n].op # "gap"
          /\ acks[p][n] = "event" /\ journal[p][n].op = "prepare" =>
                live[p][journal[p][n].exec] # "unknown"

\* Number n of party p is that of a call for execution e.
Holds(p, n, op, e) ==
    /\ n \in 1..Len(journal[p])
    /\ journal[p][n].exec = e
    /\ journal[p][n].op \in {op, "gap"}

Admission(e) ==
    /\ \A p \in Parties :
          /\ prepare[e][p] = "waiting" => Holds(p, ticket[e][p], "prepare", e)
          /\ prepare[e][p] = "ok" => live[p][e] # "unknown"
    /\ status[e] = "RUNNING" => \A p \in Parties : live[p][e] # "unknown"

\* Until the handler is done there is no worker; a worker that has not begun is at the
\* first party.
Handler(c) ==
    /\ request[c] # "idle" => target[c] \in Executions
    /\ request[c] # "done" => worker[c] = "none"
    /\ worker[c] \in {"none", "queued"} => index[c] = 1 /\ slot[c] = 0
    /\ seen[c] = "RUNNING" =>
          request[c] # "idle" /\ \A p \in Parties : live[p][target[c]] # "unknown"

\* The number of a worker's call, once applied, has ended what it was to cancel.
Calling(c) ==
    slot[c] # 0 =>
        /\ AtParty(c)
        /\ Holds(index[c], slot[c], "cancel", target[c])
        /\ seen[c] = "RUNNING" /\ Applied(index[c], slot[c]) =>
              live[index[c]][target[c]] # "live"

Behind(c, p) == worker[c] = "done" \/ (worker[c] = "running" /\ p < index[c])

Silenced(c) ==
    clean[c] /\ seen[c] = "RUNNING" =>
        \A p \in Parties : Behind(c, p) => live[p][target[c]] # "live"

Cancel(c) == Handler(c) /\ Calling(c) /\ Silenced(c)

IInv == /\ TypeOK
        /\ \A p \in Parties : Journal(p)
        /\ \A e \in Executions : Admission(e)
        /\ \A c \in Requests : Cancel(c)
-----------------------------------------------------------------------------
(* The parties *)

\* How a step changes a journal: it grows at its end, and what is not applied may turn
\* into a gap.
Grows(p) ==
    /\ Len(journal[p]) <= Len(journal'[p])
    /\ \A n \in 1..Len(journal[p]) :
          /\ journal'[p][n].exec = journal[p][n].exec
          /\ journal'[p][n].op \in {journal[p][n].op, "gap"}
          /\ n <= Len(acks[p]) => journal'[p][n] = journal[p][n]

\* An execution only goes from unknown to live to ended.
Ages(p, e) ==
    /\ live[p][e] # "unknown" => live'[p][e] # "unknown"
    /\ live[p][e] = "ended" => live'[p][e] = "ended"

LEMMA PublishGrows ==
  ASSUME TypeOK, NEW q \in Parties, NEW op \in {"prepare", "cancel", "filler", "gap"},
         NEW e \in Executions, Publish(q, op, e)
  PROVE  /\ journal' \in [Parties -> Seq(Commands)]
         /\ NextNumber(q) \in 1..Len(journal'[q])
         /\ journal'[q][NextNumber(q)].op = op /\ journal'[q][NextNumber(q)].exec = e
         /\ \A p \in Parties : Grows(p)
  <1> DEFINE new == [op |-> op, exec |-> e]
  <1>1. new \in Commands /\ new.op = op /\ new.exec = e
    BY DEF Commands
  <1>2. journal \in [Parties -> Seq(Commands)] /\ journal[q] \in Seq(Commands)
    BY DEF TypeOK
  <1>3. /\ Append(journal[q], new) \in Seq(Commands)
        /\ Len(Append(journal[q], new)) = Len(journal[q]) + 1
        /\ \A n \in 1..Len(journal[q]) : Append(journal[q], new)[n] = journal[q][n]
        /\ Append(journal[q], new)[Len(journal[q]) + 1] = new
    BY <1>1, <1>2, AppendProperties
  <1>4. journal' = [journal EXCEPT ![q] = Append(journal[q], new)]
    BY DEF Publish
  <1> HIDE DEF new
  <1>5. /\ journal' \in [Parties -> Seq(Commands)]
        /\ journal'[q] = Append(journal[q], new)
        /\ \A p \in Parties : p # q => journal'[p] = journal[p]
    BY <1>2, <1>3, <1>4
  <1>6. \A p \in Parties : Len(journal[p]) \in Nat
    BY <1>2
  <1>7. ASSUME NEW p \in Parties
        PROVE  Grows(p)
    BY <1>3, <1>5, <1>6, <1>7 DEF Grows
  <1>8. QED
    BY <1>1, <1>3, <1>5, <1>6, <1>7 DEF NextNumber

LEMMA DropGrows ==
  ASSUME TypeOK, NEW q \in Parties, CommandDropped(q)
  PROVE  /\ journal' \in [Parties -> Seq(Commands)]
         /\ \A p \in Parties : Grows(p)
  <1>1. PICK n \in (Len(acks[q]) + 1)..Len(journal[q]) :
           journal' = [journal EXCEPT ![q][n].op = "gap"]
    BY DEF CommandDropped
  <1>2. /\ journal \in [Parties -> Seq(Commands)] /\ journal[q] \in Seq(Commands)
        /\ Len(acks[q]) \in Nat /\ Len(journal[q]) \in Nat
    BY DEF TypeOK
  <1>3. n \in 1..Len(journal[q]) /\ n > Len(acks[q])
    BY <1>2
  <1> DEFINE new == [journal[q][n] EXCEPT !.op = "gap"]
  <1>4. journal[q][n] \in Commands
    BY <1>2, <1>3
  <1>5. new \in Commands /\ new.op = "gap" /\ new.exec = journal[q][n].exec
    BY <1>4 DEF Commands
  <1>6. journal' = [journal EXCEPT ![q] = [journal[q] EXCEPT ![n] = new]]
    BY <1>1
  <1> HIDE DEF new
  <1>7. /\ [journal[q] EXCEPT ![n] = new] \in Seq(Commands)
        /\ Len([journal[q] EXCEPT ![n] = new]) = Len(journal[q])
        /\ \A m \in 1..Len(journal[q]) :
              [journal[q] EXCEPT ![n] = new][m] = IF m = n THEN new ELSE journal[q][m]
    BY <1>2, <1>3, <1>5, ExceptSeq
  <1>8. /\ journal' \in [Parties -> Seq(Commands)]
        /\ journal'[q] = [journal[q] EXCEPT ![n] = new]
        /\ \A p \in Parties : p # q => journal'[p] = journal[p]
    BY <1>2, <1>6, <1>7
  <1>9. ASSUME NEW p \in Parties
        PROVE  Grows(p)
    <2>1. CASE p = q
      BY <1>3, <1>5, <1>7, <1>8, <2>1 DEF Grows
    <2>2. CASE p # q
      <3>1. journal'[p] = journal[p] /\ Len(journal[p]) \in Nat
        BY <1>2, <1>8, <2>2
      <3>2. QED
        BY <3>1 DEF Grows
    <2>3. QED
      BY <2>1, <2>2
  <1>10. QED
    BY <1>8, <1>9

LEMMA SameGrows ==
  ASSUME TypeOK, UNCHANGED journal
  PROVE  \A p \in Parties : Grows(p)
  <1>1. \A p \in Parties : Len(journal[p]) \in Nat
    BY DEF TypeOK
  <1>2. QED
    BY <1>1 DEF Grows

\* What a step leaves true of a call's number.
LEMMA GrowsHolds ==
  ASSUME TypeOK, NEW p \in Parties, Grows(p), NEW n, NEW op, NEW e, Holds(p, n, op, e)
  PROVE  /\ n \in 1..Len(journal'[p])
         /\ journal'[p][n].exec = e
         /\ journal'[p][n].op \in {op, "gap"}
  <1>1. Len(journal[p]) \in Nat
    BY DEF TypeOK
  <1>2. Len(journal'[p]) >= Len(journal[p]) /\ n \in 1..Len(journal'[p])
    BY <1>1 DEF Grows, Holds
  <1>3. QED
    BY <1>2 DEF Grows, Holds

\* A step that applies nothing keeps what is said of the journals.
LEMMA JournalStays ==
  ASSUME IInv, UNCHANGED acks, \A p \in Parties : Grows(p),
         \A p \in Parties, e \in Executions : Ages(p, e)
  PROVE  \A p \in Parties : Journal(p)'
  <1> SUFFICES ASSUME NEW p \in Parties
               PROVE  Journal(p)'
    OBVIOUS
  <1>1. Journal(p) /\ Grows(p) /\ Len(acks[p]) \in Nat /\ Len(journal[p]) \in Nat
    BY DEF IInv, TypeOK
  <1>2. Len(journal'[p]) >= Len(journal[p])
    BY DEF Grows
  <1>3. \A n \in 1..Len(acks[p]) : n \in 1..Len(journal[p]) /\ journal'[p][n] = journal[p][n]
    BY <1>1 DEF Journal, Grows
  <1>4. \A n \in 1..Len(acks[p]) : journal[p][n].exec \in Executions
    <2>1. journal[p] \in Seq(Commands)
      BY DEF IInv, TypeOK
    <2>2. \A n \in 1..Len(journal[p]) : journal[p][n] \in Commands
      BY <2>1
    <2>3. QED
      BY <1>3, <2>2 DEF Commands
  <1>5. ASSUME NEW n \in 1..Len(acks'[p])
        PROVE  /\ journal'[p][n].op # "gap"
               /\ (acks'[p][n] = "event" /\ journal'[p][n].op = "prepare" =>
                      live'[p][journal'[p][n].exec] # "unknown")
    <2>1. n \in 1..Len(acks[p]) /\ acks'[p][n] = acks[p][n]
      OBVIOUS
    <2>2. journal'[p][n] = journal[p][n] /\ journal[p][n].exec \in Executions
      BY <1>3, <1>4, <2>1
    <2>3. Ages(p, journal[p][n].exec)
      BY <2>2
    <2>4. QED
      BY <1>1, <2>1, <2>2, <2>3 DEF Journal, Ages
  <1>6. Len(acks'[p]) <= Len(journal'[p])
    <2>1. Len(journal'[p]) >= Len(acks[p])
      BY <1>1, <1>2 DEF Journal, Grows
    <2>2. QED
      BY <2>1
  <1>7. QED
    BY <1>5, <1>6 DEF Journal

\* ... and of an admission and a cancel that it does not touch.
LEMMA AdmissionStays ==
  ASSUME IInv, \A p \in Parties : Grows(p),
         NEW e \in Executions, \A p \in Parties : Ages(p, e),
         UNCHANGED <<prepare[e], ticket[e]>>,
         status'[e] = "RUNNING" => status[e] = "RUNNING"
  PROVE  Admission(e)'
  <1>1. Admission(e) /\ TypeOK
    BY DEF IInv
  <1>2. ASSUME NEW p \in Parties, prepare'[e][p] = "waiting"
        PROVE  Holds(p, ticket[e][p], "prepare", e)'
    <2>1. Holds(p, ticket[e][p], "prepare", e)
      BY <1>1, <1>2 DEF Admission
    <2>2. Holds(p, ticket[e][p], "prepare", e) /\ Grows(p) => 
          /\ ticket[e][p] \in 1..Len(journal'[p])
          /\ journal'[p][ticket[e][p]].exec = e
          /\ journal'[p][ticket[e][p]].op \in {"prepare", "gap"}
      BY <1>1, GrowsHolds
    <2>3. QED
      BY <2>1, <2>2 DEF Holds
  <1>3. \A p \in Parties : live[p][e] # "unknown" => live'[p][e] # "unknown"
    BY DEF Ages
  <1>4. QED
    BY <1>1, <1>2, <1>3 DEF Admission

LEMMA CancelStays ==
  ASSUME IInv, UNCHANGED acks, \A p \in Parties : Grows(p),
         \A p \in Parties, e \in Executions : Ages(p, e),
         NEW c \in Requests,
         UNCHANGED <<request[c], target[c], seen[c], worker[c], index[c], slot[c], clean[c]>>
  PROVE  Cancel(c)'
  <1>1. Handler(c) /\ Calling(c) /\ Silenced(c)
    BY DEF IInv, Cancel
  <1>2. live \in [Parties -> [Executions -> {"unknown", "live", "ended"}]]
    BY DEF IInv, TypeOK
  <1>3. seen[c] = "RUNNING" => /\ target[c] \in Executions
                               /\ \A p \in Parties :
                                     /\ live[p][target[c]] # "unknown"
                                     /\ live'[p][target[c]] # "unknown"
                                     /\ live[p][target[c]] # "live" =>
                                           live'[p][target[c]] # "live"
    <2>1. ASSUME seen[c] = "RUNNING", NEW p \in Parties
          PROVE  /\ target[c] \in Executions /\ live[p][target[c]] # "unknown"
                 /\ live'[p][target[c]] # "unknown"
                 /\ live[p][target[c]] # "live" => live'[p][target[c]] # "live"
      <3>1. target[c] \in Executions /\ live[p][target[c]] # "unknown"
        BY <1>1, <2>1 DEF Handler
      <3>2. live[p][target[c]] \in {"unknown", "live", "ended"}
        BY <1>2, <3>1
      <3>3. QED
        BY <3>1, <3>2 DEF Ages
    <2>2. seen[c] = "RUNNING" => target[c] \in Executions
      BY <1>1 DEF Handler
    <2>3. QED
      BY <2>1, <2>2
  <1>4. Handler(c)'
    BY <1>1, <1>3 DEF Handler
  <1>5. Calling(c)'
    <2>1. ASSUME slot[c] # 0
          PROVE  Holds(index[c], slot[c], "cancel", target[c])' /\ index[c] \in Parties
      <3>1. index[c] \in Parties /\ Holds(index[c], slot[c], "cancel", target[c])
        BY <1>1, <2>1 DEF Calling, AtParty
      <3>2. TypeOK /\ Grows(index[c])
        BY <3>1 DEF IInv
      <3>3. QED
        BY <3>1, <3>2, GrowsHolds DEF Holds
    <2>2. QED
      BY <1>1, <1>3, <2>1 DEF Calling, AtParty, Applied
  <1>6. Silenced(c)'
    BY <1>1, <1>3 DEF Silenced, Behind
  <1>7. QED
    BY <1>4, <1>5, <1>6 DEF Cancel

\* A step that applies nothing, taken apart: each admission and each cancel is shown
\* anew or left as it is.
LEMMA StepKeeps ==
  ASSUME IInv, TypeOK', UNCHANGED acks, \A p \in Parties : Grows(p),
         \A p \in Parties, e \in Executions : Ages(p, e),
         \A e \in Executions :
            \/ Admission(e)'
            \/ /\ UNCHANGED <<prepare[e], ticket[e]>>
               /\ status'[e] = "RUNNING" => status[e] = "RUNNING",
         \A c \in Requests :
            \/ Cancel(c)'
            \/ UNCHANGED <<request[c], target[c], seen[c], worker[c], index[c], slot[c],
                          clean[c]>>
  PROVE  IInv'
  <1>1. \A p \in Parties : Journal(p)'
    BY JournalStays
  <1>2. ASSUME NEW e \in Executions
        PROVE  Admission(e)'
    <2>1. CASE UNCHANGED <<prepare[e], ticket[e]>> /\ (status'[e] = "RUNNING" => status[e] = "RUNNING")
      <3>1. \A p \in Parties : Ages(p, e)
        OBVIOUS
      <3>2. QED
        BY <2>1, <3>1, AdmissionStays
    <2>2. QED
      BY <2>1
  <1>3. ASSUME NEW c \in Requests
        PROVE  Cancel(c)'
    <2>1. CASE UNCHANGED <<request[c], target[c], seen[c], worker[c], index[c], slot[c],
                           clean[c]>>
      BY <2>1, CancelStays
    <2>2. QED
      BY <2>1
  <1>4. QED
    BY <1>1, <1>2, <1>3 DEF IInv

LEMMA SameAges ==
  ASSUME UNCHANGED live
  PROVE  \A p \in Parties, e \in Executions : Ages(p, e)
  BY DEF Ages

\* A send that fails grows the journal as well.
LEMMA SendFailsGrows ==
  ASSUME TypeOK, NEW q \in Parties, NEW op \in {"prepare", "cancel"},
         NEW e \in Executions, SendFails(q, op, e)
  PROVE  /\ journal' \in [Parties -> Seq(Commands)]
         /\ \A p \in Parties : Grows(p)
  <1>1. PICK sent \in {"filler", "gap", op} : Publish(q, sent, e)
    BY DEF SendFails
  <1>2. sent \in {"prepare", "cancel", "filler", "gap"}
    OBVIOUS
  <1>3. QED
    BY <1>1, <1>2, PublishGrows
-----------------------------------------------------------------------------
(* Admission *)

LEMMA SubmitStep ==
  ASSUME IInv, NEW e \in Executions, Submit(e), UNCHANGED faults
  PROVE  IInv'
  <1>1. TypeOK
    BY DEF IInv
  <1>2. TypeOK'
    BY <1>1 DEF TypeOK, Submit, cancelVars, partyVars, Statuses
  <1>3. \A p \in Parties : Grows(p)
    BY <1>1, SameGrows DEF Submit, partyVars
  <1>4. \A p \in Parties, f \in Executions : Ages(p, f)
    BY SameAges DEF Submit, partyVars
  <1>5. \A f \in Executions : status'[f] = "RUNNING" => status[f] = "RUNNING"
    BY <1>1 DEF TypeOK, Submit
  <1>6. QED
    BY <1>2, <1>3, <1>4, <1>5, StepKeeps DEF Submit, cancelVars, partyVars

\* The steps of an admission that touch neither a call nor RUNNING.
LEMMA AdmissionMoves ==
  ASSUME IInv, NEW e \in Executions, faults' \in 0..MaxFaults,
         InvokeAdmit(e) \/ InvokeAdmitRaises(e) \/ AdmitCrashes(e) \/ AdmitFails(e)
  PROVE  IInv'
  <1>1. TypeOK
    BY DEF IInv
  <1>2. /\ UNCHANGED <<prepare, ticket, cancelVars, partyVars>>
        /\ status' \in [Executions -> Statuses]
        /\ finished' \in [Executions -> BOOLEAN]
        /\ \A f \in Executions : status'[f] = "RUNNING" => status[f] = "RUNNING"
    <2>1. CASE AdmitFails(e)
      <3>1. status' = [status EXCEPT ![e] = "FAILED"] /\ "FAILED" \in Statuses
        BY <2>1 DEF AdmitFails, Statuses, TERMINAL_STATUSES
      <3>2. finished' = [finished EXCEPT ![e] = TRUE]
        BY <2>1 DEF AdmitFails
      <3>3. UNCHANGED <<prepare, ticket, cancelVars, partyVars>>
        BY <2>1 DEF AdmitFails
      <3>4. status \in [Executions -> Statuses] /\ finished \in [Executions -> BOOLEAN]
        BY <1>1 DEF TypeOK
      <3>5. QED
        BY <3>1, <3>2, <3>3, <3>4
    <2>2. CASE InvokeAdmit(e) \/ InvokeAdmitRaises(e) \/ AdmitCrashes(e)
      <3>1. UNCHANGED <<row, prepare, ticket, cancelVars, partyVars>>
        BY <2>2 DEF InvokeAdmit, InvokeAdmitRaises, AdmitCrashes
      <3>2. QED
        BY <1>1, <3>1 DEF TypeOK, row
    <2>3. QED
      BY <2>1, <2>2
  <1>3. admit' \in [Executions -> {"idle", "stored", "lost", "invoked", "done",
                                   "crashed", "killed"}]
    <2>1. \E r \in {"invoked", "lost", "crashed", "done"} : admit' = [admit EXCEPT ![e] = r]
      BY DEF InvokeAdmit, InvokeAdmitRaises, AdmitCrashes, AdmitFails
    <2>2. QED
      BY <1>1, <2>1 DEF TypeOK
  <1>4. TypeOK'
    BY <1>1, <1>2, <1>3 DEF TypeOK, cancelVars, partyVars
  <1>5. \A p \in Parties : Grows(p)
    BY <1>1, <1>2, SameGrows DEF partyVars
  <1>6. \A p \in Parties, f \in Executions : Ages(p, f)
    BY <1>2, SameAges DEF partyVars
  <1>7. QED
    BY <1>2, <1>4, <1>5, <1>6, StepKeeps DEF cancelVars, partyVars

LEMMA SucceedStep ==
  ASSUME IInv, NEW e \in Executions, AdmitSucceeds(e), UNCHANGED faults
  PROVE  IInv'
  <1>1. TypeOK /\ Admission(e)
    BY DEF IInv
  <1>2. TypeOK'
    BY <1>1 DEF TypeOK, AdmitSucceeds, cancelVars, partyVars, Statuses
  <1>3. \A p \in Parties : Grows(p)
    BY <1>1, SameGrows DEF AdmitSucceeds, partyVars
  <1>4. \A p \in Parties, f \in Executions : Ages(p, f)
    BY SameAges DEF AdmitSucceeds, partyVars
  <1>5. Admission(e)'
    BY <1>1 DEF Admission, Holds, AdmitSucceeds, partyVars
  <1>6. \A f \in Executions : f # e => status'[f] = status[f]
    BY <1>1 DEF TypeOK, AdmitSucceeds
  <1>7. QED
    BY <1>2, <1>3, <1>4, <1>5, <1>6, StepKeeps DEF AdmitSucceeds, cancelVars, partyVars

\* A call ends without having been waited for, or is given up.
LEMMA CallEndsStep ==
  ASSUME IInv, NEW e \in Executions, NEW q \in Parties, faults' \in 0..MaxFaults,
         PrepareTimesOut(e, q) \/ PrepareWaitRaises(e, q) \/ PrepareAcked(e, q)
  PROVE  IInv'
  <1>1. TypeOK /\ Admission(e) /\ Journal(q)
    BY DEF IInv
  <1>2. /\ UNCHANGED <<row, admit, cancelVars, partyVars>>
        /\ ticket' = [ticket EXCEPT ![e][q] = 0]
    BY DEF PrepareTimesOut, PrepareWaitRaises, PrepareAcked
  <1>3. PICK r \in {"ok", "error", "raised"} :
           /\ prepare' = [prepare EXCEPT ![e][q] = r]
           /\ r = "ok" => live[q][e] # "unknown"
    <2>1. CASE PrepareTimesOut(e, q) \/ PrepareWaitRaises(e, q)
      BY <2>1 DEF PrepareTimesOut, PrepareWaitRaises
    <2>2. CASE PrepareAcked(e, q)
      <3>1. Holds(q, ticket[e][q], "prepare", e) /\ ticket[e][q] \in 1..Len(acks[q])
        BY <1>1, <2>2 DEF PrepareAcked, Admission, Applied
      <3>2. acks[q][ticket[e][q]] = "event" => live[q][e] # "unknown"
        BY <1>1, <3>1 DEF Holds, Journal
      <3>3. QED
        BY <2>2, <3>2 DEF PrepareAcked
    <2>3. QED
      BY <2>1, <2>2
  <1>4. /\ prepare' \in [Executions -> [Parties -> {"todo", "waiting", "ok", "error",
                                                    "raised"}]]
        /\ prepare'[e][q] = r
        /\ \A p \in Parties : p # q => prepare'[e][p] = prepare[e][p]
        /\ \A f \in Executions : f # e => prepare'[f] = prepare[f]
    <2>1. r \in {"todo", "waiting", "ok", "error", "raised"}
      BY <1>3
    <2>2. prepare \in [Executions -> [Parties -> {"todo", "waiting", "ok", "error",
                                                 "raised"}]]
      BY <1>1 DEF TypeOK
    <2>3. prepare' = [prepare EXCEPT ![e] = [prepare[e] EXCEPT ![q] = r]]
      BY <1>3
    <2>4. [prepare[e] EXCEPT ![q] = r] \in
             [Parties -> {"todo", "waiting", "ok", "error", "raised"}]
      BY <2>1, <2>2
    <2>5. QED
      BY <2>2, <2>3, <2>4
  <1>5. /\ ticket' \in [Executions -> [Parties -> Nat]]
        /\ \A p \in Parties : p # q => ticket'[e][p] = ticket[e][p]
        /\ \A f \in Executions : f # e => ticket'[f] = ticket[f]
    BY <1>1, <1>2 DEF TypeOK
  <1>6. TypeOK'
    BY <1>1, <1>2, <1>4, <1>5 DEF TypeOK, row, cancelVars, partyVars
  <1>7. \A p \in Parties : Grows(p)
    BY <1>1, <1>2, SameGrows DEF partyVars
  <1>8. \A p \in Parties, f \in Executions : Ages(p, f)
    BY <1>2, SameAges DEF partyVars
  <1>9. Admission(e)'
    <2>1. ASSUME NEW p \in Parties
          PROVE  /\ prepare'[e][p] = "waiting" =>
                       prepare[e][p] = "waiting" /\ ticket'[e][p] = ticket[e][p]
                 /\ prepare'[e][p] = "ok" => live[p][e] # "unknown"
      BY <1>1, <1>3, <1>4, <1>5 DEF Admission
    <2>2. UNCHANGED <<status, journal, live>>
      BY <1>2 DEF row, partyVars
    <2>3. QED
      BY <1>1, <2>1, <2>2 DEF Admission, Holds
  <1>10. QED
    BY <1>2, <1>4, <1>5, <1>6, <1>7, <1>8, <1>9, StepKeeps DEF row, cancelVars, partyVars

LEMMA PublishStep ==
  ASSUME IInv, NEW e \in Executions, NEW q \in Parties, UNCHANGED faults,
         PreparePublishes(e, q)
  PROVE  IInv'
  <1>1. TypeOK /\ Admission(e)
    BY DEF IInv
  <1>2. /\ UNCHANGED <<row, admit, cancelVars, acks, live>>
        /\ prepare' = [prepare EXCEPT ![e][q] = "waiting"]
        /\ ticket' = [ticket EXCEPT ![e][q] = NextNumber(q)]
        /\ Publish(q, "prepare", e)
    BY DEF PreparePublishes
  <1>3. /\ journal' \in [Parties -> Seq(Commands)]
        /\ NextNumber(q) \in 1..Len(journal'[q])
        /\ journal'[q][NextNumber(q)].op = "prepare"
        /\ journal'[q][NextNumber(q)].exec = e
        /\ \A p \in Parties : Grows(p)
    BY <1>1, <1>2, PublishGrows
  <1>4. NextNumber(q) \in Nat
    BY <1>1 DEF TypeOK, NextNumber
  <1>5. /\ prepare' \in [Executions -> [Parties -> {"todo", "waiting", "ok", "error",
                                                    "raised"}]]
        /\ prepare'[e][q] = "waiting"
        /\ \A p \in Parties : p # q => prepare'[e][p] = prepare[e][p]
        /\ \A f \in Executions : f # e => prepare'[f] = prepare[f]
    BY <1>1, <1>2 DEF TypeOK
  <1>6. /\ ticket' \in [Executions -> [Parties -> Nat]]
        /\ ticket'[e][q] = NextNumber(q)
        /\ \A p \in Parties : p # q => ticket'[e][p] = ticket[e][p]
        /\ \A f \in Executions : f # e => ticket'[f] = ticket[f]
    BY <1>1, <1>2, <1>4 DEF TypeOK
  <1>7. TypeOK'
    BY <1>1, <1>2, <1>3, <1>5, <1>6 DEF TypeOK, row, cancelVars
  <1>8. \A p \in Parties, f \in Executions : Ages(p, f)
    BY <1>2, SameAges
  <1>9. ASSUME NEW p \in Parties, prepare'[e][p] = "waiting"
        PROVE  /\ ticket'[e][p] \in 1..Len(journal'[p])
               /\ journal'[p][ticket'[e][p]].exec = e
               /\ journal'[p][ticket'[e][p]].op \in {"prepare", "gap"}
    <2>1. CASE p = q
      BY <1>3, <1>6, <2>1
    <2>2. CASE p # q
      <3>1. Holds(p, ticket[e][p], "prepare", e) /\ ticket'[e][p] = ticket[e][p]
        BY <1>1, <1>5, <1>6, <1>9, <2>2 DEF Admission
      <3>2. QED
        BY <1>1, <1>3, <3>1, GrowsHolds
    <2>3. QED
      BY <2>1, <2>2
  <1>10. Admission(e)'
    BY <1>1, <1>2, <1>5, <1>9 DEF Admission, Holds, row
  <1>11. QED
    BY <1>2, <1>3, <1>5, <1>6, <1>7, <1>8, <1>10, StepKeeps DEF row, cancelVars

LEMMA SendRaisesStep ==
  ASSUME IInv, NEW e \in Executions, NEW q \in Parties, faults' \in 0..MaxFaults,
         PrepareSendRaises(e, q)
  PROVE  IInv'
  <1>1. TypeOK /\ Admission(e)
    BY DEF IInv
  <1>2. /\ UNCHANGED <<row, admit, ticket, cancelVars, acks, live>>
        /\ prepare' = [prepare EXCEPT ![e][q] = "raised"]
        /\ SendFails(q, "prepare", e)
    BY DEF PrepareSendRaises
  <1>3. journal' \in [Parties -> Seq(Commands)] /\ \A p \in Parties : Grows(p)
    BY <1>1, <1>2, SendFailsGrows
  <1>4. /\ prepare' \in [Executions -> [Parties -> {"todo", "waiting", "ok", "error",
                                                    "raised"}]]
        /\ prepare'[e][q] = "raised"
        /\ \A p \in Parties : p # q => prepare'[e][p] = prepare[e][p]
        /\ \A f \in Executions : f # e => prepare'[f] = prepare[f]
    BY <1>1, <1>2 DEF TypeOK
  <1>5. TypeOK'
    BY <1>1, <1>2, <1>3, <1>4 DEF TypeOK, row, cancelVars
  <1>6. \A p \in Parties, f \in Executions : Ages(p, f)
    BY <1>2, SameAges
  <1>7. ASSUME NEW p \in Parties, prepare'[e][p] = "waiting"
        PROVE  /\ ticket[e][p] \in 1..Len(journal'[p])
               /\ journal'[p][ticket[e][p]].exec = e
               /\ journal'[p][ticket[e][p]].op \in {"prepare", "gap"}
    <2>1. Holds(p, ticket[e][p], "prepare", e)
      BY <1>1, <1>4, <1>7 DEF Admission
    <2>2. QED
      BY <1>1, <1>3, <2>1, GrowsHolds
  <1>8. Admission(e)'
    BY <1>1, <1>2, <1>4, <1>7 DEF Admission, Holds, row
  <1>9. QED
    BY <1>2, <1>3, <1>4, <1>5, <1>6, <1>8, StepKeeps DEF row, cancelVars

\* Several parties may get a gap at once.
LEMMA KilledStep ==
  ASSUME IInv, NEW e \in Executions, faults' \in 0..MaxFaults, AdmitKilled(e)
  PROVE  IInv'
  <1>1. TypeOK
    BY DEF IInv
  <1> DEFINE gap == [op |-> "gap", exec |-> e]
  <1>2. PICK ps \in SUBSET {p \in Parties : prepare[e][p] = "todo"} :
           journal' = [p \in Parties |-> IF p \in ps THEN Append(journal[p], gap)
                                                    ELSE journal[p]]
    BY DEF AdmitKilled
  <1>3. gap \in Commands
    BY DEF Commands
  <1> HIDE DEF gap
  <1>4. \A p \in Parties : journal[p] \in Seq(Commands)
    BY <1>1 DEF TypeOK
  <1>5. ASSUME NEW p \in Parties
        PROVE  journal'[p] \in Seq(Commands) /\ Grows(p)
    <2>1. CASE p \in ps
      <3>1. journal'[p] = Append(journal[p], gap)
        BY <1>2, <2>1
      <3>2. /\ Append(journal[p], gap) \in Seq(Commands)
            /\ Len(Append(journal[p], gap)) = Len(journal[p]) + 1
            /\ \A n \in 1..Len(journal[p]) : Append(journal[p], gap)[n] = journal[p][n]
        BY <1>3, <1>4, AppendProperties
      <3>3. Len(journal[p]) \in Nat
        BY <1>4
      <3>4. QED
        BY <3>1, <3>2, <3>3 DEF Grows
    <2>2. CASE p \notin ps
      <3>1. journal'[p] = journal[p] /\ Len(journal[p]) \in Nat
        BY <1>2, <1>4, <2>2
      <3>2. QED
        BY <1>4, <3>1 DEF Grows
    <2>3. QED
      BY <2>1, <2>2
  <1>6. journal' \in [Parties -> Seq(Commands)]
    BY <1>2, <1>5
  <1>7. /\ UNCHANGED <<row, prepare, ticket, cancelVars, acks, live>>
        /\ admit' = [admit EXCEPT ![e] = "killed"]
    BY DEF AdmitKilled
  <1>8. TypeOK'
    BY <1>1, <1>6, <1>7 DEF TypeOK, row, cancelVars
  <1>9. \A p \in Parties, f \in Executions : Ages(p, f)
    BY <1>7, SameAges
  <1>10. QED
    BY <1>5, <1>7, <1>8, <1>9, StepKeeps DEF row, cancelVars
-----------------------------------------------------------------------------
(* Cancels *)

\* A step of one cancel that leaves the parties and the admissions alone, except that it
\* may publish.
LEMMA CancelKeeps ==
  ASSUME IInv, NEW c \in Requests, TypeOK', UNCHANGED <<admitVars, acks, live>>,
         \A p \in Parties : Grows(p),
         \A e \in Executions : status'[e] = "RUNNING" => status[e] = "RUNNING",
         \A d \in Requests \ {c} :
            UNCHANGED <<request[d], target[d], seen[d], worker[d], index[d], slot[d],
                        clean[d]>>,
         Cancel(c)'
  PROVE  IInv'
  <1>1. \A p \in Parties, e \in Executions : Ages(p, e)
    BY SameAges
  <1>2. \A d \in Requests :
           \/ Cancel(d)'
           \/ UNCHANGED <<request[d], target[d], seen[d], worker[d], index[d], slot[d],
                          clean[d]>>
    <2>1. ASSUME NEW d \in Requests
          PROVE  \/ Cancel(d)'
                 \/ UNCHANGED <<request[d], target[d], seen[d], worker[d], index[d],
                                slot[d], clean[d]>>
      <3>1. CASE d = c
        BY <3>1
      <3>2. CASE d # c
        <4>1. d \in Requests \ {c}
          BY <3>2
        <4>2. QED
          BY <4>1
      <3>3. QED
        BY <3>1, <3>2
    <2>2. QED
      BY <2>1
  <1>3. QED
    BY <1>1, <1>2, StepKeeps DEF admitVars

LEMMA ReadsStep ==
  ASSUME IInv, NEW c \in Requests, NEW e \in Executions, CancelReads(c, e),
         UNCHANGED faults
  PROVE  IInv'
  <1>1. TypeOK /\ Handler(c) /\ Calling(c) /\ Admission(e)
    BY DEF IInv, Cancel
  <1>2. PICK r \in {"read", "done"} : request' = [request EXCEPT ![c] = r]
    BY DEF CancelReads
  <1>3. /\ request[c] = "idle"
        /\ seen' = [seen EXCEPT ![c] = status[e]]
        /\ target' = [target EXCEPT ![c] = e]
        /\ UNCHANGED <<row, admitVars, worker, index, slot, attempts, clean, partyVars>>
    BY DEF CancelReads
  <1>4. TypeOK'
    BY <1>1, <1>2, <1>3 DEF TypeOK, row, admitVars, partyVars
  <1>5. \A p \in Parties : Grows(p)
    BY <1>1, <1>3, SameGrows DEF partyVars
  <1>6. request'[c] = r /\ seen'[c] = status[e] /\ target'[c] = e
    BY <1>1, <1>2, <1>3 DEF TypeOK
  <1>7. worker[c] = "none" /\ index[c] = 1 /\ slot[c] = 0
    BY <1>1, <1>3 DEF Handler
  <1>8. Cancel(c)'
    BY <1>1, <1>3, <1>6, <1>7
       DEF Cancel, Handler, Calling, Silenced, Behind, Admission, partyVars
  <1>9. \A d \in Requests \ {c} : request'[d] = request[d] /\ target'[d] = target[d]
                                  /\ seen'[d] = seen[d]
    BY <1>1, <1>2, <1>3 DEF TypeOK
  <1>10. QED
    BY <1>3, <1>4, <1>5, <1>8, <1>9, CancelKeeps DEF row, partyVars

\* The handler's other steps.
LEMMA HandlerStep ==
  ASSUME IInv, NEW c \in Requests, faults' \in 0..MaxFaults,
         CancelWrites(c) \/ CancelInvokes(c) \/ CancelInvokeRaises(c)
  PROVE  IInv'
  <1>1. TypeOK /\ Handler(c) /\ Calling(c) /\ Silenced(c)
    BY DEF IInv, Cancel
  <1>2. /\ UNCHANGED <<finished, admitVars, target, seen, index, slot, attempts, clean,
                       partyVars>>
        /\ request[c] \in {"read", "written"}
    BY DEF CancelWrites, CancelInvokes, CancelInvokeRaises, row
  <1>3. PICK r \in {"written", "done"}, w \in {"none", "queued"} :
           /\ request' = [request EXCEPT ![c] = r]
           /\ worker' = [worker EXCEPT ![c] = w]
           /\ r = "written" => w = "none"
    <2>1. worker[c] = "none" /\ worker = [worker EXCEPT ![c] = "none"]
      BY <1>1, <1>2 DEF Handler, TypeOK
    <2>2. CASE CancelWrites(c)
      BY <2>1, <2>2 DEF CancelWrites
    <2>3. CASE CancelInvokes(c)
      BY <2>3 DEF CancelInvokes
    <2>4. CASE CancelInvokeRaises(c)
      BY <2>1, <2>4 DEF CancelInvokeRaises
    <2>5. QED
      BY <2>2, <2>3, <2>4
  <1>4. /\ status' \in [Executions -> Statuses]
        /\ \A e \in Executions : status'[e] = "RUNNING" => status[e] = "RUNNING"
    <2>1. CASE UNCHANGED status
      BY <1>1, <2>1 DEF TypeOK
    <2>2. CASE status' = [status EXCEPT ![target[c]] = "CANCELLING"]
      BY <1>1, <2>2 DEF TypeOK, Statuses
    <2>3. QED
      BY <2>1, <2>2 DEF CancelWrites, CancelInvokes, CancelInvokeRaises, row
  <1>5. TypeOK'
    BY <1>1, <1>2, <1>3, <1>4 DEF TypeOK, admitVars, partyVars
  <1>6. \A p \in Parties : Grows(p)
    BY <1>1, <1>2, SameGrows DEF partyVars
  <1>7. request'[c] = r /\ worker'[c] = w
    BY <1>1, <1>3 DEF TypeOK
  <1>8. worker[c] = "none" /\ index[c] = 1 /\ slot[c] = 0
    BY <1>1, <1>2 DEF Handler
  <1>9. Cancel(c)'
    BY <1>1, <1>2, <1>3, <1>7, <1>8
       DEF Cancel, Handler, Calling, Silenced, Behind, partyVars
  <1>10. \A d \in Requests \ {c} : request'[d] = request[d] /\ worker'[d] = worker[d]
    BY <1>1, <1>3 DEF TypeOK
  <1>11. QED
    BY <1>2, <1>4, <1>5, <1>6, <1>9, <1>10, CancelKeeps DEF partyVars

\* What a worker that runs, or may, works for.
LEMMA WorkerTarget ==
  ASSUME IInv, NEW c \in Requests, worker[c] # "none"
  PROVE  request[c] = "done" /\ target[c] \in Executions
  BY DEF IInv, Cancel, Handler

LEMMA StartsStep ==
  ASSUME IInv, NEW c \in Requests, WorkerStarts(c), UNCHANGED faults
  PROVE  IInv'
  <1>1. TypeOK /\ Handler(c) /\ Calling(c)
    BY DEF IInv, Cancel
  <1>2. /\ worker[c] = "queued" /\ attempts[c] < MaxAttempts
        /\ worker' = [worker EXCEPT ![c] = "running"]
        /\ attempts' = [attempts EXCEPT ![c] = attempts[c] + 1]
        /\ clean' = [clean EXCEPT ![c] = TRUE]
        /\ UNCHANGED <<row, admitVars, request, target, seen, index, slot, partyVars>>
    BY DEF WorkerStarts
  <1>3. attempts[c] + 1 \in 0..MaxAttempts
    BY <1>1, <1>2, ExecutionsAssumption DEF TypeOK
  <1>4. attempts' \in [Requests -> 0..MaxAttempts]
    BY <1>1, <1>2, <1>3 DEF TypeOK
  <1>5. clean' \in [Requests -> BOOLEAN]
    BY <1>1, <1>2 DEF TypeOK
  <1>6. TypeOK'
    BY <1>1, <1>2, <1>4, <1>5 DEF TypeOK, row, admitVars, partyVars
  <1>7. \A p \in Parties : Grows(p)
    BY <1>1, <1>2, SameGrows DEF partyVars
  <1>8. worker'[c] = "running" /\ index[c] = 1 /\ slot[c] = 0
    BY <1>1, <1>2 DEF TypeOK, Handler
  <1>9. request[c] = "done"
    BY <1>2, WorkerTarget
  <1>10. Cancel(c)'
    <2>1. \A p \in Parties : ~(p < 1)
      BY DEF Parties
    <2>2. QED
      BY <1>1, <1>2, <1>8, <1>9, <2>1
         DEF Cancel, Handler, Calling, Silenced, Behind, partyVars
  <1>11. \A d \in Requests \ {c} : worker'[d] = worker[d] /\ clean'[d] = clean[d]
    BY <1>1, <1>2 DEF TypeOK
  <1>12. QED
    BY <1>2, <1>6, <1>7, <1>10, <1>11, CancelKeeps DEF row, partyVars

LEMMA WorkerPublishesStep ==
  ASSUME IInv, NEW c \in Requests, WorkerPublishes(c), UNCHANGED faults
  PROVE  IInv'
  <1>1. TypeOK /\ Handler(c) /\ Silenced(c)
    BY DEF IInv, Cancel
  <1>2. /\ AtParty(c) /\ slot[c] = 0
        /\ Publish(index[c], "cancel", target[c])
        /\ slot' = [slot EXCEPT ![c] = NextNumber(index[c])]
        /\ UNCHANGED <<row, admitVars, request, target, seen, worker, index, attempts,
                       clean, acks, live>>
    BY DEF WorkerPublishes
  <1>3. index[c] \in Parties /\ worker[c] = "running" /\ target[c] \in Executions
    BY <1>2, WorkerTarget DEF AtParty
  <1>4. /\ journal' \in [Parties -> Seq(Commands)]
        /\ NextNumber(index[c]) \in 1..Len(journal'[index[c]])
        /\ journal'[index[c]][NextNumber(index[c])].op = "cancel"
        /\ journal'[index[c]][NextNumber(index[c])].exec = target[c]
        /\ \A p \in Parties : Grows(p)
    BY <1>1, <1>2, <1>3, PublishGrows
  <1>5. NextNumber(index[c]) \in Nat /\ ~Applied(index[c], NextNumber(index[c]))
    <2>1. Journal(index[c]) /\ Len(journal[index[c]]) \in Nat /\ Len(acks[index[c]]) \in Nat
      BY <1>3 DEF IInv, TypeOK
    <2>2. QED
      BY <2>1 DEF Journal, Applied, NextNumber
  <1>6. /\ slot' \in [Requests -> Nat] /\ slot'[c] = NextNumber(index[c])
        /\ \A d \in Requests \ {c} : slot'[d] = slot[d]
    BY <1>1, <1>2, <1>5 DEF TypeOK
  <1>7. TypeOK'
    BY <1>1, <1>2, <1>4, <1>6 DEF TypeOK, row, admitVars
  <1>8. Handler(c)' /\ Silenced(c)'
    BY <1>1, <1>2, <1>3 DEF Handler, Silenced, Behind
  <1>9. Calling(c)'
    BY <1>2, <1>3, <1>4, <1>5, <1>6 DEF Calling, AtParty, Applied, Holds
  <1>10. Cancel(c)'
    BY <1>8, <1>9 DEF Cancel
  <1>11. QED
    BY <1>2, <1>4, <1>6, <1>7, <1>10, CancelKeeps DEF row

\* The worker goes on to the next party: this one has applied its call, or an exception
\* was swallowed.
LEMMA WorkerMovesStep ==
  ASSUME IInv, NEW c \in Requests, faults' \in 0..MaxFaults,
         WorkerAcked(c) \/ WorkerTimesOut(c) \/ WorkerSendRaises(c)
  PROVE  IInv'
  <1>1. TypeOK /\ Handler(c) /\ Calling(c) /\ Silenced(c)
    BY DEF IInv, Cancel
  <1>2. /\ AtParty(c)
        /\ index' = [index EXCEPT ![c] = index[c] + 1]
        /\ slot' = [slot EXCEPT ![c] = 0]
        /\ UNCHANGED <<row, admitVars, request, target, seen, worker, attempts, acks, live>>
    BY DEF WorkerAcked, WorkerTimesOut, WorkerSendRaises, WorkerSwallows, partyVars
  <1>3. index[c] \in 1..N /\ worker[c] = "running" /\ target[c] \in Executions
    BY <1>2, WorkerTarget DEF AtParty, Parties
  <1>4. journal' \in [Parties -> Seq(Commands)] /\ \A p \in Parties : Grows(p)
    <2>1. CASE UNCHANGED journal
      BY <1>1, <2>1, SameGrows DEF TypeOK
    <2>2. CASE SendFails(index[c], "cancel", target[c])
      BY <1>1, <1>3, <2>2, SendFailsGrows DEF Parties
    <2>3. QED
      BY <2>1, <2>2 DEF WorkerAcked, WorkerTimesOut, WorkerSendRaises, partyVars
  <1>5. /\ clean' \in [Requests -> BOOLEAN]
        /\ \A d \in Requests \ {c} : clean'[d] = clean[d]
        /\ clean'[c] => WorkerAcked(c) /\ clean[c]
    <2>1. CASE WorkerAcked(c)
      BY <1>1, <2>1 DEF TypeOK, WorkerAcked
    <2>2. CASE WorkerSwallows(c)
      BY <1>1, <2>2 DEF TypeOK, WorkerSwallows
    <2>3. QED
      BY <2>1, <2>2 DEF WorkerTimesOut, WorkerSendRaises
  <1>6. index[c] + 1 \in 1..(N + 1)
    BY <1>3, ExecutionsAssumption
  <1>7. /\ index' \in [Requests -> 1..(N + 1)] /\ index'[c] = index[c] + 1
        /\ slot' \in [Requests -> Nat] /\ slot'[c] = 0
        /\ \A d \in Requests \ {c} : index'[d] = index[d] /\ slot'[d] = slot[d]
    BY <1>1, <1>2, <1>6 DEF TypeOK
  <1>8. TypeOK'
    BY <1>1, <1>2, <1>4, <1>5, <1>7 DEF TypeOK, row, admitVars
  <1>9. Handler(c)' /\ Calling(c)'
    BY <1>1, <1>2, <1>3, <1>7 DEF Handler, Calling
  <1>10. Silenced(c)'
    <2>1. SUFFICES ASSUME clean'[c], seen[c] = "RUNNING", NEW p \in Parties,
                          p < index[c] + 1
                   PROVE  live[p][target[c]] # "live"
      BY <1>2, <1>3, <1>7 DEF Silenced, Behind
    <2>2. slot[c] # 0 /\ Applied(index[c], slot[c]) /\ clean[c]
      BY <1>5, <2>1 DEF WorkerAcked
    <2>3. p < index[c] \/ p = index[c]
      BY <1>3, <2>1, ExecutionsAssumption DEF Parties
    <2>4. QED
      BY <1>1, <1>3, <2>1, <2>2, <2>3 DEF Silenced, Behind, Calling
  <1>11. Cancel(c)'
    BY <1>9, <1>10 DEF Cancel
  <1>12. QED
    BY <1>2, <1>4, <1>5, <1>7, <1>8, <1>11, CancelKeeps DEF row

LEMMA FinishesStep ==
  ASSUME IInv, NEW c \in Requests, WorkerFinishes(c), UNCHANGED faults
  PROVE  IInv'
  <1>1. TypeOK /\ Handler(c) /\ Calling(c) /\ Silenced(c)
    BY DEF IInv, Cancel
  <1>2. /\ worker[c] = "running" /\ index[c] = N + 1
        /\ worker' = [worker EXCEPT ![c] = "done"]
        /\ index' = [index EXCEPT ![c] = 1]
        /\ UNCHANGED <<admitVars, request, target, seen, slot, attempts, clean, partyVars>>
    BY DEF WorkerFinishes
  <1>3. request[c] = "done" /\ target[c] \in Executions
    BY <1>2, WorkerTarget
  <1>4. /\ status' \in [Executions -> Statuses] /\ finished' \in [Executions -> BOOLEAN]
        /\ \A e \in Executions : status'[e] = "RUNNING" => status[e] = "RUNNING"
    <2>1. CASE UNCHANGED row
      BY <1>1, <2>1 DEF TypeOK, row
    <2>2. CASE /\ status' = [status EXCEPT ![target[c]] = "CANCELLED"]
               /\ finished' = [finished EXCEPT ![target[c]] = TRUE]
      BY <1>1, <2>2 DEF TypeOK, Statuses, TERMINAL_STATUSES
    <2>3. QED
      BY <2>1, <2>2 DEF WorkerFinishes
  <1>5. 1 \in 1..(N + 1) /\ N + 1 \notin Parties /\ \A p \in Parties : p < N + 1
    BY ExecutionsAssumption DEF Parties
  <1>6. /\ worker' \in [Requests -> {"none", "queued", "running", "done", "dead"}]
        /\ index' \in [Requests -> 1..(N + 1)]
        /\ worker'[c] = "done" /\ index'[c] = 1
        /\ \A d \in Requests \ {c} : worker'[d] = worker[d] /\ index'[d] = index[d]
    BY <1>1, <1>2, <1>5 DEF TypeOK
  <1>7. TypeOK'
    BY <1>1, <1>2, <1>4, <1>6 DEF TypeOK, admitVars, partyVars
  <1>8. \A p \in Parties : Grows(p)
    BY <1>1, <1>2, SameGrows DEF partyVars
  <1>9. slot[c] = 0
    BY <1>1, <1>2, <1>5 DEF Calling, AtParty
  <1>10. Handler(c)' /\ Calling(c)'
    BY <1>1, <1>2, <1>3, <1>6, <1>9 DEF Handler, Calling, partyVars
  <1>11. Silenced(c)'
    BY <1>1, <1>2, <1>5 DEF Silenced, Behind, partyVars
  <1>12. Cancel(c)'
    BY <1>10, <1>11 DEF Cancel
  <1>13. QED
    BY <1>2, <1>4, <1>6, <1>7, <1>8, <1>12, CancelKeeps DEF partyVars

LEMMA WorkerKilledStep ==
  ASSUME IInv, NEW c \in Requests, WorkerKilled(c), faults' \in 0..MaxFaults
  PROVE  IInv'
  <1>1. TypeOK /\ Handler(c)
    BY DEF IInv, Cancel
  <1>2. /\ worker[c] = "running"
        /\ index' = [index EXCEPT ![c] = 1]
        /\ slot' = [slot EXCEPT ![c] = 0]
        /\ UNCHANGED <<row, admitVars, request, target, seen, attempts, clean, acks, live>>
    BY DEF WorkerKilled
  <1>3. PICK w \in {"queued", "dead"} : worker' = [worker EXCEPT ![c] = w]
    BY DEF WorkerKilled
  <1>4. request[c] = "done" /\ target[c] \in Executions
    BY <1>2, WorkerTarget
  <1>5. journal' \in [Parties -> Seq(Commands)] /\ \A p \in Parties : Grows(p)
    <2>1. CASE UNCHANGED journal
      BY <1>1, <2>1, SameGrows DEF TypeOK
    <2>2. CASE AtParty(c) /\ Publish(index[c], "gap", target[c])
      BY <1>1, <1>4, <2>2, PublishGrows DEF AtParty
    <2>3. QED
      BY <2>1, <2>2 DEF WorkerKilled
  <1>6. 1 \in 1..(N + 1)
    BY ExecutionsAssumption
  <1>7. /\ worker' \in [Requests -> {"none", "queued", "running", "done", "dead"}]
        /\ worker'[c] = w /\ \A d \in Requests \ {c} : worker'[d] = worker[d]
    BY <1>1, <1>3 DEF TypeOK
  <1>8. /\ index' \in [Requests -> 1..(N + 1)] /\ slot' \in [Requests -> Nat]
        /\ index'[c] = 1 /\ slot'[c] = 0
        /\ \A d \in Requests \ {c} : index'[d] = index[d] /\ slot'[d] = slot[d]
    BY <1>1, <1>2, <1>6 DEF TypeOK
  <1>9. TypeOK'
    BY <1>1, <1>2, <1>5, <1>7, <1>8 DEF TypeOK, row, admitVars
  <1>10. Cancel(c)'
    BY <1>1, <1>2, <1>4, <1>7, <1>8 DEF Cancel, Handler, Calling, Silenced, Behind
  <1>11. QED
    BY <1>2, <1>5, <1>7, <1>8, <1>9, <1>10, CancelKeeps DEF row
-----------------------------------------------------------------------------
(* The parties' steps, and the commands lost on the way *)

LEMMA LostStep ==
  ASSUME IInv, NEW q \in Parties, faults' \in 0..MaxFaults,
         CommandDropped(q) \/ NumberBurnt(q)
  PROVE  IInv'
  <1>1. TypeOK
    BY DEF IInv
  <1>2. UNCHANGED <<row, admitVars, cancelVars, acks, live>>
    BY DEF CommandDropped, NumberBurnt
  <1>3. journal' \in [Parties -> Seq(Commands)] /\ \A p \in Parties : Grows(p)
    <2>1. CASE CommandDropped(q)
      BY <1>1, <2>1, DropGrows
    <2>2. CASE NumberBurnt(q)
      <3>1. PICK e \in Executions : Publish(q, "gap", e)
        BY <2>2 DEF NumberBurnt
      <3>2. QED
        BY <1>1, <3>1, PublishGrows
    <2>3. QED
      BY <2>1, <2>2
  <1>4. TypeOK'
    BY <1>1, <1>2, <1>3 DEF TypeOK, row, admitVars, cancelVars
  <1>5. \A p \in Parties, e \in Executions : Ages(p, e)
    BY <1>2, SameAges
  <1>6. QED
    BY <1>2, <1>3, <1>4, <1>5, StepKeeps DEF row, admitVars, cancelVars

LEMMA EndsStep ==
  ASSUME IInv, NEW q \in Parties, NEW e \in Executions, PartyEnds(q, e), UNCHANGED faults
  PROVE  IInv'
  <1>1. TypeOK
    BY DEF IInv
  <1>2. /\ live[q][e] = "live"
        /\ live' = [live EXCEPT ![q][e] = "ended"]
        /\ UNCHANGED <<row, admitVars, cancelVars, journal, acks>>
    BY DEF PartyEnds
  <1>3. /\ live' \in [Parties -> [Executions -> {"unknown", "live", "ended"}]]
        /\ live'[q][e] = "ended"
        /\ \A p \in Parties, f \in Executions :
              p # q \/ f # e => live'[p][f] = live[p][f]
    BY <1>1, <1>2 DEF TypeOK
  <1>4. TypeOK'
    BY <1>1, <1>2, <1>3 DEF TypeOK, row, admitVars, cancelVars
  <1>5. \A p \in Parties : Grows(p)
    BY <1>1, <1>2, SameGrows
  <1>6. \A p \in Parties, f \in Executions : Ages(p, f)
    BY <1>2, <1>3 DEF Ages
  <1>7. QED
    BY <1>2, <1>4, <1>5, <1>6, StepKeeps DEF row, admitVars, cancelVars

\* The pump applies the command with the next number.
LEMMA PumpPollsStep ==
  ASSUME IInv, NEW q \in Parties, PumpPolls(q), UNCHANGED faults
  PROVE  IInv'
  <1> DEFINE next == Len(acks[q]) + 1
             cmd  == journal[q][next]
  <1>1. TypeOK /\ Journal(q)
    BY DEF IInv
  <1>2. /\ next \in 1..Len(journal[q]) /\ cmd \in Commands /\ cmd.op # "gap"
        /\ UNCHANGED <<row, admitVars, cancelVars, journal>>
        /\ Len(acks[q]) \in Nat /\ acks[q] \in Seq({"event", "rejected"})
    <2>1. journal[q] \in Seq(Commands) /\ acks[q] \in Seq({"event", "rejected"})
      BY <1>1 DEF TypeOK
    <2>2. next <= Len(journal[q]) /\ cmd.op # "gap"
          /\ UNCHANGED <<row, admitVars, cancelVars, journal>>
      BY DEF PumpPolls
    <2>3. Len(acks[q]) \in Nat /\ Len(journal[q]) \in Nat
      BY <2>1
    <2>4. next \in 1..Len(journal[q])
      BY <2>2, <2>3
    <2>5. QED
      BY <2>1, <2>2, <2>3, <2>4
  <1>3. cmd.exec \in Executions
    BY <1>2 DEF Commands
  <1>4. PICK ack \in {"event", "rejected"} :
           /\ acks' = [acks EXCEPT ![q] = Append(acks[q], ack)]
           /\ \/ /\ ack = "event" /\ Accepts(q, cmd)
                 /\ live' = [live EXCEPT ![q][cmd.exec] =
                               IF cmd.op = "prepare" THEN "live" ELSE "ended"]
              \/ /\ ack = "rejected" /\ (~Accepts(q, cmd) \/ MayRefuse(q, cmd))
                 /\ UNCHANGED live
    BY DEF PumpPolls
  <1>5. /\ Append(acks[q], ack) \in Seq({"event", "rejected"})
        /\ Len(Append(acks[q], ack)) = next
        /\ Append(acks[q], ack)[next] = ack
        /\ \A n \in 1..Len(acks[q]) : Append(acks[q], ack)[n] = acks[q][n]
    BY <1>2, AppendProperties
  <1> HIDE DEF next, cmd
  <1>6. /\ acks' \in [Parties -> Seq({"event", "rejected"})]
        /\ acks'[q] = Append(acks[q], ack)
        /\ \A p \in Parties : p # q => acks'[p] = acks[p]
    BY <1>1, <1>4, <1>5 DEF TypeOK
  <1>7. /\ live' \in [Parties -> [Executions -> {"unknown", "live", "ended"}]]
        /\ \A p \in Parties, f \in Executions :
              p # q \/ f # cmd.exec => live'[p][f] = live[p][f]
    <2>1. live \in [Parties -> [Executions -> {"unknown", "live", "ended"}]]
      BY <1>1 DEF TypeOK
    <2>2. CASE UNCHANGED live
      BY <2>1, <2>2
    <2>3. ASSUME NEW l \in {"live", "ended"}, live' = [live EXCEPT ![q][cmd.exec] = l]
          PROVE  /\ live' \in [Parties -> [Executions -> {"unknown", "live", "ended"}]]
                 /\ \A p \in Parties, f \in Executions :
                       p # q \/ f # cmd.exec => live'[p][f] = live[p][f]
      BY <1>3, <2>1, <2>3
    <2>4. QED
      BY <1>4, <2>2, <2>3
  <1>8. /\ ack = "event" /\ cmd.op = "prepare" => live'[q][cmd.exec] = "live"
        /\ cmd.op = "cancel" => live'[q][cmd.exec] # "live"
        /\ Ages(q, cmd.exec)
    <2>1. live \in [Parties -> [Executions -> {"unknown", "live", "ended"}]]
      BY <1>1 DEF TypeOK
    <2>2. CASE ack = "event"
      <3>1. /\ Accepts(q, cmd)
            /\ live' = [live EXCEPT ![q][cmd.exec] =
                          IF cmd.op = "prepare" THEN "live" ELSE "ended"]
        BY <1>4, <2>2
      <3>2. live'[q][cmd.exec] = IF cmd.op = "prepare" THEN "live" ELSE "ended"
        BY <1>3, <2>1, <3>1
      <3>3. QED
        BY <3>1, <3>2 DEF Accepts, Ages
    <2>3. CASE ack = "rejected"
      <3>1. UNCHANGED live /\ (~Accepts(q, cmd) \/ MayRefuse(q, cmd))
        BY <1>4, <2>3
      <3>2. QED
        BY <2>3, <3>1 DEF Accepts, MayRefuse, Ages
    <2>4. QED
      BY <2>2, <2>3
  <1>9. \A p \in Parties, f \in Executions : Ages(p, f)
    BY <1>7, <1>8 DEF Ages
  <1>10. \A p \in Parties : Grows(p)
    BY <1>1, <1>2, SameGrows
  <1>11. TypeOK'
    BY <1>1, <1>2, <1>6, <1>7 DEF TypeOK, row, admitVars, cancelVars
  <1>12. ASSUME NEW p \in Parties
         PROVE  Journal(p)'
    <2>1. Journal(p) /\ Len(acks[p]) \in Nat /\ journal[p] \in Seq(Commands)
      BY <1>1 DEF IInv, TypeOK
    <2>2. CASE p # q
      <3>1. acks'[p] = acks[p] /\ journal'[p] = journal[p]
        BY <1>2, <1>6, <2>2
      <3>2. \A n \in 1..Len(acks[p]) : journal[p][n].exec \in Executions
        <4>1. \A n \in 1..Len(journal[p]) : journal[p][n] \in Commands
          BY <2>1
        <4>2. \A n \in 1..Len(acks[p]) : n \in 1..Len(journal[p])
          BY <2>1 DEF Journal
        <4>3. QED
          BY <4>1, <4>2 DEF Commands
      <3>3. \A f \in Executions : live[p][f] # "unknown" => live'[p][f] # "unknown"
        BY <1>9 DEF Ages
      <3>4. QED
        BY <2>1, <3>1, <3>2, <3>3 DEF Journal
    <2>3. CASE p = q
      <3>1. Len(acks'[q]) = next /\ next <= Len(journal'[q])
        BY <1>2, <1>5, <1>6
      <3>2. ASSUME NEW n \in 1..next
            PROVE  /\ journal'[q][n].op # "gap"
                   /\ (acks'[q][n] = "event" /\ journal'[q][n].op = "prepare" =>
                          live'[q][journal'[q][n].exec] # "unknown")
        <4>1. CASE n = next
          BY <1>2, <1>5, <1>6, <1>8, <4>1 DEF cmd
        <4>2. CASE n # next
          <5>1. n \in 1..Len(acks[q])
            BY <1>2, <4>2 DEF next
          <5>2. journal[q][n].exec \in Executions
            <6>1. \A m \in 1..Len(journal[q]) : journal[q][m] \in Commands
              BY <2>1, <2>3
            <6>2. n \in 1..Len(journal[q])
              BY <1>1, <1>2, <5>1 DEF Journal
            <6>3. QED
              BY <6>1, <6>2 DEF Commands
          <5>3. Ages(q, journal[q][n].exec)
            BY <1>9, <5>2
          <5>4. QED
            BY <1>1, <1>2, <1>5, <1>6, <5>1, <5>3 DEF Journal, Ages
        <4>3. QED
          BY <4>1, <4>2
      <3>3. QED
        BY <2>3, <3>1, <3>2 DEF Journal
    <2>4. QED
      BY <2>2, <2>3
  <1>13. ASSUME NEW e \in Executions
         PROVE  Admission(e)'
    <2>1. /\ \A p \in Parties : Ages(p, e)
          /\ UNCHANGED <<prepare[e], ticket[e], status[e]>>
      BY <1>2, <1>9 DEF admitVars, row
    <2>2. QED
      BY <1>10, <2>1, AdmissionStays
  <1>14. ASSUME NEW c \in Requests
         PROVE  Cancel(c)'
    <2>1. Handler(c) /\ Calling(c) /\ Silenced(c)
      BY DEF IInv, Cancel
    <2>2. UNCHANGED <<request, target, seen, worker, index, slot, clean, journal>>
      BY <1>2 DEF cancelVars
    <2>3. ASSUME seen[c] = "RUNNING"
          PROVE  target[c] \in Executions /\ \A p \in Parties :
                    /\ live'[p][target[c]] # "unknown"
                    /\ live[p][target[c]] # "live" => live'[p][target[c]] # "live"
      <3>1. target[c] \in Executions /\ \A p \in Parties : live[p][target[c]] # "unknown"
        BY <2>1, <2>3 DEF Handler
      <3>2. \A p \in Parties : live[p][target[c]] \in {"unknown", "live", "ended"}
        BY <1>1, <3>1 DEF TypeOK
      <3>3. \A p \in Parties : Ages(p, target[c])
        BY <1>9, <3>1
      <3>4. QED
        BY <3>1, <3>2, <3>3 DEF Ages
    <2>4. Handler(c)'
      BY <2>1, <2>2, <2>3 DEF Handler
    <2>5. Silenced(c)'
      BY <2>1, <2>2, <2>3 DEF Silenced, Behind
    <2>6. ASSUME slot[c] # 0, seen[c] = "RUNNING", Applied(index[c], slot[c])'
          PROVE  live'[index[c]][target[c]] # "live"
      <3>1. /\ index[c] \in Parties
            /\ Holds(index[c], slot[c], "cancel", target[c])
            /\ Applied(index[c], slot[c]) => live[index[c]][target[c]] # "live"
        BY <2>1, <2>6 DEF Calling, AtParty
      <3>2. CASE Applied(index[c], slot[c])
        BY <2>3, <2>6, <3>1, <3>2
      <3>3. CASE ~Applied(index[c], slot[c])
        <4>1. index[c] = q
          BY <1>6, <2>2, <2>6, <3>1, <3>3 DEF Applied
        <4>2. slot[c] = next
          BY <1>2, <1>5, <1>6, <2>2, <2>6, <3>1, <3>3, <4>1 DEF Applied, next
        <4>3. cmd.op = "cancel" /\ cmd.exec = target[c]
          BY <1>2, <3>1, <4>1, <4>2 DEF Holds, cmd
        <4>4. QED
          BY <1>8, <4>1, <4>3
      <3>4. QED
        BY <3>2, <3>3
    <2>7. Calling(c)'
      BY <2>1, <2>2, <2>6 DEF Calling, AtParty, Holds
    <2>8. QED
      BY <2>4, <2>5, <2>7 DEF Cancel
  <1>15. QED
    BY <1>11, <1>12, <1>13, <1>14 DEF IInv
-----------------------------------------------------------------------------
LEMMA InitInvariant ==
  ASSUME Init
  PROVE  IInv
  <1>1. 1 \in 1..(N + 1) /\ 0 \in 0..MaxAttempts /\ 0 \in 0..MaxFaults
    BY ExecutionsAssumption
  <1>2. << >> \in Seq(Commands) /\ << >> \in Seq({"event", "rejected"})
    OBVIOUS
  <1>3. TypeOK
    BY <1>1, <1>2 DEF Init, TypeOK, Statuses
  <1>4. \A p \in Parties : Journal(p)
    BY DEF Init, Journal
  <1>5. \A e \in Executions : Admission(e)
    BY DEF Init, Admission
  <1>6. \A c \in Requests : Cancel(c)
    BY DEF Init, Cancel, Handler, Calling, Silenced
  <1>7. QED
    BY <1>3, <1>4, <1>5, <1>6 DEF IInv

LEMMA StepInvariant ==
  ASSUME IInv, [Next]_vars
  PROVE  IInv'
  <1>1. faults \in 0..MaxFaults
    BY DEF IInv, TypeOK
  <1>2. CASE \E e \in Executions : AdmitStep(e)
    <2>1. PICK e \in Executions : AdmitStep(e)
      BY <1>2
    <2>2. UNCHANGED faults /\ faults' \in 0..MaxFaults
      BY <1>1, <2>1 DEF AdmitStep
    <2>3. CASE InvokeAdmit(e) \/ AdmitCrashes(e) \/ AdmitFails(e)
      BY <2>2, <2>3, AdmissionMoves
    <2>4. CASE AdmitSucceeds(e)
      BY <2>2, <2>4, SucceedStep
    <2>5. CASE \E p \in Parties :
                  PreparePublishes(e, p) \/ PrepareAcked(e, p) \/ PrepareTimesOut(e, p)
      BY <2>2, <2>5, PublishStep, CallEndsStep
    <2>6. QED
      BY <2>1, <2>3, <2>4, <2>5 DEF AdmitStep
  <1>3. CASE \E c \in Requests : CancelStep(c)
    <2>1. PICK c \in Requests : CancelStep(c)
      BY <1>3
    <2>2. UNCHANGED faults /\ faults' \in 0..MaxFaults
      BY <1>1, <2>1 DEF CancelStep
    <2>3. CASE CancelWrites(c) \/ CancelInvokes(c)
      BY <2>2, <2>3, HandlerStep
    <2>4. CASE WorkerStarts(c)
      BY <2>2, <2>4, StartsStep
    <2>5. CASE WorkerPublishes(c)
      BY <2>2, <2>5, WorkerPublishesStep
    <2>6. CASE WorkerAcked(c) \/ WorkerTimesOut(c)
      BY <2>2, <2>6, WorkerMovesStep
    <2>7. CASE WorkerFinishes(c)
      BY <2>2, <2>7, FinishesStep
    <2>8. QED
      BY <2>1, <2>3, <2>4, <2>5, <2>6, <2>7 DEF CancelStep
  <1>4. CASE \E p \in Parties : PumpStep(p)
    BY <1>4, PumpPollsStep DEF PumpStep
  <1>5. CASE OutsideStep
    BY <1>5, SubmitStep, ReadsStep, EndsStep DEF OutsideStep
  <1>6. CASE FaultStep
    <2>1. faults' \in 0..MaxFaults
      BY <1>1, <1>6, ExecutionsAssumption DEF FaultStep
    <2>2. CASE \E e \in Executions :
                  \/ InvokeAdmitRaises(e) \/ AdmitKilled(e)
                  \/ \E p \in Parties : PrepareSendRaises(e, p) \/ PrepareWaitRaises(e, p)
      BY <2>1, <2>2, AdmissionMoves, KilledStep, SendRaisesStep, CallEndsStep
    <2>3. CASE \E c \in Requests :
                  CancelInvokeRaises(c) \/ WorkerSendRaises(c) \/ WorkerKilled(c)
      BY <2>1, <2>3, HandlerStep, WorkerMovesStep, WorkerKilledStep
    <2>4. CASE \E p \in Parties : CommandDropped(p) \/ NumberBurnt(p)
      BY <2>1, <2>4, LostStep
    <2>5. QED
      BY <1>6, <2>2, <2>3, <2>4 DEF FaultStep
  <1>7. CASE UNCHANGED vars
    <2>1. TypeOK'
      BY <1>7 DEF IInv, TypeOK, vars, row, admitVars, cancelVars, partyVars
    <2>2. \A p \in Parties : Grows(p)
      BY <1>7, SameGrows DEF IInv, vars, partyVars
    <2>3. \A p \in Parties, e \in Executions : Ages(p, e)
      BY <1>7, SameAges DEF vars, partyVars
    <2>4. QED
      BY <1>7, <2>1, <2>2, <2>3, StepKeeps
         DEF vars, row, admitVars, cancelVars, partyVars
  <1>8. QED
    BY <1>2, <1>3, <1>4, <1>5, <1>6, <1>7 DEF Next

\* The invariant holds in every reachable state.
THEOREM Invariance == Spec => []IInv
  <1>1. Init => IInv
    BY InitInvariant
  <1>2. IInv /\ [Next]_vars => IInv'
    BY StepInvariant
  <1>3. QED
    BY <1>1, <1>2, PTL DEF Spec

\* Type correctness: every call's number, status and loop variable stays in its range.
THEOREM TypeCorrect == Spec => []TypeOK
  <1>1. IInv => TypeOK
    BY DEF IInv
  <1>2. QED
    BY <1>1, Invariance, PTL

\* RUNNING is recorded only for an execution that every party has accepted: a call's own
\* command is what was applied at its number, and a refusal is never taken for a success.
THEOREM RunningAdmitted == Spec => []RunningIsAdmitted
  <1>1. IInv => RunningIsAdmitted
    BY DEF IInv, Admission, RunningIsAdmitted
  <1>2. QED
    BY <1>1, Invariance, PTL

\* A cancel that found the execution RUNNING and whose worker swallowed no exception
\* leaves it live at no party.
THEOREM CleanCancel == Spec => []CleanCancelSilences
  <1>1. IInv => CleanCancelSilences
    BY DEF IInv, Cancel, Silenced, Behind, CleanCancelSilences
  <1>2. QED
    BY <1>1, Invariance, PTL

\* A finish that is recorded is never replaced by CANCELLED: only the worker writes it,
\* and its condition is on the row as it is at that moment.
THEOREM FinishStands == Spec => CancelledKeepsFinish
  <1>1. ASSUME IInv, [Next]_vars, NEW e \in Executions, finished[e], status[e] # "CANCELLED"
        PROVE  status'[e] # "CANCELLED"
    <2>1. TypeOK
      BY <1>1 DEF IInv
    <2>2. CASE UNCHANGED status
      BY <1>1, <2>2
    <2>3. ASSUME NEW f \in Executions, NEW s \in {"PREPARING", "FAILED", "RUNNING"},
                 status' = [status EXCEPT ![f] = s]
          PROVE  status'[e] # "CANCELLED"
      BY <1>1, <2>1, <2>3 DEF TypeOK
    <2>4. ASSUME NEW c \in Requests, CancelWrites(c)
          PROVE  status'[e] # "CANCELLED"
      BY <1>1, <2>1, <2>4 DEF TypeOK, CancelWrites
    <2>5. ASSUME NEW c \in Requests, WorkerFinishes(c)
          PROVE  status'[e] # "CANCELLED"
      BY <1>1, <2>1, <2>5 DEF TypeOK, WorkerFinishes, row
    <2>6. \/ UNCHANGED status
          \/ \E f \in Executions : Submit(f) \/ AdmitFails(f) \/ AdmitSucceeds(f)
          \/ \E c \in Requests : CancelWrites(c) \/ WorkerFinishes(c)
      <3>1. ASSUME NEW f \in Executions, AdmitStep(f)
            PROVE  UNCHANGED status \/ AdmitFails(f) \/ AdmitSucceeds(f)
        BY <3>1 DEF AdmitStep, InvokeAdmit, PreparePublishes, PrepareAcked, PrepareTimesOut,
                    AdmitCrashes, row
      <3>2. ASSUME NEW c \in Requests, CancelStep(c)
            PROVE  UNCHANGED status \/ CancelWrites(c) \/ WorkerFinishes(c)
        BY <3>2 DEF CancelStep, CancelInvokes, WorkerStarts, WorkerPublishes, WorkerAcked,
                    WorkerTimesOut, WorkerSwallows, row
      <3>3. CASE OutsideStep
        BY <3>3 DEF OutsideStep, CancelReads, PartyEnds, row
      <3>4. CASE FaultStep
        BY <3>4 DEF FaultStep, InvokeAdmitRaises, AdmitKilled, PrepareSendRaises,
                    PrepareWaitRaises, CancelInvokeRaises, WorkerSendRaises, WorkerSwallows, WorkerKilled,
                    CommandDropped, NumberBurnt, row
      <3>5. QED
        BY <1>1, <3>1, <3>2, <3>3, <3>4 DEF Next, PumpStep, PumpPolls, vars, row
    <2>7. QED
      BY <2>2, <2>3, <2>4, <2>5, <2>6 DEF Submit, AdmitFails, AdmitSucceeds
  <1>2. IInv /\ [Next]_vars =>
           [\A e \in Executions :
               finished[e] /\ status[e] # "CANCELLED" => status'[e] # "CANCELLED"]_vars
    BY <1>1
  <1>3. QED
    BY <1>2, Invariance, PTL DEF Spec, CancelledKeepsFinish
-----------------------------------------------------------------------------
(* The row: what its writers know of each other *)

OpenStatuses == {"PREPARING", "RUNNING", "CANCELLING"}

\* Some cancel found the execution PREPARING.
Asked(e) == \E c \in Requests : target[c] = e /\ seen[c] = "PREPARING"

\* A cancel request that has still to write, or whose worker has.
Active(c) == request[c] \in {"read", "written"} \/ worker[c] # "none"

\* A cancel goes on only from an open row, and what it found there tells how far
\* admission was.
Reader(c) ==
    /\ request[c] = "idle" => seen[c] = "none"
    /\ Active(c) => seen[c] \in OpenStatuses
    /\ request[c] # "idle" => target[c] \in Executions /\ admit[target[c]] # "idle"
    /\ seen[c] = "RUNNING" => admit[target[c]] = "done"
    /\ seen[c] = "CANCELLING" => admit[target[c]] = "done" \/ Asked(target[c])

\* A row that a cancel or a finish has touched before admission's verdict was asked for
\* by a cancel that found it PREPARING.
Written(e) ==
    /\ admit[e] = "idle" <=> status[e] = "none"
    /\ status[e] \in {"RUNNING", "FAILED"} => admit[e] = "done"
    /\ status[e] \in {"CANCELLING", "CANCELLED"} \/ finished[e] =>
          admit[e] = "done" \/ Asked(e)
    /\ status[e] = "RUNNING" /\ finished[e] => Asked(e)

\* Every command is about an execution that was submitted.
Posted(p) == \A n \in 1..Len(journal[p]) : admit[journal[p][n].exec] # "idle"

RowInv == /\ \A c \in Requests : Reader(c)
          /\ \A e \in Executions : Written(e)
          /\ \A p \in Parties : Posted(p)

\* A step that neither reads nor writes the row, and begins or ends no admission.
Aside ==
    /\ UNCHANGED <<row, target, seen>>
    /\ \A e \in Executions : /\ admit'[e] = "idle" <=> admit[e] = "idle"
                             /\ admit'[e] = "done" <=> admit[e] = "done"
    /\ \A c \in Requests : /\ request'[c] = "idle" <=> request[c] = "idle"
                           /\ Active(c)' => Active(c)

LEMMA SameAside ==
  ASSUME UNCHANGED <<row, admit, request, target, seen, worker>>
  PROVE  Aside
  BY DEF Aside, Active

LEMMA AdmitAside ==
  ASSUME TypeOK, NEW e \in Executions,
         NEW s \in {"lost", "invoked", "crashed", "killed"},
         admit[e] \in {"stored", "invoked"}, admit' = [admit EXCEPT ![e] = s],
         UNCHANGED <<row, cancelVars>>
  PROVE  Aside
  BY DEF TypeOK, Aside, Active, cancelVars

LEMMA CancelAside ==
  ASSUME TypeOK, NEW c \in Requests, UNCHANGED <<row, admitVars, target, seen>>,
         NEW r \in {"read", "written", "done"}, NEW w \in {"none", "queued", "running", "done", "dead"},
         (request' = [request EXCEPT ![c] = r] /\ request[c] # "idle") \/ UNCHANGED request,
         worker' = [worker EXCEPT ![c] = w] \/ UNCHANGED worker,
         Active(c)
  PROVE  Aside
  BY DEF TypeOK, Aside, Active, admitVars

\* Who reads and writes the row.
LEMMA StepKinds ==
  ASSUME IInv, [Next]_vars
  PROVE  \/ Aside
         \/ \E e \in Executions : Submit(e) \/ AdmitFails(e) \/ AdmitSucceeds(e)
         \/ \E c \in Requests : \/ \E e \in Executions : CancelReads(c, e)
                                \/ CancelWrites(c) \/ WorkerFinishes(c)
  <1>1. TypeOK
    BY DEF IInv
  <1>2. ASSUME NEW e \in Executions,
               InvokeAdmit(e) \/ InvokeAdmitRaises(e) \/ AdmitCrashes(e) \/ AdmitKilled(e)
        PROVE  Aside
    <2>1. /\ admit[e] \in {"stored", "invoked"} /\ UNCHANGED <<row, cancelVars>>
          /\ \E s \in {"lost", "invoked", "crashed", "killed"} :
                admit' = [admit EXCEPT ![e] = s]
      BY <1>2 DEF InvokeAdmit, InvokeAdmitRaises, AdmitCrashes, AdmitKilled, PoolDone
    <2>2. QED
      BY <1>1, <2>1, AdmitAside
  <1>3. ASSUME NEW e \in Executions, NEW p \in Parties,
               \/ PreparePublishes(e, p) \/ PrepareAcked(e, p) \/ PrepareTimesOut(e, p)
               \/ PrepareSendRaises(e, p) \/ PrepareWaitRaises(e, p) \/ PartyEnds(p, e)
        PROVE  Aside
    BY <1>3, SameAside DEF PreparePublishes, PrepareAcked, PrepareTimesOut, PrepareSendRaises,
       PrepareWaitRaises, PartyEnds, cancelVars, admitVars
  <1>4. ASSUME NEW p \in Parties, PumpPolls(p) \/ CommandDropped(p) \/ NumberBurnt(p)
        PROVE  Aside
    BY <1>4, SameAside DEF PumpPolls, CommandDropped, NumberBurnt, cancelVars, admitVars
  <1>5. ASSUME NEW c \in Requests, \/ WorkerPublishes(c) \/ WorkerAcked(c)
                                   \/ WorkerTimesOut(c) \/ WorkerSendRaises(c)
        PROVE  Aside
    BY <1>5, SameAside DEF WorkerPublishes, WorkerAcked, WorkerTimesOut, WorkerSendRaises,
       WorkerSwallows, cancelVars, admitVars
  <1>6. ASSUME NEW c \in Requests, CancelInvokes(c) \/ CancelInvokeRaises(c)
        PROVE  Aside
    <2>1. /\ Active(c) /\ request[c] # "idle" /\ UNCHANGED <<row, admitVars, target, seen>>
          /\ request' = [request EXCEPT ![c] = "done"]
          /\ worker' = [worker EXCEPT ![c] = "queued"] \/ UNCHANGED worker
      BY <1>6 DEF CancelInvokes, CancelInvokeRaises, Active
    <2>2. QED
      BY <1>1, <2>1, CancelAside
  <1>7. ASSUME NEW c \in Requests, WorkerStarts(c) \/ WorkerKilled(c)
        PROVE  Aside
    <2>1. /\ Active(c) /\ UNCHANGED <<row, admitVars, request, target, seen>>
          /\ \E w \in {"running", "queued", "dead"} : worker' = [worker EXCEPT ![c] = w]
      BY <1>7 DEF WorkerStarts, WorkerKilled, Active
    <2>2. QED
      BY <1>1, <2>1, CancelAside
  <1>8. CASE UNCHANGED vars
    BY <1>8, SameAside DEF vars, cancelVars, admitVars
  <1>9. QED
    BY <1>2, <1>3, <1>4, <1>5, <1>6, <1>7, <1>8
       DEF Next, AdmitStep, CancelStep, PumpStep, OutsideStep, FaultStep
-----------------------------------------------------------------------------
\* Every new entry of a journal is about e.
Extends(e) ==
    \A p \in Parties : \A n \in 1..Len(journal'[p]) :
        \/ journal'[p][n].exec = e
        \/ n \in 1..Len(journal[p]) /\ journal'[p][n].exec = journal[p][n].exec

LEMMA PublishExtends ==
  ASSUME TypeOK, NEW q \in Parties, NEW op \in {"prepare", "cancel", "filler", "gap"},
         NEW e \in Executions, Publish(q, op, e)
  PROVE  Extends(e)
  <1> DEFINE new == [op |-> op, exec |-> e]
  <1>1. new \in Commands /\ new.exec = e
    BY DEF Commands
  <1>2. journal \in [Parties -> Seq(Commands)] /\ journal[q] \in Seq(Commands)
    BY DEF TypeOK
  <1>3. /\ Len(Append(journal[q], new)) = Len(journal[q]) + 1
        /\ \A n \in 1..Len(journal[q]) : Append(journal[q], new)[n] = journal[q][n]
        /\ Append(journal[q], new)[Len(journal[q]) + 1] = new
    BY <1>1, <1>2, AppendProperties
  <1>4. journal' = [journal EXCEPT ![q] = Append(journal[q], new)]
    BY DEF Publish
  <1> HIDE DEF new
  <1>5. /\ journal'[q] = Append(journal[q], new)
        /\ \A p \in Parties : p # q => journal'[p] = journal[p]
    BY <1>2, <1>4
  <1>6. Len(journal[q]) \in Nat
    BY <1>2
  <1>7. QED
    BY <1>1, <1>3, <1>5, <1>6 DEF Extends

\* Whose command a step adds to a journal: that of an admission that was invoked, or of
\* a worker.
LEMMA JournalSources ==
  ASSUME IInv, RowInv, [Next]_vars
  PROVE  \/ UNCHANGED journal
         \/ \E q \in Parties : CommandDropped(q)
         \/ \E e \in Executions : AdmitKilled(e)
         \/ \E e \in Executions : admit[e] # "idle" /\ Extends(e)
  <1>1. TypeOK
    BY DEF IInv
  <1>2. ASSUME NEW e \in Executions, NEW p \in Parties,
               PreparePublishes(e, p) \/ PrepareSendRaises(e, p)
        PROVE  admit[e] # "idle" /\ Extends(e)
    BY <1>1, <1>2, PublishExtends DEF PreparePublishes, PrepareSendRaises, SendFails
  <1>3. ASSUME NEW c \in Requests, AtParty(c)
        PROVE  target[c] \in Executions /\ admit[target[c]] # "idle" /\ index[c] \in Parties
    BY <1>3, WorkerTarget DEF RowInv, Reader, AtParty
  <1>4. ASSUME NEW c \in Requests, NEW op \in {"prepare", "cancel", "filler", "gap"}, AtParty(c),
               Publish(index[c], op, target[c])
        PROVE  \E e \in Executions : admit[e] # "idle" /\ Extends(e)
    BY <1>1, <1>3, <1>4, PublishExtends
  <1>5. ASSUME NEW c \in Requests, WorkerPublishes(c) \/ WorkerSendRaises(c) \/ WorkerKilled(c)
        PROVE  \/ UNCHANGED journal
               \/ \E e \in Executions : admit[e] # "idle" /\ Extends(e)
    BY <1>4, <1>5 DEF WorkerPublishes, WorkerSendRaises, WorkerSwallows, WorkerKilled, SendFails
  <1>6. ASSUME NEW p \in Parties, NumberBurnt(p)
        PROVE  \E e \in Executions : admit[e] # "idle" /\ Extends(e)
    BY <1>1, <1>3, <1>6, PublishExtends DEF NumberBurnt
  <1>7. ASSUME NEW e \in Executions, AdmitStep(e)
        PROVE  UNCHANGED journal \/ \E p \in Parties : PreparePublishes(e, p)
    BY <1>7 DEF AdmitStep, InvokeAdmit, PrepareAcked, PrepareTimesOut, AdmitCrashes,
       AdmitFails, AdmitSucceeds, partyVars
  <1>8. ASSUME NEW c \in Requests, CancelStep(c)
        PROVE  UNCHANGED journal \/ WorkerPublishes(c)
    BY <1>8 DEF CancelStep, CancelWrites, CancelInvokes, WorkerStarts, WorkerAcked,
       WorkerTimesOut, WorkerFinishes, partyVars
  <1>9. CASE OutsideStep
    BY <1>9 DEF OutsideStep, Submit, CancelReads, PartyEnds, partyVars
  <1>10. CASE FaultStep
    <2>1. \A e \in Executions :
             InvokeAdmitRaises(e) \/ (\E p \in Parties : PrepareWaitRaises(e, p))
             => UNCHANGED journal
      BY DEF InvokeAdmitRaises, PrepareWaitRaises, partyVars
    <2>2. \A c \in Requests : CancelInvokeRaises(c) => UNCHANGED journal
      BY DEF CancelInvokeRaises, partyVars
    <2>3. QED
      BY <1>2, <1>5, <1>6, <1>10, <2>1, <2>2 DEF FaultStep
  <1>11. QED
    BY <1>2, <1>5, <1>7, <1>8, <1>9, <1>10 DEF Next, PumpStep, PumpPolls, vars, partyVars

\* An admission that has begun stays so, and one that is done.
LEMMA AdmitGoesOn ==
  ASSUME IInv, [Next]_vars, NEW e \in Executions
  PROVE  /\ admit[e] # "idle" => admit'[e] # "idle"
         /\ admit[e] = "done" => admit'[e] = "done"
  <1>1. admit \in [Executions -> {"idle", "stored", "lost", "invoked", "done", "crashed",
                                  "killed"}]
    BY DEF IInv, TypeOK
  <1>2. ASSUME NEW f \in Executions, Submit(f) \/ AdmitFails(f) \/ AdmitSucceeds(f)
        PROVE  /\ admit[e] # "idle" => admit'[e] # "idle"
               /\ admit[e] = "done" => admit'[e] = "done"
    BY <1>1, <1>2 DEF Submit, AdmitFails, AdmitSucceeds
  <1>3. QED
    BY <1>2, StepKinds DEF Aside, CancelReads, CancelWrites, WorkerFinishes, admitVars

LEMMA PostedStays ==
  ASSUME IInv, RowInv, [Next]_vars
  PROVE  \A p \in Parties : Posted(p)'
  <1>1. TypeOK
    BY DEF IInv
  <1>2. \A p \in Parties : journal[p] \in Seq(Commands) /\ Len(journal[p]) \in Nat
    BY <1>1 DEF TypeOK
  <1>3. \A p \in Parties : \A n \in 1..Len(journal[p]) :
           /\ journal[p][n].exec \in Executions
           /\ admit[journal[p][n].exec] # "idle" /\ admit'[journal[p][n].exec] # "idle"
    <2>1. \A p \in Parties : \A n \in 1..Len(journal[p]) : journal[p][n] \in Commands
      BY <1>2
    <2>2. \A p \in Parties : \A n \in 1..Len(journal[p]) : journal[p][n].exec \in Executions
      BY <2>1 DEF Commands
    <2>3. QED
      BY <2>2, AdmitGoesOn DEF RowInv, Posted
  <1>4. CASE UNCHANGED journal
    BY <1>3, <1>4 DEF Posted
  <1>5. ASSUME NEW e \in Executions, admit[e] # "idle", Extends(e)
        PROVE  \A p \in Parties : Posted(p)'
    <2>1. admit'[e] # "idle"
      BY <1>5, AdmitGoesOn
    <2>2. QED
      BY <1>3, <1>5, <2>1 DEF Posted, Extends
  <1>6. ASSUME NEW q \in Parties, CommandDropped(q)
        PROVE  \A p \in Parties : Posted(p)'
    <2>1. PICK n \in (Len(acks[q]) + 1)..Len(journal[q]) :
             journal' = [journal EXCEPT ![q][n].op = "gap"]
      BY <1>6 DEF CommandDropped
    <2>2. journal \in [Parties -> Seq(Commands)] /\ Len(acks[q]) \in Nat
      BY <1>1 DEF TypeOK
    <2>3. n \in 1..Len(journal[q]) /\ journal[q][n] \in Commands
      BY <1>2, <2>2
    <2> DEFINE new == [journal[q][n] EXCEPT !.op = "gap"]
    <2>4. new \in Commands /\ new.exec = journal[q][n].exec
      BY <2>3 DEF Commands
    <2>5. journal' = [journal EXCEPT ![q] = [journal[q] EXCEPT ![n] = new]]
      BY <2>1
    <2> HIDE DEF new
    <2>6. /\ Len([journal[q] EXCEPT ![n] = new]) = Len(journal[q])
          /\ \A m \in 1..Len(journal[q]) :
                [journal[q] EXCEPT ![n] = new][m] = IF m = n THEN new ELSE journal[q][m]
      BY <1>2, <2>3, <2>4, ExceptSeq
    <2>7. /\ journal'[q] = [journal[q] EXCEPT ![n] = new]
          /\ \A p \in Parties : p # q => journal'[p] = journal[p]
      BY <2>2, <2>5
    <2>8. ASSUME NEW p \in Parties, NEW m \in 1..Len(journal'[p])
          PROVE  m \in 1..Len(journal[p]) /\ journal'[p][m].exec = journal[p][m].exec
      <3>1. CASE p = q
        BY <2>4, <2>6, <2>7, <2>8, <3>1
      <3>2. CASE p # q
        <4>1. journal'[p] = journal[p]
          BY <2>7, <3>2
        <4>2. QED
          BY <2>8, <4>1
      <3>3. QED
        BY <3>1, <3>2
    <2>9. QED
      BY <1>3, <2>8 DEF Posted
  <1>7. ASSUME NEW e \in Executions, AdmitKilled(e)
        PROVE  \A p \in Parties : Posted(p)'
    <2>1. admit'[e] # "idle"
      BY <1>7, AdmitGoesOn DEF AdmitKilled
    <2> DEFINE new == [op |-> "gap", exec |-> e]
    <2>2. new \in Commands /\ new.exec = e
      BY DEF Commands
    <2>3. \A p \in Parties : journal'[p] \in {journal[p], Append(journal[p], new)}
      BY <1>7 DEF AdmitKilled
    <2> HIDE DEF new
    <2>4. \A p \in Parties :
             /\ Len(Append(journal[p], new)) = Len(journal[p]) + 1
             /\ \A n \in 1..Len(journal[p]) : Append(journal[p], new)[n] = journal[p][n]
             /\ Append(journal[p], new)[Len(journal[p]) + 1] = new
      BY <1>2, <2>2, AppendProperties
    <2>5. ASSUME NEW p \in Parties, NEW n \in 1..Len(journal'[p])
          PROVE  admit'[journal'[p][n].exec] # "idle"
      <3>1. CASE journal'[p] = journal[p]
        BY <1>3, <2>5, <3>1
      <3>2. CASE journal'[p] = Append(journal[p], new)
        <4>1. n \in 1..Len(journal[p]) \/ n = Len(journal[p]) + 1
          BY <1>2, <2>4, <2>5, <3>2
        <4>2. QED
          BY <1>3, <2>1, <2>2, <2>4, <3>2, <4>1
      <3>3. QED
        BY <2>3, <3>1, <3>2
    <2>6. QED
      BY <2>5 DEF Posted
  <1>8. QED
    BY <1>4, <1>5, <1>6, <1>7, JournalSources
-----------------------------------------------------------------------------
\* What a cancel has read is not read again.
LEMMA AskedStays ==
  ASSUME TypeOK, RowInv, NEW e \in Executions, Asked(e),
         \/ UNCHANGED <<target, seen>>
         \/ \E c \in Requests, f \in Executions : CancelReads(c, f)
  PROVE  Asked(e)'
  <1>1. PICK d \in Requests : target[d] = e /\ seen[d] = "PREPARING"
    BY DEF Asked
  <1>2. request[d] # "idle"
    BY <1>1 DEF RowInv, Reader
  <1>3. UNCHANGED <<target[d], seen[d]>>
    BY <1>2 DEF TypeOK, CancelReads
  <1>4. QED
    BY <1>1, <1>3 DEF Asked

\* A step that changes no request changes what its reader knows only with the admission.
LEMMA ReaderStays ==
  ASSUME RowInv, NEW c \in Requests, UNCHANGED <<target[c], seen[c]>>,
         request'[c] = "idle" <=> request[c] = "idle", Active(c)' => Active(c),
         \A e \in Executions : /\ admit[e] # "idle" => admit'[e] # "idle"
                               /\ admit[e] = "done" => admit'[e] = "done"
                               /\ Asked(e) => Asked(e)'
  PROVE  Reader(c)'
  BY DEF RowInv, Reader

LEMMA WrittenStays ==
  ASSUME RowInv, NEW e \in Executions, UNCHANGED <<status[e], finished[e]>>,
         admit'[e] = "idle" <=> admit[e] = "idle", admit'[e] = "done" <=> admit[e] = "done",
         Asked(e) => Asked(e)'
  PROVE  Written(e)'
  BY DEF RowInv, Written

\* A step of an admission that writes the row.
LEMMA AdmitWrites ==
  ASSUME IInv, RowInv, NEW f \in Executions, Submit(f) \/ AdmitFails(f) \/ AdmitSucceeds(f)
  PROVE  (\A c \in Requests : Reader(c)') /\ (\A e \in Executions : Written(e)')
  <1>1. TypeOK
    BY DEF IInv
  <1>2. /\ UNCHANGED <<target, seen, request, worker>>
        /\ \A e \in Executions : Asked(e)' <=> Asked(e)
    BY DEF Submit, AdmitFails, AdmitSucceeds, cancelVars, Asked
  <1>3. \A c \in Requests : Active(c)' <=> Active(c)
    BY <1>2 DEF Active
  <1>4. /\ admit[f] \in {"idle", "invoked"} /\ admit'[f] # "idle"
        /\ \A e \in Executions : e # f => UNCHANGED <<admit[e], status[e], finished[e]>>
    BY <1>1 DEF TypeOK, Submit, AdmitFails, AdmitSucceeds, PoolDone
  <1>5. \A c \in Requests : Reader(c)'
    BY <1>2, <1>3, <1>4, ReaderStays
  <1>6. Written(f)'
    <2>1. CASE Submit(f)
      <3>1. /\ admit[f] = "idle" /\ admit'[f] = "stored"
            /\ status'[f] = "PREPARING" /\ finished'[f] = finished[f]
        BY <1>1, <2>1 DEF TypeOK, Submit
      <3>2. QED
        BY <1>2, <3>1 DEF RowInv, Written
    <2>2. CASE AdmitFails(f)
      <3>1. admit'[f] = "done" /\ status'[f] = "FAILED"
        BY <1>1, <2>2 DEF TypeOK, AdmitFails
      <3>2. QED
        BY <3>1 DEF Written
    <2>3. CASE AdmitSucceeds(f)
      <3>1. /\ admit[f] = "invoked" /\ admit'[f] = "done" /\ status'[f] = "RUNNING"
            /\ finished'[f] = finished[f]
        BY <1>1, <2>3 DEF TypeOK, AdmitSucceeds, PoolDone
      <3>2. QED
        BY <1>2, <3>1 DEF RowInv, Written
    <2>4. QED
      BY <2>1, <2>2, <2>3
  <1>7. \A e \in Executions : e # f => Written(e)'
    BY <1>2, <1>4, WrittenStays
  <1>8. QED
    BY <1>5, <1>6, <1>7

LEMMA CancelReadsRow ==
  ASSUME IInv, RowInv, NEW c \in Requests, NEW f \in Executions, CancelReads(c, f)
  PROVE  (\A d \in Requests : Reader(d)') /\ (\A e \in Executions : Written(e)')
  <1>1. TypeOK
    BY DEF IInv
  <1>2. \A e \in Executions : Asked(e) => Asked(e)'
    BY <1>1, AskedStays
  <1>3. UNCHANGED <<status, finished, admit, worker>>
    BY DEF CancelReads, row, admitVars
  <1>4. \A e \in Executions : Written(e)'
    BY <1>2, <1>3, WrittenStays
  <1>5. Reader(c)'
    <2>1. /\ request'[c] = IF status[f] \in TERMINAL_STATUSES THEN "done" ELSE "read"
          /\ target'[c] = f /\ seen'[c] = status[f] /\ status[f] # "none"
      BY <1>1 DEF TypeOK, CancelReads
    <2>2. worker[c] = "none"
      BY DEF IInv, Cancel, Handler, CancelReads
    <2>3. Active(c)' => status[f] \in OpenStatuses
      BY <1>1, <1>3, <2>1, <2>2 DEF TypeOK, Active, Statuses, OpenStatuses, TERMINAL_STATUSES
    <2>4. status[f] = "CANCELLING" => admit[f] = "done" \/ Asked(f)'
      BY <1>2 DEF RowInv, Written
    <2>5. admit[f] # "idle" /\ (status[f] = "RUNNING" => admit[f] = "done")
      BY <2>1 DEF RowInv, Written
    <2>6. QED
      BY <1>3, <2>1, <2>3, <2>4, <2>5 DEF Reader
  <1>6. ASSUME NEW d \in Requests, d # c
        PROVE  Reader(d)'
    <2>1. UNCHANGED <<request[d], target[d], seen[d], worker[d]>>
      BY <1>1, <1>3, <1>6 DEF TypeOK, CancelReads
    <2>2. QED
      BY <1>2, <1>3, <2>1, ReaderStays DEF Active
  <1>7. QED
    BY <1>4, <1>5, <1>6

\* A cancel or its worker writes a row whose admission is done, or that it was asked to.
LEMMA CancelWritesRow ==
  ASSUME IInv, RowInv, NEW c \in Requests, CancelWrites(c) \/ WorkerFinishes(c)
  PROVE  (\A d \in Requests : Reader(d)') /\ (\A e \in Executions : Written(e)')
  <1>1. TypeOK
    BY DEF IInv
  <1>2. /\ UNCHANGED <<target, seen, admit>>
        /\ \A e \in Executions : Asked(e)' <=> Asked(e)
    BY DEF CancelWrites, WorkerFinishes, admitVars, Asked
  <1>3. Active(c) /\ request[c] # "idle"
    <2>1. worker[c] # "none" => request[c] = "done"
      BY DEF IInv, Cancel, Handler
    <2>2. QED
      BY <2>1 DEF Active, CancelWrites, WorkerFinishes
  <1>4. /\ target[c] \in Executions /\ admit[target[c]] # "idle"
        /\ admit[target[c]] = "done" \/ Asked(target[c])
    <2>1. Reader(c)
      BY DEF RowInv
    <2>2. seen[c] \in OpenStatuses
      BY <1>3, <2>1 DEF Reader
    <2>3. seen[c] = "PREPARING" => Asked(target[c])
      BY DEF Asked
    <2>4. QED
      BY <1>3, <2>1, <2>2, <2>3 DEF Reader, OpenStatuses
  <1>5. \A d \in Requests : /\ request'[d] = "idle" <=> request[d] = "idle"
                            /\ Active(d)' => Active(d)
    BY <1>1, <1>3 DEF TypeOK, Active, CancelWrites, WorkerFinishes
  <1>6. \A d \in Requests : Reader(d)'
    BY <1>2, <1>5, ReaderStays
  <1>7. \A e \in Executions : e # target[c] => UNCHANGED <<status[e], finished[e]>>
    BY <1>1, <1>4 DEF TypeOK, CancelWrites, WorkerFinishes, row
  <1>8. \A e \in Executions : e # target[c] => Written(e)'
    BY <1>2, <1>7, WrittenStays
  <1>9. \/ status'[target[c]] = status[target[c]] /\ finished'[target[c]] = finished[target[c]]
        \/ status'[target[c]] \in {"CANCELLING", "CANCELLED"}
    BY <1>1, <1>4 DEF TypeOK, CancelWrites, WorkerFinishes, row
  <1>10. ASSUME NEW e \in Executions, e = target[c]
         PROVE  Written(e)'
    <2>1. CASE UNCHANGED <<status[e], finished[e]>>
      BY <1>2, <2>1, WrittenStays
    <2>2. CASE status'[e] \in {"CANCELLING", "CANCELLED"}
      BY <1>2, <1>4, <1>10, <2>2 DEF Written
    <2>3. QED
      BY <1>9, <1>10, <2>1, <2>2
  <1>11. QED
    BY <1>6, <1>8, <1>10

LEMMA RowStays ==
  ASSUME IInv, RowInv, [Next]_vars
  PROVE  RowInv'
  <1>1. TypeOK
    BY DEF IInv
  <1>2. CASE Aside
    <2>1. \A e \in Executions : Asked(e)' <=> Asked(e)
      BY <1>2 DEF Aside, Asked
    <2>2. \A c \in Requests : Reader(c)'
      BY <1>2, <2>1, ReaderStays DEF Aside
    <2>3. \A e \in Executions : Written(e)'
      BY <1>2, <2>1, WrittenStays DEF Aside, row
    <2>4. QED
      BY <2>2, <2>3, PostedStays DEF RowInv
  <1>3. CASE \E e \in Executions : Submit(e) \/ AdmitFails(e) \/ AdmitSucceeds(e)
    BY <1>3, AdmitWrites, PostedStays DEF RowInv
  <1>4. CASE \E c \in Requests : \/ \E e \in Executions : CancelReads(c, e)
                                 \/ CancelWrites(c) \/ WorkerFinishes(c)
    BY <1>4, CancelReadsRow, CancelWritesRow, PostedStays DEF RowInv
  <1>5. QED
    BY <1>2, <1>3, <1>4, StepKinds

LEMMA InitRow ==
  ASSUME Init
  PROVE  RowInv
  <1>1. \A p \in Parties : Posted(p)
    BY DEF Init, Posted
  <1>2. \A c \in Requests : Reader(c)
    BY DEF Init, Reader, Active
  <1>3. \A e \in Executions : Written(e)
    BY DEF Init, Written
  <1>4. QED
    BY <1>1, <1>2, <1>3 DEF RowInv

THEOREM RowInvariance == Spec => []RowInv
  <1>1. Init => RowInv
    BY InitRow
  <1>2. IInv /\ RowInv /\ [Next]_vars => RowInv'
    BY RowStays
  <1>3. QED
    BY <1>1, <1>2, Invariance, PTL DEF Spec

\* A row that says RUNNING with a finish beside it was asked to be cancelled while its
\* admission still ran: a cancel of what was RUNNING is never undone.
THEOREM RevivedPreparing == Spec => []RevivedWasPreparing
  <1>1. RowInv => RevivedWasPreparing
    BY DEF RowInv, Written, Asked, RevivedWasPreparing
  <1>2. QED
    BY <1>1, RowInvariance, PTL
-----------------------------------------------------------------------------
(* The row implements ExecutionRow. *)

Accepted == [e \in Executions |-> {p \in Parties : live[p][e] # "unknown"}]
Judged == {e \in Executions : admit[e] = "done"}
Found(c, e) == target[c] = e /\ seen[c] \notin TERMINAL_STATUSES \cup {"none"}
Wanted == {e \in Executions : \E c \in Requests : Found(c, e)}

LEMMA AcceptSteps ==
  ASSUME NEW e \in Executions, NEW p \in Parties, Row!Accept(e, p)
  PROVE  Row!Next
  BY DEF Row!Next

\* A step aside of the row is a stutter, or a party accepts an execution.
LEMMA AsideRow ==
  ASSUME IInv, RowInv, [Next]_vars, Aside
  PROVE  [Row!Next]_(Row!vars)
  <1>1. TypeOK
    BY DEF IInv
  <1>2. /\ UNCHANGED <<status, finished>> /\ Judged' = Judged /\ Wanted' = Wanted
    BY DEF Aside, row, Judged, Wanted, Found
  <1>3. ASSUME Accepted' = Accepted
        PROVE  UNCHANGED Row!vars
    BY <1>2, <1>3 DEF Row!vars, Accepted, Judged, Wanted, Found
  <1>4. CASE \A p \in Parties, e \in Executions :
                (live'[p][e] = "unknown") <=> (live[p][e] = "unknown")
    <2>1. Accepted' = Accepted
      BY <1>4 DEF Accepted
    <2>2. QED
      BY <1>3, <2>1
  <1>5. ASSUME NEW q \in Parties, PumpPolls(q)
        PROVE  [Row!Next]_(Row!vars)
    <2> DEFINE cmd == journal[q][Len(acks[q]) + 1]
    <2>1. cmd \in Commands /\ admit[cmd.exec] # "idle"
      <3>1. /\ journal[q] \in Seq(Commands) /\ Len(acks[q]) \in Nat
            /\ Len(acks[q]) + 1 <= Len(journal[q])
        BY <1>1, <1>5 DEF TypeOK, PumpPolls
      <3>2. Len(acks[q]) + 1 \in 1..Len(journal[q])
        BY <3>1
      <3>3. QED
        BY <3>1, <3>2 DEF RowInv, Posted
    <2>2. PICK e \in Executions : e = cmd.exec
      BY <2>1 DEF Commands
    <2>3. \/ UNCHANGED live
          \/ /\ Accepts(q, cmd)
             /\ live' = [live EXCEPT ![q][cmd.exec] =
                           IF cmd.op = "prepare" THEN "live" ELSE "ended"]
      BY <1>5 DEF PumpPolls
    <2> HIDE DEF cmd
    <2>4. live \in [Parties -> [Executions -> {"unknown", "live", "ended"}]]
      BY <1>1 DEF TypeOK
    <2>5. CASE UNCHANGED live
      BY <1>4, <2>5
    <2>6. ASSUME NEW l \in {"live", "ended"}, live' = [live EXCEPT ![q][e] = l]
          PROVE  [Row!Next]_(Row!vars)
      <3>1. /\ live'[q][e] # "unknown"
            /\ \A p \in Parties, f \in Executions :
                  p # q \/ f # e => live'[p][f] = live[p][f]
        BY <2>2, <2>4, <2>6
      <3>2. Accepted' = [Accepted EXCEPT ![e] = Accepted[e] \cup {q}]
        <4>1. ASSUME NEW f \in Executions
              PROVE  Accepted'[f] = IF f = e THEN Accepted[f] \cup {q} ELSE Accepted[f]
          BY <2>2, <3>1 DEF Accepted
        <4>2. QED
          BY <2>2, <4>1 DEF Accepted
      <3>3. status[e] # "none"
        BY <2>1, <2>2 DEF RowInv, Written
      <3>4. Row!Accept(e, q)
        BY <1>2, <3>2, <3>3 DEF Row!Accept, Accepted, Judged, Wanted, Found
      <3>5. QED
        BY <3>4, AcceptSteps
    <2>7. QED
      BY <2>2, <2>3, <2>5, <2>6
  <1>6. ASSUME NEW q \in Parties, NEW e \in Executions, PartyEnds(q, e)
        PROVE  \A p \in Parties, f \in Executions :
                  (live'[p][f] = "unknown") <=> (live[p][f] = "unknown")
    BY <1>1, <1>6 DEF TypeOK, PartyEnds
  <1>7. \/ UNCHANGED live
        \/ \E q \in Parties : PumpPolls(q) \/ \E e \in Executions : PartyEnds(q, e)
    <2>1. ASSUME NEW e \in Executions, AdmitStep(e)
          PROVE  UNCHANGED live
      BY <2>1 DEF AdmitStep, InvokeAdmit, PreparePublishes, PrepareAcked, PrepareTimesOut,
         AdmitCrashes, AdmitFails, AdmitSucceeds, partyVars
    <2>2. ASSUME NEW c \in Requests, CancelStep(c)
          PROVE  UNCHANGED live
      BY <2>2 DEF CancelStep, CancelWrites, CancelInvokes, WorkerStarts, WorkerPublishes,
         WorkerAcked, WorkerTimesOut, WorkerSwallows, WorkerFinishes, partyVars
    <2>3. CASE FaultStep
      BY <2>3 DEF FaultStep, InvokeAdmitRaises, AdmitKilled, PrepareSendRaises,
         PrepareWaitRaises, CancelInvokeRaises, WorkerSendRaises, WorkerSwallows, WorkerKilled, CommandDropped,
         NumberBurnt, partyVars
    <2>4. ASSUME NEW e \in Executions, Submit(e) \/ \E c \in Requests : CancelReads(c, e)
          PROVE  UNCHANGED live
      BY <2>4 DEF Submit, CancelReads, partyVars
    <2>5. QED
      BY <2>1, <2>2, <2>3, <2>4 DEF Next, PumpStep, OutsideStep, vars, partyVars
  <1>8. QED
    BY <1>4, <1>5, <1>6, <1>7

\* A submission creates the row, and admission writes its verdict, once.
LEMMA AdmitRow ==
  ASSUME IInv, RowInv, NEW e \in Executions, Submit(e) \/ AdmitFails(e) \/ AdmitSucceeds(e)
  PROVE  Row!Create(e) \/ Row!Fail(e) \/ Row!Run(e)
  <1>1. TypeOK
    BY DEF IInv
  <1>2. Accepted' = Accepted /\ Wanted' = Wanted
    BY DEF Submit, AdmitFails, AdmitSucceeds, partyVars, cancelVars, Accepted, Wanted, Found
  <1>3. CASE Submit(e)
    <2>1. /\ status' = [status EXCEPT ![e] = "PREPARING"] /\ UNCHANGED finished
          /\ \A f \in Executions : (admit'[f] = "done") <=> (admit[f] = "done")
      BY <1>1, <1>3 DEF TypeOK, Submit
    <2>2. Judged' = Judged
      BY <2>1 DEF Judged
    <2>3. status[e] = "none"
      BY <1>3 DEF Submit, RowInv, Written
    <2>4. QED
      BY <1>2, <2>1, <2>2, <2>3 DEF Row!Create, Row!Record, Accepted, Judged, Wanted, Found
  <1>4. CASE AdmitFails(e) \/ AdmitSucceeds(e)
    <2>1. e \notin Judged /\ Judged' = Judged \cup {e}
      BY <1>1, <1>4 DEF TypeOK, AdmitFails, AdmitSucceeds, PoolDone, Judged
    <2>2. CASE AdmitFails(e)
      BY <1>2, <2>1, <2>2
         DEF AdmitFails, Row!Fail, Row!Record, Accepted, Judged, Wanted, Found
    <2>3. CASE AdmitSucceeds(e)
      <3>1. Accepted[e] = Parties
        BY <2>3 DEF IInv, Admission, AdmitSucceeds, Accepted
      <3>2. QED
        BY <1>2, <2>1, <2>3, <3>1
           DEF AdmitSucceeds, Row!Run, Row!Record, Accepted, Judged, Wanted, Found
    <2>4. QED
      BY <1>4, <2>2, <2>3
  <1>5. QED
    BY <1>3, <1>4

\* A cancel that finds the row open wants it ended; one that does not changes nothing.
LEMMA ReadsRow ==
  ASSUME IInv, RowInv, NEW c \in Requests, NEW e \in Executions, CancelReads(c, e)
  PROVE  Row!Want(e) \/ UNCHANGED Row!vars
  <1>1. TypeOK
    BY DEF IInv
  <1>2. Accepted' = Accepted /\ Judged' = Judged /\ UNCHANGED <<status, finished>>
    BY DEF CancelReads, partyVars, admitVars, row, Accepted, Judged
  <1>3. /\ target'[c] = e /\ seen'[c] = status[e] /\ status[e] # "none"
        /\ \A d \in Requests : d # c => target'[d] = target[d] /\ seen'[d] = seen[d]
    BY <1>1 DEF TypeOK, CancelReads
  <1>4. seen[c] = "none"
    BY DEF CancelReads, RowInv, Reader
  <1>5. \A f \in Executions : ~Found(c, f)
    BY <1>4 DEF Found
  <1>6. \A d \in Requests, f \in Executions : d # c => (Found(d, f)' <=> Found(d, f))
    BY <1>3 DEF Found
  <1>7. \A f \in Executions :
           Found(c, f)' <=> f = e /\ status[e] \notin TERMINAL_STATUSES
    BY <1>3 DEF Found
  <1>8. CASE status[e] \in TERMINAL_STATUSES
    <2>1. Wanted' = Wanted
      BY <1>5, <1>6, <1>7, <1>8 DEF Wanted
    <2>2. QED
      BY <1>2, <2>1 DEF Row!vars, Accepted, Judged, Wanted, Found
  <1>9. CASE status[e] \notin TERMINAL_STATUSES
    <2>1. Wanted' = Wanted \cup {e}
      BY <1>5, <1>6, <1>7, <1>9 DEF Wanted
    <2>2. status[e] \in {"PREPARING", "RUNNING", "CANCELLING"}
      BY <1>1, <1>3, <1>9 DEF TypeOK, Statuses
    <2>3. QED
      BY <1>2, <2>1, <2>2 DEF Row!Want, Row!Open, Accepted, Judged, Wanted, Found
  <1>10. QED
    BY <1>8, <1>9

\* What a cancel or its worker writes was wanted.
LEMMA CancelRow ==
  ASSUME IInv, RowInv, NEW c \in Requests, CancelWrites(c) \/ WorkerFinishes(c)
  PROVE  \/ \E e \in Executions : Row!Cancelling(e) \/ Row!Cancelled(e)
         \/ UNCHANGED Row!vars
  <1>1. Accepted' = Accepted /\ Judged' = Judged /\ Wanted' = Wanted
    BY DEF CancelWrites, WorkerFinishes, partyVars, admitVars, Accepted, Judged, Wanted, Found
  <1>2. Active(c) /\ request[c] # "idle"
    <2>1. worker[c] # "none" => request[c] = "done"
      BY DEF IInv, Cancel, Handler
    <2>2. QED
      BY <2>1 DEF Active, CancelWrites, WorkerFinishes
  <1>3. PICK e \in Executions : e = target[c]
    BY <1>2 DEF RowInv, Reader
  <1>4. e \in Wanted
    BY <1>2, <1>3 DEF RowInv, Reader, OpenStatuses, TERMINAL_STATUSES, Wanted, Found
  <1>5. CASE CancelWrites(c)
    <2>1. Row!Cancelling(e)
      BY <1>1, <1>3, <1>4, <1>5
         DEF CancelWrites, Row!Cancelling, Row!Record, Accepted, Judged, Wanted, Found
    <2>2. QED
      BY <2>1
  <1>6. CASE WorkerFinishes(c)
    <2>1. CASE finished[e]
      BY <1>1, <1>3, <1>6, <2>1
         DEF WorkerFinishes, row, Row!vars, Accepted, Judged, Wanted, Found
    <2>2. CASE ~finished[e]
      <3>1. Row!Cancelled(e)
        BY <1>1, <1>3, <1>4, <1>6, <2>2
           DEF WorkerFinishes, Row!Cancelled, Row!Record, Accepted, Judged, Wanted, Found
      <3>2. QED
        BY <3>1
    <2>3. QED
      BY <2>1, <2>2
  <1>7. QED
    BY <1>5, <1>6

\* Admission, the cancel API and its workers implement the promise of the row that they
\* share: every step is one of its steps or changes nothing of it.
THEOREM RowRefinement == Spec => RowImplemented
  <1>1. Init => Row!Init
    BY DEF Init, Row!Init
  <1>2. IInv /\ RowInv /\ [Next]_vars => [Row!Next]_(Row!vars)
    BY StepKinds, AsideRow, AdmitRow, ReadsRow, CancelRow DEF Row!Next
  <1>3. QED
    BY <1>1, <1>2, Invariance, RowInvariance, PTL DEF Spec, Row!Spec, RowImplemented
=============================================================================
