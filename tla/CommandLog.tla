----------------------------- MODULE CommandLog -----------------------------
(***************************************************************************)
(* What the control plane of one party promises to its callers: a log of   *)
(* numbered commands.  A caller reserves the next number, at most once;    *)
(* a number may also be burnt (handed out to nobody who will ever use it); *)
(* the party applies the commands in the order of their numbers, each by   *)
(* the caller that reserved it, and never past a number it has not seen.   *)
(*                                                                         *)
(* PartyControl implements it: a DynamoDB row hands out the numbers, SSM   *)
(* carries the commands, StandingControlPump applies them.                 *)
(***************************************************************************)
EXTENDS Naturals, Sequences

CONSTANTS Callers   \* the calls of _publish_and_wait_ack on this party

VARIABLES issued,   \* how many numbers have been handed out
          slot,     \* slot[c]: the number c reserved, 0 for none
          done      \* the callers whose commands were applied, in order

logVars == <<issued, slot, done>>

LogInit == /\ issued = 0
           /\ slot = [c \in Callers |-> 0]
           /\ done = << >>

Reserve(c) == /\ slot[c] = 0
              /\ issued' = issued + 1
              /\ slot' = [slot EXCEPT ![c] = issued + 1]
              /\ UNCHANGED done

Burn == /\ issued' = issued + 1
        /\ UNCHANGED <<slot, done>>

Consume(c) == /\ slot[c] = Len(done) + 1
              /\ done' = Append(done, c)
              /\ UNCHANGED <<issued, slot>>

LogNext == \/ Burn
           \/ \E c \in Callers : Reserve(c) \/ Consume(c)

LogSpec == LogInit /\ [][LogNext]_logVars
=============================================================================
