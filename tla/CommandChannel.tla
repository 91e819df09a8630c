---------------------------- MODULE CommandChannel ----------------------------
(***************************************************************************)
(* What the acknowledged control channel promises to a side that sends     *)
(* commands, one after another, to a side that does not: each send() has   *)
(* at most one outcome, reported success, reported failure, or an          *)
(* exception; a command whose send() raised never arrives, and one whose   *)
(* send() reported failure may arrive, even later; and success is never    *)
(* reported more often than commands have arrived.  Commands are numbered  *)
(* from 1.  Nothing is said of numbers on the wire, ACKs or the network.   *)
(***************************************************************************)
EXTENDS Integers, FiniteSets

CONSTANT Endpoints

VARIABLES
  issued,     \* per endpoint, the number of commands it has begun to send
  sending,    \* the endpoints that are in send()
  confirmed,  \* the commands whose send() reported success ...
  failed,     \* ... and failure
  received    \* the commands that have arrived at its peer

vars == <<issued, sending, confirmed, failed, received>>

Init ==
  /\ issued = [e \in Endpoints |-> 0]
  /\ sending = {}
  /\ confirmed = [e \in Endpoints |-> {}]
  /\ failed = [e \in Endpoints |-> {}]
  /\ received = [e \in Endpoints |-> {}]

Begin(e) ==
  /\ e \notin sending
  /\ sending' = sending \cup {e}
  /\ issued' = [issued EXCEPT ![e] = @ + 1]
  /\ UNCHANGED <<confirmed, failed, received>>

\* A command that was transmitted arrives, for the first time.
Arrive(e, n) ==
  /\ n \in confirmed[e] \cup failed[e] \/ (e \in sending /\ n = issued[e])
  /\ received' = [received EXCEPT ![e] = @ \cup {n}]
  /\ UNCHANGED <<issued, sending, confirmed, failed>>

\* Some command has arrived that no success was reported for; not always this one.
Confirm(e) ==
  /\ e \in sending
  /\ Cardinality(confirmed[e]) < Cardinality(received[e])
  /\ confirmed' = [confirmed EXCEPT ![e] = @ \cup {issued[e]}]
  /\ sending' = sending \ {e}
  /\ UNCHANGED <<issued, failed, received>>

Fail(e) ==
  /\ e \in sending
  /\ failed' = [failed EXCEPT ![e] = @ \cup {issued[e]}]
  /\ sending' = sending \ {e}
  /\ UNCHANGED <<issued, confirmed, received>>

Raise(e) ==
  /\ e \in sending
  /\ issued[e] \notin received[e]
  /\ sending' = sending \ {e}
  /\ UNCHANGED <<issued, confirmed, failed, received>>

Next ==
  \E e \in Endpoints :
    \/ Begin(e) \/ Confirm(e) \/ Fail(e) \/ Raise(e)
    \/ \E n \in 1..issued[e] : Arrive(e, n)

Spec == Init /\ [][Next]_vars
==============================================================================
