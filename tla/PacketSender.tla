----------------------------- MODULE PacketSender -----------------------------
(***************************************************************************)
(* packet_sender of src/cloud/RTASP.py and of                              *)
(* src/roadrunner/rtasp_low_power.py: the sequence number and the          *)
(* timestamp of a device's data packets.                                   *)
(*                                                                         *)
(* Every thread that pipes a sensor's data calls send() on the one object, *)
(* and a clock thread advances the timestamp once a second, all without a  *)
(* lock.  An augmented assignment is a load and a store, between which     *)
(* another thread may run.  A number that does not fit its two bytes makes *)
(* to_bytes raise OverflowError, which ends the calling thread.            *)
(* Where an interpreter switches threads only at calls and loops, fewer of *)
(* these interleavings occur.                                              *)
(***************************************************************************)
EXTENDS Integers, FiniteSets

CONSTANTS
  Threads,  \* the threads that call send()
  Space,    \* how many values two bytes hold (65536)
  MaxSn     \* bound: what self.sn reaches when no thread gets to wrap it

ASSUME SpaceAssumption == Space \in Nat \ {0} /\ MaxSn \in Nat

VARIABLES
  sn,         \* self.sn
  timestamp,  \* self.timestamp
  clockAlive, \* self.__clock_alive
  clock,      \* where the clock thread is
  sending,    \* per thread, where it is in send() and what it has loaded
  \* history
  last,       \* the number of the last packet
  crowded     \* has a call of send() begun during another?

clockVars == <<timestamp, clockAlive, clock>>
senderVars == <<sn, clockVars, sending, last, crowded>>

SenderInit ==
  /\ sn = 0
  /\ timestamp = 0
  /\ clockAlive = TRUE
  /\ clock = "sleep"
  /\ sending = [t \in Threads |-> [pc |-> "idle", val |-> 0]]
  /\ last = Space - 1
  /\ crowded = FALSE

Idle(t) == sending[t].pc = "idle"
Fits(n) == n < Space
------------------------------------------------------------------------------
(* send() *)

\* The packet is built, or to_bytes raises.
SendPack(t) ==
  /\ Idle(t) /\ Fits(timestamp) /\ Fits(sn)
  /\ sending' = [sending EXCEPT ![t].pc = "load"]
  /\ last' = sn
  /\ crowded' = (crowded \/ \E u \in Threads : ~Idle(u))
  /\ UNCHANGED <<sn, clockVars>>

SendRaises(t) ==
  /\ Idle(t) /\ ~(Fits(timestamp) /\ Fits(sn))
  /\ UNCHANGED senderVars

Load(t, from, to) ==
  /\ sending[t].pc = from
  /\ sending' = [sending EXCEPT ![t] = [pc |-> to, val |-> sn]]
  /\ UNCHANGED <<sn, clockVars, last, crowded>>

Store(t, from, to, value) ==
  /\ sending[t].pc = from
  /\ sn' = value
  /\ sending' = [sending EXCEPT ![t] = [pc |-> to, val |-> 0]]
  /\ UNCHANGED <<clockVars, last, crowded>>

\* self.sn += 1, then self.sn %= 65536, and the packet is given to the socket or
\* to the UART.
SendLoad(t) == Load(t, "load", "store")
SendStore(t) ==
  sending[t].val < MaxSn /\ Store(t, "store", "loadWrap", sending[t].val + 1)
SendLoadWrap(t) == Load(t, "loadWrap", "storeWrap")

\* Mutants: the number wraps one too late, and -= instead of %=.
SendStoreWrapMinus(t) == Store(t, "storeWrap", "idle", sending[t].val - Space)
SendStoreWrapLate(t) == Store(t, "storeWrap", "idle", sending[t].val % (Space + 1))

SendStoreWrap(t) == Store(t, "storeWrap", "idle", sending[t].val % Space)

SendRest(t) == SendLoad(t) \/ SendStore(t) \/ SendLoadWrap(t) \/ SendStoreWrap(t)
------------------------------------------------------------------------------
(* The clock, and end(), which only the low-power version has *)

ClockTick ==
  /\ clock = "sleep"
  /\ timestamp' = timestamp + 1
  /\ clock' = "wrap"
  /\ UNCHANGED <<sn, clockAlive, sending, last, crowded>>

\* The loop test comes after the wrap.
ClockWrap ==
  /\ clock = "wrap"
  /\ timestamp' = timestamp % Space
  /\ clock' = IF clockAlive THEN "sleep" ELSE "ended"
  /\ UNCHANGED <<sn, clockAlive, sending, last, crowded>>

ClockEnd ==
  /\ clockAlive
  /\ clockAlive' = FALSE
  /\ UNCHANGED <<sn, timestamp, clock, sending, last, crowded>>

Clock == ClockTick \/ ClockWrap
------------------------------------------------------------------------------
SenderNext ==
  \/ \E t \in Threads : SendPack(t) \/ SendRaises(t) \/ SendRest(t)
  \/ Clock \/ ClockEnd

SenderSpec == SenderInit /\ [][SenderNext]_senderVars
------------------------------------------------------------------------------
(* Properties *)

SendPcs == {"idle", "load", "store", "loadWrap", "storeWrap"}

\* The type invariant.
SenderTypeOK ==
  /\ {sn, timestamp, last} \subseteq Nat
  /\ clockAlive \in BOOLEAN
  /\ clock \in {"sleep", "wrap", "ended"}
  /\ sending \in [Threads -> [pc : SendPcs, val : Nat]]
  /\ crowded \in BOOLEAN

\* A number or a timestamp that does not fit its field is seen only while
\* another thread is between the two statements that advance it: whatever
\* updates are lost, it does not stay, and a thread that is alone in send()
\* never raises on account of the number.
FieldsFit ==
  /\ ~Fits(sn) => \E t \in Threads : sending[t].pc \in {"loadWrap", "storeWrap"}
  /\ ~Fits(timestamp) => clock = "wrap"

\* As long as no two calls of send() have overlapped, packets are numbered
\* consecutively modulo Space, which is what the server's window relies on.
NumbersConsecutive ==
  ~crowded /\ (\A t \in Threads : Idle(t)) => sn = (last + 1) % Space
==============================================================================
