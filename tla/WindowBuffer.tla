----------------------------- MODULE WindowBuffer -----------------------------
(***************************************************************************)
(* The class Window_buffer of src/cloud/RTASP.py: the reordering window of *)
(* one session and the queue of packets that have left it.                 *)
(*                                                                         *)
(* Three kinds of threads use the object.  The receiver's buffering thread *)
(* calls update() for every packet of the session; the threads of Enders   *)
(* (the control thread, for an END message, and the application, in        *)
(* RTASP_receiver.end) call end(); one reader calls receive().  Nothing in *)
(* the class locks, so each operation is split into the steps at which     *)
(* another thread may see or change the two deques: one step per append    *)
(* and per popleft.  An IndexError kills the thread that raises it ("dead")*)
(* because no caller catches it.                                           *)
(*                                                                         *)
(* An end() may begin while an update() or another end() is in progress,   *)
(* and from then on the window keeps much less than before.  The history   *)
(* variable overlapped, which the program does not have, says whether that *)
(* has happened.                                                           *)
(***************************************************************************)
EXTENDS Integers, Sequences, FiniteSets

CONSTANTS
  WindowSize,   \* window_size (1000 in the program)
  SnSpace,      \* how many values the sequence-number field holds (65536)
  Payload,      \* what packets carry
  None,         \* the empty slot
  Enders,       \* the threads that may call end()
  MaxArrivals   \* bound: how often update() is called

ASSUME WindowAssumption ==
  /\ WindowSize \in Nat \ {0}
  /\ SnSpace \in Nat \ {0}
  /\ MaxArrivals \in Nat

Packet == [sn : 0..(SnSpace - 1), payload : Payload]

ASSUME NoneAssumption == None \notin Packet

VARIABLES
  window,    \* self.window
  leftSn,    \* self.left_sn
  rightSn,   \* self.right_sn
  count,     \* self.count
  maxSn,     \* self.max_sn
  active,    \* self.active
  buffer,    \* every packet ever appended to self.buffer ...
  taken,     \* ... of which receive() has removed the first taken
  updPc,     \* where the buffering thread is in update()
  updData,   \* its argument
  updLoop,   \* its loop variable i
  updHand,   \* its local v
  endPc,     \* where each ender is in end()
  endHand,   \* its local v
  arrivals,  \* how often update() has been called
  overlapped \* history: has an end() begun while another call was in progress?

updVars == <<updPc, updData, updLoop, updHand>>
endVars == <<endPc, endHand>>
counters == <<leftSn, rightSn, count, maxSn>>
vars == <<window, counters, active, buffer, taken, updVars, endVars, arrivals,
          overlapped>>

Init ==
  /\ window = [i \in 1..WindowSize |-> None]
  /\ leftSn = 0
  /\ rightSn = WindowSize - 1
  /\ count = 0
  /\ maxSn = 0
  /\ active = TRUE
  /\ buffer = <<>>
  /\ taken = 0
  /\ updPc = "idle"
  /\ updData = None
  /\ updLoop = 0
  /\ updHand = None
  /\ endPc = [e \in Enders |-> "idle"]
  /\ endHand = [e \in Enders |-> None]
  /\ arrivals = 0
  /\ overlapped = FALSE

UpdaterQuiet == updPc \in {"idle", "dead"}
EndersQuiet == \A e \in Enders : endPc[e] \in {"idle", "dead"}

Emitted(v) == IF v = None THEN buffer ELSE Append(buffer, v)
------------------------------------------------------------------------------
(* update(), called by the buffering thread *)

Arrive ==
  /\ updPc = "idle"
  /\ arrivals < MaxArrivals
  /\ arrivals' = arrivals + 1

\* The early returns: the session has ended, or the packet is too old.
UpdateDrop(p) ==
  /\ Arrive
  /\ ~active \/ p.sn < leftSn
  /\ UNCHANGED <<window, counters, active, buffer, taken, updVars, endVars, overlapped>>

\* Mutant: the flag is not tested.
UpdateAdmitAlways(p) ==
  /\ Arrive
  /\ p.sn >= leftSn
  /\ updData' = p
  /\ updLoop' = 0
  /\ updPc' = IF p.sn > rightSn THEN "grow" ELSE "place"
  /\ UNCHANGED <<window, counters, active, buffer, taken, updHand, endVars, overlapped>>

UpdateAdmit(p) ==
  /\ Arrive
  /\ active
  /\ p.sn >= leftSn
  /\ updData' = p
  /\ updLoop' = 0
  /\ updPc' = IF p.sn > rightSn THEN "grow" ELSE "place"
  /\ UNCHANGED <<window, counters, active, buffer, taken, updHand, endVars, overlapped>>

UpdateGrow ==
  /\ updPc = "grow"
  /\ window' = Append(window, None)
  /\ updPc' = "pop"
  /\ UNCHANGED <<counters, active, buffer, taken, updData, updLoop, updHand,
                 endVars, arrivals, overlapped>>

UpdatePop ==
  /\ updPc = "pop"
  /\ IF window = <<>>
       THEN updPc' = "dead" /\ UNCHANGED <<window, updHand>>
       ELSE /\ updPc' = "emit"
            /\ updHand' = Head(window)
            /\ window' = Tail(window)
  /\ UNCHANGED <<counters, active, buffer, taken, updData, updLoop, endVars,
                 arrivals, overlapped>>

\* Mutant: what leaves the window is forgotten.
UpdateEmitForgets ==
  /\ updPc = "emit"
  /\ updHand' = None
  /\ updLoop' = updLoop + 1
  /\ updPc' = IF updLoop + 1 < updData.sn - rightSn THEN "grow" ELSE "place"
  /\ UNCHANGED <<window, counters, active, buffer, taken, updData, endVars, arrivals, overlapped>>

\* Mutant: the window slides one position less.
UpdateEmitTooShort ==
  /\ updPc = "emit"
  /\ buffer' = Emitted(updHand)
  /\ updHand' = None
  /\ updLoop' = updLoop + 1
  /\ updPc' = IF updLoop + 2 < updData.sn - rightSn THEN "grow" ELSE "place"
  /\ UNCHANGED <<window, counters, active, taken, updData, endVars, arrivals, overlapped>>

UpdateEmit ==
  /\ updPc = "emit"
  /\ buffer' = Emitted(updHand)
  /\ updHand' = None
  /\ updLoop' = updLoop + 1
  /\ updPc' = IF updLoop + 1 < updData.sn - rightSn THEN "grow" ELSE "place"
  /\ UNCHANGED <<window, counters, active, taken, updData, endVars, arrivals, overlapped>>

UpdatePlace ==
  /\ updPc = "place"
  /\ rightSn' = IF updData.sn > rightSn THEN updData.sn ELSE rightSn
  /\ leftSn' = leftSn + (rightSn' - rightSn)
  /\ count' = count + 1
  /\ maxSn' = IF updData.sn > maxSn THEN updData.sn ELSE maxSn
  /\ LET slot == updData.sn - leftSn' + 1 IN
       IF slot \in DOMAIN window
         THEN /\ window' = [window EXCEPT ![slot] = updData]
              /\ updPc' = "idle"
         ELSE updPc' = "dead" /\ UNCHANGED window
  /\ updData' = None
  /\ updLoop' = 0
  /\ UNCHANGED <<active, buffer, taken, updHand, endVars, arrivals, overlapped>>

Updater ==
  \/ UpdateGrow
  \/ UpdatePop
  \/ UpdateEmit
  \/ UpdatePlace
------------------------------------------------------------------------------
(* end(), called by the threads of Enders *)

EndCall(e) ==
  /\ endPc[e] = "idle"
  /\ active' = FALSE
  /\ endPc' = [endPc EXCEPT ![e] = "test"]
  /\ overlapped' = (overlapped \/ ~UpdaterQuiet \/ ~EndersQuiet)
  /\ UNCHANGED <<window, counters, buffer, taken, updVars, endHand, arrivals>>

\* Mutant: the loop stops with one packet left.
EndTestEarly(e) ==
  /\ endPc[e] = "test"
  /\ endPc' = [endPc EXCEPT ![e] = IF Len(window) > 1 THEN "pop" ELSE "idle"]
  /\ UNCHANGED <<window, counters, active, buffer, taken, updVars, endHand,
                 arrivals, overlapped>>

EndTest(e) ==
  /\ endPc[e] = "test"
  /\ endPc' = [endPc EXCEPT ![e] = IF Len(window) > 0 THEN "pop" ELSE "idle"]
  /\ UNCHANGED <<window, counters, active, buffer, taken, updVars, endHand,
                 arrivals, overlapped>>

\* Mutant: pop() for popleft().
EndPopRight(e) ==
  /\ endPc[e] = "pop"
  /\ window # <<>>
  /\ endPc' = [endPc EXCEPT ![e] = "emit"]
  /\ endHand' = [endHand EXCEPT ![e] = window[Len(window)]]
  /\ window' = SubSeq(window, 1, Len(window) - 1)
  /\ UNCHANGED <<counters, active, buffer, taken, updVars, arrivals, overlapped>>

EndPop(e) ==
  /\ endPc[e] = "pop"
  /\ IF window = <<>>
       THEN /\ endPc' = [endPc EXCEPT ![e] = "dead"]
            /\ UNCHANGED <<window, endHand>>
       ELSE /\ endPc' = [endPc EXCEPT ![e] = "emit"]
            /\ endHand' = [endHand EXCEPT ![e] = Head(window)]
            /\ window' = Tail(window)
  /\ UNCHANGED <<counters, active, buffer, taken, updVars, arrivals, overlapped>>

EndEmit(e) ==
  /\ endPc[e] = "emit"
  /\ buffer' = Emitted(endHand[e])
  /\ endHand' = [endHand EXCEPT ![e] = None]
  /\ endPc' = [endPc EXCEPT ![e] = "test"]
  /\ UNCHANGED <<window, counters, active, taken, updVars, arrivals, overlapped>>

Ender(e) == EndTest(e) \/ EndPop(e) \/ EndEmit(e)
------------------------------------------------------------------------------
(* receive(): spin while the queue is empty, then remove its head *)

\* Mutant: the head is removed without waiting for one.
ReceiveAtOnce ==
  /\ taken' = taken + 1
  /\ UNCHANGED <<window, counters, active, buffer, updVars, endVars, arrivals, overlapped>>

Receive ==
  /\ taken < Len(buffer)
  /\ taken' = taken + 1
  /\ UNCHANGED <<window, counters, active, buffer, updVars, endVars, arrivals, overlapped>>
------------------------------------------------------------------------------
Next ==
  \/ \E p \in Packet : UpdateDrop(p) \/ UpdateAdmit(p)
  \/ Updater
  \/ \E e \in Enders : EndCall(e) \/ Ender(e)
  \/ Receive

Spec == Init /\ [][Next]_vars

\* A thread that is inside a call keeps running: the interpreter schedules
\* every runnable thread.  Callers are free to call or not.
Fairness ==
  /\ WF_vars(Updater)
  /\ \A e \in Enders : WF_vars(Ender(e))

FairSpec == Spec /\ Fairness
------------------------------------------------------------------------------
(* Properties *)

Slots == {window[i] : i \in DOMAIN window} \ {None}
InHand == ({updHand} \cup {endHand[e] : e \in Enders}) \ {None}

\* How many empty slots the current update() has appended so far, and the
\* sequence number that belongs to the first slot of the window.
Grown == updLoop + (IF updPc \in {"pop", "emit"} THEN 1 ELSE 0)
Base == rightSn + Grown + 1 - Len(window)

UpdatePcs == {"idle", "grow", "pop", "emit", "place", "dead"}
EndPcs == {"idle", "test", "pop", "emit", "dead"}

\* The type invariant.
TypeOK ==
  /\ window \in Seq(Packet \cup {None})
  /\ buffer \in Seq(Packet)
  /\ taken \in 0..Len(buffer)
  /\ leftSn \in Nat /\ rightSn \in Nat /\ count \in Nat
  /\ maxSn \in 0..(SnSpace - 1)
  /\ active \in BOOLEAN
  /\ updPc \in UpdatePcs
  /\ updData \in Packet \cup {None}
  /\ updLoop \in Nat
  /\ updHand \in Packet \cup {None}
  /\ endPc \in [Enders -> EndPcs]
  /\ endHand \in [Enders -> Packet \cup {None}]
  /\ arrivals \in 0..MaxArrivals
  /\ overlapped \in BOOLEAN

\* The shape the indexing in update() relies on, as long as no end() has met
\* another call: left_sn and right_sn are the ends of a window of
\* window_size numbers that has moved exactly as far as the largest number
\* seen, the deque has window_size slots (one more between the append and the
\* popleft) until the session ends, a slot holds the packet of its own number,
\* and nobody has run off the end of a deque.
WindowShape ==
  ~overlapped =>
    /\ leftSn = rightSn + 1 - WindowSize
    /\ rightSn = IF maxSn > WindowSize - 1 THEN maxSn ELSE WindowSize - 1
    /\ active => Len(window) = WindowSize + (IF updPc = "pop" THEN 1 ELSE 0)
    /\ \A i \in DOMAIN window : window[i] # None => window[i].sn = Base + i - 1
    /\ updPc # "dead" /\ \A e \in Enders : endPc[e] # "dead"

\* Whatever the order of arrival, packets enter self.buffer, and so reach the
\* reader, in strictly increasing sequence-number order, as long as no end() has
\* met another call.
InOrder ==
  ~overlapped => \A i, j \in DOMAIN buffer : i < j => buffer[i].sn < buffer[j].sn

\* Until an end() meets another call, the object is the abstract reordering
\* buffer: besides the order, no accepted packet is lost or leaves twice (a later
\* packet with the same number replaces the earlier one), in the window's slides
\* as in end().
Promise == INSTANCE ReorderBuffer WITH
  Span <- WindowSize,
  held <- Slots \cup InHand,
  out  <- buffer,
  open <- active

KeepsPromise == Promise!Init /\ [][overlapped' \/ Promise!Next]_(Promise!vars)

\* The object as the callers of update() and end() know it.  The window is empty
\* also when the slot that update() has appended and is about to pop is left.
Drained == Len(window) <= (IF updPc = "pop" THEN 1 ELSE 0)
Status == IF active THEN "open" ELSE IF Drained THEN "empty" ELSE "closing"
Sent == {buffer[i] : i \in DOMAIN buffer}
Kept == Slots \cup InHand \cup Sent
Carried == IF updPc \in {"grow", "pop", "emit", "place"} THEN updData ELSE None
Stopped == updPc = "dead"
Ending == [e \in Enders |-> IF endPc[e] \in {"idle", "dead"} THEN endPc[e] ELSE "drain"]

\* However the calls overlap, the object is a session's window: whatever end()
\* does to the slots of an update() in progress, or of another end(), an accepted
\* packet gets lost only by the store of that update(), end() returns or raises
\* when the window is empty, and then nothing is accepted any more.
Session == INSTANCE SessionWindow WITH
  status <- Status, kept <- Kept, out <- Sent, inside <- Carried, stopped <- Stopped,
  ending <- Ending

KeepsSession == Session!Spec

\* end() hands over everything, also when it meets an update() or another end(),
\* one of which may die of it: once it has been called, the window is eventually
\* empty and stays so, and no packet is in a thread's hands.
EndDrains == ~active ~> [](window = <<>> /\ InHand = {})
==============================================================================
