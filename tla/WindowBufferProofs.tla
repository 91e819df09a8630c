-------------------------- MODULE WindowBufferProofs --------------------------
(***************************************************************************)
(* Theorems about WindowBuffer, for every window size, number space,       *)
(* payload, set of enders and number of arrivals.                          *)
(*                                                                         *)
(* Two things hold however the calls overlap: the types, and that the      *)
(* buffer implements SessionWindow, by the invariant SessionInv, which     *)
(* says what the threads know of each other's progress once end() may run  *)
(* inside update().  Everything else is proved until an end() meets        *)
(* another call: as long as none has (~overlapped), the invariant IInv     *)
(* says which thread may be inside a call (Serial), what its local         *)
(* variables hold (Locals), that the deque is the window [left_sn,         *)
(* right_sn] (Shape), and that whatever has left it, or is on its way out, *)
(* is older than whatever is still in it (Ascending).                      *)
(***************************************************************************)
EXTENDS WindowBuffer, SequenceTheorems, TLAPS

Cell == Packet \cup {None}

\* Slot i of the sequence w, if it is not empty, holds the number base + i - 1.
Numbered(w, base) == \A i \in 1..Len(w) : w[i] # None => w[i].sn = base + i - 1

\* The packets of b are in increasing order, and all below floor.
Ascending(b, floor) ==
  /\ \A i, j \in DOMAIN b : i < j => b[i].sn < b[j].sn
  /\ \A i \in DOMAIN b : b[i].sn < floor

Updating == updPc \in {"grow", "pop", "emit", "place"}

TypeInv == TypeOK /\ (Updating => updData \in Packet)

\* No thread has died, no two calls are in progress, and only an active buffer
\* is updated.
Serial ==
  /\ updPc # "dead" /\ \A e \in Enders : endPc[e] # "dead"
  /\ updPc # "idle" => active /\ \A e \in Enders : endPc[e] = "idle"
  /\ \A e \in Enders : endPc[e] # "idle" =>
       /\ ~active
       /\ \A f \in Enders : f # e => endPc[f] = "idle"

Locals ==
  /\ updPc = "idle" => updLoop = 0
  /\ updPc \in {"grow", "pop", "emit"} => updLoop < updData.sn - rightSn
  /\ updPc = "place" =>
       /\ updData.sn >= leftSn
       /\ updLoop = IF updData.sn > rightSn THEN updData.sn - rightSn ELSE 0
  /\ updHand # None => updPc = "emit" /\ updHand.sn = Base - 1
  /\ \A e \in Enders : endHand[e] # None =>
       endPc[e] = "emit" /\ endHand[e].sn = Base - 1
  /\ \A e \in Enders : endPc[e] = "pop" => window # <<>>

Shape ==
  /\ leftSn = rightSn + 1 - WindowSize
  /\ rightSn = IF maxSn > WindowSize - 1 THEN maxSn ELSE WindowSize - 1
  /\ active => Len(window) = WindowSize + (IF updPc = "pop" THEN 1 ELSE 0)
  /\ Numbered(window, Base)

\* Everything below Floor has left the window and is not in a thread's hands.
Emitting == updPc = "emit" \/ \E e \in Enders : endPc[e] = "emit"
Floor == Base - (IF Emitting THEN 1 ELSE 0)

IInv == TypeInv /\ Serial /\ Locals /\ Shape /\ Ascending(buffer, Floor)
------------------------------------------------------------------------------
(* Types, however the calls overlap *)

LEMMA InitTypes == Init => TypeInv
<1> SUFFICES ASSUME Init PROVE TypeInv
  OBVIOUS
<1> USE DEF Init
<1>1. window \in Seq(Packet \cup {None})
  <2>1. window \in [1..WindowSize -> Packet \cup {None}]
    OBVIOUS
  <2>. QED
    BY <2>1, SeqDef, WindowAssumption
<1>2. buffer \in Seq(Packet) /\ Len(buffer) = 0
  BY EmptySeq
<1>3. endPc \in [Enders -> EndPcs] /\ endHand \in [Enders -> Packet \cup {None}]
  BY DEF EndPcs
<1>4. active \in BOOLEAN /\ overlapped \in BOOLEAN
  OBVIOUS
<1>. QED
  BY <1>1, <1>2, <1>3, <1>4, WindowAssumption DEF TypeInv, TypeOK, Updating, UpdatePcs

LEMMA EmittedType ==
  ASSUME buffer \in Seq(Packet), NEW v \in Packet \cup {None}
  PROVE  /\ Emitted(v) \in Seq(Packet)
         /\ Len(Emitted(v)) \in Nat
         /\ Len(Emitted(v)) >= Len(buffer)
<1>1. CASE v = None
  BY <1>1, LenProperties DEF Emitted
<1>2. CASE v # None
  <2>1. v \in Packet
    BY <1>2
  <2>. QED
    BY <1>2, <2>1, AppendProperties, LenProperties DEF Emitted
<1>. QED
  BY <1>1, <1>2

LEMMA SlideIsNat ==
  ASSUME NEW l \in Nat, NEW r \in Nat, NEW s \in Nat, s >= r
  PROVE  l + (s - r) \in Nat
OBVIOUS

LEMMA NextTypes == TypeInv /\ [Next]_vars => TypeInv'
<1> SUFFICES ASSUME TypeInv, [Next]_vars PROVE TypeInv'
  OBVIOUS
<1> USE WindowAssumption, NoneAssumption
    DEF TypeInv, TypeOK, Updating, updVars, endVars, counters, UpdatePcs, EndPcs
<1>1. ASSUME NEW p \in Packet, UpdateDrop(p) PROVE TypeInv'
  BY <1>1 DEF UpdateDrop, Arrive
<1>2. ASSUME NEW p \in Packet, UpdateAdmit(p) PROVE TypeInv'
  BY <1>2 DEF UpdateAdmit, Arrive
<1>3. CASE UpdateGrow
  <2>1. window' \in Seq(Packet \cup {None})
    BY <1>3, AppendProperties DEF UpdateGrow
  <2>. QED
    BY <1>3, <2>1 DEF UpdateGrow
<1>4. CASE UpdatePop
  <2>1. CASE window = <<>>
    BY <1>4, <2>1 DEF UpdatePop
  <2>2. CASE window # <<>>
    <3>1. Head(window) \in Packet \cup {None} /\ Tail(window) \in Seq(Packet \cup {None})
      BY <2>2, HeadTailProperties
    <3>. QED
      BY <1>4, <2>2, <3>1 DEF UpdatePop
  <2>. QED
    BY <2>1, <2>2
<1>5. CASE UpdateEmit
  <2>1. buffer' \in Seq(Packet) /\ Len(buffer') \in Nat /\ Len(buffer') >= Len(buffer)
    BY <1>5, EmittedType DEF UpdateEmit
  <2>2. taken' \in 0..Len(buffer')
    BY <1>5, <2>1, LenProperties DEF UpdateEmit
  <2>. QED
    BY <1>5, <2>1, <2>2 DEF UpdateEmit
<1>6. CASE UpdatePlace
  <2>1. updData \in Packet /\ updData.sn \in 0..(SnSpace - 1)
    BY <1>6 DEF UpdatePlace, Packet
  <2>2. rightSn' \in Nat /\ leftSn' \in Nat /\ count' \in Nat /\ maxSn' \in 0..(SnSpace - 1)
    <3>1. rightSn \in Nat /\ leftSn \in Nat /\ count \in Nat /\ maxSn \in 0..(SnSpace - 1)
      OBVIOUS
    <3>2. rightSn' \in Nat /\ rightSn' >= rightSn
      BY <1>6, <2>1, <3>1 DEF UpdatePlace
    <3>3. /\ leftSn' = leftSn + (rightSn' - rightSn)
          /\ count' = count + 1
          /\ maxSn' = IF updData.sn > maxSn THEN updData.sn ELSE maxSn
      BY <1>6 DEF UpdatePlace
    <3>4. leftSn' \in Nat
      BY <3>1, <3>2, <3>3, SlideIsNat
    <3>5. count' \in Nat
      BY <3>1, <3>3
    <3>6. maxSn' \in 0..(SnSpace - 1)
      BY <2>1, <3>1, <3>3
    <3>. QED
      BY <3>2, <3>4, <3>5, <3>6
  <2>3. /\ window' \in Seq(Packet \cup {None})
        /\ updPc' \in {"idle", "dead"}
    <3> DEFINE slot == updData.sn - leftSn' + 1
    <3>1. CASE slot \in DOMAIN window
      <4>1. slot \in 1..Len(window)
        BY <3>1, LenProperties
      <4>2. window' = [window EXCEPT ![slot] = updData] /\ updPc' = "idle"
        BY <1>6, <3>1 DEF UpdatePlace
      <4>. QED
        BY <4>1, <4>2, <2>1, ExceptSeq
    <3>2. CASE slot \notin DOMAIN window
      BY <1>6, <3>2 DEF UpdatePlace
    <3>. QED
      BY <3>1, <3>2
  <2>. QED
    BY <1>6, <2>2, <2>3 DEF UpdatePlace
<1>7. ASSUME NEW e \in Enders, EndCall(e) PROVE TypeInv'
  BY <1>7 DEF EndCall
<1>8. ASSUME NEW e \in Enders, EndTest(e) PROVE TypeInv'
  BY <1>8 DEF EndTest
<1>9. ASSUME NEW e \in Enders, EndPop(e) PROVE TypeInv'
  <2>1. CASE window = <<>>
    BY <1>9, <2>1 DEF EndPop
  <2>2. CASE window # <<>>
    <3>1. Head(window) \in Packet \cup {None} /\ Tail(window) \in Seq(Packet \cup {None})
      BY <2>2, HeadTailProperties
    <3>. QED
      BY <1>9, <2>2, <3>1 DEF EndPop
  <2>. QED
    BY <2>1, <2>2
<1>10. ASSUME NEW e \in Enders, EndEmit(e) PROVE TypeInv'
  <2>1. buffer' \in Seq(Packet) /\ Len(buffer') \in Nat /\ Len(buffer') >= Len(buffer)
    BY <1>10, EmittedType DEF EndEmit
  <2>2. taken' \in 0..Len(buffer')
    BY <1>10, <2>1, LenProperties DEF EndEmit
  <2>. QED
    BY <1>10, <2>1, <2>2 DEF EndEmit
<1>11. CASE Receive
  <2>1. taken' \in 0..Len(buffer')
    BY <1>11, LenProperties DEF Receive
  <2>. QED
    BY <1>11, <2>1 DEF Receive
<1>12. CASE UNCHANGED vars
  BY <1>12 DEF vars
<1>. QED
  BY <1>1, <1>2, <1>3, <1>4, <1>5, <1>6, <1>7, <1>8, <1>9, <1>10, <1>11, <1>12
  DEF Next, Updater, Ender

\* The variables keep their types in every behaviour of the class, also when
\* end() runs while update() does: an IndexError ends a thread, it never leaves
\* a wrongly typed deque or counter behind.
THEOREM TypeCorrect == Spec => []TypeOK
<1>1. TypeInv => TypeOK
  BY DEF TypeInv
<1>. QED
  BY <1>1, InitTypes, NextTypes, PTL DEF Spec
------------------------------------------------------------------------------
(* Slots and queues *)

LEMMA PacketSn == \A p \in Packet : p.sn \in Int /\ p.sn \in 0..(SnSpace - 1)
BY WindowAssumption DEF Packet

LEMMA NumberedAppend ==
  ASSUME NEW w \in Seq(Cell), NEW base \in Int, Numbered(w, base)
  PROVE  Numbered(Append(w, None), base) /\ Len(Append(w, None)) = Len(w) + 1
<1>1. None \in Cell
  BY DEF Cell
<1>2. /\ Len(Append(w, None)) = Len(w) + 1
      /\ \A i \in 1..Len(w) : Append(w, None)[i] = w[i]
      /\ Append(w, None)[Len(w) + 1] = None
      /\ Len(w) \in Nat
  BY <1>1, AppendProperties, LenProperties
<1>. QED
  BY <1>2 DEF Numbered

LEMMA NumberedTail ==
  ASSUME NEW w \in Seq(Cell), NEW base \in Int, Numbered(w, base), w # <<>>
  PROVE  /\ Numbered(Tail(w), base + 1)
         /\ Len(Tail(w)) = Len(w) - 1
         /\ Head(w) \in Cell
         /\ Head(w) # None => Head(w).sn = base
<1>1. /\ Head(w) \in Cell
      /\ Len(Tail(w)) = Len(w) - 1
      /\ \A i \in 1..Len(Tail(w)) : Tail(w)[i] = w[i + 1]
  BY HeadTailProperties
<1>2. Len(w) \in Nat \ {0}
  BY EmptySeq
<1>3. Head(w) = w[1]
  OBVIOUS
<1>4. Head(w) # None => Head(w).sn = base
  BY <1>2, <1>3 DEF Numbered
<1>5. Numbered(Tail(w), base + 1)
  BY <1>1, <1>2 DEF Numbered
<1>. QED
  BY <1>1, <1>4, <1>5

LEMMA NumberedExcept ==
  ASSUME NEW w \in Seq(Cell), NEW base \in Int, Numbered(w, base),
         NEW i \in 1..Len(w), NEW p \in Packet, p.sn = base + i - 1
  PROVE  Numbered([w EXCEPT ![i] = p], base) /\ Len([w EXCEPT ![i] = p]) = Len(w)
<1>1. p \in Cell
  BY DEF Cell
<1>2. /\ Len([w EXCEPT ![i] = p]) = Len(w)
      /\ \A j \in 1..Len(w) : [w EXCEPT ![i] = p][j] = IF j = i THEN p ELSE w[j]
  BY <1>1, ExceptSeq
<1>. QED
  BY <1>2 DEF Numbered

LEMMA EmittedAscends ==
  ASSUME buffer \in Seq(Packet), NEW floor \in Int, Ascending(buffer, floor),
         NEW v \in Cell, v # None => v.sn = floor
  PROVE  Ascending(Emitted(v), floor + 1)
<1>1. CASE v = None
  <2>1. \A i \in DOMAIN buffer : buffer[i] \in Packet
    BY LenProperties
  <2>. QED
    BY <1>1, <2>1, PacketSn DEF Emitted, Ascending
<1>2. CASE v # None
  <2>1. v \in Packet
    BY <1>2 DEF Cell
  <2>2. /\ Len(Append(buffer, v)) = Len(buffer) + 1
        /\ DOMAIN Append(buffer, v) = 1..(Len(buffer) + 1)
        /\ \A i \in 1..Len(buffer) : Append(buffer, v)[i] = buffer[i]
        /\ Append(buffer, v)[Len(buffer) + 1] = v
        /\ Len(buffer) \in Nat /\ DOMAIN buffer = 1..Len(buffer)
    BY <2>1, AppendProperties, LenProperties
  <2>3. \A i \in 1..Len(buffer) : buffer[i].sn \in Int
    BY LenProperties, PacketSn
  <2>. QED
    BY <1>2, <2>2, <2>3 DEF Emitted, Ascending
<1>. QED
  BY <1>1, <1>2
------------------------------------------------------------------------------
(* The inductive invariant *)

\* What IInv says of the numbers, for the arithmetic below.
LEMMA Numbers ==
  ASSUME IInv
  PROVE  /\ Base \in Int /\ Grown \in Nat /\ Len(window) \in Nat
         /\ leftSn \in Nat /\ rightSn \in Nat /\ updLoop \in Nat
         /\ maxSn \in 0..(SnSpace - 1)
         /\ leftSn = rightSn + 1 - WindowSize
         /\ Base = rightSn + Grown + 1 - Len(window)
         /\ window \in Seq(Cell) /\ buffer \in Seq(Packet)
<1>1. /\ leftSn \in Nat /\ rightSn \in Nat /\ updLoop \in Nat
      /\ maxSn \in 0..(SnSpace - 1)
      /\ window \in Seq(Cell) /\ buffer \in Seq(Packet)
  BY DEF IInv, TypeInv, TypeOK, Cell
<1>2. Len(window) \in Nat
  BY <1>1, LenProperties
<1>3. Grown \in Nat
  BY <1>1 DEF Grown
<1>4. leftSn = rightSn + 1 - WindowSize
  BY DEF IInv, Shape
<1>. QED
  BY <1>1, <1>2, <1>3, <1>4 DEF Base

LEMMA InitInv == Init => IInv
<1> SUFFICES ASSUME Init PROVE IInv
  OBVIOUS
<1>1. TypeInv
  BY InitTypes
<1>2. Serial /\ Locals
  BY DEF Init, Serial, Locals
<1>3. Len(window) = WindowSize
  BY <1>1, LenProperties, WindowAssumption DEF Init
<1>4. Shape
  BY <1>3, WindowAssumption DEF Init, Shape, Numbered
<1>5. Ascending(buffer, Floor)
  BY DEF Init, Ascending
<1>. QED
  BY <1>1, <1>2, <1>4, <1>5 DEF IInv

LEMMA AdmitInv ==
  ASSUME IInv, TypeInv', NEW p \in Packet, UpdateAdmit(p)
  PROVE  IInv'
<1>1. /\ updPc = "idle" /\ updLoop = 0 /\ updLoop' = 0 /\ updData' = p /\ active
      /\ updPc' = IF p.sn > rightSn THEN "grow" ELSE "place"
      /\ UNCHANGED <<window, leftSn, rightSn, maxSn, active, buffer, updHand, endPc, endHand>>
      /\ p.sn >= leftSn
      /\ \A e \in Enders : endPc[e] = "idle"
  BY DEF UpdateAdmit, Arrive, IInv, Serial, Locals, counters, endVars
<1>2. Base' = Base /\ Floor' = Floor
  BY <1>1 DEF Floor, Base, Grown, Emitting
<1>3. Serial'
  BY <1>1 DEF Serial
<1>4. Locals'
  BY <1>1, <1>2, Numbers, PacketSn DEF IInv, Locals
<1>5. Shape'
  BY <1>1, <1>2 DEF IInv, Shape
<1>. QED
  BY <1>1, <1>2, <1>3, <1>4, <1>5 DEF IInv

LEMMA GrowInv ==
  ASSUME IInv, TypeInv', UpdateGrow
  PROVE  IInv'
<1>1. /\ updPc = "grow" /\ updPc' = "pop" /\ window' = Append(window, None)
      /\ UNCHANGED <<leftSn, rightSn, maxSn, active, buffer, updData, updLoop,
                     updHand, endPc, endHand>>
  BY DEF UpdateGrow, counters, endVars
<1>2. Len(window') = Len(window) + 1 /\ Numbered(window', Base)
  BY <1>1, Numbers, NumberedAppend DEF IInv, Shape
<1>3. Base' = Base /\ Floor' = Floor
  <2>1. Grown' = Grown + 1
    BY <1>1, Numbers DEF Grown
  <2>2. Base' = Base
    BY <1>1, <1>2, <2>1, Numbers DEF Base
  <2>. QED
    BY <1>1, <2>2 DEF Floor, Emitting
<1>4. Serial'
  BY <1>1 DEF IInv, Serial
<1>5. Locals'
  BY <1>1, <1>3 DEF IInv, Locals
<1>6. Shape'
  BY <1>1, <1>2, <1>3, Numbers, WindowAssumption DEF IInv, Shape
<1>. QED
  BY <1>1, <1>3, <1>4, <1>5, <1>6 DEF IInv
LEMMA PopInv ==
  ASSUME IInv, TypeInv', UpdatePop
  PROVE  IInv'
<1>1. /\ updPc = "pop" /\ active
      /\ Len(window) = WindowSize + 1 /\ window # <<>>
      /\ \A e \in Enders : endPc[e] = "idle"
  <2>1. updPc = "pop" /\ active /\ Len(window) = WindowSize + 1
    BY DEF UpdatePop, IInv, Serial, Shape
  <2>2. Len(window) # 0
    BY <2>1, WindowAssumption
  <2>. QED
    BY <2>1, <2>2 DEF IInv, Serial
<1>2. /\ updPc' = "emit" /\ window' = Tail(window) /\ updHand' = Head(window)
      /\ UNCHANGED <<leftSn, rightSn, maxSn, active, buffer, updData, updLoop,
                     endPc, endHand>>
  BY <1>1 DEF UpdatePop, counters, endVars
<1>3. /\ Len(window') = Len(window) - 1 /\ Numbered(window', Base + 1)
      /\ updHand' # None => updHand'.sn = Base
  BY <1>1, <1>2, Numbers, NumberedTail DEF IInv, Shape
<1>4. Base' = Base + 1
  <2>1. Grown' = Grown
    BY <1>1, <1>2 DEF Grown
  <2>2. Base' = rightSn + Grown + 1 - (Len(window) - 1)
    BY <1>2, <1>3, <2>1 DEF Base
  <2>. QED
    BY <2>2, Numbers
<1>5. Floor' = Floor
  BY <1>1, <1>2, <1>4, Numbers DEF Floor, Emitting
<1>6. Serial'
  BY <1>1, <1>2 DEF IInv, Serial
<1>7. Locals'
  BY <1>1, <1>2, <1>3, <1>4, Numbers DEF IInv, Locals
<1>8. Shape'
  BY <1>1, <1>2, <1>3, <1>4, Numbers, WindowAssumption DEF IInv, Shape
<1>. QED
  BY <1>2, <1>5, <1>6, <1>7, <1>8 DEF IInv

LEMMA EmitInv ==
  ASSUME IInv, TypeInv', UpdateEmit
  PROVE  IInv'
<1>1. /\ updPc = "emit" /\ active
      /\ \A e \in Enders : endPc[e] = "idle"
      /\ updHand \in Cell /\ (updHand # None => updHand.sn = Base - 1)
      /\ updData \in Packet /\ updLoop < updData.sn - rightSn
  BY DEF UpdateEmit, IInv, Serial, Locals, TypeInv, TypeOK, Updating, Cell
<1>2. /\ buffer' = Emitted(updHand) /\ updHand' = None /\ updLoop' = updLoop + 1
      /\ updPc' = IF updLoop + 1 < updData.sn - rightSn THEN "grow" ELSE "place"
      /\ UNCHANGED <<window, leftSn, rightSn, maxSn, active, updData, endPc, endHand>>
  BY DEF UpdateEmit, counters, endVars
<1>3. Base' = Base /\ Floor' = Base /\ Floor = Base - 1
  <2>1. Grown' = Grown
    BY <1>1, <1>2, Numbers DEF Grown
  <2>2. Base' = Base
    BY <1>2, <2>1 DEF Base
  <2>. QED
    BY <1>1, <1>2, <2>2, Numbers DEF Floor, Emitting
<1>4. Ascending(buffer', Floor')
  BY <1>1, <1>2, <1>3, EmittedAscends, Numbers DEF IInv
<1>5. Serial'
  BY <1>1, <1>2 DEF IInv, Serial
<1>6. Locals'
  <2>1. updData.sn \in Int
    BY <1>1, PacketSn
  <2>2. updData.sn >= leftSn /\ updData.sn > rightSn
    <3>1. rightSn \in Nat /\ updLoop \in Nat /\ leftSn = rightSn + 1 - WindowSize
      BY Numbers
    <3>2. updData.sn > rightSn
      BY <1>1, <2>1, <3>1
    <3>. QED
      BY <2>1, <3>1, <3>2, WindowAssumption
  <2>3. updPc' = "place" => updLoop' = updData.sn - rightSn
    <3>1. rightSn \in Nat /\ updLoop \in Nat
      BY Numbers
    <3>2. CASE updLoop + 1 < updData.sn - rightSn
      BY <1>2, <3>2
    <3>3. CASE ~(updLoop + 1 < updData.sn - rightSn)
      BY <1>1, <1>2, <2>1, <3>1, <3>3
    <3>. QED
      BY <3>2, <3>3
  <2>4. updPc' = "grow" => updLoop' < updData.sn - rightSn
    BY <1>2
  <2>5. \A e \in Enders : endHand[e] = None
    BY <1>1 DEF IInv, Locals
  <2>. QED
    BY <1>1, <1>2, <2>2, <2>3, <2>4, <2>5 DEF Locals
<1>7. Shape'
  BY <1>1, <1>2, <1>3 DEF IInv, Shape
<1>. QED
  BY <1>4, <1>5, <1>6, <1>7 DEF IInv

\* The window, moved far enough, has a slot for the packet, and the slot is the
\* one of its number.
LEMMA PlaceSlot ==
  ASSUME IInv, UpdatePlace
  PROVE  /\ updData \in Packet /\ updData.sn \in 0..(SnSpace - 1)
         /\ updPc = "place" /\ active
         /\ leftSn' = rightSn' + 1 - WindowSize
         /\ rightSn' = IF updData.sn > rightSn THEN updData.sn ELSE rightSn
         /\ Base = leftSn'
         /\ Len(window) = WindowSize
         /\ updData.sn - leftSn' + 1 \in 1..Len(window)
         /\ \A e \in Enders : endPc[e] = "idle" /\ endHand[e] = None
         /\ updHand = None
<1>1. /\ updData \in Packet /\ updData.sn \in 0..(SnSpace - 1)
      /\ updPc = "place" /\ active
      /\ rightSn' = IF updData.sn > rightSn THEN updData.sn ELSE rightSn
      /\ leftSn' = leftSn + (rightSn' - rightSn)
  BY PacketSn DEF UpdatePlace, IInv, Serial, TypeInv, Updating
<1>2. /\ updData.sn >= leftSn
      /\ updLoop = IF updData.sn > rightSn THEN updData.sn - rightSn ELSE 0
  BY <1>1 DEF IInv, Locals
<1>3. leftSn = rightSn + 1 - WindowSize /\ Len(window) = WindowSize
  BY <1>1, WindowAssumption DEF IInv, Shape
<1>4. Base = rightSn + updLoop + 1 - WindowSize
  <2>1. Grown = updLoop
    BY <1>1, Numbers DEF Grown
  <2>. QED
    BY <1>3, <2>1 DEF Base
<1>5. /\ leftSn' = rightSn' + 1 - WindowSize /\ Base = leftSn'
      /\ updData.sn - leftSn' + 1 \in 1..Len(window)
  <2>1. rightSn \in Nat /\ WindowSize \in Nat \ {0} /\ updData.sn \in Int
    BY <1>1, Numbers, PacketSn, WindowAssumption
  <2>2. CASE updData.sn > rightSn
    <3>1. rightSn' = updData.sn /\ updLoop = updData.sn - rightSn
      BY <1>1, <1>2, <2>2
    <3>2. leftSn' = updData.sn + 1 - WindowSize /\ Base = updData.sn + 1 - WindowSize
      BY <1>1, <1>3, <1>4, <2>1, <3>1
    <3>. QED
      BY <1>3, <2>1, <3>1, <3>2
  <2>3. CASE ~(updData.sn > rightSn)
    <3>1. rightSn' = rightSn /\ updLoop = 0
      BY <1>1, <1>2, <2>3
    <3>2. leftSn' = leftSn /\ Base = leftSn
      BY <1>1, <1>3, <1>4, <2>1, <3>1
    <3>. QED
      BY <1>2, <1>3, <2>1, <2>3, <3>1, <3>2
  <2>. QED
    BY <2>2, <2>3
<1>6. /\ \A e \in Enders : endPc[e] = "idle" /\ endHand[e] = None
      /\ updHand = None
  BY <1>1 DEF IInv, Serial, Locals
<1>. QED
  BY <1>1, <1>3, <1>5, <1>6

LEMMA PlaceInv ==
  ASSUME IInv, TypeInv', UpdatePlace
  PROVE  IInv'
<1> DEFINE slot == updData.sn - leftSn' + 1
<1>1. slot \in DOMAIN window
  BY PlaceSlot, Numbers, LenProperties
<1>2. /\ window' = [window EXCEPT ![slot] = updData]
      /\ updPc' = "idle" /\ updLoop' = 0
      /\ maxSn' = IF updData.sn > maxSn THEN updData.sn ELSE maxSn
      /\ UNCHANGED <<active, buffer, updHand, endPc, endHand>>
  BY <1>1 DEF UpdatePlace, endVars
<1>3. rightSn' \in Nat /\ leftSn' \in Nat
  BY DEF TypeInv, TypeOK
<1>4. Len(window') = Len(window) /\ Numbered(window', Base)
  <2>1. updData.sn = Base + slot - 1 /\ slot \in 1..Len(window) /\ updData \in Packet
    BY <1>3, PlaceSlot, PacketSn
  <2>2. Numbered(window, Base) /\ window \in Seq(Cell) /\ Base \in Int
    BY Numbers DEF IInv, Shape
  <2>. QED
    BY <1>2, <2>1, <2>2, NumberedExcept
<1>5. Base' = Base /\ Floor' = Floor
  <2>1. Grown' = 0
    BY <1>2 DEF Grown
  <2>2. Base' = Base
    BY <1>3, <1>4, <2>1, PlaceSlot, WindowAssumption DEF Base
  <2>. QED
    BY <1>2, <2>2, PlaceSlot DEF Floor, Emitting
<1>6. Serial'
  BY <1>2, PlaceSlot DEF IInv, Serial
<1>7. Locals'
  BY <1>2, PlaceSlot DEF IInv, Locals
<1>8. Shape'
  <2>1. rightSn' = IF maxSn' > WindowSize - 1 THEN maxSn' ELSE WindowSize - 1
    <3>1. rightSn = IF maxSn > WindowSize - 1 THEN maxSn ELSE WindowSize - 1
      BY DEF IInv, Shape
    <3>2. /\ rightSn' = IF updData.sn > rightSn THEN updData.sn ELSE rightSn
          /\ updData.sn \in Int /\ maxSn \in Int /\ WindowSize \in Int
      BY PlaceSlot, PacketSn, Numbers, WindowAssumption
    <3>3. CASE updData.sn > maxSn
      BY <1>2, <3>1, <3>2, <3>3
    <3>4. CASE ~(updData.sn > maxSn)
      BY <1>2, <3>1, <3>2, <3>4
    <3>. QED
      BY <3>3, <3>4
  <2>. QED
    BY <1>2, <1>4, <1>5, <2>1, PlaceSlot DEF IInv, Shape
<1>. QED
  BY <1>2, <1>5, <1>6, <1>7, <1>8 DEF IInv
LEMMA EndCallInv ==
  ASSUME IInv, ~overlapped', TypeInv', NEW e \in Enders, EndCall(e)
  PROVE  IInv'
<1>1. /\ updPc = "idle" /\ updLoop = 0
      /\ \A f \in Enders : endPc[f] = "idle"
      /\ active' = FALSE /\ endPc' = [endPc EXCEPT ![e] = "test"]
      /\ UNCHANGED <<window, leftSn, rightSn, maxSn, buffer, updPc, updData,
                     updLoop, updHand, endHand>>
  BY DEF EndCall, UpdaterQuiet, EndersQuiet, IInv, Serial, Locals, counters, updVars
<1>2. endPc \in [Enders -> EndPcs]
  BY DEF IInv, TypeInv, TypeOK
<1>3. Base' = Base /\ Floor' = Floor
  <2>1. Base' = Base
    BY <1>1 DEF Base, Grown
  <2>2. Emitting' = Emitting
    BY <1>1, <1>2 DEF Emitting
  <2>. QED
    BY <2>1, <2>2 DEF Floor
<1>4. Serial'
  BY <1>1, <1>2 DEF Serial
<1>5. Locals'
  BY <1>1, <1>2, <1>3 DEF IInv, Locals
<1>6. Shape'
  BY <1>1, <1>3 DEF IInv, Shape
<1>. QED
  BY <1>1, <1>3, <1>4, <1>5, <1>6 DEF IInv

\* What IInv says while e is inside end().
LEMMA InEnd ==
  ASSUME IInv, NEW e \in Enders, endPc[e] # "idle"
  PROVE  /\ updPc = "idle" /\ updHand = None /\ updLoop = 0 /\ ~active
         /\ \A f \in Enders : f # e => endPc[f] = "idle" /\ endHand[f] = None
         /\ endPc[e] # "dead"
         /\ endPc \in [Enders -> EndPcs]
         /\ endHand \in [Enders -> Cell]
         /\ endHand[e] # None => endPc[e] = "emit" /\ endHand[e].sn = Base - 1
         /\ endPc[e] = "pop" => window # <<>>
<1>1. updPc = "idle" /\ ~active /\ endPc[e] # "dead"
  BY DEF IInv, Serial
<1>2. \A f \in Enders : f # e => endPc[f] = "idle"
  BY DEF IInv, Serial
<1>. QED
  BY <1>1, <1>2 DEF IInv, Locals, TypeInv, TypeOK, Cell

LEMMA EndTestInv ==
  ASSUME IInv, TypeInv', NEW e \in Enders, EndTest(e)
  PROVE  IInv'
<1>1. /\ endPc[e] = "test"
      /\ endPc' = [endPc EXCEPT ![e] = IF Len(window) > 0 THEN "pop" ELSE "idle"]
      /\ UNCHANGED <<window, leftSn, rightSn, maxSn, active, buffer, updPc, updData,
                     updLoop, updHand, endHand>>
  BY DEF EndTest, counters, updVars
<1>2. Base' = Base /\ Floor' = Floor
  <2>1. Base' = Base
    BY <1>1 DEF Base, Grown
  <2>2. Emitting' = Emitting
    BY <1>1, InEnd DEF Emitting
  <2>. QED
    BY <2>1, <2>2 DEF Floor
<1>3. Serial'
  BY <1>1, InEnd DEF Serial
<1>4. Locals'
  <2>1. endPc'[e] = "pop" => window # <<>>
    BY <1>1, InEnd
  <2>. QED
    BY <1>1, <1>2, <2>1, InEnd DEF Locals
<1>5. Shape'
  BY <1>1, <1>2 DEF IInv, Shape
<1>. QED
  BY <1>1, <1>2, <1>3, <1>4, <1>5 DEF IInv

\* The test of the loop is still true when the element is removed.
LEMMA EndPopInv ==
  ASSUME IInv, TypeInv', NEW e \in Enders, EndPop(e)
  PROVE  IInv'
<1>0. window # <<>>
  BY InEnd DEF EndPop
<1>1. /\ endPc[e] = "pop"
      /\ endPc' = [endPc EXCEPT ![e] = "emit"]
      /\ endHand' = [endHand EXCEPT ![e] = Head(window)]
      /\ window' = Tail(window)
      /\ UNCHANGED <<leftSn, rightSn, maxSn, active, buffer, updPc, updData,
                     updLoop, updHand>>
  BY <1>0 DEF EndPop, counters, updVars
<1>2. /\ Len(window') = Len(window) - 1 /\ Numbered(window', Base + 1)
      /\ Head(window) # None => Head(window).sn = Base
  BY <1>0, <1>1, Numbers, NumberedTail DEF IInv, Shape
<1>3. Base' = Base + 1
  <2>1. Grown' = Grown
    BY <1>1 DEF Grown
  <2>2. Base' = rightSn + Grown + 1 - (Len(window) - 1)
    BY <1>1, <1>2, <2>1 DEF Base
  <2>. QED
    BY <2>2, Numbers
<1>4. Floor' = Floor
  <2>1. ~Emitting /\ Emitting'
    BY <1>1, InEnd DEF Emitting
  <2>. QED
    BY <1>3, <2>1, Numbers DEF Floor
<1>5. Serial'
  BY <1>1, InEnd DEF Serial
<1>6. Locals'
  <2>1. Base' - 1 = Base
    BY <1>3, Numbers
  <2>. QED
    BY <1>1, <1>2, <2>1, InEnd DEF Locals
<1>7. Shape'
  BY <1>1, <1>2, <1>3, InEnd DEF IInv, Shape
<1>. QED
  BY <1>1, <1>4, <1>5, <1>6, <1>7 DEF IInv

LEMMA EndEmitInv ==
  ASSUME IInv, TypeInv', NEW e \in Enders, EndEmit(e)
  PROVE  IInv'
<1>1. /\ endPc[e] = "emit"
      /\ buffer' = Emitted(endHand[e])
      /\ endHand' = [endHand EXCEPT ![e] = None]
      /\ endPc' = [endPc EXCEPT ![e] = "test"]
      /\ UNCHANGED <<window, leftSn, rightSn, maxSn, active, updPc, updData,
                     updLoop, updHand>>
  BY DEF EndEmit, counters, updVars
<1>2. Base' = Base
  BY <1>1 DEF Base, Grown
<1>3. Floor = Base - 1 /\ Floor' = Base
  <2>1. Emitting /\ ~Emitting'
    BY <1>1, InEnd DEF Emitting
  <2>. QED
    BY <1>2, <2>1, Numbers DEF Floor
<1>4. Ascending(buffer', Floor')
  <2>1. endHand[e] \in Cell /\ (endHand[e] # None => endHand[e].sn = Base - 1)
    BY <1>1, InEnd
  <2>2. Ascending(buffer, Base - 1)
    BY <1>3 DEF IInv
  <2>3. Ascending(Emitted(endHand[e]), (Base - 1) + 1)
    BY <2>1, <2>2, EmittedAscends, Numbers
  <2>. QED
    BY <1>1, <1>3, <2>3, Numbers
<1>5. Serial'
  BY <1>1, InEnd DEF Serial
<1>6. Locals'
  BY <1>1, <1>2, InEnd DEF Locals
<1>7. Shape'
  BY <1>1, <1>2 DEF IInv, Shape
<1>. QED
  BY <1>4, <1>5, <1>6, <1>7 DEF IInv

\* Nothing IInv speaks of is changed, whatever else the step does.
LEMMA StutterInv ==
  ASSUME IInv, TypeInv',
         UNCHANGED <<window, leftSn, rightSn, maxSn, active, buffer, updPc, updData,
                     updLoop, updHand, endPc, endHand>>
  PROVE  IInv'
<1>1. Base' = Base /\ Floor' = Floor
  BY DEF Base, Grown, Floor, Emitting
<1>. QED
  BY <1>1 DEF IInv, Serial, Locals, Shape

LEMMA NextInv ==
  ASSUME IInv, ~overlapped', [Next]_vars
  PROVE  IInv'
<1>0. TypeInv'
  BY NextTypes DEF IInv
<1>1. ASSUME NEW p \in Packet, UpdateDrop(p) PROVE IInv'
  BY <1>0, <1>1, StutterInv DEF UpdateDrop, Arrive, counters, updVars, endVars
<1>2. ASSUME NEW p \in Packet, UpdateAdmit(p) PROVE IInv'
  BY <1>0, <1>2, AdmitInv
<1>3. CASE UpdateGrow
  BY <1>0, <1>3, GrowInv
<1>4. CASE UpdatePop
  BY <1>0, <1>4, PopInv
<1>5. CASE UpdateEmit
  BY <1>0, <1>5, EmitInv
<1>6. CASE UpdatePlace
  BY <1>0, <1>6, PlaceInv
<1>7. ASSUME NEW e \in Enders, EndCall(e) PROVE IInv'
  BY <1>0, <1>7, EndCallInv
<1>8. ASSUME NEW e \in Enders, EndTest(e) PROVE IInv'
  BY <1>0, <1>8, EndTestInv
<1>9. ASSUME NEW e \in Enders, EndPop(e) PROVE IInv'
  BY <1>0, <1>9, EndPopInv
<1>10. ASSUME NEW e \in Enders, EndEmit(e) PROVE IInv'
  BY <1>0, <1>10, EndEmitInv
<1>11. CASE Receive
  BY <1>0, <1>11, StutterInv DEF Receive, counters, updVars, endVars
<1>12. CASE UNCHANGED vars
  BY <1>0, <1>12, StutterInv DEF vars, counters, updVars, endVars
<1>. QED
  BY <1>1, <1>2, <1>3, <1>4, <1>5, <1>6, <1>7, <1>8, <1>9, <1>10, <1>11, <1>12
  DEF Next, Updater, Ender

\* What overlapped remembers is not forgotten.
LEMMA OverlapStays == ASSUME TypeInv, [Next]_vars PROVE overlapped => overlapped'
BY DEF Next, Updater, Ender, UpdateDrop, UpdateAdmit, UpdateGrow, UpdatePop, UpdateEmit,
       UpdatePlace, EndCall, EndTest, EndPop, EndEmit, Receive, vars

\* The inductive invariant of update(), receive() and end() until an end() meets
\* another call.
SerialInv == TypeInv /\ (~overlapped => IInv)

THEOREM Invariance == Spec => []SerialInv
<1>1. SerialInv /\ [Next]_vars => SerialInv'
  BY NextInv, NextTypes, OverlapStays DEF SerialInv
<1>2. Init => SerialInv
  BY InitInv DEF SerialInv, IInv
<1>. QED
  BY <1>1, <1>2, PTL DEF Spec

\* As long as no end() has met another call, left_sn, right_sn and the deque always
\* describe the same window: every index update() computes lies inside the
\* deque, the slot it names is the one of the packet's number, and neither
\* update() nor end() pops from an empty deque.
THEOREM WindowKeepsShape == Spec => []WindowShape
<1>1. SerialInv => WindowShape
  <2> SUFFICES ASSUME IInv PROVE WindowShape
    BY DEF SerialInv, WindowShape
  <2>1. DOMAIN window = 1..Len(window)
    BY Numbers, LenProperties
  <2>. QED
    BY <2>1 DEF IInv, Serial, Shape, Numbered, WindowShape
<1>. QED
  BY <1>1, Invariance, PTL

\* As long as no end() has met another call, packets leave the window in strictly
\* increasing sequence-number order, however they arrive and whenever the session
\* ends.
THEOREM LeavesInOrder == Spec => []InOrder
<1>1. SerialInv => InOrder
  BY DEF SerialInv, IInv, Ascending, InOrder
<1>. QED
  BY <1>1, Invariance, PTL
------------------------------------------------------------------------------
(* Refinement of ReorderBuffer *)

Held == Slots \cup InHand

\* Held, packet by packet: the numbers of the slots, and of what is in hand.
LEMMA HeldNumbers ==
  ASSUME IInv
  PROVE  /\ \A h \in Slots : h \in Packet /\ h.sn >= Base /\ h.sn < Base + Len(window)
         /\ \A h \in InHand : h \in Packet /\ h.sn = Base - 1
<1>1. \A i \in DOMAIN window : i \in 1..Len(window) /\ window[i] \in Cell
  BY Numbers, LenProperties
<1>2. ASSUME NEW h \in Slots
      PROVE  h \in Packet /\ h.sn >= Base /\ h.sn < Base + Len(window)
  <2>1. PICK i \in DOMAIN window : h = window[i] /\ h # None
    BY <1>2 DEF Slots
  <2>2. h.sn = Base + i - 1 /\ h \in Packet /\ i \in 1..Len(window)
    BY <1>1, <2>1 DEF IInv, Shape, Numbered, Cell
  <2>. QED
    BY <2>2, Numbers
<1>3. ASSUME NEW h \in InHand PROVE h \in Packet /\ h.sn = Base - 1
  BY <1>3 DEF InHand, IInv, Locals, TypeInv, TypeOK
<1>. QED
  BY <1>2, <1>3

LEMMA SlotsOfAppend ==
  ASSUME NEW w \in Seq(Cell)
  PROVE  {Append(w, None)[i] : i \in DOMAIN Append(w, None)} \ {None}
           = {w[i] : i \in DOMAIN w} \ {None}
<1>1. /\ DOMAIN Append(w, None) = 1..(Len(w) + 1) /\ DOMAIN w = 1..Len(w)
      /\ \A i \in 1..Len(w) : Append(w, None)[i] = w[i]
      /\ Append(w, None)[Len(w) + 1] = None
      /\ Len(w) \in Nat
  BY AppendProperties, LenProperties DEF Cell
<1>2. \A i \in 1..(Len(w) + 1) : i \in 1..Len(w) \/ i = Len(w) + 1
  BY <1>1
<1>3. \A i \in 1..Len(w) : i \in 1..(Len(w) + 1)
  BY <1>1
<1>. QED
  BY <1>1, <1>2, <1>3

LEMMA SlotsOfTail ==
  ASSUME NEW w \in Seq(Cell), w # <<>>
  PROVE  {w[i] : i \in DOMAIN w}
           = {Tail(w)[i] : i \in DOMAIN Tail(w)} \cup {Head(w)}
<1>1. /\ DOMAIN w = 1..Len(w) /\ DOMAIN Tail(w) = 1..(Len(w) - 1)
      /\ Len(w) \in Nat \ {0}
      /\ \A i \in 1..(Len(w) - 1) : Tail(w)[i] = w[i + 1]
      /\ Head(w) = w[1]
  BY HeadTailProperties, LenProperties, EmptySeq
<1>2. ASSUME NEW i \in DOMAIN w
      PROVE  w[i] \in {Tail(w)[j] : j \in DOMAIN Tail(w)} \cup {Head(w)}
  <2>1. CASE i = 1
    BY <1>1, <2>1
  <2>2. CASE i # 1
    <3>1. i - 1 \in DOMAIN Tail(w) /\ Tail(w)[i - 1] = w[i]
      BY <1>1, <2>2
    <3>. QED
      BY <3>1
  <2>. QED
    BY <2>1, <2>2
<1>3. ASSUME NEW j \in DOMAIN Tail(w) PROVE Tail(w)[j] \in {w[i] : i \in DOMAIN w}
  <2>1. j + 1 \in DOMAIN w /\ Tail(w)[j] = w[j + 1]
    BY <1>1
  <2>. QED
    BY <2>1
<1>4. Head(w) \in {w[i] : i \in DOMAIN w}
  <2>1. 1 \in DOMAIN w
    BY <1>1
  <2>. QED
    BY <1>1, <2>1
<1>. QED
  BY <1>2, <1>3, <1>4

LEMMA PopSteps ==
  ASSUME IInv, window # <<>>, window' = Tail(window), InHand = {},
         InHand' = {Head(window)} \ {None}
  PROVE  Held' = Held
<1>1. Slots = ({Tail(window)[i] : i \in DOMAIN Tail(window)} \cup {Head(window)}) \ {None}
  BY Numbers, SlotsOfTail DEF Slots
<1>2. Slots' = {Tail(window)[i] : i \in DOMAIN Tail(window)} \ {None}
  BY DEF Slots
<1>. QED
  BY <1>1, <1>2 DEF Held

LEMMA EmitSteps ==
  ASSUME IInv, NEW v, InHand = {v} \ {None}, InHand' = {}, UNCHANGED <<window, active>>,
         buffer' = Emitted(v)
  PROVE  UNCHANGED <<Held, buffer, active>> \/ (v \in Held /\ Promise!Release(v))
<1>1. Slots' = Slots /\ Held' = Slots
  BY DEF Slots, Held
<1>2. CASE v = None
  BY <1>1, <1>2 DEF Held, Emitted
<1>3. CASE v # None
  <2>1. v \in InHand /\ Held = Slots \cup {v} /\ buffer' = Append(buffer, v)
    BY <1>3 DEF Held, Emitted
  <2>2. \A h \in Slots : v.sn < h.sn
    BY <2>1, HeldNumbers, Numbers, PacketSn
  <2>3. v \notin Slots
    BY <2>1, <2>2, HeldNumbers, PacketSn
  <2>. QED
    BY <1>1, <2>1, <2>2, <2>3 DEF Promise!Release, Held
<1>. QED
  BY <1>2, <1>3
LEMMA PlaceAccepts ==
  ASSUME IInv, IInv', UpdatePlace
  PROVE  Promise!Accept(updData)
<1> DEFINE slot == updData.sn - leftSn' + 1
           p == updData
<1>1. /\ p \in Packet /\ p.sn \in Int /\ active /\ Base = leftSn'
      /\ slot \in 1..Len(window) /\ slot \in DOMAIN window
      /\ Len(window) = WindowSize
      /\ InHand = {} /\ p.sn = Base + slot - 1 /\ Base \in Int
  <2>1. p \in Packet /\ p.sn \in Int /\ active /\ Base = leftSn' /\ Base \in Int
    BY PlaceSlot, PacketSn, Numbers
  <2>2. slot \in 1..Len(window) /\ Len(window) = WindowSize /\ slot \in DOMAIN window
    BY PlaceSlot, Numbers, LenProperties
  <2>3. InHand = {}
    BY PlaceSlot DEF InHand
  <2>. QED
    BY <2>1, <2>2, <2>3
<1>2. /\ window' = [window EXCEPT ![slot] = p]
      /\ UNCHANGED <<active, buffer, updHand, endHand>>
  BY <1>1 DEF UpdatePlace, endVars
<1>3. InHand' = {}
  BY <1>1, <1>2 DEF InHand
<1>4. \A i \in DOMAIN buffer : buffer[i].sn < p.sn
  <2>1. \A i \in DOMAIN buffer : buffer[i].sn < Floor /\ buffer[i].sn \in Int
    BY Numbers, LenProperties, PacketSn DEF IInv, Ascending
  <2>2. ~Emitting
    BY PlaceSlot DEF Emitting
  <2>3. Floor = Base
    <3>1. Floor = Base - 0
      BY <2>2 DEF Floor
    <3>2. Base \in Int
      BY Numbers
    <3>. QED
      BY <3>1, <3>2
  <2>4. p.sn >= Base
    BY <1>1
  <2>. QED
    BY <1>1, <2>1, <2>3, <2>4
<1>5. \A h \in Slots : p.sn - h.sn < WindowSize
  <2>1. \A h \in Slots : h.sn >= Base /\ h.sn \in Int
    BY HeldNumbers, PacketSn
  <2>2. p.sn - Base < WindowSize
    BY <1>1, WindowAssumption
  <2>. QED
    BY <1>1, <2>1, <2>2, WindowAssumption
<1>6. Slots' = {h \in Slots : h.sn # p.sn} \cup {p}
  <2>1. /\ DOMAIN window = 1..Len(window)
        /\ \A i \in DOMAIN window : window[i] \in Cell
        /\ \A i \in DOMAIN window : window[i] # None =>
             window[i] \in Packet /\ window[i].sn = Base + i - 1
    <3>1. /\ DOMAIN window = 1..Len(window)
          /\ \A i \in DOMAIN window : window[i] \in Cell
      BY Numbers, LenProperties
    <3>2. Numbered(window, Base)
      BY DEF IInv, Shape
    <3>. QED
      BY <3>1, <3>2 DEF Numbered, Cell
  <2>2. /\ DOMAIN window' = DOMAIN window
        /\ \A i \in DOMAIN window : window'[i] = IF i = slot THEN p ELSE window[i]
    BY <1>2
  <2>3. p # None
    BY <1>1, NoneAssumption
  <2>4. \A i \in DOMAIN window : window[i] # None => (window[i].sn # p.sn <=> i # slot)
    <3> TAKE i \in DOMAIN window
    <3> HAVE window[i] # None
    <3>1. window[i].sn = Base + i - 1 /\ i \in Int /\ slot \in Int
      BY <1>1, <2>1
    <3>. QED
      BY <1>1, <3>1
  <2>5. ASSUME NEW h \in Slots' PROVE h \in {g \in Slots : g.sn # p.sn} \cup {p}
    BY <2>2, <2>4, <2>5 DEF Slots
  <2>6. ASSUME NEW h \in Slots, h.sn # p.sn PROVE h \in Slots'
    BY <2>2, <2>4, <2>6 DEF Slots
  <2>7. p \in Slots'
    BY <1>1, <2>2, <2>3 DEF Slots
  <2>. QED
    BY <2>5, <2>6, <2>7
<1>. QED
  BY <1>1, <1>2, <1>3, <1>4, <1>5, <1>6 DEF Promise!Accept

LEMMA StepRefines ==
  ASSUME IInv, IInv', [Next]_vars
  PROVE  Promise!Next \/ UNCHANGED <<Held, buffer, active>>
<1> DEFINE Stays == UNCHANGED <<Held, buffer, active>>
           Same == UNCHANGED <<window, updHand, endHand, buffer, active>>
<1>0. Same => Stays
  BY DEF Held, Slots, InHand
<1>1. ASSUME NEW p \in Packet, UpdateDrop(p) \/ UpdateAdmit(p) PROVE Same
  BY <1>1 DEF UpdateDrop, UpdateAdmit, updVars, endVars
<1>2. CASE UpdateGrow
  <2>1. window' = Append(window, None) /\ UNCHANGED <<updHand, endHand, buffer, active>>
    BY <1>2 DEF UpdateGrow, endVars
  <2>. QED
    BY <2>1, Numbers, SlotsOfAppend DEF Held, Slots, InHand
<1>3. CASE UpdatePop
  <2>1. updPc = "pop" /\ updPc' = "emit"
    BY <1>3 DEF UpdatePop, IInv, Serial
  <2>2. /\ window # <<>> /\ window' = Tail(window) /\ updHand' = Head(window)
        /\ UNCHANGED <<endHand, buffer, active>>
    BY <1>3, <2>1 DEF UpdatePop, endVars
  <2>3. InHand = {} /\ InHand' = {Head(window)} \ {None}
    BY <2>1, <2>2 DEF IInv, Serial, Locals, InHand
  <2>. QED
    BY <2>2, <2>3, PopSteps
<1>4. CASE UpdateEmit
  <2>1. /\ updPc = "emit" /\ updHand' = None /\ buffer' = Emitted(updHand)
        /\ UNCHANGED <<window, endHand, active>>
    BY <1>4 DEF UpdateEmit, endVars
  <2>2. InHand = {updHand} \ {None} /\ InHand' = {}
    BY <2>1 DEF IInv, Serial, Locals, InHand
  <2>. QED
    BY <2>1, <2>2, EmitSteps DEF Promise!Next, Held
<1>5. CASE UpdatePlace
  BY <1>5, PlaceAccepts, PlaceSlot DEF Promise!Next
<1>6. ASSUME NEW e \in Enders, EndCall(e) PROVE Promise!Next
  <2>1. active' = FALSE /\ UNCHANGED <<window, updHand, endHand, buffer>>
    BY <1>6 DEF EndCall, updVars
  <2>. QED
    BY <2>1 DEF Promise!Next, Promise!Close, Slots, InHand
<1>7. ASSUME NEW e \in Enders, EndTest(e) PROVE Same
  BY <1>7 DEF EndTest, updVars
<1>8. ASSUME NEW e \in Enders, EndPop(e) PROVE Stays
  <2>1. endPc[e] = "pop" /\ window # <<>>
    BY <1>8, InEnd DEF EndPop
  <2>2. /\ window' = Tail(window) /\ endHand' = [endHand EXCEPT ![e] = Head(window)]
        /\ UNCHANGED <<updHand, buffer, active>>
    BY <1>8, <2>1 DEF EndPop, updVars
  <2>3. InHand = {} /\ InHand' = {Head(window)} \ {None}
    BY <2>1, <2>2, InEnd DEF InHand
  <2>. QED
    BY <2>1, <2>2, <2>3, PopSteps
<1>9. ASSUME NEW e \in Enders, EndEmit(e) PROVE Promise!Next \/ Stays
  <2>1. /\ endPc[e] = "emit" /\ endHand' = [endHand EXCEPT ![e] = None]
        /\ buffer' = Emitted(endHand[e])
        /\ UNCHANGED <<window, updHand, active>>
    BY <1>9 DEF EndEmit, updVars
  <2>2. InHand = {endHand[e]} \ {None} /\ InHand' = {}
    BY <2>1, InEnd DEF InHand
  <2>. QED
    BY <2>1, <2>2, EmitSteps DEF Promise!Next, Held
<1>10. CASE Receive
  BY <1>0, <1>10 DEF Receive, updVars, endVars
<1>11. CASE UNCHANGED vars
  BY <1>0, <1>11 DEF vars, updVars, endVars
<1>. QED
  BY <1>0, <1>1, <1>2, <1>3, <1>4, <1>5, <1>6, <1>7, <1>8, <1>9, <1>10, <1>11
  DEF Next, Updater, Ender

\* Until an end() meets another call, Window_buffer implements the reordering
\* buffer: no packet update() has stored is lost, none leaves twice, and what
\* leaves next is always the oldest packet held, in slides and in end() alike.
THEOREM ImplementsReorderBuffer == Spec => KeepsPromise
<1>1. Init => Promise!Init
  <2> SUFFICES ASSUME Init PROVE Promise!Init
    OBVIOUS
  <2>1. Slots = {} /\ InHand = {}
    BY DEF Init, Slots, InHand
  <2>. QED
    BY <2>1 DEF Init, Promise!Init
<1>2. SerialInv /\ SerialInv' /\ [Next]_vars
        => [overlapped' \/ Promise!Next]_(Promise!vars)
  <2> SUFFICES ASSUME SerialInv, SerialInv', [Next]_vars, ~overlapped'
               PROVE  Promise!Next \/ UNCHANGED Promise!vars
    OBVIOUS
  <2>1. IInv /\ IInv'
    BY OverlapStays DEF SerialInv
  <2>. QED
    BY <2>1, StepRefines DEF Held, Promise!vars
<1>. QED
  BY <1>1, <1>2, Invariance, PTL DEF Spec, KeepsPromise
------------------------------------------------------------------------------
(* Refinement of SessionWindow, however the calls overlap *)

\* Until end() is called, update() is alone with the window; from then on little
\* is known of it: what is in hand is about to be appended, and a thread that is
\* alone in end(), with no update() in progress, finds what it has tested for.
Crossing ==
  /\ updHand # None => updPc = "emit"
  /\ \A e \in Enders :
       /\ endPc[e] # "idle" => ~active
       /\ endHand[e] # None => endPc[e] = "emit"
       /\ Enders = {e} /\ endPc[e] = "pop" /\ updPc = "idle" => window # <<>>

SessionInv == TypeInv /\ (active => IInv) /\ Crossing

\* What SessionInv says of types, for the steps below.
LEMMA SessionTypes ==
  ASSUME SessionInv
  PROVE  /\ window \in Seq(Cell) /\ Len(window) \in Nat
         /\ DOMAIN window = 1..Len(window) /\ (window = <<>> <=> Len(window) = 0)
         /\ buffer \in Seq(Packet)
         /\ updPc \in UpdatePcs /\ updHand \in Cell
         /\ Updating => updData \in Packet /\ Carried = updData /\ Carried # None
         /\ ~Updating => Carried = None
         /\ endPc \in [Enders -> EndPcs] /\ endHand \in [Enders -> Cell]
         /\ active => ~Drained
<1>1. /\ window \in Seq(Cell) /\ buffer \in Seq(Packet)
      /\ updPc \in UpdatePcs /\ updHand \in Cell /\ (Updating => updData \in Packet)
      /\ endPc \in [Enders -> EndPcs] /\ endHand \in [Enders -> Cell]
  BY DEF SessionInv, TypeInv, TypeOK, Cell
<1>2. Len(window) \in Nat /\ DOMAIN window = 1..Len(window) /\ (window = <<>> <=> Len(window) = 0)
  BY <1>1, LenProperties, EmptySeq
<1>3. /\ Updating => Carried = updData /\ Carried # None
      /\ ~Updating => Carried = None
  BY <1>1, NoneAssumption DEF Updating, Carried
<1>4. ASSUME active PROVE ~Drained
  <2>1. Len(window) = WindowSize + (IF updPc = "pop" THEN 1 ELSE 0)
    BY <1>4 DEF SessionInv, IInv, Shape
  <2>. QED
    BY <2>1, WindowAssumption DEF Drained
<1>. QED
  BY <1>1, <1>2, <1>3, <1>4

LEMMA InitSession == Init => SessionInv
  BY InitInv DEF SessionInv, IInv, Crossing, Init

\* The steps before the first end() are those of calls that take turns.
LEMMA OpenPreserved ==
  ASSUME SessionInv, [Next]_vars, active' PROVE IInv'
<1>1. active
  BY DEF Next, Updater, Ender, UpdateDrop, UpdateAdmit, UpdateGrow, UpdatePop, UpdateEmit,
         UpdatePlace, EndCall, EndTest, EndPop, EndEmit, Receive, vars
<1>2. IInv /\ TypeInv'
  BY <1>1, NextTypes DEF SessionInv
<1>3. ASSUME NEW e \in Enders, EndCall(e) PROVE FALSE
  BY <1>3 DEF EndCall
<1>4. ASSUME NEW e \in Enders, Ender(e) PROVE FALSE
  BY <1>1, <1>4 DEF Ender, EndTest, EndPop, EndEmit, SessionInv, Crossing
<1>5. ASSUME NEW p \in Packet, UpdateDrop(p) PROVE IInv'
  BY <1>2, <1>5, StutterInv DEF UpdateDrop, Arrive, counters, updVars, endVars
<1>6. ASSUME NEW p \in Packet, UpdateAdmit(p) PROVE IInv'
  BY <1>2, <1>6, AdmitInv
<1>7. CASE Updater
  BY <1>2, <1>7, GrowInv, PopInv, EmitInv, PlaceInv DEF Updater
<1>8. CASE Receive
  BY <1>2, <1>8, StutterInv DEF Receive, counters, updVars, endVars
<1>9. CASE UNCHANGED vars
  BY <1>2, <1>9, StutterInv DEF vars, counters, updVars, endVars
<1>. QED
  BY <1>3, <1>4, <1>5, <1>6, <1>7, <1>8, <1>9 DEF Next

LEMMA CrossingPreserved ==
  ASSUME SessionInv, [Next]_vars PROVE Crossing'
<1> USE DEF Crossing
<1>0. Crossing /\ endPc \in [Enders -> EndPcs] /\ endHand \in [Enders -> Cell]
  BY SessionTypes DEF SessionInv
<1>1. ASSUME NEW p \in Packet, UpdateDrop(p) PROVE Crossing'
  BY <1>0, <1>1 DEF UpdateDrop, updVars, endVars
<1>2. ASSUME NEW p \in Packet, UpdateAdmit(p) PROVE Crossing'
  BY <1>0, <1>2 DEF UpdateAdmit, Arrive, endVars
<1>3. CASE UpdateGrow
  BY <1>0, <1>3 DEF UpdateGrow, endVars
<1>4. CASE UpdatePop
  BY <1>0, <1>4 DEF UpdatePop, endVars
<1>5. CASE UpdateEmit
  BY <1>0, <1>5 DEF UpdateEmit, endVars
<1>6. CASE UpdatePlace
  <2>1. updPc = "place" /\ updPc' \in {"idle", "dead"} /\ UNCHANGED <<updHand, active, endPc, endHand>>
    BY <1>6 DEF UpdatePlace, endVars
  <2>2. ASSUME updPc' = "idle" PROVE window' # <<>>
    <3>1. PICK slot \in DOMAIN window : window' = [window EXCEPT ![slot] = updData]
      BY <1>6, <2>2 DEF UpdatePlace
    <3>2. slot \in DOMAIN window'
      BY <3>1
    <3>. QED
      BY <3>2
  <2>. QED
    BY <1>0, <2>1, <2>2
<1>7. ASSUME NEW e \in Enders, EndCall(e) PROVE Crossing'
  BY <1>0, <1>7 DEF EndCall, updVars
<1>8. ASSUME NEW e \in Enders, EndTest(e) PROVE Crossing'
  BY <1>0, <1>8, SessionTypes DEF EndTest, updVars
<1>9. ASSUME NEW e \in Enders, EndPop(e) PROVE Crossing'
  BY <1>0, <1>9 DEF EndPop, updVars
<1>10. ASSUME NEW e \in Enders, EndEmit(e) PROVE Crossing'
  BY <1>0, <1>10 DEF EndEmit, updVars
<1>11. CASE Receive
  BY <1>0, <1>11 DEF Receive, updVars, endVars
<1>12. CASE UNCHANGED vars
  BY <1>0, <1>12 DEF vars, updVars, endVars
<1>. QED
  BY <1>1, <1>2, <1>3, <1>4, <1>5, <1>6, <1>7, <1>8, <1>9, <1>10, <1>11, <1>12
  DEF Next, Updater, Ender

LEMMA SessionPreserved == ASSUME SessionInv, [Next]_vars PROVE SessionInv'
  BY OpenPreserved, CrossingPreserved, NextTypes DEF SessionInv

\* What leaves all that the callers know as it is.
Unseen == UNCHANGED <<Status, Kept, Sent, Carried, Stopped, Ending>>

LEMMA StaysUnseen ==
  ASSUME UNCHANGED <<window, active, buffer, updPc, updData, updHand, endPc, endHand>>
  PROVE  Unseen
  BY DEF Unseen, Status, Drained, Kept, Slots, InHand, Sent, Carried, Stopped, Ending

\* A hand is filled, or emptied.
LEMMA HandFilled ==
  ASSUME NEW e \in Enders, NEW v, endHand \in [Enders -> Cell], endHand[e] = None,
         endHand' = [endHand EXCEPT ![e] = v], updHand' = updHand
  PROVE  InHand' = InHand \cup ({v} \ {None})
<1>1. \A f \in Enders : endHand'[f] = IF f = e THEN v ELSE endHand[f]
  OBVIOUS
<1>2. \A h : h \in InHand' <=> h # None /\ (h = updHand \/ \E f \in Enders : h = endHand'[f])
  BY DEF InHand
<1>3. \A h : h \in InHand <=> h # None /\ (h = updHand \/ \E f \in Enders : h = endHand[f])
  BY DEF InHand
<1>4. \A h : h \in InHand' <=> h \in InHand \cup ({v} \ {None})
  BY <1>1, <1>2, <1>3
<1>. QED
  BY <1>4

LEMMA HandEmptied ==
  ASSUME NEW e \in Enders, endHand \in [Enders -> Cell],
         endHand' = [endHand EXCEPT ![e] = None], updHand' = updHand
  PROVE  InHand = InHand' \cup ({endHand[e]} \ {None})
<1>1. \A f \in Enders : endHand'[f] = IF f = e THEN None ELSE endHand[f]
  OBVIOUS
<1>2. \A h : h \in InHand' <=> h # None /\ (h = updHand \/ \E f \in Enders : h = endHand'[f])
  BY DEF InHand
<1>3. \A h : h \in InHand <=> h # None /\ (h = updHand \/ \E f \in Enders : h = endHand[f])
  BY DEF InHand
<1>4. \A h : h \in InHand <=> h \in InHand' \cup ({endHand[e]} \ {None})
  BY <1>1, <1>2, <1>3
<1>. QED
  BY <1>4

\* What is taken from a hand into the buffer is sent.
LEMMA SentOfEmitted ==
  ASSUME buffer \in Seq(Packet), NEW v \in Cell, buffer' = Emitted(v)
  PROVE  Sent' = Sent \cup ({v} \ {None})
<1>1. CASE v = None
  BY <1>1 DEF Emitted, Sent
<1>2. CASE v # None
  <2>1. v \in Packet /\ buffer' = Append(buffer, v)
    BY <1>2 DEF Cell, Emitted
  <2>2. /\ DOMAIN buffer = 1..Len(buffer) /\ DOMAIN buffer' = 1..(Len(buffer) + 1)
        /\ Len(buffer) \in Nat
        /\ \A i \in 1..Len(buffer) : buffer'[i] = buffer[i]
        /\ buffer'[Len(buffer) + 1] = v
    BY <2>1, AppendProperties, LenProperties
  <2>3. \A h \in Sent : h \in Sent'
    BY <2>2 DEF Sent
  <2>4. v \in Sent'
    BY <2>2 DEF Sent
  <2>5. \A h \in Sent' : h \in Sent \/ h = v
    BY <2>2 DEF Sent
  <2>. QED
    BY <1>2, <2>3, <2>4, <2>5
<1>. QED
  BY <1>1, <1>2

\* What is taken from the window into a hand is kept.
LEMMA PopKeeps ==
  ASSUME SessionInv, window # <<>>, window' = Tail(window), UNCHANGED buffer,
         InHand' = InHand \cup ({Head(window)} \ {None})
  PROVE  Kept' = Kept /\ Sent' = Sent /\ Len(window') = Len(window) - 1
<1>1. Slots = ({Tail(window)[i] : i \in DOMAIN Tail(window)} \cup {Head(window)}) \ {None}
  BY SessionTypes, SlotsOfTail DEF Slots
<1>2. Slots' = {Tail(window)[i] : i \in DOMAIN Tail(window)} \ {None}
  BY DEF Slots
<1>3. Slots \cup InHand = Slots' \cup InHand'
  BY <1>1, <1>2
<1>4. Len(Tail(window)) = Len(window) - 1
  BY SessionTypes, HeadTailProperties
<1>. QED
  BY <1>3, <1>4 DEF Kept, Sent

\* What is taken from a hand into the buffer is handed over.
LEMMA EmitHands ==
  ASSUME SessionInv, NEW v \in Cell, buffer' = Emitted(v),
         InHand = InHand' \cup ({v} \ {None}),
         UNCHANGED <<window, Status, Carried, Stopped, Ending>>
  PROVE  Unseen \/ (v \in Packet /\ Session!HandOver(v))
<1>1. Sent' = Sent \cup ({v} \ {None}) /\ Slots' = Slots
  BY SessionTypes, SentOfEmitted DEF Slots
<1>2. Kept' = Kept
  BY <1>1 DEF Kept
<1>3. CASE v = None
  BY <1>1, <1>2, <1>3 DEF Unseen
<1>4. CASE v # None
  <2>1. v \in Packet /\ v \in Kept /\ Sent' = Sent \cup {v}
    BY <1>1, <1>4 DEF Kept, Cell
  <2>. QED
    BY <1>2, <2>1 DEF Session!HandOver
<1>. QED
  BY <1>3, <1>4

\* The steps of update() as SessionWindow sees them.
LEMMA AdmitTakes ==
  ASSUME SessionInv, NEW p \in Packet, UpdateAdmit(p) PROVE Session!Take(p)
<1>1. /\ updPc = "idle" /\ active /\ updPc' \in {"grow", "place"} /\ updData' = p
      /\ UNCHANGED <<window, active, buffer, updHand, endPc, endHand>>
  BY DEF UpdateAdmit, Arrive, endVars
<1>2. Status = "open" /\ Status' = "open" /\ ~Stopped /\ Stopped' = Stopped
  BY <1>1 DEF Status, Stopped
<1>3. Carried = None /\ Carried' = p
  BY <1>1 DEF Carried
<1>4. UNCHANGED <<Kept, Sent, Ending>>
  BY <1>1 DEF Kept, Slots, InHand, Sent, Ending
<1>. QED
  BY <1>2, <1>3, <1>4 DEF Session!Take

LEMMA GrowUnseen == ASSUME SessionInv, UpdateGrow PROVE Unseen
<1>1. /\ updPc = "grow" /\ updPc' = "pop" /\ window' = Append(window, None)
      /\ UNCHANGED <<active, buffer, updData, updHand, endPc, endHand>>
  BY DEF UpdateGrow, endVars
<1>2. Len(window') = Len(window) + 1
  BY <1>1, SessionTypes, AppendProperties DEF Cell
<1>3. Drained' <=> Drained
  BY <1>1, <1>2, SessionTypes DEF Drained
<1>4. Slots' = Slots
  BY <1>1, SessionTypes, SlotsOfAppend DEF Slots
<1>. QED
  BY <1>1, <1>3, <1>4 DEF Unseen, Status, Kept, InHand, Sent, Carried, Stopped, Ending

LEMMA PopSession == ASSUME SessionInv, UpdatePop PROVE Unseen \/ Session!StoreRaises
<1>1. /\ updPc = "pop" /\ UNCHANGED <<active, buffer, updData, endPc, endHand>>
  BY DEF UpdatePop, endVars
<1>2. CASE window = <<>>
  <2>1. updPc' = "dead" /\ UNCHANGED <<window, updHand>>
    BY <1>2 DEF UpdatePop
  <2>2. Len(window) = 0 /\ Len(window') = 0
    BY <1>2, <2>1, SessionTypes
  <2>3. Drained /\ Drained' /\ ~active
    BY <1>1, <2>1, <2>2, SessionTypes DEF Drained
  <2>4. Status = "empty" /\ Status' = "empty"
    BY <1>1, <2>3 DEF Status
  <2>5. Carried # None /\ Carried' = None /\ Stopped'
    BY <1>1, <2>1, SessionTypes DEF Updating, Carried, Stopped
  <2>6. UNCHANGED <<Kept, Sent, Ending>>
    BY <1>1, <2>1 DEF Kept, Slots, InHand, Sent, Ending
  <2>. QED
    BY <2>4, <2>5, <2>6 DEF Session!StoreRaises
<1>3. CASE window # <<>>
  <2>1. updPc' = "emit" /\ updHand' = Head(window) /\ window' = Tail(window)
    BY <1>3 DEF UpdatePop
  <2>2. updHand = None
    BY <1>1 DEF SessionInv, Crossing
  <2>3. InHand' = InHand \cup ({Head(window)} \ {None})
    BY <1>1, <2>1, <2>2 DEF InHand
  <2>4. Kept' = Kept /\ Sent' = Sent /\ Len(window') = Len(window) - 1
    BY <1>1, <1>3, <2>1, <2>3, PopKeeps
  <2>5. Drained' <=> Drained
    BY <1>1, <2>1, <2>4, SessionTypes DEF Drained
  <2>. QED
    BY <1>1, <2>1, <2>4, <2>5 DEF Unseen, Status, Carried, Stopped, Ending
<1>. QED
  BY <1>2, <1>3

LEMMA EmitSession ==
  ASSUME SessionInv, UpdateEmit
  PROVE  Unseen \/ \E p \in Packet : Session!HandOver(p)
<1>1. /\ updPc = "emit" /\ updPc' \in {"grow", "place"} /\ updHand' = None
      /\ buffer' = Emitted(updHand)
      /\ UNCHANGED <<window, active, updData, endPc, endHand>>
  BY DEF UpdateEmit, endVars
<1>2. Drained' <=> Drained
  BY <1>1 DEF Drained
<1>3. UNCHANGED <<Status, Carried, Stopped, Ending>>
  BY <1>1, <1>2 DEF Status, Carried, Stopped, Ending
<1>4. InHand = InHand' \cup ({updHand} \ {None})
  BY <1>1 DEF InHand
<1>. QED
  BY <1>1, <1>3, <1>4, EmitHands, SessionTypes

\* A store displaces what was in the slot, and while nobody has called end()
\* that is a packet of the same number.
LEMMA PlaceStores ==
  ASSUME SessionInv, UpdatePlace, updData.sn - leftSn' + 1 \in DOMAIN window
  PROVE  Session!Store
<1> DEFINE slot == updData.sn - leftSn' + 1
           old == window[slot]
<1>1. /\ updPc = "place" /\ updPc' = "idle" /\ window' = [window EXCEPT ![slot] = updData]
      /\ UNCHANGED <<active, buffer, updHand, endPc, endHand>>
  BY DEF UpdatePlace, endVars
<1>2. updData \in Packet /\ updData # None /\ Carried = updData /\ Carried' = None
  BY <1>1, SessionTypes DEF Updating, Carried
<1> HIDE DEF slot
<1>3. /\ DOMAIN window' = DOMAIN window /\ Len(window') = Len(window)
      /\ \A i \in DOMAIN window : window'[i] = IF i = slot THEN updData ELSE window[i]
      /\ Len(window) > 0
  <2>1. slot \in 1..Len(window) /\ updData \in Cell
    BY <1>2, SessionTypes DEF slot, Cell
  <2>. QED
    BY <1>1, <2>1, SessionTypes, ExceptSeq
<1>4. ~Drained /\ ~Drained'
  BY <1>1, <1>3, SessionTypes DEF Drained
<1>5. Status # "empty" /\ Status' = Status /\ (Status = "open" <=> active)
  BY <1>1, <1>4 DEF Status
<1>6. UNCHANGED <<InHand, Sent, Stopped, Ending>>
  BY <1>1 DEF InHand, Sent, Stopped, Ending
<1>7. updData \in Slots'
  BY <1>2, <1>3 DEF Slots, slot
<1>8. \A h \in Slots' : h = updData \/ h \in Slots
  BY <1>3 DEF Slots
<1>9. \A h \in Slots : h = old \/ h \in Slots'
  BY <1>3 DEF Slots
<1>10. CASE old \in Kept' \/ old = None
  <2>1. Kept' = Kept \cup {updData}
    BY <1>6, <1>7, <1>8, <1>9, <1>10 DEF Kept, Slots
  <2>. QED
    BY <1>2, <1>5, <1>6, <2>1 DEF Session!Store
<1>11. CASE old \notin Kept' /\ old # None
  <2>1. old \in Kept /\ old \notin Sent
    BY <1>6, <1>11 DEF Kept, Slots, slot
  <2>2. Kept' = (Kept \ {old}) \cup {updData}
    BY <1>6, <1>7, <1>8, <1>9, <1>11 DEF Kept
  <2>3. active => old.sn = updData.sn
    <3> SUFFICES ASSUME active PROVE old.sn = updData.sn
      OBVIOUS
    <3>1. IInv
      BY DEF SessionInv
    <3>2. Base = leftSn' /\ leftSn' \in Int /\ updData.sn \in Int /\ slot \in 1..Len(window)
      BY <3>1, PlaceSlot, Numbers, PacketSn DEF slot
    <3>3. old.sn = Base + slot - 1
      BY <1>11, <3>1, <3>2 DEF IInv, Shape, Numbered
    <3>. QED
      BY <3>2, <3>3 DEF slot
  <2>. QED
    BY <1>2, <1>5, <1>6, <2>1, <2>2, <2>3 DEF Session!Store
<1>. QED
  BY <1>10, <1>11

LEMMA PlaceRaises ==
  ASSUME SessionInv, UpdatePlace, updData.sn - leftSn' + 1 \notin DOMAIN window
  PROVE  Session!StoreRaises
<1>1. /\ updPc = "place" /\ updPc' = "dead"
      /\ UNCHANGED <<window, active, buffer, updHand, endPc, endHand>>
  BY DEF UpdatePlace, endVars
<1>2. ~active
  BY PlaceSlot, SessionTypes DEF SessionInv
<1>3. Status # "open" /\ Status' = Status
  BY <1>1, <1>2 DEF Status, Drained
<1>4. Carried # None /\ Carried' = None /\ Stopped'
  BY <1>1, SessionTypes DEF Updating, Carried, Stopped
<1>5. UNCHANGED <<Kept, Sent, Ending>>
  BY <1>1 DEF Kept, Slots, InHand, Sent, Ending
<1>. QED
  BY <1>3, <1>4, <1>5 DEF Session!StoreRaises

\* The steps of end() as SessionWindow sees them.
LEMMA EndCallSession ==
  ASSUME SessionInv, NEW e \in Enders, EndCall(e) PROVE Session!EndCall(e)
<1>1. /\ endPc[e] = "idle" /\ endPc' = [endPc EXCEPT ![e] = "test"] /\ ~active'
      /\ UNCHANGED <<window, buffer, updPc, updData, updHand, endHand>>
  BY DEF EndCall, updVars
<1>2. Ending[e] = "idle" /\ Ending' = [Ending EXCEPT ![e] = "drain"]
  BY <1>1, SessionTypes DEF Ending
<1>3. Status' = IF Status = "open" THEN "closing" ELSE Status
  <2>1. Drained' <=> Drained
    BY <1>1 DEF Drained
  <2>. QED
    BY <1>1, <2>1, SessionTypes DEF Status
<1>4. UNCHANGED <<Kept, Sent, Carried, Stopped>>
  BY <1>1 DEF Kept, Slots, InHand, Sent, Carried, Stopped
<1>. QED
  BY <1>2, <1>3, <1>4 DEF Session!EndCall

LEMMA EndTestSession ==
  ASSUME SessionInv, NEW e \in Enders, EndTest(e) PROVE Unseen \/ Session!EndReturn(e)
<1>1. /\ endPc[e] = "test"
      /\ endPc' = [endPc EXCEPT ![e] = IF Len(window) > 0 THEN "pop" ELSE "idle"]
      /\ UNCHANGED <<window, active, buffer, updPc, updData, updHand, endHand>>
  BY DEF EndTest, updVars
<1>2. UNCHANGED <<Status, Kept, Sent, Carried, Stopped>>
  BY <1>1 DEF Status, Drained, Kept, Slots, InHand, Sent, Carried, Stopped
<1>3. CASE Len(window) > 0
  <2>1. Ending' = Ending
    BY <1>1, <1>3, SessionTypes DEF Ending
  <2>. QED
    BY <1>2, <2>1 DEF Unseen
<1>4. CASE ~(Len(window) > 0)
  <2>1. Ending[e] = "drain" /\ Ending' = [Ending EXCEPT ![e] = "idle"]
    BY <1>1, <1>4, SessionTypes DEF Ending
  <2>2. ~active /\ Len(window) = 0
    BY <1>1, <1>4, SessionTypes DEF SessionInv, Crossing
  <2>3. Status = "empty"
    BY <2>2 DEF Status, Drained
  <2>4. ASSUME Session!Alone(e) PROVE Sent = Kept
    <3>1. Carried = None /\ \A f \in Enders \ {e} : Ending[f] # "drain"
      BY <2>4 DEF Session!Alone
    <3>2. updHand = None
      BY <3>1, SessionTypes DEF Updating, SessionInv, Crossing
    <3>3. \A f \in Enders : endHand[f] = None
      <4>1. \A f \in Enders \ {e} : endPc[f] # "emit"
        BY <3>1 DEF Ending
      <4>. QED
        BY <1>1, <4>1 DEF SessionInv, Crossing
    <3>4. InHand = {}
      BY <3>2, <3>3 DEF InHand
    <3>5. Slots = {}
      BY <2>2, SessionTypes DEF Slots
    <3>. QED
      BY <3>4, <3>5 DEF Kept
  <2>. QED
    BY <1>2, <2>1, <2>3, <2>4 DEF Session!EndReturn
<1>. QED
  BY <1>3, <1>4

LEMMA EndPopSession ==
  ASSUME SessionInv, NEW e \in Enders, EndPop(e)
  PROVE  Unseen \/ Session!Emptied \/ Session!EndRaise(e)
<1>1. endPc[e] = "pop" /\ UNCHANGED <<active, buffer, updPc, updData, updHand>>
  BY DEF EndPop, updVars
<1>2. ~active /\ endHand[e] = None /\ Ending[e] = "drain"
  BY <1>1 DEF SessionInv, Crossing, Ending
<1>3. CASE window = <<>>
  <2>1. endPc' = [endPc EXCEPT ![e] = "dead"] /\ UNCHANGED <<window, endHand>>
    BY <1>3 DEF EndPop
  <2>2. Len(window) = 0
    BY <1>3, SessionTypes
  <2>3. Status = "empty"
    BY <1>2, <2>2 DEF Status, Drained
  <2>4. Carried # None \/ Stopped \/ Enders # {e}
    <3> SUFFICES ASSUME Carried = None, Enders = {e} PROVE Stopped
      OBVIOUS
    <3>1. updPc # "idle"
      BY <1>1, <1>3 DEF SessionInv, Crossing
    <3>. QED
      BY <3>1, SessionTypes DEF Updating, UpdatePcs, Stopped
  <2>5. Ending' = [Ending EXCEPT ![e] = "dead"]
    BY <2>1, SessionTypes DEF Ending
  <2>6. UNCHANGED <<Status, Kept, Sent, Carried, Stopped>>
    BY <1>1, <2>1 DEF Status, Drained, Kept, Slots, InHand, Sent, Carried, Stopped
  <2>. QED
    BY <1>2, <2>3, <2>4, <2>5, <2>6 DEF Session!EndRaise
<1>4. CASE window # <<>>
  <2>1. /\ endPc' = [endPc EXCEPT ![e] = "emit"] /\ window' = Tail(window)
        /\ endHand' = [endHand EXCEPT ![e] = Head(window)]
    BY <1>4 DEF EndPop
  <2>2. InHand' = InHand \cup ({Head(window)} \ {None})
    BY <1>1, <1>2, <2>1, HandFilled, SessionTypes
  <2>3. Kept' = Kept /\ Sent' = Sent /\ Len(window') = Len(window) - 1
    BY <1>1, <1>4, <2>1, <2>2, PopKeeps
  <2>4. Ending' = Ending
    BY <1>1, <2>1, SessionTypes DEF Ending
  <2>5. UNCHANGED <<Carried, Stopped>>
    BY <1>1 DEF Carried, Stopped
  <2>6. Drained => Drained'
    BY <1>1, <2>3, SessionTypes DEF Drained
  <2>7. CASE Status' = Status
    BY <2>3, <2>4, <2>5, <2>7 DEF Unseen
  <2>8. CASE Status' # Status
    <3>1. Status = "closing" /\ Status' = "empty"
      BY <1>1, <1>2, <2>6, <2>8 DEF Status
    <3>. QED
      BY <1>2, <2>3, <2>4, <2>5, <3>1 DEF Session!Emptied
  <2>. QED
    BY <2>7, <2>8
<1>. QED
  BY <1>3, <1>4

LEMMA EndEmitSession ==
  ASSUME SessionInv, NEW e \in Enders, EndEmit(e)
  PROVE  Unseen \/ \E p \in Packet : Session!HandOver(p)
<1>1. /\ endPc[e] = "emit" /\ endPc' = [endPc EXCEPT ![e] = "test"]
      /\ buffer' = Emitted(endHand[e]) /\ endHand' = [endHand EXCEPT ![e] = None]
      /\ UNCHANGED <<window, active, updPc, updData, updHand>>
  BY DEF EndEmit, updVars
<1>2. Ending' = Ending
  BY <1>1, SessionTypes DEF Ending
<1>3. UNCHANGED <<Status, Carried, Stopped>>
  BY <1>1 DEF Status, Drained, Carried, Stopped
<1>4. endHand[e] \in Cell /\ InHand = InHand' \cup ({endHand[e]} \ {None})
  BY <1>1, HandEmptied, SessionTypes
<1>. QED
  BY <1>1, <1>2, <1>3, <1>4, EmitHands

LEMMA StepKeepsSession ==
  ASSUME SessionInv, [Next]_vars
  PROVE  Session!Next \/ Unseen
<1>1. ASSUME NEW p \in Packet, UpdateDrop(p) PROVE Unseen
  BY <1>1, StaysUnseen DEF UpdateDrop, updVars, endVars
<1>2. ASSUME NEW p \in Packet, UpdateAdmit(p) PROVE Session!Next
  BY <1>2, AdmitTakes DEF Session!Next
<1>3. CASE UpdateGrow
  BY <1>3, GrowUnseen
<1>4. CASE UpdatePop
  BY <1>4, PopSession DEF Session!Next
<1>5. CASE UpdateEmit
  BY <1>5, EmitSession DEF Session!Next
<1>6. CASE UpdatePlace
  BY <1>6, PlaceStores, PlaceRaises DEF Session!Next
<1>7. ASSUME NEW e \in Enders, EndCall(e) PROVE Session!Next
  BY <1>7, EndCallSession DEF Session!Next
<1>8. ASSUME NEW e \in Enders, EndTest(e) PROVE Session!Next \/ Unseen
  BY <1>8, EndTestSession DEF Session!Next
<1>9. ASSUME NEW e \in Enders, EndPop(e) PROVE Session!Next \/ Unseen
  BY <1>9, EndPopSession DEF Session!Next
<1>10. ASSUME NEW e \in Enders, EndEmit(e) PROVE Session!Next \/ Unseen
  BY <1>10, EndEmitSession DEF Session!Next
<1>11. CASE Receive
  BY <1>11, StaysUnseen DEF Receive, updVars, endVars
<1>12. CASE UNCHANGED vars
  BY <1>12, StaysUnseen DEF vars, updVars, endVars
<1>. QED
  BY <1>1, <1>2, <1>3, <1>4, <1>5, <1>6, <1>7, <1>8, <1>9, <1>10, <1>11, <1>12
  DEF Next, Updater, Ender

\* The inductive invariant of calls that may overlap.
THEOREM SessionInvariance == Spec => []SessionInv
<1>1. SessionInv /\ [Next]_vars => SessionInv'
  BY SessionPreserved
<1>. QED
  BY <1>1, InitSession, PTL DEF Spec

\* However update(), end() and receive() interleave, a Window_buffer is what
\* SessionWindow says, and what StreamReceiver takes it for.
THEOREM ImplementsSessionWindow == Spec => KeepsSession
<1>1. Init => Session!Init
  <2> SUFFICES ASSUME Init PROVE Session!Init
    OBVIOUS
  <2>1. Slots = {} /\ InHand = {} /\ Sent = {}
    BY DEF Init, Slots, InHand, Sent
  <2>. QED
    BY <2>1 DEF Init, Session!Init, Status, Kept, Carried, Stopped, Ending
<1>2. SessionInv /\ [Next]_vars => [Session!Next]_(Session!vars)
  BY StepKeepsSession DEF Unseen, Session!vars
<1>. QED
  BY <1>1, <1>2, SessionInvariance, PTL DEF Spec, KeepsSession, Session!Spec
===============================================================================
