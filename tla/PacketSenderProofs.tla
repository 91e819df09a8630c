-------------------------- MODULE PacketSenderProofs --------------------------
(***************************************************************************)
(* Theorems about PacketSender: for every set of threads and every width   *)
(* of the fields.                                                          *)
(***************************************************************************)
EXTENDS PacketSender, TLAPS

\* Inductive as it stands.
SenderInv == SenderTypeOK /\ FieldsFit

\* Where the only thread inside send() is, relative to the packet it has built.
OnItsWay(t) ==
  /\ sending[t].pc = "load" => sn = last
  /\ sending[t].pc = "store" => sending[t].val = last
  /\ sending[t].pc = "loadWrap" => sn = last + 1
  /\ sending[t].pc = "storeWrap" => sending[t].val = last + 1

\* As long as calls have not overlapped there is at most one such thread.
Uncrowded ==
  ~crowded =>
    /\ (\A t \in Threads : Idle(t)) => sn = (last + 1) % Space
    /\ \A t \in Threads : ~Idle(t) => OnItsWay(t) /\ \A u \in Threads : u # t => Idle(u)
------------------------------------------------------------------------------
\* What % leaves fits.
LEMMA Remainder ==
  ASSUME NEW n \in Nat
  PROVE n % Space \in Nat /\ n % Space < Space
  BY SpaceAssumption

\* The number after the largest one is 0.
LEMMA Whole == Space % Space = 0
  BY SpaceAssumption

\* The initial state satisfies the invariants.
LEMMA SenderStarts == SenderInit => SenderInv /\ Uncrowded
<1> SUFFICES ASSUME SenderInit PROVE SenderInv /\ Uncrowded
  OBVIOUS
<1>1. SenderTypeOK
  <2>1. Space - 1 \in Nat
    BY SpaceAssumption
  <2>2. sending \in [Threads -> [pc : SendPcs, val : Nat]]
    BY DEF SenderInit, SendPcs
  <2>3. clockAlive \in BOOLEAN /\ crowded \in BOOLEAN
    BY Zenon DEF SenderInit
  <2>4. {sn, timestamp, last} \subseteq Nat /\ clock \in {"sleep", "wrap", "ended"}
    BY <2>1 DEF SenderInit
  <2> QED
    BY <2>2, <2>3, <2>4 DEF SenderTypeOK
<1>2. FieldsFit
  BY SpaceAssumption DEF SenderInit, FieldsFit, Fits
<1>3. Uncrowded
  BY Whole, SpaceAssumption DEF SenderInit, Uncrowded, Idle
<1> QED
  BY <1>1, <1>2, <1>3 DEF SenderInv

\* Every step keeps the types.
LEMMA SenderTypesPreserved == SenderTypeOK /\ [SenderNext]_senderVars => SenderTypeOK'
<1> SUFFICES ASSUME SenderTypeOK, [SenderNext]_senderVars
             PROVE SenderTypeOK'
  OBVIOUS
<1> USE SpaceAssumption DEF SenderTypeOK, SendPcs
<1>1. CASE UNCHANGED senderVars
  BY <1>1 DEF senderVars, clockVars
<1>2. ASSUME NEW t \in Threads, SendPack(t) PROVE SenderTypeOK'
  BY <1>2 DEF SendPack, clockVars
<1>3. ASSUME NEW t \in Threads, SendRest(t) PROVE SenderTypeOK'
  <2>1. CASE SendLoad(t)
    BY <2>1 DEF SendLoad, Load, clockVars
  <2>2. CASE SendStore(t)
    BY <2>2 DEF SendStore, Store, clockVars
  <2>3. CASE SendLoadWrap(t)
    BY <2>3 DEF SendLoadWrap, Load, clockVars
  <2>4. CASE SendStoreWrap(t)
    <3>1. sending[t].val % Space \in Nat
      BY Remainder
    <3> QED
      BY <2>4, <3>1 DEF SendStoreWrap, Store, clockVars
  <2> QED
    BY <1>3, <2>1, <2>2, <2>3, <2>4 DEF SendRest
<1>4. CASE Clock
  <2>1. timestamp % Space \in Nat
    BY Remainder
  <2> QED
    BY <1>4, <2>1 DEF Clock, ClockTick, ClockWrap
<1>5. CASE ClockEnd
  BY <1>5 DEF ClockEnd
<1> QED
  BY <1>1, <1>2, <1>3, <1>4, <1>5 DEF SenderNext, SendRaises

\* Only the thread that has advanced the number, or the clock, sees it not fit.
LEMMA FieldsPreserved == SenderInv /\ [SenderNext]_senderVars => FieldsFit'
<1> SUFFICES ASSUME SenderTypeOK, FieldsFit, [SenderNext]_senderVars
             PROVE FieldsFit'
  BY DEF SenderInv
<1> USE DEF FieldsFit, Fits
<1>1. CASE UNCHANGED senderVars
  BY <1>1 DEF senderVars, clockVars
<1>2. ASSUME NEW t \in Threads, SendPack(t) PROVE FieldsFit'
  BY <1>2 DEF SendPack, clockVars, Idle, SenderTypeOK
<1>3. ASSUME NEW t \in Threads, SendRest(t) PROVE FieldsFit'
  <2>1. CASE SendLoad(t)
    BY <2>1 DEF SendLoad, Load, clockVars, SenderTypeOK
  <2>2. CASE SendStore(t)
    BY <2>2 DEF SendStore, Store, clockVars, SenderTypeOK
  <2>3. CASE SendLoadWrap(t)
    BY <2>3 DEF SendLoadWrap, Load, clockVars, SenderTypeOK
  <2>4. CASE SendStoreWrap(t)
    <3>1. sending[t].val % Space < Space
      BY Remainder DEF SenderTypeOK
    <3> QED
      BY <2>4, <3>1 DEF SendStoreWrap, Store, clockVars
  <2> QED
    BY <1>3, <2>1, <2>2, <2>3, <2>4 DEF SendRest
<1>4. CASE Clock
  <2>1. timestamp % Space < Space
    BY Remainder DEF SenderTypeOK
  <2> QED
    BY <1>4, <2>1 DEF Clock, ClockTick, ClockWrap
<1>5. CASE ClockEnd
  BY <1>5 DEF ClockEnd
<1> QED
  BY <1>1, <1>2, <1>3, <1>4, <1>5 DEF SenderNext, SendRaises

\* A call that meets no other goes through its statements one by one.
LEMMA UncrowdedPreserved ==
  SenderTypeOK /\ Uncrowded /\ [SenderNext]_senderVars => Uncrowded'
<1> SUFFICES ASSUME SenderTypeOK, Uncrowded, [SenderNext]_senderVars, ~crowded'
             PROVE Uncrowded'
  BY DEF Uncrowded
<1> USE DEF Uncrowded, OnItsWay, Idle
<1>1. CASE UNCHANGED senderVars
  BY <1>1 DEF senderVars, clockVars
<1>2. ASSUME NEW t \in Threads, SendPack(t) PROVE Uncrowded'
  <2>1. \A u \in Threads : Idle(u)
    BY <1>2 DEF SendPack
  <2> QED
    BY <1>2, <2>1 DEF SendPack, clockVars, SenderTypeOK
<1>3. ASSUME NEW t \in Threads, SendRest(t) PROVE Uncrowded'
  <2>0. ~crowded /\ ~Idle(t)
    BY <1>3 DEF SendRest, SendLoad, SendStore, SendLoadWrap, SendStoreWrap, Load, Store
  <2>1. CASE SendLoad(t)
    BY <2>0, <2>1 DEF SendLoad, Load, clockVars, SenderTypeOK
  <2>2. CASE SendStore(t)
    BY <2>0, <2>2 DEF SendStore, Store, clockVars, SenderTypeOK
  <2>3. CASE SendLoadWrap(t)
    BY <2>0, <2>3 DEF SendLoadWrap, Load, clockVars, SenderTypeOK
  <2>4. CASE SendStoreWrap(t)
    BY <2>0, <2>4 DEF SendStoreWrap, Store, clockVars, SenderTypeOK
  <2> QED
    BY <1>3, <2>1, <2>2, <2>3, <2>4 DEF SendRest
<1>4. CASE Clock \/ ClockEnd
  BY <1>4 DEF Clock, ClockTick, ClockWrap, ClockEnd
<1> QED
  BY <1>1, <1>2, <1>3, <1>4 DEF SenderNext, SendRaises
------------------------------------------------------------------------------
\* packet_sender's variables keep their types, whichever threads send.
THEOREM TypeCorrect == SenderSpec => []SenderTypeOK
<1>1. SenderInit => SenderTypeOK
  BY SenderStarts DEF SenderInv
<1> QED
  BY <1>1, SenderTypesPreserved, PTL DEF SenderSpec

\* A number or timestamp too large for its field is seen only while another
\* thread is about to reduce it.
THEOREM OverflowPasses == SenderSpec => []FieldsFit
<1>1. SenderInv /\ [SenderNext]_senderVars => SenderInv'
  BY SenderTypesPreserved, FieldsPreserved DEF SenderInv
<1>2. SenderInv => FieldsFit
  BY DEF SenderInv
<1> QED
  BY SenderStarts, <1>1, <1>2, PTL DEF SenderSpec

\* Calls of send() that do not overlap number their packets consecutively.
THEOREM NumberedConsecutively == SenderSpec => []NumbersConsecutive
<1>1. Uncrowded => NumbersConsecutive
  BY DEF Uncrowded, NumbersConsecutive
<1> QED
  BY SenderStarts, SenderTypesPreserved, UncrowdedPreserved, TypeCorrect, <1>1, PTL
  DEF SenderSpec
==============================================================================
