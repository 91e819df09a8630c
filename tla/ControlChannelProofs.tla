------------------------- MODULE ControlChannelProofs -------------------------
(***************************************************************************)
(* What ControlChannel.tla guarantees for any number of retransmissions,   *)
(* any size of the number space, any budget of losses and duplicates and   *)
(* either device class: its types, and that a reply sent from the receive  *)
(* thread is never confirmed; and when only one side sends, and uses no    *)
(* number twice (OneSided), that a confirmed message or an older failed    *)
(* one has been received, and that the two objects implement the channel   *)
(* of CommandChannel.tla.                                                  *)
(***************************************************************************)
EXTENDS ControlChannel, FiniteSetTheorems, TLAPS

\* A thread inside send() carries a message of its own, and has a transmission
\* left before each transmission.
CallsCarry ==
  \A t \in Threads : call[t].pc # "idle" =>
    /\ call[t].msg \in Message /\ call[t].msg.by = t[2]
    /\ call[t].pc \notin {"wait", "clear"} => call[t].tries < MaxRetries

\* What is not an ACK carries a message, on its way and when it is handled.
NetCarries == \A e \in Endpoints : \A d \in BagToSet(net[e]) : ~IsAck(d) => d.msg \in Message
RxCarries == \A e \in Endpoints : rx[e].pc \in {"adopt", "ack", "callback"} => rx[e].msg \in Message

\* While send() runs in a receive thread, that thread is in its callback, and
\* nobody else can replace the expected number by None.
RepliesWait ==
  \A e \in Endpoints :
    /\ call[<<e, "rx">>].pc # "idle" => rx[e].pc = "reply"
    /\ call[<<e, "rx">>].pc \in {"pack", "transmit", "wait", "clear"} => expected[e] # None

TypeInv == TypeOK /\ CallsCarry /\ NetCarries /\ RxCarries
ReplyInv == RepliesWait /\ ReplyNeverConfirmed
IInv == TypeInv /\ ReplyInv
------------------------------------------------------------------------------
LEMMA ThreadParts ==
  /\ \A t \in Threads : t[1] \in Endpoints /\ t[2] \in {"app", "rx"} /\ t = <<t[1], t[2]>>
  /\ \A e \in Endpoints : <<e, "app">> \in Threads /\ <<e, "rx">> \in Threads
  BY DEF Threads

LEMMA PeerIsEndpoint == \A e \in Endpoints : Peer(e) \in Endpoints
  BY DEF Peer, Endpoints

\* Sending adds one datagram to what is on its way; taking adds none.
LEMMA SendAdds ==
  ASSUME DOMAIN net = Endpoints, NEW e \in Endpoints, NEW d, net' = NetAfterSend(e, d)
  PROVE  /\ DOMAIN net' = Endpoints
         /\ \A f \in Endpoints : \A x \in BagToSet(net'[f]) : x \in BagToSet(net[f]) \/ x = d
  BY DEF NetAfterSend, BagToSet, SetToBag, (+)

LEMMA TakeAddsNone ==
  ASSUME DOMAIN net = Endpoints, NEW e \in Endpoints, NEW d,
         net' = [net EXCEPT ![e] = @ (-) SetToBag({d})]
  PROVE  /\ DOMAIN net' = Endpoints
         /\ \A f \in Endpoints : \A x \in BagToSet(net'[f]) : x \in BagToSet(net[f])
  BY DEF BagToSet, SetToBag, (-)

LEMMA InitTypes == Init => TypeInv
  BY ChannelAssumption, ThreadParts
     DEF Init, TypeInv, TypeOK, CallsCarry, NetCarries, RxCarries, IdleCall, IdleRx, Call, Rx,
         CallPcs, RxPcs, BagToSet, EmptyBag, SetToBag

\* A thread that replaces its activation of send() by a proper one.
Proper(c, t) ==
  c.pc # "idle" =>
    /\ c.msg \in Message /\ c.msg.by = t[2]
    /\ c.pc \notin {"wait", "clear"} => c.tries < MaxRetries

LEMMA CallStep ==
  ASSUME call \in [Threads -> Call], CallsCarry, NEW t \in Threads, NEW c \in Call,
         Proper(c, t), call' = [call EXCEPT ![t] = c]
  PROVE  call' \in [Threads -> Call] /\ CallsCarry'
<1>1. call' \in [Threads -> Call]
  OBVIOUS
<1>2. \A u \in Threads : Proper(call'[u], u)
  BY DEF CallsCarry, Proper
<1> QED
  BY <1>1, <1>2 DEF CallsCarry, Proper

\* The activation of send() in t, in detail.
LEMMA CallParts ==
  ASSUME call \in [Threads -> Call], CallsCarry, NEW t \in Threads
  PROVE  /\ call[t] \in Call /\ Proper(call[t], t)
         /\ call[t].pc \in CallPcs /\ call[t].msg \in Message \cup {None}
         /\ call[t].sn \in Nat /\ call[t].tries \in 0..MaxRetries
  BY DEF Call, CallsCarry, Proper

LEMMA CallGoes ==
  ASSUME call \in [Threads -> Call], CallsCarry, NEW t \in Threads,
         NEW pc \in CallPcs, call[t].pc # "idle",
         pc \in {"wait", "clear"} \/ call[t].pc \notin {"wait", "clear"},
         call' = [call EXCEPT ![t].pc = pc]
  PROVE  call' \in [Threads -> Call] /\ CallsCarry'
<1> DEFINE c == [call[t] EXCEPT !.pc = pc]
<1>1. c \in Call
  BY CallParts DEF Call
<1>2. Proper(c, t)
  BY CallParts DEF Proper, Call
<1>3. call' = [call EXCEPT ![t] = c]
  OBVIOUS
<1> HIDE DEF c
<1> QED
  BY <1>1, <1>2, <1>3, CallStep

\* The parts of TypeInv that a step of send() leaves alone, except the message
\* in transmission and the result.
OtherTypes ==
  /\ ackReceived \in [Endpoints -> BOOLEAN]
  /\ running \in [Endpoints -> BOOLEAN]
  /\ lost \in 0..LossBudget /\ duplicated \in 0..DupBudget
  /\ issued \in [Endpoints -> Nat]
  /\ {confirmed, failed, handled} \subseteq [Endpoints -> SUBSET Message]

RxTypes == rx \in [Endpoints -> Rx] /\ RxCarries

NetTypes ==
  /\ DOMAIN net = Endpoints
  /\ \A e \in Endpoints : BagToSet(net[e]) \subseteq Datagram
  /\ NetCarries

NumberTypes == sn \in [Endpoints -> Nat] /\ expected \in [Endpoints -> Nat \cup {-1, None}]

LEMMA TypeParts ==
  TypeInv <=> /\ NumberTypes /\ OtherTypes /\ RxTypes /\ NetTypes
              /\ call \in [Threads -> Call] /\ CallsCarry
  BY DEF TypeInv, TypeOK, NumberTypes, OtherTypes, RxTypes, NetTypes

LEMMA TypePartsNext ==
  /\ NumberTypes' /\ OtherTypes' /\ RxTypes' /\ NetTypes'
  /\ call' \in [Threads -> Call] /\ CallsCarry'
  => TypeInv'
  BY DEF TypeInv, TypeOK, NumberTypes, OtherTypes, RxTypes, NetTypes

\* send() may end in a thread whatever its receive thread is doing.
LEMMA ReturnTypes ==
  ASSUME TypeInv, NEW t \in Threads, NEW pc \in {"recv", "dead"}, ReturnFrom(t, pc)
  PROVE  RxTypes' /\ call' \in [Threads -> Call] /\ CallsCarry'
<1> USE TypeParts
<1>1. IdleCall \in Call /\ Proper(IdleCall, t)
  BY ChannelAssumption DEF IdleCall, Call, CallPcs, Proper
<1>2. call' \in [Threads -> Call] /\ CallsCarry'
  BY <1>1, CallStep DEF ReturnFrom
<1>3. [IdleRx EXCEPT !.pc = pc] \in Rx /\ [IdleRx EXCEPT !.pc = pc].pc = pc
  BY DEF IdleRx, Rx, RxPcs
<1>4. RxTypes'
  BY <1>3, ThreadParts DEF ReturnFrom, RxTypes, RxCarries
<1> QED
  BY <1>2, <1>4

\* A datagram that carries a message when it is no ACK may be sent.
LEMMA SendNet ==
  ASSUME NetTypes, NEW e \in Endpoints, NEW d \in Datagram, ~IsAck(d) => d.msg \in Message,
         net' = NetAfterSend(e, d)
  PROVE  NetTypes'
  BY SendAdds DEF NetTypes, NetCarries, BagToSet

LEMMA TakeNet ==
  ASSUME NetTypes, NEW e \in Endpoints, NEW d, net' = [net EXCEPT ![e] = @ (-) SetToBag({d})]
  PROVE  NetTypes'
  BY TakeAddsNone DEF NetTypes, NetCarries

\* The actions of send() preserve the types.
LEMMA SendTypes == ASSUME TypeInv, NEW t \in Threads, Send(t) PROVE TypeInv'
<1> USE TypeParts, TypePartsNext, ThreadParts DEF shared, netVars, results
<1> DEFINE Calls == call' \in [Threads -> Call] /\ CallsCarry'
<1>a. ASSUME UNCHANGED <<net, rx>> PROVE NetTypes' /\ RxTypes'
  BY <1>a DEF NetTypes, RxTypes, NetCarries, RxCarries
<1>0. ASSUME NEW from \in CallPcs, NEW to \in CallPcs, from \notin {"idle", "wait", "clear"},
             Load(t, from, to)
      PROVE  TypeInv'
  <2> DEFINE c == [call[t] EXCEPT !.pc = to, !.sn = sn[t[1]]]
  <2>1. c \in Call /\ Proper(c, t)
    BY <1>0, CallParts DEF Load, Call, Proper, NumberTypes
  <2>2. call' = [call EXCEPT ![t] = c]
    BY <1>0 DEF Load
  <2> HIDE DEF c
  <2>3. Calls
    BY <2>1, <2>2, CallStep
  <2> QED
    BY <1>0, <1>a, <2>3 DEF Load, NumberTypes, OtherTypes
<1>1. ASSUME NEW from \in CallPcs, NEW to \in CallPcs, from \notin {"idle", "wait", "clear"},
             NEW n \in Nat, Store(t, from, to, n)
      PROVE  TypeInv'
  <2>1. Calls
    BY <1>1, CallGoes DEF Store
  <2>2. NumberTypes' /\ OtherTypes'
    BY <1>1 DEF Store, NumberTypes, OtherTypes
  <2> QED
    BY <1>1, <1>a, <2>1, <2>2 DEF Store
<1>2. CASE SendLoad(t) \/ SendLoadWrap(t) \/ SendLoadExpect(t) \/ SendPack(t)
  BY <1>0, <1>2 DEF SendLoad, SendLoadWrap, SendLoadExpect, SendPack, CallPcs
<1>3. CASE SendStore(t) \/ SendStoreWrap(t)
  <2>1. call[t].sn + 1 \in Nat /\ call[t].sn % SnMod \in Nat
    BY CallParts, ChannelAssumption
  <2> QED
    BY <1>1, <1>3, <2>1 DEF SendStore, SendStoreWrap, CallPcs
<1>4. CASE SendExpect(t)
  <2>1. Calls
    BY <1>4, CallGoes DEF SendExpect, CallPcs
  <2>2. NumberTypes' /\ OtherTypes'
    BY <1>4, CallParts DEF SendExpect, NumberTypes, OtherTypes
  <2> QED
    BY <1>4, <1>a, <2>1, <2>2 DEF SendExpect
<1>5. CASE SendTransmit(t)
  <2>1. NumberTypes' /\ OtherTypes'
    BY <1>5 DEF SendTransmit, NumberTypes, OtherTypes
  <2>2. CASE running[t[1]]
    <3> DEFINE c == [call[t] EXCEPT !.pc = "wait", !.tries = @ + 1]
               d == [sn |-> call[t].sn, msg |-> call[t].msg]
    <3>0. call[t].tries + 1 \in 0..MaxRetries
      BY <1>5, CallParts, ChannelAssumption DEF SendTransmit, Proper
    <3>1. c \in Call /\ Proper(c, t)
      BY <1>5, <3>0, CallParts DEF SendTransmit, Call, CallPcs, Proper
    <3>2. call' = [call EXCEPT ![t] = c] /\ net' = NetAfterSend(Peer(t[1]), d)
      BY <1>5, <2>2 DEF SendTransmit
    <3>3. d \in Datagram /\ d.msg \in Message
      BY <1>5, CallParts DEF SendTransmit, Datagram, Proper
    <3> HIDE DEF c, d
    <3>4. Calls
      BY <3>1, <3>2, CallStep
    <3>5. NetTypes'
      BY <3>2, <3>3, SendNet, PeerIsEndpoint
    <3> QED
      BY <1>5, <2>1, <2>2, <3>4, <3>5 DEF SendTransmit, RxTypes, RxCarries
  <2>3. CASE ~running[t[1]]
    BY <1>5, <2>1, <2>3, ReturnTypes DEF SendTransmit, NetTypes, NetCarries
  <2> QED
    BY <2>2, <2>3
<1>6. CASE SendAcked(t)
  <2>1. RxTypes' /\ Calls
    BY <1>6, ReturnTypes DEF SendAcked
  <2>2. confirmed' \in [Endpoints -> SUBSET Message]
    BY <1>6, CallParts DEF SendAcked, OtherTypes, Proper
  <2>3. ackReceived' \in [Endpoints -> BOOLEAN]
    BY <1>6 DEF SendAcked, OtherTypes
  <2> QED
    BY <1>6, <2>1, <2>2, <2>3 DEF SendAcked, OtherTypes, NumberTypes, NetTypes, NetCarries
<1>7. CASE SendNotAcked(t)
  <2>1. Calls
    BY <1>7, CallGoes DEF SendNotAcked, CallPcs
  <2> QED
    BY <1>7, <1>a, <2>1 DEF SendNotAcked, NumberTypes, OtherTypes
<1>8. CASE SendClear(t)
  <2>1. ackReceived' \in [Endpoints -> BOOLEAN]
    BY <1>8 DEF SendClear, ClearUpTo, OtherTypes
  <2>2. CASE call[t].tries < MaxRetries
    <3> DEFINE c == [call[t] EXCEPT !.pc = "transmit"]
    <3>1. c \in Call /\ Proper(c, t)
      BY <1>8, <2>2, CallParts DEF SendClear, ClearUpTo, Call, CallPcs, Proper
    <3>2. call' = [call EXCEPT ![t] = c] /\ UNCHANGED <<rx, failed>>
      BY <1>8, <2>2 DEF SendClear, ClearUpTo
    <3> HIDE DEF c
    <3>3. Calls
      BY <3>1, <3>2, CallStep
    <3> QED
      BY <1>8, <1>a, <2>1, <3>2, <3>3 DEF SendClear, ClearUpTo, NumberTypes, OtherTypes
  <2>3. CASE ~(call[t].tries < MaxRetries)
    <3>1. RxTypes' /\ Calls
      BY <1>8, <2>3, ReturnTypes DEF SendClear, ClearUpTo
    <3>2. call[t].msg \in Message /\ failed' = [failed EXCEPT ![t[1]] = @ \cup {call[t].msg}]
      BY <1>8, <2>3, CallParts DEF SendClear, ClearUpTo, Proper
    <3>3. failed' \in [Endpoints -> SUBSET Message]
      BY <3>2 DEF OtherTypes
    <3> QED
      BY <1>8, <2>1, <3>1, <3>3
         DEF SendClear, ClearUpTo, NumberTypes, OtherTypes, NetTypes, NetCarries
  <2> QED
    BY <2>2, <2>3
<1> QED
  BY <1>1, <1>2, <1>3, <1>4, <1>5, <1>6, <1>7, <1>8 DEF Send, SendNumber

LEMMA NewCallTypes ==
  ASSUME TypeInv, NEW t \in Threads, NEW kind \in Kinds
  PROVE  NewCall(t, kind) \in Call /\ Proper(NewCall(t, kind), t)
<1>1. issued[t[1]] + 1 \in Nat
  BY TypeParts, ThreadParts DEF OtherTypes
<1>2. [from |-> t[1], by |-> t[2], id |-> issued[t[1]] + 1, kind |-> kind] \in Message
  BY <1>1, ThreadParts DEF Message
<1> QED
  BY <1>2, ChannelAssumption DEF NewCall, Call, CallPcs, Proper

LEMMA AppSendTypes ==
  ASSUME TypeInv, NEW e \in Endpoints, NEW kind \in Kinds, AppSend(e, kind)
  PROVE  TypeInv'
<1>1. call' \in [Threads -> Call] /\ CallsCarry'
  BY NewCallTypes, CallStep, ThreadParts, TypeParts DEF AppSend
<1>2. OtherTypes'
  BY TypeParts DEF AppSend, OtherTypes, netVars, shared
<1> QED
  BY <1>1, <1>2, TypeParts, TypePartsNext
     DEF AppSend, shared, netVars, NumberTypes, RxTypes, RxCarries, NetTypes, NetCarries

\* A receive thread goes on with a datagram that has been taken.
LEMMA RxStep ==
  ASSUME RxTypes, NEW e \in Endpoints, NEW r \in Rx,
         r.pc \in {"adopt", "ack", "callback"} => r.msg \in Message,
         rx' = [rx EXCEPT ![e] = r]
  PROVE  RxTypes'
  BY DEF RxTypes, RxCarries

LEMMA RxParts ==
  ASSUME RxTypes, NEW e \in Endpoints
  PROVE  /\ rx[e] \in Rx /\ rx[e].pc \in RxPcs /\ rx[e].sn \in Nat
         /\ rx[e].msg \in Message \cup {None}
         /\ rx[e].pc \in {"adopt", "ack", "callback"} => rx[e].msg \in Message
  BY DEF RxTypes, RxCarries, Rx

LEMMA RxGoes ==
  ASSUME RxTypes, NEW e \in Endpoints, NEW pc \in RxPcs,
         pc \in {"adopt", "ack", "callback"} => rx[e].pc \in {"adopt", "ack", "callback"},
         rx' = [rx EXCEPT ![e].pc = pc]
  PROVE  RxTypes'
<1> DEFINE r == [rx[e] EXCEPT !.pc = pc]
<1>1. r \in Rx /\ (r.pc \in {"adopt", "ack", "callback"} => r.msg \in Message)
  BY RxParts DEF Rx
<1>2. rx' = [rx EXCEPT ![e] = r]
  OBVIOUS
<1> HIDE DEF r
<1> QED
  BY <1>1, <1>2, RxStep

LEMMA IdleRxType == IdleRx \in Rx /\ IdleRx.pc = "recv"
  BY DEF IdleRx, Rx, RxPcs

LEMMA TakenTypes ==
  ASSUME TypeInv, NEW e \in Endpoints, RxTake(e)
  PROVE  RxTypes' /\ NetTypes'
<1> USE TypeParts
<1> DEFINE Taken(d) == IF IsAck(d) THEN [pc |-> "match", sn |-> d.sn - SnMod, msg |-> None]
                                   ELSE [pc |-> "adopt", sn |-> d.sn, msg |-> d.msg]
<1>1. PICK d \in BagToSet(net[e]) :
        /\ net' = [net EXCEPT ![e] = @ (-) SetToBag({d})]
        /\ rx' = [rx EXCEPT ![e] = Taken(d)]
  BY DEF RxTake
<1>2. d \in Datagram /\ (~IsAck(d) => d.msg \in Message)
  BY DEF NetTypes, NetCarries
<1>3. IsAck(d) => d.sn - SnMod \in Nat
  BY <1>2, ChannelAssumption DEF IsAck, Datagram
<1>4. Taken(d) \in Rx /\ (Taken(d).pc = "adopt" => Taken(d).msg \in Message)
  BY <1>2, <1>3 DEF Rx, RxPcs, Datagram
<1>5. Taken(d).pc \in {"match", "adopt"}
  OBVIOUS
<1> HIDE DEF Taken
<1>6. RxTypes'
  BY <1>1, <1>4, <1>5, RxStep
<1>7. NetTypes'
  BY <1>1, TakeNet
<1> QED
  BY <1>6, <1>7

LEMMA CallbackTypes ==
  ASSUME TypeInv, NEW e \in Endpoints, RxCallback(e)
  PROVE  TypeInv'
<1> USE TypeParts, TypePartsNext DEF shared, netVars
<1>1. handled' \in [Endpoints -> SUBSET Message]
  BY RxParts DEF RxCallback, OtherTypes
<1>2. NumberTypes' /\ NetTypes'
  BY DEF RxCallback, NumberTypes, NetTypes, NetCarries
<1>3. CASE e = Device /\ rx[e].msg.kind = "DISCOVER"
  <2>1. call' \in [Threads -> Call] /\ CallsCarry'
    BY <1>3, NewCallTypes, CallStep, ThreadParts DEF RxCallback, Kinds
  <2>2. RxTypes'
    BY <1>3, RxGoes DEF RxCallback, RxPcs
  <2>3. OtherTypes'
    BY <1>1, <1>3 DEF RxCallback, OtherTypes
  <2> QED
    BY <1>2, <2>1, <2>2, <2>3
<1>4. CASE ~(e = Device /\ rx[e].msg.kind = "DISCOVER")
  <2>1. RxTypes'
    BY <1>4, RxStep, IdleRxType DEF RxCallback
  <2> QED
    BY <1>1, <1>2, <1>4, <2>1 DEF RxCallback, OtherTypes, CallsCarry
<1> QED
  BY <1>3, <1>4

\* The actions of _receive_message() preserve the types.
LEMMA ReceiveTypes == ASSUME TypeInv, NEW e \in Endpoints, Receive(e) PROVE TypeInv'
<1> USE TypeParts, TypePartsNext DEF shared, netVars, results
<1>a. ASSUME UNCHANGED call PROVE call' \in [Threads -> Call] /\ CallsCarry'
  BY <1>a DEF CallsCarry
<1>b. ASSUME UNCHANGED net PROVE NetTypes'
  BY <1>b DEF NetTypes, NetCarries
<1>1. CASE RxTake(e)
  BY <1>1, <1>a, TakenTypes DEF RxTake, NumberTypes, OtherTypes
<1>2. CASE RxQuit(e)
  <2>1. RxTypes'
    BY <1>2, RxGoes DEF RxQuit, RxPcs
  <2> QED
    BY <1>2, <1>a, <1>b, <2>1 DEF RxQuit, NumberTypes, OtherTypes
<1>3. CASE RxMatch(e)
  <2>1. [rx[e] EXCEPT !.pc = "none"] \in Rx
    BY RxParts DEF Rx, RxPcs
  <2>2. RxTypes'
    BY <1>3, <2>1, RxParts, RxStep, IdleRxType DEF RxMatch, Rx
  <2> QED
    BY <1>3, <1>a, <1>b, <2>2 DEF RxMatch, NumberTypes, OtherTypes
<1>4. CASE RxNone(e)
  <2>1. RxTypes'
    BY <1>4, RxGoes DEF RxNone, RxPcs
  <2> QED
    BY <1>4, <1>a, <1>b, <2>1 DEF RxNone, NumberTypes, OtherTypes
<1>5. CASE RxSet(e)
  <2>1. RxTypes'
    BY <1>5, RxStep, IdleRxType DEF RxSet
  <2> QED
    BY <1>5, <1>a, <1>b, <2>1 DEF RxSet, NumberTypes, OtherTypes
<1>6. CASE RxAdopt(e)
  <2>1. RxTypes'
    BY <1>6, RxGoes DEF RxAdopt, RxPcs
  <2>2. NumberTypes'
    BY <1>6, RxParts DEF RxAdopt, NumberTypes
  <2> QED
    BY <1>6, <1>a, <1>b, <2>1, <2>2 DEF RxAdopt, OtherTypes
<1>7. CASE RxAck(e)
  <2>1. RxTypes'
    BY <1>7, RxGoes DEF RxAck, RxPcs
  <2>2. Ack(rx[e].sn) \in Datagram /\ IsAck(Ack(rx[e].sn))
    BY RxParts, ChannelAssumption DEF Ack, IsAck, Datagram
  <2>3. NetTypes'
    BY <1>7, <1>b, <2>2, SendNet, PeerIsEndpoint DEF RxAck
  <2> QED
    BY <1>7, <1>a, <2>1, <2>3 DEF RxAck, NumberTypes, OtherTypes
<1>8. CASE RxCallback(e)
  BY <1>8, CallbackTypes
<1> QED
  BY <1>1, <1>2, <1>3, <1>4, <1>5, <1>6, <1>7, <1>8 DEF Receive

\* stop() and the network.
LEMMA StopTypes == ASSUME TypeInv, NEW e \in Endpoints, Stop(e) PROVE TypeInv'
<1> USE TypeParts, TypePartsNext DEF shared, netVars, results
<1>1. RxTypes'
  <2>1. CASE UNCHANGED rx
    BY <2>1 DEF RxTypes, RxCarries
  <2>2. CASE rx' = [rx EXCEPT ![e].pc = "blocked"]
    BY <2>2, RxGoes DEF RxPcs
  <2> QED
    BY <2>1, <2>2 DEF Stop
<1> QED
  BY <1>1 DEF Stop, NumberTypes, OtherTypes, NetTypes, NetCarries, CallsCarry

LEMMA NetworkTypes ==
  ASSUME TypeInv, NEW e \in Endpoints, Lose(e) \/ Duplicate(e)
  PROVE  TypeInv'
<1> USE TypeParts, TypePartsNext DEF shared, results
<1>1. NetTypes'
  <2>1. CASE Lose(e)
    BY <2>1, TakeNet DEF Lose
  <2>2. CASE Duplicate(e)
    BY <2>2, SendNet DEF Duplicate, NetTypes, NetCarries
  <2> QED
    BY <2>1, <2>2
<1>2. OtherTypes'
  BY ChannelAssumption DEF Lose, Duplicate, OtherTypes
<1> QED
  BY <1>1, <1>2 DEF Lose, Duplicate, NumberTypes, RxTypes, RxCarries, CallsCarry

LEMMA NextTypes == TypeInv /\ [Next]_vars => TypeInv'
<1> SUFFICES ASSUME TypeInv, [Next]_vars PROVE TypeInv'
  OBVIOUS
<1>1. CASE UNCHANGED vars
  BY <1>1
     DEF vars, shared, netVars, results, TypeInv, TypeOK, CallsCarry, NetCarries,
         RxCarries
<1>2. CASE Next
  BY <1>2, AppSendTypes, SendTypes, ReceiveTypes, StopTypes, NetworkTypes DEF Next
<1> QED
  BY <1>1, <1>2

\* The variables of both endpoints keep their types; in particular a call of
\* send() never transmits more than max_retries times.
THEOREM TypeCorrect == Spec => []TypeOK
<1>1. TypeInv => TypeOK
  BY DEF TypeInv
<1> QED
  BY <1>1, InitTypes, NextTypes, PTL DEF Spec
------------------------------------------------------------------------------
\* The steps of send() that neither return nor look at an ACK: the thread stays
\* in send(), with an expected number from the moment it may be waited for.
LEMMA SendingInv ==
  ASSUME TypeInv, ReplyInv, NEW t \in Threads, NEW pc \in CallPcs \ {"idle"},
         DOMAIN call' = Threads, call'[t].pc = pc, call[t].pc # "idle",
         \A u \in Threads \ {t} : call'[u] = call[u],
         UNCHANGED <<rx, confirmed>>,
         \A e \in Endpoints : expected'[e] = expected[e] \/ expected'[e] \in Nat,
         pc \in {"pack", "transmit", "wait", "clear"} =>
           call[t].pc \in {"pack", "transmit", "wait", "clear"} \/ expected'[t[1]] \in Nat
  PROVE  ReplyInv'
<1>1. None \notin Nat
  BY NoneAssumption
<1>2. ASSUME NEW e \in Endpoints
      PROVE  /\ call'[<<e, "rx">>].pc # "idle" => rx'[e].pc = "reply"
             /\ call'[<<e, "rx">>].pc \in {"pack", "transmit", "wait", "clear"} =>
                  expected'[e] # None
  <2>1. CASE t = <<e, "rx">>
    BY <1>1, <2>1 DEF ReplyInv, RepliesWait
  <2>2. CASE t # <<e, "rx">>
    BY <1>1, <2>2, ThreadParts DEF ReplyInv, RepliesWait
  <2> QED
    BY <2>1, <2>2
<1> QED
  BY <1>2 DEF ReplyInv, RepliesWait, ReplyNeverConfirmed

\* send() returns.
LEMMA ReturnInv ==
  ASSUME TypeInv, ReplyInv, NEW t \in Threads, NEW pc \in {"recv", "dead"}, ReturnFrom(t, pc),
         UNCHANGED expected
  PROVE  RepliesWait'
<1> SUFFICES ASSUME NEW e \in Endpoints
             PROVE  /\ call'[<<e, "rx">>].pc # "idle" => rx'[e].pc = "reply"
                    /\ call'[<<e, "rx">>].pc \in {"pack", "transmit", "wait", "clear"} =>
                         expected'[e] # None
  BY DEF RepliesWait
<1> USE ThreadParts DEF TypeInv, TypeOK
<1>1. CASE t = <<e, "rx">>
  BY <1>1 DEF ReturnFrom, IdleCall
<1>2. CASE t # <<e, "rx">>
  <2>1. call'[<<e, "rx">>] = call[<<e, "rx">>]
    BY <1>2 DEF ReturnFrom
  <2>2. rx'[e] = rx[e]
    BY <1>2 DEF ReturnFrom
  <2> QED
    BY <2>1, <2>2 DEF ReplyInv, RepliesWait
<1> QED
  BY <1>1, <1>2

LEMMA SendReplies == ASSUME TypeInv, ReplyInv, NEW t \in Threads, Send(t) PROVE ReplyInv'
<1> USE ThreadParts DEF shared, netVars, results, CallPcs
<1>t. call \in [Threads -> Call] /\ expected \in [Endpoints -> Nat \cup {-1, None}]
      /\ sn \in [Endpoints -> Nat] /\ confirmed \in [Endpoints -> SUBSET Message]
  BY DEF TypeInv, TypeOK
<1>l. ASSUME NEW from \in CallPcs, NEW to \in {"store", "storeWrap", "expect"},
             from # "idle", Load(t, from, to)
      PROVE  ReplyInv'
  BY <1>l, <1>t, SendingInv DEF Load
<1>s. ASSUME NEW from \in CallPcs, NEW to \in {"loadWrap", "loadExpect"}, NEW n,
             from # "idle", Store(t, from, to, n)
      PROVE  ReplyInv'
  <2>1. /\ call[t].pc = from /\ call' = [call EXCEPT ![t].pc = to]
        /\ UNCHANGED <<rx, expected, confirmed>>
    BY <1>s DEF Store
  <2>2. /\ DOMAIN call' = Threads /\ call'[t].pc = to
        /\ \A u \in Threads \ {t} : call'[u] = call[u]
    BY <1>t, <2>1 DEF Call
  <2> QED
    BY <1>s, <2>1, <2>2, SendingInv
<1>1. CASE SendLoad(t) \/ SendLoadWrap(t) \/ SendLoadExpect(t)
  BY <1>1, <1>l DEF SendLoad, SendLoadWrap, SendLoadExpect
<1>2. CASE SendStore(t) \/ SendStoreWrap(t)
  BY <1>2, <1>s DEF SendStore, SendStoreWrap
<1>3. CASE SendExpect(t)
  <2>1. /\ call[t].pc = "expect" /\ UNCHANGED <<rx, confirmed>>
        /\ call' = [call EXCEPT ![t].pc = "pack"]
        /\ expected' = [expected EXCEPT ![t[1]] = call[t].sn] /\ call[t].sn \in Nat
    BY <1>3, <1>t DEF SendExpect, Call
  <2>2. \A e \in Endpoints : expected'[e] = expected[e] \/ expected'[e] \in Nat
    BY <1>t, <2>1
  <2>3. expected'[t[1]] \in Nat
    BY <1>t, <2>1
  <2>4. /\ DOMAIN call' = Threads /\ call'[t].pc = "pack"
        /\ \A u \in Threads \ {t} : call'[u] = call[u]
    BY <1>t, <2>1 DEF Call
  <2> QED
    BY <2>1, <2>2, <2>3, <2>4, SendingInv
<1>4. CASE SendPack(t)
  BY <1>4, <1>t, SendingInv DEF Load, SendPack
<1>5. CASE SendTransmit(t)
  <2>1. CASE running[t[1]]
    <3>1. /\ call[t].pc = "transmit" /\ UNCHANGED <<rx, expected, confirmed>>
          /\ call' = [call EXCEPT ![t].pc = "wait", ![t].tries = @ + 1]
      BY <1>5, <2>1 DEF SendTransmit
    <3>2. /\ DOMAIN call' = Threads /\ call'[t].pc = "wait"
          /\ \A u \in Threads \ {t} : call'[u] = call[u]
      BY <1>t, <3>1 DEF Call
    <3> QED
      BY <3>1, <3>2, SendingInv
  <2>2. CASE ~running[t[1]]
    BY <1>5, <2>2, ReturnInv DEF SendTransmit, ReplyInv, ReplyNeverConfirmed
  <2> QED
    BY <2>1, <2>2
<1>6. CASE SendAcked(t)
  <2>1. RepliesWait'
    BY <1>6, ReturnInv DEF SendAcked
  <2>2. t[2] = "app"
    BY <1>6 DEF SendAcked, AckSeen, ReplyInv, RepliesWait
  <2>3. call[t].msg.by = "app"
    BY <1>6, <2>2 DEF SendAcked, TypeInv, CallsCarry
  <2>4. ReplyNeverConfirmed'
    BY <1>6, <1>t, <2>3 DEF SendAcked, ReplyInv, ReplyNeverConfirmed
  <2> QED
    BY <2>1, <2>4 DEF ReplyInv
<1>7. CASE SendNotAcked(t)
  BY <1>7, <1>t, SendingInv DEF SendNotAcked
<1>8. CASE SendClear(t)
  <2>1. CASE call[t].tries < MaxRetries
    <3>1. /\ call[t].pc = "clear" /\ UNCHANGED <<rx, expected, confirmed>>
          /\ call' = [call EXCEPT ![t].pc = "transmit"]
      BY <1>8, <2>1 DEF SendClear, ClearUpTo
    <3>2. /\ DOMAIN call' = Threads /\ call'[t].pc = "transmit"
          /\ \A u \in Threads \ {t} : call'[u] = call[u]
      BY <1>t, <3>1 DEF Call
    <3> QED
      BY <3>1, <3>2, SendingInv
  <2>2. CASE ~(call[t].tries < MaxRetries)
    BY <1>8, <2>2, ReturnInv DEF SendClear, ClearUpTo, ReplyInv, ReplyNeverConfirmed
  <2> QED
    BY <2>1, <2>2
<1> QED
  BY <1>1, <1>2, <1>3, <1>4, <1>5, <1>6, <1>7, <1>8 DEF Send, SendNumber

\* A receive thread that takes a step is not inside send().
LEMMA ReceiveReplies == ASSUME TypeInv, ReplyInv, NEW e \in Endpoints, Receive(e)
                        PROVE ReplyInv'
<1> USE ThreadParts DEF shared, netVars, results
<1>t. /\ call \in [Threads -> Call] /\ DOMAIN rx = Endpoints
      /\ expected \in [Endpoints -> Nat \cup {-1, None}]
  BY DEF TypeInv, TypeOK
<1>1. rx[e].pc # "reply"
  BY DEF Receive, RxTake, RxQuit, RxMatch, RxNone, RxSet, RxAdopt, RxAck, RxCallback
<1>2. call[<<e, "rx">>].pc = "idle"
  BY <1>1 DEF ReplyInv, RepliesWait
<1>3. /\ UNCHANGED confirmed
      /\ \A f \in Endpoints \ {e} : rx'[f] = rx[f] /\ expected'[f] = expected[f]
  BY <1>t DEF Receive, RxTake, RxQuit, RxMatch, RxNone, RxSet, RxAdopt, RxAck, RxCallback
<1>4. CASE UNCHANGED call
  BY <1>2, <1>3, <1>4 DEF ReplyInv, RepliesWait, ReplyNeverConfirmed
<1>5. CASE RxCallback(e) /\ e = Device /\ rx[e].msg.kind = "DISCOVER"
  <2>1. /\ call' = [call EXCEPT ![<<e, "rx">>] = NewCall(<<e, "rx">>, "SENSOR_INFO")]
        /\ rx'[e].pc = "reply"
    <3>1. /\ call' = [call EXCEPT ![<<e, "rx">>] = NewCall(<<e, "rx">>, "SENSOR_INFO")]
          /\ rx' = [rx EXCEPT ![e].pc = "reply"]
      BY <1>5 DEF RxCallback
    <3>2. rx[e] \in Rx
      BY DEF TypeInv, TypeOK
    <3>3. rx'[e].pc = "reply"
      BY <1>t, <3>1, <3>2 DEF Rx
    <3> QED
      BY <3>1, <3>3
  <2>2. call'[<<e, "rx">>].pc = "load" /\ \A f \in Endpoints \ {e} : call'[<<f, "rx">>] = call[<<f, "rx">>]
    BY <1>t, <2>1 DEF NewCall
  <2> QED
    BY <1>3, <2>1, <2>2 DEF ReplyInv, RepliesWait, ReplyNeverConfirmed
<1> QED
  BY <1>4, <1>5
     DEF Receive, RxTake, RxQuit, RxMatch, RxNone, RxSet, RxAdopt, RxAck, RxCallback

LEMMA OtherReplies ==
  ASSUME TypeInv, ReplyInv, NEW e \in Endpoints,
         \/ \E kind \in Kinds : AppSend(e, kind)
         \/ Stop(e) \/ Lose(e) \/ Duplicate(e)
  PROVE  ReplyInv'
<1> USE ThreadParts DEF shared, netVars, results, TypeInv, TypeOK
<1>1. UNCHANGED <<expected, confirmed>>
  BY DEF AppSend, Stop, Lose, Duplicate
<1>2. \A f \in Endpoints : call'[<<f, "rx">>] = call[<<f, "rx">>]
  BY DEF AppSend, Stop, Lose, Duplicate
<1>3. \A f \in Endpoints : rx[f].pc = "reply" => rx'[f].pc = "reply"
  BY DEF AppSend, Stop, Lose, Duplicate
<1> QED
  BY <1>1, <1>2, <1>3 DEF ReplyInv, RepliesWait, ReplyNeverConfirmed

LEMMA InitReplies == Init => ReplyInv
<1> SUFFICES ASSUME Init PROVE ReplyInv
  OBVIOUS
<1>1. \A e \in Endpoints : call[<<e, "rx">>].pc = "idle" /\ confirmed[e] = {}
  BY ThreadParts DEF Init, IdleCall
<1> QED
  BY <1>1 DEF ReplyInv, RepliesWait, ReplyNeverConfirmed

LEMMA NextReplies == TypeInv /\ ReplyInv /\ [Next]_vars => ReplyInv'
<1> SUFFICES ASSUME TypeInv, ReplyInv, [Next]_vars PROVE ReplyInv'
  OBVIOUS
<1>1. CASE UNCHANGED vars
  BY <1>1 DEF vars, shared, results, ReplyInv, RepliesWait, ReplyNeverConfirmed
<1>2. CASE Next
  BY <1>2, SendReplies, ReceiveReplies, OtherReplies DEF Next
<1> QED
  BY <1>1, <1>2

\* The inductive invariant: the types, and that a receive thread inside send()
\* has an expected number that only that very thread could clear.
THEOREM Invariance == Spec => []IInv
<1>1. Init => IInv
  BY InitTypes, InitReplies DEF IInv
<1>2. IInv /\ [Next]_vars => IInv'
  BY NextTypes, NextReplies DEF IInv
<1> QED
  BY <1>1, <1>2, PTL DEF Spec

\* However the threads interleave and whatever UDP does, the reply that
\* RTASP_sender.send_info sends from the receive thread is never confirmed: its
\* send() makes all its transmissions and returns 1, or is cut short by stop().
THEOREM RepliesAreNeverConfirmed == Spec => []ReplyNeverConfirmed
<1>1. IInv => ReplyNeverConfirmed
  BY DEF IInv, ReplyInv
<1> QED
  BY <1>1, Invariance, PTL
------------------------------------------------------------------------------
(* One side sends, S, and what it sends is not answered by a message of    *)
(* the receive thread.  It sends at most once per number: beyond that an   *)
(* old ACK may bear the number of a new message.                           *)

OneSided(S) ==
  /\ AppKinds(Peer(S)) = {} \/ AppCalls(Peer(S)) = 0
  /\ S = Server => "DISCOVER" \notin ServerKinds
  /\ AppCalls(S) <= SnMod

Num(k) == k % SnMod

\* A message S has sent.
SentBy(S, m) ==
  /\ m \in Message /\ m.from = S
  /\ m.id \in 1..issued[S]
  /\ S = Server => m.kind # "DISCOVER"

\* No other thread is in send(), S receives ACKs only, its peer messages only.
Quiet(S) ==
  /\ \A t \in Threads \ {<<S, "app">>} : call[t].pc = "idle"
  /\ rx[S].pc \in {"recv", "blocked", "match", "none", "set", "dead"}
  /\ rx[Peer(S)].pc \in {"recv", "blocked", "adopt", "ack", "callback", "dead"}
  /\ confirmed[Peer(S)] = {}

\* The number follows the calls, one behind until it is incremented and wrapped,
\* and nobody changes it between a load and a store.
Numbered(S) ==
  LET c == call[<<S, "app">>]
      n == issued[S] IN
  /\ n <= AppCalls(S)
  /\ c.pc # "idle" => SentBy(S, c.msg) /\ c.msg.id = n
  /\ sn[S] = CASE c.pc \in {"load", "store"} -> Num(n - 1)
               [] c.pc \in {"loadWrap", "storeWrap"} -> Num(n - 1) + 1
               [] OTHER -> Num(n)
  /\ c.pc \in {"store", "storeWrap", "expect"} => c.sn = sn[S]
  /\ c.pc \in {"transmit", "wait", "clear"} => c.sn = Num(n)
  /\ \A m \in confirmed[S] : m.id \in 1..n /\ (c.pc # "idle" => m.id < n)

\* What the peer gets are messages of S under their numbers, what S gets the
\* ACKs of messages the peer has.
Underway(S) ==
  LET P == Peer(S) IN
  /\ \A d \in BagToSet(net[P]) : SentBy(S, d.msg) /\ d.sn = Num(d.msg.id)
  /\ rx[P].pc \in {"adopt", "ack", "callback"} =>
       SentBy(S, rx[P].msg) /\ rx[P].sn = Num(rx[P].msg.id)
  /\ \A m \in handled[P] : SentBy(S, m)
Acked(S) ==
  /\ \A d \in BagToSet(net[S]) : \E r \in Received(Peer(S)) : d = Ack(Num(r.id))
  /\ rx[S].pc = "match" => \E r \in Received(Peer(S)) : rx[S].sn = Num(r.id)

\* A message the peer has and S has not confirmed.
Unconfirmed(S) == Received(Peer(S)) \ confirmed[S]

\* The number S expects is not that of a confirmed message; and what replaces it
\* by None is the ACK of an unconfirmed one.
Credited(S) ==
  /\ \A m \in confirmed[S] : Num(m.id) # expected[S]
  /\ rx[S].pc = "none" => expected[S] # None /\ Unconfirmed(S) # {}
  /\ expected[S] = None /\ call[<<S, "app">>].pc \in {"pack", "transmit", "wait", "clear"} =>
       Unconfirmed(S) # {}

\* What is confirmed has arrived, or an older message has that is not confirmed.
ConfirmedFrom(S) ==
  \A m \in confirmed[S] :
    \E r \in Received(Peer(S)) : r.id <= m.id /\ (r = m \/ r \notin confirmed[S])

OneWay(S) ==
  Quiet(S) /\ Numbered(S) /\ Underway(S) /\ Acked(S) /\ Credited(S) /\ ConfirmedFrom(S)
------------------------------------------------------------------------------
\* The numbers of a session that does not wrap are distinct.
LEMMA NumberFacts ==
  /\ \A k \in Nat : Num(k) \in 0..(SnMod - 1)
  /\ \A j, k \in 1..SnMod : j < k => Num(j) # Num(k)
  /\ \A k \in 1..SnMod : (Num(k - 1) + 1) % SnMod = Num(k)
<1>1. \A k \in Nat : Num(k) \in 0..(SnMod - 1)
  BY ChannelAssumption DEF Num
<1>2. \A k \in 0..(SnMod - 1) : Num(k) = k
  BY ChannelAssumption DEF Num
<1>3. Num(SnMod) = 0
  BY ChannelAssumption DEF Num
<1>4. \A k \in 1..SnMod : k = SnMod \/ k \in 0..(SnMod - 1)
  BY ChannelAssumption
<1>5. \A j, k \in 1..SnMod : j < k => Num(j) # Num(k)
  BY <1>2, <1>3, <1>4, ChannelAssumption
<1>6. ASSUME NEW k \in 1..SnMod PROVE (Num(k - 1) + 1) % SnMod = Num(k)
  <2>1. k - 1 \in 0..(SnMod - 1)
    BY <1>6, ChannelAssumption
  <2>2. Num(k - 1) = k - 1
    BY <1>2, <2>1
  <2>3. (k - 1) + 1 = k
    BY ChannelAssumption
  <2> QED
    BY <2>2, <2>3 DEF Num
<1> QED
  BY <1>1, <1>5, <1>6

LEMMA Sides ==
  ASSUME NEW S \in Endpoints
  PROVE  /\ Peer(S) \in Endpoints /\ Peer(S) # S /\ Peer(Peer(S)) = S
         /\ \A e \in Endpoints : e = S \/ e = Peer(S)
         /\ <<S, "app">> \in Threads
  BY ChannelAssumption DEF Peer, Endpoints, Threads

\* What the peer has received was sent.
LEMMA ReceivedWasSent ==
  ASSUME NEW S, Underway(S) PROVE \A r \in Received(Peer(S)) : SentBy(S, r)
  BY DEF Received, Underway

\* A thread goes from one statement of send() to another, or of its loop.
LEMMA CallMoves ==
  ASSUME call \in [Threads -> Call], NEW t \in Threads, NEW pc, call' = [call EXCEPT ![t].pc = pc]
  PROVE  /\ call'[t].pc = pc /\ call'[t].msg = call[t].msg /\ call'[t].sn = call[t].sn
         /\ \A u \in Threads : u # t => call'[u] = call[u]
  BY DEF Call

LEMMA RxMoves ==
  ASSUME rx \in [Endpoints -> Rx], NEW e \in Endpoints, NEW pc, rx' = [rx EXCEPT ![e].pc = pc]
  PROVE  /\ rx'[e].pc = pc /\ rx'[e].msg = rx[e].msg /\ rx'[e].sn = rx[e].sn
         /\ \A f \in Endpoints : f # e => rx'[f] = rx[f]
  BY DEF Rx

\* A datagram is added for one endpoint, or taken from one.
LEMMA NetAdds ==
  ASSUME DOMAIN net = Endpoints, NEW e \in Endpoints, NEW d, net' = NetAfterSend(e, d)
  PROVE  /\ \A x \in BagToSet(net'[e]) : x \in BagToSet(net[e]) \/ x = d
         /\ \A f \in Endpoints : f # e => net'[f] = net[f]
<1>1. \A f \in Endpoints : f # e => net'[f] = net[f]
  BY DEF NetAfterSend
<1> QED
  BY <1>1, SendAdds
------------------------------------------------------------------------------
\* The application of S calls send().
LEMMA AppSendOneWay ==
  ASSUME NEW S \in Endpoints, OneSided(S), TypeInv, OneWay(S),
         NEW e \in Endpoints, NEW kind \in Kinds, AppSend(e, kind)
  PROVE  OneWay(S)'
<1> DEFINE t == <<S, "app">>
<1> USE Sides DEF OneWay
<1>1. e = S
  BY DEF AppSend, OneSided, TypeInv, TypeOK
<1>2. /\ UNCHANGED <<sn, expected, rx, net, confirmed, handled>>
      /\ call[t].pc = "idle" /\ issued[S] < AppCalls(S) /\ kind \in AppKinds(S)
      /\ call' = [call EXCEPT ![t] = NewCall(t, kind)]
      /\ issued' = [issued EXCEPT ![S] = issued[S] + 1]
  BY <1>1 DEF AppSend, shared, netVars
<1>3. /\ issued[S] \in Nat /\ AppCalls(S) \in Nat /\ issued'[S] = issued[S] + 1
      /\ issued'[S] <= AppCalls(S)
      /\ call[t].pc = "idle" /\ call'[t] = NewCall(t, kind)
      /\ \A u \in Threads : u # t => call'[u] = call[u]
  BY <1>2, ChannelAssumption DEF TypeInv, TypeOK, AppCalls
<1>4. /\ call'[t].pc = "load" /\ call'[t].msg.id = issued[S] + 1
      /\ SentBy(S, call[t].msg)'
  BY <1>1, <1>2, <1>3 DEF NewCall, SentBy, Message, OneSided, AppKinds
<1>5. \A m : SentBy(S, m) => SentBy(S, m)'
  BY <1>3 DEF SentBy
<1>6. Received(Peer(S))' = Received(Peer(S))
  BY <1>2 DEF Received
<1> HIDE DEF t
<1>7. Quiet(S)'
  BY <1>2, <1>3 DEF Quiet, t
<1>8. Numbered(S)'
  <2>1. sn[S] = Num(issued[S]) /\ issued[S] = issued'[S] - 1
    BY <1>3 DEF Numbered, t
  <2>2. \A m \in confirmed[S] : m.id \in 1..issued'[S] /\ m.id < issued'[S]
    BY <1>3 DEF Numbered
  <2> QED
    BY <1>2, <1>3, <1>4, <2>1, <2>2 DEF Numbered, t
<1>9. Underway(S)'
  BY <1>2, <1>5 DEF Underway
<1>10. Acked(S)'
  BY <1>2, <1>6 DEF Acked
<1>11. Credited(S)'
  BY <1>2, <1>4, <1>6 DEF Credited, Unconfirmed, t
<1>12. ConfirmedFrom(S)'
  BY <1>2, <1>6 DEF ConfirmedFrom
<1> QED
  BY <1>7, <1>8, <1>9, <1>10, <1>11, <1>12

\* The only call of send() is that of the application of S, and it leaves the
\* rest alone.
LEMMA OneSender ==
  ASSUME NEW S \in Endpoints, TypeInv, OneWay(S), NEW t \in Threads, Send(t)
  PROVE  /\ t = <<S, "app">> /\ t[1] = S /\ t[2] = "app" /\ call[t].pc # "idle"
         /\ UNCHANGED <<rx, handled, issued, running>>
         /\ \A u \in Threads : u # t => call'[u] = call[u]
<1> USE DEF Send, SendNumber, Load, Store, SendLoad, SendStore, SendLoadWrap,
            SendStoreWrap, SendLoadExpect, SendExpect, SendPack, SendTransmit, SendAcked,
            SendNotAcked, SendClear, ClearUpTo, ReturnFrom, results
<1>1. t = <<S, "app">> /\ t[1] = S /\ t[2] = "app" /\ call[t].pc # "idle"
  <2>1. call[t].pc # "idle"
    OBVIOUS
  <2> QED
    BY <2>1, Sides DEF OneWay, Quiet
<1>2. UNCHANGED <<handled, issued, running>>
  OBVIOUS
<1>3. UNCHANGED rx
  BY <1>1
<1>4. ASSUME NEW u \in Threads, u # t PROVE call'[u] = call[u]
  BY <1>4 DEF TypeInv, TypeOK
<1> QED
  BY <1>1, <1>2, <1>3, <1>4

\* The application thread of S goes on in send().
LEMMA SendOneWay ==
  ASSUME NEW S \in Endpoints, OneSided(S), TypeInv, OneWay(S), NEW t \in Threads, Send(t)
  PROVE  OneWay(S)'
<1> USE Sides DEF OneWay
<1>1. t = <<S, "app">> /\ t[1] = S /\ t[2] = "app"
  BY OneSender
<1>2. /\ call \in [Threads -> Call] /\ issued[S] \in Nat /\ issued[S] <= SnMod
      /\ sn \in [Endpoints -> Nat] /\ expected \in [Endpoints -> Nat \cup {-1, None}]
      /\ confirmed \in [Endpoints -> SUBSET Message] /\ DOMAIN net = Endpoints
  BY ChannelAssumption DEF TypeInv, TypeOK, OneSided, Numbered, AppCalls
<1>3. /\ UNCHANGED <<rx, handled, issued>>
      /\ \A u \in Threads : u # t => call'[u] = call[u]
      /\ confirmed'[Peer(S)] = confirmed[Peer(S)]
  <2>1. UNCHANGED <<rx, handled, issued>> /\ \A u \in Threads : u # t => call'[u] = call[u]
    BY OneSender
  <2>2. confirmed'[Peer(S)] = confirmed[Peer(S)]
    BY <1>1, <1>2
       DEF Send, SendNumber, Load, Store, SendLoad, SendStore, SendLoadWrap,
           SendStoreWrap, SendLoadExpect, SendExpect, SendPack, SendTransmit, SendAcked,
           SendNotAcked, SendClear, ClearUpTo, results
  <2> QED
    BY <2>1, <2>2
<1>4. Received(Peer(S))' = Received(Peer(S)) /\ \A m : SentBy(S, m)' <=> SentBy(S, m)
  BY <1>3 DEF Received, SentBy
<1>5. Quiet(S)'
  BY <1>1, <1>3 DEF Quiet
<1>6. call[t].pc # "idle" => /\ SentBy(S, call[t].msg) /\ call[t].msg.id = issued[S]
                             /\ issued[S] \in 1..SnMod
  BY <1>1, <1>2 DEF Numbered, SentBy
<1>7. ASSUME UNCHANGED net PROVE Underway(S)' /\ Acked(S)'
  BY <1>3, <1>4, <1>7 DEF Underway, Acked
<1>8. ASSUME UNCHANGED confirmed PROVE ConfirmedFrom(S)'
  BY <1>4, <1>5, <1>8 DEF ConfirmedFrom
<1>9. ASSUME UNCHANGED <<confirmed, expected>>,
             call'[t].pc \in {"pack", "transmit", "wait", "clear"} =>
               call[t].pc \in {"pack", "transmit", "wait", "clear"}
      PROVE  Credited(S)'
  BY <1>1, <1>3, <1>4, <1>9 DEF Credited, Unconfirmed
<1>10. ASSUME UNCHANGED <<confirmed, sn>>, call'[t].sn = call[t].sn \/ call'[t].pc = "idle",
              call'[t].msg = call[t].msg \/ call'[t].pc = "idle",
              call[t].pc \in {"transmit", "wait", "clear"},
              call'[t].pc \in {"transmit", "wait", "clear", "idle"}
       PROVE  Numbered(S)'
  BY <1>1, <1>3, <1>4, <1>10 DEF Numbered
<1>11. CASE SendLoad(t) \/ SendLoadWrap(t) \/ SendLoadExpect(t) \/ SendPack(t)
  <2>1. PICK to \in {"store", "storeWrap", "expect", "transmit"} :
          /\ call' = [call EXCEPT ![t].pc = to, ![t].sn = sn[S]]
          /\ call[t].pc = CASE to = "store" -> "load" [] to = "storeWrap" -> "loadWrap"
                            [] to = "expect" -> "loadExpect" [] OTHER -> "pack"
          /\ UNCHANGED <<net, sn, expected, confirmed>>
    BY <1>1, <1>11
       DEF Load, SendLoad, SendLoadWrap, SendLoadExpect, SendPack, shared, netVars, results
  <2>2. call'[t].pc = to /\ call'[t].msg = call[t].msg /\ call'[t].sn = sn[S]
    BY <1>2, <2>1 DEF Call
  <2>3. Numbered(S)'
    BY <1>1, <1>3, <1>4, <2>1, <2>2 DEF Numbered
  <2> QED
    BY <1>5, <1>7, <1>8, <1>9, <2>1, <2>2, <2>3
<1>12. CASE SendStore(t)
  <2>1. /\ call[t].pc = "store" /\ sn'[S] = call[t].sn + 1
        /\ call' = [call EXCEPT ![t].pc = "loadWrap"]
        /\ UNCHANGED <<net, expected, confirmed>>
    BY <1>1, <1>2, <1>12 DEF Store, SendStore, netVars, results
  <2>2. call'[t].pc = "loadWrap" /\ call'[t].msg = call[t].msg
    BY <1>2, <2>1, CallMoves
  <2>3. Numbered(S)'
    BY <1>1, <1>3, <1>4, <2>1, <2>2 DEF Numbered
  <2> QED
    BY <1>5, <1>7, <1>8, <1>9, <2>1, <2>2, <2>3
<1>13. CASE SendStoreWrap(t)
  <2>1. /\ call[t].pc = "storeWrap" /\ sn'[S] = call[t].sn % SnMod
        /\ call' = [call EXCEPT ![t].pc = "loadExpect"]
        /\ UNCHANGED <<net, expected, confirmed>>
    BY <1>1, <1>2, <1>13 DEF Store, SendStoreWrap, netVars, results
  <2>2. call'[t].pc = "loadExpect" /\ call'[t].msg = call[t].msg
    BY <1>2, <2>1, CallMoves
  <2>3. call[t].sn = Num(issued[S] - 1) + 1
    BY <1>1, <2>1 DEF Numbered
  <2>4. sn'[S] = Num(issued[S])
    BY <1>6, <2>1, <2>3, NumberFacts
  <2>5. Numbered(S)'
    BY <1>1, <1>3, <1>4, <2>1, <2>2, <2>4 DEF Numbered
  <2> QED
    BY <1>5, <1>7, <1>8, <1>9, <2>1, <2>2, <2>5
<1>14. CASE SendExpect(t)
  <2>1. /\ call[t].pc = "expect" /\ expected'[S] = call[t].sn
        /\ call' = [call EXCEPT ![t].pc = "pack"]
        /\ UNCHANGED <<net, sn, confirmed>> /\ call[t].sn \in Nat
    BY <1>1, <1>2, <1>14 DEF SendExpect, netVars, results, Call
  <2>2. call'[t].pc = "pack" /\ call'[t].msg = call[t].msg
    BY <1>2, <2>1, CallMoves
  <2>3. sn[S] = Num(issued[S]) /\ call[t].sn = sn[S]
    BY <1>1, <2>1 DEF Numbered
  <2>4. Numbered(S)'
    BY <1>1, <1>3, <1>4, <2>1, <2>2, <2>3 DEF Numbered
  <2>5. expected'[S] # None
    BY <1>2, <2>1, NoneAssumption
  <2>6. ASSUME NEW m \in confirmed[S] PROVE Num(m.id) # expected'[S]
    <3>1. m.id \in 1..issued[S] /\ m.id < issued[S]
      BY <1>1, <2>1 DEF Numbered
    <3>2. m.id \in 1..SnMod
      BY <1>2, <3>1, ChannelAssumption
    <3> QED
      BY <1>6, <2>1, <2>3, <3>1, <3>2, NumberFacts
  <2>7. Credited(S)'
    BY <1>3, <1>4, <2>1, <2>5, <2>6 DEF Credited, Unconfirmed
  <2> QED
    BY <1>5, <1>7, <1>8, <2>1, <2>4, <2>7
<1>15. CASE SendTransmit(t)
  <2> DEFINE d == [sn |-> call[t].sn, msg |-> call[t].msg]
  <2>1. call[t].pc = "transmit" /\ UNCHANGED <<sn, expected, confirmed>>
    BY <1>15 DEF SendTransmit, shared, results
  <2>2. CASE running[S]
    <3>0. Peer(S) \in Endpoints /\ Peer(S) # S
      OBVIOUS
    <3>1. /\ net' = NetAfterSend(Peer(S), d)
          /\ call' = [call EXCEPT ![t].pc = "wait", ![t].tries = @ + 1]
      BY <1>1, <1>15, <2>2 DEF SendTransmit
    <3>2. call'[t].pc = "wait" /\ call'[t].msg = call[t].msg /\ call'[t].sn = call[t].sn
      BY <1>2, <3>1 DEF Call
    <3>3. SentBy(S, d.msg) /\ d.sn = Num(d.msg.id)
      BY <1>1, <1>6, <2>1 DEF Numbered
    <3> HIDE DEF d
    <3>4. Underway(S)'
      <4>1. \A x \in BagToSet(net'[Peer(S)]) : x \in BagToSet(net[Peer(S)]) \/ x = d
        BY <1>2, <3>0, <3>1, NetAdds
      <4> QED
        BY <1>3, <1>4, <3>3, <4>1 DEF Underway
    <3>5. Acked(S)'
      <4>1. net'[S] = net[S]
        BY <1>2, <3>0, <3>1, NetAdds
      <4> QED
        BY <1>3, <1>4, <4>1 DEF Acked
    <3> QED
      BY <1>5, <1>8, <1>9, <1>10, <2>1, <3>2, <3>4, <3>5
  <2>3. CASE ~running[S]
    <3>1. UNCHANGED net /\ call' = [call EXCEPT ![t] = IdleCall]
      BY <1>1, <1>15, <2>3 DEF SendTransmit, ReturnFrom
    <3>2. call'[t].pc = "idle"
      BY <1>2, <3>1 DEF IdleCall
    <3> QED
      BY <1>5, <1>7, <1>8, <1>9, <1>10, <2>1, <3>1, <3>2
  <2> QED
    BY <2>2, <2>3
<1>16. CASE SendAcked(t)
  <2>1. /\ call[t].pc = "wait" /\ expected[S] = None
        /\ confirmed'[S] = confirmed[S] \cup {call[t].msg}
        /\ call' = [call EXCEPT ![t] = IdleCall]
        /\ UNCHANGED <<net, sn, expected>>
    BY <1>1, <1>2, <1>16 DEF SendAcked, AckSeen, ReturnFrom, netVars
  <2>2. call'[t].pc = "idle"
    BY <1>2, <2>1 DEF IdleCall
  <2>3. Numbered(S)'
    <3>1. \A m \in confirmed'[S] : m.id \in 1..issued[S]
      BY <1>6, <2>1 DEF Numbered
    <3>2. sn[S] = Num(issued[S])
      BY <1>1, <2>1 DEF Numbered
    <3> QED
      BY <1>1, <1>3, <2>1, <2>2, <3>1, <3>2 DEF Numbered
  <2>4. Credited(S)'
    <3>1. \A m \in confirmed'[S] : Num(m.id) # expected'[S]
      <4>1. \A m \in confirmed'[S] : m.id \in Nat
        BY <1>6, <2>1, <1>2 DEF Numbered
      <4> QED
        BY <2>1, <4>1, NumberFacts, NoneAssumption
    <3>2. rx'[S].pc # "none"
      BY <1>3, <2>1 DEF Credited
    <3> QED
      BY <1>1, <2>2, <3>1, <3>2 DEF Credited
  <2>5. ConfirmedFrom(S)'
    <3>1. PICK r \in Received(Peer(S)) : r \notin confirmed[S]
      BY <1>1, <2>1 DEF Credited, Unconfirmed
    <3>2. r.id <= call[t].msg.id
      BY <1>2, <1>6, <2>1, <3>1, ReceivedWasSent DEF SentBy
    <3>3. ASSUME NEW m \in confirmed[S]
          PROVE  \E q \in Received(Peer(S)) :
                   q.id <= m.id /\ (q = m \/ q \notin confirmed'[S])
      <4>1. PICK q \in Received(Peer(S)) :
              q.id <= m.id /\ (q = m \/ q \notin confirmed[S])
        BY DEF ConfirmedFrom
      <4>2. m.id < call[t].msg.id /\ m.id \in Nat
        BY <1>1, <1>2, <1>6, <2>1 DEF Numbered
      <4>3. q.id \in Nat /\ call[t].msg.id \in Nat
        BY <1>6, <2>1, <4>1, ReceivedWasSent DEF SentBy
      <4>4. q # call[t].msg
        BY <4>1, <4>2, <4>3
      <4> QED
        BY <2>1, <4>1, <4>4
    <3> QED
      BY <1>4, <2>1, <3>1, <3>2, <3>3 DEF ConfirmedFrom
  <2> QED
    BY <1>5, <1>7, <2>1, <2>3, <2>4, <2>5
<1>17. CASE SendNotAcked(t)
  <2>1. /\ call[t].pc = "wait" /\ call' = [call EXCEPT ![t].pc = "clear"]
        /\ UNCHANGED <<net, sn, expected, confirmed>>
    BY <1>17 DEF SendNotAcked, shared, netVars, results
  <2>2. call'[t].pc = "clear" /\ call'[t].msg = call[t].msg /\ call'[t].sn = call[t].sn
    BY <1>2, <2>1, CallMoves
  <2> QED
    BY <1>5, <1>7, <1>8, <1>9, <1>10, <2>1, <2>2
<1>18. CASE SendClear(t)
  <2>1. /\ call[t].pc = "clear"
        /\ call' \in {[call EXCEPT ![t].pc = "transmit"], [call EXCEPT ![t] = IdleCall]}
        /\ UNCHANGED <<net, sn, expected, confirmed>>
    BY <1>18 DEF SendClear, ClearUpTo, ReturnFrom, netVars
  <2>2. CASE call' = [call EXCEPT ![t].pc = "transmit"]
    <3>1. call'[t].pc = "transmit" /\ call'[t].msg = call[t].msg /\ call'[t].sn = call[t].sn
      BY <1>2, <2>2, CallMoves
    <3> QED
      BY <1>5, <1>7, <1>8, <1>9, <1>10, <2>1, <3>1
  <2>3. CASE call' = [call EXCEPT ![t] = IdleCall]
    <3>1. call'[t].pc = "idle"
      BY <1>2, <2>3 DEF IdleCall
    <3> QED
      BY <1>5, <1>7, <1>8, <1>9, <1>10, <2>1, <3>1
  <2> QED
    BY <2>1, <2>2, <2>3
<1> QED
  BY <1>11, <1>12, <1>13, <1>14, <1>15, <1>16, <1>17, <1>18 DEF Send, SendNumber

\* The receive thread of S: it gets ACKs.
LEMMA SenderReceiveOneWay ==
  ASSUME NEW S \in Endpoints, OneSided(S), TypeInv, OneWay(S), Receive(S)
  PROVE  OneWay(S)'
<1> USE Sides DEF OneWay
<1>1. /\ rx \in [Endpoints -> Rx] /\ DOMAIN net = Endpoints
      /\ expected \in [Endpoints -> Nat \cup {-1, None}]
      /\ rx[S].pc \notin {"adopt", "ack", "callback"}
  BY DEF TypeInv, TypeOK, Quiet
<1>2. RxTake(S) \/ RxQuit(S) \/ RxMatch(S) \/ RxNone(S) \/ RxSet(S)
  BY <1>1 DEF Receive, RxAdopt, RxAck, RxCallback
<1>3. /\ UNCHANGED <<sn, call, issued, confirmed, handled>>
      /\ net'[Peer(S)] = net[Peer(S)] /\ rx'[Peer(S)] = rx[Peer(S)]
  BY <1>1, <1>2 DEF RxTake, RxQuit, RxMatch, RxNone, RxSet, shared, netVars, results
<1>4. Received(Peer(S))' = Received(Peer(S)) /\ \A m : SentBy(S, m)' <=> SentBy(S, m)
  BY <1>3 DEF Received, SentBy
<1>5. Numbered(S)'
  BY <1>3, <1>4 DEF Numbered
<1>6. Underway(S)'
  BY <1>3, <1>4 DEF Underway
<1>7. ConfirmedFrom(S)'
  BY <1>3, <1>4 DEF ConfirmedFrom
<1>8. CASE RxTake(S)
  <2>1. PICK d \in BagToSet(net[S]) :
          /\ net' = [net EXCEPT ![S] = @ (-) SetToBag({d})]
          /\ rx' = [rx EXCEPT ![S] =
                     IF IsAck(d) THEN [pc |-> "match", sn |-> d.sn - SnMod, msg |-> None]
                                 ELSE [pc |-> "adopt", sn |-> d.sn, msg |-> d.msg]]
    BY <1>8 DEF RxTake
  <2>2. PICK r \in Received(Peer(S)) : d = Ack(Num(r.id))
    BY <2>1 DEF Acked
  <2>3. Num(r.id) \in Nat
    BY <2>2, ReceivedWasSent, NumberFacts DEF SentBy
  <2>4. IsAck(d) /\ d.sn - SnMod = Num(r.id)
    BY <2>2, <2>3, ChannelAssumption DEF Ack, IsAck
  <2>5. rx'[S].pc = "match" /\ rx'[S].sn = Num(r.id)
    BY <1>1, <2>1, <2>4
  <2>6. \A x \in BagToSet(net'[S]) : x \in BagToSet(net[S])
    BY <1>1, <2>1, TakeAddsNone
  <2>7. UNCHANGED expected
    BY <1>8 DEF RxTake, shared
  <2>8. Quiet(S)'
    BY <1>3, <2>5 DEF Quiet
  <2>9. Acked(S)'
    BY <1>4, <2>2, <2>5, <2>6 DEF Acked
  <2>10. Credited(S)'
    BY <1>3, <1>4, <2>5, <2>7 DEF Credited, Unconfirmed
  <2> QED
    BY <1>5, <1>6, <1>7, <2>8, <2>9, <2>10
<1>9. CASE RxMatch(S)
  <2>1. /\ rx[S].pc = "match" /\ UNCHANGED <<net, expected>>
        /\ rx' = [rx EXCEPT ![S] = IF rx[S].sn = expected[S] THEN [rx[S] EXCEPT !.pc = "none"]
                                                             ELSE IdleRx]
    BY <1>9 DEF RxMatch, shared, netVars
  <2>2. \/ rx'[S].pc = "none" /\ rx[S].sn = expected[S]
        \/ rx'[S].pc = "recv"
    BY <1>1, <2>1 DEF Rx, IdleRx
  <2>3. Quiet(S)'
    BY <1>3, <2>2 DEF Quiet
  <2>4. Acked(S)'
    BY <1>4, <2>1, <2>2 DEF Acked
  <2>5. ASSUME rx[S].sn = expected[S] PROVE expected[S] # None /\ Unconfirmed(S) # {}
    <3>1. PICK r \in Received(Peer(S)) : rx[S].sn = Num(r.id)
      BY <2>1 DEF Acked
    <3>2. r \notin confirmed[S]
      BY <2>5, <3>1 DEF Credited
    <3>3. Num(r.id) \in Int
      BY <3>1, ReceivedWasSent, NumberFacts DEF SentBy
    <3> QED
      BY <2>5, <3>1, <3>2, <3>3, NoneAssumption DEF Unconfirmed
  <2>6. Credited(S)'
    BY <1>3, <1>4, <2>1, <2>2, <2>5 DEF Credited, Unconfirmed
  <2> QED
    BY <1>5, <1>6, <1>7, <2>3, <2>4, <2>6
<1>10. CASE RxNone(S)
  <2>1. /\ rx[S].pc = "none" /\ UNCHANGED net /\ expected'[S] = None
        /\ rx' = [rx EXCEPT ![S].pc = "set"]
    BY <1>1, <1>10 DEF RxNone, netVars
  <2>2. rx'[S].pc = "set"
    BY <1>1, <2>1, RxMoves
  <2>3. Quiet(S)'
    BY <1>3, <2>2 DEF Quiet
  <2>4. Acked(S)'
    BY <1>4, <2>1, <2>2 DEF Acked
  <2>5. ASSUME NEW m \in confirmed[S] PROVE Num(m.id) # None
    BY <2>5, NumberFacts, NoneAssumption DEF Numbered
  <2>6. Credited(S)'
    BY <1>3, <1>4, <2>1, <2>2, <2>5 DEF Credited, Unconfirmed
  <2> QED
    BY <1>5, <1>6, <1>7, <2>3, <2>4, <2>6
<1>11. CASE RxQuit(S) \/ RxSet(S)
  <2>1. UNCHANGED <<net, expected>> /\ rx'[S].pc \in {"dead", "recv"}
    BY <1>1, <1>11, RxMoves DEF RxQuit, RxSet, IdleRx, shared, netVars
  <2>2. Quiet(S)'
    BY <1>3, <2>1 DEF Quiet
  <2>3. Acked(S)'
    BY <1>4, <2>1 DEF Acked
  <2>4. Credited(S)'
    BY <1>3, <1>4, <2>1 DEF Credited, Unconfirmed
  <2> QED
    BY <1>5, <1>6, <1>7, <2>2, <2>3, <2>4
<1> QED
  BY <1>2, <1>8, <1>9, <1>10, <1>11

\* The peer's callback sends nothing.
LEMMA NoReply ==
  ASSUME NEW S \in Endpoints, OneWay(S), NEW P, P = Peer(S), RxCallback(P)
  PROVE  /\ rx[P].pc = "callback" /\ UNCHANGED <<call, issued, net>>
         /\ handled' = [handled EXCEPT ![P] = @ \cup {rx[P].msg}]
         /\ rx' = [rx EXCEPT ![P] = IdleRx]
<1>1. ~(P = Device /\ rx[P].msg.kind = "DISCOVER")
  <2>1. SentBy(S, rx[P].msg)
    BY DEF RxCallback, OneWay, Underway
  <2>2. P = Device => S = Server
    BY Sides, ChannelAssumption DEF Endpoints
  <2> QED
    BY <2>1, <2>2 DEF SentBy
<1> QED
  BY <1>1 DEF RxCallback, netVars

\* What the peer receives only grows; S is not concerned.
LEMMA PeerReceiveOneWay ==
  ASSUME NEW S \in Endpoints, OneSided(S), TypeInv, OneWay(S), Receive(Peer(S))
  PROVE  OneWay(S)'
<1> DEFINE P == Peer(S)
<1> USE Sides DEF OneWay
<1>1. /\ rx \in [Endpoints -> Rx] /\ DOMAIN net = Endpoints /\ sn \in [Endpoints -> Nat]
      /\ handled \in [Endpoints -> SUBSET Message]
      /\ rx[P].pc \notin {"match", "none", "set"}
  BY DEF TypeInv, TypeOK, Quiet
<1>2. RxTake(P) \/ RxQuit(P) \/ RxAdopt(P) \/ RxAck(P) \/ RxCallback(P)
  BY <1>1 DEF Receive, RxMatch, RxNone, RxSet
<1>3. ASSUME RxCallback(P)
      PROVE  /\ rx[P].pc = "callback" /\ UNCHANGED <<call, issued, net>>
             /\ handled' = [handled EXCEPT ![P] = @ \cup {rx[P].msg}]
             /\ rx' = [rx EXCEPT ![P] = IdleRx]
  BY <1>3, NoReply
<1> HIDE DEF P
<1>4. UNCHANGED <<call, issued, confirmed, expected>> /\ sn'[S] = sn[S] /\ rx'[S] = rx[S]
  <2>0. S # P /\ P \in Endpoints
    BY DEF P
  <2>1. CASE RxTake(P)
    BY <1>1, <2>0, <2>1 DEF RxTake, shared, results
  <2>2. CASE RxQuit(P)
    BY <1>1, <2>0, <2>2 DEF RxQuit, shared, results
  <2>3. CASE RxAdopt(P)
    BY <1>1, <2>0, <2>3 DEF RxAdopt, results
  <2>4. CASE RxAck(P)
    BY <1>1, <2>0, <2>4 DEF RxAck, shared, results
  <2>5. CASE RxCallback(P)
    BY <1>1, <1>3, <2>0, <2>5 DEF RxCallback, shared
  <2> QED
    BY <1>2, <2>1, <2>2, <2>3, <2>4, <2>5
<1>5. \A m : SentBy(S, m)' <=> SentBy(S, m)
  BY <1>4 DEF SentBy
<1>6. ASSUME Received(P) \subseteq Received(P)'
      PROVE  Numbered(S)' /\ Credited(S)' /\ (Quiet(S)' => ConfirmedFrom(S)')
  <2>1. Numbered(S)'
    BY <1>4, <1>5 DEF Numbered
  <2>2. Credited(S)'
    BY <1>4, <1>6 DEF Credited, Unconfirmed, P
  <2>3. Quiet(S)' => ConfirmedFrom(S)'
    BY <1>4, <1>6 DEF ConfirmedFrom, P
  <2> QED
    BY <2>1, <2>2, <2>3
<1>7. ASSUME Received(P) \subseteq Received(P)', net'[S] = net[S] PROVE Acked(S)'
  BY <1>4, <1>7 DEF Acked, P
<1>8. CASE RxTake(P)
  <2>1. PICK d \in BagToSet(net[P]) :
          /\ net' = [net EXCEPT ![P] = @ (-) SetToBag({d})]
          /\ rx' = [rx EXCEPT ![P] =
                     IF IsAck(d) THEN [pc |-> "match", sn |-> d.sn - SnMod, msg |-> None]
                                 ELSE [pc |-> "adopt", sn |-> d.sn, msg |-> d.msg]]
    BY <1>8 DEF RxTake
  <2>2. SentBy(S, d.msg) /\ d.sn = Num(d.msg.id)
    BY <2>1 DEF Underway, P
  <2>3. ~IsAck(d)
    BY <2>2, NumberFacts, ChannelAssumption DEF SentBy, IsAck
  <2>4. rx'[P] = [pc |-> "adopt", sn |-> d.sn, msg |-> d.msg]
    BY <1>1, <2>1, <2>3 DEF P
  <2>5. /\ \A x \in BagToSet(net'[P]) : x \in BagToSet(net[P])
        /\ net'[S] = net[S] /\ UNCHANGED handled
    BY <1>1, <1>8, <2>1, TakeAddsNone DEF RxTake, P
  <2>6. Received(P)' = Received(P)
    <3>1. rx[P].pc # "callback"
      BY <1>8 DEF RxTake
    <3> QED
      BY <2>4, <2>5, <3>1 DEF Received
  <2>7. Quiet(S)'
    BY <1>4, <2>4 DEF Quiet, P
  <2>8. Underway(S)'
    BY <1>5, <2>2, <2>4, <2>5 DEF Underway, P
  <2> QED
    BY <1>6, <1>7, <2>5, <2>6, <2>7, <2>8
<1>9. CASE RxQuit(P) \/ RxAdopt(P)
  <2>1. /\ rx[P].pc \in {"recv", "adopt"} /\ UNCHANGED <<net, handled>>
        /\ rx'[P].pc \in {"dead", "ack"} /\ (rx'[P].pc = "ack" => rx[P].pc = "adopt")
        /\ rx'[P].msg = rx[P].msg /\ rx'[P].sn = rx[P].sn
    <3>1. P \in Endpoints
      BY DEF P
    <3> QED
      BY <1>1, <1>9, <3>1, RxMoves DEF RxQuit, RxAdopt, netVars
  <2>2. Received(P)' = Received(P)
    BY <2>1 DEF Received
  <2>3. Quiet(S)'
    BY <1>4, <2>1 DEF Quiet, P
  <2>4. Underway(S)'
    BY <1>5, <2>1 DEF Underway, P
  <2> QED
    BY <1>6, <1>7, <2>1, <2>2, <2>3, <2>4
<1>10. CASE RxAck(P)
  <2>1. rx[P].pc = "ack" /\ UNCHANGED handled
    BY <1>10 DEF RxAck
  <2>2. SentBy(S, rx[P].msg) /\ rx[P].sn = Num(rx[P].msg.id)
    BY <2>1 DEF Underway, P
  <2>3. /\ rx'[P].msg = rx[P].msg /\ rx'[P].sn = rx[P].sn
        /\ \/ rx'[P].pc = "callback" /\ net' = NetAfterSend(S, Ack(rx[P].sn))
           \/ rx'[P].pc = "dead" /\ UNCHANGED net
    <3>1. P \in Endpoints /\ Peer(P) = S
      BY DEF P
    <3> QED
      BY <1>1, <1>10, <3>1, RxMoves DEF RxAck
  <2>4. /\ net'[P] = net[P]
        /\ \A x \in BagToSet(net'[S]) :
             x \in BagToSet(net[S]) \/ (rx'[P].pc = "callback" /\ x = Ack(rx[P].sn))
    <3>1. P \in Endpoints /\ P # S
      BY DEF P
    <3>2. CASE UNCHANGED net
      BY <3>2
    <3>3. CASE rx'[P].pc = "callback" /\ net' = NetAfterSend(S, Ack(rx[P].sn))
      BY <1>1, <3>1, <3>3, NetAdds
    <3> QED
      BY <2>3, <3>2, <3>3
  <2>5. /\ Received(P) \subseteq Received(P)'
        /\ rx'[P].pc = "callback" => rx[P].msg \in Received(P)'
    BY <2>1, <2>3 DEF Received
  <2>6. Quiet(S)'
    BY <1>4, <2>3 DEF Quiet, P
  <2>7. Underway(S)'
    BY <1>5, <2>1, <2>2, <2>3, <2>4 DEF Underway, P
  <2>8. Acked(S)'
    BY <1>4, <2>2, <2>4, <2>5 DEF Acked, P
  <2> QED
    BY <1>6, <2>5, <2>6, <2>7, <2>8
<1>11. CASE RxCallback(P)
  <2>1. /\ rx[P].pc = "callback" /\ UNCHANGED net /\ rx'[P].pc = "recv"
        /\ handled'[P] = handled[P] \cup {rx[P].msg}
    <3>1. P \in Endpoints
      BY DEF P
    <3> QED
      BY <1>1, <1>3, <1>11, <3>1 DEF IdleRx
  <2>2. Received(P)' = Received(P)
    BY <2>1 DEF Received
  <2>3. Quiet(S)'
    BY <1>4, <2>1 DEF Quiet, P
  <2>4. Underway(S)'
    BY <1>5, <2>1 DEF Underway, P
  <2> QED
    BY <1>6, <1>7, <2>1, <2>2, <2>3, <2>4
<1> QED
  BY <1>2, <1>8, <1>9, <1>10, <1>11

\* stop() and UDP.
LEMMA OthersDo ==
  ASSUME TypeInv, NEW e \in Endpoints, Stop(e) \/ Lose(e) \/ Duplicate(e)
  PROVE  /\ UNCHANGED <<expected, call, issued, confirmed, failed, handled>>
         /\ \A f \in Endpoints : \/ rx'[f] = rx[f]
                                 \/ rx[f].pc = "recv" /\ rx'[f].pc = "blocked"
         /\ \A f \in Endpoints : \A x \in BagToSet(net'[f]) : x \in BagToSet(net[f])
         /\ \A f \in Endpoints : \/ running'[f] = running[f]
                                 \/ call[<<f, "app">>].pc = "idle"
<1>1. /\ rx \in [Endpoints -> Rx] /\ DOMAIN net = Endpoints
      /\ running \in [Endpoints -> BOOLEAN]
  BY DEF TypeInv, TypeOK
<1>2. UNCHANGED <<expected, call, issued, confirmed, failed, handled>>
  BY DEF Stop, Lose, Duplicate, shared, results
<1>3. \A f \in Endpoints : rx'[f] = rx[f] \/ (rx[f].pc = "recv" /\ rx'[f].pc = "blocked")
  <2>1. CASE rx' = rx
    BY <2>1
  <2>2. CASE rx[e].pc = "recv" /\ rx' = [rx EXCEPT ![e].pc = "blocked"]
    BY <1>1, <2>2, RxMoves
  <2> QED
    BY <2>1, <2>2 DEF Stop, Lose, Duplicate
<1>4. \A f \in Endpoints : \A x \in BagToSet(net'[f]) : x \in BagToSet(net[f])
  <2>1. CASE net' = net
    BY <2>1
  <2>2. ASSUME NEW d \in BagToSet(net[e]),
               net' = NetAfterSend(e, d) \/ net' = [net EXCEPT ![e] = @ (-) SetToBag({d})]
        PROVE  \A f \in Endpoints : \A x \in BagToSet(net'[f]) : x \in BagToSet(net[f])
    <3>1. CASE net' = NetAfterSend(e, d)
      <4>1. \A x \in BagToSet(net'[e]) : x \in BagToSet(net[e]) \/ x = d
        BY <1>1, <3>1, NetAdds
      <4>2. \A f \in Endpoints : f # e => net'[f] = net[f]
        BY <1>1, <3>1, NetAdds
      <4> QED
        BY <2>2, <4>1, <4>2
    <3>2. CASE net' = [net EXCEPT ![e] = @ (-) SetToBag({d})]
      BY <1>1, <3>2, TakeAddsNone
    <3> QED
      BY <2>2, <3>1, <3>2
  <2> QED
    BY <2>1, <2>2 DEF Stop, Lose, Duplicate, netVars
<1>5. \A f \in Endpoints : running'[f] = running[f] \/ call[<<f, "app">>].pc = "idle"
  <2>1. CASE UNCHANGED running
    BY <2>1
  <2>2. CASE call[<<e, "app">>].pc = "idle" /\ running' = [running EXCEPT ![e] = FALSE]
    BY <1>1, <2>2
  <2> QED
    BY <2>1, <2>2 DEF Stop, Lose, Duplicate
<1> QED
  BY <1>2, <1>3, <1>4, <1>5

LEMMA OtherOneWay ==
  ASSUME NEW S \in Endpoints, OneSided(S), TypeInv, OneWay(S), NEW e \in Endpoints,
         Stop(e) \/ Lose(e) \/ Duplicate(e)
  PROVE  OneWay(S)'
<1> USE Sides DEF OneWay
<1>1. UNCHANGED sn
  BY DEF Stop, Lose, Duplicate, shared
<1>2. UNCHANGED <<sn, expected, call, issued, confirmed, handled>>
  BY <1>1, OthersDo
<1>3. \A f \in Endpoints : rx'[f] = rx[f] \/ (rx[f].pc = "recv" /\ rx'[f].pc = "blocked")
  BY OthersDo
<1>4. \A f \in Endpoints : \A x \in BagToSet(net'[f]) : x \in BagToSet(net[f])
  BY OthersDo
<1>5. Received(Peer(S))' = Received(Peer(S)) /\ \A m : SentBy(S, m)' <=> SentBy(S, m)
  BY <1>2, <1>3 DEF Received, SentBy
<1>6. Quiet(S)'
  BY <1>2, <1>3 DEF Quiet
<1>7. Numbered(S)'
  BY <1>2, <1>5 DEF Numbered
<1>8. Underway(S)'
  BY <1>2, <1>3, <1>4, <1>5 DEF Underway
<1>9. Acked(S)'
  BY <1>3, <1>4, <1>5 DEF Acked
<1>10. Credited(S)'
  BY <1>2, <1>3, <1>5 DEF Credited, Unconfirmed
<1>11. ConfirmedFrom(S)'
  BY <1>2, <1>5, <1>6 DEF ConfirmedFrom
<1> QED
  BY <1>6, <1>7, <1>8, <1>9, <1>10, <1>11

LEMMA InitOneWay == ASSUME NEW S \in Endpoints, OneSided(S), Init PROVE OneWay(S)
<1> USE Sides, ThreadParts DEF Init
<1>1. (\A e \in Endpoints : BagToSet(net[e]) = {}) /\ \A e \in Endpoints : Received(e) = {}
  BY DEF BagToSet, EmptyBag, SetToBag, Received, IdleRx
<1>2. Quiet(S)
  BY DEF Quiet, IdleCall, IdleRx
<1>3. Numbered(S)
  <2>1. AppCalls(S) \in Nat
    BY ChannelAssumption DEF AppCalls
  <2>2. Num(0) = 0
    BY ChannelAssumption DEF Num
  <2> QED
    BY <2>1, <2>2 DEF Numbered, IdleCall
<1>4. Underway(S) /\ Acked(S)
  BY <1>1 DEF Underway, Acked, IdleRx
<1>5. Credited(S)
  BY NoneAssumption DEF Credited, IdleRx
<1>6. ConfirmedFrom(S)
  BY DEF ConfirmedFrom
<1> QED
  BY <1>2, <1>3, <1>4, <1>5, <1>6 DEF OneWay

\* The inductive invariant of a channel on which one side sends.
THEOREM OneWayInvariance == \A S \in Endpoints : OneSided(S) /\ Spec => []OneWay(S)
<1> SUFFICES ASSUME NEW S \in Endpoints, OneSided(S) PROVE Spec => []OneWay(S)
  OBVIOUS
<1>1. Init => OneWay(S)
  BY InitOneWay
<1>2. TypeInv /\ OneWay(S) /\ [Next]_vars => OneWay(S)'
  <2> SUFFICES ASSUME TypeInv, OneWay(S), [Next]_vars PROVE OneWay(S)'
    OBVIOUS
  <2>1. CASE UNCHANGED vars
    BY <2>1
       DEF vars, shared, netVars, results, OneWay, Quiet, Numbered, SentBy, Underway, Acked,
           Received, Credited, Unconfirmed, ConfirmedFrom
  <2>2. ASSUME NEW e \in Endpoints, Receive(e) PROVE OneWay(S)'
    BY <2>2, Sides, SenderReceiveOneWay, PeerReceiveOneWay
  <2> QED
    BY <2>1, <2>2, AppSendOneWay, SendOneWay, OtherOneWay DEF Next
<1>3. Spec => []TypeInv
  BY InitTypes, NextTypes, PTL DEF Spec
<1> QED
  BY <1>1, <1>2, <1>3, PTL DEF Spec

------------------------------------------------------------------------------
(* The outcomes of send(), and how often success is one.                   *)

\* The expected number is still that of the call before.
Begun == {"load", "store", "loadWrap", "storeWrap", "loadExpect", "expect"}
Waiting == {"pack", "transmit", "wait", "clear"}

\* What S has sent at least once.  stop() comes between two calls, so that a call
\* that finds the socket closed has not sent anything.
Transmitted(S) ==
  confirmed[S] \cup failed[S] \cup
  (IF call[<<S, "app">>].pc \in {"transmit", "wait", "clear"} /\ running[S]
     THEN {call[<<S, "app">>].msg} ELSE {})

OnlyTransmitted(S) ==
  LET P == Peer(S) IN
  /\ \A d \in BagToSet(net[P]) : d.msg \in Transmitted(S)
  /\ rx[P].pc \in {"adopt", "ack", "callback"} => rx[P].msg \in Transmitted(S)
  /\ handled[P] \subseteq Transmitted(S)

\* A call has one outcome.
OneOutcome(S) ==
  /\ \A f \in failed[S] : /\ f.id \in 1..issued[S]
                          /\ call[<<S, "app">>].pc # "idle" => f.id < issued[S]
  /\ \A f \in failed[S], m \in confirmed[S] : f.id # m.id

\* S expects the number of its last call, or has been given it.
Last(S) == IF call[<<S, "app">>].pc \in Begun THEN issued[S] - 1 ELSE issued[S]
Expecting(S) ==
  expected[S] # None => expected[S] = IF Last(S) = 0 THEN -1 ELSE Num(Last(S))

\* Success has been reported at most as often as messages have come, those after
\* the last success left aside; and an ACK that has been taken is one more.
Arrived(S) == Ids(Received(Peer(S)))
Successes(S) == Ids(confirmed[S])
Spare(S) == Cardinality(Successes(S)) < Cardinality(Arrived(S))
Counted(S) ==
  /\ \A k \in Nat : Successes(S) \subseteq 1..k =>
       Cardinality(Successes(S)) <= Cardinality(Arrived(S) \cap (1..k))
  /\ rx[S].pc = "none" => Spare(S)
  /\ expected[S] = None /\ call[<<S, "app">>].pc \in Waiting => Spare(S)

Promised(S) == OnlyTransmitted(S) /\ OneOutcome(S) /\ Expecting(S) /\ Counted(S)
------------------------------------------------------------------------------
(* Counting numbers up to n *)

LEMMA UpTo ==
  ASSUME NEW n \in Nat, NEW A \in SUBSET (1..n)
  PROVE  IsFiniteSet(A) /\ Cardinality(A) \in Nat
<1>1. 1 \in Int /\ n \in Int
  OBVIOUS
<1>2. IsFiniteSet(1..n)
  BY <1>1, FS_Interval
<1> QED
  BY <1>2, FS_Subset, FS_CardinalityType

LEMMA FewerOf ==
  ASSUME NEW n \in Nat, NEW B \in SUBSET (1..n), NEW A \in SUBSET B
  PROVE  Cardinality(A) <= Cardinality(B)
  BY UpTo, FS_Subset

\* A success that is covered is reported.
LEMMA OneMore ==
  ASSUME NEW n \in Nat \ {0}, NEW C \in SUBSET (1..(n - 1)), NEW A \in SUBSET (1..n),
         Cardinality(C) < Cardinality(A),
         NEW k \in Nat, C \cup {n} \subseteq 1..k
  PROVE  Cardinality(C \cup {n}) <= Cardinality(A \cap (1..k))
<1>1. n \notin C /\ C \subseteq 1..n
  OBVIOUS
<1>2. IsFiniteSet(C) /\ Cardinality(C) \in Nat /\ Cardinality(A) \in Nat
  BY <1>1, UpTo
<1>3. Cardinality(C \cup {n}) = Cardinality(C) + 1
  BY <1>1, <1>2, FS_AddElement
<1>4. n \in 1..k
  OBVIOUS
<1>5. \A a \in A : a \in 1..k
  BY <1>4
<1>6. A \cap (1..k) = A
  BY <1>5
<1>7. Cardinality(C) + 1 <= Cardinality(A)
  BY <1>2
<1> QED
  BY <1>3, <1>6, <1>7

\* A number above all that are confirmed has arrived.
LEMMA OneSpare ==
  ASSUME NEW n \in Nat, NEW q \in 1..n, NEW C \in SUBSET (1..(q - 1)), NEW A \in SUBSET (1..n),
         q \in A,
         \A k \in Nat : C \subseteq 1..k => Cardinality(C) <= Cardinality(A \cap (1..k))
  PROVE  Cardinality(C) < Cardinality(A)
<1>1. q - 1 \in Nat
  OBVIOUS
<1>2. Cardinality(C) <= Cardinality(A \cap (1..(q - 1)))
  BY <1>1
<1>3. A \cap (1..(q - 1)) \subseteq A \ {q} /\ A \ {q} \subseteq 1..n /\ C \subseteq 1..n
  OBVIOUS
<1>4. Cardinality(A \cap (1..(q - 1))) <= Cardinality(A \ {q})
  BY <1>3, FewerOf
<1>5. IsFiniteSet(A) /\ Cardinality(A) \in Nat
  BY UpTo
<1>6. Cardinality(A \ {q}) = Cardinality(A) - 1
  BY <1>5, FS_RemoveElement
<1>7. Cardinality(C) \in Nat /\ Cardinality(A \cap (1..(q - 1))) \in Nat
  BY <1>3, UpTo
<1> QED
  BY <1>2, <1>4, <1>5, <1>6, <1>7

LEMMA IdRanges ==
  ASSUME NEW S \in Endpoints, Numbered(S), Underway(S)
  PROVE  Successes(S) \subseteq 1..issued[S] /\ Arrived(S) \subseteq 1..issued[S]
  BY ReceivedWasSent DEF Numbered, Successes, Arrived, Ids, SentBy

LEMMA IdRangesNext ==
  ASSUME NEW S \in Endpoints, Numbered(S)', Underway(S)'
  PROVE  Successes(S)' \subseteq 1..issued'[S] /\ Arrived(S)' \subseteq 1..issued'[S]
<1>1. \A r \in Received(Peer(S))' : SentBy(S, r)'
  BY DEF Received, Underway
<1> QED
  BY <1>1 DEF Numbered, Successes, Arrived, Ids, SentBy

\* More arrives and nothing is confirmed.
LEMMA CountGoesOn ==
  ASSUME NEW S \in Endpoints, TypeInv, OneWay(S), OneWay(S)', Counted(S),
         issued'[S] \in Nat, issued[S] \in Nat,
         Arrived(S) \subseteq Arrived(S)', confirmed'[S] = confirmed[S],
         rx'[S].pc = "none" => rx[S].pc = "none" \/ Spare(S),
         expected'[S] = None /\ call'[<<S, "app">>].pc \in Waiting =>
           \/ expected[S] = None /\ call[<<S, "app">>].pc \in Waiting
           \/ Spare(S)
  PROVE  Counted(S)'
<1>1. Arrived(S)' \subseteq 1..issued'[S] /\ Successes(S)' = Successes(S)
      /\ Successes(S) \subseteq 1..issued[S]
  BY IdRanges, IdRangesNext DEF OneWay, Successes
<1> DEFINE C == Successes(S)  A == Arrived(S)  B == Arrived(S)'
<1> HIDE DEF C, A, B
<1>2. C \subseteq 1..issued[S] /\ B \subseteq 1..issued'[S] /\ A \subseteq B
  BY <1>1 DEF C, A, B
<1>3. Cardinality(C) \in Nat /\ Cardinality(A) \in Nat /\ Cardinality(B) \in Nat
  BY <1>2, UpTo
<1>4. Cardinality(A) <= Cardinality(B)
  BY <1>2, FewerOf
<1>5. ASSUME NEW k \in Nat, C \subseteq 1..k
      PROVE Cardinality(C) <= Cardinality(B \cap (1..k))
  <2>1. Cardinality(C) <= Cardinality(A \cap (1..k))
    BY <1>5 DEF Counted, C, A
  <2>2. A \cap (1..k) \subseteq B \cap (1..k) /\ B \cap (1..k) \subseteq 1..issued'[S]
        /\ A \cap (1..k) \subseteq 1..issued'[S]
    BY <1>2
  <2>3. Cardinality(A \cap (1..k)) <= Cardinality(B \cap (1..k))
    BY <2>2, FewerOf
  <2>4. Cardinality(A \cap (1..k)) \in Nat /\ Cardinality(B \cap (1..k)) \in Nat
    BY <2>2, UpTo
  <2> QED
    BY <1>3, <2>1, <2>3, <2>4
<1>6. Spare(S) => Spare(S)'
  <2>1. Cardinality(C) < Cardinality(A) => Cardinality(C) < Cardinality(B)
    BY <1>3, <1>4
  <2> QED
    BY <1>1, <2>1 DEF Spare, C, A, B
<1>7. Counted(S) => (rx[S].pc = "none" => Spare(S))
                    /\ (expected[S] = None /\ call[<<S, "app">>].pc \in Waiting => Spare(S))
  BY DEF Counted
<1>8. \A k \in Nat : Successes(S)' \subseteq 1..k =>
        Cardinality(Successes(S)') <= Cardinality(Arrived(S)' \cap (1..k))
  BY <1>1, <1>5 DEF C, B
<1> QED
  BY <1>6, <1>7, <1>8 DEF Counted
------------------------------------------------------------------------------
(* What the steps do, as far as the promise is concerned *)

Goes(S) ==
  LET t == <<S, "app">> IN
  /\ call'[t].pc # "idle" /\ call'[t].msg = call[t].msg
  /\ UNCHANGED <<confirmed, failed>>
  /\ \/ UNCHANGED expected /\ (call'[t].pc \in Begun <=> call[t].pc \in Begun)
     \/ call[t].pc = "expect" /\ call'[t].pc = "pack" /\ expected'[S] = sn[S]
  /\ call[t].pc \in {"transmit", "wait", "clear"} => call'[t].pc \in {"transmit", "wait", "clear"}
  /\ \A d \in BagToSet(net'[Peer(S)]) :
       \/ d \in BagToSet(net[Peer(S)])
       \/ running[S] /\ call'[t].pc = "wait" /\ d.msg = call[t].msg

Returns(S) ==
  LET t == <<S, "app">> IN
  /\ call'[t].pc = "idle"
  /\ UNCHANGED <<net, expected>>
  /\ \/ /\ call[t].pc = "wait" /\ expected[S] = None
        /\ confirmed' = [confirmed EXCEPT ![S] = @ \cup {call[t].msg}]
        /\ UNCHANGED failed
     \/ /\ call[t].pc = "clear"
        /\ failed' = [failed EXCEPT ![S] = @ \cup {call[t].msg}]
        /\ UNCHANGED confirmed
     \/ /\ call[t].pc = "transmit" /\ ~running[S]
        /\ UNCHANGED <<confirmed, failed>>

LEMMA SendDoes ==
  ASSUME NEW S \in Endpoints, OneSided(S), TypeInv, OneWay(S), NEW t \in Threads, Send(t)
  PROVE  /\ t = <<S, "app">> /\ call[t].pc # "idle"
         /\ UNCHANGED <<rx, handled, issued, running>>
         /\ \A u \in Threads : u # t => call'[u] = call[u]
         /\ Goes(S) \/ Returns(S)
<1> USE Sides
<1>1. t = <<S, "app">> /\ t[1] = S /\ t[2] = "app" /\ call[t].pc # "idle"
  BY OneSender
<1>2. /\ call \in [Threads -> Call] /\ expected \in [Endpoints -> Nat \cup {-1, None}]
      /\ confirmed \in [Endpoints -> SUBSET Message] /\ DOMAIN net = Endpoints
  BY DEF TypeInv, TypeOK
<1>3. /\ UNCHANGED <<rx, handled, issued, running>>
      /\ \A u \in Threads : u # t => call'[u] = call[u]
  BY OneSender
<1>4. CASE SendLoad(t) \/ SendLoadWrap(t) \/ SendLoadExpect(t) \/ SendPack(t)
  <2>1. PICK to \in {"store", "storeWrap", "expect", "transmit"} :
          /\ call' = [call EXCEPT ![t].pc = to, ![t].sn = sn[S]]
          /\ call[t].pc = CASE to = "store" -> "load" [] to = "storeWrap" -> "loadWrap"
                            [] to = "expect" -> "loadExpect" [] OTHER -> "pack"
          /\ UNCHANGED <<net, expected, confirmed, failed>>
    BY <1>1, <1>4
       DEF Load, SendLoad, SendLoadWrap, SendLoadExpect, SendPack, shared, netVars, results
  <2>2. call'[t].pc = to /\ call'[t].msg = call[t].msg
    BY <1>2, <2>1 DEF Call
  <2> QED
    BY <1>1, <1>3, <2>1, <2>2 DEF Goes, Begun
<1>5. CASE SendStore(t)
  <2>1. /\ call[t].pc = "store" /\ call' = [call EXCEPT ![t].pc = "loadWrap"]
        /\ UNCHANGED <<net, expected, confirmed, failed>>
    BY <1>5 DEF Store, SendStore, netVars, results
  <2>2. call'[t].pc = "loadWrap" /\ call'[t].msg = call[t].msg
    BY <1>2, <2>1, CallMoves
  <2> QED
    BY <1>1, <1>3, <2>1, <2>2 DEF Goes, Begun
<1>6. CASE SendStoreWrap(t)
  <2>1. /\ call[t].pc = "storeWrap" /\ call' = [call EXCEPT ![t].pc = "loadExpect"]
        /\ UNCHANGED <<net, expected, confirmed, failed>>
    BY <1>6 DEF Store, SendStoreWrap, netVars, results
  <2>2. call'[t].pc = "loadExpect" /\ call'[t].msg = call[t].msg
    BY <1>2, <2>1, CallMoves
  <2> QED
    BY <1>1, <1>3, <2>1, <2>2 DEF Goes, Begun
<1>7. CASE SendExpect(t)
  <2>1. /\ call[t].pc = "expect" /\ call' = [call EXCEPT ![t].pc = "pack"]
        /\ expected'[S] = sn[S] /\ UNCHANGED <<net, confirmed, failed>>
    BY <1>1, <1>2, <1>7 DEF SendExpect, netVars, results, OneWay, Numbered
  <2>2. call'[t].pc = "pack" /\ call'[t].msg = call[t].msg
    BY <1>2, <2>1, CallMoves
  <2> QED
    BY <1>1, <1>3, <2>1, <2>2 DEF Goes
<1>8. CASE SendTransmit(t)
  <2> DEFINE d == [sn |-> call[t].sn, msg |-> call[t].msg]
  <2>1. call[t].pc = "transmit" /\ UNCHANGED <<expected, confirmed, failed>>
    BY <1>8 DEF SendTransmit, shared, results
  <2>2. CASE running[S]
    <3>0. Peer(S) \in Endpoints /\ d.msg = call[t].msg
      OBVIOUS
    <3>1. /\ net' = NetAfterSend(Peer(S), d)
          /\ call' = [call EXCEPT ![t].pc = "wait", ![t].tries = @ + 1]
      BY <1>1, <1>8, <2>2 DEF SendTransmit
    <3>2. call'[t].pc = "wait" /\ call'[t].msg = call[t].msg
      BY <1>2, <3>1 DEF Call
    <3> HIDE DEF d
    <3>3. \A x \in BagToSet(net'[Peer(S)]) : x \in BagToSet(net[Peer(S)]) \/ x = d
      BY <1>2, <3>0, <3>1, NetAdds
    <3> QED
      BY <1>1, <1>3, <2>1, <2>2, <3>0, <3>2, <3>3 DEF Goes, Begun
  <2>3. CASE ~running[S]
    <3>1. UNCHANGED net /\ call' = [call EXCEPT ![t] = IdleCall]
      BY <1>1, <1>8, <2>3 DEF SendTransmit, ReturnFrom
    <3> QED
      <4>1. call'[t].pc = "idle"
        BY <1>2, <3>1 DEF IdleCall
      <4> QED
        BY <1>1, <1>3, <2>1, <2>3, <3>1, <4>1 DEF Returns
  <2> QED
    BY <2>2, <2>3
<1>9. CASE SendAcked(t)
  <2>1. /\ call[t].pc = "wait" /\ expected[S] = None
        /\ confirmed' = [confirmed EXCEPT ![S] = @ \cup {call[t].msg}]
        /\ call' = [call EXCEPT ![t] = IdleCall]
        /\ UNCHANGED <<net, expected, failed>>
    BY <1>1, <1>9 DEF SendAcked, AckSeen, ReturnFrom, netVars
  <2>2. call'[t].pc = "idle"
    BY <1>2, <2>1 DEF IdleCall
  <2> QED
    BY <1>1, <1>3, <2>1, <2>2 DEF Returns
<1>10. CASE SendNotAcked(t)
  <2>1. /\ call[t].pc = "wait" /\ call' = [call EXCEPT ![t].pc = "clear"]
        /\ UNCHANGED <<net, expected, confirmed, failed>>
    BY <1>10 DEF SendNotAcked, shared, netVars, results
  <2>2. call'[t].pc = "clear" /\ call'[t].msg = call[t].msg
    BY <1>2, <2>1, CallMoves
  <2> QED
    BY <1>1, <1>3, <2>1, <2>2 DEF Goes, Begun
<1>11. CASE SendClear(t)
  <2>1. /\ call[t].pc = "clear" /\ UNCHANGED <<net, expected, confirmed>>
        /\ \/ call' = [call EXCEPT ![t].pc = "transmit"] /\ UNCHANGED failed
           \/ /\ call' = [call EXCEPT ![t] = IdleCall]
              /\ failed' = [failed EXCEPT ![S] = @ \cup {call[t].msg}]
    BY <1>1, <1>11 DEF SendClear, ClearUpTo, ReturnFrom, netVars
  <2>2. CASE call' = [call EXCEPT ![t].pc = "transmit"] /\ UNCHANGED failed
    <3>1. call'[t].pc = "transmit" /\ call'[t].msg = call[t].msg
      BY <1>2, <2>2, CallMoves
    <3> QED
      BY <1>1, <1>3, <2>1, <2>2, <3>1 DEF Goes, Begun
  <2>3. CASE /\ call' = [call EXCEPT ![t] = IdleCall]
             /\ failed' = [failed EXCEPT ![S] = @ \cup {call[t].msg}]
    <3>1. call'[t].pc = "idle"
      BY <1>2, <2>3 DEF IdleCall
    <3> QED
      BY <1>1, <1>3, <2>1, <2>3, <3>1 DEF Returns
  <2> QED
    BY <2>1, <2>2, <2>3
<1> QED
  BY <1>1, <1>3, <1>4, <1>5, <1>6, <1>7, <1>8, <1>9, <1>10, <1>11 DEF Send, SendNumber

LEMMA SenderReceives ==
  ASSUME NEW S \in Endpoints, TypeInv, OneWay(S), Receive(S)
  PROVE  /\ UNCHANGED <<call, issued, confirmed, failed, handled, running>>
         /\ net'[Peer(S)] = net[Peer(S)] /\ rx'[Peer(S)] = rx[Peer(S)]
         /\ \/ UNCHANGED expected /\ rx'[S].pc # "none"
            \/ UNCHANGED expected /\ rx[S].pc = "match" /\ rx[S].sn = expected[S]
            \/ rx[S].pc = "none" /\ expected'[S] = None /\ rx'[S].pc # "none"
<1> USE Sides
<1>1. /\ rx \in [Endpoints -> Rx] /\ DOMAIN net = Endpoints
      /\ expected \in [Endpoints -> Nat \cup {-1, None}]
      /\ rx[S].pc \notin {"adopt", "ack", "callback"}
  BY DEF TypeInv, TypeOK, OneWay, Quiet
<1>2. RxTake(S) \/ RxQuit(S) \/ RxMatch(S) \/ RxNone(S) \/ RxSet(S)
  BY <1>1 DEF Receive, RxAdopt, RxAck, RxCallback
<1>3. /\ UNCHANGED <<call, issued, confirmed, failed, handled, running>>
      /\ net'[Peer(S)] = net[Peer(S)] /\ rx'[Peer(S)] = rx[Peer(S)]
  BY <1>1, <1>2 DEF RxTake, RxQuit, RxMatch, RxNone, RxSet, shared, netVars, results
<1>4. CASE RxTake(S)
  BY <1>1, <1>3, <1>4 DEF RxTake, shared
<1>5. CASE RxQuit(S) \/ RxSet(S)
  BY <1>1, <1>3, <1>5, RxMoves DEF RxQuit, RxSet, IdleRx, shared
<1>6. CASE RxMatch(S)
  BY <1>1, <1>3, <1>6 DEF RxMatch, IdleRx, shared
<1>7. CASE RxNone(S)
  BY <1>1, <1>3, <1>7, RxMoves DEF RxNone
<1> QED
  BY <1>2, <1>4, <1>5, <1>6, <1>7

LEMMA PeerReceives ==
  ASSUME NEW S \in Endpoints, TypeInv, OneWay(S), Receive(Peer(S))
  PROVE  LET P == Peer(S) IN
         /\ UNCHANGED <<call, issued, confirmed, failed, running, expected>>
         /\ rx'[S] = rx[S] /\ handled'[S] = handled[S]
         /\ \A d \in BagToSet(net'[P]) : d \in BagToSet(net[P])
         /\ rx'[P].pc \in {"adopt", "ack", "callback"} =>
              \/ rx[P].pc \in {"adopt", "ack", "callback"} /\ rx'[P].msg = rx[P].msg
              \/ \E d \in BagToSet(net[P]) : rx'[P].msg = d.msg
         /\ \A h \in handled'[P] : h \in handled[P] \/ (rx[P].pc = "callback" /\ h = rx[P].msg)
         /\ \/ Received(P)' = Received(P)
            \/ rx[P].pc = "ack" /\ Received(P)' = Received(P) \cup {rx[P].msg}
<1> DEFINE P == Peer(S)
<1>0. P \in Endpoints /\ P # S /\ Peer(P) = S
  BY Sides
<1>1. /\ rx \in [Endpoints -> Rx] /\ DOMAIN net = Endpoints
      /\ handled \in [Endpoints -> SUBSET Message]
      /\ rx[P].pc \notin {"match", "none", "set"}
  BY DEF TypeInv, TypeOK, OneWay, Quiet
<1>2. RxTake(P) \/ RxQuit(P) \/ RxAdopt(P) \/ RxAck(P) \/ RxCallback(P)
  BY <1>1 DEF Receive, RxMatch, RxNone, RxSet
<1>3. ASSUME RxCallback(P)
      PROVE  /\ rx[P].pc = "callback" /\ UNCHANGED <<call, issued, net>>
             /\ handled' = [handled EXCEPT ![P] = @ \cup {rx[P].msg}]
             /\ rx' = [rx EXCEPT ![P] = IdleRx]
  BY <1>3, NoReply
<1> HIDE DEF P
<1>4. /\ UNCHANGED <<call, issued, confirmed, failed, running, expected>>
      /\ rx'[S] = rx[S] /\ handled'[S] = handled[S]
  BY <1>0, <1>1, <1>2, <1>3 DEF RxTake, RxQuit, RxAdopt, RxAck, RxCallback, shared, results
<1>5. CASE RxTake(P)
  <2>1. PICK d \in BagToSet(net[P]) :
          /\ net' = [net EXCEPT ![P] = @ (-) SetToBag({d})]
          /\ rx' = [rx EXCEPT ![P] =
                     IF IsAck(d) THEN [pc |-> "match", sn |-> d.sn - SnMod, msg |-> None]
                                 ELSE [pc |-> "adopt", sn |-> d.sn, msg |-> d.msg]]
    BY <1>5 DEF RxTake
  <2>2. rx[P].pc # "callback" /\ UNCHANGED handled
    BY <1>5 DEF RxTake
  <2>3. \A x \in BagToSet(net'[P]) : x \in BagToSet(net[P])
    BY <1>0, <1>1, <2>1, TakeAddsNone
  <2>4. rx'[P].pc \in {"adopt", "match"} /\ (rx'[P].pc = "adopt" => rx'[P].msg = d.msg)
    BY <1>0, <1>1, <2>1
  <2>5. Received(P)' = Received(P)
    BY <2>2, <2>4 DEF Received
  <2> QED
    BY <1>4, <2>2, <2>3, <2>4, <2>5 DEF P
<1>6. CASE RxQuit(P) \/ RxAdopt(P)
  <2>1. /\ rx[P].pc \in {"recv", "adopt"} /\ UNCHANGED <<net, handled>>
        /\ rx'[P].pc \in {"dead", "ack"} /\ (rx'[P].pc = "ack" => rx[P].pc = "adopt")
        /\ rx'[P].msg = rx[P].msg
    BY <1>0, <1>1, <1>6, RxMoves DEF RxQuit, RxAdopt, netVars
  <2>2. Received(P)' = Received(P)
    BY <2>1 DEF Received
  <2> QED
    BY <1>4, <2>1, <2>2 DEF P
<1>7. CASE RxAck(P)
  <2>1. rx[P].pc = "ack" /\ UNCHANGED handled
    BY <1>7 DEF RxAck
  <2>2. /\ rx'[P].msg = rx[P].msg /\ rx'[P].pc \in {"callback", "dead"}
        /\ net'[P] = net[P]
    <3>1. CASE net' = NetAfterSend(S, Ack(rx[P].sn)) /\ rx' = [rx EXCEPT ![P].pc = "callback"]
      <4>1. net'[P] = net[P]
        BY <1>0, <1>1, <3>1, NetAdds
      <4> QED
        BY <1>0, <1>1, <3>1, <4>1, RxMoves
    <3>2. CASE UNCHANGED net /\ rx' = [rx EXCEPT ![P].pc = "dead"]
      BY <1>0, <1>1, <3>2, RxMoves
    <3> QED
      BY <1>0, <1>7, <3>1, <3>2 DEF RxAck
  <2>3. Received(P)' = Received(P) \/ Received(P)' = Received(P) \cup {rx[P].msg}
    BY <2>1, <2>2 DEF Received
  <2> QED
    BY <1>4, <2>1, <2>2, <2>3 DEF P
<1>8. CASE RxCallback(P)
  <2>1. /\ rx[P].pc = "callback" /\ UNCHANGED net /\ rx'[P].pc = "recv"
        /\ handled'[P] = handled[P] \cup {rx[P].msg}
    BY <1>0, <1>1, <1>3, <1>8 DEF IdleRx
  <2>2. Received(P)' = Received(P)
    BY <2>1 DEF Received
  <2> QED
    BY <1>4, <2>1, <2>2 DEF P
<1> QED
  BY <1>2, <1>5, <1>6, <1>7, <1>8
------------------------------------------------------------------------------
(* The promise is kept by each step.                                       *)

LEMMA SenderFacts ==
  ASSUME NEW S \in Endpoints, OneSided(S), TypeInv, OneWay(S)
  PROVE  /\ issued \in [Endpoints -> Nat] /\ issued[S] <= SnMod
         /\ call[<<S, "app">>].pc \in CallPcs
         /\ call[<<S, "app">>].pc # "idle" =>
              call[<<S, "app">>].msg.id = issued[S] /\ issued[S] \in 1..SnMod
         /\ \A m \in confirmed[S] : m.id \in 1..issued[S]
         /\ \A r \in Received(Peer(S)) : r.id \in 1..issued[S]
<1>1. /\ issued \in [Endpoints -> Nat] /\ issued[S] <= SnMod
      /\ call[<<S, "app">>].pc \in CallPcs
  BY ChannelAssumption, Sides
     DEF TypeInv, TypeOK, OneSided, OneWay, Numbered, AppCalls, Call
<1>2. call[<<S, "app">>].pc # "idle" =>
        call[<<S, "app">>].msg.id = issued[S] /\ issued[S] \in 1..SnMod
  BY <1>1 DEF OneWay, Numbered, SentBy
<1> QED
  BY <1>1, <1>2, ReceivedWasSent DEF OneWay, Numbered, SentBy

LEMMA AppSendPromised ==
  ASSUME NEW S \in Endpoints, OneSided(S), TypeInv, OneWay(S), OneWay(S)', Promised(S),
         NEW e \in Endpoints, NEW kind \in Kinds, AppSend(e, kind)
  PROVE  /\ e = S /\ Promised(S)'
         /\ call[<<S, "app">>].pc = "idle" /\ call'[<<S, "app">>].pc # "idle"
         /\ issued' = [issued EXCEPT ![S] = @ + 1]
         /\ \A u \in Threads : u # <<S, "app">> => call'[u] = call[u]
         /\ UNCHANGED <<rx, handled, confirmed, failed>>
<1> DEFINE t == <<S, "app">>
<1> USE Sides
<1>1. e = S
  BY DEF AppSend, OneSided, TypeInv, TypeOK
<1>2. /\ UNCHANGED <<running, expected, rx, net, confirmed, failed, handled>>
      /\ call[t].pc = "idle" /\ call' = [call EXCEPT ![t] = NewCall(t, kind)]
      /\ issued' = [issued EXCEPT ![S] = issued[S] + 1]
  BY <1>1 DEF AppSend, shared, netVars
<1>3. /\ issued[S] \in Nat /\ issued'[S] = issued[S] + 1 /\ call'[t].pc = "load"
      /\ \A u \in Threads : u # t => call'[u] = call[u]
  BY <1>2, SenderFacts DEF TypeInv, TypeOK, NewCall
<1> HIDE DEF t
<1>4. Transmitted(S)' = Transmitted(S)
  BY <1>2, <1>3 DEF Transmitted, t
<1>5. OnlyTransmitted(S)'
  BY <1>2, <1>4 DEF Promised, OnlyTransmitted
<1>6. OneOutcome(S)'
  BY <1>2, <1>3 DEF Promised, OneOutcome
<1>7. Expecting(S)'
  BY <1>2, <1>3 DEF Promised, Expecting, Last, Begun, t
<1>8. Arrived(S)' = Arrived(S)
  BY <1>2 DEF Arrived, Received
<1>9. Counted(S)'
  BY <1>2, <1>3, <1>8, CountGoesOn DEF Promised, Waiting, t
<1> QED
  BY <1>1, <1>2, <1>3, <1>5, <1>6, <1>7, <1>9 DEF Promised, t

LEMMA GoesPromised ==
  ASSUME NEW S \in Endpoints, OneSided(S), TypeInv, OneWay(S), OneWay(S)', Promised(S),
         UNCHANGED <<rx, handled, issued, running>>, call[<<S, "app">>].pc # "idle", Goes(S)
  PROVE  Promised(S)'
<1> DEFINE t == <<S, "app">>
<1> USE Sides
<1>1. /\ call'[t].pc # "idle" /\ call'[t].msg = call[t].msg
      /\ confirmed'[S] = confirmed[S] /\ failed'[S] = failed[S]
      /\ issued[S] \in Nat /\ issued'[S] = issued[S]
      /\ call[t].pc \in CallPcs
      /\ call[t].pc # "idle" /\ issued[S] \in 1..SnMod
  BY SenderFacts DEF Goes
<1>2. \/ expected'[S] = expected[S] /\ (call'[t].pc \in Begun <=> call[t].pc \in Begun)
      \/ call[t].pc = "expect" /\ call'[t].pc = "pack" /\ expected'[S] = Num(issued[S])
  BY DEF Goes, OneWay, Numbered
<1>3. /\ call[t].pc \in {"transmit", "wait", "clear"} =>
           call'[t].pc \in {"transmit", "wait", "clear"}
      /\ \A d \in BagToSet(net'[Peer(S)]) :
           \/ d \in BagToSet(net[Peer(S)])
           \/ running[S] /\ call'[t].pc = "wait" /\ d.msg = call[t].msg
  BY DEF Goes
<1> HIDE DEF t
<1>4. Transmitted(S) \subseteq Transmitted(S)'
  BY <1>1, <1>3 DEF Transmitted, t
<1>5. running[S] /\ call'[t].pc = "wait" => call[t].msg \in Transmitted(S)'
  BY <1>1 DEF Transmitted, t
<1>6. OnlyTransmitted(S)'
  BY <1>3, <1>4, <1>5 DEF Promised, OnlyTransmitted
<1>7. OneOutcome(S)'
  BY <1>1 DEF Promised, OneOutcome, t
<1>8. Expecting(S)'
  BY <1>1, <1>2 DEF Promised, Expecting, Last, Begun, t
<1>9. Arrived(S)' = Arrived(S)
  BY DEF Arrived, Received
<1>10. Num(issued[S]) # None
  BY <1>1, NumberFacts, NoneAssumption
<1>11. call'[t].pc \in Waiting => call'[t].pc \notin Begun
  BY DEF Waiting, Begun
<1>12. call[t].pc \notin Begun => call[t].pc \in Waiting
  BY <1>1 DEF Waiting, Begun, CallPcs
<1>13. expected'[S] = None /\ call'[t].pc \in Waiting => expected[S] = None /\ call[t].pc \in Waiting
  BY <1>2, <1>10, <1>11, <1>12
<1>14. Counted(S)'
  BY <1>1, <1>9, <1>13, CountGoesOn DEF Promised, t
<1> QED
  BY <1>6, <1>7, <1>8, <1>14 DEF Promised

LEMMA ReturnsPromised ==
  ASSUME NEW S \in Endpoints, OneSided(S), TypeInv, OneWay(S), OneWay(S)', Promised(S),
         UNCHANGED <<rx, handled, issued, running>>, call[<<S, "app">>].pc # "idle", Returns(S)
  PROVE  Promised(S)'
<1> DEFINE t == <<S, "app">>
           n == issued[S]
<1> USE Sides
<1>1. /\ n \in 1..SnMod /\ n \in Nat /\ issued'[S] = n /\ call[t].msg.id = n
      /\ call'[t].pc = "idle" /\ UNCHANGED <<net, expected>>
      /\ \A m \in confirmed[S] : m.id \in 1..n /\ m.id < n
      /\ \A f \in failed[S] : f.id \in 1..n /\ f.id < n
  BY SenderFacts DEF Returns, OneWay, Numbered, Promised, OneOutcome
<1>2. \/ /\ call[t].pc = "wait" /\ expected[S] = None
         /\ confirmed'[S] = confirmed[S] \cup {call[t].msg} /\ failed'[S] = failed[S]
      \/ /\ call[t].pc = "clear"
         /\ confirmed'[S] = confirmed[S] /\ failed'[S] = failed[S] \cup {call[t].msg}
      \/ /\ call[t].pc = "transmit" /\ ~running[S]
         /\ confirmed'[S] = confirmed[S] /\ failed'[S] = failed[S]
  BY DEF Returns, TypeInv, TypeOK
<1> HIDE DEF t, n
<1>3. Transmitted(S) \subseteq Transmitted(S)'
  BY <1>1, <1>2 DEF Transmitted, t
<1>4. OnlyTransmitted(S)'
  BY <1>1, <1>3 DEF Promised, OnlyTransmitted
<1>5. OneOutcome(S)'
  BY <1>1, <1>2 DEF Promised, OneOutcome, t, n
<1>6. Expecting(S)'
  BY <1>1, <1>2 DEF Promised, Expecting, Last, Begun, t, n
<1>7. Arrived(S)' = Arrived(S) /\ rx'[S] = rx[S]
  BY DEF Arrived, Received
<1>8. ASSUME confirmed'[S] = confirmed[S] PROVE Counted(S)'
  BY <1>1, <1>7, <1>8, CountGoesOn DEF Promised, Waiting, t, n
<1>9. ASSUME call[t].pc = "wait", expected[S] = None,
             confirmed'[S] = confirmed[S] \cup {call[t].msg}
      PROVE  Counted(S)'
  <2>1. Spare(S)
    BY <1>9 DEF Promised, Counted, Waiting, t
  <2>2. Successes(S)' = Successes(S) \cup {n}
    BY <1>1, <1>9 DEF Successes, Ids
  <2>3. Successes(S) \subseteq 1..(n - 1)
    BY <1>1 DEF Successes, Ids
  <2>4. Arrived(S) \subseteq 1..n
    BY IdRanges DEF OneWay, n
  <2>5. \A k \in Nat : Successes(S) \cup {n} \subseteq 1..k =>
          Cardinality(Successes(S) \cup {n}) <= Cardinality(Arrived(S) \cap (1..k))
    BY <1>1, <2>1, <2>3, <2>4, OneMore DEF Spare
  <2>6. rx'[S].pc # "none" /\ call'[t].pc \notin Waiting
    BY <1>1, <1>7, <1>9 DEF OneWay, Credited, Waiting
  <2> QED
    BY <1>7, <2>2, <2>5, <2>6 DEF Counted, t
<1> QED
  BY <1>2, <1>4, <1>5, <1>6, <1>8, <1>9 DEF Promised

LEMMA SendPromised ==
  ASSUME NEW S \in Endpoints, OneSided(S), TypeInv, OneWay(S), OneWay(S)', Promised(S),
         NEW t \in Threads, Send(t)
  PROVE  Promised(S)'
  BY SendDoes, GoesPromised, ReturnsPromised

LEMMA SenderReceivePromised ==
  ASSUME NEW S \in Endpoints, OneSided(S), TypeInv, OneWay(S), OneWay(S)', Promised(S), Receive(S)
  PROVE  Promised(S)'
<1> DEFINE t == <<S, "app">>
           n == issued[S]
<1> USE Sides
<1>1. /\ UNCHANGED <<call, issued, confirmed, failed, handled, running>>
      /\ net'[Peer(S)] = net[Peer(S)] /\ rx'[Peer(S)] = rx[Peer(S)]
  BY SenderReceives
<1>2. n \in Nat /\ n <= SnMod /\ issued'[S] \in Nat
  BY <1>1, SenderFacts
<1>3. Transmitted(S)' = Transmitted(S) /\ Arrived(S)' = Arrived(S)
  BY <1>1 DEF Transmitted, Arrived, Received
<1>4. OnlyTransmitted(S)' /\ OneOutcome(S)'
  BY <1>1, <1>3 DEF Promised, OnlyTransmitted, OneOutcome
<1>5. ASSUME rx[S].pc = "match", rx[S].sn = expected[S] PROVE Spare(S)
  <2>1. PICK r \in Received(Peer(S)) : expected[S] = Num(r.id)
    BY <1>5 DEF OneWay, Acked
  <2>2. r.id \in 1..n /\ r.id \in 1..SnMod /\ r.id \in Arrived(S)
    <3>1. r.id \in 1..n
      BY <2>1, SenderFacts
    <3>2. r.id \in Arrived(S)
      BY <2>1 DEF Arrived, Ids
    <3> QED
      BY <1>2, <3>1, <3>2, ChannelAssumption
  <2>3. Num(r.id) \in Nat /\ Num(r.id) # None
    BY <2>2, NumberFacts, NoneAssumption
  <2>4. Last(S) \in Nat /\ Last(S) <= n /\ (Last(S) # n => Last(S) = n - 1 /\ call[t].pc # "idle")
    BY <1>2, SenderFacts DEF Last, Begun
  <2>5. expected[S] = IF Last(S) = 0 THEN -1 ELSE Num(Last(S))
    BY <2>1, <2>3 DEF Promised, Expecting
  <2>6. r.id = Last(S)
    <3>1. Last(S) # 0 /\ Num(Last(S)) = Num(r.id)
      BY <2>1, <2>3, <2>5
    <3>2. Last(S) \in 1..SnMod
      BY <1>2, <2>4, <3>1, ChannelAssumption
    <3> QED
      BY <2>2, <3>1, <3>2, NumberFacts
  <2>7. ASSUME NEW m \in confirmed[S] PROVE m.id \in 1..(r.id - 1)
    <3>1. m.id \in 1..n /\ (call[t].pc # "idle" => m.id < n) /\ Num(m.id) # Num(r.id)
      BY <2>1 DEF OneWay, Numbered, Credited
    <3>2. m.id # r.id
      BY <3>1
    <3> HIDE DEF n
    <3> QED
      BY <1>2, <2>2, <2>4, <2>6, <3>1, <3>2
  <2>8. Successes(S) \subseteq 1..(r.id - 1)
    BY <2>7 DEF Successes, Ids
  <2>9. Arrived(S) \subseteq 1..n
    BY IdRanges DEF OneWay
  <2>10. \A k \in Nat : Successes(S) \subseteq 1..k =>
           Cardinality(Successes(S)) <= Cardinality(Arrived(S) \cap (1..k))
    BY DEF Promised, Counted
  <2> HIDE DEF n
  <2> QED
    BY <1>2, <2>2, <2>8, <2>9, <2>10, OneSpare DEF Spare
<1>6. Expecting(S)' /\ Counted(S)'
  <2>1. CASE UNCHANGED expected /\ rx'[S].pc # "none"
    <3>1. Expecting(S)'
      BY <1>1, <2>1 DEF Promised, Expecting, Last
    <3> QED
      BY <1>1, <1>2, <1>3, <2>1, <3>1, CountGoesOn DEF Promised
  <2>2. CASE UNCHANGED expected /\ rx[S].pc = "match" /\ rx[S].sn = expected[S]
    <3>1. Expecting(S)'
      BY <1>1, <2>2 DEF Promised, Expecting, Last
    <3> QED
      BY <1>1, <1>2, <1>3, <1>5, <2>2, <3>1, CountGoesOn DEF Promised
  <2>3. CASE rx[S].pc = "none" /\ expected'[S] = None /\ rx'[S].pc # "none"
    <3>1. Spare(S)
      BY <2>3 DEF Promised, Counted
    <3>2. Expecting(S)'
      BY <2>3 DEF Expecting
    <3> QED
      BY <1>1, <1>2, <1>3, <2>3, <3>1, <3>2, CountGoesOn DEF Promised
  <2> QED
    BY <2>1, <2>2, <2>3, SenderReceives
<1> QED
  BY <1>4, <1>6 DEF Promised

LEMMA PeerReceivePromised ==
  ASSUME NEW S \in Endpoints, OneSided(S), TypeInv, OneWay(S), OneWay(S)', Promised(S),
         Receive(Peer(S))
  PROVE  Promised(S)'
<1> USE Sides
<1>1. UNCHANGED <<call, issued, confirmed, failed, running, expected>> /\ rx'[S] = rx[S]
  BY PeerReceives
<1>2. Transmitted(S)' = Transmitted(S)
  BY <1>1 DEF Transmitted
<1>3. OnlyTransmitted(S)'
  BY <1>2, PeerReceives DEF Promised, OnlyTransmitted
<1>4. OneOutcome(S)' /\ Expecting(S)'
  BY <1>1 DEF Promised, OneOutcome, Expecting, Last
<1>5. Arrived(S) \subseteq Arrived(S)'
  <2>1. Received(Peer(S)) \subseteq Received(Peer(S))'
    BY PeerReceives
  <2> QED
    BY <2>1 DEF Arrived, Ids
<1>6. issued[S] \in Nat /\ issued'[S] \in Nat
  BY <1>1, SenderFacts
<1>7. Counted(S)'
  BY <1>1, <1>5, <1>6, CountGoesOn DEF Promised
<1> QED
  BY <1>3, <1>4, <1>7 DEF Promised

LEMMA OtherPromised ==
  ASSUME NEW S \in Endpoints, OneSided(S), TypeInv, OneWay(S), OneWay(S)', Promised(S),
         NEW e \in Endpoints, Stop(e) \/ Lose(e) \/ Duplicate(e)
  PROVE  Promised(S)'
<1> USE Sides
<1>1. /\ UNCHANGED <<expected, call, issued, confirmed, failed, handled>>
      /\ \A f \in Endpoints : rx'[f] = rx[f] \/ (rx[f].pc = "recv" /\ rx'[f].pc = "blocked")
      /\ \A f \in Endpoints : \A x \in BagToSet(net'[f]) : x \in BagToSet(net[f])
      /\ running'[S] = running[S] \/ call[<<S, "app">>].pc = "idle"
  BY OthersDo
<1>2. Transmitted(S)' = Transmitted(S) /\ Arrived(S)' = Arrived(S)
  BY <1>1 DEF Transmitted, Arrived, Received
<1>3. OnlyTransmitted(S)'
  BY <1>1, <1>2 DEF Promised, OnlyTransmitted
<1>4. OneOutcome(S)' /\ Expecting(S)'
  BY <1>1 DEF Promised, OneOutcome, Expecting, Last
<1>5. issued[S] \in Nat /\ issued'[S] \in Nat
  BY <1>1, SenderFacts
<1>6. Counted(S)'
  BY <1>1, <1>2, <1>5, CountGoesOn DEF Promised
<1> QED
  BY <1>3, <1>4, <1>6 DEF Promised

LEMMA InitPromised == ASSUME NEW S \in Endpoints, OneSided(S), Init PROVE Promised(S)
<1> USE Sides DEF Init
<1>1. \A e \in Endpoints : BagToSet(net[e]) = {}
  BY DEF BagToSet, EmptyBag, SetToBag
<1>2. OnlyTransmitted(S) /\ OneOutcome(S)
  BY <1>1 DEF OnlyTransmitted, OneOutcome, IdleRx
<1>3. Expecting(S)
  BY DEF Expecting, Last, IdleCall, Begun
<1>4. Successes(S) = {} /\ Cardinality({}) = 0
  BY FS_EmptySet DEF Successes, Ids
<1>5. Arrived(S) = {}
  BY DEF Arrived, Ids, Received, IdleRx
<1>6. \A k \in Nat : Cardinality(Successes(S)) <= Cardinality(Arrived(S) \cap (1..k))
  BY <1>4, <1>5
<1>7. rx[S].pc # "none" /\ call[<<S, "app">>].pc \notin Waiting
  BY DEF IdleRx, IdleCall, Waiting
<1>8. Counted(S)
  BY <1>6, <1>7 DEF Counted
<1> QED
  BY <1>2, <1>3, <1>8 DEF Promised

\* The inductive invariant of the outcomes.
THEOREM PromisedInvariance == \A S \in Endpoints : OneSided(S) /\ Spec => []Promised(S)
<1> SUFFICES ASSUME NEW S \in Endpoints, OneSided(S) PROVE Spec => []Promised(S)
  OBVIOUS
<1>1. Init => Promised(S)
  BY InitPromised
<1>2. TypeInv /\ OneWay(S) /\ OneWay(S)' /\ Promised(S) /\ [Next]_vars => Promised(S)'
  <2> SUFFICES ASSUME TypeInv, OneWay(S), OneWay(S)', Promised(S), [Next]_vars
               PROVE  Promised(S)'
    OBVIOUS
  <2>1. CASE UNCHANGED vars
    BY <2>1
       DEF vars, shared, netVars, results, Promised, OnlyTransmitted, Transmitted, OneOutcome,
           Expecting, Last, Counted, Successes, Spare, Arrived, Received
  <2>2. ASSUME NEW e \in Endpoints, Receive(e) PROVE Promised(S)'
    BY <2>2, Sides, SenderReceivePromised, PeerReceivePromised
  <2> QED
    BY <2>1, <2>2, AppSendPromised, SendPromised, OtherPromised DEF Next
<1>3. Spec => []TypeInv
  BY InitTypes, NextTypes, PTL DEF Spec
<1>4. Spec => []OneWay(S)
  BY OneWayInvariance
<1> QED
  BY <1>1, <1>2, <1>3, <1>4, PTL DEF Spec

\* Whatever UDP does and however the threads interleave: a send() of the only
\* side that sends, in a session that does not use a number twice, returns 0 for a
\* message the peer has, or on the late ACK of an older one of which it returned 1.
THEOREM ConfirmedOrOlder == \A S \in Endpoints : OneSided(S) /\ Spec => []ConfirmedOrOlderReceived
<1> SUFFICES ASSUME NEW S \in Endpoints, OneSided(S)
             PROVE Spec => []ConfirmedOrOlderReceived
  OBVIOUS
<1>1. TypeInv /\ OneWay(S) /\ Promised(S) => ConfirmedOrOlderReceived
  <2> SUFFICES ASSUME TypeInv, OneWay(S), Promised(S), NEW e \in Endpoints, NEW m \in confirmed[e]
               PROVE  \E r \in Received(Peer(e)) :
                        /\ r.from = e
                        /\ r = m \/ (r.id < m.id /\ r \in failed[e] \ confirmed[e])
    BY DEF ConfirmedOrOlderReceived
  <2>1. e = S
    BY Sides DEF OneWay, Quiet
  <2>2. PICK r \in Received(Peer(S)) : r.id <= m.id /\ (r = m \/ r \notin confirmed[S])
    BY <2>1 DEF OneWay, ConfirmedFrom
  <2>3. r.from = S
    BY <2>2, ReceivedWasSent DEF OneWay, SentBy
  <2>4. ASSUME r # m PROVE r.id < m.id /\ r \in failed[S]
    <3>1. r \in Transmitted(S)
      BY <2>2 DEF Promised, OnlyTransmitted, Received
    <3>2. /\ m.id \in 1..issued[S] /\ r.id \in 1..issued[S] /\ issued[S] \in Nat
          /\ call[<<S, "app">>].pc # "idle" =>
               m.id < issued[S] /\ call[<<S, "app">>].msg.id = issued[S]
      BY <2>1, <2>2, SenderFacts DEF OneWay, Numbered
    <3>3. r \in failed[S]
      BY <2>2, <2>4, <3>1, <3>2 DEF Transmitted
    <3>4. r.id # m.id
      BY <2>1, <3>3 DEF Promised, OneOutcome
    <3> QED
      BY <2>2, <3>2, <3>3, <3>4
  <2> QED
    BY <2>1, <2>2, <2>3, <2>4
<1>2. Spec => []TypeInv
  BY InitTypes, NextTypes, PTL DEF Spec
<1>3. Spec => []OneWay(S)
  BY OneWayInvariance
<1>4. Spec => []Promised(S)
  BY PromisedInvariance
<1> QED
  BY <1>1, <1>2, <1>3, <1>4, PTL
------------------------------------------------------------------------------
(* The abstract channel *)

Sending == {e \in Endpoints : call[<<e, "app">>].pc # "idle"}
ConfirmedIds == [e \in Endpoints |-> Ids(confirmed[e])]
FailedIds == [e \in Endpoints |-> Ids(failed[e])]
ReceivedIds == [e \in Endpoints |-> Ids(Received(Peer(e)))]

LEMMA NothingReceived ==
  ASSUME UNCHANGED handled,
         \A f \in Endpoints : \/ rx'[f] = rx[f]
                              \/ rx[f].pc # "callback" /\ rx'[f].pc # "callback"
  PROVE  UNCHANGED ReceivedIds
<1>1. \A e \in Endpoints : Peer(e) \in Endpoints
  BY Sides
<1>2. \A e \in Endpoints : Received(Peer(e))' = Received(Peer(e))
  BY <1>1 DEF Received
<1> QED
  BY <1>2 DEF ReceivedIds

LEMMA SendKeeps ==
  ASSUME NEW S \in Endpoints, OneSided(S), TypeInv, OneWay(S), Promised(S),
         NEW t \in Threads, Send(t)
  PROVE  [Promise!Next]_Promise!vars
<1> USE Sides
<1>1. /\ t = <<S, "app">> /\ call[t].pc # "idle" /\ UNCHANGED <<rx, handled, issued, running>>
      /\ \A u \in Threads : u # t => call'[u] = call[u]
      /\ Goes(S) \/ Returns(S)
  BY SendDoes
<1>2. UNCHANGED ReceivedIds
  BY <1>1, NothingReceived
<1>3. \A e \in Endpoints : e # S => <<e, "app">> \in Threads /\ <<e, "app">> # t
  BY <1>1, ThreadParts
<1>4. CASE Goes(S)
  <2>1. UNCHANGED Sending
    BY <1>1, <1>3, <1>4 DEF Goes, Sending
  <2>2. UNCHANGED <<ConfirmedIds, FailedIds>>
    BY <1>4 DEF Goes, ConfirmedIds, FailedIds
  <2> QED
    BY <1>1, <1>2, <2>1, <2>2
       DEF Promise!vars, Sending, ConfirmedIds, FailedIds, ReceivedIds
<1>5. CASE Returns(S)
  <2>1. S \in Sending /\ Sending' = Sending \ {S}
    BY <1>1, <1>3, <1>5 DEF Returns, Sending
  <2>2. /\ call[t].msg.id = issued[S] /\ confirmed \in [Endpoints -> SUBSET Message]
        /\ failed \in [Endpoints -> SUBSET Message]
    BY <1>1, SenderFacts DEF TypeInv, TypeOK
  <2>3. CASE /\ call[t].pc = "wait" /\ expected[S] = None
             /\ confirmed' = [confirmed EXCEPT ![S] = @ \cup {call[t].msg}]
             /\ UNCHANGED failed
    <3>1. ConfirmedIds' = [ConfirmedIds EXCEPT ![S] = @ \cup {issued[S]}]
      <4>1. /\ confirmed'[S] = confirmed[S] \cup {call[t].msg}
            /\ \A e \in Endpoints : e # S => confirmed'[e] = confirmed[e]
        BY <2>2, <2>3
      <4>2. Ids(confirmed'[S]) = Ids(confirmed[S]) \cup {issued[S]}
        BY <2>2, <4>1 DEF Ids
      <4> QED
        BY <4>1, <4>2 DEF ConfirmedIds, Ids
    <3>2. Cardinality(ConfirmedIds[S]) < Cardinality(ReceivedIds[S])
      BY <1>1, <2>3
         DEF Promised, Counted, Waiting, Spare, Successes, Arrived, ConfirmedIds,
             ReceivedIds
    <3>3. UNCHANGED FailedIds
      BY <2>3 DEF FailedIds
    <3>4. \A A : Promise!Cardinality(A) = Cardinality(A)
      BY DEF Promise!Cardinality, Cardinality
    <3>5. Promise!Confirm(S)
      BY <1>1, <1>2, <2>1, <3>1, <3>2, <3>3, <3>4
         DEF Promise!Confirm, Sending, ConfirmedIds, FailedIds, ReceivedIds
    <3> QED
      BY <3>5 DEF Promise!Next
  <2>4. CASE /\ call[t].pc = "clear"
             /\ failed' = [failed EXCEPT ![S] = @ \cup {call[t].msg}]
             /\ UNCHANGED confirmed
    <3>1. FailedIds' = [FailedIds EXCEPT ![S] = @ \cup {issued[S]}]
      <4>1. /\ failed'[S] = failed[S] \cup {call[t].msg}
            /\ \A e \in Endpoints : e # S => failed'[e] = failed[e]
        BY <2>2, <2>4
      <4>2. Ids(failed'[S]) = Ids(failed[S]) \cup {issued[S]}
        BY <2>2, <4>1 DEF Ids
      <4> QED
        BY <4>1, <4>2 DEF FailedIds, Ids
    <3>2. UNCHANGED ConfirmedIds
      BY <2>4 DEF ConfirmedIds
    <3>3. Promise!Fail(S)
      BY <1>1, <1>2, <2>1, <3>1, <3>2
         DEF Promise!Fail, Sending, ConfirmedIds, FailedIds, ReceivedIds
    <3> QED
      BY <3>3 DEF Promise!Next
  <2>5. CASE /\ call[t].pc = "transmit" /\ ~running[S]
             /\ UNCHANGED <<confirmed, failed>>
    <3>1. \A r \in Received(Peer(S)) : r \in confirmed[S] \cup failed[S]
      BY <1>1, <2>5 DEF Promised, OnlyTransmitted, Transmitted, Received
    <3>2. \A m \in confirmed[S] \cup failed[S] : m.id # issued[S]
      BY <1>1, SenderFacts DEF OneWay, Numbered, Promised, OneOutcome
    <3>3. issued[S] \notin ReceivedIds[S]
      BY <3>1, <3>2 DEF ReceivedIds, Ids
    <3>4. UNCHANGED <<ConfirmedIds, FailedIds>>
      BY <2>5 DEF ConfirmedIds, FailedIds
    <3>5. Promise!Raise(S)
      BY <1>1, <1>2, <2>1, <3>3, <3>4
         DEF Promise!Raise, Sending, ConfirmedIds, FailedIds, ReceivedIds
    <3> QED
      BY <3>5 DEF Promise!Next
  <2> QED
    BY <1>1, <1>5, <2>3, <2>4, <2>5 DEF Returns
<1> QED
  BY <1>1, <1>4, <1>5

LEMMA AppSendKeeps ==
  ASSUME NEW S \in Endpoints, OneSided(S), TypeInv, OneWay(S), OneWay(S)', Promised(S),
         NEW e \in Endpoints, NEW kind \in Kinds, AppSend(e, kind)
  PROVE  [Promise!Next]_Promise!vars
<1> USE Sides
<1>1. /\ call[<<S, "app">>].pc = "idle" /\ call'[<<S, "app">>].pc # "idle"
      /\ issued' = [issued EXCEPT ![S] = @ + 1]
      /\ \A u \in Threads : u # <<S, "app">> => call'[u] = call[u]
      /\ UNCHANGED <<rx, handled, confirmed, failed>>
  BY AppSendPromised
<1>2. \A f \in Endpoints : f # S => <<f, "app">> \in Threads /\ <<f, "app">> # <<S, "app">>
  BY ThreadParts
<1>3. S \notin Sending /\ Sending' = Sending \cup {S}
  BY <1>1, <1>2 DEF Sending
<1>4. UNCHANGED <<ConfirmedIds, FailedIds, ReceivedIds>>
  BY <1>1, NothingReceived DEF ConfirmedIds, FailedIds
<1>5. Promise!Begin(S)
  BY <1>1, <1>3, <1>4 DEF Promise!Begin, Sending, ConfirmedIds, FailedIds, ReceivedIds
<1> QED
  BY <1>5 DEF Promise!Next

LEMMA SenderReceiveKeeps ==
  ASSUME NEW S \in Endpoints, TypeInv, OneWay(S), OneWay(S)', Receive(S)
  PROVE  [Promise!Next]_Promise!vars
<1> USE Sides
<1>1. /\ UNCHANGED <<call, issued, confirmed, failed, handled>>
      /\ rx'[Peer(S)] = rx[Peer(S)]
      /\ rx[S].pc # "callback" /\ rx'[S].pc # "callback"
  BY SenderReceives DEF OneWay, Quiet
<1>2. UNCHANGED ReceivedIds
  BY <1>1, NothingReceived
<1> QED
  BY <1>1, <1>2 DEF Promise!vars, ReceivedIds

LEMMA PeerReceiveKeeps ==
  ASSUME NEW S \in Endpoints, OneSided(S), TypeInv, OneWay(S), Promised(S), Receive(Peer(S))
  PROVE  [Promise!Next]_Promise!vars
<1> DEFINE P == Peer(S)
<1> USE Sides
<1>1. /\ UNCHANGED <<call, issued, confirmed, failed>>
      /\ rx'[S] = rx[S] /\ handled'[S] = handled[S]
      /\ \/ Received(P)' = Received(P)
         \/ rx[P].pc = "ack" /\ Received(P)' = Received(P) \cup {rx[P].msg}
  BY PeerReceives
<1>2. \A e \in Endpoints : e # S => Peer(e) = S
  OBVIOUS
<1>3. Received(S)' = Received(S)
  BY <1>1 DEF Received
<1>4. UNCHANGED <<Sending, ConfirmedIds, FailedIds>>
  BY <1>1 DEF Sending, ConfirmedIds, FailedIds
<1>5. CASE Received(P)' = Received(P)
  <2>1. UNCHANGED ReceivedIds
    BY <1>2, <1>3, <1>5 DEF ReceivedIds
  <2> QED
    BY <1>1, <1>4, <2>1 DEF Promise!vars, Sending, ConfirmedIds, FailedIds, ReceivedIds
<1>6. CASE rx[P].pc = "ack" /\ Received(P)' = Received(P) \cup {rx[P].msg}
  <2> DEFINE n == rx[P].msg.id
  <2>1. ReceivedIds' = [ReceivedIds EXCEPT ![S] = @ \cup {n}]
    <3>1. Ids(Received(P))' = Ids(Received(P)) \cup {n}
      BY <1>6 DEF Ids
    <3> QED
      BY <1>2, <1>3, <3>1 DEF ReceivedIds
  <2>2. rx[P].msg \in Transmitted(S) /\ n \in 1..issued[S]
    BY <1>6 DEF Promised, OnlyTransmitted, OneWay, Underway, SentBy
  <2>3. n \in ConfirmedIds[S] \cup FailedIds[S] \/ (S \in Sending /\ n = issued[S])
    BY <2>2, SenderFacts DEF Transmitted, ConfirmedIds, FailedIds, Ids, Sending
  <2> HIDE DEF n
  <2>4. Promise!Arrive(S, n)
    BY <1>1, <1>4, <2>1, <2>3
       DEF Promise!Arrive, Sending, ConfirmedIds, FailedIds, ReceivedIds
  <2> QED
    BY <2>2, <2>4 DEF Promise!Next
<1> QED
  BY <1>1, <1>5, <1>6

LEMMA OtherKeeps ==
  ASSUME TypeInv, NEW e \in Endpoints, Stop(e) \/ Lose(e) \/ Duplicate(e)
  PROVE  UNCHANGED Promise!vars
<1>1. /\ UNCHANGED <<call, issued, confirmed, failed, handled>>
      /\ \A f \in Endpoints : rx'[f] = rx[f] \/ (rx[f].pc = "recv" /\ rx'[f].pc = "blocked")
  BY OthersDo
<1>2. UNCHANGED ReceivedIds
  BY <1>1, NothingReceived
<1> QED
  BY <1>1, <1>2 DEF Promise!vars, ReceivedIds

\* On a channel with one side that sends, and in a session that does not use a
\* number twice, the statements of the two udp_with_ack objects, of stop() and of
\* UDP are steps of CommandChannel or leave it unchanged.
THEOREM ImplementsCommandChannel == \A S \in Endpoints : OneSided(S) /\ Spec => KeepsPromise
<1> SUFFICES ASSUME NEW S \in Endpoints, OneSided(S) PROVE Spec => KeepsPromise
  OBVIOUS
<1>1. Init => Promise!Init
  <2> SUFFICES ASSUME Init PROVE Promise!Init
    OBVIOUS
  <2>1. \A e \in Endpoints : /\ Ids(confirmed[e]) = {} /\ Ids(failed[e]) = {}
                             /\ Ids(Received(Peer(e))) = {}
                             /\ call[<<e, "app">>].pc = "idle"
    BY Sides DEF Init, Ids, Received, IdleRx, IdleCall
  <2> QED
    BY <2>1 DEF Init, Promise!Init
<1>2. TypeInv /\ OneWay(S) /\ OneWay(S)' /\ Promised(S) /\ [Next]_vars
        => [Promise!Next]_Promise!vars
  <2> SUFFICES ASSUME TypeInv, OneWay(S), OneWay(S)', Promised(S), [Next]_vars
               PROVE  [Promise!Next]_Promise!vars
    OBVIOUS
  <2>1. CASE UNCHANGED vars
    <3>1. UNCHANGED <<call, issued, confirmed, failed, handled, rx>>
      BY <2>1 DEF vars, results
    <3>2. UNCHANGED ReceivedIds
      BY <3>1, NothingReceived
    <3> QED
      BY <3>1, <3>2 DEF Promise!vars, ReceivedIds
  <2>2. ASSUME NEW e \in Endpoints, Receive(e) PROVE [Promise!Next]_Promise!vars
    BY <2>2, Sides, SenderReceiveKeeps, PeerReceiveKeeps
  <2> QED
    BY <2>1, <2>2, AppSendKeeps, SendKeeps, OtherKeeps DEF Next
<1>3. Spec => []TypeInv
  BY InitTypes, NextTypes, PTL DEF Spec
<1>4. Spec => []OneWay(S)
  BY OneWayInvariance
<1>5. Spec => []Promised(S)
  BY PromisedInvariance
<1> QED
  BY <1>1, <1>2, <1>3, <1>4, <1>5, PTL DEF Spec, KeepsPromise, Promise!Spec
==============================================================================
