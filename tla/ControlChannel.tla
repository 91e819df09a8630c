---------------------------- MODULE ControlChannel ----------------------------
(***************************************************************************)
(* The acknowledged control channel between RTASP_receiver (the server)    *)
(* and RTASP_sender (the device): two udp_with_ack objects, or a           *)
(* udp_with_ack and a udp_with_ack_uart, joined by UDP.                    *)
(*                                                                         *)
(* Each endpoint has two threads.  The application thread calls send();    *)
(* the receive thread takes datagrams, acknowledges them and runs the      *)
(* callback, and the device's callback answers DISCOVER by calling send()  *)
(* itself (send_info), so that send() may run in both threads at once.     *)
(* self.sn, self.expected_ack_sn and the event self.ack_received are       *)
(* shared by the two threads without a lock; a step is one access to them  *)
(* (an assignment that reads self.sn is a load and a store, between which  *)
(* the other thread may run).  UDP may lose, duplicate and reorder datagrams, and a     *)
(* wait may time out at any moment.                                        *)
(***************************************************************************)
EXTENDS Integers, FiniteSets, Bags

CONSTANTS
  Server, Device,  \* the two endpoints
  None,            \* Python's None, and "no message"
  SnMod,           \* sequence numbers are taken modulo SnMod (32768)
  MaxRetries,      \* max_retries: transmissions per send()
  UartDevice,      \* does the device run udp_with_ack_uart?
  Stoppable,       \* the endpoints whose application may call stop()
  ServerKinds, DeviceKinds,  \* what each application sends ...
  ServerCalls, DeviceCalls,  \* ... and, a bound, how often
  LossBudget,      \* bound: datagrams UDP loses
  DupBudget        \* bound: datagrams UDP duplicates

Endpoints == {Server, Device}
Kinds == {"DISCOVER", "SENSOR_INFO", "COMMAND"}

ASSUME ChannelAssumption ==
  /\ Server # Device
  /\ SnMod \in Nat \ {0}
  /\ MaxRetries \in Nat \ {0}
  /\ UartDevice \in BOOLEAN
  /\ Stoppable \subseteq Endpoints \ (IF UartDevice THEN {Device} ELSE {})
  /\ ServerKinds \subseteq Kinds /\ DeviceKinds \subseteq Kinds
  /\ ServerCalls \in Nat /\ DeviceCalls \in Nat
  /\ LossBudget \in Nat /\ DupBudget \in Nat

ASSUME NoneAssumption == None \notin Int

Peer(e) == IF e = Server THEN Device ELSE Server
AppKinds(e) == IF e = Server THEN ServerKinds ELSE DeviceKinds
AppCalls(e) == IF e = Server THEN ServerCalls ELSE DeviceCalls

\* The threads in which send() runs.
Threads == Endpoints \X {"app", "rx"}

\* A message is identified by the call of send() that carries it.
Message == [from : Endpoints, by : {"app", "rx"}, id : Nat, kind : Kinds]

\* A datagram: the 16-bit number field and, unless it is an ACK, a message.
\* An ACK carries the acknowledged number plus SnMod.
Datagram == [sn : Nat, msg : Message \cup {None}]
Ack(sn) == [sn |-> sn + SnMod, msg |-> None]
IsAck(d) == d.sn > SnMod - 1

VARIABLES
  sn,           \* self.sn: last number sent OR received
  expected,     \* self.expected_ack_sn
  ackReceived,  \* self.ack_received, a threading.Event
  running,      \* self.running; when FALSE the socket is closed
  call,         \* per thread, the activation of send()
  rx,           \* per endpoint, the activation of _receive_message()
  net,          \* per endpoint, the bag of datagrams on their way to it
  lost, duplicated,  \* how much of the budgets is used
  issued,       \* per endpoint, the number of calls of send() begun
  confirmed,    \* per endpoint, the messages whose send() returned 0
  failed,       \* per endpoint, the messages whose send() returned 1
  handled       \* per endpoint, the messages given to the callback

shared == <<sn, expected, ackReceived>>
netVars == <<net, lost, duplicated>>
results == <<issued, confirmed, failed>>
vars == <<shared, running, call, rx, netVars, results, handled>>

IdleCall == [pc |-> "idle", msg |-> None, sn |-> 0, tries |-> 0]
IdleRx == [pc |-> "recv", sn |-> 0, msg |-> None]

Init ==
  /\ sn = [e \in Endpoints |-> 0]
  /\ expected = [e \in Endpoints |-> -1]
  /\ ackReceived = [e \in Endpoints |-> FALSE]
  /\ running = [e \in Endpoints |-> TRUE]
  /\ call = [t \in Threads |-> IdleCall]
  /\ rx = [e \in Endpoints |-> IdleRx]
  /\ net = [e \in Endpoints |-> EmptyBag]
  /\ lost = 0
  /\ duplicated = 0
  /\ issued = [e \in Endpoints |-> 0]
  /\ confirmed = [e \in Endpoints |-> {}]
  /\ failed = [e \in Endpoints |-> {}]
  /\ handled = [e \in Endpoints |-> {}]

\* A datagram d sent to e.
NetAfterSend(e, d) == [net EXCEPT ![e] = @ (+) SetToBag({d})]

\* The frame of a call of send() with a new message.
NewCall(t, kind) ==
  [pc |-> "load", sn |-> 0, tries |-> 0,
   msg |-> [from |-> t[1], by |-> t[2], id |-> issued[t[1]] + 1, kind |-> kind]]

\* send() is over in thread t; a receive thread goes on with its loop.
ReturnFrom(t, rxPc) ==
  /\ call' = [call EXCEPT ![t] = IdleCall]
  /\ rx' = IF t[2] = "rx" THEN [rx EXCEPT ![t[1]] = [IdleRx EXCEPT !.pc = rxPc]]
                          ELSE rx
------------------------------------------------------------------------------
(* send(), statement by statement, in thread t *)

\* An application calls send() while it is not inside another call.
AppSend(e, kind) ==
  LET t == <<e, "app">> IN
  /\ call[t].pc = "idle"
  /\ issued[e] < AppCalls(e)
  /\ kind \in AppKinds(e)
  /\ call' = [call EXCEPT ![t] = NewCall(t, kind)]
  /\ issued' = [issued EXCEPT ![e] = @ + 1]
  /\ UNCHANGED <<shared, running, rx, netVars, confirmed, failed, handled>>

\* Thread t loads self.sn, at the statement from.
Load(t, from, to) ==
  /\ call[t].pc = from
  /\ call' = [call EXCEPT ![t].pc = to, ![t].sn = sn[t[1]]]
  /\ UNCHANGED <<shared, running, rx, netVars, results, handled>>

\* It stores what it has computed from the value loaded.
Store(t, from, to, value) ==
  /\ call[t].pc = from
  /\ sn' = [sn EXCEPT ![t[1]] = value]
  /\ call' = [call EXCEPT ![t].pc = to]
  /\ UNCHANGED <<expected, ackReceived, running, rx, netVars, results, handled>>

\* self.sn += 1, then self.sn %= 32768.
SendLoad(t) == Load(t, "load", "store")
SendStore(t) == Store(t, "store", "loadWrap", call[t].sn + 1)
SendLoadWrap(t) == Load(t, "loadWrap", "storeWrap")
SendStoreWrap(t) == Store(t, "storeWrap", "loadExpect", call[t].sn % SnMod)

\* self.expected_ack_sn = self.sn
SendLoadExpect(t) == Load(t, "loadExpect", "expect")
SendExpect(t) ==
  /\ call[t].pc = "expect"
  /\ expected' = [expected EXCEPT ![t[1]] = call[t].sn]
  /\ call' = [call EXCEPT ![t].pc = "pack"]
  /\ UNCHANGED <<sn, ackReceived, running, rx, netVars, results, handled>>

\* The packet is built from self.sn, read again.
SendPack(t) == Load(t, "pack", "transmit")

SendNumber(t) ==
  \/ SendLoad(t) \/ SendStore(t) \/ SendLoadWrap(t) \/ SendStoreWrap(t)
  \/ SendLoadExpect(t) \/ SendExpect(t) \/ SendPack(t)

\* sendto; on a socket that stop() has closed it raises out of send().
SendTransmit(t) ==
  /\ call[t].pc = "transmit"
  /\ IF running[t[1]]
       THEN /\ net' = NetAfterSend(Peer(t[1]), [sn |-> call[t].sn, msg |-> call[t].msg])
            /\ call' = [call EXCEPT ![t].pc = "wait", ![t].tries = @ + 1]
            /\ UNCHANGED rx
       ELSE /\ ReturnFrom(t, "dead")
            /\ UNCHANGED net
  /\ UNCHANGED <<shared, running, lost, duplicated, results, handled>>

\* Mutant: only the event is tested.
AckSeenByEvent(e) == ackReceived[e]

AckSeen(e) == ackReceived[e] /\ expected[e] = None

\* wait() has returned and the test succeeds.  Only the UART class clears the
\* event here.
SendAcked(t) ==
  /\ call[t].pc = "wait"
  /\ AckSeen(t[1])
  /\ confirmed' = [confirmed EXCEPT ![t[1]] = @ \cup {call[t].msg}]
  /\ ackReceived' = IF UartDevice /\ t[1] = Device
                      THEN [ackReceived EXCEPT ![t[1]] = FALSE]
                      ELSE ackReceived
  /\ ReturnFrom(t, "recv")
  /\ UNCHANGED <<sn, expected, running, netVars, issued, failed, handled>>

\* Mutant: wait() without a timeout.
SendNotAckedUntilSet(t) ==
  /\ call[t].pc = "wait"
  /\ ackReceived[t[1]] /\ ~AckSeen(t[1])
  /\ call' = [call EXCEPT ![t].pc = "clear"]
  /\ UNCHANGED <<shared, running, rx, netVars, results, handled>>

\* wait() has timed out, or has returned for an event that is not the one
\* expected.
SendNotAcked(t) ==
  /\ call[t].pc = "wait"
  /\ ~AckSeen(t[1])
  /\ call' = [call EXCEPT ![t].pc = "clear"]
  /\ UNCHANGED <<shared, running, rx, netVars, results, handled>>

\* The event is cleared; the loop goes round, or after limit transmissions
\* send() returns 1.
ClearUpTo(t, limit) ==
  /\ call[t].pc = "clear"
  /\ ackReceived' = [ackReceived EXCEPT ![t[1]] = FALSE]
  /\ IF call[t].tries < limit
       THEN /\ call' = [call EXCEPT ![t].pc = "transmit"]
            /\ UNCHANGED <<rx, failed>>
       ELSE /\ ReturnFrom(t, "recv")
            /\ failed' = [failed EXCEPT ![t[1]] = @ \cup {call[t].msg}]
  /\ UNCHANGED <<sn, expected, running, netVars, issued, confirmed, handled>>

\* Mutants: one transmission too many, and no retransmission.
SendClearOnceMore(t) == ClearUpTo(t, MaxRetries + 1)
SendClearAtOnce(t) == ClearUpTo(t, 1)

SendClear(t) == ClearUpTo(t, MaxRetries)

Send(t) ==
  \/ SendNumber(t) \/ SendTransmit(t)
  \/ SendAcked(t) \/ SendNotAcked(t) \/ SendClear(t)
------------------------------------------------------------------------------
(* _receive_message(), statement by statement *)

\* The loop test and recvfrom, which stop() may have overtaken.
RxTake(e) ==
  /\ \/ rx[e].pc = "recv" /\ running[e]
     \/ rx[e].pc = "blocked"
  /\ \E d \in BagToSet(net[e]) :
       /\ net' = [net EXCEPT ![e] = @ (-) SetToBag({d})]
       /\ rx' = [rx EXCEPT ![e] =
                   IF IsAck(d) THEN [pc |-> "match", sn |-> d.sn - SnMod, msg |-> None]
                               ELSE [pc |-> "adopt", sn |-> d.sn, msg |-> d.msg]]
  /\ UNCHANGED <<shared, running, call, lost, duplicated, results, handled>>

\* The loop test, or recvfrom on a closed socket: the thread ends.
RxQuit(e) ==
  /\ rx[e].pc = "recv"
  /\ ~running[e]
  /\ rx' = [rx EXCEPT ![e].pc = "dead"]
  /\ UNCHANGED <<shared, running, call, netVars, results, handled>>

\* Mutant: any ACK will do.
RxMatchAny(e) ==
  /\ rx[e].pc = "match"
  /\ rx' = [rx EXCEPT ![e].pc = "none"]
  /\ UNCHANGED <<shared, running, call, netVars, results, handled>>

RxMatch(e) ==
  /\ rx[e].pc = "match"
  /\ rx' = [rx EXCEPT ![e] = IF rx[e].sn = expected[e] THEN [@ EXCEPT !.pc = "none"]
                                                       ELSE IdleRx]
  /\ UNCHANGED <<shared, running, call, netVars, results, handled>>

RxNone(e) ==
  /\ rx[e].pc = "none"
  /\ expected' = [expected EXCEPT ![e] = None]
  /\ rx' = [rx EXCEPT ![e].pc = "set"]
  /\ UNCHANGED <<sn, ackReceived, running, call, netVars, results, handled>>

RxSet(e) ==
  /\ rx[e].pc = "set"
  /\ ackReceived' = [ackReceived EXCEPT ![e] = TRUE]
  /\ rx' = [rx EXCEPT ![e] = IdleRx]
  /\ UNCHANGED <<sn, expected, running, call, netVars, results, handled>>

\* An old number is only reported; self.sn takes whatever number has come.
RxAdopt(e) ==
  /\ rx[e].pc = "adopt"
  /\ sn' = [sn EXCEPT ![e] = rx[e].sn]
  /\ rx' = [rx EXCEPT ![e].pc = "ack"]
  /\ UNCHANGED <<expected, ackReceived, running, call, netVars, results, handled>>

RxAck(e) ==
  /\ rx[e].pc = "ack"
  /\ IF running[e]
       THEN /\ net' = NetAfterSend(Peer(e), Ack(rx[e].sn))
            /\ rx' = [rx EXCEPT ![e].pc = "callback"]
       ELSE /\ rx' = [rx EXCEPT ![e].pc = "dead"]
            /\ UNCHANGED net
  /\ UNCHANGED <<shared, running, call, lost, duplicated, results, handled>>

\* The callback runs in this thread.  The device answers DISCOVER with a call
\* of send(), and the thread is inside it until it returns.
RxCallback(e) ==
  /\ rx[e].pc = "callback"
  /\ handled' = [handled EXCEPT ![e] = @ \cup {rx[e].msg}]
  /\ IF e = Device /\ rx[e].msg.kind = "DISCOVER"
       THEN LET t == <<e, "rx">> IN
            /\ call' = [call EXCEPT ![t] = NewCall(t, "SENSOR_INFO")]
            /\ issued' = [issued EXCEPT ![e] = @ + 1]
            /\ rx' = [rx EXCEPT ![e].pc = "reply"]
       ELSE /\ rx' = [rx EXCEPT ![e] = IdleRx]
            /\ UNCHANGED <<call, issued>>
  /\ UNCHANGED <<shared, running, netVars, confirmed, failed>>

Receive(e) ==
  \/ RxTake(e) \/ RxQuit(e) \/ RxMatch(e) \/ RxNone(e) \/ RxSet(e)
  \/ RxAdopt(e) \/ RxAck(e) \/ RxCallback(e)

\* stop(): the flag is cleared and the socket closed.  A thread that is already
\* blocked in recvfrom is not woken: it may still get one datagram.
Stop(e) ==
  /\ e \in Stoppable
  /\ running[e]
  /\ call[<<e, "app">>].pc = "idle"
  /\ running' = [running EXCEPT ![e] = FALSE]
  /\ \/ UNCHANGED rx
     \/ rx[e].pc = "recv" /\ rx' = [rx EXCEPT ![e].pc = "blocked"]
  /\ UNCHANGED <<shared, call, netVars, results, handled>>
------------------------------------------------------------------------------
(* UDP *)

Lose(e) ==
  /\ lost < LossBudget
  /\ lost' = lost + 1
  /\ \E d \in BagToSet(net[e]) : net' = [net EXCEPT ![e] = @ (-) SetToBag({d})]
  /\ UNCHANGED <<shared, running, call, rx, duplicated, results, handled>>

Duplicate(e) ==
  /\ duplicated < DupBudget
  /\ duplicated' = duplicated + 1
  /\ \E d \in BagToSet(net[e]) : net' = NetAfterSend(e, d)
  /\ UNCHANGED <<shared, running, call, rx, lost, results, handled>>
------------------------------------------------------------------------------
Next ==
  \/ \E e \in Endpoints, kind \in Kinds : AppSend(e, kind)
  \/ \E t \in Threads : Send(t)
  \/ \E e \in Endpoints : Receive(e) \/ Stop(e) \/ Lose(e) \/ Duplicate(e)

Spec == Init /\ [][Next]_vars

\* A thread that can take its next step eventually takes it: runnable threads
\* are scheduled, a wait with a timeout ends, and recvfrom returns when a
\* datagram has arrived.  Applications and UDP owe nothing.
Fairness ==
  /\ \A t \in Threads : WF_vars(Send(t))
  /\ \A e \in Endpoints : WF_vars(Receive(e))

FairSpec == Spec /\ Fairness
------------------------------------------------------------------------------
(* Properties *)

CallPcs == {"idle", "load", "store", "loadWrap", "storeWrap", "loadExpect", "expect",
            "pack", "transmit", "wait", "clear"}
RxPcs == {"recv", "blocked", "match", "none", "set", "adopt", "ack", "callback",
          "reply", "dead"}

Call == [pc : CallPcs, msg : Message \cup {None}, sn : Nat, tries : 0..MaxRetries]
Rx == [pc : RxPcs, sn : Nat, msg : Message \cup {None}]

\* The type invariant.
TypeOK ==
  /\ sn \in [Endpoints -> Nat]
  /\ expected \in [Endpoints -> Nat \cup {-1, None}]
  /\ ackReceived \in [Endpoints -> BOOLEAN]
  /\ running \in [Endpoints -> BOOLEAN]
  /\ call \in [Threads -> Call]
  /\ rx \in [Endpoints -> Rx]
  /\ DOMAIN net = Endpoints
  /\ \A e \in Endpoints : BagToSet(net[e]) \subseteq Datagram
  /\ lost \in 0..LossBudget /\ duplicated \in 0..DupBudget
  /\ issued \in [Endpoints -> Nat]
  /\ {confirmed, failed, handled} \subseteq [Endpoints -> SUBSET Message]

\* The messages an endpoint has acknowledged.
Received(e) ==
  handled[e] \cup (IF rx[e].pc = "callback" THEN {rx[e].msg} ELSE {})

\* When only one side sends: a send() that returns 0 has been acknowledged, or
\* it has consumed the late ACK of an earlier message of which send() had
\* returned 1.  A lost message is never confirmed on the strength of a message
\* that was itself confirmed.
ConfirmedOrOlderReceived ==
  \A e \in Endpoints : \A m \in confirmed[e] :
    \E r \in Received(Peer(e)) :
      /\ r.from = e
      /\ r = m \/ (r.id < m.id /\ r \in failed[e] \ confirmed[e])

Ids(M) == {m.id : m \in M}

\* When only one side sends, the two udp_with_ack objects are the abstract
\* channel: besides the outcomes, each ACK is credited once, so that send() has
\* at no time returned 0 more often than messages have been acknowledged.
Promise == INSTANCE CommandChannel WITH
  sending   <- {e \in Endpoints : call[<<e, "app">>].pc # "idle"},
  confirmed <- [e \in Endpoints |-> Ids(confirmed[e])],
  failed    <- [e \in Endpoints |-> Ids(failed[e])],
  received  <- [e \in Endpoints |-> Ids(Received(Peer(e)))]

KeepsPromise == Promise!Spec

\* send() prints "Correct ACK received" and returns 0: the peer has received
\* that message.
AckMeansReceived ==
  \A e \in Endpoints : confirmed[e] \subseteq Received(Peer(e))

\* The receive thread cannot see an ACK while it is inside send(), so the reply
\* to DISCOVER, however well it arrives, is never reported as acknowledged, also
\* when the application's own send() crosses it and sets the shared event.
ReplyNeverConfirmed ==
  \A e \in Endpoints : \A m \in confirmed[e] : m.by = "app"

\* Neither a lost ACK, nor a reply made in the receive thread, nor stop()
\* leaves a thread inside send() for ever.
SendTerminates == \A t \in Threads : call[t].pc # "idle" ~> call[t].pc = "idle"

\* The receive thread always comes back for the next datagram (or has ended),
\* also from a callback that sends.
ReceiverReturns ==
  \A e \in Endpoints :
    rx[e].pc \notin {"recv", "blocked"} ~> rx[e].pc \in {"recv", "dead"}

\* When UDP loses fewer datagrams than send() transmits, a message whose send()
\* returned 1 has nevertheless reached the peer's callback, or will: a reported
\* failure says nothing of the command not being carried out.
FailedYetHandled ==
  \A e \in Endpoints : \A i \in 1..AppCalls(e) :
    (\E m \in failed[e] : m.id = i) ~> (\E m \in handled[Peer(e)] : m.id = i)
==============================================================================
