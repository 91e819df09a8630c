------------------------------- MODULE UartLink -------------------------------
(***************************************************************************)
(* The two ends of the UART: uart_connection of                            *)
(* src/roadrunner/rtasp_low_power.py, and, from CellBridge, the gateway.   *)
(*                                                                         *)
(* The host's threads are the constructor, the receive thread, the wake    *)
(* monitor, and those that call _send: the application's, and the receive  *)
(* thread itself when a callback answers.  All write to one serial port,   *)
(* and all senders wait for one event, which any 'A' sets.  Writes without *)
(* an idle gap between them reach the gateway as one chunk.  A wait may    *)
(* time out at any moment.                                                 *)
(***************************************************************************)
EXTENDS CellBridge

CONSTANTS
  HostThreads,  \* threads of the application that send data
  MaxSends,     \* bound: calls of _send; the n-th one sends message n
  MaxWire       \* bound: writes that may merge

ASSUME LinkAssumption ==
  /\ "rx" \notin HostThreads
  /\ MaxSends \in Nat /\ MaxWire \in Nat
  /\ Payload = 1..MaxSends /\ Junk \notin Payload

SendThreads == HostThreads \cup {"rx"}

VARIABLES
  wire,      \* what the host has written and the gateway not yet seen
  inbox,     \* what the gateway has sent and the host not yet read
  txOf,      \* the message whose 'A' is being sent, 0 for any other transfer
  main,      \* where the constructor is
  rx,        \* where the receive thread is
  monitor,   \* where the wake monitor is
  event,     \* ack_received, and the message whose 'A' has set it (0: none)
  sender,    \* per thread, where it is in _send, and its message
  sent,      \* calls of _send begun
  credited   \* history: [by, msg, ack]: _send(msg) was successful due to ack

hostState == <<main, rx, monitor, event, sender, sent, credited>>
linkVars == <<vars, wire, inbox, txOf, hostState>>

LinkInit ==
  /\ Init
  /\ wire = <<>> /\ inbox = <<>> /\ txOf = 0
  /\ main = "ask" /\ rx = "off" /\ monitor = "off"
  /\ event = [state |-> "unmade", of |-> 0]
  /\ sender = [t \in SendThreads |-> [pc |-> "idle", msg |-> 0]]
  /\ sent = 0
  /\ credited = {}
------------------------------------------------------------------------------
(* The line *)

\* What the gateway makes of several writes: the first byte decides.  A connection
\* request is copied whatever follows it; the length of a 'C' or 'S' is no longer
\* right.
Merged(w) ==
  IF Len(w) > 1 /\ w[1].type \in {"C", "S"} THEN [w[1] EXCEPT !.fits = FALSE] ELSE w[1]

\* An idle gap: UART_RX_RDY.
LineIdle ==
  /\ wire # <<>>
  /\ ReceiveReady(Merged(wire))
  /\ wire' = <<>>
  /\ UNCHANGED <<writes, inbox, txOf, hostState>>

\* A transfer of the gateway ends: the host may read it.  Every datagram is read
\* as one message; what the host makes of one that was overwritten while it was
\* sent depends on its bytes.
Delivered ==
  /\ TxDone
  /\ inbox' = Append(inbox,
       [c |-> IF tx.what = "frame" THEN "C" ELSE tx.what, of |-> txOf])
  /\ UNCHANGED <<wire, txOf, hostState>>

\* The 'A' of a data message is started while modem_tx_buf holds it.
Gateway ==
  /\ UartProcess \/ CellRecv
  /\ txOf' = IF tx = None /\ tx' # None
               THEN (IF proc = "ack" /\ modemTx \in Payload THEN modemTx ELSE 0)
               ELSE txOf
  /\ UNCHANGED <<wire, inbox, hostState>>

Network ==
  /\ Registered \/ \E p \in Ports, from \in Senders : Arrive(p, from)
  /\ UNCHANGED <<wire, inbox, txOf, hostState>>

Write(c) == Len(wire) < MaxWire /\ wire' = Append(wire, c)
HostOnly == UNCHANGED <<vars, txOf>>
------------------------------------------------------------------------------
(* The constructor *)

MainAsk ==
  /\ main = "ask"
  /\ Write([type |-> "?"])
  /\ main' = "await"
  /\ HostOnly /\ UNCHANGED <<inbox, rx, monitor, event, sender, sent, credited>>

\* Mutant: after an 'N' the constructor reads again without asking.
MainAnswerReads ==
  /\ main = "await"
  /\ inbox # <<>>
  /\ main' = IF Head(inbox).c = "N" THEN "await" ELSE "network"
  /\ inbox' = Tail(inbox)
  /\ HostOnly /\ UNCHANGED <<wire, rx, monitor, event, sender, sent, credited>>

\* Anything but 'N' is the signal.
MainAnswer ==
  /\ main = "await"
  /\ inbox # <<>>
  /\ main' = IF Head(inbox).c = "N" THEN "ask" ELSE "network"
  /\ inbox' = Tail(inbox)
  /\ HostOnly /\ UNCHANGED <<wire, rx, monitor, event, sender, sent, credited>>

MainNetwork ==
  /\ main = "network"
  /\ \E p \in Ports : Write([type |-> "E", fits |-> TRUE, port |-> p])
  /\ main' = "settle"
  /\ HostOnly /\ UNCHANGED <<inbox, rx, monitor, event, sender, sent, credited>>

\* A tenth of a second later: what has come is read and thrown away, the answer
\* to the request or not.
MainSettle ==
  /\ main = "settle"
  /\ inbox' = <<>>
  /\ main' = "event"
  /\ rx' = "read"
  /\ HostOnly /\ UNCHANGED <<wire, monitor, event, sender, sent, credited>>

\* The event is made after the receive thread has been started.
MainEvent ==
  /\ main = "event"
  /\ event' = [event EXCEPT !.state = "clear"]
  /\ main' = "up"
  /\ monitor' = "poll"
  /\ HostOnly /\ UNCHANGED <<wire, inbox, rx, sender, sent, credited>>

Constructor == MainAsk \/ MainAnswer \/ MainNetwork \/ MainSettle \/ MainEvent
------------------------------------------------------------------------------
(* receive() *)

RxTakes == rx = "read" /\ inbox # <<>> /\ inbox' = Tail(inbox)

\* Setting an event that is not there raises.
RxAck ==
  /\ RxTakes
  /\ Head(inbox).c = "A"
  /\ IF event.state = "unmade"
       THEN rx' = "dead" /\ UNCHANGED event
       ELSE event' = [state |-> "set", of |-> Head(inbox).of] /\ UNCHANGED rx
  /\ HostOnly /\ UNCHANGED <<wire, main, monitor, sender, sent, credited>>

\* 'N', and 'R', which it does not know.
RxIgnore ==
  /\ RxTakes
  /\ Head(inbox).c \in {"N", "R"}
  /\ HostOnly /\ UNCHANGED <<wire, hostState>>

\* A control message, given to the callback.
RxMessage ==
  /\ RxTakes
  /\ Head(inbox).c = "C"
  /\ rx' = "callback"
  /\ HostOnly /\ UNCHANGED <<wire, main, monitor, event, sender, sent, credited>>

\* Mutant: the callback sends in a thread of its own.
RxReturnEarly ==
  /\ rx = "callback"
  /\ rx' = "read"
  /\ HostOnly /\ UNCHANGED <<wire, inbox, main, monitor, event, sender, sent, credited>>

\* The callback, which may send, is over.
RxReturn ==
  /\ rx = "callback"
  /\ sender["rx"].pc = "idle"
  /\ rx' = "read"
  /\ HostOnly /\ UNCHANGED <<wire, inbox, main, monitor, event, sender, sent, credited>>

Receive == RxAck \/ RxIgnore \/ RxMessage \/ RxReturn
------------------------------------------------------------------------------
(* wake_up_monitor() *)

MonitorPoll ==
  /\ monitor = "poll"
  /\ wake
  /\ monitor' = "write"
  /\ HostOnly /\ UNCHANGED <<wire, inbox, main, rx, event, sender, sent, credited>>

\* Mutant: the monitor answers once.
MonitorWriteOnce ==
  /\ monitor = "write"
  /\ Write([type |-> "R"])
  /\ monitor' = "done"
  /\ HostOnly /\ UNCHANGED <<inbox, main, rx, event, sender, sent, credited>>

MonitorWrite ==
  /\ monitor = "write"
  /\ Write([type |-> "R"])
  /\ monitor' = "poll"
  /\ HostOnly /\ UNCHANGED <<inbox, main, rx, event, sender, sent, credited>>
------------------------------------------------------------------------------
(* _send(), in thread t *)

SendWrite(t) ==
  /\ sender[t].pc = "idle"
  /\ IF t = "rx" THEN rx = "callback" ELSE main = "up"
  /\ sent < MaxSends
  /\ sent' = sent + 1
  /\ Write([type |-> IF t = "rx" THEN "C" ELSE "S", fits |-> TRUE, payload |-> sent'])
  /\ sender' = [sender EXCEPT ![t] = [pc |-> "wait", msg |-> sent']]
  /\ HostOnly /\ UNCHANGED <<inbox, main, rx, monitor, event, credited>>

SendAcked(t) ==
  /\ sender[t].pc = "wait"
  /\ event.state = "set"
  /\ sender' = [sender EXCEPT ![t].pc = "clear"]
  /\ credited' = credited \cup {[by |-> t, msg |-> sender[t].msg, ack |-> event.of]}
  /\ HostOnly /\ UNCHANGED <<wire, inbox, main, rx, monitor, event, sent>>

SendClear(t) ==
  /\ sender[t].pc = "clear"
  /\ event' = [state |-> "clear", of |-> 0]
  /\ sender' = [sender EXCEPT ![t] = [pc |-> "idle", msg |-> 0]]
  /\ HostOnly /\ UNCHANGED <<wire, inbox, main, rx, monitor, sent, credited>>

SendTimeout(t) ==
  /\ sender[t].pc = "wait"
  /\ sender' = [sender EXCEPT ![t] = [pc |-> "idle", msg |-> 0]]
  /\ HostOnly /\ UNCHANGED <<wire, inbox, main, rx, monitor, event, sent, credited>>

Send(t) == SendWrite(t) \/ SendAcked(t) \/ SendClear(t) \/ SendTimeout(t)
------------------------------------------------------------------------------
LinkNext ==
  \/ LineIdle \/ Delivered \/ Gateway \/ Network
  \/ Constructor \/ Receive
  \/ MonitorPoll \/ MonitorWrite
  \/ \E t \in SendThreads : Send(t)

LinkSpec == LinkInit /\ [][LinkNext]_linkVars

\* The gateway and the host run their threads; transfers and gaps end.
LinkFairSpec ==
  /\ LinkSpec
  /\ WF_linkVars(LineIdle) /\ WF_linkVars(Delivered)
  /\ WF_linkVars(UartProcess /\ Gateway) /\ WF_linkVars(CellRecv /\ Gateway)
  /\ WF_linkVars(Constructor) /\ WF_linkVars(Receive)
  /\ WF_linkVars(MonitorPoll \/ MonitorWrite)
------------------------------------------------------------------------------
(* Properties *)

LinkTypeOK ==
  /\ TypeOK
  /\ wire \in Seq(Chunk) /\ Len(wire) <= MaxWire
  /\ inbox \in Seq([c : {"A", "N", "R", "C"}, of : 0..MaxSends])
  /\ txOf \in 0..MaxSends
  /\ main \in {"ask", "await", "network", "settle", "event", "up"}
  /\ rx \in {"off", "read", "callback", "dead"}
  /\ monitor \in {"off", "poll", "write"}
  /\ event \in [state : {"unmade", "clear", "set"}, of : 0..MaxSends]
  /\ sender \in [SendThreads -> [pc : {"idle", "wait", "clear"}, msg : 0..MaxSends]]
  /\ sent \in 0..MaxSends
  /\ credited \subseteq [by : SendThreads, msg : 1..MaxSends, ack : 0..MaxSends]

\* What the receive thread sends from a callback is never confirmed by its own
\* 'A', which that thread would have to read: it times out, or takes the 'A' of
\* something else.
RxNeverOwnAck == \A c \in credited : c.by = "rx" => c.ack # c.msg

\* The link comes up: once the modem is registered, the constructor returns.
LinkComesUp == lte = 0 ~> main = "up"

\* A datagram was announced, and cellrecv has cleared the buffer again before it
\* was forwarded: it had the buffer twice, from two 'R's for one datagram.
Dropped == wake /\ modemRxLen = "zero"

\* The wake line is answered: it falls again, whatever chunks the host's threads
\* merge or overwrite, unless the announced datagram has been dropped or the
\* chunks have made uartprocess run past its buffer.
WakeAnswered == wake ~> (~wake \/ Dropped \/ proc = "fault")

\* 'A': "a message has been successfully sent": _send returns True on account of
\* its own message.
SentMeansAccepted == \A c \in credited : c.ack = c.msg
==============================================================================
