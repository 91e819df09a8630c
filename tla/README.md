# RTASP in TLA+

RTASP streams sensor data (audio) from a small battery-powered device to a
server in the cloud. The device speaks UDP itself (`src/cloud/RTASP.py`, class
`RTASP_sender`) or through a UART-to-cellular gateway
(`src/roadrunner/rtasp_low_power.py` on the device,
`src/zephyr/uart_cell_bridge` in the gateway). This directory holds TLA+
modules for the parts of the program in which several threads, messages or
interrupts meet, TLC configurations that check them on small instances, and
theorems proved with TLAPS for all instances.

1. [The system](#1-the-system)
2. [Modules and how they correspond to the code](#2-modules-and-how-they-correspond-to-the-code)
3. [What the runs check and show](#3-what-the-runs-check-and-show)
4. [What is proved](#4-what-is-proved)
5. [What is not modelled](#5-what-is-not-modelled)
6. [Plan](#6-plan)
7. [Running it](#7-running-it)

## 1. The system

    server (src/cloud/RTASP.py)                      device
    +---------------------------+   control, UDP     +------------------------+
    | RTASP_receiver            |<------------------>| udp_with_ack           |
    |   udp_with_ack            |                    | RTASP_sender           |
    |   __queue, data_dict      |<-------------------| packet_sender          |
    |   Window_buffer / session |   data, UDP        +------------------------+
    +---------------------------+                                 or
            ^   ^                                    +------------------------+
            |   |     gateway (Zephyr, nRF9160)      | udp_with_ack_uart      |
            |   +-->+-------------------------+ UART | RTASP_sender           |
            +------>| uartprocess | cellrecv  |<---->| uart_connection        |
               UDP  +-------------------------+ wake +------------------------+

Everything is threads over shared objects without locks: no Python class takes
a lock, and the gateway's two threads and its interrupt handlers share buffers
through binary semaphores that are sometimes given too early or not at all.

| Component | State | Operations | Interacts with |
|---|---|---|---|
| `Window_buffer` (`RTASP.py` 312-384) | deque `window` of `window_size` slots, deque `buffer`, `left_sn`, `right_sn`, `count`, `max_sn`, `active` | `update`, `receive`, `end`, `loss_rate` | called by the buffering thread (`update`), the application (`receive`, `end`) and the control thread (`end`) |
| `udp_with_ack` (`RTASP.py` 67-142), `udp_with_ack_uart` (`rtasp_low_power.py` 132-190) | `sn` (last number sent or received), `expected_ack_sn`, the event `ack_received`, `running` | `send`, `_receive_message`/`receive_message`, `stop` | UDP, or `uart_connection`; calls the callback in the receive thread, and the device's callback calls `send` |
| `RTASP_receiver` (`RTASP.py` 387-582) | `sensor_info_dict`, `data_dict`, `__queue`, one `Window_buffer` per session | five threads: receive, buffer, control, print, application; `discover`, `start`, `fast`, `slow`, `sleep`, `stop`, `end`, `configure` | `udp_with_ack` for commands, `Window_buffer` for data |
| `packet_sender` (both files) | `sn`, `timestamp`, the socket or UART | `send`, clock thread | shared by the pipe threads of all sensors |
| `RTASP_sender` (both files) | `sensor_list`, `sensor_active`, pipe threads | control callback (DISCOVER, START, STOP, END, FAST, SLOW, SLEEP, CONF), `register`, `start`, `force_start`, `stop`, `end`, `__send_data` | `udp_with_ack`, `packet_sender`, sensors |
| `aac_sensor` (`audio_sensor.py`) | a UDP socket on a fixed port, an ffmpeg process | `start`, `stop`, `get_data` | started and stopped by `RTASP_sender`, read by its pipe thread |
| `uart_connection` (`rtasp_low_power.py` 63-130) | the serial port, the event `ack_received` | constructor, `send_control`, `send_data`, receive thread, wake monitor | writes to and reads from the gateway |
| Gateway (`serial_interface.c`, `modem.c`, `main.c`) | `uart_rx_buf`, `modem_tx_buf`, `modem_rx_buf` and its length, five semaphores, two sockets, the wake line | the UART interrupt, threads `uartprocess` (priority 6) and `cellrecv` (7) | host by UART and wake lines, server by UDP |
| `api.py` | serial port, two GPIO lines | `send`, `recv` | an alternative host side that nothing else uses |

What makes each component correct, and what is hard about it:

- **Window_buffer.** Packets that arrive in any order leave in increasing order,
  none twice, none lost except those too late; `end` hands over all that is
  left. Hard: the window slides by several positions at once, and `end` is
  called from other threads while `update` is running.
- **Control channel.** A confirmed message has arrived; a reported failure means
  something; nobody waits for ever. Hard: one sequence number serves sending and
  receiving; the test and the assignment of the expected number, and of the
  event, are separate statements in two threads; ACKs come late; and the reply
  to DISCOVER is sent from the thread that must receive its ACK.
- **RTASP_receiver.** Every accepted packet can be read by the application; the
  two dictionaries agree on who is there; a sender's packets go from one session
  to the next and not back; the threads that serve all sessions survive what
  happens to one. Hard: dictionaries tested in one step and indexed in another, while
  SENSOR_INFO, END and `end` add, replace and remove entries.
- **Gateway.** Each buffer has one user at a time; each request gets one answer;
  each datagram reaches the host once, whole and in order; nothing blocks the
  downlink. Hard: two priorities and interrupts, semaphores given in another
  thread than they were taken in, asynchronous transfers, error paths.
- **packet_sender.** Packets are numbered consecutively, and a number always fits
  its two bytes. Hard: every pipe thread and the clock advance shared numbers by
  two unlocked augmented assignments each.
- **RTASP_sender and its sensors.** An active sensor is piped, a stopped one is
  not. Hard: START and STOP race the thread they start and stop, in two threads,
  and any message may be repeated or late; the callback loops over a dictionary
  the application extends; `aac_sensor` owns a port that its own thread keeps.
- **uart_connection.** The link comes up, a success is the message's own, the wake
  line is answered. Hard: one event for all senders, writes that merge into one
  chunk, a receive thread that starts before its event exists and that sends
  from its own callbacks.

`PROJECT.json` lists these hazards one by one, each with its line in the source
and the properties that watch it.

## 2. Modules and how they correspond to the code

| Module | What it models |
|---|---|
| `ReorderBuffer` | abstract specification: what a `Window_buffer` promises until an `end` meets another call |
| `SessionWindow` | abstract specification: what it promises whatever meets; what `StreamReceiver` takes a window for |
| `WindowBuffer` | the class `Window_buffer`, one step per deque operation |
| `WindowBufferProofs` | theorems about `WindowBuffer` |
| `CommandChannel` | abstract specification: what the channel promises to a side that sends commands to one that does not |
| `ControlChannel` | two endpoints of the acknowledged channel, and the UDP between them |
| `ControlChannelProofs` | theorems about `ControlChannel` |
| `StreamReceiver` | `RTASP_receiver`: five threads, dictionaries, queue, windows |
| `StreamReceiverProofs` | theorems about `StreamReceiver` |
| `CellBridge` | the gateway's firmware, its host and its modem as environment |
| `CellBridgeProofs` | theorems about `CellBridge` |
| `UartLink` | `uart_connection` and, extending `CellBridge`, the gateway at the other end of the line |
| `UartLinkProofs` | theorems about `UartLink` |
| `PacketSender` | `packet_sender` of both files |
| `PacketSenderProofs` | theorems about `PacketSender` |
| `SensorControl` | `RTASP_sender` of both files with its sensors, `aac_sensor` among them |
| `SensorControlProofs` | theorems about `SensorControl` |

A step is what a thread does between two points at which another can notice:
one append or popleft of a deque, one operation on a dictionary, one statement
that reads or writes a shared attribute, one semaphore operation. Where a
statement is local to a thread it belongs to the next or the previous step.
An exception that nothing catches ends the thread: its pc becomes `"dead"` (in
the application only the call ends). Variables and operators keep the names of
the code where they can; what is left of a payload is what the properties tell
apart. Operators called *Mutant* are variants of the definition they precede,
each with one plausible mistake; no specification uses them. They serve to make
sure that the properties notice such mistakes.

**WindowBuffer.** `update` is Arrive with UpdateDrop or UpdateAdmit (the early
returns, 331-335), then for each position the window slides UpdateGrow,
UpdatePop and UpdateEmit (339-352), then UpdatePlace (354-366, whose assignments
to the counters no other thread reads). `end` is EndCall (377), and EndTest,
EndPop, EndEmit for each round of its loop. The deque starts at position 1
where Python's starts at 0. `buffer` keeps what `receive` has removed, and
`taken` counts it. `count` and `maxSn` are kept because `loss_rate` reads them;
`loss_rate` itself changes nothing. Calls of `end` by two threads meet `update`
and each other at any step, as in the program. The history variable `overlapped`
says whether an `end` has begun while another call was in progress, and separates
two questions. What the class promises until then is `KeepsPromise`: its steps
are steps of `ReorderBuffer`. What is left of it afterwards is `KeepsSession`,
that the object implements `SessionWindow` in every behaviour: `SessionWindow`
knows the packets that have been accepted and not lost, which of them are in
`buffer`, the packet an `update` in progress carries, and who is inside `end`.

**ControlChannel.** The threads of an endpoint are `<<e, "app">>` and
`<<e, "rx">>`. `call[t]` is the frame of `send` in thread t, with pc values in
statement order: load, store, loadWrap and storeWrap (the increment and the
modulo, 96-97, each a load and a store of the shared number), loadExpect and expect (98),
pack (99, which reads the number again), transmit (102-104), wait (105-106), clear
(111). `rx[e]` is the
frame of `_receive_message`: recv, then match, none and set for an ACK (124-126),
or adopt, ack and callback for a message (127-135), and reply while the callback
is inside `send`. The two Python classes differ in one thing that matters: the
UART version clears the event after a success (SendAcked). A wait may end at any
time; the model has no clock. UDP is a bag of datagrams per receiver, from which
the receive thread takes any one (reordering), and which loses and duplicates
within budgets. `stop` closes the socket: a `send` that is already on its way
raises, and a receive thread blocked in `recvfrom` may still get one datagram.
A datagram has only its 16-bit number field and the identity of its message.
`KeepsPromise` is that the two objects implement `CommandChannel`, in which a
command is a number, a call of `send` begins and ends in one of three ways, and
success needs a command that has arrived and to which no success was credited.

**StreamReceiver.** Each of the five threads is a record with a pc. The window
of a session is what SessionWindow says of one: the set of packets it has
accepted and not lost, and whether it is open, closing (flag cleared, deque not
yet empty) or empty. A packet may be too old and dropped, a store may replace
another packet, a store into a closing window may raise or succeed, and one of
two `end` calls at once may raise. A packet is looked up by its sender's address
and nothing else, as in the code: one that was received in an old session of the
address, and is still in the queue when a new one begins, goes into the new
window (527-529). The two modules are not joined by an INSTANCE
(StreamReceiver has many windows and no packet contents): the steps here were
written down from SessionWindow, and that WindowBuffer has no others is the
theorem. Callers: the control callback (ControlInfo and
ControlCreate for SENSOR_INFO, one step per dictionary; ControlEnd, ControlClose
and ControlDrain for END), the buffering thread (BufferTake, BufferTest,
BufferIndex, BufferUpdate, BufferStore), the application in `end` (AppEnd,
AppPopInfo, AppPopData, AppClose, AppDrain). Messages arrive as ControlChannel
says they can: SENSOR_INFO any number of times, END for an unknown sender too.
`owner`, `replaced`, `handed`, `raised` and `crossed` are history: the code does
not have them, the properties speak of them.

**CellBridge.** `proc` is where `uartprocess` is, `cell` where `cellrecv` is.
Priorities are kept: cellrecv takes a step only while uartprocess is blocked
(ProcBlocked), interrupts at any time. A received chunk keeps its type and
whether its length field fits. A transfer started by `uart_tx` is in `tx` until
TxDone; a datagram's bytes are read from `modem_rx_buf` then, not when the
transfer starts, and a `uart_tx` during another transfer is lost, as the driver
returns EBUSY and the code logs it. `recvfrom`'s -1 is a received datagram, as in the
code, where the length is unsigned and the test for a negative value never
succeeds. `modem_connect_ipv4` blocks in its socket calls, where cellrecv may run:
it is ProcConnect (the stream socket, 89-107), ProcOpen (from 109 on `control_fd` is
visible, and unbound) and ProcBind (116-130), and `socket`, `bind` and `connect` may
fail at each. The host is outside: with HalfDuplex it does one thing at a time and answers the wake
line with 'R'; without it, it writes whatever and whenever.

**UartLink.** The host that CellBridge leaves open. `main` is where the constructor
is (MainAsk to MainEvent, 64-89), `rx` the receive thread (118-130), `monitor` the
wake monitor (109-113), `sender[t]` the call of `_send` in thread t (100-107): of
each thread that pipes data, and of the receive thread itself, when a callback
answers. `wire` holds the writes the gateway has not seen; at an idle gap
(LineIdle) it sees them as one chunk, of which the first byte decides; a 'C' or 'S'
with bytes behind it no longer fits its length, an 'E' is accepted (Merged).
`inbox` holds what the gateway's transfers have delivered. The gateway's steps are
those of CellBridge, and only HostWrite and HostReady are replaced. A transfer of
'A' carries in `txOf` the message it answers, and `event.of` keeps it; the code
has neither, and the properties compare them. The receive thread reads each
datagram as a whole; that the bytes may be another datagram's is in CellBridge
(HostReadsDatagrams).

**PacketSender.** `self.sn += 1` and `self.sn %= 65536` are a load and a store each
(SendLoad, SendStore, SendLoadWrap, SendStoreWrap), between which other threads
run; building the packet (SendPack) reads number and timestamp, and raises
(SendRaises) when one does not fit. The clock thread is alone with the timestamp.
`end` exists only in the UART version. `last` and `crowded` are history.

**SensorControl.** Two workers call the same methods: `"control"` is the receive
thread in `__control_msg_analysis`, `"app"` the application. `worker[w]` is the
frame: the operation, its sensor, and the position in a loop over `sensor_list`
with the length it began with, since a dictionary that has grown makes the loop
raise (AskNext). `start` is StartFlag, StartSensor, StartThread, `stop` is StopFlag
and StopSensor; for `aac_sensor` the sensor's own method has further steps
(StartBind, StartPopen, StopKill), each of which may raise with what came before
in place. An unknown id raises after the flag was set. `pipe[p]` is a thread of
`__send_data`, with `recvfrom` as a place of its own: closing the socket does not
wake it, and as long as it waits the port stays taken. A sensor may be registered
again, which clears its flag (283-285). `late`, `told` and `failed` are history: the
packets of a thread since its sensor was deactivated, the threads that go on after a
`stop`, and the sensors whose last thread died in `send`. Since a control message
may be repeated, late or reordered, any message may come whenever the receive
thread is free. The two files differ in what concerns the packets only.

## 3. What the runs check and show

Eight runs pass. The four others (ControlChannelAck, CellBridgeFrames,
SensorControlStop, UartLinkAck) each show a place where the code does not do what
a comment, a docstring or the documentation says; TLC prints the shortest way
there.

| Run | Instance | What it shows |
|---|---|---|
| WindowBuffer | 2 slots, numbers 0-4, 4 packets of two payloads, 2 enders at any moment | the abstract window of a session is implemented and `end` leaves nothing behind, whatever meets; until an `end` meets another call the window keeps its shape, order is kept, and the abstract buffer is implemented |
| ControlChannel | one sender, 2 commands, 2 transmissions, one loss and one duplicate | a confirmed message has arrived, or an older one has, of which `send` had reported failure; success is never reported more often than commands have arrived; a reported failure does not mean that the command is not carried out |
| ControlChannelReply | DISCOVER, its reply, a message of the device's application, server may stop | two activations of `send` share the device's number and event; the reply is never confirmed; nobody stays in `send` or a callback |
| ControlChannelAck | one sender, 2 commands, no loss | *violated*: the ACK of message 1, whose `send` has returned 1, matches before `send` of message 2 expects its own number, and that `send` returns 0 for a message the peer has not received |
| StreamReceiver | 2 senders, 2 SENSOR_INFO, 1 END, 2 calls, 2 packets | the dictionaries agree unless SENSOR_INFO and `end` of a sender cross, a popped window is ended, a sender's packets do not go back to an earlier session's window, only the end of a session stops the shared thread |
| CellBridge | disciplined host, 3 writes, 2 ports, 2 datagrams from the server or elsewhere | the two threads use the receive buffer in turns, each datagram forwarded once and in order, one answer per request, the transmit buffer is free when it is wanted, the server's datagrams are announced |
| CellBridgeFrames | disciplined host, 2 writes, 2 datagrams | *violated*: a datagram is overwritten while it is being sent |
| PacketSender | 3 threads, numbers modulo 2 | too large a number does not stay; calls that never overlapped number consecutively |
| SensorControl | an ordinary sensor and an `aac_sensor`, 2 control messages, 1 call, 2 pipe threads | an active ordinary sensor has a living thread, unless a start is under way or the last one died in `send`; at most one packet after `stop`; a sensor that stays stopped is not piped for ever |
| SensorControlStop | one sensor, 3 control messages | *violated*: START, STOP, START before the thread looks at its flag: the thread that `stop` was to end goes on for ever |
| UartLink | constructor, one pipe thread, one message, one datagram, 2 writes may merge | a message from a callback is never confirmed by its own 'A'; the constructor returns; the wake line is answered |
| UartLinkAck | the same | *violated*: the late 'A' of the connection request makes `_send` return True |

**Why these bounds.** A window of 2 slots is the smallest in which a packet can
be first, last, or beyond it by less and by more than its size; with numbers to
4 and 4 packets it slides by one, by its size and by more, and packets come
late, twice and in gaps. SnSpace is larger than the window so that old numbers
exist. In ControlChannel two messages are what it takes for an ACK of one to
meet the other, two transmissions for a retransmission, and SnMod = 3 lets the
number wrap; it also makes an ACK's number as large as a transient SnMod, which
the receiver then takes for an ACK, as in the code at 32768. ControlChannelReply
has one transmission per `send` because three `send` calls cross; what
retransmission adds is in ControlChannel. StreamReceiver has two senders for one
packet to meet the other's session, and two SENSOR_INFO so that a session can be
replaced, or removed and begun again. In CellBridge, 3 writes are a connection
request and two data messages, or a second request in their place, for which the
second port lets it succeed, fail halfway, or leave an unbound socket; two
datagrams are what it takes for one to meet another in the buffer. PacketSender has three threads because one
that loses an update, one that wraps and one that packs must meet; the modulus 2
makes the wrap frequent, and MaxSn = 4 stands for how far the number runs while
no thread gets to wrap it. In SensorControl two messages and a call are a START
and a STOP crossing one more of either, or a sensor registered again (which counts
as a call); first registrations are not counted; two pipe
threads at a time are the old one and the new. SensorControlStop needs the three
messages START, STOP, START. In UartLink one message of any thread, the
constructor's 'E' and one datagram already make an 'A' meet the wrong wait and an
'R' meet another write. Deadlock is not checked: every run
stops when its budgets are spent, and threads that have died are part of what is
modelled. That nobody hangs is stated by liveness properties instead.

**Fairness.** The liveness properties assume weak fairness of each thread's next
step (in SensorControl of each pipe thread, in UartLink of the constructor, the
receive thread, the wake monitor, both threads of the gateway, the line's gaps
and its transfers): the interpreter and the kernel run a runnable thread, a
wait with a timeout ends, `recvfrom` returns when something has come, a transfer
ends. CellBridge also assumes that a host between two exchanges answers
the wake line, which `wake_up_monitor` does; in UartLink that is a step of the
monitor and WakeAnswered a consequence. Nothing is assumed of applications (they may never call), of
UDP (it may lose, within the budget) or of the server. FailedYetHandled needs
fewer losses than transmissions, which its instance states: LossBudget = 1,
MaxRetries = 2.

**What the runs say about the code, beyond the four violations.**

- *Confirmations* (ConfirmedOrOlderReceived, KeepsPromise). A confirmation can be
  given for a message that never arrived, but then the ACK is that of an older
  message of which `send` had reported failure, not of one that was confirmed
  itself, and no ACK is credited to two messages, however often it is
  duplicated. This is what remains of "confirmed means received" when one side
  sends, and it holds as long as that side does not use a number twice: with
  SnMod = 2 and three calls, a duplicate of the first ACK confirms the third
  message. In the code that takes 32768 commands.
- *Replies* (ReplyNeverConfirmed, SendTerminates). `send_info` cannot succeed: it
  waits in the thread that would have to receive its ACK. It makes all its
  transmissions and reports failure. So the server receives SENSOR_INFO
  `max_retries` times, and since line 500 makes a new `Window_buffer` each time,
  a session's first packets may go to a window that is then replaced. This is
  the `replaced` case of AcceptedIsReachable, and it is the normal case.
- *Confirmed in error* (AckMeansReceived). The race needs an ACK that comes after
  `send` has given up: a message whose `send` returned 0 leaves None for the
  expected number, so its further ACKs match nothing, and the event that a
  success leaves set only makes the next wait return at once.
- *`end` inside `update`* (KeepsSession, AcceptedIsReachable). What is left of the
  buffer's promise when calls overlap: until `end` is called a packet is lost only
  to one of its own number; an `update` that `end` overtakes may store its packet
  in another number's slot, over what is there, or raise IndexError (366), and
  what it still slides out may come after newer packets. `end` returns when
  the deque is empty and nothing is accepted any more, but it returns the live
  deque: if another thread is still inside, that thread may append the packet it
  has in hand after the return. So AcceptedIsReachable is about windows: packets
  a window has lost in these two ways are not in it.
- *Sessions* (DictionariesAgree, WindowsFollowReception). `end` and SENSOR_INFO each
  change two dictionaries; one after the other they leave them in agreement, and
  crossing they may leave a sensor without a session, whose packets are dropped,
  or a session that `end` raises on. A packet in the buffering thread's hands may
  be stored in the window that was replaced; none that comes later follows it there.
- *Stopping the shared threads* (StoppedOnlyByEnd). One unlucky END stops the
  server's data path for all sessions, by KeyError at 529 or IndexError in
  `update`; nothing else stops it.
- *The gateway* (TransmitBufferFree, ThreadsTakeTurns, ServerHeardAlone). The transmit
  buffer cannot be lost; the receive buffer can. Its two threads take turns with it,
  but the transfer that uartprocess starts has no turn: it reads the buffer while
  cellrecv fills it (CellBridgeFrames). While `cellrecv`
  listens on the socket in use, a datagram from elsewhere is the only thing that
  stops the downlink. A second connection request may leave it in `recvfrom` on
  the first request's socket, which is why the property says Listening.
- *Repeated 'R'* (WakeAnswered). The monitor may answer one rise of the wake line
  twice. If the second 'R' is served between cellrecv's take of the buffer and
  its clearing of the length, the old datagram is forwarded once more and the
  buffer given back while `cellrecv` uses it: cellrecv announces the next one, takes
  the buffer at once and clears the length, so every 'R' for it is refused and
  the line stays up until another datagram comes. WakeAnswered names this state
  (Dropped) as its exception; it takes a second datagram, and the run has one, since
  two are beyond what liveness checking can do here (8 million states).
- *The host* (RxNeverOwnAck, LinkComesUp, WakeAnswered). The UART has the same
  shape as the channel above it: an answer sent from the receive thread waits for
  what only that thread reads. The link comes up even if the receive thread dies
  in between, which an early 'A' can make it do.
- *Stopping sensors* (ActiveMeansPiping, AtMostOneLate, StopEndsPipes). The flag and
  the threads agree in the end for ordinary sensors, although START and STOP
  cross freely; a thread that dies in `send` leaves its sensor active and unpiped
  (ActiveMeansPiping names that case). For `aac_sensor` they do not, since its pipe thread may die, or
  stay in `recvfrom`; the two properties leave it out for that reason.
- *Numbers* (FieldsFit, NumbersConsecutive). Overlapping calls may repeat or skip
  numbers, and a thread that packs 65536 ends with OverflowError, but the state
  recovers as soon as no thread is about to wrap it.

Some divergences need no run, because they are plain in the text, and the models
take the code's side: `loss_rate` becomes negative with duplicates (`RTASP.py`
358, 374); the branch for an old message prints that it is dropped and does not
drop it (128); END from an unknown sender raises in the control thread (502);
`end` called while `update` runs makes it raise IndexError (366), and between the
test and the index of the buffering thread a KeyError (527-529); the gateway
answers 'A' before it calls `send()`, where the repository's README.md says that
'A' acknowledges a message "successfully sent" (`serial_interface.c` 196); it
accepts data before a connection is configured, and refuses it from then on until
`cellrecv` has taken the count (175);
and a datagram from an unexpected address keeps `modem_rx_buf_available` for
ever (`modem.c` 282).

## 4. What is proved

The provers establish the following for every value of the constants that
satisfies the modules' named assumptions (positive sizes, distinct endpoints,
`None` different from every value it stands beside).

**WindowBufferProofs.** `TypeCorrect`, `SessionInvariance` and
`ImplementsSessionWindow` are about every state. What the other theorems state is
true until an `end` meets another call (`~overlapped`), as the properties say, and
false afterwards, since `end` shortens the deque under `update`.

- `Invariance`: `~overlapped` implies the invariant IInv. WindowShape says what the state is
  between two calls and little of what it is inside one, so it is not inductive.
  IInv adds who may be inside a call (Serial), what the local variables hold
  (Locals: how far the slide has come, that the popped packet is the one just
  below the deque's base), that slot i holds number Base + i - 1 (Shape), and
  that everything that has left is below Floor, the base of what has not
  (Ascending).
- `WindowKeepsShape` and `LeavesInOrder` follow from IInv: shape is a part of it,
  and order follows from Ascending.
- `ImplementsReorderBuffer`: every step of WindowBuffer is a step of
  ReorderBuffer or a stutter, under `held` = the packets in slots and in
  hands, `out` = `buffer`, `open` = `active`. UpdatePlace is Accept (that is
  where the slot of an equal number is replaced), an emit of a packet is Release
  (IInv shows that it is the smallest), EndCall is Close or a stutter, all else
  stutters.
- `SessionInvariance`: the invariant SessionInv. As long as the flag is set no
  `end` has begun, so that IInv holds however calls may overlap later; from then
  on only Crossing is known: a thread with a packet in hand is about to append
  it, and the only thread in `end`, with no `update` in progress, pops what it
  has tested for.
- `ImplementsSessionWindow`: UpdateAdmit is Take, UpdatePlace is Store or
  StoreRaises, each append is HandOver, the first EndCall closes, the pop of the
  last slot is Emptied, a failed test is EndReturn, and a pop from the empty
  deque is EndRaise in `end` and StoreRaises in `update`. While the session is open
  IInv says that the slot of a store holds no other number; `end` returns alone
  only when all that is kept is in `buffer`.

**ControlChannelProofs**, for both device classes, any number width, retries,
calls, losses and duplicates, and with `stop`.

- `TypeCorrect`: the types, strengthened by what makes them inductive: a thread
  inside `send` carries a message of its own and has a transmission left, and
  what is not an ACK carries a message.
- `RepliesAreNeverConfirmed`, from the invariant of `Invariance`: `send` runs in
  a receive thread only while that thread is in its callback, and since only the
  receive thread assigns `None` to the expected number, the number stays set
  from the assignment in `send` to its end. The test for success needs `None`.

The other theorems of this module assume OneSided(S): the peer of S sends
nothing, neither from its application nor in answer to a DISCOVER, and S makes at
most SnMod calls, so that it uses no number twice. Where both sides send, a
received message replaces the number of the receiver's own, and the properties
are false: TLC finds ConfirmedOrOlderReceived violated with two calls on one side and
one on the other and a retransmission, or with DISCOVER and its answer. Beyond
SnMod calls they are false too (section 3).

- `OneWayInvariance`: the invariant OneWay. The number follows the calls
  (Numbered), each datagram and each ACK bears the number of a message S has sent
  and, for an ACK, its peer has received (Underway, Acked). The heart is
  Credited: the expected number is not that of a message already confirmed, and
  when it has been cleared, or is about to be, some message has arrived that was
  not confirmed. It survives because the only ACKs that can match are those of
  the call's own message, or of the last one while the new number is not yet
  assigned, and the last one has not been confirmed if its number is still there.
- `ConfirmedOrOlder` also needs that a message has one outcome, which is part of
  Promised (`PromisedInvariance`): only what was transmitted arrives, the
  expected number is that of the last call, and for every k the successes among
  the first k calls are no more than the arrivals among them, with one arrival to
  spare while an ACK is being credited (Counted). ConfirmedOrOlderReceived alone
  does not count: two successes may point at one arrival.
- `ImplementsCommandChannel`: AppSend is Begin; the peer's acceptance of a
  datagram is Arrive, or a stutter for one it has seen; a return of 0 is Confirm,
  whose guard is Counted's arrival to spare; a return of 1 is Fail; the send on a
  closed socket is Raise; everything else, the network and the ACKs included,
  stutters.

**StreamReceiverProofs**, for every set of senders and every number of sessions,
calls and packets (`ReceiverAssumption`: `None` is none of the values it stands
beside). `Invariance` proves one inductive invariant, ReceiverInv, from which the
rest follow. Its parts: the types, in which what a thread has looked up is what it
will use; Owned (a window belongs to one address for good, and whoever holds a
window for a packet holds the one of its address); Numbered (packets are taken in
the order of reception), Latest (an address has the youngest of its windows) and
Following, which needs both; Agreeing (what a SENSOR_INFO has begun an `end` undoes,
while the two have not met); Reached (each window there is is in the dictionary, in
the hands of `end`, handed over, raised or replaced); Stopping (a buffering thread
that has died, or that is about to, is one whose session ends). These give
`TypeCorrect`, `SendersAgree`, `NoWindowIsLostInSilence`, `NoWayBack` and
`OnlyAnEndStopsBuffering`.

**CellBridgeProofs.**

- `TransmitBufferIsFree` is about every host: the semaphore of `modem_tx_buf` is
  taken only from the copy to `send()`, all of which is in one thread (Lent).
- `TypeCorrect` is about every host, too. The types need that a request in the
  buffer is one the host wrote, and that the port in `modem_connect_ipv4` is a port.
- The others assume HalfDuplex, as the run does; with a host that writes at any
  time they are false. `Discipline` proves the inductive invariant: a request is
  in the buffer while it waits and is served, and until it is taken the UART is silent
  (OneRequest); what was checked stays as it was (Checked); an 'R' is on its way
  only while nobody but the waiting datagram has `modem_rx_buf` (OneUser); the one
  answer comes in the last step of a request or before `send()` (OneAnswer).
  `ThreadsShareBufferByTurns` and `RequestsAreAnswered` follow. The first is about the
  two threads; the transfer uartprocess leaves running is not one of them.
- `DatagramsPass` follows a datagram from the socket's queue through `modem_rx_buf`
  to the host (Passage): the three places hold different datagrams, and with one
  control socket what is further on is older. That the buffer holds a datagram
  that is yet to be forwarded (InHand) is known from Discipline, which says that
  nobody forwards it twice. `ForwardedAtMostOnce` follows.

**UartLinkProofs.** `LinkTypeCorrect` adds the line, the host's threads and the inbox to
the types of CellBridge; its lemmas are reused, since the gateway's steps are the
same. `CallbackNeverConfirmed`, for any number of threads, messages and
merging writes and any ports: nowhere is there an 'A' of a message that has not
been sent (the line, the gateway, the inbox, the event), and while the receive
thread is in `_send` it does not read, so what has set the event is older than
its message.

**PacketSenderProofs**, for every field width. The types and FieldsFit together are
inductive (`TypeCorrect`, `OverflowPasses`). `NumberedConsecutively` adds where the
one thread inside `send` is, relative to the packet it has built (OnItsWay).

**SensorControlProofs**, for every set of sensors and any number of threads, messages
and calls. `Invariance` proves SensorInv: the types, strengthened by what a
worker's frame and `aac_sensor`'s numbered sockets and processes look like;
LateStops (a thread that has sent its late packet is at the test that ends it);
and ActiveMeansPiping, which is inductive: a thread ends by itself only when the
flag is clear, and whoever sets the flag has a thread to begin or raises on a
sensor that is not registered. `TypeCorrect`, `OnePacketLate` and `ActiveSensorsArePiped`
follow.

**Model-checked only.** Liveness (EndDrains, SendTerminates, ReceiverReturns,
FailedYetHandled, ServerHeardAlone, StopEndsPipes, LinkComesUp, WakeAnswered) is
outside the prover's reach: it handles neither fairness nor ENABLED. Every
invariant the passing runs check is a theorem. No module uses a recursive operator.

## 5. What is not modelled

- `api.py`. Nothing in the repository uses its messages (`audio_sensor.py` imports it
  for `suspend_to_ram`), and it has no protocol to model: `deserialize` compares
  the tuple that `struct.unpack` returns with a string, so it never recognises a
  message, `send` always raises and leaves the wake line high, and `recv` never
  returns a message.
- SLEEP, which suspends the whole host with `rtcwake`, and `suspend_to_ram`.
- `network_ready` of `uart_connection`, which nothing calls, and `set_callback`, which
  is called once, by the channel that is built on the link; `send_udp`, which
  touches no number; `len_data`, which only printing reads.
- In the modelled components: `decode` and the binary formats, printing and rate
  counters, the missing-address return of `send`, the port adjustment, the
  initialisation of UART, modem and network and its failures, modem events that
  only log, a datagram of length zero, IPv6 beyond its refusal.
- `discover`, `start`, `fast`, `slow`, `sleep`, `stop` and `configure` of
  `RTASP_receiver` read a dictionary and send one message: they are calls of
  AppSend. Their return values and the duplicate definition of `sleep` are not
  about state.
- The measuring scripts, `receiver.py`, Kconfig, `prj.conf`, and `state.puml`, an
  intended state diagram.
- A session from end to end. ControlChannel and SensorControl, and PacketSender,
  StreamReceiver and WindowBuffer, are checked apart; each is given an
  environment that may do all that the other's model does (any control message
  at any time; packets in any order with any number).
- Time. Timeouts may fire at any moment, which includes every real timing.

## 6. Plan

Every component with behaviour of its own has a module. What is left, in order:

1. **ControlSession**: ControlChannel and SensorControl in one specification, to
   state what a START retransmitted after a STOP does with the channel's numbers,
   and what a server whose control thread has died still does.
2. Larger instances of UartLink: two pipe threads with a message each.

## 7. Running it

    tlc -workers 2 -config ControlChannelReply.cfg ControlChannel.tla
    tlapm ControlChannelProofs.tla

The configuration of each run and the module it belongs to are listed in
`PROJECT.json`. The largest runs (StreamReceiver with 2.1 million states,
SensorControl with 1.4, and WindowBuffer, CellBridge, UartLink and
ControlChannelReply, which are slow because of their liveness properties) take up to
three minutes, the others seconds; each proof module takes between ten seconds and three minutes.
