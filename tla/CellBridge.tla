------------------------------ MODULE CellBridge ------------------------------
(***************************************************************************)
(* The firmware of the UART-to-cellular gateway (zephyr/uart_cell_bridge). *)
(*                                                                         *)
(* Three things run in it.  The UART interrupt handler puts what the host  *)
(* wrote into one buffer and gives uart_data_ready.  The thread            *)
(* uartprocess (priority 6) takes that semaphore and serves one request.   *)
(* The thread cellrecv (priority 7) receives a control datagram from the   *)
(* server, raises the wake line and waits, on modem_rx_buf_available, for  *)
(* the host's 'R' to have the datagram forwarded.  Priorities are those of *)
(* the kernel: cellrecv runs only while uartprocess is blocked; interrupts *)
(* come at any time.                                                       *)
(*                                                                         *)
(* The host and the modem library are outside.  The host writes chunks;    *)
(* with HalfDuplex it writes one at a time and an 'R' only for a raised    *)
(* wake line, without it whenever it likes.  Socket calls may fail.        *)
(***************************************************************************)
EXTENDS Integers, Sequences, FiniteSets

CONSTANTS
  Ports,         \* the ports a connection request may name
  Payload,       \* what data messages carry
  None,          \* no chunk, no transfer, no usable socket
  Unbound,       \* a socket that is open but neither bound nor connected
  Junk,          \* bytes that are no message
  HalfDuplex,    \* does the host wait for one exchange to end?
  RecvFails,     \* may recvfrom() on a working socket fail?
  Senders,       \* where control datagrams come from: "server", "other"
  MaxWrites,     \* bound: requests and wake-ups of the host
  MaxDatagrams   \* bound: datagrams that arrive

ASSUME BridgeAssumption ==
  /\ HalfDuplex \in BOOLEAN /\ RecvFails \in BOOLEAN
  /\ Senders \subseteq {"server", "other"}
  /\ MaxWrites \in Nat /\ MaxDatagrams \in Nat
  /\ None \notin Ports \cup {Unbound} /\ Unbound \notin Ports

\* What one UART_RX_RDY event hands over.  fits: an 'E' is a well-formed 'E4'
\* request; the length field of a 'C' or 'S' is the length of its payload.
Chunk ==
  [type : {"E"}, fits : BOOLEAN, port : Ports]
    \cup [type : {"C", "S"}, fits : BOOLEAN, payload : Payload]
    \cup [type : {"R", "?", "X"}]

VARIABLES
  rxChunk,      \* uart_rx_buf, uart_rx_offset and uart_rx_len
  dataReady,    \* the semaphore uart_data_ready
  proc,         \* where uartprocess is
  job,          \* its locals: the data type in service, connection_info's port
  lte,          \* the semaphore lte_connected: 0 once registered
  configured,   \* the semaphore connection_configured
  txAvailable,  \* the semaphore modem_tx_buf_available
  rxAvailable,  \* the semaphore modem_rx_buf_available
  streamFd, controlFd,
  bound,        \* the <<socket, port>> pairs bound by a socket that is open
  modemTx,      \* modem_tx_buf
  modemRx,      \* the datagram in modem_rx_buf
  modemRxLen,   \* modem_rx_len: "zero", "raw" or, header added, "framed"
  wake,         \* the wake output
  cell,         \* where cellrecv is
  cellFd,       \* the socket it is blocked on
  cellPeer,     \* its local client_addr; "unknown" when not written
  tx,           \* the transfer uart_tx has started, or None
  downlink,     \* per port, the datagrams waiting in the control socket
  \* history
  writes, arrived,
  answers,      \* replies started for the request in service
  forwarded,    \* the datagrams uart_tx has accepted for the host, in order
  toHost        \* what the host has read of them

uart == <<rxChunk, dataReady>>
sockets == <<streamFd, controlFd, bound>>
modemRxVars == <<modemRx, modemRxLen>>
cellVars == <<cell, cellFd, cellPeer>>
environment == <<downlink, writes, arrived>>
replies == <<tx, answers>>
history == <<forwarded, toHost>>
vars == <<uart, proc, job, lte, configured, txAvailable, rxAvailable, sockets,
          modemTx, modemRxVars, wake, cellVars, replies, environment, history>>

Init ==
  /\ rxChunk = None /\ dataReady = 0
  /\ proc = "wait" /\ job = None
  /\ lte = 1 /\ configured = 0 /\ txAvailable = 1 /\ rxAvailable = 1
  /\ streamFd = None /\ controlFd = None /\ bound = {}
  /\ modemTx = Junk /\ modemRx = Junk /\ modemRxLen = "zero"
  /\ wake = FALSE
  /\ cell = "start" /\ cellFd = None /\ cellPeer = "unknown"
  /\ tx = None /\ answers = 0
  /\ downlink = [p \in Ports |-> <<>>]
  /\ writes = 0 /\ arrived = 0
  /\ forwarded = <<>> /\ toHost = {}

\* uart_tx of one character: it fails, and the failure is only logged, while an
\* earlier transfer is in progress.
Reply(c) ==
  IF tx = None
    THEN /\ tx' = [what |-> c, msg |-> Junk]
         /\ answers' = IF c = "R" THEN answers ELSE answers + 1
    ELSE UNCHANGED replies

\* The request is answered and uartprocess goes back to its semaphore.
Finish(c) == Reply(c) /\ proc' = "wait"

UartIdle == proc = "wait" /\ dataReady = 0 /\ tx = None
------------------------------------------------------------------------------
(* Interrupts *)

\* UART_RX_RDY and the events after it: reception is stopped and starts again
\* at the head of the same buffer, whatever uartprocess is doing with it.
ReceiveReady(c) ==
  /\ rxChunk' = c
  /\ dataReady' = 1
  /\ UNCHANGED <<proc, job, lte, configured, txAvailable, rxAvailable, sockets,
                 modemTx, modemRxVars, wake, cellVars, replies, downlink, arrived,
                 history>>

\* The host writes a request, or, without discipline, anything.
HostWrite(c) ==
  /\ writes < MaxWrites
  /\ HalfDuplex => UartIdle /\ c.type # "R"
  /\ writes' = writes + 1
  /\ ReceiveReady(c)

\* The host, between two exchanges, finds the wake line raised.
HostReady ==
  /\ HalfDuplex /\ UartIdle /\ wake
  /\ UNCHANGED writes
  /\ ReceiveReady([type |-> "R"])

\* The host's wake line rises: 'R'.
WakeIn ==
  /\ writes < MaxWrites
  /\ HalfDuplex => UartIdle
  /\ writes' = writes + 1
  /\ Reply("R")
  /\ UNCHANGED <<uart, proc, job, lte, configured, txAvailable, rxAvailable,
                 sockets, modemTx, modemRxVars, wake, cellVars, downlink, arrived,
                 history>>

\* A transfer ends.  The bytes of a datagram have been read from modem_rx_buf
\* while they were sent.
TxDone ==
  /\ tx # None
  /\ tx' = None
  /\ toHost' = IF tx.what = "frame"
                 THEN toHost \cup {IF modemRx = tx.msg THEN tx.msg ELSE Junk}
                 ELSE toHost
  /\ UNCHANGED <<uart, proc, job, lte, configured, txAvailable, rxAvailable,
                 sockets, modemTx, modemRxVars, wake, cellVars, answers, environment, forwarded>>

\* LTE_LC_EVT_NW_REG_STATUS, registered: the semaphore is taken and never given
\* back.
Registered ==
  /\ lte' = 0
  /\ UNCHANGED <<uart, proc, job, configured, txAvailable, rxAvailable, sockets,
                 modemTx, modemRxVars, wake, cellVars, replies, environment, history>>

\* A datagram reaches an open control socket.
Arrive(p, from) ==
  /\ <<"control", p>> \in bound
  /\ arrived < MaxDatagrams
  /\ arrived' = arrived + 1
  /\ downlink' = [downlink EXCEPT ![p] = Append(@, [id |-> arrived', from |-> from])]
  /\ UNCHANGED <<uart, proc, job, lte, configured, txAvailable, rxAvailable,
                 sockets, modemTx, modemRxVars, wake, cellVars, replies, writes, history>>
------------------------------------------------------------------------------
(* uartprocess *)

ProcTake ==
  /\ proc = "wait"
  /\ dataReady = 1
  /\ dataReady' = 0
  /\ proc' = "dispatch"
  /\ answers' = 0
  /\ UNCHANGED <<rxChunk, job, lte, configured, txAvailable, rxAvailable, sockets,
                 modemTx, modemRxVars, wake, cellVars, tx, environment, history>>

\* 'E': copy the request and connect, or refuse what is not an IPv4 request.
ProcEstablish ==
  /\ proc = "dispatch"
  /\ rxChunk.type = "E"
  /\ IF rxChunk.fits
       THEN /\ proc' = "connect"
            /\ job' = rxChunk.port
            /\ UNCHANGED replies
       ELSE Finish("N") /\ UNCHANGED job
  /\ UNCHANGED <<uart, lte, configured, txAvailable, rxAvailable, sockets, modemTx,
                 modemRxVars, wake, cellVars, environment, history>>

\* modem_connect_ipv4, the stream socket: none, one that fails to connect and is
\* closed, one that fails to bind and is left open, or one that is bound, which
\* the port of another open socket does not allow.
ProcConnect ==
  /\ proc = "connect"
  /\ \/ /\ streamFd' = job /\ <<"stream", job>> \notin bound
        /\ bound' = bound \cup {<<"stream", job>>}
        /\ proc' = "open"
        /\ UNCHANGED replies
     \/ /\ streamFd' \in {None, Unbound}
        /\ Finish("N")
        /\ UNCHANGED bound
  /\ UNCHANGED <<uart, job, lte, configured, txAvailable, rxAvailable, controlFd,
                 modemTx, modemRxVars, wake, cellVars, environment, history>>

\* The control socket: its descriptor is in control_fd before it is bound.
ProcOpen ==
  /\ proc = "open"
  /\ \/ controlFd' = Unbound /\ proc' = "bind" /\ UNCHANGED replies
     \/ controlFd' = None /\ Finish("N")
  /\ UNCHANGED <<uart, job, lte, configured, txAvailable, rxAvailable, streamFd, bound,
                 modemTx, modemRxVars, wake, cellVars, environment, history>>

\* It is bound and connected, under a recvfrom() that has been called on it
\* meanwhile.  A failure leaves it open or closes it, and undoes nothing.
ProcBind ==
  /\ proc = "bind"
  /\ \/ /\ controlFd' = job /\ <<"control", job>> \notin bound
        /\ bound' = bound \cup {<<"control", job>>}
        /\ configured' = 1
        /\ cellFd' \in IF cell = "blocked" /\ cellFd = Unbound THEN {Unbound, job}
                                                           ELSE {cellFd}
        /\ Finish("A")
     \/ /\ controlFd' \in {None, Unbound}
        /\ Finish("N")
        /\ UNCHANGED <<bound, configured, cellFd>>
  /\ UNCHANGED <<uart, job, lte, txAvailable, rxAvailable, streamFd, modemTx,
                 modemRxVars, wake, cell, cellPeer, environment, history>>

\* 'C' and 'S': the test for a configured connection reads the count of a
\* semaphore that cellrecv takes.
ProcData ==
  /\ proc = "dispatch"
  /\ rxChunk.type \in {"C", "S"}
  /\ IF configured > 0
       THEN Finish("N") /\ UNCHANGED job
       ELSE /\ proc' = "length"
            /\ job' = rxChunk.type
            /\ UNCHANGED replies
  /\ UNCHANGED <<uart, lte, configured, txAvailable, rxAvailable, sockets, modemTx,
                 modemRxVars, wake, cellVars, environment, history>>

\* Mutant: a NACK without the break after it.
ProcLengthGoesOn ==
  /\ proc = "length"
  /\ IF rxChunk.type \in {"C", "S"} /\ rxChunk.fits THEN UNCHANGED replies ELSE Reply("N")
  /\ proc' = "acquire"
  /\ UNCHANGED <<uart, job, lte, configured, txAvailable, rxAvailable, sockets,
                 modemTx, modemRxVars, wake, cellVars, environment, history>>

\* The buffer and its length are read again.
ProcLength ==
  /\ proc = "length"
  /\ IF rxChunk.type \in {"C", "S"} /\ rxChunk.fits
       THEN proc' = "acquire" /\ UNCHANGED replies
       ELSE Finish("N")
  /\ UNCHANGED <<uart, job, lte, configured, txAvailable, rxAvailable, sockets,
                 modemTx, modemRxVars, wake, cellVars, environment, history>>

\* k_sem_take with a timeout of 10 seconds.
ProcAcquire ==
  /\ proc = "acquire"
  /\ IF txAvailable = 1
       THEN txAvailable' = 0 /\ proc' = "copy" /\ UNCHANGED replies
       ELSE Finish("N") /\ UNCHANGED txAvailable
  /\ UNCHANGED <<uart, job, lte, configured, rxAvailable, sockets, modemTx,
                 modemRxVars, wake, cellVars, environment, history>>

\* The payload is copied under the length in uart_rx_len, read once more.  Below
\* 3 the bound of the loop wraps around and the thread writes past the buffer.
ProcCopy ==
  /\ proc = "copy"
  /\ IF rxChunk.type \in {"R", "?", "X"}
       THEN proc' = "fault" /\ UNCHANGED modemTx
       ELSE /\ proc' = "ack"
            /\ modemTx' = IF rxChunk.type = "E" THEN Junk ELSE rxChunk.payload
  /\ UNCHANGED <<uart, job, lte, configured, txAvailable, rxAvailable, sockets,
                 modemRxVars, wake, cellVars, replies, environment, history>>

\* The host gets its 'A' before the modem gets the message.
ProcAck ==
  /\ proc = "ack"
  /\ Reply("A")
  /\ proc' = "send"
  /\ UNCHANGED <<uart, job, lte, configured, txAvailable, rxAvailable, sockets,
                 modemTx, modemRxVars, wake, cellVars, environment, history>>

\* Mutant: the buffer is given back only after a successful send().
ProcSendKeeps ==
  /\ proc = "send"
  /\ \/ /\ (IF job = "C" THEN controlFd ELSE streamFd) \in Ports
        /\ txAvailable' = 1
     \/ UNCHANGED txAvailable
  /\ proc' = "wait"
  /\ UNCHANGED <<uart, job, lte, configured, rxAvailable, sockets, modemTx,
                 modemRxVars, wake, cellVars, replies, environment, history>>

\* modem_send: a failed send() is only logged; the buffer is given back.
ProcSend ==
  /\ proc = "send"
  /\ txAvailable' = 1
  /\ proc' = "wait"
  /\ UNCHANGED <<uart, job, lte, configured, rxAvailable, sockets, modemTx,
                 modemRxVars, wake, cellVars, replies, environment, history>>

\* Mutant: the wake line stays high.
ProcReadyHigh ==
  /\ proc = "dispatch"
  /\ rxChunk.type = "R"
  /\ proc' = IF modemRxLen = "zero" THEN "wait" ELSE "forward"
  /\ UNCHANGED <<uart, job, lte, configured, txAvailable, rxAvailable, sockets,
                 modemTx, modemRxVars, wake, cellVars, replies, environment, history>>

\* 'R': the datagram is passed to uart_tx and the buffer given away at once.
ProcReady ==
  /\ proc = "dispatch"
  /\ rxChunk.type = "R"
  /\ IF modemRxLen = "zero"
       THEN proc' = "wait" /\ UNCHANGED wake
       ELSE proc' = "forward" /\ wake' = FALSE
  /\ UNCHANGED <<uart, job, lte, configured, txAvailable, rxAvailable, sockets,
                 modemTx, modemRxVars, cellVars, replies, environment, history>>

ForwardLeaving(available) ==
  /\ proc = "forward"
  /\ LET frame == IF modemRxLen = "framed" THEN modemRx ELSE Junk IN
     IF tx = None
       THEN /\ tx' = [what |-> "frame", msg |-> frame]
            /\ forwarded' = IF frame = Junk THEN forwarded ELSE Append(forwarded, frame)
       ELSE UNCHANGED <<tx, forwarded>>
  /\ rxAvailable' = available
  /\ proc' = "wait"
  /\ UNCHANGED <<uart, job, lte, configured, txAvailable, sockets, modemTx,
                 modemRxVars, wake, cellVars, answers, environment, toHost>>

\* Mutants: the buffer is not given back, and a semaphore without a limit.
ProcForwardKeeps == ForwardLeaving(rxAvailable)
ProcForwardCounts == ForwardLeaving(rxAvailable + 1)

ProcForward == ForwardLeaving(1)

\* '?', and anything else.
ProcQuery ==
  /\ proc = "dispatch"
  /\ rxChunk.type \in {"?", "X"}
  /\ Finish(IF rxChunk.type = "?" /\ lte = 0 THEN "A" ELSE "N")
  /\ UNCHANGED <<uart, job, lte, configured, txAvailable, rxAvailable, sockets,
                 modemTx, modemRxVars, wake, cellVars, environment, history>>

UartProcess ==
  \/ ProcTake \/ ProcEstablish \/ ProcConnect \/ ProcOpen \/ ProcBind
  \/ ProcData \/ ProcLength \/ ProcAcquire \/ ProcCopy \/ ProcAck \/ ProcSend
  \/ ProcReady \/ ProcForward \/ ProcQuery
------------------------------------------------------------------------------
(* cellrecv: modem_downlink_monitor in a loop *)

\* uartprocess has the higher priority: cellrecv runs while it is blocked.
ProcBlocked ==
  \/ proc = "wait" /\ dataReady = 0
  \/ proc \in {"connect", "open", "bind", "send", "fault"}

CellStep(from, to) == ProcBlocked /\ cell = from /\ cell' = to

\* Once: wait for a connection to be configured, taking the count away.
CellStart ==
  /\ CellStep("start", "take")
  /\ configured = 1
  /\ configured' = 0
  /\ UNCHANGED <<uart, proc, job, lte, txAvailable, rxAvailable, sockets, modemTx,
                 modemRxVars, wake, cellFd, cellPeer, replies, environment, history>>

\* Mutant: modem_rx_buf is used without its semaphore.
CellTakeFree ==
  /\ CellStep("take", "clear")
  /\ UNCHANGED <<uart, proc, job, lte, configured, txAvailable, rxAvailable, sockets,
                 modemTx, modemRxVars, wake, cellFd, cellPeer, replies, environment,
                 history>>

CellTake ==
  /\ CellStep("take", "clear")
  /\ rxAvailable = 1
  /\ rxAvailable' = 0
  /\ UNCHANGED <<uart, proc, job, lte, configured, txAvailable, sockets, modemTx,
                 modemRxVars, wake, cellFd, cellPeer, replies, environment, history>>

CellClear ==
  /\ CellStep("clear", "call")
  /\ modemRxLen' = "zero"
  /\ UNCHANGED <<uart, proc, job, lte, configured, txAvailable, rxAvailable, sockets,
                 modemTx, modemRx, wake, cellFd, cellPeer, replies, environment, history>>

CellCall ==
  /\ CellStep("call", "blocked")
  /\ cellFd' = controlFd
  /\ UNCHANGED <<uart, proc, job, lte, configured, txAvailable, rxAvailable, sockets,
                 modemTx, modemRxVars, wake, cellPeer, replies, environment, history>>

CellReceive ==
  /\ CellStep("blocked", "check")
  /\ cellFd \in Ports
  /\ downlink[cellFd] # <<>>
  /\ modemRx' = Head(downlink[cellFd]).id
  /\ modemRxLen' = "raw"
  /\ cellPeer' = Head(downlink[cellFd]).from
  /\ downlink' = [downlink EXCEPT ![cellFd] = Tail(@)]
  /\ UNCHANGED <<uart, proc, job, lte, configured, txAvailable, rxAvailable, sockets,
                 modemTx, wake, cellFd, replies, writes, arrived, history>>

\* recvfrom() returns -1, which as a uint16_t is 65535: a received length.
\* client_addr is left as it is.
CellError ==
  /\ CellStep("blocked", "check")
  /\ RecvFails \/ cellFd \notin Ports
  /\ modemRx' = Junk
  /\ modemRxLen' = "raw"
  /\ cellPeer' = "unknown"
  /\ UNCHANGED <<uart, proc, job, lte, configured, txAvailable, rxAvailable, sockets,
                 modemTx, wake, cellFd, replies, environment, history>>

\* The header is added and the wake line raised.  What an unwritten client_addr
\* holds may look like the server's address or not.
CellAnnounce ==
  /\ CellStep("check", "take")
  /\ cellPeer # "other"
  /\ modemRxLen' = "framed"
  /\ wake' = TRUE
  /\ UNCHANGED <<uart, proc, job, lte, configured, txAvailable, rxAvailable, sockets,
                 modemTx, modemRx, cellFd, cellPeer, replies, environment, history>>

\* Not the server: return -1, keeping modem_rx_buf_available.
CellReject ==
  /\ CellStep("check", "take")
  /\ cellPeer # "server"
  /\ UNCHANGED <<uart, proc, job, lte, configured, txAvailable, rxAvailable, sockets,
                 modemTx, modemRxVars, wake, cellFd, cellPeer, replies, environment,
                 history>>

CellRecv ==
  \/ CellStart \/ CellTake \/ CellClear \/ CellCall \/ CellReceive \/ CellError
  \/ CellAnnounce \/ CellReject
------------------------------------------------------------------------------
Next ==
  \/ \E c \in Chunk : HostWrite(c)
  \/ HostReady
  \/ WakeIn
  \/ TxDone
  \/ Registered
  \/ \E p \in Ports, from \in Senders : Arrive(p, from)
  \/ UartProcess
  \/ CellRecv

Spec == Init /\ [][Next]_vars

\* The kernel runs a thread that is ready, a transfer ends, and a host that is
\* waiting for the wake line answers it.
Fairness ==
  /\ WF_vars(UartProcess)
  /\ WF_vars(CellRecv)
  /\ WF_vars(TxDone)
  /\ WF_vars(HostReady)

FairSpec == Spec /\ Fairness
------------------------------------------------------------------------------
(* Properties *)

ProcPcs == {"wait", "dispatch", "connect", "open", "bind", "length", "acquire", "copy",
            "ack", "send", "forward", "fault"}
CellPcs == {"start", "take", "clear", "call", "blocked", "check"}
Sockets == Ports \cup {None, Unbound}
Datagrams == 1..MaxDatagrams

\* The type invariant.
TypeOK ==
  /\ rxChunk \in Chunk \cup {None}
  /\ {dataReady, lte, configured, txAvailable, rxAvailable} \subseteq {0, 1}
  /\ proc \in ProcPcs
  /\ job \in Ports \cup {"C", "S", None}
  /\ {streamFd, controlFd, cellFd} \subseteq Sockets
  /\ bound \subseteq {"stream", "control"} \X Ports
  /\ modemTx \in Payload \cup {Junk}
  /\ modemRx \in Datagrams \cup {Junk}
  /\ modemRxLen \in {"zero", "raw", "framed"}
  /\ wake \in BOOLEAN
  /\ cell \in CellPcs
  /\ cellPeer \in {"server", "other", "unknown"}
  /\ tx \in [what : {"A", "N", "R", "frame"}, msg : Datagrams \cup {Junk}] \cup {None}
  /\ \A p \in Ports : downlink[p] \in Seq([id : Datagrams, from : Senders])
  /\ writes \in 0..MaxWrites /\ arrived \in 0..MaxDatagrams
  /\ answers \in Nat
  /\ forwarded \in Seq(Datagrams)
  /\ toHost \subseteq Datagrams \cup {Junk}

\* With a host that does one thing at a time, the two threads use modem_rx_buf in
\* turns, whatever the order of requests, datagrams and 'R's: cellrecv fills it
\* only while no datagram in it is announced and uartprocess forwards none, and
\* the semaphore is free only when neither has any use for it.  The transfer that
\* uartprocess has started reads the buffer on its own: HostReadsDatagrams.
ThreadsTakeTurns ==
  /\ rxAvailable = 1 => cell \in {"start", "take"} /\ ~wake /\ proc # "forward"
  /\ cell \in {"clear", "call", "blocked", "check"} => ~wake /\ proc # "forward"

\* With such a host every datagram is forwarded at most once, and in the order of
\* arrival unless a second connection has opened another control socket, however
\* requests and data messages come in between.
ForwardedOnce ==
  LET ControlPorts == {p \in Ports : <<"control", p>> \in bound} IN
  \A i, j \in DOMAIN forwarded :
    i < j => /\ forwarded[i] # forwarded[j]
             /\ Cardinality(ControlPorts) <= 1 => forwarded[i] < forwarded[j]

\* With such a host every request, well formed or not, is answered by exactly
\* one 'A' or 'N' by the time uartprocess looks for the next one.
AnsweredOnce ==
  (proc = "wait" /\ dataReady = 0 /\ rxChunk \notin {None, [type |-> "R"]}) => answers = 1

\* Whatever the host does, the modem's transmit buffer is given back: as long as
\* uartprocess has not run past the end of it, it never waits for the buffer.
TransmitBufferFree == proc = "acquire" => txAvailable = 1

\* "will then send a received packet from the server": what the host reads are
\* datagrams, whole, not what the next one left of them.
HostReadsDatagrams == Junk \notin toHost

Waiting(d, p) ==
  \E i \in DOMAIN downlink[p] : downlink[p][i] = [id |-> d, from |-> "server"]

\* cellrecv listens on p or is about to: not on a socket an earlier connection
\* request has left it with, and with the buffer at hand.
Listening(p) ==
  /\ controlFd = p
  /\ \/ cellFd = p
     \/ cellFd = None /\ cell \in {"start", "clear", "call"}
     \/ cellFd = None /\ cell = "take" /\ rxAvailable = 1

\* As long as cellrecv listens on the socket the server writes to and no datagram
\* comes from elsewhere, a datagram of the server is announced to a host that
\* answers the wake line, whatever requests the host makes meanwhile.
ServerHeardAlone ==
  \A d \in Datagrams, p \in Ports :
    (Waiting(d, p) /\ [](Listening(p) /\ cellPeer # "other")) ~> (modemRx = d /\ wake)
==============================================================================
