--------------------------- MODULE CellBridgeProofs ---------------------------
(***************************************************************************)
(* Theorems about CellBridge, for every set of ports and every bound.      *)
(* TransmitBufferIsFree and TypeCorrect are about every host, which may    *)
(* write whatever and whenever.  The others assume HalfDuplex: a host that *)
(* does one thing at a time.                                               *)
(***************************************************************************)
EXTENDS CellBridge, SequenceTheorems, FiniteSetTheorems, TLAPS

\* The transmit buffer is taken only between the copy and send().
Lent == proc \notin {"copy", "ack", "send", "fault"} => txAvailable = 1

(* With a host that does one thing at a time: *)

\* a request is in the buffer while it waits and while it is served, and until
\* then the UART is silent;
OneRequest ==
  /\ dataReady \in {0, 1}
  /\ dataReady = 1 => proc = "wait" /\ tx = None
  /\ dataReady = 1 \/ proc # "wait" => rxChunk \in Chunk
  /\ proc = "forward" => rxChunk = [type |-> "R"]

\* what has been checked stays as it was;
Checked ==
  /\ proc = "length" => rxChunk.type = job
  /\ proc \in {"acquire", "copy"} => rxChunk.type = job /\ rxChunk.fits /\ job \in {"C", "S"}
  /\ proc # "fault"

\* an 'R' is on its way only while the wake line is up, that is, while the
\* datagram it asks for has modem_rx_buf;
OneUser ==
  /\ ThreadsTakeTurns
  /\ cell \in CellPcs
  /\ dataReady = 1 \/ proc = "dispatch" => (rxChunk.type = "R" => wake)
  /\ proc = "forward" => ~wake

\* the one answer comes in the last step of a request, or before send().
OneAnswer ==
  /\ AnsweredOnce
  /\ proc \in {"dispatch", "connect", "open", "bind", "length", "acquire", "copy", "ack"} =>
       answers = 0 /\ tx = None
  /\ proc = "send" => answers = 1

\* What does not come from a thread of the gateway.
Interrupt ==
  \/ \E c \in Chunk : HostWrite(c)
  \/ HostReady \/ WakeIn \/ TxDone \/ Registered
  \/ \E p \in Ports, from \in Senders : Arrive(p, from)

Disciplined == OneRequest /\ Checked /\ OneUser /\ OneAnswer
------------------------------------------------------------------------------
\* Every step of the gateway and of its environment keeps it.
LEMMA LentPreserved == Lent /\ [Next]_vars => Lent'
<1> SUFFICES ASSUME Lent, [Next]_vars PROVE Lent'
  OBVIOUS
<1> USE DEF Lent
<1>1. CASE UNCHANGED vars
  BY <1>1 DEF vars
<1>2. ASSUME NEW c \in Chunk, HostWrite(c) PROVE Lent'
  BY <1>2 DEF HostWrite, ReceiveReady
<1>3. CASE HostReady
  BY <1>3 DEF HostReady, ReceiveReady
<1>4. CASE WakeIn
  BY <1>4 DEF WakeIn
<1>5. CASE TxDone
  BY <1>5 DEF TxDone
<1>6. CASE Registered
  BY <1>6 DEF Registered
<1>7. ASSUME NEW p \in Ports, NEW from \in Senders, Arrive(p, from) PROVE Lent'
  BY <1>7 DEF Arrive
<1>8. CASE ProcTake
  BY <1>8 DEF ProcTake
<1>9. CASE ProcEstablish
  BY <1>9 DEF ProcEstablish, Finish
<1>10. CASE ProcConnect
  BY <1>10 DEF ProcConnect, Finish
<1>21. CASE ProcOpen
  BY <1>21 DEF ProcOpen, Finish
<1>22. CASE ProcBind
  BY <1>22 DEF ProcBind, Finish
<1>11. CASE ProcData
  BY <1>11 DEF ProcData, Finish
<1>12. CASE ProcLength
  BY <1>12 DEF ProcLength, Finish
<1>13. CASE ProcAcquire
  BY <1>13 DEF ProcAcquire, Finish
<1>14. CASE ProcCopy
  BY <1>14 DEF ProcCopy
<1>15. CASE ProcAck
  BY <1>15 DEF ProcAck
<1>16. CASE ProcSend
  BY <1>16 DEF ProcSend
<1>17. CASE ProcReady
  BY <1>17 DEF ProcReady
<1>18. CASE ProcForward
  BY <1>18 DEF ProcForward, ForwardLeaving
<1>19. CASE ProcQuery
  BY <1>19 DEF ProcQuery, Finish
<1>20. CASE CellRecv
  BY <1>20
     DEF CellRecv, CellStart, CellTake, CellClear, CellCall, CellReceive, CellError,
         CellAnnounce, CellReject, CellStep
<1> QED
  BY <1>1, <1>2, <1>3, <1>4, <1>5, <1>6, <1>7, <1>8, <1>9, <1>10, <1>11, <1>12, <1>13,
     <1>14, <1>15, <1>16, <1>17, <1>18, <1>19, <1>20, <1>21, <1>22
     DEF Next, UartProcess

\* Whatever the host does, uartprocess never waits for the transmit buffer.
THEOREM TransmitBufferIsFree == Spec => []TransmitBufferFree
<1>1. Init => Lent
  BY DEF Init, Lent
<1>2. Lent => TransmitBufferFree
  BY DEF Lent, TransmitBufferFree
<1> QED
  BY <1>1, <1>2, LentPreserved, PTL DEF Spec
------------------------------------------------------------------------------
\* The host, the UART and the network keep the discipline.
LEMMA InterruptsKeepDiscipline ==
  ASSUME HalfDuplex, Disciplined, Interrupt PROVE Disciplined'
<1> USE DEF Disciplined, ThreadsTakeTurns, AnsweredOnce, UartIdle, CellPcs, uart, sockets,
      modemRxVars, cellVars, environment, replies, history
<1>1. ASSUME NEW c \in Chunk, HostWrite(c) PROVE Disciplined'
  <2>1. OneRequest'
    BY <1>1 DEF OneRequest, Chunk, HostWrite, ReceiveReady
  <2>2. Checked'
    BY <1>1 DEF Checked, OneRequest, Chunk, HostWrite, ReceiveReady
  <2>3. OneUser'
    BY <1>1 DEF OneUser, OneRequest, HostWrite, ReceiveReady
  <2>4. OneAnswer'
    BY <1>1 DEF OneAnswer, OneRequest, Chunk, HostWrite, ReceiveReady
  <2> QED
    BY <2>1, <2>2, <2>3, <2>4
<1>2. CASE HostReady
  <2>1. OneRequest'
    BY <1>2 DEF OneRequest, Chunk, HostReady, ReceiveReady
  <2>2. Checked'
    BY <1>2 DEF Checked, OneRequest, Chunk, HostReady, ReceiveReady
  <2>3. OneUser'
    BY <1>2 DEF OneUser, OneRequest, HostReady, ReceiveReady
  <2>4. OneAnswer'
    BY <1>2 DEF OneAnswer, OneRequest, Chunk, HostReady, ReceiveReady
  <2> QED
    BY <2>1, <2>2, <2>3, <2>4
<1>3. CASE WakeIn
  <2>1. OneRequest'
    BY <1>3 DEF OneRequest, Chunk, WakeIn, Reply
  <2>2. Checked'
    BY <1>3 DEF Checked, OneRequest, Chunk, WakeIn, Reply
  <2>3. OneUser'
    BY <1>3 DEF OneUser, OneRequest, WakeIn, Reply
  <2>4. OneAnswer'
    BY <1>3 DEF OneAnswer, OneRequest, Chunk, WakeIn, Reply
  <2> QED
    BY <2>1, <2>2, <2>3, <2>4
<1>4. CASE TxDone
  <2>1. OneRequest'
    BY <1>4 DEF OneRequest, Chunk, TxDone
  <2>2. Checked'
    BY <1>4 DEF Checked, OneRequest, Chunk, TxDone
  <2>3. OneUser'
    BY <1>4 DEF OneUser, OneRequest, TxDone
  <2>4. OneAnswer'
    BY <1>4 DEF OneAnswer, OneRequest, Chunk, TxDone
  <2> QED
    BY <2>1, <2>2, <2>3, <2>4
<1>5. CASE Registered
  <2>1. OneRequest'
    BY <1>5 DEF OneRequest, Chunk, Registered
  <2>2. Checked'
    BY <1>5 DEF Checked, OneRequest, Chunk, Registered
  <2>3. OneUser'
    BY <1>5 DEF OneUser, OneRequest, Registered
  <2>4. OneAnswer'
    BY <1>5 DEF OneAnswer, OneRequest, Chunk, Registered
  <2> QED
    BY <2>1, <2>2, <2>3, <2>4
<1>6. ASSUME NEW p \in Ports, NEW from \in Senders, Arrive(p, from) PROVE Disciplined'
  <2>1. OneRequest'
    BY <1>6 DEF OneRequest, Chunk, Arrive
  <2>2. Checked'
    BY <1>6 DEF Checked, OneRequest, Chunk, Arrive
  <2>3. OneUser'
    BY <1>6 DEF OneUser, OneRequest, Arrive
  <2>4. OneAnswer'
    BY <1>6 DEF OneAnswer, OneRequest, Chunk, Arrive
  <2> QED
    BY <2>1, <2>2, <2>3, <2>4
<1> QED
  BY <1>1, <1>2, <1>3, <1>4, <1>5, <1>6 DEF Interrupt

\* uartprocess keeps the discipline.
LEMMA ProcKeepsDiscipline ==
  ASSUME HalfDuplex, Disciplined, UartProcess PROVE Disciplined'
<1> USE DEF Disciplined, ThreadsTakeTurns, AnsweredOnce, UartIdle, CellPcs, uart, sockets,
      modemRxVars, cellVars, environment, replies, history
<1>1. CASE ProcTake
  <2>1. OneRequest'
    BY <1>1 DEF OneRequest, Chunk, ProcTake
  <2>2. Checked'
    BY <1>1 DEF Checked, OneRequest, Chunk, ProcTake
  <2>3. OneUser'
    BY <1>1 DEF OneUser, OneRequest, ProcTake
  <2>4. OneAnswer'
    BY <1>1 DEF OneAnswer, OneRequest, Chunk, ProcTake
  <2> QED
    BY <2>1, <2>2, <2>3, <2>4
<1>2. CASE ProcEstablish
  <2>1. OneRequest'
    BY <1>2 DEF OneRequest, Chunk, ProcEstablish, Finish, Reply
  <2>2. Checked'
    BY <1>2 DEF Checked, OneRequest, Chunk, ProcEstablish, Finish, Reply
  <2>3. OneUser'
    BY <1>2 DEF OneUser, OneRequest, ProcEstablish, Finish, Reply
  <2>4. OneAnswer'
    BY <1>2 DEF OneAnswer, OneRequest, Chunk, ProcEstablish, Finish, Reply
  <2> QED
    BY <2>1, <2>2, <2>3, <2>4
<1>3. CASE ProcConnect
  <2>1. OneRequest'
    BY <1>3 DEF OneRequest, Chunk, ProcConnect, Finish, Reply
  <2>2. Checked'
    BY <1>3 DEF Checked, OneRequest, Chunk, ProcConnect, Finish, Reply
  <2>3. OneUser'
    BY <1>3 DEF OneUser, OneRequest, ProcConnect, Finish, Reply
  <2>4. OneAnswer'
    BY <1>3 DEF OneAnswer, OneRequest, Chunk, ProcConnect, Finish, Reply
  <2> QED
    BY <2>1, <2>2, <2>3, <2>4
<1>13. CASE ProcOpen
  <2>1. OneRequest'
    BY <1>13 DEF OneRequest, Chunk, ProcOpen, Finish, Reply
  <2>2. Checked'
    BY <1>13 DEF Checked, OneRequest, Chunk, ProcOpen, Finish, Reply
  <2>3. OneUser'
    BY <1>13 DEF OneUser, OneRequest, ProcOpen, Finish, Reply
  <2>4. OneAnswer'
    BY <1>13 DEF OneAnswer, OneRequest, Chunk, ProcOpen, Finish, Reply
  <2> QED
    BY <2>1, <2>2, <2>3, <2>4
<1>14. CASE ProcBind
  <2>1. OneRequest'
    BY <1>14 DEF OneRequest, Chunk, ProcBind, Finish, Reply
  <2>2. Checked'
    BY <1>14 DEF Checked, OneRequest, Chunk, ProcBind, Finish, Reply
  <2>3. OneUser'
    BY <1>14 DEF OneUser, OneRequest, ProcBind, Finish, Reply
  <2>4. OneAnswer'
    BY <1>14 DEF OneAnswer, OneRequest, Chunk, ProcBind, Finish, Reply
  <2> QED
    BY <2>1, <2>2, <2>3, <2>4
<1>4. CASE ProcData
  <2>1. OneRequest'
    BY <1>4 DEF OneRequest, Chunk, ProcData, Finish, Reply
  <2>2. Checked'
    BY <1>4 DEF Checked, OneRequest, Chunk, ProcData, Finish, Reply
  <2>3. OneUser'
    BY <1>4 DEF OneUser, OneRequest, ProcData, Finish, Reply
  <2>4. OneAnswer'
    BY <1>4 DEF OneAnswer, OneRequest, Chunk, ProcData, Finish, Reply
  <2> QED
    BY <2>1, <2>2, <2>3, <2>4
<1>5. CASE ProcLength
  <2>1. OneRequest'
    BY <1>5 DEF OneRequest, Chunk, ProcLength, Finish, Reply
  <2>2. Checked'
    BY <1>5 DEF Checked, OneRequest, Chunk, ProcLength, Finish, Reply
  <2>3. OneUser'
    BY <1>5 DEF OneUser, OneRequest, ProcLength, Finish, Reply
  <2>4. OneAnswer'
    BY <1>5 DEF OneAnswer, OneRequest, Chunk, ProcLength, Finish, Reply
  <2> QED
    BY <2>1, <2>2, <2>3, <2>4
<1>6. CASE ProcAcquire
  <2>1. OneRequest'
    BY <1>6 DEF OneRequest, Chunk, ProcAcquire, Finish, Reply
  <2>2. Checked'
    BY <1>6 DEF Checked, OneRequest, Chunk, ProcAcquire, Finish, Reply
  <2>3. OneUser'
    BY <1>6 DEF OneUser, OneRequest, ProcAcquire, Finish, Reply
  <2>4. OneAnswer'
    BY <1>6 DEF OneAnswer, OneRequest, Chunk, ProcAcquire, Finish, Reply
  <2> QED
    BY <2>1, <2>2, <2>3, <2>4
<1>7. CASE ProcCopy
  <2>1. OneRequest'
    BY <1>7 DEF OneRequest, Chunk, Checked, ProcCopy
  <2>2. Checked'
    BY <1>7 DEF Checked, OneRequest, Chunk, ProcCopy
  <2>3. OneUser'
    BY <1>7 DEF OneUser, OneRequest, Checked, ProcCopy
  <2>4. OneAnswer'
    BY <1>7 DEF OneAnswer, OneRequest, Chunk, Checked, ProcCopy
  <2> QED
    BY <2>1, <2>2, <2>3, <2>4
<1>8. CASE ProcAck
  <2>1. OneRequest'
    BY <1>8 DEF OneRequest, Chunk, ProcAck, Reply
  <2>2. Checked'
    BY <1>8 DEF Checked, OneRequest, Chunk, ProcAck, Reply
  <2>3. OneUser'
    BY <1>8 DEF OneUser, OneRequest, ProcAck, Reply
  <2>4. OneAnswer'
    BY <1>8 DEF OneAnswer, OneRequest, Chunk, ProcAck, Reply
  <2> QED
    BY <2>1, <2>2, <2>3, <2>4
<1>9. CASE ProcSend
  <2>1. OneRequest'
    BY <1>9 DEF OneRequest, Chunk, ProcSend
  <2>2. Checked'
    BY <1>9 DEF Checked, OneRequest, Chunk, ProcSend
  <2>3. OneUser'
    BY <1>9 DEF OneUser, OneRequest, ProcSend
  <2>4. OneAnswer'
    BY <1>9 DEF OneAnswer, OneRequest, Chunk, ProcSend
  <2> QED
    BY <2>1, <2>2, <2>3, <2>4
<1>10. CASE ProcReady
  <2>1. OneRequest'
    BY <1>10 DEF OneRequest, Chunk, ProcReady
  <2>2. Checked'
    BY <1>10 DEF Checked, OneRequest, Chunk, ProcReady
  <2>3. OneUser'
    BY <1>10 DEF OneUser, OneRequest, ProcReady
  <2>4. OneAnswer'
    BY <1>10 DEF OneAnswer, OneRequest, Chunk, ProcReady
  <2> QED
    BY <2>1, <2>2, <2>3, <2>4
<1>11. CASE ProcForward
  <2>1. OneRequest'
    BY <1>11 DEF OneRequest, Chunk, ProcForward, ForwardLeaving
  <2>2. Checked'
    BY <1>11 DEF Checked, OneRequest, Chunk, ProcForward, ForwardLeaving
  <2>3. OneUser'
    BY <1>11 DEF OneUser, OneRequest, ProcForward, ForwardLeaving
  <2>4. OneAnswer'
    BY <1>11 DEF OneAnswer, OneRequest, Chunk, ProcForward, ForwardLeaving
  <2> QED
    BY <2>1, <2>2, <2>3, <2>4
<1>12. CASE ProcQuery
  <2>1. OneRequest'
    BY <1>12 DEF OneRequest, Chunk, ProcQuery, Finish, Reply
  <2>2. Checked'
    BY <1>12 DEF Checked, OneRequest, Chunk, ProcQuery, Finish, Reply
  <2>3. OneUser'
    BY <1>12 DEF OneUser, OneRequest, ProcQuery, Finish, Reply
  <2>4. OneAnswer'
    BY <1>12 DEF OneAnswer, OneRequest, Chunk, ProcQuery, Finish, Reply
  <2> QED
    BY <2>1, <2>2, <2>3, <2>4
<1> QED
  BY <1>1, <1>2, <1>3, <1>4, <1>5, <1>6, <1>7, <1>8, <1>9, <1>10, <1>11, <1>12,
     <1>13, <1>14
     DEF UartProcess

\* cellrecv keeps the discipline.
LEMMA CellKeepsDiscipline ==
  ASSUME HalfDuplex, Disciplined, CellRecv PROVE Disciplined'
<1> USE DEF Disciplined, ThreadsTakeTurns, AnsweredOnce, UartIdle, CellPcs, uart, sockets,
      modemRxVars, cellVars, environment, replies, history
<1>1. CASE CellStart
  <2>1. OneRequest'
    BY <1>1 DEF OneRequest, Chunk, CellStart, CellStep
  <2>2. Checked'
    BY <1>1 DEF Checked, OneRequest, Chunk, CellStart, CellStep
  <2>3. OneUser'
    BY <1>1 DEF OneUser, OneRequest, CellStart, CellStep
  <2>4. OneAnswer'
    BY <1>1 DEF OneAnswer, OneRequest, Chunk, CellStart, CellStep
  <2> QED
    BY <2>1, <2>2, <2>3, <2>4
<1>2. CASE CellTake
  <2>1. OneRequest'
    BY <1>2 DEF OneRequest, Chunk, CellTake, CellStep
  <2>2. Checked'
    BY <1>2 DEF Checked, OneRequest, Chunk, CellTake, CellStep
  <2>3. OneUser'
    BY <1>2 DEF OneUser, OneRequest, CellTake, CellStep
  <2>4. OneAnswer'
    BY <1>2 DEF OneAnswer, OneRequest, Chunk, CellTake, CellStep
  <2> QED
    BY <2>1, <2>2, <2>3, <2>4
<1>3. CASE CellClear
  <2>1. OneRequest'
    BY <1>3 DEF OneRequest, Chunk, CellClear, CellStep
  <2>2. Checked'
    BY <1>3 DEF Checked, OneRequest, Chunk, CellClear, CellStep
  <2>3. OneUser'
    BY <1>3 DEF OneUser, OneRequest, CellClear, CellStep
  <2>4. OneAnswer'
    BY <1>3 DEF OneAnswer, OneRequest, Chunk, CellClear, CellStep
  <2> QED
    BY <2>1, <2>2, <2>3, <2>4
<1>4. CASE CellCall
  <2>1. OneRequest'
    BY <1>4 DEF OneRequest, Chunk, CellCall, CellStep
  <2>2. Checked'
    BY <1>4 DEF Checked, OneRequest, Chunk, CellCall, CellStep
  <2>3. OneUser'
    BY <1>4 DEF OneUser, OneRequest, CellCall, CellStep
  <2>4. OneAnswer'
    BY <1>4 DEF OneAnswer, OneRequest, Chunk, CellCall, CellStep
  <2> QED
    BY <2>1, <2>2, <2>3, <2>4
<1>5. CASE CellReceive
  <2>1. OneRequest'
    BY <1>5 DEF OneRequest, Chunk, CellReceive, CellStep
  <2>2. Checked'
    BY <1>5 DEF Checked, OneRequest, Chunk, CellReceive, CellStep
  <2>3. OneUser'
    BY <1>5 DEF OneUser, OneRequest, CellReceive, CellStep
  <2>4. OneAnswer'
    BY <1>5 DEF OneAnswer, OneRequest, Chunk, CellReceive, CellStep
  <2> QED
    BY <2>1, <2>2, <2>3, <2>4
<1>6. CASE CellError
  <2>1. OneRequest'
    BY <1>6 DEF OneRequest, Chunk, CellError, CellStep
  <2>2. Checked'
    BY <1>6 DEF Checked, OneRequest, Chunk, CellError, CellStep
  <2>3. OneUser'
    BY <1>6 DEF OneUser, OneRequest, CellError, CellStep
  <2>4. OneAnswer'
    BY <1>6 DEF OneAnswer, OneRequest, Chunk, CellError, CellStep
  <2> QED
    BY <2>1, <2>2, <2>3, <2>4
<1>7. CASE CellAnnounce
  <2>1. OneRequest'
    BY <1>7 DEF OneRequest, Chunk, CellAnnounce, CellStep
  <2>2. Checked'
    BY <1>7 DEF Checked, OneRequest, Chunk, CellAnnounce, CellStep
  <2>3. OneUser'
    BY <1>7 DEF OneUser, OneRequest, CellAnnounce, CellStep
  <2>4. OneAnswer'
    BY <1>7 DEF OneAnswer, OneRequest, Chunk, CellAnnounce, CellStep
  <2> QED
    BY <2>1, <2>2, <2>3, <2>4
<1>8. CASE CellReject
  <2>1. OneRequest'
    BY <1>8 DEF OneRequest, Chunk, CellReject, CellStep
  <2>2. Checked'
    BY <1>8 DEF Checked, OneRequest, Chunk, CellReject, CellStep
  <2>3. OneUser'
    BY <1>8 DEF OneUser, OneRequest, CellReject, CellStep
  <2>4. OneAnswer'
    BY <1>8 DEF OneAnswer, OneRequest, Chunk, CellReject, CellStep
  <2> QED
    BY <2>1, <2>2, <2>3, <2>4
<1> QED
  BY <1>1, <1>2, <1>3, <1>4, <1>5, <1>6, <1>7, <1>8 DEF CellRecv

\* The inductive invariant of a gateway whose host does one thing at a time.
THEOREM Discipline == HalfDuplex /\ Spec => []Disciplined
<1> SUFFICES ASSUME HalfDuplex PROVE Spec => []Disciplined
  OBVIOUS
<1>1. Init => Disciplined
  <2> SUFFICES ASSUME Init PROVE Disciplined
    OBVIOUS
  <2> USE DEF Init
  <2>1. OneRequest
    BY DEF OneRequest
  <2>2. Checked
    BY DEF Checked
  <2>3. OneUser
    BY DEF OneUser, ThreadsTakeTurns, CellPcs
  <2>4. OneAnswer
    BY DEF OneAnswer, AnsweredOnce
  <2> QED
    BY <2>1, <2>2, <2>3, <2>4 DEF Disciplined
<1>2. Disciplined /\ [Next]_vars => Disciplined'
  <2> SUFFICES ASSUME Disciplined, [Next]_vars PROVE Disciplined'
    OBVIOUS
  <2>1. CASE UNCHANGED vars
    BY <2>1
       DEF vars, Disciplined, OneRequest, Checked, OneUser, ThreadsTakeTurns, OneAnswer,
           AnsweredOnce,
       uart, sockets, modemRxVars, cellVars, environment, replies, history
  <2>2. CASE UartProcess
    BY <2>2, ProcKeepsDiscipline
  <2>3. CASE CellRecv
    BY <2>3, CellKeepsDiscipline
  <2>4. CASE Interrupt
    BY <2>4, InterruptsKeepDiscipline
  <2> QED
    BY <2>1, <2>2, <2>3, <2>4 DEF Next, Interrupt
<1> QED
  BY <1>1, <1>2, PTL DEF Spec

\* With such a host cellrecv and uartprocess use modem_rx_buf in turns: no datagram
\* is announced or forwarded while cellrecv fills the buffer, and the semaphore is
\* free only when neither needs it.
THEOREM ThreadsShareBufferByTurns == HalfDuplex /\ Spec => []ThreadsTakeTurns
<1>1. Disciplined => ThreadsTakeTurns
  BY DEF Disciplined, OneUser
<1> QED
  BY <1>1, Discipline, PTL

\* With such a host every request is answered exactly once.
THEOREM RequestsAreAnswered == HalfDuplex /\ Spec => []AnsweredOnce
<1>1. Disciplined => AnsweredOnce
  BY DEF Disciplined, OneAnswer
<1> QED
  BY <1>1, Discipline, PTL
------------------------------------------------------------------------------
(* Types.  A request that waits or is served is one the host wrote, and    *)
(* the local of modem_connect_ipv4 is a port: without these two the types  *)
(* are not inductive.                                                      *)

ThreadsTyped ==
  /\ rxChunk \in Chunk \cup {None}
  /\ {dataReady, lte, configured, txAvailable, rxAvailable} \subseteq {0, 1}
  /\ proc \in ProcPcs /\ cell \in CellPcs
  /\ job \in Ports \cup {"C", "S", None}
  /\ modemRxLen \in {"zero", "raw", "framed"} /\ wake \in BOOLEAN
  /\ cellPeer \in {"server", "other", "unknown"}
  /\ writes \in 0..MaxWrites /\ answers \in Nat
  /\ dataReady = 1 \/ proc # "wait" => rxChunk \in Chunk
  /\ proc \in {"connect", "open", "bind"} => job \in Ports

SocketsTyped ==
  /\ {streamFd, controlFd, cellFd} \subseteq Sockets
  /\ bound \subseteq {"stream", "control"} \X Ports

Datagram == [id : Datagrams, from : Senders]

MessagesTyped ==
  /\ modemTx \in Payload \cup {Junk}
  /\ modemRx \in Datagrams \cup {Junk}
  /\ tx \in [what : {"A", "N", "R", "frame"}, msg : Datagrams \cup {Junk}] \cup {None}
  /\ downlink \in [Ports -> Seq(Datagram)]
  /\ arrived \in 0..MaxDatagrams
  /\ forwarded \in Seq(Datagrams)
  /\ toHost \subseteq Datagrams \cup {Junk}

Typed == ThreadsTyped /\ SocketsTyped /\ MessagesTyped

LEMMA TypedGivesTypeOK == Typed => TypeOK
  BY DEF Typed, ThreadsTyped, SocketsTyped, MessagesTyped, TypeOK, Datagram

\* A chunk the host writes keeps the types, whoever counts the writes.
LEMMA ReceiveTyped ==
  ASSUME Typed, NEW c \in Chunk, ReceiveReady(c), writes' \in 0..MaxWrites PROVE Typed'
<1> USE DEF ReceiveReady, uart, sockets, modemRxVars, cellVars, replies, history
<1>1. ThreadsTyped'
  BY DEF Typed, ThreadsTyped
<1>2. SocketsTyped'
  BY DEF Typed, SocketsTyped
<1>3. MessagesTyped'
  BY DEF Typed, MessagesTyped
<1> QED
  BY <1>1, <1>2, <1>3 DEF Typed

\* So do the other interrupts and the network.
LEMMA InterruptsTyped ==
  ASSUME Typed, WakeIn \/ TxDone \/ Registered
                  \/ \E p \in Ports, from \in Senders : Arrive(p, from)
  PROVE Typed'
<1> USE DEF Typed, uart, sockets, modemRxVars, cellVars, environment, replies, history
<1>1. ASSUME NEW p \in Ports, NEW from \in Senders, Arrive(p, from) PROVE Typed'
  <2>1. ThreadsTyped'
    BY <1>1 DEF ThreadsTyped, Arrive
  <2>2. SocketsTyped'
    BY <1>1 DEF SocketsTyped, Arrive
  <2>3. MessagesTyped'
    <3>1. /\ arrived < MaxDatagrams /\ arrived' = arrived + 1
          /\ downlink' = [downlink EXCEPT ![p] = Append(@, [id |-> arrived + 1, from |-> from])]
          /\ UNCHANGED <<modemTx, modemRx, tx, forwarded, toHost>>
      BY <1>1 DEF Arrive
    <3>2. arrived + 1 \in Datagrams /\ [id |-> arrived + 1, from |-> from] \in Datagram
      BY <3>1, BridgeAssumption DEF MessagesTyped, Datagrams, Datagram
    <3>3. downlink' \in [Ports -> Seq(Datagram)]
      <4> HIDE DEF Datagram
      <4> QED
        BY <3>1, <3>2 DEF MessagesTyped
    <3> QED
      BY <3>1, <3>2, <3>3 DEF MessagesTyped, Datagrams
  <2> QED
    BY <2>1, <2>2, <2>3
<1>2. CASE WakeIn
  <2>1. ThreadsTyped'
    BY <1>2, BridgeAssumption DEF ThreadsTyped, WakeIn, Reply
  <2>2. SocketsTyped'
    BY <1>2, BridgeAssumption DEF SocketsTyped, WakeIn, Reply
  <2>3. MessagesTyped'
    BY <1>2, BridgeAssumption DEF MessagesTyped, WakeIn, Reply
  <2> QED
    BY <2>1, <2>2, <2>3
<1>3. CASE TxDone
  <2>1. ThreadsTyped'
    BY <1>3 DEF ThreadsTyped, TxDone
  <2>2. SocketsTyped'
    BY <1>3 DEF SocketsTyped, TxDone
  <2>3. MessagesTyped'
    BY <1>3 DEF MessagesTyped, TxDone
  <2> QED
    BY <2>1, <2>2, <2>3
<1>4. CASE Registered
  <2>1. ThreadsTyped'
    BY <1>4 DEF ThreadsTyped, Registered
  <2>2. SocketsTyped'
    BY <1>4 DEF SocketsTyped, Registered
  <2>3. MessagesTyped'
    BY <1>4 DEF MessagesTyped, Registered
  <2> QED
    BY <2>1, <2>2, <2>3
<1> QED
  BY <1>1, <1>2, <1>3, <1>4

\* uartprocess keeps the types.
LEMMA ProcTyped ==
  ASSUME Typed, UartProcess PROVE Typed'
<1> USE DEF Typed, uart, sockets, modemRxVars, cellVars, environment, replies, history
<1>1. CASE ProcTake
  <2>1. ThreadsTyped'
    BY <1>1 DEF ThreadsTyped, ProcTake, Chunk, ProcPcs
  <2>2. SocketsTyped'
    BY <1>1 DEF SocketsTyped, ProcTake, Chunk, ProcPcs
  <2>3. MessagesTyped'
    BY <1>1 DEF MessagesTyped, ProcTake, Chunk, ProcPcs
  <2> QED
    BY <2>1, <2>2, <2>3
<1>2. CASE ProcEstablish
  <2>1. ThreadsTyped'
    BY <1>2 DEF ThreadsTyped, ProcEstablish, Finish, Reply, Chunk, ProcPcs
  <2>2. SocketsTyped'
    BY <1>2 DEF SocketsTyped, ProcEstablish, Finish, Reply, Chunk, ProcPcs
  <2>3. MessagesTyped'
    BY <1>2 DEF MessagesTyped, ProcEstablish, Finish, Reply, Chunk, ProcPcs
  <2> QED
    BY <2>1, <2>2, <2>3
<1>3. CASE ProcConnect
  <2>1. ThreadsTyped'
    BY <1>3 DEF ThreadsTyped, ProcConnect, Finish, Reply, Chunk, ProcPcs
  <2>2. SocketsTyped'
    BY <1>3 DEF ThreadsTyped, SocketsTyped, Sockets, ProcConnect
  <2>3. MessagesTyped'
    BY <1>3 DEF MessagesTyped, ProcConnect, Finish, Reply, Chunk, ProcPcs
  <2> QED
    BY <2>1, <2>2, <2>3
<1>13. CASE ProcOpen
  <2>1. ThreadsTyped'
    BY <1>13 DEF ThreadsTyped, ProcOpen, Finish, Reply, Chunk, ProcPcs
  <2>2. SocketsTyped'
    BY <1>13 DEF ThreadsTyped, SocketsTyped, Sockets, ProcOpen
  <2>3. MessagesTyped'
    BY <1>13 DEF MessagesTyped, ProcOpen, Finish, Reply, Chunk, ProcPcs
  <2> QED
    BY <2>1, <2>2, <2>3
<1>14. CASE ProcBind
  <2>1. ThreadsTyped'
    BY <1>14 DEF ThreadsTyped, ProcBind, Finish, Reply, Chunk, ProcPcs
  <2>2. SocketsTyped'
    BY <1>14 DEF ThreadsTyped, SocketsTyped, Sockets, ProcBind
  <2>3. MessagesTyped'
    BY <1>14 DEF MessagesTyped, ProcBind, Finish, Reply, Chunk, ProcPcs
  <2> QED
    BY <2>1, <2>2, <2>3
<1>4. CASE ProcData
  <2>1. ThreadsTyped'
    BY <1>4 DEF ThreadsTyped, ProcData, Finish, Reply, Chunk, ProcPcs
  <2>2. SocketsTyped'
    BY <1>4 DEF SocketsTyped, ProcData, Finish, Reply, Chunk, ProcPcs
  <2>3. MessagesTyped'
    BY <1>4 DEF MessagesTyped, ProcData, Finish, Reply, Chunk, ProcPcs
  <2> QED
    BY <2>1, <2>2, <2>3
<1>5. CASE ProcLength
  <2>1. ThreadsTyped'
    BY <1>5 DEF ThreadsTyped, ProcLength, Finish, Reply, Chunk, ProcPcs
  <2>2. SocketsTyped'
    BY <1>5 DEF SocketsTyped, ProcLength, Finish, Reply, Chunk, ProcPcs
  <2>3. MessagesTyped'
    BY <1>5 DEF MessagesTyped, ProcLength, Finish, Reply, Chunk, ProcPcs
  <2> QED
    BY <2>1, <2>2, <2>3
<1>6. CASE ProcAcquire
  <2>1. ThreadsTyped'
    BY <1>6 DEF ThreadsTyped, ProcAcquire, Finish, Reply, Chunk, ProcPcs
  <2>2. SocketsTyped'
    BY <1>6 DEF SocketsTyped, ProcAcquire, Finish, Reply, Chunk, ProcPcs
  <2>3. MessagesTyped'
    BY <1>6 DEF MessagesTyped, ProcAcquire, Finish, Reply, Chunk, ProcPcs
  <2> QED
    BY <2>1, <2>2, <2>3
<1>7. CASE ProcCopy
  <2>1. ThreadsTyped'
    BY <1>7 DEF ThreadsTyped, ProcCopy, Chunk, ProcPcs
  <2>2. SocketsTyped'
    BY <1>7 DEF SocketsTyped, ProcCopy, Chunk, ProcPcs
  <2>3. MessagesTyped'
    BY <1>7 DEF ThreadsTyped, MessagesTyped, ProcCopy, Chunk
  <2> QED
    BY <2>1, <2>2, <2>3
<1>8. CASE ProcAck
  <2>1. ThreadsTyped'
    BY <1>8 DEF ThreadsTyped, ProcAck, Reply, Chunk, ProcPcs
  <2>2. SocketsTyped'
    BY <1>8 DEF SocketsTyped, ProcAck, Reply, Chunk, ProcPcs
  <2>3. MessagesTyped'
    BY <1>8 DEF MessagesTyped, ProcAck, Reply, Chunk, ProcPcs
  <2> QED
    BY <2>1, <2>2, <2>3
<1>9. CASE ProcSend
  <2>1. ThreadsTyped'
    BY <1>9 DEF ThreadsTyped, ProcSend, Chunk, ProcPcs
  <2>2. SocketsTyped'
    BY <1>9 DEF SocketsTyped, ProcSend, Chunk, ProcPcs
  <2>3. MessagesTyped'
    BY <1>9 DEF MessagesTyped, ProcSend, Chunk, ProcPcs
  <2> QED
    BY <2>1, <2>2, <2>3
<1>10. CASE ProcReady
  <2>1. ThreadsTyped'
    BY <1>10 DEF ThreadsTyped, ProcReady, Chunk, ProcPcs
  <2>2. SocketsTyped'
    BY <1>10 DEF SocketsTyped, ProcReady, Chunk, ProcPcs
  <2>3. MessagesTyped'
    BY <1>10 DEF MessagesTyped, ProcReady, Chunk, ProcPcs
  <2> QED
    BY <2>1, <2>2, <2>3
<1>11. CASE ProcForward
  <2>1. ThreadsTyped'
    BY <1>11 DEF ThreadsTyped, ProcForward, ForwardLeaving, Chunk, ProcPcs
  <2>2. SocketsTyped'
    BY <1>11 DEF SocketsTyped, ProcForward, ForwardLeaving, Chunk, ProcPcs
  <2>3. MessagesTyped'
    <3> DEFINE frame == IF modemRxLen = "framed" THEN modemRx ELSE Junk
    <3>1. /\ tx' \in {tx, [what |-> "frame", msg |-> frame]}
          /\ forwarded' \in {forwarded, Append(forwarded, frame)}
          /\ frame = Junk => forwarded' = forwarded
          /\ UNCHANGED <<modemTx, modemRx, downlink, arrived, toHost>>
      BY <1>11 DEF ProcForward, ForwardLeaving
    <3>2. frame \in Datagrams \cup {Junk}
      BY DEF MessagesTyped
    <3> HIDE DEF frame
    <3>3. forwarded' \in Seq(Datagrams)
      BY <3>1, <3>2 DEF MessagesTyped
    <3> QED
      BY <3>1, <3>2, <3>3 DEF MessagesTyped
  <2> QED
    BY <2>1, <2>2, <2>3
<1>12. CASE ProcQuery
  <2>1. ThreadsTyped'
    BY <1>12 DEF ThreadsTyped, ProcQuery, Finish, Reply, Chunk, ProcPcs
  <2>2. SocketsTyped'
    BY <1>12 DEF SocketsTyped, ProcQuery, Finish, Reply, Chunk, ProcPcs
  <2>3. MessagesTyped'
    BY <1>12 DEF MessagesTyped, ProcQuery, Finish, Reply, Chunk, ProcPcs
  <2> QED
    BY <2>1, <2>2, <2>3
<1> QED
  BY <1>1, <1>2, <1>3, <1>4, <1>5, <1>6, <1>7, <1>8, <1>9, <1>10, <1>11, <1>12,
     <1>13, <1>14
     DEF UartProcess

\* cellrecv keeps the types.
LEMMA CellTyped ==
  ASSUME Typed, CellRecv PROVE Typed'
<1> USE DEF Typed, uart, sockets, modemRxVars, cellVars, environment, replies, history
<1>1. CASE CellStart
  <2>1. ThreadsTyped'
    BY <1>1 DEF ThreadsTyped, CellStart, CellStep, CellPcs
  <2>2. SocketsTyped'
    BY <1>1 DEF SocketsTyped, CellStart, CellStep, CellPcs
  <2>3. MessagesTyped'
    BY <1>1 DEF MessagesTyped, CellStart, CellStep, CellPcs
  <2> QED
    BY <2>1, <2>2, <2>3
<1>2. CASE CellTake
  <2>1. ThreadsTyped'
    BY <1>2 DEF ThreadsTyped, CellTake, CellStep, CellPcs
  <2>2. SocketsTyped'
    BY <1>2 DEF SocketsTyped, CellTake, CellStep, CellPcs
  <2>3. MessagesTyped'
    BY <1>2 DEF MessagesTyped, CellTake, CellStep, CellPcs
  <2> QED
    BY <2>1, <2>2, <2>3
<1>3. CASE CellClear
  <2>1. ThreadsTyped'
    BY <1>3 DEF ThreadsTyped, CellClear, CellStep, CellPcs
  <2>2. SocketsTyped'
    BY <1>3 DEF SocketsTyped, CellClear, CellStep, CellPcs
  <2>3. MessagesTyped'
    BY <1>3 DEF MessagesTyped, CellClear, CellStep, CellPcs
  <2> QED
    BY <2>1, <2>2, <2>3
<1>4. CASE CellCall
  <2>1. ThreadsTyped'
    BY <1>4 DEF ThreadsTyped, CellCall, CellStep, CellPcs
  <2>2. SocketsTyped'
    BY <1>4 DEF SocketsTyped, CellCall, CellStep, CellPcs
  <2>3. MessagesTyped'
    BY <1>4 DEF MessagesTyped, CellCall, CellStep, CellPcs
  <2> QED
    BY <2>1, <2>2, <2>3
<1>5. CASE CellReceive
  <2>1. ThreadsTyped'
    <3>1. Head(downlink[cellFd]) \in Datagram
      <4> HIDE DEF Datagram
      <4> QED
        BY <1>5 DEF CellReceive, MessagesTyped
    <3> QED
      BY <1>5, <3>1, BridgeAssumption
         DEF ThreadsTyped, CellReceive, CellStep, CellPcs, Datagram
  <2>2. SocketsTyped'
    BY <1>5 DEF SocketsTyped, CellReceive, CellStep, CellPcs
  <2>3. MessagesTyped'
    <3> DEFINE d == Head(downlink[cellFd])
    <3>1. /\ cellFd \in Ports /\ downlink[cellFd] # <<>>
          /\ modemRx' = d.id
          /\ downlink' = [downlink EXCEPT ![cellFd] = Tail(@)]
          /\ UNCHANGED <<modemTx, tx, arrived, forwarded, toHost>>
      BY <1>5 DEF CellReceive
    <3>2. d \in Datagram /\ downlink' \in [Ports -> Seq(Datagram)]
      <4> HIDE DEF Datagram
      <4> QED
        BY <3>1 DEF MessagesTyped
    <3> QED
      BY <3>1, <3>2 DEF MessagesTyped, Datagram
  <2> QED
    BY <2>1, <2>2, <2>3
<1>6. CASE CellError
  <2>1. ThreadsTyped'
    BY <1>6 DEF ThreadsTyped, CellError, CellStep, CellPcs
  <2>2. SocketsTyped'
    BY <1>6 DEF SocketsTyped, CellError, CellStep, CellPcs
  <2>3. MessagesTyped'
    BY <1>6 DEF MessagesTyped, CellError, CellStep, CellPcs
  <2> QED
    BY <2>1, <2>2, <2>3
<1>7. CASE CellAnnounce
  <2>1. ThreadsTyped'
    BY <1>7 DEF ThreadsTyped, CellAnnounce, CellStep, CellPcs
  <2>2. SocketsTyped'
    BY <1>7 DEF SocketsTyped, CellAnnounce, CellStep, CellPcs
  <2>3. MessagesTyped'
    BY <1>7 DEF MessagesTyped, CellAnnounce, CellStep, CellPcs
  <2> QED
    BY <2>1, <2>2, <2>3
<1>8. CASE CellReject
  <2>1. ThreadsTyped'
    BY <1>8 DEF ThreadsTyped, CellReject, CellStep, CellPcs
  <2>2. SocketsTyped'
    BY <1>8 DEF SocketsTyped, CellReject, CellStep, CellPcs
  <2>3. MessagesTyped'
    BY <1>8 DEF MessagesTyped, CellReject, CellStep, CellPcs
  <2> QED
    BY <2>1, <2>2, <2>3
<1> QED
  BY <1>1, <1>2, <1>3, <1>4, <1>5, <1>6, <1>7, <1>8 DEF CellRecv

LEMMA InitTyped == Init => Typed
<1> SUFFICES ASSUME Init PROVE Typed
  OBVIOUS
<1> USE DEF Init
<1>1. ThreadsTyped
  <2>1. wake \in BOOLEAN
    OBVIOUS
  <2>2. writes \in 0..MaxWrites /\ answers \in Nat
    BY BridgeAssumption
  <2> QED
    BY <2>1, <2>2 DEF ThreadsTyped, ProcPcs, CellPcs
<1>2. SocketsTyped
  BY DEF SocketsTyped, Sockets
<1>3. MessagesTyped
  BY BridgeAssumption DEF MessagesTyped
<1> QED
  BY <1>1, <1>2, <1>3 DEF Typed

LEMMA TypedPreserved == Typed /\ [Next]_vars => Typed'
<1> SUFFICES ASSUME Typed, [Next]_vars PROVE Typed'
  OBVIOUS
<1>1. CASE UNCHANGED vars
  BY <1>1
     DEF vars, Typed, ThreadsTyped, SocketsTyped, MessagesTyped, uart, sockets,
         modemRxVars, cellVars, environment, replies, history
<1>2. ASSUME NEW c \in Chunk, HostWrite(c) PROVE Typed'
  <2>1. writes' \in 0..MaxWrites
    BY <1>2, BridgeAssumption DEF HostWrite, Typed, ThreadsTyped
  <2> QED
    BY <1>2, <2>1, ReceiveTyped DEF HostWrite
<1>3. CASE HostReady
  <2>1. [type |-> "R"] \in Chunk /\ writes' \in 0..MaxWrites
    BY <1>3 DEF HostReady, Typed, ThreadsTyped, Chunk
  <2> QED
    BY <1>3, <2>1, ReceiveTyped DEF HostReady
<1> QED
  BY <1>1, <1>2, <1>3, InterruptsTyped, ProcTyped, CellTyped DEF Next

\* Whatever the host does, every variable of the gateway keeps its type.
THEOREM TypeCorrect == Spec => []TypeOK
<1>1. Spec => []Typed
  BY InitTyped, TypedPreserved, PTL DEF Spec
<1> QED
  BY <1>1, TypedGivesTypeOK, PTL
------------------------------------------------------------------------------
(* Datagrams, with such a host.  They pass from a socket's queue through   *)
(* modem_rx_buf to the UART.                                               *)

ControlPorts == {p \in Ports : <<"control", p>> \in bound}
OneControlPort == \A p, q \in ControlPorts : p = q

\* modem_rx_buf holds a datagram that is yet to be forwarded.
InHand == modemRx # Junk /\ (cell = "check" \/ wake \/ proc = "forward")

\* d has left a place e is still in or left later: they differ, and d is the
\* older one unless there are two queues.
Apart(d, e) == d # e /\ (OneControlPort => d < e)

Queues ==
  /\ IsFiniteSet(ControlPorts)
  /\ \A p \in Ports : downlink[p] # <<>> => p \in ControlPorts
  /\ \A p \in Ports : \A i \in DOMAIN downlink[p] : downlink[p][i].id <= arrived
  /\ \A p \in Ports : \A i, j \in DOMAIN downlink[p] :
       i < j => downlink[p][i].id < downlink[p][j].id
  /\ \A p, q \in Ports : \A i \in DOMAIN downlink[p], j \in DOMAIN downlink[q] :
       p # q => downlink[p][i].id # downlink[q][j].id

HandLeft ==
  InHand => /\ modemRx <= arrived
            /\ \A p \in Ports : \A i \in DOMAIN downlink[p] : Apart(modemRx, downlink[p][i].id)

ForwardedLeft ==
  \A k \in DOMAIN forwarded :
    /\ forwarded[k] <= arrived
    /\ \A p \in Ports : \A i \in DOMAIN downlink[p] : Apart(forwarded[k], downlink[p][i].id)
    /\ InHand => Apart(forwarded[k], modemRx)
    /\ \A l \in DOMAIN forwarded : k < l => Apart(forwarded[k], forwarded[l])

Passage == Queues /\ HandLeft /\ ForwardedLeft

\* Datagrams are numbered.
LEMMA QueueEntry ==
  ASSUME Typed, NEW p \in Ports, NEW i \in DOMAIN downlink[p]
  PROVE downlink[p][i].id \in Nat
<1>1. downlink[p] \in Seq(Datagram)
  BY DEF Typed, MessagesTyped
<1>2. downlink[p][i] \in Datagram
  <2> HIDE DEF Datagram
  <2> QED
    BY <1>1
<1> QED
  BY <1>2, BridgeAssumption DEF Datagram, Datagrams

\* What moves no datagram, opens no socket and announces nothing new.
LEMMA NothingPasses ==
  ASSUME Passage, UNCHANGED <<bound, downlink, arrived, forwarded, modemRx>>, InHand' => InHand
  PROVE  Passage'
<1>1. ControlPorts' = ControlPorts /\ (OneControlPort' <=> OneControlPort)
  BY DEF ControlPorts, OneControlPort
<1>2. \A d, e : Apart(d, e)' <=> Apart(d, e)
  BY <1>1 DEF Apart
<1>3. Queues'
  BY <1>1 DEF Passage, Queues
<1>4. HandLeft'
  BY <1>2 DEF Passage, HandLeft, Apart
<1>5. ForwardedLeft'
  BY <1>2 DEF Passage, ForwardedLeft
<1> QED
  BY <1>3, <1>4, <1>5 DEF Passage

\* A socket is bound: where there were two queues there still are.
LEMMA ConnectPasses == ASSUME Typed, Passage, ProcConnect \/ ProcBind PROVE Passage'
<1>1. /\ job \in Ports
      /\ bound' \in {bound, bound \cup {<<"stream", job>>}, bound \cup {<<"control", job>>}}
      /\ UNCHANGED <<downlink, arrived, forwarded, modemRx, cell, wake>>
      /\ proc' # "forward"
  BY DEF ProcConnect, ProcBind, Finish, Typed, ThreadsTyped, modemRxVars, cellVars,
         environment, history
<1>2. ControlPorts' \in {ControlPorts, ControlPorts \cup {job}}
  BY <1>1 DEF ControlPorts
<1>3. IsFiniteSet(ControlPorts') /\ ControlPorts \subseteq ControlPorts'
  BY <1>2, FS_AddElement DEF Passage, Queues
<1>4. OneControlPort' => OneControlPort
  BY <1>3 DEF OneControlPort
<1>5. InHand' => InHand
  BY <1>1 DEF InHand
<1>6. \A d, e : Apart(d, e) => Apart(d, e)'
  BY <1>4 DEF Apart
<1>7. Queues'
  BY <1>1, <1>3 DEF Passage, Queues
<1>8. HandLeft'
  BY <1>1, <1>4, <1>5 DEF Passage, HandLeft, Apart
<1>9. ForwardedLeft'
  BY <1>1, <1>4, <1>5 DEF Passage, ForwardedLeft, Apart
<1> QED
  BY <1>7, <1>8, <1>9 DEF Passage

\* A datagram that arrives is younger than every other.
LEMMA ArrivalPasses ==
  ASSUME Typed, Passage, NEW p \in Ports, NEW from \in Senders, Arrive(p, from)
  PROVE  Passage'
<1> DEFINE d == [id |-> arrived + 1, from |-> from]
<1>1. /\ <<"control", p>> \in bound
      /\ arrived' = arrived + 1
      /\ downlink' = [downlink EXCEPT ![p] = Append(downlink[p], d)]
      /\ UNCHANGED <<bound, forwarded, modemRx, cell, wake, proc>>
  BY DEF Arrive, sockets, modemRxVars, cellVars, history
<1>2. arrived \in Nat /\ d \in Datagram
  BY BridgeAssumption DEF Typed, MessagesTyped, Arrive, Datagram, Datagrams
<1>3. downlink \in [Ports -> Seq(Datagram)]
  BY DEF Typed, MessagesTyped
<1>4. forwarded \in Seq(Nat)
  BY SeqMonotonic, Datagrams \subseteq Nat, BridgeAssumption
     DEF Typed, MessagesTyped, Datagrams
<1>5. modemRx \in Nat \/ modemRx = Junk
  BY BridgeAssumption DEF Typed, MessagesTyped, Datagrams
<1>6. /\ ControlPorts' = ControlPorts /\ p \in ControlPorts
      /\ OneControlPort' <=> OneControlPort
      /\ InHand' <=> InHand
  BY <1>1 DEF ControlPorts, OneControlPort, InHand
<1>7. ASSUME NEW q \in Ports, NEW i \in DOMAIN downlink'[q]
      PROVE  /\ i \in Nat
             /\ \/ i \in DOMAIN downlink[q] /\ downlink'[q][i] = downlink[q][i]
                \/ q = p /\ i = Len(downlink[p]) + 1 /\ downlink'[q][i] = d
  <2> HIDE DEF d
  <2>1. CASE q = p
    BY <1>1, <1>2, <1>3, <1>7, <2>1
  <2>2. CASE q # p
    BY <1>1, <1>3, <1>7, <2>2
  <2> QED
    BY <2>1, <2>2
<1>8. ASSUME NEW q \in Ports, NEW i \in DOMAIN downlink[q]
      PROVE  downlink[q][i].id \in Nat /\ downlink[q][i].id < d.id
  BY <1>2, <1>8, QueueEntry DEF Passage, Queues
<1>9. d.id = arrived + 1
  OBVIOUS
<1> HIDE DEF d
<1>10. Queues'
  <2>1. IsFiniteSet(ControlPorts')
    BY <1>6 DEF Passage, Queues
  <2>2. \A q \in Ports : downlink'[q] # <<>> => q \in ControlPorts'
    BY <1>1, <1>6 DEF Passage, Queues
  <2>3. \A q \in Ports : \A i \in DOMAIN downlink'[q] : downlink'[q][i].id <= arrived'
    BY <1>1, <1>2, <1>7, <1>8, <1>9
  <2>4. ASSUME NEW q \in Ports, NEW i \in DOMAIN downlink'[q], NEW j \in DOMAIN downlink'[q], i < j
        PROVE  downlink'[q][i].id < downlink'[q][j].id
    <3>1. CASE j \in DOMAIN downlink[q] /\ downlink'[q][j] = downlink[q][j]
      <4>1. i \in DOMAIN downlink[q] /\ downlink'[q][i] = downlink[q][i]
        BY <1>3, <1>7, <2>4, <3>1
      <4> QED
        BY <2>4, <3>1, <4>1 DEF Passage, Queues
    <3>2. CASE q = p /\ j = Len(downlink[p]) + 1 /\ downlink'[q][j] = d
      <4>1. i \in DOMAIN downlink[q] /\ downlink'[q][i] = downlink[q][i]
        BY <1>3, <1>7, <2>4, <3>2
      <4> QED
        BY <1>8, <3>2, <4>1
    <3> QED
      BY <1>7, <3>1, <3>2
  <2>5. ASSUME NEW q \in Ports, NEW r \in Ports, q # r,
               NEW i \in DOMAIN downlink'[q], NEW j \in DOMAIN downlink'[r]
        PROVE  downlink'[q][i].id # downlink'[r][j].id
    <3>1. CASE q # p /\ r # p
      BY <1>7, <2>5, <3>1 DEF Passage, Queues
    <3>2. CASE q = p
      <4>1. j \in DOMAIN downlink[r] /\ downlink'[r][j] = downlink[r][j]
        BY <1>7, <2>5, <3>2
      <4>2. CASE downlink'[q][i] = d
        BY <1>2, <1>8, <1>9, <4>1, <4>2
      <4>3. CASE i \in DOMAIN downlink[q] /\ downlink'[q][i] = downlink[q][i]
        BY <2>5, <4>1, <4>3 DEF Passage, Queues
      <4> QED
        BY <1>7, <4>2, <4>3
    <3>3. CASE r = p
      <4>1. i \in DOMAIN downlink[q] /\ downlink'[q][i] = downlink[q][i]
        BY <1>7, <2>5, <3>3
      <4>2. CASE downlink'[r][j] = d
        BY <1>2, <1>8, <1>9, <4>1, <4>2
      <4>3. CASE j \in DOMAIN downlink[r] /\ downlink'[r][j] = downlink[r][j]
        BY <2>5, <4>1, <4>3 DEF Passage, Queues
      <4> QED
        BY <1>7, <4>2, <4>3
    <3> QED
      BY <3>1, <3>2, <3>3
  <2> QED
    BY <2>1, <2>2, <2>3, <2>4, <2>5 DEF Queues
<1>11. HandLeft'
  <2> SUFFICES ASSUME InHand PROVE HandLeft'
    BY <1>6 DEF HandLeft
  <2>1. modemRx \in Nat /\ modemRx <= arrived
    BY <1>5 DEF Passage, HandLeft, InHand
  <2>2. ASSUME NEW q \in Ports, NEW i \in DOMAIN downlink'[q]
        PROVE  Apart(modemRx, downlink'[q][i].id)
    BY <1>2, <1>7, <1>9, <2>1 DEF Passage, HandLeft, Apart
  <2> QED
    BY <1>1, <1>2, <1>6, <2>1, <2>2 DEF HandLeft, Apart
<1>12. ForwardedLeft'
  <2>1. ASSUME NEW k \in DOMAIN forwarded
        PROVE  forwarded[k] \in Nat /\ forwarded[k] <= arrived
    BY <1>4 DEF Passage, ForwardedLeft
  <2>2. ASSUME NEW k \in DOMAIN forwarded, NEW q \in Ports, NEW i \in DOMAIN downlink'[q]
        PROVE  Apart(forwarded[k], downlink'[q][i].id)
    BY <1>2, <1>7, <1>9, <2>1 DEF Passage, ForwardedLeft, Apart
  <2> QED
    BY <1>1, <1>2, <1>6, <2>1, <2>2 DEF Passage, ForwardedLeft, Apart
<1> QED
  BY <1>10, <1>11, <1>12 DEF Passage

\* The oldest datagram of the queue comes to hand.
LEMMA ReceptionPasses == ASSUME Typed, Passage, CellReceive PROVE Passage'
<1> DEFINE d == Head(downlink[cellFd])
<1>1. /\ cellFd \in Ports /\ downlink[cellFd] # <<>>
      /\ modemRx' = d.id
      /\ downlink' = [downlink EXCEPT ![cellFd] = Tail(downlink[cellFd])]
      /\ UNCHANGED <<bound, arrived, forwarded>>
  BY DEF CellReceive, sockets, history
<1>2. downlink \in [Ports -> Seq(Datagram)]
  BY DEF Typed, MessagesTyped
<1>3. ControlPorts' = ControlPorts /\ (OneControlPort' <=> OneControlPort)
  BY <1>1 DEF ControlPorts, OneControlPort
<1>4. 1 \in DOMAIN downlink[cellFd] /\ d = downlink[cellFd][1] /\ d.id \in Nat
  BY <1>1, <1>2, QueueEntry
<1> HIDE DEF d
<1>5. ASSUME NEW q \in Ports, NEW i \in DOMAIN downlink'[q]
      PROVE  \/ q # cellFd /\ i \in DOMAIN downlink[q] /\ downlink'[q][i] = downlink[q][i]
             \/ /\ q = cellFd /\ i \in Nat /\ i + 1 \in DOMAIN downlink[q] /\ i + 1 > 1
                /\ downlink'[q][i] = downlink[q][i + 1]
  BY <1>1, <1>2, <1>5
<1>6. ASSUME NEW q \in Ports, NEW i \in DOMAIN downlink'[q]
      PROVE  Apart(d.id, downlink'[q][i].id) /\ downlink'[q][i].id \in Nat
  <2>1. CASE q = cellFd
    <3>1. i + 1 \in DOMAIN downlink[q] /\ 1 < i + 1 /\ downlink'[q][i] = downlink[q][i + 1]
      BY <1>5, <1>6, <2>1
    <3>2. downlink[q][i + 1].id \in Nat
      BY <3>1, QueueEntry
    <3>3. d.id < downlink[q][i + 1].id
      BY <1>4, <2>1, <3>1 DEF Passage, Queues
    <3> QED
      BY <1>4, <3>1, <3>2, <3>3 DEF Apart
  <2>2. CASE q # cellFd
    <3>1. i \in DOMAIN downlink[q] /\ downlink'[q][i] = downlink[q][i] /\ downlink[q][i].id \in Nat
      BY <1>5, <1>6, <2>2, QueueEntry
    <3>2. d.id # downlink[q][i].id
      BY <1>1, <1>4, <2>2, <3>1 DEF Passage, Queues
    <3>3. q \in ControlPorts /\ cellFd \in ControlPorts
      BY <1>1, <1>2, <3>1 DEF Passage, Queues
    <3> QED
      BY <2>2, <3>1, <3>2, <3>3 DEF Apart, OneControlPort
  <2> QED
    BY <2>1, <2>2
<1>7. Queues'
  <2>1. IsFiniteSet(ControlPorts')
    BY <1>3 DEF Passage, Queues
  <2>2. \A q \in Ports : downlink'[q] # <<>> => q \in ControlPorts'
    BY <1>1, <1>2, <1>3 DEF Passage, Queues
  <2>3. \A q \in Ports : \A i \in DOMAIN downlink'[q] : downlink'[q][i].id <= arrived'
    BY <1>1, <1>5 DEF Passage, Queues
  <2>4. ASSUME NEW q \in Ports, NEW i \in DOMAIN downlink'[q], NEW j \in DOMAIN downlink'[q], i < j
        PROVE  downlink'[q][i].id < downlink'[q][j].id
    <3>1. CASE q = cellFd
      <4>1. i + 1 < j + 1
        BY <1>5, <2>4, <3>1
      <4> QED
        BY <1>5, <2>4, <3>1, <4>1 DEF Passage, Queues
    <3>2. CASE q # cellFd
      BY <1>5, <2>4, <3>2 DEF Passage, Queues
    <3> QED
      BY <3>1, <3>2
  <2>5. ASSUME NEW q \in Ports, NEW r \in Ports, q # r,
               NEW i \in DOMAIN downlink'[q], NEW j \in DOMAIN downlink'[r]
        PROVE  downlink'[q][i].id # downlink'[r][j].id
    BY <1>5, <2>5 DEF Passage, Queues
  <2> QED
    BY <2>1, <2>2, <2>3, <2>4, <2>5 DEF Queues
<1>8. HandLeft'
  <2>1. d.id <= arrived
    BY <1>1, <1>4 DEF Passage, Queues
  <2> QED
    BY <1>1, <1>3, <1>6, <2>1 DEF HandLeft, Apart
<1>9. ForwardedLeft'
  <2>1. ASSUME NEW k \in DOMAIN forwarded, NEW q \in Ports, NEW i \in DOMAIN downlink'[q]
        PROVE  Apart(forwarded[k], downlink'[q][i].id)
    BY <1>5, <2>1 DEF Passage, ForwardedLeft
  <2>2. ASSUME NEW k \in DOMAIN forwarded PROVE Apart(forwarded[k], d.id)
    BY <1>1, <1>4, <2>2 DEF Passage, ForwardedLeft
  <2> QED
    BY <1>1, <1>3, <2>1, <2>2 DEF Passage, ForwardedLeft, Apart
<1> QED
  BY <1>7, <1>8, <1>9 DEF Passage

\* The datagram at hand is forwarded, or lost to a transfer in progress.
LEMMA ForwardingPasses == ASSUME Typed, Disciplined, Passage, ProcForward PROVE Passage'
<1>1. /\ proc = "forward" /\ proc' = "wait" /\ ~wake'
      /\ UNCHANGED <<bound, downlink, arrived, modemRx, cell>>
      /\ \/ forwarded' = forwarded
         \/ modemRx # Junk /\ forwarded' = Append(forwarded, modemRx)
  BY DEF ProcForward, ForwardLeaving, Disciplined, OneUser, sockets, modemRxVars, cellVars,
         environment
<1>2. ~InHand'
  BY <1>1 DEF InHand, Disciplined, OneUser, ThreadsTakeTurns
<1>3. CASE forwarded' = forwarded
  BY <1>1, <1>2, <1>3, NothingPasses
<1>4. CASE modemRx # Junk /\ forwarded' = Append(forwarded, modemRx)
  <2>1. InHand
    BY <1>1, <1>4 DEF InHand
  <2>2. modemRx \in Nat /\ forwarded \in Seq(Nat)
    BY SeqMonotonic, Datagrams \subseteq Nat, <1>4, BridgeAssumption
       DEF Typed, MessagesTyped, Datagrams
  <2>3. ControlPorts' = ControlPorts /\ (OneControlPort' <=> OneControlPort)
    BY <1>1 DEF ControlPorts, OneControlPort
  <2>4. ASSUME NEW k \in DOMAIN forwarded'
        PROVE  /\ k \in Nat
               /\ \/ k \in DOMAIN forwarded /\ forwarded'[k] = forwarded[k]
                  \/ k = Len(forwarded) + 1 /\ forwarded'[k] = modemRx
    BY <1>4, <2>2, <2>4
  <2>5. Queues'
    BY <1>1, <2>3 DEF Passage, Queues
  <2>6. HandLeft'
    BY <1>2 DEF HandLeft
  <2>7. ASSUME NEW k \in DOMAIN forwarded'
        PROVE  /\ forwarded'[k] <= arrived
               /\ \A p \in Ports : \A i \in DOMAIN downlink[p] :
                    Apart(forwarded'[k], downlink[p][i].id)
               /\ \A l \in DOMAIN forwarded' : k < l => Apart(forwarded'[k], forwarded'[l])
    <3>1. CASE k \in DOMAIN forwarded /\ forwarded'[k] = forwarded[k]
      BY <2>1, <2>4, <3>1 DEF Passage, ForwardedLeft
    <3>2. CASE k = Len(forwarded) + 1 /\ forwarded'[k] = modemRx
      <4>1. \A l \in DOMAIN forwarded' : ~(k < l)
        BY <2>2, <2>4, <3>2
      <4> QED
        BY <2>1, <3>2, <4>1 DEF Passage, HandLeft
    <3> QED
      BY <2>4, <3>1, <3>2
  <2>8. ForwardedLeft'
    BY <1>1, <1>2, <2>3, <2>7 DEF ForwardedLeft, Apart
  <2> QED
    BY <2>5, <2>6, <2>8 DEF Passage
<1> QED
  BY <1>1, <1>3, <1>4

\* Every step keeps the datagrams apart.
LEMMA PassagePreserved ==
  ASSUME Typed, Disciplined, Passage, [Next]_vars PROVE Passage'
<1> DEFINE Still == UNCHANGED <<bound, downlink, arrived, forwarded, modemRx>> /\ (InHand' => InHand)
<1>1. Still => Passage'
  BY NothingPasses
<1> USE DEF InHand, uart, sockets, modemRxVars, cellVars, environment, replies, history
<1>2. CASE UNCHANGED vars
  BY <1>1, <1>2 DEF vars
<1>3. ASSUME NEW c \in Chunk, HostWrite(c) PROVE Still
  BY <1>3 DEF HostWrite, ReceiveReady
<1>4. CASE HostReady \/ WakeIn \/ TxDone \/ Registered
  BY <1>1, <1>4 DEF HostReady, ReceiveReady, WakeIn, TxDone, Registered
<1>5. CASE UartProcess
  <2>1. ASSUME ProcTake PROVE Still
    BY <2>1 DEF ProcTake
  <2>2. ASSUME ProcEstablish PROVE Still
    BY <2>2 DEF ProcEstablish, Finish
  <2>11. ASSUME ProcOpen PROVE Still
    BY <2>11 DEF ProcOpen, Finish
  <2>3. ASSUME ProcData PROVE Still
    BY <2>3 DEF ProcData, Finish
  <2>4. ASSUME ProcLength PROVE Still
    BY <2>4 DEF ProcLength, Finish
  <2>5. ASSUME ProcAcquire PROVE Still
    BY <2>5 DEF ProcAcquire, Finish
  <2>6. ASSUME ProcCopy PROVE Still
    BY <2>6 DEF ProcCopy
  <2>7. ASSUME ProcAck PROVE Still
    BY <2>7 DEF ProcAck
  <2>8. ASSUME ProcSend PROVE Still
    BY <2>8 DEF ProcSend
  <2>9. ASSUME ProcQuery PROVE Still
    BY <2>9 DEF ProcQuery, Finish
  <2>10. ASSUME ProcReady PROVE Still
    BY <2>10 DEF ProcReady, Disciplined, OneUser
  <2> QED
    BY <1>1, <1>5, <2>1, <2>2, <2>3, <2>4, <2>5, <2>6, <2>7, <2>8, <2>9, <2>10,
       <2>11, ConnectPasses, ForwardingPasses
       DEF UartProcess
<1>6. CASE CellRecv
  <2>1. ASSUME CellStart PROVE Still
    BY <2>1 DEF CellStart, CellStep
  <2>2. ASSUME CellTake PROVE Still
    BY <2>2 DEF CellTake, CellStep
  <2>3. ASSUME CellClear PROVE Still
    BY <2>3 DEF CellClear, CellStep
  <2>4. ASSUME CellCall PROVE Still
    BY <2>4 DEF CellCall, CellStep
  <2>5. ASSUME CellAnnounce PROVE Still
    BY <2>5 DEF CellAnnounce, CellStep
  <2>6. ASSUME CellReject PROVE Still
    BY <2>6 DEF CellReject, CellStep
  <2>7. ASSUME CellError PROVE Passage'
    <3>1. UNCHANGED <<bound, downlink, arrived, forwarded>> /\ modemRx' = Junk
      BY <2>7 DEF CellError
    <3>2. ControlPorts' = ControlPorts /\ (OneControlPort' <=> OneControlPort)
      BY <3>1 DEF ControlPorts, OneControlPort
    <3>3. Queues'
      BY <3>1, <3>2 DEF Passage, Queues
    <3>4. HandLeft'
      BY <3>1 DEF HandLeft
    <3>5. ForwardedLeft'
      BY <3>1, <3>2 DEF Passage, ForwardedLeft, Apart
    <3> QED
      BY <3>3, <3>4, <3>5 DEF Passage
  <2> QED
    BY <1>1, <1>6, <2>1, <2>2, <2>3, <2>4, <2>5, <2>6, <2>7, ReceptionPasses
       DEF CellRecv
<1> QED
  BY <1>1, <1>2, <1>3, <1>4, <1>5, <1>6, ArrivalPasses DEF Next

THEOREM DatagramsPass == HalfDuplex /\ Spec => []Passage
<1> SUFFICES ASSUME HalfDuplex PROVE Spec => []Passage
  OBVIOUS
<1>1. Init => Passage
  <2> SUFFICES ASSUME Init PROVE Passage
    OBVIOUS
  <2>1. ControlPorts = {} /\ (\A p \in Ports : downlink[p] = <<>>) /\ forwarded = <<>> /\ ~InHand
    BY DEF Init, ControlPorts, InHand
  <2>2. Queues
    BY <2>1, FS_EmptySet DEF Queues
  <2> QED
    BY <2>1, <2>2 DEF Passage, HandLeft, ForwardedLeft
<1>2. Typed /\ Disciplined /\ Passage /\ [Next]_vars => Passage'
  BY PassagePreserved
<1>3. Spec => []Typed
  BY InitTyped, TypedPreserved, PTL DEF Spec
<1>4. Spec => []Disciplined
  BY Discipline
<1> QED
  BY <1>1, <1>2, <1>3, <1>4, PTL DEF Spec

\* With such a host every datagram is forwarded at most once, and in the order
\* of arrival unless a second connection has opened another control socket.
THEOREM ForwardedAtMostOnce == HalfDuplex /\ Spec => []ForwardedOnce
<1>1. Typed /\ Passage => ForwardedOnce
  <2> SUFFICES ASSUME Typed, Passage,
                      NEW i \in DOMAIN forwarded, NEW j \in DOMAIN forwarded, i < j
               PROVE  /\ forwarded[i] # forwarded[j]
                      /\ Cardinality(ControlPorts) <= 1 => forwarded[i] < forwarded[j]
    BY DEF ForwardedOnce, ControlPorts
  <2>1. Apart(forwarded[i], forwarded[j])
    BY DEF Passage, ForwardedLeft
  <2>2. Cardinality(ControlPorts) <= 1 => OneControlPort
    <3>1. IsFiniteSet(ControlPorts)
      BY DEF Passage, Queues
    <3>2. Cardinality(ControlPorts) \in Nat
      BY <3>1, FS_CardinalityType
    <3>3. CASE Cardinality(ControlPorts) = 0
      BY <3>1, <3>3, FS_EmptySet DEF OneControlPort
    <3>4. CASE Cardinality(ControlPorts) = 1
      <4>1. PICK p : ControlPorts = {p}
        BY <3>1, <3>4, FS_Singleton
      <4> QED
        BY <4>1 DEF OneControlPort
    <3> QED
      BY <3>2, <3>3, <3>4
  <2> QED
    BY <2>1, <2>2 DEF Apart
<1>2. Spec => []Typed
  BY InitTyped, TypedPreserved, PTL DEF Spec
<1> QED
  BY <1>1, <1>2, DatagramsPass, PTL
==============================================================================
