---------------------------- MODULE UartLinkProofs ----------------------------
(***************************************************************************)
(* Theorems about UartLink: for every set of ports and threads and every   *)
(* number of messages, writes that merge and datagrams.                    *)
(***************************************************************************)
EXTENDS UartLink, CellBridgeProofs, SequenceTheorems, TLAPS

Replies == {"A", "N", "R", "frame"}
Note == [c : {"A", "N", "R", "C"}, of : Nat]
Known(n) == n \in Nat /\ n <= sent

(* Nowhere is there a message, or the 'A' of one, that has not been sent: *)

KnownChunk(c, n) ==
  c \in Chunk /\ (c.type \in {"C", "S"} => c.payload \in Nat /\ c.payload <= n)
WireKnown == wire \in Seq(Chunk) /\ \A i \in DOMAIN wire : KnownChunk(wire[i], sent)
GatewayKnown ==
  /\ dataReady = 1 \/ proc # "wait" => KnownChunk(rxChunk, sent)
  /\ modemTx \in Payload => Known(modemTx)
  /\ tx # None => tx.what \in Replies
  /\ Known(txOf)
InboxKnown == inbox \in Seq(Note) /\ \A i \in DOMAIN inbox : Known(inbox[i].of)
EventKnown == event \in [state : {"unmade", "clear", "set"}, of : Nat] /\ Known(event.of)

\* While the receive thread sends it does not read, and so what has set the
\* event is older than its message.
RxBusy ==
  /\ sender \in [SendThreads -> [pc : {"idle", "wait", "clear"}, msg : Nat]]
  /\ sender["rx"].pc # "idle" => rx = "callback"
  /\ main \in {"ask", "await", "network", "settle"} => rx = "off"
  /\ sender["rx"].pc = "wait" => sender["rx"].msg > 0 /\ event.of # sender["rx"].msg

LinkInv ==
  /\ sent \in Nat /\ WireKnown /\ GatewayKnown /\ InboxKnown /\ EventKnown /\ RxBusy /\ RxNeverOwnAck
------------------------------------------------------------------------------
\* A step of the gateway's threads invents no message.
LEMMA GatewayThreads ==
  ASSUME UartProcess \/ CellRecv, tx # None => tx.what \in Replies
  PROVE  /\ rxChunk' = rxChunk
         /\ dataReady' = 1 \/ proc' # "wait" => dataReady = 1 \/ proc # "wait"
         /\ \/ modemTx' = modemTx
            \/ modemTx' = Junk
            \/ proc = "copy" /\ rxChunk.type \notin {"R", "?", "X", "E"} /\ modemTx' = rxChunk.payload
         /\ tx' # None => tx'.what \in Replies
<1> DEFINE G == /\ rxChunk' = rxChunk
                /\ dataReady' = 1 \/ proc' # "wait" => dataReady = 1 \/ proc # "wait"
                /\ \/ modemTx' = modemTx
                   \/ modemTx' = Junk
                   \/ /\ proc = "copy" /\ rxChunk.type \notin {"R", "?", "X", "E"}
                      /\ modemTx' = rxChunk.payload
                /\ tx' # None => tx'.what \in Replies
<1> USE DEF Replies, uart, replies
<1>1. ASSUME ProcTake PROVE G
  BY <1>1 DEF ProcTake
<1>2. ASSUME ProcEstablish PROVE G
  BY <1>2 DEF ProcEstablish, Finish, Reply
<1>3. ASSUME ProcConnect PROVE G
  BY <1>3 DEF ProcConnect, Finish, Reply
<1>15. ASSUME ProcOpen PROVE G
  BY <1>15 DEF ProcOpen, Finish, Reply
<1>14. ASSUME ProcBind PROVE G
  BY <1>14 DEF ProcBind, Finish, Reply
<1>4. ASSUME ProcData PROVE G
  BY <1>4 DEF ProcData, Finish, Reply
<1>5. ASSUME ProcLength PROVE G
  BY <1>5 DEF ProcLength, Finish, Reply
<1>6. ASSUME ProcAcquire PROVE G
  BY <1>6 DEF ProcAcquire, Finish, Reply
<1>7. ASSUME ProcCopy PROVE G
  BY <1>7 DEF ProcCopy
<1>8. ASSUME ProcAck PROVE G
  BY <1>8 DEF ProcAck, Reply
<1>9. ASSUME ProcSend PROVE G
  BY <1>9 DEF ProcSend
<1>10. ASSUME ProcReady PROVE G
  BY <1>10 DEF ProcReady
<1>11. ASSUME ProcForward PROVE G
  BY <1>11 DEF ProcForward, ForwardLeaving
<1>12. ASSUME ProcQuery PROVE G
  BY <1>12 DEF ProcQuery, Finish, Reply
<1>13. ASSUME CellRecv PROVE G
  BY <1>13
     DEF CellRecv, CellStart, CellTake, CellClear, CellCall, CellReceive, CellError,
         CellAnnounce, CellReject
<1> QED
  BY <1>1, <1>2, <1>3, <1>4, <1>5, <1>6, <1>7, <1>8, <1>9, <1>10, <1>11, <1>12, <1>13,
     <1>14, <1>15
     DEF UartProcess

\* A known chunk may be written after the others.
LEMMA WireAppend ==
  ASSUME WireKnown, sent \in Nat, sent' \in Nat, sent <= sent', NEW c, KnownChunk(c, sent'),
         wire' = Append(wire, c)
  PROVE  WireKnown'
<1>1. wire \in Seq(Chunk) /\ c \in Chunk
  BY DEF WireKnown, KnownChunk
<1>2. wire' \in Seq(Chunk)
  BY <1>1
<1>3. ASSUME NEW i \in DOMAIN wire' PROVE KnownChunk(wire'[i], sent')
  <2>1. CASE i \in DOMAIN wire /\ wire'[i] = wire[i]
    BY <2>1 DEF WireKnown, KnownChunk, Known
  <2>2. CASE wire'[i] = c
    BY <2>2
  <2>3. (i \in DOMAIN wire /\ wire'[i] = wire[i]) \/ wire'[i] = c
    BY <1>1, <1>3
  <2> QED
    BY <2>1, <2>2, <2>3
<1> QED
  BY <1>2, <1>3 DEF WireKnown

\* Every step keeps the invariant.
LEMMA LinkPreserved == LinkInv /\ [LinkNext]_linkVars => LinkInv'
<1> SUFFICES ASSUME LinkInv, [LinkNext]_linkVars PROVE LinkInv'
  OBVIOUS
<1> USE LinkAssumption DEF LinkInv, SendThreads, HostOnly, hostState, vars, uart, replies, Known
<1>1. CASE UNCHANGED linkVars
  BY <1>1
     DEF linkVars, WireKnown, KnownChunk, GatewayKnown, InboxKnown, EventKnown, RxBusy,
         RxNeverOwnAck
<1>2. ASSUME LineIdle PROVE LinkInv'
  <2>1. sent' \in Nat
    BY <1>2 DEF LineIdle, ReceiveReady
  <2>2. WireKnown'
    BY <1>2 DEF LineIdle, ReceiveReady, WireKnown, KnownChunk
  <2>3. GatewayKnown'
    <3>1. /\ rxChunk' = Merged(wire) /\ wire # <<>>
          /\ UNCHANGED <<modemTx, tx, txOf, sent>>
      BY <1>2 DEF LineIdle, ReceiveReady
    <3>2. wire[1] \in Chunk /\ KnownChunk(wire[1], sent)
      BY <3>1 DEF WireKnown
    <3>3. ASSUME wire[1].type \in {"E", "C", "S"}
          PROVE KnownChunk([wire[1] EXCEPT !.fits = FALSE], sent)
      BY <3>2, <3>3 DEF KnownChunk, Chunk
    <3>4. KnownChunk(rxChunk', sent)
      BY <3>1, <3>2, <3>3 DEF Merged
    <3> QED
      BY <3>1, <3>4 DEF GatewayKnown, KnownChunk
  <2>4. InboxKnown'
    BY <1>2 DEF LineIdle, ReceiveReady, InboxKnown
  <2>5. EventKnown'
    BY <1>2 DEF LineIdle, ReceiveReady, EventKnown
  <2>6. RxBusy'
    BY <1>2 DEF LineIdle, ReceiveReady, RxBusy
  <2>7. RxNeverOwnAck'
    BY <1>2 DEF LineIdle, ReceiveReady, RxNeverOwnAck
  <2> QED
    BY <2>1, <2>2, <2>3, <2>4, <2>5, <2>6, <2>7
<1>3. ASSUME Delivered PROVE LinkInv'
  <2>1. sent' \in Nat
    BY <1>3 DEF Delivered, TxDone
  <2>2. WireKnown'
    BY <1>3 DEF Delivered, TxDone, WireKnown, KnownChunk
  <2>3. GatewayKnown'
    BY <1>3 DEF Delivered, TxDone, GatewayKnown, KnownChunk
  <2>4. InboxKnown'
    <3> DEFINE note == [c |-> IF tx.what = "frame" THEN "C" ELSE tx.what, of |-> txOf]
    <3>1. inbox' = Append(inbox, note) /\ tx # None /\ UNCHANGED sent
      BY <1>3 DEF Delivered, TxDone
    <3>2. note \in Note /\ note.of = txOf /\ Known(txOf)
      BY <3>1 DEF GatewayKnown, Replies, Note
    <3>3. inbox \in Seq(Note) /\ \A i \in DOMAIN inbox : Known(inbox[i].of)
      BY DEF InboxKnown
    <3> HIDE DEF note, Note
    <3>4. inbox' \in Seq(Note)
      BY <3>1, <3>2, <3>3
    <3>5. ASSUME NEW i \in DOMAIN inbox' PROVE Known(inbox'[i].of)
      <4>1. (i \in DOMAIN inbox /\ inbox'[i] = inbox[i]) \/ inbox'[i] = note
        BY <3>1, <3>2, <3>3
      <4> QED
        BY <3>2, <3>3, <4>1
    <3> QED
      BY <3>1, <3>4, <3>5 DEF InboxKnown
  <2>5. EventKnown'
    BY <1>3 DEF Delivered, TxDone, EventKnown
  <2>6. RxBusy'
    BY <1>3 DEF Delivered, TxDone, RxBusy
  <2>7. RxNeverOwnAck'
    BY <1>3 DEF Delivered, TxDone, RxNeverOwnAck
  <2> QED
    BY <2>1, <2>2, <2>3, <2>4, <2>5, <2>6, <2>7
<1>4. ASSUME Gateway PROVE LinkInv'
  <2>1. sent' \in Nat
    BY <1>4 DEF Gateway
  <2>2. WireKnown'
    BY <1>4 DEF Gateway, WireKnown, KnownChunk
  <2>3. GatewayKnown'
    <3>1. /\ rxChunk' = rxChunk
          /\ dataReady' = 1 \/ proc' # "wait" => dataReady = 1 \/ proc # "wait"
          /\ \/ modemTx' = modemTx
             \/ modemTx' = Junk
             \/ /\ proc = "copy" /\ rxChunk.type \notin {"R", "?", "X", "E"}
                /\ modemTx' = rxChunk.payload
          /\ tx' # None => tx'.what \in Replies
      BY <1>4, GatewayThreads DEF Gateway, GatewayKnown
    <3>2. UNCHANGED sent /\ (txOf' = txOf \/ txOf' = 0 \/ (modemTx \in Payload /\ txOf' = modemTx))
      BY <1>4 DEF Gateway
    <3>3. dataReady' = 1 \/ proc' # "wait" => KnownChunk(rxChunk', sent')
      BY <3>1, <3>2 DEF GatewayKnown, KnownChunk
    <3>4. proc = "copy" /\ rxChunk.type \notin {"R", "?", "X", "E"} => Known(rxChunk.payload)
      BY DEF GatewayKnown, KnownChunk, Chunk
    <3>5. modemTx' \in Payload => Known(modemTx')
      BY <3>1, <3>4 DEF GatewayKnown
    <3>6. Known(txOf')
      BY <3>2 DEF GatewayKnown
    <3> QED
      BY <3>1, <3>2, <3>3, <3>5, <3>6 DEF GatewayKnown
  <2>4. InboxKnown'
    BY <1>4 DEF Gateway, InboxKnown
  <2>5. EventKnown'
    BY <1>4 DEF Gateway, EventKnown
  <2>6. RxBusy'
    BY <1>4 DEF Gateway, RxBusy
  <2>7. RxNeverOwnAck'
    BY <1>4 DEF Gateway, RxNeverOwnAck
  <2> QED
    BY <2>1, <2>2, <2>3, <2>4, <2>5, <2>6, <2>7
<1>5. ASSUME Network PROVE LinkInv'
  <2>1. sent' \in Nat
    BY <1>5 DEF Network, Registered, Arrive
  <2>2. WireKnown'
    BY <1>5 DEF Network, Registered, Arrive, WireKnown, KnownChunk
  <2>3. GatewayKnown'
    BY <1>5 DEF Network, Registered, Arrive, GatewayKnown, KnownChunk
  <2>4. InboxKnown'
    BY <1>5 DEF Network, Registered, Arrive, InboxKnown
  <2>5. EventKnown'
    BY <1>5 DEF Network, Registered, Arrive, EventKnown
  <2>6. RxBusy'
    BY <1>5 DEF Network, Registered, Arrive, RxBusy
  <2>7. RxNeverOwnAck'
    BY <1>5 DEF Network, Registered, Arrive, RxNeverOwnAck
  <2> QED
    BY <2>1, <2>2, <2>3, <2>4, <2>5, <2>6, <2>7
<1>6. ASSUME MainAsk PROVE LinkInv'
  <2>1. sent' \in Nat
    BY <1>6 DEF MainAsk, Write
  <2>2. WireKnown'
    <3>1. wire' = Append(wire, [type |-> "?"]) /\ UNCHANGED sent
      BY <1>6 DEF MainAsk, Write
    <3>2. KnownChunk([type |-> "?"], sent')
      BY DEF KnownChunk, Chunk
    <3> QED
      BY <3>1, <3>2, WireAppend
  <2>3. GatewayKnown'
    BY <1>6 DEF MainAsk, Write, GatewayKnown, KnownChunk
  <2>4. InboxKnown'
    BY <1>6 DEF MainAsk, Write, InboxKnown
  <2>5. EventKnown'
    BY <1>6 DEF MainAsk, Write, EventKnown
  <2>6. RxBusy'
    BY <1>6 DEF MainAsk, Write, RxBusy
  <2>7. RxNeverOwnAck'
    BY <1>6 DEF MainAsk, Write, RxNeverOwnAck
  <2> QED
    BY <2>1, <2>2, <2>3, <2>4, <2>5, <2>6, <2>7
<1>7. ASSUME MainAnswer PROVE LinkInv'
  <2>1. sent' \in Nat
    BY <1>7 DEF MainAnswer
  <2>2. WireKnown'
    BY <1>7 DEF MainAnswer, WireKnown, KnownChunk
  <2>3. GatewayKnown'
    BY <1>7 DEF MainAnswer, GatewayKnown, KnownChunk
  <2>4. InboxKnown'
    BY <1>7 DEF MainAnswer, InboxKnown
  <2>5. EventKnown'
    BY <1>7 DEF MainAnswer, EventKnown
  <2>6. RxBusy'
    BY <1>7 DEF MainAnswer, RxBusy
  <2>7. RxNeverOwnAck'
    BY <1>7 DEF MainAnswer, RxNeverOwnAck
  <2> QED
    BY <2>1, <2>2, <2>3, <2>4, <2>5, <2>6, <2>7
<1>8. ASSUME MainNetwork PROVE LinkInv'
  <2>1. sent' \in Nat
    BY <1>8 DEF MainNetwork, Write
  <2>2. WireKnown'
    <3>1. PICK p \in Ports : wire' = Append(wire, [type |-> "E", fits |-> TRUE, port |-> p])
      BY <1>8 DEF MainNetwork, Write
    <3>2. KnownChunk([type |-> "E", fits |-> TRUE, port |-> p], sent') /\ UNCHANGED sent
      BY <1>8 DEF MainNetwork, KnownChunk, Chunk
    <3> QED
      BY <3>1, <3>2, WireAppend
  <2>3. GatewayKnown'
    BY <1>8 DEF MainNetwork, Write, GatewayKnown, KnownChunk
  <2>4. InboxKnown'
    BY <1>8 DEF MainNetwork, Write, InboxKnown
  <2>5. EventKnown'
    BY <1>8 DEF MainNetwork, Write, EventKnown
  <2>6. RxBusy'
    BY <1>8 DEF MainNetwork, Write, RxBusy
  <2>7. RxNeverOwnAck'
    BY <1>8 DEF MainNetwork, Write, RxNeverOwnAck
  <2> QED
    BY <2>1, <2>2, <2>3, <2>4, <2>5, <2>6, <2>7
<1>9. ASSUME MainSettle PROVE LinkInv'
  <2>1. sent' \in Nat
    BY <1>9 DEF MainSettle
  <2>2. WireKnown'
    BY <1>9 DEF MainSettle, WireKnown, KnownChunk
  <2>3. GatewayKnown'
    BY <1>9 DEF MainSettle, GatewayKnown, KnownChunk
  <2>4. InboxKnown'
    BY <1>9 DEF MainSettle, InboxKnown
  <2>5. EventKnown'
    BY <1>9 DEF MainSettle, EventKnown
  <2>6. RxBusy'
    BY <1>9 DEF MainSettle, RxBusy
  <2>7. RxNeverOwnAck'
    BY <1>9 DEF MainSettle, RxNeverOwnAck
  <2> QED
    BY <2>1, <2>2, <2>3, <2>4, <2>5, <2>6, <2>7
<1>10. ASSUME MainEvent PROVE LinkInv'
  <2>1. sent' \in Nat
    BY <1>10 DEF MainEvent
  <2>2. WireKnown'
    BY <1>10 DEF MainEvent, WireKnown, KnownChunk
  <2>3. GatewayKnown'
    BY <1>10 DEF MainEvent, GatewayKnown, KnownChunk
  <2>4. InboxKnown'
    BY <1>10 DEF MainEvent, InboxKnown
  <2>5. EventKnown'
    BY <1>10 DEF MainEvent, EventKnown
  <2>6. RxBusy'
    BY <1>10 DEF MainEvent, RxBusy
  <2>7. RxNeverOwnAck'
    BY <1>10 DEF MainEvent, RxNeverOwnAck
  <2> QED
    BY <2>1, <2>2, <2>3, <2>4, <2>5, <2>6, <2>7
<1>11. ASSUME RxAck PROVE LinkInv'
  <2>1. sent' \in Nat
    BY <1>11 DEF RxAck, RxTakes
  <2>2. WireKnown'
    BY <1>11 DEF RxAck, RxTakes, WireKnown, KnownChunk
  <2>3. GatewayKnown'
    BY <1>11 DEF RxAck, RxTakes, GatewayKnown, KnownChunk
  <2>4. InboxKnown'
    <3>1. inbox \in Seq(Note) /\ inbox # <<>> /\ inbox' = Tail(inbox) /\ UNCHANGED sent
      BY <1>11 DEF RxAck, RxTakes, InboxKnown
    <3>2. Tail(inbox) \in Seq(Note) /\ \A i \in DOMAIN Tail(inbox) : i + 1 \in DOMAIN inbox /\ Tail(inbox)[i] = inbox[i + 1]
      <4> HIDE DEF Note
      <4> QED
        BY <3>1
    <3> QED
      BY <3>1, <3>2 DEF InboxKnown
  <2>5. EventKnown'
    <3>1. inbox # <<>> /\ UNCHANGED sent
          /\ (event' = event \/ event' = [state |-> "set", of |-> Head(inbox).of])
      BY <1>11 DEF RxAck, RxTakes
    <3>2. Known(Head(inbox).of)
      BY <3>1 DEF InboxKnown, Note
    <3> QED
      BY <3>1, <3>2 DEF EventKnown
  <2>6. RxBusy'
    BY <1>11 DEF RxAck, RxTakes, RxBusy
  <2>7. RxNeverOwnAck'
    BY <1>11 DEF RxAck, RxTakes, RxNeverOwnAck
  <2> QED
    BY <2>1, <2>2, <2>3, <2>4, <2>5, <2>6, <2>7
<1>12. ASSUME RxIgnore PROVE LinkInv'
  <2>1. sent' \in Nat
    BY <1>12 DEF RxIgnore, RxTakes
  <2>2. WireKnown'
    BY <1>12 DEF RxIgnore, RxTakes, WireKnown, KnownChunk
  <2>3. GatewayKnown'
    BY <1>12 DEF RxIgnore, RxTakes, GatewayKnown, KnownChunk
  <2>4. InboxKnown'
    <3>1. inbox \in Seq(Note) /\ inbox # <<>> /\ inbox' = Tail(inbox) /\ UNCHANGED sent
      BY <1>12 DEF RxIgnore, RxTakes, InboxKnown
    <3>2. Tail(inbox) \in Seq(Note) /\ \A i \in DOMAIN Tail(inbox) : i + 1 \in DOMAIN inbox /\ Tail(inbox)[i] = inbox[i + 1]
      <4> HIDE DEF Note
      <4> QED
        BY <3>1
    <3> QED
      BY <3>1, <3>2 DEF InboxKnown
  <2>5. EventKnown'
    BY <1>12 DEF RxIgnore, RxTakes, EventKnown
  <2>6. RxBusy'
    BY <1>12 DEF RxIgnore, RxTakes, RxBusy
  <2>7. RxNeverOwnAck'
    BY <1>12 DEF RxIgnore, RxTakes, RxNeverOwnAck
  <2> QED
    BY <2>1, <2>2, <2>3, <2>4, <2>5, <2>6, <2>7
<1>13. ASSUME RxMessage PROVE LinkInv'
  <2>1. sent' \in Nat
    BY <1>13 DEF RxMessage, RxTakes
  <2>2. WireKnown'
    BY <1>13 DEF RxMessage, RxTakes, WireKnown, KnownChunk
  <2>3. GatewayKnown'
    BY <1>13 DEF RxMessage, RxTakes, GatewayKnown, KnownChunk
  <2>4. InboxKnown'
    <3>1. inbox \in Seq(Note) /\ inbox # <<>> /\ inbox' = Tail(inbox) /\ UNCHANGED sent
      BY <1>13 DEF RxMessage, RxTakes, InboxKnown
    <3>2. Tail(inbox) \in Seq(Note) /\ \A i \in DOMAIN Tail(inbox) : i + 1 \in DOMAIN inbox /\ Tail(inbox)[i] = inbox[i + 1]
      <4> HIDE DEF Note
      <4> QED
        BY <3>1
    <3> QED
      BY <3>1, <3>2 DEF InboxKnown
  <2>5. EventKnown'
    BY <1>13 DEF RxMessage, RxTakes, EventKnown
  <2>6. RxBusy'
    BY <1>13 DEF RxMessage, RxTakes, RxBusy
  <2>7. RxNeverOwnAck'
    BY <1>13 DEF RxMessage, RxTakes, RxNeverOwnAck
  <2> QED
    BY <2>1, <2>2, <2>3, <2>4, <2>5, <2>6, <2>7
<1>14. ASSUME RxReturn PROVE LinkInv'
  <2>1. sent' \in Nat
    BY <1>14 DEF RxReturn
  <2>2. WireKnown'
    BY <1>14 DEF RxReturn, WireKnown, KnownChunk
  <2>3. GatewayKnown'
    BY <1>14 DEF RxReturn, GatewayKnown, KnownChunk
  <2>4. InboxKnown'
    BY <1>14 DEF RxReturn, InboxKnown
  <2>5. EventKnown'
    BY <1>14 DEF RxReturn, EventKnown
  <2>6. RxBusy'
    BY <1>14 DEF RxReturn, RxBusy
  <2>7. RxNeverOwnAck'
    BY <1>14 DEF RxReturn, RxNeverOwnAck
  <2> QED
    BY <2>1, <2>2, <2>3, <2>4, <2>5, <2>6, <2>7
<1>15. ASSUME MonitorPoll PROVE LinkInv'
  <2>1. sent' \in Nat
    BY <1>15 DEF MonitorPoll
  <2>2. WireKnown'
    BY <1>15 DEF MonitorPoll, WireKnown, KnownChunk
  <2>3. GatewayKnown'
    BY <1>15 DEF MonitorPoll, GatewayKnown, KnownChunk
  <2>4. InboxKnown'
    BY <1>15 DEF MonitorPoll, InboxKnown
  <2>5. EventKnown'
    BY <1>15 DEF MonitorPoll, EventKnown
  <2>6. RxBusy'
    BY <1>15 DEF MonitorPoll, RxBusy
  <2>7. RxNeverOwnAck'
    BY <1>15 DEF MonitorPoll, RxNeverOwnAck
  <2> QED
    BY <2>1, <2>2, <2>3, <2>4, <2>5, <2>6, <2>7
<1>16. ASSUME MonitorWrite PROVE LinkInv'
  <2>1. sent' \in Nat
    BY <1>16 DEF MonitorWrite, Write
  <2>2. WireKnown'
    <3>1. wire' = Append(wire, [type |-> "R"]) /\ UNCHANGED sent
      BY <1>16 DEF MonitorWrite, Write
    <3>2. KnownChunk([type |-> "R"], sent')
      BY DEF KnownChunk, Chunk
    <3> QED
      BY <3>1, <3>2, WireAppend
  <2>3. GatewayKnown'
    BY <1>16 DEF MonitorWrite, Write, GatewayKnown, KnownChunk
  <2>4. InboxKnown'
    BY <1>16 DEF MonitorWrite, Write, InboxKnown
  <2>5. EventKnown'
    BY <1>16 DEF MonitorWrite, Write, EventKnown
  <2>6. RxBusy'
    BY <1>16 DEF MonitorWrite, Write, RxBusy
  <2>7. RxNeverOwnAck'
    BY <1>16 DEF MonitorWrite, Write, RxNeverOwnAck
  <2> QED
    BY <2>1, <2>2, <2>3, <2>4, <2>5, <2>6, <2>7
<1>17. ASSUME NEW t \in SendThreads, SendWrite(t) PROVE LinkInv'
  <2>1. sent' \in Nat
    BY <1>17 DEF SendWrite, Write
  <2>2. WireKnown'
    <3> DEFINE c == [type |-> IF t = "rx" THEN "C" ELSE "S", fits |-> TRUE, payload |-> sent + 1]
    <3>1. sent' = sent + 1 /\ sent < MaxSends
      BY <1>17 DEF SendWrite
    <3>2. wire' = Append(wire, c)
      BY <1>17, <3>1 DEF SendWrite, Write
    <3>3. sent + 1 \in Payload
      BY <3>1
    <3>4. c \in Chunk /\ c.payload = sent + 1
      BY <3>3 DEF Chunk
    <3>5. KnownChunk(c, sent')
      BY <3>1, <3>4 DEF KnownChunk
    <3> HIDE DEF c
    <3> QED
      BY <3>1, <3>2, <3>5, WireAppend
  <2>3. GatewayKnown'
    BY <1>17 DEF SendWrite, Write, GatewayKnown, KnownChunk
  <2>4. InboxKnown'
    BY <1>17 DEF SendWrite, Write, InboxKnown
  <2>5. EventKnown'
    BY <1>17 DEF SendWrite, Write, EventKnown
  <2>6. RxBusy'
    <3>1. /\ sent' = sent + 1 /\ UNCHANGED <<event, rx, main>> /\ sender[t].pc = "idle"
          /\ t = "rx" => rx = "callback"
      BY <1>17 DEF SendWrite
    <3>2. sender' = [sender EXCEPT ![t] = [pc |-> "wait", msg |-> sent + 1]]
      BY <1>17, <3>1 DEF SendWrite
    <3>3. sender' \in [SendThreads -> [pc : {"idle", "wait", "clear"}, msg : Nat]]
      BY <3>2 DEF RxBusy
    <3>4. CASE t = "rx"
      BY <3>1, <3>2, <3>3, <3>4 DEF RxBusy, EventKnown
    <3>5. CASE t # "rx"
      BY <3>1, <3>2, <3>3, <3>5 DEF RxBusy
    <3> QED
      BY <3>4, <3>5
  <2>7. RxNeverOwnAck'
    BY <1>17 DEF SendWrite, Write, RxNeverOwnAck
  <2> QED
    BY <2>1, <2>2, <2>3, <2>4, <2>5, <2>6, <2>7
<1>18. ASSUME NEW t \in SendThreads, SendAcked(t) PROVE LinkInv'
  <2>1. sent' \in Nat
    BY <1>18 DEF SendAcked
  <2>2. WireKnown'
    BY <1>18 DEF SendAcked, WireKnown, KnownChunk
  <2>3. GatewayKnown'
    BY <1>18 DEF SendAcked, GatewayKnown, KnownChunk
  <2>4. InboxKnown'
    BY <1>18 DEF SendAcked, InboxKnown
  <2>5. EventKnown'
    BY <1>18 DEF SendAcked, EventKnown
  <2>6. RxBusy'
    BY <1>18 DEF SendAcked, RxBusy
  <2>7. RxNeverOwnAck'
    <3>1. /\ credited' = credited \cup {[by |-> t, msg |-> sender[t].msg, ack |-> event.of]}
          /\ sender[t].pc = "wait"
      BY <1>18 DEF SendAcked
    <3>2. t = "rx" => event.of # sender[t].msg
      BY <3>1 DEF RxBusy
    <3> QED
      BY <3>1, <3>2 DEF RxNeverOwnAck
  <2> QED
    BY <2>1, <2>2, <2>3, <2>4, <2>5, <2>6, <2>7
<1>19. ASSUME NEW t \in SendThreads, SendClear(t) PROVE LinkInv'
  <2>1. sent' \in Nat
    BY <1>19 DEF SendClear
  <2>2. WireKnown'
    BY <1>19 DEF SendClear, WireKnown, KnownChunk
  <2>3. GatewayKnown'
    BY <1>19 DEF SendClear, GatewayKnown, KnownChunk
  <2>4. InboxKnown'
    BY <1>19 DEF SendClear, InboxKnown
  <2>5. EventKnown'
    BY <1>19 DEF SendClear, EventKnown
  <2>6. RxBusy'
    BY <1>19 DEF SendClear, RxBusy
  <2>7. RxNeverOwnAck'
    BY <1>19 DEF SendClear, RxNeverOwnAck
  <2> QED
    BY <2>1, <2>2, <2>3, <2>4, <2>5, <2>6, <2>7
<1>20. ASSUME NEW t \in SendThreads, SendTimeout(t) PROVE LinkInv'
  <2>1. sent' \in Nat
    BY <1>20 DEF SendTimeout
  <2>2. WireKnown'
    BY <1>20 DEF SendTimeout, WireKnown, KnownChunk
  <2>3. GatewayKnown'
    BY <1>20 DEF SendTimeout, GatewayKnown, KnownChunk
  <2>4. InboxKnown'
    BY <1>20 DEF SendTimeout, InboxKnown
  <2>5. EventKnown'
    BY <1>20 DEF SendTimeout, EventKnown
  <2>6. RxBusy'
    BY <1>20 DEF SendTimeout, RxBusy
  <2>7. RxNeverOwnAck'
    BY <1>20 DEF SendTimeout, RxNeverOwnAck
  <2> QED
    BY <2>1, <2>2, <2>3, <2>4, <2>5, <2>6, <2>7
<1> QED
  BY <1>1, <1>2, <1>3, <1>4, <1>5, <1>6, <1>7, <1>8, <1>9, <1>10, <1>11, <1>12, <1>13,
     <1>14, <1>15, <1>16, <1>17, <1>18, <1>19, <1>20
     DEF LinkNext, Constructor, Receive, Send

\* What the receive thread sends from a callback is never confirmed by its own 'A'.
THEOREM CallbackNeverConfirmed == LinkSpec => []RxNeverOwnAck
<1>1. LinkInit => LinkInv
  <2> SUFFICES ASSUME LinkInit PROVE LinkInv
    OBVIOUS
  <2>1. sent = 0 /\ wire = <<>> /\ inbox = <<>> /\ event.of = 0 /\ credited = {} /\ txOf = 0
       /\ rx = "off"
    BY DEF LinkInit
  <2>8. event \in [state : {"unmade", "clear", "set"}, of : Nat]
    BY DEF LinkInit
  <2>2. sender \in [SendThreads -> [pc : {"idle", "wait", "clear"}, msg : Nat]]
    BY DEF LinkInit
  <2>3. sender["rx"].pc = "idle"
    BY DEF LinkInit, SendThreads
  <2>4. dataReady = 0 /\ proc = "wait" /\ modemTx = Junk /\ tx = None
    BY DEF LinkInit, Init
  <2>5. WireKnown /\ InboxKnown
    BY <2>1 DEF WireKnown, InboxKnown
  <2>6. GatewayKnown /\ EventKnown
    BY <2>1, <2>4, <2>8, LinkAssumption DEF GatewayKnown, EventKnown, Known
  <2>7. RxBusy /\ RxNeverOwnAck
    BY <2>1, <2>2, <2>3 DEF RxBusy, RxNeverOwnAck
  <2> QED
    BY <2>1, <2>5, <2>6, <2>7 DEF LinkInv
<1>2. LinkInv => RxNeverOwnAck
  BY DEF LinkInv
<1> QED
  BY <1>1, <1>2, LinkPreserved, PTL DEF LinkSpec
------------------------------------------------------------------------------
(* Types of the link.  The gateway's part is that of CellBridge; a thread  *)
(* that is in _send has a message.                                         *)

HostNote == [c : {"A", "N", "R", "C"}, of : 0..MaxSends]

LineTyped ==
  /\ wire \in Seq(Chunk) /\ Len(wire) <= MaxWire
  /\ inbox \in Seq(HostNote)
  /\ txOf \in 0..MaxSends

HostTyped ==
  /\ main \in {"ask", "await", "network", "settle", "event", "up"}
  /\ rx \in {"off", "read", "callback", "dead"}
  /\ monitor \in {"off", "poll", "write"}
  /\ event \in [state : {"unmade", "clear", "set"}, of : 0..MaxSends]
  /\ sent \in 0..MaxSends

SendersTyped ==
  /\ sender \in [SendThreads -> [pc : {"idle", "wait", "clear"}, msg : 0..MaxSends]]
  /\ \A t \in SendThreads : sender[t].pc = "wait" => sender[t].msg # 0
  /\ credited \subseteq [by : SendThreads, msg : 1..MaxSends, ack : 0..MaxSends]

LinkTyped == Typed /\ LineTyped /\ HostTyped /\ SendersTyped

LEMMA LinkTypedGivesTypeOK == LinkTyped => LinkTypeOK
  BY TypedGivesTypeOK
     DEF LinkTyped, LineTyped, HostTyped, SendersTyped, LinkTypeOK, HostNote

\* What the host does leaves the gateway alone.
LEMMA HostOnlyTyped == ASSUME Typed, HostOnly PROVE Typed'
  BY DEF HostOnly, vars, Typed, ThreadsTyped, SocketsTyped, MessagesTyped, uart, sockets,
         modemRxVars, cellVars, environment, replies, history

\* One more write on the line, and one answer less to read.
LEMMA WriteTyped ==
  ASSUME LineTyped, NEW c \in Chunk, Write(c), UNCHANGED <<inbox, txOf>> PROVE LineTyped'
<1>1. wire' = Append(wire, c) /\ Len(wire) < MaxWire /\ wire \in Seq(Chunk)
  BY DEF Write, LineTyped
<1>2. wire' \in Seq(Chunk) /\ Len(wire') = Len(wire) + 1
  BY <1>1
<1>3. Len(wire') <= MaxWire
  BY <1>1, <1>2, LinkAssumption
<1> QED
  BY <1>2, <1>3 DEF LineTyped

LEMMA ReadTyped ==
  ASSUME LineTyped, inbox # <<>>, UNCHANGED <<wire, txOf>>
  PROVE  /\ Head(inbox) \in HostNote
         /\ inbox' = Tail(inbox) => LineTyped'
<1> HIDE DEF HostNote
<1> QED
  BY DEF LineTyped

\* The gateway's side of the line.
LEMMA LineStepsTyped ==
  ASSUME LinkTyped, LineIdle \/ Delivered \/ Gateway \/ Network
  PROVE  LinkTyped'
<1> USE DEF LinkTyped, hostState
<1>1. HostTyped' /\ SendersTyped'
  BY DEF LineIdle, Delivered, Gateway, Network, HostTyped, SendersTyped
<1>2. CASE LineIdle
  <2>1. wire[1] \in Chunk
    BY <1>2 DEF LineIdle, LineTyped
  <2>2. Merged(wire) \in Chunk
    BY <2>1 DEF Merged, Chunk
  <2>3. Typed'
    <3>1. ReceiveReady(Merged(wire)) /\ writes' \in 0..MaxWrites
      BY <1>2 DEF LineIdle, Typed, ThreadsTyped
    <3> QED
      BY <2>2, <3>1, ReceiveTyped
  <2>4. LineTyped'
    BY <1>2, LinkAssumption DEF LineIdle, LineTyped
  <2> QED
    BY <1>1, <2>3, <2>4
<1>3. CASE Delivered
  <2> DEFINE note == [c |-> IF tx.what = "frame" THEN "C" ELSE tx.what, of |-> txOf]
  <2>1. Typed'
    BY <1>3, InterruptsTyped DEF Delivered
  <2>2. tx # None /\ inbox' = Append(inbox, note) /\ UNCHANGED <<wire, txOf>>
    BY <1>3 DEF Delivered, TxDone
  <2>3. tx.what \in {"A", "N", "R", "frame"}
    BY <2>2 DEF Typed, MessagesTyped
  <2>4. note \in HostNote
    BY <2>3 DEF LineTyped, HostNote
  <2>5. LineTyped'
    <3> HIDE DEF note, HostNote
    <3> QED
      BY <2>2, <2>4 DEF LineTyped
  <2> QED
    BY <1>1, <2>1, <2>5
<1>4. CASE Gateway
  <2>1. Typed'
    BY <1>4, ProcTyped, CellTyped DEF Gateway
  <2>2. LineTyped'
    BY <1>4, LinkAssumption DEF Gateway, LineTyped
  <2> QED
    BY <1>1, <2>1, <2>2
<1>5. CASE Network
  <2>1. Typed'
    BY <1>5, InterruptsTyped DEF Network
  <2>2. LineTyped'
    BY <1>5 DEF Network, LineTyped
  <2> QED
    BY <1>1, <2>1, <2>2
<1> QED
  BY <1>2, <1>3, <1>4, <1>5

\* The constructor, the receive thread and the wake monitor.
LEMMA HostStepsTyped ==
  ASSUME LinkTyped, Constructor \/ Receive \/ MonitorPoll \/ MonitorWrite
  PROVE  LinkTyped'
<1>1. HostOnly /\ UNCHANGED <<sender, sent, credited, txOf>>
  BY
     DEF Constructor, Receive, MainAsk, MainAnswer, MainNetwork, MainSettle, MainEvent,
         RxAck,
         RxIgnore, RxMessage, RxReturn, MonitorPoll, MonitorWrite, HostOnly, hostState
<1>2. Typed' /\ SendersTyped'
  BY <1>1, HostOnlyTyped DEF LinkTyped, SendersTyped
<1>3. ASSUME NEW c \in Chunk, Write(c), UNCHANGED inbox PROVE LineTyped'
  BY <1>1, <1>3, WriteTyped DEF LinkTyped
<1> USE DEF LinkTyped
<1>4. CASE MainAsk \/ MonitorWrite
  <2>1. {[type |-> "?"], [type |-> "R"]} \subseteq Chunk
    BY DEF Chunk
  <2> QED
    BY <1>2, <1>3, <1>4, <2>1 DEF MainAsk, MonitorWrite, HostTyped
<1>5. CASE MainNetwork
  <2>1. \A p \in Ports : [type |-> "E", fits |-> TRUE, port |-> p] \in Chunk
    BY DEF Chunk
  <2> QED
    BY <1>2, <1>3, <1>5, <2>1 DEF MainNetwork, HostTyped
<1>6. CASE MainAnswer \/ RxMessage
  <2>1. LineTyped'
    BY <1>1, <1>6, ReadTyped DEF MainAnswer, RxMessage, RxTakes
  <2> QED
    BY <1>2, <1>6, <2>1 DEF MainAnswer, RxMessage, HostTyped
<1>7. CASE RxIgnore
  <2>1. LineTyped'
    BY <1>1, <1>7, ReadTyped DEF RxIgnore, RxTakes
  <2> QED
    BY <1>2, <1>7, <2>1 DEF RxIgnore, hostState, HostTyped
<1>8. CASE RxAck
  <2>1. LineTyped' /\ Head(inbox).of \in 0..MaxSends
    BY <1>1, <1>8, ReadTyped DEF RxAck, RxTakes, HostNote
  <2> QED
    BY <1>2, <1>8, <2>1 DEF RxAck, HostTyped
<1>9. CASE MainSettle
  <2>1. LineTyped'
    BY <1>1, <1>9 DEF MainSettle, LineTyped
  <2> QED
    BY <1>2, <1>9, <2>1 DEF MainSettle, HostTyped
<1>10. CASE MainEvent \/ RxReturn \/ MonitorPoll
  <2>1. LineTyped'
    BY <1>1, <1>10 DEF MainEvent, RxReturn, MonitorPoll, LineTyped
  <2> QED
    BY <1>2, <1>10, <2>1 DEF MainEvent, RxReturn, MonitorPoll, HostTyped
<1> QED
  BY <1>4, <1>5, <1>6, <1>7, <1>8, <1>9, <1>10 DEF Constructor, Receive

\* A thread in _send.
LEMMA SendTyped == ASSUME LinkTyped, NEW t \in SendThreads, Send(t) PROVE LinkTyped'
<1>1. HostOnly /\ UNCHANGED <<inbox, txOf, main, rx, monitor>>
  BY DEF Send, SendWrite, SendAcked, SendClear, SendTimeout, HostOnly
<1>2. Typed'
  BY <1>1, HostOnlyTyped DEF LinkTyped
<1> USE DEF LinkTyped
<1>3. CASE SendWrite(t)
  <2> DEFINE c == [type |-> IF t = "rx" THEN "C" ELSE "S", fits |-> TRUE, payload |-> sent + 1]
  <2>1. /\ sent < MaxSends /\ sent' = sent + 1 /\ UNCHANGED <<event, credited>>
        /\ sender' = [sender EXCEPT ![t] = [pc |-> "wait", msg |-> sent + 1]]
        /\ Write(c)
    BY <1>3 DEF SendWrite
  <2>2. sent + 1 \in 1..MaxSends
    BY <2>1, LinkAssumption DEF HostTyped
  <2>3. c \in Chunk
    BY <2>2, LinkAssumption DEF Chunk
  <2> HIDE DEF c
  <2>4. LineTyped'
    BY <1>1, <2>1, <2>3, WriteTyped
  <2>5. HostTyped'
    BY <1>1, <2>1, <2>2 DEF HostTyped
  <2>6. SendersTyped'
    BY <2>1, <2>2 DEF SendersTyped
  <2> QED
    BY <1>2, <2>4, <2>5, <2>6
<1>4. CASE SendAcked(t)
  <2>1. /\ UNCHANGED <<wire, sent, event>>
        /\ sender[t].pc = "wait"
        /\ sender' = [sender EXCEPT ![t].pc = "clear"]
        /\ credited' = credited \cup {[by |-> t, msg |-> sender[t].msg, ack |-> event.of]}
    BY <1>4 DEF SendAcked
  <2>2. LineTyped' /\ HostTyped'
    BY <1>1, <2>1 DEF LineTyped, HostTyped
  <2>3. sender[t].msg \in 1..MaxSends /\ event.of \in 0..MaxSends
    BY <2>1, LinkAssumption DEF SendersTyped, HostTyped
  <2>4. SendersTyped'
    BY <2>1, <2>3 DEF SendersTyped
  <2> QED
    BY <1>2, <2>2, <2>4
<1>5. CASE SendClear(t) \/ SendTimeout(t)
  <2>1. /\ UNCHANGED <<wire, sent, credited>>
        /\ event' \in {event, [state |-> "clear", of |-> 0]}
        /\ sender' = [sender EXCEPT ![t] = [pc |-> "idle", msg |-> 0]]
    BY <1>5 DEF SendClear, SendTimeout
  <2>2. LineTyped' /\ HostTyped'
    BY <1>1, <2>1, LinkAssumption DEF LineTyped, HostTyped
  <2>3. SendersTyped'
    BY <2>1, LinkAssumption DEF SendersTyped
  <2> QED
    BY <1>2, <2>2, <2>3
<1> QED
  BY <1>3, <1>4, <1>5 DEF Send

\* Whatever chunks merge and whichever threads write, every variable of the link
\* and of the gateway behind it keeps its type, the length of the line included.
THEOREM LinkTypeCorrect == LinkSpec => []LinkTypeOK
<1>1. LinkInit => LinkTyped
  <2> SUFFICES ASSUME LinkInit PROVE LinkTyped
    OBVIOUS
  <2>1. Typed
    BY InitTyped DEF LinkInit
  <2>2. LineTyped /\ HostTyped
    BY LinkAssumption DEF LinkInit, LineTyped, HostTyped
  <2>3. SendersTyped
    BY LinkAssumption DEF LinkInit, SendersTyped
  <2> QED
    BY <2>1, <2>2, <2>3 DEF LinkTyped
<1>2. LinkTyped /\ [LinkNext]_linkVars => LinkTyped'
  <2> SUFFICES ASSUME LinkTyped, [LinkNext]_linkVars PROVE LinkTyped'
    OBVIOUS
  <2>1. CASE UNCHANGED linkVars
    <3>1. Typed'
      BY <2>1, HostOnlyTyped DEF linkVars, HostOnly, LinkTyped
    <3> QED
      BY <2>1, <3>1 DEF linkVars, hostState, LinkTyped, LineTyped, HostTyped, SendersTyped
  <2> QED
    BY <2>1, LineStepsTyped, HostStepsTyped, SendTyped DEF LinkNext
<1> QED
  BY <1>1, <1>2, LinkTypedGivesTypeOK, PTL DEF LinkSpec
==============================================================================
