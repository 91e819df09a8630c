------------------------- MODULE StreamReceiverProofs -------------------------
(***************************************************************************)
(* Theorems about StreamReceiver: for every set of senders, every number   *)
(* of sessions, packets and calls.                                         *)
(***************************************************************************)
EXTENDS StreamReceiver, SequenceTheorems, TLAPS

\* The threads' own variables: what each has looked up is what it will use.
ControlTyped ==
  /\ control \in [pc : {"idle", "create", "close", "drain", "dead"},
                  addr : Addr \cup {None}, window : Windows \cup {None}]
  /\ control.pc = "create" => control.addr \in Addr /\ created < infos
  /\ control.pc \in {"close", "drain"} => control.window \in Windows

BufferTyped ==
  /\ buffer \in [pc : {"idle", "test", "index", "update", "store", "dead"},
                 addr : Addr \cup {None}, sn : 0..MaxPackets, window : Windows \cup {None}]
  /\ buffer.pc # "idle" => buffer.addr \in Addr /\ buffer.sn \in 1..MaxPackets
  /\ buffer.pc \in {"update", "store"} => buffer.window \in Windows
  /\ queue \in Seq([addr : Addr, sn : 1..MaxPackets])
  /\ received \in 0..MaxPackets

AppTyped ==
  /\ app \in [pc : {"idle", "popInfo", "popData", "close", "drain"},
              addr : Addr \cup {None}, window : Windows \cup {None}]
  /\ app.pc # "idle" => app.addr \in Addr
  /\ app.pc \in {"close", "drain"} => app.window \in Windows
  /\ raised \subseteq Windows

PrinterTyped == printer.pc \in {"idle", "iterate", "dead"} /\ printer = [pc |-> printer.pc, size |-> printer.size]

WindowsTyped ==
  /\ sensorInfo \subseteq Addr
  /\ dataDict \in [Addr -> Windows \cup {None}]
  /\ created \in Nat /\ infos \in 0..MaxInfos /\ created <= infos
  /\ owner \in [Windows -> Addr \cup {None}]
  /\ replaced \subseteq Windows /\ crossed \subseteq Addr

ContentsTyped ==
  /\ status \in [Windows -> {"open", "closing", "empty"}]
  /\ stored \in [Windows -> SUBSET Packets]
  /\ handed \in [Windows -> (SUBSET Packets) \cup {None}]

Typed ==
  /\ ControlTyped /\ BufferTyped /\ AppTyped /\ PrinterTyped /\ WindowsTyped /\ ContentsTyped

\* A window belongs to one address for good, and whoever holds the window for a
\* packet or a session holds the one of that address.
Owned ==
  /\ \A a \in Addr : dataDict[a] # None => dataDict[a] <= created /\ owner[dataDict[a]] = a
  /\ buffer.pc \in {"update", "store"} =>
       buffer.window <= created /\ owner[buffer.window] = buffer.addr
  /\ \A w \in Windows : stored[w] # {} => w <= created
  /\ \A w \in Windows : \A packet \in stored[w] : packet[1] = owner[w]

\* Packets are taken in the order of their reception,
Numbered ==
  /\ buffer.sn <= received
  /\ \A i \in DOMAIN queue : buffer.sn < queue[i].sn /\ queue[i].sn <= received
  /\ \A i, j \in DOMAIN queue : i < j => queue[i].sn < queue[j].sn

\* an address has the youngest of its windows,
Latest ==
  \A a \in Addr : dataDict[a] # None =>
    \A w \in Windows : w <= created /\ owner[w] = a => w <= dataDict[a]

\* so that the packet in hand is the last of all and its window none of the older
\* ones.
Following ==
  /\ \A w \in Windows : \A d \in stored[w] :
       d[2] <= buffer.sn /\ (buffer.pc \notin {"idle", "dead"} => d[2] < buffer.sn)
  /\ buffer.pc \in {"update", "store"} =>
       \A w \in Windows : stored[w] # {} /\ owner[w] = buffer.addr => w <= buffer.window
  /\ WindowsFollowReception

\* While SENSOR_INFO and end() do not meet at an address, what the first has begun
\* is undone by the second.
Creating(a) == control.pc = "create" /\ control.addr = a
Popping(a) == app.pc = "popData" /\ app.addr = a
Agreeing ==
  \A a \in Addr \ crossed :
    /\ ~(Creating(a) /\ Popping(a))
    /\ Creating(a) => a \in sensorInfo
    /\ Popping(a) => a \notin sensorInfo
    /\ ~Creating(a) /\ ~Popping(a) => (a \in sensorInfo <=> dataDict[a] # None)

\* Every window there is can be accounted for.
Reachable(w) ==
  \/ \E a \in Addr : dataDict[a] = w
  \/ app.pc \in {"close", "drain"} /\ app.window = w
  \/ handed[w] # None \/ w \in raised \/ w \in replaced
Reached == \A w \in Windows : w <= created => Reachable(w)

\* The buffering thread has stopped, or is about to, because a session ends.
Ending(a) ==
  \E w \in Windows :
    /\ w <= created /\ owner[w] = a
    /\ status[w] # "open" \/ (app.pc = "close" /\ app.window = w)
Stopping ==
  buffer.pc = "dead" \/ (buffer.pc = "index" /\ dataDict[buffer.addr] = None) => Ending(buffer.addr)

ReceiverInv ==
  Typed /\ Owned /\ Numbered /\ Latest /\ Following /\ Agreeing /\ Reached /\ Stopping
------------------------------------------------------------------------------
\* Every step keeps the types.
LEMMA TypedPreserved == Typed /\ [Next]_vars => Typed'
<1> SUFFICES ASSUME Typed, [Next]_vars PROVE Typed'
  OBVIOUS
<1> USE ReceiverAssumption DEF Typed, Windows, dicts, windowVars, counts, outcomes
<1>1. CASE UNCHANGED vars
  <2>1. ControlTyped'
    BY <1>1 DEF vars, ControlTyped
  <2>2. BufferTyped'
    BY <1>1 DEF vars, BufferTyped
  <2>3. AppTyped'
    BY <1>1 DEF vars, AppTyped
  <2>4. PrinterTyped'
    BY <1>1 DEF vars, PrinterTyped
  <2>5. WindowsTyped'
    BY <1>1 DEF vars, WindowsTyped
  <2>6. ContentsTyped'
    BY <1>1 DEF vars, ContentsTyped
  <2> QED
    BY <2>1, <2>2, <2>3, <2>4, <2>5, <2>6 DEF Typed
<1>2. ASSUME NEW a \in Addr, ControlInfo(a) PROVE Typed'
  <2>1. ControlTyped'
    <3>1. created' < infos'
      BY <1>2 DEF ControlInfo, WindowsTyped
    <3>2. control' = [control EXCEPT !.pc = "create", !.addr = a]
      BY <1>2 DEF ControlInfo
    <3> QED
      BY <3>1, <3>2 DEF ControlTyped
  <2>2. BufferTyped'
    BY <1>2 DEF ControlInfo, BufferTyped
  <2>3. AppTyped'
    BY <1>2 DEF ControlInfo, AppTyped
  <2>4. PrinterTyped'
    BY <1>2 DEF ControlInfo, PrinterTyped
  <2>5. WindowsTyped'
    BY <1>2 DEF ControlInfo, WindowsTyped
  <2>6. ContentsTyped'
    BY <1>2 DEF ControlInfo, ContentsTyped
  <2> QED
    BY <2>1, <2>2, <2>3, <2>4, <2>5, <2>6 DEF Typed
<1>3. CASE ControlCreate
  <2>1. ControlTyped'
    BY <1>3 DEF ControlCreate, ControlTyped
  <2>2. BufferTyped'
    BY <1>3 DEF ControlCreate, BufferTyped
  <2>3. AppTyped'
    BY <1>3 DEF ControlCreate, AppTyped
  <2>4. PrinterTyped'
    BY <1>3 DEF ControlCreate, PrinterTyped
  <2>5. WindowsTyped'
    BY <1>3 DEF ControlCreate, WindowsTyped, ControlTyped
  <2>6. ContentsTyped'
    BY <1>3 DEF ControlCreate, ContentsTyped
  <2> QED
    BY <2>1, <2>2, <2>3, <2>4, <2>5, <2>6 DEF Typed
<1>4. ASSUME NEW a \in Addr, ControlEnd(a) PROVE Typed'
  <2>1. ControlTyped'
    BY <1>4 DEF ControlEnd, Sessions, ControlTyped, WindowsTyped
  <2>2. BufferTyped'
    BY <1>4 DEF ControlEnd, Sessions, BufferTyped
  <2>3. AppTyped'
    BY <1>4 DEF ControlEnd, Sessions, AppTyped
  <2>4. PrinterTyped'
    BY <1>4 DEF ControlEnd, Sessions, PrinterTyped
  <2>5. WindowsTyped'
    BY <1>4 DEF ControlEnd, Sessions, WindowsTyped
  <2>6. ContentsTyped'
    BY <1>4 DEF ControlEnd, Sessions, ContentsTyped
  <2> QED
    BY <2>1, <2>2, <2>3, <2>4, <2>5, <2>6 DEF Typed
<1>5. CASE ControlClose
  <2>1. ControlTyped'
    BY <1>5 DEF ControlClose, Closing, NothingLeft, Inside, ControlTyped
  <2>2. BufferTyped'
    BY <1>5 DEF ControlClose, Closing, NothingLeft, Inside, BufferTyped
  <2>3. AppTyped'
    BY <1>5 DEF ControlClose, Closing, NothingLeft, Inside, AppTyped
  <2>4. PrinterTyped'
    BY <1>5 DEF ControlClose, Closing, NothingLeft, Inside, PrinterTyped
  <2>5. WindowsTyped'
    BY <1>5 DEF ControlClose, Closing, NothingLeft, Inside, WindowsTyped
  <2>6. ContentsTyped'
    BY <1>5 DEF ControlClose, Closing, NothingLeft, Inside, ContentsTyped
  <2> QED
    BY <2>1, <2>2, <2>3, <2>4, <2>5, <2>6 DEF Typed
<1>6. CASE ControlDrain
  <2>1. ControlTyped'
    BY <1>6 DEF ControlDrain, MayRaise, Inside, ControlTyped
  <2>2. BufferTyped'
    BY <1>6 DEF ControlDrain, MayRaise, Inside, BufferTyped
  <2>3. AppTyped'
    BY <1>6 DEF ControlDrain, MayRaise, Inside, AppTyped
  <2>4. PrinterTyped'
    BY <1>6 DEF ControlDrain, MayRaise, Inside, PrinterTyped
  <2>5. WindowsTyped'
    BY <1>6 DEF ControlDrain, MayRaise, Inside, WindowsTyped
  <2>6. ContentsTyped'
    BY <1>6 DEF ControlDrain, MayRaise, Inside, ContentsTyped
  <2> QED
    BY <2>1, <2>2, <2>3, <2>4, <2>5, <2>6 DEF Typed
<1>7. ASSUME NEW a \in Addr, Receive(a) PROVE Typed'
  <2>1. ControlTyped'
    BY <1>7 DEF Receive, ControlTyped
  <2>2. BufferTyped'
    BY <1>7 DEF Receive, BufferTyped
  <2>3. AppTyped'
    BY <1>7 DEF Receive, AppTyped
  <2>4. PrinterTyped'
    BY <1>7 DEF Receive, PrinterTyped
  <2>5. WindowsTyped'
    BY <1>7 DEF Receive, WindowsTyped
  <2>6. ContentsTyped'
    BY <1>7 DEF Receive, ContentsTyped
  <2> QED
    BY <2>1, <2>2, <2>3, <2>4, <2>5, <2>6 DEF Typed
<1>8. CASE BufferTake
  <2>1. ControlTyped'
    BY <1>8 DEF BufferTake, ControlTyped
  <2>2. BufferTyped'
    <3> DEFINE Message == [addr : Addr, sn : 1..MaxPackets]
    <3>1. queue \in Seq(Message) /\ queue # <<>>
      BY <1>8 DEF BufferTake, BufferTyped
    <3>2. /\ buffer' = [buffer EXCEPT !.pc = "test", !.addr = Head(queue).addr,
                                      !.sn = Head(queue).sn]
          /\ queue' = Tail(queue) /\ UNCHANGED received
      BY <1>8 DEF BufferTake
    <3>3. Head(queue) \in Message /\ Tail(queue) \in Seq(Message)
      <4> HIDE DEF Message
      <4> QED
        BY <3>1, HeadTailProperties
    <3>4. /\ buffer \in [pc : {"idle", "test", "index", "update", "store", "dead"},
                         addr : Addr \cup {None}, sn : 0..MaxPackets, window : Windows \cup {None}]
          /\ received \in 0..MaxPackets
      BY DEF BufferTyped
    <3>5. Head(queue).addr \in Addr /\ Head(queue).sn \in 1..MaxPackets
      BY <3>3
    <3>6. /\ buffer' \in [pc : {"idle", "test", "index", "update", "store", "dead"},
                          addr : Addr \cup {None}, sn : 0..MaxPackets, window : Windows \cup {None}]
          /\ buffer'.pc = "test" /\ buffer'.addr \in Addr /\ buffer'.sn \in 1..MaxPackets
      <4>1. Head(queue).sn \in 0..MaxPackets
        BY <3>5
      <4> HIDE <1>8 DEF Typed, Windows
      <4> QED
        BY <3>2, <3>4, <3>5, <4>1
    <3> HIDE <1>8 DEF Typed
    <3> QED
      BY <3>2, <3>3, <3>4, <3>6 DEF BufferTyped
  <2>3. AppTyped'
    BY <1>8 DEF BufferTake, AppTyped
  <2>4. PrinterTyped'
    BY <1>8 DEF BufferTake, PrinterTyped
  <2>5. WindowsTyped'
    BY <1>8 DEF BufferTake, WindowsTyped
  <2>6. ContentsTyped'
    BY <1>8 DEF BufferTake, ContentsTyped
  <2> QED
    BY <2>1, <2>2, <2>3, <2>4, <2>5, <2>6 DEF Typed
<1>9. CASE BufferTest
  <2>1. ControlTyped'
    BY <1>9 DEF BufferTest, Sessions, ControlTyped
  <2>2. BufferTyped'
    BY <1>9 DEF BufferTest, Sessions, BufferTyped
  <2>3. AppTyped'
    BY <1>9 DEF BufferTest, Sessions, AppTyped
  <2>4. PrinterTyped'
    BY <1>9 DEF BufferTest, Sessions, PrinterTyped
  <2>5. WindowsTyped'
    BY <1>9 DEF BufferTest, Sessions, WindowsTyped
  <2>6. ContentsTyped'
    BY <1>9 DEF BufferTest, Sessions, ContentsTyped
  <2> QED
    BY <2>1, <2>2, <2>3, <2>4, <2>5, <2>6 DEF Typed
<1>10. CASE BufferIndex
  <2>1. ControlTyped'
    BY <1>10 DEF BufferIndex, Sessions, ControlTyped
  <2>2. BufferTyped'
    BY <1>10 DEF BufferIndex, Sessions, BufferTyped, WindowsTyped
  <2>3. AppTyped'
    BY <1>10 DEF BufferIndex, Sessions, AppTyped
  <2>4. PrinterTyped'
    BY <1>10 DEF BufferIndex, Sessions, PrinterTyped
  <2>5. WindowsTyped'
    BY <1>10 DEF BufferIndex, Sessions, WindowsTyped
  <2>6. ContentsTyped'
    BY <1>10 DEF BufferIndex, Sessions, ContentsTyped
  <2> QED
    BY <2>1, <2>2, <2>3, <2>4, <2>5, <2>6 DEF Typed
<1>11. CASE BufferUpdate
  <2>1. ControlTyped'
    BY <1>11 DEF BufferUpdate, ControlTyped
  <2>2. BufferTyped'
    BY <1>11 DEF BufferUpdate, BufferTyped
  <2>3. AppTyped'
    BY <1>11 DEF BufferUpdate, AppTyped
  <2>4. PrinterTyped'
    BY <1>11 DEF BufferUpdate, PrinterTyped
  <2>5. WindowsTyped'
    BY <1>11 DEF BufferUpdate, WindowsTyped
  <2>6. ContentsTyped'
    BY <1>11 DEF BufferUpdate, ContentsTyped
  <2> QED
    BY <2>1, <2>2, <2>3, <2>4, <2>5, <2>6 DEF Typed
<1>12. CASE BufferStore
  <2>1. ControlTyped'
    BY <1>12 DEF BufferStore, Accepting, ControlTyped
  <2>2. BufferTyped'
    BY <1>12 DEF BufferStore, Accepting, BufferTyped
  <2>3. AppTyped'
    BY <1>12 DEF BufferStore, Accepting, AppTyped
  <2>4. PrinterTyped'
    BY <1>12 DEF BufferStore, Accepting, PrinterTyped
  <2>5. WindowsTyped'
    BY <1>12 DEF BufferStore, Accepting, WindowsTyped
  <2>6. ContentsTyped'
    <3>1. UNCHANGED <<status, handed>>
      BY <1>12 DEF BufferStore
    <3>2. stored' \in [Windows -> SUBSET Packets]
      <4>1. <<buffer.addr, buffer.sn>> \in Packets /\ buffer.window \in Windows
        BY <1>12 DEF BufferStore, BufferTyped, Packets
      <4>2. stored' = stored \/ \E lost :
              stored' = [stored EXCEPT ![buffer.window] =
                          (@ \ lost) \cup {<<buffer.addr, buffer.sn>>}]
        BY <1>12 DEF BufferStore, Accepting
      <4>3. stored \in [Windows -> SUBSET Packets]
        BY DEF ContentsTyped
      <4> HIDE DEF Typed, Windows
      <4> QED
        BY <4>1, <4>2, <4>3
    <3> QED
      BY <3>1, <3>2 DEF ContentsTyped
  <2> QED
    BY <2>1, <2>2, <2>3, <2>4, <2>5, <2>6 DEF Typed
<1>13. ASSUME NEW a \in Addr, AppEnd(a) PROVE Typed'
  <2>1. ControlTyped'
    BY <1>13 DEF AppEnd, ControlTyped
  <2>2. BufferTyped'
    BY <1>13 DEF AppEnd, BufferTyped
  <2>3. AppTyped'
    BY <1>13 DEF AppEnd, AppTyped
  <2>4. PrinterTyped'
    BY <1>13 DEF AppEnd, PrinterTyped
  <2>5. WindowsTyped'
    BY <1>13 DEF AppEnd, WindowsTyped
  <2>6. ContentsTyped'
    BY <1>13 DEF AppEnd, ContentsTyped
  <2> QED
    BY <2>1, <2>2, <2>3, <2>4, <2>5, <2>6 DEF Typed
<1>14. CASE AppPopInfo
  <2>1. ControlTyped'
    BY <1>14 DEF AppPopInfo, PoppingInfo, ControlTyped
  <2>2. BufferTyped'
    BY <1>14 DEF AppPopInfo, PoppingInfo, BufferTyped
  <2>3. AppTyped'
    BY <1>14 DEF AppPopInfo, PoppingInfo, AppTyped
  <2>4. PrinterTyped'
    BY <1>14 DEF AppPopInfo, PoppingInfo, PrinterTyped
  <2>5. WindowsTyped'
    BY <1>14 DEF AppPopInfo, PoppingInfo, AppTyped, WindowsTyped
  <2>6. ContentsTyped'
    BY <1>14 DEF AppPopInfo, PoppingInfo, ContentsTyped
  <2> QED
    BY <2>1, <2>2, <2>3, <2>4, <2>5, <2>6 DEF Typed
<1>15. CASE AppPopData
  <2>1. ControlTyped'
    BY <1>15 DEF AppPopData, Sessions, ControlTyped
  <2>2. BufferTyped'
    BY <1>15 DEF AppPopData, Sessions, BufferTyped
  <2>3. AppTyped'
    BY <1>15 DEF AppPopData, Sessions, AppTyped, WindowsTyped
  <2>4. PrinterTyped'
    BY <1>15 DEF AppPopData, Sessions, PrinterTyped
  <2>5. WindowsTyped'
    BY <1>15 DEF AppPopData, Sessions, WindowsTyped
  <2>6. ContentsTyped'
    BY <1>15 DEF AppPopData, Sessions, ContentsTyped
  <2> QED
    BY <2>1, <2>2, <2>3, <2>4, <2>5, <2>6 DEF Typed
<1>16. CASE AppClose
  <2>1. ControlTyped'
    BY <1>16 DEF AppClose, Closing, NothingLeft, Inside, Returning, ControlTyped
  <2>2. BufferTyped'
    BY <1>16 DEF AppClose, Closing, NothingLeft, Inside, Returning, BufferTyped
  <2>3. AppTyped'
    BY <1>16 DEF AppClose, Closing, NothingLeft, Inside, Returning, AppTyped
  <2>4. PrinterTyped'
    BY <1>16 DEF AppClose, Closing, NothingLeft, Inside, Returning, PrinterTyped
  <2>5. WindowsTyped'
    BY <1>16 DEF AppClose, Closing, NothingLeft, Inside, Returning, WindowsTyped
  <2>6. ContentsTyped'
    BY <1>16 DEF AppClose, Closing, NothingLeft, Inside, Returning, ContentsTyped
  <2> QED
    BY <2>1, <2>2, <2>3, <2>4, <2>5, <2>6 DEF Typed
<1>17. CASE AppDrain
  <2>1. ControlTyped'
    BY <1>17 DEF AppDrain, MayRaise, Inside, Returning, ControlTyped
  <2>2. BufferTyped'
    BY <1>17 DEF AppDrain, MayRaise, Inside, Returning, BufferTyped
  <2>3. AppTyped'
    BY <1>17 DEF AppDrain, MayRaise, Inside, Returning, AppTyped
  <2>4. PrinterTyped'
    BY <1>17 DEF AppDrain, MayRaise, Inside, Returning, PrinterTyped
  <2>5. WindowsTyped'
    BY <1>17 DEF AppDrain, MayRaise, Inside, Returning, WindowsTyped
  <2>6. ContentsTyped'
    BY <1>17 DEF AppDrain, MayRaise, Inside, Returning, ContentsTyped
  <2> QED
    BY <2>1, <2>2, <2>3, <2>4, <2>5, <2>6 DEF Typed
<1>18. CASE PrintBegin \/ PrintNext
  <2>1. ControlTyped'
    BY <1>18 DEF PrintBegin, PrintNext, ControlTyped
  <2>2. BufferTyped'
    BY <1>18 DEF PrintBegin, PrintNext, BufferTyped
  <2>3. AppTyped'
    BY <1>18 DEF PrintBegin, PrintNext, AppTyped
  <2>4. PrinterTyped'
    BY <1>18 DEF PrintBegin, PrintNext, PrinterTyped
  <2>5. WindowsTyped'
    BY <1>18 DEF PrintBegin, PrintNext, WindowsTyped
  <2>6. ContentsTyped'
    BY <1>18 DEF PrintBegin, PrintNext, ContentsTyped
  <2> QED
    BY <2>1, <2>2, <2>3, <2>4, <2>5, <2>6 DEF Typed
<1> QED
  BY <1>1, <1>2, <1>3, <1>4, <1>5, <1>6, <1>7, <1>8, <1>9, <1>10, <1>11, <1>12, <1>13,
     <1>14, <1>15, <1>16, <1>17, <1>18
     DEF Next, Controlling, Buffering, AppStep

\* A packet stays with its sender's windows.
LEMMA OwnedPreserved == Typed /\ Owned /\ [Next]_vars => Owned'
<1> SUFFICES ASSUME Typed, Owned, [Next]_vars PROVE Owned'
  OBVIOUS
<1> USE ReceiverAssumption DEF Typed, ControlTyped, BufferTyped, AppTyped, WindowsTyped, ContentsTyped, Windows, dicts, windowVars, counts, outcomes, Packets
<1>1. CASE UNCHANGED vars
  BY <1>1 DEF vars, Owned
<1>2. ASSUME NEW a \in Addr, ControlInfo(a) PROVE Owned'
  BY <1>2 DEF ControlInfo, Owned
<1>3. CASE ControlCreate
  <2>1. created \in Nat /\ created + 1 \in Windows /\ control.addr \in Addr
    BY <1>3 DEF ControlCreate
  <2>2. /\ created' = created + 1
        /\ dataDict' = [dataDict EXCEPT ![control.addr] = created + 1]
        /\ owner' = [owner EXCEPT ![created + 1] = control.addr]
        /\ UNCHANGED <<buffer, stored>>
    BY <1>3 DEF ControlCreate
  <2> HIDE DEF Typed
  <2>3. \A a \in Addr : dataDict'[a] # None => dataDict'[a] <= created' /\ owner'[dataDict'[a]] = a
    BY <2>1, <2>2 DEF Owned, Typed
  <2>4. (buffer.pc \in {"update", "store"} =>
       buffer.window <= created /\ owner[buffer.window] = buffer.addr)'
    BY <2>1, <2>2 DEF Owned, Typed
  <2>5. \A w \in Windows : stored'[w] # {} => w <= created' /\ owner'[w] = owner[w]
    BY <2>1, <2>2 DEF Owned, Typed
  <2>6. \A w \in Windows : \A packet \in stored'[w] : packet[1] = owner'[w]
    BY <2>2, <2>5 DEF Owned
  <2> QED
    BY <2>2, <2>3, <2>4, <2>5, <2>6 DEF Owned
<1>4. ASSUME NEW a \in Addr, ControlEnd(a) PROVE Owned'
  BY <1>4 DEF ControlEnd, Sessions, Owned
<1>5. CASE ControlClose
  BY <1>5 DEF ControlClose, Closing, NothingLeft, Inside, Owned
<1>6. CASE ControlDrain
  BY <1>6 DEF ControlDrain, MayRaise, Inside, Owned
<1>7. ASSUME NEW a \in Addr, Receive(a) PROVE Owned'
  BY <1>7 DEF Receive, Owned
<1>8. CASE BufferTake
  BY <1>8 DEF BufferTake, Owned
<1>9. CASE BufferTest
  BY <1>9 DEF BufferTest, Sessions, Owned
<1>10. CASE BufferIndex
  BY <1>10 DEF BufferIndex, Sessions, Owned
<1>11. CASE BufferUpdate
  <2>1. buffer.pc = "update" /\ UNCHANGED <<dataDict, created, owner, stored>>
    BY <1>11 DEF BufferUpdate
  <2>2. /\ buffer'.pc \in {"store", "idle"}
        /\ buffer'.addr = buffer.addr /\ buffer'.window = buffer.window
    BY <1>11 DEF BufferUpdate
  <2> QED
    BY <2>1, <2>2 DEF Owned
<1>12. CASE BufferStore
  <2>1. CASE UNCHANGED stored
    BY <1>12, <2>1 DEF BufferStore, Accepting, Owned
  <2>2. CASE Accepting
    <3> DEFINE v == buffer.window
    <3>1. v \in Windows /\ v <= created /\ owner[v] = buffer.addr
      BY <1>12 DEF BufferStore, Owned
    <3>2. PICK lost : \A w \in Windows : stored'[w] =
            IF w = v THEN (stored[w] \ lost) \cup {<<buffer.addr, buffer.sn>>} ELSE stored[w]
      <4>1. stored \in [Windows -> SUBSET Packets]
        BY DEF Typed, ContentsTyped
      <4> HIDE DEF Typed, Windows, Packets
      <4>2. PICK lost \in SUBSET stored[v] :
              stored' = [stored EXCEPT ![v] = (@ \ lost) \cup {<<buffer.addr, buffer.sn>>}]
        BY <2>2 DEF Accepting
      <4> QED
        BY <3>1, <4>1, <4>2
    <3>3. UNCHANGED <<dataDict, created, owner>> /\ buffer'.pc = "idle"
      BY <1>12, <2>2 DEF BufferStore, Accepting
    <3>4. \A w \in Windows : stored'[w] # {} => w <= created'
      BY <3>1, <3>2, <3>3 DEF Owned
    <3>5. \A w \in Windows : \A packet \in stored'[w] : packet[1] = owner'[w]
      <4>1. \A w \in Windows : \A packet \in stored[w] : packet[1] = owner[w]
        BY DEF Owned
      <4>2. <<buffer.addr, buffer.sn>>[1] = buffer.addr
        OBVIOUS
      <4> HIDE DEF Typed, Windows
      <4> QED
        BY <3>1, <3>2, <3>3, <4>1, <4>2
    <3> QED
      BY <3>3, <3>4, <3>5 DEF Owned
  <2> QED
    BY <1>12, <2>1, <2>2 DEF BufferStore
<1>13. ASSUME NEW a \in Addr, AppEnd(a) PROVE Owned'
  BY <1>13 DEF AppEnd, Owned
<1>14. CASE AppPopInfo
  BY <1>14 DEF AppPopInfo, PoppingInfo, Owned
<1>15. CASE AppPopData
  BY <1>15 DEF AppPopData, Sessions, Owned
<1>16. CASE AppClose
  BY <1>16 DEF AppClose, Closing, NothingLeft, Inside, Returning, Owned
<1>17. CASE AppDrain
  BY <1>17 DEF AppDrain, MayRaise, Inside, Returning, Owned
<1>18. CASE PrintBegin \/ PrintNext
  BY <1>18 DEF PrintBegin, PrintNext, Owned
<1> QED
  BY <1>1, <1>2, <1>3, <1>4, <1>5, <1>6, <1>7, <1>8, <1>9, <1>10, <1>11, <1>12, <1>13,
     <1>14, <1>15, <1>16, <1>17, <1>18
     DEF Next, Controlling, Buffering, AppStep

\* Reception numbers packets, and the queue keeps the order.
LEMMA NumberedPreserved == Typed /\ Numbered /\ [Next]_vars => Numbered'
<1> SUFFICES ASSUME Typed, Numbered, [Next]_vars PROVE Numbered'
  OBVIOUS
<1> USE ReceiverAssumption DEF dicts, windowVars, counts, outcomes, Typed, BufferTyped
<1>1. CASE UNCHANGED vars
  BY <1>1 DEF vars, Numbered
<1>2. ASSUME NEW a \in Addr, ControlInfo(a) PROVE Numbered'
  BY <1>2 DEF ControlInfo, Numbered
<1>3. CASE ControlCreate
  BY <1>3 DEF ControlCreate, Numbered
<1>4. ASSUME NEW a \in Addr, ControlEnd(a) PROVE Numbered'
  BY <1>4 DEF ControlEnd, Sessions, Numbered
<1>5. CASE ControlClose
  BY <1>5 DEF ControlClose, Closing, NothingLeft, Inside, Numbered
<1>6. CASE ControlDrain
  BY <1>6 DEF ControlDrain, MayRaise, Inside, Numbered
<1>7. ASSUME NEW a \in Addr, Receive(a) PROVE Numbered'
  <2> DEFINE m == [addr |-> a, sn |-> received + 1]
  <2>1. received' = received + 1 /\ queue' = Append(queue, m) /\ UNCHANGED buffer
    BY <1>7 DEF Receive
  <2>2. received \in Nat /\ queue \in Seq([addr : Addr, sn : 1..MaxPackets]) /\ buffer.sn \in Nat
    OBVIOUS
  <2>3. ASSUME NEW i \in DOMAIN queue PROVE queue[i].sn \in Nat
    <3> DEFINE Message == [addr : Addr, sn : 1..MaxPackets]
    <3>1. queue \in Seq(Message)
      BY <2>2
    <3>2. queue[i] \in Message
      <4> HIDE DEF Message
      <4> QED
        BY <2>3, <3>1
    <3> QED
      BY <3>2
  <2>4. ASSUME NEW i \in DOMAIN queue'
        PROVE  \/ i \in DOMAIN queue /\ queue'[i] = queue[i]
               \/ i = Len(queue) + 1 /\ queue'[i] = m
    <3> HIDE DEF m
    <3> QED
      BY <2>1, <2>2, <2>4
  <2>5. m.sn = received + 1 /\ \A i \in DOMAIN queue : i < Len(queue) + 1
    BY <2>2
  <2> HIDE DEF m, Typed, BufferTyped
  <2>6. \A i \in DOMAIN queue' : buffer.sn < queue'[i].sn /\ queue'[i].sn <= received + 1
    BY <2>2, <2>3, <2>4, <2>5 DEF Numbered
  <2>7. ASSUME NEW i \in DOMAIN queue', NEW j \in DOMAIN queue', i < j
        PROVE  queue'[i].sn < queue'[j].sn
    <3>1. i \in Int /\ j \in Int /\ Len(queue) \in Nat /\ DOMAIN queue = 1..Len(queue)
      BY <2>1, <2>2
    <3>2. i \in DOMAIN queue /\ queue'[i] = queue[i]
      BY <2>4, <2>5, <2>7, <3>1
    <3>3. CASE j \in DOMAIN queue /\ queue'[j] = queue[j]
      BY <2>7, <3>2, <3>3 DEF Numbered
    <3>4. CASE queue'[j] = m
      BY <2>2, <2>3, <2>5, <3>2, <3>4 DEF Numbered
    <3> QED
      BY <2>4, <3>3, <3>4
  <2> QED
    BY <2>1, <2>2, <2>6, <2>7 DEF Numbered
<1>8. CASE BufferTake
  <2>1. queue # <<>> /\ queue \in Seq([addr : Addr, sn : 1..MaxPackets])
    BY <1>8 DEF BufferTake
  <2>2. buffer'.sn = queue[1].sn /\ queue' = Tail(queue) /\ UNCHANGED received
    BY <1>8, <2>1 DEF BufferTake
  <2>3. 1 \in DOMAIN queue /\ received \in Nat
    BY <2>1
  <2>4. ASSUME NEW i \in DOMAIN queue'
        PROVE  i \in Nat /\ i + 1 \in DOMAIN queue /\ 1 < i + 1 /\ queue'[i] = queue[i + 1]
    BY <2>1, <2>2, <2>4
  <2>5. \A i, j \in DOMAIN queue' : i < j => i + 1 < j + 1
    BY <2>4
  <2> HIDE DEF Typed, BufferTyped
  <2> QED
    BY <2>2, <2>3, <2>4, <2>5 DEF Numbered
<1>9. CASE BufferTest
  BY <1>9 DEF BufferTest, Numbered
<1>10. CASE BufferIndex
  BY <1>10 DEF BufferIndex, Sessions, Numbered
<1>11. CASE BufferUpdate
  BY <1>11 DEF BufferUpdate, Numbered
<1>12. CASE BufferStore
  BY <1>12 DEF BufferStore, Accepting, Numbered
<1>13. ASSUME NEW a \in Addr, AppEnd(a) PROVE Numbered'
  BY <1>13 DEF AppEnd, Numbered
<1>14. CASE AppPopInfo
  BY <1>14 DEF AppPopInfo, PoppingInfo, Numbered
<1>15. CASE AppPopData
  BY <1>15 DEF AppPopData, Sessions, Numbered
<1>16. CASE AppClose
  BY <1>16 DEF AppClose, Closing, NothingLeft, Inside, Returning, Numbered
<1>17. CASE AppDrain
  BY <1>17 DEF AppDrain, MayRaise, Inside, Returning, Numbered
<1>18. CASE PrintBegin \/ PrintNext
  BY <1>18 DEF PrintBegin, PrintNext, Numbered
<1> QED
  BY <1>1, <1>2, <1>3, <1>4, <1>5, <1>6, <1>7, <1>8, <1>9, <1>10, <1>11, <1>12, <1>13,
     <1>14, <1>15, <1>16, <1>17, <1>18
     DEF Next, Controlling, Buffering, AppStep

\* A new window is younger than all there are.
LEMMA LatestPreserved == Typed /\ Owned /\ Latest /\ [Next]_vars => Latest'
<1> SUFFICES ASSUME Typed, Owned, Latest, [Next]_vars PROVE Latest'
  OBVIOUS
<1> USE ReceiverAssumption DEF dicts, windowVars, counts, outcomes, Typed, WindowsTyped, Windows
<1>1. CASE UNCHANGED vars
  BY <1>1 DEF vars, Latest
<1>2. ASSUME NEW a \in Addr, ControlInfo(a) PROVE Latest'
  BY <1>2 DEF ControlInfo, Latest
<1>3. CASE ControlCreate
  <2>1. created \in Nat /\ created + 1 \in Windows /\ control.addr \in Addr
    BY <1>3 DEF ControlCreate, ControlTyped
  <2>2. /\ created' = created + 1
        /\ dataDict' = [dataDict EXCEPT ![control.addr] = created + 1]
        /\ owner' = [owner EXCEPT ![created + 1] = control.addr]
    BY <1>3 DEF ControlCreate
  <2> SUFFICES ASSUME NEW a \in Addr, dataDict'[a] # None,
                      NEW w \in Windows, w <= created', owner'[w] = a
               PROVE  w <= dataDict'[a]
    BY DEF Latest
  <2>3. CASE a = control.addr
    BY <2>1, <2>2, <2>3
  <2>4. CASE a # control.addr
    BY <2>1, <2>2, <2>4 DEF Latest
  <2> QED
    BY <2>3, <2>4
<1>4. ASSUME NEW a \in Addr, ControlEnd(a) PROVE Latest'
  BY <1>4 DEF ControlEnd, Sessions, Latest
<1>5. CASE ControlClose
  BY <1>5 DEF ControlClose, Closing, NothingLeft, Inside, Latest
<1>6. CASE ControlDrain
  BY <1>6 DEF ControlDrain, MayRaise, Inside, Latest
<1>7. ASSUME NEW a \in Addr, Receive(a) PROVE Latest'
  BY <1>7 DEF Receive, Latest
<1>8. CASE BufferTake
  BY <1>8 DEF BufferTake, Latest
<1>9. CASE BufferTest
  BY <1>9 DEF BufferTest, Sessions, Latest
<1>10. CASE BufferIndex
  BY <1>10 DEF BufferIndex, Sessions, Latest
<1>11. CASE BufferUpdate
  BY <1>11 DEF BufferUpdate, Latest
<1>12. CASE BufferStore
  BY <1>12 DEF BufferStore, Accepting, Latest
<1>13. ASSUME NEW a \in Addr, AppEnd(a) PROVE Latest'
  BY <1>13 DEF AppEnd, Latest
<1>14. CASE AppPopInfo
  BY <1>14 DEF AppPopInfo, PoppingInfo, Latest
<1>15. CASE AppPopData
  BY <1>15 DEF AppPopData, Sessions, Latest
<1>16. CASE AppClose
  BY <1>16 DEF AppClose, Closing, NothingLeft, Inside, Returning, Latest
<1>17. CASE AppDrain
  BY <1>17 DEF AppDrain, MayRaise, Inside, Returning, Latest
<1>18. CASE PrintBegin \/ PrintNext
  BY <1>18 DEF PrintBegin, PrintNext, Latest
<1> QED
  BY <1>1, <1>2, <1>3, <1>4, <1>5, <1>6, <1>7, <1>8, <1>9, <1>10, <1>11, <1>12, <1>13,
     <1>14, <1>15, <1>16, <1>17, <1>18
     DEF Next, Controlling, Buffering, AppStep

\* The packet in hand goes to none of the older windows.
LEMMA FollowingPreserved == Typed /\ Owned /\ Numbered /\ Latest /\ Following /\ [Next]_vars => Following'
<1> SUFFICES ASSUME Typed, Owned, Numbered, Latest, Following, [Next]_vars PROVE Following'
  OBVIOUS
<1> USE ReceiverAssumption DEF dicts, windowVars, counts, outcomes, Typed, BufferTyped, Windows
<1>1. CASE UNCHANGED vars
  BY <1>1 DEF vars, Following, WindowsFollowReception
<1>2. ASSUME NEW a \in Addr, ControlInfo(a) PROVE Following'
  BY <1>2 DEF ControlInfo, Following, WindowsFollowReception
<1>3. CASE ControlCreate
  <2>1. created \in Nat /\ created + 1 \in Windows /\ UNCHANGED <<buffer, stored>>
    BY <1>3 DEF ControlCreate, ControlTyped, WindowsTyped
  <2>2. \A w \in Windows : stored[w] # {} => owner'[w] = owner[w]
    BY <1>3, <2>1 DEF ControlCreate, Owned, WindowsTyped
  <2> QED
    BY <2>1, <2>2 DEF Following, WindowsFollowReception
<1>4. ASSUME NEW a \in Addr, ControlEnd(a) PROVE Following'
  BY <1>4 DEF ControlEnd, Sessions, Following, WindowsFollowReception
<1>5. CASE ControlClose
  BY <1>5 DEF ControlClose, Closing, NothingLeft, Inside, Following, WindowsFollowReception
<1>6. CASE ControlDrain
  BY <1>6 DEF ControlDrain, MayRaise, Inside, Following, WindowsFollowReception
<1>7. ASSUME NEW a \in Addr, Receive(a) PROVE Following'
  BY <1>7 DEF Receive, Following, WindowsFollowReception
<1>8. CASE BufferTake
  <2>1. /\ queue # <<>> /\ queue \in Seq([addr : Addr, sn : 1..MaxPackets])
        /\ UNCHANGED <<stored, owner>>
    BY <1>8 DEF BufferTake
  <2>2. buffer'.sn = queue[1].sn /\ buffer'.pc = "test" /\ 1 \in DOMAIN queue
    BY <1>8, <2>1 DEF BufferTake
  <2>3. buffer.sn < queue[1].sn /\ buffer.sn \in Nat /\ queue[1].sn \in Nat
    <3> DEFINE Message == [addr : Addr, sn : 1..MaxPackets]
    <3>1. queue \in Seq(Message) /\ buffer.sn \in Nat
      BY <2>1
    <3>2. queue[1] \in Message
      <4> HIDE DEF Message
      <4> QED
        BY <2>2, <3>1
    <3> QED
      BY <2>2, <3>1, <3>2 DEF Numbered
  <2>4. \A w \in Windows : \A d \in stored[w] : d[2] \in Nat
    BY DEF ContentsTyped, Packets
  <2>5. \A w \in Windows : \A d \in stored[w] : d[2] <= buffer'.sn /\ d[2] < buffer'.sn
    <3>1. \A w \in Windows : \A d \in stored[w] : d[2] <= buffer.sn
      BY DEF Following
    <3> HIDE DEF Typed, BufferTyped, Windows
    <3> QED
      BY <2>2, <2>3, <2>4, <3>1
  <2> HIDE DEF Typed, BufferTyped, Windows
  <2> QED
    BY <2>1, <2>2, <2>5 DEF Following, WindowsFollowReception
<1>9. CASE BufferTest
  BY <1>9 DEF BufferTest, Sessions, Following, WindowsFollowReception
<1>10. CASE BufferIndex
  <2>1. UNCHANGED <<stored, owner>> /\ buffer.pc = "index"
    BY <1>10 DEF BufferIndex
  <2>2. /\ buffer'.pc \in {"update", "dead"} /\ buffer'.sn = buffer.sn
        /\ buffer'.addr = buffer.addr /\ buffer.addr \in Addr
        /\ buffer'.pc = "update" =>
             buffer'.window = dataDict[buffer.addr] /\ dataDict[buffer.addr] # None
    BY <1>10 DEF BufferIndex, Sessions
  <2>3. buffer'.pc = "update" =>
          \A w \in Windows : stored[w] # {} /\ owner[w] = buffer.addr => w <= buffer'.window
    BY <2>2 DEF Owned, Latest
  <2>4. \A w \in Windows : \A d \in stored[w] : d[2] <= buffer.sn /\ d[2] < buffer.sn
    BY <2>1 DEF Following
  <2>5. WindowsFollowReception'
    BY <2>1 DEF Following, WindowsFollowReception
  <2> QED
    BY <2>1, <2>2, <2>3, <2>4, <2>5 DEF Following
<1>11. CASE BufferUpdate
  <2>1. UNCHANGED <<stored, owner>> /\ buffer.pc = "update"
    BY <1>11 DEF BufferUpdate
  <2>2. /\ buffer'.pc \in {"store", "idle"} /\ buffer'.sn = buffer.sn
        /\ buffer'.addr = buffer.addr /\ buffer'.window = buffer.window
    BY <1>11 DEF BufferUpdate
  <2> QED
    BY <2>1, <2>2 DEF Following, WindowsFollowReception
<1>12. CASE BufferStore
  <2> DEFINE v == buffer.window
             p == <<buffer.addr, buffer.sn>>
  <2>1. /\ buffer.pc = "store" /\ v \in Windows /\ owner[v] = buffer.addr
        /\ buffer.sn \in Nat /\ UNCHANGED owner
    BY <1>12 DEF BufferStore, Owned
  <2>2. CASE UNCHANGED stored
    <3>1. buffer'.sn = buffer.sn /\ buffer'.pc \in {"dead", "idle"}
      BY <1>12 DEF BufferStore, Accepting
    <3> QED
      BY <2>1, <2>2, <3>1 DEF Following, WindowsFollowReception
  <2>3. CASE Accepting
    <3>1. PICK lost : \A w \in Windows : stored'[w] =
            IF w = v THEN (stored[w] \ lost) \cup {p} ELSE stored[w]
      <4>1. stored \in [Windows -> SUBSET Packets]
        BY DEF ContentsTyped
      <4> HIDE DEF Typed, Windows, p
      <4>2. PICK lost \in SUBSET stored[v] :
              stored' = [stored EXCEPT ![v] = (@ \ lost) \cup {p}]
        BY <2>3 DEF Accepting, p
      <4> QED
        BY <2>1, <4>1, <4>2
    <3>2. buffer'.pc = "idle" /\ buffer'.sn = buffer.sn
      BY <2>3 DEF Accepting
    <3>3. \A w \in Windows : \A d \in stored'[w] : d \in stored[w] \/ (w = v /\ d = p)
      BY <3>1
    <3>4. p[1] = buffer.addr /\ p[2] = buffer.sn
      OBVIOUS
    <3>5. \A w \in Windows : \A d \in stored[w] : d[2] \in Nat /\ d[2] < buffer.sn
      <4>1. \A w \in Windows : \A d \in stored[w] : d[2] \in Nat
        BY DEF ContentsTyped, Packets
      <4> QED
        BY <2>1, <4>1 DEF Following
    <3>6. ASSUME NEW w \in Windows, NEW d \in stored[w], d[1] = buffer.addr PROVE w <= v
      BY <2>1, <3>6 DEF Following, Owned
    <3> HIDE DEF p, Typed, BufferTyped
    <3>7. WindowsFollowReception'
      <4> SUFFICES ASSUME NEW x \in Windows, NEW y \in Windows,
                          NEW d \in stored'[x], NEW e \in stored'[y],
                          d[1] = e[1], d[2] < e[2]
                   PROVE  x <= y
        BY DEF WindowsFollowReception
      <4>1. CASE d \in stored[x] /\ e \in stored[y]
        BY <4>1 DEF Following, WindowsFollowReception
      <4>2. CASE y = v /\ e = p
        <5>1. CASE d \in stored[x]
          BY <3>4, <3>6, <4>2, <5>1
        <5>2. CASE x = v
          BY <4>2, <5>2 DEF Windows
        <5> QED
          BY <3>3, <5>1, <5>2
      <4>3. CASE x = v /\ d = p /\ e \in stored[y]
        BY <2>1, <3>4, <3>5, <4>3
      <4> QED
        BY <3>3, <4>1, <4>2, <4>3
    <3> QED
      BY <2>1, <3>2, <3>3, <3>4, <3>5, <3>7 DEF Following
  <2> QED
    BY <1>12, <2>2, <2>3 DEF BufferStore
<1>13. ASSUME NEW a \in Addr, AppEnd(a) PROVE Following'
  BY <1>13 DEF AppEnd, Following, WindowsFollowReception
<1>14. CASE AppPopInfo
  BY <1>14 DEF AppPopInfo, PoppingInfo, Following, WindowsFollowReception
<1>15. CASE AppPopData
  BY <1>15 DEF AppPopData, Sessions, Following, WindowsFollowReception
<1>16. CASE AppClose
  BY <1>16
     DEF AppClose, Closing, NothingLeft, Inside, Returning, Following,
         WindowsFollowReception
<1>17. CASE AppDrain
  BY <1>17 DEF AppDrain, MayRaise, Inside, Returning, Following, WindowsFollowReception
<1>18. CASE PrintBegin \/ PrintNext
  BY <1>18 DEF PrintBegin, PrintNext, Following, WindowsFollowReception
<1> QED
  BY <1>1, <1>2, <1>3, <1>4, <1>5, <1>6, <1>7, <1>8, <1>9, <1>10, <1>11, <1>12, <1>13,
     <1>14, <1>15, <1>16, <1>17, <1>18
     DEF Next, Controlling, Buffering, AppStep

\* The dictionaries agree where SENSOR_INFO and end() have not met.
LEMMA AgreeingPreserved == Typed /\ Agreeing /\ [Next]_vars => Agreeing'
<1> SUFFICES ASSUME Typed, Agreeing, [Next]_vars PROVE Agreeing'
  OBVIOUS
<1> USE ReceiverAssumption DEF dicts, windowVars, counts, outcomes, Typed, WindowsTyped, Windows, Creating, Popping
<1>1. CASE UNCHANGED vars
  BY <1>1 DEF vars, Agreeing
<1>2. ASSUME NEW a \in Addr, ControlInfo(a) PROVE Agreeing'
  BY <1>2 DEF ControlInfo, Agreeing
<1>3. CASE ControlCreate
  <2>1. created + 1 # None /\ control.addr \in Addr
    BY <1>3 DEF ControlCreate, ControlTyped
  <2> QED
    BY <1>3, <2>1 DEF ControlCreate, Agreeing
<1>4. ASSUME NEW a \in Addr, ControlEnd(a) PROVE Agreeing'
  BY <1>4 DEF ControlEnd, Sessions, Agreeing
<1>5. CASE ControlClose
  BY <1>5 DEF ControlClose, Closing, NothingLeft, Inside, Agreeing
<1>6. CASE ControlDrain
  <2>1. /\ UNCHANGED <<sensorInfo, dataDict, crossed, app>>
        /\ control.pc = "drain" /\ control'.pc \in {"idle", "dead"}
    BY <1>6 DEF ControlDrain, ControlTyped
  <2> QED
    BY <2>1 DEF Agreeing
<1>7. ASSUME NEW a \in Addr, Receive(a) PROVE Agreeing'
  BY <1>7 DEF Receive, Agreeing
<1>8. CASE BufferTake
  BY <1>8 DEF BufferTake, Agreeing
<1>9. CASE BufferTest
  BY <1>9 DEF BufferTest, Sessions, Agreeing
<1>10. CASE BufferIndex
  BY <1>10 DEF BufferIndex, Sessions, Agreeing
<1>11. CASE BufferUpdate
  BY <1>11 DEF BufferUpdate, Agreeing
<1>12. CASE BufferStore
  BY <1>12 DEF BufferStore, Accepting, Agreeing
<1>13. ASSUME NEW a \in Addr, AppEnd(a) PROVE Agreeing'
  BY <1>13 DEF AppEnd, Agreeing
<1>14. CASE AppPopInfo
  BY <1>14 DEF AppPopInfo, PoppingInfo, Agreeing
<1>15. CASE AppPopData
  BY <1>15 DEF AppPopData, Sessions, Agreeing
<1>16. CASE AppClose
  <2>1. /\ UNCHANGED <<sensorInfo, dataDict, crossed, control>>
        /\ app.pc = "close" /\ app'.pc \in {"idle", "drain"}
    BY <1>16 DEF AppClose, Returning, AppTyped
  <2> QED
    BY <2>1 DEF Agreeing
<1>17. CASE AppDrain
  <2>1. /\ UNCHANGED <<sensorInfo, dataDict, crossed, control>>
        /\ app.pc = "drain" /\ app'.pc = "idle"
    BY <1>17 DEF AppDrain, Returning, AppTyped
  <2> QED
    BY <2>1 DEF Agreeing
<1>18. CASE PrintBegin \/ PrintNext
  BY <1>18 DEF PrintBegin, PrintNext, Agreeing
<1> QED
  BY <1>1, <1>2, <1>3, <1>4, <1>5, <1>6, <1>7, <1>8, <1>9, <1>10, <1>11, <1>12, <1>13,
     <1>14, <1>15, <1>16, <1>17, <1>18
     DEF Next, Controlling, Buffering, AppStep

\* A window that leaves the dictionary is accounted for.
LEMMA ReachedPreserved == Typed /\ Reached /\ [Next]_vars => Reached'
<1> SUFFICES ASSUME Typed, Reached, [Next]_vars PROVE Reached'
  OBVIOUS
<1> USE ReceiverAssumption DEF Typed, ControlTyped, BufferTyped, AppTyped, WindowsTyped, ContentsTyped, Windows, dicts, windowVars, counts, outcomes, Reachable, Packets
<1>1. CASE UNCHANGED vars
  BY <1>1 DEF vars, Reached
<1>2. ASSUME NEW a \in Addr, ControlInfo(a) PROVE Reached'
  BY <1>2 DEF ControlInfo, Reached
<1>3. CASE ControlCreate
  <2>1. created \in Nat /\ created + 1 \in Windows /\ control.addr \in Addr
    BY <1>3 DEF ControlCreate
  <2>2. /\ created' = created + 1
        /\ dataDict' = [dataDict EXCEPT ![control.addr] = created + 1]
        /\ replaced' = replaced \cup ({dataDict[control.addr]} \ {None})
        /\ UNCHANGED <<app, handed, raised>>
    BY <1>3 DEF ControlCreate
  <2>3. dataDict'[control.addr] = created + 1
    BY <2>1, <2>2
  <2> SUFFICES ASSUME NEW w \in Windows, w <= created' PROVE Reachable(w)'
    BY DEF Reached
  <2>4. CASE w = created + 1
    BY <2>1, <2>3, <2>4
  <2>5. CASE w <= created
    <3>1. Reachable(w)
      BY <2>5 DEF Reached
    <3>2. ASSUME NEW a \in Addr, dataDict[a] = w PROVE Reachable(w)'
      <4>1. w # None
        OBVIOUS
      <4> QED
        BY <2>1, <2>2, <3>2, <4>1
    <3> QED
      BY <2>2, <3>1, <3>2
  <2> QED
    BY <2>1, <2>2, <2>4, <2>5
<1>4. ASSUME NEW a \in Addr, ControlEnd(a) PROVE Reached'
  BY <1>4 DEF ControlEnd, Sessions, Reached
<1>5. CASE ControlClose
  BY <1>5 DEF ControlClose, Closing, NothingLeft, Inside, Reached
<1>6. CASE ControlDrain
  BY <1>6 DEF ControlDrain, MayRaise, Inside, Reached
<1>7. ASSUME NEW a \in Addr, Receive(a) PROVE Reached'
  BY <1>7 DEF Receive, Reached
<1>8. CASE BufferTake
  BY <1>8 DEF BufferTake, Reached
<1>9. CASE BufferTest
  BY <1>9 DEF BufferTest, Sessions, Reached
<1>10. CASE BufferIndex
  BY <1>10 DEF BufferIndex, Sessions, Reached
<1>11. CASE BufferUpdate
  BY <1>11 DEF BufferUpdate, Reached
<1>12. CASE BufferStore
  BY <1>12 DEF BufferStore, Accepting, Reached
<1>13. ASSUME NEW a \in Addr, AppEnd(a) PROVE Reached'
  BY <1>13 DEF AppEnd, Reached
<1>14. CASE AppPopInfo
  BY <1>14 DEF AppPopInfo, PoppingInfo, Reached
<1>15. CASE AppPopData
  BY <1>15 DEF AppPopData, Sessions, Reached
<1>16. CASE AppClose
  <2>1. app.window \in Windows /\ stored[app.window] # None
    BY <1>16 DEF AppClose
  <2>2. UNCHANGED <<dataDict, created, raised, replaced>>
    BY <1>16 DEF AppClose
  <2>3. CASE Returning(app.window)
    <3>1. handed'[app.window] # None
      BY <2>1, <2>3 DEF Returning
    <3>2. \A w \in Windows : handed[w] # None => handed'[w] # None
      BY <2>1, <2>3 DEF Returning
    <3> QED
      BY <2>2, <3>1, <3>2 DEF Reached
  <2>4. CASE app' = [app EXCEPT !.pc = "drain"] /\ UNCHANGED handed
    BY <2>2, <2>4 DEF Reached
  <2> QED
    BY <1>16, <2>3, <2>4 DEF AppClose
<1>17. CASE AppDrain
  <2>1. app.window \in Windows /\ stored[app.window] # None
    BY <1>17 DEF AppDrain
  <2>2. UNCHANGED <<dataDict, created, replaced>> /\ raised \subseteq raised'
    BY <1>17 DEF AppDrain
  <2>3. CASE Returning(app.window)
    <3>1. handed'[app.window] # None
      BY <2>1, <2>3 DEF Returning
    <3>2. \A w \in Windows : handed[w] # None => handed'[w] # None
      BY <2>1, <2>3 DEF Returning
    <3> QED
      BY <2>2, <3>1, <3>2 DEF Reached
  <2>4. CASE raised' = raised \cup {app.window} /\ UNCHANGED handed
    BY <2>2, <2>4 DEF Reached
  <2> QED
    BY <1>17, <2>3, <2>4 DEF AppDrain
<1>18. CASE PrintBegin \/ PrintNext
  BY <1>18 DEF PrintBegin, PrintNext, Reached
<1> QED
  BY <1>1, <1>2, <1>3, <1>4, <1>5, <1>6, <1>7, <1>8, <1>9, <1>10, <1>11, <1>12, <1>13,
     <1>14, <1>15, <1>16, <1>17, <1>18
     DEF Next, Controlling, Buffering, AppStep

\* Only the end of its packet's session stops the buffering thread.
LEMMA StoppingPreserved == Typed /\ Owned /\ Stopping /\ [Next]_vars => Stopping'
<1> SUFFICES ASSUME Typed, Owned, Stopping, [Next]_vars PROVE Stopping'
  OBVIOUS
<1> USE ReceiverAssumption DEF Typed, ControlTyped, BufferTyped, AppTyped, WindowsTyped, ContentsTyped, Windows, dicts, windowVars, counts, outcomes, Owned, Ending
<1>1. CASE UNCHANGED vars
  BY <1>1 DEF vars, Stopping
<1>2. ASSUME NEW a \in Addr, ControlInfo(a) PROVE Stopping'
  BY <1>2 DEF ControlInfo, Stopping
<1>3. CASE ControlCreate
  <2>1. created \in Nat /\ created + 1 \in Windows /\ control.addr \in Addr
    BY <1>3 DEF ControlCreate
  <2>2. /\ created' = created + 1
        /\ dataDict' = [dataDict EXCEPT ![control.addr] = created + 1]
        /\ owner' = [owner EXCEPT ![created + 1] = control.addr]
        /\ UNCHANGED <<buffer, status, app>>
    BY <1>3 DEF ControlCreate
  <2>3. \A a \in Addr : Ending(a) => Ending(a)'
    <3>1. \A w \in Windows : w <= created => w <= created' /\ owner'[w] = owner[w]
      BY <2>1, <2>2
    <3> QED
      BY <2>2, <3>1
  <2>4. ASSUME buffer.pc = "dead" \/ (buffer.pc = "index" /\ dataDict'[buffer.addr] = None)
        PROVE Ending(buffer.addr)
    <3>1. created + 1 # None /\ buffer.addr \in Addr
      BY <2>1, <2>4
    <3> QED
      BY <2>1, <2>2, <2>4, <3>1 DEF Stopping
  <2>5. buffer.pc \in {"dead", "index"} => buffer.addr \in Addr
    OBVIOUS
  <2> QED
    BY <2>2, <2>3, <2>4, <2>5 DEF Stopping
<1>4. ASSUME NEW a \in Addr, ControlEnd(a) PROVE Stopping'
  BY <1>4 DEF ControlEnd, Sessions, Stopping
<1>5. CASE ControlClose
  BY <1>5 DEF ControlClose, Closing, NothingLeft, Inside, Stopping
<1>6. CASE ControlDrain
  BY <1>6 DEF ControlDrain, MayRaise, Inside, Stopping
<1>7. ASSUME NEW a \in Addr, Receive(a) PROVE Stopping'
  BY <1>7 DEF Receive, Stopping
<1>8. CASE BufferTake
  BY <1>8 DEF BufferTake, Stopping
<1>9. CASE BufferTest
  BY <1>9 DEF BufferTest, Sessions, Stopping
<1>10. CASE BufferIndex
  BY <1>10 DEF BufferIndex, Sessions, Stopping
<1>11. CASE BufferUpdate
  BY <1>11 DEF BufferUpdate, Stopping
<1>12. CASE BufferStore
  BY <1>12 DEF BufferStore, Accepting, Stopping
<1>13. ASSUME NEW a \in Addr, AppEnd(a) PROVE Stopping'
  BY <1>13 DEF AppEnd, Stopping
<1>14. CASE AppPopInfo
  BY <1>14 DEF AppPopInfo, PoppingInfo, Stopping
<1>15. CASE AppPopData
  BY <1>15 DEF AppPopData, Sessions, Stopping
<1>16. CASE AppClose
  BY <1>16 DEF AppClose, Closing, NothingLeft, Inside, Returning, Stopping
<1>17. CASE AppDrain
  BY <1>17 DEF AppDrain, MayRaise, Inside, Returning, Stopping
<1>18. CASE PrintBegin \/ PrintNext
  <2>1. UNCHANGED <<buffer, dataDict, created, owner, status, app>>
    BY <1>18 DEF PrintBegin, PrintNext
  <2> QED
    BY <2>1 DEF Stopping
<1> QED
  BY <1>1, <1>2, <1>3, <1>4, <1>5, <1>6, <1>7, <1>8, <1>9, <1>10, <1>11, <1>12, <1>13,
     <1>14, <1>15, <1>16, <1>17, <1>18
     DEF Next, Controlling, Buffering, AppStep

\* The initial state satisfies the invariant.
LEMMA ReceiverStarts == Init => ReceiverInv
<1> SUFFICES ASSUME Init PROVE ReceiverInv
  OBVIOUS
<1> USE ReceiverAssumption DEF Init, Windows
<1>1. Typed
  <2>1. ControlTyped
    BY DEF ControlTyped
  <2>2. BufferTyped
    BY DEF BufferTyped
  <2>3. AppTyped /\ PrinterTyped
    BY DEF AppTyped, PrinterTyped
  <2>4. WindowsTyped
    BY DEF WindowsTyped
  <2>5. ContentsTyped
    <3>1. status \in [Windows -> {"open", "closing", "empty"}]
      OBVIOUS
    <3>2. stored \in [Windows -> SUBSET Packets]
      OBVIOUS
    <3>3. handed \in [Windows -> (SUBSET Packets) \cup {None}]
      OBVIOUS
    <3> QED
      BY <3>1, <3>2, <3>3 DEF ContentsTyped
  <2> QED
    BY <2>1, <2>2, <2>3, <2>4, <2>5 DEF Typed
<1>2. Owned /\ Numbered /\ Latest /\ Following /\ Agreeing /\ Reached /\ Stopping
  BY DEF Owned, Numbered, Latest, Following, WindowsFollowReception, Agreeing, Creating,
         Popping, Reached, Stopping
<1> QED
  BY <1>1, <1>2 DEF ReceiverInv

\* The inductive invariant.
THEOREM Invariance == Spec => []ReceiverInv
<1>1. ReceiverInv /\ [Next]_vars => ReceiverInv'
  BY TypedPreserved, OwnedPreserved, NumberedPreserved, LatestPreserved, FollowingPreserved,
     AgreeingPreserved, ReachedPreserved, StoppingPreserved
     DEF ReceiverInv
<1> QED
  BY <1>1, ReceiverStarts, PTL DEF Spec
------------------------------------------------------------------------------
\* The variables keep their types.
THEOREM TypeCorrect == Spec => []TypeOK
<1>1. ReceiverInv => TypeOK
  <2> SUFFICES ASSUME Typed PROVE TypeOK
    BY DEF ReceiverInv
  <2> USE DEF Typed
  <2>1. control.pc \in {"idle", "create", "close", "drain", "dead"}
    BY DEF ControlTyped
  <2>2. /\ buffer.pc \in {"idle", "test", "index", "update", "store", "dead"}
        /\ buffer.pc \in {"update", "store"} => buffer.window \in Windows
        /\ queue \in Seq([addr : Addr, sn : 1..MaxPackets])
    BY DEF BufferTyped
  <2>3. app.pc \in {"idle", "popInfo", "popData", "close", "drain"} /\ raised \subseteq Windows
    BY DEF AppTyped
  <2>4. printer.pc \in {"idle", "iterate", "dead"}
    BY DEF PrinterTyped
  <2>5. /\ sensorInfo \subseteq Addr
        /\ dataDict \in [Addr -> Windows \cup {None}]
        /\ owner \in [Windows -> Addr \cup {None}] /\ replaced \subseteq Windows
        /\ crossed \subseteq Addr
    BY DEF WindowsTyped
  <2>6. created \in 0..MaxInfos
    BY ReceiverAssumption DEF WindowsTyped
  <2>7. /\ status \in [Windows -> {"open", "closing", "empty"}]
        /\ stored \in [Windows -> SUBSET Packets]
        /\ \A w \in Windows : handed[w] = None \/ handed[w] \in SUBSET Packets
    BY DEF ContentsTyped
  <2> QED
    BY <2>1, <2>2, <2>3, <2>4, <2>5, <2>6, <2>7, Zenon DEF TypeOK
<1> QED
  BY <1>1, Invariance, PTL

\* The two dictionaries know the same senders, except while one is being changed
\* and where SENSOR_INFO and end() have met between them.
THEOREM SendersAgree == Spec => []DictionariesAgree
<1>1. ReceiverInv => DictionariesAgree
  BY DEF ReceiverInv, Agreeing, Creating, Popping, DictionariesAgree, Sessions
<1> QED
  BY <1>1, Invariance, PTL

\* Every window that has accepted something can be accounted for.
THEOREM NoWindowIsLostInSilence == Spec => []AcceptedIsReachable
<1>1. ReceiverInv => AcceptedIsReachable
  BY ReceiverAssumption DEF ReceiverInv, Owned, Reached, Reachable, AcceptedIsReachable
<1> QED
  BY <1>1, Invariance, PTL

\* What is received later goes to no older window of its sender.
THEOREM NoWayBack == Spec => []WindowsFollowReception
<1>1. ReceiverInv => WindowsFollowReception
  BY DEF ReceiverInv, Following
<1> QED
  BY <1>1, Invariance, PTL

\* Only a packet of a session that is being ended stops the buffering thread.
THEOREM OnlyAnEndStopsBuffering == Spec => []StoppedOnlyByEnd
<1>1. ReceiverInv => StoppedOnlyByEnd
  BY ReceiverAssumption DEF ReceiverInv, Stopping, Ending, StoppedOnlyByEnd
<1> QED
  BY <1>1, Invariance, PTL
==============================================================================
