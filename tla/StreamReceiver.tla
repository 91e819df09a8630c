---------------------------- MODULE StreamReceiver ----------------------------
(***************************************************************************)
(* RTASP_receiver (src/cloud/RTASP.py): the server's sessions, one per     *)
(* sender address, and the five threads that share its dictionaries and    *)
(* its queue without a lock.                                               *)
(*                                                                         *)
(*   receive   takes datagrams from the socket and appends them to __queue *)
(*   buffer    takes them from the queue and gives each to the             *)
(*             Window_buffer of its session                                *)
(*   control   the receive thread of udp_with_ack, which runs the callback *)
(*             for SENSOR_INFO and END                                     *)
(*   app       calls end()                                                 *)
(*   print     reports once a second on every window                       *)
(*                                                                         *)
(* A step is one operation on a dictionary, the queue or a window.  A      *)
(* Window_buffer is what SessionWindow says of it, and WindowBuffer, which *)
(* is about the inside, implements: the packets it keeps and how far it    *)
(* has been emptied.  update() tests flag and number in one step and       *)
(* stores in another, end() clears the flag in one step and has emptied    *)
(* the deque in another, and two calls in progress at once may raise.      *)
(* ControlChannel is about the messages that run the callbacks and about   *)
(* the other calls of the application (discover, start, ...), which only   *)
(* send one.  An exception nobody catches ends its thread, or, in app, the *)
(* call.                                                                   *)
(***************************************************************************)
EXTENDS Integers, Sequences, FiniteSets

CONSTANTS
  Addr,        \* addresses of senders
  None,        \* no window
  MaxInfos,    \* bound: SENSOR_INFO messages
  MaxEnds,     \* bound: END messages from senders
  MaxCalls,    \* bound: calls by the application
  MaxPackets   \* bound: data packets

ASSUME ReceiverAssumption ==
  /\ MaxInfos \in Nat /\ MaxEnds \in Nat /\ MaxCalls \in Nat /\ MaxPackets \in Nat
  /\ None \notin Addr /\ None \notin 1..MaxInfos
  /\ \A P \in SUBSET (Addr \X (1..MaxPackets)) : P # None

Windows == 1..MaxInfos

VARIABLES
  sensorInfo,  \* the keys of sensor_info_dict
  dataDict,    \* data_dict: per address a window, or None
  created,     \* how many Window_buffer objects there are
  status,      \* per window: "open" (its active flag), "closing", "empty"
  stored,      \* per window, the packets it has accepted and not lost since
  queue,       \* __queue
  control,     \* the control thread: pc, addr, window
  buffer,      \* the buffering thread: pc, packet, window
  app,         \* the application: pc, addr, window
  printer,     \* the print thread: pc, size of data_dict when it began
  \* history
  received, infos, ends, calls,
  owner,       \* per window, the address it was created for, or None
  replaced,    \* the windows another SENSOR_INFO has put out of data_dict
  handed,      \* per window, what end() returned of it, or None
  raised,      \* the windows whose end() raised in the application
  crossed      \* the addresses whose SENSOR_INFO and end() met between the dicts

dicts == <<sensorInfo, dataDict>>
windowVars == <<created, status, stored>>
counts == <<received, infos, ends, calls>>
outcomes == <<owner, replaced, handed, raised, crossed>>
vars == <<dicts, windowVars, queue, control, buffer, app, printer, counts, outcomes>>

Init ==
  /\ sensorInfo = {}
  /\ dataDict = [a \in Addr |-> None]
  /\ created = 0
  /\ status = [w \in Windows |-> "open"]
  /\ stored = [w \in Windows |-> {}]
  /\ queue = <<>>
  /\ control = [pc |-> "idle", addr |-> None, window |-> None]
  /\ buffer = [pc |-> "idle", addr |-> None, sn |-> 0, window |-> None]
  /\ app = [pc |-> "idle", addr |-> None, window |-> None]
  /\ printer = [pc |-> "idle", size |-> 0]
  /\ received = 0 /\ infos = 0 /\ ends = 0 /\ calls = 0
  /\ owner = [w \in Windows |-> None] /\ replaced = {}
  /\ handed = [w \in Windows |-> None]
  /\ raised = {} /\ crossed = {}

Sessions == {a \in Addr : dataDict[a] # None}

(* Window_buffer.end, as its two callers share it *)

\* The buffering thread is inside update() of window w.
Inside(w) == buffer.pc = "store" /\ buffer.window = w

\* The flag is cleared.
Closing(w) == [status EXCEPT ![w] = IF @ = "open" THEN "closing" ELSE @]

\* The loop has no iteration, and nobody who could give it one is there.
NothingLeft(w) == status[w] = "empty" /\ ~Inside(w)

\* popleft() may find the deque empty although the loop test did not: another
\* thread takes from it too, or has done so.
MayRaise(w, other) ==
  Inside(w) \/ status[w] = "empty" \/ (other.pc = "drain" /\ other.window = w)
------------------------------------------------------------------------------
(* control: __control_msg_analysis *)

\* SENSOR_INFO, which may be a repeated one: first the one dictionary, then, with
\* a new window, the other.
ControlInfo(a) ==
  /\ control.pc = "idle"
  /\ infos < MaxInfos
  /\ infos' = infos + 1
  /\ sensorInfo' = sensorInfo \cup {a}
  /\ control' = [control EXCEPT !.pc = "create", !.addr = a]
  /\ crossed' = IF app.pc = "popData" /\ app.addr = a THEN crossed \cup {a} ELSE crossed
  /\ UNCHANGED <<dataDict, windowVars, queue, buffer, app, printer, received, ends,
                 calls, owner, replaced, handed, raised>>

ControlCreate ==
  /\ control.pc = "create"
  /\ created' = created + 1
  /\ dataDict' = [dataDict EXCEPT ![control.addr] = created']
  /\ owner' = [owner EXCEPT ![created'] = control.addr]
  /\ replaced' = replaced \cup ({dataDict[control.addr]} \ {None})
  /\ control' = [control EXCEPT !.pc = "idle"]
  /\ UNCHANGED <<sensorInfo, status, stored, queue, buffer, app, printer, counts, handed,
                 raised, crossed>>

\* END: a KeyError for a sender without a session.
ControlEnd(a) ==
  /\ control.pc = "idle"
  /\ ends < MaxEnds
  /\ ends' = ends + 1
  /\ control' = IF a \in Sessions
                  THEN [pc |-> "close", addr |-> a, window |-> dataDict[a]]
                  ELSE [control EXCEPT !.pc = "dead"]
  /\ UNCHANGED <<dicts, windowVars, queue, buffer, app, printer, received, infos,
                 calls, outcomes>>

ControlClose ==
  /\ control.pc = "close"
  /\ status' = Closing(control.window)
  /\ control' = [control EXCEPT !.pc = IF NothingLeft(control.window) THEN "idle" ELSE "drain"]
  /\ UNCHANGED <<dicts, created, stored, queue, buffer, app, printer, counts, outcomes>>

ControlDrain ==
  /\ control.pc = "drain"
  /\ \/ /\ status' = [status EXCEPT ![control.window] = "empty"]
        /\ control' = [control EXCEPT !.pc = "idle"]
     \/ /\ MayRaise(control.window, app)
        /\ control' = [control EXCEPT !.pc = "dead"]
        /\ UNCHANGED status
  /\ UNCHANGED <<dicts, created, stored, queue, buffer, app, printer, counts, outcomes>>

Controlling == ControlCreate \/ ControlClose \/ ControlDrain
------------------------------------------------------------------------------
(* receive and buffer: __receive, __buffer_window *)

Receive(a) ==
  /\ received < MaxPackets
  /\ received' = received + 1
  /\ queue' = Append(queue, [addr |-> a, sn |-> received'])
  /\ UNCHANGED <<dicts, windowVars, control, buffer, app, printer, infos, ends, calls, outcomes>>

\* Mutant: pop() for popleft().
BufferTakeLast ==
  /\ buffer.pc = "idle"
  /\ queue # <<>>
  /\ queue' = SubSeq(queue, 1, Len(queue) - 1)
  /\ buffer' = [buffer EXCEPT !.pc = "test", !.addr = queue[Len(queue)].addr,
                              !.sn = queue[Len(queue)].sn]
  /\ UNCHANGED <<dicts, windowVars, control, app, printer, counts, outcomes>>

BufferTake ==
  /\ buffer.pc = "idle"
  /\ queue # <<>>
  /\ queue' = Tail(queue)
  /\ buffer' = [buffer EXCEPT !.pc = "test", !.addr = Head(queue).addr,
                              !.sn = Head(queue).sn]
  /\ UNCHANGED <<dicts, windowVars, control, app, printer, counts, outcomes>>

\* Mutant: no test for a session.
BufferTestSkipped ==
  /\ buffer.pc = "test"
  /\ buffer' = [buffer EXCEPT !.pc = "index"]
  /\ UNCHANGED <<dicts, windowVars, queue, control, app, printer, counts, outcomes>>

BufferTest ==
  /\ buffer.pc = "test"
  /\ buffer' = [buffer EXCEPT !.pc = IF buffer.addr \in Sessions THEN "index" ELSE "idle"]
  /\ UNCHANGED <<dicts, windowVars, queue, control, app, printer, counts, outcomes>>

\* Mutant: get() for the index.
BufferIndexGet ==
  /\ buffer.pc = "index"
  /\ buffer' = [buffer EXCEPT !.pc = "update", !.window = dataDict[buffer.addr]]
  /\ UNCHANGED <<dicts, windowVars, queue, control, app, printer, counts, outcomes>>

BufferIndex ==
  /\ buffer.pc = "index"
  /\ buffer' = IF buffer.addr \in Sessions
                 THEN [buffer EXCEPT !.pc = "update", !.window = dataDict[buffer.addr]]
                 ELSE [buffer EXCEPT !.pc = "dead"]
  /\ UNCHANGED <<dicts, windowVars, queue, control, app, printer, counts, outcomes>>

\* Window_buffer.update: the tests of the flag and of the number, which may be
\* too old for a window that has stored one before.
BufferUpdate ==
  /\ buffer.pc = "update"
  /\ \/ /\ status[buffer.window] = "open"
        /\ buffer' = [buffer EXCEPT !.pc = "store"]
     \/ /\ status[buffer.window] # "open" \/ stored[buffer.window] # {}
        /\ buffer' = [buffer EXCEPT !.pc = "idle"]
  /\ UNCHANGED <<dicts, windowVars, queue, control, app, printer, counts, outcomes>>

\* The slot may hold a packet, which is then lost: one of the same number, or,
\* when end() has begun since the test, any.
Accepting ==
  /\ \E lost \in SUBSET stored[buffer.window] :
       /\ Cardinality(lost) <= 1
       /\ stored' = [stored EXCEPT ![buffer.window] =
                       (@ \ lost) \cup {<<buffer.addr, buffer.sn>>}]
  /\ buffer' = [buffer EXCEPT !.pc = "idle"]

\* The store.  When end() has begun since the test there may be no slot left,
\* and when it has emptied the deque there is none: an IndexError.
BufferStore ==
  /\ buffer.pc = "store"
  /\ \/ status[buffer.window] # "empty" /\ Accepting
     \/ /\ status[buffer.window] # "open"
        /\ buffer' = [buffer EXCEPT !.pc = "dead"]
        /\ UNCHANGED stored
  /\ UNCHANGED <<dicts, created, status, queue, control, app, printer, counts, outcomes>>

Buffering == BufferTake \/ BufferTest \/ BufferIndex \/ BufferUpdate \/ BufferStore
------------------------------------------------------------------------------
(* app: end *)

\* end() sends END to the sender, then pops both dictionaries.
AppEnd(a) ==
  /\ app.pc = "idle"
  /\ calls < MaxCalls
  /\ calls' = calls + 1
  /\ app' = [app EXCEPT !.pc = "popInfo", !.addr = a]
  /\ UNCHANGED <<dicts, windowVars, queue, control, buffer, printer, received, infos,
                 ends, outcomes>>

PoppingInfo(keys) ==
  /\ app.pc = "popInfo"
  /\ app' = [app EXCEPT !.pc = IF app.addr \in sensorInfo THEN "popData" ELSE "idle"]
  /\ sensorInfo' = keys
  /\ crossed' = IF control.pc = "create" /\ control.addr = app.addr
                  THEN crossed \cup {app.addr} ELSE crossed
  /\ UNCHANGED <<dataDict, windowVars, queue, control, buffer, printer, counts, owner,
                 replaced, handed, raised>>

\* Mutant: the sensors are looked up and not popped.
AppLooksUpInfo == PoppingInfo(sensorInfo)

\* A KeyError for an address without sensors.
AppPopInfo == PoppingInfo(sensorInfo \ {app.addr})

\* Mutant: the window is popped and not ended.
AppPopDataOnly ==
  /\ app.pc = "popData"
  /\ app' = [app EXCEPT !.pc = "idle"]
  /\ dataDict' = [dataDict EXCEPT ![app.addr] = None]
  /\ UNCHANGED <<sensorInfo, windowVars, queue, control, buffer, printer, counts, outcomes>>

AppPopData ==
  /\ app.pc = "popData"
  /\ app' = IF app.addr \in Sessions
              THEN [app EXCEPT !.pc = "close", !.window = dataDict[app.addr]]
              ELSE [app EXCEPT !.pc = "idle"]
  /\ dataDict' = [dataDict EXCEPT ![app.addr] = None]
  /\ UNCHANGED <<sensorInfo, windowVars, queue, control, buffer, printer, counts, outcomes>>

Returning(w) ==
  /\ handed' = [handed EXCEPT ![w] = stored[w]]
  /\ app' = [app EXCEPT !.pc = "idle"]

AppClose ==
  /\ app.pc = "close"
  /\ status' = Closing(app.window)
  /\ IF NothingLeft(app.window)
       THEN Returning(app.window)
       ELSE app' = [app EXCEPT !.pc = "drain"] /\ UNCHANGED handed
  /\ UNCHANGED <<dicts, created, stored, queue, control, buffer, printer, counts, owner,
                 replaced, raised, crossed>>

\* end() returns what the window had, or raises, and then nobody has it.
AppDrain ==
  /\ app.pc = "drain"
  /\ \/ /\ Returning(app.window)
        /\ status' = [status EXCEPT ![app.window] = "empty"]
        /\ UNCHANGED raised
     \/ /\ MayRaise(app.window, control)
        /\ raised' = raised \cup {app.window}
        /\ app' = [app EXCEPT !.pc = "idle"]
        /\ UNCHANGED <<status, handed>>
  /\ UNCHANGED <<dicts, created, stored, queue, control, buffer, printer, counts, owner,
                 replaced, crossed>>

AppStep == AppPopInfo \/ AppPopData \/ AppClose \/ AppDrain
------------------------------------------------------------------------------
(* print: __print *)

PrintBegin ==
  /\ printer.pc = "idle"
  /\ Sessions # {}
  /\ printer' = [pc |-> "iterate", size |-> Cardinality(Sessions)]
  /\ UNCHANGED <<dicts, windowVars, queue, control, buffer, app, counts, outcomes>>

\* A dictionary that has changed size during the iteration: RuntimeError.
PrintNext ==
  /\ printer.pc = "iterate"
  /\ \/ /\ Cardinality(Sessions) = printer.size
        /\ printer' = [printer EXCEPT !.pc = "idle"]
     \/ /\ Cardinality(Sessions) # printer.size
        /\ printer' = [printer EXCEPT !.pc = "dead"]
  /\ UNCHANGED <<dicts, windowVars, queue, control, buffer, app, counts, outcomes>>
------------------------------------------------------------------------------
Next ==
  \/ \E a \in Addr : ControlInfo(a) \/ ControlEnd(a) \/ Receive(a) \/ AppEnd(a)
  \/ Controlling
  \/ Buffering
  \/ AppStep
  \/ PrintBegin \/ PrintNext

Spec == Init /\ [][Next]_vars
------------------------------------------------------------------------------
(* Properties *)

Packets == Addr \X (1..MaxPackets)

\* The type invariant.
TypeOK ==
  /\ sensorInfo \subseteq Addr
  /\ dataDict \in [Addr -> Windows \cup {None}]
  /\ created \in 0..MaxInfos
  /\ status \in [Windows -> {"open", "closing", "empty"}]
  /\ stored \in [Windows -> SUBSET Packets]
  /\ queue \in Seq([addr : Addr, sn : 1..MaxPackets])
  /\ control.pc \in {"idle", "create", "close", "drain", "dead"}
  /\ buffer.pc \in {"idle", "test", "index", "update", "store", "dead"}
  /\ buffer.pc \in {"update", "store"} => buffer.window \in Windows
  /\ app.pc \in {"idle", "popInfo", "popData", "close", "drain"}
  /\ printer.pc \in {"idle", "iterate", "dead"}
  /\ \A w \in Windows : handed[w] = None \/ handed[w] \in SUBSET Packets
  /\ raised \subseteq Windows /\ crossed \subseteq Addr
  /\ owner \in [Windows -> Addr \cup {None}] /\ replaced \subseteq Windows

\* No window with packets is lost in silence: it is that of the session, or end()
\* is about to return it, or has returned it, or has raised, or a repeated
\* SENSOR_INFO has put a new window in its place.
AcceptedIsReachable ==
  \A w \in Windows : stored[w] # {} =>
    \/ \E a \in Addr : dataDict[a] = w
    \/ app.pc \in {"close", "drain"} /\ app.window = w
    \/ handed[w] # None \/ w \in raised \/ w \in replaced

\* A sender's packets go to its windows in the order of their reception: once one
\* is in the window of a session begun anew, none received later ends up in the
\* window of an earlier session, although the buffering thread looks a window up
\* in one step and stores in another.  (A packet received before the new session
\* began may well enter its window: it is looked up by address alone.)
WindowsFollowReception ==
  \A v, w \in Windows : \A d \in stored[v], e \in stored[w] :
    d[1] = e[1] /\ d[2] < e[2] => v <= w

\* The two dictionaries know the same senders, except between the two statements
\* by which a SENSOR_INFO or an end() changes both, and unless the two have met
\* there: no sender can be started whose packets are thrown away, and no session
\* goes on that end() cannot find.
DictionariesAgree ==
  \A a \in Addr \ crossed :
    \/ control.pc = "create" /\ control.addr = a
    \/ app.pc = "popData" /\ app.addr = a
    \/ a \in sensorInfo <=> a \in Sessions

\* The one buffering thread serves everybody, known or unknown: only a packet of
\* a session that is being ended, or has been, can stop it.
StoppedOnlyByEnd ==
  buffer.pc = "dead" =>
    \E w \in Windows :
      /\ owner[w] = buffer.addr
      /\ status[w] # "open" \/ (app.pc = "close" /\ app.window = w)
==============================================================================
