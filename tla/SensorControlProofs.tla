------------------------- MODULE SensorControlProofs --------------------------
(***************************************************************************)
(* Theorems about SensorControl: for every set of sensors, every number of *)
(* pipe threads, messages and calls.                                       *)
(***************************************************************************)
EXTENDS SensorControl, TLAPS

WorkerPcs == {"idle", "register", "loop", "look", "info", "dump", "flag", "start", "bind",
              "popen", "thread", "clear", "stop", "kill", "dead"}
PipePcs == {"begin", "test", "get", "recv", "send", "ended", "dead"}
WorkerStates == [pc : WorkerPcs, op : DOMAIN Entry \cup {"none"}, s : Sensors \cup {"all"},
                 i : Nat, n : Nat]
PipeStates == [s : Sensors \cup {"all"}, pc : PipePcs, sock : Nat]

\* A state of a worker that has its sensor and its place in the loop.
InPlace(v) ==
  /\ v.pc \notin {"idle", "loop", "dump", "dead"} => v.s \in Sensors
  /\ v.pc = "loop" => v.n > 0
  /\ v.n > 0 => v.i > 0 /\ v.op \in DOMAIN Entry

\* A worker works on one sensor at a time, and has its place in the loop.
WorkerTyped ==
  /\ worker \in [Workers -> WorkerStates]
  /\ \A w \in Workers : InPlace(worker[w])

ListTyped == sensorList \in Seq(Sensors) /\ active \in [Sensors -> BOOLEAN]

\* Sockets and processes are numbered in the order they are made.
AudioTyped ==
  /\ sock \in Nat /\ player \in Nat
  /\ bound \subseteq 1..sock /\ shut \subseteq 1..sock
  /\ playing \subseteq 1..player
  /\ \A w \in Workers : worker[w].pc = "bind" => sock > 0

PipeTyped ==
  /\ pipe \in [Pipes -> PipeStates]
  /\ \A p \in Pipes : pipe[p].sock <= sock
  /\ \A p \in Pipes : pipe[p].pc # "ended" => pipe[p].s \in Sensors
  /\ late \in [Pipes -> 0..2] /\ told \subseteq Pipes /\ failed \subseteq Sensors

Typed == WorkerTyped /\ ListTyped /\ AudioTyped /\ PipeTyped

\* A thread that has sent its late packet is at the test that will end it.
LateStops ==
  \A p \in Pipes :
    /\ late[p] <= 1
    /\ late[p] = 1 => pipe[p].pc = "test" /\ ~active[pipe[p].s]

Begins == {"start", "thread", "register"}

\* What keeps an active sensor piped: a living thread, or the last has died.
Served(s) == (\E p \in Pipes : Live(p, s)) \/ s \in failed

SensorInv == Typed /\ LateStops /\ ActiveMeansPiping
------------------------------------------------------------------------------
(* What the small steps of a worker and of a pipe thread do *)

\* A worker is given a state of the right kind.
LEMMA WorkerSet ==
  ASSUME WorkerTyped, NEW w \in Workers, NEW v \in WorkerStates, InPlace(v),
         worker' = [worker EXCEPT ![w] = v]
  PROVE  WorkerTyped' /\ worker'[w] = v /\ \A u \in Workers \ {w} : worker'[u] = worker[u]
<1>1. worker \in [Workers -> WorkerStates] /\ \A u \in Workers : InPlace(worker[u])
  BY DEF WorkerTyped
<1>2. worker' \in [Workers -> WorkerStates]
  BY <1>1
<1>3. worker'[w] = v /\ \A u \in Workers \ {w} : worker'[u] = worker[u]
  BY <1>1
<1>4. \A u \in Workers : InPlace(worker'[u])
  BY <1>1, <1>3
<1> QED
  BY <1>2, <1>3, <1>4 DEF WorkerTyped

\* Idling is one.
LEMMA IdlingTyped == Idling \in WorkerStates /\ InPlace(Idling)
  BY DEF Idling, WorkerStates, WorkerPcs, InPlace

\* A worker that goes on keeps its sensor and its place.
LEMMA GotoTyped ==
  ASSUME WorkerTyped, NEW w \in Workers, NEW pc \in WorkerPcs, Goto(w, pc), pc # "loop",
         pc \in {"idle", "dump", "dead"} \/ worker[w].s \in Sensors
  PROVE  /\ WorkerTyped'
         /\ worker'[w].pc = pc /\ worker'[w].s = worker[w].s
         /\ \A u \in Workers \ {w} : worker'[u] = worker[u]
<1> DEFINE v == [worker[w] EXCEPT !.pc = pc]
<1>1. worker[w] \in WorkerStates /\ InPlace(worker[w])
  BY DEF WorkerTyped
<1>2. v \in WorkerStates /\ v.pc = pc /\ v.s = worker[w].s
  BY <1>1 DEF WorkerStates
<1>3. InPlace(v)
  BY <1>1 DEF InPlace, WorkerStates
<1>4. worker' = [worker EXCEPT ![w] = v]
  BY DEF Goto
<1> HIDE DEF v
<1> QED
  BY <1>2, <1>3, <1>4, WorkerSet

\* A worker returns to its loop, or is idle.
LEMMA ReturnTyped ==
  ASSUME WorkerTyped, NEW w \in Workers, Return(w)
  PROVE  /\ WorkerTyped'
         /\ worker'[w].pc \in {"loop", "idle"}
         /\ \A u \in Workers \ {w} : worker'[u] = worker[u]
<1> DEFINE v == IF worker[w].n > 0 THEN [worker[w] EXCEPT !.pc = "loop"] ELSE Idling
<1>1. worker[w] \in WorkerStates /\ InPlace(worker[w])
  BY DEF WorkerTyped
<1>2. v \in WorkerStates /\ v.pc \in {"loop", "idle"}
  BY <1>1 DEF WorkerStates, WorkerPcs, Idling
<1>3. InPlace(v)
  BY <1>1 DEF InPlace, WorkerStates, Idling
<1>4. worker' = [worker EXCEPT ![w] = v]
  BY DEF Return
<1> HIDE DEF v
<1> QED
  BY <1>2, <1>3, <1>4, WorkerSet

\* A pipe thread goes on with its sensor and its socket.
LEMMA PipeTypedMoves ==
  ASSUME PipeTyped, NEW p \in Pipes, NEW from \in PipePcs, NEW to \in PipePcs,
         PipeMoves(p, from, to), from # "ended",
         late' \in [Pipes -> 0..2], told' \subseteq Pipes, failed' \subseteq Sensors
  PROVE  /\ PipeTyped' /\ pipe'[p].s = pipe[p].s /\ pipe'[p].pc = to
         /\ \A q \in Pipes \ {p} : pipe'[q] = pipe[q]
<1> DEFINE v == [pipe[p] EXCEPT !.pc = to]
<1>1. pipe \in [Pipes -> PipeStates] /\ pipe[p] \in PipeStates /\ pipe[p].pc # "ended"
  BY DEF PipeTyped, PipeMoves
<1>2. v \in PipeStates /\ v.pc = to /\ v.s = pipe[p].s /\ v.sock = pipe[p].sock
  BY <1>1 DEF PipeStates
<1>3. pipe' = [pipe EXCEPT ![p] = v] /\ UNCHANGED sock
  BY DEF PipeMoves, audioVars
<1> HIDE DEF v
<1>4. pipe' \in [Pipes -> PipeStates] /\ pipe'[p] = v /\ \A q \in Pipes \ {p} : pipe'[q] = pipe[q]
  BY <1>1, <1>2, <1>3
<1>5. \A q \in Pipes : pipe'[q].sock <= sock'
  BY <1>2, <1>3, <1>4 DEF PipeTyped
<1>6. \A q \in Pipes : pipe'[q].pc # "ended" => pipe'[q].s \in Sensors
  BY <1>1, <1>2, <1>4 DEF PipeTyped
<1> QED
  BY <1>2, <1>4, <1>5, <1>6 DEF PipeTyped

\* A pipe thread that ends leaves its place.
LEMMA PipeTypedEnds ==
  ASSUME PipeTyped, NEW p \in Pipes, pipe' = [pipe EXCEPT ![p] = NoPipe],
         late' = [late EXCEPT ![p] = 0], told' = told \ {p}, UNCHANGED <<failed, sock>>, sock \in Nat
  PROVE  PipeTyped' /\ pipe'[p] = NoPipe /\ \A q \in Pipes \ {p} : pipe'[q] = pipe[q]
<1>1. NoPipe \in PipeStates /\ NoPipe.pc = "ended" /\ NoPipe.sock = 0
  BY DEF NoPipe, PipeStates, PipePcs
<1>2. pipe \in [Pipes -> PipeStates]
  BY DEF PipeTyped
<1>3. pipe' \in [Pipes -> PipeStates] /\ pipe'[p] = NoPipe /\ \A q \in Pipes \ {p} : pipe'[q] = pipe[q]
  BY <1>1, <1>2
<1>4. \A q \in Pipes : pipe'[q].sock <= sock'
  BY <1>1, <1>3 DEF PipeTyped
<1>5. \A q \in Pipes : pipe'[q].pc # "ended" => pipe'[q].s \in Sensors
  BY <1>1, <1>3 DEF PipeTyped
<1> QED
  BY <1>3, <1>4, <1>5 DEF PipeTyped

\* A pipe thread that stays alive serves its sensor as before.
LEMMA LiveKeepsPiping ==
  ASSUME ActiveMeansPiping, NEW p \in Pipes,
         pipe'[p].s = pipe[p].s, pipe'[p].pc \notin {"ended", "dead"},
         \A q \in Pipes \ {p} : pipe'[q] = pipe[q],
         UNCHANGED <<sensorList, active, worker, failed>>
  PROVE  ActiveMeansPiping'
<1>1. \A r \in Sensors : Served(r) => Served(r)'
  BY DEF Served, Live
<1> QED
  BY <1>1 DEF ActiveMeansPiping, Served, Registered, Starting

\* A worker that is not about to begin a thread leaves sensors piped.
LEMMA OthersKeepPiping ==
  ASSUME ActiveMeansPiping, NEW w \in Workers, worker[w].pc \notin Begins,
         \A u \in Workers \ {w} : worker'[u] = worker[u],
         UNCHANGED <<sensorList, active, pipe, failed>>
  PROVE  ActiveMeansPiping'
<1>1. \A s \in Sensors : Starting(s) => Starting(s)'
  BY DEF Starting, Begins
<1> QED
  BY <1>1 DEF ActiveMeansPiping, Registered, Live
------------------------------------------------------------------------------
\* Every step keeps the types.
LEMMA TypedPreserved == Typed /\ [Next]_vars => Typed'
<1> SUFFICES ASSUME Typed, [Next]_vars PROVE Typed'
  OBVIOUS
<1> USE SensorAssumption DEF Typed, audioVars, pipeVars
<1>1. CASE UNCHANGED vars
  <2>1. WorkerTyped'
    BY <1>1 DEF vars, WorkerTyped
  <2>2. ListTyped'
    BY <1>1 DEF vars, ListTyped
  <2>3. AudioTyped'
    BY <1>1 DEF vars, AudioTyped
  <2>4. PipeTyped'
    BY <1>1 DEF vars, PipeTyped
  <2> QED
    BY <2>1, <2>2, <2>3, <2>4
<1>2. ASSUME NEW s \in Sensors, Register(s) PROVE Typed'
  <2>1. WorkerTyped'
    <3> DEFINE v == [Idling EXCEPT !.pc = "register", !.s = s]
    <3>1. Idling.n = 0
      BY DEF Idling
    <3>2. v \in WorkerStates /\ v.pc = "register" /\ v.s = s /\ v.n = Idling.n
      BY IdlingTyped DEF WorkerStates, WorkerPcs
    <3>3. InPlace(v)
      BY <3>1, <3>2 DEF InPlace
    <3>4. worker' = [worker EXCEPT !["app"] = v] /\ "app" \in Workers
      BY <1>2 DEF Register, Workers
    <3> HIDE DEF v
    <3> QED
      BY <3>2, <3>3, <3>4, WorkerSet
  <2>2. ListTyped'
    BY <1>2 DEF Register, At, ListTyped
  <2>3. AudioTyped'
    BY <1>2 DEF Register, At, AudioTyped
  <2>4. PipeTyped'
    BY <1>2 DEF Register, At, PipeTyped
  <2> QED
    BY <2>1, <2>2, <2>3, <2>4
<1>3. ASSUME RegisterInactive PROVE Typed'
  <2>1. WorkerTyped'
    BY <1>3, ReturnTyped DEF RegisterInactive, Workers
  <2>2. ListTyped'
    BY <1>3 DEF RegisterInactive, At, Return, ListTyped
  <2>3. AudioTyped'
    <3>1. UNCHANGED <<sock, bound, shut, player, playing>>
      BY <1>3 DEF RegisterInactive
    <3>2. \A u \in Workers : worker'[u].pc = "bind" => worker[u].pc = "bind"
      BY <1>3, ReturnTyped DEF RegisterInactive, Workers
    <3> QED
      BY <3>1, <3>2 DEF AudioTyped
  <2>4. PipeTyped'
    BY <1>3 DEF RegisterInactive, At, Return, PipeTyped
  <2> QED
    BY <2>1, <2>2, <2>3, <2>4
<1>4. ASSUME NEW w \in Workers, NEW op \in DOMAIN Entry, NEW s \in Sensors \cup {"all"}, Ask(w, op, s)
      PROVE Typed'
  <2>1. WorkerTyped'
    <3> DEFINE v == IF s = "all"
           THEN [pc |-> "loop", op |-> op, s |-> s, i |-> 1, n |-> Len(sensorList)]
           ELSE [Idling EXCEPT !.pc = Entry[op], !.op = op, !.s = s]
    <3>1. Entry[op] \in WorkerPcs /\ Entry[op] # "loop"
      BY DEF Entry, WorkerPcs
    <3>2. s = "all" => Len(sensorList) \in Nat /\ Len(sensorList) > 0
      <4>1. sensorList \in Seq(Sensors)
        BY DEF ListTyped
      <4>2. s = "all" => sensorList # <<>>
        BY <1>4 DEF Ask
      <4> QED
        BY <4>1, <4>2
    <3>3. v \in WorkerStates
      BY <3>1, <3>2 DEF WorkerStates, WorkerPcs, Idling
    <3>4. InPlace(v)
      BY <3>1, <3>2 DEF InPlace, Idling
    <3>5. worker' = [worker EXCEPT ![w] = v]
      BY <1>4 DEF Ask
    <3> HIDE DEF v
    <3> QED
      BY <3>3, <3>4, <3>5, WorkerSet
  <2>2. ListTyped'
    BY <1>4 DEF Ask, At, ListTyped
  <2>3. AudioTyped'
    <3>1. UNCHANGED <<sock, bound, shut, player, playing>>
      BY <1>4 DEF Ask
    <3>2. \A u \in Workers : worker'[u].pc = "bind" => worker[u].pc = "bind"
      <4> DEFINE v == IF s = "all"
             THEN [pc |-> "loop", op |-> op, s |-> s, i |-> 1, n |-> Len(sensorList)]
             ELSE [Idling EXCEPT !.pc = Entry[op], !.op = op, !.s = s]
      <4>1. v.pc # "bind"
        BY DEF Idling, Entry
      <4>2. worker' = [worker EXCEPT ![w] = v] /\ worker \in [Workers -> WorkerStates]
        BY <1>4 DEF Ask, WorkerTyped
      <4> HIDE DEF v
      <4> QED
        BY <4>1, <4>2
    <3> QED
      BY <3>1, <3>2 DEF AudioTyped
  <2>4. PipeTyped'
    BY <1>4 DEF Ask, At, PipeTyped
  <2> QED
    BY <2>1, <2>2, <2>3, <2>4
<1>5. ASSUME NEW w \in Workers, AskNext(w) PROVE Typed'
  <2>1. WorkerTyped'
    <3> DEFINE x == worker[w]
    <3>1. x \in WorkerStates /\ InPlace(x) /\ x.pc = "loop" /\ sensorList \in Seq(Sensors)
      BY <1>5 DEF AskNext, At, WorkerTyped, ListTyped
    <3>2. x.n > 0 /\ x.i > 0 /\ x.i \in Nat /\ x.n \in Nat /\ x.op \in DOMAIN Entry
      BY <3>1 DEF InPlace, WorkerStates
    <3> DEFINE v ==
           IF Len(sensorList) # x.n THEN [x EXCEPT !.pc = "dead"]
           ELSE IF x.i > x.n THEN (IF x.op = "DISCOVER" THEN [x EXCEPT !.pc = "dump"] ELSE Idling)
           ELSE [x EXCEPT !.pc = Entry[x.op], !.s = sensorList[x.i], !.i = @ + 1]
    <3>3. Entry[x.op] \in WorkerPcs /\ Entry[x.op] # "loop"
      BY <3>2 DEF Entry, WorkerPcs
    <3>4. Len(sensorList) = x.n /\ ~(x.i > x.n) => sensorList[x.i] \in Sensors
      BY <3>1, <3>2
    <3>5. v \in WorkerStates
      <4>1. CASE Len(sensorList) # x.n
        BY <3>1, <4>1 DEF WorkerStates, WorkerPcs
      <4>2. CASE Len(sensorList) = x.n /\ x.i > x.n
        BY <3>1, <4>2, IdlingTyped DEF WorkerStates, WorkerPcs
      <4>3. CASE Len(sensorList) = x.n /\ ~(x.i > x.n)
        <5>1. v = [x EXCEPT !.pc = Entry[x.op], !.s = sensorList[x.i], !.i = @ + 1]
          BY <4>3
        <5>2. x.i + 1 \in Nat /\ sensorList[x.i] \in Sensors
          BY <3>2, <3>4, <4>3
        <5> HIDE DEF v
        <5> QED
          BY <3>1, <3>3, <5>1, <5>2 DEF WorkerStates
      <4> QED
        BY <4>1, <4>2, <4>3
    <3>6. InPlace(v)
      BY <3>1, <3>2, <3>3, <3>4 DEF InPlace, Idling, WorkerStates
    <3>7. worker' = [worker EXCEPT ![w] = v]
      BY <1>5 DEF AskNext
    <3> HIDE DEF v
    <3> QED
      BY <3>5, <3>6, <3>7, WorkerSet
  <2>2. ListTyped'
    BY <1>5 DEF AskNext, At, ListTyped
  <2>3. AudioTyped'
    <3>1. UNCHANGED <<sock, bound, shut, player, playing>>
      BY <1>5 DEF AskNext
    <3>2. \A u \in Workers : worker'[u].pc = "bind" => worker[u].pc = "bind"
      <4> DEFINE x == worker[w]
      <4> DEFINE v ==
           IF Len(sensorList) # x.n THEN [x EXCEPT !.pc = "dead"]
           ELSE IF x.i > x.n THEN (IF x.op = "DISCOVER" THEN [x EXCEPT !.pc = "dump"] ELSE Idling)
           ELSE [x EXCEPT !.pc = Entry[x.op], !.s = sensorList[x.i], !.i = @ + 1]
      <4>1. x \in WorkerStates /\ x.op \in DOMAIN Entry
        BY <1>5 DEF AskNext, At, WorkerTyped, InPlace
      <4>2. v.pc # "bind"
        BY <4>1 DEF Idling, Entry, WorkerStates
      <4>3. worker' = [worker EXCEPT ![w] = v] /\ worker \in [Workers -> WorkerStates]
        BY <1>5 DEF AskNext, WorkerTyped
      <4> HIDE DEF v
      <4> QED
        BY <4>2, <4>3
    <3> QED
      BY <3>1, <3>2 DEF AudioTyped
  <2>4. PipeTyped'
    BY <1>5 DEF AskNext, At, PipeTyped
  <2> QED
    BY <2>1, <2>2, <2>3, <2>4
<1>6. ASSUME NEW w \in Workers, Look(w) PROVE Typed'
  <2>1. WorkerTyped'
    <3>1. worker[w].s \in Sensors
      BY <1>6 DEF Look, At, Raise, WorkerTyped, InPlace
    <3>2. Return(w) \/ \E pc \in WorkerPcs \ {"loop"} : Goto(w, pc)
      BY <1>6 DEF Look, At, Raise, WorkerPcs
    <3> QED
      BY <3>1, <3>2, GotoTyped, ReturnTyped
  <2>2. ListTyped'
    BY <1>6 DEF Look, At, Return, Raise, Goto, ListTyped
  <2>3. AudioTyped'
    <3>1. UNCHANGED <<sock, bound, shut, player, playing>>
      BY <1>6 DEF Look
    <3>2. \A u \in Workers : worker'[u].pc = "bind" => worker[u].pc = "bind"
      <4>1. worker[w].s \in Sensors
        BY <1>6 DEF Look, At, WorkerTyped, InPlace
      <4> QED
        BY <1>6, <4>1, ReturnTyped, GotoTyped DEF Look, Raise, WorkerPcs
    <3> QED
      BY <3>1, <3>2 DEF AudioTyped
  <2>4. PipeTyped'
    BY <1>6 DEF Look, At, Return, Raise, Goto, PipeTyped
  <2> QED
    BY <2>1, <2>2, <2>3, <2>4
<1>7. ASSUME NEW w \in Workers, Dump(w) PROVE Typed'
  <2>1. WorkerTyped'
    <3>1. CASE Raise(w)
      BY <3>1, GotoTyped DEF Raise, WorkerPcs
    <3>2. CASE worker' = [worker EXCEPT ![w] = Idling]
      BY <3>2, WorkerSet, IdlingTyped
    <3> QED
      BY <1>7, <3>1, <3>2 DEF Dump
  <2>2. ListTyped'
    BY <1>7 DEF Dump, At, Raise, Goto, ListTyped
  <2>3. AudioTyped'
    <3>1. UNCHANGED <<sock, bound, shut, player, playing>>
      BY <1>7 DEF Dump
    <3>2. \A u \in Workers : worker'[u].pc = "bind" => worker[u].pc = "bind"
      <4>1. CASE Raise(w)
        BY <4>1, GotoTyped DEF Raise, WorkerPcs
      <4>2. CASE worker' = [worker EXCEPT ![w] = Idling]
        BY <4>2 DEF Idling, WorkerTyped
      <4> QED
        BY <1>7, <4>1, <4>2 DEF Dump
    <3> QED
      BY <3>1, <3>2 DEF AudioTyped
  <2>4. PipeTyped'
    BY <1>7 DEF Dump, At, Raise, Goto, PipeTyped
  <2> QED
    BY <2>1, <2>2, <2>3, <2>4
<1>8. ASSUME NEW w \in Workers, StartFlag(w) PROVE Typed'
  <2>1. WorkerTyped'
    <3>1. worker[w].s \in Sensors
      BY <1>8 DEF StartFlag, At, WorkerTyped, InPlace
    <3>2. \E pc \in WorkerPcs \ {"loop"} : Goto(w, pc)
      BY <1>8 DEF StartFlag, At, WorkerPcs
    <3> QED
      BY <3>1, <3>2, GotoTyped
  <2>2. ListTyped'
    BY <1>8 DEF StartFlag, At, Goto, ListTyped
  <2>3. AudioTyped'
    BY <1>8 DEF StartFlag, At, Goto, AudioTyped
  <2>4. PipeTyped'
    BY <1>8 DEF StartFlag, At, Goto, PipeTyped
  <2> QED
    BY <2>1, <2>2, <2>3, <2>4
<1>9. ASSUME NEW w \in Workers, StartSensor(w) PROVE Typed'
  <2>1. WorkerTyped'
    <3>1. worker[w].s \in Sensors
      BY <1>9 DEF StartSensor, At, Raise, WorkerTyped, InPlace
    <3>2. \E pc \in WorkerPcs \ {"loop"} : Goto(w, pc)
      BY <1>9 DEF StartSensor, At, Raise, WorkerPcs
    <3> QED
      BY <3>1, <3>2, GotoTyped
  <2>2. ListTyped'
    BY <1>9 DEF StartSensor, At, Goto, Raise, ListTyped
  <2>3. AudioTyped'
    <3>1. sock' \in {sock, sock + 1} /\ UNCHANGED <<bound, shut, player, playing>>
      BY <1>9 DEF StartSensor
    <3>2. sock \in Nat /\ player \in Nat
      BY DEF AudioTyped
    <3>3. bound' \subseteq 1..sock' /\ shut' \subseteq 1..sock'
      BY <3>1, <3>2 DEF AudioTyped
    <3>4. \A u \in Workers : worker'[u].pc = "bind" => sock' > 0
      <4>1. \A u \in Workers \ {w} : worker'[u].pc = "bind" => sock' > 0
        <5>1. \A u \in Workers \ {w} : worker'[u] = worker[u]
          BY <1>9 DEF StartSensor, Goto, Raise, WorkerTyped
        <5> QED
          BY <3>1, <3>2, <5>1 DEF AudioTyped
      <4>2. worker'[w].pc = "bind" => sock' = sock + 1
        <5>1. worker[w] \in WorkerStates /\ worker \in [Workers -> WorkerStates]
          BY DEF WorkerTyped
        <5> QED
          BY <1>9, <5>1 DEF StartSensor, Goto, Raise, WorkerStates
      <4> QED
        BY <3>2, <4>1, <4>2
    <3> QED
      BY <3>1, <3>2, <3>3, <3>4 DEF AudioTyped
  <2>4. PipeTyped'
    <3>1. sock' \in {sock, sock + 1} /\ sock \in Nat /\ UNCHANGED <<pipe, late, told, failed>>
      BY <1>9 DEF StartSensor, AudioTyped
    <3>2. \A p \in Pipes : pipe[p].sock \in Nat /\ pipe[p].sock <= sock
      BY DEF PipeTyped, PipeStates
    <3> QED
      BY <3>1, <3>2 DEF PipeTyped
  <2> QED
    BY <2>1, <2>2, <2>3, <2>4
<1>10. ASSUME NEW w \in Workers, StartBind(w) PROVE Typed'
  <2>1. WorkerTyped'
    <3>1. worker[w].s \in Sensors
      BY <1>10 DEF StartBind, At, Raise, WorkerTyped, InPlace
    <3>2. \E pc \in WorkerPcs \ {"loop"} : Goto(w, pc)
      BY <1>10 DEF StartBind, At, Raise, WorkerPcs
    <3> QED
      BY <3>1, <3>2, GotoTyped
  <2>2. ListTyped'
    BY <1>10 DEF StartBind, At, Goto, Raise, ListTyped
  <2>3. AudioTyped'
    BY <1>10 DEF StartBind, At, Goto, Raise, AudioTyped
  <2>4. PipeTyped'
    BY <1>10 DEF StartBind, At, Goto, Raise, PipeTyped
  <2> QED
    BY <2>1, <2>2, <2>3, <2>4
<1>11. ASSUME NEW w \in Workers, StartPopen(w) PROVE Typed'
  <2>1. WorkerTyped'
    <3>1. worker[w].s \in Sensors
      BY <1>11 DEF StartPopen, At, WorkerTyped, InPlace
    <3>2. \E pc \in WorkerPcs \ {"loop"} : Goto(w, pc)
      BY <1>11 DEF StartPopen, At, WorkerPcs
    <3> QED
      BY <3>1, <3>2, GotoTyped
  <2>2. ListTyped'
    BY <1>11 DEF StartPopen, At, Goto, ListTyped
  <2>3. AudioTyped'
    BY <1>11 DEF StartPopen, At, Goto, AudioTyped
  <2>4. PipeTyped'
    BY <1>11 DEF StartPopen, At, Goto, PipeTyped
  <2> QED
    BY <2>1, <2>2, <2>3, <2>4
<1>12. ASSUME NEW w \in Workers, StartThread(w) PROVE Typed'
  <2>1. WorkerTyped'
    BY <1>12, ReturnTyped DEF StartThread
  <2>2. ListTyped'
    BY <1>12 DEF StartThread, At, Return, ListTyped
  <2>3. AudioTyped'
    <3>1. UNCHANGED <<sock, bound, shut, player, playing>>
      BY <1>12 DEF StartThread
    <3>2. \A u \in Workers : worker'[u].pc = "bind" => worker[u].pc = "bind"
      BY <1>12, ReturnTyped DEF StartThread
    <3> QED
      BY <3>1, <3>2 DEF AudioTyped
  <2>4. PipeTyped'
    <3> DEFINE v == [s |-> worker[w].s, pc |-> "begin", sock |-> 0]
    <3>1. worker[w].s \in Sensors
      BY <1>12 DEF StartThread, At, WorkerTyped, InPlace
    <3>2. v \in PipeStates /\ v.s \in Sensors /\ v.sock = 0
      BY <3>1 DEF PipeStates, PipePcs
    <3>3. PICK p \in Pipes : pipe' = [pipe EXCEPT ![p] = v]
      BY <1>12 DEF StartThread
    <3>4. UNCHANGED sock /\ sock \in Nat
      BY <1>12 DEF StartThread, AudioTyped
    <3> HIDE DEF v
    <3>5. pipe' \in [Pipes -> PipeStates] /\ pipe'[p] = v /\ \A q \in Pipes \ {p} : pipe'[q] = pipe[q]
      BY <3>2, <3>3 DEF PipeTyped
    <3>6. \A q \in Pipes : pipe'[q].sock <= sock'
      BY <3>2, <3>4, <3>5 DEF PipeTyped
    <3>7. \A q \in Pipes : pipe'[q].pc # "ended" => pipe'[q].s \in Sensors
      BY <3>2, <3>5 DEF PipeTyped
    <3>8. late' \in [Pipes -> 0..2] /\ told' \subseteq Pipes /\ failed' \subseteq Sensors
      BY <1>12 DEF StartThread, PipeTyped
    <3> QED
      BY <3>5, <3>6, <3>7, <3>8 DEF PipeTyped
  <2> QED
    BY <2>1, <2>2, <2>3, <2>4
<1>13. ASSUME NEW w \in Workers, StopFlag(w) PROVE Typed'
  <2>1. WorkerTyped'
    <3>1. worker[w].s \in Sensors
      BY <1>13 DEF StopFlag, At, WorkerTyped, InPlace
    <3>2. \E pc \in WorkerPcs \ {"loop"} : Goto(w, pc)
      BY <1>13 DEF StopFlag, At, WorkerPcs
    <3> QED
      BY <3>1, <3>2, GotoTyped
  <2>2. ListTyped'
    BY <1>13 DEF StopFlag, At, Goto, ListTyped
  <2>3. AudioTyped'
    BY <1>13 DEF StopFlag, At, Goto, AudioTyped
  <2>4. PipeTyped'
    BY <1>13 DEF StopFlag, At, Goto, PipeTyped
  <2> QED
    BY <2>1, <2>2, <2>3, <2>4
<1>14. ASSUME NEW w \in Workers, StopSensor(w) PROVE Typed'
  <2>1. WorkerTyped'
    <3>1. worker[w].s \in Sensors
      BY <1>14 DEF StopSensor, At, Raise, WorkerTyped, InPlace
    <3>2. Return(w) \/ \E pc \in WorkerPcs \ {"loop"} : Goto(w, pc)
      BY <1>14 DEF StopSensor, At, Raise, WorkerPcs
    <3> QED
      BY <3>1, <3>2, GotoTyped, ReturnTyped
  <2>2. ListTyped'
    BY <1>14 DEF StopSensor, At, Goto, Raise, Return, ListTyped
  <2>3. AudioTyped'
    <3>1. UNCHANGED <<sock, bound, player, playing>> /\ shut' \in {shut, shut \cup {sock}}
          /\ (sock = 0 => shut' = shut)
      BY <1>14 DEF StopSensor
    <3>2. \A u \in Workers : worker'[u].pc = "bind" => worker[u].pc = "bind"
      <4>1. worker[w].s \in Sensors
        BY <1>14 DEF StopSensor, At, WorkerTyped, InPlace
      <4> QED
        BY <1>14, <4>1, ReturnTyped, GotoTyped DEF StopSensor, Raise, WorkerPcs
    <3> QED
      BY <3>1, <3>2 DEF AudioTyped
  <2>4. PipeTyped'
    BY <1>14 DEF StopSensor, At, Goto, Raise, Return, PipeTyped
  <2> QED
    BY <2>1, <2>2, <2>3, <2>4
<1>15. ASSUME NEW w \in Workers, StopKill(w) PROVE Typed'
  <2>1. WorkerTyped'
    <3>1. worker[w].s \in Sensors
      BY <1>15 DEF StopKill, At, Raise, WorkerTyped, InPlace
    <3>2. Return(w) \/ \E pc \in WorkerPcs \ {"loop"} : Goto(w, pc)
      BY <1>15 DEF StopKill, At, Raise, WorkerPcs
    <3> QED
      BY <3>1, <3>2, GotoTyped, ReturnTyped
  <2>2. ListTyped'
    BY <1>15 DEF StopKill, At, Raise, Goto, Return, ListTyped
  <2>3. AudioTyped'
    <3>1. UNCHANGED <<sock, bound, shut, player>> /\ playing' \subseteq playing
      BY <1>15 DEF StopKill
    <3>2. \A u \in Workers : worker'[u].pc = "bind" => worker[u].pc = "bind"
      <4>1. worker[w].s \in Sensors
        BY <1>15 DEF StopKill, At, WorkerTyped, InPlace
      <4> QED
        BY <1>15, <4>1, ReturnTyped, GotoTyped DEF StopKill, Raise, WorkerPcs
    <3> QED
      BY <3>1, <3>2 DEF AudioTyped
  <2>4. PipeTyped'
    BY <1>15 DEF StopKill, At, Raise, Goto, Return, PipeTyped
  <2> QED
    BY <2>1, <2>2, <2>3, <2>4
<1>16. ASSUME NEW p \in Pipes, PipeBegin(p) PROVE Typed'
  <2>1. WorkerTyped'
    BY <1>16 DEF PipeBegin, PipeMoves, WorkerTyped
  <2>2. ListTyped'
    BY <1>16 DEF PipeBegin, PipeMoves, ListTyped
  <2>3. AudioTyped'
    BY <1>16 DEF PipeBegin, PipeMoves, AudioTyped
  <2>4. PipeTyped'
    <3>1. \E to \in PipePcs : PipeMoves(p, "begin", to)
      BY <1>16 DEF PipeBegin, PipePcs
    <3>2. late' \in [Pipes -> 0..2] /\ told' \subseteq Pipes /\ failed' \subseteq Sensors
      BY <1>16 DEF PipeBegin, PipeTyped
    <3> QED
      BY <3>1, <3>2, PipeTypedMoves DEF PipePcs
  <2> QED
    BY <2>1, <2>2, <2>3, <2>4
<1>17. ASSUME NEW p \in Pipes, PipeTest(p) PROVE Typed'
  <2>1. WorkerTyped'
    BY <1>17 DEF PipeTest, PipeMoves, WorkerTyped
  <2>2. ListTyped'
    BY <1>17 DEF PipeTest, PipeMoves, ListTyped
  <2>3. AudioTyped'
    BY <1>17 DEF PipeTest, PipeMoves, AudioTyped
  <2>4. PipeTyped'
    <3>1. CASE PipeMoves(p, "test", "get") /\ UNCHANGED <<late, told, failed>>
      <4>1. late' \in [Pipes -> 0..2] /\ told' \subseteq Pipes /\ failed' \subseteq Sensors
        BY <3>1 DEF PipeTyped
      <4> QED
        BY <3>1, <4>1, PipeTypedMoves DEF PipePcs
    <3>2. CASE /\ pipe' = [pipe EXCEPT ![p] = NoPipe] /\ late' = [late EXCEPT ![p] = 0]
               /\ told' = told \ {p} /\ UNCHANGED <<failed, sock>>
      BY <3>2, PipeTypedEnds DEF AudioTyped
    <3> QED
      BY <1>17, <3>1, <3>2 DEF PipeTest
  <2> QED
    BY <2>1, <2>2, <2>3, <2>4
<1>18. ASSUME NEW p \in Pipes, PipeGet(p) PROVE Typed'
  <2>1. WorkerTyped'
    BY <1>18 DEF PipeGet, WorkerTyped
  <2>2. ListTyped'
    BY <1>18 DEF PipeGet, ListTyped
  <2>3. AudioTyped'
    BY <1>18 DEF PipeGet, AudioTyped
  <2>4. PipeTyped'
    <3> DEFINE audio == pipe[p].s \in Audio
               v == [pipe[p] EXCEPT !.pc = IF ~audio THEN "send"
                                           ELSE IF sock \in shut \cup {0} THEN "dead" ELSE "recv",
                                    !.sock = IF audio THEN sock ELSE 0]
    <3>1. pipe \in [Pipes -> PipeStates] /\ pipe[p] \in PipeStates /\ sock \in Nat
      BY DEF PipeTyped, AudioTyped
    <3>2. v \in PipeStates /\ v.s = pipe[p].s /\ v.sock <= sock
      <4>1. \E pc \in PipePcs, k \in {0, sock} : v = [pipe[p] EXCEPT !.pc = pc, !.sock = k]
        BY DEF PipePcs
      <4> HIDE DEF v
      <4>2. PICK pc \in PipePcs, k \in {0, sock} : v = [pipe[p] EXCEPT !.pc = pc, !.sock = k]
        BY <4>1
      <4>3. k \in Nat /\ k <= sock
        BY <3>1
      <4>4. v \in PipeStates /\ v.s = pipe[p].s /\ v.sock = k
        BY <3>1, <4>2, <4>3 DEF PipeStates
      <4> QED
        BY <4>3, <4>4
    <3>3. pipe' = [pipe EXCEPT ![p] = v] /\ UNCHANGED <<sock, late, told, failed>> /\ pipe[p].pc # "ended"
      BY <1>18 DEF PipeGet
    <3> HIDE DEF v
    <3>4. pipe' \in [Pipes -> PipeStates] /\ pipe'[p] = v /\ \A q \in Pipes \ {p} : pipe'[q] = pipe[q]
      BY <3>1, <3>2, <3>3
    <3>5. \A q \in Pipes : pipe'[q].sock <= sock'
      BY <3>2, <3>3, <3>4 DEF PipeTyped
    <3>6. \A q \in Pipes : pipe'[q].pc # "ended" => pipe'[q].s \in Sensors
      BY <3>2, <3>3, <3>4 DEF PipeTyped
    <3> QED
      BY <3>3, <3>4, <3>5, <3>6 DEF PipeTyped
  <2> QED
    BY <2>1, <2>2, <2>3, <2>4
<1>19. ASSUME NEW p \in Pipes, PipeRecv(p) PROVE Typed'
  <2>1. WorkerTyped'
    BY <1>19 DEF PipeRecv, PipeMoves, WorkerTyped
  <2>2. ListTyped'
    BY <1>19 DEF PipeRecv, PipeMoves, ListTyped
  <2>3. AudioTyped'
    BY <1>19 DEF PipeRecv, PipeMoves, AudioTyped
  <2>4. PipeTyped'
    <3>1. \E to \in PipePcs : PipeMoves(p, "recv", to)
      BY <1>19 DEF PipeRecv, PipePcs
    <3>2. late' \in [Pipes -> 0..2] /\ told' \subseteq Pipes /\ failed' \subseteq Sensors
      BY <1>19 DEF PipeRecv, PipeTyped
    <3> QED
      BY <3>1, <3>2, PipeTypedMoves DEF PipePcs
  <2> QED
    BY <2>1, <2>2, <2>3, <2>4
<1>20. ASSUME NEW p \in Pipes, PipeSend(p) PROVE Typed'
  <2>1. WorkerTyped'
    BY <1>20 DEF PipeSend, PipeSendThen, PipeMoves, WorkerTyped
  <2>2. ListTyped'
    BY <1>20 DEF PipeSend, PipeSendThen, PipeMoves, ListTyped
  <2>3. AudioTyped'
    BY <1>20 DEF PipeSend, PipeSendThen, PipeMoves, AudioTyped
  <2>4. PipeTyped'
    <3>1. \E to \in PipePcs : PipeMoves(p, "send", to)
      BY <1>20 DEF PipeSend, PipeSendThen, PipePcs
    <3>2. late' \in [Pipes -> 0..2] /\ told' \subseteq Pipes /\ failed' \subseteq Sensors
      <4>1. late \in [Pipes -> 0..2] /\ late[p] \in 0..2
        BY DEF PipeTyped
      <4>2. \/ UNCHANGED late \/ late' = [late EXCEPT ![p] = 0]
            \/ late' = [late EXCEPT ![p] = IF @ < 2 THEN @ + 1 ELSE 2]
        BY <1>20 DEF PipeSend, PipeSendThen
      <4>3. (IF late[p] < 2 THEN late[p] + 1 ELSE 2) \in 0..2
        BY <4>1
      <4>4. late' \in [Pipes -> 0..2]
        BY <4>1, <4>2, <4>3
      <4>5. pipe[p].s \in Sensors
        BY <1>20 DEF PipeSend, PipeSendThen, PipeMoves, PipeTyped
      <4>6. told' \subseteq told /\ failed' \subseteq failed \cup {pipe[p].s}
        BY <1>20 DEF PipeSend, PipeSendThen
      <4> QED
        BY <4>4, <4>5, <4>6 DEF PipeTyped
    <3> QED
      BY <3>1, <3>2, PipeTypedMoves DEF PipePcs
  <2> QED
    BY <2>1, <2>2, <2>3, <2>4
<1> QED
  BY <1>1, <1>2, <1>3, <1>4, <1>5, <1>6, <1>7, <1>8, <1>9, <1>10, <1>11, <1>12, <1>13,
     <1>14, <1>15, <1>16, <1>17, <1>18, <1>19, <1>20
     DEF Next, Start, Stop, Pipe

\* A thread does not get past the test after its late packet.
LEMMA LatePreserved == Typed /\ LateStops /\ [Next]_vars => LateStops'
<1> SUFFICES ASSUME Typed, LateStops, [Next]_vars PROVE LateStops'
  OBVIOUS
<1> USE SensorAssumption DEF Typed, PipeTyped, ListTyped, audioVars, pipeVars
<1>1. CASE UNCHANGED vars
  BY <1>1 DEF vars, LateStops
<1>2. ASSUME NEW s \in Sensors, Register(s) PROVE LateStops'
  BY <1>2 DEF Register, At, LateStops
<1>3. ASSUME RegisterInactive PROVE LateStops'
  BY <1>3 DEF RegisterInactive, At, Return, LateStops
<1>4. ASSUME NEW w \in Workers, NEW op \in DOMAIN Entry, NEW s \in Sensors \cup {"all"}, Ask(w, op, s)
      PROVE LateStops'
  BY <1>4 DEF Ask, At, LateStops
<1>5. ASSUME NEW w \in Workers, AskNext(w) PROVE LateStops'
  BY <1>5 DEF AskNext, At, LateStops
<1>6. ASSUME NEW w \in Workers, Look(w) PROVE LateStops'
  BY <1>6 DEF Look, At, Return, Raise, Goto, LateStops
<1>7. ASSUME NEW w \in Workers, Dump(w) PROVE LateStops'
  BY <1>7 DEF Dump, At, Raise, Goto, LateStops
<1>8. ASSUME NEW w \in Workers, StartFlag(w) PROVE LateStops'
  BY <1>8 DEF StartFlag, At, Goto, LateStops
<1>9. ASSUME NEW w \in Workers, StartSensor(w) PROVE LateStops'
  BY <1>9 DEF StartSensor, At, Goto, Raise, LateStops
<1>10. ASSUME NEW w \in Workers, StartBind(w) PROVE LateStops'
  BY <1>10 DEF StartBind, At, Goto, Raise, LateStops
<1>11. ASSUME NEW w \in Workers, StartPopen(w) PROVE LateStops'
  BY <1>11 DEF StartPopen, At, Goto, LateStops
<1>12. ASSUME NEW w \in Workers, StartThread(w) PROVE LateStops'
  BY <1>12 DEF StartThread, At, Return, LateStops
<1>13. ASSUME NEW w \in Workers, StopFlag(w) PROVE LateStops'
  BY <1>13 DEF StopFlag, At, Goto, LateStops
<1>14. ASSUME NEW w \in Workers, StopSensor(w) PROVE LateStops'
  BY <1>14 DEF StopSensor, At, Goto, Raise, Return, LateStops
<1>15. ASSUME NEW w \in Workers, StopKill(w) PROVE LateStops'
  BY <1>15 DEF StopKill, At, Raise, Goto, Return, LateStops
<1>16. ASSUME NEW p \in Pipes, PipeBegin(p) PROVE LateStops'
  BY <1>16 DEF PipeBegin, PipeMoves, LateStops
<1>17. ASSUME NEW p \in Pipes, PipeTest(p) PROVE LateStops'
  <2>1. CASE PipeMoves(p, "test", "get") /\ active[pipe[p].s] /\ UNCHANGED late
    BY <2>1 DEF PipeMoves, LateStops
  <2>2. CASE /\ pipe' = [pipe EXCEPT ![p] = NoPipe] /\ late' = [late EXCEPT ![p] = 0]
             /\ UNCHANGED active
    BY <2>2 DEF LateStops
  <2> QED
    BY <1>17, <2>1, <2>2 DEF PipeTest
<1>18. ASSUME NEW p \in Pipes, PipeGet(p) PROVE LateStops'
  BY <1>18 DEF PipeGet, LateStops
<1>19. ASSUME NEW p \in Pipes, PipeRecv(p) PROVE LateStops'
  BY <1>19 DEF PipeRecv, PipeMoves, LateStops
<1>20. ASSUME NEW p \in Pipes, PipeSend(p) PROVE LateStops'
  <2>1. PICK to \in {"test", "dead"} :
          /\ PipeMoves(p, "send", to)
          /\ \/ late' = late \/ late' = [late EXCEPT ![p] = 0]
             \/ /\ ~active[pipe[p].s] /\ to = "test"
                /\ late' = [late EXCEPT ![p] = IF @ < 2 THEN @ + 1 ELSE 2]
    BY <1>20 DEF PipeSend, PipeSendThen
  <2>2. pipe[p].pc = "send" /\ UNCHANGED active
    BY <2>1 DEF PipeMoves
  <2>3. late' \in [Pipes -> 0..2] /\ told' \subseteq Pipes /\ failed' \subseteq Sensors
    BY <1>20, TypedPreserved DEF PipeTyped, Next, Pipe
  <2>4. /\ pipe'[p].s = pipe[p].s /\ pipe'[p].pc = to
        /\ \A q \in Pipes \ {p} : pipe'[q] = pipe[q]
    BY <2>1, <2>3, PipeTypedMoves DEF PipePcs
  <2>5. late[p] = 0 /\ late \in [Pipes -> 0..2]
    BY <2>2 DEF LateStops, PipeTyped
  <2>6. \A q \in Pipes \ {p} : late'[q] = late[q]
    BY <2>1, <2>5
  <2>7. late'[p] = 0 \/ (late'[p] = 1 /\ to = "test" /\ ~active[pipe[p].s])
    BY <2>1, <2>5
  <2>8. ASSUME NEW q \in Pipes
        PROVE /\ late'[q] <= 1
              /\ late'[q] = 1 => pipe'[q].pc = "test" /\ ~active'[pipe'[q].s]
    <3>1. CASE q = p
      BY <2>2, <2>4, <2>7, <3>1
    <3>2. CASE q # p
      BY <2>2, <2>4, <2>6, <3>2 DEF LateStops
    <3> QED
      BY <3>1, <3>2
  <2> QED
    BY <2>8 DEF LateStops
<1> QED
  BY <1>1, <1>2, <1>3, <1>4, <1>5, <1>6, <1>7, <1>8, <1>9, <1>10, <1>11, <1>12, <1>13,
     <1>14, <1>15, <1>16, <1>17, <1>18, <1>19, <1>20
     DEF Next, Start, Stop, Pipe

\* The flag and the threads do not part.
LEMMA PipingPreserved == Typed /\ ActiveMeansPiping /\ [Next]_vars => ActiveMeansPiping'
<1> SUFFICES ASSUME Typed, ActiveMeansPiping, [Next]_vars PROVE ActiveMeansPiping'
  OBVIOUS
<1> USE SensorAssumption DEF Typed, audioVars, pipeVars
<1>1. CASE UNCHANGED vars
  BY <1>1
     DEF vars, ActiveMeansPiping, PipeTyped, ListTyped, WorkerTyped, WorkerStates,
         PipeStates, Workers, Starting, Registered, Live
<1>2. ASSUME NEW s \in Sensors, Register(s) PROVE ActiveMeansPiping'
  <2>1. /\ sensorList' \in {sensorList, Append(sensorList, s)} /\ sensorList \in Seq(Sensors)
        /\ worker' = [worker EXCEPT !["app"] = [Idling EXCEPT !.pc = "register", !.s = s]]
        /\ worker["app"].pc = "idle" /\ "app" \in Workers
        /\ UNCHANGED <<active, pipe, failed>>
    BY <1>2 DEF Register, At, ListTyped, Workers
  <2>2. worker'["app"].pc = "register" /\ worker'["app"].s = s
    BY <2>1 DEF WorkerTyped, Idling
  <2>3. \A u \in Workers \ {"app"} : worker'[u] = worker[u]
    BY <2>1 DEF WorkerTyped
  <2>4. \A r \in Sensors : Starting(r) => Starting(r)'
    BY <2>1, <2>3 DEF Starting
  <2>5. Starting(s)'
    BY <2>1, <2>2 DEF Starting
  <2>6. \A r \in Sensors \ {s} : Registered(r)' => Registered(r)
    BY <2>1 DEF Registered
  <2> QED
    BY <2>1, <2>4, <2>5, <2>6 DEF ActiveMeansPiping, Live
<1>3. ASSUME RegisterInactive PROVE ActiveMeansPiping'
  <2> DEFINE x == worker["app"].s
  <2>1. /\ "app" \in Workers /\ worker["app"].pc = "register" /\ Return("app")
        /\ active' = [active EXCEPT ![x] = FALSE] /\ UNCHANGED <<sensorList, pipe, failed>>
    BY <1>3 DEF RegisterInactive, At, Workers
  <2>2. x \in Sensors
    BY <2>1 DEF WorkerTyped, InPlace
  <2>3. \A u \in Workers \ {"app"} : worker'[u] = worker[u]
    BY <2>1, ReturnTyped
  <2>4. \A r \in Sensors \ {x} : Starting(r) => Starting(r)'
    BY <2>3 DEF Starting
  <2>5. ~active'[x] /\ \A r \in Sensors \ {x} : active'[r] = active[r]
    BY <2>1, <2>2 DEF ListTyped
  <2> HIDE DEF x
  <2> QED
    BY <2>1, <2>4, <2>5 DEF ActiveMeansPiping, Registered, Live
<1>4. ASSUME NEW w \in Workers, NEW op \in DOMAIN Entry, NEW s \in Sensors \cup {"all"}, Ask(w, op, s)
      PROVE ActiveMeansPiping'
  <2>1. worker[w].pc \notin Begins /\ UNCHANGED <<sensorList, active, pipe, failed>>
    BY <1>4 DEF Ask, At, Begins
  <2>2. \A u \in Workers \ {w} : worker'[u] = worker[u]
    BY <1>4 DEF Ask, At, WorkerTyped
  <2> QED
    BY <2>1, <2>2, OthersKeepPiping
<1>5. ASSUME NEW w \in Workers, AskNext(w) PROVE ActiveMeansPiping'
  <2>1. worker[w].pc \notin Begins /\ UNCHANGED <<sensorList, active, pipe, failed>>
    BY <1>5 DEF AskNext, At, Begins
  <2>2. \A u \in Workers \ {w} : worker'[u] = worker[u]
    BY <1>5 DEF AskNext, At, WorkerTyped
  <2> QED
    BY <2>1, <2>2, OthersKeepPiping
<1>6. ASSUME NEW w \in Workers, Look(w) PROVE ActiveMeansPiping'
  <2>1. worker[w].pc \notin Begins /\ UNCHANGED <<sensorList, active, pipe, failed>>
    BY <1>6 DEF Look, At, Begins
  <2>2. \A u \in Workers \ {w} : worker'[u] = worker[u]
    BY <1>6 DEF Look, At, Return, Raise, Goto, WorkerTyped
  <2> QED
    BY <2>1, <2>2, OthersKeepPiping
<1>7. ASSUME NEW w \in Workers, Dump(w) PROVE ActiveMeansPiping'
  <2>1. worker[w].pc \notin Begins /\ UNCHANGED <<sensorList, active, pipe, failed>>
    BY <1>7 DEF Dump, At, Begins
  <2>2. \A u \in Workers \ {w} : worker'[u] = worker[u]
    BY <1>7 DEF Dump, At, Raise, Goto, WorkerTyped
  <2> QED
    BY <2>1, <2>2, OthersKeepPiping
<1>8. ASSUME NEW w \in Workers, StartFlag(w) PROVE ActiveMeansPiping'
  <2> DEFINE x == worker[w].s
  <2>1. /\ UNCHANGED <<sensorList, pipe, failed>> /\ worker[w].pc = "flag"
        /\ active' = [active EXCEPT ![x] = TRUE]
        /\ Goto(w, IF worker[w].op = "FORCE" THEN "thread" ELSE "start")
    BY <1>8 DEF StartFlag, At
  <2>2. x \in Sensors
    BY <2>1 DEF WorkerTyped, InPlace
  <2>3. /\ worker'[w].pc \in {"start", "thread"} /\ worker'[w].s = x
        /\ \A u \in Workers \ {w} : worker'[u] = worker[u]
    BY <2>1, <2>2, GotoTyped DEF WorkerPcs
  <2>4. \A r \in Sensors : Starting(r) => Starting(r)'
    BY <2>1, <2>3 DEF Starting
  <2>5. Starting(x)'
    BY <2>3 DEF Starting
  <2>6. \A r \in Sensors \ {x} : active'[r] = active[r]
    BY <2>1, <2>2 DEF ListTyped
  <2>7. UNCHANGED <<sensorList, pipe, failed>>
    BY <2>1
  <2>8. ASSUME NEW r \in Sensors \ Audio, active'[r], Registered(r)
        PROVE Starting(r)' \/ (\E p \in Pipes : Live(p, r)) \/ r \in failed
    <3>1. CASE r = x
      BY <2>3, <2>5, <3>1 DEF Starting
    <3>2. CASE r # x
      BY <2>4, <2>6, <2>8, <3>2 DEF ActiveMeansPiping
    <3> QED
      BY <3>1, <3>2
  <2> HIDE DEF x
  <2> QED
    BY <2>7, <2>8 DEF ActiveMeansPiping, Registered, Live
<1>9. ASSUME NEW w \in Workers, StartSensor(w) PROVE ActiveMeansPiping'
  <2> DEFINE x == worker[w].s
  <2>1. UNCHANGED <<sensorList, active, pipe, failed>> /\ worker[w].pc = "start"
    BY <1>9 DEF StartSensor, At
  <2>2. x \in Sensors
    BY <2>1 DEF WorkerTyped, InPlace
  <2>3. \A u \in Workers \ {w} : worker'[u] = worker[u]
    BY <1>9 DEF StartSensor, Goto, Raise, WorkerTyped
  <2>4. Registered(x) /\ x \notin Audio => worker'[w].pc = "thread" /\ worker'[w].s = x
    BY <1>9, <2>2, GotoTyped DEF StartSensor, WorkerPcs
  <2>5. ASSUME NEW r \in Sensors \ Audio, active[r], Registered(r), Starting(r)
        PROVE Starting(r)'
    BY <2>3, <2>4, <2>5 DEF Starting
  <2> QED
    BY <2>1, <2>5 DEF ActiveMeansPiping, Registered, Live
<1>10. ASSUME NEW w \in Workers, StartBind(w) PROVE ActiveMeansPiping'
  <2>1. worker[w].pc \notin Begins /\ UNCHANGED <<sensorList, active, pipe, failed>>
    BY <1>10 DEF StartBind, At, Begins
  <2>2. \A u \in Workers \ {w} : worker'[u] = worker[u]
    BY <1>10 DEF StartBind, At, Goto, Raise, WorkerTyped
  <2> QED
    BY <2>1, <2>2, OthersKeepPiping
<1>11. ASSUME NEW w \in Workers, StartPopen(w) PROVE ActiveMeansPiping'
  <2>1. worker[w].pc \notin Begins /\ UNCHANGED <<sensorList, active, pipe, failed>>
    BY <1>11 DEF StartPopen, At, Begins
  <2>2. \A u \in Workers \ {w} : worker'[u] = worker[u]
    BY <1>11 DEF StartPopen, At, Goto, WorkerTyped
  <2> QED
    BY <2>1, <2>2, OthersKeepPiping
<1>12. ASSUME NEW w \in Workers, StartThread(w) PROVE ActiveMeansPiping'
  <2> DEFINE x == worker[w].s
  <2>1. UNCHANGED <<sensorList, active>> /\ worker[w].pc = "thread" /\ Return(w)
    BY <1>12 DEF StartThread, At
  <2>2. PICK p \in Pipes : pipe[p].pc = "ended" /\ pipe' = [pipe EXCEPT ![p] = [s |-> x, pc |-> "begin", sock |-> 0]]
    BY <1>12 DEF StartThread
  <2>3. pipe'[p].s = x /\ pipe'[p].pc = "begin" /\ \A q \in Pipes \ {p} : pipe'[q] = pipe[q]
    BY <2>2 DEF PipeTyped
  <2>4. \A u \in Workers \ {w} : worker'[u] = worker[u]
    BY <2>1, ReturnTyped
  <2>5. \A r \in Sensors \ {x} : Starting(r) => Starting(r)'
    BY <2>4 DEF Starting
  <2>6. \A r \in Sensors \ {x} : Served(r) => Served(r)'
    <3>1. \A q \in Pipes, r \in Sensors : Live(q, r) => Live(q, r)'
      BY <2>2, <2>3 DEF Live
    <3>2. failed' = failed \ {x}
      BY <1>12 DEF StartThread
    <3> QED
      BY <3>1, <3>2 DEF Served
  <2>7. \A r \in Sensors : r = x => Served(r)'
    BY <2>3 DEF Served, Live
  <2> HIDE DEF x
  <2> QED
    BY <2>1, <2>5, <2>6, <2>7 DEF ActiveMeansPiping, Registered, Served
<1>13. ASSUME NEW w \in Workers, StopFlag(w) PROVE ActiveMeansPiping'
  BY <1>13
     DEF StopFlag, At, Goto, ActiveMeansPiping, PipeTyped, ListTyped, WorkerTyped,
         WorkerStates, PipeStates, Workers, Starting, Registered, Live
<1>14. ASSUME NEW w \in Workers, StopSensor(w) PROVE ActiveMeansPiping'
  <2>1. worker[w].pc \notin Begins /\ UNCHANGED <<sensorList, active, pipe, failed>>
    BY <1>14 DEF StopSensor, At, Begins
  <2>2. \A u \in Workers \ {w} : worker'[u] = worker[u]
    BY <1>14 DEF StopSensor, At, Goto, Raise, Return, WorkerTyped
  <2> QED
    BY <2>1, <2>2, OthersKeepPiping
<1>15. ASSUME NEW w \in Workers, StopKill(w) PROVE ActiveMeansPiping'
  <2>1. worker[w].pc \notin Begins /\ UNCHANGED <<sensorList, active, pipe, failed>>
    BY <1>15 DEF StopKill, At, Begins
  <2>2. \A u \in Workers \ {w} : worker'[u] = worker[u]
    BY <1>15 DEF StopKill, At, Raise, Goto, Return, WorkerTyped
  <2> QED
    BY <2>1, <2>2, OthersKeepPiping
<1>16. ASSUME NEW p \in Pipes, PipeBegin(p) PROVE ActiveMeansPiping'
  <2>1. UNCHANGED <<sensorList, active, worker, failed>>
    BY <1>16 DEF PipeBegin, PipeMoves
  <2>2. pipe'[p].s = pipe[p].s /\ \A q \in Pipes \ {p} : pipe'[q] = pipe[q]
    BY <1>16 DEF PipeBegin, PipeMoves, PipeTyped, PipeStates
  <2>3. CASE Registered(pipe[p].s)
    <3>1. pipe'[p].pc = "test"
      BY <1>16, <2>3 DEF PipeBegin, PipeMoves, PipeTyped, PipeStates
    <3> QED
      BY <2>1, <2>2, <3>1, LiveKeepsPiping
  <2>4. CASE ~Registered(pipe[p].s)
    <3>1. ASSUME NEW r \in Sensors, Registered(r), Served(r) PROVE Served(r)'
      <4>1. r # pipe[p].s
        BY <2>4, <3>1
      <4> QED
        BY <2>1, <2>2, <3>1, <4>1 DEF Served, Live
    <3> QED
      BY <2>1, <3>1 DEF ActiveMeansPiping, Served, Registered, Starting
  <2> QED
    BY <2>3, <2>4
<1>17. ASSUME NEW p \in Pipes, PipeTest(p) PROVE ActiveMeansPiping'
  <2>1. UNCHANGED <<sensorList, active, worker, failed>>
    BY <1>17 DEF PipeTest, PipeMoves
  <2>2. CASE PipeMoves(p, "test", "get")
    <3>1. /\ pipe'[p].s = pipe[p].s /\ pipe'[p].pc = "get"
          /\ \A q \in Pipes \ {p} : pipe'[q] = pipe[q]
      BY <2>2 DEF PipeMoves, PipeTyped, PipeStates
    <3> QED
      BY <2>1, <3>1, LiveKeepsPiping
  <2>3. CASE ~active[pipe[p].s] /\ pipe' = [pipe EXCEPT ![p] = NoPipe]
    <3>1. \A q \in Pipes \ {p} : pipe'[q] = pipe[q]
      BY <2>3 DEF PipeTyped
    <3>2. ASSUME NEW r \in Sensors, active[r], Served(r) PROVE Served(r)'
      <4>1. r # pipe[p].s
        BY <2>3, <3>2
      <4> QED
        BY <2>1, <3>1, <3>2, <4>1 DEF Served, Live
    <3> QED
      BY <2>1, <3>2 DEF ActiveMeansPiping, Served, Registered, Starting
  <2> QED
    BY <1>17, <2>2, <2>3 DEF PipeTest
<1>18. ASSUME NEW p \in Pipes, PipeGet(p) PROVE ActiveMeansPiping'
  <2>1. UNCHANGED <<sensorList, active, worker, failed>>
    BY <1>18 DEF PipeGet
  <2>2. /\ pipe'[p].s = pipe[p].s /\ \A q \in Pipes \ {p} : pipe'[q] = pipe[q]
        /\ pipe[p].s \notin Audio => pipe'[p].pc = "send"
    BY <1>18 DEF PipeGet, PipeTyped, PipeStates
  <2>3. ASSUME NEW r \in Sensors \ Audio, Served(r) PROVE Served(r)'
    BY <2>1, <2>2, <2>3 DEF Served, Live
  <2> QED
    BY <2>1, <2>3 DEF ActiveMeansPiping, Served, Registered, Starting
<1>19. ASSUME NEW p \in Pipes, PipeRecv(p) PROVE ActiveMeansPiping'
  <2>1. UNCHANGED <<sensorList, active, worker, failed>>
    BY <1>19 DEF PipeRecv, PipeMoves
  <2>2. /\ pipe'[p].s = pipe[p].s /\ pipe'[p].pc = "send"
        /\ \A q \in Pipes \ {p} : pipe'[q] = pipe[q]
    BY <1>19 DEF PipeRecv, PipeMoves, PipeTyped, PipeStates
  <2> QED
    BY <2>1, <2>2, LiveKeepsPiping
<1>20. ASSUME NEW p \in Pipes, PipeSend(p) PROVE ActiveMeansPiping'
  <2> DEFINE x == pipe[p].s
  <2>1. UNCHANGED <<sensorList, active, worker>>
    BY <1>20 DEF PipeSend, PipeSendThen, PipeMoves
  <2>2. CASE PipeMoves(p, "send", "test") /\ UNCHANGED failed
    <3>1. /\ pipe'[p].s = pipe[p].s /\ pipe'[p].pc = "test"
          /\ \A q \in Pipes \ {p} : pipe'[q] = pipe[q]
      BY <2>2 DEF PipeMoves, PipeTyped, PipeStates
    <3> QED
      BY <2>1, <2>2, <3>1, LiveKeepsPiping
  <2>3. CASE /\ PipeMoves(p, "send", "dead")
             /\ failed' = IF \E q \in Pipes \ {p} : Live(q, x) THEN failed ELSE failed \cup {x}
    <3>1. \A q \in Pipes \ {p} : pipe'[q] = pipe[q]
      BY <2>3 DEF PipeMoves, PipeTyped
    <3>2. \A q \in Pipes \ {p}, r \in Sensors : Live(q, r) => Live(q, r)'
      BY <3>1 DEF Live
    <3>3. failed \subseteq failed'
      BY <2>3
    <3>4. \A r \in Sensors : r = x => Served(r)'
      BY <2>3, <3>2 DEF Served
    <3>5. ASSUME NEW r \in Sensors \ {x}, Served(r) PROVE Served(r)'
      BY <3>2, <3>3, <3>5 DEF Served, Live
    <3> HIDE DEF x
    <3> QED
      BY <2>1, <3>4, <3>5 DEF ActiveMeansPiping, Served, Registered, Starting
  <2> QED
    BY <1>20, <2>2, <2>3 DEF PipeSend, PipeSendThen
<1> QED
  BY <1>1, <1>2, <1>3, <1>4, <1>5, <1>6, <1>7, <1>8, <1>9, <1>10, <1>11, <1>12, <1>13,
     <1>14, <1>15, <1>16, <1>17, <1>18, <1>19, <1>20
     DEF Next, Start, Stop, Pipe

\* The initial state satisfies the invariant.
LEMMA SensorsStart == Init => SensorInv
<1> SUFFICES ASSUME Init PROVE SensorInv
  OBVIOUS
<1> USE SensorAssumption DEF Init
<1>1. WorkerTyped
  BY DEF WorkerTyped, WorkerStates, WorkerPcs, Idling, InPlace
<1>2. ListTyped
  BY DEF ListTyped
<1>3. AudioTyped
  BY DEF AudioTyped, Idling
<1>4. PipeTyped
  BY DEF PipeTyped, PipeStates, PipePcs, NoPipe
<1>5. LateStops
  <2>1. \A p \in Pipes : late[p] = 0
    OBVIOUS
  <2>2. 0 <= 1 /\ 0 # 1
    OBVIOUS
  <2> QED
    BY <2>1, <2>2, Zenon DEF LateStops
<1>6. ActiveMeansPiping
  BY DEF ActiveMeansPiping
<1> QED
  BY <1>1, <1>2, <1>3, <1>4, <1>5, <1>6 DEF SensorInv, Typed

\* The inductive invariant.
THEOREM Invariance == Spec => []SensorInv
<1>1. SensorInv /\ [Next]_vars => SensorInv'
  BY TypedPreserved, LatePreserved, PipingPreserved DEF SensorInv
<1> QED
  BY <1>1, SensorsStart, PTL DEF Spec
------------------------------------------------------------------------------
\* The variables keep their types.
THEOREM TypeCorrect == Spec => []TypeOK
<1>1. SensorInv => TypeOK
  <2> SUFFICES ASSUME Typed PROVE TypeOK
    BY DEF SensorInv
  <2> USE DEF Typed
  <2>1. /\ sensorList \in Seq(Sensors)
        /\ active \in [Sensors -> BOOLEAN]
    BY DEF ListTyped
  <2>2. \A w \in Workers : worker[w] \in WorkerStates
    BY DEF WorkerTyped
  <2>3. /\ {sock, player} \subseteq Nat
        /\ bound \cup shut \subseteq 1..sock
        /\ playing \subseteq 1..player
    BY DEF AudioTyped
  <2>4. pipe \in [Pipes -> [s : Sensors \cup {"all"}, sock : 0..sock, pc : PipePcs]]
    BY DEF AudioTyped, PipeTyped, PipeStates
  <2>5. late \in [Pipes -> 0..2] /\ told \subseteq Pipes /\ failed \subseteq Sensors
    BY DEF PipeTyped
  <2> QED
    BY <2>1, <2>2, <2>3, <2>4, <2>5, Zenon DEF TypeOK, WorkerStates, WorkerPcs, PipePcs
<1> QED
  BY <1>1, Invariance, PTL

\* After stop() each thread sends at most the one packet it had begun.
THEOREM OnePacketLate == Spec => []AtMostOneLate
<1>1. SensorInv => AtMostOneLate
  BY DEF SensorInv, LateStops, AtMostOneLate
<1> QED
  BY <1>1, Invariance, PTL

\* A registered, active sensor that is not aac_sensor has a living thread that
\* pipes it, or is about to get one, or its last thread has died in send().
THEOREM ActiveSensorsArePiped == Spec => []ActiveMeansPiping
<1>1. SensorInv => ActiveMeansPiping
  BY DEF SensorInv
<1> QED
  BY <1>1, Invariance, PTL
==============================================================================
