---------------------------- MODULE SensorControl ----------------------------
(***************************************************************************)
(* RTASP_sender of src/roadrunner/rtasp_low_power.py and src/cloud/RTASP.py *)
(* with its sensors, and the one sensor the repository has that owns       *)
(* resources: aac_sensor of src/roadrunner/audio_sensor.py, which reads on *)
(* a UDP port what an ffmpeg process sends there.  What the pipe threads   *)
(* do inside packet_sender.send is in PacketSender.                        *)
(*                                                                         *)
(* Two threads work on the object: the receive thread of the control       *)
(* channel, which runs __control_msg_analysis, and the application.  Each  *)
(* start begins a thread that pipes the sensor's data until sensor_active  *)
(* is false.  Nothing is locked.  Since a control message may be repeated, *)
(* delayed or reordered (ControlChannel), any message may come at any time *)
(* the receive thread is free.  A thread whose exception nothing catches   *)
(* is "dead".                                                              *)
(***************************************************************************)
EXTENDS Integers, Sequences

CONSTANTS
  Pipes,     \* bound: the pipe threads there can be at a time
  Sensors,   \* the sensor ids
  Audio,     \* those of them that are aac_sensor: one port, so at most one
  MaxCalls,  \* bound: messages to the receive thread
  AppCalls   \* bound: calls of the application, after its registrations

ASSUME SensorAssumption ==
  /\ Audio \subseteq Sensors
  /\ \A s, t \in Audio : s = t
  /\ "all" \notin Sensors
  /\ MaxCalls \in Nat /\ AppCalls \in Nat
  /\ Pipes \subseteq Nat

Workers == {"control", "app"}

VARIABLES
  sensorList,  \* the keys of sensor_list, in the order of the dictionary
  active,      \* sensor_active (a missing entry is FALSE)
  worker,      \* per worker, what it does: see Idling
  calls,       \* per worker, the calls begun
  sock,        \* aac_sensor.sock: the n-th socket made, 0 if there is none
  bound, shut, \* the sockets that have been bound to the port, and closed
  player,      \* aac_sensor.audio_process: the n-th process, 0 if none
  playing,     \* the processes that run
  pipe,        \* per pipe thread, its sensor, where it is, its socket in recvfrom
  \* history
  late,        \* packets of a pipe since its sensor was deactivated, up to 2
  told,        \* the pipe threads that go on after a stop() of their sensor
  failed       \* the sensors whose last pipe thread has died in send()

audioVars == <<sock, bound, shut, player, playing>>
pipeVars == <<pipe, late, told, failed>>
vars == <<sensorList, active, worker, calls, audioVars, pipeVars>>

\* pc: the next statement; op and s: the operation and its sensor; i and n: the
\* position of the loop over sensor_list and the length it began with (0: none).
Idling == [pc |-> "idle", op |-> "none", s |-> "all", i |-> 0, n |-> 0]
NoPipe == [s |-> "all", pc |-> "ended", sock |-> 0]

Init ==
  /\ sensorList = <<>>
  /\ active = [s \in Sensors |-> FALSE]
  /\ worker = [w \in Workers |-> Idling]
  /\ calls = [w \in Workers |-> 0]
  /\ sock = 0 /\ bound = {} /\ shut = {}
  /\ player = 0 /\ playing = {}
  /\ pipe = [p \in Pipes |-> NoPipe]
  /\ late = [p \in Pipes |-> 0] /\ told = {} /\ failed = {}

Registered(s) == \E i \in DOMAIN sensorList : sensorList[i] = s
Live(p, s) == pipe[p].s = s /\ pipe[p].pc \notin {"ended", "dead"}

At(w, pc) == worker[w].pc = pc
Goto(w, pc) == worker' = [worker EXCEPT ![w].pc = pc]
Raise(w) == Goto(w, "dead")
Return(w) ==
  worker' = [worker EXCEPT ![w] = IF @.n > 0 THEN [@ EXCEPT !.pc = "loop"] ELSE Idling]

\* Where the work on one sensor begins, and what each worker asks for.  END is
\* STOP of all sensors; FASTER, SLOWER and CONFIG_SENSOR only look the sensor up.
Entry == [START |-> "flag", FORCE |-> "flag", STOP |-> "clear", LOOK |-> "look",
          DISCOVER |-> "info"]

Asks(w) ==
  IF w = "control"
    THEN ({"START", "STOP", "LOOK"} \X (Sensors \cup {"all"})) \cup {<<"DISCOVER", "all">>}
    ELSE ({"START", "STOP", "FORCE"} \X Sensors) \cup ({"STOP", "DISCOVER"} \X {"all"})
------------------------------------------------------------------------------
(* The application registers its sensors *)

\* A sensor that is registered again, which counts as a call, keeps its place
\* (and is the same object).
Register(s) ==
  /\ At("app", "idle")
  /\ \/ /\ ~Registered(s)
        /\ sensorList' = Append(sensorList, s) /\ UNCHANGED calls
     \/ /\ Registered(s) /\ calls["app"] < AppCalls
        /\ calls' = [calls EXCEPT !["app"] = @ + 1] /\ UNCHANGED sensorList
  /\ worker' = [worker EXCEPT !["app"] = [Idling EXCEPT !.pc = "register", !.s = s]]
  /\ UNCHANGED <<active, audioVars, pipeVars>>

\* Mutant: a new sensor is active.
RegisterActive ==
  /\ At("app", "register")
  /\ active' = [active EXCEPT ![worker["app"].s] = TRUE]
  /\ Return("app")
  /\ UNCHANGED <<sensorList, calls, audioVars, pipeVars>>

RegisterInactive ==
  /\ At("app", "register")
  /\ active' = [active EXCEPT ![worker["app"].s] = FALSE]
  /\ Return("app")
  /\ UNCHANGED <<sensorList, calls, audioVars, pipeVars>>
------------------------------------------------------------------------------
(* A control message or a call: for one sensor, or for all *)

Ask(w, op, s) ==
  /\ At(w, "idle")
  /\ calls[w] < (IF w = "control" THEN MaxCalls ELSE AppCalls)
  /\ <<op, s>> \in Asks(w)
  /\ s = "all" => sensorList # <<>>
  /\ calls' = [calls EXCEPT ![w] = @ + 1]
  /\ worker' = [worker EXCEPT ![w] =
       IF s = "all"
         THEN [pc |-> "loop", op |-> op, s |-> s, i |-> 1, n |-> Len(sensorList)]
         ELSE [Idling EXCEPT !.pc = Entry[op], !.op = op, !.s = s]]
  /\ UNCHANGED <<sensorList, active, audioVars, pipeVars>>

\* The next key of the loop; RuntimeError when the dictionary has grown.
AskNext(w) ==
  LET v == worker[w] IN
  /\ At(w, "loop")
  /\ worker' = [worker EXCEPT ![w] =
       IF Len(sensorList) # v.n THEN [v EXCEPT !.pc = "dead"]
       ELSE IF v.i > v.n THEN (IF v.op = "DISCOVER" THEN [v EXCEPT !.pc = "dump"]
                                                   ELSE Idling)
       ELSE [v EXCEPT !.pc = Entry[v.op], !.s = sensorList[v.i], !.i = @ + 1]]
  /\ UNCHANGED <<sensorList, active, calls, audioVars, pipeVars>>

\* fast, slow, configure, and info in send_info.
Look(w) ==
  /\ At(w, "look") \/ At(w, "info")
  /\ IF Registered(worker[w].s) THEN Return(w) ELSE Raise(w)
  /\ UNCHANGED <<sensorList, active, calls, audioVars, pipeVars>>

\* info() hands out __dict__, which cbor2 cannot encode once it holds a socket.
Dump(w) ==
  /\ At(w, "dump")
  /\ IF sock # 0 /\ \E s \in Audio : Registered(s)
       THEN Raise(w)
       ELSE worker' = [worker EXCEPT ![w] = Idling]
  /\ UNCHANGED <<sensorList, active, calls, audioVars, pipeVars>>
------------------------------------------------------------------------------
(* start and force_start *)

\* sensor_active[sensor_id] = True, before the id is looked up.
StartFlag(w) ==
  LET v == worker[w] IN
  /\ At(w, "flag")
  /\ active' = [active EXCEPT ![v.s] = TRUE]
  /\ late' = [p \in Pipes |-> IF pipe[p].s = v.s THEN 0 ELSE late[p]]
  /\ Goto(w, IF v.op = "FORCE" THEN "thread" ELSE "start")
  /\ UNCHANGED <<sensorList, calls, audioVars, pipe, told, failed>>

\* The sensor's own start(); aac_sensor makes a new socket, ...
StartSensor(w) ==
  LET s == worker[w].s IN
  /\ At(w, "start")
  /\ IF ~Registered(s) THEN Raise(w) ELSE Goto(w, IF s \in Audio THEN "bind" ELSE "thread")
  /\ sock' = IF Registered(s) /\ s \in Audio THEN sock + 1 ELSE sock
  /\ UNCHANGED <<sensorList, active, calls, bound, shut, player, playing, pipeVars>>

\* The port is taken by the sensor's open socket, and by a socket that is closed
\* or forgotten while a thread is still in recvfrom on it.
PortTaken ==
  \E k \in bound :
    \/ k = sock /\ k \notin shut
    \/ \E p \in Pipes : pipe[p].pc = "recv" /\ pipe[p].sock = k

\* ... binds it, ...
StartBind(w) ==
  /\ At(w, "bind")
  /\ IF PortTaken \/ sock \in shut
       THEN Raise(w) /\ UNCHANGED bound
       ELSE Goto(w, "popen") /\ bound' = bound \cup {sock}
  /\ UNCHANGED <<sensorList, active, calls, sock, shut, player, playing, pipeVars>>

\* ... and starts ffmpeg.
StartPopen(w) ==
  /\ At(w, "popen")
  /\ player' = player + 1
  /\ playing' = playing \cup {player'}
  /\ Goto(w, "thread")
  /\ UNCHANGED <<sensorList, active, calls, sock, bound, shut, pipeVars>>

\* The thread begins; the first of those that have ended takes its place.
StartThread(w) ==
  /\ At(w, "thread")
  /\ \E p \in Pipes :
       /\ pipe[p].pc = "ended"
       /\ \A q \in Pipes : pipe[q].pc = "ended" => p <= q
       /\ pipe' = [pipe EXCEPT ![p] = [s |-> worker[w].s, pc |-> "begin", sock |-> 0]]
  /\ failed' = failed \ {worker[w].s}
  /\ Return(w)
  /\ UNCHANGED <<sensorList, active, calls, audioVars, late, told>>

Start(w) ==
  \/ StartFlag(w) \/ StartSensor(w) \/ StartBind(w) \/ StartPopen(w) \/ StartThread(w)
------------------------------------------------------------------------------
(* stop *)

StopFlag(w) ==
  /\ At(w, "clear")
  /\ active' = [active EXCEPT ![worker[w].s] = FALSE]
  /\ Goto(w, "stop")
  /\ told' = told \cup {p \in Pipes : Live(p, worker[w].s)}
  /\ UNCHANGED <<sensorList, calls, audioVars, pipe, late, failed>>

\* Mutant: aac_sensor closes the socket it may not have.
StopSensorAny(w) ==
  /\ At(w, "stop")
  /\ Goto(w, "kill")
  /\ shut' = shut \cup {sock}
  /\ UNCHANGED <<sensorList, active, calls, sock, bound, player, playing, pipeVars>>

\* The sensor's own stop(): aac_sensor closes its socket ...
StopSensor(w) ==
  LET s == worker[w].s IN
  /\ At(w, "stop")
  /\ IF ~Registered(s) THEN Raise(w) /\ UNCHANGED shut
     ELSE IF s \notin Audio THEN Return(w) /\ UNCHANGED shut
     ELSE IF sock = 0 THEN Raise(w) /\ UNCHANGED shut
     ELSE Goto(w, "kill") /\ shut' = shut \cup {sock}
  /\ UNCHANGED <<sensorList, active, calls, sock, bound, player, playing, pipeVars>>

\* ... and kills the process.
StopKill(w) ==
  /\ At(w, "kill")
  /\ IF player = 0 THEN Raise(w) ELSE Return(w)
  /\ playing' = playing \ {player}
  /\ UNCHANGED <<sensorList, active, calls, sock, bound, shut, player, pipeVars>>

Stop(w) == StopFlag(w) \/ StopSensor(w) \/ StopKill(w)
------------------------------------------------------------------------------
(* __send_data: a pipe thread *)

PipeMoves(p, from, to) ==
  /\ pipe[p].pc = from
  /\ pipe' = [pipe EXCEPT ![p].pc = to]
  /\ UNCHANGED <<sensorList, active, worker, calls, audioVars>>

PipeBegin(p) ==
  /\ PipeMoves(p, "begin", IF Registered(pipe[p].s) THEN "test" ELSE "dead")
  /\ UNCHANGED <<late, told, failed>>

\* A thread that ends takes its history with it.
PipeTest(p) ==
  \/ /\ PipeMoves(p, "test", "get")
     /\ active[pipe[p].s]
     /\ UNCHANGED <<late, told, failed>>
  \/ /\ pipe[p].pc = "test"
     /\ ~active[pipe[p].s]
     /\ pipe' = [pipe EXCEPT ![p] = NoPipe]
     /\ late' = [late EXCEPT ![p] = 0]
     /\ told' = told \ {p}
     /\ UNCHANGED <<sensorList, active, worker, calls, audioVars, failed>>

\* get_data(): aac_sensor raises on a missing or closed socket, and otherwise
\* enters recvfrom, ...
PipeGet(p) ==
  LET audio == pipe[p].s \in Audio IN
  /\ pipe[p].pc = "get"
  /\ pipe' = [pipe EXCEPT ![p].pc = IF ~audio THEN "send"
                                     ELSE IF sock \in shut \cup {0} THEN "dead" ELSE "recv",
                           ![p].sock = IF audio THEN sock ELSE 0]
  /\ UNCHANGED <<sensorList, active, worker, calls, audioVars, late, told, failed>>

\* ... from which closing the socket does not wake it: only a datagram does.
PipeRecv(p) ==
  /\ pipe[p].sock \in bound
  /\ playing # {}
  /\ PipeMoves(p, "recv", "send")
  /\ UNCHANGED <<late, told, failed>>

\* The packet is sent, or send() raises: PacketSender says when.
PipeSendThen(p, to) ==
  LET s == pipe[p].s IN
  \/ /\ PipeMoves(p, "send", to)
     /\ late' = IF active[s] THEN late ELSE [late EXCEPT ![p] = IF @ < 2 THEN @ + 1 ELSE 2]
     /\ UNCHANGED <<told, failed>>
  \/ /\ PipeMoves(p, "send", "dead")
     /\ failed' = IF \E q \in Pipes \ {p} : Live(q, s) THEN failed ELSE failed \cup {s}
     /\ late' = [late EXCEPT ![p] = 0]
     /\ told' = told \ {p}

\* Mutant: the flag is tested only before the first packet.
PipeSendOn(p) == PipeSendThen(p, "get")

PipeSend(p) == PipeSendThen(p, "test")

Pipe(p) ==
  PipeBegin(p) \/ PipeTest(p) \/ PipeGet(p) \/ PipeRecv(p) \/ PipeSend(p)
------------------------------------------------------------------------------
Next ==
  \/ \E s \in Sensors : Register(s)
  \/ RegisterInactive
  \/ \E w \in Workers :
       \/ \E op \in DOMAIN Entry, s \in Sensors \cup {"all"} : Ask(w, op, s)
       \/ AskNext(w) \/ Look(w) \/ Dump(w) \/ Start(w) \/ Stop(w)
  \/ \E p \in Pipes : Pipe(p)

Spec == Init /\ [][Next]_vars

\* A pipe thread that can run runs.
FairSpec == Spec /\ \A p \in Pipes : WF_vars(Pipe(p))
------------------------------------------------------------------------------
(* Properties *)

TypeOK ==
  /\ sensorList \in Seq(Sensors)
  /\ active \in [Sensors -> BOOLEAN]
  /\ \A w \in Workers :
       worker[w] \in [pc : {"idle", "register", "loop", "look", "info", "dump", "flag", "start",
                            "bind", "popen", "thread", "clear", "stop", "kill", "dead"},
                      op : DOMAIN Entry \cup {"none"}, s : Sensors \cup {"all"},
                      i : Nat, n : Nat]
  /\ {sock, player} \subseteq Nat
  /\ bound \cup shut \subseteq 1..sock
  /\ playing \subseteq 1..player
  /\ pipe \in [Pipes -> [s : Sensors \cup {"all"}, sock : 0..sock,
                 pc : {"begin", "test", "get", "recv", "send", "ended", "dead"}]]
  /\ late \in [Pipes -> 0..2] /\ told \subseteq Pipes /\ failed \subseteq Sensors

\* A worker is inside start() or register() of s.
Starting(s) ==
  \E w \in Workers : worker[w].s = s /\ worker[w].pc \in {"start", "thread", "register"}

\* A registered sensor that is active has a living thread that pipes its data, or
\* a worker that is about to begin one, or the last of its threads has died of an
\* exception in send(): whatever STARTs, STOPs and registrations cross, the flag
\* and the threads do not part for good.  (aac_sensor's thread may die elsewhere.)
ActiveMeansPiping ==
  \A s \in Sensors \ Audio :
    active[s] /\ Registered(s) =>
      Starting(s) \/ (\E p \in Pipes : Live(p, s)) \/ s \in failed

\* After stop() each thread sends at most the one packet it had begun.
AtMostOneLate == \A p \in Pipes : late[p] <= 1

\* A sensor that stays deactivated is not piped for ever; aac_sensor's thread
\* may stay in recvfrom.
StopEndsPipes ==
  \A s \in Sensors \ Audio : <>[]~active[s] => <>[](\A p \in Pipes : ~Live(p, s))

\* stop(): "this method will call stop() method of the sensor, and stop the
\* thread of piping data".  The threads it meets end.
StopStopsPiping == \A p \in Pipes : p \in told ~> p \notin told
==============================================================================
