--------------------------- MODULE BeltRipMonitor ---------------------------
(***************************************************************************)
(* The belt-rip monitor (edge/belt_rip_monitor/service.py, writeback.py,   *)
(* ai_client.py): a poll that reads the sensors, asks the AI service,      *)
(* falls back on the local detector and stops the belt, beside command     *)
(* tasks that stop it, resume it, set its speed, acknowledge its alarms    *)
(* and switch maintenance mode.  An action is what a task does from one    *)
(* await to the next.                                                      *)
(***************************************************************************)
EXTENDS BeltRipDetector, Integers

CONSTANTS
  Samples,   \* the samples the sensors may yield
  Commands,  \* handler tasks that may be in progress at once
  Speeds,    \* speeds an operator may ask for
  MaxSpeed,  \* _MAX_SPEED_SETPOINT_MS
  Ready,     \* samples after which a baseline is ready
  Fresh      \* _CACHE_TTL_S, in polls

ASSUME SamplesAssumption  == Samples \subseteq Sample
ASSUME CommandsAssumption == "poll" \notin Commands
ASSUME SpeedsAssumption   == Speeds \subseteq Int
ASSUME MaxSpeedAssumption == MaxSpeed \in Nat
ASSUME ReadyAssumption    == Ready \in Nat
ASSUME FreshAssumption    == Fresh \in Nat

Tasks == {"poll"} \cup Commands

\* What a task may be waiting for.
Ops == {"idle", "read", "predict", "stop", "resume", "speed", "acknowledge"}

VARIABLES
  config,       \* AI_ENABLED and EMERGENCY_STOP_ENABLED
  maintenance,  \* MAINTENANCE_MODE
  latched,      \* _emergency_active
  detection,    \* recommendation of _last_detection
  localSeen,    \* samples in the baselines of the service's detector
  fallbackSeen, \* samples in the baselines of the AI client's own detector
  cache,        \* _cache: a recommendation and its age in polls
  task,         \* what each task is waiting for
  connected,    \* OPCUAClient._connected
  estop,        \* plant: the emergency-stop coil
  setpoint      \* plant: the speed setpoint

\* History: a stop that set the latch did not reach the coil.
VARIABLE missed

memory == <<detection, localSeen, fallbackSeen, cache>>
plant == <<connected, estop, setpoint>>
vars == <<config, maintenance, latched, memory, task, plant, missed>>

NoResult == [result |-> "NORMAL", age |-> Fresh + 1]
Idle == [op |-> "idle", arg |-> 0]

Become(t, op, arg) == task' = [task EXCEPT ![t] = [op |-> op, arg |-> arg]]
Finish(t) == Become(t, "idle", 0)
InState(t, op) == task[t].op = op

\* One more sample in a baseline.
Counted(seen) == IF seen < Ready THEN seen + 1 ELSE seen

Older(c) == IF c.age <= Fresh THEN [c EXCEPT !.age = @ + 1] ELSE c

-----------------------------------------------------------------------------
(* The poll *)

PollStart ==
  /\ InState("poll", "idle")
  /\ connected
  /\ Become("poll", "read", 0)
  /\ UNCHANGED <<config, maintenance, latched, memory, plant, missed>>

MayStop == config.autoStop /\ ~maintenance /\ ~latched

\* From the detection to the end of the poll, or to the write of the coil.  The
\* latch is set before the write.
Conclude(result, conn) ==
  /\ detection' = result
  /\ IF result = "STOP" /\ MayStop
     THEN /\ latched' = TRUE
          /\ IF conn THEN Become("poll", "stop", 0) /\ UNCHANGED missed
                     ELSE Finish("poll") /\ missed' = TRUE
     ELSE Finish("poll") /\ UNCHANGED <<latched, missed>>

\* The sample is there: measured, or simulated when the read failed or there
\* was no connection.  Without AI the local detection is the detection.
Sense(s, conn) ==
  /\ localSeen' = Counted(localSeen)
  /\ cache' = Older(cache)
  /\ connected' = conn
  /\ IF config.ai
     THEN Become("poll", "predict", s) /\ UNCHANGED <<detection, latched, missed>>
     ELSE Conclude(Detect(s, localSeen >= Ready), conn)
  /\ UNCHANGED <<config, maintenance, fallbackSeen, estop, setpoint>>

PollMeasures(s) == InState("poll", "read") /\ Sense(s, connected)

PollSimulates(s) ==
  /\ InState("poll", "read") \/ (InState("poll", "idle") /\ ~connected)
  /\ Sense(s, FALSE)

\* What an answer may recommend: something the detector knows, or another word.
Answers == Recommendation \cup {"OTHER"}

Parsed(answer) == IF answer \in Recommendation THEN answer ELSE "MONITOR"

\* The AI service answers; its result replaces the local one.
AiAnswers(result) ==
  /\ InState("poll", "predict")
  /\ cache' = [result |-> result, age |-> 0]
  /\ fallbackSeen' = Counted(fallbackSeen)
  /\ Conclude(result, connected)
  /\ UNCHANGED <<config, maintenance, localSeen, plant>>

\* Timeout, HTTP error or no route: the cached answer while it is fresh.
AiCached ==
  /\ InState("poll", "predict")
  /\ cache.age <= Fresh
  /\ Conclude(cache.result, connected)
  /\ UNCHANGED <<config, maintenance, localSeen, fallbackSeen, cache, plant>>

\* No fresh answer, or an unexpected error, which does not look at the cache.
AiFallsBack ==
  /\ InState("poll", "predict")
  /\ fallbackSeen' = Counted(fallbackSeen)
  /\ Conclude(Detect(task["poll"].arg, fallbackSeen >= Ready), connected)
  /\ UNCHANGED <<config, maintenance, localSeen, cache, plant>>

Poll ==
  \/ PollStart
  \/ \E s \in Samples : PollMeasures(s) \/ PollSimulates(s)
  \/ \E answer \in Answers : AiAnswers(Parsed(answer))
  \/ AiCached
  \/ AiFallsBack

-----------------------------------------------------------------------------
(* handle_command *)

\* Suppressed in maintenance mode, or with the client disconnected: the latch
\* is set all the same, at once.
EmergencyStop(c) ==
  /\ InState(c, "idle")
  /\ IF maintenance \/ ~connected
     THEN latched' = TRUE /\ missed' = (missed \/ ~estop) /\ UNCHANGED task
     ELSE Become(c, "stop", 0) /\ UNCHANGED <<latched, missed>>
  /\ UNCHANGED <<config, maintenance, memory, plant>>

\* Refused in maintenance mode, but the latch is cleared all the same.
Resume(c) ==
  /\ InState(c, "idle")
  /\ IF maintenance \/ ~connected
     THEN latched' = FALSE /\ missed' = FALSE /\ UNCHANGED task
     ELSE Become(c, "resume", 0) /\ UNCHANGED <<latched, missed>>
  /\ UNCHANGED <<config, maintenance, memory, plant>>

Clamped(v) == IF v > MaxSpeed THEN MaxSpeed ELSE v

\* A negative speed fails; maintenance mode is not consulted.
SetSpeed(c, v) ==
  /\ InState(c, "idle")
  /\ v >= 0
  /\ connected
  /\ Become(c, "speed", Clamped(v))
  /\ UNCHANGED <<config, maintenance, latched, memory, plant, missed>>

\* Without a connection the write fails at once, and nothing changes.
AcknowledgeAlarm(c) ==
  /\ InState(c, "idle")
  /\ connected
  /\ Become(c, "acknowledge", 0)
  /\ UNCHANGED <<config, maintenance, latched, memory, plant, missed>>

SetMaintenance(c, enabled) ==
  /\ InState(c, "idle")
  /\ maintenance' = enabled
  /\ UNCHANGED <<config, latched, memory, task, plant, missed>>

Command ==
  \E c \in Commands :
    \/ EmergencyStop(c)
    \/ Resume(c)
    \/ AcknowledgeAlarm(c)
    \/ \E v \in Speeds : SetSpeed(c, v)
    \/ \E enabled \in BOOLEAN : SetMaintenance(c, enabled)

-----------------------------------------------------------------------------
(* Answers to writes: done, or failed with the client marked disconnected *)

\* A stop by command sets the latch when its write is over.
Latch(t) == latched' = IF t = "poll" THEN latched ELSE TRUE

\* MUTANT: a failed write is reported as a success.
StopWrittenBlind(t) ==
  /\ InState(t, "stop")
  /\ Latch(t)
  /\ Finish(t)
  /\ UNCHANGED <<config, maintenance, memory, plant, missed>>

StopWritten(t) ==
  /\ InState(t, "stop")
  /\ estop' = TRUE
  /\ missed' = FALSE
  /\ Latch(t)
  /\ Finish(t)
  /\ UNCHANGED <<config, maintenance, memory, connected, setpoint>>

StopFailed(t) ==
  /\ InState(t, "stop")
  /\ \E applied \in BOOLEAN :
       /\ estop' = (estop \/ applied)
       /\ missed' = ~estop'
  /\ connected' = FALSE
  /\ Latch(t)
  /\ Finish(t)
  /\ UNCHANGED <<config, maintenance, memory, setpoint>>


ResumeWritten(t) ==
  /\ InState(t, "resume")
  /\ estop' = FALSE
  /\ latched' = FALSE
  /\ missed' = FALSE
  /\ Finish(t)
  /\ UNCHANGED <<config, maintenance, memory, connected, setpoint>>

\* The latch is cleared even if the coil was not.
ResumeFailed(t) ==
  /\ InState(t, "resume")
  /\ \E applied \in BOOLEAN : estop' = (estop /\ ~applied)
  /\ connected' = FALSE
  /\ latched' = FALSE
  /\ missed' = FALSE
  /\ Finish(t)
  /\ UNCHANGED <<config, maintenance, memory, setpoint>>

SpeedWritten(t) ==
  /\ InState(t, "speed")
  /\ setpoint' = task[t].arg
  /\ Finish(t)
  /\ UNCHANGED <<config, maintenance, latched, memory, connected, estop, missed>>

SpeedFailed(t) ==
  /\ InState(t, "speed")
  /\ \E applied \in BOOLEAN : setpoint' = IF applied THEN task[t].arg ELSE setpoint
  /\ connected' = FALSE
  /\ Finish(t)
  /\ UNCHANGED <<config, maintenance, latched, memory, estop, missed>>

AlarmAcknowledged(t) ==
  /\ InState(t, "acknowledge")
  /\ connected' \in {connected, FALSE}
  /\ Finish(t)
  /\ UNCHANGED <<config, maintenance, latched, memory, estop, setpoint, missed>>

Answer(t) ==
  \/ StopWritten(t) \/ StopFailed(t)
  \/ ResumeWritten(t) \/ ResumeFailed(t)
  \/ SpeedWritten(t) \/ SpeedFailed(t)
  \/ AlarmAcknowledged(t)

Reconnect ==
  /\ ~connected
  /\ connected' = TRUE
  /\ UNCHANGED <<config, maintenance, latched, memory, task, estop, setpoint, missed>>

KeepaliveFails ==
  /\ connected
  /\ connected' = FALSE
  /\ UNCHANGED <<config, maintenance, latched, memory, task, estop, setpoint, missed>>

-----------------------------------------------------------------------------

Init ==
  /\ config \in [ai: BOOLEAN, autoStop: BOOLEAN]
  /\ maintenance = FALSE
  /\ latched = FALSE
  /\ detection = "NORMAL"
  /\ localSeen = 0
  /\ fallbackSeen = 0
  /\ cache = NoResult
  /\ task = [t \in Tasks |-> Idle]
  /\ connected = TRUE
  /\ estop = FALSE
  /\ setpoint = 0
  /\ missed = FALSE

Next ==
  \/ Poll
  \/ Command
  \/ \E t \in Tasks : Answer(t)
  \/ Reconnect
  \/ KeepaliveFails

Spec == Init /\ [][Next]_vars

\* The poll loop goes on, requests are answered or time out, and the reconnect
\* loop keeps trying.
FairSpec ==
  /\ Spec
  /\ WF_vars(Poll)
  /\ WF_vars(Reconnect)
  /\ \A t \in Tasks : WF_vars(Answer(t))

-----------------------------------------------------------------------------
(* Properties *)

\* What tasks wait for has its type; a setpoint on its way is within the limit.
TasksOK ==
  /\ DOMAIN task = Tasks
  /\ \A t \in Tasks : task[t].op \in Ops
  /\ \A t \in Tasks : task[t].op = "speed" => task[t].arg \in 0 .. MaxSpeed

\* Every variable has its type, and the setpoint stays within the hard limit
\* whatever speeds operators ask for.
TypeOK ==
  /\ config \in [ai: BOOLEAN, autoStop: BOOLEAN]
  /\ maintenance \in BOOLEAN
  /\ latched \in BOOLEAN
  /\ detection \in Recommendation
  /\ localSeen \in 0 .. Ready
  /\ fallbackSeen \in 0 .. localSeen
  /\ cache \in [result: Recommendation, age: 0 .. Fresh + 1]
  /\ TasksOK
  /\ connected \in BOOLEAN
  /\ estop \in BOOLEAN
  /\ setpoint \in 0 .. MaxSpeed
  /\ missed \in BOOLEAN

\* The latch, which keeps the poll from stopping the belt again, is set only with
\* the coil set or a write of it under way, but for the stops the code loses:
\* those that fail and those suppressed by maintenance mode.
LatchMeansStopped ==
  latched /\ (\A t \in Tasks : ~InState(t, "stop") /\ ~InState(t, "resume"))
    => estop \/ missed

\* A detection that calls for a stop ends with the coil set unless the stop was
\* lost, the operator intervenes (maintenance mode, a resume) or a later detection
\* says otherwise.
RipLeadsToStop ==
  detection = "STOP" /\ config.autoStop /\ ~maintenance
    ~> \/ estop
       \/ missed
       \/ maintenance
       \/ detection # "STOP"
       \/ \E c \in Commands : InState(c, "resume")


\* edge/belt_rip_monitor/config.py:50 "Automatically trigger emergency stop when
\* rip detected": if from some time on every detection calls for a stop, nobody
\* sends commands, maintenance mode is off and the connection holds, the coil is
\* set in the end.
DetectedRipStopsBelt ==
  <>[](/\ detection = "STOP"
       /\ config.autoStop
       /\ ~maintenance
       /\ connected
       /\ \A c \in Commands : InState(c, "idle"))
    => <>estop
=============================================================================
