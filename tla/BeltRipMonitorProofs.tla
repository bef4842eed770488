------------------------ MODULE BeltRipMonitorProofs ------------------------
(***************************************************************************)
(* Proofs about the belt-rip monitor: what the detector's recommendation   *)
(* depends on, and the invariants of the service for every number of       *)
(* command tasks, every sample and every limit.                            *)
(***************************************************************************)
EXTENDS BeltRipMonitor, TLAPS

(* The detector *)

\* detector.py, _recommend: more anomalies never make the recommendation milder.
THEOREM RecommendMonotone ==
  ASSUME NEW s \in Sample, NEW t \in Sample, AtLeast(t, s)
  PROVE  Severity(Recommend(t)) >= Severity(Recommend(s))
  <1>1. Composite(t) >= Composite(s)
    BY DEF AtLeast, Composite, Sample
  <1>2. Composite(s) \in Nat /\ Composite(t) \in Nat
    BY DEF Composite, Sample
  <1> QED
    BY <1>1, <1>2, ThresholdAssumption DEF AtLeast, Recommend, Severity, Sample

\* detector.py, _recommend: above 0.7, which load, speed and all the magnetic
\* channels reach together, the threshold never decides: a stop takes a magnetic
\* and an acoustic anomaly.
THEOREM HighThresholdNeedsBoth ==
  ASSUME Threshold > 140, NEW s \in Sample
  PROVE  Recommend(s) = "STOP" <=> s.magnetic > 0 /\ s.acoustic > 0
  <1>1. s.magnetic \in 0 .. 8 /\ s.acoustic \in 0 .. 4
    BY DEF Sample
  <1>2. ~(s.magnetic > 0 /\ s.acoustic > 0) => Composite(s) <= 140
    BY <1>1 DEF Composite
  <1>3. Composite(s) \in Nat
    BY <1>1 DEF Composite
  <1> QED
    BY <1>2, <1>3, ThresholdAssumption DEF Recommend

\* ai_client.py, _local_predict: until the baselines are ready the fallback never
\* calls for a stop, with any threshold the load cells alone do not reach.
THEOREM NoStopBeforeReady ==
  ASSUME Threshold > 40, NEW s \in Sample
  PROVE  Detect(s, FALSE) # "STOP"
  <1> DEFINE j == Judged(s, FALSE)
  <1>1. j = [magnetic |-> 0, acoustic |-> 0, load |-> s.load, speed |-> FALSE]
    BY DEF Judged
  <1> HIDE DEF j
  <1>2. j.magnetic = 0 /\ j.acoustic = 0 /\ j.speed = FALSE
    BY <1>1
  <1>3. Composite(j) = IF j.load THEN 40 ELSE 0
    BY <1>2 DEF Composite
  <1>4. Recommend(j) # "STOP"
    BY <1>2, <1>3, ThresholdAssumption DEF Recommend
  <1> QED
    BY <1>4 DEF Detect, j

-----------------------------------------------------------------------------
(* The service *)

LEMMA RecommendType == \A s : Recommend(s) \in Recommendation
  BY DEF Recommend, Recommendation

LEMMA DetectType == \A s, ready : Detect(s, ready) \in Recommendation
  BY RecommendType DEF Detect

LEMMA ParsedType == \A answer : Parsed(answer) \in Recommendation
  BY DEF Parsed, Recommendation

LEMMA CountedType ==
  ASSUME NEW n \in 0 .. Ready
  PROVE  Counted(n) \in 0 .. Ready /\ Counted(n) >= n /\ (n < Ready => Counted(n) = n + 1)
  BY ReadyAssumption DEF Counted

\* While the AI service is asked, the client's own detector has not seen the
\* sample that the service's detector has.
BaselineInv ==
  InState("poll", "predict") /\ fallbackSeen < Ready => fallbackSeen < localSeen

IInv == TypeOK /\ BaselineInv /\ LatchMeansStopped

LEMMA InitIInv == Init => IInv
  <1> SUFFICES ASSUME Init PROVE IInv
    OBVIOUS
  <1>1. task = [t \in Tasks |-> Idle] /\ Idle.op = "idle"
    BY DEF Init, Idle
  <1>2. \A t \in Tasks : task[t].op = "idle"
    BY <1>1
  <1>3. cache \in [result: Recommendation, age: 0 .. Fresh + 1]
    BY FreshAssumption DEF Init, NoResult, Recommendation
  <1>4. TasksOK
    BY <1>1, <1>2 DEF TasksOK, Ops
  <1>5. TypeOK
    <2>1. /\ config \in [ai: BOOLEAN, autoStop: BOOLEAN]
          /\ maintenance \in BOOLEAN /\ latched \in BOOLEAN /\ connected \in BOOLEAN
          /\ estop \in BOOLEAN /\ missed \in BOOLEAN
      BY DEF Init
    <2>2. localSeen \in 0 .. Ready /\ fallbackSeen \in 0 .. localSeen /\ setpoint \in 0 .. MaxSpeed
      BY ReadyAssumption, MaxSpeedAssumption DEF Init
    <2>3. detection \in Recommendation
      BY DEF Init, Recommendation
    <2> QED
      BY <1>3, <1>4, <2>1, <2>2, <2>3 DEF TypeOK
  <1>6. BaselineInv /\ LatchMeansStopped
    BY <1>2 DEF Init, BaselineInv, LatchMeansStopped, InState, Tasks
  <1> QED
    BY <1>5, <1>6 DEF IInv

\* A task that goes on to wait for something keeps the types of all tasks, and
\* the other tasks stay where they are.
LEMMA BecomeFacts ==
  ASSUME TasksOK, NEW t \in Tasks, NEW op, NEW arg, Become(t, op, arg),
         op \in Ops,
         op = "speed" => arg \in 0 .. MaxSpeed
  PROVE  /\ TasksOK'
         /\ task'[t].op = op
         /\ \A u \in Tasks \ {t} : task'[u] = task[u]
  BY DEF TasksOK, Become, Ops

LEMMA FinishFacts ==
  ASSUME TasksOK, NEW t \in Tasks, Finish(t)
  PROVE  /\ TasksOK'
         /\ task'[t].op = "idle"
         /\ \A u \in Tasks \ {t} : task'[u] = task[u]
  <1>1. Become(t, "idle", 0)
    BY DEF Finish
  <1> QED
    BY <1>1, BecomeFacts DEF Ops

\* The end of a poll: the detection is kept, and the belt is stopped, the stop is
\* lost, or the poll is over.
LEMMA ConcludeFacts ==
  ASSUME TypeOK, LatchMeansStopped, NEW result \in Recommendation, NEW conn \in BOOLEAN,
         Conclude(result, conn), UNCHANGED estop,
         ~InState("poll", "stop"), ~InState("poll", "resume")
  PROVE  /\ TasksOK'
         /\ detection' \in Recommendation
         /\ latched' \in BOOLEAN /\ missed' \in BOOLEAN
         /\ ~InState("poll", "predict")'
         /\ InState("poll", "stop")' => ~maintenance /\ ~latched /\ latched'
         /\ \A u \in Commands : task'[u] = task[u]
         /\ LatchMeansStopped'
  <1>1. "poll" \in Tasks /\ Commands = Tasks \ {"poll"} /\ TasksOK
    BY CommandsAssumption DEF Tasks, TypeOK
  <1>2. CASE result = "STOP" /\ MayStop /\ conn
    <2>1. Become("poll", "stop", 0) /\ latched' = TRUE /\ missed' = missed
      BY <1>2 DEF Conclude
    <2>2. /\ TasksOK' /\ task'["poll"].op = "stop"
          /\ \A u \in Tasks \ {"poll"} : task'[u] = task[u]
      BY <1>1, <2>1, BecomeFacts DEF Ops
    <2> QED
      BY <1>1, <1>2, <2>1, <2>2 DEF Conclude, MayStop, InState, LatchMeansStopped, TypeOK
  <1>3. CASE result = "STOP" /\ MayStop /\ ~conn
    <2>1. Finish("poll") /\ latched' = TRUE /\ missed' = TRUE
      BY <1>3 DEF Conclude
    <2>2. /\ TasksOK' /\ task'["poll"].op = "idle"
          /\ \A u \in Tasks \ {"poll"} : task'[u] = task[u]
      BY <1>1, <2>1, FinishFacts
    <2> QED
      BY <1>1, <1>3, <2>1, <2>2 DEF Conclude, InState, LatchMeansStopped
  <1>4. CASE ~(result = "STOP" /\ MayStop)
    <2>1. Finish("poll") /\ latched' = latched /\ missed' = missed
      BY <1>4 DEF Conclude
    <2>2. /\ TasksOK' /\ task'["poll"].op = "idle"
          /\ \A u \in Tasks \ {"poll"} : task'[u] = task[u]
      BY <1>1, <2>1, FinishFacts
    <2> QED
      BY <1>1, <1>4, <2>1, <2>2 DEF Conclude, InState, LatchMeansStopped, TypeOK
  <1> QED
    BY <1>2, <1>3, <1>4

LEMMA OlderType ==
  ASSUME NEW c \in [result: Recommendation, age: 0 .. Fresh + 1]
  PROVE  Older(c) \in [result: Recommendation, age: 0 .. Fresh + 1]
  BY FreshAssumption DEF Older

\* The first half of a poll, up to the request of the AI service or to the end.
LEMMA SenseIInv ==
  ASSUME IInv, NEW s, NEW conn \in BOOLEAN, Sense(s, conn),
         ~InState("poll", "stop"), ~InState("poll", "resume")
  PROVE  IInv'
  <1>1. TypeOK /\ BaselineInv /\ LatchMeansStopped /\ TasksOK
    BY DEF IInv, TypeOK
  <1>2. localSeen \in 0 .. Ready /\ fallbackSeen \in 0 .. localSeen
    BY <1>1 DEF TypeOK
  <1>3. /\ localSeen' \in 0 .. Ready /\ localSeen' >= localSeen
        /\ localSeen < Ready => localSeen' = localSeen + 1
    BY <1>2, CountedType DEF Sense
  <1>4. fallbackSeen' = fallbackSeen /\ fallbackSeen' \in 0 .. localSeen'
    BY <1>2, <1>3, ReadyAssumption DEF Sense
  <1>5. cache' \in [result: Recommendation, age: 0 .. Fresh + 1]
    BY <1>1, OlderType DEF Sense, TypeOK
  <1>6. UNCHANGED <<config, maintenance, estop, setpoint>> /\ connected' \in BOOLEAN
    BY DEF Sense
  <1>7. /\ TasksOK' /\ LatchMeansStopped'
        /\ detection' \in Recommendation /\ latched' \in BOOLEAN /\ missed' \in BOOLEAN
    <2>1. CASE config.ai
      <3>1. Become("poll", "predict", s) /\ UNCHANGED <<detection, latched, missed>>
        BY <2>1 DEF Sense
      <3>2. "poll" \in Tasks
        BY DEF Tasks
      <3>3. /\ TasksOK' /\ task'["poll"].op = "predict"
            /\ \A u \in Tasks \ {"poll"} : task'[u] = task[u]
        BY <1>1, <3>1, <3>2, BecomeFacts DEF Ops
      <3> QED
        BY <1>1, <1>6, <3>1, <3>3 DEF TypeOK, LatchMeansStopped, InState
    <2>2. CASE ~config.ai
      <3>1. Conclude(Detect(s, localSeen >= Ready), conn)
        BY <2>2 DEF Sense
      <3> QED
        BY <1>1, <1>6, <3>1, DetectType, ConcludeFacts
    <2> QED
      BY <2>1, <2>2
  <1>8. BaselineInv'
    BY <1>2, <1>3, <1>4, ReadyAssumption DEF BaselineInv
  <1> QED
    BY <1>1, <1>3, <1>4, <1>5, <1>6, <1>7, <1>8 DEF IInv, TypeOK

\* The second half of a poll that asked the AI service.
LEMMA PredictedIInv ==
  ASSUME IInv, NEW result \in Recommendation, Conclude(result, connected), InState("poll", "predict"),
         UNCHANGED <<config, maintenance, localSeen, plant>>,
         cache' \in [result: Recommendation, age: 0 .. Fresh + 1],
         fallbackSeen' = fallbackSeen \/ fallbackSeen' = Counted(fallbackSeen)
  PROVE  IInv'
  <1>1. TypeOK /\ BaselineInv /\ LatchMeansStopped
    BY DEF IInv
  <1>2. localSeen \in 0 .. Ready /\ fallbackSeen \in 0 .. localSeen /\ fallbackSeen \in 0 .. Ready
    BY <1>1, ReadyAssumption DEF TypeOK
  <1>3. fallbackSeen' \in 0 .. localSeen'
    <2>1. fallbackSeen < Ready => fallbackSeen < localSeen
      BY <1>1 DEF BaselineInv
    <2> QED
      BY <1>2, <2>1, ReadyAssumption DEF Counted
  <1>4. ~InState("poll", "stop") /\ ~InState("poll", "resume")
    BY DEF InState
  <1>5. connected \in BOOLEAN /\ UNCHANGED estop
    BY <1>1 DEF TypeOK, plant
  <1>6. /\ TasksOK' /\ LatchMeansStopped'
        /\ detection' \in Recommendation /\ latched' \in BOOLEAN /\ missed' \in BOOLEAN
        /\ ~InState("poll", "predict")'
    BY <1>1, <1>4, <1>5, ConcludeFacts
  <1>7. BaselineInv'
    BY <1>6 DEF BaselineInv
  <1> QED
    BY <1>1, <1>2, <1>3, <1>6, <1>7 DEF IInv, TypeOK, plant

\* What the steps of a command or of an answer have to keep: they leave the
\* baselines and the cache alone, and start no request of the AI service.
LEMMA HandlerIInv ==
  ASSUME IInv, UNCHANGED <<config, memory>>,
         TasksOK', LatchMeansStopped',
         InState("poll", "predict")' => InState("poll", "predict"),
         maintenance' \in BOOLEAN, latched' \in BOOLEAN, missed' \in BOOLEAN,
         connected' \in BOOLEAN, estop' \in BOOLEAN, setpoint' \in 0 .. MaxSpeed
  PROVE  IInv'
  <1>1. TypeOK /\ BaselineInv
    BY DEF IInv
  <1>2. BaselineInv'
    BY <1>1 DEF BaselineInv, memory
  <1> QED
    BY <1>1, <1>2 DEF IInv, TypeOK, memory

\* The end of a write: the task is idle again, and no other task moved.
LEMMA AnswerFacts ==
  ASSUME TasksOK, NEW t \in Tasks, Finish(t)
  PROVE  /\ TasksOK'
         /\ ~InState(t, "stop")' /\ ~InState(t, "resume")'
         /\ InState("poll", "predict")' => InState("poll", "predict")
         /\ \A u \in Tasks \ {t} : task'[u] = task[u]
  <1>1. /\ TasksOK' /\ task'[t].op = "idle"
        /\ \A u \in Tasks \ {t} : task'[u] = task[u]
    BY FinishFacts
  <1>2. InState("poll", "predict")' => InState("poll", "predict")
    BY <1>1 DEF InState, Tasks
  <1> QED
    BY <1>1, <1>2 DEF InState

\* The start of a write by an idle command.
LEMMA StartFacts ==
  ASSUME TasksOK, NEW c \in Commands, NEW op \in {"stop", "resume", "speed", "acknowledge"}, NEW arg,
         Become(c, op, arg), op = "speed" => arg \in 0 .. MaxSpeed
  PROVE  /\ TasksOK'
         /\ task'[c].op = op
         /\ InState("poll", "predict")' => InState("poll", "predict")
         /\ \A u \in Tasks \ {c} : task'[u] = task[u]
  <1>1. c \in Tasks /\ "poll" \in Tasks \ {c}
    BY CommandsAssumption DEF Tasks
  <1>2. /\ TasksOK' /\ task'[c].op = op
        /\ \A u \in Tasks \ {c} : task'[u] = task[u]
    BY <1>1, BecomeFacts DEF Ops
  <1> QED
    BY <1>1, <1>2 DEF InState

LEMMA PollIInv ==
  ASSUME IInv, Poll
  PROVE  IInv'
  <1>1. TypeOK /\ LatchMeansStopped /\ TasksOK /\ connected \in BOOLEAN
    BY DEF IInv, TypeOK
  <1>2. CASE PollStart
    <2>1. InState("poll", "idle") /\ Become("poll", "read", 0) /\ "poll" \in Tasks
      BY <1>2 DEF PollStart, Tasks
    <2>2. /\ TasksOK' /\ task'["poll"].op = "read"
          /\ \A u \in Tasks \ {"poll"} : task'[u] = task[u]
      BY <1>1, <2>1, BecomeFacts DEF Ops
    <2>3. UNCHANGED <<config, maintenance, latched, memory, plant, missed>>
      BY <1>2 DEF PollStart
    <2>4. LatchMeansStopped'
      BY <1>1, <2>1, <2>2, <2>3 DEF LatchMeansStopped, InState, plant
    <2>5. ~InState("poll", "predict")'
      BY <2>2 DEF InState
    <2> QED
      BY <1>1, <2>2, <2>3, <2>4, <2>5, HandlerIInv DEF TypeOK, plant
  <1>3. ASSUME NEW s \in Samples, PollMeasures(s) \/ PollSimulates(s)
        PROVE  IInv'
    <2>1. ~InState("poll", "stop") /\ ~InState("poll", "resume")
      BY <1>3 DEF PollMeasures, PollSimulates, InState
    <2>2. PICK conn \in BOOLEAN : Sense(s, conn)
      BY <1>1, <1>3 DEF PollMeasures, PollSimulates
    <2> QED
      BY <2>1, <2>2, SenseIInv
  <1>4. ASSUME NEW answer \in Answers, AiAnswers(Parsed(answer))
        PROVE  IInv'
    <2>1. cache' \in [result: Recommendation, age: 0 .. Fresh + 1]
      BY <1>4, ParsedType, FreshAssumption DEF AiAnswers
    <2> QED
      BY <1>4, <2>1, ParsedType, PredictedIInv DEF AiAnswers
  <1>5. CASE AiCached
    <2>1. cache.result \in Recommendation /\ cache' \in [result: Recommendation, age: 0 .. Fresh + 1]
      BY <1>1, <1>5 DEF AiCached, TypeOK
    <2> QED
      BY <1>5, <2>1, PredictedIInv DEF AiCached
  <1>6. CASE AiFallsBack
    <2>1. cache' \in [result: Recommendation, age: 0 .. Fresh + 1]
      BY <1>1, <1>6 DEF AiFallsBack, TypeOK
    <2>2. Detect(task["poll"].arg, fallbackSeen >= Ready) \in Recommendation
      BY DetectType
    <2> QED
      BY <1>6, <2>1, <2>2, PredictedIInv DEF AiFallsBack
  <1> QED
    BY <1>2, <1>3, <1>4, <1>5, <1>6 DEF Poll

LEMMA CommandIInv ==
  ASSUME IInv, Command
  PROVE  IInv'
  <1>1. TypeOK /\ LatchMeansStopped /\ TasksOK
    BY DEF IInv, TypeOK
  <1>2. PICK c \in Commands :
          \/ EmergencyStop(c)
          \/ Resume(c)
          \/ AcknowledgeAlarm(c)
          \/ \E v \in Speeds : SetSpeed(c, v)
          \/ \E enabled \in BOOLEAN : SetMaintenance(c, enabled)
    BY DEF Command
  <1>3. c \in Tasks
    BY DEF Tasks
  <1>4. CASE EmergencyStop(c)
    <2>1. UNCHANGED <<config, maintenance, memory, plant>>
      BY <1>4 DEF EmergencyStop
    <2>2. CASE maintenance \/ ~connected
      <3>1. latched' = TRUE /\ missed' = (missed \/ ~estop) /\ UNCHANGED task
        BY <1>4, <2>2 DEF EmergencyStop
      <3>2. TasksOK'
        BY <1>1, <3>1 DEF TasksOK
      <3>3. LatchMeansStopped'
        BY <2>1, <3>1 DEF LatchMeansStopped, plant
      <3>4. InState("poll", "predict")' => InState("poll", "predict")
        BY <3>1 DEF InState
      <3>5. missed' \in BOOLEAN
        BY <1>1, <3>1 DEF TypeOK
      <3> QED
        BY <1>1, <2>1, <3>1, <3>2, <3>3, <3>4, <3>5, HandlerIInv DEF TypeOK, plant
    <2>3. CASE ~(maintenance \/ ~connected)
      <3>1. Become(c, "stop", 0) /\ UNCHANGED <<latched, missed>>
        BY <1>4, <2>3 DEF EmergencyStop
      <3>2. /\ TasksOK' /\ task'[c].op = "stop"
            /\ InState("poll", "predict")' => InState("poll", "predict")
        BY <1>1, <3>1, StartFacts
      <3>3. LatchMeansStopped'
        BY <1>3, <3>2 DEF LatchMeansStopped, InState
      <3> QED
        BY <1>1, <2>1, <3>1, <3>2, <3>3, HandlerIInv DEF TypeOK, plant
    <2> QED
      BY <2>2, <2>3
  <1>5. CASE Resume(c)
    <2>1. UNCHANGED <<config, maintenance, memory, plant>>
      BY <1>5 DEF Resume
    <2>2. CASE maintenance \/ ~connected
      <3>1. latched' = FALSE /\ missed' = FALSE /\ UNCHANGED task
        BY <1>5, <2>2 DEF Resume
      <3>2. TasksOK'
        BY <1>1, <3>1 DEF TasksOK
      <3>3. LatchMeansStopped' /\ (InState("poll", "predict")' => InState("poll", "predict"))
        BY <3>1 DEF LatchMeansStopped, InState
      <3> QED
        BY <1>1, <2>1, <3>1, <3>2, <3>3, HandlerIInv DEF TypeOK, plant
    <2>3. CASE ~(maintenance \/ ~connected)
      <3>1. Become(c, "resume", 0) /\ UNCHANGED <<latched, missed>>
        BY <1>5, <2>3 DEF Resume
      <3>2. /\ TasksOK' /\ task'[c].op = "resume"
            /\ InState("poll", "predict")' => InState("poll", "predict")
        BY <1>1, <3>1, StartFacts
      <3>3. LatchMeansStopped'
        BY <1>3, <3>2 DEF LatchMeansStopped, InState
      <3> QED
        BY <1>1, <2>1, <3>1, <3>2, <3>3, HandlerIInv DEF TypeOK, plant
    <2> QED
      BY <2>2, <2>3
  <1>6. ASSUME NEW v \in Speeds, SetSpeed(c, v)
        PROVE  IInv'
    <2>1. /\ InState(c, "idle") /\ v >= 0 /\ Become(c, "speed", Clamped(v))
          /\ UNCHANGED <<config, maintenance, latched, memory, plant, missed>>
      BY <1>6 DEF SetSpeed
    <2>2. Clamped(v) \in 0 .. MaxSpeed
      BY <2>1, SpeedsAssumption, MaxSpeedAssumption DEF Clamped
    <2>3. /\ TasksOK' /\ task'[c].op = "speed"
          /\ InState("poll", "predict")' => InState("poll", "predict")
          /\ \A u \in Tasks \ {c} : task'[u] = task[u]
      BY <1>1, <2>1, <2>2, StartFacts
    <2>4. LatchMeansStopped'
      BY <1>1, <2>1, <2>3 DEF LatchMeansStopped, InState, plant
    <2> QED
      BY <1>1, <2>1, <2>3, <2>4, HandlerIInv DEF TypeOK, plant
  <1>7. ASSUME NEW enabled \in BOOLEAN, SetMaintenance(c, enabled)
        PROVE  IInv'
    <2>1. maintenance' = enabled /\ UNCHANGED <<config, latched, memory, task, plant, missed>>
      BY <1>7 DEF SetMaintenance
    <2>2. TasksOK'
      BY <1>1, <2>1 DEF TasksOK
    <2>3. LatchMeansStopped' /\ (InState("poll", "predict")' => InState("poll", "predict"))
      BY <1>1, <2>1 DEF LatchMeansStopped, InState, plant
    <2> QED
      BY <1>1, <2>1, <2>2, <2>3, HandlerIInv DEF TypeOK, plant
  <1>8. CASE AcknowledgeAlarm(c)
    <2>1. /\ InState(c, "idle") /\ Become(c, "acknowledge", 0)
          /\ UNCHANGED <<config, maintenance, latched, memory, plant, missed>>
      BY <1>8 DEF AcknowledgeAlarm
    <2>2. /\ TasksOK' /\ task'[c].op = "acknowledge"
          /\ InState("poll", "predict")' => InState("poll", "predict")
          /\ \A u \in Tasks \ {c} : task'[u] = task[u]
      BY <1>1, <2>1, StartFacts
    <2>3. LatchMeansStopped'
      BY <1>1, <2>1, <2>2 DEF LatchMeansStopped, InState, plant
    <2> QED
      BY <1>1, <2>1, <2>2, <2>3, HandlerIInv DEF TypeOK, plant
  <1> QED
    BY <1>2, <1>4, <1>5, <1>6, <1>7, <1>8

LEMMA AnswerIInv ==
  ASSUME IInv, NEW t \in Tasks, Answer(t)
  PROVE  IInv'
  <1>1. TypeOK /\ LatchMeansStopped /\ TasksOK
    BY DEF IInv, TypeOK
  <1>2. Finish(t) /\ UNCHANGED <<config, maintenance, memory>>
    BY DEF Answer, StopWritten, StopFailed, ResumeWritten, ResumeFailed, SpeedWritten, SpeedFailed,
           AlarmAcknowledged
  <1>3. /\ TasksOK'
        /\ ~InState(t, "stop")' /\ ~InState(t, "resume")'
        /\ InState("poll", "predict")' => InState("poll", "predict")
        /\ \A u \in Tasks \ {t} : task'[u] = task[u]
    BY <1>1, <1>2, AnswerFacts
  <1>4. CASE StopWritten(t) \/ StopFailed(t)
    <2>1. Latch(t) /\ setpoint' = setpoint /\ connected' \in BOOLEAN
      BY <1>1, <1>4 DEF StopWritten, StopFailed, TypeOK
    <2>2. estop' \in BOOLEAN /\ missed' \in BOOLEAN /\ (estop' \/ missed')
      BY <1>1, <1>4 DEF StopWritten, StopFailed, TypeOK
    <2>3. latched' \in BOOLEAN
      BY <1>1, <2>1 DEF Latch, TypeOK
    <2>4. LatchMeansStopped'
      BY <2>2 DEF LatchMeansStopped
    <2> QED
      BY <1>1, <1>2, <1>3, <2>1, <2>2, <2>3, <2>4, HandlerIInv DEF TypeOK
  <1>5. CASE ResumeWritten(t) \/ ResumeFailed(t)
    <2>1. latched' = FALSE /\ missed' = FALSE /\ setpoint' = setpoint
      BY <1>5 DEF ResumeWritten, ResumeFailed
    <2>2. estop' \in BOOLEAN /\ connected' \in BOOLEAN
      BY <1>1, <1>5 DEF ResumeWritten, ResumeFailed, TypeOK
    <2>3. LatchMeansStopped'
      BY <2>1 DEF LatchMeansStopped
    <2> QED
      BY <1>1, <1>2, <1>3, <2>1, <2>2, <2>3, HandlerIInv DEF TypeOK
  <1>6. CASE SpeedWritten(t) \/ SpeedFailed(t)
    <2>1. InState(t, "speed") /\ UNCHANGED <<latched, estop, missed>>
      BY <1>6 DEF SpeedWritten, SpeedFailed
    <2>2. task[t].arg \in 0 .. MaxSpeed
      BY <1>1, <2>1 DEF TasksOK, InState
    <2>3. setpoint' \in 0 .. MaxSpeed /\ connected' \in BOOLEAN
      BY <1>1, <1>6, <2>2 DEF SpeedWritten, SpeedFailed, TypeOK
    <2>4. LatchMeansStopped'
      BY <1>1, <1>3, <2>1 DEF LatchMeansStopped, InState
    <2> QED
      BY <1>1, <1>2, <1>3, <2>1, <2>3, <2>4, HandlerIInv DEF TypeOK
  <1>7. CASE AlarmAcknowledged(t)
    <2>1. InState(t, "acknowledge") /\ UNCHANGED <<latched, estop, setpoint, missed>>
      BY <1>7 DEF AlarmAcknowledged
    <2>2. connected' \in BOOLEAN
      BY <1>1, <1>7 DEF AlarmAcknowledged, TypeOK
    <2>3. LatchMeansStopped'
      BY <1>1, <1>3, <2>1 DEF LatchMeansStopped, InState
    <2> QED
      BY <1>1, <1>2, <1>3, <2>1, <2>2, <2>3, HandlerIInv DEF TypeOK
  <1> QED
    BY <1>4, <1>5, <1>6, <1>7 DEF Answer

\* The invariant is inductive.
LEMMA NextIInv == IInv /\ [Next]_vars => IInv'
  <1> SUFFICES ASSUME IInv, [Next]_vars PROVE IInv'
    OBVIOUS
  <1>1. TypeOK /\ LatchMeansStopped /\ TasksOK
    BY DEF IInv, TypeOK
  <1>2. CASE Poll
    BY <1>2, PollIInv
  <1>3. CASE Command
    BY <1>3, CommandIInv
  <1>4. ASSUME NEW t \in Tasks, Answer(t) PROVE IInv'
    BY <1>4, AnswerIInv
  <1>5. CASE Reconnect \/ KeepaliveFails \/ UNCHANGED vars
    <2>1. UNCHANGED <<config, maintenance, latched, memory, task, estop, setpoint, missed>>
      BY <1>5 DEF Reconnect, KeepaliveFails, vars, plant
    <2>2. connected' \in BOOLEAN
      BY <1>1, <1>5 DEF Reconnect, KeepaliveFails, vars, plant, TypeOK
    <2>3. TasksOK' /\ (InState("poll", "predict")' => InState("poll", "predict"))
      BY <1>1, <2>1 DEF TasksOK, InState
    <2>4. LatchMeansStopped'
      BY <1>1, <2>1 DEF LatchMeansStopped, InState
    <2> QED
      BY <1>1, <2>1, <2>2, <2>3, <2>4, HandlerIInv DEF TypeOK
  <1> QED
    BY <1>2, <1>3, <1>4, <1>5 DEF Next

\* The types hold for any number of commands at once, and the setpoint written to
\* the drive is within the limit whatever speeds are asked for (writeback.py,
\* set_speed_setpoint).
THEOREM MonitorTypeCorrect == Spec => []TypeOK
  <1>1. IInv => TypeOK
    BY DEF IInv
  <1> QED
    BY <1>1, InitIInv, NextIInv, PTL DEF Spec

\* service.py, _emergency_active: with no stop or resume under way, a latch that is
\* set means that the coil is set or that the stop was lost.
THEOREM StoppedWhenLatched == Spec => []LatchMeansStopped
  <1>1. IInv => LatchMeansStopped
    BY DEF IInv
  <1> QED
    BY <1>1, InitIInv, NextIInv, PTL DEF Spec
=============================================================================
