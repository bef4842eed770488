------------------------- MODULE RoadCrossingProofs -------------------------
(***************************************************************************)
(* Proofs about the crossing: first its decision engine, for every set of  *)
(* samples, every window and clearance, and every bound; then the service  *)
(* around it, for any number of operator commands in progress, light heads *)
(* and attempts.                                                           *)
(***************************************************************************)
EXTENDS RoadCrossing, TLAPS

(* The engine *)

\* Ageing keeps a stamp in range, never makes it younger and keeps the order
\* of two stamps.
LEMMA AgedFacts ==
  ASSUME NEW a \in Age, NEW b \in Age, NEW dt \in Nat
  PROVE  /\ Aged(a, dt) \in Age
         /\ a # NoTime => Aged(a, dt) \in 0 .. TimeCap /\ Aged(a, dt) >= a
         /\ a # NoTime /\ a <= b => Aged(a, dt) <= Aged(b, dt)
         /\ a # NoTime => Duration(a, dt) = Aged(a, dt)
  BY TimeCapAssumption DEF Aged, Age, NoTime, Duration

\* Queueing keeps classified vehicles only, and a bounded queue bounded.
LEMMA QueuedFacts ==
  ASSUME TypeOK, NEW sd \in Sample, Len(Arrive(sd)) <= MaxQueue
  PROVE  /\ Arrive(sd) \in Seq(Classes \ {"UNKNOWN"})
         /\ Queued(sd) \in Seq(Classes \ {"UNKNOWN"})
         /\ Len(Queued(sd)) <= MaxQueue
  <1>1. sd.class \in Classes
    BY DEF Sample
  <1>2. Arrive(sd) \in Seq(Classes \ {"UNKNOWN"})
    BY <1>1 DEF Arrive, TypeOK
  <1>3. Len(<<>>) <= MaxQueue
    BY MaxQueueAssumption
  <1> QED
    BY <1>2, <1>3 DEF Queued

\* The strengthening: a check under way has a stamp no older than the quiet
\* spell, and the states past the check keep the quiet spell they began with.
QuietInv ==
  /\ state = "BELT_STOPPED_CHECKING" =>
       stoppedFor # NoTime /\ quiet # NoTime /\ stoppedFor <= quiet
  /\ state \in {"SAFE_WINDOW_OPEN", "CROSSING_IN_PROGRESS", "CROSSING_COMPLETE"} =>
       quiet >= Window
  /\ decided = "OPEN" =>
       state \in {"SAFE_WINDOW_OPEN", "CROSSING_IN_PROGRESS", "EMERGENCY"}

IInv == TypeOK /\ QuietInv /\ SafeNeedsQuietBelt

-----------------------------------------------------------------------------

LEMMA InitIInv == Init => IInv
  BY MaxQueueAssumption, TimeCapAssumption
     DEF Init, IInv, TypeOK, QuietInv, SafeNeedsQuietBelt, CrossingState,
         CrossingAction, Classes, Age, NoTime

\* One evaluation keeps the types.
LEMMA EvaluateTypeOK ==
  ASSUME TypeOK, NEW dt \in Gaps, NEW sd \in Samples, Evaluate(dt, sd)
  PROVE  TypeOK'
  <1>1. dt \in Nat /\ sd \in Sample
    BY GapsAssumption, SamplesAssumption
  <1>2. /\ Aged(stoppedFor, dt) \in Age
        /\ Aged(crossingFor, dt) \in Age
        /\ Aged(quiet, dt) \in Age
    BY <1>1, AgedFacts DEF TypeOK
  <1>3. /\ Arrive(sd) \in Seq(Classes \ {"UNKNOWN"})
        /\ Queued(sd) \in Seq(Classes \ {"UNKNOWN"})
        /\ Len(Arrive(sd)) <= MaxQueue
        /\ Len(Queued(sd)) <= MaxQueue
    BY <1>1, QueuedFacts DEF Evaluate
  <1>4. NoTime \in Age /\ 0 \in Age
    BY TimeCapAssumption DEF Age
  <1>5. state' \in CrossingState /\ decision' \in [action: CrossingAction, safe: BOOLEAN]
    <2>1. state' \in CrossingState
      BY DEF Evaluate, Transition, TypeOK, CrossingState,
             StayInEmergency, BeltKeepsRunning, BeltStops, BeltRestartsWhileChecking,
             OpenWindow, KeepChecking, BeltRestartsInWindow, VehicleEnters, AwaitVehicle,
             BeltStartsUnderVehicle, VehicleLeaves, VehicleStillCrossing, LetNextCross,
             ReturnToNormal
    <2>2. \E action \in CrossingAction, safe \in BOOLEAN : Decide(action, safe)
      BY DEF Evaluate, Transition, TypeOK, CrossingAction,
             StayInEmergency, BeltKeepsRunning, BeltStops, BeltRestartsWhileChecking,
             OpenWindow, KeepChecking, BeltRestartsInWindow, VehicleEnters, AwaitVehicle,
             BeltStartsUnderVehicle, VehicleLeaves, VehicleStillCrossing, LetNextCross,
             ReturnToNormal
    <2> QED
      BY <2>1, <2>2 DEF Decide
  <1>6. stoppedFor' \in Age /\ crossingFor' \in Age
    BY <1>2, <1>4
       DEF Evaluate, Transition, TypeOK, AgeStamps,
           StayInEmergency, BeltKeepsRunning, BeltStops, BeltRestartsWhileChecking,
           OpenWindow, KeepChecking, BeltRestartsInWindow, VehicleEnters, AwaitVehicle,
           BeltStartsUnderVehicle, VehicleLeaves, VehicleStillCrossing, LetNextCross,
           ReturnToNormal
  <1>7. queue' \in Seq(Classes \ {"UNKNOWN"}) /\ Len(queue') <= MaxQueue /\ current' \in Classes
    <2>1. CASE VehicleEnters(dt, sd)
      <3>1. sd.class \in Classes
        BY <1>1 DEF Sample
      <3>2. CASE Queued(sd) = <<>>
        BY <2>1, <3>1, <3>2, <1>3 DEF VehicleEnters
      <3>3. CASE Queued(sd) # <<>>
        <4>1. /\ Head(Queued(sd)) \in Classes
              /\ Tail(Queued(sd)) \in Seq(Classes \ {"UNKNOWN"})
              /\ Len(Tail(Queued(sd))) = Len(Queued(sd)) - 1
              /\ Len(Queued(sd)) \in Nat
          BY <1>3, <3>3
        <4> QED
          BY <2>1, <3>3, <4>1, <1>3, MaxQueueAssumption DEF VehicleEnters
      <3> QED
        BY <3>2, <3>3
    <2>2. CASE ~VehicleEnters(dt, sd)
      BY <2>2, <1>3
         DEF Evaluate, Transition, TypeOK,
             StayInEmergency, BeltKeepsRunning, BeltStops, BeltRestartsWhileChecking,
             OpenWindow, KeepChecking, BeltRestartsInWindow, AwaitVehicle,
             BeltStartsUnderVehicle, VehicleLeaves, VehicleStillCrossing, LetNextCross,
             ReturnToNormal
    <2> QED
      BY <2>1, <2>2
  <1>8. quiet' \in Age /\ decided' \in {"CLOSE", "OPEN", "LEFT_OPEN"}
    BY <1>2, <1>4 DEF Evaluate, Remember, TypeOK
  <1> QED
    BY <1>5, <1>6, <1>7, <1>8 DEF TypeOK

\* One evaluation keeps the quiet-belt strengthening.
LEMMA EvaluateQuiet ==
  ASSUME IInv, NEW dt \in Gaps, NEW sd \in Samples, Evaluate(dt, sd)
  PROVE  QuietInv' /\ SafeNeedsQuietBelt'
  <1>1. dt \in Nat /\ sd \in Sample /\ sd.belt \in BOOLEAN
    BY GapsAssumption, SamplesAssumption DEF Sample
  <1>2. /\ stoppedFor \in Age /\ quiet \in Age
        /\ stoppedFor # NoTime /\ quiet # NoTime /\ stoppedFor <= quiet =>
             /\ Aged(stoppedFor, dt) <= Aged(quiet, dt)
             /\ Duration(stoppedFor, dt) = Aged(stoppedFor, dt)
             /\ Aged(stoppedFor, dt) \in 0 .. TimeCap
             /\ Aged(quiet, dt) \in 0 .. TimeCap
        /\ quiet # NoTime => Aged(quiet, dt) >= quiet /\ Aged(quiet, dt) \in 0 .. TimeCap
    BY <1>1, AgedFacts DEF IInv, TypeOK
  <1>3. /\ Remember(dt, sd)
        /\ Transition(dt, sd)
    BY DEF Evaluate
  <1> USE <1>1, <1>2, <1>3, WindowAssumption, TimeCapAssumption
      DEF IInv, QuietInv, SafeNeedsQuietBelt, Remember, Decide, AgeStamps, NoTime, Age
  <1>4. CASE StayInEmergency(dt, sd)
    BY <1>4 DEF StayInEmergency
  <1>5. CASE BeltKeepsRunning(dt, sd)
    BY <1>5 DEF BeltKeepsRunning
  <1>6. CASE BeltStops(dt, sd)
    BY <1>6 DEF BeltStops
  <1>7. CASE BeltRestartsWhileChecking(dt, sd)
    BY <1>7 DEF BeltRestartsWhileChecking
  <1>8. CASE OpenWindow(dt, sd)
    BY <1>8 DEF OpenWindow, WindowConfirmed
  <1>9. CASE KeepChecking(dt, sd)
    BY <1>9 DEF KeepChecking
  <1>10. CASE BeltRestartsInWindow(dt, sd)
    BY <1>10 DEF BeltRestartsInWindow
  <1>11. CASE VehicleEnters(dt, sd)
    BY <1>11 DEF VehicleEnters
  <1>12. CASE AwaitVehicle(dt, sd)
    BY <1>12 DEF AwaitVehicle
  <1>13. CASE BeltStartsUnderVehicle(dt, sd)
    BY <1>13 DEF BeltStartsUnderVehicle
  <1>14. CASE VehicleLeaves(dt, sd)
    BY <1>14 DEF VehicleLeaves
  <1>15. CASE VehicleStillCrossing(dt, sd)
    BY <1>15 DEF VehicleStillCrossing
  <1>16. CASE LetNextCross(dt, sd)
    BY <1>16 DEF LetNextCross, NextMayCross
  <1>17. CASE ReturnToNormal(dt, sd)
    BY <1>17 DEF ReturnToNormal
  <1> QED
    BY <1>4, <1>5, <1>6, <1>7, <1>8, <1>9, <1>10, <1>11, <1>12, <1>13, <1>14,
       <1>15, <1>16, <1>17 DEF Transition

LEMMA NextIInv == IInv /\ [Next]_vars => IInv'
  <1> SUFFICES ASSUME IInv, [Next]_vars
               PROVE  IInv'
    OBVIOUS
  <1>1. CASE Poll
    BY <1>1, EvaluateTypeOK, EvaluateQuiet DEF Poll, IInv
  <1>2. CASE ForceEmergency
    BY <1>2 DEF ForceEmergency, IInv, TypeOK, QuietInv, SafeNeedsQuietBelt, historyVars,
                CrossingState
  <1>3. CASE ResetEmergency
    BY <1>3 DEF ResetEmergency, IInv, TypeOK, QuietInv, SafeNeedsQuietBelt,
                CrossingState, Age
  <1>4. CASE UNCHANGED vars
    BY <1>4 DEF vars, engineVars, historyVars, IInv, TypeOK, QuietInv, SafeNeedsQuietBelt
  <1> QED
    BY <1>1, <1>2, <1>3, <1>4 DEF Next

-----------------------------------------------------------------------------
(* The theorems *)

\* The strengthened invariant holds in every reachable state.
THEOREM EngineInvariant == Spec => []IInv
  BY InitIInv, NextIInv, PTL DEF Spec

\* The attributes of the engine keep their types through every sequence of
\* samples, forced emergencies and resets.
THEOREM EngineTypeCorrect == Spec => []TypeOK
  <1>1. IInv => TypeOK
    BY DEF IInv
  <1> QED
    BY <1>1, EngineInvariant, PTL

\* safe_to_cross is only ever published after an uninterrupted quiet spell of
\* at least the configured window.
THEOREM SafeOnlyAfterQuietWindow == Spec => []SafeNeedsQuietBelt
  <1>1. IInv => SafeNeedsQuietBelt
    BY DEF IInv
  <1> QED
    BY <1>1, EngineInvariant, PTL

\* An order to open never outlives the window it was given for, except into
\* EMERGENCY or across an operator reset.
THEOREM OpenOrdersStayInWindow == Spec => []OpenOnlyInWindow
  <1>1. IInv => OpenOnlyInWindow
    BY DEF IInv, QuietInv, OpenOnlyInWindow
  <1> QED
    BY <1>1, EngineInvariant, PTL

-----------------------------------------------------------------------------
(* The service uses the engine *)

\* What an answer does to the engine: nothing, or one of the operator's two calls.
LEMMA AnswerAndEngine ==
  ASSUME NEW t \in Tasks, Answer(t)
  PROVE  ForceEmergency \/ ResetEmergency \/ UNCHANGED vars
  BY DEF Answer, OpenConfirmed, OpenTimedOut, OpenFailed, CloseConfirmed, CloseTimedOut, CloseFailed,
         LightSet, LightFailed, EstopSet, EstopFailed, ResetAnswered, GoOn

\* Every step of the service is at most one call of the engine: its tasks share
\* the engine, but no await lies within a call.
LEMMA ServiceStepOfEngine == [ServiceNext]_allVars => [Next]_vars
  <1> SUFFICES ASSUME [ServiceNext]_allVars PROVE [Next]_vars
    OBVIOUS
  <1>1. CASE PollTask
    BY <1>1 DEF PollTask, PollStart, PollStep, PollMeasures, PollSimulates, Handle, Next, Poll
  <1>2. CASE Command
    BY <1>2 DEF Command, ManualOpen, ManualClose, EmergencyStop, ResetEmergencyCommand, SetMode, Next
  <1>3. ASSUME NEW t \in Tasks, Answer(t) PROVE [Next]_vars
    BY <1>3, AnswerAndEngine DEF Next
  <1>4. CASE KeepaliveFails \/ Reconnect \/ UNCHANGED allVars
    BY <1>4 DEF KeepaliveFails, Reconnect, allVars
  <1> QED
    BY <1>1, <1>2, <1>3, <1>4 DEF ServiceNext

\* service.py: the poll and any number of command handlers, however their
\* awaits interleave, use the engine as a sequence of its own calls.
THEOREM ServiceUsesEngine == ServiceSpec => Spec
  <1>1. ServiceInit => Init
    BY DEF ServiceInit
  <1> QED
    BY <1>1, ServiceStepOfEngine, PTL DEF ServiceSpec, Spec

\* What the engine calls safe in the service rests on a quiet belt, too.
THEOREM ServiceSafeOnlyAfterQuietWindow == ServiceSpec => []SafeNeedsQuietBelt
  BY ServiceUsesEngine, SafeOnlyAfterQuietWindow, PTL

\* And the orders to open stay in the window, whatever the tasks do.
THEOREM ServiceOpenOrdersStayInWindow == ServiceSpec => []OpenOnlyInWindow
  BY ServiceUsesEngine, OpenOrdersStayInWindow, PTL

-----------------------------------------------------------------------------
(* The tasks of the service *)

\* A write that a task goes on to wait for is one of the kinds it may wait for.
LEMMA WaitFacts ==
  /\ Idle \in Wait /\ Idle.op = "idle"
  /\ Reading \in Wait /\ Reading.op = "read"
  /\ \A conn \in BOOLEAN, op \in {"open", "close", "estop", "reset"}, n \in 1 .. Attempts,
        colour \in Colour, then \in {"nothing", "force"} :
       LET w == Await(conn, op, n, colour, then)
       IN w \in Wait /\ w.op \in {op, "idle"} /\ w.n <= Attempts
  /\ \A conn \in BOOLEAN, zone \in Nat \ {0}, colour \in Colour, then \in {"nothing", "force"} :
       LET w == AwaitLight(conn, zone, colour, then)
       IN w \in Wait /\ w.op \in {"light", "idle"}
  BY AttemptsAssumption, ZonesAssumption DEF Idle, Reading, Wait, Await, AwaitLight, Colour

TasksOK ==
  /\ task \in [Tasks -> Wait]
  /\ \A t \in Tasks : task[t].op = "open" => task[t].n <= Attempts

LEMMA TasksGoOn ==
  ASSUME TasksOK, NEW t \in Tasks, NEW w \in Wait, w.op = "open" => w.n <= Attempts,
         task' = [task EXCEPT ![t] = w]
  PROVE  TasksOK'
  BY DEF TasksOK

\* What the poll goes on to wait for when it acts on a decision: only in AUTO mode a write, and
\* the write to the barriers is the one the engine ordered.
LEMMA ActFacts ==
  ASSUME NEW conn \in BOOLEAN
  PROVE  /\ Act(conn) \in Wait
         /\ Act(conn).op = "open" => Act(conn).n <= Attempts
         /\ Act(conn).op # "idle" => mode = "AUTO"
         /\ Act(conn).op = "open" => decision'.action = "OPEN_BARRIER"
         /\ decision'.action = "CLOSE_BARRIER" => Act(conn).op = "close" \/ Act(conn) = Idle
  <1>1. 1 \in 1 .. Attempts /\ 1 \in Nat \ {0}
    BY AttemptsAssumption
  <1>2. Execute(conn) \in Wait /\ (Execute(conn).op = "open" => Execute(conn).n <= Attempts)
    BY <1>1, WaitFacts DEF Execute, Colour
  <1>3. /\ Execute(conn).op = "open" => decision'.action = "OPEN_BARRIER"
        /\ decision'.action = "CLOSE_BARRIER" => Execute(conn).op = "close" \/ Execute(conn) = Idle
    BY <1>1, WaitFacts DEF Execute, Colour, Await
  <1> QED
    BY <1>2, <1>3, WaitFacts DEF Act

PlantOK ==
  /\ mode \in Mode
  /\ connected \in BOOLEAN
  /\ barrier \in BOOLEAN
  /\ lights \in [1 .. Zones -> Colour]
  /\ estop \in BOOLEAN
  /\ excused \in BOOLEAN

LEMMA ServiceTypeParts == ServiceTypeOK <=> TypeOK /\ TasksOK /\ PlantOK
  BY DEF ServiceTypeOK, TasksOK, PlantOK

\* Why the barriers follow the engine: as long as nothing is excused, an order of the poll to
\* open them is the engine's current order, and open barriers were opened by that order or are
\* being closed by the poll.
OrderInv ==
  ~excused =>
    /\ Waiting("poll", "open") => decided = "OPEN"
    /\ barrier => decided = "OPEN" \/ Waiting("poll", "close")

ServiceInv == IInv /\ TasksOK /\ PlantOK /\ OrderInv

LEMMA InitServiceInv == ServiceInit => ServiceInv
  <1> SUFFICES ASSUME ServiceInit PROVE ServiceInv
    OBVIOUS
  <1>1. IInv
    BY InitIInv DEF ServiceInit
  <1>2. TasksOK
    BY WaitFacts DEF ServiceInit, TasksOK
  <1>3. PlantOK
    BY DEF ServiceInit, PlantOK, Mode, Colour
  <1>4. OrderInv
    BY DEF ServiceInit, OrderInv, Waiting, Tasks, Idle
  <1> QED
    BY <1>1, <1>2, <1>3, <1>4 DEF ServiceInv

LEMMA PollTasksOK ==
  ASSUME TasksOK, PlantOK, PollTask
  PROVE  TasksOK' /\ PlantOK'
  <1>1. "poll" \in Tasks
    BY DEF Tasks
  <1>2. CASE PollStart
    BY <1>1, <1>2, TasksGoOn, WaitFacts DEF PollStart, PlantOK, plantVars
  <1>3. ASSUME NEW dt, NEW sd, NEW conn \in BOOLEAN, Handle(dt, sd, conn)
        PROVE  TasksOK' /\ PlantOK'
    <2>1. TasksOK'
      BY <1>1, <1>3, ActFacts, TasksGoOn DEF Handle
    <2>2. PlantOK'
      BY <1>3 DEF Handle, PlantOK, plantVars
    <2> QED
      BY <2>1, <2>2
  <1> QED
    BY <1>2, <1>3 DEF PollTask, PollStep, PollMeasures, PollSimulates, PlantOK

LEMMA CommandTasksOK ==
  ASSUME TasksOK, PlantOK, Command
  PROVE  TasksOK' /\ PlantOK'
  <1>1. PICK c \in Commands :
          \/ ManualOpen(c) \/ ManualClose(c) \/ EmergencyStop(c) \/ ResetEmergencyCommand(c)
          \/ \E m \in Mode : SetMode(c, m)
    BY DEF Command
  <1>2. c \in Tasks /\ 1 \in 1 .. Attempts
    BY AttemptsAssumption DEF Tasks
  <1>3. PlantOK'
    BY <1>1 DEF ManualOpen, ManualClose, EmergencyStop, ResetEmergencyCommand, SetMode, Receive,
                ResetExcuses, PlantOK, plantVars
  <1>4. TasksOK'
    <2>1. ASSUME NEW conn \in BOOLEAN, NEW op \in {"open", "close", "estop", "reset"},
                 NEW colour \in Colour, NEW then \in {"nothing", "force"},
                 task' = [task EXCEPT ![c] = Await(conn, op, 1, colour, then)]
          PROVE  TasksOK'
      BY <1>2, <2>1, WaitFacts, TasksGoOn
    <2>2. CASE UNCHANGED task
      BY <2>2 DEF TasksOK
    <2>3. \/ UNCHANGED task
          \/ \E conn \in BOOLEAN, op \in {"open", "close", "estop", "reset"}, colour \in Colour,
                then \in {"nothing", "force"} :
               task' = [task EXCEPT ![c] = Await(conn, op, 1, colour, then)]
      BY <1>1 DEF ManualOpen, ManualClose, EmergencyStop, ResetEmergencyCommand, SetMode, Receive,
                  Colour, PlantOK
    <2> QED
      BY <2>1, <2>2, <2>3
  <1> QED
    BY <1>3, <1>4

\* After an answer the task that waited goes on to another wait of the same operation, to the
\* lights, or is done.
LEMMA AnswerGoesOn ==
  ASSUME TasksOK, PlantOK, NEW t \in Tasks, Answer(t)
  PROVE  \E w \in Wait :
           /\ task' = [task EXCEPT ![t] = w]
           /\ w.op = "open" => w.n <= Attempts /\ Waiting(t, "open")
           /\ w.op \in {"open", "light", "idle"}
  <1>1. task[t] \in Wait /\ (task[t].op = "open" => task[t].n <= Attempts)
    BY DEF TasksOK
  <1>2. task[t].n \in Int /\ task[t].colour \in Colour /\ task[t].then \in {"nothing", "force"}
    BY <1>1, ZonesAssumption, AttemptsAssumption DEF Wait
  <1> DEFINE Fine(w) == /\ w \in Wait
                        /\ w.op = "open" => w.n <= Attempts /\ Waiting(t, "open")
                        /\ w.op \in {"open", "light", "idle"}
  <1>3. Fine(Idle)
    BY WaitFacts
  <1>4. ASSUME NEW conn \in BOOLEAN, NEW zone \in Nat \ {0}, NEW colour \in Colour,
               NEW then \in {"nothing", "force"}
        PROVE  Fine(AwaitLight(conn, zone, colour, then))
    BY WaitFacts
  <1>5. ASSUME NEW conn \in BOOLEAN, Waiting(t, "open"),
               conn => task[t].n < Attempts
        PROVE  Fine(Await(conn, "open", task[t].n + 1, "GREEN", "nothing"))
    <2>1. CASE conn
      <3>1. task[t].n + 1 \in 1 .. Attempts
        BY <1>1, <1>2, <1>5, <2>1, AttemptsAssumption, ZonesAssumption DEF Wait
      <3> QED
        BY <3>1, <1>5, WaitFacts DEF Colour
    <2>2. CASE ~conn
      BY <2>2, <1>3 DEF Await
    <2> QED
      BY <2>1, <2>2
  <1> HIDE DEF Fine
  <1>6. connected \in BOOLEAN /\ {"RED", "GREEN"} \subseteq Colour /\ 1 \in Nat \ {0}
    BY DEF PlantOK, Colour
  <1>7. CASE OpenConfirmed(t) \/ CloseConfirmed(t) \/ CloseTimedOut(t) \/ EstopSet(t)
    BY <1>2, <1>4, <1>6, <1>7 DEF OpenConfirmed, CloseConfirmed, CloseTimedOut, EstopSet, GoOn, Fine
  <1>8. CASE OpenTimedOut(t)
    BY <1>3, <1>5, <1>6, <1>8 DEF OpenTimedOut, GoOn, Fine
  <1>9. CASE OpenFailed(t)
    BY <1>5, <1>9 DEF OpenFailed, GoOn, Fine
  <1>10. CASE LightSet(t)
    <2>1. task[t].n + 1 \in Nat \ {0}
      BY <1>1, ZonesAssumption, AttemptsAssumption DEF Wait
    <2> QED
      BY <1>2, <1>4, <1>6, <1>10, <2>1 DEF LightSet, GoOn, Fine
  <1>11. CASE CloseFailed(t) \/ LightFailed(t) \/ EstopFailed(t) \/ ResetAnswered(t)
    BY <1>3, <1>11 DEF CloseFailed, LightFailed, EstopFailed, ResetAnswered, GoOn, Fine
  <1> QED
    BY <1>7, <1>8, <1>9, <1>10, <1>11 DEF Answer

LEMMA AnswerTasksOK ==
  ASSUME TasksOK, PlantOK, NEW t \in Tasks, Answer(t)
  PROVE  TasksOK' /\ PlantOK'
  <1>1. TasksOK'
    BY AnswerGoesOn, TasksGoOn
  <1>2. task[t].colour \in Colour
    BY DEF TasksOK, Wait
  <1>3. PlantOK'
    BY <1>2 DEF Answer, OpenConfirmed, OpenTimedOut, OpenFailed, CloseConfirmed, CloseTimedOut,
                CloseFailed, LightSet, LightFailed, EstopSet, EstopFailed, ResetAnswered,
                ResetExcuses, OpenInFlight, PlantOK
  <1> QED
    BY <1>1, <1>3

\* A poll that acts turns the engine's new order into its own write, or the failed close is
\* excused.
LEMMA PollOrder ==
  ASSUME IInv, TasksOK, PlantOK, OrderInv, PollTask
  PROVE  OrderInv'
  <1>1. "poll" \in Tasks
    BY DEF Tasks
  <1>2. CASE PollStart
    BY <1>1, <1>2, WaitFacts DEF PollStart, TasksOK, OrderInv, Waiting, vars, historyVars, plantVars, Idle
  <1>3. ASSUME NEW dt \in Gaps, NEW sd \in Samples, NEW conn \in BOOLEAN, Handle(dt, sd, conn),
               task["poll"].op \in {"idle", "read"}
        PROVE  OrderInv'
    <2>1. task'["poll"] = Act(conn)
      BY <1>1, <1>3 DEF Handle, TasksOK
    <2>2. CASE decision'.action = "OPEN_BARRIER"
      BY <2>2, <1>3 DEF Handle, Evaluate, Remember, OrderInv
    <2>3. CASE decision'.action = "CLOSE_BARRIER"
      <3>1. Act(conn).op = "close" \/ excused'
        BY <1>3, <2>1, <2>3, ActFacts DEF Handle
      <3> QED
        BY <2>1, <3>1 DEF OrderInv, Waiting
    <2>4. CASE decision'.action \notin {"OPEN_BARRIER", "CLOSE_BARRIER"}
      <3>1. decided' = decided /\ barrier' = barrier /\ (excused' <=> excused)
        BY <1>3, <2>4 DEF Handle, Evaluate, Remember, plantVars, PlantOK
      <3>2. Act(conn).op # "open" /\ task["poll"].op # "close"
        BY <1>3, <2>4, ActFacts
      <3> QED
        BY <2>1, <3>1, <3>2 DEF OrderInv, Waiting
    <2> QED
      BY <2>2, <2>3, <2>4
  <1>4. ASSUME NEW dt \in Gaps, NEW sd \in Samples, PollMeasures(dt, sd) \/ PollSimulates(dt, sd)
        PROVE  OrderInv'
    <2>1. task["poll"].op \in {"idle", "read"}
      BY <1>4, WaitFacts DEF PollMeasures, PollSimulates
    <2> QED
      BY <1>3, <1>4, <2>1 DEF PollMeasures, PollSimulates, PlantOK
  <1> QED
    BY <1>2, <1>4 DEF PollTask, PollStep

\* Commands begin writes of their own, or reset the engine, which excuses what it leaves open.
LEMMA CommandOrder ==
  ASSUME TasksOK, PlantOK, OrderInv, Command
  PROVE  OrderInv'
  <1>1. PICK c \in Commands :
          \/ ManualOpen(c) \/ ManualClose(c) \/ EmergencyStop(c) \/ ResetEmergencyCommand(c)
          \/ \E m \in Mode : SetMode(c, m)
    BY DEF Command
  <1>2. task'["poll"] = task["poll"]
    <2>1. c # "poll" /\ c \in Tasks /\ "poll" \in Tasks
      BY CommandsAssumption DEF Tasks
    <2> QED
      BY <1>1, <2>1 DEF ManualOpen, ManualClose, EmergencyStop, ResetEmergencyCommand, SetMode, Receive,
                        TasksOK
  <1>3. barrier' = barrier
    BY <1>1 DEF ManualOpen, ManualClose, EmergencyStop, ResetEmergencyCommand, SetMode, Receive, plantVars
  <1>4. CASE (decided' = decided) /\ (excused' = excused)
    BY <1>2, <1>3, <1>4 DEF OrderInv, Waiting
  <1>5. CASE excused' = ResetExcuses
    BY <1>2, <1>3, <1>5 DEF OrderInv, Waiting, ResetExcuses
  <1>6. (decided' = decided /\ excused' = excused) \/ excused' = ResetExcuses
    BY <1>1 DEF ManualOpen, ManualClose, EmergencyStop, ResetEmergencyCommand, SetMode, Receive,
                ForceEmergency, vars, historyVars
  <1> QED
    BY <1>4, <1>5, <1>6

\* The answers: who opens the barriers is the poll, on the engine's order, or is excused; a close
\* that is confirmed ends every excuse unless another open is on its way.
LEMMA AnswerOrder ==
  ASSUME TasksOK, PlantOK, OrderInv, NEW t \in Tasks, Answer(t)
  PROVE  OrderInv'
  <1>1. PICK w \in Wait : /\ task' = [task EXCEPT ![t] = w]
                          /\ w.op = "open" => w.n <= Attempts /\ Waiting(t, "open")
                          /\ w.op \in {"open", "light", "idle"}
    BY AnswerGoesOn
  <1>2. "poll" \in Tasks
    BY DEF Tasks
  <1>3. /\ Waiting("poll", "open")' => Waiting("poll", "open")
        /\ t # "poll" => (Waiting("poll", "close")' <=> Waiting("poll", "close"))
    BY <1>1, <1>2 DEF Waiting, TasksOK
  <1>4. CASE OpenConfirmed(t) \/ OpenTimedOut(t) \/ OpenFailed(t)
    <2>1. decided' = decided /\ ~Waiting(t, "close")
      BY <1>4 DEF OpenConfirmed, OpenTimedOut, OpenFailed, GoOn, Idle, vars, historyVars, Waiting
    <2>2. /\ excused => excused'
          /\ barrier' # barrier => Waiting(t, "open") /\ (t = "poll" \/ excused')
      BY <1>4 DEF OpenConfirmed, OpenTimedOut, OpenFailed, PlantOK
    <2> QED
      BY <1>3, <2>1, <2>2 DEF OrderInv, PlantOK
  <1>5. CASE CloseConfirmed(t)
    <2>1. ~barrier' /\ (excused' <=> OpenInFlight(t)) /\ ~Waiting(t, "open")
      BY <1>5 DEF CloseConfirmed, Waiting
    <2> QED
      BY <1>2, <1>3, <2>1 DEF OrderInv, OpenInFlight
  <1>6. CASE CloseTimedOut(t) \/ CloseFailed(t)
    BY <1>6 DEF CloseTimedOut, CloseFailed, OrderInv
  <1>7. CASE LightSet(t) \/ LightFailed(t) \/ EstopSet(t) \/ EstopFailed(t)
    <2>1. decided' = decided /\ barrier' = barrier /\ excused' = excused /\ ~Waiting(t, "close")
      BY <1>7 DEF LightSet, LightFailed, EstopSet, EstopFailed, GoOn, ForceEmergency, vars, historyVars,
                  Waiting
    <2> QED
      BY <1>3, <2>1 DEF OrderInv
  <1>8. CASE ResetAnswered(t)
    <2>1. barrier' = barrier /\ (excused' <=> ResetExcuses) /\ ~Waiting(t, "close")
      BY <1>8 DEF ResetAnswered, Waiting
    <2> QED
      BY <1>3, <2>1 DEF OrderInv, ResetExcuses, Waiting
  <1> QED
    BY <1>4, <1>5, <1>6, <1>7, <1>8 DEF Answer

LEMMA NextServiceInv == ServiceInv /\ [ServiceNext]_allVars => ServiceInv'
  <1> SUFFICES ASSUME ServiceInv, [ServiceNext]_allVars PROVE ServiceInv'
    OBVIOUS
  <1>1. IInv'
    BY ServiceStepOfEngine, NextIInv DEF ServiceInv
  <1>2. TasksOK' /\ PlantOK' /\ OrderInv'
    <2>1. CASE PollTask
      BY <2>1, PollTasksOK, PollOrder DEF ServiceInv
    <2>2. CASE Command
      BY <2>2, CommandTasksOK, CommandOrder DEF ServiceInv
    <2>3. ASSUME NEW t \in Tasks, Answer(t) PROVE TasksOK' /\ PlantOK' /\ OrderInv'
      BY <2>3, AnswerTasksOK, AnswerOrder DEF ServiceInv
    <2>4. CASE KeepaliveFails \/ Reconnect \/ UNCHANGED allVars
      <3>1. UNCHANGED <<task, plantVars, mode, excused, decided>> /\ connected' \in BOOLEAN
        BY <2>4 DEF KeepaliveFails, Reconnect, allVars, serviceVars, vars, historyVars, ServiceInv, PlantOK
      <3>2. TasksOK' /\ OrderInv'
        BY <3>1 DEF ServiceInv, TasksOK, OrderInv, Waiting, plantVars
      <3>3. PlantOK'
        BY <3>1 DEF ServiceInv, PlantOK, plantVars
      <3> QED
        BY <3>2, <3>3
    <2> QED
      BY <2>1, <2>2, <2>3, <2>4 DEF ServiceNext
  <1> QED
    BY <1>1, <1>2 DEF ServiceInv

-----------------------------------------------------------------------------
(* The theorems about the service *)

THEOREM ServiceInvariant == ServiceSpec => []ServiceInv
  BY InitServiceInv, NextServiceInv, PTL DEF ServiceSpec

\* service.py, control.py: all attributes and nodes keep their types, and an
\* open is attempted no more than the configured number of times.
THEOREM ServiceTypeCorrect == ServiceSpec => []ServiceTypeOK
  <1>1. ServiceInv => ServiceTypeOK
    BY ServiceTypeParts DEF ServiceInv, IInv
  <1> QED
    BY <1>1, ServiceInvariant, PTL

\* control.py, open_barriers and close_barriers under the poll and any number
\* of commands: barriers that are open although the engine believes them closed
\* were left so in one of the ways that excused names.
THEOREM BarriersFollowEngine == ServiceSpec => []BarrierFollowsEngine
  <1>1. ServiceInv => BarrierFollowsEngine
    BY DEF ServiceInv, IInv, QuietInv, OrderInv, BarrierFollowsEngine
  <1> QED
    BY <1>1, ServiceInvariant, PTL
=============================================================================
