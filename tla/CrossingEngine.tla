--------------------------- MODULE CrossingEngine ---------------------------
(***************************************************************************)
(* The decision engine of the road-crossing edge service                   *)
(* (edge/road_crossing/decision_engine.py): a finite state machine that is *)
(* given one sensor sample per poll and answers with one action for the    *)
(* barriers, the traffic lights or the emergency stop.                     *)
(*                                                                         *)
(* Time.  The code stores time.monotonic() stamps and compares             *)
(* differences.  Here each stamp is the age it has at the last poll, in    *)
(* ticks, NoTime standing for None; a poll carries the number of ticks     *)
(* since the previous one.  Ages stop growing at TimeCap, which is past    *)
(* every threshold they are compared with.                                 *)
(***************************************************************************)
EXTENDS Integers, Sequences

CONSTANTS
  Samples,     \* the sensor samples the environment may produce
  Gaps,        \* the ticks that may pass between two polls
  Window,      \* SAFE_CROSSING_WINDOW_S, in ticks
  Clearance,   \* VEHICLE_CLEARANCE_TIME_S, in ticks
  MaxQueue,    \* bound of the model on the unbounded vehicle queue
  TimeCap      \* bound of the model on ages

Classes == {"UNKNOWN", "HAUL_TRUCK", "LIGHT_VEHICLE", "PEDESTRIAN"}

CrossingState == {"BELT_RUNNING_CROSSING_CLOSED", "BELT_STOPPED_CHECKING",
                  "SAFE_WINDOW_OPEN", "CROSSING_IN_PROGRESS",
                  "CROSSING_COMPLETE", "EMERGENCY"}

CrossingAction == {"NONE", "OPEN_BARRIER", "CLOSE_BARRIER",
                   "SET_TRAFFIC_LIGHT", "EMERGENCY_STOP", "WAIT"}

\* What one CrossingSensorData tells the engine: a vehicle on the front and on
\* the rear loops, its class, a speed above 0.9 of the limit, the belt, a
\* positive waiting count and the crossing_clear signal.
Sample == [front: BOOLEAN, rear: BOOLEAN, class: Classes, overspeed: BOOLEAN,
           belt: BOOLEAN, waiting: BOOLEAN, clear: BOOLEAN]

ASSUME SamplesAssumption   == Samples \subseteq Sample
ASSUME GapsAssumption      == Gaps \subseteq Nat \ {0}
ASSUME WindowAssumption    == Window \in Nat
ASSUME ClearanceAssumption == Clearance \in Nat
ASSUME MaxQueueAssumption  == MaxQueue \in Nat
ASSUME TimeCapAssumption   == /\ TimeCap \in Nat
                              /\ TimeCap >= Window
                              /\ TimeCap >= 2 * Clearance

NoTime == -1
Age == {NoTime} \cup 0 .. TimeCap

VARIABLES
  state,        \* _state
  stoppedFor,   \* age of _belt_stopped_at
  crossingFor,  \* age of _crossing_started_at
  queue,        \* _vehicle_queue
  current,      \* _current_vehicle_class
  decision      \* action and safe_to_cross of the last CrossingDecision

(***************************************************************************)
(* History variables: nothing below reads them but the properties.         *)
(***************************************************************************)
VARIABLES
  quiet,        \* ticks for which every sample showed the belt stopped;
                \* NoTime when the last sample showed it running
  decided       \* the last barrier order: "CLOSE", "OPEN", or "LEFT_OPEN"
                \* when an operator reset came while it was "OPEN"

engineVars == <<state, stoppedFor, crossingFor, queue, current, decision>>
historyVars == <<quiet, decided>>
vars == <<engineVars, historyVars>>

-----------------------------------------------------------------------------
(* Ages, the clearance time and the vehicle queue *)

Aged(age, dt) ==
  CASE age = NoTime        -> NoTime
    [] age + dt > TimeCap  -> TimeCap
    [] OTHER               -> age + dt

\* `now - (stamp or now)`: a missing stamp counts as "just now".
Duration(age, dt) == IF age = NoTime THEN 0 ELSE Aged(age, dt)

\* MUTANT: the window is granted one tick early.
WindowOffByOne(duration) == duration + 1 >= Window

WindowConfirmed(duration) == duration >= Window

\* The clearance multipliers 1.5, 1.3 and 1.0, in tenths.
Tenths(class) ==
  CASE class = "PEDESTRIAN" -> 15
    [] class = "HAUL_TRUCK" -> 13
    [] OTHER                -> 10

ClearanceElapsed(class, elapsed) == 10 * elapsed >= Tenths(class) * Clearance

\* A classified vehicle on the front loops joins the queue unless its class
\* is already the last one there.
Arrive(sd) ==
  IF /\ sd.front
     /\ sd.class # "UNKNOWN"
     /\ queue = <<>> \/ queue[Len(queue)] # sd.class
  THEN Append(queue, sd.class)
  ELSE queue

\* An over-speed vehicle empties the whole queue.
Queued(sd) == IF sd.overspeed THEN <<>> ELSE Arrive(sd)

Decide(action, safe) == decision' = [action |-> action, safe |-> safe]

\* The time stamps grow older and nothing else about them changes.
AgeStamps(dt) == /\ stoppedFor' = Aged(stoppedFor, dt)
                 /\ crossingFor' = Aged(crossingFor, dt)

-----------------------------------------------------------------------------
(* _fsm_transition, one action per state and outcome *)

\* MUTANT: the stop is not ordered again.
StopOrderedOnce(dt, sd) ==
  /\ state = "EMERGENCY"
  /\ queue' = Arrive(sd)
  /\ Decide("NONE", FALSE)
  /\ AgeStamps(dt)
  /\ UNCHANGED <<state, current>>

StayInEmergency(dt, sd) ==
  /\ state = "EMERGENCY"
  /\ queue' = Arrive(sd)
  /\ Decide("EMERGENCY_STOP", FALSE)
  /\ AgeStamps(dt)
  /\ UNCHANGED <<state, current>>

BeltKeepsRunning(dt, sd) ==
  /\ state = "BELT_RUNNING_CROSSING_CLOSED"
  /\ sd.belt
  /\ queue' = Queued(sd)
  /\ Decide("NONE", FALSE)
  /\ AgeStamps(dt)
  /\ UNCHANGED <<state, current>>

\* MUTANT: the moment the belt stopped is not recorded.
BeltStopsUnstamped(dt, sd) ==
  /\ state = "BELT_RUNNING_CROSSING_CLOSED"
  /\ ~sd.belt
  /\ state' = "BELT_STOPPED_CHECKING"
  /\ stoppedFor' = NoTime
  /\ crossingFor' = Aged(crossingFor, dt)
  /\ queue' = Queued(sd)
  /\ Decide("WAIT", FALSE)
  /\ UNCHANGED current

BeltStops(dt, sd) ==
  /\ state = "BELT_RUNNING_CROSSING_CLOSED"
  /\ ~sd.belt
  /\ state' = "BELT_STOPPED_CHECKING"
  /\ stoppedFor' = 0
  /\ crossingFor' = Aged(crossingFor, dt)
  /\ queue' = Queued(sd)
  /\ Decide("WAIT", FALSE)
  /\ UNCHANGED current

BeltRestartsWhileChecking(dt, sd) ==
  /\ state = "BELT_STOPPED_CHECKING"
  /\ sd.belt
  /\ state' = "BELT_RUNNING_CROSSING_CLOSED"
  /\ stoppedFor' = NoTime
  /\ crossingFor' = Aged(crossingFor, dt)
  /\ queue' = Queued(sd)
  /\ Decide("NONE", FALSE)
  /\ UNCHANGED current

OpenWindow(dt, sd) ==
  /\ state = "BELT_STOPPED_CHECKING"
  /\ ~sd.belt
  /\ WindowConfirmed(Duration(stoppedFor, dt))
  /\ state' = "SAFE_WINDOW_OPEN"
  /\ queue' = Queued(sd)
  /\ Decide("OPEN_BARRIER", TRUE)
  /\ AgeStamps(dt)
  /\ UNCHANGED current

KeepChecking(dt, sd) ==
  /\ state = "BELT_STOPPED_CHECKING"
  /\ ~sd.belt
  /\ ~WindowConfirmed(Duration(stoppedFor, dt))
  /\ queue' = Queued(sd)
  /\ Decide("WAIT", FALSE)
  /\ AgeStamps(dt)
  /\ UNCHANGED <<state, current>>

\* MUTANT: the engine gives up the window without closing the barriers.
WindowLeftUnclosed(dt, sd) ==
  /\ state = "SAFE_WINDOW_OPEN"
  /\ sd.belt
  /\ state' = "BELT_RUNNING_CROSSING_CLOSED"
  /\ queue' = Queued(sd)
  /\ Decide("NONE", FALSE)
  /\ AgeStamps(dt)
  /\ UNCHANGED current

BeltRestartsInWindow(dt, sd) ==
  /\ state = "SAFE_WINDOW_OPEN"
  /\ sd.belt
  /\ state' = "BELT_RUNNING_CROSSING_CLOSED"
  /\ queue' = Queued(sd)
  /\ Decide("CLOSE_BARRIER", FALSE)
  /\ AgeStamps(dt)
  /\ UNCHANGED current

\* The vehicle that enters is the head of the queue, or the one just sensed.
VehicleEnters(dt, sd) ==
  /\ state = "SAFE_WINDOW_OPEN"
  /\ ~sd.belt
  /\ sd.front \/ sd.rear \/ sd.waiting
  /\ state' = "CROSSING_IN_PROGRESS"
  /\ current' = IF Queued(sd) = <<>> THEN sd.class ELSE Head(Queued(sd))
  /\ queue' = IF Queued(sd) = <<>> THEN <<>> ELSE Tail(Queued(sd))
  /\ stoppedFor' = Aged(stoppedFor, dt)
  /\ crossingFor' = 0
  /\ Decide("SET_TRAFFIC_LIGHT", TRUE)

AwaitVehicle(dt, sd) ==
  /\ state = "SAFE_WINDOW_OPEN"
  /\ ~sd.belt
  /\ ~(sd.front \/ sd.rear \/ sd.waiting)
  /\ queue' = Queued(sd)
  /\ Decide("NONE", TRUE)
  /\ AgeStamps(dt)
  /\ UNCHANGED <<state, current>>

\* MUTANT: the belt starting under a vehicle is treated as the end of the window.
BeltStartsUnderVehicleIgnored(dt, sd) ==
  /\ state = "CROSSING_IN_PROGRESS"
  /\ sd.belt
  /\ state' = "BELT_RUNNING_CROSSING_CLOSED"
  /\ queue' = Queued(sd)
  /\ Decide("NONE", FALSE)
  /\ AgeStamps(dt)
  /\ UNCHANGED current

BeltStartsUnderVehicle(dt, sd) ==
  /\ state = "CROSSING_IN_PROGRESS"
  /\ sd.belt
  /\ state' = "EMERGENCY"
  /\ queue' = Queued(sd)
  /\ Decide("EMERGENCY_STOP", FALSE)
  /\ AgeStamps(dt)
  /\ UNCHANGED current

\* crossing_clear ends the crossing whatever the loops and the clock say.
CrossingCleared(dt, sd) ==
  \/ sd.clear
  \/ /\ ClearanceElapsed(current, Duration(crossingFor, dt))
     /\ ~sd.front
     /\ ~sd.rear

VehicleLeaves(dt, sd) ==
  /\ state = "CROSSING_IN_PROGRESS"
  /\ ~sd.belt
  /\ CrossingCleared(dt, sd)
  /\ state' = "CROSSING_COMPLETE"
  /\ queue' = Queued(sd)
  /\ Decide("CLOSE_BARRIER", FALSE)
  /\ AgeStamps(dt)
  /\ UNCHANGED current

VehicleStillCrossing(dt, sd) ==
  /\ state = "CROSSING_IN_PROGRESS"
  /\ ~sd.belt
  /\ ~CrossingCleared(dt, sd)
  /\ queue' = Queued(sd)
  /\ Decide("NONE", TRUE)
  /\ AgeStamps(dt)
  /\ UNCHANGED <<state, current>>

\* MUTANT: the belt is not looked at before the next vehicle is let in.
NextMayCrossUnchecked(sd) == sd.waiting /\ Queued(sd) # <<>>

NextMayCross(sd) == sd.waiting /\ Queued(sd) # <<>> /\ ~sd.belt

\* The window is declared open again, with the action NONE.
LetNextCross(dt, sd) ==
  /\ state = "CROSSING_COMPLETE"
  /\ NextMayCross(sd)
  /\ state' = "SAFE_WINDOW_OPEN"
  /\ queue' = Queued(sd)
  /\ Decide("NONE", TRUE)
  /\ AgeStamps(dt)
  /\ UNCHANGED current

ReturnToNormal(dt, sd) ==
  /\ state = "CROSSING_COMPLETE"
  /\ ~NextMayCross(sd)
  /\ state' = "BELT_RUNNING_CROSSING_CLOSED"
  /\ stoppedFor' = Aged(stoppedFor, dt)
  /\ crossingFor' = NoTime
  /\ queue' = Queued(sd)
  /\ Decide("SET_TRAFFIC_LIGHT", FALSE)
  /\ UNCHANGED current

Transition(dt, sd) ==
  \/ StayInEmergency(dt, sd)
  \/ BeltKeepsRunning(dt, sd)
  \/ BeltStops(dt, sd)
  \/ BeltRestartsWhileChecking(dt, sd)
  \/ OpenWindow(dt, sd)
  \/ KeepChecking(dt, sd)
  \/ BeltRestartsInWindow(dt, sd)
  \/ VehicleEnters(dt, sd)
  \/ AwaitVehicle(dt, sd)
  \/ BeltStartsUnderVehicle(dt, sd)
  \/ VehicleLeaves(dt, sd)
  \/ VehicleStillCrossing(dt, sd)
  \/ LetNextCross(dt, sd)
  \/ ReturnToNormal(dt, sd)

-----------------------------------------------------------------------------
(* evaluate and the two operator entry points *)

\* What the samples say of the belt, and the barrier order of the decision.
Remember(dt, sd) ==
  /\ quiet' = IF sd.belt THEN NoTime
              ELSE IF quiet = NoTime THEN 0 ELSE Aged(quiet, dt)
  /\ decided' = CASE decision'.action = "OPEN_BARRIER"  -> "OPEN"
                  [] decision'.action = "CLOSE_BARRIER" -> "CLOSE"
                  [] OTHER                              -> decided

Evaluate(dt, sd) ==
  /\ Len(Arrive(sd)) <= MaxQueue   \* bound of the model
  /\ Transition(dt, sd)
  /\ Remember(dt, sd)

ForceEmergency ==
  /\ state' = "EMERGENCY"
  /\ UNCHANGED <<stoppedFor, crossingFor, queue, current, decision, historyVars>>

ResetEmergency ==
  /\ state' = "BELT_RUNNING_CROSSING_CLOSED"
  /\ stoppedFor' = NoTime
  /\ crossingFor' = NoTime
  /\ decided' = IF decided = "OPEN" THEN "LEFT_OPEN" ELSE decided
  /\ UNCHANGED <<queue, current, decision, quiet>>

Init ==
  /\ state = "BELT_RUNNING_CROSSING_CLOSED"
  /\ stoppedFor = NoTime
  /\ crossingFor = NoTime
  /\ queue = <<>>
  /\ current = "UNKNOWN"
  /\ decision = [action |-> "NONE", safe |-> FALSE]
  /\ quiet = NoTime
  /\ decided = "CLOSE"

Poll == \E dt \in Gaps, sd \in Samples : Evaluate(dt, sd)

Next == Poll \/ ForceEmergency \/ ResetEmergency

Spec == Init /\ [][Next]_vars

\* The poll loop of the service never stops calling evaluate.
FairSpec == Spec /\ WF_vars(Poll)

-----------------------------------------------------------------------------
(* Properties *)

\* Every variable has its type: the queue holds classified vehicles only and
\* the ages stay in range (the attributes set up in __init__).
TypeOK ==
  /\ state \in CrossingState
  /\ stoppedFor \in Age
  /\ crossingFor \in Age
  /\ queue \in Seq(Classes \ {"UNKNOWN"})
  /\ Len(queue) <= MaxQueue
  /\ current \in Classes
  /\ decision \in [action: CrossingAction, safe: BOOLEAN]
  /\ quiet \in Age
  /\ decided \in {"CLOSE", "OPEN", "LEFT_OPEN"}

\* The engine says "safe to cross" only when every sample of at least the last
\* Window ticks showed the belt stopped, whatever path led there: the first
\* vehicle, a vehicle let in after another, a reset in between.
SafeNeedsQuietBelt == decision.safe => quiet >= Window

\* Unless an operator reset came in between, an order to open the barriers is
\* in force only while the window or the crossing lasts and the belt has been
\* quiet for Window ticks, or in EMERGENCY: every other way out of the window
\* closes the barriers first.
OpenOnlyInWindow ==
  decided = "OPEN" =>
    \/ state = "EMERGENCY"
    \/ /\ state \in {"SAFE_WINDOW_OPEN", "CROSSING_IN_PROGRESS"}
       /\ quiet >= Window

\* The check of a stopped belt ends: the belt starts again or the window opens.
CheckingEnds ==
  state = "BELT_STOPPED_CHECKING" ~> state # "BELT_STOPPED_CHECKING"
=============================================================================
