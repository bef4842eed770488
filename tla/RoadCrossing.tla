----------------------------- MODULE RoadCrossing -----------------------------
(***************************************************************************)
(* The road-crossing edge service in its plant: the poll task and the      *)
(* command tasks of edge/road_crossing/service.py share one decision       *)
(* engine (CrossingEngine) and drive the barriers, the lights and the      *)
(* emergency-stop node through edge/road_crossing/control.py and the       *)
(* OPC-UA client.                                                          *)
(*                                                                         *)
(* Tasks run on one asyncio loop and lose control only while an OPC-UA     *)
(* read or write is on its way (MQTT publications return at once), so an   *)
(* action is what a task does from one of those awaits to the next.  A     *)
(* call on a disconnected client raises without suspending.                *)
(***************************************************************************)
EXTENDS CrossingEngine

CONSTANTS
  Commands,    \* handler tasks that may be in progress at once
  Zones,       \* TRAFFIC_LIGHT_COUNT
  Attempts     \* _BARRIER_CONFIRM_RETRIES + 1

ASSUME CommandsAssumption == "poll" \notin Commands
ASSUME ZonesAssumption    == Zones \in Nat
ASSUME AttemptsAssumption == Attempts \in Nat \ {0}

Mode == {"AUTO", "MANUAL", "MAINTENANCE"}
Colour == {"RED", "GREEN"}
Tasks == {"poll"} \cup Commands

VARIABLES
  mode,        \* _mode
  task,        \* what each task is waiting for
  connected,   \* OPCUAClient._connected
  barrier,     \* plant: the barriers are open
  lights,      \* plant: the colour of each light head
  estop        \* plant: the emergency-stop node

\* History: the barriers may be open although the engine believes them closed,
\* because of an order or a failure outside the engine's knowledge.
VARIABLE excused

plantVars == <<barrier, lights, estop>>
serviceVars == <<mode, task, connected, excused>>
allVars == <<vars, plantVars, serviceVars>>

-----------------------------------------------------------------------------
(* What a task waits for *)

Idle == [op |-> "idle", n |-> 0, colour |-> "RED", then |-> "nothing"]
Reading == [Idle EXCEPT !.op = "read"]

\* A write is on its way if the client is connected; otherwise every write the
\* operation makes fails at once and it is over.
Await(conn, op, n, colour, then) ==
  IF conn THEN [op |-> op, n |-> n, colour |-> colour, then |-> then] ELSE Idle

AwaitLight(conn, zone, colour, then) ==
  IF zone > Zones THEN Idle ELSE Await(conn, "light", zone, colour, then)

\* Task t goes on to wait for w; an EMERGENCY_STOP handler that has nothing
\* left to wait for forces the engine into EMERGENCY.
GoOn(t, w, then) ==
  /\ task' = [task EXCEPT ![t] = w]
  /\ IF w = Idle /\ then = "force" THEN ForceEmergency ELSE UNCHANGED vars

-----------------------------------------------------------------------------
(* The poll task *)

PollStart ==
  /\ task["poll"] = Idle
  /\ connected
  /\ task' = [task EXCEPT !["poll"] = Reading]
  /\ UNCHANGED <<vars, plantVars, mode, connected, excused>>

\* _execute_action, on the decision just taken.
Execute(conn) ==
  CASE decision'.action = "OPEN_BARRIER"  -> Await(conn, "open", 1, "GREEN", "nothing")
    [] decision'.action = "CLOSE_BARRIER" -> Await(conn, "close", 1, "RED", "nothing")
    [] decision'.action = "SET_TRAFFIC_LIGHT" ->
         AwaitLight(conn, 1, IF decision'.safe THEN "GREEN" ELSE "RED", "nothing")
    [] decision'.action = "EMERGENCY_STOP" -> Await(conn, "estop", 1, "RED", "nothing")
    [] OTHER -> Idle

\* The mode that counts is the one after the sensors were read.
Act(conn) == IF mode = "AUTO" THEN Execute(conn) ELSE Idle

\* From the sample to the next await: evaluate, then the action.
Handle(dt, sd, conn) ==
  /\ Evaluate(dt, sd)
  /\ task' = [task EXCEPT !["poll"] = Act(conn)]
  /\ excused' = (excused \/ (/\ decision'.action = "CLOSE_BARRIER"
                             /\ task'["poll"] = Idle))
  /\ connected' = conn
  /\ UNCHANGED <<plantVars, mode>>

\* read_nodes answered: the sample shows the plant.
PollMeasures(dt, sd) ==
  /\ task["poll"] = Reading
  /\ Handle(dt, sd, connected)

\* read_nodes failed, or there was no connection: the sample is simulated and
\* may differ from the plant.  wait_for runs a write to the barriers as a task
\* of its own, one turn of the loop later: the connection may be back by then.
PollSimulates(dt, sd) ==
  /\ task["poll"] = Reading \/ (task["poll"] = Idle /\ ~connected)
  /\ \E back \in BOOLEAN :
       /\ Handle(dt, sd, back)
       /\ back => decision'.action \in {"OPEN_BARRIER", "CLOSE_BARRIER"}

PollStep ==
  \E dt \in Gaps, sd \in Samples : PollMeasures(dt, sd) \/ PollSimulates(dt, sd)

PollTask == PollStart \/ PollStep

-----------------------------------------------------------------------------
(* handle_command, up to its first await *)

Receive(c, w) ==
  /\ task[c] = Idle
  /\ task' = [task EXCEPT ![c] = w]
  /\ UNCHANGED <<plantVars, mode, connected, excused>>

\* Rejected in MAINTENANCE; neither the belt nor the engine is consulted.
ManualOpen(c) ==
  /\ mode # "MAINTENANCE"
  /\ connected
  /\ Receive(c, Await(TRUE, "open", 1, "GREEN", "nothing"))
  /\ UNCHANGED vars

ManualClose(c) ==
  /\ connected
  /\ Receive(c, Await(TRUE, "close", 1, "RED", "nothing"))
  /\ UNCHANGED vars

EmergencyStop(c) ==
  /\ Receive(c, Await(connected, "estop", 1, "RED", "force"))
  /\ IF connected THEN UNCHANGED vars ELSE ForceEmergency

\* An operator reset taken while the barriers were ordered open, or while an
\* order to open them is on its way, leaves them open in the closed state.
ResetExcuses == excused \/ decided = "OPEN" \/ barrier \/ task["poll"].op = "open"

ResetEmergencyCommand(c) ==
  /\ task[c] = Idle
  /\ task' = [task EXCEPT ![c] = Await(connected, "reset", 1, "RED", "nothing")]
  /\ IF connected
     THEN UNCHANGED <<vars, excused>>
     ELSE ResetEmergency /\ excused' = ResetExcuses
  /\ UNCHANGED <<plantVars, mode, connected>>

SetMode(c, m) ==
  /\ task[c] = Idle
  /\ mode' = m
  /\ UNCHANGED <<vars, plantVars, task, connected, excused>>

Command ==
  \E c \in Commands :
    \/ ManualOpen(c)
    \/ ManualClose(c)
    \/ EmergencyStop(c)
    \/ ResetEmergencyCommand(c)
    \/ \E m \in Mode : SetMode(c, m)

-----------------------------------------------------------------------------
(* The answers to writes.  A write that times out or fails may have been    *)
(* applied; a failure, but not a timeout, marks the client disconnected.    *)

Waiting(t, op) == task[t].op = op

\* Another task's order to open the barriers is on its way.
OpenInFlight(t) == \E u \in Tasks \ {t} : Waiting(u, "open")

OpenConfirmed(t) ==
  /\ Waiting(t, "open")
  /\ barrier' = TRUE
  /\ GoOn(t, AwaitLight(connected, 1, "GREEN", "nothing"), "nothing")
  /\ excused' = (excused \/ t # "poll")
  /\ UNCHANGED <<mode, connected, lights, estop>>

\* Retried while attempts are left.
OpenTimedOut(t) ==
  /\ Waiting(t, "open")
  /\ \E applied \in BOOLEAN :
       /\ barrier' = (barrier \/ applied)
       /\ excused' = (excused \/ (applied /\ t # "poll"))
  /\ GoOn(t, IF task[t].n < Attempts
             THEN Await(connected, "open", task[t].n + 1, "GREEN", "nothing")
             ELSE Idle, "nothing")
  /\ UNCHANGED <<mode, connected, lights, estop>>

\* Retried too: in vain, unless the connection comes back in the meantime.
OpenFailed(t) ==
  /\ Waiting(t, "open")
  /\ \E applied \in BOOLEAN :
       /\ barrier' = (barrier \/ applied)
       /\ excused' = (excused \/ (applied /\ t # "poll"))
  /\ connected' \in BOOLEAN
  /\ connected' => task[t].n < Attempts
  /\ GoOn(t, Await(connected', "open", task[t].n + 1, "GREEN", "nothing"), "nothing")
  /\ UNCHANGED <<mode, lights, estop>>

CloseConfirmed(t) ==
  /\ Waiting(t, "close")
  /\ barrier' = FALSE
  /\ excused' = OpenInFlight(t)
  /\ GoOn(t, AwaitLight(connected, 1, "RED", "nothing"), "nothing")
  /\ UNCHANGED <<mode, connected, lights, estop>>

\* Not retried: the lights go RED all the same, and the barriers may stay open.
CloseTimedOut(t) ==
  /\ Waiting(t, "close")
  /\ \E applied \in BOOLEAN : barrier' = (barrier /\ ~applied)
  /\ excused' = TRUE
  /\ GoOn(t, AwaitLight(connected, 1, "RED", "nothing"), "nothing")
  /\ UNCHANGED <<mode, connected, lights, estop>>

CloseFailed(t) ==
  /\ Waiting(t, "close")
  /\ \E applied \in BOOLEAN : barrier' = (barrier /\ ~applied)
  /\ excused' = TRUE
  /\ connected' = FALSE
  /\ GoOn(t, Idle, "nothing")
  /\ UNCHANGED <<mode, lights, estop>>

LightSet(t) ==
  /\ Waiting(t, "light")
  /\ lights' = [lights EXCEPT ![task[t].n] = task[t].colour]
  /\ GoOn(t, AwaitLight(connected, task[t].n + 1, task[t].colour, task[t].then),
          task[t].then)
  /\ UNCHANGED <<mode, connected, barrier, estop, excused>>

\* The remaining heads fail at once.
LightFailed(t) ==
  /\ Waiting(t, "light")
  /\ \E applied \in BOOLEAN :
       lights' = IF applied THEN [lights EXCEPT ![task[t].n] = task[t].colour] ELSE lights
  /\ connected' = FALSE
  /\ GoOn(t, Idle, task[t].then)
  /\ UNCHANGED <<mode, barrier, estop, excused>>

\* MUTANT: the lights stay as they are.
EstopSetOnly(t) ==
  /\ Waiting(t, "estop")
  /\ estop' = TRUE
  /\ GoOn(t, Idle, task[t].then)
  /\ UNCHANGED <<mode, connected, barrier, lights, excused>>

\* The lights go RED next; the barriers are not touched.
EstopSet(t) ==
  /\ Waiting(t, "estop")
  /\ estop' = TRUE
  /\ GoOn(t, AwaitLight(connected, 1, "RED", task[t].then), task[t].then)
  /\ UNCHANGED <<mode, connected, barrier, lights, excused>>

EstopFailed(t) ==
  /\ Waiting(t, "estop")
  /\ \E applied \in BOOLEAN : estop' = (estop \/ applied)
  /\ connected' = FALSE
  /\ GoOn(t, Idle, task[t].then)
  /\ UNCHANGED <<mode, barrier, lights, excused>>

\* The engine is reset whether or not the node was.
ResetAnswered(t) ==
  /\ Waiting(t, "reset")
  /\ \/ /\ estop' = FALSE
        /\ UNCHANGED connected
     \/ /\ \E applied \in BOOLEAN : estop' = (estop /\ ~applied)
        /\ connected' = FALSE
  /\ task' = [task EXCEPT ![t] = Idle]
  /\ ResetEmergency
  /\ excused' = ResetExcuses
  /\ UNCHANGED <<mode, barrier, lights>>

Answer(t) ==
  \/ OpenConfirmed(t)
  \/ OpenTimedOut(t)
  \/ OpenFailed(t)
  \/ CloseConfirmed(t)
  \/ CloseTimedOut(t)
  \/ CloseFailed(t)
  \/ LightSet(t)
  \/ LightFailed(t)
  \/ EstopSet(t)
  \/ EstopFailed(t)
  \/ ResetAnswered(t)

-----------------------------------------------------------------------------
(* The keepalive and the reconnect loop of the client *)

KeepaliveFails ==
  /\ connected
  /\ connected' = FALSE
  /\ UNCHANGED <<vars, plantVars, mode, task, excused>>

Reconnect ==
  /\ ~connected
  /\ connected' = TRUE
  /\ UNCHANGED <<vars, plantVars, mode, task, excused>>

ServiceInit ==
  /\ Init
  /\ mode = "AUTO"
  /\ task = [t \in Tasks |-> Idle]
  /\ connected = TRUE
  /\ barrier = FALSE
  /\ lights = [z \in 1 .. Zones |-> "RED"]
  /\ estop = FALSE
  /\ excused = FALSE

ServiceNext ==
  \/ PollTask
  \/ Command
  \/ \E t \in Tasks : Answer(t)
  \/ KeepaliveFails
  \/ Reconnect

ServiceSpec == ServiceInit /\ [][ServiceNext]_allVars

\* The poll loop always polls again, every read and write gets an answer in the
\* end (asyncua's request timeout) and the reconnect loop keeps trying.
ServiceFairness ==
  /\ WF_allVars(PollTask)
  /\ WF_allVars(Reconnect)
  /\ \A t \in Tasks : WF_allVars(Answer(t))

FairServiceSpec == ServiceSpec /\ ServiceFairness

-----------------------------------------------------------------------------
(* Properties *)

Wait == [op: {"idle", "read", "open", "close", "light", "estop", "reset"},
         n: 0 .. Attempts \cup 0 .. Zones, colour: Colour,
         then: {"nothing", "force"}]

\* Every variable of the service and of the plant has its type, the engine's
\* included, and an open is attempted Attempts times at most.
ServiceTypeOK ==
  /\ TypeOK
  /\ mode \in Mode
  /\ task \in [Tasks -> Wait]
  /\ \A t \in Tasks : task[t].op = "open" => task[t].n <= Attempts
  /\ connected \in BOOLEAN
  /\ barrier \in BOOLEAN
  /\ lights \in [1 .. Zones -> Colour]
  /\ estop \in BOOLEAN
  /\ excused \in BOOLEAN

\* When the engine believes the crossing closed and no close is on its way, the
\* barriers are closed, but for the ways the code has of losing them: an
\* operator's open, a close that was not confirmed (it is never retried), a
\* close suppressed by the mode, a reset over open barriers.
BarrierFollowsEngine ==
  /\ barrier
  /\ state \in {"BELT_RUNNING_CROSSING_CLOSED", "BELT_STOPPED_CHECKING",
                "CROSSING_COMPLETE"}
  /\ ~ Waiting("poll", "close")
  => excused

\* Once the engine stays in EMERGENCY, in AUTO mode and with the connection up,
\* the emergency-stop node gets set: a write that failed, was made with the
\* connection down or was undone by a reset that raced with the stop is made up
\* for by later polls.
EmergencyEnforced ==
  <>[](state = "EMERGENCY" /\ mode = "AUTO" /\ connected) => <>[]estop

\* While it stays there, every light head shows RED again and again: an open of an
\* operator, or one of the poll's own that overlapped the stop, may turn it GREEN
\* after the stop turned it RED, and the next poll's stop makes up for it.
EmergencyTurnsRed ==
  <>[](state = "EMERGENCY" /\ mode = "AUTO" /\ connected) =>
    \A z \in 1 .. Zones : []<>(lights[z] = "RED")

\* control.py:192 "Writes the emergency stop node, closes barriers, and sets all
\* traffic lights to RED": with the stop set, the connection up and nothing
\* under way, no barrier is open in EMERGENCY.
EmergencyClosesBarriers ==
  /\ state = "EMERGENCY"
  /\ estop
  /\ connected
  /\ \A t \in Tasks : task[t] = Idle
  /\ \A z \in 1 .. Zones : lights[z] = "RED"
  => ~barrier
=============================================================================
