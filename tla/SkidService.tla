---------------------------- MODULE SkidService ----------------------------
(***************************************************************************)
(* The life of a skid service (edge/common/base_skid.py): run() starts the *)
(* clients one after the other, then the poll loop and the command         *)
(* listener, waits for a shutdown signal, and stops the clients while      *)
(* polls and commands may be in flight on them.  A subclass polls and      *)
(* handles commands through OpcUaClient and ModbusAdapter; MqttPublisher   *)
(* has the MQTT connection, which is up or down here at any time.          *)
(***************************************************************************)
EXTENDS OpcUaClient, ModbusAdapter

CONSTANT Poller  \* the caller that is the poll loop; the others are handlers of commands

ASSUME PollerAssumption == Poller \in Callers /\ BusCallers = Callers

VARIABLES
  main,      \* where run() is
  shutdown,  \* self._shutdown_event
  running,   \* self._running
  poll,      \* the poll loop: "none", "asleep", "polling" or "ended"
  listener,  \* the command listener: "none", "waiting", "subscribed" or "ended"
  handling   \* callers that handle a command

serviceVars == <<main, shutdown, running, poll, listener, handling>>
vars == <<opcVars, busVars, serviceVars>>

TypeOK ==
  /\ OpcTypeOK /\ BusTypeOK
  /\ main \in {"init", "mqtt", "opcua", "modbus", "running", "closing", "stopped"}
  /\ {shutdown, running} \subseteq BOOLEAN
  /\ poll \in {"none", "asleep", "polling", "ended"}
  /\ listener \in {"none", "waiting", "subscribed", "ended"}
  /\ handling \subseteq Callers \ {Poller}

Init ==
  /\ OpcInit /\ BusInit
  /\ main = "init" /\ shutdown = FALSE /\ running = FALSE
  /\ poll = "none" /\ listener = "none"
  /\ handling = {}

\* Steps of one part of the service, for as long as run() has not returned.
OpcStep(A) == main # "stopped" /\ A /\ UNCHANGED <<busVars, serviceVars>>
BusStep(A) == main # "stopped" /\ A /\ UNCHANGED <<opcVars, serviceVars>>
ServiceStep == main # "stopped" /\ UNCHANGED <<opcVars, busVars>>

-----------------------------------------------------------------------------
(* start: each client in turn, for as long as it takes *)

StartMqtt ==
  /\ main = "init"
  /\ running' = TRUE /\ main' = "mqtt"
  /\ UNCHANGED <<shutdown, poll, listener, handling>> /\ ServiceStep

MqttStarted ==
  /\ main = "mqtt"
  /\ Connect
  /\ main' = "opcua"
  /\ UNCHANGED <<busVars, shutdown, running, poll, listener, handling>>

CreateTasks ==
  /\ main' = "running" /\ poll' = "asleep" /\ listener' = "waiting"

\* connect() returns, the reconnect task is created, and without Modbus so are the others.
OpcUaStarted ==
  /\ main = "opcua"
  /\ Opened
  /\ IF bus = "disabled" THEN CreateTasks ELSE main' = "modbus" /\ UNCHANGED <<poll, listener>>
  /\ UNCHANGED <<busVars, shutdown, running, handling>>

ModbusStarted ==
  /\ main = "modbus"
  /\ BusOpens
  /\ CreateTasks
  /\ UNCHANGED <<opcVars, shutdown, running, handling>>

-----------------------------------------------------------------------------
(* stop *)

Signal ==
  /\ ~shutdown /\ shutdown' = TRUE
  /\ UNCHANGED <<main, running, poll, listener, handling>> /\ ServiceStep

\* The event is waited for only once everything has started.  MQTT is disconnected without an
\* await, so that no command arrives any more, and OPC-UA as far as its first one.
StopBegins ==
  /\ main = "running" /\ shutdown
  /\ running' = FALSE
  /\ DisconnectBegins
  /\ main' = "closing"
  /\ UNCHANGED <<busVars, shutdown, poll, listener, handling>>

\* Modbus is disconnected without an await; then the event loop stops under the tasks left.
StopEnds ==
  /\ main = "closing"
  /\ DisconnectEnds
  /\ BusCloses /\ UNCHANGED <<holder, queue>>
  /\ main' = "stopped"
  /\ UNCHANGED <<shutdown, running, poll, listener, handling>>

-----------------------------------------------------------------------------
(* The poll loop and the command listener *)

InFlight(c) == Busy(c) \/ OnBus(c)

PollBegins ==
  /\ poll = "asleep" /\ running
  /\ poll' = "polling"
  /\ UNCHANGED <<main, shutdown, running, listener, handling>> /\ ServiceStep

\* The poll returns or raises, which the loop logs and counts.
PollEnds ==
  /\ poll = "polling" /\ ~InFlight(Poller)
  /\ poll' = "asleep"
  /\ UNCHANGED <<main, shutdown, running, listener, handling>> /\ ServiceStep

PollLoopEnds ==
  /\ poll = "asleep" /\ ~running
  /\ poll' = "ended"
  /\ UNCHANGED <<main, shutdown, running, listener, handling>> /\ ServiceStep

\* Every second: subscribe if the broker is there then, give up when the service stops.
Listen ==
  /\ listener = "waiting"
  /\ \/ running /\ listener' = "subscribed"
     \/ ~running /\ listener' = "ended"
  /\ UNCHANGED <<main, shutdown, running, poll, handling>> /\ ServiceStep

CommandArrives(c) ==
  /\ listener = "subscribed" /\ running /\ c \in Callers \ (handling \cup {Poller})
  /\ handling' = handling \cup {c}
  /\ UNCHANGED <<main, shutdown, running, poll, listener>> /\ ServiceStep

\* _on_command: whatever the handler raises is logged.
CommandEnds(c) ==
  /\ c \in handling /\ ~InFlight(c)
  /\ handling' = handling \ {c}
  /\ UNCHANGED <<main, shutdown, running, poll, listener>> /\ ServiceStep

\* What a poll or a handler does: any operation of either client.
Active(c) == IF c = Poller THEN poll = "polling" ELSE c \in handling

Operates(c) ==
  /\ Active(c) /\ ~InFlight(c)
  /\ \/ OpcStep(Operate(c))
     \/ OpcStep(\E sub \in Subscriptions : Subscribe(c, sub))
     \/ BusStep(Request(c))

Reconnects == OpcStep(Retry) \/ (main # "opcua" /\ OpcStep(Opened))
Restores == OpcStep(Restore)
KeepaliveEnds == \E s \in Sessions : OpcStep(KeepaliveFails(s))
NoticesLoss == ~IsOpen(client) /\ KeepaliveEnds
OperationReturns(c) == OpcStep(Returns(c))

Next ==
  \/ StartMqtt \/ MqttStarted \/ OpcUaStarted \/ ModbusStarted
  \/ Signal \/ StopBegins \/ StopEnds
  \/ PollBegins \/ PollEnds \/ PollLoopEnds \/ Listen
  \/ Reconnects \/ Restores \/ KeepaliveEnds \/ OpcStep(OpenFails)
  \/ \E s \in Sessions : OpcStep(Lose(s))
  \/ BusStep(Acquire) \/ BusStep(LinkFlips)
  \/ \E c \in Callers : CommandArrives(c) \/ CommandEnds(c) \/ Operates(c)
                        \/ OperationReturns(c) \/ BusStep(BusReturns(c))

Spec == Init /\ [][Next]_vars

\* Tasks that are ready run, sleeps end, operations are answered or fail.
Fairness ==
  /\ WF_vars(Reconnects) /\ WF_vars(Restores) /\ WF_vars(NoticesLoss)
  /\ WF_vars(StopBegins \/ StopEnds)
  /\ \A c \in Callers : WF_vars(OperationReturns(c))

FairSpec == Spec /\ Fairness

-----------------------------------------------------------------------------
(* Properties *)

\* Polls and commands in flight when stop() begins fail on the session it closes and mark the link
\* as down, which is what wakes the reconnect loop: from the first await of stop() to its end no
\* session is opened all the same, and no keepalive task is started.
StopOpensNothing ==
  [][main = "closing" =>
       /\ \A s \in Sessions : session'[s] \in {"opening", "open"} => session'[s] = session[s]
       /\ alive' \subseteq alive]_vars

\* A running service whose OPC-UA session is lost, however it shows and whatever is in flight on
\* the old session, gets a new one, unless it is told to stop (_reconnect_loop).
LinkRecovers == main = "running" ~> (shutdown \/ (connected /\ IsOpen(client)))

\* A service that runs and gets a signal stops, with polls and commands in flight or waiting.
ShutdownCompletes == main = "running" /\ shutdown ~> main = "stopped"
=============================================================================
