----------------------------- MODULE MqttBridge -----------------------------
(***************************************************************************)
(* The MQTT-Kafka bridge (platform/integration/mqtt_bridge.py).  Upwards,  *)
(* every MQTT message becomes a task on the event loop that claims a key   *)
(* in Redis and sends the message to Kafka; the tasks run concurrently.    *)
(* Downwards, one task reads the command topics and hands each command to  *)
(* the MQTT client, whose network thread brings it to the broker.  The     *)
(* process may be stopped, may crash and is started again.                 *)
(***************************************************************************)
EXTENDS Integers, FiniteSets, SequencesExt

CONSTANTS
  NDeliveries,  \* deliveries 1 .. NDeliveries of MQTT messages, repeated ones included
  Keys,         \* deduplication keys
  KeyOf,        \* the key of each delivery: topic, skid and timestamp of its message
  NCommands,    \* commands 1 .. NCommands are published to Kafka, in this order
  Partitions,   \* partitions of a skid's command topic
  MaxFaults,    \* bound: failures of Redis, Kafka, the forwarding task and the process
  MaxDrops,     \* bound: losses of the MQTT connection
  MaxRuns,      \* bound: starts of the process
  MaxWindow,    \* bound: number of a key's last window
  MaxTraffic    \* bound: deliveries and commands in one behaviour

Deliveries == 1 .. NDeliveries
Commands == 1 .. NCommands

ASSUME KeyAssumption == KeyOf \in [Deliveries -> Keys]
ASSUME BoundsAssumption ==
  {NDeliveries, NCommands, MaxFaults, MaxDrops, MaxRuns, MaxWindow, MaxTraffic} \subseteq Nat

NoOffset == -1

VARIABLES
  mode,        \* the process: "down", "running" or "stopping"
  connected,   \* the MQTT connection
  handler,     \* the task of each delivery
  seen,        \* keys in Redis
  stored,      \* deliveries whose message is in Kafka
  log,         \* commands in each partition
  forwarding,  \* the task that forwards commands: "running" or "ended"
  position,    \* messages of each partition the consumer has returned
  committed,   \* the group's committed offset of each partition
  outbox,      \* commands the MQTT client has no acknowledgement of yet
  reached,     \* how many of these the broker has received on this connection
  arrived,     \* commands received by the broker, in order
  faults, drops, runs

\* History: the window of each key and of each claim; the claims that a failure kept
\* from Kafka; commands dropped for want of a connection, and commands missed because the
\* consumer began after them or the client ended before it sent them.
VARIABLES window, claimed, cut, dropped, missed

upVars == <<handler, seen, stored, window, claimed, cut>>
consumerVars == <<forwarding, position, committed>>
clientVars == <<outbox, reached, arrived>>
fates == <<dropped, missed>>
processVars == <<mode, connected, runs>>
bounds == <<faults, drops>>
downVars == <<log, consumerVars, clientVars, fates>>
vars == <<upVars, downVars, processVars, bounds>>

Fault ==
  /\ faults < MaxFaults
  /\ faults' = faults + 1

Alive == mode # "down"

Published == UNION {Range(log[p]) : p \in Partitions}

Traffic == Cardinality({d \in Deliveries : handler[d] # "none"}) + Cardinality(Published)

-----------------------------------------------------------------------------
(* MQTT to Kafka *)

\* A message to carry upwards, and one that is not: of another topic, or not JSON.
Kinds == {"inbound", "unfit"}

\* The callback runs in the client's thread and schedules a task for the event loop.
Receive(d, kind) ==
  /\ mode = "running"
  /\ connected
  /\ Traffic < MaxTraffic
  /\ handler[d] = "none"
  /\ \A e \in Deliveries : e < d => handler[e] # "none"
  /\ handler' = [handler EXCEPT ![d] = kind]
  /\ UNCHANGED <<seen, stored, window, claimed, cut, downVars, processVars, bounds>>

Ignore(d) ==
  /\ Alive
  /\ handler[d] = "unfit"
  /\ handler' = [handler EXCEPT ![d] = "done"]
  /\ UNCHANGED <<seen, stored, window, claimed, cut, downVars, processVars, bounds>>

Claims(d) ==
  /\ seen' = seen \cup {KeyOf[d]}
  /\ claimed' = [claimed EXCEPT ![d] = window[KeyOf[d]]]

\* MUTANT: SET without NX.
NeverSeen(d) == FALSE

Seen(d) == KeyOf[d] \in seen

\* MUTANT: the key is claimed before the payload is looked at.
DeduplicateUnparsed(d) ==
  /\ Alive
  /\ handler[d] \in Kinds
  /\ IF Seen(d)
     THEN /\ handler' = [handler EXCEPT ![d] = "duplicate"]
          /\ UNCHANGED <<seen, claimed>>
     ELSE /\ Claims(d)
          /\ handler' = [handler EXCEPT
                           ![d] = IF @ = "inbound" THEN "sending" ELSE "done"]
  /\ UNCHANGED <<stored, window, cut, downVars, processVars, bounds>>

\* SET NX EX: one step in Redis looks the key up and sets it.
Deduplicate(d) ==
  /\ Alive
  /\ handler[d] = "inbound"
  /\ IF Seen(d)
     THEN /\ handler' = [handler EXCEPT ![d] = "duplicate"]
          /\ UNCHANGED <<seen, claimed>>
     ELSE /\ Claims(d)
          /\ handler' = [handler EXCEPT ![d] = "sending"]
  /\ UNCHANGED <<stored, window, cut, downVars, processVars, bounds>>

\* The exception is not caught; the key may have been set all the same.
DeduplicateFails(d) ==
  /\ Alive
  /\ handler[d] = "inbound"
  /\ Fault
  /\ handler' = [handler EXCEPT ![d] = "done"]
  /\ \/ UNCHANGED <<seen, claimed, cut>>
     \/ KeyOf[d] \notin seen /\ Claims(d) /\ cut' = cut \cup {d}
  /\ UNCHANGED <<stored, window, downVars, processVars, drops>>

Send(d) ==
  /\ Alive
  /\ handler[d] = "sending"
  /\ handler' = [handler EXCEPT ![d] = "done"]
  /\ stored' = stored \cup {d}
  /\ UNCHANGED <<seen, window, claimed, cut, downVars, processVars, bounds>>

\* The message may be in Kafka although the send failed, and the key stays in Redis.  While
\* the bridge stops, the producer may be closed already.
SendFails(d) ==
  /\ Alive
  /\ handler[d] = "sending"
  /\ \/ Fault /\ stored' \in {stored, stored \cup {d}}
     \/ mode = "stopping" /\ UNCHANGED <<stored, faults>>
  /\ handler' = [handler EXCEPT ![d] = "done"]
  /\ cut' = cut \cup {d}
  /\ UNCHANGED <<seen, window, claimed, downVars, processVars, drops>>

\* Redis forgets a key after DEDUP_WINDOW_S.
Expire(k) ==
  /\ k \in seen
  /\ window[k] < MaxWindow
  /\ seen' = seen \ {k}
  /\ window' = [window EXCEPT ![k] = @ + 1]
  /\ UNCHANGED <<handler, stored, claimed, cut, downVars, processVars, bounds>>

\* The process ends with tasks that have not finished.
TasksEnd ==
  LET open == {d \in Deliveries : handler[d] \in Kinds \cup {"sending"}}
  IN /\ handler' = [d \in Deliveries |-> IF d \in open THEN "done" ELSE handler[d]]
     /\ cut' = cut \cup {d \in open : handler[d] = "sending"}

-----------------------------------------------------------------------------
(* Kafka to MQTT *)

\* The key of a command is its own id: any partition may be the one.
Publish(c) ==
  /\ c \notin Published
  /\ Traffic < MaxTraffic
  /\ \A b \in Commands : b < c => b \in Published
  /\ \E p \in Partitions : log' = [log EXCEPT ![p] = Append(@, c)]
  /\ UNCHANGED <<upVars, consumerVars, clientVars, fates, processVars, bounds>>

Assigned(p) == position[p] # NoOffset

\* MUTANT: the consumer always begins at the end of the partition.
TheEnd(p) == Len(log[p])

\* auto_offset_reset "latest": without a committed offset the group begins at the end.
FirstPosition(p) == IF committed[p] = NoOffset THEN Len(log[p]) ELSE committed[p]

Assign(p) ==
  /\ mode = "running"
  /\ ~Assigned(p)
  /\ position' = [position EXCEPT ![p] = FirstPosition(p)]
  /\ missed' = IF committed[p] = NoOffset THEN missed \cup Range(log[p]) ELSE missed
  /\ UNCHANGED <<upVars, log, forwarding, committed, clientVars, dropped, processVars, bounds>>

Hand(c) ==
  IF connected
  THEN outbox' = Append(outbox, c) /\ UNCHANGED dropped
  ELSE dropped' = dropped \cup {c} /\ UNCHANGED outbox

CanForward(p) ==
  /\ mode = "running"
  /\ forwarding = "running"
  /\ Assigned(p)
  /\ position[p] < Len(log[p])

\* MUTANT: a read of the next command is started before the last one is handed over.
ForwardReadingAhead(p) ==
  /\ CanForward(p)
  /\ \E n \in {1, 2} :
       /\ position[p] + n <= Len(log[p])
       /\ Hand(log[p][position[p] + n])
       /\ position' = [position EXCEPT ![p] = IF n = 1 THEN @ + 1 ELSE @]
  /\ UNCHANGED <<upVars, log, forwarding, committed, reached, arrived, missed, processVars,
                 bounds>>

\* There is no await between the return of a command and the end of its iteration.
Forward(p) ==
  /\ CanForward(p)
  /\ Hand(log[p][position[p] + 1])
  /\ position' = [position EXCEPT ![p] = @ + 1]
  /\ UNCHANGED <<upVars, log, forwarding, committed, reached, arrived, missed,
                 processVars, bounds>>

\* Any error of the consumer or of an iteration ends the task, and nothing starts another.
ForwardingFails ==
  /\ mode = "running"
  /\ forwarding = "running"
  /\ Fault
  /\ forwarding' = "ended"
  /\ UNCHANGED <<upVars, log, position, committed, clientVars, fates, processVars, drops>>

Positions == [p \in Partitions |-> IF Assigned(p) THEN position[p] ELSE committed[p]]

AutoCommit ==
  /\ mode \in {"running", "stopping"}
  /\ committed' = Positions
  /\ UNCHANGED <<upVars, log, forwarding, position, clientVars, fates, processVars, bounds>>

\* The client sends in order; what has no acknowledgement when the connection is lost is
\* sent again over the next one.
BrokerReceives ==
  /\ connected
  /\ reached < Len(outbox)
  /\ arrived' = Append(arrived, outbox[reached + 1])
  /\ reached' = reached + 1
  /\ UNCHANGED <<upVars, log, consumerVars, outbox, fates, processVars, bounds>>

BrokerAcknowledges ==
  /\ connected
  /\ reached > 0
  /\ outbox' = Tail(outbox)
  /\ reached' = reached - 1
  /\ UNCHANGED <<upVars, log, consumerVars, arrived, fates, processVars, bounds>>

-----------------------------------------------------------------------------
(* The process and the MQTT connection *)

\* The session is clean: what the broker held for the bridge is gone.
Connect ==
  /\ mode = "running"
  /\ ~connected
  /\ connected' = TRUE
  /\ UNCHANGED <<upVars, downVars, mode, runs, bounds>>

\* MUTANT: the client is made anew after a lost connection.
MadeAnew == <<>>

ToResend == outbox

Disconnect ==
  /\ connected
  /\ drops < MaxDrops
  /\ drops' = drops + 1
  /\ connected' = FALSE
  /\ outbox' = ToResend
  /\ reached' = 0
  /\ UNCHANGED <<upVars, log, consumerVars, arrived, fates, mode, runs, faults>>

Start ==
  /\ mode = "down"
  /\ runs < MaxRuns
  /\ runs' = runs + 1
  /\ mode' = "running"
  /\ forwarding' = "running"
  /\ UNCHANGED <<upVars, log, position, committed, clientVars, fates, connected, bounds>>

\* The MQTT thread is stopped, and with it what the client has not brought to the broker.
ClientEnds ==
  /\ connected' = FALSE
  /\ missed' = missed \cup Range(outbox)
  /\ outbox' = <<>>
  /\ reached' = 0
  /\ forwarding' = "ended"

Stop ==
  /\ mode = "running"
  /\ mode' = "stopping"
  /\ ClientEnds
  /\ UNCHANGED <<upVars, log, position, committed, arrived, dropped, runs, bounds>>

Unassigned == [p \in Partitions |-> NoOffset]

\* The consumer commits and the producer is closed; the loop ends with the process, and with
\* it the tasks that have not finished.
Exit ==
  /\ mode = "stopping"
  /\ mode' = "down"
  /\ committed' = Positions
  /\ position' = Unassigned
  /\ TasksEnd
  /\ UNCHANGED <<seen, stored, window, claimed, log, forwarding, clientVars, fates, connected,
                 runs, bounds>>

Crash ==
  /\ Alive
  /\ Fault
  /\ mode' = "down"
  /\ TasksEnd
  /\ ClientEnds
  /\ position' = Unassigned
  /\ UNCHANGED <<seen, stored, window, claimed, log, committed, arrived, dropped, runs, drops>>

-----------------------------------------------------------------------------
Init ==
  /\ mode = "down" /\ connected = FALSE /\ forwarding = "ended"
  /\ handler = [d \in Deliveries |-> "none"]
  /\ seen = {} /\ stored = {} /\ cut = {}
  /\ window = [k \in Keys |-> 1] /\ claimed = [d \in Deliveries |-> 0]
  /\ log = [p \in Partitions |-> <<>>]
  /\ position = Unassigned /\ committed = Unassigned
  /\ outbox = <<>> /\ reached = 0 /\ arrived = <<>>
  /\ dropped = {} /\ missed = {}
  /\ faults = 0 /\ drops = 0 /\ runs = 0

Uplink ==
  \/ \E d \in Deliveries :
       \/ \E kind \in Kinds : Receive(d, kind)
       \/ Ignore(d)
       \/ Deduplicate(d)
       \/ DeduplicateFails(d)
       \/ Send(d)
       \/ SendFails(d)
  \/ \E k \in Keys : Expire(k)

Downlink ==
  \/ \E c \in Commands : Publish(c)
  \/ \E p \in Partitions : Assign(p) \/ Forward(p)
  \/ ForwardingFails
  \/ AutoCommit
  \/ BrokerReceives
  \/ BrokerAcknowledges

Process ==
  \/ Connect \/ Disconnect
  \/ Start \/ Stop \/ Exit
  \/ Crash

Next == Uplink \/ Downlink \/ Process

Spec == Init /\ [][Next]_vars

\* The loop runs its tasks; the client's thread reconnects and sends; the process is
\* started again when it has ended.
Fairness ==
  /\ \A d \in Deliveries :
       WF_vars(Ignore(d)) /\ WF_vars(Deduplicate(d)) /\ WF_vars(Send(d) \/ SendFails(d))
  /\ \A p \in Partitions : WF_vars(Assign(p)) /\ WF_vars(Forward(p))
  /\ WF_vars(Connect) /\ WF_vars(BrokerReceives) /\ WF_vars(BrokerAcknowledges)
  /\ WF_vars(Start) /\ WF_vars(Exit)

FairSpec == Spec /\ Fairness

-----------------------------------------------------------------------------
(* Properties *)

TypeOK ==
  /\ mode \in {"down", "running", "stopping"}
  /\ connected \in BOOLEAN
  /\ handler \in [Deliveries -> Kinds \cup {"none", "sending", "duplicate", "done"}]
  /\ seen \subseteq Keys
  /\ stored \subseteq Deliveries
  /\ log \in [Partitions -> Seq(Commands)]
  /\ forwarding \in {"running", "ended"}
  /\ position \in [Partitions -> Nat \cup {NoOffset}]
  /\ committed \in [Partitions -> Nat \cup {NoOffset}]
  /\ \A p \in Partitions : position[p] <= Len(log[p]) /\ committed[p] <= Len(log[p])
  /\ outbox \in Seq(Commands)
  /\ reached \in Nat /\ reached <= Len(outbox)
  /\ arrived \in Seq(Commands)
  /\ faults \in Nat /\ drops \in Nat /\ runs \in Nat
  /\ window \in [Keys -> Nat \ {0}]
  /\ claimed \in [Deliveries -> Nat]
  /\ cut \subseteq Deliveries
  /\ dropped \subseteq Commands /\ missed \subseteq Commands

\* A delivery is given up as a duplicate only if another one of its key is in Kafka or on its
\* way there, or was kept from Kafka by a failure after it had claimed the key.
SuppressedHasOriginal ==
  \A d \in Deliveries : handler[d] = "duplicate" =>
    \E e \in Deliveries \ {d} :
      /\ KeyOf[e] = KeyOf[d]
      /\ e \in stored \cup cut \/ handler[e] = "sending"

\* The tasks implement a deduplication window whatever fails.
Window == INSTANCE OncePerWindow WITH open <- seen, passed <- stored
ImplementsWindow == Window!WSpec

\* An offset is committed only for commands that were handed to the MQTT client or dropped
\* for a reason: none that was still to be forwarded is passed over after a restart.
CommittedWasHandled ==
  \A p \in Partitions : \A i \in 1 .. committed[p] :
    log[p][i] \in Range(arrived) \cup Range(outbox) \cup dropped \cup missed

FirstArrival(c) == CHOOSE i \in DOMAIN arrived : arrived[i] = c /\ \A j \in 1 .. i - 1 : arrived[j] # c

\* Commands of one partition reach the broker in the order in which they were published,
\* over lost connections, stops and crashes.  A command dropped for want of a connection
\* may come late: when its offset was not committed it is read again after a crash.
InOrderPerPartition ==
  \A p \in Partitions : \A i, j \in DOMAIN log[p] :
    /\ i < j
    /\ {log[p][i], log[p][j]} \subseteq Range(arrived)
    /\ log[p][i] \notin dropped
    =>
      FirstArrival(log[p][i]) < FirstArrival(log[p][j])

\* A published command reaches the broker unless one of the ways to lose it was met: no
\* committed offset yet, no connection, the end of the client, the end of the task.
CommandArrives ==
  \A c \in Commands :
    c \in Published ~> c \in Range(arrived) \cup dropped \cup missed
                       \/ (mode = "running" /\ forwarding = "ended")
                       \/ (mode = "down" /\ runs = MaxRuns)
=============================================================================
