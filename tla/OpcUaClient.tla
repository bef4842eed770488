---------------------------- MODULE OpcUaClient ----------------------------
(***************************************************************************)
(* The OPC-UA client of a skid (edge/common/opcua_client.py): a session    *)
(* that a background task opens again after a failure, a keepalive task    *)
(* per session, operations of several tasks in flight at once, and         *)
(* subscriptions created again on every new session.  Everything runs on   *)
(* one event loop; an action is what a task does from one await to the     *)
(* next.  Sessions are names: one that nothing refers to is used again.    *)
(***************************************************************************)
EXTENDS Naturals, Sequences, FiniteSets

CONSTANTS
  Callers,        \* tasks that call the client, one operation of each at a time
  Sessions,       \* names for asyncua Client objects, their sessions and keepalive tasks
  Subscriptions,  \* what subscribe_nodes is called with
  None,
  MaxFaults       \* bound: sessions lost or refused, and operations the server rejects

ASSUME NoneAssumption == None \notin Sessions \cup Subscriptions
ASSUME FaultsAssumption == MaxFaults \in Nat

VARIABLES
  client,      \* self._client, or None
  connected,   \* self._connected
  session,     \* how each session is: "none", "opening", "open", "lost" or "closed"
  keepalive,   \* self._keepalive_task, named after its session, or None
  alive,       \* keepalive tasks that have not ended
  linker,      \* connect() and then the reconnect task, which is the same loop
  index,       \* the entry of `registered` that is being created again
  registered,  \* self._pending_subscriptions
  monitored,   \* what the server monitors for each session
  refused,     \* what it refused to monitor for each session
  op,          \* operation in flight of each caller: its session and what it subscribes to
  faults

linkVars == <<client, connected, session, keepalive, alive, linker, index>>
subscriptionVars == <<registered, monitored, refused>>
opcVars == <<linkVars, subscriptionVars, op, faults>>

Idle == [session |-> None, sub |-> None]
Busy(c) == op[c] # Idle

OpcTypeOK ==
  /\ client \in Sessions \cup {None}
  /\ connected \in BOOLEAN
  /\ session \in [Sessions -> {"none", "opening", "open", "lost", "closed"}]
  /\ keepalive \in Sessions \cup {None}
  /\ alive \subseteq Sessions
  /\ linker \in {"idle", "connecting", "restoring", "asleep", "closed"}
  /\ index \in Nat
  /\ registered \in Seq(Subscriptions)
  /\ monitored \in [Sessions -> SUBSET Subscriptions]
  /\ refused \in [Sessions -> SUBSET Subscriptions]
  /\ op \in [Callers -> [session : Sessions \cup {None}, sub : Subscriptions \cup {None}]]
  /\ faults \in Nat

OpcInit ==
  /\ client = None /\ connected = FALSE
  /\ session = [s \in Sessions |-> "none"]
  /\ keepalive = None /\ alive = {}
  /\ linker = "idle" /\ index = 1
  /\ registered = <<>>
  /\ monitored = [s \in Sessions |-> {}] /\ refused = [s \in Sessions |-> {}]
  /\ op = [c \in Callers |-> Idle]
  /\ faults = 0

IsOpen(s) == s \in Sessions /\ session[s] = "open"

Fault == faults < MaxFaults /\ faults' = faults + 1

\* Either the session is gone, which shows in every answer, or the server says no once.
NoAnswer(s) == ~IsOpen(s) /\ UNCHANGED faults
Rejected(s) == IsOpen(s) /\ Fault

-----------------------------------------------------------------------------
(* Opening sessions *)

\* Sessions that tasks other than the one that opens them still refer to.
InUse == alive \cup {op[c].session : c \in Callers}
Unused == Sessions \ InUse

\* Of a session that nothing refers to any more only its name is left, to be used again.
Only(f, names, other) == [s \in Sessions |-> IF s \in names THEN f[s] ELSE other]

\* _do_connect, to its await: a new Client replaces the old one, which nobody closes.
OpenClient ==
  /\ Unused # {}
  /\ client' = CHOOSE s \in Unused : TRUE
  /\ session' = [Only(session, InUse, "none") EXCEPT ![client'] = "opening"]
  /\ monitored' = Only(monitored, InUse, {})
  /\ refused' = Only(refused, InUse, {})
  /\ linker' = "connecting"
  /\ UNCHANGED <<connected, keepalive, alive, index, registered, op, faults>>

Connect == linker = "idle" /\ OpenClient

\* After the backoff: the task sleeps on while the client is connected.
Retry == linker = "asleep" /\ ~connected /\ OpenClient

\* MUTANT: the loop stops one entry early.
AfterRestoringShort(i) == IF i >= Len(registered) THEN "asleep" ELSE "restoring"

\* The loop over the subscriptions ends at the end that the list then has.
AfterRestoring(i) == IF i > Len(registered) THEN "asleep" ELSE "restoring"

\* MUTANT: the reconnect task starts no keepalive task.
NoKeepalive(s) == keepalive' = s /\ UNCHANGED alive

NewKeepalive(s) == keepalive' = s /\ alive' = alive \cup {s}

Opened ==
  /\ linker = "connecting"
  /\ session' = [session EXCEPT ![client] = "open"]
  /\ connected' = TRUE
  /\ NewKeepalive(client)
  /\ index' = 1
  /\ linker' = AfterRestoring(1)
  /\ UNCHANGED <<client, subscriptionVars, op, faults>>

OpenFails ==
  /\ linker = "connecting"
  /\ Fault
  /\ session' = [session EXCEPT ![client] = "lost"]
  /\ linker' = "asleep"
  /\ UNCHANGED <<client, connected, keepalive, alive, index, subscriptionVars, op>>

\* _restore_subscriptions, one entry: a failure is logged and the next entry is tried.
Restore ==
  /\ linker = "restoring"
  /\ LET sub == registered[index]
     IN \/ /\ IsOpen(client)
           /\ monitored' = [monitored EXCEPT ![client] = @ \cup {sub}]
           /\ UNCHANGED <<refused, faults>>
        \/ Rejected(client) /\ refused' = [refused EXCEPT ![client] = @ \cup {sub}] /\ UNCHANGED monitored
        \/ NoAnswer(client) /\ UNCHANGED <<monitored, refused>>
  /\ index' = index + 1
  /\ linker' = AfterRestoring(index + 1)
  /\ UNCHANGED <<client, connected, session, keepalive, alive, registered, op>>

-----------------------------------------------------------------------------
(* Failures *)

Lose(s) ==
  /\ IsOpen(s) /\ Fault
  /\ session' = [session EXCEPT ![s] = "lost"]
  /\ UNCHANGED <<client, connected, keepalive, alive, linker, index, subscriptionVars, op>>

\* MUTANT: the keepalive task is not cancelled.
HandleErrorOnly == connected' = FALSE /\ UNCHANGED alive

\* _handle_error: whichever session the error came from.
HandleError ==
  /\ connected' = FALSE
  /\ alive' = alive \ {keepalive}

\* The keepalive task reads the server state of the client there is then; any exception of the
\* read counts, also one on an open session.  A read that is cancelled ends the task, so sleep
\* and read are one step here.
KeepaliveFails(k) ==
  /\ k \in alive /\ client # None
  /\ NoAnswer(client) \/ Rejected(client)
  /\ connected' = FALSE
  /\ alive' = alive \ {keepalive, k}
  /\ UNCHANGED <<client, session, keepalive, linker, index, subscriptionVars, op>>

-----------------------------------------------------------------------------
(* Operations: read_node, read_nodes, write_node, call_method *)

\* _assert_connected; a call that it refuses changes nothing.
Usable == connected /\ client # None

Operate(c) ==
  /\ ~Busy(c) /\ Usable
  /\ op' = [op EXCEPT ![c] = [session |-> client, sub |-> None]]
  /\ UNCHANGED <<linkVars, subscriptionVars, faults>>

Answered(c) ==
  /\ Busy(c) /\ op[c].sub = None /\ IsOpen(op[c].session)
  /\ op' = [op EXCEPT ![c] = Idle]
  /\ UNCHANGED <<linkVars, subscriptionVars, faults>>

OperationFails(c) ==
  /\ Busy(c) /\ op[c].sub = None
  /\ NoAnswer(op[c].session) \/ Rejected(op[c].session)
  /\ HandleError
  /\ op' = [op EXCEPT ![c] = Idle]
  /\ UNCHANGED <<client, session, keepalive, linker, index, subscriptionVars>>

\* subscribe_nodes: remembered first, then created if there is a connection.
Subscribe(c, sub) ==
  /\ ~Busy(c) /\ \A i \in DOMAIN registered : registered[i] # sub
  /\ registered' = Append(registered, sub)
  /\ op' = IF Usable THEN [op EXCEPT ![c] = [session |-> client, sub |-> sub]] ELSE op
  /\ UNCHANGED <<linkVars, monitored, refused, faults>>

Subscribed(c) ==
  LET s == op[c].session
  IN /\ op[c].sub # None /\ IsOpen(s)
     /\ monitored' = [monitored EXCEPT ![s] = @ \cup {op[c].sub}]
     /\ op' = [op EXCEPT ![c] = Idle]
     /\ UNCHANGED <<linkVars, registered, refused, faults>>

\* The caller gets the error, and the client takes the connection to be as it was.
SubscribeFails(c) ==
  LET s == op[c].session
  IN /\ op[c].sub # None
     /\ \/ NoAnswer(s) /\ UNCHANGED refused
        \/ Rejected(s) /\ refused' = [refused EXCEPT ![s] = @ \cup {op[c].sub}]
     /\ op' = [op EXCEPT ![c] = Idle]
     /\ UNCHANGED <<linkVars, registered, monitored>>

Returns(c) == Answered(c) \/ OperationFails(c) \/ Subscribed(c) \/ SubscribeFails(c)

-----------------------------------------------------------------------------
(* disconnect: cancel both tasks, close the session, forget the client *)

\* MUTANT: the reconnect task is not cancelled.
DisconnectBeginsLooping ==
  /\ alive' = alive \ {keepalive}
  /\ session' = [s \in Sessions |-> IF s = client THEN "closed" ELSE session[s]]
  /\ UNCHANGED <<client, connected, keepalive, linker, index, subscriptionVars, op, faults>>

DisconnectBegins ==
  /\ linker' = "closed"
  /\ alive' = alive \ {keepalive}
  /\ session' = [s \in Sessions |-> IF s = client THEN "closed" ELSE session[s]]
  /\ UNCHANGED <<client, connected, keepalive, index, subscriptionVars, op, faults>>

\* It has awaited the tasks that it cancelled.
DisconnectEnds ==
  /\ linker = "closed" /\ keepalive \notin alive
  /\ connected' = FALSE
  /\ client' = None
  /\ UNCHANGED <<session, keepalive, alive, linker, index, subscriptionVars, op, faults>>

OpcNext ==
  \/ Connect \/ Retry \/ Opened \/ OpenFails \/ Restore
  \/ \E s \in Sessions : Lose(s) \/ KeepaliveFails(s)
  \/ \E c \in Callers : Operate(c) \/ Returns(c) \/ \E sub \in Subscriptions : Subscribe(c, sub)
  \/ DisconnectBegins \/ DisconnectEnds

OpcSpec == OpcInit /\ [][OpcNext]_opcVars

-----------------------------------------------------------------------------
(* Properties *)

\* While the client takes itself to be connected exactly one keepalive task watches the session, the
\* one that _handle_error and disconnect would cancel; otherwise none is left that could later
\* mark a newer connection as failed.
OneKeepalive ==
  alive = IF connected /\ linker # "closed" THEN {keepalive} ELSE {}

\* After a reconnect nothing subscribed to is forgotten: once the loop is back to waiting, an entry
\* is monitored on the open session, was refused on it, or its first creation is under way.
SubscriptionsKept ==
  linker = "asleep" /\ connected /\ IsOpen(client) =>
    \A i \in DOMAIN registered :
       \/ registered[i] \in monitored[client] \cup refused[client]
       \/ \E c \in Callers : op[c] = [session |-> client, sub |-> registered[i]]
=============================================================================
