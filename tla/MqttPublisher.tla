--------------------------- MODULE MqttPublisher ---------------------------
(***************************************************************************)
(* The MQTT publisher of the edge services (edge/common/mqtt_publisher.py).*)
(*                                                                         *)
(* Two threads share its attributes.  The asyncio loop runs publish,       *)
(* subscribe and _flush_buffer, none of which awaits anything, so they     *)
(* exclude each other; paho's network thread runs the callbacks, which may *)
(* come between any two steps of the loop.  paho and the broker are        *)
(* modelled from how the publisher uses them: QoS is at least 1, so paho   *)
(* keeps a message until it is acknowledged, sends it again on the next    *)
(* connection, and keeps it even when publish answers MQTT_ERR_NO_CONN; an *)
(* exception in a callback ends the network thread.                        *)
(***************************************************************************)
EXTENDS Integers, Sequences, FiniteSets, Functions

CONSTANTS
  N,          \* messages 1 .. N are published, in this order
  Capacity,   \* BUFFER_SIZE
  Topics,     \* topics subscribed to
  MaxLosses   \* bound of the model on lost connections

ASSUME NAssumption         == N \in Nat
ASSUME CapacityAssumption  == Capacity \in Nat \ {0}
ASSUME TopicsAssumption    == Topics \cap Int = {}
ASSUME MaxLossesAssumption == MaxLosses \in Nat

Messages == 1 .. N

VARIABLES
  connected,   \* _connected
  buffer,      \* _buffer
  subs,        \* the keys of _subscriptions
  flushes,     \* _flush_buffer coroutines handed to the loop and not yet run
  loop,        \* what the loop is doing
  published    \* how many messages publish has been given

\* paho and the broker
VARIABLES
  paho,        \* where the network thread is
  todo,        \* topics on_connect has still to subscribe
  seen,        \* _subscriptions when on_connect began to iterate over it
  unsent,      \* messages paho keeps for the next connection
  wire,        \* messages paho sends on this connection, not yet received
  unacked,     \* received on this connection, not yet acknowledged
  session,     \* topics subscribed at the broker on this connection
  arrived,     \* messages the broker received
  losses       \* lost connections

loopVars == <<buffer, subs, loop, published>>
queueVars == <<unsent, wire, unacked, arrived>>
vars == <<connected, flushes, loopVars, paho, todo, seen, queueVars, session, losses>>

-----------------------------------------------------------------------------
(* paho's network thread and the broker *)

\* paho has a socket: publish answers MQTT_ERR_SUCCESS.
SocketUp == paho \notin {"down", "closed", "stopped"}

\* The thread serves the socket.
Serving == paho \in {"opened", "subscribing", "scheduling", "resending", "up"}

Connect ==
  /\ paho = "down"
  /\ paho' = "opened"
  /\ session' = {}
  /\ UNCHANGED <<connected, flushes, loopVars, todo, seen, queueVars, losses>>

\* MUTANT: the broker is trusted to remember the subscriptions.
OnConnectWithoutTopics ==
  /\ paho = "opened"
  /\ paho' = "subscribing"
  /\ connected' = TRUE
  /\ todo' = {}
  /\ seen' = subs
  /\ UNCHANGED <<flushes, loopVars, queueVars, session, losses>>

\* on_connect, up to its loop over the registered topics.
OnConnect ==
  /\ paho = "opened"
  /\ paho' = "subscribing"
  /\ connected' = TRUE
  /\ todo' = subs
  /\ seen' = subs
  /\ UNCHANGED <<flushes, loopVars, queueVars, session, losses>>

Resubscribe(t) ==
  /\ paho = "subscribing"
  /\ subs = seen
  /\ t \in todo
  /\ todo' = todo \ {t}
  /\ session' = session \cup {t}
  /\ UNCHANGED <<connected, flushes, loopVars, paho, seen, queueVars, losses>>

\* A key added meanwhile: RuntimeError, "dictionary changed size".
IterationBreaks ==
  /\ paho = "subscribing"
  /\ subs # seen
  /\ paho' = "dead"
  /\ UNCHANGED <<connected, flushes, loopVars, todo, seen, queueVars, session, losses>>

AllResubscribed ==
  /\ paho = "subscribing"
  /\ subs = seen
  /\ todo = {}
  /\ paho' = "scheduling"
  /\ UNCHANGED <<connected, flushes, loopVars, todo, seen, queueVars, session, losses>>

\* MUTANT: nothing flushes the buffer after a reconnection.
FlushNotScheduled ==
  /\ paho = "scheduling"
  /\ paho' = "resending"
  /\ UNCHANGED <<connected, flushes, loopVars, todo, seen, queueVars, session, losses>>

ScheduleFlush ==
  /\ paho = "scheduling"
  /\ flushes' = flushes + 1
  /\ paho' = "resending"
  /\ UNCHANGED <<connected, loopVars, todo, seen, queueVars, session, losses>>

\* paho, after the callback: what the last connection left unacknowledged.
Resend ==
  /\ paho = "resending"
  /\ wire' = wire \o unsent
  /\ unsent' = <<>>
  /\ paho' = "up"
  /\ UNCHANGED <<connected, flushes, loopVars, todo, seen, unacked, arrived, session, losses>>

LoseConnection ==
  /\ paho \in {"opened", "up"}
  /\ losses < MaxLosses   \* bound of the model
  /\ losses' = losses + 1
  /\ paho' = "closed"
  /\ unsent' = unsent \o unacked \o wire
  /\ unacked' = <<>>
  /\ wire' = <<>>
  /\ session' = {}
  /\ UNCHANGED <<connected, flushes, loopVars, todo, seen, arrived>>

OnDisconnect ==
  /\ paho = "closed"
  /\ paho' = "down"
  /\ connected' = FALSE
  /\ UNCHANGED <<flushes, loopVars, todo, seen, queueVars, session, losses>>

\* The broker receives a message: for the first time, or again.
Receive ==
  /\ Serving
  /\ wire # <<>>
  /\ arrived' = arrived \cup {Head(wire)}
  /\ wire' = Tail(wire)
  /\ unacked' = Append(unacked, Head(wire))
  /\ UNCHANGED <<connected, flushes, loopVars, paho, todo, seen, unsent, session, losses>>

Acknowledge ==
  /\ Serving
  /\ unacked # <<>>
  /\ unacked' = Tail(unacked)
  /\ UNCHANGED <<connected, flushes, loopVars, paho, todo, seen, unsent, wire, arrived,
                 session, losses>>

Callbacks ==
  \/ OnConnect
  \/ \E t \in Topics : Resubscribe(t)
  \/ IterationBreaks
  \/ AllResubscribed
  \/ ScheduleFlush
  \/ Resend
  \/ OnDisconnect

-----------------------------------------------------------------------------
(* The asyncio loop *)

Doing(op, arg) == loop' = [op |-> op, arg |-> arg]
Rest == Doing("idle", 0)

\* client.publish: paho keeps the message whether or not there is a socket.
ClientPublish(m) ==
  IF SocketUp
  THEN wire' = Append(wire, m) /\ UNCHANGED unsent
  ELSE unsent' = Append(unsent, m) /\ UNCHANGED wire

\* MUTANT: a full buffer refuses the message instead of dropping the oldest.
BufferedUnlessFull(m) ==
  IF Len(buffer) < Capacity THEN Append(buffer, m) ELSE buffer

\* deque(maxlen): a full buffer drops its oldest message.
Buffered(m) ==
  IF Len(buffer) < Capacity THEN Append(buffer, m) ELSE Append(Tail(buffer), m)

\* connect() returns once the flag is set; only then does the service publish.
ConnectReturns ==
  /\ loop.op = "connecting"
  /\ connected
  /\ Rest
  /\ UNCHANGED <<connected, flushes, buffer, subs, published, paho, todo, seen, queueVars,
                 session, losses>>

\* publish, up to its look at the flag.
StartPublish ==
  /\ loop.op = "idle"
  /\ published < N   \* bound of the model
  /\ published' = published + 1
  /\ Doing(IF connected THEN "send" ELSE "keep", published + 1)
  /\ UNCHANGED <<connected, flushes, buffer, subs, paho, todo, seen, queueVars, session, losses>>

Keep ==
  /\ loop.op = "keep"
  /\ buffer' = Buffered(loop.arg)
  /\ Rest
  /\ UNCHANGED <<connected, flushes, subs, published, paho, todo, seen, queueVars, session, losses>>

Send ==
  /\ loop.op = "send"
  /\ ClientPublish(loop.arg)
  /\ buffer' = IF SocketUp THEN buffer ELSE Buffered(loop.arg)
  /\ Rest
  /\ UNCHANGED <<connected, flushes, subs, published, paho, todo, seen, unacked, arrived,
                 session, losses>>

Subscribe(t) ==
  /\ loop.op = "idle"
  /\ t \notin subs
  /\ subs' = subs \cup {t}
  /\ Doing("subscribe", t)
  /\ UNCHANGED <<connected, flushes, buffer, published, paho, todo, seen, queueVars, session, losses>>

\* The look at the flag comes after the registration.
CheckConnected ==
  /\ loop.op = "subscribe"
  /\ IF connected THEN Doing("request", loop.arg) ELSE Rest
  /\ UNCHANGED <<connected, flushes, buffer, subs, published, paho, todo, seen, queueVars,
                 session, losses>>

\* Without a socket client.subscribe answers MQTT_ERR_NO_CONN, which is ignored.
RequestSubscription ==
  /\ loop.op = "request"
  /\ session' = IF SocketUp THEN session \cup {loop.arg} ELSE session
  /\ Rest
  /\ UNCHANGED <<connected, flushes, buffer, subs, published, paho, todo, seen, queueVars, losses>>

StartFlush ==
  /\ loop.op = "idle"
  /\ flushes > 0
  /\ flushes' = flushes - 1
  /\ Doing("flush", 0)
  /\ UNCHANGED <<connected, buffer, subs, published, paho, todo, seen, queueVars, session, losses>>

\* MUTANT: a flush sends one message only.
FlushOnlyOne ==
  /\ loop.op = "flush"
  /\ buffer # <<>>
  /\ ClientPublish(Head(buffer))
  /\ buffer' = IF SocketUp THEN Tail(buffer) ELSE buffer
  /\ Rest
  /\ UNCHANGED <<connected, flushes, subs, published, paho, todo, seen, unacked, arrived,
                 session, losses>>

\* One round of the flush; without a socket the message is put back and the
\* flush ends (paho has kept a copy all the same).
FlushOne ==
  /\ loop.op = "flush"
  /\ buffer # <<>>
  /\ ClientPublish(Head(buffer))
  /\ IF SocketUp THEN buffer' = Tail(buffer) /\ UNCHANGED loop
                 ELSE UNCHANGED buffer /\ Rest
  /\ UNCHANGED <<connected, flushes, subs, published, paho, todo, seen, unacked, arrived,
                 session, losses>>

EndFlush ==
  /\ loop.op = "flush"
  /\ buffer = <<>>
  /\ Rest
  /\ UNCHANGED <<connected, flushes, buffer, subs, published, paho, todo, seen, queueVars,
                 session, losses>>

\* disconnect(): the network thread is joined, between two callbacks.  Command
\* tasks still running may go on publishing, into the buffer.
Disconnect ==
  /\ loop.op = "idle"
  /\ paho \in {"down", "opened", "up", "closed", "dead"}
  /\ paho' = "stopped"
  /\ connected' = FALSE
  /\ session' = {}
  /\ UNCHANGED <<flushes, loopVars, todo, seen, queueVars, losses>>

LoopStep ==
  \/ ConnectReturns
  \/ Keep
  \/ Send
  \/ CheckConnected
  \/ RequestSubscription
  \/ StartFlush
  \/ FlushOne
  \/ EndFlush

-----------------------------------------------------------------------------

Init ==
  /\ connected = FALSE
  /\ buffer = <<>>
  /\ subs = {}
  /\ flushes = 0
  /\ loop = [op |-> "connecting", arg |-> 0]
  /\ published = 0
  /\ paho = "down"
  /\ todo = {}
  /\ seen = {}
  /\ unsent = <<>>
  /\ wire = <<>>
  /\ unacked = <<>>
  /\ session = {}
  /\ arrived = {}
  /\ losses = 0

Next ==
  \/ Connect
  \/ Callbacks
  \/ LoseConnection
  \/ Receive
  \/ Acknowledge
  \/ LoopStep
  \/ StartPublish
  \/ \E t \in Topics : Subscribe(t)
  \/ Disconnect

Spec == Init /\ [][Next]_vars

\* Both threads keep running, paho keeps trying to connect (loop_start retries
\* the first connection too) and a connection that stays up carries messages.
\* Nothing forces a publish, a subscription or a stop.
FairSpec ==
  /\ Spec
  /\ WF_vars(Connect)
  /\ WF_vars(Callbacks)
  /\ WF_vars(Receive)
  /\ WF_vars(LoopStep)

-----------------------------------------------------------------------------
(* Properties *)

Pending == Range(buffer) \cup Range(unsent) \cup Range(wire)
             \cup (IF loop.op \in {"keep", "send"} THEN {loop.arg} ELSE {})

\* A message that has arrived is delivered, though a copy of it may be pending.
Status(m) ==
  IF m > published THEN "new"
  ELSE IF m \in arrived THEN "delivered"
  ELSE IF m \in Pending THEN "waiting"
  ELSE "lost"

Promise == INSTANCE Outbox WITH status <- [m \in Messages |-> Status(m)]

\* The publisher keeps the promise of Outbox: across lost connections, sends
\* that fail after the flag was read, flushes that stall and messages queued
\* twice, a message disappears only after Capacity younger ones were accepted,
\* and none comes back.
KeepsPromise == Promise!Spec

\* Every variable has its type; the buffer never exceeds its size and holds its
\* messages in the order they were published.
TypeOK ==
  /\ connected \in BOOLEAN
  /\ buffer \in Seq(Messages)
  /\ Len(buffer) <= Capacity
  /\ \A i, j \in 1 .. Len(buffer) : i < j => buffer[i] < buffer[j]
  /\ subs \subseteq Topics
  /\ flushes \in Nat
  /\ loop \in [op: {"connecting", "idle", "keep", "send", "subscribe", "request", "flush"},
            arg: {0} \cup Messages \cup Topics]
  /\ published \in 0 .. N
  /\ paho \in {"down", "opened", "subscribing", "scheduling", "resending", "up", "closed",
               "dead", "stopped"}
  /\ todo \subseteq seen
  /\ seen \subseteq Topics
  /\ unsent \in Seq(Messages)
  /\ wire \in Seq(Messages)
  /\ unacked \in Seq(Messages)
  /\ session \subseteq subs
  /\ arrived \subseteq Messages
  /\ losses \in 0 .. MaxLosses

\* With the connection established, whatever is in the buffer has a flush coming
\* or under way: a message that publish decided to buffer while on_connect ran on
\* the other thread is not left behind.
BufferedMeansFlushComing ==
  paho = "up" /\ buffer # <<>> => flushes > 0 \/ loop.op = "flush"

\* With the connection established, every registered topic is subscribed at the
\* broker, but for the one the loop is still busy with.
SubscribedWhileConnected ==
  paho = "up" => \A t \in subs : t \in session \/ loop.arg = t

\* A message the publisher was given reaches the broker or is dropped from a full
\* buffer in the end, unless the network thread died or the service was stopped.
EachMessageSettled ==
  \A m \in Messages :
    Status(m) = "waiting" ~> Status(m) # "waiting" \/ paho \in {"dead", "stopped"}
=============================================================================
