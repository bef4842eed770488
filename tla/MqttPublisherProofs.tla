------------------------ MODULE MqttPublisherProofs ------------------------
(***************************************************************************)
(* Proofs about the MQTT publisher, for any number of messages, topics and *)
(* lost connections and any size of the buffer: a flush is coming for what *)
(* is in the buffer, the registered topics are subscribed, and of the      *)
(* messages it was given the publisher keeps the promise of Outbox.        *)
(***************************************************************************)
EXTENDS MqttPublisher, FiniteSetTheorems, TLAPS

(* Sequences *)

LEMMA RangeOfEmpty == Range(<<>>) = {} /\ \A S : <<>> \in Seq(S)
  BY DEF Range

LEMMA RangeOfAppend ==
  ASSUME NEW S, NEW s \in Seq(S), NEW e \in S
  PROVE  Append(s, e) \in Seq(S) /\ Range(Append(s, e)) = Range(s) \cup {e}
  <1>1. /\ Append(s, e) \in Seq(S) /\ Len(Append(s, e)) = Len(s) + 1
        /\ \A i \in 1 .. Len(s) : Append(s, e)[i] = s[i]
        /\ Append(s, e)[Len(s) + 1] = e
    OBVIOUS
  <1>2. DOMAIN s = 1 .. Len(s) /\ DOMAIN Append(s, e) = 1 .. Len(s) + 1 /\ Len(s) \in Nat
    OBVIOUS
  <1> QED
    BY <1>1, <1>2 DEF Range

\* A sequence that is not empty is its head and its tail.
LEMMA RangeOfTail ==
  ASSUME NEW S, NEW s \in Seq(S), s # <<>>
  PROVE  Tail(s) \in Seq(S) /\ Head(s) \in S /\ Range(s) = Range(Tail(s)) \cup {Head(s)}
  <1>1. /\ Tail(s) \in Seq(S) /\ Len(s) \in Nat /\ Len(s) > 0 /\ Len(Tail(s)) = Len(s) - 1
        /\ \A i \in 1 .. Len(s) - 1 : Tail(s)[i] = s[i + 1]
        /\ Head(s) = s[1] /\ Head(s) \in S
    OBVIOUS
  <1>2. DOMAIN s = 1 .. Len(s) /\ DOMAIN Tail(s) = 1 .. Len(s) - 1
    BY <1>1
  <1>3. ASSUME NEW i \in DOMAIN s PROVE s[i] = Head(s) \/ \E j \in DOMAIN Tail(s) : s[i] = Tail(s)[j]
    <2>1. CASE i = 1
      BY <1>1, <2>1
    <2>2. CASE i # 1
      <3>1. i - 1 \in DOMAIN Tail(s) /\ Tail(s)[i - 1] = s[i]
        BY <1>1, <1>2, <2>2
      <3> QED
        BY <3>1
    <2> QED
      BY <2>1, <2>2
  <1>4. ASSUME NEW i \in DOMAIN Tail(s) PROVE i + 1 \in DOMAIN s /\ s[i + 1] = Tail(s)[i]
    BY <1>1, <1>2
  <1>5. 1 \in DOMAIN s
    BY <1>1, <1>2
  <1>6. Range(s) \subseteq Range(Tail(s)) \cup {Head(s)}
    BY <1>3 DEF Range
  <1>7. Range(Tail(s)) \subseteq Range(s)
    BY <1>4 DEF Range
  <1>8. Head(s) \in Range(s)
    BY <1>1, <1>5 DEF Range
  <1> QED
    BY <1>1, <1>6, <1>7, <1>8

LEMMA RangeOfConcat ==
  ASSUME NEW S, NEW s \in Seq(S), NEW t \in Seq(S)
  PROVE  s \o t \in Seq(S) /\ Range(s \o t) = Range(s) \cup Range(t)
  <1>1. /\ s \o t \in Seq(S) /\ Len(s) \in Nat /\ Len(t) \in Nat
        /\ Len(s \o t) = Len(s) + Len(t)
        /\ \A i \in 1 .. Len(s) + Len(t) :
             (s \o t)[i] = IF i <= Len(s) THEN s[i] ELSE t[i - Len(s)]
    OBVIOUS
  <1>2. /\ DOMAIN s = 1 .. Len(s) /\ DOMAIN t = 1 .. Len(t)
        /\ DOMAIN (s \o t) = 1 .. Len(s) + Len(t)
    BY <1>1
  <1>3. ASSUME NEW i \in DOMAIN (s \o t)
        PROVE  (\E j \in DOMAIN s : (s \o t)[i] = s[j]) \/ (\E j \in DOMAIN t : (s \o t)[i] = t[j])
    <2>1. CASE i <= Len(s)
      BY <1>1, <1>2, <2>1
    <2>2. CASE ~(i <= Len(s))
      <3>1. i - Len(s) \in DOMAIN t /\ (s \o t)[i] = t[i - Len(s)]
        BY <1>1, <1>2, <2>2
      <3> QED
        BY <3>1
    <2> QED
      BY <2>1, <2>2
  <1>4. ASSUME NEW j \in DOMAIN s PROVE j \in DOMAIN (s \o t) /\ (s \o t)[j] = s[j]
    BY <1>1, <1>2
  <1>5. ASSUME NEW j \in DOMAIN t
        PROVE  j + Len(s) \in DOMAIN (s \o t) /\ (s \o t)[j + Len(s)] = t[j]
    BY <1>1, <1>2
  <1>6. Range(s \o t) \subseteq Range(s) \cup Range(t)
    BY <1>3 DEF Range
  <1>7. Range(s) \subseteq Range(s \o t)
    BY <1>4 DEF Range
  <1>8. Range(t) \subseteq Range(s \o t)
    BY <1>5 DEF Range
  <1> QED
    BY <1>1, <1>6, <1>7, <1>8

LEMMA SeqOfLarger ==
  ASSUME NEW S, NEW T, S \subseteq T, NEW s \in Seq(S)
  PROVE  s \in Seq(T)
  OBVIOUS

\* Numbers in the order they were handed out: each is at least as far from an
\* earlier one as their places are.
Orderly(s) == \A i, j \in 1 .. Len(s) : i <= j => s[j] - s[i] >= j - i

LEMMA TailIsOrderly ==
  ASSUME NEW s \in Seq(Nat), s # <<>>, Orderly(s)
  PROVE  Orderly(Tail(s))
  <1>1. /\ Len(s) \in Nat /\ Len(Tail(s)) = Len(s) - 1
        /\ \A i \in 1 .. Len(s) - 1 : Tail(s)[i] = s[i + 1]
    OBVIOUS
  <1> SUFFICES ASSUME NEW i \in 1 .. Len(s) - 1, NEW j \in 1 .. Len(s) - 1, i <= j
               PROVE  Tail(s)[j] - Tail(s)[i] >= j - i
    BY <1>1 DEF Orderly
  <1>2. s[j + 1] - s[i + 1] >= (j + 1) - (i + 1)
    BY <1>1 DEF Orderly
  <1> QED
    BY <1>1, <1>2

\* A number above all the others comes last.
LEMMA AppendIsOrderly ==
  ASSUME NEW s \in Seq(Nat), Orderly(s), NEW e \in Nat, \A m \in Range(s) : m < e
  PROVE  Orderly(Append(s, e))
  <1>1. /\ Len(s) \in Nat /\ Len(Append(s, e)) = Len(s) + 1
        /\ \A i \in 1 .. Len(s) : Append(s, e)[i] = s[i] /\ s[i] \in Nat
        /\ Append(s, e)[Len(s) + 1] = e
    OBVIOUS
  <1>2. \A i \in 1 .. Len(s) : s[i] < e
    BY DEF Range
  <1> SUFFICES ASSUME NEW i \in 1 .. Len(s) + 1, NEW j \in 1 .. Len(s) + 1, i <= j
               PROVE  Append(s, e)[j] - Append(s, e)[i] >= j - i
    BY <1>1 DEF Orderly
  <1>3. CASE j <= Len(s)
    BY <1>1, <1>3 DEF Orderly
  <1>4. CASE j = Len(s) + 1 /\ i <= Len(s)
    <2>1. s[Len(s)] - s[i] >= Len(s) - i
      BY <1>1, <1>4 DEF Orderly
    <2>2. s[Len(s)] < e
      BY <1>1, <1>2, <1>4
    <2> QED
      BY <1>1, <1>4, <2>1, <2>2
  <1>5. CASE j = Len(s) + 1 /\ i = Len(s) + 1
    BY <1>1, <1>5
  <1> QED
    BY <1>1, <1>3, <1>4, <1>5

\* What the deque holds once a message younger than all of its own was put in.
LEMMA BufferedHolds ==
  ASSUME buffer \in Seq(Messages), Len(buffer) <= Capacity, Orderly(buffer),
         NEW m \in Messages, \A k \in Range(buffer) : k < m
  PROVE  /\ Buffered(m) \in Seq(Messages) /\ Len(Buffered(m)) <= Capacity
         /\ Orderly(Buffered(m)) /\ Buffered(m) # <<>>
         /\ Range(Buffered(m)) \subseteq Range(buffer) \cup {m}
         /\ Len(buffer) < Capacity => Range(Buffered(m)) = Range(buffer) \cup {m}
         /\ Len(buffer) >= Capacity
              => /\ buffer # <<>> /\ Len(buffer) = Capacity
                 /\ Range(Buffered(m)) \cup {Head(buffer)} = Range(buffer) \cup {m}
  <1>1. Messages \subseteq Nat /\ N \in Nat /\ Capacity \in Nat /\ Capacity > 0
    BY NAssumption, CapacityAssumption DEF Messages
  <1>2. buffer \in Seq(Nat) /\ m \in Nat /\ Len(buffer) \in Nat
    <2>1. buffer \in Seq(Nat)
      BY <1>1, SeqOfLarger, Zenon
    <2> QED
      BY <1>1, <2>1
  <1>3. CASE Len(buffer) < Capacity
    <2>1. Buffered(m) = Append(buffer, m)
      BY <1>3 DEF Buffered
    <2>2. Orderly(Buffered(m))
      BY <1>2, <2>1, AppendIsOrderly
    <2>3. Range(Buffered(m)) = Range(buffer) \cup {m} /\ Buffered(m) \in Seq(Messages)
      BY <2>1, RangeOfAppend
    <2>4. Len(Buffered(m)) = Len(buffer) + 1 /\ Buffered(m) # <<>>
      BY <2>1
    <2> QED
      BY <1>1, <1>2, <1>3, <2>2, <2>3, <2>4
  <1>4. CASE Len(buffer) >= Capacity
    <2> DEFINE rest == Tail(buffer)
    <2>1. Buffered(m) = Append(Tail(buffer), m) /\ buffer # <<>> /\ Len(buffer) = Capacity
      BY <1>1, <1>2, <1>4 DEF Buffered
    <2>2. /\ Tail(buffer) \in Seq(Messages)
          /\ Range(buffer) = Range(Tail(buffer)) \cup {Head(buffer)}
      BY <2>1, RangeOfTail
    <2>3. Append(rest, m) \in Seq(Messages) /\ Range(Append(rest, m)) = Range(rest) \cup {m}
      <3>1. rest \in Seq(Messages)
        BY <2>2
      <3> HIDE DEF rest
      <3> QED
        BY <3>1, RangeOfAppend
    <2>4. Orderly(Tail(buffer)) /\ Tail(buffer) \in Seq(Nat)
      BY <1>1, <1>2, <2>1, <2>2, TailIsOrderly, SeqOfLarger
    <2>5. Orderly(Buffered(m))
      BY <1>2, <2>1, <2>2, <2>4, AppendIsOrderly
    <2>6. Len(Buffered(m)) = Len(buffer) /\ Buffered(m) # <<>>
      BY <1>2, <2>1
    <2> QED
      BY <1>2, <1>4, <2>1, <2>2, <2>3, <2>5, <2>6
  <1> QED
    BY <1>1, <1>2, <1>3, <1>4
-----------------------------------------------------------------------------
(* The inductive invariant *)

\* The loop holds a message that is in no queue.
Handing == loop.op \in {"keep", "send"}

\* The queues hold messages that were published, and what awaits an
\* acknowledgement has arrived; the buffer is in order, and the message that the
\* loop holds is younger than all of it.
QueueInv ==
  /\ published \in 0 .. N
  /\ buffer \in Seq(Messages) /\ unsent \in Seq(Messages)
  /\ wire \in Seq(Messages) /\ unacked \in Seq(Messages)
  /\ Range(buffer) \cup Range(unsent) \cup Range(wire) \cup arrived \subseteq 1 .. published
  /\ Range(unacked) \subseteq arrived
  /\ Len(buffer) <= Capacity /\ Orderly(buffer)
  /\ Handing => /\ published > 0 /\ loop.arg = published
                /\ \A m \in Range(buffer) : m < published

\* Only what is registered is subscribed or about to be.
TopicInv ==
  /\ loop \in [op: {"connecting", "idle", "keep", "send", "subscribe", "request", "flush"},
               arg: {0} \cup Messages \cup Topics]
  /\ subs \subseteq Topics
  /\ todo \subseteq seen /\ seen \subseteq subs /\ session \subseteq subs
  /\ loop.op \in {"subscribe", "request"} => loop.arg \in subs

\* From on_connect on the flag is set.  What is in the buffer, or about to be put
\* there, has a flush coming once on_connect has asked for one; what on_connect
\* saw is subscribed or still to be; and when it is through, all is subscribed but
\* what the loop is busy with.
ConnInv ==
  /\ connected \in BOOLEAN /\ flushes \in Nat /\ losses \in 0 .. MaxLosses
  /\ paho \in {"down", "opened", "subscribing", "scheduling", "resending", "up", "closed",
               "dead", "stopped"}
  /\ paho \in {"subscribing", "scheduling", "resending", "up"} => connected
  /\ paho \in {"resending", "up"} /\ (buffer # <<>> \/ loop.op = "keep")
       => flushes > 0 \/ loop.op = "flush"
  /\ paho = "subscribing" => seen \subseteq session \cup todo
  /\ paho \in {"scheduling", "resending", "up"}
       => \A t \in subs : t \in session \/ (loop.op \in {"subscribe", "request"} /\ loop.arg = t)

PublisherInv == QueueInv /\ TopicInv /\ ConnInv

LEMMA PublisherInit == Init => PublisherInv
  <1> SUFFICES ASSUME Init PROVE PublisherInv
    OBVIOUS
  <1>1. Range(<<>>) = {} /\ <<>> \in Seq(Messages) /\ Len(<<>>) = 0
    BY RangeOfEmpty
  <1>2. QueueInv
    BY <1>1, NAssumption, CapacityAssumption DEF Init, QueueInv, Handing, Orderly
  <1>3. TopicInv
    BY DEF Init, TopicInv
  <1>4. ConnInv
    <2>1. /\ connected = FALSE /\ flushes = 0 /\ losses = 0 /\ paho = "down"
      BY DEF Init
    <2>2. 0 \in 0 .. MaxLosses
      BY MaxLossesAssumption
    <2> QED
      BY <2>1, <2>2 DEF ConnInv
  <1> QED
    BY <1>2, <1>3, <1>4 DEF PublisherInv

\* A step that leaves the queues alone, and gives the loop no message.
LEMMA QueuesStay ==
  ASSUME QueueInv, UNCHANGED <<queueVars, buffer, published>>,
         loop' = loop \/ ~Handing'
  PROVE  QueueInv'
  <1>1. CASE loop' = loop
    BY <1>1 DEF QueueInv, queueVars, Handing, Orderly, Range
  <1>2. CASE ~Handing'
    BY <1>2 DEF QueueInv, queueVars, Orderly, Range
  <1> QED
    BY <1>1, <1>2

\* A message given to paho joins one of its two queues.
LEMMA PahoKeeps ==
  ASSUME QueueInv, NEW m \in Messages, ClientPublish(m)
  PROVE  /\ unsent' \in Seq(Messages) /\ wire' \in Seq(Messages)
         /\ Range(unsent') \cup Range(wire') = Range(unsent) \cup Range(wire) \cup {m}
  <1>1. /\ wire \in Seq(Messages) /\ unsent \in Seq(Messages)
        /\ Append(wire, m) \in Seq(Messages) /\ Range(Append(wire, m)) = Range(wire) \cup {m}
        /\ Append(unsent, m) \in Seq(Messages)
        /\ Range(Append(unsent, m)) = Range(unsent) \cup {m}
    BY RangeOfAppend DEF QueueInv
  <1>2. \/ wire' = Append(wire, m) /\ unsent' = unsent
        \/ wire' = wire /\ unsent' = Append(unsent, m)
    BY DEF ClientPublish
  <1> QED
    BY <1>1, <1>2

LEMMA QueuesNext == QueueInv /\ TopicInv /\ [Next]_vars => QueueInv'
  <1> SUFFICES ASSUME QueueInv, TopicInv, [Next]_vars PROVE QueueInv'
    OBVIOUS
  <1> USE NAssumption, CapacityAssumption
  <1>1. CASE \/ Connect \/ OnConnect \/ (\E t \in Topics : Resubscribe(t)) \/ IterationBreaks
             \/ AllResubscribed \/ ScheduleFlush \/ OnDisconnect \/ ConnectReturns
             \/ (\E t \in Topics : Subscribe(t)) \/ CheckConnected \/ RequestSubscription
             \/ StartFlush \/ EndFlush \/ Disconnect \/ UNCHANGED vars
    <2>1. UNCHANGED <<queueVars, buffer, published>>
      BY <1>1 DEF Connect, OnConnect, Resubscribe, IterationBreaks, AllResubscribed,
                  ScheduleFlush, OnDisconnect, ConnectReturns, Subscribe, CheckConnected,
                  RequestSubscription, StartFlush, EndFlush, Disconnect, vars, loopVars
    <2>2. loop' = loop \/ ~Handing'
      BY <1>1 DEF Connect, OnConnect, Resubscribe, IterationBreaks, AllResubscribed,
                  ScheduleFlush, OnDisconnect, ConnectReturns, Subscribe, CheckConnected,
                  RequestSubscription, StartFlush, EndFlush, Disconnect, vars, loopVars,
                  Doing, Rest, Handing
    <2> QED
      BY <2>1, <2>2, QueuesStay
  <1>2. CASE Resend
    <2>1. /\ wire' = wire \o unsent /\ unsent' = <<>>
          /\ UNCHANGED <<buffer, loop, published, unacked, arrived>>
      BY <1>2 DEF Resend, loopVars
    <2>2. wire' \in Seq(Messages) /\ Range(wire') = Range(wire) \cup Range(unsent)
      BY <2>1, RangeOfConcat DEF QueueInv
    <2>3. unsent' \in Seq(Messages) /\ Range(unsent') = {}
      BY <2>1, RangeOfEmpty
    <2> QED
      BY <2>1, <2>2, <2>3 DEF QueueInv, Handing
  <1>3. CASE LoseConnection
    <2>1. /\ unsent' = (unsent \o unacked) \o wire /\ wire' = <<>> /\ unacked' = <<>>
          /\ UNCHANGED <<buffer, loop, published, arrived>>
      BY <1>3 DEF LoseConnection, loopVars
    <2>2. unsent \o unacked \in Seq(Messages)
          /\ Range(unsent \o unacked) = Range(unsent) \cup Range(unacked)
      BY RangeOfConcat DEF QueueInv
    <2>3. /\ unsent' \in Seq(Messages)
          /\ Range(unsent') = Range(unsent) \cup Range(unacked) \cup Range(wire)
      <3> DEFINE kept == unsent \o unacked
      <3>1. kept \in Seq(Messages) /\ wire \in Seq(Messages)
        BY <2>2 DEF QueueInv
      <3>2. kept \o wire \in Seq(Messages) /\ Range(kept \o wire) = Range(kept) \cup Range(wire)
        <4> HIDE DEF kept
        <4> QED
          BY <3>1, RangeOfConcat
      <3> QED
        BY <2>1, <2>2, <3>2
    <2>4. <<>> \in Seq(Messages) /\ Range(<<>>) = {}
      BY RangeOfEmpty
    <2> QED
      BY <2>1, <2>3, <2>4 DEF QueueInv, Handing
  <1>4. CASE Receive
    <2>1. /\ wire # <<>> /\ arrived' = arrived \cup {Head(wire)} /\ wire' = Tail(wire)
          /\ unacked' = Append(unacked, Head(wire))
          /\ UNCHANGED <<buffer, loop, published, unsent>>
      BY <1>4 DEF Receive, loopVars
    <2>2. /\ wire' \in Seq(Messages) /\ Head(wire) \in Messages
          /\ Range(wire) = Range(wire') \cup {Head(wire)}
      BY <2>1, RangeOfTail DEF QueueInv
    <2>3. /\ unacked' \in Seq(Messages)
          /\ Range(unacked') = Range(unacked) \cup {Head(wire)}
      <3> DEFINE h == Head(wire)
      <3>1. h \in Messages /\ unacked' = Append(unacked, h) /\ unacked \in Seq(Messages)
        BY <2>1, <2>2 DEF QueueInv
      <3> HIDE DEF h
      <3>2. unacked' \in Seq(Messages) /\ Range(unacked') = Range(unacked) \cup {h}
        BY <3>1, RangeOfAppend
      <3> QED
        BY <3>2 DEF h
    <2> QED
      BY <2>1, <2>2, <2>3 DEF QueueInv, Handing
  <1>5. CASE Acknowledge
    <2>1. /\ unacked # <<>> /\ unacked' = Tail(unacked)
          /\ UNCHANGED <<buffer, loop, published, unsent, wire, arrived>>
      BY <1>5 DEF Acknowledge, loopVars
    <2>2. unacked' \in Seq(Messages) /\ Range(unacked') \subseteq Range(unacked)
      BY <2>1, RangeOfTail DEF QueueInv
    <2> QED
      BY <2>1, <2>2 DEF QueueInv, Handing
  <1>6. CASE StartPublish
    <2>1. /\ ~Handing /\ published < N /\ published' = published + 1
          /\ loop'.arg = published + 1
          /\ UNCHANGED <<buffer, unsent, wire, unacked, arrived>>
      BY <1>6 DEF StartPublish, Doing, Handing, queueVars
    <2> QED
      BY <2>1 DEF QueueInv
  <1>7. CASE Keep
    <2>1. /\ buffer' = Buffered(loop.arg) /\ Handing /\ ~Handing'
          /\ UNCHANGED <<unsent, wire, unacked, arrived, published>>
      BY <1>7 DEF Keep, Rest, Doing, Handing, queueVars
    <2>2. loop.arg = published /\ published \in Messages /\ \A m \in Range(buffer) : m < published
      BY <2>1 DEF QueueInv, Messages
    <2>3. /\ buffer' \in Seq(Messages) /\ Len(buffer') <= Capacity /\ Orderly(buffer')
          /\ Range(buffer') \subseteq Range(buffer) \cup {published}
      BY <2>1, <2>2, BufferedHolds DEF QueueInv
    <2> QED
      BY <2>1, <2>2, <2>3 DEF QueueInv, Messages
  <1>8. CASE Send
    <2>1. /\ ClientPublish(loop.arg) /\ Handing /\ ~Handing'
          /\ buffer' = IF SocketUp THEN buffer ELSE Buffered(loop.arg)
          /\ UNCHANGED <<unacked, arrived, published>>
      BY <1>8 DEF Send, Rest, Doing, Handing
    <2>2. loop.arg = published /\ published \in Messages /\ \A m \in Range(buffer) : m < published
      BY <2>1 DEF QueueInv, Messages
    <2>3. /\ Buffered(published) \in Seq(Messages) /\ Len(Buffered(published)) <= Capacity
          /\ Orderly(Buffered(published))
          /\ Range(Buffered(published)) \subseteq Range(buffer) \cup {published}
      BY <2>2, BufferedHolds DEF QueueInv
    <2>4. /\ unsent' \in Seq(Messages) /\ wire' \in Seq(Messages)
          /\ Range(unsent') \cup Range(wire') = Range(unsent) \cup Range(wire) \cup {published}
      BY <2>1, <2>2, PahoKeeps
    <2>5. /\ buffer' \in Seq(Messages) /\ Len(buffer') <= Capacity /\ Orderly(buffer')
          /\ Range(buffer') \subseteq Range(buffer) \cup {published}
      BY <2>1, <2>2, <2>3 DEF QueueInv
    <2> QED
      BY <2>1, <2>2, <2>4, <2>5 DEF QueueInv, Messages
  <1>9. CASE FlushOne
    <2>1. /\ buffer # <<>> /\ ClientPublish(Head(buffer)) /\ ~Handing'
          /\ buffer' \in {buffer, Tail(buffer)}
          /\ UNCHANGED <<unacked, arrived, published>>
      BY <1>9 DEF FlushOne, Rest, Doing, Handing
    <2>2. /\ Tail(buffer) \in Seq(Messages) /\ Head(buffer) \in Messages
          /\ Range(buffer) = Range(Tail(buffer)) \cup {Head(buffer)}
          /\ Len(Tail(buffer)) <= Len(buffer)
      BY <2>1, RangeOfTail DEF QueueInv
    <2>3. Orderly(Tail(buffer))
      <3>1. Messages \subseteq Nat
        BY DEF Messages
      <3>2. buffer \in Seq(Nat)
        BY <3>1, SeqOfLarger, Zenon DEF QueueInv
      <3> QED
        BY <2>1, <3>2, TailIsOrderly DEF QueueInv
    <2>4. /\ unsent' \in Seq(Messages) /\ wire' \in Seq(Messages)
          /\ Range(unsent') \cup Range(wire') = Range(unsent) \cup Range(wire) \cup {Head(buffer)}
      <3> DEFINE h == Head(buffer)
      <3>1. h \in Messages /\ ClientPublish(h)
        BY <2>1, <2>2
      <3> HIDE DEF h
      <3>2. /\ unsent' \in Seq(Messages) /\ wire' \in Seq(Messages)
            /\ Range(unsent') \cup Range(wire') = Range(unsent) \cup Range(wire) \cup {h}
        BY <3>1, PahoKeeps
      <3> QED
        BY <3>2 DEF h
    <2>5. /\ buffer' \in Seq(Messages) /\ Len(buffer') <= Capacity /\ Orderly(buffer')
          /\ Range(buffer') \subseteq Range(buffer)
      <3>1. CASE buffer' = buffer
        BY <3>1 DEF QueueInv
      <3>2. CASE buffer' = Tail(buffer)
        <4>1. Len(buffer) \in Nat /\ Len(Tail(buffer)) \in Nat /\ Len(buffer) <= Capacity
          BY <2>2 DEF QueueInv
        <4>2. Len(Tail(buffer)) <= Capacity
          BY <2>2, <4>1
        <4> QED
          BY <2>2, <2>3, <3>2, <4>2
      <3> QED
        BY <2>1, <3>1, <3>2
    <2> QED
      BY <2>1, <2>2, <2>4, <2>5 DEF QueueInv
  <1> QED
    BY <1>1, <1>2, <1>3, <1>4, <1>5, <1>6, <1>7, <1>8, <1>9 DEF Next, Callbacks, LoopStep

LEMMA TopicsNext == QueueInv /\ TopicInv /\ [Next]_vars => TopicInv'
  <1> SUFFICES ASSUME QueueInv, TopicInv, [Next]_vars PROVE TopicInv'
    OBVIOUS
  <1>1. CASE OnConnect
    BY <1>1 DEF OnConnect, loopVars, TopicInv
  <1>2. ASSUME NEW t \in Topics, Resubscribe(t) PROVE TopicInv'
    BY <1>2 DEF Resubscribe, loopVars, TopicInv
  <1>3. CASE \/ Connect \/ LoseConnection \/ Disconnect
    BY <1>3 DEF Connect, LoseConnection, Disconnect, loopVars, TopicInv
  <1>4. CASE \/ IterationBreaks \/ AllResubscribed \/ ScheduleFlush \/ Resend \/ OnDisconnect
             \/ Receive \/ Acknowledge \/ UNCHANGED vars
    <2>1. UNCHANGED <<subs, loop, todo, seen, session>>
      BY <1>4 DEF IterationBreaks, AllResubscribed, ScheduleFlush, Resend, OnDisconnect,
                  Receive, Acknowledge, vars, loopVars
    <2> QED
      BY <2>1 DEF TopicInv
  <1>5. CASE \/ ConnectReturns \/ Keep \/ Send \/ StartFlush \/ FlushOne \/ EndFlush
    <2>1. UNCHANGED <<subs, todo, seen, session>>
      BY <1>5 DEF ConnectReturns, Keep, Send, StartFlush, FlushOne, EndFlush
    <2>2. loop' \in {loop, [op |-> "idle", arg |-> 0], [op |-> "flush", arg |-> 0]}
      BY <1>5 DEF ConnectReturns, Keep, Send, StartFlush, FlushOne, EndFlush, Rest, Doing
    <2> QED
      BY <2>1, <2>2 DEF TopicInv
  <1>6. CASE StartPublish
    <2>1. UNCHANGED <<subs, todo, seen, session>>
      BY <1>6 DEF StartPublish
    <2>2. loop' \in [op: {"keep", "send"}, arg: Messages]
      <3>1. published + 1 \in Messages
        BY <1>6, NAssumption DEF StartPublish, QueueInv, Messages
      <3> QED
        BY <1>6, <3>1 DEF StartPublish, Doing
    <2> QED
      BY <2>1, <2>2 DEF TopicInv
  <1>7. ASSUME NEW t \in Topics, Subscribe(t) PROVE TopicInv'
    BY <1>7 DEF Subscribe, Doing, TopicInv
  <1>8. CASE CheckConnected
    <2>1. UNCHANGED <<subs, todo, seen, session>> /\ loop.arg \in subs
      BY <1>8 DEF CheckConnected, TopicInv
    <2>2. loop' \in {[op |-> "request", arg |-> loop.arg], [op |-> "idle", arg |-> 0]}
      BY <1>8 DEF CheckConnected, Rest, Doing
    <2> QED
      BY <2>1, <2>2 DEF TopicInv
  <1>9. CASE RequestSubscription
    <2>1. UNCHANGED <<subs, todo, seen>> /\ session' \subseteq session \cup {loop.arg}
      BY <1>9 DEF RequestSubscription
    <2>2. loop' = [op |-> "idle", arg |-> 0] /\ loop.arg \in subs
      BY <1>9 DEF RequestSubscription, Rest, Doing, TopicInv
    <2> QED
      BY <2>1, <2>2 DEF TopicInv
  <1> QED
    BY <1>1, <1>2, <1>3, <1>4, <1>5, <1>6, <1>7, <1>8, <1>9 DEF Next, Callbacks, LoopStep

LEMMA ConnNext == TopicInv /\ ConnInv /\ [Next]_vars => ConnInv'
  <1> SUFFICES ASSUME TopicInv, ConnInv, [Next]_vars PROVE ConnInv'
    OBVIOUS
  <1>1. CASE Connect \/ OnDisconnect \/ Disconnect
    BY <1>1 DEF Connect, OnDisconnect, Disconnect, ConnInv
  <1>2. CASE OnConnect
    BY <1>2 DEF OnConnect, ConnInv
  <1>3. ASSUME NEW t \in Topics, Resubscribe(t) PROVE ConnInv'
    BY <1>3 DEF Resubscribe, loopVars, ConnInv
  <1>4. CASE IterationBreaks
    BY <1>4 DEF IterationBreaks, ConnInv
  <1>5. CASE AllResubscribed
    BY <1>5 DEF AllResubscribed, loopVars, ConnInv
  <1>6. CASE ScheduleFlush
    BY <1>6 DEF ScheduleFlush, loopVars, ConnInv
  <1>7. CASE Resend
    BY <1>7 DEF Resend, loopVars, ConnInv
  <1>8. CASE LoseConnection
    BY <1>8, MaxLossesAssumption DEF LoseConnection, loopVars, ConnInv
  <1>9. CASE Receive \/ Acknowledge \/ UNCHANGED vars
    <2>1. UNCHANGED <<connected, flushes, losses, paho, buffer, loop, subs, todo, seen, session>>
      BY <1>9 DEF Receive, Acknowledge, vars, loopVars
    <2> QED
      BY <2>1 DEF ConnInv
  <1>10. CASE ConnectReturns
    BY <1>10 DEF ConnectReturns, Rest, Doing, ConnInv
  <1>11. CASE StartPublish
    BY <1>11 DEF StartPublish, Doing, ConnInv
  <1>12. CASE Keep
    BY <1>12 DEF Keep, Rest, Doing, ConnInv
  <1>13. CASE Send
    BY <1>13 DEF Send, Rest, Doing, SocketUp, ConnInv
  <1>14. ASSUME NEW t \in Topics, Subscribe(t) PROVE ConnInv'
    BY <1>14 DEF Subscribe, Doing, TopicInv, ConnInv
  <1>15. CASE CheckConnected
    BY <1>15 DEF CheckConnected, Rest, Doing, ConnInv
  <1>16. CASE RequestSubscription
    BY <1>16 DEF RequestSubscription, Rest, Doing, SocketUp, ConnInv
  <1>17. CASE StartFlush
    BY <1>17 DEF StartFlush, Doing, ConnInv
  <1>18. CASE FlushOne
    BY <1>18 DEF FlushOne, Rest, Doing, SocketUp, ConnInv
  <1>19. CASE EndFlush
    BY <1>19 DEF EndFlush, Rest, Doing, ConnInv
  <1> QED
    BY <1>1, <1>2, <1>3, <1>4, <1>5, <1>6, <1>7, <1>8, <1>9, <1>10, <1>11, <1>12, <1>13, <1>14,
       <1>15, <1>16, <1>17, <1>18, <1>19 DEF Next, Callbacks, LoopStep

\* MqttPublisher: the invariant that the theorems below rest on.
THEOREM PublisherInvariant == Spec => []PublisherInv
  <1>1. PublisherInv /\ [Next]_vars => PublisherInv'
    BY QueuesNext, TopicsNext, ConnNext DEF PublisherInv
  <1> QED
    BY PublisherInit, <1>1, PTL DEF Spec

\* MqttPublisher.publish, subscribe, _flush_buffer and the callbacks: every
\* variable has its type, the buffer never exceeds BUFFER_SIZE and stays in order.
THEOREM PublisherTypeCorrect == Spec => []TypeOK
  <1>1. PublisherInv => TypeOK
    <2> SUFFICES ASSUME PublisherInv PROVE TypeOK
      OBVIOUS
    <2>1. \A i, j \in 1 .. Len(buffer) : i < j => buffer[i] < buffer[j]
      <3> SUFFICES ASSUME NEW i \in 1 .. Len(buffer), NEW j \in 1 .. Len(buffer), i < j
                   PROVE  buffer[i] < buffer[j]
        OBVIOUS
      <3>1. buffer[i] \in Int /\ buffer[j] \in Int
        <4>1. buffer[i] \in Messages /\ buffer[j] \in Messages
          BY DEF PublisherInv, QueueInv
        <4> QED
          BY <4>1, NAssumption DEF Messages
      <3>2. buffer[j] - buffer[i] >= j - i
        BY DEF PublisherInv, QueueInv, Orderly
      <3> QED
        BY <3>1, <3>2
    <2>2. arrived \subseteq Messages
      BY NAssumption DEF PublisherInv, QueueInv, Messages
    <2> QED
      BY <2>1, <2>2 DEF PublisherInv, QueueInv, TopicInv, ConnInv, TypeOK
  <1> QED
    BY PublisherInvariant, <1>1, PTL

\* MqttPublisher.on_connect and _flush_buffer: whatever the loop decided while
\* on_connect ran on paho's thread, what is in the buffer of an established
\* connection has a flush coming or under way.
THEOREM BufferIsFlushed == Spec => []BufferedMeansFlushComing
  <1>1. PublisherInv => BufferedMeansFlushComing
    BY DEF PublisherInv, ConnInv, BufferedMeansFlushComing
  <1> QED
    BY PublisherInvariant, <1>1, PTL

\* MqttPublisher.subscribe and on_connect: a topic registered before, while or
\* after on_connect goes through _subscriptions is subscribed once the connection
\* is established, or the loop is about to ask for it.
THEOREM RegisteredIsSubscribed == Spec => []SubscribedWhileConnected
  <1>1. PublisherInv => SubscribedWhileConnected
    BY DEF PublisherInv, ConnInv, SubscribedWhileConnected
  <1> QED
    BY PublisherInvariant, <1>1, PTL

-----------------------------------------------------------------------------
(* The promise of Outbox *)

StatusNow == [m \in Messages |-> Status(m)]

LEMMA StatusIs ==
  ASSUME NEW m \in Messages
  PROVE  /\ m > published => Status(m) = "new"
         /\ ~(m > published) => Status(m) # "new"
         /\ ~(m > published) /\ m \in arrived => Status(m) = "delivered"
         /\ ~(m > published) /\ m \notin arrived /\ m \in Pending => Status(m) = "waiting"
         /\ ~(m > published) /\ m \notin arrived /\ m \notin Pending => Status(m) = "lost"
  BY DEF Status

\* Moving a message from queue to queue, or a second copy of it, or dropping one
\* that has arrived, changes nothing for anyone.
LEMMA StatusStays ==
  ASSUME UNCHANGED <<published, arrived>>,
         Pending' \cup arrived = Pending \cup arrived
  PROVE  UNCHANGED StatusNow
  <1>1. ASSUME NEW m \in Messages PROVE Status(m)' = Status(m)
    <2>1. (m > published)' <=> m > published
      OBVIOUS
    <2>2. m \in arrived' <=> m \in arrived
      OBVIOUS
    <2>3. m \notin arrived => (m \in Pending' <=> m \in Pending)
      OBVIOUS
    <2> QED
      BY <2>1, <2>2, <2>3 DEF Status
  <1> QED
    BY <1>1 DEF StatusNow

\* A full buffer drops its oldest message: Capacity younger ones were published.
LEMMA OldestMayBeLost ==
  ASSUME QueueInv, Handing, Len(buffer) >= Capacity,
         NEW h, h = Head(buffer)
  PROVE  h \in Messages /\ Cardinality({k \in Messages : k > h /\ Status(k) # "new"}) >= Capacity
  <1>1. /\ N \in Nat /\ Capacity \in Nat /\ Capacity > 0
        /\ Len(buffer) \in Nat /\ Len(buffer) = Capacity /\ buffer # <<>>
    BY NAssumption, CapacityAssumption DEF QueueInv
  <1>2. /\ published \in 0 .. N /\ loop.arg = published
        /\ \A m \in Range(buffer) : m < published
    BY DEF QueueInv
  <1>3. h = buffer[1] /\ h \in Messages /\ buffer[Capacity] \in Messages
    BY <1>1 DEF QueueInv
  <1>4. buffer[Capacity] - buffer[1] >= Capacity - 1
    BY <1>1 DEF QueueInv, Orderly
  <1>5. buffer[Capacity] < published
    BY <1>1, <1>2 DEF QueueInv, Range
  <1>6. published - h >= Capacity
    BY <1>1, <1>2, <1>3, <1>4, <1>5 DEF Messages
  <1>7. {k \in Messages : k > h /\ Status(k) # "new"} = (h + 1) .. published
    <2>1. ASSUME NEW k \in Messages PROVE Status(k) # "new" <=> k <= published
      BY <1>2, <2>1, StatusIs, NAssumption DEF Messages
    <2> QED
      BY <1>1, <1>2, <1>3, <2>1 DEF Messages
  <1>8. Cardinality((h + 1) .. published) = published - h
    <2>1. h + 1 \in Int /\ published \in Int /\ ~(h + 1 > published)
      BY <1>1, <1>2, <1>3, <1>6 DEF Messages
    <2>2. Cardinality((h + 1) .. published) = published - (h + 1) + 1
      BY <2>1, FS_Interval
    <2> QED
      BY <1>3, <2>1, <2>2 DEF Messages
  <1> QED
    BY <1>3, <1>6, <1>7, <1>8

\* Outbox counts as MqttPublisher does.
LEMMA SameCardinality == \A S : Promise!Cardinality(S) = Cardinality(S)
  BY DEF Promise!Cardinality, Cardinality, Promise!IsFiniteSet, IsFiniteSet

\* The loop puts its message into the buffer, and paho may have a copy: the
\* oldest message of a full buffer is lost, unless it is elsewhere too.
LEMMA BufferingKeepsPromise ==
  ASSUME QueueInv, Handing, ~Handing', buffer' = Buffered(loop.arg),
         UNCHANGED <<published, arrived>>,
         Range(unsent') \cup Range(wire') \in
           {Range(unsent) \cup Range(wire), Range(unsent) \cup Range(wire) \cup {loop.arg}}
  PROVE  [Promise!Next]_StatusNow
  <1>1. /\ published \in Messages /\ loop.arg = published
        /\ \A m \in Range(buffer) : m < published
    BY DEF QueueInv, Messages
  <1>2. /\ Pending = Range(buffer) \cup Range(unsent) \cup Range(wire) \cup {loop.arg}
        /\ Pending' = Range(buffer') \cup Range(unsent') \cup Range(wire')
    BY DEF Pending, Handing
  <1>3. CASE Len(buffer) < Capacity
    <2>1. Range(buffer') = Range(buffer) \cup {loop.arg}
      BY <1>1, <1>3, BufferedHolds DEF QueueInv
    <2>2. Pending' = Pending
      BY <1>2, <2>1
    <2> QED
      BY <2>2, StatusStays
  <1>4. CASE ~(Len(buffer) < Capacity)
    <2> PICK h : h = Head(buffer)
      OBVIOUS
    <2>1. Len(buffer) >= Capacity
      BY <1>4, CapacityAssumption DEF QueueInv
    <2>2. buffer # <<>> /\ Range(buffer') \cup {h} = Range(buffer) \cup {loop.arg}
      BY <1>1, <2>1, BufferedHolds DEF QueueInv
    <2>3. h \in Messages /\ Cardinality({k \in Messages : k > h /\ Status(k) # "new"}) >= Capacity
      BY <2>1, OldestMayBeLost
    <2>4. h \in Range(buffer)
      BY <2>2, RangeOfTail DEF QueueInv
    <2>5. Pending' \cup {h} = Pending
      BY <1>2, <2>2, <2>4
    <2>6. CASE h \in arrived \cup Pending'
      BY <2>5, <2>6, StatusStays
    <2>7. CASE h \notin arrived \cup Pending'
      <3>1. h <= published /\ ~(h > published)
        BY <1>1, <2>3, <2>4 DEF Messages
      <3>2. Status(h) = "waiting"
        BY <2>3, <2>5, <2>7, <3>1, StatusIs
      <3>3. Status(h)' = "lost"
        BY <2>7, <3>1 DEF Status
      <3>4. ASSUME NEW m \in Messages, m # h PROVE Status(m)' = Status(m)
        BY <2>5, <3>4 DEF Status
      <3>5. StatusNow' = [StatusNow EXCEPT ![h] = "lost"]
        BY <2>3, <3>3, <3>4 DEF StatusNow
      <3>6. Promise!Younger(h) = {k \in Messages : k > h /\ Status(k) # "new"}
        BY DEF Promise!Younger, Promise!Messages, Messages
      <3>7. Promise!Cardinality(Promise!Younger(h)) >= Capacity
        BY <2>3, <3>6, SameCardinality, Zenon
      <3>8. StatusNow[h] = "waiting"
        BY <2>3, <3>2 DEF StatusNow
      <3>9. Promise!Lose(h)
        <4>1. h \in Messages
          BY <2>3
        <4> QED
          BY <3>5, <3>7, <3>8, <4>1 DEF Promise!Lose, StatusNow
      <3> QED
        BY <2>3, <3>9 DEF Promise!Next, Promise!Messages, Messages
    <2> QED
      BY <2>6, <2>7
  <1> QED
    BY <1>3, <1>4

LEMMA PromiseStep == QueueInv /\ TopicInv /\ [Next]_vars => [Promise!Next]_StatusNow
  <1> SUFFICES ASSUME QueueInv, TopicInv, [Next]_vars PROVE [Promise!Next]_StatusNow
    OBVIOUS
  <1>1. CASE \/ Connect \/ OnConnect \/ (\E t \in Topics : Resubscribe(t)) \/ IterationBreaks
             \/ AllResubscribed \/ ScheduleFlush \/ OnDisconnect \/ ConnectReturns
             \/ (\E t \in Topics : Subscribe(t)) \/ CheckConnected \/ RequestSubscription
             \/ StartFlush \/ EndFlush \/ Disconnect \/ Acknowledge \/ UNCHANGED vars
    <2>1. UNCHANGED <<buffer, unsent, wire, published, arrived>>
      BY <1>1 DEF Connect, OnConnect, Resubscribe, IterationBreaks, AllResubscribed,
                  ScheduleFlush, OnDisconnect, ConnectReturns, Subscribe, CheckConnected,
                  RequestSubscription, StartFlush, EndFlush, Disconnect, Acknowledge, vars,
                  loopVars, queueVars
    <2>2. loop' = loop \/ (~Handing /\ ~Handing')
      BY <1>1 DEF Connect, OnConnect, Resubscribe, IterationBreaks, AllResubscribed,
                  ScheduleFlush, OnDisconnect, ConnectReturns, Subscribe, CheckConnected,
                  RequestSubscription, StartFlush, EndFlush, Disconnect, Acknowledge, vars,
                  loopVars, Doing, Rest, Handing
    <2>3. Pending' = Pending
      BY <2>1, <2>2 DEF Pending, Handing
    <2> QED
      BY <2>1, <2>3, StatusStays
  <1>2. CASE Resend
    <2>1. /\ wire' = wire \o unsent /\ unsent' = <<>>
          /\ UNCHANGED <<buffer, loop, published, arrived>>
      BY <1>2 DEF Resend, loopVars
    <2>2. Range(wire') = Range(wire) \cup Range(unsent) /\ Range(unsent') = {}
      BY <2>1, RangeOfConcat, RangeOfEmpty DEF QueueInv
    <2>3. Pending' = Pending
      BY <2>1, <2>2 DEF Pending
    <2> QED
      BY <2>1, <2>3, StatusStays
  <1>3. CASE LoseConnection
    <2>1. /\ unsent' = (unsent \o unacked) \o wire /\ wire' = <<>>
          /\ UNCHANGED <<buffer, loop, published, arrived>>
      BY <1>3 DEF LoseConnection, loopVars
    <2>2. Range(unsent') = Range(unsent) \cup Range(unacked) \cup Range(wire) /\ Range(wire') = {}
      <3> DEFINE kept == unsent \o unacked
      <3>1. /\ kept \in Seq(Messages) /\ wire \in Seq(Messages)
            /\ Range(kept) = Range(unsent) \cup Range(unacked)
        BY RangeOfConcat DEF QueueInv
      <3>2. Range(kept \o wire) = Range(kept) \cup Range(wire)
        <4> HIDE DEF kept
        <4> QED
          BY <3>1, RangeOfConcat
      <3> QED
        BY <2>1, <3>1, <3>2, RangeOfEmpty
    <2>3. Pending' = Pending \cup Range(unacked)
      BY <2>1, <2>2 DEF Pending
    <2>4. Range(unacked) \subseteq arrived
      BY DEF QueueInv
    <2> QED
      BY <2>1, <2>3, <2>4, StatusStays
  <1>4. CASE Receive
    <2> PICK h : h = Head(wire)
      OBVIOUS
    <2>1. /\ wire # <<>> /\ arrived' = arrived \cup {h} /\ wire' = Tail(wire)
          /\ UNCHANGED <<buffer, loop, published, unsent>>
      BY <1>4 DEF Receive, loopVars
    <2>2. h \in Messages /\ Range(wire) = Range(wire') \cup {h} /\ h \in Range(wire)
      BY <2>1, RangeOfTail DEF QueueInv
    <2>3. Pending = Pending' \cup {h}
      BY <2>1, <2>2 DEF Pending
    <2>4. CASE h \in arrived
      BY <2>1, <2>3, <2>4, StatusStays
    <2>5. CASE h \notin arrived
      <3>1. ~(h > published)
        <4>1. h \in 1 .. published /\ published \in Int
          BY <2>2, NAssumption DEF QueueInv
        <4> QED
          BY <4>1
      <3>2. Status(h) = "waiting"
        BY <2>2, <2>3, <2>5, <3>1, StatusIs
      <3>3. Status(h)' = "delivered"
        BY <2>1, <3>1 DEF Status
      <3>4. ASSUME NEW m \in Messages, m # h PROVE Status(m)' = Status(m)
        BY <2>1, <2>3, <3>4 DEF Status
      <3>5. StatusNow' = [StatusNow EXCEPT ![h] = "delivered"]
        BY <2>2, <3>3, <3>4 DEF StatusNow
      <3>6. Promise!Deliver(h)
        BY <2>2, <3>2, <3>5 DEF Promise!Deliver, StatusNow
      <3> QED
        BY <2>2, <3>6 DEF Promise!Next, Promise!Messages, Messages
    <2> QED
      BY <2>4, <2>5
  <1>5. CASE StartPublish
    <2> PICK m : m = published + 1
      OBVIOUS
    <2>1. /\ ~Handing /\ published' = m /\ m \in Messages /\ loop'.arg = m /\ Handing'
          /\ UNCHANGED <<buffer, unsent, wire, arrived>>
      BY <1>5, NAssumption
         DEF StartPublish, Doing, Handing, queueVars, QueueInv, Messages
    <2>2. published \in Nat /\ N \in Nat /\ arrived \subseteq 1 .. published
      BY NAssumption DEF QueueInv
    <2>3. Pending' = Pending \cup {m}
      BY <2>1 DEF Pending, Handing
    <2>4. Status(m) = "new"
      BY <2>1, <2>2 DEF Status
    <2>5. Status(m)' = "waiting"
      <3>1. ~(m > published') /\ m \notin arrived' /\ m \in Pending'
        BY <2>1, <2>2, <2>3
      <3> QED
        BY <3>1 DEF Status
    <2>6. ASSUME NEW k \in Messages, k # m PROVE Status(k)' = Status(k)
      <3>1. k > published' <=> k > published
        BY <2>1, <2>2, <2>6 DEF Messages
      <3>2. k \in Pending' <=> k \in Pending
        BY <2>3, <2>6
      <3> QED
        BY <2>1, <3>1, <3>2 DEF Status
    <2>7. \A k \in Messages : k < m => Status(k) # "new"
      <3> SUFFICES ASSUME NEW k \in Messages, k < m PROVE Status(k) # "new"
        OBVIOUS
      <3>1. ~(k > published)
        BY <2>2 DEF Messages
      <3> QED
        BY <3>1, StatusIs
    <2>8. StatusNow' = [StatusNow EXCEPT ![m] = "waiting"]
      BY <2>1, <2>5, <2>6 DEF StatusNow
    <2>9. Promise!Accept(m)
      BY <2>1, <2>4, <2>7, <2>8 DEF Promise!Accept, Promise!Messages, Messages, StatusNow
    <2> QED
      BY <2>1, <2>9 DEF Promise!Next, Promise!Messages, Messages
  <1>6. CASE Keep
    <2>1. /\ buffer' = Buffered(loop.arg) /\ Handing /\ ~Handing'
          /\ UNCHANGED <<unsent, wire, arrived, published>>
      BY <1>6 DEF Keep, Rest, Doing, Handing, queueVars
    <2> QED
      BY <2>1, BufferingKeepsPromise
  <1>7. CASE Send
    <2>1. /\ ClientPublish(loop.arg) /\ Handing /\ ~Handing'
          /\ buffer' = IF SocketUp THEN buffer ELSE Buffered(loop.arg)
          /\ UNCHANGED <<arrived, published>>
      BY <1>7 DEF Send, Rest, Doing, Handing
    <2>2. loop.arg \in Messages
      BY <2>1 DEF QueueInv, Messages
    <2>3. Range(unsent') \cup Range(wire') = Range(unsent) \cup Range(wire) \cup {loop.arg}
      <3> DEFINE a == loop.arg
      <3>1. a \in Messages /\ ClientPublish(a)
        BY <2>1, <2>2
      <3> HIDE DEF a
      <3>2. Range(unsent') \cup Range(wire') = Range(unsent) \cup Range(wire) \cup {a}
        BY <3>1, PahoKeeps
      <3> QED
        BY <3>2 DEF a
    <2>4. CASE SocketUp
      <3>1. Pending' = Pending
        BY <2>1, <2>3, <2>4 DEF Pending, Handing
      <3> QED
        BY <2>1, <3>1, StatusStays
    <2>5. CASE ~SocketUp
      BY <2>1, <2>3, <2>5, BufferingKeepsPromise
    <2> QED
      BY <2>4, <2>5
  <1>8. CASE FlushOne
    <2> DEFINE h == Head(buffer)
    <2>1. /\ buffer # <<>> /\ ClientPublish(h) /\ ~Handing /\ ~Handing'
          /\ buffer' \in {buffer, Tail(buffer)}
          /\ UNCHANGED <<arrived, published>>
      BY <1>8 DEF FlushOne, Rest, Doing, Handing
    <2>2. h \in Messages /\ Range(buffer) = Range(Tail(buffer)) \cup {h}
      BY <2>1, RangeOfTail DEF QueueInv
    <2>3. Range(buffer) = Range(buffer') \cup {h}
      BY <2>1, <2>2
    <2> HIDE DEF h
    <2>4. Range(unsent') \cup Range(wire') = Range(unsent) \cup Range(wire) \cup {h}
      BY <2>1, <2>2, PahoKeeps
    <2>5. Pending' = Pending
      BY <2>1, <2>3, <2>4 DEF Pending, Handing
    <2> QED
      BY <2>1, <2>5, StatusStays
  <1> QED
    BY <1>1, <1>2, <1>3, <1>4, <1>5, <1>6, <1>7, <1>8 DEF Next, Callbacks, LoopStep

\* MqttPublisher.publish, _flush_buffer and paho's resending: the publisher
\* implements Outbox.  Messages are accepted in turn, none comes back once it is
\* delivered or lost, and one is lost only after Capacity younger ones came.
THEOREM PublisherKeepsPromise == Spec => KeepsPromise
  <1>1. Init => Promise!Init
    <2> SUFFICES ASSUME Init PROVE Promise!Init
      OBVIOUS
    <2>1. ASSUME NEW m \in Messages PROVE Status(m) = "new"
      BY NAssumption DEF Init, Status, Messages
    <2> QED
      BY <2>1 DEF Promise!Init, Promise!Messages, Messages
  <1>2. PublisherInv /\ [Next]_vars => [Promise!Next]_StatusNow
    BY PromiseStep DEF PublisherInv
  <1> QED
    BY PublisherInvariant, <1>1, <1>2, PTL DEF Spec, KeepsPromise, Promise!Spec, StatusNow
\* Messages are accepted in turn, and one is lost only once the message Capacity places after
\* it was accepted.
LossesAreOld(status) ==
  /\ status \in [Messages -> {"new", "waiting", "delivered", "lost"}]
  /\ \A k, m \in Messages : k < m /\ status[m] # "new" => status[k] # "new"
  /\ \A m \in Messages :
       status[m] = "lost" => m + Capacity \in Messages /\ status[m + Capacity] # "new"

\* Outbox: whatever keeps its promise loses none of the last Capacity messages it was given.
THEOREM PromisedLosses == Promise!Spec => []LossesAreOld(StatusNow)
  <1>1. Promise!Init => LossesAreOld(StatusNow)
    BY DEF Promise!Init, Promise!Messages, LossesAreOld, StatusNow, Messages
  <1>2. LossesAreOld(StatusNow) /\ [Promise!Next]_StatusNow => LossesAreOld(StatusNow)'
    <2> SUFFICES ASSUME LossesAreOld(StatusNow), [Promise!Next]_StatusNow
                 PROVE  LossesAreOld(StatusNow)'
      OBVIOUS
    <2>1. PICK s : s = StatusNow
      OBVIOUS
    <2>2. PICK t : t = StatusNow'
      OBVIOUS
    <2>3. LossesAreOld(s)
      BY <2>1
    <2>4. CASE t = s
      BY <2>2, <2>3, <2>4 DEF LossesAreOld, Messages
    <2>5. ASSUME NEW m \in Messages, Promise!Accept(m) PROVE LossesAreOld(t)
      <3>1. /\ s[m] = "new" /\ t = [s EXCEPT ![m] = "waiting"]
            /\ \A k \in Messages : k < m => s[k] # "new"
        BY <2>1, <2>2, <2>5 DEF Promise!Accept, Promise!Messages, Messages, StatusNow
      <3> QED
        BY <2>3, <3>1 DEF LossesAreOld, Messages
    <2>6. ASSUME NEW m \in Messages, Promise!Deliver(m) PROVE LossesAreOld(t)
      <3>1. s[m] = "waiting" /\ t = [s EXCEPT ![m] = "delivered"]
        BY <2>1, <2>2, <2>6 DEF Promise!Deliver, StatusNow
      <3> QED
        BY <2>3, <3>1 DEF LossesAreOld
    <2>7. ASSUME NEW m \in Messages, Promise!Lose(m) PROVE LossesAreOld(t)
      <3> DEFINE younger == {k \in Messages : k > m /\ s[k] # "new"}
      <3>1. /\ s[m] = "waiting" /\ t = [s EXCEPT ![m] = "lost"]
            /\ Cardinality(younger) >= Capacity
        BY <2>1, <2>2, <2>7, SameCardinality
           DEF Promise!Lose, Promise!Younger, Promise!Messages, Messages, StatusNow
      <3>2. m + Capacity \in Messages /\ s[m + Capacity] # "new"
        <4> SUFFICES ASSUME ~(m + Capacity \in Messages /\ s[m + Capacity] # "new")
                     PROVE  FALSE
          OBVIOUS
        <4>1. m \in Nat /\ Capacity \in Nat \ {0} /\ N \in Nat
          BY NAssumption, CapacityAssumption DEF Messages
        <4>2. ASSUME NEW k \in younger PROVE k \in (m + 1) .. (m + Capacity - 1)
          <5>1. CASE m + Capacity \in Messages
            BY <2>3, <4>1, <4>2, <5>1 DEF LossesAreOld, Messages
          <5>2. CASE m + Capacity \notin Messages
            BY <4>1, <4>2, <5>2 DEF Messages
          <5> QED
            BY <5>1, <5>2
        <4> DEFINE between == (m + 1) .. (m + Capacity - 1)
        <4>3. IsFiniteSet(between) /\ Cardinality(between) = Capacity - 1
          <5>1. PICK a \in Int, b \in Int : a = m + 1 /\ b = m + Capacity - 1
            BY <4>1
          <5>2. IsFiniteSet(a .. b) /\ Cardinality(a .. b) = IF a > b THEN 0 ELSE b - a + 1
            BY FS_Interval
          <5>3. (IF a > b THEN 0 ELSE b - a + 1) = Capacity - 1
            BY <4>1, <5>1
          <5> QED
            BY <5>1, <5>2, <5>3
        <4>4. younger \in SUBSET between
          BY <4>2
        <4>5. Cardinality(younger) <= Cardinality(between) /\ Cardinality(younger) \in Nat
          <5> HIDE DEF younger, between
          <5> QED
            BY <4>3, <4>4, FS_Subset, FS_CardinalityType
        <4> HIDE DEF younger, between
        <4> QED
          BY <3>1, <4>1, <4>3, <4>5
      <3> HIDE DEF younger
      <3> QED
        BY <2>3, <3>1, <3>2 DEF LossesAreOld
    <2> QED
      BY <2>1, <2>2, <2>4, <2>5, <2>6, <2>7 DEF Promise!Next, Promise!Messages, Messages
  <1> QED
    BY <1>1, <1>2, PTL DEF Promise!Spec, StatusNow

\* MqttPublisher.publish: whatever happens to connection and threads, the last BUFFER_SIZE
\* messages given to the publisher are waiting or have reached the broker.
THEOREM LatestAreKept ==
  Spec => [](\A m \in Messages : Status(m) = "lost" => m + Capacity <= published)
  <1>1. PublisherInv /\ LossesAreOld(StatusNow) =>
          \A m \in Messages : Status(m) = "lost" => m + Capacity <= published
    <2> SUFFICES ASSUME PublisherInv, LossesAreOld(StatusNow),
                        NEW m \in Messages, Status(m) = "lost"
                 PROVE  m + Capacity <= published
      OBVIOUS
    <2>1. m + Capacity \in Messages /\ Status(m + Capacity) # "new"
      BY DEF LossesAreOld, StatusNow
    <2>2. ~(m + Capacity > published)
      BY <2>1, StatusIs
    <2> QED
      BY <2>1, <2>2 DEF PublisherInv, QueueInv, Messages
  <1> QED
    BY PublisherInvariant, PublisherKeepsPromise, PromisedLosses, <1>1, PTL DEF KeepsPromise
=============================================================================
