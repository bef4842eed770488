-------------------------- MODULE MqttBridgeProofs --------------------------
(***************************************************************************)
(* Proofs about the bridge, for any number of deliveries, keys, commands,  *)
(* partitions, failures and restarts: its tasks implement a deduplication  *)
(* window, a suppressed message has an original, a committed offset passes *)
(* over no command that was not handled, and commands arrive in order.     *)
(***************************************************************************)
EXTENDS MqttBridge, TLAPS

(* What a deduplication window promises *)

\* A claim is of the current window or of an earlier one, no two deliveries have claimed the
\* same window of a key, and only those that claimed one have passed.
WindowInv ==
  /\ claimed \in [Deliveries -> Nat]
  /\ window \in [Keys -> Nat \ {0}]
  /\ \A d \in Deliveries :
       /\ claimed[d] <= window[KeyOf[d]]
       /\ claimed[d] = window[KeyOf[d]] => KeyOf[d] \in seen
  /\ \A d, e \in Deliveries :
       claimed[d] # 0 /\ KeyOf[d] = KeyOf[e] /\ claimed[d] = claimed[e] => d = e
  /\ stored \subseteq {d \in Deliveries : claimed[d] # 0}

\* OncePerWindow: of the deliveries with one key, one passes in each window, for any number
\* of deliveries, keys and windows.
THEOREM WindowPromise == Window!WSpec => []Window!AtMostOne
  <1>1. Window!WInit => WindowInv
    BY KeyAssumption DEF Window!WInit, WindowInv
  <1>2. WindowInv /\ [Window!WNext]_Window!wvars => WindowInv'
    <2> SUFFICES ASSUME WindowInv, [Window!WNext]_Window!wvars PROVE WindowInv'
      OBVIOUS
    <2> USE KeyAssumption DEF WindowInv
    <2>1. ASSUME NEW d \in Deliveries, Window!Claim(d) PROVE WindowInv'
      <3>1. /\ claimed[d] = 0 /\ KeyOf[d] \notin seen /\ KeyOf[d] \in Keys
            /\ seen' = seen \cup {KeyOf[d]} /\ window' = window /\ stored' = stored
            /\ claimed' = [claimed EXCEPT ![d] = window[KeyOf[d]]]
        BY <2>1 DEF Window!Claim
      <3>2. \A e \in Deliveries : claimed'[e] = IF e = d THEN window[KeyOf[d]] ELSE claimed[e]
        BY <3>1
      <3>3. \A e \in Deliveries : KeyOf[e] = KeyOf[d] => claimed[e] # window[KeyOf[d]]
        BY <3>1
      <3>4. \A e, f \in Deliveries :
              claimed'[e] # 0 /\ KeyOf[e] = KeyOf[f] /\ claimed'[e] = claimed'[f] => e = f
        BY <3>2, <3>3
      <3>5. \A e \in Deliveries :
              /\ claimed'[e] <= window'[KeyOf[e]]
              /\ claimed'[e] = window'[KeyOf[e]] => KeyOf[e] \in seen'
        BY <3>1, <3>2
      <3>6. claimed' \in [Deliveries -> Nat] /\ window' \in [Keys -> Nat \ {0}]
        BY <3>1
      <3>7. stored' \subseteq {e \in Deliveries : claimed'[e] # 0}
        BY <3>1, <3>2
      <3> QED
        BY <3>4, <3>5, <3>6, <3>7
    <2>2. ASSUME NEW d \in Deliveries, Window!Pass(d) PROVE WindowInv'
      BY <2>2 DEF Window!Pass
    <2>3. ASSUME NEW k \in Keys, Window!Close(k) PROVE WindowInv'
      <3>1. /\ window' = [window EXCEPT ![k] = @ + 1] /\ seen' = seen \ {k}
            /\ claimed' = claimed /\ stored' = stored
        BY <2>3 DEF Window!Close
      <3>2. \A d \in Deliveries :
              window'[KeyOf[d]] = IF KeyOf[d] = k THEN window[KeyOf[d]] + 1 ELSE window[KeyOf[d]]
        BY <3>1
      <3>3. window' \in [Keys -> Nat \ {0}]
        BY <3>1
      <3> QED
        BY <3>1, <3>2, <3>3
    <2>4. CASE UNCHANGED Window!wvars
      BY <2>4 DEF Window!wvars
    <2> QED
      BY <2>1, <2>2, <2>3, <2>4 DEF Window!WNext
  <1>3. WindowInv => Window!AtMostOne
    BY DEF WindowInv, Window!AtMostOne
  <1> QED
    BY <1>1, <1>2, <1>3, PTL DEF Window!WSpec

-----------------------------------------------------------------------------
(* The tasks of the bridge *)

\* A delivery has claimed a window if and only if its task came past the lookup with success.
TasksOK ==
  /\ handler \in [Deliveries -> Kinds \cup {"none", "sending", "duplicate", "done"}]
  /\ claimed \in [Deliveries -> Nat]
  /\ window \in [Keys -> Nat \ {0}]
  /\ \A d \in Deliveries :
       /\ handler[d] \in Kinds \cup {"none"} => claimed[d] = 0
       /\ handler[d] = "sending" => claimed[d] # 0

LEMMA TasksInit == Init => TasksOK
  BY DEF Init, TasksOK, Kinds

\* Steps of the downward direction, of the process and of the connection change neither the
\* keys nor the claims nor what Kafka has, and end tasks at most.
LEMMA OtherSteps ==
  ASSUME Downlink \/ Process \/ UNCHANGED vars
  PROVE  /\ UNCHANGED <<seen, stored, window, claimed>>
         /\ UNCHANGED <<handler, cut>> \/ TasksEnd
  BY DEF Downlink, Process, Publish, Assign, Forward, ForwardingFails, AutoCommit, BrokerReceives,
         BrokerAcknowledges, Connect, Disconnect, Start, Stop, Exit, Crash, vars, upVars

LEMMA TasksNext == TasksOK /\ [Next]_vars => TasksOK'
  <1> SUFFICES ASSUME TasksOK, [Next]_vars PROVE TasksOK'
    OBVIOUS
  <1> USE KeyAssumption DEF TasksOK, Kinds
  <1>1. ASSUME NEW d \in Deliveries, NEW kind \in Kinds, Receive(d, kind) PROVE TasksOK'
    BY <1>1 DEF Receive
  <1>2. ASSUME NEW d \in Deliveries, Ignore(d) PROVE TasksOK'
    BY <1>2 DEF Ignore
  <1>3. ASSUME NEW d \in Deliveries, Deduplicate(d) PROVE TasksOK'
    BY <1>3 DEF Deduplicate, Claims
  <1>4. ASSUME NEW d \in Deliveries, DeduplicateFails(d) PROVE TasksOK'
    BY <1>4 DEF DeduplicateFails, Claims
  <1>5. ASSUME NEW d \in Deliveries, Send(d) \/ SendFails(d) PROVE TasksOK'
    BY <1>5 DEF Send, SendFails
  <1>6. ASSUME NEW k \in Keys, Expire(k) PROVE TasksOK'
    BY <1>6 DEF Expire
  <1>7. ASSUME UNCHANGED <<window, claimed>>, UNCHANGED handler \/ TasksEnd PROVE TasksOK'
    BY <1>7 DEF TasksEnd
  <1> QED
    BY <1>1, <1>2, <1>3, <1>4, <1>5, <1>6, <1>7, OtherSteps DEF Next, Uplink

\* mqtt_bridge.py, _is_duplicate and _handle_mqtt_message: every step of the bridge is a step of
\* its deduplication window or leaves the window alone, failures, stops and crashes included.
THEOREM BridgeImplementsWindow == Spec => ImplementsWindow
  <1>1. Init => Window!WInit
    BY DEF Init, Window!WInit
  <1>2. TasksOK /\ [Next]_vars => [Window!WNext]_Window!wvars
    <2> SUFFICES ASSUME TasksOK, [Next]_vars
                 PROVE  [Window!WNext]_Window!wvars
      OBVIOUS
    <2>1. ASSUME NEW d \in Deliveries, NEW kind \in Kinds, Receive(d, kind) \/ Ignore(d)
          PROVE  [Window!WNext]_Window!wvars
      BY <2>1 DEF Receive, Ignore, Window!wvars
    <2>2. ASSUME NEW d \in Deliveries, Deduplicate(d) PROVE [Window!WNext]_Window!wvars
      <3>1. Window!Claim(d) \/ UNCHANGED Window!wvars
        BY <2>2 DEF Deduplicate, Seen, Claims, TasksOK, Kinds, Window!Claim, Window!wvars
      <3> QED
        BY <3>1 DEF Window!WNext
    <2>3. ASSUME NEW d \in Deliveries, DeduplicateFails(d) PROVE [Window!WNext]_Window!wvars
      <3>1. Window!Claim(d) \/ UNCHANGED Window!wvars
        BY <2>3 DEF DeduplicateFails, Claims, TasksOK, Kinds, Window!Claim, Window!wvars
      <3> QED
        BY <3>1 DEF Window!WNext
    <2>4. ASSUME NEW d \in Deliveries, Send(d) \/ SendFails(d) PROVE [Window!WNext]_Window!wvars
      <3>1. Window!Pass(d) \/ UNCHANGED Window!wvars
        BY <2>4 DEF Send, SendFails, TasksOK, Window!Pass, Window!wvars
      <3> QED
        BY <3>1 DEF Window!WNext
    <2>5. ASSUME NEW k \in Keys, Expire(k) PROVE [Window!WNext]_Window!wvars
      <3>1. Window!Close(k)
        BY <2>5 DEF Expire, Window!Close
      <3> QED
        BY <3>1 DEF Window!WNext
    <2>6. CASE Downlink \/ Process \/ UNCHANGED vars
      BY <2>6, OtherSteps DEF Window!wvars
    <2> QED
      <3>1. Uplink \/ Downlink \/ Process \/ UNCHANGED vars
        BY DEF Next
      <3>2. CASE Uplink
        <4>1. \/ \E d \in Deliveries : \E kind \in Kinds : Receive(d, kind) \/ Ignore(d)
              \/ \E d \in Deliveries : Deduplicate(d) \/ DeduplicateFails(d) \/ Send(d) \/ SendFails(d)
              \/ \E k \in Keys : Expire(k)
          BY <3>2 DEF Uplink, Kinds
        <4> QED
          BY <2>1, <2>2, <2>3, <2>4, <2>5, <4>1
      <3> QED
        BY <2>6, <3>1, <3>2
  <1> QED
    BY <1>1, <1>2, TasksInit, TasksNext, PTL DEF Spec, ImplementsWindow, Window!WSpec

\* Hence two deliveries of one message reach Kafka in different windows.
THEOREM BridgeOncePerWindow == Spec => []Window!AtMostOne
  BY BridgeImplementsWindow, WindowPromise, PTL DEF ImplementsWindow

-----------------------------------------------------------------------------
(* A suppressed delivery has an original *)

\* The task that claimed a key is sending, or has ended with its message in Kafka or cut off.
Original(e) == handler[e] = "sending" \/ (handler[e] = "done" /\ e \in stored \cup cut)

OriginInv ==
  /\ handler \in [Deliveries -> Kinds \cup {"none", "sending", "duplicate", "done"}]
  /\ \A k \in seen : \E e \in Deliveries : KeyOf[e] = k /\ Original(e)
  /\ \A d \in Deliveries :
       handler[d] = "duplicate" => \E e \in Deliveries : KeyOf[e] = KeyOf[d] /\ Original(e)

\* An original stays one: its task can only end.
LEMMA OriginalStays ==
  ASSUME OriginInv, [Next]_vars, NEW e \in Deliveries, Original(e)
  PROVE  Original(e)'
  <1> USE DEF OriginInv, Original, Kinds
  <1>1. ASSUME NEW d \in Deliveries, NEW kind \in Kinds, Receive(d, kind) \/ Ignore(d)
        PROVE  Original(e)'
    BY <1>1 DEF Receive, Ignore
  <1>2. ASSUME NEW d \in Deliveries, Deduplicate(d) PROVE Original(e)'
    BY <1>2 DEF Deduplicate, Claims
  <1>3. ASSUME NEW d \in Deliveries, DeduplicateFails(d) PROVE Original(e)'
    BY <1>3 DEF DeduplicateFails, Claims
  <1>4. ASSUME NEW d \in Deliveries, Send(d) \/ SendFails(d) PROVE Original(e)'
    BY <1>4 DEF Send, SendFails
  <1>5. ASSUME NEW k \in Keys, Expire(k) PROVE Original(e)'
    BY <1>5 DEF Expire
  <1>6. ASSUME UNCHANGED stored, UNCHANGED <<handler, cut>> \/ TasksEnd PROVE Original(e)'
    BY <1>6 DEF TasksEnd
  <1> QED
    BY <1>1, <1>2, <1>3, <1>4, <1>5, <1>6, OtherSteps DEF Next, Uplink

LEMMA OriginInit == Init => OriginInv
  BY DEF Init, OriginInv, Kinds

LEMMA OriginNext == OriginInv /\ TasksOK /\ [Next]_vars => OriginInv'
  <1> SUFFICES ASSUME OriginInv, TasksOK, [Next]_vars PROVE OriginInv'
    OBVIOUS
  <1>0. handler' \in [Deliveries -> Kinds \cup {"none", "sending", "duplicate", "done"}]
    BY TasksNext DEF TasksOK
  <1>1. ASSUME \A k \in seen' \ seen : \E e \in Deliveries : KeyOf[e] = k /\ Original(e)',
               \A d \in Deliveries : handler'[d] = "duplicate" =>
                                       handler[d] = "duplicate" \/ KeyOf[d] \in seen
        PROVE  OriginInv'
    <2>1. \A k \in seen \cup {KeyOf[d] : d \in {c \in Deliveries : handler[c] = "duplicate"}} :
            \E e \in Deliveries : KeyOf[e] = k /\ Original(e)'
      BY OriginalStays DEF OriginInv
    <2>2. \A d \in Deliveries : handler'[d] = "duplicate" =>
            \E e \in Deliveries : KeyOf[e] = KeyOf[d] /\ Original(e)'
      BY <1>1, <2>1
    <2>3. \A k \in seen' : \E e \in Deliveries : KeyOf[e] = k /\ Original(e)'
      BY <1>1, <2>1
    <2> QED
      BY <1>0, <2>2, <2>3 DEF OriginInv
  <1>2. ASSUME NEW d \in Deliveries, Deduplicate(d) PROVE OriginInv'
    <2>1. \A e \in Deliveries : handler'[e] = "duplicate" =>
                                  handler[e] = "duplicate" \/ KeyOf[e] \in seen
      BY <1>2 DEF Deduplicate, Seen, OriginInv
    <2>2. \A k \in seen' \ seen : k = KeyOf[d] /\ Original(d)'
      BY <1>2 DEF Deduplicate, Claims, Original, OriginInv
    <2> QED
      BY <1>1, <2>1, <2>2
  <1>3. ASSUME NEW d \in Deliveries, DeduplicateFails(d) PROVE OriginInv'
    <2>1. \A e \in Deliveries : handler'[e] = "duplicate" => handler[e] = "duplicate"
      BY <1>3 DEF DeduplicateFails, OriginInv
    <2>2. \A k \in seen' \ seen : k = KeyOf[d] /\ Original(d)'
      BY <1>3 DEF DeduplicateFails, Claims, Original, OriginInv
    <2> QED
      BY <1>1, <2>1, <2>2
  <1>4. ASSUME NEW d \in Deliveries, NEW kind \in Kinds,
               Receive(d, kind) \/ Ignore(d) \/ Send(d) \/ SendFails(d)
        PROVE  OriginInv'
    <2>1. seen' = seen
      BY <1>4 DEF Receive, Ignore, Send, SendFails
    <2>2. \A e \in Deliveries : handler'[e] = "duplicate" => handler[e] = "duplicate"
      BY <1>4 DEF Receive, Ignore, Send, SendFails, OriginInv, Kinds
    <2> QED
      BY <1>1, <2>1, <2>2
  <1>5. ASSUME NEW k \in Keys, Expire(k) PROVE OriginInv'
    BY <1>1, <1>5 DEF Expire
  <1>6. CASE Downlink \/ Process \/ UNCHANGED vars
    <2>1. seen' = seen
      BY <1>6, OtherSteps
    <2>2. \A e \in Deliveries : handler'[e] = "duplicate" => handler[e] = "duplicate"
      BY <1>6, OtherSteps DEF TasksEnd, OriginInv
    <2> QED
      BY <1>1, <2>1, <2>2
  <1> QED
    BY <1>2, <1>3, <1>4, <1>5, <1>6 DEF Next, Uplink, Kinds

\* mqtt_bridge.py, _handle_mqtt_message: no message is given up as a duplicate unless another of
\* its key is in Kafka, on its way there, or was cut off by a failure after it took the key.
THEOREM SuppressedIsCovered == Spec => []SuppressedHasOriginal
  <1>1. OriginInv => SuppressedHasOriginal
    BY DEF OriginInv, SuppressedHasOriginal, Original
  <1> QED
    BY TasksInit, TasksNext, OriginInit, OriginNext, <1>1, PTL DEF Spec

-----------------------------------------------------------------------------
(* Committed offsets *)

Handled == Range(arrived) \cup Range(outbox) \cup dropped \cup missed

\* What the consumer has returned or committed lies within the log and was handled, and what
\* the broker has received over this connection has arrived.
OffsetsInv ==
  /\ log \in [Partitions -> Seq(Commands)]
  /\ position \in [Partitions -> Nat \cup {NoOffset}]
  /\ committed \in [Partitions -> Nat \cup {NoOffset}]
  /\ outbox \in Seq(Commands) /\ arrived \in Seq(Commands)
  /\ reached \in 0 .. Len(outbox)
  /\ \A i \in 1 .. reached : outbox[i] \in Range(arrived)
  /\ \A p \in Partitions :
       /\ position[p] <= Len(log[p]) /\ committed[p] <= Len(log[p])
       /\ \A i \in 1 .. position[p] : log[p][i] \in Handled
       /\ \A i \in 1 .. committed[p] : log[p][i] \in Handled

LEMMA OffsetsInit == Init => OffsetsInv
  BY DEF Init, OffsetsInv, Unassigned, NoOffset

\* What is handled stays so when the log and the offsets stay.
LEMMA HandledStays ==
  ASSUME OffsetsInv, log' = log, position' = position, committed' = committed,
         outbox' \in Seq(Commands), arrived' \in Seq(Commands), reached' \in 0 .. Len(outbox'),
         \A i \in 1 .. reached' : outbox'[i] \in Range(arrived)',
         Handled \subseteq Handled'
  PROVE  OffsetsInv'
  BY DEF OffsetsInv

\* The range of a sequence with one more element.
LEMMA RangeOfAppend ==
  ASSUME NEW S, NEW s \in Seq(S), NEW e \in S
  PROVE  Append(s, e) \in Seq(S) /\ Range(Append(s, e)) = Range(s) \cup {e}
  <1>1. /\ Append(s, e) \in Seq(S) /\ Len(Append(s, e)) = Len(s) + 1
        /\ \A i \in 1 .. Len(s) : Append(s, e)[i] = s[i]
        /\ Append(s, e)[Len(s) + 1] = e
    OBVIOUS
  <1>2. DOMAIN s = 1 .. Len(s) /\ DOMAIN Append(s, e) = 1 .. Len(s) + 1 /\ Len(s) \in Nat
    OBVIOUS
  <1> QED
    BY <1>1, <1>2 DEF Range

LEMMA OffsetsNext == OffsetsInv /\ [Next]_vars => OffsetsInv'
  <1> SUFFICES ASSUME OffsetsInv, [Next]_vars PROVE OffsetsInv'
    OBVIOUS
  <1>1. CASE UNCHANGED downVars
    <2>1. Handled' = Handled
      BY <1>1 DEF downVars, clientVars, fates, Handled, Range
    <2> QED
      BY <1>1, <2>1 DEF downVars, clientVars, fates, consumerVars, OffsetsInv
  <1>2. ASSUME NEW c \in Commands, Publish(c) PROVE OffsetsInv'
    <2>1. PICK p \in Partitions : log' = [log EXCEPT ![p] = Append(@, c)]
      BY <1>2 DEF Publish
    <2>2. Handled' = Handled
      BY <1>2 DEF Publish, clientVars, fates, Handled, Range
    <2>3. /\ log' \in [Partitions -> Seq(Commands)]
          /\ \A q \in Partitions :
               /\ Len(log'[q]) >= Len(log[q])
               /\ \A i \in 1 .. Len(log[q]) : log'[q][i] = log[q][i]
      BY <2>1 DEF OffsetsInv
    <2>4. UNCHANGED <<position, committed, outbox, reached, arrived>>
      BY <1>2 DEF Publish, consumerVars, clientVars
    <2>5. ASSUME NEW q \in Partitions
          PROVE  /\ position[q] <= Len(log'[q]) /\ committed[q] <= Len(log'[q])
                 /\ \A i \in 1 .. position[q] : log'[q][i] \in Handled
                 /\ \A i \in 1 .. committed[q] : log'[q][i] \in Handled
      <3>1. /\ position[q] \in Int /\ committed[q] \in Int
            /\ Len(log[q]) \in Nat /\ Len(log'[q]) \in Nat
        BY <2>3 DEF OffsetsInv, NoOffset
      <3>2. position[q] <= Len(log[q]) /\ committed[q] <= Len(log[q])
        BY DEF OffsetsInv
      <3>3. position[q] <= Len(log'[q]) /\ committed[q] <= Len(log'[q])
        BY <2>3, <3>1, <3>2
      <3>4. ASSUME NEW n \in {position[q], committed[q]}, NEW i \in 1 .. n
            PROVE  log'[q][i] \in Handled
        <4>1. log'[q][i] = log[q][i]
          BY <2>3, <3>1, <3>2
        <4>2. log[q][i] \in Handled
          BY DEF OffsetsInv
        <4> QED
          BY <4>1, <4>2
      <3> QED
        BY <3>3, <3>4
    <2>6. \A i \in 1 .. reached : outbox[i] \in Range(arrived)
      BY DEF OffsetsInv
    <2> QED
      BY <2>2, <2>3, <2>4, <2>5, <2>6 DEF OffsetsInv, Range
  <1>3. ASSUME NEW p \in Partitions, Assign(p) PROVE OffsetsInv'
    <2>1. /\ position' = [position EXCEPT ![p] = FirstPosition(p)]
          /\ missed' = IF committed[p] = NoOffset THEN missed \cup Range(log[p]) ELSE missed
          /\ UNCHANGED <<log, committed, outbox, reached, arrived, dropped>>
      BY <1>3 DEF Assign, clientVars
    <2>2. Handled \subseteq Handled'
      BY <2>1 DEF Handled, Range
    <2>3. FirstPosition(p) \in Nat \cup {NoOffset} /\ FirstPosition(p) <= Len(log[p])
      BY DEF FirstPosition, OffsetsInv
    <2>4. \A i \in 1 .. FirstPosition(p) : log[p][i] \in Handled'
      <3>1. CASE committed[p] = NoOffset
        BY <2>1, <3>1 DEF FirstPosition, Handled, Range, OffsetsInv
      <3>2. CASE committed[p] # NoOffset
        BY <2>2, <3>2 DEF FirstPosition, OffsetsInv
      <3> QED
        BY <3>1, <3>2
    <2>5. \A i \in 1 .. reached : outbox[i] \in Range(arrived)
      BY DEF OffsetsInv
    <2> QED
      BY <2>1, <2>2, <2>3, <2>4, <2>5 DEF OffsetsInv, Range
  <1>4. ASSUME NEW p \in Partitions, Forward(p) PROVE OffsetsInv'
    <2> DEFINE next == position[p] + 1
    <2>1. /\ position[p] # NoOffset /\ position[p] < Len(log[p])
          /\ Hand(log[p][next])
          /\ position' = [position EXCEPT ![p] = next]
          /\ UNCHANGED <<log, committed, reached, arrived, missed>>
      BY <1>4 DEF Forward, CanForward, Assigned
    <2>2. next \in 1 .. Len(log[p]) /\ log[p][next] \in Commands
      BY <2>1 DEF OffsetsInv
    <2> HIDE DEF next
    <2>3. /\ outbox' \in Seq(Commands) /\ reached' \in 0 .. Len(outbox')
          /\ \A i \in 1 .. reached' : outbox'[i] = outbox[i]
          /\ Handled \cup {log[p][next]} \subseteq Handled'
      <3>1. CASE connected
        <4>1. outbox' = Append(outbox, log[p][next]) /\ dropped' = dropped
          BY <2>1, <3>1 DEF Hand
        <4>2. Range(outbox)' = Range(outbox) \cup {log[p][next]} /\ outbox' \in Seq(Commands)
          BY <2>2, <4>1, RangeOfAppend DEF OffsetsInv
        <4>3. Handled' = Handled \cup {log[p][next]}
          BY <2>1, <4>1, <4>2 DEF Handled, Range
        <4> QED
          BY <2>1, <2>2, <4>1, <4>2, <4>3 DEF OffsetsInv
      <3>2. CASE ~connected
        <4>1. outbox' = outbox /\ dropped' = dropped \cup {log[p][next]}
          BY <2>1, <3>2 DEF Hand
        <4>2. Handled' = Handled \cup {log[p][next]}
          BY <2>1, <4>1 DEF Handled, Range
        <4> QED
          BY <2>1, <4>1, <4>2 DEF OffsetsInv
      <3> QED
        BY <3>1, <3>2
    <2>4. /\ position' \in [Partitions -> Nat \cup {NoOffset}]
          /\ \A q \in Partitions :
               /\ position'[q] <= Len(log[q])
               /\ \A i \in 1 .. position'[q] : log[q][i] \in Handled \cup {log[p][next]}
      BY <2>1, <2>2 DEF OffsetsInv, next
    <2>5. \A i \in 1 .. reached : outbox[i] \in Range(arrived)
      BY DEF OffsetsInv
    <2>6. /\ log' = log /\ committed' = committed
          /\ \A i \in 1 .. reached' : outbox'[i] \in Range(arrived)'
      BY <2>1, <2>3, <2>5 DEF Range
    <2>7. ASSUME NEW q \in Partitions
          PROVE  /\ position'[q] <= Len(log'[q]) /\ committed'[q] <= Len(log'[q])
                 /\ \A i \in 1 .. position'[q] : log'[q][i] \in Handled'
                 /\ \A i \in 1 .. committed'[q] : log'[q][i] \in Handled'
      <3>1. committed[q] <= Len(log[q]) /\ \A i \in 1 .. committed[q] : log[q][i] \in Handled
        BY DEF OffsetsInv
      <3> QED
        BY <2>3, <2>4, <2>6, <3>1
    <2>8. arrived' \in Seq(Commands)
      BY <2>1 DEF OffsetsInv
    <2> QED
      BY <2>3, <2>4, <2>6, <2>7, <2>8 DEF OffsetsInv
  <1>5. CASE ForwardingFails
    <2>1. UNCHANGED <<log, position, committed, outbox, reached, arrived, dropped, missed>>
      BY <1>5 DEF ForwardingFails, clientVars, fates
    <2> QED
      BY <2>1 DEF OffsetsInv, Handled, Range
  <1>6. ASSUME position' \in {position, Unassigned}, committed' \in {committed, Positions},
               log' = log, arrived' = arrived, dropped' = dropped,
               \/ UNCHANGED <<outbox, missed>> /\ reached' \in {reached, 0}
               \/ ClientEnds
        PROVE  OffsetsInv'
    <2>1. Handled \subseteq Handled'
      BY <1>6 DEF Handled, ClientEnds, Range
    <2>2. /\ outbox' \in Seq(Commands) /\ reached' \in 0 .. Len(outbox')
          /\ \A i \in 1 .. reached' : outbox'[i] \in Range(arrived)
      <3>1. CASE ClientEnds
        <4>1. outbox' = <<>> /\ reached' = 0
          BY <3>1 DEF ClientEnds
        <4> QED
          BY <4>1
      <3>2. CASE UNCHANGED outbox /\ reached' \in {reached, 0}
        BY <3>2 DEF OffsetsInv
      <3> QED
        BY <1>6, <3>1, <3>2
    <2>3. ASSUME NEW p \in Partitions, NEW n \in {position[p], committed[p], NoOffset}
          PROVE  /\ n \in Nat \cup {NoOffset} /\ n <= Len(log[p])
                 /\ \A i \in 1 .. n : log[p][i] \in Handled'
      BY <2>1 DEF OffsetsInv, NoOffset
    <2>4. \A p \in Partitions :
            /\ position'[p] \in {position[p], committed[p], NoOffset}
            /\ committed'[p] \in {position[p], committed[p], NoOffset}
      BY <1>6 DEF Unassigned, Positions
    <2>5. DOMAIN position' = Partitions /\ DOMAIN committed' = Partitions
      BY <1>6 DEF Unassigned, Positions, OffsetsInv
    <2>6. /\ position' \in [Partitions -> Nat \cup {NoOffset}]
          /\ committed' \in [Partitions -> Nat \cup {NoOffset}]
      <3>1. \A p \in Partitions :
              position'[p] \in Nat \cup {NoOffset} /\ committed'[p] \in Nat \cup {NoOffset}
        BY <2>3, <2>4
      <3>2. position' = [p \in Partitions |-> position'[p]]
        BY <1>6 DEF Unassigned, OffsetsInv
      <3>3. committed' = [p \in Partitions |-> committed'[p]]
        BY <1>6 DEF Positions, OffsetsInv
      <3> QED
        BY <3>1, <3>2, <3>3
    <2> QED
      BY <1>6, <2>2, <2>3, <2>4, <2>6 DEF OffsetsInv, Range
  <1>7. CASE BrokerReceives
    <2>1. /\ arrived' = Append(arrived, outbox[reached + 1]) /\ reached' = reached + 1
          /\ reached < Len(outbox)
          /\ UNCHANGED <<log, position, committed, outbox, dropped, missed>>
      BY <1>7 DEF BrokerReceives, consumerVars, fates
    <2>2. outbox[reached + 1] \in Commands /\ reached + 1 \in 0 .. Len(outbox)
      BY <2>1 DEF OffsetsInv
    <2>3. arrived' \in Seq(Commands) /\ Range(arrived)' = Range(arrived) \cup {outbox[reached + 1]}
      BY <2>1, <2>2, RangeOfAppend DEF OffsetsInv
    <2>4. \A i \in 1 .. reached' : outbox'[i] \in Range(arrived)'
      <3>1. \A i \in 1 .. reached : outbox[i] \in Range(arrived)
        BY DEF OffsetsInv
      <3>2. reached \in Nat
        BY DEF OffsetsInv
      <3> QED
        BY <2>1, <2>3, <3>1, <3>2
    <2>5. Handled \subseteq Handled'
      BY <2>1, <2>3 DEF Handled, Range
    <2> QED
      BY <2>1, <2>2, <2>3, <2>4, <2>5, HandledStays DEF OffsetsInv
  <1>8. CASE BrokerAcknowledges
    <2>1. /\ outbox' = Tail(outbox) /\ reached' = reached - 1 /\ reached > 0
          /\ UNCHANGED <<log, position, committed, arrived, dropped, missed>>
      BY <1>8 DEF BrokerAcknowledges, consumerVars, fates
    <2>2. /\ reached \in 1 .. Len(outbox) /\ outbox \in Seq(Commands)
          /\ \A i \in 1 .. reached : outbox[i] \in Range(arrived)
      BY <2>1 DEF OffsetsInv
    <2>3. /\ outbox' \in Seq(Commands) /\ Len(outbox') = Len(outbox) - 1
          /\ \A i \in 1 .. Len(outbox) - 1 : outbox'[i] = outbox[i + 1]
      BY <2>1, <2>2
    <2>4. \A i \in 1 .. reached' : outbox'[i] \in Range(arrived)
      BY <2>1, <2>2, <2>3
    <2>5. Handled \subseteq Handled'
      <3>1. ASSUME NEW i \in 1 .. Len(outbox) PROVE outbox[i] \in Range(arrived) \cup Range(outbox')
        <4>1. CASE i = 1
          BY <2>2, <4>1
        <4>2. CASE i # 1
          <5>1. i - 1 \in 1 .. Len(outbox) - 1 /\ outbox'[i - 1] = outbox[i]
            BY <2>2, <2>3, <4>2
          <5>2. DOMAIN outbox' = 1 .. Len(outbox) - 1
            BY <2>3
          <5> QED
            BY <5>1, <5>2 DEF Range
        <4> QED
          BY <4>1, <4>2
      <3>2. Range(outbox) \subseteq Range(arrived) \cup Range(outbox')
        BY <2>2, <3>1 DEF Range
      <3>3. Range(outbox)' = Range(outbox') /\ Range(arrived)' = Range(arrived)
        BY <2>1 DEF Range
      <3> QED
        BY <2>1, <3>2, <3>3 DEF Handled
    <2>6. Range(arrived)' = Range(arrived)
      BY <2>1 DEF Range
    <2> QED
      BY <2>1, <2>2, <2>3, <2>4, <2>5, <2>6, HandledStays DEF OffsetsInv
  <1>9. CASE AutoCommit \/ Connect \/ Disconnect \/ Start \/ Stop \/ Exit \/ Crash
    <2>1. /\ position' \in {position, Unassigned} /\ committed' \in {committed, Positions}
          /\ log' = log /\ arrived' = arrived /\ dropped' = dropped
          /\ \/ UNCHANGED <<outbox, missed>> /\ reached' \in {reached, 0}
             \/ ClientEnds
      BY <1>9 DEF AutoCommit, Connect, Disconnect, ToResend, Start, Stop, Exit, Crash, downVars,
                  consumerVars, clientVars, fates
    <2> QED
      BY <1>6, <2>1
  <1>10. CASE Uplink \/ UNCHANGED vars
    BY <1>1, <1>10 DEF Uplink, Receive, Ignore, Deduplicate, DeduplicateFails, Send, SendFails,
                       Expire, vars
  <1> QED
    BY <1>2, <1>3, <1>4, <1>5, <1>7, <1>8, <1>9, <1>10 DEF Next, Downlink, Process

\* mqtt_bridge.py, _forward_kafka_to_mqtt and start: with any number of partitions, restarts and
\* lost connections, an offset is committed only past commands that were handed to the client,
\* or dropped or missed in one of the ways named.
THEOREM CommittedIsHandled == Spec => []CommittedWasHandled
  <1>1. OffsetsInv => CommittedWasHandled
    BY DEF OffsetsInv, CommittedWasHandled, Handled
  <1> QED
    BY OffsetsInit, OffsetsNext, <1>1, PTL DEF Spec
-----------------------------------------------------------------------------
(* The order of arrival *)

\* The consumer returns the i-th command of p no more: neither now nor after a restart.
PassedBy(p, i) ==
  /\ committed[p] = NoOffset \/ i <= committed[p]
  /\ position[p] = NoOffset \/ i <= position[p]

\* And the client does not have it either: it never arrives.
Gone(p, i) == PassedBy(p, i) /\ log[p][i] \notin Range(arrived) \cup Range(outbox)

\* Wherever d has arrived or waits to, c does so earlier.
Precedes(c, d) ==
  /\ \A y \in DOMAIN arrived : arrived[y] = d => \E x \in 1 .. y - 1 : arrived[x] = c
  /\ \A y \in DOMAIN outbox :
       outbox[y] = d => c \in Range(arrived) \/ \E x \in 1 .. y - 1 : outbox[x] = c

\* A command has one place in one partition.
PlacesInv ==
  \A p, q \in Partitions : \A i \in 1 .. Len(log[p]), j \in 1 .. Len(log[q]) :
    log[p][i] = log[q][j] => p = q /\ i = j

\* What the client and the broker have comes from the log.
SourceInv == Range(arrived) \cup Range(outbox) \subseteq Published

\* What has arrived has arrived for a first time.
FirstInv ==
  \A c \in Range(arrived) :
    \E x \in DOMAIN arrived : arrived[x] = c /\ \A y \in 1 .. x - 1 : arrived[y] # c

\* What this run of the process has passed over went to the client or is passed by for good.
HandedInv ==
  /\ mode = "down" => position = Unassigned
  /\ mode = "running" =>
       \A p \in Partitions : \A i \in 1 .. Len(log[p]) :
         i <= position[p] =>
           log[p][i] \in Range(arrived) \cup Range(outbox) \cup dropped \/ PassedBy(p, i)

\* A command is dropped, never arrives, or precedes those published after it.
OrderInv ==
  \A p \in Partitions : \A i, j \in 1 .. Len(log[p]) :
    i < j => \/ log[p][i] \in dropped
             \/ Gone(p, i)
             \/ Precedes(log[p][i], log[p][j])

ArrivalInv == PlacesInv /\ SourceInv /\ FirstInv /\ HandedInv /\ OrderInv

LEMMA ArrivalInit == Init => ArrivalInv
  BY DEF Init, ArrivalInv, PlacesInv, SourceInv, Published, FirstInv, HandedInv, OrderInv, Unassigned, Range

\* A step of neither the log nor the broker, after which the consumer returns nothing that it
\* did not return before.
LEMMA ArrivalStays ==
  ASSUME ArrivalInv,
         log' = log, arrived' = arrived, dropped' = dropped, outbox' \in {outbox, <<>>},
         \A p \in Partitions, i \in Nat : i <= Len(log[p]) /\ PassedBy(p, i) => PassedBy(p, i)',
         mode' = "down" => position' = Unassigned,
         mode' = "running" =>
           \A p \in Partitions : \A i \in 1 .. Len(log[p]) :
             i <= position'[p] =>
               \/ mode = "running" /\ outbox' = outbox /\ i <= position[p]
               \/ PassedBy(p, i)'
  PROVE  ArrivalInv'
  <1>1. PlacesInv' /\ FirstInv'
    BY DEF ArrivalInv, PlacesInv, FirstInv, Range
  <1>2. Range(arrived)' = Range(arrived) /\ Range(outbox)' \subseteq Range(outbox)
    BY DEF Range
  <1>3. outbox' = outbox => Range(outbox)' = Range(outbox)
    BY DEF Range
  <1>4. HandedInv'
    <2>1. ASSUME mode' = "running", NEW p \in Partitions, NEW i \in 1 .. Len(log[p]),
                 i <= position'[p]
          PROVE  \/ log[p][i] \in Range(arrived) \cup Range(outbox)' \cup dropped
                 \/ PassedBy(p, i)'
      BY <1>3, <2>1 DEF ArrivalInv, HandedInv
    <2> QED
      BY <1>2, <2>1 DEF HandedInv
  <1>5. OrderInv'
    <2>1. ASSUME NEW p \in Partitions, NEW i \in 1 .. Len(log[p]), NEW j \in 1 .. Len(log[p]),
                 i < j, log[p][i] \notin dropped
          PROVE  Gone(p, i)' \/ Precedes(log[p][i], log[p][j])'
      <3>1. Gone(p, i) \/ Precedes(log[p][i], log[p][j])
        BY <2>1 DEF ArrivalInv, OrderInv
      <3>2. Gone(p, i) => Gone(p, i)'
        BY <1>2 DEF Gone
      <3>3. Precedes(log[p][i], log[p][j]) => Precedes(log[p][i], log[p][j])'
        BY <1>2 DEF Precedes
      <3> QED
        BY <3>1, <3>2, <3>3
    <2> QED
      BY <2>1 DEF OrderInv
  <1>6. SourceInv'
    BY <1>2, SMTT(30) DEF ArrivalInv, SourceInv, Published, Range
  <1> QED
    BY <1>1, <1>4, <1>5, <1>6 DEF ArrivalInv
\* A published command gets a place of its own, after the others of its partition.
LEMMA PublishKeepsOrder ==
  ASSUME OffsetsInv, ArrivalInv, NEW c \in Commands, Publish(c)
  PROVE  ArrivalInv'
  <1>1. PICK p \in Partitions : log' = [log EXCEPT ![p] = Append(@, c)]
    BY DEF Publish
  <1>2. /\ c \notin Published
        /\ UNCHANGED <<mode, position, committed, outbox, reached, arrived, dropped>>
    BY DEF Publish, consumerVars, clientVars, fates, processVars
  <1>3. \A q \in Partitions :
          /\ log[q] \in Seq(Commands) /\ Len(log[q]) \in Nat
          /\ Len(log'[q]) = Len(log[q]) + (IF q = p THEN 1 ELSE 0)
          /\ \A i \in 1 .. Len(log[q]) : log'[q][i] = log[q][i]
    BY <1>1 DEF OffsetsInv
  <1>4. log'[p][Len(log[p]) + 1] = c
    BY <1>1, <1>3 DEF OffsetsInv
  <1>5. \A q \in Partitions : \A i \in 1 .. Len(log[q]) : log[q][i] # c
    <2>1. ASSUME NEW q \in Partitions, NEW i \in 1 .. Len(log[q]) PROVE log[q][i] \in Published
      BY <1>3 DEF Published, Range
    <2> QED
      BY <1>2, <2>1
  <1>6. \A q \in Partitions : \A i \in 1 .. Len(log'[q]) :
          i \in 1 .. Len(log[q]) \/ (q = p /\ i = Len(log[p]) + 1)
    <2>1. ASSUME NEW q \in Partitions, NEW i \in 1 .. Len(log'[q])
          PROVE  i \in 1 .. Len(log[q]) \/ (q = p /\ i = Len(log[p]) + 1)
      <3>1. /\ Len(log[q]) \in Nat
            /\ Len(log'[q]) = Len(log[q]) + (IF q = p THEN 1 ELSE 0)
        BY <1>3
      <3>2. CASE q = p
        BY <3>1, <3>2
      <3>3. CASE q # p
        BY <3>1, <3>3
      <3> QED
        BY <3>2, <3>3
    <2> QED
      BY <2>1
  <1>7. PlacesInv'
    <2>1. ASSUME NEW q \in Partitions, NEW r \in Partitions,
                 NEW i \in 1 .. Len(log'[q]), NEW j \in 1 .. Len(log'[r]),
                 log'[q][i] = log'[r][j]
          PROVE  q = r /\ i = j
      <3>1. CASE i \in 1 .. Len(log[q]) /\ j \in 1 .. Len(log[r])
        <4>1. log'[q][i] = log[q][i] /\ log'[r][j] = log[r][j]
          BY <1>3, <3>1
        <4>2. PlacesInv
          BY DEF ArrivalInv
        <4>3. log[q][i] = log[r][j]
          BY <2>1, <4>1
        <4>4. i \in 1 .. Len(log[q]) /\ j \in 1 .. Len(log[r])
          BY <3>1
        <4> HIDE <2>1, <3>1
        <4> QED
          BY <4>2, <4>3, <4>4 DEF PlacesInv
      <3>2. CASE q = p /\ i = Len(log[p]) + 1 /\ j \in 1 .. Len(log[r])
        <4>1. log'[q][i] = c
          BY <1>4, <3>2
        <4>2. log'[r][j] = log[r][j] /\ log[r][j] # c
          BY <1>3, <1>5, <3>2
        <4> QED
          BY <2>1, <4>1, <4>2
      <3>3. CASE r = p /\ j = Len(log[p]) + 1 /\ i \in 1 .. Len(log[q])
        <4>1. log'[r][j] = c
          BY <1>4, <3>3
        <4>2. log'[q][i] = log[q][i] /\ log[q][i] # c
          BY <1>3, <1>5, <3>3
        <4> QED
          BY <2>1, <4>1, <4>2
      <3>4. CASE q = p /\ i = Len(log[p]) + 1 /\ r = p /\ j = Len(log[p]) + 1
        BY <3>4
      <3> QED
        BY <1>6, <3>1, <3>2, <3>3, <3>4
    <2> QED
      BY <2>1 DEF PlacesInv
  <1>8. /\ Range(arrived)' = Range(arrived) /\ Range(outbox)' = Range(outbox)
        /\ \A q, i : PassedBy(q, i)' <=> PassedBy(q, i)
        /\ \A a, b : Precedes(a, b)' <=> Precedes(a, b)
    BY <1>2 DEF Range, PassedBy, Precedes
  <1>9. FirstInv'
    BY <1>2, <1>8 DEF ArrivalInv, FirstInv
  <1>10. HandedInv'
    <2>1. mode = "down" => position = Unassigned
      BY DEF ArrivalInv, HandedInv
    <2>2. ASSUME mode = "running", NEW q \in Partitions, NEW i \in 1 .. Len(log'[q]),
                 i <= position[q]
          PROVE  log'[q][i] \in Range(arrived) \cup Range(outbox) \cup dropped \/ PassedBy(q, i)
      <3>1. position[q] <= Len(log[q]) /\ position[q] \in Int
        BY DEF OffsetsInv, NoOffset
      <3>2. i \in 1 .. Len(log[q])
        BY <1>3, <2>2, <3>1
      <3>3. log'[q][i] = log[q][i]
        BY <1>3, <3>2
      <3> QED
        BY <2>2, <3>2, <3>3 DEF ArrivalInv, HandedInv
    <2> QED
      BY <1>2, <1>8, <2>1, <2>2 DEF HandedInv, Unassigned
  <1>11. OrderInv'
    <2>1. ASSUME NEW q \in Partitions, NEW i \in 1 .. Len(log'[q]), NEW j \in 1 .. Len(log'[q]),
                 i < j, log'[q][i] \notin dropped
          PROVE  Gone(q, i)' \/ Precedes(log'[q][i], log'[q][j])
      <3>1. i \in 1 .. Len(log[q]) /\ log'[q][i] = log[q][i]
        <4>1. i \in 1 .. Len(log[q])
          <5>1. i \in Nat /\ j \in Nat /\ Len(log[q]) \in Nat
            BY <1>3
          <5>2. j \in 1 .. Len(log[q]) \/ j = Len(log[q]) + 1
            BY <1>6
          <5> QED
            BY <2>1, <5>1, <5>2
        <4> QED
          BY <1>3, <4>1
      <3>2. CASE j \in 1 .. Len(log[q])
        <4>1. log'[q][j] = log[q][j]
          BY <1>3, <3>2
        <4>2. Gone(q, i) \/ Precedes(log[q][i], log[q][j])
          BY <2>1, <3>1, <3>2 DEF ArrivalInv, OrderInv
        <4> QED
          BY <1>8, <3>1, <4>1, <4>2 DEF Gone
      <3>3. CASE q = p /\ j = Len(log[p]) + 1
        <4>1. log'[q][j] = c
          BY <1>4, <3>3
        <4>2. c \notin Range(arrived) /\ c \notin Range(outbox)
          BY <1>2 DEF ArrivalInv, SourceInv
        <4>3. Precedes(log'[q][i], c)
          BY <4>2 DEF Precedes, Range
        <4> QED
          BY <4>1, <4>3
      <3> QED
        BY <1>6, <3>2, <3>3
    <2> QED
      BY <1>2, <1>8, <2>1 DEF OrderInv
  <1>12. SourceInv'
    <2>1. Published \subseteq Published'
      <3>1. \A q \in Partitions : Range(log[q]) \subseteq Range(log'[q])
        BY <1>3, <1>1 DEF Range, OffsetsInv
      <3> QED
        BY <3>1 DEF Published, Range
    <2> QED
      BY <1>8, <2>1 DEF ArrivalInv, SourceInv
  <1> QED
    BY <1>7, <1>9, <1>10, <1>11, <1>12 DEF ArrivalInv
\* A new assignment begins where the group was, or after all that is in the partition.
LEMMA AssignKeepsOrder ==
  ASSUME OffsetsInv, ArrivalInv, NEW p \in Partitions, Assign(p)
  PROVE  ArrivalInv'
  <1>1. /\ mode = "running" /\ mode' = "running"
        /\ position[p] = NoOffset
        /\ position' = [position EXCEPT ![p] = FirstPosition(p)]
        /\ UNCHANGED <<log, committed, outbox, arrived, dropped>>
    BY DEF Assign, Assigned, clientVars, processVars
  <1>2. \A q \in Partitions : /\ committed[q] \in Int /\ position[q] \in Int
                              /\ Len(log[q]) \in Nat
                              /\ position'[q] = IF q = p THEN FirstPosition(p) ELSE position[q]
    BY <1>1 DEF OffsetsInv, NoOffset
  <1>3. \A i \in Nat : i <= Len(log[p]) /\ (committed[p] = NoOffset \/ i <= committed[p])
                       => i <= FirstPosition(p)
    BY DEF FirstPosition
  <1>4. \A q \in Partitions, i \in Nat :
          i <= Len(log[q]) /\ PassedBy(q, i) => PassedBy(q, i)'
    BY <1>1, <1>2, <1>3 DEF PassedBy
  <1>5. ASSUME NEW q \in Partitions, NEW i \in 1 .. Len(log[q]), i <= position'[q]
        PROVE  (outbox' = outbox /\ i <= position[q]) \/ PassedBy(q, i)'
    <2>1. CASE q = p
      BY <1>1, <1>2, <1>5, <2>1 DEF PassedBy, FirstPosition
    <2>2. CASE q # p
      BY <1>1, <1>2, <1>5, <2>2
    <2> QED
      BY <2>1, <2>2
  <1> QED
    BY <1>1, <1>4, <1>5, ArrivalStays

\* The process, the connection and the commits take nothing back.
LEMMA ProcessKeepsOrder ==
  ASSUME OffsetsInv, ArrivalInv, AutoCommit \/ ForwardingFails \/ Process
  PROVE  ArrivalInv'
  <1>1. /\ log' = log /\ arrived' = arrived /\ dropped' = dropped
        /\ outbox' \in {outbox, <<>>}
        /\ position' \in {position, Unassigned} /\ committed' \in {committed, Positions}
    BY DEF AutoCommit, ForwardingFails, Process, Connect, Disconnect, ToResend, Start, Stop, Exit,
           Crash, ClientEnds, downVars, consumerVars, clientVars, fates
  <1>2. /\ mode' = "down" => position' = Unassigned
        /\ mode' = "running" =>
             \/ mode = "running" /\ outbox' = outbox /\ position' = position
             \/ position' = Unassigned
    BY DEF AutoCommit, ForwardingFails, Process, Connect, Disconnect, ToResend, Start, Stop, Exit,
           Crash, downVars, consumerVars, clientVars, processVars, ArrivalInv, HandedInv
  <1>3. \A q \in Partitions :
          /\ position'[q] \in {position[q], NoOffset}
          /\ committed'[q] \in {committed[q], position[q]}
          /\ committed'[q] = position[q] => committed'[q] = committed[q] \/ position[q] # NoOffset
    BY <1>1 DEF Unassigned, Positions, Assigned
  <1>4. \A q \in Partitions, i \in Nat : PassedBy(q, i) => PassedBy(q, i)'
    BY <1>3 DEF PassedBy
  <1>5. ASSUME mode' = "running", NEW q \in Partitions, NEW i \in 1 .. Len(log[q]),
               i <= position'[q]
        PROVE  mode = "running" /\ outbox' = outbox /\ i <= position[q]
    <2>1. position' # Unassigned
      BY <1>5 DEF Unassigned, NoOffset
    <2> QED
      BY <1>2, <1>5, <2>1
  <1> QED
    BY <1>1, <1>2, <1>4, <1>5, ArrivalStays
\* The next command goes to the end of the outbox, behind those before it, or is dropped.
LEMMA ForwardKeepsOrder ==
  ASSUME OffsetsInv, ArrivalInv, NEW p \in Partitions, Forward(p)
  PROVE  ArrivalInv'
  <1>1. PICK n : n = position[p] + 1
    OBVIOUS
  <1>2. /\ mode = "running" /\ mode' = "running"
        /\ position[p] # NoOffset /\ position[p] < Len(log[p])
        /\ Hand(log[p][n])
        /\ position' = [position EXCEPT ![p] = n]
        /\ UNCHANGED <<log, committed, reached, arrived, missed>>
    BY <1>1 DEF Forward, CanForward, Assigned, processVars
  <1>3. n \in 1 .. Len(log[p]) /\ Len(log[p]) \in Nat
    BY <1>1, <1>2 DEF OffsetsInv
  <1>4. PICK c : c = log[p][n] /\ c \in Commands
    BY <1>3 DEF OffsetsInv
  <1>5. \A q \in Partitions : \A i \in 1 .. Len(log[q]) :
          /\ i \in Nat /\ position[q] \in Int
          /\ log[q][i] = c => q = p /\ i = n
    BY <1>3, <1>4 DEF ArrivalInv, PlacesInv, OffsetsInv, NoOffset
  <1>6. \A q \in Partitions :
          position'[q] = IF q = p THEN n ELSE position[q]
    BY <1>2 DEF OffsetsInv
  <1>7. /\ \/ outbox' = Append(outbox, c) /\ dropped' = dropped
           \/ outbox' = outbox /\ dropped' = dropped \cup {c}
        /\ outbox \in Seq(Commands) /\ Len(outbox) \in Nat
    BY <1>2, <1>4 DEF Hand, OffsetsInv
  <1>8. /\ Len(outbox') \in Nat /\ Len(outbox) <= Len(outbox')
        /\ DOMAIN outbox = 1 .. Len(outbox) /\ DOMAIN outbox' = 1 .. Len(outbox')
        /\ \A y \in DOMAIN outbox : outbox'[y] = outbox[y]
        /\ \A y \in DOMAIN outbox' : y \in DOMAIN outbox \/ (y = Len(outbox) + 1 /\ outbox'[y] = c)
    BY <1>4, <1>7
  <1>9. /\ Range(outbox) \subseteq Range(outbox)' /\ Range(outbox)' \subseteq Range(outbox) \cup {c}
        /\ c \in Range(outbox)' \cup dropped'
        /\ dropped \subseteq dropped'
        /\ Range(arrived)' = Range(arrived)
    <2>1. outbox' = Append(outbox, c) => Range(outbox)' = Range(outbox) \cup {c}
      BY <1>4, <1>7, RangeOfAppend DEF Range
    <2>2. outbox' = outbox => Range(outbox)' = Range(outbox)
      BY DEF Range
    <2> QED
      BY <1>2, <1>7, <2>1, <2>2 DEF Range
  <1>10. PlacesInv' /\ FirstInv'
    <2>1. PlacesInv /\ FirstInv /\ log' = log /\ arrived' = arrived
      BY <1>2 DEF ArrivalInv
    <2>2. PlacesInv'
      BY <2>1 DEF PlacesInv
    <2>3. FirstInv'
      BY <2>1 DEF FirstInv, Range
    <2> QED
      BY <2>2, <2>3
  <1>11. SourceInv'
    <2>1. c \in Published
      <3>1. c \in Range(log[p])
        BY <1>3, <1>4 DEF Range, OffsetsInv
      <3> QED
        BY <3>1 DEF Published
    <2>2. Published' = Published
      BY <1>2 DEF Published
    <2> QED
      BY <1>9, <2>1, <2>2 DEF ArrivalInv, SourceInv
  <1>12. \A q \in Partitions : \A i \in 1 .. Len(log[q]) : PassedBy(q, i) => PassedBy(q, i)'
    BY <1>1, <1>2, <1>3, <1>5, <1>6 DEF PassedBy, OffsetsInv
  <1>13. HandedInv'
    <2>1. ASSUME NEW q \in Partitions, NEW i \in 1 .. Len(log[q]), i <= position'[q]
          PROVE  \/ log[q][i] \in Range(arrived)' \cup Range(outbox)' \cup dropped'
                 \/ PassedBy(q, i)'
      <3>1. CASE q = p /\ i = n
        BY <1>4, <1>9, <3>1
      <3>2. CASE i <= position[q]
        BY <1>2, <1>9, <1>12, <3>2 DEF ArrivalInv, HandedInv
      <3> QED
        BY <1>1, <1>3, <1>5, <1>6, <2>1, <3>1, <3>2
    <2> QED
      BY <1>2, <2>1 DEF HandedInv
  <1>14. OrderInv'
    <2>1. ASSUME NEW q \in Partitions, NEW i \in 1 .. Len(log[q]), NEW j \in 1 .. Len(log[q]),
                 i < j, log[q][i] \notin dropped'
          PROVE  Gone(q, i)' \/ Precedes(log[q][i], log[q][j])'
      <3>1. log[q][i] \notin dropped
        BY <1>9, <2>1
      <3>2. Gone(q, i) \/ Precedes(log[q][i], log[q][j])
        BY <2>1, <3>1 DEF ArrivalInv, OrderInv
      <3>3. CASE Gone(q, i)
        <4>1. log[q][i] # c
          BY <1>1, <1>2, <1>5, <3>3 DEF Gone, PassedBy
        <4> QED
          BY <1>2, <1>9, <1>12, <3>3, <4>1 DEF Gone
      <3>4. CASE Precedes(log[q][i], log[q][j]) /\ ~Gone(q, i)
        <4>1. ASSUME NEW y \in DOMAIN outbox', outbox'[y] = log[q][j]
              PROVE  \/ log[q][i] \in Range(arrived)
                     \/ \E x \in 1 .. y - 1 : outbox'[x] = log[q][i]
          <5>1. CASE y \in DOMAIN outbox
            <6>1. \/ log[q][i] \in Range(arrived)
                  \/ \E x \in 1 .. y - 1 : outbox[x] = log[q][i]
              BY <1>8, <3>4, <4>1, <5>1 DEF Precedes
            <6> QED
              BY <1>8, <5>1, <6>1
          <5>2. CASE y = Len(outbox) + 1 /\ outbox'[y] = c
            <6>1. q = p /\ j = n
              BY <1>5, <4>1, <5>2
            <6>2. i <= position[q]
              BY <1>1, <1>5, <2>1, <6>1
            <6>3. \/ log[q][i] \in Range(arrived) \cup Range(outbox)
                  \/ PassedBy(q, i)
              BY <1>2, <3>1, <6>2 DEF ArrivalInv, HandedInv
            <6>4. log[q][i] \in Range(arrived) \cup Range(outbox)
              BY <3>4, <6>3 DEF Gone
            <6>5. log[q][i] \in Range(outbox) => \E x \in DOMAIN outbox : outbox[x] = log[q][i]
              BY DEF Range
            <6> QED
              BY <1>8, <5>2, <6>4, <6>5
          <5> QED
            BY <1>8, <4>1, <5>1, <5>2
        <4> QED
          BY <1>2, <1>9, <3>4, <4>1 DEF Precedes
      <3> QED
        BY <3>2, <3>3, <3>4
    <2> QED
      BY <1>2, <2>1 DEF OrderInv
  <1> QED
    BY <1>10, <1>11, <1>13, <1>14 DEF ArrivalInv
\* The broker receives in the order of the outbox.
LEMMA ReceiptKeepsOrder ==
  ASSUME OffsetsInv, ArrivalInv, BrokerReceives
  PROVE  ArrivalInv'
  <1>1. /\ arrived' = Append(arrived, outbox[reached + 1]) /\ reached < Len(outbox)
        /\ UNCHANGED <<mode, log, position, committed, outbox, dropped>>
    BY DEF BrokerReceives, consumerVars, fates, processVars
  <1>2. PICK r : r = reached + 1
    OBVIOUS
  <1>3. PICK c : c = outbox[r]
    OBVIOUS
  <1>4. /\ reached \in Nat /\ r \in DOMAIN outbox /\ c \in Commands /\ c \in Range(outbox)
        /\ \A x \in 1 .. r - 1 : outbox[x] \in Range(arrived)
    <2>1. reached \in Nat /\ r \in 1 .. Len(outbox) /\ outbox \in Seq(Commands)
      BY <1>1, <1>2 DEF OffsetsInv
    <2>2. DOMAIN outbox = 1 .. Len(outbox) /\ c \in Commands
      BY <1>3, <2>1
    <2>3. \A x \in 1 .. reached : outbox[x] \in Range(arrived)
      BY DEF OffsetsInv
    <2> QED
      BY <1>2, <1>3, <2>1, <2>2, <2>3 DEF Range
  <1>5. /\ Range(arrived)' = Range(arrived) \cup {c}
        /\ Len(arrived) \in Nat
        /\ DOMAIN arrived = 1 .. Len(arrived) /\ DOMAIN arrived' = 1 .. Len(arrived) + 1
        /\ \A y \in DOMAIN arrived : arrived'[y] = arrived[y]
        /\ arrived'[Len(arrived) + 1] = c
    <2>1. arrived \in Seq(Commands) /\ arrived' = Append(arrived, c)
      BY <1>1, <1>2, <1>3 DEF OffsetsInv
    <2>2. Range(Append(arrived, c)) = Range(arrived) \cup {c}
      BY <1>4, <2>1, RangeOfAppend
    <2> QED
      BY <1>4, <2>1, <2>2 DEF Range
  <1>6. /\ Range(outbox)' = Range(outbox) /\ Published' = Published
        /\ \A q, i : PassedBy(q, i)' <=> PassedBy(q, i)
    BY <1>1 DEF Range, Published, PassedBy
  <1>7. PlacesInv' /\ SourceInv'
    <2>1. PlacesInv'
      BY <1>1 DEF ArrivalInv, PlacesInv
    <2>2. SourceInv'
      BY <1>4, <1>5, <1>6 DEF ArrivalInv, SourceInv
    <2> QED
      BY <2>1, <2>2
  <1>8. FirstInv'
    <2>1. ASSUME NEW d \in Range(arrived)'
          PROVE  \E x \in DOMAIN arrived' : arrived'[x] = d /\ \A y \in 1 .. x - 1 : arrived'[y] # d
      <3>1. CASE d \in Range(arrived)
        <4>1. PICK x \in DOMAIN arrived : arrived[x] = d /\ \A y \in 1 .. x - 1 : arrived[y] # d
          BY <3>1 DEF ArrivalInv, FirstInv
        <4> QED
          BY <1>5, <4>1
      <3>2. CASE d = c /\ d \notin Range(arrived)
        <4>1. \A y \in DOMAIN arrived : arrived[y] # d
          BY <3>2 DEF Range
        <4> QED
          BY <1>5, <3>2, <4>1
      <3> QED
        BY <1>5, <2>1, <3>1, <3>2
    <2> QED
      BY <2>1 DEF FirstInv
  <1>9. HandedInv'
    <2>1. HandedInv
      BY DEF ArrivalInv
    <2>2. Unassigned' = Unassigned
      BY DEF Unassigned
    <2> QED
      BY <1>1, <1>5, <1>6, <2>1, <2>2 DEF HandedInv
  <1>10. OrderInv'
    <2>1. ASSUME NEW q \in Partitions, NEW i \in 1 .. Len(log[q]), NEW j \in 1 .. Len(log[q]),
                 i < j, log[q][i] \notin dropped
          PROVE  Gone(q, i)' \/ Precedes(log[q][i], log[q][j])'
      <3>1. Gone(q, i) \/ Precedes(log[q][i], log[q][j])
        BY <2>1 DEF ArrivalInv, OrderInv
      <3>2. CASE Gone(q, i)
        BY <1>1, <1>4, <1>5, <1>6, <3>2 DEF Gone
      <3>3. CASE Precedes(log[q][i], log[q][j])
        <4>1. ASSUME NEW y \in DOMAIN arrived', arrived'[y] = log[q][j]
              PROVE  \E x \in 1 .. y - 1 : arrived'[x] = log[q][i]
          <5>1. CASE y \in DOMAIN arrived
            <6>1. PICK x \in 1 .. y - 1 : arrived[x] = log[q][i]
              BY <1>5, <3>3, <4>1, <5>1 DEF Precedes
            <6>2. x \in DOMAIN arrived
              BY <1>5, <5>1
            <6> QED
              BY <1>5, <6>1, <6>2
          <5>2. CASE y = Len(arrived) + 1
            <6>1. c = log[q][j]
              BY <1>5, <4>1, <5>2
            <6>2. \/ log[q][i] \in Range(arrived)
                  \/ \E x \in 1 .. r - 1 : outbox[x] = log[q][i]
              BY <1>3, <1>4, <3>3, <6>1 DEF Precedes
            <6>3. log[q][i] \in Range(arrived)
              BY <1>4, <6>2
            <6>4. PICK x \in DOMAIN arrived : arrived[x] = log[q][i]
              BY <6>3 DEF Range
            <6> QED
              BY <1>5, <5>2, <6>4
          <5> QED
            BY <1>5, <4>1, <5>1, <5>2
        <4>2. \A y \in DOMAIN outbox :
                outbox[y] = log[q][j] =>
                  log[q][i] \in Range(arrived) \/ \E x \in 1 .. y - 1 : outbox[x] = log[q][i]
          BY <3>3 DEF Precedes
        <4> QED
          BY <1>1, <1>5, <4>1, <4>2 DEF Precedes
      <3> QED
        BY <3>1, <3>2, <3>3
    <2> QED
      BY <1>1, <2>1 DEF OrderInv
  <1> QED
    BY <1>7, <1>8, <1>9, <1>10 DEF ArrivalInv

\* What is acknowledged has arrived.
LEMMA AcknowledgementKeepsOrder ==
  ASSUME OffsetsInv, ArrivalInv, BrokerAcknowledges
  PROVE  ArrivalInv'
  <1>1. /\ outbox' = Tail(outbox) /\ reached > 0
        /\ UNCHANGED <<mode, log, position, committed, arrived, dropped>>
    BY DEF BrokerAcknowledges, consumerVars, fates, processVars
  <1>2. /\ outbox \in Seq(Commands) /\ reached \in 1 .. Len(outbox)
        /\ outbox[1] \in Range(arrived)
    <2>1. reached \in 1 .. Len(outbox) /\ \A i \in 1 .. reached : outbox[i] \in Range(arrived)
      BY <1>1 DEF OffsetsInv
    <2> QED
      BY <2>1 DEF OffsetsInv
  <1>3. /\ Len(outbox) \in Nat
        /\ DOMAIN outbox = 1 .. Len(outbox) /\ DOMAIN outbox' = 1 .. Len(outbox) - 1
        /\ \A y \in DOMAIN outbox' : outbox'[y] = outbox[y + 1]
    BY <1>1, <1>2
  <1>4. /\ Range(arrived)' = Range(arrived)
        /\ Range(outbox)' \subseteq Range(outbox)
        /\ Range(outbox) \subseteq Range(arrived) \cup Range(outbox)'
    <2>1. \A y \in DOMAIN outbox' : outbox'[y] \in Range(outbox)
      BY <1>3 DEF Range
    <2>2. \A y \in DOMAIN outbox : y = 1 \/ (y - 1 \in DOMAIN outbox' /\ outbox[y] = outbox'[y - 1])
      BY <1>3
    <2>3. Range(outbox)' = {outbox'[y] : y \in DOMAIN outbox'}
      BY DEF Range
    <2>4. Range(outbox) = {outbox[y] : y \in DOMAIN outbox}
      BY DEF Range
    <2>5. Range(arrived)' = Range(arrived)
      BY <1>1 DEF Range
    <2> QED
      BY <1>2, <2>1, <2>2, <2>3, <2>4, <2>5
  <1>5. /\ Published' = Published
        /\ \A q, i : PassedBy(q, i)' <=> PassedBy(q, i)
    BY <1>1 DEF Published, PassedBy
  <1>6. PlacesInv' /\ SourceInv'
    <2>1. PlacesInv'
      BY <1>1 DEF ArrivalInv, PlacesInv
    <2>2. SourceInv'
      BY <1>4, <1>5 DEF ArrivalInv, SourceInv
    <2> QED
      BY <2>1, <2>2
  <1>7. FirstInv'
    <2>1. FirstInv
      BY DEF ArrivalInv
    <2> QED
      BY <1>1, <1>4, <2>1 DEF FirstInv
  <1>8. HandedInv'
    <2>1. HandedInv
      BY DEF ArrivalInv
    <2>2. Unassigned' = Unassigned
      BY DEF Unassigned
    <2> QED
      BY <1>1, <1>4, <1>5, <2>1, <2>2 DEF HandedInv
  <1>9. OrderInv'
    <2>1. ASSUME NEW q \in Partitions, NEW i \in 1 .. Len(log[q]), NEW j \in 1 .. Len(log[q]),
                 i < j, log[q][i] \notin dropped
          PROVE  Gone(q, i)' \/ Precedes(log[q][i], log[q][j])'
      <3>1. Gone(q, i) \/ Precedes(log[q][i], log[q][j])
        BY <2>1 DEF ArrivalInv, OrderInv
      <3>2. CASE Gone(q, i)
        BY <1>1, <1>4, <1>5, <3>2 DEF Gone
      <3>3. CASE Precedes(log[q][i], log[q][j])
        <4>1. ASSUME NEW y \in DOMAIN outbox', outbox'[y] = log[q][j]
              PROVE  log[q][i] \in Range(arrived) \/ \E x \in 1 .. y - 1 : outbox'[x] = log[q][i]
          <5>1. y + 1 \in DOMAIN outbox /\ outbox[y + 1] = log[q][j]
            BY <1>3, <4>1
          <5>2. CASE log[q][i] \in Range(arrived)
            BY <5>2
          <5>3. CASE \E x \in 1 .. y : outbox[x] = log[q][i]
            <6>1. PICK x \in 1 .. y : outbox[x] = log[q][i]
              BY <5>3
            <6>2. CASE x = 1
              BY <1>2, <6>1, <6>2
            <6>3. CASE x # 1
              <7>1. x - 1 \in 1 .. y - 1 /\ x - 1 \in DOMAIN outbox' /\ outbox'[x - 1] = outbox[x]
                BY <1>3, <6>1, <6>3
              <7> QED
                BY <6>1, <7>1
            <6> QED
              BY <6>2, <6>3
          <5>4. (y + 1) - 1 = y
            BY <1>3
          <5> QED
            BY <3>3, <5>1, <5>2, <5>3, <5>4 DEF Precedes
        <4> QED
          BY <1>1, <1>4, <3>3, <4>1 DEF Precedes
      <3> QED
        BY <3>1, <3>2, <3>3
    <2> QED
      BY <1>1, <2>1 DEF OrderInv
  <1> QED
    BY <1>6, <1>7, <1>8, <1>9 DEF ArrivalInv
LEMMA ArrivalNext == OffsetsInv /\ ArrivalInv /\ [Next]_vars => ArrivalInv'
  <1> SUFFICES ASSUME OffsetsInv, ArrivalInv, [Next]_vars PROVE ArrivalInv'
    OBVIOUS
  <1>1. CASE Uplink \/ UNCHANGED vars
    <2>1. UNCHANGED <<mode, log, position, committed, outbox, arrived, dropped>>
      BY <1>1
         DEF Uplink, Receive, Ignore, Deduplicate, DeduplicateFails, Send, SendFails, Expire, vars,
             downVars, consumerVars, clientVars, fates, processVars
    <2>2. \A q, i : PassedBy(q, i)' <=> PassedBy(q, i)
      BY <2>1 DEF PassedBy
    <2>3. mode' = "down" => position' = Unassigned
      BY <2>1 DEF ArrivalInv, HandedInv
    <2> QED
      BY <2>1, <2>2, <2>3, ArrivalStays
  <1>2. CASE \E c \in Commands : Publish(c)
    BY <1>2, PublishKeepsOrder
  <1>3. CASE \E p \in Partitions : Assign(p) \/ Forward(p)
    BY <1>3, AssignKeepsOrder, ForwardKeepsOrder
  <1>4. CASE AutoCommit \/ ForwardingFails \/ Process
    BY <1>4, ProcessKeepsOrder
  <1>5. CASE BrokerReceives \/ BrokerAcknowledges
    BY <1>5, ReceiptKeepsOrder, AcknowledgementKeepsOrder
  <1> QED
    BY <1>1, <1>2, <1>3, <1>4, <1>5 DEF Next, Downlink

\* mqtt_bridge.py, _forward_kafka_to_mqtt, start and stop: the commands of a partition arrive in
\* the order of the partition, whatever is lost, sent again or read again after a restart.
THEOREM CommandsArriveInOrder == Spec => []InOrderPerPartition
  <1>1. OffsetsInv /\ ArrivalInv => InOrderPerPartition
    <2> SUFFICES ASSUME OffsetsInv, ArrivalInv PROVE InOrderPerPartition
      OBVIOUS
    <2>1. arrived \in Seq(Commands) /\ DOMAIN arrived = 1 .. Len(arrived) /\ Len(arrived) \in Nat
      BY DEF OffsetsInv
    <2>2. ASSUME NEW c \in Range(arrived)
          PROVE  /\ FirstArrival(c) \in DOMAIN arrived /\ arrived[FirstArrival(c)] = c
                 /\ \A x \in 1 .. FirstArrival(c) - 1 : arrived[x] # c
      BY DEF ArrivalInv, FirstInv, FirstArrival
    <2>3. ASSUME NEW p \in Partitions, NEW i \in DOMAIN log[p], NEW j \in DOMAIN log[p],
                 i < j, {log[p][i], log[p][j]} \subseteq Range(arrived), log[p][i] \notin dropped
          PROVE  FirstArrival(log[p][i]) < FirstArrival(log[p][j])
      <3>1. DOMAIN log[p] = 1 .. Len(log[p])
        BY DEF OffsetsInv
      <3>2. PICK c, d : c = log[p][i] /\ d = log[p][j]
        OBVIOUS
      <3>3. Precedes(c, d) /\ c \in Range(arrived) /\ d \in Range(arrived)
        BY <2>3, <3>1, <3>2 DEF ArrivalInv, OrderInv, Gone
      <3>4. PICK x \in 1 .. FirstArrival(d) - 1 : arrived[x] = c
        BY <2>2, <3>3 DEF Precedes
      <3>5. ~(x \in 1 .. FirstArrival(c) - 1)
        BY <2>2, <3>3, <3>4
      <3>6. FirstArrival(c) \in Nat /\ FirstArrival(d) \in Nat
        BY <2>1, <2>2, <3>3
      <3>7. FirstArrival(c) < FirstArrival(d)
        BY <3>4, <3>5, <3>6
      <3> QED
        BY <3>2, <3>7
    <2> QED
      BY <2>3 DEF InOrderPerPartition
  <1> QED
    BY OffsetsInit, OffsetsNext, ArrivalInit, ArrivalNext, <1>1, PTL DEF Spec
-----------------------------------------------------------------------------
(* Types *)

\* The types of the variables that the other invariants leave out.
RestOK ==
  /\ mode \in {"down", "running", "stopping"}
  /\ forwarding \in {"running", "ended"}
  /\ seen \subseteq Keys
  /\ stored \subseteq Deliveries /\ cut \subseteq Deliveries
  /\ dropped \subseteq Commands /\ missed \subseteq Commands
  /\ faults \in Nat /\ drops \in Nat /\ runs \in Nat

LEMMA ConnectionOK == Spec => [](connected \in BOOLEAN)
  <1>1. Init => connected \in BOOLEAN
    BY DEF Init
  <1>2. connected \in BOOLEAN /\ [Next]_vars => (connected \in BOOLEAN)'
    <2> SUFFICES ASSUME connected \in BOOLEAN, [Next]_vars PROVE connected' \in BOOLEAN
      OBVIOUS
    <2>1. CASE Process
      BY <2>1 DEF Process, Connect, Disconnect, Start, Stop, Exit, Crash, ClientEnds
    <2>2. CASE Uplink \/ Downlink \/ UNCHANGED vars
      <3>1. connected' = connected
        BY <2>2
           DEF Uplink, Receive, Ignore, Deduplicate, DeduplicateFails, Send, SendFails, Expire,
               Downlink, Publish, Assign, Forward, ForwardingFails, AutoCommit, BrokerReceives,
               BrokerAcknowledges, processVars, vars
      <3> QED
        BY <3>1
    <2> QED
      BY <2>1, <2>2 DEF Next
  <1> QED
    BY <1>1, <1>2, PTL DEF Spec

LEMMA RestInit == Init => RestOK
  BY DEF Init, RestOK

LEMMA RestNext == OffsetsInv /\ RestOK /\ [Next]_vars => RestOK'
  <1> SUFFICES ASSUME OffsetsInv, RestOK, [Next]_vars PROVE RestOK'
    OBVIOUS
  <1> USE DEF RestOK
  <1>1. /\ \A p \in Partitions : Range(log[p]) \subseteq Commands
        /\ \A p \in Partitions : \A i \in 1 .. Len(log[p]) : log[p][i] \in Commands
        /\ Range(outbox) \subseteq Commands
    BY DEF OffsetsInv, Range
  <1>2. CASE Uplink
    BY <1>2, KeyAssumption
       DEF Uplink, Receive, Ignore, Deduplicate, DeduplicateFails, Send, SendFails, Expire, Claims,
           Fault, downVars, consumerVars, fates, processVars, bounds
  <1>3. ASSUME NEW c \in Commands, Publish(c) PROVE RestOK'
    BY <1>3 DEF Publish, upVars, consumerVars, fates, processVars, bounds
  <1>4. ASSUME NEW p \in Partitions, Assign(p) PROVE RestOK'
    BY <1>1, <1>4 DEF Assign, upVars, processVars, bounds
  <1>5. ASSUME NEW p \in Partitions, Forward(p) PROVE RestOK'
    <2>1. position[p] + 1 \in 1 .. Len(log[p])
      BY <1>5 DEF Forward, CanForward, Assigned, OffsetsInv
    <2>2. dropped' \subseteq Commands
      BY <1>1, <1>5, <2>1 DEF Forward, Hand
    <2> QED
      BY <1>5, <2>2 DEF Forward, upVars, processVars, bounds
  <1>6. CASE ForwardingFails \/ AutoCommit \/ BrokerReceives \/ BrokerAcknowledges
    BY <1>6
       DEF ForwardingFails, AutoCommit, BrokerReceives, BrokerAcknowledges, Fault, upVars,
           consumerVars, fates, processVars, bounds
  <1>7. CASE Connect \/ Disconnect
    BY <1>7 DEF Connect, Disconnect, upVars, downVars, consumerVars, fates, bounds
  <1>8. CASE Start \/ Stop \/ Exit \/ Crash
    <2>1. /\ missed' \subseteq Commands /\ dropped' = dropped
          /\ seen' = seen /\ stored' = stored
      BY <1>1, <1>8 DEF Start, Stop, Exit, Crash, ClientEnds, fates, upVars
    <2>2. cut' \subseteq Deliveries
      BY <1>8 DEF Start, Stop, Exit, Crash, TasksEnd, upVars
    <2>3. mode' \in {"down", "running", "stopping"} /\ forwarding' \in {"running", "ended"}
      BY <1>8 DEF Start, Stop, Exit, Crash, ClientEnds
    <2>4. faults' \in Nat /\ drops' \in Nat /\ runs' \in Nat
      BY <1>8 DEF Start, Stop, Exit, Crash, Fault, bounds
    <2> QED
      BY <2>1, <2>2, <2>3, <2>4
  <1>9. CASE UNCHANGED vars
    BY <1>9 DEF vars, upVars, downVars, consumerVars, fates, processVars, bounds
  <1> QED
    BY <1>2, <1>3, <1>4, <1>5, <1>6, <1>7, <1>8, <1>9 DEF Next, Downlink, Process

\* MqttKafkaBridge: every variable has its type, and no offset lies beyond its partition.
THEOREM BridgeTypeCorrect == Spec => []TypeOK
  <1>1. TasksOK /\ OffsetsInv /\ RestOK /\ connected \in BOOLEAN => TypeOK
    BY DEF TasksOK, OffsetsInv, RestOK, TypeOK
  <1> QED
    BY TasksInit, TasksNext, OffsetsInit, OffsetsNext, RestInit, RestNext, ConnectionOK,
       <1>1, PTL DEF Spec
=============================================================================
