----------------------------- MODULE AlertProofs -----------------------------
(***************************************************************************)
(* Proofs about the alert processor and the alert API: for any rules and   *)
(* any number of calls and requests, alerts are raised once in a cooldown, *)
(* open alarms are watched, and acknowledgements silence and stay.         *)
(***************************************************************************)
EXTENDS AlertApi, TLAPS

LEMMA EscalatingIds == Escalating \subseteq Ids
  BY DEF Escalating, Ids

\* Calls are records; nothing else about them is needed to follow their fields.
CallsOK ==
  /\ DOMAIN call = Calls
  /\ \A c \in Calls : call[c] = Call(call[c].kind, call[c].at, call[c].todo)

\* At most one call is about to raise an alert, and none while its key is there; an alert
\* that was raised has its key.
OneRaises(id) ==
  /\ raised[id] <= 1
  /\ raised[id] = 1 => id \in cooldown
  /\ id \in cooldown => Setting(id) = {}
  /\ \A c, d \in Setting(id) : c = d

RaisedInv ==
  /\ CallsOK
  /\ raised \in [Ids -> Nat]
  /\ \A id \in Ids \ overlapped : OneRaises(id)

WatchedInv ==
  /\ timer \in [Ids -> Live \cup {"none", "ended"}]
  /\ open \subseteq Ids
  /\ AlarmIsWatched

\* An acknowledgement is of a rule's alert, and what it silenced still has its key.
QuietInv ==
  /\ CallsOK
  /\ timer \in [Ids -> Live \cup {"none", "ended"}]
  /\ \A c \in Calls : call[c].at \in {"marking", "cancelling"} => Head(call[c].todo) \in Ids
  /\ silenced \subseteq ackKey \cap Ids
  /\ AcknowledgedStaysQuiet

-----------------------------------------------------------------------------
(* The steps of calls *)

\* Every step leaves calls records, and one that may make a call wait for the key of an alert
\* to be set is CheckCooldown.
LEMMA CallsStay == CallsOK /\ [Next]_vars => CallsOK'
  <1> SUFFICES ASSUME CallsOK, [Next]_vars PROVE CallsOK'
    OBVIOUS
  <1> USE DEF CallsOK, Call
  <1>1. ASSUME NEW c \in Calls, NEW kind, NEW where, NEW ids, Begin(c, kind, where, ids)
        PROVE  CallsOK'
    BY <1>1 DEF Begin
  <1>2. ASSUME NEW c \in Calls, CheckCooldown(c) PROVE CallsOK'
    BY <1>2 DEF CheckCooldown
  <1>3. ASSUME NEW c \in Calls, SetCooldown(c) PROVE CallsOK'
    BY <1>3 DEF SetCooldown
  <1>4. ASSUME NEW c \in Calls, CallbackEnds(c) \/ SetAckKey(c) PROVE CallsOK'
    BY <1>4 DEF CallbackEnds, SetAckKey
  <1>5. ASSUME NEW c \in Calls, CancelTimer(c) \/ CallFails(c) PROVE CallsOK'
    BY <1>5 DEF CancelTimer, CallFails
  <1>6. CASE Restart
    BY <1>6 DEF Restart, Begun
  <1>7. CASE UNCHANGED call
    BY <1>7
  <1> QED
    BY <1>1, <1>2, <1>3, <1>4, <1>5, <1>6, <1>7
    DEF Next, Evaluate, ProcessAlert, MarkAcknowledged, TimerStep, TimerFires, TimerChecks,
        Escalate, EscalationFails, CooldownExpires, AckKeyExpires, vars

(* Raised once in a cooldown *)

LEMMA RaisedInit == Init => RaisedInv
  BY DEF Init, RaisedInv, CallsOK, Call, OneRaises, Setting

\* A step that raises nothing, lets no key go and makes no call wait to set one.
LEMMA NothingRaised ==
  ASSUME RaisedInv, CallsOK', raised' = raised, overlapped' = overlapped,
         \A id \in Ids : Setting(id)' \subseteq Setting(id),
         \A id \in Ids \ overlapped :
           /\ id \in cooldown => id \in cooldown'
           /\ id \in cooldown' => id \in cooldown \/ Setting(id)' = {}
  PROVE  RaisedInv'
  <1>1. ASSUME NEW id \in Ids \ overlapped PROVE OneRaises(id)'
    <2>1. OneRaises(id)
      BY DEF RaisedInv
    <2> QED
      BY <2>1 DEF OneRaises
  <1> QED
    BY <1>1 DEF RaisedInv

\* A call that does not wait to set a key after a step of its own is no longer among those
\* that do, and the others stay.
LEMMA SettingWithout ==
  ASSUME NEW c \in Calls, call'[c].at # "setting",
         \A d \in Calls \ {c} : call'[d] = call[d]
  PROVE  \A id \in Ids : Setting(id)' = Setting(id) \ {c}
  BY DEF Setting

LEMMA RaisedNext == RaisedInv /\ [Next]_vars => RaisedInv'
  <1> SUFFICES ASSUME RaisedInv, [Next]_vars PROVE RaisedInv'
    OBVIOUS
  <1>0. CallsOK /\ CallsOK'
    BY CallsStay DEF RaisedInv
  <1>1. ASSUME NEW c \in Calls, NEW kind, NEW where, NEW ids, where # "setting",
               Begin(c, kind, where, ids)
        PROVE  RaisedInv'
    <2>1. call'[c].at # "setting" /\ \A d \in Calls \ {c} : call'[d] = call[d]
      BY <1>0, <1>1 DEF Begin, Call, CallsOK
    <2>2. \A id \in Ids : Setting(id)' = Setting(id) \ {c}
      BY <2>1, SettingWithout
    <2>3. cooldown' = cooldown /\ raised' = raised /\ overlapped' = overlapped
      BY <1>1 DEF Begin, redisVars, historyVars
    <2> QED
      BY <1>0, <2>2, <2>3, NothingRaised
  <1>2. ASSUME NEW c \in Calls, CheckCooldown(c) PROVE RaisedInv'
    <2> DEFINE id == Head(call[c].todo)
    <2>0. cooldown' = cooldown /\ raised' = raised
      BY <1>2 DEF CheckCooldown, redisVars
    <2>1. CASE id \in cooldown
      <3>1. call'[c].at # "setting" /\ \A d \in Calls \ {c} : call'[d] = call[d]
        BY <1>0, <1>2, <2>1 DEF CheckCooldown, InCooldown, CallsOK, Call, Continue
      <3>2. \A i \in Ids : Setting(i)' = Setting(i) \ {c}
        BY <3>1, SettingWithout
      <3>3. overlapped' = overlapped
        BY <1>2, <2>1 DEF CheckCooldown, InCooldown
      <3> QED
        BY <1>0, <2>0, <3>2, <3>3, NothingRaised
    <2>2. CASE id \notin cooldown
      <3>1. /\ call'[c].at = "setting" /\ call'[c].todo = call[c].todo
            /\ \A d \in Calls \ {c} : call'[d] = call[d]
        BY <1>0, <1>2, <2>2 DEF CheckCooldown, InCooldown, CallsOK, Call
      <3>2. \A i : Setting(i)' = IF i = id THEN Setting(i) \cup {c} ELSE Setting(i) \ {c}
        BY <3>1 DEF Setting
      <3>3. \A i : c \notin Setting(i)
        BY <1>2 DEF CheckCooldown, Setting
      <3>5. overlapped' = IF Setting(id) = {} THEN overlapped ELSE overlapped \cup {id}
        BY <1>2, <2>2 DEF CheckCooldown, InCooldown
      <3>6. ASSUME NEW i \in Ids \ overlapped' PROVE OneRaises(i)'
        <4>1. OneRaises(i)
          BY <3>5, <3>6 DEF RaisedInv
        <4>2. CASE i # id
          <5>1. Setting(i)' = Setting(i)
            BY <3>2, <3>3, <4>2
          <5> QED
            BY <2>0, <4>1, <5>1 DEF OneRaises
        <4>3. CASE i = id
          <5>1. Setting(i)' = {c} /\ i \notin cooldown
            BY <2>2, <3>2, <3>5, <3>6, <4>3
          <5> QED
            BY <2>0, <4>1, <5>1 DEF OneRaises
        <4> QED
          BY <4>2, <4>3
      <3> QED
        BY <1>0, <2>0, <3>6 DEF RaisedInv
    <2> QED
      BY <2>1, <2>2
  <1>3. ASSUME NEW c \in Calls, SetCooldown(c) PROVE RaisedInv'
    <2> DEFINE id == Head(call[c].todo)
    <2>1. /\ call[c].at = "setting"
          /\ cooldown' = cooldown \cup {id}
          /\ raised' = [raised EXCEPT ![id] = @ + 1]
          /\ overlapped' = overlapped
      BY <1>3 DEF SetCooldown
    <2>2. call'[c].at # "setting" /\ \A d \in Calls \ {c} : call'[d] = call[d]
      <3> DEFINE next == IF call[c].kind = "process" THEN "calling"
                         ELSE Continue(Tail(call[c].todo))
      <3>1. next # "setting"
        BY DEF Continue
      <3>2. call' = [call EXCEPT ![c].todo = Tail(@), ![c].at = next]
        BY <1>3 DEF SetCooldown
      <3> HIDE DEF next
      <3> QED
        BY <1>0, <3>1, <3>2 DEF CallsOK, Call
    <2>3. \A i \in Ids : Setting(i)' = Setting(i) \ {c}
      BY <2>2, SettingWithout
    <2> HIDE DEF id
    <2>4. raised' \in [Ids -> Nat]
      <3>1. raised \in [Ids -> Nat]
        BY DEF RaisedInv
      <3>2. CASE id \in Ids
        BY <2>1, <3>1, <3>2
      <3>3. CASE id \notin Ids
        BY <2>1, <3>1, <3>3
      <3> QED
        BY <3>2, <3>3
    <2>5. ASSUME NEW i \in Ids \ overlapped' PROVE OneRaises(i)'
      <3>1. OneRaises(i) /\ raised \in [Ids -> Nat]
        BY <2>1, <2>5 DEF RaisedInv
      <3>2. CASE i # id
        <4>1. raised'[i] = raised[i] /\ (i \in cooldown' <=> i \in cooldown)
          BY <2>1, <3>1, <3>2
        <4> QED
          BY <2>3, <3>1, <4>1 DEF OneRaises
      <3>3. CASE i = id
        <4>1. c \in Setting(i)
          BY <2>1, <3>3 DEF Setting, id
        <4>2. raised[i] = 0
          BY <3>1, <4>1 DEF OneRaises
        <4>3. raised'[i] = 1 /\ i \in cooldown'
          BY <2>1, <3>1, <3>3, <4>2
        <4>4. Setting(i)' = {}
          BY <2>3, <3>1, <4>1 DEF OneRaises
        <4> QED
          BY <4>3, <4>4 DEF OneRaises
      <3> QED
        BY <3>2, <3>3
    <2> QED
      BY <1>0, <2>4, <2>5 DEF RaisedInv
  <1>4. ASSUME NEW c \in Calls, CallFails(c) PROVE RaisedInv'
    <2> DEFINE id == Head(call[c].todo)
    <2>1. call'[c].at # "setting" /\ \A d \in Calls \ {c} : call'[d] = call[d]
      BY <1>0, <1>4 DEF CallFails, CallsOK, Call
    <2>2. \A i \in Ids : Setting(i)' = Setting(i) \ {c}
      BY <2>1, SettingWithout
    <2>3. raised' = raised /\ overlapped' = overlapped
      BY <1>4 DEF CallFails, historyVars
    <2>4. CASE cooldown' = cooldown
      BY <1>0, <2>2, <2>3, <2>4, NothingRaised
    <2>5. CASE call[c].at = "setting" /\ cooldown' = cooldown \cup {id}
      <3>1. c \in Setting(id)
        BY <2>5 DEF Setting
      <3> HIDE DEF id
      <3>2. ASSUME NEW i \in Ids \ overlapped, i = id PROVE Setting(i)' = {}
        <4>1. \A d \in Setting(i) : d = c
          BY <3>1, <3>2 DEF RaisedInv, OneRaises
        <4> QED
          BY <2>2, <3>2, <4>1
      <3>3. \A i \in Ids \ overlapped :
              /\ i \in cooldown => i \in cooldown'
              /\ i \in cooldown' => i \in cooldown \/ Setting(i)' = {}
        BY <2>5, <3>2
      <3>4. \A i \in Ids : Setting(i)' \subseteq Setting(i)
        BY <2>2
      <3> QED
        BY <1>0, <2>3, <3>3, <3>4, NothingRaised
    <2> QED
      BY <1>4, <2>4, <2>5 DEF CallFails, redisVars
  <1>5. ASSUME NEW c \in Calls, CallbackEnds(c) \/ SetAckKey(c) \/ CancelTimer(c)
        PROVE  RaisedInv'
    <2>1. cooldown' = cooldown /\ raised' = raised /\ overlapped' = overlapped
      BY <1>5 DEF CallbackEnds, SetAckKey, CancelTimer, redisVars, historyVars
    <2>2. call'[c].at # "setting" /\ \A d \in Calls \ {c} : call'[d] = call[d]
      BY <1>0, <1>5 DEF CallbackEnds, SetAckKey, CancelTimer, CallsOK, Call
    <2>3. \A i \in Ids : Setting(i)' = Setting(i) \ {c}
      BY <2>2, SettingWithout
    <2> QED
      BY <1>0, <2>1, <2>3, NothingRaised
  <1>6. CASE Restart
    <2>1. \A i \in Ids : Setting(i)' \subseteq Setting(i)
      BY <1>6 DEF Restart, Begun, Call, Setting
    <2>2. cooldown' = cooldown /\ raised' = raised /\ overlapped' = overlapped
      BY <1>6 DEF Restart, redisVars
    <2> QED
      BY <1>0, <2>1, <2>2, NothingRaised
  <1>7. ASSUME NEW id \in Ids, CooldownExpires(id) PROVE RaisedInv'
    <2>1. \A i : Setting(i)' = Setting(i)
      BY <1>7 DEF CooldownExpires, Setting
    <2> QED
      BY <1>0, <1>7, <2>1 DEF CooldownExpires, RaisedInv, OneRaises
  <1>8. ASSUME call' = call, cooldown' = cooldown, raised' = raised, overlapped' = overlapped
        PROVE  RaisedInv'
    <2>1. \A i : Setting(i)' = Setting(i)
      BY <1>8 DEF Setting
    <2> QED
      BY <1>0, <1>8, <2>1, NothingRaised
  <1>9. ASSUME NEW c \in Calls, NEW reading \in Readings, Evaluate(c, reading) PROVE RaisedInv'
    BY <1>1, <1>9 DEF Evaluate, Continue
  <1>10. ASSUME NEW c \in Calls, NEW id \in Ids, ProcessAlert(c, id) \/ MarkAcknowledged(c, id)
         PROVE  RaisedInv'
    BY <1>1, <1>10 DEF ProcessAlert, MarkAcknowledged
  <1>11. ASSUME NEW id \in Ids, TimerStep(id) \/ EscalationFails(id) \/ AckKeyExpires(id)
         PROVE  RaisedInv'
    BY <1>8, <1>11 DEF TimerStep, TimerFires, TimerChecks, Escalate, EscalationFails,
                       AckKeyExpires, redisVars, historyVars
  <1>12. CASE UNCHANGED vars
    BY <1>8, <1>12 DEF vars, redisVars, historyVars
  <1> QED
    BY <1>2, <1>3, <1>4, <1>5, <1>6, <1>7, <1>9, <1>10, <1>11, <1>12, EscalatingIds DEF Next

\* alert_processor.py, _is_in_cooldown and _set_cooldown: an alert is raised once in a cooldown,
\* with any number of evaluations and incoming alerts at once, failures and restarts, unless
\* two calls had looked for its key before either set it.
THEOREM RaisedOnce == Spec => []RaisedOncePerCooldown
  <1>1. RaisedInv => RaisedOncePerCooldown
    BY DEF RaisedInv, OneRaises, RaisedOncePerCooldown
  <1> QED
    BY RaisedInit, RaisedNext, <1>1, PTL DEF Spec

-----------------------------------------------------------------------------
(* Open alarms are watched *)

LEMMA WatchedInit == Init => WatchedInv
  BY DEF Init, WatchedInv, AlarmIsWatched

LEMMA WatchedNext == WatchedInv /\ [Next]_vars => WatchedInv'
  <1> SUFFICES ASSUME WatchedInv, [Next]_vars PROVE WatchedInv'
    OBVIOUS
  <1> USE DEF WatchedInv, AlarmIsWatched, Live, Settled, GivenUp
  <1>1. ASSUME UNCHANGED <<timer, open, forgone>> PROVE WatchedInv'
    BY <1>1
  <1>2. ASSUME NEW c \in Calls, SetCooldown(c) PROVE WatchedInv'
    BY <1>2, EscalatingIds DEF SetCooldown, MayStart
  <1>3. ASSUME NEW c \in Calls, CancelTimer(c) PROVE WatchedInv'
    BY <1>3 DEF CancelTimer, TimerCancelled
  <1>4. ASSUME NEW id \in Ids, TimerStep(id) \/ EscalationFails(id) PROVE WatchedInv'
    BY <1>4 DEF TimerStep, TimerFires, TimerChecks, Escalate, EscalationFails, historyVars
  <1>5. CASE Restart
    BY <1>5 DEF Restart
  <1>6. ASSUME NEW c \in Calls, CheckCooldown(c) \/ CallbackEnds(c) \/ CallFails(c)
        PROVE  WatchedInv'
    BY <1>1, <1>6 DEF CheckCooldown, CallbackEnds, CallFails, historyVars
  <1>10. ASSUME NEW c \in Calls, SetAckKey(c) PROVE WatchedInv'
    BY <1>10 DEF SetAckKey
  <1>7. ASSUME NEW c \in Calls, NEW kind, NEW where, NEW ids, Begin(c, kind, where, ids)
        PROVE  WatchedInv'
    BY <1>1, <1>7 DEF Begin, historyVars
  <1>8. ASSUME NEW id \in Ids, CooldownExpires(id) \/ AckKeyExpires(id) PROVE WatchedInv'
    BY <1>1, <1>8 DEF CooldownExpires, AckKeyExpires
  <1>9. CASE UNCHANGED vars
    BY <1>1, <1>9 DEF vars, historyVars
  <1> QED
    BY <1>2, <1>3, <1>4, <1>5, <1>6, <1>7, <1>8, <1>9, <1>10
    DEF Next, Evaluate, ProcessAlert, MarkAcknowledged

\* alert_processor.py, evaluate_alarm_rules and _escalate_after: an alarm that was raised, and
\* neither escalated nor acknowledged since, has a task that has not ended, unless the task was
\* ended by the key of an older acknowledgement, an error or a restart, whatever calls, timers
\* and expiries come between.
THEOREM OpenAlarmIsWatched == Spec => []AlarmIsWatched
  <1>1. WatchedInv => AlarmIsWatched
    BY DEF WatchedInv
  <1> QED
    BY WatchedInit, WatchedNext, <1>1, PTL DEF Spec

-----------------------------------------------------------------------------
(* Acknowledgements silence *)

LEMMA QuietInit == Init => QuietInv
  BY DEF Init, QuietInv, CallsOK, Call, AcknowledgedStaysQuiet

\* Where the calls that acknowledge are when one call has moved to somewhere else.
LEMMA MarkingStays ==
  ASSUME QuietInv, CallsOK', timer' = timer, silenced' = silenced, ackKey \subseteq ackKey',
         NEW c \in Calls,
         call'[c].at \in {"marking", "cancelling"} => Head(call'[c].todo) \in Ids,
         \A d \in Calls \ {c} : call'[d] = call[d]
  PROVE  QuietInv'
  BY DEF QuietInv, AcknowledgedStaysQuiet

LEMMA QuietNext == QuietInv /\ [Next]_vars => QuietInv'
  <1> SUFFICES ASSUME QuietInv, [Next]_vars PROVE QuietInv'
    OBVIOUS
  <1>0. CallsOK /\ CallsOK'
    BY CallsStay DEF QuietInv
  <1>1. ASSUME NEW c \in Calls, NEW kind, NEW where, NEW ids,
               where = "marking" => Head(ids) \in Ids, where # "cancelling",
               Begin(c, kind, where, ids)
        PROVE  QuietInv'
    <2>1. /\ call'[c].at \in {"marking", "cancelling"} => Head(call'[c].todo) \in Ids
          /\ \A d \in Calls \ {c} : call'[d] = call[d]
      BY <1>0, <1>1 DEF Begin, Call, CallsOK
    <2>2. timer' = timer /\ silenced' = silenced /\ ackKey' = ackKey
      BY <1>1 DEF Begin, redisVars, historyVars
    <2> QED
      BY <1>0, <2>1, <2>2, MarkingStays
  <1>2. ASSUME NEW c \in Calls, CheckCooldown(c) PROVE QuietInv'
    <2>1. /\ call'[c].at \notin {"marking", "cancelling"}
          /\ \A d \in Calls \ {c} : call'[d] = call[d]
      <3>1. CASE InCooldown(Head(call[c].todo))
        BY <1>0, <1>2, <3>1 DEF CheckCooldown, CallsOK, Call, Continue
      <3>2. CASE ~InCooldown(Head(call[c].todo))
        BY <1>0, <1>2, <3>2 DEF CheckCooldown, CallsOK, Call
      <3> QED
        BY <3>1, <3>2
    <2>2. timer' = timer /\ silenced' = silenced /\ ackKey' = ackKey
      BY <1>2 DEF CheckCooldown, redisVars
    <2> QED
      BY <1>0, <2>1, <2>2, MarkingStays
  <1>3. ASSUME NEW c \in Calls, SetCooldown(c) PROVE QuietInv'
    <2> DEFINE next == IF call[c].kind = "process" THEN "calling"
                       ELSE Continue(Tail(call[c].todo))
    <2>1. next \notin {"marking", "cancelling"}
      BY DEF Continue
    <2>2. call' = [call EXCEPT ![c].todo = Tail(@), ![c].at = next]
      BY <1>3 DEF SetCooldown
    <2> HIDE DEF next
    <2>3. /\ call'[c].at \notin {"marking", "cancelling"}
          /\ \A d \in Calls \ {c} : call'[d] = call[d]
      BY <1>0, <2>1, <2>2 DEF CallsOK, Call
    <2>4. silenced' = silenced /\ ackKey' = ackKey
      BY <1>3 DEF SetCooldown
    <2>5. \/ timer' = timer
          \/ \E id \in Ids : timer' = [timer EXCEPT ![id] = "sleeping"]
      BY <1>3, EscalatingIds DEF SetCooldown
    <2> QED
      BY <1>0, <2>3, <2>4, <2>5 DEF QuietInv, AcknowledgedStaysQuiet, Live
  <1>4. ASSUME NEW c \in Calls, CallFails(c) PROVE QuietInv'
    <2>1. /\ call'[c].at \notin {"marking", "cancelling"}
          /\ \A d \in Calls \ {c} : call'[d] = call[d]
      BY <1>0, <1>4 DEF CallFails, CallsOK, Call
    <2>2. timer' = timer /\ silenced' = silenced /\ ackKey \subseteq ackKey'
      BY <1>4 DEF CallFails, redisVars, historyVars
    <2> QED
      BY <1>0, <2>1, <2>2, MarkingStays
  <1>5. ASSUME NEW c \in Calls, CallbackEnds(c) PROVE QuietInv'
    <2>1. /\ call'[c].at \notin {"marking", "cancelling"}
          /\ \A d \in Calls \ {c} : call'[d] = call[d]
      BY <1>0, <1>5 DEF CallbackEnds, CallsOK, Call
    <2>2. timer' = timer /\ silenced' = silenced /\ ackKey' = ackKey
      BY <1>5 DEF CallbackEnds, redisVars, historyVars
    <2> QED
      BY <1>0, <2>1, <2>2, MarkingStays
  <1>6. ASSUME NEW c \in Calls, SetAckKey(c) PROVE QuietInv'
    <2>1. /\ call[c].at = "marking" /\ call'[c].todo = call[c].todo
          /\ \A d \in Calls \ {c} : call'[d] = call[d]
      BY <1>0, <1>6 DEF SetAckKey, CallsOK, Call
    <2>2. timer' = timer /\ silenced' = silenced /\ ackKey \subseteq ackKey'
      BY <1>6 DEF SetAckKey, historyVars
    <2>3. Head(call'[c].todo) \in Ids
      BY <2>1 DEF QuietInv
    <2> QED
      BY <1>0, <2>1, <2>2, <2>3, MarkingStays
  <1>7. ASSUME NEW c \in Calls, CancelTimer(c) PROVE QuietInv'
    <2>1. /\ call'[c].at \notin {"marking", "cancelling"}
          /\ \A d \in Calls \ {c} : call'[d] = call[d]
      BY <1>0, <1>7 DEF CancelTimer, CallsOK, Call
    <2>2. PICK id \in Ids :
            /\ timer' = [timer EXCEPT ![id] = "none"]
            /\ silenced' = IF id \in ackKey THEN silenced \cup {id} ELSE silenced
            /\ ackKey' = ackKey
      BY <1>7 DEF CancelTimer, TimerCancelled, redisVars, QuietInv
    <2> QED
      BY <1>0, <2>1, <2>2 DEF QuietInv, AcknowledgedStaysQuiet
  <1>8. ASSUME NEW id \in Ids, TimerStep(id) \/ EscalationFails(id) PROVE QuietInv'
    <2>1. call' = call /\ silenced' = silenced /\ ackKey' = ackKey
      BY <1>8 DEF TimerStep, TimerFires, TimerChecks, Escalate, EscalationFails, redisVars,
                  historyVars
    <2>2. \E t \in {"checking", "ended", "calling"} :
            /\ timer' = [timer EXCEPT ![id] = t]
            /\ t = "calling" => id \notin ackKey
      BY <1>8 DEF TimerStep, TimerFires, TimerChecks, Escalate, EscalationFails
    <2> QED
      BY <1>0, <2>1, <2>2 DEF QuietInv, AcknowledgedStaysQuiet, Live
  <1>9. ASSUME NEW id \in Ids, AckKeyExpires(id) PROVE QuietInv'
    BY <1>0, <1>9 DEF AckKeyExpires, QuietInv, AcknowledgedStaysQuiet
  <1>10. CASE Restart
    <2>1. \A d \in Calls : call'[d].at \notin {"marking", "cancelling"} \/ call'[d] = call[d]
      BY <1>10 DEF Restart, Begun, Call
    <2>2. /\ timer' = [id \in Ids |-> "none"]
          /\ silenced' = silenced /\ ackKey' = ackKey
      BY <1>10 DEF Restart, redisVars
    <2> QED
      BY <1>0, <2>1, <2>2 DEF QuietInv, AcknowledgedStaysQuiet
  <1>11. ASSUME call' = call, timer' = timer, silenced' = silenced, ackKey' = ackKey
         PROVE  QuietInv'
    BY <1>0, <1>11 DEF QuietInv, AcknowledgedStaysQuiet
  <1>12. ASSUME NEW c \in Calls, NEW reading \in Readings, Evaluate(c, reading) PROVE QuietInv'
    BY <1>1, <1>12 DEF Evaluate, Continue
  <1>13. ASSUME NEW c \in Calls, NEW id \in Ids, ProcessAlert(c, id) \/ MarkAcknowledged(c, id)
         PROVE  QuietInv'
    <2>1. Head(<<id>>) \in Ids
      OBVIOUS
    <2> QED
      BY <1>1, <1>13, <2>1 DEF ProcessAlert, MarkAcknowledged
  <1>14. ASSUME NEW id \in Ids, CooldownExpires(id) PROVE QuietInv'
    BY <1>11, <1>14 DEF CooldownExpires
  <1>15. CASE UNCHANGED vars
    BY <1>11, <1>15 DEF vars, redisVars, historyVars
  <1> QED
    BY <1>2, <1>3, <1>4, <1>5, <1>6, <1>7, <1>8, <1>9, <1>10, <1>12, <1>13, <1>14, <1>15,
       EscalatingIds DEF Next

\* alert_processor.py, mark_acknowledged and _escalate_after: an alarm whose acknowledgement
\* has returned is not escalated while the key is there, also when its task had looked for the
\* key before.
THEOREM AcknowledgedIsQuiet == Spec => []AcknowledgedStaysQuiet
  <1>1. QuietInv => AcknowledgedStaysQuiet
    BY DEF QuietInv
  <1> QED
    BY QuietInit, QuietNext, <1>1, PTL DEF Spec

-----------------------------------------------------------------------------
(* Beside the alert API *)

\* A step of the API leaves what the processor's properties look at alone: it may only use up
\* a failure.
LEMMA ApiLeavesProcessor ==
  ASSUME ApiNext \/ UNCHANGED <<vars, apiVars>>
  PROVE  [Next]_vars \/ UNCHANGED <<call, redisVars, timer, historyVars>>
  BY DEF ApiNext, Store, Read, Commit, CutOff, vars

\* alert_processor.py and routes/alerts.py: what the processor keeps, it keeps whatever requests
\* come, wait, commit and fail beside it.
THEOREM ProcessorBesideApi ==
  ApiSpec => [](RaisedOncePerCooldown /\ AlarmIsWatched /\ AcknowledgedStaysQuiet)
  <1> DEFINE Inv == RaisedInv /\ WatchedInv /\ QuietInv
  <1>1. ApiInit => Inv
    BY RaisedInit, WatchedInit, QuietInit DEF ApiInit
  <1>2. Inv /\ [ApiNext]_<<vars, apiVars>> => Inv'
    <2> SUFFICES ASSUME Inv, [ApiNext]_<<vars, apiVars>> PROVE Inv'
      OBVIOUS
    <2>1. CASE [Next]_vars
      BY <2>1, RaisedNext, WatchedNext, QuietNext
    <2>2. CASE UNCHANGED <<call, redisVars, timer, historyVars>>
      <3>1. \A id : Setting(id)' = Setting(id)
        BY <2>2 DEF Setting
      <3> QED
        BY <2>2, <3>1 DEF redisVars, historyVars, RaisedInv, OneRaises, CallsOK, WatchedInv,
                          AlarmIsWatched, QuietInv, AcknowledgedStaysQuiet
    <2> QED
      BY <2>1, <2>2, ApiLeavesProcessor
  <1>3. Inv => RaisedOncePerCooldown /\ AlarmIsWatched /\ AcknowledgedStaysQuiet
    BY DEF RaisedInv, OneRaises, RaisedOncePerCooldown, WatchedInv, QuietInv
  <1> QED
    BY <1>1, <1>2, <1>3, PTL DEF ApiSpec

-----------------------------------------------------------------------------
(* Acknowledgements stay *)

\* Of an alert that no two requests had read at once, at most one request has read the row,
\* the row is still as it read it, and the request was not refused.
AckInv ==
  /\ DOMAIN request = Requests
  /\ \A id \in Stored :
       row[id] = [acknowledged |-> row[id].acknowledged, by |-> row[id].by,
                  note |-> row[id].note, resolved |-> row[id].resolved]
  /\ \A q \in Requests : request[q].at = "read" => request[q].id \in Stored
  /\ \A id \in Stored \ crossed :
       /\ \A p, q \in Reading(id) : p = q
       /\ \A q \in Reading(id) :
            request[q].read = row[id] /\ ~Conflict(request[q].kind, request[q].read)

LEMMA AckInit == ApiInit => AckInv
  <1> SUFFICES ASSUME ApiInit PROVE AckInv
    OBVIOUS
  <1>1. Stored = {}
    BY DEF ApiInit, Stored
  <1>2. DOMAIN request = Requests /\ \A q \in Requests : request[q].at # "read"
    BY DEF ApiInit, Unbegun, RequestAt
  <1> QED
    BY <1>1, <1>2 DEF AckInv

\* A request that has ended no longer reads, and the others do as before.
LEMMA ReadingWithout ==
  ASSUME AckInv, NEW q \in Requests, request' = [request EXCEPT ![q] = Ended]
  PROVE  /\ DOMAIN request' = Requests
         /\ \A id : Reading(id)' = Reading(id) \ {q}
         /\ request'[q] = Ended /\ Ended.at # "read"
         /\ \A p \in Requests \ {q} : request'[p] = request[p]
  BY DEF AckInv, Reading, Ended, RequestAt

LEMMA EndedKeeps ==
  ASSUME AckInv, NEW q \in Requests, request' = [request EXCEPT ![q] = Ended],
         row' = row, crossed' = crossed
  PROVE  AckInv'
  <1>1. /\ DOMAIN request' = Requests
        /\ \A id : Reading(id)' = Reading(id) \ {q}
        /\ request'[q].at # "read"
        /\ \A p \in Requests \ {q} : request'[p] = request[p]
    BY ReadingWithout
  <1>2. Stored' = Stored
    BY DEF Stored
  <1>3. \A id : \A p \in Reading(id)' : p \in Reading(id) /\ request'[p] = request[p]
    BY <1>1 DEF Reading
  <1> QED
    BY <1>1, <1>2, <1>3 DEF AckInv

LEMMA AckNext == AckInv /\ [ApiNext]_<<vars, apiVars>> => AckInv'
  <1> SUFFICES ASSUME AckInv, [ApiNext]_<<vars, apiVars>> PROVE AckInv'
    OBVIOUS
  <1>1. CASE UNCHANGED apiVars
    <2>1. \A id : Reading(id)' = Reading(id)
      BY <1>1 DEF apiVars, Reading
    <2> QED
      BY <1>1, <2>1 DEF apiVars, AckInv, Stored
  <1>2. ASSUME NEW id \in Escalating, Store(id) PROVE AckInv'
    <2>1. /\ Stored' = Stored \cup {id}
          /\ \A i \in Stored : row'[i] = row[i]
          /\ row'[id] = Row(None, None, FALSE)
      BY <1>2 DEF Store, Stored
    <2>2. request' = request /\ crossed' = crossed
      BY <1>2 DEF Store
    <2>3. \A i : Reading(i)' = Reading(i)
      BY <2>2 DEF Reading
    <2>4. Reading(id) = {}
      BY <1>2 DEF Store, AckInv, Reading
    <2> QED
      BY <2>1, <2>2, <2>3, <2>4 DEF AckInv, Row
  <1>3. ASSUME NEW q \in Requests, NEW id \in Stored, NEW kind, Read(q, id, kind) PROVE AckInv'
    <2>0. row' = row /\ Stored' = Stored
      BY <1>3 DEF Read, Stored
    <2>1. CASE Conflict(kind, row[id])
      <3>1. request' = [request EXCEPT ![q] = Ended] /\ crossed' = crossed
        BY <1>3, <2>1 DEF Read
      <3> QED
        BY <2>0, <3>1, EndedKeeps
    <2>2. CASE ~Conflict(kind, row[id])
      <3>1. /\ request' = [request EXCEPT ![q] = RequestAt("read", id, kind, row[id])]
            /\ crossed' = IF Reading(id) = {} THEN crossed ELSE crossed \cup {id}
        BY <1>3, <2>2 DEF Read
      <3>2. /\ DOMAIN request' = Requests
            /\ request'[q] = RequestAt("read", id, kind, row[id])
            /\ \A p \in Requests \ {q} : request'[p] = request[p]
        BY <3>1 DEF AckInv
      <3>3. \A i : i # id => Reading(i)' = Reading(i) \ {q}
        BY <3>2 DEF Reading, RequestAt
      <3>4. Reading(id)' = Reading(id) \cup {q}
        BY <3>2 DEF Reading, RequestAt
      <3>5. ASSUME NEW i \in Stored' \ crossed'
            PROVE  /\ \A p, r \in Reading(i)' : p = r
                   /\ \A r \in Reading(i)' :
                        request'[r].read = row'[i] /\ ~Conflict(request'[r].kind, request'[r].read)
        <4>1. CASE i = id
          <5>1. Reading(i)' = {q}
            BY <3>1, <3>4, <3>5, <4>1
          <5> QED
            BY <2>0, <2>2, <3>2, <4>1, <5>1 DEF RequestAt
        <4>2. CASE i # id
          <5>1. i \in Stored \ crossed
            BY <2>0, <3>1, <3>5
          <5>2. \A r \in Reading(i)' : r \in Reading(i) /\ request'[r] = request[r]
            BY <3>2, <3>3, <4>2 DEF Reading
          <5> QED
            BY <2>0, <5>1, <5>2 DEF AckInv
        <4> QED
          BY <4>1, <4>2
      <3>6. \A p \in Requests : request'[p].at = "read" => request'[p].id \in Stored'
        BY <2>0, <3>2 DEF AckInv, RequestAt
      <3> QED
        BY <2>0, <3>2, <3>5, <3>6 DEF AckInv
    <2> QED
      BY <2>1, <2>2
  <1>4. ASSUME NEW q \in Requests, CutOff(q) PROVE AckInv'
    <2>1. request' = [request EXCEPT ![q] = Ended] /\ UNCHANGED <<row, crossed>>
      BY <1>4 DEF CutOff
    <2> QED
      BY <2>1, EndedKeeps
  <1>5. ASSUME NEW q \in Requests, Commit(q) PROVE AckInv'
    <2> DEFINE id == request[q].id
    <2>1. /\ request' = [request EXCEPT ![q] = Ended]
          /\ row' = [row EXCEPT ![id] = Updated(q)]
          /\ crossed' = crossed /\ q \in Reading(id)
      BY <1>5 DEF Commit, Reading
    <2>2. Stored' = Stored /\ id \in Stored
      BY <1>5, <2>1 DEF Commit, Stored, AckInv
    <2>3. Updated(q) = [acknowledged |-> Updated(q).acknowledged, by |-> Updated(q).by,
                        note |-> Updated(q).note, resolved |-> Updated(q).resolved]
      BY <2>2 DEF Updated, Row, AckInv
    <2>4. row'[id] = Updated(q) /\ \A i \in Stored : i # id => row'[i] = row[i]
      BY <2>1, <2>2 DEF Stored
    <2> HIDE DEF id
    <2>5. ASSUME NEW i \in Stored' \ crossed'
          PROVE  /\ \A p, r \in Reading(i)' : p = r
                 /\ \A r \in Reading(i)' :
                      request'[r].read = row'[i] /\ ~Conflict(request'[r].kind, request'[r].read)
      <3>1. Reading(i)' = Reading(i) \ {q} /\ i \in Stored \ crossed
        BY <2>1, <2>2, <2>5, ReadingWithout
      <3>2. CASE i = id
        <4>1. Reading(i)' = {}
          BY <2>1, <3>1, <3>2 DEF AckInv
        <4> QED
          BY <4>1
      <3>3. CASE i # id
        <4>1. \A r \in Reading(i)' : r \in Reading(i) /\ request'[r] = request[r]
          BY <2>1, <3>1, ReadingWithout DEF Reading
        <4> QED
          BY <2>4, <3>1, <3>3, <4>1 DEF AckInv
      <3> QED
        BY <3>2, <3>3
    <2>6. \A i \in Stored' :
            row'[i] = [acknowledged |-> row'[i].acknowledged, by |-> row'[i].by,
                       note |-> row'[i].note, resolved |-> row'[i].resolved]
      BY <2>2, <2>3, <2>4 DEF AckInv
    <2>7. \A p \in Requests : request'[p].at = "read" => request'[p].id \in Stored'
      BY <2>1, <2>2, ReadingWithout DEF AckInv
    <2> QED
      BY <2>1, <2>5, <2>6, <2>7, ReadingWithout DEF AckInv
  <1> QED
    BY <1>1, <1>2, <1>3, <1>4, <1>5 DEF ApiNext, apiVars

\* Whatever step is taken, the acknowledgement of an alert stays.
LEMMA AckStep ==
  ASSUME AckInv, ApiNext, NEW id \in Stored, row[id].acknowledged, id \notin crossed
  PROVE  row'[id].by = row[id].by /\ row'[id].note = row[id].note
  <1>1. CASE row' = row
    BY <1>1
  <1>2. ASSUME NEW i \in Escalating, Store(i) PROVE row'[id] = row[id]
    BY <1>2 DEF Store, Stored
  <1>3. ASSUME NEW q \in Requests, Commit(q)
        PROVE  row'[id].by = row[id].by /\ row'[id].note = row[id].note
    <2>1. CASE request[q].id # id
      BY <1>3, <2>1 DEF Commit, Stored
    <2>2. CASE request[q].id = id
      <3>1. request[q].read = row[id] /\ ~Conflict(request[q].kind, request[q].read)
        BY <1>3, <2>2 DEF Commit, Reading, AckInv
      <3>2. Updated(q) = [row[id] EXCEPT !.resolved = TRUE]
        BY <2>2, <3>1 DEF Updated, Conflict
      <3>3. row'[id] = Updated(q)
        BY <1>3, <2>2 DEF Commit, Stored
      <3> QED
        BY <3>2, <3>3 DEF AckInv
    <2> QED
      BY <2>1, <2>2
  <1>4. ASSUME NEW q \in Requests, CutOff(q) PROVE row' = row
    BY <1>4 DEF CutOff
  <1>5. ASSUME NEW q \in Requests, NEW i \in Stored, NEW kind, Read(q, i, kind) PROVE row' = row
    BY <1>5 DEF Read
  <1> QED
    BY <1>1, <1>2, <1>3, <1>4, <1>5 DEF ApiNext, apiVars

\* routes/alerts.py, acknowledge_alert and resolve_alert: who acknowledged an alert and the note
\* are not overwritten, for any number of requests, unless two had read the row at once.
THEOREM AcknowledgementIsKept == ApiSpec => AcknowledgementStays
  <1>1. AckInv /\ [ApiNext]_<<vars, apiVars>> =>
          [\A id \in Stored :
             row[id].acknowledged /\ id \notin crossed =>
               row'[id].by = row[id].by /\ row'[id].note = row[id].note]_<<vars, apiVars>>
    BY AckStep
  <1> QED
    BY AckInit, AckNext, <1>1, PTL DEF ApiSpec, AcknowledgementStays
=============================================================================
