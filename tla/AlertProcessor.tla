--------------------------- MODULE AlertProcessor ---------------------------
(***************************************************************************)
(* The alert processor (platform/integration/alert_processor.py) for one   *)
(* skid: alarm rules evaluated against telemetry, alerts suppressed while  *)
(* a key in Redis says that they were raised, and tasks that escalate what *)
(* nobody acknowledges.  Calls run concurrently on one event loop; an      *)
(* action is what a call does from one await to the next.                  *)
(***************************************************************************)
EXTENDS Integers, FiniteSets, SequencesExt

CONSTANTS
  Readings,     \* telemetry: tag, value_float and value_bool
  Rules,        \* get_alarm_rules(skid_type)
  MaxFaults,    \* bound: calls of Redis and of the callback that fail, and restarts
  MaxExpiries,  \* bound: cooldown and acknowledgement keys that expire
  MaxCalls      \* bound: calls 1 .. MaxCalls are made, in this order

ASSUME BoundsAssumption == {MaxFaults, MaxExpiries, MaxCalls} \subseteq Nat

-----------------------------------------------------------------------------
(* Alarm rules, thresholds in hundredths *)

Rule(id, tag, condition, threshold, severity, escalates) ==
  [id |-> id, tag |-> tag, condition |-> condition, threshold |-> threshold,
   severity |-> severity, escalates |-> escalates]

BeltRipRules ==
  << Rule("BRM_COMPOSITE_WARNING", "composite_score", "GT", 60, "WARNING", TRUE),
     Rule("BRM_COMPOSITE_ALARM", "composite_score", "GT", 75, "ALARM", TRUE),
     Rule("BRM_COMPOSITE_CRITICAL", "composite_score", "GT", 90, "CRITICAL", FALSE),
     Rule("BRM_MAGNETIC_ANOMALY", "magnetic_anomaly", "GT", 50, "ALARM", TRUE),
     Rule("BRM_SPEED_LOW", "belt_speed", "LT", 50, "WARNING", TRUE),
     Rule("BRM_MOTOR_OVERCURRENT", "motor_current_a", "GT", 22000, "ALARM", TRUE),
     Rule("BRM_TENSION_HIGH", "belt_tension_kn", "GT", 15000, "ALARM", TRUE) >>

RoadCrossingRules ==
  << Rule("RXS_EMERGENCY_STOP", "emergency_stop", "TRUE", 0, "CRITICAL", FALSE),
     Rule("RXS_BARRIER_FAULT", "barrier_fault", "TRUE", 0, "ALARM", TRUE),
     Rule("RXS_HYDRAULIC_LOW", "hydraulic_pressure_bar", "LT", 10000, "WARNING", TRUE),
     Rule("RXS_HYDRAULIC_CRITICAL", "hydraulic_pressure_bar", "LT", 6000, "CRITICAL", TRUE),
     Rule("RXS_VEHICLE_OVERSTAY", "vehicle_detected", "TRUE", 0, "WARNING", TRUE) >>

GenericRules ==
  << Rule("GEN_TEMP_HIGH", "ambient_temp_c", "GT", 6000, "WARNING", TRUE),
     Rule("GEN_TEMP_CRITICAL", "ambient_temp_c", "GT", 7500, "CRITICAL", TRUE) >>

RulesOf(skidType) ==
  CASE skidType = "BELT_RIP_MONITOR" -> BeltRipRules \o GenericRules
    [] skidType = "ROAD_CROSSING" -> RoadCrossingRules \o GenericRules
    [] OTHER -> GenericRules

\* AlarmRule.evaluate, for the conditions in use; float and bool hold the value or nothing.
Fires(rule, reading) ==
  /\ reading.tag = rule.tag
  /\ \/ rule.condition = "TRUE" /\ reading.bool = {TRUE}
     \/ rule.condition = "GT" /\ \E v \in reading.float : v > rule.threshold
     \/ rule.condition = "LT" /\ \E v \in reading.float : v < rule.threshold

\* Rules whose alerts are escalated when nobody acknowledges them.
Escalates(rule) == rule.escalates /\ rule.severity \in {"ALARM", "WARNING"}

\* _build_alert: of an alert only its id is kept, which is the id of its rule.
Ids == {Rules[i].id : i \in DOMAIN Rules}
Escalating == {Rules[i].id : i \in {j \in DOMAIN Rules : Escalates(Rules[j])}}

VARIABLES
  call,      \* calls: their kind, where each is, and the ids it still has to go through
  cooldown,  \* ids with a cooldown key in Redis
  ackKey,    \* ids with an acknowledgement key in Redis
  timer,     \* the escalation task of each id
  faults, expiries

\* History: how often each id was raised since its cooldown key last expired; ids that two
\* calls were about to raise at once; ids raised and neither escalated nor acknowledged since,
\* and those of them whose task was ended by the key of an older acknowledgement, an error or a
\* restart; ids whose acknowledgement has returned and whose key is still in Redis.
VARIABLES raised, overlapped, open, forgone, silenced

redisVars == <<cooldown, ackKey>>
boundVars == <<faults, expiries>>
historyVars == <<raised, overlapped, open, forgone, silenced>>
vars == <<call, redisVars, timer, boundVars, historyVars>>

Calls == 1 .. MaxCalls
Call(kind, where, ids) == [kind |-> kind, at |-> where, todo |-> ids]
Begun == {c \in Calls : call[c].at # "none"}
Live == {"sleeping", "checking", "calling"}

\* An alarm that is escalated or acknowledged; alarms whose task ends without either.
Settled(id) == open' = open \ {id} /\ forgone' = forgone \ {id}
GivenUp(ids) == forgone' = forgone \cup (ids \cap open) /\ UNCHANGED open

Fault ==
  /\ faults < MaxFaults
  /\ faults' = faults + 1

-----------------------------------------------------------------------------
(* evaluate_alarm_rules and process_alert *)

Begin(c, kind, where, ids) ==
  /\ c = Cardinality(Begun) + 1
  /\ call' = [call EXCEPT ![c] = Call(kind, where, ids)]
  /\ UNCHANGED <<redisVars, timer, boundVars, historyVars>>

\* Where a call is when these ids are left.
Continue(ids) == IF ids = <<>> THEN "done" ELSE "checking"

Evaluate(c, reading) ==
  LET firing == SelectSeq(Rules, LAMBDA rule : Fires(rule, reading))
      ids == [i \in DOMAIN firing |-> firing[i].id]
  IN Begin(c, "evaluate", Continue(ids), ids)

\* The alert of a rule has the rule's id, and with it the rule's cooldown key.
ProcessAlert(c, id) == Begin(c, "process", "checking", <<id>>)

MarkAcknowledged(c, id) == Begin(c, "acknowledge", "marking", <<id>>)

Setting(id) == {c \in Calls : call[c].at = "setting" /\ Head(call[c].todo) = id}

\* MUTANT: an alert is raised without a look at its key.
NotAsked(id) == FALSE

InCooldown(id) == id \in cooldown

CheckCooldown(c) ==
  /\ call[c].at = "checking"
  /\ LET id == Head(call[c].todo) IN
     IF InCooldown(id)
     THEN /\ call' = [call EXCEPT ![c].todo = Tail(@), ![c].at = Continue(Tail(call[c].todo))]
          /\ UNCHANGED overlapped
     ELSE /\ call' = [call EXCEPT ![c].at = "setting"]
          /\ overlapped' = IF Setting(id) = {} THEN overlapped ELSE overlapped \cup {id}
  /\ UNCHANGED <<redisVars, timer, boundVars, raised, open, forgone, silenced>>

\* MUTANT: a task that has ended keeps its place.
MayStartIfAbsent(id) == timer[id] = "none"

MayStart(id) == timer[id] \notin Live

\* The alert is raised; an evaluation also starts a task that may escalate it.
SetCooldown(c) ==
  /\ call[c].at = "setting"
  /\ LET id == Head(call[c].todo)
         watched == call[c].kind = "evaluate" /\ id \in Escalating
     IN /\ cooldown' = cooldown \cup {id}
        /\ raised' = [raised EXCEPT ![id] = @ + 1]
        /\ open' = IF watched THEN open \cup {id} ELSE open
        /\ forgone' = IF watched THEN forgone \ {id} ELSE forgone
        /\ timer' = IF watched /\ MayStart(id)
                    THEN [timer EXCEPT ![id] = "sleeping"] ELSE timer
        /\ call' = [call EXCEPT ![c].todo = Tail(@),
                                ![c].at = IF call[c].kind = "process" THEN "calling"
                                          ELSE Continue(Tail(call[c].todo))]
  /\ UNCHANGED <<ackKey, boundVars, overlapped, silenced>>

\* An error of Redis ends the call, though the key may have been set: what an evaluation had
\* raised is not returned, and what was to be acknowledged keeps its task.
CallFails(c) ==
  /\ call[c].at \in {"checking", "setting", "marking"}
  /\ Fault
  /\ call' = [call EXCEPT ![c].at = "done", ![c].todo = <<>>]
  /\ LET id == Head(call[c].todo) IN
     \/ UNCHANGED redisVars
     \/ call[c].at = "setting" /\ cooldown' = cooldown \cup {id} /\ UNCHANGED ackKey
     \/ call[c].at = "marking" /\ ackKey' = ackKey \cup {id} /\ UNCHANGED cooldown
  /\ UNCHANGED <<timer, expiries, historyVars>>

\* An error of the callback is logged; the cooldown key stays.
CallbackEnds(c) ==
  /\ call[c].at = "calling"
  /\ call' = [call EXCEPT ![c].at = "done"]
  /\ UNCHANGED <<redisVars, timer, boundVars, historyVars>>

-----------------------------------------------------------------------------
(* _escalate_after and mark_acknowledged *)

TimerFires(id) ==
  /\ timer[id] = "sleeping"
  /\ timer' = [timer EXCEPT ![id] = "checking"]
  /\ UNCHANGED <<call, redisVars, boundVars, historyVars>>

TimerChecks(id) ==
  /\ timer[id] = "checking"
  /\ IF id \in ackKey
     THEN timer' = [timer EXCEPT ![id] = "ended"] /\ GivenUp({id})
     ELSE timer' = [timer EXCEPT ![id] = "calling"] /\ UNCHANGED <<open, forgone>>
  /\ UNCHANGED <<call, redisVars, boundVars, raised, overlapped, silenced>>

Escalate(id) ==
  /\ timer[id] = "calling"
  /\ timer' = [timer EXCEPT ![id] = "ended"]
  /\ Settled(id)
  /\ UNCHANGED <<call, redisVars, boundVars, raised, overlapped, silenced>>

\* An error of Redis or of the callback ends the task; nothing tries again.
EscalationFails(id) ==
  /\ timer[id] \in {"checking", "calling"}
  /\ Fault
  /\ timer' = [timer EXCEPT ![id] = "ended"]
  /\ GivenUp({id})
  /\ UNCHANGED <<call, redisVars, expiries, raised, overlapped, silenced>>

SetAckKey(c) ==
  /\ call[c].at = "marking"
  /\ call' = [call EXCEPT ![c].at = "cancelling"]
  /\ ackKey' = ackKey \cup {Head(call[c].todo)}
  /\ Settled(Head(call[c].todo))
  /\ UNCHANGED <<cooldown, timer, boundVars, raised, overlapped, silenced>>

\* MUTANT: the task is forgotten but not cancelled.
TimerKept(id) == timer[id]

\* The task is taken out of the dictionary and cancelled, wherever it is.
TimerCancelled(id) == "none"

CancelTimer(c) ==
  /\ call[c].at = "cancelling"
  /\ LET id == Head(call[c].todo) IN
     /\ timer' = [timer EXCEPT ![id] = TimerCancelled(id)]
     /\ Settled(id)
     /\ silenced' = IF id \in ackKey THEN silenced \cup {id} ELSE silenced
  /\ call' = [call EXCEPT ![c].at = "done", ![c].todo = <<>>]
  /\ UNCHANGED <<redisVars, boundVars, raised, overlapped>>

-----------------------------------------------------------------------------
(* Redis and the process *)

CooldownExpires(id) ==
  /\ id \in cooldown
  /\ expiries < MaxExpiries
  /\ expiries' = expiries + 1
  /\ cooldown' = cooldown \ {id}
  /\ raised' = [raised EXCEPT ![id] = 0]
  /\ UNCHANGED <<call, ackKey, timer, faults, overlapped, open, forgone, silenced>>

AckKeyExpires(id) ==
  /\ id \in ackKey
  /\ expiries < MaxExpiries
  /\ expiries' = expiries + 1
  /\ ackKey' = ackKey \ {id}
  /\ silenced' = silenced \ {id}
  /\ UNCHANGED <<call, cooldown, timer, faults, raised, overlapped, open, forgone>>

\* disconnect() cancels the tasks and a crash ends them; calls end with the process.
Restart ==
  /\ Fault
  /\ timer' = [id \in Ids |-> "none"]
  /\ GivenUp(Ids)
  /\ call' = [c \in Calls |-> IF c \in Begun THEN Call(call[c].kind, "done", <<>>) ELSE call[c]]
  /\ UNCHANGED <<redisVars, expiries, raised, overlapped, silenced>>

-----------------------------------------------------------------------------
Init ==
  /\ call = [c \in Calls |-> Call("none", "none", <<>>)]
  /\ cooldown = {} /\ ackKey = {}
  /\ timer = [id \in Ids |-> "none"]
  /\ faults = 0 /\ expiries = 0
  /\ raised = [id \in Ids |-> 0]
  /\ overlapped = {} /\ open = {} /\ forgone = {} /\ silenced = {}

TimerStep(id) == TimerFires(id) \/ TimerChecks(id) \/ Escalate(id)

Next ==
  \/ \E c \in Calls :
       \/ \E reading \in Readings : Evaluate(c, reading)
       \/ \E id \in Ids : ProcessAlert(c, id)
       \/ \E id \in Escalating : MarkAcknowledged(c, id)
       \/ CheckCooldown(c) \/ SetCooldown(c) \/ CallbackEnds(c)
       \/ SetAckKey(c) \/ CancelTimer(c)
       \/ CallFails(c)
  \/ \E id \in Ids :
       TimerStep(id) \/ EscalationFails(id) \/ CooldownExpires(id) \/ AckKeyExpires(id)
  \/ Restart

Spec == Init /\ [][Next]_vars

Fairness == \A id \in Ids : WF_vars(TimerStep(id))
FairSpec == Spec /\ Fairness

-----------------------------------------------------------------------------
(* Properties *)

TypeOK ==
  /\ call \in [Calls -> [kind : {"none", "evaluate", "process", "acknowledge"},
                         at : {"none", "checking", "setting", "calling", "marking",
                               "cancelling", "done"},
                         todo : Seq(Ids)]]
  /\ \A c \in Calls :
       call[c].at \in {"checking", "setting", "marking", "cancelling"} => call[c].todo # <<>>
  /\ cooldown \subseteq Ids /\ ackKey \subseteq Ids
  /\ timer \in [Ids -> Live \cup {"none", "ended"}]
  /\ raised \in [Ids -> Nat]
  /\ overlapped \subseteq Ids /\ open \subseteq Escalating /\ forgone \subseteq open
  /\ silenced \subseteq ackKey

\* An alert is raised once in a cooldown, whether by an evaluation or as an incoming alert,
\* unless two calls looked for its key before either had set it (_is_in_cooldown).
RaisedOncePerCooldown == \A id \in Ids \ overlapped : raised[id] <= 1

\* An alarm that was raised, and neither escalated nor acknowledged since, has a task that has not
\* ended, through repeated alarms, acknowledgements and tasks that end as it is raised; unless the
\* task was ended by the key of an older acknowledgement, an error or a restart.
AlarmIsWatched == \A id \in open \ forgone : timer[id] \in Live

\* Once mark_acknowledged has returned, and while its key is in Redis, no escalation of the
\* alarm is delivered, also not by a task that had looked for the key before it was set.
AcknowledgedStaysQuiet == \A id \in silenced : timer[id] # "calling"

\* Every alarm is escalated or acknowledged in the end, unless its task was ended by the key of an
\* older acknowledgement, an error or a restart.
AlarmIsSettled == \A id \in Ids : id \in open ~> id \notin open \ forgone
=============================================================================
