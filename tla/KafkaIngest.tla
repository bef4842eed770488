---------------------------- MODULE KafkaIngest ----------------------------
(***************************************************************************)
(* Ingestion from Kafka (platform/api/kafka_consumer.py): one task routes  *)
(* messages into a buffer and flushes it when it is full, another flushes  *)
(* it on a timer, and a stop flushes what is left.  A flush writes the     *)
(* buffer to the database in one transaction, clears the buffer and        *)
(* commits the consumer's position.  A record that cannot be read is       *)
(* passed over: it is logged, cleared and committed with the rest.  An     *)
(* action is what a task does from one await to the next; messages are the *)
(* numbers of their offsets.                                               *)
(***************************************************************************)
EXTENDS Integers, FiniteSets, SequencesExt

CONSTANTS
  Kinds,       \* kinds of messages that are produced
  N,           \* bound: messages produced
  Batch,       \* BATCH_SIZE
  MaxFailures,   \* bound: failed awaits of Redis, the database and Kafka
  MaxRestarts  \* bound: starts after the first one

BufferKinds == {"telemetry", "alert", "heartbeat", "writeback"}

\* What comes of a record: a row, one that raises KeyError or ValueError and is
\* passed over, or one that the database refuses (its row refers to a skid or a
\* command that is not there).
Bodies == {"row", "unreadable", "refused"}

\* A message whose value is not an object joins no list.
Malformed == [list |-> "none", body |-> "unreadable"]

ASSUME KindsAssumption  == Kinds \subseteq [list: BufferKinds, body: Bodies] \cup {Malformed}
ASSUME NAssumption      == N \in Nat
ASSUME BatchAssumption  == Batch \in Nat \ {0}
ASSUME BoundsAssumption == MaxFailures \in Nat /\ MaxRestarts \in Nat

Tasks == {"consume", "timer", "stop"}
Messages == 1 .. N
NoOffset == -1
Empty == [k \in BufferKinds |-> <<>>]

VARIABLES
  topic,      \* the messages in the partition, by offset
  committed,  \* the consumer group's offset: messages up to it are done
  position,   \* the last message the consumer yielded
  buffer,     \* _buffer
  task,       \* what each task is waiting for
  stored,     \* database: rows of each message, where 2 is several
  failures,
  restarts

\* History: messages that may be lost, because they were routed while a flush was
\* under way or skipped by a start without an offset.
VARIABLE exposed
\* History: flushes overlapped or were cut off.
VARIABLE disturbed

ingestVars ==
  <<topic, committed, position, buffer, task, stored, failures, restarts, exposed, disturbed>>

Total(b) ==
  Len(b["telemetry"]) + Len(b["alert"]) + Len(b["heartbeat"]) + Len(b["writeback"])

WaitAt(where, i, r) == [at |-> where, index |-> i, rows |-> r]
Wait(where) == WaitAt(where, 0, {})

AllStopped == [t \in Tasks |-> Wait("stopped")]
Started ==
  [t \in Tasks |->
     Wait(CASE t = "consume" -> "poll" [] t = "timer" -> "sleep" [] t = "stop" -> "idle")]

Flushing(t) == task[t].at \in BufferKinds \cup {"commit", "close"}
Running == task["timer"].at # "stopped"

-----------------------------------------------------------------------------
(* _flush_buffer up to the commit of its session: what a task waits for    *)
(* after item i.  The lists of the buffer b are iterated over while other  *)
(* tasks append to them and clear them.  No await is taken for a record    *)
(* that is passed over, nor for writebacks.                                *)

Readable(m) == topic[m].body # "unreadable"
ReadableIn(s) == {m \in Range(s) : Readable(m)}

\* The items after i that are not passed over.
Ahead(s, i) == {j \in i + 1 .. Len(s) : Readable(s[j])}

PersistWritebacks(b, r) == WaitAt("commit", 0, r \cup ReadableIn(b["writeback"]))

PersistHeartbeats(b, i, r) ==
  LET j == Min(Ahead(b["heartbeat"], i)) IN
  IF Ahead(b["heartbeat"], i) # {}
  THEN WaitAt("heartbeat", j, r \cup {b["heartbeat"][j]})
  ELSE PersistWritebacks(b, r)

PersistAlerts(b, i, r) ==
  LET j == Min(Ahead(b["alert"], i)) IN
  IF Ahead(b["alert"], i) # {}
  THEN WaitAt("alert", j, r \cup {b["alert"][j]})
  ELSE PersistHeartbeats(b, 0, r)

StartFlush(b) ==
  IF ReadableIn(b["telemetry"]) # {}
  THEN WaitAt("telemetry", 0, ReadableIn(b["telemetry"]))
  ELSE PersistAlerts(b, 0, {})

\* Redis or the database has answered in the middle of a flush.
PersistNext(t) ==
  /\ task[t].at \in {"telemetry", "alert", "heartbeat"}
  /\ task' = [task EXCEPT ![t] =
       CASE @.at = "telemetry" -> PersistAlerts(buffer, 0, @.rows)
         [] @.at = "alert"     -> PersistAlerts(buffer, @.index, @.rows)
         [] @.at = "heartbeat" -> PersistHeartbeats(buffer, @.index, @.rows)]
  /\ UNCHANGED <<topic, committed, position, buffer, stored, failures, restarts, exposed, disturbed>>

\* One row that refers to nothing fails the whole session when it is committed
\* (autoflush is off): an audit record of the edge, which makes up its command_id
\* (data_models.py, WritebackRequest), or a record of a skid not registered.
Refused(t) ==
  task[t].at = "commit" /\ \E m \in task[t].rows : topic[m].body = "refused"

Several(n) == IF n > 2 THEN 2 ELSE n

\* The transactions of the tasks T are committed.
StoredBy(T) ==
  [m \in Messages |-> Several(stored[m] + Cardinality({t \in T : m \in task[t].rows}))]

SessionCommitted(t) ==
  /\ task[t].at = "commit"
  /\ ~Refused(t)
  /\ stored' = StoredBy({t})
  /\ task' = [task EXCEPT ![t] = Wait("close")]
  /\ UNCHANGED <<topic, committed, position, buffer, failures, restarts, exposed, disturbed>>

OffsetToCommit == position

\* MUTANT: the buffer is not emptied by the flush.
SessionClosedKeeping(t) ==
  /\ task[t].at = "close"
  /\ task' = IF t = "stop" THEN AllStopped
             ELSE [task EXCEPT ![t] = WaitAt("offsets", OffsetToCommit, {})]
  /\ UNCHANGED <<topic, committed, position, buffer, stored, failures, restarts, exposed, disturbed>>

\* The buffer is cleared, with all that was put into it since the session read
\* it.  Only stop leaves the position uncommitted.
SessionClosed(t) ==
  /\ task[t].at = "close"
  /\ buffer' = Empty
  /\ task' = IF t = "stop" THEN AllStopped
             ELSE [task EXCEPT ![t] = WaitAt("offsets", OffsetToCommit, {})]
  /\ UNCHANGED <<topic, committed, position, stored, failures, restarts, exposed, disturbed>>

\* The group coordinator answers commits in the order they were sent in.
OffsetsCommitted(t) ==
  /\ task[t].at = "offsets"
  /\ \A u \in Tasks : task[u].at = "offsets" => task[t].index <= task[u].index
  /\ committed' = task[t].index
  /\ task' = [task EXCEPT ![t] = Wait(IF t = "timer" THEN "sleep" ELSE "poll")]
  /\ UNCHANGED <<topic, position, buffer, stored, failures, restarts, exposed, disturbed>>

-----------------------------------------------------------------------------
(* The loops *)

Produce(k) ==
  /\ Len(topic) < N
  /\ topic' = Append(topic, k)
  /\ UNCHANGED <<committed, position, buffer, task, stored, failures, restarts, exposed, disturbed>>

\* A malformed message goes to the dead-letter queue, where it does not arrive: the
\* producer serialises once more what is bytes already, and the failure is logged.
Routed(m) ==
  IF topic[m] = Malformed THEN buffer ELSE [buffer EXCEPT ![topic[m].list] = Append(@, m)]

Route ==
  LET m == position + 1 IN
  /\ task["consume"].at = "poll"
  /\ m <= Len(topic)
  /\ position' = m
  /\ buffer' = Routed(m)
  /\ exposed' = IF Flushing("timer") THEN exposed \cup {m} ELSE exposed
  /\ IF Total(buffer') >= Batch
     THEN /\ task' = [task EXCEPT !["consume"] = StartFlush(buffer')]
          /\ disturbed' = (disturbed \/ Flushing("timer"))
     ELSE UNCHANGED <<task, disturbed>>
  /\ UNCHANGED <<topic, committed, stored, failures, restarts>>

\* MUTANT: the timer waits for a full batch as well.
TimerDueWhenFull == Total(buffer) >= Batch

TimerDue == Total(buffer) > 0

TimerFires ==
  /\ task["timer"].at = "sleep"
  /\ TimerDue
  /\ task' = [task EXCEPT !["timer"] = StartFlush(buffer)]
  /\ disturbed' = (disturbed \/ Flushing("consume"))
  /\ UNCHANGED <<topic, committed, position, buffer, stored, failures, restarts, exposed>>

-----------------------------------------------------------------------------
(* Failures, stop, crash *)

\* Cut off, T's transactions and offset commits may or may not have been done.
CutOff(T) ==
  /\ \E done \in SUBSET {t \in T : task[t].at = "commit" /\ ~Refused(t)} : stored' = StoredBy(done)
  /\ committed' \in {committed} \cup {task[t].index : t \in {u \in T : task[u].at = "offsets"}}
  /\ disturbed' = TRUE

\* MUTANT: there is no final flush.
FinalFlushOmitted(where) == AllStopped

\* The final flush; the consumer waits for it in where.
FinalFlush(where) ==
  IF Total(buffer) = 0 THEN AllStopped
  ELSE [AllStopped EXCEPT !["consume"] = Wait(where), !["stop"] = StartFlush(buffer)]

\* What t waits for fails, by a fault or because the session is refused.
AwaitFails(t) ==
  \/ failures < MaxFailures /\ failures' = failures + 1
  \/ Refused(t) /\ UNCHANGED failures

\* MUTANT: the buffer is cleared when its flush fails, too.
TimerFailsClearing ==
  /\ task["timer"].at \in BufferKinds \cup {"commit", "offsets"}
  /\ AwaitFails("timer")
  /\ CutOff({"timer"})
  /\ buffer' = Empty
  /\ task' = [task EXCEPT !["timer"] = Wait("sleep")]
  /\ UNCHANGED <<topic, position, restarts, exposed>>

\* The session is rolled back and the timer goes on.
TimerFails ==
  /\ task["timer"].at \in BufferKinds \cup {"commit", "offsets"}
  /\ AwaitFails("timer")
  /\ CutOff({"timer"})
  /\ task' = [task EXCEPT !["timer"] = Wait("sleep")]
  /\ UNCHANGED <<topic, position, buffer, restarts, exposed>>

\* Any failure ends the consume task for good; its finally runs stop.
ConsumeFails ==
  /\ task["consume"].at \in BufferKinds \cup {"poll", "commit", "offsets"}
  /\ AwaitFails("consume")
  /\ CutOff({"consume", "timer"})
  /\ task' = FinalFlush("ending")
  /\ UNCHANGED <<topic, position, buffer, restarts, exposed>>

\* stop_consumer runs stop a second time.
StopFails ==
  /\ task["stop"].at \in BufferKinds \cup {"commit"}
  /\ AwaitFails("stop")
  /\ CutOff({"stop"})
  /\ task' = IF task["consume"].at = "draining" THEN FinalFlush("exiting") ELSE AllStopped
  /\ UNCHANGED <<topic, position, buffer, restarts, exposed>>

\* stop_consumer cancels the consume task, wherever it is.
Shutdown ==
  /\ \/ Running /\ task' = FinalFlush("draining")
     \/ task["consume"].at = "ending" /\ task' = FinalFlush("exiting")
  /\ CutOff(Tasks)
  /\ UNCHANGED <<topic, position, buffer, failures, restarts, exposed>>

Crash ==
  /\ task # AllStopped
  /\ CutOff(Tasks)
  /\ task' = AllStopped
  /\ buffer' = Empty
  /\ UNCHANGED <<topic, position, failures, restarts, exposed>>

\* auto_offset_reset is "latest": without an offset the topic's end is the start.
Restart ==
  /\ task = AllStopped
  /\ restarts < MaxRestarts
  /\ restarts' = restarts + 1
  /\ position' = IF committed = NoOffset THEN Len(topic) ELSE committed
  /\ exposed' = IF committed = NoOffset THEN exposed \cup 1 .. Len(topic) ELSE exposed
  /\ buffer' = Empty
  /\ task' = Started
  /\ UNCHANGED <<topic, committed, stored, failures, disturbed>>

-----------------------------------------------------------------------------

IngestInit ==
  /\ topic = <<>>
  /\ committed = NoOffset
  /\ position = 0
  /\ buffer = Empty
  /\ task = Started
  /\ stored = [m \in Messages |-> 0]
  /\ failures = 0
  /\ restarts = 0
  /\ exposed = {}
  /\ disturbed = FALSE

FlushStep(t) ==
  \/ PersistNext(t)
  \/ SessionCommitted(t)
  \/ SessionClosed(t)
  \/ OffsetsCommitted(t)

Environment ==
  \/ \E k \in Kinds : Produce(k)
  \/ TimerFails
  \/ ConsumeFails
  \/ StopFails
  \/ Shutdown
  \/ Crash
  \/ Restart

IngestNext ==
  \/ Route
  \/ TimerFires
  \/ \E t \in Tasks : FlushStep(t)
  \/ Environment

IngestSpec == IngestInit /\ [][IngestNext]_ingestVars

\* The event loop runs both tasks, and what they wait for answers in the end, if
\* only to refuse a session; the environment owes nothing else.
FairIngestSpec ==
  /\ IngestSpec
  /\ WF_ingestVars(Route)
  /\ WF_ingestVars(TimerFires)
  /\ \A t \in Tasks : WF_ingestVars(FlushStep(t))
  /\ WF_ingestVars(Refused("timer") /\ TimerFails)
  /\ WF_ingestVars(Refused("consume") /\ ConsumeFails)
  /\ WF_ingestVars(Refused("stop") /\ StopFails)

-----------------------------------------------------------------------------
(* Properties *)

Waits == BufferKinds \cup
  {"poll", "sleep", "idle", "commit", "close", "offsets", "draining", "ending", "exiting", "stopped"}

\* Every variable has its type; no offset is committed of a message that was not
\* produced yet.
IngestTypeOK ==
  /\ topic \in Seq(Kinds) /\ Len(topic) <= N
  /\ committed \in {NoOffset} \cup 0 .. Len(topic)
  /\ position \in 0 .. Len(topic)
  /\ DOMAIN buffer = BufferKinds
  /\ \A k \in BufferKinds : Range(buffer[k]) \subseteq 1 .. position
  /\ task \in [Tasks -> [at: Waits, index: 0 .. N, rows: SUBSET Messages]]
  /\ stored \in [Messages -> 0 .. 2]
  /\ failures \in 0 .. MaxFailures
  /\ restarts \in 0 .. MaxRestarts
  /\ exposed \subseteq Messages
  /\ disturbed \in BOOLEAN

Buffered == UNION {Range(buffer[k]) : k \in BufferKinds}
WellFormed == {m \in 1 .. Len(topic) : Readable(m)}
Stored == {m \in Messages : stored[m] > 0}

\* A buffer with a record in it that the database refuses cannot be written.
Blocked == \E m \in Buffered : topic[m].body = "refused"

\* A readable message the consumer has taken is in the database or still in the
\* buffer, and once the buffer is gone every readable message below the committed
\* offset is in the database, but for those routed during a flush or skipped by a
\* first start.  Records that are passed over are committed and in neither.
ReadAccountedFor ==
  LET kept == Stored \cup exposed \cup Buffered
      done == IF task = AllStopped THEN committed ELSE position
  IN \A m \in WellFormed : m <= done => m \in kept

\* platform/api/main.py:11 "Stop Kafka consumer (drain in-flight messages)": when
\* nothing failed, a stop leaves nothing in the buffer, wherever it found the
\* tasks, unless the database refuses what is in it.
DrainedWhenStopped == task = AllStopped /\ failures = 0 => Total(buffer) = 0 \/ Blocked

\* A message is written once as long as flushes neither overlap nor are cut off.
OnceUndisturbed == ~disturbed => \A m \in Messages : stored[m] <= 1

\* Every readable message that is produced reaches the database, unless it is one
\* of the exposed, or from some point on the consumer stays stopped or its buffer
\* holds a record the database refuses.
EventuallyStored ==
  \/ <>[](Blocked \/ task = AllStopped)
  \/ \A m \in Messages : m \in WellFormed ~> m \in Stored \cup exposed
=============================================================================
