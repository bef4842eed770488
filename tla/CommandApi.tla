----------------------------- MODULE CommandApi -----------------------------
(***************************************************************************)
(* The command API (platform/api/routes/commands.py) and its producer      *)
(* (kafka_producer.py): a request inserts a command's row, publishes the   *)
(* command to Kafka and commits the row after that; acknowledgements are   *)
(* requests of their own that read a row, change it and commit it.  Each   *)
(* request has a session of its own, and an action is what a request does  *)
(* from one await to the next.                                             *)
(***************************************************************************)
EXTENDS Integers, FiniteSets

CONSTANTS
  Commands,    \* requests of create_command
  Writebacks,  \* requests of create_writeback
  Acks,        \* requests of ack_command
  MaxFaults    \* bound: sends and sessions that fail

ASSUME RequestsAssumption == Commands \cap Writebacks = {}
ASSUME FaultsAssumption == MaxFaults \in Nat

Requests == Commands \cup Writebacks

\* The columns of command_records that change.
Row(s, r) == [status |-> s, result |-> r]
Absent == Row("ABSENT", "none")

VARIABLES
  producer,   \* whether the producer was started; the API runs without one, too
  request,    \* where each request is, and its row in its own session
  row,        \* committed rows
  inFlight,   \* messages on their way to the broker
  published,  \* messages in each topic
  ack,        \* where each acknowledgement is, the row it read and its answer
  faults

\* History: requests cut off before their commit was answered.
VARIABLE cutOff
\* History: requests of which two acknowledgements overlapped.
VARIABLE overlapped

vars == <<producer, request, row, inFlight, published, ack, faults, cutOff, overlapped>>

Published == published["commands"] \cup published["writeback"]

Fault ==
  /\ faults < MaxFaults
  /\ faults' = faults + 1

-----------------------------------------------------------------------------
(* create_command and create_writeback; the audit row of a writeback is in *)
(* the same session as its command row                                     *)

At(where, r) == [at |-> where, row |-> r]
Pending == Row("PENDING", "none")
Sent == Row("SENT", "none")
NotSent == Row("FAILED", "error")

Topic(c) == IF c \in Writebacks THEN "writeback" ELSE "commands"

\* A producer that was not started refuses the message at once.
Create(c) ==
  /\ request[c].at = "none"
  /\ IF producer
     THEN /\ request' = [request EXCEPT ![c] = At("sending", Pending)]
          /\ inFlight' = inFlight \cup {c}
     ELSE /\ request' = [request EXCEPT ![c] = At("closing", NotSent)]
          /\ UNCHANGED inFlight
  /\ UNCHANGED <<producer, row, published, ack, faults, cutOff, overlapped>>

Deliver(c) ==
  /\ c \in inFlight
  /\ inFlight' = inFlight \ {c}
  /\ published' = [published EXCEPT ![Topic(c)] = @ \cup {c}]
  /\ UNCHANGED <<producer, request, row, ack, faults, cutOff, overlapped>>

SendAnswered(c) ==
  /\ request[c].at = "sending"
  /\ c \in Published
  /\ request' = [request EXCEPT ![c] = At("closing", Sent)]
  /\ UNCHANGED <<producer, row, inFlight, published, ack, faults, cutOff, overlapped>>

\* MUTANT: the row says SENT before the send is answered.
SendFailsAsSent(c) ==
  /\ request[c].at = "sending"
  /\ Fault
  /\ request' = [request EXCEPT ![c] = At("closing", Sent)]
  /\ inFlight' \in {inFlight, inFlight \ {c}}
  /\ UNCHANGED <<producer, row, published, ack, cutOff, overlapped>>

\* MUTANT: a failed send raises, and the session is rolled back.
SendFailsRaising(c) ==
  /\ request[c].at = "sending"
  /\ Fault
  /\ request' = [request EXCEPT ![c] = At("done", NotSent)]
  /\ inFlight' \in {inFlight, inFlight \ {c}}
  /\ UNCHANGED <<producer, row, published, ack, cutOff, overlapped>>

\* A message whose send failed may arrive all the same, or may have arrived.
SendFails(c) ==
  /\ request[c].at = "sending"
  /\ Fault
  /\ request' = [request EXCEPT ![c] = At("closing", NotSent)]
  /\ inFlight' \in {inFlight, inFlight \ {c}}
  /\ UNCHANGED <<producer, row, published, ack, cutOff, overlapped>>

\* get_db commits when the handler has returned.
RequestCommitted(c) ==
  /\ request[c].at = "closing"
  /\ request' = [request EXCEPT ![c].at = "done"]
  /\ row' = [row EXCEPT ![c] = request[c].row]
  /\ UNCHANGED <<producer, inFlight, published, ack, faults, cutOff, overlapped>>

\* The database refuses or the API dies: the session is rolled back, unless its commit
\* was done and only the answer is missing.
RequestCutOff(c) ==
  /\ request[c].at \in {"sending", "closing"}
  /\ Fault
  /\ request' = [request EXCEPT ![c].at = "done"]
  /\ \/ UNCHANGED row
     \/ request[c].at = "closing" /\ row' = [row EXCEPT ![c] = request[c].row]
  /\ inFlight' \in {inFlight, inFlight \ {c}}
  /\ cutOff' = cutOff \cup {c}
  /\ UNCHANGED <<producer, published, ack, overlapped>>

-----------------------------------------------------------------------------
(* ack_command *)

AckAt(where, c, s, r) == [at |-> where, command |-> c, success |-> s, read |-> r]

\* MUTANT: the row is seen before it is committed.
VisibleInSession(c) == IF request[c].at \in {"sending", "closing"} THEN request[c].row ELSE row[c]

\* A row that is not committed is answered with 404.
Visible(c) == row[c]

AckStarts(a, c, s) ==
  /\ ack[a].at = "none"
  /\ Visible(c) # Absent
  /\ ack' = [ack EXCEPT ![a] = AckAt("read", c, s, Visible(c))]
  /\ UNCHANGED <<producer, request, row, inFlight, published, faults, cutOff, overlapped>>

\* MUTANT: a failure leaves the status to what it was.
OutcomeIfSuccess(a) ==
  IF ack[a].success THEN Row("COMPLETED", "success") ELSE Row(ack[a].read.status, "failure")

Outcome(a) ==
  IF ack[a].success THEN Row("COMPLETED", "success") ELSE Row("FAILED", "failure")

\* The update names the columns in which new differs from what was read, and no others.
Updated(current, old, new) ==
  Row(IF new.status = old.status THEN current.status ELSE new.status,
      IF new.result = old.result THEN current.result ELSE new.result)

AckCommitted(a) ==
  LET c == ack[a].command IN
  /\ ack[a].at = "read"
  /\ row' = [row EXCEPT ![c] = Updated(@, ack[a].read, Outcome(a))]
  /\ overlapped' = IF row[c] = ack[a].read THEN overlapped ELSE overlapped \cup {c}
  /\ ack' = [ack EXCEPT ![a].at = "done"]
  /\ UNCHANGED <<producer, request, inFlight, published, faults, cutOff>>

\* The commit fails; one whose answer is lost is a commit that was done.
AckCutOff(a) ==
  /\ ack[a].at = "read"
  /\ Fault
  /\ ack' = [ack EXCEPT ![a].at = "done"]
  /\ UNCHANGED <<producer, request, row, inFlight, published, cutOff, overlapped>>

-----------------------------------------------------------------------------

Init ==
  /\ producer \in BOOLEAN
  /\ request = [c \in Requests |-> At("none", Absent)]
  /\ row = [c \in Requests |-> Absent]
  /\ inFlight = {}
  /\ published = [t \in {"commands", "writeback"} |-> {}]
  /\ ack = [a \in Acks |-> [at |-> "none"]]
  /\ faults = 0
  /\ cutOff = {}
  /\ overlapped = {}

RequestStep(c) ==
  \/ Create(c)
  \/ Deliver(c)
  \/ SendAnswered(c)
  \/ SendFails(c)
  \/ RequestCommitted(c)
  \/ RequestCutOff(c)

AckStep(a) ==
  \/ \E c \in Requests, s \in BOOLEAN : AckStarts(a, c, s)
  \/ AckCommitted(a)
  \/ AckCutOff(a)

Next ==
  \/ \E c \in Requests : RequestStep(c)
  \/ \E a \in Acks : AckStep(a)

Spec == Init /\ [][Next]_vars

\* A request that was started runs to its end on the API's event loop, and a message
\* arrives unless its send fails.  Nobody has to issue or acknowledge anything.
FairSpec ==
  /\ Spec
  /\ \A c \in Requests :
       /\ WF_vars(Deliver(c))
       /\ WF_vars(SendAnswered(c) \/ SendFails(c))
       /\ WF_vars(RequestCommitted(c))

-----------------------------------------------------------------------------
(* Properties *)

Statuses == {"ABSENT", "PENDING", "SENT", "COMPLETED", "FAILED"}
Rows == [status: Statuses, result: {"none", "error", "success", "failure"}]

AckStates ==
  [at: {"none"}] \cup [at: {"read", "done"}, command: Requests, success: BOOLEAN, read: Rows]

\* Every variable has its type, and each topic holds its own messages only.
TypeOK ==
  /\ producer \in BOOLEAN
  /\ request \in [Requests -> [at: {"none", "sending", "closing", "done"}, row: Rows]]
  /\ row \in [Requests -> Rows]
  /\ inFlight \subseteq Requests
  /\ published \in [{"commands", "writeback"} -> SUBSET Requests]
  /\ published["commands"] \subseteq Commands /\ published["writeback"] \subseteq Writebacks
  /\ ack \in [Acks -> AckStates]
  /\ faults \in 0 .. MaxFaults
  /\ cutOff \subseteq Requests /\ overlapped \subseteq Requests

\* create_command and create_writeback, whose sends fail before and after the message arrived: a row
\* that says SENT is the row of a message that is in Kafka.  Whether the skid is told is not said:
\* the bridge drops commands while MQTT is down and does not forward writebacks.
SentWasPublished == \A c \in Requests : row[c].status = "SENT" => c \in Published

\* The status of a row agrees with the result stored beside it, in whatever order
\* commands are published and acknowledged, unless acknowledgements overlapped: then the
\* columns of one may be mixed with those of the other.
StatusMatchesResult ==
  \A c \in Requests \ overlapped :
    /\ row[c].status = "COMPLETED" <=> row[c].result = "success"
    /\ row[c].status = "FAILED" <=> row[c].result \in {"error", "failure"}

\* What an acknowledgement said is not overwritten by the request that issued the
\* command, which commits its row late.
AcknowledgedStays ==
  [][\A c \in Requests :
       row[c].result \in {"success", "failure"} => row'[c].result \in {"success", "failure"}]_vars

\* A request that was started leaves a row, also when its message could not be sent,
\* unless it was cut off.
RequestLeavesRow ==
  \A c \in Requests : request[c].at # "none" ~> row[c] # Absent \/ c \in cutOff
=============================================================================
