------------------------------ MODULE AlertApi ------------------------------
(***************************************************************************)
(* The alert API (platform/api/routes/alerts.py) beside the alert          *)
(* processor.  An alert that was raised becomes a row, which operators     *)
(* list, acknowledge and resolve; every request has a session of its own   *)
(* that reads the row and, when the handler has returned, updates the      *)
(* columns it changed.  No request tells the processor: its escalation     *)
(* does not depend on the rows.                                            *)
(***************************************************************************)
EXTENDS AlertProcessor

CONSTANTS
  MaxRequests,  \* bound: requests 1 .. MaxRequests are made, in this order
  MaxBegun      \* bound: calls and requests in one behaviour

ASSUME RequestsAssumption == {MaxRequests, MaxBegun} \subseteq Nat

Requests == 1 .. MaxRequests

None == 0

\* The columns of an AlertRecord that change; the operator is named by the request.
Row(by, note, resolved) ==
  [acknowledged |-> by # None, by |-> by, note |-> note, resolved |-> resolved]

VARIABLES
  row,      \* committed rows, by the rule's id; one alert of a rule that is escalated is looked at
  request   \* where each request is, and the row it read

\* History: rows that two requests had read at once.
VARIABLE crossed

apiVars == <<row, request, crossed>>

Stored == DOMAIN row
RequestAt(where, id, kind, read) == [at |-> where, id |-> id, kind |-> kind, read |-> read]
Unbegun == RequestAt("none", "", "", None)
Ended == RequestAt("done", "", "", None)
BegunRequests == {q \in Requests : request[q] # Unbegun}

\* The alert that was raised is inserted when it comes out of Kafka.
Store(id) ==
  /\ raised[id] > 0
  /\ id \notin Stored
  /\ row' = [i \in Stored \cup {id} |-> IF i = id THEN Row(None, None, FALSE) ELSE row[i]]
  /\ UNCHANGED <<vars, request, crossed>>

\* MUTANT: an alert that is acknowledged already is not refused.
ConflictIfResolved(kind, read) == read.resolved

Conflict(kind, read) ==
  \/ kind = "acknowledge" /\ read.acknowledged
  \/ kind = "resolve" /\ read.resolved

Reading(id) == {q \in Requests : request[q].at = "read" /\ request[q].id = id}

\* A row that is not stored is answered with 404, and one in the state asked for with 409.
Read(q, id, kind) ==
  /\ q = Cardinality(BegunRequests) + 1
  /\ Cardinality(Begun) + q <= MaxBegun
  /\ IF Conflict(kind, row[id])
     THEN /\ request' = [request EXCEPT ![q] = Ended]
          /\ UNCHANGED crossed
     ELSE /\ request' = [request EXCEPT ![q] = RequestAt("read", id, kind, row[id])]
          /\ crossed' = IF Reading(id) = {} THEN crossed ELSE crossed \cup {id}
  /\ UNCHANGED <<vars, row>>

\* The committed row with the columns the handler changed in what it had read: the operator
\* and the note of an acknowledgement, or the time of the resolution and, of an alert that
\* nobody had acknowledged, the user.
Updated(q) ==
  LET r == row[request[q].id]
  IN IF request[q].kind = "acknowledge" THEN Row(q, q, r.resolved)
     ELSE IF request[q].read.acknowledged THEN [r EXCEPT !.resolved = TRUE]
     ELSE Row(q, r.note, TRUE)

Commit(q) ==
  /\ request[q].at = "read"
  /\ row' = [row EXCEPT ![request[q].id] = Updated(q)]
  /\ request' = [request EXCEPT ![q] = Ended]
  /\ UNCHANGED <<vars, crossed>>

\* The session is rolled back.
CutOff(q) ==
  /\ request[q].at = "read"
  /\ Fault
  /\ request' = [request EXCEPT ![q] = Ended]
  /\ UNCHANGED <<call, redisVars, timer, expiries, historyVars, row, crossed>>

ApiInit ==
  /\ Init
  /\ row = [id \in {} |-> None]
  /\ request = [q \in Requests |-> Unbegun]
  /\ crossed = {}

ApiNext ==
  \/ Next /\ Cardinality(Begun') + Cardinality(BegunRequests) <= MaxBegun /\ UNCHANGED apiVars
  \/ \E id \in Escalating : Store(id)
  \/ \E q \in Requests :
       \/ \E id \in Stored, kind \in {"acknowledge", "resolve"} : Read(q, id, kind)
       \/ Commit(q)
       \/ CutOff(q)

ApiSpec == ApiInit /\ [][ApiNext]_<<vars, apiVars>> /\ Fairness

-----------------------------------------------------------------------------
(* Properties *)

\* The operator and the note of an acknowledgement stay as they were committed, also when
\* the alert is resolved later, unless two requests had read the row at once.
AcknowledgementStays ==
  [][\A id \in Stored :
       row[id].acknowledged /\ id \notin crossed =>
         row'[id].by = row[id].by /\ row'[id].note = row[id].note]_<<vars, apiVars>>
=============================================================================
