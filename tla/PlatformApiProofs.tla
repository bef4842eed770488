-------------------------- MODULE PlatformApiProofs --------------------------
(***************************************************************************)
(* Proofs about the two parts of the platform API that talk to Kafka: the  *)
(* commands it sends (CommandApi), for any sets of requests and            *)
(* acknowledgements, and the messages it ingests (KafkaIngest), for any    *)
(* number of messages, any batch size and any number of failures and       *)
(* restarts.  The two share no state.                                      *)
(***************************************************************************)
EXTENDS CommandApi, KafkaIngest, FiniteSetTheorems, WellFoundedInduction, TLAPS

(* Commands *)

\* What a request has in its session comes from creating and sending, and says
\* SENT only of a message that has arrived.
SessionInv ==
  \A c \in Requests :
    /\ request[c].row \in {Absent, Pending, Sent, NotSent}
    /\ request[c].row = Sent => c \in Published
    /\ request[c].at = "closing" => request[c].row \in {Sent, NotSent}

\* Until a request is done its row is in no other session: nobody sees it, and
\* nobody acknowledges it.
UnseenInv ==
  /\ \A c \in Requests : request[c].at # "done" => row[c] = Absent
  /\ \A a \in Acks : ack[a].at = "read" => request[ack[a].command].at = "done"

IInv == TypeOK /\ SessionInv /\ UnseenInv /\ SentWasPublished /\ StatusMatchesResult

-----------------------------------------------------------------------------

LEMMA RowsTyped ==
  /\ {Absent, Pending, Sent, NotSent} \subseteq Rows
  /\ \A s \in Statuses, r \in {"none", "error", "success", "failure"} :
       /\ Row(s, r) \in Rows
       /\ Row(s, r).status = s
       /\ Row(s, r).result = r
  BY DEF Rows, Row, Statuses, Absent, Pending, Sent, NotSent

\* What an acknowledgement writes, column by column.
LEMMA UpdatedFacts ==
  ASSUME NEW current \in Rows, NEW a \in Acks, ack[a].at = "read", ack \in [Acks -> AckStates]
  PROVE  LET new == Updated(current, ack[a].read, Outcome(a)) IN
         /\ new \in Rows
         /\ new.status \in {current.status, "COMPLETED", "FAILED"}
         /\ new.result \in {current.result, "success", "failure"}
         /\ current = ack[a].read => new = Outcome(a)
  <1>1. ack[a] \in [at: {"read", "done"}, command: Requests, success: BOOLEAN, read: Rows]
    BY DEF AckStates
  <1>2. ack[a].read \in Rows /\ ack[a].success \in BOOLEAN
    BY <1>1
  <1>3. Outcome(a) \in {Row("COMPLETED", "success"), Row("FAILED", "failure")}
    BY DEF Outcome
  <1>4. /\ Outcome(a).status \in {"COMPLETED", "FAILED"}
        /\ Outcome(a).result \in {"success", "failure"}
        /\ Outcome(a) = Row(Outcome(a).status, Outcome(a).result)
    BY <1>3 DEF Row
  <1>5. /\ current.status \in Statuses
        /\ current.result \in {"none", "error", "success", "failure"}
    BY DEF Rows
  <1> QED
    BY <1>2, <1>4, <1>5 DEF Updated, Row, Rows, Statuses

-----------------------------------------------------------------------------

LEMMA InitIInv == Init => IInv
  <1> SUFFICES ASSUME Init PROVE IInv
    OBVIOUS
  <1>1. TypeOK
    BY RowsTyped, FaultsAssumption DEF Init, TypeOK, At, AckStates
  <1>2. SessionInv /\ UnseenInv
    BY DEF Init, SessionInv, UnseenInv, At, Absent, Sent, Row
  <1>3. SentWasPublished /\ StatusMatchesResult
    BY DEF Init, SentWasPublished, StatusMatchesResult, Absent, Row
  <1> QED
    BY <1>1, <1>2, <1>3 DEF IInv

\* The steps of a request before its commit: no row is committed, the session's row
\* is one of four, and no message disappears from Kafka.
LEMMA Sending ==
  ASSUME IInv, NEW c \in Requests,
         Create(c) \/ Deliver(c) \/ SendAnswered(c) \/ SendFails(c)
  PROVE  IInv'
  <1>1. TypeOK'
    <2>1. CASE Create(c)
      BY <2>1, RowsTyped DEF IInv, TypeOK, Create, At
    <2>2. CASE Deliver(c)
      <3>1. Topic(c) \in {"commands", "writeback"}
        BY DEF Topic
      <3>2. /\ Topic(c) = "commands" => c \in Commands
            /\ Topic(c) = "writeback" => c \in Writebacks
        BY DEF Topic, Requests
      <3> QED
        BY <2>2, <3>1, <3>2 DEF IInv, TypeOK, Deliver
    <2>3. CASE SendAnswered(c)
      BY <2>3, RowsTyped DEF IInv, TypeOK, SendAnswered, At
    <2>4. CASE SendFails(c)
      BY <2>4, RowsTyped, FaultsAssumption DEF IInv, TypeOK, SendFails, Fault, At
    <2> QED
      BY <2>1, <2>2, <2>3, <2>4
  <1>2. Published \subseteq Published'
    BY DEF Create, Deliver, SendAnswered, SendFails, Published, IInv, TypeOK, Topic
  <1>3. SessionInv'
    <2>1. Pending # Sent /\ NotSent # Sent
      BY DEF Pending, NotSent, Sent, Row
    <2>2. \/ request' = request
          \/ request' = [request EXCEPT ![c] = At("sending", Pending)]
          \/ request' = [request EXCEPT ![c] = At("closing", NotSent)]
          \/ c \in Published /\ request' = [request EXCEPT ![c] = At("closing", Sent)]
      BY DEF Create, Deliver, SendAnswered, SendFails
    <2> QED
      BY <1>2, <2>1, <2>2 DEF IInv, TypeOK, SessionInv, At
  <1>4. UnseenInv'
    BY DEF IInv, TypeOK, UnseenInv, Create, Deliver, SendAnswered, SendFails, At, AckStates
  <1>5. SentWasPublished' /\ StatusMatchesResult'
    BY <1>2 DEF IInv, SentWasPublished, StatusMatchesResult, Create, Deliver, SendAnswered,
       SendFails
  <1> QED
    BY <1>1, <1>3, <1>4, <1>5 DEF IInv

\* A session's row becomes the row.
LEMMA Committing ==
  ASSUME IInv, NEW c \in Requests, RequestCommitted(c) \/ RequestCutOff(c)
  PROVE  IInv'
  <1>1. \/ row' = row
        \/ request[c].at = "closing" /\ row' = [row EXCEPT ![c] = request[c].row]
    BY DEF RequestCommitted, RequestCutOff
  <1>2. /\ request' = [request EXCEPT ![c].at = "done"]
        /\ UNCHANGED <<published, ack, overlapped>>
        /\ request[c].at \in {"sending", "closing"}
    BY DEF RequestCommitted, RequestCutOff
  <1>3. request[c].at = "closing" => request[c].row \in {Sent, NotSent} /\ request[c].row \in Rows
    BY RowsTyped DEF IInv, SessionInv
  <1>4. TypeOK'
    <2>1. /\ row' \in [Requests -> Rows]
          /\ request' \in [Requests -> [at: {"none", "sending", "closing", "done"}, row: Rows]]
      BY <1>1, <1>2, <1>3 DEF IInv, TypeOK
    <2>2. /\ inFlight' \subseteq Requests
          /\ faults' \in 0 .. MaxFaults
          /\ cutOff' \subseteq Requests
          /\ producer' = producer
      BY FaultsAssumption DEF IInv, TypeOK, RequestCommitted, RequestCutOff, Fault
    <2> QED
      BY <1>2, <2>1, <2>2 DEF IInv, TypeOK
  <1>5. SessionInv'
    BY <1>2 DEF IInv, TypeOK, SessionInv, Published
  <1>6. UnseenInv'
    BY <1>1, <1>2 DEF IInv, TypeOK, UnseenInv, AckStates
  <1>7. SentWasPublished' /\ StatusMatchesResult'
    <2>1. /\ Sent.status = "SENT" /\ Sent.result = "none"
          /\ NotSent.status = "FAILED" /\ NotSent.result = "error"
      BY DEF Sent, NotSent, Row
    <2>2. request[c].at = "closing" /\ request[c].row = Sent => c \in Published
      BY DEF IInv, SessionInv
    <2>3. Published' = Published
      BY <1>2 DEF Published
    <2>4. SentWasPublished'
      BY <1>1, <1>3, <2>1, <2>2, <2>3 DEF IInv, TypeOK, SentWasPublished
    <2>5. StatusMatchesResult'
      BY <1>1, <1>2, <1>3, <2>1 DEF IInv, TypeOK, StatusMatchesResult
    <2> QED
      BY <2>4, <2>5
  <1> QED
    BY <1>4, <1>5, <1>6, <1>7 DEF IInv

\* An acknowledgement writes over what it read, or is one of several that overlap.
LEMMA Acknowledging ==
  ASSUME IInv, NEW a \in Acks, AckStep(a)
  PROVE  IInv'
  <1>1. CASE \E c \in Requests, s \in BOOLEAN : AckStarts(a, c, s)
    <2>1. PICK c \in Requests, s \in BOOLEAN : AckStarts(a, c, s)
      BY <1>1
    <2>2. row[c] \in Rows /\ row[c] # Absent /\ request[c].at = "done"
      BY <2>1 DEF IInv, TypeOK, UnseenInv, AckStarts, Visible
    <2>3. ack' = [ack EXCEPT ![a] = AckAt("read", c, s, row[c])]
      BY <2>1 DEF AckStarts, Visible
    <2>4. AckAt("read", c, s, row[c]) \in AckStates
      BY <2>2 DEF AckAt, AckStates
    <2>5. TypeOK'
      BY <2>1, <2>3, <2>4 DEF IInv, TypeOK, AckStarts
    <2>6. UnseenInv'
      BY <2>1, <2>2, <2>3 DEF IInv, TypeOK, UnseenInv, AckStarts, AckAt, AckStates
    <2> QED
      BY <2>1, <2>5, <2>6
         DEF IInv, SessionInv, SentWasPublished, StatusMatchesResult, AckStarts, Published
  <1>2. CASE AckCommitted(a)
    <2> DEFINE c == ack[a].command
    <2> DEFINE new == Updated(row[c], ack[a].read, Outcome(a))
    <2>1. /\ ack[a] \in [at: {"read", "done"}, command: Requests, success: BOOLEAN, read: Rows]
          /\ c \in Requests
          /\ row[c] \in Rows
          /\ request[c].at = "done"
      BY <1>2 DEF IInv, TypeOK, UnseenInv, AckCommitted, AckStates
    <2>2. /\ new \in Rows
          /\ new.status \in {row[c].status, "COMPLETED", "FAILED"}
          /\ row[c] = ack[a].read => new = Outcome(a)
      BY <1>2, <2>1, UpdatedFacts DEF IInv, TypeOK, AckCommitted
    <2>3. /\ row' = [row EXCEPT ![c] = new]
          /\ ack' = [ack EXCEPT ![a].at = "done"]
          /\ overlapped' \in {overlapped, overlapped \cup {c}}
          /\ c \notin overlapped' => row[c] = ack[a].read
          /\ UNCHANGED <<producer, request, inFlight, published, faults, cutOff>>
      BY <1>2 DEF AckCommitted
    <2>4. ack'[a] \in AckStates
      BY <2>1, <2>3 DEF IInv, TypeOK, AckStates
    <2>5. TypeOK'
      BY <2>1, <2>2, <2>3, <2>4 DEF IInv, TypeOK
    <2>6. SessionInv' /\ UnseenInv'
      BY <2>1, <2>3 DEF IInv, TypeOK, SessionInv, UnseenInv, Published, AckStates
    <2>7. SentWasPublished'
      BY <2>2, <2>3 DEF IInv, TypeOK, SentWasPublished, Published
    <2>8. StatusMatchesResult'
      BY <2>1, <2>2, <2>3 DEF IInv, TypeOK, StatusMatchesResult, Outcome, Row
    <2> QED
      BY <2>5, <2>6, <2>7, <2>8 DEF IInv
  <1>3. CASE AckCutOff(a)
    <2>1. ack[a] \in [at: {"read", "done"}, command: Requests, success: BOOLEAN, read: Rows]
      BY <1>3 DEF IInv, TypeOK, AckCutOff, AckStates
    <2>2. TypeOK'
      BY <1>3, <2>1, FaultsAssumption DEF IInv, TypeOK, AckCutOff, AckStates, Fault
    <2> QED
      BY <1>3, <2>2
         DEF IInv, TypeOK, SessionInv, UnseenInv, SentWasPublished, StatusMatchesResult,
             AckCutOff, Published, AckStates
  <1> QED
    BY <1>1, <1>2, <1>3 DEF AckStep

LEMMA NextIInv == IInv /\ [Next]_vars => IInv'
  <1> SUFFICES ASSUME IInv, [Next]_vars PROVE IInv'
    OBVIOUS
  <1>1. CASE \E c \in Requests : RequestStep(c)
    BY <1>1, Sending, Committing DEF RequestStep
  <1>2. CASE \E a \in Acks : AckStep(a)
    BY <1>2, Acknowledging
  <1>3. CASE UNCHANGED vars
    BY <1>3 DEF vars, IInv, TypeOK, SessionInv, UnseenInv, SentWasPublished,
       StatusMatchesResult, Published
  <1> QED
    BY <1>1, <1>2, <1>3 DEF Next

LEMMA InvariantHolds == Spec => []IInv
  <1> QED
    BY InitIInv, NextIInv, PTL DEF Spec

\* The variables keep their types, whatever the sets of requests and acknowledgements.
THEOREM ApiTypeCorrect == Spec => []TypeOK
  <1>1. IInv => TypeOK
    BY DEF IInv
  <1> QED
    BY <1>1, InvariantHolds, PTL

\* A row that says SENT always belongs to a message in Kafka, with any number of
\* requests, failures and acknowledgements; what becomes of the message is not said.
THEOREM SentOnlyIfPublished == Spec => []SentWasPublished
  <1>1. IInv => SentWasPublished
    BY DEF IInv
  <1> QED
    BY <1>1, InvariantHolds, PTL

\* Status and result agree in every row that no two acknowledgements fought over.
THEOREM StatusAndResultAgree == Spec => []StatusMatchesResult
  <1>1. IInv => StatusMatchesResult
    BY DEF IInv
  <1> QED
    BY <1>1, InvariantHolds, PTL

\* The late commit of the request that issued a command never undoes an acknowledgement
\* of it.
THEOREM AcknowledgementsStay == Spec => AcknowledgedStays
  <1>1. ASSUME IInv, [Next]_vars, NEW c \in Requests, row[c].result \in {"success", "failure"}
        PROVE  row'[c].result \in {"success", "failure"}
    <2>1. row[c] # Absent /\ request[c].at = "done"
      BY <1>1 DEF IInv, UnseenInv, Absent, Row
    <2>2. CASE \E d \in Requests : RequestStep(d)
      BY <1>1, <2>1, <2>2 DEF RequestStep, Create, Deliver, SendAnswered, SendFails,
         RequestCommitted, RequestCutOff, IInv, TypeOK
    <2>3. CASE \E a \in Acks : AckStep(a)
      <3>1. PICK a \in Acks : AckStep(a)
        BY <2>3
      <3>2. CASE AckCommitted(a)
        <4> DEFINE new == Updated(row[ack[a].command], ack[a].read, Outcome(a))
        <4>1. row[ack[a].command] \in Rows
          BY <1>1, <3>2 DEF IInv, TypeOK, AckCommitted, AckStates
        <4>2. new.result \in {row[ack[a].command].result, "success", "failure"}
          BY <1>1, <3>2, <4>1, UpdatedFacts DEF IInv, TypeOK, AckCommitted
        <4>3. row' = [row EXCEPT ![ack[a].command] = new]
          BY <3>2 DEF AckCommitted
        <4> QED
          BY <1>1, <4>2, <4>3 DEF IInv, TypeOK
      <3> QED
        BY <1>1, <3>1, <3>2 DEF AckStep, AckStarts, AckCutOff
    <2>4. CASE UNCHANGED vars
      BY <1>1, <2>4 DEF vars
    <2> QED
      BY <1>1, <2>2, <2>3, <2>4 DEF Next
  <1>2. IInv /\ [Next]_vars =>
          [\A c \in Requests :
             row[c].result \in {"success", "failure"} => row'[c].result \in {"success", "failure"}]_vars
    BY <1>1
  <1> QED
    BY <1>2, InvariantHolds, PTL DEF Spec, AcknowledgedStays

-----------------------------------------------------------------------------
(* Ingestion *)

(* A flush *)

\* What a flush waits for before its session is committed, and until it is closed.
Unsaved == {"telemetry", "alert", "heartbeat", "commit"}
Flushes == Unsaved \cup {"close"}

Buffers == {b \in [BufferKinds -> Seq(Messages)] : \A k \in BufferKinds : Len(b[k]) <= N}

Held(b) == UNION {Range(b[k]) : k \in BufferKinds}

\* A flush that waits for w has read item j of the list k.
Passed(w, k, j) ==
  CASE k = "telemetry" -> w.at \in Unsaved
    [] k = "alert"     -> w.at \in {"heartbeat", "commit"} \/ (w.at = "alert" /\ j <= w.index)
    [] k = "heartbeat" -> w.at = "commit" \/ (w.at = "heartbeat" /\ j <= w.index)
    [] k = "writeback" -> w.at = "commit"

\* What it has read is in its session, but for the messages e.
Covers(w, b, e) ==
  \A k \in BufferKinds : \A j \in 1 .. Len(b[k]) : Passed(w, k, j) => b[k][j] \in w.rows \cup e

\* The messages of b that are passed over are among e.
SkippedIn(b, e) == \A m \in Held(b) : Readable(m) \/ m \in e

\* A flush of b that waits for w, with at least the rows r in its session.
Reads(w, b, r, e) ==
  /\ w \in [at: Unsaved, index: 0 .. N, rows: SUBSET Messages]
  /\ Covers(w, b, e)
  /\ r \subseteq w.rows /\ w.rows \subseteq r \cup Held(b)

LEMMA HeldIs ==
  ASSUME NEW b \in Buffers
  PROVE  /\ \A k \in BufferKinds : /\ b[k] \in Seq(Messages) /\ Len(b[k]) \in 0 .. N
                                   /\ Range(b[k]) \subseteq Messages
                                   /\ Range(b[k]) \subseteq Held(b)
                                   /\ \A j \in 1 .. Len(b[k]) : b[k][j] \in Range(b[k])
                                   /\ \A m \in Range(b[k]) : \E j \in 1 .. Len(b[k]) : m = b[k][j]
         /\ Held(b) \subseteq Messages
         /\ \A m \in Held(b) : \E k \in BufferKinds : \E j \in 1 .. Len(b[k]) : m = b[k][j]
  <1>1. ASSUME NEW k \in BufferKinds
        PROVE  /\ b[k] \in Seq(Messages) /\ Len(b[k]) \in 0 .. N
               /\ Range(b[k]) \subseteq Messages
               /\ \A j \in 1 .. Len(b[k]) : b[k][j] \in Range(b[k])
               /\ \A m \in Range(b[k]) : \E j \in 1 .. Len(b[k]) : m = b[k][j]
    <2>1. b[k] \in Seq(Messages) /\ Len(b[k]) <= N /\ Len(b[k]) \in Nat /\ N \in Nat
      BY NAssumption DEF Buffers
    <2>2. DOMAIN b[k] = 1 .. Len(b[k]) /\ \A j \in 1 .. Len(b[k]) : b[k][j] \in Messages
      BY <2>1
    <2> QED
      BY <2>1, <2>2 DEF Range
  <1>2. \A k \in BufferKinds : Range(b[k]) \subseteq Held(b)
    BY DEF Held
  <1>3. \A m \in Held(b) : \E k \in BufferKinds : m \in Range(b[k])
    BY DEF Held
  <1> QED
    BY <1>1, <1>2, <1>3

LEMMA MinIs ==
  ASSUME NEW S \in SUBSET Nat, S # {}
  PROVE  Min(S) \in S /\ \A x \in S : Min(S) <= x
  <1> DEFINE R == OpToRel(<, Nat)
  <1>1. IsWellFoundedOn(R, Nat)
    BY NatLessThanWellFounded
  <1>2. \A x, y \in Nat : x < y => <<x, y>> \in R
    BY DEF OpToRel
  <1> HIDE DEF R
  <1>3. PICK x \in S : \A y \in S : ~(<<y, x>> \in R)
    BY <1>1, WFMin
  <1>4. ASSUME NEW y \in S PROVE x <= y
    <2>1. x \in Nat /\ y \in Nat
      OBVIOUS
    <2>2. ~(y < x)
      BY <1>2, <1>3, <2>1
    <2> QED
      BY <2>1, <2>2
  <1> QED
    BY <1>4 DEF Min

\* The next item of a list that is read is the first one that is not passed over.
LEMMA AheadIs ==
  ASSUME NEW b \in Buffers, NEW k \in BufferKinds, NEW i \in Nat
  PROVE  /\ Ahead(b[k], i) # {} =>
              /\ Min(Ahead(b[k], i)) \in 1 .. Len(b[k])
              /\ \A j \in 1 .. Len(b[k]) :
                   i < j /\ j < Min(Ahead(b[k], i)) => ~Readable(b[k][j])
         /\ Ahead(b[k], i) = {} => \A j \in 1 .. Len(b[k]) : i < j => ~Readable(b[k][j])
  <1>1. Len(b[k]) \in Nat
    BY HeldIs
  <1>2. Ahead(b[k], i) \subseteq 1 .. Len(b[k]) /\ Ahead(b[k], i) \in SUBSET Nat
    BY <1>1 DEF Ahead
  <1>3. \A j \in 1 .. Len(b[k]) : i < j /\ Readable(b[k][j]) => j \in Ahead(b[k], i)
    BY <1>1 DEF Ahead
  <1>4. CASE Ahead(b[k], i) # {}
    <2> PICK n : n = Min(Ahead(b[k], i))
      OBVIOUS
    <2>1. n \in Ahead(b[k], i) /\ \A j \in Ahead(b[k], i) : n <= j
      BY <1>2, <1>4, MinIs
    <2>2. n \in 1 .. Len(b[k]) /\ n \in Nat
      BY <1>1, <1>2, <2>1
    <2>3. \A j \in 1 .. Len(b[k]) : j < n => ~(n <= j)
      BY <1>1, <2>2
    <2> QED
      BY <1>3, <1>4, <2>1, <2>2, <2>3
  <1> QED
    BY <1>3, <1>4

LEMMA WritebacksRead ==
  ASSUME NEW b \in Buffers, NEW e, SkippedIn(b, e), NEW r \in SUBSET Messages,
         \A k \in {"telemetry", "alert", "heartbeat"} : Range(b[k]) \subseteq r \cup e,
         NEW w, w = PersistWritebacks(b, r)
  PROVE  Reads(w, b, r, e)
  <1>1. w = [at |-> "commit", index |-> 0, rows |-> r \cup ReadableIn(b["writeback"])]
    BY DEF PersistWritebacks, WaitAt
  <1>2. \A k \in BufferKinds : Range(b[k]) \subseteq w.rows \cup e
    <2>1. Range(b["writeback"]) \subseteq Held(b)
      BY HeldIs DEF BufferKinds
    <2>2. Range(b["writeback"]) \subseteq w.rows \cup e
      BY <1>1, <2>1 DEF ReadableIn, SkippedIn
    <2> QED
      BY <1>1, <2>2 DEF BufferKinds
  <1>3. Covers(w, b, e)
    BY <1>2, HeldIs DEF Covers
  <1>4. ReadableIn(b["writeback"]) \subseteq Messages /\ ReadableIn(b["writeback"]) \subseteq Held(b)
    BY HeldIs DEF BufferKinds, ReadableIn
  <1>5. 0 \in 0 .. N
    BY NAssumption
  <1> QED
    BY <1>1, <1>3, <1>4, <1>5 DEF Reads, Unsaved

LEMMA HeartbeatsRead ==
  ASSUME NEW b \in Buffers, NEW e, SkippedIn(b, e), NEW r \in SUBSET Messages, NEW i \in Nat,
         \A k \in {"telemetry", "alert"} : Range(b[k]) \subseteq r \cup e,
         \A j \in 1 .. Len(b["heartbeat"]) : j <= i => b["heartbeat"][j] \in r \cup e,
         NEW w, w = PersistHeartbeats(b, i, r)
  PROVE  Reads(w, b, r, e)
  <1>1. "heartbeat" \in BufferKinds
    BY DEF BufferKinds
  <1>2. CASE Ahead(b["heartbeat"], i) # {}
    <2> PICK n : n = Min(Ahead(b["heartbeat"], i))
      OBVIOUS
    <2> DEFINE m == b["heartbeat"][n]
    <2>1. w = [at |-> "heartbeat", index |-> n, rows |-> r \cup {m}]
      BY <1>2 DEF PersistHeartbeats, WaitAt
    <2>2. n \in 1 .. Len(b["heartbeat"]) /\ n \in 0 .. N
      <3>1. Len(b["heartbeat"]) \in 0 .. N /\ N \in Nat
        BY <1>1, HeldIs, NAssumption
      <3>2. n \in 1 .. Len(b["heartbeat"])
        BY <1>1, <1>2, AheadIs
      <3> QED
        BY <3>1, <3>2
    <2>3. m \in Messages /\ m \in Held(b)
      BY <1>1, <2>2, HeldIs
    <2>4. ASSUME NEW k \in BufferKinds, NEW j \in 1 .. Len(b[k]), Passed(w, k, j)
          PROVE  b[k][j] \in w.rows \cup e
      <3>1. CASE k \in {"telemetry", "alert"}
        BY <2>1, <3>1, HeldIs
      <3>2. CASE k = "heartbeat"
        <4>1. j <= n
          BY <2>1, <2>4, <3>2 DEF Passed
        <4>2. j <= i \/ j = n \/ (i < j /\ j < n)
          <5>1. j \in Int /\ n \in Int
            BY <2>2
          <5> QED
            BY <4>1, <5>1
        <4>3. i < j /\ j < n => b[k][j] \in e
          BY <1>1, <1>2, <3>2, AheadIs, HeldIs DEF SkippedIn
        <4> QED
          BY <2>1, <3>2, <4>2, <4>3
      <3>3. CASE k = "writeback"
        BY <2>1, <2>4, <3>3 DEF Passed
      <3> QED
        BY <3>1, <3>2, <3>3 DEF BufferKinds
    <2>5. Covers(w, b, e)
      BY <2>4 DEF Covers
    <2> HIDE DEF m
    <2> QED
      BY <2>1, <2>2, <2>3, <2>5 DEF Reads, Unsaved
  <1>3. CASE Ahead(b["heartbeat"], i) = {}
    <2>1. Range(b["heartbeat"]) \subseteq r \cup e
      <3>1. \A j \in 1 .. Len(b["heartbeat"]) : b["heartbeat"][j] \in r \cup e
        BY <1>1, <1>3, AheadIs, HeldIs DEF SkippedIn
      <3>2. SUFFICES ASSUME NEW m \in Range(b["heartbeat"]) PROVE m \in r \cup e
        OBVIOUS
      <3>3. PICK j \in 1 .. Len(b["heartbeat"]) : m = b["heartbeat"][j]
        BY <1>1, HeldIs
      <3> QED
        BY <3>1, <3>3
    <2>2. w = PersistWritebacks(b, r)
      BY <1>3 DEF PersistHeartbeats
    <2> QED
      BY <2>1, <2>2, WritebacksRead
  <1> QED
    BY <1>2, <1>3

LEMMA AlertsRead ==
  ASSUME NEW b \in Buffers, NEW e, SkippedIn(b, e), NEW r \in SUBSET Messages, NEW i \in Nat,
         Range(b["telemetry"]) \subseteq r \cup e,
         \A j \in 1 .. Len(b["alert"]) : j <= i => b["alert"][j] \in r \cup e,
         NEW w, w = PersistAlerts(b, i, r)
  PROVE  Reads(w, b, r, e)
  <1>1. "alert" \in BufferKinds /\ "heartbeat" \in BufferKinds
    BY DEF BufferKinds
  <1>2. CASE Ahead(b["alert"], i) # {}
    <2> PICK n : n = Min(Ahead(b["alert"], i))
      OBVIOUS
    <2> DEFINE m == b["alert"][n]
    <2>1. w = [at |-> "alert", index |-> n, rows |-> r \cup {m}]
      BY <1>2 DEF PersistAlerts, WaitAt
    <2>2. n \in 1 .. Len(b["alert"]) /\ n \in 0 .. N
      <3>1. Len(b["alert"]) \in 0 .. N /\ N \in Nat
        BY <1>1, HeldIs, NAssumption
      <3>2. n \in 1 .. Len(b["alert"])
        BY <1>1, <1>2, AheadIs
      <3> QED
        BY <3>1, <3>2
    <2>3. m \in Messages /\ m \in Held(b)
      BY <1>1, <2>2, HeldIs
    <2>4. ASSUME NEW k \in BufferKinds, NEW j \in 1 .. Len(b[k]), Passed(w, k, j)
          PROVE  b[k][j] \in w.rows \cup e
      <3>1. CASE k = "telemetry"
        BY <2>1, <3>1, HeldIs
      <3>2. CASE k = "alert"
        <4>1. j <= n
          BY <2>1, <2>4, <3>2 DEF Passed
        <4>2. j <= i \/ j = n \/ (i < j /\ j < n)
          <5>1. j \in Int /\ n \in Int
            BY <2>2
          <5> QED
            BY <4>1, <5>1
        <4>3. i < j /\ j < n => b[k][j] \in e
          BY <1>1, <1>2, <3>2, AheadIs, HeldIs DEF SkippedIn
        <4> QED
          BY <2>1, <3>2, <4>2, <4>3
      <3>3. CASE k = "heartbeat"
        BY <2>1, <2>4, <3>3 DEF Passed
      <3>4. CASE k = "writeback"
        BY <2>1, <2>4, <3>4 DEF Passed
      <3> QED
        BY <3>1, <3>2, <3>3, <3>4 DEF BufferKinds
    <2>5. Covers(w, b, e)
      BY <2>4 DEF Covers
    <2> HIDE DEF m
    <2> QED
      BY <2>1, <2>2, <2>3, <2>5 DEF Reads, Unsaved
  <1>3. CASE Ahead(b["alert"], i) = {}
    <2>1. Range(b["alert"]) \subseteq r \cup e
      <3>1. \A j \in 1 .. Len(b["alert"]) : b["alert"][j] \in r \cup e
        BY <1>1, <1>3, AheadIs, HeldIs DEF SkippedIn
      <3>2. SUFFICES ASSUME NEW m \in Range(b["alert"]) PROVE m \in r \cup e
        OBVIOUS
      <3>3. PICK j \in 1 .. Len(b["alert"]) : m = b["alert"][j]
        BY <1>1, HeldIs
      <3> QED
        BY <3>1, <3>3
    <2>2. w = PersistHeartbeats(b, 0, r)
      BY <1>3 DEF PersistAlerts
    <2>3. \A j \in 1 .. Len(b["heartbeat"]) : j <= 0 => b["heartbeat"][j] \in r \cup e
      BY <1>1, HeldIs
    <2> QED
      BY <2>1, <2>2, <2>3, HeartbeatsRead
  <1> QED
    BY <1>2, <1>3

\* A flush that starts has read what it read, and takes nothing from elsewhere.
LEMMA FlushStarts ==
  ASSUME NEW b \in Buffers, NEW e, SkippedIn(b, e), NEW w, w = StartFlush(b)
  PROVE  Reads(w, b, {}, e)
  <1>1. "alert" \in BufferKinds /\ "telemetry" \in BufferKinds
    BY DEF BufferKinds
  <1>2. CASE ReadableIn(b["telemetry"]) # {}
    <2>1. w = [at |-> "telemetry", index |-> 0, rows |-> ReadableIn(b["telemetry"])]
      BY <1>2 DEF StartFlush, WaitAt
    <2>2. ASSUME NEW k \in BufferKinds, NEW j \in 1 .. Len(b[k]), Passed(w, k, j)
          PROVE  b[k][j] \in w.rows \cup e
      <3>1. w.at = "telemetry"
        BY <2>1
      <3>2. k # "alert" /\ k # "heartbeat" /\ k # "writeback"
        BY <2>2, <3>1 DEF Passed
      <3>3. k = "telemetry"
        BY <3>2 DEF BufferKinds
      <3> QED
        BY <2>1, <3>3, HeldIs DEF ReadableIn, SkippedIn
    <2>3. ReadableIn(b["telemetry"]) \subseteq Messages /\ ReadableIn(b["telemetry"]) \subseteq Held(b)
      BY <1>1, HeldIs DEF ReadableIn
    <2>4. 0 \in 0 .. N
      BY NAssumption
    <2> QED
      BY <2>1, <2>2, <2>3, <2>4 DEF Reads, Covers, Unsaved
  <1>3. CASE ReadableIn(b["telemetry"]) = {}
    <2>1. Range(b["telemetry"]) \subseteq {} \cup e
      BY <1>1, <1>3, HeldIs DEF ReadableIn, SkippedIn
    <2>2. w = PersistAlerts(b, 0, {})
      BY <1>3 DEF StartFlush
    <2>3. \A j \in 1 .. Len(b["alert"]) : j <= 0 => b["alert"][j] \in {} \cup e
      BY <1>1, HeldIs
    <2>4. {} \in SUBSET Messages
      OBVIOUS
    <2> QED
      BY <2>1, <2>2, <2>3, <2>4, AlertsRead
  <1> QED
    BY <1>2, <1>3
-----------------------------------------------------------------------------
(* The buffer and the database *)

\* The lists of the buffer b hold messages up to p of their kinds, in order.
Sorted(b, p) ==
  /\ b \in [BufferKinds -> Seq(Messages)]
  /\ \A k \in BufferKinds : \A j \in 1 .. Len(b[k]) : b[k][j] \in j .. p /\ topic[b[k][j]].list = k

LEMMA SortedIs ==
  ASSUME NEW p \in 0 .. N, NEW b, Sorted(b, p)
  PROVE  /\ b \in Buffers /\ Held(b) \subseteq 1 .. p
         /\ \A m \in Held(b) : \E k \in BufferKinds : m \in Range(b[k]) /\ topic[m].list = k
  <1>1. ASSUME NEW k \in BufferKinds PROVE Len(b[k]) <= N
    <2>1. b[k] \in Seq(Messages) /\ Len(b[k]) \in Nat /\ N \in Nat /\ p \in Nat /\ p <= N
      BY NAssumption DEF Sorted
    <2>2. CASE Len(b[k]) = 0
      BY <2>1, <2>2
    <2>3. CASE Len(b[k]) > 0
      <3>1. Len(b[k]) \in 1 .. Len(b[k])
        BY <2>1, <2>3
      <3>2. b[k][Len(b[k])] \in Len(b[k]) .. p
        BY <3>1 DEF Sorted
      <3> QED
        BY <2>1, <3>2
    <2> QED
      BY <2>1, <2>2, <2>3
  <1>2. b \in Buffers
    BY <1>1 DEF Buffers, Sorted
  <1>3. ASSUME NEW m \in Held(b)
        PROVE  m \in 1 .. p /\ \E k \in BufferKinds : m \in Range(b[k]) /\ topic[m].list = k
    <2>1. PICK k \in BufferKinds : \E j \in 1 .. Len(b[k]) : m = b[k][j]
      BY <1>2, HeldIs
    <2>2. PICK j \in 1 .. Len(b[k]) : m = b[k][j]
      BY <2>1
    <2>3. m \in j .. p /\ topic[m].list = k
      BY <2>2 DEF Sorted
    <2>4. m \in Range(b[k])
      BY <1>2, <2>2, HeldIs
    <2> QED
      BY <2>3, <2>4
  <1> QED
    BY <1>2, <1>3

LEMMA EmptyIs ==
  /\ Empty \in Buffers /\ Held(Empty) = {} /\ Total(Empty) = 0
  /\ \A p : Sorted(Empty, p)
  /\ \A w, e : Covers(w, Empty, e)
  <1>1. \A k \in BufferKinds : Empty[k] = <<>>
    BY DEF Empty
  <1>2. Len(<<>>) = 0 /\ <<>> \in Seq(Messages) /\ Range(<<>>) = {}
    BY DEF Range
  <1>3. Empty \in [BufferKinds -> Seq(Messages)]
    BY <1>2 DEF Empty
  <1>4. \A k \in BufferKinds : Len(Empty[k]) = 0
    BY <1>1, <1>2
  <1>5. Total(Empty) = 0
    <2>1. /\ Len(Empty["telemetry"]) = 0 /\ Len(Empty["alert"]) = 0
          /\ Len(Empty["heartbeat"]) = 0 /\ Len(Empty["writeback"]) = 0
      BY <1>4 DEF BufferKinds
    <2> QED
      BY <2>1 DEF Total
  <1>6. Held(Empty) = {}
    BY <1>1, <1>2 DEF Held
  <1> QED
    BY <1>3, <1>4, <1>5, <1>6, NAssumption DEF Buffers, Sorted, Covers

LEMMA AppendedIs ==
  ASSUME NEW S, NEW s \in Seq(S), NEW e \in S
  PROVE  /\ Append(s, e) \in Seq(S) /\ Len(s) \in Nat /\ Len(Append(s, e)) = Len(s) + 1
         /\ \A i \in 1 .. Len(s) : Append(s, e)[i] = s[i]
         /\ Append(s, e)[Len(s) + 1] = e
         /\ \A i \in 1 .. Len(s) + 1 : i \in 1 .. Len(s) \/ i = Len(s) + 1
  OBVIOUS

\* The next message joins the list of its kind, if it is not malformed.
LEMMA RoutedIs ==
  ASSUME topic \in Seq(Kinds), Len(topic) <= N, position \in 0 .. Len(topic),
         Sorted(buffer, position),
         NEW m, m = position + 1, m <= Len(topic)
  PROVE  /\ m \in Messages
         /\ Sorted(Routed(m), m)
         /\ Held(Routed(m)) \subseteq Held(buffer) \cup {m}
         /\ Held(buffer) \subseteq Held(Routed(m))
         /\ topic[m] # Malformed => m \in Held(Routed(m))
         /\ \A w, e : m \in e /\ Covers(w, buffer, e) => Covers(w, Routed(m), e)
  <1>1. /\ N \in Nat /\ position \in Nat /\ Len(topic) \in Nat /\ m \in Messages
        /\ m \in 1 .. Len(topic) /\ position \in 0 .. N /\ m \in 0 .. N
    BY NAssumption DEF Messages
  <1>2. buffer \in Buffers
    BY <1>1, SortedIs
  <1>3. CASE topic[m] = Malformed
    <2>1. Routed(m) = buffer
      BY <1>3 DEF Routed
    <2>2. Sorted(buffer, m)
      <3>1. position .. m \subseteq Nat /\ \A j \in Nat : j .. position \subseteq j .. m
        BY <1>1
      <3> QED
        BY <3>1, <1>1 DEF Sorted
    <2> QED
      BY <1>1, <1>3, <2>1, <2>2
  <1>4. CASE topic[m] # Malformed
    <2> DEFINE k == topic[m].list
               b == Routed(m)
    <2>1. k \in BufferKinds
      BY <1>1, <1>4, KindsAssumption
    <2>2. b = [buffer EXCEPT ![k] = Append(@, m)]
      BY <1>4 DEF Routed
    <2>3. buffer[k] \in Seq(Messages) /\ buffer \in [BufferKinds -> Seq(Messages)]
      BY <2>1 DEF Sorted
    <2> HIDE DEF k, b
    <2>4. /\ Append(buffer[k], m) \in Seq(Messages) /\ Len(buffer[k]) \in Nat
          /\ Len(Append(buffer[k], m)) = Len(buffer[k]) + 1
          /\ \A i \in 1 .. Len(buffer[k]) : Append(buffer[k], m)[i] = buffer[k][i]
          /\ Append(buffer[k], m)[Len(buffer[k]) + 1] = m
          /\ \A i \in 1 .. Len(buffer[k]) + 1 : i \in 1 .. Len(buffer[k]) \/ i = Len(buffer[k]) + 1
      <3> PICK s : s = buffer[k]
        OBVIOUS
      <3>1. s \in Seq(Messages)
        BY <2>3
      <3> QED
        BY <1>1, <3>1, AppendedIs
    <2>5. /\ b \in [BufferKinds -> Seq(Messages)]
          /\ b[k] = Append(buffer[k], m)
          /\ \A l \in BufferKinds : l # k => b[l] = buffer[l]
      BY <2>1, <2>2, <2>3, <2>4
    <2>6. Len(buffer[k]) + 1 <= m
      <3>1. CASE Len(buffer[k]) = 0
        BY <1>1, <3>1
      <3>2. CASE Len(buffer[k]) > 0
        <4>1. Len(buffer[k]) \in 1 .. Len(buffer[k])
          BY <2>4, <3>2
        <4>2. buffer[k][Len(buffer[k])] \in Len(buffer[k]) .. position
          BY <2>1, <4>1 DEF Sorted
        <4> QED
          BY <1>1, <2>4, <4>2
      <3> QED
        BY <2>4, <3>1, <3>2
    <2>7. ASSUME NEW l \in BufferKinds, NEW j \in 1 .. Len(b[l])
          PROVE  \/ j \in 1 .. Len(buffer[l]) /\ b[l][j] = buffer[l][j]
                 \/ l = k /\ j = Len(buffer[k]) + 1 /\ b[l][j] = m
      <3>1. CASE l = k
        BY <2>4, <2>5, <3>1
      <3>2. CASE l # k
        BY <2>5, <3>2
      <3> QED
        BY <3>1, <3>2
    <2>8. Sorted(b, m)
      <3> SUFFICES ASSUME NEW l \in BufferKinds, NEW j \in 1 .. Len(b[l])
                   PROVE  b[l][j] \in j .. m /\ topic[b[l][j]].list = l
        BY <2>5 DEF Sorted
      <3>1. CASE j \in 1 .. Len(buffer[l]) /\ b[l][j] = buffer[l][j]
        <4>1. buffer[l][j] \in j .. position /\ topic[buffer[l][j]].list = l
          BY <3>1 DEF Sorted
        <4> QED
          BY <1>1, <3>1, <4>1
      <3>2. CASE l = k /\ j = Len(buffer[k]) + 1 /\ b[l][j] = m
        BY <1>1, <2>6, <3>2 DEF k
      <3> QED
        BY <2>7, <3>1, <3>2
    <2>9. b \in Buffers
      BY <1>1, <2>8, SortedIs
    <2>10. Held(b) \subseteq Held(buffer) \cup {m}
      <3> SUFFICES ASSUME NEW x \in Held(b), x # m PROVE x \in Held(buffer)
        OBVIOUS
      <3>1. PICK l \in BufferKinds : \E j \in 1 .. Len(b[l]) : x = b[l][j]
        BY <2>9, HeldIs
      <3>2. PICK j \in 1 .. Len(b[l]) : x = b[l][j]
        BY <3>1
      <3>3. j \in 1 .. Len(buffer[l]) /\ x = buffer[l][j]
        BY <2>7, <3>2
      <3> QED
        BY <1>2, <3>3, HeldIs
    <2>11. Held(buffer) \subseteq Held(b)
      <3> SUFFICES ASSUME NEW x \in Held(buffer) PROVE x \in Held(b)
        OBVIOUS
      <3>1. PICK l \in BufferKinds : \E j \in 1 .. Len(buffer[l]) : x = buffer[l][j]
        BY <1>2, HeldIs
      <3>2. PICK j \in 1 .. Len(buffer[l]) : x = buffer[l][j]
        BY <3>1
      <3>3. j \in 1 .. Len(b[l]) /\ b[l][j] = x
        <4>1. CASE l = k
          BY <2>4, <2>5, <3>2, <4>1
        <4>2. CASE l # k
          BY <2>5, <3>2, <4>2
        <4> QED
          BY <4>1, <4>2
      <3> QED
        BY <2>9, <3>3, HeldIs
    <2>12. m \in Held(b)
      <3>1. Len(buffer[k]) + 1 \in 1 .. Len(b[k]) /\ b[k][Len(buffer[k]) + 1] = m
        BY <2>4, <2>5
      <3> QED
        BY <2>1, <2>9, <3>1, HeldIs
    <2>13. ASSUME NEW w, NEW e, m \in e, Covers(w, buffer, e) PROVE Covers(w, b, e)
      <3> SUFFICES ASSUME NEW l \in BufferKinds, NEW j \in 1 .. Len(b[l]), Passed(w, l, j)
                   PROVE  b[l][j] \in w.rows \cup e
        BY DEF Covers
      <3> QED
        BY <2>7, <2>13 DEF Covers
    <2> QED
      BY <1>1, <2>8, <2>10, <2>11, <2>12, <2>13 DEF b
  <1> QED
    BY <1>3, <1>4

\* Rows are only added, one to each message of the transactions that are done.
LEMMA StoredByIs ==
  ASSUME NEW T \in SUBSET Tasks, stored \in [Messages -> 0 .. 2]
  PROVE  /\ StoredBy(T) \in [Messages -> 0 .. 2]
         /\ \A m \in Messages : stored[m] > 0 => StoredBy(T)[m] > 0
         /\ \A t \in T : \A m \in Messages : m \in task[t].rows => StoredBy(T)[m] > 0
         /\ \A m \in Messages : (\A t \in T : m \notin task[t].rows) => StoredBy(T)[m] = stored[m]
         /\ \A t \in Tasks, m \in Messages : T = {t} /\ stored[m] = 0 => StoredBy(T)[m] <= 1
  <1>1. IsFiniteSet(Tasks)
    <2>1. IsFiniteSet({"consume"})
      BY FS_Singleton
    <2>2. IsFiniteSet({"consume"} \cup {"timer"})
      BY <2>1, FS_AddElement
    <2>3. IsFiniteSet(({"consume"} \cup {"timer"}) \cup {"stop"})
      BY <2>2, FS_AddElement
    <2>4. Tasks = ({"consume"} \cup {"timer"}) \cup {"stop"}
      BY DEF Tasks
    <2> QED
      BY <2>3, <2>4
  <1> DEFINE W(m) == {t \in T : m \in task[t].rows}
  <1>2. ASSUME NEW m \in Messages
        PROVE  /\ Cardinality(W(m)) \in Nat
               /\ W(m) = {} => Cardinality(W(m)) = 0
               /\ W(m) # {} => Cardinality(W(m)) > 0
               /\ \A t \in Tasks : T = {t} => Cardinality(W(m)) <= 1
    <2>1. IsFiniteSet(W(m))
      BY <1>1, FS_Subset
    <2>2. Cardinality(W(m)) \in Nat
      BY <2>1, FS_CardinalityType
    <2>3. Cardinality(W(m)) = 0 <=> W(m) = {}
      BY <2>1, FS_EmptySet
    <2>4. ASSUME NEW t \in Tasks, T = {t} PROVE Cardinality(W(m)) <= 1
      <3>1. W(m) = {} \/ W(m) = {t}
        BY <2>4
      <3>2. Cardinality({t}) = 1
        BY FS_Singleton
      <3>3. CASE W(m) = {}
        BY <2>3, <3>3
      <3>4. CASE W(m) = {t}
        <4>1. Cardinality(W(m)) = Cardinality({t})
          BY <3>4
        <4> QED
          BY <3>2, <4>1
      <3> QED
        BY <3>1, <3>3, <3>4
    <2> QED
      BY <2>2, <2>3, <2>4
  <1>3. ASSUME NEW m \in Messages PROVE StoredBy(T)[m] = Several(stored[m] + Cardinality(W(m)))
    BY DEF StoredBy
  <1>4. \A m \in Messages : stored[m] \in 0 .. 2
    OBVIOUS
  <1>5. ASSUME NEW m \in Messages
        PROVE  /\ StoredBy(T)[m] \in 0 .. 2
               /\ stored[m] > 0 => StoredBy(T)[m] > 0
               /\ W(m) # {} => StoredBy(T)[m] > 0
               /\ W(m) = {} => StoredBy(T)[m] = stored[m]
               /\ \A t \in Tasks : T = {t} /\ stored[m] = 0 => StoredBy(T)[m] <= 1
    <2> PICK c : c = Cardinality(W(m))
      OBVIOUS
    <2>1. /\ c \in Nat /\ stored[m] \in 0 .. 2 /\ StoredBy(T)[m] = Several(stored[m] + c)
          /\ W(m) = {} => c = 0
          /\ W(m) # {} => c > 0
          /\ \A t \in Tasks : T = {t} => c <= 1
      BY <1>2, <1>3, <1>4
    <2> HIDE DEF W
    <2> QED
      BY <2>1 DEF Several
  <1>6. StoredBy(T) = [m \in Messages |-> StoredBy(T)[m]]
    BY DEF StoredBy
  <1>7. StoredBy(T) \in [Messages -> 0 .. 2]
    <2> HIDE DEF W
    <2>1. \A m \in Messages : StoredBy(T)[m] \in 0 .. 2
      BY <1>5
    <2> QED
      BY <2>1, <1>6, Zenon
  <1>8. ASSUME NEW t \in T, NEW m \in Messages, m \in task[t].rows PROVE W(m) # {}
    BY <1>8
  <1>9. ASSUME NEW m \in Messages, \A t \in T : m \notin task[t].rows PROVE W(m) = {}
    BY <1>9
  <1> HIDE DEF W
  <1> QED
    BY <1>5, <1>7, <1>8, <1>9
-----------------------------------------------------------------------------
(* The inductive invariant of the ingestion *)

MessagesInv ==
  /\ topic \in Seq(Kinds) /\ Len(topic) <= N
  /\ committed \in {NoOffset} \cup 0 .. Len(topic)
  /\ position \in 0 .. Len(topic)
  /\ Sorted(buffer, position)
  /\ stored \in [Messages -> 0 .. 2]
  /\ failures \in 0 .. MaxFailures
  /\ restarts \in 0 .. MaxRestarts
  /\ exposed \subseteq Messages
  /\ disturbed \in BOOLEAN

\* Both loops run, or the last flush does, or nothing.
Looping ==
  /\ task["consume"].at \in Flushes \cup {"poll", "offsets"}
  /\ task["timer"].at \in Flushes \cup {"sleep", "offsets"}
  /\ task["stop"].at = "idle"

\* The last flush has only what is in the buffer: nobody else empties it.
Ending ==
  /\ task["consume"].at \in {"draining", "ending", "exiting"}
  /\ task["timer"].at = "stopped"
  /\ task["stop"].at \in Flushes
  /\ task["stop"].rows \subseteq Buffered

TaskInv ==
  /\ task \in [Tasks -> [at: Waits, index: 0 .. N, rows: SUBSET Messages]]
  /\ \A t \in Tasks :
       /\ task[t].at = "offsets" => task[t].index <= Len(topic)
       /\ task[t].rows # {} => task[t].at \in Unsaved
       /\ task[t].rows \subseteq 1 .. position
  /\ Looping \/ Ending \/ task = AllStopped

\* Messages that a flush may leave out.
Excused == exposed \cup {m \in 1 .. Len(topic) : ~Readable(m)}

Kept == Stored \cup Excused
KeptUpTo(n) == \A m \in WellFormed : m <= n => m \in Kept

\* What was read is accounted for while there is a buffer; what is committed or
\* about to be, without it; and a flush has read what it passed.
AccountInv ==
  /\ task # AllStopped => \A m \in WellFormed : m <= position => m \in Kept \cup Buffered
  /\ KeptUpTo(committed)
  /\ \A t \in Tasks :
       /\ task[t].at = "offsets" => KeptUpTo(task[t].index)
       /\ task[t].at \in Unsaved => Covers(task[t], buffer, Excused)
       /\ task[t].at = "close" => Buffered \subseteq Kept

\* Undisturbed, one task flushes at a time, and what is in its session or, until
\* the commit, in the buffer was not written before.
OnceInv ==
  ~disturbed =>
    /\ task["stop"].at = "idle"
    /\ \A t, u \in Tasks : Flushing(t) /\ Flushing(u) => t = u
    /\ \A m \in Messages : stored[m] <= 1 /\ (m > position => stored[m] = 0)
    /\ \A t \in Tasks : \A m \in task[t].rows : stored[m] = 0
    /\ (\A t \in Tasks : task[t].at # "close") => \A m \in Buffered : stored[m] = 0

IngestInv == MessagesInv /\ TaskInv /\ AccountInv /\ DrainedWhenStopped /\ OnceInv

-----------------------------------------------------------------------------

LEMMA BufferedIs == Buffered = Held(buffer)
  BY DEF Buffered, Held

LEMMA TasksAre == Tasks = {"consume", "timer", "stop"}
  BY DEF Tasks

LEMMA WaitIs ==
  ASSUME NEW where
  PROVE  Wait(where).at = where /\ Wait(where).index = 0 /\ Wait(where).rows = {}
  BY DEF Wait, WaitAt

LEMMA WaitTyped ==
  ASSUME NEW where \in Waits
  PROVE  Wait(where) \in [at: Waits, index: 0 .. N, rows: SUBSET Messages]
  BY NAssumption DEF Wait, WaitAt

LEMMA WaitsAre ==
  /\ Flushes \cup {"poll", "sleep", "idle", "offsets", "draining", "ending", "exiting", "stopped"}
       \subseteq Waits
  /\ Unsaved \subseteq Flushes
  BY DEF Waits, Flushes, Unsaved, BufferKinds

LEMMA StoppedIs ==
  /\ \A t \in Tasks : AllStopped[t] = Wait("stopped")
  /\ AllStopped \in [Tasks -> [at: Waits, index: 0 .. N, rows: SUBSET Messages]]
  /\ task = AllStopped => ~Looping /\ ~Ending
  <1>1. \A t \in Tasks : AllStopped[t] = Wait("stopped")
    BY DEF AllStopped
  <1>2. AllStopped \in [Tasks -> [at: Waits, index: 0 .. N, rows: SUBSET Messages]]
    BY WaitTyped, WaitsAre DEF AllStopped
  <1>3. task = AllStopped => task["stop"].at = "stopped"
    BY <1>1, WaitIs, TasksAre
  <1> QED
    BY <1>1, <1>2, <1>3 DEF Looping, Ending, Flushes, Unsaved

LEMMA StartedIs ==
  /\ Started \in [Tasks -> [at: Waits, index: 0 .. N, rows: SUBSET Messages]]
  /\ Started["consume"] = Wait("poll") /\ Started["timer"] = Wait("sleep")
  /\ Started["stop"] = Wait("idle")
  <1>1. /\ Started["consume"] = Wait("poll") /\ Started["timer"] = Wait("sleep")
        /\ Started["stop"] = Wait("idle")
    BY TasksAre DEF Started
  <1> DEFINE start(t) ==
               CASE t = "consume" -> "poll" [] t = "timer" -> "sleep" [] t = "stop" -> "idle"
  <1>2. \A t \in Tasks : start(t) \in Waits
    BY WaitsAre, TasksAre
  <1>3. Started = [t \in Tasks |-> Wait(start(t))]
    BY DEF Started
  <1> HIDE DEF start
  <1>4. Started \in [Tasks -> [at: Waits, index: 0 .. N, rows: SUBSET Messages]]
    BY <1>2, <1>3, WaitTyped
  <1> QED
    BY <1>1, <1>4

\* A task waits for something new, the others as before.
LEMMA OneTask ==
  ASSUME task \in [Tasks -> [at: Waits, index: 0 .. N, rows: SUBSET Messages]],
         NEW t \in Tasks, NEW w \in [at: Waits, index: 0 .. N, rows: SUBSET Messages],
         task' = [task EXCEPT ![t] = w]
  PROVE  /\ task' \in [Tasks -> [at: Waits, index: 0 .. N, rows: SUBSET Messages]]
         /\ task'[t] = w /\ \A u \in Tasks : u # t => task'[u] = task[u]
  OBVIOUS

LEMMA StartIngest == IngestInit => IngestInv
  <1> SUFFICES ASSUME IngestInit PROVE IngestInv
    OBVIOUS
  <1> USE NAssumption
  <1>1. /\ topic = <<>> /\ committed = NoOffset /\ position = 0 /\ buffer = Empty
        /\ task = Started /\ stored = [m \in Messages |-> 0]
        /\ failures = 0 /\ restarts = 0 /\ exposed = {} /\ disturbed = FALSE
    BY DEF IngestInit
  <1>2. Len(topic) = 0 /\ topic \in Seq(Kinds)
    BY <1>1
  <1>3. MessagesInv
    <2>1. 0 \in 0 .. MaxFailures /\ 0 \in 0 .. MaxRestarts
      BY BoundsAssumption
    <2>2. stored \in [Messages -> 0 .. 2]
      BY <1>1
    <2>3. Sorted(buffer, position)
      BY <1>1, EmptyIs
    <2>4. Len(topic) <= N /\ position \in 0 .. Len(topic) /\ committed = NoOffset
      <3>1. position = 0 /\ committed = NoOffset
        BY <1>1
      <3> QED
        BY <1>2, <3>1
    <2>5. /\ failures \in 0 .. MaxFailures /\ restarts \in 0 .. MaxRestarts
          /\ exposed \subseteq Messages /\ disturbed \in BOOLEAN
      BY <1>1, <2>1
    <2> QED
      BY <1>2, <2>2, <2>3, <2>4, <2>5 DEF MessagesInv
  <1>4. \A t \in Tasks : task[t].at \in {"poll", "sleep", "idle"} /\ task[t].rows = {}
    BY <1>1, StartedIs, WaitIs, TasksAre
  <1>5. Looping
    BY <1>1, StartedIs, WaitIs DEF Looping
  <1>6. TaskInv
    BY <1>1, <1>4, <1>5, StartedIs DEF TaskInv
  <1>7. WellFormed = {}
    BY <1>2 DEF WellFormed
  <1>8. AccountInv
    BY <1>4, <1>7 DEF AccountInv, KeptUpTo, Unsaved
  <1>9. DrainedWhenStopped
    BY <1>1, EmptyIs DEF DrainedWhenStopped
  <1>10. OnceInv
    <2>1. Buffered = {}
      BY <1>1, BufferedIs, EmptyIs
    <2>2. \A t \in Tasks : ~Flushing(t)
      BY <1>4 DEF Flushing, BufferKinds
    <2>3. task["stop"].at = "idle"
      BY <1>5 DEF Looping
    <2> QED
      BY <1>1, <1>4, <2>1, <2>2, <2>3 DEF OnceInv
  <1> QED
    BY <1>3, <1>6, <1>8, <1>9, <1>10 DEF IngestInv

\* What is kept stays so.
LEMMA KeptStays ==
  ASSUME Stored \subseteq Stored', exposed \subseteq exposed', topic' = topic
  PROVE  /\ Excused \subseteq Excused' /\ Kept \subseteq Kept' /\ WellFormed' = WellFormed
         /\ \A n : KeptUpTo(n) => \A m \in WellFormed' : m <= n => m \in Kept'
  <1>1. Excused \subseteq Excused' /\ WellFormed' = WellFormed
    BY DEF Excused, WellFormed, Readable
  <1>2. Kept \subseteq Kept'
    BY <1>1 DEF Kept
  <1> QED
    BY <1>1, <1>2 DEF KeptUpTo

LEMMA BufferIs ==
  ASSUME MessagesInv
  PROVE  /\ position \in 0 .. N /\ Len(topic) \in Nat /\ position <= Len(topic)
         /\ buffer \in Buffers /\ Buffered = Held(buffer)
         /\ Buffered \subseteq 1 .. position /\ Buffered \subseteq Messages
  <1>1. position \in 0 .. N /\ Len(topic) \in Nat /\ position <= Len(topic)
    BY NAssumption DEF MessagesInv
  <1>2. buffer \in Buffers /\ Held(buffer) \subseteq 1 .. position
    BY <1>1, SortedIs DEF MessagesInv
  <1> QED
    BY <1>1, <1>2, BufferedIs, HeldIs

LEMMA CoversMore ==
  ASSUME NEW w, NEW b, NEW e, NEW f, e \subseteq f, Covers(w, b, e)
  PROVE  Covers(w, b, f)
  BY DEF Covers

LEMMA ProduceKeeps ==
  ASSUME IngestInv, NEW k \in Kinds, Produce(k)
  PROVE  IngestInv'
  <1> USE NAssumption
  <1>1. /\ Len(topic) < N /\ topic' = Append(topic, k)
        /\ UNCHANGED <<committed, position, buffer, task, stored, failures, restarts, exposed,
                       disturbed>>
    BY DEF Produce
  <1>2. topic \in Seq(Kinds) /\ Len(topic) \in Nat
    BY DEF IngestInv, MessagesInv
  <1>3. /\ topic' \in Seq(Kinds) /\ Len(topic') = Len(topic) + 1
        /\ \A i \in 1 .. Len(topic) : topic'[i] = topic[i]
    BY <1>1, <1>2, AppendedIs
  <1>4. position \in 0 .. Len(topic) /\ committed \in {NoOffset} \cup 0 .. Len(topic)
    BY DEF IngestInv, MessagesInv
  <1>5. Sorted(buffer, position)'
    <2>1. Sorted(buffer, position) /\ position \in 0 .. Len(topic)
      BY DEF IngestInv, MessagesInv
    <2>2. ASSUME NEW l \in BufferKinds, NEW j \in 1 .. Len(buffer[l])
          PROVE  buffer[l][j] \in j .. position /\ topic'[buffer[l][j]].list = l
      <3>1. buffer[l][j] \in j .. position /\ topic[buffer[l][j]].list = l
        BY <2>1 DEF Sorted
      <3>2. buffer[l][j] \in 1 .. Len(topic)
        BY <1>2, <2>1, <3>1
      <3> QED
        BY <1>3, <3>1, <3>2
    <2> QED
      BY <1>1, <2>1, <2>2 DEF Sorted
  <1>6. MessagesInv'
    BY <1>1, <1>2, <1>3, <1>4, <1>5 DEF IngestInv, MessagesInv, NoOffset
  <1>7. /\ Buffered' = Buffered /\ Excused \subseteq Excused' /\ Kept \subseteq Kept'
        /\ \A m \in 1 .. Len(topic) : topic'[m] = topic[m]
    <2>1. Excused \subseteq Excused'
      BY <1>1, <1>2, <1>3 DEF Excused, Readable
    <2> QED
      BY <1>1, <1>3, <2>1 DEF Buffered, Kept, Stored
  <1>8. TaskInv'
    <2>1. \A t \in Tasks : task[t].index \in Nat
      BY DEF IngestInv, TaskInv
    <2>2. Looping' <=> Looping
      BY <1>1 DEF Looping
    <2>3. Ending' <=> Ending
      BY <1>1, <1>7 DEF Ending
    <2> QED
      BY <1>1, <1>2, <1>3, <2>1, <2>2, <2>3 DEF IngestInv, TaskInv
  <1>9. AccountInv'
    <2>1. ASSUME NEW n \in Int, n <= Len(topic), NEW m \in WellFormed', m <= n
          PROVE  m \in WellFormed
      BY <1>2, <1>3, <2>1 DEF WellFormed, Readable
    <2>2. \A t \in Tasks : task[t].at = "offsets" => task[t].index \in Int /\ task[t].index <= Len(topic)
      BY DEF IngestInv, TaskInv
    <2>3. committed \in Int /\ committed <= Len(topic) /\ position \in Int /\ position <= Len(topic)
      BY <1>2, <1>4 DEF NoOffset
    <2>4. task # AllStopped => \A m \in WellFormed' : m <= position => m \in Kept \cup Buffered
      BY <2>1, <2>3 DEF IngestInv, AccountInv
    <2>5. \A m \in WellFormed' : m <= committed => m \in Kept
      BY <2>1, <2>3 DEF IngestInv, AccountInv, KeptUpTo
    <2>6. ASSUME NEW t \in Tasks, task[t].at = "offsets", NEW m \in WellFormed', m <= task[t].index
          PROVE  m \in Kept
      BY <2>1, <2>2, <2>6 DEF IngestInv, AccountInv, KeptUpTo
    <2>7. ASSUME NEW t \in Tasks, task[t].at \in Unsaved PROVE Covers(task[t], buffer, Excused')
      BY <1>7, <2>7, CoversMore DEF IngestInv, AccountInv
    <2>8. ASSUME NEW t \in Tasks, task[t].at = "close" PROVE Buffered \subseteq Kept'
      BY <1>7, <2>8 DEF IngestInv, AccountInv
    <2> QED
      BY <1>1, <1>7, <2>4, <2>5, <2>6, <2>7, <2>8 DEF AccountInv, KeptUpTo, AllStopped, Wait, WaitAt
  <1>10. DrainedWhenStopped'
    <2>1. Buffered \subseteq 1 .. Len(topic)
      BY <1>2, <1>4, BufferIs DEF IngestInv
    <2>2. Blocked => Blocked'
      BY <1>7, <2>1 DEF Blocked
    <2> QED
      BY <1>1, <2>2 DEF IngestInv, DrainedWhenStopped, AllStopped, Wait, WaitAt, Total
  <1>11. OnceInv'
    BY <1>1, <1>7 DEF IngestInv, OnceInv, Flushing
  <1> QED
    BY <1>6, <1>8, <1>9, <1>10, <1>11 DEF IngestInv

LEMMA SkippedIs ==
  ASSUME MessagesInv
  PROVE  SkippedIn(buffer, Excused)
  BY BufferIs DEF SkippedIn, Excused

LEMMA NotStopped ==
  ASSUME NEW f, NEW t \in Tasks, f[t].at # "stopped"
  PROVE  f # AllStopped
  BY StoppedIs, WaitIs

\* Where a task is says whether the loops run or the last flush does.
LEMMA TaskIs ==
  ASSUME TaskInv
  PROVE  /\ \A t \in Tasks : Flushing(t) <=> task[t].at \in Flushes
         /\ task["consume"].at \in Flushes \cup {"poll", "offsets"} => Looping
         /\ task["timer"].at \in Flushes \cup {"sleep", "offsets"} => Looping
         /\ task["stop"].at \in Flushes => Ending
         /\ task["stop"].at # "offsets"
         /\ \A t \in Tasks : task[t].at # "writeback"
         /\ Looping => ~Ending /\ task # AllStopped
  <1>1. \/ Looping
        \/ Ending
        \/ task["consume"].at = "stopped" /\ task["timer"].at = "stopped" /\ task["stop"].at = "stopped"
    BY StoppedIs, WaitIs, TasksAre DEF TaskInv
  <1>2. Flushes = {"telemetry", "alert", "heartbeat", "commit", "close"}
    BY DEF Flushes, Unsaved
  <1>3. \A t \in Tasks : task[t].at # "writeback"
    BY <1>1, <1>2, TasksAre DEF Looping, Ending
  <1>4. \A t \in Tasks : Flushing(t) <=> task[t].at \in Flushes
    BY <1>2, <1>3 DEF Flushing, BufferKinds
  <1>5. /\ task["consume"].at \in Flushes \cup {"poll", "offsets"} => Looping
        /\ task["timer"].at \in Flushes \cup {"sleep", "offsets"} => Looping
    BY <1>1, <1>2 DEF Looping, Ending
  <1>6. /\ task["stop"].at \in Flushes => Ending
        /\ task["stop"].at # "offsets"
    BY <1>1, <1>2 DEF Looping, Ending
  <1>7. Looping => ~Ending /\ task # AllStopped
    BY <1>2, StoppedIs DEF Looping, Ending
  <1> QED
    BY <1>3, <1>4, <1>5, <1>6, <1>7

LEMMA ReadsIs ==
  ASSUME NEW w, NEW b, NEW r, NEW e, Reads(w, b, r, e)
  PROVE  /\ w \in [at: Waits, index: 0 .. N, rows: SUBSET Messages]
         /\ w.at \in Unsaved /\ w.at \in Flushes /\ w.at # "offsets" /\ w.at # "close"
         /\ w.at # "idle" /\ w.at # "stopped"
  <1>1. w \in [at: Unsaved, index: 0 .. N, rows: SUBSET Messages]
    BY DEF Reads
  <1>2. Unsaved \subseteq Waits
    BY WaitsAre
  <1> QED
    BY <1>1, <1>2 DEF Flushes, Unsaved

LEMMA RouteKeeps ==
  ASSUME IngestInv, Route
  PROVE  IngestInv'
  <1> USE NAssumption
  <1> PICK m : m = position + 1
    OBVIOUS
  <1>1. /\ task["consume"].at = "poll" /\ m <= Len(topic)
        /\ position' = m /\ buffer' = Routed(m)
        /\ exposed' = IF Flushing("timer") THEN exposed \cup {m} ELSE exposed
        /\ UNCHANGED <<topic, committed, stored, failures, restarts>>
    BY DEF Route
  <1>2. \/ /\ task' = [task EXCEPT !["consume"] = StartFlush(buffer')]
           /\ disturbed' = (disturbed \/ Flushing("timer"))
        \/ UNCHANGED <<task, disturbed>>
    BY DEF Route
  <1>3. MessagesInv /\ TaskInv /\ AccountInv /\ OnceInv /\ Looping
    BY <1>1, TaskIs DEF IngestInv
  <1>4. /\ position \in 0 .. N /\ Len(topic) \in Nat /\ position <= Len(topic) /\ Len(topic) <= N
        /\ m \in 0 .. N /\ m \in 0 .. Len(topic)
    BY <1>1, <1>3, BufferIs DEF MessagesInv
  <1>5. /\ m \in Messages
        /\ Sorted(buffer', m)
        /\ Held(buffer') \subseteq Held(buffer) \cup {m}
        /\ Held(buffer) \subseteq Held(buffer')
        /\ topic[m] # Malformed => m \in Held(buffer')
        /\ \A w, e : m \in e /\ Covers(w, buffer, e) => Covers(w, buffer', e)
    BY <1>1, <1>3, RoutedIs DEF MessagesInv
  <1>6. buffer' \in Buffers /\ Held(buffer') \subseteq 1 .. m
    BY <1>4, <1>5, SortedIs
  <1>7. /\ Buffered = Held(buffer) /\ Buffered' = Held(buffer')
        /\ Buffered \subseteq Messages
    BY <1>3, BufferIs, BufferedIs DEF Buffered, Held
  <1>8. MessagesInv'
    BY <1>1, <1>2, <1>3, <1>4, <1>5 DEF MessagesInv, Sorted
  <1> DEFINE w == StartFlush(buffer')
  <1>9. Reads(w, buffer', {}, Excused')
    <2>1. SkippedIn(buffer', Excused')
      BY <1>1, <1>4, <1>6 DEF SkippedIn, Excused, Readable
    <2> QED
      BY <1>6, <2>1, FlushStarts
  <1>10. /\ w \in [at: Waits, index: 0 .. N, rows: SUBSET Messages]
         /\ w.at \in Unsaved /\ w.at \in Flushes /\ w.at # "offsets" /\ w.at # "close"
         /\ w.rows \subseteq Held(buffer') /\ Covers(w, buffer', Excused')
    BY <1>9, ReadsIs DEF Reads
  <1> HIDE DEF w
  <1>11. /\ task'["timer"] = task["timer"] /\ task'["stop"] = task["stop"]
         /\ task'["consume"] \in {task["consume"], w}
         /\ task' \in [Tasks -> [at: Waits, index: 0 .. N, rows: SUBSET Messages]]
    <2>1. task \in [Tasks -> [at: Waits, index: 0 .. N, rows: SUBSET Messages]]
      BY <1>3 DEF TaskInv
    <2> QED
      BY <1>2, <1>10, <2>1, TasksAre DEF w
  <1>12. Looping'
    BY <1>3, <1>10, <1>11 DEF Looping
  <1>13. TaskInv'
    <2>1. ASSUME NEW t \in Tasks
          PROVE  /\ task'[t].at = "offsets" => task'[t].index <= Len(topic')
                 /\ task'[t].rows # {} => task'[t].at \in Unsaved
                 /\ task'[t].rows \subseteq 1 .. m
      <3>1. CASE task'[t] = task[t]
        <4>1. task[t].rows \subseteq 1 .. position /\ 1 .. position \subseteq 1 .. m
          BY <1>3, <1>4 DEF TaskInv
        <4> QED
          BY <1>1, <1>3, <3>1, <4>1 DEF TaskInv
      <3>2. CASE task'[t] = w
        BY <1>6, <1>10, <3>2
      <3> QED
        BY <1>11, <3>1, <3>2, TasksAre
    <2> QED
      BY <1>1, <1>11, <1>12, <2>1 DEF TaskInv
  <1>14. Excused \subseteq Excused' /\ Kept \subseteq Kept' /\ WellFormed' = WellFormed
    BY <1>1 DEF Kept, Stored, WellFormed, Excused, Readable
  <1>15. AccountInv'
    <2>1. ASSUME NEW x \in WellFormed, x <= m PROVE x \in Kept' \cup Buffered'
      <3>1. x \in Int /\ Readable(x)
        BY DEF WellFormed
      <3>2. CASE x <= position
        BY <1>3, <1>5, <1>7, <1>14, <3>2, TaskIs DEF AccountInv
      <3>3. CASE x = m
        BY <1>5, <1>7, <3>1, <3>3 DEF Readable, Malformed
      <3> QED
        BY <1>4, <2>1, <3>1, <3>2, <3>3
    <2>2. \A n : KeptUpTo(n) => \A x \in WellFormed : x <= n => x \in Kept'
      BY <1>14 DEF KeptUpTo
    <2>3. ASSUME NEW t \in Tasks
          PROVE  /\ task'[t].at = "offsets" => \A x \in WellFormed : x <= task'[t].index => x \in Kept'
                 /\ task'[t].at \in Unsaved => Covers(task'[t], buffer', Excused')
                 /\ task'[t].at = "close" => Buffered' \subseteq Kept'
      <3>1. CASE task'[t] = task[t] /\ t # "timer"
        <4>1. task[t].at \notin Unsaved /\ task[t].at # "close"
          BY <1>1, <1>3, <3>1, TasksAre DEF Looping, Unsaved
        <4> QED
          BY <1>3, <2>2, <3>1, <4>1 DEF AccountInv
      <3>2. CASE task'[t] = w
        BY <1>10, <3>2
      <3>3. CASE t = "timer"
        <4>1. task'[t] = task[t]
          BY <1>11, <3>3
        <4>2. task[t].at = "offsets" => KeptUpTo(task[t].index)
          BY <1>3 DEF AccountInv
        <4>3. ASSUME task[t].at \in Flushes PROVE m \in Excused'
          BY <1>1, <1>3, <3>3, <4>3, TaskIs DEF Excused
        <4>4. ASSUME task[t].at \in Unsaved PROVE Covers(task[t], buffer', Excused')
          <5>1. Covers(task[t], buffer, Excused)
            BY <1>3, <4>4 DEF AccountInv
          <5>2. Covers(task[t], buffer, Excused')
            BY <1>14, <5>1, CoversMore
          <5>3. m \in Excused'
            BY <4>3, <4>4 DEF Flushes
          <5> QED
            BY <1>5, <5>2, <5>3
        <4>5. ASSUME task[t].at = "close" PROVE Buffered' \subseteq Kept'
          <5>1. Buffered \subseteq Kept
            BY <1>3, <4>5 DEF AccountInv
          <5>2. m \in Kept'
            BY <4>3, <4>5 DEF Flushes, Kept
          <5> QED
            BY <1>5, <1>7, <1>14, <5>1, <5>2
        <4> QED
          BY <2>2, <4>1, <4>2, <4>4, <4>5
      <3> QED
        BY <1>11, <3>1, <3>2, <3>3, TasksAre
    <2> QED
      BY <1>1, <1>3, <1>14, <2>1, <2>2, <2>3 DEF AccountInv, KeptUpTo
  <1>16. DrainedWhenStopped'
    <2>1. task'["stop"].at # "stopped"
      BY <1>12 DEF Looping
    <2> QED
      BY <2>1, NotStopped, TasksAre DEF DrainedWhenStopped
  <1>17. OnceInv'
    <2> SUFFICES ASSUME ~disturbed' PROVE OnceInv'
      BY DEF OnceInv
    <2>1. /\ ~disturbed
          /\ \/ task'["consume"] = w /\ ~Flushing("timer")
             \/ task' = task
      <3>1. CASE /\ task' = [task EXCEPT !["consume"] = StartFlush(buffer')]
                 /\ disturbed' = (disturbed \/ Flushing("timer"))
        <4>1. task'["consume"] = w
          BY <1>3, <3>1, TasksAre DEF TaskInv, w
        <4>2. ~disturbed /\ ~Flushing("timer")
          BY <3>1
        <4> QED
          BY <4>1, <4>2
      <3>2. CASE UNCHANGED <<task, disturbed>>
        BY <3>2
      <3> QED
        BY <1>2, <3>1, <3>2
    <2>2. /\ \A t, u \in Tasks : Flushing(t) /\ Flushing(u) => t = u
          /\ \A x \in Messages : stored[x] <= 1 /\ (x > position => stored[x] = 0)
          /\ \A t \in Tasks : \A x \in task[t].rows : stored[x] = 0
          /\ (\A t \in Tasks : task[t].at # "close") => \A x \in Buffered : stored[x] = 0
      BY <1>3, <2>1 DEF OnceInv
    <2>3. task["consume"].at # "close" /\ task["stop"].at # "close"
      BY <1>1, <1>3 DEF Looping
    <2>4. stored[m] = 0
      BY <1>4, <1>5, <2>2
    <2>5. ASSUME task["timer"].at # "close" PROVE \A x \in Buffered' : stored[x] = 0
      BY <1>5, <1>7, <2>2, <2>3, <2>4, <2>5, TasksAre
    <2>6. \A x \in Messages : x > m => x > position
      BY <1>4 DEF Messages
    <2>7. (\A t \in Tasks : task'[t].at # "close") => \A x \in Buffered' : stored[x] = 0
      BY <1>11, <2>5, TasksAre
    <2>8. CASE task' = task
      <3>1. \A t \in Tasks : Flushing(t)' <=> Flushing(t)
        BY <2>8 DEF Flushing
      <3> QED
        BY <1>1, <1>12, <2>2, <2>6, <2>7, <2>8, <3>1 DEF OnceInv, Looping
    <2>9. CASE task'["consume"] = w /\ ~Flushing("timer")
      <3>1. task["timer"].at # "close"
        BY <2>9 DEF Flushing
      <3>2. ~Flushing("timer")' /\ ~Flushing("stop")'
        BY <1>11, <1>12, <2>9 DEF Flushing, Looping, BufferKinds
      <3>3. \A t \in Tasks : \A x \in task'[t].rows : stored[x] = 0
        <4>1. \A x \in w.rows : stored[x] = 0
          BY <1>7, <1>10, <2>5, <3>1
        <4>2. \A t \in Tasks : task'[t] \in {task[t], w}
          BY <1>11, TasksAre
        <4> QED
          BY <2>2, <4>1, <4>2
      <3>4. \A t, u \in Tasks : Flushing(t)' /\ Flushing(u)' => t = u
        BY <3>2, TasksAre
      <3> QED
        BY <1>1, <1>12, <2>2, <2>6, <2>7, <3>3, <3>4 DEF OnceInv, Looping
    <2> QED
      BY <2>1, <2>8, <2>9
  <1> QED
    BY <1>8, <1>13, <1>15, <1>16, <1>17 DEF IngestInv

LEMMA TimerKeeps ==
  ASSUME IngestInv, TimerFires
  PROVE  IngestInv'
  <1>1. /\ task["timer"].at = "sleep"
        /\ task' = [task EXCEPT !["timer"] = StartFlush(buffer)]
        /\ disturbed' = (disturbed \/ Flushing("consume"))
        /\ UNCHANGED <<topic, committed, position, buffer, stored, failures, restarts, exposed>>
    BY DEF TimerFires
  <1>2. MessagesInv /\ TaskInv /\ AccountInv /\ OnceInv /\ Looping
    BY <1>1, TaskIs DEF IngestInv
  <1>3. /\ buffer \in Buffers /\ Buffered = Held(buffer) /\ Buffered \subseteq 1 .. position
        /\ Buffered \subseteq Messages
    BY <1>2, BufferIs
  <1> DEFINE w == StartFlush(buffer)
  <1>4. Reads(w, buffer, {}, Excused)
    BY <1>3, <1>2, SkippedIs, FlushStarts
  <1>5. /\ w \in [at: Waits, index: 0 .. N, rows: SUBSET Messages]
        /\ w.at \in Unsaved /\ w.at \in Flushes /\ w.at # "offsets" /\ w.at # "close"
        /\ w.rows \subseteq Held(buffer) /\ Covers(w, buffer, Excused)
    BY <1>4, ReadsIs DEF Reads
  <1>6. task' = [task EXCEPT !["timer"] = w]
    BY <1>1
  <1> HIDE DEF w
  <1>7. /\ task'["consume"] = task["consume"] /\ task'["stop"] = task["stop"]
        /\ task'["timer"] = w
        /\ task' \in [Tasks -> [at: Waits, index: 0 .. N, rows: SUBSET Messages]]
    <2>1. task \in [Tasks -> [at: Waits, index: 0 .. N, rows: SUBSET Messages]]
      BY <1>2 DEF TaskInv
    <2> QED
      BY <1>5, <1>6, <2>1, TasksAre
  <1>8. Looping'
    BY <1>2, <1>5, <1>7 DEF Looping
  <1>9. Buffered' = Buffered /\ Kept' = Kept /\ WellFormed' = WellFormed /\ Excused' = Excused
    BY <1>1 DEF Buffered, Kept, Stored, WellFormed, Excused, Readable
  <1>10. MessagesInv'
    <2>1. disturbed' \in BOOLEAN
      BY <1>1, <1>2 DEF MessagesInv
    <2> QED
      BY <1>1, <1>2, <2>1 DEF MessagesInv, Sorted
  <1>11. TaskInv'
    <2>1. ASSUME NEW t \in Tasks
          PROVE  /\ task'[t].at = "offsets" => task'[t].index <= Len(topic')
                 /\ task'[t].rows # {} => task'[t].at \in Unsaved
                 /\ task'[t].rows \subseteq 1 .. position'
      <3>1. CASE task'[t] = task[t]
        BY <1>1, <1>2, <3>1 DEF TaskInv
      <3>2. CASE task'[t] = w
        BY <1>1, <1>3, <1>5, <3>2
      <3> QED
        BY <1>7, <3>1, <3>2, TasksAre
    <2> QED
      BY <1>7, <1>8, <2>1 DEF TaskInv
  <1>12. AccountInv'
    <2>1. \A t \in Tasks : task'[t] \in {task[t], w}
      BY <1>7, TasksAre
    <2>2. task # AllStopped
      BY <1>2, TaskIs
    <2> QED
      BY <1>1, <1>2, <1>5, <1>9, <2>1, <2>2 DEF AccountInv, KeptUpTo
  <1>13. DrainedWhenStopped'
    <2>1. task'["stop"].at # "stopped"
      BY <1>8 DEF Looping
    <2> QED
      BY <2>1, NotStopped, TasksAre DEF DrainedWhenStopped
  <1>14. OnceInv'
    <2> SUFFICES ASSUME ~disturbed' PROVE OnceInv'
      BY DEF OnceInv
    <2>1. ~disturbed /\ ~Flushing("consume")
      BY <1>1
    <2>2. /\ \A x \in Messages : stored[x] <= 1 /\ (x > position => stored[x] = 0)
          /\ \A t \in Tasks : \A x \in task[t].rows : stored[x] = 0
          /\ (\A t \in Tasks : task[t].at # "close") => \A x \in Buffered : stored[x] = 0
      BY <1>2, <2>1 DEF OnceInv
    <2>3. \A t \in Tasks : task[t].at # "close"
      BY <1>1, <1>2, <2>1, TasksAre DEF Looping, Flushing
    <2>4. ~Flushing("consume")' /\ ~Flushing("stop")'
      BY <1>7, <1>8, <2>1 DEF Flushing, Looping, BufferKinds
    <2>5. \A t \in Tasks : \A x \in task'[t].rows : stored[x] = 0
      <3>1. \A x \in w.rows : stored[x] = 0
        BY <1>3, <1>5, <2>2, <2>3
      <3>2. \A t \in Tasks : task'[t] \in {task[t], w}
        BY <1>7, TasksAre
      <3> QED
        BY <2>2, <3>1, <3>2
    <2>6. \A t, u \in Tasks : Flushing(t)' /\ Flushing(u)' => t = u
      BY <2>4, TasksAre
    <2> QED
      BY <1>1, <1>8, <1>9, <2>2, <2>3, <2>5, <2>6 DEF OnceInv, Looping
  <1> QED
    BY <1>10, <1>11, <1>12, <1>13, <1>14 DEF IngestInv

\* A flush goes on: its session holds more, and it has still read what it passed.
LEMMA GoesOn ==
  ASSUME MessagesInv, TaskInv, AccountInv,
         NEW t \in Tasks, task[t].at \in {"telemetry", "alert", "heartbeat"},
         NEW w, w = CASE task[t].at = "telemetry" -> PersistAlerts(buffer, 0, task[t].rows)
                      [] task[t].at = "alert"     -> PersistAlerts(buffer, task[t].index, task[t].rows)
                      [] task[t].at = "heartbeat" -> PersistHeartbeats(buffer, task[t].index, task[t].rows)
  PROVE  Reads(w, buffer, task[t].rows, Excused)
  <1>1. /\ buffer \in Buffers /\ task[t].index \in Nat /\ task[t].rows \in SUBSET Messages
        /\ Covers(task[t], buffer, Excused)
    <2>1. task[t] \in [at: Waits, index: 0 .. N, rows: SUBSET Messages]
      BY DEF TaskInv
    <2>2. task[t].at \in Unsaved
      BY DEF Unsaved
    <2> QED
      BY <2>1, <2>2, BufferIs DEF AccountInv
  <1>2. "telemetry" \in BufferKinds /\ "alert" \in BufferKinds /\ "heartbeat" \in BufferKinds
    BY DEF BufferKinds
  <1> PICK r, i : r = task[t].rows /\ i = task[t].index
    OBVIOUS
  <1>3. ASSUME NEW k \in BufferKinds, \A j \in 1 .. Len(buffer[k]) : Passed(task[t], k, j)
        PROVE  Range(buffer[k]) \subseteq r \cup Excused
    <2> SUFFICES ASSUME NEW x \in Range(buffer[k]) PROVE x \in r \cup Excused
      OBVIOUS
    <2>1. PICK j \in 1 .. Len(buffer[k]) : x = buffer[k][j]
      BY <1>1, HeldIs
    <2> QED
      BY <1>1, <1>3, <2>1 DEF Covers
  <1>4. Range(buffer["telemetry"]) \subseteq r \cup Excused
    <2>1. \A j : Passed(task[t], "telemetry", j)
      BY DEF Passed, Unsaved
    <2> QED
      BY <1>2, <1>3, <2>1
  <1>5. CASE task[t].at = "telemetry"
    <2>1. w = PersistAlerts(buffer, 0, r)
      BY <1>5
    <2>2. \A j \in 1 .. Len(buffer["alert"]) : j <= 0 => buffer["alert"][j] \in r \cup Excused
      BY <1>1, <1>2, HeldIs
    <2> QED
      BY <1>1, <1>4, <2>1, <2>2, SkippedIs, AlertsRead
  <1>6. CASE task[t].at = "alert"
    <2>1. w = PersistAlerts(buffer, i, r)
      BY <1>6
    <2>2. \A j \in 1 .. Len(buffer["alert"]) : j <= i => buffer["alert"][j] \in r \cup Excused
      <3> SUFFICES ASSUME NEW j \in 1 .. Len(buffer["alert"]), j <= i
                   PROVE  buffer["alert"][j] \in r \cup Excused
        OBVIOUS
      <3>1. Passed(task[t], "alert", j)
        BY <1>6 DEF Passed
      <3> QED
        BY <1>1, <1>2, <3>1 DEF Covers
    <2> QED
      BY <1>1, <1>4, <2>1, <2>2, SkippedIs, AlertsRead
  <1>7. CASE task[t].at = "heartbeat"
    <2>1. w = PersistHeartbeats(buffer, i, r)
      BY <1>7
    <2>2. \A j \in 1 .. Len(buffer["heartbeat"]) : j <= i => buffer["heartbeat"][j] \in r \cup Excused
      <3> SUFFICES ASSUME NEW j \in 1 .. Len(buffer["heartbeat"]), j <= i
                   PROVE  buffer["heartbeat"][j] \in r \cup Excused
        OBVIOUS
      <3>1. Passed(task[t], "heartbeat", j)
        BY <1>7 DEF Passed
      <3> QED
        BY <1>1, <1>2, <3>1 DEF Covers
    <2>3. Range(buffer["alert"]) \subseteq r \cup Excused
      <3>1. \A j : Passed(task[t], "alert", j)
        BY <1>7 DEF Passed
      <3> QED
        BY <1>2, <1>3, <3>1
    <2>4. \A k \in {"telemetry", "alert"} : Range(buffer[k]) \subseteq r \cup Excused
      BY <1>4, <2>3
    <2> QED
      BY <1>1, <2>1, <2>2, <2>4, SkippedIs, HeartbeatsRead
  <1> QED
    BY <1>5, <1>6, <1>7

LEMMA PersistKeeps ==
  ASSUME IngestInv, NEW t \in Tasks, PersistNext(t)
  PROVE  IngestInv'
  <1> PICK w : w = CASE task[t].at = "telemetry" -> PersistAlerts(buffer, 0, task[t].rows)
                     [] task[t].at = "alert"     -> PersistAlerts(buffer, task[t].index, task[t].rows)
                     [] task[t].at = "heartbeat" -> PersistHeartbeats(buffer, task[t].index, task[t].rows)
    OBVIOUS
  <1>1. /\ task[t].at \in {"telemetry", "alert", "heartbeat"}
        /\ task' = [task EXCEPT ![t] = w]
        /\ UNCHANGED <<topic, committed, position, buffer, stored, failures, restarts, exposed,
                       disturbed>>
    BY DEF PersistNext
  <1>2. MessagesInv /\ TaskInv /\ AccountInv /\ OnceInv
    BY DEF IngestInv
  <1>3. Reads(w, buffer, task[t].rows, Excused)
    BY <1>1, <1>2, GoesOn
  <1>4. /\ w \in [at: Waits, index: 0 .. N, rows: SUBSET Messages]
        /\ w.at \in Unsaved /\ w.at \in Flushes /\ w.at # "offsets" /\ w.at # "close"
        /\ w.rows \subseteq task[t].rows \cup Held(buffer) /\ Covers(w, buffer, Excused)
        /\ w.at # "idle" /\ w.at # "stopped"
    BY <1>3, ReadsIs DEF Reads
  <1>5. /\ buffer \in Buffers /\ Buffered = Held(buffer) /\ Buffered \subseteq 1 .. position
        /\ Buffered \subseteq Messages
    BY <1>2, BufferIs
  <1>6. /\ task'[t] = w /\ \A u \in Tasks : u # t => task'[u] = task[u]
        /\ task' \in [Tasks -> [at: Waits, index: 0 .. N, rows: SUBSET Messages]]
    BY <1>1, <1>2, <1>4, OneTask DEF TaskInv
  <1>7. Buffered' = Buffered /\ Kept' = Kept /\ WellFormed' = WellFormed /\ Excused' = Excused
    BY <1>1 DEF Buffered, Kept, Stored, WellFormed, Excused, Readable
  <1>8. MessagesInv'
    BY <1>1, <1>2 DEF MessagesInv, Sorted
  <1>9. task[t].at \in Flushes
    BY <1>1 DEF Flushes, Unsaved
  <1>10. (Looping /\ Looping') \/ (Ending /\ Ending')
    <2>1. CASE t = "consume"
      BY <1>2, <1>4, <1>6, <1>9, <2>1, TaskIs, TasksAre DEF Looping
    <2>2. CASE t = "timer"
      BY <1>2, <1>4, <1>6, <1>9, <2>2, TaskIs, TasksAre DEF Looping
    <2>3. CASE t = "stop"
      BY <1>2, <1>4, <1>5, <1>6, <1>7, <1>9, <2>3, TaskIs, TasksAre DEF Ending
    <2> QED
      BY <2>1, <2>2, <2>3, TasksAre
  <1>11. TaskInv'
    <2>1. ASSUME NEW u \in Tasks
          PROVE  /\ task'[u].at = "offsets" => task'[u].index <= Len(topic')
                 /\ task'[u].rows # {} => task'[u].at \in Unsaved
                 /\ task'[u].rows \subseteq 1 .. position'
      <3>1. CASE u # t
        BY <1>1, <1>2, <1>6, <3>1 DEF TaskInv
      <3>2. CASE u = t
        <4>1. task[t].rows \subseteq 1 .. position
          BY <1>2 DEF TaskInv
        <4> QED
          BY <1>1, <1>4, <1>5, <1>6, <3>2, <4>1
      <3> QED
        BY <3>1, <3>2
    <2> QED
      BY <1>6, <1>10, <2>1 DEF TaskInv
  <1>12. task'[t].at # "stopped" /\ task # AllStopped
    BY <1>1, <1>4, <1>6, NotStopped
  <1>13. AccountInv'
    <2>1. \A u \in Tasks : task'[u] \in {task[u], w}
      BY <1>6
    <2> QED
      BY <1>1, <1>2, <1>4, <1>7, <1>12, <2>1 DEF AccountInv, KeptUpTo
  <1>14. DrainedWhenStopped'
    BY <1>12, NotStopped DEF DrainedWhenStopped
  <1>15. OnceInv'
    <2> SUFFICES ASSUME ~disturbed' PROVE OnceInv'
      BY DEF OnceInv
    <2>1. /\ task["stop"].at = "idle"
          /\ \A u, v \in Tasks : Flushing(u) /\ Flushing(v) => u = v
          /\ \A x \in Messages : stored[x] <= 1 /\ (x > position => stored[x] = 0)
          /\ \A u \in Tasks : \A x \in task[u].rows : stored[x] = 0
          /\ (\A u \in Tasks : task[u].at # "close") => \A x \in Buffered : stored[x] = 0
      BY <1>1, <1>2 DEF OnceInv
    <2>2. task'["stop"].at = "idle"
      BY <1>1, <1>6, <2>1, TasksAre
    <2>3. Flushing(t) /\ \A u \in Tasks : Flushing(u)' => Flushing(u)
      <3>1. Flushing(t)
        BY <1>2, <1>9, TaskIs
      <3>2. ASSUME NEW u \in Tasks, u # t PROVE Flushing(u)' => Flushing(u)
        BY <1>6, <3>2 DEF Flushing
      <3> QED
        BY <3>1, <3>2
    <2>4. \A u \in Tasks : task[u].at # "close"
      <3>1. \A u \in Tasks : task[u].at = "close" => Flushing(u)
        BY DEF Flushing
      <3> QED
        BY <1>1, <2>1, <2>3, <3>1
    <2>5. \A u \in Tasks : \A x \in task'[u].rows : stored[x] = 0
      <3>1. \A x \in w.rows : stored[x] = 0
        BY <1>4, <1>5, <2>1, <2>4
      <3> QED
        BY <1>6, <2>1, <3>1
    <2> QED
      BY <1>1, <1>7, <2>1, <2>2, <2>3, <2>4, <2>5 DEF OnceInv
  <1> QED
    BY <1>8, <1>11, <1>13, <1>14, <1>15 DEF IngestInv

LEMMA CommitKeeps ==
  ASSUME IngestInv, NEW t \in Tasks, SessionCommitted(t)
  PROVE  IngestInv'
  <1>1. /\ task[t].at = "commit"
        /\ stored' = StoredBy({t})
        /\ task' = [task EXCEPT ![t] = Wait("close")]
        /\ UNCHANGED <<topic, committed, position, buffer, failures, restarts, exposed, disturbed>>
    BY DEF SessionCommitted
  <1>2. MessagesInv /\ TaskInv /\ AccountInv /\ OnceInv
    BY DEF IngestInv
  <1>3. /\ buffer \in Buffers /\ Buffered = Held(buffer) /\ Buffered \subseteq 1 .. position
        /\ Buffered \subseteq Messages
    BY <1>2, BufferIs
  <1>4. "close" \in Waits /\ "close" \in Flushes
    BY WaitsAre DEF Flushes
  <1>5. /\ task'[t] = Wait("close") /\ \A u \in Tasks : u # t => task'[u] = task[u]
        /\ task' \in [Tasks -> [at: Waits, index: 0 .. N, rows: SUBSET Messages]]
    BY <1>1, <1>2, <1>4, WaitTyped, OneTask DEF TaskInv
  <1>6. task'[t].at = "close" /\ task'[t].rows = {}
    BY <1>5, WaitIs
  <1>7. /\ stored' \in [Messages -> 0 .. 2]
        /\ \A m \in Messages : stored[m] > 0 => stored'[m] > 0
        /\ \A m \in Messages : m \in task[t].rows => stored'[m] > 0
        /\ \A m \in Messages : m \notin task[t].rows => stored'[m] = stored[m]
        /\ \A m \in Messages : stored[m] = 0 => stored'[m] <= 1
    <2>1. {t} \in SUBSET Tasks /\ stored \in [Messages -> 0 .. 2]
      BY <1>2 DEF MessagesInv
    <2> QED
      BY <1>1, <2>1, StoredByIs
  <1>8. Stored \subseteq Stored'
    BY <1>7 DEF Stored
  <1>9. /\ Buffered' = Buffered /\ Kept \subseteq Kept' /\ WellFormed' = WellFormed /\ Excused' = Excused
        /\ \A n : KeptUpTo(n) => \A m \in WellFormed' : m <= n => m \in Kept'
    BY <1>1, <1>8, KeptStays DEF Buffered, Excused, Readable
  <1>10. MessagesInv'
    BY <1>1, <1>2, <1>7 DEF MessagesInv, Sorted
  <1>11. task[t].at \in Flushes /\ task[t].at \in Unsaved
    BY <1>1 DEF Flushes, Unsaved
  <1>12. (Looping /\ Looping') \/ (Ending /\ Ending')
    <2>1. CASE t = "consume"
      BY <1>2, <1>4, <1>5, <1>6, <1>11, <2>1, TaskIs, TasksAre DEF Looping
    <2>2. CASE t = "timer"
      BY <1>2, <1>4, <1>5, <1>6, <1>11, <2>2, TaskIs, TasksAre DEF Looping
    <2>3. CASE t = "stop"
      BY <1>2, <1>4, <1>5, <1>6, <1>9, <1>11, <2>3, TaskIs, TasksAre DEF Ending
    <2> QED
      BY <2>1, <2>2, <2>3, TasksAre
  <1>13. TaskInv'
    BY <1>1, <1>2, <1>5, <1>6, <1>12 DEF TaskInv
  <1>14. task'[t].at # "stopped" /\ task # AllStopped
    BY <1>1, <1>6, NotStopped
  <1>15. Buffered \subseteq Kept'
    <2> SUFFICES ASSUME NEW m \in Buffered PROVE m \in Kept'
      OBVIOUS
    <2>1. PICK k \in BufferKinds : \E j \in 1 .. Len(buffer[k]) : m = buffer[k][j]
      BY <1>3, HeldIs
    <2>2. PICK j \in 1 .. Len(buffer[k]) : m = buffer[k][j]
      BY <2>1
    <2>3. Passed(task[t], k, j)
      BY <1>1 DEF Passed, BufferKinds, Unsaved
    <2>4. m \in task[t].rows \cup Excused
      BY <1>2, <1>11, <2>2, <2>3 DEF AccountInv, Covers
    <2> QED
      BY <1>1, <1>3, <1>7, <1>9, <2>4 DEF Kept, Stored
  <1>16. AccountInv'
    BY <1>1, <1>2, <1>5, <1>6, <1>9, <1>14, <1>15 DEF AccountInv, KeptUpTo, Unsaved
  <1>17. DrainedWhenStopped'
    BY <1>14, NotStopped DEF DrainedWhenStopped
  <1>18. OnceInv'
    <2> SUFFICES ASSUME ~disturbed' PROVE OnceInv'
      BY DEF OnceInv
    <2>1. /\ task["stop"].at = "idle"
          /\ \A u, v \in Tasks : Flushing(u) /\ Flushing(v) => u = v
          /\ \A x \in Messages : stored[x] <= 1 /\ (x > position => stored[x] = 0)
          /\ \A u \in Tasks : \A x \in task[u].rows : stored[x] = 0
      BY <1>1, <1>2 DEF OnceInv
    <2>2. task'["stop"].at = "idle"
      BY <1>1, <1>5, <2>1, TasksAre
    <2>3. Flushing(t) /\ \A u \in Tasks : Flushing(u)' => Flushing(u)
      <3>1. Flushing(t)
        BY <1>2, <1>11, TaskIs
      <3>2. ASSUME NEW u \in Tasks, u # t PROVE Flushing(u)' => Flushing(u)
        BY <1>5, <3>2 DEF Flushing
      <3> QED
        BY <3>1, <3>2
    <2>4. \A u \in Tasks : task'[u].rows = {}
      <3>1. ASSUME NEW u \in Tasks, u # t PROVE task[u].rows = {}
        <4>1. ~Flushing(u)
          BY <2>1, <2>3, <3>1
        <4>2. task[u].at \notin Flushes
          BY <1>2, <4>1, TaskIs
        <4> QED
          BY <1>2, <4>2 DEF TaskInv, Flushes
      <3> QED
        BY <1>5, <1>6, <3>1
    <2>5. \A x \in Messages : stored'[x] <= 1 /\ (x > position => stored'[x] = 0)
      <3> SUFFICES ASSUME NEW x \in Messages
                   PROVE  stored'[x] <= 1 /\ (x > position => stored'[x] = 0)
        OBVIOUS
      <3>1. CASE x \in task[t].rows
        <4>1. x \in 1 .. position /\ position \in Int
          BY <1>2, <3>1, BufferIs DEF TaskInv
        <4> QED
          BY <1>7, <2>1, <3>1, <4>1
      <3>2. CASE x \notin task[t].rows
        BY <1>7, <2>1, <3>2
      <3> QED
        BY <3>1, <3>2
    <2> QED
      BY <1>1, <1>6, <2>1, <2>2, <2>3, <2>4, <2>5 DEF OnceInv
  <1> QED
    BY <1>10, <1>13, <1>16, <1>17, <1>18 DEF IngestInv

LEMMA CloseKeeps ==
  ASSUME IngestInv, NEW t \in Tasks, SessionClosed(t)
  PROVE  IngestInv'
  <1>1. /\ task[t].at = "close" /\ buffer' = Empty
        /\ task' = IF t = "stop" THEN AllStopped
                   ELSE [task EXCEPT ![t] = WaitAt("offsets", position, {})]
        /\ UNCHANGED <<topic, committed, position, stored, failures, restarts, exposed, disturbed>>
    BY DEF SessionClosed, OffsetToCommit
  <1>2. MessagesInv /\ TaskInv /\ AccountInv /\ OnceInv
    BY DEF IngestInv
  <1>3. position \in 0 .. N /\ position <= Len(topic)
    BY <1>2, BufferIs
  <1>4. Held(buffer') = {} /\ Buffered' = {}
    BY <1>1, EmptyIs DEF Buffered, Held
  <1>5. Kept' = Kept /\ WellFormed' = WellFormed /\ Excused' = Excused
    BY <1>1 DEF Kept, Stored, WellFormed, Excused, Readable
  <1>6. MessagesInv'
    <2>1. Sorted(buffer, position)'
      <3>1. Sorted(Empty, position)
        BY EmptyIs
      <3> QED
        BY <1>1, <3>1 DEF Sorted
    <2> QED
      BY <1>1, <1>2, <2>1 DEF MessagesInv
  <1>7. task[t].at \in Flushes
    BY <1>1 DEF Flushes
  <1>8. task # AllStopped /\ Buffered \subseteq Kept
    BY <1>1, <1>2, NotStopped DEF AccountInv
  <1>9. KeptUpTo(position)
    BY <1>2, <1>8 DEF AccountInv, KeptUpTo
  <1>10. CASE t = "stop"
    <2>1. task' = AllStopped
      BY <1>1, <1>10
    <2>2. /\ \A u \in Tasks : task'[u].at = "stopped" /\ task'[u].rows = {}
          /\ task' \in [Tasks -> [at: Waits, index: 0 .. N, rows: SUBSET Messages]]
      BY <2>1, StoppedIs, WaitIs
    <2>3. TaskInv'
      BY <2>1, <2>2 DEF TaskInv, AllStopped, Wait, WaitAt
    <2>4. AccountInv'
      <3>1. (task # AllStopped)' <=> FALSE
        BY <2>1 DEF AllStopped, Wait, WaitAt
      <3> QED
        BY <1>1, <1>2, <1>5, <2>2, <3>1 DEF AccountInv, KeptUpTo, Unsaved
    <2>5. DrainedWhenStopped'
      <3>1. Total(buffer)' = Total(Empty)
        BY <1>1 DEF Total
      <3> QED
        BY <3>1, EmptyIs DEF DrainedWhenStopped
    <2>6. OnceInv'
      <3>1. disturbed'
        BY <1>1, <1>2, <1>10 DEF OnceInv, MessagesInv
      <3> QED
        BY <3>1 DEF OnceInv
    <2> QED
      BY <1>6, <2>3, <2>4, <2>5, <2>6 DEF IngestInv
  <1>11. CASE t # "stop"
    <2> PICK w : w = WaitAt("offsets", position, {})
      OBVIOUS
    <2>1. task' = [task EXCEPT ![t] = w]
      BY <1>1, <1>11
    <2>2. /\ w \in [at: Waits, index: 0 .. N, rows: SUBSET Messages]
          /\ w.at = "offsets" /\ w.index = position /\ w.rows = {}
      BY <1>3, WaitsAre DEF WaitAt
    <2>3. /\ task'[t] = w /\ \A u \in Tasks : u # t => task'[u] = task[u]
          /\ task' \in [Tasks -> [at: Waits, index: 0 .. N, rows: SUBSET Messages]]
      BY <1>2, <2>1, <2>2, OneTask DEF TaskInv
    <2>4. Looping /\ Looping'
      <3>1. CASE t = "consume"
        BY <1>2, <1>7, <2>2, <2>3, <3>1, TaskIs, TasksAre DEF Looping
      <3>2. CASE t = "timer"
        BY <1>2, <1>7, <2>2, <2>3, <3>2, TaskIs, TasksAre DEF Looping
      <3> QED
        BY <1>11, <3>1, <3>2, TasksAre
    <2>5. TaskInv'
      BY <1>1, <1>2, <1>3, <2>2, <2>3, <2>4 DEF TaskInv
    <2>6. AccountInv'
      <3>1. ASSUME NEW u \in Tasks
            PROVE  /\ task'[u].at = "offsets" => KeptUpTo(task'[u].index)
                   /\ task'[u].at \in Unsaved => Covers(task'[u], Empty, Excused)
        BY <1>2, <1>9, <2>2, <2>3, EmptyIs DEF AccountInv
      <3>2. \A x \in WellFormed : x <= position => x \in Kept
        BY <1>9 DEF KeptUpTo
      <3> QED
        BY <1>1, <1>2, <1>4, <1>5, <3>1, <3>2 DEF AccountInv, KeptUpTo
    <2>7. DrainedWhenStopped'
      <3>1. task'["stop"].at # "stopped"
        BY <2>4 DEF Looping
      <3> QED
        BY <3>1, NotStopped, TasksAre DEF DrainedWhenStopped
    <2>8. OnceInv'
      <3> SUFFICES ASSUME ~disturbed' PROVE OnceInv'
        BY DEF OnceInv
      <3>1. /\ task["stop"].at = "idle"
            /\ \A u, v \in Tasks : Flushing(u) /\ Flushing(v) => u = v
            /\ \A x \in Messages : stored[x] <= 1 /\ (x > position => stored[x] = 0)
            /\ \A u \in Tasks : \A x \in task[u].rows : stored[x] = 0
        BY <1>1, <1>2 DEF OnceInv
      <3>2. \A u \in Tasks : Flushing(u)' => Flushing(u)
        <4>1. ASSUME NEW u \in Tasks, u # t PROVE Flushing(u)' => Flushing(u)
          BY <2>3, <4>1 DEF Flushing
        <4>2. Flushing(t)
          BY <1>2, <1>7, TaskIs
        <4> QED
          BY <4>1, <4>2
      <3>3. \A u \in Tasks : \A x \in task'[u].rows : stored[x] = 0
        BY <2>2, <2>3, <3>1
      <3>4. task'["stop"].at = "idle"
        BY <2>4 DEF Looping
      <3> QED
        BY <1>1, <1>4, <3>1, <3>2, <3>3, <3>4 DEF OnceInv
    <2> QED
      BY <1>6, <2>5, <2>6, <2>7, <2>8 DEF IngestInv
  <1> QED
    BY <1>10, <1>11

LEMMA OffsetsKeep ==
  ASSUME IngestInv, NEW t \in Tasks, OffsetsCommitted(t)
  PROVE  IngestInv'
  <1>1. /\ task[t].at = "offsets" /\ committed' = task[t].index
        /\ task' = [task EXCEPT ![t] = Wait(IF t = "timer" THEN "sleep" ELSE "poll")]
        /\ UNCHANGED <<topic, position, buffer, stored, failures, restarts, exposed, disturbed>>
    BY DEF OffsetsCommitted
  <1>2. MessagesInv /\ TaskInv /\ AccountInv /\ OnceInv
    BY DEF IngestInv
  <1>3. t # "stop" /\ Looping
    BY <1>1, <1>2, TaskIs, TasksAre
  <1> PICK where : where = IF t = "timer" THEN "sleep" ELSE "poll"
    OBVIOUS
  <1>4. where \in Waits /\ where \in {"sleep", "poll"}
    BY WaitsAre
  <1>5. /\ task'[t] = Wait(where) /\ \A u \in Tasks : u # t => task'[u] = task[u]
        /\ task' \in [Tasks -> [at: Waits, index: 0 .. N, rows: SUBSET Messages]]
    BY <1>1, <1>2, <1>4, WaitTyped, OneTask DEF TaskInv
  <1>6. task'[t].at = where /\ task'[t].rows = {}
    BY <1>5, WaitIs
  <1>7. Looping'
    <2>1. CASE t = "consume"
      BY <1>3, <1>5, <1>6, <2>1, TasksAre DEF Looping
    <2>2. CASE t = "timer"
      BY <1>3, <1>5, <1>6, <2>2, TasksAre DEF Looping
    <2> QED
      BY <1>3, <2>1, <2>2, TasksAre
  <1>8. Buffered' = Buffered /\ Kept' = Kept /\ WellFormed' = WellFormed /\ Excused' = Excused
    BY <1>1 DEF Buffered, Kept, Stored, WellFormed, Excused, Readable
  <1>9. MessagesInv'
    <2>1. committed' \in 0 .. Len(topic)
      <3>1. task[t].index \in Nat /\ task[t].index <= Len(topic) /\ Len(topic) \in Nat
        BY <1>1, <1>2, BufferIs DEF TaskInv
      <3> QED
        BY <1>1, <3>1
    <2> QED
      BY <1>1, <1>2, <2>1 DEF MessagesInv, Sorted
  <1>10. TaskInv'
    BY <1>1, <1>2, <1>4, <1>5, <1>6, <1>7 DEF TaskInv
  <1>11. AccountInv'
    <2>1. task # AllStopped
      BY <1>2, <1>3, TaskIs
    <2>2. KeptUpTo(task[t].index)
      BY <1>1, <1>2 DEF AccountInv
    <2> QED
      BY <1>1, <1>2, <1>4, <1>5, <1>6, <1>8, <2>1, <2>2 DEF AccountInv, KeptUpTo, Unsaved
  <1>12. DrainedWhenStopped'
    <2>1. task'["stop"].at # "stopped"
      BY <1>7 DEF Looping
    <2> QED
      BY <2>1, NotStopped, TasksAre DEF DrainedWhenStopped
  <1>13. OnceInv'
    <2> SUFFICES ASSUME ~disturbed' PROVE OnceInv'
      BY DEF OnceInv
    <2>1. /\ \A u, v \in Tasks : Flushing(u) /\ Flushing(v) => u = v
          /\ \A x \in Messages : stored[x] <= 1 /\ (x > position => stored[x] = 0)
          /\ \A u \in Tasks : \A x \in task[u].rows : stored[x] = 0
          /\ (\A u \in Tasks : task[u].at # "close") => \A x \in Buffered : stored[x] = 0
      BY <1>1, <1>2 DEF OnceInv
    <2>2. \A u \in Tasks : Flushing(u)' => Flushing(u)
      <3>1. ASSUME NEW u \in Tasks, u # t PROVE Flushing(u)' => Flushing(u)
        BY <1>5, <3>1 DEF Flushing
      <3>2. ~Flushing(t)'
        BY <1>4, <1>6 DEF Flushing, BufferKinds
      <3> QED
        BY <3>1, <3>2
    <2>3. \A u \in Tasks : \A x \in task'[u].rows : stored[x] = 0
      BY <1>5, <1>6, <2>1
    <2>4. task'["stop"].at = "idle"
      BY <1>7 DEF Looping
    <2>5. (\A u \in Tasks : task'[u].at # "close") => \A u \in Tasks : task[u].at # "close"
      BY <1>1, <1>5
    <2> QED
      BY <1>1, <1>8, <2>1, <2>2, <2>3, <2>4, <2>5 DEF OnceInv
  <1> QED
    BY <1>9, <1>10, <1>11, <1>12, <1>13 DEF IngestInv

\* Transactions and commits that are cut off may have been done: no row goes, and
\* the offset is one that somebody was about to commit.
LEMMA CutOffIs ==
  ASSUME MessagesInv, TaskInv, AccountInv, NEW T \in SUBSET Tasks, CutOff(T),
         UNCHANGED <<topic, exposed>>
  PROVE  /\ stored' \in [Messages -> 0 .. 2] /\ Stored \subseteq Stored'
         /\ committed' \in {NoOffset} \cup 0 .. Len(topic)
         /\ KeptUpTo(committed)'
         /\ disturbed' = TRUE
  <1>1. PICK done \in SUBSET {t \in T : task[t].at = "commit" /\ ~Refused(t)} :
          stored' = StoredBy(done)
    BY DEF CutOff
  <1>2. stored' \in [Messages -> 0 .. 2] /\ \A m \in Messages : stored[m] > 0 => stored'[m] > 0
    <2>1. done \in SUBSET Tasks /\ stored \in [Messages -> 0 .. 2]
      BY DEF MessagesInv
    <2> QED
      BY <1>1, <2>1, StoredByIs
  <1>3. Stored \subseteq Stored'
    BY <1>2 DEF Stored
  <1>4. committed' \in {NoOffset} \cup 0 .. Len(topic) /\ KeptUpTo(committed')
    <2>1. \/ committed' = committed
          \/ \E u \in T : task[u].at = "offsets" /\ committed' = task[u].index
      BY DEF CutOff
    <2>2. CASE committed' = committed
      BY <2>2 DEF MessagesInv, AccountInv
    <2>3. ASSUME NEW u \in T, task[u].at = "offsets", committed' = task[u].index
          PROVE  committed' \in 0 .. Len(topic) /\ KeptUpTo(committed')
      <3>1. task[u].index \in Nat /\ task[u].index <= Len(topic) /\ Len(topic) \in Nat
        BY <2>3, BufferIs DEF TaskInv
      <3>2. KeptUpTo(task[u].index)
        BY <2>3 DEF AccountInv
      <3> QED
        BY <2>3, <3>1, <3>2
    <2> QED
      BY <2>1, <2>2, <2>3
  <1>5. KeptUpTo(committed)'
    <2>1. WellFormed' = WellFormed /\ Kept \subseteq Kept'
      BY <1>3, KeptStays
    <2> QED
      BY <1>4, <2>1 DEF KeptUpTo
  <1> QED
    BY <1>2, <1>3, <1>4, <1>5 DEF CutOff

\* The final flush takes up the buffer as it is, unless there is nothing in it.
LEMMA FinalFlushIs ==
  ASSUME MessagesInv, NEW where \in {"draining", "ending", "exiting"}, task' = FinalFlush(where),
         UNCHANGED <<topic, position, buffer, exposed>>
  PROVE  /\ TaskInv'
         /\ \A t \in Tasks : /\ task'[t].at # "offsets" /\ task'[t].at # "close"
                             /\ task'[t].at \in Unsaved => Covers(task'[t], buffer, Excused)
         /\ task' # AllStopped \/ Total(buffer) = 0
  <1>1. /\ buffer \in Buffers /\ Buffered = Held(buffer) /\ Buffered \subseteq 1 .. position
        /\ Buffered' = Buffered
    BY BufferIs DEF Buffered
  <1>2. CASE Total(buffer) = 0
    <2>1. task' = AllStopped
      BY <1>2 DEF FinalFlush
    <2>2. /\ \A u \in Tasks : task'[u].at = "stopped" /\ task'[u].rows = {}
          /\ task' \in [Tasks -> [at: Waits, index: 0 .. N, rows: SUBSET Messages]]
      BY <2>1, StoppedIs, WaitIs
    <2>3. TaskInv'
      BY <2>1, <2>2 DEF TaskInv, AllStopped, Wait, WaitAt
    <2> QED
      BY <1>2, <2>2, <2>3 DEF Unsaved
  <1>3. CASE Total(buffer) # 0
    <2> PICK w : w = StartFlush(buffer)
      OBVIOUS
    <2>1. task' = [AllStopped EXCEPT !["consume"] = Wait(where), !["stop"] = w]
      BY <1>3 DEF FinalFlush
    <2>2. Reads(w, buffer, {}, Excused)
      BY <1>1, SkippedIs, FlushStarts
    <2>3. /\ w \in [at: Waits, index: 0 .. N, rows: SUBSET Messages]
          /\ w.at \in Unsaved /\ w.at \in Flushes /\ w.at # "offsets" /\ w.at # "close"
          /\ w.rows \subseteq Held(buffer) /\ Covers(w, buffer, Excused)
      BY <2>2, ReadsIs DEF Reads
    <2>4. where \in Waits
      BY WaitsAre
    <2>5. /\ task'["consume"] = Wait(where) /\ task'["timer"] = Wait("stopped")
          /\ task'["stop"] = w
          /\ task' \in [Tasks -> [at: Waits, index: 0 .. N, rows: SUBSET Messages]]
      BY <2>1, <2>3, <2>4, StoppedIs, WaitTyped, TasksAre
    <2>6. /\ task'["consume"].at = where /\ task'["consume"].rows = {}
          /\ task'["timer"].at = "stopped" /\ task'["timer"].rows = {}
      BY <2>5, WaitIs
    <2>7. Ending'
      BY <1>1, <2>3, <2>5, <2>6 DEF Ending
    <2>8. TaskInv'
      BY <1>1, <2>3, <2>5, <2>6, <2>7, TasksAre DEF TaskInv
    <2>9. task' # AllStopped
      BY <2>6, NotStopped, TasksAre
    <2> QED
      BY <2>3, <2>5, <2>6, <2>8, <2>9, TasksAre DEF Unsaved
  <1> QED
    BY <1>2, <1>3

\* After a cut-off the rest follows from what the tasks do next.
LEMMA CutOffKeeps ==
  ASSUME IngestInv, NEW T \in SUBSET Tasks, CutOff(T),
         UNCHANGED <<topic, position, exposed, restarts>>,
         failures' \in 0 .. MaxFailures, buffer' \in {buffer, Empty},
         TaskInv', DrainedWhenStopped',
         task' # AllStopped => task # AllStopped /\ buffer' = buffer,
         \A t \in Tasks :
           \/ task'[t] = task[t]
           \/ /\ task'[t].at # "offsets" /\ task'[t].at # "close"
              /\ task'[t].at \in Unsaved => Covers(task'[t], buffer, Excused)
  PROVE  IngestInv'
  <1>1. MessagesInv /\ TaskInv /\ AccountInv
    BY DEF IngestInv
  <1>2. /\ stored' \in [Messages -> 0 .. 2] /\ Stored \subseteq Stored'
        /\ committed' \in {NoOffset} \cup 0 .. Len(topic)
        /\ KeptUpTo(committed)'
        /\ disturbed' = TRUE
    BY <1>1, CutOffIs
  <1>3. /\ WellFormed' = WellFormed /\ Excused' = Excused /\ Kept \subseteq Kept'
        /\ \A n : KeptUpTo(n) => \A m \in WellFormed' : m <= n => m \in Kept'
    BY <1>2, KeptStays DEF Excused, Readable
  <1>4. MessagesInv'
    <2>1. Sorted(buffer, position)'
      <3>1. Sorted(buffer, position) /\ Sorted(Empty, position)
        BY <1>1, EmptyIs DEF MessagesInv
      <3>2. CASE buffer' = buffer
        BY <3>1, <3>2 DEF Sorted
      <3>3. CASE buffer' = Empty
        BY <3>1, <3>3 DEF Sorted
      <3> QED
        BY <3>2, <3>3
    <2> QED
      BY <1>1, <1>2, <2>1 DEF MessagesInv
  <1>5. AccountInv'
    <2>1. Buffered' = Buffered \/ Buffered' = {}
      <3>1. CASE buffer' = buffer
        BY <3>1 DEF Buffered
      <3>2. CASE buffer' = Empty
        BY <3>2, EmptyIs DEF Buffered, Held
      <3> QED
        BY <3>1, <3>2
    <2>2. ASSUME task' # AllStopped, NEW m \in WellFormed', m <= position'
          PROVE  m \in Kept' \cup Buffered'
      <3>1. Buffered' = Buffered
        BY <2>2 DEF Buffered
      <3> QED
        BY <1>1, <1>3, <2>2, <3>1 DEF AccountInv
    <2>3. ASSUME NEW t \in Tasks, task'[t].at = "offsets"
          PROVE  \A m \in WellFormed' : m <= task'[t].index => m \in Kept'
      BY <1>1, <1>3, <2>3 DEF AccountInv
    <2>4. ASSUME NEW t \in Tasks, task'[t].at \in Unsaved
          PROVE  Covers(task'[t], buffer', Excused')
      <3>1. Covers(task'[t], buffer, Excused)
        BY <1>1, <2>4 DEF AccountInv
      <3>2. Covers(task'[t], Empty, Excused)
        BY EmptyIs
      <3> QED
        BY <1>3, <3>1, <3>2
    <2>5. ASSUME NEW t \in Tasks, task'[t].at = "close"
          PROVE  Buffered' \subseteq Kept'
      BY <1>1, <1>3, <2>1, <2>5 DEF AccountInv
    <2>6. (task # AllStopped)' => \A m \in WellFormed' : m <= position' => m \in Kept' \cup Buffered'
      <3>1. AllStopped' = AllStopped
        BY DEF AllStopped, Wait, WaitAt
      <3> QED
        BY <2>2, <3>1
    <2> QED
      BY <1>2, <2>3, <2>4, <2>5, <2>6 DEF AccountInv, KeptUpTo
  <1>6. OnceInv'
    BY <1>2 DEF OnceInv
  <1> QED
    BY <1>4, <1>5, <1>6 DEF IngestInv

LEMMA AwaitFailsIs ==
  ASSUME MessagesInv, NEW t, AwaitFails(t)
  PROVE  failures' \in 0 .. MaxFailures /\ (failures' = 0 => Refused(t))
  <1>1. failures \in 0 .. MaxFailures /\ MaxFailures \in Nat
    BY BoundsAssumption DEF MessagesInv
  <1>2. CASE failures < MaxFailures /\ failures' = failures + 1
    BY <1>1, <1>2
  <1>3. CASE Refused(t) /\ UNCHANGED failures
    BY <1>1, <1>3
  <1> QED
    BY <1>2, <1>3 DEF AwaitFails

LEMMA TimerFailureKeeps ==
  ASSUME IngestInv, TimerFails
  PROVE  IngestInv'
  <1>1. /\ task["timer"].at \in BufferKinds \cup {"commit", "offsets"}
        /\ AwaitFails("timer") /\ CutOff({"timer"})
        /\ task' = [task EXCEPT !["timer"] = Wait("sleep")]
        /\ UNCHANGED <<topic, position, buffer, restarts, exposed>>
    BY DEF TimerFails
  <1>2. MessagesInv /\ TaskInv
    BY DEF IngestInv
  <1>3. task["timer"].at \in Flushes \cup {"sleep", "offsets"}
    BY <1>1, <1>2, TaskIs, TasksAre DEF BufferKinds, Flushes, Unsaved
  <1>4. Looping /\ task # AllStopped
    BY <1>2, <1>3, TaskIs
  <1>5. /\ task'["timer"] = Wait("sleep")
        /\ \A u \in Tasks : u # "timer" => task'[u] = task[u]
        /\ task' \in [Tasks -> [at: Waits, index: 0 .. N, rows: SUBSET Messages]]
    BY <1>1, <1>2, WaitsAre, WaitTyped, OneTask, TasksAre DEF TaskInv
  <1>6. task'["timer"].at = "sleep" /\ task'["timer"].rows = {}
    BY <1>5, WaitIs
  <1>7. Looping'
    BY <1>4, <1>5, <1>6, TasksAre DEF Looping
  <1>8. TaskInv'
    BY <1>1, <1>2, <1>5, <1>6, <1>7 DEF TaskInv
  <1>9. DrainedWhenStopped'
    <2>1. task'["stop"].at # "stopped"
      BY <1>7 DEF Looping
    <2> QED
      BY <2>1, NotStopped, TasksAre DEF DrainedWhenStopped
  <1>10. \A t \in Tasks :
           \/ task'[t] = task[t]
           \/ task'[t].at # "offsets" /\ task'[t].at # "close" /\ task'[t].at \notin Unsaved
    BY <1>5, <1>6 DEF Unsaved
  <1>11. failures' \in 0 .. MaxFailures
    BY <1>1, <1>2, AwaitFailsIs
  <1>12. {"timer"} \in SUBSET Tasks
    BY TasksAre
  <1> QED
    BY <1>1, <1>4, <1>8, <1>9, <1>10, <1>11, <1>12, CutOffKeeps

LEMMA ConsumeFailureKeeps ==
  ASSUME IngestInv, ConsumeFails
  PROVE  IngestInv'
  <1>1. /\ task["consume"].at \in BufferKinds \cup {"poll", "commit", "offsets"}
        /\ AwaitFails("consume") /\ CutOff({"consume", "timer"})
        /\ task' = FinalFlush("ending")
        /\ UNCHANGED <<topic, position, buffer, restarts, exposed>>
    BY DEF ConsumeFails
  <1>2. MessagesInv /\ TaskInv
    BY DEF IngestInv
  <1>3. task # AllStopped
    <2>1. task["consume"].at # "stopped"
      BY <1>1 DEF BufferKinds
    <2> QED
      BY <2>1, NotStopped, TasksAre
  <1>4. /\ TaskInv'
        /\ \A t \in Tasks : /\ task'[t].at # "offsets" /\ task'[t].at # "close"
                            /\ task'[t].at \in Unsaved => Covers(task'[t], buffer, Excused)
        /\ task' # AllStopped \/ Total(buffer) = 0
    BY <1>1, <1>2, FinalFlushIs
  <1>5. DrainedWhenStopped'
    BY <1>1, <1>4 DEF DrainedWhenStopped, Total, AllStopped, Wait, WaitAt
  <1>6. failures' \in 0 .. MaxFailures
    BY <1>1, <1>2, AwaitFailsIs
  <1>7. {"consume", "timer"} \in SUBSET Tasks
    BY TasksAre
  <1> QED
    BY <1>1, <1>3, <1>4, <1>5, <1>6, <1>7, CutOffKeeps

\* Nothing is running any more.
LEMMA NothingRuns ==
  ASSUME task' = AllStopped
  PROVE  /\ TaskInv'
         /\ \A t \in Tasks :
              task'[t].at # "offsets" /\ task'[t].at # "close" /\ task'[t].at \notin Unsaved
  <1>1. /\ \A u \in Tasks : task'[u].at = "stopped" /\ task'[u].rows = {}
        /\ task' \in [Tasks -> [at: Waits, index: 0 .. N, rows: SUBSET Messages]]
    BY StoppedIs, WaitIs
  <1> QED
    BY <1>1 DEF TaskInv, AllStopped, Wait, WaitAt, Unsaved

LEMMA StopFailureKeeps ==
  ASSUME IngestInv, StopFails
  PROVE  IngestInv'
  <1>1. /\ task["stop"].at \in BufferKinds \cup {"commit"}
        /\ AwaitFails("stop") /\ CutOff({"stop"})
        /\ task' = IF task["consume"].at = "draining" THEN FinalFlush("exiting") ELSE AllStopped
        /\ UNCHANGED <<topic, position, buffer, restarts, exposed>>
    BY DEF StopFails
  <1>2. MessagesInv /\ TaskInv
    BY DEF IngestInv
  <1>3. Ending /\ task # AllStopped
    <2>1. task["stop"].at \in Flushes
      BY <1>1, <1>2, TaskIs, TasksAre DEF BufferKinds, Flushes, Unsaved
    <2>2. task["stop"].at # "stopped"
      BY <2>1 DEF Flushes, Unsaved
    <2> QED
      BY <1>2, <2>1, <2>2, TaskIs, NotStopped, TasksAre
  <1>4. failures' \in 0 .. MaxFailures /\ (failures' = 0 => Refused("stop"))
    BY <1>1, <1>2, AwaitFailsIs
  <1>5. Refused("stop") => Blocked
    <2> SUFFICES ASSUME Refused("stop") PROVE Blocked
      OBVIOUS
    <2>1. PICK m \in task["stop"].rows : topic[m].body = "refused"
      BY DEF Refused
    <2> QED
      BY <1>3, <2>1 DEF Blocked, Ending
  <1>6. /\ TaskInv'
        /\ \A t \in Tasks : /\ task'[t].at # "offsets" /\ task'[t].at # "close"
                            /\ task'[t].at \in Unsaved => Covers(task'[t], buffer, Excused)
    BY <1>1, <1>2, FinalFlushIs, NothingRuns
  <1>7. DrainedWhenStopped'
    <2>1. CASE task["consume"].at = "draining"
      <3>1. task' = FinalFlush("exiting")
        BY <1>1, <2>1
      <3>2. task' # AllStopped \/ Total(buffer) = 0
        BY <1>1, <1>2, <3>1, FinalFlushIs
      <3> QED
        BY <1>1, <3>2 DEF DrainedWhenStopped, Total, AllStopped, Wait, WaitAt
    <2>2. CASE task["consume"].at # "draining"
      BY <1>1, <1>4, <1>5 DEF DrainedWhenStopped, Blocked, Buffered
    <2> QED
      BY <2>1, <2>2
  <1>8. {"stop"} \in SUBSET Tasks
    BY TasksAre
  <1> QED
    BY <1>1, <1>3, <1>4, <1>6, <1>7, <1>8, CutOffKeeps

LEMMA ShutdownKeeps ==
  ASSUME IngestInv, Shutdown
  PROVE  IngestInv'
  <1>1. /\ \/ Running /\ task' = FinalFlush("draining")
           \/ task["consume"].at = "ending" /\ task' = FinalFlush("exiting")
        /\ CutOff(Tasks)
        /\ UNCHANGED <<topic, position, buffer, failures, restarts, exposed>>
    BY DEF Shutdown
  <1>2. MessagesInv /\ TaskInv
    BY DEF IngestInv
  <1>3. task # AllStopped
    BY <1>1, NotStopped, TasksAre DEF Running
  <1>4. /\ TaskInv'
        /\ \A t \in Tasks : /\ task'[t].at # "offsets" /\ task'[t].at # "close"
                            /\ task'[t].at \in Unsaved => Covers(task'[t], buffer, Excused)
        /\ task' # AllStopped \/ Total(buffer) = 0
    BY <1>1, <1>2, FinalFlushIs
  <1>5. DrainedWhenStopped'
    BY <1>1, <1>4 DEF DrainedWhenStopped, Total, AllStopped, Wait, WaitAt
  <1>6. failures' \in 0 .. MaxFailures
    BY <1>1, <1>2 DEF MessagesInv
  <1> QED
    BY <1>1, <1>3, <1>4, <1>5, <1>6, CutOffKeeps

LEMMA CrashKeeps ==
  ASSUME IngestInv, Crash
  PROVE  IngestInv'
  <1>1. /\ CutOff(Tasks) /\ task' = AllStopped /\ buffer' = Empty
        /\ UNCHANGED <<topic, position, failures, restarts, exposed>>
    BY DEF Crash
  <1>2. /\ TaskInv'
        /\ \A t \in Tasks :
             task'[t].at # "offsets" /\ task'[t].at # "close" /\ task'[t].at \notin Unsaved
    BY <1>1, NothingRuns
  <1>3. DrainedWhenStopped'
    <2>1. Total(buffer)' = Total(Empty)
      BY <1>1 DEF Total
    <2> QED
      BY <2>1, EmptyIs DEF DrainedWhenStopped
  <1>4. failures' \in 0 .. MaxFailures
    BY <1>1 DEF IngestInv, MessagesInv
  <1> QED
    BY <1>1, <1>2, <1>3, <1>4, CutOffKeeps

\* A start reads on from the committed offset; without one it skips what is there.
LEMMA RestartKeeps ==
  ASSUME IngestInv, Restart
  PROVE  IngestInv'
  <1>1. /\ task = AllStopped /\ restarts < MaxRestarts /\ restarts' = restarts + 1
        /\ position' = IF committed = NoOffset THEN Len(topic) ELSE committed
        /\ exposed' = IF committed = NoOffset THEN exposed \cup 1 .. Len(topic) ELSE exposed
        /\ buffer' = Empty /\ task' = Started
        /\ UNCHANGED <<topic, committed, stored, failures, disturbed>>
    BY DEF Restart
  <1>2. MessagesInv /\ TaskInv /\ AccountInv /\ OnceInv
    BY DEF IngestInv
  <1>3. Len(topic) \in Nat /\ Len(topic) <= N /\ N \in Nat
    BY <1>2, BufferIs, NAssumption DEF MessagesInv
  <1>4. MessagesInv'
    <2>1. restarts' \in 0 .. MaxRestarts
      BY <1>1, <1>2, BoundsAssumption DEF MessagesInv
    <2>2. position' \in 0 .. Len(topic)
      BY <1>1, <1>2, <1>3 DEF MessagesInv
    <2>3. exposed' \subseteq Messages
      <3>1. exposed \subseteq Messages
        BY <1>2 DEF MessagesInv
      <3>2. 1 .. Len(topic) \subseteq Messages
        BY <1>3 DEF Messages
      <3>3. CASE committed = NoOffset
        BY <1>1, <3>1, <3>2, <3>3
      <3>4. CASE committed # NoOffset
        BY <1>1, <3>1, <3>4
      <3> QED
        BY <3>3, <3>4
    <2>4. Sorted(buffer, position)'
      <3>1. Sorted(Empty, position')
        BY EmptyIs
      <3> QED
        BY <1>1, <3>1 DEF Sorted
    <2> QED
      BY <1>1, <1>2, <2>1, <2>2, <2>3, <2>4 DEF MessagesInv
  <1>5. /\ \A t \in Tasks : task'[t].at \in {"poll", "sleep", "idle"} /\ task'[t].rows = {}
        /\ Looping'
        /\ task' \in [Tasks -> [at: Waits, index: 0 .. N, rows: SUBSET Messages]]
    BY <1>1, StartedIs, WaitIs, TasksAre DEF Looping
  <1>6. TaskInv'
    BY <1>5 DEF TaskInv
  <1>7. Kept \subseteq Kept' /\ WellFormed' = WellFormed
    BY <1>1 DEF Kept, Stored, WellFormed, Excused, Readable
  <1>8. AccountInv'
    <2>1. \A m \in WellFormed : m <= committed => m \in Kept'
      BY <1>2, <1>7 DEF AccountInv, KeptUpTo
    <2>2. ASSUME NEW m \in WellFormed, m <= position' PROVE m \in Kept'
      <3>1. CASE committed = NoOffset
        BY <1>1, <2>2, <3>1 DEF WellFormed, Kept, Excused
      <3>2. CASE committed # NoOffset
        BY <1>1, <2>1, <2>2, <3>2
      <3> QED
        BY <3>1, <3>2
    <2> QED
      BY <1>1, <1>5, <1>7, <2>1, <2>2 DEF AccountInv, KeptUpTo, Unsaved
  <1>9. DrainedWhenStopped'
    <2>1. Total(buffer)' = Total(Empty)
      BY <1>1 DEF Total
    <2> QED
      BY <2>1, EmptyIs DEF DrainedWhenStopped
  <1>10. OnceInv'
    <2>1. task["stop"].at # "idle"
      BY <1>1, StoppedIs, WaitIs, TasksAre
    <2>2. disturbed'
      BY <1>1, <1>2, <2>1 DEF OnceInv, MessagesInv
    <2> QED
      BY <2>2 DEF OnceInv
  <1> QED
    BY <1>4, <1>6, <1>8, <1>9, <1>10 DEF IngestInv

LEMMA IngestStep == IngestInv /\ [IngestNext]_ingestVars => IngestInv'
  <1> SUFFICES ASSUME IngestInv, [IngestNext]_ingestVars PROVE IngestInv'
    OBVIOUS
  <1>1. CASE Route \/ TimerFires
    BY <1>1, RouteKeeps, TimerKeeps
  <1>2. ASSUME NEW t \in Tasks, FlushStep(t) PROVE IngestInv'
    BY <1>2, PersistKeeps, CommitKeeps, CloseKeeps, OffsetsKeep DEF FlushStep
  <1>3. CASE Environment
    BY <1>3, ProduceKeeps, TimerFailureKeeps, ConsumeFailureKeeps, StopFailureKeeps,
       ShutdownKeeps, CrashKeeps, RestartKeeps DEF Environment
  <1>4. CASE UNCHANGED ingestVars
    <2>1. UNCHANGED <<topic, committed, position, buffer, task, stored, failures, restarts,
                      exposed, disturbed>>
      BY <1>4 DEF ingestVars
    <2>2. MessagesInv'
      BY <2>1 DEF IngestInv, MessagesInv, Sorted
    <2>3. TaskInv'
      BY <2>1 DEF IngestInv, TaskInv, Looping, Ending, Buffered, AllStopped, Wait, WaitAt
    <2>4. AccountInv'
      BY <2>1
         DEF IngestInv, AccountInv, KeptUpTo, WellFormed, Kept, Stored, Buffered, Covers,
             Excused, Readable, AllStopped, Wait, WaitAt
    <2>5. DrainedWhenStopped'
      BY <2>1 DEF IngestInv, DrainedWhenStopped, Total, Blocked, Buffered, AllStopped, Wait, WaitAt
    <2>6. OnceInv'
      <3>1. Buffered' = Buffered /\ \A t \in Tasks : Flushing(t)' <=> Flushing(t)
        BY <2>1 DEF Buffered, Flushing
      <3>2. OnceInv
        BY DEF IngestInv
      <3> QED
        BY <2>1, <3>1, <3>2 DEF OnceInv
    <2> QED
      BY <2>2, <2>3, <2>4, <2>5, <2>6 DEF IngestInv
  <1> QED
    BY <1>1, <1>2, <1>3, <1>4 DEF IngestNext

\* FluxOTKafkaConsumer: the invariant that the theorems about it rest on.
THEOREM IngestInvariant == IngestSpec => []IngestInv
  BY StartIngest, IngestStep, PTL DEF IngestSpec

\* kafka_consumer.py: every variable has its type, whatever fails or restarts.
THEOREM IngestTypeCorrect == IngestSpec => []IngestTypeOK
  <1>1. IngestInv => IngestTypeOK
    <2> SUFFICES ASSUME IngestInv PROVE IngestTypeOK
      OBVIOUS
    <2>1. MessagesInv /\ TaskInv
      BY DEF IngestInv
    <2>2. \A k \in BufferKinds : Range(buffer[k]) \subseteq 1 .. position
      <3>1. buffer \in Buffers /\ Held(buffer) \subseteq 1 .. position
        BY <2>1, BufferIs
      <3> QED
        BY <3>1, HeldIs
    <2>3. DOMAIN buffer = BufferKinds
      BY <2>1 DEF MessagesInv, Sorted
    <2> QED
      BY <2>1, <2>2, <2>3 DEF MessagesInv, TaskInv, IngestTypeOK
  <1> QED
    BY IngestInvariant, <1>1, PTL

\* FluxOTKafkaConsumer._flush_buffer, stop and start: wherever flushes overlap,
\* fail, are cut off or begin again, a readable message that was taken is in the
\* database or in the buffer, and one that was committed is in the database, but
\* for the exposed.
THEOREM IngestAccountsForAll == IngestSpec => []ReadAccountedFor
  <1>1. IngestInv => ReadAccountedFor
    <2> SUFFICES ASSUME IngestInv, NEW m \in WellFormed,
                        m <= IF task = AllStopped THEN committed ELSE position
                 PROVE  m \in Stored \cup exposed \cup Buffered
      BY DEF ReadAccountedFor
    <2>1. m \in Kept \cup Buffered
      BY DEF IngestInv, AccountInv, KeptUpTo
    <2>2. Readable(m)
      BY DEF WellFormed
    <2> QED
      BY <2>1, <2>2 DEF Kept, Excused
  <1> QED
    BY IngestInvariant, <1>1, PTL

\* FluxOTKafkaConsumer.stop: without a failure it leaves an empty buffer, or one
\* that no session can write.
THEOREM StopDrains == IngestSpec => []DrainedWhenStopped
  <1>1. IngestInv => DrainedWhenStopped
    BY DEF IngestInv
  <1> QED
    BY IngestInvariant, <1>1, PTL

\* FluxOTKafkaConsumer._flush_buffer: a message is written once as long as no two
\* flushes overlap and none is cut off.
THEOREM UndisturbedWritesOnce == IngestSpec => []OnceUndisturbed
  <1>1. IngestInv => OnceUndisturbed
    BY DEF IngestInv, OnceInv, OnceUndisturbed
  <1> QED
    BY IngestInvariant, <1>1, PTL
=============================================================================
