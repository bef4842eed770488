--------------------------- MODULE MCKafkaIngest ---------------------------
(***************************************************************************)
(* A small instance of the ingestion: three messages, batches of two, one  *)
(* failure and one restart.                                                *)
(***************************************************************************)
EXTENDS KafkaIngest

Record(l, b) == [list |-> l, body |-> b]

Common == {Record("telemetry", "row"), Record("alert", "row")}

\* A heartbeat, records of every list that are passed over, the audit record of an
\* edge, which is refused, and a malformed message.
Other ==
  {Record("heartbeat", "row"), Record("writeback", "refused"), Malformed}
    \cup {Record(l, "unreadable") : l \in BufferKinds}

MCKinds == Common \cup Other

\* One of them among the common ones shows what becomes of both.
OneOther == Cardinality({m \in 1 .. Len(topic) : topic[m] \in Other}) <= 1
=============================================================================
