--------------------------- MODULE MCRoadCrossing ---------------------------
(***************************************************************************)
(* A small instance of the crossing service: one operator command at a     *)
(* time beside the poll, one light head, two attempts to open.  The        *)
(* samples are those that tell the engine's paths apart: the belt, a       *)
(* waiting vehicle and the crossing_clear signal, for one class.           *)
(***************************************************************************)
EXTENDS RoadCrossing

ServiceSamples ==
  {sd \in Sample : /\ sd.class = "UNKNOWN"
                   /\ ~sd.rear /\ ~sd.overspeed
                   /\ sd.waiting = sd.front}
=============================================================================
