------------------------- MODULE MCInferenceService -------------------------
(* Two trainings, one service of each kind with two loading threads. *)
EXTENDS InferenceService

CONSTANTS l1, l2

MCLoaders == {l1, l2}
MCReadings == {[running |-> {}, speed |-> 2]}
MCFindings == {[class |-> 0, confidence |-> 60]}

Saving == {t \in Trainings : training[t] \in {"model", "saved", "card", "carded", "names"}}

\* Trainings are numbered as they begin, and save one after the other (each may die
\* half-way).  What they register is of no use to a service that has a model directory.
Relevant ==
  /\ training[1] = "idle" => training[2] = "idle"
  /\ Cardinality(Saving) <= 1
  /\ exists => promoting = 0 /\ Registering = {}
=============================================================================
