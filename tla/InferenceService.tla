---------------------------- MODULE InferenceService ----------------------------
(***************************************************************************)
(* One replica of an AI inference service: belt rip or road crossing       *)
(* (ai/*/inference_service.py), with the model classes it loads and asks   *)
(* (ai/*/model.py).  Loads run at start-up and, after /model/reload, on    *)
(* threads of their own; requests and Kafka messages are answered on the   *)
(* event loop meanwhile.  Trainings write the files underneath.            *)
(***************************************************************************)
EXTENDS ModelStore

CONSTANTS
  Kinds,        \* the services that are modelled: "belt", "crossing" or both
  Loaders,      \* threads that load
  Readings,     \* sensor data: running is {} if the message has none, the speed of the belt
  Findings,     \* what crossing classifiers find: a class, 0 (safe) to 3, and how sure they are, in %
  RipScores     \* what belt classifiers give for the class of rips, in %

VARIABLES
  kind,      \* which of the services it is
  process,   \* "down", "failed" (to start), "starting" or "up"
  load,      \* where each load is, and the files it has read
  served,    \* _state.model, as the files it was made of
  reported,  \* _state.model_version
  shown,     \* _state.model_card
  request    \* {} or {what a model predicts for a reading}, and which one does

\* History: whether a save or another load got in the way of the last load.  What a request comes
\* from is {} if a load was replacing the model meanwhile, from its model to its name.
VARIABLE disturbed

stateVars == <<served, reported, shown>>
serviceVars == <<kind, process, load, stateVars, request, disturbed>>
vars == <<storeVars, serviceVars>>

Raw == NTrainings + 2  \* a bare classifier from the registry, which is no model of the service
NoModel == [model |-> Absent, card |-> Absent, names |-> Absent]
NoLoad == [pc |-> "idle", model |-> Absent, card |-> Absent, names |-> Absent]
LoadSteps == {"idle", "begun", "first", "second", "third", "made", "set", "named"}
Unknown == <<"unknown", 0>>

RegistryName == <<"registry-latest", 0>>

\* What model_version says of a model: "local", or for crossings what its model card says.
Name(m) ==
  CASE m.model = Raw -> RegistryName
    [] m.model # Raw -> <<"local", IF kind = "belt" THEN 0 ELSE m.card>>

TypeOK ==
  /\ StoreTypeOK
  /\ kind \in Kinds
  /\ process \in {"down", "failed", "starting", "up"}
  /\ load \in [Loaders -> [pc : LoadSteps, model : Content \cup {Raw}, card : Content, names : Content]]
  /\ served \in [model : Content \cup {Raw}, card : Content, names : Content]
  /\ shown \in Content
  /\ disturbed \in BOOLEAN

Init ==
  /\ StoreInit
  /\ kind \in Kinds
  /\ process = "down"
  /\ load = [l \in Loaders |-> NoLoad]
  /\ served = NoModel /\ reported = Unknown /\ shown = Absent
  /\ request = {}
  /\ disturbed = FALSE

-----------------------------------------------------------------------------
(* _load_model *)

\* The order in which load() of the model class reads the files; that of crossings goes without
\* the names of the features, which do not change.
FileAt(pc) ==
  CASE kind = "belt" /\ pc = "first" -> "names"
    [] pc = "second" -> "card"
    [] (kind # "belt" /\ pc = "first") \/ pc = "third" -> "model"
AfterCard == IF kind = "belt" THEN "third" ELSE "made"

\* All that is read is of one training.
Whole ==
  /\ file["model"] \in Trainings /\ file["card"] = file["model"]
  /\ kind = "belt" => file["names"] = file["model"]

Loading == {l \in Loaders : load[l].pc # "idle"}
Replacing == {l \in Loaders : load[l].pc = "set"}
Overtaken == {[q EXCEPT !.from = {}] : q \in request}
Step(l, from, to) == load[l].pc = from /\ load' = [load EXCEPT ![l].pc = to]

Begins(l) ==
  /\ Step(l, "idle", "begun")
  /\ disturbed' = (~Whole \/ Loading # {})
  /\ UNCHANGED <<storeVars, kind, stateVars, request>>

Start == process \in {"down", "failed"} /\ process' = "starting" /\ \E l \in Loaders : Begins(l)

\* /model/reload, which answers before the load begins.
Reload == process = "up" /\ UNCHANGED process /\ \E l \in Loaders : Begins(l)

\* Once loaded, or without a model, the service is up.
Ends(l) == load' = [load EXCEPT ![l] = NoLoad] /\ process' = "up"

\* An exception ends a background load, and the process if it is starting.
Raises(l) ==
  /\ load' = [load EXCEPT ![l] = NoLoad]
  /\ process' = IF process = "starting" THEN "failed" ELSE process
  /\ UNCHANGED stateVars

\* MUTANT: what the registry raises is not caught.
LookUpUncaught(l) ==
  /\ load[l].pc = "begun"
  /\ IF exists /\ CanLoad("Production") THEN Step(l, "begun", "first") /\ UNCHANGED <<process, stateVars>>
     ELSE Raises(l)
  /\ UNCHANGED <<storeVars, kind, request, disturbed>>

\* The registry first.  Trainings register the bare classifier, so what it gives is used only
\* where there is no model directory; without either the state stays as it is.
LookUp(l) ==
  /\ load[l].pc = "begun"
  /\ \/ /\ exists /\ Step(l, "begun", "first")
        /\ UNCHANGED <<process, served, request>>
     \/ /\ ~exists /\ CanLoad("Production")
        /\ load' = [load EXCEPT ![l].pc = "set", ![l].model = Raw]
        /\ served' = [NoModel EXCEPT !.model = Raw]
        /\ request' = Overtaken
        /\ UNCHANGED process
     \/ ~exists /\ ~CanLoad("Production") /\ Ends(l) /\ UNCHANGED <<served, request>>
  /\ UNCHANGED <<storeVars, kind, reported, shown, disturbed>>

\* A torn file cannot be read; a missing card, or missing names, can be done without.
Unreadable(f) == file[f] = Torn \/ (f = "model" /\ file[f] = Absent)

ReadFile(l, from, to) ==
  LET f == FileAt(from)
  IN /\ load[l].pc = from
     /\ IF Unreadable(f) THEN Raises(l)
        ELSE /\ load' = [load EXCEPT ![l].pc = to, ![l][f] = file[f]]
             /\ UNCHANGED <<process, stateVars>>
     /\ UNCHANGED <<storeVars, kind, request, disturbed>>

SetModel(l) ==
  /\ load[l].pc = "made"
  /\ load' = [load EXCEPT ![l] = [NoLoad EXCEPT !.pc = "set"]]
  /\ served' = [model |-> load[l].model, card |-> load[l].card, names |-> load[l].names]
  /\ request' = Overtaken
  /\ UNCHANGED <<storeVars, kind, process, reported, shown, disturbed>>

\* MUTANT: only the first load sets the version.
SetNameOnce(l) ==
  /\ Step(l, "set", "named")
  /\ reported' = IF reported = Unknown THEN Name(served) ELSE reported
  /\ UNCHANGED <<storeVars, kind, process, served, shown, request, disturbed>>

\* The crossing service asks the model that is in the state then, if it is not a bare one.
SetName(l) ==
  /\ Step(l, "set", "named")
  /\ reported' = Name(IF load[l].model = Raw THEN load[l] ELSE served)
  /\ UNCHANGED <<storeVars, kind, process, served, shown, request, disturbed>>

ShowCard(l) ==
  /\ load[l].pc = "named"
  /\ IF Unreadable("card") THEN Raises(l)
     ELSE /\ Ends(l)
          /\ shown' = IF file["card"] = Absent THEN shown ELSE file["card"]
          /\ UNCHANGED <<served, reported>>
  /\ UNCHANGED <<storeVars, kind, request, disturbed>>

LoadStep(l) ==
  \/ LookUp(l) \/ ReadFile(l, "first", "second") \/ ReadFile(l, "second", AfterCard)
  \/ ReadFile(l, "third", "made")
  \/ SetModel(l) \/ SetName(l) \/ ShowCard(l)

\* The process is killed and starts with nothing.
Killed ==
  /\ process \in {"starting", "up"}
  /\ process' = "down"
  /\ load' = [l \in Loaders |-> NoLoad]
  /\ served' = NoModel /\ reported' = Unknown /\ shown' = Absent
  /\ request' = {}
  /\ UNCHANGED <<storeVars, kind, disturbed>>

-----------------------------------------------------------------------------
(* predict of the crossing model *)

\* _process_kafka_message takes a belt that the message says nothing of not to run.
BeltMoves(r) == r.running = {TRUE} /\ r.speed > 0

\* Hard constraint first; otherwise what the classifier finds.  The other risk factors only inform.
CrossingPrediction(r, finding) ==
  IF BeltMoves(r) THEN [state |-> 2, notes |-> {"HARD_SAFETY_CONSTRAINT_ACTIVE"}]
  ELSE [state |-> finding.class,
        notes |-> IF finding.confidence < 70 THEN {"LOW_CONFIDENCE"} ELSE {}]

\* human_review_required
NeedsReview(p) == "LOW_CONFIDENCE" \in p.notes \/ p.state = 3

(* predict of the belt model *)

RipAdvice(score) ==
  CASE score >= 90 -> "CRITICAL"
    [] score >= 75 /\ score < 90 -> "WARNING"
    [] score > 50 /\ score < 75 -> "CAUTION"
    [] score > 35 /\ score <= 50 -> "INFO"
    [] score <= 35 -> "OK"

BeltPrediction(score) == [state |-> IF score > 50 THEN 1 ELSE 0, notes |-> {RipAdvice(score)}]

-----------------------------------------------------------------------------
(* Requests and Kafka messages *)

Predictions(r) ==
  IF kind = "belt" THEN {BeltPrediction(score) : score \in RipScores}
  ELSE {CrossingPrediction(r, f) : f \in Findings}

\* _require_model, or the loop's look at the state: without a model there is a 503, and messages
\* are passed over.  A bare classifier raises: the service is ready and answers nothing.
Predict(r) ==
  /\ process = "up" /\ served.model \in Trainings /\ request = {}
  /\ \E p \in Predictions(r) :
       request' = {[from |-> IF Replacing = {} THEN {served} ELSE {}, prediction |-> p]}
  /\ UNCHANGED <<storeVars, kind, process, load, stateVars, disturbed>>

\* What the answer to a request says: the version is that of the moment it is written.
Reply(q) ==
  [state |-> q.prediction.state, review |-> NeedsReview(q.prediction), version |-> reported]

Answer ==
  /\ request # {}
  /\ request' = {}
  /\ UNCHANGED <<storeVars, kind, process, load, stateVars, disturbed>>

-----------------------------------------------------------------------------
(* Specification *)

\* A save gets in the way of the loads that are under way.
Save(t) ==
  /\ SaveStep(t)
  /\ disturbed' = (disturbed \/ Loading # {})
  /\ UNCHANGED <<kind, process, load, stateVars, request>>

Next ==
  \/ \E t \in Trainings : Save(t)
  \/ \E t \in Trainings : (SaveElsewhere(t) \/ RegisterStep(t) \/ Dies(t)) /\ UNCHANGED serviceVars
  \/ PromoteStep /\ UNCHANGED serviceVars
  \/ Start \/ Reload \/ Killed
  \/ \E l \in Loaders : LoadStep(l)
  \/ \E r \in Readings : Predict(r)
  \/ Answer

\* The orchestrator starts a process that is down, and threads run on.
Fairness == WF_vars(Start) /\ \A l \in Loaders : WF_vars(LoadStep(l))

Spec == Init /\ [][Next]_vars /\ Fairness

-----------------------------------------------------------------------------
(* Properties *)

\* After a load that nothing got in the way of, the service serves one whole saved model, and the
\* version it reports, the card it shows and, for belts, the names of the features are that model's.
ServedAsSaved ==
  process = "up" /\ Loading = {} /\ ~disturbed =>
    /\ served.model \in Trainings
    /\ served.card = served.model /\ shown = served.model
    /\ kind = "belt" => served.names = served.model
    /\ reported = Name(served)

\* A service that is down, or failed to start, while the directory holds a whole model comes up
\* with a model, unless a training writes to the directory first, if it is not killed for ever.
StartsOnWholeDirectory ==
  <>[][~Killed]_vars =>
    (process \in {"down", "failed"} /\ Whole ~> served.model \in Trainings \/ ~Whole)

\* _load_model on its thread beside the predict endpoints: an answer during which no load was
\* replacing the model names the model that gave it, however many loads and saves got in each
\* other's way before it was asked.  The one other name it may give is that of the registry: a load
\* that found no directory writes it over the name of a load that found the first save.
AnswersNameTheirModel ==
  [][\A q \in request : \A m \in q.from : Answer => Reply(q).version \in {Name(m), RegistryName}]_vars
=============================================================================
