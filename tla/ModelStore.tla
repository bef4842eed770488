----------------------------- MODULE ModelStore -----------------------------
(***************************************************************************)
(* What trainings leave behind for the inference services: the files of a  *)
(* model directory (save() in ai/*/model.py) and the versions of the       *)
(* registry (ai/common/model_registry.py, local backend).  Trainings, the  *)
(* operator who promotes versions and the services are processes on shared *)
(* storage; a file that is being written is torn until the write ends, and *)
(* for good if its writer dies.  A model is named by its training.  The    *)
(* optional weights of the LSTM are left out: what saving or loading them  *)
(* raises is swallowed, and the classifier answers without them.           *)
(***************************************************************************)
EXTENDS Naturals, FiniteSetsExt

CONSTANTS
  NTrainings,  \* bound: trainings 1 .. NTrainings, each of which may run once
  MaxVersions  \* bound: numbers a version can get

ASSUME StoreAssumption == NTrainings \in Nat /\ MaxVersions \in Nat

Trainings == 1 .. NTrainings
Versions == 1 .. MaxVersions
Files == {"model", "card", "names"}
Absent == 0
Torn == NTrainings + 1
Stages == {"None", "Production"}

VARIABLES
  training,  \* where each training is; "dead" if its process was killed
  number,    \* the version number each training has got, or 0
  exists,    \* whether the model directory exists
  file,      \* what each file of the model directory holds
  artifact,  \* what v<n>.pkl holds, for each n
  meta,      \* the stage that v<n>.meta.json tells, "absent" or "torn"
  promoting  \* the version whose metadata is being rewritten, or 0

\* History: whether two trainings were ever registering at the same time.
VARIABLE collided

directoryVars == <<exists, file>>
registryVars == <<number, artifact, meta, collided>>
storeVars == <<training, directoryVars, registryVars, promoting>>

Content == Trainings \cup {Absent, Torn}

StoreTypeOK ==
  /\ training \in [Trainings -> {"idle", "model", "saved", "card", "carded", "names", "trained",
                                 "dumping", "dumped", "describing", "done", "dead"}]
  /\ number \in [Trainings -> Versions \cup {0}]
  /\ exists \in BOOLEAN
  /\ file \in [Files -> Content]
  /\ artifact \in [Versions -> Content]
  /\ meta \in [Versions -> Stages \cup {"absent", "torn"}]
  /\ promoting \in Versions \cup {0}
  /\ collided \in BOOLEAN

\* The init container makes the directory; a service elsewhere may have none.
StoreInit ==
  /\ training = [t \in Trainings |-> "idle"]
  /\ number = [t \in Trainings |-> 0]
  /\ exists \in BOOLEAN
  /\ file = [f \in Files |-> Absent]
  /\ artifact = [v \in Versions |-> Absent]
  /\ meta = [v \in Versions |-> "absent"]
  /\ promoting = 0
  /\ collided = FALSE

Goes(t, from, to) == training[t] = from /\ training' = [training EXCEPT ![t] = to]

-----------------------------------------------------------------------------
(* save: the classifier, then the model card, then the names of the features *)

Write(f, content) == file' = [file EXCEPT ![f] = content]

SaveBegins(t) ==
  /\ Goes(t, "idle", "model")
  /\ exists' = TRUE
  /\ Write("model", Torn)
  /\ UNCHANGED <<registryVars, promoting>>

SaveModelEnds(t) ==
  /\ Goes(t, "model", "saved")
  /\ Write("model", t)
  /\ UNCHANGED <<exists, registryVars, promoting>>

SaveCardBegins(t) ==
  /\ Goes(t, "saved", "card")
  /\ Write("card", Torn)
  /\ UNCHANGED <<exists, registryVars, promoting>>

SaveCardEnds(t) ==
  /\ Goes(t, "card", "carded")
  /\ Write("card", t)
  /\ UNCHANGED <<exists, registryVars, promoting>>

SaveNamesBegins(t) ==
  /\ Goes(t, "carded", "names")
  /\ Write("names", Torn)
  /\ UNCHANGED <<exists, registryVars, promoting>>

SaveEnds(t) ==
  /\ Goes(t, "names", "trained")
  /\ Write("names", t)
  /\ UNCHANGED <<exists, registryVars, promoting>>

\* --output-path may name another directory than that of the services.
SaveElsewhere(t) ==
  /\ Goes(t, "idle", "trained")
  /\ UNCHANGED <<directoryVars, registryVars, promoting>>

-----------------------------------------------------------------------------
(* register: number, artifact, metadata *)

Registered == {v \in Versions : meta[v] # "absent"}

\* MUTANT: the highest number, not the one above it.
NextVersionHighest == IF Registered = {} THEN 1 ELSE Max(Registered)

\* _next_version goes by the names of the metadata files.
NextVersion == IF Registered = {} THEN 1 ELSE Max(Registered) + 1

Registering == {t \in Trainings : training[t] \in {"dumping", "dumped", "describing"}}

RegisterBegins(t) ==
  /\ NextVersion \in Versions
  /\ Goes(t, "trained", "dumping")
  /\ number' = [number EXCEPT ![t] = NextVersion]
  /\ artifact' = [artifact EXCEPT ![NextVersion] = Torn]
  /\ collided' = (collided \/ Registering # {})
  /\ UNCHANGED <<directoryVars, meta, promoting>>

DumpEnds(t) ==
  /\ Goes(t, "dumping", "dumped")
  /\ artifact' = [artifact EXCEPT ![number[t]] = t]
  /\ UNCHANGED <<directoryVars, number, meta, collided, promoting>>

DescribeBegins(t) ==
  /\ Goes(t, "dumped", "describing")
  /\ meta' = [meta EXCEPT ![number[t]] = "torn"]
  /\ UNCHANGED <<directoryVars, number, artifact, collided, promoting>>

RegisterEnds(t) ==
  /\ Goes(t, "describing", "done")
  /\ meta' = [meta EXCEPT ![number[t]] = "None"]
  /\ UNCHANGED <<directoryVars, number, artifact, collided, promoting>>

\* Killed: whatever it was writing stays as it is.
Dies(t) ==
  /\ training[t] \notin {"idle", "done", "dead"}
  /\ training' = [training EXCEPT ![t] = "dead"]
  /\ UNCHANGED <<directoryVars, registryVars, promoting>>

-----------------------------------------------------------------------------
(* promote: read, change and rewrite the metadata of one version *)

PromoteBegins(v) ==
  /\ promoting = 0 /\ meta[v] \in Stages
  /\ promoting' = v
  /\ meta' = [meta EXCEPT ![v] = "torn"]
  /\ UNCHANGED <<training, directoryVars, number, artifact, collided>>

\* The version that was in production keeps its stage.
PromoteEnds ==
  /\ promoting # 0
  /\ promoting' = 0
  /\ meta' = [meta EXCEPT ![promoting] = "Production"]
  /\ UNCHANGED <<training, directoryVars, number, artifact, collided>>

-----------------------------------------------------------------------------
(* Lookup *)

InStage(stage) == {v \in Versions : meta[v] = stage}

\* latest_version: the highest in the stage, or of all when the stage has none.
LatestVersion(stage) == IF InStage(stage) # {} THEN Max(InStage(stage)) ELSE Max(Registered)

\* All the metadata can be read, there is a version, and its artifact can be read.
CanLoad(stage) ==
  InStage("torn") = {} /\ Registered # {} /\ artifact[LatestVersion(stage)] \in Trainings

SaveStep(t) ==
  \/ SaveBegins(t) \/ SaveModelEnds(t) \/ SaveCardBegins(t) \/ SaveCardEnds(t)
  \/ SaveNamesBegins(t) \/ SaveEnds(t)

RegisterStep(t) == RegisterBegins(t) \/ DumpEnds(t) \/ DescribeBegins(t) \/ RegisterEnds(t)
PromoteStep == (\E v \in Versions : PromoteBegins(v)) \/ PromoteEnds

StoreNext ==
  (\E t \in Trainings : SaveStep(t) \/ SaveElsewhere(t) \/ RegisterStep(t) \/ Dies(t)) \/ PromoteStep

StoreSpec == StoreInit /\ [][StoreNext]_storeVars

-----------------------------------------------------------------------------
(* Properties *)

\* Whatever dies when: a version that the registry lists has a whole artifact, the one of the
\* training that got its number, because the metadata is written last.  Two trainings that
\* register at once get the same number, and overwrite each other.
RegisteredIsLoadable ==
  ~collided =>
    \A v \in Registered : artifact[v] \in Trainings /\ number[artifact[v]] = v
=============================================================================
