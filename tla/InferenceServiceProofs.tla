----------------------- MODULE InferenceServiceProofs -----------------------
(***************************************************************************)
(* Proofs about the model store and the inference services.  First the     *)
(* store: for any number of trainings and versions, what the registry      *)
(* lists can be loaded, whoever dies when.  Then a service beside any      *)
(* number of trainings and loading threads: it leaves the store to the     *)
(* trainings, serves what was saved, and answers in the name of the model  *)
(* that it asked.                                                          *)
(***************************************************************************)
EXTENDS InferenceService, FiniteSetTheorems, WellFoundedInduction, TLAPS

(* The number of the next version *)

\* A set of versions that is not empty has a highest one.
LEMMA MaxOfVersions ==
  ASSUME NEW S \in SUBSET Versions, S # {}
  PROVE  Max(S) \in S /\ \A v \in S : Max(S) >= v
  <1> DEFINE above(v) == v .. MaxVersions
             T == {above(v) : v \in S}
  <1>1. MaxVersions \in Nat /\ \A v \in S : v \in Nat /\ v <= MaxVersions
    BY StoreAssumption DEF Versions
  <1>2. T \subseteq FiniteSubsetsOf(Nat) /\ T # {}
    <2>1. ASSUME NEW v \in S PROVE above(v) \in FiniteSubsetsOf(Nat)
      <3>1. v \in Int /\ MaxVersions \in Int
        BY <1>1
      <3>2. IsFiniteSet(v .. MaxVersions)
        BY <3>1, FS_Interval
      <3>3. v .. MaxVersions \subseteq Nat
        BY <1>1
      <3> QED
        BY <3>2, <3>3 DEF FiniteSubsetsOf
    <2> QED
      BY <2>1
  <1>3. PICK m \in S : \A y \in S : <<above(y), above(m)>> \notin StrictSubsetOrdering(Nat)
    <2>1. PICK x \in T : \A y \in T : <<y, x>> \notin StrictSubsetOrdering(Nat)
      BY <1>2, FS_StrictSubsetOrderingWellFounded, WFMin
    <2> QED
      BY <2>1
  <1>4. ASSUME NEW y \in S PROVE m >= y
    <2>1. SUFFICES ASSUME m < y PROVE FALSE
      BY <1>1
    <2>2. above(y) \subseteq above(m) /\ above(y) # above(m)
      <3>1. m \in above(m) /\ m \notin above(y)
        BY <1>1, <2>1
      <3>2. above(y) \subseteq above(m)
        BY <1>1, <2>1
      <3> QED
        BY <3>1, <3>2
    <2>3. above(y) \in SUBSET Nat /\ above(m) \in SUBSET Nat
      BY <1>1
    <2>4. <<above(y), above(m)>> \in StrictSubsetOrdering(Nat)
      BY <2>2, <2>3 DEF StrictSubsetOrdering
    <2> QED
      BY <1>3, <2>4
  <1> QED
    BY <1>4 DEF Max

\* model_registry.py, _next_version: the number of a new version is not that of any version that
\* the registry lists, with or without gaps in the numbers.
LEMMA NextVersionIsNew == NextVersion \notin Registered
  <1>1. CASE Registered = {}
    BY <1>1
  <1>2. CASE Registered # {}
    <2>1. Registered \in SUBSET Versions
      BY DEF Registered
    <2> DEFINE top == Max(Registered)
    <2>2. top \in Registered /\ \A v \in Registered : top >= v
      BY <1>2, <2>1, MaxOfVersions
    <2>3. NextVersion = top + 1
      BY <1>2 DEF NextVersion
    <2> HIDE DEF top
    <2>4. top \in Nat /\ \A v \in Registered : v \in Nat
      BY <2>1, <2>2, StoreAssumption DEF Versions
    <2> QED
      BY <2>2, <2>3, <2>4
  <1> QED
    BY <1>1, <1>2

-----------------------------------------------------------------------------
(* Types *)

LEMMA StoreTypeInit == StoreInit => StoreTypeOK
  BY StoreAssumption DEF StoreInit, StoreTypeOK, Content, Files, Absent, Stages

\* A training that registers, or has registered, has a number; one that has not begun has none.
NumberInv ==
  \A t \in Trainings :
    /\ training[t] \in {"dumping", "dumped", "describing"} => number[t] \in Versions
    /\ training[t] \in {"idle", "model", "saved", "card", "carded", "names", "trained"} => number[t] = 0

LEMMA StoreTypeStep ==
  ASSUME StoreTypeOK, NumberInv, [StoreNext]_storeVars
  PROVE  StoreTypeOK'
  <1>1. ASSUME NEW t \in Trainings, SaveStep(t) \/ SaveElsewhere(t)
        PROVE  StoreTypeOK'
    <2>1. Torn \in Content /\ t \in Content /\ Files = {"model", "card", "names"}
      BY DEF Content, Files
    <2>2. file' \in [Files -> Content]
      BY <1>1, <2>1 DEF SaveStep, SaveBegins, SaveModelEnds, SaveCardBegins, SaveCardEnds,
                SaveNamesBegins, SaveEnds, SaveElsewhere,
                        Write, StoreTypeOK, directoryVars
    <2> QED
      BY <1>1, <2>2 DEF SaveStep, SaveBegins, SaveModelEnds, SaveCardBegins, SaveCardEnds,
                SaveNamesBegins, SaveEnds, SaveElsewhere,
                        Goes, StoreTypeOK, registryVars, directoryVars
  <1>2. ASSUME NEW t \in Trainings, RegisterStep(t)
        PROVE  StoreTypeOK'
    <2>1. Torn \in Content /\ t \in Content /\ "None" \in Stages
      BY DEF Content, Stages
    <2> QED
      BY <1>2, <2>1 DEF RegisterStep, RegisterBegins, DumpEnds, DescribeBegins, RegisterEnds, Goes,
                        StoreTypeOK, directoryVars
  <1>3. ASSUME NEW t \in Trainings, Dies(t)
        PROVE  StoreTypeOK'
    BY <1>3 DEF Dies, StoreTypeOK, registryVars, directoryVars
  <1>4. CASE PromoteStep
    BY <1>4 DEF PromoteStep, PromoteBegins, PromoteEnds, Stages, StoreTypeOK, directoryVars
  <1>5. CASE UNCHANGED storeVars
    BY <1>5 DEF storeVars, registryVars, directoryVars, StoreTypeOK
  <1> QED
    BY <1>1, <1>2, <1>3, <1>4, <1>5 DEF StoreNext

LEMMA NumberStep ==
  ASSUME StoreTypeOK, NumberInv, [StoreNext]_storeVars
  PROVE  NumberInv'
  <1>1. ASSUME NEW t \in Trainings, SaveStep(t) \/ SaveElsewhere(t) \/ Dies(t)
        PROVE  NumberInv'
    BY <1>1 DEF SaveStep, SaveBegins, SaveModelEnds, SaveCardBegins, SaveCardEnds,
                SaveNamesBegins, SaveEnds, SaveElsewhere, Dies,
                Goes, NumberInv, StoreTypeOK, registryVars
  <1>2. ASSUME NEW t \in Trainings, RegisterStep(t)
        PROVE  NumberInv'
    BY <1>2 DEF RegisterStep, RegisterBegins, DumpEnds, DescribeBegins, RegisterEnds, Goes,
                NumberInv, StoreTypeOK
  <1>3. CASE PromoteStep \/ UNCHANGED storeVars
    BY <1>3 DEF PromoteStep, PromoteBegins, PromoteEnds, storeVars, registryVars, NumberInv
  <1> QED
    BY <1>1, <1>2, <1>3 DEF StoreNext

-----------------------------------------------------------------------------
(* Versions can be loaded *)

\* Of the trainings that never collided at most one registers, and from the dump on its artifact
\* is its own; the version that is being promoted is one that the registry lists.
RegistryInv ==
  /\ promoting # 0 => promoting \in Registered
  /\ ~collided =>
       /\ \A t, u \in Registering : t = u
       /\ \A t \in Registering : training[t] # "dumping" => artifact[number[t]] = t
       /\ \A t \in Registering : training[t] # "describing" => number[t] \notin Registered

StoreInv == StoreTypeOK /\ NumberInv /\ RegistryInv /\ RegisteredIsLoadable

\* Only the registry matters.
LEMMA RegistryUnchanged ==
  ASSUME RegistryInv, RegisteredIsLoadable,
         UNCHANGED <<registryVars, promoting>>, Registering' \subseteq Registering,
         \A t \in Registering' : training'[t] = training[t]
  PROVE  RegistryInv' /\ RegisteredIsLoadable'
  <1>1. Registered' = Registered
    BY DEF Registered, registryVars
  <1> QED
    BY <1>1 DEF RegistryInv, RegisteredIsLoadable, registryVars

LEMMA RegisterBeginsStep ==
  ASSUME StoreInv, NEW t \in Trainings, RegisterBegins(t)
  PROVE  RegistryInv' /\ RegisteredIsLoadable'
  <1> DEFINE n == NextVersion
  <1>1. /\ n \in Versions /\ n \notin Registered /\ Registered' = Registered
        /\ number'[t] = n /\ artifact'[n] = Torn
        /\ \A u \in Trainings \ {t} : number'[u] = number[u]
        /\ \A v \in Versions \ {n} : artifact'[v] = artifact[v]
    BY NextVersionIsNew DEF RegisterBegins, Registered, StoreInv, StoreTypeOK
  <1>2. /\ training[t] = "trained" /\ training'[t] = "dumping" /\ number[t] = 0
        /\ \A u \in Trainings \ {t} : training'[u] = training[u]
        /\ UNCHANGED promoting
    BY DEF RegisterBegins, Goes, StoreInv, StoreTypeOK, NumberInv
  <1> HIDE DEF n
  <1>3. ~collided' => ~collided /\ Registering = {} /\ Registering' = {t}
    BY <1>2 DEF RegisterBegins, Registering
  <1>4. RegistryInv'
    BY <1>1, <1>2, <1>3 DEF RegistryInv, StoreInv
  <1>5. ASSUME ~collided', NEW v \in Registered
        PROVE  artifact'[v] \in Trainings /\ number'[artifact'[v]] = v
    <2>1. artifact[v] \in Trainings /\ number[artifact[v]] = v /\ v # 0 /\ v \in Versions
      BY <1>3, <1>5 DEF StoreInv, RegisteredIsLoadable, Registered, Versions
    <2> QED
      BY <1>1, <1>2, <2>1
  <1> QED
    BY <1>1, <1>4, <1>5 DEF RegisteredIsLoadable

LEMMA DumpEndsStep ==
  ASSUME StoreInv, NEW t \in Trainings, DumpEnds(t)
  PROVE  RegistryInv' /\ RegisteredIsLoadable'
  <1>1. /\ training[t] = "dumping" /\ training'[t] = "dumped" /\ number[t] \in Versions
        /\ \A u \in Trainings \ {t} : training'[u] = training[u]
        /\ UNCHANGED <<number, promoting, collided>> /\ Registered' = Registered
        /\ artifact'[number[t]] = t
        /\ \A v \in Versions \ {number[t]} : artifact'[v] = artifact[v]
    BY DEF DumpEnds, Goes, StoreInv, StoreTypeOK, NumberInv, Registered
  <1>2. t \in Registering /\ Registering' = Registering
    BY <1>1 DEF Registering
  <1>3. ~collided => Registering = {t} /\ number[t] \notin Registered
    BY <1>1, <1>2 DEF StoreInv, RegistryInv
  <1>4. RegistryInv'
    BY <1>1, <1>2, <1>3 DEF StoreInv, RegistryInv
  <1>5. RegisteredIsLoadable'
    BY <1>1, <1>3 DEF StoreInv, RegisteredIsLoadable, Registered
  <1> QED
    BY <1>4, <1>5

\* The metadata is created, or completed.
LEMMA DescribeStep ==
  ASSUME StoreInv, NEW t \in Trainings, DescribeBegins(t) \/ RegisterEnds(t)
  PROVE  RegistryInv' /\ RegisteredIsLoadable'
  <1>1. /\ training[t] \in {"dumped", "describing"} /\ number[t] \in Versions
        /\ training'[t] \in {"describing", "done"}
        /\ \A u \in Trainings \ {t} : training'[u] = training[u]
        /\ UNCHANGED <<number, artifact, promoting, collided>>
        /\ meta'[number[t]] # "absent"
        /\ \A v \in Versions \ {number[t]} : meta'[v] = meta[v]
    BY DEF DescribeBegins, RegisterEnds, Goes, StoreInv, StoreTypeOK, NumberInv
  <1>2. Registered' = Registered \cup {number[t]}
    BY <1>1 DEF Registered
  <1>3. t \in Registering /\ Registering' \subseteq Registering
    BY <1>1 DEF Registering
  <1>4. ~collided => Registering = {t} /\ artifact[number[t]] = t
    BY <1>1, <1>3 DEF StoreInv, RegistryInv
  <1>5. RegistryInv'
    <2>1. promoting' # 0 => promoting' \in Registered'
      BY <1>1, <1>2 DEF StoreInv, RegistryInv
    <2>2. ASSUME ~collided', NEW u \in Registering'
          PROVE  u = t /\ training'[t] = "describing" /\ artifact'[number'[t]] = t
      <3>1. u = t
        BY <1>1, <1>3, <1>4, <2>2
      <3> QED
        BY <1>1, <1>4, <2>2, <3>1 DEF Registering
    <2> QED
      BY <2>1, <2>2 DEF RegistryInv
  <1>6. RegisteredIsLoadable'
    BY <1>1, <1>2, <1>4 DEF StoreInv, RegisteredIsLoadable
  <1> QED
    BY <1>5, <1>6

LEMMA PromoteIsSafe ==
  ASSUME StoreInv, PromoteStep
  PROVE  RegistryInv' /\ RegisteredIsLoadable'
  <1>1. UNCHANGED <<training, number, artifact, collided>> /\ Registering' = Registering
    BY DEF PromoteStep, PromoteBegins, PromoteEnds, Registering
  <1>2. Registered' = Registered /\ (promoting' # 0 => promoting' \in Registered')
    <2>1. ASSUME NEW v \in Versions, PromoteBegins(v)
          PROVE  Registered' = Registered /\ promoting' \in Registered'
      BY <2>1 DEF PromoteBegins, Registered, Stages, StoreInv, StoreTypeOK
    <2>2. CASE PromoteEnds
      BY <2>2 DEF PromoteEnds, Registered, StoreInv, StoreTypeOK, RegistryInv
    <2> QED
      BY <2>1, <2>2 DEF PromoteStep
  <1> QED
    BY <1>1, <1>2 DEF StoreInv, RegistryInv, RegisteredIsLoadable

LEMMA StoreInitInv == StoreInit => StoreInv
  BY StoreTypeInit
     DEF StoreInit, StoreInv, NumberInv, RegistryInv, RegisteredIsLoadable, Registered, Registering

LEMMA StoreInvStep == StoreInv /\ [StoreNext]_storeVars => StoreInv'
  <1> SUFFICES ASSUME StoreInv, [StoreNext]_storeVars PROVE StoreInv'
    OBVIOUS
  <1>1. StoreTypeOK' /\ NumberInv'
    BY StoreTypeStep, NumberStep DEF StoreInv
  <1>2. ASSUME NEW t \in Trainings, SaveStep(t) \/ SaveElsewhere(t) \/ Dies(t)
        PROVE  RegistryInv' /\ RegisteredIsLoadable'
    <2>1. /\ UNCHANGED <<registryVars, promoting>>
          /\ training'[t] \notin {"dumping", "dumped", "describing"}
          /\ \A u \in Trainings \ {t} : training'[u] = training[u]
      BY <1>2 DEF SaveStep, SaveBegins, SaveModelEnds, SaveCardBegins, SaveCardEnds,
                SaveNamesBegins, SaveEnds, SaveElsewhere, Dies,
                  Goes, StoreInv, StoreTypeOK
    <2>2. Registering' \subseteq Registering /\ \A u \in Registering' : training'[u] = training[u]
      BY <2>1 DEF Registering
    <2> QED
      BY <2>1, <2>2, RegistryUnchanged DEF StoreInv
  <1>3. ASSUME UNCHANGED storeVars
        PROVE  RegistryInv' /\ RegisteredIsLoadable'
    <2>1. UNCHANGED <<registryVars, promoting, training>>
      BY <1>3 DEF storeVars
    <2>2. Registering' = Registering
      BY <2>1 DEF Registering
    <2> QED
      BY <2>1, <2>2, RegistryUnchanged DEF StoreInv
  <1>4. RegistryInv' /\ RegisteredIsLoadable'
    BY <1>2, <1>3, RegisterBeginsStep, DumpEndsStep, DescribeStep, PromoteIsSafe DEF StoreNext, RegisterStep
  <1> QED
    BY <1>1, <1>4 DEF StoreInv

\* Whatever dies when, a version that the registry lists has a whole artifact of its own training,
\* unless two trainings registered at once (model_registry.py, register).
THEOREM VersionsCanBeLoaded == StoreSpec => []RegisteredIsLoadable
  <1>1. StoreInv => RegisteredIsLoadable
    BY DEF StoreInv
  <1> QED
    BY <1>1, StoreInitInv, StoreInvStep, PTL DEF StoreSpec

-----------------------------------------------------------------------------
(* A service over the store *)

\* ai/*/inference_service.py: what the service does to files and registry is nothing, so every
\* step of the two is a step of the store or leaves it alone.
THEOREM ServiceUsesStore == Spec => StoreSpec
  <1>1. Init => StoreInit
    BY DEF Init
  <1>2. [Next]_vars => [StoreNext]_storeVars
    <2> SUFFICES ASSUME [Next]_vars PROVE [StoreNext]_storeVars
      OBVIOUS
    <2>1. CASE Next
      <3>1. ASSUME NEW t \in Trainings, Save(t) \/ SaveElsewhere(t) \/ RegisterStep(t) \/ Dies(t)
            PROVE  StoreNext
        BY <3>1 DEF StoreNext, Save
      <3>2. CASE PromoteStep
        BY <3>2 DEF StoreNext
      <3>3. CASE Start \/ Reload \/ Killed \/ Answer
        BY <3>3 DEF Start, Reload, Begins, Killed, Answer
      <3>4. ASSUME NEW l \in Loaders, LoadStep(l) PROVE UNCHANGED storeVars
        BY <3>4 DEF LoadStep, LookUp, ReadFile, SetModel, SetName, ShowCard
      <3>5. ASSUME NEW r \in Readings, Predict(r) PROVE UNCHANGED storeVars
        BY <3>5 DEF Predict
      <3> QED
        BY <2>1, <3>1, <3>2, <3>3, <3>4, <3>5 DEF Next
    <2>2. CASE UNCHANGED vars
      BY <2>2 DEF vars
    <2> QED
      BY <2>1, <2>2
  <1> QED
    BY <1>1, <1>2, PTL DEF Spec, StoreSpec

\* ai/common/model_registry.py: what the registry lists can be loaded, also beside a service.
THEOREM ServiceVersionsCanBeLoaded == Spec => []RegisteredIsLoadable
  BY ServiceUsesStore, VersionsCanBeLoaded, PTL

-----------------------------------------------------------------------------
(* What is served *)

\* A training that has begun to save has made the directory, and before that it holds nothing.
DirectoryInv ==
  /\ DOMAIN training = Trainings
  /\ ~exists =>
       /\ file["model"] = Absent
       /\ \A t \in Trainings : training[t] \notin {"model", "saved", "card", "carded", "names"}

\* How far a load has come that nothing got in the way of.
Undisturbed(l) ==
  LET pc == load[l].pc
      t == file["model"]
  IN /\ pc = "second" => IF kind = "belt" THEN load[l].names = t ELSE load[l].model = t
     /\ pc = "third" => kind = "belt" /\ load[l].names = t /\ load[l].card = t
     /\ pc = "made" => /\ load[l].card = t /\ load[l].model = t
                       /\ kind = "belt" => load[l].names = t
     /\ pc \in {"set", "named"} => /\ served.model = t /\ served.card = t
                                   /\ kind = "belt" => served.names = t
                                   /\ load[l].model = Absent
     /\ pc = "named" => reported = Name(served)

\* The records of loads.
LoadsOK ==
  /\ DOMAIN load = Loaders
  /\ \A l \in Loaders :
       load[l] = [pc |-> load[l].pc, model |-> load[l].model, card |-> load[l].card,
                  names |-> load[l].names]

ServedInv ==
  /\ LoadsOK
  /\ DirectoryInv
  /\ ~disturbed =>
       \A l \in Loading : Loading = {l} /\ Whole /\ Undisturbed(l)
  /\ ServedAsSaved

\* A model's number is neither that of no file nor that of a torn one.
LEMMA TrainingsAreWhole ==
  \A t \in Trainings : t # Absent /\ t # Torn
  BY StoreAssumption DEF Trainings, Absent, Torn

LEMMA ServedInit == Init => ServedInv
  BY DEF Init, StoreInit, ServedInv, LoadsOK, DirectoryInv, NoLoad, Loading, ServedAsSaved,
         Files

LEMMA DirectoryStep ==
  ASSUME DirectoryInv, [StoreNext]_storeVars
  PROVE  DirectoryInv'
  <1> USE DEF DirectoryInv
  <1>1. ASSUME NEW t \in Trainings, SaveStep(t) PROVE DirectoryInv'
    BY <1>1 DEF SaveStep, SaveBegins, SaveModelEnds, SaveCardBegins, SaveCardEnds,
                SaveNamesBegins, SaveEnds, Goes
  <1>2. ASSUME NEW t \in Trainings, SaveElsewhere(t) \/ Dies(t) PROVE DirectoryInv'
    BY <1>2 DEF SaveElsewhere, Dies, Goes, directoryVars
  <1>3. ASSUME NEW t \in Trainings, RegisterStep(t) PROVE DirectoryInv'
    BY <1>3 DEF RegisterStep, RegisterBegins, DumpEnds, DescribeBegins, RegisterEnds, Goes, directoryVars
  <1>4. CASE PromoteStep \/ UNCHANGED storeVars
    BY <1>4 DEF PromoteStep, PromoteBegins, PromoteEnds, storeVars, directoryVars
  <1> QED
    BY <1>1, <1>2, <1>3, <1>4 DEF StoreNext

\* Where a load is that begins, goes on, or ends, and that the others are where they were.
LEMMA LoadingAfter ==
  ASSUME LoadsOK, NEW l \in Loaders, DOMAIN load' = Loaders,
         \A k \in Loaders \ {l} : load'[k] = load[k]
  PROVE  /\ load'[l].pc = "idle" => Loading' = Loading \ {l}
         /\ load'[l].pc # "idle" => Loading' = Loading \cup {l}
  BY DEF Loading

\* A load that begins is undisturbed only if the directory holds a whole model and no other is
\* under way.
LEMMA BeginsServed ==
  ASSUME ServedInv, NEW l \in Loaders, Begins(l)
  PROVE  ServedInv'
  <1>1. /\ load[l].pc = "idle" /\ load'[l] = [load[l] EXCEPT !.pc = "begun"]
        /\ DOMAIN load' = Loaders /\ \A k \in Loaders \ {l} : load'[k] = load[k]
        /\ disturbed' = (~Whole \/ Loading # {})
        /\ UNCHANGED <<storeVars, kind, served, reported, shown>>
    BY DEF Begins, Step, ServedInv, LoadsOK, stateVars
  <1>2. load'[l].pc = "begun" /\ LoadsOK'
    BY <1>1 DEF ServedInv, LoadsOK
  <1>3. Loading' = Loading \cup {l}
    BY <1>1, <1>2, LoadingAfter DEF ServedInv
  <1>4. Whole' = Whole /\ DirectoryInv'
    BY <1>1, DirectoryStep DEF ServedInv, Whole, storeVars, directoryVars
  <1>5. ASSUME ~disturbed', NEW k \in Loading'
        PROVE  Loading' = {k} /\ Whole' /\ Undisturbed(k)'
    <2>1. k = l /\ Loading' = {l} /\ Whole
      BY <1>1, <1>3, <1>5
    <2> QED
      BY <1>2, <1>4, <2>1 DEF Undisturbed
  <1> QED
    BY <1>2, <1>3, <1>4, <1>5 DEF ServedInv, ServedAsSaved

\* A file that can be read becomes what the load has read of it, and nothing else changes.
LEMMA FileRead ==
  ASSUME LoadsOK, NEW l \in Loaders, NEW from \in {"first", "second", "third"}, NEW to,
         ReadFile(l, from, to), ~Unreadable(FileAt(from))
  PROVE  /\ LoadsOK' /\ \A k \in Loaders \ {l} : load'[k] = load[k]
         /\ load'[l].pc = to
         /\ \A f \in Files : load'[l][f] = IF f = FileAt(from) THEN file[f] ELSE load[l][f]
  <1> DEFINE g == FileAt(from)
  <1>1. g \in {"model", "card", "names"}
    BY DEF FileAt
  <1>2. load' = [load EXCEPT ![l].pc = to, ![l][g] = file[g]]
    BY DEF ReadFile
  <1>3. /\ DOMAIN load = Loaders
        /\ load[l] = [pc |-> load[l].pc, model |-> load[l].model, card |-> load[l].card,
                      names |-> load[l].names]
    BY DEF LoadsOK
  <1> HIDE DEF g
  <1>4. /\ load'[l] = [[load[l] EXCEPT !.pc = to] EXCEPT ![g] = file[g]]
        /\ DOMAIN load' = Loaders /\ \A k \in Loaders \ {l} : load'[k] = load[k]
    BY <1>2, <1>3
  <1>5. load'[l] = [pc |-> to,
                    model |-> IF g = "model" THEN file["model"] ELSE load[l].model,
                    card |-> IF g = "card" THEN file["card"] ELSE load[l].card,
                    names |-> IF g = "names" THEN file["names"] ELSE load[l].names]
    <2>1. CASE g = "model"
      BY <1>3, <1>4, <2>1
    <2>2. CASE g = "card"
      BY <1>3, <1>4, <2>2
    <2>3. CASE g = "names"
      BY <1>3, <1>4, <2>3
    <2> QED
      BY <1>1, <2>1, <2>2, <2>3
  <1>6. load'[l] = [pc |-> load'[l].pc, model |-> load'[l].model, card |-> load'[l].card,
                    names |-> load'[l].names]
    BY <1>5
  <1>7. LoadsOK'
    BY <1>4, <1>6 DEF LoadsOK
  <1>8. ASSUME NEW f \in Files
        PROVE  load'[l][f] = IF f = g THEN file[f] ELSE load[l][f]
    <2>1. CASE f = "model"
      BY <1>5, <2>1
    <2>2. CASE f = "card"
      BY <1>5, <2>2
    <2>3. CASE f = "names"
      BY <1>5, <2>3
    <2> QED
      BY <2>1, <2>2, <2>3 DEF Files
  <1>9. load'[l].pc = to
    BY <1>5
  <1> QED
    BY <1>4, <1>7, <1>8, <1>9 DEF g

\* A step of a load changes its own record only.
LEMMA LoadChanges ==
  ASSUME LoadsOK, NEW l \in Loaders, LoadStep(l)
  PROVE  /\ load[l].pc # "idle" /\ LoadsOK'
         /\ \A k \in Loaders \ {l} : load'[k] = load[k]
         /\ UNCHANGED <<storeVars, kind, disturbed>>
  <1>1. load[l].pc # "idle"
    BY DEF LoadStep, LookUp, ReadFile, SetModel, SetName, ShowCard, Step
  <1>2. UNCHANGED <<storeVars, kind, disturbed>>
    BY DEF LoadStep, LookUp, ReadFile, SetModel, SetName, ShowCard
  <1>3. LoadsOK' /\ \A k \in Loaders \ {l} : load'[k] = load[k]
    <2>1. CASE LookUp(l)
      BY <2>1 DEF LookUp, Step, Ends, LoadsOK, NoLoad
    <2>2. ASSUME NEW from \in {"first", "second", "third"}, NEW to, ReadFile(l, from, to)
          PROVE  LoadsOK' /\ \A k \in Loaders \ {l} : load'[k] = load[k]
      <3>1. CASE Unreadable(FileAt(from))
        BY <2>2, <3>1 DEF ReadFile, Raises, LoadsOK, NoLoad
      <3>2. CASE ~Unreadable(FileAt(from))
        BY <2>2, <3>2, FileRead
      <3> QED
        BY <3>1, <3>2
    <2>3. CASE SetModel(l)
      BY <2>3 DEF SetModel, LoadsOK, NoLoad
    <2>4. CASE SetName(l)
      BY <2>4 DEF SetName, Step, LoadsOK
    <2>5. CASE ShowCard(l)
      BY <2>5 DEF ShowCard, Raises, Ends, LoadsOK, NoLoad
    <2> QED
      BY <2>1, <2>2, <2>3, <2>4, <2>5 DEF LoadStep
  <1> QED
    BY <1>1, <1>2, <1>3

\* A load that nothing gets in the way of goes on undisturbed, or ends with its model served.
LEMMA LoadGoesOn ==
  ASSUME LoadsOK, DirectoryInv, NEW l \in Loaders, LoadStep(l), Whole, Undisturbed(l)
  PROVE  \/ load'[l].pc # "idle" /\ Undisturbed(l)'
         \/ /\ load'[l].pc = "idle"
            /\ served'.model \in Trainings /\ served'.card = served'.model
            /\ kind' = "belt" => served'.names = served'.model
            /\ shown' = served'.model /\ (reported = Name(served))'
  <1> DEFINE t == file["model"]
  <1>0. /\ t \in Trainings /\ file["card"] = t /\ file' = file /\ kind' = kind
        /\ kind = "belt" => file["names"] = t
        /\ t # Absent /\ t # Torn
    BY LoadChanges, TrainingsAreWhole DEF Whole, storeVars, directoryVars
  <1>1. load[l] = [pc |-> load[l].pc, model |-> load[l].model, card |-> load[l].card,
                   names |-> load[l].names]
    BY DEF LoadsOK
  <1> HIDE DEF t
  <1>2. CASE LookUp(l)
    <2>1. exists
      BY <1>0 DEF DirectoryInv, t
    <2>2. load'[l].pc = "first"
      BY <1>1, <1>2, <2>1 DEF LookUp, Step, LoadsOK
    <2> QED
      BY <2>2 DEF Undisturbed
  <1>3. CASE ReadFile(l, "first", "second")
    <2>1. FileAt("first") = IF kind = "belt" THEN "names" ELSE "model"
      BY DEF FileAt
    <2>2. ~Unreadable(FileAt("first"))
      BY <1>0, <2>1 DEF Unreadable, t
    <2>3. /\ load'[l].pc = "second"
          /\ \A f \in Files : load'[l][f] = IF f = FileAt("first") THEN file[f] ELSE load[l][f]
      BY <1>3, <2>2, FileRead
    <2> QED
      BY <1>0, <2>1, <2>3 DEF Undisturbed, Files, t
  <1>4. CASE ReadFile(l, "second", AfterCard)
    <2>1. FileAt("second") = "card" /\ load[l].pc = "second"
      BY <1>4 DEF FileAt, ReadFile
    <2>2. ~Unreadable(FileAt("second"))
      BY <1>0, <2>1 DEF Unreadable, t
    <2>3. /\ load'[l].pc = AfterCard
          /\ \A f \in Files : load'[l][f] = IF f = "card" THEN file[f] ELSE load[l][f]
      BY <1>4, <2>1, <2>2, FileRead
    <2>4. /\ load'[l].card = t /\ load'[l].model = load[l].model
          /\ load'[l].names = load[l].names
      BY <1>0, <2>3 DEF Files
    <2>5. IF kind = "belt" THEN load'[l].names = t ELSE load'[l].model = t
      BY <2>1, <2>4 DEF Undisturbed, t
    <2> QED
      BY <1>0, <2>3, <2>4, <2>5 DEF Undisturbed, AfterCard, t
  <1>8. CASE ReadFile(l, "third", "made")
    <2>1. FileAt("third") = "model" /\ load[l].pc = "third"
      BY <1>8 DEF FileAt, ReadFile
    <2>2. ~Unreadable(FileAt("third"))
      BY <1>0, <2>1 DEF Unreadable, t
    <2>3. /\ load'[l].pc = "made"
          /\ \A f \in Files : load'[l][f] = IF f = "model" THEN file[f] ELSE load[l][f]
      BY <1>8, <2>1, <2>2, FileRead
    <2>4. /\ load'[l].model = t /\ load'[l].card = load[l].card
          /\ load'[l].names = load[l].names
      BY <2>3 DEF Files, t
    <2>5. load'[l].card = t /\ load'[l].names = t
      BY <2>1, <2>4 DEF Undisturbed, t
    <2> QED
      BY <1>0, <2>3, <2>4, <2>5 DEF Undisturbed, t
  <1>5. CASE SetModel(l)
    <2>1. /\ load'[l].pc = "set" /\ load'[l].model = Absent
          /\ served'.model = t /\ served'.card = t
          /\ kind = "belt" => served'.names = t
      BY <1>5 DEF SetModel, NoLoad, LoadsOK, Undisturbed, t
    <2>2. file'["model"] = t /\ kind' = kind
      BY <1>0 DEF t
    <2> QED
      BY <2>1, <2>2 DEF Undisturbed
  <1>6. CASE SetName(l)
    <2>1. /\ load'[l].pc = "named" /\ load'[l].model = load[l].model /\ served' = served
          /\ load[l].pc = "set"
          /\ reported' = Name(IF load[l].model = Raw THEN load[l] ELSE served)
      BY <1>1, <1>6 DEF SetName, Step, LoadsOK
    <2>2. /\ served.model = t /\ served.card = t /\ load[l].model = Absent
          /\ kind = "belt" => served.names = t
      BY <2>1 DEF Undisturbed, t
    <2>3. Absent # Raw
      BY StoreAssumption DEF Absent, Raw
    <2>4. reported' = Name(served) /\ Name(served)' = Name(served)
      BY <1>0, <2>1, <2>2, <2>3 DEF Name
    <2> QED
      BY <1>0, <2>1, <2>2, <2>4 DEF Undisturbed, t
  <1>7. CASE ShowCard(l)
    <2>1. ~Unreadable("card")
      BY <1>0 DEF Unreadable
    <2>2. /\ load'[l].pc = "idle" /\ shown' = t
          /\ served' = served /\ reported' = reported
          /\ load[l].pc = "named"
      BY <1>0, <1>7, <2>1 DEF ShowCard, Ends, NoLoad, LoadsOK
    <2>3. /\ served.model = t /\ served.card = t /\ reported = Name(served)
          /\ kind = "belt" => served.names = t
      BY <2>2 DEF Undisturbed, t
    <2>4. Name(served)' = Name(served)
      BY <1>0, <2>2 DEF Name
    <2> QED
      BY <1>0, <2>2, <2>3, <2>4
  <1> QED
    BY <1>2, <1>3, <1>4, <1>5, <1>6, <1>7, <1>8 DEF LoadStep

LEMMA LoadServed ==
  ASSUME ServedInv, NEW l \in Loaders, LoadStep(l)
  PROVE  ServedInv'
  <1>1. /\ load[l].pc # "idle" /\ LoadsOK'
        /\ \A k \in Loaders \ {l} : load'[k] = load[k]
        /\ disturbed' = disturbed
    BY LoadChanges DEF ServedInv
  <1>2. DirectoryInv' /\ Whole' = Whole
    BY LoadChanges, DirectoryStep DEF ServedInv, storeVars, directoryVars, Whole
  <1>3. CASE disturbed
    BY <1>1, <1>2, <1>3 DEF ServedInv, ServedAsSaved
  <1>4. CASE ~disturbed
    <2>1. Loading = {l} /\ Whole /\ Undisturbed(l)
      BY <1>1, <1>4 DEF ServedInv, Loading
    <2>2. /\ load'[l].pc = "idle" => Loading' = {}
          /\ load'[l].pc # "idle" => Loading' = {l}
      BY <1>1, <2>1, LoadingAfter DEF LoadsOK, ServedInv
    <2>3. CASE load'[l].pc # "idle" /\ Undisturbed(l)'
      BY <1>1, <1>2, <2>1, <2>2, <2>3 DEF ServedInv, ServedAsSaved
    <2>4. CASE /\ load'[l].pc = "idle"
               /\ served'.model \in Trainings /\ served'.card = served'.model
               /\ kind' = "belt" => served'.names = served'.model
               /\ shown' = served'.model /\ (reported = Name(served))'
      BY <1>1, <1>2, <2>2, <2>4 DEF ServedInv, ServedAsSaved
    <2> QED
      BY <2>1, <2>3, <2>4, LoadGoesOn DEF ServedInv
  <1> QED
    BY <1>3, <1>4

\* A save leaves the service alone, and is noted if a load is under way.
LEMMA SaveServed ==
  ASSUME ServedInv, NEW t \in Trainings, Save(t)
  PROVE  ServedInv'
  <1>1. /\ disturbed' = (disturbed \/ Loading # {}) /\ SaveStep(t)
        /\ UNCHANGED <<kind, process, load, served, reported, shown>>
    BY DEF Save, stateVars
  <1>2. DirectoryInv'
    BY <1>1, DirectoryStep DEF ServedInv, StoreNext
  <1>3. Loading' = Loading /\ LoadsOK' /\ Name(served)' = Name(served)
    BY <1>1 DEF Loading, LoadsOK, ServedInv, Name
  <1> QED
    BY <1>1, <1>2, <1>3 DEF ServedInv, ServedAsSaved

\* Steps that touch neither the model directory nor loads nor what is served.
LEMMA OthersServed ==
  ASSUME ServedInv, [StoreNext]_storeVars, UNCHANGED directoryVars,
         UNCHANGED <<kind, process, load, stateVars, disturbed>>
  PROVE  ServedInv'
  <1>1. DirectoryInv' /\ Whole' = Whole
    BY DirectoryStep DEF ServedInv, directoryVars, Whole
  <1>2. Loading' = Loading /\ LoadsOK' /\ Name(served)' = Name(served)
    BY DEF Loading, LoadsOK, ServedInv, Name, stateVars
  <1>3. \A l \in Loading : Undisturbed(l) => Undisturbed(l)'
    BY <1>2 DEF Undisturbed, directoryVars, stateVars
  <1> QED
    BY <1>1, <1>2, <1>3 DEF ServedInv, ServedAsSaved, stateVars

LEMMA ServedNext == ServedInv /\ [Next]_vars => ServedInv'
  <1> SUFFICES ASSUME ServedInv, [Next]_vars PROVE ServedInv'
    OBVIOUS
  <1>1. CASE Start \/ Reload
    BY <1>1, BeginsServed DEF Start, Reload
  <1>2. ASSUME NEW t \in Trainings, Save(t) PROVE ServedInv'
    BY <1>2, SaveServed
  <1>3. ASSUME NEW t \in Trainings, SaveElsewhere(t) \/ RegisterStep(t) \/ Dies(t),
               UNCHANGED serviceVars
        PROVE  ServedInv'
    <2>1. StoreNext /\ UNCHANGED directoryVars
      BY <1>3 DEF StoreNext, SaveElsewhere, RegisterStep, RegisterBegins, DumpEnds, DescribeBegins,
                  RegisterEnds, Dies
    <2> QED
      BY <1>3, <2>1, OthersServed DEF serviceVars
  <1>4. CASE PromoteStep /\ UNCHANGED serviceVars
    <2>1. StoreNext /\ UNCHANGED directoryVars
      BY <1>4 DEF StoreNext, PromoteStep, PromoteBegins, PromoteEnds
    <2> QED
      BY <1>4, <2>1, OthersServed DEF serviceVars
  <1>5. CASE Killed
    <2>1. /\ load' = [l \in Loaders |-> NoLoad] /\ process' = "down"
          /\ UNCHANGED <<storeVars, kind, disturbed>>
      BY <1>5 DEF Killed
    <2>2. LoadsOK' /\ Loading' = {}
      BY <2>1 DEF LoadsOK, Loading, NoLoad
    <2>3. DirectoryInv'
      BY <2>1, DirectoryStep DEF ServedInv
    <2> QED
      BY <2>1, <2>2, <2>3 DEF ServedInv, ServedAsSaved
  <1>6. ASSUME NEW l \in Loaders, LoadStep(l) PROVE ServedInv'
    BY <1>6, LoadServed
  <1>7. CASE Answer \/ (\E r \in Readings : Predict(r)) \/ UNCHANGED vars
    <2>1. UNCHANGED storeVars /\ UNCHANGED <<kind, process, load, stateVars, disturbed>>
      BY <1>7 DEF Answer, Predict, vars, serviceVars
    <2> QED
      BY <2>1, OthersServed DEF storeVars
  <1> QED
    BY <1>1, <1>2, <1>3, <1>4, <1>5, <1>6, <1>7 DEF Next

\* ai/*/inference_service.py, _load_model: after a load that no save and no other load got in the
\* way of, the model, its card and the version are those of one training, for any number of
\* threads, reloads, kills and trainings.
THEOREM ServesWhatWasSaved == Spec => []ServedAsSaved
  <1>1. ServedInv => ServedAsSaved
    BY DEF ServedInv
  <1> QED
    BY ServedInit, ServedNext, <1>1, PTL DEF Spec

-----------------------------------------------------------------------------
(* Answers *)

\* While no load is between its model and its name, the version is that of the model served or
\* what the registry left; and a request whose model nobody replaced finds that model still served.
NameInv ==
  served.model \in Trainings /\ Replacing = {} => reported \in {Name(served), RegistryName}

RequestInv ==
  \A q \in request :
    /\ q = [from |-> q.from, prediction |-> q.prediction]
    /\ q.from # {} => q.from = {served} /\ served.model \in Trainings /\ Replacing = {}

AnswerInv == NameInv /\ RequestInv

LEMMA AnswerInit == Init => AnswerInv
  <1> SUFFICES ASSUME Init PROVE AnswerInv
    OBVIOUS
  <1>1. request = {} /\ served.model = Absent /\ Absent \notin Trainings
    BY TrainingsAreWhole DEF Init, NoModel
  <1> QED
    BY <1>1 DEF AnswerInv, NameInv, RequestInv

\* What leaves the state and the loads that replace it alone keeps the names right.
LEMMA AnswerKept ==
  ASSUME AnswerInv, UNCHANGED <<kind, served, reported>>, Replacing' = Replacing,
         request' \in {request, {}}
  PROVE  AnswerInv'
  BY DEF AnswerInv, NameInv, RequestInv, Name, RegistryName

\* Where a load that steps is, for what is being replaced.
LEMMA ReplacingAfter ==
  ASSUME LoadsOK, NEW l \in Loaders, LoadsOK', \A k \in Loaders \ {l} : load'[k] = load[k]
  PROVE  /\ load[l].pc # "set" /\ load'[l].pc # "set" => Replacing' = Replacing
         /\ load'[l].pc = "set" => l \in Replacing'
         /\ load[l].pc = "set" => l \in Replacing
  BY DEF Replacing, LoadsOK

\* A model that is set ends what requests may claim, until it has its name.
LEMMA ModelReplaced ==
  ASSUME AnswerInv, NEW l \in Loaders, l \in Replacing', request' = Overtaken
  PROVE  AnswerInv'
  <1>1. ASSUME NEW q \in request'
        PROVE  q = [from |-> {}, prediction |-> q.prediction]
    <2>1. PICK old \in request : q = [old EXCEPT !.from = {}]
      BY <1>1 DEF Overtaken
    <2>2. old = [from |-> old.from, prediction |-> old.prediction]
      BY DEF AnswerInv, RequestInv
    <2> QED
      BY <2>1, <2>2
  <1> QED
    BY <1>1 DEF AnswerInv, NameInv, RequestInv

LEMMA LoadAnswers ==
  ASSUME AnswerInv, LoadsOK, NEW l \in Loaders, LoadStep(l)
  PROVE  AnswerInv'
  <1>1. LoadsOK' /\ UNCHANGED kind /\ \A k \in Loaders \ {l} : load'[k] = load[k]
    BY LoadChanges
  <1>2. load[l] = [pc |-> load[l].pc, model |-> load[l].model, card |-> load[l].card,
                   names |-> load[l].names]
    BY DEF LoadsOK
  <1>3. CASE LookUp(l)
    <2>1. CASE load'[l].pc = "set"
      <3>1. request' = Overtaken
        BY <1>2, <1>3, <2>1 DEF LookUp, Step, Ends, NoLoad, LoadsOK
      <3> QED
        BY <1>1, <2>1, <3>1, ReplacingAfter, ModelReplaced
    <2>2. CASE load'[l].pc # "set"
      <3>1. UNCHANGED <<served, reported, request>> /\ load[l].pc = "begun"
        BY <1>2, <1>3, <2>2 DEF LookUp, LoadsOK
      <3> QED
        BY <1>1, <2>2, <3>1, ReplacingAfter, AnswerKept
    <2> QED
      BY <2>1, <2>2
  <1>4. ASSUME NEW from \in {"first", "second", "third"}, NEW to \in {"second", "third", "made"},
               ReadFile(l, from, to)
        PROVE  AnswerInv'
    <2>1. UNCHANGED <<served, reported, request>> /\ load[l].pc # "set"
      BY <1>4 DEF ReadFile, Raises, stateVars
    <2>2. load'[l].pc # "set"
      <3>1. CASE Unreadable(FileAt(from))
        BY <1>4, <3>1 DEF ReadFile, Raises, NoLoad, LoadsOK
      <3>2. CASE ~Unreadable(FileAt(from))
        BY <1>4, <3>2, FileRead
      <3> QED
        BY <3>1, <3>2
    <2> QED
      BY <1>1, <2>1, <2>2, ReplacingAfter, AnswerKept
  <1>5. CASE SetModel(l)
    <2>1. load'[l].pc = "set" /\ request' = Overtaken
      BY <1>5 DEF SetModel, NoLoad, LoadsOK
    <2> QED
      BY <1>1, <2>1, ReplacingAfter, ModelReplaced
  <1>6. CASE SetName(l)
    <2>1. /\ load[l].pc = "set" /\ UNCHANGED <<served, request>>
          /\ reported' = Name(IF load[l].model = Raw THEN load[l] ELSE served)
      BY <1>6 DEF SetName, Step
    <2>2. reported' \in {Name(served)', RegistryName}
      BY <1>1, <2>1 DEF Name
    <2>3. \A q \in request : q.from = {}
      BY <1>1, <2>1, ReplacingAfter DEF AnswerInv, RequestInv
    <2> QED
      BY <2>1, <2>2, <2>3 DEF AnswerInv, NameInv, RequestInv, RegistryName
  <1>7. CASE ShowCard(l)
    <2>1. load[l].pc = "named" /\ UNCHANGED <<served, reported, request>>
      BY <1>7 DEF ShowCard, Raises, stateVars
    <2>2. load'[l].pc # "set"
      BY <1>7 DEF ShowCard, Raises, Ends, NoLoad, LoadsOK
    <2> QED
      BY <1>1, <2>1, <2>2, ReplacingAfter, AnswerKept
  <1> QED
    BY <1>3, <1>4, <1>5, <1>6, <1>7 DEF LoadStep, AfterCard

LEMMA AnswerNext == AnswerInv /\ ServedInv /\ [Next]_vars => AnswerInv'
  <1> SUFFICES ASSUME AnswerInv, ServedInv, [Next]_vars PROVE AnswerInv'
    OBVIOUS
  <1>1. CASE Start \/ Reload
    <2>1. PICK l \in Loaders : Begins(l)
      BY <1>1 DEF Start, Reload
    <2>2. /\ load[l].pc = "idle" /\ load' = [load EXCEPT ![l].pc = "begun"]
          /\ UNCHANGED <<kind, served, reported, request>>
      BY <2>1 DEF Begins, Step, stateVars
    <2>3. Replacing' = Replacing
      BY <2>2 DEF Replacing, ServedInv, LoadsOK
    <2> QED
      BY <2>2, <2>3, AnswerKept
  <1>2. ASSUME NEW r \in Readings, Predict(r) PROVE AnswerInv'
    <2>1. PICK p \in Predictions(r) :
            request' = {[from |-> IF Replacing = {} THEN {served} ELSE {}, prediction |-> p]}
      BY <1>2 DEF Predict
    <2>2. served.model \in Trainings /\ UNCHANGED <<kind, load, served, reported>>
      BY <1>2 DEF Predict, stateVars
    <2>3. Replacing' = Replacing /\ Name(served)' = Name(served)
      BY <2>2 DEF Replacing, Name
    <2>4. NameInv'
      BY <2>2, <2>3 DEF AnswerInv, NameInv, RegistryName
    <2>5. RequestInv'
      BY <2>1, <2>2, <2>3 DEF RequestInv
    <2> QED
      BY <2>4, <2>5 DEF AnswerInv
  <1>3. CASE Killed
    <2>1. request' = {} /\ served'.model = Absent /\ Absent \notin Trainings
      BY <1>3, TrainingsAreWhole DEF Killed, NoModel
    <2>2. Trainings' = Trainings
      BY DEF Trainings
    <2> QED
      BY <2>1, <2>2 DEF AnswerInv, NameInv, RequestInv
  <1>4. ASSUME NEW l \in Loaders, LoadStep(l) PROVE AnswerInv'
    BY <1>4, LoadAnswers DEF ServedInv
  <1>5. ASSUME UNCHANGED <<kind, load, stateVars>>, request' \in {request, {}} PROVE AnswerInv'
    BY <1>5, AnswerKept DEF Replacing, stateVars
  <1>6. ASSUME NEW t \in Trainings, Save(t) PROVE AnswerInv'
    BY <1>5, <1>6 DEF Save
  <1>7. CASE Answer
    BY <1>5, <1>7 DEF Answer
  <1> QED
    BY <1>1, <1>2, <1>3, <1>4, <1>5, <1>6, <1>7 DEF Next, vars, serviceVars

\* inference_service.py, _load_model beside _process_kafka_message and the predict endpoints: an
\* answer during which no load was replacing the model names the model that gave it, or the
\* registry, whatever loads, kills and trainings came before, for any number of threads.
THEOREM AnswersHaveTheirName == Spec => AnswersNameTheirModel
  <1>1. AnswerInv => \A q \in request : \A m \in q.from :
          Answer => Reply(q).version \in {Name(m), RegistryName}
    <2> SUFFICES ASSUME AnswerInv, NEW q \in request, NEW m \in q.from
                 PROVE  Reply(q).version \in {Name(m), RegistryName}
      OBVIOUS
    <2>1. m = served /\ served.model \in Trainings /\ Replacing = {}
      BY DEF AnswerInv, RequestInv
    <2> QED
      BY <2>1 DEF AnswerInv, NameInv, Reply
  <1> QED
    BY <1>1, ServedInit, ServedNext, AnswerInit, AnswerNext, PTL DEF Spec, AnswersNameTheirModel

-----------------------------------------------------------------------------
(* Types *)

\* The variables of the service itself; those of the store are typed by StoreInv.
ServiceTypes ==
  /\ kind \in Kinds
  /\ process \in {"down", "failed", "starting", "up"}
  /\ load \in [Loaders -> [pc : LoadSteps, model : Content \cup {Raw}, card : Content, names : Content]]
  /\ served \in [model : Content \cup {Raw}, card : Content, names : Content]
  /\ shown \in Content
  /\ disturbed \in BOOLEAN

LEMMA ServiceTypesInit == Init => ServiceTypes
  <1> SUFFICES ASSUME Init PROVE ServiceTypes
    OBVIOUS
  <1>1. Absent \in Content
    BY DEF Content
  <1>2. load \in [Loaders -> [pc : LoadSteps, model : Content \cup {Raw}, card : Content,
                             names : Content]]
    BY <1>1 DEF Init, NoLoad, LoadSteps
  <1> QED
    BY <1>1, <1>2 DEF Init, NoModel, ServiceTypes

\* A load that takes one step, with what it has read so far, and ends or raises.
LEMMA LoadStepTypes ==
  ASSUME ServiceTypes, StoreTypeOK, NEW l \in Loaders, LoadStep(l)
  PROVE  ServiceTypes'
  <1>1. UNCHANGED kind /\ disturbed' = disturbed
    BY DEF LoadStep, LookUp, ReadFile, SetModel, SetName, ShowCard
  <1>2. /\ file["model"] \in Content /\ file["card"] \in Content /\ file["names"] \in Content
        /\ Absent \in Content /\ NoLoad = [pc |-> "idle", model |-> Absent, card |-> Absent, names |-> Absent]
        /\ NoModel = [model |-> Absent, card |-> Absent, names |-> Absent]
    BY DEF StoreTypeOK, Files, Content, NoLoad, NoModel
  <1>3. CASE LookUp(l)
    BY <1>1, <1>2, <1>3 DEF LookUp, Step, Ends, ServiceTypes, LoadSteps
  <1>4. ASSUME NEW from \in {"first", "second", "third"}, NEW to \in {"second", "third", "made"},
               ReadFile(l, from, to)
        PROVE  ServiceTypes'
    <2>1. CASE Unreadable(FileAt(from))
      BY <1>1, <1>2, <1>4, <2>1 DEF ReadFile, Raises, stateVars, ServiceTypes, LoadSteps
    <2>2. CASE ~Unreadable(FileAt(from))
      <3> DEFINE f == FileAt(from)
      <3>1. f \in {"model", "card", "names"} /\ file[f] \in Content
        BY <1>2 DEF FileAt
      <3>2. load' = [load EXCEPT ![l].pc = to, ![l][f] = file[f]] /\ UNCHANGED <<process, stateVars>>
        BY <1>4, <2>2 DEF ReadFile
      <3> HIDE DEF f
      <3>3. CASE f = "model"
        <4>1. load' = [load EXCEPT ![l].pc = to, ![l]["model"] = file["model"]]
          BY <3>2, <3>3
        <4>2. load' \in [Loaders -> [pc : LoadSteps, model : Content \cup {Raw}, card : Content,
                                    names : Content]]
          BY <1>2, <4>1 DEF ServiceTypes, LoadSteps
        <4> QED
          BY <1>1, <3>2, <4>2 DEF stateVars, ServiceTypes
      <3>4. CASE f = "card"
        <4>1. load' = [load EXCEPT ![l].pc = to, ![l]["card"] = file["card"]]
          BY <3>2, <3>4
        <4>2. load' \in [Loaders -> [pc : LoadSteps, model : Content \cup {Raw}, card : Content,
                                    names : Content]]
          BY <1>2, <4>1 DEF ServiceTypes, LoadSteps
        <4> QED
          BY <1>1, <3>2, <4>2 DEF stateVars, ServiceTypes
      <3>5. CASE f = "names"
        <4>1. load' = [load EXCEPT ![l].pc = to, ![l]["names"] = file["names"]]
          BY <3>2, <3>5
        <4>2. load' \in [Loaders -> [pc : LoadSteps, model : Content \cup {Raw}, card : Content,
                                    names : Content]]
          BY <1>2, <4>1 DEF ServiceTypes, LoadSteps
        <4> QED
          BY <1>1, <3>2, <4>2 DEF stateVars, ServiceTypes
      <3> QED
        BY <3>1, <3>3, <3>4, <3>5
    <2> QED
      BY <2>1, <2>2
  <1>5. CASE SetModel(l)
    BY <1>1, <1>2, <1>5 DEF SetModel, ServiceTypes, LoadSteps
  <1>6. CASE SetName(l)
    BY <1>1, <1>6 DEF SetName, Step, ServiceTypes, LoadSteps
  <1>7. CASE ShowCard(l)
    BY <1>1, <1>2, <1>7 DEF ShowCard, Raises, Ends, stateVars, ServiceTypes, LoadSteps
  <1> QED
    BY <1>3, <1>4, <1>5, <1>6, <1>7 DEF LoadStep, AfterCard

LEMMA ServiceTypesStep ==
  ASSUME ServiceTypes, StoreTypeOK, [Next]_vars
  PROVE  ServiceTypes'
  <1>1. CASE Start \/ Reload
    <2>1. PICK l \in Loaders : Begins(l)
      BY <1>1 DEF Start, Reload
    <2>2. UNCHANGED <<kind, served, shown>> /\ disturbed' \in BOOLEAN
      BY <2>1 DEF Begins, stateVars
    <2>3. load' = [load EXCEPT ![l].pc = "begun"]
      BY <2>1 DEF Begins, Step
    <2>4. process' \in {"starting", "up"}
      BY <1>1 DEF Start, Reload
    <2> QED
      BY <2>2, <2>3, <2>4 DEF ServiceTypes, LoadSteps
  <1>2. ASSUME NEW t \in Trainings, Save(t) PROVE ServiceTypes'
    BY <1>2 DEF Save, stateVars, ServiceTypes
  <1>3. CASE Killed
    BY <1>3 DEF Killed, NoLoad, NoModel, Content, ServiceTypes, LoadSteps
  <1>4. ASSUME NEW l \in Loaders, LoadStep(l) PROVE ServiceTypes'
    BY <1>4, LoadStepTypes
  <1>5. CASE Answer \/ \E r \in Readings : Predict(r)
    BY <1>5 DEF Answer, Predict, stateVars, ServiceTypes
  <1>6. CASE UNCHANGED serviceVars
    BY <1>6 DEF serviceVars, stateVars, ServiceTypes
  <1> QED
    BY <1>1, <1>2, <1>3, <1>4, <1>5, <1>6 DEF Next, vars

\* ai/*/inference_service.py and the files underneath: every variable keeps its type, for any
\* threads, trainings and versions, with what a load reads and what the state serves.
THEOREM InferenceTypeCorrect == Spec => []TypeOK
  <1>1. StoreInv => StoreTypeOK
    BY DEF StoreInv
  <1>2. Spec => []StoreTypeOK
    BY <1>1, StoreInitInv, StoreInvStep, ServiceUsesStore, PTL DEF StoreSpec
  <1>3. StoreTypeOK /\ ServiceTypes => TypeOK
    BY DEF ServiceTypes, TypeOK
  <1>4. Spec => []ServiceTypes
    BY <1>2, ServiceTypesInit, ServiceTypesStep, PTL DEF Spec
  <1> QED
    BY <1>2, <1>3, <1>4, PTL
=============================================================================
