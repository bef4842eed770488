CONSTANTS
  l1 = l1
  l2 = l2
  NTrainings = 2
  MaxVersions = 2
  Kinds = {"belt", "crossing"}
  Loaders <- MCLoaders
  Readings <- MCReadings
  Findings <- MCFindings
  RipScores = {95}
SPECIFICATION Spec
CONSTRAINT Relevant
INVARIANTS
  RegisteredIsLoadable
  ServedAsSaved
PROPERTIES
  AnswersNameTheirModel
  StartsOnWholeDirectory
CHECK_DEADLOCK FALSE
