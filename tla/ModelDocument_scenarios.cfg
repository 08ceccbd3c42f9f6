SPECIFICATION Scenarios
CONSTANTS
  Calls = {}
  Drafts <- NoRefusals
  Refused <- NoRefusals
  Recipes = {1, 2}
  Values = {1, 2}
  Limits = {0, 1, 2}
  MaxFeatures = 3
  MaxIds = 3
  MaxPayloads = 2
  Revisions = 2
INVARIANTS
  TypeOK
  SettledIsReplayed
  SavedDocumentLoads
  IdentitiesAreSpent
  CursorsAreRetained
  SketchesFollowTheVariable
  CleanIsCurrent
PROPERTIES
  LineOfStates
CHECK_DEADLOCK FALSE
