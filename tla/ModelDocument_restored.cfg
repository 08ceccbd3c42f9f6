SPECIFICATION Spec
CONSTANTS
  Calls = {"append", "suppress", "rebuild"}
  Drafts <- SketchedPart
  Refused <- NoRefusals
  Recipes = {1, 2}
  Values = {1}
  Limits = {0}
  MaxFeatures = 3
  MaxIds = 3
  MaxPayloads = 2
  Revisions = 2
INVARIANTS
  SavedDocumentLoads
CHECK_DEADLOCK FALSE
