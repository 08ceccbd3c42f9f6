SPECIFICATION Spec
CONSTANTS
  Calls = {"append", "cursor", "variable"}
  Drafts <- FollowingPart
  Refused <- NoRefusals
  Recipes = {1, 2}
  Values = {1, 2}
  Limits = {1}
  MaxFeatures = 3
  MaxIds = 3
  MaxPayloads = 2
  Revisions = 2
INVARIANTS
  SketchesFollowTheVariable
CHECK_DEADLOCK FALSE
