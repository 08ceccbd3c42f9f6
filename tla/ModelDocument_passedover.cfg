SPECIFICATION Spec
CONSTANTS
  Calls = {"append", "recipe", "rebuild"}
  Drafts <- FoldedPart
  Refused <- NoRefusals
  Recipes = {1, 2}
  Values = {1}
  Limits = {0}
  MaxFeatures = 4
  MaxIds = 4
  MaxPayloads = 2
  Revisions = 1
INVARIANTS
  SettledIsReplayed
CHECK_DEADLOCK FALSE
