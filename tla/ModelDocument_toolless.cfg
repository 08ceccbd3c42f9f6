SPECIFICATION Spec
CONSTANTS
  Calls = {"append", "rebuild", "variable"}
  Drafts <- TwoBodies
  Refused <- NoRefusals
  Recipes = {1, 2}
  Values = {1, 2}
  Limits = {0}
  MaxFeatures = 3
  MaxIds = 3
  MaxPayloads = 2
  Revisions = 2
INVARIANTS
  StepsHaveTheirOperands
CHECK_DEADLOCK FALSE
