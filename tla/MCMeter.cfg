\* One parse with its own counters, or one whose siblings charge the same
\* tally.  A refusal ends the parse.
CONSTANTS
  UsizeMax = 5
  MAX_ALIAS_BYTES = 4
  MAX_DEPTH_CEILING = 2
  NoRatio = NoRatio
  Limit <- MCLimit
  MaxAliasExpansions = 2
  AliasAnchorRatio = 1
  AliasJumpFactor = 1
  MaxDocumentLength = 5
  MaxDepth = 3
  ScalarLens = {0, 2, 5}
  Costs <- MCCosts
  NODE_BYTES = 1
  Others <- MCOthers
SPECIFICATION Spec
INVARIANTS LimitsExact
PROPERTIES AdmittedStreamWide
CHECK_DEADLOCK FALSE
