CONSTANTS
  Documents <- MCDocuments
  Policies = {"Last", "First", "Error"}
  MaxDepth = 5
SPECIFICATION Spec
INVARIANTS NeverWrong RefusedRightly Aligned
CHECK_DEADLOCK FALSE
