\* Every configuration that allows an error.  The parse ends with the input.
CONSTANTS
  Inputs <- MCInputs
  Configs <- MCConfigs
  MaxEvents = 5
SPECIFICATION Spec
INVARIANTS Aligned WithinBudgets BestSalvage
CHECK_DEADLOCK FALSE
