\* Texts with up to three documents; after next() has returned None nothing
\* happens.
CONSTANTS
  MaxPieces = 5
  MaxDocuments = 2
  Inputs <- MCInputs
SPECIFICATION Spec
INVARIANTS Partition RefusedExactly
CHECK_DEADLOCK FALSE
