SPECIFICATION Spec
CONSTANTS
  Keys <- MCKeys
  Names <- MCNames
  Scalars <- MCScalars
  Refused <- MCRefused
  Openings <- MCOpenings
  Fragments <- MCFragments
  MaxLen = 7
  MaxEdits = 2
INVARIANTS SourceStaysValid
PROPERTIES FailedEditUnchanged SpellingKeepsValue WriteStaysInside
CHECK_DEADLOCK FALSE
