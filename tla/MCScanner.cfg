SPECIFICATION Spec
CONSTANTS
  MaxEvents = 0
  Backlog = 6
  KeyTokens = 3
  KeyChars = 6
  KeyBytes = 8
  NameMax = 3
  EditTexts <- MCEditTexts
  Replacements <- MCReplacements
  MaxCut = 2
INVARIANTS KeysHoldTheirTokens Lossless EntriesAligned RepairIsRebuild
PROPERTIES PlainPathsAgree ScanProgresses
CHECK_DEADLOCK FALSE
