SPECIFICATION Spec
CONSTANTS
    Files <- MCFiles
    Limits <- MCLimits
    InitialValues <- MCInitialValues
    Inputs <- MCInputs
    MergeInputs <- MCMergeInputs
    KeyInputs <- MCKeyInputs
    PathValues <- MCPathValues
    PathKeys <- MCPathKeys
    AnyKeys <- MCAnyKeys
    Denied <- MCDenied
    Properties <- MCProperties
    Pieces <- MCPieces
    MaxSegments = 3
    MaxEdits = 2
INVARIANTS PathsReadBack
PROPERTIES WriteLandsWhereRead MergesByLaw InterpolatesOnce IncludesBounded
CHECK_DEADLOCK FALSE
