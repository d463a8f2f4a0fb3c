\* A loader stops at its first error or at the end of the stream.
CONSTANTS
  UsizeMax = 60
  MAX_ALIAS_BYTES = 50
  MAX_DEPTH_CEILING = 4
  NoRatio = NoRatio
  Errors = {"error"}
  Anchors = {"a", "b"}
  None = None
  Setups <- MCSetups
  MaxDepth = 3
  MaxDocumentLength = 6
  MaxSequenceLength = 2
  MaxMappingKeys = 2
  NODE_BYTES = 1
SPECIFICATION BSpec
INVARIANTS FramesFollowEvents MappingsByPolicy TreeBounded AnchorScope AllLoadersAgree
CHECK_DEADLOCK FALSE
