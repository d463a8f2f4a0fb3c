\* Streams of up to eighteen bytes, with documents below, at and above the
\* caps.  A stream ends.
CONSTANTS
  MaxPieces = 6
  MaxFrameSize = 6
  MaxDocumentLength = 7
  Streams <- MCStreams
SPECIFICATION FairSpec
INVARIANTS FramesAreDocuments NothingLost
PROPERTIES Ends
CHECK_DEADLOCK FALSE
