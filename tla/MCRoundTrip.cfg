SPECIFICATION RTSpec
CONSTANTS
  MaxEvents = 100
  Backlog = 100
  KeyTokens = 3
  KeyChars = 60
  KeyBytes = 60
  NameMax = 9
  Heap <- MCHeap
  Calls <- MCCalls
INVARIANTS SharingKept RoundTrip
