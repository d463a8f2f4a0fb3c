\* Two workers and the calling thread.  A call returns, and then nothing
\* happens.
CONSTANTS
  W1 = W1
  W2 = W2
  Worker = {W1, W2}
  Caller = Caller
  Counter <- MCCounter
  Limit <- MCLimit
  MaxDocuments = 5
  Streams <- MCStreams
SPECIFICATION Spec
INVARIANTS BudgetHolds ScheduleIndependent
CHECK_DEADLOCK FALSE
