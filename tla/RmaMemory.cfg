CONSTANTS
  p1 = p1
  p2 = p2
  Procs = {p1, p2}
  NoProc = NoProc
  HeapSize = 3
  Buffers <- MCBuffers
  PayloadLimit = 3
  Window = 1
  AnswerMayFail = TRUE
  Workloads <- MCWorkloads
SPECIFICATION FairSpec
INVARIANTS TypeOK RegisteredIffHeld HandleDesignatesOwner  
PROPERTIES WritesInRegion FreshIds MessagesHandled
CHECK_DEADLOCK FALSE
