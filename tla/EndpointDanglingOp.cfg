\* A get request whose write is reported as failed.
CONSTANTS
  AnySource = AnySource
  Ops = {o1,o2}
  Peers = {p1}
  Tags = {t1}
  Keys = {k1}
  MaxMsgs = 0
  MaxGets = 2
  MaxAnswers = 1
  GetWriteMayFail = TRUE
\* The user may stop calling once the bounds are used up.
CHECK_DEADLOCK FALSE
SPECIFICATION Spec
INVARIANT NoDanglingOp
