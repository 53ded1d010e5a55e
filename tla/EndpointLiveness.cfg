\* One op reused for sends, a message, and two gets with up to two answers each.
CONSTANTS
  AnySource = AnySource
  Ops = {o1}
  Peers = {p1}
  Tags = {t1}
  Keys = {k1}
  MaxMsgs = 1
  MaxGets = 2
  MaxAnswers = 2
  GetWriteMayFail = FALSE
\* The user may stop calling once the bounds are used up.
CHECK_DEADLOCK FALSE
SPECIFICATION FairSpec
INVARIANT SingleHolder
PROPERTIES SendCompletes MatchedMsgDelivered
