\* Two ops against three messages of two senders and two tags, no gets.
CONSTANTS
  AnySource = AnySource
  Ops = {o1,o2}
  Peers = {p1,p2}
  Tags = {t1,t2}
  Keys = {k1}
  MaxMsgs = 3
  MaxGets = 0
  MaxAnswers = 0
  GetWriteMayFail = FALSE
\* The user may stop calling once the bounds are used up.
CHECK_DEADLOCK FALSE
SPECIFICATION Spec
SYMMETRY Symmetry
VIEW View
INVARIANTS TypeOK SingleHolder NoMissedMatch NoOvertaking MessageInOnePlace SourceAddrOwned
PROPERTY ImplementsService
