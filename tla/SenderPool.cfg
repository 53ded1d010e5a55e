\* Two messages, the sender removed in between: a stream for every attempt of one
\* message and one more.
CONSTANTS
  MaxMsgs = 2
  MaxWriters = 2
  MaxStreams = 4
SPECIFICATION FairSpec
INVARIANTS TypeOK OwnedUntilReported StreamsWellFramed BoundedRetries
PROPERTY SendReported
\* Everything has been sent.
CHECK_DEADLOCK FALSE
