\* The sender is removed while its writer still has a message.
CONSTANTS
  MaxMsgs = 2
  MaxWriters = 2
  MaxStreams = 4
SPECIFICATION Spec
INVARIANTS SingleWriter
\* Everything has been sent.
CHECK_DEADLOCK FALSE
