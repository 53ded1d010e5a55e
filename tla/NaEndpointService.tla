-------------------------- MODULE NaEndpointService -------------------------
(* NaEndpoint as an implementation of NaService.                           *)
EXTENDS NaEndpoint

\* An operation in use is complete once its completion is in the channel or in the
\* NA core's queue; until then it waits in a queue or for its write.
phaseBar ==
  [o \in Ops |-> IF ostate[o] # "busy" THEN ostate[o]
                 ELSE IF o \in InChannel \cup InQueue THEN "complete" ELSE "pending"]

\* A receive and the message it was given travel together through both.
ItemPairs(items) == {<<c.op, c.msg>> : c \in {d \in Range(items) : d.msg # NoMsg}}
QueuePairs == {<<o, op[o].msg>> : o \in QueuedReceives(RecvTypes)}
matchedBar == ItemPairs(completions) \cup QueuePairs

Service == INSTANCE NaService
             WITH phase <- phaseBar, arrivals <- Len(arrived), inbox <- Stashed,
                  matched <- matchedBar, delivered <- consumed

\* The handlers, the queues, the channel and the NA core together do nothing that
\* the service does not allow: no operation completes twice or runs its callback
\* twice, no message is given to two receives or delivered twice, and no callback
\* delivers a message that its receive was not given.
ImplementsService == Service!Spec
=============================================================================
