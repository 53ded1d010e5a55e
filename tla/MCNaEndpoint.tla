---------------------------- MODULE MCNaEndpoint ----------------------------
(* NaEndpoint on small instances.                                          *)
\* SequencesExt comes first only for speed: TLC orders names as it meets them, and
\* in this order symmetry leaves a third of the states it leaves otherwise.
EXTENDS TLC, SequencesExt, NaEndpointService

\* Operation addresses, peers, tags and regions are interchangeable.  (The tag and
\* the region that op_create chooses are not read; see LiveFields.)
Symmetry == Permutations(Ops) \cup Permutations(Peers)
              \cup Permutations(Tags) \cup Permutations(Keys)

\* The fields of an op that a later step or an invariant can read before they are
\* written again.  While SingleHolder holds nothing reads the op of an idle or free
\* id, a waiting op is read for what it waits for, and a completed one for its
\* result: the message of a receive that succeeded, the data of a get.  Fields
\* left from an earlier use of the id are in none of these.
LiveFields(o) ==
  CASE ostate[o] # "busy" -> <<>>
    [] o \in QueuedReceives(RecvTypes) -> <<op[o].type, op[o].ret, op[o].msg>>
    [] op[o].type = "GET" -> <<op[o].type, op[o].key, op[o].get>>
                               \o (IF o \in InQueue THEN <<op[o].ret>> ELSE <<>>)
    [] o \in InQueue -> <<op[o].type, op[o].ret>>
    [] op[o].type = "RECV_EXPECTED" -> <<op[o].type, op[o].addr, op[o].tag>>
    [] OTHER -> <<op[o].type>>

View == <<ostate, [o \in Ops |-> LiveFields(o)], recvVars, rmaVars, sends, doneVars, userVars>>
=============================================================================
