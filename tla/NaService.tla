------------------------------ MODULE NaService -----------------------------
(***************************************************************************)
(* What an endpoint promises its user, without queues, stashes, channels   *)
(* or threads: an operation that is posted completes once and its callback *)
(* runs once, and a message that arrives is given to one receive at most,  *)
(* whose callback delivers it.                                             *)
(***************************************************************************)
EXTENDS Naturals

CONSTANT Ops

VARIABLES
  phase,      \* of each operation id: free, idle, pending, complete
  arrivals,   \* messages that have arrived; they are numbered
  inbox,      \* those that no receive has been given
  matched,    \* pairs of a receive and the message it was given
  delivered   \* messages that a callback has delivered

msgVars == <<arrivals, inbox, matched, delivered>>
vars == <<phase, msgVars>>

Init ==
  /\ phase = [o \in Ops |-> "free"]
  /\ arrivals = 0
  /\ inbox = {}
  /\ matched = {}
  /\ delivered = {}

Becomes(o, from, to) ==
  /\ phase[o] = from
  /\ phase' = [phase EXCEPT ![o] = to]

Create(o) == Becomes(o, "free", "idle") /\ UNCHANGED msgVars
Destroy(o) == Becomes(o, "idle", "free") /\ UNCHANGED msgVars
Post(o) == Becomes(o, "idle", "pending") /\ UNCHANGED msgVars

\* A send is done, a get is answered, or an operation is canceled.
Complete(o) == Becomes(o, "pending", "complete") /\ UNCHANGED msgVars

\* A receive is posted for a message that is there.
PostMatched(o) ==
  /\ Becomes(o, "idle", "complete")
  /\ \E m \in inbox :
       /\ inbox' = inbox \ {m}
       /\ matched' = matched \cup {<<o, m>>}
  /\ UNCHANGED <<arrivals, delivered>>

Arrive ==
  /\ arrivals' = arrivals + 1
  /\ inbox' = inbox \cup {arrivals + 1}
  /\ UNCHANGED <<phase, matched, delivered>>

\* A message arrives for a receive that waits.
ArriveMatched(o) ==
  /\ Becomes(o, "pending", "complete")
  /\ arrivals' = arrivals + 1
  /\ matched' = matched \cup {<<o, arrivals + 1>>}
  /\ UNCHANGED <<inbox, delivered>>

MatchedTo(o) == {p \in matched : p[1] = o}
Callback(o) ==
  /\ Becomes(o, "complete", "idle")
  /\ matched' = matched \ MatchedTo(o)
  /\ delivered' = delivered \cup {p[2] : p \in MatchedTo(o)}
  /\ UNCHANGED <<arrivals, inbox>>

Next ==
  \/ \E o \in Ops : \/ Create(o) \/ Destroy(o) \/ Post(o) \/ Complete(o)
                    \/ PostMatched(o) \/ ArriveMatched(o) \/ Callback(o)
  \/ Arrive

Spec == Init /\ [][Next]_vars
=============================================================================
