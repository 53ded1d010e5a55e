-------------------------- MODULE NaServiceProofs ---------------------------
(***************************************************************************)
(* NaEndpoint implements NaService, for every set of operation ids, peers, *)
(* tags and regions and every bound, as long as no write of a get request  *)
(* is reported as failed; and what becomes of messages and their source    *)
(* addresses: the places they are in, the order they are matched in, and   *)
(* who frees them.                                                         *)
(***************************************************************************)
EXTENDS NaEndpointService, NaEndpointProofs

-----------------------------------------------------------------------------
(* What the mapping needs beyond TypeOK and SingleHolder.                  *)

\* A completion in the channel carries a message exactly if it is for a receive.
ItemsCarry ==
  \A c \in Range(completions) :
    IF op[c.op].type \in RecvTypes THEN c.msg # NoMsg /\ c.result = "SUCCESS" ELSE c.msg = NoMsg

\* A message is stashed once, and only after it has arrived.
StashedOnce ==
  /\ IsInjective(unexpected_msg_stash) /\ IsInjective(expected_msg_stash)
  /\ Range(unexpected_msg_stash) \cap Range(expected_msg_stash) = {}
  /\ Stashed \subseteq 1..Len(arrived)

ServiceInv == TypeOK /\ SingleHolder /\ ItemsCarry /\ StashedOnce

Done == InChannel \cup InQueue

-----------------------------------------------------------------------------
LEMMA RangeAppend ==
  ASSUME NEW S, NEW q \in Seq(S), NEW e \in S
  PROVE  Range(Append(q, e)) = Range(q) \cup {e}
BY AppendDistinct

LEMMA ItemFieldsAll ==
  ASSUME NEW o, NEW result, NEW m
  PROVE  /\ Item(o, result, m).op = o /\ Item(o, result, m).result = result
         /\ Item(o, result, m).msg = m
BY Zenon DEF Item

\* What one more completion adds to the pairs in the channel.
LEMMA SendPairs ==
  ASSUME NEW items \in Seq(CompletionItem), NEW c \in CompletionItem
  PROVE  /\ c.msg = NoMsg => ItemPairs(Append(items, c)) = ItemPairs(items)
         /\ c.msg # NoMsg => ItemPairs(Append(items, c)) = ItemPairs(items) \cup {<<c.op, c.msg>>}
<1>1. Range(Append(items, c)) = Range(items) \cup {c}
  BY RangeAppend
<1> QED BY <1>1, Zenon DEF ItemPairs

LEMMA ItemPairOps ==
  ASSUME NEW items, NEW o, o \notin ItemOps(items)
  PROVE  \A p \in ItemPairs(items) : p[1] # o
BY DEF ItemPairs, ItemOps

LEMMA HeadAndRest ==
  ASSUME NEW S, NEW q \in Seq(S), q # <<>>
  PROVE  Range(q) = {Head(q)} \cup Range(Tail(q))
<1>1. /\ Len(q) \in Nat \ {0} /\ DOMAIN q = 1..Len(q) /\ Head(q) = q[1]
      /\ Tail(q) \in Seq(S) /\ Len(Tail(q)) = Len(q) - 1
      /\ DOMAIN Tail(q) = 1..Len(q) - 1
      /\ \A j \in 1..Len(q) - 1 : Tail(q)[j] = q[j + 1]
  BY EmptySeq, LenProperties, HeadTailProperties
<1>2. ASSUME NEW k \in DOMAIN q PROVE q[k] \in {Head(q)} \cup Range(Tail(q))
  <2>1. CASE k = 1
    BY <1>1, <2>1, Zenon
  <2>2. CASE k # 1
    <3>1. k - 1 \in 1..Len(q) - 1 /\ (k - 1) + 1 = k
      BY <1>1, <2>2
    <3> QED BY <1>1, <3>1 DEF Range
  <2> QED BY <2>1, <2>2, Zenon
<1>3. ASSUME NEW j \in DOMAIN Tail(q) PROVE Tail(q)[j] \in Range(q)
  BY <1>1 DEF Range
<1>4. Head(q) \in Range(q)
  BY <1>1 DEF Range
<1> QED BY <1>2, <1>3, <1>4, Zenon DEF Range

\* Messages that meet their receive leave the stash for good.
LEMMA StashTake ==
  ASSUME NEW q \in Seq(1..MaxMsgs), NEW i \in DOMAIN q, IsInjective(q)
  PROVE  IsInjective(Take(q, i)) /\ Range(Take(q, i)) = Range(q) \ {q[i]} /\ q[i] \in Range(q)
BY TakeDistinct, Zenon DEF Range

-----------------------------------------------------------------------------
(* The steps of ostate, the channel and the NA core's queue that matter to *)
(* phaseBar.                                                               *)

LEMMA PhaseDomain == phaseBar = [o \in Ops |-> phaseBar[o]]
BY Zenon DEF phaseBar

LEMMA PhaseSame ==
  ASSUME UNCHANGED ostate, Done' = Done
  PROVE  phaseBar' = phaseBar
BY Zenon DEF phaseBar, Done

LEMMA PhasePosted ==
  ASSUME TypeOK, SingleHolder, NEW o \in Ops, Post(o), Done' = Done
  PROVE  phaseBar[o] = "idle" /\ phaseBar' = [phaseBar EXCEPT ![o] = "pending"]
<1>1. o \notin Done
  BY Posted, Zenon DEF Done
<1>2. ostate[o] = "idle" /\ ostate' = [ostate EXCEPT ![o] = "busy"] /\ ostate \in [Ops -> {"free", "idle", "busy"}]
  BY Zenon DEF Post, TypeOK
<1> QED BY <1>1, <1>2, Zenon DEF phaseBar, Done

LEMMA PhasePostedDone ==
  ASSUME TypeOK, SingleHolder, NEW o \in Ops, Post(o), Done' = Done \cup {o}
  PROVE  phaseBar[o] = "idle" /\ phaseBar' = [phaseBar EXCEPT ![o] = "complete"]
<1>2. ostate[o] = "idle" /\ ostate' = [ostate EXCEPT ![o] = "busy"] /\ ostate \in [Ops -> {"free", "idle", "busy"}]
  BY Zenon DEF Post, TypeOK
<1> QED BY <1>2, Zenon DEF phaseBar, Done

LEMMA PhaseCompleted ==
  ASSUME TypeOK, SingleHolder, NEW o \in Ops, o \in Waiting, UNCHANGED ostate, Done' = Done \cup {o}
  PROVE  phaseBar[o] = "pending" /\ phaseBar' = [phaseBar EXCEPT ![o] = "complete"]
<1>1. o \notin Done /\ ostate[o] = "busy"
  BY Zenon DEF SingleHolder, Done, Busy
<1> QED BY <1>1, Zenon DEF phaseBar, Done

-----------------------------------------------------------------------------
(* The effect of the two ways to complete on the sets of the mapping.      *)

LEMMA AddEffect ==
  ASSUME TypeOK, NEW o \in Ops, CompletionAdd(o), UNCHANGED completions
  PROVE  InQueue' = InQueue \cup {o} /\ InChannel' = InChannel /\ Done' = Done \cup {o}
<1>1. completion_queue' = Append(completion_queue, o) /\ completion_queue \in Seq(Ops)
  BY Zenon DEF TypeOK, CompletionAdd
<1>2. InQueue' = InQueue \cup {o}
  BY <1>1, RangeAppend DEF InQueue
<1> QED BY <1>2, Zenon DEF InChannel, Done

LEMMA SendEffect ==
  ASSUME TypeOK, NEW o \in Ops, NEW result \in Rets, NEW m \in 0..MaxMsgs,
         CompletionSend(o, result, m), UNCHANGED completion_queue
  PROVE  /\ InChannel' = InChannel \cup {o} /\ InQueue' = InQueue /\ Done' = Done \cup {o}
         /\ Range(completions') = Range(completions) \cup {Item(o, result, m)}
         /\ m = NoMsg => ItemPairs(completions') = ItemPairs(completions)
         /\ m # NoMsg => ItemPairs(completions') = ItemPairs(completions) \cup {<<o, m>>}
<1> DEFINE c == Item(o, result, m)
<1>1. /\ c \in CompletionItem /\ c.op = o /\ c.msg = m
      /\ completions' = Append(completions, c) /\ completions \in Seq(CompletionItem)
  BY ItemFieldsAll, Zenon DEF TypeOK, CompletionSend, CompletionItem, Item
<1> HIDE DEF c
<1>2. InChannel' = InChannel \cup {o}
  BY <1>1, SendDistinct, Zenon DEF InChannel
<1>3. Range(completions') = Range(completions) \cup {c}
  BY <1>1, RangeAppend
<1>4. /\ m = NoMsg => ItemPairs(completions') = ItemPairs(completions)
      /\ m # NoMsg => ItemPairs(completions') = ItemPairs(completions) \cup {<<o, m>>}
  BY <1>1, SendPairs, Zenon
<1> QED BY <1>2, <1>3, <1>4, Zenon DEF InQueue, Done, c

\* An operation that waits is in use and its id is one of Ops.
LEMMA WaitingOps ==
  ASSUME TypeOK, SingleHolder
  PROVE  Waiting \subseteq Ops /\ Done \subseteq Ops
BY Zenon DEF SingleHolder, Busy, Done

-----------------------------------------------------------------------------
(* Frames.                                                                 *)

LEMMA CarryKept ==
  ASSUME ItemsCarry, Range(completions') \subseteq Range(completions),
         \A o \in InChannel : op'[o].type = op[o].type
  PROVE  ItemsCarry'
<1>1. \A c \in Range(completions) : c.op \in InChannel
  BY Zenon DEF InChannel, ItemOps
<1> QED BY <1>1, Zenon DEF ItemsCarry

LEMMA CarrySent ==
  ASSUME ItemsCarry, UNCHANGED op, NEW o, NEW result, NEW m,
         Range(completions') = Range(completions) \cup {Item(o, result, m)},
         IF op[o].type \in RecvTypes THEN m # NoMsg /\ result = "SUCCESS" ELSE m = NoMsg
  PROVE  ItemsCarry'
BY ItemFieldsAll DEF ItemsCarry

LEMMA QueuePairsKept ==
  ASSUME InQueue' = InQueue, \A o \in InQueue : op'[o] = op[o]
  PROVE  QueuePairs' = QueuePairs
BY Zenon DEF QueuePairs, QueuedReceives

LEMMA StashKept ==
  ASSUME StashedOnce, UNCHANGED <<unexpected_msg_stash, expected_msg_stash, arrived>>
  PROVE  StashedOnce' /\ Stashed' = Stashed
BY Zenon DEF StashedOnce, Stashed

-----------------------------------------------------------------------------
(* One lemma per action of the service: which steps of the endpoint are    *)
(* steps of it.                                                            *)

ServiceStep ==
  Service!Next \/ UNCHANGED <<phaseBar, Len(arrived), Stashed, matchedBar, consumed>>

LEMMA StutterStep ==
  ASSUME ItemsCarry, StashedOnce,
         UNCHANGED <<ostate, op, unexpected_msg_stash, expected_msg_stash, arrived,
                     completions, completion_queue, consumed>>
  PROVE  ItemsCarry' /\ StashedOnce' /\ ServiceStep
<1>1. InChannel' = InChannel /\ InQueue' = InQueue /\ Done' = Done
  BY Zenon DEF InChannel, InQueue, Done
<1>2. ItemsCarry' /\ StashedOnce' /\ Stashed' = Stashed
  BY CarryKept, StashKept, Zenon
<1>3. phaseBar' = phaseBar
  BY <1>1, PhaseSame, Zenon
<1>4. matchedBar' = matchedBar
  BY <1>1, QueuePairsKept, Zenon DEF matchedBar
<1> QED BY <1>2, <1>3, <1>4, Zenon DEF ServiceStep

LEMMA CreateOrDestroyStep ==
  ASSUME TypeOK, SingleHolder, ItemsCarry, StashedOnce, NEW o \in Ops, OpCreate(o) \/ OpDestroy(o)
  PROVE  ItemsCarry' /\ StashedOnce' /\ ServiceStep
<1>1. /\ UNCHANGED <<unexpected_msg_stash, expected_msg_stash, arrived, completions,
                     completion_queue, consumed>>
      /\ \A p \in Ops : p # o => op'[p] = op[p]
  BY Zenon DEF OpCreate, OpDestroy, recvVars, doneVars, userVars, TypeOK
<1>2. InChannel' = InChannel /\ InQueue' = InQueue /\ Done' = Done
  BY <1>1, Zenon DEF InChannel, InQueue, Done
<1>3. o \notin Done /\ Done \subseteq Ops
  BY WaitingOps, Zenon DEF OpCreate, OpDestroy, SingleHolder, Busy, Done
<1>4. \A p \in Done : op'[p] = op[p]
  BY <1>1, <1>3, Zenon
<1>5. ItemsCarry' /\ StashedOnce' /\ Stashed' = Stashed
  BY <1>1, <1>4, CarryKept, StashKept, Zenon DEF Done
<1>6. matchedBar' = matchedBar
  BY <1>1, <1>2, <1>4, QueuePairsKept, Zenon DEF matchedBar, Done
<1>7. \/ phaseBar[o] = "free" /\ phaseBar' = [phaseBar EXCEPT ![o] = "idle"]
      \/ phaseBar[o] = "idle" /\ phaseBar' = [phaseBar EXCEPT ![o] = "free"]
  <2>1. \/ ostate[o] = "free" /\ ostate' = [ostate EXCEPT ![o] = "idle"]
        \/ ostate[o] = "idle" /\ ostate' = [ostate EXCEPT ![o] = "free"]
    BY Zenon DEF OpCreate, OpDestroy
  <2>2. ostate \in [Ops -> {"free", "idle", "busy"}]
    BY Zenon DEF TypeOK
  <2> QED BY <1>2, <2>1, <2>2, Zenon DEF phaseBar, Done
<1>8. Service!Create(o) \/ Service!Destroy(o)
  BY <1>1, <1>5, <1>6, <1>7, Zenon DEF Service!Create, Service!Destroy, Service!Becomes, Service!msgVars
<1> QED BY <1>5, <1>8, Zenon DEF ServiceStep, Service!Next

LEMMA PostStep ==
  ASSUME TypeOK, SingleHolder, ItemsCarry, StashedOnce, NEW o \in Ops, Post(o),
         \A p \in Ops : p # o => op'[p] = op[p],
         UNCHANGED <<unexpected_msg_stash, expected_msg_stash, arrived, completions,
                     completion_queue, consumed>>
  PROVE  ItemsCarry' /\ StashedOnce' /\ ServiceStep
<1>2. InChannel' = InChannel /\ InQueue' = InQueue /\ Done' = Done
  BY Zenon DEF InChannel, InQueue, Done
<1>3. o \notin Done /\ Done \subseteq Ops
  BY WaitingOps, Posted, Zenon DEF Done
<1>4. \A p \in Done : op'[p] = op[p]
  BY <1>3, Zenon
<1>5. ItemsCarry' /\ StashedOnce' /\ Stashed' = Stashed
  BY <1>4, CarryKept, StashKept, Zenon DEF Done
<1>6. matchedBar' = matchedBar
  BY <1>2, <1>4, QueuePairsKept, Zenon DEF matchedBar, Done
<1>7. phaseBar[o] = "idle" /\ phaseBar' = [phaseBar EXCEPT ![o] = "pending"]
  BY <1>2, PhasePosted, Zenon
<1>8. Service!Post(o)
  BY <1>5, <1>6, <1>7, Zenon DEF Service!Post, Service!Becomes, Service!msgVars
<1> QED BY <1>5, <1>8, Zenon DEF ServiceStep, Service!Next

\* A receive that finds its message in a stash; that the stash stays one is shown
\* where the action is known.
LEMMA PostMatchedStep ==
  ASSUME TypeOK, SingleHolder, ItemsCarry, NEW o \in Ops, Post(o), CompletionAdd(o),
         NEW m \in Stashed, Stashed' = Stashed \ {m},
         \A p \in Ops : p # o => op'[p] = op[p],
         op'[o].type \in RecvTypes, op'[o].ret = "SUCCESS", op'[o].msg = m,
         UNCHANGED <<arrived, completions, consumed>>
  PROVE  ItemsCarry' /\ ServiceStep
<1>1. InChannel' = InChannel /\ InQueue' = InQueue \cup {o} /\ Done' = Done \cup {o}
  BY AddEffect, Zenon
<1>2. o \notin Done /\ Done \subseteq Ops
  BY WaitingOps, Posted, Zenon DEF Done
<1>3. \A p \in Done : op'[p] = op[p]
  BY <1>2, Zenon
<1>4. ItemsCarry'
  BY <1>3, CarryKept, Zenon DEF Done
<1>5. QueuePairs' = QueuePairs \cup {<<o, m>>}
  BY <1>1, <1>2, <1>3, Zenon DEF QueuePairs, QueuedReceives, Done
<1>6. matchedBar' = matchedBar \cup {<<o, m>>}
  BY <1>5, Zenon DEF matchedBar
<1>7. phaseBar[o] = "idle" /\ phaseBar' = [phaseBar EXCEPT ![o] = "complete"]
  BY <1>1, PhasePostedDone, Zenon
<1>8. Service!PostMatched(o)
  BY <1>6, <1>7, Zenon DEF Service!PostMatched, Service!Becomes
<1> QED BY <1>4, <1>8, Zenon DEF ServiceStep, Service!Next

\* A send, a put or a get that is over.
LEMMA CompleteStep ==
  ASSUME TypeOK, SingleHolder, ItemsCarry, StashedOnce, NEW o \in Waiting, NEW result \in Rets,
         op[o].type \notin RecvTypes, CompletionSend(o, result, NoMsg),
         UNCHANGED <<ostate, op, unexpected_msg_stash, expected_msg_stash, arrived,
                     completion_queue, consumed>>
  PROVE  ItemsCarry' /\ StashedOnce' /\ ServiceStep
<1>0. o \in Ops /\ NoMsg \in 0..MaxMsgs
  BY WaitingOps, EndpointAssumption DEF NoMsg
<1>1. /\ InQueue' = InQueue /\ Done' = Done \cup {o}
      /\ Range(completions') = Range(completions) \cup {Item(o, result, NoMsg)}
      /\ ItemPairs(completions') = ItemPairs(completions)
  BY <1>0, SendEffect, Zenon
<1>2. ItemsCarry' /\ StashedOnce' /\ Stashed' = Stashed
  BY <1>1, CarrySent, StashKept, Zenon
<1>3. matchedBar' = matchedBar
  BY <1>1, QueuePairsKept, Zenon DEF matchedBar
<1>4. phaseBar[o] = "pending" /\ phaseBar' = [phaseBar EXCEPT ![o] = "complete"]
  BY <1>0, <1>1, PhaseCompleted, Zenon
<1>5. Service!Complete(o)
  BY <1>2, <1>3, <1>4, Zenon DEF Service!Complete, Service!Becomes, Service!msgVars
<1> QED BY <1>0, <1>2, <1>5, Zenon DEF ServiceStep, Service!Next

LEMMA CancelStep ==
  ASSUME TypeOK, SingleHolder, ItemsCarry, StashedOnce, NEW o \in Waiting, Canceled(o),
         UNCHANGED <<ostate, unexpected_msg_stash, expected_msg_stash, arrived, completions, consumed>>
  PROVE  ItemsCarry' /\ StashedOnce' /\ ServiceStep
<1>0. /\ o \in Ops /\ o \notin Done /\ Done \subseteq Ops
      /\ op[o] \in OpRecord /\ op \in [Ops -> OpRecord]
  BY WaitingOps, Zenon DEF TypeOK, SingleHolder, Done
<1>1. InChannel' = InChannel /\ InQueue' = InQueue \cup {o} /\ Done' = Done \cup {o}
  BY <1>0, AddEffect, Zenon DEF Canceled
<1>2. op'[o].ret = "CANCELED" /\ \A p \in Ops : p # o => op'[p] = op[p]
  BY <1>0, Zenon DEF Canceled, OpRecord
<1>3. \A p \in Done : op'[p] = op[p]
  BY <1>0, <1>2, Zenon
<1>4. ItemsCarry' /\ StashedOnce' /\ Stashed' = Stashed
  BY <1>3, CarryKept, StashKept, Zenon DEF Done
<1>5. QueuePairs' = QueuePairs
  BY <1>1, <1>2, <1>3, Zenon DEF QueuePairs, QueuedReceives, Done
<1>6. phaseBar[o] = "pending" /\ phaseBar' = [phaseBar EXCEPT ![o] = "complete"]
  BY <1>0, <1>1, PhaseCompleted, Zenon
<1>7. Service!Complete(o)
  BY <1>4, <1>5, <1>6, Zenon DEF Service!Complete, Service!Becomes, Service!msgVars, matchedBar
<1> QED BY <1>0, <1>4, <1>7, Zenon DEF ServiceStep, Service!Next

LEMMA ArriveMatchedStep ==
  ASSUME TypeOK, SingleHolder, ItemsCarry, StashedOnce, NEW o \in Waiting,
         op[o].type \in RecvTypes, NewAddr \in 1..MaxMsgs, CompletionSend(o, "SUCCESS", NewAddr),
         Len(arrived') = Len(arrived) + 1,
         UNCHANGED <<ostate, op, unexpected_msg_stash, expected_msg_stash, completion_queue, consumed>>
  PROVE  ItemsCarry' /\ StashedOnce' /\ ServiceStep
<1> DEFINE m == NewAddr
<1>0. /\ o \in Ops /\ m \in 0..MaxMsgs /\ m # NoMsg /\ "SUCCESS" \in Rets
      /\ m = Len(arrived) + 1 /\ Len(arrived) \in Nat
  <2>1. o \in Ops /\ "SUCCESS" \in Rets
    BY WaitingOps, Zenon DEF Rets
  <2>2. m = Len(arrived) + 1 /\ Len(arrived) \in Nat
    BY DEF NewAddr, TypeOK
  <2>3. m \in 0..MaxMsgs /\ m # NoMsg
    BY EndpointAssumption DEF NoMsg
  <2> QED BY <2>1, <2>2, <2>3, Zenon
<1> HIDE DEF m
<1>1. /\ InQueue' = InQueue /\ Done' = Done \cup {o}
      /\ Range(completions') = Range(completions) \cup {Item(o, "SUCCESS", m)}
      /\ ItemPairs(completions') = ItemPairs(completions) \cup {<<o, m>>}
  <2>1. CompletionSend(o, "SUCCESS", m)
    BY Zenon DEF m
  <2> QED BY <1>0, <2>1, SendEffect, Zenon
<1>2. ItemsCarry'
  BY <1>0, <1>1, CarrySent, Zenon
<1>3. StashedOnce' /\ Stashed' = Stashed
  <2>1. Stashed' = Stashed /\ Stashed \subseteq 1..Len(arrived')
    BY <1>0 DEF Stashed, StashedOnce
  <2> QED BY <2>1, Zenon DEF StashedOnce
<1>4. matchedBar' = matchedBar \cup {<<o, m>>}
  BY <1>1, QueuePairsKept, Zenon DEF matchedBar
<1>5. phaseBar[o] = "pending" /\ phaseBar' = [phaseBar EXCEPT ![o] = "complete"]
  BY <1>0, <1>1, PhaseCompleted, Zenon
<1>6. Service!ArriveMatched(o)
  BY <1>0, <1>3, <1>4, <1>5, Zenon DEF Service!ArriveMatched, Service!Becomes
<1> QED BY <1>0, <1>2, <1>3, <1>6, Zenon DEF ServiceStep, Service!Next

LEMMA ArriveStep ==
  ASSUME ItemsCarry, Stashed' = Stashed \cup {NewAddr}, Len(arrived') = Len(arrived) + 1,
         UNCHANGED <<ostate, op, completions, completion_queue, consumed>>
  PROVE  ItemsCarry' /\ ServiceStep
<1>1. InChannel' = InChannel /\ InQueue' = InQueue /\ Done' = Done
  BY Zenon DEF InChannel, InQueue, Done
<1>2. ItemsCarry'
  BY CarryKept, Zenon
<1>3. phaseBar' = phaseBar /\ matchedBar' = matchedBar
  BY <1>1, PhaseSame, QueuePairsKept, Zenon DEF matchedBar
<1>4. Service!Arrive
  BY <1>3, Zenon DEF Service!Arrive, NewAddr
<1> QED BY <1>2, <1>4, Zenon DEF ServiceStep, Service!Next

\* What one turn of poll does to the channel, the NA core's queue and the op.
LEMMA PollEffect ==
  ASSUME TypeOK, SingleHolder, Poll, NEW c, c = Head(completions), NEW o, o = c.op
  PROVE  /\ c \in Range(completions) /\ o \in InChannel /\ o \in Ops /\ o \notin InQueue
         /\ Range(completions) = {c} \cup Range(completions')
         /\ InChannel' = InChannel \ {o} /\ InQueue' = InQueue \cup {o} /\ Done' = Done
         /\ \A p \in Done : p # o => op'[p] = op[p]
         /\ op'[o].type = op[o].type /\ op'[o].ret = c.result
         /\ op[o].type \in RecvTypes /\ c.msg # NoMsg => op'[o].msg = c.msg
<1> DEFINE t == Tail(completions)
<1>1. /\ completions # <<>> /\ completions' = t /\ CompletionAdd(o)
      /\ op' = [op EXCEPT ![o] = Completed(op[o], c)]
  BY Zenon DEF Poll
<1>2. /\ completions \in Seq(CompletionItem) /\ DistinctOps(completions)
      /\ completion_queue \in Seq(Ops) /\ op \in [Ops -> OpRecord]
  BY Zenon DEF TypeOK, SingleHolder, NoDuplicates
<1>3. /\ ItemOps(t) = InChannel \ {o} /\ o \in InChannel
      /\ Range(completions) = {c} \cup Range(t)
  BY <1>1, <1>2, ReceiveDistinct, HeadAndRest, Zenon DEF InChannel
<1> HIDE DEF t
<1>4. o \in Ops /\ o \notin InQueue /\ Done \subseteq Ops
  BY <1>3, WaitingOps, Zenon DEF SingleHolder, Done
<1>5. InChannel' = InChannel \ {o} /\ InQueue' = InQueue \cup {o} /\ Done' = Done
  <2>1. InChannel' = InChannel \ {o}
    BY <1>1, <1>3, Zenon DEF InChannel
  <2>2. InQueue' = InQueue \cup {o}
    <3>1. completion_queue' = Append(completion_queue, o)
      BY <1>1, Zenon DEF CompletionAdd
    <3> QED BY <1>2, <1>4, <3>1, RangeAppend DEF InQueue
  <2> QED BY <1>3, <2>1, <2>2, Zenon DEF Done
<1>6. op'[o] = Completed(op[o], c) /\ \A p \in Done : p # o => op'[p] = op[p]
  BY <1>1, <1>2, <1>4, Zenon
<1>7. /\ op'[o].type = op[o].type /\ op'[o].ret = c.result
      /\ op[o].type \in RecvTypes /\ c.msg # NoMsg => op'[o].msg = c.msg
  <2>1. op[o] \in OpRecord
    BY <1>2, <1>4, Zenon
  <2> QED BY <1>6, <2>1, Zenon DEF Completed, OpRecord
<1> QED BY <1>1, <1>3, <1>4, <1>5, <1>6, <1>7, Zenon

\* A completion that moves from the channel to the NA core's queue takes its
\* message along, so poll changes nothing of the service.
LEMMA PollStep ==
  ASSUME TypeOK, SingleHolder, ItemsCarry, StashedOnce, Poll
  PROVE  ItemsCarry' /\ StashedOnce' /\ ServiceStep
<1>1. PICK c : c = Head(completions)
  BY Zenon
<1>2. PICK o : o = c.op
  BY Zenon
<1>3. /\ c \in Range(completions) /\ o \in InChannel /\ o \notin InQueue
      /\ Range(completions) = {c} \cup Range(completions')
      /\ InQueue' = InQueue \cup {o} /\ Done' = Done
      /\ \A p \in Done : p # o => op'[p] = op[p]
      /\ op'[o].type = op[o].type /\ op'[o].ret = c.result
      /\ op[o].type \in RecvTypes /\ c.msg # NoMsg => op'[o].msg = c.msg
  BY <1>1, <1>2, PollEffect, Zenon
<1>4. UNCHANGED <<ostate, unexpected_msg_stash, expected_msg_stash, arrived, consumed>>
  BY Zenon DEF Poll, recvVars
<1>5. ItemsCarry'
  <2>1. \A p \in InChannel : op'[p].type = op[p].type
    BY <1>3, Zenon DEF Done
  <2> QED BY <1>3, <2>1, CarryKept, Zenon
<1>6. StashedOnce' /\ Stashed' = Stashed
  BY <1>4, StashKept, Zenon
<1>7. \A p \in InQueue : p # o /\ op'[p] = op[p]
  BY <1>3, Zenon DEF Done
<1>8. matchedBar' = matchedBar
  <2>1. CASE op[o].type \in RecvTypes
    <3>1. c.msg # NoMsg /\ c.result = "SUCCESS"
      BY <1>2, <1>3, <2>1, Zenon DEF ItemsCarry
    <3>2. ItemPairs(completions) = ItemPairs(completions') \cup {<<o, c.msg>>}
      BY <1>2, <1>3, <3>1, Zenon DEF ItemPairs
    <3>3. QueuePairs' = QueuePairs \cup {<<o, c.msg>>}
      BY <1>3, <1>7, <2>1, <3>1, ZenonT(30) DEF QueuePairs, QueuedReceives
    <3> QED BY <3>2, <3>3, Zenon DEF matchedBar
  <2>2. CASE op[o].type \notin RecvTypes
    <3>1. c.msg = NoMsg
      BY <1>2, <1>3, <2>2, Zenon DEF ItemsCarry
    <3>2. ItemPairs(completions') = ItemPairs(completions)
      BY <1>3, <3>1, Zenon DEF ItemPairs
    <3>3. QueuePairs' = QueuePairs
      BY <1>3, <1>7, <2>2, Zenon DEF QueuePairs, QueuedReceives
    <3> QED BY <3>2, <3>3, Zenon DEF matchedBar
  <2> QED BY <2>1, <2>2, Zenon
<1>9. phaseBar' = phaseBar
  BY <1>3, <1>4, PhaseSame, Zenon
<1> QED BY <1>4, <1>5, <1>6, <1>8, <1>9, Zenon DEF ServiceStep

LEMMA CallbackStep ==
  ASSUME TypeOK, SingleHolder, ItemsCarry, StashedOnce, Trigger
  PROVE  ItemsCarry' /\ StashedOnce' /\ ServiceStep
<1> DEFINE o == Head(completion_queue)
           t == Tail(completion_queue)
           received == op[o].ret = "SUCCESS" /\ op[o].type \in RecvTypes
<1>1. /\ completion_queue # <<>> /\ completion_queue' = t
      /\ ostate' = [ostate EXCEPT ![o] = Released(o)]
      /\ consumed' = consumed \cup {m \in {op[o].msg} : received}
      /\ UNCHANGED <<op, unexpected_msg_stash, expected_msg_stash, arrived, completions>>
  BY Zenon DEF Trigger, recvVars
<1>2. completion_queue \in Seq(Ops) /\ IsInjective(completion_queue)
  BY Zenon DEF TypeOK, SingleHolder, NoDuplicates
<1>3. Range(t) = InQueue \ {o} /\ o \in InQueue
  BY <1>1, <1>2, TailDistinct, Zenon DEF InQueue
<1> HIDE DEF o, t
<1>4. /\ o \in Ops /\ o \notin InChannel /\ ostate[o] = "busy"
      /\ ostate \in [Ops -> {"free", "idle", "busy"}]
  BY <1>3, Zenon DEF SingleHolder, Busy, TypeOK
<1>5. ostate' = [ostate EXCEPT ![o] = "idle"]
  BY <1>1, <1>4, Zenon DEF Released
<1>6. InChannel' = InChannel /\ InQueue' = InQueue \ {o}
  BY <1>1, <1>3, Zenon DEF InChannel, InQueue
<1>7. ItemsCarry' /\ StashedOnce' /\ Stashed' = Stashed
  BY <1>1, CarryKept, StashKept, Zenon
<1>8. phaseBar[o] = "complete" /\ phaseBar' = [phaseBar EXCEPT ![o] = "idle"]
  BY <1>3, <1>4, <1>5, <1>6, Zenon DEF phaseBar
<1>9. \A p \in ItemPairs(completions) : p[1] # o
  BY <1>4, ItemPairOps, Zenon DEF InChannel
<1>10. QueuePairs' = {p \in QueuePairs : p[1] # o}
  BY <1>1, <1>6 DEF QueuePairs, QueuedReceives
<1>11. {p \in QueuePairs : p[1] = o} = {p \in {<<o, op[o].msg>>} : received}
  BY <1>3 DEF QueuePairs, QueuedReceives
<1> HIDE DEF received
<1>12. Service!MatchedTo(o) = {p \in {<<o, op[o].msg>>} : received}
  BY <1>9, <1>11, Zenon DEF Service!MatchedTo, matchedBar
<1>13. matchedBar' = matchedBar \ Service!MatchedTo(o)
  BY <1>1, <1>9, <1>10, Zenon DEF Service!MatchedTo, matchedBar
<1>14. consumed' = consumed \cup {p[2] : p \in Service!MatchedTo(o)}
  <2> DEFINE m == op[o].msg
             mine == Service!MatchedTo(o)
  <2>1. consumed' = consumed \cup {n \in {m} : received}
    BY <1>1, Zenon
  <2>2. mine = {p \in {<<o, m>>} : received}
    BY <1>12, Zenon
  <2> HIDE DEF m, mine
  <2>3. {p[2] : p \in mine} = {n \in {m} : received}
    <3>1. CASE received
      <4>1. mine = {<<o, m>>}
        BY <2>2, <3>1, Zenon
      <4>2. <<o, m>>[2] = m
        BY Zenon
      <4> QED BY <3>1, <4>1, <4>2, Zenon
    <3>2. CASE ~ received
      BY <2>2, <3>2, Zenon
    <3> QED BY <3>1, <3>2, Zenon
  <2> QED BY <2>1, <2>3, Zenon DEF mine
<1>15. Service!Callback(o)
  BY <1>1, <1>7, <1>8, <1>13, <1>14, Zenon DEF Service!Callback, Service!Becomes
<1> QED BY <1>4, <1>7, <1>15, Zenon DEF ServiceStep, Service!Next

-----------------------------------------------------------------------------
(* Every step of the endpoint is one of these.                             *)

\* The fields a receive is given with the message it finds in a stash.
LEMMA ReceivedFields ==
  ASSUME NEW r \in OpRecord, NEW m
  PROVE  Received(r, m).ret = "SUCCESS" /\ Received(r, m).msg = m /\ Received(r, m).type = r.type
BY Zenon DEF OpRecord, Received

LEMMA ReceivingFields ==
  ASSUME NEW r \in OpRecord, NEW type \in RecvTypes, NEW addr \in Peers \cup {AnySource}, NEW tag \in Tags
  PROVE  /\ Receiving(r, type, addr, tag) \in OpRecord /\ Receiving(r, type, addr, tag).type = type
         /\ Receiving(r, type, addr, tag).type \in RecvTypes
<1>1. Receiving(r, type, addr, tag).type = type
  BY FilledOpFields
<1>2. Receiving(r, type, addr, tag) \in OpRecord
  BY FilledOpType, Zenon
<1> QED BY <1>1, <1>2, Zenon

LEMMA RecvUnexpectedStep ==
  ASSUME TypeOK, SingleHolder, ItemsCarry, StashedOnce, NEW o \in Ops, MsgRecvUnexpected(o)
  PROVE  ItemsCarry' /\ StashedOnce' /\ ServiceStep
<1>1. /\ Post(o) /\ op \in [Ops -> OpRecord] /\ op[o] \in OpRecord
      /\ UNCHANGED <<expected_msg_stash, arrived, completions, consumed>>
  BY Zenon DEF MsgRecvUnexpected, TypeOK, userVars
<1>2. CASE unexpected_msg_stash = <<>>
  <2>1. UNCHANGED <<unexpected_msg_stash, completion_queue>>
    BY <1>2, Zenon DEF MsgRecvUnexpected
  <2>2. \A p \in Ops : p # o => op'[p] = op[p]
    BY <1>1, <1>2, Zenon DEF MsgRecvUnexpected
  <2> QED BY <1>1, <2>1, <2>2, PostStep, Zenon
<1>3. CASE unexpected_msg_stash # <<>>
  <2> DEFINE q == unexpected_msg_stash
             m == Head(q)
             posted == Receiving(op[o], "RECV_UNEXPECTED", AnySource, op[o].tag)
  <2>1. /\ unexpected_msg_stash' = Tail(q) /\ CompletionAdd(o)
        /\ op' = [op EXCEPT ![o] = Received(posted, m)]
    BY <1>3, Zenon DEF MsgRecvUnexpected
  <2>2. IsInjective(Tail(q)) /\ Range(Tail(q)) = Range(q) \ {m} /\ m \in Range(q)
    BY <1>3, TailDistinct, Zenon DEF TypeOK, StashedOnce
  <2>3. posted \in OpRecord /\ posted.type \in RecvTypes
    <3>1. op[o].tag \in Tags /\ "RECV_UNEXPECTED" \in RecvTypes /\ AnySource \in Peers \cup {AnySource}
      BY <1>1, Zenon DEF OpRecord, RecvTypes
    <3> QED BY <1>1, <3>1, ReceivingFields, Zenon
  <2> HIDE DEF m, posted
  <2>4. /\ op'[o].type \in RecvTypes /\ op'[o].ret = "SUCCESS" /\ op'[o].msg = m
        /\ \A p \in Ops : p # o => op'[p] = op[p]
    <3>1. op'[o] = Received(posted, m) /\ \A p \in Ops : p # o => op'[p] = op[p]
      BY <1>1, <2>1, Zenon
    <3>2. /\ Received(posted, m).ret = "SUCCESS" /\ Received(posted, m).msg = m
          /\ Received(posted, m).type \in RecvTypes
      BY <2>3, ReceivedFields, Zenon
    <3> QED BY <3>1, <3>2, Zenon
  <2>5. m \in Stashed /\ Stashed' = Stashed \ {m} /\ StashedOnce'
    BY <1>1, <2>1, <2>2, Zenon DEF Stashed, StashedOnce
  <2> QED BY <1>1, <2>1, <2>4, <2>5, PostMatchedStep, Zenon
<1> QED BY <1>2, <1>3, Zenon

LEMMA RecvExpectedStep ==
  ASSUME TypeOK, SingleHolder, ItemsCarry, StashedOnce, NEW o \in Ops,
         NEW addr \in Peers \cup {AnySource}, NEW tag \in Tags, MsgRecvExpected(o, addr, tag)
  PROVE  ItemsCarry' /\ StashedOnce' /\ ServiceStep
<1> DEFINE posted == Receiving(op[o], "RECV_EXPECTED", addr, tag)
<1>1. /\ Post(o) /\ op \in [Ops -> OpRecord] /\ op[o] \in OpRecord
      /\ UNCHANGED <<unexpected_msg_stash, arrived, completions, consumed>>
  BY Zenon DEF MsgRecvExpected, TypeOK
<1>2. posted \in OpRecord /\ posted.type \in RecvTypes
  <2>1. "RECV_EXPECTED" \in RecvTypes
    BY Zenon DEF RecvTypes
  <2> QED BY <1>1, <2>1, ReceivingFields, Zenon
<1>3. ASSUME op' = [op EXCEPT ![o] = posted], UNCHANGED <<expected_msg_stash, completion_queue>>
      PROVE  ItemsCarry' /\ StashedOnce' /\ ServiceStep
  <2>1. \A p \in Ops : p # o => op'[p] = op[p]
    BY <1>1, <1>3, Zenon
  <2> QED BY <1>1, <1>3, <2>1, PostStep, Zenon
<1>4. ASSUME NEW i \in DOMAIN expected_msg_stash,
             expected_msg_stash' = Take(expected_msg_stash, i),
             op' = [op EXCEPT ![o] = Received(posted, expected_msg_stash[i])],
             CompletionAdd(o)
      PROVE  ItemsCarry' /\ StashedOnce' /\ ServiceStep
  <2> DEFINE q == expected_msg_stash
             m == q[i]
  <2>1. IsInjective(Take(q, i)) /\ Range(Take(q, i)) = Range(q) \ {m} /\ m \in Range(q)
    BY StashTake, Zenon DEF TypeOK, StashedOnce
  <2> HIDE DEF m, posted
  <2>2. /\ op'[o].type \in RecvTypes /\ op'[o].ret = "SUCCESS" /\ op'[o].msg = m
        /\ \A p \in Ops : p # o => op'[p] = op[p]
    <3>1. op'[o] = Received(posted, m) /\ \A p \in Ops : p # o => op'[p] = op[p]
      BY <1>1, <1>4, Zenon DEF m
    <3>2. /\ Received(posted, m).ret = "SUCCESS" /\ Received(posted, m).msg = m
          /\ Received(posted, m).type \in RecvTypes
      BY <1>2, ReceivedFields, Zenon
    <3> QED BY <3>1, <3>2, Zenon
  <2>3. m \in Stashed /\ Stashed' = Stashed \ {m} /\ StashedOnce'
    BY <1>1, <1>4, <2>1, Zenon DEF Stashed, StashedOnce
  <2> QED BY <1>1, <1>4, <2>2, <2>3, PostMatchedStep, Zenon
<1> QED BY <1>3, <1>4, Zenon DEF MsgRecvExpected

\* What an arriving message does to the stash of its kind.
LEMMA StashAppend ==
  ASSUME NEW q \in Seq(1..MaxMsgs), NEW m \in 1..MaxMsgs, IsInjective(q), m \notin Range(q)
  PROVE  Range(Append(q, m)) = Range(q) \cup {m} /\ IsInjective(Append(q, m))
<1> DEFINE S == 1..MaxMsgs
<1>1. q \in Seq(S) /\ m \in S
  BY Zenon
<1> HIDE DEF S
<1> QED BY <1>1, AppendDistinct

LEMMA StashedNew ==
  ASSUME TypeOK, StashedOnce, NewAddr \in 1..MaxMsgs, Len(arrived') = Len(arrived) + 1,
         \/ /\ unexpected_msg_stash' = Append(unexpected_msg_stash, NewAddr)
            /\ UNCHANGED expected_msg_stash
         \/ /\ expected_msg_stash' = Append(expected_msg_stash, NewAddr)
            /\ UNCHANGED unexpected_msg_stash
  PROVE  StashedOnce' /\ Stashed' = Stashed \cup {NewAddr}
<1> DEFINE m == NewAddr
           n == Len(arrived)
<1>1. n \in Nat /\ m = n + 1 /\ Len(arrived') = n + 1 /\ Stashed \subseteq 1..n /\ m \in 1..MaxMsgs
  BY DEF TypeOK, NewAddr, StashedOnce
<1>2. /\ unexpected_msg_stash \in Seq(1..MaxMsgs) /\ IsInjective(unexpected_msg_stash)
      /\ expected_msg_stash \in Seq(1..MaxMsgs) /\ IsInjective(expected_msg_stash)
  BY Zenon DEF TypeOK, StashedOnce
<1> HIDE DEF m, n
<1>3. m \notin Stashed /\ Stashed \cup {m} \subseteq 1..Len(arrived')
  <2>1. m \notin Stashed
    BY <1>1
  <2>2. 1..n \subseteq 1..(n + 1) /\ n + 1 \in 1..(n + 1)
    BY <1>1
  <2> QED BY <1>1, <2>1, <2>2, Zenon
<1>4. m \notin Range(unexpected_msg_stash) /\ m \notin Range(expected_msg_stash)
  BY <1>3, Zenon DEF Stashed
<1>5. CASE unexpected_msg_stash' = Append(unexpected_msg_stash, m) /\ UNCHANGED expected_msg_stash
  <2>1. /\ Range(unexpected_msg_stash') = Range(unexpected_msg_stash) \cup {m}
        /\ IsInjective(unexpected_msg_stash')
    BY <1>1, <1>2, <1>4, <1>5, StashAppend, Zenon
  <2>2. Stashed' = Stashed \cup {m}
    BY <1>5, <2>1, Zenon DEF Stashed
  <2> QED BY <1>3, <1>5, <2>1, <2>2, Zenon DEF StashedOnce, Stashed, m
<1>6. CASE expected_msg_stash' = Append(expected_msg_stash, m) /\ UNCHANGED unexpected_msg_stash
  <2>1. /\ Range(expected_msg_stash') = Range(expected_msg_stash) \cup {m}
        /\ IsInjective(expected_msg_stash')
    BY <1>1, <1>2, <1>4, <1>6, StashAppend, Zenon
  <2>2. Stashed' = Stashed \cup {m}
    BY <1>6, <2>1, Zenon DEF Stashed
  <2> QED BY <1>3, <1>6, <2>1, <2>2, Zenon DEF StashedOnce, Stashed, m
<1> QED BY <1>5, <1>6, Zenon DEF m

LEMMA UnexpectedMsgStep ==
  ASSUME TypeOK, SingleHolder, ItemsCarry, StashedOnce, NEW src \in Peers, NEW tag \in Tags,
         HandleUnexpectedMsg(src, tag)
  PROVE  ItemsCarry' /\ StashedOnce' /\ ServiceStep
<1> DEFINE q == unexpected_recv_ops
<1>1. /\ NewAddr \in 1..MaxMsgs /\ Len(arrived') = Len(arrived) + 1
      /\ UNCHANGED <<ostate, op, expected_msg_stash, completion_queue, consumed>>
  <2>1. arrived' = Append(arrived, [kind |-> "unexpected", src |-> src, tag |-> tag])
    BY Zenon DEF HandleUnexpectedMsg
  <2>2. Len(arrived') = Len(arrived) + 1
    BY <2>1 DEF TypeOK
  <2>3. NewAddr \in 1..MaxMsgs
    <3>1. Len(arrived) \in Nat
      BY DEF TypeOK
    <3>2. NewAddr = Len(arrived) + 1 /\ NewAddr <= MaxMsgs
      BY Zenon DEF HandleUnexpectedMsg, NewAddr
    <3> QED BY <3>1, <3>2, EndpointAssumption
  <2> QED BY <2>2, <2>3, Zenon DEF HandleUnexpectedMsg, opVars
<1>2. CASE q # <<>>
  <2> DEFINE o == Head(q)
  <2>1. CompletionSend(o, "SUCCESS", NewAddr) /\ UNCHANGED unexpected_msg_stash
    BY <1>2, Zenon DEF HandleUnexpectedMsg
  <2>2. o \in Range(q)
    BY <1>2, TailDistinct, Zenon DEF TypeOK, SingleHolder, NoDuplicates
  <2> HIDE DEF o
  <2>3. o \in Waiting /\ op[o].type \in RecvTypes
    BY <2>2, Zenon DEF SingleHolder, RightQueue, Waiting, RecvTypes
  <2> QED BY <1>1, <2>1, <2>3, ArriveMatchedStep, Zenon
<1>3. CASE q = <<>>
  <2>1. unexpected_msg_stash' = Append(unexpected_msg_stash, NewAddr) /\ UNCHANGED completions
    BY <1>3, Zenon DEF HandleUnexpectedMsg
  <2>2. StashedOnce' /\ Stashed' = Stashed \cup {NewAddr}
    BY <1>1, <2>1, StashedNew, Zenon
  <2> QED BY <1>1, <2>1, <2>2, ArriveStep, Zenon
<1> QED BY <1>2, <1>3, Zenon

LEMMA ExpectedMsgStep ==
  ASSUME TypeOK, SingleHolder, ItemsCarry, StashedOnce, NEW src \in Peers, NEW tag \in Tags,
         HandleExpectedMsg(src, tag)
  PROVE  ItemsCarry' /\ StashedOnce' /\ ServiceStep
<1>1. /\ NewAddr \in 1..MaxMsgs /\ Len(arrived') = Len(arrived) + 1
      /\ UNCHANGED <<ostate, op, unexpected_msg_stash, completion_queue, consumed>>
  <2>1. arrived' = Append(arrived, [kind |-> "expected", src |-> src, tag |-> tag])
    BY Zenon DEF HandleExpectedMsg
  <2>2. Len(arrived') = Len(arrived) + 1
    BY <2>1 DEF TypeOK
  <2>3. NewAddr \in 1..MaxMsgs
    <3>1. Len(arrived) \in Nat
      BY DEF TypeOK
    <3>2. NewAddr = Len(arrived) + 1 /\ NewAddr <= MaxMsgs
      BY Zenon DEF HandleExpectedMsg, NewAddr
    <3> QED BY <3>1, <3>2, EndpointAssumption
  <2> QED BY <2>2, <2>3, Zenon DEF HandleExpectedMsg, opVars
<1>2. ASSUME NEW i \in DOMAIN expected_recv_ops,
             CompletionSend(expected_recv_ops[i], "SUCCESS", NewAddr),
             UNCHANGED expected_msg_stash
      PROVE  ItemsCarry' /\ StashedOnce' /\ ServiceStep
  <2> DEFINE o == expected_recv_ops[i]
  <2>1. o \in Waiting /\ op[o].type \in RecvTypes
    <3>1. o \in Range(expected_recv_ops)
      BY Zenon DEF Range
    <3> HIDE DEF o
    <3> QED BY <3>1, Zenon DEF SingleHolder, RightQueue, Waiting, RecvTypes
  <2> QED BY <1>1, <1>2, <2>1, ArriveMatchedStep, Zenon
<1>3. ASSUME expected_msg_stash' = Append(expected_msg_stash, NewAddr), UNCHANGED completions
      PROVE  ItemsCarry' /\ StashedOnce' /\ ServiceStep
  <2>1. StashedOnce' /\ Stashed' = Stashed \cup {NewAddr}
    BY <1>1, <1>3, StashedNew, Zenon
  <2> QED BY <1>1, <1>3, <2>1, ArriveStep, Zenon
<1> QED BY <1>2, <1>3, Zenon DEF HandleExpectedMsg

LEMMA StepRefines ==
  ASSUME ~ GetWriteMayFail, ServiceInv, [Next]_vars
  PROVE  ServiceInv' /\ ServiceStep
<1>0. TypeOK /\ SingleHolder /\ ItemsCarry /\ StashedOnce
  BY Zenon DEF ServiceInv
<1> DEFINE Goal == ItemsCarry' /\ StashedOnce' /\ ServiceStep
<1> USE <1>0
<1>1. ASSUME NEW o \in Ops, OpCreate(o) \/ OpDestroy(o) PROVE Goal
  BY <1>1, CreateOrDestroyStep, Zenon
<1>2. ASSUME NEW o \in Ops, NEW type, NEW tag, MsgSend(o, type, tag) PROVE Goal
  <2>1. /\ Post(o) /\ \A p \in Ops : p # o => op'[p] = op[p]
        /\ UNCHANGED <<unexpected_msg_stash, expected_msg_stash, arrived, completions,
                       completion_queue, consumed>>
    BY <1>2, Zenon DEF MsgSend, TypeOK, recvVars, doneVars, userVars
  <2> QED BY <2>1, PostStep, Zenon
<1>3. ASSUME NEW o \in Ops, Put(o) PROVE Goal
  <2>1. /\ Post(o) /\ \A p \in Ops : p # o => op'[p] = op[p]
        /\ UNCHANGED <<unexpected_msg_stash, expected_msg_stash, arrived, completions,
                       completion_queue, consumed>>
    BY <1>3, Zenon DEF Put, TypeOK, recvVars, doneVars, userVars
  <2> QED BY <2>1, PostStep, Zenon
<1>4. ASSUME NEW o \in Ops, NEW key \in Keys, Get(o, key) PROVE Goal
  <2>1. /\ Post(o) /\ \A p \in Ops : p # o => op'[p] = op[p]
        /\ UNCHANGED <<unexpected_msg_stash, expected_msg_stash, arrived, completions,
                       completion_queue, consumed>>
    BY <1>4, Zenon DEF Get, TypeOK, recvVars, doneVars, userVars
  <2> QED BY <2>1, PostStep, Zenon
<1>5. ASSUME NEW o \in Ops, MsgRecvUnexpected(o) PROVE Goal
  BY <1>5, RecvUnexpectedStep, Zenon
<1>6. ASSUME NEW o \in Ops, NEW addr \in Peers \cup {AnySource}, NEW tag \in Tags,
             MsgRecvExpected(o, addr, tag)
      PROVE  Goal
  BY <1>6, RecvExpectedStep, Zenon
<1>7. ASSUME NEW o \in Ops, Cancel(o) PROVE Goal
  <2>1. /\ Canceled(o)
        /\ UNCHANGED <<ostate, unexpected_msg_stash, expected_msg_stash, arrived, completions, consumed>>
    BY <1>7, Zenon DEF Cancel, userVars
  <2>2. \E q \in {unexpected_recv_ops, expected_recv_ops, pending_rma_ops} : \E i \in DOMAIN q : q[i] = o
    BY <1>7, Zenon DEF Cancel, IsFirst
  <2>3. o \in Waiting
    BY <2>2, Zenon DEF Waiting, Range
  <2> QED BY <2>1, <2>3, CancelStep, Zenon
<1>8. ASSUME NEW o \in Ops, NEW result \in {"SUCCESS", "PROTOCOL_ERROR"}, SendDone(o, result)
      PROVE  Goal
  <2>1. /\ CompletionSend(o, result, NoMsg) /\ result \in Rets
        /\ UNCHANGED <<ostate, op, unexpected_msg_stash, expected_msg_stash, arrived,
                       completion_queue, consumed>>
    BY <1>8, Zenon DEF SendDone, Rets, opVars, recvVars, userVars
  <2>2. o \in Waiting /\ op[o].type \notin RecvTypes
    BY <1>8, Zenon DEF SendDone, Waiting, SingleHolder, RightQueue, SendTypes, RecvTypes
  <2> QED BY <2>1, <2>2, CompleteStep, Zenon
<1>9. ASSUME NEW src \in Peers, NEW tag \in Tags,
             HandleUnexpectedMsg(src, tag) \/ HandleExpectedMsg(src, tag)
      PROVE  Goal
  BY <1>9, UnexpectedMsgStep, ExpectedMsgStep, Zenon
<1>10. ASSUME NEW g \in gets, GetWritten(g) PROVE Goal
  <2>1. UNCHANGED <<ostate, op, unexpected_msg_stash, expected_msg_stash, arrived,
                    completions, completion_queue, consumed>>
    BY <1>10, Zenon DEF GetWritten, opVars, recvVars, doneVars, userVars
  <2> QED BY <2>1, StutterStep, Zenon
<1>11. ASSUME NEW g \in gets, HandleRmaGetResponse(g) PROVE Goal
  <2>1. UNCHANGED <<ostate, op, unexpected_msg_stash, expected_msg_stash, arrived,
                    completion_queue, consumed>>
    BY <1>11, Zenon DEF HandleRmaGetResponse, opVars, recvVars, userVars
  <2>2. ASSUME UNCHANGED completions PROVE Goal
    BY <2>1, <2>2, StutterStep, Zenon
  <2>3. ASSUME NEW i \in DOMAIN pending_rma_ops, CompletionSend(pending_rma_ops[i], "SUCCESS", NoMsg)
        PROVE  Goal
    <3> DEFINE o == pending_rma_ops[i]
    <3>1. o \in Range(pending_rma_ops) /\ CompletionSend(o, "SUCCESS", NoMsg) /\ "SUCCESS" \in Rets
      BY <2>3, Zenon DEF Range, Rets
    <3> HIDE DEF o
    <3>2. o \in Waiting /\ op[o].type \notin RecvTypes
      BY <3>1, Zenon DEF Waiting, SingleHolder, RightQueue, RecvTypes
    <3> QED BY <2>1, <3>1, <3>2, CompleteStep, Zenon
  <2> QED BY <1>11, <2>2, <2>3, Zenon DEF HandleRmaGetResponse
<1>12. ASSUME Poll PROVE Goal
  BY <1>12, PollStep, Zenon
<1>13. ASSUME Trigger PROVE Goal
  BY <1>13, CallbackStep, Zenon
<1>14. ASSUME NEW m \in user_addrs, AddrFree(m) PROVE Goal
  <2>1. UNCHANGED <<ostate, op, unexpected_msg_stash, expected_msg_stash, arrived,
                    completions, completion_queue, consumed>>
    BY <1>14, Zenon DEF AddrFree, opVars, recvVars, doneVars
  <2> QED BY <2>1, StutterStep, Zenon
<1>15. ASSUME UNCHANGED vars PROVE Goal
  <2>1. UNCHANGED <<ostate, op, unexpected_msg_stash, expected_msg_stash, arrived,
                    completions, completion_queue, consumed>>
    BY <1>15, Zenon DEF vars, opVars, recvVars, doneVars, userVars
  <2> QED BY <2>1, StutterStep, Zenon
<1>16. Goal
  <2> HIDE DEF Goal
  <2>1. \A g \in gets : ~ GetWriteFailed(g)
    BY Zenon DEF GetWriteFailed
  <2> QED BY <1>1, <1>2, <1>3, <1>4, <1>5, <1>6, <1>7, <1>8, <1>9, <1>10, <1>11, <1>12, <1>13,
             <1>14, <1>15, <2>1 DEF Next, OpStep
<1> QED BY <1>16, TypeStep, HolderStep, Zenon DEF ServiceInv

LEMMA InitService ==
  ASSUME Init
  PROVE  ServiceInv /\ Service!Init
<1>1. TypeOK
  BY EndpointAssumption, ZeroedOpType DEF Init, TypeOK, NoMsg
<1>2. SingleHolder
  <2>1. Range(<<>>) = {} /\ ItemOps(<<>>) = {} /\ IsInjective(<<>>) /\ DistinctOps(<<>>)
    BY DEF Range, ItemOps, IsInjective, DistinctOps
  <2>2. Busy = {}
    BY Zenon DEF Init, Busy
  <2> QED BY <2>1, <2>2, Zenon
          DEF Init, SingleHolder, RightQueue, NoDuplicates, Waiting, InChannel, InQueue
<1>3. ItemsCarry /\ StashedOnce
  BY DEF Init, ItemsCarry, StashedOnce, Stashed, Range, IsInjective
<1>4. Service!Init
  <2>1. Range(<<>>) = {}
    BY DEF Range
  <2>2. phaseBar = [o \in Ops |-> "free"]
    BY Zenon DEF Init, phaseBar
  <2>3. Stashed = {} /\ InQueue = {} /\ Len(arrived) = 0
    BY <2>1, Zenon DEF Init, Stashed, InQueue
  <2>4. matchedBar = {}
    BY <2>1, <2>3, Zenon DEF Init, matchedBar, ItemPairs, QueuePairs, QueuedReceives
  <2> QED BY <2>2, <2>3, <2>4, Zenon DEF Init, Service!Init
<1> QED BY <1>1, <1>2, <1>3, <1>4, Zenon DEF ServiceInv

\* The endpoint implements the service, as long as no write of a get request is
\* reported as failed: whatever the interleaving of the NA threads, the handlers
\* and the polling, an operation that is posted completes once and its callback
\* runs once, and a message goes to one receive, whose callback delivers it.
THEOREM EndpointImplementsService == ASSUME ~ GetWriteMayFail PROVE Spec => ImplementsService
<1>1. Init => ServiceInv /\ Service!Init
  BY InitService, Zenon
<1>2. ServiceInv /\ [Next]_vars => ServiceInv'
  BY StepRefines, Zenon
<1>3. ServiceInv /\ [Next]_vars
        => [Service!Next]_<<phaseBar, <<Len(arrived), Stashed, matchedBar, consumed>>>>
  BY StepRefines, Zenon DEF ServiceStep
<1> QED BY <1>1, <1>2, <1>3, PTL
        DEF Spec, ImplementsService, Service!Spec, Service!vars, Service!msgVars

-----------------------------------------------------------------------------
(* Where a message is.  The service says it in one line: a message is in   *)
(* the inbox, given to one receive, or delivered.                          *)

Given(M) == {p[2] : p \in M}
OneHome(n, I, M, D) ==
  /\ 1..n = I \cup Given(M) \cup D
  /\ I \cap Given(M) = {} /\ I \cap D = {} /\ Given(M) \cap D = {}
  /\ \A p, q \in M : p[2] = q[2] => p = q

LEMMA OneMoreGiven ==
  ASSUME NEW M, NEW o, NEW m
  PROVE  Given(M \cup {<<o, m>>}) = Given(M) \cup {m}
<1> DEFINE r == <<o, m>>
<1>1. r[2] = m
  BY Zenon
<1> HIDE DEF r
<1>2. Given(M \cup {r}) = Given(M) \cup {m}
  BY <1>1, Zenon DEF Given
<1> QED BY <1>2, Zenon DEF r

\* A message leaves the inbox for a receive.
LEMMA HomeGiven ==
  ASSUME NEW n, NEW I, NEW M, NEW D, OneHome(n, I, M, D), NEW o, NEW m \in I
  PROVE  OneHome(n, I \ {m}, M \cup {<<o, m>>}, D)
<1> DEFINE N == M \cup {<<o, m>>}
           A == 1..n
<1>1. Given(N) = Given(M) \cup {m}
  BY OneMoreGiven, Zenon
<1>2. /\ A = I \cup Given(M) \cup D
      /\ I \cap Given(M) = {} /\ I \cap D = {} /\ Given(M) \cap D = {}
      /\ \A p, q \in M : p[2] = q[2] => p = q
  BY Zenon DEF OneHome
<1>3. ASSUME NEW p \in N, NEW q \in N, p[2] = q[2] PROVE p = q
  <2>1. \A r \in M : r[2] # m
    BY <1>2 DEF Given
  <2> QED BY <1>2, <1>3, <2>1
<1> HIDE DEF N, A
<1>4. A = (I \ {m}) \cup Given(N) \cup D
  BY <1>1, <1>2, Zenon
<1>5. (I \ {m}) \cap Given(N) = {} /\ (I \ {m}) \cap D = {} /\ Given(N) \cap D = {}
  BY <1>1, <1>2, Zenon
<1>6. OneHome(n, I \ {m}, N, D)
  BY <1>3, <1>4, <1>5, Zenon DEF OneHome, A
<1> QED BY <1>6, Zenon DEF N

LEMMA HomeArrived ==
  ASSUME NEW n \in Nat, NEW I, NEW M, NEW D, OneHome(n, I, M, D)
  PROVE  /\ OneHome(n + 1, I \cup {n + 1}, M, D)
         /\ \A o : OneHome(n + 1, I, M \cup {<<o, n + 1>>}, D)
<1>1. 1..(n + 1) = 1..n \cup {n + 1} /\ n + 1 \notin 1..n
  OBVIOUS
<1> DEFINE k == n + 1
           A == 1..n
           B == 1..k
<1>2. B = A \cup {k} /\ k \notin A
  BY <1>1, Zenon
<1>3. A = I \cup Given(M) \cup D
  BY Zenon DEF OneHome
<1> HIDE DEF k, A, B
<1>4. OneHome(n, I, M, D) => /\ I \cap Given(M) = {} /\ I \cap D = {} /\ Given(M) \cap D = {}
                             /\ \A p, q \in M : p[2] = q[2] => p = q
  BY Zenon DEF OneHome
<1>5. B = (I \cup {k}) \cup Given(M) \cup D
  BY <1>2, <1>3, Zenon
<1>6. OneHome(k, I \cup {k}, M, D)
  BY <1>2, <1>3, <1>4, <1>5 DEF OneHome, B
<1>7. ASSUME NEW o PROVE OneHome(k, I, M \cup {<<o, k>>}, D)
  <2> DEFINE N == M \cup {<<o, k>>}
  <2>1. Given(N) = Given(M) \cup {k}
    BY OneMoreGiven, Zenon
  <2>2. \A r \in M : r[2] # k
    BY <1>2, <1>3, Zenon DEF Given
  <2>3. ASSUME NEW p \in N, NEW q \in N, p[2] = q[2] PROVE p = q
    BY <1>4, <2>2, <2>3
  <2> HIDE DEF N
  <2>4. B = I \cup Given(N) \cup D
    BY <1>2, <1>3, <2>1, Zenon
  <2>5. I \cap Given(N) = {} /\ I \cap D = {} /\ Given(N) \cap D = {}
    BY <1>2, <1>3, <1>4, <2>1, Zenon
  <2>6. OneHome(k, I, N, D)
    BY <2>3, <2>4, <2>5, Zenon DEF OneHome, B
  <2> QED BY <2>6, Zenon DEF N
<1> QED BY <1>6, <1>7, Zenon DEF k

LEMMA HomeDelivered ==
  ASSUME NEW n, NEW I, NEW M, NEW D, OneHome(n, I, M, D), NEW N \in SUBSET M
  PROVE  OneHome(n, I, M \ N, D \cup Given(N))
<1>1. Given(M) = Given(M \ N) \cup Given(N)
  BY Zenon DEF Given
<1>2. Given(M \ N) \cap Given(N) = {}
  BY DEF Given, OneHome
<1> QED BY <1>1, <1>2, Zenon DEF OneHome

ServiceHome == OneHome(Len(arrived), Stashed, matchedBar, consumed)

\* A step of the service keeps every message in one place.
LEMMA HomeStep ==
  ASSUME TypeOK, ServiceHome, ServiceStep
  PROVE  ServiceHome'
<1>0. Len(arrived) \in Nat
  BY DEF TypeOK
<1> DEFINE n == Len(arrived)
<1>1. CASE UNCHANGED <<Len(arrived), Stashed, matchedBar, consumed>>
  BY <1>1, Zenon DEF ServiceHome
<1>2. ASSUME NEW o \in Ops, Service!PostMatched(o) PROVE ServiceHome'
  <2>1. PICK m \in Stashed : Stashed' = Stashed \ {m} /\ matchedBar' = matchedBar \cup {<<o, m>>}
    BY <1>2, Zenon DEF Service!PostMatched
  <2>2. Len(arrived') = Len(arrived) /\ consumed' = consumed
    BY <1>2, Zenon DEF Service!PostMatched
  <2> QED BY <2>1, <2>2, HomeGiven, Zenon DEF ServiceHome
<1>3. ASSUME Service!Arrive PROVE ServiceHome'
  <2>1. /\ Len(arrived') = Len(arrived) + 1 /\ Stashed' = Stashed \cup {Len(arrived) + 1}
        /\ matchedBar' = matchedBar /\ consumed' = consumed
    BY <1>3, Zenon DEF Service!Arrive
  <2> QED BY <1>0, <2>1, HomeArrived, ZenonT(30) DEF ServiceHome
<1>4. ASSUME NEW o \in Ops, Service!ArriveMatched(o) PROVE ServiceHome'
  <2>1. /\ Len(arrived') = Len(arrived) + 1 /\ matchedBar' = matchedBar \cup {<<o, Len(arrived) + 1>>}
        /\ Stashed' = Stashed /\ consumed' = consumed
    BY <1>4, Zenon DEF Service!ArriveMatched
  <2> DEFINE N == matchedBar \cup {<<o, Len(arrived) + 1>>}
  <2>2. OneHome(Len(arrived) + 1, Stashed, N, consumed)
    BY <1>0, HomeArrived, Zenon DEF ServiceHome
  <2>3. matchedBar' = N
    BY <2>1, Zenon
  <2> HIDE DEF N
  <2> QED BY <2>1, <2>2, <2>3, Zenon DEF ServiceHome
<1>5. ASSUME NEW o \in Ops, Service!Callback(o) PROVE ServiceHome'
  <2> DEFINE N == Service!MatchedTo(o)
  <2>1. /\ Len(arrived') = Len(arrived) /\ matchedBar' = matchedBar \ N
        /\ Stashed' = Stashed /\ consumed' = consumed \cup Given(N)
    BY <1>5, Zenon DEF Service!Callback, Given
  <2>2. N \in SUBSET matchedBar
    BY Zenon DEF Service!MatchedTo
  <2> HIDE DEF N
  <2> QED BY <2>1, <2>2, HomeDelivered, Zenon DEF ServiceHome
<1>6. ASSUME NEW o \in Ops, Service!Create(o) \/ Service!Destroy(o) \/ Service!Post(o) \/ Service!Complete(o)
      PROVE  ServiceHome'
  <2>1. UNCHANGED <<Len(arrived), Stashed, matchedBar, consumed>>
    BY <1>6, Zenon DEF Service!Create, Service!Destroy, Service!Post, Service!Complete, Service!msgVars
  <2> QED BY <2>1, Zenon DEF ServiceHome
<1> QED BY <1>1, <1>2, <1>3, <1>4, <1>5, <1>6, Zenon DEF ServiceStep, Service!Next

\* In the endpoint: the pairs of the mapping are the channel and the NA core's queue.
LEMMA HomeIsPlace ==
  ASSUME ServiceInv, ServiceHome
  PROVE  MessageInOnePlace
<1>1. /\ TypeOK /\ SingleHolder /\ arrived \in Seq(Message) /\ DOMAIN arrived = 1..Len(arrived)
      /\ InChannel \cap InQueue = {} /\ DistinctOps(completions)
  BY LenProperties, Zenon DEF ServiceInv, TypeOK, SingleHolder, NoDuplicates
<1> DEFINE C == ItemPairs(completions)
           Q == QueuePairs
<1>2. ChannelMsgs = Given(C)
  <2>1. ASSUME NEW c \in Range(completions), c.msg # NoMsg PROVE c.msg \in Given(C)
    <3> DEFINE r == <<c.op, c.msg>>
    <3>1. r \in C /\ r[2] = c.msg
      BY <2>1, Zenon DEF ItemPairs
    <3> HIDE DEF r, C
    <3> QED BY <3>1, Zenon DEF Given
  <2>2. ASSUME NEW p \in C PROVE p[2] \in ChannelMsgs
    BY DEF ItemPairs, ChannelMsgs
  <2> HIDE DEF C
  <2> QED BY <2>1, <2>2, Zenon DEF ChannelMsgs, Given
<1>3. QueuedMsgs(RecvTypes) = Given(Q)
  <2>1. ASSUME NEW o \in QueuedReceives(RecvTypes) PROVE op[o].msg \in Given(Q)
    <3> DEFINE r == <<o, op[o].msg>>
    <3>1. r \in Q /\ r[2] = op[o].msg
      BY Zenon DEF QueuePairs
    <3> HIDE DEF r, Q
    <3> QED BY <3>1, Zenon DEF Given
  <2>2. ASSUME NEW p \in Q PROVE p[2] \in QueuedMsgs(RecvTypes)
    BY DEF QueuePairs, QueuedMsgs
  <2> HIDE DEF Q
  <2> QED BY <2>1, <2>2, Zenon DEF QueuedMsgs, Given
<1>4. Given(matchedBar) = Given(C) \cup Given(Q)
  BY Zenon DEF matchedBar, Given
<1>5. /\ \A p \in C : p[1] \in InChannel
      /\ \A p \in Q : p[1] \in InQueue
  BY DEF ItemPairs, QueuePairs, QueuedReceives, InChannel, ItemOps
<1>6. /\ 1..Len(arrived) = Stashed \cup Given(matchedBar) \cup consumed
      /\ Stashed \cap Given(matchedBar) = {} /\ Stashed \cap consumed = {}
      /\ Given(matchedBar) \cap consumed = {}
      /\ \A p, q \in matchedBar : p[2] = q[2] => p = q
  BY Zenon DEF ServiceHome, OneHome
<1>7. Given(C) \cap Given(Q) = {}
  <2>1. ASSUME NEW p \in C, NEW q \in Q, p[2] = q[2] PROVE FALSE
    BY <1>1, <1>5, <1>6, <2>1, Zenon DEF matchedBar
  <2> QED BY <2>1, Zenon DEF Given
<1>8. ASSUME NEW i \in DOMAIN completions, NEW j \in DOMAIN completions,
             completions[i].msg = completions[j].msg, completions[i].msg # NoMsg
      PROVE  i = j
  <2>1. /\ <<completions[i].op, completions[i].msg>> \in C
        /\ <<completions[j].op, completions[j].msg>> \in C
    BY <1>8, Zenon DEF ItemPairs, Range
  <2>2. completions[i].op = completions[j].op
    BY <1>6, <1>8, <2>1, Zenon DEF matchedBar
  <2> QED BY <1>1, <2>2, Zenon DEF DistinctOps
<1>9. ASSUME NEW o \in QueuedReceives(RecvTypes), NEW p \in QueuedReceives(RecvTypes), op[o].msg = op[p].msg
      PROVE  o = p
  <2>1. <<o, op[o].msg>> \in Q /\ <<p, op[p].msg>> \in Q
    BY Zenon DEF QueuePairs
  <2> QED BY <1>6, <1>9, <2>1, Zenon DEF matchedBar
<1> HIDE DEF C, Q
<1> QED BY <1>1, <1>2, <1>3, <1>4, <1>6, <1>7, <1>8, <1>9 DEF MessageInOnePlace

-----------------------------------------------------------------------------
(* The order of the stashes, and the receives that wait.                   *)

Ascending(q) == \A i, j \in DOMAIN q : i < j => q[i] < q[j]
StashOrder == Ascending(unexpected_msg_stash) /\ Ascending(expected_msg_stash)
OrderInv == StashOrder /\ NoMissedMatch /\ NoOvertaking

\* An arriving message goes behind all others.
LEMMA AscendingAppend ==
  ASSUME NEW q \in Seq(1..MaxMsgs), NEW m \in 1..MaxMsgs, Ascending(q), \A n \in Range(q) : n < m
  PROVE  Ascending(Append(q, m))
<1> DEFINE S == 1..MaxMsgs
<1>1. q \in Seq(S) /\ m \in S
  BY Zenon
<1> HIDE DEF S
<1>2. /\ Len(q) \in Nat /\ DOMAIN q = 1..Len(q) /\ DOMAIN Append(q, m) = 1..Len(q) + 1
      /\ \A i \in 1..Len(q) : Append(q, m)[i] = q[i]
      /\ Append(q, m)[Len(q) + 1] = m
  BY <1>1, LenProperties, AppendProperties
<1> DEFINE a == Append(q, m)
           l == Len(q)
<1> HIDE DEF a, l
<1>3. ASSUME NEW i \in DOMAIN a, NEW j \in DOMAIN a, i < j PROVE a[i] < a[j]
  <2>1. i \in 1..l /\ i \in DOMAIN q /\ a[i] = q[i]
    BY <1>2, <1>3 DEF a, l
  <2>2. CASE j = l + 1
    BY <1>2, <2>1, <2>2, Zenon DEF a, l, Range
  <2>3. CASE j # l + 1
    <3>1. j \in DOMAIN q /\ a[j] = q[j]
      BY <1>2, <2>3 DEF a, l
    <3> QED BY <1>3, <2>1, <3>1, Zenon DEF Ascending
  <2> QED BY <2>2, <2>3, Zenon
<1> QED BY <1>3, Zenon DEF Ascending, a

\* Taking a message out leaves the others in order.
LEMMA AscendingTake ==
  ASSUME NEW q \in Seq(1..MaxMsgs), NEW k \in DOMAIN q, Ascending(q)
  PROVE  Ascending(Take(q, k))
<1> DEFINE S == 1..MaxMsgs
           t == Take(q, k)
<1>1. q \in Seq(S)
  BY Zenon
<1> HIDE DEF S
<1>0. /\ t \in Seq(S) /\ Len(t) = Len(q) - 1
      /\ \A j \in 1..Len(q) - 1 : t[j] = IF j < k THEN q[j] ELSE q[j + 1]
  BY <1>1, TakeProperties, Zenon
<1> HIDE DEF t
<1>2. /\ Len(q) \in Nat /\ DOMAIN q = 1..Len(q) /\ k \in 1..Len(q)
      /\ DOMAIN t = 1..Len(q) - 1
  BY <1>0, <1>1, LenProperties, Zenon
<1> DEFINE at(j) == IF j < k THEN j ELSE j + 1
<1>4. ASSUME NEW i \in DOMAIN t, NEW j \in DOMAIN t, i < j PROVE t[i] < t[j]
  <2>1. /\ at(i) \in 1..Len(q) /\ at(j) \in 1..Len(q) /\ at(i) < at(j)
        /\ t[i] = q[at(i)] /\ t[j] = q[at(j)]
    BY <1>0, <1>2, <1>4
  <2> HIDE DEF at
  <2> QED BY <1>2, <2>1, Zenon DEF Ascending
<1> QED BY <1>4, Zenon DEF Ascending, t

LEMMA AscendingTail ==
  ASSUME NEW q \in Seq(1..MaxMsgs), q # <<>>, Ascending(q)
  PROVE  Ascending(Tail(q)) /\ \A n \in Range(Tail(q)) : Head(q) < n
<1> DEFINE S == 1..MaxMsgs
<1>1. q \in Seq(S)
  BY Zenon
<1> HIDE DEF S
<1>2. /\ Len(q) \in Nat \ {0} /\ DOMAIN q = 1..Len(q) /\ Head(q) = q[1]
      /\ DOMAIN Tail(q) = 1..Len(q) - 1
      /\ \A j \in 1..Len(q) - 1 : Tail(q)[j] = q[j + 1]
  BY <1>1, EmptySeq, LenProperties, HeadTailProperties
<1> DEFINE t == Tail(q)
<1> HIDE DEF t
<1>3. ASSUME NEW i \in DOMAIN t
      PROVE  i \in Nat \ {0} /\ i + 1 \in DOMAIN q /\ t[i] = q[i + 1] /\ 1 \in DOMAIN q
  BY <1>2 DEF t
<1>4. ASSUME NEW i \in DOMAIN t, NEW j \in DOMAIN t, i < j PROVE t[i] < t[j]
  <2>1. i + 1 < j + 1
    BY <1>3, <1>4
  <2> QED BY <1>3, <2>1, Zenon DEF Ascending
<1>5. ASSUME NEW i \in DOMAIN t PROVE q[1] < t[i]
  <2>1. 1 < i + 1
    BY <1>3
  <2> QED BY <1>3, <2>1, Zenon DEF Ascending
<1> QED BY <1>2, <1>4, <1>5, Zenon DEF Ascending, Range, t

\* Nothing new waits or is stashed.
LEMMA OrderKept ==
  ASSUME OrderInv, UNCHANGED <<unexpected_msg_stash, expected_msg_stash, arrived>>,
         unexpected_recv_ops = <<>> => unexpected_recv_ops' = <<>>,
         Range(expected_recv_ops') \subseteq Range(expected_recv_ops),
         \A o \in Range(expected_recv_ops) : op'[o].tag = op[o].tag /\ op'[o].addr = op[o].addr
  PROVE  OrderInv'
BY DEF OrderInv, StashOrder, Ascending, NoMissedMatch, NoOvertaking

\* The receives that wait have their fields while the op of another is written.
LEMMA OthersKept ==
  ASSUME TypeOK, SingleHolder, OrderInv, NEW o, o \notin Range(expected_recv_ops),
         \A p \in Ops : p # o => op'[p] = op[p],
         UNCHANGED <<unexpected_msg_stash, expected_msg_stash, arrived, unexpected_recv_ops, expected_recv_ops>>
  PROVE  OrderInv'
<1>1. Range(expected_recv_ops) \subseteq Ops
  BY WaitingOps, Zenon DEF Waiting
<1>2. \A p \in Range(expected_recv_ops) : op'[p].tag = op[p].tag /\ op'[p].addr = op[p].addr
  BY <1>1, Zenon
<1> QED BY <1>2, OrderKept, Zenon

LEMMA RecvUnexpectedOrder ==
  ASSUME TypeOK, SingleHolder, StashedOnce, OrderInv, NEW o \in Ops, MsgRecvUnexpected(o)
  PROVE  OrderInv'
<1>1. /\ Post(o) /\ op \in [Ops -> OpRecord]
      /\ UNCHANGED <<expected_recv_ops, expected_msg_stash, arrived>>
  BY Zenon DEF MsgRecvUnexpected, TypeOK
<1>2. o \notin Range(expected_recv_ops) /\ Range(expected_recv_ops) \subseteq Ops
  BY <1>1, Posted, WaitingOps, Zenon DEF Waiting
<1>3. \A p \in Ops : p # o => op'[p] = op[p]
  BY <1>1, Zenon DEF MsgRecvUnexpected
<1>4. \A p \in Range(expected_recv_ops) : op'[p] = op[p]
  BY <1>2, <1>3, Zenon
<1>5. CASE unexpected_msg_stash = <<>> /\ UNCHANGED unexpected_msg_stash
  BY <1>1, <1>4, <1>5 DEF OrderInv, StashOrder, Ascending, NoMissedMatch, NoOvertaking
<1>6. CASE unexpected_msg_stash # <<>> /\ unexpected_msg_stash' = Tail(unexpected_msg_stash)
  <2> DEFINE q == unexpected_msg_stash
  <2>1. Ascending(Tail(q)) /\ \A n \in Range(Tail(q)) : Head(q) < n
    BY <1>6, AscendingTail, Zenon DEF TypeOK, OrderInv, StashOrder
  <2>2. Range(Tail(q)) = Range(q) \ {Head(q)}
    BY <1>6, TailDistinct, Zenon DEF TypeOK, StashedOnce
  <2>3. unexpected_recv_ops' = <<>>
    BY <1>6, Zenon DEF OrderInv, NoMissedMatch, MsgRecvUnexpected
  <2>4. StashOrder'
    BY <1>1, <1>6, <2>1, Zenon DEF OrderInv, StashOrder
  <2>5. NoMissedMatch'
    BY <1>1, <1>4, <2>3 DEF OrderInv, NoMissedMatch
  <2>6. ASSUME NEW n \in DOMAIN arrived, arrived[n].kind = "unexpected", NEW m \in Range(Tail(q)), m < n
        PROVE  n \in Range(Tail(q))
    <3>1. n \in Range(q)
      BY <2>2, <2>6, Zenon DEF OrderInv, NoOvertaking
    <3>2. Head(q) < m
      BY <2>1, <2>6, Zenon
    <3>3. n # Head(q)
      <4>1. Head(q) \in Nat /\ m \in Nat /\ n \in Nat
        <5>1. q \in Seq(1..MaxMsgs) /\ m \in Range(q) /\ Head(q) \in Range(q)
          BY <1>6, <2>2, <2>6, TailDistinct, Zenon DEF TypeOK, StashedOnce
        <5>2. \A k \in Range(q) : k \in Nat
          BY <5>1, EndpointAssumption, LenProperties, ElementOfSeq, SMTT(30) DEF Range
        <5> QED BY <3>1, <5>1, <5>2, Zenon
      <4> QED BY <2>6, <3>2, <4>1
    <3> QED BY <2>2, <3>1, <3>3, Zenon
  <2>7. NoOvertaking'
    BY <1>1, <1>6, <2>6, Zenon DEF OrderInv, NoOvertaking
  <2> QED BY <2>4, <2>5, <2>7, Zenon DEF OrderInv
<1> QED BY <1>5, <1>6, Zenon DEF MsgRecvUnexpected

\* A receive takes the first message it matches, so none that is the same to it came
\* before.
LEMMA RecvExpectedOrder ==
  ASSUME TypeOK, SingleHolder, StashedOnce, OrderInv, NEW o \in Ops,
         NEW addr \in Peers \cup {AnySource}, NEW tag \in Tags, MsgRecvExpected(o, addr, tag)
  PROVE  OrderInv'
<1> DEFINE q == expected_msg_stash
           matching == {i \in DOMAIN q : StashedMsgMatches(q[i], addr, tag)}
           posted == Receiving(op[o], "RECV_EXPECTED", addr, tag)
<1>1. /\ Post(o) /\ op \in [Ops -> OpRecord] /\ op[o] \in OpRecord
      /\ UNCHANGED <<unexpected_recv_ops, unexpected_msg_stash, arrived>>
  BY Zenon DEF MsgRecvExpected, TypeOK
<1>2. o \notin Range(expected_recv_ops) /\ Range(expected_recv_ops) \subseteq Ops
  BY <1>1, Posted, WaitingOps, Zenon DEF Waiting
<1>3. ASSUME matching = {}, op' = [op EXCEPT ![o] = posted], UNCHANGED q,
             expected_recv_ops' = Append(expected_recv_ops, o)
      PROVE  OrderInv'
  <2>1. Range(expected_recv_ops') = Range(expected_recv_ops) \cup {o}
    BY <1>3, RangeAppend DEF TypeOK
  <2>2. op'[o].tag = tag /\ op'[o].addr = addr /\ \A p \in Ops : p # o => op'[p] = op[p]
    <3>1. posted.tag = tag /\ posted.addr = addr
      BY <1>1, Zenon DEF Receiving, OpRecord
    <3> HIDE DEF posted
    <3> QED BY <1>1, <1>3, <3>1, Zenon
  <2>3. ASSUME NEW m \in Range(q) PROVE ~ (tag = arrived[m].tag /\ addr \in {AnySource, arrived[m].src})
    <3>1. PICK i \in DOMAIN q : m = q[i]
      BY Zenon DEF Range
    <3>2. ~ StashedMsgMatches(m, addr, tag)
      BY <1>3, <3>1, Zenon
    <3> QED BY <3>2, Zenon DEF StashedMsgMatches
  <2>4. ASSUME NEW p \in Range(expected_recv_ops'), NEW m \in Range(q)
        PROVE  ~ (op'[p].tag = arrived[m].tag /\ op'[p].addr \in {AnySource, arrived[m].src})
    <3>1. CASE p = o
      BY <2>2, <2>3, <3>1, Zenon
    <3>2. CASE p # o
      <4>1. p \in Range(expected_recv_ops) /\ op'[p] = op[p]
        BY <1>2, <2>1, <2>2, <3>2, Zenon
      <4> QED BY <4>1, Zenon DEF OrderInv, NoMissedMatch
    <3> QED BY <3>1, <3>2, Zenon
  <2>5. NoMissedMatch'
    <3>1. unexpected_recv_ops' = <<>> \/ unexpected_msg_stash' = <<>>
      BY <1>1, Zenon DEF OrderInv, NoMissedMatch
    <3>2. /\ expected_msg_stash' = q
          /\ arrived' = arrived
      BY <1>1, <1>3, Zenon
    <3> QED BY <2>4, <3>1, <3>2, Zenon DEF NoMissedMatch
  <2>6. StashOrder' /\ NoOvertaking'
    BY <1>1, <1>3, Zenon DEF OrderInv, StashOrder, Ascending, NoOvertaking
  <2> QED BY <2>5, <2>6, Zenon DEF OrderInv
<1>4. ASSUME NEW i \in DOMAIN q, IsFirst(i, matching), q' = Take(q, i),
             op' = [op EXCEPT ![o] = Received(posted, q[i])], UNCHANGED expected_recv_ops
      PROVE  OrderInv'
  <2>1. /\ Ascending(Take(q, i)) /\ Range(Take(q, i)) = Range(q) \ {q[i]} /\ q[i] \in Range(q)
    BY AscendingTake, StashTake, Zenon DEF TypeOK, OrderInv, StashOrder, StashedOnce
  <2>2. \A p \in Range(expected_recv_ops) : op'[p] = op[p]
    BY <1>1, <1>2, <1>4, Zenon
  <2>3. NoMissedMatch' /\ StashOrder'
    <3>1. /\ unexpected_recv_ops' = <<>> \/ unexpected_msg_stash' = <<>>
          /\ StashOrder'
      BY <1>1, <1>4, <2>1, Zenon DEF OrderInv, NoMissedMatch, StashOrder
    <3>2. ASSUME NEW p \in Range(expected_recv_ops'), NEW m \in Range(expected_msg_stash')
          PROVE  ~ (op'[p].tag = arrived'[m].tag /\ op'[p].addr \in {AnySource, arrived'[m].src})
      <4>1. p \in Range(expected_recv_ops) /\ m \in Range(q) /\ arrived'[m] = arrived[m]
        BY <1>1, <1>4, <2>1, Zenon
      <4> QED BY <2>2, <4>1, Zenon DEF OrderInv, NoMissedMatch
    <3> QED BY <3>1, <3>2, Zenon DEF NoMissedMatch
  <2>4. ASSUME NEW n \in DOMAIN arrived, arrived[n].kind = "expected", NEW m \in Range(Take(q, i)),
               m < n, arrived[m] = arrived[n]
        PROVE  n \in Range(Take(q, i))
    <3>1. n \in Range(q) /\ m \in Range(q)
      BY <2>1, <2>4, Zenon DEF OrderInv, NoOvertaking
    <3>2. n # q[i]
      <4>1. SUFFICES ASSUME n = q[i] PROVE FALSE
        BY Zenon
      <4>2. PICK j \in DOMAIN q : m = q[j]
        BY <3>1, Zenon DEF Range
      <4>3. j \in matching
        BY <1>4, <2>4, <4>1, <4>2, Zenon DEF IsFirst, StashedMsgMatches
      <4>4. i <= j
        BY <1>4, <4>3, Zenon DEF IsFirst
      <4>5. i \in Nat /\ j \in Nat /\ m \in Nat /\ n \in Nat
        <5>1. q \in Seq(1..MaxMsgs)
          BY Zenon DEF TypeOK
        <5>2. \A k \in DOMAIN q : k \in Nat /\ q[k] \in 1..MaxMsgs
          <6> DEFINE S == 1..MaxMsgs
          <6>1. q \in Seq(S)
            BY <5>1, Zenon
          <6> HIDE DEF S
          <6>2. \A k \in DOMAIN q : k \in Nat /\ q[k] \in S
            BY <6>1, LenProperties, ElementOfSeq
          <6> QED BY <6>2, Zenon DEF S
        <5> QED BY <4>1, <4>2, <5>2, EndpointAssumption
      <4>6. i < j => n < m
        BY <4>1, <4>2, Zenon DEF OrderInv, StashOrder, Ascending
      <4>7. i = j => n = m
        BY <4>1, <4>2, Zenon
      <4> QED BY <2>4, <4>4, <4>5, <4>6, <4>7
    <3> QED BY <2>1, <3>1, <3>2, Zenon
  <2>5. NoOvertaking'
    BY <1>1, <1>4, <2>4, Zenon DEF OrderInv, NoOvertaking
  <2> QED BY <2>3, <2>5, Zenon DEF OrderInv
<1> QED BY <1>3, <1>4, Zenon DEF MsgRecvExpected

\* An arriving message is the last of `arrived`.
LEMMA ArrivedOne ==
  ASSUME TypeOK, StashedOnce, NEW r, r \in Message, arrived' = Append(arrived, r)
  PROVE  /\ DOMAIN arrived' = DOMAIN arrived \cup {NewAddr} /\ NewAddr \in Nat /\ arrived'[NewAddr] = r
         /\ \A n \in DOMAIN arrived : arrived'[n] = arrived[n] /\ n \in Nat /\ n < NewAddr
         /\ Stashed \subseteq DOMAIN arrived
<1>1. /\ Len(arrived) \in Nat /\ DOMAIN arrived = 1..Len(arrived) /\ DOMAIN arrived' = 1..Len(arrived) + 1
      /\ \A i \in 1..Len(arrived) : arrived'[i] = arrived[i]
      /\ arrived'[Len(arrived) + 1] = r
  BY LenProperties, AppendProperties DEF TypeOK
<1>2. 1..Len(arrived) + 1 = 1..Len(arrived) \cup {Len(arrived) + 1}
  BY <1>1
<1>3. NewAddr = Len(arrived) + 1
  BY Zenon DEF NewAddr
<1>4. Stashed \subseteq DOMAIN arrived
  BY <1>1, Zenon DEF StashedOnce
<1>5. \A n \in DOMAIN arrived : arrived'[n] = arrived[n] /\ n \in Nat /\ n < Len(arrived) + 1
  BY <1>1
<1>6. DOMAIN arrived' = DOMAIN arrived \cup {NewAddr}
  BY <1>1, <1>2, <1>3, Zenon
<1>7. NewAddr \in Nat /\ arrived'[NewAddr] = r
  BY <1>1, <1>3
<1> QED BY <1>3, <1>4, <1>5, <1>6, <1>7, Zenon

LEMMA UnexpectedMsgOrder ==
  ASSUME TypeOK, SingleHolder, StashedOnce, OrderInv, NEW src \in Peers, NEW tag \in Tags,
         HandleUnexpectedMsg(src, tag)
  PROVE  OrderInv'
<1> DEFINE r == [kind |-> "unexpected", src |-> src, tag |-> tag]
           q == unexpected_msg_stash
<1>1. /\ arrived' = Append(arrived, r) /\ NewAddr <= MaxMsgs
      /\ UNCHANGED <<op, expected_recv_ops, expected_msg_stash>>
  BY Zenon DEF HandleUnexpectedMsg, opVars
<1>2. r \in Message /\ r.kind = "unexpected"
  BY Zenon DEF Message, Kinds
<1> HIDE DEF r
<1>3. /\ DOMAIN arrived' = DOMAIN arrived \cup {NewAddr} /\ NewAddr \in Nat /\ arrived'[NewAddr] = r
      /\ \A n \in DOMAIN arrived : arrived'[n] = arrived[n] /\ n \in Nat /\ n < NewAddr
      /\ Stashed \subseteq DOMAIN arrived
  BY <1>1, <1>2, ArrivedOne, Zenon
<1>4. \A m \in Range(expected_msg_stash) : m \in DOMAIN arrived /\ arrived'[m] = arrived[m]
  BY <1>3, Zenon DEF Stashed
<1>5. \A o \in Range(expected_recv_ops'), m \in Range(expected_msg_stash') :
        ~ (op'[o].tag = arrived'[m].tag /\ op'[o].addr \in {AnySource, arrived'[m].src})
  BY <1>1, <1>4 DEF OrderInv, NoMissedMatch
<1>6. ASSUME NEW n \in DOMAIN arrived', arrived'[n].kind = "expected",
             NEW m \in Range(expected_msg_stash'), m < n, arrived'[m] = arrived'[n]
      PROVE  n \in Range(expected_msg_stash')
  <2>1. n \in DOMAIN arrived /\ arrived'[n] = arrived[n]
    BY <1>2, <1>3, <1>6, Zenon
  <2> QED BY <1>1, <1>4, <1>6, <2>1, Zenon DEF OrderInv, NoOvertaking
<1>7. CASE unexpected_recv_ops # <<>>
  <2>1. q = <<>> /\ UNCHANGED q
    BY <1>7, Zenon DEF OrderInv, NoMissedMatch, HandleUnexpectedMsg
  <2>2. Range(q') = {} /\ Ascending(q')
    BY <2>1 DEF Range, Ascending
  <2>3. StashOrder' /\ NoMissedMatch'
    BY <1>1, <1>5, <2>1, <2>2, Zenon DEF OrderInv, StashOrder, NoMissedMatch
  <2>4. NoOvertaking'
    BY <1>6, <2>2, Zenon DEF NoOvertaking
  <2> QED BY <2>3, <2>4, Zenon DEF OrderInv
<1>8. CASE unexpected_recv_ops = <<>>
  <2>1. q' = Append(q, NewAddr) /\ unexpected_recv_ops' = <<>>
    BY <1>8, Zenon DEF HandleUnexpectedMsg
  <2>2. q \in Seq(1..MaxMsgs) /\ NewAddr \in 1..MaxMsgs
    <3>1. NewAddr > 0
      <4>1. Len(arrived) \in Nat
        BY DEF TypeOK
      <4> QED BY <4>1 DEF NewAddr
    <3>2. NewAddr \in 1..MaxMsgs
      BY <1>1, <1>3, <3>1, EndpointAssumption
    <3>3. q \in Seq(1..MaxMsgs)
      BY Zenon DEF TypeOK
    <3> QED BY <3>2, <3>3, Zenon
  <2>3. \A m \in Range(q) : m \in DOMAIN arrived /\ m < NewAddr
    BY <1>3, Zenon DEF Stashed
  <2>4. Ascending(q')
    BY <2>1, <2>2, <2>3, AscendingAppend, Zenon DEF OrderInv, StashOrder
  <2>5. Range(q') = Range(q) \cup {NewAddr}
    <3> DEFINE S == 1..MaxMsgs
    <3>1. q \in Seq(S) /\ NewAddr \in S
      BY <2>2, Zenon
    <3> HIDE DEF S
    <3> QED BY <2>1, <3>1, RangeAppend
  <2>6. ASSUME NEW n \in DOMAIN arrived', arrived'[n].kind = "unexpected", NEW m \in Range(q'), m < n
        PROVE  n \in Range(q')
    <3>1. CASE n = NewAddr
      BY <2>5, <3>1, Zenon
    <3>2. CASE n # NewAddr
      <4>1. n \in DOMAIN arrived /\ arrived[n].kind = "unexpected" /\ n < NewAddr /\ n \in Nat
        BY <1>3, <2>6, <3>2, Zenon
      <4>2. m # NewAddr
        BY <1>3, <2>6, <4>1
      <4> QED BY <2>5, <2>6, <4>1, <4>2, Zenon DEF OrderInv, NoOvertaking
    <3> QED BY <3>1, <3>2, Zenon
  <2>7. StashOrder' /\ NoMissedMatch'
    BY <1>1, <1>5, <2>1, <2>4, Zenon DEF OrderInv, StashOrder, NoMissedMatch
  <2>8. NoOvertaking'
    BY <1>6, <2>6, Zenon DEF NoOvertaking
  <2> QED BY <2>7, <2>8, Zenon DEF OrderInv
<1> QED BY <1>7, <1>8, Zenon

\* A message that meets a receive has no equal in the stash: the receive would not
\* have waited.
LEMMA ExpectedMsgOrder ==
  ASSUME TypeOK, SingleHolder, StashedOnce, OrderInv, NEW src \in Peers, NEW tag \in Tags,
         HandleExpectedMsg(src, tag)
  PROVE  OrderInv'
<1> DEFINE r == [kind |-> "expected", src |-> src, tag |-> tag]
           q == expected_msg_stash
           w == expected_recv_ops
           matching == {i \in DOMAIN w : RecvOpMatches(w[i], src, tag)}
<1>1. /\ arrived' = Append(arrived, r) /\ NewAddr <= MaxMsgs
      /\ UNCHANGED <<op, unexpected_recv_ops, unexpected_msg_stash>>
  BY Zenon DEF HandleExpectedMsg, opVars
<1>2. r \in Message /\ r.kind = "expected" /\ r.src = src /\ r.tag = tag
  BY Zenon DEF Message, Kinds
<1> HIDE DEF r
<1>3. /\ DOMAIN arrived' = DOMAIN arrived \cup {NewAddr} /\ NewAddr \in Nat /\ arrived'[NewAddr] = r
      /\ \A n \in DOMAIN arrived : arrived'[n] = arrived[n] /\ n \in Nat /\ n < NewAddr
      /\ Stashed \subseteq DOMAIN arrived
  BY <1>1, <1>2, ArrivedOne, Zenon
<1>4. \A m \in Range(q) : m \in DOMAIN arrived /\ arrived'[m] = arrived[m] /\ m < NewAddr
  BY <1>3, Zenon DEF Stashed
<1>5. ASSUME NEW n \in DOMAIN arrived', arrived'[n].kind = "unexpected",
             NEW m \in Range(unexpected_msg_stash'), m < n
      PROVE  n \in Range(unexpected_msg_stash')
  <2>1. n \in DOMAIN arrived /\ arrived'[n] = arrived[n]
    BY <1>2, <1>3, <1>5, Zenon
  <2> QED BY <1>1, <1>5, <2>1, Zenon DEF OrderInv, NoOvertaking
<1>6. ASSUME NEW i \in DOMAIN w, IsFirst(i, matching), w' = Take(w, i), UNCHANGED q
      PROVE  OrderInv'
  <2>1. Range(w') = Range(w) \ {w[i]}
    BY <1>6, TakeDistinct, Zenon DEF TypeOK, SingleHolder, NoDuplicates
  <2>2. ASSUME NEW m \in Range(q) PROVE arrived[m] # r
    <3>1. w[i] \in Range(w) /\ RecvOpMatches(w[i], src, tag)
      BY <1>6, Zenon DEF Range, IsFirst
    <3>2. ~ (op[w[i]].tag = arrived[m].tag /\ op[w[i]].addr \in {AnySource, arrived[m].src})
      BY <3>1, Zenon DEF OrderInv, NoMissedMatch
    <3> QED BY <1>2, <3>1, <3>2, Zenon DEF RecvOpMatches
  <2>3. NoMissedMatch' /\ StashOrder'
    <3>1. /\ unexpected_recv_ops' = <<>> \/ unexpected_msg_stash' = <<>>
          /\ StashOrder'
      BY <1>1, <1>6, Zenon DEF OrderInv, NoMissedMatch, StashOrder
    <3>2. ASSUME NEW p \in Range(expected_recv_ops'), NEW m \in Range(expected_msg_stash')
          PROVE  ~ (op'[p].tag = arrived'[m].tag /\ op'[p].addr \in {AnySource, arrived'[m].src})
      <4>1. p \in Range(w) /\ m \in Range(q) /\ arrived'[m] = arrived[m] /\ op' = op
        BY <1>1, <1>4, <1>6, <2>1, Zenon
      <4> QED BY <4>1, Zenon DEF OrderInv, NoMissedMatch
    <3> QED BY <3>1, <3>2, Zenon DEF NoMissedMatch
  <2>4. ASSUME NEW n \in DOMAIN arrived', arrived'[n].kind = "expected", NEW m \in Range(q'),
               m < n, arrived'[m] = arrived'[n]
        PROVE  n \in Range(q')
    <3>1. m \in Range(q) /\ arrived'[m] = arrived[m]
      BY <1>4, <1>6, Zenon
    <3>2. n # NewAddr
      BY <1>3, <2>2, <2>4, <3>1, Zenon
    <3>3. n \in DOMAIN arrived /\ arrived'[n] = arrived[n]
      BY <1>3, <2>4, <3>2, Zenon
    <3> QED BY <1>6, <2>4, <3>1, <3>3, Zenon DEF OrderInv, NoOvertaking
  <2>5. NoOvertaking'
    BY <1>5, <2>4, Zenon DEF NoOvertaking
  <2> QED BY <2>3, <2>5, Zenon DEF OrderInv
<1>7. ASSUME matching = {}, q' = Append(q, NewAddr), UNCHANGED w
      PROVE  OrderInv'
  <2>1. q \in Seq(1..MaxMsgs) /\ NewAddr \in 1..MaxMsgs
    <3>1. NewAddr > 0
      <4>1. Len(arrived) \in Nat
        BY DEF TypeOK
      <4> QED BY <4>1 DEF NewAddr
    <3>2. NewAddr \in 1..MaxMsgs
      BY <1>1, <1>3, <3>1, EndpointAssumption
    <3>3. q \in Seq(1..MaxMsgs)
      BY Zenon DEF TypeOK
    <3> QED BY <3>2, <3>3, Zenon
  <2>2. Ascending(q')
    BY <1>4, <1>7, <2>1, AscendingAppend, Zenon DEF OrderInv, StashOrder
  <2>3. Range(q') = Range(q) \cup {NewAddr}
    <3> DEFINE S == 1..MaxMsgs
    <3>1. q \in Seq(S) /\ NewAddr \in S
      BY <2>1, Zenon
    <3> HIDE DEF S
    <3> QED BY <1>7, <3>1, RangeAppend
  <2>4. ASSUME NEW o \in Range(w), NEW m \in Range(q')
        PROVE  ~ (op[o].tag = arrived'[m].tag /\ op[o].addr \in {AnySource, arrived'[m].src})
    <3>1. CASE m \in Range(q)
      BY <1>4, <3>1, Zenon DEF OrderInv, NoMissedMatch
    <3>2. CASE m = NewAddr
      <4>1. ~ RecvOpMatches(o, src, tag)
        BY <1>7, Zenon DEF Range
      <4> QED BY <1>2, <1>3, <3>2, <4>1, Zenon DEF RecvOpMatches
    <3> QED BY <2>3, <3>1, <3>2, Zenon
  <2>5. NoMissedMatch' /\ StashOrder'
    BY <1>1, <1>7, <2>2, <2>4, Zenon DEF OrderInv, NoMissedMatch, StashOrder
  <2>6. ASSUME NEW n \in DOMAIN arrived', arrived'[n].kind = "expected", NEW m \in Range(q'),
               m < n, arrived'[m] = arrived'[n]
        PROVE  n \in Range(q')
    <3>1. CASE n = NewAddr
      BY <2>3, <3>1, Zenon
    <3>2. CASE n # NewAddr
      <4>1. n \in DOMAIN arrived /\ arrived'[n] = arrived[n] /\ n < NewAddr /\ n \in Nat
        BY <1>3, <2>6, <3>2, Zenon
      <4>2. m # NewAddr
        BY <1>3, <2>6, <4>1
      <4>3. m \in Range(q) /\ arrived'[m] = arrived[m]
        BY <1>4, <2>3, <2>6, <4>2, Zenon
      <4> QED BY <2>3, <2>6, <4>1, <4>3, Zenon DEF OrderInv, NoOvertaking
    <3> QED BY <3>1, <3>2, Zenon
  <2>7. NoOvertaking'
    BY <1>5, <2>6, Zenon DEF NoOvertaking
  <2> QED BY <2>5, <2>7, Zenon DEF OrderInv
<1> QED BY <1>6, <1>7, Zenon DEF HandleExpectedMsg

\* Nothing the order speaks of changes.
LEMMA OrderQuiet ==
  ASSUME OrderInv, UNCHANGED <<op, unexpected_recv_ops, expected_recv_ops, unexpected_msg_stash,
                               expected_msg_stash, arrived>>
  PROVE  OrderInv'
BY OrderKept, Zenon

\* A cancelled receive stops waiting; the order of the messages is untouched.
LEMMA CancelOrder ==
  ASSUME TypeOK, SingleHolder, OrderInv, NEW o \in Ops, Cancel(o)
  PROVE  OrderInv'
<1>1. /\ UNCHANGED <<unexpected_msg_stash, expected_msg_stash, arrived>>
      /\ Canceled(o) /\ op \in [Ops -> OpRecord] /\ op[o] \in OpRecord
  BY Zenon DEF Cancel, TypeOK
<1>2. \A p \in Ops : op'[p].tag = op[p].tag /\ op'[p].addr = op[p].addr
  <2> DEFINE r == [op[o] EXCEPT !.ret = "CANCELED"]
  <2>1. r.tag = op[o].tag /\ r.addr = op[o].addr
    BY <1>1, Zenon DEF OpRecord
  <2>2. op' = [op EXCEPT ![o] = r]
    BY <1>1, Zenon DEF Canceled
  <2> HIDE DEF r
  <2> QED BY <1>1, <2>1, <2>2, Zenon
<1>3. unexpected_recv_ops = <<>> => unexpected_recv_ops' = <<>>
  <2>1. DOMAIN <<>> = {}
    OBVIOUS
  <2> QED BY <2>1, Zenon DEF Cancel
<1>4. Range(expected_recv_ops') \subseteq Range(expected_recv_ops)
  <2>1. ASSUME NEW i \in DOMAIN expected_recv_ops, expected_recv_ops' = Take(expected_recv_ops, i)
        PROVE  Range(expected_recv_ops') \subseteq Range(expected_recv_ops)
    BY <2>1, TakeDistinct, Zenon DEF TypeOK, SingleHolder, NoDuplicates
  <2> QED BY <2>1, Zenon DEF Cancel
<1>5. Range(expected_recv_ops) \subseteq Ops
  BY WaitingOps, Zenon DEF Waiting
<1> QED BY <1>1, <1>2, <1>3, <1>4, <1>5, OrderKept, Zenon

LEMMA OrderStep ==
  ASSUME ~ GetWriteMayFail, ServiceInv, OrderInv, [Next]_vars
  PROVE  OrderInv'
<1>0. TypeOK /\ SingleHolder /\ ItemsCarry /\ StashedOnce
  BY Zenon DEF ServiceInv
<1> USE <1>0
<1>1. ASSUME NEW o \in Ops, OpCreate(o) \/ OpDestroy(o) PROVE OrderInv'
  <2>1. /\ UNCHANGED <<unexpected_msg_stash, expected_msg_stash, arrived, unexpected_recv_ops, expected_recv_ops>>
        /\ \A p \in Ops : p # o => op'[p] = op[p]
    BY <1>1, Zenon DEF OpCreate, OpDestroy, recvVars, TypeOK
  <2>2. o \notin Range(expected_recv_ops)
    BY <1>1, Zenon DEF OpCreate, OpDestroy, SingleHolder, Busy, Waiting
  <2> QED BY <2>1, <2>2, OthersKept, Zenon
<1>2. ASSUME NEW o \in Ops, Post(o), \A p \in Ops : p # o => op'[p] = op[p], UNCHANGED recvVars
      PROVE  OrderInv'
  <2>1. UNCHANGED <<unexpected_msg_stash, expected_msg_stash, arrived, unexpected_recv_ops, expected_recv_ops>>
    BY <1>2, Zenon DEF recvVars
  <2>2. o \notin Range(expected_recv_ops)
    BY <1>2, Posted, Zenon DEF Waiting
  <2> QED BY <1>2, <2>1, <2>2, OthersKept, Zenon
<1>3. ASSUME NEW o \in Ops, NEW type, NEW tag, MsgSend(o, type, tag) PROVE OrderInv'
  <2>1. Post(o) /\ UNCHANGED recvVars /\ \A p \in Ops : p # o => op'[p] = op[p]
    BY <1>3, Zenon DEF MsgSend, TypeOK
  <2> QED BY <1>2, <2>1, Zenon
<1>4. ASSUME NEW o \in Ops, Put(o) PROVE OrderInv'
  <2>1. Post(o) /\ UNCHANGED recvVars /\ \A p \in Ops : p # o => op'[p] = op[p]
    BY <1>4, Zenon DEF Put, TypeOK
  <2> QED BY <1>2, <2>1, Zenon
<1>5. ASSUME NEW o \in Ops, NEW key \in Keys, Get(o, key) PROVE OrderInv'
  <2>1. Post(o) /\ UNCHANGED recvVars /\ \A p \in Ops : p # o => op'[p] = op[p]
    BY <1>5, Zenon DEF Get, TypeOK
  <2> QED BY <1>2, <2>1, Zenon
<1>6. ASSUME NEW o \in Ops, MsgRecvUnexpected(o) PROVE OrderInv'
  BY <1>6, RecvUnexpectedOrder, Zenon
<1>7. ASSUME NEW o \in Ops, NEW addr \in Peers \cup {AnySource}, NEW tag \in Tags,
             MsgRecvExpected(o, addr, tag)
      PROVE  OrderInv'
  BY <1>7, RecvExpectedOrder, Zenon
<1>8. ASSUME NEW o \in Ops, Cancel(o) PROVE OrderInv'
  BY <1>8, CancelOrder, Zenon
<1>9. ASSUME UNCHANGED <<opVars, recvVars>> PROVE OrderInv'
  BY <1>9, OrderQuiet, Zenon DEF opVars, recvVars
<1>10. ASSUME NEW src \in Peers, NEW tag \in Tags,
              HandleUnexpectedMsg(src, tag) \/ HandleExpectedMsg(src, tag)
       PROVE  OrderInv'
  BY <1>10, UnexpectedMsgOrder, ExpectedMsgOrder, Zenon
<1>11. ASSUME Poll PROVE OrderInv'
  <2>1. PICK o : o = Head(completions).op
    BY Zenon
  <2>2. /\ UNCHANGED <<unexpected_msg_stash, expected_msg_stash, arrived, unexpected_recv_ops, expected_recv_ops>>
        /\ \A p \in Ops : p # o => op'[p] = op[p]
    BY <1>11, <2>1, Zenon DEF Poll, recvVars, TypeOK
  <2>3. o \in InChannel
    BY <1>11, <2>1, ReceiveDistinct, Zenon DEF Poll, InChannel, TypeOK, SingleHolder, NoDuplicates
  <2>4. o \notin Range(expected_recv_ops)
    BY <2>3, Zenon DEF SingleHolder, Waiting
  <2> QED BY <2>2, <2>4, OthersKept, Zenon
<1>12. ASSUME Trigger PROVE OrderInv'
  BY <1>12, OrderQuiet, Zenon DEF Trigger, recvVars
<1>13. ASSUME UNCHANGED vars PROVE OrderInv'
  BY <1>9, <1>13, Zenon DEF vars
<1>14. ASSUME NEW o \in Ops, NEW result, SendDone(o, result) PROVE OrderInv'
  BY <1>9, <1>14, Zenon DEF SendDone
<1>15. ASSUME NEW g \in gets, GetWritten(g) \/ HandleRmaGetResponse(g) PROVE OrderInv'
  BY <1>9, <1>15, Zenon DEF GetWritten, HandleRmaGetResponse
<1>16. ASSUME NEW m \in user_addrs, AddrFree(m) PROVE OrderInv'
  BY <1>9, <1>16, Zenon DEF AddrFree
<1>17. \A g \in gets : ~ GetWriteFailed(g)
  BY Zenon DEF GetWriteFailed
<1> QED BY <1>1, <1>3, <1>4, <1>5, <1>6, <1>7, <1>8, <1>10, <1>11, <1>12, <1>13, <1>14, <1>15, <1>16,
           <1>17 DEF Next, OpStep

-----------------------------------------------------------------------------
(* Who frees a source address.                                             *)

QueuedUnexpected == QueuedMsgs({"RECV_UNEXPECTED"})
AddrInv == SourceAddrOwned /\ user_addrs \subseteq consumed

\* Nobody takes over or gives up an address.
LEMMA AddrKept ==
  ASSUME AddrInv, UNCHANGED <<source_addrs, user_addrs, consumed>>, Stashed' = Stashed,
         ChannelMsgs' = ChannelMsgs, QueuedUnexpected' = QueuedUnexpected
  PROVE  AddrInv'
BY Zenon DEF AddrInv, SourceAddrOwned, QueuedUnexpected

LEMMA ChannelMsgsKept ==
  ASSUME UNCHANGED completions
  PROVE  ChannelMsgs' = ChannelMsgs
BY Zenon DEF ChannelMsgs

LEMMA ChannelMsgsSent ==
  ASSUME TypeOK, NEW o \in Ops, NEW result \in Rets, NEW m \in 0..MaxMsgs, CompletionSend(o, result, m)
  PROVE  ChannelMsgs' = ChannelMsgs \cup ({m} \ {NoMsg})
<1> DEFINE c == Item(o, result, m)
<1>1. /\ c \in CompletionItem /\ c.msg = m
      /\ completions' = Append(completions, c) /\ completions \in Seq(CompletionItem)
  BY ItemFieldsAll, Zenon DEF TypeOK, CompletionSend, CompletionItem, Item
<1> HIDE DEF c
<1>2. Range(completions') = Range(completions) \cup {c}
  BY <1>1, RangeAppend
<1> QED BY <1>1, <1>2, Zenon DEF ChannelMsgs

LEMMA QueuedKept ==
  ASSUME InQueue' = InQueue, \A o \in InQueue : op'[o] = op[o]
  PROVE  QueuedUnexpected' = QueuedUnexpected
BY Zenon DEF QueuedUnexpected, QueuedMsgs, QueuedReceives

\* What one more operation in the NA core's queue adds.
LEMMA QueuedAdded ==
  ASSUME NEW o, InQueue' = InQueue \cup {o}, o \notin InQueue, \A p \in InQueue : op'[p] = op[p]
  PROVE  /\ op'[o].ret = "SUCCESS" /\ op'[o].type = "RECV_UNEXPECTED"
              => QueuedUnexpected' = QueuedUnexpected \cup {op'[o].msg}
         /\ ~ (op'[o].ret = "SUCCESS" /\ op'[o].type = "RECV_UNEXPECTED")
              => QueuedUnexpected' = QueuedUnexpected
<1> DEFINE R == QueuedReceives({"RECV_UNEXPECTED"})
<1>1. /\ R = {p \in InQueue : op[p].ret = "SUCCESS" /\ op[p].type = "RECV_UNEXPECTED"}
      /\ R' = {p \in InQueue' : op'[p].ret = "SUCCESS" /\ op'[p].type = "RECV_UNEXPECTED"}
  BY Zenon DEF QueuedReceives
<1>2. \A p \in R : op'[p] = op[p]
  BY <1>1, Zenon
<1>3. QueuedUnexpected = {op[p].msg : p \in R} /\ QueuedUnexpected' = {op'[p].msg : p \in R'}
  BY Zenon DEF QueuedUnexpected, QueuedMsgs
<1>4. CASE op'[o].ret = "SUCCESS" /\ op'[o].type = "RECV_UNEXPECTED"
  <2>1. R' = R \cup {o}
    BY <1>1, <1>4, Zenon
  <2> HIDE DEF R
  <2> QED BY <1>2, <1>3, <1>4, <2>1, Zenon
<1>5. CASE ~ (op'[o].ret = "SUCCESS" /\ op'[o].type = "RECV_UNEXPECTED")
  <2>1. R' = R
    BY <1>1, <1>5, Zenon
  <2> HIDE DEF R
  <2> QED BY <1>2, <1>3, <1>5, <2>1, Zenon
<1> QED BY <1>4, <1>5, Zenon

\* A message that is stashed, in the channel or delivered is in no other place.
LEMMA Apart ==
  ASSUME MessageInOnePlace, AddrInv
  PROVE  /\ Stashed \cap (ChannelMsgs \cup QueuedUnexpected \cup user_addrs) = {}
         /\ ChannelMsgs \cap (QueuedUnexpected \cup user_addrs) = {}
         /\ QueuedUnexpected \cap user_addrs = {}
<1>1. QueuedUnexpected \subseteq QueuedMsgs(RecvTypes)
  BY Zenon DEF QueuedUnexpected, QueuedMsgs, QueuedReceives, RecvTypes
<1> QED BY <1>1, Zenon DEF MessageInOnePlace, AddrInv

\* A call that posts, creates or destroys an op, and no message meets it.
LEMMA QuietCallAddr ==
  ASSUME TypeOK, SingleHolder, AddrInv, NEW o, o \notin Done, \A p \in Ops : p # o => op'[p] = op[p],
         UNCHANGED <<unexpected_msg_stash, expected_msg_stash, doneVars, userVars>>
  PROVE  AddrInv'
<1>1. /\ Stashed' = Stashed /\ InQueue' = InQueue /\ UNCHANGED <<completions, source_addrs, user_addrs, consumed>>
  BY Zenon DEF Stashed, InQueue, doneVars, userVars
<1>2. \A p \in InQueue : op'[p] = op[p]
  BY WaitingOps, Zenon DEF Done
<1> QED BY <1>1, <1>2, ChannelMsgsKept, QueuedKept, AddrKept, Zenon

LEMMA RecvUnexpectedAddr ==
  ASSUME TypeOK, SingleHolder, StashedOnce, AddrInv, NEW o \in Ops, MsgRecvUnexpected(o)
  PROVE  AddrInv'
<1>1. /\ Post(o) /\ op \in [Ops -> OpRecord] /\ op[o] \in OpRecord
      /\ UNCHANGED <<expected_msg_stash, completions, source_addrs, user_addrs, consumed>>
  BY Zenon DEF MsgRecvUnexpected, TypeOK, userVars
<1>2. \A p \in Ops : p # o => op'[p] = op[p]
  BY <1>1, Zenon DEF MsgRecvUnexpected
<1>3. o \notin Done /\ Done \subseteq Ops
  BY <1>1, WaitingOps, Posted, Zenon DEF Done
<1>4. CASE unexpected_msg_stash = <<>>
  <2>1. UNCHANGED <<unexpected_msg_stash, expected_msg_stash, doneVars, userVars>>
    BY <1>1, <1>4, Zenon DEF MsgRecvUnexpected, doneVars, userVars
  <2> QED BY <1>2, <1>3, <2>1, QuietCallAddr, Zenon
<1>5. CASE unexpected_msg_stash # <<>>
  <2> DEFINE q == unexpected_msg_stash
             m == Head(q)
             posted == Receiving(op[o], "RECV_UNEXPECTED", AnySource, op[o].tag)
  <2>1. /\ unexpected_msg_stash' = Tail(q) /\ CompletionAdd(o)
        /\ op' = [op EXCEPT ![o] = Received(posted, m)]
    BY <1>5, Zenon DEF MsgRecvUnexpected
  <2>2. Range(Tail(q)) = Range(q) \ {m} /\ m \in Range(q)
    BY <1>5, TailDistinct, Zenon DEF TypeOK, StashedOnce
  <2>3. posted \in OpRecord /\ posted.type = "RECV_UNEXPECTED"
    <3>1. op[o].tag \in Tags /\ "RECV_UNEXPECTED" \in RecvTypes /\ AnySource \in Peers \cup {AnySource}
      BY <1>1, Zenon DEF OpRecord, RecvTypes
    <3>2. posted \in OpRecord
      BY <1>1, <3>1, ReceivingFields, Zenon
    <3>3. posted.type = "RECV_UNEXPECTED"
      BY <1>1, Zenon DEF OpRecord, Receiving
    <3> QED BY <3>2, <3>3, Zenon
  <2> HIDE DEF m, posted
  <2>4. op'[o].type = "RECV_UNEXPECTED" /\ op'[o].ret = "SUCCESS" /\ op'[o].msg = m
    <3>1. op'[o] = Received(posted, m)
      BY <1>1, <2>1, Zenon
    <3>2. /\ Received(posted, m).ret = "SUCCESS" /\ Received(posted, m).msg = m
          /\ Received(posted, m).type = "RECV_UNEXPECTED"
      BY <2>3, ReceivedFields, Zenon
    <3> QED BY <3>1, <3>2, Zenon
  <2>5. m \in Stashed /\ Stashed = Stashed' \cup {m}
    BY <1>1, <2>1, <2>2, Zenon DEF Stashed
  <2>6. InQueue' = InQueue \cup {o}
    BY <1>1, <2>1, AddEffect, Zenon
  <2>7. QueuedUnexpected' = QueuedUnexpected \cup {m}
    BY <1>2, <1>3, <2>4, <2>6, QueuedAdded, Zenon DEF Done
  <2> QED BY <1>1, <2>5, <2>7, ChannelMsgsKept, Zenon DEF AddrInv, SourceAddrOwned, QueuedUnexpected
<1> QED BY <1>4, <1>5, Zenon

\* The address of an expected message is freed with the match: nobody else holds it.
LEMMA RecvExpectedAddr ==
  ASSUME TypeOK, SingleHolder, StashedOnce, MessageInOnePlace, AddrInv, NEW o \in Ops,
         NEW addr \in Peers \cup {AnySource}, NEW tag \in Tags, MsgRecvExpected(o, addr, tag)
  PROVE  AddrInv'
<1> DEFINE posted == Receiving(op[o], "RECV_EXPECTED", addr, tag)
<1>1. /\ Post(o) /\ op \in [Ops -> OpRecord] /\ op[o] \in OpRecord
      /\ UNCHANGED <<unexpected_msg_stash, completions, user_addrs, consumed>>
  BY Zenon DEF MsgRecvExpected, TypeOK
<1>2. \A p \in Ops : p # o => op'[p] = op[p]
  BY <1>1, Zenon DEF MsgRecvExpected
<1>3. o \notin Done /\ Done \subseteq Ops
  BY <1>1, WaitingOps, Posted, Zenon DEF Done
<1>4. posted \in OpRecord /\ posted.type = "RECV_EXPECTED"
  <2>1. "RECV_EXPECTED" \in RecvTypes
    BY Zenon DEF RecvTypes
  <2>2. posted \in OpRecord
    BY <1>1, <2>1, ReceivingFields, Zenon
  <2>3. posted.type = "RECV_EXPECTED"
    BY <1>1, Zenon DEF OpRecord, Receiving
  <2> QED BY <2>2, <2>3, Zenon
<1>5. ASSUME UNCHANGED <<expected_msg_stash, source_addrs, completion_queue>> PROVE AddrInv'
  BY <1>1, <1>2, <1>3, <1>5, QuietCallAddr, Zenon DEF doneVars, userVars
<1>6. ASSUME NEW i \in DOMAIN expected_msg_stash,
             expected_msg_stash' = Take(expected_msg_stash, i),
             source_addrs' = FreeAddr(source_addrs, expected_msg_stash[i]),
             op' = [op EXCEPT ![o] = Received(posted, expected_msg_stash[i])],
             CompletionAdd(o)
      PROVE  AddrInv'
  <2> DEFINE q == expected_msg_stash
             m == q[i]
  <2>1. Range(Take(q, i)) = Range(q) \ {m} /\ m \in Range(q)
    BY StashTake, Zenon DEF TypeOK, StashedOnce
  <2> HIDE DEF m, posted
  <2>2. op'[o].type = "RECV_EXPECTED"
    <3>1. op'[o] = Received(posted, m)
      BY <1>1, <1>6, Zenon DEF m
    <3>2. Received(posted, m).type = "RECV_EXPECTED"
      BY <1>4, ReceivedFields, Zenon
    <3> QED BY <3>1, <3>2, Zenon
  <2>3. m \in Stashed /\ Stashed' = Stashed \ {m}
    BY <1>1, <1>6, <2>1, Zenon DEF Stashed, StashedOnce
  <2>4. InQueue' = InQueue \cup {o}
    BY <1>1, <1>6, AddEffect, Zenon
  <2>5. QueuedUnexpected' = QueuedUnexpected
    BY <1>2, <1>3, <2>2, <2>4, QueuedAdded, Zenon DEF Done
  <2>6. source_addrs' = source_addrs \ {m}
    BY <1>6, Zenon DEF FreeAddr, m
  <2>7. m \notin ChannelMsgs /\ m \notin QueuedUnexpected /\ m \notin user_addrs
    BY <2>3, Apart, Zenon
  <2> QED BY <1>1, <2>3, <2>5, <2>6, <2>7, ChannelMsgsKept, Zenon DEF AddrInv, SourceAddrOwned, QueuedUnexpected
<1> QED BY <1>5, <1>6, Zenon DEF MsgRecvExpected

\* The address of an arriving message goes with it, to the stash or into the channel.
LEMMA ArriveAddr ==
  ASSUME TypeOK, SingleHolder, StashedOnce, AddrInv, NEW src \in Peers, NEW tag \in Tags,
         HandleUnexpectedMsg(src, tag) \/ HandleExpectedMsg(src, tag)
  PROVE  AddrInv'
<1>1. /\ Len(arrived') = Len(arrived) + 1 /\ source_addrs' = source_addrs \cup {NewAddr}
      /\ UNCHANGED <<op, completion_queue, user_addrs, consumed>>
  <2>1. \E r : arrived' = Append(arrived, r)
    BY Zenon DEF HandleUnexpectedMsg, HandleExpectedMsg
  <2>2. Len(arrived') = Len(arrived) + 1
    BY <2>1 DEF TypeOK
  <2> QED BY <2>2, Zenon DEF HandleUnexpectedMsg, HandleExpectedMsg, opVars
<1>2. NewAddr \in 1..MaxMsgs
  <2>1. Len(arrived) \in Nat
    BY DEF TypeOK
  <2>2. NewAddr = Len(arrived) + 1 /\ NewAddr <= MaxMsgs
    BY Zenon DEF HandleUnexpectedMsg, HandleExpectedMsg, NewAddr
  <2> QED BY <2>1, <2>2, EndpointAssumption
<1>3. NewAddr \in 0..MaxMsgs /\ NewAddr # NoMsg /\ "SUCCESS" \in Rets
  BY <1>2, EndpointAssumption DEF NoMsg, Rets
<1>4. QueuedUnexpected' = QueuedUnexpected
  BY <1>1, QueuedKept, Zenon DEF InQueue
<1>5. ASSUME NEW o \in Ops, CompletionSend(o, "SUCCESS", NewAddr),
             UNCHANGED <<unexpected_msg_stash, expected_msg_stash>>
      PROVE  AddrInv'
  <2>1. ChannelMsgs' = ChannelMsgs \cup {NewAddr}
    <3>1. ChannelMsgs' = ChannelMsgs \cup ({NewAddr} \ {NoMsg})
      BY <1>3, <1>5, ChannelMsgsSent, Zenon
    <3> QED BY <1>3, <3>1, Zenon
  <2>2. Stashed' = Stashed
    BY <1>5, Zenon DEF Stashed
  <2> QED BY <1>1, <1>4, <2>1, <2>2, Zenon DEF AddrInv, SourceAddrOwned, QueuedUnexpected
<1>6. ASSUME UNCHANGED completions,
             \/ /\ unexpected_msg_stash' = Append(unexpected_msg_stash, NewAddr)
                /\ UNCHANGED expected_msg_stash
             \/ /\ expected_msg_stash' = Append(expected_msg_stash, NewAddr)
                /\ UNCHANGED unexpected_msg_stash
      PROVE  AddrInv'
  <2>1. Stashed' = Stashed \cup {NewAddr}
    BY <1>1, <1>2, <1>6, StashedNew, Zenon
  <2> QED BY <1>1, <1>4, <1>6, <2>1, ChannelMsgsKept, Zenon DEF AddrInv, SourceAddrOwned, QueuedUnexpected
<1>7. CASE HandleUnexpectedMsg(src, tag)
  <2>1. unexpected_recv_ops # <<>> => Head(unexpected_recv_ops) \in Ops
    BY HeadTailProperties, Zenon DEF TypeOK
  <2> QED BY <1>5, <1>6, <1>7, <2>1, Zenon DEF HandleUnexpectedMsg
<1>8. CASE HandleExpectedMsg(src, tag)
  <2>1. \A i \in DOMAIN expected_recv_ops : expected_recv_ops[i] \in Ops
    BY LenProperties, ElementOfSeq, Zenon DEF TypeOK
  <2> QED BY <1>5, <1>6, <1>8, <2>1, Zenon DEF HandleExpectedMsg
<1> QED BY <1>7, <1>8, Zenon

\* Poll frees the address of an expected message and leaves that of an unexpected one
\* to the callback.
LEMMA PollAddr ==
  ASSUME TypeOK, SingleHolder, ItemsCarry, MessageInOnePlace, AddrInv, Poll
  PROVE  AddrInv'
<1>1. PICK c : c = Head(completions)
  BY Zenon
<1>2. PICK o : o = c.op
  BY Zenon
<1>3. /\ c \in Range(completions) /\ o \in InChannel /\ o \in Ops /\ o \notin InQueue
      /\ Range(completions) = {c} \cup Range(completions')
      /\ InQueue' = InQueue \cup {o}
      /\ \A p \in Done : p # o => op'[p] = op[p]
      /\ op'[o].type = op[o].type /\ op'[o].ret = c.result
      /\ op[o].type \in RecvTypes /\ c.msg # NoMsg => op'[o].msg = c.msg
  BY <1>1, <1>2, PollEffect, Zenon
<1>4. /\ Stashed' = Stashed /\ UNCHANGED <<user_addrs, consumed>>
      /\ \A p \in InQueue : op'[p] = op[p]
  BY <1>3, Zenon DEF Poll, recvVars, Stashed, Done
<1>5. source_addrs' = IF c.msg # NoMsg /\ op[o].type # "RECV_UNEXPECTED"
                      THEN source_addrs \ {c.msg} ELSE source_addrs
  BY <1>1, <1>2, Zenon DEF Poll, FreeAddr
<1>6. ChannelMsgs = ChannelMsgs' \cup ({c.msg} \ {NoMsg})
  BY <1>3, Zenon DEF ChannelMsgs
<1>7. CASE op[o].type = "RECV_UNEXPECTED"
  <2>1. c.msg # NoMsg /\ c.result = "SUCCESS" /\ op[o].type \in RecvTypes
    BY <1>2, <1>3, <1>7, Zenon DEF ItemsCarry, RecvTypes
  <2>2. QueuedUnexpected' = QueuedUnexpected \cup {c.msg}
    BY <1>3, <1>4, <1>7, <2>1, QueuedAdded, Zenon
  <2> QED BY <1>4, <1>5, <1>6, <1>7, <2>1, <2>2, Zenon DEF AddrInv, SourceAddrOwned, QueuedUnexpected
<1>8. CASE op[o].type = "RECV_EXPECTED"
  <2>1. c.msg # NoMsg
    BY <1>2, <1>3, <1>8, Zenon DEF ItemsCarry, RecvTypes
  <2>2. QueuedUnexpected' = QueuedUnexpected
    BY <1>3, <1>4, <1>8, QueuedAdded, Zenon
  <2>3. c.msg \in ChannelMsgs
    BY <1>6, <2>1, Zenon
  <2>4. c.msg \notin Stashed /\ c.msg \notin QueuedUnexpected /\ c.msg \notin user_addrs
    BY <2>3, Apart, Zenon
  <2>5. c.msg \notin ChannelMsgs'
    <3>1. SUFFICES ASSUME NEW d \in Range(completions'), d.msg = c.msg PROVE FALSE
      BY Zenon DEF ChannelMsgs
    <3>2. PICK i \in DOMAIN completions, j \in DOMAIN completions : c = completions[i] /\ d = completions[j]
      BY <1>3, Zenon DEF Range
    <3>3. i = j
      BY <2>1, <3>1, <3>2, Zenon DEF MessageInOnePlace
    <3>4. o \in ItemOps(completions')
      BY <1>2, <3>1, <3>2, <3>3, Zenon DEF ItemOps
    <3>5. InChannel' = InChannel \ {o}
      BY <1>1, <1>2, PollEffect, Zenon
    <3> QED BY <3>4, <3>5, Zenon DEF InChannel
  <2>6. source_addrs' = source_addrs \ {c.msg}
    BY <1>5, <1>8, <2>1, Zenon
  <2> QED BY <1>4, <1>6, <2>1, <2>2, <2>4, <2>5, <2>6, Zenon DEF AddrInv, SourceAddrOwned, QueuedUnexpected
<1>9. CASE op[o].type \notin RecvTypes
  <2>1. c.msg = NoMsg
    BY <1>2, <1>3, <1>9, Zenon DEF ItemsCarry
  <2>2. QueuedUnexpected' = QueuedUnexpected
    BY <1>3, <1>4, <1>9, QueuedAdded, Zenon DEF RecvTypes
  <2> QED BY <1>4, <1>5, <1>6, <2>1, <2>2, Zenon DEF AddrInv, SourceAddrOwned, QueuedUnexpected
<1> QED BY <1>7, <1>8, <1>9, Zenon DEF RecvTypes

\* The callback hands the address of an unexpected message to the user.
LEMMA TriggerAddr ==
  ASSUME TypeOK, SingleHolder, AddrInv, Trigger
  PROVE  AddrInv'
<1>1. PICK o : o = Head(completion_queue)
  BY Zenon
<1> DEFINE received == op[o].ret = "SUCCESS" /\ op[o].type \in RecvTypes
           handed == received /\ op[o].type = "RECV_UNEXPECTED"
<1>2. /\ completion_queue # <<>> /\ completion_queue' = Tail(completion_queue)
      /\ consumed' = consumed \cup {m \in {op[o].msg} : received}
      /\ user_addrs' = user_addrs \cup {m \in {op[o].msg} : handed}
      /\ UNCHANGED <<op, unexpected_msg_stash, expected_msg_stash, completions, source_addrs>>
  BY <1>1, Zenon DEF Trigger, recvVars
<1>3. o \in InQueue /\ InQueue' = InQueue \ {o}
  BY <1>1, <1>2, TailDistinct, Zenon DEF TypeOK, SingleHolder, NoDuplicates, InQueue
<1>4. QueuedUnexpected = QueuedUnexpected' \cup {m \in {op[o].msg} : handed}
  <2>1. QueuedReceives({"RECV_UNEXPECTED"})
          = QueuedReceives({"RECV_UNEXPECTED"})' \cup {p \in {o} : handed}
    BY <1>2, <1>3, Zenon DEF QueuedReceives, RecvTypes
  <2> HIDE DEF handed
  <2> QED BY <1>2, <2>1, Zenon DEF QueuedUnexpected, QueuedMsgs
<1>5. Stashed' = Stashed /\ ChannelMsgs' = ChannelMsgs
  BY <1>2, Zenon DEF Stashed, ChannelMsgs
<1>6. {m \in {op[o].msg} : handed} \subseteq {m \in {op[o].msg} : received}
  BY Zenon
<1> HIDE DEF received, handed
<1> QED BY <1>2, <1>4, <1>5, <1>6, Zenon DEF AddrInv, SourceAddrOwned, QueuedUnexpected

LEMMA AddrFreeAddr ==
  ASSUME MessageInOnePlace, AddrInv, NEW m \in user_addrs, AddrFree(m)
  PROVE  AddrInv'
<1>1. /\ user_addrs' = user_addrs \ {m} /\ source_addrs' = source_addrs \ {m} /\ consumed' = consumed
      /\ UNCHANGED <<op, unexpected_msg_stash, expected_msg_stash, completions, completion_queue>>
  BY Zenon DEF AddrFree, FreeAddr, opVars, recvVars, doneVars
<1>2. Stashed' = Stashed /\ ChannelMsgs' = ChannelMsgs /\ QueuedUnexpected' = QueuedUnexpected
  BY <1>1, QueuedKept, Zenon DEF Stashed, ChannelMsgs, InQueue
<1>3. m \notin Stashed /\ m \notin ChannelMsgs /\ m \notin QueuedUnexpected
  BY Apart, Zenon
<1> QED BY <1>1, <1>2, <1>3, Zenon DEF AddrInv, SourceAddrOwned, QueuedUnexpected

LEMMA CancelAddr ==
  ASSUME TypeOK, SingleHolder, AddrInv, NEW o \in Ops, Cancel(o)
  PROVE  AddrInv'
<1>1. /\ Canceled(o) /\ op \in [Ops -> OpRecord] /\ op[o] \in OpRecord
      /\ UNCHANGED <<unexpected_msg_stash, expected_msg_stash, completions, source_addrs, user_addrs, consumed>>
  BY Zenon DEF Cancel, TypeOK, userVars
<1>2. \E q \in {unexpected_recv_ops, expected_recv_ops, pending_rma_ops} : \E i \in DOMAIN q : q[i] = o
  BY Zenon DEF Cancel, IsFirst
<1>3. o \in Waiting
  BY <1>2, Zenon DEF Waiting, Range
<1>4. o \notin InQueue /\ InQueue \subseteq Ops
  BY <1>3, WaitingOps, Zenon DEF SingleHolder, Done
<1>5. op'[o].ret = "CANCELED" /\ \A p \in Ops : p # o => op'[p] = op[p]
  BY <1>1, Zenon DEF Canceled, OpRecord
<1>6. InQueue' = InQueue \cup {o}
  BY <1>1, AddEffect, Zenon DEF Canceled
<1>7. QueuedUnexpected' = QueuedUnexpected
  BY <1>4, <1>5, <1>6, QueuedAdded, Zenon
<1>8. Stashed' = Stashed
  BY <1>1, Zenon DEF Stashed
<1> QED BY <1>1, <1>7, <1>8, ChannelMsgsKept, AddrKept, Zenon

LEMMA AddrStep ==
  ASSUME ~ GetWriteMayFail, ServiceInv, MessageInOnePlace, AddrInv, [Next]_vars
  PROVE  AddrInv'
<1>0. TypeOK /\ SingleHolder /\ ItemsCarry /\ StashedOnce
  BY Zenon DEF ServiceInv
<1> USE <1>0
<1>1. ASSUME NEW o \in Ops, OpCreate(o) \/ OpDestroy(o) PROVE AddrInv'
  <2>1. /\ UNCHANGED <<unexpected_msg_stash, expected_msg_stash, doneVars, userVars>>
        /\ \A p \in Ops : p # o => op'[p] = op[p]
    BY <1>1, Zenon DEF OpCreate, OpDestroy, recvVars, TypeOK
  <2>2. o \notin Done
    BY <1>1, Zenon DEF OpCreate, OpDestroy, SingleHolder, Busy, Done
  <2> QED BY <2>1, <2>2, QuietCallAddr, Zenon
<1>2. ASSUME NEW o \in Ops, Post(o), \A p \in Ops : p # o => op'[p] = op[p],
             UNCHANGED <<recvVars, doneVars, userVars>>
      PROVE  AddrInv'
  <2>1. UNCHANGED <<unexpected_msg_stash, expected_msg_stash, doneVars, userVars>>
    BY <1>2, Zenon DEF recvVars
  <2>2. o \notin Done
    BY <1>2, Posted, Zenon DEF Done
  <2> QED BY <1>2, <2>1, <2>2, QuietCallAddr, Zenon
<1>3. ASSUME NEW o \in Ops, NEW type, NEW tag, MsgSend(o, type, tag) PROVE AddrInv'
  <2>1. /\ Post(o) /\ UNCHANGED <<recvVars, doneVars, userVars>>
        /\ \A p \in Ops : p # o => op'[p] = op[p]
    BY <1>3, Zenon DEF MsgSend, TypeOK
  <2> QED BY <1>2, <2>1, Zenon
<1>4. ASSUME NEW o \in Ops, Put(o) PROVE AddrInv'
  <2>1. /\ Post(o) /\ UNCHANGED <<recvVars, doneVars, userVars>>
        /\ \A p \in Ops : p # o => op'[p] = op[p]
    BY <1>4, Zenon DEF Put, TypeOK
  <2> QED BY <1>2, <2>1, Zenon
<1>5. ASSUME NEW o \in Ops, NEW key \in Keys, Get(o, key) PROVE AddrInv'
  <2>1. /\ Post(o) /\ UNCHANGED <<recvVars, doneVars, userVars>>
        /\ \A p \in Ops : p # o => op'[p] = op[p]
    BY <1>5, Zenon DEF Get, TypeOK
  <2> QED BY <1>2, <2>1, Zenon
<1>6. ASSUME NEW o \in Ops, MsgRecvUnexpected(o) PROVE AddrInv'
  BY <1>6, RecvUnexpectedAddr, Zenon
<1>7. ASSUME NEW o \in Ops, NEW addr \in Peers \cup {AnySource}, NEW tag \in Tags,
             MsgRecvExpected(o, addr, tag)
      PROVE  AddrInv'
  BY <1>7, RecvExpectedAddr, Zenon
<1>8. ASSUME NEW o \in Ops, Cancel(o) PROVE AddrInv'
  BY <1>8, CancelAddr, Zenon
<1>9. ASSUME NEW o \in Ops, NEW result \in Rets, CompletionSend(o, result, NoMsg),
             UNCHANGED <<opVars, recvVars, completion_queue, userVars>>
      PROVE  AddrInv'
  <2>1. NoMsg \in 0..MaxMsgs
    BY EndpointAssumption DEF NoMsg
  <2>2. ChannelMsgs' = ChannelMsgs
    BY <1>9, <2>1, ChannelMsgsSent, Zenon
  <2>3. /\ Stashed' = Stashed /\ UNCHANGED <<source_addrs, user_addrs, consumed>>
        /\ QueuedUnexpected' = QueuedUnexpected
    BY <1>9, QueuedKept, Zenon DEF opVars, recvVars, userVars, Stashed, InQueue
  <2> QED BY <2>2, <2>3, AddrKept, Zenon
<1>10. ASSUME UNCHANGED <<opVars, recvVars, doneVars, userVars>> PROVE AddrInv'
  BY <1>10, AddrKept, ChannelMsgsKept, QueuedKept, Zenon
     DEF opVars, recvVars, doneVars, userVars, Stashed, InQueue
<1>11. ASSUME NEW o \in Ops, NEW result \in {"SUCCESS", "PROTOCOL_ERROR"}, SendDone(o, result)
       PROVE  AddrInv'
  BY <1>9, <1>11, Zenon DEF SendDone, Rets
<1>12. ASSUME NEW src \in Peers, NEW tag \in Tags,
              HandleUnexpectedMsg(src, tag) \/ HandleExpectedMsg(src, tag)
       PROVE  AddrInv'
  BY <1>12, ArriveAddr, Zenon
<1>13. ASSUME NEW g \in gets, GetWritten(g) PROVE AddrInv'
  BY <1>10, <1>13, Zenon DEF GetWritten
<1>14. ASSUME NEW g \in gets, HandleRmaGetResponse(g) PROVE AddrInv'
  <2>1. \A i \in DOMAIN pending_rma_ops : pending_rma_ops[i] \in Ops
    BY LenProperties, ElementOfSeq, Zenon DEF TypeOK
  <2>2. "SUCCESS" \in Rets
    BY Zenon DEF Rets
  <2>3. UNCHANGED <<opVars, recvVars, completion_queue, userVars>>
    BY <1>14, Zenon DEF HandleRmaGetResponse
  <2>4. \/ \E i \in DOMAIN pending_rma_ops : CompletionSend(pending_rma_ops[i], "SUCCESS", NoMsg)
        \/ UNCHANGED completions
    BY <1>14, Zenon DEF HandleRmaGetResponse
  <2>5. ASSUME UNCHANGED completions PROVE AddrInv'
    BY <1>10, <2>3, <2>5, Zenon DEF doneVars
  <2> QED BY <1>9, <2>1, <2>2, <2>3, <2>4, <2>5, Zenon
<1>15. ASSUME Poll PROVE AddrInv'
  BY <1>15, PollAddr, Zenon
<1>16. ASSUME Trigger PROVE AddrInv'
  BY <1>16, TriggerAddr, Zenon
<1>17. ASSUME NEW m \in user_addrs, AddrFree(m) PROVE AddrInv'
  BY <1>17, AddrFreeAddr, Zenon
<1>18. ASSUME UNCHANGED vars PROVE AddrInv'
  BY <1>10, <1>18, Zenon DEF vars
<1>19. \A g \in gets : ~ GetWriteFailed(g)
  BY Zenon DEF GetWriteFailed
<1> QED BY <1>1, <1>3, <1>4, <1>5, <1>6, <1>7, <1>8, <1>11, <1>12, <1>13, <1>14, <1>15, <1>16, <1>17,
           <1>18, <1>19 DEF Next, OpStep

-----------------------------------------------------------------------------
(* The theorems.                                                           *)

MessageInv == ServiceInv /\ ServiceHome /\ OrderInv /\ AddrInv

LEMMA InitMessages ==
  ASSUME Init
  PROVE  ServiceHome /\ OrderInv /\ AddrInv
<1>1. Range(<<>>) = {} /\ DOMAIN <<>> = {}
  BY DEF Range
<1>2. /\ Stashed = {} /\ InQueue = {} /\ Len(arrived) = 0 /\ consumed = {} /\ user_addrs = {} /\ source_addrs = {}
  BY <1>1, Zenon DEF Init, Stashed, InQueue
<1>3. matchedBar = {} /\ ChannelMsgs = {} /\ QueuedMsgs({"RECV_UNEXPECTED"}) = {}
  BY <1>1, <1>2, Zenon DEF Init, matchedBar, ItemPairs, QueuePairs, QueuedReceives, QueuedMsgs, ChannelMsgs
<1>4. ServiceHome
  <2>1. 1..0 = {} /\ Given({}) = {}
    BY DEF Given
  <2> QED BY <1>2, <1>3, <2>1, Zenon DEF ServiceHome, OneHome
<1>5. OrderInv
  BY <1>1, Zenon DEF Init, OrderInv, StashOrder, Ascending, NoMissedMatch, NoOvertaking
<1>6. AddrInv
  BY <1>2, <1>3, Zenon DEF AddrInv, SourceAddrOwned
<1> QED BY <1>4, <1>5, <1>6, Zenon

LEMMA MessageInvAlways == ASSUME ~ GetWriteMayFail PROVE Spec => []MessageInv
<1>1. Init => MessageInv
  BY InitService, InitMessages, Zenon DEF MessageInv
<1>2. ASSUME MessageInv, [Next]_vars PROVE MessageInv'
  <2>1. ServiceInv /\ ServiceHome /\ OrderInv /\ AddrInv /\ TypeOK
    BY <1>2, Zenon DEF MessageInv, ServiceInv
  <2>2. ServiceInv' /\ ServiceStep
    BY <1>2, <2>1, StepRefines, Zenon
  <2>3. ServiceHome'
    BY <2>1, <2>2, HomeStep, Zenon
  <2>4. OrderInv'
    BY <1>2, <2>1, OrderStep, Zenon
  <2>5. MessageInOnePlace
    BY <2>1, HomeIsPlace, Zenon
  <2>6. AddrInv'
    BY <1>2, <2>1, <2>5, AddrStep, Zenon
  <2> QED BY <2>2, <2>3, <2>4, <2>6, Zenon DEF MessageInv
<1> QED BY <1>1, <1>2, PTL DEF Spec

\* No message is lost and none is delivered twice, whatever the order of arrivals,
\* receives, cancels, polls and callbacks, for any number of operations and messages,
\* as long as no write of a get request is reported as failed.
THEOREM MessagesInOnePlace == ASSUME ~ GetWriteMayFail PROVE Spec => []MessageInOnePlace
<1>1. MessageInv => MessageInOnePlace
  BY HomeIsPlace, Zenon DEF MessageInv
<1> QED BY <1>1, MessageInvAlways, PTL

\* No receive waits for a message that is already stashed: each side looks for the
\* other before it waits, under the same lock.
THEOREM MatchesNeverMissed == ASSUME ~ GetWriteMayFail PROVE Spec => []NoMissedMatch
<1>1. MessageInv => NoMissedMatch
  BY Zenon DEF MessageInv, OrderInv
<1> QED BY <1>1, MessageInvAlways, PTL

\* Messages of one sender and tag are matched in the order they arrived, and so are all
\* unexpected messages.
THEOREM MessagesInOrder == ASSUME ~ GetWriteMayFail PROVE Spec => []NoOvertaking
<1>1. MessageInv => NoOvertaking
  BY Zenon DEF MessageInv, OrderInv
<1> QED BY <1>1, MessageInvAlways, PTL

\* The boxed source address of a message is never leaked and never freed twice: it is
\* allocated exactly while someone is still to free it.
THEOREM SourceAddrsOwned == ASSUME ~ GetWriteMayFail PROVE Spec => []SourceAddrOwned
<1>1. MessageInv => SourceAddrOwned
  BY Zenon DEF MessageInv, AddrInv
<1> QED BY <1>1, MessageInvAlways, PTL
=============================================================================
