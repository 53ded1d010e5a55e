----------------------------- MODULE NaEndpoint -----------------------------
(***************************************************************************)
(* One plugin instance (NaLibp2pClass) seen from its operation ids: the    *)
(* calls Mercury makes on NA threads, the handlers that run on the Tokio   *)
(* runtime, the operation queues both share under the `queues` mutex, the  *)
(* completion channel between them, and the completion queue of the NA     *)
(* core that NA_Trigger empties into user callbacks.                       *)
(*                                                                         *)
(* An operation id is a raw pointer, so an element of Ops is an address    *)
(* that op_create may hand out again after op_destroy.  A message is the   *)
(* number of its arrival: its payload and the boxed source address made    *)
(* for it are told apart by that number, its tag and sender are looked up  *)
(* in `arrived`.  A get is told apart by its number, and the pair          *)
(* (local_handle_id, local_offset) it fills is a member of Keys.           *)
(***************************************************************************)
EXTENDS Naturals, Sequences, Functions

CONSTANTS
  Ops,              \* addresses of operation ids
  Peers,            \* peer ids that messages come from
  Tags,
  Keys,             \* (local_handle_id, local_offset) pairs
  AnySource,        \* the null source address
  MaxMsgs,          \* bound on the messages that arrive
  MaxGets,          \* bound on the gets that are posted
  MaxAnswers,       \* bound on the answers to one get (the writer makes 3 attempts)
  GetWriteMayFail   \* may the write of a get request be reported as failed?

ASSUME EndpointAssumption ==
  /\ AnySource \notin Peers
  /\ Tags # {} /\ Keys # {}
  /\ MaxMsgs \in Nat
  /\ MaxGets \in Nat
  /\ MaxAnswers \in Nat
  /\ GetWriteMayFail \in BOOLEAN

VARIABLES
  ostate,                \* the user's view of each op: free, idle or busy
  op,                    \* the fields of each NaLibp2pOpId
  unexpected_recv_ops,   \* the five queues of OperationQueues
  expected_recv_ops,
  pending_rma_ops,
  unexpected_msg_stash,
  expected_msg_stash,
  arrived,               \* every message received so far, in order of arrival
  sends,                 \* ops whose send or put the async side is working on
  gets,                  \* get requests the async side or the peer still works on
  ngets,                 \* gets posted so far
  mem,                   \* the get whose data each local region holds
  completions,           \* the completion channel
  completion_queue,      \* the NA core's queue of completed operations
  source_addrs,          \* boxed source addresses that are allocated
  user_addrs,            \* those of them that a callback has handed to the user
  consumed               \* messages that a callback has delivered

opVars == <<ostate, op>>
recvVars == <<unexpected_recv_ops, expected_recv_ops,
              unexpected_msg_stash, expected_msg_stash, arrived>>
rmaVars == <<pending_rma_ops, gets, ngets, mem>>
doneVars == <<completions, completion_queue>>
userVars == <<source_addrs, user_addrs, consumed>>
vars == <<opVars, recvVars, rmaVars, sends, doneVars, userVars>>

NoMsg == 0
SendTypes == {"SEND_UNEXPECTED", "SEND_EXPECTED", "PUT"}
RecvTypes == {"RECV_UNEXPECTED", "RECV_EXPECTED"}
OpTypes == SendTypes \cup RecvTypes \cup {"GET", "NONE"}
Rets == {"SUCCESS", "PROTOCOL_ERROR", "CANCELED"}
Kinds == {"unexpected", "expected"}

OpRecord == [type : OpTypes, ret : Rets, msg : 0..MaxMsgs, addr : Peers \cup {AnySource},
             tag : Tags, key : Keys, get : 0..MaxGets]
Message == [kind : Kinds, src : Peers, tag : Tags]
GetRequest == [id : 1..MaxGets, op : Ops, key : Keys, task : BOOLEAN, answers : 0..MaxAnswers]
CompletionItem == [op : Ops, result : Rets, msg : 0..MaxMsgs]

\* All state variables have the shape the code gives them.
TypeOK ==
  /\ ostate \in [Ops -> {"free", "idle", "busy"}]
  /\ op \in [Ops -> OpRecord]
  /\ unexpected_recv_ops \in Seq(Ops)
  /\ expected_recv_ops \in Seq(Ops)
  /\ pending_rma_ops \in Seq(Ops)
  /\ unexpected_msg_stash \in Seq(1..MaxMsgs)
  /\ expected_msg_stash \in Seq(1..MaxMsgs)
  /\ arrived \in Seq(Message)
  /\ sends \subseteq Ops
  /\ gets \subseteq GetRequest
  /\ ngets \in 0..MaxGets
  /\ mem \in [Keys -> 0..MaxGets]
  /\ completions \in Seq(CompletionItem)
  /\ completion_queue \in Seq(Ops)
  /\ source_addrs \subseteq 1..MaxMsgs
  /\ user_addrs \subseteq 0..MaxMsgs
  /\ consumed \subseteq 0..MaxMsgs

\* The fields op_create gives a new operation id.
ZeroedOp == [type |-> "NONE", ret |-> "SUCCESS", msg |-> NoMsg, addr |-> AnySource,
             tag |-> CHOOSE t \in Tags : TRUE, key |-> CHOOSE k \in Keys : TRUE, get |-> 0]

Init ==
  /\ ostate = [o \in Ops |-> "free"]
  /\ op = [o \in Ops |-> ZeroedOp]
  /\ unexpected_recv_ops = <<>>
  /\ expected_recv_ops = <<>>
  /\ pending_rma_ops = <<>>
  /\ unexpected_msg_stash = <<>>
  /\ expected_msg_stash = <<>>
  /\ arrived = <<>>
  /\ sends = {}
  /\ gets = {}
  /\ ngets = 0
  /\ mem = [k \in Keys |-> 0]
  /\ completions = <<>>
  /\ completion_queue = <<>>
  /\ source_addrs = {}
  /\ user_addrs = {}
  /\ consumed = {}

-----------------------------------------------------------------------------
(* Operation ids.  Mercury posts an operation only on an id that is not in *)
(* use, destroys an id only when it is not in use, and considers an id in  *)
(* use from the post until the callback.                                   *)

OpCreate(o) ==
  /\ ostate[o] = "free"
  /\ ostate' = [ostate EXCEPT ![o] = "idle"]
  /\ op' = [op EXCEPT ![o] = ZeroedOp]
  /\ UNCHANGED <<recvVars, rmaVars, sends, doneVars, userVars>>

OpDestroy(o) ==
  /\ ostate[o] = "idle"
  /\ ostate' = [ostate EXCEPT ![o] = "free"]
  /\ UNCHANGED <<op, recvVars, rmaVars, sends, doneVars, userVars>>

Post(o) ==
  /\ ostate[o] = "idle"
  /\ ostate' = [ostate EXCEPT ![o] = "busy"]

\* What the calls write into the op, and what is added when a message meets it.
Sending(r, type, tag) == [r EXCEPT !.type = type, !.tag = tag]
Putting(r) == [r EXCEPT !.type = "PUT"]
Receiving(r, type, addr, tag) == [r EXCEPT !.type = type, !.addr = addr, !.tag = tag]
Getting(r, key, id) == [r EXCEPT !.type = "GET", !.key = key, !.get = id]
Received(r, m) == [r EXCEPT !.ret = "SUCCESS", !.msg = m]

\* msg_send_unexpected and msg_send_expected: fill the op, hand the command
\* to the async side.
MsgSend(o, type, tag) ==
  /\ Post(o)
  /\ op' = [op EXCEPT ![o] = Sending(op[o], type, tag)]
  /\ sends' = sends \cup {o}
  /\ UNCHANGED <<recvVars, rmaVars, doneVars, userVars>>

Put(o) ==
  /\ Post(o)
  /\ op' = [op EXCEPT ![o] = Putting(op[o])]
  /\ sends' = sends \cup {o}
  /\ UNCHANGED <<recvVars, rmaVars, doneVars, userVars>>

\* na_cb_completion_add: hand a finished operation to the NA core.
CompletionAdd_Dropped(o) ==
  UNCHANGED completion_queue
CompletionAdd(o) ==
  completion_queue' = Append(completion_queue, o)

-----------------------------------------------------------------------------
(* Receives, and the messages they wait for.                               *)

\* position(): the first index the test accepts, here the least member of S.
IsFirst_Last(i, S) == i \in S /\ \A j \in S : i >= j
IsFirst(i, S) == i \in S /\ \A j \in S : i <= j

\* VecDeque::remove of a matched or canceled op, or of a matched message.
Take_Peek(q, i) == q
Take(q, i) == SubSeq(q, 1, i - 1) \o SubSeq(q, i + 1, Len(q))

\* Box::from_raw on the source address of message m.
FreeAddr_Leak(S, m) == S
FreeAddr(S, m) == S \ {m}

\* The test recv_expected applies to the messages stashed before it.
StashedMsgMatches(m, addr, tag) ==
  /\ arrived[m].tag = tag
  /\ addr # AnySource => arrived[m].src = addr

\* The test an arriving expected message applies to the receives posted before it.
RecvOpMatches_NoWildcard(o, src, tag) ==
  /\ op[o].tag = tag
  /\ op[o].addr = src
RecvOpMatches(o, src, tag) ==
  /\ op[o].tag = tag
  /\ op[o].addr # AnySource => op[o].addr = src

MsgRecvUnexpected(o) ==
  LET posted == Receiving(op[o], "RECV_UNEXPECTED", AnySource, op[o].tag) IN
  /\ Post(o)
  /\ \/ /\ unexpected_msg_stash # <<>>
        /\ unexpected_msg_stash' = Tail(unexpected_msg_stash)
        /\ op' = [op EXCEPT ![o] = Received(posted, Head(unexpected_msg_stash))]
        /\ CompletionAdd(o)
        /\ UNCHANGED unexpected_recv_ops
     \/ /\ unexpected_msg_stash = <<>>
        /\ op' = [op EXCEPT ![o] = posted]
        /\ unexpected_recv_ops' = Append(unexpected_recv_ops, o)
        /\ UNCHANGED <<unexpected_msg_stash, completion_queue>>
  /\ UNCHANGED <<expected_recv_ops, expected_msg_stash, arrived, rmaVars, sends,
                 completions, userVars>>

MsgRecvExpected(o, addr, tag) ==
  LET matching == {i \in DOMAIN expected_msg_stash :
                     StashedMsgMatches(expected_msg_stash[i], addr, tag)}
      posted == Receiving(op[o], "RECV_EXPECTED", addr, tag)
  IN
  /\ Post(o)
  /\ \/ \E i \in DOMAIN expected_msg_stash :
          /\ IsFirst(i, matching)
          /\ expected_msg_stash' = Take(expected_msg_stash, i)
          /\ source_addrs' = FreeAddr(source_addrs, expected_msg_stash[i])
          /\ op' = [op EXCEPT ![o] = Received(posted, expected_msg_stash[i])]
          /\ CompletionAdd(o)
          /\ UNCHANGED expected_recv_ops
     \/ /\ matching = {}
        /\ op' = [op EXCEPT ![o] = posted]
        /\ expected_recv_ops' = Append(expected_recv_ops, o)
        /\ UNCHANGED <<expected_msg_stash, source_addrs, completion_queue>>
  /\ UNCHANGED <<unexpected_recv_ops, unexpected_msg_stash, arrived, rmaVars, sends,
                 completions, user_addrs, consumed>>

\* Handing a completion to the NA thread: the channel send that precedes
\* signal_eventfd.
Item(o, result, msg) == [op |-> o, result |-> result, msg |-> msg]
CompletionSend_NoInfo(o, result, msg) ==
  completions' = Append(completions, Item(o, result, NoMsg))
CompletionSend(o, result, msg) ==
  completions' = Append(completions, Item(o, result, msg))

\* alloc_boxed: the address made for an arriving message is a new one.
NewAddr_Reused == Len(arrived)
NewAddr == Len(arrived) + 1

HandleUnexpectedMsg(src, tag) ==
  LET m == NewAddr IN
  /\ m <= MaxMsgs
  /\ arrived' = Append(arrived, [kind |-> "unexpected", src |-> src, tag |-> tag])
  /\ source_addrs' = source_addrs \cup {m}
  /\ \/ /\ unexpected_recv_ops # <<>>
        /\ unexpected_recv_ops' = Tail(unexpected_recv_ops)
        /\ CompletionSend(Head(unexpected_recv_ops), "SUCCESS", m)
        /\ UNCHANGED unexpected_msg_stash
     \/ /\ unexpected_recv_ops = <<>>
        /\ unexpected_msg_stash' = Append(unexpected_msg_stash, m)
        /\ UNCHANGED <<unexpected_recv_ops, completions>>
  /\ UNCHANGED <<opVars, expected_recv_ops, expected_msg_stash, rmaVars, sends,
                 completion_queue, user_addrs, consumed>>

HandleExpectedMsg(src, tag) ==
  LET m == NewAddr
      matching == {i \in DOMAIN expected_recv_ops : RecvOpMatches(expected_recv_ops[i], src, tag)}
  IN
  /\ m <= MaxMsgs
  /\ arrived' = Append(arrived, [kind |-> "expected", src |-> src, tag |-> tag])
  /\ source_addrs' = source_addrs \cup {m}
  /\ \/ \E i \in DOMAIN expected_recv_ops :
          /\ IsFirst(i, matching)
          /\ expected_recv_ops' = Take(expected_recv_ops, i)
          /\ CompletionSend(expected_recv_ops[i], "SUCCESS", m)
          /\ UNCHANGED expected_msg_stash
     \/ /\ matching = {}
        /\ expected_msg_stash' = Append(expected_msg_stash, m)
        /\ UNCHANGED <<expected_recv_ops, completions>>
  /\ UNCHANGED <<opVars, unexpected_recv_ops, unexpected_msg_stash, rmaVars, sends,
                 completion_queue, user_addrs, consumed>>

-----------------------------------------------------------------------------
(* Gets.  A request lives on while the task that awaits its write runs     *)
(* (`task`) and while answers to it are to come (`answers`): none when the *)
(* peer does not know the handle or the connection is lost, several when a *)
(* write reached the peer, was reported broken and was repeated.           *)

NewGet(id, o, key, n) == [id |-> id, op |-> o, key |-> key, task |-> TRUE, answers |-> n]
WriteOver(g) == [g EXCEPT !.task = FALSE]
Answered(g) == [g EXCEPT !.answers = @ - 1]

Get(o, key) ==
  LET id == ngets + 1 IN
  /\ Post(o)
  /\ id <= MaxGets
  /\ ngets' = id
  /\ op' = [op EXCEPT ![o] = Getting(op[o], key, id)]
  /\ pending_rma_ops' = Append(pending_rma_ops, o)
  /\ \E n \in 0..MaxAnswers :
       gets' = gets \cup {NewGet(id, o, key, n)}
  /\ UNCHANGED <<mem, recvVars, sends, doneVars, userVars>>

\* What is left of request g after it became h.
Update(g, h) == gets' = (gets \ {g}) \cup {r \in {h} : r.task \/ r.answers > 0}

\* The write succeeded: the task ends and the operation waits for the answer.
GetWritten(g) ==
  /\ g.task
  /\ Update(g, WriteOver(g))
  /\ UNCHANGED <<opVars, recvVars, pending_rma_ops, ngets, mem, sends, doneVars, userVars>>

\* The write is reported as failed: the operation completes with an error and
\* stays in pending_rma_ops.
GetWriteFailed(g) ==
  /\ GetWriteMayFail
  /\ g.task
  /\ Update(g, WriteOver(g))
  /\ CompletionSend(g.op, "PROTOCOL_ERROR", NoMsg)
  /\ UNCHANGED <<opVars, recvVars, pending_rma_ops, ngets, mem, sends, completion_queue, userVars>>

\* The test an answer applies to the pending gets.
PendingGetMatches(o, key) == op[o].key = key

HandleRmaGetResponse(g) ==
  LET matching == {i \in DOMAIN pending_rma_ops : PendingGetMatches(pending_rma_ops[i], g.key)} IN
  /\ g.answers > 0
  /\ Update(g, Answered(g))
  /\ \/ \E i \in DOMAIN pending_rma_ops :
          /\ IsFirst(i, matching)
          /\ pending_rma_ops' = Take(pending_rma_ops, i)
          /\ mem' = [mem EXCEPT ![g.key] = g.id]
          /\ CompletionSend(pending_rma_ops[i], "SUCCESS", NoMsg)
     \/ /\ matching = {}
        /\ UNCHANGED <<pending_rma_ops, mem, completions>>
  /\ UNCHANGED <<opVars, recvVars, ngets, sends, completion_queue, userVars>>

-----------------------------------------------------------------------------
(* Completion, cancellation and callbacks.                                 *)

\* The task that awaits the write of a send or a put reports its result.
SendDone(o, result) ==
  /\ o \in sends
  /\ sends' = sends \ {o}
  /\ CompletionSend(o, result, NoMsg)
  /\ UNCHANGED <<opVars, recvVars, rmaVars, completion_queue, userVars>>

\* What poll writes into the op of a completion.
Completed(r, c) ==
  [r EXCEPT !.ret = c.result,
            !.msg = IF c.msg # NoMsg /\ r.type \in RecvTypes THEN c.msg ELSE @]

\* One turn of poll's loop over the completion channel.  The loop is not
\* atomic: it holds only the lock of the channel's receiver, which no other
\* operation of this module takes.
Poll ==
  LET c == Head(completions) IN
  /\ completions # <<>>
  /\ completions' = Tail(completions)
  /\ op' = [op EXCEPT ![c.op] = Completed(op[c.op], c)]
  /\ source_addrs' = IF c.msg # NoMsg /\ op[c.op].type # "RECV_UNEXPECTED"
                     THEN FreeAddr(source_addrs, c.msg) ELSE source_addrs
  /\ CompletionAdd(c.op)
  /\ UNCHANGED <<ostate, recvVars, rmaVars, sends, user_addrs, consumed>>

Canceled(o) ==
  /\ op' = [op EXCEPT ![o] = [op[o] EXCEPT !.ret = "CANCELED"]]
  /\ CompletionAdd(o)

\* An op that is in none of the three queues is left alone: its completion is
\* on its way.
Cancel(o) ==
  LET at(q) == {i \in DOMAIN q : q[i] = o} IN
  /\ ostate[o] = "busy"
  /\ \/ \E i \in DOMAIN unexpected_recv_ops :
          /\ IsFirst(i, at(unexpected_recv_ops))
          /\ unexpected_recv_ops' = Take(unexpected_recv_ops, i)
          /\ Canceled(o)
          /\ UNCHANGED <<expected_recv_ops, pending_rma_ops>>
     \/ \E i \in DOMAIN expected_recv_ops :
          /\ at(unexpected_recv_ops) = {}
          /\ IsFirst(i, at(expected_recv_ops))
          /\ expected_recv_ops' = Take(expected_recv_ops, i)
          /\ Canceled(o)
          /\ UNCHANGED <<unexpected_recv_ops, pending_rma_ops>>
     \/ \E i \in DOMAIN pending_rma_ops :
          /\ at(unexpected_recv_ops) = {} /\ at(expected_recv_ops) = {}
          /\ IsFirst(i, at(pending_rma_ops))
          /\ pending_rma_ops' = Take(pending_rma_ops, i)
          /\ Canceled(o)
          /\ UNCHANGED <<unexpected_recv_ops, expected_recv_ops>>
  /\ UNCHANGED <<ostate, unexpected_msg_stash, expected_msg_stash, arrived, gets, ngets, mem,
                 sends, completions, userVars>>

\* The id after the callback: na_libp2p_release leaves it to op_destroy.
Released_Freed(o) == "free"
Released(o) == IF ostate[o] = "busy" THEN "idle" ELSE ostate[o]

\* NA_Trigger calls the user's callback with the info the op holds by then.
Trigger ==
  LET o == Head(completion_queue)
      received == op[o].ret = "SUCCESS" /\ op[o].type \in RecvTypes
  IN
  /\ completion_queue # <<>>
  /\ completion_queue' = Tail(completion_queue)
  /\ ostate' = [ostate EXCEPT ![o] = Released(o)]
  /\ consumed' = consumed \cup {m \in {op[o].msg} : received}
  /\ user_addrs' = user_addrs \cup {m \in {op[o].msg} : received /\ op[o].type = "RECV_UNEXPECTED"}
  /\ UNCHANGED <<op, recvVars, rmaVars, sends, completions, source_addrs>>

\* The user gives back the source address of an unexpected message.
AddrFree(m) ==
  /\ m \in user_addrs
  /\ user_addrs' = user_addrs \ {m}
  /\ source_addrs' = FreeAddr(source_addrs, m)
  /\ UNCHANGED <<opVars, recvVars, rmaVars, sends, doneVars, consumed>>

-----------------------------------------------------------------------------
OpStep(o) ==
  \/ OpCreate(o)
  \/ OpDestroy(o)
  \/ \E type \in {"SEND_UNEXPECTED", "SEND_EXPECTED"}, tag \in Tags : MsgSend(o, type, tag)
  \/ Put(o)
  \/ MsgRecvUnexpected(o)
  \/ \E addr \in Peers \cup {AnySource}, tag \in Tags : MsgRecvExpected(o, addr, tag)
  \/ \E key \in Keys : Get(o, key)
  \/ Cancel(o)
  \/ \E result \in {"SUCCESS", "PROTOCOL_ERROR"} : SendDone(o, result)

Next ==
  \/ \E o \in Ops : OpStep(o)
  \/ \E src \in Peers, tag \in Tags : HandleUnexpectedMsg(src, tag) \/ HandleExpectedMsg(src, tag)
  \/ \E g \in gets : GetWritten(g) \/ GetWriteFailed(g) \/ HandleRmaGetResponse(g)
  \/ Poll
  \/ Trigger
  \/ \E m \in user_addrs : AddrFree(m)

Spec == Init /\ [][Next]_vars

\* Mercury keeps calling NA_Poll and NA_Trigger, and a Tokio task that can run is
\* eventually run: a writer reports a result for every message, and a message
\* that arrived is handled.
Fairness ==
  /\ WF_vars(Poll)
  /\ WF_vars(Trigger)
  /\ \A o \in Ops : WF_vars(\E result \in {"SUCCESS", "PROTOCOL_ERROR"} : SendDone(o, result))
  /\ WF_vars(\E g \in gets : GetWritten(g) \/ GetWriteFailed(g))
  /\ WF_vars(\E g \in gets : HandleRmaGetResponse(g))

FairSpec == Spec /\ Fairness

-----------------------------------------------------------------------------
(* Who holds an operation id.                                              *)

Busy == {o \in Ops : ostate[o] = "busy"}
Waiting == Range(unexpected_recv_ops) \cup Range(expected_recv_ops)
             \cup Range(pending_rma_ops) \cup sends
ItemOps(items) == {c.op : c \in Range(items)}
DistinctOps(items) == \A i, j \in DOMAIN items : items[i].op = items[j].op => i = j
InChannel == ItemOps(completions)
InQueue == Range(completion_queue)

RightQueue ==
  /\ \A o \in Range(unexpected_recv_ops) : op[o].type = "RECV_UNEXPECTED"
  /\ \A o \in Range(expected_recv_ops) : op[o].type = "RECV_EXPECTED"
  /\ \A o \in Range(pending_rma_ops) : op[o].type = "GET"
  /\ \A o \in sends : op[o].type \in SendTypes

NoDuplicates ==
  /\ IsInjective(unexpected_recv_ops) /\ IsInjective(expected_recv_ops)
  /\ IsInjective(pending_rma_ops) /\ IsInjective(completion_queue)
  /\ DistinctOps(completions)

\* Every operation in use has exactly one holder, and no other operation has
\* any: it is in the one queue of its type, or its completion is in the channel,
\* or it is in the NA core's queue.  So an operation completes exactly once
\* whichever of a match, a cancel, a failed write or a late answer comes first,
\* and no handler meets the pointer of an operation that is over.
SingleHolder ==
  /\ RightQueue
  /\ NoDuplicates
  /\ Waiting \cap InChannel = {} /\ Waiting \cap InQueue = {} /\ InChannel \cap InQueue = {}
  /\ Waiting \cup InChannel \cup InQueue = Busy

\* No receive waits for a message that is already stashed, whichever of the two
\* came first: recv_* looks in the stash before it queues the op, a handler looks
\* in the queue before it stashes the message.
NoMissedMatch ==
  /\ unexpected_recv_ops = <<>> \/ unexpected_msg_stash = <<>>
  /\ \A o \in Range(expected_recv_ops), m \in Range(expected_msg_stash) :
       ~ (op[o].tag = arrived[m].tag /\ op[o].addr \in {AnySource, arrived[m].src})

\* Messages are matched in the order they arrived: while an unexpected message
\* is stashed so is every later one, and while an expected message is stashed so
\* is every later one of the same sender and tag.
NoOvertaking ==
  \A n \in DOMAIN arrived :
    /\ arrived[n].kind = "unexpected" =>
         \A m \in Range(unexpected_msg_stash) : m < n => n \in Range(unexpected_msg_stash)
    /\ arrived[n].kind = "expected" =>
         \A m \in Range(expected_msg_stash) :
           m < n /\ arrived[m] = arrived[n] => n \in Range(expected_msg_stash)

Stashed == Range(unexpected_msg_stash) \cup Range(expected_msg_stash)
ChannelMsgs == {c.msg : c \in Range(completions)} \ {NoMsg}
QueuedReceives(types) == {o \in InQueue : op[o].ret = "SUCCESS" /\ op[o].type \in types}
QueuedMsgs(types) == {op[o].msg : o \in QueuedReceives(types)}

\* No message is lost and none is delivered twice: each one that arrived is
\* stashed, or travels to its receive through the channel or the NA core's queue,
\* or has been delivered, and it is in one of these places only.
MessageInOnePlace ==
  /\ DOMAIN arrived = Stashed \cup ChannelMsgs \cup QueuedMsgs(RecvTypes) \cup consumed
  /\ Stashed \cap (ChannelMsgs \cup QueuedMsgs(RecvTypes) \cup consumed) = {}
  /\ ChannelMsgs \cap (QueuedMsgs(RecvTypes) \cup consumed) = {}
  /\ QueuedMsgs(RecvTypes) \cap consumed = {}
  /\ \A i, j \in DOMAIN completions :
       completions[i].msg = completions[j].msg /\ completions[i].msg # NoMsg => i = j
  /\ \A o, p \in QueuedReceives(RecvTypes) : op[o].msg = op[p].msg => o = p

\* The boxed source address of a message is allocated exactly as long as someone
\* will still free it: the stash, the channel, an unexpected receive whose
\* callback is due, or the user.  It neither leaks nor is used after it is freed.
SourceAddrOwned ==
  source_addrs = Stashed \cup ChannelMsgs \cup QueuedMsgs({"RECV_UNEXPECTED"}) \cup user_addrs

-----------------------------------------------------------------------------
(* What is said of gets and does not hold.                                 *)

\* Every op pointer kept in a queue or a channel points to an allocated op, as
\* the memory-safety argument of the design claims.
NoDanglingOp ==
  Waiting \cup InChannel \cup InQueue \subseteq {o \in Ops : ostate[o] # "free"}

\* A get whose region no other get is using completes with the data it asked for,
\* not with the answer to an earlier request.
GetReturnsOwnData ==
  \A o \in InQueue :
    /\ op[o].type = "GET" /\ op[o].ret = "SUCCESS"
    /\ \A p \in Busy \ {o} : op[p].type = "GET" => op[p].key # op[o].key
    => mem[op[o].key] = op[o].get

-----------------------------------------------------------------------------
(* Progress.                                                               *)

\* Every send and every put is followed by its callback.
SendCompletes ==
  \A o \in Ops : o \in sends ~> ostate[o] # "busy"

\* Every message that met its receive is delivered by a callback.
MatchedMsgDelivered ==
  \A m \in 1..MaxMsgs : m \in DOMAIN arrived /\ m \notin Stashed ~> m \in consumed

\* Every get that the peer answers is followed by its callback, also when its
\* request was written, reported as broken and written again, and when the op
\* is left in pending_rma_ops by an earlier get that failed.
AnsweredGetCompletes ==
  \A o \in Ops :
    /\ ostate[o] = "busy" /\ op[o].type = "GET"
    /\ \E g \in gets : g.id = op[o].get /\ g.answers > 0
    ~> ostate[o] # "busy"
=============================================================================
