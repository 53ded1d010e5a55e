-------------------------- MODULE NaEndpointProofs --------------------------
(***************************************************************************)
(* Proofs about NaEndpoint, for every set of operation ids, peers, tags    *)
(* and regions and every bound.                                            *)
(***************************************************************************)
EXTENDS NaEndpoint, SequenceTheorems, TLAPS

-----------------------------------------------------------------------------
(* Sequences: what taking the head, taking an element and appending do.    *)

\* VecDeque::remove shortens the queue by the element removed and keeps the order.
LEMMA TakeProperties ==
  ASSUME NEW S, NEW q \in Seq(S), NEW i \in DOMAIN q
  PROVE  /\ Take(q, i) \in Seq(S)
         /\ Len(Take(q, i)) = Len(q) - 1
         /\ \A j \in 1..Len(q) - 1 : Take(q, i)[j] = IF j < i THEN q[j] ELSE q[j + 1]
<1> DEFINE a == SubSeq(q, 1, i - 1)
           b == SubSeq(q, i + 1, Len(q))
<1>1. /\ Len(q) \in Nat /\ DOMAIN q = 1..Len(q) /\ i \in 1..Len(q)
      /\ \A j \in 1..Len(q) : q[j] \in S
  BY LenProperties, ElementOfSeq, Zenon
<1>2. /\ a \in Seq(S) /\ Len(a) = i - 1
      /\ \A j \in 1..(i - 1) : a[j] = q[j]
  <2>1. \A j \in 1..(i - 1) : q[j] \in S
    BY <1>1
  <2>2. /\ a \in Seq(S)
        /\ Len(a) = IF 1 <= i - 1 THEN (i - 1) - 1 + 1 ELSE 0
        /\ \A j \in 1 .. (i - 1) - 1 + 1 : a[j] = q[1 + j - 1]
    BY <1>1, <2>1, SubSeqProperties
  <2> HIDE DEF a
  <2> QED BY <1>1, <2>2
<1>3. /\ b \in Seq(S) /\ Len(b) = Len(q) - i
      /\ \A j \in 1..(Len(q) - i) : b[j] = q[i + j]
  <2>1. \A j \in (i + 1)..Len(q) : q[j] \in S
    BY <1>1
  <2>2. /\ b \in Seq(S)
        /\ Len(b) = IF i + 1 <= Len(q) THEN Len(q) - (i + 1) + 1 ELSE 0
        /\ \A j \in 1 .. Len(q) - (i + 1) + 1 : b[j] = q[(i + 1) + j - 1]
    BY <1>1, <2>1, SubSeqProperties
  <2> HIDE DEF b
  <2>3. /\ Len(q) - (i + 1) + 1 = Len(q) - i
        /\ (IF i + 1 <= Len(q) THEN Len(q) - (i + 1) + 1 ELSE 0) = Len(q) - i
        /\ \A j \in 1..(Len(q) - i) : (i + 1) + j - 1 = i + j
    BY <1>1
  <2> QED BY <2>2, <2>3, Zenon
<1>4. Take(q, i) = a \o b
  BY Zenon DEF Take
<1> HIDE DEF a, b
<1>5. /\ a \o b \in Seq(S)
      /\ Len(a \o b) = Len(a) + Len(b)
      /\ \A j \in 1 .. Len(a) + Len(b) : (a \o b)[j] = IF j <= Len(a) THEN a[j] ELSE b[j - Len(a)]
  BY <1>2, <1>3, ConcatProperties, Zenon
<1>6. ASSUME NEW j \in 1..Len(q) - 1
      PROVE  (a \o b)[j] = IF j < i THEN q[j] ELSE q[j + 1]
  <2>0. /\ j \in 1 .. Len(a) + Len(b)
        /\ j < i <=> j <= Len(a)
    BY <1>1, <1>2, <1>3
  <2> DEFINE ab == a \o b
  <2>3. ab[j] = IF j <= Len(a) THEN a[j] ELSE b[j - Len(a)]
    BY <1>5, <2>0, Zenon
  <2> HIDE DEF ab
  <2>1. CASE j < i
    <3>1. j \in 1..(i - 1)
      BY <1>1, <2>1
    <3>2. ab[j] = a[j]
      BY <2>0, <2>1, <2>3, Zenon
    <3>3. a[j] = q[j]
      BY <1>2, <3>1, Zenon
    <3> QED BY <2>1, <3>2, <3>3, Zenon DEF ab
  <2>2. CASE ~ (j < i)
    <3>1. j - Len(a) \in 1..(Len(q) - i) /\ i + (j - Len(a)) = j + 1
      BY <1>1, <1>2, <2>2
    <3>2. ab[j] = b[j - Len(a)]
      BY <2>0, <2>2, <2>3, Zenon
    <3>3. b[j - Len(a)] = q[j + 1]
      BY <1>3, <3>1, Zenon
    <3> QED BY <2>2, <3>2, <3>3, Zenon DEF ab
  <2> QED BY <2>1, <2>2, Zenon
<1> QED BY <1>1, <1>2, <1>3, <1>4, <1>5, <1>6, SMTT(30)

\* Removing an element of a queue without repetitions removes it for good.
LEMMA TakeDistinct ==
  ASSUME NEW S, NEW q \in Seq(S), NEW i \in DOMAIN q, IsInjective(q)
  PROVE  /\ IsInjective(Take(q, i))
         /\ Range(Take(q, i)) = Range(q) \ {q[i]}
<1> DEFINE t == Take(q, i)
<1>1. /\ t \in Seq(S) /\ Len(t) = Len(q) - 1
      /\ \A j \in 1..Len(q) - 1 : t[j] = IF j < i THEN q[j] ELSE q[j + 1]
  BY TakeProperties, Zenon
<1> HIDE DEF t
<1>2. /\ Len(q) \in Nat /\ DOMAIN q = 1..Len(q) /\ i \in 1..Len(q)
      /\ DOMAIN t = 1..Len(q) - 1
  BY <1>1, LenProperties, Zenon
<1>3. \A j \in DOMAIN t : t[j] = q[IF j < i THEN j ELSE j + 1]
  BY <1>1, <1>2, Zenon
<1>4. IsInjective(t)
  <2>1. SUFFICES ASSUME NEW j \in DOMAIN t, NEW k \in DOMAIN t, t[j] = t[k]
                 PROVE  j = k
    BY Zenon DEF IsInjective
  <2>2. (IF j < i THEN j ELSE j + 1) = (IF k < i THEN k ELSE k + 1)
    BY <1>2, <1>3, <2>1 DEF IsInjective
  <2> QED BY <1>2, <2>2
<1>5. Range(t) \subseteq Range(q) \ {q[i]}
  <2>1. SUFFICES ASSUME NEW j \in DOMAIN t
                 PROVE  t[j] \in Range(q) /\ t[j] # q[i]
    BY Zenon DEF Range
  <2>2. (IF j < i THEN j ELSE j + 1) \in DOMAIN q \ {i}
    BY <1>2
  <2> QED BY <1>3, <2>2, Zenon DEF Range, IsInjective
<1>6. Range(q) \ {q[i]} \subseteq Range(t)
  <2>1. SUFFICES ASSUME NEW k \in DOMAIN q, q[k] # q[i]
                 PROVE  q[k] \in Range(t)
    BY Zenon DEF Range
  <2>2. CASE k < i
    <3>1. k \in DOMAIN t /\ t[k] = q[k]
      BY <1>1, <1>2, <2>2
    <3> QED BY <3>1, Zenon DEF Range
  <2>3. CASE ~ (k < i)
    <3>1. k - 1 \in 1..Len(q) - 1 /\ ~ (k - 1 < i) /\ (k - 1) + 1 = k
      BY <1>2, <2>1, <2>3
    <3>2. k - 1 \in DOMAIN t /\ t[k - 1] = q[k]
      BY <1>1, <1>2, <3>1, Zenon
    <3> QED BY <3>2, Zenon DEF Range
  <2> QED BY <2>2, <2>3, Zenon
<1> QED BY <1>4, <1>5, <1>6, Zenon DEF t

\* The same for pop_front.
LEMMA TailDistinct ==
  ASSUME NEW S, NEW q \in Seq(S), q # <<>>, IsInjective(q)
  PROVE  /\ IsInjective(Tail(q))
         /\ Range(Tail(q)) = Range(q) \ {Head(q)}
         /\ Head(q) \in Range(q)
<1>1. /\ Len(q) \in Nat \ {0} /\ DOMAIN q = 1..Len(q) /\ Head(q) = q[1]
      /\ Tail(q) \in Seq(S) /\ Len(Tail(q)) = Len(q) - 1
      /\ DOMAIN Tail(q) = 1..Len(q) - 1
      /\ \A j \in 1..Len(q) - 1 : Tail(q)[j] = q[j + 1]
  BY EmptySeq, LenProperties, HeadTailProperties
<1>2. IsInjective(Tail(q))
  BY <1>1 DEF IsInjective
<1>3. Range(Tail(q)) \subseteq Range(q) \ {q[1]}
  BY <1>1 DEF Range, IsInjective
<1>4. Range(q) \ {q[1]} \subseteq Range(Tail(q))
  <2>1. SUFFICES ASSUME NEW k \in DOMAIN q, q[k] # q[1]
                 PROVE  q[k] \in Range(Tail(q))
    BY Zenon DEF Range
  <2>2. k - 1 \in 1..Len(q) - 1 /\ (k - 1) + 1 = k
    BY <1>1, <2>1
  <2>3. k - 1 \in DOMAIN Tail(q) /\ Tail(q)[k - 1] = q[k]
    BY <1>1, <2>2, Zenon
  <2> QED BY <2>3, Zenon DEF Range
<1> QED BY <1>1, <1>2, <1>3, <1>4 DEF Range

\* push_back of something new.
LEMMA AppendDistinct ==
  ASSUME NEW S, NEW q \in Seq(S), NEW e \in S
  PROVE  /\ Range(Append(q, e)) = Range(q) \cup {e}
         /\ IsInjective(q) /\ e \notin Range(q) => IsInjective(Append(q, e))
<1>1. /\ Len(q) \in Nat /\ DOMAIN q = 1..Len(q)
      /\ DOMAIN Append(q, e) = 1..Len(q) + 1
      /\ \A i \in 1..Len(q) : Append(q, e)[i] = q[i]
      /\ Append(q, e)[Len(q) + 1] = e
  BY LenProperties, AppendProperties
<1>2. Range(Append(q, e)) = Range(q) \cup {e}
  BY <1>1 DEF Range
<1>3. ASSUME IsInjective(q), e \notin Range(q)
      PROVE  IsInjective(Append(q, e))
  <2>1. \A i \in 1..Len(q) : q[i] # e
    BY <1>1, <1>3, Zenon DEF Range
  <2> QED BY <1>1, <1>3, <2>1 DEF IsInjective
<1> QED BY <1>2, <1>3, Zenon

-----------------------------------------------------------------------------
(* Type correctness.                                                       *)

LEMMA ZeroedOpType == ZeroedOp \in OpRecord
BY EndpointAssumption DEF ZeroedOp, OpRecord, OpTypes, Rets, NoMsg

\* The assignments the handlers make keep the fields of an op, of a request and
\* of a completion in their types.
LEMMA FilledOpType ==
  ASSUME NEW r \in OpRecord
  PROVE  /\ \A type \in SendTypes, tag \in Tags : Sending(r, type, tag) \in OpRecord
         /\ Putting(r) \in OpRecord
         /\ \A type \in RecvTypes, addr \in Peers \cup {AnySource}, tag \in Tags :
              Receiving(r, type, addr, tag) \in OpRecord
         /\ \A key \in Keys, id \in 1..MaxGets : Getting(r, key, id) \in OpRecord
         /\ \A m \in 1..MaxMsgs : Received(r, m) \in OpRecord
         /\ [r EXCEPT !.ret = "CANCELED"] \in OpRecord
<1>1. /\ \A type \in SendTypes, tag \in Tags : Sending(r, type, tag) \in OpRecord
      /\ Putting(r) \in OpRecord
  BY Zenon DEF OpRecord, OpTypes, SendTypes, Sending, Putting
<1>2. \A type \in RecvTypes, addr \in Peers \cup {AnySource}, tag \in Tags :
        Receiving(r, type, addr, tag) \in OpRecord
  BY Zenon DEF OpRecord, OpTypes, RecvTypes, Receiving
<1>3. ASSUME NEW key \in Keys, NEW id \in 1..MaxGets PROVE Getting(r, key, id) \in OpRecord
  <2>1. id \in 0..MaxGets /\ "GET" \in OpTypes
    BY DEF OpTypes
  <2> QED BY <2>1, Zenon DEF OpRecord, Getting
<1>4. ASSUME NEW m \in 1..MaxMsgs PROVE Received(r, m) \in OpRecord
  <2>1. m \in 0..MaxMsgs /\ "SUCCESS" \in Rets
    BY DEF Rets
  <2> QED BY <2>1, Zenon DEF OpRecord, Received
<1>5. [r EXCEPT !.ret = "CANCELED"] \in OpRecord
  BY Zenon DEF OpRecord, Rets
<1> QED BY <1>1, <1>2, <1>3, <1>4, <1>5, Zenon

LEMMA CompletedType ==
  ASSUME NEW r \in OpRecord, NEW c \in CompletionItem
  PROVE  Completed(r, c) \in OpRecord
BY Zenon DEF OpRecord, CompletionItem, Completed

LEMMA GetRequestType ==
  /\ \A id \in 1..MaxGets, o \in Ops, key \in Keys, n \in 0..MaxAnswers :
       NewGet(id, o, key, n) \in GetRequest
  /\ \A g \in GetRequest :
       /\ WriteOver(g) \in GetRequest
       /\ g.answers > 0 => Answered(g) \in GetRequest
       /\ g.op \in Ops /\ g.key \in Keys /\ g.id \in 1..MaxGets
<1>1. ASSUME NEW id \in 1..MaxGets, NEW o \in Ops, NEW key \in Keys, NEW n \in 0..MaxAnswers
      PROVE  NewGet(id, o, key, n) \in GetRequest
  BY Zenon DEF GetRequest, NewGet
<1>2. ASSUME NEW g \in GetRequest
      PROVE  /\ WriteOver(g) \in GetRequest
             /\ g.op \in Ops /\ g.key \in Keys /\ g.id \in 1..MaxGets
  BY Zenon DEF GetRequest, WriteOver
<1>3. ASSUME NEW g \in GetRequest, g.answers > 0 PROVE Answered(g) \in GetRequest
  <2>1. g.answers - 1 \in 0..MaxAnswers
    BY <1>3, EndpointAssumption DEF GetRequest
  <2> QED BY <2>1, Zenon DEF GetRequest, Answered
<1> QED BY <1>1, <1>2, <1>3, Zenon

LEMMA ItemType ==
  /\ \A o \in Ops, result \in Rets, m \in 1..MaxMsgs : Item(o, result, m) \in CompletionItem
  /\ \A o \in Ops, result \in Rets : Item(o, result, NoMsg) \in CompletionItem
  /\ \A c \in CompletionItem : c.op \in Ops /\ c.result \in Rets /\ c.msg \in 0..MaxMsgs
BY EndpointAssumption DEF CompletionItem, Item, NoMsg

LEMMA UpdateType ==
  ASSUME gets \subseteq GetRequest, NEW g \in gets, NEW h \in GetRequest, Update(g, h)
  PROVE  gets' \subseteq GetRequest
BY Zenon DEF Update

LEMMA TypeStep == TypeOK /\ [Next]_vars => TypeOK'
<1> SUFFICES ASSUME TypeOK, [Next]_vars PROVE TypeOK'
  BY Zenon
<1> USE EndpointAssumption
<1>0. \A o \in Ops : op[o] \in OpRecord
  BY Zenon DEF TypeOK
<1>1. ASSUME NEW o \in Ops, OpCreate(o) PROVE TypeOK'
  BY <1>1, ZeroedOpType, Zenon DEF TypeOK, OpCreate, recvVars, rmaVars, doneVars, userVars
<1>2. ASSUME NEW o \in Ops, OpDestroy(o) PROVE TypeOK'
  BY <1>2, Zenon DEF TypeOK, OpDestroy, recvVars, rmaVars, doneVars, userVars
<1>3. ASSUME NEW o \in Ops, NEW type \in {"SEND_UNEXPECTED", "SEND_EXPECTED"}, NEW tag \in Tags,
             MsgSend(o, type, tag)
      PROVE  TypeOK'
  <2>1. Sending(op[o], type, tag) \in OpRecord
    BY <1>0, FilledOpType, Zenon DEF SendTypes
  <2> QED BY <1>3, <2>1, Zenon DEF TypeOK, MsgSend, Post, recvVars, rmaVars, doneVars, userVars
<1>4. ASSUME NEW o \in Ops, Put(o) PROVE TypeOK'
  <2>1. Putting(op[o]) \in OpRecord
    BY <1>0, FilledOpType, Zenon
  <2> QED BY <1>4, <2>1, Zenon DEF TypeOK, Put, Post, recvVars, rmaVars, doneVars, userVars
<1>5. ASSUME NEW o \in Ops, MsgRecvUnexpected(o) PROVE TypeOK'
  <2> DEFINE posted == Receiving(op[o], "RECV_UNEXPECTED", AnySource, op[o].tag)
  <2>1. posted \in OpRecord
    <3>1. op[o].tag \in Tags
      BY <1>0, Zenon DEF OpRecord
    <3> QED BY <1>0, <3>1, FilledOpType, Zenon DEF RecvTypes
  <2>2. CASE unexpected_msg_stash # <<>>
    <3>1. /\ Head(unexpected_msg_stash) \in 1..MaxMsgs
          /\ Tail(unexpected_msg_stash) \in Seq(1..MaxMsgs)
      BY <2>2, HeadTailProperties, Zenon DEF TypeOK
    <3>2. Received(posted, Head(unexpected_msg_stash)) \in OpRecord
      BY <2>1, <3>1, FilledOpType, Zenon
    <3>3. CompletionAdd(o)
      BY <1>5, <2>2, Zenon DEF MsgRecvUnexpected
    <3>4. completion_queue' \in Seq(Ops)
      BY <3>3 DEF TypeOK, CompletionAdd
    <3> HIDE DEF posted
    <3> QED BY <1>5, <2>2, <3>1, <3>2, <3>4, Zenon
            DEF TypeOK, MsgRecvUnexpected, Post, rmaVars, userVars, posted
  <2>3. CASE unexpected_msg_stash = <<>>
    <3>1. unexpected_recv_ops' = Append(unexpected_recv_ops, o)
      BY <1>5, <2>3, Zenon DEF MsgRecvUnexpected
    <3>2. unexpected_recv_ops' \in Seq(Ops)
      BY <3>1 DEF TypeOK
    <3> QED BY <1>5, <2>1, <2>3, <3>2, Zenon DEF TypeOK, MsgRecvUnexpected, Post, rmaVars, userVars
  <2> QED BY <2>2, <2>3, Zenon
<1>6. ASSUME NEW o \in Ops, NEW addr \in Peers \cup {AnySource}, NEW tag \in Tags,
             MsgRecvExpected(o, addr, tag)
      PROVE  TypeOK'
  <2> DEFINE posted == Receiving(op[o], "RECV_EXPECTED", addr, tag)
  <2>1. posted \in OpRecord
    BY <1>0, FilledOpType, Zenon DEF RecvTypes
  <2>2. ASSUME NEW i \in DOMAIN expected_msg_stash,
               expected_msg_stash' = Take(expected_msg_stash, i),
               source_addrs' = FreeAddr(source_addrs, expected_msg_stash[i]),
               op' = [op EXCEPT ![o] = Received(posted, expected_msg_stash[i])],
               CompletionAdd(o),
               UNCHANGED expected_recv_ops
        PROVE  TypeOK'
    <3>1. /\ expected_msg_stash[i] \in 1..MaxMsgs
          /\ Take(expected_msg_stash, i) \in Seq(1..MaxMsgs)
      BY TakeProperties, ElementOfSeq, LenProperties, Zenon DEF TypeOK
    <3>2. Received(posted, expected_msg_stash[i]) \in OpRecord
      BY <2>1, <3>1, FilledOpType, Zenon
    <3>3. completion_queue' \in Seq(Ops)
      <4>1. completion_queue' = Append(completion_queue, o)
        BY <2>2, Zenon DEF CompletionAdd
      <4> QED BY <4>1 DEF TypeOK
    <3>4. op' \in [Ops -> OpRecord]
      BY <2>2, <3>2, Zenon DEF TypeOK
    <3>5. source_addrs' \subseteq 1..MaxMsgs
      BY <2>2, Zenon DEF TypeOK, FreeAddr
    <3> HIDE DEF posted
    <3> QED BY <1>6, <2>2, <3>1, <3>3, <3>4, <3>5, Zenon DEF TypeOK, MsgRecvExpected, Post, rmaVars
  <2>3. ASSUME op' = [op EXCEPT ![o] = posted],
               expected_recv_ops' = Append(expected_recv_ops, o),
               UNCHANGED <<expected_msg_stash, source_addrs, completion_queue>>
        PROVE  TypeOK'
    <3>1. expected_recv_ops' \in Seq(Ops)
      BY <2>3 DEF TypeOK
    <3>2. op' \in [Ops -> OpRecord]
      BY <2>1, <2>3, Zenon DEF TypeOK
    <3> QED BY <1>6, <2>3, <3>1, <3>2, Zenon DEF TypeOK, MsgRecvExpected, Post, rmaVars
  <2> QED BY <1>6, <2>2, <2>3, Zenon DEF MsgRecvExpected
<1>7. ASSUME NEW o \in Ops, NEW key \in Keys, Get(o, key) PROVE TypeOK'
  <2>1. ngets + 1 \in 1..MaxGets /\ ngets + 1 \in 0..MaxGets
    BY <1>7 DEF TypeOK, Get
  <2>2. Getting(op[o], key, ngets + 1) \in OpRecord
    BY <1>0, <2>1, FilledOpType, Zenon
  <2>3. gets' \subseteq GetRequest
    <3>1. PICK n \in 0..MaxAnswers : gets' = gets \cup {NewGet(ngets + 1, o, key, n)}
      BY <1>7, Zenon DEF Get
    <3>2. NewGet(ngets + 1, o, key, n) \in GetRequest
      BY <2>1, GetRequestType, Zenon
    <3> QED BY <3>1, <3>2, Zenon DEF TypeOK
  <2>4. pending_rma_ops' = Append(pending_rma_ops, o)
    BY <1>7, Zenon DEF Get
  <2>5. pending_rma_ops' \in Seq(Ops)
    BY <2>4 DEF TypeOK
  <2> QED BY <1>7, <2>1, <2>2, <2>3, <2>5, Zenon DEF TypeOK, Get, Post, recvVars, doneVars, userVars
<1>8. ASSUME NEW o \in Ops, Cancel(o) PROVE TypeOK'
  <2>1. \A q \in Seq(Ops) : \A i \in DOMAIN q : Take(q, i) \in Seq(Ops)
    BY TakeProperties, Zenon
  <2>2. /\ unexpected_recv_ops' \in Seq(Ops) /\ expected_recv_ops' \in Seq(Ops)
        /\ pending_rma_ops' \in Seq(Ops)
    BY <1>8, <2>1, Zenon DEF TypeOK, Cancel
  <2>3. op' \in [Ops -> OpRecord] /\ completion_queue' \in Seq(Ops)
    <3>1. Canceled(o)
      BY <1>8, Zenon DEF Cancel
    <3>2. [op[o] EXCEPT !.ret = "CANCELED"] \in OpRecord
      BY <1>0, FilledOpType, Zenon
    <3> QED BY <3>1, <3>2 DEF TypeOK, Canceled, CompletionAdd
  <2> QED BY <1>8, <2>2, <2>3, Zenon DEF TypeOK, Cancel, userVars
<1>9. ASSUME NEW o \in Ops, NEW result \in {"SUCCESS", "PROTOCOL_ERROR"}, SendDone(o, result)
      PROVE  TypeOK'
  <2>1. Item(o, result, NoMsg) \in CompletionItem
    BY ItemType, Zenon DEF Rets
  <2>2. completions' \in Seq(CompletionItem)
    BY <1>9, <2>1 DEF TypeOK, SendDone, CompletionSend
  <2> QED BY <1>9, <2>2, Zenon DEF TypeOK, SendDone, opVars, recvVars, rmaVars, userVars
<1>10. ASSUME NEW src \in Peers, NEW tag \in Tags, HandleUnexpectedMsg(src, tag) PROVE TypeOK'
  <2>1. /\ NewAddr \in 1..MaxMsgs
        /\ arrived' \in Seq(Message) /\ source_addrs' \subseteq 1..MaxMsgs
    <3>1. NewAddr \in 1..MaxMsgs
      BY <1>10 DEF TypeOK, HandleUnexpectedMsg, NewAddr
    <3>2. arrived' = Append(arrived, [kind |-> "unexpected", src |-> src, tag |-> tag])
      BY <1>10, Zenon DEF HandleUnexpectedMsg
    <3>3. arrived' \in Seq(Message)
      BY <3>2 DEF TypeOK, Message, Kinds
    <3>4. source_addrs' \subseteq 1..MaxMsgs
      BY <1>10, <3>1, Zenon DEF TypeOK, HandleUnexpectedMsg
    <3> QED BY <3>1, <3>3, <3>4, Zenon
  <2>2. CASE unexpected_recv_ops # <<>>
    <3>1. Head(unexpected_recv_ops) \in Ops /\ Tail(unexpected_recv_ops) \in Seq(Ops)
      BY <2>2, HeadTailProperties, Zenon DEF TypeOK
    <3>2. Item(Head(unexpected_recv_ops), "SUCCESS", NewAddr) \in CompletionItem
      BY <2>1, <3>1, ItemType, Zenon DEF Rets
    <3>3. CompletionSend(Head(unexpected_recv_ops), "SUCCESS", NewAddr)
      BY <1>10, <2>2, Zenon DEF HandleUnexpectedMsg
    <3>4. completions' \in Seq(CompletionItem)
      BY <3>2, <3>3 DEF TypeOK, CompletionSend
    <3> QED BY <1>10, <2>1, <2>2, <3>1, <3>4, Zenon DEF TypeOK, HandleUnexpectedMsg, opVars, rmaVars
  <2>3. CASE unexpected_recv_ops = <<>>
    <3>1. unexpected_msg_stash' = Append(unexpected_msg_stash, NewAddr)
      BY <1>10, <2>3, Zenon DEF HandleUnexpectedMsg
    <3>2. unexpected_msg_stash' \in Seq(1..MaxMsgs)
      BY <2>1, <3>1 DEF TypeOK
    <3> QED BY <1>10, <2>1, <2>3, <3>2, Zenon DEF TypeOK, HandleUnexpectedMsg, opVars, rmaVars
  <2> QED BY <2>2, <2>3, Zenon
<1>11. ASSUME NEW src \in Peers, NEW tag \in Tags, HandleExpectedMsg(src, tag) PROVE TypeOK'
  <2>1. /\ NewAddr \in 1..MaxMsgs
        /\ arrived' \in Seq(Message) /\ source_addrs' \subseteq 1..MaxMsgs
    <3>1. NewAddr \in 1..MaxMsgs
      BY <1>11 DEF TypeOK, HandleExpectedMsg, NewAddr
    <3>2. arrived' = Append(arrived, [kind |-> "expected", src |-> src, tag |-> tag])
      BY <1>11, Zenon DEF HandleExpectedMsg
    <3>3. arrived' \in Seq(Message)
      BY <3>2 DEF TypeOK, Message, Kinds
    <3>4. source_addrs' \subseteq 1..MaxMsgs
      BY <1>11, <3>1, Zenon DEF TypeOK, HandleExpectedMsg
    <3> QED BY <3>1, <3>3, <3>4, Zenon
  <2>2. ASSUME NEW i \in DOMAIN expected_recv_ops,
               expected_recv_ops' = Take(expected_recv_ops, i),
               CompletionSend(expected_recv_ops[i], "SUCCESS", NewAddr),
               UNCHANGED expected_msg_stash
        PROVE  TypeOK'
    <3>1. expected_recv_ops[i] \in Ops /\ expected_recv_ops' \in Seq(Ops)
      BY <2>2, TakeProperties, ElementOfSeq, LenProperties, Zenon DEF TypeOK
    <3>2. Item(expected_recv_ops[i], "SUCCESS", NewAddr) \in CompletionItem
      BY <2>1, <3>1, ItemType, Zenon DEF Rets
    <3>3. completions' \in Seq(CompletionItem)
      BY <2>2, <3>2 DEF TypeOK, CompletionSend
    <3> QED BY <1>11, <2>1, <2>2, <3>1, <3>3, Zenon DEF TypeOK, HandleExpectedMsg, opVars, rmaVars
  <2>3. ASSUME expected_msg_stash' = Append(expected_msg_stash, NewAddr),
               UNCHANGED <<expected_recv_ops, completions>>
        PROVE  TypeOK'
    <3>1. expected_msg_stash' \in Seq(1..MaxMsgs)
      BY <2>1, <2>3 DEF TypeOK
    <3> QED BY <1>11, <2>1, <2>3, <3>1, Zenon DEF TypeOK, HandleExpectedMsg, opVars, rmaVars
  <2> QED BY <1>11, <2>2, <2>3, Zenon DEF HandleExpectedMsg
<1>12. ASSUME NEW g \in gets, GetWritten(g) PROVE TypeOK'
  <2>1. gets' \subseteq GetRequest
    BY <1>12, GetRequestType, UpdateType, Zenon DEF TypeOK, GetWritten
  <2> QED BY <1>12, <2>1, Zenon DEF TypeOK, GetWritten, opVars, recvVars, doneVars, userVars
<1>13. ASSUME NEW g \in gets, GetWriteFailed(g) PROVE TypeOK'
  <2>1. gets' \subseteq GetRequest
    BY <1>13, GetRequestType, UpdateType, Zenon DEF TypeOK, GetWriteFailed
  <2>2. Item(g.op, "PROTOCOL_ERROR", NoMsg) \in CompletionItem
    BY GetRequestType, ItemType, Zenon DEF TypeOK, Rets
  <2> QED BY <1>13, <2>1, <2>2, SMTT(30)
          DEF TypeOK, GetWriteFailed, CompletionSend, opVars, recvVars, userVars
<1>14. ASSUME NEW g \in gets, HandleRmaGetResponse(g) PROVE TypeOK'
  <2>1. g.key \in Keys /\ g.id \in 0..MaxGets
    BY GetRequestType, SMTT(30) DEF TypeOK
  <2>2. gets' \subseteq GetRequest
    BY <1>14, GetRequestType, UpdateType, Zenon DEF TypeOK, HandleRmaGetResponse
  <2>3. ASSUME NEW i \in DOMAIN pending_rma_ops,
               pending_rma_ops' = Take(pending_rma_ops, i),
               mem' = [mem EXCEPT ![g.key] = g.id],
               CompletionSend(pending_rma_ops[i], "SUCCESS", NoMsg)
        PROVE  TypeOK'
    <3>1. pending_rma_ops[i] \in Ops /\ pending_rma_ops' \in Seq(Ops)
      BY <2>3, TakeProperties, ElementOfSeq, LenProperties, Zenon DEF TypeOK
    <3>2. Item(pending_rma_ops[i], "SUCCESS", NoMsg) \in CompletionItem
      BY <3>1, ItemType, Zenon DEF Rets
    <3>3. completions' \in Seq(CompletionItem)
      BY <2>3, <3>2 DEF TypeOK, CompletionSend
    <3> QED BY <1>14, <2>1, <2>2, <2>3, <3>1, <3>3, Zenon
            DEF TypeOK, HandleRmaGetResponse, opVars, recvVars, userVars
  <2>4. ASSUME UNCHANGED <<pending_rma_ops, mem, completions>>
        PROVE  TypeOK'
    BY <1>14, <2>2, <2>4, Zenon DEF TypeOK, HandleRmaGetResponse, opVars, recvVars, userVars
  <2> QED BY <1>14, <2>3, <2>4, Zenon DEF HandleRmaGetResponse
<1>15. CASE Poll
  <2> DEFINE c == Head(completions)
  <2>1. c \in CompletionItem /\ Tail(completions) \in Seq(CompletionItem)
    BY <1>15, HeadTailProperties, Zenon DEF TypeOK, Poll
  <2>2. c.op \in Ops /\ Completed(op[c.op], c) \in OpRecord
    BY <1>0, <2>1, ItemType, CompletedType, Zenon
  <2>3. CompletionAdd(c.op) /\ op' = [op EXCEPT ![c.op] = Completed(op[c.op], c)]
    BY <1>15, Zenon DEF Poll
  <2>4. completion_queue' \in Seq(Ops) /\ op' \in [Ops -> OpRecord]
    BY <2>2, <2>3 DEF TypeOK, CompletionAdd
  <2>5. source_addrs' \subseteq 1..MaxMsgs
    BY <1>15, Zenon DEF TypeOK, Poll, FreeAddr
  <2> QED BY <1>15, <2>1, <2>4, <2>5, Zenon DEF TypeOK, Poll, recvVars, rmaVars
<1>16. CASE Trigger
  <2> DEFINE o == Head(completion_queue)
  <2>1. o \in Ops /\ Tail(completion_queue) \in Seq(Ops)
    BY <1>16, HeadTailProperties, Zenon DEF TypeOK, Trigger
  <2>2. op[o].msg \in 0..MaxMsgs
    BY <1>0, <2>1, Zenon DEF OpRecord
  <2> QED BY <1>16, <2>1, <2>2, Zenon DEF TypeOK, Trigger, Released, recvVars, rmaVars
<1>17. ASSUME NEW m \in user_addrs, AddrFree(m) PROVE TypeOK'
  BY <1>17, Zenon DEF TypeOK, AddrFree, FreeAddr, opVars, recvVars, rmaVars, doneVars
<1>18. CASE UNCHANGED vars
  BY <1>18, Zenon DEF TypeOK, vars, opVars, recvVars, rmaVars, doneVars, userVars
<1> QED
  BY <1>1, <1>2, <1>3, <1>4, <1>5, <1>6, <1>7, <1>8, <1>9, <1>10, <1>11, <1>12, <1>13,
     <1>14, <1>15, <1>16, <1>17, <1>18
  DEF Next, OpStep

\* Every state the endpoint reaches has the types of TypeOK: in particular no
\* handler takes an element from outside a queue, and the messages and the gets
\* stay within their numbering.
THEOREM TypeCorrect == Spec => []TypeOK
<1>1. Init => TypeOK
  BY EndpointAssumption, ZeroedOpType DEF Init, TypeOK, NoMsg
<1> QED BY <1>1, TypeStep, PTL DEF Spec

-----------------------------------------------------------------------------
(* One holder per operation.  The queues and the channel are handled as    *)
(* sets of operations from here on; TakeDistinct, TailDistinct,            *)
(* AppendDistinct and the two lemmas below say what a step does to them.   *)

LEMMA ItemFields ==
  ASSUME NEW o, NEW result, NEW m
  PROVE  Item(o, result, m).op = o
BY Zenon DEF Item

LEMMA SendDistinct ==
  ASSUME NEW items \in Seq(CompletionItem), NEW c \in CompletionItem
  PROVE  /\ ItemOps(Append(items, c)) = ItemOps(items) \cup {c.op}
         /\ DistinctOps(items) /\ c.op \notin ItemOps(items) => DistinctOps(Append(items, c))
<1>1. /\ Len(items) \in Nat /\ DOMAIN items = 1..Len(items)
      /\ DOMAIN Append(items, c) = 1..Len(items) + 1
      /\ \A i \in 1..Len(items) : Append(items, c)[i] = items[i]
      /\ Append(items, c)[Len(items) + 1] = c
  BY LenProperties, AppendProperties
<1>2. ItemOps(Append(items, c)) = ItemOps(items) \cup {c.op}
  BY AppendDistinct DEF ItemOps
<1>3. ASSUME DistinctOps(items), c.op \notin ItemOps(items),
             NEW i \in DOMAIN Append(items, c), NEW j \in DOMAIN Append(items, c),
             Append(items, c)[i].op = Append(items, c)[j].op
      PROVE  i = j
  <2>1. \A k \in 1..Len(items) : items[k].op # c.op
    BY <1>1, <1>3, Zenon DEF ItemOps, Range
  <2>2. CASE i \in 1..Len(items) /\ j \in 1..Len(items)
    BY <1>1, <1>3, <2>2, Zenon DEF DistinctOps
  <2> HIDE DEF DistinctOps
  <2>3. CASE ~ (i \in 1..Len(items) /\ j \in 1..Len(items))
    BY <1>1, <1>3, <2>1, <2>3
  <2> QED BY <2>2, <2>3, Zenon
<1> QED BY <1>2, <1>3, Zenon DEF DistinctOps

LEMMA ReceiveDistinct ==
  ASSUME NEW items \in Seq(CompletionItem), items # <<>>, DistinctOps(items)
  PROVE  /\ ItemOps(Tail(items)) = ItemOps(items) \ {Head(items).op}
         /\ Head(items).op \in ItemOps(items)
         /\ DistinctOps(Tail(items))
<1>1. /\ Len(items) \in Nat \ {0} /\ DOMAIN items = 1..Len(items) /\ Head(items) = items[1]
      /\ Len(Tail(items)) = Len(items) - 1
      /\ DOMAIN Tail(items) = 1..Len(items) - 1
      /\ \A j \in 1..Len(items) - 1 : Tail(items)[j] = items[j + 1]
  BY HeadTailProperties, LenProperties, EmptySeq
<1>2. \A o : o \in ItemOps(items) <=> \E j \in 1..Len(items) : items[j].op = o
  BY <1>1, ZenonT(30) DEF ItemOps, Range
<1>3. \A o : o \in ItemOps(Tail(items)) <=> \E j \in 1..Len(items) - 1 : items[j + 1].op = o
  <2> DEFINE t == Tail(items)
  <2>1. /\ DOMAIN t = 1..Len(items) - 1
        /\ \A j \in 1..Len(items) - 1 : t[j] = items[j + 1]
    BY <1>1, Zenon
  <2> HIDE DEF t
  <2>2. \A o : o \in ItemOps(t) <=> \E j \in 1..Len(items) - 1 : items[j + 1].op = o
    BY <2>1, Zenon DEF ItemOps, Range
  <2> QED BY <2>2, Zenon DEF t
<1>4. \A j \in 1..Len(items) - 1 : items[j + 1].op # items[1].op
  BY <1>1 DEF DistinctOps
<1>5. \A k \in 1..Len(items) : k = 1 \/ (k - 1 \in 1..Len(items) - 1 /\ (k - 1) + 1 = k)
  BY <1>1
<1>6. \A o : o \in ItemOps(Tail(items)) <=> o \in ItemOps(items) /\ o # items[1].op
  <2>1. ASSUME NEW o, o \in ItemOps(Tail(items)) PROVE o \in ItemOps(items) /\ o # items[1].op
    <3>1. PICK j \in 1..Len(items) - 1 : items[j + 1].op = o
      BY <1>3, <2>1, Zenon
    <3>2. j + 1 \in 1..Len(items)
      BY <1>1
    <3> QED BY <1>2, <1>4, <3>1, <3>2, Zenon
  <2>2. ASSUME NEW o, o \in ItemOps(items), o # items[1].op PROVE o \in ItemOps(Tail(items))
    <3>1. PICK k \in 1..Len(items) : items[k].op = o
      BY <1>2, <2>2, Zenon
    <3>2. k - 1 \in 1..Len(items) - 1 /\ (k - 1) + 1 = k
      BY <1>5, <2>2, <3>1, Zenon
    <3> QED BY <1>3, <3>1, <3>2, Zenon
  <2> QED BY <2>1, <2>2, Zenon
<1>7. DistinctOps(Tail(items))
  <2>1. SUFFICES ASSUME NEW i \in 1..Len(items) - 1, NEW j \in 1..Len(items) - 1,
                        items[i + 1].op = items[j + 1].op
                 PROVE  i = j
    BY <1>1 DEF DistinctOps
  <2>2. i + 1 \in DOMAIN items /\ j + 1 \in DOMAIN items
    BY <1>1
  <2>3. i + 1 = j + 1
    BY <2>1, <2>2, Zenon DEF DistinctOps
  <2> QED BY <2>3
<1>8. Head(items).op \in ItemOps(items)
  BY <1>1, <1>2
<1> QED BY <1>1, <1>6, <1>7, <1>8, Zenon

LEMMA FilledOpFields ==
  ASSUME NEW r \in OpRecord
  PROVE  /\ \A type \in SendTypes, tag \in Tags : Sending(r, type, tag).type = type
         /\ Putting(r).type = "PUT"
         /\ \A type \in RecvTypes, addr \in Peers \cup {AnySource}, tag \in Tags :
              Receiving(r, type, addr, tag).type = type
         /\ \A key \in Keys, id \in 1..MaxGets : Getting(r, key, id).type = "GET"
         /\ \A m : Received(r, m).type = r.type
         /\ \A c : Completed(r, c).type = r.type
         /\ [r EXCEPT !.ret = "CANCELED"].type = r.type
BY Zenon DEF OpRecord, Sending, Putting, Receiving, Getting, Received, Completed

\* The queues stay typed when only ops that enter a queue, and ops that wait
\* nowhere, change their type.
LEMMA RightQueueKept ==
  ASSUME TypeOK, RightQueue,
         \A o \in Ops : op'[o].type = op[o].type \/ o \notin Waiting,
         \A o \in Range(unexpected_recv_ops') :
           o \in Range(unexpected_recv_ops) \/ op'[o].type = "RECV_UNEXPECTED",
         \A o \in Range(expected_recv_ops') :
           o \in Range(expected_recv_ops) \/ op'[o].type = "RECV_EXPECTED",
         \A o \in Range(pending_rma_ops') :
           o \in Range(pending_rma_ops) \/ op'[o].type = "GET",
         \A o \in sends' : o \in sends \/ op'[o].type \in SendTypes
  PROVE  RightQueue'
<1>1. Waiting \subseteq Ops
  <2>1. ASSUME NEW q \in Seq(Ops) PROVE Range(q) \subseteq Ops
    BY RangeOfSeq, Zenon
  <2> QED BY <2>1, Zenon DEF TypeOK, Waiting
<1>2. \A o \in Waiting : op'[o].type = op[o].type
  BY <1>1, Zenon
<1> QED BY <1>2, Zenon DEF RightQueue, Waiting

\* The four waiting places have no operation in common.
LEMMA WaitingPlaces ==
  ASSUME RightQueue
  PROVE  /\ Range(unexpected_recv_ops) \cap (Range(expected_recv_ops) \cup Range(pending_rma_ops) \cup sends) = {}
         /\ Range(expected_recv_ops) \cap (Range(pending_rma_ops) \cup sends) = {}
         /\ Range(pending_rma_ops) \cap sends = {}
BY Zenon DEF RightQueue, SendTypes

LEMMA Posted ==
  ASSUME TypeOK, SingleHolder, NEW o \in Ops, Post(o)
  PROVE  /\ o \notin Waiting /\ o \notin InChannel /\ o \notin InQueue
         /\ Busy' = Busy \cup {o}
<1>1. o \notin Busy /\ Busy' = Busy \cup {o}
  BY Zenon DEF TypeOK, Post, Busy
<1> QED BY <1>1, Zenon DEF SingleHolder

LEMMA HolderStep ==
  ASSUME ~ GetWriteMayFail, TypeOK, SingleHolder, [Next]_vars
  PROVE  SingleHolder'
<1>0. /\ RightQueue /\ NoDuplicates
      /\ \A o \in Ops : op[o] \in OpRecord
  BY Zenon DEF SingleHolder, TypeOK
<1>1. ASSUME NEW o \in Ops, OpCreate(o) \/ OpDestroy(o) PROVE SingleHolder'
  <2>1. /\ o \notin Busy /\ Busy' = Busy
        /\ \A p \in Ops : p # o => op'[p] = op[p]
    BY <1>1, ZeroedOpType, Zenon DEF TypeOK, OpCreate, OpDestroy, Busy
  <2>2. UNCHANGED <<unexpected_recv_ops, expected_recv_ops, pending_rma_ops, sends,
                    completions, completion_queue>>
    BY <1>1, Zenon DEF OpCreate, OpDestroy, recvVars, rmaVars, doneVars
  <2>3. o \notin Waiting
    BY <2>1, Zenon DEF SingleHolder
  <2>4. RightQueue'
    BY <1>0, <2>1, <2>2, <2>3, RightQueueKept, Zenon
  <2>5. NoDuplicates'
    BY <1>0, <2>2, Zenon DEF NoDuplicates
  <2> QED BY <2>1, <2>2, <2>4, <2>5, Zenon DEF SingleHolder, Waiting, InChannel, InQueue
<1>2. ASSUME NEW o \in Ops,
             (\E type \in {"SEND_UNEXPECTED", "SEND_EXPECTED"}, tag \in Tags : MsgSend(o, type, tag)) \/ Put(o)
      PROVE  SingleHolder'
  <2>1. /\ Post(o) /\ sends' = sends \cup {o}
        /\ UNCHANGED <<unexpected_recv_ops, expected_recv_ops, pending_rma_ops,
                       completions, completion_queue>>
    BY <1>2, Zenon DEF MsgSend, Put, recvVars, rmaVars, doneVars
  <2>2. PICK r \in OpRecord : r.type \in SendTypes /\ op' = [op EXCEPT ![o] = r]
    <3>1. ASSUME NEW type \in {"SEND_UNEXPECTED", "SEND_EXPECTED"}, NEW tag \in Tags,
                 MsgSend(o, type, tag)
          PROVE  \E r \in OpRecord : r.type \in SendTypes /\ op' = [op EXCEPT ![o] = r]
      <4>1. type \in SendTypes
        BY Zenon DEF SendTypes
      <4>2. Sending(op[o], type, tag) \in OpRecord
        BY <1>0, <4>1, FilledOpType, Zenon
      <4>3. Sending(op[o], type, tag).type = type
        BY <1>0, <4>1, FilledOpFields
      <4>4. op' = [op EXCEPT ![o] = Sending(op[o], type, tag)]
        BY <3>1, Zenon DEF MsgSend
      <4> QED BY <4>1, <4>2, <4>3, <4>4, Zenon
    <3>2. ASSUME Put(o)
          PROVE  \E r \in OpRecord : r.type \in SendTypes /\ op' = [op EXCEPT ![o] = r]
      <4>1. /\ Putting(op[o]) \in OpRecord /\ Putting(op[o]).type = "PUT"
            /\ "PUT" \in SendTypes
        BY <1>0, FilledOpType, FilledOpFields, Zenon DEF SendTypes
      <4>2. op' = [op EXCEPT ![o] = Putting(op[o])]
        BY <3>2, Zenon DEF Put
      <4> QED BY <4>1, <4>2, Zenon
    <3> QED BY <1>2, <3>1, <3>2, Zenon
  <2>3. op'[o].type \in SendTypes /\ \A p \in Ops : p # o => op'[p] = op[p]
    BY <2>2, Zenon DEF TypeOK
  <2>4. /\ o \notin Waiting /\ o \notin InChannel /\ o \notin InQueue
        /\ Busy' = Busy \cup {o}
    BY <2>1, Posted, Zenon
  <2>5. RightQueue'
    BY <1>0, <2>1, <2>3, <2>4, RightQueueKept, Zenon
  <2>6. NoDuplicates'
    BY <1>0, <2>1, Zenon DEF NoDuplicates
  <2> QED BY <2>1, <2>4, <2>5, <2>6, Zenon DEF SingleHolder, Waiting, InChannel, InQueue
<1>3. ASSUME NEW o \in Ops,
             MsgRecvUnexpected(o)
               \/ \E addr \in Peers \cup {AnySource}, tag \in Tags : MsgRecvExpected(o, addr, tag),
             CompletionAdd(o),
             UNCHANGED <<unexpected_recv_ops, expected_recv_ops>>
      PROVE  SingleHolder'
  <2>1. /\ Post(o)
        /\ UNCHANGED <<unexpected_recv_ops, expected_recv_ops, pending_rma_ops, sends, completions>>
    BY <1>3, Zenon DEF MsgRecvUnexpected, MsgRecvExpected, rmaVars
  <2>2. \A p \in Ops : p # o => op'[p] = op[p]
    BY <1>3, Zenon DEF TypeOK, MsgRecvUnexpected, MsgRecvExpected
  <2>3. /\ o \notin Waiting /\ o \notin InChannel /\ o \notin InQueue
        /\ Busy' = Busy \cup {o}
    BY <2>1, Posted, Zenon
  <2>4. InQueue' = InQueue \cup {o} /\ IsInjective(completion_queue')
    <3>1. /\ completion_queue \in Seq(Ops) /\ IsInjective(completion_queue)
          /\ completion_queue' = Append(completion_queue, o) /\ o \notin Range(completion_queue)
      BY <1>0, <1>3, <2>3, Zenon DEF TypeOK, NoDuplicates, CompletionAdd, InQueue
    <3> QED BY <3>1, AppendDistinct DEF InQueue
  <2>5. RightQueue'
    BY <1>0, <2>1, <2>2, <2>3, RightQueueKept, Zenon
  <2>6. NoDuplicates'
    BY <1>0, <2>1, <2>4, Zenon DEF NoDuplicates
  <2> QED BY <2>1, <2>3, <2>4, <2>5, <2>6, Zenon DEF SingleHolder, Waiting, InChannel
<1>4. ASSUME NEW o \in Ops, MsgRecvUnexpected(o),
             op' = [op EXCEPT ![o] = Receiving(op[o], "RECV_UNEXPECTED", AnySource, op[o].tag)],
             unexpected_recv_ops' = Append(unexpected_recv_ops, o), UNCHANGED completion_queue
      PROVE  SingleHolder'
  <2>1. /\ Post(o)
        /\ UNCHANGED <<expected_recv_ops, pending_rma_ops, sends, completions, completion_queue>>
    BY <1>4, Zenon DEF MsgRecvUnexpected, rmaVars
  <2>2. op'[o].type = "RECV_UNEXPECTED" /\ \A p \in Ops : p # o => op'[p] = op[p]
    <3>1. op[o].tag \in Tags
      BY <1>0, Zenon DEF OpRecord
    <3> DEFINE posted == Receiving(op[o], "RECV_UNEXPECTED", AnySource, op[o].tag)
    <3>2. posted.type = "RECV_UNEXPECTED"
      BY <1>0, Zenon DEF OpRecord, Receiving
    <3>3. op' = [op EXCEPT ![o] = posted]
      BY <1>4, Zenon
    <3> HIDE DEF posted
    <3> QED BY <3>2, <3>3, Zenon DEF TypeOK
  <2>3. /\ o \notin Waiting /\ o \notin InChannel /\ o \notin InQueue
        /\ Busy' = Busy \cup {o}
    BY <2>1, Posted, Zenon
  <2>4. /\ Range(unexpected_recv_ops') = Range(unexpected_recv_ops) \cup {o}
        /\ IsInjective(unexpected_recv_ops')
    <3>1. /\ unexpected_recv_ops \in Seq(Ops) /\ IsInjective(unexpected_recv_ops)
          /\ unexpected_recv_ops' = Append(unexpected_recv_ops, o) /\ o \notin Range(unexpected_recv_ops)
      BY <1>0, <1>4, <2>3, Zenon DEF TypeOK, NoDuplicates, Waiting
    <3> QED BY <3>1, AppendDistinct
  <2>5. RightQueue'
    BY <1>0, <2>1, <2>2, <2>3, <2>4, RightQueueKept, Zenon
  <2>6. NoDuplicates'
    BY <1>0, <2>1, <2>4, Zenon DEF NoDuplicates
  <2>7. Waiting' = Waiting \cup {o}
    BY <2>1, <2>4, Zenon DEF Waiting
  <2>8. InChannel' = InChannel /\ InQueue' = InQueue
    BY <2>1, Zenon DEF InChannel, InQueue
  <2> QED BY <2>3, <2>5, <2>6, <2>7, <2>8, Zenon DEF SingleHolder
<1>5. ASSUME NEW o \in Ops, NEW addr \in Peers \cup {AnySource}, NEW tag \in Tags,
             MsgRecvExpected(o, addr, tag),
             op' = [op EXCEPT ![o] = Receiving(op[o], "RECV_EXPECTED", addr, tag)],
             expected_recv_ops' = Append(expected_recv_ops, o), UNCHANGED completion_queue
      PROVE  SingleHolder'
  <2>1. /\ Post(o)
        /\ UNCHANGED <<unexpected_recv_ops, pending_rma_ops, sends, completions, completion_queue>>
    BY <1>5, Zenon DEF MsgRecvExpected, rmaVars
  <2>2. op'[o].type = "RECV_EXPECTED" /\ \A p \in Ops : p # o => op'[p] = op[p]
    <3> DEFINE posted == Receiving(op[o], "RECV_EXPECTED", addr, tag)
    <3>1. posted.type = "RECV_EXPECTED" /\ op' = [op EXCEPT ![o] = posted]
      BY <1>0, <1>5, FilledOpFields DEF RecvTypes
    <3> HIDE DEF posted
    <3> QED BY <3>1, Zenon DEF TypeOK
  <2>3. /\ o \notin Waiting /\ o \notin InChannel /\ o \notin InQueue
        /\ Busy' = Busy \cup {o}
    BY <2>1, Posted, Zenon
  <2>4. /\ Range(expected_recv_ops') = Range(expected_recv_ops) \cup {o}
        /\ IsInjective(expected_recv_ops')
    <3>1. /\ expected_recv_ops \in Seq(Ops) /\ IsInjective(expected_recv_ops)
          /\ expected_recv_ops' = Append(expected_recv_ops, o) /\ o \notin Range(expected_recv_ops)
      BY <1>0, <1>5, <2>3, Zenon DEF TypeOK, NoDuplicates, Waiting
    <3> QED BY <3>1, AppendDistinct
  <2>5. RightQueue'
    BY <1>0, <2>1, <2>2, <2>3, <2>4, RightQueueKept, Zenon
  <2>6. NoDuplicates'
    BY <1>0, <2>1, <2>4, Zenon DEF NoDuplicates
  <2>7. Waiting' = Waiting \cup {o}
    BY <2>1, <2>4, Zenon DEF Waiting
  <2>8. InChannel' = InChannel /\ InQueue' = InQueue
    BY <2>1, Zenon DEF InChannel, InQueue
  <2> QED BY <2>3, <2>5, <2>6, <2>7, <2>8, Zenon DEF SingleHolder
<1>6. ASSUME NEW o \in Ops, NEW key \in Keys, Get(o, key) PROVE SingleHolder'
  <2>1. /\ Post(o) /\ pending_rma_ops' = Append(pending_rma_ops, o)
        /\ UNCHANGED <<unexpected_recv_ops, expected_recv_ops, sends, completions, completion_queue>>
    BY <1>6, Zenon DEF Get, recvVars, doneVars
  <2>2. op'[o].type = "GET" /\ \A p \in Ops : p # o => op'[p] = op[p]
    <3>1. ngets + 1 \in 1..MaxGets
      BY <1>6, EndpointAssumption DEF TypeOK, Get
    <3> DEFINE posted == Getting(op[o], key, ngets + 1)
    <3>2. posted.type = "GET" /\ op' = [op EXCEPT ![o] = posted]
      BY <1>0, <1>6, <3>1, FilledOpFields DEF Get
    <3> HIDE DEF posted
    <3> QED BY <3>2, Zenon DEF TypeOK
  <2>3. /\ o \notin Waiting /\ o \notin InChannel /\ o \notin InQueue
        /\ Busy' = Busy \cup {o}
    BY <2>1, Posted, Zenon
  <2>4. /\ Range(pending_rma_ops') = Range(pending_rma_ops) \cup {o}
        /\ IsInjective(pending_rma_ops')
    <3>1. /\ pending_rma_ops \in Seq(Ops) /\ IsInjective(pending_rma_ops)
          /\ pending_rma_ops' = Append(pending_rma_ops, o) /\ o \notin Range(pending_rma_ops)
      BY <1>0, <2>1, <2>3, Zenon DEF TypeOK, NoDuplicates, Waiting
    <3> QED BY <3>1, AppendDistinct
  <2>5. RightQueue'
    BY <1>0, <2>1, <2>2, <2>3, <2>4, RightQueueKept, Zenon
  <2>6. NoDuplicates'
    BY <1>0, <2>1, <2>4, Zenon DEF NoDuplicates
  <2>7. Waiting' = Waiting \cup {o}
    BY <2>1, <2>4, Zenon DEF Waiting
  <2>8. InChannel' = InChannel /\ InQueue' = InQueue
    BY <2>1, Zenon DEF InChannel, InQueue
  <2> QED BY <2>3, <2>5, <2>6, <2>7, <2>8, Zenon DEF SingleHolder
<1>7. ASSUME NEW o \in Ops, Cancel(o) PROVE SingleHolder'
  <2>1. /\ Canceled(o) /\ UNCHANGED <<ostate, sends, completions>>
        /\ \/ /\ UNCHANGED <<expected_recv_ops, pending_rma_ops>>
              /\ \E i \in DOMAIN unexpected_recv_ops :
                   unexpected_recv_ops[i] = o /\ unexpected_recv_ops' = Take(unexpected_recv_ops, i)
           \/ /\ UNCHANGED <<unexpected_recv_ops, pending_rma_ops>>
              /\ \E i \in DOMAIN expected_recv_ops :
                   expected_recv_ops[i] = o /\ expected_recv_ops' = Take(expected_recv_ops, i)
           \/ /\ UNCHANGED <<unexpected_recv_ops, expected_recv_ops>>
              /\ \E i \in DOMAIN pending_rma_ops :
                   pending_rma_ops[i] = o /\ pending_rma_ops' = Take(pending_rma_ops, i)
    BY <1>7, Zenon DEF Cancel, IsFirst
  <2>2. \A p \in Ops : op'[p].type = op[p].type
    <3> DEFINE canceled == [op[o] EXCEPT !.ret = "CANCELED"]
    <3>1. canceled.type = op[o].type /\ op' = [op EXCEPT ![o] = canceled]
      BY <1>0, <2>1, FilledOpFields, Zenon DEF Canceled
    <3> HIDE DEF canceled
    <3> QED BY <3>1, Zenon DEF TypeOK
  <2>3. \A q \in Seq(Ops) : \A i \in DOMAIN q :
          q[i] = o /\ IsInjective(q) =>
            IsInjective(Take(q, i)) /\ o \in Range(q) /\ Range(Take(q, i)) = Range(q) \ {o}
    BY TakeDistinct, Zenon DEF Range
  <2>4. /\ IsInjective(unexpected_recv_ops') /\ IsInjective(expected_recv_ops')
        /\ IsInjective(pending_rma_ops')
        /\ o \in Waiting
        /\ \/ /\ UNCHANGED <<expected_recv_ops, pending_rma_ops>> /\ o \in Range(unexpected_recv_ops)
              /\ Range(unexpected_recv_ops') = Range(unexpected_recv_ops) \ {o}
           \/ /\ UNCHANGED <<unexpected_recv_ops, pending_rma_ops>> /\ o \in Range(expected_recv_ops)
              /\ Range(expected_recv_ops') = Range(expected_recv_ops) \ {o}
           \/ /\ UNCHANGED <<unexpected_recv_ops, expected_recv_ops>> /\ o \in Range(pending_rma_ops)
              /\ Range(pending_rma_ops') = Range(pending_rma_ops) \ {o}
    <3>1. /\ unexpected_recv_ops \in Seq(Ops) /\ IsInjective(unexpected_recv_ops)
          /\ expected_recv_ops \in Seq(Ops) /\ IsInjective(expected_recv_ops)
          /\ pending_rma_ops \in Seq(Ops) /\ IsInjective(pending_rma_ops)
      BY <1>0, Zenon DEF TypeOK, NoDuplicates
    <3>2. CASE /\ UNCHANGED <<expected_recv_ops, pending_rma_ops>>
               /\ \E i \in DOMAIN unexpected_recv_ops :
                    unexpected_recv_ops[i] = o /\ unexpected_recv_ops' = Take(unexpected_recv_ops, i)
      BY <2>3, <3>1, <3>2, Zenon DEF Waiting
    <3>3. CASE /\ UNCHANGED <<unexpected_recv_ops, pending_rma_ops>>
               /\ \E i \in DOMAIN expected_recv_ops :
                    expected_recv_ops[i] = o /\ expected_recv_ops' = Take(expected_recv_ops, i)
      BY <2>3, <3>1, <3>3, Zenon DEF Waiting
    <3>4. CASE /\ UNCHANGED <<unexpected_recv_ops, expected_recv_ops>>
               /\ \E i \in DOMAIN pending_rma_ops :
                    pending_rma_ops[i] = o /\ pending_rma_ops' = Take(pending_rma_ops, i)
      BY <2>3, <3>1, <3>4, Zenon DEF Waiting
    <3> QED BY <2>1, <3>2, <3>3, <3>4, Zenon
  <2>5. Waiting' = Waiting \ {o}
    BY <1>0, <2>1, <2>4, WaitingPlaces, Zenon DEF Waiting
  <2>6. InQueue' = InQueue \cup {o} /\ IsInjective(completion_queue')
    <3>1. o \notin InQueue
      BY <2>4, Zenon DEF SingleHolder
    <3> QED BY <1>0, <2>1, <3>1, AppendDistinct DEF TypeOK, NoDuplicates, Canceled, CompletionAdd, InQueue
  <2>7. RightQueue'
    <3>1. /\ Range(unexpected_recv_ops') \subseteq Range(unexpected_recv_ops)
          /\ Range(expected_recv_ops') \subseteq Range(expected_recv_ops)
          /\ Range(pending_rma_ops') \subseteq Range(pending_rma_ops)
      BY <2>4, Zenon
    <3>2. sends' = sends
      BY <2>1, Zenon
    <3> QED BY <1>0, <2>2, <3>1, <3>2, RightQueueKept, Zenon
  <2>8. NoDuplicates'
    <3>1. DistinctOps(completions')
      BY <1>0, <2>1, Zenon DEF NoDuplicates
    <3>2. IsInjective(completion_queue')
      BY <2>6, Zenon
    <3>3. /\ IsInjective(unexpected_recv_ops') /\ IsInjective(expected_recv_ops')
          /\ IsInjective(pending_rma_ops')
      BY <2>4, Zenon
    <3> QED BY <3>1, <3>2, <3>3, Zenon DEF NoDuplicates
  <2>9. InChannel' = InChannel /\ Busy' = Busy
    BY <2>1, Zenon DEF InChannel, Busy
  <2> QED BY <2>4, <2>5, <2>6, <2>7, <2>8, <2>9, Zenon DEF SingleHolder
<1>8. ASSUME NEW o \in Ops, NEW result \in Rets, NEW m \in 0..MaxMsgs,
             CompletionSend(o, result, m), o \in Waiting, Waiting' = Waiting \ {o},
             IsInjective(unexpected_recv_ops'), IsInjective(expected_recv_ops'),
             IsInjective(pending_rma_ops'),
             Range(unexpected_recv_ops') \subseteq Range(unexpected_recv_ops),
             Range(expected_recv_ops') \subseteq Range(expected_recv_ops),
             Range(pending_rma_ops') \subseteq Range(pending_rma_ops),
             sends' \subseteq sends,
             UNCHANGED <<ostate, op, completion_queue>>
      PROVE  SingleHolder'
  <2>1. Item(o, result, m) \in CompletionItem
    BY Zenon DEF Item, CompletionItem
  <2>2. o \notin InChannel
    BY <1>8, Zenon DEF SingleHolder
  <2>3. InChannel' = InChannel \cup {o} /\ DistinctOps(completions')
    <3> DEFINE c == Item(o, result, m)
    <3>1. /\ c \in CompletionItem /\ c.op = o /\ completions' = Append(completions, c)
          /\ completions \in Seq(CompletionItem)
      BY <1>8, <2>1, ItemFields, Zenon DEF TypeOK, CompletionSend
    <3> HIDE DEF c
    <3>2. DistinctOps(completions) /\ c.op \notin ItemOps(completions)
      BY <1>0, <2>2, <3>1, Zenon DEF NoDuplicates, InChannel
    <3>3. /\ ItemOps(Append(completions, c)) = ItemOps(completions) \cup {c.op}
          /\ DistinctOps(Append(completions, c))
      BY <3>1, <3>2, SendDistinct, Zenon
    <3> QED BY <3>1, <3>3, Zenon DEF InChannel
  <2>4. RightQueue'
    BY <1>0, <1>8, RightQueueKept, Zenon
  <2>5. NoDuplicates'
    BY <1>0, <1>8, <2>3, Zenon DEF NoDuplicates
  <2> QED BY <1>8, <2>3, <2>4, <2>5, Zenon DEF SingleHolder, InQueue, Busy
<1>9. ASSUME NEW o \in Ops, NEW result \in {"SUCCESS", "PROTOCOL_ERROR"}, SendDone(o, result)
      PROVE  SingleHolder'
  <2>1. /\ CompletionSend(o, result, NoMsg) /\ o \in sends /\ sends' = sends \ {o}
        /\ UNCHANGED <<ostate, op, unexpected_recv_ops, expected_recv_ops, pending_rma_ops, completion_queue>>
    BY <1>9, Zenon DEF SendDone, opVars, recvVars, rmaVars
  <2>2. result \in Rets /\ NoMsg \in 0..MaxMsgs
    BY EndpointAssumption DEF Rets, NoMsg
  <2>3. o \in Waiting /\ Waiting' = Waiting \ {o}
    BY <1>0, <2>1, WaitingPlaces, Zenon DEF Waiting
  <2> QED BY <1>0, <1>8, <2>1, <2>2, <2>3, Zenon DEF NoDuplicates
<1>10. ASSUME NEW src \in Peers, NEW tag \in Tags, HandleUnexpectedMsg(src, tag) PROVE SingleHolder'
  <2>1. UNCHANGED <<ostate, op, expected_recv_ops, pending_rma_ops, sends, completion_queue>>
    BY <1>10, Zenon DEF HandleUnexpectedMsg, opVars, rmaVars
  <2>2. CASE unexpected_recv_ops # <<>>
    <3> DEFINE o == Head(unexpected_recv_ops)
    <3>1. /\ CompletionSend(o, "SUCCESS", NewAddr) /\ NewAddr <= MaxMsgs
          /\ unexpected_recv_ops' = Tail(unexpected_recv_ops)
      BY <1>10, <2>2, Zenon DEF HandleUnexpectedMsg
    <3>2. o \in Ops /\ "SUCCESS" \in Rets /\ NewAddr \in 0..MaxMsgs
      BY <2>2, <3>1, HeadTailProperties, EndpointAssumption DEF TypeOK, NewAddr, Rets
    <3>3. /\ IsInjective(unexpected_recv_ops') /\ o \in Range(unexpected_recv_ops)
          /\ Range(unexpected_recv_ops') = Range(unexpected_recv_ops) \ {o}
      BY <1>0, <2>2, <3>1, TailDistinct, Zenon DEF TypeOK, NoDuplicates
    <3> HIDE DEF o
    <3>4. o \in Waiting /\ Waiting' = Waiting \ {o}
      BY <1>0, <2>1, <3>3, WaitingPlaces, Zenon DEF Waiting
    <3> QED BY <1>0, <1>8, <2>1, <3>1, <3>2, <3>3, <3>4, Zenon DEF NoDuplicates
  <2>3. CASE unexpected_recv_ops = <<>>
    <3>1. UNCHANGED <<unexpected_recv_ops, completions>>
      BY <1>10, <2>3, Zenon DEF HandleUnexpectedMsg
    <3> QED BY <2>1, <3>1, Zenon
            DEF SingleHolder, RightQueue, NoDuplicates, Waiting, InChannel, InQueue, Busy
  <2> QED BY <2>2, <2>3, Zenon
<1>11. ASSUME NEW src \in Peers, NEW tag \in Tags, HandleExpectedMsg(src, tag) PROVE SingleHolder'
  <2>1. UNCHANGED <<ostate, op, unexpected_recv_ops, pending_rma_ops, sends, completion_queue>>
    BY <1>11, Zenon DEF HandleExpectedMsg, opVars, rmaVars
  <2>2. ASSUME NEW i \in DOMAIN expected_recv_ops,
               expected_recv_ops' = Take(expected_recv_ops, i),
               CompletionSend(expected_recv_ops[i], "SUCCESS", NewAddr), NewAddr <= MaxMsgs
        PROVE  SingleHolder'
    <3> DEFINE o == expected_recv_ops[i]
    <3>1. o \in Ops /\ "SUCCESS" \in Rets /\ NewAddr \in 0..MaxMsgs
      BY <2>2, ElementOfSeq, LenProperties, EndpointAssumption DEF TypeOK, NewAddr, Rets
    <3>2. /\ IsInjective(expected_recv_ops') /\ o \in Range(expected_recv_ops)
          /\ Range(expected_recv_ops') = Range(expected_recv_ops) \ {o}
      BY <1>0, <2>2, TakeDistinct, Zenon DEF TypeOK, NoDuplicates, Range
    <3>3. CompletionSend(o, "SUCCESS", NewAddr)
      BY <2>2, Zenon
    <3> HIDE DEF o
    <3>4. o \in Waiting /\ Waiting' = Waiting \ {o}
      BY <1>0, <2>1, <3>2, WaitingPlaces, Zenon DEF Waiting
    <3> QED BY <1>0, <1>8, <2>1, <3>1, <3>2, <3>3, <3>4, Zenon DEF NoDuplicates
  <2>3. ASSUME UNCHANGED <<expected_recv_ops, completions>> PROVE SingleHolder'
    BY <2>1, <2>3, Zenon DEF SingleHolder, RightQueue, NoDuplicates, Waiting, InChannel, InQueue, Busy
  <2> QED BY <1>11, <2>2, <2>3, Zenon DEF HandleExpectedMsg
<1>12. ASSUME NEW g \in gets, GetWritten(g) \/ GetWriteFailed(g) PROVE SingleHolder'
  <2>1. UNCHANGED <<ostate, op, unexpected_recv_ops, expected_recv_ops, pending_rma_ops, sends,
                    completions, completion_queue>>
    BY <1>12, Zenon DEF GetWritten, GetWriteFailed, opVars, recvVars, doneVars
  <2> QED BY <2>1, Zenon DEF SingleHolder, RightQueue, NoDuplicates, Waiting, InChannel, InQueue, Busy
<1>13. ASSUME NEW g \in gets, HandleRmaGetResponse(g) PROVE SingleHolder'
  <2>1. UNCHANGED <<ostate, op, unexpected_recv_ops, expected_recv_ops, sends, completion_queue>>
    BY <1>13, Zenon DEF HandleRmaGetResponse, opVars, recvVars
  <2>2. ASSUME NEW i \in DOMAIN pending_rma_ops,
               pending_rma_ops' = Take(pending_rma_ops, i),
               CompletionSend(pending_rma_ops[i], "SUCCESS", NoMsg)
        PROVE  SingleHolder'
    <3> DEFINE o == pending_rma_ops[i]
    <3>1. o \in Ops /\ "SUCCESS" \in Rets /\ NoMsg \in 0..MaxMsgs
      BY ElementOfSeq, LenProperties, EndpointAssumption DEF TypeOK, NoMsg, Rets
    <3>2. /\ IsInjective(pending_rma_ops') /\ o \in Range(pending_rma_ops)
          /\ Range(pending_rma_ops') = Range(pending_rma_ops) \ {o}
      BY <1>0, <2>2, TakeDistinct, Zenon DEF TypeOK, NoDuplicates, Range
    <3>3. CompletionSend(o, "SUCCESS", NoMsg)
      BY <2>2, Zenon
    <3> HIDE DEF o
    <3>4. o \in Waiting /\ Waiting' = Waiting \ {o}
      BY <1>0, <2>1, <3>2, WaitingPlaces, Zenon DEF Waiting
    <3> QED BY <1>0, <1>8, <2>1, <3>1, <3>2, <3>3, <3>4, Zenon DEF NoDuplicates
  <2>3. ASSUME UNCHANGED <<pending_rma_ops, completions>> PROVE SingleHolder'
    BY <2>1, <2>3, Zenon DEF SingleHolder, RightQueue, NoDuplicates, Waiting, InChannel, InQueue, Busy
  <2> QED BY <1>13, <2>2, <2>3, Zenon DEF HandleRmaGetResponse
<1>14. CASE Poll
  <2> DEFINE c == Head(completions)
             o == c.op
  <2>1. /\ CompletionAdd(o) /\ op' = [op EXCEPT ![o] = Completed(op[o], c)]
        /\ completions # <<>> /\ completions' = Tail(completions)
        /\ UNCHANGED <<ostate, unexpected_recv_ops, expected_recv_ops, pending_rma_ops, sends>>
    BY <1>14, Zenon DEF Poll, recvVars, rmaVars
  <2>2. c \in CompletionItem /\ o \in Ops
    BY <2>1, HeadTailProperties, ItemType, Zenon DEF TypeOK
  <2>3. InChannel' = InChannel \ {o} /\ o \in InChannel /\ DistinctOps(completions')
    BY <1>0, <2>1, ReceiveDistinct, Zenon DEF TypeOK, NoDuplicates, InChannel
  <2>4. Completed(op[o], c).type = op[o].type
    BY <1>0, <2>2, FilledOpFields, Zenon
  <2> HIDE DEF c, o
  <2>5. \A p \in Ops : op'[p].type = op[p].type
    <3> DEFINE r == Completed(op[o], c)
    <3>1. r.type = op[o].type /\ op' = [op EXCEPT ![o] = r]
      BY <2>1, <2>4, Zenon
    <3> HIDE DEF r
    <3> QED BY <2>2, <3>1, Zenon DEF TypeOK
  <2>6. InQueue' = InQueue \cup {o} /\ IsInjective(completion_queue')
    <3>1. o \notin InQueue
      BY <2>3, Zenon DEF SingleHolder
    <3>2. /\ completion_queue \in Seq(Ops) /\ IsInjective(completion_queue)
          /\ completion_queue' = Append(completion_queue, o)
      BY <1>0, <2>1, Zenon DEF TypeOK, NoDuplicates, CompletionAdd
    <3> QED BY <2>2, <3>1, <3>2, AppendDistinct DEF InQueue
  <2>7. RightQueue'
    BY <1>0, <2>1, <2>5, RightQueueKept, Zenon
  <2>8. NoDuplicates'
    BY <1>0, <2>1, <2>3, <2>6, Zenon DEF NoDuplicates
  <2>9. Waiting' = Waiting /\ Busy' = Busy
    BY <2>1, Zenon DEF Waiting, Busy
  <2> QED BY <2>3, <2>6, <2>7, <2>8, <2>9, Zenon DEF SingleHolder
<1>15. CASE Trigger
  <2> DEFINE o == Head(completion_queue)
  <2>1. /\ completion_queue # <<>> /\ completion_queue' = Tail(completion_queue)
        /\ ostate' = [ostate EXCEPT ![o] = IF @ = "busy" THEN "idle" ELSE @]
        /\ UNCHANGED <<op, unexpected_recv_ops, expected_recv_ops, pending_rma_ops, sends, completions>>
    BY <1>15, Zenon DEF Trigger, Released, recvVars, rmaVars
  <2>2. /\ o \in Ops /\ o \in InQueue /\ InQueue' = InQueue \ {o}
        /\ IsInjective(completion_queue')
    BY <1>0, <2>1, HeadTailProperties, TailDistinct, Zenon DEF TypeOK, NoDuplicates, InQueue
  <2> HIDE DEF o
  <2>3. Busy' = Busy \ {o}
    BY <2>1, <2>2, Zenon DEF TypeOK, Busy
  <2>4. RightQueue'
    BY <1>0, <2>1, Zenon DEF RightQueue
  <2>5. NoDuplicates'
    BY <1>0, <2>1, <2>2, Zenon DEF NoDuplicates
  <2>6. Waiting' = Waiting /\ InChannel' = InChannel
    BY <2>1, Zenon DEF Waiting, InChannel
  <2> QED BY <2>2, <2>3, <2>4, <2>5, <2>6, Zenon DEF SingleHolder
<1>16. ASSUME (\E m \in user_addrs : AddrFree(m)) \/ UNCHANGED vars PROVE SingleHolder'
  <2>1. UNCHANGED <<ostate, op, unexpected_recv_ops, expected_recv_ops, pending_rma_ops, sends,
                    completions, completion_queue>>
    BY <1>16, Zenon DEF AddrFree, vars, opVars, recvVars, rmaVars, doneVars
  <2> QED BY <2>1, Zenon DEF SingleHolder, RightQueue, NoDuplicates, Waiting, InChannel, InQueue, Busy
<1>17. ASSUME NEW o \in Ops, MsgRecvUnexpected(o) PROVE SingleHolder'
  <2>1. CASE CompletionAdd(o) /\ UNCHANGED unexpected_recv_ops
    <3>1. UNCHANGED expected_recv_ops
      BY <1>17, Zenon DEF MsgRecvUnexpected
    <3> QED BY <1>3, <1>17, <2>1, <3>1, Zenon
  <2>2. CASE /\ op' = [op EXCEPT ![o] = Receiving(op[o], "RECV_UNEXPECTED", AnySource, op[o].tag)]
             /\ unexpected_recv_ops' = Append(unexpected_recv_ops, o)
             /\ UNCHANGED completion_queue
    BY <1>4, <1>17, <2>2, Zenon
  <2> QED BY <1>17, <2>1, <2>2, Zenon DEF MsgRecvUnexpected
<1>18. ASSUME NEW o \in Ops, NEW addr \in Peers \cup {AnySource}, NEW tag \in Tags,
              MsgRecvExpected(o, addr, tag)
       PROVE  SingleHolder'
  BY <1>3, <1>5, <1>18, Zenon DEF MsgRecvExpected
<1> QED
  BY <1>1, <1>2, <1>6, <1>7, <1>9, <1>10, <1>11, <1>12, <1>13, <1>14, <1>15, <1>16, <1>17, <1>18, Zenon
  DEF Next, OpStep

\* As long as no get request is reported as unwritten, every operation in use
\* has exactly one holder and no other operation has any, however the calls of
\* NA threads, the incoming handlers, the writer tasks and cancellations are
\* interleaved: each operation completes exactly once.
THEOREM OneHolderPerOp ==
  ASSUME ~ GetWriteMayFail
  PROVE  Spec => []SingleHolder
<1>1. Init => SingleHolder
  <2>1. ASSUME Init
        PROVE  /\ Busy = {} /\ Waiting = {} /\ InChannel = {} /\ InQueue = {}
               /\ Range(unexpected_recv_ops) = {} /\ Range(expected_recv_ops) = {}
               /\ Range(pending_rma_ops) = {} /\ sends = {}
    <3>1. /\ Range(unexpected_recv_ops) = {} /\ Range(expected_recv_ops) = {}
          /\ Range(pending_rma_ops) = {} /\ Range(completions) = {}
          /\ Range(completion_queue) = {}
      BY <2>1 DEF Init, Range
    <3>2. Busy = {} /\ sends = {}
      BY <2>1, Zenon DEF Init, Busy
    <3> QED BY <3>1, <3>2, Zenon DEF Waiting, InChannel, ItemOps, InQueue
  <2>2. ASSUME Init PROVE NoDuplicates
    BY <2>2 DEF Init, NoDuplicates, IsInjective, DistinctOps
  <2> QED BY <2>1, <2>2, Zenon DEF SingleHolder, RightQueue
<1>2. TypeOK /\ SingleHolder /\ [Next]_vars => SingleHolder'
  BY HolderStep, Zenon
<1> QED BY <1>1, <1>2, TypeCorrect, PTL DEF Spec
=============================================================================
