---------------------------- MODULE RmaPutProofs ----------------------------
(***************************************************************************)
(* What a get sees of the puts its process made before it, for every set   *)
(* of processes, every heap, every workload and every flow control window. *)
(*                                                                         *)
(* The links that carry requests hold them in the order of the calls and   *)
(* hand them on in that order, or lose them.  So a put that is no longer   *)
(* on its way was applied or lost, and when the request of a get is read,  *)
(* all puts that its process made before it to the same peer are behind    *)
(* it.                                                                     *)
(***************************************************************************)
EXTENDS RmaMemoryProofs

\* Time for the SMT solver, for leaves that name no other prover.
USE SMTT(30)

-----------------------------------------------------------------------------
(* The invariant.                                                          *)

Requests == {c \in Links : c[3] = "cmd"}

\* Header m of a request link is the operation it was made for.
Told(c, m) ==
  LET o == issued[From(c)][m.op[2]] IN
  /\ m.op[1] = From(c) /\ m.op[2] \in DOMAIN issued[From(c)] /\ m.source_peer_id = From(c)
  /\ o.to = To(c) /\ o.handle_id = m.handle_id /\ o.offset = m.offset /\ o.length = m.rma_length
  /\ \/ m.msg_type = "RmaPut" /\ o.type = "put" /\ m.payload_size = o.length
     \/ m.msg_type = "RmaGetReq" /\ o.type = "get"

Sorted(units) ==
  \A i, j \in DOMAIN units :
    i < j /\ units[i].kind = "header" /\ units[j].kind = "header"
      => units[i].header.op[2] < units[j].header.op[2]
QueueSorted(msgs) ==
  \A i, j \in DOMAIN msgs : i < j => msgs[i].header.op[2] < msgs[j].header.op[2]

\* The cells behind the header of a put are its own.
Filled(units) ==
  \A i \in DOMAIN units :
    units[i].kind = "header" /\ units[i].header.msg_type = "RmaPut"
      => \A j \in i + 1 .. i + units[i].header.payload_size : units[j].value = units[i].header.op
MsgFilled(msg) ==
  msg.header.msg_type = "RmaPut" => \A i \in DOMAIN msg.payload : msg.payload[i] = msg.header.op

\* All that is on its way on link c is younger than operation k.
Passed(c, k) == \A m \in Messages(c) : k < m.op[2]
InTurn(c) ==
  \A k \in DOMAIN issued[From(c)] :
    issued[From(c)][k].to = To(c) => Passed(c, k) \/ \E m \in Messages(c) : m.op[2] = k

LinkOK(c) ==
  /\ \A m \in Messages(c) : Told(c, m)
  /\ Sorted(stream[c]) /\ QueueSorted(queue[c])
  /\ \A h \in HeadersOf(stream[c]) : \A msg \in Range(queue[c]) : h.op[2] < msg.header.op[2]
  /\ Filled(stream[c]) /\ \A msg \in Range(queue[c]) : MsgFilled(msg)
  /\ InTurn(c)
EndedEmpty == \A c \in Links : reader[c] = "ended" => stream[c] = <<>>

\* The links that carry requests hold them in the order of their operations.
LinkInv == (\A c \in Requests : LinkOK(c)) /\ EndedEmpty

PendingGets ==
  \A p \in Procs :
    /\ \A i, j \in DOMAIN pending_rma_ops[p] : pending_rma_ops[p][i] = pending_rma_ops[p][j] => i = j
    /\ \A n \in Range(pending_rma_ops[p]) : n \in DOMAIN issued[p] /\ issued[p][n].type = "get"
OpsIssued ==
  \A p \in Procs : \A k \in DOMAIN issued[p] : issued[p][k].handle_id < next_handle_id[issued[p][k].to]
AnswersIssued ==
  \A msg \in Answers :
    msg.header.msg_type = "RmaGetResp" => msg.header.op[2] \in DOMAIN issued[msg.header.op[1]]

AnswersApart ==
  \A c \in Links : c \notin Requests => \A m \in Messages(c) : m.msg_type = "RmaGetResp"

\* The pending gets are gets that were issued, each once; operations name ids that
\* were issued; answers belong to operations and have links of their own.
OpInv == PendingGets /\ OpsIssued /\ AnswersIssued /\ AnswersApart

NotOlder(v, p, k) == v # Unwritten /\ (v[1] = p => v[2] >= k)

\* A put that has been passed and was not lost is in the buffer it was made to, or
\* was overwritten by another process or by a younger put.
Applied(c, k) ==
  LET o == issued[From(c)][k]
      b == mem_handles[To(c)][o.handle_id]
  IN /\ o.type = "put" /\ o.to = To(c) /\ <<From(c), k>> \notin lost /\ Passed(c, k)
     /\ o.handle_id \in DOMAIN mem_handles[To(c)] /\ OnlyPutTo(To(c))
     => \A at \in Nat :
          o.offset <= at /\ at < o.offset + o.length /\ at < b.buf_size
            => NotOlder(heap[To(c)][b.buf + at], From(c), k)
PutsApplied == \A c \in Requests : \A k \in DOMAIN issued[From(c)] : Applied(c, k)

\* ReadsOwnPuts and what keeps it.
PutInv == LinkInv /\ OpInv /\ PutsApplied /\ ReadsOwnPuts

-----------------------------------------------------------------------------
(* Small facts for the steps below.                                        *)

\* The kinds of message are told apart.
LEMMA RequestTypes == "RmaPut" # "RmaGetResp" /\ "RmaGetReq" # "RmaGetResp"
OBVIOUS

\* A counter of handles that is left alone is no smaller afterwards.
LEMMA SameCounter ==
  ASSUME TypeOK, UNCHANGED next_handle_id
  PROVE  \A q \in Procs : next_handle_id'[q] \in Nat /\ next_handle_id[q] <= next_handle_id'[q]
BY DEF TypeOK

-----------------------------------------------------------------------------
(* Sequences of units and of messages.                                     *)

LEMMA ConcatIndex ==
  ASSUME NEW S, NEW s \in Seq(S), NEW e \in Seq(S)
  PROVE  /\ s \o e \in Seq(S) /\ Len(s) \in Nat /\ Len(e) \in Nat
         /\ DOMAIN s = 1 .. Len(s) /\ DOMAIN e = 1 .. Len(e) /\ DOMAIN (s \o e) = 1 .. Len(s) + Len(e)
         /\ \A i \in 1 .. Len(s) : (s \o e)[i] = s[i]
         /\ \A i \in 1 .. Len(s) + Len(e) : i > Len(s) => i - Len(s) \in 1 .. Len(e) /\ (s \o e)[i] = e[i - Len(s)]
<1> DEFINE t == s \o e
           l == Len(s)
           n == Len(e)
<1>1. /\ t \in Seq(S) /\ Len(t) = l + n
      /\ \A i \in 1 .. l + n : t[i] = IF i <= l THEN s[i] ELSE e[i - l]
  BY SeqConcat, Zenon
<1>2. l \in Nat /\ n \in Nat /\ DOMAIN s = 1 .. l /\ DOMAIN e = 1 .. n /\ DOMAIN t = 1 .. Len(t)
  BY <1>1, SeqElements, Zenon
<1> HIDE DEF t, l, n
<1>3. \A i \in 1 .. l : t[i] = s[i]
  BY <1>1, <1>2
<1>4. \A i \in 1 .. l + n : i > l => i - l \in 1 .. n /\ t[i] = e[i - l]
  BY <1>1, <1>2
<1>5. DOMAIN t = 1 .. l + n
  BY <1>1, <1>2, Zenon
<1> QED BY <1>1, <1>2, <1>3, <1>4, <1>5, Zenon DEF t, l, n

LEMMA TailSorted ==
  ASSUME NEW q \in Seq(OutboundMsg), q # <<>>, QueueSorted(q)
  PROVE  /\ Tail(q) \in Seq(OutboundMsg) /\ Head(q) \in OutboundMsg
         /\ QueueSorted(Tail(q)) /\ Range(q) = Range(Tail(q)) \cup {Head(q)}
         /\ \A m \in Range(Tail(q)) : Head(q).header.op[2] < m.header.op[2]
<1> DEFINE n == Len(q)
           t == Tail(q)
<1>1. /\ n \in Nat \ {0} /\ DOMAIN q = 1 .. n /\ Head(q) = q[1] /\ DOMAIN t = 1 .. n - 1
      /\ \A j \in 1 .. n - 1 : t[j] = q[j + 1]
  BY SeqEmpty, SeqElements, SeqTail
<1>2. t \in Seq(OutboundMsg) /\ Head(q) \in OutboundMsg
  BY SeqTail, Zenon
<1> HIDE DEF n, t
<1>3. \A j \in 1 .. n - 1 : j + 1 \in 1 .. n /\ 1 < j + 1
  BY <1>1
<1>4. QueueSorted(t)
  <2>1. ASSUME NEW i \in 1 .. n - 1, NEW j \in 1 .. n - 1, i < j
        PROVE  t[i].header.op[2] < t[j].header.op[2]
    <3>1. i + 1 \in DOMAIN q /\ j + 1 \in DOMAIN q /\ i + 1 < j + 1
      BY <1>1, <2>1
    <3> QED BY <1>1, <3>1, Zenon DEF QueueSorted
  <2> QED BY <1>1, <2>1, Zenon DEF QueueSorted
<1>5. ASSUME NEW m \in Range(t) PROVE Head(q).header.op[2] < m.header.op[2] /\ m \in Range(q)
  <2>1. PICK j \in 1 .. n - 1 : m = t[j]
    BY <1>1, Zenon DEF Range
  <2>2. m = q[j + 1] /\ j + 1 \in DOMAIN q /\ 1 \in DOMAIN q /\ 1 < j + 1
    BY <1>1, <1>3, <2>1
  <2> QED BY <1>1, <2>2, Zenon DEF QueueSorted, Range
<1>6. ASSUME NEW m \in Range(q), m # Head(q) PROVE m \in Range(t)
  <2>1. PICK i \in 1 .. n : m = q[i]
    BY <1>1, Zenon DEF Range
  <2>2. i - 1 \in 1 .. n - 1 /\ i - 1 + 1 = i
    BY <1>1, <1>6, <2>1
  <2>3. t[i - 1] = q[i]
    BY <1>1, <2>2, Zenon
  <2> QED BY <1>1, <2>1, <2>2, <2>3, Zenon DEF Range
<1>7. Head(q) \in Range(q)
  BY <1>1 DEF Range
<1> QED BY <1>2, <1>4, <1>5, <1>6, <1>7, Zenon DEF t

-----------------------------------------------------------------------------
(* What the steps do to a link of requests.                                *)

LEMMA RequestLink ==
  ASSUME NEW c \in Requests
  PROVE  c \in Links /\ From(c) \in Procs /\ To(c) \in Procs /\ c = <<From(c), To(c), "cmd">>
BY DEF Requests, Links, Pools, From, To

LEMMA OpFields ==
  ASSUME NEW op \in OpNums
  PROVE  op[1] \in Procs /\ op[2] \in Nat \ {0} /\ op = <<op[1], op[2]>>
BY DEF OpNums

LEMMA MessageOps ==
  ASSUME TypeOK, NEW c \in Links, NEW m \in Messages(c)
  PROVE  m \in Header /\ m.op \in OpNums /\ m.op[1] \in Procs /\ m.op[2] \in Nat \ {0}
         /\ m.op = <<m.op[1], m.op[2]>>
BY MessageHeaders, HeaderFields, OpFields, Zenon

\* A process only adds to its operations.
Grown(p) == \A k \in DOMAIN issued[p] : k \in DOMAIN issued'[p] /\ issued'[p][k] = issued[p][k]

LEMMA ToldKept ==
  ASSUME NEW c \in Requests, Grown(From(c)), NEW m, Told(c, m)
  PROVE  Told(c, m)'
<1>1. m.op[2] \in DOMAIN issued[From(c)]
  BY Zenon DEF Told
<1>2. m.op[2] \in DOMAIN issued'[From(c)] /\ issued'[From(c)][m.op[2]] = issued[From(c)][m.op[2]]
  BY <1>1, Zenon DEF Grown
<1> QED BY <1>2, Zenon DEF Told, From, To

\* Messages leave a link in the order of their operations.
LEMMA LinkShrinks ==
  ASSUME TypeOK, NEW c \in Requests, LinkOK(c), issued'[From(c)] = issued[From(c)],
         Messages(c)' \subseteq Messages(c),
         \A m \in Messages(c) : m \in Messages(c)' \/ \A n \in Messages(c)' : m.op[2] < n.op[2],
         Range(queue'[c]) \subseteq Range(queue[c]),
         Sorted(stream'[c]), QueueSorted(queue'[c]), Filled(stream'[c]),
         \A h \in HeadersOf(stream'[c]) : \A msg \in Range(queue'[c]) : h.op[2] < msg.header.op[2]
  PROVE  LinkOK(c)'
<1>1. Grown(From(c))
  BY Zenon DEF Grown
<1>2. \A m \in Messages(c)' : Told(c, m)'
  <2>1. ASSUME NEW m \in Messages(c)' PROVE Told(c, m)'
    <3>1. Told(c, m)
      BY Zenon DEF LinkOK
    <3> QED BY <1>1, <3>1, ToldKept, Zenon
  <2> QED BY <2>1, Zenon
<1>3. InTurn(c)'
  <2>1. ASSUME NEW k \in DOMAIN issued[From(c)], issued[From(c)][k].to = To(c)
        PROVE  (\A m \in Messages(c)' : k < m.op[2]) \/ \E m \in Messages(c)' : m.op[2] = k
    <3>1. CASE \A m \in Messages(c) : k < m.op[2]
      BY <3>1, Zenon
    <3>2. CASE \E m \in Messages(c) : m.op[2] = k
      BY <3>2, Zenon
    <3> QED BY <2>1, <3>1, <3>2, Zenon DEF LinkOK, InTurn, Passed
  <2> QED BY <2>1, Zenon DEF InTurn, Passed, From, To
<1>4. \A msg \in Range(queue'[c]) : MsgFilled(msg)
  BY Zenon DEF LinkOK
<1> QED BY <1>2, <1>3, <1>4, Zenon DEF LinkOK

\* A link that a step leaves alone, while its process may issue an operation to
\* another one.
LEMMA LinkQuiet ==
  ASSUME TypeOK, NEW c \in Requests, LinkOK(c), queue'[c] = queue[c], stream'[c] = stream[c],
         Grown(From(c)),
         \A k \in DOMAIN issued'[From(c)] : k \in DOMAIN issued[From(c)] \/ issued'[From(c)][k].to # To(c)
  PROVE  LinkOK(c)' /\ Messages(c)' = Messages(c)
<1>1. Messages(c)' = Messages(c)
  BY Zenon DEF Messages
<1>2. \A m \in Messages(c)' : Told(c, m)'
  <2>1. ASSUME NEW m \in Messages(c)' PROVE Told(c, m)'
    <3>1. Told(c, m)
      BY <1>1, Zenon DEF LinkOK
    <3> QED BY <3>1, ToldKept, Zenon
  <2> QED BY <2>1, Zenon
<1>3. InTurn(c)'
  <2>1. ASSUME NEW k \in DOMAIN issued'[From(c)], issued'[From(c)][k].to = To(c)
        PROVE  (\A m \in Messages(c) : k < m.op[2]) \/ \E m \in Messages(c) : m.op[2] = k
    <3>1. k \in DOMAIN issued[From(c)] /\ issued[From(c)][k].to = To(c)
      BY <2>1, Zenon DEF Grown
    <3> QED BY <3>1, Zenon DEF LinkOK, InTurn, Passed
  <2> QED BY <1>1, <2>1, Zenon DEF InTurn, Passed, From, To
<1> QED BY <1>1, <1>2, <1>3, Zenon DEF LinkOK

-----------------------------------------------------------------------------
(* The links of requests through the steps.                                *)

\* No put leaves link c but into a lost stream.
Delivered(c) == \A m \in Messages(c) : m \in Messages(c)' \/ m.op \in lost' \/ m.msg_type # "RmaPut"

\* An operation that is issued is on its way.
Sent(c) ==
  \A k \in DOMAIN issued'[From(c)] :
    k \in DOMAIN issued[From(c)] \/ issued'[From(c)][k].to # To(c) \/ ~ Passed(c, k)'

LinkStep == LinkInv' /\ \A c \in Requests : Delivered(c) /\ Sent(c)

LEMMA QuietDelivered ==
  ASSUME NEW c \in Requests, Messages(c)' = Messages(c), issued'[From(c)] = issued[From(c)]
  PROVE  Delivered(c) /\ Sent(c)
BY Zenon DEF Delivered, Sent

LEMMA QuietRequests ==
  ASSUME TypeOK, LinkInv, NEW c \in Requests, queue'[c] = queue[c], stream'[c] = stream[c],
         issued'[From(c)] = issued[From(c)]
  PROVE  LinkOK(c)' /\ Delivered(c) /\ Sent(c)
<1>1. LinkOK(c) /\ Grown(From(c))
  BY Zenon DEF LinkInv, Grown
<1>2. LinkOK(c)' /\ Messages(c)' = Messages(c)
  BY <1>1, LinkQuiet, Zenon
<1> QED BY <1>2, QuietDelivered, Zenon

LEMMA QuietLinkStep ==
  ASSUME TypeOK, LinkInv, UNCHANGED <<queue, stream, reader, issued>>
  PROVE  LinkStep
<1>1. \A c \in Requests : LinkOK(c)' /\ Delivered(c) /\ Sent(c)
  BY QuietRequests, Zenon
<1>2. EndedEmpty'
  BY Zenon DEF LinkInv, EndedEmpty
<1> QED BY <1>1, <1>2, Zenon DEF LinkStep, LinkInv

LEMMA IssuedIndex ==
  ASSUME TypeOK, NEW p \in Procs, NEW o \in RmaOp, issued' = [issued EXCEPT ![p] = Append(@, o)]
  PROVE  /\ Len(issued[p]) \in Nat /\ DOMAIN issued[p] = 1 .. Len(issued[p])
         /\ DOMAIN issued'[p] = 1 .. Len(issued[p]) + 1
         /\ issued'[p][Len(issued[p]) + 1] = o
         /\ \A r \in Procs : Grown(r) /\ (r # p => issued'[r] = issued[r])
<1> DEFINE s == issued[p]
           t == Append(s, o)
<1>1. issued \in [Procs -> Seq(RmaOp)] /\ s \in Seq(RmaOp)
  BY Zenon DEF TypeOK
<1>2. /\ Len(s) \in Nat /\ DOMAIN s = 1 .. Len(s) /\ DOMAIN t = 1 .. Len(s) + 1
      /\ t[Len(s) + 1] = o /\ \A k \in 1 .. Len(s) : t[k] = s[k]
  BY <1>1, SeqElements, SeqAppend
<1> HIDE DEF t
<1>3. issued' = [issued EXCEPT ![p] = t]
  BY Zenon DEF t
<1>4. issued'[p] = t /\ \A r \in Procs : r # p => issued'[r] = issued[r]
  BY <1>1, <1>3, Zenon
<1>5. \A k \in 1 .. Len(s) : k \in 1 .. Len(s) + 1
  BY <1>2
<1>6. ASSUME NEW r \in Procs PROVE Grown(r)
  <2>1. CASE r = p
    BY <1>2, <1>4, <1>5, <2>1, Zenon DEF Grown
  <2>2. CASE r # p
    BY <1>4, <2>2, Zenon DEF Grown
  <2> QED BY <2>1, <2>2, Zenon
<1> QED BY <1>2, <1>4, <1>6, Zenon

\* A put or a get.
LEMMA IssueLinks ==
  ASSUME TypeOK, LinkInv, NEW p \in Procs, NEW o \in RmaOp, NEW request \in OutboundMsg, NEW type, NEW data,
         \/ type = "RmaPut" /\ o.type = "put" /\ request.header.payload_size = o.length
         \/ type = "RmaGetReq" /\ o.type = "get",
         request = Request(p, type, o, data), MsgFilled(request),
         issued' = [issued EXCEPT ![p] = Append(@, o)], Enqueue(p, o.to, request), UNCHANGED <<stream, reader>>
  PROVE  LinkStep
\* A process issues an operation on the link.
<1>LinkEnqueue.
      ASSUME TypeOK, NEW c \in Requests, LinkOK(c), NEW msg \in OutboundMsg, MsgFilled(msg), Told(c, msg.header)',
             queue'[c] = Append(queue[c], msg), stream'[c] = stream[c],
             NEW n \in Nat, DOMAIN issued[From(c)] = 1 .. n, DOMAIN issued'[From(c)] = 1 .. n + 1,
             Grown(From(c)), msg.header.op[2] = n + 1
      PROVE  LinkOK(c)' /\ Messages(c)' = Messages(c) \cup {msg.header}
  <2> USE <1>LinkEnqueue
  <2>AppendSorted.
        ASSUME NEW q \in Seq(OutboundMsg), QueueSorted(q), NEW last \in OutboundMsg,
               \A m \in Range(q) : m.header.op[2] < last.header.op[2]
        PROVE  QueueSorted(Append(q, last))
    <3> USE <2>AppendSorted
    <3> DEFINE len == Len(q)
               t == Append(q, last)
    <3>1. /\ len \in Nat /\ DOMAIN q = 1 .. len /\ DOMAIN t = 1 .. len + 1
          /\ \A i \in 1 .. len : t[i] = q[i]
          /\ t[len + 1] = last
      BY SeqElements, SeqAppend
    <3> HIDE DEF len, t
    <3>2. ASSUME NEW i \in 1 .. len + 1, NEW j \in 1 .. len + 1, i < j
          PROVE  t[i].header.op[2] < t[j].header.op[2]
      <4>1. i \in 1 .. len /\ t[i] = q[i] /\ q[i] \in Range(q)
        BY <3>1, <3>2 DEF Range
      <4>2. CASE j = len + 1
        BY <3>1, <4>1, <4>2, Zenon
      <4>3. CASE j \in 1 .. len
        BY <3>1, <3>2, <4>1, <4>3, Zenon DEF QueueSorted
      <4> QED BY <3>1, <4>2, <4>3
    <3>3. QueueSorted(t)
      BY <3>1, <3>2, Zenon DEF QueueSorted
    <3> QED BY <3>3, Zenon DEF t
  <2> DEFINE q == queue[c]
  <2>1. c \in Links /\ q \in Seq(OutboundMsg)
    BY RequestLink, Zenon DEF TypeOK
  <2>2. Range(queue'[c]) = Range(q) \cup {msg}
    BY <2>1, RangeAppend
  <2>3. {m.header : m \in Range(queue'[c])} = {m.header : m \in Range(q)} \cup {msg.header}
    BY <2>2, Zenon
  <2>4. Messages(c)' = Messages(c) \cup {msg.header}
    BY <2>3, Zenon DEF Messages
  <2>5. ASSUME NEW m \in Messages(c) PROVE m.op[2] \in Nat /\ m.op[2] <= n /\ m.op[2] < msg.header.op[2]
    <3>1. m.op[2] \in 1 .. n
      BY Zenon DEF LinkOK, Told
    <3> QED BY <3>1
  <2>6. \A m \in Messages(c)' : Told(c, m)'
    <3>1. ASSUME NEW m \in Messages(c) PROVE Told(c, m)'
      <4>1. Told(c, m)
        BY Zenon DEF LinkOK
      <4> QED BY <4>1, ToldKept, Zenon
    <3> QED BY <2>4, <3>1, Zenon
  <2>7. QueueSorted(queue'[c])
    <3>1. \A m \in Range(q) : m.header.op[2] < msg.header.op[2]
      BY <2>5, Zenon DEF Messages
    <3>2. QueueSorted(q)
      BY Zenon DEF LinkOK
    <3> QED BY <2>1, <3>1, <3>2, <2>AppendSorted, Zenon
  <2>8. \A h \in HeadersOf(stream'[c]) : \A m \in Range(queue'[c]) : h.op[2] < m.header.op[2]
    <3>1. \A h \in HeadersOf(stream[c]) : h.op[2] < msg.header.op[2]
      BY <2>5, Zenon DEF Messages
    <3>2. \A h \in HeadersOf(stream[c]) : \A m \in Range(q) : h.op[2] < m.header.op[2]
      BY Zenon DEF LinkOK
    <3> QED BY <2>2, <3>1, <3>2, Zenon
  <2>9. InTurn(c)'
    <3>1. ASSUME NEW k \in 1 .. n + 1, issued'[From(c)][k].to = To(c)
          PROVE  (\A m \in Messages(c)' : k < m.op[2]) \/ \E m \in Messages(c)' : m.op[2] = k
      <4>1. CASE k = n + 1
        BY <2>4, <4>1, Zenon
      <4>2. CASE k \in 1 .. n
        <5>1. issued[From(c)][k].to = To(c)
          BY <3>1, <4>2, Zenon DEF Grown
        <5>2. (\A m \in Messages(c) : k < m.op[2]) \/ \E m \in Messages(c) : m.op[2] = k
          BY <4>2, <5>1, Zenon DEF LinkOK, InTurn, Passed
        <5>3. k < msg.header.op[2]
          BY <4>2
        <5> QED BY <2>4, <5>2, <5>3, Zenon
      <4> QED BY <4>1, <4>2
    <3> QED BY <3>1, Zenon DEF InTurn, Passed, From, To
  <2>10. \A m \in Range(queue'[c]) : MsgFilled(m)
    BY <2>2, Zenon DEF LinkOK
  <2> QED BY <2>4, <2>6, <2>7, <2>8, <2>9, <2>10, Zenon DEF LinkOK
<1> DEFINE q == o.to
           d == <<p, q, "cmd">>
           n == Len(issued[p])
<1>1. q \in Procs /\ d \in Requests /\ d \in Links /\ From(d) = p /\ To(d) = q
  BY Zenon DEF RmaOp, Requests, Links, Pools, From, To
<1>2. /\ n \in Nat /\ DOMAIN issued[p] = 1 .. n /\ DOMAIN issued'[p] = 1 .. n + 1 /\ issued'[p][n + 1] = o
      /\ \A r \in Procs : Grown(r) /\ (r # p => issued'[r] = issued[r])
  BY IssuedIndex, Zenon
<1>3. /\ request.header.msg_type = type /\ request.header.source_peer_id = p /\ request.header.handle_id = o.handle_id
      /\ request.header.offset = o.offset /\ request.header.rma_length = o.length
      /\ request.header.op = <<p, n + 1>>
  BY Zenon DEF Request, NextOp
<1>4. queue' = [queue EXCEPT ![d] = Append(queue[d], request)]
  BY <1>3, Zenon DEF Enqueue, PoolFor
<1>5. request.header.op[1] = p /\ request.header.op[2] = n + 1
  BY <1>3
<1> HIDE DEF q, d, n
<1>6. queue'[d] = Append(queue[d], request) /\ \A c \in Links : c # d => queue'[c] = queue[c]
  BY <1>1, <1>4, Zenon DEF TypeOK
<1>7. Told(d, request.header)'
  <2>1. n + 1 \in DOMAIN issued'[p]
    BY <1>2
  <2>2. From(d) = p /\ To(d) = q /\ o.to = q
    BY <1>1, Zenon DEF q
  <2>3. LET h == request.header
            x == issued'[From(d)][h.op[2]]
        IN /\ h.op[1] = From(d) /\ h.op[2] \in DOMAIN issued'[From(d)] /\ h.source_peer_id = From(d)
           /\ x.to = To(d) /\ x.handle_id = h.handle_id /\ x.offset = h.offset /\ x.length = h.rma_length
           /\ \/ h.msg_type = "RmaPut" /\ x.type = "put" /\ h.payload_size = x.length
              \/ h.msg_type = "RmaGetReq" /\ x.type = "get"
    BY <1>2, <1>3, <1>5, <2>1, <2>2, Zenon
  <2> QED BY <2>3, Zenon DEF Told, From, To
<1>8. LinkOK(d)' /\ Messages(d)' = Messages(d) \cup {request.header}
  <2>1. LinkOK(d)
    BY <1>1, Zenon DEF LinkInv
  <2> QED BY <1>1, <1>2, <1>5, <1>6, <1>7, <2>1, <1>LinkEnqueue
<1>9. ASSUME NEW c \in Requests, c # d PROVE LinkOK(c)' /\ Messages(c)' = Messages(c)
  <2>1. LinkOK(c) /\ c \in Links /\ From(c) \in Procs /\ c = <<From(c), To(c), "cmd">>
    BY RequestLink, Zenon DEF LinkInv
  <2>2. queue'[c] = queue[c] /\ stream'[c] = stream[c] /\ Grown(From(c))
    BY <1>2, <1>6, <1>9, <2>1, Zenon
  <2>3. ASSUME NEW k \in DOMAIN issued'[From(c)], k \notin DOMAIN issued[From(c)]
        PROVE  issued'[From(c)][k].to # To(c)
    <3>1. From(c) = p /\ k = n + 1
      BY <1>2, <2>1, <2>3
    <3>2. To(c) # q
      BY <1>9, <2>1, <3>1, Zenon DEF d
    <3> QED BY <1>2, <3>1, <3>2, Zenon DEF q
  <2> QED BY <2>1, <2>2, <2>3, LinkQuiet, Zenon
<1>10. \A c \in Requests : LinkOK(c)' /\ Messages(c) \subseteq Messages(c)'
  BY <1>8, <1>9, Zenon
<1>11. \A c \in Requests : Delivered(c)
  BY <1>10, Zenon DEF Delivered
<1>12. ASSUME NEW c \in Requests PROVE Sent(c)
  <2>1. ASSUME NEW k \in DOMAIN issued'[From(c)], k \notin DOMAIN issued[From(c)],
               issued'[From(c)][k].to = To(c)
        PROVE  ~ Passed(c, k)'
    <3>1. From(c) \in Procs /\ c = <<From(c), To(c), "cmd">>
      BY RequestLink, Zenon
    <3>2. From(c) = p /\ k = n + 1
      BY <1>2, <2>1, <3>1
    <3>3. c = d
      BY <1>2, <2>1, <3>1, <3>2, Zenon DEF d, q
    <3>4. request.header \in Messages(c)' /\ ~ (k < request.header.op[2])
      BY <1>2, <1>5, <1>8, <3>2, <3>3
    <3> QED BY <3>4, Zenon DEF Passed
  <2> QED BY <2>1, Zenon DEF Sent
<1>13. EndedEmpty'
  BY Zenon DEF LinkInv, EndedEmpty
<1> QED BY <1>10, <1>11, <1>12, <1>13, Zenon DEF LinkStep, LinkInv

\* A writer keeps the requests in order, and all it does not lose.
LEMMA WriteLinks ==
  ASSUME WireInv, LinkInv
  PROVE  \A c \in Links : Write(c) => LinkStep
\* The writer puts its next message on the stream.
<1>LinkWrite.
      ASSUME NEW c \in Requests, LinkOK(c), issued'[From(c)] = issued[From(c)],
             queue[c] # <<>>, queue'[c] = Tail(queue[c]),
             stream'[c] = stream[c] \o Encoded(Head(queue[c]))
      PROVE  LinkOK(c)' /\ Messages(c)' = Messages(c)
  <2> USE <1>LinkWrite
  <2>EncodedCells.
        ASSUME NEW msg \in OutboundMsg, NEW j \in 2 .. Len(msg.payload) + 1
        PROVE  j - 1 \in DOMAIN msg.payload /\ Encoded(msg)[j].value = msg.payload[j - 1]
    <3> DEFINE n == Len(msg.payload)
               a == <<[kind |-> "header", header |-> msg.header]>>
               b == [i \in DOMAIN msg.payload |-> [kind |-> "cell", value |-> msg.payload[i]]]
    <3>1. msg.header \in Header /\ msg.payload \in Seq(Value)
      BY MsgFields, Zenon
    <3>2. n \in Nat /\ DOMAIN msg.payload = 1 .. n /\ \A i \in 1 .. n : msg.payload[i] \in Value
      BY <3>1, SeqElements, Zenon
    <3>3. a \in Seq(Unit) /\ Len(a) = 1
      BY <3>1, UnitFields
    <3>4. b \in [1 .. n -> Unit] /\ \A i \in 1 .. n : b[i].value = msg.payload[i]
      BY <3>2, UnitFields, Zenon
    <3>5. Encoded(msg) = a \o b
      BY Zenon DEF Encoded
    <3> HIDE DEF a, b, n
    <3>6. b \in Seq(Unit) /\ DOMAIN b = 1 .. n
      BY <3>2, <3>4, SeqOf, Zenon
    <3>7. Len(b) \in Nat /\ 1 .. Len(b) = 1 .. n
      BY <3>6, SeqElements, Zenon
    <3>8. Len(b) = n
      BY <3>2, <3>7
    <3>9. j \in 1 .. 1 + n /\ j > 1 /\ j - 1 \in 1 .. n
      BY <3>2 DEF n
    <3>10. \A i \in 1 .. Len(a) + Len(b) : i > Len(a) => (a \o b)[i] = b[i - Len(a)]
      BY <3>3, <3>6, ConcatIndex, Zenon
    <3>11. (a \o b)[j] = b[j - 1]
      BY <3>3, <3>8, <3>9, <3>10, Zenon
    <3> QED BY <3>2, <3>4, <3>5, <3>9, <3>11, Zenon
  \* A header of a stream that a writer has extended is an old one or the new one.
  <2>EncodedIndex.
        ASSUME NEW s \in Seq(Unit), NEW msg \in OutboundMsg
        PROVE  LET t == s \o Encoded(msg) IN
               /\ DOMAIN s = 1 .. Len(s) /\ Len(s) \in Nat /\ Len(msg.payload) \in Nat
               /\ DOMAIN t = 1 .. Len(s) + (Len(msg.payload) + 1)
               /\ \A i \in 1 .. Len(s) : t[i] = s[i]
               /\ t[Len(s) + 1] = [kind |-> "header", header |-> msg.header]
               /\ \A i \in DOMAIN t : i > Len(s) + 1 =>
                    t[i].kind = "cell" /\ i - Len(s) - 1 \in DOMAIN msg.payload
                      /\ t[i].value = msg.payload[i - Len(s) - 1]
    <3> DEFINE e == Encoded(msg)
               t == s \o e
               l == Len(s)
               n == Len(msg.payload)
    <3>1. /\ e \in Seq(Unit) /\ Len(e) = n + 1 /\ e[1] = [kind |-> "header", header |-> msg.header]
          /\ \A j \in 2 .. n + 1 : e[j].kind = "cell"
      BY EncodedProperties, Zenon
    <3>2. \A j \in 2 .. n + 1 : j - 1 \in DOMAIN msg.payload /\ e[j].value = msg.payload[j - 1]
      BY <2>EncodedCells, Zenon
    <3>3. n \in Nat
      BY MsgFields, SeqElements, Zenon
    <3> HIDE DEF e, n
    <3>4. /\ l \in Nat /\ DOMAIN s = 1 .. l /\ DOMAIN t = 1 .. l + (n + 1)
          /\ \A i \in 1 .. l : t[i] = s[i]
          /\ \A i \in 1 .. l + (n + 1) : i > l => i - l \in 1 .. n + 1 /\ t[i] = e[i - l]
      <4>0. e \in Seq(Unit)
        BY <3>1, Zenon
      <4>1. /\ l \in Nat /\ DOMAIN s = 1 .. l /\ DOMAIN t = 1 .. l + Len(e)
            /\ \A i \in 1 .. l : t[i] = s[i]
            /\ \A i \in 1 .. l + Len(e) : i > l => i - l \in 1 .. Len(e) /\ t[i] = e[i - l]
        BY <4>0, ConcatIndex
      <4> HIDE DEF t, l
      <4> QED BY <3>1, <4>1, Zenon
    <3> HIDE DEF t, l
    <3>5. t[l + 1] = e[1]
      <4>1. l + 1 \in 1 .. l + (n + 1) /\ l + 1 > l /\ l + 1 - l = 1
        BY <3>3, <3>4
      <4> QED BY <3>4, <4>1
    <3>6. ASSUME NEW i \in DOMAIN t, i > l + 1
          PROVE  t[i].kind = "cell" /\ i - l - 1 \in DOMAIN msg.payload /\ t[i].value = msg.payload[i - l - 1]
      <4>1. i \in 1 .. l + (n + 1) /\ i > l /\ i - l \in 2 .. n + 1
        BY <3>3, <3>4, <3>6
      <4>2. t[i] = e[i - l]
        BY <3>4, <4>1, Zenon
      <4>3. e[i - l].kind = "cell" /\ i - l - 1 \in DOMAIN msg.payload /\ e[i - l].value = msg.payload[i - l - 1]
        BY <3>1, <3>2, <4>1, Zenon
      <4> QED BY <4>2, <4>3, Zenon
    <3> QED BY <3>1, <3>3, <3>4, <3>5, <3>6, Zenon DEF t, e, l, n
  <2>SortedEncoded.
        ASSUME NEW s \in Seq(Unit), Sorted(s), NEW msg \in OutboundMsg,
               \A h \in HeadersOf(s) : h.op[2] < msg.header.op[2]
        PROVE  Sorted(s \o Encoded(msg))
    <3> USE <2>SortedEncoded
    <3> DEFINE t == s \o Encoded(msg)
               l == Len(s)
               n == Len(msg.payload)
    <3>1. /\ DOMAIN s = 1 .. l /\ l \in Nat /\ n \in Nat /\ DOMAIN t = 1 .. l + (n + 1)
          /\ \A i \in 1 .. l : t[i] = s[i]
          /\ t[l + 1] = [kind |-> "header", header |-> msg.header]
          /\ \A i \in DOMAIN t : i > l + 1 => t[i].kind = "cell"
      BY <2>EncodedIndex, ZenonT(30)
    <3> HIDE DEF t, l, n
    <3>2. t[l + 1].header = msg.header
      BY <3>1
    <3>3. ASSUME NEW i \in DOMAIN t, NEW j \in DOMAIN t, i < j, t[i].kind = "header", t[j].kind = "header"
          PROVE  t[i].header.op[2] < t[j].header.op[2]
      <4>1. j <= l + 1
        <5>1. CASE j > l + 1
          BY <3>1, <3>3, <5>1, Zenon
        <5> QED BY <3>1, <5>1
      <4>2. CASE j <= l
        <5>1. i \in 1 .. l /\ j \in 1 .. l
          BY <3>1, <3>3, <4>2
        <5>2. t[i] = s[i] /\ t[j] = s[j] /\ i \in DOMAIN s /\ j \in DOMAIN s
          BY <3>1, <5>1, Zenon
        <5> QED BY <3>3, <5>2, Zenon DEF Sorted
      <4>3. CASE j = l + 1
        <5>1. i \in 1 .. l
          BY <3>1, <3>3, <4>3
        <5>2. t[i] = s[i] /\ i \in DOMAIN s
          BY <3>1, <5>1, Zenon
        <5>3. s[i].header \in HeadersOf(s)
          BY <3>3, <5>2, Zenon DEF HeadersOf, Range
        <5> QED BY <3>2, <4>3, <5>2, <5>3, Zenon
      <4> QED BY <3>1, <4>1, <4>2, <4>3
    <3>4. Sorted(t)
      BY <3>3, Zenon DEF Sorted
    <3> QED BY <3>4, Zenon DEF t
  <2>FilledEncoded.
        ASSUME NEW s \in Seq(Unit), Framed(s), Filled(s), NEW msg \in OutboundMsg, MsgFilled(msg),
               msg.header.payload_size = Len(msg.payload)
        PROVE  Filled(s \o Encoded(msg))
    <3> USE <2>FilledEncoded
    <3> DEFINE t == s \o Encoded(msg)
               l == Len(s)
               n == Len(msg.payload)
    <3>1. /\ DOMAIN s = 1 .. l /\ l \in Nat /\ n \in Nat /\ DOMAIN t = 1 .. l + (n + 1)
          /\ \A i \in 1 .. l : t[i] = s[i]
          /\ t[l + 1] = [kind |-> "header", header |-> msg.header]
          /\ \A i \in DOMAIN t : i > l + 1 =>
               t[i].kind = "cell" /\ i - l - 1 \in DOMAIN msg.payload
                 /\ t[i].value = msg.payload[i - l - 1]
      BY <2>EncodedIndex, Zenon
    <3>2. \A i \in 1 .. l : s[i] \in Unit
      BY SeqElements, Zenon
    <3>3. msg.header.payload_size = n
      BY Zenon
    <3>4. \A i \in DOMAIN s : s[i].kind = "header" => i + s[i].header.payload_size <= l
      BY Zenon DEF Framed
    <3> HIDE DEF t, l, n
    <3>5. t[l + 1].header = msg.header
      BY <3>1
    <3>6. ASSUME NEW i \in DOMAIN t, t[i].kind = "header", t[i].header.msg_type = "RmaPut",
                 NEW j \in i + 1 .. i + t[i].header.payload_size
          PROVE  t[j].value = t[i].header.op
      <4>1. i <= l + 1
        <5>1. CASE i > l + 1
          BY <3>1, <3>6, <5>1, Zenon
        <5> QED BY <3>1, <5>1
      <4>2. CASE i <= l
        <5>1. i \in 1 .. l /\ t[i] = s[i] /\ i \in DOMAIN s
          BY <3>1, <4>2
        <5>2. s[i].header.payload_size \in Nat /\ i + s[i].header.payload_size <= l
          BY <3>2, <3>4, <3>6, <5>1, UnitFields, HeaderFields, Zenon
        <5>3. j \in 1 .. l /\ j \in i + 1 .. i + s[i].header.payload_size
          <6> DEFINE z == s[i].header.payload_size
          <6>1. j \in i + 1 .. i + z /\ z \in Nat /\ i + z <= l
            BY <5>1, <5>2, Zenon
          <6> HIDE DEF z
          <6>2. j \in 1 .. l
            BY <3>1, <5>1, <6>1
          <6> QED BY <6>1, <6>2, Zenon DEF z
        <5>4. s[j].value = s[i].header.op
          BY <3>6, <5>1, <5>3, Zenon DEF Filled
        <5>5. t[j] = s[j]
          BY <3>1, <5>3, Zenon
        <5> QED BY <5>1, <5>4, <5>5, Zenon
      <4>3. CASE i = l + 1
        <5>1. t[i].header = msg.header /\ msg.header.msg_type = "RmaPut" /\ j \in i + 1 .. i + n
          BY <3>3, <3>5, <3>6, <4>3, Zenon
        <5>2. j \in DOMAIN t /\ j > l + 1
          BY <3>1, <4>3, <5>1
        <5>3. t[j].value = msg.payload[j - l - 1] /\ j - l - 1 \in DOMAIN msg.payload
          BY <3>1, <5>2, Zenon
        <5>4. msg.payload[j - l - 1] = msg.header.op
          BY <5>1, <5>3, Zenon DEF MsgFilled
        <5> QED BY <5>1, <5>3, <5>4, Zenon
      <4> QED BY <3>1, <4>1, <4>2, <4>3
    <3>7. Filled(t)
      BY <3>6, Zenon DEF Filled
    <3> QED BY <3>7, Zenon DEF t
  <2>EncodedContains.
        ASSUME NEW s \in Seq(Unit), NEW msg \in OutboundMsg
        PROVE  HeadersOf(s) \cup {msg.header} \subseteq HeadersOf(s \o Encoded(msg))
    <3> DEFINE t == s \o Encoded(msg)
               l == Len(s)
               n == Len(msg.payload)
    <3>1. /\ DOMAIN s = 1 .. l /\ l \in Nat /\ n \in Nat /\ DOMAIN t = 1 .. l + (n + 1)
          /\ \A i \in 1 .. l : t[i] = s[i]
          /\ t[l + 1] = [kind |-> "header", header |-> msg.header]
      BY <2>EncodedIndex, Zenon
    <3> HIDE DEF t, l, n
    <3>2. t[l + 1].header = msg.header /\ t[l + 1].kind = "header" /\ l + 1 \in DOMAIN t
      BY <3>1
    <3>3. msg.header \in HeadersOf(t)
      BY <3>2, Zenon DEF HeadersOf, Range
    <3>4. Range(s) \subseteq Range(t)
      BY <3>1 DEF Range
    <3>5. HeadersOf(s) \subseteq HeadersOf(t)
      BY <3>4, HeadersSubset, Zenon
    <3> QED BY <3>3, <3>5, Zenon DEF t
  <2> DEFINE q == queue[c]
             msg == Head(q)
             t == Tail(q)
             s == stream[c]
             u == s \o Encoded(msg)
  <2>1. TypeOK /\ c \in Links /\ q \in Seq(OutboundMsg) /\ s \in Seq(Unit) /\ Framed(s)
    BY RequestLink, Zenon DEF WireInv, TypeOK, StreamsFramed
  <2>2. /\ Sorted(s) /\ QueueSorted(q) /\ Filled(s) /\ \A m \in Range(q) : MsgFilled(m)
        /\ \A h \in HeadersOf(s) : \A m \in Range(q) : h.op[2] < m.header.op[2]
    BY Zenon DEF LinkOK
  <2>3. /\ t \in Seq(OutboundMsg) /\ msg \in OutboundMsg /\ QueueSorted(t) /\ Range(q) = Range(t) \cup {msg}
        /\ \A m \in Range(t) : msg.header.op[2] < m.header.op[2]
    BY <2>1, <2>2, TailSorted, Zenon
  <2>4. msg.header.payload_size = Len(msg.payload)
    BY <2>1, <2>3, Zenon DEF WireInv, SizesTrue
  <2>5. MsgFilled(msg) /\ \A h \in HeadersOf(s) : h.op[2] < msg.header.op[2]
    BY <2>2, <2>3, Zenon
  <2> HIDE DEF msg, t, q, s
  <2>6. Sorted(u) /\ Filled(u)
    BY <2>1, <2>2, <2>3, <2>4, <2>5, <2>SortedEncoded, <2>FilledEncoded, Zenon
  <2>7. HeadersOf(u) = HeadersOf(s) \cup {msg.header}
    <3>1. HeadersOf(u) \subseteq HeadersOf(s) \cup {msg.header}
      BY <2>1, <2>3, EncodedHeaders, Zenon
    <3>2. HeadersOf(s) \cup {msg.header} \subseteq HeadersOf(u)
      BY <2>1, <2>3, <2>EncodedContains, Zenon
    <3> QED BY <3>1, <3>2, Zenon
  <2> HIDE DEF u
  <2>8. queue'[c] = t /\ stream'[c] = u /\ queue[c] = q /\ stream[c] = s
    BY Zenon DEF t, u, q, s, msg
  <2>9. Messages(c)' = Messages(c)
    <3>1. Messages(c) = {m.header : m \in Range(q)} \cup HeadersOf(s)
      BY <2>8, Zenon DEF Messages
    <3>2. Messages(c)' = {m.header : m \in Range(t)} \cup HeadersOf(u)
      BY <2>8, Zenon DEF Messages
    <3>3. {m.header : m \in Range(q)} = {m.header : m \in Range(t)} \cup {msg.header}
      BY <2>3, Zenon
    <3> QED BY <2>7, <3>1, <3>2, <3>3, Zenon
  <2>10. \A h \in HeadersOf(u) : \A m \in Range(t) : h.op[2] < m.header.op[2]
    BY <2>2, <2>3, <2>7, Zenon
  <2>11. LinkOK(c)'
    BY <2>1, <2>3, <2>6, <2>8, <2>9, <2>10, LinkShrinks, Zenon
  <2> QED BY <2>9, <2>11, Zenon
\* The message a writer takes for a stream that has ended is lost.
<1>LinkLose.
      ASSUME NEW c \in Requests, LinkOK(c), issued'[From(c)] = issued[From(c)],
             queue[c] # <<>>, queue'[c] = Tail(queue[c]), stream[c] = <<>>, stream'[c] = stream[c]
      PROVE  LinkOK(c)' /\ Messages(c) = Messages(c)' \cup {Head(queue[c]).header}
  <2> USE <1>LinkLose
  <2> DEFINE q == queue[c]
             msg == Head(q)
             t == Tail(q)
  <2>1. TypeOK /\ c \in Links /\ q \in Seq(OutboundMsg)
    BY RequestLink, Zenon DEF WireInv, TypeOK
  <2>2. QueueSorted(q)
    BY Zenon DEF LinkOK
  <2>3. /\ QueueSorted(t) /\ Range(q) = Range(t) \cup {msg}
        /\ \A m \in Range(t) : msg.header.op[2] < m.header.op[2]
    BY <2>1, <2>2, TailSorted, Zenon
  <2> HIDE DEF msg, t
  <2>4. queue'[c] = t /\ HeadersOf(stream[c]) = {} /\ HeadersOf(stream'[c]) = {}
    BY DEF t, HeadersOf, Range
  <2>5. Messages(c) = {m.header : m \in Range(q)}
    BY <2>4, Zenon DEF Messages
  <2>6. Messages(c)' = {m.header : m \in Range(t)}
    BY <2>4, Zenon DEF Messages
  <2>7. Messages(c) = Messages(c)' \cup {msg.header}
    BY <2>3, <2>5, <2>6, Zenon
  <2>8. \A n \in Messages(c)' : msg.header.op[2] < n.op[2]
    BY <2>3, <2>6, Zenon
  <2>9. LinkOK(c)'
    <3>1. \A m \in Messages(c) : m \in Messages(c)' \/ \A n \in Messages(c)' : m.op[2] < n.op[2]
      BY <2>7, <2>8, Zenon
    <3>2. Sorted(stream'[c]) /\ Filled(stream'[c])
      BY Zenon DEF LinkOK
    <3>3. Range(queue'[c]) \subseteq Range(queue[c]) /\ Messages(c)' \subseteq Messages(c)
      BY <2>3, <2>4, <2>7, Zenon
    <3> QED BY <2>1, <2>3, <2>4, <3>1, <3>2, <3>3, LinkShrinks, Zenon
  <2> QED BY <2>7, <2>9, Zenon DEF msg
\* The reader drops the stream.
<1>LinkDrop.
      ASSUME TypeOK, NEW c \in Requests, LinkOK(c), issued'[From(c)] = issued[From(c)],
             queue'[c] = queue[c], stream'[c] = <<>>
      PROVE  LinkOK(c)' /\ Messages(c) = Messages(c)' \cup HeadersOf(stream[c])
  <2> USE <1>LinkDrop
  <2>1. HeadersOf(stream'[c]) = {} /\ Sorted(stream'[c]) /\ Filled(stream'[c])
    BY DEF HeadersOf, Range, Sorted, Filled
  <2>2. Messages(c)' = {m.header : m \in Range(queue[c])}
    BY <2>1, Zenon DEF Messages
  <2>3. Messages(c) = Messages(c)' \cup HeadersOf(stream[c])
    BY <2>2, Zenon DEF Messages
  <2>4. \A h \in HeadersOf(stream[c]) : \A n \in Messages(c)' : h.op[2] < n.op[2]
    BY <2>2, Zenon DEF LinkOK
  <2>5. LinkOK(c)'
    <3>1. \A m \in Messages(c) : m \in Messages(c)' \/ \A n \in Messages(c)' : m.op[2] < n.op[2]
      BY <2>3, <2>4, Zenon
    <3>2. Range(queue'[c]) \subseteq Range(queue[c]) /\ Messages(c)' \subseteq Messages(c) /\ QueueSorted(queue'[c])
      BY <2>3, Zenon DEF LinkOK
    <3> QED BY <2>1, <3>1, <3>2, LinkShrinks, Zenon
  <2> QED BY <2>3, <2>5, Zenon
<1>ReportedReader.
      ASSUME TypeOK, NEW c \in Links, NEW msg, NEW then, NEW x \in Links,
             reader' = AnswerReported(c, msg, then)
      PROVE  reader'[x] = reader[x] \/ (reader'[x] = then /\ x = <<To(c), From(c), "cmd">>)
  <2> USE <1>ReportedReader
  <2> DEFINE d == <<To(c), From(c), "cmd">>
  <2>1. d \in Links
    BY LinkEnds, Zenon
  <2> HIDE DEF d
  <2>2. reader' = reader \/ reader' = [reader EXCEPT ![d] = then]
    BY Zenon DEF AnswerReported, d
  <2>3. reader'[x] = reader[x] \/ (reader'[x] = then /\ x = d)
    BY <2>1, <2>2, Zenon DEF TypeOK
  <2> QED BY <2>3, Zenon DEF d
<1>WriteMessageLinks.
      ASSUME NEW c \in Links, WriteMessage(c)
      PROVE  LinkStep
  <2> USE <1>WriteMessageLinks
  <2> DEFINE msg == Head(queue[c])
             t == Tail(queue[c])
             u == stream[c] \o Encoded(msg)
  <2>1. /\ queue[c] # <<>> /\ reader[c] # "ended" /\ queue' = [queue EXCEPT ![c] = t]
        /\ stream' = [stream EXCEPT ![c] = u]
        /\ reader' = AnswerReported(c, msg, "reading") /\ issued' = issued
    BY Zenon DEF WriteMessage
  <2>2. TypeOK
    BY Zenon DEF WireInv
  <2> HIDE DEF t, u, msg
  <2>3. /\ queue'[c] = t /\ stream'[c] = u
        /\ \A x \in Links : x # c => queue'[x] = queue[x] /\ stream'[x] = stream[x]
    BY <2>1, <2>2, Zenon DEF TypeOK
  <2>4. ASSUME NEW x \in Requests PROVE LinkOK(x)' /\ Delivered(x) /\ Sent(x)
    <3>1. CASE x # c
      BY <2>1, <2>2, <2>3, <3>1, QuietRequests, RequestLink, Zenon
    <3>2. CASE x = c
      <4>1. LinkOK(c) /\ c \in Requests
        BY <3>2, Zenon DEF LinkInv
      <4>2. LinkOK(c)' /\ Messages(c)' = Messages(c)
        BY <2>1, <2>3, <4>1, <1>LinkWrite, Zenon DEF t, u, msg
      <4> QED BY <2>1, <3>2, <4>1, <4>2, QuietDelivered, Zenon
    <3> QED BY <3>1, <3>2, Zenon
  <2>5. EndedEmpty'
    <3>1. ASSUME NEW x \in Links, reader'[x] = "ended" PROVE stream'[x] = <<>>
      <4>1. reader[x] = "ended"
        BY <2>1, <2>2, <3>1, <1>ReportedReader, Zenon
      <4>2. x # c /\ stream[x] = <<>>
        BY <2>1, <4>1, Zenon DEF LinkInv, EndedEmpty
      <4> QED BY <2>3, <4>2, Zenon
    <3> QED BY <3>1, Zenon DEF EndedEmpty
  <2> QED BY <2>4, <2>5, Zenon DEF LinkStep, LinkInv
<1>WriteAfterEndLinks.
      ASSUME NEW c \in Links, WriteAfterEnd(c)
      PROVE  LinkStep
  <2> USE <1>WriteAfterEndLinks
  <2> DEFINE msg == Head(queue[c])
             t == Tail(queue[c])
             u == Encoded(msg)
             Again == /\ stream' = [stream EXCEPT ![c] = u]
                      /\ reader' = [reader EXCEPT ![c] = "reading"]
             Lost == lost' = lost \cup {msg.header.op} /\ UNCHANGED <<stream, reader>>
  <2>1. /\ queue[c] # <<>> /\ reader[c] = "ended" /\ queue' = [queue EXCEPT ![c] = t]
        /\ issued' = issued /\ (Again \/ Lost)
    BY Zenon DEF WriteAfterEnd
  <2>2. TypeOK /\ stream[c] = <<>>
    BY <2>1, Zenon DEF WireInv, LinkInv, EndedEmpty
  <2>3. stream[c] \o u = u
    <3>1. msg \in OutboundMsg
      BY <2>1, <2>2, SeqTail, Zenon DEF TypeOK
    <3>2. u \in Seq(Unit)
      BY <3>1, EncodedProperties, Zenon
    <3> HIDE DEF u
    <3> QED BY <2>2, <3>2
  <2> HIDE DEF t, u, msg
  <2>4. /\ queue'[c] = t /\ \A x \in Links : x # c => queue'[x] = queue[x] /\ stream'[x] = stream[x]
    BY <2>1, <2>2, Zenon DEF TypeOK
  <2>5. ASSUME NEW x \in Requests PROVE LinkOK(x)' /\ Delivered(x) /\ Sent(x)
    <3>1. CASE x # c
      BY <2>1, <2>2, <2>4, <3>1, QuietRequests, RequestLink, Zenon
    <3>2. CASE x = c /\ Again
      <4>1. LinkOK(c) /\ c \in Requests
        BY <3>2, Zenon DEF LinkInv
      <4>2. stream'[c] = u
        BY <2>2, <3>2, Zenon DEF TypeOK
      <4>3. LinkOK(c)' /\ Messages(c)' = Messages(c)
        BY <2>1, <2>3, <2>4, <4>1, <4>2, <1>LinkWrite, Zenon DEF t, u, msg
      <4> QED BY <2>1, <3>2, <4>1, <4>3, QuietDelivered, Zenon
    <3>3. CASE x = c /\ Lost
      <4>1. LinkOK(c) /\ c \in Requests
        BY <3>3, Zenon DEF LinkInv
      <4>2. LinkOK(c)' /\ Messages(c) = Messages(c)' \cup {msg.header}
        BY <2>1, <2>2, <2>4, <3>3, <4>1, <1>LinkLose, Zenon DEF t, msg
      <4>3. Delivered(c)
        BY <3>3, <4>2, Zenon DEF Delivered
      <4> QED BY <2>1, <3>3, <4>2, <4>3, Zenon DEF Sent
    <3> QED BY <2>1, <3>1, <3>2, <3>3, Zenon
  <2>6. EndedEmpty'
    <3>1. ASSUME NEW x \in Links, reader'[x] = "ended" PROVE stream'[x] = <<>>
      <4>1. CASE x # c
        <5>1. reader[x] = "ended" /\ stream'[x] = stream[x]
          BY <2>1, <2>2, <2>4, <3>1, <4>1, Zenon DEF TypeOK
        <5> QED BY <5>1, Zenon DEF LinkInv, EndedEmpty
      <4>2. CASE x = c
        <5>1. ~ Again
          BY <2>2, <3>1, <4>2, Zenon DEF TypeOK
        <5> QED BY <2>1, <2>2, <4>2, <5>1, Zenon
      <4> QED BY <4>1, <4>2, Zenon
    <3> QED BY <3>1, Zenon DEF EndedEmpty
  <2> QED BY <2>5, <2>6, Zenon DEF LinkStep, LinkInv
<1>AnswerFailsLinks.
      ASSUME NEW c \in Links, AnswerFails(c)
      PROVE  LinkStep
  <2> USE <1>AnswerFailsLinks
  <2> DEFINE msg == Head(queue[c])
             t == Tail(queue[c])
             r == <<To(c), From(c), "cmd">>
  <2>1. /\ queue[c] # <<>> /\ msg.header.msg_type = "RmaGetResp" /\ queue' = [queue EXCEPT ![c] = t]
        /\ reader' = AnswerReported(c, msg, "ended")
        /\ stream' = [stream EXCEPT ![r] = <<>>] /\ issued' = issued
        /\ lost' = lost \cup {h.op : h \in HeadersOf(stream[r])}
    BY Zenon DEF AnswerFails
  <2>2. TypeOK /\ r \in Links /\ r \in Requests
    BY LinkEnds, Zenon DEF WireInv, Requests
  <2>3. c \notin Requests
    <3>1. ASSUME c \in Requests PROVE FALSE
      <4>1. msg \in Range(queue[c])
        BY <2>1, <2>2, RangeTail, Zenon DEF TypeOK
      <4>2. msg.header \in Messages(c)
        BY <4>1, Zenon DEF Messages
      <4>3. Told(c, msg.header)
        BY <3>1, <4>2, Zenon DEF LinkInv, LinkOK
      <4> QED BY <2>1, <4>3, Zenon DEF Told
    <3> QED BY <3>1, Zenon
  <2> HIDE DEF t, msg
  <2>4. \A x \in Requests : x \in Links /\ queue'[x] = queue[x]
    BY <2>1, <2>2, <2>3, RequestLink, Zenon DEF TypeOK
  <2>5. ASSUME NEW x \in Requests PROVE LinkOK(x)' /\ Delivered(x) /\ Sent(x)
    <3> HIDE DEF r
    <3>1. CASE x # r
      <4>1. stream'[x] = stream[x]
        BY <2>1, <2>2, <2>4, <3>1, Zenon DEF TypeOK
      <4> QED BY <2>1, <2>2, <2>4, <4>1, QuietRequests, Zenon
    <3>2. CASE x = r
      <4>1. stream'[x] = <<>> /\ LinkOK(x)
        BY <2>1, <2>2, <3>2, Zenon DEF TypeOK, LinkInv
      <4>2. LinkOK(x)' /\ Messages(x) = Messages(x)' \cup HeadersOf(stream[x])
        BY <2>1, <2>2, <2>4, <4>1, <1>LinkDrop, Zenon
      <4>3. Delivered(x)
        BY <2>1, <3>2, <4>2, Zenon DEF Delivered
      <4> QED BY <2>1, <4>2, <4>3, Zenon DEF Sent
    <3> QED BY <3>1, <3>2, Zenon
  <2>6. EndedEmpty'
    <3>1. ASSUME NEW x \in Links, reader'[x] = "ended" PROVE stream'[x] = <<>>
      <4>1. reader[x] = "ended" \/ x = r
        BY <2>1, <2>2, <3>1, <1>ReportedReader, Zenon
      <4> HIDE DEF r
      <4>2. CASE x = r
        BY <2>1, <2>2, <4>2, Zenon DEF TypeOK
      <4>3. CASE x # r
        <5>1. stream'[x] = stream[x] /\ stream[x] = <<>>
          BY <2>1, <2>2, <4>1, <4>3, Zenon DEF TypeOK, LinkInv, EndedEmpty
        <5> QED BY <5>1, Zenon
      <4> QED BY <4>2, <4>3, Zenon
    <3> QED BY <3>1, Zenon DEF EndedEmpty
  <2> QED BY <2>5, <2>6, Zenon DEF LinkStep, LinkInv
<1> QED BY <1>WriteMessageLinks, <1>WriteAfterEndLinks, <1>AnswerFailsLinks, Zenon DEF Write

\* What a reader takes, and what it leaves on the links of requests.
LEMMA ReadLinks ==
  ASSUME WireInv, LinkInv, NEW c \in Links, NEW type, ReadMessage(c, type), UNCHANGED issued,
         \A x \in Requests : queue'[x] = queue[x],
         reader' = reader \/ reader' = [reader EXCEPT ![c] = "answering"]
  PROVE  /\ LinkInv' /\ \A x \in Requests : Sent(x) /\ (x # c => Delivered(x))
         /\ c \in Requests => /\ Told(c, Incoming(c)) /\ Messages(c) = Messages(c)' \cup {Incoming(c)}
                              /\ \A n \in Messages(c)' : Incoming(c).op[2] < n.op[2]
         /\ c \notin Requests => \A x \in Requests : Messages(x)' = Messages(x)
\* The reader takes the oldest message of the link.
<1>LinkRead.
      ASSUME WireInv, NEW link \in Requests, LinkOK(link), issued'[From(link)] = issued[From(link)],
             queue'[link] = queue[link], NEW what, ReadMessage(link, what)
      PROVE  /\ LinkOK(link)' /\ Messages(link) = Messages(link)' \cup {Incoming(link)}
             /\ \A n \in Messages(link)' : Incoming(link).op[2] < n.op[2]
  <2> USE <1>LinkRead
  \* What is left of a stream after its first message is younger.
  <2>RestSorted.
        ASSUME NEW s \in Seq(Unit), Framed(s), s # <<>>, Sorted(s), Filled(s)
        PROVE  LET t == SubSeq(s, s[1].header.payload_size + 2, Len(s)) IN
               /\ Sorted(t) /\ Filled(t)
               /\ \A h \in HeadersOf(t) : s[1].header.op[2] < h.op[2]
               /\ HeadersOf(s) = HeadersOf(t) \cup {s[1].header}
    <3> USE <2>RestSorted
    <3> DEFINE n == s[1].header.payload_size
               l == Len(s)
               t == SubSeq(s, n + 2, l)
               k == l - (n + 1)
    <3>1. l \in Nat \ {0} /\ DOMAIN s = 1 .. l /\ 1 \in DOMAIN s
      BY SeqElements, SeqEmpty
    <3>2. s[1].kind = "header" /\ s[1].header \in Header /\ n \in Nat /\ n + 1 <= l
      BY FramedRest, Zenon
    <3>3. \A j \in 2 .. 1 + n : s[j].kind = "cell"
      BY <3>1, <3>2 DEF Framed
    <3> HIDE DEF n
    <3>4. n + 2 \in Nat \ {0} /\ n + 2 <= l + 1
      BY <3>1, <3>2
    <3>5. /\ t \in Seq(Unit) /\ Len(t) = l + 1 - (n + 2)
          /\ \A j \in 1 .. l + 1 - (n + 2) : t[j] = s[(n + 2) + j - 1]
      BY <3>4, RestProperties
    <3> HIDE DEF t
    <3>6. k \in Nat /\ k = l + 1 - (n + 2) /\ l = k + (n + 1)
      BY <3>1, <3>2
    <3> HIDE DEF k, l
    <3>7. DOMAIN t = 1 .. k
      BY <3>5, <3>6, SeqElements, Zenon
    <3>8. \A j \in 1 .. k : t[j] = s[j + (n + 1)] /\ j + (n + 1) \in 1 .. l /\ j + (n + 1) > 1
      <4>1. \A j \in 1 .. k : (n + 2) + j - 1 = j + (n + 1) /\ j + (n + 1) \in 1 .. l /\ j + (n + 1) > 1
        BY <3>2, <3>6
      <4> QED BY <3>5, <3>6, <4>1, Zenon
    <3>9. Sorted(t)
      <4>1. ASSUME NEW i \in 1 .. k, NEW j \in 1 .. k, i < j, t[i].kind = "header", t[j].kind = "header"
            PROVE  t[i].header.op[2] < t[j].header.op[2]
        <5>1. i + (n + 1) < j + (n + 1)
          BY <3>2, <4>1
        <5>2. /\ t[i] = s[i + (n + 1)] /\ i + (n + 1) \in DOMAIN s
              /\ t[j] = s[j + (n + 1)] /\ j + (n + 1) \in DOMAIN s
          BY <3>1, <3>8, Zenon
        <5> QED BY <4>1, <5>1, <5>2 DEF Sorted
      <4> QED BY <3>7, <4>1, Zenon DEF Sorted
    <3>10. Filled(t)
      <4>1. ASSUME NEW i \in 1 .. k, t[i].kind = "header", t[i].header.msg_type = "RmaPut",
                   NEW j \in i + 1 .. i + t[i].header.payload_size
            PROVE  t[j].value = t[i].header.op
        <5> DEFINE o == i + (n + 1)
                   z == t[i].header.payload_size
        <5>1. t[i] = s[o] /\ o \in 1 .. l /\ o \in DOMAIN s /\ s[o] \in Unit
          BY <3>1, <3>8, SeqElements, Zenon DEF l
        <5>2. z \in Nat /\ o + z <= l
          BY <3>1, <4>1, <5>1, UnitFields, HeaderFields DEF Framed, l
        <5>3. \A x \in o + 1 .. o + z : s[x].value = s[o].header.op
          BY <4>1, <5>1, Zenon DEF Filled
        <5>4. j \in i + 1 .. i + z
          BY Zenon
        <5>5. o = i + (n + 1)
          BY Zenon
        <5>6. n \in Nat /\ k \in Nat /\ l = k + (n + 1)
          BY <3>2, <3>6, Zenon
        <5>7. i \in 1 .. k
          BY Zenon
        <5> HIDE DEF z, o, n, k, l
        <5>8. i \in Nat \ {0}
          BY <5>6, <5>7
        <5>9. j \in Nat /\ i + 1 <= j /\ j <= i + z
          BY <5>2, <5>4, <5>8
        <5>10. j \in 1 .. k /\ j + (n + 1) \in o + 1 .. o + z
          BY <5>2, <5>5, <5>6, <5>8, <5>9
        <5>11. t[j] = s[j + (n + 1)]
          BY <3>8, <5>10, Zenon
        <5> QED BY <5>1, <5>3, <5>10, <5>11, Zenon
      <4> QED BY <3>7, <4>1, Zenon DEF Filled
    <3>11. \A h \in HeadersOf(t) : s[1].header.op[2] < h.op[2]
      <4>1. ASSUME NEW j \in 1 .. k, t[j].kind = "header" PROVE s[1].header.op[2] < t[j].header.op[2]
        BY <3>1, <3>2, <3>8, <4>1 DEF Sorted
      <4> QED BY <3>7, <4>1 DEF HeadersOf, Range
    <3>12. HeadersOf(s) \subseteq HeadersOf(t) \cup {s[1].header}
      <4>1. ASSUME NEW i \in 1 .. l, s[i].kind = "header", i # 1 PROVE s[i].header \in HeadersOf(t)
        <5>1. i > 1 + n
          <6>1. CASE i \in 2 .. 1 + n
            BY <3>3, <4>1, <6>1, Zenon
          <6> QED BY <3>1, <3>2, <4>1, <6>1
        <5>2. i - (n + 1) \in 1 .. k /\ i - (n + 1) + (n + 1) = i
          BY <3>1, <3>2, <3>6, <5>1
        <5>3. t[i - (n + 1)] = s[i]
          BY <3>8, <5>2, Zenon
        <5> QED BY <3>7, <4>1, <5>2, <5>3, Zenon DEF HeadersOf, Range
      <4> QED BY <3>1, <4>1 DEF HeadersOf, Range
    <3>13. HeadersOf(t) \cup {s[1].header} \subseteq HeadersOf(s)
      <4>1. s[1].header \in HeadersOf(s)
        BY <3>1, <3>2, Zenon DEF HeadersOf, Range
      <4>2. Range(t) \subseteq Range(s)
        BY <3>1, <3>7, <3>8 DEF Range
      <4> QED BY <4>1, <4>2, HeadersSubset, Zenon
    <3> QED BY <3>9, <3>10, <3>11, <3>12, <3>13, Zenon DEF t, n, l
  <2> DEFINE s == stream[link]
             m == Incoming(link)
             t == SubSeq(s, s[1].header.payload_size + 2, Len(s))
  <2>1. TypeOK /\ link \in Links /\ s \in Seq(Unit) /\ Framed(s) /\ s # <<>>
    BY RequestLink, Zenon DEF WireInv, TypeOK, StreamsFramed, ReadMessage
  <2>2. m = s[1].header
    BY <2>1, SeqEmpty, SeqElements DEF Incoming
  <2>3. stream'[link] = t
    BY <2>1, <2>2, Zenon DEF ReadMessage, TypeOK
  <2>4. Sorted(s) /\ Filled(s)
    BY Zenon DEF LinkOK
  <2>5. /\ Sorted(t) /\ Filled(t) /\ HeadersOf(s) = HeadersOf(t) \cup {s[1].header}
        /\ \A h \in HeadersOf(t) : s[1].header.op[2] < h.op[2]
    BY <2>1, <2>4, <2>RestSorted, Zenon
  <2> HIDE DEF m, t
  <2>6. /\ Sorted(t) /\ Filled(t) /\ HeadersOf(s) = HeadersOf(t) \cup {m}
        /\ \A h \in HeadersOf(t) : m.op[2] < h.op[2]
    BY <2>2, <2>5, Zenon
  <2>7. \A h \in HeadersOf(s) : \A msg \in Range(queue[link]) : h.op[2] < msg.header.op[2]
    BY Zenon DEF LinkOK
  <2>8. Messages(link) = {msg.header : msg \in Range(queue[link])} \cup HeadersOf(s)
    BY Zenon DEF Messages
  <2> HIDE DEF s
  <2>9. Messages(link)' = {msg.header : msg \in Range(queue[link])} \cup HeadersOf(t)
    BY <2>3, Zenon DEF Messages
  <2>10. Messages(link) = Messages(link)' \cup {m}
    BY <2>6, <2>8, <2>9, Zenon
  <2>11. \A n \in Messages(link)' : m.op[2] < n.op[2]
    BY <2>6, <2>7, <2>9, Zenon
  <2>12. LinkOK(link)'
    <3>1. \A x \in Messages(link) : x \in Messages(link)' \/ \A n \in Messages(link)' : x.op[2] < n.op[2]
      BY <2>10, <2>11, Zenon
    <3>2. Range(queue'[link]) \subseteq Range(queue[link]) /\ Messages(link)' \subseteq Messages(link) /\ QueueSorted(queue'[link])
      BY <2>10, Zenon DEF LinkOK
    <3>3. \A h \in HeadersOf(stream'[link]) : \A msg \in Range(queue'[link]) : h.op[2] < msg.header.op[2]
      BY <2>3, <2>6, <2>7, Zenon
    <3>4. Sorted(stream'[link]) /\ Filled(stream'[link])
      BY <2>3, <2>6, Zenon
    <3> QED BY <2>1, <3>1, <3>2, <3>3, <3>4, LinkShrinks, Zenon
  <2> QED BY <2>10, <2>11, <2>12, Zenon DEF m
<1>1. TypeOK /\ reader[c] = "reading"
  BY Zenon DEF WireInv, ReadMessage
<1>2. \A x \in Links : x # c => stream'[x] = stream[x]
  BY <1>1, Zenon DEF ReadMessage, TypeOK
<1>3. ASSUME NEW x \in Requests, x # c PROVE LinkOK(x)' /\ Delivered(x) /\ Sent(x) /\ Messages(x)' = Messages(x)
  <2>1. stream'[x] = stream[x] /\ queue'[x] = queue[x] /\ issued' = issued
    BY <1>2, <1>3, RequestLink, Zenon
  <2>2. LinkOK(x)' /\ Delivered(x) /\ Sent(x)
    BY <1>1, <2>1, QuietRequests, Zenon
  <2> QED BY <2>1, <2>2, Zenon DEF Messages
<1>4. ASSUME c \in Requests
      PROVE  /\ LinkOK(c)' /\ Messages(c) = Messages(c)' \cup {Incoming(c)}
             /\ \A n \in Messages(c)' : Incoming(c).op[2] < n.op[2]
             /\ Sent(c) /\ Told(c, Incoming(c))
  <2>1. LinkOK(c) /\ queue'[c] = queue[c] /\ issued' = issued
    BY <1>4, Zenon DEF LinkInv
  <2>2. /\ LinkOK(c)' /\ Messages(c) = Messages(c)' \cup {Incoming(c)}
        /\ \A n \in Messages(c)' : Incoming(c).op[2] < n.op[2]
    BY <1>4, <2>1, <1>LinkRead, Zenon
  <2>3. Told(c, Incoming(c))
    BY <2>1, <2>2, Zenon DEF LinkOK
  <2> QED BY <2>1, <2>2, <2>3, Zenon DEF Sent
<1>5. EndedEmpty'
  <2>1. ASSUME NEW x \in Links, reader'[x] = "ended" PROVE stream'[x] = <<>>
    <3>1. reader[x] = "ended" /\ x # c
      BY <1>1, <2>1, Zenon DEF TypeOK
    <3> QED BY <1>2, <3>1, Zenon DEF LinkInv, EndedEmpty
  <2> QED BY <2>1, Zenon DEF EndedEmpty
<1>6. LinkInv'
  BY <1>3, <1>4, <1>5, Zenon DEF LinkInv
<1> QED BY <1>3, <1>4, <1>6, Zenon

-----------------------------------------------------------------------------
(* The operations and their answers through the steps.                     *)

\* A get that is taken off the pending ones.
LEMMA PendingTaken ==
  ASSUME TypeOK, PendingGets, NEW p \in Procs, NEW at \in DOMAIN pending_rma_ops[p],
         pending_rma_ops' = [pending_rma_ops EXCEPT ![p] = Without(@, at)], UNCHANGED issued
  PROVE  /\ PendingGets' /\ \A q \in Procs : Range(pending_rma_ops'[q]) \subseteq Range(pending_rma_ops[q])
         /\ ~ OnlyPutTo(p)'
<1>WithoutIndex.
      ASSUME NEW S, NEW s \in Seq(S), NEW i \in DOMAIN s
      PROVE  LET t == Without(s, i) IN
             \A j \in DOMAIN t :
               \/ j < i /\ j \in DOMAIN s /\ t[j] = s[j]
               \/ j >= i /\ j + 1 \in DOMAIN s /\ t[j] = s[j + 1]
  <2> DEFINE n == Len(s)
             a == SubSeq(s, 1, i - 1)
             b == SubSeq(s, i + 1, n)
             t == a \o b
  <2>1. n \in Nat /\ DOMAIN s = 1 .. n /\ i \in 1 .. n
    BY SeqElements, Zenon
  <2>2. a \in Seq(S) /\ Len(a) = i - 1 /\ \A j \in 1 .. i - 1 : a[j] = s[j]
    BY <2>1, SeqPart
  <2>3. b \in Seq(S) /\ Len(b) = n - i /\ \A j \in 1 .. n - i : b[j] = s[i + j]
    <3>1. i + 1 \in Nat \ {0} /\ i + 1 <= n + 1 /\ n + 1 - (i + 1) = n - i
      BY <2>1
    <3>2. b \in Seq(S) /\ Len(b) = n - i /\ \A j \in 1 .. n - i : b[j] = s[i + 1 + j - 1]
      BY <3>1, RestProperties
    <3>3. \A j \in 1 .. n - i : i + 1 + j - 1 = i + j
      BY <2>1
    <3> HIDE DEF b
    <3> QED BY <3>2, <3>3, Zenon
  <2> HIDE DEF a, b, n
  <2>4. /\ DOMAIN t = 1 .. Len(a) + Len(b) /\ \A j \in 1 .. Len(a) : t[j] = a[j]
        /\ \A j \in 1 .. Len(a) + Len(b) : j > Len(a) => j - Len(a) \in 1 .. Len(b) /\ t[j] = b[j - Len(a)]
    <3>1. a \in Seq(S) /\ b \in Seq(S)
      BY <2>2, <2>3, Zenon
    <3>2. DOMAIN t = 1 .. Len(a) + Len(b)
      BY <3>1, SeqConcat, SeqElements
    <3>3. \A j \in 1 .. Len(a) : t[j] = a[j]
      BY <3>1, ConcatIndex, Zenon
    <3>4. \A j \in 1 .. Len(a) + Len(b) : j > Len(a) => j - Len(a) \in 1 .. Len(b) /\ t[j] = b[j - Len(a)]
      BY <3>1, ConcatIndex, Zenon
    <3> QED BY <3>2, <3>3, <3>4, Zenon
  <2>5. i - 1 + (n - i) = n - 1
    BY <2>1
  <2>6. /\ DOMAIN t = 1 .. n - 1 /\ \A j \in 1 .. i - 1 : t[j] = s[j]
    BY <2>2, <2>3, <2>4, <2>5, Zenon
  <2> HIDE DEF t
  <2>7. ASSUME NEW j \in 1 .. n - 1, j >= i PROVE j + 1 \in 1 .. n /\ t[j] = s[j + 1]
    <3>1. j \in 1 .. i - 1 + (n - i) /\ j > i - 1 /\ j - (i - 1) \in 1 .. n - i /\ i + (j - (i - 1)) = j + 1
      BY <2>1, <2>7
    <3>2. t[j] = b[j - (i - 1)]
      BY <2>2, <2>3, <2>4, <3>1, Zenon
    <3>3. b[j - (i - 1)] = s[i + (j - (i - 1))]
      BY <2>3, <3>1, Zenon
    <3>4. t[j] = s[j + 1]
      BY <3>1, <3>2, <3>3, Zenon
    <3> QED BY <2>1, <2>7, <3>4
  <2>8. \A j \in 1 .. n - 1 : \/ j < i /\ j \in 1 .. n /\ t[j] = s[j]
                              \/ j >= i /\ j + 1 \in 1 .. n /\ t[j] = s[j + 1]
    BY <2>1, <2>6, <2>7
  <2>9. t = Without(s, i)
    BY Zenon DEF t, a, b, n, Without
  <2> QED BY <2>1, <2>6, <2>8, <2>9, Zenon
<1>WithoutDistinct.
      ASSUME NEW S, NEW s \in Seq(S), NEW i \in DOMAIN s, \A j, k \in DOMAIN s : s[j] = s[k] => j = k
      PROVE  LET t == Without(s, i) IN
             /\ \A j, k \in DOMAIN t : t[j] = t[k] => j = k
             /\ Range(t) \subseteq Range(s) /\ s[i] \notin Range(t)
  <2> USE <1>WithoutDistinct
  <2> DEFINE t == Without(s, i)
             n == Len(s)
  <2>1. n \in Nat /\ DOMAIN s = 1 .. n
    BY SeqElements, Zenon
  <2>2. t \in Seq(S)
    BY WithoutType, Zenon
  <2>3. DOMAIN t = 1 .. Len(t) /\ Len(t) \in Nat
    BY <2>2, SeqElements, Zenon
  <2>4. \A j \in DOMAIN t : \/ j < i /\ j \in DOMAIN s /\ t[j] = s[j]
                            \/ j >= i /\ j + 1 \in DOMAIN s /\ t[j] = s[j + 1]
    BY <1>WithoutIndex, Zenon
  <2> HIDE DEF t, n
  <2>5. ASSUME NEW j \in DOMAIN t, NEW k \in DOMAIN t, t[j] = t[k] PROVE j = k
    <3>1. j \in Nat /\ k \in Nat /\ i \in Nat
      BY <2>1, <2>3
    <3>2. CASE j < i /\ k < i
      BY <2>4, <2>5, <3>1, <3>2
    <3>3. CASE j >= i /\ k >= i
      <4>1. j + 1 = k + 1
        BY <2>4, <2>5, <3>1, <3>3
      <4> QED BY <3>1, <4>1
    <3>4. CASE j < i /\ k >= i
      <4>1. j = k + 1
        BY <2>4, <2>5, <3>1, <3>4
      <4> QED BY <3>1, <3>4, <4>1
    <3>5. CASE j >= i /\ k < i
      <4>1. j + 1 = k
        BY <2>4, <2>5, <3>1, <3>5
      <4> QED BY <3>1, <3>5, <4>1
    <3> QED BY <3>1, <3>2, <3>3, <3>4, <3>5
  <2>6. ASSUME NEW j \in DOMAIN t PROVE t[j] \in Range(s) /\ t[j] # s[i]
    <3>1. j \in Nat /\ i \in Nat
      BY <2>1, <2>3
    <3>2. PICK k \in DOMAIN s : t[j] = s[k] /\ k # i
      BY <2>4, <3>1
    <3> QED BY <3>2, Zenon DEF Range
  <2>7. Range(t) \subseteq Range(s) /\ s[i] \notin Range(t)
    BY <2>6, Zenon DEF Range
  <2> QED BY <2>5, <2>7, Zenon DEF t
<1> DEFINE s == pending_rma_ops[p]
           t == Without(s, at)
<1>1. s \in Seq(Nat \ {0}) /\ pending_rma_ops \in [Procs -> Seq(Nat \ {0})]
  BY Zenon DEF TypeOK
<1>2. \A j, k \in DOMAIN s : s[j] = s[k] => j = k
  BY Zenon DEF PendingGets
<1>3. /\ \A j, k \in DOMAIN t : t[j] = t[k] => j = k
      /\ Range(t) \subseteq Range(s) /\ s[at] \notin Range(t)
  BY <1>1, <1>2, <1>WithoutDistinct, Zenon
<1> HIDE DEF t
<1>4. pending_rma_ops' = [pending_rma_ops EXCEPT ![p] = t]
  BY Zenon DEF t
<1>5. pending_rma_ops'[p] = t /\ \A q \in Procs : q # p => pending_rma_ops'[q] = pending_rma_ops[q]
  BY <1>1, <1>4, Zenon
<1>6. \A q \in Procs : Range(pending_rma_ops'[q]) \subseteq Range(pending_rma_ops[q])
  BY <1>3, <1>5, Zenon
<1>7. PendingGets'
  <2>1. ASSUME NEW q \in Procs
        PROVE  \A j, k \in DOMAIN pending_rma_ops'[q] : pending_rma_ops'[q][j] = pending_rma_ops'[q][k] => j = k
    BY <1>3, <1>5 DEF PendingGets
  <2>2. ASSUME NEW q \in Procs, NEW n \in Range(pending_rma_ops'[q])
        PROVE  n \in DOMAIN issued'[q] /\ issued'[q][n].type = "get"
    BY <1>6, Zenon DEF PendingGets
  <2> QED BY <2>1, <2>2, Zenon DEF PendingGets
<1>8. s[at] \in DOMAIN issued[p] /\ issued[p][s[at]].type = "get"
  BY Zenon DEF PendingGets, Range
<1>9. ~ OnlyPutTo(p)'
  BY <1>3, <1>5, <1>8, Zenon DEF OnlyPutTo
<1> QED BY <1>6, <1>7, <1>9, Zenon

\* A get that was not pending is not pending later.
LEMMA OnlyPutBack ==
  ASSUME NEW q \in Procs, Grown(q), OnlyPutTo(q)',
         \A n \in Range(pending_rma_ops'[q]) : n \in Range(pending_rma_ops[q]) \/ n \notin DOMAIN issued[q]
  PROVE  OnlyPutTo(q)
<1>1. ASSUME NEW n \in DOMAIN issued[q], issued[q][n].type = "get" PROVE n \in Range(pending_rma_ops[q])
  <2>1. n \in DOMAIN issued'[q] /\ issued'[q][n].type = "get"
    BY <1>1, Zenon DEF Grown
  <2>2. n \in Range(pending_rma_ops'[q])
    BY <2>1, Zenon DEF OnlyPutTo
  <2> QED BY <1>1, <2>2, Zenon
<1> QED BY <1>1, Zenon DEF OnlyPutTo

\* What a step keeps of the operations.
OpStep == OpInv' /\ \A q \in Procs : Grown(q) /\ (OnlyPutTo(q)' => OnlyPutTo(q))

LEMMA OldAnswers ==
  ASSUME \A c \in Links : Range(queue'[c]) \subseteq Range(queue[c])
  PROVE  Answers' \subseteq Answers
BY Zenon DEF Answers

LEMMA AnswerTyped ==
  ASSUME TypeOK, NEW m \in Answers
  PROVE  m \in OutboundMsg
<1>1. PICK c \in Links : m \in Range(queue[c])
  BY Zenon DEF Answers
<1>2. queue[c] \in Seq(OutboundMsg)
  BY Zenon DEF TypeOK
<1>3. PICK i \in DOMAIN queue[c] : m = queue[c][i]
  BY <1>1, Zenon DEF Range
<1> QED BY <1>2, <1>3, SeqElements, Zenon

\* A step that issues no operation and sends no answer.
LEMMA QuietOps ==
  ASSUME TypeOK, OpInv, UNCHANGED issued, PendingGets',
         \A q \in Procs : Range(pending_rma_ops'[q]) \subseteq Range(pending_rma_ops[q]),
         \A q \in Procs : next_handle_id'[q] \in Nat /\ next_handle_id[q] <= next_handle_id'[q],
         \A c \in Links : Range(queue'[c]) \subseteq Range(queue[c]),
         \A c \in Links : Messages(c)' \subseteq Messages(c)
  PROVE  OpStep
<1>1. \A q \in Procs : Grown(q)
  BY Zenon DEF Grown
<1>2. \A q \in Procs : OnlyPutTo(q)' => OnlyPutTo(q)
  BY <1>1, OnlyPutBack, Zenon
<1>3. OpsIssued'
  <2>1. ASSUME NEW p \in Procs, NEW k \in DOMAIN issued[p]
        PROVE  issued[p][k].handle_id < next_handle_id'[issued[p][k].to]
    <3>1. issued[p] \in Seq(RmaOp)
      BY Zenon DEF TypeOK
    <3>2. issued[p][k] \in RmaOp
      BY <3>1, SeqElements, Zenon
    <3>3. issued[p][k].to \in Procs /\ issued[p][k].handle_id \in Nat
      BY <3>2, Zenon DEF RmaOp
    <3>4. next_handle_id[issued[p][k].to] \in Nat
      BY <3>3, Zenon DEF TypeOK
    <3>5. issued[p][k].handle_id < next_handle_id[issued[p][k].to]
      BY Zenon DEF OpInv, OpsIssued
    <3> QED BY <3>3, <3>4, <3>5
  <2> QED BY <2>1, Zenon DEF OpsIssued
<1>4. AnswersIssued'
  BY OldAnswers, Zenon DEF OpInv, AnswersIssued
<1>5. AnswersApart'
  BY Zenon DEF OpInv, AnswersApart, Requests
<1> QED BY <1>1, <1>2, <1>3, <1>4, <1>5, Zenon DEF OpStep, OpInv

\* What a message adds to the links.
LEMMA EnqueuedAnswers ==
  ASSUME TypeOK, NEW p \in Procs, NEW q \in Procs, NEW msg \in OutboundMsg, Enqueue(p, q, msg),
         \A c \in Links : HeadersOf(stream'[c]) \subseteq HeadersOf(stream[c])
  PROVE  /\ \A m \in Answers' : m \in Answers \/ m = msg
         /\ \A c \in Links : \A h \in Messages(c)' :
              h \in Messages(c) \/ (h = msg.header /\ c = <<p, q, PoolFor(msg.header.msg_type)>>)
<1>1. \A c \in Links :
        \/ queue'[c] = queue[c] /\ Messages(c)' \subseteq Messages(c)
        \/ /\ c = <<p, q, PoolFor(msg.header.msg_type)>>
           /\ Range(queue'[c]) = Range(queue[c]) \cup {msg}
           /\ Messages(c)' \subseteq Messages(c) \cup {msg.header}
  BY EnqueuedMessages, Zenon
<1>2. ASSUME NEW m \in Answers' PROVE m \in Answers \/ m = msg
  <2>1. PICK c \in Links : m \in Range(queue'[c])
    BY Zenon DEF Answers
  <2>2. m \in Range(queue[c]) \/ m = msg
    BY <1>1, <2>1, Zenon
  <2> QED BY <2>2, Zenon DEF Answers
<1>3. ASSUME NEW c \in Links, NEW h \in Messages(c)'
      PROVE  h \in Messages(c) \/ (h = msg.header /\ c = <<p, q, PoolFor(msg.header.msg_type)>>)
  BY <1>1, Zenon
<1> QED BY <1>2, <1>3, Zenon

\* A put or a get.
LEMMA IssueOps ==
  ASSUME TypeOK, OpInv, NEW p \in Procs, NEW o \in RmaOp, o.handle_id < next_handle_id[o.to],
         NEW msg \in OutboundMsg, msg.header.msg_type # "RmaGetResp", Enqueue(p, o.to, msg),
         issued' = [issued EXCEPT ![p] = Append(@, o)], UNCHANGED <<stream, next_handle_id>>,
         \/ UNCHANGED pending_rma_ops
         \/ /\ o.type = "get"
            /\ pending_rma_ops' = [pending_rma_ops EXCEPT ![p] = Append(@, NextOp(p)[2])]
  PROVE  OpStep
<1> DEFINE n == Len(issued[p])
           s == pending_rma_ops[p]
           Pending == pending_rma_ops' = [pending_rma_ops EXCEPT ![p] = Append(s, n + 1)]
<1>1. /\ n \in Nat /\ DOMAIN issued[p] = 1 .. n /\ DOMAIN issued'[p] = 1 .. n + 1 /\ issued'[p][n + 1] = o
      /\ \A r \in Procs : Grown(r) /\ (r # p => issued'[r] = issued[r])
  BY IssuedIndex, Zenon
<1>2. UNCHANGED pending_rma_ops \/ (o.type = "get" /\ Pending)
  BY Zenon DEF NextOp
<1>3. s \in Seq(Nat \ {0}) /\ pending_rma_ops \in [Procs -> Seq(Nat \ {0})] /\ n + 1 \in Nat \ {0}
  BY <1>1 DEF TypeOK
<1>4. n + 1 \notin DOMAIN issued[p] /\ n + 1 \in DOMAIN issued'[p]
  BY <1>1
<1>5. ASSUME NEW q \in Procs, NEW k \in Range(pending_rma_ops[q])
      PROVE  /\ k \in DOMAIN issued[q] /\ k \in DOMAIN issued'[q] /\ issued'[q][k].type = "get"
             /\ q = p => k # n + 1
  <2>1. k \in DOMAIN issued[q] /\ issued[q][k].type = "get"
    BY Zenon DEF OpInv, PendingGets
  <2>2. Grown(q)
    BY <1>1, Zenon
  <2>3. k \in DOMAIN issued'[q] /\ issued'[q][k].type = "get"
    BY <2>1, <2>2, Zenon DEF Grown
  <2> QED BY <1>4, <2>1, <2>3, Zenon
<1>6. PendingGets' /\ \A q \in Procs : \A k \in Range(pending_rma_ops'[q]) :
                        k \in Range(pending_rma_ops[q]) \/ k \notin DOMAIN issued[q]
  <2>1. CASE UNCHANGED pending_rma_ops
    <3>1. PendingGets'
      BY <1>5, <2>1, Zenon DEF OpInv, PendingGets
    <3> QED BY <2>1, <3>1, Zenon
  <2>2. CASE o.type = "get" /\ Pending
    <3> DEFINE t == Append(s, n + 1)
               l == Len(s)
    <3>1. /\ l \in Nat /\ DOMAIN s = 1 .. l /\ DOMAIN t = 1 .. l + 1
          /\ \A j \in 1 .. l : t[j] = s[j]
          /\ t[l + 1] = n + 1
      BY <1>3, SeqElements, SeqAppend
    <3> HIDE DEF t, l, n, s
    <3>2. Range(t) = Range(s) \cup {n + 1}
      BY <3>1 DEF Range
    <3>3. pending_rma_ops'[p] = t /\ \A q \in Procs : q # p => pending_rma_ops'[q] = pending_rma_ops[q]
      BY <1>3, <2>2, Zenon DEF t, s
    <3>4. \A j \in 1 .. l : t[j] \in Range(s) /\ t[j] # n + 1
      <4>1. \A j \in 1 .. l : s[j] \in Range(s)
        BY <3>1, Zenon DEF Range
      <4> QED BY <1>5, <3>1, <4>1, Zenon DEF s
    <3>5. \A j, k \in 1 .. l + 1 : t[j] = t[k] => j = k
      <4>1. \A j \in 1 .. l + 1 : j \in 1 .. l \/ j = l + 1
        BY <3>1
      <4>2. \A j, k \in 1 .. l : s[j] = s[k] => j = k
        BY <3>1, Zenon DEF OpInv, PendingGets, s
      <4> QED BY <3>1, <3>4, <4>1, <4>2, Zenon
    <3>6. ASSUME NEW q \in Procs, NEW k \in Range(pending_rma_ops'[q])
          PROVE  /\ k \in DOMAIN issued'[q] /\ issued'[q][k].type = "get"
                 /\ k \in Range(pending_rma_ops[q]) \/ k \notin DOMAIN issued[q]
      <4>1. CASE k \in Range(pending_rma_ops[q])
        BY <1>5, <4>1, Zenon
      <4>2. CASE q = p /\ k = n + 1
        BY <1>1, <1>4, <2>2, <4>2, Zenon
      <4>3. k \in Range(pending_rma_ops[q]) \/ (q = p /\ k = n + 1)
        <5>1. CASE q = p
          BY <3>2, <3>3, <3>6, <5>1, Zenon DEF s
        <5>2. CASE q # p
          BY <3>3, <3>6, <5>2, Zenon
        <5> QED BY <5>1, <5>2, Zenon
      <4> QED BY <4>1, <4>2, <4>3, Zenon
    <3>7. \A q \in Procs : \A j, k \in DOMAIN pending_rma_ops'[q] :
            pending_rma_ops'[q][j] = pending_rma_ops'[q][k] => j = k
      <4>1. ASSUME NEW q \in Procs, q # p
            PROVE  \A j, k \in DOMAIN pending_rma_ops[q] : pending_rma_ops[q][j] = pending_rma_ops[q][k] => j = k
        BY Zenon DEF OpInv, PendingGets
      <4> QED BY <3>1, <3>3, <3>5, <4>1, ZenonT(30)
    <3> QED BY <3>6, <3>7, Zenon DEF PendingGets
  <2> QED BY <1>2, <2>1, <2>2, Zenon
<1>7. \A q \in Procs : OnlyPutTo(q)' => OnlyPutTo(q)
  BY <1>1, <1>6, OnlyPutBack, Zenon
<1>8. OpsIssued'
  <2>1. ASSUME NEW r \in Procs, NEW k \in DOMAIN issued'[r]
        PROVE  issued'[r][k].handle_id < next_handle_id[issued'[r][k].to]
    <3>1. CASE k \in DOMAIN issued[r]
      <4>1. issued'[r][k] = issued[r][k]
        BY <1>1, <3>1, Zenon DEF Grown
      <4> QED BY <3>1, <4>1, Zenon DEF OpInv, OpsIssued
    <3>2. CASE k \notin DOMAIN issued[r]
      <4>1. r = p /\ k = n + 1
        BY <1>1, <2>1, <3>2
      <4> QED BY <1>1, <4>1, Zenon
    <3> QED BY <3>1, <3>2, Zenon
  <2> QED BY <2>1, Zenon DEF OpsIssued
<1>9. o.to \in Procs
  BY Zenon DEF RmaOp
<1>10. /\ \A m \in Answers' : m \in Answers \/ m = msg
       /\ \A c \in Links : \A h \in Messages(c)' :
            h \in Messages(c) \/ (h = msg.header /\ c = <<p, o.to, PoolFor(msg.header.msg_type)>>)
  BY <1>9, EnqueuedAnswers, Zenon
<1>11. AnswersIssued'
  <2>1. ASSUME NEW m \in Answers', m.header.msg_type = "RmaGetResp"
        PROVE  m.header.op[2] \in DOMAIN issued'[m.header.op[1]]
    <3>1. m \in Answers
      BY <1>10, <2>1, Zenon
    <3>2. m.header.op[2] \in DOMAIN issued[m.header.op[1]] /\ m \in OutboundMsg
      BY <2>1, <3>1, AnswerTyped, Zenon DEF OpInv, AnswersIssued
    <3>3. m.header.op[1] \in Procs
      BY <3>2, MsgFields, HeaderFields, OpFields, Zenon
    <3> QED BY <1>1, <3>2, <3>3, Zenon DEF Grown
  <2> QED BY <2>1, Zenon DEF AnswersIssued
<1>12. AnswersApart'
  <2>1. PoolFor(msg.header.msg_type) = "cmd"
    BY Zenon DEF PoolFor
  <2>2. ASSUME NEW c \in Links, c \notin Requests, NEW h \in Messages(c)'
        PROVE  h.msg_type = "RmaGetResp"
    <3>1. h \in Messages(c)
      BY <1>10, <2>1, <2>2 DEF Requests
    <3> QED BY <2>2, <3>1, Zenon DEF OpInv, AnswersApart
  <2> QED BY <2>2, Zenon DEF AnswersApart, Requests
<1> QED BY <1>1, <1>6, <1>7, <1>8, <1>11, <1>12, Zenon DEF OpStep, OpInv

\* The answer to a get.
LEMMA AnswerOps ==
  ASSUME TypeOK, OpInv, NEW p \in Procs, NEW q \in Procs, NEW msg \in OutboundMsg,
         msg.header.msg_type = "RmaGetResp", msg.header.op[2] \in DOMAIN issued[msg.header.op[1]],
         Enqueue(p, q, msg), \A c \in Links : HeadersOf(stream'[c]) \subseteq HeadersOf(stream[c]),
         UNCHANGED <<issued, pending_rma_ops, next_handle_id>>
  PROVE  OpStep
<1>1. \A r \in Procs : Grown(r) /\ (OnlyPutTo(r)' => OnlyPutTo(r))
  BY Zenon DEF Grown, OnlyPutTo
<1>2. PendingGets' /\ OpsIssued'
  BY Zenon DEF OpInv, PendingGets, OpsIssued
<1>3. /\ \A m \in Answers' : m \in Answers \/ m = msg
      /\ \A c \in Links : \A h \in Messages(c)' :
           h \in Messages(c) \/ (h = msg.header /\ c = <<p, q, PoolFor(msg.header.msg_type)>>)
  BY EnqueuedAnswers, Zenon
<1>4. AnswersIssued'
  BY <1>3, Zenon DEF OpInv, AnswersIssued
<1>5. AnswersApart'
  BY <1>3, Zenon DEF OpInv, AnswersApart, Requests
<1> QED BY <1>1, <1>2, <1>4, <1>5, Zenon DEF OpStep, OpInv

-----------------------------------------------------------------------------
(* What puts have written and gets have read.                              *)

\* An id that was issued is registered only as it was.
RegistryKept ==
  \A q \in Procs : \A id \in DOMAIN mem_handles'[q] :
    id < next_handle_id[q] => id \in DOMAIN mem_handles[q] /\ mem_handles'[q][id] = mem_handles[q][id]

LEMMA IssuedOp ==
  ASSUME TypeOK, NEW p \in Procs, NEW k \in DOMAIN issued[p]
  PROVE  /\ k \in Nat \ {0} /\ issued[p][k] \in RmaOp
         /\ issued[p][k].to \in Procs /\ issued[p][k].handle_id \in Nat
         /\ issued[p][k].offset \in Nat /\ issued[p][k].length \in Nat
<1>1. issued[p] \in Seq(RmaOp)
  BY Zenon DEF TypeOK
<1>2. k \in Nat \ {0} /\ issued[p][k] \in RmaOp
  BY <1>1, SeqElements
<1> QED BY <1>2, Zenon DEF RmaOp

\* The put k is behind link c after the step only if it was before.
LEMMA PassedBefore ==
  ASSUME TypeOK, LinkInv, NEW c \in Requests, Sent(c), Grown(From(c)), NEW k,
         \A m \in Messages(c) :
           m.op[2] = k => m \in Messages(c)' \/ m.op \in lost' \/ m.msg_type # "RmaPut",
         k \in DOMAIN issued'[From(c)], issued'[From(c)][k].type = "put",
         issued'[From(c)][k].to = To(c), <<From(c), k>> \notin lost', Passed(c, k)'
  PROVE  /\ k \in DOMAIN issued[From(c)] /\ issued'[From(c)][k] = issued[From(c)][k]
         /\ Passed(c, k)
<1>1. k \in DOMAIN issued[From(c)]
  BY Zenon DEF Sent
<1>2. issued'[From(c)][k] = issued[From(c)][k]
  BY <1>1, Zenon DEF Grown
<1>3. ASSUME NEW m \in Messages(c), m.op[2] = k PROVE FALSE
  <2>1. Told(c, m) /\ c \in Links
    BY RequestLink, Zenon DEF LinkInv, LinkOK
  <2>2. m.op = <<m.op[1], m.op[2]>>
    BY <2>1, MessageOps, Zenon
  <2>3. m.op = <<From(c), k>>
    BY <1>3, <2>1, <2>2, Zenon DEF Told
  <2>4. m.msg_type = "RmaPut"
    BY <1>2, <1>3, <2>1, Zenon DEF Told
  <2>5. m \in Messages(c)'
    BY <1>3, <2>3, <2>4, Zenon
  <2>6. k < k
    BY <1>3, <2>5, Zenon DEF Passed
  <2>7. k \in Nat
    BY <1>1, IssuedOp, RequestLink, Zenon
  <2> QED BY <2>6, <2>7
<1>4. Passed(c, k)
  BY <1>1, <1>2, <1>3, Zenon DEF LinkInv, LinkOK, InTurn
<1> QED BY <1>1, <1>2, <1>4, Zenon

\* The cells of an answer are not older than the puts before its get.
SeesPuts(msg) ==
  LET p == msg.header.op[1]
      g == issued[p][msg.header.op[2]]
  IN \A k \in 1 .. msg.header.op[2] - 1, i \in DOMAIN msg.payload :
       LET o == issued[p][k]
           at == g.offset + i - 1
       IN /\ o.type = "put" /\ o.to = g.to /\ o.handle_id = g.handle_id
          /\ o.offset <= at /\ at < o.offset + o.length
          /\ <<p, k>> \notin lost
          /\ OnlyPutTo(g.to)
          => NotOlder(msg.payload[i], p, k)

LEMMA SeesKept ==
  ASSUME TypeOK, NEW msg \in OutboundMsg, msg.header.op[2] \in DOMAIN issued[msg.header.op[1]],
         SeesPuts(msg), lost \subseteq lost',
         \A q \in Procs : Grown(q) /\ (OnlyPutTo(q)' => OnlyPutTo(q))
  PROVE  SeesPuts(msg)'
<1> DEFINE p == msg.header.op[1]
           n == msg.header.op[2]
<1>1. p \in Procs /\ n \in Nat \ {0}
  <2>1. msg.header.op \in OpNums
    BY MsgFields, HeaderFields, Zenon
  <2> QED BY <2>1, OpFields, Zenon
<1>2. PICK g \in RmaOp : g = issued[p][n] /\ g = issued'[p][n]
  BY <1>1, IssuedOp, Zenon DEF Grown
<1>3. g.to \in Procs
  BY Zenon DEF RmaOp
<1>4. ASSUME NEW k \in 1 .. n - 1 PROVE issued'[p][k] = issued[p][k]
  <2>1. issued[p] \in Seq(RmaOp)
    BY <1>1, Zenon DEF TypeOK
  <2>2. DOMAIN issued[p] = 1 .. Len(issued[p]) /\ Len(issued[p]) \in Nat
    BY <2>1, SeqElements, Zenon
  <2> HIDE DEF p, n
  <2>3. n \in 1 .. Len(issued[p])
    BY <2>2, Zenon DEF n, p
  <2>4. k \in DOMAIN issued[p]
    BY <1>1, <2>2, <2>3
  <2> QED BY <1>1, <2>4, Zenon DEF Grown
<1>5. ASSUME NEW k \in 1 .. n - 1, NEW i \in DOMAIN msg.payload,
             issued'[p][k].type = "put", issued'[p][k].to = g.to, issued'[p][k].handle_id = g.handle_id,
             issued'[p][k].offset <= g.offset + i - 1,
             g.offset + i - 1 < issued'[p][k].offset + issued'[p][k].length,
             <<p, k>> \notin lost', OnlyPutTo(g.to)'
      PROVE  NotOlder(msg.payload[i], p, k)
  <2>1. <<p, k>> \notin lost /\ OnlyPutTo(g.to)
    BY <1>3, <1>5, Zenon
  <2>2. issued'[p][k] = issued[p][k]
    BY <1>4, Zenon
  <2> QED BY <1>2, <1>5, <2>1, <2>2, Zenon DEF SeesPuts
<1> QED BY <1>2, <1>5, Zenon DEF SeesPuts

\* A step that sends no answer, or one that sees the puts before its get.
LEMMA SeesStep ==
  ASSUME TypeOK, OpInv, ReadsOwnPuts, lost \subseteq lost',
         \A q \in Procs : Grown(q) /\ (OnlyPutTo(q)' => OnlyPutTo(q)),
         \A msg \in Answers' : msg.header.msg_type = "RmaGetResp" => msg \in Answers \/ SeesPuts(msg)'
  PROVE  ReadsOwnPuts'
<1>AnswersSee.
      /\ ReadsOwnPuts => \A msg \in Answers : msg.header.msg_type = "RmaGetResp" => SeesPuts(msg)
      /\ (\A msg \in Answers : msg.header.msg_type = "RmaGetResp" => SeesPuts(msg)) => ReadsOwnPuts
  BY Zenon DEF ReadsOwnPuts, SeesPuts, NotOlder
<1>1. ASSUME NEW msg \in Answers', msg.header.msg_type = "RmaGetResp" PROVE SeesPuts(msg)'
  <2>1. CASE msg \in Answers
    <3>1. msg \in OutboundMsg /\ SeesPuts(msg) /\ msg.header.op[2] \in DOMAIN issued[msg.header.op[1]]
      BY <1>1, <2>1, AnswerTyped, <1>AnswersSee, Zenon DEF OpInv, AnswersIssued
    <3> QED BY <3>1, SeesKept, Zenon
  <2> QED BY <1>1, <2>1, Zenon
<1> QED BY <1>1, Zenon DEF ReadsOwnPuts, SeesPuts, NotOlder

\* Puts and requests come on the links of requests, answers do not.
LEMMA ReadFrom ==
  ASSUME WireInv, LinkInv, OpInv, NEW c \in Links, NEW type, ReadMessage(c, type)
  PROVE  /\ Incoming(c) \in Header /\ Incoming(c) \in Messages(c) /\ Incoming(c).msg_type = type
         /\ c \in Requests <=> type # "RmaGetResp"
<1>1. Incoming(c) \in Header /\ Incoming(c) \in HeadersOf(stream[c]) /\ Incoming(c).msg_type = type
  BY ReadEffect, Zenon DEF WireInv
<1>2. Incoming(c) \in Messages(c)
  BY <1>1, Zenon DEF Messages
<1>3. c \in Requests => Told(c, Incoming(c))
  BY <1>2, Zenon DEF LinkInv, LinkOK
<1>4. c \in Requests => type # "RmaGetResp"
  BY <1>1, <1>3, Zenon DEF Told
<1>5. c \notin Requests => type = "RmaGetResp"
  BY <1>1, <1>2, Zenon DEF OpInv, AnswersApart
<1> QED BY <1>1, <1>2, <1>4, <1>5, Zenon

\* What a put writes.
LEMMA PutWrites ==
  ASSUME WireInv, LinkInv, NEW c \in Requests, HandleRmaPut(c)
  PROVE  LET m == Incoming(c)
             b == mem_handles[To(c)][m.handle_id]
         IN /\ \A q \in Procs : \A a \in Cells :
                 heap'[q][a] = heap[q][a] \/ (q = To(c) /\ heap'[q][a] = m.op)
            /\ m.handle_id \in DOMAIN mem_handles[To(c)] =>
                 \A at \in Nat : m.offset <= at /\ at < m.offset + m.payload_size /\ at < b.buf_size
                   => heap'[To(c)][b.buf + at] = m.op
<1>PutPayload.
      ASSUME ReadMessage(c, "RmaPut")
      PROVE  /\ PayloadOf(c) \in Seq(Value) /\ Len(PayloadOf(c)) = Incoming(c).payload_size
             /\ \A i \in 1 .. Len(PayloadOf(c)) : PayloadOf(c)[i] = Incoming(c).op
  <2> USE <1>PutPayload
  <2> DEFINE s == stream[c]
             m == Incoming(c)
             n == m.payload_size
             data == PayloadOf(c)
  <2>1. c \in Links /\ TypeOK /\ StreamsFramed
    BY RequestLink, Zenon DEF WireInv
  <2>2. m \in Header /\ data \in Seq(Value) /\ m.msg_type = "RmaPut"
    BY <2>1, ReadEffect, Zenon
  <2>3. s \in Seq(Unit) /\ s # <<>> /\ s[1].kind = "header" /\ m = s[1].header
    <3>1. s \in Seq(Unit) /\ s # <<>> /\ Head(s).kind = "header"
      BY <2>1, Zenon DEF TypeOK, ReadMessage
    <3>2. Head(s) = s[1]
      BY <3>1, SeqTail
    <3> QED BY <3>1, <3>2, Zenon DEF Incoming
  <2>4. 1 \in DOMAIN s
    BY <2>3, SeqEmpty, SeqElements
  <2>5. Filled(s)
    BY Zenon DEF LinkInv, LinkOK
  <2>6. n \in Nat
    BY <2>2, HeaderFields, Zenon
  <2>7. data = [i \in 1 .. n |-> s[i + 1].value]
    BY Zenon DEF PayloadOf
  <2> HIDE DEF s, m, data
  <2>8. \A j \in 2 .. 1 + n : s[j].value = m.op
    BY <2>2, <2>3, <2>4, <2>5, <2>6 DEF Filled
  <2> HIDE DEF n
  <2>9. \A i \in 1 .. n : data[i] = m.op
    BY <2>6, <2>7, <2>8
  <2>10. DOMAIN data = 1 .. n /\ DOMAIN data = 1 .. Len(data) /\ Len(data) \in Nat
    BY <2>2, <2>7, SeqElements, Zenon
  <2>11. Len(data) = n
    BY <2>6, <2>10
  <2> QED BY <2>2, <2>9, <2>11, Zenon DEF n, m, data
<1>CopiedPut.
      ASSUME NEW cells \in [Cells -> Value], NEW entry \in Buffer, entry.buf + entry.buf_size <= HeapSize,
             NEW offset \in Nat, NEW data \in Seq(Value), NEW v, \A i \in 1 .. Len(data) : data[i] = v
      PROVE  LET new == Copied(cells, entry, offset, data) IN
             /\ \A a \in Cells : new[a] = cells[a] \/ new[a] = v
             /\ \A at \in Nat : offset <= at /\ at < offset + Len(data) /\ at < entry.buf_size
                  => new[entry.buf + at] = v
  <2> USE <1>CopiedPut
  <2> DEFINE b == entry.buf
             size == entry.buf_size
             n == Len(data)
             to == b + offset
             len == CopyLen(n, offset, size)
             new == Copied(cells, entry, offset, data)
  <2>1. b \in Nat /\ size \in Nat /\ n \in Nat /\ b + size <= HeapSize /\ HeapSize \in Nat
    BY SeqElements, MemoryAssumption DEF Buffer, Cells
  <2>2. len \in Nat /\ len <= n
    BY <2>1, CopyLenBounds, Zenon
  <2>3. len = IF offset >= size THEN 0 ELSE IF n < size - offset THEN n ELSE size - offset
    BY Zenon DEF CopyLen
  <2>4. new = [a \in Cells |-> IF to <= a /\ a < to + len THEN data[a - to + 1] ELSE cells[a]]
    BY Zenon DEF Copied
  <2> HIDE DEF new, len, b, size, n
  <2>5. ASSUME NEW a \in Cells, to <= a, a < to + len PROVE new[a] = v
    <3>1. a \in Nat
      BY DEF Cells
    <3>2. a - to + 1 \in 1 .. n
      BY <2>1, <2>2, <2>5, <3>1
    <3>3. data[a - to + 1] = v
      BY <3>2, Zenon DEF n
    <3> QED BY <2>4, <2>5, <3>3, Zenon
  <2>6. ASSUME NEW a \in Cells PROVE new[a] = cells[a] \/ new[a] = v
    <3>1. CASE to <= a /\ a < to + len
      BY <2>5, <3>1, Zenon
    <3>2. CASE ~ (to <= a /\ a < to + len)
      BY <2>4, <3>2, Zenon
    <3> QED BY <3>1, <3>2, Zenon
  <2>7. ASSUME NEW at \in Nat, offset <= at, at < offset + n, at < size PROVE new[b + at] = v
    <3>1. b + at \in Cells
      BY <2>1, <2>7 DEF Cells
    <3>2. at < offset + len
      BY <2>1, <2>3, <2>7
    <3>3. b + offset <= b + at /\ b + at < b + (offset + len)
      BY <2>1, <2>2, <2>7, <3>2
    <3>4. b + (offset + len) = to + len
      BY <2>1, <2>2
    <3> QED BY <2>5, <3>1, <3>3, <3>4, Zenon
  <2> QED BY <2>6, <2>7, Zenon DEF new, b, size, n
<1> DEFINE m == Incoming(c)
           q == To(c)
           b == mem_handles[q][m.handle_id]
           data == PayloadOf(c)
           new == Copied(heap[q], b, m.offset, data)
<1>1. /\ ReadMessage(c, "RmaPut")
      /\ heap' = [heap EXCEPT ![q] = IF m.handle_id \in DOMAIN mem_handles[q]
                                     THEN Copied(heap[q], b, m.offset, data) ELSE heap[q]]
  BY Zenon DEF HandleRmaPut
<1>2. TypeOK /\ q \in Procs /\ c \in Links /\ StreamsFramed
  BY RequestLink, Zenon DEF WireInv
<1>3. m.offset \in Nat
  <2>1. m \in Header
    BY <1>1, <1>2, ReadEffect, Zenon
  <2> QED BY <2>1, HeaderFields, Zenon
<1>4. data \in Seq(Value) /\ Len(data) = m.payload_size /\ \A i \in 1 .. Len(data) : data[i] = m.op
  BY <1>1, <1>PutPayload, Zenon
<1>5. heap \in [Procs -> [Cells -> Value]] /\ heap[q] \in [Cells -> Value]
  BY <1>2, Zenon DEF TypeOK
<1> HIDE DEF m, q, data
<1>6. CASE m.handle_id \notin DOMAIN mem_handles[q]
  <2>1. heap' = heap
    BY <1>1, <1>5, <1>6, Zenon
  <2> QED BY <1>6, <2>1, Zenon DEF m, q
<1>7. CASE m.handle_id \in DOMAIN mem_handles[q]
  <2>1. b \in Buffer /\ b.buf + b.buf_size <= HeapSize
    BY <1>2, <1>7, RegistryEntry, Zenon
  <2> HIDE DEF b
  <2>2. /\ \A a \in Cells : new[a] = heap[q][a] \/ new[a] = m.op
        /\ \A at \in Nat : m.offset <= at /\ at < m.offset + Len(data) /\ at < b.buf_size
             => new[b.buf + at] = m.op
    BY <1>3, <1>4, <1>5, <2>1, <1>CopiedPut, Zenon
  <2>3. heap' = [heap EXCEPT ![q] = new]
    BY <1>1, <1>7, Zenon
  <2> HIDE DEF new
  <2>4. heap'[q] = new /\ \A r \in Procs : r # q => heap'[r] = heap[r]
    BY <1>2, <1>5, <2>3, Zenon
  <2>5. \A r \in Procs : \A a \in Cells : heap'[r][a] = heap[r][a] \/ (r = q /\ heap'[r][a] = m.op)
    BY <2>2, <2>4, Zenon
  <2>6. \A at \in Nat : m.offset <= at /\ at < m.offset + m.payload_size /\ at < b.buf_size
          => heap'[q][b.buf + at] = m.op
    BY <1>4, <2>2, <2>4, Zenon
  <2> QED BY <2>5, <2>6, Zenon DEF m, q, b
<1> QED BY <1>6, <1>7, Zenon

LEMMA HandleRmaPutSees ==
  ASSUME WireInv, PutInv, NEW c \in Links, HandleRmaPut(c)
  PROVE  PutInv'
<1> DEFINE m == Incoming(c)
<1>1. ReadMessage(c, "RmaPut") /\ UNCHANGED <<handleVars, issued, pending_rma_ops, queue, reader, lost>>
  BY Zenon DEF HandleRmaPut
<1>2. TypeOK /\ LinkInv /\ OpInv /\ PutsApplied /\ ReadsOwnPuts
  BY Zenon DEF WireInv, PutInv
<1>3. m \in Header /\ m \in Messages(c) /\ c \in Requests
  BY <1>1, <1>2, ReadFrom, RequestTypes, Zenon
<1>4. /\ LinkInv' /\ \A x \in Requests : Sent(x) /\ (x # c => Delivered(x))
      /\ Told(c, m) /\ Messages(c) = Messages(c)' \cup {m}
  <2>1. issued' = issued /\ reader' = reader /\ \A x \in Requests : queue'[x] = queue[x]
    BY <1>1, Zenon
  <2> QED BY <1>1, <1>2, <1>3, <2>1, ReadLinks, Zenon
<1>5. OpStep
  <2>1. \A d \in Links : Messages(d)' \subseteq Messages(d)
    BY <1>1, ReadQuietly, Zenon
  <2>2. PendingGets'
    BY <1>1, <1>2, Zenon DEF OpInv, PendingGets
  <2>3. \A q \in Procs : next_handle_id'[q] \in Nat /\ next_handle_id[q] <= next_handle_id'[q]
    BY <1>1, <1>2, SameCounter, Zenon DEF handleVars
  <2> QED BY <1>1, <1>2, <2>1, <2>2, <2>3, QuietOps, Zenon
<1>6. /\ \A q \in Procs : \A a \in Cells :
           heap'[q][a] = heap[q][a] \/ (q = To(c) /\ heap'[q][a] = m.op)
      /\ m.handle_id \in DOMAIN mem_handles[To(c)] =>
           LET b == mem_handles[To(c)][m.handle_id] IN
           \A at \in Nat : m.offset <= at /\ at < m.offset + m.payload_size /\ at < b.buf_size
             => heap'[To(c)][b.buf + at] = m.op
  BY <1>2, <1>3, PutWrites, Zenon
<1> HIDE DEF m
<1>7. m.op[2] \in Nat \ {0} /\ m.op[1] = From(c) /\ m.op # Unwritten
  <2>1. m.op \in OpNums
    BY <1>3, HeaderFields, Zenon
  <2>2. m.op[1] = From(c)
    BY <1>4, Zenon DEF Told
  <2>3. m.op # Unwritten
    BY <2>1, MemoryAssumption DEF OpNums, Unwritten
  <2> QED BY <2>1, <2>2, <2>3, OpFields, Zenon
<1>8. ASSUME NEW d \in Requests, NEW k \in DOMAIN issued[From(d)] PROVE Applied(d, k)'
  <2> DEFINE o == issued[From(d)][k]
             q == To(d)
             b == mem_handles[q][o.handle_id]
  <2>1. ASSUME o.type = "put", o.to = q, <<From(d), k>> \notin lost, Passed(d, k)',
               o.handle_id \in DOMAIN mem_handles[q], OnlyPutTo(q),
               NEW at \in Nat, o.offset <= at, at < o.offset + o.length, at < b.buf_size
        PROVE  NotOlder(heap'[q][b.buf + at], From(d), k)
    <3>1. From(d) \in Procs /\ q \in Procs /\ d = <<From(d), q, "cmd">> /\ c = <<From(c), To(c), "cmd">>
      BY <1>3, RequestLink, Zenon
    <3>2. k \in Nat \ {0} /\ o.offset \in Nat /\ o.length \in Nat
      BY <1>2, <3>1, IssuedOp, Zenon
    <3>3. CASE d = c /\ k = m.op[2]
      <4>1. o.handle_id = m.handle_id /\ o.offset = m.offset /\ o.length = m.payload_size
        BY <1>4, <2>1, <3>3, Zenon DEF Told
      <4>2. heap'[q][b.buf + at] = m.op
        BY <1>6, <2>1, <3>3, <4>1, Zenon
      <4>3. m.op[2] >= k
        BY <1>7, <3>3
      <4> QED BY <1>7, <4>2, <4>3, Zenon DEF NotOlder
    <3>4. CASE ~ (d = c /\ k = m.op[2])
      <4>1. \A x \in Messages(d) :
              x.op[2] = k => x \in Messages(d)' \/ x.op \in lost' \/ x.msg_type # "RmaPut"
        <5>1. CASE d = c
          BY <1>4, <3>4, <5>1, Zenon
        <5>2. CASE d # c
          BY <1>4, <5>2, Zenon DEF Delivered
        <5> QED BY <5>1, <5>2, Zenon
      <4>2. issued' = issued /\ lost' = lost /\ Grown(From(d)) /\ Sent(d)
        BY <1>1, <1>4, Zenon DEF Grown
      <4>3. Passed(d, k)
        BY <1>2, <2>1, <4>1, <4>2, PassedBefore, Zenon
      <4>4. Applied(d, k)
        BY <1>2, Zenon DEF PutsApplied
      <4>5. NotOlder(heap[q][b.buf + at], From(d), k)
        BY <2>1, <4>3, <4>4, Zenon DEF Applied
      <4>6. b.buf + at \in Cells
        <5>1. b.buf \in Nat /\ b.buf_size \in Nat /\ b.buf + b.buf_size <= HeapSize
          BY <1>2, <2>1, <3>1, RegistryEntry, Zenon
        <5>2. HeapSize \in Nat /\ at \in Nat /\ at < b.buf_size
          BY <2>1, MemoryAssumption, Zenon
        <5> HIDE DEF b
        <5> QED BY <5>1, <5>2 DEF Cells
      <4>7. CASE heap'[q][b.buf + at] = heap[q][b.buf + at]
        BY <4>5, <4>7, Zenon
      <4>8. CASE q = To(c) /\ heap'[q][b.buf + at] = m.op
        <5>1. ASSUME From(d) = From(c) PROVE m.op[2] >= k
          <6>1. d = c
            BY <3>1, <4>8, <5>1, Zenon
          <6>2. k < m.op[2]
            BY <1>3, <4>3, <6>1, Zenon DEF Passed
          <6> QED BY <1>7, <3>2, <6>2
        <5> QED BY <1>7, <4>8, <5>1, Zenon DEF NotOlder
      <4> QED BY <1>6, <3>1, <4>6, <4>7, <4>8, Zenon
    <3> QED BY <3>3, <3>4, Zenon
  <2>2. issued' = issued /\ lost' = lost /\ mem_handles' = mem_handles
    BY <1>1, Zenon DEF handleVars
  <2>3. OnlyPutTo(q)' => OnlyPutTo(q)
    BY <1>5, RequestLink, Zenon DEF OpStep
  <2> QED BY <2>1, <2>2, <2>3, Zenon DEF Applied, From, To
<1>9. PutsApplied'
  BY <1>1, <1>8, Zenon DEF PutsApplied, Requests, Links, From
<1>10. Answers' = Answers /\ lost' = lost
  BY <1>1, Zenon DEF Answers
<1>11. ReadsOwnPuts'
  BY <1>2, <1>5, <1>10, SeesStep, Zenon DEF OpStep
<1> QED BY <1>4, <1>5, <1>9, <1>11, Zenon DEF PutInv, OpStep

\* Any other step.
LEMMA OtherSees ==
  ASSUME TypeOK, PutInv, LinkStep, OpStep, lost \subseteq lost', RegistryKept,
         \A q \in Procs : OnlyPutTo(q)' => heap'[q] = heap[q],
         \A msg \in Answers' : msg.header.msg_type = "RmaGetResp" => msg \in Answers \/ SeesPuts(msg)'
  PROVE  PutInv'
\* A step that writes only to memory of processes that have read with a get.
<1>AppliedStep.
      ASSUME TypeOK, LinkInv, OpInv, PutsApplied, lost \subseteq lost', RegistryKept,
             \A c \in Requests : Delivered(c) /\ Sent(c),
             \A q \in Procs : Grown(q) /\ (OnlyPutTo(q)' => OnlyPutTo(q) /\ heap'[q] = heap[q])
      PROVE  PutsApplied'
  <2> USE <1>AppliedStep
  <2>1. ASSUME NEW c \in Requests, NEW k \in DOMAIN issued'[From(c)] PROVE Applied(c, k)'
    <3> DEFINE o == issued'[From(c)][k]
               b == mem_handles'[To(c)][o.handle_id]
    <3>1. ASSUME o.type = "put", o.to = To(c), <<From(c), k>> \notin lost', Passed(c, k)',
                 o.handle_id \in DOMAIN mem_handles'[To(c)], OnlyPutTo(To(c))',
                 NEW at \in Nat, o.offset <= at, at < o.offset + o.length, at < b.buf_size
          PROVE  NotOlder(heap'[To(c)][b.buf + at], From(c), k)
      <4>1. From(c) \in Procs /\ To(c) \in Procs /\ Grown(From(c))
        BY RequestLink, Zenon
      <4>2. k \in DOMAIN issued[From(c)] /\ o = issued[From(c)][k] /\ Passed(c, k)
        BY <3>1, <4>1, PassedBefore, Zenon DEF Delivered
      <4>3. o.handle_id < next_handle_id[To(c)]
        BY <3>1, <4>1, <4>2, Zenon DEF OpInv, OpsIssued
      <4>4. o.handle_id \in DOMAIN mem_handles[To(c)] /\ b = mem_handles[To(c)][o.handle_id]
        BY <3>1, <4>1, <4>3, Zenon DEF RegistryKept
      <4>5. OnlyPutTo(To(c)) /\ heap'[To(c)] = heap[To(c)] /\ <<From(c), k>> \notin lost
        BY <3>1, <4>1, Zenon
      <4>6. Applied(c, k)
        BY <4>2, Zenon DEF PutsApplied
      <4> HIDE DEF o, b
      <4>7. NotOlder(heap[To(c)][b.buf + at], From(c), k)
        BY <3>1, <4>2, <4>4, <4>5, <4>6, Zenon DEF Applied
      <4> QED BY <4>5, <4>7, Zenon
    <3> QED BY <3>1, Zenon DEF Applied, From, To
  <2> QED BY <2>1, Zenon DEF PutsApplied, Requests, Links, From
<1>1. LinkInv /\ OpInv /\ PutsApplied /\ ReadsOwnPuts
  BY Zenon DEF PutInv
<1>2. /\ LinkInv' /\ OpInv' /\ \A c \in Requests : Delivered(c) /\ Sent(c)
      /\ \A q \in Procs : Grown(q) /\ (OnlyPutTo(q)' => OnlyPutTo(q))
  BY Zenon DEF LinkStep, OpStep
<1>3. PutsApplied'
  BY <1>1, <1>2, <1>AppliedStep, Zenon
<1>4. ReadsOwnPuts'
  BY <1>1, <1>2, SeesStep, Zenon
<1> QED BY <1>2, <1>3, <1>4, Zenon DEF PutInv

LEMMA SameRegistry ==
  ASSUME UNCHANGED mem_handles
  PROVE  RegistryKept
BY Zenon DEF RegistryKept

\* The oldest request on a link is younger than nothing that is still on its way.
LEMMA EarlierPassed ==
  ASSUME TypeOK, LinkInv, NEW c \in Requests, NEW m \in Messages(c),
         \A x \in Messages(c) : x = m \/ m.op[2] < x.op[2],
         NEW k \in DOMAIN issued[From(c)], issued[From(c)][k].to = To(c), k < m.op[2]
  PROVE  Passed(c, k)
<1>1. c \in Links /\ From(c) \in Procs
  BY RequestLink, Zenon
<1>2. m.op[2] \in Nat /\ k \in Nat
  BY <1>1, MessageOps, IssuedOp, Zenon
<1>3. ASSUME NEW x \in Messages(c), x.op[2] = k PROVE FALSE
  <2>1. m.op[2] <= k
    BY <1>2, <1>3
  <2> QED BY <1>2, <2>1
<1>4. InTurn(c)
  BY Zenon DEF LinkInv, LinkOK
<1> QED BY <1>3, <1>4, Zenon DEF InTurn

\* The answer to a get holds the puts that were made before it.
LEMMA AnswerSees ==
  ASSUME TypeOK, PutInv, NEW c \in Requests, NEW m \in Messages(c),
         \A x \in Messages(c) : x = m \/ m.op[2] < x.op[2],
         m.handle_id \in DOMAIN mem_handles[To(c)],
         NEW b, b = mem_handles[To(c)][m.handle_id], NEW msg, msg.header.op = m.op,
         \A i \in DOMAIN msg.payload :
           /\ m.offset + i - 1 \in Nat /\ m.offset + i - 1 < b.buf_size
           /\ msg.payload[i] = heap[To(c)][b.buf + (m.offset + i - 1)]
  PROVE  SeesPuts(msg)
<1> DEFINE p == From(c)
           q == To(c)
           n == m.op[2]
<1>1. LinkInv /\ PutsApplied /\ p \in Procs /\ q \in Procs /\ Told(c, m)
  BY RequestLink, Zenon DEF PutInv, LinkInv, LinkOK
<1>2. PICK g : /\ g = issued[p][n] /\ m.op[1] = p /\ n \in DOMAIN issued[p]
               /\ g.to = q /\ g.handle_id = m.handle_id /\ g.offset = m.offset
  BY <1>1, Zenon DEF Told
<1>3. /\ n \in Nat \ {0} /\ DOMAIN issued[p] = 1 .. Len(issued[p]) /\ Len(issued[p]) \in Nat
  <2>1. issued[p] \in Seq(RmaOp)
    BY <1>1, Zenon DEF TypeOK
  <2> HIDE DEF p, n
  <2>2. n \in Nat \ {0}
    BY <1>1, <1>2, IssuedOp, Zenon
  <2>3. DOMAIN issued[p] = 1 .. Len(issued[p]) /\ Len(issued[p]) \in Nat
    BY <2>1, SeqElements, Zenon
  <2> QED BY <2>2, <2>3, Zenon
<1> HIDE DEF p, q, n
<1>4. ASSUME NEW k \in 1 .. n - 1, NEW i \in DOMAIN msg.payload,
             issued[p][k].type = "put", issued[p][k].to = g.to, issued[p][k].handle_id = g.handle_id,
             issued[p][k].offset <= g.offset + i - 1,
             g.offset + i - 1 < issued[p][k].offset + issued[p][k].length,
             <<p, k>> \notin lost, OnlyPutTo(g.to)
      PROVE  NotOlder(msg.payload[i], p, k)
  <2>1. k \in DOMAIN issued[p] /\ k < n
    BY <1>2, <1>3
  <2>2. Passed(c, k)
    BY <1>1, <1>2, <1>4, <2>1, EarlierPassed, Zenon DEF p, q, n
  <2>3. Applied(c, k)
    BY <1>1, <2>1, Zenon DEF PutsApplied, p
  <2> DEFINE at == m.offset + i - 1
  <2>4. at \in Nat /\ at < b.buf_size /\ msg.payload[i] = heap[q][b.buf + at]
    BY <1>4, Zenon DEF q
  <2>5. /\ issued[p][k].to = q /\ issued[p][k].handle_id = m.handle_id /\ OnlyPutTo(q)
        /\ issued[p][k].offset <= at /\ at < issued[p][k].offset + issued[p][k].length
    BY <1>2, <1>4, Zenon
  <2> HIDE DEF at
  <2>6. NotOlder(heap[q][b.buf + at], p, k)
    BY <1>4, <2>2, <2>3, <2>4, <2>5, Zenon DEF Applied, p, q
  <2> QED BY <2>4, <2>6, Zenon
<1>5. msg.header.op[1] = p /\ msg.header.op[2] = n
  BY <1>2, Zenon DEF n
<1> QED BY <1>2, <1>4, <1>5, Zenon DEF SeesPuts

LEMMA HandleRmaGetRequestSees ==
  ASSUME WireInv, PutInv, NEW c \in Links, HandleRmaGetRequest(c)
  PROVE  PutInv'
<1> DEFINE m == Incoming(c)
           q == To(c)
           b == mem_handles[q][m.handle_id]
           data == [i \in 1 .. CopyLen(m.rma_length, m.offset, b.buf_size) |->
                      heap[q][b.buf + m.offset + i - 1]]
           msg == Answer(q, m, data)
           Answered == /\ m.handle_id \in DOMAIN mem_handles[q]
                       /\ Enqueue(q, m.source_peer_id, msg)
                       /\ reader' = [reader EXCEPT ![c] = "answering"]
<1>1. /\ ReadMessage(c, "RmaGetReq") /\ (Answered \/ UNCHANGED <<queue, reader>>)
      /\ UNCHANGED <<handleVars, heap, issued, pending_rma_ops, lost>>
  BY Zenon DEF HandleRmaGetRequest
<1>2. TypeOK /\ LinkInv /\ OpInv /\ StreamsFramed /\ q \in Procs
  BY LinkEnds, Zenon DEF WireInv, PutInv
<1>3. m \in Header /\ m \in Messages(c) /\ m.msg_type = "RmaGetReq" /\ c \in Requests
  BY <1>1, <1>2, ReadFrom, RequestTypes, Zenon
<1>4. m.source_peer_id \in Procs /\ m.rma_length \in Nat /\ m.offset \in Nat
  BY <1>3, HeaderFields, Zenon
<1>5. \A d \in Links : HeadersOf(stream'[d]) \subseteq HeadersOf(stream[d])
  BY <1>1, <1>2, ReadEffect, Zenon
<1>6. ASSUME Answered
      PROVE  /\ msg \in OutboundMsg /\ msg.header.msg_type = "RmaGetResp" /\ msg.header.op = m.op
             /\ \A i \in DOMAIN msg.payload :
                  /\ m.offset + i - 1 \in Nat /\ m.offset + i - 1 < b.buf_size
                  /\ msg.payload[i] = heap[q][b.buf + (m.offset + i - 1)]
  <2>1. msg \in OutboundMsg /\ msg.header.msg_type = "RmaGetResp"
    BY <1>1, <1>6, AnswerMessage, Zenon
  <2>2. msg.header.op = m.op /\ msg.payload = data
    BY Zenon DEF Answer
  <2>3. b.buf \in Nat /\ b.buf_size \in Nat
    BY <1>2, <1>6, RegistryEntry, Zenon
  <2> HIDE DEF m, q, b
  <2>4. \A i \in DOMAIN data :
          /\ m.offset + i - 1 \in Nat /\ m.offset + i - 1 < b.buf_size
          /\ data[i] = heap[q][b.buf + (m.offset + i - 1)]
    <3>1. data = [i \in 1 .. CopyLen(m.rma_length, m.offset, b.buf_size) |->
                    heap[q][b.buf + m.offset + i - 1]]
      BY Zenon
    <3> HIDE DEF data
    <3>2. ASSUME NEW i \in DOMAIN data
          PROVE  /\ i \in 1 .. CopyLen(m.rma_length, m.offset, b.buf_size)
                 /\ data[i] = heap[q][b.buf + m.offset + i - 1]
      BY <3>1, Zenon
    <3>3. ASSUME NEW i \in DOMAIN data
          PROVE  /\ m.offset + i - 1 \in Nat /\ m.offset + i - 1 < b.buf_size
                 /\ b.buf + m.offset + i - 1 = b.buf + (m.offset + i - 1)
      <4> DEFINE n == CopyLen(m.rma_length, m.offset, b.buf_size)
                 off == m.offset
                 base == b.buf
                 size == b.buf_size
      <4>1. n \in Nat /\ (n > 0 => off + n <= size)
        BY <1>4, <2>3, CopyLenBounds, Zenon
      <4>2. i \in 1 .. n
        BY <3>2, Zenon
      <4>3. off \in Nat /\ base \in Nat /\ size \in Nat
        BY <1>4, <2>3, Zenon
      <4> HIDE DEF n, off, base, size
      <4>4. off + i - 1 \in Nat /\ off + i - 1 < size /\ base + off + i - 1 = base + (off + i - 1)
        BY <4>1, <4>2, <4>3
      <4> QED BY <4>4, Zenon DEF off, base, size
    <3> QED BY <3>2, <3>3, Zenon
  <2> HIDE DEF data
  <2> QED BY <2>1, <2>2, <2>4, Zenon
<1> HIDE DEF msg, data
<1>7. reader' = reader \/ reader' = [reader EXCEPT ![c] = "answering"]
  BY <1>1, Zenon
<1>8. \A x \in Requests : queue'[x] = queue[x]
  <2>1. CASE Answered
    <3> DEFINE r == <<q, m.source_peer_id, "resp">>
    <3>1. queue' = [queue EXCEPT ![r] = Append(@, msg)]
      BY <1>6, <2>1, Zenon DEF Enqueue, PoolFor
    <3>2. \A x \in Requests : x \in Links /\ x # r
      BY DEF Requests
    <3> HIDE DEF r
    <3> QED BY <1>2, <3>1, <3>2, Zenon DEF TypeOK
  <2> QED BY <1>1, <2>1, Zenon
<1>9. /\ LinkInv' /\ \A x \in Requests : Sent(x) /\ (x # c => Delivered(x))
      /\ Told(c, m) /\ Messages(c) = Messages(c)' \cup {m}
      /\ \A x \in Messages(c)' : m.op[2] < x.op[2]
  BY <1>1, <1>2, <1>3, <1>7, <1>8, ReadLinks, Zenon
<1> HIDE DEF m, q, b
<1>10. LinkStep
  <2>1. Delivered(c)
    BY <1>3, <1>9, Zenon DEF Delivered
  <2> QED BY <1>9, <2>1, Zenon DEF LinkStep
<1>11. OpStep
  <2>1. CASE Answered
    <3>1. m.op[2] \in DOMAIN issued[m.op[1]]
      BY <1>9, Zenon DEF Told
    <3>2. /\ msg \in OutboundMsg /\ msg.header.msg_type = "RmaGetResp"
          /\ msg.header.op[2] \in DOMAIN issued[msg.header.op[1]]
      BY <1>6, <2>1, <3>1, Zenon
    <3>3. UNCHANGED <<issued, pending_rma_ops, next_handle_id>>
      BY <1>1, Zenon DEF handleVars
    <3> QED BY <1>2, <1>4, <1>5, <2>1, <3>2, <3>3, AnswerOps, Zenon
  <2>2. CASE UNCHANGED queue
    <3>1. \A d \in Links : Messages(d)' \subseteq Messages(d)
      BY <1>1, <2>2, ReadQuietly, Zenon
    <3>2. PendingGets'
      BY <1>1, <1>2, Zenon DEF OpInv, PendingGets
    <3>3. \A r \in Procs : next_handle_id'[r] \in Nat /\ next_handle_id[r] <= next_handle_id'[r]
      BY <1>1, <1>2, SameCounter, Zenon DEF handleVars
    <3> QED BY <1>1, <1>2, <2>2, <3>1, <3>2, <3>3, QuietOps, Zenon
  <2> QED BY <1>1, <2>1, <2>2, Zenon
<1>12. ASSUME NEW x \in Answers' PROVE x \in Answers \/ SeesPuts(x)'
  <2>1. CASE Answered
    <3>1. x \in Answers \/ x = msg
      BY <1>2, <1>4, <1>5, <1>6, <2>1, EnqueuedAnswers, Zenon
    <3>2. \A y \in Messages(c) : y = m \/ m.op[2] < y.op[2]
      BY <1>9, Zenon
    <3>3. SeesPuts(msg)
      BY <1>2, <1>3, <1>6, <2>1, <3>2, AnswerSees, Zenon DEF b, q
    <3>4. msg \in OutboundMsg /\ msg.header.op[2] \in DOMAIN issued[msg.header.op[1]]
      BY <1>6, <1>9, <2>1, Zenon DEF Told
    <3>5. lost \subseteq lost' /\ \A r \in Procs : Grown(r) /\ (OnlyPutTo(r)' => OnlyPutTo(r))
      BY <1>1, <1>11, Zenon DEF OpStep
    <3>6. x = msg => SeesPuts(x)'
      BY <1>2, <3>3, <3>4, <3>5, SeesKept, Zenon
    <3> QED BY <3>1, <3>6, Zenon
  <2>2. CASE UNCHANGED queue
    BY <2>2, Zenon DEF Answers
  <2> QED BY <1>1, <2>1, <2>2, Zenon
<1>13. RegistryKept /\ lost \subseteq lost' /\ heap' = heap
  BY <1>1, SameRegistry, Zenon DEF handleVars
<1> QED BY <1>2, <1>10, <1>11, <1>12, <1>13, OtherSees, Zenon

LEMMA HandleRmaGetResponseSees ==
  ASSUME WireInv, PutInv, NEW c \in Links, HandleRmaGetResponse(c)
  PROVE  PutInv'
<1> DEFINE p == To(c)
           m == Incoming(c)
           Taken(i) == /\ pending_rma_ops' = [pending_rma_ops EXCEPT ![p] = Without(@, i)]
                       /\ \E cells : heap' = [heap EXCEPT ![p] = cells]
<1>1. /\ ReadMessage(c, "RmaGetResp") /\ UNCHANGED <<handleVars, issued, queue, reader, lost>>
      /\ (\E i \in DOMAIN pending_rma_ops[p] : Taken(i)) \/ UNCHANGED <<pending_rma_ops, heap>>
  BY Zenon DEF HandleRmaGetResponse, Matching
<1>2. TypeOK /\ LinkInv /\ OpInv /\ p \in Procs
  BY LinkEnds, Zenon DEF WireInv, PutInv
<1>3. c \notin Requests
  BY <1>1, <1>2, ReadFrom, Zenon
<1>4. LinkStep
  <2>1. issued' = issued /\ reader' = reader /\ \A x \in Requests : queue'[x] = queue[x]
    BY <1>1, Zenon
  <2>2. LinkInv' /\ \A x \in Requests : Sent(x) /\ (x # c => Delivered(x))
    BY <1>1, <1>2, <2>1, ReadLinks, Zenon
  <2> QED BY <1>3, <2>2, Zenon DEF LinkStep
<1>5. /\ PendingGets' /\ \A q \in Procs : Range(pending_rma_ops'[q]) \subseteq Range(pending_rma_ops[q])
      /\ \A q \in Procs : OnlyPutTo(q)' => heap'[q] = heap[q]
  <2>1. CASE \E i \in DOMAIN pending_rma_ops[p] : Taken(i)
    <3>1. PICK i \in DOMAIN pending_rma_ops[p] : Taken(i)
      BY <2>1, Zenon
    <3>2. issued' = issued /\ PendingGets
      BY <1>1, <1>2, Zenon DEF OpInv
    <3> HIDE DEF p
    <3>3. /\ PendingGets' /\ \A q \in Procs : Range(pending_rma_ops'[q]) \subseteq Range(pending_rma_ops[q])
          /\ ~ OnlyPutTo(p)'
      BY <1>2, <3>1, <3>2, PendingTaken, Zenon
    <3>4. \A q \in Procs : q # p => heap'[q] = heap[q]
      BY <1>2, <3>1, Zenon DEF TypeOK
    <3>5. ASSUME NEW q \in Procs, OnlyPutTo(q)' PROVE q # p
      BY <3>3, <3>5, Zenon DEF p, To
    <3> QED BY <3>3, <3>4, <3>5, Zenon
  <2>2. CASE UNCHANGED <<pending_rma_ops, heap>>
    BY <1>1, <1>2, <2>2, Zenon DEF OpInv, PendingGets
  <2> QED BY <1>1, <2>1, <2>2, Zenon
<1>6. OpStep
  <2>1. \A d \in Links : Messages(d)' \subseteq Messages(d)
    BY <1>1, ReadQuietly, Zenon
  <2>2. \A q \in Procs : next_handle_id'[q] \in Nat /\ next_handle_id[q] <= next_handle_id'[q]
    BY <1>1, <1>2, SameCounter, Zenon DEF handleVars
  <2> QED BY <1>1, <1>2, <1>5, <2>1, <2>2, QuietOps, Zenon
<1>7. RegistryKept /\ lost \subseteq lost' /\ Answers' = Answers
  BY <1>1, SameRegistry, Zenon DEF handleVars, Answers
<1> QED BY <1>2, <1>4, <1>5, <1>6, <1>7, OtherSees, Zenon

LEMMA WriteSees ==
  ASSUME WireInv, PutInv, NEW c \in Links, Write(c)
  PROVE  PutInv'
<1>1. TypeOK /\ LinkInv /\ OpInv
  BY Zenon DEF WireInv, PutInv
<1>2. UNCHANGED <<handleVars, heap, issued, pending_rma_ops>> /\ lost \subseteq lost'
  BY Zenon DEF Write, WriteMessage, WriteAfterEnd, AnswerFails
<1>3. LinkStep /\ \A d \in Links : Messages(d)' \subseteq Messages(d)
  <2>1. LinkStep
    BY <1>1, WriteLinks, Zenon
  <2>2. Traffic
    BY WireStep, Zenon
  <2> QED BY <2>1, <2>2, Zenon DEF Traffic
<1>4. queue[c] # <<>> /\ queue' = [queue EXCEPT ![c] = Tail(@)]
  BY Zenon DEF Write, WriteMessage, WriteAfterEnd, AnswerFails
<1>5. \A d \in Links : Range(queue'[d]) \subseteq Range(queue[d])
  BY <1>4, NextMessage, Zenon
<1>6. OpStep
  <2>1. PendingGets'
    BY <1>1, <1>2, Zenon DEF OpInv, PendingGets
  <2>2. \A q \in Procs : next_handle_id'[q] \in Nat /\ next_handle_id[q] <= next_handle_id'[q]
    BY <1>1, <1>2, SameCounter, Zenon DEF handleVars
  <2> QED BY <1>1, <1>2, <1>3, <1>5, <2>1, <2>2, QuietOps, Zenon
<1>7. RegistryKept /\ Answers' \subseteq Answers
  BY <1>2, <1>5, SameRegistry, OldAnswers, Zenon DEF handleVars
<1> QED BY <1>1, <1>2, <1>3, <1>6, <1>7, OtherSees, Zenon

\* Handles are created, freed and passed on.
LEMMA HandlesSee ==
  ASSUME WireInv, PutInv, RegistryKept, UNCHANGED <<heap, issued, pending_rma_ops, linkVars>>,
         \A q \in Procs : next_handle_id'[q] \in Nat /\ next_handle_id[q] <= next_handle_id'[q]
  PROVE  PutInv'
<1>1. TypeOK /\ LinkInv /\ OpInv /\ UNCHANGED <<queue, stream, reader, lost>>
  BY Zenon DEF WireInv, PutInv, linkVars
<1>2. LinkStep
  BY <1>1, QuietLinkStep, Zenon
<1>3. PendingGets' /\ \A c \in Links : Messages(c)' = Messages(c)
  BY <1>1, Zenon DEF OpInv, PendingGets, Messages
<1>4. OpStep
  BY <1>1, <1>3, QuietOps, Zenon
<1>5. Answers' = Answers
  BY <1>1, Zenon DEF Answers
<1> QED BY <1>1, <1>2, <1>4, <1>5, OtherSees, Zenon

LEMMA CreateSees ==
  ASSUME WireInv, PutInv, NEW p \in Procs, NEW b \in Buffers, MemHandleCreate(p, b)
  PROVE  PutInv'
<1> DEFINE id == next_handle_id[p]
           new == [i \in DOMAIN mem_handles[p] \cup {id} |-> IF i = id THEN b ELSE mem_handles[p][i]]
<1>1. /\ next_handle_id' = [next_handle_id EXCEPT ![p] = @ + 1]
      /\ mem_handles' = [mem_handles EXCEPT ![p] = new]
      /\ UNCHANGED <<heap, issued, pending_rma_ops, linkVars>>
  BY Zenon DEF MemHandleCreate, HandleId
<1>2. next_handle_id \in [Procs -> Nat \ {0}] /\ DOMAIN mem_handles = Procs
  BY Zenon DEF WireInv, TypeOK
<1>3. \A q \in Procs : next_handle_id'[q] \in Nat /\ next_handle_id[q] <= next_handle_id'[q]
  BY <1>1, <1>2
<1>4. \A i \in DOMAIN new : i < id => i \in DOMAIN mem_handles[p] /\ new[i] = mem_handles[p][i]
  BY <1>2
<1> HIDE DEF new
<1>5. mem_handles'[p] = new /\ \A q \in Procs : q # p => mem_handles'[q] = mem_handles[q]
  BY <1>1, <1>2, Zenon
<1>6. RegistryKept
  BY <1>4, <1>5, Zenon DEF RegistryKept
<1> QED BY <1>1, <1>3, <1>6, HandlesSee, Zenon

LEMMA FreeSees ==
  ASSUME WireInv, PutInv, NEW p \in Procs, NEW h \in handles[p], MemHandleFree(p, h)
  PROVE  PutInv'
<1> DEFINE r == mem_handles[p]
           new == Unregister(r, h)
<1>1. /\ mem_handles' = [mem_handles EXCEPT ![p] = new]
      /\ UNCHANGED <<next_handle_id, heap, issued, pending_rma_ops, linkVars>>
  BY Zenon DEF MemHandleFree
<1>2. next_handle_id \in [Procs -> Nat \ {0}] /\ DOMAIN mem_handles = Procs
  BY Zenon DEF WireInv, TypeOK
<1>3. \A q \in Procs : next_handle_id'[q] \in Nat /\ next_handle_id[q] <= next_handle_id'[q]
  BY <1>1, <1>2
<1>4. \A i \in DOMAIN new : i \in DOMAIN r /\ new[i] = r[i]
  BY Zenon DEF Unregister, Restrict
<1> HIDE DEF new
<1>5. mem_handles'[p] = new /\ \A q \in Procs : q # p => mem_handles'[q] = mem_handles[q]
  BY <1>1, <1>2, Zenon
<1>6. RegistryKept
  BY <1>4, <1>5, Zenon DEF RegistryKept
<1> QED BY <1>1, <1>3, <1>6, HandlesSee, Zenon

LEMMA ShareSees ==
  ASSUME WireInv, PutInv, NEW p \in Procs, NEW q \in Procs, NEW h \in handles[p], ShareHandle(p, q, h)
  PROVE  PutInv'
<1>1. UNCHANGED <<next_handle_id, mem_handles, heap, issued, pending_rma_ops, linkVars>>
  BY Zenon DEF ShareHandle
<1>2. \A r \in Procs : next_handle_id'[r] \in Nat /\ next_handle_id[r] <= next_handle_id'[r]
  BY <1>1, SameCounter, Zenon DEF WireInv
<1>3. RegistryKept
  BY <1>1, SameRegistry, Zenon
<1> QED BY <1>1, <1>2, <1>3, HandlesSee, Zenon

\* A put or a get.
LEMMA IssueSees ==
  ASSUME WireInv, HandleInv, PutInv, NEW p \in Procs, NEW h \in handles[p], h.owner_peer_id \in Procs,
         NEW type, NEW msg_type, Issues(p, h, type, msg_type),
         \/ type = "put" /\ msg_type = "RmaPut"
         \/ type = "get" /\ msg_type = "RmaGetReq",
         UNCHANGED <<handleVars, heap, stream, reader, lost>>,
         \/ UNCHANGED pending_rma_ops
         \/ /\ type = "get"
            /\ pending_rma_ops' = [pending_rma_ops EXCEPT ![p] = Append(@, NextOp(p)[2])]
  PROVE  PutInv'
<1>1. TypeOK /\ LinkInv /\ OpInv
  BY Zenon DEF WireInv, PutInv
<1>2. PICK o \in RmaOp, msg \in OutboundMsg, data \in Seq(Value) :
        /\ o.type = type /\ o.to = h.owner_peer_id /\ o.handle_id = h.handle_id
        /\ msg = Request(p, msg_type, o, data) /\ \A i \in DOMAIN data : data[i] = NextOp(p)
        /\ msg.header.payload_size = Len(msg.payload)
        /\ type = "put" => Len(data) = o.length
        /\ issued' = [issued EXCEPT ![p] = Append(@, o)]
        /\ Enqueue(p, o.to, msg)
  BY Zenon DEF Issues
<1>3. msg.header.msg_type = msg_type /\ msg.header.op = NextOp(p) /\ msg.payload = data
  BY <1>2, Zenon DEF Request
<1>4. MsgFilled(msg)
  BY <1>2, <1>3, Zenon DEF MsgFilled
<1>5. LinkStep
  <2>1. \/ msg_type = "RmaPut" /\ o.type = "put" /\ msg.header.payload_size = o.length
        \/ msg_type = "RmaGetReq" /\ o.type = "get"
    BY <1>2, <1>3, Zenon
  <2> QED BY <1>1, <1>2, <1>4, <2>1, IssueLinks, Zenon
<1>6. o.handle_id < next_handle_id[o.to]
  <2>1. Home(p, h) = h.owner_peer_id
    BY MemoryAssumption, Zenon DEF Home, IsLocal
  <2> QED BY <1>2, <2>1, Zenon DEF HandleInv, IdsIssued
<1>7. msg.header.msg_type # "RmaGetResp" /\ o.to \in Procs
  BY <1>2, <1>3, Zenon
<1>8. OpStep
  <2>1. UNCHANGED <<stream, next_handle_id>>
    BY Zenon DEF handleVars
  <2> QED BY <1>1, <1>2, <1>6, <1>7, <2>1, IssueOps, Zenon
<1>9. \A x \in Answers' : x \in Answers \/ x = msg
  BY <1>1, <1>2, <1>7, EnqueuedAnswers, Zenon
<1>10. RegistryKept /\ lost \subseteq lost'
  BY SameRegistry, Zenon DEF handleVars
<1> QED BY <1>1, <1>5, <1>7, <1>8, <1>9, <1>10, OtherSees, Zenon

LEMMA CancelSees ==
  ASSUME WireInv, PutInv, NEW p \in Procs, CancelGet(p)
  PROVE  PutInv'
<1>1. TypeOK /\ LinkInv /\ OpInv
  BY Zenon DEF WireInv, PutInv
<1>2. UNCHANGED <<handleVars, heap, issued, queue, stream, reader, lost>>
  BY Zenon DEF CancelGet, linkVars
<1>3. PICK i \in DOMAIN pending_rma_ops[p] :
        pending_rma_ops' = [pending_rma_ops EXCEPT ![p] = Without(@, i)]
  BY Zenon DEF CancelGet
<1>4. PendingGets' /\ \A q \in Procs : Range(pending_rma_ops'[q]) \subseteq Range(pending_rma_ops[q])
  <2>1. issued' = issued /\ PendingGets
    BY <1>1, <1>2, Zenon DEF OpInv
  <2> QED BY <1>1, <1>3, <2>1, PendingTaken, Zenon
<1>5. LinkStep
  BY <1>1, <1>2, QuietLinkStep, Zenon
<1>6. OpStep
  <2>1. \A c \in Links : Messages(c)' = Messages(c) /\ queue'[c] = queue[c]
    BY <1>2, Zenon DEF Messages
  <2>2. \A q \in Procs : next_handle_id'[q] \in Nat /\ next_handle_id[q] <= next_handle_id'[q]
    BY <1>1, <1>2, SameCounter, Zenon DEF handleVars
  <2> QED BY <1>1, <1>2, <1>4, <2>1, <2>2, QuietOps, Zenon
<1>7. RegistryKept /\ lost \subseteq lost' /\ Answers' = Answers
  BY <1>2, SameRegistry, Zenon DEF handleVars, Answers
<1> QED BY <1>1, <1>2, <1>5, <1>6, <1>7, OtherSees, Zenon

LEMMA PutInit == Init => PutInv
<1> SUFFICES ASSUME Init PROVE PutInv
  BY Zenon
<1>1. /\ \A c \in Links : queue[c] = <<>> /\ stream[c] = <<>> /\ reader[c] = "reading"
      /\ \A p \in Procs : issued[p] = <<>> /\ pending_rma_ops[p] = <<>>
  BY Zenon DEF Init
<1>2. \A c \in Links : Messages(c) = {} /\ Range(queue[c]) = {} /\ HeadersOf(stream[c]) = {}
  BY <1>1 DEF Messages, HeadersOf, Range
<1>3. Answers = {}
  BY <1>2, Zenon DEF Answers
<1>4. ASSUME NEW c \in Requests PROVE LinkOK(c)
  <2>1. c \in Links /\ From(c) \in Procs
    BY RequestLink, Zenon
  <2>2. Sorted(stream[c]) /\ QueueSorted(queue[c]) /\ Filled(stream[c])
    BY <1>1, <2>1 DEF Sorted, QueueSorted, Filled
  <2>3. InTurn(c)
    BY <1>1, <2>1 DEF InTurn
  <2> QED BY <1>2, <2>1, <2>2, <2>3, Zenon DEF LinkOK
<1>5. LinkInv
  BY <1>1, <1>4, Zenon DEF LinkInv, EndedEmpty
<1>6. OpInv
  BY <1>1, <1>2, <1>3 DEF OpInv, PendingGets, OpsIssued, AnswersIssued, AnswersApart, Range
<1>7. PutsApplied
  <2>1. DOMAIN <<>> = {}
    OBVIOUS
  <2>2. \A c \in Requests : DOMAIN issued[From(c)] = {}
    BY <1>1, <2>1, RequestLink, Zenon
  <2> QED BY <2>2, Zenon DEF PutsApplied
<1>8. ReadsOwnPuts
  BY <1>3, Zenon DEF ReadsOwnPuts
<1> QED BY <1>5, <1>6, <1>7, <1>8, Zenon DEF PutInv

LEMMA PutStep ==
  ASSUME WireInv, HandleInv, PutInv, [Next]_vars
  PROVE  PutInv'
<1>1. ASSUME NEW p \in Procs, User(p) PROVE PutInv'
  <2>1. ASSUME NEW b \in Buffers, MemHandleCreate(p, b) PROVE PutInv'
    BY <2>1, CreateSees, Zenon
  <2>2. ASSUME NEW h \in handles[p], MemHandleFree(p, h) PROVE PutInv'
    BY <2>2, FreeSees, Zenon
  <2>3. ASSUME NEW h \in handles[p], NEW q \in Procs, ShareHandle(p, q, h) PROVE PutInv'
    BY <2>3, ShareSees, Zenon
  <2>4. ASSUME NEW h \in handles[p], NEW span \in load.spans, Put(p, h, span) PROVE PutInv'
    <3>1. h.owner_peer_id \in Procs /\ Issues(p, h, "put", "RmaPut")
      BY <2>4, PutIssues, Zenon DEF WireInv
    <3>2. UNCHANGED <<handleVars, heap, stream, reader, lost>> /\ UNCHANGED pending_rma_ops
      BY <2>4, Zenon DEF Put
    <3> QED BY <3>1, <3>2, IssueSees, Zenon
  <2>5. ASSUME NEW h \in handles[p], NEW lh \in handles[p], NEW span \in load.spans, Get(p, h, lh, span)
        PROVE  PutInv'
    <3>1. h.owner_peer_id \in Procs /\ Issues(p, h, "get", "RmaGetReq")
      BY <2>5, GetIssues, Zenon DEF WireInv
    <3>2. /\ UNCHANGED <<handleVars, heap, stream, reader, lost>>
          /\ pending_rma_ops' = [pending_rma_ops EXCEPT ![p] = Append(@, NextOp(p)[2])]
      BY <2>5, Zenon DEF Get
    <3> QED BY <3>1, <3>2, IssueSees, Zenon
  <2>6. ASSUME CancelGet(p) PROVE PutInv'
    BY <2>6, CancelSees, Zenon
  <2> QED BY <1>1, <2>1, <2>2, <2>3, <2>4, <2>5, <2>6, Zenon DEF User
<1>2. ASSUME NEW c \in Links, Write(c) PROVE PutInv'
  BY <1>2, WriteSees, Zenon
<1>3. ASSUME NEW c \in Links, Read(c) PROVE PutInv'
  BY <1>3, HandleRmaPutSees, HandleRmaGetRequestSees, HandleRmaGetResponseSees, Zenon DEF Read
<1>4. CASE UNCHANGED vars
  <2>1. UNCHANGED <<heap, issued, pending_rma_ops, linkVars>> /\ UNCHANGED <<next_handle_id, mem_handles>>
    BY <1>4, Zenon DEF vars, handleVars
  <2>2. \A q \in Procs : next_handle_id'[q] \in Nat /\ next_handle_id[q] <= next_handle_id'[q]
    BY <2>1, SameCounter, Zenon DEF WireInv
  <2> QED BY <2>1, <2>2, SameRegistry, HandlesSee, Zenon
<1> QED BY <1>1, <1>2, <1>3, <1>4, Zenon DEF Next

LEMMA PutInvariant == Spec => []PutInv
<1>1. WireInv /\ HandleInv /\ PutInv /\ [Next]_vars => PutInv'
  BY PutStep, Zenon
<1> QED BY <1>1, PutInit, WireInvariant, HandleInvariant, PTL DEF Spec

\* A get sees the puts its process made before it to the same handle: the requests
\* of a process to another are handled in the order of the calls, and what a put
\* wrote stays until another process or a younger put writes over it.  Lost puts,
\* and memory into which its owner reads with gets, are excepted.
THEOREM GetsSeePuts == Spec => []ReadsOwnPuts
<1>1. PutInv => ReadsOwnPuts
  BY Zenon DEF PutInv
<1> QED BY <1>1, PutInvariant, PTL
=============================================================================
