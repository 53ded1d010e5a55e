-------------------------- MODULE RmaMemoryProofs ---------------------------
(***************************************************************************)
(* Types, framing, the cells written, handles, the registry and the ids in *)
(* messages, for every set of processes, every heap, every workload and    *)
(* every flow control window.                                              *)
(***************************************************************************)
EXTENDS RmaMemory, TLAPS

\* Time for the SMT solver, for leaves that name no other prover.
USE SMTT(30)

\* Facts about sequences ------------------------------------------------------

\* A sequence is a function from 1..Len to its elements.
LEMMA SeqElements ==
  ASSUME NEW S, NEW s \in Seq(S)
  PROVE  /\ Len(s) \in Nat /\ DOMAIN s = 1..Len(s) /\ s \in [1..Len(s) -> S]
         /\ \A i \in 1..Len(s) : s[i] \in S
OBVIOUS

\* The empty sequence is the one of length 0.
LEMMA SeqEmpty ==
  ASSUME NEW S
  PROVE  << >> \in Seq(S) /\ Len(<< >>) = 0 /\ \A s \in Seq(S) : s # << >> => Len(s) > 0
OBVIOUS

\* A function on 1..n is a sequence of length n.
LEMMA SeqOf ==
  ASSUME NEW S, NEW n \in Nat, NEW s \in [1..n -> S]
  PROVE  s \in Seq(S) /\ Len(s) = n
OBVIOUS

\* The elements of s \o t are those of s and then those of t.
LEMMA SeqConcat ==
  ASSUME NEW S, NEW s \in Seq(S), NEW t \in Seq(S)
  PROVE  /\ s \o t \in Seq(S) /\ Len(s \o t) = Len(s) + Len(t)
         /\ \A i \in 1..Len(s) + Len(t) :
              (s \o t)[i] = IF i <= Len(s) THEN s[i] ELSE t[i - Len(s)]
OBVIOUS

\* SubSeq(s, m, n) is the part of s from m to n.
LEMMA SeqPart ==
  ASSUME NEW S, NEW s \in Seq(S), NEW m \in Nat \ {0}, NEW n \in Nat, n <= Len(s)
  PROVE  /\ SubSeq(s, m, n) \in Seq(S)
         /\ Len(SubSeq(s, m, n)) = IF m <= n THEN n - m + 1 ELSE 0
         /\ \A i \in 1..n - m + 1 : SubSeq(s, m, n)[i] = s[m + i - 1]
OBVIOUS

\* A sequence that is not empty is its head and its tail.
LEMMA SeqTail ==
  ASSUME NEW S, NEW s \in Seq(S), s # << >>
  PROVE  /\ Head(s) \in S /\ Tail(s) \in Seq(S) /\ Len(Tail(s)) = Len(s) - 1
         /\ \A i \in 1..Len(Tail(s)) : Tail(s)[i] = s[i + 1]
OBVIOUS

\* Append adds one element at the end.
LEMMA SeqAppend ==
  ASSUME NEW S, NEW s \in Seq(S), NEW e \in S
  PROVE  /\ Append(s, e) \in Seq(S) /\ Append(s, e) # << >> /\ Len(Append(s, e)) = Len(s) + 1
         /\ \A i \in 1..Len(s) : Append(s, e)[i] = s[i]
         /\ Append(s, e)[Len(s) + 1] = e
OBVIOUS

\* The range of a sequence consists of its elements.
LEMMA SeqRange ==
  ASSUME NEW S, NEW s \in Seq(S)
  PROVE  Range(s) \subseteq S
BY DEF Range

-----------------------------------------------------------------------------
(* Sequences.                                                              *)

LEMMA RangeAppend ==
  ASSUME NEW S, NEW q \in Seq(S), NEW e \in S
  PROVE  Range(Append(q, e)) = Range(q) \cup {e}
<1>1. /\ Len(q) \in Nat /\ DOMAIN q = 1..Len(q)
      /\ DOMAIN Append(q, e) = 1..Len(q) + 1
      /\ \A i \in 1..Len(q) : Append(q, e)[i] = q[i]
      /\ Append(q, e)[Len(q) + 1] = e
  BY SeqElements, SeqAppend
<1> QED BY <1>1 DEF Range

LEMMA RangeTail ==
  ASSUME NEW S, NEW q \in Seq(S), q # <<>>
  PROVE  Range(Tail(q)) \subseteq Range(q) /\ Head(q) \in Range(q)
<1>1. /\ Len(q) \in Nat \ {0} /\ DOMAIN q = 1..Len(q) /\ Head(q) = q[1]
      /\ DOMAIN Tail(q) = 1..Len(q) - 1
      /\ \A j \in 1..Len(q) - 1 : Tail(q)[j] = q[j + 1]
  BY SeqEmpty, SeqElements, SeqTail
<1> QED BY <1>1 DEF Range

\* What is left of a sequence from index k on.
LEMMA RestProperties ==
  ASSUME NEW S, NEW s \in Seq(S), NEW k \in Nat \ {0}, k <= Len(s) + 1
  PROVE  /\ SubSeq(s, k, Len(s)) \in Seq(S)
         /\ Len(SubSeq(s, k, Len(s))) = Len(s) + 1 - k
         /\ \A j \in 1 .. Len(s) + 1 - k : SubSeq(s, k, Len(s))[j] = s[k + j - 1]
         /\ Range(SubSeq(s, k, Len(s))) \subseteq Range(s)
<1> DEFINE n == Len(s)
           r == SubSeq(s, k, n)
<1>1. n \in Nat /\ DOMAIN s = 1..n /\ \A i \in 1..n : s[i] \in S
  BY SeqElements, Zenon
<1>2. \A i \in k..n : s[i] \in S
  BY <1>1
<1>3. /\ r \in Seq(S)
      /\ Len(r) = IF k <= n THEN n - k + 1 ELSE 0
      /\ \A j \in 1 .. n - k + 1 : r[j] = s[k + j - 1]
  BY <1>1, <1>2, SeqPart
<1> HIDE DEF r, n
<1>4. k <= n + 1
  BY Zenon DEF n
<1>5. Len(r) = n + 1 - k /\ n - k + 1 = n + 1 - k
  BY <1>1, <1>3, <1>4
<1>6. DOMAIN r = 1 .. n + 1 - k
  BY <1>3, <1>5, SeqElements, Zenon
<1>7. \A j \in 1 .. n + 1 - k : r[j] = s[k + j - 1] /\ k + j - 1 \in DOMAIN s
  BY <1>1, <1>3, <1>4, <1>5
<1>8. Range(r) \subseteq Range(s)
  BY <1>6, <1>7, Zenon DEF Range
<1> QED BY <1>3, <1>5, <1>7, <1>8, Zenon DEF r, n

LEMMA WithoutType ==
  ASSUME NEW S, NEW s \in Seq(S), NEW i \in DOMAIN s
  PROVE  Without(s, i) \in Seq(S)
<1>1. Len(s) \in Nat /\ i \in 1..Len(s) /\ \A j \in 1..Len(s) : s[j] \in S
  BY SeqElements, Zenon
<1>2. SubSeq(s, 1, i - 1) \in Seq(S)
  <2>1. \A j \in 1..(i - 1) : s[j] \in S
    BY <1>1
  <2> QED BY <1>1, <2>1, SeqPart
<1>3. SubSeq(s, i + 1, Len(s)) \in Seq(S)
  <2>1. \A j \in (i + 1)..Len(s) : s[j] \in S
    BY <1>1
  <2> QED BY <1>1, <2>1, SeqPart
<1> QED BY <1>2, <1>3, SeqConcat, Zenon DEF Without

-----------------------------------------------------------------------------
(* Framing: what a writer appends and what a reader takes away.            *)

LEMMA UnitFields ==
  /\ \A h \in Header : [kind |-> "header", header |-> h] \in Unit
  /\ \A v \in Value : [kind |-> "cell", value |-> v] \in Unit
  /\ \A u \in Unit : u.kind = "header" => u.header \in Header
  /\ \A u \in Unit : u.kind = "cell" => u.value \in Value
BY Zenon DEF Unit

LEMMA HeaderFields ==
  ASSUME NEW h \in Header
  PROVE  /\ h.payload_size \in Nat /\ h.offset \in Nat /\ h.local_offset \in Nat /\ h.rma_length \in Nat
         /\ h.handle_id \in Nat /\ h.local_handle_id \in Nat
         /\ h.source_peer_id \in Procs /\ h.op \in OpNums
         /\ h.msg_type \in {"RmaPut", "RmaGetReq", "RmaGetResp"}
BY Zenon DEF Header

LEMMA MsgFields ==
  ASSUME NEW msg \in OutboundMsg
  PROVE  msg.header \in Header /\ msg.payload \in Seq(Value)
BY Zenon DEF OutboundMsg

LEMMA EncodedProperties ==
  ASSUME NEW msg \in OutboundMsg
  PROVE  /\ Encoded(msg) \in Seq(Unit)
         /\ Len(Encoded(msg)) = Len(msg.payload) + 1
         /\ Encoded(msg)[1] = [kind |-> "header", header |-> msg.header]
         /\ \A j \in 2 .. Len(msg.payload) + 1 : Encoded(msg)[j].kind = "cell"
<1> DEFINE n == Len(msg.payload)
           first == [kind |-> "header", header |-> msg.header]
           a == <<first>>
           b == [i \in DOMAIN msg.payload |-> [kind |-> "cell", value |-> msg.payload[i]]]
<1>1. msg.header \in Header /\ msg.payload \in Seq(Value)
  BY MsgFields, Zenon
<1>2. n \in Nat /\ DOMAIN msg.payload = 1..n /\ \A i \in 1..n : msg.payload[i] \in Value
  BY <1>1, SeqElements, Zenon
<1>3. first \in Unit
  BY <1>1, UnitFields, Zenon
<1>4. \A i \in 1..n : [kind |-> "cell", value |-> msg.payload[i]] \in Unit
  BY <1>2, UnitFields, Zenon
<1>5. b \in [1..n -> Unit]
  BY <1>2, <1>4, Zenon
<1>6. b \in Seq(Unit) /\ Len(b) = n
  BY <1>2, <1>5, SeqOf
<1>7. \A i \in 1..n : b[i].kind = "cell"
  BY <1>2, Zenon
<1>8. Encoded(msg) = a \o b
  BY Zenon DEF Encoded
<1> HIDE DEF first, b, n
<1>9. a \in Seq(Unit) /\ Len(a) = 1 /\ a[1] = first
  BY <1>3
<1> HIDE DEF a
<1>10. /\ a \o b \in Seq(Unit) /\ Len(a \o b) = 1 + n
       /\ \A i \in 1 .. Len(a) + Len(b) : (a \o b)[i] = IF i <= Len(a) THEN a[i] ELSE b[i - Len(a)]
  <2>1. /\ a \o b \in Seq(Unit) /\ Len(a \o b) = Len(a) + Len(b)
        /\ \A i \in 1 .. Len(a) + Len(b) : (a \o b)[i] = IF i <= Len(a) THEN a[i] ELSE b[i - Len(a)]
    BY <1>6, <1>9, SeqConcat, Zenon
  <2>2. Len(a \o b) = 1 + n
    BY <1>6, <1>9, <2>1, Zenon
  <2> QED BY <2>1, <2>2, Zenon
<1> DEFINE ab == a \o b
<1>11. \A i \in 1 .. 1 + n : ab[i] = IF i <= 1 THEN a[i] ELSE b[i - 1]
  <2>1. \A i \in 1 .. Len(a) + Len(b) : ab[i] = IF i <= Len(a) THEN a[i] ELSE b[i - Len(a)]
    BY <1>10, Zenon
  <2> HIDE DEF ab
  <2> QED BY <1>6, <1>9, <2>1, Zenon
<1> HIDE DEF ab
<1>12. ab[1] = first
  BY <1>2, <1>9, <1>11
<1>13. ASSUME NEW j \in 2 .. n + 1 PROVE ab[j].kind = "cell"
  <2>1. j \in 1 .. 1 + n /\ ~ (j <= 1) /\ j - 1 \in 1..n
    BY <1>2
  <2>2. ab[j] = b[j - 1]
    BY <1>11, <2>1, Zenon
  <2> QED BY <1>7, <2>1, <2>2, Zenon
<1> QED BY <1>2, <1>8, <1>10, <1>12, <1>13 DEF ab, first, n

\* A reader finds the whole payload behind the header and leaves a framed stream.
LEMMA FramedRest ==
  ASSUME NEW s \in Seq(Unit), Framed(s), s # <<>>
  PROVE  LET n == s[1].header.payload_size IN
         /\ s[1].kind = "header" /\ s[1].header \in Header /\ n \in Nat
         /\ n + 1 <= Len(s)
         /\ \A j \in 1..n : s[j + 1].value \in Value
         /\ Framed(SubSeq(s, n + 2, Len(s)))
<1> DEFINE n == s[1].header.payload_size
           l == Len(s)
           t == SubSeq(s, n + 2, l)
<1>1. l \in Nat \ {0} /\ DOMAIN s = 1..l /\ 1 \in DOMAIN s
  BY SeqElements, SeqEmpty
<1>2. \A i \in 1..l : s[i] \in Unit
  BY SeqElements, Zenon
<1>3. s[1].kind = "header"
  BY Zenon DEF Framed
<1>4. s[1].header \in Header /\ n \in Nat
  BY <1>1, <1>2, <1>3, UnitFields, HeaderFields, Zenon
<1>5. /\ 1 + n <= l
      /\ \A j \in 2 .. 1 + n : s[j].kind = "cell"
      /\ 1 + n < l => s[1 + n + 1].kind = "header"
  BY <1>1, <1>3 DEF Framed
<1> HIDE DEF n
<1>6. \A j \in 1..n : s[j + 1].value \in Value
  <2>1. \A j \in 1..n : j + 1 \in 2 .. 1 + n /\ j + 1 \in 1..l
    BY <1>1, <1>4, <1>5
  <2> QED BY <1>2, <1>5, <2>1, UnitFields, Zenon
<1>7. n + 2 \in Nat \ {0} /\ n + 2 <= l + 1
  BY <1>1, <1>4, <1>5
<1>8. /\ t \in Seq(Unit) /\ Len(t) = l + 1 - (n + 2)
      /\ \A j \in 1 .. l + 1 - (n + 2) : t[j] = s[(n + 2) + j - 1]
  BY <1>7, RestProperties
<1> HIDE DEF t
<1> DEFINE k == l - (n + 1)
<1>9. k \in Nat /\ k = l + 1 - (n + 2) /\ l = k + (n + 1)
  BY <1>1, <1>4, <1>5
<1> HIDE DEF k
<1>10. DOMAIN t = 1..k /\ Len(t) = k
  BY <1>8, <1>9, SeqElements, Zenon
<1>11. \A j \in 1..k : t[j] = s[j + (n + 1)] /\ j + (n + 1) \in 1..l
  <2>1. \A j \in 1..k : (n + 2) + j - 1 = j + (n + 1) /\ j + (n + 1) \in 1..l
    BY <1>4, <1>9
  <2> QED BY <1>8, <1>9, <2>1, Zenon
<1>12. t # <<>> => t[1].kind = "header"
  <2>1. SUFFICES ASSUME t # <<>> PROVE t[1].kind = "header"
    BY Zenon
  <2>2. k > 0
    BY <1>8, <1>9, <1>10, <2>1, SeqEmpty, Zenon
  <2>3. 1 \in 1..k /\ 1 + n < l /\ 1 + n + 1 = 1 + (n + 1)
    BY <1>4, <1>9, <2>2
  <2>4. t[1] = s[1 + n + 1]
    BY <1>11, <2>3, Zenon
  <2> QED BY <1>5, <2>3, <2>4, Zenon
<1>13. ASSUME NEW i \in DOMAIN t, t[i].kind = "header"
       PROVE  LET m == t[i].header.payload_size IN
              /\ i + m <= Len(t)
              /\ \A j \in i + 1 .. i + m : t[j].kind = "cell"
              /\ i + m < Len(t) => t[i + m + 1].kind = "header"
  <2> DEFINE m == t[i].header.payload_size
             o == i + (n + 1)
  <2>1. i \in 1..k /\ t[i] = s[o] /\ o \in 1..l /\ s[o] \in Unit
    BY <1>2, <1>10, <1>11, Zenon
  <2>2. m \in Nat
    BY <1>13, <2>1, UnitFields, HeaderFields, Zenon
  <2>3. /\ o + m <= l
        /\ \A j \in o + 1 .. o + m : s[j].kind = "cell"
        /\ o + m < l => s[o + m + 1].kind = "header"
    BY <1>1, <1>13, <2>1 DEF Framed
  <2> HIDE DEF m
  <2>4. i + m <= k
    BY <1>4, <1>9, <2>1, <2>2, <2>3
  <2>5. ASSUME NEW j \in i + 1 .. i + m PROVE t[j].kind = "cell"
    <3>1. j \in 1..k /\ j + (n + 1) \in o + 1 .. o + m
      <4>1. i \in Nat /\ i >= 1 /\ k \in Nat /\ n \in Nat /\ m \in Nat /\ j \in Nat
        BY <1>4, <1>9, <2>1, <2>2
      <4>2. j \in 1..k
        BY <2>4, <4>1
      <4>3. j + (n + 1) \in o + 1 .. o + m
        BY <4>1
      <4> QED BY <4>2, <4>3, Zenon
    <3>2. t[j] = s[j + (n + 1)]
      BY <1>11, <3>1, Zenon
    <3> QED BY <2>3, <3>1, <3>2, Zenon
  <2>6. ASSUME i + m < k PROVE t[i + m + 1].kind = "header"
    <3>1. i + m + 1 \in 1..k /\ (i + m + 1) + (n + 1) = o + m + 1 /\ o + m < l
      <4>1. i \in Nat /\ i >= 1 /\ k \in Nat /\ n \in Nat /\ m \in Nat
        BY <1>4, <1>9, <2>1, <2>2
      <4>2. i + m + 1 \in 1..k
        BY <2>6, <4>1
      <4>3. (i + m + 1) + (n + 1) = o + m + 1
        BY <4>1
      <4>4. o + m < l
        BY <1>9, <2>6, <4>1
      <4> QED BY <4>2, <4>3, <4>4, Zenon
    <3>2. t[i + m + 1] = s[o + m + 1]
      BY <1>11, <3>1
    <3> QED BY <2>3, <3>1, <3>2, Zenon
  <2> QED BY <1>10, <2>4, <2>5, <2>6, Zenon DEF m
<1>14. Framed(t)
  BY <1>12, <1>13, Zenon DEF Framed
<1>15. n + 1 <= l
  BY <1>1, <1>4, <1>5
<1> QED BY <1>3, <1>4, <1>6, <1>14, <1>15, Zenon DEF n, t

-----------------------------------------------------------------------------
(* Type correctness, with what it takes to keep the streams framed: every  *)
(* header tells the length of its payload, and no length reaches the limit *)
(* of payload_size.                                                        *)

SizesTrue == \A c \in Links : \A m \in Range(queue[c]) : m.header.payload_size = Len(m.payload)
LengthsShort == \A c \in Links : \A h \in Messages(c) : h.rma_length < PayloadLimit
WireInv == TypeOK /\ SizesTrue /\ StreamsFramed /\ LengthsShort

LEMMA PayloadSizeTrue ==
  ASSUME NEW S, NEW data \in Seq(S), Len(data) < PayloadLimit
  PROVE  PayloadSize(data) = Len(data) /\ PayloadSize(data) \in Nat
<1>1. Len(data) \in Nat /\ PayloadLimit \in Nat \ {0}
  BY SeqElements, MemoryAssumption, Zenon
<1> DEFINE n == Len(data)
<1> HIDE DEF n
<1>2. n \in Nat /\ n < PayloadLimit => n % PayloadLimit = n
  BY <1>1
<1> QED BY <1>1, <1>2, Zenon DEF PayloadSize, n

\* What the steps do to the messages of a link.
LEMMA EnqueuedMessages ==
  ASSUME TypeOK, NEW p \in Procs, NEW q \in Procs, NEW msg \in OutboundMsg, Enqueue(p, q, msg),
         \A c \in Links : HeadersOf(stream'[c]) \subseteq HeadersOf(stream[c])
  PROVE  /\ queue' \in [Links -> Seq(OutboundMsg)]
         /\ \A c \in Links :
              \/ queue'[c] = queue[c] /\ Messages(c)' \subseteq Messages(c)
              \/ /\ c = <<p, q, PoolFor(msg.header.msg_type)>>
                 /\ Range(queue'[c]) = Range(queue[c]) \cup {msg}
                 /\ Messages(c)' \subseteq Messages(c) \cup {msg.header}
<1> DEFINE d == <<p, q, PoolFor(msg.header.msg_type)>>
<1>1. d \in Links /\ queue \in [Links -> Seq(OutboundMsg)]
  BY Zenon DEF TypeOK, Links, Pools, PoolFor
<1>2. queue' = [queue EXCEPT ![d] = Append(queue[d], msg)]
  BY Zenon DEF Enqueue
<1> HIDE DEF d
<1>3. Append(queue[d], msg) \in Seq(OutboundMsg) /\ Range(Append(queue[d], msg)) = Range(queue[d]) \cup {msg}
  BY <1>1, SeqAppend, RangeAppend
<1>4. queue' \in [Links -> Seq(OutboundMsg)]
  BY <1>1, <1>2, <1>3, Zenon
<1>5. \A c \in Links : c # d => queue'[c] = queue[c]
  BY <1>1, <1>2, Zenon
<1>6. Range(queue'[d]) = Range(queue[d]) \cup {msg}
  BY <1>1, <1>2, <1>3, Zenon
<1>7. Messages(d)' \subseteq Messages(d) \cup {msg.header}
  <2>1. HeadersOf(stream'[d]) \subseteq HeadersOf(stream[d])
    BY <1>1, Zenon
  <2>2. {m.header : m \in Range(queue'[d])} = {m.header : m \in Range(queue[d])} \cup {msg.header}
    BY <1>6, Zenon
  <2> QED BY <2>1, <2>2, Zenon DEF Messages
<1>8. \A c \in Links : c # d => Messages(c)' \subseteq Messages(c)
  BY <1>5, Zenon DEF Messages
<1> QED BY <1>4, <1>5, <1>6, <1>7, <1>8, Zenon DEF d

LEMMA EncodedHeaders ==
  ASSUME NEW s \in Seq(Unit), NEW msg \in OutboundMsg
  PROVE  HeadersOf(s \o Encoded(msg)) \subseteq HeadersOf(s) \cup {msg.header}
<1>RangeConcat.
      ASSUME NEW S, NEW a \in Seq(S), NEW b \in Seq(S)
      PROVE  Range(a \o b) \subseteq Range(a) \cup Range(b)
  <2>1. /\ Len(a) \in Nat /\ Len(b) \in Nat /\ DOMAIN a = 1..Len(a) /\ DOMAIN b = 1..Len(b)
        /\ a \o b \in Seq(S) /\ Len(a \o b) = Len(a) + Len(b)
        /\ \A i \in 1..Len(a) + Len(b) : (a \o b)[i] = IF i <= Len(a) THEN a[i] ELSE b[i - Len(a)]
    BY SeqElements, SeqConcat
  <2> DEFINE st == a \o b
  <2>2. DOMAIN st = 1..Len(a) + Len(b)
    BY <2>1, SeqElements, Zenon
  <2>3. \A i \in 1..Len(a) + Len(b) : st[i] = IF i <= Len(a) THEN a[i] ELSE b[i - Len(a)]
    BY <2>1, Zenon
  <2> HIDE DEF st
  <2>4. ASSUME NEW i \in DOMAIN st PROVE st[i] \in Range(a) \cup Range(b)
    <3>1. CASE i <= Len(a)
      BY <2>1, <2>2, <2>3, <3>1 DEF Range
    <3>2. CASE ~ (i <= Len(a))
      <4>1. i - Len(a) \in DOMAIN b /\ st[i] = b[i - Len(a)]
        BY <2>1, <2>2, <2>3, <3>2
      <4> QED BY <4>1, Zenon DEF Range
    <3> QED BY <3>1, <3>2, Zenon
  <2> QED BY <2>4, Zenon DEF Range, st
<1> DEFINE e == Encoded(msg)
           n == Len(msg.payload)
<1>1. /\ e \in Seq(Unit) /\ Len(e) = n + 1
      /\ e[1] = [kind |-> "header", header |-> msg.header]
      /\ \A j \in 2 .. n + 1 : e[j].kind = "cell"
  BY EncodedProperties, Zenon
<1>2. n \in Nat
  BY MsgFields, SeqElements, Zenon
<1> HIDE DEF e, n
<1>3. DOMAIN e = 1 .. n + 1
  BY <1>1, SeqElements, Zenon
<1>4. \A u \in Range(e) : u.kind = "header" => u.header = msg.header
  <2>1. SUFFICES ASSUME NEW i \in 1 .. n + 1, e[i].kind = "header" PROVE e[i].header = msg.header
    BY <1>3, Zenon DEF Range
  <2>2. i = 1
    <3>1. CASE i \in 2 .. n + 1
      BY <1>1, <2>1, <3>1, Zenon
    <3> QED BY <1>2, <3>1
  <2> QED BY <1>1, <2>2
<1>5. Range(s \o e) \subseteq Range(s) \cup Range(e)
  BY <1>1, <1>RangeConcat, Zenon
<1> QED BY <1>4, <1>5, Zenon DEF HeadersOf, e

LEMMA HeadersSubset ==
  ASSUME NEW s, NEW t, Range(t) \subseteq Range(s)
  PROVE  HeadersOf(t) \subseteq HeadersOf(s)
BY Zenon DEF HeadersOf

LEMMA ReadEffect ==
  ASSUME TypeOK, StreamsFramed, NEW c \in Links, NEW type, ReadMessage(c, type)
  PROVE  /\ Incoming(c) \in Header /\ Incoming(c) \in HeadersOf(stream[c]) /\ Incoming(c).msg_type = type
         /\ PayloadOf(c) \in Seq(Value)
         /\ stream' \in [Links -> Seq(Unit)] /\ StreamsFramed'
         /\ \A d \in Links : HeadersOf(stream'[d]) \subseteq HeadersOf(stream[d])
<1> DEFINE s == stream[c]
           n == Incoming(c).payload_size
           t == SubSeq(s, n + 2, Len(s))
<1>1. /\ s \in Seq(Unit) /\ stream \in [Links -> Seq(Unit)] /\ Framed(s) /\ s # <<>>
      /\ stream' = [stream EXCEPT ![c] = t] /\ Incoming(c).msg_type = type
  BY Zenon DEF TypeOK, StreamsFramed, ReadMessage
<1>2. Head(s) = s[1] /\ Incoming(c) = s[1].header /\ Len(s) \in Nat /\ 1 \in DOMAIN s
  BY <1>1, SeqEmpty, SeqElements DEF Incoming
<1>3. /\ s[1].kind = "header" /\ Incoming(c) \in Header /\ n \in Nat /\ n + 1 <= Len(s)
      /\ \A j \in 1..n : s[j + 1].value \in Value
      /\ Framed(t)
  BY <1>1, <1>2, FramedRest, Zenon
<1>4. n + 2 \in Nat \ {0} /\ n + 2 <= Len(s) + 1
  BY <1>2, <1>3
<1>5. t \in Seq(Unit) /\ Range(t) \subseteq Range(s)
  BY <1>1, <1>4, RestProperties, Zenon
<1>6. Incoming(c) \in HeadersOf(s)
  <2>1. s[1] \in Range(s)
    BY <1>2, Zenon DEF Range
  <2> QED BY <1>2, <1>3, <2>1, Zenon DEF HeadersOf
<1>7. PayloadOf(c) \in Seq(Value)
  <2>1. PayloadOf(c) = [i \in 1..n |-> s[i + 1].value]
    BY Zenon DEF PayloadOf
  <2> HIDE DEF n, s
  <2>2. PayloadOf(c) \in [1..n -> Value]
    BY <1>3, <2>1, Zenon
  <2> QED BY <1>3, <2>2, SeqOf, Zenon
<1> HIDE DEF t, n
<1>8. stream' \in [Links -> Seq(Unit)]
  BY <1>1, <1>5, Zenon
<1>9. stream'[c] = t /\ \A d \in Links : d # c => stream'[d] = stream[d]
  BY <1>1, Zenon
<1>10. StreamsFramed'
  BY <1>3, <1>9, Zenon DEF StreamsFramed
<1>11. ASSUME NEW d \in Links PROVE HeadersOf(stream'[d]) \subseteq HeadersOf(stream[d])
  <2>1. Range(stream'[d]) \subseteq Range(stream[d])
    BY <1>5, <1>9, Zenon
  <2> QED BY <2>1, HeadersSubset, Zenon
<1> QED BY <1>1, <1>3, <1>6, <1>7, <1>8, <1>10, <1>11, Zenon

LEMMA CopyLenBounds ==
  ASSUME NEW n \in Nat, NEW offset \in Nat, NEW size \in Nat
  PROVE  /\ CopyLen(n, offset, size) \in Nat /\ CopyLen(n, offset, size) <= n
         /\ CopyLen(n, offset, size) > 0 => offset + CopyLen(n, offset, size) <= size
BY DEF CopyLen

LEMMA RegistryEntry ==
  ASSUME TypeOK, NEW p \in Procs, NEW id \in DOMAIN mem_handles[p]
  PROVE  /\ mem_handles[p][id] \in Buffers /\ mem_handles[p][id] \in Buffer
         /\ mem_handles[p][id].buf \in Nat /\ mem_handles[p][id].buf_size \in Nat
         /\ mem_handles[p][id].buf + mem_handles[p][id].buf_size <= HeapSize
<1>1. mem_handles[p][id] \in Buffers
  BY Zenon DEF TypeOK
<1>2. mem_handles[p][id] \in Buffer
  BY <1>1, MemoryAssumption, Zenon
<1>3. mem_handles[p][id].buf \in Nat /\ mem_handles[p][id].buf_size \in Nat
  BY <1>2, MemoryAssumption DEF Buffer, Cells
<1> QED BY <1>1, <1>2, <1>3, MemoryAssumption, Zenon

-----------------------------------------------------------------------------
(* Steps.                                                                  *)

\* What a step may write.
RegionStep ==
  \A p \in Procs : \A a \in Cells :
    heap'[p][a] # heap[p][a] => \E id \in DOMAIN mem_handles[p] : a \in Region(mem_handles[p][id])

\* A handle that is passed on keeps its id and its size, and designates the
\* process that created it.
LEMMA SharedHandle ==
  ASSUME NEW p \in Procs, NEW h \in MemHandle
  PROVE  LET g == Deserialized(Serialized(p, h)) IN
         /\ g \in MemHandle /\ ~ IsLocal(g)
         /\ g.handle_id = h.handle_id /\ g.buf_size = h.buf_size
         /\ g.owner_peer_id = IF IsLocal(h) THEN p ELSE h.owner_peer_id
<1> DEFINE owner == IF IsLocal(h) THEN p ELSE h.owner_peer_id
<1>1. /\ h.handle_id \in Nat \ {0} /\ h.buf_size \in Nat
      /\ owner \in Procs /\ owner # NoProc
  BY MemoryAssumption, Zenon DEF MemHandle, IsLocal
<1>2. Deserialized(Serialized(p, h))
        = [handle_id |-> h.handle_id, owner_peer_id |-> owner, buf |-> 0, buf_size |-> h.buf_size]
  BY Zenon DEF Deserialized, Serialized
<1> HIDE DEF owner
<1>3. [handle_id |-> h.handle_id, owner_peer_id |-> owner, buf |-> 0, buf_size |-> h.buf_size] \in MemHandle
  BY <1>1, Zenon DEF MemHandle
<1> QED BY <1>1, <1>2, <1>3 DEF IsLocal, owner

LEMMA NextOpType ==
  ASSUME TypeOK, NEW p \in Procs
  PROVE  NextOp(p) \in OpNums /\ NextOp(p) \in Value /\ NextOp(p)[2] \in Nat \ {0}
<1>1. Len(issued[p]) + 1 \in Nat \ {0}
  BY SeqElements DEF TypeOK
<1> QED BY <1>1, Zenon DEF NextOp, OpNums, Value

LEMMA RequestType ==
  ASSUME TypeOK, NEW p \in Procs, NEW o \in RmaOp, o.length < PayloadLimit,
         NEW type \in {"RmaPut", "RmaGetReq"}, NEW data \in Seq(Value), Len(data) < PayloadLimit
  PROVE  LET msg == Request(p, type, o, data) IN
         /\ msg \in OutboundMsg
         /\ msg.header.payload_size = Len(msg.payload) /\ msg.header.rma_length < PayloadLimit
         /\ msg.header.msg_type = type /\ msg.header.handle_id = o.handle_id
<1> DEFINE n == PayloadSize(data)
           h == [msg_type |-> type, payload_size |-> n, source_peer_id |-> p,
                 handle_id |-> o.handle_id, offset |-> o.offset, rma_length |-> o.length,
                 local_handle_id |-> o.local_handle_id, local_offset |-> o.local_offset,
                 op |-> NextOp(p)]
<1>1. n = Len(data) /\ n \in Nat
  BY PayloadSizeTrue, Zenon
<1>2. NextOp(p) \in OpNums
  BY NextOpType, Zenon
<1>3. /\ o.handle_id \in Nat /\ o.offset \in Nat /\ o.length \in Nat
      /\ o.local_handle_id \in Nat /\ o.local_offset \in Nat
  BY Zenon DEF RmaOp
<1>4. Request(p, type, o, data) = [header |-> h, payload |-> data]
  BY Zenon DEF Request
<1> HIDE DEF n
<1>5. h \in Header
  BY <1>1, <1>2, <1>3, Zenon DEF Header
<1>6. h.payload_size = n /\ h.rma_length = o.length /\ h.msg_type = type /\ h.handle_id = o.handle_id
  BY Zenon
<1> HIDE DEF h
<1>7. [header |-> h, payload |-> data] \in OutboundMsg
  BY <1>5, Zenon DEF OutboundMsg
<1> QED BY <1>1, <1>4, <1>6, <1>7

LEMMA SpanType ==
  ASSUME TypeOK, NEW span \in load.spans
  PROVE  /\ span[1] \in Nat /\ span[2] \in Nat /\ span[3] \in Nat
         /\ span[3] < PayloadLimit
<1>1. span \in Nat \X Nat \X Nat /\ span[3] < PayloadLimit
  BY MemoryAssumption, Zenon DEF TypeOK
<1> QED BY <1>1, Zenon

\* The only new message of a put or a get goes to the owner of its handle and
\* designates that handle.
Requested(h) ==
  \A c \in Links : \A m \in Messages(c)' :
    m \in Messages(c) \/ (To(c) = h.owner_peer_id /\ m.handle_id = h.handle_id)

\* p issues an operation of this type to the handle h and sends the message for it.
Issues(p, h, type, msg_type) ==
  \E o \in RmaOp, msg \in OutboundMsg, data \in Seq(Value) :
    /\ o.type = type /\ o.to = h.owner_peer_id /\ o.handle_id = h.handle_id
    /\ msg = Request(p, msg_type, o, data) /\ \A i \in DOMAIN data : data[i] = NextOp(p)
    /\ msg.header.payload_size = Len(msg.payload) /\ msg.header.rma_length < PayloadLimit
    /\ type = "put" => Len(data) = o.length
    /\ issued' = [issued EXCEPT ![p] = Append(@, o)]
    /\ Enqueue(p, o.to, msg)

LEMMA PutIssues ==
  ASSUME TypeOK, NEW p \in Procs, NEW h \in handles[p], NEW span \in load.spans, Put(p, h, span)
  PROVE  h.owner_peer_id \in Procs /\ Issues(p, h, "put", "RmaPut")
<1> DEFINE o == [type |-> "put", to |-> h.owner_peer_id, handle_id |-> h.handle_id,
                 offset |-> span[1], length |-> span[3], local_handle_id |-> 0, local_offset |-> 0]
           data == [i \in 1 .. span[3] |-> NextOp(p)]
           msg == Request(p, "RmaPut", o, data)
<1>1. Post(p, o) /\ Enqueue(p, h.owner_peer_id, msg)
  BY Zenon DEF Put
<1>2. h \in MemHandle
  BY Zenon DEF TypeOK
<1>3. h.owner_peer_id \in Procs /\ h.handle_id \in Nat
  BY <1>1, <1>2, Zenon DEF Post, MemHandle
<1>4. span[1] \in Nat /\ span[3] \in Nat /\ span[3] < PayloadLimit
  BY SpanType, Zenon
<1>5. /\ o \in RmaOp /\ o.length = span[3] /\ o.handle_id = h.handle_id
      /\ o.type = "put" /\ o.to = h.owner_peer_id
  BY <1>3, <1>4, Zenon DEF RmaOp
<1>6. data \in Seq(Value) /\ Len(data) = span[3] /\ \A i \in DOMAIN data : data[i] = NextOp(p)
  <2> DEFINE n == span[3]
  <2>1. data \in [1 .. n -> Value] /\ n \in Nat /\ \A i \in DOMAIN data : data[i] = NextOp(p)
    BY <1>4, NextOpType, Zenon
  <2> HIDE DEF data, n
  <2>2. data \in Seq(Value)
    BY <2>1, SeqOf, Zenon
  <2>3. Len(data) \in Nat /\ 1 .. Len(data) = 1 .. n
    BY <2>1, <2>2, SeqElements, Zenon
  <2>4. Len(data) = n
    BY <2>1, <2>3
  <2> QED BY <2>1, <2>2, <2>4, Zenon DEF n
<1>7. issued' = [issued EXCEPT ![p] = Append(@, o)]
  BY <1>1, Zenon DEF Post
<1> HIDE DEF o, data
<1>8. /\ msg \in OutboundMsg /\ msg.header.payload_size = Len(msg.payload)
      /\ msg.header.rma_length < PayloadLimit
  <2>1. o.length < PayloadLimit /\ Len(data) < PayloadLimit
    BY <1>4, <1>5, <1>6, Zenon
  <2> QED BY <1>5, <1>6, <2>1, RequestType, Zenon
<1>9. Enqueue(p, o.to, msg) /\ Len(data) = o.length
  BY <1>1, <1>5, <1>6, Zenon
<1> QED BY <1>3, <1>5, <1>6, <1>7, <1>8, <1>9, Zenon DEF Issues

LEMMA GetIssues ==
  ASSUME TypeOK, NEW p \in Procs, NEW h \in handles[p], NEW lh \in handles[p], NEW span \in load.spans,
         Get(p, h, lh, span)
  PROVE  h.owner_peer_id \in Procs /\ Issues(p, h, "get", "RmaGetReq")
<1> DEFINE o == [type |-> "get", to |-> h.owner_peer_id, handle_id |-> h.handle_id,
                 offset |-> span[1], length |-> span[3],
                 local_handle_id |-> lh.handle_id, local_offset |-> span[2]]
           msg == Request(p, "RmaGetReq", o, <<>>)
<1>1. Post(p, o) /\ Enqueue(p, h.owner_peer_id, msg)
  BY Zenon DEF Get
<1>2. h \in MemHandle /\ lh \in MemHandle
  BY Zenon DEF TypeOK
<1>3. h.owner_peer_id \in Procs /\ h.handle_id \in Nat /\ lh.handle_id \in Nat
  BY <1>1, <1>2, Zenon DEF Post, MemHandle
<1>4. span[1] \in Nat /\ span[2] \in Nat /\ span[3] \in Nat /\ span[3] < PayloadLimit
  BY SpanType, Zenon
<1>5. /\ o \in RmaOp /\ o.length = span[3] /\ o.handle_id = h.handle_id
      /\ o.type = "get" /\ o.to = h.owner_peer_id
  BY <1>3, <1>4, Zenon DEF RmaOp
<1>6. issued' = [issued EXCEPT ![p] = Append(@, o)]
  BY <1>1, Zenon DEF Post
<1> HIDE DEF o
<1>7. <<>> \in Seq(Value) /\ Len(<<>>) < PayloadLimit /\ \A i \in DOMAIN <<>> : <<>>[i] = NextOp(p)
  BY MemoryAssumption
<1>8. /\ msg \in OutboundMsg /\ msg.header.payload_size = Len(msg.payload)
      /\ msg.header.rma_length < PayloadLimit
  BY <1>4, <1>5, <1>7, RequestType, Zenon
<1>9. Enqueue(p, o.to, msg)
  BY <1>1, <1>5, Zenon
<1>10. "get" # "put"
  BY Zenon
<1> QED BY <1>3, <1>5, <1>6, <1>7, <1>8, <1>9, <1>10, Zenon DEF Issues

-----------------------------------------------------------------------------
(* Steps of the writers and the readers.                                   *)

LEMMA LinkEnds ==
  ASSUME NEW c \in Links
  PROVE  From(c) \in Procs /\ To(c) \in Procs /\ <<To(c), From(c), "cmd">> \in Links
BY Zenon DEF Links, Pools, From, To

\* The first message of a writer's channel, and the channel without it.
LEMMA NextMessage ==
  ASSUME WireInv, NEW c \in Links, queue[c] # <<>>, queue' = [queue EXCEPT ![c] = Tail(@)]
  PROVE  /\ Head(queue[c]) \in OutboundMsg /\ Head(queue[c]).header \in Messages(c)
         /\ Head(queue[c]).header.payload_size = Len(Head(queue[c]).payload)
         /\ queue' \in [Links -> Seq(OutboundMsg)] /\ SizesTrue'
         /\ \A d \in Links : Range(queue'[d]) \subseteq Range(queue[d])
<1> DEFINE q == queue[c]
           msg == Head(q)
           t == Tail(q)
<1>1. queue \in [Links -> Seq(OutboundMsg)] /\ q \in Seq(OutboundMsg)
  BY Zenon DEF WireInv, TypeOK
<1>2. msg \in OutboundMsg /\ t \in Seq(OutboundMsg)
  BY <1>1, SeqTail, Zenon
<1>3. Range(t) \subseteq Range(q) /\ msg \in Range(q)
  BY <1>1, RangeTail, Zenon
<1> HIDE DEF msg, t
<1>4. queue' = [queue EXCEPT ![c] = t]
  BY Zenon DEF t
<1>5. queue' \in [Links -> Seq(OutboundMsg)] /\ \A d \in Links : Range(queue'[d]) \subseteq Range(queue[d])
  BY <1>1, <1>2, <1>3, <1>4, Zenon
<1>6. SizesTrue' /\ msg.header.payload_size = Len(msg.payload)
  BY <1>3, <1>5, Zenon DEF WireInv, SizesTrue
<1>7. msg.header \in Messages(c)
  BY <1>3, Zenon DEF Messages
<1> QED BY <1>2, <1>5, <1>6, <1>7, Zenon DEF msg

LEMMA ReadQuietly ==
  ASSUME WireInv, NEW c \in Links, NEW type, ReadMessage(c, type), UNCHANGED queue
  PROVE  \A d \in Links : Messages(d)' \subseteq Messages(d)
<1>1. \A d \in Links : HeadersOf(stream'[d]) \subseteq HeadersOf(stream[d])
  BY ReadEffect, Zenon DEF WireInv
<1> QED BY <1>1, Zenon DEF Messages

LEMMA AnswerMessage ==
  ASSUME WireInv, NEW c \in Links, ReadMessage(c, "RmaGetReq"),
         Incoming(c).handle_id \in DOMAIN mem_handles[To(c)]
  PROVE  LET m == Incoming(c)
             entry == mem_handles[To(c)][m.handle_id]
             n == CopyLen(m.rma_length, m.offset, entry.buf_size)
             data == [i \in 1 .. n |-> heap[To(c)][entry.buf + m.offset + i - 1]]
             msg == Answer(To(c), m, data)
         IN /\ msg \in OutboundMsg /\ msg.header.msg_type = "RmaGetResp"
            /\ msg.header.payload_size = Len(msg.payload) /\ msg.header.rma_length < PayloadLimit
\* What a get request reads: no more than it asks for, and only cells of the entry.
<1>ReadCells.
      ASSUME NEW cells \in [Cells -> Value], NEW buf \in Nat, NEW size \in Nat, buf + size <= HeapSize,
             NEW length \in Nat, NEW offset \in Nat
      PROVE  LET n == CopyLen(length, offset, size)
                 data == [i \in 1 .. n |-> cells[buf + offset + i - 1]]
             IN data \in Seq(Value) /\ Len(data) = n /\ n \in Nat /\ n <= length
  <2> USE <1>ReadCells
  <2> DEFINE n == CopyLen(length, offset, size)
             data == [i \in 1 .. n |-> cells[buf + offset + i - 1]]
  <2>1. n \in Nat /\ n <= length /\ (n > 0 => offset + n <= size)
    BY CopyLenBounds, Zenon
  <2> HIDE DEF n
  <2>2. ASSUME NEW i \in 1 .. n PROVE cells[buf + offset + i - 1] \in Value
    <3>1. buf + offset + i - 1 \in Cells
      BY <2>1, MemoryAssumption DEF Cells
    <3> QED BY <3>1, Zenon
  <2>3. data \in [1 .. n -> Value]
    BY <2>2, Zenon
  <2> HIDE DEF data
  <2>4. data \in Seq(Value)
    BY <2>1, <2>3, SeqOf, Zenon
  <2>5. Len(data) \in Nat /\ 1 .. Len(data) = 1 .. n
    BY <2>3, <2>4, SeqElements, Zenon
  <2>6. Len(data) = n
    BY <2>1, <2>5
  <2> QED BY <2>1, <2>4, <2>6, Zenon DEF n, data
<1>AnswerType.
      ASSUME NEW q \in Procs, NEW m \in Header, NEW data \in Seq(Value), Len(data) < PayloadLimit
      PROVE  LET msg == Answer(q, m, data) IN
             /\ msg \in OutboundMsg /\ msg.header.msg_type = "RmaGetResp"
             /\ msg.header.payload_size = Len(msg.payload) /\ msg.header.rma_length < PayloadLimit
  <2> USE <1>AnswerType
  <2> DEFINE msg == Answer(q, m, data)
  <2>1. /\ m.handle_id \in Nat /\ m.offset \in Nat /\ m.local_handle_id \in Nat
        /\ m.local_offset \in Nat /\ m.op \in OpNums
    BY Zenon DEF Header
  <2>2. PayloadSize(data) = Len(data) /\ PayloadSize(data) \in Nat /\ Len(data) \in Nat
    BY PayloadSizeTrue, SeqElements, Zenon
  <2>3. msg.header \in Header /\ msg.payload = data
    BY <2>1, <2>2, Zenon DEF Answer, Header
  <2>4. msg \in OutboundMsg
    BY <2>3, Zenon DEF OutboundMsg, Answer
  <2>5. msg.header.payload_size = PayloadSize(data) /\ msg.header.rma_length = Len(data)
        /\ msg.header.msg_type = "RmaGetResp"
    BY Zenon DEF Answer
  <2> QED BY <2>2, <2>3, <2>4, <2>5, Zenon
<1>ShorterThanLimit.
      ASSUME NEW r \in Nat, NEW n \in Nat, NEW len, len = n, n <= r, r < PayloadLimit
      PROVE  len < PayloadLimit
  <2> USE <1>ShorterThanLimit
  <2>1. PayloadLimit \in Nat
    BY MemoryAssumption, Zenon
  <2> QED BY <2>1
<1> DEFINE m == Incoming(c)
           q == To(c)
           entry == mem_handles[q][m.handle_id]
           n == CopyLen(m.rma_length, m.offset, entry.buf_size)
           data == [i \in 1 .. n |-> heap[q][entry.buf + m.offset + i - 1]]
           msg == Answer(q, m, data)
<1>1. m \in Header /\ m \in HeadersOf(stream[c])
  BY ReadEffect, Zenon DEF WireInv
<1>2. TypeOK /\ q \in Procs /\ m.offset \in Nat /\ m.rma_length \in Nat
  BY <1>1, LinkEnds, Zenon DEF WireInv, Header
<1>3. m.rma_length < PayloadLimit
  BY <1>1, Zenon DEF WireInv, LengthsShort, Messages
<1>4. /\ entry.buf \in Nat /\ entry.buf_size \in Nat /\ entry.buf + entry.buf_size <= HeapSize
  BY <1>2, RegistryEntry, Zenon
<1>5. heap[q] \in [Cells -> Value]
  BY <1>2, Zenon DEF TypeOK
<1>6. data \in Seq(Value) /\ Len(data) = n /\ n \in Nat /\ n <= m.rma_length
  <2> HIDE DEF m, q, entry
  <2> QED BY <1>2, <1>4, <1>5, <1>ReadCells, Zenon
<1>7. Len(data) < PayloadLimit
  <2> DEFINE len == Len(data)
             r == m.rma_length
  <2>1. len = n /\ n \in Nat /\ n <= r
    BY <1>6, Zenon
  <2>2. r \in Nat /\ r < PayloadLimit
    BY <1>2, <1>3, Zenon
  <2> HIDE DEF len, r, n, data, m
  <2>3. len < PayloadLimit
    BY <2>1, <2>2, <1>ShorterThanLimit, Zenon
  <2> QED BY <2>3, Zenon DEF len
<1> HIDE DEF data, m, q, entry, n
<1>8. /\ msg \in OutboundMsg /\ msg.header.msg_type = "RmaGetResp"
      /\ msg.header.payload_size = Len(msg.payload) /\ msg.header.rma_length < PayloadLimit
  BY <1>1, <1>2, <1>6, <1>7, <1>AnswerType, Zenon
<1> QED BY <1>8, Zenon DEF data, m, q, entry, n

-----------------------------------------------------------------------------
(* Types, framing and the cells written.                                   *)

LEMMA WireInit == Init => WireInv
<1> SUFFICES ASSUME Init PROVE WireInv
  BY Zenon
<1>1. \A c \in Links : queue[c] = <<>> /\ stream[c] = <<>>
  BY Zenon DEF Init
<1>2. Range(<<>>) = {} /\ HeadersOf(<<>>) = {} /\ Framed(<<>>)
  BY DEF Range, HeadersOf, Framed
<1>3. SizesTrue /\ StreamsFramed
  BY <1>1, <1>2, Zenon DEF SizesTrue, StreamsFramed
<1>4. LengthsShort
  <2>1. \A c \in Links : Messages(c) = {}
    BY <1>1, <1>2, Zenon DEF Messages
  <2> QED BY <2>1, Zenon DEF LengthsShort
<1>5. heap \in [Procs -> [Cells -> Value]]
  BY Zenon DEF Init, Value
<1>6. DOMAIN mem_handles = Procs /\ \A p \in Procs : mem_handles[p] \in [DOMAIN mem_handles[p] -> Buffers]
  BY DEF Init
<1>7. TypeOK
  BY <1>5, <1>6 DEF Init, TypeOK
<1> QED BY <1>3, <1>4, <1>7, Zenon DEF WireInv

\* What a step does to the messages on their way: writers and readers only take
\* messages off the links for requests, and a put or a get adds its own request.
Traffic ==
  /\ \A c \in Links : Write(c) => \A d \in Links : Messages(d)' \subseteq Messages(d)
  /\ \A c \in Links : Read(c) => \A d \in Links : d[3] = "cmd" => Messages(d)' \subseteq Messages(d)
  /\ \A p \in Procs : \A h \in handles[p] : \A span \in load.spans :
       Put(p, h, span) \/ (\E lh \in handles[p] : Get(p, h, lh, span)) => UNCHANGED handleVars /\ Requested(h)

LEMMA WireStep ==
  ASSUME WireInv
  PROVE  Traffic /\ ([Next]_vars => WireInv' /\ RegionStep)
<1>FramedConcat.
      ASSUME NEW s \in Seq(Unit), Framed(s), NEW e \in Seq(Unit), NEW n \in Nat, Len(e) = n + 1,
             e[1].kind = "header", e[1].header.payload_size = n, \A j \in 2 .. n + 1 : e[j].kind = "cell"
      PROVE  Framed(s \o e)
  <2> USE <1>FramedConcat
  <2> DEFINE t == s \o e
             l == Len(s)
  <2>1. l \in Nat /\ DOMAIN s = 1..l /\ (s # <<>> => l > 0) /\ (s = <<>> => l = 0)
    BY SeqElements, SeqEmpty, Zenon
  <2>2. /\ t \in Seq(Unit) /\ Len(t) = l + (n + 1)
        /\ \A i \in 1 .. l + (n + 1) : t[i] = IF i <= l THEN s[i] ELSE e[i - l]
    <3>1. /\ t \in Seq(Unit) /\ Len(t) = Len(s) + Len(e)
          /\ \A i \in 1 .. Len(s) + Len(e) : t[i] = IF i <= Len(s) THEN s[i] ELSE e[i - Len(s)]
      BY SeqConcat, Zenon
    <3> HIDE DEF t
    <3> QED BY <3>1, Zenon
  <2> HIDE DEF t, l
  <2>3. DOMAIN t = 1 .. l + (n + 1)
    BY <2>2, SeqElements, Zenon
  <2>4. \A i \in 1..l : t[i] = s[i]
    BY <2>1, <2>2
  <2>5. ASSUME NEW j \in 1 .. n + 1 PROVE t[l + j] = e[j]
    <3>1. l + j \in 1 .. l + (n + 1) /\ ~ (l + j <= l) /\ (l + j) - l = j
      BY <2>1
    <3>2. t[l + j] = IF l + j <= l THEN s[l + j] ELSE e[(l + j) - l]
      BY <2>2, <3>1, Zenon
    <3> QED BY <3>1, <3>2, Zenon
  <2>6. t[l + 1] = e[1]
    BY <2>5
  <2>7. t[1].kind = "header"
    <3>1. CASE s = <<>>
      BY <2>1, <2>6, <3>1
    <3>2. CASE s # <<>>
      <4>1. s[1].kind = "header" /\ 1 \in 1..l
        BY <2>1, <3>2 DEF Framed
      <4> QED BY <2>4, <4>1, Zenon
    <3> QED BY <3>1, <3>2, Zenon
  <2>8. ASSUME NEW i \in DOMAIN t, t[i].kind = "header"
        PROVE  LET m == t[i].header.payload_size IN
               /\ i + m <= Len(t)
               /\ \A j \in i + 1 .. i + m : t[j].kind = "cell"
               /\ i + m < Len(t) => t[i + m + 1].kind = "header"
    <3> DEFINE m == t[i].header.payload_size
    <3>1. CASE i <= l
      <4>1. i \in DOMAIN s /\ t[i] = s[i] /\ s[i] \in Unit
        BY <2>1, <2>3, <2>4, <3>1, SeqElements DEF l
      <4>2. m \in Nat
        BY <2>8, <4>1, UnitFields, HeaderFields, Zenon
      <4>3. /\ i + m <= l
            /\ \A j \in i + 1 .. i + m : s[j].kind = "cell"
            /\ i + m < l => s[i + m + 1].kind = "header"
        BY <2>8, <4>1, Zenon DEF Framed, l
      <4> HIDE DEF m
      <4>4. i \in Nat /\ i >= 1
        BY <2>1, <4>1
      <4>5. \A j \in i + 1 .. i + m : t[j].kind = "cell"
        <5>1. \A j \in i + 1 .. i + m : j \in 1..l
          BY <2>1, <4>2, <4>3, <4>4
        <5> QED BY <2>4, <4>3, <5>1, Zenon
      <4>6. t[i + m + 1].kind = "header"
        <5>1. CASE i + m < l
          <6>1. i + m + 1 \in 1..l
            BY <2>1, <4>2, <4>4, <5>1
          <6>2. t[i + m + 1] = s[i + m + 1]
            BY <2>4, <6>1, Zenon
          <6>3. s[i + m + 1].kind = "header"
            BY <4>3, <5>1, Zenon
          <6> QED BY <6>2, <6>3, Zenon
        <5>2. CASE i + m = l
          BY <2>6, <5>2, Zenon
        <5>3. i + m < l \/ i + m = l
          <6>1. i + m <= l /\ i + m \in Nat /\ l \in Nat
            BY <2>1, <4>2, <4>3, <4>4
          <6> QED BY <6>1
        <5> QED BY <5>1, <5>2, <5>3, Zenon
      <4>7. i + m <= l + (n + 1)
        BY <2>1, <4>2, <4>3, <4>4
      <4> QED BY <2>2, <4>5, <4>6, <4>7, Zenon DEF m
    <3>2. CASE ~ (i <= l)
      <4>1. i - l \in 1 .. n + 1 /\ l + (i - l) = i
        BY <2>1, <2>3, <3>2
      <4>2. t[i] = e[i - l]
        BY <2>5, <4>1, Zenon
      <4>3. i - l = 1
        <5>1. CASE i - l \in 2 .. n + 1
          BY <2>8, <4>2, <5>1, Zenon
        <5> QED BY <2>1, <4>1, <5>1
      <4>4. m = n
        BY <4>2, <4>3, Zenon
      <4> HIDE DEF m
      <4>5. i = l + 1
        BY <2>1, <2>3, <4>3
      <4>6. \A j \in i + 1 .. i + n : t[j].kind = "cell"
        <5>1. \A j \in i + 1 .. i + n : j - l \in 2 .. n + 1 /\ j - l \in 1 .. n + 1 /\ l + (j - l) = j
          BY <2>1, <4>5
        <5> QED BY <2>5, <5>1
      <4>7. i + n = l + (n + 1)
        BY <2>1, <4>5
      <4> QED BY <2>2, <4>4, <4>6, <4>7 DEF m
    <3> QED BY <3>1, <3>2, Zenon
  <2>9. Framed(t)
    BY <2>7, <2>8, Zenon DEF Framed
  <2> QED BY <2>9, Zenon DEF t
\* A writer keeps a stream framed if the header tells the length of the payload.
<1>FramedEncoded.
      ASSUME NEW s \in Seq(Unit), Framed(s), NEW msg \in OutboundMsg,
             msg.header.payload_size = Len(msg.payload)
      PROVE  s \o Encoded(msg) \in Seq(Unit) /\ Framed(s \o Encoded(msg))
  <2> USE <1>FramedEncoded
  <2> DEFINE e == Encoded(msg)
             n == Len(msg.payload)
  <2>1. /\ e \in Seq(Unit) /\ Len(e) = n + 1
        /\ e[1] = [kind |-> "header", header |-> msg.header]
        /\ \A j \in 2 .. n + 1 : e[j].kind = "cell"
    BY EncodedProperties, Zenon
  <2>2. n \in Nat
    BY MsgFields, SeqElements, Zenon
  <2> HIDE DEF e
  <2>3. e[1].kind = "header" /\ e[1].header.payload_size = n
    BY <2>1
  <2> HIDE DEF n
  <2>4. Framed(s \o e)
    BY <2>1, <2>2, <2>3, <1>FramedConcat, Zenon
  <2>5. s \o e \in Seq(Unit)
    BY <2>1, SeqConcat, Zenon
  <2> QED BY <2>4, <2>5, Zenon DEF e
\* Copying keeps the type of the heap, and changes only cells of the buffer.
<1>CopiedProperties.
      ASSUME NEW cells \in [Cells -> Value], NEW entry \in Buffer, NEW offset \in Nat, NEW data \in Seq(Value)
      PROVE  /\ Copied(cells, entry, offset, data) \in [Cells -> Value]
             /\ \A a \in Cells : Copied(cells, entry, offset, data)[a] # cells[a] => a \in Region(entry)
  <2> DEFINE to == entry.buf + offset
             len == CopyLen(Len(data), offset, entry.buf_size)
             new == Copied(cells, entry, offset, data)
  <2>1. entry.buf \in Nat /\ entry.buf_size \in Nat /\ Len(data) \in Nat
    BY SeqElements, MemoryAssumption DEF Buffer, Cells
  <2>2. len \in Nat /\ len <= Len(data) /\ (len > 0 => offset + len <= entry.buf_size)
    BY <2>1, CopyLenBounds, Zenon
  <2>3. new = [a \in Cells |-> IF to <= a /\ a < to + len THEN data[a - to + 1] ELSE cells[a]]
    BY Zenon DEF Copied
  <2> HIDE DEF len, new
  <2>4. ASSUME NEW a \in Cells, to <= a, a < to + len
        PROVE  data[a - to + 1] \in Value /\ a \in Region(entry)
    <3>1. a \in Nat /\ a - to + 1 \in 1 .. Len(data)
      BY <2>1, <2>2, <2>4, MemoryAssumption DEF Cells
    <3>2. data[a - to + 1] \in Value
      BY <3>1, SeqElements, Zenon
    <3>3. len > 0
      BY <2>1, <2>2, <2>4, <3>1
    <3>4. a \in entry.buf .. entry.buf + entry.buf_size - 1
      <4> DEFINE b == entry.buf
                 z == entry.buf_size
      <4>1. b \in Nat /\ z \in Nat /\ offset + len <= z /\ b + offset <= a /\ a < b + offset + len
        BY <2>1, <2>2, <2>4, <3>3, Zenon
      <4> HIDE DEF b, z
      <4>2. a \in b .. b + z - 1
        BY <2>2, <3>1, <4>1
      <4> QED BY <4>2, Zenon DEF b, z
    <3> QED BY <3>2, <3>4, Zenon DEF Region
  <2>5. new \in [Cells -> Value]
    BY <2>3, <2>4, Zenon
  <2>6. \A a \in Cells : new[a] # cells[a] => a \in Region(entry)
    BY <2>3, <2>4, Zenon
  <2> QED BY <2>5, <2>6, Zenon DEF new
\* The handlers of puts and answers may only write into a registered buffer.
<1>HandledWrite.
      ASSUME TypeOK, NEW p \in Procs, NEW id, NEW offset \in Nat, NEW data \in Seq(Value),
             heap' = [heap EXCEPT ![p] = IF id \in DOMAIN mem_handles[p]
                                         THEN Copied(@, mem_handles[p][id], offset, data) ELSE @]
      PROVE  /\ heap' \in [Procs -> [Cells -> Value]]
             /\ \A q \in Procs : \A a \in Cells :
                  heap'[q][a] # heap[q][a] =>
                    \E i \in DOMAIN mem_handles[q] : a \in Region(mem_handles[q][i])
  <2> USE <1>HandledWrite
  <2>1. heap \in [Procs -> [Cells -> Value]] /\ heap[p] \in [Cells -> Value]
    BY Zenon DEF TypeOK
  <2>2. CASE id \in DOMAIN mem_handles[p]
    <3> DEFINE new == Copied(heap[p], mem_handles[p][id], offset, data)
    <3>1. /\ new \in [Cells -> Value]
          /\ \A a \in Cells : new[a] # heap[p][a] => a \in Region(mem_handles[p][id])
      BY <2>1, <2>2, RegistryEntry, <1>CopiedProperties, Zenon
    <3>2. heap' = [heap EXCEPT ![p] = new]
      BY <2>2, Zenon
    <3> HIDE DEF new
    <3>3. heap' \in [Procs -> [Cells -> Value]]
      BY <2>1, <3>1, <3>2, Zenon
    <3>4. heap'[p] = new /\ \A q \in Procs : q # p => heap'[q] = heap[q]
      BY <2>1, <3>2, Zenon
    <3> QED BY <2>2, <3>1, <3>3, <3>4, Zenon
  <2>3. CASE id \notin DOMAIN mem_handles[p]
    BY <2>1, <2>3, Zenon
  <2> QED BY <2>2, <2>3, Zenon
<1>LengthsKept.
      ASSUME LengthsShort, \A c \in Links : Messages(c)' \subseteq Messages(c)
      PROVE  LengthsShort'
  BY <1>LengthsKept, Zenon DEF LengthsShort
<1>QuietLinks.
      ASSUME UNCHANGED <<queue, stream>>
      PROVE  SizesTrue' /\ StreamsFramed' /\ LengthsShort'
  <2> USE <1>QuietLinks
  <2>1. \A c \in Links : Messages(c)' = Messages(c)
    BY Zenon DEF Messages
  <2> QED BY <2>1, <1>LengthsKept, Zenon DEF WireInv, SizesTrue, StreamsFramed
<1>QuietHeap.
      ASSUME UNCHANGED heap
      PROVE  RegionStep
  BY <1>QuietHeap, Zenon DEF RegionStep
<1>CreateTypes.
      ASSUME NEW p \in Procs, NEW b \in Buffers, MemHandleCreate(p, b)
      PROVE  WireInv' /\ RegionStep
  <2> USE <1>CreateTypes
  <2> DEFINE id == next_handle_id[p]
             h == [handle_id |-> id, owner_peer_id |-> NoProc, buf |-> b.buf, buf_size |-> b.buf_size]
             reg == [i \in DOMAIN mem_handles[p] \cup {id} |-> IF i = id THEN b ELSE mem_handles[p][i]]
  <2>1. /\ next_handle_id' = [next_handle_id EXCEPT ![p] = @ + 1]
        /\ handles' = [handles EXCEPT ![p] = @ \cup {h}]
        /\ mem_handles' = [mem_handles EXCEPT ![p] = reg]
        /\ UNCHANGED <<load, frees, heap, issued, pending_rma_ops, queue, stream, reader, lost>>
    BY Zenon DEF MemHandleCreate, HandleId, linkVars
  <2>2. TypeOK
    BY Zenon DEF WireInv
  <2>3. id \in Nat \ {0} /\ b.buf \in Nat /\ b.buf_size \in Nat
    BY <2>2, MemoryAssumption DEF TypeOK, Buffer, Cells
  <2> HIDE DEF id
  <2>4. h \in MemHandle
    BY <2>3, Zenon DEF MemHandle
  <2> HIDE DEF h
  <2>5. handles' \in [Procs -> SUBSET MemHandle] /\ next_handle_id' \in [Procs -> Nat \ {0}]
    BY <2>1, <2>2, <2>4 DEF TypeOK
  <2>6. DOMAIN reg = DOMAIN mem_handles[p] \cup {id} /\ reg \in [DOMAIN reg -> Buffers]
    BY <2>2, Zenon DEF TypeOK
  <2> HIDE DEF reg
  <2>7. DOMAIN mem_handles' = Procs /\ \A q \in Procs : mem_handles'[q] \in [DOMAIN mem_handles'[q] -> Buffers]
    BY <2>1, <2>2, <2>6, Zenon DEF TypeOK
  <2>8. TypeOK'
    BY <2>1, <2>2, <2>5, <2>7, Zenon DEF TypeOK
  <2> QED BY <2>1, <2>8, <1>QuietLinks, <1>QuietHeap, Zenon DEF WireInv
<1>UnregisterType.
      ASSUME NEW r, r \in [DOMAIN r -> Buffers], NEW h
      PROVE  Unregister(r, h) \in [DOMAIN Unregister(r, h) -> Buffers]
  BY <1>UnregisterType, Zenon DEF Unregister, Restrict
<1>FreeTypes.
      ASSUME NEW p \in Procs, NEW h \in handles[p], MemHandleFree(p, h)
      PROVE  WireInv' /\ RegionStep
  <2> USE <1>FreeTypes
  <2>1. /\ frees' = [frees EXCEPT ![p] = @ + 1]
        /\ handles' = [handles EXCEPT ![p] = @ \ {h}]
        /\ mem_handles' = [mem_handles EXCEPT ![p] = Unregister(mem_handles[p], h)]
        /\ UNCHANGED <<load, next_handle_id, heap, issued, pending_rma_ops, queue, stream, reader, lost>>
    BY Zenon DEF MemHandleFree, linkVars
  <2>2. TypeOK
    BY Zenon DEF WireInv
  <2>3. frees' \in [Procs -> Nat] /\ handles' \in [Procs -> SUBSET MemHandle]
    BY <2>1, <2>2 DEF TypeOK
  <2> DEFINE reg == Unregister(mem_handles[p], h)
  <2>4. reg \in [DOMAIN reg -> Buffers]
    BY <2>2, <1>UnregisterType, Zenon DEF TypeOK
  <2> HIDE DEF reg
  <2>5. DOMAIN mem_handles' = Procs /\ \A q \in Procs : mem_handles'[q] \in [DOMAIN mem_handles'[q] -> Buffers]
    <3>1. mem_handles' = [mem_handles EXCEPT ![p] = reg]
      BY <2>1, Zenon DEF reg
    <3> QED BY <2>2, <2>4, <3>1, Zenon DEF TypeOK
  <2>6. TypeOK'
    BY <2>1, <2>2, <2>3, <2>5, Zenon DEF TypeOK
  <2> QED BY <2>1, <2>6, <1>QuietLinks, <1>QuietHeap, Zenon DEF WireInv
<1>ShareTypes.
      ASSUME NEW p \in Procs, NEW q \in Procs, NEW h \in handles[p], ShareHandle(p, q, h)
      PROVE  WireInv' /\ RegionStep
  <2> USE <1>ShareTypes
  <2> DEFINE g == Deserialized(Serialized(p, h))
  <2>1. /\ handles' = [handles EXCEPT ![q] = @ \cup {g}]
        /\ UNCHANGED <<load, next_handle_id, frees, mem_handles, heap, issued, pending_rma_ops,
                       queue, stream, reader, lost>>
    BY Zenon DEF ShareHandle, linkVars
  <2>2. TypeOK
    BY Zenon DEF WireInv
  <2>3. g \in MemHandle
    BY <2>2, SharedHandle, Zenon DEF TypeOK
  <2> HIDE DEF g
  <2>4. TypeOK'
    BY <2>1, <2>2, <2>3, Zenon DEF TypeOK
  <2> QED BY <2>1, <2>4, <1>QuietLinks, <1>QuietHeap, Zenon DEF WireInv
<1>EnqueueWire.
      ASSUME NEW p \in Procs, NEW q \in Procs, NEW msg \in OutboundMsg, Enqueue(p, q, msg),
             msg.header.payload_size = Len(msg.payload), msg.header.rma_length < PayloadLimit,
             \A c \in Links : HeadersOf(stream'[c]) \subseteq HeadersOf(stream[c])
      PROVE  queue' \in [Links -> Seq(OutboundMsg)] /\ SizesTrue' /\ LengthsShort'
  <2> USE <1>EnqueueWire
  <2>1. /\ queue' \in [Links -> Seq(OutboundMsg)]
        /\ \A c \in Links :
             \/ queue'[c] = queue[c] /\ Messages(c)' \subseteq Messages(c)
             \/ /\ Range(queue'[c]) = Range(queue[c]) \cup {msg}
                /\ Messages(c)' \subseteq Messages(c) \cup {msg.header}
    <3>1. TypeOK
      BY Zenon DEF WireInv
    <3>2. /\ queue' \in [Links -> Seq(OutboundMsg)]
          /\ \A c \in Links :
               \/ queue'[c] = queue[c] /\ Messages(c)' \subseteq Messages(c)
               \/ /\ c = <<p, q, PoolFor(msg.header.msg_type)>>
                  /\ Range(queue'[c]) = Range(queue[c]) \cup {msg}
                  /\ Messages(c)' \subseteq Messages(c) \cup {msg.header}
      BY <3>1, EnqueuedMessages, Zenon
    <3> QED BY <3>2, Zenon
  <2>2. SizesTrue'
    BY <2>1, Zenon DEF WireInv, SizesTrue
  <2>3. LengthsShort'
    BY <2>1, Zenon DEF WireInv, LengthsShort
  <2> QED BY <2>1, <2>2, <2>3, Zenon
<1>RequestedMessage.
      ASSUME TypeOK, NEW p \in Procs, NEW h, h.owner_peer_id \in Procs, NEW msg \in OutboundMsg,
             Enqueue(p, h.owner_peer_id, msg), msg.header.handle_id = h.handle_id, UNCHANGED stream
      PROVE  Requested(h)
  <2> USE <1>RequestedMessage
  <2> DEFINE q == h.owner_peer_id
  <2>1. q \in Procs /\ Enqueue(p, q, msg)
    BY Zenon
  <2> HIDE DEF q
  <2>2. \A c \in Links :
          \/ Messages(c)' \subseteq Messages(c)
          \/ /\ c = <<p, q, PoolFor(msg.header.msg_type)>>
             /\ Messages(c)' \subseteq Messages(c) \cup {msg.header}
    <3>1. \A c \in Links : HeadersOf(stream'[c]) \subseteq HeadersOf(stream[c])
      BY Zenon
    <3> QED BY <2>1, <3>1, EnqueuedMessages, Zenon
  <2>3. ASSUME NEW c \in Links, NEW m \in Messages(c)', m \notin Messages(c)
        PROVE  To(c) = q /\ m.handle_id = h.handle_id
    <3>1. c = <<p, q, PoolFor(msg.header.msg_type)>> /\ m = msg.header
      BY <2>2, <2>3, Zenon
    <3> QED BY <3>1, Zenon DEF To
  <2> QED BY <2>3, Zenon DEF Requested, q
<1>IssueTypes.
      ASSUME NEW p \in Procs, NEW h, h.owner_peer_id \in Procs,
             NEW type, NEW msg_type, Issues(p, h, type, msg_type),
             UNCHANGED <<load, handleVars, heap, stream, reader, lost>>,
             pending_rma_ops' \in [Procs -> Seq(Nat \ {0})]
      PROVE  WireInv' /\ RegionStep /\ Requested(h)
  <2> USE <1>IssueTypes
  <2>1. TypeOK
    BY Zenon DEF WireInv
  <2>2. PICK o \in RmaOp, msg \in OutboundMsg, data \in Seq(Value) :
          /\ o.to = h.owner_peer_id /\ o.handle_id = h.handle_id /\ msg = Request(p, msg_type, o, data)
          /\ msg.header.payload_size = Len(msg.payload) /\ msg.header.rma_length < PayloadLimit
          /\ issued' = [issued EXCEPT ![p] = Append(@, o)]
          /\ Enqueue(p, o.to, msg)
    BY Zenon DEF Issues
  <2>3. msg.header.handle_id = h.handle_id /\ Enqueue(p, h.owner_peer_id, msg)
    BY <2>2, Zenon DEF Request
  <2>4. queue' \in [Links -> Seq(OutboundMsg)] /\ SizesTrue' /\ LengthsShort'
    BY <2>2, <2>3, <1>EnqueueWire, Zenon
  <2>5. issued' \in [Procs -> Seq(RmaOp)]
    <3>1. issued \in [Procs -> Seq(RmaOp)]
      BY <2>1, Zenon DEF TypeOK
    <3>2. Append(issued[p], o) \in Seq(RmaOp)
      BY <3>1, SeqAppend, Zenon
    <3> QED BY <2>2, <3>1, <3>2, Zenon
  <2>6. TypeOK'
    BY <2>1, <2>4, <2>5, Zenon DEF TypeOK, handleVars
  <2>7. StreamsFramed'
    BY Zenon DEF WireInv, StreamsFramed
  <2>8. Requested(h)
    BY <2>1, <2>3, <1>RequestedMessage, Zenon
  <2> QED BY <2>4, <2>6, <2>7, <2>8, <1>QuietHeap, Zenon DEF WireInv
<1>PutTypes.
      ASSUME NEW p \in Procs, NEW h \in handles[p], NEW span \in load.spans, Put(p, h, span)
      PROVE  WireInv' /\ RegionStep /\ UNCHANGED handleVars /\ Requested(h)
  <2> USE <1>PutTypes
  <2>1. UNCHANGED <<load, handleVars, heap, pending_rma_ops, stream, reader, lost>>
    BY Zenon DEF Put
  <2>2. h.owner_peer_id \in Procs /\ Issues(p, h, "put", "RmaPut")
    BY PutIssues, Zenon DEF WireInv
  <2>3. pending_rma_ops' \in [Procs -> Seq(Nat \ {0})]
    BY <2>1, Zenon DEF WireInv, TypeOK
  <2> QED BY <2>1, <2>2, <2>3, <1>IssueTypes, Zenon
<1>GetTypes.
      ASSUME NEW p \in Procs, NEW h \in handles[p], NEW lh \in handles[p], NEW span \in load.spans,
             Get(p, h, lh, span)
      PROVE  WireInv' /\ RegionStep /\ UNCHANGED handleVars /\ Requested(h)
  <2> USE <1>GetTypes
  <2> DEFINE n == NextOp(p)[2]
  <2>1. /\ pending_rma_ops' = [pending_rma_ops EXCEPT ![p] = Append(@, n)]
        /\ UNCHANGED <<load, handleVars, heap, stream, reader, lost>>
    BY Zenon DEF Get
  <2>2. TypeOK /\ n \in Nat \ {0}
    BY NextOpType, Zenon DEF WireInv
  <2>3. h.owner_peer_id \in Procs /\ Issues(p, h, "get", "RmaGetReq")
    BY <2>2, GetIssues, Zenon
  <2> HIDE DEF n
  <2>4. pending_rma_ops' \in [Procs -> Seq(Nat \ {0})]
    BY <2>1, <2>2 DEF TypeOK
  <2> QED BY <2>1, <2>3, <2>4, <1>IssueTypes, Zenon
<1>AnswerReportedType.
      ASSUME TypeOK, NEW c \in Links, NEW msg, NEW then \in {"reading", "answering", "ended"}
      PROVE  AnswerReported(c, msg, then) \in [Links -> {"reading", "answering", "ended"}]
  <2> USE <1>AnswerReportedType
  <2> DEFINE d == <<To(c), From(c), "cmd">>
  <2>1. d \in Links
    BY LinkEnds, Zenon
  <2> HIDE DEF d
  <2>2. [reader EXCEPT ![d] = then] \in [Links -> {"reading", "answering", "ended"}]
    BY <2>1, Zenon DEF TypeOK
  <2>3. reader \in [Links -> {"reading", "answering", "ended"}]
    BY Zenon DEF TypeOK
  <2> QED BY <2>2, <2>3, Zenon DEF AnswerReported, d
<1>MessagesShrink.
      ASSUME NEW c \in Links, Range(queue'[c]) \subseteq Range(queue[c]),
             HeadersOf(stream'[c]) \subseteq Messages(c)
      PROVE  Messages(c)' \subseteq Messages(c)
  BY <1>MessagesShrink, Zenon DEF Messages
<1>WriteMessageTypes.
      ASSUME NEW c \in Links, WriteMessage(c)
      PROVE  WireInv' /\ RegionStep /\ \A d \in Links : Messages(d)' \subseteq Messages(d)
  <2> USE <1>WriteMessageTypes
  <2> DEFINE msg == Head(queue[c])
             s == stream[c] \o Encoded(msg)
  <2>1. /\ queue[c] # <<>> /\ queue' = [queue EXCEPT ![c] = Tail(@)]
        /\ stream' = [stream EXCEPT ![c] = s]
        /\ reader' = AnswerReported(c, msg, "reading")
        /\ UNCHANGED <<load, handleVars, heap, issued, pending_rma_ops, lost>>
    BY Zenon DEF WriteMessage
  <2>2. /\ msg \in OutboundMsg /\ msg.header \in Messages(c)
        /\ msg.header.payload_size = Len(msg.payload)
        /\ queue' \in [Links -> Seq(OutboundMsg)] /\ SizesTrue'
        /\ \A d \in Links : Range(queue'[d]) \subseteq Range(queue[d])
    BY <2>1, NextMessage, Zenon
  <2> HIDE DEF msg
  <2>3. stream \in [Links -> Seq(Unit)] /\ stream[c] \in Seq(Unit) /\ Framed(stream[c])
    BY Zenon DEF WireInv, TypeOK, StreamsFramed
  <2>4. s \in Seq(Unit) /\ Framed(s) /\ HeadersOf(s) \subseteq HeadersOf(stream[c]) \cup {msg.header}
    BY <2>2, <2>3, <1>FramedEncoded, EncodedHeaders, Zenon
  <2> HIDE DEF s
  <2>5. /\ stream' \in [Links -> Seq(Unit)] /\ stream'[c] = s
        /\ \A d \in Links : d # c => stream'[d] = stream[d]
    BY <2>1, <2>3, <2>4, Zenon
  <2>6. StreamsFramed'
    BY <2>4, <2>5, Zenon DEF WireInv, StreamsFramed
  <2>7. ASSUME NEW d \in Links PROVE Messages(d)' \subseteq Messages(d)
    <3>1. HeadersOf(stream'[d]) \subseteq Messages(d)
      BY <2>2, <2>4, <2>5, Zenon DEF Messages
    <3> QED BY <2>2, <3>1, <1>MessagesShrink, Zenon
  <2>8. reader' \in [Links -> {"reading", "answering", "ended"}]
    BY <2>1, <1>AnswerReportedType, Zenon DEF WireInv
  <2>9. TypeOK'
    BY <2>1, <2>2, <2>5, <2>8, Zenon DEF WireInv, TypeOK, handleVars
  <2>10. LengthsShort'
    BY <2>7, <1>LengthsKept, Zenon DEF WireInv
  <2> QED BY <2>1, <2>2, <2>6, <2>7, <2>9, <2>10, <1>QuietHeap, Zenon DEF WireInv
<1>EncodedAlone.
      ASSUME NEW msg \in OutboundMsg, msg.header.payload_size = Len(msg.payload)
      PROVE  /\ Encoded(msg) \in Seq(Unit) /\ Framed(Encoded(msg))
             /\ HeadersOf(Encoded(msg)) \subseteq {msg.header}
  <2> USE <1>EncodedAlone
  <2> DEFINE e == Encoded(msg)
  <2>1. e \in Seq(Unit)
    BY EncodedProperties, Zenon
  <2>2. <<>> \in Seq(Unit) /\ Framed(<<>>) /\ HeadersOf(<<>>) = {}
    BY DEF Framed, HeadersOf, Range
  <2>3. <<>> \o e = e
    <3> HIDE DEF e
    <3> QED BY <2>1
  <2>4. Framed(<<>> \o e) /\ HeadersOf(<<>> \o e) \subseteq HeadersOf(<<>>) \cup {msg.header}
    BY <2>2, <1>FramedEncoded, EncodedHeaders, Zenon
  <2> QED BY <2>1, <2>2, <2>3, <2>4, Zenon
<1>WriteAfterEndTypes.
      ASSUME NEW c \in Links, WriteAfterEnd(c)
      PROVE  WireInv' /\ RegionStep /\ \A d \in Links : Messages(d)' \subseteq Messages(d)
  <2> USE <1>WriteAfterEndTypes
  <2> DEFINE msg == Head(queue[c])
             s == Encoded(msg)
  <2>1. /\ queue[c] # <<>> /\ queue' = [queue EXCEPT ![c] = Tail(@)]
        /\ UNCHANGED <<load, handleVars, heap, issued, pending_rma_ops>>
        /\ \/ /\ stream' = [stream EXCEPT ![c] = s]
              /\ reader' = [reader EXCEPT ![c] = "reading"] /\ UNCHANGED lost
           \/ lost' = lost \cup {msg.header.op} /\ UNCHANGED <<stream, reader>>
    BY Zenon DEF WriteAfterEnd
  <2>2. /\ msg \in OutboundMsg /\ msg.header \in Messages(c)
        /\ msg.header.payload_size = Len(msg.payload)
        /\ queue' \in [Links -> Seq(OutboundMsg)] /\ SizesTrue'
        /\ \A d \in Links : Range(queue'[d]) \subseteq Range(queue[d])
    BY <2>1, NextMessage, Zenon
  <2> HIDE DEF msg
  <2>3. TypeOK /\ stream \in [Links -> Seq(Unit)] /\ msg.header.op \in OpNums
    BY <2>2, MsgFields, HeaderFields, Zenon DEF WireInv, TypeOK
  <2>4. s \in Seq(Unit) /\ Framed(s) /\ HeadersOf(s) \subseteq {msg.header}
    BY <2>2, <1>EncodedAlone, Zenon
  <2> HIDE DEF s
  <2>5. /\ stream' \in [Links -> Seq(Unit)]
        /\ reader' \in [Links -> {"reading", "answering", "ended"}] /\ lost' \subseteq OpNums
        /\ \A d \in Links : stream'[d] = stream[d] \/ (d = c /\ stream'[d] = s)
    <3>1. reader \in [Links -> {"reading", "answering", "ended"}] /\ lost \subseteq OpNums
      BY <2>3, Zenon DEF TypeOK
    <3>2. CASE /\ stream' = [stream EXCEPT ![c] = s]
               /\ reader' = [reader EXCEPT ![c] = "reading"] /\ UNCHANGED lost
      <4>1. reader' \in [Links -> {"reading", "answering", "ended"}] /\ lost' \subseteq OpNums
        BY <3>1, <3>2, Zenon
      <4>2. /\ stream' \in [Links -> Seq(Unit)]
            /\ \A d \in Links : stream'[d] = stream[d] \/ (d = c /\ stream'[d] = s)
        BY <2>3, <2>4, <3>2, Zenon
      <4> QED BY <4>1, <4>2, Zenon
    <3>3. CASE lost' = lost \cup {msg.header.op} /\ UNCHANGED <<stream, reader>>
      BY <2>3, <3>1, <3>3, Zenon
    <3> QED BY <2>1, <3>2, <3>3, Zenon
  <2>6. StreamsFramed'
    BY <2>4, <2>5, Zenon DEF WireInv, StreamsFramed
  <2>7. ASSUME NEW d \in Links PROVE Messages(d)' \subseteq Messages(d)
    <3>1. HeadersOf(stream'[d]) \subseteq Messages(d)
      <4>1. CASE stream'[d] = stream[d]
        BY <4>1, Zenon DEF Messages
      <4>2. CASE d = c /\ stream'[d] = s
        BY <2>2, <2>4, <4>2, Zenon
      <4> QED BY <2>5, <4>1, <4>2, Zenon
    <3> QED BY <2>2, <3>1, <1>MessagesShrink, Zenon
  <2>8. TypeOK'
    BY <2>1, <2>2, <2>3, <2>5, Zenon DEF TypeOK, handleVars
  <2>9. LengthsShort'
    BY <2>7, <1>LengthsKept, Zenon DEF WireInv
  <2> QED BY <2>1, <2>2, <2>6, <2>7, <2>8, <2>9, <1>QuietHeap, Zenon DEF WireInv
<1>AnswerFailsTypes.
      ASSUME NEW c \in Links, AnswerFails(c)
      PROVE  WireInv' /\ RegionStep /\ \A d \in Links : Messages(d)' \subseteq Messages(d)
  <2> USE <1>AnswerFailsTypes
  <2> DEFINE msg == Head(queue[c])
             r == <<To(c), From(c), "cmd">>
             dropped == {h.op : h \in HeadersOf(stream[r])}
  <2>1. /\ queue[c] # <<>> /\ queue' = [queue EXCEPT ![c] = Tail(@)]
        /\ reader' = AnswerReported(c, msg, "ended")
        /\ stream' = [stream EXCEPT ![r] = <<>>]
        /\ lost' = lost \cup dropped
        /\ UNCHANGED <<load, handleVars, heap, issued, pending_rma_ops>>
    BY Zenon DEF AnswerFails
  <2>2. /\ queue' \in [Links -> Seq(OutboundMsg)] /\ SizesTrue'
        /\ \A d \in Links : Range(queue'[d]) \subseteq Range(queue[d])
    BY <2>1, NextMessage, Zenon
  <2>3. TypeOK /\ r \in Links /\ stream \in [Links -> Seq(Unit)]
    BY LinkEnds, Zenon DEF WireInv, TypeOK
  <2> HIDE DEF r
  <2>4. dropped \subseteq OpNums
    <3>1. Range(stream[r]) \subseteq Unit
      BY <2>3, SeqRange, Zenon
    <3>2. HeadersOf(stream[r]) \subseteq Header
      BY <3>1, UnitFields, Zenon DEF HeadersOf
    <3> QED BY <3>2, HeaderFields, Zenon
  <2> HIDE DEF dropped
  <2>5. reader' \in [Links -> {"reading", "answering", "ended"}]
    BY <2>1, <2>3, <1>AnswerReportedType, Zenon
  <2>6. /\ stream' \in [Links -> Seq(Unit)]
        /\ \A d \in Links : stream'[d] = stream[d] \/ stream'[d] = <<>>
    BY <2>1, <2>3
  <2>7. Framed(<<>>) /\ HeadersOf(<<>>) = {}
    BY DEF Framed, HeadersOf, Range
  <2>8. StreamsFramed'
    BY <2>6, <2>7, Zenon DEF WireInv, StreamsFramed
  <2>9. ASSUME NEW d \in Links PROVE Messages(d)' \subseteq Messages(d)
    <3>1. HeadersOf(stream'[d]) \subseteq Messages(d)
      BY <2>6, <2>7, Zenon DEF Messages
    <3> QED BY <2>2, <3>1, <1>MessagesShrink, Zenon
  <2>10. TypeOK'
    BY <2>1, <2>2, <2>3, <2>4, <2>5, <2>6, Zenon DEF TypeOK, handleVars
  <2>11. LengthsShort'
    BY <2>9, <1>LengthsKept, Zenon DEF WireInv
  <2> QED BY <2>1, <2>2, <2>8, <2>9, <2>10, <2>11, <1>QuietHeap, Zenon DEF WireInv
<1>HandleRmaPutTypes.
      ASSUME NEW c \in Links, HandleRmaPut(c)
      PROVE  WireInv' /\ RegionStep /\ \A d \in Links : Messages(d)' \subseteq Messages(d)
  <2> USE <1>HandleRmaPutTypes
  <2> DEFINE m == Incoming(c)
             q == To(c)
             data == PayloadOf(c)
  <2>1. /\ ReadMessage(c, "RmaPut")
        /\ heap' = [heap EXCEPT ![q] = IF m.handle_id \in DOMAIN mem_handles[q]
                                       THEN Copied(@, mem_handles[q][m.handle_id], m.offset, data) ELSE @]
        /\ UNCHANGED <<load, handleVars, issued, pending_rma_ops, queue, reader, lost>>
    BY Zenon DEF HandleRmaPut
  <2>2. /\ m \in Header /\ data \in Seq(Value)
        /\ stream' \in [Links -> Seq(Unit)] /\ StreamsFramed'
    BY <2>1, ReadEffect, Zenon DEF WireInv
  <2>3. TypeOK /\ q \in Procs /\ m.offset \in Nat
    BY <2>2, LinkEnds, HeaderFields, Zenon DEF WireInv
  <2> HIDE DEF m, q, data
  <2>4. heap' \in [Procs -> [Cells -> Value]] /\ RegionStep
    BY <2>1, <2>2, <2>3, <1>HandledWrite, Zenon DEF RegionStep
  <2>5. \A d \in Links : Messages(d)' \subseteq Messages(d)
    BY <2>1, ReadQuietly, Zenon
  <2>6. TypeOK'
    BY <2>1, <2>2, <2>3, <2>4, Zenon DEF TypeOK, handleVars
  <2>7. SizesTrue' /\ LengthsShort'
    BY <2>1, <2>5, <1>LengthsKept, Zenon DEF WireInv, SizesTrue
  <2> QED BY <2>2, <2>4, <2>5, <2>6, <2>7, Zenon DEF WireInv
<1>HandleRmaGetResponseTypes.
      ASSUME NEW c \in Links, HandleRmaGetResponse(c)
      PROVE  WireInv' /\ RegionStep /\ \A d \in Links : Messages(d)' \subseteq Messages(d)
  <2> USE <1>HandleRmaGetResponseTypes
  <2> DEFINE m == Incoming(c)
             p == To(c)
             data == PayloadOf(c)
             Written == heap' = [heap EXCEPT ![p] =
                          IF m.local_handle_id \in DOMAIN mem_handles[p]
                          THEN Copied(@, mem_handles[p][m.local_handle_id], m.local_offset, data) ELSE @]
  <2>1. /\ ReadMessage(c, "RmaGetResp")
        /\ \/ /\ Written
              /\ \E i \in Matching(p, m) :
                   pending_rma_ops' = [pending_rma_ops EXCEPT ![p] = Without(@, i)]
           \/ UNCHANGED <<pending_rma_ops, heap>>
        /\ UNCHANGED <<load, handleVars, issued, queue, reader, lost>>
    BY Zenon DEF HandleRmaGetResponse
  <2>2. /\ m \in Header /\ data \in Seq(Value)
        /\ stream' \in [Links -> Seq(Unit)] /\ StreamsFramed'
    BY <2>1, ReadEffect, Zenon DEF WireInv
  <2>3. TypeOK /\ p \in Procs /\ m.local_offset \in Nat
    BY <2>2, LinkEnds, HeaderFields, Zenon DEF WireInv
  <2>4. Written => heap' \in [Procs -> [Cells -> Value]] /\ RegionStep
    <3> HIDE DEF m, p, data
    <3> QED BY <2>2, <2>3, <1>HandledWrite, Zenon DEF RegionStep
  <2> HIDE DEF Written
  <2>5. heap' \in [Procs -> [Cells -> Value]] /\ RegionStep
    BY <2>1, <2>3, <2>4, <1>QuietHeap, Zenon DEF TypeOK
  <2>6. pending_rma_ops' \in [Procs -> Seq(Nat \ {0})]
    <3>1. pending_rma_ops \in [Procs -> Seq(Nat \ {0})]
      BY <2>3, Zenon DEF TypeOK
    <3>2. ASSUME NEW i \in Matching(p, m), pending_rma_ops' = [pending_rma_ops EXCEPT ![p] = Without(@, i)]
          PROVE  pending_rma_ops' \in [Procs -> Seq(Nat \ {0})]
      <4>1. i \in DOMAIN pending_rma_ops[p] /\ pending_rma_ops[p] \in Seq(Nat \ {0})
        BY <2>3, <3>1, Zenon DEF Matching
      <4>2. Without(pending_rma_ops[p], i) \in Seq(Nat \ {0})
        BY <4>1, WithoutType, Zenon
      <4> QED BY <3>1, <3>2, <4>2, Zenon
    <3> QED BY <2>1, <3>1, <3>2, Zenon
  <2>7. \A d \in Links : Messages(d)' \subseteq Messages(d)
    BY <2>1, ReadQuietly, Zenon
  <2>8. TypeOK'
    BY <2>1, <2>2, <2>3, <2>5, <2>6, Zenon DEF TypeOK, handleVars
  <2>9. SizesTrue' /\ LengthsShort'
    BY <2>1, <2>7, <1>LengthsKept, Zenon DEF WireInv, SizesTrue
  <2> QED BY <2>2, <2>5, <2>7, <2>8, <2>9, Zenon DEF WireInv
<1>CancelGetTypes.
      ASSUME NEW p \in Procs, CancelGet(p)
      PROVE  WireInv' /\ RegionStep
  <2> USE <1>CancelGetTypes
  <2>1. TypeOK /\ pending_rma_ops \in [Procs -> Seq(Nat \ {0})]
    BY Zenon DEF WireInv, TypeOK
  <2>2. PICK i \in DOMAIN pending_rma_ops[p] :
          pending_rma_ops' = [pending_rma_ops EXCEPT ![p] = Without(@, i)]
    BY Zenon DEF CancelGet
  <2>3. UNCHANGED <<load, handleVars, heap, issued, linkVars>>
    BY Zenon DEF CancelGet
  <2>4. Without(pending_rma_ops[p], i) \in Seq(Nat \ {0})
    BY <2>1, WithoutType, Zenon
  <2>5. pending_rma_ops' \in [Procs -> Seq(Nat \ {0})]
    BY <2>1, <2>2, <2>4, Zenon
  <2>6. TypeOK'
    BY <2>1, <2>3, <2>5, Zenon DEF TypeOK, handleVars, linkVars
  <2> QED BY <2>3, <2>6, <1>QuietHeap, <1>QuietLinks, Zenon DEF WireInv, linkVars
<1>HandleRmaGetRequestTypes.
      ASSUME NEW c \in Links, HandleRmaGetRequest(c)
      PROVE  /\ WireInv' /\ RegionStep
             /\ \A d \in Links : d[3] = "cmd" => Messages(d)' \subseteq Messages(d)
  <2> USE <1>HandleRmaGetRequestTypes
  <2> DEFINE m == Incoming(c)
             q == To(c)
             entry == mem_handles[q][m.handle_id]
             n == CopyLen(m.rma_length, m.offset, entry.buf_size)
             data == [i \in 1 .. n |-> heap[q][entry.buf + m.offset + i - 1]]
             msg == Answer(q, m, data)
  <2>1. /\ ReadMessage(c, "RmaGetReq")
        /\ \/ /\ m.handle_id \in DOMAIN mem_handles[q]
              /\ Enqueue(q, m.source_peer_id, msg)
              /\ reader' = [reader EXCEPT ![c] = "answering"]
           \/ UNCHANGED <<queue, reader>>
        /\ UNCHANGED <<load, handleVars, heap, issued, pending_rma_ops, lost>>
    BY Zenon DEF HandleRmaGetRequest
  <2>2. /\ m \in Header /\ m \in HeadersOf(stream[c])
        /\ stream' \in [Links -> Seq(Unit)] /\ StreamsFramed'
        /\ \A d \in Links : HeadersOf(stream'[d]) \subseteq HeadersOf(stream[d])
    BY <2>1, ReadEffect, Zenon DEF WireInv
  <2>3. /\ TypeOK /\ q \in Procs /\ m.offset \in Nat /\ m.rma_length \in Nat
        /\ m.source_peer_id \in Procs
    BY <2>2, LinkEnds, Zenon DEF WireInv, Header
  <2>4. m.rma_length < PayloadLimit
    BY <2>2, Zenon DEF WireInv, LengthsShort, Messages
  <2>5. reader' \in [Links -> {"reading", "answering", "ended"}]
    BY <2>1, <2>3, Zenon DEF TypeOK
  <2>6. /\ queue' \in [Links -> Seq(OutboundMsg)] /\ SizesTrue' /\ LengthsShort'
        /\ \A d \in Links : d[3] = "cmd" => Messages(d)' \subseteq Messages(d)
    <3>1. CASE m.handle_id \in DOMAIN mem_handles[q] /\ Enqueue(q, m.source_peer_id, msg)
      <4>1. /\ msg \in OutboundMsg /\ msg.header.msg_type = "RmaGetResp"
            /\ msg.header.payload_size = Len(msg.payload) /\ msg.header.rma_length < PayloadLimit
        BY <2>1, <3>1, AnswerMessage, Zenon
      <4> DEFINE to == m.source_peer_id
      <4>2. to \in Procs /\ Enqueue(q, to, msg)
        BY <2>3, <3>1, Zenon
      <4> HIDE DEF msg, data, n, entry, to
      <4>3. queue' \in [Links -> Seq(OutboundMsg)] /\ SizesTrue' /\ LengthsShort'
        BY <2>2, <2>3, <4>1, <4>2, <1>EnqueueWire, Zenon
      <4>4. \A d \in Links : \/ Messages(d)' \subseteq Messages(d)
                              \/ d = <<q, to, PoolFor(msg.header.msg_type)>>
        BY <2>2, <2>3, <4>1, <4>2, EnqueuedMessages, Zenon
      <4>5. <<q, to, PoolFor(msg.header.msg_type)>>[3] # "cmd"
        BY <4>1, Zenon DEF PoolFor
      <4> QED BY <4>3, <4>4, <4>5, Zenon
    <3>2. CASE UNCHANGED <<queue, reader>>
      <4>1. \A d \in Links : Messages(d)' \subseteq Messages(d)
        BY <2>1, <3>2, ReadQuietly, Zenon
      <4> QED BY <2>3, <3>2, <4>1, <1>LengthsKept, Zenon DEF WireInv, TypeOK, SizesTrue
    <3> QED BY <2>1, <3>1, <3>2, Zenon
  <2>7. TypeOK'
    BY <2>1, <2>2, <2>3, <2>5, <2>6, Zenon DEF TypeOK, handleVars
  <2> QED BY <2>1, <2>2, <2>6, <2>7, <1>QuietHeap, Zenon DEF WireInv
<1>1. ASSUME UNCHANGED vars PROVE WireInv' /\ RegionStep
  <2>1. UNCHANGED <<queue, stream, heap>>
    BY <1>1, Zenon DEF vars, linkVars
  <2>2. TypeOK'
    BY <1>1, Zenon DEF WireInv, TypeOK, vars, handleVars, linkVars
  <2>3. UNCHANGED <<queue, stream>> /\ UNCHANGED heap
    BY <2>1
  <2>4. SizesTrue' /\ StreamsFramed' /\ LengthsShort'
    BY <2>3, <1>QuietLinks, Zenon
  <2> QED BY <2>2, <2>3, <2>4, <1>QuietHeap, Zenon DEF WireInv
<1>2. ASSUME NEW p \in Procs, User(p)
      PROVE  WireInv' /\ RegionStep
  <2>1. ASSUME NEW b \in Buffers, MemHandleCreate(p, b) PROVE WireInv' /\ RegionStep
    BY <2>1, <1>CreateTypes, Zenon
  <2>2. ASSUME NEW h \in handles[p], MemHandleFree(p, h) PROVE WireInv' /\ RegionStep
    BY <2>2, <1>FreeTypes, Zenon
  <2>3. ASSUME NEW h \in handles[p], NEW q \in Procs, ShareHandle(p, q, h) PROVE WireInv' /\ RegionStep
    BY <2>3, <1>ShareTypes, Zenon
  <2>4. ASSUME NEW h \in handles[p], NEW span \in load.spans, Put(p, h, span) PROVE WireInv' /\ RegionStep
    BY <2>4, <1>PutTypes, Zenon
  <2>5. ASSUME NEW h \in handles[p], NEW lh \in handles[p], NEW span \in load.spans, Get(p, h, lh, span)
        PROVE  WireInv' /\ RegionStep
    BY <2>5, <1>GetTypes, Zenon
  <2>6. ASSUME CancelGet(p) PROVE WireInv' /\ RegionStep
    BY <2>6, <1>CancelGetTypes, Zenon
  <2> QED BY <1>2, <2>1, <2>2, <2>3, <2>4, <2>5, <2>6, Zenon DEF User
<1>3. ASSUME NEW c \in Links, Write(c)
      PROVE  WireInv' /\ RegionStep
  BY <1>3, <1>WriteMessageTypes, <1>WriteAfterEndTypes, <1>AnswerFailsTypes, Zenon DEF Write
<1>4. ASSUME NEW c \in Links, Read(c)
      PROVE  WireInv' /\ RegionStep
  BY <1>4, <1>HandleRmaPutTypes, <1>HandleRmaGetRequestTypes, <1>HandleRmaGetResponseTypes, Zenon DEF Read
<1>5. \A c \in Links : Write(c) => \A d \in Links : Messages(d)' \subseteq Messages(d)
  BY <1>WriteMessageTypes, <1>WriteAfterEndTypes, <1>AnswerFailsTypes, Zenon DEF Write
<1>6. \A c \in Links : Read(c) => \A d \in Links : d[3] = "cmd" => Messages(d)' \subseteq Messages(d)
  BY <1>HandleRmaPutTypes, <1>HandleRmaGetRequestTypes, <1>HandleRmaGetResponseTypes, Zenon DEF Read
<1>7. Traffic
  BY <1>5, <1>6, <1>PutTypes, <1>GetTypes, Zenon DEF Traffic
<1>8. ASSUME [Next]_vars PROVE WireInv' /\ RegionStep
  BY <1>1, <1>2, <1>3, <1>4, <1>8, Zenon DEF Next
<1> QED BY <1>7, <1>8, Zenon

LEMMA WireInvariant == Spec => []WireInv
<1>1. WireInv /\ [Next]_vars => WireInv'
  BY WireStep, Zenon
<1> QED BY <1>1, WireInit, PTL DEF Spec

\* Handles, messages, streams and heaps have the shape the code gives them, for any
\* number of processes, buffers and operations.
THEOREM MemoryTypeCorrect == Spec => []TypeOK
<1>1. WireInv => TypeOK
  BY Zenon DEF WireInv
<1> QED BY <1>1, WireInvariant, PTL

\* The streams between any number of processes are sequences of whole messages,
\* with all lengths below the limit of payload_size, however often readers give
\* streams up and writers start new ones.
THEOREM StreamsAlwaysFramed == Spec => []StreamsFramed
<1>1. WireInv => StreamsFramed
  BY Zenon DEF WireInv
<1> QED BY <1>1, WireInvariant, PTL

\* No put and no answer, whatever its offset and length, changes a cell outside
\* the buffers that are registered when it is handled.
THEOREM WritesStayInRegion == Spec => WritesInRegion
<1>1. WireInv /\ [Next]_vars =>
        [\A p \in Procs : \A a \in Cells : heap'[p][a] # heap[p][a] =>
           \E id \in DOMAIN mem_handles[p] : a \in Region(mem_handles[p][id])]_vars
  BY WireStep, Zenon DEF RegionStep
<1> QED BY <1>1, WireInvariant, PTL DEF Spec, WritesInRegion

-----------------------------------------------------------------------------
(* Handles.                                                                *)

\* The process whose counter gave a handle of p its id.
Home(p, h) == IF IsLocal(h) THEN p ELSE h.owner_peer_id

IdsIssued == \A p \in Procs : \A h \in handles[p] : h.handle_id < next_handle_id[Home(p, h)]
RequestsIssued ==
  \A c \in Links : c[3] = "cmd" => \A m \in Messages(c) : m.handle_id < next_handle_id[To(c)]
SameSize ==
  \A p, q \in Procs : \A h \in handles[p] : \A g \in handles[q] :
    Home(p, h) = Home(q, g) /\ h.handle_id = g.handle_id => h.buf_size = g.buf_size
LocalsDistinct ==
  \A p \in Procs : \A h, g \in handles[p] :
    IsLocal(h) /\ IsLocal(g) /\ h.handle_id = g.handle_id => h = g

\* RegisteredIffHeld and what keeps it: every id in use has been issued by the
\* counter of its home, and handles with the same id and home are of one buffer.
HandleInv == IdsIssued /\ RequestsIssued /\ SameSize /\ LocalsDistinct /\ RegisteredIffHeld

FreshStep ==
  \A p \in Procs : (DOMAIN mem_handles'[p] \ DOMAIN mem_handles[p]) \cap Designated(p) = {}

LEMMA HandleFields ==
  ASSUME TypeOK, NEW p \in Procs, NEW h \in handles[p]
  PROVE  /\ h \in MemHandle /\ h.handle_id \in Nat \ {0} /\ h.buf_size \in Nat
         /\ Home(p, h) \in Procs /\ next_handle_id[Home(p, h)] \in Nat \ {0}
<1>1. h \in MemHandle
  BY Zenon DEF TypeOK
<1>2. Home(p, h) \in Procs
  BY <1>1, Zenon DEF MemHandle, Home, IsLocal
<1> QED BY <1>1, <1>2, Zenon DEF MemHandle, TypeOK

\* SameSize for one pair of handles.
LEMMA SizesEqual ==
  ASSUME HandleInv, NEW p \in Procs, NEW q \in Procs, NEW h \in handles[p], NEW g \in handles[q],
         Home(p, h) = Home(q, g), h.handle_id = g.handle_id
  PROVE  h.buf_size = g.buf_size
<1>1. SameSize
  BY Zenon DEF HandleInv
<1> QED BY <1>1 DEF SameSize

LEMMA MessageHeaders ==
  ASSUME TypeOK, NEW c \in Links
  PROVE  Messages(c) \subseteq Header
<1>1. queue[c] \in Seq(OutboundMsg) /\ stream[c] \in Seq(Unit)
  BY Zenon DEF TypeOK
<1>2. Range(queue[c]) \subseteq OutboundMsg /\ Range(stream[c]) \subseteq Unit
  BY <1>1, SeqRange, Zenon
<1>3. HeadersOf(stream[c]) \subseteq Header
  BY <1>2, UnitFields, Zenon DEF HeadersOf
<1>4. {m.header : m \in Range(queue[c])} \subseteq Header
  BY <1>2, MsgFields, Zenon
<1> QED BY <1>3, <1>4, Zenon DEF Messages

LEMMA HandleInit == Init => HandleInv
<1> SUFFICES ASSUME Init PROVE HandleInv
  BY Zenon
<1>1. \A p \in Procs : handles[p] = {} /\ DOMAIN mem_handles[p] = {}
  BY DEF Init
<1>2. \A c \in Links : Messages(c) = {}
  BY DEF Init, Messages, HeadersOf, Range
<1>3. RegisteredIffHeld
  BY <1>1, Zenon DEF RegisteredIffHeld
<1> QED BY <1>1, <1>2, <1>3, Zenon DEF HandleInv, IdsIssued, RequestsIssued, SameSize, LocalsDistinct

LEMMA HandleStep ==
  ASSUME WireInv, HandleInv, [Next]_vars
  PROVE  HandleInv' /\ FreshStep
<1>SameHandles.
      ASSUME UNCHANGED handleVars
      PROVE  IdsIssued' /\ SameSize' /\ LocalsDistinct' /\ RegisteredIffHeld'
  <2> USE <1>SameHandles
  <2> USE DEF HandleInv, handleVars
  <2>1. IdsIssued'
    BY Zenon DEF IdsIssued, Home, IsLocal
  <2>2. SameSize'
    BY DEF SameSize, Home, IsLocal
  <2>3. LocalsDistinct'
    BY Zenon DEF LocalsDistinct, IsLocal
  <2>4. RegisteredIffHeld'
    BY Zenon DEF RegisteredIffHeld, IsLocal
  <2> QED BY <2>1, <2>2, <2>3, <2>4, Zenon
<1>QuietHandles.
      ASSUME UNCHANGED handleVars,
             \A c \in Links : c[3] = "cmd" => Messages(c)' \subseteq Messages(c)
      PROVE  HandleInv' /\ FreshStep
  <2> USE <1>QuietHandles
  <2>1. IdsIssued' /\ SameSize' /\ LocalsDistinct' /\ RegisteredIffHeld'
    BY <1>SameHandles, Zenon
  <2> USE DEF handleVars
  <2>2. RequestsIssued'
    BY Zenon DEF HandleInv, RequestsIssued
  <2>3. FreshStep
    BY Zenon DEF FreshStep
  <2> QED BY <2>1, <2>2, <2>3, Zenon DEF HandleInv
<1>RequestHandles.
      ASSUME TypeOK, NEW p \in Procs, NEW h \in handles[p], h.owner_peer_id \in Procs,
             UNCHANGED handleVars, Requested(h)
      PROVE  HandleInv' /\ FreshStep
  <2> USE <1>RequestHandles
  <2>1. IdsIssued' /\ SameSize' /\ LocalsDistinct' /\ RegisteredIffHeld'
    BY <1>SameHandles, Zenon
  <2> USE DEF handleVars
  <2>2. h.handle_id < next_handle_id[h.owner_peer_id]
    BY MemoryAssumption, Zenon DEF HandleInv, IdsIssued, Home, IsLocal
  <2>3. RequestsIssued'
    BY <2>2, Zenon DEF HandleInv, RequestsIssued, Requested
  <2>4. FreshStep
    BY Zenon DEF FreshStep
  <2> QED BY <2>1, <2>3, <2>4, Zenon DEF HandleInv
<1>DesignatedIssued.
      ASSUME TypeOK, NEW p \in Procs
      PROVE  \A j \in Designated(p) : j < next_handle_id[p]
  <2> USE <1>DesignatedIssued
  <2>1. ASSUME NEW q \in Procs, NEW h \in handles[q], h.owner_peer_id = p
        PROVE  h.handle_id < next_handle_id[p]
    BY <2>1, MemoryAssumption, Zenon DEF HandleInv, IdsIssued, Home, IsLocal
  <2>2. ASSUME NEW q \in Procs, NEW m \in Messages(<<q, p, "cmd">>)
        PROVE  m.handle_id < next_handle_id[p]
    <3> DEFINE c == <<q, p, "cmd">>
    <3>1. c \in Links /\ c[3] = "cmd" /\ To(c) = p
      BY Zenon DEF Links, Pools, To
    <3> HIDE DEF c
    <3>2. m \in Messages(c)
      BY Zenon DEF c
    <3> QED BY <3>1, <3>2, Zenon DEF HandleInv, RequestsIssued
  <2> QED BY <2>1, <2>2, Zenon DEF Designated
<1>CreateHandles.
      ASSUME TypeOK, NEW p \in Procs, NEW b \in Buffers, MemHandleCreate(p, b)
      PROVE  HandleInv' /\ FreshStep
  <2> USE <1>CreateHandles
  <2> DEFINE id == next_handle_id[p]
             h == [handle_id |-> id, owner_peer_id |-> NoProc, buf |-> b.buf, buf_size |-> b.buf_size]
             reg == [i \in DOMAIN mem_handles[p] \cup {id} |-> IF i = id THEN b ELSE mem_handles[p][i]]
  <2>1. /\ next_handle_id' = [next_handle_id EXCEPT ![p] = @ + 1]
        /\ handles' = [handles EXCEPT ![p] = @ \cup {h}]
        /\ mem_handles' = [mem_handles EXCEPT ![p] = reg]
        /\ UNCHANGED <<queue, stream>>
    BY Zenon DEF MemHandleCreate, HandleId, linkVars
  <2>2. /\ h.handle_id = id /\ IsLocal(h) /\ h.buf_size = b.buf_size /\ h.buf = b.buf
        /\ b = [buf |-> h.buf, buf_size |-> h.buf_size]
    <3>1. b \in Buffer
      BY MemoryAssumption, Zenon
    <3> QED BY <3>1, Zenon DEF IsLocal, Buffer
  <2>3. DOMAIN reg = DOMAIN mem_handles[p] \cup {id} /\ reg[id] = b
        /\ \A i \in DOMAIN mem_handles[p] : i # id => reg[i] = mem_handles[p][i]
    BY Zenon
  <2> HIDE DEF h, reg
  <2>4. /\ handles'[p] = handles[p] \cup {h} /\ mem_handles'[p] = reg
        /\ \A q \in Procs : q # p => handles'[q] = handles[q] /\ mem_handles'[q] = mem_handles[q]
    BY <2>1, Zenon DEF TypeOK
  <2>5. /\ next_handle_id \in [Procs -> Nat \ {0}] /\ id \in Nat /\ next_handle_id'[p] = id + 1
        /\ \A q \in Procs : q # p => next_handle_id'[q] = next_handle_id[q]
    BY <2>1, Zenon DEF TypeOK
  <2>6. \A q \in Procs : \A n \in Nat : n < next_handle_id[q] => n < next_handle_id'[q]
    BY <2>5
  <2>7. \A q \in Procs : \A g \in handles'[q] : g \in handles[q] \/ (q = p /\ g = h)
    BY <2>4, Zenon
  <2>8. \A q \in Procs : \A g \in handles[q] :
          /\ g.handle_id \in Nat /\ Home(q, g) \in Procs /\ g.handle_id < next_handle_id[Home(q, g)]
          /\ Home(q, g) = p => g.handle_id # id
    <3> TAKE q \in Procs
    <3> TAKE g \in handles[q]
    <3>1. g.handle_id < next_handle_id[Home(q, g)]
      BY Zenon DEF HandleInv, IdsIssued
    <3>2. g.handle_id \in Nat /\ Home(q, g) \in Procs
      BY HandleFields, Zenon
    <3>3. ASSUME Home(q, g) = p PROVE g.handle_id # id
      <4>1. g.handle_id < id
        BY <3>1, <3>3, Zenon
      <4> QED BY <2>5, <3>2, <4>1
    <3> QED BY <3>1, <3>2, <3>3, Zenon
  <2>9. Home(p, h) = p
    BY <2>2, Zenon DEF Home
  <2>10. IdsIssued'
    <3>1. ASSUME NEW q \in Procs, NEW g \in handles'[q] PROVE g.handle_id < next_handle_id'[Home(q, g)]
      <4>1. CASE g \in handles[q]
        <5>1. g.handle_id \in Nat /\ Home(q, g) \in Procs /\ g.handle_id < next_handle_id[Home(q, g)]
          BY <2>8, <4>1, Zenon
        <5> QED BY <2>6, <5>1, Zenon
      <4>2. CASE q = p /\ g = h
        BY <2>2, <2>5, <2>9, <4>2
      <4> QED BY <2>7, <4>1, <4>2, Zenon
    <3> QED BY <3>1, Zenon DEF IdsIssued, Home, IsLocal
  <2>11. RequestsIssued'
    <3>1. ASSUME NEW c \in Links, c[3] = "cmd", NEW m \in Messages(c)' PROVE m.handle_id < next_handle_id'[To(c)]
      <4>1. m \in Messages(c)
        BY <2>1, Zenon DEF Messages
      <4>2. m.handle_id < next_handle_id[To(c)] /\ To(c) \in Procs
        BY <3>1, <4>1, LinkEnds, Zenon DEF HandleInv, RequestsIssued
      <4>3. m.handle_id \in Nat
        BY <4>1, MessageHeaders, HeaderFields, Zenon
      <4> QED BY <2>6, <4>2, <4>3, Zenon
    <3> QED BY <3>1, Zenon DEF RequestsIssued, To
  <2>12. SameSize'
    <3>1. ASSUME NEW q \in Procs, NEW r \in Procs, NEW g \in handles'[q], NEW k \in handles'[r],
                 Home(q, g) = Home(r, k), g.handle_id = k.handle_id
          PROVE  g.buf_size = k.buf_size
      <4>1. CASE g \in handles[q] /\ k \in handles[r]
        BY <3>1, <4>1, SizesEqual
      <4>2. CASE g \in handles[q] /\ r = p /\ k = h
        BY <2>2, <2>8, <2>9, <3>1, <4>2, Zenon
      <4>3. CASE k \in handles[r] /\ q = p /\ g = h
        BY <2>2, <2>8, <2>9, <3>1, <4>3, Zenon
      <4>4. CASE g = h /\ k = h
        BY <4>4, Zenon
      <4> QED BY <2>7, <4>1, <4>2, <4>3, <4>4, Zenon
    <3> QED BY <3>1, Zenon DEF SameSize, Home, IsLocal
  <2>13. LocalsDistinct'
    <3>1. ASSUME NEW q \in Procs, NEW g \in handles'[q], NEW k \in handles'[q],
                 IsLocal(g), IsLocal(k), g.handle_id = k.handle_id
          PROVE  g = k
      <4>1. Home(q, g) = q /\ Home(q, k) = q
        BY <3>1, Zenon DEF Home
      <4>2. CASE g \in handles[q] /\ k \in handles[q]
        BY <3>1, <4>2, Zenon DEF HandleInv, LocalsDistinct
      <4>3. CASE q = p /\ g = h
        BY <2>2, <2>7, <2>8, <3>1, <4>1, <4>3, Zenon
      <4>4. CASE q = p /\ k = h
        BY <2>2, <2>7, <2>8, <3>1, <4>1, <4>4, Zenon
      <4> QED BY <2>7, <4>2, <4>3, <4>4, Zenon
    <3> QED BY <3>1, Zenon DEF LocalsDistinct, IsLocal
  <2>14. RegisteredIffHeld'
    <3> DEFINE Local(H) == {g.handle_id : g \in {k \in H : IsLocal(k)}}
    <3>1. ASSUME NEW q \in Procs
          PROVE  /\ DOMAIN mem_handles'[q] = Local(handles'[q])
                 /\ \A g \in handles'[q] :
                      IsLocal(g) => mem_handles'[q][g.handle_id] = [buf |-> g.buf, buf_size |-> g.buf_size]
      <4>1. /\ DOMAIN mem_handles[q] = Local(handles[q])
            /\ \A g \in handles[q] :
                 IsLocal(g) => mem_handles[q][g.handle_id] = [buf |-> g.buf, buf_size |-> g.buf_size]
        BY Zenon DEF HandleInv, RegisteredIffHeld
      <4>2. CASE q # p
        BY <2>4, <4>1, <4>2, Zenon
      <4>3. CASE q = p
        <5>1. Local(handles'[p]) = Local(handles[p]) \cup {id}
          BY <2>2, <2>4, Zenon
        <5>2. DOMAIN mem_handles'[p] = Local(handles'[p])
          BY <2>3, <2>4, <4>1, <4>3, <5>1, Zenon
        <5>3. ASSUME NEW g \in handles'[p], IsLocal(g)
              PROVE  mem_handles'[p][g.handle_id] = [buf |-> g.buf, buf_size |-> g.buf_size]
          <6>1. CASE g = h
            BY <2>2, <2>3, <2>4, <6>1, Zenon
          <6>2. CASE g \in handles[p]
            <7>1. g.handle_id \in DOMAIN mem_handles[p] /\ g.handle_id # id
              BY <2>8, <4>1, <4>3, <5>3, <6>2, Zenon DEF Home
            <7> QED BY <2>3, <2>4, <4>1, <4>3, <5>3, <6>2, <7>1, Zenon
          <6> QED BY <2>7, <6>1, <6>2, Zenon
        <5> QED BY <4>3, <5>2, <5>3, Zenon
      <4> QED BY <4>2, <4>3, Zenon
    <3> QED BY <3>1, Zenon DEF RegisteredIffHeld, IsLocal
  <2>15. FreshStep
    <3>1. ASSUME NEW q \in Procs, NEW i \in DOMAIN mem_handles'[q] \ DOMAIN mem_handles[q]
          PROVE  i \notin Designated(q)
      <4>1. q = p /\ i = id
        BY <2>3, <2>4, Zenon
      <4>2. \A j \in Designated(p) : j < id
        BY <1>DesignatedIssued, Zenon
      <4> QED BY <2>5, <4>1, <4>2
    <3> QED BY <3>1, Zenon DEF FreshStep
  <2> QED BY <2>10, <2>11, <2>12, <2>13, <2>14, <2>15, Zenon DEF HandleInv
<1>FreeHandles.
      ASSUME TypeOK, NEW p \in Procs, NEW h \in handles[p], MemHandleFree(p, h)
      PROVE  HandleInv' /\ FreshStep
  <2> USE <1>FreeHandles
  <2> DEFINE reg == Unregister(mem_handles[p], h)
  <2>1. /\ handles' = [handles EXCEPT ![p] = @ \ {h}]
        /\ mem_handles' = [mem_handles EXCEPT ![p] = reg]
        /\ UNCHANGED <<next_handle_id, queue, stream>>
    BY Zenon DEF MemHandleFree, linkVars
  <2>2. /\ IsLocal(h) => /\ DOMAIN reg = DOMAIN mem_handles[p] \ {h.handle_id}
                         /\ \A i \in DOMAIN reg : reg[i] = mem_handles[p][i]
        /\ ~ IsLocal(h) => reg = mem_handles[p]
    BY Zenon DEF Unregister, Restrict
  <2> HIDE DEF reg
  <2>3. /\ handles'[p] = handles[p] \ {h} /\ mem_handles'[p] = reg
        /\ \A q \in Procs : q # p => handles'[q] = handles[q] /\ mem_handles'[q] = mem_handles[q]
    BY <2>1, Zenon DEF TypeOK
  <2>4. \A q \in Procs : handles'[q] \subseteq handles[q]
    BY <2>3, Zenon
  <2>5. IdsIssued' /\ SameSize' /\ LocalsDistinct'
    <3>1. IdsIssued'
      BY <2>1, <2>4, Zenon DEF HandleInv, IdsIssued, Home, IsLocal
    <3>2. SameSize'
      <4>1. ASSUME NEW q \in Procs, NEW r \in Procs, NEW g \in handles'[q], NEW k \in handles'[r],
                   Home(q, g) = Home(r, k), g.handle_id = k.handle_id
            PROVE  g.buf_size = k.buf_size
        <5>1. g \in handles[q] /\ k \in handles[r]
          BY <2>4, Zenon
        <5> QED BY <4>1, <5>1, SizesEqual
      <4> QED BY <4>1 DEF SameSize, Home, IsLocal
    <3>3. LocalsDistinct'
      BY <2>4, Zenon DEF HandleInv, LocalsDistinct, IsLocal
    <3> QED BY <3>1, <3>2, <3>3, Zenon
  <2>6. RequestsIssued'
    BY <2>1, Zenon DEF HandleInv, RequestsIssued, Messages
  <2>7. RegisteredIffHeld'
    <3> DEFINE Local(H) == {g.handle_id : g \in {k \in H : IsLocal(k)}}
    <3>1. ASSUME NEW q \in Procs
          PROVE  /\ DOMAIN mem_handles'[q] = Local(handles'[q])
                 /\ \A g \in handles'[q] :
                      IsLocal(g) => mem_handles'[q][g.handle_id] = [buf |-> g.buf, buf_size |-> g.buf_size]
      <4>1. /\ DOMAIN mem_handles[q] = Local(handles[q])
            /\ \A g \in handles[q] :
                 IsLocal(g) => mem_handles[q][g.handle_id] = [buf |-> g.buf, buf_size |-> g.buf_size]
        BY Zenon DEF HandleInv, RegisteredIffHeld
      <4>2. CASE q # p
        BY <2>3, <4>1, <4>2, Zenon
      <4>3. CASE q = p /\ ~ IsLocal(h)
        <5>1. Local(handles'[p]) = Local(handles[p])
          BY <2>3, <4>3, Zenon
        <5> QED BY <2>2, <2>3, <4>1, <4>3, <5>1, Zenon
      <4>4. CASE q = p /\ IsLocal(h)
        <5>1. \A g \in handles[p] : IsLocal(g) /\ g.handle_id = h.handle_id => g = h
          BY <4>4, Zenon DEF HandleInv, LocalsDistinct
        <5>2. Local(handles'[p]) = Local(handles[p]) \ {h.handle_id}
          BY <2>3, <4>4, <5>1, Zenon
        <5>3. DOMAIN mem_handles'[p] = Local(handles'[p])
          BY <2>2, <2>3, <4>1, <4>4, <5>2, Zenon
        <5>4. ASSUME NEW g \in handles'[p], IsLocal(g)
              PROVE  mem_handles'[p][g.handle_id] = [buf |-> g.buf, buf_size |-> g.buf_size]
          <6>1. g.handle_id \in DOMAIN reg /\ g \in handles[p]
            BY <2>3, <5>3, <5>4, Zenon
          <6> QED BY <2>2, <2>3, <4>1, <4>4, <5>4, <6>1, Zenon
        <5> QED BY <4>4, <5>3, <5>4, Zenon
      <4> QED BY <4>2, <4>3, <4>4, Zenon
    <3> QED BY <3>1, Zenon DEF RegisteredIffHeld, IsLocal
  <2>8. FreshStep
    <3>1. \A q \in Procs : DOMAIN mem_handles'[q] \subseteq DOMAIN mem_handles[q]
      BY <2>2, <2>3, Zenon
    <3> QED BY <3>1, Zenon DEF FreshStep
  <2> QED BY <2>5, <2>6, <2>7, <2>8, Zenon DEF HandleInv
<1>ShareHandles.
      ASSUME TypeOK, NEW p \in Procs, NEW q \in Procs, NEW h \in handles[p], ShareHandle(p, q, h)
      PROVE  HandleInv' /\ FreshStep
  <2> USE <1>ShareHandles
  <2> DEFINE g == Deserialized(Serialized(p, h))
  <2>1. /\ handles' = [handles EXCEPT ![q] = @ \cup {g}]
        /\ UNCHANGED <<next_handle_id, mem_handles, queue, stream>>
    BY Zenon DEF ShareHandle, linkVars
  <2>2. /\ ~ IsLocal(g) /\ g.handle_id = h.handle_id /\ g.buf_size = h.buf_size
        /\ Home(q, g) = Home(p, h)
    <3>1. h \in MemHandle
      BY Zenon DEF TypeOK
    <3> QED BY <3>1, SharedHandle, Zenon DEF Home
  <2> HIDE DEF g
  <2>3. \A r \in Procs : /\ handles[r] \subseteq handles'[r]
                         /\ \A k \in handles'[r] : k \in handles[r] \/ (r = q /\ k = g)
    BY <2>1, Zenon DEF TypeOK
  <2>4. IdsIssued'
    <3>1. ASSUME NEW r \in Procs, NEW k \in handles'[r] PROVE k.handle_id < next_handle_id[Home(r, k)]
      BY <2>2, <2>3, Zenon DEF HandleInv, IdsIssued
    <3> QED BY <2>1, <3>1, Zenon DEF IdsIssued, Home, IsLocal
  <2>5. SameSize'
    <3>1. \A r \in Procs : \A k \in handles'[r] : \E o \in Procs : \E j \in handles[o] :
            j.handle_id = k.handle_id /\ j.buf_size = k.buf_size /\ Home(o, j) = Home(r, k)
      BY <2>2, <2>3, Zenon
    <3>2. ASSUME NEW r \in Procs, NEW o \in Procs, NEW k \in handles'[r], NEW j \in handles'[o],
                 Home(r, k) = Home(o, j), k.handle_id = j.handle_id
          PROVE  k.buf_size = j.buf_size
      <4>1. PICK r0 \in Procs : \E k0 \in handles[r0] :
              k0.handle_id = k.handle_id /\ k0.buf_size = k.buf_size /\ Home(r0, k0) = Home(r, k)
        BY <3>1, Zenon
      <4>1a. PICK k0 \in handles[r0] :
              k0.handle_id = k.handle_id /\ k0.buf_size = k.buf_size /\ Home(r0, k0) = Home(r, k)
        BY <4>1, Zenon
      <4>2. PICK o0 \in Procs : \E j0 \in handles[o0] :
              j0.handle_id = j.handle_id /\ j0.buf_size = j.buf_size /\ Home(o0, j0) = Home(o, j)
        BY <3>1, Zenon
      <4>2a. PICK j0 \in handles[o0] :
              j0.handle_id = j.handle_id /\ j0.buf_size = j.buf_size /\ Home(o0, j0) = Home(o, j)
        BY <4>2, Zenon
      <4>3. Home(r0, k0) = Home(o0, j0) /\ k0.handle_id = j0.handle_id
        BY <3>2, <4>1a, <4>2a, Zenon
      <4>4. k0.buf_size = j0.buf_size
        BY <4>3, SizesEqual
      <4> QED BY <4>1a, <4>2a, <4>4, Zenon
    <3> QED BY <3>2 DEF SameSize, Home, IsLocal
  <2>6. \A r \in Procs : {k \in handles'[r] : IsLocal(k)} = {k \in handles[r] : IsLocal(k)}
    BY <2>2, <2>3, Zenon
  <2>7. LocalsDistinct'
    <3>1. \A r \in Procs : \A k \in handles'[r] : IsLocal(k) => k \in handles[r]
      BY <2>6, Zenon
    <3> QED BY <3>1, Zenon DEF HandleInv, LocalsDistinct, IsLocal
  <2>8. RegisteredIffHeld'
    <3> DEFINE Local(H) == {k.handle_id : k \in {j \in H : IsLocal(j)}}
    <3>1. ASSUME NEW r \in Procs
          PROVE  /\ DOMAIN mem_handles'[r] = Local(handles'[r])
                 /\ \A k \in handles'[r] :
                      IsLocal(k) => mem_handles'[r][k.handle_id] = [buf |-> k.buf, buf_size |-> k.buf_size]
      <4>1. /\ DOMAIN mem_handles[r] = Local(handles[r])
            /\ \A k \in handles[r] :
                 IsLocal(k) => mem_handles[r][k.handle_id] = [buf |-> k.buf, buf_size |-> k.buf_size]
        BY Zenon DEF HandleInv, RegisteredIffHeld
      <4>2. Local(handles'[r]) = Local(handles[r])
        BY <2>6, Zenon
      <4>3. \A k \in handles'[r] : IsLocal(k) => k \in handles[r]
        BY <2>6, Zenon
      <4> QED BY <2>1, <4>1, <4>2, <4>3, Zenon
    <3> QED BY <3>1, Zenon DEF RegisteredIffHeld, IsLocal
  <2>9. RequestsIssued' /\ FreshStep
    BY <2>1, Zenon DEF HandleInv, RequestsIssued, Messages, FreshStep
  <2> QED BY <2>4, <2>5, <2>7, <2>8, <2>9, Zenon DEF HandleInv
<1>0. TypeOK
  BY Zenon DEF WireInv
<1>0a. Traffic
  BY WireStep, Zenon
<1>1. ASSUME UNCHANGED <<handleVars, queue, stream>> PROVE HandleInv' /\ FreshStep
  <2>1. \A c \in Links : Messages(c)' = Messages(c)
    BY <1>1, Zenon DEF Messages
  <2> QED BY <1>1, <2>1, <1>QuietHandles, Zenon
<1>2. ASSUME NEW p \in Procs, User(p)
      PROVE  HandleInv' /\ FreshStep
  <2>1. ASSUME NEW b \in Buffers, MemHandleCreate(p, b) PROVE HandleInv' /\ FreshStep
    BY <1>0, <2>1, <1>CreateHandles, Zenon
  <2>2. ASSUME NEW h \in handles[p], MemHandleFree(p, h) PROVE HandleInv' /\ FreshStep
    BY <1>0, <2>2, <1>FreeHandles, Zenon
  <2>3. ASSUME NEW h \in handles[p], NEW q \in Procs, ShareHandle(p, q, h) PROVE HandleInv' /\ FreshStep
    BY <1>0, <2>3, <1>ShareHandles, Zenon
  <2>4. ASSUME NEW h \in handles[p], NEW span \in load.spans, Put(p, h, span)
        PROVE  HandleInv' /\ FreshStep
    <3>1. UNCHANGED handleVars /\ Requested(h)
      BY <1>0a, <2>4, Zenon DEF Traffic
    <3>2. h.owner_peer_id \in Procs
      BY <1>0, <2>4, PutIssues, Zenon
    <3> QED BY <1>0, <3>1, <3>2, <1>RequestHandles, Zenon
  <2>5. ASSUME NEW h \in handles[p], NEW lh \in handles[p], NEW span \in load.spans, Get(p, h, lh, span)
        PROVE  HandleInv' /\ FreshStep
    <3>1. UNCHANGED handleVars /\ Requested(h)
      BY <1>0a, <2>5, Zenon DEF Traffic
    <3>2. h.owner_peer_id \in Procs
      BY <1>0, <2>5, GetIssues, Zenon
    <3> QED BY <1>0, <3>1, <3>2, <1>RequestHandles, Zenon
  <2>6. ASSUME CancelGet(p) PROVE HandleInv' /\ FreshStep
    BY <1>1, <2>6, Zenon DEF CancelGet, linkVars
  <2> QED BY <1>2, <2>1, <2>2, <2>3, <2>4, <2>5, <2>6, Zenon DEF User
<1>3. ASSUME NEW c \in Links, Write(c)
      PROVE  HandleInv' /\ FreshStep
  <2>1. UNCHANGED handleVars
    BY <1>3, Zenon DEF Write, WriteMessage, WriteAfterEnd, AnswerFails
  <2>2. \A d \in Links : Messages(d)' \subseteq Messages(d)
    BY <1>0a, <1>3, Zenon DEF Traffic
  <2> QED BY <2>1, <2>2, <1>QuietHandles, Zenon
<1>4. ASSUME NEW c \in Links, Read(c)
      PROVE  HandleInv' /\ FreshStep
  <2>1. UNCHANGED handleVars
    BY <1>4, Zenon DEF Read, HandleRmaPut, HandleRmaGetRequest, HandleRmaGetResponse
  <2>2. \A d \in Links : d[3] = "cmd" => Messages(d)' \subseteq Messages(d)
    BY <1>0a, <1>4, Zenon DEF Traffic
  <2> QED BY <2>1, <2>2, <1>QuietHandles, Zenon
<1>5. CASE UNCHANGED vars
  BY <1>1, <1>5, Zenon DEF vars, linkVars
<1> QED BY <1>2, <1>3, <1>4, <1>5, Zenon DEF Next

LEMMA HandleInvariant == Spec => []HandleInv
<1>1. WireInv /\ HandleInv /\ [Next]_vars => HandleInv'
  BY HandleStep, Zenon
<1> QED BY <1>1, HandleInit, WireInvariant, PTL DEF Spec

\* A buffer is in the registry exactly as long as the handle made for it is held.
THEOREM RegistryTrue == Spec => []RegisteredIffHeld
<1>1. HandleInv => RegisteredIffHeld
  BY Zenon DEF HandleInv
<1> QED BY <1>1, HandleInvariant, PTL

\* A handle that went through any number of processes still carries the size of the
\* buffer its owner has registered under its id.
THEOREM HandlesDesignateOwner == Spec => []HandleDesignatesOwner
<1>1. ASSUME TypeOK, HandleInv PROVE HandleDesignatesOwner
  <2>1. ASSUME NEW p \in Procs, NEW h \in handles[p], ~ IsLocal(h),
               h.handle_id \in DOMAIN mem_handles[h.owner_peer_id]
        PROVE  mem_handles[h.owner_peer_id][h.handle_id].buf_size = h.buf_size
    <3> DEFINE o == h.owner_peer_id
    <3>1. o \in Procs /\ Home(p, h) = o
      <4>1. h \in MemHandle
        BY <1>1, HandleFields, Zenon
      <4> QED BY <2>1, <4>1, Zenon DEF MemHandle, IsLocal, Home
    <3>2. h.handle_id \in DOMAIN mem_handles[o]
      BY <2>1, Zenon
    <3> HIDE DEF o
    <3>3. /\ DOMAIN mem_handles[o] = {g.handle_id : g \in {k \in handles[o] : IsLocal(k)}}
          /\ \A g \in handles[o] :
               IsLocal(g) => mem_handles[o][g.handle_id] = [buf |-> g.buf, buf_size |-> g.buf_size]
      BY <1>1, <3>1, Zenon DEF HandleInv, RegisteredIffHeld
    <3>4. PICK g \in handles[o] : IsLocal(g) /\ g.handle_id = h.handle_id
      BY <3>2, <3>3, Zenon
    <3>5. mem_handles[o][h.handle_id] = [buf |-> g.buf, buf_size |-> g.buf_size]
      BY <3>3, <3>4, Zenon
    <3>6. Home(o, g) = Home(p, h)
      BY <3>1, <3>4, Zenon DEF Home
    <3>7. g.buf_size = h.buf_size
      BY <1>1, <3>1, <3>4, <3>6, SizesEqual
    <3> QED BY <3>5, <3>7 DEF o
  <2> QED BY <2>1, Zenon DEF HandleDesignatesOwner
<1>2. TypeOK /\ HandleInv => HandleDesignatesOwner
  BY <1>1, Zenon
<1>3. WireInv => TypeOK
  BY Zenon DEF WireInv
<1> QED BY <1>2, <1>3, WireInvariant, HandleInvariant, PTL

\* The id of a new registration is in no handle and in no message on its way, so a
\* put that outlived its buffer never finds another one under the same id.
THEOREM IdsFresh == Spec => FreshIds
<1>1. WireInv /\ HandleInv /\ [Next]_vars =>
        [\A p \in Procs : (DOMAIN mem_handles'[p] \ DOMAIN mem_handles[p]) \cap Designated(p) = {}]_vars
  BY HandleStep, Zenon DEF FreshStep
<1> QED BY <1>1, WireInvariant, HandleInvariant, PTL DEF Spec, FreshIds
=============================================================================
