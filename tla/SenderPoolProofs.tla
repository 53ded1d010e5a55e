-------------------------- MODULE SenderPoolProofs --------------------------
(***************************************************************************)
(* The sender pool loses no message, keeps its streams framed and bounds   *)
(* its retries, for any number of messages, writers and streams.           *)
(***************************************************************************)
EXTENDS SenderPool, SequenceTheorems, FiniteSetTheorems, TLAPS

-----------------------------------------------------------------------------
(* The inductive invariant.                                                *)

HeldSet(w) == Range(queue[w]) \cup ({msg[w]} \ {None})

\* A writer has its messages in the order of their numbers, the one it is sending
\* first.
QueueOrder ==
  \A w \in Writers :
    /\ msg[w] <= sent
    /\ \A i \in DOMAIN queue[w] : msg[w] < queue[w][i] /\ queue[w][i] <= sent
    /\ \A i, j \in DOMAIN queue[w] : i < j => queue[w][i] < queue[w][j]

\* Writers not yet spawned have nothing, and messages not yet sent no result.
Untouched ==
  /\ \A w \in Writers : w > spawned => queue[w] = <<>> /\ msg[w] = None
  /\ \A m \in Msgs : m > sent => result[m] = "none"

OneOwner ==
  /\ \A v, w \in Writers : v # w => HeldSet(v) \cap HeldSet(w) = {}
  /\ \A m \in Msgs : (m <= sent /\ result[m] = "none") <=> \E w \in Writers : m \in HeldSet(w)

QueueInv == QueueOrder /\ Untouched /\ OneOwner

\* The stream of a writer carries whole messages that come before all it still has.
Behind(w) ==
  stream[w] # None =>
    \A k \in DOMAIN wire[stream[w]] :
      /\ wire[stream[w]][k].whole
      /\ \A m \in HeldSet(w) : wire[stream[w]][k].msg < m

\* A stream in use belongs to one writer.
StreamOrder ==
  /\ \A s \in Streams : s > opened => wire[s] = <<>>
  /\ \A s \in Streams : \A k \in DOMAIN wire[s] : wire[s][k].msg <= sent
  /\ \A v, w \in Writers : stream[v] # None /\ stream[v] = stream[w] => v = w
  /\ \A w \in Writers : Behind(w)

WireInv == StreamOrder /\ StreamsWellFramed

\* A message has at most one copy for each attempt that is over.
RetryCount ==
  /\ \A w \in Writers, m \in Msgs : m = msg[w] => Cardinality(Copies(m)) <= attempt[w]
  /\ \A w \in Writers, m \in Msgs : m \in Range(queue[w]) => Copies(m) = {}
  /\ \A m \in Msgs : m > sent => Copies(m) = {}

RetryInv == RetryCount /\ BoundedRetries

PoolInv == TypeOK /\ QueueInv /\ WireInv /\ RetryInv

-----------------------------------------------------------------------------
(* The channel of a writer.                                                *)

LEMMA Appended ==
  ASSUME NEW S, NEW q \in Seq(S), NEW e \in S
  PROVE  /\ Append(q, e) \in Seq(S)
         /\ Len(q) \in Nat /\ DOMAIN q = 1..Len(q) /\ DOMAIN Append(q, e) = 1..Len(q) + 1
         /\ \A i \in 1..Len(q) : Append(q, e)[i] = q[i]
         /\ Append(q, e)[Len(q) + 1] = e
         /\ Range(Append(q, e)) = Range(q) \cup {e}
<1>1. /\ Append(q, e) \in Seq(S)
      /\ Len(q) \in Nat /\ DOMAIN q = 1..Len(q) /\ DOMAIN Append(q, e) = 1..Len(q) + 1
      /\ \A i \in 1..Len(q) : Append(q, e)[i] = q[i]
      /\ Append(q, e)[Len(q) + 1] = e
  BY LenProperties, AppendProperties
<1>2. Range(Append(q, e)) = Range(q) \cup {e}
  BY <1>1 DEF Range
<1> QED BY <1>1, <1>2, Zenon

LEMMA Shortened ==
  ASSUME NEW S, NEW q \in Seq(S), q # <<>>
  PROVE  /\ Tail(q) \in Seq(S) /\ Head(q) \in S
         /\ Len(q) \in Nat \ {0} /\ DOMAIN q = 1..Len(q) /\ DOMAIN Tail(q) = 1..Len(q) - 1
         /\ Head(q) = q[1]
         /\ \A i \in 1..Len(q) - 1 : Tail(q)[i] = q[i + 1]
         /\ Range(q) = {Head(q)} \cup Range(Tail(q))
<1>1. /\ Tail(q) \in Seq(S) /\ Head(q) \in S
      /\ Len(q) \in Nat \ {0} /\ DOMAIN q = 1..Len(q) /\ DOMAIN Tail(q) = 1..Len(q) - 1
      /\ Head(q) = q[1]
      /\ \A i \in 1..Len(q) - 1 : Tail(q)[i] = q[i + 1]
  BY EmptySeq, LenProperties, HeadTailProperties, ElementOfSeq
<1>2. ASSUME NEW i \in 1..Len(q), i # 1
      PROVE  i - 1 \in 1..Len(q) - 1 /\ Tail(q)[i - 1] = q[i]
  BY <1>1, <1>2
<1>3. \A i \in 1..Len(q) - 1 : i + 1 \in 1..Len(q)
  BY <1>1
<1>4. 1 \in DOMAIN q
  BY <1>1
<1>5. ASSUME NEW i \in DOMAIN q
      PROVE  q[i] \in {Head(q)} \cup Range(Tail(q))
  <2>1. CASE i = 1
    BY <1>1, <2>1, Zenon
  <2>2. CASE i # 1
    <3>1. i - 1 \in DOMAIN Tail(q) /\ Tail(q)[i - 1] = q[i]
      BY <1>1, <1>2, <2>2, Zenon
    <3> QED BY <3>1, Zenon DEF Range
  <2> QED BY <2>1, <2>2, Zenon
<1>6. {Head(q)} \cup Range(Tail(q)) \subseteq Range(q)
  BY <1>1, <1>3, <1>4, Zenon DEF Range
<1> QED BY <1>1, <1>5, <1>6 DEF Range

\* Facts about the types that most steps use.
LEMMA Numbers ==
  ASSUME TypeOK
  PROVE  /\ sent \in Nat /\ spawned \in Nat /\ opened \in Nat
         /\ \A w \in Writers : /\ w \in Nat \ {0} /\ msg[w] \in Nat /\ queue[w] \in Seq(Msgs)
                               /\ msg[w] # None => msg[w] \in Msgs
                               /\ attempt[w] \in 0 .. 2 /\ stream[w] \in 0 .. opened
                               /\ stream[w] # None => stream[w] \in Streams
         /\ \A m \in Msgs : m \in Nat \ {0}
         /\ \A w \in Writers : \A i \in DOMAIN queue[w] : queue[w][i] \in Msgs
<1>1. MaxMsgs \in Nat /\ MaxWriters \in Nat /\ MaxStreams \in Nat
  BY PoolAssumption, Zenon
<1>2. \A w \in Writers : queue[w] \in Seq(Msgs)
  BY Zenon DEF TypeOK
<1>3. \A w \in Writers : \A i \in DOMAIN queue[w] : queue[w][i] \in Msgs
  BY <1>2, LenProperties, ElementOfSeq, Zenon
<1>4. sent \in Nat /\ spawned \in Nat /\ opened \in Nat /\ opened <= MaxStreams
  BY <1>1 DEF TypeOK
<1>5. (\A w \in Writers : w \in Nat \ {0}) /\ (\A m \in Msgs : m \in Nat \ {0})
  BY <1>1 DEF Writers, Msgs
<1>6. ASSUME NEW w \in Writers
      PROVE  /\ msg[w] \in Nat /\ (msg[w] # None => msg[w] \in Msgs)
             /\ attempt[w] \in 0 .. 2 /\ stream[w] \in 0 .. opened
  BY <1>5 DEF TypeOK, None
<1>7. \A n \in 0 .. opened : n # None => n \in Streams
  BY <1>1, <1>4 DEF Streams, None
<1> QED BY <1>2, <1>3, <1>4, <1>5, <1>6, <1>7, Zenon

\* A new message goes to the end of the channel of one writer.
LEMMA EnqueueKeepsQueues ==
  ASSUME TypeOK, QueueInv, sent < MaxMsgs, sent' = sent + 1,
         NEW v \in Writers, queue' = [queue EXCEPT ![v] = Append(@, sent')],
         v <= spawned', spawned' \in Nat, spawned <= spawned', UNCHANGED <<msg, result>>
  PROVE  QueueInv' /\ queue' \in [Writers -> Seq(Msgs)]
<1> DEFINE e == sent + 1
           q == Append(queue[v], e)
<1>1. /\ sent \in Nat /\ spawned \in Nat /\ e \in Msgs /\ queue[v] \in Seq(Msgs)
      /\ queue \in [Writers -> Seq(Msgs)]
  BY Numbers, PoolAssumption DEF TypeOK, Msgs
<1>2. /\ q \in Seq(Msgs)
      /\ Len(queue[v]) \in Nat /\ DOMAIN queue[v] = 1..Len(queue[v]) /\ DOMAIN q = 1..Len(queue[v]) + 1
      /\ \A i \in 1..Len(queue[v]) : q[i] = queue[v][i]
      /\ q[Len(queue[v]) + 1] = e
      /\ Range(q) = Range(queue[v]) \cup {e}
  BY <1>1, Appended
<1>3. queue' = [queue EXCEPT ![v] = q]
  BY Zenon
<1> HIDE DEF q, e
<1>4. /\ queue' \in [Writers -> Seq(Msgs)] /\ queue'[v] = q
      /\ \A w \in Writers \ {v} : queue'[w] = queue[w]
  BY <1>1, <1>2, <1>3, Zenon
<1>5. ASSUME NEW i \in DOMAIN q
      PROVE  \/ i \in DOMAIN queue[v] /\ q[i] = queue[v][i]
             \/ i = Len(queue[v]) + 1 /\ q[i] = e
  <2>1. i \in 1..Len(queue[v]) \/ i = Len(queue[v]) + 1
    BY <1>2
  <2> QED BY <1>2, <2>1, Zenon
<1>6. QueueOrder'
  <2>1. ASSUME NEW w \in Writers
        PROVE  msg[w] <= sent'
    BY Numbers DEF QueueInv, QueueOrder
  <2>2. ASSUME NEW i \in DOMAIN q
        PROVE  msg[v] < q[i] /\ q[i] <= sent'
    BY <1>1, <1>5, <2>2, Numbers DEF QueueInv, QueueOrder, e
  <2>3. ASSUME NEW i \in DOMAIN q, NEW j \in DOMAIN q, i < j
        PROVE  q[i] < q[j]
    <3>1. i \in DOMAIN queue[v] /\ q[i] = queue[v][i]
      BY <1>2, <1>5, <2>3
    <3>2. queue[v][i] \in Nat /\ queue[v][i] <= sent
      BY <3>1, Numbers, Zenon DEF QueueInv, QueueOrder
    <3> QED BY <1>1, <1>5, <2>3, <3>1, <3>2 DEF QueueInv, QueueOrder, e
  <2>4. ASSUME NEW w \in Writers \ {v}
        PROVE  /\ \A i \in DOMAIN queue[w] : msg[w] < queue[w][i] /\ queue[w][i] <= sent'
               /\ \A i, j \in DOMAIN queue[w] : i < j => queue[w][i] < queue[w][j]
    BY Numbers DEF QueueInv, QueueOrder
  <2> QED BY <1>4, <2>1, <2>2, <2>3, <2>4 DEF QueueOrder
<1>7. Untouched'
  <2>1. ASSUME NEW w \in Writers, w > spawned' PROVE queue'[w] = <<>> /\ msg'[w] = None
    BY <1>1, <1>4, <2>1, Numbers DEF QueueInv, Untouched
  <2>2. ASSUME NEW m \in Msgs, m > sent' PROVE result'[m] = "none"
    BY <1>1, <2>2, Numbers DEF QueueInv, Untouched
  <2> QED BY <2>1, <2>2, Zenon DEF Untouched
<1>8. /\ HeldSet(v)' = HeldSet(v) \cup {e} /\ \A w \in Writers \ {v} : HeldSet(w)' = HeldSet(w)
      /\ \A w \in Writers : e \notin HeldSet(w)
  <2>1. HeldSet(v)' = HeldSet(v) \cup {e} /\ \A w \in Writers \ {v} : HeldSet(w)' = HeldSet(w)
    BY <1>2, <1>4, Zenon DEF HeldSet
  <2>2. ASSUME NEW w \in Writers, e \in HeldSet(w) PROVE FALSE
    BY <1>1, <2>2, Numbers DEF HeldSet, Range, QueueInv, QueueOrder, e
  <2> QED BY <2>1, <2>2, Zenon
<1>9. OneOwner'
  <2>1. ASSUME NEW u \in Writers, NEW w \in Writers, u # w
        PROVE  HeldSet(u)' \cap HeldSet(w)' = {}
    BY <1>8, <2>1 DEF QueueInv, OneOwner
  <2>2. ASSUME NEW m \in Msgs
        PROVE  (m <= sent' /\ result'[m] = "none") <=> \E w \in Writers : m \in HeldSet(w)'
    <3>1. CASE m = e
      <4>1. m <= sent' /\ result'[m] = "none"
        BY <1>1, <3>1, Numbers DEF QueueInv, Untouched, e
      <4> QED BY <1>8, <3>1, <4>1, Zenon
    <3>2. CASE m # e
      <4>1. m <= sent' <=> m <= sent
        BY <1>1, <3>2, Numbers DEF e
      <4>2. \A w \in Writers : m \in HeldSet(w)' <=> m \in HeldSet(w)
        BY <1>8, <3>2, Zenon
      <4> QED BY <4>1, <4>2, Zenon DEF QueueInv, OneOwner
    <3> QED BY <3>1, <3>2, Zenon
  <2> QED BY <2>1, <2>2, Zenon DEF OneOwner
<1> QED BY <1>4, <1>6, <1>7, <1>9, Zenon DEF QueueInv

\* rx.recv makes the first message of the channel the one that is sent.
LEMMA TakeKeepsQueues ==
  ASSUME TypeOK, QueueInv, NEW w \in Writers, TakeMsg(w)
  PROVE  /\ QueueInv' /\ queue' \in [Writers -> Seq(Msgs)] /\ msg' \in [Writers -> Msgs \cup {None}]
         /\ queue[w] # <<>> /\ msg'[w] = queue[w][1] /\ 1 \in DOMAIN queue[w]
         /\ \A i \in DOMAIN queue'[w] : i + 1 \in DOMAIN queue[w] /\ queue'[w][i] = queue[w][i + 1]
         /\ \A u \in Writers \ {w} : queue'[u] = queue[u] /\ msg'[u] = msg[u]
<1> DEFINE q == Tail(queue[w])
           h == Head(queue[w])
<1>1. /\ queue \in [Writers -> Seq(Msgs)] /\ msg \in [Writers -> Msgs \cup {None}]
      /\ queue[w] # <<>> /\ msg[w] = None
      /\ queue' = [queue EXCEPT ![w] = q] /\ msg' = [msg EXCEPT ![w] = h]
      /\ UNCHANGED <<sent, spawned, result>>
  BY Zenon DEF TakeMsg, TypeOK, poolVars
<1>2. /\ q \in Seq(Msgs) /\ h \in Msgs
      /\ Len(queue[w]) \in Nat \ {0} /\ DOMAIN queue[w] = 1..Len(queue[w]) /\ DOMAIN q = 1..Len(queue[w]) - 1
      /\ h = queue[w][1]
      /\ \A i \in 1..Len(queue[w]) - 1 : q[i] = queue[w][i + 1]
      /\ Range(queue[w]) = {h} \cup Range(q)
  BY <1>1, Shortened, Zenon
<1> HIDE DEF q, h
<1>3. /\ queue' \in [Writers -> Seq(Msgs)] /\ queue'[w] = q
      /\ msg' \in [Writers -> Msgs \cup {None}] /\ msg'[w] = h
      /\ \A u \in Writers \ {w} : queue'[u] = queue[u] /\ msg'[u] = msg[u]
  BY <1>1, <1>2, Zenon
<1>4. /\ 1 \in DOMAIN queue[w]
      /\ \A i \in DOMAIN q : i + 1 \in DOMAIN queue[w] /\ 1 < i + 1 /\ q[i] = queue[w][i + 1]
      /\ \A i, j \in DOMAIN q : i < j => i + 1 < j + 1
  BY <1>2
<1>5. QueueOrder'
  <2>1. h <= sent'
    BY <1>1, <1>2, <1>4, Zenon DEF QueueInv, QueueOrder
  <2>2. ASSUME NEW i \in DOMAIN q PROVE h < q[i] /\ q[i] <= sent'
    BY <1>1, <1>2, <1>4, <2>2, Zenon DEF QueueInv, QueueOrder
  <2>3. ASSUME NEW i \in DOMAIN q, NEW j \in DOMAIN q, i < j PROVE q[i] < q[j]
    BY <1>4, <2>3, Zenon DEF QueueInv, QueueOrder
  <2>4. ASSUME NEW u \in Writers \ {w}
        PROVE  /\ msg[u] <= sent'
               /\ \A i \in DOMAIN queue[u] : msg[u] < queue[u][i] /\ queue[u][i] <= sent'
               /\ \A i, j \in DOMAIN queue[u] : i < j => queue[u][i] < queue[u][j]
    BY <1>1, Zenon DEF QueueInv, QueueOrder
  <2> QED BY <1>3, <2>1, <2>2, <2>3, <2>4, Zenon DEF QueueOrder
<1>6. Untouched'
  <2>1. ~ (w > spawned)
    BY <1>1, Zenon DEF QueueInv, Untouched
  <2> QED BY <1>1, <1>3, <2>1, Zenon DEF QueueInv, Untouched
<1>7. \A u \in Writers : HeldSet(u)' = HeldSet(u)
  <2>1. h # None
    BY <1>2, Numbers, Zenon DEF None
  <2>2. HeldSet(w)' = HeldSet(w)
    BY <1>1, <1>2, <1>3, <2>1, Zenon DEF HeldSet
  <2>3. \A u \in Writers \ {w} : HeldSet(u)' = HeldSet(u)
    BY <1>3, Zenon DEF HeldSet
  <2> QED BY <2>2, <2>3, Zenon
<1>8. OneOwner'
  BY <1>1, <1>7 DEF QueueInv, OneOwner
<1> QED BY <1>1, <1>2, <1>3, <1>4, <1>5, <1>6, <1>8, Zenon DEF QueueInv

\* A report takes the message from its writer and gives it its result.
LEMMA ReportKeepsQueues ==
  ASSUME TypeOK, QueueInv, NEW w \in Writers, msg[w] # None, NEW r \in {"ok", "error"},
         Report(w, r), UNCHANGED <<sent, spawned, queue>>
  PROVE  /\ QueueInv' /\ msg' \in [Writers -> Msgs \cup {None}]
         /\ result' \in [Msgs -> {"none", "ok", "error"}]
         /\ msg'[w] = None /\ \A u \in Writers \ {w} : msg'[u] = msg[u]
<1> DEFINE m == msg[w]
<1>1. m \in Msgs /\ m \in Nat \ {0} /\ m <= sent
  BY Numbers, Zenon DEF QueueInv, QueueOrder
<1>2. /\ msg \in [Writers -> Msgs \cup {None}] /\ msg' = [msg EXCEPT ![w] = None]
      /\ result \in [Msgs -> {"none", "ok", "error"}] /\ result' = [result EXCEPT ![m] = r]
  BY Zenon DEF Report, TypeOK
<1>3. /\ msg' \in [Writers -> Msgs \cup {None}] /\ msg'[w] = None
      /\ \A u \in Writers \ {w} : msg'[u] = msg[u]
  BY <1>2, Zenon
<1>4. /\ result' \in [Msgs -> {"none", "ok", "error"}] /\ result'[m] = r
      /\ \A k \in Msgs \ {m} : result'[k] = result[k]
  BY <1>1, <1>2, Zenon
<1>5. m \in HeldSet(w) /\ m \notin Range(queue[w])
  BY <1>1, Numbers DEF HeldSet, Range, QueueInv, QueueOrder
<1> HIDE DEF m
<1>6. QueueOrder'
  BY <1>3, Numbers, SMTT(30) DEF QueueInv, QueueOrder, None
<1>7. Untouched'
  <2>1. ~ (w > spawned)
    BY Zenon DEF QueueInv, Untouched
  <2>2. ~ (m > sent)
    BY <1>1, Numbers
  <2> QED BY <1>3, <1>4, <2>1, <2>2, Zenon DEF QueueInv, Untouched
<1>8. HeldSet(w)' = HeldSet(w) \ {m} /\ \A u \in Writers \ {w} : HeldSet(u)' = HeldSet(u)
  BY <1>3, <1>5, Zenon DEF HeldSet, m
<1>9. OneOwner'
  <2>1. ASSUME NEW u \in Writers, NEW v \in Writers, u # v
        PROVE  HeldSet(u)' \cap HeldSet(v)' = {}
    BY <1>8, <2>1 DEF QueueInv, OneOwner
  <2>2. ASSUME NEW k \in Msgs
        PROVE  (k <= sent' /\ result'[k] = "none") <=> \E u \in Writers : k \in HeldSet(u)'
    <3>1. CASE k = m
      <4>1. \A u \in Writers : m \notin HeldSet(u)'
        BY <1>5, <1>8 DEF QueueInv, OneOwner
      <4> QED BY <1>4, <3>1, <4>1, Zenon
    <3>2. CASE k # m
      <4>1. \A u \in Writers : k \in HeldSet(u)' <=> k \in HeldSet(u)
        BY <1>8, <3>2, Zenon
      <4> QED BY <1>4, <3>2, <4>1, Zenon DEF QueueInv, OneOwner
    <3> QED BY <3>1, <3>2, Zenon
  <2> QED BY <2>1, <2>2, Zenon DEF OneOwner
<1> QED BY <1>3, <1>4, <1>6, <1>7, <1>9, Zenon DEF QueueInv, m

-----------------------------------------------------------------------------
(* The streams and the copies of a message.                                *)

LEMMA CopiesFinite ==
  ASSUME NEW m
  PROVE  /\ IsFiniteSet(Copies(m)) /\ Cardinality(Copies(m)) \in Nat
         /\ IsFiniteSet(Copies(m)') /\ Cardinality(Copies(m)') \in Nat
<1>1. IsFiniteSet(Streams)
  BY PoolAssumption, FS_Interval DEF Streams
<1>2. Copies(m) \in SUBSET Streams /\ Copies(m)' \in SUBSET Streams
  BY Zenon DEF Copies
<1>3. IsFiniteSet(Copies(m)) /\ IsFiniteSet(Copies(m)')
  BY <1>1, <1>2, FS_Subset, Zenon
<1> QED BY <1>3, FS_CardinalityType, Zenon

\* One more stream is one more copy at most.
LEMMA OneMore ==
  ASSUME NEW S, NEW T, NEW x, IsFiniteSet(S), T \subseteq S \cup {x}
  PROVE  Cardinality(T) <= Cardinality(S) + 1
<1>1. /\ IsFiniteSet(S \cup {x})
      /\ Cardinality(S \cup {x}) = IF x \in S THEN Cardinality(S) ELSE Cardinality(S) + 1
  BY FS_AddElement, Zenon
<1>2. IsFiniteSet(T) /\ Cardinality(T) <= Cardinality(S \cup {x})
  BY <1>1, FS_Subset, Zenon
<1>3. Cardinality(S) \in Nat /\ Cardinality(T) \in Nat /\ Cardinality(S \cup {x}) \in Nat
  BY <1>1, <1>2, FS_CardinalityType, Zenon
<1> QED BY <1>1, <1>2, <1>3

\* write_message adds a frame to the stream of the writer and to no other.
LEMMA PutEffect ==
  ASSUME TypeOK, NEW w \in Writers, msg[w] # None, stream[w] # None, NEW whole \in BOOLEAN, Put(w, whole)
  PROVE  /\ wire' \in [Streams -> Seq(Frame)]
         /\ \A t \in Streams \ {stream[w]} : wire'[t] = wire[t]
         /\ \A k \in DOMAIN wire'[stream[w]] :
              \/ k \in DOMAIN wire[stream[w]] /\ wire'[stream[w]][k] = wire[stream[w]][k]
              \/ /\ k = Len(wire[stream[w]]) + 1
                 /\ wire'[stream[w]][k].msg = msg[w] /\ wire'[stream[w]][k].whole = whole
         /\ DOMAIN wire[stream[w]] = 1..Len(wire[stream[w]]) /\ Len(wire[stream[w]]) \in Nat
         /\ DOMAIN wire'[stream[w]] = 1..Len(wire[stream[w]]) + 1
         /\ stream[w] \in Streams /\ stream[w] <= opened
<1> DEFINE s == stream[w]
           f == [msg |-> msg[w], whole |-> whole]
           q == Append(wire[s], f)
<1>1. s \in Streams /\ s <= opened /\ msg[w] \in Msgs
  BY Numbers
<1>2. f \in Frame /\ f.msg = msg[w] /\ f.whole = whole
  BY <1>1, Zenon DEF Frame
<1>3. wire \in [Streams -> Seq(Frame)] /\ wire[s] \in Seq(Frame) /\ wire' = [wire EXCEPT ![s] = q]
  BY <1>1, Zenon DEF TypeOK, Put
<1> HIDE DEF s, f
<1>4. /\ q \in Seq(Frame)
      /\ Len(wire[s]) \in Nat /\ DOMAIN wire[s] = 1..Len(wire[s]) /\ DOMAIN q = 1..Len(wire[s]) + 1
      /\ \A i \in 1..Len(wire[s]) : q[i] = wire[s][i]
      /\ q[Len(wire[s]) + 1] = f
  BY <1>2, <1>3, Appended
<1> HIDE DEF q
<1>5. wire' \in [Streams -> Seq(Frame)] /\ wire'[s] = q /\ \A t \in Streams \ {s} : wire'[t] = wire[t]
  BY <1>1, <1>3, <1>4, Zenon
<1>6. ASSUME NEW k \in DOMAIN q
      PROVE  \/ k \in DOMAIN wire[s] /\ q[k] = wire[s][k]
             \/ k = Len(wire[s]) + 1 /\ q[k] = f
  <2>1. k \in 1..Len(wire[s]) \/ k = Len(wire[s]) + 1
    BY <1>4
  <2> QED BY <1>4, <2>1, Zenon
<1> QED BY <1>1, <1>2, <1>4, <1>5, <1>6, Zenon DEF s

\* It keeps the stream framed, because all before it is whole and has a lower number.
LEMMA PutKeepsFraming ==
  ASSUME TypeOK, QueueInv, WireInv, NEW w \in Writers, msg[w] # None, stream[w] # None,
         NEW whole \in BOOLEAN, Put(w, whole), UNCHANGED sent
  PROVE  /\ StreamsWellFramed'
         /\ \A s \in Streams : s > opened => wire'[s] = <<>>
         /\ \A s \in Streams : \A k \in DOMAIN wire'[s] : wire'[s][k].msg <= sent'
<1> DEFINE o == stream[w]
<1>1. /\ \A t \in Streams \ {o} : wire'[t] = wire[t]
      /\ \A k \in DOMAIN wire'[o] :
           \/ k \in DOMAIN wire[o] /\ wire'[o][k] = wire[o][k]
           \/ /\ k = Len(wire[o]) + 1
              /\ wire'[o][k].msg = msg[w] /\ wire'[o][k].whole = whole
      /\ DOMAIN wire[o] = 1..Len(wire[o]) /\ Len(wire[o]) \in Nat
      /\ DOMAIN wire'[o] = 1..Len(wire[o]) + 1
      /\ o \in Streams /\ o <= opened
  BY PutEffect
<1>2. \A k \in DOMAIN wire[o] : wire[o][k].whole /\ wire[o][k].msg < msg[w]
  BY Zenon DEF WireInv, StreamOrder, Behind, HeldSet
<1>3. msg[w] <= sent
  BY Zenon DEF QueueInv, QueueOrder
<1> HIDE DEF o
<1>4. ASSUME NEW i \in DOMAIN wire'[o], NEW j \in DOMAIN wire'[o], i < j
      PROVE  wire'[o][i].whole /\ wire'[o][i].msg < wire'[o][j].msg
  <2>1. i \in DOMAIN wire[o] /\ wire'[o][i] = wire[o][i]
    BY <1>1, <1>4
  <2>2. CASE j \in DOMAIN wire[o] /\ wire'[o][j] = wire[o][j]
    BY <1>1, <1>4, <2>1, <2>2, Zenon DEF WireInv, StreamsWellFramed
  <2>3. CASE wire'[o][j].msg = msg[w]
    BY <1>2, <2>1, <2>3, Zenon
  <2> QED BY <1>1, <2>2, <2>3, Zenon
<1>5. StreamsWellFramed'
  <2>1. ASSUME NEW s \in Streams, NEW i \in DOMAIN wire'[s], NEW j \in DOMAIN wire'[s], i < j
        PROVE  wire'[s][i].whole /\ wire'[s][i].msg < wire'[s][j].msg
    <3>1. CASE s = o
      BY <1>4, <2>1, <3>1, Zenon
    <3>2. CASE s # o
      BY <1>1, <2>1, <3>2, Zenon DEF WireInv, StreamsWellFramed
    <3> QED BY <3>1, <3>2, Zenon
  <2> QED BY <2>1, Zenon DEF StreamsWellFramed
<1>6. ASSUME NEW s \in Streams, s > opened PROVE wire'[s] = <<>>
  <2>1. s # o
    <3>1. opened \in Nat /\ s \in Nat /\ o \in Nat
      BY <1>1, Numbers, PoolAssumption DEF Streams
    <3> QED BY <1>1, <1>6, <3>1
  <2> QED BY <1>1, <1>6, <2>1, Zenon DEF WireInv, StreamOrder
<1>7. ASSUME NEW s \in Streams, NEW k \in DOMAIN wire'[s] PROVE wire'[s][k].msg <= sent'
  <2>1. CASE s = o
    BY <1>1, <1>3, <1>7, <2>1, Zenon DEF WireInv, StreamOrder
  <2>2. CASE s # o
    BY <1>1, <1>7, <2>2, Zenon DEF WireInv, StreamOrder
  <2> QED BY <2>1, <2>2, Zenon
<1> QED BY <1>5, <1>6, <1>7, Zenon

\* It makes one copy of the message and none of another.
LEMMA PutCopies ==
  ASSUME TypeOK, NEW w \in Writers, msg[w] # None, stream[w] # None, NEW whole \in BOOLEAN, Put(w, whole),
         NEW m \in Msgs
  PROVE  /\ m # msg[w] => Copies(m)' \subseteq Copies(m)
         /\ Copies(m)' \subseteq Copies(m) \cup {stream[w]}
<1> DEFINE o == stream[w]
<1>1. /\ \A t \in Streams \ {o} : wire'[t] = wire[t]
      /\ \A k \in DOMAIN wire'[o] :
           \/ k \in DOMAIN wire[o] /\ wire'[o][k] = wire[o][k]
           \/ wire'[o][k].msg = msg[w]
  BY PutEffect
<1> HIDE DEF o
<1>2. ASSUME NEW s \in Copies(m)', s # o PROVE s \in Copies(m)
  BY <1>1, <1>2, Zenon DEF Copies
<1>3. ASSUME m # msg[w], o \in Copies(m)' PROVE o \in Copies(m)
  <2>1. o \in Streams /\ \E k \in DOMAIN wire'[o] : wire'[o][k].msg = m
    BY <1>3, Zenon DEF Copies
  <2> QED BY <1>1, <1>3, <2>1, Zenon DEF Copies
<1> QED BY <1>2, <1>3, Zenon DEF o

LEMMA CopiesKept ==
  ASSUME UNCHANGED wire, NEW m
  PROVE  Copies(m)' = Copies(m)
BY Zenon DEF Copies

\* A broken stream loses frames from its end.
LEMMA BreakEffect ==
  ASSUME TypeOK, NEW s \in Streams, Break(s)
  PROVE  /\ wire' \in [Streams -> Seq(Frame)]
         /\ \A t \in Streams : /\ wire[t] = <<>> => wire'[t] = <<>>
                               /\ \A k \in DOMAIN wire'[t] : k \in DOMAIN wire[t] /\ wire'[t][k] = wire[t][k]
<1>1. PICK n \in 0 .. Len(wire[s]) : wire' = [wire EXCEPT ![s] = SubSeq(@, 1, n)]
  BY Zenon DEF Break
<1>2. wire \in [Streams -> Seq(Frame)] /\ wire[s] \in Seq(Frame)
  BY Zenon DEF TypeOK
<1>3. Len(wire[s]) \in Nat /\ DOMAIN wire[s] = 1..Len(wire[s]) /\ \A i \in 1..Len(wire[s]) : wire[s][i] \in Frame
  BY <1>2, LenProperties, ElementOfSeq, Zenon
<1> DEFINE q == SubSeq(wire[s], 1, n)
<1>4. /\ q \in Seq(Frame)
      /\ Len(q) = IF 1 <= n THEN n - 1 + 1 ELSE 0
      /\ \A i \in 1 .. n - 1 + 1 : q[i] = wire[s][1 + i - 1]
  <2>1. \A i \in 1..n : wire[s][i] \in Frame
    BY <1>3
  <2> QED BY <1>3, <2>1, SubSeqProperties
<1>5. wire' = [wire EXCEPT ![s] = q]
  BY <1>1, Zenon
<1> HIDE DEF q
<1>6. Len(q) = n /\ n \in Nat /\ \A i \in 1..n : q[i] = wire[s][i] /\ i \in 1..Len(wire[s])
  BY <1>3, <1>4
<1>7. DOMAIN q = 1..n
  BY <1>4, <1>6, LenProperties, Zenon
<1>8. wire' \in [Streams -> Seq(Frame)] /\ wire'[s] = q /\ \A t \in Streams \ {s} : wire'[t] = wire[t]
  BY <1>2, <1>4, <1>5, Zenon
<1>9. wire[s] = <<>> => q = <<>>
  <2>1. wire[s] = <<>> => Len(q) = 0
    BY <1>2, <1>6, EmptySeq
  <2> QED BY <1>4, <2>1, EmptySeq, Zenon
<1> QED BY <1>3, <1>6, <1>7, <1>8, <1>9, Zenon

-----------------------------------------------------------------------------
(* What keeps the order on the streams, and the number of copies.          *)

\* Frames are numbered by messages.
LEMMA FrameNumbers ==
  ASSUME TypeOK
  PROVE  \A s \in Streams : \A k \in DOMAIN wire[s] : wire[s][k].msg \in Nat
<1>1. \A s \in Streams : wire[s] \in Seq(Frame)
  BY Zenon DEF TypeOK
<1>2. \A s \in Streams : \A k \in DOMAIN wire[s] : wire[s][k] \in Frame
  BY <1>1, LenProperties, ElementOfSeq, Zenon
<1>3. \A f \in Frame : f.msg \in Nat
  BY PoolAssumption DEF Frame, Msgs
<1> QED BY <1>2, <1>3, Zenon

\* The order stays while no frame is added, streams are dropped and messages with
\* higher numbers come in.
LEMMA OrderKept ==
  ASSUME TypeOK, WireInv, UNCHANGED opened, sent' \in Nat, sent <= sent',
         \A t \in Streams : /\ wire[t] = <<>> => wire'[t] = <<>>
                            /\ \A k \in DOMAIN wire'[t] : k \in DOMAIN wire[t] /\ wire'[t][k] = wire[t][k],
         \A w \in Writers : stream'[w] \in {stream[w], None},
         \A w \in Writers : \A m \in HeldSet(w)' : m \in HeldSet(w) \/ (m \in Nat /\ m > sent)
  PROVE  WireInv'
<1>1. \A s \in Streams : s > opened' => wire'[s] = <<>>
  BY Zenon DEF WireInv, StreamOrder
<1>2. ASSUME NEW s \in Streams, NEW k \in DOMAIN wire'[s] PROVE wire'[s][k].msg <= sent'
  <2>1. wire'[s][k].msg <= sent /\ wire'[s][k].msg \in Nat /\ sent \in Nat
    BY <1>2, FrameNumbers, Numbers, Zenon DEF WireInv, StreamOrder
  <2> QED BY <2>1
<1>3. ASSUME NEW v \in Writers, NEW w \in Writers, stream'[v] # None, stream'[v] = stream'[w] PROVE v = w
  BY <1>3, Zenon DEF WireInv, StreamOrder
<1>4. ASSUME NEW w \in Writers PROVE Behind(w)'
  <2>1. SUFFICES ASSUME stream'[w] # None, NEW k \in DOMAIN wire'[stream'[w]]
                 PROVE  /\ wire'[stream'[w]][k].whole
                        /\ \A m \in HeldSet(w)' : wire'[stream'[w]][k].msg < m
    BY Zenon DEF Behind
  <2>2. stream'[w] = stream[w] /\ stream[w] # None /\ stream[w] \in Streams
    BY <2>1, Numbers, Zenon
  <2>3. k \in DOMAIN wire[stream[w]] /\ wire'[stream[w]][k] = wire[stream[w]][k]
    BY <2>1, <2>2, Zenon
  <2>4. /\ wire[stream[w]][k].whole
        /\ \A m \in HeldSet(w) : wire[stream[w]][k].msg < m
    BY <2>2, <2>3, Zenon DEF WireInv, StreamOrder, Behind
  <2>5. wire[stream[w]][k].msg <= sent /\ wire[stream[w]][k].msg \in Nat /\ sent \in Nat
    BY <2>2, <2>3, FrameNumbers, Numbers, Zenon DEF WireInv, StreamOrder
  <2>6. ASSUME NEW m \in HeldSet(w)' PROVE wire[stream[w]][k].msg < m
    <3>1. CASE m \in HeldSet(w)
      BY <2>4, <3>1, Zenon
    <3>2. CASE m \in Nat /\ m > sent
      BY <2>5, <3>2
    <3> QED BY <3>1, <3>2, Zenon
  <2> QED BY <2>2, <2>3, <2>4, <2>6, Zenon
<1>5. StreamsWellFramed'
  BY Zenon DEF WireInv, StreamsWellFramed
<1> QED BY <1>1, <1>2, <1>3, <1>4, <1>5, Zenon DEF WireInv, StreamOrder

\* It stays with a write, whether the stream is dropped then or the message is done.
LEMMA OrderWithPut ==
  ASSUME TypeOK, QueueInv, WireInv, UNCHANGED <<opened, sent, queue>>,
         NEW w \in Writers, msg[w] # None, stream[w] # None, NEW whole \in BOOLEAN, Put(w, whole),
         \A u \in Writers \ {w} : stream'[u] = stream[u] /\ msg'[u] = msg[u],
         \/ stream'[w] = None
         \/ stream'[w] = stream[w] /\ msg'[w] = None /\ whole
  PROVE  WireInv'
<1>1. /\ StreamsWellFramed'
      /\ \A s \in Streams : s > opened' => wire'[s] = <<>>
      /\ \A s \in Streams : \A k \in DOMAIN wire'[s] : wire'[s][k].msg <= sent'
  BY PutKeepsFraming, Zenon
<1>2. ASSUME NEW u \in Writers, NEW v \in Writers, stream'[u] # None, stream'[u] = stream'[v] PROVE u = v
  BY <1>2 DEF WireInv, StreamOrder
<1>3. ASSUME NEW u \in Writers, u # w PROVE Behind(u)'
  <2>1. stream'[u] = stream[u] /\ HeldSet(u)' = HeldSet(u)
    BY <1>3, Zenon DEF HeldSet
  <2>2. stream[u] # None => stream[u] # stream[w] /\ stream[u] \in Streams
    BY <1>3, Numbers, Zenon DEF WireInv, StreamOrder
  <2>3. stream[u] # None => wire'[stream[u]] = wire[stream[u]]
    BY <2>2, PutEffect
  <2>4. Behind(u)
    BY Zenon DEF WireInv, StreamOrder
  <2> QED BY <2>1, <2>3, <2>4, Zenon DEF Behind
<1>4. Behind(w)'
  <2>1. CASE stream'[w] = None
    BY <2>1, Zenon DEF Behind
  <2>2. CASE stream'[w] = stream[w] /\ msg'[w] = None /\ whole
    <3>1. HeldSet(w)' = Range(queue[w]) /\ Range(queue[w]) \subseteq HeldSet(w)
      BY <2>2, Zenon DEF HeldSet
    <3>2. \A m \in Range(queue[w]) : msg[w] < m
      BY Zenon DEF QueueInv, QueueOrder, Range
    <3>3. \A k \in DOMAIN wire'[stream[w]] :
              \/ k \in DOMAIN wire[stream[w]] /\ wire'[stream[w]][k] = wire[stream[w]][k]
              \/ wire'[stream[w]][k].msg = msg[w] /\ wire'[stream[w]][k].whole = whole
      BY PutEffect
    <3>4. \A k \in DOMAIN wire[stream[w]] :
            /\ wire[stream[w]][k].whole
            /\ \A m \in HeldSet(w) : wire[stream[w]][k].msg < m
      BY Zenon DEF WireInv, StreamOrder, Behind
    <3>5. ASSUME NEW k \in DOMAIN wire'[stream[w]]
          PROVE  /\ wire'[stream[w]][k].whole
                 /\ \A m \in Range(queue[w]) : wire'[stream[w]][k].msg < m
      <4>1. CASE k \in DOMAIN wire[stream[w]] /\ wire'[stream[w]][k] = wire[stream[w]][k]
        BY <3>1, <3>4, <4>1, Zenon
      <4>2. CASE wire'[stream[w]][k].msg = msg[w] /\ wire'[stream[w]][k].whole = whole
        BY <2>2, <3>2, <4>2, Zenon
      <4> QED BY <3>3, <3>5, <4>1, <4>2, Zenon
    <3> QED BY <2>2, <3>1, <3>5, Zenon DEF Behind
  <2> QED BY <2>1, <2>2, Zenon
<1>5. \A u \in Writers : Behind(u)'
  BY <1>3, <1>4, Zenon
<1> QED BY <1>1, <1>2, <1>5, Zenon DEF WireInv, StreamOrder

\* The counts stay while no copy is made: a message taken from a channel has none.
LEMMA CountsKept ==
  ASSUME TypeOK, TypeOK', RetryInv, sent <= sent',
         \A m \in Msgs : Copies(m)' \subseteq Copies(m),
         \A w \in Writers : \A m \in Msgs : m \in Range(queue'[w]) => m \in Range(queue[w]) \/ m > sent,
         \A w \in Writers : \A m \in Msgs : m = msg'[w] => \/ m = msg[w] /\ attempt'[w] = attempt[w]
                                                           \/ m \in Range(queue[w])
  PROVE  RetryInv'
<1>1. ASSUME NEW m \in Msgs
      PROVE  /\ Cardinality(Copies(m)') \in Nat /\ Cardinality(Copies(m)) \in Nat
             /\ Cardinality(Copies(m)') <= Cardinality(Copies(m))
  <2>1. Copies(m)' \in SUBSET Copies(m)
    BY <1>1, Zenon
  <2> QED BY <2>1, CopiesFinite, FS_Subset, Zenon
<1>2. ASSUME NEW w \in Writers, NEW m \in Msgs, m = msg'[w] PROVE Cardinality(Copies(m)') <= attempt'[w]
  <2>1. CASE m = msg[w] /\ attempt'[w] = attempt[w]
    <3>1. Cardinality(Copies(m)) <= attempt[w]
      BY <2>1, Zenon DEF RetryInv, RetryCount
    <3>2. attempt[w] \in 0 .. 2
      BY Numbers, Zenon
    <3> QED BY <1>1, <2>1, <3>1, <3>2
  <2>2. CASE m \in Range(queue[w])
    <3>1. Copies(m)' = {}
      BY <2>2, Zenon DEF RetryInv, RetryCount
    <3>2. attempt'[w] \in 0 .. 2
      BY Zenon DEF TypeOK
    <3> QED BY <3>1, <3>2, FS_EmptySet
  <2> QED BY <1>2, <2>1, <2>2, Zenon
<1>3. ASSUME NEW w \in Writers, NEW m \in Msgs, m \in Range(queue'[w]) PROVE Copies(m)' = {}
  BY <1>3, Zenon DEF RetryInv, RetryCount
<1>4. ASSUME NEW m \in Msgs, m > sent' PROVE Copies(m)' = {}
  <2>1. m > sent
    BY <1>4, PoolAssumption DEF TypeOK, Msgs
  <2> QED BY <2>1, Zenon DEF RetryInv, RetryCount
<1>5. ASSUME NEW m \in Msgs PROVE Cardinality(Copies(m)') <= 3
  <2>1. Cardinality(Copies(m)) <= 3
    BY Zenon DEF RetryInv, BoundedRetries
  <2> QED BY <1>1, <2>1
<1> QED BY <1>2, <1>3, <1>4, <1>5, Zenon DEF RetryInv, RetryCount, BoundedRetries

\* The counts stay with one copy for the attempt that ends.
LEMMA CountsWithAttempt ==
  ASSUME TypeOK, QueueInv, RetryInv, UNCHANGED <<sent, queue>>,
         NEW w \in Writers, msg[w] # None, NEW x,
         \A m \in Msgs : /\ m # msg[w] => Copies(m)' \subseteq Copies(m)
                         /\ Copies(m)' \subseteq Copies(m) \cup {x},
         \A u \in Writers \ {w} : msg'[u] = msg[u] /\ attempt'[u] = attempt[u],
         \/ msg'[w] = None
         \/ msg'[w] = msg[w] /\ attempt'[w] = attempt[w] + 1
  PROVE  RetryInv'
<1>1. msg[w] \in Msgs /\ msg[w] <= sent /\ attempt[w] \in 0 .. 2
  BY Numbers, Zenon DEF QueueInv, QueueOrder
<1>2. /\ Cardinality(Copies(msg[w])) <= attempt[w]
      /\ \A m \in Msgs : m = msg[w] => Cardinality(Copies(m)) <= attempt[w]
  BY <1>1, Zenon DEF RetryInv, RetryCount
<1>3. ASSUME NEW m \in Msgs, m = msg[w] PROVE Cardinality(Copies(m)') <= attempt[w] + 1
  <2>1. Cardinality(Copies(m)') <= Cardinality(Copies(m)) + 1
    <3>1. IsFiniteSet(Copies(m))
      BY CopiesFinite, Zenon
    <3>2. Copies(m)' \subseteq Copies(m) \cup {x}
      BY Zenon
    <3> QED BY <3>1, <3>2, OneMore, Zenon
  <2>2. Cardinality(Copies(m)') \in Nat /\ Cardinality(Copies(m)) \in Nat
    BY CopiesFinite, Zenon
  <2>3. Cardinality(Copies(m)) <= attempt[w]
    BY <1>2, <1>3, Zenon
  <2> QED BY <1>1, <2>1, <2>2, <2>3
<1>4. ASSUME NEW m \in Msgs, m # msg[w]
      PROVE  /\ Cardinality(Copies(m)') \in Nat /\ Cardinality(Copies(m)) \in Nat
             /\ Cardinality(Copies(m)') <= Cardinality(Copies(m))
             /\ Copies(m) = {} => Copies(m)' = {}
  <2>1. Copies(m)' \in SUBSET Copies(m)
    BY <1>4, Zenon
  <2> QED BY <2>1, CopiesFinite, FS_Subset, Zenon
<1>5. ASSUME NEW u \in Writers, NEW m \in Msgs, m = msg'[u] PROVE Cardinality(Copies(m)') <= attempt'[u]
  <2>1. CASE u = w
    <3>1. msg'[w] = msg[w] /\ attempt'[w] = attempt[w] + 1
      BY <1>5, <2>1, Numbers, Zenon DEF None
    <3> QED BY <1>3, <1>5, <2>1, <3>1, Zenon
  <2>2. CASE u # w
    <3>1. m = msg[u] /\ attempt'[u] = attempt[u] /\ m \in HeldSet(u) /\ msg[w] \in HeldSet(w)
      BY <1>5, <2>2, Numbers, Zenon DEF HeldSet, None
    <3>2. m # msg[w]
      BY <2>2, <3>1, Zenon DEF QueueInv, OneOwner
    <3>3. Cardinality(Copies(m)) <= attempt[u] /\ attempt[u] \in 0 .. 2
      BY <3>1, Numbers, Zenon DEF RetryInv, RetryCount
    <3> QED BY <1>4, <3>1, <3>2, <3>3
  <2> QED BY <2>1, <2>2, Zenon
<1>6. ASSUME NEW u \in Writers, NEW m \in Msgs, m \in Range(queue'[u]) PROVE Copies(m)' = {}
  <2>1. m # msg[w]
    <3>1. CASE u = w
      <4>1. PICK i \in DOMAIN queue[w] : m = queue[w][i]
        BY <1>6, <3>1, Zenon DEF Range
      <4>2. msg[w] < m
        BY <4>1, Zenon DEF QueueInv, QueueOrder
      <4> QED BY <1>1, <4>2, Numbers
    <3>2. CASE u # w
      <4>1. m \in HeldSet(u) /\ msg[w] \in HeldSet(w)
        BY <1>6, Zenon DEF HeldSet
      <4> QED BY <3>2, <4>1 DEF QueueInv, OneOwner
    <3> QED BY <3>1, <3>2, Zenon
  <2>2. Copies(m) = {}
    BY <1>6, Zenon DEF RetryInv, RetryCount
  <2> QED BY <1>4, <2>1, <2>2, Zenon
<1>7. ASSUME NEW m \in Msgs, m > sent' PROVE Copies(m)' = {}
  <2>1. m # msg[w]
    BY <1>1, <1>7, Numbers
  <2>2. Copies(m) = {}
    BY <1>7, Zenon DEF RetryInv, RetryCount
  <2> QED BY <1>4, <2>1, <2>2, Zenon
<1>8. ASSUME NEW m \in Msgs PROVE Cardinality(Copies(m)') <= 3
  <2>1. CASE m = msg[w]
    <3>1. Cardinality(Copies(m)') <= attempt[w] + 1 /\ Cardinality(Copies(m)') \in Nat
      BY <1>3, <2>1, CopiesFinite, Zenon
    <3> QED BY <1>1, <3>1
  <2>2. CASE m # msg[w]
    <3>1. Cardinality(Copies(m)) <= 3
      BY Zenon DEF RetryInv, BoundedRetries
    <3> QED BY <1>4, <2>2, <3>1
  <2> QED BY <2>1, <2>2, Zenon
<1> QED BY <1>5, <1>6, <1>7, <1>8, Zenon DEF RetryInv, RetryCount, BoundedRetries

-----------------------------------------------------------------------------
(* The steps.                                                              *)

\* get_or_create spawns a writer whose channel is empty, or takes the one there is.
LEMMA SendKeeps ==
  ASSUME PoolInv, get_or_create_and_send
  PROVE  PoolInv'
<1>1. TypeOK /\ QueueInv /\ WireInv /\ RetryInv
  BY Zenon DEF PoolInv
<1>2. /\ sent < MaxMsgs /\ sent' = sent + 1
      /\ UNCHANGED <<msg, attempt, stream, opened, wire, broken, result>>
  BY Zenon DEF get_or_create_and_send, netVars
<1> DEFINE E(v) == /\ queue' = [queue EXCEPT ![v] = Append(@, sent')]
                   /\ v <= spawned' /\ spawned' \in 0 .. MaxWriters /\ spawned <= spawned'
                   /\ sender' \in 0 .. spawned'
<1> HIDE DEF E
<1>a. PICK v \in Writers : E(v)
  <2>1. CASE sender # None /\ queue' = [queue EXCEPT ![sender] = Append(@, sent')] /\ UNCHANGED <<sender, spawned>>
    <3>1. sender \in Writers /\ sender <= spawned /\ spawned \in 0 .. MaxWriters /\ sender \in 0 .. spawned
      BY <1>1, <2>1, PoolAssumption DEF TypeOK, Writers, None
    <3>2. E(sender)
      BY <2>1, <3>1 DEF E
    <3> QED BY <3>1, <3>2, Zenon
  <2>2. CASE /\ sender = None /\ spawned < MaxWriters /\ spawned' = spawned + 1 /\ sender' = spawned'
             /\ queue' = [queue EXCEPT ![spawned'] = <<sent'>>]
    <3>1. /\ spawned' \in Writers /\ spawned' > spawned /\ spawned' \in 0 .. MaxWriters /\ spawned <= spawned'
          /\ sender' \in 0 .. spawned'
      BY <1>1, <2>2, PoolAssumption DEF TypeOK, Writers
    <3>2. queue[spawned'] = <<>>
      BY <1>1, <3>1, Zenon DEF QueueInv, Untouched
    <3>3. Append(<<>>, sent') = <<sent'>>
      OBVIOUS
    <3>4. queue' = [queue EXCEPT ![spawned'] = Append(@, sent')]
      BY <2>2, <3>2, <3>3, Zenon
    <3>5. E(spawned')
      BY <3>1, <3>4 DEF E
    <3> QED BY <3>1, <3>5, Zenon
  <2> QED BY <2>1, <2>2, Zenon DEF get_or_create_and_send
<1>3. /\ queue' = [queue EXCEPT ![v] = Append(@, sent')]
      /\ v \in Writers /\ v <= spawned' /\ spawned' \in 0 .. MaxWriters /\ spawned <= spawned'
      /\ sender' \in 0 .. spawned'
  BY <1>a, Zenon DEF E
<1>4. QueueInv' /\ queue' \in [Writers -> Seq(Msgs)]
  <2>1. v \in Writers /\ v <= spawned' /\ spawned <= spawned' /\ spawned' \in Nat
    BY <1>3
  <2>2. UNCHANGED <<msg, result>> /\ queue' = [queue EXCEPT ![v] = Append(@, sent')]
    BY <1>2, <1>3, Zenon
  <2> QED BY <1>1, <1>2, <2>1, <2>2, EnqueueKeepsQueues, Zenon
<1>5. sent \in Nat /\ sent' \in 0 .. MaxMsgs /\ sent' \in Msgs /\ sent' \in Nat /\ sent < sent' /\ sent <= sent'
  BY <1>1, <1>2, PoolAssumption DEF TypeOK, Msgs
<1>6. TypeOK'
  BY <1>1, <1>2, <1>3, <1>4, <1>5, Zenon DEF TypeOK
<1>7. ASSUME NEW w \in Writers, NEW m \in Range(queue'[w]) PROVE m \in Range(queue[w]) \/ m = sent'
  <2>1. queue \in [Writers -> Seq(Msgs)]
    BY <1>1, Zenon DEF TypeOK
  <2>2. CASE w = v
    <3>1. queue'[w] = Append(queue[w], sent')
      BY <1>3, <2>1, <2>2, Zenon
    <3>2. Range(Append(queue[w], sent')) = Range(queue[w]) \cup {sent'}
      BY <1>5, <2>1, Appended
    <3> QED BY <1>7, <3>1, <3>2, Zenon
  <2>3. CASE w # v
    BY <1>3, <1>7, <2>1, <2>3, Zenon
  <2> QED BY <2>2, <2>3, Zenon
<1>8. WireInv'
  <2>1. ASSUME NEW w \in Writers, NEW m \in HeldSet(w)' PROVE m \in HeldSet(w) \/ (m \in Nat /\ m > sent)
    BY <1>2, <1>5, <1>7, <2>1, Zenon DEF HeldSet
  <2> QED BY <1>1, <1>2, <1>5, <2>1, OrderKept, Zenon
<1>9. RetryInv'
  <2>1. \A m \in Msgs : Copies(m)' \subseteq Copies(m)
    BY <1>2, CopiesKept, Zenon
  <2>2. \A w \in Writers : \A m \in Msgs : m \in Range(queue'[w]) => m \in Range(queue[w]) \/ m > sent
    BY <1>5, <1>7, Zenon
  <2>3. \A w \in Writers : \A m \in Msgs : m = msg'[w] => m = msg[w] /\ attempt'[w] = attempt[w]
    BY <1>2, Zenon
  <2> QED BY <1>1, <1>5, <1>6, <2>1, <2>2, <2>3, CountsKept, Zenon
<1> QED BY <1>4, <1>6, <1>8, <1>9, Zenon DEF PoolInv

\* What changes neither the channels nor what the writers send keeps all.
LEMMA IdleKeeps ==
  ASSUME PoolInv, UNCHANGED <<sent, spawned, queue, msg, attempt, stream, opened, result>>,
         sender' \in 0 .. spawned, broken' \subseteq Streams, wire' \in [Streams -> Seq(Frame)],
         \A t \in Streams : /\ wire[t] = <<>> => wire'[t] = <<>>
                            /\ \A k \in DOMAIN wire'[t] : k \in DOMAIN wire[t] /\ wire'[t][k] = wire[t][k]
  PROVE  PoolInv'
<1>1. TypeOK /\ QueueInv /\ WireInv /\ RetryInv
  BY Zenon DEF PoolInv
<1>2. TypeOK'
  BY <1>1, Zenon DEF TypeOK
<1>3. QueueInv'
  BY <1>1, Zenon DEF QueueInv, QueueOrder, Untouched, OneOwner, HeldSet
<1>4. sent \in Nat /\ sent' \in Nat /\ sent <= sent'
  BY <1>1, Numbers
<1>5. WireInv'
  <2>1. \A w \in Writers : HeldSet(w)' = HeldSet(w)
    BY Zenon DEF HeldSet
  <2> QED BY <1>1, <1>4, <2>1, OrderKept, Zenon
<1>6. RetryInv'
  <2>1. \A m \in Msgs : Copies(m)' \subseteq Copies(m)
    BY Zenon DEF Copies
  <2> QED BY <1>1, <1>2, <1>4, <2>1, CountsKept, Zenon
<1> QED BY <1>2, <1>3, <1>5, <1>6, Zenon DEF PoolInv

LEMMA RemoveSenderKeeps ==
  ASSUME PoolInv, RemoveSender
  PROVE  PoolInv'
<1>1. /\ UNCHANGED <<sent, spawned, queue, msg, attempt, stream, opened, result, wire, broken>>
      /\ sender' = 0
  BY Zenon DEF RemoveSender, netVars, None
<1>2. spawned \in 0 .. MaxWriters /\ wire \in [Streams -> Seq(Frame)] /\ broken \subseteq Streams
  BY Zenon DEF PoolInv, TypeOK
<1>3. sender' \in 0 .. spawned
  BY <1>1, <1>2, PoolAssumption
<1> QED BY <1>1, <1>2, <1>3, IdleKeeps, Zenon

LEMMA BreakKeeps ==
  ASSUME PoolInv, NEW s \in Streams, Break(s)
  PROVE  PoolInv'
<1>1. /\ UNCHANGED <<sent, sender, spawned, queue, msg, attempt, stream, opened, result>>
      /\ broken' = broken \cup {s}
  BY Zenon DEF Break, poolVars
<1>2. TypeOK /\ sender \in 0 .. spawned /\ broken \subseteq Streams
  BY Zenon DEF PoolInv, TypeOK
<1>3. /\ wire' \in [Streams -> Seq(Frame)]
      /\ \A t \in Streams : /\ wire[t] = <<>> => wire'[t] = <<>>
                            /\ \A k \in DOMAIN wire'[t] : k \in DOMAIN wire[t] /\ wire'[t][k] = wire[t][k]
  BY <1>2, BreakEffect, Zenon
<1> QED BY <1>1, <1>2, <1>3, IdleKeeps, Zenon

\* rx.recv hands the first of the channel to the writer.
LEMMA TakeMsgKeeps ==
  ASSUME PoolInv, NEW w \in Writers, TakeMsg(w)
  PROVE  PoolInv'
<1>1. TypeOK /\ QueueInv /\ WireInv /\ RetryInv
  BY Zenon DEF PoolInv
<1>2. /\ UNCHANGED <<sent, sender, spawned, stream, opened, wire, broken, result>>
      /\ attempt' = [attempt EXCEPT ![w] = 0]
  BY Zenon DEF TakeMsg, poolVars, netVars
<1>3. /\ QueueInv' /\ queue' \in [Writers -> Seq(Msgs)] /\ msg' \in [Writers -> Msgs \cup {None}]
      /\ queue[w] # <<>> /\ msg'[w] = queue[w][1] /\ 1 \in DOMAIN queue[w]
      /\ \A i \in DOMAIN queue'[w] : i + 1 \in DOMAIN queue[w] /\ queue'[w][i] = queue[w][i + 1]
      /\ \A u \in Writers \ {w} : queue'[u] = queue[u] /\ msg'[u] = msg[u]
  BY <1>1, TakeKeepsQueues, Zenon
<1>4. attempt' \in [Writers -> 0 .. 2] /\ \A u \in Writers \ {w} : attempt'[u] = attempt[u]
  BY <1>1, <1>2 DEF TypeOK
<1>5. TypeOK'
  BY <1>1, <1>2, <1>3, <1>4, Zenon DEF TypeOK
<1>6. msg'[w] \in Range(queue[w]) /\ Range(queue'[w]) \subseteq Range(queue[w])
  BY <1>3 DEF Range
<1>7. sent \in Nat /\ sent' \in Nat /\ sent <= sent'
  BY <1>1, <1>2, Numbers
<1>8. WireInv'
  <2>1. ASSUME NEW u \in Writers, NEW m \in HeldSet(u)' PROVE m \in HeldSet(u)
    <3>1. CASE u = w
      BY <1>6, <2>1, <3>1, Zenon DEF HeldSet
    <3>2. CASE u # w
      BY <1>3, <2>1, <3>2, Zenon DEF HeldSet
    <3> QED BY <3>1, <3>2, Zenon
  <2> QED BY <1>1, <1>2, <1>7, <2>1, OrderKept, Zenon
<1>9. RetryInv'
  <2>1. \A m \in Msgs : Copies(m)' \subseteq Copies(m)
    BY <1>2, CopiesKept, Zenon
  <2>2. ASSUME NEW u \in Writers, NEW m \in Msgs
        PROVE  /\ m \in Range(queue'[u]) => m \in Range(queue[u])
               /\ m = msg'[u] => \/ m = msg[u] /\ attempt'[u] = attempt[u]
                                 \/ m \in Range(queue[u])
    BY <1>3, <1>4, <1>6, Zenon
  <2> QED BY <1>1, <1>5, <1>7, <2>1, <2>2, CountsKept, Zenon
<1> QED BY <1>3, <1>5, <1>8, <1>9, Zenon DEF PoolInv

\* A new stream carries nothing, and nobody else has it.
LEMMA OpenStreamKeeps ==
  ASSUME PoolInv, NEW w \in Writers, OpenStream(w)
  PROVE  PoolInv'
<1>1. TypeOK /\ QueueInv /\ WireInv /\ RetryInv
  BY Zenon DEF PoolInv
<1>2. /\ UNCHANGED <<sent, sender, spawned, queue, msg, attempt, wire, broken, result>>
      /\ opened < MaxStreams /\ opened' = opened + 1
      /\ stream' = [stream EXCEPT ![w] = opened + 1]
  BY Zenon DEF OpenStream, poolVars
<1>3. /\ opened \in Nat /\ opened' \in 0 .. MaxStreams /\ opened + 1 \in Streams /\ opened + 1 # None
      /\ stream \in [Writers -> 0 .. opened]
      /\ \A n \in 0 .. opened : n \in 0 .. opened' /\ n # opened + 1
  BY <1>1, <1>2, PoolAssumption DEF TypeOK, Streams, None
<1>4. /\ stream' \in [Writers -> 0 .. opened'] /\ stream'[w] = opened + 1
      /\ \A u \in Writers \ {w} : stream'[u] = stream[u] /\ stream[u] # opened + 1
  <2>1. opened + 1 \in 0 .. opened'
    BY <1>2, <1>3
  <2> QED BY <1>2, <1>3, <2>1, Zenon
<1>5. TypeOK'
  BY <1>1, <1>2, <1>3, <1>4, Zenon DEF TypeOK
<1>6. QueueInv'
  BY <1>1, <1>2, Zenon DEF QueueInv, QueueOrder, Untouched, OneOwner, HeldSet
<1>7. WireInv'
  <2>1. wire[opened + 1] = <<>>
    BY <1>1, <1>3 DEF WireInv, StreamOrder
  <2>2. ASSUME NEW s \in Streams, s > opened' PROVE wire'[s] = <<>>
    <3>1. s > opened
      BY <1>2, <1>3, <2>2, PoolAssumption DEF Streams
    <3> QED BY <1>1, <1>2, <3>1, Zenon DEF WireInv, StreamOrder
  <2>3. \A s \in Streams : \A k \in DOMAIN wire'[s] : wire'[s][k].msg <= sent'
    BY <1>1, <1>2, Zenon DEF WireInv, StreamOrder
  <2>4. ASSUME NEW u \in Writers, NEW v \in Writers, stream'[u] # None, stream'[u] = stream'[v] PROVE u = v
    BY <1>1, <1>4, <2>4, Zenon DEF WireInv, StreamOrder
  <2>5. ASSUME NEW u \in Writers PROVE Behind(u)'
    <3>1. CASE u = w
      <4>1. DOMAIN wire'[stream'[w]] = {}
        BY <1>2, <1>4, <2>1
      <4> QED BY <3>1, <4>1, Zenon DEF Behind
    <3>2. CASE u # w
      <4>1. Behind(u) /\ stream'[u] = stream[u] /\ HeldSet(u)' = HeldSet(u)
        BY <1>1, <1>2, <1>4, <3>2, Zenon DEF WireInv, StreamOrder, HeldSet
      <4> QED BY <1>2, <4>1, Zenon DEF Behind
    <3> QED BY <3>1, <3>2, Zenon
  <2>6. StreamsWellFramed'
    BY <1>1, <1>2, Zenon DEF WireInv, StreamsWellFramed
  <2> QED BY <2>2, <2>3, <2>4, <2>5, <2>6, Zenon DEF WireInv, StreamOrder
<1>8. RetryInv'
  <2>1. \A m \in Msgs : Copies(m)' \subseteq Copies(m)
    BY <1>2, CopiesKept, Zenon
  <2>2. sent <= sent'
    BY <1>1, <1>2, Numbers
  <2> QED BY <1>1, <1>2, <1>5, <2>1, <2>2, CountsKept, Zenon
<1> QED BY <1>5, <1>6, <1>7, <1>8, Zenon DEF PoolInv

\* A failed attempt ends the message, or counts.
LEMMA RetryEffect ==
  ASSUME TypeOK, QueueInv, NEW w \in Writers, msg[w] # None, Retry(w), UNCHANGED <<sent, spawned, queue>>
  PROVE  /\ QueueInv' /\ msg' \in [Writers -> Msgs \cup {None}] /\ attempt' \in [Writers -> 0 .. 2]
         /\ result' \in [Msgs -> {"none", "ok", "error"}]
         /\ \A u \in Writers \ {w} : msg'[u] = msg[u] /\ attempt'[u] = attempt[u]
         /\ \/ msg'[w] = None
            \/ msg'[w] = msg[w] /\ attempt'[w] = attempt[w] + 1
<1>1. CASE LastAttempt(w) /\ Report(w, "error")
  <2>1. /\ QueueInv' /\ msg' \in [Writers -> Msgs \cup {None}]
        /\ result' \in [Msgs -> {"none", "ok", "error"}]
        /\ msg'[w] = None /\ \A u \in Writers \ {w} : msg'[u] = msg[u]
    BY <1>1, ReportKeepsQueues, Zenon
  <2>2. attempt' = attempt /\ attempt \in [Writers -> 0 .. 2]
    BY <1>1, Zenon DEF Report, TypeOK
  <2> QED BY <2>1, <2>2, Zenon
<1>2. CASE ~ LastAttempt(w) /\ attempt' = [attempt EXCEPT ![w] = @ + 1] /\ UNCHANGED <<msg, result>>
  <2>1. QueueInv'
    BY <1>2, Zenon DEF QueueInv, QueueOrder, Untouched, OneOwner, HeldSet
  <2>2. msg' \in [Writers -> Msgs \cup {None}] /\ result' \in [Msgs -> {"none", "ok", "error"}]
    BY <1>2, Zenon DEF TypeOK
  <2>3. attempt \in [Writers -> 0 .. 2] /\ attempt[w] + 1 \in 0 .. 2
    <3>1. attempt \in [Writers -> 0 .. 2] /\ attempt[w] \in 0 .. 2 /\ ~ (attempt[w] >= 2)
      BY <1>2, Zenon DEF TypeOK, LastAttempt
    <3> QED BY <3>1
  <2>4. /\ attempt' \in [Writers -> 0 .. 2] /\ attempt'[w] = attempt[w] + 1
        /\ \A u \in Writers \ {w} : attempt'[u] = attempt[u]
    BY <1>2, <2>3, Zenon
  <2> QED BY <1>2, <2>1, <2>2, <2>4, Zenon
<1> QED BY <1>1, <1>2, Zenon DEF Retry

LEMMA OpenFailsKeeps ==
  ASSUME PoolInv, NEW w \in Writers, OpenFails(w)
  PROVE  PoolInv'
<1>1. TypeOK /\ QueueInv /\ WireInv /\ RetryInv
  BY Zenon DEF PoolInv
<1>2. /\ UNCHANGED <<sent, sender, spawned, queue, stream, opened, wire, broken>>
      /\ msg[w] # None /\ Retry(w)
  BY Zenon DEF OpenFails, poolVars, netVars
<1>3. /\ QueueInv' /\ msg' \in [Writers -> Msgs \cup {None}] /\ attempt' \in [Writers -> 0 .. 2]
      /\ result' \in [Msgs -> {"none", "ok", "error"}]
      /\ \A u \in Writers \ {w} : msg'[u] = msg[u] /\ attempt'[u] = attempt[u]
      /\ \/ msg'[w] = None
         \/ msg'[w] = msg[w] /\ attempt'[w] = attempt[w] + 1
  BY <1>1, <1>2, RetryEffect, Zenon
<1>4. TypeOK'
  BY <1>1, <1>2, <1>3, Zenon DEF TypeOK
<1>5. WireInv'
  <2>1. \A u \in Writers : HeldSet(u)' \subseteq HeldSet(u)
    BY <1>2, <1>3, Zenon DEF HeldSet
  <2>2. sent \in Nat /\ sent' \in Nat /\ sent <= sent'
    BY <1>1, <1>2, Numbers
  <2> QED BY <1>1, <1>2, <2>1, <2>2, OrderKept, Zenon
<1>6. RetryInv'
  <2>1. \A m \in Msgs : Copies(m)' \subseteq Copies(m)
    BY <1>2, CopiesKept, Zenon
  <2>2. \A m \in Msgs : /\ m # msg[w] => Copies(m)' \subseteq Copies(m)
                        /\ Copies(m)' \subseteq Copies(m) \cup {None}
    BY <2>1, Zenon
  <2> QED BY <1>1, <1>2, <1>3, <2>2, CountsWithAttempt, Zenon
<1> QED BY <1>3, <1>4, <1>5, <1>6, Zenon DEF PoolInv

LEMMA WriteMessageKeeps ==
  ASSUME PoolInv, NEW w \in Writers, WriteMessage(w)
  PROVE  PoolInv'
<1>1. TypeOK /\ QueueInv /\ WireInv /\ RetryInv
  BY Zenon DEF PoolInv
<1>2. /\ UNCHANGED <<sent, sender, spawned, queue, stream, opened, broken, attempt>>
      /\ msg[w] # None /\ stream[w] # None /\ Put(w, TRUE) /\ Report(w, "ok")
  BY Zenon DEF WriteMessage, Report, poolVars
<1>3. /\ QueueInv' /\ msg' \in [Writers -> Msgs \cup {None}]
      /\ result' \in [Msgs -> {"none", "ok", "error"}]
      /\ msg'[w] = None /\ \A u \in Writers \ {w} : msg'[u] = msg[u]
  BY <1>1, <1>2, ReportKeepsQueues, Zenon
<1>4. wire' \in [Streams -> Seq(Frame)]
  BY <1>1, <1>2, PutEffect, Zenon
<1>5. TypeOK'
  BY <1>1, <1>2, <1>3, <1>4, Zenon DEF TypeOK
<1>6. WireInv'
  BY <1>1, <1>2, <1>3, OrderWithPut, Zenon
<1>7. RetryInv'
  <2>1. \A m \in Msgs : /\ m # msg[w] => Copies(m)' \subseteq Copies(m)
                        /\ Copies(m)' \subseteq Copies(m) \cup {stream[w]}
    BY <1>1, <1>2, PutCopies, Zenon
  <2>2. \A u \in Writers \ {w} : msg'[u] = msg[u] /\ attempt'[u] = attempt[u]
    BY <1>2, <1>3, Zenon
  <2> QED BY <1>1, <1>2, <1>3, <2>1, <2>2, CountsWithAttempt, Zenon
<1> QED BY <1>3, <1>5, <1>6, <1>7, Zenon DEF PoolInv

LEMMA WriteFailsKeeps ==
  ASSUME PoolInv, NEW w \in Writers, WriteFails(w)
  PROVE  PoolInv'
<1>1. TypeOK /\ QueueInv /\ WireInv /\ RetryInv
  BY Zenon DEF PoolInv
<1>2. /\ UNCHANGED <<sent, sender, spawned, queue, opened, broken>>
      /\ msg[w] # None /\ stream[w] # None /\ Retry(w)
      /\ stream' = [stream EXCEPT ![w] = None]
  BY Zenon DEF WriteFails, DropStream, poolVars
<1>3. /\ QueueInv' /\ msg' \in [Writers -> Msgs \cup {None}] /\ attempt' \in [Writers -> 0 .. 2]
      /\ result' \in [Msgs -> {"none", "ok", "error"}]
      /\ \A u \in Writers \ {w} : msg'[u] = msg[u] /\ attempt'[u] = attempt[u]
      /\ \/ msg'[w] = None
         \/ msg'[w] = msg[w] /\ attempt'[w] = attempt[w] + 1
  BY <1>1, <1>2, RetryEffect, Zenon
<1>4. /\ stream' \in [Writers -> 0 .. opened'] /\ stream'[w] = None
      /\ \A u \in Writers \ {w} : stream'[u] = stream[u]
  <2>1. stream \in [Writers -> 0 .. opened] /\ None \in 0 .. opened
    BY <1>1 DEF TypeOK, None
  <2> QED BY <1>2, <2>1, Zenon
<1>5. CASE \E whole \in BOOLEAN : Put(w, whole)
  <2>1. PICK whole \in BOOLEAN : Put(w, whole)
    BY <1>5, Zenon
  <2>2. wire' \in [Streams -> Seq(Frame)]
    BY <1>1, <1>2, <2>1, PutEffect, Zenon
  <2>3. TypeOK'
    BY <1>1, <1>2, <1>3, <1>4, <2>2, Zenon DEF TypeOK
  <2>4. WireInv'
    BY <1>1, <1>2, <1>3, <1>4, <2>1, OrderWithPut, Zenon
  <2>5. \A m \in Msgs : /\ m # msg[w] => Copies(m)' \subseteq Copies(m)
                        /\ Copies(m)' \subseteq Copies(m) \cup {stream[w]}
    BY <1>1, <1>2, <2>1, PutCopies, Zenon
  <2>6. RetryInv'
    BY <1>1, <1>2, <1>3, <2>5, CountsWithAttempt, Zenon
  <2> QED BY <1>3, <2>3, <2>4, <2>6, Zenon DEF PoolInv
<1>6. CASE UNCHANGED wire
  <2>1. TypeOK'
    BY <1>1, <1>2, <1>3, <1>4, <1>6, Zenon DEF TypeOK
  <2>2. WireInv'
    <3>1. \A u \in Writers : HeldSet(u)' \subseteq HeldSet(u)
      BY <1>2, <1>3, Zenon DEF HeldSet
    <3>2. sent \in Nat /\ sent' \in Nat /\ sent <= sent'
      BY <1>1, <1>2, Numbers
    <3> QED BY <1>1, <1>2, <1>4, <1>6, <3>1, <3>2, OrderKept, Zenon
  <2>3. \A m \in Msgs : Copies(m)' \subseteq Copies(m)
    BY <1>6, CopiesKept, Zenon
  <2>4. \A m \in Msgs : /\ m # msg[w] => Copies(m)' \subseteq Copies(m)
                        /\ Copies(m)' \subseteq Copies(m) \cup {None}
    BY <2>3, Zenon
  <2>5. RetryInv'
    BY <1>1, <1>2, <1>3, <2>4, CountsWithAttempt, Zenon
  <2> QED BY <1>3, <2>1, <2>2, <2>5, Zenon DEF PoolInv
<1> QED BY <1>5, <1>6, Zenon DEF WriteFails

-----------------------------------------------------------------------------
LEMMA InitPool ==
  ASSUME Init
  PROVE  PoolInv
<1>1. TypeOK
  <2>1. <<>> \in Seq(Msgs) /\ <<>> \in Seq(Frame)
    OBVIOUS
  <2> QED BY <2>1, PoolAssumption DEF Init, TypeOK, None
<1>2. /\ sent = 0 /\ \A w \in Writers : queue[w] = <<>> /\ msg[w] = 0 /\ stream[w] = 0
      /\ \A s \in Streams : wire[s] = <<>>
      /\ \A m \in Msgs : result[m] = "none"
  BY Zenon DEF Init, None
<1>3. DOMAIN <<>> = {} /\ Range(<<>>) = {}
  BY DEF Range
<1>4. \A w \in Writers : HeldSet(w) = {}
  BY <1>2, <1>3, Zenon DEF HeldSet, None
<1>5. \A m \in Msgs : ~ (m <= sent)
  BY <1>2, PoolAssumption DEF Msgs
<1>6. QueueInv
  BY <1>2, <1>3, <1>4, <1>5 DEF QueueInv, QueueOrder, Untouched, OneOwner, None
<1>7. WireInv
  BY <1>2, <1>3, Zenon DEF WireInv, StreamOrder, StreamsWellFramed, Behind, None
<1>8. \A m \in Msgs : Copies(m) = {}
  BY <1>2, <1>3, Zenon DEF Copies
<1>9. RetryInv
  <2>1. \A m \in Msgs : Cardinality(Copies(m)) = 0
    BY <1>8, FS_EmptySet, Zenon
  <2>2. \A w \in Writers : attempt[w] = 0
    BY Zenon DEF Init
  <2> QED BY <1>8, <2>1, <2>2 DEF RetryInv, RetryCount, BoundedRetries
<1> QED BY <1>1, <1>6, <1>7, <1>9, Zenon DEF PoolInv

LEMMA StepKeepsPool ==
  ASSUME PoolInv, [Next]_vars
  PROVE  PoolInv'
<1>1. CASE get_or_create_and_send
  BY <1>1, SendKeeps, Zenon
<1>2. CASE RemoveSender
  BY <1>2, RemoveSenderKeeps, Zenon
<1>3. ASSUME NEW w \in Writers, WriterStep(w) PROVE PoolInv'
  BY <1>3, TakeMsgKeeps, OpenStreamKeeps, OpenFailsKeeps, WriteMessageKeeps, WriteFailsKeeps, Zenon DEF WriterStep
<1>4. ASSUME NEW s \in Streams, Break(s) PROVE PoolInv'
  BY <1>4, BreakKeeps, Zenon
<1>5. CASE UNCHANGED vars
  <2>1. UNCHANGED <<sent, sender, spawned, queue, msg, attempt, stream, opened, wire, broken, result>>
    BY <1>5, Zenon DEF vars, poolVars, netVars
  <2>2. sender \in 0 .. spawned /\ wire \in [Streams -> Seq(Frame)] /\ broken \subseteq Streams
    BY Zenon DEF PoolInv, TypeOK
  <2> QED BY <2>1, <2>2, IdleKeeps, Zenon
<1> QED BY <1>1, <1>2, <1>3, <1>4, <1>5, Zenon DEF Next

LEMMA PoolInvAlways == Spec => []PoolInv
<1>1. Init => PoolInv
  BY InitPool, Zenon
<1>2. PoolInv /\ [Next]_vars => PoolInv'
  BY StepKeepsPool, Zenon
<1> QED BY <1>1, <1>2, PTL DEF Spec

\* The messages a writer has are those of HeldSet, each once.
LEMMA HeldOnce ==
  ASSUME TypeOK, QueueOrder, NEW w \in Writers
  PROVE  Range(Held(w)) = HeldSet(w) /\ IsInjective(Held(w))
<1>1. queue[w] \in Seq(Msgs) /\ msg[w] \in Nat /\ \A i \in DOMAIN queue[w] : queue[w][i] \in Msgs
  BY Numbers, Zenon
<1>2. Len(queue[w]) \in Nat /\ DOMAIN queue[w] = 1..Len(queue[w])
  BY <1>1, LenProperties, Zenon
<1>3. \A i, j \in DOMAIN queue[w] : i # j => queue[w][i] # queue[w][j]
  <2>1. \A i, j \in DOMAIN queue[w] : i < j => queue[w][i] < queue[w][j]
    BY Zenon DEF QueueOrder
  <2>2. ASSUME NEW i \in DOMAIN queue[w], NEW j \in DOMAIN queue[w], i < j PROVE queue[w][i] # queue[w][j]
    BY <1>1, <2>1, <2>2, PoolAssumption DEF Msgs
  <2>3. \A i, j \in DOMAIN queue[w] : i # j => i < j \/ j < i
    BY <1>2
  <2> QED BY <2>2, <2>3, Zenon
<1>4. CASE msg[w] = None
  <2>1. Held(w) = queue[w]
    BY <1>1, <1>4, ConcatEmptySeq, Zenon DEF Held
  <2> QED BY <1>3, <1>4, <2>1, Zenon DEF HeldSet, IsInjective
<1>5. CASE msg[w] # None
  <2>1. msg[w] \in Msgs
    BY <1>5, Numbers, Zenon
  <2> DEFINE q == Append(queue[w], msg[w])
  <2>2. Held(w) = q
    BY <1>1, <1>5, <2>1, AppendIsConcat, Zenon DEF Held
  <2>3. /\ DOMAIN q = 1..Len(queue[w]) + 1
        /\ \A i \in 1..Len(queue[w]) : q[i] = queue[w][i]
        /\ q[Len(queue[w]) + 1] = msg[w]
        /\ Range(q) = Range(queue[w]) \cup {msg[w]}
    BY <1>1, <2>1, Appended
  <2> HIDE DEF q
  <2>4. \A i \in DOMAIN queue[w] : queue[w][i] # msg[w]
    BY <1>1, PoolAssumption DEF QueueOrder, Msgs
  <2>5. ASSUME NEW i \in DOMAIN q, NEW j \in DOMAIN q, i # j PROVE q[i] # q[j]
    <3>1. /\ i \in DOMAIN queue[w] \/ i = Len(queue[w]) + 1
          /\ j \in DOMAIN queue[w] \/ j = Len(queue[w]) + 1
      BY <1>2, <2>3
    <3> QED BY <1>2, <1>3, <2>3, <2>4, <2>5, <3>1, Zenon
  <2> QED BY <1>5, <2>2, <2>3, <2>5, Zenon DEF HeldSet, IsInjective
<1> QED BY <1>4, <1>5, Zenon

-----------------------------------------------------------------------------
(* The results.                                                            *)

\* The state has its shape in every behaviour.
THEOREM PoolTypeCorrect == Spec => []TypeOK
<1>1. PoolInv => TypeOK
  BY Zenon DEF PoolInv
<1> QED BY <1>1, PoolInvAlways, PTL

\* Every message handed to the pool has exactly one owner until its result, for any
\* number of messages, removals of the sender, writers and failures.
THEOREM SendsAlwaysOwned == Spec => []OwnedUntilReported
<1>1. PoolInv => OwnedUntilReported
  <2>1. SUFFICES ASSUME PoolInv PROVE OwnedUntilReported
    BY Zenon
  <2>2. TypeOK /\ QueueOrder /\ OneOwner
    BY <2>1, Zenon DEF PoolInv, QueueInv
  <2>3. \A w \in Writers : Range(Held(w)) = HeldSet(w) /\ IsInjective(Held(w))
    BY <2>2, HeldOnce, Zenon
  <2> QED BY <2>2, <2>3 DEF OneOwner, OwnedUntilReported
<1> QED BY <1>1, PoolInvAlways, PTL

\* No stream carries anything behind a message that was cut short, and none carries
\* a message twice or out of order.
THEOREM StreamsAlwaysFramed == Spec => []StreamsWellFramed
<1>1. PoolInv => StreamsWellFramed
  BY Zenon DEF PoolInv, WireInv
<1> QED BY <1>1, PoolInvAlways, PTL

\* Whatever fails, a message goes on three streams at most.
THEOREM RetriesAlwaysBounded == Spec => []BoundedRetries
<1>1. PoolInv => BoundedRetries
  BY Zenon DEF PoolInv, RetryInv
<1> QED BY <1>1, PoolInvAlways, PTL

=============================================================================
