----------------------------- MODULE SenderPool -----------------------------
(***************************************************************************)
(* The way of outbound messages to one peer: the entry of a PeerSenderPool *)
(* for it, the writer tasks spawned for that entry over time, and their    *)
(* streams with retries.                                                   *)
(*                                                                         *)
(* Messages are numbered in the order they are handed to the pool.  The    *)
(* network is external: opening a stream may fail, a write may fail with   *)
(* none, some or all of its bytes on their way, and a broken stream loses  *)
(* the end of what it carries.  The peer reads its streams independently   *)
(* of each other, each up to the first message that is cut short.          *)
(***************************************************************************)
EXTENDS Naturals, Sequences, FiniteSets, Functions

CONSTANTS
  MaxMsgs,     \* bound on the messages of a behaviour
  MaxWriters,  \* bound on the writer tasks of a behaviour
  MaxStreams   \* bound on the streams of a behaviour

ASSUME PoolAssumption == MaxMsgs \in Nat /\ MaxWriters \in Nat /\ MaxStreams \in Nat

Msgs == 1 .. MaxMsgs
Writers == 1 .. MaxWriters
Streams == 1 .. MaxStreams
None == 0

VARIABLES
  sent,      \* messages handed to the pool
  sender,    \* the writer whose channel is the pool's entry, or None
  spawned,   \* writers spawned
  queue,     \* the channel of each writer
  msg,       \* the message each writer is sending, or None
  attempt,   \* the attempt it is at
  stream,    \* its stream_opt
  opened,    \* streams opened
  wire,      \* what each stream has carried to the peer
  broken,    \* streams that have failed in the network
  result     \* what result_tx of each message was given

poolVars == <<sent, sender, spawned>>
netVars == <<opened, wire, broken>>
vars == <<poolVars, queue, msg, attempt, stream, netVars, result>>

Frame == [msg : Msgs, whole : BOOLEAN]

\* All state variables have the shape the code gives them.
TypeOK ==
  /\ sent \in 0 .. MaxMsgs
  /\ spawned \in 0 .. MaxWriters
  /\ sender \in 0 .. spawned
  /\ queue \in [Writers -> Seq(Msgs)]
  /\ msg \in [Writers -> Msgs \cup {None}]
  /\ attempt \in [Writers -> 0 .. 2]
  /\ opened \in 0 .. MaxStreams
  /\ stream \in [Writers -> 0 .. opened]
  /\ wire \in [Streams -> Seq(Frame)]
  /\ broken \subseteq Streams
  /\ result \in [Msgs -> {"none", "ok", "error"}]

Init ==
  /\ sent = 0
  /\ sender = None
  /\ spawned = 0
  /\ queue = [w \in Writers |-> <<>>]
  /\ msg = [w \in Writers |-> None]
  /\ attempt = [w \in Writers |-> 0]
  /\ stream = [w \in Writers |-> None]
  /\ opened = 0
  /\ wire = [s \in Streams |-> <<>>]
  /\ broken = {}
  /\ result = [m \in Msgs |-> "none"]

-----------------------------------------------------------------------------
(* The owner of the pool.                                                  *)

\* get_or_create, and tx.send of the message.  The entry's channel is never closed:
\* its writer ends only after the pool has dropped the entry.
get_or_create_and_send ==
  /\ sent < MaxMsgs
  /\ sent' = sent + 1
  /\ \/ /\ sender # None
        /\ queue' = [queue EXCEPT ![sender] = Append(@, sent')]
        /\ UNCHANGED <<sender, spawned>>
     \/ /\ sender = None
        /\ spawned < MaxWriters
        /\ spawned' = spawned + 1
        /\ sender' = spawned'
        /\ queue' = [queue EXCEPT ![spawned'] = <<sent'>>]
  /\ UNCHANGED <<msg, attempt, stream, netVars, result>>

RemoveSender_Aborts ==
  /\ sender # None
  /\ sender' = None
  /\ queue' = [queue EXCEPT ![sender] = <<>>]
  /\ UNCHANGED <<sent, spawned, msg, attempt, stream, netVars, result>>

\* The command loop drops the entry: the last connection was closed, or a direct
\* one replaces the relayed one.  The writer goes on with what it has.
RemoveSender ==
  /\ sender # None
  /\ sender' = None
  /\ UNCHANGED <<sent, spawned, queue, msg, attempt, stream, netVars, result>>

-----------------------------------------------------------------------------
(* peer_writer_task and send_one_message.                                  *)

\* rx.recv
TakeMsg(w) ==
  /\ msg[w] = None
  /\ queue[w] # <<>>
  /\ msg' = [msg EXCEPT ![w] = Head(queue[w])]
  /\ queue' = [queue EXCEPT ![w] = Tail(@)]
  /\ attempt' = [attempt EXCEPT ![w] = 0]
  /\ UNCHANGED <<poolVars, stream, netVars, result>>

\* send_one_message returns r, and the writer hands it to result_tx.
Report(w, r) ==
  /\ result' = [result EXCEPT ![msg[w]] = r]
  /\ msg' = [msg EXCEPT ![w] = None]
  /\ UNCHANGED attempt

LastAttempt_Late(w) == attempt[w] >= 3
LastAttempt(w) == attempt[w] >= 2

\* A failed attempt is followed by the next one after a sleep, or by the error.
Retry(w) ==
  \/ /\ LastAttempt(w)
     /\ Report(w, "error")
  \/ /\ ~ LastAttempt(w)
     /\ attempt' = [attempt EXCEPT ![w] = @ + 1]
     /\ UNCHANGED <<msg, result>>

OpenStream_Restarts(w) ==
  /\ msg[w] # None
  /\ stream[w] = None
  /\ opened < MaxStreams
  /\ opened' = opened + 1
  /\ stream' = [stream EXCEPT ![w] = opened']
  /\ attempt' = [attempt EXCEPT ![w] = 0]
  /\ UNCHANGED <<poolVars, queue, msg, wire, broken, result>>

OpenStream(w) ==
  /\ msg[w] # None
  /\ stream[w] = None
  /\ opened < MaxStreams
  /\ opened' = opened + 1
  /\ stream' = [stream EXCEPT ![w] = opened']
  /\ UNCHANGED <<poolVars, queue, msg, attempt, wire, broken, result>>

OpenFails(w) ==
  /\ msg[w] # None
  /\ stream[w] = None
  /\ Retry(w)
  /\ UNCHANGED <<poolVars, queue, stream, netVars>>

Put(w, whole) == wire' = [wire EXCEPT ![stream[w]] = Append(@, [msg |-> msg[w], whole |-> whole])]

WriteMessage(w) ==
  /\ msg[w] # None
  /\ stream[w] \notin broken \cup {None}
  /\ Put(w, TRUE)
  /\ Report(w, "ok")
  /\ UNCHANGED <<poolVars, queue, stream, opened, broken>>

DropStream_Reused(w) == UNCHANGED stream
\* The stream of a failed write is not used again.
DropStream(w) == stream' = [stream EXCEPT ![w] = None]

WriteFails(w) ==
  /\ msg[w] # None
  /\ stream[w] # None
  /\ \/ stream[w] \notin broken /\ \E whole \in BOOLEAN : Put(w, whole)
     \/ UNCHANGED wire
  /\ DropStream(w)
  /\ Retry(w)
  /\ UNCHANGED <<poolVars, queue, opened, broken>>

-----------------------------------------------------------------------------
(* The network.                                                            *)

\* A stream fails, and loses some of what the peer has not read.
Break(s) ==
  /\ s <= opened
  /\ s \notin broken
  /\ broken' = broken \cup {s}
  /\ \E n \in 0 .. Len(wire[s]) : wire' = [wire EXCEPT ![s] = SubSeq(@, 1, n)]
  /\ UNCHANGED <<poolVars, queue, msg, attempt, stream, opened, result>>

-----------------------------------------------------------------------------
WriterStep(w) ==
  \/ TakeMsg(w)
  \/ OpenStream(w)
  \/ OpenFails(w)
  \/ WriteMessage(w)
  \/ WriteFails(w)

Next ==
  \/ get_or_create_and_send
  \/ RemoveSender
  \/ \E w \in Writers : WriterStep(w)
  \/ \E s \in Streams : Break(s)

Spec == Init /\ [][Next]_vars

\* A writer is a Tokio task: its opens, writes and sleeps come to an end, and it is
\* scheduled again.
FairSpec == Spec /\ \A w \in Writers : WF_vars(WriterStep(w))

-----------------------------------------------------------------------------
Held(w) == queue[w] \o (IF msg[w] = None THEN <<>> ELSE <<msg[w]>>)

\* A message handed to the pool is owned by exactly one writer until its result is
\* given, through removals of the sender and retries: no send is forgotten, none
\* is attempted by two writers, and none is sent again after its result.
OwnedUntilReported ==
  /\ \A w \in Writers : IsInjective(Held(w))
  /\ \A v, w \in Writers : v # w => Range(Held(v)) \cap Range(Held(w)) = {}
  /\ \A m \in Msgs : (m <= sent /\ result[m] = "none")
                       <=> \E w \in Writers : m \in Range(Held(w))

\* A stream carries whole messages in the order they were handed to the pool, each
\* at most once; only the last may be cut short.  A reader would take the bytes
\* behind a cut message for its missing part: framing rests on dropping the stream
\* of a failed write.
StreamsWellFramed ==
  \A s \in Streams : \A i, j \in DOMAIN wire[s] :
    i < j => wire[s][i].whole /\ wire[s][i].msg < wire[s][j].msg

Copies(m) == {s \in Streams : \E i \in DOMAIN wire[s] : wire[s][i].msg = m}

\* A message whose write failed may have arrived all the same, and is sent again:
\* over all retries it goes on at most three streams, so that the peer handles it at
\* most three times.
BoundedRetries ==
  \A m \in Msgs : Cardinality(Copies(m)) <= 3

\* Every send is reported, so that its operation completes.
SendReported ==
  \A m \in Msgs : sent >= m ~> result[m] # "none"

-----------------------------------------------------------------------------
(* What is said of the pool and does not hold.                             *)

\* All messages to the peer go through one writer at a time.
SingleWriter ==
  Cardinality({w \in Writers : Held(w) # <<>>}) <= 1
=============================================================================
