----------------------------- MODULE RmaMemory ------------------------------
(***************************************************************************)
(* Remote memory access between processes: the memory handles Mercury      *)
(* creates, serializes and frees, the registry (mem_handles) in which the  *)
(* async side finds the buffer of a handle, and the puts, get requests and *)
(* answers that travel through the two sender pools of a process and the   *)
(* streams they feed, down to the cells the handlers copy.                 *)
(*                                                                         *)
(* A link <<p, q, pool>> is the way from p to q through one pool of p: the *)
(* channel of its writer task, the stream, and the task of q that reads    *)
(* it.  A stream carries headers and, behind each, the cells of a payload. *)
(* It takes Window messages before a write has to wait (flow control).     *)
(* How a stream fails under a write and is replaced is SenderPool's; here  *)
(* it fails when its reader gives it up.                                   *)
(***************************************************************************)
EXTENDS Naturals, Sequences, FiniteSets, Functions

CONSTANTS
  Procs,
  NoProc,         \* no owner: the handle was created here
  HeapSize,       \* cells of each process
  Buffers,        \* the buffers a user registers
  PayloadLimit,   \* 2^32: payload_size has 32 bits
  Window,         \* messages a stream takes before a write waits
  AnswerMayFail,  \* may the write of an answer be reported as failed?
  Workloads       \* what the users of a behaviour do: see Workload

Cells == 0 .. HeapSize - 1
Buffer == [buf : Cells, buf_size : 1 .. HeapSize]

\* At most handles[p] creations, frees[p] frees and ops[p] operations of the
\* given types at each process; a span is a remote offset, a local offset and a
\* length.
Workload == [handles : [Procs -> Nat], frees : [Procs -> Nat], ops : [Procs -> Nat],
             types : SUBSET {"put", "get", "cancel"}, spans : SUBSET (Nat \X Nat \X Nat)]

ASSUME MemoryAssumption ==
  /\ NoProc \notin Procs
  /\ HeapSize \in Nat \ {0}
  /\ Buffers \subseteq Buffer
  /\ \A b \in Buffers : b.buf + b.buf_size <= HeapSize
  /\ PayloadLimit \in Nat \ {0}
  /\ Window \in Nat \ {0}
  /\ AnswerMayFail \in BOOLEAN
  /\ \A w \in Workloads : \A s \in w.spans : s \in Nat \X Nat \X Nat /\ s[3] < PayloadLimit

VARIABLES
  load,             \* the workload of this behaviour
  next_handle_id,   \* the counter of each process
  frees,            \* frees each user has made
  handles,          \* the NaLibp2pMemHandles each user holds
  mem_handles,      \* the registry of each process
  heap,             \* for every cell the put that wrote it
  issued,           \* the puts and gets of each process, in order
  pending_rma_ops,  \* the gets that wait for an answer
  queue,            \* the channel of each link's writer
  stream,           \* what has been written and not yet read
  reader,           \* the task that reads the stream
  lost              \* messages of streams that their reader gave up

handleVars == <<next_handle_id, frees, handles, mem_handles>>
linkVars == <<queue, stream, reader, lost>>
vars == <<load, handleVars, heap, issued, pending_rma_ops, linkVars>>

Pools == {"cmd", "resp"}
Links == Procs \X Procs \X Pools
From(c) == c[1]
To(c) == c[2]

OpNums == Procs \X (Nat \ {0})
Unwritten == <<NoProc, 0>>
Value == OpNums \cup {Unwritten}

\* A WireHeader, and the operation it belongs to, which is not on the wire.
Header == [msg_type : {"RmaPut", "RmaGetReq", "RmaGetResp"}, payload_size : Nat,
           source_peer_id : Procs, handle_id : Nat, offset : Nat, rma_length : Nat,
           local_handle_id : Nat, local_offset : Nat, op : OpNums]
OutboundMsg == [header : Header, payload : Seq(Value)]
Unit == [kind : {"header"}, header : Header] \cup [kind : {"cell"}, value : Value]

MemHandle == [handle_id : Nat \ {0}, owner_peer_id : Procs \cup {NoProc}, buf : Nat, buf_size : Nat]
RmaOp == [type : {"put", "get"}, to : Procs, handle_id : Nat, offset : Nat, length : Nat,
          local_handle_id : Nat, local_offset : Nat]

\* All state variables have the shape the code gives them.
TypeOK ==
  /\ load \in Workloads
  /\ next_handle_id \in [Procs -> Nat \ {0}]
  /\ frees \in [Procs -> Nat]
  /\ handles \in [Procs -> SUBSET MemHandle]
  /\ DOMAIN mem_handles = Procs
  /\ \A p \in Procs : mem_handles[p] \in [DOMAIN mem_handles[p] -> Buffers]
  /\ heap \in [Procs -> [Cells -> Value]]
  /\ issued \in [Procs -> Seq(RmaOp)]
  /\ pending_rma_ops \in [Procs -> Seq(Nat \ {0})]
  /\ queue \in [Links -> Seq(OutboundMsg)]
  /\ stream \in [Links -> Seq(Unit)]
  /\ reader \in [Links -> {"reading", "answering", "ended"}]
  /\ lost \subseteq OpNums

Init ==
  /\ load \in Workloads
  /\ next_handle_id = [p \in Procs |-> 1]
  /\ frees = [p \in Procs |-> 0]
  /\ handles = [p \in Procs |-> {}]
  /\ mem_handles = [p \in Procs |-> <<>>]
  /\ heap = [p \in Procs |-> [a \in Cells |-> Unwritten]]
  /\ issued = [p \in Procs |-> <<>>]
  /\ pending_rma_ops = [p \in Procs |-> <<>>]
  /\ queue = [c \in Links |-> <<>>]
  /\ stream = [c \in Links |-> <<>>]
  /\ reader = [c \in Links |-> "reading"]
  /\ lost = {}

-----------------------------------------------------------------------------
(* Memory handles.                                                         *)

IsLocal(h) == h.owner_peer_id = NoProc

\* The id of a new handle: fetch_add on the counter.
HandleId_Reused(p) == CHOOSE i \in 1 .. next_handle_id[p] :
                        i \notin DOMAIN mem_handles[p] /\ \A j \in 1 .. i - 1 : j \in DOMAIN mem_handles[p]
HandleId_FromZero(p) == next_handle_id[p] - 1
HandleId(p) == next_handle_id[p]

MemHandleCreate(p, b) ==
  LET id == HandleId(p) IN
  /\ next_handle_id[p] <= load.handles[p]
  /\ next_handle_id' = [next_handle_id EXCEPT ![p] = @ + 1]
  /\ handles' = [handles EXCEPT ![p] = @ \cup {[handle_id |-> id, owner_peer_id |-> NoProc,
                                                buf |-> b.buf, buf_size |-> b.buf_size]}]
  /\ mem_handles' = [mem_handles EXCEPT ![p] =
                       [i \in DOMAIN mem_handles[p] \cup {id} |->
                          IF i = id THEN b ELSE mem_handles[p][i]]]
  /\ UNCHANGED <<load, frees, heap, issued, pending_rma_ops, linkVars>>

\* What mem_handle_free leaves of the registry.
Unregister_AnyOwner(registry, h) == Restrict(registry, DOMAIN registry \ {h.handle_id})
Unregister(registry, h) ==
  IF IsLocal(h) THEN Restrict(registry, DOMAIN registry \ {h.handle_id}) ELSE registry

MemHandleFree(p, h) ==
  /\ frees[p] < load.frees[p]
  /\ h \in handles[p]
  /\ frees' = [frees EXCEPT ![p] = @ + 1]
  /\ handles' = [handles EXCEPT ![p] = @ \ {h}]
  /\ mem_handles' = [mem_handles EXCEPT ![p] = Unregister(@, h)]
  /\ UNCHANGED <<load, next_handle_id, heap, issued, pending_rma_ops, linkVars>>

\* mem_handle_serialize: what p writes of handle h.
Serialized_Self(p, h) ==
  [handle_id |-> h.handle_id, buf_size |-> h.buf_size, peer_id |-> p]
Serialized(p, h) ==
  [handle_id |-> h.handle_id, buf_size |-> h.buf_size,
   peer_id |-> IF IsLocal(h) THEN p ELSE h.owner_peer_id]

\* mem_handle_deserialize: a handle without local memory.
Deserialized(s) ==
  [handle_id |-> s.handle_id, owner_peer_id |-> s.peer_id, buf |-> 0, buf_size |-> s.buf_size]

\* p serializes h and q deserializes what it was sent.  Neither changes any other
\* state, so that a copy made later than the free of h is no different.
ShareHandle(p, q, h) ==
  /\ p # q
  /\ h \in handles[p]
  /\ handles' = [handles EXCEPT ![q] = @ \cup {Deserialized(Serialized(p, h))}]
  /\ UNCHANGED <<load, next_handle_id, frees, mem_handles, heap, issued, pending_rma_ops, linkVars>>

-----------------------------------------------------------------------------
(* Puts and gets.  The command loop hands each command to the writer of its *)
(* peer in the order of the calls, so its channel is left out.             *)

\* The 32 bits of payload_size.
PayloadSize_Short(payload) == Len(payload) % 2
PayloadSize(payload) == Len(payload) % PayloadLimit

\* The pool that carries a message: answers have one of their own.
PoolFor_Shared(msg_type) == "cmd"
PoolFor_ByPayload(msg_type) == IF msg_type = "RmaGetReq" THEN "cmd" ELSE "resp"
PoolFor(msg_type) == IF msg_type = "RmaGetResp" THEN "resp" ELSE "cmd"

Enqueue(p, q, msg) ==
  queue' = [queue EXCEPT ![<<p, q, PoolFor(msg.header.msg_type)>>] = Append(@, msg)]

NextOp(p) == <<p, Len(issued[p]) + 1>>

Post(p, o) ==
  /\ Len(issued[p]) < load.ops[p]
  /\ o.type \in load.types
  /\ o.to \notin {p, NoProc}
  /\ issued' = [issued EXCEPT ![p] = Append(@, o)]

Request(p, msg_type, o, data) ==
  [header |-> [msg_type |-> msg_type, payload_size |-> PayloadSize(data), source_peer_id |-> p,
               handle_id |-> o.handle_id, offset |-> o.offset, rma_length |-> o.length,
               local_handle_id |-> o.local_handle_id, local_offset |-> o.local_offset,
               op |-> NextOp(p)],
   payload |-> data]

\* The remote handle is one that the user deserialized.  The data is copied
\* before put returns; a cell of it is told apart by the put.
Put(p, h, span) ==
  LET o == [type |-> "put", to |-> h.owner_peer_id, handle_id |-> h.handle_id,
            offset |-> span[1], length |-> span[3], local_handle_id |-> 0, local_offset |-> 0]
  IN
  /\ h \in handles[p]
  /\ Post(p, o)
  /\ Enqueue(p, o.to, Request(p, "RmaPut", o, [i \in 1 .. o.length |-> NextOp(p)]))
  /\ UNCHANGED <<load, handleVars, heap, pending_rma_ops, stream, reader, lost>>

Get(p, h, lh, span) ==
  LET o == [type |-> "get", to |-> h.owner_peer_id, handle_id |-> h.handle_id,
            offset |-> span[1], length |-> span[3],
            local_handle_id |-> lh.handle_id, local_offset |-> span[2]]
  IN
  /\ h \in handles[p]
  /\ lh \in handles[p] /\ IsLocal(lh)
  /\ Post(p, o)
  /\ pending_rma_ops' = [pending_rma_ops EXCEPT ![p] = Append(@, NextOp(p)[2])]
  /\ Enqueue(p, o.to, Request(p, "RmaGetReq", o, <<>>))
  /\ UNCHANGED <<load, handleVars, heap, stream, reader, lost>>

-----------------------------------------------------------------------------
(* Writers and readers.                                                    *)

\* What write_message puts on the stream.
Encoded(msg) ==
  <<[kind |-> "header", header |-> msg.header]>>
    \o [i \in DOMAIN msg.payload |-> [kind |-> "cell", value |-> msg.payload[i]]]

HeadersOf(units) == {u.header : u \in {v \in Range(units) : v.kind = "header"}}
HasRoom(c) == Cardinality({i \in DOMAIN stream[c] : stream[c][i].kind = "header"}) < Window

\* The result of the write is reported: a reader that waits for its answer to be
\* written goes on reading.
AnswerReported(c, msg, then) ==
  IF msg.header.msg_type = "RmaGetResp" THEN [reader EXCEPT ![<<To(c), From(c), "cmd">>] = then]
                                        ELSE reader

WriteMessage(c) ==
  LET msg == Head(queue[c]) IN
  /\ queue[c] # <<>>
  /\ reader[c] # "ended"
  /\ HasRoom(c)
  /\ queue' = [queue EXCEPT ![c] = Tail(@)]
  /\ stream' = [stream EXCEPT ![c] = @ \o Encoded(msg)]
  /\ reader' = AnswerReported(c, msg, "reading")
  /\ UNCHANGED <<load, handleVars, heap, issued, pending_rma_ops, lost>>

\* The reader of the stream has dropped it: the write fails and is repeated on a
\* new stream, or it comes too early to fail and the message is lost.
WriteAfterEnd(c) ==
  LET msg == Head(queue[c]) IN
  /\ queue[c] # <<>>
  /\ reader[c] = "ended"
  /\ queue' = [queue EXCEPT ![c] = Tail(@)]
  /\ \/ /\ stream' = [stream EXCEPT ![c] = Encoded(msg)]
        /\ reader' = [reader EXCEPT ![c] = "reading"]
        /\ UNCHANGED lost
     \/ /\ lost' = lost \cup {msg.header.op}
        /\ UNCHANGED <<stream, reader>>
  /\ UNCHANGED <<load, handleVars, heap, issued, pending_rma_ops>>

\* The answer could not be written: its reader returns the error and drops the
\* stream with all that is left in it.
AnswerFails(c) ==
  LET msg == Head(queue[c])
      requests == <<To(c), From(c), "cmd">>
  IN
  /\ AnswerMayFail
  /\ queue[c] # <<>>
  /\ msg.header.msg_type = "RmaGetResp"
  /\ queue' = [queue EXCEPT ![c] = Tail(@)]
  /\ reader' = AnswerReported(c, msg, "ended")
  /\ stream' = [stream EXCEPT ![requests] = <<>>]
  /\ lost' = lost \cup {h.op : h \in HeadersOf(stream[requests])}
  /\ UNCHANGED <<load, handleVars, heap, issued, pending_rma_ops>>

\* read_message: the header, then payload_size cells.
Incoming(c) == Head(stream[c]).header
PayloadOf(c) == [i \in 1 .. Incoming(c).payload_size |-> stream[c][i + 1].value]
ReadMessage(c, msg_type) ==
  /\ reader[c] = "reading"
  /\ stream[c] # <<>>
  /\ Head(stream[c]).kind = "header"
  /\ Incoming(c).msg_type = msg_type
  /\ stream' = [stream EXCEPT ![c] = SubSeq(@, Incoming(c).payload_size + 2, Len(@))]

\* How much of n cells fits behind offset in a buffer: min and saturating_sub.
CopyLen_NoOffset(n, offset, size) == IF n < size THEN n ELSE size
CopyLen(n, offset, size) ==
  IF offset >= size THEN 0 ELSE IF n < size - offset THEN n ELSE size - offset

\* copy_nonoverlapping of data to the buffer at offset.
Copied(cells, entry, offset, data) ==
  LET to == entry.buf + offset
      len == CopyLen(Len(data), offset, entry.buf_size)
  IN [a \in Cells |-> IF to <= a /\ a < to + len THEN data[a - to + 1] ELSE cells[a]]

HandleRmaPut(c) ==
  LET q == To(c)
      m == Incoming(c)
  IN
  /\ ReadMessage(c, "RmaPut")
  /\ heap' = [heap EXCEPT ![q] = IF m.handle_id \in DOMAIN mem_handles[q]
                                 THEN Copied(@, mem_handles[q][m.handle_id], m.offset, PayloadOf(c))
                                 ELSE @]
  /\ UNCHANGED <<load, handleVars, issued, pending_rma_ops, queue, reader, lost>>

Answer(q, m, data) ==
  [header |-> [msg_type |-> "RmaGetResp", payload_size |-> PayloadSize(data), source_peer_id |-> q,
               handle_id |-> m.handle_id, offset |-> m.offset, rma_length |-> Len(data),
               local_handle_id |-> m.local_handle_id, local_offset |-> m.local_offset, op |-> m.op],
   payload |-> data]

\* A handle that is not registered gets no answer.
HandleRmaGetRequest(c) ==
  LET q == To(c)
      m == Incoming(c)
      entry == mem_handles[q][m.handle_id]
      data == [i \in 1 .. CopyLen(m.rma_length, m.offset, entry.buf_size) |->
                 heap[q][entry.buf + m.offset + i - 1]]
  IN
  /\ ReadMessage(c, "RmaGetReq")
  /\ \/ /\ m.handle_id \in DOMAIN mem_handles[q]
        /\ Enqueue(q, m.source_peer_id, Answer(q, m, data))
        /\ reader' = [reader EXCEPT ![c] = "answering"]
     \/ /\ m.handle_id \notin DOMAIN mem_handles[q]
        /\ UNCHANGED <<queue, reader>>
  /\ UNCHANGED <<load, handleVars, heap, issued, pending_rma_ops, lost>>

\* The pending gets of p that an answer matches.
Matching(p, m) ==
  {i \in DOMAIN pending_rma_ops[p] :
     LET o == issued[p][pending_rma_ops[p][i]] IN
     o.local_handle_id = m.local_handle_id /\ o.local_offset = m.local_offset}
Without(s, i) == SubSeq(s, 1, i - 1) \o SubSeq(s, i + 1, Len(s))

HandleRmaGetResponse(c) ==
  LET p == To(c)
      m == Incoming(c)
  IN
  /\ ReadMessage(c, "RmaGetResp")
  /\ \/ \E i \in Matching(p, m) :
          /\ \A j \in Matching(p, m) : i <= j
          /\ pending_rma_ops' = [pending_rma_ops EXCEPT ![p] = Without(@, i)]
          /\ heap' = [heap EXCEPT ![p] =
                        IF m.local_handle_id \in DOMAIN mem_handles[p]
                        THEN Copied(@, mem_handles[p][m.local_handle_id], m.local_offset, PayloadOf(c))
                        ELSE @]
     \/ /\ Matching(p, m) = {}
        /\ UNCHANGED <<pending_rma_ops, heap>>
  /\ UNCHANGED <<load, handleVars, issued, queue, reader, lost>>

\* cancel takes a get off the queue; its answer may still come.
CancelGet(p) ==
  /\ "cancel" \in load.types
  /\ \E i \in DOMAIN pending_rma_ops[p] :
       pending_rma_ops' = [pending_rma_ops EXCEPT ![p] = Without(@, i)]
  /\ UNCHANGED <<load, handleVars, heap, issued, linkVars>>

-----------------------------------------------------------------------------
User(p) ==
  \/ \E b \in Buffers : MemHandleCreate(p, b)
  \/ \E h \in handles[p] :
       \/ MemHandleFree(p, h)
       \/ \E q \in Procs : ShareHandle(p, q, h)
       \/ \E span \in load.spans : Put(p, h, span) \/ \E lh \in handles[p] : Get(p, h, lh, span)
  \/ CancelGet(p)

Write(c) == WriteMessage(c) \/ WriteAfterEnd(c) \/ AnswerFails(c)
Read(c) == HandleRmaPut(c) \/ HandleRmaGetRequest(c) \/ HandleRmaGetResponse(c)

Next ==
  \/ \E p \in Procs : User(p)
  \/ \E c \in Links : Write(c) \/ Read(c)

Spec == Init /\ [][Next]_vars

\* Tokio runs every writer and every reader that can go on.
Fairness == \A c \in Links : WF_vars(Write(c)) /\ WF_vars(Read(c))
FairSpec == Spec /\ Fairness

-----------------------------------------------------------------------------
\* A buffer is registered exactly as long as its user holds the handle created
\* for it, under the id and with the bounds of that handle, whatever handles of
\* other processes with the same id are freed meanwhile.
RegisteredIffHeld ==
  \A p \in Procs :
    /\ DOMAIN mem_handles[p] = {h.handle_id : h \in {g \in handles[p] : IsLocal(g)}}
    /\ \A h \in handles[p] :
         IsLocal(h) => mem_handles[p][h.handle_id] = [buf |-> h.buf, buf_size |-> h.buf_size]

\* A handle that was serialized, passed on and serialized again still designates
\* the buffer it was made for: if its owner has that id registered, it is with the
\* size the handle carries.
HandleDesignatesOwner ==
  \A p \in Procs : \A h \in handles[p] :
    ~ IsLocal(h) /\ h.handle_id \in DOMAIN mem_handles[h.owner_peer_id]
      => mem_handles[h.owner_peer_id][h.handle_id].buf_size = h.buf_size

Region(b) == b.buf .. b.buf + b.buf_size - 1

\* Remote memory access writes only to cells of a buffer that is registered at
\* that moment, whatever offsets and lengths the messages carry and however late
\* they are.
WritesInRegion ==
  [][\A p \in Procs : \A a \in Cells :
       heap'[p][a] # heap[p][a] =>
         \E id \in DOMAIN mem_handles[p] : a \in Region(mem_handles[p][id])]_vars

Messages(c) == {m.header : m \in Range(queue[c])} \cup HeadersOf(stream[c])

\* The ids some handle or message designates at p.
Designated(p) ==
  {h.handle_id : h \in {g \in UNION {handles[q] : q \in Procs} : g.owner_peer_id = p}}
    \cup {m.handle_id : m \in UNION {Messages(<<q, p, "cmd">>) : q \in Procs}}

\* An id that is registered anew is not designated by anything that is still
\* around from an earlier registration, so that no late put reaches the new buffer.
FreshIds ==
  [][\A p \in Procs :
       (DOMAIN mem_handles'[p] \ DOMAIN mem_handles[p]) \cap Designated(p) = {}]_vars

\* Every stream is a sequence of whole messages, each with the number of cells its
\* header announces, so that a reader never takes a payload for a header.
Framed(units) ==
  /\ units # <<>> => units[1].kind = "header"
  /\ \A i \in DOMAIN units : units[i].kind = "header" =>
       LET n == units[i].header.payload_size IN
       /\ i + n <= Len(units)
       /\ \A j \in i + 1 .. i + n : units[j].kind = "cell"
       /\ i + n < Len(units) => units[i + n + 1].kind = "header"
StreamsFramed == \A c \in Links : Framed(stream[c])

Answers == UNION {Range(queue[c]) : c \in Links}

\* Nothing but puts has written to the memory of q: its gets still wait for an
\* answer.
OnlyPutTo(q) ==
  \A n \in DOMAIN issued[q] : issued[q][n].type = "get" => n \in Range(pending_rma_ops[q])

\* A get sees the puts its process made before it to the same handle: the data of
\* its answer is not older than any of them, unless the put was lost with a stream
\* whose reader gave up, or the owner of the buffer has been reading into its own
\* memory with gets, which may bring older data back.
ReadsOwnPuts ==
  \A msg \in {m \in Answers : m.header.msg_type = "RmaGetResp"} :
    LET p == msg.header.op[1]
        g == issued[p][msg.header.op[2]]
    IN \A k \in 1 .. msg.header.op[2] - 1, i \in DOMAIN msg.payload :
         LET o == issued[p][k]
             at == g.offset + i - 1
         IN /\ o.type = "put" /\ o.to = g.to /\ o.handle_id = g.handle_id
            /\ o.offset <= at /\ at < o.offset + o.length
            /\ <<p, k>> \notin lost
            /\ OnlyPutTo(g.to)
            => msg.payload[i] # Unwritten /\ (msg.payload[i][1] = p => msg.payload[i][2] >= k)

InFlight == UNION {{m.op : m \in Messages(c)} : c \in Links}

\* Every put, request and answer is taken off its channel and its stream, however
\* many of them fill the streams in both directions.
MessagesHandled == InFlight # {} ~> InFlight = {}
=============================================================================
