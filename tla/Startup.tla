------------------------------ MODULE Startup -------------------------------
(***************************************************************************)
(* The life of an endpoint: initialize, with the wait for its listeners,   *)
(* the connection to the relay server and the reservation there, the loss  *)
(* of the relay connection later on, and finalize; composed with the relay *)
(* server and its address file.  What the swarms and the operating system  *)
(* do is external: which address is reported when, whether a dial succeeds *)
(* and whether the relay has room for a reservation.                       *)
(***************************************************************************)
EXTENDS Addressing, RelayServer

CONSTANTS
  Names,     \* protocol names: sequences of parts
  Args       \* command lines of the relay server

\* The ids of the endpoint and of the relay parse, and the length of a circuit
\* address, the longest there is, fits into 16 bits.
ASSUME StartupAssumption == {"self", "relay"} \subseteq PeerIds /\ LengthLimit > 5

VARIABLES
  pc,            \* where initialize is, or what has become of the endpoint
  transport_config,
  listen,
  relay_addr,    \* MERCURY_RELAY_ADDR as initialize read it
  event_fd,      \* "none", "open", "closed"
  resolved,      \* the addresses spawn_swarm_task has collected
  relay_conn,    \* the connection to the relay
  reservation,
  self_addr,
  listen_addrs

initVars == <<transport_config, listen, relay_addr>>
linkVars == <<relay_conn, reservation>>
classVars == <<self_addr, listen_addrs>>
vars == <<relayVars, pc, initVars, event_fd, resolved, linkVars, classVars>>

\* Values of MERCURY_RELAY_ADDR besides the address file of the relay.
Invalid == <<<<"bad", "">>>>
NoPeerId == ListenAddr("eth")
EnvValues == {NoMultiaddr, Invalid, NoPeerId} \cup {addr_file}

\* The listeners: one for each transport, on all interfaces or on loopback.
Listeners == {t \in {"tcp", "quic"} : transport_config[t]}
OwnInterfaces == IF listen THEN {"lo", "eth"} ELSE {"lo"}
Direct(t, i) == IF t = "tcp" THEN <<<<"ip4", i>>, <<"tcp", "">>>>
                             ELSE <<<<"ip4", i>>, <<"udp", "">>, <<"quic-v1", "">>>>
\* A circuit address ends with the peer that listens on it.
Circuit(ma) == FullAddr(ma) \o <<<<"p2p-circuit", "">>, <<"p2p", "self">>>>

Initializing == {"listening", "dialing", "reserving"}
NoAddr == [peer_id |-> "self", multiaddr |-> NoMultiaddr, is_self |-> TRUE]

\* All state variables have the shape the code gives them.
TypeOK ==
  /\ RelayTypeOK
  /\ pc \in {"idle", "ready", "failed", "aborted", "finalized"} \cup Initializing
  /\ transport_config \in [tcp : BOOLEAN, quic : BOOLEAN, relay : BOOLEAN, priority : {"tcp", "quic"}]
  /\ listen \in BOOLEAN
  /\ relay_addr = Invalid \/ IsMultiaddr(relay_addr)
  /\ event_fd \in {"none", "open", "closed"}
  /\ \A i \in DOMAIN resolved : resolved[i] # NoMultiaddr /\ IsMultiaddr(resolved[i])
  /\ relay_conn \in {"none", "dialing", "up", "down"}
  /\ reservation \in {"none", "requested", "held", "no_addresses", "full", "lost"}
  /\ self_addr.peer_id = "self" /\ self_addr.is_self /\ IsMultiaddr(self_addr.multiaddr)
  /\ Len(listen_addrs) <= Len(resolved)

Init ==
  /\ RelayInit
  /\ pc = "idle"
  /\ transport_config = ParseTransportConfig(<<>>)
  /\ listen = FALSE
  /\ relay_addr = NoMultiaddr
  /\ event_fd = "none"
  /\ resolved = <<>>
  /\ relay_conn = "none" /\ reservation = "none"
  /\ self_addr = NoAddr /\ listen_addrs = <<>>

-----------------------------------------------------------------------------
(* initialize.                                                             *)

\* The early returns of initialize and its way to the wait for the listeners.
Initialize(name, l, env) ==
  LET config == ParseTransportConfig(name) IN
  /\ pc = "idle"
  /\ CheckProtocol(name) \/ name = <<>>
  /\ transport_config' = config
  /\ listen' = l
  /\ \/ pc' = "failed" /\ UNCHANGED <<event_fd, relay_addr>>       \* no runtime
     \/ /\ event_fd' = "open"
        /\ relay_addr' = IF config.relay THEN env ELSE NoMultiaddr
        /\ pc' = IF IsMultiaddr(relay_addr') THEN "listening" ELSE "failed"
  /\ UNCHANGED <<relayVars, resolved, linkVars, classVars>>

\* spawn_swarm_task returned an error: initialize closes the eventfd.
SpawnFails_Open ==
  /\ pc' = "failed"
  /\ UNCHANGED event_fd
SpawnFails ==
  /\ pc' = "failed"
  /\ event_fd' = "closed"

\* spawn_swarm_task returned the addresses: what initialize keeps of them.
Succeed(addrs) ==
  /\ pc' = "ready"
  /\ self_addr' = [NoAddr EXCEPT !.multiaddr = ResolveSelfMultiaddr(addrs, transport_config.priority)]
  /\ listen_addrs' = [i \in DOMAIN addrs |-> ResolveMultiaddr(addrs[i])]

\* The swarm cannot be built or cannot listen.
ListenFails ==
  /\ pc = "listening"
  /\ resolved = <<>>
  /\ SpawnFails
  /\ UNCHANGED <<relayVars, initVars, resolved, linkVars, classVars>>

\* Has every listener reported an address?
AllSeen(addrs) == \A t \in Listeners : Listed(addrs, t)

\* extract_peer_id_from_multiaddr; without it expect() ends the process.
HasPeerId(ma) == Any(ma, "p2p")

NewListenAddr(t, i) ==
  LET addrs == Append(resolved, Direct(t, i)) IN
  /\ pc \in Initializing
  /\ t \in Listeners /\ i \in OwnInterfaces
  /\ \A k \in DOMAIN resolved : resolved[k] # Direct(t, i)
  /\ resolved' = addrs
  /\ IF pc # "listening" \/ ~ AllSeen(addrs) THEN UNCHANGED <<pc, relay_conn, classVars>>
     ELSE IF relay_addr = NoMultiaddr THEN Succeed(addrs) /\ UNCHANGED relay_conn
     ELSE IF ~ HasPeerId(relay_addr) THEN pc' = "aborted" /\ UNCHANGED <<relay_conn, classVars>>
     ELSE pc' = "dialing" /\ relay_conn' = "dialing" /\ UNCHANGED classVars
  /\ UNCHANGED <<relayVars, initVars, event_fd, reservation>>

\* ConnectionEstablished, and the request for a reservation.  The relay listens
\* on tcp only, and an endpoint without tcp cannot dial it.
RelayConnected ==
  /\ pc = "dialing"
  /\ relay = "up" /\ "tcp" \in Listeners
  /\ pc' = "reserving"
  /\ relay_conn' = "up"
  /\ reservation' = "requested"
  /\ UNCHANGED <<relayVars, initVars, event_fd, resolved, classVars>>

\* OutgoingConnectionError.
RelayUnreachable ==
  /\ pc = "dialing"
  /\ SpawnFails
  /\ relay_conn' = "down"
  /\ UNCHANGED <<relayVars, initVars, resolved, reservation, classVars>>

\* The relay answers the request: it refuses it without an external address to
\* offer, or when it has no room.
AnswerReservation ==
  /\ reservation = "requested"
  /\ relay = "up" /\ relay_conn = "up"
  /\ reservation' \in (IF external = {} THEN {"no_addresses"} ELSE {"held", "full"})
  /\ UNCHANGED <<relayVars, pc, initVars, event_fd, resolved, relay_conn, classVars>>

\* NewListenAddr for the reservation: an external address of the relay, continued
\* by the circuit.
CircuitListenAddr(ma) ==
  LET addrs == Append(resolved, Circuit(ma)) IN
  /\ pc = "reserving"
  /\ reservation = "held"
  /\ resolved' = addrs
  /\ Succeed(addrs)
  /\ UNCHANGED <<relayVars, initVars, event_fd, linkVars>>

\* ConnectionClosed for the relay.  The command loop dials it again; a wait in
\* spawn_swarm_task ignores the event.
RelayConnectionClosed ==
  /\ relay_conn = "up"
  /\ pc \in {"reserving", "ready"}
  /\ relay_conn' = IF pc = "ready" THEN "dialing" ELSE "down"
  /\ reservation' = "lost"
  /\ UNCHANGED <<relayVars, pc, initVars, event_fd, resolved, classVars>>

\* The result of dialing again; no reservation is asked for.
RelayRedialed ==
  /\ pc = "ready"
  /\ relay_conn = "dialing"
  /\ relay_conn' \in (IF relay = "up" THEN {"up", "down"} ELSE {"down"})
  /\ UNCHANGED <<relayVars, pc, initVars, event_fd, resolved, reservation, classVars>>

\* finalize: the loop has ended when the eventfd is closed.
Finalize ==
  /\ pc = "ready"
  /\ pc' = "finalized"
  /\ event_fd' = "closed"
  /\ relay_conn' = "none" /\ reservation' = "none"
  /\ UNCHANGED <<relayVars, initVars, resolved, classVars>>

-----------------------------------------------------------------------------
ListenStep == ListenFails \/ \E t \in {"tcp", "quic"}, i \in {"lo", "eth"} : NewListenAddr(t, i)
DialStep == RelayConnected \/ RelayUnreachable

Node ==
  \/ \E name \in Names, l \in BOOLEAN : \E env \in EnvValues : Initialize(name, l, env)
  \/ ListenStep
  \/ DialStep
  \/ AnswerReservation
  \/ \E ma \in external : CircuitListenAddr(ma)
  \/ RelayConnectionClosed
  \/ RelayRedialed
  \/ Finalize

RelayProgram ==
  \/ \E args \in Args : RelayMain(args)
  \/ \E i \in Interfaces : RelayNewListenAddr(i)
  \/ relay_conn = "up" /\ RelayIdentify(SubSeq(relay_addr, 1, 2))
  \/ RelayShutdown

Next ==
  \/ Node
  \/ RelayProgram /\ UNCHANGED <<pc, initVars, event_fd, resolved, linkVars, classVars>>

Spec == Init /\ [][Next]_vars

\* The operating system reports every listener or its failure, a dial ends, a
\* request is answered, and the addresses of a reservation are reported; a
\* connection to a relay that has exited is closed.
Fairness ==
  /\ WF_vars(ListenStep)
  /\ WF_vars(DialStep)
  /\ WF_vars(AnswerReservation)
  /\ WF_vars(\E ma \in external : CircuitListenAddr(ma))
  /\ WF_vars(relay = "exited" /\ RelayConnectionClosed)
FairSpec == Spec /\ Fairness

-----------------------------------------------------------------------------
\* An initialize that failed and an endpoint that was finalized leave no eventfd
\* open, except when MERCURY_RELAY_ADDR does not parse: that early return comes
\* after create_eventfd and does not close it.
FdReleased ==
  pc \in {"failed", "finalized"} => event_fd # "open" \/ relay_addr = Invalid

\* The self-address is never a circuit address, although circuit addresses
\* contain the components of the transport below them, and it belongs to the
\* priority transport whenever that is enabled; in whatever order the listeners
\* and the relay report.
SelfAddrFollowsPriority ==
  pc = "ready" =>
    /\ ~ Any(self_addr.multiaddr, "p2p-circuit")
    /\ transport_config[transport_config.priority]
         => Any(self_addr.multiaddr, Marker(transport_config.priority))

Texts == {"", "tcp", "quic", "relay", "tcp,relay"}
\* The call of a user who asks for the size first and again if it was too small.
ShownWith(text) ==
  LET addr == AddrSelf(self_addr)
      first == AddrToString(addr, NullBuffer, 0, listen_addrs)
      second == AddrToString(addr, text, first.buf_size, listen_addrs)
  IN IF second.ret = "SUCCESS" THEN second
     ELSE AddrToString(addr, text, second.buf_size, listen_addrs)

\* addr_to_string gives the address of the transport that the hint names if there
\* is one, the second attempt has room for it, and a buffer that is used again,
\* when the last string has become the hint, gets the same string.
HintStable ==
  pc = "ready" =>
    \A text \in Texts :
      /\ ShownWith(text).ret = "SUCCESS"
      /\ ShownWith(ShownWith(text).buf.prefix).buf = ShownWith(text).buf
      /\ ReadTransportHint(text) # "none" /\ Listed(listen_addrs, ReadTransportHint(text))
           => ShownWith(text).buf.prefix = ReadTransportHint(text)

\* A string that an endpoint shows is looked up by a peer as the same address, by
\* the way its transport needs, and serialization fits into the size it asks for
\* and keeps the address; peers that got it either way compare it as equal, and
\* the endpoint itself recognizes it as its own.
RoundTrip ==
  pc = "ready" =>
    \A text \in Texts :
      LET s == ShownWith(text).buf
          found == AddrLookup(s)
          dup == AddrDup(found.addr)
          bytes == AddrSerialize(dup, AddrGetSerializeSize(dup))
          copy == AddrDeserialize(bytes.buf)
      IN /\ found.ret = "SUCCESS"
         /\ ResolveMultiaddr(found.addr.multiaddr) = found.addr.multiaddr
         /\ \E i \in DOMAIN listen_addrs : found.addr.multiaddr = listen_addrs[i]
         /\ found.command = (IF Any(found.addr.multiaddr, "p2p-circuit")
                             THEN "ConnectViaRelay" ELSE "AddKnownAddr")
         /\ bytes.ret = "SUCCESS"
         /\ copy.ret = "SUCCESS" /\ copy.addr = found.addr
         /\ AddrCmp(copy.addr, found.addr) /\ AddrIsSelf(copy.addr, self_addr)

\* An endpoint that is configured from the address file and reaches the relay
\* finds it able to grant the reservation, so that initialize returns or aborts
\* unless the relay has no room or the connection is lost meanwhile: the one wait
\* that no event can end.
InitializeReturns ==
  pc \in Initializing ~> pc \notin Initializing \/ reservation \in {"full", "lost"}
=============================================================================
