----------------------------- MODULE Addressing -----------------------------
(***************************************************************************)
(* Addresses and transport configuration: how a protocol name becomes a    *)
(* TransportConfig, which listen address an endpoint shows as its own, and *)
(* how an address is turned into a string or a byte sequence and back.     *)
(*                                                                         *)
(* A multiaddr is a sequence of components <<protocol, argument>>, without *)
(* ports.  A string is its prefix, up to the colon, and the components of  *)
(* the rest.  A protocol name is the sequence of its comma-separated       *)
(* parts, <<>> when Mercury gives none.  Lengths count components.         *)
(***************************************************************************)
EXTENDS Naturals, Sequences

CONSTANTS
  PeerIds,       \* what parses as a peer id
  LengthLimit    \* 2^16: a serialized length has 16 bits

ASSUME AddressingAssumption == LengthLimit \in Nat \ {0}

NoMultiaddr == <<>>

\* What parses as a multiaddr.
IsMultiaddr(ma) ==
  \A i \in DOMAIN ma :
    /\ ma[i][1] \in {"ip4", "tcp", "udp", "quic-v1", "p2p", "p2p-circuit"}
    /\ ma[i][1] = "p2p" => ma[i][2] \in PeerIds

Any(ma, protocol) == \E i \in DOMAIN ma : ma[i][1] = protocol

-----------------------------------------------------------------------------
(* Configuration.                                                          *)

CheckProtocol(name) ==
  \/ name = <<"libp2p">>
  \/ name # <<>> /\ \A i \in DOMAIN name : name[i] \in {"tcp", "quic", "relay"}

ParseTransportConfig_FirstPart(name) ==
  LET named(part) == \E i \in DOMAIN name : name[i] = part IN
  IF name \in {<<>>, <<"libp2p">>}
  THEN [tcp |-> TRUE, quic |-> FALSE, relay |-> FALSE, priority |-> "tcp"]
  ELSE [tcp |-> named("tcp"), quic |-> named("quic"), relay |-> named("relay"), priority |-> name[1]]
ParseTransportConfig(name) ==
  LET named(part) == \E i \in DOMAIN name : name[i] = part IN
  IF name \in {<<>>, <<"libp2p">>} \/ ~ (named("tcp") \/ named("quic"))
  THEN [tcp |-> TRUE, quic |-> FALSE, relay |-> named("relay"), priority |-> "tcp"]
  ELSE [tcp |-> named("tcp"), quic |-> named("quic"), relay |-> named("relay"),
        priority |-> IF name[1] = "quic" THEN "quic" ELSE "tcp"]

\* The component by which the addresses of a transport are found.
Marker(transport) ==
  CASE transport = "tcp" -> "tcp"
    [] transport = "quic" -> "quic-v1"
    [] transport = "relay" -> "p2p-circuit"

Listed(addrs, transport) == \E i \in DOMAIN addrs : Any(addrs[i], Marker(transport))
\* iter().find(): the first address of the transport.
FindAddr_Last(addrs, transport) ==
  addrs[CHOOSE i \in DOMAIN addrs :
          /\ Any(addrs[i], Marker(transport))
          /\ \A j \in i + 1 .. Len(addrs) : ~ Any(addrs[j], Marker(transport))]
FindAddr(addrs, transport) ==
  addrs[CHOOSE i \in DOMAIN addrs :
          /\ Any(addrs[i], Marker(transport))
          /\ \A j \in 1 .. i - 1 : ~ Any(addrs[j], Marker(transport))]

\* The address of the host takes the place of 0.0.0.0.
ResolveMultiaddr(ma) ==
  [i \in DOMAIN ma |-> IF ma[i] = <<"ip4", "any">> THEN <<"ip4", "host">> ELSE ma[i]]

ResolveSelfMultiaddr(resolved, priority) ==
  ResolveMultiaddr(IF Listed(resolved, priority) THEN FindAddr(resolved, priority) ELSE resolved[1])

-----------------------------------------------------------------------------
(* Strings.  An address is a record of peer_id, multiaddr and is_self.     *)

TransportPrefix_NoRelay(ma) == IF Any(ma, "quic-v1") THEN "quic" ELSE "tcp"
TransportPrefix(ma) ==
  IF Any(ma, "p2p-circuit") THEN "relay" ELSE IF Any(ma, "quic-v1") THEN "quic" ELSE "tcp"

\* The string of a multiaddr; without one the prefix is "tcp" too.
StringOf(ma, peer) == [prefix |-> TransportPrefix(ma), path |-> Append(ma, <<"p2p", peer>>)]
ToAddrString(a) == StringOf(a.multiaddr, a.peer_id)

\* The hint in a buffer that starts with the given text.
ReadTransportHint(text) ==
  CASE text \in {"tcp,relay", "relay"} -> "relay"
    [] text \in {"tcp", "quic"} -> text
    [] OTHER -> "none"

SelfString(a, hint, listen_addrs) ==
  IF hint # "none" /\ Listed(listen_addrs, hint)
  THEN StringOf(FindAddr(listen_addrs, hint), a.peer_id)
  ELSE ToAddrString(a)

\* addr_to_string with a buffer of buf_size that starts with the given text, or
\* with none, when it only tells the size.
NullBuffer == "null"
AddrToString(a, text, buf_size, listen_addrs) ==
  LET s == IF a.is_self /\ text # NullBuffer
           THEN SelfString(a, ReadTransportHint(text), listen_addrs)
           ELSE ToAddrString(a)
      needed == Len(s.path) + 1
  IN [ret |-> IF text # NullBuffer /\ buf_size < needed THEN "OVERFLOW" ELSE "SUCCESS",
      buf |-> s, buf_size |-> needed]

\* rfind("/p2p/").
P2pPos_First(path) ==
  CHOOSE i \in DOMAIN path : path[i][1] = "p2p" /\ \A j \in 1 .. i - 1 : path[j][1] # "p2p"
P2pPos(path) ==
  CHOOSE i \in DOMAIN path : path[i][1] = "p2p" /\ \A j \in i + 1 .. Len(path) : path[j][1] # "p2p"

Refused == [ret |-> "PROTOCOL_ERROR"]
Accepted(peer, ma, command) ==
  [ret |-> "SUCCESS", command |-> command,
   addr |-> [peer_id |-> peer, multiaddr |-> ma, is_self |-> FALSE]]

\* addr_lookup: the address, and the command it gives to the loop (RelayConnect
\* goes on from ConnectViaRelay).
AddrLookup(s) ==
  LET pos == P2pPos(s.path)
      transport == SubSeq(s.path, 1, pos - 1)
      peer == s.path[pos][2]
  IN IF \/ ~ Any(s.path, "p2p")
        \/ peer \notin PeerIds
        \/ ~ IsMultiaddr(transport)
        \/ s.prefix = "relay" /\ transport = NoMultiaddr
     THEN Refused
     ELSE Accepted(peer, transport,
                   IF s.prefix = "relay" THEN "ConnectViaRelay"
                   ELSE IF transport # NoMultiaddr THEN "AddKnownAddr" ELSE "none")

-----------------------------------------------------------------------------
(* Comparison and serialization.                                           *)

AddrDup(a) == [peer_id |-> a.peer_id, multiaddr |-> a.multiaddr, is_self |-> a.is_self]
AddrSelf(self_addr) == AddrDup(self_addr)
AddrCmp(a, b) == a.peer_id = b.peer_id
AddrIsSelf(a, self_addr) == a.peer_id = self_addr.peer_id

\* The lengths, the peer id and the components of the multiaddr.
AddrGetSerializeSize(a) == 3 + Len(a.multiaddr)
AddrSerialize(a, buf_size) ==
  LET out == <<1, a.peer_id, Len(a.multiaddr) % LengthLimit>> \o a.multiaddr IN
  [ret |-> IF Len(out) > buf_size THEN "OVERFLOW" ELSE "SUCCESS", buf |-> out]

\* Nothing is told to the loop about an address that is deserialized.
AddrDeserialize(buf) ==
  LET ma_len == buf[3]
      ma == SubSeq(buf, 4, 3 + ma_len)
  IN IF Len(buf) < 3 \/ buf[2] \notin PeerIds \/ 3 + ma_len > Len(buf) \/ ~ IsMultiaddr(ma)
     THEN Refused ELSE Accepted(buf[2], ma, "none")
=============================================================================
