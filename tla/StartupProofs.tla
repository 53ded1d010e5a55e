--------------------------- MODULE StartupProofs ----------------------------
(***************************************************************************)
(* The life of an endpoint and the addresses it shows, for every set of    *)
(* protocol names, command lines and interfaces of the relay, in whatever  *)
(* order the listeners and the relay report.                               *)
(***************************************************************************)
EXTENDS Startup, SequenceTheorems, WellFoundedInduction, TLAPS

-----------------------------------------------------------------------------
(* Multiaddrs.                                                             *)

Protocols == {"ip4", "tcp", "udp", "quic-v1", "p2p", "p2p-circuit"}
Arguments == {"", "lo", "eth", "host", "self", "relay"} \cup Interfaces
Component == Protocols \X Arguments

DirectAddrs == {Direct(t, i) : t \in {"tcp", "quic"}, i \in {"lo", "eth"}}
CircuitAddrs == {Circuit(ListenAddr(i)) : i \in Interfaces}
RelayAddrs == {FullAddr(ListenAddr(i)) : i \in Interfaces}

\* The addresses with the transport that their markers show.
Shaped(ma, transport) ==
  /\ ma \in Seq(Component) /\ Len(ma) \in 1..5 /\ IsMultiaddr(ma)
  /\ Any(ma, "p2p-circuit") <=> transport = "relay"
  /\ Any(ma, "quic-v1") <=> transport = "quic"
  /\ Any(ma, "tcp") <=> transport \in {"tcp", "relay"}

LEMMA OneComponent ==
  ASSUME NEW p \in Protocols, NEW a \in Arguments
  PROVE  <<p, a>> \in Component /\ <<p, a>>[1] = p /\ <<p, a>>[2] = a
BY Zenon DEF Component

\* Short tuples as sequences.
LEMMA Tuples ==
  ASSUME NEW S, NEW a \in S, NEW b \in S, NEW c \in S, NEW d \in S, NEW e \in S
  PROVE  /\ <<a, b>> \in Seq(S) /\ Len(<<a, b>>) = 2 /\ DOMAIN <<a, b>> = {1, 2}
         /\ <<a, b, c>> \in Seq(S) /\ Len(<<a, b, c>>) = 3 /\ DOMAIN <<a, b, c>> = {1, 2, 3}
         /\ <<a, b, c, d, e>> \in Seq(S) /\ Len(<<a, b, c, d, e>>) = 5
         /\ DOMAIN <<a, b, c, d, e>> = {1, 2, 3, 4, 5}
OBVIOUS

LEMMA AppendToTwo ==
  ASSUME NEW a, NEW b, NEW c
  PROVE  Append(<<a, b>>, c) = <<a, b, c>>
<1> DEFINE S == {a, b, c}
           s == <<a, b>>
           t == <<a, b, c>>
           u == Append(s, c)
<1>1. a \in S /\ b \in S /\ c \in S
  BY Zenon
<1> HIDE DEF S
<1>2. /\ s \in Seq(S) /\ Len(s) = 2 /\ s[1] = a /\ s[2] = b
      /\ t \in Seq(S) /\ Len(t) = 3 /\ t[1] = a /\ t[2] = b /\ t[3] = c
  BY <1>1
<1> HIDE DEF s, t
<1>3. /\ u \in Seq(S) /\ Len(u) = Len(s) + 1
      /\ \A i \in 1..Len(s) : u[i] = s[i]
      /\ u[Len(s) + 1] = c
  <2>1. s \in Seq(S) /\ c \in S
    BY <1>1, <1>2, Zenon
  <2>2. Append(s, c) \in Seq(S)
    BY <2>1, AppendProperties, Zenon
  <2>3. Len(Append(s, c)) = Len(s) + 1
    BY <2>1, AppendProperties, Zenon
  <2>4. \A i \in 1..Len(s) : Append(s, c)[i] = s[i]
    BY <2>1, AppendProperties
  <2>5. Append(s, c)[Len(s) + 1] = c
    BY <2>1, AppendProperties, Zenon
  <2> QED BY <2>2, <2>3, <2>4, <2>5, Zenon
<1> HIDE DEF u
<1>4. Len(u) = 3 /\ u[1] = a /\ u[2] = b /\ u[3] = c
  BY <1>2, <1>3
<1>5. \A i \in 1..Len(u) : u[i] = t[i]
  BY <1>2, <1>4
<1>6. u = t
  BY <1>2, <1>3, <1>4, <1>5, SeqEqual, Zenon
<1> QED BY <1>6, Zenon DEF s, t, u

LEMMA ConcatThreeTwo ==
  ASSUME NEW a, NEW b, NEW c, NEW d, NEW e
  PROVE  <<a, b, c>> \o <<d, e>> = <<a, b, c, d, e>>
<1> DEFINE S == {a, b, c, d, e}
           s == <<a, b, c>>
           v == <<d, e>>
           t == <<a, b, c, d, e>>
           u == s \o v
<1>1. a \in S /\ b \in S /\ c \in S /\ d \in S /\ e \in S
  BY Zenon
<1> HIDE DEF S
<1>2. /\ s \in Seq(S) /\ Len(s) = 3 /\ s[1] = a /\ s[2] = b /\ s[3] = c
      /\ v \in Seq(S) /\ Len(v) = 2 /\ v[1] = d /\ v[2] = e
      /\ t \in Seq(S) /\ Len(t) = 5 /\ t[1] = a /\ t[2] = b /\ t[3] = c /\ t[4] = d /\ t[5] = e
  BY <1>1
<1> HIDE DEF s, v, t
<1>3. /\ u \in Seq(S) /\ Len(u) = Len(s) + Len(v)
      /\ \A i \in 1..Len(s) + Len(v) : u[i] = IF i <= Len(s) THEN s[i] ELSE v[i - Len(s)]
  BY <1>2, ConcatProperties, Zenon
<1> HIDE DEF u
<1>4. Len(u) = 5 /\ u[1] = a /\ u[2] = b /\ u[3] = c /\ u[4] = d /\ u[5] = e
  BY <1>2, <1>3
<1>5. \A i \in 1..Len(u) : u[i] = t[i]
  BY <1>2, <1>4
<1>6. u = t
  BY <1>2, <1>3, <1>4, <1>5, SeqEqual, Zenon
<1> QED BY <1>6, Zenon DEF s, t, u, v

LEMMA DirectShape ==
  ASSUME NEW t \in {"tcp", "quic"}, NEW i \in {"lo", "eth"}
  PROVE  Shaped(Direct(t, i), t)
<1> DEFINE ip == <<"ip4", i>>
           tcp == <<"tcp", "">>
           udp == <<"udp", "">>
           quic == <<"quic-v1", "">>
<1>1. /\ ip \in Component /\ ip[1] = "ip4"
      /\ tcp \in Component /\ tcp[1] = "tcp"
      /\ udp \in Component /\ udp[1] = "udp"
      /\ quic \in Component /\ quic[1] = "quic-v1"
  BY OneComponent, Zenon DEF Protocols, Arguments
<1>2. Direct(t, i) = IF t = "tcp" THEN <<ip, tcp>> ELSE <<ip, udp, quic>>
  BY Zenon DEF Direct
<1> HIDE DEF ip, tcp, udp, quic
<1>3. CASE t = "tcp"
  <2> DEFINE ma == <<ip, tcp>>
  <2>1. /\ ma \in Seq(Component) /\ Len(ma) = 2 /\ DOMAIN ma = {1, 2}
        /\ ma[1][1] = "ip4" /\ ma[2][1] = "tcp"
    BY <1>1, Tuples
  <2> HIDE DEF ma
  <2>2. IsMultiaddr(ma) /\ Any(ma, "tcp") /\ ~ Any(ma, "quic-v1") /\ ~ Any(ma, "p2p-circuit")
    BY <2>1, Zenon DEF IsMultiaddr, Any
  <2>3. Direct(t, i) = ma
    BY <1>2, <1>3, Zenon DEF ma
  <2> QED BY <1>3, <2>1, <2>2, <2>3 DEF Shaped
<1>4. CASE t = "quic"
  <2> DEFINE ma == <<ip, udp, quic>>
  <2>1. /\ ma \in Seq(Component) /\ Len(ma) = 3 /\ DOMAIN ma = {1, 2, 3}
        /\ ma[1][1] = "ip4" /\ ma[2][1] = "udp" /\ ma[3][1] = "quic-v1"
    BY <1>1, Tuples
  <2> HIDE DEF ma
  <2>2. IsMultiaddr(ma) /\ ~ Any(ma, "tcp") /\ Any(ma, "quic-v1") /\ ~ Any(ma, "p2p-circuit")
    BY <2>1, Zenon DEF IsMultiaddr, Any
  <2>3. Direct(t, i) = ma
    BY <1>2, <1>4, Zenon DEF ma
  <2> QED BY <1>4, <2>1, <2>2, <2>3 DEF Shaped
<1> QED BY <1>3, <1>4, Zenon

\* The components of the relay's address, with its peer id and continued by the
\* circuit.
LEMMA RelayShape ==
  ASSUME NEW i \in Interfaces \cup {"eth"}
  PROVE  /\ ListenAddr(i) \in Seq(Component) /\ Len(ListenAddr(i)) = 2
         /\ ListenAddr(i)[1] = <<"ip4", i>> /\ ListenAddr(i)[2] = <<"tcp", "">>
         /\ FullAddr(ListenAddr(i)) = <<<<"ip4", i>>, <<"tcp", "">>, <<"p2p", "relay">>>>
         /\ FullAddr(ListenAddr(i)) \in Seq(Component) /\ Len(FullAddr(ListenAddr(i))) = 3
         /\ IsMultiaddr(ListenAddr(i)) /\ ~ Any(ListenAddr(i), "p2p")
         /\ IsMultiaddr(FullAddr(ListenAddr(i))) /\ Any(FullAddr(ListenAddr(i)), "p2p")
         /\ OnLoopback(FullAddr(ListenAddr(i))) <=> i \in Loopback
         /\ OnLoopback(ListenAddr(i)) <=> i \in Loopback
         /\ SubSeq(FullAddr(ListenAddr(i)), 1, 2) = ListenAddr(i)
         /\ Shaped(Circuit(ListenAddr(i)), "relay")
<1> DEFINE ip == <<"ip4", i>>
           tcp == <<"tcp", "">>
           p2p == <<"p2p", "relay">>
           circuit == <<"p2p-circuit", "">>
           self == <<"p2p", "self">>
           listen2 == <<ip, tcp>>
           full == <<ip, tcp, p2p>>
           ma == <<ip, tcp, p2p, circuit, self>>
<1>1. /\ ip \in Component /\ ip[1] = "ip4" /\ ip[2] = i
      /\ tcp \in Component /\ tcp[1] = "tcp"
      /\ p2p \in Component /\ p2p[1] = "p2p" /\ p2p[2] = "relay"
      /\ circuit \in Component /\ circuit[1] = "p2p-circuit"
      /\ self \in Component /\ self[1] = "p2p" /\ self[2] = "self"
  BY OneComponent, Zenon DEF Protocols, Arguments
<1>2. ListenAddr(i) = listen2 /\ FullAddr(ListenAddr(i)) = Append(listen2, p2p)
      /\ Circuit(ListenAddr(i)) = FullAddr(ListenAddr(i)) \o <<circuit, self>>
  BY Zenon DEF ListenAddr, FullAddr, Circuit
<1>3. ip = <<"ip4", i>> /\ tcp = <<"tcp", "">>
  BY Zenon
<1>4. full = <<<<"ip4", i>>, <<"tcp", "">>, <<"p2p", "relay">>>>
  BY Zenon
<1> HIDE DEF ip, tcp, p2p, circuit, self
<1>5. FullAddr(ListenAddr(i)) = full /\ Circuit(ListenAddr(i)) = ma
  <2>1. Append(<<ip, tcp>>, p2p) = <<ip, tcp, p2p>>
    BY AppendToTwo, Zenon
  <2>2. <<ip, tcp, p2p>> \o <<circuit, self>> = <<ip, tcp, p2p, circuit, self>>
    BY ConcatThreeTwo, Zenon
  <2> QED BY <1>2, <2>1, <2>2, Zenon
<1>6. /\ listen2 \in Seq(Component) /\ Len(listen2) = 2 /\ DOMAIN listen2 = {1, 2}
      /\ listen2[1] = ip /\ listen2[2] = tcp
  BY <1>1, Tuples
<1>7. /\ full \in Seq(Component) /\ Len(full) = 3 /\ DOMAIN full = {1, 2, 3}
      /\ full[1] = ip /\ full[2] = tcp /\ full[3] = p2p
  BY <1>1, Tuples
<1>8. /\ ma \in Seq(Component) /\ Len(ma) = 5 /\ DOMAIN ma = {1, 2, 3, 4, 5}
      /\ ma[1] = ip /\ ma[2] = tcp /\ ma[3] = p2p /\ ma[4] = circuit /\ ma[5] = self
  BY <1>1, Tuples
<1> HIDE DEF listen2, full, ma
<1>9. SubSeq(full, 1, 2) = listen2
  <2> DEFINE u == SubSeq(full, 1, 2)
  <2>1. \A j \in 1..2 : full[j] \in Component
    BY <1>1, <1>7
  <2>2. /\ u \in Seq(Component) /\ Len(u) = 2
        /\ \A j \in 1..2 : u[j] = full[j]
    BY <2>1, SubSeqProperties
  <2> HIDE DEF u
  <2>3. u = listen2
    BY <1>6, <1>7, <2>2, SeqEqual
  <2> QED BY <2>3, Zenon DEF u
<1>10. IsMultiaddr(listen2) /\ ~ Any(listen2, "p2p") /\ (OnLoopback(listen2) <=> i \in Loopback)
  BY <1>1, <1>6, Zenon DEF IsMultiaddr, Any, OnLoopback
<1>11. IsMultiaddr(full) /\ Any(full, "p2p") /\ (OnLoopback(full) <=> i \in Loopback)
  BY <1>1, <1>7, StartupAssumption, Zenon DEF IsMultiaddr, Any, OnLoopback
<1>12. IsMultiaddr(ma) /\ Any(ma, "tcp") /\ ~ Any(ma, "quic-v1") /\ Any(ma, "p2p-circuit")
  BY <1>1, <1>8, StartupAssumption, Zenon DEF IsMultiaddr, Any
<1>13. Shaped(ma, "relay")
  BY <1>8, <1>12 DEF Shaped
<1>14. ListenAddr(i)[1] = <<"ip4", i>> /\ ListenAddr(i)[2] = <<"tcp", "">>
  BY <1>2, <1>3, <1>6, Zenon
<1> QED BY <1>2, <1>4, <1>5, <1>6, <1>7, <1>9, <1>10, <1>11, <1>13, <1>14, Zenon

\* Resolving the address of the host changes no protocol.
LEMMA ResolveKeeps ==
  ASSUME NEW ma, NEW transport, Shaped(ma, transport)
  PROVE  /\ Shaped(ResolveMultiaddr(ma), transport)
         /\ ResolveMultiaddr(ResolveMultiaddr(ma)) = ResolveMultiaddr(ma)
         /\ \A p : Any(ResolveMultiaddr(ma), p) <=> Any(ma, p)
<1> DEFINE r == ResolveMultiaddr(ma)
<1>1. /\ ma \in Seq(Component) /\ Len(ma) \in 1..5 /\ DOMAIN ma = 1..Len(ma) /\ IsMultiaddr(ma)
      /\ \A i \in DOMAIN ma : ma[i] \in Component
  BY LenProperties, ElementOfSeq, Zenon DEF Shaped
<1>2. /\ DOMAIN r = DOMAIN ma /\ r = [i \in DOMAIN ma |-> r[i]]
      /\ \A i \in DOMAIN ma : IF ma[i] = <<"ip4", "any">> THEN r[i] = <<"ip4", "host">> ELSE r[i] = ma[i]
  BY Zenon DEF ResolveMultiaddr
<1> HIDE DEF r
<1>3. \A i \in DOMAIN ma : /\ r[i] \in Component /\ r[i][1] = ma[i][1] /\ r[i] # <<"ip4", "any">>
                           /\ r[i][1] = "p2p" => r[i] = ma[i]
  <2>1. /\ <<"ip4", "host">> \in Component /\ <<"ip4", "host">>[1] = "ip4"
        /\ <<"ip4", "any">>[1] = "ip4" /\ <<"ip4", "host">> # <<"ip4", "any">>
    <3>1. <<"ip4", "host">> \in Component /\ <<"ip4", "host">>[1] = "ip4"
      BY OneComponent, Zenon DEF Protocols, Arguments
    <3> QED BY <3>1, Zenon
  <2> DEFINE host == <<"ip4", "host">>
             any == <<"ip4", "any">>
  <2>2. /\ host \in Component /\ host[1] = "ip4" /\ any[1] = "ip4" /\ host # any
        /\ \A i \in DOMAIN ma : IF ma[i] = any THEN r[i] = host ELSE r[i] = ma[i]
    BY <1>2, <2>1, Zenon
  <2> HIDE DEF host, any
  <2>3. \A i \in DOMAIN ma : /\ r[i] \in Component /\ r[i][1] = ma[i][1] /\ r[i] # any
                             /\ r[i][1] = "p2p" => r[i] = ma[i]
    BY <1>1, <2>2, Zenon
  <2> QED BY <2>3, Zenon DEF any
<1>4. r \in Seq(Component) /\ Len(r) = Len(ma)
  <2>1. Len(ma) \in Nat
    BY <1>1
  <2>2. r \in [1..Len(ma) -> Component]
    BY <1>1, <1>2, <1>3, Zenon
  <2> QED BY <2>1, <2>2, SeqDef, LenProperties
<1>5. IsMultiaddr(r)
  BY <1>1, <1>2, <1>3, Zenon DEF IsMultiaddr
<1>6. \A p : Any(r, p) <=> Any(ma, p)
  BY <1>2, <1>3, Zenon DEF Any
<1>7. ResolveMultiaddr(r) = r
  <2>1. ResolveMultiaddr(r) = [i \in DOMAIN r |-> r[i]]
    BY <1>2, <1>3, Zenon DEF ResolveMultiaddr
  <2> QED BY <1>2, <2>1, Zenon
<1> QED BY <1>1, <1>4, <1>5, <1>6, <1>7, SMTT(30) DEF Shaped, r

-----------------------------------------------------------------------------
(* find(): the first address of a transport.                               *)

LEMMA Least ==
  ASSUME NEW T \in SUBSET Nat, T # {}
  PROVE  \E x \in T : \A y \in T : x <= y
<1>1. PICK x \in T : \A y \in T : ~ (<<y, x>> \in OpToRel(<, Nat))
  BY NatLessThanWellFounded, WFMin, Zenon
<1>2. \A y \in T : ~ (y < x)
  BY <1>1, Zenon DEF OpToRel
<1>3. T \subseteq Nat
  BY Zenon
<1> QED BY <1>2, <1>3

First(addrs, transport, k) ==
  /\ k \in DOMAIN addrs /\ Any(addrs[k], Marker(transport))
  /\ \A j \in 1 .. k - 1 : ~ Any(addrs[j], Marker(transport))

LEMMA FirstUnique ==
  ASSUME NEW S, NEW addrs \in Seq(S), NEW transport, NEW k, First(addrs, transport, k)
  PROVE  FindAddr(addrs, transport) = addrs[k] /\ Listed(addrs, transport)
<1>1. DOMAIN addrs = 1..Len(addrs) /\ Len(addrs) \in Nat
  BY LenProperties, Zenon
<1>2. ASSUME NEW i \in DOMAIN addrs, Any(addrs[i], Marker(transport)),
             \A j \in 1 .. i - 1 : ~ Any(addrs[j], Marker(transport))
      PROVE  i = k
  <2>1. ~ (i \in 1..k - 1) /\ ~ (k \in 1..i - 1)
    BY <1>2, Zenon DEF First
  <2> QED BY <1>1, <2>1 DEF First
<1>3. (CHOOSE i \in DOMAIN addrs :
          /\ Any(addrs[i], Marker(transport))
          /\ \A j \in 1 .. i - 1 : ~ Any(addrs[j], Marker(transport))) = k
  BY <1>2, Zenon DEF First
<1> QED BY <1>3, Zenon DEF FindAddr, Listed, First

LEMMA FirstExists ==
  ASSUME NEW S, NEW addrs \in Seq(S), NEW transport, Listed(addrs, transport)
  PROVE  \E k \in DOMAIN addrs : First(addrs, transport, k)
<1>1. DOMAIN addrs = 1..Len(addrs) /\ Len(addrs) \in Nat
  BY LenProperties, Zenon
<1> DEFINE T == {i \in DOMAIN addrs : Any(addrs[i], Marker(transport))}
<1>2. T \in SUBSET Nat /\ T # {}
  BY <1>1 DEF Listed
<1> HIDE DEF T
<1>3. PICK k \in T : \A y \in T : k <= y
  BY <1>2, Least, Zenon
<1>4. k \in DOMAIN addrs /\ Any(addrs[k], Marker(transport))
  BY Zenon DEF T
<1>5. ASSUME NEW j \in 1..k - 1 PROVE ~ Any(addrs[j], Marker(transport))
  <2>1. j \in DOMAIN addrs /\ j \notin T
    BY <1>1, <1>3, <1>4
  <2> QED BY <2>1, Zenon DEF T
<1> QED BY <1>4, <1>5, Zenon DEF First

-----------------------------------------------------------------------------
(* The invariant: the relay and its address file; the course of initialize *)
(* with the relay's address, the connection and the eventfd; the addresses *)
(* collected so far; and what is shown once initialize has returned.       *)

RelayInv ==
  /\ RelayTypeOK
  /\ relay = "off" => reported = {}
  /\ relay = "up" /\ reported \ Loopback # {} =>
       addr_written /\ addr_file # NoFile /\ ~ OnLoopback(addr_file)
  /\ external \subseteq {ListenAddr(i) : i \in Interfaces}

Config == [tcp : BOOLEAN, quic : BOOLEAN, relay : BOOLEAN, priority : {"tcp", "quic"}]
EnvAddrs == {NoMultiaddr, Invalid, NoPeerId} \cup RelayAddrs

CourseInv ==
  /\ pc \in {"idle", "ready", "failed", "aborted", "finalized"} \cup Initializing
  /\ transport_config \in Config
  /\ listen \in BOOLEAN
  /\ relay_addr \in EnvAddrs
  /\ event_fd \in {"none", "open", "closed"}
  /\ relay_conn \in {"none", "dialing", "up", "down"}
  /\ reservation \in {"none", "requested", "held", "no_addresses", "full", "lost"}
  /\ relay_conn # "none" \/ pc \in {"dialing", "reserving"} => relay_addr \in RelayAddrs
  /\ FdReleased
  /\ pc = "idle" => event_fd = "none" /\ relay_conn = "none"

AddrsInv ==
  /\ resolved \in Seq(DirectAddrs \cup CircuitAddrs)
  /\ pc = "idle" => resolved = <<>>
  /\ pc \in Initializing => resolved \in Seq(DirectAddrs)
  /\ pc \in {"dialing", "reserving"} => AllSeen(resolved)
  /\ pc = "reserving" => "tcp" \in Listeners

\* Every address is resolved and shows its transport, a circuit address comes
\* after a direct one of tcp, and the self-address is the first of its transport.
Shown(self, la, config) ==
  /\ la \in Seq(Seq(Component))
  /\ \A i \in DOMAIN la :
       \E t \in {"tcp", "quic", "relay"} : Shaped(la[i], t) /\ ResolveMultiaddr(la[i]) = la[i]
  /\ \A i \in DOMAIN la : Shaped(la[i], "relay") => \E j \in 1 .. i - 1 : Shaped(la[j], "tcp")
  /\ \E k \in DOMAIN la :
       /\ self = [peer_id |-> "self", multiaddr |-> la[k], is_self |-> TRUE]
       /\ ~ Shaped(la[k], "relay")
       /\ First(la, TransportPrefix(la[k]), k)
       /\ config[config.priority] => Shaped(la[k], config.priority)

ShownInv ==
  IF pc \in {"ready", "finalized"}
  THEN Shown(self_addr, listen_addrs, transport_config) /\ Len(listen_addrs) = Len(resolved)
  ELSE self_addr = NoAddr /\ listen_addrs = <<>>

StartupInv == RelayInv /\ CourseInv /\ AddrsInv /\ ShownInv

-----------------------------------------------------------------------------
(* The relay server.                                                       *)

\* A routable address goes to the file, and a loopback address no longer does
\* once one has been written.
LEMMA ReportedAddr ==
  ASSUME RelayInv, NEW i \in Interfaces, RelayNewListenAddr(i)
  PROVE  RelayInv'
<1> DEFINE ma == ListenAddr(i)
<1>1. /\ OnLoopback(ma) <=> i \in Loopback
      /\ OnLoopback(FullAddr(ma)) <=> i \in Loopback
      /\ Len(FullAddr(ma)) = 3 /\ ma[1] = <<"ip4", i>>
  BY RelayShape, Zenon
<1>2. FullAddr(ma) # NoFile
  BY <1>1 DEF NoFile
<1>3. /\ relay = "up" /\ reported' = reported \cup {i} /\ external' = external \cup {ma}
      /\ \/ /\ addr_file' = FullAddr(ma) /\ addr_written' = (addr_written \/ ~ OnLoopback(ma))
            /\ relay' = relay
         \/ relay' = "exited" /\ addr_file' = addr_file /\ addr_written' = addr_written
         \/ relay' = relay /\ addr_file' = addr_file /\ addr_written' = addr_written
  BY Zenon DEF RelayNewListenAddr, RelayExternal
<1>4. /\ external' \subseteq {ListenAddr(j) : j \in Interfaces}
      /\ \A a \in external' : a[1][1] = "ip4"
  BY <1>1, <1>3 DEF RelayInv, RelayTypeOK
<1>5. RelayTypeOK'
  BY <1>3, <1>4, Zenon DEF RelayInv, RelayTypeOK
<1>6. ASSUME relay' = "up", reported' \ Loopback # {}
      PROVE  addr_written' /\ addr_file' # NoFile /\ ~ OnLoopback(addr_file')
  <2>1. CASE i \notin Loopback
    <3>1. WritesFile(OnLoopback(ma))
      BY <1>1, <2>1, Zenon DEF WritesFile
    <3>2. addr_file' = FullAddr(ma) /\ addr_written'
      BY <1>1, <1>6, <2>1, <3>1, Zenon DEF RelayNewListenAddr
    <3> QED BY <1>1, <1>2, <2>1, <3>2, Zenon
  <2>2. CASE i \in Loopback
    <3>1. addr_written /\ addr_file # NoFile /\ ~ OnLoopback(addr_file)
      BY <1>3, <1>6, <2>2, Zenon DEF RelayInv
    <3>2. ~ WritesFile(OnLoopback(ma))
      BY <1>1, <2>2, <3>1, Zenon DEF WritesFile
    <3>3. addr_file' = addr_file /\ addr_written' = addr_written
      BY <3>2, Zenon DEF RelayNewListenAddr
    <3> QED BY <3>1, <3>3, Zenon
  <2> QED BY <2>1, <2>2, Zenon
<1>7. relay' # "off"
  BY <1>3, Zenon
<1> QED BY <1>4, <1>5, <1>6, <1>7, Zenon DEF RelayInv

LEMMA RelayStep ==
  ASSUME RelayInv, CourseInv, RelayProgram
  PROVE  RelayInv'
<1>1. ASSUME NEW args \in Args, RelayMain(args) PROVE RelayInv'
  BY <1>1, Zenon DEF RelayMain, RelayInv, RelayTypeOK
<1>2. ASSUME NEW i \in Interfaces, RelayNewListenAddr(i) PROVE RelayInv'
  BY <1>2, ReportedAddr, Zenon
<1>3. ASSUME relay_conn = "up", RelayIdentify(SubSeq(relay_addr, 1, 2)) PROVE RelayInv'
  <2>1. PICK i \in Interfaces : relay_addr = FullAddr(ListenAddr(i))
    BY <1>3, Zenon DEF CourseInv, RelayAddrs
  <2>2. SubSeq(relay_addr, 1, 2) = ListenAddr(i) /\ ListenAddr(i)[1][1] = "ip4"
    <3>1. SubSeq(relay_addr, 1, 2) = ListenAddr(i) /\ ListenAddr(i)[1] = <<"ip4", i>>
      BY <2>1, RelayShape, Zenon
    <3> QED BY <3>1
  <2>3. /\ external' = external \cup {ListenAddr(i)}
        /\ UNCHANGED <<relay, reported, addr_file, addr_written>>
    BY <1>3, <2>2, Zenon DEF RelayIdentify
  <2>4. /\ external' \subseteq {ListenAddr(j) : j \in Interfaces}
        /\ \A a \in external' : a[1][1] = "ip4"
    BY <2>2, <2>3, Zenon DEF RelayInv, RelayTypeOK
  <2> QED BY <2>3, <2>4, Zenon DEF RelayInv, RelayTypeOK
<1>4. CASE RelayShutdown
  BY <1>4, Zenon DEF RelayShutdown, RelayInv, RelayTypeOK
<1> QED BY <1>1, <1>2, <1>3, <1>4, Zenon DEF RelayProgram

-----------------------------------------------------------------------------
(* The course of initialize.                                               *)

LEMMA EnvShape ==
  ASSUME NEW a \in EnvAddrs
  PROVE  /\ a = Invalid \/ IsMultiaddr(a)
         /\ Any(a, "p2p") => a \in RelayAddrs
         /\ ~ IsMultiaddr(Invalid)
<1>1. ~ Any(Invalid, "p2p") /\ ~ IsMultiaddr(Invalid)
  <2> DEFINE c == <<"bad", "">>
             ma == <<c>>
  <2>1. c[1] = "bad" /\ ma = Invalid
    BY Zenon DEF Invalid
  <2> HIDE DEF c
  <2>2. DOMAIN ma = {1} /\ ma[1] = c
    OBVIOUS
  <2> HIDE DEF ma
  <2>3. ~ Any(ma, "p2p") /\ ~ IsMultiaddr(ma)
    BY <2>1, <2>2, Zenon DEF Any, IsMultiaddr
  <2> QED BY <2>1, <2>3, Zenon
<1>2. ~ Any(NoMultiaddr, "p2p") /\ IsMultiaddr(NoMultiaddr)
  BY DEF Any, IsMultiaddr, NoMultiaddr
<1>3. ~ Any(NoPeerId, "p2p") /\ IsMultiaddr(NoPeerId)
  BY RelayShape, Zenon DEF NoPeerId
<1>4. ASSUME NEW b \in RelayAddrs PROVE IsMultiaddr(b)
  BY RelayShape, Zenon DEF RelayAddrs
<1> QED BY <1>1, <1>2, <1>3, <1>4, Zenon DEF EnvAddrs

LEMMA ConfigType ==
  ASSUME NEW name
  PROVE  ParseTransportConfig(name) \in Config
BY Zenon DEF ParseTransportConfig, Config

\* Every step of the endpoint: the relay's address is only read at the start, a
\* connection is only tried to an address with a peer id, and who fails after the
\* eventfd was made closes it, unless that address does not parse.
LEMMA CourseStep ==
  ASSUME RelayInv, CourseInv, Node
  PROVE  CourseInv'
<1>1. ASSUME NEW name \in Names, NEW l \in BOOLEAN, NEW env \in EnvValues, Initialize(name, l, env)
      PROVE  CourseInv'
  <2>1. env \in EnvAddrs /\ NoMultiaddr \in EnvAddrs
    BY Zenon DEF EnvValues, EnvAddrs, RelayInv, RelayTypeOK, RelayAddrs, NoFile, NoMultiaddr
  <2>2. /\ pc = "idle" /\ event_fd = "none" /\ relay_conn = "none" /\ relay_conn' = "none"
        /\ reservation' = reservation /\ listen' = l /\ transport_config' \in Config
    BY <1>1, ConfigType, Zenon DEF Initialize, CourseInv, linkVars
  <2>3. CASE pc' = "failed" /\ UNCHANGED <<event_fd, relay_addr>>
    BY <2>2, <2>3, Zenon DEF CourseInv, FdReleased, Initializing
  <2>4. CASE /\ event_fd' = "open" /\ relay_addr' \in {env, NoMultiaddr}
             /\ pc' = IF IsMultiaddr(relay_addr') THEN "listening" ELSE "failed"
    <3>1. relay_addr' \in EnvAddrs /\ (pc' # "failed" \/ relay_addr' = Invalid)
      BY <2>1, <2>4, EnvShape, Zenon
    <3>2. pc' \in {"listening", "failed"}
      BY <2>4, Zenon
    <3> QED BY <2>2, <2>4, <3>1, <3>2, Zenon DEF CourseInv, FdReleased, Initializing
  <2> QED BY <1>1, <2>3, <2>4, Zenon DEF Initialize
<1>2. CASE ListenFails
  BY <1>2, Zenon DEF ListenFails, SpawnFails, CourseInv, FdReleased, Initializing, initVars, linkVars
<1>3. ASSUME NEW t \in {"tcp", "quic"}, NEW i \in {"lo", "eth"}, NewListenAddr(t, i)
      PROVE  CourseInv'
  <2>1. /\ pc \in Initializing /\ UNCHANGED <<transport_config, listen, relay_addr, event_fd, reservation>>
        /\ \/ pc' \in {pc, "ready", "aborted"} /\ relay_conn' = relay_conn
           \/ pc' = "dialing" /\ relay_conn' = "dialing" /\ HasPeerId(relay_addr)
    BY <1>3, Zenon DEF NewListenAddr, Succeed, initVars
  <2>2. relay_addr \in EnvAddrs /\ (HasPeerId(relay_addr) => relay_addr \in RelayAddrs)
    BY EnvShape, Zenon DEF CourseInv, HasPeerId
  <2> QED BY <2>1, <2>2, Zenon DEF CourseInv, FdReleased, Initializing
<1>4. CASE RelayConnected
  BY <1>4, Zenon DEF RelayConnected, CourseInv, FdReleased, Initializing, initVars
<1>5. CASE RelayUnreachable
  BY <1>5, Zenon DEF RelayUnreachable, SpawnFails, CourseInv, FdReleased, Initializing, initVars
<1>6. CASE AnswerReservation
  BY <1>6, Zenon DEF AnswerReservation, CourseInv, FdReleased, Initializing, initVars
<1>7. ASSUME NEW ma \in external, CircuitListenAddr(ma)
      PROVE  CourseInv'
  BY <1>7, Zenon DEF CircuitListenAddr, Succeed, CourseInv, FdReleased, Initializing, initVars, linkVars
<1>8. CASE RelayConnectionClosed
  BY <1>8, Zenon DEF RelayConnectionClosed, CourseInv, FdReleased, Initializing, initVars
<1>9. CASE RelayRedialed
  BY <1>9, Zenon DEF RelayRedialed, CourseInv, FdReleased, Initializing, initVars
<1>10. CASE Finalize
  BY <1>10, Zenon DEF Finalize, CourseInv, FdReleased, Initializing, initVars
<1> QED BY <1>1, <1>2, <1>3, <1>4, <1>5, <1>6, <1>7, <1>8, <1>9, <1>10, Zenon DEF Node, ListenStep, DialStep

-----------------------------------------------------------------------------
(* The addresses collected.                                                *)

\* An address more keeps those before it where they are.
LEMMA OneMore ==
  ASSUME NEW S, NEW addrs \in Seq(S), NEW a \in S
  PROVE  /\ Append(addrs, a) \in Seq(S) /\ Len(Append(addrs, a)) = Len(addrs) + 1
         /\ Append(addrs, a)[Len(addrs) + 1] = a
         /\ DOMAIN addrs = 1..Len(addrs) /\ Len(addrs) \in Nat
         /\ DOMAIN Append(addrs, a) = 1..Len(addrs) + 1
         /\ \A k \in DOMAIN addrs : k \in DOMAIN Append(addrs, a) /\ Append(addrs, a)[k] = addrs[k]
         /\ \A t : Listed(addrs, t) => Listed(Append(addrs, a), t)
<1> DEFINE u == Append(addrs, a)
<1>1. u \in Seq(S) /\ Len(u) = Len(addrs) + 1
  BY AppendProperties, Zenon
<1>2. (\A k \in 1..Len(addrs) : u[k] = addrs[k]) /\ u[Len(addrs) + 1] = a
  BY AppendProperties
<1>3. DOMAIN addrs = 1..Len(addrs) /\ Len(addrs) \in Nat /\ DOMAIN u = 1..Len(u)
  BY <1>1, LenProperties, Zenon
<1> HIDE DEF u
<1>4. \A k \in DOMAIN addrs : k \in DOMAIN u /\ u[k] = addrs[k]
  BY <1>1, <1>2, <1>3
<1>5. \A t : Listed(addrs, t) => Listed(u, t)
  BY <1>4, Zenon DEF Listed
<1>6. DOMAIN u = 1..Len(addrs) + 1
  BY <1>1, <1>3, Zenon
<1> QED BY <1>1, <1>2, <1>3, <1>4, <1>5, <1>6, Zenon DEF u

LEMMA AddrsStep ==
  ASSUME RelayInv, CourseInv, AddrsInv, Node
  PROVE  AddrsInv'
<1>1. ASSUME NEW name \in Names, NEW l \in BOOLEAN, NEW env \in EnvValues, Initialize(name, l, env)
      PROVE  AddrsInv'
  <2>1. pc' \in {"failed", "listening"} /\ resolved' = <<>> /\ resolved' = resolved
    BY <1>1, Zenon DEF Initialize, AddrsInv
  <2>2. resolved' \in Seq(DirectAddrs)
    BY <2>1
  <2> QED BY <2>1, <2>2, Zenon DEF AddrsInv
<1>2. CASE ListenFails
  BY <1>2, Zenon DEF ListenFails, SpawnFails, AddrsInv, Initializing
<1>3. ASSUME NEW t \in {"tcp", "quic"}, NEW i \in {"lo", "eth"}, NewListenAddr(t, i)
      PROVE  AddrsInv'
  <2> DEFINE addrs == Append(resolved, Direct(t, i))
  <2>1. /\ pc \in Initializing /\ resolved' = addrs /\ transport_config' = transport_config
        /\ \/ pc' = pc \/ pc' \in {"ready", "aborted"}
           \/ pc' = "dialing" /\ AllSeen(addrs)
    BY <1>3, Zenon DEF NewListenAddr, Succeed, initVars
  <2>2. Direct(t, i) \in DirectAddrs /\ resolved \in Seq(DirectAddrs)
    BY <2>1 DEF DirectAddrs, AddrsInv
  <2>3. addrs \in Seq(DirectAddrs) /\ \A u : Listed(resolved, u) => Listed(addrs, u)
    BY <2>2, OneMore, Zenon
  <2>4. Listeners' = Listeners
    BY <2>1, Zenon DEF Listeners
  <2>5. AllSeen(resolved) => AllSeen(addrs)
    BY <2>3, Zenon DEF AllSeen
  <2> HIDE DEF addrs
  <2>6. AllSeen(addrs) => AllSeen(resolved)'
    BY <2>1, <2>4, Zenon DEF AllSeen
  <2>7. addrs \in Seq(DirectAddrs \cup CircuitAddrs)
    BY <2>3, SeqMonotonic, Zenon
  <2> QED BY <2>1, <2>3, <2>4, <2>5, <2>6, <2>7, Zenon DEF AddrsInv, Initializing
<1>4. CASE RelayConnected
  <2>1. /\ pc = "dialing" /\ pc' = "reserving" /\ resolved' = resolved /\ transport_config' = transport_config
        /\ "tcp" \in Listeners
    BY <1>4, Zenon DEF RelayConnected, initVars
  <2>2. Listeners' = Listeners
    BY <2>1, Zenon DEF Listeners
  <2>3. AllSeen(resolved)'
    BY <2>1, <2>2, Zenon DEF AddrsInv, AllSeen
  <2> QED BY <2>1, <2>2, <2>3, Zenon DEF AddrsInv, Initializing
<1>5. CASE RelayUnreachable
  BY <1>5, Zenon DEF RelayUnreachable, SpawnFails, AddrsInv, Initializing
<1>6. ASSUME NEW ma \in external, CircuitListenAddr(ma)
      PROVE  AddrsInv'
  <2>1. PICK i \in Interfaces : ma = ListenAddr(i)
    BY Zenon DEF RelayInv
  <2>2. Circuit(ma) \in DirectAddrs \cup CircuitAddrs /\ resolved \in Seq(DirectAddrs \cup CircuitAddrs)
    BY <2>1, Zenon DEF CircuitAddrs, AddrsInv
  <2>3. pc' = "ready" /\ resolved' = Append(resolved, Circuit(ma))
    BY <1>6, Zenon DEF CircuitListenAddr, Succeed
  <2>4. resolved' \in Seq(DirectAddrs \cup CircuitAddrs)
    BY <2>2, <2>3, OneMore, Zenon
  <2> QED BY <2>3, <2>4, Zenon DEF AddrsInv, Initializing
<1>7. CASE AnswerReservation \/ RelayConnectionClosed \/ RelayRedialed
  <2>1. UNCHANGED <<pc, resolved, transport_config>>
    BY <1>7, Zenon DEF AnswerReservation, RelayConnectionClosed, RelayRedialed, initVars
  <2>2. Listeners' = Listeners
    BY <2>1, Zenon DEF Listeners
  <2>3. AllSeen(resolved) => AllSeen(resolved)'
    BY <2>1, <2>2, Zenon DEF AllSeen
  <2> QED BY <2>1, <2>2, <2>3, Zenon DEF AddrsInv
<1>8. CASE Finalize
  BY <1>8, Zenon DEF Finalize, AddrsInv, Initializing
<1> QED BY <1>1, <1>2, <1>3, <1>4, <1>5, <1>6, <1>7, <1>8, Zenon DEF Node, ListenStep, DialStep

-----------------------------------------------------------------------------
(* What is shown.                                                          *)

Transports == {"tcp", "quic", "relay"}

LEMMA Markers ==
  Marker("tcp") = "tcp" /\ Marker("quic") = "quic-v1" /\ Marker("relay") = "p2p-circuit"
BY Zenon DEF Marker

\* An address has one transport, and its prefix says which.
LEMMA OneTransport ==
  ASSUME NEW ma, NEW t \in Transports, Shaped(ma, t)
  PROVE  /\ TransportPrefix(ma) = t /\ Any(ma, Marker(t))
         /\ \A u \in Transports : Shaped(ma, u) => u = t
         /\ \A u \in {"tcp", "quic"} : Any(ma, Marker(u)) => t = u \/ (t = "relay" /\ u = "tcp")
         /\ Any(ma, Marker("relay")) => t = "relay"
<1>1. /\ Any(ma, "p2p-circuit") <=> t = "relay"
      /\ Any(ma, "quic-v1") <=> t = "quic"
      /\ Any(ma, "tcp") <=> t \in {"tcp", "relay"}
  BY Zenon DEF Shaped
<1>2. TransportPrefix(ma) = t
  BY <1>1, Zenon DEF TransportPrefix, Transports
<1>3. Any(ma, Marker(t)) /\ (Any(ma, Marker("relay")) => t = "relay")
  BY <1>1, Markers, Zenon DEF Transports
<1>4. ASSUME NEW u \in Transports, Shaped(ma, u) PROVE u = t
  <2>1. /\ Any(ma, "p2p-circuit") <=> u = "relay"
        /\ Any(ma, "quic-v1") <=> u = "quic"
    BY <1>4, Zenon DEF Shaped
  <2> QED BY <1>1, <2>1 DEF Transports
<1>5. ASSUME NEW u \in {"tcp", "quic"}, Any(ma, Marker(u)) PROVE t = u \/ (t = "relay" /\ u = "tcp")
  BY <1>1, <1>5, Markers, Zenon DEF Transports
<1> QED BY <1>2, <1>3, <1>4, <1>5, Zenon

LEMMA DirectTransport ==
  ASSUME NEW a \in DirectAddrs
  PROVE  \E t \in {"tcp", "quic"} : Shaped(a, t)
<1>1. PICK t \in {"tcp", "quic"}, i \in {"lo", "eth"} : a = Direct(t, i)
  BY DEF DirectAddrs
<1> QED BY <1>1, DirectShape, Zenon

LEMMA SelfRecord ==
  ASSUME NEW ma
  PROVE  [NoAddr EXCEPT !.multiaddr = ma] = [peer_id |-> "self", multiaddr |-> ma, is_self |-> TRUE]
<1> DEFINE a == [NoAddr EXCEPT !.multiaddr = ma]
           b == [peer_id |-> "self", multiaddr |-> ma, is_self |-> TRUE]
<1>1. /\ DOMAIN a = {"peer_id", "multiaddr", "is_self"} /\ a = [f \in DOMAIN a |-> a[f]]
      /\ a["peer_id"] = "self" /\ a["multiaddr"] = ma /\ a["is_self"] = TRUE
  BY Zenon DEF NoAddr
<1>2. /\ DOMAIN b = {"peer_id", "multiaddr", "is_self"} /\ b = [f \in DOMAIN b |-> b[f]]
      /\ b["peer_id"] = "self" /\ b["multiaddr"] = ma /\ b["is_self"] = TRUE
  BY Zenon
<1> HIDE DEF a, b
<1>3. \A f \in DOMAIN a : a[f] = b[f]
  BY <1>1, <1>2, Zenon
<1>4. a = b
  BY <1>1, <1>2, <1>3, Zenon
<1> QED BY <1>4, Zenon DEF a, b

LEMMA ResolvedShown ==
  ASSUME NEW addrs \in Seq(DirectAddrs \cup CircuitAddrs), NEW config \in Config,
         1 \in DOMAIN addrs, addrs[1] \in DirectAddrs,
         \A i \in DOMAIN addrs : addrs[i] \in CircuitAddrs => \E j \in 1 .. i - 1 : Shaped(addrs[j], "tcp"),
         config[config.priority] => Listed(addrs, config.priority)
  PROVE  LET la == [i \in DOMAIN addrs |-> ResolveMultiaddr(addrs[i])]
             self == [NoAddr EXCEPT !.multiaddr = ResolveSelfMultiaddr(addrs, config.priority)]
         IN Shown(self, la, config) /\ Len(la) = Len(addrs)
<1> DEFINE la == [i \in DOMAIN addrs |-> ResolveMultiaddr(addrs[i])]
           ma == ResolveSelfMultiaddr(addrs, config.priority)
           self == [NoAddr EXCEPT !.multiaddr = ma]
<1>1. /\ DOMAIN addrs = 1..Len(addrs) /\ Len(addrs) \in Nat
      /\ \A i \in DOMAIN addrs : addrs[i] \in DirectAddrs \cup CircuitAddrs
  BY LenProperties, ElementOfSeq, Zenon
<1>2. ASSUME NEW a \in DirectAddrs PROVE \E t \in {"tcp", "quic"} : Shaped(a, t)
  BY DirectTransport, SMTT(30)
<1>3. ASSUME NEW a \in CircuitAddrs PROVE Shaped(a, "relay")
  BY RelayShape, Zenon DEF CircuitAddrs
<1>4. ASSUME NEW i \in DOMAIN addrs
      PROVE  \E t \in Transports : /\ Shaped(addrs[i], t) /\ Shaped(la[i], t) /\ la[i] \in Seq(Component)
                                   /\ t = "relay" => addrs[i] \in CircuitAddrs
                                   /\ ResolveMultiaddr(la[i]) = la[i]
                                   /\ \A p : Any(la[i], p) <=> Any(addrs[i], p)
  <2>1. PICK t \in Transports : Shaped(addrs[i], t) /\ (t = "relay" => addrs[i] \in CircuitAddrs)
    BY <1>1, <1>2, <1>3, Zenon DEF Transports
  <2>2. la[i] = ResolveMultiaddr(addrs[i])
    BY Zenon
  <2> HIDE DEF la
  <2>3. /\ Shaped(la[i], t) /\ ResolveMultiaddr(la[i]) = la[i]
        /\ \A p : Any(la[i], p) <=> Any(addrs[i], p)
    BY <2>1, <2>2, ResolveKeeps, Zenon
  <2>4. la[i] \in Seq(Component)
    BY <2>3, Zenon DEF Shaped
  <2> QED BY <2>1, <2>3, <2>4, Zenon
<1>5. la \in [1..Len(addrs) -> Seq(Component)] /\ DOMAIN la = DOMAIN addrs
  BY <1>1, <1>4, Zenon
<1>6. la \in Seq(Seq(Component)) /\ Len(la) = Len(addrs)
  BY <1>1, <1>5, SeqDef, LenProperties
<1>7. ma = ResolveMultiaddr(IF Listed(addrs, config.priority) THEN FindAddr(addrs, config.priority) ELSE addrs[1])
  BY Zenon DEF ResolveSelfMultiaddr
<1>8. \A i \in DOMAIN addrs : la[i] = ResolveMultiaddr(addrs[i])
  BY Zenon
<1>9. self = [peer_id |-> "self", multiaddr |-> ma, is_self |-> TRUE]
  BY SelfRecord, Zenon
<1> HIDE DEF la, ma, self
<1>10. config.priority \in {"tcp", "quic"}
  BY Zenon DEF Config
<1>11. \E k \in DOMAIN addrs, p \in {"tcp", "quic"} :
          ma = la[k] /\ Shaped(la[k], p) /\ First(la, p, k) /\ (config[config.priority] => p = config.priority)
  <2>1. CASE Listed(addrs, config.priority)
    <3> DEFINE p == config.priority
    <3>1. PICK k \in DOMAIN addrs : First(addrs, p, k)
      BY <2>1, FirstExists, Zenon
    <3>2. ma = la[k]
      <4>1. FindAddr(addrs, p) = addrs[k]
        BY <3>1, FirstUnique, Zenon
      <4> QED BY <1>7, <1>8, <2>1, <4>1, Zenon
    <3>3. PICK t \in Transports : /\ Shaped(addrs[k], t) /\ Shaped(la[k], t)
                                  /\ t = "relay" => addrs[k] \in CircuitAddrs
      BY <1>4, Zenon
    <3>4. t # "relay"
      <4>1. SUFFICES ASSUME t = "relay" PROVE FALSE
        BY Zenon
      <4>2. p = "tcp"
        BY <1>10, <3>1, <3>3, <4>1, OneTransport, Zenon DEF First
      <4>3. PICK j \in 1 .. k - 1 : Shaped(addrs[j], "tcp")
        BY <3>3, <4>1, Zenon
      <4>4. Any(addrs[j], Marker("tcp"))
        BY <4>3, OneTransport, Zenon DEF Transports
      <4> QED BY <3>1, <4>2, <4>3, <4>4, Zenon DEF First
    <3>5. t = p
      BY <1>10, <3>1, <3>3, <3>4, OneTransport, Zenon DEF First
    <3>6. First(la, p, k)
      <4>1. \A j \in 1 .. k - 1 : j \in DOMAIN addrs
        BY <1>1, <3>1 DEF First
      <4>2. \A j \in DOMAIN addrs : Any(la[j], Marker(p)) <=> Any(addrs[j], Marker(p))
        BY <1>4, Zenon
      <4> QED BY <1>5, <3>1, <4>1, <4>2, Zenon DEF First
    <3> QED BY <1>10, <3>2, <3>3, <3>5, <3>6, Zenon
  <2>2. CASE ~ Listed(addrs, config.priority)
    <3>1. ma = la[1]
      BY <1>7, <1>8, <2>2, Zenon
    <3>2. PICK p \in {"tcp", "quic"} : Shaped(addrs[1], p)
      BY <1>2, Zenon
    <3>3. PICK t \in Transports : Shaped(addrs[1], t) /\ Shaped(la[1], t)
      BY <1>4, Zenon
    <3>4. t = p /\ Any(la[1], Marker(p))
      BY <3>2, <3>3, OneTransport, Zenon DEF Transports
    <3>5. First(la, p, 1)
      BY <1>5, <3>4 DEF First
    <3> QED BY <2>2, <3>1, <3>3, <3>4, <3>5, Zenon
  <2> QED BY <2>1, <2>2, Zenon
<1>12. ASSUME NEW i \in DOMAIN la, Shaped(la[i], "relay") PROVE \E j \in 1 .. i - 1 : Shaped(la[j], "tcp")
  <2>1. PICK t \in Transports : Shaped(la[i], t) /\ (t = "relay" => addrs[i] \in CircuitAddrs)
    BY <1>4, <1>5, Zenon
  <2>2. t = "relay"
    BY <1>12, <2>1, OneTransport, Zenon DEF Transports
  <2>3. PICK j \in 1 .. i - 1 : Shaped(addrs[j], "tcp")
    BY <1>5, <2>1, <2>2, Zenon
  <2>4. j \in DOMAIN addrs
    BY <1>1, <1>5
  <2>5. PICK u \in Transports : Shaped(addrs[j], u) /\ Shaped(la[j], u)
    BY <1>4, <2>4, Zenon
  <2>6. u = "tcp"
    BY <2>3, <2>5, OneTransport, Zenon DEF Transports
  <2> QED BY <2>5, <2>6, Zenon
<1>13. \E k \in DOMAIN la :
         /\ self = [peer_id |-> "self", multiaddr |-> la[k], is_self |-> TRUE]
         /\ ~ Shaped(la[k], "relay")
         /\ First(la, TransportPrefix(la[k]), k)
         /\ config[config.priority] => Shaped(la[k], config.priority)
  <2>1. PICK k \in DOMAIN addrs, p \in {"tcp", "quic"} :
          ma = la[k] /\ Shaped(la[k], p) /\ First(la, p, k) /\ (config[config.priority] => p = config.priority)
    BY <1>11, Zenon
  <2>2. TransportPrefix(la[k]) = p /\ ~ Shaped(la[k], "relay")
    BY <2>1, OneTransport, SMTT(30) DEF Transports
  <2>3. k \in DOMAIN la /\ self = [peer_id |-> "self", multiaddr |-> la[k], is_self |-> TRUE]
    BY <1>5, <1>9, <2>1, Zenon
  <2>4. /\ First(la, TransportPrefix(la[k]), k)
        /\ config[config.priority] => Shaped(la[k], config.priority)
    BY <2>1, <2>2, Zenon
  <2> QED BY <2>2, <2>3, <2>4, Zenon
<1>14. \A i \in DOMAIN la : \E t \in {"tcp", "quic", "relay"} :
          Shaped(la[i], t) /\ ResolveMultiaddr(la[i]) = la[i]
  BY <1>4, <1>5, Zenon DEF Transports
<1>15. Shown(self, la, config)
  BY <1>6, <1>12, <1>13, <1>14, Zenon DEF Shown
<1> QED BY <1>6, <1>15, Zenon DEF la, self, ma

LEMMA ShownStep ==
  ASSUME RelayInv, CourseInv, AddrsInv, ShownInv, Node
  PROVE  ShownInv'
<1> DEFINE After == {"ready", "finalized"}
<1>1. ASSUME NEW name \in Names, NEW l \in BOOLEAN, NEW env \in EnvValues, Initialize(name, l, env)
      PROVE  ShownInv'
  <2>1. pc \notin After /\ pc' \notin After /\ UNCHANGED <<self_addr, listen_addrs>>
    BY <1>1, Zenon DEF Initialize, classVars
  <2> QED BY <2>1, Zenon DEF ShownInv
<1>2. CASE ListenFails \/ DialStep
  <2>1. pc \notin After /\ pc' \notin After /\ UNCHANGED <<self_addr, listen_addrs>>
    BY <1>2, Zenon DEF ListenFails, DialStep, RelayConnected, RelayUnreachable, SpawnFails, classVars
  <2> QED BY <2>1, Zenon DEF ShownInv
<1>3. ASSUME NEW t \in {"tcp", "quic"}, NEW i \in {"lo", "eth"}, NewListenAddr(t, i)
      PROVE  ShownInv'
  <2> DEFINE addrs == Append(resolved, Direct(t, i))
  <2>1. /\ pc \in Initializing /\ resolved' = addrs /\ transport_config' = transport_config
        /\ \/ pc' \in Initializing \cup {"aborted"} /\ UNCHANGED <<self_addr, listen_addrs>>
           \/ Succeed(addrs) /\ AllSeen(addrs)
    BY <1>3, Zenon DEF NewListenAddr, initVars, classVars, Initializing
  <2>2. CASE pc' \in Initializing \cup {"aborted"} /\ UNCHANGED <<self_addr, listen_addrs>>
    BY <2>1, <2>2, Zenon DEF ShownInv, Initializing
  <2>3. CASE Succeed(addrs) /\ AllSeen(addrs)
    <3>1. Direct(t, i) \in DirectAddrs /\ resolved \in Seq(DirectAddrs)
      BY <2>1 DEF DirectAddrs, AddrsInv
    <3>2. /\ addrs \in Seq(DirectAddrs)
          /\ DOMAIN addrs = 1..Len(resolved) + 1 /\ Len(resolved) \in Nat
      BY <3>1, OneMore
    <3> HIDE DEF addrs
    <3>3. /\ addrs \in Seq(DirectAddrs \cup CircuitAddrs)
          /\ \A k \in DOMAIN addrs : addrs[k] \in DirectAddrs
          /\ 1 \in DOMAIN addrs
      <4>1. addrs \in Seq(DirectAddrs \cup CircuitAddrs)
        BY <3>2, SeqMonotonic, Zenon
      <4>2. \A k \in DOMAIN addrs : addrs[k] \in DirectAddrs
        BY <3>2, LenProperties, ElementOfSeq, Zenon
      <4> QED BY <3>2, <4>1, <4>2
    <3>4. ASSUME NEW k \in DOMAIN addrs, addrs[k] \in CircuitAddrs PROVE FALSE
      <4>1. Shaped(addrs[k], "relay")
        BY <3>4, RelayShape, Zenon DEF CircuitAddrs
      <4>2. \E u \in {"tcp", "quic"} : Shaped(addrs[k], u)
        BY <3>3, DirectTransport, Zenon
      <4> QED BY <4>1, <4>2, OneTransport, Zenon DEF Transports
    <3>5. /\ transport_config \in Config
          /\ transport_config[transport_config.priority] => Listed(addrs, transport_config.priority)
      BY <2>3, Zenon DEF CourseInv, Config, AllSeen, Listeners
    <3>6. /\ Shown(self_addr', listen_addrs', transport_config)
          /\ Len(listen_addrs') = Len(addrs) /\ pc' = "ready"
      BY <2>3, <3>3, <3>4, <3>5, ResolvedShown, Zenon DEF Succeed
    <3> QED BY <2>1, <3>6, Zenon DEF ShownInv
  <2> QED BY <2>1, <2>2, <2>3, Zenon
<1>4. ASSUME NEW ma \in external, CircuitListenAddr(ma)
      PROVE  ShownInv'
  <2> DEFINE addrs == Append(resolved, Circuit(ma))
  <2>1. /\ pc = "reserving" /\ resolved' = addrs /\ transport_config' = transport_config /\ Succeed(addrs)
    BY <1>4, Zenon DEF CircuitListenAddr, initVars
  <2>2. PICK i \in Interfaces : ma = ListenAddr(i)
    BY Zenon DEF RelayInv
  <2>3. Circuit(ma) \in DirectAddrs \cup CircuitAddrs /\ resolved \in Seq(DirectAddrs \cup CircuitAddrs)
    BY <2>2, Zenon DEF CircuitAddrs, AddrsInv
  <2>4. /\ addrs \in Seq(DirectAddrs \cup CircuitAddrs)
        /\ DOMAIN resolved = 1..Len(resolved) /\ Len(resolved) \in Nat
        /\ DOMAIN addrs = 1..Len(resolved) + 1
        /\ \A k \in DOMAIN resolved : k \in DOMAIN addrs /\ addrs[k] = resolved[k]
        /\ \A t : Listed(resolved, t) => Listed(addrs, t)
    BY <2>3, OneMore
  <2> HIDE DEF addrs
  <2>5. /\ resolved \in Seq(DirectAddrs) /\ AllSeen(resolved) /\ "tcp" \in Listeners
    BY <2>1, Zenon DEF AddrsInv, Initializing
  <2>6. \A k \in DOMAIN resolved : addrs[k] \in DirectAddrs
    BY <2>4, <2>5, ElementOfSeq, Zenon
  <2>7. PICK j \in DOMAIN resolved : Shaped(addrs[j], "tcp")
    <3>1. PICK j \in DOMAIN resolved : Any(resolved[j], Marker("tcp"))
      BY <2>5, Zenon DEF AllSeen, Listed
    <3>2. PICK u \in {"tcp", "quic"} : Shaped(addrs[j], u)
      BY <2>6, DirectTransport, Zenon
    <3>3. u = "tcp"
      BY <2>4, <3>1, <3>2, OneTransport, Zenon DEF Transports
    <3> QED BY <3>2, <3>3, Zenon
  <2>8. 1 \in DOMAIN addrs /\ 1 \in DOMAIN resolved
    BY <2>4, <2>7
  <2>9. ASSUME NEW k \in DOMAIN addrs, addrs[k] \in CircuitAddrs
        PROVE  \E n \in 1 .. k - 1 : Shaped(addrs[n], "tcp")
    <3>1. k \notin DOMAIN resolved
      <4>1. SUFFICES ASSUME k \in DOMAIN resolved PROVE FALSE
        BY Zenon
      <4>2. Shaped(addrs[k], "relay")
        BY <2>9, RelayShape, Zenon DEF CircuitAddrs
      <4>3. \E u \in {"tcp", "quic"} : Shaped(addrs[k], u)
        BY <2>6, <4>1, DirectTransport, Zenon
      <4> QED BY <4>2, <4>3, OneTransport, Zenon DEF Transports
    <3>2. j \in 1 .. k - 1
      BY <2>4, <3>1
    <3> QED BY <2>7, <3>2, Zenon
  <2>10. /\ transport_config \in Config
         /\ transport_config[transport_config.priority] => Listed(addrs, transport_config.priority)
    BY <2>4, <2>5, Zenon DEF CourseInv, Config, AllSeen, Listeners
  <2>11. /\ Shown(self_addr', listen_addrs', transport_config)
         /\ Len(listen_addrs') = Len(addrs) /\ pc' = "ready"
    BY <2>1, <2>4, <2>6, <2>8, <2>9, <2>10, ResolvedShown, Zenon DEF Succeed
  <2> QED BY <2>1, <2>11, Zenon DEF ShownInv
<1>5. CASE AnswerReservation \/ RelayConnectionClosed \/ RelayRedialed
  BY <1>5, Zenon DEF AnswerReservation, RelayConnectionClosed, RelayRedialed, ShownInv, initVars, classVars
<1>6. CASE Finalize
  BY <1>6, Zenon DEF Finalize, ShownInv, initVars, classVars
<1> QED BY <1>1, <1>2, <1>3, <1>4, <1>5, <1>6, Zenon DEF Node, ListenStep

-----------------------------------------------------------------------------
(* Strings and bytes.                                                      *)

\* Looking up the string of an address gives the address back: the last peer id
\* is cut off, also where a circuit address has others before it.
LEMMA LookedUp ==
  ASSUME NEW ma, NEW t \in Transports, Shaped(ma, t)
  PROVE  AddrLookup(StringOf(ma, "self")) =
           Accepted("self", ma, IF t = "relay" THEN "ConnectViaRelay" ELSE "AddKnownAddr")
<1> DEFINE self == <<"p2p", "self">>
           path == Append(ma, self)
           s == StringOf(ma, "self")
           n == Len(ma)
<1>1. self \in Component /\ self[1] = "p2p" /\ self[2] = "self"
  BY OneComponent, Zenon DEF Protocols, Arguments
<1>2. s.prefix = t /\ s.path = path
  BY OneTransport, Zenon DEF StringOf
<1>3. ma \in Seq(Component) /\ n \in 1..5 /\ IsMultiaddr(ma)
  BY Zenon DEF Shaped
<1> HIDE DEF self, s
<1>4. /\ path \in Seq(Component) /\ Len(path) = n + 1 /\ path[n + 1] = self
      /\ DOMAIN ma = 1..n /\ DOMAIN path = 1..n + 1
      /\ \A k \in DOMAIN ma : path[k] = ma[k]
  BY <1>1, <1>3, OneMore
<1> HIDE DEF path
<1>5. P2pPos(path) = n + 1
  <2>1. n + 1 \in DOMAIN path /\ path[n + 1][1] = "p2p" /\ \A j \in n + 2 .. Len(path) : path[j][1] # "p2p"
    BY <1>1, <1>3, <1>4
  <2>2. ASSUME NEW i \in DOMAIN path, path[i][1] = "p2p", \A j \in i + 1 .. Len(path) : path[j][1] # "p2p"
        PROVE  i = n + 1
    <3>1. i \in 1..n + 1 /\ ~ (n + 1 \in i + 1 .. n + 1)
      BY <1>4, <2>1, <2>2, Zenon
    <3> QED BY <1>3, <3>1
  <2>3. (CHOOSE i \in DOMAIN path :
           path[i][1] = "p2p" /\ \A j \in i + 1 .. Len(path) : path[j][1] # "p2p") \in {n + 1}
    <3>1. (n + 1) + 1 = n + 2
      BY <1>3
    <3> QED BY <2>1, <2>2, <3>1, Zenon
  <2> QED BY <2>3, Zenon DEF P2pPos
<1>6. SubSeq(path, 1, (n + 1) - 1) = ma
  <2> DEFINE u == SubSeq(path, 1, n)
  <2>1. \A k \in 1..n : path[k] \in Component
    BY <1>3, <1>4, ElementOfSeq, Zenon
  <2>2. u \in Seq(Component) /\ Len(u) = n /\ \A k \in 1..n : u[k] = path[k]
    BY <1>3, <2>1, SubSeqProperties
  <2> HIDE DEF u
  <2>3. u = ma
    BY <1>3, <1>4, <2>2, SeqEqual, Zenon
  <2>4. (n + 1) - 1 = n
    BY <1>3
  <2> QED BY <2>3, <2>4, Zenon DEF u
<1>7. Any(path, "p2p") /\ path[n + 1][2] = "self" /\ "self" \in PeerIds /\ ma # NoMultiaddr
  BY <1>1, <1>3, <1>4, StartupAssumption DEF Any, NoMultiaddr
<1> HIDE DEF n
<1>8. AddrLookup(s) = Accepted("self", ma, IF s.prefix = "relay" THEN "ConnectViaRelay"
                                           ELSE IF ma # NoMultiaddr THEN "AddKnownAddr" ELSE "none")
  BY <1>2, <1>3, <1>5, <1>6, <1>7, Zenon DEF AddrLookup
<1>9. AddrLookup(s) = Accepted("self", ma, IF t = "relay" THEN "ConnectViaRelay" ELSE "AddKnownAddr")
  BY <1>2, <1>7, <1>8, Zenon
<1> QED BY <1>9, Zenon DEF s

LEMMA NoWrap ==
  ASSUME NEW n \in Nat, NEW limit \in Nat, n < limit
  PROVE  n % limit = n
BY SMT

\* The bytes of an address fit into the size asked for and give it back; its
\* length survives the 16 bits.
LEMMA Serialized ==
  ASSUME NEW ma, NEW t \in Transports, Shaped(ma, t), NEW a,
         a.peer_id = "self", a.multiaddr = ma
  PROVE  LET bytes == AddrSerialize(a, AddrGetSerializeSize(a))
         IN /\ bytes.ret = "SUCCESS"
            /\ AddrDeserialize(bytes.buf) = Accepted("self", ma, "none")
<1> DEFINE n == Len(ma)
           h == <<1, "self", n>>
           out == h \o ma
           bytes == AddrSerialize(a, AddrGetSerializeSize(a))
           S == {1, "self", n} \cup Component
<1>1. ma \in Seq(Component) /\ n \in 1..5 /\ IsMultiaddr(ma)
  BY Zenon DEF Shaped
<1>2. n % LengthLimit = n
  <2> HIDE DEF n
  <2>1. LengthLimit \in Nat /\ LengthLimit > 5
    BY StartupAssumption, AddressingAssumption, Zenon
  <2>2. n \in Nat /\ LengthLimit \in Nat /\ n < LengthLimit
    BY <1>1, <2>1
  <2> QED BY <2>2, NoWrap, Zenon
<1>3. bytes = [ret |-> IF Len(out) > 3 + n THEN "OVERFLOW" ELSE "SUCCESS", buf |-> out]
  BY <1>2, Zenon DEF AddrSerialize, AddrGetSerializeSize
<1>4. 1 \in S /\ "self" \in S /\ n \in S /\ Component \subseteq S
  BY Zenon
<1> HIDE DEF S
<1>5. h \in Seq(S) /\ Len(h) = 3 /\ h[1] = 1 /\ h[2] = "self" /\ h[3] = n
  BY <1>4
<1>6. ma \in Seq(S)
  BY <1>1, <1>4, SeqMonotonic, Zenon
<1> HIDE DEF h, bytes
<1>7. /\ out \in Seq(S) /\ Len(out) = Len(h) + Len(ma)
      /\ \A i \in 1..Len(h) + Len(ma) : out[i] = IF i <= Len(h) THEN h[i] ELSE ma[i - Len(h)]
  BY <1>5, <1>6, ConcatProperties, Zenon
<1> HIDE DEF out
<1>8. Len(out) = 3 + n /\ out[2] = "self" /\ out[3] = n /\ \A i \in 1..n : out[3 + i] = ma[i]
  BY <1>1, <1>5, <1>7
<1>9. bytes.ret = "SUCCESS" /\ bytes.buf = out
  BY <1>1, <1>3, <1>8
<1>10. SubSeq(out, 4, 3 + n) = ma
  <2> DEFINE u == SubSeq(out, 4, 3 + n)
  <2>1. \A i \in 4..3 + n : out[i] \in S
    BY <1>1, <1>7, <1>8, ElementOfSeq
  <2>2. /\ u \in Seq(S) /\ Len(u) = IF 4 <= 3 + n THEN (3 + n) - 4 + 1 ELSE 0
        /\ \A i \in 1..(3 + n) - 4 + 1 : u[i] = out[4 + i - 1]
    BY <1>1, <2>1, SubSeqProperties
  <2> HIDE DEF u
  <2>3. Len(u) = n /\ \A i \in 1..n : u[i] = out[3 + i]
    BY <1>1, <2>2
  <2>4. u = ma
    BY <1>6, <1>8, <2>2, <2>3, SeqEqual
  <2> QED BY <2>4, Zenon DEF u
<1>11. ~ (Len(out) < 3) /\ out[2] \in PeerIds /\ ~ (3 + out[3] > Len(out))
  BY <1>1, <1>8, StartupAssumption
<1> HIDE DEF n
<1>12. AddrDeserialize(out) = Accepted("self", ma, "none")
  BY <1>1, <1>8, <1>10, <1>11, Zenon DEF AddrDeserialize
<1> QED BY <1>9, <1>12, Zenon DEF bytes

\* The string of the self-address for a hint.
Chosen(text) == SelfString(self_addr, ReadTransportHint(text), listen_addrs)

\* The call of a user who asks for the size succeeds in its second attempt at the
\* latest.
LEMMA Shows ==
  ASSUME Shown(self_addr, listen_addrs, transport_config), NEW text, text # NullBuffer,
         Len(Chosen(text).path) \in Nat
  PROVE  ShownWith(text).ret = "SUCCESS" /\ ShownWith(text).buf = Chosen(text)
<1>1. PICK k \in DOMAIN listen_addrs :
        self_addr = [peer_id |-> "self", multiaddr |-> listen_addrs[k], is_self |-> TRUE]
  BY Zenon DEF Shown
<1>2. AddrSelf(self_addr) = self_addr /\ self_addr.is_self
  BY <1>1, Zenon DEF AddrSelf, AddrDup
<1> DEFINE first == AddrToString(self_addr, NullBuffer, 0, listen_addrs)
           s == Chosen(text)
           needed == Len(s.path) + 1
<1>3. ASSUME NEW size
      PROVE  AddrToString(self_addr, text, size, listen_addrs)
               = [ret |-> IF size < needed THEN "OVERFLOW" ELSE "SUCCESS", buf |-> s, buf_size |-> needed]
  BY <1>2, Zenon DEF AddrToString, Chosen
<1> HIDE DEF first, s
<1> DEFINE second == AddrToString(self_addr, text, first.buf_size, listen_addrs)
           third == AddrToString(self_addr, text, second.buf_size, listen_addrs)
<1>4. ShownWith(text) = IF second.ret = "SUCCESS" THEN second ELSE third
  BY <1>2, Zenon DEF ShownWith, first
<1>5. second.buf = s /\ second.buf_size = needed
  BY <1>3
<1>6. ~ (second.buf_size < needed)
  BY <1>5 DEF s
<1>7. third.buf = s /\ third.ret = "SUCCESS"
  BY <1>3, <1>6
<1> HIDE DEF second, third
<1> QED BY <1>4, <1>5, <1>7, Zenon DEF s

\* Every hint leads to an address of the list, the first of its transport, and to
\* one of the transport it names if there is one.
LEMMA ChosenAddr ==
  ASSUME Shown(self_addr, listen_addrs, transport_config), NEW text
  PROVE  \E k \in DOMAIN listen_addrs, t \in Transports :
           /\ Chosen(text) = StringOf(listen_addrs[k], "self")
           /\ Shaped(listen_addrs[k], t) /\ First(listen_addrs, t, k)
           /\ Chosen(text).prefix = t
           /\ ReadTransportHint(text) # "none" /\ Listed(listen_addrs, ReadTransportHint(text))
                => t = ReadTransportHint(text)
<1> DEFINE la == listen_addrs
           h == ReadTransportHint(text)
<1>1. PICK i \in DOMAIN la :
        /\ self_addr = [peer_id |-> "self", multiaddr |-> la[i], is_self |-> TRUE]
        /\ First(la, TransportPrefix(la[i]), i)
  BY Zenon DEF Shown
<1>2. self_addr.peer_id = "self" /\ self_addr.multiaddr = la[i]
  BY <1>1, Zenon
<1>3. h \in Transports \cup {"none"}
  BY Zenon DEF ReadTransportHint, Transports
<1>4. la \in Seq(Seq(Component)) /\ DOMAIN la = 1..Len(la) /\ Len(la) \in Nat
  BY LenProperties, Zenon DEF Shown
<1>5. \A k \in DOMAIN la : \E t \in Transports : Shaped(la[k], t)
  BY Zenon DEF Shown, Transports
<1>6. \A k \in DOMAIN la : StringOf(la[k], "self").prefix = TransportPrefix(la[k])
  BY Zenon DEF StringOf
<1>7. Chosen(text) = IF h # "none" /\ Listed(la, h) THEN StringOf(FindAddr(la, h), "self")
                     ELSE StringOf(la[i], "self")
  BY <1>2, Zenon DEF Chosen, SelfString, ToAddrString
<1> HIDE DEF h
<1>8. CASE h # "none" /\ Listed(la, h)
  <2>1. PICK k \in DOMAIN la : First(la, h, k)
    BY <1>4, <1>8, FirstExists, Zenon
  <2>2. FindAddr(la, h) = la[k]
    BY <1>4, <2>1, FirstUnique, Zenon
  <2>3. PICK t \in Transports : Shaped(la[k], t)
    BY <1>5, Zenon
  <2>4. t = h
    <3>1. h \in Transports /\ Any(la[k], Marker(h))
      BY <1>3, <1>8, <2>1, Zenon DEF First
    <3>2. CASE h = "relay"
      BY <2>3, <3>1, <3>2, OneTransport, Zenon
    <3>3. CASE h \in {"tcp", "quic"}
      <4>1. t = h \/ (t = "relay" /\ h = "tcp")
        BY <2>3, <3>1, <3>3, OneTransport, Zenon
      <4>2. ASSUME t = "relay", h = "tcp" PROVE FALSE
        <5>1. PICK j \in 1 .. k - 1 : Shaped(la[j], "tcp")
          BY <2>3, <4>2, Zenon DEF Shown
        <5>2. Any(la[j], Marker("tcp"))
          BY <5>1, OneTransport, Zenon DEF Transports
        <5> QED BY <2>1, <4>2, <5>1, <5>2, Zenon DEF First
      <4> QED BY <4>1, <4>2, Zenon
    <3> QED BY <3>1, <3>2, <3>3, Zenon DEF Transports
  <2>5. Chosen(text) = StringOf(la[k], "self")
    BY <1>7, <1>8, <2>2, Zenon
  <2>6. Chosen(text).prefix = t
    BY <1>6, <2>3, <2>5, OneTransport, Zenon
  <2> QED BY <2>1, <2>3, <2>4, <2>5, <2>6, Zenon DEF h
<1>9. CASE ~ (h # "none" /\ Listed(la, h))
  <2>1. PICK t \in Transports : Shaped(la[i], t)
    BY <1>5, Zenon
  <2>2. TransportPrefix(la[i]) = t
    BY <2>1, OneTransport, Zenon
  <2>3. Chosen(text) = StringOf(la[i], "self")
    BY <1>7, <1>9, Zenon
  <2>4. Chosen(text).prefix = t /\ First(la, t, i)
    BY <1>1, <1>6, <2>2, <2>3, Zenon
  <2> QED BY <1>9, <2>1, <2>3, <2>4, Zenon DEF h
<1> QED BY <1>8, <1>9, Zenon

-----------------------------------------------------------------------------
(* The properties follow from the invariant.                               *)

LEMMA SelfFollows ==
  ASSUME StartupInv
  PROVE  SelfAddrFollowsPriority
<1> SUFFICES ASSUME pc = "ready"
             PROVE  /\ ~ Any(self_addr.multiaddr, "p2p-circuit")
                    /\ transport_config[transport_config.priority]
                         => Any(self_addr.multiaddr, Marker(transport_config.priority))
  BY Zenon DEF SelfAddrFollowsPriority
<1>1. Shown(self_addr, listen_addrs, transport_config) /\ transport_config.priority \in Transports
  BY Zenon DEF StartupInv, ShownInv, CourseInv, Config, Transports
<1>2. PICK k \in DOMAIN listen_addrs :
        /\ self_addr = [peer_id |-> "self", multiaddr |-> listen_addrs[k], is_self |-> TRUE]
        /\ ~ Shaped(listen_addrs[k], "relay")
        /\ transport_config[transport_config.priority] => Shaped(listen_addrs[k], transport_config.priority)
  BY <1>1, Zenon DEF Shown
<1>3. self_addr.multiaddr = listen_addrs[k]
  BY <1>2, Zenon
<1>4. PICK t \in Transports : Shaped(listen_addrs[k], t)
  BY <1>1, Zenon DEF Shown, Transports
<1>5. ~ Any(listen_addrs[k], "p2p-circuit")
  BY <1>2, <1>4, OneTransport, Markers, Zenon
<1>6. transport_config[transport_config.priority]
        => Any(listen_addrs[k], Marker(transport_config.priority))
  BY <1>1, <1>2, OneTransport, Zenon
<1> QED BY <1>3, <1>5, <1>6, Zenon

\* What a hint shows, with the size that it needs.
LEMMA ShownAddr ==
  ASSUME Shown(self_addr, listen_addrs, transport_config), NEW text, text # NullBuffer
  PROVE  /\ ShownWith(text).ret = "SUCCESS"
         /\ \E k \in DOMAIN listen_addrs, t \in Transports :
              /\ ShownWith(text).buf = StringOf(listen_addrs[k], "self")
              /\ Shaped(listen_addrs[k], t) /\ First(listen_addrs, t, k)
              /\ ShownWith(text).buf.prefix = t
              /\ ReadTransportHint(text) # "none" /\ Listed(listen_addrs, ReadTransportHint(text))
                   => t = ReadTransportHint(text)
<1>1. PICK k \in DOMAIN listen_addrs, t \in Transports :
        /\ Chosen(text) = StringOf(listen_addrs[k], "self")
        /\ Shaped(listen_addrs[k], t) /\ First(listen_addrs, t, k)
        /\ Chosen(text).prefix = t
        /\ ReadTransportHint(text) # "none" /\ Listed(listen_addrs, ReadTransportHint(text))
             => t = ReadTransportHint(text)
  BY ChosenAddr, Zenon
<1>2. Len(Chosen(text).path) \in Nat
  <2> DEFINE self == <<"p2p", "self">>
             ma == listen_addrs[k]
  <2>1. self \in Component
    BY OneComponent, Zenon DEF Protocols, Arguments
  <2>2. Chosen(text).path = Append(ma, self)
    BY <1>1 DEF StringOf
  <2>3. ma \in Seq(Component)
    BY <1>1, Zenon DEF Shaped
  <2> HIDE DEF self, ma
  <2>4. Append(ma, self) \in Seq(Component)
    BY <2>1, <2>3, OneMore, Zenon
  <2> QED BY <2>2, <2>4, LenProperties, Zenon
<1>3. ShownWith(text).ret = "SUCCESS" /\ ShownWith(text).buf = Chosen(text)
  BY <1>2, Shows, Zenon
<1> QED BY <1>1, <1>3, Zenon

LEMMA HintsStay ==
  ASSUME StartupInv
  PROVE  HintStable
<1> SUFFICES ASSUME pc = "ready", NEW text \in Texts
             PROVE  /\ ShownWith(text).ret = "SUCCESS"
                    /\ ShownWith(ShownWith(text).buf.prefix).buf = ShownWith(text).buf
                    /\ ReadTransportHint(text) # "none" /\ Listed(listen_addrs, ReadTransportHint(text))
                         => ShownWith(text).buf.prefix = ReadTransportHint(text)
  BY Zenon DEF HintStable
<1>1. Shown(self_addr, listen_addrs, transport_config) /\ text # NullBuffer
  BY Zenon DEF StartupInv, ShownInv, Texts, NullBuffer
<1>2. ShownWith(text).ret = "SUCCESS"
  BY <1>1, ShownAddr, Zenon
<1>3. PICK k \in DOMAIN listen_addrs, t \in Transports :
        /\ ShownWith(text).buf = StringOf(listen_addrs[k], "self")
        /\ Shaped(listen_addrs[k], t) /\ First(listen_addrs, t, k)
        /\ ShownWith(text).buf.prefix = t
        /\ ReadTransportHint(text) # "none" /\ Listed(listen_addrs, ReadTransportHint(text))
             => t = ReadTransportHint(text)
  BY <1>1, ShownAddr, Zenon
<1>4. t # NullBuffer /\ ReadTransportHint(t) = t /\ t # "none"
  BY Zenon DEF Transports, NullBuffer, ReadTransportHint
<1>5. PICK m \in DOMAIN listen_addrs, u \in Transports :
        /\ ShownWith(t).buf = StringOf(listen_addrs[m], "self")
        /\ First(listen_addrs, u, m)
        /\ ReadTransportHint(t) # "none" /\ Listed(listen_addrs, ReadTransportHint(t))
             => u = ReadTransportHint(t)
  BY <1>1, <1>4, ShownAddr, Zenon
<1>6. listen_addrs \in Seq(Seq(Component))
  BY <1>1, Zenon DEF Shown
<1>7. FindAddr(listen_addrs, t) = listen_addrs[k] /\ Listed(listen_addrs, t)
  BY <1>3, <1>6, FirstUnique, Zenon
<1>8. u = t
  BY <1>4, <1>5, <1>7, Zenon
<1>9. FindAddr(listen_addrs, t) = listen_addrs[m]
  BY <1>5, <1>6, <1>8, FirstUnique, Zenon
<1> QED BY <1>2, <1>3, <1>5, <1>7, <1>9, Zenon

LEMMA RoundTrips ==
  ASSUME StartupInv
  PROVE  RoundTrip
<1> DEFINE s(text) == ShownWith(text).buf
           found(text) == AddrLookup(s(text))
           dup(text) == AddrDup(found(text).addr)
           bytes(text) == AddrSerialize(dup(text), AddrGetSerializeSize(dup(text)))
           copy(text) == AddrDeserialize(bytes(text).buf)
<1>1. SUFFICES ASSUME pc = "ready", NEW text \in Texts
               PROVE  /\ found(text).ret = "SUCCESS"
                      /\ ResolveMultiaddr(found(text).addr.multiaddr) = found(text).addr.multiaddr
                      /\ \E i \in DOMAIN listen_addrs : found(text).addr.multiaddr = listen_addrs[i]
                      /\ found(text).command = (IF Any(found(text).addr.multiaddr, "p2p-circuit")
                                                THEN "ConnectViaRelay" ELSE "AddKnownAddr")
                      /\ bytes(text).ret = "SUCCESS"
                      /\ copy(text).ret = "SUCCESS" /\ copy(text).addr = found(text).addr
                      /\ AddrCmp(copy(text).addr, found(text).addr) /\ AddrIsSelf(copy(text).addr, self_addr)
  BY Zenon DEF RoundTrip
<1>2. Shown(self_addr, listen_addrs, transport_config) /\ text # NullBuffer
  BY <1>1, Zenon DEF StartupInv, ShownInv, Texts, NullBuffer
<1>3. PICK k \in DOMAIN listen_addrs, t \in Transports :
        /\ ShownWith(text).buf = StringOf(listen_addrs[k], "self") /\ Shaped(listen_addrs[k], t)
  BY <1>2, ShownAddr, Zenon
<1> DEFINE ma == listen_addrs[k]
           command == IF t = "relay" THEN "ConnectViaRelay" ELSE "AddKnownAddr"
           a == [peer_id |-> "self", multiaddr |-> ma, is_self |-> FALSE]
<1>4. found(text) = Accepted("self", ma, command)
  BY <1>3, LookedUp, Zenon
<1>5. found(text).ret = "SUCCESS" /\ found(text).command = command /\ found(text).addr = a
  <2> HIDE DEF ma, command, found
  <2> QED BY <1>4 DEF Accepted
<1>6. dup(text) = a
  <2> HIDE DEF ma, found
  <2> QED BY <1>5, Zenon DEF AddrDup
<1>7. bytes(text).ret = "SUCCESS" /\ copy(text) = Accepted("self", ma, "none")
  <2> HIDE DEF dup, ma
  <2>1. dup(text).peer_id = "self" /\ dup(text).multiaddr = ma
    BY <1>6
  <2>2. Shaped(ma, t)
    BY <1>3, Zenon DEF ma
  <2> QED BY <2>1, <2>2, Serialized, Zenon
<1> HIDE DEF found, bytes, copy, dup
<1>8. copy(text).ret = "SUCCESS" /\ copy(text).addr = a
  <2> HIDE DEF ma
  <2> QED BY <1>7 DEF Accepted
<1>9. ResolveMultiaddr(ma) = ma
  BY <1>2, Zenon DEF Shown
<1>10. Any(ma, "p2p-circuit") <=> t = "relay"
  BY <1>3, Zenon DEF Shaped
<1>11. a.peer_id = "self" /\ a.multiaddr = ma
  BY Zenon
<1>12. self_addr.peer_id = "self"
  <2>1. PICK i \in DOMAIN listen_addrs :
          self_addr = [peer_id |-> "self", multiaddr |-> listen_addrs[i], is_self |-> TRUE]
    BY <1>2, Zenon DEF Shown
  <2> QED BY <2>1, Zenon
<1>13. AddrCmp(copy(text).addr, found(text).addr) /\ AddrIsSelf(copy(text).addr, self_addr)
  BY <1>5, <1>8, <1>11, <1>12, Zenon DEF AddrCmp, AddrIsSelf
<1>14. \E i \in DOMAIN listen_addrs : found(text).addr.multiaddr = listen_addrs[i]
  BY <1>5, <1>11, Zenon
<1>15. found(text).addr.multiaddr = ma
  BY <1>5, <1>11, Zenon
<1>16. found(text).command = (IF Any(found(text).addr.multiaddr, "p2p-circuit")
                              THEN "ConnectViaRelay" ELSE "AddKnownAddr")
  BY <1>5, <1>10, <1>15, Zenon
<1> HIDE DEF a, ma, command
<1> QED BY <1>5, <1>7, <1>8, <1>9, <1>13, <1>14, <1>15, <1>16, Zenon

LEMMA TypesFollow ==
  ASSUME StartupInv
  PROVE  TypeOK
<1>1. RelayTypeOK /\ relay_addr \in EnvAddrs
  BY Zenon DEF StartupInv, RelayInv, CourseInv
<1>2. relay_addr = Invalid \/ IsMultiaddr(relay_addr)
  BY <1>1, EnvShape, Zenon
<1>3. \A i \in DOMAIN resolved : resolved[i] # NoMultiaddr /\ IsMultiaddr(resolved[i])
  <2>1. \A i \in DOMAIN resolved : resolved[i] \in DirectAddrs \cup CircuitAddrs
    BY LenProperties, ElementOfSeq, Zenon DEF StartupInv, AddrsInv
  <2>2. ASSUME NEW a \in DirectAddrs \cup CircuitAddrs PROVE \E t \in Transports : Shaped(a, t)
    <3>1. CASE a \in DirectAddrs
      BY <3>1, DirectTransport, Zenon DEF Transports
    <3>2. CASE a \in CircuitAddrs
      BY <3>2, RelayShape, Zenon DEF CircuitAddrs, Transports
    <3> QED BY <3>1, <3>2, Zenon
  <2>3. ASSUME NEW a, NEW t \in Transports, Shaped(a, t) PROVE a # NoMultiaddr /\ IsMultiaddr(a)
    <3>1. Len(a) \in 1..5 /\ IsMultiaddr(a)
      BY <2>3, Zenon DEF Shaped
    <3>2. Len(NoMultiaddr) = 0
      BY Zenon DEF NoMultiaddr
    <3>3. a # NoMultiaddr
      BY <3>1, <3>2, SMTT(30)
    <3> QED BY <3>1, <3>3, Zenon
  <2> QED BY <2>1, <2>2, <2>3, Zenon
<1>4. /\ self_addr.peer_id = "self" /\ self_addr.is_self /\ IsMultiaddr(self_addr.multiaddr)
      /\ Len(listen_addrs) <= Len(resolved)
  <2>1. Len(resolved) \in Nat
    BY LenProperties, Zenon DEF StartupInv, AddrsInv
  <2>2. CASE pc \in {"ready", "finalized"}
    <3>1. Shown(self_addr, listen_addrs, transport_config) /\ Len(listen_addrs) = Len(resolved)
      BY <2>2, Zenon DEF StartupInv, ShownInv
    <3>2. PICK k \in DOMAIN listen_addrs :
            self_addr = [peer_id |-> "self", multiaddr |-> listen_addrs[k], is_self |-> TRUE]
      BY <3>1, Zenon DEF Shown
    <3>3. PICK t \in Transports : Shaped(listen_addrs[k], t)
      BY <3>1, Zenon DEF Shown, Transports
    <3>4. IsMultiaddr(listen_addrs[k])
      BY <3>3, Zenon DEF Shaped
    <3> QED BY <2>1, <3>1, <3>2, <3>4
  <2>3. CASE pc \notin {"ready", "finalized"}
    <3>1. self_addr = NoAddr /\ listen_addrs = <<>>
      BY <2>3, Zenon DEF StartupInv, ShownInv
    <3>2. IsMultiaddr(NoMultiaddr)
      BY DEF IsMultiaddr, NoMultiaddr
    <3>3. self_addr.peer_id = "self" /\ self_addr.is_self /\ self_addr.multiaddr = NoMultiaddr
      BY <3>1, Zenon DEF NoAddr
    <3> QED BY <2>1, <3>1, <3>2, <3>3
  <2> QED BY <2>2, <2>3, Zenon
<1> QED BY <1>1, <1>2, <1>3, <1>4, Zenon DEF TypeOK, StartupInv, CourseInv, Config

-----------------------------------------------------------------------------
(* Theorems.                                                               *)

LEMMA InitStartup ==
  ASSUME Init
  PROVE  StartupInv
<1>1. RelayInv
  BY Zenon DEF Init, RelayInit, RelayInv, RelayTypeOK
<1>2. CourseInv
  BY ConfigType, Zenon DEF Init, CourseInv, EnvAddrs, FdReleased, Initializing
<1>3. AddrsInv
  BY DEF Init, AddrsInv, Initializing
<1>4. ShownInv
  BY Zenon DEF Init, ShownInv
<1> QED BY <1>1, <1>2, <1>3, <1>4, Zenon DEF StartupInv

\* A step that changes nothing of the endpoint keeps what is said of it.
LEMMA EndpointKept ==
  ASSUME CourseInv, AddrsInv, ShownInv,
         UNCHANGED <<pc, initVars, event_fd, resolved, linkVars, classVars>>
  PROVE  CourseInv' /\ AddrsInv' /\ ShownInv'
<1>1. UNCHANGED <<pc, transport_config, listen, relay_addr, event_fd, resolved, relay_conn, reservation,
                  self_addr, listen_addrs>>
  BY Zenon DEF initVars, linkVars, classVars
<1>2. CourseInv'
  BY <1>1, Zenon DEF CourseInv, FdReleased
<1>3. AddrsInv'
  <2>1. Listeners' = Listeners
    BY <1>1, Zenon DEF Listeners
  <2>2. AllSeen(resolved) => AllSeen(resolved)'
    BY <1>1, <2>1, Zenon DEF AllSeen
  <2> QED BY <1>1, <2>1, <2>2, Zenon DEF AddrsInv
<1>4. ShownInv'
  BY <1>1, Zenon DEF ShownInv
<1> QED BY <1>2, <1>3, <1>4, Zenon

LEMMA StartupStep ==
  ASSUME StartupInv, [Next]_vars
  PROVE  StartupInv'
<1>1. RelayInv /\ CourseInv /\ AddrsInv /\ ShownInv
  BY Zenon DEF StartupInv
<1>2. CASE Node
  <2>1. UNCHANGED relayVars
    BY <1>2, Zenon DEF Node, Initialize, ListenStep, ListenFails, NewListenAddr, DialStep, RelayConnected,
         RelayUnreachable, AnswerReservation, CircuitListenAddr, RelayConnectionClosed, RelayRedialed,
         Finalize
  <2>2. RelayInv'
    BY <1>1, <2>1, Zenon DEF relayVars, RelayInv, RelayTypeOK
  <2> QED BY <1>1, <1>2, <2>2, CourseStep, AddrsStep, ShownStep, Zenon DEF StartupInv
<1>3. CASE RelayProgram /\ UNCHANGED <<pc, initVars, event_fd, resolved, linkVars, classVars>>
  BY <1>1, <1>3, RelayStep, EndpointKept, Zenon DEF StartupInv
<1>4. CASE UNCHANGED vars
  <2>1. UNCHANGED <<pc, initVars, event_fd, resolved, linkVars, classVars>> /\ UNCHANGED relayVars
    BY <1>4, Zenon DEF vars
  <2>2. RelayInv'
    BY <1>1, <2>1, Zenon DEF relayVars, RelayInv, RelayTypeOK
  <2> QED BY <1>1, <2>1, <2>2, EndpointKept, Zenon DEF StartupInv
<1> QED BY <1>2, <1>3, <1>4, Zenon DEF Next

LEMMA StartupInvAlways == Spec => []StartupInv
<1>1. Init => StartupInv
  BY InitStartup, Zenon
<1>2. StartupInv /\ [Next]_vars => StartupInv'
  BY StartupStep, Zenon
<1> QED BY <1>1, <1>2, PTL DEF Spec

\* The variables of the endpoint and of the relay have the shape the code gives
\* them; in particular every address that initialize collects is a multiaddr.
THEOREM StartupTypeCorrect == Spec => []TypeOK
<1>1. StartupInv => TypeOK
  BY TypesFollow, Zenon
<1> QED BY <1>1, StartupInvAlways, PTL

\* No initialize that fails and no finalize leaves an eventfd open, but the one
\* whose MERCURY_RELAY_ADDR does not parse.
THEOREM EventFdReleased == Spec => []FdReleased
<1>1. StartupInv => FdReleased
  BY Zenon DEF StartupInv, CourseInv
<1> QED BY <1>1, StartupInvAlways, PTL

\* The relay's address file never shows a loopback address once a routable one
\* has been reported, whatever interfaces there are and in whatever order.
THEOREM FileStaysRoutable == Spec => []FilePrefersRoutable
<1>1. StartupInv => FilePrefersRoutable
  BY Zenon DEF StartupInv, RelayInv, FilePrefersRoutable
<1> QED BY <1>1, StartupInvAlways, PTL

\* resolve_self_multiaddr never takes a circuit address for a tcp one, and takes
\* one of the priority transport if that is enabled.
THEOREM SelfAddrOfPriority == Spec => []SelfAddrFollowsPriority
<1>1. StartupInv => SelfAddrFollowsPriority
  BY SelfFollows, Zenon
<1> QED BY <1>1, StartupInvAlways, PTL

\* addr_to_string honours the hint in the buffer, its second attempt has room, and
\* the string it leaves there is a hint for itself.
THEOREM HintsAlwaysStable == Spec => []HintStable
<1>1. StartupInv => HintStable
  BY HintsStay, Zenon
<1> QED BY <1>1, StartupInvAlways, PTL

\* addr_lookup of what addr_to_string shows, and deserializing what was serialized
\* from it, give the address that was shown, by the command its transport needs.
THEOREM AddrsRoundTrip == Spec => []RoundTrip
<1>1. StartupInv => RoundTrip
  BY RoundTrips, Zenon
<1> QED BY <1>1, StartupInvAlways, PTL

=============================================================================
