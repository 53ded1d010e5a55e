---------------------------- MODULE RelayServer -----------------------------
(***************************************************************************)
(* The relay server program: it parses its arguments, listens on every     *)
(* interface, and for every address the swarm reports it registers an      *)
(* external address, without which a reservation is refused, and writes    *)
(* the address file from which the endpoints are configured.               *)
(***************************************************************************)
EXTENDS Naturals, Sequences

CONSTANTS
  Interfaces,      \* the interfaces of the relay's host
  Loopback         \* those among them that are loopback

ASSUME InterfacesAssumption == Loopback \subseteq Interfaces

VARIABLES
  relay,          \* "off", "up", "exited"
  reported,       \* the interfaces the swarm has reported
  external,       \* the relay's external addresses
  addr_file,      \* the contents of the address file, <<>> if there is none
  addr_written

relayVars == <<relay, reported, external, addr_file, addr_written>>

NoFile == <<>>
ListenAddr(i) == <<<<"ip4", i>>, <<"tcp", "">>>>
FullAddr(ma) == Append(ma, <<"p2p", "relay">>)
OnLoopback(ma) == \E i \in DOMAIN ma : ma[i][1] = "ip4" /\ ma[i][2] \in Loopback

RelayTypeOK ==
  /\ relay \in {"off", "up", "exited"}
  /\ reported \subseteq Interfaces
  /\ \A ma \in external : ma[1][1] = "ip4"
  /\ addr_written \in BOOLEAN
  /\ addr_file \in {NoFile} \cup {FullAddr(ListenAddr(i)) : i \in Interfaces}

RelayInit ==
  /\ relay = "off"
  /\ reported = {}
  /\ external = {}
  /\ addr_file = NoFile
  /\ addr_written = FALSE

\* parse_args and main up to the loop.
ParseArgs(args) ==
  /\ {"--secret-key-seed", "--addr-file"} \subseteq args
  /\ args \subseteq {"--secret-key-seed", "--addr-file", "--port"}
RelayMain(args) ==
  /\ relay = "off"
  /\ relay' = IF ParseArgs(args) THEN "up" ELSE "exited"
  /\ UNCHANGED <<reported, external, addr_file, addr_written>>

\* The address is external before anybody can read it in the file.
RelayExternal_None(ma) == external
RelayExternal(ma) == external \cup {ma}

\* Is the file written for this address?
WritesFile_Always(loopback) == TRUE
WritesFile(loopback) == ~ addr_written \/ ~ loopback

\* NewListenAddr; the program ends if the file cannot be written.
RelayNewListenAddr(i) ==
  LET ma == ListenAddr(i) IN
  /\ relay = "up"
  /\ i \notin reported
  /\ reported' = reported \cup {i}
  /\ external' = RelayExternal(ma)
  /\ IF WritesFile(OnLoopback(ma))
     THEN \/ /\ addr_file' = FullAddr(ma)
             /\ addr_written' = (addr_written \/ ~ OnLoopback(ma))
             /\ UNCHANGED relay
          \/ /\ relay' = "exited"
             /\ UNCHANGED <<addr_file, addr_written>>
     ELSE UNCHANGED <<relay, addr_file, addr_written>>

\* Identify tells the address under which a peer sees the relay.
RelayIdentify(observed_addr) ==
  /\ relay = "up"
  /\ external' = external \cup {observed_addr}
  /\ UNCHANGED <<relay, reported, addr_file, addr_written>>

\* ctrl_c.
RelayShutdown ==
  /\ relay = "up"
  /\ relay' = "exited"
  /\ UNCHANGED <<reported, external, addr_file, addr_written>>

\* Once a routable address has been reported the file never shows a loopback
\* address, whatever the order of the reports, so that peers on other hosts can
\* use it.
FilePrefersRoutable ==
  relay = "up" /\ reported \ Loopback # {} => addr_file # NoFile /\ ~ OnLoopback(addr_file)
=============================================================================
