---------------------------- MODULE RelayConnect ----------------------------
(***************************************************************************)
(* The connection side of the command loop (spawn_swarm_task): the         *)
(* commands NA threads send it, the swarm events it reacts to, the table   *)
(* of pending relay lookups, and the addr_lookup calls that block on it.   *)
(*                                                                         *)
(* Of a multiaddr only its kind is kept: a relay circuit or a direct       *)
(* address.  The libp2p swarm is external: a peer has a set of kinds of    *)
(* established connections and a set of dials under way, and a dial may    *)
(* succeed or fail at any time.                                            *)
(***************************************************************************)
EXTENDS Naturals, Sequences, Functions

CONSTANTS
  Lookups,      \* NA threads that look up relay addresses
  Peers,
  RelayServer,  \* the relay this endpoint is configured with, if it is among Peers
  NoPending,
  MaxCmds       \* bound on the commands waiting in the channel

ASSUME RelayAssumption ==
  /\ MaxCmds \in Nat
  /\ NoPending \notin [lookup : Lookups, relay_connected : BOOLEAN]

VARIABLES
  running,        \* the loop has not ended
  cmds,           \* the command channel
  lookup,         \* each thread's addr_lookup call, and its result once there is one
  peer_addrs,     \* the kind of the address stored for each peer
  pending_dcutr,  \* the loop's table of pending relay lookups
  senders,        \* peers with an entry in sender_pool
  conns,          \* kinds of the connections established to each peer
  dials,          \* kinds of the dials under way to each peer
  dcutr           \* where libp2p is with hole punching to each peer

loopVars == <<peer_addrs, pending_dcutr, senders>>
swarmVars == <<conns, dials, dcutr>>
vars == <<running, cmds, lookup, loopVars, swarmVars>>

RelayConnectResult == {"Direct", "RelayOnly", "Failed"}
Returned == RelayConnectResult \cup {"dropped"}
PendingDcutr == [lookup : Lookups, relay_connected : BOOLEAN]
Command == [type : {"ConnectViaRelay"}, peer : Peers, lookup : Lookups]
             \cup [type : {"AddKnownAddr", "SendMessage"}, peer : Peers]
             \cup [type : {"Shutdown"}]

\* All state variables have the shape the code gives them.
TypeOK ==
  /\ running \in BOOLEAN
  /\ cmds \in Seq(Command)
  /\ lookup \in [Lookups -> {"idle", "blocked"} \cup Returned]
  /\ peer_addrs \in [Peers -> {"none", "circuit", "direct"}]
  /\ pending_dcutr \in [Peers -> PendingDcutr \cup {NoPending}]
  /\ senders \subseteq Peers
  /\ conns \in [Peers -> SUBSET {"relayed", "direct"}]
  /\ dials \in [Peers -> SUBSET {"circuit", "direct", "punch"}]
  /\ dcutr \in [Peers -> {"idle", "running", "succeeded"}]

\* The loop starts when the connection to the relay is established.
Init ==
  /\ running = TRUE
  /\ cmds = <<>>
  /\ lookup = [l \in Lookups |-> "idle"]
  /\ peer_addrs = [p \in Peers |-> "none"]
  /\ pending_dcutr = [p \in Peers |-> NoPending]
  /\ senders = {}
  /\ conns = [p \in Peers |-> IF p = RelayServer THEN {"direct"} ELSE {}]
  /\ dials = [p \in Peers |-> {}]
  /\ dcutr = [p \in Peers |-> "idle"]

-----------------------------------------------------------------------------
(* NA threads.                                                             *)

Send(c) ==
  /\ running
  /\ Len(cmds) < MaxCmds
  /\ cmds' = Append(cmds, c)

\* addr_lookup of a relay address sends its command and blocks on the oneshot.
\* Once the loop has ended the command is dropped, and its result_tx with it.
AddrLookupRelay(l, p) ==
  /\ lookup[l] = "idle"
  /\ \/ /\ Send([type |-> "ConnectViaRelay", peer |-> p, lookup |-> l])
        /\ lookup' = [lookup EXCEPT ![l] = "blocked"]
     \/ /\ ~ running
        /\ lookup' = [lookup EXCEPT ![l] = "dropped"]
        /\ UNCHANGED cmds
  /\ UNCHANGED <<running, loopVars, swarmVars>>

\* blocking_recv returns, and addr_lookup with it.
AddrLookupReturns(l) ==
  /\ lookup[l] \in Returned
  /\ lookup' = [lookup EXCEPT ![l] = "idle"]
  /\ UNCHANGED <<running, cmds, loopVars, swarmVars>>

\* addr_lookup of a direct address, a send, a put or a get, and finalize.
SendCommand ==
  /\ \/ \E p \in Peers, type \in {"AddKnownAddr", "SendMessage"} : Send([type |-> type, peer |-> p])
     \/ Send([type |-> "Shutdown"])
  /\ UNCHANGED <<running, lookup, loopVars, swarmVars>>

-----------------------------------------------------------------------------
(* Commands, in the order the loop takes them from the channel.            *)

TakeCommand(type) ==
  /\ running
  /\ cmds # <<>>
  /\ Head(cmds).type = type
  /\ cmds' = Tail(cmds)

\* swarm.dial under PeerCondition::DisconnectedAndNotDialing.
CanDial(p) == conns[p] = {} /\ dials[p] = {}
Dial(p, kind) == dials' = [dials EXCEPT ![p] = IF CanDial(p) THEN @ \cup {kind} ELSE @]

AddrKind(p) == IF peer_addrs[p] = "circuit" THEN "circuit" ELSE "direct"

HandleAddKnownAddr ==
  LET p == Head(cmds).peer IN
  /\ TakeCommand("AddKnownAddr")
  /\ peer_addrs' = [peer_addrs EXCEPT ![p] = "direct"]
  /\ Dial(p, "direct")
  /\ UNCHANGED <<running, lookup, pending_dcutr, senders, conns, dcutr>>

\* What the lookups see when the entry of p is dropped with its result_tx.
WithoutOwner_Forgotten(p) == lookup
WithoutOwner(p) ==
  [l \in Lookups |-> IF pending_dcutr[p] # NoPending /\ pending_dcutr[p].lookup = l
                     THEN "dropped" ELSE lookup[l]]

HandleConnectViaRelay ==
  LET p == Head(cmds).peer
      l == Head(cmds).lookup
  IN
  /\ TakeCommand("ConnectViaRelay")
  /\ peer_addrs' = [peer_addrs EXCEPT ![p] = "circuit"]
  /\ \/ /\ CanDial(p)
        /\ Dial(p, "circuit")
        /\ pending_dcutr' = [pending_dcutr EXCEPT ![p] = [lookup |-> l, relay_connected |-> FALSE]]
        /\ lookup' = WithoutOwner(p)
     \/ /\ ~ CanDial(p)
        /\ lookup' = [lookup EXCEPT ![l] = "Failed"]
        /\ UNCHANGED <<dials, pending_dcutr>>
  /\ UNCHANGED <<running, senders, conns, dcutr>>

\* SendMessage, RmaPut and RmaGetRequest dial a peer that is not connected and
\* get or create its sender.
HandleSendMessage ==
  LET p == Head(cmds).peer IN
  /\ TakeCommand("SendMessage")
  /\ IF conns[p] = {} /\ peer_addrs[p] # "none" THEN Dial(p, AddrKind(p)) ELSE UNCHANGED dials
  /\ senders' = senders \cup {p}
  /\ UNCHANGED <<running, lookup, peer_addrs, pending_dcutr, conns, dcutr>>

QueuedLookups == {c.lookup : c \in {d \in Range(cmds) : d.type = "ConnectViaRelay"}}
PendingLookups == {pending_dcutr[p].lookup : p \in {q \in Peers : pending_dcutr[q] # NoPending}}

\* The loop ends and drops what it owns: the swarm, the pending lookups and the
\* commands behind Shutdown.
HandleShutdown ==
  /\ running
  /\ cmds # <<>> /\ Head(cmds).type = "Shutdown"
  /\ running' = FALSE
  /\ cmds' = <<>>
  /\ lookup' = [l \in Lookups |-> IF l \in QueuedLookups \cup PendingLookups
                                  THEN "dropped" ELSE lookup[l]]
  /\ pending_dcutr' = [p \in Peers |-> NoPending]
  /\ senders' = {}
  /\ conns' = [p \in Peers |-> {}]
  /\ dials' = [p \in Peers |-> {}]
  /\ dcutr' = [p \in Peers |-> "idle"]
  /\ UNCHANGED peer_addrs

-----------------------------------------------------------------------------
(* Swarm events.                                                           *)

Resolve_KeepsEntry(p, result) ==
  /\ lookup' = [lookup EXCEPT ![pending_dcutr[p].lookup] = result]
  /\ pending_dcutr' = [pending_dcutr EXCEPT ![p].lookup = NoPending]
\* The pending entry of p is removed and its lookup gets the result.
Resolve(p, result) ==
  /\ lookup' = [lookup EXCEPT ![pending_dcutr[p].lookup] = result]
  /\ pending_dcutr' = [pending_dcutr EXCEPT ![p] = NoPending]

IsPending(p) == pending_dcutr[p] # NoPending
NothingPending(p) ==
  /\ ~ IsPending(p)
  /\ UNCHANGED <<lookup, loopVars>>

\* What libp2p does when a connection comes up: a relayed one starts hole
\* punching, a direct one completes it.
NextDcutr(p, kind) ==
  CASE kind = "relayed" -> "running"
    [] kind = "direct" /\ dcutr[p] = "running" -> "succeeded"
    [] OTHER -> dcutr[p]

\* The connection is the outcome of a dial, or the peer opened it.
ConnectionEstablished(p, kind) ==
  /\ running
  /\ \/ \E d \in dials[p] :
          /\ kind = (IF d = "circuit" THEN "relayed" ELSE "direct")
          /\ dials' = [dials EXCEPT ![p] = @ \ {d}]
     \/ UNCHANGED dials
  /\ conns' = [conns EXCEPT ![p] = @ \cup {kind}]
  /\ dcutr' = [dcutr EXCEPT ![p] = NextDcutr(p, kind)]
  /\ \/ NothingPending(p)
     \/ /\ IsPending(p)
        /\ kind = "relayed"
        /\ pending_dcutr' = [pending_dcutr EXCEPT ![p].relay_connected = TRUE]
        /\ UNCHANGED <<lookup, peer_addrs, senders>>
     \/ /\ IsPending(p)
        /\ kind = "direct"
        /\ peer_addrs' = [peer_addrs EXCEPT ![p] = "direct"]
        /\ senders' = senders \ {p}
        /\ Resolve(p, "Direct")
  /\ UNCHANGED <<running, cmds>>

\* After the last connection to a peer the loop dials once more: the relay at its
\* configured address, any other peer at the address stored for it.
ConnectionClosed(p, kind) ==
  /\ running
  /\ kind \in conns[p]
  /\ conns' = [conns EXCEPT ![p] = @ \ {kind}]
  /\ \/ /\ conns[p] # {kind}
        /\ UNCHANGED <<dials, senders>>
     \/ /\ conns[p] = {kind}
        /\ dials' = [dials EXCEPT ![p] =
                       IF @ = {} /\ (p = RelayServer \/ peer_addrs[p] # "none")
                       THEN {IF p = RelayServer THEN "direct" ELSE AddrKind(p)} ELSE @]
        /\ senders' = senders \ {p}
  /\ UNCHANGED <<running, cmds, lookup, peer_addrs, pending_dcutr, dcutr>>

RelayDialFailed_Swapped(p) == pending_dcutr[p].relay_connected
\* An error before the relayed connection is taken for that of the circuit dial; a
\* later one is ignored, since hole punching may still succeed.
RelayDialFailed(p) == ~ pending_dcutr[p].relay_connected

OutgoingConnectionError(p, d) ==
  /\ running
  /\ d \in dials[p]
  /\ dials' = [dials EXCEPT ![p] = @ \ {d}]
  /\ \/ NothingPending(p)
     \/ /\ IsPending(p)
        /\ ~ RelayDialFailed(p)
        /\ UNCHANGED <<lookup, loopVars>>
     \/ /\ IsPending(p)
        /\ RelayDialFailed(p)
        /\ Resolve(p, "Failed")
        /\ UNCHANGED <<peer_addrs, senders>>
  /\ UNCHANGED <<running, cmds, conns, dcutr>>

\* libp2p dials the peer's own addresses while it punches a hole.
HolePunch(p) ==
  /\ running
  /\ dcutr[p] = "running"
  /\ dials' = [dials EXCEPT ![p] = @ \cup {"punch"}]
  /\ UNCHANGED <<running, cmds, lookup, loopVars, conns, dcutr>>

DcutrEvent(p) ==
  /\ running
  /\ dcutr[p] # "idle"
  /\ dcutr' = [dcutr EXCEPT ![p] = "idle"]
  /\ \/ NothingPending(p)
     \/ /\ IsPending(p)
        /\ dcutr[p] = "succeeded"
        /\ senders' = senders \ {p}
        /\ Resolve(p, "Direct")
        /\ UNCHANGED peer_addrs
     \/ /\ IsPending(p)
        /\ dcutr[p] = "running"
        /\ Resolve(p, "RelayOnly")
        /\ UNCHANGED <<peer_addrs, senders>>
  /\ UNCHANGED <<running, cmds, conns, dials>>

\* The timer arm: the entry of p is past its deadline.  Entries that expire
\* together are removed one after the other in any order.
DcutrTimeout(p) ==
  /\ running
  /\ IsPending(p)
  /\ Resolve(p, IF pending_dcutr[p].relay_connected THEN "RelayOnly" ELSE "Failed")
  /\ UNCHANGED <<running, cmds, peer_addrs, senders, swarmVars>>

-----------------------------------------------------------------------------
HandleCommand ==
  \/ HandleAddKnownAddr
  \/ HandleConnectViaRelay
  \/ HandleSendMessage
  \/ HandleShutdown

Next ==
  \/ \E l \in Lookups : AddrLookupReturns(l) \/ \E p \in Peers : AddrLookupRelay(l, p)
  \/ SendCommand
  \/ HandleCommand
  \/ \E p \in Peers, kind \in {"relayed", "direct"} :
       ConnectionEstablished(p, kind) \/ ConnectionClosed(p, kind)
  \/ \E p \in Peers : \E d \in dials[p] : OutgoingConnectionError(p, d)
  \/ \E p \in Peers : HolePunch(p) \/ DcutrEvent(p) \/ DcutrTimeout(p)

Spec == Init /\ [][Next]_vars

\* tokio::select! polls its arms in random order, so neither the commands nor the
\* timer starve behind swarm events.
Fairness ==
  /\ WF_vars(HandleCommand)
  /\ \A p \in Peers : WF_vars(DcutrTimeout(p))

FairSpec == Spec /\ Fairness

-----------------------------------------------------------------------------
\* A blocked addr_lookup has exactly one owner of its result_tx that will answer
\* it: the command in the channel or the pending entry of the loop.  No thread is
\* left blocked when entries are replaced, resolved or dropped with the loop.
LookupOwned ==
  /\ {l \in Lookups : lookup[l] = "blocked"} = QueuedLookups \cup PendingLookups
  /\ QueuedLookups \cap PendingLookups = {}
  /\ \A p, q \in Peers : IsPending(p) /\ IsPending(q) /\ pending_dcutr[p].lookup = pending_dcutr[q].lookup
                           => p = q

\* While a pending lookup has seen no relayed connection the dial of its circuit
\* address is still under way, so that the swarm still owes the loop an event
\* about it: a lookup waits for its deadline only while something may happen.
PendingDialing ==
  \A p \in Peers : IsPending(p) /\ ~ pending_dcutr[p].relay_connected => "circuit" \in dials[p]

\* Every addr_lookup returns.
LookupReturns ==
  \A l \in Lookups : lookup[l] = "blocked" ~> lookup[l] # "blocked"

-----------------------------------------------------------------------------
(* What is said of the results and does not hold.                          *)

Yields(l, result) == lookup[l] = "blocked" /\ lookup'[l] = result

\* RelayOnly is yielded for p, respectively Failed for the command being handled.
RelayOnlyFor(p) == IsPending(p) /\ Yields(pending_dcutr[p].lookup, "RelayOnly")
FailedFor(p) ==
  \E l \in Lookups :
    /\ cmds # <<>> /\ Head(cmds) = [type |-> "ConnectViaRelay", peer |-> p, lookup |-> l]
    /\ Yields(l, "Failed")

\* A result says what it is documented to say: with RelayOnly there is a connection
\* to fall back on, and Failed means that the peer could not be reached at all.
LookupResultTrue ==
  [][\A p \in Peers :
       /\ RelayOnlyFor(p) => conns[p] # {}
       /\ FailedFor(p) => conns[p] = {}]_vars
=============================================================================
