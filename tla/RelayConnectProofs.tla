------------------------- MODULE RelayConnectProofs -------------------------
(***************************************************************************)
(* No addr_lookup of a relay address is forgotten, and no pending lookup   *)
(* waits for nothing, for any number of threads, peers and commands.       *)
(***************************************************************************)
EXTENDS RelayConnect, SequenceTheorems, TLAPS

\* A thread blocks on its lookup, so that it has one command in the channel at most.
QueuedOnce ==
  \A i, j \in DOMAIN cmds :
    /\ cmds[i].type = "ConnectViaRelay" /\ cmds[j].type = "ConnectViaRelay"
    /\ cmds[i].lookup = cmds[j].lookup
    => i = j

Inv == TypeOK /\ QueuedOnce /\ LookupOwned /\ PendingDialing

-----------------------------------------------------------------------------
(* The command channel.                                                    *)

LEMMA QueuedIff ==
  ASSUME NEW l
  PROVE  l \in QueuedLookups <=> \E i \in DOMAIN cmds : cmds[i].type = "ConnectViaRelay"
                                                          /\ cmds[i].lookup = l
BY Zenon DEF QueuedLookups, Range

LEMMA QueuedIffNext ==
  ASSUME NEW l
  PROVE  l \in QueuedLookups' <=> \E i \in DOMAIN cmds' : cmds'[i].type = "ConnectViaRelay"
                                                            /\ cmds'[i].lookup = l
BY Zenon DEF QueuedLookups, Range

\* What a command sent adds to the lookups queued.
LEMMA SendQueues ==
  ASSUME cmds \in Seq(Command), QueuedOnce, NEW c \in Command, Send(c),
         c.type = "ConnectViaRelay" => c.lookup \notin QueuedLookups
  PROVE  /\ cmds' \in Seq(Command) /\ QueuedOnce'
         /\ QueuedLookups' = QueuedLookups \cup (IF c.type = "ConnectViaRelay" THEN {c.lookup} ELSE {})
<1> DEFINE n == Len(cmds)
<1>1. /\ n \in Nat /\ DOMAIN cmds = 1..n /\ cmds' \in Seq(Command) /\ DOMAIN cmds' = 1..n + 1
      /\ \A i \in 1..n : cmds'[i] = cmds[i]
      /\ cmds'[n + 1] = c
  BY LenProperties, AppendProperties DEF Send
<1> HIDE DEF n
<1>2. \A i \in 1..n + 1 : i \in 1..n \/ i = n + 1
  BY <1>1
<1>3. \A i \in 1..n : i \in 1..n + 1
  BY <1>1
<1>4. n + 1 \in 1..n + 1
  BY <1>1
<1>5. ASSUME NEW l
      PROVE  l \in QueuedLookups' <=> \/ l \in QueuedLookups
                                      \/ c.type = "ConnectViaRelay" /\ l = c.lookup
  BY <1>1, <1>2, <1>3, <1>4, QueuedIff, QueuedIffNext
<1>6. ASSUME c.type = "ConnectViaRelay"
      PROVE  \A i \in 1..n : ~ (cmds[i].type = "ConnectViaRelay" /\ cmds[i].lookup = c.lookup)
  BY <1>1, <1>6, QueuedIff, Zenon
<1>7. QueuedOnce'
  BY <1>1, <1>2, <1>6, Zenon DEF QueuedOnce
<1> QED BY <1>1, <1>5, <1>7, Zenon

\* What is left of the lookups queued when the loop takes a command.
LEMMA TakeUnqueues ==
  ASSUME cmds \in Seq(Command), QueuedOnce, cmds # <<>>, cmds' = Tail(cmds)
  PROVE  /\ cmds' \in Seq(Command) /\ QueuedOnce' /\ Head(cmds) \in Command
         /\ QueuedLookups' = QueuedLookups \ (IF Head(cmds).type = "ConnectViaRelay"
                                              THEN {Head(cmds).lookup} ELSE {})
         /\ Head(cmds).type = "ConnectViaRelay" => Head(cmds).lookup \in QueuedLookups
<1> DEFINE n == Len(cmds)
<1>1. /\ n \in Nat \ {0} /\ DOMAIN cmds = 1..n /\ Head(cmds) = cmds[1] /\ Head(cmds) \in Command
      /\ cmds' \in Seq(Command) /\ DOMAIN cmds' = 1..n - 1
      /\ \A i \in 1..n - 1 : cmds'[i] = cmds[i + 1]
  BY EmptySeq, LenProperties, HeadTailProperties, ElementOfSeq
<1> HIDE DEF n
<1>2. \A i \in 1..n - 1 : i + 1 \in 1..n /\ i + 1 # 1
  BY <1>1
<1>3. \A i \in 1..n : i # 1 => i - 1 \in 1..n - 1 /\ (i - 1) + 1 = i
  BY <1>1
<1>4. 1 \in 1..n
  BY <1>1
<1>5. \A i, j \in 1..n - 1 : i + 1 = j + 1 => i = j
  BY <1>1
<1>6. QueuedOnce'
  BY <1>1, <1>2, <1>5 DEF QueuedOnce
<1>7. Head(cmds).type = "ConnectViaRelay" => Head(cmds).lookup \in QueuedLookups
  BY <1>1, <1>4, QueuedIff, Zenon
<1>8. ASSUME NEW l
      PROVE  l \in QueuedLookups' <=> /\ l \in QueuedLookups
                                      /\ ~ (Head(cmds).type = "ConnectViaRelay" /\ l = Head(cmds).lookup)
  <2>1. ASSUME l \in QueuedLookups'
        PROVE  /\ l \in QueuedLookups
               /\ ~ (Head(cmds).type = "ConnectViaRelay" /\ l = Head(cmds).lookup)
    <3>1. PICK i \in 1..n - 1 : cmds[i + 1].type = "ConnectViaRelay" /\ cmds[i + 1].lookup = l
      BY <1>1, <2>1, QueuedIffNext
    <3> QED BY <1>1, <1>2, <1>4, <3>1, QueuedIff DEF QueuedOnce
  <2>2. ASSUME l \in QueuedLookups,
               ~ (Head(cmds).type = "ConnectViaRelay" /\ l = Head(cmds).lookup)
        PROVE  l \in QueuedLookups'
    <3>1. PICK i \in 1..n : cmds[i].type = "ConnectViaRelay" /\ cmds[i].lookup = l
      BY <1>1, <2>2, QueuedIff, Zenon
    <3>2. i # 1
      BY <1>1, <2>2, <3>1, Zenon
    <3> DEFINE j == i - 1
    <3>3. j \in 1..n - 1 /\ cmds'[j] = cmds[i]
      BY <1>1, <1>3, <3>2, Zenon
    <3> HIDE DEF j
    <3>4. j \in DOMAIN cmds' /\ cmds'[j].type = "ConnectViaRelay" /\ cmds'[j].lookup = l
      BY <1>1, <3>1, <3>3, Zenon
    <3> QED BY <3>4, QueuedIffNext, Zenon
  <2> QED BY <2>1, <2>2, Zenon
<1> QED BY <1>1, <1>6, <1>7, <1>8, Zenon

-----------------------------------------------------------------------------
(* The owners of blocked lookups.                                          *)

LEMMA PendingIff ==
  ASSUME NEW l
  PROVE  l \in PendingLookups <=> \E p \in Peers : IsPending(p) /\ pending_dcutr[p].lookup = l
BY Zenon DEF PendingLookups, IsPending

LEMMA PendingIffNext ==
  ASSUME NEW l
  PROVE  l \in PendingLookups' <=> \E p \in Peers : IsPending(p)' /\ pending_dcutr'[p].lookup = l
BY Zenon DEF PendingLookups, IsPending

\* A pending entry has its fields, and no entry is NoPending.
LEMMA PendingFields ==
  ASSUME TypeOK, NEW p \in Peers, IsPending(p)
  PROVE  /\ pending_dcutr[p] \in PendingDcutr
         /\ pending_dcutr[p].lookup \in Lookups /\ pending_dcutr[p].relay_connected \in BOOLEAN
BY Zenon DEF TypeOK, IsPending, PendingDcutr

LEMMA EntryIsPending ==
  ASSUME NEW e \in PendingDcutr
  PROVE  e # NoPending
BY RelayAssumption, Zenon DEF PendingDcutr

\* A removed entry leaves all lookups owned when its lookup is answered.
LEMMA ResolveKeepsOwners ==
  ASSUME Inv, NEW p \in Peers, IsPending(p), NEW result \in RelayConnectResult,
         Resolve(p, result), UNCHANGED cmds
  PROVE  /\ LookupOwned'
         /\ lookup' \in [Lookups -> {"idle", "blocked"} \cup Returned]
         /\ pending_dcutr' \in [Peers -> PendingDcutr \cup {NoPending}]
         /\ ~ IsPending(p)' /\ \A q \in Peers \ {p} : pending_dcutr'[q] = pending_dcutr[q]
<1> DEFINE o == pending_dcutr[p].lookup
<1>1. o \in Lookups
  BY PendingFields, Zenon DEF Inv
<1>2. /\ lookup \in [Lookups -> {"idle", "blocked"} \cup Returned]
      /\ pending_dcutr \in [Peers -> PendingDcutr \cup {NoPending}]
  BY Zenon DEF Inv, TypeOK
<1>3. lookup' = [lookup EXCEPT ![o] = result] /\ pending_dcutr' = [pending_dcutr EXCEPT ![p] = NoPending]
  BY Zenon DEF Resolve
<1>4. o \in PendingLookups /\ \A q \in Peers : IsPending(q) /\ pending_dcutr[q].lookup = o => q = p
  BY PendingIff, Zenon DEF Inv, LookupOwned
<1> HIDE DEF o
<1>5. lookup' \in [Lookups -> {"idle", "blocked"} \cup Returned]
  BY <1>1, <1>2, <1>3, Zenon DEF Returned
<1>6. /\ pending_dcutr' \in [Peers -> PendingDcutr \cup {NoPending}]
      /\ ~ IsPending(p)' /\ \A q \in Peers \ {p} : pending_dcutr'[q] = pending_dcutr[q]
  BY <1>2, <1>3, Zenon DEF IsPending
<1>7. \A q \in Peers : IsPending(q)' <=> IsPending(q) /\ q # p
  BY <1>6, Zenon DEF IsPending
<1>8. QueuedLookups' = QueuedLookups
  BY Zenon DEF QueuedLookups
<1>9. PendingLookups' = PendingLookups \ {o}
  <2>1. ASSUME NEW l
        PROVE  l \in PendingLookups' <=> l \in PendingLookups /\ l # o
    BY <1>4, <1>6, <1>7, PendingIff, PendingIffNext DEF o
  <2> QED BY <2>1, Zenon
<1>10. \A l \in Lookups : lookup'[l] = "blocked" <=> lookup[l] = "blocked" /\ l # o
  BY <1>1, <1>2, <1>3, Zenon DEF RelayConnectResult
<1>11. /\ {l \in Lookups : lookup'[l] = "blocked"} = QueuedLookups' \cup PendingLookups'
       /\ QueuedLookups' \cap PendingLookups' = {}
  BY <1>4, <1>8, <1>9, <1>10, Zenon DEF Inv, LookupOwned
<1>12. \A q, r \in Peers :
         IsPending(q)' /\ IsPending(r)' /\ pending_dcutr'[q].lookup = pending_dcutr'[r].lookup => q = r
  BY <1>6, <1>7, Zenon DEF Inv, LookupOwned
<1> QED BY <1>5, <1>6, <1>11, <1>12, Zenon DEF LookupOwned

\* Owners stay when neither the lookups nor the queued and pending ones change.
LEMMA SameOwners ==
  ASSUME LookupOwned, UNCHANGED lookup, QueuedLookups' = QueuedLookups,
         \A p \in Peers : IsPending(p)' <=> IsPending(p),
         \A p \in Peers : IsPending(p) => pending_dcutr'[p].lookup = pending_dcutr[p].lookup
  PROVE  LookupOwned'
<1>1. PendingLookups' = PendingLookups
  <2>1. ASSUME NEW l
        PROVE  l \in PendingLookups' <=> l \in PendingLookups
    BY PendingIff, PendingIffNext, Zenon
  <2> QED BY <2>1, Zenon
<1> QED BY <1>1, Zenon DEF LookupOwned

LEMMA SameTables ==
  ASSUME LookupOwned, UNCHANGED <<lookup, pending_dcutr>>, QueuedLookups' = QueuedLookups
  PROVE  LookupOwned'
<1>1. \A p \in Peers : IsPending(p)' <=> IsPending(p)
  BY Zenon DEF IsPending
<1> QED BY <1>1, SameOwners, Zenon

-----------------------------------------------------------------------------
(* Every step keeps the invariant.                                         *)

LEMMA LookupReturnsKeepsInv ==
  ASSUME Inv, NEW l \in Lookups, AddrLookupReturns(l)
  PROVE  Inv'
<1> USE DEF AddrLookupReturns, loopVars, swarmVars
<1>1. TypeOK'
  BY Zenon DEF Inv, TypeOK
<1>2. QueuedOnce' /\ QueuedLookups' = QueuedLookups
  BY Zenon DEF Inv, QueuedOnce, QueuedLookups
<1>3. PendingLookups' = PendingLookups
  BY Zenon DEF PendingLookups
<1>4. \A k \in Lookups : lookup'[k] = "blocked" <=> lookup[k] = "blocked"
  BY Zenon DEF Inv, TypeOK, Returned, RelayConnectResult
<1>5. LookupOwned'
  BY <1>2, <1>3, <1>4, Zenon DEF Inv, LookupOwned, IsPending
<1>6. PendingDialing'
  BY Zenon DEF Inv, PendingDialing, IsPending
<1> QED BY <1>1, <1>2, <1>5, <1>6, Zenon DEF Inv

LEMMA LookupKeepsInv ==
  ASSUME Inv, NEW l \in Lookups, NEW p \in Peers, AddrLookupRelay(l, p)
  PROVE  Inv'
<1> DEFINE c == [type |-> "ConnectViaRelay", peer |-> p, lookup |-> l]
<1>1. c \in Command /\ c.type = "ConnectViaRelay" /\ c.lookup = l
  BY Zenon DEF Command
<1>2. lookup[l] = "idle" /\ lookup \in [Lookups -> {"idle", "blocked"} \cup Returned]
  BY Zenon DEF Inv, TypeOK, AddrLookupRelay
<1>3. l \notin QueuedLookups \cup PendingLookups
  BY <1>2, Zenon DEF Inv, LookupOwned
<1>4. UNCHANGED <<running, peer_addrs, pending_dcutr, senders, conns, dials, dcutr>>
  BY Zenon DEF AddrLookupRelay, loopVars, swarmVars
<1>5. PendingLookups' = PendingLookups
  BY <1>4, Zenon DEF PendingLookups
<1>6. PendingDialing'
  BY <1>4, Zenon DEF Inv, PendingDialing, IsPending
<1>7. CASE Send(c) /\ lookup' = [lookup EXCEPT ![l] = "blocked"]
  <2>1. cmds' \in Seq(Command) /\ QueuedOnce' /\ QueuedLookups' = QueuedLookups \cup {l}
    <3> HIDE DEF c
    <3> QED BY <1>1, <1>3, <1>7, SendQueues, Zenon DEF Inv, TypeOK
  <2>2. TypeOK'
    BY <1>2, <1>4, <1>7, <2>1, Zenon DEF Inv, TypeOK
  <2>3. \A k \in Lookups : lookup'[k] = "blocked" <=> lookup[k] = "blocked" \/ k = l
    BY <1>2, <1>7, Zenon
  <2>4. LookupOwned'
    BY <1>3, <1>4, <1>5, <2>1, <2>3, Zenon DEF Inv, LookupOwned, IsPending
  <2> QED BY <1>6, <2>1, <2>2, <2>4, Zenon DEF Inv
<1>8. CASE lookup' = [lookup EXCEPT ![l] = "dropped"] /\ UNCHANGED cmds
  <2>1. TypeOK'
    BY <1>2, <1>4, <1>8, Zenon DEF Inv, TypeOK, Returned
  <2>2. QueuedOnce' /\ QueuedLookups' = QueuedLookups
    BY <1>8, Zenon DEF Inv, QueuedOnce, QueuedLookups
  <2>3. \A k \in Lookups : lookup'[k] = "blocked" <=> lookup[k] = "blocked"
    BY <1>2, <1>8, Zenon
  <2>4. LookupOwned'
    BY <1>4, <1>5, <2>2, <2>3, Zenon DEF Inv, LookupOwned, IsPending
  <2> QED BY <1>6, <2>1, <2>2, <2>4, Zenon DEF Inv
<1> QED BY <1>7, <1>8, Zenon DEF AddrLookupRelay

LEMMA SendCommandKeepsInv ==
  ASSUME Inv, SendCommand
  PROVE  Inv'
<1>1. PICK c \in Command : c.type # "ConnectViaRelay" /\ Send(c)
  BY Zenon DEF SendCommand, Command
<1>2. UNCHANGED <<running, lookup, peer_addrs, pending_dcutr, senders, conns, dials, dcutr>>
  BY Zenon DEF SendCommand, loopVars, swarmVars
<1>3. cmds' \in Seq(Command) /\ QueuedOnce' /\ QueuedLookups' = QueuedLookups
  BY <1>1, SendQueues, Zenon DEF Inv, TypeOK
<1>4. TypeOK'
  BY <1>2, <1>3, Zenon DEF Inv, TypeOK
<1>5. LookupOwned'
  BY <1>2, <1>3, SameTables, Zenon DEF Inv
<1>6. PendingDialing'
  BY <1>2, Zenon DEF Inv, PendingDialing, IsPending
<1> QED BY <1>3, <1>4, <1>5, <1>6, Zenon DEF Inv

\* A dial keeps the dials under way.
LEMMA DialAdds ==
  ASSUME TypeOK, NEW p \in Peers, NEW kind \in {"circuit", "direct"}, Dial(p, kind)
  PROVE  /\ dials' \in [Peers -> SUBSET {"circuit", "direct", "punch"}]
         /\ \A q \in Peers : dials[q] \subseteq dials'[q]
         /\ CanDial(p) => kind \in dials'[p]
BY Zenon DEF TypeOK, Dial

LEMMA AddKnownAddrKeepsInv ==
  ASSUME Inv, HandleAddKnownAddr
  PROVE  Inv'
<1> DEFINE p == Head(cmds).peer
<1>1. Head(cmds).type = "AddKnownAddr" /\ cmds # <<>> /\ cmds' = Tail(cmds)
  BY Zenon DEF HandleAddKnownAddr, TakeCommand
<1>2. /\ cmds' \in Seq(Command) /\ QueuedOnce' /\ Head(cmds) \in Command
      /\ QueuedLookups' = QueuedLookups
  BY <1>1, TakeUnqueues, Zenon DEF Inv, TypeOK
<1>3. p \in Peers
  BY <1>1, <1>2, Zenon DEF Command
<1>4. /\ peer_addrs' = [peer_addrs EXCEPT ![p] = "direct"] /\ Dial(p, "direct")
      /\ UNCHANGED <<running, lookup, pending_dcutr, senders, conns, dcutr>>
  BY Zenon DEF HandleAddKnownAddr
<1> HIDE DEF p
<1>5. /\ dials' \in [Peers -> SUBSET {"circuit", "direct", "punch"}]
      /\ \A q \in Peers : dials[q] \subseteq dials'[q]
  BY <1>3, <1>4, DialAdds, Zenon DEF Inv
<1>6. TypeOK'
  BY <1>2, <1>3, <1>4, <1>5, Zenon DEF Inv, TypeOK
<1>7. LookupOwned'
  BY <1>2, <1>4, SameTables, Zenon DEF Inv
<1>8. PendingDialing'
  BY <1>4, <1>5, Zenon DEF Inv, PendingDialing, IsPending
<1> QED BY <1>2, <1>6, <1>7, <1>8, Zenon DEF Inv

LEMMA SendMessageKeepsInv ==
  ASSUME Inv, HandleSendMessage
  PROVE  Inv'
<1> DEFINE p == Head(cmds).peer
<1>1. Head(cmds).type = "SendMessage" /\ cmds # <<>> /\ cmds' = Tail(cmds)
  BY Zenon DEF HandleSendMessage, TakeCommand
<1>2. /\ cmds' \in Seq(Command) /\ QueuedOnce' /\ Head(cmds) \in Command
      /\ QueuedLookups' = QueuedLookups
  BY <1>1, TakeUnqueues, Zenon DEF Inv, TypeOK
<1>3. p \in Peers
  BY <1>1, <1>2, Zenon DEF Command
<1>4. /\ Dial(p, AddrKind(p)) \/ UNCHANGED dials
      /\ senders' = senders \cup {p}
      /\ UNCHANGED <<running, lookup, peer_addrs, pending_dcutr, conns, dcutr>>
  BY Zenon DEF HandleSendMessage
<1> HIDE DEF p
<1>5. AddrKind(p) \in {"circuit", "direct"}
  BY Zenon DEF AddrKind
<1>6. /\ dials' \in [Peers -> SUBSET {"circuit", "direct", "punch"}]
      /\ \A q \in Peers : dials[q] \subseteq dials'[q]
  BY <1>3, <1>4, <1>5, DialAdds, Zenon DEF Inv, TypeOK
<1>7. TypeOK'
  BY <1>2, <1>3, <1>4, <1>6, Zenon DEF Inv, TypeOK
<1>8. LookupOwned'
  BY <1>2, <1>4, SameTables, Zenon DEF Inv
<1>9. PendingDialing'
  BY <1>4, <1>6, Zenon DEF Inv, PendingDialing, IsPending
<1> QED BY <1>2, <1>7, <1>8, <1>9, Zenon DEF Inv

\* The new entry takes its lookup over from the command; the lookup of the entry
\* it replaces is dropped.
LEMMA ConnectViaRelayKeepsInv ==
  ASSUME Inv, HandleConnectViaRelay
  PROVE  Inv'
<1>1. Head(cmds).type = "ConnectViaRelay" /\ cmds # <<>> /\ cmds' = Tail(cmds)
  BY Zenon DEF HandleConnectViaRelay, TakeCommand
<1>2. /\ cmds' \in Seq(Command) /\ QueuedOnce' /\ Head(cmds) \in Command
      /\ QueuedLookups' = QueuedLookups \ {Head(cmds).lookup} /\ Head(cmds).lookup \in QueuedLookups
  BY <1>1, TakeUnqueues, Zenon DEF Inv, TypeOK
<1>3. PICK p \in Peers, l \in Lookups : Head(cmds).peer = p /\ Head(cmds).lookup = l
  BY <1>1, <1>2, Zenon DEF Command
<1> DEFINE entry == [lookup |-> l, relay_connected |-> FALSE]
<1>4. /\ peer_addrs' = [peer_addrs EXCEPT ![p] = "circuit"]
      /\ UNCHANGED <<running, senders, conns, dcutr>>
  BY <1>3, Zenon DEF HandleConnectViaRelay
<1>5. \/ /\ CanDial(p) /\ Dial(p, "circuit") /\ lookup' = WithoutOwner(p)
         /\ pending_dcutr' = [pending_dcutr EXCEPT ![p] = entry]
      \/ lookup' = [lookup EXCEPT ![l] = "Failed"] /\ UNCHANGED <<dials, pending_dcutr>>
  BY <1>3, Zenon DEF HandleConnectViaRelay
<1>6. entry \in PendingDcutr /\ entry # NoPending /\ entry.lookup = l
  BY EntryIsPending, Zenon DEF PendingDcutr
<1>7. /\ lookup \in [Lookups -> {"idle", "blocked"} \cup Returned]
      /\ pending_dcutr \in [Peers -> PendingDcutr \cup {NoPending}]
  BY Zenon DEF Inv, TypeOK
<1>8. /\ QueuedLookups' = QueuedLookups \ {l} /\ l \in QueuedLookups
      /\ l \notin PendingLookups /\ lookup[l] = "blocked"
  BY <1>2, <1>3, Zenon DEF Inv, LookupOwned
<1> HIDE DEF entry
<1>9. CASE /\ CanDial(p) /\ Dial(p, "circuit") /\ lookup' = WithoutOwner(p)
           /\ pending_dcutr' = [pending_dcutr EXCEPT ![p] = entry]
  <2>1. /\ dials' \in [Peers -> SUBSET {"circuit", "direct", "punch"}]
        /\ \A q \in Peers : dials[q] \subseteq dials'[q]
        /\ "circuit" \in dials'[p]
    BY <1>9, DialAdds, Zenon DEF Inv
  <2>2. /\ pending_dcutr' \in [Peers -> PendingDcutr \cup {NoPending}]
        /\ pending_dcutr'[p] = entry
        /\ \A q \in Peers \ {p} : pending_dcutr'[q] = pending_dcutr[q]
    BY <1>6, <1>7, <1>9, Zenon
  <2>3. lookup' \in [Lookups -> {"idle", "blocked"} \cup Returned]
    BY <1>7, <1>9, Zenon DEF WithoutOwner, Returned
  <2>4. TypeOK'
    BY <1>2, <1>4, <2>1, <2>2, <2>3, Zenon DEF Inv, TypeOK
  <2>5. /\ IsPending(p)' /\ pending_dcutr'[p].lookup = l
        /\ \A q \in Peers \ {p} : IsPending(q)' <=> IsPending(q)
    BY <1>6, <2>2, Zenon DEF IsPending
  <2>6. PendingDialing'
    BY <2>1, <2>2, <2>5, Zenon DEF Inv, PendingDialing
  <2>7. ASSUME NEW k \in Lookups
        PROVE  lookup'[k] = "blocked" <=> /\ lookup[k] = "blocked"
                                          /\ ~ (IsPending(p) /\ pending_dcutr[p].lookup = k)
    BY <1>9, Zenon DEF WithoutOwner, IsPending
  <2>8. ASSUME NEW k
        PROVE  k \in PendingLookups' <=>
                 \/ k = l
                 \/ k \in PendingLookups /\ ~ (IsPending(p) /\ pending_dcutr[p].lookup = k)
    BY <2>2, <2>5, PendingIff, PendingIffNext DEF Inv, LookupOwned
  <2>9. IsPending(p) => pending_dcutr[p].lookup \in PendingLookups
    BY PendingIff, Zenon
  <2>10. ASSUME NEW k
         PROVE  (k \in Lookups /\ lookup'[k] = "blocked") <=> k \in QueuedLookups' \cup PendingLookups'
    BY <1>8, <2>7, <2>8, <2>9, Zenon DEF Inv, LookupOwned
  <2>11. QueuedLookups' \cap PendingLookups' = {}
    BY <1>8, <2>8, Zenon DEF Inv, LookupOwned
  <2>12. ASSUME NEW q \in Peers, NEW r \in Peers, IsPending(q)', IsPending(r)',
                pending_dcutr'[q].lookup = pending_dcutr'[r].lookup
         PROVE  q = r
    <3>1. ASSUME NEW t \in Peers \ {p}, IsPending(t)'
          PROVE  pending_dcutr'[t].lookup # l
      BY <1>8, <2>2, <2>5, <3>1, PendingIff, Zenon
    <3> QED BY <2>2, <2>5, <2>12, <3>1, Zenon DEF Inv, LookupOwned
  <2>13. LookupOwned'
    BY <2>10, <2>11, <2>12, Zenon DEF LookupOwned
  <2> QED BY <1>2, <2>4, <2>6, <2>13, Zenon DEF Inv
<1>10. CASE lookup' = [lookup EXCEPT ![l] = "Failed"] /\ UNCHANGED <<dials, pending_dcutr>>
  <2>1. TypeOK'
    BY <1>2, <1>4, <1>10, Zenon DEF Inv, TypeOK, Returned, RelayConnectResult
  <2>2. PendingLookups' = PendingLookups
    BY <1>10, Zenon DEF PendingLookups
  <2>3. \A k \in Lookups : lookup'[k] = "blocked" <=> lookup[k] = "blocked" /\ k # l
    BY <1>7, <1>10, Zenon
  <2>4. LookupOwned'
    BY <1>8, <1>10, <2>2, <2>3, Zenon DEF Inv, LookupOwned, IsPending
  <2>5. PendingDialing'
    BY <1>10, Zenon DEF Inv, PendingDialing, IsPending
  <2> QED BY <1>2, <2>1, <2>4, <2>5, Zenon DEF Inv
<1> QED BY <1>5, <1>9, <1>10, Zenon

\* Every blocked lookup is queued or pending, and all of these are dropped.
LEMMA ShutdownKeepsInv ==
  ASSUME Inv, HandleShutdown
  PROVE  Inv'
<1> USE DEF HandleShutdown
<1>1. TypeOK'
  <2>1. cmds' \in Seq(Command)
    BY EmptySeq, Zenon
  <2>2. lookup' \in [Lookups -> {"idle", "blocked"} \cup Returned]
    BY Zenon DEF Inv, TypeOK, Returned
  <2> QED BY <2>1, <2>2, Zenon DEF Inv, TypeOK
<1>2. DOMAIN cmds' = {}
  BY EmptySeq, LenProperties
<1>3. QueuedOnce' /\ QueuedLookups' = {}
  BY <1>2, Zenon DEF QueuedOnce, QueuedLookups, Range
<1>4. \A p \in Peers : ~ IsPending(p)'
  BY Zenon DEF IsPending
<1>5. PendingLookups' = {}
  BY <1>4, Zenon DEF PendingLookups, IsPending
<1>6. \A l \in Lookups : lookup'[l] # "blocked"
  BY Zenon DEF Inv, LookupOwned
<1>7. LookupOwned'
  BY <1>3, <1>4, <1>5, <1>6, Zenon DEF LookupOwned
<1>8. PendingDialing'
  BY <1>4, Zenon DEF PendingDialing
<1> QED BY <1>1, <1>3, <1>7, <1>8, Zenon DEF Inv

\* The channel is untouched by the events of the swarm.
LEMMA SameQueue ==
  ASSUME QueuedOnce, UNCHANGED cmds
  PROVE  QueuedOnce' /\ QueuedLookups' = QueuedLookups
BY Zenon DEF QueuedOnce, QueuedLookups

LEMMA EstablishedKeepsInv ==
  ASSUME Inv, NEW p \in Peers, NEW kind \in {"relayed", "direct"}, ConnectionEstablished(p, kind)
  PROVE  Inv'
<1>1. UNCHANGED <<running, cmds>>
  BY Zenon DEF ConnectionEstablished
<1>2. QueuedOnce' /\ QueuedLookups' = QueuedLookups
  BY <1>1, SameQueue, Zenon DEF Inv
<1>3. /\ conns' \in [Peers -> SUBSET {"relayed", "direct"}]
      /\ dcutr' \in [Peers -> {"idle", "running", "succeeded"}]
  <2>1. NextDcutr(p, kind) \in {"idle", "running", "succeeded"}
    BY Zenon DEF NextDcutr, Inv, TypeOK
  <2> QED BY <2>1, Zenon DEF ConnectionEstablished, Inv, TypeOK
<1>4. /\ dials' \in [Peers -> SUBSET {"circuit", "direct", "punch"}]
      /\ \A q \in Peers \ {p} : dials'[q] = dials[q]
  BY DEF ConnectionEstablished, Inv, TypeOK
<1>5. CASE NothingPending(p)
  <2>1. UNCHANGED <<lookup, peer_addrs, pending_dcutr, senders>> /\ ~ IsPending(p)
    BY <1>5, Zenon DEF NothingPending, loopVars
  <2>2. TypeOK'
    BY <1>1, <1>3, <1>4, <2>1, Zenon DEF Inv, TypeOK
  <2>3. PendingDialing'
    BY <1>4, <2>1, Zenon DEF Inv, PendingDialing, IsPending
  <2>4. LookupOwned'
    BY <1>2, <2>1, SameTables, Zenon DEF Inv
  <2> QED BY <1>2, <2>2, <2>3, <2>4, Zenon DEF Inv
<1>6. CASE /\ IsPending(p) /\ UNCHANGED <<lookup, peer_addrs, senders>>
           /\ pending_dcutr' = [pending_dcutr EXCEPT ![p].relay_connected = TRUE]
  <2> DEFINE entry == [pending_dcutr[p] EXCEPT !.relay_connected = TRUE]
  <2>1. pending_dcutr[p] \in PendingDcutr
    BY <1>6, PendingFields, Zenon DEF Inv
  <2>2. /\ entry \in PendingDcutr /\ entry.lookup = pending_dcutr[p].lookup
        /\ entry.relay_connected = TRUE
    BY <2>1, Zenon DEF PendingDcutr
  <2>3. entry # NoPending
    BY <2>2, EntryIsPending, Zenon
  <2>4. pending_dcutr' = [pending_dcutr EXCEPT ![p] = entry]
    BY <1>6, Zenon
  <2> HIDE DEF entry
  <2>5. /\ pending_dcutr' \in [Peers -> PendingDcutr \cup {NoPending}]
        /\ pending_dcutr'[p] = entry
        /\ \A q \in Peers \ {p} : pending_dcutr'[q] = pending_dcutr[q]
    BY <2>2, <2>4, Zenon DEF Inv, TypeOK
  <2>6. TypeOK'
    BY <1>1, <1>3, <1>4, <1>6, <2>5, Zenon DEF Inv, TypeOK
  <2>7. PendingDialing'
    BY <1>4, <2>2, <2>5, Zenon DEF Inv, PendingDialing, IsPending
  <2>8. /\ \A q \in Peers : IsPending(q)' <=> IsPending(q)
        /\ \A q \in Peers : IsPending(q) => pending_dcutr'[q].lookup = pending_dcutr[q].lookup
    BY <1>6, <2>2, <2>3, <2>5, Zenon DEF IsPending
  <2>9. LookupOwned'
    BY <1>2, <1>6, <2>8, SameOwners, Zenon DEF Inv
  <2> QED BY <1>2, <2>6, <2>7, <2>9, Zenon DEF Inv
<1>7. CASE /\ IsPending(p) /\ Resolve(p, "Direct")
           /\ peer_addrs' = [peer_addrs EXCEPT ![p] = "direct"] /\ senders' = senders \ {p}
  <2>1. /\ LookupOwned'
        /\ lookup' \in [Lookups -> {"idle", "blocked"} \cup Returned]
        /\ pending_dcutr' \in [Peers -> PendingDcutr \cup {NoPending}]
        /\ ~ IsPending(p)' /\ \A q \in Peers \ {p} : pending_dcutr'[q] = pending_dcutr[q]
    BY <1>1, <1>7, ResolveKeepsOwners, Zenon DEF RelayConnectResult
  <2>2. TypeOK'
    BY <1>1, <1>3, <1>4, <1>7, <2>1, Zenon DEF Inv, TypeOK
  <2>3. PendingDialing'
    BY <1>4, <2>1, Zenon DEF Inv, PendingDialing, IsPending
  <2> QED BY <1>2, <2>1, <2>2, <2>3, Zenon DEF Inv
<1> QED BY <1>5, <1>6, <1>7, Zenon DEF ConnectionEstablished

\* A step that removes no circuit dial and leaves the lookups alone.
LEMMA TablesKept ==
  ASSUME Inv, UNCHANGED <<cmds, lookup, pending_dcutr>>,
         \A p \in Peers : "circuit" \in dials[p] => "circuit" \in dials'[p]
  PROVE  QueuedOnce' /\ LookupOwned' /\ PendingDialing'
<1>1. QueuedOnce' /\ QueuedLookups' = QueuedLookups
  BY SameQueue, Zenon DEF Inv
<1>2. LookupOwned'
  BY <1>1, SameTables, Zenon DEF Inv
<1>3. PendingDialing'
  BY Zenon DEF Inv, PendingDialing, IsPending
<1> QED BY <1>1, <1>2, <1>3, Zenon

LEMMA ClosedKeepsInv ==
  ASSUME Inv, NEW p \in Peers, NEW kind \in {"relayed", "direct"}, ConnectionClosed(p, kind)
  PROVE  Inv'
<1>1. /\ UNCHANGED <<running, cmds, lookup, peer_addrs, pending_dcutr, dcutr>>
      /\ conns' = [conns EXCEPT ![p] = @ \ {kind}]
      /\ senders' \subseteq senders
  BY Zenon DEF ConnectionClosed
<1>2. /\ dials' \in [Peers -> SUBSET {"circuit", "direct", "punch"}]
      /\ \A q \in Peers : "circuit" \in dials[q] => "circuit" \in dials'[q]
  BY DEF ConnectionClosed, AddrKind, Inv, TypeOK
<1>3. TypeOK'
  BY <1>1, <1>2, Zenon DEF Inv, TypeOK
<1> QED BY <1>1, <1>2, <1>3, TablesKept, Zenon DEF Inv

LEMMA HolePunchKeepsInv ==
  ASSUME Inv, NEW p \in Peers, HolePunch(p)
  PROVE  Inv'
<1> USE DEF HolePunch, loopVars
<1>1. TypeOK'
  BY Zenon DEF Inv, TypeOK
<1>2. \A q \in Peers : "circuit" \in dials[q] => "circuit" \in dials'[q]
  BY Zenon DEF Inv, TypeOK
<1> QED BY <1>1, <1>2, TablesKept, Zenon DEF Inv

LEMMA DialErrorKeepsInv ==
  ASSUME Inv, NEW p \in Peers, NEW d \in dials[p], OutgoingConnectionError(p, d)
  PROVE  Inv'
<1>1. UNCHANGED <<running, cmds, conns, dcutr>> /\ dials' = [dials EXCEPT ![p] = @ \ {d}]
  BY Zenon DEF OutgoingConnectionError
<1>2. /\ dials' \in [Peers -> SUBSET {"circuit", "direct", "punch"}]
      /\ \A q \in Peers \ {p} : dials'[q] = dials[q]
  BY <1>1, Zenon DEF Inv, TypeOK
<1>3. QueuedOnce' /\ QueuedLookups' = QueuedLookups
  BY <1>1, SameQueue, Zenon DEF Inv
<1>4. CASE /\ UNCHANGED <<lookup, peer_addrs, pending_dcutr, senders>>
           /\ ~ IsPending(p) \/ pending_dcutr[p].relay_connected
  <2>1. TypeOK'
    BY <1>1, <1>2, <1>4, Zenon DEF Inv, TypeOK
  <2>2. LookupOwned'
    BY <1>3, <1>4, SameTables, Zenon DEF Inv
  <2>3. PendingDialing'
    BY <1>2, <1>4, Zenon DEF Inv, PendingDialing, IsPending
  <2> QED BY <1>3, <2>1, <2>2, <2>3, Zenon DEF Inv
<1>5. CASE IsPending(p) /\ Resolve(p, "Failed") /\ UNCHANGED <<peer_addrs, senders>>
  <2>1. /\ LookupOwned'
        /\ lookup' \in [Lookups -> {"idle", "blocked"} \cup Returned]
        /\ pending_dcutr' \in [Peers -> PendingDcutr \cup {NoPending}]
        /\ ~ IsPending(p)' /\ \A q \in Peers \ {p} : pending_dcutr'[q] = pending_dcutr[q]
    BY <1>1, <1>5, ResolveKeepsOwners, Zenon DEF RelayConnectResult
  <2>2. TypeOK'
    BY <1>1, <1>2, <1>5, <2>1, Zenon DEF Inv, TypeOK
  <2>3. PendingDialing'
    BY <1>2, <2>1, Zenon DEF Inv, PendingDialing, IsPending
  <2> QED BY <1>3, <2>1, <2>2, <2>3, Zenon DEF Inv
<1> QED BY <1>4, <1>5, Zenon DEF OutgoingConnectionError, NothingPending, RelayDialFailed, loopVars

\* The two ways a pending entry is resolved without an event of its dial.
LEMMA DcutrKeepsInv ==
  ASSUME Inv, NEW p \in Peers, DcutrEvent(p) \/ DcutrTimeout(p)
  PROVE  Inv'
<1>1. /\ UNCHANGED <<running, cmds, conns, dials, peer_addrs>> /\ senders' \subseteq senders
      /\ dcutr' \in [Peers -> {"idle", "running", "succeeded"}]
  BY Zenon DEF DcutrEvent, DcutrTimeout, NothingPending, loopVars, swarmVars, Inv, TypeOK
<1>2. CASE UNCHANGED <<lookup, pending_dcutr>>
  <2>1. TypeOK'
    BY <1>1, <1>2, Zenon DEF Inv, TypeOK
  <2> QED BY <1>1, <1>2, <2>1, TablesKept, Zenon DEF Inv
<1>3. CASE IsPending(p) /\ \E result \in RelayConnectResult : Resolve(p, result)
  <2>1. /\ LookupOwned'
        /\ lookup' \in [Lookups -> {"idle", "blocked"} \cup Returned]
        /\ pending_dcutr' \in [Peers -> PendingDcutr \cup {NoPending}]
        /\ ~ IsPending(p)' /\ \A q \in Peers \ {p} : pending_dcutr'[q] = pending_dcutr[q]
    BY <1>1, <1>3, ResolveKeepsOwners, Zenon
  <2>2. TypeOK'
    BY <1>1, <2>1, Zenon DEF Inv, TypeOK
  <2>3. PendingDialing'
    BY <1>1, <2>1, Zenon DEF Inv, PendingDialing, IsPending
  <2> QED BY <1>1, <2>1, <2>2, <2>3, SameQueue, Zenon DEF Inv
<1>4. \/ UNCHANGED <<lookup, pending_dcutr>>
      \/ IsPending(p) /\ \E result \in RelayConnectResult : Resolve(p, result)
  <2>1. CASE DcutrEvent(p)
    BY <2>1, Zenon DEF DcutrEvent, NothingPending, loopVars, RelayConnectResult
  <2>2. CASE DcutrTimeout(p)
    <3>1. (IF pending_dcutr[p].relay_connected THEN "RelayOnly" ELSE "Failed") \in RelayConnectResult
      BY Zenon DEF RelayConnectResult
    <3> QED BY <2>2, <3>1, Zenon DEF DcutrTimeout
  <2> QED BY <2>1, <2>2, Zenon
<1> QED BY <1>2, <1>3, <1>4, Zenon

-----------------------------------------------------------------------------
LEMMA InitInv ==
  ASSUME Init
  PROVE  Inv
<1> USE DEF Init
<1>1. TypeOK
  <2>1. cmds \in Seq(Command)
    BY EmptySeq, Zenon
  <2> QED BY <2>1, Zenon DEF TypeOK
<1>2. DOMAIN cmds = {}
  BY EmptySeq, LenProperties
<1>3. QueuedOnce /\ QueuedLookups = {}
  BY <1>2, Zenon DEF QueuedOnce, QueuedLookups, Range
<1>4. \A p \in Peers : ~ IsPending(p)
  BY Zenon DEF IsPending
<1>5. PendingLookups = {}
  BY <1>4, Zenon DEF PendingLookups, IsPending
<1>6. LookupOwned
  BY <1>3, <1>4, <1>5, Zenon DEF LookupOwned
<1> QED BY <1>1, <1>3, <1>4, <1>6, Zenon DEF Inv, PendingDialing

LEMMA StepInv ==
  ASSUME Inv, [Next]_vars
  PROVE  Inv'
<1>1. ASSUME NEW l \in Lookups, AddrLookupReturns(l) PROVE Inv'
  BY <1>1, LookupReturnsKeepsInv, Zenon
<1>2. ASSUME NEW l \in Lookups, NEW p \in Peers, AddrLookupRelay(l, p) PROVE Inv'
  BY <1>2, LookupKeepsInv, Zenon
<1>3. CASE SendCommand
  BY <1>3, SendCommandKeepsInv, Zenon
<1>4. CASE HandleCommand
  BY <1>4, AddKnownAddrKeepsInv, ConnectViaRelayKeepsInv, SendMessageKeepsInv, ShutdownKeepsInv, Zenon
     DEF HandleCommand
<1>5. ASSUME NEW p \in Peers, NEW kind \in {"relayed", "direct"},
             ConnectionEstablished(p, kind) \/ ConnectionClosed(p, kind)
      PROVE  Inv'
  BY <1>5, EstablishedKeepsInv, ClosedKeepsInv, Zenon
<1>6. ASSUME NEW p \in Peers, NEW d \in dials[p], OutgoingConnectionError(p, d) PROVE Inv'
  BY <1>6, DialErrorKeepsInv, Zenon
<1>7. ASSUME NEW p \in Peers, HolePunch(p) \/ DcutrEvent(p) \/ DcutrTimeout(p) PROVE Inv'
  BY <1>7, HolePunchKeepsInv, DcutrKeepsInv, Zenon
<1>8. CASE UNCHANGED vars
  <2>1. UNCHANGED <<running, cmds, lookup, peer_addrs, pending_dcutr, senders, conns, dials, dcutr>>
    BY <1>8, Zenon DEF vars, loopVars, swarmVars
  <2>2. TypeOK'
    BY <2>1, Zenon DEF Inv, TypeOK
  <2> QED BY <2>1, <2>2, TablesKept, Zenon DEF Inv
<1> QED BY <1>1, <1>2, <1>3, <1>4, <1>5, <1>6, <1>7, <1>8, Zenon DEF Next

\* The invariant the two theorems below follow from: types, one queued command per
\* thread, one owner per blocked lookup, and a dial under way per fresh entry.
THEOREM InvAlways == Spec => []Inv
<1>1. Init => Inv
  BY InitInv, Zenon
<1>2. Inv /\ [Next]_vars => Inv'
  BY StepInv, Zenon
<1> QED BY <1>1, <1>2, PTL DEF Spec

\* Commands, connections, pending entries and results have the shape the code gives
\* them, for any number of threads and peers.
THEOREM RelayTypeCorrect == Spec => []TypeOK
<1>1. Inv => TypeOK
  BY Zenon DEF Inv
<1> QED BY <1>1, InvAlways, PTL

\* Whatever the commands, dials, hole punches, timeouts and Shutdown do, every
\* addr_lookup that is blocked has exactly one owner of its result_tx, for any
\* number of threads and peers.
THEOREM LookupsAlwaysOwned == Spec => []LookupOwned
<1>1. Inv => LookupOwned
  BY Zenon DEF Inv
<1> QED BY <1>1, InvAlways, PTL

\* A pending lookup that has seen no relayed connection always has its circuit dial
\* under way: no event of the swarm takes the dial and leaves the entry.
THEOREM PendingAlwaysDialing == Spec => []PendingDialing
<1>1. Inv => PendingDialing
  BY Zenon DEF Inv
<1> QED BY <1>1, InvAlways, PTL
=============================================================================
