--------------------------- MODULE EmissionProofs ---------------------------
(***************************************************************************)
(* What Emission derives from the database, for every value of the         *)
(* constants and whatever the clock does.                                  *)
(***************************************************************************)
EXTENDS Emission, TopologySafety, FiniteSetTheorems

-----------------------------------------------------------------------------
(* Collapsing prefixes. *)

LEMMA CollapseAddsNothing ==
    ASSUME NEW nets PROVE Covered(Collapse(nets)) \subseteq Covered(nets)
BY DEF Collapse, Covered

(* Among finitely many prefixes every one is inside a maximal one: of those *)
(* that contain it, one that fewest contain.                               *)
LEMMA MaximalPrefix ==
    ASSUME NEW nets, IsFiniteSet(nets), NEW n \in nets
    PROVE  \E m \in Collapse(nets) : n \subseteq m
<1>. DEFINE Above(m) == {x \in nets : m \subseteq x}
            Rank(m)  == Cardinality(Above(m))
            ranks    == {Rank(m) : m \in Above(n)}
<1>1. ASSUME NEW m \in nets PROVE IsFiniteSet(Above(m)) /\ Rank(m) \in Nat
  BY FS_Subset, FS_CardinalityType
<1>2. ranks \subseteq Nat /\ ranks # {}
  BY <1>1
<1>3. PICK r \in ranks : \A s \in ranks : ~(<<s, r>> \in OpToRel(<, Nat))
  <2>. HIDE DEF ranks
  <2>. QED BY <1>2, WFMin, NatLessThanWellFounded
<1>4. \A s \in ranks : ~(s < r)
  BY <1>2, <1>3 DEF OpToRel
<1>5. PICK m \in Above(n) : r = Rank(m)
  OBVIOUS
<1>6. ASSUME NEW x \in nets, m \subseteq x, m # x PROVE FALSE
  <2>1. Above(x) \subseteq Above(m) /\ m \notin Above(x) /\ m \in Above(m)
    BY <1>5, <1>6
  <2>2. Rank(x) # Rank(m) /\ Rank(x) <= Rank(m)
    BY <1>1, <2>1, FS_Subset
  <2>3. Rank(x) \in ranks
    BY <1>5, <1>6
  <2>4. Rank(x) \in Nat /\ Rank(m) \in Nat /\ r = Rank(m)
    BY <1>1, <1>5
  <2>. HIDE DEF Rank, ranks
  <2>. QED BY <1>4, <2>2, <2>3, <2>4
<1>. QED BY <1>5, <1>6 DEF Collapse

LEMMA CollapseLosesNothing ==
    ASSUME NEW nets, IsFiniteSet(nets) PROVE Covered(Collapse(nets)) = Covered(nets)
<1>1. Covered(nets) \subseteq Covered(Collapse(nets))
  BY MaximalPrefix DEF Covered
<1>. QED BY <1>1, CollapseAddsNothing

-----------------------------------------------------------------------------
(* What a report without errors says. *)

LEMMA NoErrors ==
    ASSUME NEW i, Errors(i) = {}
    PROVE  /\ \A p, q \in ActiveOn(i) : p # q =>
                 /\ peers[p].ip # peers[q].ip
                 /\ nodes[peers[p].node] # nodes[peers[q].node]
           /\ \A p \in Routers(i) :
                 /\ peers[p].routed # {}
                 /\ peers[p].routed \cap ifaces[i].routed = {}
           /\ ~RoutersOverlap(i)
           /\ Exportable(i)
<1>. DEFINE checks == ErrorChecks(i)
<1>1. \A code \in DOMAIN checks : ~checks[code]
  BY DEF Errors, Raised
<1>2. DOMAIN checks = {"invalid_wire_fields", "duplicate_ip", "duplicate_name",
          "ip_outside_pool", "routed_networks_overlaps_pool",
          "subnet_router_missing_routed_networks",
          "hub_peer_routed_networks_duplicate", "overlapping_routed_networks"}
  BY DEF ErrorChecks
<1>3. /\ ~checks.invalid_wire_fields
      /\ ~checks.duplicate_ip
      /\ ~checks.duplicate_name
      /\ ~checks.subnet_router_missing_routed_networks
      /\ ~checks.hub_peer_routed_networks_duplicate
      /\ ~checks.overlapping_routed_networks
  BY <1>1, <1>2
<1>4. ASSUME NEW p \in ActiveOn(i), NEW q \in ActiveOn(i), p # q
      PROVE  /\ peers[p].ip # peers[q].ip
             /\ nodes[peers[p].node] # nodes[peers[q].node]
  <2>. DEFINE pairs == {pq \in ActiveOn(i) \X ActiveOn(i) : pq[1] # pq[2]}
  <2>1. <<p, q>> \in pairs
    BY <1>4
  <2>2. ~\E pq \in pairs : peers[pq[1]].ip = peers[pq[2]].ip
    BY <1>3 DEF ErrorChecks
  <2>3. ~\E pq \in pairs : nodes[peers[pq[1]].node] = nodes[peers[pq[2]].node]
    BY <1>3 DEF ErrorChecks
  <2>. HIDE DEF pairs
  <2>. QED BY <2>1, <2>2, <2>3
<1>5. ~\E p \in Routers(i) : peers[p].routed = {}
  BY <1>3 DEF ErrorChecks
<1>6. ~\E p \in Routers(i) : peers[p].routed \cap ifaces[i].routed # {}
  BY <1>3 DEF ErrorChecks
<1>7. ~RoutersOverlap(i)
  BY <1>3 DEF ErrorChecks
<1>8. Exportable(i)
  BY <1>3 DEF ErrorChecks
<1>. QED BY <1>4, <1>5, <1>6, <1>7, <1>8

LEMMA ActivePeers ==
    ASSUME NEW i, NEW p \in ActiveOn(i)
    PROVE  /\ p \in Peers /\ p \in PeerId /\ peers[p].iface = i
           /\ IsActive(peers[p])
BY DEF ActiveOn, PeersOn, Peers

(* In what is emitted, only routers have networks; they avoid the pool and *)
(* one another.                                                            *)
LEMMA EmittedNetworks ==
    ASSUME NEW i, ServerEmitted(i), NEW p \in ActiveOn(i)
    PROVE  /\ peers[p].role = "subnet_router" <=> peers[p].routed # {}
           /\ AvoidsPool(peers[p].routed, ifaces[i].pool)
           /\ peers[p].ip \in Network(ifaces[i].pool)
           /\ peers[p].ip \notin Covered(peers[p].routed)
           /\ \A q \in ActiveOn(i) : p # q =>
                 /\ peers[p].ip # peers[q].ip
                 /\ Covered(peers[p].routed) \cap Covered(peers[q].routed) = {}
<1>1. /\ peers[p].role = "subnet_router" <=> peers[p].routed # {}
      /\ AvoidsPool(peers[p].routed, ifaces[i].pool)
      /\ peers[p].ip \in Network(ifaces[i].pool)
      /\ peers[p].ip \notin Covered(peers[p].routed)
  BY DEF ServerEmitted, Exportable, RoutingWellFormed, PeerHosts
<1>2. ASSUME NEW q \in ActiveOn(i), p # q
      PROVE  /\ peers[p].ip # peers[q].ip
             /\ Covered(peers[p].routed) \cap Covered(peers[q].routed) = {}
  <2>1. peers[q].role = "subnet_router" <=> peers[q].routed # {}
    BY DEF ServerEmitted, Exportable, RoutingWellFormed
  <2>2. peers[p].ip # peers[q].ip /\ ~RoutersOverlap(i)
    BY <1>2, NoErrors DEF ServerEmitted
  <2>3. CASE peers[p].routed = {} \/ peers[q].routed = {}
    BY <2>2, <2>3 DEF Covered
  <2>4. CASE peers[p].routed # {} /\ peers[q].routed # {}
    BY <1>1, <1>2, <2>1, <2>2, <2>4 DEF RoutersOverlap, Routers
  <2>. QED BY <2>3, <2>4
<1>. QED BY <1>1, <1>2

LEMMA EmittedIsUnambiguous == EmittedUnambiguous
<1>. SUFFICES ASSUME NEW i \in Interfaces, ServerEmitted(i),
                     NEW p \in ActiveOn(i), NEW q \in ActiveOn(i), p # q
              PROVE  HubAllowedIps(p) \cap HubAllowedIps(q) = {}
  BY DEF EmittedUnambiguous
<1>1. /\ peers[p].ip # peers[q].ip
      /\ Covered(peers[p].routed) \cap Covered(peers[q].routed) = {}
  BY EmittedNetworks
<1>2. /\ peers[p].ip \notin Covered(peers[q].routed)
      /\ peers[q].ip \notin Covered(peers[p].routed)
  BY EmittedNetworks DEF AvoidsPool
<1>. QED BY <1>1, <1>2 DEF HubAllowedIps

(* Whatever the clock does, what passes the gates routes no address to two *)
(* peers.                                                                  *)
THEOREM EmissionIsUnambiguous == SpecAnyClock => []EmittedUnambiguous
BY EmittedIsUnambiguous, PTL

-----------------------------------------------------------------------------
(* The LANs of the others. *)

LEMMA OthersNetworks ==
    ASSUME NEW i, ServerEmitted(i), NEW p \in ActiveOn(i), NEW a
    PROVE  /\ a \in Covered(RemoteLans(p)) <=>
                \E q \in Routers(i) \ {p} :
                   peers[q].node # peers[p].node /\ a \in Covered(peers[q].routed)
           /\ a \in Covered(RemoteLans(p)) => a \notin Covered(peers[p].routed)
<1>. peers[p].iface = i
  BY ActivePeers
<1>1. ASSUME a \in Covered(RemoteLans(p))
      PROVE  \E q \in Routers(i) \ {p} :
                /\ peers[q].node # peers[p].node
                /\ a \in Covered(peers[q].routed)
  <2>1. PICK lan \in RemoteLans(p) : a \in lan
    BY <1>1 DEF Covered
  <2>2. PICK q \in Routers(i) : /\ peers[q].node # peers[p].node
                                /\ lan \in peers[q].routed
    BY <2>1 DEF RemoteLans
  <2>3. a \in Covered(peers[q].routed)
    BY <2>1, <2>2 DEF Covered
  <2>. QED BY <2>2, <2>3
<1>2. ASSUME NEW q \in Routers(i) \ {p}, peers[q].node # peers[p].node,
             a \in Covered(peers[q].routed)
      PROVE  a \in Covered(RemoteLans(p)) /\ a \notin Covered(peers[p].routed)
  <2>1. q \in ActiveOn(i) /\ p # q
    BY <1>2 DEF Routers
  <2>2. Covered(peers[p].routed) \cap Covered(peers[q].routed) = {}
    BY <2>1, EmittedNetworks
  <2>3. PICK lan \in peers[q].routed : a \in lan
    BY <1>2 DEF Covered
  <2>4. lan \notin peers[p].routed
    BY <2>2, <2>3 DEF Covered
  <2>5. lan \in RemoteLans(p)
    BY <1>2, <2>3, <2>4 DEF RemoteLans
  <2>. QED BY <1>2, <2>2, <2>3, <2>5 DEF Covered
<1>. QED BY <1>1, <1>2

LEMMA AllRemote ==
    ASSUME NEW p
    PROVE  ClientAllowedIps(p, "all_remote_networks")
              = Collapse({Network(ifaces[peers[p].iface].pool)}
                            \cup ifaces[peers[p].iface].routed \cup RemoteLans(p))
<1>1. HubLansFor("all_remote_networks", peers[p].iface)
         = ifaces[peers[p].iface].routed
  BY DEF HubLansFor
<1>. QED BY <1>1 DEF ClientAllowedIps

LEMMA OwnLanIsExcluded == OwnLanExcludedWhenClean
<1>. SUFFICES ASSUME NEW p \in Peers, ClientEmitted(p),
                     ~HubOverlap(peers[p].iface),
                     NEW a \in Covered(ClientAllowedIps(p, "all_remote_networks")),
                     a \in Covered(peers[p].routed)
              PROVE  FALSE
  BY DEF OwnLanExcludedWhenClean
<1>. DEFINE i == peers[p].iface
<1>1. p \in ActiveOn(i) /\ ServerEmitted(i)
  BY DEF ClientEmitted, ActiveOn, PeersOn
<1>2. \/ a \in Network(ifaces[i].pool)
      \/ \E hub \in ifaces[i].routed : a \in hub
      \/ a \in Covered(RemoteLans(p))
  <2>. DEFINE nets == {Network(ifaces[i].pool)} \cup ifaces[i].routed
                         \cup RemoteLans(p)
  <2>1. a \in Covered(Collapse(nets))
    BY AllRemote
  <2>2. a \in Covered(nets)
    <3>. HIDE DEF nets
    <3>. QED BY <2>1, CollapseAddsNothing
  <2>3. PICK net \in nets : a \in net
    BY <2>2 DEF Covered
  <2>. QED BY <2>3 DEF Covered
<1>3. a \notin Network(ifaces[i].pool)
  BY <1>1, EmittedNetworks DEF AvoidsPool
<1>4. a \notin Covered(RemoteLans(p))
  BY <1>1, OthersNetworks
<1>5. PICK hub \in ifaces[i].routed : a \in hub
  BY <1>2, <1>3, <1>4
<1>6. PICK lan \in peers[p].routed : a \in lan
  BY DEF Covered
<1>7. p \in Routers(i)
  BY <1>1, <1>6, EmittedNetworks DEF Routers
<1>8. lan # hub
  BY <1>1, <1>5, <1>6, <1>7, NoErrors DEF ServerEmitted
<1>. QED BY <1>5, <1>6, <1>7, <1>8 DEF HubOverlap

(* Without an overlap warning no emitted client sends its own LAN into the *)
(* tunnel.                                                                 *)
THEOREM OwnLanStaysLocal == SpecAnyClock => []OwnLanExcludedWhenClean
BY OwnLanIsExcluded, PTL

-----------------------------------------------------------------------------
(* What an all_remote_networks client reaches. *)

(* Peers and prefixes are finitely many; there are 2^33 IPv4 prefixes. *)
Finite == /\ IsFiniteSet(PeerId)
          /\ \A routed \in Lans \cup HubLans : IsFiniteSet(routed)

LEMMA FinitelyManyLans ==
    ASSUME Finite, RowsOK, NEW i, NEW S \in SUBSET ActiveOn(i)
    PROVE  IsFiniteSet(UNION {peers[q].routed : q \in S})
<1>1. S \subseteq PeerId /\ IsFiniteSet(S)
  BY ActivePeers, FS_Subset DEF Finite
<1>2. \A q \in S : IsFiniteSet(peers[q].routed)
  <2>1. \A q \in S : peers[q].routed \in Lans \cup {{}}
    BY ActivePeers DEF RowsOK, Peers, PeerRow, Routed
  <2>. QED BY <2>1, FS_EmptySet DEF Finite
<1>. DEFINE f == [q \in S |-> peers[q].routed]
<1>3. IsFiniteSet({f[q] : q \in S})
  <2>1. f \in Surjection(S, {f[q] : q \in S})
    BY DEF Surjection
  <2>. QED BY <1>1, <2>1, FS_Surjection
<1>. QED BY <1>2, <1>3, FS_UNION

LEMMA RemoteIsCovered ==
    ASSUME Finite, Inv PROVE RemoteCoverage
<1>. SUFFICES ASSUME NEW p \in Peers, ClientEmitted(p)
              PROVE  LET i      == peers[p].iface
                         others == {q \in ActiveOn(i) \ {p} :
                                      peers[q].role = "subnet_router"}
                     IN  Covered(ClientAllowedIps(p, "all_remote_networks"))
                           = Network(ifaces[i].pool) \cup Covered(ifaces[i].routed)
                               \cup UNION {Covered(peers[q].routed) : q \in others}
  BY DEF RemoteCoverage
<1>. DEFINE i      == peers[p].iface
            others == {q \in ActiveOn(i) \ {p} : peers[q].role = "subnet_router"}
            nets   == {Network(ifaces[i].pool)} \cup ifaces[i].routed
                         \cup RemoteLans(p)
<1>1. p \in ActiveOn(i) /\ ServerEmitted(i) /\ i \in Interfaces
  BY DEF ClientEmitted, ActiveOn, PeersOn, Inv, NoOrphanPeers
<1>2. others = Routers(i) \ {p}
  BY DEF Routers
<1>3. IsFiniteSet(nets)
  <2>1. ifaces[i].routed \in HubLans \cup {{}}
    BY <1>1 DEF Inv, RowsOK, Interfaces, IfaceRow, HubRouted
  <2>2. IsFiniteSet(ifaces[i].routed)
    BY <2>1, FS_EmptySet DEF Finite
  <2>3. IsFiniteSet(RemoteLans(p))
    <3>. DEFINE S == {r \in Routers(i) : peers[r].node # peers[p].node}
    <3>1. IsFiniteSet(UNION {peers[q].routed : q \in S})
      <4>1. S \in SUBSET ActiveOn(i)
        BY DEF Routers
      <4>. HIDE DEF S
      <4>. QED BY <4>1, FinitelyManyLans DEF Inv
    <3>2. RemoteLans(p) \subseteq UNION {peers[q].routed : q \in S}
      BY DEF RemoteLans
    <3>. QED BY <3>1, <3>2, FS_Subset
  <2>. QED BY <2>2, <2>3, FS_Singleton, FS_Union
<1>4. Covered(ClientAllowedIps(p, "all_remote_networks")) = Covered(nets)
  <2>1. ClientAllowedIps(p, "all_remote_networks") = Collapse(nets)
    BY AllRemote
  <2>. HIDE DEF nets
  <2>. QED BY <1>3, <2>1, CollapseLosesNothing
<1>5. Covered(nets) = Network(ifaces[i].pool) \cup Covered(ifaces[i].routed)
                         \cup Covered(RemoteLans(p))
  BY DEF Covered
<1>6. Covered(RemoteLans(p)) = UNION {Covered(peers[q].routed) : q \in others}
  <2>1. \A q \in others : peers[q].node # peers[p].node
    <3>1. \A q \in ActiveOn(i) \ {p} : nodes[peers[q].node] # nodes[peers[p].node]
      BY <1>1, NoErrors DEF ServerEmitted
    <3>. QED BY <3>1
  <2>2. \A a : a \in Covered(RemoteLans(p)) <=>
                  \E q \in others : a \in Covered(peers[q].routed)
    BY <1>1, <1>2, <2>1, OthersNetworks
  <2>. QED BY <2>2
<1>. QED BY <1>4, <1>5, <1>6

(* An emitted all_remote_networks client reaches the pool, the hub's LANs  *)
(* and those of the other active routers, and nothing else.                *)
THEOREM RemoteNetworksAreCovered ==
    ASSUME Finite PROVE SpecAnyClock => []RemoteCoverage
BY RemoteIsCovered, Invariance, PTL
-----------------------------------------------------------------------------
(* A report without issues. *)

LEMMA NoWarnings ==
    ASSUME NEW i, NEW policy, Warnings(i, policy) = {}
    PROVE  ~Asymmetric(i, policy) /\ ~Incomplete(i, policy)
<1>. DEFINE checks == WarningChecks(i, policy)
<1>1. \A code \in DOMAIN checks : ~checks[code]
  BY DEF Warnings, Raised
<1>2. DOMAIN checks = {"hub_peer_routed_networks_overlap",
          "asymmetric_remote_access", "lan_to_lan_incomplete",
          "expired_subnet_router_routes_dropped"}
  BY DEF WarningChecks
<1>3. ~checks.asymmetric_remote_access /\ ~checks.lan_to_lan_incomplete
  BY <1>1, <1>2
<1>4. ~Asymmetric(i, policy)
  BY <1>3 DEF WarningChecks
<1>5. ~Incomplete(i, policy)
  BY <1>3 DEF WarningChecks
<1>. QED BY <1>4, <1>5

LEMMA ReachesOthers ==
    ASSUME NEW i, NEW policy, StatusOk(i, policy),
           NEW p \in Routers(i), NEW q \in Routers(i), p # q,
           NEW b \in Covered(peers[q].routed)
    PROVE  b \in Covered(ClientAllowedIps(p, policy[p]))
<1>1. PICK lan \in peers[q].routed : b \in lan
  BY DEF Covered
<1>2. peers[p].iface = i
  BY ActivePeers DEF Routers
<1>3. lan \in OthersLans(p)
  BY <1>1, <1>2 DEF OthersLans
<1>4. ~Asymmetric(i, policy) /\ ~Incomplete(i, policy)
  BY NoWarnings DEF StatusOk
<1>5. policy[p] = "all_remote_networks"
  BY <1>3, <1>4 DEF Asymmetric
<1>6. OthersLans(p) \subseteq ClientAllowedIps(p, policy[p])
  BY <1>4, <1>5 DEF Incomplete
<1>. QED BY <1>1, <1>3, <1>6 DEF Covered

LEMMA OkIsMesh == OkMeansMesh
<1>. SUFFICES ASSUME NEW i \in Interfaces, NEW policy \in [Routers(i) -> Policy],
                     StatusOk(i, policy),
                     NEW p \in Routers(i), NEW q \in Routers(i), p # q
              PROVE  Relayed(p, q, policy)
  BY DEF OkMeansMesh
<1>1. peers[p].iface = i /\ p \in ActiveOn(i) /\ q \in ActiveOn(i)
  BY ActivePeers DEF Routers
<1>. SUFFICES ASSUME NEW a \in Covered(peers[p].routed),
                     NEW b \in Covered(peers[q].routed)
              PROVE  /\ b \in Covered(ClientAllowedIps(p, policy[p]))
                     /\ a \in HubAllowedIps(p)
                     /\ HubRoute(i, b) = {q}
                     /\ a \in Covered(ClientAllowedIps(q, policy[q]))
  BY <1>1 DEF Relayed
<1>2. a \in HubAllowedIps(p) /\ b \in HubAllowedIps(q)
  BY DEF HubAllowedIps, Routers
<1>3. ServerEmitted(i)
  BY NoErrors DEF StatusOk, ServerEmitted
<1>4. HubRoute(i, b) = {q}
  BY <1>1, <1>2, <1>3, EmittedIsUnambiguous DEF EmittedUnambiguous, HubRoute
<1>. QED BY <1>2, <1>4, ReachesOthers

(* When `validate' reports nothing, the sites behind the routers of an     *)
(* interface all reach one another.                                        *)
THEOREM OkIsConnected == SpecAnyClock => []OkMeansMesh
BY OkIsMesh, PTL

-----------------------------------------------------------------------------
(* What commands cannot bring about. *)

(* The routers of an interface overlap when two peers hold one LAN. *)
OverlapsAreHeld ==
    \A i \in IfaceId :
        RoutersOverlap(i) <=>
          \E p, q \in PeerId : \E a :
             p # q /\ <<i, "lan", a>> \in Holdings[p] \cap Holdings[q]

LEMMA OverlapHeld == RolesCoherent => OverlapsAreHeld
<1>. SUFFICES ASSUME RolesCoherent, NEW i \in IfaceId
              PROVE  RoutersOverlap(i) <=>
                        \E p, q \in PeerId : \E a :
                           p # q /\ <<i, "lan", a>> \in Holdings[p] \cap Holdings[q]
  BY DEF OverlapsAreHeld
<1>1. ASSUME NEW p \in Routers(i), NEW q \in Routers(i), NEW a,
             a \in Covered(peers[p].routed) \cap Covered(peers[q].routed)
      PROVE  /\ p \in PeerId /\ q \in PeerId
             /\ <<i, "lan", a>> \in Holdings[p] \cap Holdings[q]
  BY <1>1, ActivePeers DEF Routers, Holdings, SlotsOf
<1>2. ASSUME NEW p \in PeerId, NEW a, <<i, "lan", a>> \in Holdings[p]
      PROVE  p \in Routers(i) /\ a \in Covered(peers[p].routed)
  <2>1. IsActive(peers[p]) /\ p \in ActiveOn(i) /\ a \in Covered(peers[p].routed)
    BY <1>2 DEF Holdings, SlotsOf, ActiveOn, PeersOn, Peers, IsActive
  <2>2. peers[p].routed # {}
    BY <2>1 DEF Covered
  <2>. QED BY <2>1, <2>2, ActivePeers DEF RolesCoherent, Routers
<1>3. ASSUME RoutersOverlap(i)
      PROVE  \E p, q \in PeerId : \E a :
                p # q /\ <<i, "lan", a>> \in Holdings[p] \cap Holdings[q]
  BY <1>1, <1>3 DEF RoutersOverlap
<1>4. ASSUME NEW p \in PeerId, NEW q \in PeerId, NEW a, p # q,
             <<i, "lan", a>> \in Holdings[p] \cap Holdings[q]
      PROVE  RoutersOverlap(i)
  BY <1>2, <1>4 DEF RoutersOverlap
<1>. QED BY <1>3, <1>4

LEMMA OverlapStep ==
    ASSUME Inv, RolesCoherent, Next, NEW i \in Interfaces', RoutersOverlap(i)'
    PROVE  i \in Interfaces /\ RoutersOverlap(i)
<1>1. RolesCoherent' /\ [Claims!Next]_Holdings
  BY ClaimsStep
<1>2. PICK p \in PeerId, q \in PeerId :
         p # q /\ \E a : <<i, "lan", a>> \in Holdings'[p] \cap Holdings'[q]
  <2>1. OverlapsAreHeld'
    BY <1>1, OverlapHeld, PTL
  <2>. QED BY <2>1 DEF OverlapsAreHeld, Interfaces
<1>3. PICK a : <<i, "lan", a>> \in Holdings'[p] \cap Holdings'[q]
  BY <1>2
<1>4. <<i, "lan", a>> \in Holdings[p] \cap Holdings[q]
  BY <1>1, <1>2, <1>3 DEF Claims!Next, Claims!Acquire, Claims!Release, Claims!Holding
<1>5. RoutersOverlap(i)
  BY <1>2, <1>4, OverlapHeld DEF OverlapsAreHeld, Interfaces
<1>6. i \in Interfaces
  BY <1>5, ActivePeers DEF RoutersOverlap, Routers, Inv, NoOrphanPeers
<1>. QED BY <1>5, <1>6

(* Two active routers of one network come only from a clock set back.      *)
THEOREM OverlapsAreTheClocks == SpecAnyClock => OnlyClockOverlaps
<1>1. Inv /\ RolesCoherent /\ [Next \/ SetBack]_vars =>
         [\A i \in Interfaces' :
             RoutersOverlap(i)' => \/ i \in Interfaces /\ RoutersOverlap(i)
                                  \/ SetBack]_vars
  BY OverlapStep
<1>. QED BY <1>1, Invariance, RolesInvariance, PTL DEF SpecAnyClock, OnlyClockOverlaps

-----------------------------------------------------------------------------
(* The codes of a report. *)

Sound == Inv /\ RolesCoherent /\ IndexAccepts(peers) /\ DistinctNames
           /\ NonDeletedInPool

LEMMA SoundPairs ==
    ASSUME Sound, NEW i, NEW p \in ActiveOn(i), NEW q \in ActiveOn(i), p # q
    PROVE  /\ peers[p].ip # peers[q].ip
           /\ nodes[peers[p].node] # nodes[peers[q].node]
<1>1. /\ p \in Peers /\ q \in Peers /\ p \in PeerId /\ q \in PeerId
      /\ peers[p].iface = peers[q].iface
      /\ ~peers[p].deleted /\ ~peers[q].deleted
  BY ActivePeers DEF IsActive
<1>2. peers[p].ip # peers[q].ip /\ peers[p].node # peers[q].node
  BY <1>1 DEF Sound, IndexAccepts, Peers
<1>3. peers[p].node \in Nodes /\ peers[q].node \in Nodes
  BY <1>1 DEF Sound, Inv, NoOrphanPeers
<1>. QED BY <1>2, <1>3 DEF Sound, DistinctNames

LEMMA SoundActive ==
    ASSUME Sound, NEW i, ~Misnamed(i), NEW p \in ActiveOn(i)
    PROVE  /\ peers[p].ip \in PeerHosts(ifaces[i].pool)
           /\ peers[p].role = "subnet_router" <=> peers[p].routed # {}
<1>1. p \in Peers /\ peers[p].iface = i /\ ~peers[p].deleted
  BY ActivePeers DEF IsActive
<1>. QED BY <1>1 DEF Sound, RolesCoherent, NonDeletedInPool, InPool

LEMMA SoundReport ==
    ASSUME Sound, NEW i, ~Misnamed(i)
    PROVE  LET checks == ErrorChecks(i)
           IN  /\ ~checks.duplicate_ip /\ ~checks.duplicate_name
               /\ ~checks.ip_outside_pool
               /\ ~checks.subnet_router_missing_routed_networks
               /\ checks.invalid_wire_fields <=> checks.routed_networks_overlaps_pool
<1>. DEFINE checks == ErrorChecks(i)
            pairs  == {pq \in ActiveOn(i) \X ActiveOn(i) : pq[1] # pq[2]}
            pool   == ifaces[i].pool
<1>1. \A pq \in pairs : /\ peers[pq[1]].ip # peers[pq[2]].ip
                        /\ nodes[peers[pq[1]].node] # nodes[peers[pq[2]].node]
  BY SoundPairs
<1>2. ~checks.duplicate_ip
  BY <1>1 DEF ErrorChecks
<1>3. ~checks.duplicate_name
  BY <1>1 DEF ErrorChecks
<1>4. ~checks.ip_outside_pool
  BY SoundActive DEF ErrorChecks
<1>5. ~checks.subnet_router_missing_routed_networks
  BY SoundActive DEF ErrorChecks, Routers
<1>6. Exportable(i) <=>
         /\ AvoidsPool(ifaces[i].routed, pool)
         /\ \A p \in Routers(i) : /\ AvoidsPool(peers[p].routed, pool)
                                  /\ peers[p].ip \notin Covered(peers[p].routed)
  <2>1. \A p \in ActiveOn(i) \ Routers(i) :
           /\ peers[p].routed = {} /\ AvoidsPool(peers[p].routed, pool)
           /\ peers[p].ip \notin Covered(peers[p].routed)
    BY SoundActive DEF Routers, AvoidsPool, Covered
  <2>2. Routers(i) \subseteq ActiveOn(i)
    BY DEF Routers
  <2>. QED BY <2>1, <2>2, SoundActive DEF Exportable, RoutingWellFormed
<1>7. checks.invalid_wire_fields <=> checks.routed_networks_overlaps_pool
  <2>1. checks.invalid_wire_fields <=> ~Exportable(i)
    BY DEF ErrorChecks
  <2>2. checks.routed_networks_overlaps_pool <=>
           \/ ~AvoidsPool(ifaces[i].routed, pool)
           \/ \E p \in Routers(i) : \/ ~AvoidsPool(peers[p].routed, pool)
                                    \/ peers[p].ip \in Covered(peers[p].routed)
    BY DEF ErrorChecks
  <2>. QED BY <1>6, <2>1, <2>2
<1>. QED BY <1>2, <1>3, <1>4, <1>5, <1>7

LEMMA SoundErrors == Sound => OnlyNetworkErrors
<1>. SUFFICES ASSUME Sound, NEW i \in Interfaces, ~Misnamed(i)
              PROVE  /\ Errors(i) \subseteq {"invalid_wire_fields",
                            "routed_networks_overlaps_pool",
                            "hub_peer_routed_networks_duplicate",
                            "overlapping_routed_networks"}
                     /\ "invalid_wire_fields" \in Errors(i)
                          <=> "routed_networks_overlaps_pool" \in Errors(i)
  BY DEF OnlyNetworkErrors
<1>. DEFINE checks == ErrorChecks(i)
<1>1. DOMAIN checks = {"invalid_wire_fields", "duplicate_ip", "duplicate_name",
          "ip_outside_pool", "routed_networks_overlaps_pool",
          "subnet_router_missing_routed_networks",
          "hub_peer_routed_networks_duplicate", "overlapping_routed_networks"}
  BY DEF ErrorChecks
<1>2. \A code : code \in Errors(i) <=> code \in DOMAIN checks /\ checks[code]
  BY DEF Errors, Raised
<1>3. /\ ~checks.duplicate_ip /\ ~checks.duplicate_name
      /\ ~checks.ip_outside_pool
      /\ ~checks.subnet_router_missing_routed_networks
      /\ checks.invalid_wire_fields <=> checks.routed_networks_overlaps_pool
  BY SoundReport
<1>. HIDE DEF checks
<1>. QED BY <1>1, <1>2, <1>3

(* On an interface that is not misnamed, commands and clock bring about no *)
(* errors but overlapping networks.                                        *)
THEOREM CommandsRaiseOnlyNetworkErrors == SpecAnyClock => []OnlyNetworkErrors
BY Invariance, RolesInvariance, PeersStayIndexed, NamedPoolsHold, NamesAreDistinct,
   SoundErrors, PTL DEF Sound
=============================================================================
