------------------------------ MODULE Emission ------------------------------
(***************************************************************************)
(* What WGPL derives from the database: the AllowedIPs of clients          *)
(* (routing.py), the report of `wgpl validate' (consistency.py) and the    *)
(* gates configurations pass before they are emitted (core.py).            *)
(*                                                                         *)
(* All of it is a function of the tables, computed inside one deferred     *)
(* read transaction, so there is no state of its own here: the behaviours  *)
(* are those of Topology and the properties are about what would be        *)
(* emitted in any state reached.  A peer's allowed_ips_policy may be       *)
(* changed at will by `peer update'; the properties quantify over it.  The *)
(* policy `custom', a list given by the operator, is left out, and so are  *)
(* keepalive, DNS and key material.                                        *)
(***************************************************************************)
EXTENDS Topology

Policy == {"vpn_only", "split_tunnel", "all_remote_networks", "full_tunnel"}

-----------------------------------------------------------------------------
(* routing.py *)

(* collapse_redundant_prefixes *)
CollapseToNarrowest(nets) ==            \* fault: the comparison is reversed
    {n \in nets : ~\E m \in nets : m \subseteq n /\ m # n}

Collapse(nets) == {n \in nets : ~\E m \in nets : n \subseteq m /\ n # m}

RoutersNonDeleted(i) ==                 \* fault: an expired router still counts
    {p \in NonDeleted(i) : peers[p].role = "subnet_router"}

Routers(i) == {p \in ActiveOn(i) : peers[p].role = "subnet_router"}

(* The LANs of other nodes' routers; one that is also the peer's own is    *)
(* left out, prefix by prefix.                                             *)
RemoteLansWithOwn(p) ==                 \* fault: the peer's own are kept
    UNION {peers[q].routed : q \in Routers(peers[p].iface)}

RemoteLans(p) ==
    LET others == {q \in Routers(peers[p].iface) : peers[q].node # peers[p].node}
    IN  (UNION {peers[q].routed : q \in others}) \ peers[p].routed

HubLansFor(policy, i) ==
    IF policy \in {"split_tunnel", "all_remote_networks"}
    THEN ifaces[i].routed ELSE {}

(* resolve_client_allowed_ips *)
ClientAllowedIps(p, policy) ==
    LET i == peers[p].iface
    IN  IF policy = "full_tunnel" THEN {Nat}
        ELSE Collapse({Network(ifaces[i].pool)} \cup HubLansFor(policy, i) \cup
                      IF policy = "all_remote_networks" THEN RemoteLans(p) ELSE {})

-----------------------------------------------------------------------------
(* consistency.py: validate_state, one predicate per issue code. *)

OthersLans(p) ==
    UNION {peers[q].routed : q \in Routers(peers[p].iface) \ {p}}

RoutersOverlap(i) ==
    \E p, q \in Routers(i) :
        p # q /\ Covered(peers[p].routed) \cap Covered(peers[q].routed) # {}

ErrorChecks(i) ==
    LET pool == ifaces[i].pool
        pairs == {pq \in ActiveOn(i) \X ActiveOn(i) : pq[1] # pq[2]}
    IN [invalid_wire_fields |-> ~Exportable(i),
        duplicate_ip |-> \E pq \in pairs : peers[pq[1]].ip = peers[pq[2]].ip,
        duplicate_name |->
            \E pq \in pairs : nodes[peers[pq[1]].node] = nodes[peers[pq[2]].node],
        ip_outside_pool |-> \E p \in ActiveOn(i) : peers[p].ip \notin PeerHosts(pool),
        routed_networks_overlaps_pool |->
            \/ ~AvoidsPool(ifaces[i].routed, pool)
            \/ \E p \in Routers(i) : \/ ~AvoidsPool(peers[p].routed, pool)
                                     \/ peers[p].ip \in Covered(peers[p].routed),
        subnet_router_missing_routed_networks |->
            \E p \in Routers(i) : peers[p].routed = {},
        hub_peer_routed_networks_duplicate |->
            \E p \in Routers(i) : peers[p].routed \cap ifaces[i].routed # {},
        overlapping_routed_networks |-> RoutersOverlap(i)]

(* A prefix of a router and one of the hub overlap without being equal. *)
HubOverlap(i) ==
    \E p \in Routers(i) : \E lan \in peers[p].routed, hub \in ifaces[i].routed :
        lan # hub /\ lan \cap hub # {}

AsymmetricVpnOnly(i, policy) ==         \* fault: other policies pass for remote
    \E p \in Routers(i) : OthersLans(p) # {} /\ policy[p] = "vpn_only"

Asymmetric(i, policy) ==
    \E p \in Routers(i) :
        OthersLans(p) # {} /\ policy[p] # "all_remote_networks"

Incomplete(i, policy) ==
    \E p \in Routers(i) :
        /\ policy[p] = "all_remote_networks"
        /\ ~(OthersLans(p) \subseteq ClientAllowedIps(p, policy[p]))

ExpiredRouter(i) ==
    \E p \in NonDeleted(i) \ ActiveOn(i) : peers[p].role = "subnet_router"

WarningChecks(i, policy) ==
    [hub_peer_routed_networks_overlap |-> HubOverlap(i),
     asymmetric_remote_access |-> Asymmetric(i, policy),
     lan_to_lan_incomplete |-> Incomplete(i, policy),
     expired_subnet_router_routes_dropped |-> ExpiredRouter(i)]

Raised(checks)      == {code \in DOMAIN checks : checks[code]}
Errors(i)           == Raised(ErrorChecks(i))
Warnings(i, policy) == Raised(WarningChecks(i, policy))

StatusOk(i, policy) == Errors(i) = {} /\ Warnings(i, policy) = {}

-----------------------------------------------------------------------------
(* core.py: a configuration is emitted only past assert_database_valid and *)
(* the assert_exportable checks of the same snapshot.                      *)

ServerEmittedUnvalidated(i) == Exportable(i)    \* fault: no preflight

ServerEmitted(i) == Errors(i) = {} /\ Exportable(i)
ClientEmitted(p) == IsActive(peers[p]) /\ ServerEmitted(peers[p].iface)

(* The hub sends a packet to the peer whose AllowedIPs cover its address.  *)
HubRoute(i, a) == {p \in ActiveOn(i) : a \in HubAllowedIps(p)}

-----------------------------------------------------------------------------
(* Properties. *)

(* Whatever commands were run, `validate' reports no two active peers in   *)
(* one place, no address outside its pool and no router without networks,  *)
(* even when the clock steps back; and the two places that check pool      *)
(* overlap for an export agree.  An interface named by another's id is the *)
(* exception, as its pool may leave its peers.                             *)
OnlyNetworkErrors ==
    \A i \in Interfaces : ~Misnamed(i) =>
        /\ Errors(i) \subseteq {"invalid_wire_fields",
                                "routed_networks_overlaps_pool",
                                "hub_peer_routed_networks_duplicate",
                                "overlapping_routed_networks"}
        /\ "invalid_wire_fields" \in Errors(i)
             <=> "routed_networks_overlaps_pool" \in Errors(i)

(* No command and no expiry makes two active routers of one network where  *)
(* there were none: only a clock that is set back does, by reviving a      *)
(* router whose networks another one took meanwhile.                       *)
OnlyClockOverlaps ==
    [][\A i \in Interfaces' :
          RoutersOverlap(i)' => \/ i \in Interfaces /\ RoutersOverlap(i)
                               \/ SetBack]_vars

(* However the clock goes, a hub configuration that passes the gates       *)
(* routes no address to two peers.  Peers that expire while it is being    *)
(* rendered are left out of it, which changes nothing.                     *)
EmittedUnambiguous ==
    \A i \in Interfaces : ServerEmitted(i) =>
        \A p, q \in ActiveOn(i) :
            p # q => HubAllowedIps(p) \cap HubAllowedIps(q) = {}

(* An emitted all_remote_networks client reaches the pool, the hub's LANs  *)
(* and the LANs of the other routers that are active now, nothing less and *)
(* nothing more: collapsing loses no address and expired routers add none. *)
RemoteCoverage ==
    \A p \in Peers : ClientEmitted(p) =>
        LET i      == peers[p].iface
            others == {q \in ActiveOn(i) \ {p} : peers[q].role = "subnet_router"}
        IN  Covered(ClientAllowedIps(p, "all_remote_networks")) =
              Network(ifaces[i].pool) \cup Covered(ifaces[i].routed)
                \cup UNION {Covered(peers[q].routed) : q \in others}

(* A traffic relation from site p to site q: p's client sends it into the  *)
(* tunnel, the hub takes it from p and hands it to q alone, and q accepts  *)
(* its source.                                                             *)
Relayed(p, q, policy) ==
    LET i == peers[p].iface
    IN  \A a \in Covered(peers[p].routed), b \in Covered(peers[q].routed) :
            /\ b \in Covered(ClientAllowedIps(p, policy[p]))
            /\ a \in HubAllowedIps(p)
            /\ HubRoute(i, b) = {q}
            /\ a \in Covered(ClientAllowedIps(q, policy[q]))

(* When `validate' reports nothing at all, every two sites behind active   *)
(* routers reach one another through the hub, under any policies.          *)
OkMeansMesh ==
    \A i \in Interfaces : \A policy \in [Routers(i) -> Policy] :
        StatusOk(i, policy) =>
            \A p, q \in Routers(i) : p # q => Relayed(p, q, policy)

(* Without an overlap warning, an emitted all_remote_networks client does  *)
(* not send its own LAN into the tunnel.  (With one it may, whatever       *)
(* docs/routing.md promises: prefixes are compared as strings, and with    *)
(* the other routers' alone.)                                              *)
OwnLanExcludedWhenClean ==
    \A p \in Peers : ClientEmitted(p) /\ ~HubOverlap(peers[p].iface) =>
        Covered(ClientAllowedIps(p, "all_remote_networks"))
            \cap Covered(peers[p].routed) = {}
=============================================================================
