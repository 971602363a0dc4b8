------------------------------ MODULE Topology ------------------------------
(***************************************************************************)
(* The database of a WGPL hub: interfaces, nodes, peers, and what the      *)
(* append-only audit log says of them.                                     *)
(*                                                                         *)
(* Every operation of core.py that changes the database runs inside one    *)
(* BEGIN EXCLUSIVE transaction (db.transaction) and reads only through     *)
(* that connection, so an operation is one step here.  Time is the         *)
(* environment's: Expire may happen between any two operations.            *)
(*                                                                         *)
(* Data kept: the identity of rows, addresses, soft deletion, expiry, role *)
(* and routed networks.  A CIDR prefix is the set of addresses it covers;  *)
(* a routed_networks value is a set of prefixes, {} being NULL.  Endpoint, *)
(* port, keys, DNS, MTU, keepalive, descriptions and the AllowedIPs policy *)
(* decide nothing here and are left out.                                   *)
(***************************************************************************)
EXTENDS Ipam, FiniteSets

CONSTANTS
    MaxIfaces,      \* bound on the AUTOINCREMENT interface ids
    InterfaceName,  \* names operators give to interfaces
    NumericName,    \* function: the all-digit references, with their ids
    NodeId, NodeName,
    PeerId,         \* a row's id stands again for a fresh UUID once it is gone
    Pools,          \* address pools operators choose from
    Lans,           \* routed_networks values operators choose for peers
    HubLans,        \* and for interfaces
    Requests,       \* addresses operators ask for explicitly
    NoRow,          \* an id with no row
    Unset           \* an option that was not given

IfaceId == 1 .. MaxIfaces
Routed  == Lans \cup {{}}
HubRouted == HubLans \cup {{}}
Role    == {"endpoint", "subnet_router"}
Expiry  == {"never", "pending", "passed"}  \* expires_at: NULL, future, past

IfaceRow == [name : InterfaceName, pool : Pools, routed : HubRouted]
PeerRow  == [iface : IfaceId, node : NodeId, ip : Nat, deleted : BOOLEAN,
             expiry : Expiry, role : Role, routed : Routed]

(* What the audit log lets a reader rebuild of a row. *)
IfaceEntry == [name : InterfaceName, pool : Pools]
PeerEntry  == [iface : IfaceId, node : NodeId, ip : Nat, deleted : BOOLEAN,
               expires : BOOLEAN]

ASSUME ConstantsAssumption ==
    /\ MaxIfaces \in Nat
    /\ \A ref \in DOMAIN NumericName : NumericName[ref] \in Nat
    /\ \A pool \in Pools : /\ pool \in [first : Nat, last : Nat]
                           /\ pool.first <= pool.last
    /\ Lans \cup HubLans \subseteq (SUBSET (SUBSET Nat)) \ {{}}
    /\ Requests \subseteq Nat

ASSUME NoRowAssumption ==
    /\ NoRow \notin IfaceRow /\ NoRow \notin IfaceEntry
    /\ NoRow \notin PeerRow  /\ NoRow \notin PeerEntry
    /\ NoRow \notin NodeName

ASSUME UnsetAssumption ==
    /\ Unset \notin Pools /\ Unset \notin Routed \cup HubRouted
    /\ Unset \notin Nat
    /\ Unset \notin Role  /\ Unset \notin Expiry

VARIABLES
    ifaces,     \* [IfaceId -> IfaceRow or NoRow]
    nextId,     \* the next AUTOINCREMENT id
    nodes,      \* [NodeId -> NodeName or NoRow]
    peers,      \* [PeerId -> PeerRow or NoRow]
    ledger      \* history: the rows a replay of audit_events rebuilds

vars == <<ifaces, nextId, nodes, peers, ledger>>

-----------------------------------------------------------------------------
(* Reading the tables. *)

Interfaces   == {i \in IfaceId : ifaces[i] # NoRow}
Nodes        == {n \in NodeId : nodes[n] # NoRow}
Peers        == {p \in PeerId : peers[p] # NoRow}
PeersOn(i)   == {p \in Peers : peers[p].iface = i}
PeersOf(n)   == {p \in Peers : peers[p].node = n}

(* integrity.is_peer_active: neither soft-deleted nor expired. *)
IsActive(row)  == row # NoRow /\ ~row.deleted /\ row.expiry # "passed"
ActiveOn(i)    == {p \in PeersOn(i) : IsActive(peers[p])}
NonDeletedButActive(i) == ActiveOn(i)      \* fault: forgets expired rows
NonDeleted(i)  == {p \in PeersOn(i) : ~peers[p].deleted}
ActiveIps(S)   == {peers[p].ip : p \in S}

(* refs.resolve_interface_ref: an all-digit reference that is a live id is *)
(* that id; any other reference must be the name of exactly one interface. *)
(* The result is empty where the code raises.                              *)
ResolveInterfaceFirst(ref) ==   \* fault: of two of one name the first is taken
    LET byId   == IF ref \in DOMAIN NumericName
                  THEN {NumericName[ref]} \cap Interfaces ELSE {}
        byName == {i \in Interfaces : ifaces[i].name = ref}
    IN  IF byId # {} THEN byId ELSE Lowest(byName)

ResolveInterface(ref) ==
    LET byId   == IF ref \in DOMAIN NumericName
                  THEN {NumericName[ref]} \cap Interfaces ELSE {}
        byName == {i \in Interfaces : ifaces[i].name = ref}
    IN  IF byId # {} THEN byId
        ELSE {i \in byName : byName = {i}}

-----------------------------------------------------------------------------
(* The checks of integrity.py and core.py. *)

Covered(routed)            == UNION routed
AvoidsPool(routed, pool)   == Covered(routed) \cap Network(pool) = {}

(* _resolve_peer_routing_for_write *)
RoutingWellFormed(role, routed, pool) ==
    /\ role = "subnet_router" <=> routed # {}
    /\ AvoidsPool(routed, pool)

(* assert_peer_activation, for a row about to be stored under id p. *)
ActivatableDistinctLans(p, row) ==  \* fault: only equal prefixes collide
    LET pool   == ifaces[row.iface].pool
        others == ActiveOn(row.iface) \ {p}
    IN  /\ row.ip \in PeerHosts(pool)
        /\ RoutingWellFormed(row.role, row.routed, pool)
        /\ \A q \in others : /\ peers[q].node # row.node
                             /\ peers[q].ip # row.ip
                             /\ peers[q].routed \cap row.routed = {}

Activatable(p, row) ==
    LET pool   == ifaces[row.iface].pool
        others == ActiveOn(row.iface) \ {p}
        rivals == {q \in others : peers[q].role = "subnet_router"}
    IN  /\ row.ip \in PeerHosts(pool)
        /\ RoutingWellFormed(row.role, row.routed, pool)
        /\ row.ip \notin Covered(row.routed)
        /\ \A q \in others : peers[q].node # row.node /\ peers[q].ip # row.ip
        /\ row.role = "subnet_router" =>
             \A q \in rivals :
                /\ AvoidsPool(peers[q].routed, pool)
                /\ peers[q].ip \notin Covered(peers[q].routed)
                /\ Covered(row.routed) \cap Covered(peers[q].routed) = {}

(* assert_peer_slot_invariants; node names are unique, so comparing names  *)
(* is comparing nodes.                                                     *)
SlotAvailable(p, row) ==
    /\ row.ip \in PeerHosts(ifaces[row.iface].pool)
    /\ \A q \in ActiveOn(row.iface) \ {p} :
          peers[q].node # row.node /\ peers[q].ip # row.ip

(* The partial unique indexes idx_peers_active_ip and _node. *)
IndexAccepts(table) ==
    \A p, q \in PeerId :
        /\ p # q /\ table[p] # NoRow /\ table[q] # NoRow
        /\ ~table[p].deleted /\ ~table[q].deleted
        /\ table[p].iface = table[q].iface
        => table[p].ip # table[q].ip /\ table[p].node # table[q].node

(* allocate_peer_ip: the addresses it may return, for a new peer or for an *)
(* existing one whose own address is left out of the used set.             *)
Allocation(i, request, ownIp) ==
    LET pool == ifaces[i].pool
        used == Used(pool, ActiveIps(ActiveOn(i)) \ ownIp)
    IN  IF request = Unset THEN NextFree(pool, used)
        ELSE {request} \cap Requestable(pool, used)

(* _reclaim_inactive_peer_slots: the expired rows that hold a wanted slot. *)
BlockingAddresses(i, ips, nodeIds) ==       \* fault: the node's slot is kept
    {p \in NonDeleted(i) : ~IsActive(peers[p]) /\ peers[p].ip \in ips}

BlockingAnywhere(i, ips, nodeIds) ==        \* fault: on every interface
    {p \in Peers : /\ ~peers[p].deleted /\ ~IsActive(peers[p])
                   /\ peers[p].ip \in ips \/ peers[p].node \in nodeIds}

Blocking(i, ips, nodeIds) ==
    {p \in NonDeleted(i) : /\ ~IsActive(peers[p])
                           /\ peers[p].ip \in ips \/ peers[p].node \in nodeIds}

SoftDelete(S) ==
    [p \in PeerId |-> IF p \in S THEN [peers[p] EXCEPT !.deleted = TRUE]
                                 ELSE peers[p]]

-----------------------------------------------------------------------------
(* The audit log.  An event carries the row it was written from.           *)

Event(type, id, row) == [type |-> type, id |-> id, row |-> row]
EventsForCommands(type, S) ==               \* fault: reclamation is silent
    {Event(type, p, peers[p]) : p \in IF type = "reclaimed" THEN {} ELSE S}
EventsFor(type, S)   == {Event(type, p, peers[p]) : p \in S}

EntryOf(row) == [iface |-> row.iface, node |-> row.node, ip |-> row.ip,
                 deleted |-> row.deleted, expires |-> row.expiry # "never"]
IfaceEntryOf(row) == [name |-> row.name, pool |-> row.pool]

Purges  == {"removed_hard", "cascade_removed", "pruned"}
Deletes == {"removed", "reclaimed"}

(* What a reader knows of one peer after the events of one transaction. *)
ReplayPeer(entry, events) ==
    LET types   == {e.type : e \in events}
        updates == {e \in events : e.type = "updated"}
        created == {e \in events : e.type = "created"}
        latest  == CHOOSE e \in updates : TRUE
        kept    == IF updates = {} THEN entry
                   ELSE [entry EXCEPT !.ip = latest.row.ip,
                                      !.expires = latest.row.expiry # "never"]
    IN  IF events = {} THEN entry
        ELSE IF types \cap Purges # {} THEN NoRow
        ELSE IF created # {} THEN EntryOf((CHOOSE e \in created : TRUE).row)
        ELSE [kept EXCEPT !.deleted = entry.deleted \/ types \cap Deletes # {}]

ReplayPeers(events) ==
    [p \in PeerId |-> ReplayPeer(ledger.peers[p], {e \in events : e.id = p})]

LogPeers(events) == ledger' = [ledger EXCEPT !.peers = ReplayPeers(events)]

-----------------------------------------------------------------------------
Init ==
    /\ ifaces = [i \in IfaceId |-> NoRow]
    /\ nextId = 1
    /\ nodes  = [n \in NodeId |-> NoRow]
    /\ peers  = [p \in PeerId |-> NoRow]
    /\ ledger = [ifaces |-> [i \in IfaceId |-> NoRow],
                 nodes  |-> [n \in NodeId |-> NoRow],
                 peers  |-> [p \in PeerId |-> NoRow]]

(* Interfaces. *)

AddInterface(name, pool, routed) ==
    /\ nextId \in IfaceId                       \* bound of the model
    /\ AvoidsPool(routed, pool)
    /\ ifaces' = [ifaces EXCEPT ![nextId] =
                    [name |-> name, pool |-> pool, routed |-> routed]]
    /\ nextId' = nextId + 1
    /\ ledger' = [ledger EXCEPT !.ifaces[nextId] =
                    [name |-> name, pool |-> pool]]
    /\ UNCHANGED <<nodes, peers>>

(* The pool check looks up the interface again, by its name. *)
UpdateInterface(i, pool, routed) ==
    LET row     == ifaces[i]
        newPool == IF pool = Unset THEN row.pool ELSE pool
        checked == ResolveInterface(row.name)
    IN  /\ i \in Interfaces
        /\ pool # Unset \/ routed # Unset
        /\ routed # Unset => AvoidsPool(routed, newPool)
        /\ newPool # row.pool =>
             /\ checked # {}
             /\ \A j \in checked : \A p \in NonDeleted(j) :
                    peers[p].ip \in PeerHosts(newPool)
        /\ ifaces' = [ifaces EXCEPT ![i].pool = newPool,
                         ![i].routed = IF routed = Unset THEN @ ELSE routed]
        /\ ledger' = [ledger EXCEPT !.ifaces[i] = IfaceEntryOf(ifaces'[i])]
        /\ UNCHANGED <<nextId, nodes, peers>>

RemoveInterface(i, force) ==
    /\ i \in Interfaces
    /\ PeersOn(i) = {} \/ force
    /\ ifaces' = [ifaces EXCEPT ![i] = NoRow]
    /\ peers'  = [p \in PeerId |-> IF p \in PeersOn(i) THEN NoRow ELSE peers[p]]
    /\ ledger' = [ledger EXCEPT !.ifaces[i] = NoRow,
                    !.peers = ReplayPeers(EventsFor("cascade_removed", PeersOn(i)))]
    /\ UNCHANGED <<nextId, nodes>>

(* Nodes. *)

NameFree(name) == \A m \in Nodes : nodes[m] # name

AddNode(n, name) ==
    /\ n \notin Nodes /\ NameFree(name)
    /\ nodes'  = [nodes EXCEPT ![n] = name]
    /\ ledger' = [ledger EXCEPT !.nodes[n] = name]
    /\ UNCHANGED <<ifaces, nextId, peers>>

UpdateNode(n, name) ==
    /\ n \in Nodes /\ NameFree(name)
    /\ nodes'  = [nodes EXCEPT ![n] = name]
    /\ ledger' = [ledger EXCEPT !.nodes[n] = name]
    /\ UNCHANGED <<ifaces, nextId, peers>>

DeleteNodesOnly(S) ==                       \* fault: PRAGMA foreign_keys off
    /\ nodes' = [n \in NodeId |-> IF n \in S THEN NoRow ELSE nodes[n]]
    /\ UNCHANGED peers

DeleteNodesSetNull(S) ==                    \* fault: ON DELETE SET NULL
    /\ nodes' = [n \in NodeId |-> IF n \in S THEN NoRow ELSE nodes[n]]
    /\ peers' = [p \in PeerId |-> IF p \in Peers /\ peers[p].node \in S
                                  THEN [peers[p] EXCEPT !.node = NoRow]
                                  ELSE peers[p]]

(* DELETE FROM nodes cascades to the peers rows of those nodes. *)
DeleteNodes(S) ==
    /\ nodes' = [n \in NodeId |-> IF n \in S THEN NoRow ELSE nodes[n]]
    /\ peers' = [p \in PeerId |-> IF p \in Peers /\ peers[p].node \in S
                                  THEN NoRow ELSE peers[p]]

ForgetNodes(S) ==
    [n \in NodeId |-> IF n \in S THEN NoRow ELSE ledger.nodes[n]]

ActiveAttachments(n) == {p \in PeersOf(n) : IsActive(peers[p])}

RemoveNode(n, force) ==
    /\ n \in Nodes
    /\ ActiveAttachments(n) = {} \/ force
    /\ DeleteNodes({n})
    /\ ledger' = [ledger EXCEPT !.nodes = ForgetNodes({n}),
                    !.peers = ReplayPeers(EventsFor("cascade_removed", PeersOf(n)))]
    /\ UNCHANGED <<ifaces, nextId>>

OrphanNodes == {n \in Nodes : PeersOf(n) = {}}

PruneNodes ==
    /\ OrphanNodes # {}
    /\ DeleteNodes(OrphanNodes)
    /\ ledger' = [ledger EXCEPT !.nodes = ForgetNodes(OrphanNodes)]
    /\ UNCHANGED <<ifaces, nextId>>

(* Peers. *)

(* _resolve_node_for_attachment: an existing node, or a new one made for   *)
(* a name nobody has.                                                      *)
AttachableAs(n, name) ==
    IF n \in Nodes THEN name = nodes[n] ELSE NameFree(name)

AddPeer(i, n, name, p, request, expiry, role, routed) ==
    /\ i \in Interfaces /\ p \notin Peers
    /\ AttachableAs(n, name)
    /\ \A q \in ActiveOn(i) : peers[q].node # n    \* else the idempotent return
    /\ \E ip \in Allocation(i, request, {}) :
         LET reclaimed == Blocking(i, {ip}, {n})
             row   == [iface |-> i, node |-> n, ip |-> ip, deleted |-> FALSE,
                       expiry |-> expiry, role |-> role, routed |-> routed]
             table == [SoftDelete(reclaimed) EXCEPT ![p] = row]
         IN  /\ RoutingWellFormed(role, routed, ifaces[i].pool)
             /\ Activatable(p, row)
             /\ IndexAccepts(table)
             /\ peers'  = table
             /\ ledger' = [ledger EXCEPT
                             !.nodes[n] = IF n \in Nodes THEN @ ELSE name,
                             !.peers = ReplayPeers(
                                EventsFor("reclaimed", reclaimed)
                                    \cup {Event("created", p, row)})]
    /\ nodes' = [nodes EXCEPT ![n] = name]
    /\ UNCHANGED <<ifaces, nextId>>

(* The row update_peer checks is built from the row it read before it      *)
(* reclaimed slots; the row it stores is updated after.                    *)
Revised(row, ip, expiry, role, routed) ==
    [row EXCEPT !.ip     = IF ip = Unset THEN @ ELSE ip,
                !.expiry = IF expiry = Unset THEN @ ELSE expiry,
                !.role   = IF role = Unset THEN @ ELSE role,
                !.routed = IF routed # Unset THEN routed
                           ELSE IF role = "endpoint" THEN {} ELSE @]

ReclaimedForUpdate(i, ip) ==
    IF ip = Unset THEN {} ELSE Blocking(i, {ip}, {})

UpdatePeer(p, ip, expiry, role, routed) ==
    LET before    == peers[p]
        i         == before.iface
        reclaimed == ReclaimedForUpdate(i, ip)
        table     == SoftDelete(reclaimed)
        checked   == Revised(before, ip, expiry, role, routed)
        stored    == Revised(table[p], ip, expiry, role, routed)
        changed   == checked # before
    IN  /\ p \in Peers
        \* One of the three given as it already is has the effect of Unset.
        /\ expiry # before.expiry /\ role # before.role
        /\ routed # before.routed
        /\ ip # Unset \/ expiry # Unset \/ role # Unset \/ routed # Unset
        /\ ip # Unset => ip \in Allocation(i, ip, {before.ip})
        /\ RoutingWellFormed(checked.role, checked.routed, ifaces[i].pool)
        /\ IF IsActive(checked) THEN Activatable(p, checked)
           ELSE ip # Unset => SlotAvailable(p, checked)
        /\ IndexAccepts([table EXCEPT ![p] = stored])
        /\ peers' = [table EXCEPT ![p] = stored]
        /\ LogPeers(EventsFor("reclaimed", reclaimed) \cup
                    (IF changed THEN {Event("updated", p, stored)} ELSE {}))
        /\ UNCHANGED <<ifaces, nextId, nodes>>

RemovePeer(p) ==
    /\ p \in Peers /\ ~peers[p].deleted
    /\ peers' = SoftDelete({p})
    /\ LogPeers({Event("removed", p, peers[p])})
    /\ UNCHANGED <<ifaces, nextId, nodes>>

HardRemovePeer(p) ==
    /\ p \in Peers
    /\ peers' = [peers EXCEPT ![p] = NoRow]
    /\ LogPeers({Event("removed_hard", p, peers[p])})
    /\ UNCHANGED <<ifaces, nextId, nodes>>

Inactive(i) == PeersOn(i) \ ActiveOn(i)

PrunePeers(i) ==
    /\ i \in Interfaces /\ Inactive(i) # {}
    /\ peers' = [p \in PeerId |-> IF p \in Inactive(i) THEN NoRow ELSE peers[p]]
    /\ LogPeers(EventsFor("pruned", Inactive(i)))
    /\ UNCHANGED <<ifaces, nextId, nodes>>

(* The clock passes a peer's expires_at.  That of a soft-deleted peer is   *)
(* never looked at again.                                                  *)
Expire(p) ==
    /\ p \in Peers /\ ~peers[p].deleted /\ peers[p].expiry = "pending"
    /\ peers' = [peers EXCEPT ![p].expiry = "passed"]
    /\ UNCHANGED <<ifaces, nextId, nodes, ledger>>

(* The clock is set back before the expires_at of a peer that had expired. *)
StepBack(p) ==
    /\ p \in Peers /\ ~peers[p].deleted /\ peers[p].expiry = "passed"
    /\ peers' = [peers EXCEPT ![p].expiry = "pending"]
    /\ UNCHANGED <<ifaces, nextId, nodes, ledger>>

-----------------------------------------------------------------------------
InterfaceStep ==
    \/ \E name \in InterfaceName, pool \in Pools, routed \in HubRouted :
          AddInterface(name, pool, routed)
    \/ \E i \in IfaceId, pool \in Pools \cup {Unset},
          routed \in HubRouted \cup {Unset} : UpdateInterface(i, pool, routed)
    \/ \E i \in IfaceId, force \in BOOLEAN : RemoveInterface(i, force)

NodeStep ==
    \/ \E n \in NodeId, name \in NodeName : AddNode(n, name) \/ UpdateNode(n, name)
    \/ \E n \in NodeId, force \in BOOLEAN : RemoveNode(n, force)
    \/ PruneNodes

PeerStep ==
    \/ \E i \in IfaceId, n \in NodeId, name \in NodeName, p \in PeerId,
          request \in Requests \cup {Unset}, expiry \in {"never", "pending"},
          role \in Role, routed \in Routed :
             AddPeer(i, n, name, p, request, expiry, role, routed)
    \/ \E p \in PeerId, ip \in Requests \cup {Unset},
          expiry \in {"never", "pending", Unset}, role \in Role \cup {Unset},
          routed \in Routed \cup {Unset} :
             UpdatePeer(p, ip, expiry, role, routed)
    \/ \E p \in PeerId : RemovePeer(p) \/ HardRemovePeer(p)
    \/ \E i \in IfaceId : PrunePeers(i)

Next == InterfaceStep \/ NodeStep \/ PeerStep \/ \E p \in PeerId : Expire(p)

Spec == Init /\ [][Next]_vars

(* Nothing in the program stops an operator, or NTP, setting the clock back. *)
SetBack == \E p \in PeerId : StepBack(p)
SpecAnyClock == Init /\ [][Next \/ SetBack]_vars

-----------------------------------------------------------------------------
(***************************************************************************)
(* Properties.                                                             *)
(***************************************************************************)

(* The types of the five variables. *)
TypeOK ==
    /\ ifaces \in [IfaceId -> IfaceRow \cup {NoRow}]
    /\ nextId \in Nat
    /\ nodes \in [NodeId -> NodeName \cup {NoRow}]
    /\ peers \in [PeerId -> PeerRow \cup {NoRow}]
    /\ ledger \in [ifaces : [IfaceId -> IfaceEntry \cup {NoRow}],
                   nodes  : [NodeId -> NodeName \cup {NoRow}],
                   peers  : [PeerId -> PeerEntry \cup {NoRow}]]

(* Foreign keys: a peer's interface and node exist, whatever cascade of    *)
(* interface, node or peer removals came before.                           *)
NoOrphanPeers ==
    \A p \in Peers : peers[p].iface \in Interfaces /\ peers[p].node \in Nodes

(* A peer that is not soft-deleted, expired or not, has a host address of  *)
(* its interface's pool.                                                   *)
InPool(p) ==
    ~peers[p].deleted => peers[p].ip \in PeerHosts(ifaces[peers[p].iface].pool)

(* The interface's name is a number, and the id of another.                *)
Misnamed(i) ==
    ifaces[i].name \in DOMAIN NumericName /\ NumericName[ifaces[i].name] # i

(* No allocation, reactivation or pool change leaves a peer outside its    *)
(* pool, with one exception: the change of a pool whose interface has the  *)
(* id of another for its name, since the peers checked are then that       *)
(* other's.  Of two interfaces of one name neither is ever checked for the *)
(* other.                                                                  *)
KeptInPool ==
    [][\A p \in Peers' :
          \/ InPool(p)'
          \/ p \in Peers /\ ~InPool(p)
          \/ /\ p \in Peers
             /\ LET i == peers[p].iface
                IN  /\ ifaces'[i].pool # ifaces[i].pool
                    /\ Misnamed(i) /\ NumericName[ifaces[i].name] \in Interfaces
      ]_vars

(* So all that are attached to an interface not misnamed are in its pool.  *)
NonDeletedInPool ==
    \A p \in Peers : ~Misnamed(peers[p].iface) => InPool(p)

(* What add_peer's own checks and reclamation let through, SQLite's        *)
(* partial unique indexes accept: an expired row never blocks an address   *)
(* or a node that the code considers free.                                 *)
ReclamationFreesSlots ==
    \A i \in Interfaces, n \in NodeId, p \in PeerId \ Peers :
        \A ip \in PeerHosts(ifaces[i].pool) :
            LET row == [iface |-> i, node |-> n, ip |-> ip, deleted |-> FALSE,
                        expiry |-> "never", role |-> "endpoint", routed |-> {}]
            IN  Activatable(p, row) =>
                  IndexAccepts([SoftDelete(Blocking(i, {ip}, {n}))
                                    EXCEPT ![p] = row])

(* Where the active peers are in the pool, automatic allocation never      *)
(* proposes an address that the activation checks then refuse, and finds   *)
(* one exactly when a host address is free; a /31, of whose two addresses  *)
(* one is a host, is the exception.                                        *)
AllocationAgreesWithActivation ==
    \A i \in Interfaces : (\A p \in ActiveOn(i) : InPool(p)) =>
        LET pool == ifaces[i].pool
            free == PeerHosts(pool) \ ActiveIps(ActiveOn(i))
            auto == Allocation(i, Unset, {})
        IN  /\ auto \subseteq free
            /\ pool.last - pool.first # 1 => (auto = {} <=> free = {})

(* Replaying the audit log rebuilds the tables: every row created, moved,  *)
(* given or relieved of an expiry, reclaimed, removed, pruned or deleted   *)
(* by a cascade is accounted for in the same transaction.                  *)
LedgerFaithful ==
    /\ \A i \in IfaceId : ledger.ifaces[i] =
          IF i \in Interfaces THEN IfaceEntryOf(ifaces[i]) ELSE NoRow
    /\ ledger.nodes = nodes
    /\ \A p \in PeerId : ledger.peers[p] =
          IF p \in Peers THEN EntryOf(peers[p]) ELSE NoRow

(* The peers one command creates, changes and deletes, reclaimed ones      *)
(* included, are all on one interface; removing a node is the exception,   *)
(* which takes its peers everywhere.                                       *)
InterfacesIsolated ==
    [][Nodes \subseteq Nodes' =>
          \E i \in IfaceId : \A p \in PeerId :
              peers'[p] # peers[p] => p \in PeersOn(i) \cup PeersOn(i)']_vars

(* The gate of _build_server_snapshot: the interface and its active peers  *)
(* pass assert_exportable_interface and assert_exportable_peer.            *)
ExportableUnchecked(i) ==                   \* fault: pool overlap not rechecked
    \A p \in ActiveOn(i) : peers[p].ip \notin Covered(peers[p].routed)

Exportable(i) ==
    /\ AvoidsPool(ifaces[i].routed, ifaces[i].pool)
    /\ \A p \in ActiveOn(i) :
          /\ peers[p].ip \in PeerHosts(ifaces[i].pool)
          /\ RoutingWellFormed(peers[p].role, peers[p].routed, ifaces[i].pool)
          /\ peers[p].ip \notin Covered(peers[p].routed)

(* routing.resolve_hub_allowed_ips, as the addresses covered. *)
HubAllowedIps(p) ==
    {peers[p].ip} \cup
        IF peers[p].role = "subnet_router" THEN Covered(peers[p].routed) ELSE {}

(* A hub configuration that can be emitted routes no address to two peers, *)
(* after any history of expiries, reactivations, reclaimed slots, role and *)
(* pool changes.                                                           *)
HubTableUnambiguous ==
    \A i \in Interfaces : Exportable(i) =>
        \A p, q \in ActiveOn(i) :
            p # q => HubAllowedIps(p) \cap HubAllowedIps(q) = {}

(* What a restore asks of an interface and all its peers, deleted ones     *)
(* included: validate_database(full=True) and the error-severity checks of *)
(* validate_state.                                                         *)
Accepted(i) ==
    /\ AvoidsPool(ifaces[i].routed, ifaces[i].pool)
    /\ \A p \in PeersOn(i) :
          /\ peers[p].ip \in PeerHosts(ifaces[i].pool)
          /\ RoutingWellFormed(peers[p].role, peers[p].routed, ifaces[i].pool)
          /\ peers[p].ip \notin Covered(peers[p].routed)
    /\ \A p \in ActiveOn(i) :
          /\ peers[p].routed \cap ifaces[i].routed = {}
          /\ \A q \in ActiveOn(i) \ {p} :
                /\ peers[p].ip # peers[q].ip
                /\ nodes[peers[p].node] # nodes[peers[q].node]
                /\ Covered(peers[p].routed) \cap Covered(peers[q].routed) = {}

(* No pool was moved over networks that are routed, or away from a peer    *)
(* that is only soft-deleted or whose interface is misnamed, and no active *)
(* peer routes a prefix of the interface's own.                            *)
NetworksAgree(i) ==
    /\ AvoidsPool(ifaces[i].routed, ifaces[i].pool)
    /\ \A p \in PeersOn(i) :
          /\ AvoidsPool(peers[p].routed, ifaces[i].pool)
          /\ peers[p].deleted \/ Misnamed(i)
               => peers[p].ip \in PeerHosts(ifaces[i].pool)
    /\ \A p \in ActiveOn(i) : peers[p].routed \cap ifaces[i].routed = {}

(* Those are the only ways in which commands lead to a backup that restore *)
(* refuses: whatever else was done to a peer, and however long ago it      *)
(* expired or was deleted, its row passes the stricter checks.             *)
RefusedOnlyForNetworks ==
    \A i \in Interfaces : NetworksAgree(i) => Accepted(i)

-----------------------------------------------------------------------------
(***************************************************************************)
(* Abstraction: on its interface an active peer holds its address, its     *)
(* node's slot and the addresses of its LANs, and nobody else does.        *)
(***************************************************************************)
Slot == (IfaceId \X {"address"} \X Nat) \cup (IfaceId \X {"node"} \X NodeId)
           \cup (IfaceId \X {"lan"} \X Nat)

SlotsOf(row) ==
    {<<row.iface, "address", row.ip>>, <<row.iface, "node", row.node>>}
        \cup {<<row.iface, "lan", a>> : a \in Covered(row.routed)}

Holdings ==
    [p \in PeerId |-> IF IsActive(peers[p]) THEN SlotsOf(peers[p]) ELSE {}]

Claims == INSTANCE ExclusiveClaims
             WITH Owner <- PeerId, Resource <- Slot, holds <- Holdings

(* Each operation either lets one peer take slots nobody else holds, or    *)
(* takes slots away: no operation on one peer deactivates or moves another *)
(* active peer, and none hands out a held slot.                            *)
ImplementsClaims == Claims!Spec

-----------------------------------------------------------------------------
(***************************************************************************)
(* What documentation and comments say, and the code does not do.          *)
(***************************************************************************)

(* docs/cli.md, `peer update': `--clear-expires' reactivates an expired    *)
(* peer.                                                                   *)
ClearExpiresReactivates ==
    [][\A p \in PeerId, ip \in Requests \cup {Unset} :
         /\ p \in Peers /\ ~peers[p].deleted /\ peers[p].expiry = "passed"
         /\ UpdatePeer(p, ip, "never", Unset, Unset)
         => IsActive(peers'[p])]_vars

(* docs/cli.md, `interface update': shrinking address_pool is rejected if  *)
(* any non-soft-deleted peer would fall outside it.                        *)
ShrinkRejected ==
    [][\A i \in Interfaces, pool \in Pools :
         /\ pool # ifaces[i].pool
         /\ Network(pool) \subseteq Network(ifaces[i].pool)
         /\ UpdateInterface(i, pool, Unset)
         => \A p \in NonDeleted(i) : peers[p].ip \in PeerHosts(pool)]_vars

(* restore.py: a state the CLI can create must be restorable.              *)
Restorable == \A i \in Interfaces : Accepted(i)
=============================================================================
