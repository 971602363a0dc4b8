--------------------------- MODULE TopologyProofs ---------------------------
(***************************************************************************)
(* What holds of Topology for every set of nodes, peers, pools and LANs.   *)
(***************************************************************************)
EXTENDS Topology, TLAPS

(* The rows of the three tables are well typed. *)
RowsOK ==
    /\ ifaces \in [IfaceId -> IfaceRow \cup {NoRow}]
    /\ nextId \in Nat
    /\ nodes \in [NodeId -> NodeName \cup {NoRow}]
    /\ peers \in [PeerId -> PeerRow \cup {NoRow}]

LEMMA SoftDeleteType ==
    ASSUME RowsOK, NEW S \in SUBSET Peers
    PROVE  /\ SoftDelete(S) \in [PeerId -> PeerRow \cup {NoRow}]
           /\ \A p \in Peers \ S : SoftDelete(S)[p] = peers[p]
           /\ \A p \in S : /\ SoftDelete(S)[p] \in PeerRow
                           /\ SoftDelete(S)[p] = [peers[p] EXCEPT !.deleted = TRUE]
BY NoRowAssumption, ZenonT(30) DEF SoftDelete, RowsOK, Peers, PeerRow

(* row is before, soft-deleted if `now' holds. *)
Marked(row, before, now) ==
    /\ row \in PeerRow
    /\ row.iface = before.iface /\ row.node = before.node /\ row.ip = before.ip
    /\ row.expiry = before.expiry /\ row.role = before.role
    /\ row.routed = before.routed
    /\ row.deleted = (before.deleted \/ now)

LEMMA SoftDeleteRows ==
    ASSUME RowsOK, NEW S \in SUBSET Peers, NEW q \in PeerId
    PROVE  /\ SoftDelete(S)[q] = NoRow <=> peers[q] = NoRow
           /\ q \in Peers => Marked(SoftDelete(S)[q], peers[q], q \in S)
<1>1. CASE q \in S
  <2>1. /\ SoftDelete(S)[q] = [peers[q] EXCEPT !.deleted = TRUE]
        /\ SoftDelete(S)[q] \in PeerRow /\ q \in Peers /\ peers[q] \in PeerRow
    BY <1>1, SoftDeleteType DEF RowsOK, Peers
  <2>2. SoftDelete(S)[q] # NoRow /\ peers[q] # NoRow
    BY <2>1, NoRowAssumption DEF Peers
  <2>3. Marked(SoftDelete(S)[q], peers[q], q \in S)
    BY <1>1, <2>1 DEF Marked, PeerRow
  <2>. QED BY <2>2, <2>3
<1>2. CASE q \in Peers /\ q \notin S
  <2>1. SoftDelete(S)[q] = peers[q] /\ peers[q] \in PeerRow
    BY <1>2, SoftDeleteType DEF RowsOK, Peers
  <2>2. Marked(peers[q], peers[q], q \in S)
    BY <1>2, <2>1 DEF Marked, PeerRow
  <2>. QED BY <2>1, <2>2
<1>3. CASE q \notin Peers
  BY <1>3 DEF SoftDelete, Peers
<1>. QED BY <1>1, <1>2, <1>3

LEMMA AllocationType ==
    ASSUME RowsOK, NEW i \in Interfaces, NEW request \in Requests \cup {Unset},
           NEW own \in SUBSET Nat
    PROVE  Allocation(i, request, own) \subseteq Nat
<1>1. ifaces[i].pool \in [first : Nat, last : Nat]
  BY ConstantsAssumption DEF RowsOK, Interfaces, IfaceRow
<1>2. CASE request # Unset
  BY <1>2, ConstantsAssumption DEF Allocation
<1>3. CASE request = Unset
  <2>. DEFINE pool == ifaces[i].pool
              used == Used(pool, ActiveIps(ActiveOn(i)) \ own)
  <2>1. used \subseteq Nat
    BY <1>1 DEF Used, ActiveIps, ActiveOn, PeersOn, Peers, RowsOK, PeerRow, Gateway
  <2>2. Lowest(Network(pool)) \subseteq Nat
    BY <1>1 DEF Lowest, Network
  <2>3. NextFree(pool, used) \subseteq Nat
    <3>1. \A u \in used : (pool.first + 1) .. (u - 1) \subseteq Nat
      BY <2>1, <1>1
    <3>2. (UNION {(pool.first + 1) .. (u - 1) : u \in used}) \ used \subseteq Nat
      BY <3>1
    <3>. QED BY <2>2, <3>2, <1>1 DEF NextFree, Lowest
  <2>. QED BY <2>3, <1>3 DEF Allocation
<1>. QED BY <1>2, <1>3

-----------------------------------------------------------------------------
(* Replaying the events of one transaction. *)

LEMMA ReplayNothing ==
    ASSUME NEW entry PROVE ReplayPeer(entry, {}) = entry
BY DEF ReplayPeer

LEMMA ReplayPurge ==
    ASSUME NEW entry, NEW events, NEW e \in events, e.type \in Purges
    PROVE  ReplayPeer(entry, events) = NoRow
BY DEF ReplayPeer

LEMMA ReplayCreate ==
    ASSUME NEW entry, NEW id, NEW row
    PROVE  ReplayPeer(entry, {Event("created", id, row)}) = EntryOf(row)
<1>. DEFINE e == Event("created", id, row)
<1>1. {x \in {e} : x.type = "created"} = {e} /\ e.row = row
  BY DEF Event
<1>2. (CHOOSE x \in {e} : TRUE) = e
  OBVIOUS
<1>. QED BY <1>1, <1>2 DEF ReplayPeer, Event, Purges

LEMMA ReplayDelete ==
    ASSUME NEW entry \in PeerEntry, NEW id, NEW row, NEW type \in Deletes
    PROVE  ReplayPeer(entry, {Event(type, id, row)})
              = [entry EXCEPT !.deleted = TRUE]
<1>. DEFINE e == Event(type, id, row)
<1>1. {x \in {e} : x.type = "updated"} = {} /\ {x \in {e} : x.type = "created"} = {}
  BY DEF Event, Deletes
<1>2. {x.type : x \in {e}} = {type}
  BY DEF Event
<1>3. {type} \cap Purges = {} /\ {type} \cap Deletes # {}
  BY DEF Deletes, Purges
<1>. QED BY <1>1, <1>2, <1>3 DEF ReplayPeer, PeerEntry

LEMMA EditedEntry ==
    ASSUME NEW entry \in PeerEntry, NEW after \in PeerEntry,
           after.iface = entry.iface, after.node = entry.node
    PROVE  [[entry EXCEPT !.ip = after.ip, !.expires = after.expires]
                EXCEPT !.deleted = after.deleted] = after
BY DEF PeerEntry

(* An update, of a row that the same transaction may have reclaimed.       *)
LEMMA ReplayUpdate ==
    ASSUME NEW before \in PeerRow, NEW row \in PeerRow, NEW id,
           NEW reclaimed \in BOOLEAN,
           row.iface = before.iface, row.node = before.node,
           row.deleted = (before.deleted \/ reclaimed)
    PROVE  ReplayPeer(EntryOf(before), {Event("updated", id, row)} \cup
                 IF reclaimed THEN {Event("reclaimed", id, before)} ELSE {})
              = EntryOf(row)
<1>. DEFINE u == Event("updated", id, row)
            r == Event("reclaimed", id, before)
            events == {u} \cup IF reclaimed THEN {r} ELSE {}
            entry == EntryOf(before)
            after == EntryOf(row)
            expires == row.expiry # "never"
            deleted == entry.deleted \/ {x.type : x \in events} \cap Deletes # {}
<1>1. {x \in events : x.type = "updated"} = {u}
  BY DEF Event
<1>2. {x \in events : x.type = "created"} = {}
  BY DEF Event
<1>3. (CHOOSE x \in {u} : TRUE) = u /\ u.row = row
  BY DEF Event
<1>4. {x.type : x \in events} = {"updated"} \cup IF reclaimed THEN {"reclaimed"} ELSE {}
  <2>1. u.type = "updated" /\ r.type = "reclaimed"
    BY DEF Event
  <2>2. CASE reclaimed
    <3>. HIDE DEF u, r
    <3>. QED BY <2>1, <2>2
  <2>3. CASE ~reclaimed
    <3>. HIDE DEF u, r
    <3>. QED BY <2>1, <2>3
  <2>. QED BY <2>2, <2>3
<1>5. {x.type : x \in events} \cap Purges = {} /\ events # {}
  BY <1>4 DEF Purges
<1>6. {x.type : x \in events} \cap Deletes # {} <=> reclaimed
  BY <1>4 DEF Deletes
<1>7. entry \in PeerEntry /\ after \in PeerEntry
  BY DEF EntryOf, PeerEntry, PeerRow
<1>8. /\ after.iface = entry.iface /\ after.node = entry.node
      /\ after.ip = row.ip /\ row.ip \in Nat
  BY DEF EntryOf, PeerRow
<1>9. after.expires = expires /\ expires \in BOOLEAN
  BY Zenon DEF EntryOf
<1>10. after.deleted = deleted /\ deleted \in BOOLEAN
  <2>1. entry.deleted = before.deleted /\ after.deleted = row.deleted
    BY DEF EntryOf
  <2>2. before.deleted \in BOOLEAN /\ row.deleted \in BOOLEAN
    BY DEF PeerRow
  <2>. QED BY <1>6, <2>1, <2>2
<1>11. ReplayPeer(entry, events)
          = [[entry EXCEPT !.ip = row.ip, !.expires = expires]
                EXCEPT !.deleted = deleted]
  <2>. HIDE DEF events, entry
  <2>. QED BY <1>1, <1>2, <1>3, <1>5, Zenon DEF ReplayPeer
<1>. HIDE DEF entry, after, expires, deleted
<1>12. ReplayPeer(entry, events)
          = [[entry EXCEPT !.ip = after.ip, !.expires = after.expires]
                EXCEPT !.deleted = after.deleted]
  <2>. HIDE DEF events
  <2>. QED BY <1>8, <1>9, <1>10, <1>11, Zenon
<1>13. ReplayPeer(entry, events) = after
  <2>. HIDE DEF events
  <2>. QED BY <1>7, <1>8, <1>12, EditedEntry
<1>. QED BY <1>13 DEF entry, after

(***************************************************************************)
(* The inductive invariant.  Faithfulness of the log is what types it: an  *)
(* event that edits a row finds the row's entry there.  Ids are fresh, so  *)
(* a new interface has no peers.                                           *)
(***************************************************************************)
FreshIds == \A i \in Interfaces : i < nextId

LedgerType == ledger \in [ifaces : [IfaceId -> IfaceEntry \cup {NoRow}],
                          nodes  : [NodeId -> NodeName \cup {NoRow}],
                          peers  : [PeerId -> PeerEntry \cup {NoRow}]]

Inv == RowsOK /\ NoOrphanPeers /\ FreshIds /\ LedgerType /\ LedgerFaithful

(* The entry a faithful log has for a row, and for no row. *)
EntryFor(row) == IF row = NoRow THEN NoRow ELSE EntryOf(row)

LEMMA EntryForType ==
    \A row \in PeerRow \cup {NoRow} : EntryFor(row) \in PeerEntry \cup {NoRow}
BY DEF EntryFor, EntryOf, PeerRow, PeerEntry

LEMMA LedgerOfPeer ==
    ASSUME Inv, NEW p \in PeerId PROVE ledger.peers[p] = EntryFor(peers[p])
BY DEF Inv, LedgerFaithful, EntryFor, Peers

LEMMA EventsOfPeer ==
    ASSUME NEW type, NEW S \in SUBSET PeerId, NEW p \in PeerId
    PROVE  {e \in EventsFor(type, S) : e.id = p}
              = IF p \in S THEN {Event(type, p, peers[p])} ELSE {}
BY DEF EventsFor, Event

LEMMA ReplayedPurge ==
    ASSUME Inv, NEW type \in Purges, NEW S \in SUBSET Peers, NEW p \in PeerId
    PROVE  ReplayPeers(EventsFor(type, S))[p]
              = EntryFor(IF p \in S THEN NoRow ELSE peers[p])
<1>1. S \subseteq PeerId
  BY DEF Peers
<1>2. CASE p \in S
  <2>1. ReplayPeer(ledger.peers[p], {Event(type, p, peers[p])}) = NoRow
    BY ReplayPurge DEF Event
  <2>. QED BY <1>1, <1>2, <2>1, EventsOfPeer DEF ReplayPeers, EntryFor
<1>3. CASE p \notin S
  <2>1. {e \in EventsFor(type, S) : e.id = p} = {}
    BY <1>1, <1>3, EventsOfPeer
  <2>. QED BY <1>3, <2>1, ReplayNothing, LedgerOfPeer DEF ReplayPeers
<1>. QED BY <1>2, <1>3

LEMMA DeletedEntry ==
    ASSUME NEW row \in PeerRow
    PROVE  EntryOf([row EXCEPT !.deleted = TRUE])
              = [EntryOf(row) EXCEPT !.deleted = TRUE]
<1>. DEFINE deleted == [row EXCEPT !.deleted = TRUE]
            before  == EntryOf(row)
            after   == EntryOf(deleted)
<1>1. deleted \in PeerRow
  BY DEF PeerRow
<1>2. before \in PeerEntry /\ after \in PeerEntry
  BY <1>1 DEF EntryOf, PeerRow, PeerEntry
<1>3. /\ after.iface = before.iface /\ after.node = before.node
      /\ after.ip = before.ip /\ after.deleted = TRUE
  BY DEF EntryOf, PeerRow
<1>4. deleted.expiry = row.expiry
  BY DEF PeerRow
<1>5. after.expires = before.expires
  BY <1>4, Zenon DEF EntryOf
<1>. HIDE DEF before, after
<1>6. after = [before EXCEPT !.deleted = TRUE]
  BY <1>2, <1>3, <1>5 DEF PeerEntry
<1>. QED BY <1>6 DEF before, after

LEMMA ReplayedDelete ==
    ASSUME Inv, NEW type \in Deletes, NEW S \in SUBSET Peers, NEW p \in PeerId
    PROVE  ReplayPeer(ledger.peers[p], {e \in EventsFor(type, S) : e.id = p})
              = EntryFor(SoftDelete(S)[p])
<1>1. S \subseteq PeerId
  BY DEF Peers
<1>2. CASE p \in S
  <2>1. /\ peers[p] \in PeerRow /\ peers[p] # NoRow
        /\ SoftDelete(S)[p] = [peers[p] EXCEPT !.deleted = TRUE]
        /\ SoftDelete(S)[p] # NoRow
    BY <1>2, SoftDeleteType, NoRowAssumption DEF Inv, RowsOK, Peers
  <2>2. ledger.peers[p] = EntryOf(peers[p])
    BY <2>1, LedgerOfPeer DEF EntryFor
  <2>3. EntryOf(peers[p]) \in PeerEntry
    BY <2>1 DEF EntryOf, PeerEntry, PeerRow
  <2>4. ReplayPeer(ledger.peers[p], {Event(type, p, peers[p])})
           = [ledger.peers[p] EXCEPT !.deleted = TRUE]
    BY <2>2, <2>3, ReplayDelete
  <2>. QED BY <1>1, <1>2, <2>1, <2>2, <2>4, EventsOfPeer, DeletedEntry DEF EntryFor
<1>3. CASE p \notin S
  <2>1. {e \in EventsFor(type, S) : e.id = p} = {}
    BY <1>1, <1>3, EventsOfPeer
  <2>. QED BY <1>3, <2>1, ReplayNothing, LedgerOfPeer DEF SoftDelete
<1>. QED BY <1>2, <1>3

(* A log whose entries are those of the tables is typed and faithful.      *)
LEMMA LedgerStep ==
    ASSUME Inv, RowsOK',
           NEW ifaceEntries, NEW nodeEntries, NEW peerEntries,
           ledger' = [ifaces |-> ifaceEntries, nodes |-> nodeEntries,
                      peers  |-> peerEntries],
           ifaceEntries = [i \in IfaceId |->
              IF ifaces'[i] # NoRow THEN IfaceEntryOf(ifaces'[i]) ELSE NoRow],
           nodeEntries = nodes',
           peerEntries = [p \in PeerId |-> EntryFor(peers'[p])]
    PROVE  LedgerType' /\ LedgerFaithful'
<1>1. ifaceEntries \in [IfaceId -> IfaceEntry \cup {NoRow}]
  BY DEF RowsOK, IfaceEntry, IfaceEntryOf, IfaceRow
<1>2. nodeEntries \in [NodeId -> NodeName \cup {NoRow}]
  BY DEF RowsOK
<1>3. peerEntries \in [PeerId -> PeerEntry \cup {NoRow}]
  BY EntryForType DEF RowsOK
<1>4. LedgerType'
  BY <1>1, <1>2, <1>3 DEF LedgerType
<1>5. LedgerFaithful'
  BY DEF LedgerFaithful, EntryFor, Interfaces, Peers
<1>. QED BY <1>4, <1>5

-----------------------------------------------------------------------------
(* Every action preserves the invariant. *)

LEMMA InitInv == Init => Inv
<1>. SUFFICES ASSUME Init PROVE Inv
  OBVIOUS
<1>1. Interfaces = {} /\ Peers = {}
  BY DEF Init, Interfaces, Peers
<1>2. RowsOK /\ LedgerType
  BY DEF Init, RowsOK, LedgerType
<1>3. LedgerFaithful
  BY <1>1 DEF Init, LedgerFaithful
<1>. QED BY <1>1, <1>2, <1>3 DEF Inv, NoOrphanPeers, FreshIds

LEMMA LedgerRecord ==
    ASSUME Inv
    PROVE  /\ ledger = [ifaces |-> ledger.ifaces, nodes |-> ledger.nodes,
                        peers  |-> ledger.peers]
           /\ ledger.ifaces = [i \in IfaceId |->
                 IF ifaces[i] # NoRow THEN IfaceEntryOf(ifaces[i]) ELSE NoRow]
           /\ ledger.nodes = nodes
           /\ ledger.peers = [p \in PeerId |-> EntryFor(peers[p])]
<1>1. /\ ledger = [ifaces |-> ledger.ifaces, nodes |-> ledger.nodes,
                   peers  |-> ledger.peers]
      /\ ledger.nodes = nodes
  BY DEF Inv, LedgerType, LedgerFaithful
<1>2. \A i \in IfaceId : ledger.ifaces[i] =
         IF ifaces[i] # NoRow THEN IfaceEntryOf(ifaces[i]) ELSE NoRow
  BY DEF Inv, LedgerFaithful, Interfaces
<1>3. ledger.ifaces = [i \in IfaceId |-> ledger.ifaces[i]]
  BY DEF Inv, LedgerType
<1>4. ledger.peers = [p \in PeerId |-> ledger.peers[p]]
  BY DEF Inv, LedgerType
<1>. QED BY <1>1, <1>2, <1>3, <1>4, LedgerOfPeer

LEMMA AddInterfaceInv ==
    ASSUME Inv, NEW name \in InterfaceName, NEW pool \in Pools,
           NEW routed \in HubRouted, AddInterface(name, pool, routed)
    PROVE  Inv'
<1>. DEFINE row == [name |-> name, pool |-> pool, routed |-> routed]
<1>1. row \in IfaceRow /\ row # NoRow
  BY NoRowAssumption DEF IfaceRow
<1>2. RowsOK'
  BY <1>1 DEF Inv, RowsOK, AddInterface
<1>3. Interfaces' = Interfaces \cup {nextId} /\ Peers' = Peers /\ Nodes' = Nodes
  BY <1>1 DEF Inv, RowsOK, AddInterface, Interfaces, Peers, Nodes
<1>4. NoOrphanPeers'
  BY <1>3 DEF Inv, AddInterface, NoOrphanPeers
<1>5. FreshIds'
  BY <1>3 DEF Inv, RowsOK, AddInterface, FreshIds, Interfaces, IfaceId
<1>6. LedgerType' /\ LedgerFaithful'
  <2>1. ledger' = [ifaces |-> [ledger.ifaces EXCEPT ![nextId] =
                                  [name |-> name, pool |-> pool]],
                   nodes |-> ledger.nodes, peers |-> ledger.peers]
    BY LedgerRecord DEF AddInterface
  <2>2. [ledger.ifaces EXCEPT ![nextId] = [name |-> name, pool |-> pool]]
           = [i \in IfaceId |->
                 IF ifaces'[i] # NoRow THEN IfaceEntryOf(ifaces'[i]) ELSE NoRow]
    BY <1>1, LedgerRecord DEF AddInterface, Inv, RowsOK, IfaceEntryOf
  <2>. QED BY <1>2, <2>1, <2>2, LedgerRecord, LedgerStep DEF AddInterface
<1>. QED BY <1>2, <1>4, <1>5, <1>6 DEF Inv

LEMMA UpdateInterfaceInv ==
    ASSUME Inv, NEW i \in IfaceId, NEW pool \in Pools \cup {Unset},
           NEW routed \in HubRouted \cup {Unset}, UpdateInterface(i, pool, routed)
    PROVE  Inv'
<1>1. ifaces[i] \in IfaceRow /\ ifaces'[i] \in IfaceRow
  BY UnsetAssumption DEF Inv, RowsOK, UpdateInterface, Interfaces, IfaceRow
<1>2. RowsOK'
  BY <1>1 DEF Inv, RowsOK, UpdateInterface
<1>3. Interfaces' = Interfaces /\ Peers' = Peers /\ Nodes' = Nodes
  BY <1>1, NoRowAssumption DEF Inv, RowsOK, UpdateInterface, Interfaces, Peers, Nodes
<1>4. NoOrphanPeers' /\ FreshIds'
  BY <1>3 DEF Inv, UpdateInterface, NoOrphanPeers, FreshIds
<1>5. LedgerType' /\ LedgerFaithful'
  <2>1. ledger' = [ifaces |-> [ledger.ifaces EXCEPT ![i] = IfaceEntryOf(ifaces'[i])],
                   nodes |-> ledger.nodes, peers |-> ledger.peers]
    BY LedgerRecord DEF UpdateInterface
  <2>2. [ledger.ifaces EXCEPT ![i] = IfaceEntryOf(ifaces'[i])]
           = [j \in IfaceId |->
                 IF ifaces'[j] # NoRow THEN IfaceEntryOf(ifaces'[j]) ELSE NoRow]
    BY <1>1, LedgerRecord, NoRowAssumption DEF UpdateInterface, Inv, RowsOK
  <2>3. nodes' = nodes /\ peers' = peers
    BY DEF UpdateInterface
  <2>. QED BY <1>2, <2>1, <2>2, <2>3, LedgerRecord, LedgerStep
<1>. QED BY <1>2, <1>4, <1>5 DEF Inv

LEMMA RemoveInterfaceInv ==
    ASSUME Inv, NEW i \in IfaceId, NEW force \in BOOLEAN, RemoveInterface(i, force)
    PROVE  Inv'
<1>. DEFINE purge == EventsFor("cascade_removed", PeersOn(i))
<1>1. RowsOK'
  BY DEF Inv, RowsOK, RemoveInterface
<1>2. /\ Interfaces' = Interfaces \ {i}
      /\ Peers' = Peers \ PeersOn(i)
      /\ Nodes' = Nodes
      /\ \A p \in Peers' : peers'[p] = peers[p]
  BY DEF Inv, RowsOK, RemoveInterface, Interfaces, Peers, Nodes, PeersOn
<1>3. NoOrphanPeers'
  BY <1>2 DEF Inv, NoOrphanPeers, PeersOn
<1>4. FreshIds'
  BY <1>2 DEF Inv, FreshIds, RemoveInterface
<1>5. LedgerType' /\ LedgerFaithful'
  <2>1. ledger' = [ifaces |-> [ledger.ifaces EXCEPT ![i] = NoRow],
                   nodes |-> ledger.nodes, peers |-> ReplayPeers(purge)]
    BY LedgerRecord DEF RemoveInterface
  <2>2. [ledger.ifaces EXCEPT ![i] = NoRow]
           = [j \in IfaceId |->
                 IF ifaces'[j] # NoRow THEN IfaceEntryOf(ifaces'[j]) ELSE NoRow]
    BY LedgerRecord DEF RemoveInterface, Inv, RowsOK
  <2>3. ReplayPeers(purge) = [p \in PeerId |-> EntryFor(peers'[p])]
    <3>1. \A p \in PeerId : ReplayPeers(purge)[p] = EntryFor(peers'[p])
      BY ReplayedPurge DEF RemoveInterface, Purges, PeersOn
    <3>. QED BY <3>1 DEF ReplayPeers
  <2>4. nodes' = nodes
    BY DEF RemoveInterface
  <2>. QED BY <1>1, <2>1, <2>2, <2>3, <2>4, LedgerRecord, LedgerStep
<1>. QED BY <1>1, <1>3, <1>4, <1>5 DEF Inv

LEMMA NameNodeInv ==
    ASSUME Inv, NEW n \in NodeId, NEW name \in NodeName,
           AddNode(n, name) \/ UpdateNode(n, name)
    PROVE  Inv'
<1>1. /\ nodes' = [nodes EXCEPT ![n] = name]
      /\ ledger' = [ledger EXCEPT !.nodes[n] = name]
      /\ ifaces' = ifaces /\ nextId' = nextId /\ peers' = peers
  BY DEF AddNode, UpdateNode
<1>2. RowsOK'
  BY <1>1 DEF Inv, RowsOK
<1>3. Interfaces' = Interfaces /\ Peers' = Peers /\ Nodes' = Nodes \cup {n}
  BY <1>1, NoRowAssumption DEF Inv, RowsOK, Interfaces, Peers, Nodes
<1>4. NoOrphanPeers' /\ FreshIds'
  BY <1>1, <1>3 DEF Inv, NoOrphanPeers, FreshIds
<1>5. ledger' = [ifaces |-> ledger.ifaces, nodes |-> nodes', peers |-> ledger.peers]
  BY <1>1, LedgerRecord
<1>6. LedgerType' /\ LedgerFaithful'
  BY <1>1, <1>2, <1>5, LedgerRecord, LedgerStep
<1>. QED BY <1>2, <1>4, <1>6 DEF Inv

(* What DELETE FROM nodes leaves behind. *)
LEMMA DeleteNodesRows ==
    ASSUME Inv, NEW S \in SUBSET Nodes, DeleteNodes(S),
           UNCHANGED <<ifaces, nextId>>
    PROVE  RowsOK' /\ NoOrphanPeers' /\ FreshIds'
<1>1. RowsOK'
  BY DEF Inv, RowsOK, DeleteNodes
<1>2. /\ Interfaces' = Interfaces
      /\ Nodes' = Nodes \ S
      /\ Peers' = {p \in Peers : peers[p].node \notin S}
      /\ \A p \in Peers' : peers'[p] = peers[p]
  BY DEF Inv, RowsOK, DeleteNodes, Interfaces, Nodes, Peers
<1>3. NoOrphanPeers' /\ FreshIds'
  BY <1>2 DEF Inv, NoOrphanPeers, FreshIds
<1>. QED BY <1>1, <1>3

LEMMA RemoveNodeInv ==
    ASSUME Inv, NEW n \in NodeId, NEW force \in BOOLEAN, RemoveNode(n, force)
    PROVE  Inv'
<1>. DEFINE purge == EventsFor("cascade_removed", PeersOf(n))
<1>1. RowsOK' /\ NoOrphanPeers' /\ FreshIds'
  BY DeleteNodesRows DEF RemoveNode
<1>2. ledger' = [ifaces |-> ledger.ifaces, nodes |-> ForgetNodes({n}),
                 peers |-> ReplayPeers(purge)]
  BY LedgerRecord DEF RemoveNode
<1>3. ForgetNodes({n}) = nodes'
  BY LedgerRecord DEF RemoveNode, DeleteNodes, ForgetNodes
<1>4. ReplayPeers(purge) = [p \in PeerId |-> EntryFor(peers'[p])]
  <2>1. \A p \in PeerId : ReplayPeers(purge)[p] = EntryFor(peers'[p])
    BY ReplayedPurge DEF RemoveNode, DeleteNodes, Purges, PeersOf
  <2>. QED BY <2>1 DEF ReplayPeers
<1>5. ifaces' = ifaces
  BY DEF RemoveNode
<1>6. LedgerType' /\ LedgerFaithful'
  BY <1>1, <1>2, <1>3, <1>4, <1>5, LedgerRecord, LedgerStep
<1>. QED BY <1>1, <1>6 DEF Inv

LEMMA PruneNodesInv == ASSUME Inv, PruneNodes PROVE Inv'
<1>1. RowsOK' /\ NoOrphanPeers' /\ FreshIds'
  BY DeleteNodesRows DEF PruneNodes, OrphanNodes
<1>2. ledger' = [ifaces |-> ledger.ifaces, nodes |-> ForgetNodes(OrphanNodes),
                 peers |-> ledger.peers]
  BY LedgerRecord DEF PruneNodes
<1>3. ForgetNodes(OrphanNodes) = nodes'
  BY LedgerRecord DEF PruneNodes, DeleteNodes, ForgetNodes
<1>4. peers' = peers
  <2>1. \A p \in Peers : peers[p].node \notin OrphanNodes
    BY DEF OrphanNodes, PeersOf
  <2>. QED BY <2>1 DEF PruneNodes, DeleteNodes, Inv, RowsOK
<1>5. ifaces' = ifaces
  BY DEF PruneNodes
<1>6. LedgerType' /\ LedgerFaithful'
  BY <1>1, <1>2, <1>3, <1>4, <1>5, LedgerRecord, LedgerStep
<1>. QED BY <1>1, <1>6 DEF Inv

(* Operations that only rewrite peers rows of unchanged keys. *)
LEMMA PeersRewritten ==
    ASSUME Inv, NEW events,
           peers' \in [PeerId -> PeerRow \cup {NoRow}],
           \A p \in Peers' : p \in Peers /\ peers'[p].iface = peers[p].iface
                                         /\ peers'[p].node = peers[p].node,
           UNCHANGED <<ifaces, nextId, nodes>>,
           LogPeers(events),
           \A p \in PeerId : ReplayPeers(events)[p] = EntryFor(peers'[p])
    PROVE  Inv'
<1>1. RowsOK'
  BY DEF Inv, RowsOK
<1>2. Interfaces' = Interfaces /\ Nodes' = Nodes
  BY DEF Interfaces, Nodes
<1>3. NoOrphanPeers' /\ FreshIds'
  BY <1>2 DEF Inv, NoOrphanPeers, FreshIds
<1>4. ReplayPeers(events) = [p \in PeerId |-> EntryFor(peers'[p])]
  BY DEF ReplayPeers
<1>5. ledger' = [ifaces |-> ledger.ifaces, nodes |-> ledger.nodes,
                 peers |-> ReplayPeers(events)]
  BY LedgerRecord DEF LogPeers
<1>6. LedgerType' /\ LedgerFaithful'
  BY <1>1, <1>4, <1>5, LedgerRecord, LedgerStep
<1>. QED BY <1>1, <1>3, <1>6 DEF Inv

LEMMA RemovePeerInv ==
    ASSUME Inv, NEW p \in PeerId, RemovePeer(p) PROVE Inv'
<1>. DEFINE events == EventsFor("removed", {p})
<1>1. p \in Peers /\ {p} \in SUBSET Peers
  BY DEF RemovePeer
<1>2. \A q \in PeerId : ReplayPeers(events)[q] = EntryFor(peers'[q])
  BY <1>1, ReplayedDelete DEF RemovePeer, Deletes, ReplayPeers
<1>3. /\ peers' \in [PeerId -> PeerRow \cup {NoRow}]
      /\ \A q \in Peers' : q \in Peers /\ peers'[q].iface = peers[q].iface
                                       /\ peers'[q].node = peers[q].node
  BY <1>1, SoftDeleteType, NoRowAssumption
     DEF RemovePeer, SoftDelete, Inv, RowsOK, Peers, PeerRow
<1>4. LogPeers(events)
  BY DEF RemovePeer, EventsFor
<1>. QED BY <1>2, <1>3, <1>4, PeersRewritten DEF RemovePeer

LEMMA PurgeInv ==
    ASSUME Inv, NEW type \in Purges, NEW S \in SUBSET Peers,
           peers' = [p \in PeerId |-> IF p \in S THEN NoRow ELSE peers[p]],
           LogPeers(EventsFor(type, S)), UNCHANGED <<ifaces, nextId, nodes>>
    PROVE  Inv'
<1>1. \A p \in PeerId : ReplayPeers(EventsFor(type, S))[p] = EntryFor(peers'[p])
  BY ReplayedPurge
<1>2. /\ peers' \in [PeerId -> PeerRow \cup {NoRow}]
      /\ \A p \in Peers' : p \in Peers /\ peers'[p] = peers[p]
  BY DEF Inv, RowsOK, Peers
<1>. QED BY <1>1, <1>2, PeersRewritten

LEMMA HardRemovePeerInv ==
    ASSUME Inv, NEW p \in PeerId, HardRemovePeer(p) PROVE Inv'
<1>1. {p} \in SUBSET Peers
  BY DEF HardRemovePeer
<1>2. peers' = [q \in PeerId |-> IF q \in {p} THEN NoRow ELSE peers[q]]
  BY DEF HardRemovePeer, Inv, RowsOK
<1>3. LogPeers(EventsFor("removed_hard", {p}))
  BY DEF HardRemovePeer, EventsFor
<1>. QED BY <1>1, <1>2, <1>3, PurgeInv DEF HardRemovePeer, Purges

LEMMA PrunePeersInv ==
    ASSUME Inv, NEW i \in IfaceId, PrunePeers(i) PROVE Inv'
<1>1. Inactive(i) \in SUBSET Peers
  BY DEF Inactive, PeersOn
<1>. QED BY <1>1, PurgeInv DEF PrunePeers, Purges

(* The clock may go either way. *)
Tick(p, expiry) ==
    /\ p \in Peers /\ peers[p].expiry # "never"
    /\ peers' = [peers EXCEPT ![p].expiry = expiry]
    /\ UNCHANGED <<ifaces, nextId, nodes, ledger>>

LEMMA TickInv ==
    ASSUME Inv, NEW p \in PeerId, NEW expiry \in {"pending", "passed"},
           Tick(p, expiry)
    PROVE  Inv'
<1>. DEFINE row == [peers[p] EXCEPT !.expiry = expiry]
<1>1. peers[p] \in PeerRow /\ peers[p] # NoRow
  BY DEF Tick, Peers, Inv, RowsOK
<1>2. row \in PeerRow /\ row # NoRow
  BY <1>1, NoRowAssumption DEF PeerRow, Expiry
<1>3. EntryFor(row) = EntryFor(peers[p])
  <2>1. row.expiry # "never" /\ peers[p].expiry # "never"
    BY <1>1 DEF PeerRow, Tick
  <2>2. /\ row.iface = peers[p].iface /\ row.node = peers[p].node
        /\ row.ip = peers[p].ip /\ row.deleted = peers[p].deleted
    BY <1>1 DEF PeerRow
  <2>. QED BY <1>1, <1>2, <2>1, <2>2, Zenon DEF EntryFor, EntryOf
<1>4. RowsOK'
  BY <1>2 DEF Tick, Inv, RowsOK
<1>5. Interfaces' = Interfaces /\ Nodes' = Nodes /\ Peers' = Peers
  BY <1>1, <1>2 DEF Tick, Inv, RowsOK, Interfaces, Nodes, Peers
<1>6. NoOrphanPeers' /\ FreshIds'
  <2>1. \A q \in Peers : peers'[q].iface = peers[q].iface
                           /\ peers'[q].node = peers[q].node
    BY <1>1, <1>2 DEF Tick, Inv, RowsOK, Peers, PeerRow
  <2>. QED BY <1>5, <2>1 DEF Tick, Inv, NoOrphanPeers, FreshIds
<1>7. LedgerType' /\ LedgerFaithful'
  <2>1. \A q \in PeerId : EntryFor(peers'[q]) = EntryFor(peers[q])
    BY <1>3 DEF Tick, Inv, RowsOK
  <2>2. ledger' = [ifaces |-> ledger.ifaces, nodes |-> ledger.nodes,
                   peers |-> [q \in PeerId |-> EntryFor(peers'[q])]]
    BY <2>1, LedgerRecord DEF Tick
  <2>3. ifaces' = ifaces /\ nodes' = nodes
    BY DEF Tick
  <2>. QED BY <1>4, <2>2, <2>3, LedgerRecord, LedgerStep
<1>. QED BY <1>4, <1>6, <1>7 DEF Inv

LEMMA ClockInv ==
    ASSUME Inv, NEW p \in PeerId, Expire(p) \/ StepBack(p) PROVE Inv'
<1>1. Tick(p, "passed") \/ Tick(p, "pending")
  BY DEF Expire, StepBack, Tick
<1>. QED BY <1>1, TickInv

LEMMA BlockingRows ==
    ASSUME NEW i, NEW ips, NEW nodeIds
    PROVE  /\ Blocking(i, ips, nodeIds) \in SUBSET Peers
           /\ \A p \in Blocking(i, ips, nodeIds) : ~IsActive(peers[p])
BY DEF Blocking, NonDeleted, PeersOn

LEMMA ReplayedAdd ==
    ASSUME Inv, NEW S \in SUBSET Peers, NEW p \in PeerId, p \notin Peers,
           NEW row \in PeerRow, NEW q \in PeerId
    PROVE  ReplayPeers(EventsFor("reclaimed", S) \cup {Event("created", p, row)})[q]
              = EntryFor([SoftDelete(S) EXCEPT ![p] = row][q])
<1>. DEFINE log == EventsFor("reclaimed", S) \cup {Event("created", p, row)}
            table == [SoftDelete(S) EXCEPT ![p] = row]
<1>1. S \in SUBSET PeerId /\ p \notin S
  BY DEF Peers
<1>2. Event("created", p, row).id = p
  BY DEF Event
<1>3. CASE q = p
  <2>1. {e \in EventsFor("reclaimed", S) : e.id = p} = {}
    BY <1>1, EventsOfPeer
  <2>2. {e \in log : e.id = p} = {Event("created", p, row)}
    BY <1>2, <2>1
  <2>3. table[p] = row /\ row # NoRow
    BY NoRowAssumption DEF SoftDelete
  <2>4. ReplayPeer(ledger.peers[p], {e \in log : e.id = p}) = EntryOf(row)
    BY <2>2, ReplayCreate
  <2>. QED BY <1>3, <2>3, <2>4 DEF EntryFor, ReplayPeers
<1>4. CASE q # p
  <2>1. {e \in log : e.id = q} = {e \in EventsFor("reclaimed", S) : e.id = q}
    BY <1>2, <1>4
  <2>2. table[q] = SoftDelete(S)[q]
    BY <1>4 DEF SoftDelete
  <2>3. ReplayPeer(ledger.peers[q], {e \in EventsFor("reclaimed", S) : e.id = q})
           = EntryFor(SoftDelete(S)[q])
    BY ReplayedDelete DEF Deletes
  <2>. QED BY <2>1, <2>2, <2>3 DEF ReplayPeers
<1>. QED BY <1>3, <1>4

LEMMA AddPeerInv ==
    ASSUME Inv, NEW i \in IfaceId, NEW n \in NodeId, NEW name \in NodeName,
           NEW p \in PeerId, NEW request \in Requests \cup {Unset},
           NEW expiry \in {"never", "pending"}, NEW role \in Role,
           NEW routed \in Routed,
           AddPeer(i, n, name, p, request, expiry, role, routed)
    PROVE  Inv'
<1>1. i \in Interfaces /\ p \notin Peers /\ AttachableAs(n, name)
      /\ ifaces' = ifaces /\ nextId' = nextId
      /\ nodes' = [nodes EXCEPT ![n] = name]
  BY DEF AddPeer
<1>2. PICK ip \in Allocation(i, request, {}) :
         LET reclaimed == Blocking(i, {ip}, {n})
             row   == [iface |-> i, node |-> n, ip |-> ip, deleted |-> FALSE,
                       expiry |-> expiry, role |-> role, routed |-> routed]
         IN  /\ peers' = [SoftDelete(reclaimed) EXCEPT ![p] = row]
             /\ ledger' = [ledger EXCEPT
                             !.nodes[n] = IF n \in Nodes THEN @ ELSE name,
                             !.peers = ReplayPeers(
                                EventsFor("reclaimed", reclaimed)
                                    \cup {Event("created", p, row)})]
  BY DEF AddPeer
<1>. DEFINE reclaimed == Blocking(i, {ip}, {n})
            row == [iface |-> i, node |-> n, ip |-> ip, deleted |-> FALSE,
                    expiry |-> expiry, role |-> role, routed |-> routed]
            log == EventsFor("reclaimed", reclaimed) \cup {Event("created", p, row)}
<1>3. row \in PeerRow /\ row.iface = i /\ row.node = n
  <2>1. ip \in Nat /\ expiry \in Expiry
    BY <1>1, AllocationType DEF Inv, Expiry
  <2>. QED BY <2>1 DEF PeerRow
<1>4. reclaimed \in SUBSET Peers
  BY BlockingRows
<1>5. /\ peers' = [SoftDelete(reclaimed) EXCEPT ![p] = row]
      /\ ledger' = [ledger EXCEPT !.nodes[n] = IF n \in Nodes THEN @ ELSE name,
                                  !.peers = ReplayPeers(log)]
  BY <1>2
<1>. HIDE DEF row, reclaimed
<1>6. /\ peers'[p] = row
      /\ \A q \in PeerId : q # p => peers'[q] = SoftDelete(reclaimed)[q]
  BY <1>5 DEF SoftDelete
<1>7. peers' \in [PeerId -> PeerRow \cup {NoRow}]
  BY <1>3, <1>4, <1>5, SoftDeleteType DEF Inv
<1>8. RowsOK'
  BY <1>1, <1>7 DEF Inv, RowsOK
<1>9. /\ Interfaces' = Interfaces /\ Nodes' = Nodes \cup {n}
      /\ Peers' = Peers \cup {p}
  <2>1. \A q \in PeerId : SoftDelete(reclaimed)[q] = NoRow <=> peers[q] = NoRow
    BY <1>4, SoftDeleteRows DEF Inv
  <2>2. row # NoRow
    BY <1>3, NoRowAssumption
  <2>3. \A q \in PeerId : peers'[q] # NoRow <=> peers[q] # NoRow \/ q = p
    BY <1>6, <2>1, <2>2
  <2>4. Peers' = Peers \cup {p}
    BY <2>3 DEF Peers
  <2>. QED BY <1>1, <2>4, NoRowAssumption DEF Inv, RowsOK, Interfaces, Nodes
<1>10. NoOrphanPeers' /\ FreshIds'
  <2>1. \A q \in Peers : peers'[q].iface = peers[q].iface
                           /\ peers'[q].node = peers[q].node
    <3>. SUFFICES ASSUME NEW q \in Peers
                  PROVE  peers'[q].iface = peers[q].iface
                           /\ peers'[q].node = peers[q].node
      OBVIOUS
    <3>1. q \in PeerId /\ q # p /\ peers[q] \in PeerRow
      BY <1>1 DEF Inv, RowsOK, Peers
    <3>2. Marked(peers'[q], peers[q], q \in reclaimed)
      BY <1>4, <1>6, <3>1, SoftDeleteRows DEF Inv
    <3>. QED BY <3>2 DEF Marked
  <2>. QED BY <1>1, <1>3, <1>6, <1>9, <2>1 DEF Inv, NoOrphanPeers, FreshIds
<1>11. LedgerType' /\ LedgerFaithful'
  <2>1. [ledger.nodes EXCEPT ![n] = IF n \in Nodes THEN @ ELSE name] = nodes'
    BY <1>1, LedgerRecord DEF AttachableAs, Inv, RowsOK
  <2>2. ReplayPeers(log) = [q \in PeerId |-> EntryFor(peers'[q])]
    <3>1. \A q \in PeerId : ReplayPeers(log)[q] = EntryFor(peers'[q])
      BY <1>1, <1>3, <1>4, <1>5, ReplayedAdd
    <3>. QED BY <3>1 DEF ReplayPeers
  <2>3. ledger' = [ifaces |-> ledger.ifaces, nodes |-> nodes',
                   peers |-> ReplayPeers(log)]
    BY <1>5, <2>1, LedgerRecord
  <2>. QED BY <1>1, <1>8, <2>2, <2>3, LedgerRecord, LedgerStep, ZenonT(30)
<1>. QED BY <1>8, <1>10, <1>11 DEF Inv

(* The row an update stores keeps its key, and the reclamation's mark.     *)
LEMMA RevisedRow ==
    ASSUME NEW row \in PeerRow,
           NEW ip \in Nat \cup {Unset},
           NEW expiry \in {"never", "pending", Unset},
           NEW role \in Role \cup {Unset}, NEW routed \in Routed \cup {Unset}
    PROVE  LET revised == Revised(row, ip, expiry, role, routed)
           IN  /\ revised \in PeerRow
               /\ revised.iface = row.iface /\ revised.node = row.node
               /\ revised.deleted = row.deleted
               /\ revised.ip = IF ip = Unset THEN row.ip ELSE ip
               /\ revised.expiry = IF expiry = Unset THEN row.expiry ELSE expiry
               /\ revised.role = IF role = Unset THEN row.role ELSE role
               /\ revised.routed = IF routed # Unset THEN routed
                                   ELSE IF role = "endpoint" THEN {} ELSE row.routed
<1>. DEFINE newIp == IF ip = Unset THEN row.ip ELSE ip
            newExpiry == IF expiry = Unset THEN row.expiry ELSE expiry
            newRole == IF role = Unset THEN row.role ELSE role
            newRouted == IF routed # Unset THEN routed
                         ELSE IF role = "endpoint" THEN {} ELSE row.routed
<1>1. newIp \in Nat
  BY DEF PeerRow
<1>2. newExpiry \in Expiry
  BY DEF PeerRow, Expiry
<1>3. newRole \in Role
  BY DEF PeerRow
<1>4. newRouted \in Routed
  BY DEF PeerRow, Routed
<1>5. Revised(row, ip, expiry, role, routed)
         = [row EXCEPT !.ip = newIp, !.expiry = newExpiry,
                       !.role = newRole, !.routed = newRouted]
  BY DEF Revised
<1>. HIDE DEF newIp, newExpiry, newRole, newRouted
<1>6. /\ Revised(row, ip, expiry, role, routed) \in PeerRow
      /\ Revised(row, ip, expiry, role, routed)
            = [row EXCEPT !.ip = newIp, !.expiry = newExpiry,
                          !.role = newRole, !.routed = newRouted]
  BY <1>1, <1>2, <1>3, <1>4, <1>5 DEF PeerRow
<1>. QED BY <1>6 DEF PeerRow, newIp, newExpiry, newRole, newRouted

LEMMA ReplayedUpdate ==
    ASSUME Inv, NEW S \in SUBSET Peers, NEW p \in Peers, NEW stored \in PeerRow,
           NEW changed \in BOOLEAN, NEW q \in PeerId,
           stored.iface = peers[p].iface, stored.node = peers[p].node,
           stored.deleted = (peers[p].deleted \/ p \in S),
           ~changed => /\ stored.ip = peers[p].ip
                       /\ stored.expiry = peers[p].expiry
    PROVE  ReplayPeers(EventsFor("reclaimed", S) \cup
                IF changed THEN {Event("updated", p, stored)} ELSE {})[q]
              = EntryFor([SoftDelete(S) EXCEPT ![p] = stored][q])
<1>. DEFINE update == IF changed THEN {Event("updated", p, stored)} ELSE {}
            log == EventsFor("reclaimed", S) \cup update
            table == [SoftDelete(S) EXCEPT ![p] = stored]
            entry == ledger.peers[p]
<1>1. S \in SUBSET PeerId /\ p \in PeerId
  BY DEF Peers
<1>2. Event("updated", p, stored).id = p
  BY DEF Event
<1>3. ReplayPeers(log)[q] = ReplayPeer(ledger.peers[q], {e \in log : e.id = q})
  BY DEF ReplayPeers
<1>4. CASE q # p
  <2>1. {e \in log : e.id = q} = {e \in EventsFor("reclaimed", S) : e.id = q}
    BY <1>2, <1>4
  <2>2. table[q] = SoftDelete(S)[q]
    BY <1>4 DEF SoftDelete
  <2>3. ReplayPeer(ledger.peers[q], {e \in EventsFor("reclaimed", S) : e.id = q})
           = EntryFor(SoftDelete(S)[q])
    BY ReplayedDelete DEF Deletes
  <2>. QED BY <1>3, <2>1, <2>2, <2>3
<1>5. CASE q = p
  <2>1. table[p] = stored /\ stored # NoRow
    BY <1>1, NoRowAssumption DEF SoftDelete
  <2>2. peers[p] \in PeerRow /\ peers[p] # NoRow
    BY DEF Inv, RowsOK, Peers
  <2>3. entry = EntryOf(peers[p]) /\ EntryOf(peers[p]) \in PeerEntry
    BY <1>1, <2>2, LedgerOfPeer, EntryForType, NoRowAssumption
       DEF EntryFor, EntryOf, PeerEntry, PeerRow
  <2>4. CASE changed
    <3>1. {e \in log : e.id = p} = {Event("updated", p, stored)} \cup
             IF p \in S THEN {Event("reclaimed", p, peers[p])} ELSE {}
      <4>1. {e \in EventsFor("reclaimed", S) : e.id = p}
               = IF p \in S THEN {Event("reclaimed", p, peers[p])} ELSE {}
        BY <1>1, EventsOfPeer
      <4>. QED BY <1>2, <2>4, <4>1
    <3>2. ReplayPeer(entry, {e \in log : e.id = p}) = EntryOf(stored)
      <4>. DEFINE r == p \in S
      <4>1. r \in BOOLEAN /\ stored.deleted = (peers[p].deleted \/ r)
        OBVIOUS
      <4>. HIDE DEF r
      <4>2. ReplayPeer(EntryOf(peers[p]), {Event("updated", p, stored)} \cup
                 IF r THEN {Event("reclaimed", p, peers[p])} ELSE {})
              = EntryOf(stored)
        BY <2>2, <4>1, ReplayUpdate
      <4>. QED BY <2>3, <3>1, <4>2, Zenon DEF r
    <3>. QED BY <1>3, <1>5, <2>1, <3>2 DEF EntryFor
  <2>5. CASE ~changed
    <3>1. log = EventsFor("reclaimed", S)
      BY <2>5
    <3>2. ReplayPeer(ledger.peers[p], {e \in EventsFor("reclaimed", S) : e.id = p})
             = EntryFor(SoftDelete(S)[p])
      BY <1>1, ReplayedDelete DEF Deletes
    <3>3. /\ Marked(SoftDelete(S)[p], peers[p], p \in S)
          /\ SoftDelete(S)[p] # NoRow
      BY <1>1, <2>2, SoftDeleteRows DEF Inv
    <3>4. EntryOf(SoftDelete(S)[p]) = EntryOf(stored)
      <4>1. /\ SoftDelete(S)[p].iface = stored.iface
            /\ SoftDelete(S)[p].node = stored.node
            /\ SoftDelete(S)[p].ip = stored.ip
            /\ SoftDelete(S)[p].deleted = stored.deleted
            /\ SoftDelete(S)[p].expiry = stored.expiry
        BY <2>5, <3>3 DEF Marked
      <4>. QED BY <4>1, Zenon DEF EntryOf
    <3>. QED BY <1>3, <1>5, <2>1, <3>1, <3>2, <3>3, <3>4 DEF EntryFor
  <2>. QED BY <2>4, <2>5
<1>. QED BY <1>4, <1>5

LEMMA UpdatePeerInv ==
    ASSUME Inv, NEW p \in PeerId, NEW ip \in Requests \cup {Unset},
           NEW expiry \in {"never", "pending", Unset},
           NEW role \in Role \cup {Unset}, NEW routed \in Routed \cup {Unset},
           UpdatePeer(p, ip, expiry, role, routed)
    PROVE  Inv'
<1>. DEFINE before    == peers[p]
            reclaimed == ReclaimedForUpdate(before.iface, ip)
            table     == SoftDelete(reclaimed)
            checked   == Revised(before, ip, expiry, role, routed)
            stored    == Revised(table[p], ip, expiry, role, routed)
            changed   == checked # before
            log       == EventsFor("reclaimed", reclaimed) \cup
                            (IF changed THEN {Event("updated", p, stored)} ELSE {})
<1>1. /\ p \in Peers /\ peers' = [table EXCEPT ![p] = stored]
      /\ LogPeers(log) /\ UNCHANGED <<ifaces, nextId, nodes>>
  BY DEF UpdatePeer
<1>2. reclaimed \in SUBSET Peers
  BY BlockingRows DEF ReclaimedForUpdate
<1>3. before \in PeerRow /\ before # NoRow
  BY <1>1 DEF Inv, RowsOK, Peers
<1>4. Marked(table[p], before, p \in reclaimed)
  BY <1>1, <1>2, SoftDeleteRows DEF Inv
<1>5. /\ table[p] \in PeerRow
      /\ table[p].iface = before.iface /\ table[p].node = before.node
      /\ table[p].ip = before.ip /\ table[p].expiry = before.expiry
      /\ table[p].deleted = (before.deleted \/ p \in reclaimed)
  BY <1>4 DEF Marked
<1>6. ip \in Nat \cup {Unset}
  BY ConstantsAssumption
<1>7. /\ checked \in PeerRow
      /\ checked.ip = IF ip = Unset THEN before.ip ELSE ip
      /\ checked.expiry = IF expiry = Unset THEN before.expiry ELSE expiry
  <2>1. ASSUME NEW row \in PeerRow, NEW new, new = Revised(row, ip, expiry, role, routed)
        PROVE  /\ new \in PeerRow
               /\ new.ip = IF ip = Unset THEN row.ip ELSE ip
               /\ new.expiry = IF expiry = Unset THEN row.expiry ELSE expiry
    <3>. HIDE DEF before, reclaimed, table, checked, stored, changed, log
    <3>. QED BY <1>6, <2>1, RevisedRow
  <2>. HIDE DEF before
  <2>. QED BY <1>3, <2>1
<1>8. /\ stored \in PeerRow
      /\ stored.iface = before.iface /\ stored.node = before.node
      /\ stored.deleted = (before.deleted \/ p \in reclaimed)
      /\ stored.ip = checked.ip /\ stored.expiry = checked.expiry
  <2>1. /\ stored \in PeerRow
        /\ stored.iface = table[p].iface /\ stored.node = table[p].node
        /\ stored.deleted = table[p].deleted
        /\ stored.ip = IF ip = Unset THEN table[p].ip ELSE ip
        /\ stored.expiry = IF expiry = Unset THEN table[p].expiry ELSE expiry
    <3>1. table[p] \in PeerRow
      BY <1>5
    <3>2. ASSUME NEW row \in PeerRow, NEW new, new = Revised(row, ip, expiry, role, routed)
          PROVE  /\ new \in PeerRow
                 /\ new.iface = row.iface /\ new.node = row.node
                 /\ new.deleted = row.deleted
                 /\ new.ip = IF ip = Unset THEN row.ip ELSE ip
                 /\ new.expiry = IF expiry = Unset THEN row.expiry ELSE expiry
      <4>. HIDE DEF table, before, checked, stored
      <4>. QED BY <1>6, <3>2, RevisedRow
    <3>. HIDE DEF table
    <3>. QED BY <3>1, <3>2
  <2>. HIDE DEF checked, stored, table
  <2>. QED BY <1>5, <1>7, <2>1
<1>9. ~changed => stored.ip = before.ip /\ stored.expiry = before.expiry
  BY <1>8
<1>. HIDE DEF stored, checked, reclaimed
<1>10. \A q \in PeerId : ReplayPeers(log)[q] = EntryFor(peers'[q])
  <2>1. changed \in BOOLEAN
    OBVIOUS
  <2>. HIDE DEF changed
  <2>. QED BY <1>1, <1>2, <1>8, <1>9, <2>1, ReplayedUpdate
<1>11. peers' \in [PeerId -> PeerRow \cup {NoRow}]
  BY <1>1, <1>2, <1>8, SoftDeleteType DEF Inv
<1>12. \A q \in Peers' : /\ q \in Peers
                         /\ peers'[q].iface = peers[q].iface
                         /\ peers'[q].node = peers[q].node
  <2>. SUFFICES ASSUME NEW q \in Peers'
                PROVE  /\ q \in Peers
                       /\ peers'[q].iface = peers[q].iface
                       /\ peers'[q].node = peers[q].node
    OBVIOUS
  <2>1. q \in PeerId /\ peers'[q] # NoRow
    BY DEF Peers
  <2>2. CASE q = p
    BY <1>1, <1>8, <2>2 DEF SoftDelete, Peers
  <2>3. CASE q # p
    <3>1. peers'[q] = table[q]
      BY <1>1, <2>1, <2>3 DEF SoftDelete
    <3>2. q \in Peers
      <4>1. table[q] = NoRow <=> peers[q] = NoRow
        BY <1>2, <2>1, SoftDeleteRows DEF Inv
      <4>. QED BY <2>1, <3>1, <4>1 DEF Peers
    <3>3. Marked(peers'[q], peers[q], q \in reclaimed)
      BY <1>2, <2>1, <3>1, <3>2, SoftDeleteRows DEF Inv
    <3>. QED BY <3>2, <3>3 DEF Marked
  <2>. QED BY <2>2, <2>3
<1>. QED BY <1>1, <1>10, <1>11, <1>12, PeersRewritten

LEMMA StepInv == Inv /\ [Next \/ SetBack]_vars => Inv'
<1>. SUFFICES ASSUME Inv, [Next \/ SetBack]_vars PROVE Inv'
  OBVIOUS
<1>1. CASE InterfaceStep
  BY <1>1, AddInterfaceInv, UpdateInterfaceInv, RemoveInterfaceInv DEF InterfaceStep
<1>2. CASE NodeStep
  BY <1>2, NameNodeInv, RemoveNodeInv, PruneNodesInv DEF NodeStep
<1>3. CASE PeerStep
  <2>1. CASE \E i \in IfaceId, n \in NodeId, name \in NodeName, p \in PeerId,
                request \in Requests \cup {Unset}, expiry \in {"never", "pending"},
                role \in Role, routed \in Routed :
                   AddPeer(i, n, name, p, request, expiry, role, routed)
    BY <2>1, AddPeerInv
  <2>2. CASE \E p \in PeerId, ip \in Requests \cup {Unset},
                expiry \in {"never", "pending", Unset}, role \in Role \cup {Unset},
                routed \in Routed \cup {Unset} :
                   UpdatePeer(p, ip, expiry, role, routed)
    BY <2>2, UpdatePeerInv
  <2>3. CASE \E p \in PeerId : RemovePeer(p) \/ HardRemovePeer(p)
    BY <2>3, RemovePeerInv, HardRemovePeerInv
  <2>4. CASE \E i \in IfaceId : PrunePeers(i)
    BY <2>4, PrunePeersInv
  <2>. QED BY <1>3, <2>1, <2>2, <2>3, <2>4 DEF PeerStep
<1>4. CASE \E p \in PeerId : Expire(p) \/ StepBack(p)
  BY <1>4, ClockInv
<1>5. CASE UNCHANGED vars
  <2>. USE <1>5 DEF vars
  <2>1. RowsOK' /\ LedgerType'
    BY DEF Inv, RowsOK, LedgerType
  <2>2. /\ Interfaces' = Interfaces /\ Nodes' = Nodes /\ Peers' = Peers
    BY DEF Interfaces, Nodes, Peers
  <2>3. NoOrphanPeers' /\ FreshIds' /\ LedgerFaithful'
    BY <2>2 DEF Inv, NoOrphanPeers, FreshIds, LedgerFaithful
  <2>. QED BY <2>1, <2>3 DEF Inv
<1>. QED BY <1>1, <1>2, <1>3, <1>4, <1>5 DEF Next, SetBack

LEMMA Invariance == SpecAnyClock => []Inv
BY InitInv, StepInv, PTL DEF SpecAnyClock

LEMMA ForwardClock == Spec => SpecAnyClock
<1>1. [Next]_vars => [Next \/ SetBack]_vars
  OBVIOUS
<1>. QED BY <1>1, PTL DEF Spec, SpecAnyClock

(* Every reachable database is well typed, log included, whatever the      *)
(* clock does.                                                             *)
THEOREM TypeCorrect == SpecAnyClock => []TypeOK
<1>1. Inv => TypeOK
  BY DEF Inv, RowsOK, LedgerType, TypeOK
<1>. QED BY <1>1, Invariance, PTL

(* No peer outlives its interface or its node. *)
THEOREM NoOrphans == SpecAnyClock => []NoOrphanPeers
<1>1. Inv => NoOrphanPeers
  BY DEF Inv
<1>. QED BY <1>1, Invariance, PTL

(* The audit log, replayed, always rebuilds the tables. *)
THEOREM LogIsFaithful == SpecAnyClock => []LedgerFaithful
<1>1. Inv => LedgerFaithful
  BY DEF Inv
<1>. QED BY <1>1, Invariance, PTL
=============================================================================
