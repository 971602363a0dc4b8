----------------------------- MODULE RefsProofs -----------------------------
(***************************************************************************)
(* References and histories, for every value of the constants.  Two facts  *)
(* carry the argument: a step of the database either only adds what a      *)
(* lookup can find or only takes it away, and the log knows one interface  *)
(* of each peer, the one the peer is on while it lives.                    *)
(***************************************************************************)
EXTENDS Refs, TopologySafety

-----------------------------------------------------------------------------
(* Adding or taking away. *)

GainsOnly ==
    \A q \in Peers : /\ q \in Peers' /\ peers'[q].iface = peers[q].iface
                     /\ IsActive(peers[q]) => IsActive(peers'[q])

LosesOnly ==
    \A q \in Peers' : /\ q \in Peers /\ peers'[q].iface = peers[q].iface
                      /\ IsActive(peers'[q]) => IsActive(peers[q])

(* Reclaiming only takes from the inactive. *)
LEMMA ReclaimingGains ==
    ASSUME Inv, NEW S \in SUBSET Peers, \A q \in S : ~IsActive(peers[q]),
           NEW q \in Peers
    PROVE  /\ SoftDelete(S)[q] # NoRow
           /\ SoftDelete(S)[q].iface = peers[q].iface
           /\ IsActive(peers[q]) => IsActive(SoftDelete(S)[q])
<1>1. /\ SoftDelete(S)[q] # NoRow
      /\ Marked(SoftDelete(S)[q], peers[q], q \in S)
  BY SoftDeleteRows DEF Inv, Peers
<1>. QED BY <1>1 DEF Marked, IsActive

LEMMA BlockingInactive ==
    ASSUME NEW i, NEW ips, NEW nodeIds
    PROVE  /\ Blocking(i, ips, nodeIds) \in SUBSET Peers
           /\ \A q \in Blocking(i, ips, nodeIds) : ~IsActive(peers[q])
BY DEF Blocking, NonDeleted, PeersOn

LEMMA AddPeerGains ==
    ASSUME Inv, NEW i \in IfaceId, NEW n \in NodeId, NEW name \in NodeName,
           NEW p \in PeerId, NEW request \in Requests \cup {Unset},
           NEW expiry \in {"never", "pending"}, NEW role \in Role,
           NEW routed \in Routed,
           AddPeer(i, n, name, p, request, expiry, role, routed)
    PROVE  GainsOnly
<1>1. PICK ip \in Allocation(i, request, {}) :
         LET row == [iface |-> i, node |-> n, ip |-> ip, deleted |-> FALSE,
                     expiry |-> expiry, role |-> role, routed |-> routed]
         IN  peers' = [SoftDelete(Blocking(i, {ip}, {n})) EXCEPT ![p] = row]
  BY DEF AddPeer
<1>. DEFINE S == Blocking(i, {ip}, {n})
<1>2. \A q \in Peers : peers'[q] = SoftDelete(S)[q]
  BY <1>1 DEF SoftDelete, Peers, AddPeer
<1>. QED BY <1>2, BlockingInactive, ReclaimingGains DEF GainsOnly, Peers

LEMMA UpdatePeerGains ==
    ASSUME Inv, NEW p \in PeerId, NEW ip \in Requests \cup {Unset},
           NEW expiry \in {"never", "pending", Unset},
           NEW role \in Role \cup {Unset}, NEW routed \in Routed \cup {Unset},
           UpdatePeer(p, ip, expiry, role, routed)
    PROVE  GainsOnly
<1>. DEFINE before    == peers[p]
            reclaimed == ReclaimedForUpdate(before.iface, ip)
            table     == SoftDelete(reclaimed)
            checked   == Revised(before, ip, expiry, role, routed)
            stored    == Revised(table[p], ip, expiry, role, routed)
<1>1. p \in Peers /\ peers' = [table EXCEPT ![p] = stored]
  BY DEF UpdatePeer
<1>2. /\ reclaimed \in SUBSET Peers
      /\ \A q \in reclaimed : ~IsActive(peers[q])
  BY BlockingInactive DEF ReclaimedForUpdate
<1>3. /\ stored \in PeerRow /\ stored.iface = before.iface
      /\ stored.deleted = (before.deleted \/ p \in reclaimed)
      /\ stored.expiry = checked.expiry
      /\ checked.expiry = IF expiry = Unset THEN before.expiry ELSE expiry
  BY UpdatedRow
<1>. HIDE DEF reclaimed, checked, stored
<1>4. stored.expiry = before.expiry \/ stored.expiry \in {"never", "pending"}
  BY <1>3
<1>5. peers'[p] = stored /\ \A q \in Peers \ {p} : peers'[q] = table[q]
  BY <1>1 DEF SoftDelete, Peers
<1>6. IsActive(before) => IsActive(stored)
  BY <1>2, <1>3, <1>4, NoRowAssumption DEF IsActive
<1>7. stored # NoRow
  BY <1>3, NoRowAssumption
<1>. QED BY <1>1, <1>2, <1>3, <1>5, <1>6, <1>7, ReclaimingGains DEF GainsOnly, Peers

LEMMA OneWay ==
    ASSUME Inv, [Next \/ SetBack]_vars PROVE GainsOnly \/ LosesOnly
<1>1. CASE InterfaceStep
  <2>1. \A q \in Peers' : q \in Peers /\ peers'[q] = peers[q]
    BY <1>1 DEF InterfaceStep, AddInterface, UpdateInterface, RemoveInterface,
                Inv, RowsOK, Peers
  <2>. QED BY <2>1 DEF LosesOnly
<1>2. CASE NodeStep
  <2>1. \A q \in Peers' : q \in Peers /\ peers'[q] = peers[q]
    BY <1>2 DEF NodeStep, AddNode, UpdateNode, RemoveNode, PruneNodes,
                DeleteNodes, Inv, RowsOK, Peers
  <2>. QED BY <2>1 DEF LosesOnly
<1>3. ASSUME NEW p \in PeerId, RemovePeer(p) PROVE LosesOnly
  <2>1. {p} \in SUBSET Peers /\ peers' = SoftDelete({p})
    BY <1>3 DEF RemovePeer
  <2>2. \A q \in Peers' : q \in Peers /\ Marked(peers'[q], peers[q], q \in {p})
    BY <2>1, SoftDeleteRows DEF Inv, Peers
  <2>. QED BY <2>2 DEF LosesOnly, Marked, IsActive, Peers
<1>4. ASSUME NEW p \in PeerId, HardRemovePeer(p) PROVE LosesOnly
  BY <1>4 DEF HardRemovePeer, LosesOnly, Inv, RowsOK, Peers
<1>5. ASSUME NEW i \in IfaceId, PrunePeers(i) PROVE LosesOnly
  BY <1>5 DEF PrunePeers, LosesOnly, Inv, RowsOK, Peers
<1>6. ASSUME NEW p \in PeerId, Expire(p) PROVE LosesOnly
  <2>1. \A q \in Peers' :
           /\ q \in Peers /\ peers'[q].iface = peers[q].iface
           /\ peers'[q].deleted = peers[q].deleted
           /\ peers'[q].expiry = peers[q].expiry \/ peers'[q].expiry = "passed"
    BY <1>6 DEF Expire, Inv, RowsOK, Peers, PeerRow
  <2>. QED BY <2>1 DEF LosesOnly, IsActive, Peers
<1>7. ASSUME NEW p \in PeerId, StepBack(p) PROVE GainsOnly
  <2>1. \A q \in Peers :
           /\ peers'[q] \in PeerRow /\ peers'[q].iface = peers[q].iface
           /\ peers'[q].deleted = peers[q].deleted
           /\ peers'[q].expiry = peers[q].expiry \/ peers'[q].expiry = "pending"
    BY <1>7 DEF StepBack, Inv, RowsOK, Peers, PeerRow, Expiry
  <2>. QED BY <2>1, NoRowAssumption DEF GainsOnly, IsActive, Peers
<1>8. CASE \E i \in IfaceId, n \in NodeId, name \in NodeName, p \in PeerId,
              request \in Requests \cup {Unset}, expiry \in {"never", "pending"},
              role \in Role, routed \in Routed :
                 AddPeer(i, n, name, p, request, expiry, role, routed)
  BY <1>8, AddPeerGains
<1>9. CASE \E p \in PeerId, ip \in Requests \cup {Unset},
              expiry \in {"never", "pending", Unset}, role \in Role \cup {Unset},
              routed \in Routed \cup {Unset} : UpdatePeer(p, ip, expiry, role, routed)
  BY <1>9, UpdatePeerGains
<1>10. CASE UNCHANGED vars
  BY <1>10 DEF vars, LosesOnly, Peers
<1>. QED BY <1>1, <1>2, <1>3, <1>4, <1>5, <1>6, <1>7, <1>8, <1>9, <1>10
        DEF Next, PeerStep, SetBack

-----------------------------------------------------------------------------
(* No command redirects a reference. *)

LEMMA NotRedirected ==
    ASSUME Inv, [Next \/ SetBack]_vars, NEW ref \in PeerRef,
           NEW i \in IfaceId \cup {Unset}, NEW access \in Access,
           NEW p \in ResolvePeer(ref, i, access)
    PROVE  ResolvePeer(ref, i, access)' \subseteq {p}
<1>. DEFINE found == OnInterface(i, Matching(ref, access))
<1>1. found = {p}
  BY DEF ResolvePeer
<1>2. \A q : q \in found <=>
         /\ q \in Peers /\ q \in ref.ids
         /\ access \in ActiveOnly => IsActive(peers[q])
         /\ i = Unset \/ peers[q].iface = i
  BY DEF OnInterface, Matching, PeersOn
<1>3. \A q : q \in found' <=>
         /\ q \in Peers' /\ q \in ref.ids
         /\ access \in ActiveOnly => IsActive(peers'[q])
         /\ i = Unset \/ peers'[q].iface = i
  BY DEF OnInterface, Matching, PeersOn, IsActive
<1>4. ResolvePeer(ref, i, access)' = {q \in found' : found' = {q} /\ ~NeedsInterface(i, access)'}
  BY DEF ResolvePeer
<1>. HIDE DEF found
<1>5. CASE GainsOnly
  <2>1. p \in found'
    BY <1>1, <1>2, <1>3, <1>5 DEF GainsOnly
  <2>. QED BY <2>1, <1>4
<1>6. CASE LosesOnly
  <2>1. found' \subseteq found
    BY <1>2, <1>3, <1>6 DEF LosesOnly
  <2>. QED BY <2>1, <1>1, <1>4
<1>. QED BY <1>5, <1>6, OneWay

-----------------------------------------------------------------------------
(* The log and the rows. *)

(* What the log holds of the rows there are, and that it puts every peer   *)
(* on one interface only.                                                  *)
RecordedOK ==
    /\ recorded \in Log
    /\ \A p \in Peers : <<p, peers[p].iface>> \in recorded.peers
    /\ \A p \in PeerId, i, j \in IfaceId :
          <<p, i>> \in recorded.peers /\ <<p, j>> \in recorded.peers => i = j
    /\ Nodes \subseteq recorded.nodes
    /\ \A i \in Interfaces : <<i, ifaces[i].name>> \in recorded.ifaces

(* The peer a removal has found is one the log puts on its interface. *)
RemovalOK ==
    /\ removal \in Removal \cup {NoRow}
    /\ removal # NoRow /\ removal.peer # Unset
          => <<removal.peer, removal.iface>> \in recorded.peers

RefInv == Inv /\ RecordedOK /\ RemovalOK

LEMMA RecordKeeps ==
    ASSUME Inv, Inv', RecordedOK, [Next \/ SetBack]_vars, Record
    PROVE  RecordedOK' /\ recorded.peers \subseteq recorded'.peers
<1>1. \A p \in Peers' : p \in PeerId /\ peers'[p].iface \in IfaceId
  BY DEF Inv, RowsOK, Peers, PeerRow
<1>2. \A i \in Interfaces' : i \in IfaceId /\ ifaces'[i].name \in InterfaceName
  BY DEF Inv, RowsOK, Interfaces, IfaceRow
<1>. DEFINE newPeers  == recorded.peers \cup {<<p, peers'[p].iface>> : p \in Peers'}
            newNodes  == recorded.nodes \cup Nodes'
            newIfaces == recorded.ifaces \cup {<<i, ifaces'[i].name>> : i \in Interfaces'}
<1>3. recorded' = [peers |-> newPeers, nodes |-> newNodes, ifaces |-> newIfaces]
  BY DEF Record
<1>4. /\ newPeers \subseteq PeerId \X IfaceId
      /\ newNodes \subseteq NodeId
      /\ newIfaces \subseteq IfaceId \X InterfaceName
  BY <1>1, <1>2 DEF RecordedOK, Log, Nodes
<1>5. recorded'.peers = newPeers /\ recorded'.nodes = newNodes
      /\ recorded'.ifaces = newIfaces /\ recorded' \in Log
  <2>. HIDE DEF newPeers, newNodes, newIfaces
  <2>. QED BY <1>3, <1>4 DEF Log
<1>6. ASSUME NEW p \in PeerId, NEW i \in IfaceId, NEW j \in IfaceId,
             <<p, i>> \in newPeers, <<p, j>> \in newPeers
      PROVE  i = j
  <2>1. CASE p \notin Peers'
    BY <1>6, <2>1 DEF RecordedOK
  <2>2. CASE p \in Peers' /\ p \in Peers
    <3>1. peers'[p].iface = peers[p].iface
      BY <2>2, OneWay DEF GainsOnly, LosesOnly
    <3>. QED BY <1>1, <1>6, <2>2, <3>1 DEF RecordedOK
  <2>3. CASE p \in Peers' \ Peers
    <3>1. \A k \in IfaceId : <<p, k>> \notin recorded.peers
      BY <2>3 DEF Record
    <3>. QED BY <1>6, <3>1
  <2>. QED BY <2>1, <2>2, <2>3
<1>. QED BY <1>5, <1>6 DEF RecordedOK

LEMMA LookupOK ==
    ASSUME RefInv, NEW ref, removal # NoRow,
           NEW p \in ResolvePeer(ref, removal.iface, "mutate")
    PROVE  p \in PeerId /\ <<p, removal.iface>> \in recorded.peers
<1>1. removal.iface # Unset
  BY UnsetInterfaceAssumption DEF RefInv, RemovalOK, Removal
<1>2. p \in Peers /\ peers[p].iface = removal.iface
  BY <1>1 DEF ResolvePeer, OnInterface, PeersOn
<1>. QED BY <1>2 DEF RefInv, RecordedOK, Peers

LEMMA FindInterfaceOK ==
    ASSUME RefInv, NEW iref \in IfaceRef, FindInterface(iref) PROVE RemovalOK'
<1>1. PICK i \in Interfaces :
         removal' = [iref |-> iref, iface |-> i, peer |-> Unset]
  BY DEF FindInterface, ResolveInterface
<1>. QED BY <1>1 DEF RemovalOK, Removal, Interfaces

LEMMA FindPeerOK ==
    ASSUME RefInv, NEW ref, FindPeer(ref) PROVE RemovalOK'
<1>1. removal # NoRow /\ removal \in Removal /\ recorded' = recorded
  BY DEF FindPeer, RefInv, RemovalOK
<1>2. CASE removal' = NoRow
  BY <1>2 DEF RemovalOK
<1>3. CASE \E p \in ResolvePeer(ref, removal.iface, "mutate") :
              removal' = [removal EXCEPT !.peer = p]
  <2>1. PICK p \in ResolvePeer(ref, removal.iface, "mutate") :
           removal' = [removal EXCEPT !.peer = p]
    BY <1>3
  <2>2. p \in PeerId /\ <<p, removal.iface>> \in recorded.peers
    BY <1>1, LookupOK
  <2>. QED BY <1>1, <2>1, <2>2 DEF RemovalOK, Removal
<1>. QED BY <1>2, <1>3 DEF FindPeer

(* The last step of a removal is a command on one peer, or nothing. *)
LEMMA RemovalStep ==
    ASSUME RefInv, NEW hard \in BOOLEAN, FinishRemoval(hard)
    PROVE  \/ UNCHANGED <<vars, recorded>>
           \/ /\ Removable /\ Record
              /\ RemovePeer(removal.peer) \/ HardRemovePeer(removal.peer)
              /\ PeerStep
<1>1. removal.peer \in PeerId
  BY DEF FinishRemoval, RefInv, RemovalOK, Removal
<1>. QED BY <1>1 DEF FinishRemoval, PeerStep

LEMMA RefStep == RefInv /\ [RefNext]_refVars => RefInv' /\ [Next \/ SetBack]_vars
<1>. SUFFICES ASSUME RefInv, [RefNext]_refVars
              PROVE  RefInv' /\ [Next \/ SetBack]_vars
  OBVIOUS
<1>1. ASSUME UNCHANGED <<vars, recorded>>
      PROVE  Inv' /\ RecordedOK' /\ [Next \/ SetBack]_vars
  <2>1. Inv'
    BY <1>1, StepInv DEF RefInv
  <2>2. RecordedOK'
    BY <1>1 DEF RefInv, RecordedOK, vars, Peers, Nodes, Interfaces
  <2>. QED BY <1>1, <2>1, <2>2 DEF vars
<1>2. ASSUME [Next \/ SetBack]_vars, Record
      PROVE  /\ Inv' /\ RecordedOK'
             /\ recorded.peers \subseteq recorded'.peers
  BY <1>2, StepInv, RecordKeeps DEF RefInv
<1>3. CASE Command
  BY <1>2, <1>3 DEF Command, RefInv, RemovalOK
<1>4. ASSUME NEW iref \in IfaceRef, FindInterface(iref)
      PROVE  RefInv' /\ [Next \/ SetBack]_vars
  BY <1>1, <1>4, FindInterfaceOK DEF FindInterface, RefInv
<1>5. ASSUME NEW ref \in PeerRef, FindPeer(ref)
      PROVE  RefInv' /\ [Next \/ SetBack]_vars
  BY <1>1, <1>5, FindPeerOK DEF FindPeer, RefInv
<1>6. ASSUME NEW hard \in BOOLEAN, FinishRemoval(hard)
      PROVE  RefInv' /\ [Next \/ SetBack]_vars
  <2>1. RemovalOK'
    BY <1>6 DEF FinishRemoval, RemovalOK
  <2>2. Inv' /\ RecordedOK' /\ [Next \/ SetBack]_vars
    BY <1>1, <1>2, <1>6, RemovalStep DEF Next
  <2>. QED BY <2>1, <2>2 DEF RefInv
<1>7. CASE UNCHANGED refVars
  BY <1>1, <1>7 DEF refVars, RefInv, RemovalOK
<1>. QED BY <1>3, <1>4, <1>5, <1>6, <1>7 DEF RefNext

LEMMA RefInitInv == RefInit => RefInv
<1>. SUFFICES ASSUME RefInit PROVE RefInv
  OBVIOUS
<1>1. Inv
  BY InitInv DEF RefInit
<1>2. Peers = {} /\ Nodes = {} /\ Interfaces = {}
  BY DEF RefInit, Init, Peers, Nodes, Interfaces
<1>. QED BY <1>1, <1>2 DEF RefInit, RefInv, RecordedOK, RemovalOK, Log

LEMMA RefInvariance == RefSpec => []RefInv
BY RefInitInv, RefStep, PTL DEF RefSpec

-----------------------------------------------------------------------------
(* The theorems. *)

(* The history and the removal in progress are well typed. *)
THEOREM RefTypes == RefSpec => []RefTypeOK
<1>1. RefInv => RefTypeOK
  BY DEF RefInv, RecordedOK, RemovalOK, RefTypeOK
<1>. QED BY <1>1, RefInvariance, PTL

(* `peer remove', which resolves its references in transactions of their   *)
(* own and deletes in another, with every other command between them, is   *)
(* still a sequence of the database's commands: what is proved of Topology *)
(* for any clock holds beside it.                                          *)
THEOREM RemovalsAreCommands == RefSpec => SpecAnyClock
<1>1. RefInit => Init
  BY DEF RefInit
<1>. QED BY <1>1, RefInvariance, RefStep, PTL DEF RefSpec, SpecAnyClock

(* Its removals move no peer out of its pool either.                       *)
COROLLARY RemovalsKeepPool == RefSpec => KeptInPool
BY RemovalsAreCommands, PoolKeepsPeers, PTL

(* No command makes a reference that finds one peer find another. *)
THEOREM NoRedirection == RefSpec => ReferencesNotRedirected
<1>1. RefInv /\ [RefNext]_refVars =>
         [\/ UNCHANGED <<peers, Interfaces>>
          \/ \A ref \in PeerPrefix, i \in IfaceId \cup {Unset}, access \in Access :
                \A p \in ResolvePeer(ref, i, access) :
                   ResolvePeer(ref, i, access)' \subseteq {p}]_vars
  BY RefStep, NotRedirected DEF RefInv, PeerRef
<1>. QED BY <1>1, RefInvariance, PTL DEF RefSpec, ReferencesNotRedirected

(* `peer remove' removes the peer it found, on the interface named, and    *)
(* nothing when the interface's name has changed its meaning meanwhile.    *)
THEOREM RemovalIsSafe == RefSpec => RemovesWhatWasNamed
<1>1. ASSUME RefInv, [RefNext]_refVars, NEW p \in Peers,
             removal # NoRow, removal' = NoRow, peers'[p] # peers[p]
      PROVE  /\ p = removal.peer /\ peers[p].iface = removal.iface
             /\ ResolveInterface(removal.iref) = {removal.iface}
  <2>1. PICK hard \in BOOLEAN : FinishRemoval(hard)
    BY <1>1 DEF RefNext, Command, FindInterface, FindPeer, refVars, vars
  <2>2. /\ Removable
        /\ RemovePeer(removal.peer) \/ HardRemovePeer(removal.peer)
    BY <1>1, <2>1, RemovalStep DEF vars
  <2>3. p = removal.peer
    BY <1>1, <2>2 DEF RemovePeer, HardRemovePeer, SoftDelete, RefInv, Inv, RowsOK, Peers
  <2>4. /\ removal.peer # Unset /\ removal.iface \in IfaceId /\ p \in PeerId
        /\ peers[p].iface \in IfaceId
    BY <1>1, <2>1 DEF FinishRemoval, RefInv, RemovalOK, Removal, Inv, RowsOK,
                      Peers, PeerRow
  <2>5. peers[p].iface = removal.iface
    BY <1>1, <2>3, <2>4 DEF RefInv, RecordedOK, RemovalOK
  <2>. QED BY <2>2, <2>3, <2>5 DEF Removable
<1>2. RefInv /\ [RefNext]_refVars =>
         [\A p \in Peers :
             removal # NoRow /\ removal' = NoRow /\ peers'[p] # peers[p] =>
                /\ p = removal.peer /\ peers[p].iface = removal.iface
                /\ ResolveInterface(removal.iref) = {removal.iface}]_refVars
  BY <1>1
<1>. QED BY <1>2, RefInvariance, PTL DEF RefSpec, RemovesWhatWasNamed

(* The whole id of a row finds its events, living or gone. *)
THEOREM HistoryIsFound == RefSpec => []HistoryOutlivesRows
<1>1. ASSUME RefInv, NEW p \in PeerId, NEW i \in Interfaces,
             <<p, i>> \in recorded.peers
      PROVE  PeerHistory(WholeId(p), i) = {p}
  <2>. DEFINE ref == WholeId(p)
  <2>1. ref.ids = {p} /\ i # Unset /\ i \in IfaceId
    BY UnsetInterfaceAssumption DEF WholeId, Interfaces
  <2>2. Matching(ref, "read_sensitive") = Peers \cap {p}
    BY <2>1 DEF Matching, ActiveOnly
  <2>3. ~NeedsInterface(i, "read_sensitive")
    BY <2>1 DEF NeedsInterface
  <2>4. p \in LoggedOn(i)
    BY <1>1, <2>1 DEF LoggedOn
  <2>. HIDE DEF ref
  <2>5. CASE p \in Peers
    <3>1. peers[p].iface = i
      BY <1>1, <2>1, <2>5 DEF RefInv, RecordedOK, Inv, RowsOK, Peers, PeerRow
    <3>2. OnInterface(i, Matching(ref, "read_sensitive")) = {p}
      BY <2>1, <2>2, <2>5, <3>1 DEF OnInterface, PeersOn
    <3>. QED BY <2>2, <2>3, <2>5, <3>2 DEF PeerHistory, ResolvePeer, ref
  <2>6. CASE p \notin Peers
    <3>1. LoggedOn(i) \cap ref.ids = {p}
      BY <2>1, <2>4
    <3>. QED BY <2>2, <2>3, <2>6, <3>1 DEF PeerHistory, ref
  <2>. QED BY <2>5, <2>6
<1>2. ASSUME RefInv, NEW n \in recorded.nodes
      PROVE  NodeHistory(WholeId(n)) = {n}
  <2>1. Named(WholeId(n)) = {}
    BY NoRowAssumption DEF Named, WholeId, Nodes
  <2>2. NodesMatching(WholeId(n)) = Nodes \cap {n} /\ WholeId(n).full
        /\ WholeId(n).ids = {n}
    BY DEF NodesMatching, WholeId
  <2>. QED BY <2>1, <2>2 DEF NodeHistory, ResolveNode
<1>3. ASSUME RefInv, NEW e \in recorded.ifaces, NEW ref \in DOMAIN NumericName,
             e[1] = NumericName[ref], \A i \in Interfaces : ifaces[i].name # ref
      PROVE  InterfaceHistory(ref) = {e[1]}
  <2>1. {i \in Interfaces : ifaces[i].name = ref} = {}
    BY <1>3
  <2>2. ResolveInterface(ref) = {e[1]} \cap Interfaces
    BY <1>3, <2>1 DEF ResolveInterface
  <2>. QED BY <1>3, <2>1, <2>2 DEF InterfaceHistory
<1>4. RefInv => HistoryOutlivesRows
  <2>. SUFFICES ASSUME RefInv PROVE HistoryOutlivesRows
    OBVIOUS
  <2>1. \A e \in recorded.peers : e[1] \in PeerId /\ e = <<e[1], e[2]>>
    BY DEF RefInv, RecordedOK, Log
  <2>. QED BY <1>1, <1>2, <1>3, <2>1 DEF HistoryOutlivesRows
<1>. QED BY <1>4, RefInvariance, PTL

(* A history asked for on one interface is of a peer of that interface. *)
THEOREM HistoryIsScoped == RefSpec => []HistoryScoped
<1>1. ASSUME RefInv, NEW ref \in PeerRef, NEW i \in Interfaces,
             NEW p \in PeerHistory(ref, i)
      PROVE  <<p, i>> \in recorded.peers
  <2>1. i # Unset
    BY UnsetInterfaceAssumption DEF Interfaces
  <2>2. CASE p \in ResolvePeer(ref, i, "read_sensitive")
    <3>1. p \in Peers /\ peers[p].iface = i
      BY <2>1, <2>2 DEF ResolvePeer, OnInterface, PeersOn
    <3>. QED BY <1>1, <3>1 DEF RefInv, RecordedOK
  <2>3. CASE p \in LoggedOn(i)
    BY <2>1, <2>3 DEF LoggedOn
  <2>. QED BY <2>2, <2>3 DEF PeerHistory
<1>2. RefInv => HistoryScoped
  BY <1>1 DEF HistoryScoped
<1>. QED BY <1>2, RefInvariance, PTL
=============================================================================
