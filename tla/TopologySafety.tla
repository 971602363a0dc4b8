--------------------------- MODULE TopologySafety ---------------------------
(***************************************************************************)
(* Addresses stay in the pool, and slots are never shared: the two safety  *)
(* arguments of Topology that need more than its typing invariant.  Then   *)
(* the unique indexes of the peers table, the agreement of allocation,     *)
(* reclamation and activation with them, and the isolation of interfaces,  *)
(* whatever the clock does.                                                *)
(***************************************************************************)
EXTENDS TopologyProofs, WellFoundedInduction

-----------------------------------------------------------------------------
(***************************************************************************)
(* Addresses and pools.  A row that an operation leaves where it is keeps  *)
(* its interface and its address; one that it writes is checked against    *)
(* the pool.  What is left is the change of a pool, which looks its        *)
(* interface up by name.                                                   *)
(***************************************************************************)
Kept(q) ==
    /\ q \in Peers
    /\ peers'[q].iface = peers[q].iface /\ peers'[q].ip = peers[q].ip
    /\ ~peers'[q].deleted => ~peers[q].deleted

Fits(q) == ~peers'[q].deleted => peers'[q].ip \in PeerHosts(ifaces[peers'[q].iface].pool)

LEMMA MarkedKept ==
    ASSUME Inv, NEW S \in SUBSET Peers, NEW q \in Peers',
           peers'[q] = SoftDelete(S)[q]
    PROVE  Kept(q)
<1>1. q \in PeerId /\ SoftDelete(S)[q] # NoRow
  BY DEF Peers
<1>2. q \in Peers
  <2>1. peers[q] # NoRow
    BY <1>1, SoftDeleteRows DEF Inv
  <2>. QED BY <1>1, <2>1 DEF Peers
<1>3. Marked(peers'[q], peers[q], q \in S) /\ peers[q] \in PeerRow
  BY <1>1, <1>2, SoftDeleteRows DEF Inv, RowsOK, Peers
<1>. QED BY <1>2, <1>3 DEF Kept, Marked, PeerRow

(* A pool is changed unchecked only where the name is the id of another.   *)
Unchecked(i) ==
    /\ ifaces'[i].pool # ifaces[i].pool
    /\ Misnamed(i) /\ NumericName[ifaces[i].name] \in Interfaces

LEMMA ResolvesToItself ==
    ASSUME NEW i \in Interfaces, ResolveInterface(ifaces[i].name) # {}
    PROVE  \/ ResolveInterface(ifaces[i].name) = {i}
           \/ Misnamed(i) /\ NumericName[ifaces[i].name] \in Interfaces
BY DEF ResolveInterface, Misnamed

LEMMA AllocatedInPool ==
    ASSUME NEW i, NEW ip \in Nat, NEW own, ip \in Allocation(i, ip, own)
    PROVE  ip \in PeerHosts(ifaces[i].pool)
BY UnsetAssumption DEF Allocation, Requestable

LEMMA InterfacePoolStep ==
    ASSUME Inv, InterfaceStep, NEW q \in Peers'
    PROVE  /\ Kept(q)
           /\ LET i == peers[q].iface
              IN  /\ ifaces'[i].name = ifaces[i].name
                  /\ ifaces'[i].pool = ifaces[i].pool \/ InPool(q)' \/ Unchecked(i)
<1>. DEFINE i == peers[q].iface
<1>1. ASSUME NEW name \in InterfaceName, NEW pool \in Pools,
             NEW routed \in HubRouted, AddInterface(name, pool, routed)
      PROVE  q \in Peers /\ peers'[q] = peers[q] /\ ifaces'[i] = ifaces[i]
  <2>1. q \in Peers /\ peers' = peers
    BY <1>1 DEF AddInterface, Peers
  <2>2. i # nextId /\ i \in IfaceId
    BY <2>1 DEF Inv, NoOrphanPeers, FreshIds, RowsOK, IfaceId, Interfaces
  <2>. QED BY <1>1, <2>1, <2>2 DEF AddInterface, Inv, RowsOK
<1>2. ASSUME NEW j \in IfaceId, NEW pool \in Pools \cup {Unset},
             NEW routed \in HubRouted \cup {Unset}, UpdateInterface(j, pool, routed)
      PROVE  /\ q \in Peers /\ peers'[q] = peers[q]
             /\ ifaces'[i].name = ifaces[i].name
             /\ ifaces'[i].pool = ifaces[i].pool \/ InPool(q)' \/ Unchecked(i)
  <2>. DEFINE row == ifaces[j]
              newPool == IF pool = Unset THEN row.pool ELSE pool
  <2>1. /\ j \in Interfaces /\ peers' = peers
        /\ newPool # row.pool =>
             /\ ResolveInterface(row.name) # {}
             /\ \A k \in ResolveInterface(row.name) : \A p \in NonDeleted(k) :
                    peers[p].ip \in PeerHosts(newPool)
        /\ ifaces' = [ifaces EXCEPT ![j].pool = newPool,
                         ![j].routed = IF routed = Unset THEN @ ELSE routed]
    BY <1>2 DEF UpdateInterface
  <2>2. /\ ifaces'[j].pool = newPool /\ ifaces'[j].name = row.name
        /\ \A k \in IfaceId \ {j} : ifaces'[k] = ifaces[k]
    BY <2>1 DEF Inv, RowsOK, Interfaces, IfaceRow
  <2>3. q \in Peers /\ peers'[q] = peers[q] /\ i \in IfaceId
    BY <2>1 DEF Peers, Inv, NoOrphanPeers, Interfaces
  <2>4. CASE i # j
    BY <2>2, <2>3, <2>4
  <2>5. CASE i = j /\ newPool # row.pool
    <3>1. CASE ResolveInterface(row.name) = {j}
      <4>1. ~peers[q].deleted => peers[q].ip \in PeerHosts(newPool)
        BY <2>1, <2>3, <2>5, <3>1 DEF NonDeleted, PeersOn
      <4>. QED BY <2>2, <2>3, <2>5, <4>1 DEF InPool
    <3>2. CASE Misnamed(j) /\ NumericName[row.name] \in Interfaces
      BY <2>2, <2>3, <2>5, <3>2 DEF Unchecked
    <3>. QED BY <2>1, <2>5, <3>1, <3>2, ResolvesToItself
  <2>6. CASE i = j /\ newPool = row.pool
    BY <2>2, <2>3, <2>6
  <2>. QED BY <2>4, <2>5, <2>6
<1>3. ASSUME NEW j \in IfaceId, NEW force \in BOOLEAN, RemoveInterface(j, force)
      PROVE  q \in Peers /\ peers'[q] = peers[q] /\ ifaces'[i] = ifaces[i]
  <2>1. q \in Peers /\ peers'[q] = peers[q] /\ i # j
    BY <1>3 DEF RemoveInterface, Inv, RowsOK, Peers, PeersOn
  <2>. QED BY <1>3, <2>1 DEF RemoveInterface, Inv, RowsOK, NoOrphanPeers, Interfaces
<1>. QED BY <1>1, <1>2, <1>3 DEF InterfaceStep, Kept

LEMMA NodePoolStep ==
    ASSUME Inv, NodeStep, NEW q \in Peers' PROVE Kept(q) /\ ifaces' = ifaces
<1>1. ifaces' = ifaces /\ q \in Peers /\ peers'[q] = peers[q]
  BY DEF NodeStep, AddNode, UpdateNode, RemoveNode, PruneNodes, DeleteNodes,
         Inv, RowsOK, Peers
<1>. QED BY <1>1 DEF Kept

LEMMA AddPeerPool ==
    ASSUME Inv, NEW q \in Peers',
           NEW i \in IfaceId, NEW n \in NodeId, NEW name \in NodeName,
           NEW p \in PeerId, NEW request \in Requests \cup {Unset},
           NEW expiry \in {"never", "pending"}, NEW role \in Role,
           NEW routed \in Routed,
           AddPeer(i, n, name, p, request, expiry, role, routed)
    PROVE  Kept(q) \/ Fits(q)
<1>1. PICK ip \in Allocation(i, request, {}) :
         LET row == [iface |-> i, node |-> n, ip |-> ip, deleted |-> FALSE,
                     expiry |-> expiry, role |-> role, routed |-> routed]
         IN  /\ Activatable(p, row)
             /\ peers' = [SoftDelete(Blocking(i, {ip}, {n})) EXCEPT ![p] = row]
  BY DEF AddPeer
<1>. DEFINE S == Blocking(i, {ip}, {n})
<1>2. S \in SUBSET Peers
  BY BlockingRows
<1>3. CASE q = p
  BY <1>1, <1>3 DEF Fits, Activatable, SoftDelete
<1>4. CASE q # p
  <2>1. peers'[q] = SoftDelete(S)[q]
    BY <1>1, <1>4 DEF SoftDelete, Peers
  <2>. QED BY <1>2, <2>1, MarkedKept
<1>. QED BY <1>3, <1>4

(* What update_peer stores, beside what it checked. *)
LEMMA UpdatedRow ==
    ASSUME Inv, NEW p \in PeerId, NEW ip \in Requests \cup {Unset},
           NEW expiry \in {"never", "pending", Unset},
           NEW role \in Role \cup {Unset}, NEW routed \in Routed \cup {Unset},
           UpdatePeer(p, ip, expiry, role, routed)
    PROVE  LET before    == peers[p]
               reclaimed == ReclaimedForUpdate(before.iface, ip)
               table     == SoftDelete(reclaimed)
               checked   == Revised(before, ip, expiry, role, routed)
               stored    == Revised(table[p], ip, expiry, role, routed)
           IN  /\ reclaimed \in SUBSET Peers
               /\ checked \in PeerRow /\ stored \in PeerRow
               /\ checked.iface = before.iface /\ stored.iface = before.iface
               /\ checked.node = before.node /\ stored.node = before.node
               /\ stored.ip = checked.ip /\ stored.expiry = checked.expiry
               /\ stored.role = checked.role /\ stored.routed = checked.routed
               /\ checked.deleted = before.deleted
               /\ stored.deleted = (before.deleted \/ p \in reclaimed)
               /\ checked.ip = IF ip = Unset THEN before.ip ELSE ip
               /\ checked.expiry = IF expiry = Unset THEN before.expiry ELSE expiry
<1>. DEFINE before    == peers[p]
            reclaimed == ReclaimedForUpdate(before.iface, ip)
            deleted   == SoftDelete(reclaimed)[p]
            checked   == Revised(before, ip, expiry, role, routed)
            stored    == Revised(deleted, ip, expiry, role, routed)
<1>1. p \in Peers /\ reclaimed \in SUBSET Peers
  BY BlockingRows DEF UpdatePeer, ReclaimedForUpdate
<1>2. before \in PeerRow
  BY <1>1 DEF Inv, RowsOK, Peers
<1>3. Marked(deleted, before, p \in reclaimed)
  <2>. HIDE DEF reclaimed
  <2>. QED BY <1>1, SoftDeleteRows DEF Inv
<1>4. /\ deleted \in PeerRow
      /\ deleted.iface = before.iface /\ deleted.node = before.node
      /\ deleted.ip = before.ip /\ deleted.expiry = before.expiry
      /\ deleted.role = before.role /\ deleted.routed = before.routed
      /\ deleted.deleted = (before.deleted \/ p \in reclaimed)
  BY <1>3 DEF Marked
<1>5. ip \in Nat \cup {Unset}
  BY ConstantsAssumption
<1>6. ASSUME NEW row \in PeerRow, NEW new, new = Revised(row, ip, expiry, role, routed)
      PROVE  /\ new \in PeerRow
             /\ new.iface = row.iface /\ new.node = row.node
             /\ new.deleted = row.deleted
             /\ new.ip = IF ip = Unset THEN row.ip ELSE ip
             /\ new.expiry = IF expiry = Unset THEN row.expiry ELSE expiry
             /\ new.role = IF role = Unset THEN row.role ELSE role
             /\ new.routed = IF routed # Unset THEN routed
                             ELSE IF role = "endpoint" THEN {} ELSE row.routed
  <2>. HIDE DEF before, deleted, checked, stored, reclaimed
  <2>. DEFINE revised == Revised(row, ip, expiry, role, routed)
  <2>1. /\ revised \in PeerRow
        /\ revised.iface = row.iface /\ revised.node = row.node
        /\ revised.deleted = row.deleted
        /\ revised.ip = IF ip = Unset THEN row.ip ELSE ip
        /\ revised.expiry = IF expiry = Unset THEN row.expiry ELSE expiry
        /\ revised.role = IF role = Unset THEN row.role ELSE role
        /\ revised.routed = IF routed # Unset THEN routed
                            ELSE IF role = "endpoint" THEN {} ELSE row.routed
    BY <1>5, RevisedRow, Z3T(30)
  <2>2. new = revised
    BY <1>6
  <2>. HIDE DEF revised
  <2>. QED BY <2>1, <2>2
<1>7. /\ checked \in PeerRow
      /\ checked.iface = before.iface /\ checked.node = before.node
      /\ checked.deleted = before.deleted
      /\ checked.ip = IF ip = Unset THEN before.ip ELSE ip
      /\ checked.expiry = IF expiry = Unset THEN before.expiry ELSE expiry
      /\ checked.role = IF role = Unset THEN before.role ELSE role
      /\ checked.routed = IF routed # Unset THEN routed
                          ELSE IF role = "endpoint" THEN {} ELSE before.routed
  <2>. HIDE DEF before, reclaimed
  <2>. QED BY <1>2, <1>6
<1>8. /\ stored \in PeerRow
      /\ stored.iface = deleted.iface /\ stored.node = deleted.node
      /\ stored.deleted = deleted.deleted
      /\ stored.ip = IF ip = Unset THEN deleted.ip ELSE ip
      /\ stored.expiry = IF expiry = Unset THEN deleted.expiry ELSE expiry
      /\ stored.role = IF role = Unset THEN deleted.role ELSE role
      /\ stored.routed = IF routed # Unset THEN routed
                         ELSE IF role = "endpoint" THEN {} ELSE deleted.routed
  <2>. HIDE DEF before, deleted, reclaimed
  <2>. QED BY <1>4, <1>6
<1>9. /\ stored.ip = checked.ip /\ stored.expiry = checked.expiry
      /\ stored.role = checked.role /\ stored.routed = checked.routed
      /\ stored.iface = before.iface /\ stored.node = before.node
      /\ stored.deleted = (before.deleted \/ p \in reclaimed)
  <2>. HIDE DEF before, deleted, checked, stored, reclaimed
  <2>. QED BY <1>4, <1>7, <1>8
<1>. HIDE DEF checked, stored, reclaimed
<1>. QED BY <1>1, <1>7, <1>8, <1>9 DEF checked, stored, reclaimed

LEMMA UpdatePeerPool ==
    ASSUME Inv, NEW q \in Peers',
           NEW p \in PeerId, NEW ip \in Requests \cup {Unset},
           NEW expiry \in {"never", "pending", Unset},
           NEW role \in Role \cup {Unset}, NEW routed \in Routed \cup {Unset},
           UpdatePeer(p, ip, expiry, role, routed)
    PROVE  Kept(q) \/ Fits(q)
<1>. DEFINE before    == peers[p]
            reclaimed == ReclaimedForUpdate(before.iface, ip)
            table     == SoftDelete(reclaimed)
            checked   == Revised(before, ip, expiry, role, routed)
            stored    == Revised(table[p], ip, expiry, role, routed)
<1>1. /\ p \in Peers
      /\ ip # Unset => ip \in Allocation(before.iface, ip, {before.ip})
      /\ peers' = [table EXCEPT ![p] = stored]
  BY DEF UpdatePeer
<1>2. /\ reclaimed \in SUBSET Peers
      /\ stored.iface = before.iface /\ stored.ip = checked.ip
      /\ stored.deleted = (before.deleted \/ p \in reclaimed)
      /\ checked.ip = IF ip = Unset THEN before.ip ELSE ip
  BY UpdatedRow, SMTT(30)
<1>. HIDE DEF stored, checked, reclaimed
<1>3. CASE q = p
  <2>1. peers'[q] = stored
    BY <1>1, <1>3 DEF SoftDelete, Peers
  <2>2. CASE ip = Unset
    BY <1>1, <1>2, <1>3, <2>1, <2>2 DEF Kept
  <2>3. CASE ip # Unset
    <3>1. ip \in Nat
      BY <2>3, ConstantsAssumption
    <3>. QED BY <1>1, <1>2, <2>1, <2>3, <3>1, AllocatedInPool DEF Fits
  <2>. QED BY <2>2, <2>3
<1>4. CASE q # p
  <2>1. peers'[q] = table[q]
    BY <1>1, <1>4 DEF SoftDelete, Peers
  <2>. QED BY <1>2, <2>1, MarkedKept
<1>. QED BY <1>3, <1>4

LEMMA PeerPoolStep ==
    ASSUME Inv, NEW q \in Peers',
           PeerStep \/ \E p \in PeerId : Expire(p) \/ StepBack(p)
    PROVE  ifaces' = ifaces /\ (Kept(q) \/ Fits(q))
<1>1. ASSUME NEW p \in PeerId, RemovePeer(p) PROVE ifaces' = ifaces /\ Kept(q)
  <2>1. {p} \in SUBSET Peers /\ peers' = SoftDelete({p}) /\ ifaces' = ifaces
    BY <1>1 DEF RemovePeer
  <2>. QED BY <2>1, MarkedKept
<1>2. ASSUME NEW p \in PeerId, HardRemovePeer(p) PROVE ifaces' = ifaces /\ Kept(q)
  BY <1>2 DEF HardRemovePeer, Kept, Inv, RowsOK, Peers
<1>3. ASSUME NEW i \in IfaceId, PrunePeers(i) PROVE ifaces' = ifaces /\ Kept(q)
  BY <1>3 DEF PrunePeers, Kept, Inv, RowsOK, Peers
<1>4. ASSUME NEW p \in PeerId, Expire(p) \/ StepBack(p)
      PROVE  ifaces' = ifaces /\ Kept(q)
  BY <1>4 DEF Expire, StepBack, Kept, Inv, RowsOK, Peers, PeerRow
<1>5. CASE \E i \in IfaceId, n \in NodeId, name \in NodeName, p \in PeerId,
              request \in Requests \cup {Unset}, expiry \in {"never", "pending"},
              role \in Role, routed \in Routed :
                 AddPeer(i, n, name, p, request, expiry, role, routed)
  <2>1. ifaces' = ifaces
    BY <1>5 DEF AddPeer
  <2>. QED BY <1>5, <2>1, AddPeerPool
<1>6. CASE \E p \in PeerId, ip \in Requests \cup {Unset},
              expiry \in {"never", "pending", Unset}, role \in Role \cup {Unset},
              routed \in Routed \cup {Unset} : UpdatePeer(p, ip, expiry, role, routed)
  <2>1. ifaces' = ifaces
    BY <1>6 DEF UpdatePeer
  <2>. QED BY <1>6, <2>1, UpdatePeerPool
<1>. QED BY <1>1, <1>2, <1>3, <1>4, <1>5, <1>6 DEF PeerStep

LEMMA PoolStep ==
    ASSUME Inv, [Next \/ SetBack]_vars, NEW q \in Peers'
    PROVE  \/ InPool(q)'
           \/ /\ Kept(q)
              /\ ifaces'[peers[q].iface].name = ifaces[peers[q].iface].name
              /\ ~InPool(q) \/ Unchecked(peers[q].iface)
<1>1. CASE InterfaceStep
  BY <1>1, InterfacePoolStep DEF Kept, InPool
<1>2. CASE NodeStep
  BY <1>2, NodePoolStep DEF Kept, InPool
<1>3. CASE PeerStep \/ \E p \in PeerId : Expire(p) \/ StepBack(p)
  BY <1>3, PeerPoolStep DEF Kept, Fits, InPool
<1>4. CASE UNCHANGED vars
  BY <1>4 DEF vars, Kept, InPool, Peers
<1>. QED BY <1>1, <1>2, <1>3, <1>4 DEF Next, SetBack

(* Whatever names operators give, a peer that is not soft-deleted gets     *)
(* outside its pool only by a change of that pool while the name of its    *)
(* interface is the id of another.                                         *)
THEOREM PoolKeepsPeers == SpecAnyClock => KeptInPool
<1>1. Inv /\ [Next \/ SetBack]_vars =>
         [\A p \in Peers' :
             \/ InPool(p)'
             \/ p \in Peers /\ ~InPool(p)
             \/ /\ p \in Peers
                /\ LET i == peers[p].iface
                   IN  /\ ifaces'[i].pool # ifaces[i].pool
                       /\ Misnamed(i) /\ NumericName[ifaces[i].name] \in Interfaces
         ]_vars
  BY PoolStep DEF Kept, Unchecked
<1>. QED BY <1>1, Invariance, PTL DEF SpecAnyClock, KeptInPool

(* So the peers of an interface that is not misnamed are always in its     *)
(* pool, however the others are named.                                     *)
THEOREM NamedPoolsHold == SpecAnyClock => []NonDeletedInPool
<1>1. Init => NonDeletedInPool
  BY DEF Init, NonDeletedInPool, Peers
<1>2. Inv /\ NonDeletedInPool /\ [Next \/ SetBack]_vars => NonDeletedInPool'
  <2>. SUFFICES ASSUME Inv, NonDeletedInPool, [Next \/ SetBack]_vars,
                       NEW q \in Peers', ~Misnamed(peers[q].iface)'
                PROVE  InPool(q)'
    BY DEF NonDeletedInPool
  <2>1. CASE Kept(q) /\ ifaces'[peers[q].iface].name = ifaces[peers[q].iface].name
    <3>1. q \in Peers /\ ~Misnamed(peers[q].iface)
      BY <2>1 DEF Kept, Misnamed
    <3>. QED BY <3>1, PoolStep DEF NonDeletedInPool, Unchecked
  <2>. QED BY <2>1, PoolStep
<1>. QED BY <1>1, <1>2, Invariance, PTL DEF SpecAnyClock

-----------------------------------------------------------------------------
(***************************************************************************)
(* Slots.  Only routers have LANs, so the rivals that assert_peer_         *)
(* activation looks at, the routers, are all the peers that hold any.      *)
(***************************************************************************)
RolesCoherent ==
    \A p \in Peers : peers[p].role = "subnet_router" <=> peers[p].routed # {}

LEMMA LansAreAddresses ==
    ASSUME NEW row \in PeerRow PROVE Covered(row.routed) \subseteq Nat
<1>1. row.routed \in SUBSET (SUBSET Nat)
  BY ConstantsAssumption DEF PeerRow, Routed
<1>. QED BY <1>1 DEF Covered

LEMMA SlotsOfType ==
    ASSUME NEW row \in PeerRow PROVE SlotsOf(row) \subseteq Slot
BY LansAreAddresses DEF SlotsOf, Slot, PeerRow

(* What an activation checks is that no slot of the row is held. *)
LEMMA ActivationIsExclusive ==
    ASSUME RowsOK, RolesCoherent, NEW p \in PeerId, NEW row \in PeerRow,
           Activatable(p, row), NEW q \in PeerId \ {p}, IsActive(peers[q])
    PROVE  SlotsOf(row) \cap SlotsOf(peers[q]) = {}
<1>1. q \in Peers /\ peers[q] \in PeerRow
  BY DEF IsActive, RowsOK, Peers
<1>2. CASE peers[q].iface # row.iface
  BY <1>2 DEF SlotsOf
<1>3. CASE peers[q].iface = row.iface
  <2>1. q \in ActiveOn(row.iface) \ {p}
    BY <1>1, <1>3 DEF ActiveOn, PeersOn
  <2>2. peers[q].node # row.node /\ peers[q].ip # row.ip
    BY <2>1 DEF Activatable
  <2>3. Covered(row.routed) \cap Covered(peers[q].routed) = {}
    <3>1. CASE row.routed = {} \/ peers[q].routed = {}
      BY <3>1 DEF Covered
    <3>2. CASE row.routed # {} /\ peers[q].routed # {}
      <4>1. row.role = "subnet_router"
        BY <3>2 DEF Activatable, RoutingWellFormed
      <4>2. peers[q].role = "subnet_router"
        BY <1>1, <3>2 DEF RolesCoherent
      <4>. QED BY <2>1, <4>1, <4>2 DEF Activatable
    <3>. QED BY <3>1, <3>2
  <2>. QED BY <1>3, <2>2, <2>3 DEF SlotsOf
<1>. QED BY <1>2, <1>3

(* Soft deletion keeps role and routed networks together.                  *)
LEMMA RolesKept ==
    ASSUME Inv, RolesCoherent, NEW S \in SUBSET Peers, NEW p \in PeerId,
           \A q \in PeerId \ {p} : peers'[q] = SoftDelete(S)[q],
           peers'[p].role = "subnet_router" <=> peers'[p].routed # {}
    PROVE  RolesCoherent'
<1>. SUFFICES ASSUME NEW q \in Peers', q # p
              PROVE  peers'[q].role = "subnet_router" <=> peers'[q].routed # {}
  BY DEF RolesCoherent
<1>1. q \in PeerId /\ peers'[q] # NoRow /\ peers'[q] = SoftDelete(S)[q]
  BY DEF Peers
<1>2. q \in Peers
  <2>1. peers[q] # NoRow
    BY <1>1, SoftDeleteRows DEF Inv
  <2>. QED BY <1>1, <2>1 DEF Peers
<1>3. Marked(peers'[q], peers[q], q \in S)
  BY <1>1, <1>2, SoftDeleteRows DEF Inv
<1>. QED BY <1>2, <1>3 DEF RolesCoherent, Marked

(* The slots of p change, and nothing it takes is another's.               *)
LEMMA Takes ==
    ASSUME Inv', NEW p \in PeerId,
           \A q \in PeerId \ {p} : /\ Holdings'[q] = Holdings[q]
                                   /\ Holdings'[p] \cap Holdings[q] = {}
    PROVE  Claims!Next
<1>1. Holdings' \in [PeerId -> SUBSET Slot]
  BY SlotsOfType DEF Inv, Holdings, IsActive, RowsOK
<1>2. Claims!Acquire(p)
  BY <1>1 DEF Claims!Acquire, Claims!Holding
<1>. QED BY <1>2 DEF Claims!Next

(* Rows keep what they say, or stop being active.                          *)
Faded(q) == peers'[q] = peers[q] \/ ~IsActive(peers'[q])

LEMMA Drops ==
    ASSUME Inv', \A q \in PeerId : Faded(q) PROVE Claims!Next
<1>1. Holdings' \in [PeerId -> SUBSET Slot]
  BY SlotsOfType DEF Inv, Holdings, IsActive, RowsOK
<1>2. \A q \in PeerId : Holdings'[q] \in {Holdings[q], {}}
  BY DEF Holdings, Faded
<1>. QED BY <1>1, <1>2 DEF Claims!Next, Claims!Release, Claims!Holding

(* Soft-deleting rows that were inactive takes no slot away.               *)
LEMMA ReclaimedHoldings ==
    ASSUME Inv, NEW S \in SUBSET Peers, \A q \in S : ~IsActive(peers[q]),
           NEW q \in PeerId, peers'[q] = SoftDelete(S)[q]
    PROVE  Holdings'[q] = Holdings[q]
<1>1. CASE q \in S
  <2>1. Marked(peers'[q], peers[q], q \in S)
    BY <1>1, SoftDeleteRows DEF Inv
  <2>2. ~IsActive(peers'[q])
    BY <1>1, <2>1 DEF Marked, IsActive
  <2>. QED BY <1>1, <2>2 DEF Holdings
<1>2. CASE q \notin S
  BY <1>2 DEF SoftDelete, Holdings
<1>. QED BY <1>1, <1>2

LEMMA MarkedFaded ==
    ASSUME Inv, NEW S \in SUBSET Peers, NEW q \in PeerId,
           peers'[q] = SoftDelete(S)[q]
    PROVE  Faded(q)
<1>1. CASE q \in S
  <2>1. Marked(peers'[q], peers[q], q \in S)
    BY <1>1, SoftDeleteRows DEF Inv
  <2>. QED BY <1>1, <2>1 DEF Marked, IsActive, Faded
<1>2. CASE q \notin S
  BY <1>2 DEF SoftDelete, Faded
<1>. QED BY <1>1, <1>2

(* Rows that vanish.                                                       *)
LEMMA Vanished ==
    ASSUME Inv', RolesCoherent, \A q \in PeerId : peers'[q] \in {peers[q], NoRow}
    PROVE  Claims!Next /\ RolesCoherent'
<1>1. \A q \in PeerId : Faded(q)
  BY DEF Faded, IsActive
<1>2. RolesCoherent'
  BY DEF RolesCoherent, Peers
<1>. QED BY <1>1, <1>2, Drops

LEMMA AddPeerClaims ==
    ASSUME Inv, Inv', RolesCoherent,
           NEW i \in IfaceId, NEW n \in NodeId, NEW name \in NodeName,
           NEW p \in PeerId, NEW request \in Requests \cup {Unset},
           NEW expiry \in {"never", "pending"}, NEW role \in Role,
           NEW routed \in Routed,
           AddPeer(i, n, name, p, request, expiry, role, routed)
    PROVE  Claims!Next /\ RolesCoherent'
<1>1. PICK ip \in Allocation(i, request, {}) :
         LET row == [iface |-> i, node |-> n, ip |-> ip, deleted |-> FALSE,
                     expiry |-> expiry, role |-> role, routed |-> routed]
         IN  /\ Activatable(p, row)
             /\ peers' = [SoftDelete(Blocking(i, {ip}, {n})) EXCEPT ![p] = row]
  BY DEF AddPeer
<1>. DEFINE S   == Blocking(i, {ip}, {n})
            row == [iface |-> i, node |-> n, ip |-> ip, deleted |-> FALSE,
                    expiry |-> expiry, role |-> role, routed |-> routed]
<1>2. S \in SUBSET Peers /\ \A q \in S : ~IsActive(peers[q])
  BY BlockingRows DEF Blocking
<1>3. /\ peers'[p] = row /\ Activatable(p, row)
      /\ \A q \in PeerId \ {p} : peers'[q] = SoftDelete(S)[q]
  BY <1>1 DEF SoftDelete
<1>4. row \in PeerRow
  <2>1. i \in Interfaces
    BY DEF AddPeer
  <2>2. ip \in Nat
    BY <2>1, AllocationType DEF Inv
  <2>. QED BY <2>2 DEF PeerRow, Expiry
<1>. HIDE DEF S, row
<1>5. \A q \in PeerId \ {p} : Holdings'[q] = Holdings[q]
  BY <1>2, <1>3, ReclaimedHoldings
<1>6. Holdings'[p] \subseteq SlotsOf(row)
  BY <1>3 DEF Holdings
<1>7. \A q \in PeerId \ {p} : SlotsOf(row) \cap Holdings[q] = {}
  BY <1>3, <1>4, ActivationIsExclusive DEF Holdings, Inv
<1>8. Claims!Next
  BY <1>5, <1>6, <1>7, Takes
<1>9. RolesCoherent'
  BY <1>2, <1>3, RolesKept DEF Activatable, RoutingWellFormed
<1>. QED BY <1>8, <1>9

LEMMA UpdatePeerClaims ==
    ASSUME Inv, Inv', RolesCoherent,
           NEW p \in PeerId, NEW ip \in Requests \cup {Unset},
           NEW expiry \in {"never", "pending", Unset},
           NEW role \in Role \cup {Unset}, NEW routed \in Routed \cup {Unset},
           UpdatePeer(p, ip, expiry, role, routed)
    PROVE  Claims!Next /\ RolesCoherent'
<1>. DEFINE before  == peers[p]
            S       == ReclaimedForUpdate(before.iface, ip)
            table   == SoftDelete(S)
            checked == Revised(before, ip, expiry, role, routed)
            stored  == Revised(table[p], ip, expiry, role, routed)
<1>1. /\ p \in Peers
      /\ IsActive(checked) => Activatable(p, checked)
      /\ RoutingWellFormed(checked.role, checked.routed, ifaces[before.iface].pool)
      /\ peers' = [table EXCEPT ![p] = stored]
  BY DEF UpdatePeer
<1>2. /\ S \in SUBSET Peers
      /\ checked \in PeerRow /\ stored \in PeerRow
      /\ checked.iface = before.iface /\ stored.iface = before.iface
      /\ checked.node = before.node /\ stored.node = before.node
      /\ stored.ip = checked.ip /\ stored.expiry = checked.expiry
      /\ stored.role = checked.role /\ stored.routed = checked.routed
      /\ checked.deleted = before.deleted
      /\ stored.deleted = (before.deleted \/ p \in S)
      /\ checked.ip = IF ip = Unset THEN before.ip ELSE ip
  BY UpdatedRow
<1>3. \A q \in S : ~IsActive(peers[q])
  BY DEF ReclaimedForUpdate, Blocking
<1>4. /\ peers'[p] = stored
      /\ \A q \in PeerId \ {p} : peers'[q] = table[q]
  BY <1>1 DEF SoftDelete
<1>. HIDE DEF S, checked, stored
<1>5. \A q \in PeerId \ {p} : Holdings'[q] = Holdings[q]
  BY <1>2, <1>3, <1>4, ReclaimedHoldings
<1>6. \A q \in PeerId \ {p} : Holdings'[p] \cap Holdings[q] = {}
  <2>1. CASE ~IsActive(stored)
    BY <1>4, <2>1 DEF Holdings
  <2>2. CASE IsActive(stored)
    <3>1. IsActive(checked)
      BY <1>2, <2>2, NoRowAssumption DEF IsActive
    <3>2. Holdings'[p] = SlotsOf(checked)
      BY <1>2, <1>4, <2>2 DEF Holdings, SlotsOf
    <3>. QED BY <1>1, <1>2, <3>1, <3>2, ActivationIsExclusive DEF Holdings, Inv
  <2>. QED BY <2>1, <2>2
<1>7. Claims!Next
  BY <1>5, <1>6, Takes
<1>8. RolesCoherent'
  BY <1>1, <1>2, <1>4, RolesKept DEF RoutingWellFormed
<1>. QED BY <1>7, <1>8

(* Removals and the clock: rows disappear or stop being active.            *)
LEMMA OtherPeerClaims ==
    ASSUME Inv, Inv', RolesCoherent,
           \/ \E p \in PeerId : RemovePeer(p) \/ HardRemovePeer(p) \/ Expire(p)
           \/ \E i \in IfaceId : PrunePeers(i)
    PROVE  Claims!Next /\ RolesCoherent'
<1>1. ASSUME NEW p \in PeerId, RemovePeer(p) PROVE Claims!Next /\ RolesCoherent'
  <2>1. {p} \in SUBSET Peers /\ peers' = SoftDelete({p})
    BY <1>1 DEF RemovePeer
  <2>2. \A q \in PeerId : Faded(q)
    BY <2>1, MarkedFaded
  <2>3. Marked(peers'[p], peers[p], TRUE)
    BY <2>1, SoftDeleteRows DEF Inv
  <2>4. RolesCoherent'
    BY <2>1, <2>3, RolesKept, ZenonT(30) DEF RolesCoherent, Marked
  <2>. QED BY <2>2, <2>4, Drops
<1>2. ASSUME NEW p \in PeerId, HardRemovePeer(p) PROVE Claims!Next /\ RolesCoherent'
  <2>1. \A q \in PeerId : peers'[q] \in {peers[q], NoRow}
    BY <1>2 DEF HardRemovePeer, Inv, RowsOK
  <2>. QED BY <2>1, Vanished
<1>3. ASSUME NEW i \in IfaceId, PrunePeers(i) PROVE Claims!Next /\ RolesCoherent'
  <2>1. \A q \in PeerId : peers'[q] \in {peers[q], NoRow}
    BY <1>3 DEF PrunePeers
  <2>. QED BY <2>1, Vanished
<1>4. ASSUME NEW p \in PeerId, Expire(p) PROVE Claims!Next /\ RolesCoherent'
  <2>1. /\ p \in Peers /\ peers[p] \in PeerRow
        /\ peers' = [peers EXCEPT ![p].expiry = "passed"]
    BY <1>4 DEF Expire, Inv, RowsOK, Peers
  <2>2. /\ peers'[p].expiry = "passed"
        /\ peers'[p].role = peers[p].role /\ peers'[p].routed = peers[p].routed
        /\ \A q \in PeerId \ {p} : peers'[q] = peers[q]
    BY <2>1 DEF Inv, RowsOK, PeerRow
  <2>3. \A q \in PeerId : Faded(q)
    BY <2>2 DEF Faded, IsActive
  <2>4. RolesCoherent'
    BY <2>1, <2>2 DEF RolesCoherent, Peers
  <2>. QED BY <2>3, <2>4, Drops
<1>. QED BY <1>1, <1>2, <1>3, <1>4

LEMMA InterfaceAndNodeClaims ==
    ASSUME Inv, Inv', RolesCoherent, InterfaceStep \/ NodeStep
    PROVE  Claims!Next /\ RolesCoherent'
<1>1. \A q \in PeerId : peers'[q] \in {peers[q], NoRow}
  BY DEF InterfaceStep, AddInterface, UpdateInterface, RemoveInterface, NodeStep,
         AddNode, UpdateNode, RemoveNode, PruneNodes, DeleteNodes
<1>. QED BY <1>1, Vanished

LEMMA ClaimsStep ==
    Inv /\ RolesCoherent /\ [Next]_vars => RolesCoherent' /\ [Claims!Next]_Holdings
<1>. SUFFICES ASSUME Inv, RolesCoherent, [Next]_vars
              PROVE  RolesCoherent' /\ [Claims!Next]_Holdings
  OBVIOUS
<1>1. Inv'
  BY StepInv
<1>2. CASE UNCHANGED vars
  BY <1>2 DEF vars, RolesCoherent, Peers, Holdings
<1>3. CASE InterfaceStep \/ NodeStep
  BY <1>1, <1>3, InterfaceAndNodeClaims
<1>4. CASE PeerStep
  <2>1. CASE \E i \in IfaceId, n \in NodeId, name \in NodeName, p \in PeerId,
                request \in Requests \cup {Unset}, expiry \in {"never", "pending"},
                role \in Role, routed \in Routed :
                   AddPeer(i, n, name, p, request, expiry, role, routed)
    BY <1>1, <2>1, AddPeerClaims
  <2>2. CASE \E p \in PeerId, ip \in Requests \cup {Unset},
                expiry \in {"never", "pending", Unset}, role \in Role \cup {Unset},
                routed \in Routed \cup {Unset} : UpdatePeer(p, ip, expiry, role, routed)
    BY <1>1, <2>2, UpdatePeerClaims
  <2>3. CASE \/ \E p \in PeerId : RemovePeer(p) \/ HardRemovePeer(p)
             \/ \E i \in IfaceId : PrunePeers(i)
    BY <1>1, <2>3, OtherPeerClaims
  <2>. QED BY <1>4, <2>1, <2>2, <2>3 DEF PeerStep
<1>5. CASE \E p \in PeerId : Expire(p)
  BY <1>1, <1>5, OtherPeerClaims
<1>. QED BY <1>2, <1>3, <1>4, <1>5 DEF Next

LEMMA RolesStep ==
    Inv /\ RolesCoherent /\ [Next \/ SetBack]_vars => RolesCoherent'
<1>. SUFFICES ASSUME Inv, RolesCoherent, NEW p \in PeerId, StepBack(p)
              PROVE  RolesCoherent'
  BY ClaimsStep DEF SetBack
<1>1. \A q \in Peers' : /\ q \in Peers /\ peers'[q].role = peers[q].role
                        /\ peers'[q].routed = peers[q].routed
  BY DEF StepBack, Inv, RowsOK, Peers, PeerRow
<1>. QED BY <1>1 DEF RolesCoherent

LEMMA RolesInvariance == SpecAnyClock => []RolesCoherent
<1>1. Init => RolesCoherent
  BY DEF Init, RolesCoherent, Peers
<1>. QED BY <1>1, Invariance, RolesStep, PTL DEF SpecAnyClock

(* The hub's database implements exclusive claims: every operation lets    *)
(* one peer take slots nobody holds, or takes slots away.                  *)
THEOREM Refinement == Spec => ImplementsClaims
<1>1. Init => RolesCoherent /\ Claims!Init
  BY DEF Init, RolesCoherent, Peers, Claims!Init, Holdings, IsActive
<1>2. Spec => [](Inv /\ RolesCoherent)
  BY <1>1, ForwardClock, Invariance, ClaimsStep, PTL DEF Spec
<1>. QED BY <1>1, <1>2, ClaimsStep, PTL DEF Spec, ImplementsClaims, Claims!Spec

(* At no time do two active peers share an address, a node's place on an   *)
(* interface, or an address behind a router.                               *)
THEOREM SlotsAreExclusive == Spec => []Claims!Exclusive
BY Refinement, Claims!Exclusivity, PTL DEF ImplementsClaims

LEMMA ActiveApart ==
    ASSUME Claims!Exclusive, NEW i, NEW p \in ActiveOn(i), NEW q \in ActiveOn(i),
           p # q
    PROVE  /\ peers[p].ip # peers[q].ip /\ peers[p].node # peers[q].node
           /\ Covered(peers[p].routed) \cap Covered(peers[q].routed) = {}
<1>1. /\ p \in PeerId /\ q \in PeerId
      /\ peers[p].iface = i /\ peers[q].iface = i
      /\ Holdings[p] = SlotsOf(peers[p]) /\ Holdings[q] = SlotsOf(peers[q])
  BY DEF ActiveOn, PeersOn, Peers, Holdings
<1>2. SlotsOf(peers[p]) \cap SlotsOf(peers[q]) = {}
  BY <1>1 DEF Claims!Exclusive
<1>3. peers[p].ip # peers[q].ip /\ peers[p].node # peers[q].node
  BY <1>1, <1>2 DEF SlotsOf
<1>4. ASSUME NEW a \in Covered(peers[p].routed), a \in Covered(peers[q].routed)
      PROVE  FALSE
  <2>1. <<i, "lan", a>> \in SlotsOf(peers[p]) \cap SlotsOf(peers[q])
    BY <1>1, <1>4 DEF SlotsOf
  <2>. QED BY <1>2, <2>1
<1>. QED BY <1>3, <1>4

(* A configuration that can be emitted sends no address to two peers.      *)
THEOREM HubTableIsUnambiguous == Spec => []HubTableUnambiguous
<1>1. Claims!Exclusive => HubTableUnambiguous
  <2>. SUFFICES ASSUME Claims!Exclusive, NEW i \in Interfaces, Exportable(i),
                       NEW p \in ActiveOn(i), NEW q \in ActiveOn(i), p # q
                PROVE  HubAllowedIps(p) \cap HubAllowedIps(q) = {}
    BY DEF HubTableUnambiguous
  <2>1. /\ peers[p].ip # peers[q].ip
        /\ Covered(peers[p].routed) \cap Covered(peers[q].routed) = {}
    BY ActiveApart
  <2>2. /\ peers[p].ip \notin Covered(peers[q].routed)
        /\ peers[q].ip \notin Covered(peers[p].routed)
    BY DEF Exportable, RoutingWellFormed, AvoidsPool, PeerHosts
  <2>. QED BY <2>1, <2>2 DEF HubAllowedIps
<1>. QED BY <1>1, SlotsAreExclusive, PTL
-----------------------------------------------------------------------------
(* Nodes are told apart by their names. *)

DistinctNames == \A m, n \in Nodes : nodes[m] = nodes[n] => m = n

LEMMA NamesStep ==
    Inv /\ DistinctNames /\ [Next \/ SetBack]_vars => DistinctNames'
<1>. SUFFICES ASSUME Inv, DistinctNames, [Next \/ SetBack]_vars
              PROVE  DistinctNames'
  OBVIOUS
<1>1. ASSUME NEW n \in NodeId, NEW name,
             NameFree(name) \/ (n \in Nodes /\ name = nodes[n]),
             nodes' = [nodes EXCEPT ![n] = name]
      PROVE  DistinctNames'
  BY <1>1 DEF NameFree, DistinctNames, Nodes, Inv, RowsOK
<1>2. ASSUME \A n \in NodeId : nodes'[n] \in {nodes[n], NoRow}
      PROVE  DistinctNames'
  BY <1>2 DEF DistinctNames, Nodes
<1>3. ASSUME NEW i \in IfaceId, NEW n \in NodeId, NEW name \in NodeName,
             NEW p \in PeerId, NEW request, NEW expiry, NEW role, NEW routed,
             AddPeer(i, n, name, p, request, expiry, role, routed)
      PROVE  DistinctNames'
  <2>1. AttachableAs(n, name) /\ nodes' = [nodes EXCEPT ![n] = name]
    BY <1>3 DEF AddPeer
  <2>2. NameFree(name) \/ (n \in Nodes /\ name = nodes[n])
    BY <2>1 DEF AttachableAs
  <2>. QED BY <1>1, <2>1, <2>2
<1>4. ASSUME NEW n \in NodeId, NEW name \in NodeName,
             AddNode(n, name) \/ UpdateNode(n, name)
      PROVE  DistinctNames'
  <2>1. NameFree(name) /\ nodes' = [nodes EXCEPT ![n] = name]
    BY <1>4 DEF AddNode, UpdateNode
  <2>. QED BY <1>1, <2>1
<1>5. CASE \/ \E n \in NodeId, force \in BOOLEAN : RemoveNode(n, force)
           \/ PruneNodes
  BY <1>2, <1>5 DEF RemoveNode, PruneNodes, DeleteNodes
<1>6. CASE UNCHANGED nodes
  BY <1>2, <1>6
<1>7. CASE \/ InterfaceStep \/ \E p \in PeerId : Expire(p) \/ StepBack(p)
           \/ \E p \in PeerId : RemovePeer(p) \/ HardRemovePeer(p)
           \/ \E i \in IfaceId : PrunePeers(i)
           \/ \E p \in PeerId, ip \in Requests \cup {Unset},
                 expiry \in {"never", "pending", Unset}, role \in Role \cup {Unset},
                 routed \in Routed \cup {Unset} :
                    UpdatePeer(p, ip, expiry, role, routed)
  <2>1. CASE InterfaceStep
    BY <1>6, <2>1 DEF InterfaceStep, AddInterface, UpdateInterface, RemoveInterface
  <2>2. CASE \E p \in PeerId : \/ Expire(p) \/ StepBack(p)
                             \/ RemovePeer(p) \/ HardRemovePeer(p)
    BY <1>6, <2>2 DEF Expire, StepBack, RemovePeer, HardRemovePeer
  <2>3. CASE \E i \in IfaceId : PrunePeers(i)
    BY <1>6, <2>3 DEF PrunePeers
  <2>4. ASSUME NEW p \in PeerId, NEW ip, NEW expiry, NEW role, NEW routed,
               UpdatePeer(p, ip, expiry, role, routed)
        PROVE  UNCHANGED nodes
    BY <2>4 DEF UpdatePeer
  <2>. QED BY <1>6, <1>7, <2>1, <2>2, <2>3, <2>4
<1>. QED BY <1>3, <1>4, <1>5, <1>6, <1>7
        DEF Next, NodeStep, PeerStep, SetBack, vars

(* No two nodes have one name: add_node, update_node and the node that     *)
(* add_peer makes check it, and nothing else writes a name.                *)
THEOREM NamesAreDistinct == SpecAnyClock => []DistinctNames
<1>1. Init => DistinctNames
  BY DEF Init, DistinctNames, Nodes
<1>. QED BY <1>1, Invariance, NamesStep, PTL DEF SpecAnyClock

(* Commands lead to a backup that restore refuses only through networks: a *)
(* pool moved over routed ones, away from a deleted peer or, its interface *)
(* being misnamed, away from any peer, or a prefix routed twice.           *)
THEOREM BackupsRefusedOnlyForNetworks == Spec => []RefusedOnlyForNetworks
<1>1. Inv /\ RolesCoherent /\ NonDeletedInPool /\ Claims!Exclusive
         /\ DistinctNames => RefusedOnlyForNetworks
  <2>. SUFFICES ASSUME Inv, RolesCoherent, NonDeletedInPool, Claims!Exclusive,
                       DistinctNames, NEW i \in Interfaces, NetworksAgree(i)
                PROVE  Accepted(i)
    BY DEF RefusedOnlyForNetworks
  <2>1. ASSUME NEW p \in PeersOn(i)
        PROVE  /\ peers[p].ip \in PeerHosts(ifaces[i].pool)
               /\ RoutingWellFormed(peers[p].role, peers[p].routed, ifaces[i].pool)
               /\ peers[p].ip \notin Covered(peers[p].routed)
    <3>1. /\ p \in Peers /\ peers[p].iface = i
          /\ AvoidsPool(peers[p].routed, ifaces[i].pool)
      BY DEF PeersOn, NetworksAgree
    <3>2. peers[p].ip \in PeerHosts(ifaces[i].pool)
      BY <3>1 DEF NetworksAgree, NonDeletedInPool, InPool
    <3>3. RoutingWellFormed(peers[p].role, peers[p].routed, ifaces[i].pool)
      BY <3>1 DEF RoutingWellFormed, RolesCoherent
    <3>4. peers[p].ip \notin Covered(peers[p].routed)
      BY <3>1, <3>2 DEF AvoidsPool, PeerHosts
    <3>. QED BY <3>2, <3>3, <3>4
  <2>2. ASSUME NEW p \in ActiveOn(i), NEW q \in ActiveOn(i) \ {p}
        PROVE  /\ peers[p].ip # peers[q].ip
               /\ nodes[peers[p].node] # nodes[peers[q].node]
               /\ Covered(peers[p].routed) \cap Covered(peers[q].routed) = {}
    <3>1. /\ peers[p].ip # peers[q].ip /\ peers[p].node # peers[q].node
          /\ Covered(peers[p].routed) \cap Covered(peers[q].routed) = {}
      BY ActiveApart
    <3>2. peers[p].node \in Nodes /\ peers[q].node \in Nodes
      BY DEF Inv, NoOrphanPeers, ActiveOn, PeersOn
    <3>. QED BY <3>1, <3>2 DEF DistinctNames
  <2>. QED BY <2>1, <2>2 DEF NetworksAgree, Accepted
<1>. QED BY <1>1, ForwardClock, Invariance, RolesInvariance, NamedPoolsHold,
            NamesAreDistinct, SlotsAreExclusive, PTL
-----------------------------------------------------------------------------
(* The unique indexes hold, whatever the clock does. *)

SameSlot(q) ==
    peers'[q] # NoRow =>
        /\ peers[q] # NoRow
        /\ peers'[q].iface = peers[q].iface /\ peers'[q].ip = peers[q].ip
        /\ peers'[q].node = peers[q].node
        /\ peers[q].deleted => peers'[q].deleted

LEMMA IndexKept ==
    ASSUME Inv', IndexAccepts(peers), \A q \in PeerId : SameSlot(q)
    PROVE  IndexAccepts(peers')
<1>1. \A q \in PeerId : peers'[q] # NoRow => peers'[q].deleted \in BOOLEAN
  BY DEF Inv, RowsOK, PeerRow
<1>. QED BY <1>1 DEF IndexAccepts, SameSlot

LEMMA IndexStep ==
    Inv /\ IndexAccepts(peers) /\ [Next \/ SetBack]_vars => IndexAccepts(peers)'
<1>. SUFFICES ASSUME Inv, IndexAccepts(peers), [Next \/ SetBack]_vars
              PROVE  IndexAccepts(peers')
  OBVIOUS
<1>1. Inv'
  BY StepInv
<1>2. ASSUME \A q \in PeerId : SameSlot(q) PROVE IndexAccepts(peers')
  BY <1>1, <1>2, IndexKept
<1>3. CASE InterfaceStep \/ NodeStep
  <2>1. \A q \in PeerId : peers'[q] \in {peers[q], NoRow}
    BY <1>3 DEF InterfaceStep, AddInterface, UpdateInterface, RemoveInterface,
                NodeStep, AddNode, UpdateNode, RemoveNode, PruneNodes, DeleteNodes
  <2>. QED BY <1>2, <2>1 DEF SameSlot
<1>4. ASSUME NEW p \in PeerId, RemovePeer(p) PROVE IndexAccepts(peers')
  <2>1. {p} \in SUBSET Peers /\ peers' = SoftDelete({p})
    BY <1>4 DEF RemovePeer
  <2>2. \A q \in PeerId : SameSlot(q)
    BY <2>1, SoftDeleteRows, ZenonT(30) DEF SameSlot, Marked, Inv, Peers
  <2>. QED BY <1>2, <2>2
<1>5. ASSUME NEW p \in PeerId, HardRemovePeer(p) PROVE IndexAccepts(peers')
  <2>1. \A q \in PeerId : peers'[q] \in {peers[q], NoRow}
    BY <1>5 DEF HardRemovePeer, Inv, RowsOK
  <2>. QED BY <1>2, <2>1 DEF SameSlot
<1>6. ASSUME NEW i \in IfaceId, PrunePeers(i) PROVE IndexAccepts(peers')
  <2>1. \A q \in PeerId : peers'[q] \in {peers[q], NoRow}
    BY <1>6 DEF PrunePeers
  <2>. QED BY <1>2, <2>1 DEF SameSlot
<1>7. ASSUME NEW p \in PeerId, Expire(p) \/ StepBack(p) PROVE IndexAccepts(peers')
  <2>1. \A q \in PeerId : SameSlot(q)
    BY <1>7 DEF Expire, StepBack, SameSlot, Inv, RowsOK, Peers, PeerRow
  <2>. QED BY <1>2, <2>1
<1>8. CASE \E i \in IfaceId, n \in NodeId, name \in NodeName, p \in PeerId,
              request \in Requests \cup {Unset}, expiry \in {"never", "pending"},
              role \in Role, routed \in Routed :
                 AddPeer(i, n, name, p, request, expiry, role, routed)
  BY <1>8 DEF AddPeer
<1>9. CASE \E p \in PeerId, ip \in Requests \cup {Unset},
              expiry \in {"never", "pending", Unset}, role \in Role \cup {Unset},
              routed \in Routed \cup {Unset} : UpdatePeer(p, ip, expiry, role, routed)
  BY <1>9 DEF UpdatePeer
<1>10. CASE UNCHANGED vars
  BY <1>10 DEF vars
<1>. QED BY <1>3, <1>4, <1>5, <1>6, <1>7, <1>8, <1>9, <1>10
        DEF Next, PeerStep, SetBack

(* On one interface no address and no node has two peers that are not      *)
(* soft-deleted, even when the clock revives an expired one.               *)
THEOREM PeersStayIndexed == SpecAnyClock => []IndexAccepts(peers)
<1>1. Init => IndexAccepts(peers)
  BY DEF Init, IndexAccepts
<1>. QED BY <1>1, Invariance, IndexStep, PTL DEF SpecAnyClock

LEMMA ReclamationFrees ==
    ASSUME Inv, IndexAccepts(peers) PROVE ReclamationFreesSlots
<1>. SUFFICES ASSUME NEW i \in Interfaces, NEW n \in NodeId,
                     NEW p \in PeerId \ Peers, NEW ip \in PeerHosts(ifaces[i].pool),
                     NEW row, row = [iface |-> i, node |-> n, ip |-> ip,
                                     deleted |-> FALSE, expiry |-> "never",
                                     role |-> "endpoint", routed |-> {}],
                     Activatable(p, row)
              PROVE  IndexAccepts([SoftDelete(Blocking(i, {ip}, {n}))
                                      EXCEPT ![p] = row])
  BY DEF ReclamationFreesSlots
<1>. DEFINE S     == Blocking(i, {ip}, {n})
            table == [SoftDelete(S) EXCEPT ![p] = row]
<1>1. S \in SUBSET Peers
  BY BlockingRows
<1>2. row.iface = i /\ row.ip = ip /\ row.node = n /\ ~row.deleted
  OBVIOUS
<1>3. table[p] = row /\ \A q \in PeerId \ {p} : table[q] = SoftDelete(S)[q]
  BY DEF SoftDelete
<1>. HIDE DEF table
<1>4. ASSUME NEW q \in PeerId \ {p}, table[q] # NoRow, ~table[q].deleted
      PROVE  /\ q \in Peers /\ ~peers[q].deleted /\ q \notin S
             /\ table[q].iface = peers[q].iface
             /\ table[q].ip = peers[q].ip /\ table[q].node = peers[q].node
  <2>1. q \in Peers
    BY <1>1, <1>3, <1>4, SoftDeleteRows DEF Inv, Peers
  <2>2. Marked(table[q], peers[q], q \in S)
    BY <1>1, <1>3, <2>1, SoftDeleteRows DEF Inv
  <2>3. peers[q].deleted \in BOOLEAN
    BY <2>1 DEF Inv, RowsOK, Peers, PeerRow
  <2>. HIDE DEF S
  <2>. QED BY <1>4, <2>1, <2>2, <2>3 DEF Marked
<1>5. ASSUME NEW q \in PeerId \ {p}, table[q] # NoRow, ~table[q].deleted,
             table[q].iface = i
      PROVE  table[q].ip # ip /\ table[q].node # n
  <2>1. q \in NonDeleted(i)
    BY <1>4, <1>5 DEF NonDeleted, PeersOn
  <2>2. CASE IsActive(peers[q])
    <3>1. q \in ActiveOn(row.iface) \ {p}
      BY <1>2, <2>1, <2>2 DEF NonDeleted, ActiveOn
    <3>. QED BY <1>2, <1>4, <1>5, <3>1 DEF Activatable
  <2>3. CASE ~IsActive(peers[q])
    BY <1>4, <1>5, <2>1, <2>3 DEF Blocking
  <2>. QED BY <2>2, <2>3
<1>. SUFFICES ASSUME NEW a \in PeerId, NEW b \in PeerId, a # b,
                     table[a] # NoRow, table[b] # NoRow,
                     ~table[a].deleted, ~table[b].deleted,
                     table[a].iface = table[b].iface
              PROVE  table[a].ip # table[b].ip /\ table[a].node # table[b].node
  BY DEF IndexAccepts, table
<1>6. CASE a # p /\ b # p
  BY <1>4, <1>6 DEF IndexAccepts, Peers
<1>7. CASE a = p \/ b = p
  BY <1>2, <1>3, <1>5, <1>7
<1>. QED BY <1>6, <1>7

(* What the checks of add_peer let through, the indexes accept. *)
THEOREM ReclamationIsEnough == SpecAnyClock => []ReclamationFreesSlots
BY ReclamationFrees, Invariance, PeersStayIndexed, PTL

-----------------------------------------------------------------------------
(* Automatic allocation. *)

LEMMA LowestExists ==
    ASSUME NEW S \in SUBSET Nat, S # {}
    PROVE  Lowest(S) # {} /\ Lowest(S) \subseteq S
<1>1. PICK a \in S : \A b \in S : ~(<<b, a>> \in OpToRel(<, Nat))
  BY WFMin, NatLessThanWellFounded
<1>2. \A b \in S : ~(b < a)
  BY <1>1 DEF OpToRel
<1>3. \A b \in S : a <= b
  BY <1>2
<1>. QED BY <1>3 DEF Lowest

(* The addresses the two passes of get_next_available_ip look at. *)
LEMMA Passes ==
    ASSUME NEW pool \in [first : Nat, last : Nat], pool.first <= pool.last,
           NEW active \in SUBSET Nat, active \subseteq Network(pool)
    PROVE  LET used == Used(pool, active)
               free == PeerHosts(pool) \ active
           IN  /\ NextFree(pool, used) \subseteq free
               /\ pool.last - pool.first # 1 =>
                     (NextFree(pool, used) = {} <=> free = {})
<1>. DEFINE used  == Used(pool, active)
            free  == PeerHosts(pool) \ active
            above == {a \in 0 .. (pool.last - 1) : \A u \in used : u < a}
            below == (UNION {(pool.first + 1) .. (u - 1) : u \in used}) \ used
<1>1. pool.first \in Nat /\ pool.last \in Nat /\ pool.first <= pool.last
  OBVIOUS
<1>2. used \subseteq Network(pool) /\ used \subseteq Nat
  <2>1. Gateway(pool) \subseteq Network(pool)
    BY <1>1 DEF Gateway, Network
  <2>2. Network(pool) \subseteq Nat
    BY <1>1 DEF Network
  <2>. QED BY <2>1, <2>2 DEF Used
<1>3. CASE pool.first = pool.last
  <2>1. Network(pool) = {pool.first} /\ free = {pool.first} \ active
        /\ used = active
    BY <1>1, <1>3 DEF Network, PeerHosts, Edges, Gateway, Used
  <2>2. CASE used = {}
    BY <1>1, <2>1, <2>2 DEF NextFree, Lowest
  <2>3. CASE used # {}
    <3>1. used = {pool.first} /\ free = {}
      BY <1>2, <2>1, <2>3
    <3>2. above = {} /\ below = {}
      BY <1>1, <1>3, <3>1
    <3>. QED BY <2>3, <3>1, <3>2 DEF NextFree, Lowest
  <2>. QED BY <2>2, <2>3
<1>4. CASE pool.first < pool.last
  <2>1. pool.first + 1 \in used
    BY <1>4 DEF Used, Gateway
  <2>2. above \subseteq Nat /\ below \subseteq Nat
    BY <1>1, <1>2
  <2>3. NextFree(pool, used) = IF above # {} THEN Lowest(above) ELSE Lowest(below)
    BY <2>1 DEF NextFree
  <2>4. ASSUME NEW a \in above PROVE a \in free
    BY <1>1, <1>4, <2>1, <2>4 DEF PeerHosts, Network, Edges, Gateway, Used
  <2>5. ASSUME NEW a \in below PROVE a \in free
    <3>1. PICK u \in used : a \in (pool.first + 1) .. (u - 1)
      OBVIOUS
    <3>2. u \in Nat /\ pool.first <= u /\ u <= pool.last
      BY <1>1, <1>2, <3>1 DEF Network
    <3>3. a \in Nat /\ pool.first < a /\ a < pool.last /\ a \notin used
      BY <1>1, <3>1, <3>2
    <3>. QED BY <1>1, <3>3 DEF PeerHosts, Network, Edges, Used
  <2>6. ASSUME pool.last - pool.first # 1, NEW a \in free
        PROVE  a \in above \cup below
    <3>1. /\ a \in Nat /\ pool.first < a /\ a < pool.last
          /\ a \notin used
      BY <1>1, <1>4, <2>6 DEF PeerHosts, Network, Edges, Used
    <3>2. CASE \A u \in used : u < a
      BY <1>1, <3>1, <3>2
    <3>3. CASE \E u \in used : ~(u < a)
      <4>1. PICK u \in used : ~(u < a)
        BY <3>3
      <4>2. u \in Nat /\ a \in (pool.first + 1) .. (u - 1)
        BY <1>1, <1>2, <3>1, <4>1
      <4>. QED BY <3>1, <4>1, <4>2
    <3>. QED BY <3>2, <3>3
  <2>. HIDE DEF above, below, used, free
  <2>7. NextFree(pool, used) \subseteq free
    BY <2>3, <2>4, <2>5 DEF Lowest
  <2>8. NextFree(pool, used) = {} => above = {} /\ below = {}
    BY <2>2, <2>3, LowestExists
  <2>. QED BY <2>6, <2>7, <2>8 DEF used, free
<1>. QED BY <1>1, <1>3, <1>4

LEMMA AllocationAgrees == Inv => AllocationAgreesWithActivation
<1>. SUFFICES ASSUME Inv, NEW i \in Interfaces, \A p \in ActiveOn(i) : InPool(p)
              PROVE  LET pool == ifaces[i].pool
                         free == PeerHosts(pool) \ ActiveIps(ActiveOn(i))
                         auto == Allocation(i, Unset, {})
                     IN  /\ auto \subseteq free
                         /\ pool.last - pool.first # 1
                              => (auto = {} <=> free = {})
  BY DEF AllocationAgreesWithActivation
<1>. DEFINE pool   == ifaces[i].pool
            active == ActiveIps(ActiveOn(i))
<1>1. pool \in [first : Nat, last : Nat] /\ pool.first <= pool.last
  BY ConstantsAssumption DEF Inv, RowsOK, Interfaces, IfaceRow
<1>2. active \subseteq Nat /\ active \subseteq Network(pool)
  BY DEF ActiveIps, ActiveOn, PeersOn, Peers, IsActive, InPool,
         PeerHosts, Inv, RowsOK, PeerRow
<1>3. Allocation(i, Unset, {}) = NextFree(pool, Used(pool, active))
  BY DEF Allocation
<1>. HIDE DEF pool, active
<1>4. /\ NextFree(pool, Used(pool, active)) \subseteq PeerHosts(pool) \ active
      /\ pool.last - pool.first # 1 =>
            (NextFree(pool, Used(pool, active)) = {}
               <=> PeerHosts(pool) \ active = {})
  BY <1>1, <1>2, Passes
<1>. QED BY <1>3, <1>4 DEF pool, active

(* Where the active peers are in the pool, automatic allocation finds a    *)
(* free host address whenever there is one, in any pool but a /31, and     *)
(* never another.                                                          *)
THEOREM AllocationIsComplete == SpecAnyClock => []AllocationAgreesWithActivation
BY AllocationAgrees, Invariance, PTL
-----------------------------------------------------------------------------
(* Commands stay on one interface. *)

ChangesOn(i) ==
    \A p \in PeerId : peers'[p] # peers[p] => p \in PeersOn(i) \cup PeersOn(i)'

LEMMA ReclaimedOn ==
    ASSUME NEW i, NEW ips, NEW nodeIds, NEW q \in PeerId,
           SoftDelete(Blocking(i, ips, nodeIds))[q] # peers[q]
    PROVE  q \in PeersOn(i)
BY DEF SoftDelete, Blocking, NonDeleted

LEMMA IsolatedStep ==
    ASSUME MaxIfaces > 0, Inv, Next \/ SetBack, Nodes \subseteq Nodes'
    PROVE  \E i \in IfaceId : ChangesOn(i)
<1>1. ASSUME UNCHANGED peers PROVE \E i \in IfaceId : ChangesOn(i)
  <2>1. 1 \in IfaceId
    BY ConstantsAssumption DEF IfaceId
  <2>. QED BY <1>1, <2>1 DEF ChangesOn
<1>2. CASE InterfaceStep
  <2>1. ASSUME NEW i \in IfaceId, NEW force, RemoveInterface(i, force)
        PROVE  ChangesOn(i)
    BY <2>1 DEF RemoveInterface, ChangesOn
  <2>2. CASE UNCHANGED peers
    BY <1>1, <2>2
  <2>. QED BY <1>2, <2>1, <2>2 DEF InterfaceStep, AddInterface, UpdateInterface
<1>3. CASE NodeStep
  <2>1. ASSUME NEW n \in NodeId, NEW force, RemoveNode(n, force) PROVE FALSE
    BY <2>1 DEF RemoveNode, DeleteNodes, Nodes
  <2>2. CASE PruneNodes
    BY <2>2 DEF PruneNodes, DeleteNodes, OrphanNodes, Nodes
  <2>3. CASE UNCHANGED peers
    BY <1>1, <2>3
  <2>. QED BY <1>3, <2>1, <2>2, <2>3 DEF NodeStep, AddNode, UpdateNode
<1>4. ASSUME NEW i \in IfaceId, NEW n \in NodeId, NEW name \in NodeName,
             NEW p \in PeerId, NEW request \in Requests \cup {Unset},
             NEW expiry \in {"never", "pending"}, NEW role \in Role,
             NEW routed \in Routed,
             AddPeer(i, n, name, p, request, expiry, role, routed)
      PROVE  ChangesOn(i)
  <2>1. PICK ip \in Allocation(i, request, {}) :
           LET row == [iface |-> i, node |-> n, ip |-> ip, deleted |-> FALSE,
                       expiry |-> expiry, role |-> role, routed |-> routed]
           IN  peers' = [SoftDelete(Blocking(i, {ip}, {n})) EXCEPT ![p] = row]
    BY <1>4 DEF AddPeer
  <2>2. Inv'
    BY StepInv
  <2>3. p \in PeersOn(i)'
    <3>1. peers'[p].iface = i
      BY <2>1 DEF SoftDelete
    <3>2. peers'[p] \in PeerRow
      <4>1. ip \in Nat
        BY <1>4, AllocationType DEF Inv, AddPeer
      <4>. QED BY <2>1, <4>1 DEF SoftDelete, PeerRow, Expiry
    <3>3. p \in Peers'
      BY <3>2, NoRowAssumption DEF Peers
    <3>. QED BY <3>1, <3>3 DEF PeersOn
  <2>4. ASSUME NEW q \in PeerId \ {p}, peers'[q] # peers[q] PROVE q \in PeersOn(i)
    BY <2>1, <2>4, ReclaimedOn DEF SoftDelete
  <2>. QED BY <2>3, <2>4 DEF ChangesOn
<1>5. ASSUME NEW p \in PeerId, NEW ip, NEW expiry, NEW role, NEW routed,
             UpdatePeer(p, ip, expiry, role, routed)
      PROVE  peers[p].iface \in IfaceId /\ ChangesOn(peers[p].iface)
  <2>. DEFINE i == peers[p].iface
              S == ReclaimedForUpdate(i, ip)
  <2>1. /\ p \in Peers
        /\ \A q \in PeerId \ {p} : peers'[q] = SoftDelete(S)[q]
    BY <1>5 DEF UpdatePeer, SoftDelete
  <2>2. S \subseteq PeersOn(i)
    BY DEF ReclaimedForUpdate, Blocking, NonDeleted
  <2>3. p \in PeersOn(i) /\ i \in IfaceId
    BY <2>1 DEF PeersOn, Inv, RowsOK, Peers, PeerRow
  <2>. HIDE DEF S, i
  <2>4. \A q \in PeerId \ {p} : peers'[q] # peers[q] => q \in PeersOn(i)
    BY <2>1, <2>2 DEF SoftDelete
  <2>. QED BY <2>3, <2>4 DEF ChangesOn, i
<1>6. ASSUME NEW p \in PeerId,
             RemovePeer(p) \/ HardRemovePeer(p) \/ Expire(p) \/ StepBack(p)
      PROVE  peers[p].iface \in IfaceId /\ ChangesOn(peers[p].iface)
  <2>1. p \in Peers /\ \A q \in PeerId \ {p} : peers'[q] = peers[q]
    BY <1>6 DEF RemovePeer, HardRemovePeer, Expire, StepBack, SoftDelete, Inv, RowsOK
  <2>. QED BY <2>1 DEF ChangesOn, PeersOn, Inv, RowsOK, Peers, PeerRow
<1>7. ASSUME NEW i \in IfaceId, PrunePeers(i) PROVE ChangesOn(i)
  BY <1>7 DEF PrunePeers, Inactive, ChangesOn
<1>8. CASE PeerStep
  BY <1>4, <1>5, <1>6, <1>7, <1>8, ZenonT(30) DEF PeerStep
<1>. QED BY <1>2, <1>3, <1>6, <1>8 DEF Next, SetBack

(* A command that removes no node changes the peers of one interface only. *)
THEOREM InterfacesStayApart ==
    ASSUME MaxIfaces > 0 PROVE SpecAnyClock => InterfacesIsolated
<1>1. Inv /\ [Next \/ SetBack]_vars =>
         [Nodes \subseteq Nodes' =>
             \E i \in IfaceId : \A p \in PeerId :
                peers'[p] # peers[p] => p \in PeersOn(i) \cup PeersOn(i)']_vars
  BY IsolatedStep DEF ChangesOn
<1>. QED BY <1>1, Invariance, PTL DEF SpecAnyClock, InterfacesIsolated

-----------------------------------------------------------------------------
(* How far ClearExpiresReactivates is from the code.                       *)

LEMMA ClearedRow ==
    ASSUME Inv, NEW p \in Peers, NEW ip \in Requests \cup {Unset},
           NEW role \in Role \cup {Unset}, NEW routed \in Routed \cup {Unset},
           ~peers[p].deleted, peers[p].expiry = "passed",
           UpdatePeer(p, ip, "never", role, routed)
    PROVE  IsActive(peers'[p]) <=> ip # peers[p].ip
<1>. DEFINE before  == peers[p]
            S       == ReclaimedForUpdate(before.iface, ip)
            table   == SoftDelete(S)
            checked == Revised(before, ip, "never", role, routed)
            stored  == Revised(table[p], ip, "never", role, routed)
<1>1. p \in PeerId /\ before \in PeerRow /\ before.ip # Unset
  BY UnsetAssumption DEF Inv, RowsOK, Peers, PeerRow
<1>2. peers'[p] = stored
  BY <1>1 DEF UpdatePeer, SoftDelete
<1>3. /\ stored \in PeerRow /\ stored.expiry = checked.expiry
      /\ stored.deleted = (before.deleted \/ p \in S)
      /\ checked.expiry = IF "never" = Unset THEN before.expiry ELSE "never"
  BY <1>1, UpdatedRow
<1>4. "never" # Unset
  BY UnsetAssumption DEF Expiry
<1>5. p \in S <=> ip = before.ip
  BY <1>1 DEF ReclaimedForUpdate, Blocking, NonDeleted, PeersOn, IsActive
<1>. HIDE DEF S, checked, stored
<1>6. stored # NoRow
  BY <1>3, NoRowAssumption
<1>7. stored.deleted <=> ip = before.ip
  BY <1>3, <1>5
<1>. QED BY <1>2, <1>3, <1>4, <1>6, <1>7 DEF IsActive

(* Clearing the expiry of an expired peer reactivates it unless its own    *)
(* address is given with the option, whatever else is: that is the only    *)
(* exception to the promise of docs/cli.md, and it always is one.          *)
THEOREM ClearingRevivesUnlessOwnAddress ==
    SpecAnyClock =>
       [][\A p \in PeerId, ip \in Requests \cup {Unset}, role \in Role \cup {Unset},
             routed \in Routed \cup {Unset} :
            /\ p \in Peers /\ ~peers[p].deleted /\ peers[p].expiry = "passed"
            /\ UpdatePeer(p, ip, "never", role, routed)
            => (IsActive(peers'[p]) <=> ip # peers[p].ip)]_vars
<1>1. Inv => \A p \in PeerId, ip \in Requests \cup {Unset}, role \in Role \cup {Unset},
                routed \in Routed \cup {Unset} :
               /\ p \in Peers /\ ~peers[p].deleted /\ peers[p].expiry = "passed"
               /\ UpdatePeer(p, ip, "never", role, routed)
               => (IsActive(peers'[p]) <=> ip # peers[p].ip)
  BY ClearedRow
<1>. QED BY <1>1, Invariance, PTL DEF SpecAnyClock
=============================================================================
