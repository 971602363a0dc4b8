-------------------------------- MODULE Refs --------------------------------
(***************************************************************************)
(* How commands name rows (refs.py), how the audit log is asked about rows *)
(* that are gone (audit.py), and `peer remove', the one command that looks *)
(* its peer up on one connection and removes it on another (cli.py).       *)
(*                                                                         *)
(* A reference to a peer or a node is a hex string: here the ids of which  *)
(* it is a prefix, and whether it is a whole id.  Strings that are no      *)
(* reference, too short or not hex, are left out: they are always refused. *)
(* A lookup gives the row found as a singleton, and {} where it raises.    *)
(***************************************************************************)
EXTENDS Topology

VARIABLES
    recorded,   \* the rows audit_events speaks of, gone or not
    removal     \* a `peer remove' between its connections, or NoRow

refVars == <<vars, recorded, removal>>

PeerPrefix == [ids : (SUBSET PeerId) \ {{}}, full : {FALSE}]
PeerRef == PeerPrefix \cup {[ids |-> {p}, full |-> TRUE] : p \in PeerId}
NodeRef == [name : NodeName \cup {NoRow}, ids : SUBSET NodeId, full : {FALSE}]
              \cup [name : NodeName \cup {NoRow}, ids : {{n} : n \in NodeId},
                    full : {TRUE}]
IfaceRef == InterfaceName \cup DOMAIN NumericName

Log == [peers  : SUBSET (PeerId \X IfaceId), nodes : SUBSET NodeId,
        ifaces : SUBSET (IfaceId \X InterfaceName)]

(* peer is Unset until the second lookup. *)
Removal == [iref : IfaceRef, iface : IfaceId, peer : PeerId \cup {Unset}]

ASSUME NoRemovalAssumption == NoRow \notin Removal /\ Unset \notin PeerId
ASSUME UnsetInterfaceAssumption == Unset \notin IfaceId

-----------------------------------------------------------------------------
(* refs.py *)

Access     == {"read_public", "read_all", "read_sensitive", "export_secret",
               "mutate"}
ActiveOnly == {"read_public", "export_secret"}
Guarded    == {"read_sensitive", "export_secret"}

(* find_peers_by_id_prefix, on every interface. *)
Matching(ref, access) ==
    {p \in Peers \cap ref.ids : access \in ActiveOnly => IsActive(peers[p])}

NeedsInterface(i, access) ==
    i = Unset /\ access \in Guarded /\ Cardinality(Interfaces) > 1

OnInterface(i, S) == IF i = Unset THEN S ELSE S \cap PeersOn(i)

(* resolve_peer_ref, past resolve_interface_ref.  A match elsewhere only   *)
(* changes the error.                                                      *)
ResolvePeerFirst(ref, i, access) ==     \* fault: the first row listed wins
    LET found == OnInterface(i, Matching(ref, access))
    IN  {p \in found : \A q \in found : peers[p].ip <= peers[q].ip}

ResolvePeerElsewhere(ref, i, access) == \* fault: a match elsewhere is good
    LET anywhere == Matching(ref, access)
        here     == OnInterface(i, anywhere)
        found    == IF here = {} THEN anywhere ELSE here
    IN  {p \in found : found = {p}}

ResolvePeer(ref, i, access) ==
    LET found == OnInterface(i, Matching(ref, access))
    IN  {p \in found : found = {p} /\ ~NeedsInterface(i, access)}

(* resolve_node_ref: a name wins over the prefix of an id. *)
Named(ref)         == {n \in Nodes : nodes[n] = ref.name}
NodesMatching(ref) == Nodes \cap ref.ids
ResolveNode(ref) ==
    IF Named(ref) # {} THEN Named(ref)
    ELSE {n \in NodesMatching(ref) : NodesMatching(ref) = {n}}

-----------------------------------------------------------------------------
(* audit.py: whose events a history query lists. *)

(* list_peer_audit_history: peers that are gone are looked for in the log, *)
(* on the interface given, or on the only one there is.                    *)
LoggedOn(i) ==
    LET scope == IF i # Unset THEN {i}
                 ELSE IF Interfaces = {} THEN IfaceId ELSE Interfaces
    IN  {p \in PeerId : \E j \in scope : <<p, j>> \in recorded.peers}

PeerHistoryOfRows(ref, i) ==            \* fault: rows only
    ResolvePeer(ref, i, "read_sensitive")

PeerHistory(ref, i) ==
    LET gone == LoggedOn(i) \cap ref.ids
    IN  IF Matching(ref, "read_sensitive") # {}
        THEN ResolvePeer(ref, i, "read_sensitive")
        ELSE {p \in gone : gone = {p} /\ ~NeedsInterface(i, "read_sensitive")}

(* list_node_audit_history: a node that is gone only by its whole id. *)
NodeHistory(ref) ==
    IF Named(ref) \cup NodesMatching(ref) # {} THEN ResolveNode(ref)
    ELSE {n \in recorded.nodes : ref.full /\ n \in ref.ids}

(* list_interface_audit_history: a number is the id of one that is gone, a *)
(* name stands for all that had it; a name two live ones have is refused.  *)
InterfaceHistory(ref) ==
    LET named == {i \in Interfaces : ifaces[i].name = ref}
        gone  == {e \in recorded.ifaces :
                     IF ref \in DOMAIN NumericName THEN e[1] = NumericName[ref]
                                                   ELSE e[2] = ref}
    IN  IF ResolveInterface(ref) \cup named # {} THEN ResolveInterface(ref)
        ELSE {e[1] : e \in gone}

-----------------------------------------------------------------------------
(* Every row is stored with an event that names it, under a fresh UUID. *)

Record ==
    /\ \A p \in Peers' \ Peers : \A i \in IfaceId : <<p, i>> \notin recorded.peers
    /\ \A n \in Nodes' \ Nodes : n \notin recorded.nodes
    /\ recorded' =
         [peers  |-> recorded.peers \cup {<<p, peers'[p].iface>> : p \in Peers'},
          nodes  |-> recorded.nodes \cup Nodes',
          ifaces |-> recorded.ifaces
                        \cup {<<i, ifaces'[i].name>> : i \in Interfaces'}]

RefInit ==
    /\ Init
    /\ recorded = [peers |-> {}, nodes |-> {}, ifaces |-> {}]
    /\ removal = NoRow

(* Any other command, each in a transaction of its own. *)
Command == (Next \/ SetBack) /\ Record /\ UNCHANGED removal

(* The first connections of `peer remove -i iref': resolve_interface_ref,  *)
(* then the search on the interface it found.  That a peer found is gone   *)
(* when its interface is compared is left to the removal, which refuses it.*)
FindInterface(iref) ==
    /\ removal = NoRow
    /\ \E i \in ResolveInterface(iref) :
          removal' = [iref |-> iref, iface |-> i, peer |-> Unset]
    /\ UNCHANGED <<vars, recorded>>

FindPeerUnraised(ref) ==                \* fault: the refusal is not raised
    /\ removal # NoRow /\ removal.peer = Unset
    /\ \E p \in ResolvePeer(ref, removal.iface, "mutate") \cup {NoRow} :
          removal' = [removal EXCEPT !.peer = p]
    /\ UNCHANGED <<vars, recorded>>

FindPeer(ref) ==
    /\ removal # NoRow /\ removal.peer = Unset
    /\ removal' \in
         IF ResolvePeer(ref, removal.iface, "mutate") = {} THEN {NoRow}
         ELSE {[removal EXCEPT !.peer = p] :
                  p \in ResolvePeer(ref, removal.iface, "mutate")}
    /\ UNCHANGED <<vars, recorded>>

(* core.remove_peer, in its own transaction, resolves the interface again. *)
RemovableUnchecked ==                   \* fault: ownership was checked before
    removal.peer \in Peers /\ ResolveInterface(removal.iref) # {}

Removable ==
    /\ removal.peer \in Peers
    /\ ResolveInterface(removal.iref) = {peers[removal.peer].iface}

FinishRemoval(hard) ==
    /\ removal # NoRow /\ removal.peer # Unset
    /\ IF ~Removable THEN UNCHANGED <<vars, recorded>>
       ELSE IF hard THEN HardRemovePeer(removal.peer) /\ Record
       ELSE IF peers[removal.peer].deleted THEN UNCHANGED <<vars, recorded>>
       ELSE RemovePeer(removal.peer) /\ Record
    /\ removal' = NoRow

RefNext ==
    \/ Command
    \/ \E iref \in IfaceRef : FindInterface(iref)
    \/ \E ref \in PeerRef : FindPeer(ref)
    \/ \E hard \in BOOLEAN : FinishRemoval(hard)

RefSpec == RefInit /\ [][RefNext]_refVars

-----------------------------------------------------------------------------
(* Properties. *)

(* The types of the history and of the removal in progress. *)
RefTypeOK == recorded \in Log /\ removal \in Removal \cup {NoRow}

(* What `peer remove' removes is on the interface that its -i denoted when *)
(* the command began and denotes when the peer goes, although a number can *)
(* change its meaning in between, when an interface of that id appears or  *)
(* vanishes beside one of that name.                                       *)
RemovesWhatWasNamed ==
    [][\A p \in Peers :
          removal # NoRow /\ removal' = NoRow /\ peers'[p] # peers[p] =>
             /\ p = removal.peer /\ peers[p].iface = removal.iface
             /\ ResolveInterface(removal.iref) = {removal.iface}]_refVars

(* No command redirects a reference: a prefix that finds a peer is refused *)
(* or finds nothing before it ever finds another, on the same interface    *)
(* and for every kind of access.                                           *)
ReferencesNotRedirected ==
    [][\/ UNCHANGED <<peers, Interfaces>>      \* all that a lookup reads
       \/ \A ref \in PeerPrefix, i \in IfaceId \cup {Unset}, access \in Access :
             \A p \in ResolvePeer(ref, i, access) :
                ResolvePeer(ref, i, access)' \subseteq {p}]_vars

WholeId(id) == [name |-> NoRow, ids |-> {id}, full |-> TRUE]

(* The events of a row outlive it: by its whole id a peer's are found as   *)
(* long as its interface is there, a node's always, and an interface's     *)
(* unless a living one has that number as its name.                        *)
HistoryOutlivesRows ==
    /\ \A e \in recorded.peers :
          e[2] \in Interfaces => PeerHistory(WholeId(e[1]), e[2]) = {e[1]}
    /\ \A n \in recorded.nodes : NodeHistory(WholeId(n)) = {n}
    /\ \A e \in recorded.ifaces, ref \in DOMAIN NumericName :
          e[1] = NumericName[ref] /\ (\A i \in Interfaces : ifaces[i].name # ref)
             => InterfaceHistory(ref) = {e[1]}

(* A peer's history asked for on one interface is never that of a peer of  *)
(* another, living or gone, whatever prefix is given.                      *)
HistoryScoped ==
    \A ref \in PeerRef, i \in Interfaces :
        \A p \in PeerHistory(ref, i) : <<p, i>> \in recorded.peers
=============================================================================
