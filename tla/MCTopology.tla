----------------------------- MODULE MCTopology -----------------------------
(* Small instances of Topology for TLC. *)
EXTENDS Topology, TLC

(* A /32, a /31 and a /30 of one host each, and larger pools. *)
Slash30 == [first |-> 0, last |-> 3]
Slash29 == [first |-> 0, last |-> 7]
Slash31 == [first |-> 0, last |-> 1]
Slash32 == [first |-> 0, last |-> 0]
Slash28 == [first |-> 0, last |-> 15]

(* LANs: half of 8..11 and the whole of it; the /28 covers both.           *)
LowHalf  == {8 .. 9}
Whole    == {8 .. 11}

(* No command refers to an interface by its id. *)
NoNumericNames == [name \in {} |-> 0]

(* An interface may be called "2". *)
Digits == "1" :> 1 @@ "2" :> 2

AddressPools == {Slash32, Slash31, Slash30, Slash29}
ShrunkPools  == {Slash29, Slash30}
TablePools   == {Slash32, Slash31, Slash29, Slash28}
TwoLans      == {LowHalf, Whole}
NoLans       == {}

Symmetry == Permutations(PeerId) \cup Permutations(NodeId)
              \cup Permutations(NodeName)
=============================================================================
