------------------------------- MODULE MCRefs -------------------------------
(* Small instances of Refs for TLC. *)
EXTENDS Refs, TLC

(* Ids are given as digits; an interface may also be called "2". *)
Digits  == "1" :> 1 @@ "2" :> 2

(* A /29, and the /30 that is its upper half and has the last of its hosts.*)
TwoPools == {[first |-> 0, last |-> 7], [first |-> 4, last |-> 7]}
NoLans  == {}

Symmetry == Permutations(PeerId) \cup Permutations(NodeId)
              \cup Permutations(NodeName)
=============================================================================
