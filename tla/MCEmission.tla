----------------------------- MODULE MCEmission -----------------------------
(* Small instances of Emission for TLC. *)
EXTENDS Emission, TLC

Slash29 == [first |-> 0, last |-> 7]
Slash28 == [first |-> 0, last |-> 15]

(* A site may route one half of 8..11, or list a half and the whole. *)
Low    == 8 .. 9
High   == 10 .. 11
Whole  == 8 .. 11
Beyond == 16 .. 17

NoNumericNames == [name \in {} |-> 0]
OnePool     == {Slash29}
GrowingPool == {Slash29, Slash28}
SiteLans    == {{Low}, {Beyond}, {High, Whole}}
WideHub     == {{Whole}}

Symmetry == Permutations(PeerId) \cup Permutations(NodeId)
              \cup Permutations(NodeName)
=============================================================================
