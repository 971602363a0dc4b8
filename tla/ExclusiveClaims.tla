--------------------------- MODULE ExclusiveClaims --------------------------
(***************************************************************************)
(* What a hub promises of the slots its peers occupy, whatever the storage *)
(* and the algorithms behind it: a resource has at most one holder, only   *)
(* one owner at a time takes resources, and it takes none that another     *)
(* holds.  Losing everything is always possible, for any set of owners.    *)
(***************************************************************************)
EXTENDS TLAPS

CONSTANTS Owner, Resource
VARIABLE holds

Holding == [Owner -> SUBSET Resource]

Init == holds = [o \in Owner |-> {}]

(* o replaces what it holds; the others keep theirs, which are disjoint.   *)
Acquire(o) ==
    /\ holds' \in Holding
    /\ \A other \in Owner \ {o} :
          /\ holds'[other] = holds[other]
          /\ holds'[o] \cap holds[other] = {}

Release ==
    /\ holds' \in Holding
    /\ \A o \in Owner : holds'[o] \in {holds[o], {}}

Next == Release \/ \E o \in Owner : Acquire(o)

Spec == Init /\ [][Next]_holds

(* No resource has two holders. *)
Exclusive ==
    \A o, other \in Owner : o # other => holds[o] \cap holds[other] = {}

(* Whatever is acquired and released, in whatever order. *)
THEOREM Exclusivity == Spec => []Exclusive
<1>1. Init => Exclusive
  BY DEF Init, Exclusive
<1>2. Exclusive /\ [Next]_holds => Exclusive'
  <2>. SUFFICES ASSUME Exclusive, [Next]_holds, NEW o \in Owner, NEW other \in Owner,
                       o # other
                PROVE  holds'[o] \cap holds'[other] = {}
    BY DEF Exclusive
  <2>1. CASE Release
    BY <2>1 DEF Release, Exclusive
  <2>2. ASSUME NEW taker \in Owner, Acquire(taker)
        PROVE  holds'[o] \cap holds'[other] = {}
    BY <2>2 DEF Acquire, Exclusive
  <2>3. CASE UNCHANGED holds
    BY <2>3 DEF Exclusive
  <2>. QED BY <2>1, <2>2, <2>3 DEF Next
<1>. QED BY <1>1, <1>2, PTL DEF Spec
=============================================================================
