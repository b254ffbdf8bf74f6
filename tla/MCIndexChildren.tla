--------------------------- MODULE MCIndexChildren ---------------------------
(* Two keys on one root (same tree, different options) and one on another.   *)
EXTENDS IndexChildren, TLC

CONSTANTS A, B, ka1, ka2, kb, e1

MCRoots == {A, B}
MCKeys == {ka1, ka2, kb}
MCRootOf == (ka1 :> A) @@ (ka2 :> A) @@ (kb :> B)
MCEditRoot == e1 :> A
MCNoEditRoot == [e \in {} |-> A]
MCRequestSymmetry == Permutations(Requests)

=============================================================================
