------------------------------ MODULE Semaphore ------------------------------
(* What a cap on concurrent work promises: at most Cap members are inside   *)
(* at once, whoever they are and in whatever order they come.               *)
EXTENDS Naturals, FiniteSets

CONSTANTS Members, Cap

VARIABLE inside

Init == inside = {}

Enter(m) ==
    /\ m \notin inside /\ Cardinality(inside) < Cap
    /\ inside' = inside \cup {m}

Leave(m) == m \in inside /\ inside' = inside \ {m}

Next == \E m \in Members : Enter(m) \/ Leave(m)

Spec == Init /\ [][Next]_inside

=============================================================================
