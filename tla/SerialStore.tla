---------------------------- MODULE SerialStore ----------------------------
(***************************************************************************)
(* What the storage of one index promises: callers ask, and each call      *)
(* either takes effect as a whole at one moment or fails and changes       *)
(* nothing (storage/index-store.ts, storage/sqlite/).                      *)
(***************************************************************************)
CONSTANTS
    Callers, NoOp,
    Effect(_, _)     \* Effect(op, value): the value after op
VARIABLES
    value,     \* what a reader who opens the database now finds
    asked      \* the operation each caller is waiting for, or NoOp

Init == asked = [c \in Callers |-> NoOp]

Ask(c) == asked[c] = NoOp /\ UNCHANGED value /\ asked' = [asked EXCEPT ![c] = asked'[c]]
Succeed(c) ==
    /\ asked[c] # NoOp
    /\ value' = Effect(asked[c], value)
    /\ asked' = [asked EXCEPT ![c] = NoOp]
\* Failures, and the end of the process some of the callers live in.
Fail ==
    /\ UNCHANGED value
    /\ \A c \in Callers : asked'[c] \in {asked[c], NoOp}

Next == Fail \/ \E c \in Callers : Ask(c) \/ Succeed(c)
Spec == Init /\ [][Next]_<<value, asked>>
=============================================================================
