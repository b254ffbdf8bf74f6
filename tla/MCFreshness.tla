----------------------------- MODULE MCFreshness -----------------------------
(* Three commits over two files: `two` changes one, `three` changes both,     *)
(* which is more than MaxDiff; back from `three`, one is changed and one gone. *)
EXTENDS Freshness, TLC

CONSTANTS one, two, three, f1, f2

MCTree ==
    (one   :> (f1 :> 1 @@ f2 :> Absent)) @@
    (two   :> (f1 :> 2 @@ f2 :> Absent)) @@
    (three :> (f1 :> 3 @@ f2 :> 3))
MCCallSymmetry == Permutations(Calls)

=============================================================================
