----------------------------- MODULE MCRegistry -----------------------------
(* A daemon with two calls, and a command line that prunes. *)
EXTENDS Registry, TLC
CONSTANTS d1, d2, o1, Daemon, Other
MCProcOf == d1 :> Daemon @@ d2 :> Daemon @@ o1 :> Other
MCNothing == {}
MCLateReap == {LateReap}
MCMixedLocks == {MixedLocks}
=============================================================================
