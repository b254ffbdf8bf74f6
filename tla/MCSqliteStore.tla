--------------------------- MODULE MCSqliteStore ---------------------------
(* A daemon with two calls and another process (the hook, the CLI) with one. *)
EXTENDS SqliteStore, TLC
CONSTANTS d1, d2, o1, Daemon, Other
MCProcOf == d1 :> Daemon @@ d2 :> Daemon @@ o1 :> Other
=============================================================================
