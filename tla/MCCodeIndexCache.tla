-------------------------- MODULE MCCodeIndexCache --------------------------
(* Small instances of CodeIndexCache for TLC, and its properties.          *)
EXTENDS CodeIndexCache

\* A parked call is answered or fails; it is never parked for good.
ParkedIsServed ==
    \A c \in Callers : At(c, "parked") ~> call[c].at \in {"answered", "idle"}

\* load-gate.ts:2 "Cap on how many indexes are being read into memory at the
\* same time".
AtMostLimitActive == active <= Limit

\* folder-indexer.ts:196 "The in-process path dropped the cache before saving,
\* so a post-save throw left nothing stale": no resident index is older than
\* the one indexFolder has just saved.
FolderLeavesNothingStale ==
    \A w \in Writers :
        write[w].at = "folderCommitted" /\ resident.there => resident.ver >= write[w].ver

=============================================================================
