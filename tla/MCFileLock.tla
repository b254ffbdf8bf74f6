----------------------------- MODULE MCFileLock -----------------------------
EXTENDS FileLock

MCNothing == {}
MCOverlap == {Overlap}
MCLateJudge == {LateJudge}
MCDoubleClear == {DoubleClear}

=============================================================================
