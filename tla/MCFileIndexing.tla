--------------------------- MODULE MCFileIndexing ---------------------------
EXTENDS FileIndexing, TLC

MCNothing == {}
MCTornSeed == {TornSeed}
MCLostRead == {LostRead}
MCRevert == {Revert}
MCSameTick == {SameTick}
MCMixed == {MixedOverlap}

MCCallSymmetry == Permutations(Calls)

=============================================================================
