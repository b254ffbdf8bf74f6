---------------------------- MODULE MCFolderWalk ----------------------------
EXTENDS FolderWalk, TLC
Symmetric == Permutations(Files) \cup Permutations(Contents)
=============================================================================
