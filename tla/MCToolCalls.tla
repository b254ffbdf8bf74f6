---------------------------- MODULE MCToolCalls ----------------------------
EXTENDS ToolCalls
Symmetric == Permutations(Callers) \cup Permutations(Runs) \cup Permutations(Searches)
=============================================================================
