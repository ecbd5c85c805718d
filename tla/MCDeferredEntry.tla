-------------------------- MODULE MCDeferredEntry --------------------------
EXTENDS DeferredEntry, TLC

CONSTANTS p1, p2

MCProcesses == {p1, p2}
Symmetry == Permutations(MCProcesses)

=============================================================================
