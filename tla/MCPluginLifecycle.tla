------------------------- MODULE MCPluginLifecycle -------------------------
EXTENDS PluginLifecycle, TLC
Symmetry == Permutations(Callers)
=============================================================================
