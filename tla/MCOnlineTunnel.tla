---------------------------- MODULE MCOnlineTunnel ----------------------------
\* Model-checking instance of OnlineTunnel.
EXTENDS OnlineTunnel, TLC

CallerSymmetry == Permutations(Callers)
=============================================================================
