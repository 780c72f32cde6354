------------------------- MODULE MCNetworkSettings -------------------------
\* Model-checking instances of NetworkSettings.
EXTENDS NetworkSettings, TLC

CONSTANTS c1, c2, p1

OneCaller == {c1}
TwoCallers == {c1, c2}
TwoModes == {"adaptive", "disabled"}
ThreeModes == {"adaptive", "preserve", "disabled"}
AllModes == {"adaptive", "preserve", "manual", "disabled"}
TwoRoutes == {Direct, p1}

Symmetry == Permutations(Callers)
=============================================================================
