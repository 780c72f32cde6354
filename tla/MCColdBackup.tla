---------------------------- MODULE MCColdBackup ----------------------------
\* Model-checking instances of ColdBackup.
EXTENDS ColdBackup, TLC

CONSTANTS k1, k2, b1, b2, part1, part2

OneCaller == {k1}
TwoCallers == {k1, k2}
OneBackup == {b1}
TwoBackups == {b1, b2}
TwoParts == {part1, part2}
AllOperations == {"create", "delete", "restore"}
OnlyCreate == {"create"}

Symmetry == Permutations(Callers) \union Permutations(Ids) \union Permutations(Parts)
=============================================================================
