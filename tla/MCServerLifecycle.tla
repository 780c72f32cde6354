------------------------- MODULE MCServerLifecycle -------------------------
\* Model-checking instances of ServerLifecycle.
EXTENDS ServerLifecycle

CONSTANTS c1, c2, l1, l2

TwoCallers == {c1, c2}
Allocations == {l1, l2}
Nobody == {}
First == {c1}
Second == {c2}
=============================================================================
