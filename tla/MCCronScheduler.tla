--------------------------- MODULE MCCronScheduler ---------------------------
\* Model-checking instances of CronScheduler.
EXTENDS CronScheduler, TLC

CONSTANTS c1, c2

OneCaller == {c1}
TwoCallers == {c1, c2}
TwoPeriods == {1, 2}
=============================================================================
