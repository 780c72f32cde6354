--------------------------- MODULE MCLogPipeline ---------------------------
\* Model-checking instance of LogPipeline: one output and the recorder's own
\* line are two sources that submit in any order.
EXTENDS LogPipeline

CONSTANTS stdout

OneOutput == {stdout}
=============================================================================
