-------------------------- MODULE MCCommandCapture --------------------------
\* Model-checking instance of CommandCapture: the constants are numbers, given
\* in the cfg files.
EXTENDS CommandCapture
=============================================================================
