----------------------------- MODULE MCDownloads ------------------------------
\* Model-checking instance of Downloads.
EXTENDS Downloads
=============================================================================
