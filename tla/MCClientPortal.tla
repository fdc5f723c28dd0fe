--------------------------- MODULE MCClientPortal ---------------------------
\* Instances of ClientPortal for TLC.
EXTENDS ClientPortal
=============================================================================
