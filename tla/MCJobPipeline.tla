--------------------------- MODULE MCJobPipeline ---------------------------
\* Instances of JobPipeline for TLC.
EXTENDS JobPipeline
=============================================================================
