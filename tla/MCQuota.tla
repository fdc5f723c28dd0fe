------------------------------ MODULE MCQuota ------------------------------
\* Instances of Quota for TLC.
EXTENDS Quota, TLC

\* Submitters differ in nothing but their name.
SubmitterSymmetry == Permutations(Submitters)
=============================================================================
