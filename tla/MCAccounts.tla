----------------------------- MODULE MCAccounts -----------------------------
\* Instances of Accounts for TLC.
EXTENDS Accounts, TLC

CONSTANTS c1, c2

Symmetric == Permutations(Callers)
=============================================================================
