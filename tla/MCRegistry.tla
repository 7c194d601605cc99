----------------------------- MODULE MCRegistry -----------------------------
EXTENDS RegistryAccess, TLC

\* No action or constant tells the two accounts apart.
AccountSymmetry == Permutations(Accounts)

=============================================================================
