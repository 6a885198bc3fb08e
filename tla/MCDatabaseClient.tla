-------------------------- MODULE MCDatabaseClient --------------------------
EXTENDS DatabaseClient, TLC
Symmetry == Permutations(Request) \union Permutations(Tx)
=============================================================================
