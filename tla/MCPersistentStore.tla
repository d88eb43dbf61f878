-------------------------- MODULE MCPersistentStore --------------------------
EXTENDS PersistentStore, TLC

UuidSymmetry == Permutations(Uuids)
=============================================================================
