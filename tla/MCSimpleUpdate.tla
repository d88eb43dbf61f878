--------------------------- MODULE MCSimpleUpdate ---------------------------
EXTENDS SimpleUpdate, TLC

\* UUIDs and callers are interchangeable.
UpdateSymmetry ==
    Permutations(TaskIds) \cup Permutations(OperationIds) \cup Permutations(Callers)

ClockForward == {1}
=============================================================================
