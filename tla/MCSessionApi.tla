---------------------------- MODULE MCSessionApi ----------------------------
EXTENDS SessionApi, TLC

ApiSymmetry == Permutations(SessionIds) \cup Permutations(Requests)

ClockForward == {1}

\* The clock is also set back, as a time synchronisation may do.
ClockAdjusted == {-1, 1}

Has(role) == [group |-> "none", privilege |-> role]

\* Created an Operator, then patched: the groups still say what it was.
Demoted == [group |-> "Operator", privilege |-> "ReadOnly"]

\* root administers; the other user is one of those given.
RootAnd(others) ==
    {[u \in Users |-> IF u = Root THEN Has("Administrator") ELSE other] : other \in others}

\* The other user may read, was demoted, or has no account.
RootAndReader == RootAnd({Has("ReadOnly"), Demoted, NoAccount})

\* The other user may log in but nothing else, was demoted, or has no account.
RootAndLocked == RootAnd({Has("NoAccess"), Demoted, NoAccount})
=============================================================================
