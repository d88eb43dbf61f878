---------------------------- MODULE SessionLease ----------------------------
(***************************************************************************)
(* What a session store promises: each id is a lease that is opened at     *)
(* most once, may end at any moment (logout, expiry, purge), and once      *)
(* ended is never honoured again; at most MaxSessions leases are open.     *)
(***************************************************************************)
EXTENDS Integers, FiniteSets

CONSTANTS SessionIds, MaxSessions

VARIABLE phase

InPhase(p) == {id \in SessionIds : phase[id] = p}

Init == phase = [id \in SessionIds |-> "unused"]

\* A new lease opens, while any number of open ones may end with it.
Open(id) ==
    /\ phase[id] = "unused"
    /\ \E ended \in SUBSET InPhase("open") :
          phase' = [i \in SessionIds |->
                       IF i = id THEN "open"
                       ELSE IF i \in ended THEN "closed" ELSE phase[i]]
    /\ Cardinality(InPhase("open")') <= MaxSessions

\* Open leases end.
End(ended) ==
    phase' = [i \in SessionIds |-> IF i \in ended THEN "closed" ELSE phase[i]]

Next == \/ \E id \in SessionIds : Open(id)
        \/ \E ended \in SUBSET InPhase("open") : End(ended)

Spec == Init /\ [][Next]_phase
=============================================================================
