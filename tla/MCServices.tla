----------------------------- MODULE MCServices -----------------------------
(* What the server keeps in memory behind a lock of its own, each by itself, *)
(* and SimpleUpdate, whose handlers call two of them: a behaviour is about   *)
(* one part, and the others rest.                                            *)
EXTENDS SessionStore, SimpleUpdate, Triggers, TLC

\* Sessions, tasks, operations and triggers draw their ids from the same UUIDs;
\* SessionIds is the smallest of these sets.
UuidSymmetry == Permutations(SessionIds) \cup Permutations(Callers)

\* The clock advances, and is set back too.
ClockAdjusted == {-1, 1}

VARIABLE part   \* which one this behaviour is about

storeRests == UNCHANGED <<timeout, sessions, drawn>>
servicesVars == <<part, now, timeout, sessions, drawn, taskVars, updateVars,
                  apiVars, triggerVars>>

ServicesInit ==
    /\ part \in {"sessions", "tasks", "handlers", "triggers"}
    /\ StoreInit /\ Init /\ TriggerInit

\* Sessions are leases as long as the clock is not set back.
ServicesNext ==
    \/ /\ part = "sessions" /\ StoreNext /\ now' >= now
       /\ UNCHANGED <<part, taskVars, updateVars, apiVars, triggerVars>>
    \/ /\ part = "tasks" /\ TaskNext
       /\ storeRests /\ UNCHANGED <<part, updateVars, apiVars, triggerVars>>
    \/ /\ part = "handlers" /\ Next
       /\ storeRests /\ UNCHANGED <<part, triggerVars>>
    \/ /\ part = "triggers" /\ TriggerNext
       /\ storeRests /\ UNCHANGED <<part, now, taskVars, updateVars, apiVars>>

ServicesSpec == ServicesInit /\ [][ServicesNext]_servicesVars
=============================================================================
