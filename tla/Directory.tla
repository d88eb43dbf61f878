------------------------------ MODULE Directory ------------------------------
(***************************************************************************)
(* What the member of a collection promises: a lookup has one instant at   *)
(* which it is decided, between the request and the answer, and then it is *)
(* true.  Found: an object of the id was there; missing: there was none.   *)
(* For the ids in "defaults" a lookup may answer with a stub instead, and  *)
(* when a call fails it is excused: the answer says nothing.               *)
(***************************************************************************)
CONSTANT Clients

VARIABLES
    ids,        \* what may be asked for
    defaults,   \* what is answered although it may not be there
    present,    \* the ids that name an object now
    phase       \* of each client: where its lookup is, and the id

vars == <<ids, defaults, present, phase>>

In(c, state) == phase[c].state = state
Goes(c, state) == phase' = [phase EXCEPT ![c].state = state]

Request(c) ==
    /\ In(c, "idle")
    /\ \E id \in ids : phase' = [phase EXCEPT ![c] = [state |-> "asked", id |-> id]]

Found(c) == In(c, "asked") /\ phase[c].id \in present /\ Goes(c, "found")
Missing(c) == In(c, "asked") /\ phase[c].id \notin present /\ Goes(c, "missing")
Stub(c) == In(c, "asked") /\ phase[c].id \in defaults /\ Goes(c, "stub")
Excuse(c) == In(c, "asked") /\ Goes(c, "excused")

Return(c) ==
    /\ phase[c].state \in {"found", "missing", "stub", "excused"}
    /\ Goes(c, "idle")

Lookup(c) == Request(c) \/ Found(c) \/ Missing(c) \/ Stub(c) \/ Excuse(c) \/ Return(c)

\* Objects come and go between the steps of the lookups.
Change == present' \in SUBSET ids /\ UNCHANGED phase

Init == \A c \in Clients : In(c, "idle")

Next ==
    /\ \/ Change
       \/ UNCHANGED present /\ \E c \in Clients : Lookup(c)
    /\ UNCHANGED <<ids, defaults>>

Spec == Init /\ [][Next]_vars
=============================================================================
