------------------------------ MODULE Triggers ------------------------------
(***************************************************************************)
(* The telemetry triggers (api/redfish/telemetry_service.rs): a list of    *)
(* JSON documents under one lock, kept as the clients wrote them.  PATCH   *)
(* copies every member of its body, "Id" included, and it is by "Id" that  *)
(* the other handlers find a trigger.  What else is in a trigger nothing   *)
(* depends on: a trigger is its Id here.                                   *)
(***************************************************************************)
EXTENDS Naturals, Sequences, FiniteSets

CONSTANTS
    TriggerIds,     \* the texts an Id may be, the UUIDs among them
    NoText          \* an Id that is not a text

ASSUME TriggerAssumption == NoText \notin TriggerIds

VARIABLES
    triggers,       \* the list: the Id of each trigger
    used,           \* the texts that have been an Id so far
    kept,           \* history: the ids created, and neither renamed nor deleted
    given,          \* history: the ids PATCH gave to another trigger
    removed         \* history: the ids deleted, and not given since

triggerVars == <<triggers, used, kept, given, removed>>

\* Where triggers with the id are in the list, and the first of these places.
With(id) == {i \in DOMAIN triggers : triggers[i] = id}

Found(id) == {i \in With(id) : \A j \in With(id) : i <= j}

-----------------------------------------------------------------------------
\* POST: a UUID nobody has used.
create_trigger(id) ==
    /\ id \notin used
    /\ triggers' = Append(triggers, id)
    /\ used' = used \cup {id}
    /\ kept' = kept \cup {id}
    /\ UNCHANGED <<given, removed>>

\* PATCH: the first trigger of the id takes the Id of the body.
patch_trigger(id, new) ==
    /\ \E i \in Found(id) : triggers' = [triggers EXCEPT ![i] = new]
    /\ used' = (used \cup {new}) \ {NoText}
    /\ kept' = IF new = id THEN kept ELSE kept \ {id}
    /\ given' = IF new = id THEN given ELSE given \cup {new}
    /\ removed' = removed \ {new}

\* GET: the first trigger of the id, or 404.
get_trigger(id) == UNCHANGED triggerVars

\* Places in the order of the list, each of them once.
InOrder(places) ==
    {order \in [1..Cardinality(places) -> places] :
        /\ \A i, j \in DOMAIN order : i < j => order[i] < order[j]
        /\ \A place \in places : \E i \in DOMAIN order : order[i] = place}

\* Vec::retain: the triggers at these places are left, in the order they had.
retain(places) ==
    \E order \in InOrder(places) : triggers' = [i \in DOMAIN order |-> triggers[order[i]]]

Forget(id) ==
    /\ kept' = kept \ {id}
    /\ given' = given \ {id}
    /\ removed' = removed \cup {id}
    /\ UNCHANGED used

\* Mutant: only the first of the id is removed.
delete_trigger_first(id) ==
    /\ With(id) # {}
    /\ retain(DOMAIN triggers \ Found(id))
    /\ Forget(id)

\* Mutant: the list is cut at the first of the id.
delete_trigger_rest(id) ==
    /\ With(id) # {}
    /\ retain({i \in DOMAIN triggers : \A j \in Found(id) : i < j})
    /\ Forget(id)

\* DELETE: every trigger of the id; if there is none, 404.
delete_trigger(id) ==
    /\ With(id) # {}
    /\ retain(DOMAIN triggers \ With(id))
    /\ Forget(id)

TriggerInit ==
    /\ triggers = <<>>
    /\ used = {}
    /\ kept = {}
    /\ given = {}
    /\ removed = {}

TriggerNext ==
    \E id \in TriggerIds :
        \/ create_trigger(id)
        \/ \E new \in TriggerIds \cup {NoText} : patch_trigger(id, new)
        \/ get_trigger(id) \/ delete_trigger(id)

TriggerSpec == TriggerInit /\ [][TriggerNext]_triggerVars

-----------------------------------------------------------------------------
(* Properties.                                                             *)

\* Type invariant.
TriggerTypeOK ==
    /\ triggers \in Seq(TriggerIds \cup {NoText})
    /\ used \subseteq TriggerIds
    /\ kept \cup removed \subseteq TriggerIds
    /\ given \subseteq TriggerIds \cup {NoText}

\* The Location of a trigger leads to it, and to it alone, until a client
\* deletes it, gives it another Id, or gives its Id to another trigger.
LocationLeadsToIt == \A id \in kept \ given : \E i \in DOMAIN triggers : With(id) = {i}

\* A DELETE takes every trigger of the id with it: none is found afterwards
\* until a PATCH gives the id again.
DeletedTriggerGone == \A id \in removed : With(id) = {}
=============================================================================
