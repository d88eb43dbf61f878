---------------------------- MODULE UpdateService ----------------------------
(***************************************************************************)
(* The table of firmware update operations (services/update.rs).           *)
(*                                                                         *)
(* start_update counts the active operations under the read lock, lets it  *)
(* go, and inserts the new operation under the write lock: two steps, with *)
(* other callers in between.  The firmware inventory, a map nothing else   *)
(* depends on, is left out; so is what the request asks for.               *)
(***************************************************************************)
EXTENDS FiniteSets, Clock

CONSTANTS
    Callers,                \* the threads that call the service
    OperationIds,           \* the UUIDs UpdateOperation::new may draw
    MaxConcurrentUpdates    \* max_concurrent_updates, 2 in AppState

ASSUME UpdateAssumption ==
    /\ IsFiniteSet(Callers) /\ Callers # {}
    /\ MaxConcurrentUpdates \in Nat

VARIABLES
    operations,     \* the HashMap: operation id -> operation
    opDrawn,        \* the UUIDs drawn so far
    starting        \* callers of start_update between its two locks

updateVars == <<operations, opDrawn, starting>>

NotCompleted == -1      \* completed_at: None

\* start_update draws a UUID of its own for the task it should create: "For
\* now, create a placeholder task ID" (update.rs:243).  No task ever has it.
Placeholder == "placeholder"

Operation == [task_id: {Placeholder}, completed_at: Nat \cup {NotCompleted},
              success: BOOLEAN]

NewOperation == [task_id |-> Placeholder, completed_at |-> NotCompleted, success |-> FALSE]

complete(operation, success) ==
    [operation EXCEPT !.completed_at = now, !.success = success]

active == {id \in DOMAIN operations : operations[id].completed_at = NotCompleted}

-----------------------------------------------------------------------------
\* Mutant: the check is left out.
StartUncheckedCount(c) ==
    /\ c \notin starting
    /\ starting' = starting \cup {c}
    /\ UNCHANGED <<operations, opDrawn>>

\* start_update under the read lock: too many active operations is an error.
StartCount(c) ==
    /\ c \notin starting
    /\ Cardinality(active) < MaxConcurrentUpdates
    /\ starting' = starting \cup {c}
    /\ UNCHANGED <<operations, opDrawn>>

StartRefused(c) ==
    /\ c \notin starting
    /\ Cardinality(active) >= MaxConcurrentUpdates
    /\ UNCHANGED updateVars

\* start_update under the write lock, which does not count again.
StartInsert(c, id) ==
    /\ c \in starting
    /\ id \in OperationIds \ opDrawn
    /\ operations' = [i \in DOMAIN operations \cup {id} |->
                         IF i = id THEN NewOperation ELSE operations[i]]
    /\ opDrawn' = opDrawn \cup {id}
    /\ starting' = starting \ {c}

\* Overwrites the outcome of an operation that had completed, too.
update_operation_status(id, success) ==
    /\ id \in DOMAIN operations
    /\ operations' = [operations EXCEPT ![id] = complete(@, success)]
    /\ UNCHANGED <<opDrawn, starting>>

cancel_operation(id) ==
    /\ id \in active
    /\ operations' = [operations EXCEPT ![id] = complete(@, FALSE)]
    /\ UNCHANGED <<opDrawn, starting>>

cleanup_completed_operations(retention) ==
    /\ operations' = [id \in {i \in DOMAIN operations :
                                i \in active \/ operations[i].completed_at >= now - retention}
                        |-> operations[id]]
    /\ UNCHANGED <<opDrawn, starting>>

-----------------------------------------------------------------------------
UpdateInit ==
    /\ now = 0
    /\ operations = [id \in {} |-> NewOperation]
    /\ opDrawn = {}
    /\ starting = {}

UpdateOperation ==
    \/ \E c \in Callers : \/ StartCount(c) \/ StartRefused(c)
                          \/ \E id \in OperationIds : StartInsert(c, id)
    \/ \E id \in DOMAIN operations :
          \/ \E success \in BOOLEAN : update_operation_status(id, success)
          \/ cancel_operation(id)
    \/ \E retention \in 0..MaxClock : cleanup_completed_operations(retention)

\* The service by itself: anyone may call any operation, as its tests do.
UpdateNext == \/ UpdateOperation /\ UNCHANGED now
              \/ Advance /\ UNCHANGED updateVars

UpdateSpec == UpdateInit /\ [][UpdateNext]_<<now, updateVars>>

-----------------------------------------------------------------------------
(* Properties.                                                             *)

\* Type invariant.
UpdateTypeOK ==
    /\ now \in Nat
    /\ opDrawn \subseteq OperationIds
    /\ DOMAIN operations \subseteq opDrawn
    /\ IsFiniteSet(DOMAIN operations)
    /\ operations \in [DOMAIN operations -> Operation]
    /\ starting \subseteq Callers

\* How far the race between start_update's two locks can go: each caller but
\* one may add an operation to a limit that was already reached.  With one
\* caller at a time the limit holds exactly.
ActiveWithinRace ==
    Cardinality(active) + Cardinality(starting)
        <= MaxConcurrentUpdates + Cardinality(Callers) - 1

\* update.rs:162, "Maximum concurrent updates", and the error start_update
\* answers beyond it: never more operations are active than that.
ConcurrencyLimit == Cardinality(active) <= MaxConcurrentUpdates
=============================================================================
