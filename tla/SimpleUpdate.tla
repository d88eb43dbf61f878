---------------------------- MODULE SimpleUpdate ----------------------------
(***************************************************************************)
(* The Redfish handlers over the task and update services: SimpleUpdate,   *)
(* which creates a task, starts an update, and answers 202 with the task's *)
(* location; and DELETE Tasks/{id}.  The handlers run concurrently, and    *)
(* each call of a service is a step.                                       *)
(*                                                                         *)
(* No other code of the program calls the two services to change them: a   *)
(* started update is never completed, and its task never leaves New.       *)
(***************************************************************************)
EXTENDS TaskService, UpdateService, Privilege

VARIABLES
    req,        \* the SimpleUpdate requests in progress, one for each caller
    deleted     \* history: the tasks clients have deleted

apiVars == <<req, deleted>>
vars == <<now, taskVars, updateVars, apiVars>>

Request == [pc: {"idle", "created", "starting", "done"},
            task: TaskIds \cup {"none"}, status: Nat]

Idle == [pc |-> "idle", task |-> "none", status |-> 0]

At(r, pc) == req[r].pc = pc
Answer(r, status) == req' = [req EXCEPT ![r].pc = "done", ![r].status = status]

MayAct(role) == check_privilege(role, PRIVILEGE_ACTION)

\* The privilege check, the body's validation and create_task.
AcceptUpdate(r) ==
    /\ At(r, "idle")
    /\ \/ \E role \in Roles : ~ MayAct(role) /\ Answer(r, 403) /\ UNCHANGED taskVars
       \/ Answer(r, 400) /\ UNCHANGED taskVars    \* no ImageURI, or no such protocol
       \/ create_task_refused /\ Answer(r, 503)
       \/ \E id \in TaskIds :
             /\ create_task(id)
             /\ req' = [req EXCEPT ![r].pc = "created", ![r].task = id]
    /\ UNCHANGED <<now, updateVars, deleted>>

\* Mutant: the error of start_update is ignored.
CheckLimitIgnored(r) ==
    /\ At(r, "created")
    /\ StartCount(r) \/ StartRefused(r)
    /\ req' = [req EXCEPT ![r].pc = "starting"]
    /\ UNCHANGED <<now, taskVars, deleted>>

\* start_update's check.  When it fails the task just created stays.
CheckLimit(r) ==
    /\ At(r, "created")
    /\ \/ StartCount(r) /\ req' = [req EXCEPT ![r].pc = "starting"]
       \/ StartRefused(r) /\ Answer(r, 503)
    /\ UNCHANGED <<now, taskVars, deleted>>

\* start_update's insertion, and 202 Accepted with the task's location.
StartUpdate(r) ==
    /\ At(r, "starting")
    /\ \E id \in OperationIds : StartInsert(r, id)
    /\ Answer(r, 202)
    /\ UNCHANGED <<now, taskVars, deleted>>

Hangup(r) ==
    /\ At(r, "done")
    /\ req' = [req EXCEPT ![r] = Idle]
    /\ UNCHANGED <<now, taskVars, updateVars, deleted>>

\* DELETE Tasks/{id} by a caller with ConfigureComponents; refused or not
\* found, it changes nothing.
DeleteTask(id) ==
    /\ delete_task(id)
    /\ deleted' = deleted \cup {id}
    /\ UNCHANGED <<now, updateVars, req>>

Clock == Advance /\ UNCHANGED <<taskVars, updateVars, apiVars>>

Init ==
    /\ TaskInit /\ UpdateInit
    /\ req = [r \in Callers |-> Idle]
    /\ deleted = {}

Next ==
    \/ \E r \in Callers : \/ AcceptUpdate(r) \/ CheckLimit(r)
                          \/ StartUpdate(r) \/ Hangup(r)
    \/ \E id \in TaskIds : DeleteTask(id)
    \/ Clock

Spec == Init /\ [][Next]_vars

-----------------------------------------------------------------------------
(* Properties.                                                             *)

\* Type invariant of the handlers; a caller inside start_update is the
\* request that is there.
ApiTypeOK ==
    /\ deleted \subseteq taskDrawn
    /\ req \in [Callers -> Request]
    /\ \A r \in Callers :
          /\ req[r].pc # "done" => req[r].status = 0
          /\ req[r].pc \in {"created", "starting"} => req[r].task \in taskDrawn
          /\ req[r].pc = "starting" <=> r \in starting

\* Until a client deletes it, the task a 202 answer points to can be found
\* there, however many updates other clients ask for meanwhile.
LocationStays ==
    \A r \in Callers :
        req[r].status = 202 => req[r].task \in DOMAIN tasks \cup deleted

\* Nothing on the server ends an operation (update.rs:271 and its like have no
\* caller but tests), so the limit on concurrent updates is one on all that a
\* server accepts before it is restarted, but for the race of start_update.
UpdatesForLife ==
    Cardinality(opDrawn) + Cardinality(starting)
        <= MaxConcurrentUpdates + Cardinality(Callers) - 1
=============================================================================
