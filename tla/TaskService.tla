---------------------------- MODULE TaskService ----------------------------
(***************************************************************************)
(* The table of long-running tasks (services/task.rs): a map behind one    *)
(* RwLock, bounded by max_tasks.  Finished tasks are only evicted when the *)
(* table is full, and only after the retention period.                     *)
(*                                                                         *)
(* A task's name, description, messages and payload are left out: nothing  *)
(* the service decides depends on them.                                    *)
(***************************************************************************)
EXTENDS FiniteSets, Clock

CONSTANTS
    TaskIds,        \* the UUIDs Task::new may draw
    MaxTasks,       \* max_tasks, 100 in AppState
    Retention,      \* retention_duration, 24 hours in AppState
    Percents        \* the u8 values set_progress is called with

ASSUME TaskAssumption ==
    /\ MaxTasks \in Nat
    /\ Retention \in Nat
    /\ Percents \subseteq 0..255

VARIABLES
    tasks,          \* the HashMap: task id -> task
    taskDrawn       \* the UUIDs drawn so far

taskVars == <<tasks, taskDrawn>>

Terminal == {"Completed", "Killed", "Exception", "Cancelled"}

TaskState == {"New", "Starting", "Running", "Suspended", "Interrupted",
              "Pending", "Stopping"} \cup Terminal

NotEnded == -1      \* end_time: None

Task == [state: TaskState, end_time: Nat \cup {NotEnded}, percent: 0..100]

NewTask == [state |-> "New", end_time |-> NotEnded, percent |-> 0]

\* Leaving a terminal state again keeps its end_time and its percentage.
set_state(task, state) ==
    IF state \in Terminal
    THEN [task EXCEPT !.state = state, !.end_time = now, !.percent = 100]
    ELSE [task EXCEPT !.state = state]

set_progress(task, percent) ==
    [task EXCEPT !.percent = IF percent > 100 THEN 100 ELSE percent]

\* Mutant: what ended long ago is old, finished or not.
OldByEndTime(id) == /\ tasks[id].end_time # NotEnded
                    /\ tasks[id].end_time < now - Retention

\* What cleanup_old_tasks removes: finished, for longer than the retention.
Old(id) == /\ tasks[id].state \in Terminal
           /\ tasks[id].end_time # NotEnded
           /\ tasks[id].end_time < now - Retention

Full == Cardinality(DOMAIN tasks) >= MaxTasks

\* create_task cleans up only when the table is full.
AfterCleanup == IF Full THEN {id \in DOMAIN tasks : ~ Old(id)} ELSE DOMAIN tasks

-----------------------------------------------------------------------------
\* Mutant: the table may be one over its limit.
create_task_late(id) ==
    /\ id \in TaskIds \ taskDrawn
    /\ Cardinality(AfterCleanup) <= MaxTasks
    /\ tasks' = [i \in AfterCleanup \cup {id} |-> IF i = id THEN NewTask ELSE tasks[i]]
    /\ taskDrawn' = taskDrawn \cup {id}

\* Mutant: make room by overwriting, as CompletedTaskOverWritePolicy says.
create_task_overwrite(id) ==
    /\ id \in TaskIds \ taskDrawn
    /\ \E kept \in SUBSET AfterCleanup :
          /\ Cardinality(kept) < MaxTasks
          /\ tasks' = [i \in kept \cup {id} |-> IF i = id THEN NewTask ELSE tasks[i]]
    /\ taskDrawn' = taskDrawn \cup {id}

create_task(id) ==
    /\ id \in TaskIds \ taskDrawn
    /\ Cardinality(AfterCleanup) < MaxTasks
    /\ tasks' = [i \in AfterCleanup \cup {id} |-> IF i = id THEN NewTask ELSE tasks[i]]
    /\ taskDrawn' = taskDrawn \cup {id}

create_task_refused ==
    /\ Cardinality(AfterCleanup) >= MaxTasks
    /\ tasks' = [i \in AfterCleanup |-> tasks[i]]
    /\ UNCHANGED taskDrawn

\* An unknown id is an error and changes nothing, here and below.
update_task_state(id, state) ==
    /\ id \in DOMAIN tasks
    /\ tasks' = [tasks EXCEPT ![id] = set_state(@, state)]
    /\ UNCHANGED taskDrawn

update_task_progress(id, percent) ==
    /\ id \in DOMAIN tasks
    /\ tasks' = [tasks EXCEPT ![id] = set_progress(@, percent)]
    /\ UNCHANGED taskDrawn

delete_task(id) ==
    /\ id \in DOMAIN tasks
    /\ tasks' = [i \in DOMAIN tasks \ {id} |-> tasks[i]]
    /\ UNCHANGED taskDrawn

cleanup_old_tasks ==
    /\ tasks' = [id \in {i \in DOMAIN tasks : ~ Old(i)} |-> tasks[id]]
    /\ UNCHANGED taskDrawn

-----------------------------------------------------------------------------
TaskInit ==
    /\ now = 0
    /\ tasks = [id \in {} |-> NewTask]
    /\ taskDrawn = {}

TaskOperation ==
    \/ \E id \in TaskIds : create_task(id)
    \/ create_task_refused
    \/ \E id \in DOMAIN tasks :
          \/ \E state \in TaskState : update_task_state(id, state)
          \/ \E percent \in Percents : update_task_progress(id, percent)
          \/ delete_task(id)
    \/ cleanup_old_tasks

\* The service by itself: anyone may call any operation, as its tests do.
TaskNext == \/ TaskOperation /\ UNCHANGED now
            \/ Advance /\ UNCHANGED taskVars

TaskSpec == TaskInit /\ [][TaskNext]_<<now, taskVars>>

-----------------------------------------------------------------------------
(* Properties.                                                             *)

\* Type invariant; a finished task knows when it ended.
TaskTypeOK ==
    /\ now \in Nat
    /\ taskDrawn \subseteq TaskIds
    /\ DOMAIN tasks \subseteq taskDrawn
    /\ IsFiniteSet(DOMAIN tasks)
    /\ tasks \in [DOMAIN tasks -> Task]
    /\ \A id \in DOMAIN tasks :
          tasks[id].state \in Terminal => tasks[id].end_time # NotEnded

\* The table never exceeds max_tasks, in whichever order tasks are created,
\* finished, revived, deleted and cleaned up.
TasksBounded == Cardinality(DOMAIN tasks) <= MaxTasks

\* Only a deletion makes a task disappear that has not been in a terminal
\* state for the whole retention period: a task set running again after it
\* had finished, its old end_time still on it, is not swept away.
UnfinishedKept ==
    [][\A id \in DOMAIN tasks : id \notin DOMAIN tasks' =>
          \/ delete_task(id)
          \/ /\ tasks[id].state \in Terminal
             /\ now - tasks[id].end_time > Retention]_<<now, taskVars>>
=============================================================================
