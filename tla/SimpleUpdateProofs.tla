------------------------- MODULE SimpleUpdateProofs -------------------------
(***************************************************************************)
(* Proofs about the task and update services, and about the handlers over  *)
(* them, for every value of the constants.                                 *)
(***************************************************************************)
EXTENDS SimpleUpdate, FiniteSetTheorems, TLAPS

-----------------------------------------------------------------------------
(* The task table.                                                         *)

TaskInv == TaskTypeOK /\ TasksBounded

LEMMA TaskInitInv == TaskInit => TaskInv
<1> SUFFICES ASSUME TaskInit PROVE TaskInv
  OBVIOUS
<1>1. DOMAIN tasks = {} /\ tasks \in [DOMAIN tasks -> Task]
  BY DEF TaskInit
<1>2. IsFiniteSet({}) /\ Cardinality({}) = 0
  BY FS_EmptySet
<1>3. QED
  BY <1>1, <1>2, TaskAssumption DEF TaskInit, TaskInv, TaskTypeOK, TasksBounded

\* Dropping tasks keeps the invariant.
LEMMA TaskShrinks ==
    ASSUME TaskInv, NEW S \in SUBSET DOMAIN tasks, tasks' = [id \in S |-> tasks[id]],
           UNCHANGED <<taskDrawn, now>>
    PROVE  TaskInv'
<1>1. IsFiniteSet(S) /\ Cardinality(S) <= Cardinality(DOMAIN tasks)
  BY FS_Subset DEF TaskInv, TaskTypeOK
<1>2. Cardinality(S) \in Nat /\ Cardinality(DOMAIN tasks) \in Nat
  BY <1>1, FS_CardinalityType DEF TaskInv, TaskTypeOK
<1>3. DOMAIN tasks' = S /\ \A id \in S : tasks'[id] = tasks[id]
  OBVIOUS
<1>4. tasks' \in [DOMAIN tasks' -> Task]
  BY <1>3 DEF TaskInv, TaskTypeOK
<1>5. QED
  BY <1>1, <1>2, <1>3, <1>4, TaskAssumption DEF TaskInv, TaskTypeOK, TasksBounded

\* Changing one task in place keeps the invariant.
LEMMA TaskChanges ==
    ASSUME TaskInv, NEW id \in DOMAIN tasks, NEW task \in Task,
           task.state \in Terminal => task.end_time # NotEnded,
           tasks' = [tasks EXCEPT ![id] = task], UNCHANGED <<taskDrawn, now>>
    PROVE  TaskInv'
BY DEF TaskInv, TaskTypeOK, TasksBounded

LEMMA TaskStepInv == TaskInv /\ [TaskNext]_<<now, taskVars>> => TaskInv'
<1> SUFFICES ASSUME TaskInv, [TaskNext]_<<now, taskVars>> PROVE TaskInv'
  OBVIOUS
<1>t. TaskTypeOK
  BY DEF TaskInv
<1>1. ASSUME NEW id \in TaskIds, create_task(id), UNCHANGED now
      PROVE  TaskInv'
  <2>1. AfterCleanup \subseteq DOMAIN tasks /\ id \notin AfterCleanup
    BY <1>1, <1>t DEF AfterCleanup, create_task, TaskTypeOK
  <2>2. IsFiniteSet(AfterCleanup)
    BY <1>t, <2>1, FS_Subset DEF TaskTypeOK
  <2>3. /\ IsFiniteSet(AfterCleanup \cup {id})
        /\ Cardinality(AfterCleanup \cup {id}) = Cardinality(AfterCleanup) + 1
        /\ Cardinality(AfterCleanup) \in Nat
    BY <2>1, <2>2, FS_AddElement, FS_CardinalityType
  <2>4. /\ DOMAIN tasks' = AfterCleanup \cup {id}
        /\ \A i \in AfterCleanup : tasks'[i] = tasks[i]
        /\ tasks'[id] = NewTask
    BY <1>1, <2>1 DEF create_task
  <2>5. NewTask \in Task /\ NewTask.state \notin Terminal
    BY DEF NewTask, Task, TaskState, Terminal, NotEnded
  <2>6. TaskTypeOK'
    <3>1. tasks' \in [DOMAIN tasks' -> Task]
      BY <1>1, <1>t, <2>1, <2>4, <2>5 DEF TaskTypeOK, create_task
    <3>2. QED
      BY <1>1, <1>t, <2>1, <2>3, <2>4, <2>5, <3>1 DEF TaskTypeOK, create_task
  <2>7. TasksBounded'
    BY <1>1, <2>3, <2>4, TaskAssumption DEF create_task, TasksBounded
  <2>8. QED
    BY <2>6, <2>7 DEF TaskInv
<1>2. CASE create_task_refused /\ UNCHANGED now
  BY <1>2, TaskShrinks DEF create_task_refused, AfterCleanup
<1>3. ASSUME NEW id \in DOMAIN tasks, NEW state \in TaskState, update_task_state(id, state),
             UNCHANGED now
      PROVE  TaskInv'
  <2> DEFINE task == set_state(tasks[id], state)
  <2>1. tasks[id] \in Task /\ now \in Nat
    BY <1>t DEF TaskTypeOK
  <2>2. task \in Task /\ (task.state \in Terminal => task.end_time # NotEnded)
    <3>1. CASE state \in Terminal
      <4>1. task = [tasks[id] EXCEPT !.state = state, !.end_time = now, !.percent = 100]
        BY <3>1 DEF set_state
      <4>2. task = [state |-> state, end_time |-> now, percent |-> 100]
        BY <2>1, <4>1 DEF Task
      <4>3. 100 \in 0..100 /\ now # NotEnded /\ now \in Nat \cup {NotEnded}
        BY <2>1 DEF NotEnded
      <4> HIDE DEF task
      <4>4. task.end_time = now
        BY <4>2
      <4>5. QED
        BY <4>2, <4>3, <4>4 DEF Task
    <3>2. CASE state \notin Terminal
      <4>1. task = [tasks[id] EXCEPT !.state = state]
        BY <3>2 DEF set_state
      <4>2. QED
        BY <2>1, <3>2, <4>1 DEF Task
    <3>3. QED
      BY <3>1, <3>2
  <2>3. QED
    BY <1>3, <2>2, TaskChanges DEF update_task_state
<1>4. ASSUME NEW id \in DOMAIN tasks, NEW percent \in Percents, update_task_progress(id, percent),
             UNCHANGED now
      PROVE  TaskInv'
  <2> DEFINE task == set_progress(tasks[id], percent)
  <2>1. tasks[id] \in Task /\ percent \in 0..255
    BY <1>t, TaskAssumption DEF TaskTypeOK
  <2>2. (IF percent > 100 THEN 100 ELSE percent) \in 0..100
    BY <2>1
  <2>3. task \in Task /\ (task.state \in Terminal => task.end_time # NotEnded)
    BY <1>t, <2>1, <2>2 DEF set_progress, Task, TaskTypeOK
  <2>4. QED
    BY <1>4, <2>3, TaskChanges DEF update_task_progress
<1>5. ASSUME NEW id \in DOMAIN tasks, delete_task(id), UNCHANGED now
      PROVE  TaskInv'
  BY <1>5, TaskShrinks DEF delete_task
<1>6. CASE cleanup_old_tasks /\ UNCHANGED now
  BY <1>6, TaskShrinks DEF cleanup_old_tasks
<1>7. CASE (Advance \/ UNCHANGED now) /\ UNCHANGED taskVars
  <2>1. now' \in Nat
    BY <1>7, <1>t, ClockAssumption DEF Advance, TaskTypeOK
  <2>2. QED
    BY <1>7, <2>1 DEF taskVars, TaskInv, TaskTypeOK, TasksBounded
<1>8. QED
  BY <1>1, <1>2, <1>3, <1>4, <1>5, <1>6, <1>7 DEF TaskNext, TaskOperation

\* The task table is well typed and never exceeds max_tasks.
THEOREM TasksCorrect == TaskSpec => []TaskTypeOK /\ []TasksBounded
<1>1. TaskInv => TaskTypeOK /\ TasksBounded
  BY DEF TaskInv
<1>2. QED
  BY TaskInitInv, TaskStepInv, <1>1, PTL DEF TaskSpec

\* A task is what its type says, and a finished one knows when it ended.
THEOREM TaskTypeCorrect == TaskSpec => []TaskTypeOK
BY TasksCorrect, PTL

\* Only a deletion, or a clean-up after the whole retention in a terminal state,
\* makes a task disappear: whatever state it was set to, in whichever order.
THEOREM UnfinishedKeptCorrect == TaskSpec => UnfinishedKept
<1> DEFINE Kept ==
      \A id \in DOMAIN tasks : id \notin DOMAIN tasks' =>
          \/ delete_task(id)
          \/ /\ tasks[id].state \in Terminal
             /\ now - tasks[id].end_time > Retention
<1>1. ASSUME TaskInv, [TaskNext]_<<now, taskVars>>
      PROVE  [Kept]_<<now, taskVars>>
  <2> SUFFICES ASSUME NEW id \in DOMAIN tasks, id \notin DOMAIN tasks', ~ Old(id)
               PROVE  delete_task(id)
    <3>1. ASSUME NEW id \in DOMAIN tasks, Old(id)
          PROVE  tasks[id].state \in Terminal /\ now - tasks[id].end_time > Retention
      <4>1. now \in Nat /\ tasks[id].end_time \in Nat \cup {-1} /\ Retention \in Nat
        BY <1>1, TaskAssumption DEF TaskInv, TaskTypeOK, Task, NotEnded
      <4>2. QED
        BY <3>1, <4>1 DEF Old
    <3>2. QED
      BY <3>1
  <2>1. ASSUME NEW i \in TaskIds, create_task(i) PROVE FALSE
    BY <2>1 DEF create_task, AfterCleanup
  <2>2. ASSUME create_task_refused PROVE FALSE
    BY <2>2 DEF create_task_refused, AfterCleanup
  <2>3. ASSUME NEW i \in DOMAIN tasks, NEW state \in TaskState, update_task_state(i, state)
        PROVE  FALSE
    BY <2>3 DEF update_task_state
  <2>4. ASSUME NEW i \in DOMAIN tasks, NEW percent \in Percents, update_task_progress(i, percent)
        PROVE  FALSE
    BY <2>4 DEF update_task_progress
  <2>5. ASSUME NEW i \in DOMAIN tasks, delete_task(i) PROVE delete_task(id)
    <3>1. i = id
      BY <2>5 DEF delete_task
    <3>2. QED
      BY <2>5, <3>1
  <2>6. ASSUME cleanup_old_tasks PROVE FALSE
    BY <2>6 DEF cleanup_old_tasks
  <2>7. ASSUME UNCHANGED taskVars PROVE FALSE
    BY <2>7 DEF taskVars
  <2>8. QED
    BY <1>1, <2>1, <2>2, <2>3, <2>4, <2>5, <2>6, <2>7 DEF TaskNext, TaskOperation
<1>2. QED
  BY TaskInitInv, TaskStepInv, <1>1, PTL DEF TaskSpec, UnfinishedKept

-----------------------------------------------------------------------------
(* The operation table: the race between start_update's two locks is       *)
(* bounded by the callers inside it.  Every caller that passed the check   *)
(* saw fewer active operations than the limit, and counts in starting      *)
(* until it has inserted its own, so the sum is inductive as it stands.    *)

UpdateInv == UpdateTypeOK /\ ActiveWithinRace

LEMMA UpdateInitInv == UpdateInit => UpdateInv
<1> SUFFICES ASSUME UpdateInit PROVE UpdateInv
  OBVIOUS
<1>1. DOMAIN operations = {} /\ active = {} /\ starting = {}
  BY DEF UpdateInit, active
<1>2. IsFiniteSet({}) /\ Cardinality({}) = 0
  BY FS_EmptySet
<1>3. Cardinality(Callers) \in Nat /\ Cardinality(Callers) # 0
  BY UpdateAssumption, FS_CardinalityType, FS_EmptySet
<1>4. ActiveWithinRace
  BY <1>1, <1>2, <1>3, UpdateAssumption DEF ActiveWithinRace
<1>5. QED
  BY <1>1, <1>2, <1>4 DEF UpdateInit, UpdateInv, UpdateTypeOK

LEMMA UpdateCounts ==
    ASSUME UpdateTypeOK
    PROVE  /\ IsFiniteSet(active) /\ Cardinality(active) \in Nat
           /\ IsFiniteSet(starting) /\ Cardinality(starting) \in Nat
           /\ Cardinality(Callers) \in Nat
<1>1. active \in SUBSET DOMAIN operations /\ starting \in SUBSET Callers
  BY DEF active, UpdateTypeOK
<1>2. QED
  BY <1>1, UpdateAssumption, FS_Subset, FS_CardinalityType DEF UpdateTypeOK

\* Completing an operation is well typed, and gives it the time.
LEMMA CompleteTyped ==
    ASSUME NEW operation \in Operation, NEW success \in BOOLEAN, now \in Nat
    PROVE  /\ complete(operation, success) \in Operation
           /\ complete(operation, success).completed_at = now
<1>1. complete(operation, success) \in Operation
  BY DEF complete, Operation
<1>2. complete(operation, success).completed_at = now
  BY DEF complete, Operation
<1> QED
  BY <1>1, <1>2

\* Fewer active operations and as many callers inside keep the bound.
LEMMA UpdateShrinks ==
    ASSUME UpdateInv, UpdateTypeOK', starting' = starting, active' \subseteq active
    PROVE  UpdateInv'
<1>1. Cardinality(active') <= Cardinality(active)
  BY UpdateCounts, FS_Subset DEF UpdateInv
<1>2. Cardinality(active') \in Nat
  <2>1. IsFiniteSet(active')
    BY UpdateCounts, FS_Subset DEF UpdateInv
  <2>2. QED
    BY <2>1, FS_CardinalityType
<1>3. QED
  BY <1>1, <1>2, UpdateCounts, UpdateAssumption DEF UpdateInv, ActiveWithinRace

LEMMA UpdateStepInv == UpdateInv /\ [UpdateNext]_<<now, updateVars>> => UpdateInv'
<1> SUFFICES ASSUME UpdateInv, [UpdateNext]_<<now, updateVars>> PROVE UpdateInv'
  OBVIOUS
<1>t. UpdateTypeOK
  BY DEF UpdateInv
<1>1. ASSUME NEW c \in Callers, StartCount(c), UNCHANGED now
      PROVE  UpdateInv'
  <2>1. UpdateTypeOK'
    BY <1>1, <1>t DEF StartCount, UpdateTypeOK
  <2>2. active' = active
    BY <1>1 DEF StartCount, active
  <2>3. starting' \in SUBSET Callers
    BY <2>1 DEF UpdateTypeOK
  <2>4. Cardinality(starting') <= Cardinality(Callers) /\ Cardinality(starting') \in Nat
    BY <2>3, UpdateAssumption, FS_Subset, FS_CardinalityType
  <2>5. Cardinality(active) < MaxConcurrentUpdates
    BY <1>1 DEF StartCount
  <2>6. ActiveWithinRace'
    BY <1>t, <2>2, <2>4, <2>5, UpdateCounts, UpdateAssumption DEF ActiveWithinRace
  <2>7. QED
    BY <2>1, <2>6 DEF UpdateInv
<1>2. ASSUME NEW c \in Callers, NEW id \in OperationIds, StartInsert(c, id), UNCHANGED now
      PROVE  UpdateInv'
  <2>1. id \notin DOMAIN operations /\ c \in starting
    BY <1>2, <1>t DEF StartInsert, UpdateTypeOK
  <2>2. /\ DOMAIN operations' = DOMAIN operations \cup {id}
        /\ \A i \in DOMAIN operations : operations'[i] = operations[i]
        /\ operations'[id] = NewOperation
        /\ starting' = starting \ {c}
    BY <1>2, <2>1 DEF StartInsert
  <2>3. UpdateTypeOK'
    <3>1. IsFiniteSet(DOMAIN operations \cup {id})
      BY <1>t, FS_AddElement DEF UpdateTypeOK
    <3>2. NewOperation \in Operation
      BY DEF NewOperation, Operation
    <3>3. operations' \in [DOMAIN operations' -> Operation]
      BY <1>2, <1>t, <2>2, <3>2 DEF UpdateTypeOK, StartInsert
    <3>4. QED
      BY <1>2, <1>t, <2>2, <3>1, <3>3 DEF UpdateTypeOK, StartInsert
  <2>4. active' = active \cup {id} /\ id \notin active
    BY <2>1, <2>2 DEF active, NewOperation
  <2>5. Cardinality(active') = Cardinality(active) + 1
    BY <1>t, <2>4, UpdateCounts, FS_AddElement
  <2>6. Cardinality(starting') = Cardinality(starting) - 1
    BY <1>t, <2>1, <2>2, UpdateCounts, FS_RemoveElement
  <2>7. ActiveWithinRace'
    BY <1>t, <2>5, <2>6, UpdateCounts, UpdateAssumption DEF UpdateInv, ActiveWithinRace
  <2>8. QED
    BY <2>3, <2>7 DEF UpdateInv
<1>3. ASSUME NEW id \in DOMAIN operations, NEW success \in BOOLEAN, UNCHANGED <<now, opDrawn, starting>>,
             operations' = [operations EXCEPT ![id] = complete(@, success)]
      PROVE  UpdateInv'
  <2> DEFINE ended == complete(operations[id], success)
  <2>0. operations[id] \in Operation /\ now \in Nat
    BY <1>t DEF UpdateTypeOK
  <2>1. ended \in Operation /\ ended.completed_at # NotCompleted
    BY <2>0, CompleteTyped DEF NotCompleted
  <2>a. /\ DOMAIN operations' = DOMAIN operations /\ operations'[id] = ended
        /\ \A i \in DOMAIN operations : i # id => operations'[i] = operations[i]
    BY <1>3, <1>t DEF UpdateTypeOK
  <2> HIDE DEF ended
  <2>2. UpdateTypeOK'
    <3>1. operations' \in [DOMAIN operations -> Operation]
      BY <1>3, <1>t, <2>1, <2>a DEF UpdateTypeOK
    <3>2. QED
      BY <1>3, <1>t, <2>a, <3>1 DEF UpdateTypeOK
  <2>3. active' \subseteq active
    BY <2>1, <2>a DEF active
  <2>4. QED
    BY <1>3, <2>2, <2>3, UpdateShrinks
<1>4. ASSUME NEW retention \in 0..MaxClock, cleanup_completed_operations(retention), UNCHANGED now
      PROVE  UpdateInv'
  <2>1. PICK S \in SUBSET DOMAIN operations :
           operations' = [id \in S |-> operations[id]] /\ UNCHANGED <<opDrawn, starting>>
    BY <1>4 DEF cleanup_completed_operations
  <2>2. DOMAIN operations' = S /\ \A id \in S : operations'[id] = operations[id]
    BY <2>1
  <2>3. UpdateTypeOK'
    <3>1. IsFiniteSet(S)
      BY <1>t, FS_Subset DEF UpdateTypeOK
    <3>2. operations' \in [DOMAIN operations' -> Operation]
      BY <1>t, <2>1, <2>2 DEF UpdateTypeOK
    <3>3. QED
      BY <1>4, <1>t, <2>1, <2>2, <3>1, <3>2 DEF UpdateTypeOK
  <2>4. active' \subseteq active
    BY <2>2 DEF active
  <2>5. QED
    BY <2>1, <2>3, <2>4, UpdateShrinks
<1>5. CASE UNCHANGED updateVars /\ (Advance \/ UNCHANGED now)
  <2>1. UpdateTypeOK' /\ active' = active
    BY <1>5, <1>t, ClockAssumption DEF updateVars, UpdateTypeOK, active, Advance
  <2>2. QED
    BY <1>5, <2>1, UpdateShrinks DEF updateVars
<1>6. ASSUME NEW c \in Callers, StartRefused(c), UNCHANGED now
      PROVE  UpdateInv'
  BY <1>5, <1>6 DEF StartRefused
<1>7. ASSUME NEW id \in DOMAIN operations, UNCHANGED now,
             \/ \E success \in BOOLEAN : update_operation_status(id, success)
             \/ cancel_operation(id)
      PROVE  UpdateInv'
  BY <1>3, <1>7 DEF update_operation_status, cancel_operation
<1>8. QED
  BY <1>1, <1>2, <1>4, <1>5, <1>6, <1>7 DEF UpdateNext, UpdateOperation

\* However the callers of start_update interleave, the limit is exceeded by
\* less than their number.
THEOREM RaceBounded == UpdateSpec => []UpdateTypeOK /\ []ActiveWithinRace
<1>1. UpdateInv => UpdateTypeOK /\ ActiveWithinRace
  BY DEF UpdateInv
<1>2. QED
  BY UpdateInitInv, UpdateStepInv, <1>1, PTL DEF UpdateSpec

\* Operations are what their type says, and no identifier is used twice.
THEOREM UpdateTypeCorrect == UpdateSpec => []UpdateTypeOK
BY RaceBounded, PTL

\* With a single caller the limit is exact: the race is the only way past it.
THEOREM LimitExactAlone == Cardinality(Callers) = 1 => (UpdateSpec => []ConcurrencyLimit)
<1>1. ASSUME Cardinality(Callers) = 1, UpdateInv
      PROVE  ConcurrencyLimit
  <2>1. UpdateTypeOK /\ ActiveWithinRace
    BY <1>1 DEF UpdateInv
  <2>2. QED
    BY <1>1, <2>1, UpdateCounts, UpdateAssumption DEF ActiveWithinRace, ConcurrencyLimit
<1>2. CASE Cardinality(Callers) = 1
  <2>1. UpdateInv => ConcurrencyLimit
    BY <1>1, <1>2
  <2>2. UpdateSpec => []ConcurrencyLimit
    BY UpdateInitInv, UpdateStepInv, <2>1, PTL DEF UpdateSpec
  <2>3. QED
    BY <2>2
<1>3. CASE Cardinality(Callers) # 1
  BY <1>3
<1>4. QED
  BY <1>2, <1>3
-----------------------------------------------------------------------------
(* The handlers use the two services only through their operations, so     *)
(* what is proved of the services alone holds of the server.               *)

ServiceStep == [TaskNext]_<<now, taskVars>> /\ [UpdateNext]_<<now, updateVars>>

LEMMA HandlersCall == [Next]_vars => ServiceStep
<1> SUFFICES ASSUME [Next]_vars PROVE ServiceStep
  OBVIOUS
<1>1. ASSUME NEW r \in Callers, AcceptUpdate(r)
      PROVE  ServiceStep
  BY <1>1 DEF AcceptUpdate, ServiceStep, TaskNext, TaskOperation, updateVars, taskVars
<1>2. ASSUME NEW r \in Callers, CheckLimit(r)
      PROVE  ServiceStep
  BY <1>2 DEF CheckLimit, ServiceStep, UpdateNext, UpdateOperation, taskVars
<1>3. ASSUME NEW r \in Callers, StartUpdate(r)
      PROVE  ServiceStep
  BY <1>3 DEF StartUpdate, ServiceStep, UpdateNext, UpdateOperation, taskVars
<1>4. ASSUME NEW r \in Callers, Hangup(r)
      PROVE  ServiceStep
  BY <1>4 DEF Hangup, ServiceStep
<1>5. ASSUME NEW id \in TaskIds, DeleteTask(id)
      PROVE  ServiceStep
  BY <1>5 DEF DeleteTask, delete_task, ServiceStep, TaskNext, TaskOperation, updateVars
<1>6. CASE Clock
  BY <1>6 DEF Clock, ServiceStep, TaskNext, UpdateNext
<1>7. CASE UNCHANGED vars
  BY <1>7 DEF vars, ServiceStep
<1>8. QED
  BY <1>1, <1>2, <1>3, <1>4, <1>5, <1>6, <1>7 DEF Next

\* On the server, with any number of requests in progress, the task table
\* is bounded and so is the race of start_update.
THEOREM ServerBounded == Spec => []TasksBounded /\ []ActiveWithinRace
<1>1. Init => TaskInv /\ UpdateInv
  BY TaskInitInv, UpdateInitInv DEF Init
<1>2. TaskInv /\ UpdateInv /\ [Next]_vars => TaskInv' /\ UpdateInv'
  BY HandlersCall, TaskStepInv, UpdateStepInv DEF ServiceStep
<1>3. TaskInv /\ UpdateInv => TasksBounded /\ ActiveWithinRace
  BY DEF TaskInv, UpdateInv
<1>4. QED
  BY <1>1, <1>2, <1>3, PTL DEF Spec

-----------------------------------------------------------------------------
(* The handlers.  Nothing on the server moves a task out of New, so no     *)
(* clean-up ever removes one; and a request carries its task from the step *)
(* that creates it to the answer.                                          *)

HandlerInv ==
    /\ TaskInv /\ UpdateInv /\ ApiTypeOK
    /\ \A id \in DOMAIN tasks : tasks[id].state = "New"
    /\ \A r \in Callers : req[r].pc \in {"created", "starting"} \/ req[r].status = 202
                              => req[r].task \in DOMAIN tasks \cup deleted

LEMMA InitHandlerInv == Init => HandlerInv
<1> SUFFICES ASSUME Init PROVE HandlerInv
  OBVIOUS
<1>1. TaskInv /\ UpdateInv
  BY TaskInitInv, UpdateInitInv DEF Init
<1>2. Idle \in Request /\ Idle.pc = "idle" /\ Idle.status = 0
  BY DEF Idle, Request
<1>3. req \in [Callers -> Request] /\ \A r \in Callers : req[r] = Idle
  BY <1>2 DEF Init
<1>4. starting = {} /\ deleted = {} /\ taskDrawn = {} /\ DOMAIN tasks = {} /\ DOMAIN operations = {}
  BY DEF Init, TaskInit, UpdateInit
<1>5. ApiTypeOK
  BY <1>2, <1>3, <1>4 DEF ApiTypeOK
<1>6. QED
  BY <1>1, <1>2, <1>3, <1>4, <1>5 DEF HandlerInv

\* No task is old, so a full table refuses and nothing is cleaned up.
LEMMA NothingOld ==
    ASSUME \A id \in DOMAIN tasks : tasks[id].state = "New"
    PROVE  AfterCleanup = DOMAIN tasks
BY DEF AfterCleanup, Old, Terminal

\* A request that is answered leaves the others alone.
LEMMA AnswerStep ==
    ASSUME ApiTypeOK, NEW r \in Callers, NEW status \in Nat, Answer(r, status)
    PROVE  /\ req' \in [Callers -> Request]
           /\ req'[r].pc = "done" /\ req'[r].status = status /\ req'[r].task = req[r].task
           /\ \A x \in Callers \ {r} : req'[x] = req[x]
BY DEF ApiTypeOK, Answer, Request

LEMMA StepHandlerInv == HandlerInv /\ [Next]_vars => HandlerInv'
<1> SUFFICES ASSUME HandlerInv, [Next]_vars PROVE HandlerInv'
  OBVIOUS
<1>s. TaskInv' /\ UpdateInv'
  BY HandlersCall, TaskStepInv, UpdateStepInv DEF ServiceStep, HandlerInv
<1>t. TaskTypeOK /\ TaskTypeOK' /\ UpdateTypeOK /\ UpdateTypeOK' /\ ApiTypeOK
  BY <1>s DEF HandlerInv, TaskInv, UpdateInv
\* A request is answered without having touched the services.
<1>1. ASSUME NEW r \in Callers, NEW status \in {400, 403, 503}, Answer(r, status),
             At(r, "idle") \/ At(r, "created"), UNCHANGED <<taskVars, updateVars, deleted>>
      PROVE  HandlerInv'
  <2> status \in Nat
    OBVIOUS
  <2>0. /\ req' \in [Callers -> Request]
        /\ req'[r].pc = "done" /\ req'[r].status = status /\ req'[r].task = req[r].task
        /\ \A x \in Callers \ {r} : req'[x] = req[x]
    BY <1>1, <1>t, AnswerStep
  <2>1. ApiTypeOK'
    BY <1>1, <1>t, <2>0 DEF ApiTypeOK, At, taskVars, updateVars
  <2>2. QED
    BY <1>1, <1>s, <1>t, <2>0, <2>1 DEF HandlerInv, taskVars
<1>2. ASSUME NEW r \in Callers, AcceptUpdate(r)
      PROVE  HandlerInv'
  <2>1. CASE \/ \E role \in Roles : ~ MayAct(role) /\ Answer(r, 403) /\ UNCHANGED taskVars
             \/ Answer(r, 400) /\ UNCHANGED taskVars
    BY <1>1, <1>2, <2>1 DEF AcceptUpdate
  <2>2. CASE create_task_refused /\ Answer(r, 503)
    <3>1. tasks' = [i \in DOMAIN tasks |-> tasks[i]] /\ taskDrawn' = taskDrawn
      BY <2>2, NothingOld DEF create_task_refused, HandlerInv
    <3>2. UNCHANGED taskVars
      BY <1>t, <3>1 DEF taskVars, TaskTypeOK
    <3>3. QED
      BY <1>1, <1>2, <2>2, <3>2 DEF AcceptUpdate
  <2>3. ASSUME NEW id \in TaskIds, create_task(id),
               req' = [req EXCEPT ![r].pc = "created", ![r].task = id]
        PROVE  HandlerInv'
    <3>1. /\ DOMAIN tasks' = DOMAIN tasks \cup {id}
          /\ \A i \in DOMAIN tasks' : tasks'[i].state = "New"
      BY <2>3, NothingOld DEF create_task, HandlerInv, NewTask
    <3>2. taskDrawn' = taskDrawn \cup {id} /\ id \notin taskDrawn /\ UNCHANGED <<updateVars, deleted>>
      BY <1>2, <2>3 DEF create_task, AcceptUpdate
    <3>3. /\ req' \in [Callers -> Request]
          /\ req'[r].pc = "created" /\ req'[r].task = id /\ req'[r].status = req[r].status
          /\ \A x \in Callers \ {r} : req'[x] = req[x]
          /\ req[r].pc = "idle"
      BY <1>2, <1>t, <2>3 DEF ApiTypeOK, Request, AcceptUpdate, At
    <3>4. ApiTypeOK'
      BY <1>t, <3>2, <3>3 DEF ApiTypeOK, updateVars
    <3>5. QED
      BY <1>s, <1>t, <3>1, <3>2, <3>3, <3>4 DEF HandlerInv, ApiTypeOK
  <2>4. QED
    BY <1>2, <2>1, <2>2, <2>3 DEF AcceptUpdate
<1>3. ASSUME NEW r \in Callers, CheckLimit(r)
      PROVE  HandlerInv'
  <2>1. CASE StartRefused(r) /\ Answer(r, 503)
    BY <1>1, <1>3, <2>1 DEF CheckLimit, StartRefused
  <2>2. CASE StartCount(r) /\ req' = [req EXCEPT ![r].pc = "starting"]
    <3>1. /\ req' \in [Callers -> Request]
          /\ req'[r].pc = "starting" /\ req'[r].task = req[r].task /\ req'[r].status = req[r].status
          /\ \A x \in Callers \ {r} : req'[x] = req[x]
          /\ req[r].pc = "created"
      BY <1>3, <1>t, <2>2 DEF ApiTypeOK, Request, CheckLimit, At
    <3>2. starting' = starting \cup {r} /\ UNCHANGED <<taskVars, operations, opDrawn, deleted>>
      BY <1>3, <2>2 DEF CheckLimit, StartCount
    <3>3. ApiTypeOK'
      BY <1>t, <3>1, <3>2 DEF ApiTypeOK, taskVars
    <3>4. QED
      BY <1>s, <3>1, <3>2, <3>3 DEF HandlerInv, taskVars
  <2>3. QED
    BY <1>3, <2>1, <2>2 DEF CheckLimit
<1>4. ASSUME NEW r \in Callers, StartUpdate(r)
      PROVE  HandlerInv'
  <2>1. PICK id \in OperationIds : StartInsert(r, id)
    BY <1>4 DEF StartUpdate
  <2>2. Answer(r, 202) /\ req[r].pc = "starting" /\ UNCHANGED <<taskVars, deleted>>
    BY <1>4 DEF StartUpdate, At
  <2>0. /\ req' \in [Callers -> Request]
        /\ req'[r].pc = "done" /\ req'[r].status = 202 /\ req'[r].task = req[r].task
        /\ \A x \in Callers \ {r} : req'[x] = req[x]
    BY <1>t, <2>2, AnswerStep
  <2>3. /\ DOMAIN operations' = DOMAIN operations \cup {id} /\ id \notin DOMAIN operations
        /\ starting' = starting \ {r}
    BY <1>t, <2>1 DEF StartInsert, UpdateTypeOK
  <2>4. ApiTypeOK'
    BY <1>t, <2>0, <2>2, <2>3 DEF ApiTypeOK, taskVars
  <2>5. QED
    BY <1>s, <1>t, <2>0, <2>2, <2>4 DEF HandlerInv, taskVars
<1>5. ASSUME NEW r \in Callers, Hangup(r)
      PROVE  HandlerInv'
  <2>1. Idle \in Request /\ Idle.pc = "idle" /\ Idle.status = 0
    BY DEF Idle, Request
  <2>2. /\ req' \in [Callers -> Request] /\ req'[r] = Idle
        /\ \A x \in Callers \ {r} : req'[x] = req[x]
        /\ req[r].pc = "done" /\ UNCHANGED <<taskVars, updateVars, deleted>>
    BY <1>5, <1>t, <2>1 DEF ApiTypeOK, Hangup, At
  <2>3. ApiTypeOK'
    BY <1>t, <2>1, <2>2 DEF ApiTypeOK, taskVars, updateVars
  <2>4. QED
    BY <1>s, <2>1, <2>2, <2>3 DEF HandlerInv, taskVars, updateVars
<1>6. ASSUME NEW id \in TaskIds, DeleteTask(id)
      PROVE  HandlerInv'
  <2>1. /\ DOMAIN tasks' = DOMAIN tasks \ {id} /\ id \in DOMAIN tasks
        /\ \A i \in DOMAIN tasks' : tasks'[i] = tasks[i]
        /\ deleted' = deleted \cup {id}
        /\ UNCHANGED <<taskDrawn, updateVars, req>>
    BY <1>6 DEF DeleteTask, delete_task
  <2>2. ApiTypeOK'
    BY <1>t, <2>1 DEF ApiTypeOK, updateVars, TaskTypeOK
  <2>3. QED
    BY <1>s, <2>1, <2>2 DEF HandlerInv, updateVars
<1>7. CASE Clock \/ UNCHANGED vars
  <2>1. UNCHANGED <<taskVars, updateVars, apiVars>>
    BY <1>7 DEF Clock, vars
  <2>2. ApiTypeOK'
    BY <1>t, <2>1 DEF ApiTypeOK, taskVars, updateVars, apiVars
  <2>3. QED
    BY <1>s, <2>1, <2>2 DEF HandlerInv, taskVars, updateVars, apiVars
<1>8. QED
  BY <1>2, <1>3, <1>4, <1>5, <1>6, <1>7 DEF Next

\* The handlers' state is well typed, and a request is in start_update
\* exactly while its caller is.
THEOREM HandlersTyped == Spec => []ApiTypeOK
<1>1. HandlerInv => ApiTypeOK
  BY DEF HandlerInv
<1>2. QED
  BY InitHandlerInv, StepHandlerInv, <1>1, PTL DEF Spec

\* The location of a 202 answer stays valid until a client deletes the task.
THEOREM LocationStaysCorrect == Spec => []LocationStays
<1>1. HandlerInv => LocationStays
  BY DEF HandlerInv, LocationStays
<1>2. QED
  BY InitHandlerInv, StepHandlerInv, <1>1, PTL DEF Spec

-----------------------------------------------------------------------------
(* No operation ends, so all that were ever started are active.            *)

AllActive == opDrawn = active

LEMMA OperationsGoOn == UpdateTypeOK /\ AllActive /\ [Next]_vars => AllActive'
<1> SUFFICES ASSUME UpdateTypeOK, AllActive, [Next]_vars PROVE AllActive'
  OBVIOUS
<1>1. CASE UNCHANGED <<operations, opDrawn>>
  BY <1>1 DEF AllActive, active
<1>2. ASSUME NEW r \in Callers, StartUpdate(r)
      PROVE  AllActive'
  <2>1. PICK id \in OperationIds : StartInsert(r, id)
    BY <1>2 DEF StartUpdate
  <2>2. /\ DOMAIN operations' = DOMAIN operations \cup {id}
        /\ operations'[id].completed_at = NotCompleted
        /\ \A i \in DOMAIN operations \ {id} : operations'[i] = operations[i]
    BY <2>1 DEF StartInsert, NewOperation
  <2>3. active' = active \cup {id}
    BY <2>1, <2>2 DEF StartInsert, active, UpdateTypeOK
  <2>4. QED
    BY <2>1, <2>3 DEF StartInsert, AllActive
<1>3. ASSUME NEW r \in Callers, AcceptUpdate(r) \/ CheckLimit(r) \/ Hangup(r)
      PROVE  UNCHANGED <<operations, opDrawn>>
  BY <1>3 DEF AcceptUpdate, CheckLimit, Hangup, StartCount, StartRefused, updateVars
<1>4. ASSUME (\E id \in TaskIds : DeleteTask(id)) \/ Clock \/ UNCHANGED vars
      PROVE  UNCHANGED <<operations, opDrawn>>
  BY <1>4 DEF DeleteTask, Clock, vars, updateVars
<1>5. QED
  BY <1>1, <1>2, <1>3, <1>4 DEF Next

\* The limit on concurrent updates is one on all that a server ever accepts.
THEOREM UpdatesForLifeCorrect == Spec => []UpdatesForLife
<1>1. Init => AllActive
  BY DEF Init, UpdateInit, AllActive, active
<1>2. Init => UpdateInv
  BY UpdateInitInv DEF Init
<1>3. UpdateInv /\ [Next]_vars => UpdateInv'
  BY HandlersCall, UpdateStepInv DEF ServiceStep
<1>4. UpdateInv => UpdateTypeOK
  BY DEF UpdateInv
<1>5. UpdateInv /\ AllActive => UpdatesForLife
  BY DEF UpdateInv, AllActive, ActiveWithinRace, UpdatesForLife
<1>6. QED
  BY <1>1, <1>2, <1>3, <1>4, <1>5, OperationsGoOn, PTL DEF Spec
=============================================================================
