------------------------------ MODULE TaskQueue ------------------------------
(***************************************************************************)
(* The priority task queue of src/agent/coordination/task_queue.py: its    *)
(* dictionary of tasks, the running counter and the six operations that    *)
(* change them.  Each operation is an operator from one queue value to the *)
(* next, so that callers which make two calls without an `await` between   *)
(* them (TaskWorkers) or broadcast afterwards (Coordinator) compose them.  *)
(*                                                                         *)
(* Next lets any caller make any call at any time: the class guards none   *)
(* of its mark_* methods, and AgentCoordinator exposes them unguarded.     *)
(***************************************************************************)
EXTENDS Integers, FiniteSets

CONSTANTS
    Tasks,        \* the task ids
    Deps,         \* QueueTask.dependencies of each task
    MaxRetries,   \* RetryPolicy.max_retries of each task
    RunBound      \* cap on running_count: unmatched mark_running calls explored

ASSUME TasksAssumption == IsFiniteSet(Tasks)
ASSUME DepsAssumption == Deps \in [Tasks -> SUBSET Tasks]
ASSUME MaxRetriesAssumption == MaxRetries \in [Tasks -> Nat]
ASSUME RunBoundAssumption == RunBound \in Nat

VARIABLE queue    \* the TaskQueue object

vars == <<queue>>

\* TaskStatus, plus "absent" for an id that is not a key of _tasks.
Status == {"pending", "waiting_deps", "running", "completed", "failed",
           "timeout", "dead_letter", "cancelled"}

\* The object's fields.  `timers` holds the callbacks handed to call_later and
\* not yet fired: <<task, attempt>>.
QueueState == [status       : [Tasks -> Status \cup {"absent"}],
               retries_used : [Tasks -> Nat],
               running      : Nat,
               timers       : SUBSET (Tasks \X Nat)]

EmptyQueue == [status       |-> [t \in Tasks |-> "absent"],
               retries_used |-> [t \in Tasks |-> 0],
               running      |-> 0,
               timers       |-> {}]

Present(q, t) == q.status[t] # "absent"

-----------------------------------------------------------------------------
(* The operations. *)

\* _check_dependencies: an unknown dependency counts as not completed.
DepsCompleted(st, t) == \A d \in Deps[t] : st[d] = "completed"

\* The decrement of _running_count, floored at zero.
OneLess(n) == IF n = 0 THEN 0 ELSE n - 1

\* add_task of a newly built QueueTask; it replaces a task of the same id.
AddTask(q, t) ==
    [q EXCEPT !.status[t] = IF DepsCompleted(q.status, t) THEN "pending"
                                                          ELSE "waiting_deps",
              !.retries_used[t] = 0]

\* cancel_task returns whether it may cancel, and cancels.
Cancellable(q, t) == q.status[t] \in {"pending", "waiting_deps"}

CancelTask(q, t) ==
    IF Cancellable(q, t) THEN [q EXCEPT !.status[t] = "cancelled"] ELSE q

\* get_ready_tasks, as a set; TaskWorkers orders it.
ReadyTasks(q) == {t \in Tasks : q.status[t] = "pending"}

MarkRunning(q, t) ==
    IF Present(q, t)
    THEN [q EXCEPT !.status[t] = "running", !.running = @ + 1]
    ELSE q

\* _unblock_dependents: promotions never complete a task, so the order in
\* which the loop visits the tasks does not matter.
Unblock(st) ==
    [t \in Tasks |-> IF st[t] = "waiting_deps" /\ DepsCompleted(st, t)
                     THEN "pending" ELSE st[t]]

\* Mutant: the dependents are not looked at.
MarkCompletedAlone(q, t) ==
    IF Present(q, t)
    THEN [q EXCEPT !.status[t] = "completed", !.running = OneLess(@)]
    ELSE q

MarkCompleted(q, t) ==
    IF Present(q, t)
    THEN [q EXCEPT !.status  = Unblock([@ EXCEPT ![t] = "completed"]),
                   !.running = OneLess(@)]
    ELSE q

\* Mutants: the attempt is not counted; the status stays FAILED.
RetryTaskUncounted(q, t) == [q EXCEPT !.status[t] = "pending"]

RetryTaskLeftFailed(q, t) == [q EXCEPT !.retries_used[t] = @ + 1]

\* _retry_task: the task is PENDING at once; the timer's callback is empty.
RetryTask(q, t) ==
    [q EXCEPT !.status[t]       = "pending",
              !.retries_used[t] = @ + 1,
              !.timers          = @ \cup {<<t, q.retries_used[t] + 1>>}]

\* Mutants: one attempt too few; the counter kept on a retry.
MarkFailedOneLess(q, t) ==
    LET failed == [q EXCEPT !.status[t] = "failed", !.running = OneLess(@)]
    IN  IF ~Present(q, t) THEN q
        ELSE IF q.retries_used[t] + 1 < MaxRetries[t] THEN RetryTask(failed, t)
        ELSE [failed EXCEPT !.status[t] = "dead_letter"]

MarkFailedKeepsCount(q, t) ==
    LET failed == [q EXCEPT !.status[t] = "failed"]
    IN  IF ~Present(q, t) THEN q
        ELSE IF q.retries_used[t] < MaxRetries[t] THEN RetryTask(failed, t)
        ELSE [failed EXCEPT !.status[t] = "dead_letter", !.running = OneLess(@)]

MarkFailed(q, t) ==
    LET failed == [q EXCEPT !.status[t] = "failed", !.running = OneLess(@)]
    IN  IF ~Present(q, t) THEN q
        ELSE IF q.retries_used[t] < MaxRetries[t] THEN RetryTask(failed, t)
        ELSE [failed EXCEPT !.status[t] = "dead_letter"]

ClearDeadLetters(q) ==
    [q EXCEPT !.status = [t \in Tasks |-> IF @[t] = "dead_letter" THEN "absent"
                                                                  ELSE @[t]]]

\* The event loop runs a due timer: its callback is `lambda: None`.
TimerFires(q, timer) == [q EXCEPT !.timers = @ \ {timer}]

-----------------------------------------------------------------------------
Init == queue = EmptyQueue

Add(t)      == queue' = AddTask(queue, t)
Cancel(t)   == Cancellable(queue, t) /\ queue' = CancelTask(queue, t)
Run(t)      == /\ Present(queue, t)
               /\ queue.running < RunBound
               /\ queue' = MarkRunning(queue, t)
Complete(t) == Present(queue, t) /\ queue' = MarkCompleted(queue, t)
Fail(t)     == Present(queue, t) /\ queue' = MarkFailed(queue, t)
Clear       == queue' = ClearDeadLetters(queue)
Fire        == \E timer \in queue.timers : queue' = TimerFires(queue, timer)

Next == \/ \E t \in Tasks : Add(t) \/ Cancel(t) \/ Run(t) \/ Complete(t) \/ Fail(t)
        \/ Clear
        \/ Fire

Spec == Init /\ [][Next]_vars

-----------------------------------------------------------------------------
(* Properties: they hold whatever the callers do. *)

\* The queue's fields have their types, and no task has been retried more often
\* than its RetryPolicy allows.
TypeOK ==
    /\ queue \in QueueState
    /\ \A t \in Tasks : queue.retries_used[t] <= MaxRetries[t]

\* A task waits only while a dependency is not COMPLETED: add_task and
\* mark_completed between them never strand a task whose last dependency has
\* completed, however completions and additions interleave.
NoStrandedTask ==
    \A t \in Tasks :
        queue.status[t] = "waiting_deps" => ~DepsCompleted(queue.status, t)

\* mark_failed gives a task up only when its retries are spent, and it leaves
\* no task in the intermediate FAILED state (or in TIMEOUT, which nothing sets).
DeadLetterExhausted ==
    \A t \in Tasks :
        /\ queue.status[t] = "dead_letter" => queue.retries_used[t] = MaxRetries[t]
        /\ queue.status[t] \notin {"failed", "timeout"}
=============================================================================
