----------------------------- MODULE TaskWorkers -----------------------------
(***************************************************************************)
(* Workers driving a TaskQueue.  The repository holds no worker of its own:*)
(* this is the loop the class is used by (its usage example and the        *)
(* coordinator's complete_task / fail_task), with submissions,             *)
(* cancellations and dead-letter sweeps arriving while a handler is        *)
(* awaited:                                                                *)
(*                                                                         *)
(*    for t in q.get_ready_tasks():                                        *)
(*        q.mark_running(t); await t.handler(); q.mark_completed(t)        *)
(*                                                                         *)
(* The only await is the handler's, so a worker's step runs from the end   *)
(* of one handler to the start of the next, and the list of ready tasks it *)
(* took before the first one grows stale behind it.                        *)
(***************************************************************************)
EXTENDS TaskQueue, Sequences

CONSTANTS
    Workers,     \* coroutines running the loop
    Before(_,_)  \* Before(t, u): t sorts ahead of u by (-priority, created_at)

Idle == "idle"   \* a worker that awaits no handler

ASSUME WorkersAssumption == Workers # {}
ASSUME IdleAssumption    == Idle \notin Tasks

VARIABLES
    current,     \* the task whose handler each worker awaits, or Idle
    backlog,     \* the rest of each worker's list of ready tasks
    submitted,   \* the ids used so far: submit_task builds a fresh uuid
    attempts     \* how often each task's handler was started (history)

allVars == <<queue, current, backlog, submitted, attempts>>

\* The lists get_ready_tasks may return: every ready task once, none behind one
\* that sorts after it; tasks of equal rank come in either order.
ReadyLists(q) ==
    {list \in [1..Cardinality(ReadyTasks(q)) -> ReadyTasks(q)] :
        \A i, j \in DOMAIN list :
            i < j => list[i] # list[j] /\ ~Before(list[j], list[i])}

-----------------------------------------------------------------------------
WInit ==
    /\ Init
    /\ current   = [w \in Workers |-> Idle]
    /\ backlog   = [w \in Workers |-> <<>>]
    /\ submitted = {}
    /\ attempts  = [t \in Tasks |-> 0]

\* The loop takes the first task of `todo` from queue value q, or ends.
Advance(w, q, todo) ==
    IF todo = <<>>
    THEN /\ queue'   = q
         /\ current' = [current EXCEPT ![w] = Idle]
         /\ backlog' = [backlog EXCEPT ![w] = <<>>]
         /\ UNCHANGED <<submitted, attempts>>
    ELSE LET t == Head(todo) IN
         /\ queue'    = MarkRunning(q, t)
         /\ current'  = [current EXCEPT ![w] = t]
         /\ backlog'  = [backlog EXCEPT ![w] = Tail(todo)]
         /\ attempts' = [attempts EXCEPT ![t] = @ + 1]
         /\ UNCHANGED submitted

Poll(w) ==
    /\ current[w] = Idle
    /\ ReadyTasks(queue) # {}
    /\ \E todo \in ReadyLists(queue) : Advance(w, queue, todo)

HandlerReturns(w) ==
    /\ current[w] # Idle
    /\ Advance(w, MarkCompleted(queue, current[w]), backlog[w])

HandlerRaises(w) ==
    /\ current[w] # Idle
    /\ Advance(w, MarkFailed(queue, current[w]), backlog[w])

\* AgentCoordinator.submit_task / OmegaOrchestrator.submit_task.
Submit(t) ==
    /\ t \notin submitted
    /\ submitted' = submitted \cup {t}
    /\ queue'     = AddTask(queue, t)
    /\ UNCHANGED <<current, backlog, attempts>>

UserCancel(t) == Cancel(t) /\ UNCHANGED <<current, backlog, submitted, attempts>>

Sweep == /\ Clear
         /\ queue' # queue
         /\ UNCHANGED <<current, backlog, submitted, attempts>>

Tick == Fire /\ UNCHANGED <<current, backlog, submitted, attempts>>

WNext == \/ \E w \in Workers : Poll(w) \/ HandlerReturns(w) \/ HandlerRaises(w)
         \/ \E t \in Tasks : Submit(t) \/ UserCancel(t)
         \/ Sweep
         \/ Tick

WSpec == WInit /\ [][WNext]_allVars

\* A worker keeps polling and every handler it awaits ends, one way or the
\* other: the queue enforces no timeout, so this is asked of the handlers.
Fairness == \A w \in Workers : /\ WF_allVars(Poll(w))
                               /\ WF_allVars(HandlerReturns(w) \/ HandlerRaises(w))

FairSpec == WSpec /\ Fairness

-----------------------------------------------------------------------------
WTypeOK ==
    /\ TypeOK
    /\ current \in [Workers -> Tasks \cup {Idle}]
    /\ backlog \in [Workers -> Seq(Tasks)]
    /\ submitted \subseteq Tasks
    /\ attempts \in [Tasks -> Nat]

Running == {t \in Tasks : queue.status[t] = "running"}

\* _running_count is the number of RUNNING tasks, which are the tasks whose
\* handlers are awaited: with one worker the counter neither leaks nor hits its
\* floor, even when a task of its stale list was cancelled meanwhile.
RunningCountExact ==
    /\ queue.running = Cardinality(Running)
    /\ Running = {current[w] : w \in Workers} \ {Idle}

\* Dependency order: nothing is ready, running or done before all it depends
\* on has completed, through retries, cancellations and sweeps.
DependencyOrder ==
    \A t \in Tasks : queue.status[t] \in {"pending", "running", "completed"}
                        => DepsCompleted(queue.status, t)

\* Retry budget: a handler is started once per attempt the policy grants, and a
\* task is given up only after the last of them.
AttemptBudget ==
    \A t \in Tasks :
        /\ attempts[t] <= MaxRetries[t] + 1
        /\ queue.status[t] = "dead_letter" => attempts[t] = MaxRetries[t] + 1

\* What a status says of a task's life: whether it waits for its dependencies or
\* for its turn is the queue's own affair.
LifeOf(s) == CASE s = "absent"      -> "unknown"
               [] s \in {"pending", "waiting_deps"} -> "open"
               [] s = "completed"   -> "done"
               [] s = "dead_letter" -> "dead"
               [] OTHER             -> s

\* One worker: each task lives as TaskLives says, whatever is submitted, cancelled
\* and swept while the worker's list grows stale.
Lives == INSTANCE TaskLives WITH life <- [t \in Tasks |-> LifeOf(queue.status[t])],
                                 runs <- attempts

LivesSpec == Lives!Spec

\* A result is final: no later retry, cancellation or sweep takes a COMPLETED
\* task out of that state.
CompletedIsFinal ==
    [][\A t \in Tasks : queue.status[t] = "completed" => queue'.status[t] = "completed"]_allVars

\* A ready task is eventually settled.
ReadyTaskSettles ==
    \A t \in Tasks : queue.status[t] = "pending"
        ~> queue.status[t] \in {"completed", "dead_letter", "cancelled", "absent"}

\* t can never become ready: it belongs to a set of waiting tasks each of which
\* has a dependency that is dead, cancelled, unknown or in the set itself.
Doomed(t) ==
    \E S \in SUBSET {u \in Tasks : queue.status[u] = "waiting_deps"} :
        /\ t \in S
        /\ \A u \in S : \E d \in Deps[u] :
              d \in S \/ queue.status[d] \in {"dead_letter", "cancelled", "absent"}

\* A waiting task is eventually released, unless a dependency is out of reach:
\* the queue propagates neither cancellation nor dead-lettering to dependents.
WaitingTaskResolves ==
    \A t \in Tasks : queue.status[t] = "waiting_deps"
        ~> (queue.status[t] # "waiting_deps" \/ Doomed(t))
=============================================================================
