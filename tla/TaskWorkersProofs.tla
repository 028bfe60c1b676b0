-------------------------- MODULE TaskWorkersProofs --------------------------
(***************************************************************************)
(* First what TaskQueue guarantees for every set of tasks, every dependency *)
(* relation (cycles included), every retry policy and every sequence of    *)
(* calls.  Then what one worker running the documented loop gets from it,   *)
(* for every order of equal tasks as well.  With two workers none of that   *)
(* holds: both may take the same task from their lists.                    *)
(***************************************************************************)
EXTENDS TaskWorkers, TLAPS, FiniteSetTheorems, SequenceTheorems

-----------------------------------------------------------------------------
(* The queue. *)

\* The three properties together are inductive.
QueueInv == TypeOK /\ NoStrandedTask /\ DeadLetterExhausted

\* Unblocking changes no status but from WAITING_DEPS to PENDING, so it neither
\* completes a task nor undoes a completion.
LEMMA UnblockFacts ==
    ASSUME NEW st \in [Tasks -> Status \cup {"absent"}]
    PROVE  /\ Unblock(st) \in [Tasks -> Status \cup {"absent"}]
           /\ \A t \in Tasks : \/ Unblock(st)[t] = st[t]
                               \/ /\ st[t] = "waiting_deps"
                                  /\ Unblock(st)[t] = "pending"
                                  /\ DepsCompleted(st, t)
           /\ \A t \in Tasks : DepsCompleted(Unblock(st), t) <=> DepsCompleted(st, t)
           /\ \A t \in Tasks : Unblock(st)[t] = "waiting_deps" => ~DepsCompleted(st, t)
  <1>1. /\ Unblock(st) \in [Tasks -> Status \cup {"absent"}]
        /\ \A t \in Tasks : \/ Unblock(st)[t] = st[t]
                            \/ /\ st[t] = "waiting_deps"
                               /\ Unblock(st)[t] = "pending"
                               /\ DepsCompleted(st, t)
        /\ \A t \in Tasks : Unblock(st)[t] = "waiting_deps" => ~DepsCompleted(st, t)
    BY DEF Unblock, Status
  <1>2. \A t \in Tasks : Unblock(st)[t] = "completed" <=> st[t] = "completed"
    BY <1>1
  <1>3. \A t \in Tasks : DepsCompleted(Unblock(st), t) <=> DepsCompleted(st, t)
    BY <1>2, DepsAssumption DEF DepsCompleted
  <1>4. QED
    BY <1>1, <1>3

\* Setting one task to a status other than COMPLETED cannot complete another
\* task's last dependency.
LEMMA NoNewCompletion ==
    ASSUME NEW st \in [Tasks -> Status \cup {"absent"}],
           NEW t \in Tasks, NEW s \in Status \cup {"absent"}, s # "completed",
           NEW u \in Tasks, ~DepsCompleted(st, u)
    PROVE  ~DepsCompleted([st EXCEPT ![t] = s], u)
  <1>1. PICK d \in Deps[u] : st[d] # "completed"
    BY DEF DepsCompleted
  <1>2. d \in Tasks
    BY DepsAssumption
  <1>3. [st EXCEPT ![t] = s][d] # "completed"
    BY <1>1, <1>2
  <1>4. QED
    BY <1>3 DEF DepsCompleted

-----------------------------------------------------------------------------
(* What each operation does to the fields. *)

LEMMA AddTaskEffect ==
    ASSUME NEW q \in QueueState, NEW t \in Tasks
    PROVE  \E s \in {"pending", "waiting_deps"} :
              /\ AddTask(q, t) \in QueueState
              /\ s = "pending" <=> DepsCompleted(q.status, t)
              /\ AddTask(q, t).status       = [q.status EXCEPT ![t] = s]
              /\ AddTask(q, t).retries_used = [q.retries_used EXCEPT ![t] = 0]
              /\ AddTask(q, t).running      = q.running
  <1> DEFINE s == IF DepsCompleted(q.status, t) THEN "pending" ELSE "waiting_deps"
  <1>1. /\ s \in {"pending", "waiting_deps"}
        /\ s = "pending" <=> DepsCompleted(q.status, t)
    OBVIOUS
  <1>2. AddTask(q, t) = [q EXCEPT !.status[t] = s, !.retries_used[t] = 0]
    BY DEF AddTask
  <1> HIDE DEF s
  <1>3. AddTask(q, t) = [status       |-> [q.status EXCEPT ![t] = s],
                         retries_used |-> [q.retries_used EXCEPT ![t] = 0],
                         running      |-> q.running,
                         timers       |-> q.timers]
    BY <1>2 DEF QueueState
  <1>4. /\ [q.status EXCEPT ![t] = s] \in [Tasks -> Status \cup {"absent"}]
        /\ [q.retries_used EXCEPT ![t] = 0] \in [Tasks -> Nat]
    BY <1>1 DEF QueueState, Status
  <1>5. QED
    BY <1>1, <1>3, <1>4 DEF QueueState

LEMMA MarkRunningEffect ==
    ASSUME NEW q \in QueueState, NEW t \in Tasks, Present(q, t)
    PROVE  /\ MarkRunning(q, t) \in QueueState
           /\ MarkRunning(q, t).status       = [q.status EXCEPT ![t] = "running"]
           /\ MarkRunning(q, t).retries_used = q.retries_used
           /\ MarkRunning(q, t).running      = q.running + 1
  <1>1. MarkRunning(q, t) = [q EXCEPT !.status[t] = "running", !.running = @ + 1]
    BY DEF MarkRunning
  <1>2. /\ [q.status EXCEPT ![t] = "running"] \in [Tasks -> Status \cup {"absent"}]
        /\ q.running + 1 \in Nat
    BY DEF QueueState, Status
  <1>3. MarkRunning(q, t) = [status       |-> [q.status EXCEPT ![t] = "running"],
                             retries_used |-> q.retries_used,
                             running      |-> q.running + 1,
                             timers       |-> q.timers]
    BY <1>1 DEF QueueState
  <1>4. QED
    BY <1>2, <1>3 DEF QueueState

\* mark_completed completes its task, may promote waiting tasks whose
\* dependencies are then all completed, and touches no other task.
LEMMA MarkCompletedEffect ==
    ASSUME NEW q \in QueueState, NEW t \in Tasks, Present(q, t)
    PROVE  LET r == MarkCompleted(q, t)
               done == [q.status EXCEPT ![t] = "completed"]
           IN  /\ r \in QueueState
               /\ r.status       = Unblock(done)
               /\ r.retries_used = q.retries_used
               /\ r.running      = OneLess(q.running)
               /\ done \in [Tasks -> Status \cup {"absent"}]
  <1> DEFINE r == MarkCompleted(q, t)
             done == [q.status EXCEPT ![t] = "completed"]
  <1>1. done \in [Tasks -> Status \cup {"absent"}]
    BY DEF QueueState, Status
  <1>2. r = [q EXCEPT !.status = Unblock(done), !.running = OneLess(@)]
    BY DEF MarkCompleted
  <1>3. OneLess(q.running) \in Nat
    BY DEF OneLess, QueueState
  <1> HIDE DEF done, r
  <1>4. Unblock(done) \in [Tasks -> Status \cup {"absent"}]
    BY <1>1, UnblockFacts
  <1>5. /\ r \in QueueState
        /\ r.status       = Unblock(done)
        /\ r.retries_used = q.retries_used
        /\ r.running      = OneLess(q.running)
    BY <1>2, <1>3, <1>4 DEF QueueState
  <1>6. QED
    BY <1>1, <1>5 DEF done, r

\* mark_failed either spends a retry, or gives up with none left.
LEMMA MarkFailedEffect ==
    ASSUME NEW q \in QueueState, NEW t \in Tasks, Present(q, t),
           q.retries_used[t] <= MaxRetries[t]
    PROVE  LET r == MarkFailed(q, t)
           IN  /\ r \in QueueState
               /\ r.running = OneLess(q.running)
               /\ \/ /\ q.retries_used[t] < MaxRetries[t]
                     /\ r.status = [q.status EXCEPT ![t] = "pending"]
                     /\ r.retries_used = [q.retries_used EXCEPT ![t] = @ + 1]
                  \/ /\ q.retries_used[t] = MaxRetries[t]
                     /\ r.status = [q.status EXCEPT ![t] = "dead_letter"]
                     /\ r.retries_used = q.retries_used
  <1> DEFINE r == MarkFailed(q, t)
             f == [q EXCEPT !.status[t] = "failed", !.running = OneLess(@)]
  <1>1. /\ q.retries_used[t] \in Nat
        /\ MaxRetries[t] \in Nat
        /\ OneLess(q.running) \in Nat
    BY MaxRetriesAssumption DEF QueueState, OneLess
  <1>2. f = [status       |-> [q.status EXCEPT ![t] = "failed"],
             retries_used |-> q.retries_used,
             running      |-> OneLess(q.running),
             timers       |-> q.timers]
    <2>1. f = [q EXCEPT !.status = [q.status EXCEPT ![t] = "failed"],
                        !.running = OneLess(q.running)]
      OBVIOUS
    <2> HIDE DEF f
    <2>2. QED
      BY <2>1 DEF QueueState
  <1>3. f \in QueueState
    <2>1. [q.status EXCEPT ![t] = "failed"] \in [Tasks -> Status \cup {"absent"}]
      BY DEF QueueState, Status
    <2>2. QED
      BY <1>1, <1>2, <2>1 DEF QueueState
  <1>4. CASE q.retries_used[t] < MaxRetries[t]
    <2>1. r = RetryTask(f, t)
      BY <1>4 DEF MarkFailed
    <2> HIDE DEF f, r
    <2>2. /\ q.retries_used[t] + 1 \in Nat
          /\ [q.status EXCEPT ![t] = "pending"] \in [Tasks -> Status \cup {"absent"}]
          /\ [q.retries_used EXCEPT ![t] = @ + 1] \in [Tasks -> Nat]
          /\ q.timers \cup {<<t, q.retries_used[t] + 1>>} \in SUBSET (Tasks \X Nat)
      BY <1>1 DEF QueueState, Status
    <2>3. r = [status       |-> [f.status EXCEPT ![t] = "pending"],
               retries_used |-> [f.retries_used EXCEPT ![t] = @ + 1],
               running      |-> f.running,
               timers       |-> f.timers \cup {<<t, f.retries_used[t] + 1>>}]
      BY <1>3, <2>1 DEF RetryTask, QueueState
    <2>4. [f.status EXCEPT ![t] = "pending"] = [q.status EXCEPT ![t] = "pending"]
      BY <1>2 DEF QueueState
    <2>5. r = [status       |-> [q.status EXCEPT ![t] = "pending"],
               retries_used |-> [q.retries_used EXCEPT ![t] = @ + 1],
               running      |-> OneLess(q.running),
               timers       |-> q.timers \cup {<<t, q.retries_used[t] + 1>>}]
      BY <1>2, <2>3, <2>4
    <2>6. /\ r \in QueueState
          /\ r.running = OneLess(q.running)
          /\ r.status = [q.status EXCEPT ![t] = "pending"]
          /\ r.retries_used = [q.retries_used EXCEPT ![t] = @ + 1]
      BY <1>1, <2>2, <2>5 DEF QueueState
    <2>7. QED
      BY <1>4, <2>6 DEF r
  <1>5. CASE ~(q.retries_used[t] < MaxRetries[t])
    <2>1. r = [f EXCEPT !.status[t] = "dead_letter"]
      BY <1>5 DEF MarkFailed
    <2>2. q.retries_used[t] = MaxRetries[t]
      BY <1>1, <1>5
    <2> HIDE DEF f, r
    <2>3. [q.status EXCEPT ![t] = "dead_letter"] \in [Tasks -> Status \cup {"absent"}]
      BY DEF QueueState, Status
    <2>4. r = [status       |-> [f.status EXCEPT ![t] = "dead_letter"],
               retries_used |-> f.retries_used,
               running      |-> f.running,
               timers       |-> f.timers]
      BY <1>3, <2>1 DEF QueueState
    <2>5. [f.status EXCEPT ![t] = "dead_letter"] = [q.status EXCEPT ![t] = "dead_letter"]
      BY <1>2 DEF QueueState
    <2>6. r = [status       |-> [q.status EXCEPT ![t] = "dead_letter"],
               retries_used |-> q.retries_used,
               running      |-> OneLess(q.running),
               timers       |-> q.timers]
      BY <1>2, <2>4, <2>5
    <2>7. /\ r \in QueueState
          /\ r.running = OneLess(q.running)
          /\ r.status = [q.status EXCEPT ![t] = "dead_letter"]
          /\ r.retries_used = q.retries_used
      BY <1>1, <2>3, <2>6 DEF QueueState
    <2>8. QED
      BY <2>2, <2>7 DEF r
  <1>6. QED
    BY <1>4, <1>5

-----------------------------------------------------------------------------
(* Each call preserves the invariant. *)

LEMMA InitQueueInv == Init => QueueInv
  BY MaxRetriesAssumption
  DEF Init, QueueInv, TypeOK, NoStrandedTask, DeadLetterExhausted, EmptyQueue,
      QueueState, Status

LEMMA AddQueueInv ==
    ASSUME QueueInv, NEW t \in Tasks, Add(t)
    PROVE  QueueInv'
  <1> USE DEF QueueInv
  <1>0. queue \in QueueState
    BY DEF TypeOK
  <1>1. PICK s \in {"pending", "waiting_deps"} :
            /\ queue' \in QueueState
            /\ s = "pending" <=> DepsCompleted(queue.status, t)
            /\ queue'.status       = [queue.status EXCEPT ![t] = s]
            /\ queue'.retries_used = [queue.retries_used EXCEPT ![t] = 0]
    BY <1>0, AddTaskEffect DEF Add
  <1>2. TypeOK'
    BY <1>1, MaxRetriesAssumption DEF TypeOK, QueueState
  <1>3. NoStrandedTask'
    <2> SUFFICES ASSUME NEW u \in Tasks, queue'.status[u] = "waiting_deps"
                 PROVE  ~DepsCompleted(queue'.status, u)
      BY DEF NoStrandedTask
    <2>1. ~DepsCompleted(queue.status, u)
      BY <1>0, <1>1 DEF NoStrandedTask, QueueState
    <2>2. s \in Status \cup {"absent"} /\ s # "completed"
      BY DEF Status
    <2>3. QED
      BY <1>0, <1>1, <2>1, <2>2, NoNewCompletion DEF QueueState
  <1>4. DeadLetterExhausted'
    BY <1>0, <1>1 DEF DeadLetterExhausted, QueueState
  <1>5. QED
    BY <1>2, <1>3, <1>4

LEMMA CancelQueueInv ==
    ASSUME QueueInv, NEW t \in Tasks, Cancel(t)
    PROVE  QueueInv'
  <1> USE DEF QueueInv
  <1>0. queue \in QueueState
    BY DEF TypeOK
  <1>1. /\ queue'.status       = [queue.status EXCEPT ![t] = "cancelled"]
        /\ queue'.retries_used = queue.retries_used
        /\ queue' \in QueueState
    BY <1>0 DEF Cancel, CancelTask, Cancellable, QueueState, Status
  <1>2. TypeOK'
    BY <1>1 DEF TypeOK
  <1>3. NoStrandedTask'
    <2> SUFFICES ASSUME NEW u \in Tasks, queue'.status[u] = "waiting_deps"
                 PROVE  ~DepsCompleted(queue'.status, u)
      BY DEF NoStrandedTask
    <2>1. ~DepsCompleted(queue.status, u)
      BY <1>0, <1>1 DEF NoStrandedTask, QueueState
    <2>2. "cancelled" \in Status \cup {"absent"} /\ "cancelled" # "completed"
      BY DEF Status
    <2>3. QED
      BY <1>0, <1>1, <2>1, <2>2, NoNewCompletion DEF QueueState
  <1>4. DeadLetterExhausted'
    BY <1>0, <1>1 DEF DeadLetterExhausted, QueueState
  <1>5. QED
    BY <1>2, <1>3, <1>4

LEMMA RunQueueInv ==
    ASSUME QueueInv, NEW t \in Tasks, Run(t)
    PROVE  QueueInv'
  <1> USE DEF QueueInv
  <1>0. queue \in QueueState
    BY DEF TypeOK
  <1>1. /\ queue'.status       = [queue.status EXCEPT ![t] = "running"]
        /\ queue'.retries_used = queue.retries_used
        /\ queue' \in QueueState
    BY <1>0, MarkRunningEffect DEF Run
  <1>2. TypeOK'
    BY <1>1 DEF TypeOK
  <1>3. NoStrandedTask'
    <2> SUFFICES ASSUME NEW u \in Tasks, queue'.status[u] = "waiting_deps"
                 PROVE  ~DepsCompleted(queue'.status, u)
      BY DEF NoStrandedTask
    <2>1. ~DepsCompleted(queue.status, u)
      BY <1>0, <1>1 DEF NoStrandedTask, QueueState
    <2>2. "running" \in Status \cup {"absent"} /\ "running" # "completed"
      BY DEF Status
    <2>3. QED
      BY <1>0, <1>1, <2>1, <2>2, NoNewCompletion DEF QueueState
  <1>4. DeadLetterExhausted'
    BY <1>0, <1>1 DEF DeadLetterExhausted, QueueState
  <1>5. QED
    BY <1>2, <1>3, <1>4

\* The one call that completes a task re-examines every waiting task.
LEMMA CompleteQueueInv ==
    ASSUME QueueInv, NEW t \in Tasks, Complete(t)
    PROVE  QueueInv'
  <1> USE DEF QueueInv
  <1> DEFINE done == [queue.status EXCEPT ![t] = "completed"]
  <1>0. queue \in QueueState
    BY DEF TypeOK
  <1>1. done \in [Tasks -> Status \cup {"absent"}]
    BY <1>0 DEF QueueState, Status
  <1>2. /\ queue'.status       = Unblock(done)
        /\ queue'.retries_used = queue.retries_used
        /\ queue' \in QueueState
    BY <1>0, MarkCompletedEffect DEF Complete
  <1>3. TypeOK'
    BY <1>2 DEF TypeOK
  <1>4. NoStrandedTask'
    <2> HIDE DEF done
    <2>1. QED
      BY <1>1, <1>2, UnblockFacts DEF NoStrandedTask
  <1>5. DeadLetterExhausted'
    <2>1. \A u \in Tasks : queue'.status[u] \in {done[u], "pending"}
      <3> HIDE DEF done
      <3>1. QED
        BY <1>1, <1>2, UnblockFacts
    <2>2. \A u \in Tasks : done[u] \in {queue.status[u], "completed"}
      BY <1>0 DEF QueueState
    <2>3. QED
      BY <1>2, <2>1, <2>2 DEF DeadLetterExhausted
  <1>6. QED
    BY <1>3, <1>4, <1>5

LEMMA FailQueueInv ==
    ASSUME QueueInv, NEW t \in Tasks, Fail(t)
    PROVE  QueueInv'
  <1> USE DEF QueueInv
  <1>0. queue \in QueueState
    BY DEF TypeOK
  <1>1. PICK s \in {"pending", "dead_letter"} :
            /\ queue' \in QueueState
            /\ queue'.status = [queue.status EXCEPT ![t] = s]
            /\ s = "dead_letter" => queue'.retries_used[t] = MaxRetries[t]
            /\ queue'.retries_used[t] <= MaxRetries[t]
            /\ \A u \in Tasks : u # t => queue'.retries_used[u] = queue.retries_used[u]
    <2>1. /\ queue.retries_used \in [Tasks -> Nat]
          /\ queue.retries_used[t] <= MaxRetries[t]
          /\ queue.retries_used[t] \in Nat /\ MaxRetries[t] \in Nat
      BY <1>0, MaxRetriesAssumption DEF TypeOK, QueueState
    <2>2. /\ queue' \in QueueState
          /\ \/ /\ queue.retries_used[t] < MaxRetries[t]
                /\ queue'.status = [queue.status EXCEPT ![t] = "pending"]
                /\ queue'.retries_used = [queue.retries_used EXCEPT ![t] = @ + 1]
             \/ /\ queue.retries_used[t] = MaxRetries[t]
                /\ queue'.status = [queue.status EXCEPT ![t] = "dead_letter"]
                /\ queue'.retries_used = queue.retries_used
      BY <1>0, <2>1, MarkFailedEffect DEF Fail
    <2>3. QED
      BY <2>1, <2>2
  <1>2. TypeOK'
    BY <1>1 DEF TypeOK
  <1>3. NoStrandedTask'
    <2> SUFFICES ASSUME NEW u \in Tasks, queue'.status[u] = "waiting_deps"
                 PROVE  ~DepsCompleted(queue'.status, u)
      BY DEF NoStrandedTask
    <2>1. ~DepsCompleted(queue.status, u)
      BY <1>0, <1>1 DEF NoStrandedTask, QueueState
    <2>2. s \in Status \cup {"absent"} /\ s # "completed"
      BY DEF Status
    <2>3. QED
      BY <1>0, <1>1, <2>1, <2>2, NoNewCompletion DEF QueueState
  <1>4. DeadLetterExhausted'
    <2>1. \A u \in Tasks : queue'.status[u] = IF u = t THEN s ELSE queue.status[u]
      BY <1>0, <1>1 DEF QueueState
    <2>2. QED
      BY <1>1, <2>1 DEF DeadLetterExhausted
  <1>5. QED
    BY <1>2, <1>3, <1>4

LEMMA ClearQueueInv ==
    ASSUME QueueInv, Clear
    PROVE  QueueInv'
  <1> USE DEF QueueInv
  <1>0. queue \in QueueState
    BY DEF TypeOK
  <1>1. /\ queue'.status = [t \in Tasks |-> IF queue.status[t] = "dead_letter"
                                            THEN "absent" ELSE queue.status[t]]
        /\ queue'.retries_used = queue.retries_used
        /\ queue' \in QueueState
    BY <1>0 DEF Clear, ClearDeadLetters, QueueState
  <1>2. TypeOK'
    BY <1>1 DEF TypeOK
  <1>3. \A t \in Tasks : DepsCompleted(queue'.status, t) => DepsCompleted(queue.status, t)
    BY <1>1, DepsAssumption DEF DepsCompleted
  <1>4. NoStrandedTask'
    BY <1>1, <1>3 DEF NoStrandedTask
  <1>5. DeadLetterExhausted'
    BY <1>1 DEF DeadLetterExhausted
  <1>6. QED
    BY <1>2, <1>4, <1>5

LEMMA FireQueueInv ==
    ASSUME QueueInv, Fire
    PROVE  QueueInv'
  <1> USE DEF QueueInv
  <1>1. /\ queue'.status       = queue.status
        /\ queue'.retries_used = queue.retries_used
        /\ queue' \in QueueState
    BY DEF TypeOK, Fire, TimerFires, QueueState
  <1>2. QED
    BY <1>1 DEF TypeOK, NoStrandedTask, DeadLetterExhausted

-----------------------------------------------------------------------------
LEMMA NextQueueInv == QueueInv /\ [Next]_vars => QueueInv'
  <1> SUFFICES ASSUME QueueInv, [Next]_vars PROVE QueueInv'
    OBVIOUS
  <1>1. ASSUME NEW t \in Tasks, Add(t) PROVE QueueInv'
    BY <1>1, AddQueueInv
  <1>2. ASSUME NEW t \in Tasks, Cancel(t) PROVE QueueInv'
    BY <1>2, CancelQueueInv
  <1>3. ASSUME NEW t \in Tasks, Run(t) PROVE QueueInv'
    BY <1>3, RunQueueInv
  <1>4. ASSUME NEW t \in Tasks, Complete(t) PROVE QueueInv'
    BY <1>4, CompleteQueueInv
  <1>5. ASSUME NEW t \in Tasks, Fail(t) PROVE QueueInv'
    BY <1>5, FailQueueInv
  <1>6. CASE Clear
    BY <1>6, ClearQueueInv
  <1>7. CASE Fire
    BY <1>7, FireQueueInv
  <1>8. CASE UNCHANGED vars
    BY <1>8 DEF QueueInv, TypeOK, NoStrandedTask, DeadLetterExhausted, vars
  <1>9. QED
    BY <1>1, <1>2, <1>3, <1>4, <1>5, <1>6, <1>7, <1>8 DEF Next

\* Whatever calls are made: the fields keep their types and no task is retried
\* beyond its policy (mark_failed's test of retries_used against max_retries).
THEOREM TypeCorrect == Spec => []TypeOK
  <1>1. Spec => []QueueInv
    BY InitQueueInv, NextQueueInv, PTL DEF Spec
  <1>2. QueueInv => TypeOK
    BY DEF QueueInv
  <1>3. QED
    BY <1>1, <1>2, PTL

\* Whatever calls are made: add_task and mark_completed never leave a task
\* waiting for dependencies that have all completed.
THEOREM NeverStranded == Spec => []NoStrandedTask
  <1>1. Spec => []QueueInv
    BY InitQueueInv, NextQueueInv, PTL DEF Spec
  <1>2. QueueInv => NoStrandedTask
    BY DEF QueueInv
  <1>3. QED
    BY <1>1, <1>2, PTL

\* Whatever calls are made: mark_failed dead-letters a task only when its
\* retries are spent, and FAILED and TIMEOUT are never observable.
THEOREM DeadLettersExhausted == Spec => []DeadLetterExhausted
  <1>1. Spec => []QueueInv
    BY InitQueueInv, NextQueueInv, PTL DEF Spec
  <1>2. QueueInv => DeadLetterExhausted
    BY DEF QueueInv
  <1>3. QED
    BY <1>1, <1>2, PTL

-----------------------------------------------------------------------------
(* The worker. *)

\* The tasks on the worker's list: still PENDING, or CANCELLED since it was
\* taken; listed once; their dependencies complete and, with one worker, so
\* for good.
ListSound(q, todo) ==
    /\ todo \in Seq(Tasks)
    /\ \A i \in 1..Len(todo) : /\ q.status[todo[i]] \in {"pending", "cancelled"}
                               /\ DepsCompleted(q.status, todo[i])
    /\ \A i, j \in 1..Len(todo) : i < j => todo[i] # todo[j]

Ordered(q) ==
    \A t \in Tasks : q.status[t] \in {"pending", "running", "completed"}
                        => DepsCompleted(q.status, t)

\* Each start is a retry spent or the attempt that is running or was the last.
Counted(q, sub, att, t) ==
    /\ att[t] <= MaxRetries[t] + 1
    /\ q.retries_used[t] <= MaxRetries[t]
    /\ q.status[t] \in {"running", "completed", "dead_letter"} => att[t] = q.retries_used[t] + 1
    /\ q.status[t] \in {"pending", "waiting_deps", "cancelled"} => att[t] = q.retries_used[t]
    /\ q.status[t] = "dead_letter" => q.retries_used[t] = MaxRetries[t]
    /\ q.status[t] \notin {"failed", "timeout"}
    /\ t \notin sub => q.status[t] = "absent" /\ att[t] = 0

\* The state of the loop, about a queue value so that it can be asserted
\* between the two calls a worker makes in one step.
Loop(q, cur, todo, sub, att) ==
    /\ q \in QueueState
    /\ cur \in Tasks \cup {Idle}
    /\ sub \subseteq Tasks
    /\ att \in [Tasks -> Nat]
    /\ \A t \in Tasks : q.status[t] = "running" <=> cur = t
    /\ q.running = IF cur = Idle THEN 0 ELSE 1
    /\ ListSound(q, todo)
    /\ Ordered(q)
    /\ \A t \in Tasks : Counted(q, sub, att, t)

\* The inductive invariant for the worker w.
WInv(w) ==
    /\ current \in [Workers -> Tasks \cup {Idle}]
    /\ backlog \in [Workers -> Seq(Tasks)]
    /\ current[w] = Idle => backlog[w] = <<>>
    /\ Loop(queue, current[w], backlog[w], submitted, attempts)

-----------------------------------------------------------------------------
\* Between two calls: when the handler of t ends, the queue is as if the worker
\* were idle, with the rest of its list still sound.
LEMMA ReturnLoop ==
    ASSUME NEW q, NEW t \in Tasks, NEW todo, NEW sub, NEW att,
           Loop(q, t, todo, sub, att)
    PROVE  Loop(MarkCompleted(q, t), Idle, todo, sub, att)
  <1> DEFINE r == MarkCompleted(q, t)
             done == [q.status EXCEPT ![t] = "completed"]
  <1>0. /\ q \in QueueState
        /\ q.status[t] = "running"
        /\ t # Idle
        /\ q.running = 1
    BY IdleAssumption DEF Loop
  <1>1. /\ r \in QueueState
        /\ r.status       = Unblock(done)
        /\ r.retries_used = q.retries_used
        /\ r.running      = OneLess(q.running)
        /\ done \in [Tasks -> Status \cup {"absent"}]
    BY <1>0, MarkCompletedEffect DEF Present
  <1>2. /\ done[t] = "completed"
        /\ \A u \in Tasks : u # t => done[u] = q.status[u]
    BY <1>0 DEF QueueState
  <1> HIDE DEF r, done
  <1>3. \A u \in Tasks : DepsCompleted(q.status, u) => DepsCompleted(r.status, u)
    <2>1. \A u \in Tasks : DepsCompleted(q.status, u) => DepsCompleted(done, u)
      BY <1>2, DepsAssumption DEF DepsCompleted
    <2>2. QED
      BY <1>1, <2>1, UnblockFacts
  <1>4. \A u \in Tasks :
            \/ u = t /\ r.status[u] = "completed"
            \/ u # t /\ r.status[u] = q.status[u]
            \/ /\ u # t /\ q.status[u] = "waiting_deps" /\ r.status[u] = "pending"
               /\ DepsCompleted(r.status, u)
    BY <1>1, <1>2, UnblockFacts
  <1>5. \A u \in Tasks : r.status[u] = "running" <=> Idle = u
    BY <1>0, <1>4, IdleAssumption DEF Loop
  <1>6. r.running = 0
    BY <1>0, <1>1 DEF OneLess
  <1>7. ListSound(r, todo)
    <2>1. \A i \in 1..Len(todo) : todo[i] \in Tasks
      BY ElementOfSeq DEF Loop, ListSound
    <2>2. QED
      BY <1>0, <1>3, <1>4, <2>1 DEF Loop, ListSound
  <1>8. Ordered(r)
    BY <1>0, <1>3, <1>4 DEF Loop, Ordered
  <1>9. ASSUME NEW u \in Tasks PROVE Counted(r, sub, att, u)
    BY <1>0, <1>1, <1>4 DEF Loop, Counted
  <1>10. QED
    BY <1>1, <1>5, <1>6, <1>7, <1>8, <1>9 DEF Loop, r

LEMMA RaiseLoop ==
    ASSUME NEW q, NEW t \in Tasks, NEW todo, NEW sub, NEW att,
           Loop(q, t, todo, sub, att)
    PROVE  Loop(MarkFailed(q, t), Idle, todo, sub, att)
  <1> DEFINE r == MarkFailed(q, t)
  <1>0. /\ q \in QueueState
        /\ q.status[t] = "running"
        /\ t # Idle
        /\ q.running = 1
        /\ q.retries_used[t] <= MaxRetries[t]
    BY IdleAssumption DEF Loop, Counted
  <1>1. /\ r \in QueueState
        /\ r.running = OneLess(q.running)
        /\ \/ /\ q.retries_used[t] < MaxRetries[t]
              /\ r.status = [q.status EXCEPT ![t] = "pending"]
              /\ r.retries_used = [q.retries_used EXCEPT ![t] = @ + 1]
           \/ /\ q.retries_used[t] = MaxRetries[t]
              /\ r.status = [q.status EXCEPT ![t] = "dead_letter"]
              /\ r.retries_used = q.retries_used
    BY <1>0, MarkFailedEffect DEF Present
  <1> HIDE DEF r
  <1>2. /\ r.status[t] \in {"pending", "dead_letter"}
        /\ \A u \in Tasks : u # t => /\ r.status[u] = q.status[u]
                                     /\ r.retries_used[u] = q.retries_used[u]
    BY <1>0, <1>1 DEF QueueState
  <1>3. \A u \in Tasks : DepsCompleted(q.status, u) => DepsCompleted(r.status, u)
    BY <1>0, <1>2, DepsAssumption DEF DepsCompleted
  <1>4. \A u \in Tasks : r.status[u] = "running" <=> Idle = u
    BY <1>0, <1>2, IdleAssumption DEF Loop
  <1>5. r.running = 0
    BY <1>0, <1>1 DEF OneLess
  <1>6. ListSound(r, todo)
    <2>1. \A i \in 1..Len(todo) : todo[i] \in Tasks
      BY ElementOfSeq DEF Loop, ListSound
    <2>2. QED
      BY <1>0, <1>2, <1>3, <2>1 DEF Loop, ListSound
  <1>7. Ordered(r)
    <2>1. DepsCompleted(q.status, t)
      BY <1>0 DEF Loop, Ordered
    <2>2. QED
      BY <1>0, <1>2, <1>3, <2>1 DEF Loop, Ordered
  <1>8. ASSUME NEW u \in Tasks PROVE Counted(r, sub, att, u)
    <2>1. CASE u # t
      BY <1>2, <2>1 DEF Loop, Counted
    <2>2. CASE u = t
      <3>1. /\ att[t] = q.retries_used[t] + 1
            /\ att[t] \in Nat /\ q.retries_used[t] \in Nat /\ MaxRetries[t] \in Nat
            /\ t \in sub
        BY <1>0, MaxRetriesAssumption DEF Loop, Counted, QueueState
      <3>2. \/ /\ q.retries_used[t] < MaxRetries[t]
               /\ r.status[t] = "pending"
               /\ r.retries_used[t] = q.retries_used[t] + 1
            \/ /\ q.retries_used[t] = MaxRetries[t]
               /\ r.status[t] = "dead_letter"
               /\ r.retries_used[t] = q.retries_used[t]
        BY <1>0, <1>1 DEF QueueState
      <3>3. QED
        BY <2>2, <3>1, <3>2 DEF Counted
    <2>3. QED
      BY <2>1, <2>2
  <1>9. QED
    BY <1>1, <1>4, <1>5, <1>6, <1>7, <1>8 DEF Loop, r

\* The next task of the list starts, or the loop ends.
LEMMA AdvanceInv ==
    ASSUME NEW w, Workers = {w}, NEW q, NEW todo,
           current \in [Workers -> Tasks \cup {Idle}],
           backlog \in [Workers -> Seq(Tasks)],
           Loop(q, Idle, todo, submitted, attempts),
           Advance(w, q, todo)
    PROVE  WInv(w)'
  <1>0. /\ q \in QueueState
        /\ todo \in Seq(Tasks)
        /\ \A u \in Tasks : q.status[u] # "running"
        /\ q.running = 0
    BY IdleAssumption DEF Loop, ListSound
  <1>1. CASE todo = <<>>
    <2>1. /\ queue' = q /\ current'[w] = Idle /\ backlog'[w] = <<>>
          /\ submitted' = submitted /\ attempts' = attempts
          /\ current' \in [Workers -> Tasks \cup {Idle}]
          /\ backlog' \in [Workers -> Seq(Tasks)]
      BY <1>1, EmptySeq DEF Advance
    <2>2. Loop(q, Idle, <<>>, submitted, attempts)
      BY <1>1
    <2>3. QED
      BY <2>1, <2>2 DEF WInv
  <1>2. CASE todo # <<>>
    <2> DEFINE t == Head(todo)
               r == MarkRunning(q, t)
               rest == Tail(todo)
               att == [attempts EXCEPT ![t] = @ + 1]
    <2>1. /\ t \in Tasks /\ t = todo[1] /\ Len(todo) \in Nat \ {0}
          /\ rest \in Seq(Tasks) /\ Len(rest) = Len(todo) - 1
          /\ \A i \in 1..Len(rest) : rest[i] = todo[i + 1] /\ rest[i] \in Tasks
      BY <1>0, <1>2
    <2>2. /\ q.status[t] \in {"pending", "cancelled"}
          /\ DepsCompleted(q.status, t)
      BY <2>1 DEF Loop, ListSound
    <2>3. /\ r \in QueueState
          /\ r.status       = [q.status EXCEPT ![t] = "running"]
          /\ r.retries_used = q.retries_used
          /\ r.running      = q.running + 1
      BY <1>0, <2>1, <2>2, MarkRunningEffect DEF Present
    <2>4. /\ queue' = r /\ current'[w] = t /\ backlog'[w] = rest
          /\ submitted' = submitted /\ attempts' = att
          /\ current' \in [Workers -> Tasks \cup {Idle}]
          /\ backlog' \in [Workers -> Seq(Tasks)]
      BY <1>2, <2>1 DEF Advance
    <2>5. /\ attempts \in [Tasks -> Nat]
          /\ att \in [Tasks -> Nat]
          /\ att[t] = attempts[t] + 1
          /\ \A u \in Tasks : u # t => att[u] = attempts[u]
      BY <2>1 DEF Loop
    <2>6. t # Idle
      BY <2>1, IdleAssumption
    <2>7. \A i \in 1..Len(rest) : rest[i] # t
      BY <2>1 DEF Loop, ListSound
    <2> HIDE DEF t, r, rest, att
    <2>8. /\ r.status[t] = "running"
          /\ \A u \in Tasks : u # t => r.status[u] = q.status[u]
      BY <1>0, <2>1, <2>3 DEF QueueState
    <2>9. \A u \in Tasks : DepsCompleted(q.status, u) => DepsCompleted(r.status, u)
      BY <2>1, <2>2, <2>8, DepsAssumption DEF DepsCompleted
    <2>10. ListSound(r, rest)
      <3>1. \A i \in 1..Len(rest) : i + 1 \in 1..Len(todo)
        BY <2>1
      <3>2. ASSUME NEW i \in 1..Len(rest)
            PROVE  /\ q.status[rest[i]] \in {"pending", "cancelled"}
                   /\ DepsCompleted(q.status, rest[i])
        <4>1. /\ q.status[todo[i + 1]] \in {"pending", "cancelled"}
              /\ DepsCompleted(q.status, todo[i + 1])
          BY <3>1 DEF Loop, ListSound
        <4>2. QED
          BY <2>1, <4>1
      <3>3. ASSUME NEW i \in 1..Len(rest), NEW j \in 1..Len(rest), i < j
            PROVE  rest[i] # rest[j]
        <4>1. i + 1 \in 1..Len(todo) /\ j + 1 \in 1..Len(todo) /\ i + 1 < j + 1
          <5>1. i \in Nat /\ j \in Nat
            BY <2>1, <3>3
          <5>2. QED
            BY <3>1, <3>3, <5>1
        <4>2. todo[i + 1] # todo[j + 1]
          BY <4>1 DEF Loop, ListSound
        <4>3. QED
          BY <2>1, <4>2
      <3>4. QED
        BY <2>1, <2>7, <2>8, <2>9, <3>2, <3>3 DEF ListSound
    <2>11. Ordered(r)
      BY <2>2, <2>8, <2>9 DEF Loop, Ordered
    <2>12. ASSUME NEW u \in Tasks PROVE Counted(r, submitted, att, u)
      <3>1. Counted(q, submitted, attempts, u)
        BY DEF Loop
      <3>2. /\ attempts[u] \in Nat /\ q.retries_used[u] \in Nat /\ MaxRetries[u] \in Nat
        BY <1>0, <2>5, MaxRetriesAssumption DEF QueueState
      <3>3. CASE u # t
        BY <2>3, <2>5, <2>8, <3>1, <3>3 DEF Counted
      <3>4. CASE u = t
        BY <2>2, <2>3, <2>5, <2>8, <3>1, <3>2, <3>4 DEF Counted
      <3>5. QED
        BY <3>3, <3>4
    <2>13. Loop(r, t, rest, submitted, att)
      BY <1>0, <2>1, <2>3, <2>5, <2>6, <2>8, <2>10, <2>11, <2>12 DEF Loop
    <2>14. QED
      BY <2>4, <2>6, <2>13 DEF WInv
  <1>3. QED
    BY <1>1, <1>2

\* A list of ready tasks is sound: they are pending, hence in dependency order.
LEMMA PollList ==
    ASSUME NEW sub, NEW att, NEW q, Loop(q, Idle, <<>>, sub, att),
           NEW todo \in ReadyLists(q)
    PROVE  Loop(q, Idle, todo, sub, att)
  <1> DEFINE n == Cardinality(ReadyTasks(q))
  <1>1. n \in Nat
    BY TasksAssumption, FS_Subset, FS_CardinalityType DEF ReadyTasks
  <1>2. /\ todo \in [1..n -> ReadyTasks(q)]
        /\ \A i, j \in 1..n : i < j => todo[i] # todo[j]
    BY DEF ReadyLists
  <1> HIDE DEF n
  <1>3. todo \in Seq(ReadyTasks(q))
    BY <1>1, <1>2, SeqDef
  <1>4. todo \in Seq(Tasks) /\ Len(todo) = n
    <2>1. ReadyTasks(q) \subseteq Tasks
      BY DEF ReadyTasks
    <2>2. DOMAIN todo = 1..Len(todo) /\ Len(todo) \in Nat
      BY <1>3, LenProperties
    <2>3. QED
      BY <1>1, <1>2, <1>3, <2>1, <2>2, SeqMonotonic
  <1>5. \A i \in 1..n : todo[i] \in Tasks /\ q.status[todo[i]] = "pending"
    BY <1>2 DEF ReadyTasks
  <1>6. ListSound(q, todo)
    BY <1>2, <1>4, <1>5 DEF ListSound, Loop, Ordered
  <1>7. QED
    BY <1>6 DEF Loop

-----------------------------------------------------------------------------
(* Steps of the worker's environment: the list it holds stays sound. *)

LEMMA SubmitInv ==
    ASSUME NEW w \in Workers, WInv(w), NEW t \in Tasks, Submit(t)
    PROVE  WInv(w)'
  <1>0. /\ queue \in QueueState
        /\ t \notin submitted /\ queue.status[t] = "absent" /\ attempts[t] = 0
        /\ Loop(queue, current[w], backlog[w], submitted, attempts)
    BY DEF WInv, Loop, Counted, Submit
  <1>1. PICK s \in {"pending", "waiting_deps"} :
            /\ queue' \in QueueState
            /\ s = "pending" <=> DepsCompleted(queue.status, t)
            /\ queue'.status       = [queue.status EXCEPT ![t] = s]
            /\ queue'.retries_used = [queue.retries_used EXCEPT ![t] = 0]
            /\ queue'.running      = queue.running
    BY <1>0, AddTaskEffect DEF Submit
  <1>2. /\ queue'.status[t] = s /\ queue'.retries_used[t] = 0
        /\ \A u \in Tasks : u # t => /\ queue'.status[u] = queue.status[u]
                                     /\ queue'.retries_used[u] = queue.retries_used[u]
    BY <1>0, <1>1 DEF QueueState
  <1>3. UNCHANGED <<current, backlog, attempts>> /\ submitted' = submitted \cup {t}
    BY DEF Submit
  <1>4. \A u \in Tasks : DepsCompleted(queue.status, u) => DepsCompleted(queue'.status, u)
    BY <1>0, <1>2, DepsAssumption DEF DepsCompleted
  <1>5. ListSound(queue', backlog[w])
    <2>1. \A i \in 1..Len(backlog[w]) : backlog[w][i] \in Tasks
      BY <1>0, ElementOfSeq DEF Loop, ListSound
    <2>2. \A i \in 1..Len(backlog[w]) : backlog[w][i] # t
      BY <1>0 DEF Loop, ListSound
    <2>3. QED
      BY <1>0, <1>2, <1>4, <2>1, <2>2 DEF Loop, ListSound
  <1>6. Ordered(queue')
    BY <1>0, <1>1, <1>2, <1>4 DEF Loop, Ordered
  <1>7. \A u \in Tasks : queue'.status[u] = "running" <=> current[w] = u
    BY <1>0, <1>2 DEF Loop
  <1>8. ASSUME NEW u \in Tasks PROVE Counted(queue', submitted', attempts, u)
    <2>1. Counted(queue, submitted, attempts, u)
      BY <1>0 DEF Loop
    <2>2. MaxRetries[u] \in Nat
      BY MaxRetriesAssumption
    <2>3. CASE u # t
      BY <1>2, <1>3, <2>1, <2>3 DEF Counted
    <2>4. CASE u = t
      BY <1>0, <1>2, <1>3, <2>2, <2>4 DEF Counted
    <2>5. QED
      BY <2>3, <2>4
  <1>9. Loop(queue', current[w], backlog[w], submitted', attempts)
    BY <1>0, <1>1, <1>3, <1>5, <1>6, <1>7, <1>8 DEF Loop
  <1>10. QED
    BY <1>3, <1>9 DEF WInv

LEMMA CancelInv ==
    ASSUME NEW w \in Workers, WInv(w), NEW t \in Tasks, UserCancel(t)
    PROVE  WInv(w)'
  <1>0. /\ queue \in QueueState
        /\ queue.status[t] \in {"pending", "waiting_deps"}
        /\ Loop(queue, current[w], backlog[w], submitted, attempts)
    BY DEF WInv, Loop, UserCancel, Cancel, Cancellable
  <1>1. /\ queue'.status       = [queue.status EXCEPT ![t] = "cancelled"]
        /\ queue'.retries_used = queue.retries_used
        /\ queue'.running      = queue.running
        /\ queue' \in QueueState
    BY <1>0 DEF UserCancel, Cancel, CancelTask, Cancellable, QueueState, Status
  <1>2. /\ queue'.status[t] = "cancelled"
        /\ \A u \in Tasks : u # t => queue'.status[u] = queue.status[u]
    BY <1>0, <1>1 DEF QueueState
  <1>3. UNCHANGED <<current, backlog, submitted, attempts>>
    BY DEF UserCancel
  <1>4. \A u \in Tasks : DepsCompleted(queue.status, u) => DepsCompleted(queue'.status, u)
    BY <1>0, <1>2, DepsAssumption DEF DepsCompleted
  <1>5. ListSound(queue', backlog[w])
    <2>1. \A i \in 1..Len(backlog[w]) : backlog[w][i] \in Tasks
      BY <1>0, ElementOfSeq DEF Loop, ListSound
    <2>2. QED
      BY <1>0, <1>2, <1>4, <2>1 DEF Loop, ListSound
  <1>6. Ordered(queue')
    BY <1>0, <1>2, <1>4 DEF Loop, Ordered
  <1>7. \A u \in Tasks : queue'.status[u] = "running" <=> current[w] = u
    BY <1>0, <1>2 DEF Loop
  <1>8. ASSUME NEW u \in Tasks PROVE Counted(queue', submitted, attempts, u)
    BY <1>0, <1>1, <1>2 DEF Loop, Counted
  <1>9. Loop(queue', current[w], backlog[w], submitted, attempts)
    BY <1>0, <1>1, <1>5, <1>6, <1>7, <1>8 DEF Loop
  <1>10. QED
    BY <1>3, <1>9 DEF WInv

LEMMA SweepInv ==
    ASSUME NEW w \in Workers, WInv(w), Sweep
    PROVE  WInv(w)'
  <1>0. /\ queue \in QueueState
        /\ Loop(queue, current[w], backlog[w], submitted, attempts)
    BY DEF WInv, Loop
  <1>1. /\ queue'.status = [u \in Tasks |-> IF queue.status[u] = "dead_letter"
                                            THEN "absent" ELSE queue.status[u]]
        /\ queue'.retries_used = queue.retries_used
        /\ queue'.running      = queue.running
        /\ queue' \in QueueState
    BY <1>0 DEF Sweep, Clear, ClearDeadLetters, QueueState
  <1>2. UNCHANGED <<current, backlog, submitted, attempts>>
    BY DEF Sweep
  <1>3. \A u \in Tasks : DepsCompleted(queue.status, u) => DepsCompleted(queue'.status, u)
    BY <1>1, DepsAssumption DEF DepsCompleted
  <1>4. ListSound(queue', backlog[w])
    <2>1. \A i \in 1..Len(backlog[w]) : backlog[w][i] \in Tasks
      BY <1>0, ElementOfSeq DEF Loop, ListSound
    <2>2. QED
      BY <1>0, <1>1, <1>3, <2>1 DEF Loop, ListSound
  <1>5. Ordered(queue')
    BY <1>0, <1>1, <1>3 DEF Loop, Ordered
  <1>6. \A u \in Tasks : queue'.status[u] = "running" <=> current[w] = u
    BY <1>0, <1>1 DEF Loop
  <1>7. ASSUME NEW u \in Tasks PROVE Counted(queue', submitted, attempts, u)
    BY <1>0, <1>1 DEF Loop, Counted
  <1>8. Loop(queue', current[w], backlog[w], submitted, attempts)
    BY <1>0, <1>1, <1>4, <1>5, <1>6, <1>7 DEF Loop
  <1>9. QED
    BY <1>2, <1>8 DEF WInv

LEMMA TickInv ==
    ASSUME NEW w \in Workers, WInv(w), Tick
    PROVE  WInv(w)'
  <1>0. /\ queue \in QueueState
        /\ Loop(queue, current[w], backlog[w], submitted, attempts)
    BY DEF WInv, Loop
  <1>1. /\ queue'.status       = queue.status
        /\ queue'.retries_used = queue.retries_used
        /\ queue'.running      = queue.running
        /\ queue' \in QueueState
    BY <1>0 DEF Tick, Fire, TimerFires, QueueState
  <1>2. Loop(queue', current[w], backlog[w], submitted, attempts)
    BY <1>0, <1>1 DEF Loop, ListSound, Ordered, Counted
  <1>3. QED
    BY <1>2 DEF WInv, Tick

-----------------------------------------------------------------------------
LEMMA InitWInv ==
    ASSUME NEW w \in Workers
    PROVE  WInit => WInv(w)
  <1> SUFFICES ASSUME WInit PROVE WInv(w)
    OBVIOUS
  <1>1. /\ queue = EmptyQueue /\ current[w] = Idle /\ backlog[w] = <<>>
        /\ submitted = {} /\ attempts = [t \in Tasks |-> 0]
        /\ current \in [Workers -> Tasks \cup {Idle}]
        /\ backlog \in [Workers -> Seq(Tasks)]
    BY EmptySeq DEF WInit, Init
  <1>2. EmptyQueue \in QueueState
    BY DEF EmptyQueue, QueueState, Status
  <1>3. ListSound(EmptyQueue, <<>>)
    BY EmptySeq DEF ListSound
  <1>4. Ordered(EmptyQueue) /\ \A t \in Tasks : EmptyQueue.status[t] # "running"
    BY DEF Ordered, EmptyQueue
  <1>5. \A t \in Tasks : Counted(EmptyQueue, {}, [u \in Tasks |-> 0], t)
    BY MaxRetriesAssumption DEF Counted, EmptyQueue
  <1>6. EmptyQueue.running = 0
    BY DEF EmptyQueue
  <1>7. Loop(EmptyQueue, Idle, <<>>, {}, [u \in Tasks |-> 0])
    BY <1>2, <1>3, <1>4, <1>5, <1>6, IdleAssumption DEF Loop
  <1>8. QED
    BY <1>1, <1>7 DEF WInv

LEMMA NextWInv ==
    ASSUME NEW w, Workers = {w}
    PROVE  WInv(w) /\ [WNext]_allVars => WInv(w)'
  <1> SUFFICES ASSUME WInv(w), [WNext]_allVars PROVE WInv(w)'
    OBVIOUS
  <1>0. /\ current \in [Workers -> Tasks \cup {Idle}]
        /\ backlog \in [Workers -> Seq(Tasks)]
        /\ w \in Workers
        /\ Loop(queue, current[w], backlog[w], submitted, attempts)
    BY DEF WInv
  <1>1. CASE Poll(w)
    <2>1. PICK todo \in ReadyLists(queue) : Advance(w, queue, todo)
      BY <1>1 DEF Poll
    <2>2. Loop(queue, Idle, <<>>, submitted, attempts)
      BY <1>0, <1>1 DEF Poll, WInv
    <2>3. QED
      BY <1>0, <2>1, <2>2, PollList, AdvanceInv
  <1>2. CASE HandlerReturns(w)
    <2>1. current[w] \in Tasks
      BY <1>0, <1>2 DEF HandlerReturns
    <2>2. Loop(MarkCompleted(queue, current[w]), Idle, backlog[w], submitted, attempts)
      BY <1>0, <2>1, ReturnLoop
    <2>3. QED
      BY <1>0, <1>2, <2>2, AdvanceInv DEF HandlerReturns
  <1>3. CASE HandlerRaises(w)
    <2>1. current[w] \in Tasks
      BY <1>0, <1>3 DEF HandlerRaises
    <2>2. Loop(MarkFailed(queue, current[w]), Idle, backlog[w], submitted, attempts)
      BY <1>0, <2>1, RaiseLoop
    <2>3. QED
      BY <1>0, <1>3, <2>2, AdvanceInv DEF HandlerRaises
  <1>4. ASSUME NEW t \in Tasks, Submit(t) PROVE WInv(w)'
    BY <1>0, <1>4, SubmitInv
  <1>5. ASSUME NEW t \in Tasks, UserCancel(t) PROVE WInv(w)'
    BY <1>0, <1>5, CancelInv
  <1>6. CASE Sweep
    BY <1>0, <1>6, SweepInv
  <1>7. CASE Tick
    BY <1>0, <1>7, TickInv
  <1>8. CASE UNCHANGED allVars
    BY <1>8 DEF allVars, WInv
  <1>9. QED
    BY <1>1, <1>2, <1>3, <1>4, <1>5, <1>6, <1>7, <1>8 DEF WNext

\* One worker: every reachable state satisfies the loop's invariant.
LEMMA AlwaysWInv ==
    ASSUME NEW w, Workers = {w}
    PROVE  WSpec => []WInv(w)
  <1>1. WInit => WInv(w)
    BY InitWInv
  <1>2. WInv(w) /\ [WNext]_allVars => WInv(w)'
    BY NextWInv
  <1>3. QED
    BY <1>1, <1>2, PTL DEF WSpec

\* One worker: _running_count is the number of RUNNING tasks and those are the
\* tasks being handled; cancelling a task of the worker's list breaks neither.
THEOREM CountExact ==
    ASSUME NEW w, Workers = {w}
    PROVE  WSpec => []RunningCountExact
  <1>1. WInv(w) => RunningCountExact
    <2> SUFFICES ASSUME WInv(w) PROVE RunningCountExact
      OBVIOUS
    <2>1. {current[v] : v \in Workers} = {current[w]}
      OBVIOUS
    <2>2. /\ \A t \in Tasks : queue.status[t] = "running" <=> current[w] = t
          /\ queue.running = IF current[w] = Idle THEN 0 ELSE 1
          /\ current[w] \in Tasks \cup {Idle}
      BY DEF WInv, Loop
    <2>3. Running = {current[w]} \ {Idle}
      BY <2>2, IdleAssumption DEF Running
    <2>4. CASE current[w] = Idle
      BY <2>1, <2>2, <2>3, <2>4, FS_EmptySet DEF RunningCountExact
    <2>5. CASE current[w] # Idle
      <3>1. Running = {current[w]}
        BY <2>3, <2>5
      <3>2. Cardinality({current[w]}) = 1
        BY FS_Singleton
      <3>3. QED
        BY <2>1, <2>2, <2>5, <3>1, <3>2 DEF RunningCountExact
    <2>6. QED
      BY <2>4, <2>5
  <1>2. QED
    BY <1>1, AlwaysWInv, PTL

\* One worker: nothing becomes ready, runs or completes before all it depends
\* on has completed (add_task's check, _unblock_dependents).
THEOREM DependenciesFirst ==
    ASSUME NEW w, Workers = {w}
    PROVE  WSpec => []DependencyOrder
  <1>1. WInv(w) => DependencyOrder
    BY DEF WInv, Loop, Ordered, DependencyOrder
  <1>2. QED
    BY <1>1, AlwaysWInv, PTL

\* One worker: mark_failed's retry accounting grants max_retries + 1 starts and
\* dead-letters after the last.
THEOREM AttemptsBounded ==
    ASSUME NEW w, Workers = {w}
    PROVE  WSpec => []AttemptBudget
  <1>1. WInv(w) => AttemptBudget
    BY MaxRetriesAssumption DEF WInv, Loop, Counted, AttemptBudget
  <1>2. QED
    BY <1>1, AlwaysWInv, PTL

-----------------------------------------------------------------------------
(* Results are final. *)

LEMMA AdvanceKeepsResults ==
    ASSUME NEW w, NEW q, NEW todo, Loop(q, Idle, todo, submitted, attempts),
           Advance(w, q, todo),
           NEW u \in Tasks, q.status[u] = "completed"
    PROVE  queue'.status[u] = "completed"
  <1>1. CASE todo = <<>>
    BY <1>1 DEF Advance
  <1>2. CASE todo # <<>>
    <2>1. /\ Head(todo) \in Tasks /\ Head(todo) = todo[1] /\ 1 \in 1..Len(todo)
      BY <1>2 DEF Loop, ListSound
    <2>2. q.status[Head(todo)] \in {"pending", "cancelled"}
      BY <2>1 DEF Loop, ListSound
    <2>3. queue'.status = [q.status EXCEPT ![Head(todo)] = "running"]
      <3>1. queue' = MarkRunning(q, Head(todo))
        BY <1>2 DEF Advance
      <3>2. q \in QueueState /\ Present(q, Head(todo))
        BY <2>2 DEF Loop, Present
      <3>3. QED
        BY <2>1, <3>1, <3>2, MarkRunningEffect
    <2>4. q.status \in [Tasks -> Status \cup {"absent"}]
      BY DEF Loop, QueueState
    <2>5. QED
      BY <2>2, <2>3, <2>4
  <1>3. QED
    BY <1>1, <1>2

LEMMA AddTaskKeepsOthers ==
    ASSUME NEW q \in QueueState, NEW t \in Tasks, NEW u \in Tasks, u # t
    PROVE  AddTask(q, t).status[u] = q.status[u]
  BY DEF AddTask, QueueState

LEMMA OutcomeKeepsResults ==
    ASSUME NEW q, NEW t \in Tasks, NEW todo, NEW sub, NEW att,
           Loop(q, t, todo, sub, att),
           NEW u \in Tasks, q.status[u] = "completed"
    PROVE  /\ MarkCompleted(q, t).status[u] = "completed"
           /\ MarkFailed(q, t).status[u] = "completed"
  <1>1. /\ q \in QueueState /\ q.status[t] = "running"
        /\ q.retries_used[t] <= MaxRetries[t]
    BY DEF Loop, Counted
  <1>2. MarkCompleted(q, t).status[u] = "completed"
    <2> DEFINE done == [q.status EXCEPT ![t] = "completed"]
    <2>1. /\ MarkCompleted(q, t).status = Unblock(done)
          /\ done \in [Tasks -> Status \cup {"absent"}]
          /\ done[u] = "completed"
      BY <1>1, MarkCompletedEffect DEF Present, QueueState
    <2> HIDE DEF done
    <2>2. QED
      BY <2>1, UnblockFacts
  <1>3. MarkFailed(q, t).status[u] = "completed"
    <2>0. Present(q, t)
      BY <1>1 DEF Present
    <2>1. PICK s : MarkFailed(q, t).status = [q.status EXCEPT ![t] = s]
      <3>1. \/ MarkFailed(q, t).status = [q.status EXCEPT ![t] = "pending"]
            \/ MarkFailed(q, t).status = [q.status EXCEPT ![t] = "dead_letter"]
        BY <1>1, <2>0, MarkFailedEffect
      <3>2. QED
        BY <3>1
    <2>2. u # t /\ q.status \in [Tasks -> Status \cup {"absent"}]
      BY <1>1 DEF QueueState
    <2>3. QED
      BY <2>1, <2>2
  <1>4. QED
    BY <1>2, <1>3

\* One worker: no later call takes a COMPLETED task out of that state, so the
\* dependents that mark_completed released never lose their footing.
THEOREM ResultsFinal ==
    ASSUME NEW w, Workers = {w}
    PROVE  WSpec => CompletedIsFinal
  <1>1. ASSUME WInv(w), WNext, NEW u \in Tasks, queue.status[u] = "completed"
        PROVE  queue'.status[u] = "completed"
    <2>0. /\ queue \in QueueState
          /\ current[w] \in Tasks \cup {Idle}
          /\ Loop(queue, current[w], backlog[w], submitted, attempts)
      BY <1>1 DEF WInv, Loop
    <2>1. CASE Poll(w)
      <3>1. PICK todo \in ReadyLists(queue) : Advance(w, queue, todo)
        BY <2>1 DEF Poll
      <3>2. Loop(queue, Idle, <<>>, submitted, attempts)
        BY <1>1, <2>1 DEF Poll, WInv
      <3>3. QED
        BY <1>1, <3>1, <3>2, PollList, AdvanceKeepsResults
    <2>2. CASE HandlerReturns(w)
      <3>1. current[w] \in Tasks
        BY <2>0, <2>2 DEF HandlerReturns
      <3>2. QED
        BY <1>1, <2>0, <2>2, <3>1, ReturnLoop, OutcomeKeepsResults, AdvanceKeepsResults
        DEF HandlerReturns
    <2>3. CASE HandlerRaises(w)
      <3>1. current[w] \in Tasks
        BY <2>0, <2>3 DEF HandlerRaises
      <3>2. QED
        BY <1>1, <2>0, <2>3, <3>1, RaiseLoop, OutcomeKeepsResults, AdvanceKeepsResults
        DEF HandlerRaises
    <2>4. ASSUME NEW t \in Tasks, Submit(t) PROVE queue'.status[u] = "completed"
      <3>1. u # t
        BY <1>1, <2>0, <2>4 DEF Submit, Loop, Counted
      <3>2. queue' = AddTask(queue, t)
        BY <2>4 DEF Submit
      <3>3. AddTask(queue, t).status[u] = queue.status[u]
        BY <2>0, <3>1, AddTaskKeepsOthers
      <3>4. QED
        BY <1>1, <3>2, <3>3
    <2>5. ASSUME NEW t \in Tasks, UserCancel(t) PROVE queue'.status[u] = "completed"
      BY <1>1, <2>0, <2>5
      DEF UserCancel, Cancel, CancelTask, Cancellable, QueueState
    <2>6. CASE Sweep
      BY <1>1, <2>0, <2>6 DEF Sweep, Clear, ClearDeadLetters, QueueState
    <2>7. CASE Tick
      BY <1>1, <2>0, <2>7 DEF Tick, Fire, TimerFires, QueueState
    <2>8. QED
      BY <1>1, <2>1, <2>2, <2>3, <2>4, <2>5, <2>6, <2>7 DEF WNext
  <1>2. WInv(w) /\ [WNext]_allVars =>
            [\A t \in Tasks : queue.status[t] = "completed" => queue'.status[t] = "completed"]_allVars
    BY <1>1
  <1>3. QED
    BY <1>2, AlwaysWInv, PTL DEF WSpec, CompletedIsFinal

-----------------------------------------------------------------------------
(* The lives of the tasks: the worker and the queue implement TaskLives. *)

LivesAt(st) == [t \in Tasks |-> LifeOf(st[t])]

\* A status is that of a task to be run, of one that is done, or of one that is
\* running, just when its life is.
LEMMA LivesTell ==
    ASSUME NEW st, NEW t \in Tasks
    PROVE  /\ LivesAt(st)[t] = LifeOf(st[t])
           /\ st[t] \in {"pending", "waiting_deps"} => LivesAt(st)[t] = "open"
           /\ st[t] \in Status \ {"pending", "waiting_deps", "completed", "dead_letter"} =>
                 LivesAt(st)[t] = st[t]
           /\ st[t] = "completed" => LivesAt(st)[t] = "done"
           /\ st[t] = "dead_letter" => LivesAt(st)[t] = "dead"
           /\ st[t] = "absent" => LivesAt(st)[t] = "unknown"
  BY DEF LivesAt, LifeOf, Status

\* The loop takes the next task of its list, which may begin, or ends.
LEMMA AdvanceBegins ==
    ASSUME NEW w, NEW q, NEW todo, Loop(q, Idle, todo, submitted, attempts),
           Advance(w, q, todo)
    PROVE  \/ LivesAt(queue'.status) = LivesAt(q.status) /\ attempts' = attempts
           \/ \E u \in Tasks : /\ \E i \in 1..Len(todo) : u = todo[i]
                               /\ Lives!Begin(u, LivesAt(q.status))
  <1>1. CASE todo = <<>>
    BY <1>1 DEF Advance
  <1>2. CASE todo # <<>>
    <2> DEFINE t == Head(todo)
    <2>1. t \in Tasks /\ t = todo[1] /\ 1 \in 1..Len(todo)
      BY <1>2 DEF Loop, ListSound
    <2>2. q.status[t] \in {"pending", "cancelled"} /\ DepsCompleted(q.status, t)
      BY <2>1 DEF Loop, ListSound
    <2>3. /\ queue' = MarkRunning(q, t) /\ attempts' = [attempts EXCEPT ![t] = @ + 1]
          /\ q \in QueueState /\ Present(q, t)
      BY <1>2, <2>2 DEF Advance, Loop, Present
    <2> HIDE DEF t
    <2>4. queue'.status = [q.status EXCEPT ![t] = "running"]
      BY <2>1, <2>3, MarkRunningEffect
    <2>5. /\ queue'.status[t] = "running"
          /\ \A u \in Tasks : u # t => queue'.status[u] = q.status[u]
      BY <2>1, <2>3, <2>4 DEF QueueState
    <2>6. LivesAt(queue'.status) = [LivesAt(q.status) EXCEPT ![t] = LifeOf(queue'.status[t])]
      BY <2>5 DEF LivesAt
    <2>7. LifeOf(queue'.status[t]) = "running"
      BY <2>5 DEF LifeOf
    <2>8. \A d \in Deps[t] : LivesAt(q.status)[d] = "done"
      BY <2>1, <2>2, LivesTell, DepsAssumption DEF DepsCompleted
    <2>9. LivesAt(q.status)[t] \in {"open", "cancelled"}
      BY <2>1, <2>2, LivesTell DEF Status
    <2>10. Lives!Begin(t, LivesAt(q.status))
      BY <2>3, <2>6, <2>7, <2>8, <2>9 DEF Lives!Begin, LivesAt
    <2> QED
      BY <2>1, <2>10
  <1> QED
    BY <1>1, <1>2

\* What the end of a handler makes of its task, and of no other.
LEMMA EndIsOutcome ==
    ASSUME NEW t \in Tasks, NEW todo, NEW sub,
           NEW q, NEW att, Loop(q, t, todo, sub, att)
    PROVE  /\ LivesAt(MarkCompleted(q, t).status) = [LivesAt(q.status) EXCEPT ![t] = "done"]
           /\ LivesAt(MarkFailed(q, t).status) =
                 [LivesAt(q.status) EXCEPT ![t] = IF att[t] <= MaxRetries[t] THEN "open" ELSE "dead"]
  <1>1. /\ q \in QueueState /\ q.status[t] = "running" /\ Present(q, t)
        /\ q.status \in [Tasks -> Status \cup {"absent"}]
        /\ q.retries_used[t] <= MaxRetries[t] /\ att[t] = q.retries_used[t] + 1
        /\ q.retries_used[t] \in Nat /\ MaxRetries[t] \in Nat
    BY MaxRetriesAssumption DEF Loop, Counted, Present, QueueState
  <1>2. LivesAt(MarkCompleted(q, t).status) = [LivesAt(q.status) EXCEPT ![t] = "done"]
    <2> DEFINE done == [q.status EXCEPT ![t] = "completed"]
               new == MarkCompleted(q, t).status
    <2>1. /\ new = Unblock(done) /\ done \in [Tasks -> Status \cup {"absent"}]
          /\ done[t] = "completed" /\ \A u \in Tasks : u # t => done[u] = q.status[u]
      BY <1>1, MarkCompletedEffect
    <2> HIDE DEF done, new
    <2>2. \A u \in Tasks : \/ new[u] = done[u]
                           \/ done[u] = "waiting_deps" /\ new[u] = "pending"
      BY <2>1, UnblockFacts
    <2>3. new[t] = "completed"
      BY <2>1, <2>2
    <2>4. \A u \in Tasks : u # t => LifeOf(new[u]) = LifeOf(q.status[u])
      BY <2>1, <2>2 DEF LifeOf
    <2>5. LivesAt(new) = [LivesAt(q.status) EXCEPT ![t] = LifeOf(new[t])]
      BY <2>4 DEF LivesAt
    <2> QED
      BY <2>3, <2>5 DEF LifeOf, new
  <1>3. LivesAt(MarkFailed(q, t).status) =
           [LivesAt(q.status) EXCEPT ![t] = IF att[t] <= MaxRetries[t] THEN "open" ELSE "dead"]
    <2> DEFINE new == MarkFailed(q, t).status
    <2>1. \/ q.retries_used[t] < MaxRetries[t] /\ new = [q.status EXCEPT ![t] = "pending"]
          \/ q.retries_used[t] = MaxRetries[t] /\ new = [q.status EXCEPT ![t] = "dead_letter"]
      BY <1>1, MarkFailedEffect
    <2> HIDE DEF new
    <2>2. \A u \in Tasks : u # t => LifeOf(new[u]) = LifeOf(q.status[u])
      BY <1>1, <2>1
    <2>3. LivesAt(new) = [LivesAt(q.status) EXCEPT ![t] = LifeOf(new[t])]
      BY <2>2 DEF LivesAt
    <2>4. \/ q.retries_used[t] < MaxRetries[t] /\ new[t] = "pending"
          \/ q.retries_used[t] = MaxRetries[t] /\ new[t] = "dead_letter"
      BY <1>1, <2>1
    <2>5. LifeOf(new[t]) = IF att[t] <= MaxRetries[t] THEN "open" ELSE "dead"
      <3>1. CASE new[t] = "pending"
        BY <1>1, <2>4, <3>1 DEF LifeOf
      <3>2. CASE new[t] = "dead_letter"
        BY <1>1, <2>4, <3>2 DEF LifeOf
      <3> QED
        BY <2>4, <3>1, <3>2
    <2> QED
      BY <2>3, <2>5 DEF new
  <1> QED
    BY <1>2, <1>3

\* A handler ends, and the next task of the list begins or the loop does.
LEMMA EndFinishes ==
    ASSUME NEW w, Workers = {w}, WInv(w), NEW t \in Tasks, current[w] = t,
           NEW q, q \in {MarkCompleted(queue, t), MarkFailed(queue, t)},
           Advance(w, q, backlog[w])
    PROVE  Lives!Finish(t)
  <1> DEFINE now == LivesAt(q.status)
  <1>1. /\ Loop(queue, t, backlog[w], submitted, attempts)
        /\ Loop(q, Idle, backlog[w], submitted, attempts)
    <2>1. Loop(queue, t, backlog[w], submitted, attempts)
      BY DEF WInv
    <2> QED
      BY <2>1, ReturnLoop, RaiseLoop
  <1>2. PICK o \in {"done", IF attempts[t] <= MaxRetries[t] THEN "open" ELSE "dead"} :
           now = [LivesAt(queue.status) EXCEPT ![t] = o]
    BY <1>1, EndIsOutcome
  <1>3. LivesAt(queue.status)[t] = "running"
    BY <1>1, LivesTell DEF Loop, Status
  <1>4. \A i \in 1..Len(backlog[w]) : backlog[w][i] # t
    BY <1>1, IdleAssumption DEF Loop, ListSound
  <1>5. \/ LivesAt(queue'.status) = now /\ attempts' = attempts
        \/ \E u \in Tasks : /\ \E i \in 1..Len(backlog[w]) : u = backlog[w][i]
                            /\ Lives!Begin(u, now)
    BY <1>1, AdvanceBegins
  <1>6. \/ LivesAt(queue'.status) = now /\ attempts' = attempts
        \/ \E u \in Tasks \ {t} : Lives!Begin(u, now)
    BY <1>4, <1>5
  <1> HIDE DEF now
  <1> QED
    BY <1>2, <1>3, <1>6 DEF Lives!Finish, Lives!Outcomes, LivesAt

\* Every step of the worker and of those around it is one of a life, or of none.
LEMMA StepLives ==
    ASSUME NEW w, Workers = {w}, WInv(w), [WNext]_allVars
    PROVE  [Lives!Next]_(Lives!vars)
  <1>0. /\ queue \in QueueState /\ current[w] \in Tasks \cup {Idle}
        /\ queue.status \in [Tasks -> Status \cup {"absent"}]
        /\ Loop(queue, current[w], backlog[w], submitted, attempts)
    BY DEF WInv, Loop, QueueState
  <1>1. CASE Poll(w)
    <2>1. PICK todo \in ReadyLists(queue) : Advance(w, queue, todo) /\ current[w] = Idle
      BY <1>1 DEF Poll
    <2>2. Loop(queue, Idle, todo, submitted, attempts)
      BY <2>1, PollList DEF WInv
    <2>3. \A u \in Tasks : LivesAt(queue.status)[u] # "running"
      <3>1. \A u \in Tasks : queue.status[u] \in Status \cup {"absent"} /\ queue.status[u] # "running"
        BY <1>0, <2>1, IdleAssumption DEF Loop
      <3> QED
        BY <3>1 DEF LivesAt, LifeOf, Status
    <2>4. \/ LivesAt(queue'.status) = LivesAt(queue.status) /\ attempts' = attempts
          \/ \E u \in Tasks : Lives!Begin(u, LivesAt(queue.status))
      BY <2>1, <2>2, AdvanceBegins
    <2> QED
      BY <2>3, <2>4 DEF Lives!Next, Lives!vars, Lives!Start, LivesAt
  <1>2. CASE HandlerReturns(w) \/ HandlerRaises(w)
    <2>1. current[w] \in Tasks
      BY <1>0, <1>2 DEF HandlerReturns, HandlerRaises
    <2>2. Lives!Finish(current[w])
      BY <1>2, <2>1, EndFinishes DEF HandlerReturns, HandlerRaises
    <2> QED
      BY <2>1, <2>2 DEF Lives!Next
  <1>3. ASSUME NEW t \in Tasks, Submit(t) PROVE Lives!Next
    <2>1. queue.status[t] = "absent" /\ attempts[t] = 0 /\ attempts' = attempts
      BY <1>0, <1>3 DEF Submit, Loop, Counted
    <2>2. queue' = AddTask(queue, t)
      BY <1>3 DEF Submit
    <2>3. /\ queue'.status[t] \in {"pending", "waiting_deps"}
          /\ \A u \in Tasks : u # t => queue'.status[u] = queue.status[u]
      <3>1. AddTask(queue, t).status[t] \in {"pending", "waiting_deps"}
        BY <1>0 DEF AddTask, QueueState
      <3>2. \A u \in Tasks : u # t => AddTask(queue, t).status[u] = queue.status[u]
        BY <1>0, AddTaskKeepsOthers
      <3> QED
        BY <2>2, <3>1, <3>2
    <2>4. LivesAt(queue'.status) = [LivesAt(queue.status) EXCEPT ![t] = LifeOf(queue'.status[t])]
      BY <2>3 DEF LivesAt
    <2>5. LifeOf(queue'.status[t]) = "open" /\ LivesAt(queue.status)[t] = "unknown"
      BY <2>1, <2>3 DEF LifeOf, LivesAt
    <2>6. Lives!Submit(t)
      BY <2>1, <2>4, <2>5 DEF Lives!Submit, LivesAt
    <2> QED
      BY <2>6 DEF Lives!Next
  <1>4. ASSUME NEW t \in Tasks, UserCancel(t) PROVE Lives!Next
    <2>1. /\ queue.status[t] \in {"pending", "waiting_deps"} /\ attempts' = attempts
          /\ queue'.status = [queue.status EXCEPT ![t] = "cancelled"]
      BY <1>0, <1>4 DEF UserCancel, Cancel, CancelTask, Cancellable, QueueState
    <2>2. /\ queue'.status[t] = "cancelled"
          /\ \A u \in Tasks : u # t => queue'.status[u] = queue.status[u]
      BY <1>0, <2>1
    <2>3. LivesAt(queue'.status) = [LivesAt(queue.status) EXCEPT ![t] = LifeOf(queue'.status[t])]
      BY <2>2 DEF LivesAt
    <2>4. LifeOf(queue'.status[t]) = "cancelled" /\ LivesAt(queue.status)[t] = "open"
      BY <2>1, <2>2 DEF LifeOf, LivesAt
    <2>5. Lives!Cancel(t)
      BY <2>1, <2>3, <2>4 DEF Lives!Cancel, LivesAt
    <2> QED
      BY <2>5 DEF Lives!Next
  <1>5. CASE Sweep
    <2>1. /\ attempts' = attempts
          /\ \A t \in Tasks :
                queue'.status[t] = IF queue.status[t] = "dead_letter" THEN "absent"
                                                                      ELSE queue.status[t]
      BY <1>0, <1>5 DEF Sweep, Clear, ClearDeadLetters, QueueState
    <2>2. \A t \in Tasks : queue.status[t] \in Status \cup {"absent"}
      BY <1>0
    <2>3. \A t \in Tasks :
             LifeOf(queue'.status[t]) = IF LifeOf(queue.status[t]) = "dead" THEN "unknown"
                                                                     ELSE LifeOf(queue.status[t])
      BY <2>1, <2>2 DEF LifeOf, Status
    <2>4. Lives!Forget
      BY <2>1, <2>3 DEF Lives!Forget
    <2> QED
      BY <2>4 DEF Lives!Next
  <1>6. CASE Tick
    <2>1. queue'.status = queue.status /\ attempts' = attempts
      BY <1>0, <1>6 DEF Tick, Fire, TimerFires, QueueState
    <2> QED
      BY <2>1 DEF Lives!vars
  <1>7. CASE UNCHANGED allVars
    BY <1>7 DEF allVars, Lives!vars
  <1> QED
    BY <1>1, <1>2, <1>3, <1>4, <1>5, <1>6, <1>7 DEF WNext

\* One worker on the queue runs tasks as TaskLives says: one at a time, none before
\* what it depends on is done, none after its retries are spent, each result final
\* (task_queue.py's loop, mark_running, mark_completed, mark_failed, cancel_task).
THEOREM ImplementsLives ==
    ASSUME NEW w, Workers = {w}
    PROVE  WSpec => LivesSpec
  <1>1. WInit => Lives!Init
    BY DEF WInit, Init, EmptyQueue, Lives!Init, LifeOf
  <1>2. WInv(w) /\ [WNext]_allVars => [Lives!Next]_(Lives!vars)
    BY StepLives
  <1> QED
    BY <1>1, <1>2, AlwaysWInv, PTL DEF WSpec, LivesSpec, Lives!Spec
=============================================================================
