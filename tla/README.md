# A TLA+ model of KRYVARACODE

KRYVARACODE is a Python agent stack: agents (Sovereign, Forge, Eye, Aegis,
Nerve) that coordinate through a task queue, a shared state, a message bus and
a coordinator, behind a FastAPI service, a CLI and an MCP server, with a
prediction service and a retrieval (RAG) library beside them. This directory
holds TLA+ modules translated from its source, the TLC models that check them,
and theorems about them checked by TLAPS. Source paths below are relative to
the repository's `src/` (`agent/...`, `api/...`); `PROJECT.json` ties each
definition to its lines.

## 1. Inventory

| Component | State | Operations | Interacts with | What is hard | Module |
|---|---|---|---|---|---|
| Task queue `agent/coordination/task_queue.py` | tasks by id (status, retries), running counter, timers | add, cancel, get_ready, mark running/completed/failed, clear dead letters | workers, coordinator, orchestrator | workers walk a stale list across awaits; retries; dependents of dead tasks | `TaskQueue`, `TaskWorkers` |
| Shared state `.../shared_state.py` | entries with version and TTL, change log, observers | set, get, delete, keys, clear, atomic update, compare-and-set, TTL sweep | coordinator, agents; observers are awaited callbacks | events leave after the lock; expiry; observers that come and go | `SharedState` over `StoreSpec` |
| Message bus `.../message_bus.py` | subscriptions, queue, dispatch task, history | subscribe, unsubscribe, publish, start, stop | coordinator publishes; subscribers are awaited callbacks | registry changes inside a dispatch; cancellation; start inside stop; filters that raise | `MessageBus` |
| Coordinator `.../coordinator.py` | agents, heartbeat task, running flag | register, deregister, heartbeat, monitor, start, stop, submit/complete/fail task | shared state, bus, queue | check-then-act across awaits; start/stop overlap | `Coordinator` |
| Scheduler `agent/scheduler.py`, event evaluator of `agent/orchestrator.py` | jobs in the database | create, delete, run due jobs | tools, audit | concurrent passes, a job deleted mid-pass, crash between run and record | `Scheduler` |
| Accounts `api/auth/router.py`, `db/crud.py`, `core/security.py` | users, attempts, lock, refresh and reset tokens | register, login, refresh, logout, reset, verify | rate limiter | read-modify-write on counters and tokens, lock expiry | `Accounts` |
| Rate limiter `core/rate_limit.py` | hits per key | allow | auth endpoints | window boundary | `Accounts` |
| Catalog `api/{datasets,items,models,experiments}/router.py`, `db/crud.py` | rows, uploaded files | create, upload, edit, delete | tools create the same rows | check-then-insert, files before rows, overlapping edits | `Catalog` |
| Tools and MCP `agent/tools.py`, `mcp_server.py`, `agent/computer.py` | registry, audit log | invoke with audit, shell | database, sandbox, scheduler | audit in a commit of its own | `Catalog`, `Scheduler`, `Sandbox` |
| Prediction, lifecycle, tasks `api/prediction`, `tasks/`, `ml/training.py` | loaded model and processor, stages, metadata, experiments | train, register, promote, reload, predict | MLflow, Celery | one decision in steps over two stores | `ModelLifecycle` |
| RAG `features/rag/*` | vectors on a server or in memory | add, search, clear, delete; chunk, augment | Qdrant | fallback store drifts; overlap arithmetic | `Retriever`, `Passages` |
| Cloud sandbox `agent/e2b_sandbox.py` | one remote sandbox | create, run, kill, reset | external service, host shell | unlocked, shared by threads, killed in use | `Sandbox` |
| Forge `agent/forge/*` | tool registry, temporary files | forge, verify, execute, register | subprocesses | ways for a run to end between its cases | `Forge` |
| Nerve `agent/nerve/event_bus.py` | queue, callbacks, flag | subscribe, emit, dispatch, initialize, stop; file watcher thread | Eye, Sovereign | stop is only a flag; several loops; cancelled callbacks | `Nerve` |
| Sovereign `agent/sovereign/*` | iteration, context, memory graph | swarm loop, manager's task and cycle, commit, link, distil, query | language model, Aegis, Forge | state carried from goal to goal; half-done distillation | `Sovereign` |
| Aegis `agent/aegis/*` | pending approvals, limits | request, approve, deny, timeout | Sovereign, Forge | no caller reaches it | - |
| Eye, optimizer | perceptions | observation loop | host | I/O only | - |
| Feature processing, HTTP plumbing, schemas, configuration, CLI | - | - | libraries | numerical or I/O code | - |

What makes each component correct is stated by its properties (section 3). The
hazards, each with its line and the properties that watch it, are in
`PROJECT.json`.

## 2. How the project is built

Parameters are CONSTANTS with named assumptions; a module has one action per
operation, or, where the code awaits, commits or calls a service in between, per
step of it. No module uses a RECURSIVE operator: a loop whose turns
matter has a step for each, so that every module is open to proofs. An `MC`
module gives the constants values, a `.cfg` one question. Modules about which theorems are proved have them in a
module of their own (`...Proofs`).

Modules compose where the components do. `TaskWorkers` puts workers on
`TaskQueue`, and one of them implements `TaskLives`; `SharedState` implements
`StoreSpec`, each under a refinement mapping; `Accounts` has the limiter in front
of its endpoints; `Catalog` has endpoints and tools on the same tables; `ModelLifecycle` has trainers, promoters and
loaders on one MLflow and one database; `Sandbox` has the remote box and the
host. Four models hold parts that share no state, side by side: in `MCSandbox`
(`Sandbox`, `Forge`), `MCOmega` (`Nerve`, `Sovereign`) and `MCRetriever`
(`Retriever`, the chunker and the augmenter of `Passages`) a variable `part` says
to which of them a behaviour belongs, and so does `side` in `MCService` (`Accounts`,
`ModelLifecycle`, `MCRetriever`). Nothing is lost by it: the state space is the sum
of theirs instead of the product.

The type invariants of the modules with theorems are parts of the inductive
invariants proved in section 4; the model-checked runs are left to what could go
wrong.

Operators introduced by the word "Mutant" are plausible slips of the definition
after them. No specification uses them; they show that the property named with
them in `PROJECT.json` would notice.

## 3. What is modelled and checked

### Task queue: `TaskLives`, `TaskQueue`, `TaskWorkers` - run `workers`

`TaskQueue` keeps the queue object in one variable `queue` (status and retries
per task, the running counter, the timers not yet fired). Each method is an
operator from queue to queue (`AddTask`, `MarkFailed`, ...), so that callers who
make two calls without an await compose them; `Next` lets anyone call anything.
Priorities, results, errors and times are left out: they decide only the order
of `get_ready_tasks`, which `TaskWorkers` takes as a parameter (`Before`).

The repository has no worker loop of its own beyond the class's usage example;
`TaskWorkers` models that loop as an external environment. The only await is
the handler's, so a step runs from the end of one handler to the start of the
next (`HandlerReturns`, `HandlerRaises`), on the list of ready tasks that was
taken before the first (`backlog`). Submissions, cancellations, dead-letter
sweeps and timers fall in between.

`TaskLives` is what the queue with one worker promises of its tasks, and says
nothing of how they are stored, ordered, counted or released: a task is submitted
once; a run begins when none is under way and all it depends on is done; it ends
done, or open again while retries are left, or dead once they are spent, and the
next begins at once or not; what is done stays done. `LifeOf` maps a status to a
life: PENDING and WAITING_DEPS are both "open", so that releasing a task is no
step, and a retry's timer is none either. A cancelled task may still run: the
worker's list was taken before it was cancelled.

`workers`: one worker, four tasks (c behind a and b, d behind c; a and c retried
once). No task waits on completed dependencies (`NoStrandedTask`), the running
counter is exact, the tasks live as `TaskLives` says (`LivesSpec`: dependency
order, the retry budget, final results); every ready task settles and every
waiting task is released unless a dependency is out of reach. Four tasks give
every shape of the dependency relation that the code tells apart: none, several,
a chain; one retry tells first from last attempt. Fairness: a worker keeps
polling, and a handler it awaits ends; the queue enforces no timeout, so the
second is asked of the handlers. With two workers the counter and the order of
dependencies are wrong, since `get_ready_tasks` hands one task to both;
`NoStrandedTask` holds for any callers, and is proved so.

### Shared state: `StoreSpec`, `SharedState` - run `store`

`StoreSpec` is what callers are promised: a map whose operations are atomic, in
which a key with a TTL may vanish. `SharedState` has the entries (value,
version, TTL, expired or not), the change log, the observers and, for every
caller, where its call stands: in the locked section (one step), logging, or in
the middle of the list of observers. A notification loop walks the list object
bound when it began: `observe` appends to it, `unobserve` binds a new one; that
is what `live` and `list` say. `OneLoop` chooses coroutines of one event loop
(nothing interleaves between awaits; `running` holds the one that has the loop)
or threads.

`store`: two coroutines, two keys, up to five events - the fewest in which an
expiry event is logged after a newer set of its key - and an observer that comes
and goes while the first event is sent. The store implements `StoreSpec`
(`AbstractSpec`); from the log alone one can tell what is stored and how it came
about (`LogSound`); each event reaches a permanent observer exactly once
(`ExactlyOnce`). With threads the refinement holds still, and is proved so; the
log's chain of values does not, since events are logged after the lock is
released. The sweeper and the operations are steps of whoever calls; no liveness
is claimed, as an observer may await forever.

### Message bus: `MessageBus` - run `bus`

A step is what runs between two awaits of the event loop: `Take` and
`CallbackEnds` deliver up to the next callback. The walk of a dispatch is the
snapshot of patterns the code takes, each entry sharing the live list of
subscriptions until `unsubscribe` replaces that list. Several dispatch tasks
may exist (`Dispatchers`), as they may in the code; `_dispatch_task` is `task`.
A filter accepts, rejects or raises. Assumed: a callback does not swallow
`CancelledError`.

`bus`: three messages, two subscribers of one pattern that come and go, a filter
that rejects one message and raises on another, two starts. Exactly-once and
in-order delivery to whoever stays, except where stop or a filter cuts a
delivery short (`Delivery`); stop leaves no task (`StopFinishesTask`); what is
queued is dispatched while the bus runs, and stop returns (`BusProgress`). Two
messages suffice for order, the third meets the filter. `Overlap = FALSE`
forbids start while a stop is in progress, as the coordinator's callers are
meant to use it. Fairness: the event loop runs what is ready, callbacks end.

### Coordinator: `Coordinator` - run `coordinator`

The table of agents maps a name to an `AgentInfo` object, since a registration
that overlaps a removal replaces the object under the name. A call is suspended
where it awaits `SharedState.set` (whose observers may await); `publish` never
suspends. `stop` is followed through its list of names, the monitor and the
bus. `Overlap` says whether calls on one name, or on the lifecycle, overlap.

`coordinator`: two names, two `AgentInfo` objects, two heartbeat tasks, two
callers, serial use of each name. Table, shared state and announcements agree
where no call is about a name (`RegistryMirrored`); a running coordinator has bus
and one monitor; a stop that returns leaves nothing; a silent agent is noticed
and every call ends (`CoordinatorProgress`). Two of each let one replace the
other. Overlapping calls break this, since each tests for the name before it
awaits and acts on it after. Fairness: suspended calls are resumed, sleeping
tasks wake.

### Scheduler: `Scheduler` - runs `scheduler`, `scheduler_limit`

The jobs are rows of a table; a pass of `run_due_jobs` has a session of its own,
which keeps the rows as they were read when the pass began (commits do not
expire them). A pass reads at most `ReadLimit` rows, in no order (`Pages`): 1000
in the code, a parameter here. Between the start of a pass and its end others create and delete
jobs and invoke tools, which writes the audit; each commit of the pass is a step.
The process may die at any step, and a commit of a handler may fail, after which
the session refuses everything: the audit entry is lost silently, and the record
of the run raises out of the pass. `Overlap` says whether two passes may be in
progress at once: nothing in the code prevents it.

`scheduler`: two clients, one pass at a time, two jobs (every other tick; every
tick or when its tool failed), three ticks, one fault. A job that is run is due
by the table although the pass decides by what it read (`OnlyElapsedRun`), a pass
that ends normally leaves nothing due of the rows it read, and of all rows there
were unless they are more than it reads (`PassRunsAll`), a due job is run by some
pass (`DueJobRuns`). The limit is two here, as many as there are jobs. Three ticks let a job be run, skipped and run again; one
fault suffices since nothing of a pass survives it. Fairness: somebody keeps
triggering passes, as the module asks of a cron entry, and handlers end. A pass
that fails at every commit would starve the jobs behind it; the bound on faults
is that assumption. A `trigger_condition` can only come from a statement to the
database, since `create_scheduled_job` takes none.

`scheduler_limit`: with two rows and a limit of one - 1001 rows and 1000 - a pass
ends without exception and leaves a due job that was there when it began, against
the tool's docstring, "Trigger execution of all due scheduled jobs now."
(`scheduler.py:136`). Since no order is asked for, no later pass need find it either.

### Accounts and rate limiter: `Accounts` - run `service`

Endpoints run in threads with a session each, so a request reads in one step
(`LoginReads`, `RefreshReads`, `ResetReads`, ...) and commits in another what it
computed from the rows read. An UPDATE names only the columns that differ from
what was loaded: `Fail` and `Succeed` take the row as it is and the row as seen.
A login makes two commits, the second issuing its refresh token. `Allow` is the
sliding window every one of these requests passes first; the limiter reads the
clock just before it takes its lock, which is one step here, so a thread held up
between the two for as long as a tick is left out. Histories keep wrong
passwords, admitted requests and spent reset tokens.

`service`: one account, two requests at a time, two passwords, lock after two
failures, four ticks. A lock was earned by enough wrong passwords
(`LockIsEarned`); a lock in force is not undone by logins under way, except by
one that has read an earlier, expired lock (`LockOutlivesRaces`); a token that
has been exchanged, or has set a password, is good for no later request
(`SpentBuysNothing`); the window lets through no more than its limit in any
period of its length (`WindowBound`). Two refreshes that overlap on one token
both succeed: the model has that, and `SpentBuysNothing` says what remains true.
Two failures are the fewest with a first that does not lock; four ticks let a
lock expire and be set anew. No liveness: a client need not come back.

### Catalog: `Catalog` - run `catalog`

Items, models, experiments and datasets are rows with a kind, a name, a file and
the fields a PATCH may change. Endpoints and tools go through the same two or
three steps: look up (only dataset creation, and the tools for datasets and
models, look a name up), store the file, insert; a tool's call then audits
itself in another commit. Edits and deletions load a row and commit later.

`catalog`: two requests or tool calls at a time over two rows, one fault (a
crash, or a commit refused). Every file belongs to a dataset that is, was or is
about to be, or to one a fault cut off (`UploadsAccounted`); duplicates of a name
come only from overlapping creations (`DuplicatesRaced`); an edit changes nothing
it was not asked to and brings no row back (`EditsKept`); what a tool created is
audited but for faults (`ToolCallsAudited`). A third request would only repeat
what one of two does to the other; the bounds on faults are multiplied by the
requests a crash takes with it.

### Retrieval: `Retriever`, `Passages` - runs `service`, `chunk_size`

`Retriever` has one collection on a Qdrant server and retrievers in processes of
their own, each with its flags and the memory it falls back to for good after
the first failed call. A request is carried out and answered, refused, or
carried out unanswered. `Passages` has the loops of the chunker and of the
augmenter, a step for each turn: the chunker's over sentences and, for a long one,
over its words; the augmenter's over documents. Of a text, its words separated by
single spaces, the places count where words and sentences begin, and a chunk is an
interval of it: where it begins with what is carried over, where its own text
begins, where it ends. What the code's concatenations come to is then an
interval's extension.

`service`: two retrievers, three documents of two dimensions; what an add
accepted is, until somebody removes it, on the server or in a memory that its
retriever searches (`NothingLost`). Every text of up to three sentences of up to two words and
every list of up to three documents, of lengths below, at and above the sizes that
the code compares: at any time each word is in the chunks once and in place beside
what is carried over, and no chunk is longer than `chunk_size + overlap + 1` unless
it is one word (`ChunksSound`); the prompt's documents come in order and whole until
the budget is used up (`BudgetFilled`).

`chunk_size`: the docstring of `chunk` has "each at most ``self.chunk_size``
characters" (`chunker.py:47`). What is carried over and the next sentence are joined
without a look at their length together, so a chunk may be longer by the overlap and
a space (`ChunksFit` is violated); words too long by themselves are left out of
account.

### Prediction: `ModelLifecycle` - runs `service`, `promotion_regresses`

One training goes through model, scratch file, artifact, experiment and metadata
row; a promotion reads, moves the stage in MLflow, and commits; a load puts model
and processor in place one by one and falls back from Production to latest. The
processor's scratch file is one path for all trainings. MLflow is external; so is
the registration of runs as versions, which no code does.

`service`: one trainer, two runs, one promoter, two loaders, one fault. What a
training registers is finished (`RegisteredIsFinished`); a version that was
promoted has its row, but for faults (`PromotedIsRecorded`); a model predicts
without a processor only in the middle of a reload (`ServedBound`). Two loaders
overlap at every step; a second trainer would only add the race on the scratch
file, which no property of the run depends on.

`promotion_regresses` finds a disagreement between code and docstring:
`promote_model` "Promotes a model version to 'Production' if its
metrics are superior to the current production model", but compares with the
first metadata row of that name, so that a worse model replaces a better one.

### Sandbox and Forge: `Sandbox`, `Forge` - run `sandbox`

`Sandbox` follows threads through `get_e2b_sandbox`, `_get_or_create_sandbox`,
the command and `kill`, each read or write of an attribute a step, since nothing
is locked. `Forge` follows a call through its test cases: each is refused by
the validator, or a file is written, a process runs it and the file goes.

`sandbox`: three threads making four calls; a command runs in one place at most,
never again on the host once it may have started in a box (`RunsOnce`), and a box
nobody can end takes overlapping calls, one for each (`LeaksAreRaced`). For the
Forge, two threads and calls of up to two cases: a verdict is that of all its
cases, and temporary files are those of runs in progress, or were left where they
could not be written or the process died (`ForgeSound`). Four calls are two that
race, one that uses what they left and one kill.

### Nerve and Sovereign: `Nerve`, `Sovereign` - run `omega`

`Nerve` has the queue, the lists of callbacks (walked live, the wildcard's last)
and the dispatch loops, one per call of `initialize`. `Sovereign` has the swarm's
loop in closed form (`Iterate`), the manager's task up to the exception it always
ends in, and the memory graph with its index by tag.

`omega`: two events of two types, two callbacks, two loops. A fan-out that ends
has called everybody registered when its event was taken (`FanOutComplete`);
after stop a loop takes at most one more event (`StopBound`); what is queued is
taken while the bus runs (`QueuedIsTaken`). Six goals, one more than the
iterations there are: the Executor runs at most as often as there are
iterations, whatever the goals, and no goal is passed over before they are used
up (`SwarmBudget`); queries by tag find exactly the nodes that carry them,
half-done distillations included (`TagsFind`). Fairness: the event loop runs
a task that can run, callbacks return.

### Also met while modelling

These are not findings of a run; the models have them as the code does.

* The retry backoff delays nothing: the task is PENDING at once and the timer's
  callback is empty (`task_queue.py:210`).
* A task cancelled while on a worker's list is started all the same.
* start() within stop()'s await leaves a dispatch task that the next stop does
  not know of (`message_bus.py:163`); a filter that raises ends the task while
  `_running` stays set (`message_bus.py:180`).
* An empty queue passed to the coordinator is dropped, being falsy
  (`coordinator.py:90`).
* `not AuditLog.success` is Python's `not`, a constant, so `tool_fail_count` never
  triggers (`orchestrator.py:49`); the Sovereign's pulse has the same filter.
* Two passes of the scheduler at once run a due job twice; a job whose tool is
  `run_scheduled_jobs` recurses (`scheduler.py:117`).
* Hybrid `add` with texts ends in TypeError on the server path.
* When a remote sandbox's lifetime is over, the wrapper keeps it, and every later
  command answers with an error instead of a new box or the host.
* The Forge's synthesized code never parses, so `forge_capability` always fails.
* `execute_omega_task` unpacks the verifier's three values into two and always
  raises, so Judge, gatekeeper and `commit_lesson` are not reached; an autonomous
  cycle ends at its first goal.
* The swarm's iteration count and context are never reset.
* The Nerve's stop followed by initialize may leave two loops on one queue; a file
  event raises in watchdog's thread, outside any event loop.

## 4. What is proved

The proofs hold for any values of the constants that meet the named assumptions:
sets of any size, any bound. Each rests on an inductive invariant, proved by one
lemma or step per action.

`TaskWorkersProofs` - `TaskQueue` and `TaskWorkers`, any finite set of tasks, any
dependencies (cyclic ones included), any retry limits:

* `TypeCorrect`, `NeverStranded`, `DeadLettersExhausted`: `TaskQueue`'s
  invariants under arbitrary calls. `NoStrandedTask` is inductive together with
  the types: a task may only become waiting when a dependency is not completed,
  and only `mark_completed` completes, which then looks at every waiting task.
  `AddTask` of an id anew can take a dependency *out* of COMPLETED, never into
  it (`NoNewCompletion`).
* `CountExact`, `DependenciesFirst`, `AttemptsBounded`, `ResultsFinal`: for one
  worker. The inductive invariant adds what the stale list may contain: each of
  its tasks occurs once, is not the current one, is pending or cancelled, and
  has its dependencies completed; that is why starting it unchecked does no
  harm but to cancellations. With two workers that invariant is false.
* `ImplementsLives`: `WSpec => LivesSpec`, for one worker, on that invariant. What
  the end of a handler makes of its task is what `TaskLives` allows, since
  `retries_used` is one less than the runs begun (`EndIsOutcome`); the task begun
  next is another than the one that ended, since the list names each once
  (`AdvanceBegins`, `EndFinishes`); releasing the tasks behind a completed one
  changes no life.

`SharedStateProofs` - any keys, values, callers and observers, coroutines or
threads:

* `Implements`: `Spec => AbstractSpec`. The mapping sends an entry to its value
  unless it has expired. One lemma per operation shows the step of the map it
  is; a step after the lock (`Log`, `Notify`, `Finish`), a change of observers
  and the sweeper change nothing a caller can see. The invariant needed is only
  that entries are whole (`StoreTyped`).
* `ObserversHearOnce`: each event logged has been received by a permanent observer
  once, or is on its way to it by exactly one walk (`CountInv`), counted for every
  event and not only for those logged. Log adds one to both sides, Notify moves one
  from the walks to the observer: it is once in every list that is walked
  (`ListsInv`), since `observe` refuses who is there and `unobserve` leaves the old
  list to the walks. With threads as with coroutines.
* `HistoryTells`, with one event loop (`OneLoop = TRUE`): the only change that the
  log does not tell of yet is that of the coroutine that has the loop, and it is
  the next to be logged (`LoopInv`); it takes up what the log's last change of the
  key has left (`TellInv`). With threads this is false, and so is the property.

`MessageBusProofs` - any subscribers, messages, stoppers, restarts:

* `SingleDispatcher`, `StopEndsDispatch`, assuming that start() does not overlap
  a stop() (`Overlap = FALSE`). The invariant says what suspended stops know:
  each awaits the current task, or one whose end another stop has seen.
* `DeliveredAsPromised`, on the same condition, for any patterns, filters and
  messages. What has been published is the history of dispatched messages followed
  by the queue, without duplicates (`QueueInv`). The lists a walk visits are of
  distinct patterns and distinct callbacks, so a subscriber has one place in a walk,
  whatever is registered or removed under it (`ListsFit`, `PlaceUnique`). Then, of
  the message being dispatched: whoever got it stands behind the walk, and whoever
  is still owed it stands ahead or has it (`WalkSound`); a walk that ends with nobody
  ahead owes nothing. That a walk advances to the *next* interested place is the
  least-number principle, on lists and then on the places of a list (`FirstExists`).

`CoordinatorProofs` - any names, agents, callers, heartbeat tasks, tasks:

* `TypeCorrect`, `DegradedMeansOverdue`: whatever overlaps.
* `Monitored`, `ShutdownComplete`: when nothing overlaps a stop(). The invariant
  follows a suspended stop: at an agent, every registered name is that agent's
  or still on its list; past the agents the table is empty and the monitor
  cancelled; at the bus, the bus is down.
* `MirrorAgrees`, `RemovalNeverRaises`: when calls on one name do not overlap.
  The invariant gives a name one call at a time, and the shared state already
  the value that call leads to. That announcements about a name have a last one
  is carried along as an invariant (`HaveLatest`), since induction over a
  sequence is not available.

`SchedulerProofs` - any jobs, tools, intervals, clients:

* `TypeCorrect`, `DeletionIsFinal`: whatever overlaps.
* `RunsAreDue`, `TimesAdvance`, `PassesComplete`: with one pass at a time. The
  invariant (`Alone`) says that the rows of the pass are those of the table but
  for what was created or deleted since, that no run is recorded later than the
  pass began, and that every row the pass is done with is no longer due. It rests
  on ids not being given twice. `PassesComplete` holds for any read limit: of the
  rows read, which are all the rows there were unless they are more than the limit.

`AccountsProofs` - any users, passwords, tokens, requests and periods:

* `Consistent`, `LocksEarned`, `SpentIsSpent`, `LocksOutliveRaces`: however many
  requests overlap. The invariant ties what a request is about to commit to the
  tables as they may have become (`Fit`): the row a login has read counts no more
  failures than there have been, the account a reset goes to is the only one its
  token was ever in. Steps that change an account share one lemma
  (`RowStepKeeps`), those that give out tokens another. `LocksOutliveRaces` needs
  in addition that no lock reaches further than one set now.
* `WindowKept`. The limiter's hits are the last of the requests let through, and
  those it has forgotten are out of the window (`Remembers`), so that of any
  Limit + 1 in a row the last comes more than a window after the first (`Spaced`).
  Requests in a period are therefore fewer than Limit after the first of them,
  which exists by the least-number principle (`LeastNatural`, from the library's
  theorem that finite sets are well-founded by inclusion).

`DataProofs` - the catalog with any finite set of requests over any rows, the
lifecycle with any trainers, runs, promoters and loaders, and any retrievers,
documents and dimensions, and the text functions with any texts, documents and
sizes:

* `TrainedIsFinished`, `PromotedOnRecord`, `ServedWithProcessor`. What a training
  has put down when it registers its run is carried from step to step
  (`TrainingSound`: its run is its own, what the earlier steps logged is there). A
  version without a row is counted against the faults: a promotion takes its
  version out of those on record and puts it back by its commit, and only a fault
  between the two leaves it out for good (`PromotionInv`). A model without a
  processor has a load half way (`ServingInv`), so that a prediction by it is one
  that meets a reload.
* `UploadsKept`, `OnlyRacesDuplicate`, `ToolsAudited`, `EditsOverlap`. A file is of
  one row or of one insertion to come (`FilesInv`); names and kinds never change
  after birth, and whoever inserts remembers the rows its lookup saw (`NamesInv`);
  files without a row, and rows without an entry in the audit, grow only by a fault,
  by one for each request it cuts off (`OneFaultMore`).
* `RetrieversConsistent`, `AddsAreKept`. The invariant is that
  a retriever that still uses the server has nothing in memory (`ServerAlone`).
* `ChunkingInvariant`, `ChunksAreSound`. Each chunk continues the one before it
  (`Continues`): its own text begins where that one ends, and what is carried over is
  its end (`CarriedEffect`, where the first space is found by the least-number
  principle). The chunk in the making is empty at that place, or continues the last
  one and is small (`Making`), and it ends where the sentence or the word begins whose
  turn it is (`ChunkerInv`). Hence only a whole word can be larger than the sizes
  allow, and when the loops are over the chunks reach the end of the text.
* `BudgetIsFilled`: as long as there is room every part is a whole document, and the
  one that is cut fills the budget, so that none comes behind it.

`AgentProofs` - the sandbox with any threads, wrappers and boxes, the Forge with
any callers and names, the event bus with any callbacks, types, events and loops, the
Sovereign with any goals, nodes, tags and tiers:

* `CommandsRunOnce`: a call has run its command nowhere until it ends (`RunsInv`);
  both places end it.
* `OnlyRacesLeak`. That live boxes which nobody knows are at most as many as the
  calls that overlapped another is not inductive: what counts is also who will
  make another box. `LeakInv` bounds the debt - live boxes that no failed kill
  excuses, and threads about to make one - by the overlaps, plus one while a box of
  the singleton is kept or on its way (`Heir`), plus another while that box is
  settled and somebody makes one more; each call pays, when it begins inside
  another, for what it may leave behind.
* `VerdictsHold`: what a call has seen of its test cases decides its answer, and its
  file is its own, at every point of the run.
* `FanOutsComplete`, `StopsBound`. The callbacks heard so far and those still to
  come in the walk are, at any point, the list as it was when the event was taken and
  what was registered since (`Joined`, `Grown`): in the list of the event's type
  first, then in the wildcard's (`WalksOwn`, `WalksAll`), until the walk is over
  (`Walked`). An event is in the queue, in one loop, or done (`EventsInv`); a loop
  that took one more after stop has ended, or will when that walk does (`LateInv`).
* `SwarmBounded`, `QueriesFind`: the executor's calls are the iterations, which only
  grow; the index by tag has a node under exactly its tags at every point of a
  distillation.

The assumptions that these proofs add to the modules are finiteness: of threads,
requests, callers, observers, keys and jobs (`ThreadsAssumption`, `RequestAssumption`,
`FiniteAssumption`, `JobsAssumption`), since what is counted has to be countable, and that the bounds
are numbers (`MaxCasesAssumption`, `IterationsAssumption`); the sizes of chunker and
augmenter are those that their constructors accept (`SizeAssumption`).

Only model-checked: all liveness - `ReadyTaskSettles`, `WaitingTaskResolves`,
`BusProgress`, `CoordinatorProgress`, `DueJobRuns`, `QueuedIsTaken` - since TLAPS does
not reason about fairness and ENABLED. Every invariant and every action property of
the passing runs is proved.

## 5. What is not modelled

* Aegis: the gatekeeper's approvals are awaited by nobody (its only caller calls
  it as a plain function, behind the exception above), the verifier matches
  patterns of text, the governor reads the host's load.
* Eye, optimizer: observation of the host and a pass over stored figures.
* Feature and data processing, the numbers of training and embedding, the HTTP
  plumbing, schemas, configuration, metrics, CLI: no state beyond what the
  modules above have of it.
* Within modelled components: logging, payloads, time stamps; the limits of 1000
  on change log and message history; the reuse of a
  deleted row's id by sqlite; the limiter's middleware, which applies the same
  window under another key; the owner's checks of the catalog; ids of 32 random
  bits, taken to be new.
