------------------------------ MODULE Scheduler ------------------------------
(***************************************************************************)
(* The scheduled jobs of src/agent/scheduler.py: rows of the database, and *)
(* passes of run_due_jobs that anything may trigger - a request, the CLI,  *)
(* an external cron - each in a session of its own.  A pass works on the   *)
(* rows it read when it began; every commit it makes (the audit entry of a *)
(* call, the outcome of a run) is a step of its own.                       *)
(*                                                                         *)
(* No operation of the code sets trigger_condition: a row that has one got  *)
(* it by a statement to the database.  Ids are not given twice, as those    *)
(* of a sequence are not; sqlite may reuse that of the last row.            *)
(*                                                                         *)
(* External: a session whose commit has failed refuses every statement     *)
(* until it is rolled back, which the code never does; rows come in any    *)
(* order, none being asked for, and so do those that a limit leaves out.   *)
(***************************************************************************)
EXTENDS Integers, FiniteSets

CONSTANTS
    Clients,      \* processes or threads that trigger passes
    Jobs,         \* job ids; each is given once
    Tools,        \* tools other than run_scheduled_jobs
    Tool,         \* ScheduledJob.tool_name
    Interval,     \* ScheduledJob.interval_seconds, in ticks
    Threshold,    \* n of the trigger_condition tool_fail_count:n, or None
    ReadLimit,    \* how many rows a pass reads: 1000
    Overlap,      \* may two passes be in progress at once?
    None,
    MaxTime,      \* bound: ticks
    MaxCount,     \* bound: audit entries told apart, per tool and outcome
    MaxFaults     \* bound: crashes and failed commits

ASSUME JobsAssumption      == IsFiniteSet(Jobs) /\ ReadLimit \in Nat \ {0}
ASSUME ToolAssumption      == Tool \in [Jobs -> Tools]
ASSUME IntervalAssumption  == Interval \in [Jobs -> Nat \ {0}]
ASSUME ThresholdAssumption == Threshold \in [Jobs -> (Nat \ {0}) \cup {None}]
ASSUME OverlapAssumption   == Overlap \in BOOLEAN
ASSUME BoundAssumption     == {MaxTime, MaxCount, MaxFaults} \subseteq Nat

\* A ScheduledJob, as far as it changes or is chosen; times are ticks.
Row == [enabled : BOOLEAN, last : Nat \cup {None}, status : {"success", "failed", None}]

\* A pass of run_due_jobs: its `now`, the rows of its session, those still to
\* come, and the job it runs with the outcome of the call; and, as history, the
\* jobs there were when it began.
Pass == [now : Nat, rows : [Jobs -> Row \cup {None}], rest : SUBSET Jobs, found : SUBSET Jobs,
         job : Jobs \cup {None}, outcome : {"success", "failed", None}]

ASSUME NoneAssumption == None \notin Jobs \cup Nat \cup Row \cup Pass \cup {"success", "failed"}

VARIABLES
    clock,
    jobs,         \* the table: a row or None for each id
    used,         \* ids given so far
    pass,         \* per client: its pass, or None
    broken,       \* clients whose session has a failed commit behind it
    audit,        \* audit entries per tool and outcome, counted up to MaxCount
    faults        \* crashes and failed commits so far

vars == <<clock, jobs, used, pass, broken, audit, faults>>

Listed(rows) == {j \in Jobs : rows[j] # None}

Init ==
    /\ clock = 0
    /\ jobs = [j \in Jobs |-> None]
    /\ used = {}
    /\ pass = [c \in Clients |-> None]
    /\ broken = {}
    /\ audit = [t \in Tools |-> [o \in {"success", "failed"} |-> 0]]
    /\ faults = 0

-----------------------------------------------------------------------------
(* The table. *)

\* create_scheduled_job: an unused name, which the table keeps unique.
Create(j, enabled) ==
    /\ j \notin used
    /\ used' = used \cup {j}
    /\ jobs' = [jobs EXCEPT ![j] = [enabled |-> enabled, last |-> None, status |-> None]]
    /\ UNCHANGED <<clock, pass, broken, audit, faults>>

\* delete_scheduled_job does not look at passes in progress.
Delete(j) ==
    /\ jobs[j] # None
    /\ jobs' = [jobs EXCEPT ![j] = None]
    /\ UNCHANGED <<clock, used, pass, broken, audit, faults>>

Tick ==
    /\ clock < MaxTime
    /\ clock' = clock + 1
    /\ UNCHANGED <<jobs, used, pass, broken, audit, faults>>

-----------------------------------------------------------------------------
(* invoke_tool. *)

\* _write_audit appends an entry.
Audited(t, outcome) ==
    audit' = [audit EXCEPT ![t][outcome] = IF @ < MaxCount THEN @ + 1 ELSE @]

\* Somebody else invokes a tool.
Invoke(t, outcome) ==
    /\ Audited(t, outcome)
    /\ UNCHANGED <<clock, jobs, used, pass, broken, faults>>

-----------------------------------------------------------------------------
(* run_due_jobs. *)

\* The rows that list_scheduled_jobs may return: all of them, or as many as it
\* reads, and no matter which.
Pages == IF Cardinality(Listed(jobs)) <= ReadLimit
         THEN {Listed(jobs)}
         ELSE {R \in SUBSET Listed(jobs) : Cardinality(R) = ReadLimit}

Begin(c) ==
    /\ pass[c] = None
    /\ Overlap \/ \A d \in Clients : pass[d] = None
    /\ \E R \in Pages :
          pass' = [pass EXCEPT ![c] = [now |-> clock,
                                       rows |-> [j \in Jobs |-> IF j \in R THEN jobs[j] ELSE None],
                                       rest |-> R, found |-> Listed(jobs),
                                       job |-> None, outcome |-> None]]
    /\ UNCHANGED <<clock, jobs, used, broken, audit, faults>>

\* Mutant: an interval short by one.
ElapsedSooner(now, row, j) == row.last = None \/ now - row.last >= Interval[j] - 1

\* The interval of job j has elapsed at `now`.
Elapsed(now, row, j) == row.last = None \/ now - row.last >= Interval[j]

\* EventEvaluator's count: `not AuditLog.success` is evaluated by Python, to
\* False, and no entry meets that filter.
Failures(t) == 0

EventDue(j) == Threshold[j] # None /\ Failures(Tool[j]) >= Threshold[j]

Due(p, j) == p.rows[j].enabled /\ (Elapsed(p.now, p.rows[j], j) \/ EventDue(j))

\* The next row: skipped, or its tool is invoked.
Pick(c, j) ==
    /\ pass[c] # None /\ pass[c].job = None
    /\ j \in pass[c].rest
    /\ pass' = [pass EXCEPT ![c].rest = @ \ {j},
                            ![c].job = IF Due(pass[c], j) THEN j ELSE None]
    /\ UNCHANGED <<clock, jobs, used, broken, audit, faults>>

\* The handler returns or raises, and the call is audited.
HandlerEnds(c) ==
    /\ pass[c] # None /\ pass[c].job # None /\ pass[c].outcome = None
    /\ \E outcome \in {"success", "failed"} :
          /\ Audited(Tool[pass[c].job], outcome)
          /\ pass' = [pass EXCEPT ![c].outcome = outcome]
    /\ UNCHANGED <<clock, jobs, used, broken, faults>>

\* A commit of the handler fails; so does the audit entry, silently.
CommitFails(c) ==
    /\ pass[c] # None /\ pass[c].job # None /\ pass[c].outcome = None
    /\ faults < MaxFaults
    /\ pass' = [pass EXCEPT ![c].outcome = "failed"]
    /\ broken' = broken \cup {c}
    /\ faults' = faults + 1
    /\ UNCHANGED <<clock, jobs, used, audit>>

\* Mutant: a failed run does not count as one.
RecordSuccess(p, row) ==
    IF p.outcome = "success" THEN [row EXCEPT !.last = p.now, !.status = p.outcome] ELSE row

\* update_scheduled_job_run: the time recorded is the pass's, not the clock's.
Recorded(p, row) == [row EXCEPT !.last = p.now, !.status = p.outcome]

\* The outcome is recorded, unless the row is gone.
Record(c) ==
    /\ pass[c] # None /\ pass[c].outcome # None
    /\ c \notin broken
    /\ LET p == pass[c] IN
       /\ jobs' = [jobs EXCEPT ![p.job] = IF @ = None THEN None ELSE Recorded(p, @)]
       /\ pass' = [pass EXCEPT ![c].rows[p.job] = IF jobs[p.job] = None THEN @ ELSE Recorded(p, @),
                               ![c].job = None, ![c].outcome = None]
    /\ UNCHANGED <<clock, used, broken, audit, faults>>

\* The pass has no rows left; or update_scheduled_job_run raises, outside the
\* `try`, and with it run_due_jobs.  The session is closed either way.
End(c) ==
    /\ pass[c] # None
    /\ \/ pass[c].rest = {} /\ pass[c].job = None
       \/ c \in broken
    /\ pass' = [pass EXCEPT ![c] = None]
    /\ broken' = broken \ {c}
    /\ UNCHANGED <<clock, jobs, used, audit, faults>>

\* The process that runs the pass dies.
Crash(c) ==
    /\ pass[c] # None
    /\ faults < MaxFaults
    /\ pass' = [pass EXCEPT ![c] = None]
    /\ broken' = broken \ {c}
    /\ faults' = faults + 1
    /\ UNCHANGED <<clock, jobs, used, audit>>

Step(c) == (\E j \in Jobs : Pick(c, j)) \/ HandlerEnds(c) \/ Record(c) \/ End(c)

Next == \/ \E j \in Jobs : Delete(j) \/ \E e \in BOOLEAN : Create(j, e)
        \/ Tick
        \/ \E t \in Tools, o \in {"success", "failed"} : Invoke(t, o)
        \/ \E c \in Clients : Begin(c) \/ Step(c) \/ CommitFails(c) \/ Crash(c)

Spec == Init /\ [][Next]_vars

\* Somebody keeps triggering passes (a cron entry, says the module), and a pass
\* goes on: handlers end.
FairSpec == /\ Spec
            /\ WF_vars(\E c \in Clients : Begin(c))
            /\ \A c \in Clients : WF_vars(Step(c))

-----------------------------------------------------------------------------
TypeOK ==
    /\ clock \in Nat
    /\ jobs \in [Jobs -> Row \cup {None}]
    /\ used \subseteq Jobs
    /\ Listed(jobs) \subseteq used
    /\ pass \in [Clients -> Pass \cup {None}]
    /\ broken \subseteq Clients
    /\ audit \in [Tools -> [{"success", "failed"} -> Nat]]
    /\ faults \in Nat

\* At time t the table says that job j is due.
IsDue(t, j) == jobs[j].last = None \/ jobs[j].last + Interval[j] <= t

\* Client c starts job j.
Starts(c, j) ==
    /\ pass[c] # None /\ pass[c].job = None
    /\ pass'[c] # None /\ pass'[c].job = j

\* "Each run only executes jobs whose interval has elapsed since last_run_at":
\* that of the table, although the pass decides by the rows it has read.
OnlyElapsedRun ==
    [][\A c \in Clients, j \in Jobs :
          Starts(c, j) /\ jobs[j] # None => IsDue(pass[c].now, j) \/ EventDue(j)]_vars

\* A job's last run never moves back in time, nor is it forgotten.
LastRunAdvances ==
    [][\A j \in Jobs :
          jobs[j] # None /\ jobs'[j] # None /\ jobs[j].last # None =>
              jobs'[j].last # None /\ jobs[j].last <= jobs'[j].last]_vars

\* Deleted rows stay deleted, whatever passes still have of them.
DeletedStaysDeleted ==
    [][\A j \in used : jobs[j] = None => jobs'[j] = None]_vars

\* Client c's pass ends without exception.
Completes(c) == pass[c] # None /\ pass'[c] = None /\ c \notin broken /\ faults' = faults

\* The pass of client c leaves job j as due as it was when the pass began.
Leaves(c, j) == j \in Listed(jobs) /\ jobs[j].enabled /\ IsDue(pass[c].now, j)

\* A pass that ends without exception has run every job it found due, though some
\* are created, deleted or have their tools invoked meanwhile.  It finds what it
\* reads: all jobs, as long as there are no more of them than it reads.
PassRunsAll ==
    [][\A c \in Clients : Completes(c) =>
          /\ \A j \in Listed(pass[c].rows) : ~Leaves(c, j)
          /\ Cardinality(pass[c].found) <= ReadLimit => \A j \in pass[c].found : ~Leaves(c, j)]_vars

\* "Trigger execution of all due scheduled jobs now": a pass that ends without
\* exception leaves no job due, however many there are.
AllDueRun ==
    [][\A c \in Clients : Completes(c) => \A j \in pass[c].found : ~Leaves(c, j)]_vars

\* An enabled job that is due is run by some pass, once crashes and database
\* errors have ceased.
DueJobRuns ==
    \A j \in Jobs :
        (jobs[j] # None /\ jobs[j].enabled /\ IsDue(clock, j))
            ~> (jobs[j] = None \/ ~IsDue(clock, j))
=============================================================================
