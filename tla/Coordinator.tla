----------------------------- MODULE Coordinator -----------------------------
(***************************************************************************)
(* AgentCoordinator of src/agent/coordination/coordinator.py: the table of *)
(* agents, its mirror in the shared state, the heartbeat monitor and the   *)
(* calls that start and stop it.  The message bus is the one of MessageBus *)
(* reduced to "does it run" and the sequence published; a shared-state key *)
(* is reduced to its value (SharedState's Set), a queue to its task ids    *)
(* (TaskQueue's AddTask).                                                  *)
(*                                                                         *)
(* A call gives way to others where it awaits SharedState.set, which       *)
(* awaits its observers; MessageBus.publish never suspends, its queue      *)
(* being unbounded.                                                        *)
(***************************************************************************)
EXTENDS Integers, Sequences, FiniteSets

CONSTANTS
    Names,      \* agent names
    Infos,      \* AgentInfo objects; each registration makes one (bound)
    Monitors,   \* heartbeat tasks; each start makes one (bound)
    Callers,    \* coroutines that call the coordinator
    Tasks,      \* tasks submitted
    Overlap,    \* may calls overlap that act on one name, or on the lifecycle?
    None

\* What a suspended call has still to do.
Call == [op : {"register", "deregister"}, name : Names]
        \cup [op : {"stop"}, at : {"agent"}, name : Names, todo : SUBSET Names]
        \cup [op : {"stop"}, at : {"monitor", "bus"}]

ASSUME NoneAssumption ==
    None \notin Names \cup Infos \cup Monitors \cup Call \cup {"registered", "stopped"}
ASSUME TasksAssumption == Tasks \cap Names = {}
ASSUME OverlapAssumption == Overlap \in BOOLEAN

VARIABLES
    agents,     \* _agents: the AgentInfo under each name, or None
    status,     \* AgentInfo.status; "unused" before the object is made
    overdue,    \* objects whose last_heartbeat is older than HEARTBEAT_TIMEOUT
    mirror,     \* shared state: the value of agent.<name>.status, or None
    news,       \* what was published on the bus, in order
    running,    \* _running
    monitor,    \* _heartbeat_task
    asleep,     \* heartbeat tasks that have not ended
    busRunning, \* MessageBus._running
    call,       \* per caller: the call it is suspended in, or None
    wired,      \* which queue the coordinator uses: the "given" or the "shared" one
    tasksIn,    \* the task ids in each of the two
    failed      \* calls that ended in a KeyError (history)

table == <<agents, status, mirror, news>>
life == <<running, monitor, asleep, busRunning>>
work == <<wired, tasksIn>>
vars == <<table, overdue, life, call, work, failed>>

AgentStatus == {"registered", "active", "degraded", "stopping"}

Present(n) == agents[n] # None

-----------------------------------------------------------------------------
\* __init__: `queue or task_queue` takes the module's own queue when the one
\* given is empty, since a TaskQueue has a length.
Wire(given) == IF given = {} THEN "shared" ELSE "given"

Init ==
    /\ agents = [n \in Names |-> None]
    /\ status = [i \in Infos |-> "unused"]
    /\ overdue = {}
    /\ mirror = [n \in Names |-> None]
    /\ news = <<>>
    /\ running = FALSE /\ monitor = None /\ asleep = {} /\ busRunning = FALSE
    /\ call = [c \in Callers |-> None]
    /\ \E given \in SUBSET Tasks :
          /\ tasksIn = [q \in {"given", "shared"} |-> IF q = "given" THEN given ELSE {}]
          /\ wired = Wire(given)
    /\ failed = {}

Idle(c) == call[c] = None

Stops == {c \in Callers : ~Idle(c) /\ call[c].op = "stop"}

\* The calls that have still to do something to name n.
BusyWith(n) == {c \in Callers : ~Idle(c) /\ "name" \in DOMAIN call[c] /\ call[c].name = n}

\* A new call on name n disturbs none in progress.
Clear(n) == Overlap \/ (Stops = {} /\ BusyWith(n) = {})

-----------------------------------------------------------------------------
(* Agents. *)

\* register_agent enters a new AgentInfo at once, whoever had the name.
Register(c, n) ==
    /\ Idle(c) /\ Clear(n)
    /\ \E i \in Infos :
          /\ status[i] = "unused"
          /\ status' = [status EXCEPT ![i] = "registered"]
          /\ agents' = [agents EXCEPT ![n] = i]
    /\ mirror' = [mirror EXCEPT ![n] = "registered"]
    /\ call' = [call EXCEPT ![c] = [op |-> "register", name |-> n]]
    /\ UNCHANGED <<news, overdue, life, work, failed>>

RegisterEnds(c) ==
    /\ ~Idle(c) /\ call[c].op = "register"
    /\ news' = Append(news, <<"registered", call[c].name>>)
    /\ call' = [call EXCEPT ![c] = None]
    /\ UNCHANGED <<agents, status, mirror, overdue, life, work, failed>>

\* Mutant: the shared state keeps the agent.
BeginRemovalUnseen(ag, n) ==
    status' = [status EXCEPT ![ag[n]] = "stopping"] /\ UNCHANGED mirror

\* deregister_agent up to its await, on table ag.
BeginRemoval(ag, n) ==
    /\ status' = [status EXCEPT ![ag[n]] = "stopping"]
    /\ mirror' = [mirror EXCEPT ![n] = "stopped"]

\* ... and after it: the news is published, then `del self._agents[name]`.
Removed(n) == [agents EXCEPT ![n] = None]

Deregister(c, n) ==
    /\ Idle(c) /\ Clear(n)
    /\ Present(n)
    /\ BeginRemoval(agents, n)
    /\ call' = [call EXCEPT ![c] = [op |-> "deregister", name |-> n]]
    /\ UNCHANGED <<agents, news, overdue, life, work, failed>>

\* Mutant: the agent is removed only while it is still shown as stopping.
DeregisterIfStopping(c) ==
    /\ ~Idle(c) /\ call[c].op = "deregister"
    /\ \E i \in Infos : agents[call[c].name] = i /\ status[i] = "stopping"
    /\ news' = Append(news, <<"deregistered", call[c].name>>)
    /\ agents' = Removed(call[c].name)
    /\ call' = [call EXCEPT ![c] = None]
    /\ UNCHANGED <<status, mirror, overdue, life, work, failed>>

\* The name may be gone by now: then the `del` raises.
DeregisterEnds(c) ==
    /\ ~Idle(c) /\ call[c].op = "deregister"
    /\ news' = Append(news, <<"deregistered", call[c].name>>)
    /\ agents' = Removed(call[c].name)
    /\ failed' = IF Present(call[c].name) THEN failed ELSE failed \cup {"deregister"}
    /\ call' = [call EXCEPT ![c] = None]
    /\ UNCHANGED <<status, mirror, overdue, life, work>>

\* heartbeat does nothing after its await.
Heartbeat(n) ==
    /\ Present(n)
    /\ overdue' = overdue \ {agents[n]}
    /\ status' = [status EXCEPT ![agents[n]] =
                     IF @ \in {"registered", "degraded"} THEN "active" ELSE @]
    /\ UNCHANGED <<agents, mirror, news, life, call, work, failed>>

\* HEARTBEAT_TIMEOUT passes without a heartbeat.
Elapse(n) ==
    /\ Present(n)
    /\ overdue' = overdue \cup {agents[n]}
    /\ UNCHANGED <<table, life, call, work, failed>>

-----------------------------------------------------------------------------
(* Lifecycle. *)

\* Mutant: start does not look at _running.
StartAgain ==
    /\ Overlap \/ Stops = {}
    /\ running' = TRUE
    /\ busRunning' = TRUE
    /\ \E m \in Monitors \ asleep :
          monitor' = m /\ asleep' = asleep \cup {m}
    /\ UNCHANGED <<table, overdue, call, work, failed>>

Start ==
    /\ Overlap \/ Stops = {}
    /\ ~running
    /\ running' = TRUE
    /\ busRunning' = TRUE
    /\ \E m \in Monitors \ asleep :
          monitor' = m /\ asleep' = asleep \cup {m}
    /\ UNCHANGED <<table, overdue, call, work, failed>>

\* The monitor wakes up, degrades every agent that is overdue, whatever else its
\* status, and sleeps again unless _running has been cleared.
Wake(m) ==
    /\ m \in asleep
    /\ status' = [i \in Infos |-> IF i \in overdue /\ \E n \in Names : agents[n] = i
                                  THEN "degraded" ELSE status[i]]
    /\ asleep' = IF running THEN asleep ELSE asleep \ {m}
    /\ UNCHANGED <<agents, mirror, news, overdue, running, monitor, busRunning, call, work, failed>>

\* Mutant: the bus is left running.
StopLeavesBus(c) ==
    /\ monitor' = None
    /\ call' = [call EXCEPT ![c] = None]
    /\ UNCHANGED busRunning

\* stop stops the bus, which suspends it when there is a dispatch task to await,
\* and returns.
StopBus(c) ==
    /\ monitor' = None
    /\ busRunning' = FALSE
    /\ call' = [call EXCEPT ![c] = IF busRunning THEN [op |-> "stop", at |-> "bus"] ELSE None]

\* stop goes on with the names `todo` of its list, on table ag: the next that is
\* still registered, or else the monitor (one that is cancelled counts as ended),
\* or else the bus.
StopGoesOn(c, ag, todo) ==
    LET left == {n \in todo : ag[n] # None} IN
    \/ \E n \in left :
          /\ BeginRemoval(ag, n)
          /\ call' = [call EXCEPT ![c] = [op |-> "stop", at |-> "agent",
                                          name |-> n, todo |-> todo \ {n}]]
          /\ UNCHANGED <<monitor, asleep, busRunning>>
    \/ /\ left = {}
       /\ monitor \in asleep
       /\ asleep' = asleep \ {monitor}
       /\ call' = [call EXCEPT ![c] = [op |-> "stop", at |-> "monitor"]]
       /\ UNCHANGED <<status, mirror, monitor, busRunning>>
    \/ /\ left = {}
       /\ monitor \notin asleep
       /\ StopBus(c)
       /\ UNCHANGED <<status, mirror, asleep>>

Stop(c) ==
    /\ Idle(c)
    /\ Overlap \/ {d \in Callers : ~Idle(d)} = {}
    /\ running' = FALSE
    /\ StopGoesOn(c, agents, {n \in Names : Present(n)})
    /\ UNCHANGED <<agents, news, overdue, work, failed>>

\* An agent is removed, unless the `del` raises, out of stop as well.
StopRemoves(c) ==
    /\ c \in Stops /\ call[c].at = "agent"
    /\ news' = Append(news, <<"deregistered", call[c].name>>)
    /\ agents' = Removed(call[c].name)
    /\ \/ /\ Present(call[c].name)
          /\ StopGoesOn(c, Removed(call[c].name), call[c].todo)
          /\ UNCHANGED failed
       \/ /\ ~Present(call[c].name)
          /\ failed' = failed \cup {"stop"}
          /\ call' = [call EXCEPT ![c] = None]
          /\ UNCHANGED <<status, mirror, monitor, asleep, busRunning>>
    /\ UNCHANGED <<overdue, running, work>>

\* The cancelled monitor has ended: stop forgets it and stops the bus.
StopForgetsMonitor(c) ==
    /\ c \in Stops /\ call[c].at = "monitor"
    /\ StopBus(c)
    /\ UNCHANGED <<table, overdue, running, asleep, work, failed>>

StopEnds(c) ==
    /\ c \in Stops /\ call[c].at = "bus"
    /\ call' = [call EXCEPT ![c] = None]
    /\ UNCHANGED <<table, overdue, life, work, failed>>

\* submit_task for an agent that is registered, or for any.
Submit(t) ==
    /\ t \notin tasksIn["given"] \cup tasksIn["shared"]
    /\ tasksIn' = [tasksIn EXCEPT ![wired] = @ \cup {t}]
    /\ news' = Append(news, <<"submitted", t>>)
    /\ UNCHANGED <<agents, status, mirror, overdue, life, call, wired, failed>>

Resume(c) == \/ RegisterEnds(c) \/ DeregisterEnds(c)
             \/ StopRemoves(c) \/ StopForgetsMonitor(c) \/ StopEnds(c)

Next == \/ \E n \in Names : Heartbeat(n) \/ Elapse(n)
        \/ \E c \in Callers : \/ \E n \in Names : Register(c, n) \/ Deregister(c, n)
                              \/ Stop(c) \/ Resume(c)
        \/ Start
        \/ \E m \in Monitors : Wake(m)
        \/ \E t \in Tasks : Submit(t)

Spec == Init /\ [][Next]_vars

\* Suspended calls are resumed and sleeping tasks wake up.
FairSpec == /\ Spec
            /\ \A c \in Callers : WF_vars(Resume(c))
            /\ \A m \in Monitors : WF_vars(Wake(m))

-----------------------------------------------------------------------------
TypeOK ==
    /\ agents \in [Names -> Infos \cup {None}]
    /\ status \in [Infos -> AgentStatus \cup {"unused"}]
    /\ overdue \subseteq Infos
    /\ mirror \in [Names -> {"registered", "stopped", None}]
    /\ news \in Seq(({"registered", "deregistered"} \X Names) \cup ({"submitted"} \X Tasks))
    /\ running \in BOOLEAN /\ busRunning \in BOOLEAN
    /\ monitor \in Monitors \cup {None}
    /\ asleep \subseteq Monitors
    /\ call \in [Callers -> Call \cup {None}]
    /\ wired \in {"given", "shared"}
    /\ tasksIn \in [{"given", "shared"} -> SUBSET Tasks]
    /\ failed \subseteq {"deregister", "stop"}

About(n) == {i \in DOMAIN news : news[i][2] = n}

Latest(S) == CHOOSE i \in S : \A j \in S : j <= i

\* "SharedState - agent registry": where no call on a name is in progress, the
\* table, the shared state and the last announcement agree on whether the agent
\* is registered.
RegistryMirrored ==
    \A n \in Names : BusyWith(n) = {} =>
        /\ Present(n) <=> mirror[n] = "registered"
        /\ Present(n) <=> (About(n) # {} /\ news[Latest(About(n))][1] = "registered")

\* stop, "Gracefully shut down all agents and the coordinator": when it returns
\* no agent is registered, no monitor sleeps and the bus is down.
StopLeavesNothing ==
    [][\A c \in Stops : call'[c] = None /\ failed' = failed =>
          /\ \A n \in Names : agents'[n] = None
          /\ asleep' = {} /\ ~busRunning']_vars

\* start, "Start the coordinator (message bus + heartbeat monitor)": a running
\* coordinator that no stop() is shutting down has both, and one monitor only.
RunningIsMonitored ==
    running /\ Stops = {} => busRunning /\ asleep = {monitor}

\* deregister_agent "Returns True if found" and stop returns: no KeyError.
RemovalAnswers == failed = {}

\* An agent is shown as degraded only while its heartbeat is overdue: no
\* interleaving of heartbeat and monitor leaves a live agent degraded.
DegradedIsOverdue == \A i \in Infos : status[i] = "degraded" => i \in overdue

\* A silent agent of a running coordinator is noticed.
SilenceIsNoticed ==
    \A n \in Names, i \in Infos :
        agents[n] = i /\ i \in overdue
            ~> (status[i] = "degraded" \/ i \notin overdue \/ agents[n] # i \/ ~running)

\* Every call ends, with its result or an exception.
CallsEnd == \A c \in Callers : ~Idle(c) ~> Idle(c)

\* The coordinator gets on with its work: silence is noticed, calls end.
CoordinatorProgress == SilenceIsNoticed /\ CallsEnd
=============================================================================
