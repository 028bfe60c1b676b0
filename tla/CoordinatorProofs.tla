-------------------------- MODULE CoordinatorProofs --------------------------
(***************************************************************************)
(* AgentCoordinator, for any agents, callers, tasks and bounds: types and  *)
(* the meaning of "degraded" whatever overlaps; the registry's mirror, the *)
(* monitor and the shutdown when calls on one name, or on the lifecycle,   *)
(* do not overlap.                                                         *)
(***************************************************************************)
EXTENDS Coordinator, TLAPS, SequenceTheorems

-----------------------------------------------------------------------------
(* The records of suspended calls. *)

\* A suspended call is one of three.
LEMMA CallForms ==
    ASSUME NEW r \in Call
    PROVE  /\ r # None
           /\ \/ /\ r.op \in {"register", "deregister"} /\ "name" \in DOMAIN r
                 /\ r.name \in Names
              \/ /\ r.op = "stop" /\ r.at = "agent" /\ "name" \in DOMAIN r
                 /\ r.name \in Names /\ r.todo \in SUBSET Names
              \/ /\ r.op = "stop" /\ r.at \in {"monitor", "bus"} /\ "name" \notin DOMAIN r
<1>1. CASE r \in [op : {"register", "deregister"}, name : Names]
  BY <1>1, NoneAssumption DEF Call
<1>2. CASE r \in [op : {"stop"}, at : {"agent"}, name : Names, todo : SUBSET Names]
  BY <1>2, NoneAssumption DEF Call
<1>3. CASE r \in [op : {"stop"}, at : {"monitor", "bus"}]
  BY <1>3, NoneAssumption DEF Call
<1> QED
  BY <1>1, <1>2, <1>3 DEF Call

\* The records the handlers make are of these forms.
LEMMA CallsMade ==
    /\ \A n \in Names : [op |-> "register", name |-> n] \in Call
    /\ \A n \in Names : [op |-> "deregister", name |-> n] \in Call
    /\ \A n \in Names, todo \in SUBSET Names :
          [op |-> "stop", at |-> "agent", name |-> n, todo |-> todo] \in Call
    /\ [op |-> "stop", at |-> "monitor"] \in Call
    /\ [op |-> "stop", at |-> "bus"] \in Call
  BY DEF Call

\* The name a call in progress is about.
LEMMA NameOfCall ==
    ASSUME TypeOK, NEW c \in Callers, ~Idle(c), "name" \in DOMAIN call[c]
    PROVE  call[c].name \in Names
  BY CallForms DEF TypeOK, Idle

-----------------------------------------------------------------------------
(* Types. *)

LEMMA BusTypes ==
    ASSUME TypeOK, NEW c \in Callers, StopBus(c)
    PROVE  /\ monitor' \in Monitors \cup {None} /\ busRunning' \in BOOLEAN
           /\ call' \in [Callers -> Call \cup {None}]
  BY CallsMade DEF TypeOK, StopBus

LEMMA StopTypes ==
    ASSUME TypeOK, NEW c \in Callers, NEW ag \in [Names -> Infos \cup {None}],
           NEW todo \in SUBSET Names, StopGoesOn(c, ag, todo)
    PROVE  /\ status' \in [Infos -> AgentStatus \cup {"unused"}]
           /\ mirror' \in [Names -> {"registered", "stopped", None}]
           /\ monitor' \in Monitors \cup {None} /\ busRunning' \in BOOLEAN
           /\ asleep' \subseteq Monitors
           /\ call' \in [Callers -> Call \cup {None}]
<1> DEFINE left == {n \in todo : ag[n] # None}
<1>1. CASE \E n \in left :
              /\ BeginRemoval(ag, n)
              /\ call' = [call EXCEPT ![c] = [op |-> "stop", at |-> "agent",
                                              name |-> n, todo |-> todo \ {n}]]
              /\ UNCHANGED <<monitor, asleep, busRunning>>
  <2>1. PICK n \in left :
              /\ BeginRemoval(ag, n)
              /\ call' = [call EXCEPT ![c] = [op |-> "stop", at |-> "agent",
                                              name |-> n, todo |-> todo \ {n}]]
              /\ UNCHANGED <<monitor, asleep, busRunning>>
    BY <1>1
  <2>2. n \in Names /\ todo \ {n} \in SUBSET Names
    OBVIOUS
  <2>3. [op |-> "stop", at |-> "agent", name |-> n, todo |-> todo \ {n}] \in Call
    BY <2>2, CallsMade
  <2> QED
    BY <2>1, <2>2, <2>3 DEF TypeOK, BeginRemoval, AgentStatus
<1>2. CASE /\ asleep' = asleep \ {monitor}
           /\ call' = [call EXCEPT ![c] = [op |-> "stop", at |-> "monitor"]]
           /\ UNCHANGED <<status, mirror, monitor, busRunning>>
  BY <1>2, CallsMade DEF TypeOK
<1>3. CASE StopBus(c) /\ UNCHANGED <<status, mirror, asleep>>
  BY <1>3, BusTypes DEF TypeOK
<1> QED
  BY <1>1, <1>2, <1>3 DEF StopGoesOn

\* A table stays one when a name is removed.
LEMMA RemovedTypes ==
    ASSUME TypeOK, NEW n
    PROVE  Removed(n) \in [Names -> Infos \cup {None}]
  BY DEF TypeOK, Removed

\* What is announced is a pair of the right kind.
News == ({"registered", "deregistered"} \X Names) \cup ({"submitted"} \X Tasks)

LEMMA NewsTypes ==
    ASSUME news \in Seq(News), NEW x \in News, news' = Append(news, x)
    PROVE  news' \in Seq(News)
  BY AppendProperties

LEMMA TypePreserved == TypeOK /\ [Next]_vars => TypeOK'
<1> SUFFICES ASSUME TypeOK, [Next]_vars PROVE TypeOK'
  OBVIOUS
<1> USE DEF table, life, work
<1>n. news \in Seq(News)
  BY DEF TypeOK, News
<1>1. ASSUME NEW c \in Callers, NEW n \in Names, Register(c, n) PROVE TypeOK'
  BY <1>1, CallsMade DEF TypeOK, Register, AgentStatus
<1>2. ASSUME NEW c \in Callers, NEW n \in Names, Deregister(c, n) PROVE TypeOK'
  BY <1>2, CallsMade DEF TypeOK, Deregister, BeginRemoval, AgentStatus
<1>3. ASSUME NEW n \in Names, Heartbeat(n) PROVE TypeOK'
  BY <1>3 DEF TypeOK, Heartbeat, AgentStatus
<1>4. ASSUME NEW n \in Names, Elapse(n) PROVE TypeOK'
  BY <1>4 DEF TypeOK, Elapse, Present
<1>5. CASE Start
  BY <1>5 DEF TypeOK, Start
<1>6. ASSUME NEW m \in Monitors, Wake(m) PROVE TypeOK'
  BY <1>6 DEF TypeOK, Wake, AgentStatus
<1>7. ASSUME NEW c \in Callers, Stop(c) PROVE TypeOK'
  <2>1. {n \in Names : Present(n)} \in SUBSET Names /\ agents \in [Names -> Infos \cup {None}]
    BY DEF TypeOK
  <2> QED
    BY <1>7, <2>1, StopTypes DEF TypeOK, Stop
<1>8. ASSUME NEW c \in Callers, RegisterEnds(c) PROVE TypeOK'
  <2>1. call[c].name \in Names
    BY <1>8, CallForms DEF TypeOK, RegisterEnds, Idle
  <2>2. news' \in Seq(News)
    BY <1>8, <1>n, <2>1, NewsTypes DEF RegisterEnds, News
  <2> QED
    BY <1>8, <2>2 DEF TypeOK, RegisterEnds, News
<1>9. ASSUME NEW c \in Callers, DeregisterEnds(c) PROVE TypeOK'
  <2>1. call[c].name \in Names
    BY <1>9, CallForms DEF TypeOK, DeregisterEnds, Idle
  <2>2. news' \in Seq(News)
    BY <1>9, <1>n, <2>1, NewsTypes DEF DeregisterEnds, News
  <2>3. agents' \in [Names -> Infos \cup {None}]
    BY <1>9, RemovedTypes DEF DeregisterEnds
  <2> QED
    BY <1>9, <2>2, <2>3 DEF TypeOK, DeregisterEnds, News
<1>10. ASSUME NEW c \in Callers, StopRemoves(c) PROVE TypeOK'
  <2>1. call[c].name \in Names /\ call[c].todo \in SUBSET Names
    BY <1>10, CallForms DEF TypeOK, StopRemoves, Stops, Idle
  <2>2. news' \in Seq(News)
    BY <1>10, <1>n, <2>1, NewsTypes DEF StopRemoves, News
  <2>3. Removed(call[c].name) \in [Names -> Infos \cup {None}]
    BY RemovedTypes
  <2>4. CASE Present(call[c].name)
    BY <1>10, <2>1, <2>2, <2>3, <2>4, StopTypes DEF TypeOK, StopRemoves, News
  <2>5. CASE ~Present(call[c].name)
    BY <1>10, <2>2, <2>3, <2>5 DEF TypeOK, StopRemoves, News
  <2> QED
    BY <2>4, <2>5
<1>11. ASSUME NEW c \in Callers, StopForgetsMonitor(c) PROVE TypeOK'
  BY <1>11, BusTypes DEF TypeOK, StopForgetsMonitor
<1>12. ASSUME NEW c \in Callers, StopEnds(c) PROVE TypeOK'
  BY <1>12 DEF TypeOK, StopEnds
<1>13. ASSUME NEW t \in Tasks, Submit(t) PROVE TypeOK'
  <2>1. news' \in Seq(News)
    BY <1>13, <1>n, NewsTypes DEF Submit, News
  <2> QED
    BY <1>13, <2>1 DEF TypeOK, Submit, News
<1>14. CASE UNCHANGED vars
  BY <1>14 DEF TypeOK, vars
<1> QED
  BY <1>1, <1>2, <1>3, <1>4, <1>5, <1>6, <1>7, <1>8, <1>9, <1>10, <1>11, <1>12, <1>13, <1>14
     DEF Next, Resume

LEMMA TypeInitial == Init => TypeOK
<1> SUFFICES ASSUME Init PROVE TypeOK
  OBVIOUS
<1>1. wired \in {"given", "shared"} /\ tasksIn \in [{"given", "shared"} -> SUBSET Tasks]
  BY DEF Init, Wire
<1>2. news \in Seq(News) /\ agents \in [Names -> Infos \cup {None}]
  BY EmptySeq DEF Init
<1>3. /\ running \in BOOLEAN /\ busRunning \in BOOLEAN /\ asleep \subseteq Monitors
      /\ monitor \in Monitors \cup {None} /\ call \in [Callers -> Call \cup {None}]
  BY DEF Init
<1>4. /\ status \in [Infos -> AgentStatus \cup {"unused"}] /\ overdue \subseteq Infos
      /\ mirror \in [Names -> {"registered", "stopped", None}]
      /\ failed \subseteq {"deregister", "stop"}
  BY DEF Init
<1> QED
  BY <1>1, <1>2, <1>3, <1>4 DEF TypeOK, News

\* The coordinator's state keeps its types.
THEOREM TypeCorrect == Spec => []TypeOK
  BY TypeInitial, TypePreserved, PTL DEF Spec

-----------------------------------------------------------------------------
(* Degraded agents. *)

LEMMA DegradedPreserved ==
    TypeOK /\ DegradedIsOverdue /\ [Next]_vars => DegradedIsOverdue'
<1> SUFFICES ASSUME TypeOK, DegradedIsOverdue, [Next]_vars, NEW i \in Infos,
                    status'[i] = "degraded"
             PROVE  i \in overdue'
  BY DEF DegradedIsOverdue
<1> USE DEF table, life, work
<1>1. ASSUME NEW ag, NEW n, BeginRemoval(ag, n) PROVE status[i] = "degraded"
  BY <1>1 DEF BeginRemoval, TypeOK
<1>2. ASSUME NEW c \in Callers, NEW ag, NEW todo, StopGoesOn(c, ag, todo)
      PROVE  status[i] = "degraded"
  BY <1>1, <1>2 DEF StopGoesOn
<1>3. ASSUME NEW n \in Names, Heartbeat(n) PROVE i \in overdue'
  BY <1>3 DEF Heartbeat, TypeOK, DegradedIsOverdue
<1>4. ASSUME NEW m \in Monitors, Wake(m) PROVE i \in overdue'
  BY <1>4 DEF Wake, DegradedIsOverdue
<1>5. ASSUME NEW n \in Names, Elapse(n) PROVE i \in overdue'
  BY <1>5 DEF Elapse, DegradedIsOverdue
<1>6. CASE /\ ~\E n \in Names : Heartbeat(n) \/ Elapse(n)
           /\ ~\E m \in Monitors : Wake(m)
  <2>1. overdue' = overdue
    BY <1>6 DEF Next, Register, Deregister, Start, Stop, Resume, RegisterEnds, DegradedIsOverdue,
                DeregisterEnds, StopRemoves, StopForgetsMonitor, StopEnds, Submit, vars
  <2>2. status[i] = "degraded"
    BY <1>1, <1>2, <1>6 DEF TypeOK, Next, Register, Deregister, Start, Stop, Resume, RegisterEnds,
                DeregisterEnds, StopRemoves, StopForgetsMonitor, StopEnds, Submit, vars
  <2> QED
    BY <2>1, <2>2 DEF DegradedIsOverdue
<1> QED
  BY <1>3, <1>4, <1>5, <1>6

\* An agent is shown as degraded only while its heartbeat is overdue: heartbeat
\* brings it back at once, and no interleaving of registrations, removals and
\* the monitor's passes degrades another.
THEOREM DegradedMeansOverdue == Spec => []DegradedIsOverdue
<1>1. Init => DegradedIsOverdue
  BY DEF Init, DegradedIsOverdue
<1> QED
  BY <1>1, TypeCorrect, DegradedPreserved, PTL DEF Spec

-----------------------------------------------------------------------------
(* Shutdown, when nothing overlaps it. *)

\* Nothing else is in progress during a stop.
StopIsAlone == \A c \in Stops : \A d \in Callers : d # c => Idle(d)

\* What a suspended stop has done, and what it still holds on its list.
StopKnows ==
    \A c \in Stops :
        /\ ~running
        /\ call[c].at = "agent" =>
              /\ Present(call[c].name)
              /\ \A n \in Names : Present(n) => n \in call[c].todo \cup {call[c].name}
        /\ call[c].at \in {"monitor", "bus"} =>
              asleep = {} /\ \A n \in Names : ~Present(n)
        /\ call[c].at = "bus" => ~busRunning

\* Only the current monitor sleeps, and with no stop in progress it and the bus
\* are there when, and only when, the coordinator runs.
Watched ==
    /\ asleep \subseteq {monitor}
    /\ running => busRunning /\ asleep = {monitor}
    /\ ~running /\ Stops = {} => asleep = {} /\ ~busRunning

LifeInv == StopIsAlone /\ StopKnows /\ Watched

\* What a stop that returns to caller c leaves.
NothingLeft(c) ==
    call'[c] = None => /\ \A n \in Names : agents'[n] = None
                       /\ asleep' = {} /\ ~busRunning'

\* A stop of a bus with everything else gone.
LEMMA BusLeaves ==
    ASSUME TypeOK, NEW c \in Callers, \A d \in Callers : d # c => Idle(d),
           StopBus(c), ~running', asleep' = {}, \A n \in Names : agents'[n] = None
    PROVE  LifeInv' /\ NothingLeft(c)
<1>1. ~busRunning' /\ \A d \in Callers : d # c => call'[d] = None
  BY DEF StopBus, TypeOK, Idle
<1>2. call'[c] = None \/ call'[c] = [op |-> "stop", at |-> "bus"]
  BY DEF StopBus, TypeOK
<1>3. \A d \in Stops' : d = c /\ call'[d] = [op |-> "stop", at |-> "bus"]
  BY <1>1, <1>2 DEF Stops, Idle
<1>4. StopIsAlone' /\ StopKnows'
  BY <1>1, <1>3 DEF StopIsAlone, StopKnows, Stops, Idle, Present
<1> QED
  BY <1>1, <1>4 DEF LifeInv, Watched, NothingLeft

\* A stop whose list holds every agent of the table goes on as it should.
LEMMA StopLeaves ==
    ASSUME TypeOK, asleep \subseteq {monitor},
           NEW c \in Callers, \A d \in Callers : d # c => Idle(d), ~running',
           NEW ag \in [Names -> Infos \cup {None}], agents' = ag,
           NEW todo \in SUBSET Names, \A n \in Names : ag[n] # None => n \in todo,
           StopGoesOn(c, ag, todo)
    PROVE  LifeInv' /\ NothingLeft(c)
<1> DEFINE left == {n \in todo : ag[n] # None}
<1>1. CASE \E n \in left :
              /\ BeginRemoval(ag, n)
              /\ call' = [call EXCEPT ![c] = [op |-> "stop", at |-> "agent",
                                              name |-> n, todo |-> todo \ {n}]]
              /\ UNCHANGED <<monitor, asleep, busRunning>>
  <2>1. PICK n \in left :
              /\ call' = [call EXCEPT ![c] = [op |-> "stop", at |-> "agent",
                                              name |-> n, todo |-> todo \ {n}]]
              /\ UNCHANGED <<monitor, asleep, busRunning>>
    BY <1>1
  <2>2. /\ call'[c] = [op |-> "stop", at |-> "agent", name |-> n, todo |-> todo \ {n}]
        /\ \A d \in Callers : d # c => call'[d] = None
    BY <2>1 DEF TypeOK, Idle
  <2>3. call'[c] # None
    BY <2>1, <2>2, CallsMade, NoneAssumption
  <2>4. Stops' = {c}
    BY <2>2, <2>3 DEF Stops, Idle
  <2>5. StopIsAlone' /\ StopKnows'
    BY <2>1, <2>2, <2>4 DEF StopIsAlone, StopKnows, Idle, Present
  <2> QED
    BY <2>1, <2>3, <2>4, <2>5 DEF LifeInv, Watched, NothingLeft
<1>2. CASE /\ left = {} /\ monitor \in asleep
           /\ asleep' = asleep \ {monitor}
           /\ call' = [call EXCEPT ![c] = [op |-> "stop", at |-> "monitor"]]
           /\ UNCHANGED <<status, mirror, monitor, busRunning>>
  <2>1. asleep' = {} /\ \A n \in Names : agents'[n] = None
    BY <1>2
  <2>2. /\ call'[c] = [op |-> "stop", at |-> "monitor"]
        /\ \A d \in Callers : d # c => call'[d] = None
    BY <1>2 DEF TypeOK, Idle
  <2>3. Stops' = {c} /\ call'[c] # None
    BY <2>2, CallsMade, NoneAssumption DEF Stops, Idle
  <2>4. StopIsAlone' /\ StopKnows'
    BY <2>1, <2>2, <2>3 DEF StopIsAlone, StopKnows, Idle, Present
  <2> QED
    BY <2>1, <2>3, <2>4 DEF LifeInv, Watched, NothingLeft
<1>3. CASE left = {} /\ monitor \notin asleep /\ StopBus(c) /\ UNCHANGED asleep
  <2>1. asleep' = {} /\ \A n \in Names : agents'[n] = None
    BY <1>3
  <2> QED
    BY <1>3, <2>1, BusLeaves
<1> QED
  BY <1>1, <1>2, <1>3 DEF StopGoesOn

\* The steps of a stop.
LEMMA StopSteps ==
    ASSUME Overlap = FALSE, TypeOK, LifeInv, NEW c \in Callers,
           Stop(c) \/ StopRemoves(c) \/ StopForgetsMonitor(c) \/ StopEnds(c)
    PROVE  LifeInv' /\ NothingLeft(c) /\ (StopRemoves(c) => failed' = failed)
<1>1. CASE Stop(c)
  <2>1. \A d \in Callers : Idle(d)
    BY <1>1 DEF Stop
  <2>2. {n \in Names : Present(n)} \in SUBSET Names /\ agents \in [Names -> Infos \cup {None}]
    BY DEF TypeOK
  <2>3. ~StopRemoves(c)
    BY <2>1 DEF StopRemoves, Stops
  <2> QED
    BY <1>1, <2>1, <2>2, <2>3, StopLeaves DEF Stop, LifeInv, Watched, Present
<1>2. CASE StopRemoves(c)
  <2>1. c \in Stops /\ call[c].at = "agent"
    BY <1>2 DEF StopRemoves
  <2>2. call[c].name \in Names /\ call[c].todo \in SUBSET Names
    BY <2>1, CallForms DEF TypeOK, Stops, Idle
  <2>3. /\ Present(call[c].name) /\ ~running
        /\ \A n \in Names : Present(n) => n \in call[c].todo \cup {call[c].name}
        /\ \A d \in Callers : d # c => Idle(d)
    BY <2>1 DEF LifeInv, StopKnows, StopIsAlone
  <2>4. /\ agents' = Removed(call[c].name) /\ running' = running /\ failed' = failed
        /\ StopGoesOn(c, Removed(call[c].name), call[c].todo)
    BY <1>2, <2>3 DEF StopRemoves
  <2>5. /\ Removed(call[c].name) \in [Names -> Infos \cup {None}]
        /\ \A n \in Names : Removed(call[c].name)[n] # None => n \in call[c].todo
    BY <2>2, <2>3, RemovedTypes DEF Removed, Present, TypeOK
  <2> QED
    BY <2>2, <2>3, <2>4, <2>5, StopLeaves DEF LifeInv, Watched
<1>3. CASE StopForgetsMonitor(c)
  <2>1. c \in Stops /\ call[c].at = "monitor"
    BY <1>3 DEF StopForgetsMonitor
  <2>2. /\ ~running /\ asleep = {} /\ \A n \in Names : ~Present(n)
        /\ \A d \in Callers : d # c => Idle(d)
    BY <2>1 DEF LifeInv, StopKnows, StopIsAlone
  <2>3. /\ ~running' /\ asleep' = {} /\ \A n \in Names : agents'[n] = None
        /\ StopBus(c)
    BY <1>3, <2>2 DEF StopForgetsMonitor, Present, table
  <2>4. ~StopRemoves(c)
    BY <2>1 DEF StopRemoves
  <2> QED
    BY <2>2, <2>3, <2>4, BusLeaves
<1>4. CASE StopEnds(c)
  <2>1. c \in Stops /\ call[c].at = "bus"
    BY <1>4 DEF StopEnds
  <2>2. /\ ~running /\ asleep = {} /\ ~busRunning /\ \A n \in Names : ~Present(n)
        /\ \A d \in Callers : d # c => Idle(d)
    BY <2>1 DEF LifeInv, StopKnows, StopIsAlone
  <2>3. UNCHANGED <<agents, running, monitor, asleep, busRunning>>
    BY <1>4 DEF StopEnds, table, life
  <2>4. \A d \in Callers : call'[d] = None
    BY <1>4, <2>2 DEF StopEnds, Idle, TypeOK
  <2>5. Stops' = {}
    BY <2>4 DEF Stops, Idle
  <2>6. ~StopRemoves(c)
    BY <2>1 DEF StopRemoves
  <2> QED
    BY <2>2, <2>3, <2>5, <2>6
       DEF LifeInv, StopIsAlone, StopKnows, Watched, NothingLeft, Present
<1> QED
  BY <1>1, <1>2, <1>3, <1>4

\* Calls on names are other than a stop; they leave the lifecycle alone.
LEMMA CallSteps ==
    ASSUME Overlap = FALSE, TypeOK, LifeInv, NEW c \in Callers, NEW n \in Names,
           Register(c, n) \/ Deregister(c, n) \/ RegisterEnds(c) \/ DeregisterEnds(c)
    PROVE  LifeInv'
<1>1. Stops = {} /\ UNCHANGED <<running, monitor, asleep, busRunning>>
  <2>1. CASE Register(c, n) \/ Deregister(c, n)
    BY <2>1 DEF Register, Deregister, Clear, life
  <2>2. CASE RegisterEnds(c) \/ DeregisterEnds(c)
    <3>1. ~Idle(c) /\ c \notin Stops
      BY <2>2 DEF RegisterEnds, DeregisterEnds, Stops
    <3>2. Stops = {}
      BY <3>1 DEF LifeInv, StopIsAlone
    <3> QED
      BY <2>2, <3>2 DEF RegisterEnds, DeregisterEnds, life
  <2> QED
    BY <2>1, <2>2
<1>2. \A d \in Callers : call'[d] = call[d] \/ call'[d] = None \/ call'[d].op # "stop"
  BY DEF TypeOK, Register, Deregister, RegisterEnds, DeregisterEnds
<1>3. Stops' = {}
  BY <1>1, <1>2 DEF Stops, Idle
<1> QED
  BY <1>1, <1>3 DEF LifeInv, StopIsAlone, StopKnows, Watched

LEMMA LifePreserved ==
    ASSUME Overlap = FALSE, TypeOK, LifeInv, [Next]_vars
    PROVE  LifeInv'
<1>1. ASSUME UNCHANGED <<agents, running, monitor, asleep, busRunning, call>> PROVE LifeInv'
  BY <1>1 DEF LifeInv, StopIsAlone, StopKnows, Watched, Stops, Idle, Present
<1>2. ASSUME NEW n \in Names, Heartbeat(n) \/ Elapse(n) PROVE LifeInv'
  BY <1>1, <1>2 DEF Heartbeat, Elapse, table, life
<1>3. ASSUME NEW t \in Tasks, Submit(t) PROVE LifeInv'
  BY <1>1, <1>3 DEF Submit, life
<1>4. CASE UNCHANGED vars
  BY <1>1, <1>4 DEF vars, table, life
<1>5. CASE Start
  <2>1. Stops = {} /\ ~running /\ asleep = {}
    BY <1>5 DEF Start, LifeInv, Watched
  <2>2. running' /\ busRunning' /\ asleep' = {monitor'} /\ call' = call
    BY <1>5, <2>1 DEF Start
  <2>3. Stops' = {}
    BY <2>1, <2>2 DEF Stops, Idle
  <2> QED
    BY <2>2, <2>3 DEF LifeInv, StopIsAlone, StopKnows, Watched
<1>6. ASSUME NEW m \in Monitors, Wake(m) PROVE LifeInv'
  <2>1. UNCHANGED <<agents, running, monitor, busRunning, call>>
    BY <1>6 DEF Wake
  <2>2. asleep' \subseteq asleep /\ (running => asleep' = asleep)
    BY <1>6 DEF Wake
  <2> QED
    BY <2>1, <2>2 DEF LifeInv, StopIsAlone, StopKnows, Watched, Stops, Idle, Present
<1>7. ASSUME NEW c \in Callers, NEW n \in Names, Register(c, n) \/ Deregister(c, n)
      PROVE  LifeInv'
  BY <1>7, CallSteps
<1>8. ASSUME NEW c \in Callers, RegisterEnds(c) \/ DeregisterEnds(c) PROVE LifeInv'
  <2>1. call[c].name \in Names
    BY <1>8, CallForms DEF RegisterEnds, DeregisterEnds, Idle, TypeOK
  <2> QED
    BY <1>8, <2>1, CallSteps
<1>9. ASSUME NEW c \in Callers,
             Stop(c) \/ StopRemoves(c) \/ StopForgetsMonitor(c) \/ StopEnds(c)
      PROVE  LifeInv'
  BY <1>9, StopSteps
<1> QED
  BY <1>2, <1>3, <1>4, <1>5, <1>6, <1>7, <1>8, <1>9 DEF Next, Resume

LEMMA LifeInitial == Init => LifeInv
<1> SUFFICES ASSUME Init PROVE LifeInv
  OBVIOUS
<1>1. Stops = {} /\ asleep = {} /\ ~running /\ ~busRunning
  BY DEF Init, Stops, Idle
<1> QED
  BY <1>1 DEF LifeInv, StopIsAlone, StopKnows, Watched

LEMMA LifeInvariant == ASSUME Overlap = FALSE PROVE Spec => [](TypeOK /\ LifeInv)
<1>1. Init => TypeOK /\ LifeInv
  BY TypeInitial, LifeInitial
<1>2. TypeOK /\ LifeInv /\ [Next]_vars => (TypeOK /\ LifeInv)'
  BY TypePreserved, LifePreserved
<1> QED
  BY <1>1, <1>2, PTL DEF Spec

\* A running coordinator that no stop() is shutting down has its bus and one
\* heartbeat monitor, through any number of starts and stops.
THEOREM Monitored ==
    ASSUME Overlap = FALSE PROVE Spec => []RunningIsMonitored
<1>1. LifeInv => RunningIsMonitored
  BY DEF LifeInv, Watched, RunningIsMonitored
<1> QED
  BY <1>1, LifeInvariant, PTL

\* When stop() returns, no agent is registered, no monitor sleeps and the bus is
\* down.
THEOREM ShutdownComplete ==
    ASSUME Overlap = FALSE PROVE Spec => StopLeavesNothing
<1>1. TypeOK /\ LifeInv /\ [Next]_vars =>
         [\A c \in Stops : call'[c] = None /\ failed' = failed =>
             /\ \A n \in Names : agents'[n] = None
             /\ asleep' = {} /\ ~busRunning']_vars
  <2> SUFFICES ASSUME TypeOK, LifeInv, Next, NEW c \in Stops, call'[c] = None
               PROVE  NothingLeft(c)
    BY DEF NothingLeft, vars
  <2>1. ASSUME NEW d \in Callers, d # c,
               \/ \E n \in Names : Register(d, n) \/ Deregister(d, n)
               \/ Stop(d) \/ Resume(d)
        PROVE  FALSE
    <3>1. Stops # {} /\ Idle(d) /\ ~Idle(c) /\ c \in Callers
      BY <2>1 DEF LifeInv, StopIsAlone, Stops
    <3>2. Overlap = FALSE
      OBVIOUS
    <3> QED
      BY <2>1, <3>1, <3>2 DEF Register, Deregister, Clear, Stop, Resume, RegisterEnds,
         DeregisterEnds, StopRemoves, StopForgetsMonitor, StopEnds, Stops
  <2>2. call[c] # None /\ call[c].op = "stop" /\ c \in Callers
    BY DEF Stops, Idle
  <2>3. call' # call
    BY <2>2
  <2>4. \/ \E n \in Names : Register(c, n) \/ Deregister(c, n)
        \/ Stop(c) \/ Resume(c)
    <3>1. /\ ~\E n \in Names : Heartbeat(n) \/ Elapse(n)
          /\ ~\E t \in Tasks : Submit(t)
          /\ ~Start
          /\ ~\E m \in Monitors : Wake(m)
      BY <2>3 DEF Heartbeat, Elapse, Start, Wake, Submit
    <3> QED
      BY <2>1, <3>1 DEF Next
  <2>5. StopRemoves(c) \/ StopForgetsMonitor(c) \/ StopEnds(c)
    BY <2>2, <2>4 DEF Register, Deregister, Stop, Resume, RegisterEnds, DeregisterEnds, Idle
  <2> QED
    BY <2>2, <2>5, StopSteps
<1> QED
  BY <1>1, LifeInvariant, PTL DEF Spec, StopLeavesNothing

-----------------------------------------------------------------------------
(* The registry and its mirror, when calls on one name do not overlap. *)

\* The last announcement about n says it is registered.
Said(n) == About(n) # {} /\ news[Latest(About(n))][1] = "registered"

\* Announcements about n have a last one.
HaveLatest ==
    \A n \in Names : About(n) # {} =>
        \E i \in About(n) : \A j \in About(n) : j <= i

\* One call at a time is in progress on n, and the shared state already shows
\* where it leads; without one, table, mirror and announcements agree.
NameOK(n) ==
    /\ \A c, d \in BusyWith(n) : c = d
    /\ \A c \in BusyWith(n) :
          /\ Present(n)
          /\ mirror[n] = IF call[c].op = "register" THEN "registered" ELSE "stopped"
    /\ BusyWith(n) = {} => /\ Present(n) <=> mirror[n] = "registered"
                           /\ Present(n) <=> Said(n)

NameInv == HaveLatest /\ RemovalAnswers /\ \A n \in Names : NameOK(n)

\* An announcement changes what is said of its subject only.
LEMMA Announce ==
    ASSUME news \in Seq(News), HaveLatest, NEW x \in News, news' = Append(news, x)
    PROVE  /\ HaveLatest'
           /\ \A n \in Names : Said(n)' = IF x[2] = n THEN x[1] = "registered" ELSE Said(n)
<1>1. /\ Len(news) \in Nat /\ DOMAIN news = 1..Len(news)
      /\ DOMAIN news' = 1..(Len(news) + 1)
      /\ news'[Len(news) + 1] = x
      /\ \A i \in 1..Len(news) : news'[i] = news[i]
  BY AppendProperties, LenProperties
<1>2. ASSUME NEW n \in Names, x[2] = n
      PROVE  /\ Said(n)' = (x[1] = "registered")
             /\ About(n)' # {} => \E i \in About(n)' : \A j \in About(n)' : j <= i
  <2>1. Len(news) + 1 \in About(n)' /\ \A j \in About(n)' : j \in Nat /\ j <= Len(news) + 1
    BY <1>1, <1>2 DEF About
  <2>2. Latest(About(n)') = Len(news) + 1
    BY <1>1, <2>1 DEF Latest
  <2> QED
    BY <1>1, <2>1, <2>2 DEF Said
<1>3. ASSUME NEW n \in Names, x[2] # n
      PROVE  /\ Said(n)' = Said(n)
             /\ About(n)' # {} => \E i \in About(n)' : \A j \in About(n)' : j <= i
  <2>1. About(n)' = About(n)
    BY <1>1, <1>3 DEF About
  <2>2. CASE About(n) # {}
    <3>1. PICK i \in About(n) : \A j \in About(n) : j <= i
      BY <2>2 DEF HaveLatest
    <3>2. Latest(About(n)) \in About(n)
      BY <3>1 DEF Latest
    <3>3. news'[Latest(About(n))] = news[Latest(About(n))]
      BY <1>1, <3>2 DEF About
    <3> QED
      BY <2>1, <3>1, <3>3 DEF Said
  <2> QED
    BY <2>1, <2>2 DEF Said
<1> QED
  BY <1>2, <1>3 DEF HaveLatest

LEMMA NothingAnnounced ==
    ASSUME HaveLatest, UNCHANGED news
    PROVE  HaveLatest' /\ \A n \in Names : Said(n)' = Said(n)
<1>1. \A n \in Names : About(n)' = About(n)
  BY DEF About
<1> QED
  BY <1>1 DEF HaveLatest, Said

\* How the calls in progress change when caller c goes on to r.
LEMMA Busy ==
    ASSUME TypeOK, NEW c \in Callers, NEW r, call' = [call EXCEPT ![c] = r], NEW n \in Names
    PROVE  BusyWith(n)' = IF r # None /\ "name" \in DOMAIN r /\ r.name = n
                          THEN BusyWith(n) \cup {c} ELSE BusyWith(n) \ {c}
<1>1. \A d \in Callers : call'[d] = IF d = c THEN r ELSE call[d]
  BY DEF TypeOK
<1> QED
  BY <1>1 DEF BusyWith, Idle

LEMMA BusyEnds ==
    ASSUME TypeOK, NEW c \in Callers, call' = [call EXCEPT ![c] = None], NEW n \in Names
    PROVE  BusyWith(n)' = BusyWith(n) \ {c}
<1>1. \A d \in Callers : call'[d] = IF d = c THEN None ELSE call[d]
  BY DEF TypeOK
<1> QED
  BY <1>1 DEF BusyWith, Idle

\* A name that a step does not concern.
LEMMA Untouched ==
    ASSUME NEW n \in Names, NameOK(n), agents'[n] = agents[n], mirror'[n] = mirror[n],
           BusyWith(n)' = BusyWith(n), \A c \in BusyWith(n) : call'[c] = call[c],
           Said(n)' = Said(n)
    PROVE  NameOK(n)'
  BY DEF NameOK, Present

\* A call on name n begins.
LEMMA CallBegins ==
    ASSUME TypeOK, NEW c \in Callers, Idle(c), NEW n \in Names, BusyWith(n) = {},
           NEW r \in Call, "name" \in DOMAIN r, r.name = n, call' = [call EXCEPT ![c] = r],
           agents'[n] # None,
           mirror' = [mirror EXCEPT ![n] = IF r.op = "register" THEN "registered" ELSE "stopped"],
           \A m \in Names \ {n} : agents'[m] = agents[m],
           NameInv, UNCHANGED <<news, failed>>
    PROVE  NameInv'
<1>1. HaveLatest' /\ \A m \in Names : Said(m)' = Said(m)
  BY NothingAnnounced DEF NameInv
<1>2. r # None /\ call'[c] = r
  BY NoneAssumption DEF TypeOK
<1>3. NameOK(n)'
  <2>1. BusyWith(n)' = {c}
    BY <1>2, Busy
  <2>2. mirror'[n] = IF r.op = "register" THEN "registered" ELSE "stopped"
    BY DEF TypeOK
  <2> QED
    BY <1>2, <2>1, <2>2 DEF NameOK, Present
<1>4. ASSUME NEW m \in Names, m # n PROVE NameOK(m)'
  <2>1. c \notin BusyWith(m)
    BY DEF BusyWith
  <2>2. BusyWith(m)' = BusyWith(m) \ {c}
    <3>1. BusyWith(m)' = IF r # None /\ "name" \in DOMAIN r /\ r.name = m
                         THEN BusyWith(m) \cup {c} ELSE BusyWith(m) \ {c}
      BY Busy
    <3> QED
      BY <1>4, <3>1
  <2>3. \A d \in BusyWith(m) : call'[d] = call[d]
    BY <2>1 DEF BusyWith, TypeOK
  <2>4. mirror'[m] = mirror[m] /\ agents'[m] = agents[m]
    BY <1>4 DEF TypeOK
  <2>5. NameOK(m) /\ BusyWith(m)' = BusyWith(m) /\ Said(m)' = Said(m)
    BY <1>1, <2>1, <2>2 DEF NameInv
  <2> QED
    BY <2>3, <2>4, <2>5, Untouched
<1> QED
  BY <1>1, <1>3, <1>4 DEF NameInv, RemovalAnswers

\* A register or deregister call on name n ends with announcement w.
LEMMA CallEnds ==
    ASSUME TypeOK, NEW c \in Callers, NEW n \in Names, c \in BusyWith(n),
           call' = [call EXCEPT ![c] = None], NEW w \in {"registered", "deregistered"},
           news' = Append(news, <<w, n>>), UNCHANGED <<mirror, failed>>,
           w = "registered" <=> mirror[n] = "registered",
           w = "registered" <=> agents'[n] # None,
           \A m \in Names \ {n} : agents'[m] = agents[m],
           NameInv
    PROVE  NameInv'
<1>1. <<w, n>> \in News /\ news \in Seq(News)
  BY DEF News, TypeOK
<1>2. /\ HaveLatest'
      /\ \A m \in Names : Said(m)' = IF n = m THEN w = "registered" ELSE Said(m)
  <2> DEFINE x == <<w, n>>
  <2>1. x[1] = w /\ x[2] = n
    OBVIOUS
  <2> HIDE DEF x
  <2>2. x \in News /\ news' = Append(news, x)
    BY <1>1 DEF x
  <2> QED
    BY <1>1, <2>1, <2>2, Announce DEF NameInv
<1>3. NameOK(n)'
  <2>1. \A d \in BusyWith(n) : d = c
    BY DEF NameInv, NameOK
  <2>2. BusyWith(n)' = BusyWith(n) \ {c}
    BY BusyEnds
  <2>3. BusyWith(n)' = {}
    BY <2>1, <2>2
  <2> QED
    BY <1>2, <2>3 DEF NameOK, Present
<1>4. ASSUME NEW m \in Names, m # n PROVE NameOK(m)'
  <2>1. c \notin BusyWith(m)
    BY <1>4 DEF BusyWith
  <2>2. BusyWith(m)' = BusyWith(m)
    <3>1. BusyWith(m)' = BusyWith(m) \ {c}
      BY BusyEnds
    <3> QED
      BY <2>1, <3>1
  <2>3. \A d \in BusyWith(m) : call'[d] = call[d]
    BY <2>1 DEF BusyWith, TypeOK
  <2> QED
    BY <1>2, <1>4, <2>2, <2>3, Untouched DEF NameInv
<1> QED
  BY <1>2, <1>3, <1>4 DEF NameInv, RemovalAnswers

\* Table, mirror and announcements agree on a name no call is about.
LEMMA NoCallOnName ==
    ASSUME NEW m \in Names, \A d \in Callers : call'[d] = None \/ "name" \notin DOMAIN call'[d],
           agents'[m] # None <=> mirror'[m] = "registered",
           agents'[m] # None <=> Said(m)'
    PROVE  NameOK(m)'
<1>1. BusyWith(m)' = {}
  BY DEF BusyWith, Idle
<1> QED
  BY <1>1 DEF NameOK, Present

\* A stop goes on from names that agree.
LEMMA StopNames ==
    ASSUME TypeOK, NEW c \in Callers, \A d \in Callers : d # c => Idle(d),
           NEW ag \in [Names -> Infos \cup {None}], agents' = ag, NEW todo \in SUBSET Names,
           \A m \in Names : /\ ag[m] # None <=> mirror[m] = "registered"
                            /\ ag[m] # None <=> Said(m)',
           StopGoesOn(c, ag, todo)
    PROVE  \A m \in Names : NameOK(m)'
<1> DEFINE left == {n \in todo : ag[n] # None}
<1>1. CASE \E n \in left :
              /\ BeginRemoval(ag, n)
              /\ call' = [call EXCEPT ![c] = [op |-> "stop", at |-> "agent",
                                              name |-> n, todo |-> todo \ {n}]]
  <2>1. PICK n \in left :
              /\ BeginRemoval(ag, n)
              /\ call' = [call EXCEPT ![c] = [op |-> "stop", at |-> "agent",
                                              name |-> n, todo |-> todo \ {n}]]
    BY <1>1
  <2> DEFINE r == [op |-> "stop", at |-> "agent", name |-> n, todo |-> todo \ {n}]
  <2>2. r # None /\ r.op = "stop" /\ "name" \in DOMAIN r /\ r.name = n
    BY CallsMade, NoneAssumption
  <2> HIDE DEF r
  <2>3. \A d \in Callers : call'[d] = IF d = c THEN r ELSE None
    BY <2>1 DEF TypeOK, Idle, r
  <2>4. \A m \in Names : BusyWith(m)' = IF m = n THEN {c} ELSE {}
    BY <2>2, <2>3 DEF BusyWith, Idle
  <2>5. \A m \in Names : mirror'[m] = IF m = n THEN "stopped" ELSE mirror[m]
    BY <2>1 DEF BeginRemoval, TypeOK
  <2>6. agents'[n] # None
    BY <2>1
  <2>7. NameOK(n)'
    BY <2>1, <2>2, <2>3, <2>4, <2>5, <2>6 DEF NameOK, Present
  <2>8. ASSUME NEW m \in Names, m # n PROVE NameOK(m)'
    BY <2>4, <2>5, <2>8 DEF NameOK, Present
  <2> QED
    BY <2>7, <2>8
<1>2. CASE /\ UNCHANGED mirror
           /\ \A d \in Callers : call'[d] = None \/ "name" \notin DOMAIN call'[d]
  BY <1>2, NoCallOnName
<1>3. ASSUME NEW r, r \in {None, [op |-> "stop", at |-> "monitor"], [op |-> "stop", at |-> "bus"]},
             call' = [call EXCEPT ![c] = r]
      PROVE  \A d \in Callers : call'[d] = None \/ "name" \notin DOMAIN call'[d]
  BY <1>3 DEF TypeOK, Idle
<1> QED
  BY <1>1, <1>2, <1>3 DEF StopGoesOn, StopBus

LEMMA StopKeepsNames ==
    ASSUME Overlap = FALSE, TypeOK, LifeInv, NameInv, NEW c \in Callers,
           Stop(c) \/ StopRemoves(c) \/ StopForgetsMonitor(c) \/ StopEnds(c)
    PROVE  NameInv'
<1>n. news \in Seq(News) /\ agents \in [Names -> Infos \cup {None}]
  BY DEF TypeOK, News
<1>1. CASE Stop(c)
  <2>1. \A d \in Callers : Idle(d)
    BY <1>1 DEF Stop
  <2>2. \A m \in Names : /\ agents[m] # None <=> mirror[m] = "registered"
                         /\ agents[m] # None <=> Said(m)
    BY <2>1 DEF NameInv, NameOK, BusyWith, Present
  <2>3. HaveLatest' /\ \A m \in Names : Said(m)' = Said(m)
    BY <1>1, NothingAnnounced DEF NameInv, Stop
  <2>4. {n \in Names : Present(n)} \in SUBSET Names
    OBVIOUS
  <2>5. agents' = agents /\ failed' = failed /\ StopGoesOn(c, agents, {n \in Names : Present(n)})
    BY <1>1 DEF Stop
  <2>6. \A m \in Names : NameOK(m)'
    BY <1>n, <2>1, <2>2, <2>3, <2>4, <2>5, StopNames
  <2> QED
    BY <2>3, <2>5, <2>6 DEF NameInv, RemovalAnswers
<1>2. CASE StopRemoves(c)
  <2> DEFINE n == call[c].name
  <2>1. c \in Stops /\ call[c].at = "agent" /\ ~Idle(c) /\ call[c].op = "stop"
    BY <1>2 DEF StopRemoves, Stops
  <2>2. n \in Names /\ call[c].todo \in SUBSET Names /\ c \in BusyWith(n)
    BY <2>1, CallForms DEF TypeOK, Idle, BusyWith
  <2>3. Present(n) /\ \A d \in Callers : d # c => Idle(d)
    BY <2>1 DEF LifeInv, StopKnows, StopIsAlone
  <2>4. mirror[n] = "stopped" /\ mirror[n] # "registered"
    BY <2>1, <2>2 DEF NameInv, NameOK
  <2>5. \A m \in Names \ {n} : BusyWith(m) = {}
    BY <2>3 DEF BusyWith
  <2>6. /\ news' = Append(news, <<"deregistered", n>>) /\ agents' = Removed(n)
        /\ failed' = failed /\ StopGoesOn(c, Removed(n), call[c].todo)
    BY <1>2, <2>3 DEF StopRemoves
  <2> HIDE DEF n
  <2>7. /\ HaveLatest'
        /\ \A m \in Names : Said(m)' = IF n = m THEN FALSE ELSE Said(m)
    <3> DEFINE x == <<"deregistered", n>>
    <3>1. x[1] # "registered" /\ x[2] = n /\ x \in News
      BY <2>2 DEF News
    <3>2. news' = Append(news, x)
      BY <2>6
    <3> HIDE DEF x
    <3> QED
      BY <1>n, <3>1, <3>2, Announce DEF NameInv
  <2>8. \A m \in Names : Removed(n)[m] = IF m = n THEN None ELSE agents[m]
    BY <1>n DEF Removed
  <2>9. \A m \in Names : /\ Removed(n)[m] # None <=> mirror[m] = "registered"
                         /\ Removed(n)[m] # None <=> Said(m)'
    <3>1. ASSUME NEW m \in Names, m # n
          PROVE  /\ agents[m] # None <=> mirror[m] = "registered"
                 /\ agents[m] # None <=> Said(m)
      BY <2>5, <3>1 DEF NameInv, NameOK, Present
    <3> QED
      BY <2>4, <2>7, <2>8, <3>1
  <2>10. \A m \in Names : NameOK(m)'
    BY <2>2, <2>3, <2>6, <2>9, StopNames, RemovedTypes
  <2> QED
    BY <2>6, <2>7, <2>10 DEF NameInv, RemovalAnswers
<1>3. CASE StopForgetsMonitor(c) \/ StopEnds(c)
  <2>1. c \in Stops /\ call[c].at \in {"monitor", "bus"} /\ call[c] \in Call
    BY <1>3, NoneAssumption DEF StopForgetsMonitor, StopEnds, Stops, Idle, TypeOK
  <2>2. "name" \notin DOMAIN call[c] /\ \A d \in Callers : d # c => Idle(d)
    BY <2>1, CallForms DEF LifeInv, StopIsAlone, Stops
  <2>3. \A m \in Names : BusyWith(m) = {}
    BY <2>2 DEF BusyWith
  <2>4. UNCHANGED <<agents, mirror, news, failed>>
    BY <1>3 DEF StopForgetsMonitor, StopEnds, table
  <2>5. HaveLatest' /\ \A m \in Names : Said(m)' = Said(m)
    BY <2>4, NothingAnnounced DEF NameInv
  <2>6. call'[c] = None \/ call'[c] = [op |-> "stop", at |-> "bus"]
    BY <1>3 DEF StopForgetsMonitor, StopEnds, StopBus, TypeOK
  <2>7. \A d \in Callers : d # c => call'[d] = call[d]
    BY <1>3 DEF StopForgetsMonitor, StopEnds, StopBus, TypeOK
  <2>8. \A d \in Callers : call'[d] = None \/ "name" \notin DOMAIN call'[d]
    BY <2>2, <2>6, <2>7 DEF Idle
  <2>9. \A m \in Names : /\ agents'[m] # None <=> mirror'[m] = "registered"
                         /\ agents'[m] # None <=> Said(m)'
    BY <2>3, <2>4, <2>5 DEF NameInv, NameOK, Present
  <2>10. \A m \in Names : NameOK(m)'
    BY <2>8, <2>9, NoCallOnName
  <2> QED
    BY <2>4, <2>5, <2>10 DEF NameInv, RemovalAnswers
<1> QED
  BY <1>1, <1>2, <1>3

LEMMA NamesPreserved ==
    ASSUME Overlap = FALSE, TypeOK, LifeInv, NameInv, [Next]_vars
    PROVE  NameInv'
<1>n. news \in Seq(News)
  BY DEF TypeOK, News
<1>0. ASSUME UNCHANGED <<agents, mirror, call, failed>>, HaveLatest',
             \A n \in Names : Said(n)' = Said(n)
      PROVE  NameInv'
  BY <1>0 DEF NameInv, NameOK, RemovalAnswers, BusyWith, Idle, Present
<1>1. ASSUME UNCHANGED <<agents, mirror, call, failed, news>> PROVE NameInv'
  BY <1>0, <1>1, NothingAnnounced DEF NameInv
<1>2. ASSUME NEW n \in Names, Heartbeat(n) \/ Elapse(n) PROVE NameInv'
  BY <1>1, <1>2 DEF Heartbeat, Elapse, table
<1>3. CASE UNCHANGED vars
  BY <1>1, <1>3 DEF vars, table
<1>4. CASE Start
  BY <1>1, <1>4 DEF Start, table
<1>5. ASSUME NEW m \in Monitors, Wake(m) PROVE NameInv'
  BY <1>1, <1>5 DEF Wake
<1>6. ASSUME NEW t \in Tasks, Submit(t) PROVE NameInv'
  <2> DEFINE x == <<"submitted", t>>
  <2>1. x \in News /\ x[2] \notin Names
    BY TasksAssumption DEF News
  <2>2. news' = Append(news, x)
    BY <1>6 DEF Submit
  <2> HIDE DEF x
  <2>3. HaveLatest' /\ \A n \in Names : Said(n)' = Said(n)
    BY <1>n, <2>1, <2>2, Announce DEF NameInv
  <2> QED
    BY <1>0, <1>6, <2>3 DEF Submit
<1>7. ASSUME NEW c \in Callers, NEW n \in Names, Register(c, n) PROVE NameInv'
  <2> DEFINE r == [op |-> "register", name |-> n]
  <2>1. r \in Call /\ r.op = "register" /\ "name" \in DOMAIN r /\ r.name = n
    BY CallsMade
  <2>2. /\ agents'[n] # None
        /\ \A m \in Names \ {n} : agents'[m] = agents[m]
    BY <1>7, NoneAssumption DEF Register, TypeOK
  <2>3. /\ call' = [call EXCEPT ![c] = r] /\ mirror' = [mirror EXCEPT ![n] = "registered"]
        /\ Idle(c) /\ BusyWith(n) = {} /\ UNCHANGED <<news, failed>>
    BY <1>7 DEF Register, Clear
  <2> HIDE DEF r
  <2> QED
    BY <2>1, <2>2, <2>3, CallBegins
<1>8. ASSUME NEW c \in Callers, NEW n \in Names, Deregister(c, n) PROVE NameInv'
  <2> DEFINE r == [op |-> "deregister", name |-> n]
  <2>1. r \in Call /\ r.op # "register" /\ "name" \in DOMAIN r /\ r.name = n
    BY CallsMade
  <2>2. agents' = agents /\ agents'[n] # None
    BY <1>8 DEF Deregister, Present
  <2>3. /\ call' = [call EXCEPT ![c] = r] /\ mirror' = [mirror EXCEPT ![n] = "stopped"]
        /\ Idle(c) /\ BusyWith(n) = {} /\ UNCHANGED <<news, failed>>
    BY <1>8 DEF Deregister, Clear, BeginRemoval
  <2> HIDE DEF r
  <2> QED
    BY <2>1, <2>2, <2>3, CallBegins
<1>9. ASSUME NEW c \in Callers, RegisterEnds(c) PROVE NameInv'
  <2> DEFINE n == call[c].name
  <2>1. ~Idle(c) /\ call[c].op = "register" /\ call[c] \in Call
    BY <1>9 DEF RegisterEnds, Idle, TypeOK
  <2>2. n \in Names /\ c \in BusyWith(n)
    BY <2>1, CallForms DEF BusyWith
  <2>3. Present(n) /\ mirror[n] = "registered"
    BY <2>1, <2>2 DEF NameInv, NameOK
  <2>4. /\ news' = Append(news, <<"registered", n>>) /\ call' = [call EXCEPT ![c] = None]
        /\ UNCHANGED <<agents, mirror, failed>>
    BY <1>9 DEF RegisterEnds
  <2> HIDE DEF n
  <2> QED
    BY <2>2, <2>3, <2>4, CallEnds DEF Present
<1>10. ASSUME NEW c \in Callers, DeregisterEnds(c) PROVE NameInv'
  <2> DEFINE n == call[c].name
  <2>1. ~Idle(c) /\ call[c].op = "deregister" /\ call[c] \in Call
    BY <1>10 DEF DeregisterEnds, Idle, TypeOK
  <2>2. n \in Names /\ c \in BusyWith(n)
    BY <2>1, CallForms DEF BusyWith
  <2>3. Present(n) /\ mirror[n] = "stopped"
    BY <2>1, <2>2 DEF NameInv, NameOK
  <2>4. /\ news' = Append(news, <<"deregistered", n>>) /\ call' = [call EXCEPT ![c] = None]
        /\ agents' = Removed(n) /\ UNCHANGED <<mirror, failed>>
    BY <1>10, <2>3 DEF DeregisterEnds
  <2> HIDE DEF n
  <2>5. agents'[n] = None /\ \A m \in Names \ {n} : agents'[m] = agents[m]
    BY <2>2, <2>4 DEF Removed, TypeOK
  <2> QED
    BY <2>2, <2>3, <2>4, <2>5, CallEnds
<1>11. ASSUME NEW c \in Callers,
              Stop(c) \/ StopRemoves(c) \/ StopForgetsMonitor(c) \/ StopEnds(c)
       PROVE  NameInv'
  BY <1>11, StopKeepsNames
<1> QED
  BY <1>2, <1>3, <1>4, <1>5, <1>6, <1>7, <1>8, <1>9, <1>10, <1>11 DEF Next, Resume

LEMMA NamesInitial == Init => NameInv
<1> SUFFICES ASSUME Init PROVE NameInv
  OBVIOUS
<1>1. \A n \in Names : About(n) = {} /\ BusyWith(n) = {} /\ ~Present(n) /\ mirror[n] = None
  BY DEF Init, About, BusyWith, Idle, Present
<1>2. \A n \in Names : mirror[n] # "registered"
  BY <1>1, NoneAssumption
<1> QED
  BY <1>1, <1>2 DEF Init, NameInv, HaveLatest, NameOK, Said, RemovalAnswers

LEMMA NameInvariant == ASSUME Overlap = FALSE PROVE Spec => []NameInv
<1>1. TypeOK /\ LifeInv /\ NameInv /\ [Next]_vars => NameInv'
  BY NamesPreserved
<1> QED
  BY <1>1, NamesInitial, LifeInvariant, PTL DEF Spec

\* Where no call on a name is in progress, the table, the shared state and the
\* last announcement agree on whether it is registered.
THEOREM MirrorAgrees ==
    ASSUME Overlap = FALSE PROVE Spec => []RegistryMirrored
<1>1. NameInv => RegistryMirrored
  BY DEF NameInv, NameOK, RegistryMirrored, Said
<1> QED
  BY <1>1, NameInvariant, PTL

\* The KeyError of deregister_agent and stop needs calls that overlap.
THEOREM RemovalNeverRaises ==
    ASSUME Overlap = FALSE PROVE Spec => []RemovalAnswers
<1>1. NameInv => RemovalAnswers
  BY DEF NameInv
<1> QED
  BY <1>1, NameInvariant, PTL
=============================================================================
