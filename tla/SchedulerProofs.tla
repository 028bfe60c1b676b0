--------------------------- MODULE SchedulerProofs ---------------------------
(***************************************************************************)
(* Scheduled jobs, for any jobs, tools, intervals and clients.  Types and  *)
(* the finality of deletion hold for any passes; that each run is due and  *)
(* that the times recorded advance need passes one at a time.              *)
(***************************************************************************)
EXTENDS Scheduler, TLAPS

\* A pass chooses among the rows it has read, which are those there were unless
\* they were too many, and has an outcome only of a job.
Coherent(p) ==
    /\ p.rest \subseteq Listed(p.rows)
    /\ p.job \in Listed(p.rows) \cup {None}
    /\ p.outcome # None => p.job # None
    /\ Cardinality(p.found) <= ReadLimit => p.found = Listed(p.rows)

Typed ==
    /\ TypeOK
    /\ \A c \in Clients : pass[c] # None => Coherent(pass[c])

\* What holds of the pass in progress, if no other is: its rows are those of the
\* table, except for what was deleted or created since.
Current(p) ==
    /\ p.now <= clock
    /\ Listed(p.rows) \subseteq used
    /\ \A j \in Listed(p.rows) \cap Listed(jobs) : p.rows[j] = jobs[j]

\* No run is recorded later than the clock, or than the pass in progress.
PastOf(t) == \A j \in Listed(jobs) : jobs[j].last # None => jobs[j].last <= t

\* What the pass is done with is no longer due.
Done(p) ==
    \A j \in (Listed(p.rows) \cap Listed(jobs)) \ (p.rest \cup {p.job}) :
        jobs[j].enabled => jobs[j].last # None /\ p.now < jobs[j].last + Interval[j]

Alone ==
    /\ PastOf(clock)
    /\ \A c \in Clients : pass[c] # None =>
          /\ Current(pass[c]) /\ PastOf(pass[c].now) /\ Done(pass[c])
          /\ \A d \in Clients : pass[d] # None => d = c

-----------------------------------------------------------------------------
\* The passes after the action of one client.
Passed(c, q) == pass' = [pass EXCEPT ![c] = q]

LEMMA PassKnown ==
    ASSUME Typed, NEW c \in Clients, pass[c] # None
    PROVE  pass[c] \in Pass /\ Coherent(pass[c]) /\ None \notin Pass
BY NoneAssumption DEF Typed, TypeOK

\* A pass begins with rows of the table.
LEMMA BeginEffect ==
    ASSUME Typed, NEW c \in Clients, Begin(c)
    PROVE  \E q \in Pass :
              /\ Passed(c, q) /\ Coherent(q)
              /\ q.now = clock /\ q.rest = Listed(q.rows) /\ q.job = None
              /\ Listed(q.rows) \subseteq Listed(jobs)
              /\ \A j \in Listed(q.rows) : q.rows[j] = jobs[j]
<1>1. jobs \in [Jobs -> Row \cup {None}] /\ clock \in Nat
  BY DEF Typed, TypeOK
<1>2. PICK R \in Pages :
         pass' = [pass EXCEPT ![c] = [now |-> clock,
                                      rows |-> [j \in Jobs |-> IF j \in R THEN jobs[j] ELSE None],
                                      rest |-> R, found |-> Listed(jobs),
                                      job |-> None, outcome |-> None]]
  BY DEF Begin
<1> DEFINE rows == [j \in Jobs |-> IF j \in R THEN jobs[j] ELSE None]
           q == [now |-> clock, rows |-> rows, rest |-> R, found |-> Listed(jobs),
                 job |-> None, outcome |-> None]
<1>3. /\ R \subseteq Listed(jobs)
      /\ Cardinality(Listed(jobs)) <= ReadLimit => R = Listed(jobs)
  BY <1>2 DEF Pages
<1>4. rows \in [Jobs -> Row \cup {None}] /\ Listed(rows) = R /\ \A j \in R : rows[j] = jobs[j]
  BY <1>1, <1>3 DEF Listed
<1>5. q \in Pass
  BY <1>1, <1>3, <1>4 DEF Pass, Listed
<1>6. Passed(c, q)
  BY <1>2 DEF Passed
<1>7. Coherent(q)
  BY <1>3, <1>4 DEF Coherent
<1> QED
  BY <1>3, <1>4, <1>5, <1>6, <1>7

LEMMA PickEffect ==
    ASSUME Typed, NEW c \in Clients, NEW j \in Jobs, Pick(c, j)
    PROVE  \E q \in Pass :
              /\ Passed(c, q) /\ Coherent(q)
              /\ q.now = pass[c].now /\ q.rows = pass[c].rows
              /\ q.rest = pass[c].rest \ {j}
              /\ q.job = IF Due(pass[c], j) THEN j ELSE None
<1> DEFINE q == [pass[c] EXCEPT !.rest = @ \ {j},
                                !.job = IF Due(pass[c], j) THEN j ELSE None]
<1>1. pass[c] \in Pass /\ Coherent(pass[c]) /\ pass[c].job = None /\ j \in pass[c].rest
  BY PassKnown DEF Pick
<1>2. q \in Pass
  BY <1>1 DEF Pass
<1>3. Passed(c, q)
  BY DEF Pick, Passed
<1>4. Coherent(q)
  BY <1>1 DEF Coherent, Pass, Listed
<1>5. /\ q.now = pass[c].now /\ q.rows = pass[c].rows /\ q.rest = pass[c].rest \ {j}
      /\ q.job = IF Due(pass[c], j) THEN j ELSE None
  BY <1>1 DEF Pass
<1> QED
  BY <1>2, <1>3, <1>4, <1>5

LEMMA OutcomeEffect ==
    ASSUME Typed, NEW c \in Clients, HandlerEnds(c) \/ CommitFails(c)
    PROVE  \E q \in Pass :
              /\ Passed(c, q) /\ Coherent(q)
              /\ q.now = pass[c].now /\ q.rows = pass[c].rows
              /\ q.rest = pass[c].rest /\ q.job = pass[c].job
<1>1. pass[c] \in Pass /\ Coherent(pass[c]) /\ pass[c].job # None
  BY PassKnown DEF HandlerEnds, CommitFails
<1>2. PICK o \in {"success", "failed"} : pass' = [pass EXCEPT ![c].outcome = o]
  BY DEF HandlerEnds, CommitFails
<1> DEFINE q == [pass[c] EXCEPT !.outcome = o]
<1>3. q \in Pass /\ Coherent(q)
  BY <1>1 DEF Pass, Coherent, Listed
<1>4. Passed(c, q)
  BY <1>2 DEF Passed
<1>5. /\ q.now = pass[c].now /\ q.rows = pass[c].rows
      /\ q.rest = pass[c].rest /\ q.job = pass[c].job
  BY <1>1 DEF Pass
<1> QED
  BY <1>3, <1>4, <1>5

\* Record writes a row of the table, and the pass's copy of it, alike.
LEMMA RecordEffect ==
    ASSUME Typed, NEW c \in Clients, Record(c)
    PROVE  \E q \in Pass :
              /\ Passed(c, q) /\ Coherent(q)
              /\ q.now = pass[c].now /\ q.rest = pass[c].rest /\ q.job = None
              /\ q.rows = [pass[c].rows EXCEPT ![pass[c].job] =
                              IF jobs[pass[c].job] = None THEN @ ELSE Recorded(pass[c], @)]
              /\ Listed(q.rows) = Listed(pass[c].rows)
<1> DEFINE p == pass[c]
           row == IF jobs[p.job] = None THEN p.rows[p.job] ELSE Recorded(p, p.rows[p.job])
           q == [p EXCEPT !.rows = [@ EXCEPT ![p.job] = row], !.job = None, !.outcome = None]
<1>1. p \in Pass /\ Coherent(p) /\ p.outcome # None
  BY PassKnown DEF Record
<1>2. p.job \in Jobs /\ p.rows[p.job] \in Row /\ p.outcome \in {"success", "failed"} /\ p.now \in Nat
  BY <1>1 DEF Coherent, Pass, Listed
<1>3. row \in Row
  BY <1>2 DEF Recorded, Row
<1>4. q \in Pass
  BY <1>1, <1>2, <1>3 DEF Pass
<1>5. Passed(c, q)
  BY <1>1 DEF Record, Passed
<1>6. /\ q.now = p.now /\ q.rest = p.rest /\ q.job = None /\ q.outcome = None
      /\ q.rows = [p.rows EXCEPT ![p.job] = row]
  BY <1>1 DEF Pass
<1>7. Listed(q.rows) = Listed(p.rows)
  BY <1>1, <1>2, <1>3, <1>6, NoneAssumption DEF Listed, Pass
<1>8. Coherent(q)
  BY <1>1, <1>6, <1>7 DEF Coherent
<1> QED
  BY <1>4, <1>5, <1>6, <1>7, <1>8

-----------------------------------------------------------------------------
(* Types. *)

\* A client's pass is replaced by one that is typed, or ends.
LEMMA TypedByPass ==
    ASSUME Typed, NEW c \in Clients, NEW q \in Pass \cup {None}, Passed(c, q),
           q # None => Coherent(q),
           clock' = clock, used' = used, broken' \subseteq Clients,
           jobs' \in [Jobs -> Row \cup {None}], Listed(jobs)' \subseteq used,
           audit' \in [Tools -> [{"success", "failed"} -> Nat]], faults' \in Nat
    PROVE  Typed'
<1>1. pass' \in [Clients -> Pass \cup {None}]
  BY DEF Typed, TypeOK, Passed
<1>2. TypeOK'
  BY <1>1 DEF Typed, TypeOK
<1>3. ASSUME NEW d \in Clients, pass'[d] # None PROVE Coherent(pass'[d])
  BY <1>3 DEF Typed, TypeOK, Passed
<1> QED
  BY <1>2, <1>3 DEF Typed, Coherent

LEMMA AuditTyped ==
    ASSUME Typed, NEW t \in Tools, NEW o \in {"success", "failed"}, Audited(t, o)
    PROVE  audit' \in [Tools -> [{"success", "failed"} -> Nat]]
BY BoundAssumption DEF Typed, TypeOK, Audited

\* Record changes no row but that of its job, and only if the table has it.
LEMMA RecordTyped ==
    ASSUME Typed, NEW c \in Clients, Record(c)
    PROVE  /\ jobs' \in [Jobs -> Row \cup {None}]
           /\ Listed(jobs)' = Listed(jobs)
           /\ \A j \in Jobs : j # pass[c].job => jobs'[j] = jobs[j]
           /\ pass[c].job \in Listed(jobs) =>
                 jobs'[pass[c].job] = Recorded(pass[c], jobs[pass[c].job])
<1>1. pass[c] \in Pass /\ pass[c].job \in Jobs /\ pass[c].outcome \in {"success", "failed"}
  BY PassKnown DEF Record, Coherent, Pass, Listed
<1>2. jobs \in [Jobs -> Row \cup {None}]
  BY DEF Typed, TypeOK
<1>3. jobs' = [jobs EXCEPT ![pass[c].job] = IF @ = None THEN None ELSE Recorded(pass[c], @)]
  BY DEF Record
<1>4. jobs[pass[c].job] # None => Recorded(pass[c], jobs[pass[c].job]) \in Row
  BY <1>1, <1>2 DEF Recorded, Row, Pass
<1> QED
  BY <1>1, <1>2, <1>3, <1>4, NoneAssumption DEF Listed

LEMMA TypedPreserved ==
    ASSUME Typed, [Next]_vars
    PROVE  Typed'
<1>0. TypeOK
  BY DEF Typed
<1>1. ASSUME UNCHANGED pass, TypeOK' PROVE Typed'
  BY <1>1 DEF Typed, Coherent
<1>2. ASSUME NEW j \in Jobs, NEW e \in BOOLEAN, Create(j, e) PROVE Typed'
  <2>1. [enabled |-> e, last |-> None, status |-> None] \in Row
    BY DEF Row
  <2>2. TypeOK' /\ UNCHANGED pass
    BY <1>0, <1>2, <2>1 DEF TypeOK, Create, Listed
  <2> QED
    BY <2>2, <1>1
<1>3. ASSUME NEW j \in Jobs, Delete(j) PROVE Typed'
  <2>1. TypeOK' /\ UNCHANGED pass
    BY <1>0, <1>3 DEF TypeOK, Delete, Listed
  <2> QED
    BY <2>1, <1>1
<1>4. CASE Tick \/ UNCHANGED vars
  <2>1. TypeOK' /\ UNCHANGED pass
    BY <1>0, <1>4 DEF TypeOK, Tick, Listed, vars
  <2> QED
    BY <2>1, <1>1
<1>5. ASSUME NEW t \in Tools, NEW o \in {"success", "failed"}, Invoke(t, o) PROVE Typed'
  <2>1. TypeOK' /\ UNCHANGED pass
    BY <1>0, <1>5, AuditTyped DEF TypeOK, Invoke, Listed
  <2> QED
    BY <2>1, <1>1
<1>6. ASSUME NEW c \in Clients, Begin(c) PROVE Typed'
  <2>1. PICK q \in Pass : Passed(c, q) /\ Coherent(q)
    BY <1>6, BeginEffect
  <2> QED
    BY <1>0, <1>6, <2>1, TypedByPass DEF Begin, TypeOK, Listed
<1>7. ASSUME NEW c \in Clients, NEW j \in Jobs, Pick(c, j) PROVE Typed'
  <2>1. PICK q \in Pass : Passed(c, q) /\ Coherent(q)
    BY <1>7, PickEffect
  <2> QED
    BY <1>0, <1>7, <2>1, TypedByPass DEF Pick, TypeOK, Listed
<1>8. ASSUME NEW c \in Clients, HandlerEnds(c) \/ CommitFails(c) PROVE Typed'
  <2>1. PICK q \in Pass : Passed(c, q) /\ Coherent(q)
    BY <1>8, OutcomeEffect
  <2>2. pass[c].job \in Jobs /\ Tool[pass[c].job] \in Tools
    BY <1>8, PassKnown, ToolAssumption DEF HandlerEnds, CommitFails, Coherent, Listed
  <2>3. audit' \in [Tools -> [{"success", "failed"} -> Nat]]
    BY <1>0, <1>8, <2>2, AuditTyped DEF HandlerEnds, CommitFails, TypeOK
  <2> QED
    BY <1>0, <1>8, <2>1, <2>3, TypedByPass DEF HandlerEnds, CommitFails, TypeOK, Listed
<1>9. ASSUME NEW c \in Clients, Record(c) PROVE Typed'
  <2>1. PICK q \in Pass : Passed(c, q) /\ Coherent(q)
    BY <1>9, RecordEffect
  <2> QED
    BY <1>0, <1>9, <2>1, RecordTyped, TypedByPass DEF Record, TypeOK
<1>10. ASSUME NEW c \in Clients, End(c) \/ Crash(c) PROVE Typed'
  <2>1. Passed(c, None)
    BY <1>10 DEF End, Crash, Passed
  <2> QED
    BY <1>0, <1>10, <2>1, TypedByPass DEF End, Crash, TypeOK, Listed
<1> QED
  BY <1>2, <1>3, <1>4, <1>5, <1>6, <1>7, <1>8, <1>9, <1>10 DEF Next, Step

LEMMA TypedInitially == Init => Typed
BY DEF Init, Typed, TypeOK, Listed

\* Table, passes and audit keep their types, and the table its ids.
THEOREM TypeCorrect == Spec => []TypeOK
<1>1. Typed => TypeOK
  BY DEF Typed
<1> QED
  BY <1>1, TypedInitially, TypedPreserved, PTL DEF Spec

LEMMA AlwaysTyped == Spec => []Typed
BY TypedInitially, TypedPreserved, PTL DEF Spec

\* A pass never writes back a row that was deleted since it read it.
THEOREM DeletionIsFinal == Spec => DeletedStaysDeleted
<1>1. Typed /\ [Next]_vars => [\A j \in used : jobs[j] = None => jobs'[j] = None]_vars
  <2> SUFFICES ASSUME Typed, Next, NEW j \in used, jobs[j] = None PROVE jobs'[j] = None
    BY DEF vars
  <2>0. j \in Jobs /\ jobs \in [Jobs -> Row \cup {None}]
    BY DEF Typed, TypeOK
  <2>1. ASSUME NEW i \in Jobs, NEW e \in BOOLEAN, Create(i, e) \/ Delete(i) PROVE jobs'[j] = None
    BY <2>0, <2>1 DEF Create, Delete
  <2>2. ASSUME NEW c \in Clients, Record(c) PROVE jobs'[j] = None
    BY <2>0, <2>2, RecordTyped DEF Listed
  <2>3. CASE UNCHANGED jobs
    BY <2>3
  <2> QED
    BY <2>1, <2>2, <2>3 DEF Next, Step, Tick, Invoke, Begin, Pick, HandlerEnds, CommitFails, End, Crash
<1> QED
  BY <1>1, AlwaysTyped, PTL DEF Spec, DeletedStaysDeleted

-----------------------------------------------------------------------------
(* One pass at a time. *)

\* Steps that leave the table alone and change one pass, but neither the rows it
\* has read nor its time.
LEMMA AloneByPass ==
    ASSUME Typed, Alone, NEW c \in Clients, pass[c] # None, NEW q \in Pass, Passed(c, q),
           q.now = pass[c].now, q.rows = pass[c].rows, Done(q),
           UNCHANGED <<clock, jobs, used>>
    PROVE  Alone'
<1>0. pass \in [Clients -> Pass \cup {None}] /\ pass[c] \in Pass
  BY PassKnown DEF Typed, TypeOK
<1>1. pass'[c] = q /\ \A d \in Clients \ {c} : pass'[d] = None
  BY <1>0 DEF Alone, Passed
<1>2. Current(q) /\ PastOf(q.now) /\ Done(q) /\ PastOf(clock)
  BY DEF Alone, Current, PastOf, Done
<1> QED
  BY <1>1, <1>2 DEF Alone, Current, PastOf, Done, Listed

\* Steps of others: time passes, rows come and go.
LEMMA AloneByTable ==
    ASSUME Typed, Alone, Typed', UNCHANGED pass, clock' \in Nat, clock <= clock', used \subseteq used',
           \A j \in Listed(jobs)' :
              \/ j \in Listed(jobs) /\ jobs'[j] = jobs[j]
              \/ j \notin used /\ jobs'[j].last = None
    PROVE  Alone'
<1>0. Listed(jobs) \subseteq used /\ clock \in Nat
      /\ jobs \in [Jobs -> Row \cup {None}] /\ jobs' \in [Jobs -> Row \cup {None}]
  BY DEF Typed, TypeOK
<1>1. ASSUME NEW t \in Nat, NEW u \in Nat, PastOf(t), t <= u PROVE PastOf(u)'
  <2> SUFFICES ASSUME NEW j \in Listed(jobs)', jobs'[j].last # None PROVE jobs'[j].last <= u
    BY DEF PastOf
  <2>1. j \in Listed(jobs) /\ jobs'[j] = jobs[j] /\ jobs[j] \in Row
    BY <1>0 DEF Listed
  <2>2. jobs[j].last \in Nat /\ jobs[j].last <= t
    BY <1>1, <2>1 DEF PastOf, Row
  <2> QED
    BY <1>1, <2>1, <2>2
<1>2. PastOf(clock)'
  BY <1>0, <1>1 DEF Alone
<1>3. ASSUME NEW c \in Clients, pass[c] # None
      PROVE  Current(pass[c])' /\ PastOf(pass[c].now)' /\ Done(pass[c])'
  <2>1. pass[c] \in Pass /\ pass[c].now \in Nat
    BY <1>3, PassKnown DEF Pass
  <2>2. Current(pass[c]) /\ PastOf(pass[c].now) /\ Done(pass[c])
    BY <1>3 DEF Alone
  <2>3. PastOf(pass[c].now)'
    BY <1>1, <2>1, <2>2
  <2>4. \A j \in Listed(pass[c].rows) \cap Listed(jobs)' :
           j \in Listed(jobs) /\ jobs'[j] = jobs[j]
    BY <2>2 DEF Current
  <2>5. Listed(pass[c].rows)' = Listed(pass[c].rows)
    BY DEF Listed
  <2>6. Current(pass[c])'
    BY <1>0, <2>1, <2>2, <2>4, <2>5 DEF Current
  <2>7. Done(pass[c])'
    BY <2>2, <2>4, <2>5 DEF Done
  <2> QED
    BY <2>3, <2>6, <2>7
<1> QED
  BY <1>2, <1>3 DEF Alone

\* Record writes the table's row and the pass's alike, with the time of the pass.
LEMMA AloneByRecord ==
    ASSUME Typed, Alone, NEW c \in Clients, Record(c)
    PROVE  Alone'
<1> DEFINE p == pass[c]
<1>0. /\ p \in Pass /\ Coherent(p) /\ p # None /\ p.now \in Nat
      /\ p.job \in Jobs /\ p.job \in Listed(p.rows)
      /\ jobs \in [Jobs -> Row \cup {None}] /\ clock \in Nat
      /\ UNCHANGED <<clock, used>>
  BY PassKnown DEF Record, Coherent, Pass, Typed, TypeOK, Listed
<1>1. PICK q \in Pass :
         /\ Passed(c, q) /\ q.now = p.now /\ q.rest = p.rest /\ q.job = None
         /\ q.rows = [p.rows EXCEPT ![p.job] = IF jobs[p.job] = None THEN @ ELSE Recorded(p, @)]
         /\ Listed(q.rows) = Listed(p.rows)
  BY RecordEffect
<1>2. Current(p) /\ PastOf(p.now) /\ Done(p) /\ PastOf(clock)
  BY <1>0 DEF Alone
<1>3. pass'[c] = q /\ \A d \in Clients \ {c} : pass'[d] = None
  BY <1>0, <1>1 DEF Alone, Passed, Typed, TypeOK
<1>4. /\ Listed(jobs)' = Listed(jobs)
      /\ \A j \in Jobs : j # p.job => jobs'[j] = jobs[j]
      /\ p.job \in Listed(jobs) => jobs'[p.job] = Recorded(p, jobs[p.job])
  BY RecordTyped
<1>5. ASSUME NEW t \in Nat, p.now <= t, PastOf(t) PROVE PastOf(t)'
  <2> SUFFICES ASSUME NEW j \in Listed(jobs), jobs'[j].last # None PROVE jobs'[j].last <= t
    BY <1>4 DEF PastOf
  <2>1. CASE j = p.job
    <3>1. jobs[j] \in Row
      BY <1>0 DEF Listed
    <3>2. jobs'[j].last = p.now
      BY <1>4, <2>1, <3>1 DEF Recorded, Row
    <3> QED
      BY <1>5, <3>2
  <2>2. CASE j # p.job
    BY <1>4, <1>5, <2>2 DEF PastOf, Listed
  <2> QED
    BY <2>1, <2>2
<1>6. PastOf(clock)' /\ PastOf(q.now)'
  BY <1>0, <1>1, <1>2, <1>5 DEF Current
<1>7. ASSUME NEW j \in Listed(q.rows) \cap Listed(jobs) PROVE q.rows[j] = jobs'[j]
  <2>1. p.rows[j] = jobs[j] /\ j \in Jobs /\ jobs[j] # None
    BY <1>1, <1>2, <1>7 DEF Current, Listed
  <2>2. p.rows \in [Jobs -> Row \cup {None}]
    BY <1>0 DEF Pass
  <2> QED
    BY <1>1, <1>4, <1>7, <2>1, <2>2
<1>8. Current(q)'
  <2>1. Listed(q.rows)' = Listed(q.rows)
    BY <1>1 DEF Listed
  <2> QED
    BY <1>0, <1>1, <1>2, <1>4, <1>7, <2>1 DEF Current
<1>9. Done(q)'
  <2> SUFFICES ASSUME NEW j \in Listed(q.rows) \cap Listed(jobs), j \notin q.rest, jobs'[j].enabled
               PROVE  jobs'[j].last # None /\ q.now < jobs'[j].last + Interval[j]
    BY <1>1, <1>4 DEF Done, Listed
  <2>0. j \in Jobs
    BY DEF Listed
  <2>1. CASE j = p.job
    <3>1. jobs[j] \in Row
      BY <1>0, <2>0 DEF Listed
    <3>2. jobs'[j].last = p.now
      BY <1>4, <2>1, <3>1 DEF Recorded, Row
    <3> QED
      BY <1>0, <1>1, <2>0, <3>2, IntervalAssumption, NoneAssumption
  <2>2. CASE j # p.job
    BY <1>1, <1>2, <1>4, <2>0, <2>2 DEF Done
  <2> QED
    BY <2>1, <2>2
<1> QED
  BY <1>0, <1>3, <1>6, <1>8, <1>9 DEF Alone

LEMMA AlonePreserved ==
    ASSUME Overlap = FALSE, Typed, Alone, [Next]_vars
    PROVE  Alone'
<1>0. /\ Typed' /\ clock \in Nat /\ Listed(jobs) \subseteq used
      /\ jobs \in [Jobs -> Row \cup {None}] /\ pass \in [Clients -> Pass \cup {None}]
  BY TypedPreserved DEF Typed, TypeOK
<1>1. ASSUME NEW j \in Jobs, NEW e \in BOOLEAN, Create(j, e) PROVE Alone'
  <2>1. \A i \in Listed(jobs)' :
           \/ i \in Listed(jobs) /\ jobs'[i] = jobs[i]
           \/ i \notin used /\ jobs'[i].last = None
    BY <1>0, <1>1 DEF Create, Listed
  <2>2. UNCHANGED <<clock, pass>> /\ clock <= clock' /\ used \subseteq used'
    BY <1>0, <1>1 DEF Create
  <2> QED
    BY <1>0, <2>1, <2>2, AloneByTable
<1>2. ASSUME NEW j \in Jobs, Delete(j) PROVE Alone'
  <2>1. \A i \in Listed(jobs)' : i \in Listed(jobs) /\ jobs'[i] = jobs[i]
    BY <1>0, <1>2 DEF Delete, Listed
  <2>2. UNCHANGED <<clock, used, pass>> /\ clock <= clock'
    BY <1>0, <1>2 DEF Delete
  <2> QED
    BY <1>0, <2>1, <2>2, AloneByTable
<1>3. ASSUME UNCHANGED <<jobs, used, pass>>, clock' \in Nat, clock <= clock' PROVE Alone'
  <2>1. \A i \in Listed(jobs)' : i \in Listed(jobs) /\ jobs'[i] = jobs[i]
    BY <1>3 DEF Listed
  <2> QED
    BY <1>0, <1>3, <2>1, AloneByTable
<1>4. ASSUME NEW c \in Clients, Begin(c) PROVE Alone'
  <2>1. PICK q \in Pass :
           /\ Passed(c, q) /\ q.now = clock /\ q.rest = Listed(q.rows)
           /\ Listed(q.rows) \subseteq Listed(jobs)
           /\ \A j \in Listed(q.rows) : q.rows[j] = jobs[j]
    BY <1>4, BeginEffect
  <2>2. pass'[c] = q /\ \A d \in Clients \ {c} : pass'[d] = None
    BY <1>0, <1>4, <2>1 DEF Begin, Passed
  <2>3. PastOf(clock) /\ UNCHANGED <<clock, jobs, used>>
    BY <1>4 DEF Begin, Alone
  <2>4. Current(q) /\ PastOf(q.now) /\ Done(q)
    BY <1>0, <2>1, <2>3 DEF Current, Done
  <2> QED
    BY <2>2, <2>3, <2>4 DEF Alone, Current, PastOf, Done, Listed
<1>5. ASSUME NEW c \in Clients, NEW j \in Jobs, Pick(c, j) PROVE Alone'
  <2> DEFINE p == pass[c]
  <2>0. p # None /\ p \in Pass /\ p.job = None /\ j \in p.rest /\ UNCHANGED <<clock, jobs, used>>
    BY <1>5, PassKnown DEF Pick
  <2>1. PICK q \in Pass :
           /\ Passed(c, q) /\ q.now = p.now /\ q.rows = p.rows /\ q.rest = p.rest \ {j}
           /\ q.job = IF Due(p, j) THEN j ELSE None
    BY <1>5, PickEffect
  <2>2. Done(p) /\ Current(p)
    BY <2>0 DEF Alone
  <2>3. ASSUME NEW i \in (Listed(q.rows) \cap Listed(jobs)) \ (q.rest \cup {q.job}), jobs[i].enabled
        PROVE  jobs[i].last # None /\ q.now < jobs[i].last + Interval[i]
    <3>1. CASE i = j
      <4>1. p.rows[j] = jobs[j] /\ jobs[j] \in Row /\ Interval[j] \in Nat /\ p.now \in Nat
        BY <1>0, <2>0, <2>1, <2>2, <2>3, <3>1, IntervalAssumption DEF Current, Listed, Pass
      <4>2. ~Due(p, j)
        BY <2>1, <2>3, <3>1
      <4>3. jobs[j].last # None /\ ~(p.now - jobs[j].last >= Interval[j])
        BY <2>3, <3>1, <4>1, <4>2 DEF Due, Elapsed
      <4>4. jobs[j].last \in Nat
        BY <4>1, <4>3 DEF Row
      <4> QED
        BY <2>1, <3>1, <4>1, <4>3, <4>4
    <3>2. CASE i # j
      <4>1. i \notin p.rest \cup {p.job}
        BY <2>0, <2>1, <2>3, <3>2, NoneAssumption DEF Listed
      <4> QED
        BY <2>1, <2>2, <2>3, <4>1 DEF Done
    <3> QED
      BY <3>1, <3>2
  <2>4. Done(q)
    BY <2>3 DEF Done
  <2> QED
    BY <2>0, <2>1, <2>4, AloneByPass
<1>6. ASSUME NEW c \in Clients, HandlerEnds(c) \/ CommitFails(c) PROVE Alone'
  <2>0. pass[c] # None /\ UNCHANGED <<clock, jobs, used>>
    BY <1>6 DEF HandlerEnds, CommitFails
  <2>1. PICK q \in Pass :
           /\ Passed(c, q) /\ q.now = pass[c].now /\ q.rows = pass[c].rows
           /\ q.rest = pass[c].rest /\ q.job = pass[c].job
    BY <1>6, OutcomeEffect
  <2>2. Done(q)
    BY <2>0, <2>1 DEF Alone, Done
  <2> QED
    BY <2>0, <2>1, <2>2, AloneByPass
<1>7. ASSUME NEW c \in Clients, Record(c) PROVE Alone'
  BY <1>7, AloneByRecord
<1>8. ASSUME NEW c \in Clients, End(c) \/ Crash(c) PROVE Alone'
  <2>1. pass'[c] = None /\ \A d \in Clients \ {c} : pass'[d] = pass[d]
    BY <1>0, <1>8 DEF End, Crash
  <2>2. UNCHANGED <<clock, jobs, used>>
    BY <1>8 DEF End, Crash
  <2> QED
    BY <2>1, <2>2 DEF Alone, Current, PastOf, Done, Listed
<1> QED
  BY <1>0, <1>1, <1>2, <1>3, <1>4, <1>5, <1>6, <1>7, <1>8 DEF Next, Step, Tick, Invoke, vars

LEMMA AlwaysAlone == ASSUME Overlap = FALSE PROVE Spec => [](Typed /\ Alone)
<1>1. Init => Alone
  BY DEF Init, Alone, PastOf, Listed
<1>2. Typed /\ Alone /\ [Next]_vars => (Typed /\ Alone)'
  BY TypedPreserved, AlonePreserved
<1> QED
  BY <1>1, <1>2, TypedInitially, PTL DEF Spec

\* When passes do not overlap, what a pass runs is due by the table too, not only
\* by the rows it has read.
THEOREM RunsAreDue == ASSUME Overlap = FALSE PROVE Spec => OnlyElapsedRun
<1>1. Typed /\ Alone /\ [Next]_vars =>
         [\A c \in Clients, j \in Jobs :
             Starts(c, j) /\ jobs[j] # None => IsDue(pass[c].now, j) \/ EventDue(j)]_vars
  <2> SUFFICES ASSUME Typed, Alone, Next, NEW c \in Clients, NEW j \in Jobs, Starts(c, j),
                      jobs[j] # None
               PROVE  IsDue(pass[c].now, j) \/ EventDue(j)
    BY DEF vars
  <2> DEFINE p == pass[c]
  <2>0. /\ p # None /\ p.job = None /\ pass'[c].job = j /\ j # None
        /\ pass \in [Clients -> Pass \cup {None}]
    BY NoneAssumption DEF Starts, Typed, TypeOK
  <2>1. PICK i \in Jobs : Pick(c, i)
    <3>1. pass'[c] # p
      BY <2>0
    <3>2. ASSUME NEW d \in Clients, d # c, Begin(d) \/ Step(d) \/ CommitFails(d) \/ Crash(d)
          PROVE  FALSE
      <4>1. \/ Begin(d) \/ \E i \in Jobs : Pick(d, i)
            \/ HandlerEnds(d) \/ CommitFails(d) \/ Record(d) \/ End(d) \/ Crash(d)
        BY <3>2 DEF Step
      <4>2. End(d) \/ Crash(d) => Passed(d, None)
        BY DEF End, Crash, Passed
      <4>3. \E q : Passed(d, q)
        BY <4>1, <4>2, BeginEffect, PickEffect, OutcomeEffect, RecordEffect
      <4> QED
        BY <2>0, <3>1, <3>2, <4>3 DEF Passed
    <3>3. ~(Begin(c) \/ HandlerEnds(c) \/ CommitFails(c) \/ End(c) \/ Crash(c) \/ Record(c))
      <4>1. ~End(c) /\ ~Crash(c)
        BY <2>0 DEF End, Crash, Starts
      <4>2. Coherent(p)
        BY <2>0, PassKnown
      <4> QED
        BY <2>0, <4>1, <4>2 DEF Begin, HandlerEnds, CommitFails, Record, Coherent
    <3> QED
      BY <3>1, <3>2, <3>3 DEF Next, Step, Create, Delete, Tick, Invoke
  <2>2. PICK q \in Pass : Passed(c, q) /\ q.job = IF Due(p, i) THEN i ELSE None
    BY <2>1, PickEffect
  <2>3. i = j /\ Due(p, j)
    BY <2>0, <2>2 DEF Passed
  <2>4. j \in Listed(p.rows) /\ p \in Pass /\ p.now \in Nat
    BY <2>0, <2>1, <2>3, PassKnown DEF Pick, Coherent, Pass
  <2>5. p.rows[j] = jobs[j] /\ jobs[j] \in Row /\ Interval[j] \in Nat
    BY <2>0, <2>4, IntervalAssumption DEF Alone, Current, Listed, Typed, TypeOK
  <2>6. CASE EventDue(j)
    BY <2>6
  <2>7. CASE Elapsed(p.now, jobs[j], j)
    <3>1. CASE jobs[j].last = None
      BY <3>1 DEF IsDue
    <3>2. CASE jobs[j].last # None
      <4>1. jobs[j].last \in Nat
        BY <2>5, <3>2 DEF Row
      <4> QED
        BY <2>4, <2>5, <2>7, <3>2, <4>1 DEF Elapsed, IsDue
    <3> QED
      BY <3>1, <3>2
  <2> QED
    BY <2>3, <2>5, <2>6, <2>7 DEF Due
<1> QED
  BY <1>1, AlwaysAlone, PTL DEF Spec, OnlyElapsedRun

\* When passes do not overlap, no later run of a job is recorded as an earlier one.
THEOREM TimesAdvance == ASSUME Overlap = FALSE PROVE Spec => LastRunAdvances
<1>1. Typed /\ Alone /\ [Next]_vars =>
         [\A j \in Jobs :
             jobs[j] # None /\ jobs'[j] # None /\ jobs[j].last # None =>
                 jobs'[j].last # None /\ jobs[j].last <= jobs'[j].last]_vars
  <2> SUFFICES ASSUME Typed, Alone, Next, NEW j \in Jobs,
                      jobs[j] # None, jobs'[j] # None, jobs[j].last # None
               PROVE  jobs'[j].last # None /\ jobs[j].last <= jobs'[j].last
    BY DEF vars
  <2>0. jobs \in [Jobs -> Row \cup {None}] /\ jobs[j].last \in Nat /\ Listed(jobs) \subseteq used
    BY DEF Typed, TypeOK, Row
  <2>1. CASE jobs'[j] = jobs[j]
    BY <2>0, <2>1
  <2>2. ASSUME NEW c \in Clients, Record(c), jobs'[j] # jobs[j]
        PROVE  jobs'[j].last # None /\ jobs[j].last <= jobs'[j].last
    <3>1. pass[c] # None /\ pass[c] \in Pass /\ pass[c].now \in Nat
      BY <2>2, PassKnown DEF Record, Pass
    <3>2. jobs'[j] = Recorded(pass[c], jobs[j])
      BY <2>2, RecordTyped DEF Listed
    <3>3. jobs'[j].last = pass[c].now
      BY <2>0, <3>2 DEF Recorded, Row
    <3>4. jobs[j].last <= pass[c].now
      BY <3>1 DEF Alone, PastOf, Listed
    <3> QED
      BY <3>1, <3>3, <3>4, NoneAssumption
  <2>3. ASSUME NEW i \in Jobs, NEW e \in BOOLEAN, Create(i, e) \/ Delete(i)
        PROVE  jobs'[j] = jobs[j]
    BY <2>0, <2>3 DEF Create, Delete, Listed
  <2> QED
    BY <2>1, <2>2, <2>3
    DEF Next, Step, Tick, Invoke, Begin, Pick, HandlerEnds, CommitFails, End, Crash
<1> QED
  BY <1>1, AlwaysAlone, PTL DEF Spec, LastRunAdvances

\* When passes do not overlap, a pass that ends without exception leaves nothing
\* that it found due, which is all there was if no more than it reads.
THEOREM PassesComplete == ASSUME Overlap = FALSE PROVE Spec => PassRunsAll
<1>1. ASSUME Typed, Alone, Next, NEW c \in Clients, Completes(c) PROVE End(c)
  <2>1. /\ pass \in [Clients -> Pass \cup {None}] /\ faults \in Nat /\ None \notin Pass
        /\ pass[c] # None /\ pass'[c] = None /\ faults' = faults
    BY <1>1, PassKnown DEF Typed, TypeOK, Completes
  <2>2. ASSUME NEW d \in Clients, NEW q \in Pass, Passed(d, q) PROVE FALSE
    BY <2>1, <2>2 DEF Passed
  <2>3. ASSUME NEW d \in Clients, Begin(d) \/ (\E i \in Jobs : Pick(d, i)) \/ HandlerEnds(d)
                                   \/ CommitFails(d) \/ Record(d)
        PROVE  FALSE
    BY <1>1, <2>2, <2>3, BeginEffect, PickEffect, OutcomeEffect, RecordEffect
  <2>4. ASSUME NEW d \in Clients, End(d) PROVE d = c
    BY <2>1, <2>4 DEF End
  <2>5. ASSUME NEW d \in Clients, Crash(d) PROVE FALSE
    BY <2>1, <2>5 DEF Crash
  <2> QED
    BY <1>1, <2>1, <2>3, <2>4, <2>5 DEF Next, Step, Create, Delete, Tick, Invoke
<1>2. ASSUME Typed, Alone, Next, NEW c \in Clients, Completes(c), NEW j \in Listed(pass[c].rows)
      PROVE  ~Leaves(c, j)
  <2> SUFFICES ASSUME j \in Listed(jobs), jobs[j].enabled PROVE ~IsDue(pass[c].now, j)
    BY DEF Leaves
  <2>1. /\ pass[c] # None /\ None \notin Pass /\ c \notin broken
        /\ jobs[j] \in Row /\ Interval[j] \in Nat /\ pass[c].now \in Nat
    BY <1>2, PassKnown, IntervalAssumption DEF Typed, TypeOK, Listed, Pass, Completes
  <2>2. pass[c].rest = {} /\ pass[c].job = None
    BY <1>1, <1>2, <2>1 DEF End
  <2>3. jobs[j].last # None /\ pass[c].now < jobs[j].last + Interval[j]
    BY <1>2, <2>1, <2>2, NoneAssumption DEF Alone, Done, Listed
  <2>4. jobs[j].last \in Nat
    BY <2>1, <2>3 DEF Row
  <2> QED
    BY <2>1, <2>3, <2>4 DEF IsDue
<1>3. ASSUME Typed, Alone, Next, NEW c \in Clients, Completes(c)
      PROVE  /\ \A j \in Listed(pass[c].rows) : ~Leaves(c, j)
             /\ Cardinality(pass[c].found) <= ReadLimit => \A j \in pass[c].found : ~Leaves(c, j)
  <2>1. Cardinality(pass[c].found) <= ReadLimit => pass[c].found = Listed(pass[c].rows)
    BY <1>3, PassKnown DEF Completes, Coherent
  <2> QED
    BY <1>2, <1>3, <2>1
<1>4. Typed /\ Alone /\ [Next]_vars =>
         [\A c \in Clients : Completes(c) =>
             /\ \A j \in Listed(pass[c].rows) : ~Leaves(c, j)
             /\ Cardinality(pass[c].found) <= ReadLimit =>
                   \A j \in pass[c].found : ~Leaves(c, j)]_vars
  BY <1>3
<1> QED
  BY <1>4, AlwaysAlone, PTL DEF Spec, PassRunsAll
=============================================================================
