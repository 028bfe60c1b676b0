------------------------------ MODULE AgentProofs ------------------------------
(***************************************************************************)
(* The parts of the agent's platform, for any number of whatever they are   *)
(* made of.  Sandbox: a shell command runs in one place, and each box that  *)
(* leaks takes a call that overlapped another.  Forge: verdicts are sound   *)
(* and temporary files accounted for.  Nerve: a fan-out calls whom it       *)
(* owes the event, while subscribers come and loops stop.  Sovereign: the   *)
(* swarm keeps its budget, and the memory's index finds what was stored.    *)
(***************************************************************************)
EXTENDS Sandbox, Forge, Nerve, Sovereign, FiniteSetTheorems, TLAPS

-----------------------------------------------------------------------------
(* The cloud sandbox: types. *)

Points == {"idle", "construct", "taken", "look", "create", "mark", "return", "use", "host",
           "kill", "send", "clear", "forget"}

CallRecord == [at : Points, op : Ops \cup {"none"}, wrap : 0 .. MaxWraps, box : 0 .. MaxBoxes]

SandboxTypes ==
    /\ singleton \in 0 .. MaxWraps
    /\ wraps \in 0 .. MaxWraps
    /\ boxes \in 0 .. MaxBoxes
    /\ handle \in [Wraps -> 0 .. MaxBoxes]
    /\ created \in [Wraps -> BOOLEAN]
    /\ remote \in [Boxes -> {"none", "live", "dead"}]
    /\ thread \in [Threads -> CallRecord]
    /\ ran \in [Threads -> SUBSET (Boxes \cup {OnHost})]
    /\ overlaps \in Nat
    /\ unkilled \subseteq 1 .. boxes
    /\ \A b \in Boxes : remote[b] # "none" => b <= boxes
    /\ \A h \in Threads :
          thread[h].at \in {"look", "return", "create", "mark", "kill", "send", "clear"} => thread[h].wrap # None

\* Thread h goes to a point with a wrapper, and no other thread moves.
Moves(h, point, wrap) ==
    /\ thread' \in [Threads -> CallRecord]
    /\ thread'[h].at = point /\ thread'[h].wrap = wrap
    /\ \A g \in Threads : g # h => thread'[g] = thread[g]

LEMMA GotoMoves ==
    ASSUME SandboxTypes, NEW h \in Threads, NEW point \in Points, Goto(h, point)
    PROVE  Moves(h, point, thread[h].wrap)
  <1> DEFINE rec == [thread[h] EXCEPT !.at = point]
  <1>1. thread[h] \in CallRecord
    BY DEF SandboxTypes
  <1>2. rec \in CallRecord /\ rec.at = point /\ rec.wrap = thread[h].wrap
    BY <1>1 DEF CallRecord
  <1>3. thread' = [thread EXCEPT ![h] = rec]
    BY DEF Goto
  <1> HIDE DEF rec
  <1> QED
    BY <1>2, <1>3 DEF Moves, SandboxTypes

LEMMA EndMoves ==
    ASSUME SandboxTypes, NEW h \in Threads, End(h)
    PROVE  Moves(h, "idle", None)
  <1>1. Idle \in CallRecord /\ Idle.at = "idle" /\ Idle.wrap = None
    BY BoundsAssumption DEF Idle, CallRecord, None, Points
  <1> QED
    BY <1>1 DEF Moves, SandboxTypes, End

\* A call takes the wrapper of the singleton as it is, if there is one.
LEMMA CallMoves ==
    ASSUME SandboxTypes, NEW h \in Threads, NEW op \in Ops, Call(h, op)
    PROVE  /\ op = "kill" => Moves(h, "kill", singleton) /\ singleton # None
           /\ op # "kill" /\ singleton = None => Moves(h, "construct", singleton)
           /\ op # "kill" /\ singleton # None => Moves(h, "taken", singleton)
  <1> DEFINE point == CASE op = "kill"       -> "kill"
                        [] singleton = None  -> "construct"
                        [] OTHER             -> "taken"
             rec == [Idle EXCEPT !.op = op, !.wrap = singleton, !.at = point]
  <1>1. thread' = [thread EXCEPT ![h] = rec] /\ (op = "kill" => singleton # None)
    BY Zenon DEF Call
  <1>2. /\ op = "kill" => point = "kill"
        /\ op # "kill" /\ singleton = None => point = "construct"
        /\ op # "kill" /\ singleton # None => point = "taken"
    <2>1. CASE op = "kill"
      BY <1>1, <2>1
    <2>2. CASE op # "kill" /\ singleton = None
      BY <2>2
    <2>3. CASE op # "kill" /\ singleton # None
      BY <2>3
    <2> QED
      BY <2>1, <2>2, <2>3
  <1> HIDE DEF point
  <1>3. point \in Points
    BY <1>2 DEF Points
  <1>4. rec \in CallRecord /\ rec.at = point /\ rec.wrap = singleton
    <2>1. Idle \in CallRecord
      BY BoundsAssumption DEF Idle, CallRecord, None, Points
    <2> QED
      BY <1>3, <2>1 DEF SandboxTypes, CallRecord
  <1> HIDE DEF rec
  <1>5. Moves(h, point, singleton)
    BY <1>1, <1>4 DEF Moves, SandboxTypes
  <1> QED
    BY <1>1, <1>2, <1>5

\* get_e2b_sandbox returns what the singleton is by then.
LEMMA TakenMoves ==
    ASSUME SandboxTypes, NEW h \in Threads, Taken(h)
    PROVE  /\ singleton = None => Moves(h, "idle", None)
           /\ singleton # None => Moves(h, "look", singleton)
  <1>1. CASE singleton = None
    BY <1>1, EndMoves DEF Taken
  <1>2. CASE singleton # None
    <2> DEFINE rec == [thread[h] EXCEPT !.wrap = singleton, !.at = "look"]
    <2>1. thread[h] \in CallRecord
      BY DEF SandboxTypes
    <2>2. rec \in CallRecord /\ rec.at = "look" /\ rec.wrap = singleton
      BY <2>1 DEF CallRecord, SandboxTypes, Points
    <2>3. thread' = [thread EXCEPT ![h] = rec]
      BY <1>2 DEF Taken
    <2> HIDE DEF rec
    <2> QED
      BY <1>2, <2>2, <2>3 DEF Moves, SandboxTypes
  <1> QED
    BY <1>1, <1>2

\* A caller that is given a box uses it; one that is not runs its command on the
\* host, or has failed.
LEMMA GivenMoves ==
    ASSUME SandboxTypes, NEW h \in Threads, NEW box \in 0 .. MaxBoxes, Given(h, box)
    PROVE  \E point \in {"use", "host", "idle"}, wrap \in 0 .. MaxWraps : Moves(h, point, wrap)
  <1>1. thread[h] \in CallRecord
    BY DEF SandboxTypes
  <1>2. thread[h].wrap \in 0 .. MaxWraps /\ None \in 0 .. MaxWraps
    BY <1>1, BoundsAssumption DEF CallRecord, None
  <1>3. CASE box # None
    <2> DEFINE rec == [thread[h] EXCEPT !.box = box, !.at = "use"]
    <2>1. rec \in CallRecord /\ rec.at = "use" /\ rec.wrap = thread[h].wrap
      BY <1>1 DEF CallRecord, Points
    <2>2. thread' = [thread EXCEPT ![h] = rec]
      BY <1>3 DEF Given
    <2> HIDE DEF rec
    <2>3. Moves(h, "use", thread[h].wrap)
      BY <2>1, <2>2 DEF Moves, SandboxTypes
    <2> QED
      BY <1>2, <2>3
  <1>4. CASE box = None
    <2>1. Goto(h, "host") \/ End(h)
      BY <1>4 DEF Given
    <2>2. Moves(h, "host", thread[h].wrap) \/ Moves(h, "idle", None)
      BY <2>1, GotoMoves, EndMoves DEF Points
    <2> QED
      BY <1>2, <2>2
  <1> QED
    BY <1>3, <1>4

\* Every step of a thread, and the end of a box, keeps the types.
LEMMA SandboxTypesStep ==
    ASSUME SandboxTypes, [SandboxNext]_sandbox
    PROVE  SandboxTypes'
  <1> DEFINE Wrapped == {"look", "return", "create", "mark", "kill", "send", "clear"}
  <1>1. ASSUME NEW h \in Threads, NEW point, NEW wrap, Moves(h, point, wrap),
               point \in Wrapped => wrap # None
        PROVE  /\ thread' \in [Threads -> CallRecord]
               /\ \A g \in Threads : thread'[g].at \in Wrapped => thread'[g].wrap # None
    BY <1>1 DEF Moves, SandboxTypes
  <1>2. \A h \in Threads : thread[h].at \in Wrapped => thread[h].wrap \in Wraps /\ thread[h].wrap # None
    BY BoundsAssumption DEF SandboxTypes, CallRecord, Wraps, None
  <1>0. None \in 0 .. MaxWraps /\ None \in 0 .. MaxBoxes /\ MaxBoxes \in Nat
    BY BoundsAssumption DEF None
  <1> USE <1>0 DEF wrapper
  <1> HIDE DEF Wrapped
  <1>3. ASSUME NEW h \in Threads, NEW op \in Ops, Call(h, op) PROVE SandboxTypes'
    <2>1. \E point : Moves(h, point, singleton) /\ (point \in Wrapped => singleton # None)
      BY <1>3, CallMoves DEF Wrapped
    <2> QED
      BY <1>1, <1>3, <2>1 DEF Call, SandboxTypes, Wrapped
  <1>4. ASSUME NEW h \in Threads, Construct(h) PROVE SandboxTypes'
    <2>1. Moves(h, "taken", thread[h].wrap)
      BY <1>4, GotoMoves DEF Construct, Points
    <2>2. wraps' \in 0 .. MaxWraps /\ singleton' \in 0 .. MaxWraps
      BY <1>4, BoundsAssumption DEF Construct, SandboxTypes
    <2> QED
      BY <1>1, <1>4, <2>1, <2>2 DEF Construct, SandboxTypes, Wrapped
  <1>5. ASSUME NEW h \in Threads, Taken(h) PROVE SandboxTypes'
    <2>1. Moves(h, "idle", None) \/ (Moves(h, "look", singleton) /\ singleton # None)
      BY <1>5, TakenMoves
    <2> QED
      BY <1>1, <1>5, <2>1 DEF Taken, SandboxTypes, Wrapped
  <1>6. ASSUME NEW h \in Threads, Look(h) PROVE SandboxTypes'
    <2>1. \E point \in {"return", "create"} : Moves(h, point, thread[h].wrap)
      BY <1>6, GotoMoves DEF Look, Points
    <2>2. thread[h].wrap # None
      BY <1>2, <1>6 DEF Look, At, Wrapped
    <2> QED
      BY <1>1, <1>6, <2>1, <2>2 DEF Look, SandboxTypes, Wrapped
  <1>7. ASSUME NEW h \in Threads, Return(h) PROVE SandboxTypes'
    <2>1. handle[thread[h].wrap] \in 0 .. MaxBoxes
      BY <1>2, <1>7 DEF Return, At, SandboxTypes, Wrapped
    <2>2. \E point \in {"use", "host", "idle"}, wrap \in 0 .. MaxWraps : Moves(h, point, wrap)
      BY <1>7, <2>1, GivenMoves DEF Return
    <2> QED
      BY <1>1, <1>7, <2>2 DEF Return, SandboxTypes, Wrapped
  <1>8. ASSUME NEW h \in Threads, Create(h) PROVE SandboxTypes'
    <2>1. Moves(h, "mark", thread[h].wrap) /\ thread[h].wrap # None
      BY <1>2, <1>8, GotoMoves DEF Create, At, Points, Wrapped
    <2>2. thread' \in [Threads -> CallRecord]
          /\ \A g \in Threads : thread'[g].at \in Wrapped => thread'[g].wrap # None
      BY <1>1, <2>1
    <2>3. boxes \in 0 .. MaxBoxes /\ boxes < MaxBoxes /\ boxes' = boxes + 1
      BY <1>8 DEF Create, SandboxTypes
    <2>4. boxes' \in 0 .. MaxBoxes /\ boxes' \in Boxes
      BY <2>3 DEF Boxes
    <2>5. remote' \in [Boxes -> {"none", "live", "dead"}] /\ handle' \in [Wraps -> 0 .. MaxBoxes]
      BY <1>8, <2>4 DEF Create, SandboxTypes
    <2>6. \A b \in Boxes : remote'[b] # "none" => b <= boxes'
      BY <1>8, <2>3, <2>4 DEF Create, SandboxTypes, Boxes
    <2>7. unkilled' \subseteq 1 .. boxes'
      BY <1>8, <2>3 DEF Create, SandboxTypes
    <2> QED
      BY <1>8, <2>2, <2>4, <2>5, <2>6, <2>7 DEF Create, SandboxTypes, Wrapped
  <1>9. ASSUME NEW h \in Threads, Mark(h) PROVE SandboxTypes'
    <2>1. Moves(h, "return", thread[h].wrap) /\ thread[h].wrap # None
      BY <1>2, <1>9, GotoMoves DEF Mark, At, Points, Wrapped
    <2> QED
      BY <1>1, <1>9, <2>1 DEF Mark, SandboxTypes, Wrapped
  <1>10. ASSUME NEW h \in Threads, CreateFails(h) PROVE SandboxTypes'
    <2>1. \E point \in {"use", "host", "idle"}, wrap \in 0 .. MaxWraps : Moves(h, point, wrap)
      BY <1>10, GivenMoves DEF CreateFails
    <2>2. handle' \in [Wraps -> 0 .. MaxBoxes] /\ created' \in [Wraps -> BOOLEAN]
      BY <1>10 DEF CreateFails, SandboxTypes
    <2>3. thread' \in [Threads -> CallRecord]
          /\ \A g \in Threads : thread'[g].at \in Wrapped => thread'[g].wrap # None
      BY <1>1, <2>1 DEF Wrapped
    <2> QED
      BY <1>10, <2>2, <2>3 DEF CreateFails, SandboxTypes, Wrapped
  <1>11. ASSUME NEW h \in Threads, Use(h) \/ Host(h) PROVE SandboxTypes'
    <2>1. Moves(h, "idle", None)
      BY <1>11, EndMoves DEF Use, Host
    <2>2. ran' \in [Threads -> SUBSET (Boxes \cup {OnHost})]
      BY <1>11 DEF Use, Host, Live, SandboxTypes
    <2> QED
      BY <1>1, <1>11, <2>1, <2>2 DEF Use, Host, SandboxTypes, Wrapped
  <1>12. ASSUME NEW h \in Threads, KillLooks(h) PROVE SandboxTypes'
    <2>1. \E point \in {"send", "forget"} : Moves(h, point, thread[h].wrap)
      BY <1>12, GotoMoves DEF KillLooks, Points
    <2>2. thread[h].wrap # None
      BY <1>2, <1>12 DEF KillLooks, At, Wrapped
    <2> QED
      BY <1>1, <1>12, <2>1, <2>2 DEF KillLooks, SandboxTypes, Wrapped
  <1>13. ASSUME NEW h \in Threads, KillSends(h) PROVE SandboxTypes'
    <2>1. Moves(h, "clear", thread[h].wrap) /\ thread[h].wrap # None
      BY <1>2, <1>13, GotoMoves DEF KillSends, At, Points, Wrapped
    <2>2. thread' \in [Threads -> CallRecord]
          /\ \A g \in Threads : thread'[g].at \in Wrapped => thread'[g].wrap # None
      BY <1>1, <2>1
    <2> DEFINE b == handle[thread[h].wrap]
    <2>3. \/ b \in Live /\ remote' = [remote EXCEPT ![b] = "dead"] /\ UNCHANGED unkilled
          \/ UNCHANGED remote /\ unkilled' = unkilled \cup ({b} \cap Live)
      BY <1>13 DEF KillSends
    <2>4. Live \subseteq 1 .. boxes /\ Live \subseteq Boxes
      BY DEF Live, SandboxTypes, Boxes
    <2> HIDE DEF b
    <2>5. /\ remote' \in [Boxes -> {"none", "live", "dead"}]
          /\ \A d \in Boxes : remote'[d] # "none" => d <= boxes
          /\ unkilled' \subseteq 1 .. boxes
      <3>1. CASE b \in Live /\ remote' = [remote EXCEPT ![b] = "dead"] /\ UNCHANGED unkilled
        BY <2>4, <3>1 DEF SandboxTypes
      <3>2. CASE UNCHANGED remote /\ unkilled' = unkilled \cup ({b} \cap Live)
        BY <2>4, <3>2 DEF SandboxTypes
      <3> QED
        BY <2>3, <3>1, <3>2
    <2> QED
      BY <1>13, <2>2, <2>5 DEF KillSends, SandboxTypes, Wrapped
  <1>14. ASSUME NEW h \in Threads, KillClears(h) PROVE SandboxTypes'
    <2>1. Moves(h, "forget", thread[h].wrap)
      BY <1>14, GotoMoves DEF KillClears, Points
    <2>2. handle' \in [Wraps -> 0 .. MaxBoxes] /\ created' \in [Wraps -> BOOLEAN]
      BY <1>14 DEF KillClears, SandboxTypes
    <2>3. thread' \in [Threads -> CallRecord]
          /\ \A g \in Threads : thread'[g].at \in Wrapped => thread'[g].wrap # None
      BY <1>1, <2>1 DEF Wrapped
    <2> QED
      BY <1>14, <2>2, <2>3 DEF KillClears, SandboxTypes, Wrapped
  <1>15. ASSUME NEW h \in Threads, Forget(h) PROVE SandboxTypes'
    <2>1. Moves(h, "idle", None)
      BY <1>15, EndMoves DEF Forget
    <2>2. singleton' \in 0 .. MaxWraps
      BY <1>15 DEF Forget, SandboxTypes
    <2>3. thread' \in [Threads -> CallRecord]
          /\ \A g \in Threads : thread'[g].at \in Wrapped => thread'[g].wrap # None
      BY <1>1, <2>1 DEF Wrapped
    <2> QED
      BY <1>15, <2>2, <2>3 DEF Forget, SandboxTypes, Wrapped
  <1>16. ASSUME NEW b \in Boxes, Expire(b) PROVE SandboxTypes'
    BY <1>16 DEF Expire, SandboxTypes
  <1>17. CASE UNCHANGED sandbox
    BY <1>17 DEF sandbox, SandboxTypes, Wrapped
  <1> QED
    BY <1>3, <1>4, <1>5, <1>6, <1>7, <1>8, <1>9, <1>10, <1>11, <1>12, <1>13, <1>14, <1>15, <1>16, <1>17
    DEF SandboxNext

-----------------------------------------------------------------------------
(* The cloud sandbox: where commands run. *)

\* Where the steps of a call lead.
LEMMA StepMoves ==
    ASSUME SandboxTypes, NEW h \in Threads
    PROVE  /\ Construct(h) => Moves(h, "taken", thread[h].wrap)
           /\ Look(h) /\ Ready(thread[h].wrap) => Moves(h, "return", thread[h].wrap)
           /\ Look(h) /\ ~Ready(thread[h].wrap) => Moves(h, "create", thread[h].wrap)
           /\ Create(h) => Moves(h, "mark", thread[h].wrap)
           /\ Mark(h) => Moves(h, "return", thread[h].wrap)
           /\ Return(h) \/ CreateFails(h) =>
                 \E point \in {"use", "host", "idle"}, wrap \in 0 .. MaxWraps : Moves(h, point, wrap)
           /\ Use(h) \/ Host(h) \/ Forget(h) => Moves(h, "idle", None)
           /\ KillLooks(h) /\ Ready(thread[h].wrap) => Moves(h, "send", thread[h].wrap)
           /\ KillLooks(h) /\ ~Ready(thread[h].wrap) => Moves(h, "forget", thread[h].wrap)
           /\ KillSends(h) => Moves(h, "clear", thread[h].wrap)
           /\ KillClears(h) => Moves(h, "forget", thread[h].wrap)
  <1>1. /\ Construct(h) => Goto(h, "taken")
        /\ Look(h) => Goto(h, IF Ready(thread[h].wrap) THEN "return" ELSE "create")
        /\ Create(h) => Goto(h, "mark")
        /\ Mark(h) => Goto(h, "return")
        /\ Use(h) \/ Host(h) \/ Forget(h) => End(h)
        /\ KillLooks(h) => Goto(h, IF Ready(thread[h].wrap) THEN "send" ELSE "forget")
        /\ KillSends(h) => Goto(h, "clear")
        /\ KillClears(h) => Goto(h, "forget")
    BY DEF Construct, Look, Create, Mark, Use, Host, Forget, KillLooks, KillSends, KillClears
  <1>2. ASSUME Return(h) \/ CreateFails(h)
        PROVE  \E point \in {"use", "host", "idle"}, wrap \in 0 .. MaxWraps : Moves(h, point, wrap)
    <2>1. None \in 0 .. MaxBoxes
      BY BoundsAssumption DEF None
    <2>2. ASSUME Return(h) PROVE handle[thread[h].wrap] \in 0 .. MaxBoxes
      BY <2>2, BoundsAssumption DEF Return, At, SandboxTypes, CallRecord, Wraps, None
    <2> QED
      BY <1>2, <2>1, <2>2, GivenMoves DEF Return, CreateFails
  <1> QED
    BY <1>1, <1>2, GotoMoves, EndMoves DEF Points

\* A step of a call under way, or the start of a call.
Proceeds(h) ==
    \/ Construct(h) \/ Taken(h) \/ Look(h) \/ Return(h) \/ Create(h) \/ Mark(h) \/ CreateFails(h)
    \/ Use(h) \/ Host(h) \/ KillLooks(h) \/ KillSends(h) \/ KillClears(h) \/ Forget(h)

LEMMA SandboxSteps ==
    ASSUME SandboxNext
    PROVE  \/ \E h \in Threads, op \in Ops : Call(h, op)
           \/ \E h \in Threads : Proceeds(h)
           \/ \E b \in Boxes : Expire(b)
  BY DEF SandboxNext, Proceeds

LEMMA ProceedsMoves ==
    ASSUME SandboxTypes, NEW h \in Threads, Proceeds(h)
    PROVE  thread[h].at # "idle" /\ \E point, wrap : Moves(h, point, wrap)
  <1>1. thread[h].at # "idle"
    BY DEF Proceeds, Construct, Taken, Look, Return, Create, Mark, CreateFails, Use, Host, KillLooks,
           KillSends, KillClears, Forget, At
  <1>2. \E point, wrap : Moves(h, point, wrap)
    BY StepMoves, TakenMoves DEF Proceeds
  <1> QED
    BY <1>1, <1>2

\* A call has run its command nowhere until it ends, and then in one place at most.
RunsInv == \A h \in Threads : /\ ran[h] = {} \/ \E place \in Boxes \cup {OnHost} : ran[h] = {place}
                              /\ thread[h].at # "idle" => ran[h] = {}

LEMMA RunsStep ==
    ASSUME SandboxTypes, RunsInv, [SandboxNext]_sandbox
    PROVE  RunsInv'
  <1>1. ASSUME NEW h \in Threads, NEW op \in Ops, Call(h, op) PROVE RunsInv'
    <2>1. \A g \in Threads : g # h => thread'[g] = thread[g]
      BY <1>1, CallMoves DEF Moves
    <2>2. ran' = [ran EXCEPT ![h] = {}]
      BY <1>1 DEF Call
    <2> QED
      BY <2>1, <2>2 DEF RunsInv, SandboxTypes
  <1>2. ASSUME NEW h \in Threads, Proceeds(h) PROVE RunsInv'
    <2>1. /\ ran[h] = {}
          /\ \A g \in Threads : g # h => thread'[g] = thread[g]
      BY <1>2, ProceedsMoves DEF Moves, RunsInv
    <2>2. CASE Use(h) \/ Host(h)
      <3>1. thread'[h].at = "idle"
        BY <2>2, StepMoves DEF Moves
      <3>2. PICK place \in Boxes \cup {OnHost} : ran' = [ran EXCEPT ![h] = @ \cup {place}] \/ ran' = ran
        <4>1. CASE Use(h)
          <5>1. ran' = [ran EXCEPT ![h] = @ \cup ({thread[h].box} \cap Live)]
            BY <4>1 DEF Use
          <5>2. CASE thread[h].box \in Live
            <6>1. {thread[h].box} \cap Live = {thread[h].box} /\ thread[h].box \in Boxes
              BY <5>2 DEF Live
            <6>2. ran' = [ran EXCEPT ![h] = @ \cup {thread[h].box}]
              BY <5>1, <6>1
            <6> QED
              BY <6>1, <6>2
          <5>3. CASE thread[h].box \notin Live
            <6>1. {thread[h].box} \cap Live = {}
              BY <5>3
            <6>2. ran' = [ran EXCEPT ![h] = @ \cup {}]
              BY <5>1, <6>1
            <6>3. ran' = ran
              BY <6>2 DEF SandboxTypes
            <6> QED
              BY <6>3
          <5> QED
            BY <5>2, <5>3
        <4>2. CASE Host(h)
          BY <4>2 DEF Host, SandboxTypes
        <4> QED
          BY <2>2, <4>1, <4>2
      <3> QED
        BY <2>1, <3>1, <3>2 DEF RunsInv, SandboxTypes
    <2>3. CASE ~(Use(h) \/ Host(h))
      <3>1. ran' = ran
        BY <1>2, <2>3 DEF Proceeds, Construct, Taken, Look, Return, Create, Mark, CreateFails, KillLooks,
                          KillSends, KillClears, Forget
      <3> QED
        BY <2>1, <3>1 DEF RunsInv
    <2> QED
      BY <2>2, <2>3
  <1>3. ASSUME NEW b \in Boxes, Expire(b) PROVE RunsInv'
    BY <1>3 DEF Expire, RunsInv
  <1>4. CASE UNCHANGED sandbox
    BY <1>4 DEF sandbox, RunsInv
  <1> QED
    BY <1>1, <1>2, <1>3, <1>4, SandboxSteps

-----------------------------------------------------------------------------
(* The cloud sandbox: boxes that leak.                                      *)
(*                                                                         *)
(* The boxes that live and those that calls under way may yet make are      *)
(* compared with the overlaps.  They exceed these only where the singleton  *)
(* knows a box, or a call is about to make one for it.                      *)

Makers  == {h \in Threads : thread[h].at \in {"construct", "taken", "look", "create"}}
Killers == {h \in Threads : thread[h].at \in {"kill", "send", "clear", "forget"}}

\* The boxes that end in no other way than by a kill or at the end of their life.
Counted == Live \ unkilled

KnownCounts == singleton # None /\ handle[singleton] \in Counted

Debt == Cardinality(Counted) + Cardinality(Makers)

\* A thread that will make a box for the wrapper of the singleton, or find one.
Heir(h) ==
    \/ thread[h].at = "construct"
    \/ thread[h].at = "taken" /\ singleton # None
    \/ thread[h].at \in {"look", "create"} /\ thread[h].wrap = singleton /\ singleton # None

\* The box of the singleton is used by every thread and replaced by none, and a
\* kill that is under way will send it its end.
Settled ==
    /\ KnownCounts /\ created[singleton]
    /\ \A h \in Threads :
          /\ thread[h].at \in {"idle", "taken", "look", "return", "use", "host", "kill", "send"}
          /\ thread[h].at \in {"look", "kill", "send"} => thread[h].wrap = singleton

\* A box that was made is marked as such, or is about to be.
Marked == \A w \in Wraps : handle[w] # None /\ ~created[w] =>
             \E h \in Threads : thread[h].at = "mark" /\ thread[h].wrap = w

LeakInv ==
    \/ Debt <= overlaps
    \/ Debt <= overlaps + 1 /\ Killers = {} /\ (KnownCounts \/ \E h \in Threads : Heir(h))
    \/ Debt <= overlaps + 1 /\ Settled
    \/ Debt <= overlaps + 2 /\ Settled /\ Killers = {} /\ Makers # {}

LEMMA DebtTyped ==
    /\ IsFiniteSet(Counted) /\ IsFiniteSet(Makers)
    /\ Cardinality(Counted) \in Nat /\ Cardinality(Makers) \in Nat
    /\ Debt \in Nat
  <1>1. IsFiniteSet(Boxes)
    BY BoundsAssumption, FS_Interval DEF Boxes
  <1>2. IsFiniteSet(Counted)
    BY <1>1, FS_Subset DEF Counted, Live
  <1>3. IsFiniteSet(Makers)
    BY ThreadsAssumption, FS_Subset DEF Makers
  <1> QED
    BY <1>2, <1>3, FS_CardinalityType DEF Debt

LEMMA DebtStaysTyped == Debt' \in Nat
  <1>1. IsFiniteSet(Boxes)
    BY BoundsAssumption, FS_Interval DEF Boxes
  <1>2. Counted' \subseteq Boxes /\ Makers' \subseteq Threads
    BY DEF Counted, Live, Makers
  <1>3. IsFiniteSet(Counted') /\ IsFiniteSet(Makers')
    BY <1>1, <1>2, ThreadsAssumption, FS_Subset
  <1> QED
    BY <1>3, FS_CardinalityType DEF Debt

\* What neither makes a box nor begins a call adds nothing, and takes from the
\* debt what it ends.
LEMMA DebtFalls ==
    ASSUME SandboxTypes, SandboxTypes', Counted' \subseteq Counted, Makers' \subseteq Makers
    PROVE  /\ Debt' <= Debt
           /\ Counted' # Counted \/ Makers' # Makers => Debt' < Debt
  <1>1. /\ Cardinality(Counted') <= Cardinality(Counted)
        /\ Cardinality(Counted') = Cardinality(Counted) => Counted' = Counted
        /\ Cardinality(Makers') <= Cardinality(Makers)
        /\ Cardinality(Makers') = Cardinality(Makers) => Makers' = Makers
    BY DebtTyped, FS_Subset
  <1>2. /\ Cardinality(Counted) \in Nat /\ Cardinality(Makers) \in Nat
        /\ Cardinality(Counted') \in Nat /\ Cardinality(Makers') \in Nat
    <2>1. Cardinality(Counted) \in Nat /\ Cardinality(Makers) \in Nat
      BY DebtTyped
    <2>2. IsFiniteSet(Counted') /\ IsFiniteSet(Makers')
      BY DebtTyped, FS_Subset
    <2> QED
      BY <2>1, <2>2, FS_CardinalityType
  <1> QED
    BY <1>1, <1>2 DEF Debt

\* A thread that moves and neither was nor is a maker leaves the makers alone.
LEMMA MakersMove ==
    ASSUME SandboxTypes, NEW h \in Threads, NEW point, NEW wrap, Moves(h, point, wrap)
    PROVE  /\ point \in {"construct", "taken", "look", "create"} => Makers' = Makers \cup {h}
           /\ point \notin {"construct", "taken", "look", "create"} => Makers' = Makers \ {h}
           /\ point \in {"kill", "send", "clear", "forget"} => Killers' = Killers \cup {h}
           /\ point \notin {"kill", "send", "clear", "forget"} => Killers' = Killers \ {h}
  BY DEF Moves, Makers, Killers

\* The box that is made is new, and a call that makes it makes no other.
LEMMA CreatePays ==
    ASSUME SandboxTypes, NEW h \in Threads, Create(h)
    PROVE  /\ boxes' \in Boxes /\ boxes' \notin Live /\ boxes' # None
           /\ Counted' = Counted \cup {boxes'}
           /\ Debt' = Debt
  <1>1. boxes' = boxes + 1 /\ boxes \in 0 .. MaxBoxes /\ boxes < MaxBoxes /\ MaxBoxes \in Nat
    BY BoundsAssumption DEF Create, SandboxTypes
  <1>2. boxes' \in Boxes /\ boxes' # None
    BY <1>1 DEF Boxes, None
  <1>3. boxes' \notin Live /\ boxes' \notin unkilled
    BY <1>1, <1>2 DEF Live, SandboxTypes, Boxes
  <1>4. remote' = [remote EXCEPT ![boxes'] = "live"] /\ unkilled' = unkilled
    BY DEF Create
  <1>5. Live' = Live \cup {boxes'}
    BY <1>2, <1>4 DEF Live, SandboxTypes
  <1>6. Counted' = Counted \cup {boxes'}
    BY <1>3, <1>4, <1>5 DEF Counted
  <1>7. Makers' = Makers \ {h} /\ h \in Makers
    <2>1. Moves(h, "mark", thread[h].wrap)
      BY StepMoves
    <2>2. Makers' = Makers \ {h}
      BY <2>1, MakersMove
    <2> QED
      BY <2>2 DEF Create, At, Makers
  <1>8. Cardinality(Makers') = Cardinality(Makers) - 1
    <2>1. Cardinality(Makers \ {h}) = IF h \in Makers THEN Cardinality(Makers) - 1 ELSE Cardinality(Makers)
      BY Zenon, DebtTyped, FS_RemoveElement
    <2> QED
      BY <1>7, <2>1
  <1>9. Cardinality(Counted') = Cardinality(Counted) + 1
    <2>1. boxes' \notin Counted
      BY <1>3 DEF Counted
    <2>2. Cardinality(Counted \cup {boxes'}) =
             IF boxes' \in Counted THEN Cardinality(Counted) ELSE Cardinality(Counted) + 1
      BY Zenon, DebtTyped, FS_AddElement
    <2> QED
      BY <1>6, <2>1, <2>2
  <1> QED
    BY <1>2, <1>3, <1>6, <1>8, <1>9, DebtTyped DEF Debt

LEMMA MarkedStep ==
    ASSUME SandboxTypes, Marked, [SandboxNext]_sandbox
    PROVE  Marked'
  <1>1. ASSUME NEW h \in Threads, NEW point, NEW wrap, Moves(h, point, wrap), thread[h].at # "mark",
               UNCHANGED <<handle, created>>
        PROVE  Marked'
    BY <1>1 DEF Moves, Marked
  <1>2. ASSUME NEW h \in Threads, NEW op \in Ops, Call(h, op) PROVE Marked'
    BY <1>1, <1>2, CallMoves DEF Call, At, wrapper
  <1>3. ASSUME NEW h \in Threads, Create(h) PROVE Marked'
    <2>1. Moves(h, "mark", thread[h].wrap)
      BY <1>3, StepMoves
    <2>2. /\ handle' = [handle EXCEPT ![thread[h].wrap] = boxes']
          /\ created' = created /\ thread[h].at = "create"
      BY <1>3 DEF Create, At
    <2> QED
      BY <2>1, <2>2 DEF Moves, Marked, SandboxTypes
  <1>4. ASSUME NEW h \in Threads, Mark(h) PROVE Marked'
    <2>1. Moves(h, "return", thread[h].wrap)
      BY <1>4, StepMoves
    <2>2. created' = [created EXCEPT ![thread[h].wrap] = TRUE] /\ handle' = handle
      BY <1>4 DEF Mark
    <2> QED
      BY <2>1, <2>2 DEF Moves, Marked, SandboxTypes
  <1>5. ASSUME NEW h \in Threads, CreateFails(h) \/ KillClears(h) PROVE Marked'
    <2>1. \E point, wrap : Moves(h, point, wrap)
      BY <1>5, StepMoves
    <2>2. /\ thread[h].at # "mark"
          /\ handle' = [handle EXCEPT ![thread[h].wrap] = None]
          /\ created' = [created EXCEPT ![thread[h].wrap] = FALSE]
      BY <1>5 DEF CreateFails, KillClears, At
    <2> QED
      BY <2>1, <2>2 DEF Moves, Marked, SandboxTypes
  <1>6. ASSUME NEW h \in Threads, Proceeds(h), ~Create(h), ~Mark(h), ~CreateFails(h), ~KillClears(h)
        PROVE  Marked'
    <2>1. UNCHANGED <<handle, created>> /\ thread[h].at # "mark"
      BY <1>6 DEF Proceeds, Construct, Taken, Look, Return, Use, Host, KillLooks, KillSends, Forget,
                  wrapper, At
    <2> QED
      BY <1>1, <1>6, <2>1, ProceedsMoves
  <1>7. ASSUME NEW b \in Boxes, Expire(b) PROVE Marked'
    BY <1>7 DEF Expire, wrapper, Marked
  <1>8. CASE UNCHANGED sandbox
    BY <1>8 DEF sandbox, Marked
  <1> QED
    BY <1>2, <1>3, <1>4, <1>5, <1>6, <1>7, <1>8, SandboxSteps

\* While no call is under way, a box that the singleton knows is marked.
LEMMA QuietSettled ==
    ASSUME SandboxTypes, Marked, KnownCounts, \A h \in Threads : thread[h].at = "idle"
    PROVE  Settled
  <1>1. singleton \in Wraps /\ handle[singleton] # None
    BY BoundsAssumption DEF SandboxTypes, KnownCounts, Counted, Live, Boxes, Wraps, None
  <1>2. created[singleton] = TRUE
    BY <1>1 DEF Marked, SandboxTypes
  <1> QED
    BY <1>2 DEF Settled

\* A step of a call keeps the balance.
LEMMA LeakProceeds ==
    ASSUME SandboxTypes, SandboxTypes', LeakInv, NEW h \in Threads, Proceeds(h)
    PROVE  LeakInv'
  <1>0. /\ Debt \in Nat /\ Debt' \in Nat /\ overlaps \in Nat
        /\ overlaps' = overlaps
    <2>1. overlaps' = overlaps
      BY DEF Proceeds, Construct, Taken, Look, Return, Create, Mark, CreateFails, Use, Host, KillLooks,
             KillSends, KillClears, Forget
    <2>2. Debt' \in Nat
      BY DebtStaysTyped
    <2> QED
      BY <2>1, <2>2, DebtTyped DEF SandboxTypes
  <1>1. CASE Construct(h)
    <2>1. Moves(h, "taken", thread[h].wrap) /\ thread[h].at = "construct"
      BY <1>1, StepMoves DEF Construct, At
    <2>2. Makers' = Makers /\ Killers' = Killers
      BY <2>1, MakersMove DEF Makers, Killers
    <2>3. Counted' = Counted
      BY <1>1 DEF Construct, Counted, Live
    <2>4. Debt' = Debt
      BY <2>2, <2>3 DEF Debt
    <2>5. Heir(h)'
      <3>1. singleton' = wraps + 1 /\ wraps \in Nat
        BY <1>1 DEF Construct, SandboxTypes
      <3> QED
        BY <2>1, <3>1 DEF Heir, Moves, None
    <2>6. ~Settled
      BY <2>1 DEF Settled
    <2> QED
      BY <1>0, <2>2, <2>4, <2>5, <2>6 DEF LeakInv
  <1>2. CASE Taken(h)
    <2>1. thread[h].at = "taken" /\ UNCHANGED wrapper /\ UNCHANGED <<remote, unkilled>>
      BY <1>2 DEF Taken, At
    <2>2. Counted' = Counted /\ (KnownCounts' <=> KnownCounts)
      BY <2>1 DEF Counted, Live, KnownCounts, wrapper
    <2>3. CASE singleton = None
      <3>1. Moves(h, "idle", None)
        BY <1>2, <2>3, TakenMoves
      <3>2. Makers' = Makers \ {h} /\ h \in Makers
        BY <2>1, <3>1, MakersMove DEF Makers
      <3>3. Debt' < Debt
        BY <2>2, <3>2, DebtFalls
      <3>4. ~Settled
        BY <2>3 DEF Settled, KnownCounts
      <3>5. Debt <= overlaps + 1
        BY <1>0, <3>4 DEF LeakInv
      <3>6. Debt' <= overlaps'
        BY <1>0, <3>3, <3>5
      <3> QED
        BY <3>6 DEF LeakInv
    <2>4. CASE singleton # None
      <3>1. Moves(h, "look", singleton)
        BY <1>2, <2>4, TakenMoves
      <3>2. Makers' = Makers /\ Killers' = Killers
        BY <2>1, <3>1, MakersMove DEF Makers, Killers
      <3>3. Debt' = Debt
        BY <2>2, <3>2 DEF Debt
      <3>4. (\E g \in Threads : Heir(g)) => (\E g \in Threads : Heir(g))'
        BY <2>1, <2>4, <3>1 DEF Heir, Moves, wrapper
      <3>5. Settled => Settled'
        BY <2>1, <2>2, <3>1 DEF Settled, Moves, wrapper
      <3> QED
        BY <1>0, <2>2, <3>2, <3>3, <3>4, <3>5 DEF LeakInv
    <2> QED
      BY <2>3, <2>4
  <1>3. CASE Look(h)
    <2>1. thread[h].at = "look" /\ UNCHANGED wrapper /\ UNCHANGED <<remote, unkilled>>
      BY <1>3 DEF Look, At
    <2>2. Counted' = Counted /\ (KnownCounts' <=> KnownCounts)
      BY <2>1 DEF Counted, Live, KnownCounts, wrapper
    <2>3. CASE Ready(thread[h].wrap)
      <3>1. Moves(h, "return", thread[h].wrap)
        BY <1>3, <2>3, StepMoves
      <3>2. Makers' = Makers \ {h} /\ h \in Makers
        BY <2>1, <3>1, MakersMove DEF Makers
      <3>3. Debt' < Debt
        BY <2>2, <3>2, DebtFalls
      <3>4. Settled => Settled'
        BY <2>1, <2>2, <3>1 DEF Settled, Moves, wrapper
      <3>5. \/ Debt <= overlaps + 1
            \/ Debt <= overlaps + 2 /\ Settled
        BY <1>0 DEF LeakInv
      <3>6. Debt' <= overlaps' \/ (Debt' <= overlaps' + 1 /\ Settled')
        BY <1>0, <3>3, <3>4, <3>5
      <3> QED
        BY <3>6 DEF LeakInv
    <2>4. CASE ~Ready(thread[h].wrap)
      <3>1. Moves(h, "create", thread[h].wrap)
        BY <1>3, <2>4, StepMoves
      <3>2. Makers' = Makers /\ Killers' = Killers
        BY <2>1, <3>1, MakersMove DEF Makers, Killers
      <3>3. Debt' = Debt
        BY <2>2, <3>2 DEF Debt
      <3>4. (\E g \in Threads : Heir(g)) => (\E g \in Threads : Heir(g))'
        BY <2>1, <3>1 DEF Heir, Moves, wrapper
      <3>5. ~Settled
        BY <2>1, <2>4 DEF Settled, KnownCounts, Ready, Counted, Live, Boxes, None
      <3> QED
        BY <1>0, <2>2, <3>2, <3>3, <3>4, <3>5 DEF LeakInv
    <2> QED
      BY <2>3, <2>4
  <1>4. CASE Return(h) \/ Use(h) \/ Host(h)
    <2>1. /\ thread[h].at \in {"return", "use", "host"}
          /\ UNCHANGED wrapper /\ UNCHANGED <<remote, unkilled>>
      BY <1>4 DEF Return, Use, Host, At
    <2>2. Counted' = Counted /\ (KnownCounts' <=> KnownCounts)
      BY <2>1 DEF Counted, Live, KnownCounts, wrapper
    <2>3. PICK point \in {"use", "host", "idle"}, wrap \in 0 .. MaxWraps : Moves(h, point, wrap)
      <3>1. None \in 0 .. MaxWraps
        BY BoundsAssumption DEF None
      <3> QED
        BY <1>4, <3>1, StepMoves
    <2>4. Makers' = Makers /\ Killers' = Killers
      BY <2>1, <2>3, MakersMove DEF Makers, Killers
    <2>5. Debt' = Debt
      BY <2>2, <2>4 DEF Debt
    <2>6. (\E g \in Threads : Heir(g)) => (\E g \in Threads : Heir(g))'
      BY <2>1, <2>3 DEF Heir, Moves, wrapper
    <2>7. Settled => Settled'
      BY <2>1, <2>2, <2>3 DEF Settled, Moves, wrapper
    <2> QED
      BY <1>0, <2>2, <2>4, <2>5, <2>6, <2>7 DEF LeakInv
  <1>5. CASE Create(h)
    <2>1. /\ thread[h].at = "create" /\ singleton' = singleton
          /\ handle' = [handle EXCEPT ![thread[h].wrap] = boxes']
      BY <1>5 DEF Create, At
    <2>2. Moves(h, "mark", thread[h].wrap)
      BY <1>5, StepMoves
    <2>3. Debt' = Debt /\ Counted' = Counted \cup {boxes'} /\ Killers' = Killers
      <3>1. Killers' = Killers
        BY <2>1, <2>2, MakersMove DEF Killers
      <3> QED
        BY <1>5, <3>1, CreatePays
    <2>4. ~Settled
      BY <2>1 DEF Settled
    <2>5. singleton # None => singleton \in Wraps
      BY DEF SandboxTypes, Wraps, None
    <2>6. KnownCounts => KnownCounts'
      BY <2>1, <2>3, <2>5 DEF KnownCounts, SandboxTypes
    <2>7. ASSUME NEW g \in Threads, Heir(g)
          PROVE  KnownCounts' \/ \E k \in Threads : Heir(k)'
      <3>1. CASE g = h
        BY <2>1, <2>3, <2>5, <2>7, <3>1 DEF KnownCounts, SandboxTypes, Heir
      <3>2. CASE g # h
        BY <2>1, <2>2, <2>7, <3>2 DEF Moves, Heir
      <3> QED
        BY <3>1, <3>2
    <2> QED
      BY <1>0, <2>3, <2>4, <2>6, <2>7 DEF LeakInv
  <1>6. CASE Mark(h)
    <2>1. /\ thread[h].at = "mark"
          /\ UNCHANGED <<singleton, handle, remote, unkilled>>
      BY <1>6 DEF Mark, At
    <2>2. Moves(h, "return", thread[h].wrap)
      BY <1>6, StepMoves
    <2>3. Makers' = Makers /\ Killers' = Killers
      BY <2>1, <2>2, MakersMove DEF Makers, Killers
    <2>4. Counted' = Counted /\ (KnownCounts' <=> KnownCounts)
      BY <2>1 DEF Counted, Live, KnownCounts
    <2>5. Debt' = Debt
      BY <2>3, <2>4 DEF Debt
    <2>6. (\E g \in Threads : Heir(g)) => (\E g \in Threads : Heir(g))'
      BY <2>1, <2>2 DEF Heir, Moves
    <2>7. ~Settled
      BY <2>1 DEF Settled
    <2> QED
      BY <1>0, <2>3, <2>4, <2>5, <2>6, <2>7 DEF LeakInv
  <1>7. CASE CreateFails(h)
    <2>1. thread[h].at = "create" /\ UNCHANGED <<remote, unkilled>>
      BY <1>7 DEF CreateFails, At
    <2>2. PICK point \in {"use", "host", "idle"}, wrap \in 0 .. MaxWraps : Moves(h, point, wrap)
      BY <1>7, StepMoves
    <2>3. Makers' = Makers \ {h} /\ h \in Makers
      BY <2>1, <2>2, MakersMove DEF Makers
    <2>4. Counted' = Counted
      BY <2>1 DEF Counted, Live
    <2>5. Debt' < Debt
      BY <2>3, <2>4, DebtFalls
    <2>6. ~Settled
      BY <2>1 DEF Settled
    <2>7. Debt <= overlaps + 1
      BY <1>0, <2>6 DEF LeakInv
    <2>8. Debt' <= overlaps'
      BY <1>0, <2>5, <2>7
    <2> QED
      BY <2>8 DEF LeakInv
  <1>8. CASE KillLooks(h)
    <2>1. thread[h].at = "kill" /\ UNCHANGED wrapper /\ UNCHANGED <<remote, unkilled>>
      BY <1>8 DEF KillLooks, At
    <2>2. PICK point \in {"send", "forget"} :
             Moves(h, point, thread[h].wrap) /\ (Ready(thread[h].wrap) => point = "send")
      BY <1>8, StepMoves
    <2>3. Makers' = Makers
      BY <2>1, <2>2, MakersMove DEF Makers
    <2>4. Counted' = Counted /\ (KnownCounts' <=> KnownCounts)
      BY <2>1 DEF Counted, Live, KnownCounts, wrapper
    <2>5. Debt' = Debt
      BY <2>3, <2>4 DEF Debt
    <2>6. h \in Killers
      BY <2>1 DEF Killers
    <2>7. ASSUME Settled PROVE Settled'
      <3>1. Ready(thread[h].wrap)
        BY <2>1, <2>7 DEF Settled, KnownCounts, Ready, Counted, Live, Boxes, None
      <3> QED
        BY <2>1, <2>2, <2>4, <2>7, <3>1 DEF Settled, Moves, wrapper
    <2> QED
      BY <1>0, <2>5, <2>6, <2>7 DEF LeakInv
  <1>9. CASE KillSends(h)
    <2>1. thread[h].at = "send" /\ Moves(h, "clear", thread[h].wrap)
      BY <1>9, StepMoves DEF KillSends, At
    <2>2. Makers' = Makers /\ h \in Killers
      BY <2>1, MakersMove DEF Makers, Killers
    <2> DEFINE b == handle[thread[h].wrap]
    <2>3. \/ b \in Live /\ remote' = [remote EXCEPT ![b] = "dead"] /\ UNCHANGED unkilled
          \/ UNCHANGED remote /\ unkilled' = unkilled \cup ({b} \cap Live)
      BY <1>9 DEF KillSends
    <2> HIDE DEF b
    <2>4. Counted' = Counted \ {b}
      BY <2>3 DEF Counted, Live, SandboxTypes
    <2>5. Debt' <= Debt /\ (b \in Counted => Debt' < Debt)
      BY <2>2, <2>4, DebtFalls
    <2>6. Settled => b \in Counted
      BY <2>1 DEF Settled, KnownCounts, b
    <2>7. Debt <= overlaps \/ (Debt <= overlaps + 1 /\ Settled)
      BY <1>0, <2>2 DEF LeakInv
    <2>8. Debt' <= overlaps'
      BY <1>0, <2>5, <2>6, <2>7
    <2> QED
      BY <2>8 DEF LeakInv
  <1>10. CASE KillClears(h) \/ Forget(h)
    <2>1. thread[h].at \in {"clear", "forget"} /\ UNCHANGED <<remote, unkilled>>
      BY <1>10 DEF KillClears, Forget, At
    <2>2. PICK point \in {"forget", "idle"}, wrap \in {thread[h].wrap, None} : Moves(h, point, wrap)
      BY <1>10, StepMoves
    <2>3. Makers' = Makers /\ h \in Killers
      BY <2>1, <2>2, MakersMove DEF Makers, Killers
    <2>4. Counted' = Counted
      BY <2>1 DEF Counted, Live
    <2>5. Debt' = Debt
      BY <2>3, <2>4 DEF Debt
    <2>6. ~Settled
      BY <2>1 DEF Settled
    <2> QED
      BY <1>0, <2>3, <2>5, <2>6 DEF LeakInv
  <1> QED
    BY <1>1, <1>2, <1>3, <1>4, <1>5, <1>6, <1>7, <1>8, <1>9, <1>10 DEF Proceeds

\* The end of a box keeps the balance: where the singleton knew it, some call will
\* make another, or there is one box the less.
LEMMA LeakExpire ==
    ASSUME SandboxTypes, SandboxTypes', LeakInv, NEW b \in Boxes, Expire(b)
    PROVE  LeakInv'
  <1>0. Debt \in Nat /\ Debt' \in Nat /\ overlaps \in Nat
    <2>1. Debt' \in Nat
      BY DebtStaysTyped
    <2> QED
      BY <2>1, DebtTyped DEF SandboxTypes
  <1>1. /\ remote' = [remote EXCEPT ![b] = "dead"] /\ remote[b] = "live"
        /\ UNCHANGED <<singleton, handle, created, thread, overlaps, unkilled>>
    BY DEF Expire, wrapper
  <1>2. /\ Makers' = Makers /\ Killers' = Killers
        /\ \A g \in Threads : Heir(g)' <=> Heir(g)
    BY <1>1 DEF Makers, Killers, Heir
  <1>3. Counted' = Counted \ {b}
    BY <1>1 DEF Counted, Live, SandboxTypes
  <1>4. CASE b \in Counted
    <2>1. Debt' < Debt
      BY <1>2, <1>3, <1>4, DebtFalls
    <2>2. CASE Debt <= overlaps + 1
      <3>1. Debt' <= overlaps'
        BY <1>0, <1>1, <2>1, <2>2
      <3> QED
        BY <3>1 DEF LeakInv
    <2>3. CASE Debt <= overlaps + 2 /\ Settled /\ Killers = {} /\ Makers # {}
      <3>1. Debt' <= overlaps' + 1
        BY <1>0, <1>1, <2>1, <2>3
      <3>2. Killers' = {}
        BY <1>2, <2>3
      <3>3. PICK g \in Threads : Heir(g)
        BY <2>3 DEF Makers, Settled, Heir, KnownCounts
      <3> QED
        BY <1>2, <3>1, <3>2, <3>3 DEF LeakInv
    <2> QED
      BY <1>0, <2>2, <2>3 DEF LeakInv
  <1>5. CASE b \notin Counted
    <2>1. Counted' = Counted
      BY <1>3, <1>5
    <2>2. Debt' = Debt /\ (KnownCounts' <=> KnownCounts)
      BY <1>1, <1>2, <2>1 DEF Debt, KnownCounts
    <2>3. Settled' <=> Settled
      BY <1>1, <2>2 DEF Settled
    <2> QED
      BY <1>1, <1>2, <2>2, <2>3 DEF LeakInv
  <1> QED
    BY <1>4, <1>5

\* A call that begins while another is under way is counted as an overlap; one
\* that begins alone finds the box the singleton knows, or is to make it.
LEMMA LeakCall ==
    ASSUME SandboxTypes, SandboxTypes', Marked, LeakInv,
           NEW h \in Threads, NEW op \in Ops, Call(h, op)
    PROVE  LeakInv'
  <1> DEFINE alone == \A g \in Threads : thread[g].at = "idle"
  <1>0. Debt \in Nat /\ Debt' \in Nat /\ overlaps \in Nat /\ overlaps' \in Nat
    <2>1. Debt' \in Nat
      BY DebtStaysTyped
    <2> QED
      BY <2>1, DebtTyped DEF SandboxTypes
  <1>1. /\ thread[h].at = "idle"
        /\ UNCHANGED <<singleton, handle, created, remote, unkilled>>
        /\ overlaps' = IF alone THEN overlaps ELSE overlaps + 1
    <2>1. /\ thread[h].at = "idle"
          /\ UNCHANGED <<singleton, handle, created, remote, unkilled>>
          /\ overlaps' = overlaps + (IF \E g \in Threads : thread[g].at # "idle" THEN 1 ELSE 0)
      BY DEF Call, At, wrapper
    <2>2. CASE alone
      BY <2>1, <2>2 DEF SandboxTypes
    <2>3. CASE ~alone
      BY <2>1, <2>3 DEF SandboxTypes
    <2> QED
      BY <2>1, <2>2, <2>3
  <1>2. Counted' = Counted /\ (KnownCounts' <=> KnownCounts)
    BY <1>1 DEF Counted, Live, KnownCounts
  <1>3. /\ alone => Killers = {} /\ Makers = {}
        /\ alone => \A g \in Threads : ~Heir(g)
    BY DEF Killers, Makers, Heir
  <1>4. alone /\ KnownCounts => Settled
    BY QuietSettled
  <1>5. PICK point \in {"kill", "construct", "taken"} : Moves(h, point, singleton)
    BY CallMoves
  <1>6. \A g \in Threads : Heir(g) => Heir(g)'
    BY <1>1, <1>5 DEF Heir, Moves
  <1> HIDE DEF alone
  <1>7. CASE op = "kill"
    <2>1. Moves(h, "kill", singleton)
      BY <1>7, CallMoves
    <2>2. Makers' = Makers
      BY <1>1, <2>1, MakersMove DEF Makers
    <2>3. Debt' = Debt
      BY <1>2, <2>2 DEF Debt
    <2>4. Settled => Settled'
      BY <1>1, <1>2, <2>1 DEF Settled, Moves
    <2>5. CASE alone
      <3>1. overlaps' = overlaps
        BY <1>1, <2>5
      <3>2. Debt <= overlaps \/ (Debt <= overlaps + 1 /\ Settled)
        BY <1>3, <1>4, <2>5 DEF LeakInv
      <3> QED
        BY <2>3, <2>4, <3>1, <3>2 DEF LeakInv
    <2>6. CASE ~alone
      <3>1. overlaps' = overlaps + 1
        BY <1>1, <2>6
      <3>2. Debt <= overlaps + 1 \/ (Debt <= overlaps + 2 /\ Settled)
        BY <1>0 DEF LeakInv
      <3>3. Debt' <= overlaps' \/ (Debt' <= overlaps' + 1 /\ Settled')
        BY <1>0, <2>3, <2>4, <3>1, <3>2
      <3> QED
        BY <3>3 DEF LeakInv
    <2> QED
      BY <2>5, <2>6
  <1>8. CASE op # "kill"
    <2>1. /\ singleton = None => Moves(h, "construct", singleton)
          /\ singleton # None => Moves(h, "taken", singleton)
      BY <1>8, CallMoves
    <2>2. Makers' = Makers \cup {h} /\ Killers' = Killers /\ h \notin Makers
      BY <1>1, <2>1, MakersMove DEF Makers, Killers
    <2>3. Cardinality(Makers') = Cardinality(Makers) + 1
      <3>1. Cardinality(Makers \cup {h}) = IF h \in Makers THEN Cardinality(Makers) ELSE Cardinality(Makers) + 1
        BY Zenon, DebtTyped, FS_AddElement
      <3> QED
        BY <2>2, <3>1
    <2>4. Debt' = Debt + 1
      BY <1>2, <2>3, DebtTyped DEF Debt
    <2>5. Settled => Settled'
      BY <1>1, <1>2, <2>1 DEF Settled, Moves, KnownCounts
    <2>6. Heir(h)' /\ Makers' # {}
      BY <1>1, <2>1, <2>2 DEF Heir, Moves
    <2>7. CASE alone
      <3>1. overlaps' = overlaps /\ Killers' = {}
        BY <1>1, <1>3, <2>2, <2>7
      <3>2. Debt <= overlaps \/ (Debt <= overlaps + 1 /\ Settled)
        BY <1>3, <1>4, <2>7 DEF LeakInv
      <3>3. Debt' <= overlaps' + 1 \/ (Debt' <= overlaps' + 2 /\ Settled')
        BY <1>0, <2>4, <2>5, <3>1, <3>2
      <3> QED
        BY <2>6, <3>1, <3>3 DEF LeakInv
    <2>8. CASE ~alone
      <3>1. overlaps' = overlaps + 1
        BY <1>1, <2>8
      <3>2. /\ Debt <= overlaps => Debt' <= overlaps'
            /\ Debt <= overlaps + 1 => Debt' <= overlaps' + 1
            /\ Debt <= overlaps + 2 => Debt' <= overlaps' + 2
        BY <1>0, <2>4, <3>1
      <3> QED
        BY <1>2, <1>6, <2>2, <2>5, <2>6, <3>2 DEF LeakInv
    <2> QED
      BY <2>7, <2>8
  <1> QED
    BY <1>7, <1>8

-----------------------------------------------------------------------------
(* The cloud sandbox: theorems. *)

SandboxInv == SandboxTypes /\ RunsInv /\ Marked /\ LeakInv

LEMMA SandboxStarts == SandboxInit => SandboxInv
  <1> SUFFICES ASSUME SandboxInit PROVE SandboxInv
    OBVIOUS
  <1>1. SandboxTypes
    <2>1. Idle \in CallRecord
      BY BoundsAssumption DEF Idle, CallRecord, Points, None
    <2> QED
      BY <2>1, BoundsAssumption DEF SandboxInit, SandboxTypes, Idle, None, Boxes, Wraps
  <1>2. RunsInv /\ Marked
    BY DEF SandboxInit, RunsInv, Marked
  <1>3. Debt = 0
    <2>1. Counted = {} /\ Makers = {}
      BY DEF SandboxInit, Counted, Live, Makers, Idle
    <2> QED
      BY <2>1, FS_EmptySet DEF Debt
  <1> QED
    BY <1>1, <1>2, <1>3 DEF SandboxInv, LeakInv, SandboxInit

LEMMA SandboxStepInv == SandboxInv /\ [SandboxNext]_sandbox => SandboxInv'
  <1> SUFFICES ASSUME SandboxInv, [SandboxNext]_sandbox PROVE SandboxInv'
    OBVIOUS
  <1>1. SandboxTypes' /\ RunsInv' /\ Marked'
    BY SandboxTypesStep, RunsStep, MarkedStep DEF SandboxInv
  <1>2. LeakInv'
    <2>1. CASE UNCHANGED sandbox
      BY <2>1 DEF SandboxInv, sandbox, LeakInv, Debt, Counted, Live, Makers, Killers, KnownCounts, Heir, Settled
    <2>2. CASE SandboxNext
      BY <1>1, <2>2, SandboxSteps, LeakCall, LeakProceeds, LeakExpire DEF SandboxInv
    <2> QED
      BY <2>1, <2>2
  <1> QED
    BY <1>1, <1>2 DEF SandboxInv

\* The threads, wrappers and boxes keep their types and balance, however the calls
\* of the pool interleave (computer.run_shell, E2BSandbox).
THEOREM SandboxConsistent == SandboxSpec => []SandboxInv
  BY SandboxStarts, SandboxStepInv, PTL DEF SandboxSpec

\* A call runs its command in one place at most, for any number of threads and
\* whatever the box answers (computer.run_shell's fallback to the host).
THEOREM CommandsRunOnce == SandboxSpec => []RunsOnce
  <1>1. SandboxInv => RunsOnce
    <2>1. ASSUME NEW S, NEW x, S = {} \/ S = {x} PROVE Cardinality(S) <= 1
      <3>1. Cardinality({}) = 0 /\ Cardinality({x}) = 1
        BY FS_EmptySet, FS_Singleton
      <3> QED
        BY <2>1, <3>1
    <2> QED
      BY <2>1 DEF SandboxInv, RunsInv, RunsOnce
  <1> QED
    BY <1>1, SandboxConsistent, PTL

\* As many boxes leak as calls overlapped, at most: none from calls made one after
\* the other (get_e2b_sandbox, _get_or_create_sandbox, kill and reset, unlocked).
THEOREM OnlyRacesLeak == SandboxSpec => []LeaksAreRaced
  <1>1. SandboxInv => LeaksAreRaced
    <2> SUFFICES ASSUME SandboxInv PROVE LeaksAreRaced
      OBVIOUS
    <2> DEFINE lost == Live \ (unkilled \cup Known)
    <2>1. overlaps \in Nat
      BY DEF SandboxInv, SandboxTypes
    <2>2. lost \subseteq Counted
      BY DEF Counted
    <2>3. IsFiniteSet(lost) /\ Cardinality(lost) <= Cardinality(Counted)
      BY <2>2, DebtTyped, FS_Subset
    <2>4. Cardinality(lost) \in Nat
      BY <2>3, FS_CardinalityType
    <2>5. KnownCounts => Cardinality(lost) < Cardinality(Counted)
      <3> SUFFICES ASSUME KnownCounts PROVE Cardinality(lost) < Cardinality(Counted)
        OBVIOUS
      <3>1. lost # Counted
        BY DEF KnownCounts, Known
      <3>2. Cardinality(lost) # Cardinality(Counted)
        BY <2>2, <3>1, DebtTyped, FS_Subset
      <3> HIDE DEF lost
      <3> QED
        BY <2>3, <2>4, <3>2, DebtTyped
    <2>6. Makers # {} => Cardinality(Makers) >= 1
      BY DebtTyped, FS_EmptySet
    <2>7. (\E g \in Threads : Heir(g)) => Makers # {}
      BY DEF Heir, Makers
    <2> HIDE DEF lost
    <2>8. Cardinality(lost) <= overlaps
      <3>1. CASE Debt <= overlaps
        BY <2>1, <2>3, <2>4, <3>1, DebtTyped DEF Debt
      <3>2. CASE Debt <= overlaps + 1 /\ (KnownCounts \/ Makers # {})
        BY <2>1, <2>3, <2>4, <2>5, <2>6, <3>2, DebtTyped DEF Debt
      <3>3. CASE Debt <= overlaps + 2 /\ KnownCounts /\ Makers # {}
        BY <2>1, <2>3, <2>4, <2>5, <2>6, <3>3, DebtTyped DEF Debt
      <3> QED
        BY <2>7, <3>1, <3>2, <3>3 DEF SandboxInv, LeakInv, Settled
    <2> QED
      BY <2>8 DEF lost, LeaksAreRaced
  <1> QED
    BY <1>1, SandboxConsistent, PTL

-----------------------------------------------------------------------------
(* The Forge. *)

Results == [stated : BOOLEAN, outcome : Outcomes]

ForgeCall == [op : {"forge", "verify", "execute"}, name : Names \cup {""}, code : Codes,
              cases : Seq(Cases), passed : BOOLEAN, file : SUBSET Files, seen : SUBSET Results]

\* What the test cases so far came to is what the verdict should be.
AllGood(seen) == \A r \in seen : r.outcome # "error" /\ (r.stated => r.outcome = "expected")

\* The temporary file of a caller, if its call has one.
FileOf(t) == IF call[t] = NoCall THEN {} ELSE call[t].file

ForgeTypes ==
    /\ call \in [Callers -> ForgeCall \cup {NoCall}]
    /\ \A t \in Callers : FileOf(t) # {} => call[t].cases # <<>>

Verdicts == \A t \in Callers : call[t] # NoCall => (call[t].passed <=> AllGood(call[t].seen))

\* Each temporary file is of one caller, or was left; none comes twice.
FilesInv ==
    /\ left \subseteq taken
    /\ \A t \in Callers : FileOf(t) \subseteq taken /\ FileOf(t) \cap left = {}
    /\ \A t, u \in Callers : t # u => FileOf(t) \cap FileOf(u) = {}
    /\ \A f : f \in files <=> f \in left \/ \E t \in Callers : f \in FileOf(t)

ForgeInv == ForgeTypes /\ Verdicts /\ VerdictSound /\ FilesInv

\* A call is none or one with all its parts.
LEMMA CallOrNone == NoCall \notin ForgeCall
  BY DEF NoCall, ForgeCall

\* The call after a test case.
LEMMA CaseDoneCall ==
    ASSUME NEW c \in ForgeCall, NEW outcome \in Outcomes, c.cases # <<>>
    PROVE  /\ CaseDone(c, outcome) \in ForgeCall
           /\ CaseDone(c, outcome).file = {}
           /\ (c.passed <=> AllGood(c.seen)) =>
                 (CaseDone(c, outcome).passed <=> AllGood(CaseDone(c, outcome).seen))
  <1> DEFINE case == Head(c.cases)
             r == [stated |-> case.stated, outcome |-> outcome]
             d == CaseDone(c, outcome)
  <1>1. c.cases \in Seq(Cases)
    BY DEF ForgeCall
  <1>2. case \in Cases /\ Tail(c.cases) \in Seq(Cases)
    BY <1>1
  <1>3. r \in Results /\ r.outcome = outcome /\ r.stated = case.stated
    BY <1>2 DEF Results, Cases
  <1> HIDE DEF case, r
  <1>4. d = [c EXCEPT !.passed = @ /\ Passes(case, outcome), !.cases = Tail(@), !.file = {}, !.seen = @ \cup {r}]
    BY DEF CaseDone, case, r
  <1>5. (c.passed /\ Passes(case, outcome)) \in BOOLEAN
    OBVIOUS
  <1> DEFINE passed == c.passed /\ Passes(case, outcome)
  <1>6. d = [c EXCEPT !.passed = passed, !.cases = Tail(c.cases), !.file = {}, !.seen = c.seen \cup {r}]
    BY <1>4 DEF ForgeCall
  <1>7. passed \in BOOLEAN
    OBVIOUS
  <1> HIDE DEF passed, d
  <1>8. /\ d \in ForgeCall /\ d.file = {}
        /\ d.passed = passed /\ d.seen = c.seen \cup {r}
    BY <1>2, <1>3, <1>6, <1>7 DEF ForgeCall
  <1>9. AllGood(d.seen) <=> AllGood(c.seen) /\ r.outcome # "error" /\ (r.stated => r.outcome = "expected")
    BY <1>8 DEF AllGood
  <1> QED
    BY <1>3, <1>8, <1>9 DEF Passes, passed, d

\* A step in which one call changes for another with the same file.
LEMMA SameFiles ==
    ASSUME ForgeInv, NEW t \in Callers, NEW c \in ForgeCall \cup {NoCall},
           call' = [call EXCEPT ![t] = c],
           c # NoCall => c.file = FileOf(t) /\ (c.passed <=> AllGood(c.seen)) /\ (c.file # {} => c.cases # <<>>),
           c = NoCall => FileOf(t) = {},
           UNCHANGED <<files, left, taken>>, VerdictSound'
    PROVE  ForgeInv'
  <1>1. \A u \in Callers : FileOf(u)' = FileOf(u)
    BY DEF ForgeInv, ForgeTypes, FileOf
  <1>2. ForgeTypes' /\ Verdicts'
    BY <1>1 DEF ForgeInv, ForgeTypes, Verdicts
  <1>3. FilesInv'
    BY <1>1 DEF ForgeInv, FilesInv
  <1> QED
    BY <1>2, <1>3 DEF ForgeInv

LEMMA ForgeStep ==
    ASSUME ForgeInv, [ForgeNext]_forge
    PROVE  ForgeInv'
  <1> USE CallOrNone
  <1>1. ASSUME NEW t \in Callers, NEW op \in {"forge", "verify", "execute"}, NEW name \in Names \cup {""},
               NEW code \in Codes, NEW cases \in Seq(Cases), Calls(t, op, name, code, cases)
        PROVE  ForgeInv'
    <2> DEFINE c == Calling(op, name, code, cases)
    <2>1. c \in ForgeCall /\ c.file = {} /\ c.passed = TRUE /\ AllGood(c.seen)
      BY DEF Calling, ForgeCall, AllGood
    <2>2. FileOf(t) = {} /\ call' = [call EXCEPT ![t] = c] /\ UNCHANGED <<files, left, taken, answer>>
      BY <1>1 DEF Calls, FileOf
    <2>3. VerdictSound'
      BY <2>2 DEF ForgeInv, VerdictSound
    <2> HIDE DEF c
    <2> QED
      BY <2>1, <2>2, <2>3, SameFiles
  <1>2. ASSUME NEW t \in Callers, Refuse(t) PROVE ForgeInv'
    <2> DEFINE c == CaseDone(call[t], "error")
    <2>1. call[t] \in ForgeCall /\ call[t] # NoCall /\ FileOf(t) = {} /\ call[t].cases # <<>>
      BY <1>2 DEF Refuse, HasCase, ForgeInv, ForgeTypes, FileOf
    <2>2. c \in ForgeCall /\ c.file = {} /\ (c.passed <=> AllGood(c.seen))
      BY <2>1, CaseDoneCall DEF ForgeInv, Verdicts, Outcomes
    <2>3. call' = [call EXCEPT ![t] = c] /\ UNCHANGED <<files, left, taken, answer>>
      BY <1>2 DEF Refuse
    <2>4. VerdictSound'
      BY <2>3 DEF ForgeInv, VerdictSound
    <2> HIDE DEF c
    <2> QED
      BY <2>1, <2>2, <2>3, <2>4, SameFiles
  <1>3. ASSUME NEW t \in Callers, NEW f \in Files, Launch(t, f) PROVE ForgeInv'
    <2> DEFINE c == [call[t] EXCEPT !.file = {f}]
    <2>1. call[t] \in ForgeCall /\ call[t] # NoCall /\ FileOf(t) = {} /\ call[t].cases # <<>>
      BY <1>3 DEF Launch, HasCase, ForgeInv, ForgeTypes, FileOf
    <2>2. /\ c \in ForgeCall /\ c.file = {f} /\ c.cases = call[t].cases
          /\ c.passed = call[t].passed /\ c.seen = call[t].seen
      BY <2>1 DEF ForgeCall
    <2>3. /\ call' = [call EXCEPT ![t] = c] /\ UNCHANGED <<left, answer>>
          /\ f \notin taken /\ files' = files \cup {f} /\ taken' = taken \cup {f}
      BY <1>3 DEF Launch
    <2> HIDE DEF c
    <2>4. \A u \in Callers : FileOf(u)' = IF u = t THEN {f} ELSE FileOf(u)
      BY <2>2, <2>3 DEF ForgeInv, ForgeTypes, FileOf
    <2>5. ForgeTypes' /\ Verdicts' /\ VerdictSound'
      BY <2>1, <2>2, <2>3, <2>4 DEF ForgeInv, ForgeTypes, Verdicts, VerdictSound
    <2>6. FilesInv'
      BY <2>1, <2>3, <2>4 DEF ForgeInv, FilesInv
    <2> QED
      BY <2>5, <2>6 DEF ForgeInv
  <1>4. ASSUME NEW t \in Callers, NEW f \in Files, LaunchRaises(t, f) PROVE ForgeInv'
    <2>1. FileOf(t) = {}
      BY <1>4 DEF LaunchRaises, HasCase, FileOf
    <2>2. /\ call' = [call EXCEPT ![t] = NoCall] /\ UNCHANGED answer
          /\ f \notin taken /\ files' = files \cup {f} /\ taken' = taken \cup {f} /\ left' = left \cup {f}
      BY <1>4 DEF LaunchRaises
    <2>3. \A u \in Callers : FileOf(u)' = FileOf(u)
      BY <2>1, <2>2 DEF ForgeInv, ForgeTypes, FileOf
    <2>4. ForgeTypes' /\ Verdicts' /\ VerdictSound'
      BY <2>2, <2>3 DEF ForgeInv, ForgeTypes, Verdicts, VerdictSound, FileOf
    <2>5. FilesInv'
      BY <2>2, <2>3 DEF ForgeInv, FilesInv
    <2> QED
      BY <2>4, <2>5 DEF ForgeInv
  <1>5. ASSUME NEW t \in Callers, NEW outcome \in Outcomes, RunEnds(t, outcome) PROVE ForgeInv'
    <2> DEFINE c == CaseDone(call[t], outcome)
    <2>1. call[t] \in ForgeCall /\ call[t] # NoCall /\ FileOf(t) = call[t].file /\ call[t].cases # <<>>
      BY <1>5 DEF RunEnds, ForgeInv, ForgeTypes, FileOf
    <2>2. c \in ForgeCall /\ c.file = {} /\ (c.passed <=> AllGood(c.seen))
      BY <2>1, CaseDoneCall DEF ForgeInv, Verdicts
    <2>3. /\ call' = [call EXCEPT ![t] = c] /\ UNCHANGED <<left, taken, answer>>
          /\ files' = files \ FileOf(t)
      BY <1>5, <2>1 DEF RunEnds
    <2> HIDE DEF c
    <2>4. \A u \in Callers : FileOf(u)' = IF u = t THEN {} ELSE FileOf(u)
      BY <2>2, <2>3 DEF ForgeInv, ForgeTypes, FileOf
    <2>5. ForgeTypes' /\ Verdicts' /\ VerdictSound'
      BY <2>2, <2>3, <2>4 DEF ForgeInv, ForgeTypes, Verdicts, VerdictSound
    <2>6. FilesInv'
      BY <2>3, <2>4 DEF ForgeInv, FilesInv
    <2> QED
      BY <2>5, <2>6 DEF ForgeInv
  <1>6. ASSUME NEW t \in Callers, Returns(t) PROVE ForgeInv'
    <2>1. FileOf(t) = {} /\ call[t] # NoCall
      BY <1>6 DEF Returns, FileOf
    <2>2. call' = [call EXCEPT ![t] = NoCall] /\ UNCHANGED <<files, left, taken>>
      BY <1>6 DEF Returns
    <2>3. answer' = answer \/ answer' = [passed |-> call[t].passed, seen |-> call[t].seen]
      BY <1>6 DEF Returns
    <2>4. VerdictSound'
      <3>1. CASE answer' = answer
        BY <3>1 DEF ForgeInv, VerdictSound
      <3>2. CASE answer' = [passed |-> call[t].passed, seen |-> call[t].seen]
        <4>1. answer'.passed = call[t].passed /\ answer'.seen = call[t].seen
          BY <3>2
        <4> QED
          BY <2>1, <4>1 DEF ForgeInv, Verdicts, VerdictSound, AllGood
      <3> QED
        BY <2>3, <3>1, <3>2
    <2> QED
      BY <2>1, <2>2, <2>4, SameFiles
  <1>7. CASE Crash
    <2>1. /\ call' = [t \in Callers |-> NoCall] /\ UNCHANGED <<files, taken, answer>>
          /\ left' = left \cup {f \in files : \E t \in Callers : call[t] # NoCall /\ f \in call[t].file}
      BY <1>7 DEF Crash
    <2>2. \A t \in Callers : FileOf(t)' = {}
      BY <2>1 DEF FileOf
    <2>3. \A f : f \in left' <=> f \in left \/ \E t \in Callers : f \in FileOf(t)
      BY <2>1 DEF ForgeInv, FilesInv, FileOf
    <2>4. ForgeTypes' /\ Verdicts' /\ VerdictSound'
      BY <2>1, <2>2 DEF ForgeInv, ForgeTypes, Verdicts, VerdictSound
    <2>5. FilesInv'
      BY <2>1, <2>2, <2>3 DEF ForgeInv, FilesInv
    <2> QED
      BY <2>4, <2>5 DEF ForgeInv
  <1>8. CASE UNCHANGED <<files, call, answer, left, taken>>
    BY <1>8 DEF ForgeInv, ForgeTypes, Verdicts, VerdictSound, FilesInv, FileOf
  <1>9. CASE UNCHANGED forge
    BY <1>8, <1>9 DEF forge
  <1>10. ASSUME NEW t \in Callers, NEW name \in Names, Forge(t, name) PROVE ForgeInv'
    <2>1. Generated \in Seq(Cases)
      BY DEF Generated, Cases
    <2> QED
      BY <1>1, <1>10, <2>1 DEF Forge, Synthesized, Codes
  <1>11. ASSUME NEW t \in Callers, NEW code \in Codes, NEW n \in 0 .. MaxCases, NEW cases \in [1 .. n -> Cases],
                Verify(t, code, cases)
         PROVE  ForgeInv'
    <2>1. cases \in Seq(Cases)
      BY MaxCasesAssumption
    <2> QED
      BY <1>1, <1>11, <2>1 DEF Verify
  <1>12. ASSUME NEW t \in Callers, NEW code \in Codes, NEW case \in Cases, Execute(t, code, case)
         PROVE  ForgeInv'
    <2>1. <<case>> \in Seq(Cases)
      OBVIOUS
    <2> QED
      BY <1>1, <1>12, <2>1 DEF Execute
  <1> QED
    BY <1>2, <1>3, <1>4, <1>5, <1>6, <1>7, <1>8, <1>9, <1>10, <1>11, <1>12
    DEF ForgeNext, RegisterTool, UnregisterTool

\* A verdict is that of all its test cases and a temporary file that of a run, or
\* left by an exception or a crash, for any callers, files and test cases
\* (ToolVerifier.verify, SandboxExecutor.execute).
THEOREM VerdictsHold == ForgeSpec => []ForgeSound
  <1>1. ForgeInit => ForgeInv
    BY DEF ForgeInit, ForgeInv, ForgeTypes, Verdicts, VerdictSound, FilesInv, FileOf
  <1>2. ForgeInv /\ [ForgeNext]_forge => ForgeInv'
    BY ForgeStep
  <1>3. ForgeInv => ForgeSound
    <2> SUFFICES ASSUME ForgeInv PROVE FilesAccounted
      BY DEF ForgeInv, ForgeSound
    <2>1. \A f : f \in UNION {call[t].file : t \in {u \in Callers : call[u] # NoCall}} <=>
                 \E t \in Callers : f \in FileOf(t)
      BY DEF FileOf
    <2> QED
      BY <2>1 DEF ForgeInv, FilesInv, FilesAccounted
  <1> QED
    BY <1>1, <1>2, <1>3, PTL DEF ForgeSpec

-----------------------------------------------------------------------------
(* The event bus: lists of callbacks.                                       *)

\* A list is the first k of one and then the first j of another.
Joined(list, own, k, all, j) ==
    /\ list \in Seq(Callbacks) /\ Len(list) = k + j
    /\ \A i \in 1 .. k : list[i] = own[i]
    /\ \A i \in 1 .. j : list[k + i] = all[i]

\* One list has grown out of another.
Grown(new, old) == Len(old) <= Len(new) /\ \A i \in 1 .. Len(old) : new[i] = old[i]

LEMMA AppendGrows ==
    ASSUME NEW list \in Seq(Callbacks), NEW c \in Callbacks
    PROVE  /\ Append(list, c) \in Seq(Callbacks) /\ Len(Append(list, c)) = Len(list) + 1
           /\ Append(list, c)[Len(list) + 1] = c
           /\ Grown(Append(list, c), list)
  BY DEF Grown

LEMMA JoinedWhole ==
    ASSUME NEW own \in Seq(Callbacks), NEW all \in Seq(Callbacks)
    PROVE  Joined(own \o all, own, Len(own), all, Len(all))
  BY DEF Joined

LEMMA JoinedGrows ==
    ASSUME NEW own \in Seq(Callbacks), NEW all \in Seq(Callbacks),
           NEW more \in Seq(Callbacks), NEW wild \in Seq(Callbacks), Grown(more, own), Grown(wild, all),
           NEW k \in 0 .. Len(own), NEW j \in 0 .. Len(all), NEW list, Joined(list, own, k, all, j)
    PROVE  Joined(list, more, k, wild, j)
  BY DEF Joined, Grown

LEMMA JoinedOwn ==
    ASSUME NEW own \in Seq(Callbacks), NEW all \in Seq(Callbacks), NEW k \in Nat, k < Len(own),
           NEW list, Joined(list, own, k, all, 0)
    PROVE  Joined(Append(list, own[k + 1]), own, k + 1, all, 0)
  <1>1. own[k + 1] \in Callbacks
    OBVIOUS
  <1>2. Grown(Append(list, own[k + 1]), list) /\ Append(list, own[k + 1])[k + 1] = own[k + 1]
    BY <1>1, AppendGrows DEF Joined
  <1> QED
    BY <1>1, <1>2 DEF Joined, Grown

LEMMA JoinedAll ==
    ASSUME NEW own \in Seq(Callbacks), NEW all \in Seq(Callbacks), NEW k \in Nat, NEW j \in Nat, j < Len(all),
           NEW list, Joined(list, own, k, all, j)
    PROVE  Joined(Append(list, all[j + 1]), own, k, all, j + 1)
  <1>1. all[j + 1] \in Callbacks
    OBVIOUS
  <1> DEFINE longer == Append(list, all[j + 1])
  <1>2. /\ longer \in Seq(Callbacks) /\ Len(longer) = k + (j + 1)
        /\ Grown(longer, list) /\ longer[k + (j + 1)] = all[j + 1]
    BY <1>1, AppendGrows DEF Joined
  <1> HIDE DEF longer
  <1>3. \A i \in 1 .. k : longer[i] = own[i]
    BY <1>2 DEF Joined, Grown
  <1>4. \A i \in 1 .. j + 1 : longer[k + i] = all[i]
    <2> SUFFICES ASSUME NEW i \in 1 .. j + 1 PROVE longer[k + i] = all[i]
      OBVIOUS
    <2>1. CASE i = j + 1
      BY <1>2, <2>1
    <2>2. CASE i <= j
      BY <1>2, <2>2 DEF Joined, Grown
    <2> QED
      BY <2>1, <2>2
  <1> QED
    BY <1>2, <1>3, <1>4 DEF Joined, longer

\* What takes more of both lists has each callback at least as often.
LEMMA JoinedTimes ==
    ASSUME NEW own, NEW all, NEW k \in Nat, NEW j \in Nat, NEW a \in 0 .. k, NEW b \in 0 .. j,
           NEW long, Joined(long, own, k, all, j), NEW short, Joined(short, own, a, all, b), NEW c
    PROVE  Times(short, c) <= Times(long, c)
  <1> DEFINE S == {i \in DOMAIN short : short[i] = c}
             T == {i \in DOMAIN long : long[i] = c}
             f == [i \in S |-> IF i <= a THEN i ELSE k + (i - a)]
  <1>1. S \subseteq 1 .. a + b /\ T \subseteq 1 .. k + j
    BY DEF Joined
  <1>2. ASSUME NEW i \in S PROVE f[i] \in T
    <2>1. CASE i <= a
      <3>1. i \in 1 .. a /\ i \in 1 .. k
        BY <1>1, <2>1
      <3>2. long[i] = own[i] /\ short[i] = own[i] /\ i \in DOMAIN long
        BY <3>1 DEF Joined
      <3> QED
        BY <1>2, <2>1, <3>2
    <2>2. CASE i > a
      <3>1. i - a \in 1 .. b /\ i - a \in 1 .. j /\ i = a + (i - a)
        BY <1>1, <2>2
      <3>2. long[k + (i - a)] = all[i - a] /\ short[i] = all[i - a] /\ k + (i - a) \in DOMAIN long
        BY <3>1 DEF Joined
      <3>3. f[i] = k + (i - a) /\ c = short[i]
        BY <1>1, <1>2, <2>2
      <3> QED
        BY <3>2, <3>3
    <2> QED
      BY <1>1, <2>1, <2>2
  <1>3. ASSUME NEW i \in S, NEW m \in S, f[i] = f[m] PROVE i = m
    BY <1>1, <1>3
  <1>4. IsFiniteSet(T)
    <2>1. IsFiniteSet(1 .. k + j)
      BY FS_Interval
    <2> QED
      BY <1>1, <2>1, FS_Subset
  <1>5. f \in Injection(S, T)
    <2>1. f \in [S -> T]
      BY <1>2
    <2> HIDE DEF f
    <2> QED
      BY <1>3, <2>1 DEF Injection, IsInjective
  <1> HIDE DEF S, T, f
  <1>6. Cardinality(S) <= Cardinality(T)
    BY <1>4, <1>5, FS_Injection
  <1> QED
    BY <1>6 DEF Times, S, T

-----------------------------------------------------------------------------
(* The event bus: a fan-out.  Of an event's own list and of the wildcard's,  *)
(* both as they are now, the callbacks called are a part, and so is what is  *)
(* owed; what is owed of a list is called by the time the walk leaves it.    *)

Owes(owing, own, k, all, j) == \E a \in 0 .. k, b \in 0 .. j : Joined(owing, own, a, all, b)

WalksOwn(called, owing, own, all, i) ==
    /\ i \in 0 .. Len(own)
    /\ Joined(called, own, i, all, 0)
    /\ Owes(owing, own, Len(own), all, Len(all))

WalksAll(called, owing, own, all, i) ==
    /\ i \in 0 .. Len(all)
    /\ \E k \in 0 .. Len(own) : Joined(called, own, k, all, i) /\ Owes(owing, own, k, all, Len(all))

Walked(called, owing, own, all) ==
    \E k \in 0 .. Len(own), j \in 0 .. Len(all) : Joined(called, own, k, all, j) /\ Owes(owing, own, k, all, j)

\* A walk takes the next of its own list, or else the first of the wildcard's, or
\* else has ended.
LEMMA WalkOwn ==
    ASSUME NEW own \in Seq(Callbacks), NEW all \in Seq(Callbacks), NEW called, NEW owing, NEW i,
           WalksOwn(called, owing, own, all, i)
    PROVE  /\ i + 1 \in 1 .. Len(own) => WalksOwn(Append(called, own[i + 1]), owing, own, all, i + 1)
           /\ i + 1 \notin 1 .. Len(own) /\ Len(all) >= 1 => WalksAll(Append(called, all[1]), owing, own, all, 1)
           /\ i + 1 \notin 1 .. Len(own) /\ Len(all) = 0 => Walked(called, owing, own, all)
  <1>1. /\ i \in 0 .. Len(own) /\ i \in Nat /\ Len(own) \in Nat /\ Len(all) \in Nat
        /\ i + 1 \notin 1 .. Len(own) => i = Len(own)
    BY DEF WalksOwn
  <1>2. CASE i + 1 \in 1 .. Len(own)
    BY <1>1, <1>2, JoinedOwn DEF WalksOwn
  <1>3. CASE i = Len(own) /\ Len(all) >= 1
    <2>1. Joined(Append(called, all[0 + 1]), own, i, all, 0 + 1)
      BY <1>1, <1>3, JoinedAll DEF WalksOwn
    <2> QED
      BY <1>1, <1>3, <2>1 DEF WalksOwn, WalksAll
  <1>4. CASE i = Len(own) /\ Len(all) = 0
    BY <1>1, <1>4 DEF WalksOwn, Walked
  <1> QED
    BY <1>1, <1>2, <1>3, <1>4

LEMMA WalkAll ==
    ASSUME NEW own \in Seq(Callbacks), NEW all \in Seq(Callbacks), NEW called, NEW owing, NEW i,
           WalksAll(called, owing, own, all, i)
    PROVE  /\ i + 1 \in 1 .. Len(all) => WalksAll(Append(called, all[i + 1]), owing, own, all, i + 1)
           /\ i + 1 \notin 1 .. Len(all) => Walked(called, owing, own, all)
  <1>1. /\ i \in 0 .. Len(all) /\ i \in Nat /\ Len(own) \in Nat /\ Len(all) \in Nat
        /\ i + 1 \notin 1 .. Len(all) => i = Len(all)
    BY DEF WalksAll
  <1>2. PICK k \in 0 .. Len(own) : Joined(called, own, k, all, i) /\ Owes(owing, own, k, all, Len(all))
    BY DEF WalksAll
  <1>3. CASE i + 1 \in 1 .. Len(all)
    <2>1. Joined(Append(called, all[i + 1]), own, k, all, i + 1)
      BY <1>1, <1>2, <1>3, JoinedAll
    <2> QED
      BY <1>1, <1>2, <1>3, <2>1 DEF WalksAll
  <1>4. CASE i = Len(all)
    BY <1>1, <1>2, <1>4 DEF Walked
  <1> QED
    BY <1>1, <1>3, <1>4

\* A registration on the way changes nothing of what was called and owed so far.
LEMMA WalkGrows ==
    ASSUME NEW own \in Seq(Callbacks), NEW all \in Seq(Callbacks),
           NEW more \in Seq(Callbacks), NEW wild \in Seq(Callbacks), Grown(more, own), Grown(wild, all),
           NEW called, NEW owing
    PROVE  /\ \A i : WalksOwn(called, owing, own, all, i) => WalksOwn(called, owing, more, wild, i)
           /\ \A i : WalksAll(called, owing, own, all, i) => WalksAll(called, owing, more, wild, i)
           /\ Walked(called, owing, own, all) => Walked(called, owing, more, wild)
  <1>1. /\ Len(own) \in Nat /\ Len(all) \in Nat /\ Len(more) \in Nat /\ Len(wild) \in Nat
        /\ Len(own) <= Len(more) /\ Len(all) <= Len(wild)
    BY DEF Grown
  <1>2. ASSUME NEW list, NEW k \in 0 .. Len(own), NEW j \in 0 .. Len(all), Joined(list, own, k, all, j)
        PROVE  Joined(list, more, k, wild, j)
    BY <1>2, JoinedGrows
  <1>3. ASSUME NEW k \in 0 .. Len(own), NEW j \in 0 .. Len(all), NEW k2 \in k .. Len(more), NEW j2 \in j .. Len(wild),
               Owes(owing, own, k, all, j)
        PROVE  Owes(owing, more, k2, wild, j2)
    <2>1. PICK a \in 0 .. k, b \in 0 .. j : Joined(owing, own, a, all, b)
      BY <1>3 DEF Owes
    <2>2. a \in 0 .. Len(own) /\ b \in 0 .. Len(all) /\ a \in 0 .. k2 /\ b \in 0 .. j2
      BY <1>1
    <2> QED
      BY <1>2, <2>1, <2>2 DEF Owes
  <1>4. ASSUME NEW i, WalksOwn(called, owing, own, all, i) PROVE WalksOwn(called, owing, more, wild, i)
    BY <1>1, <1>2, <1>3, <1>4 DEF WalksOwn
  <1>5. ASSUME NEW i, WalksAll(called, owing, own, all, i) PROVE WalksAll(called, owing, more, wild, i)
    <2>1. PICK k \in 0 .. Len(own) : Joined(called, own, k, all, i) /\ Owes(owing, own, k, all, Len(all))
      BY <1>5 DEF WalksAll
    <2>2. i \in 0 .. Len(all) /\ i \in 0 .. Len(wild) /\ k \in 0 .. Len(more) /\ k \in k .. Len(more)
      BY <1>1, <1>5 DEF WalksAll
    <2>3. Joined(called, more, k, wild, i) /\ Owes(owing, more, k, wild, Len(wild))
      BY <1>1, <1>2, <1>3, <2>1, <2>2
    <2> QED
      BY <2>2, <2>3 DEF WalksAll
  <1>6. ASSUME Walked(called, owing, own, all) PROVE Walked(called, owing, more, wild)
    <2>1. PICK k \in 0 .. Len(own), j \in 0 .. Len(all) :
             Joined(called, own, k, all, j) /\ Owes(owing, own, k, all, j)
      BY <1>6 DEF Walked
    <2>2. k \in 0 .. Len(more) /\ j \in 0 .. Len(wild) /\ k \in k .. Len(more) /\ j \in j .. Len(wild)
      BY <1>1
    <2>3. Joined(called, more, k, wild, j) /\ Owes(owing, more, k, wild, j)
      BY <1>1, <1>2, <1>3, <2>1, <2>2
    <2> QED
      BY <2>2, <2>3 DEF Walked
  <1> QED
    BY <1>4, <1>5, <1>6

\* A walk that has ended has called each callback as often as it was owed and no
\* more often than it is registered.
LEMMA WalkedTimes ==
    ASSUME NEW own \in Seq(Callbacks), NEW all \in Seq(Callbacks), NEW called, NEW owing,
           Walked(called, owing, own, all), NEW c
    PROVE  Times(owing, c) <= Times(called, c) /\ Times(called, c) <= Times(own \o all, c)
  <1>1. PICK k \in 0 .. Len(own), j \in 0 .. Len(all) :
           Joined(called, own, k, all, j) /\ Owes(owing, own, k, all, j)
    BY DEF Walked
  <1>2. PICK a \in 0 .. k, b \in 0 .. j : Joined(owing, own, a, all, b)
    BY <1>1 DEF Owes
  <1>3. Times(owing, c) <= Times(called, c)
    BY <1>1, <1>2, JoinedTimes
  <1>4. Times(called, c) <= Times(own \o all, c)
    BY <1>1, JoinedWhole, JoinedTimes
  <1> QED
    BY <1>3, <1>4

-----------------------------------------------------------------------------
(* The event bus: types and places. *)

LoopRecord == [pc : {"none", "created", "waiting", "calling", "ended"}, event : Events \cup {NoEvent},
               list : Types \cup {Star}, at : Nat \ {0}]

NerveTypes ==
    /\ queue \in Seq(Events)
    /\ subscribers \in [Types \cup {Star} -> Seq(Callbacks)]
    /\ running \in BOOLEAN
    /\ loop \in [Loops -> LoopRecord]
    /\ heard \in [Events -> Seq(Callbacks)]
    /\ owed \in [Events -> Seq(Callbacks)]
    /\ done \subseteq Events
    /\ late \in [Loops -> Nat]

\* Where a walk goes on: in its list, or at the beginning of the wildcard's.
LEMMA PlacesOfOwn ==
    ASSUME NerveTypes, NEW t \in Types, NEW i \in Nat \ {0}
    PROVE  /\ i \in 1 .. Len(subscribers[t]) => Places(t, i) # {} /\ NextPlace(t, i) = <<t, i>>
           /\ i \notin 1 .. Len(subscribers[t]) /\ Len(subscribers[Star]) >= 1 =>
                 Places(t, i) # {} /\ NextPlace(t, i) = <<Star, 1>>
           /\ i \notin 1 .. Len(subscribers[t]) /\ Len(subscribers[Star]) = 0 => Places(t, i) = {}
  <1> DEFINE own == subscribers[t]
             all == subscribers[Star]
             best(p) == \A q \in Places(t, i) : (p[1] = t /\ q[1] # t) \/ (p[1] = q[1] /\ p[2] <= q[2])
  <1>1. /\ own \in Seq(Callbacks) /\ all \in Seq(Callbacks) /\ t # Star
        /\ Len(own) \in Nat /\ Len(all) \in Nat
    BY StarAssumption DEF NerveTypes
  <1>2. \A p : p \in Places(t, i) <=> \/ \E n \in 1 .. Len(own) : n >= i /\ p = <<t, n>>
                                      \/ \E n \in 1 .. Len(all) : p = <<Star, n>>
    BY <1>1 DEF Places, Registrations
  <1>3. NextPlace(t, i) = CHOOSE p \in Places(t, i) : best(p)
    BY DEF NextPlace
  <1>4. CASE i \in 1 .. Len(own)
    <2>1. <<t, i>> \in Places(t, i) /\ best(<<t, i>>)
      BY <1>1, <1>2, <1>4
    <2>2. \A p \in Places(t, i) : best(p) => p = <<t, i>>
      BY <1>1, <1>2, <2>1
    <2> HIDE DEF best
    <2> QED
      BY <1>3, <1>4, <2>1, <2>2
  <1>5. CASE i \notin 1 .. Len(own) /\ Len(all) >= 1
    <2>1. <<Star, 1>> \in Places(t, i) /\ best(<<Star, 1>>)
      BY <1>1, <1>2, <1>5
    <2>2. \A p \in Places(t, i) : best(p) => p = <<Star, 1>>
      BY <1>1, <1>2, <1>5, <2>1
    <2> HIDE DEF best
    <2> QED
      BY <1>3, <1>5, <2>1, <2>2
  <1>6. CASE i \notin 1 .. Len(own) /\ Len(all) = 0
    BY <1>1, <1>2, <1>6
  <1> QED
    BY <1>4, <1>5, <1>6

LEMMA PlacesOfAll ==
    ASSUME NerveTypes, NEW i \in Nat \ {0}
    PROVE  /\ i \in 1 .. Len(subscribers[Star]) => Places(Star, i) # {} /\ NextPlace(Star, i) = <<Star, i>>
           /\ i \notin 1 .. Len(subscribers[Star]) => Places(Star, i) = {}
  <1> DEFINE all == subscribers[Star]
             best(p) == \A q \in Places(Star, i) : (p[1] = Star /\ q[1] # Star) \/ (p[1] = q[1] /\ p[2] <= q[2])
  <1>1. all \in Seq(Callbacks) /\ Len(all) \in Nat
    BY DEF NerveTypes
  <1>2. \A p : p \in Places(Star, i) <=> \E n \in 1 .. Len(all) : n >= i /\ p = <<Star, n>>
    BY <1>1 DEF Places, Registrations
  <1>3. NextPlace(Star, i) = CHOOSE p \in Places(Star, i) : best(p)
    BY DEF NextPlace
  <1>4. CASE i \in 1 .. Len(all)
    <2>1. <<Star, i>> \in Places(Star, i) /\ best(<<Star, i>>)
      BY <1>1, <1>2, <1>4
    <2>2. \A p \in Places(Star, i) : best(p) => p = <<Star, i>>
      BY <1>1, <1>2, <2>1
    <2> HIDE DEF best
    <2> QED
      BY <1>3, <1>4, <2>1, <2>2
  <1>5. CASE i \notin 1 .. Len(all)
    BY <1>1, <1>2, <1>5
  <1> QED
    BY <1>4, <1>5

-----------------------------------------------------------------------------
(* The event bus: invariants. *)

\* The walk of a dispatch loop that is in a callback.
InWalk(r, called, owing, subs) ==
    /\ r.event \in Events
    /\ \/ r.list = TypeOf[r.event] /\ WalksOwn(called, owing, subs[TypeOf[r.event]], subs[Star], r.at)
       \/ r.list = Star /\ WalksAll(called, owing, subs[TypeOf[r.event]], subs[Star], r.at)

InCall(l) == loop[l].pc = "calling"

WalksInv ==
    /\ \A l \in Loops : InCall(l) => InWalk(loop[l], heard[loop[l].event], owed[loop[l].event], subscribers)
    /\ \A e \in done : Walked(heard[e], owed[e], subscribers[TypeOf[e]], subscribers[Star])

\* An event is in one place: once in the queue, or with one loop, or done.  What was
\* taken is owed to someone or done.
EventsInv ==
    /\ \A l \in Loops : InCall(l) => owed[loop[l].event] # <<>> /\ loop[l].event \notin done
    /\ \A l, m \in Loops : InCall(l) /\ InCall(m) /\ loop[l].event = loop[m].event => l = m
    /\ \A i \in 1 .. Len(queue) : owed[queue[i]] = <<>> /\ queue[i] \notin done
    /\ \A i, j \in 1 .. Len(queue) : queue[i] = queue[j] => i = j
    /\ \A e \in Events : owed[e] = <<>> /\ e \notin done => heard[e] = <<>>

\* A loop has taken an event since running was cleared only if running is clear still
\* and the loop is in a callback or over.
LateInv == \A l \in Loops : late[l] = 0 \/ (late[l] = 1 /\ ~running /\ loop[l].pc \in {"calling", "ended"})

NerveInv == NerveTypes /\ WalksInv /\ EventsInv /\ LateInv

\* The lists of an event.
LEMMA ListsOf ==
    ASSUME NerveTypes, NEW e \in Events
    PROVE  /\ subscribers[TypeOf[e]] \in Seq(Callbacks) /\ subscribers[Star] \in Seq(Callbacks)
           /\ TypeOf[e] \in Types /\ TypeOf[e] # Star
  BY TypeOfAssumption, StarAssumption DEF NerveTypes

\* From a place of a walk, the loop goes on to the next callback of event e, or the
\* walk has ended.
LEMMA NextOfWalk ==
    ASSUME NerveTypes, NEW e \in Events, NEW list, NEW i \in Nat, NEW called, NEW owing,
           \/ list = TypeOf[e] /\ WalksOwn(called, owing, subscribers[TypeOf[e]], subscribers[Star], i)
           \/ list = Star /\ WalksAll(called, owing, subscribers[TypeOf[e]], subscribers[Star], i)
    PROVE  /\ Places(list, i + 1) # {} =>
                 LET p == NextPlace(list, i + 1)
                     r == [pc |-> "calling", event |-> e, list |-> p[1], at |-> p[2]]
                 IN  /\ r \in LoopRecord /\ subscribers[p[1]][p[2]] \in Callbacks
                     /\ InWalk(r, Append(called, subscribers[p[1]][p[2]]), owing, subscribers)
           /\ Places(list, i + 1) = {} =>
                 Walked(called, owing, subscribers[TypeOf[e]], subscribers[Star])
  <1> DEFINE own == subscribers[TypeOf[e]]
             all == subscribers[Star]
             rec(t, n) == [pc |-> "calling", event |-> e, list |-> t, at |-> n]
  <1>1. /\ own \in Seq(Callbacks) /\ all \in Seq(Callbacks) /\ TypeOf[e] \in Types /\ TypeOf[e] # Star
        /\ Len(own) \in Nat /\ Len(all) \in Nat /\ i + 1 \in Nat \ {0}
    BY ListsOf
  <1>2. ASSUME NEW t \in Types \cup {Star}, NEW n \in Nat \ {0}, Places(list, i + 1) # {},
               NextPlace(list, i + 1) = <<t, n>>, n \in 1 .. Len(subscribers[t]),
               \/ t = TypeOf[e] /\ WalksOwn(Append(called, own[n]), owing, own, all, n)
               \/ t = Star /\ WalksAll(Append(called, all[n]), owing, own, all, n)
        PROVE  LET p == NextPlace(list, i + 1)
                   r == [pc |-> "calling", event |-> e, list |-> p[1], at |-> p[2]]
               IN  /\ r \in LoopRecord /\ subscribers[p[1]][p[2]] \in Callbacks
                   /\ InWalk(r, Append(called, subscribers[p[1]][p[2]]), owing, subscribers)
    <2>1. rec(t, n) \in LoopRecord /\ subscribers[t][n] \in Callbacks
      BY <1>2 DEF LoopRecord, NerveTypes
    <2>2. InWalk(rec(t, n), Append(called, subscribers[t][n]), owing, subscribers)
      BY <1>2 DEF InWalk
    <2>3. NextPlace(list, i + 1)[1] = t /\ NextPlace(list, i + 1)[2] = n
      BY <1>2
    <2> QED
      BY <2>1, <2>2, <2>3
  <1>3. CASE list = TypeOf[e] /\ WalksOwn(called, owing, own, all, i)
    <2>1. CASE i + 1 \in 1 .. Len(own)
      <3>1. Places(list, i + 1) # {} /\ NextPlace(list, i + 1) = <<TypeOf[e], i + 1>>
        BY <1>1, <1>3, <2>1, PlacesOfOwn
      <3>2. WalksOwn(Append(called, own[i + 1]), owing, own, all, i + 1)
        BY <1>1, <1>3, <2>1, WalkOwn
      <3> QED
        BY <1>1, <1>2, <2>1, <3>1, <3>2
    <2>2. CASE i + 1 \notin 1 .. Len(own) /\ Len(all) >= 1
      <3>1. Places(list, i + 1) # {} /\ NextPlace(list, i + 1) = <<Star, 1>>
        BY <1>1, <1>3, <2>2, PlacesOfOwn
      <3>2. WalksAll(Append(called, all[1]), owing, own, all, 1)
        BY <1>1, <1>3, <2>2, WalkOwn
      <3>3. 1 \in 1 .. Len(all)
        BY <1>1, <2>2
      <3> QED
        BY <1>2, <3>1, <3>2, <3>3
    <2>3. CASE i + 1 \notin 1 .. Len(own) /\ Len(all) = 0
      BY <1>1, <1>3, <2>3, PlacesOfOwn, WalkOwn
    <2> QED
      BY <1>1, <2>1, <2>2, <2>3
  <1>4. CASE list = Star /\ WalksAll(called, owing, own, all, i)
    <2>1. CASE i + 1 \in 1 .. Len(all)
      <3>1. Places(list, i + 1) # {} /\ NextPlace(list, i + 1) = <<Star, i + 1>>
        BY <1>1, <1>4, <2>1, PlacesOfAll
      <3>2. WalksAll(Append(called, all[i + 1]), owing, own, all, i + 1)
        BY <1>1, <1>4, <2>1, WalkAll
      <3> QED
        BY <1>2, <2>1, <3>1, <3>2
    <2>2. CASE i + 1 \notin 1 .. Len(all)
      BY <1>1, <1>4, <2>2, PlacesOfAll, WalkAll
    <2> QED
      BY <2>1, <2>2
  <1> QED
    BY <1>3, <1>4

\* Registering a callback, and emitting an event, keep the invariant.
LEMMA SubscribeKeeps ==
    ASSUME NerveInv, NEW t \in Types \cup {Star}, NEW c \in Callbacks, Subscribe(t, c)
    PROVE  NerveInv'
  <1>1. /\ subscribers' = [subscribers EXCEPT ![t] = Append(@, c)]
        /\ UNCHANGED <<queue, running, loop, heard, owed, done, late>>
    BY DEF Subscribe
  <1>2. subscribers[t] \in Seq(Callbacks) /\ Append(subscribers[t], c) \in Seq(Callbacks)
    BY AppendGrows DEF NerveInv, NerveTypes
  <1>3. NerveTypes'
    BY <1>1, <1>2 DEF NerveInv, NerveTypes
  <1>4. \A u \in Types \cup {Star} : Grown(subscribers'[u], subscribers[u])
    BY <1>1, <1>2, AppendGrows DEF NerveInv, NerveTypes, Grown
  <1>5. WalksInv'
    <2>1. ASSUME NEW e \in Events
          PROVE  /\ subscribers[TypeOf[e]] \in Seq(Callbacks) /\ subscribers[Star] \in Seq(Callbacks)
                 /\ subscribers'[TypeOf[e]] \in Seq(Callbacks) /\ subscribers'[Star] \in Seq(Callbacks)
                 /\ Grown(subscribers'[TypeOf[e]], subscribers[TypeOf[e]])
                 /\ Grown(subscribers'[Star], subscribers[Star])
      BY <1>3, <1>4, TypeOfAssumption DEF NerveInv, NerveTypes
    <2>2. ASSUME NEW l \in Loops, InCall(l)
          PROVE  InWalk(loop[l], heard[loop[l].event], owed[loop[l].event], subscribers')
      <3> DEFINE e == loop[l].event
      <3>1. InWalk(loop[l], heard[e], owed[e], subscribers) /\ e \in Events
        BY <2>2 DEF NerveInv, WalksInv, InWalk
      <3>2. /\ \A i : WalksOwn(heard[e], owed[e], subscribers[TypeOf[e]], subscribers[Star], i) =>
                        WalksOwn(heard[e], owed[e], subscribers'[TypeOf[e]], subscribers'[Star], i)
            /\ \A i : WalksAll(heard[e], owed[e], subscribers[TypeOf[e]], subscribers[Star], i) =>
                        WalksAll(heard[e], owed[e], subscribers'[TypeOf[e]], subscribers'[Star], i)
        <4>1. /\ subscribers[TypeOf[e]] \in Seq(Callbacks) /\ subscribers[Star] \in Seq(Callbacks)
              /\ subscribers'[TypeOf[e]] \in Seq(Callbacks) /\ subscribers'[Star] \in Seq(Callbacks)
              /\ Grown(subscribers'[TypeOf[e]], subscribers[TypeOf[e]])
              /\ Grown(subscribers'[Star], subscribers[Star])
          BY <2>1, <3>1
        <4> HIDE DEF e
        <4> QED
          BY <4>1, WalkGrows
      <3> QED
        BY <3>1, <3>2 DEF InWalk
    <2>3. ASSUME NEW e \in done
          PROVE  Walked(heard[e], owed[e], subscribers'[TypeOf[e]], subscribers'[Star])
      BY <2>1, <2>3, WalkGrows DEF NerveInv, NerveTypes, WalksInv
    <2> QED
      BY <1>1, <2>2, <2>3 DEF WalksInv, InCall
  <1>6. EventsInv' /\ LateInv'
    BY <1>1 DEF NerveInv, EventsInv, LateInv, InCall
  <1> QED
    BY <1>3, <1>5, <1>6 DEF NerveInv

LEMMA EmitKeeps ==
    ASSUME NerveInv, NEW e \in Events, Emit(e)
    PROVE  NerveInv'
  <1>1. /\ queue' = Append(queue, e) /\ e \notin ToSet(queue) /\ e \notin done /\ owed[e] = <<>>
        /\ UNCHANGED <<subscribers, running, loop, heard, owed, done, late>>
    BY DEF Emit, Emitted
  <1>2. queue \in Seq(Events) /\ \A i \in 1 .. Len(queue) : queue[i] # e
    BY <1>1 DEF NerveInv, NerveTypes, ToSet
  <1>3. /\ queue' \in Seq(Events) /\ Len(queue') = Len(queue) + 1 /\ queue'[Len(queue) + 1] = e
        /\ \A i \in 1 .. Len(queue) : queue'[i] = queue[i]
        /\ \A i \in 1 .. Len(queue') : i = Len(queue) + 1 \/ i \in 1 .. Len(queue)
    BY <1>1, <1>2
  <1>4. NerveTypes' /\ WalksInv' /\ LateInv'
    BY <1>1, <1>3 DEF NerveInv, NerveTypes, WalksInv, LateInv, InCall
  <1>5. \A i \in 1 .. Len(queue') : owed[queue'[i]] = <<>> /\ queue'[i] \notin done
    BY <1>1, <1>3 DEF NerveInv, EventsInv
  <1>6. \A i, j \in 1 .. Len(queue') : queue'[i] = queue'[j] => i = j
    BY <1>2, <1>3 DEF NerveInv, EventsInv
  <1>7. EventsInv'
    BY <1>1, <1>5, <1>6 DEF NerveInv, EventsInv, InCall
  <1> QED
    BY <1>4, <1>7 DEF NerveInv

\* A loop that is called back, or ends a fan-out, with an event that no other loop
\* and no place of the queue has.
LEMMA FanOutKeeps ==
    ASSUME NerveInv, NerveTypes', NEW l \in Loops, NEW e \in Events,
           \A m \in Loops : m # l => loop'[m] = loop[m],
           \A m \in Loops : m # l /\ InCall(m) => loop[m].event # e,
           \A d \in Events : d # e => heard'[d] = heard[d] /\ owed'[d] = owed[d],
           \A i \in 1 .. Len(queue') : owed[queue'[i]] = <<>> /\ queue'[i] \notin done /\ queue'[i] # e,
           \A i, j \in 1 .. Len(queue') : queue'[i] = queue'[j] => i = j,
           subscribers' = subscribers, e \notin done,
           \/ /\ InCall(l)' /\ done' = done /\ owed'[e] # <<>> /\ loop'[l].event = e
              /\ InWalk(loop'[l], heard'[e], owed'[e], subscribers)
           \/ /\ ~InCall(l)' /\ done' = done \cup {e}
              /\ Walked(heard'[e], owed'[e], subscribers[TypeOf[e]], subscribers[Star])
    PROVE  WalksInv' /\ EventsInv'
  <1> USE DEF InCall
  <1>1. ASSUME NEW m \in Loops, m # l, InCall(m)
        PROVE  loop[m].event \in Events /\ loop[m].event # e
    BY <1>1 DEF NerveInv, WalksInv, InWalk
  <1>2. ASSUME NEW m \in Loops, InCall(m)'
        PROVE  InWalk(loop'[m], heard'[loop'[m].event], owed'[loop'[m].event], subscribers)
    <2>1. CASE m = l
      BY <1>2, <2>1
    <2>2. CASE m # l
      <3>1. loop'[m] = loop[m] /\ InCall(m) /\ loop[m].event \in Events /\ loop[m].event # e
        BY <1>1, <1>2, <2>2
      <3>2. InWalk(loop[m], heard[loop[m].event], owed[loop[m].event], subscribers)
        BY <3>1 DEF NerveInv, WalksInv
      <3> QED
        BY <3>1, <3>2
    <2> QED
      BY <2>1, <2>2
  <1>3. ASSUME NEW d \in done'
        PROVE  Walked(heard'[d], owed'[d], subscribers[TypeOf[d]], subscribers[Star])
    <2>1. CASE d = e
      BY <1>3, <2>1
    <2>2. CASE d # e
      BY <1>3, <2>2 DEF NerveInv, NerveTypes, WalksInv
    <2> QED
      BY <2>1, <2>2
  <1>4. WalksInv'
    BY <1>2, <1>3 DEF WalksInv
  <1>5. \A m \in Loops : InCall(m)' => owed'[loop'[m].event] # <<>> /\ loop'[m].event \notin done'
    <2> SUFFICES ASSUME NEW m \in Loops, InCall(m)'
                 PROVE  owed'[loop'[m].event] # <<>> /\ loop'[m].event \notin done'
      OBVIOUS
    <2>1. CASE m = l
      BY <2>1
    <2>2. CASE m # l
      <3>1. loop'[m] = loop[m] /\ InCall(m) /\ loop[m].event \in Events /\ loop[m].event # e
        BY <1>1, <2>2
      <3>2. owed[loop[m].event] # <<>> /\ loop[m].event \notin done
        BY <3>1 DEF NerveInv, EventsInv
      <3> QED
        BY <3>1, <3>2
    <2> QED
      BY <2>1, <2>2
  <1>6. \A m, k \in Loops : InCall(m)' /\ InCall(k)' /\ loop'[m].event = loop'[k].event => m = k
    BY <1>1 DEF NerveInv, EventsInv
  <1>7. \A i \in 1 .. Len(queue') : owed'[queue'[i]] = <<>> /\ queue'[i] \notin done'
    <2>1. \A i \in 1 .. Len(queue') : queue'[i] \in Events
      BY DEF NerveTypes
    <2> QED
      BY <2>1
  <1>8. \A d \in Events : owed'[d] = <<>> /\ d \notin done' => heard'[d] = <<>>
    BY DEF NerveInv, EventsInv
  <1> QED
    BY <1>4, <1>5, <1>6, <1>7, <1>8 DEF EventsInv

\* The records that a loop is in.
LEMMA LoopSet ==
    ASSUME NerveTypes, NEW l \in Loops, NEW r \in LoopRecord, loop' = [loop EXCEPT ![l] = r]
    PROVE  /\ loop' \in [Loops -> LoopRecord] /\ loop'[l] = r
           /\ \A m \in Loops : m # l => loop'[m] = loop[m]
  BY DEF NerveTypes

LEMMA BetweenTyped ==
    ASSUME NEW pc \in {"none", "created", "waiting", "calling", "ended"}
    PROVE  Between(pc) \in LoopRecord /\ Between(pc).pc = pc
  BY DEF Between, LoopRecord

LEMMA TakeKeeps ==
    ASSUME NerveInv, NEW l \in Loops, Take(l)
    PROVE  NerveInv'
  <1> DEFINE e == Head(queue)
             t == TypeOf[e]
             all == subscribers[t] \o subscribers[Star]
  <1>1. /\ loop[l].pc = "waiting" /\ queue # <<>>
        /\ queue' = Tail(queue) /\ owed' = [owed EXCEPT ![e] = all]
        /\ late' = IF running THEN late ELSE [late EXCEPT ![l] = @ + 1]
        /\ \/ Places(t, 1) # {} /\ CallAt(l, e, NextPlace(t, 1)) /\ done' = done
           \/ Places(t, 1) = {} /\ GoRound(l) /\ done' = done \cup {e} /\ heard' = heard
        /\ UNCHANGED <<subscribers, running>>
    BY DEF Take
  <1>2. /\ e \in Events /\ queue[1] = e /\ Len(queue) >= 1 /\ Tail(queue) \in Seq(Events)
        /\ Len(Tail(queue)) = Len(queue) - 1 /\ Len(queue) \in Nat
        /\ \A i \in 1 .. Len(Tail(queue)) : Tail(queue)[i] = queue[i + 1] /\ i + 1 \in 1 .. Len(queue)
    BY <1>1 DEF NerveInv, NerveTypes
  <1>3. owed[e] = <<>> /\ e \notin done /\ heard[e] = <<>>
    <2>1. 1 \in 1 .. Len(queue)
      BY <1>2
    <2> QED
      BY <1>2, <2>1 DEF NerveInv, EventsInv
  <1>4. /\ subscribers[t] \in Seq(Callbacks) /\ subscribers[Star] \in Seq(Callbacks)
        /\ t \in Types /\ t # Star /\ all \in Seq(Callbacks)
    BY <1>2, ListsOf DEF NerveInv
  <1> HIDE DEF e, t
  <1>5. WalksOwn(<<>>, all, subscribers[t], subscribers[Star], 0)
    <2>1. Joined(<<>>, subscribers[t], 0, subscribers[Star], 0)
      BY DEF Joined
    <2>2. Joined(all, subscribers[t], Len(subscribers[t]), subscribers[Star], Len(subscribers[Star]))
      BY <1>4, JoinedWhole
    <2> QED
      BY <1>4, <2>1, <2>2 DEF WalksOwn, Owes
  <1>6. all = <<>> => Places(t, 1) = {}
    <2>1. all = <<>> => Len(subscribers[t]) = 0 /\ Len(subscribers[Star]) = 0
      BY <1>4
    <2> QED
      BY <1>4, <2>1, PlacesOfOwn DEF NerveInv
  <1> HIDE DEF all
  <1>7. /\ \A i \in 1 .. Len(queue') : owed[queue'[i]] = <<>> /\ queue'[i] \notin done /\ queue'[i] # e
        /\ \A i, j \in 1 .. Len(queue') : queue'[i] = queue'[j] => i = j
    <2>1. ASSUME NEW i \in 1 .. Len(queue')
          PROVE  /\ queue'[i] = queue[i + 1] /\ i + 1 \in 1 .. Len(queue)
                 /\ owed[queue'[i]] = <<>> /\ queue'[i] \notin done
      BY <1>1, <1>2 DEF NerveInv, EventsInv
    <2>2. ASSUME NEW i \in 1 .. Len(queue') PROVE queue'[i] # e
      <3>1. 1 \in 1 .. Len(queue) /\ i + 1 # 1
        BY <1>2
      <3> QED
        BY <1>2, <2>1, <3>1 DEF NerveInv, EventsInv
    <2>3. ASSUME NEW i \in 1 .. Len(queue'), NEW j \in 1 .. Len(queue'), queue'[i] = queue'[j] PROVE i = j
      <3>1. i + 1 = j + 1
        BY <2>1, <2>3 DEF NerveInv, EventsInv
      <3> QED
        BY <3>1
    <2> QED
      BY <2>1, <2>2, <2>3
  <1>8. \A m \in Loops : InCall(m) => loop[m].event # e
    BY <1>3 DEF NerveInv, EventsInv
  <1>9. /\ owed' \in [Events -> Seq(Callbacks)] /\ owed'[e] = all
        /\ \A d \in Events : d # e => owed'[d] = owed[d]
    BY <1>1, <1>2, <1>4 DEF NerveInv, NerveTypes
  <1>10. late' \in [Loops -> Nat]
    BY <1>1 DEF NerveInv, NerveTypes
  <1>13. /\ late'[l] = IF running THEN 0 ELSE 1
         /\ \A m \in Loops : m # l => late'[m] = late[m]
         /\ running => late'[l] = 0 /\ late' = late
         /\ running' = running
    <2>1. late[l] = 0 /\ late \in [Loops -> Nat] /\ running \in BOOLEAN
      BY <1>1 DEF NerveInv, NerveTypes, LateInv
    <2>2. CASE running
      BY <1>1, <2>1, <2>2
    <2>3. CASE ~running
      BY <1>1, <2>1, <2>3
    <2> QED
      BY <2>1, <2>2, <2>3
  <1>14. e \in Events /\ e \notin done /\ subscribers' = subscribers
    BY <1>1, <1>2, <1>3
  <1>11. CASE Places(t, 1) # {} /\ CallAt(l, e, NextPlace(t, 1)) /\ done' = done
    <2> DEFINE p == NextPlace(t, 1)
               r == [pc |-> "calling", event |-> e, list |-> p[1], at |-> p[2]]
               c == subscribers[p[1]][p[2]]
    <2>1. r \in LoopRecord /\ c \in Callbacks /\ InWalk(r, Append(<<>>, c), all, subscribers)
      <3>1. Places(t, 0 + 1) # {}
        BY <1>11
      <3>2. LET q == NextPlace(t, 0 + 1)
                s == [pc |-> "calling", event |-> e, list |-> q[1], at |-> q[2]]
            IN  s \in LoopRecord /\ subscribers[q[1]][q[2]] \in Callbacks
                /\ InWalk(s, Append(<<>>, subscribers[q[1]][q[2]]), all, subscribers)
        BY <1>2, <1>5, <3>1, NextOfWalk DEF NerveInv, t
      <3> QED
        BY <3>2
    <2>2. loop' = [loop EXCEPT ![l] = r] /\ heard' = [heard EXCEPT ![e] = Append(@, c)]
      BY <1>11 DEF CallAt
    <2>3. r.pc = "calling" /\ r.event = e
      OBVIOUS
    <2> HIDE DEF c, r
    <2>4. /\ heard' \in [Events -> Seq(Callbacks)] /\ heard'[e] = Append(<<>>, c)
          /\ \A d \in Events : d # e => heard'[d] = heard[d]
      BY <1>2, <1>3, <2>1, <2>2, AppendGrows DEF NerveInv, NerveTypes
    <2>5. /\ loop' \in [Loops -> LoopRecord] /\ loop'[l] = r
          /\ \A m \in Loops : m # l => loop'[m] = loop[m]
      BY <2>1, <2>2, LoopSet DEF NerveInv
    <2>6. NerveTypes'
      BY <1>1, <1>2, <1>9, <1>10, <1>11, <2>4, <2>5 DEF NerveInv, NerveTypes
    <2>7. WalksInv' /\ EventsInv'
      <3>1. /\ InCall(l)' /\ done' = done /\ owed'[e] # <<>> /\ loop'[l].event = e
            /\ InWalk(loop'[l], heard'[e], owed'[e], subscribers)
        BY <1>6, <1>9, <1>11, <2>1, <2>3, <2>4, <2>5 DEF InCall
      <3> QED
        BY <1>7, <1>8, <1>9, <1>14, <2>4, <2>5, <2>6, <3>1, FanOutKeeps
    <2>8. LateInv'
      BY <1>13, <2>3, <2>5 DEF NerveInv, LateInv
    <2> QED
      BY <2>6, <2>7, <2>8 DEF NerveInv
  <1>12. CASE Places(t, 1) = {} /\ GoRound(l) /\ done' = done \cup {e} /\ heard' = heard
    <2> DEFINE r == Between(IF running THEN "waiting" ELSE "ended")
    <2>1. r \in LoopRecord /\ r.pc = IF running THEN "waiting" ELSE "ended"
      BY BetweenTyped
    <2>2. loop' = [loop EXCEPT ![l] = r]
      BY <1>12 DEF GoRound
    <2> HIDE DEF r
    <2>3. /\ loop' \in [Loops -> LoopRecord] /\ loop'[l] = r
          /\ \A m \in Loops : m # l => loop'[m] = loop[m]
      BY <2>1, <2>2, LoopSet DEF NerveInv
    <2>4. NerveTypes'
      BY <1>1, <1>2, <1>9, <1>10, <1>12, <2>3 DEF NerveInv, NerveTypes
    <2>5. Walked(<<>>, all, subscribers[t], subscribers[Star])
      <3>1. Places(t, 0 + 1) = {}
        BY <1>12
      <3> QED
        BY <1>2, <1>5, <3>1, NextOfWalk DEF NerveInv, t
    <2>6. ~InCall(l)'
      BY <2>1, <2>3 DEF InCall
    <2>7. WalksInv' /\ EventsInv'
      <3>1. /\ ~InCall(l)' /\ done' = done \cup {e}
            /\ Walked(heard'[e], owed'[e], subscribers[TypeOf[e]], subscribers[Star])
        BY <1>3, <1>9, <1>12, <2>5, <2>6 DEF t
      <3>2. \A d \in Events : d # e => heard'[d] = heard[d] /\ owed'[d] = owed[d]
        BY <1>9, <1>12
      <3> QED
        BY <1>7, <1>8, <1>14, <2>3, <2>4, <3>1, <3>2, FanOutKeeps
    <2>8. LateInv'
      BY <1>13, <2>1, <2>3 DEF NerveInv, LateInv
    <2> QED
      BY <2>4, <2>7, <2>8 DEF NerveInv
  <1> QED
    BY <1>1, <1>11, <1>12

LEMMA CallbackEndsKeeps ==
    ASSUME NerveInv, NEW l \in Loops, CallbackEnds(l)
    PROVE  NerveInv'
  <1> DEFINE e == loop[l].event
             t == loop[l].list
             i == loop[l].at
             called == heard[e]
             owing == owed[e]
  <1>1. /\ InCall(l) /\ UNCHANGED <<queue, subscribers, running, owed, late>>
        /\ \/ Places(t, i + 1) # {} /\ CallAt(l, e, NextPlace(t, i + 1)) /\ done' = done
           \/ Places(t, i + 1) = {} /\ GoRound(l) /\ done' = done \cup {e} /\ heard' = heard
    BY DEF CallbackEnds, InCall
  <1>2. InWalk(loop[l], called, owing, subscribers) /\ e \in Events /\ i \in Nat /\ called \in Seq(Callbacks)
    BY <1>1 DEF NerveInv, NerveTypes, LoopRecord, WalksInv, InWalk
  <1>3. /\ \/ t = TypeOf[e] /\ WalksOwn(called, owing, subscribers[TypeOf[e]], subscribers[Star], i)
           \/ t = Star /\ WalksAll(called, owing, subscribers[TypeOf[e]], subscribers[Star], i)
    BY <1>2 DEF InWalk
  <1>4. e \notin done /\ owed[e] # <<>>
    BY <1>1 DEF NerveInv, EventsInv
  <1>5. \A m \in Loops : m # l /\ InCall(m) => loop[m].event # e
    BY <1>1 DEF NerveInv, EventsInv
  <1>6. /\ \A j \in 1 .. Len(queue') : owed[queue'[j]] = <<>> /\ queue'[j] \notin done /\ queue'[j] # e
        /\ \A j, k \in 1 .. Len(queue') : queue'[j] = queue'[k] => j = k
    BY <1>1, <1>4 DEF NerveInv, EventsInv
  <1>7. /\ late[l] = 0 \/ ~running
        /\ UNCHANGED <<late, running>>
    BY <1>1 DEF NerveInv, LateInv
  <1>8. /\ subscribers' = subscribers /\ owed'[e] = owing
        /\ \A d \in Events : owed'[d] = owed[d]
    BY <1>1
  <1>9. CASE Places(t, i + 1) # {} /\ CallAt(l, e, NextPlace(t, i + 1)) /\ done' = done
    <2> DEFINE p == NextPlace(t, i + 1)
               r == [pc |-> "calling", event |-> e, list |-> p[1], at |-> p[2]]
               c == subscribers[p[1]][p[2]]
    <2>1. r \in LoopRecord /\ c \in Callbacks /\ InWalk(r, Append(called, c), owing, subscribers)
      <3> HIDE DEF e, t, i, called, owing
      <3> QED
        BY <1>2, <1>3, <1>9, NextOfWalk DEF NerveInv
    <2>2. loop' = [loop EXCEPT ![l] = r] /\ heard' = [heard EXCEPT ![e] = Append(@, c)]
      BY <1>9 DEF CallAt
    <2>3. r.pc = "calling" /\ r.event = e
      OBVIOUS
    <2> HIDE DEF c, r
    <2>4. /\ heard' \in [Events -> Seq(Callbacks)] /\ heard'[e] = Append(called, c)
          /\ \A d \in Events : d # e => heard'[d] = heard[d]
      BY <1>2, <2>1, <2>2, AppendGrows DEF NerveInv, NerveTypes
    <2>5. /\ loop' \in [Loops -> LoopRecord] /\ loop'[l] = r
          /\ \A m \in Loops : m # l => loop'[m] = loop[m]
      BY <2>1, <2>2, LoopSet DEF NerveInv
    <2>6. NerveTypes'
      BY <1>1, <1>9, <2>4, <2>5 DEF NerveInv, NerveTypes
    <2>7. /\ InCall(l)' /\ done' = done /\ owed'[e] # <<>> /\ loop'[l].event = e
          /\ InWalk(loop'[l], heard'[e], owed'[e], subscribers)
      BY <1>4, <1>8, <1>9, <2>1, <2>3, <2>4, <2>5 DEF InCall
    <2>8. WalksInv' /\ EventsInv'
      <3>1. e \in Events /\ e \notin done /\ subscribers' = subscribers
        BY <1>2, <1>4, <1>8
      <3>2. \A d \in Events : d # e => heard'[d] = heard[d] /\ owed'[d] = owed[d]
        BY <1>8, <2>4
      <3>3. \A m \in Loops : m # l => loop'[m] = loop[m]
        BY <2>5
      <3> HIDE DEF e, t, i, called, owing
      <3> QED
        BY <1>5, <1>6, <2>6, <2>7, <3>1, <3>2, <3>3, FanOutKeeps
    <2>9. LateInv'
      BY <1>7, <2>3, <2>5 DEF NerveInv, LateInv
    <2> QED
      BY <2>6, <2>8, <2>9 DEF NerveInv
  <1>10. CASE Places(t, i + 1) = {} /\ GoRound(l) /\ done' = done \cup {e} /\ heard' = heard
    <2> DEFINE r == Between(IF running THEN "waiting" ELSE "ended")
    <2>1. r \in LoopRecord /\ r.pc = IF running THEN "waiting" ELSE "ended"
      BY BetweenTyped
    <2>2. loop' = [loop EXCEPT ![l] = r]
      BY <1>10 DEF GoRound
    <2> HIDE DEF r
    <2>3. /\ loop' \in [Loops -> LoopRecord] /\ loop'[l] = r
          /\ \A m \in Loops : m # l => loop'[m] = loop[m]
      BY <2>1, <2>2, LoopSet DEF NerveInv
    <2>4. NerveTypes'
      BY <1>1, <1>2, <1>10, <2>3 DEF NerveInv, NerveTypes
    <2>5. Walked(called, owing, subscribers[TypeOf[e]], subscribers[Star])
      <3> HIDE DEF e, t, i, called, owing
      <3> QED
        BY <1>2, <1>3, <1>10, NextOfWalk DEF NerveInv
    <2>6. /\ ~InCall(l)' /\ done' = done \cup {e}
          /\ Walked(heard'[e], owed'[e], subscribers[TypeOf[e]], subscribers[Star])
      BY <1>8, <1>10, <2>1, <2>3, <2>5 DEF InCall
    <2>7. \A d \in Events : d # e => heard'[d] = heard[d] /\ owed'[d] = owed[d]
      BY <1>8, <1>10
    <2>8. WalksInv' /\ EventsInv'
      <3> HIDE DEF e, t, i, called, owing
      <3> QED
        BY <1>2, <1>4, <1>5, <1>6, <1>8, <2>3, <2>4, <2>6, <2>7, FanOutKeeps
    <2>9. LateInv'
      BY <1>7, <2>1, <2>3 DEF NerveInv, LateInv
    <2> QED
      BY <2>4, <2>8, <2>9 DEF NerveInv
  <1> QED
    BY <1>1, <1>9, <1>10

\* A loop that starts, begins or is cancelled takes and calls nothing.
LEMMA LoopLeaves ==
    ASSUME NerveInv, NEW l \in Loops, NEW pc \in {"created", "waiting", "ended"},
           loop' = [loop EXCEPT ![l] = Between(pc)],
           UNCHANGED <<queue, subscribers, heard, owed, done>>
    PROVE  /\ loop' \in [Loops -> LoopRecord] /\ loop'[l].pc = pc
           /\ \A m \in Loops : m # l => loop'[m] = loop[m]
           /\ WalksInv' /\ EventsInv'
  <1>1. Between(pc) \in LoopRecord /\ Between(pc).pc = pc
    BY BetweenTyped
  <1>2. /\ loop' \in [Loops -> LoopRecord] /\ loop'[l] = Between(pc)
        /\ \A m \in Loops : m # l => loop'[m] = loop[m]
    BY <1>1, LoopSet DEF NerveInv
  <1>3. \A m \in Loops : InCall(m)' => InCall(m) /\ loop'[m] = loop[m]
    BY <1>1, <1>2 DEF InCall
  <1>4. WalksInv'
    BY <1>3 DEF NerveInv, WalksInv
  <1>5. EventsInv'
    BY <1>3 DEF NerveInv, EventsInv
  <1> QED
    BY <1>1, <1>2, <1>4, <1>5

LEMMA NerveStep ==
    ASSUME NerveInv, [NerveNext]_nerve
    PROVE  NerveInv'
  <1>1. ASSUME NEW l \in Loops, Initialize(l) PROVE NerveInv'
    <2>1. /\ loop[l].pc = "none" /\ loop' = [loop EXCEPT ![l] = Between("created")]
          /\ UNCHANGED <<queue, subscribers, running, heard, owed, done, late>>
      BY <1>1 DEF Initialize
    <2>2. /\ loop' \in [Loops -> LoopRecord] /\ loop'[l].pc = "created"
          /\ \A m \in Loops : m # l => loop'[m] = loop[m]
          /\ WalksInv' /\ EventsInv'
      BY <2>1, LoopLeaves
    <2>3. NerveTypes'
      BY <2>1, <2>2 DEF NerveInv, NerveTypes
    <2>4. LateInv'
      BY <2>1, <2>2 DEF NerveInv, LateInv
    <2> QED
      BY <2>2, <2>3, <2>4 DEF NerveInv
  <1>2. ASSUME NEW l \in Loops, Begin(l) PROVE NerveInv'
    <2>1. /\ loop' = [loop EXCEPT ![l] = Between("waiting")]
          /\ running' = TRUE /\ late' = [k \in Loops |-> 0]
          /\ UNCHANGED <<queue, subscribers, heard, owed, done>>
      BY <1>2 DEF Begin
    <2>2. loop' \in [Loops -> LoopRecord] /\ WalksInv' /\ EventsInv'
      BY <2>1, LoopLeaves
    <2>3. NerveTypes' /\ LateInv'
      BY <2>1, <2>2 DEF NerveInv, NerveTypes, LateInv
    <2> QED
      BY <2>2, <2>3 DEF NerveInv
  <1>3. ASSUME NEW l \in Loops, CallbackCancelled(l) PROVE NerveInv'
    <2>1. /\ loop' = [loop EXCEPT ![l] = Between("ended")] /\ running' = FALSE
          /\ UNCHANGED <<queue, subscribers, heard, owed, done, late>>
      BY <1>3 DEF CallbackCancelled
    <2>2. /\ loop' \in [Loops -> LoopRecord] /\ loop'[l].pc = "ended"
          /\ \A m \in Loops : m # l => loop'[m] = loop[m]
          /\ WalksInv' /\ EventsInv'
      BY <2>1, LoopLeaves
    <2>3. NerveTypes'
      BY <2>1, <2>2 DEF NerveInv, NerveTypes
    <2>4. LateInv'
      BY <2>1, <2>2 DEF NerveInv, LateInv
    <2> QED
      BY <2>2, <2>3, <2>4 DEF NerveInv
  <1>4. CASE Stop
    BY <1>4 DEF Stop, NerveInv, NerveTypes, WalksInv, EventsInv, LateInv, InCall
  <1>5. CASE FileEvent
    BY <1>5 DEF FileEvent, NerveInv, NerveTypes, WalksInv, EventsInv, LateInv, InCall
  <1>6. CASE UNCHANGED nerve
    BY <1>6 DEF nerve, NerveInv, NerveTypes, WalksInv, EventsInv, LateInv, InCall
  <1> QED
    BY <1>1, <1>2, <1>3, <1>4, <1>5, <1>6, SubscribeKeeps, EmitKeeps, TakeKeeps, CallbackEndsKeeps
    DEF NerveNext, Dispatch

LEMMA NerveStarts == NerveInit => NerveInv
  <1> SUFFICES ASSUME NerveInit PROVE NerveInv
    OBVIOUS
  <1>1. Between("none") \in LoopRecord /\ Between("none").pc = "none"
    BY BetweenTyped
  <1>2. \A l \in Loops : loop[l].pc = "none"
    BY <1>1 DEF NerveInit
  <1>3. NerveTypes
    <2>1. /\ queue \in Seq(Events)
          /\ running \in BOOLEAN
          /\ done \subseteq Events
      <3>1. <<>> \in Seq(Events)
        OBVIOUS
      <3>2. queue \in Seq(Events)
        BY <3>1 DEF NerveInit
      <3>3. running \in BOOLEAN /\ done \subseteq Events
        BY Zenon DEF NerveInit
      <3> QED
        BY <3>2, <3>3
    <2>2. <<>> \in Seq(Callbacks)
      OBVIOUS
    <2>3. subscribers \in [Types \cup {Star} -> Seq(Callbacks)]
      BY <2>2 DEF NerveInit
    <2>4. heard \in [Events -> Seq(Callbacks)] /\ owed \in [Events -> Seq(Callbacks)]
      BY <2>2 DEF NerveInit
    <2>5. late \in [Loops -> Nat] /\ loop \in [Loops -> LoopRecord]
      BY <1>1 DEF NerveInit
    <2> QED
      BY <2>1, <2>3, <2>4, <2>5 DEF NerveTypes
  <1>4. WalksInv /\ EventsInv /\ LateInv
    BY <1>2 DEF NerveInit, WalksInv, EventsInv, LateInv, InCall
  <1> QED
    BY <1>3, <1>4 DEF NerveInv

\* Events, walks and loops agree, however programs register, emit, start and stop
\* between any two callbacks (EventBus and its dispatch loops).
THEOREM NerveConsistent == NerveSpec => []NerveInv
  BY NerveStarts, NerveStep, PTL DEF NerveSpec

\* A fan-out that ends has called whom it owed the event, each as often as registered
\* when it was taken and no more often than now, for any callbacks, types, events and
\* loops (EventBus.start_dispatch_loop).
THEOREM FanOutsComplete == NerveSpec => []FanOutComplete
  <1>1. NerveInv => FanOutComplete
    <2> SUFFICES ASSUME NerveInv, NEW e \in done, NEW c \in Callbacks
                 PROVE  /\ Times(owed[e], c) <= Times(heard[e], c)
                        /\ Times(heard[e], c) <= Times(subscribers[TypeOf[e]] \o subscribers[Star], c)
      <3>1. ASSUME NEW S, NEW T PROVE Cardinality(S) >= Cardinality(T) <=> Cardinality(T) <= Cardinality(S)
        OBVIOUS
      <3> QED
        BY <3>1 DEF FanOutComplete, Times
    <2>1. e \in Events
      BY DEF NerveInv, NerveTypes
    <2>2. subscribers[TypeOf[e]] \in Seq(Callbacks) /\ subscribers[Star] \in Seq(Callbacks)
      BY <2>1, ListsOf DEF NerveInv
    <2>3. Walked(heard[e], owed[e], subscribers[TypeOf[e]], subscribers[Star])
      BY DEF NerveInv, WalksInv
    <2> QED
      BY <2>2, <2>3, WalkedTimes
  <1> QED
    BY <1>1, NerveConsistent, PTL

\* After stop() each dispatch loop takes one more event at most, for any number of
\* loops and events (EventBus.stop, which wakes nobody).
THEOREM StopsBound == NerveSpec => []StopBound
  <1>1. NerveInv => StopBound
    BY DEF NerveInv, LateInv, StopBound
  <1> QED
    BY <1>1, NerveConsistent, PTL

-----------------------------------------------------------------------------
(* The Sovereign. *)

\* Where a loop ends: it goes on while there are iterations left, and then where
\* it was given up or approved.
LEMMA IterateBounds ==
    ASSUME NEW from \in 0 .. MaxIterations
    PROVE  /\ Iterate(from)[1] = Iterate(from)[2]
           /\ Iterate(from)[1] \in from .. MaxIterations
           /\ from < MaxIterations => from < Iterate(from)[1]
  <1>1. CASE from = MaxIterations
    BY <1>1, IterationsAssumption DEF Iterate
  <1>2. CASE from < MaxIterations
    <2> DEFINE ends == {i \in from + 1 .. MaxIterations : ~Flawed(i) \/ i = MaxIterations}
               least == IF from = 0 /\ MaxIterations > 1 THEN 2 ELSE from + 1
    <2>1. least \in ends /\ \A i \in ends : least <= i
      BY <1>2, IterationsAssumption DEF Flawed
    <2>2. ends \subseteq from + 1 .. MaxIterations
      OBVIOUS
    <2> HIDE DEF ends
    <2>3. Min(ends) \in ends
      BY <2>1 DEF Min
    <2>4. Min(ends) \in from + 1 .. MaxIterations
      BY <2>2, <2>3
    <2>5. Iterate(from) = <<Min(ends), Min(ends)>>
      BY <1>2, IterationsAssumption DEF Iterate, ends
    <2> QED
      BY <2>4, <2>5, IterationsAssumption
  <1> QED
    BY <1>1, <1>2, IterationsAssumption

\* Every iteration invokes the Executor once, and the answer at hand is that of
\* its goal unless the iterations are used up.
SwarmInv ==
    /\ iterations \in 0 .. MaxIterations
    /\ invoked = iterations
    /\ result.implementation # result.goal => iterations = MaxIterations

\* The index has every node under each of its tags and no other.
GraphInv ==
    /\ nodes \in [Stored -> [tier : Tiers, tags : SUBSET Tags]]
    /\ byTag = [t \in Tags |-> {n \in Stored : t \in nodes[n].tags}]

LEMMA LoopSpends ==
    ASSUME SwarmInv, NEW g, Loop(g)
    PROVE  /\ iterations' \in 0 .. MaxIterations /\ invoked' = iterations'
           /\ context'.implementation # g => iterations = MaxIterations
           /\ iterations = MaxIterations => iterations' = MaxIterations
  <1> DEFINE last == Iterate(iterations)[2]
  <1>1. /\ Iterate(iterations)[1] = last
        /\ last \in iterations .. MaxIterations
        /\ iterations < MaxIterations => iterations < last
    BY IterateBounds DEF SwarmInv
  <1>2. /\ iterations' = Iterate(iterations)[1]
        /\ invoked' = invoked + (last - iterations)
        /\ context'.implementation = IF last > iterations THEN g ELSE context.implementation
    BY DEF Loop
  <1> HIDE DEF last
  <1> QED
    BY <1>1, <1>2, IterationsAssumption DEF SwarmInv

LEMMA SwarmStep ==
    ASSUME SwarmInv, [SovereignNext]_sovereign
    PROVE  SwarmInv'
  <1>1. ASSUME NEW g, RunLoop(g) PROVE SwarmInv'
    <2>1. result' = [goal |-> g, implementation |-> context'.implementation, critique |-> context'.critique]
      BY <1>1 DEF RunLoop
    <2>2. result'.goal = g /\ result'.implementation = context'.implementation
      BY <2>1
    <2> QED
      BY <1>1, <2>2, LoopSpends DEF RunLoop, SwarmInv
  <1>2. ASSUME NEW g, ExecuteOmegaTask(g) PROVE SwarmInv'
    BY <1>2, LoopSpends DEF ExecuteOmegaTask, SwarmInv
  <1>3. CASE UNCHANGED engine
    BY <1>3 DEF engine, SwarmInv
  <1>4. CASE UNCHANGED sovereign
    BY <1>4 DEF sovereign, SwarmInv
  <1> QED
    BY <1>1, <1>2, <1>3, <1>4 DEF SovereignNext, RunAutonomousCycle, Commit, LinkNodes, DistillLessons

\* New nodes are put under their tags.
LEMMA IndexedNodes ==
    ASSUME GraphInv, NEW new, NEW tier, NEW tags \in [new -> SUBSET Tags], tier \in Tiers,
           new \cap Stored = {},
           nodes' = [m \in Stored \cup new |-> IF m \in new THEN [tier |-> tier, tags |-> tags[m]] ELSE nodes[m]],
           byTag' = Indexed(new, tags)
    PROVE  GraphInv'
  <1>1. Stored' = Stored \cup new
    BY DEF Stored
  <1>2. \A m \in Stored' : nodes'[m] = IF m \in new THEN [tier |-> tier, tags |-> tags[m]] ELSE nodes[m]
    BY <1>1
  <1>3. nodes' \in [Stored' -> [tier : Tiers, tags : SUBSET Tags]]
    BY <1>1 DEF GraphInv
  <1>4. ASSUME NEW t \in Tags PROVE byTag[t] \cup {n \in new : t \in tags[n]} = {n \in Stored' : t \in nodes'[n].tags}
    BY <1>1, <1>2 DEF GraphInv
  <1> QED
    BY <1>3, <1>4 DEF GraphInv, Indexed

LEMMA GraphStep ==
    ASSUME GraphInv, [SovereignNext]_sovereign
    PROVE  GraphInv'
  <1>1. ASSUME NEW n \in Nodes, NEW tier \in Tiers, NEW tags \in SUBSET Tags, Commit(n, tier, tags)
        PROVE  GraphInv'
    <2> DEFINE all == [m \in {n} |-> tags]
    <2>1. all \in [{n} -> SUBSET Tags] /\ {n} \cap Stored = {}
      BY <1>1 DEF Commit
    <2>2. nodes' = [m \in Stored \cup {n} |-> IF m \in {n} THEN [tier |-> tier, tags |-> all[m]] ELSE nodes[m]]
      BY <1>1 DEF Commit
    <2>3. byTag' = Indexed({n}, all)
      BY <1>1 DEF Commit
    <2> HIDE DEF all
    <2> QED
      BY <2>1, <2>2, <2>3, IndexedNodes
  <1>2. ASSUME NEW rules, rules \in UNION {[1 .. k -> Nodes] : k \in 1 .. 2},
               NEW tags \in [Nodes -> SUBSET Tags], DistillLessons(rules, tags)
        PROVE  GraphInv'
    <2>1. PICK k \in 0 .. Len(rules) :
             LET kept == {rules[i] : i \in 1 .. k} IN
             /\ nodes' = [m \in Stored \cup kept |->
                             IF m \in kept THEN [tier |-> "semantic", tags |-> tags[m]] ELSE nodes[m]]
             /\ byTag' = Indexed(kept, tags)
      BY <1>2 DEF DistillLessons
    <2> DEFINE kept == {rules[i] : i \in 1 .. k}
               given == [m \in kept |-> tags[m]]
    <2>2. kept \cap Stored = {} /\ kept \subseteq Nodes
      <3>1. PICK j \in 1 .. 2 : rules \in [1 .. j -> Nodes]
        BY <1>2
      <3>2. Len(rules) = j
        BY <3>1
      <3>3. ToSet(rules) \cap Stored = {}
        BY <1>2 DEF DistillLessons
      <3>4. kept \subseteq ToSet(rules) /\ kept \subseteq Nodes
        BY <3>1, <3>2 DEF ToSet
      <3> QED
        BY <3>3, <3>4
    <2>3. given \in [kept -> SUBSET Tags] /\ "semantic" \in Tiers
      BY <2>2 DEF Tiers
    <2>4. nodes' = [m \in Stored \cup kept |->
                       IF m \in kept THEN [tier |-> "semantic", tags |-> given[m]] ELSE nodes[m]]
      BY <2>1
    <2>5. byTag' = Indexed(kept, given)
      <3>1. \A t \in Tags : {n \in kept : t \in tags[n]} = {n \in kept : t \in given[n]}
        OBVIOUS
      <3> QED
        BY <2>1, <3>1 DEF Indexed
    <2> HIDE DEF kept, given
    <2> QED
      BY <2>2, <2>3, <2>4, <2>5, IndexedNodes
  <1>3. CASE UNCHANGED <<nodes, byTag>>
    BY <1>3 DEF GraphInv, Stored
  <1>4. CASE UNCHANGED sovereign
    BY <1>3, <1>4 DEF sovereign
  <1> QED
    BY <1>1, <1>2, <1>3, <1>4
    DEF SovereignNext, RunLoop, ExecuteOmegaTask, RunAutonomousCycle, LinkNodes, graph

\* The Executor is never invoked more often than MaxIterations, and no goal gets
\* another's implementation while iterations are left, for any goals
\* (SwarmEngine.run_loop, which resets neither its count nor its context).
THEOREM SwarmBounded == SovereignSpec => []SwarmBudget
  <1>1. SovereignInit => SwarmInv
    BY IterationsAssumption DEF SovereignInit, SwarmInv
  <1>2. SwarmInv /\ [SovereignNext]_sovereign => SwarmInv'
    BY SwarmStep
  <1>3. SwarmInv => SwarmBudget
    BY IterationsAssumption DEF SwarmInv, SwarmBudget
  <1> QED
    BY <1>1, <1>2, <1>3, PTL DEF SovereignSpec

\* A query by tags finds the nodes that carry one of them and no others, for any
\* nodes and tags (SovereignMemory.commit, distill_lessons and query).
THEOREM QueriesFind == SovereignSpec => []TagsFind
  <1>1. SovereignInit => GraphInv
    BY DEF SovereignInit, GraphInv, Stored
  <1>2. GraphInv /\ [SovereignNext]_sovereign => GraphInv'
    BY GraphStep
  <1>3. GraphInv => TagsFind
    <2> SUFFICES ASSUME GraphInv, NEW tags \in SUBSET Tags, NEW tiers \in SUBSET Tiers
                 PROVE  Candidates(tags, tiers) = {n \in Stored : nodes[n].tags \cap tags # {} /\ nodes[n].tier \in tiers}
      BY DEF TagsFind
    <2>1. UNION {byTag[t] : t \in tags} = {n \in Stored : nodes[n].tags \cap tags # {}}
      BY DEF GraphInv
    <2> QED
      BY <2>1 DEF Candidates
  <1> QED
    BY <1>1, <1>2, <1>3, PTL DEF SovereignSpec

=============================================================================
