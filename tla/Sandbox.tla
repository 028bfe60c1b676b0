------------------------------- MODULE Sandbox -------------------------------
(***************************************************************************)
(* Shell commands of the agent's tools: computer.run_shell sends a command *)
(* to the E2B cloud sandbox when one is configured and runs it on the host *)
(* when that fails before the command could start.  Tools run in a thread  *)
(* pool, the wrapper E2BSandbox is a process-wide singleton and nothing in *)
(* it is locked, so every read of an attribute is a step of its own.       *)
(*                                                                         *)
(* A box is a remote sandbox, a wrapper an E2BSandbox object.  Boxes and   *)
(* wrappers are numbered as they are made; MaxBoxes, MaxWraps and MaxCalls *)
(* bound how many.                                                         *)
(***************************************************************************)
EXTENDS Integers, FiniteSets

CONSTANTS Threads, MaxBoxes, MaxWraps, MaxCalls

ASSUME BoundsAssumption == {MaxBoxes, MaxWraps, MaxCalls} \subseteq Nat

(* The pool of threads is bounded.                                          *)
ASSUME ThreadsAssumption == IsFiniteSet(Threads)

VARIABLES
  singleton,  \* _e2b_sandbox_instance: a wrapper, or 0 for None
  wraps,      \* the sequence number of the last wrapper made
  handle,     \* E2BSandbox._sandbox of each wrapper: a box, or 0
  created,    \* E2BSandbox._sandbox_created of each wrapper
  boxes,      \* the last box made
  remote,     \* what the service says of each box
  thread,     \* each thread: where it is, with which wrapper and box
  calls,      \* how many calls were made
  \* history
  ran,        \* where the command of each thread's call has run
  overlaps,   \* how many calls began while another was under way
  unkilled    \* boxes the service refused to kill

sandbox == <<singleton, wraps, handle, created, boxes, remote, thread, calls,
          ran, overlaps, unkilled>>
wrapper == <<singleton, wraps, handle, created>>

None == 0
Wraps == 1 .. MaxWraps
Boxes == 1 .. MaxBoxes
OnHost == -1  \* where a command runs that does not run in a box
Idle == [at |-> "idle", op |-> "none", wrap |-> None, box |-> None]

Live == {b \in Boxes : remote[b] = "live"}

(* The operations.  "shell" is computer.run_shell, which falls back to the *)
(* host; "direct" stands for run_python, write_file, read_file and         *)
(* list_files, which do not; "kill" is kill, __exit__ or reset.            *)
Ops == {"shell", "direct", "kill"}

SandboxInit ==
  /\ singleton = None /\ wraps = 0 /\ boxes = 0 /\ calls = 0
  /\ handle = [w \in Wraps |-> None]
  /\ created = [w \in Wraps |-> FALSE]
  /\ remote = [b \in Boxes |-> "none"]
  /\ thread = [h \in Threads |-> Idle]
  /\ ran = [h \in Threads |-> {}]
  /\ overlaps = 0 /\ unkilled = {}

At(h, place) == thread[h].at = place
Goto(h, place) == thread' = [thread EXCEPT ![h].at = place]
End(h) == thread' = [thread EXCEPT ![h] = Idle]

(***************************************************************************)
(* get_e2b_sandbox: the global is tested, filled, and read again.          *)
(***************************************************************************)
Call(h, op) ==
  /\ At(h, "idle") /\ calls < MaxCalls
  /\ op = "kill" => singleton # None
  /\ calls' = calls + 1
  /\ ran' = [ran EXCEPT ![h] = {}]
  /\ overlaps' = overlaps + (IF \E g \in Threads : ~ At(g, "idle") THEN 1 ELSE 0)
  /\ thread' = [thread EXCEPT ![h] =
       [Idle EXCEPT !.op = op, !.wrap = singleton,
                    !.at = CASE op = "kill"       -> "kill"
                             [] singleton = None  -> "construct"
                             [] OTHER             -> "taken"]]
  /\ UNCHANGED <<wrapper, boxes, remote, unkilled>>

Construct(h) ==
  /\ At(h, "construct") /\ wraps < MaxWraps
  /\ wraps' = wraps + 1
  /\ singleton' = wraps'
  /\ Goto(h, "taken")
  /\ UNCHANGED <<handle, created, boxes, remote, calls, ran, overlaps, unkilled>>

(* The last line of get_e2b_sandbox.  After a reset it returns None, and    *)
(* the caller fails with an AttributeError nobody falls back from.         *)
Taken(h) ==
  /\ At(h, "taken")
  /\ IF singleton = None
       THEN End(h)
       ELSE thread' = [thread EXCEPT ![h].wrap = singleton, ![h].at = "look"]
  /\ UNCHANGED <<wrapper, boxes, remote, calls, ran, overlaps, unkilled>>

(***************************************************************************)
(* _get_or_create_sandbox.                                                 *)
(***************************************************************************)
(* Mutant: every call makes a box of its own.                               *)
ReadyNever(w) == FALSE

Ready(w) == handle[w] # None /\ created[w]

(* What the caller does with the box it is given: use it, or, without one, *)
(* raise the RuntimeError only run_shell turns into a run on the host.     *)
Given(h, box) ==
  IF box # None
    THEN thread' = [thread EXCEPT ![h].box = box, ![h].at = "use"]
    ELSE IF thread[h].op = "shell" THEN Goto(h, "host") ELSE End(h)

Look(h) ==
  /\ At(h, "look")
  /\ Goto(h, IF Ready(thread[h].wrap) THEN "return" ELSE "create")
  /\ UNCHANGED <<wrapper, boxes, remote, calls, ran, overlaps, unkilled>>

Return(h) ==
  /\ At(h, "return")
  /\ Given(h, handle[thread[h].wrap])
  /\ UNCHANGED <<wrapper, boxes, remote, calls, ran, overlaps, unkilled>>

Create(h) ==
  /\ At(h, "create") /\ boxes < MaxBoxes
  /\ boxes' = boxes + 1
  /\ remote' = [remote EXCEPT ![boxes'] = "live"]
  /\ handle' = [handle EXCEPT ![thread[h].wrap] = boxes']
  /\ Goto(h, "mark")
  /\ UNCHANGED <<singleton, wraps, created, calls, ran, overlaps, unkilled>>

Mark(h) ==
  /\ At(h, "mark")
  /\ created' = [created EXCEPT ![thread[h].wrap] = TRUE]
  /\ Goto(h, "return")
  /\ UNCHANGED <<singleton, wraps, handle, boxes, remote, calls, ran,
                 overlaps, unkilled>>

CreateFails(h) ==
  /\ At(h, "create")
  /\ handle' = [handle EXCEPT ![thread[h].wrap] = None]
  /\ created' = [created EXCEPT ![thread[h].wrap] = FALSE]
  /\ Given(h, None)
  /\ UNCHANGED <<singleton, wraps, boxes, remote, calls, ran, overlaps, unkilled>>

(***************************************************************************)
(* The rest of run_command and of run_shell.  A command sent to a live box *)
(* runs, whatever the answer; every exception becomes a result, so the     *)
(* caller does not fall back.                                              *)
(***************************************************************************)
(* Mutant: an error of the box is raised as a RuntimeError too.             *)
UseRaises(h) ==
  /\ At(h, "use")
  /\ ran' = [ran EXCEPT ![h] = @ \cup ({thread[h].box} \cap Live)]
  /\ IF thread[h].op = "shell" THEN Goto(h, "host") ELSE End(h)
  /\ UNCHANGED <<wrapper, boxes, remote, calls, overlaps, unkilled>>

Use(h) ==
  /\ At(h, "use")
  /\ ran' = [ran EXCEPT ![h] = @ \cup ({thread[h].box} \cap Live)]
  /\ End(h)
  /\ UNCHANGED <<wrapper, boxes, remote, calls, overlaps, unkilled>>

(* _run_shell_host: _check_command may refuse the command.                 *)
Host(h) ==
  /\ At(h, "host")
  /\ \E allowed \in BOOLEAN :
       ran' = [ran EXCEPT ![h] = @ \cup (IF allowed THEN {OnHost} ELSE {})]
  /\ End(h)
  /\ UNCHANGED <<wrapper, boxes, remote, calls, overlaps, unkilled>>

(***************************************************************************)
(* kill: the test, the call to the service, and the finally clause.        *)
(***************************************************************************)
KillLooks(h) ==
  /\ At(h, "kill")
  /\ Goto(h, IF Ready(thread[h].wrap) THEN "send" ELSE "forget")
  /\ UNCHANGED <<wrapper, boxes, remote, calls, ran, overlaps, unkilled>>

(* The handle is read again; None raises, which is caught and logged.      *)
KillSends(h) ==
  LET b == handle[thread[h].wrap] IN
  /\ At(h, "send")
  /\ \/ b \in Live /\ remote' = [remote EXCEPT ![b] = "dead"] /\ UNCHANGED unkilled
     \/ UNCHANGED remote /\ unkilled' = unkilled \cup ({b} \cap Live)
  /\ Goto(h, "clear")
  /\ UNCHANGED <<wrapper, boxes, calls, ran, overlaps>>

KillClears(h) ==
  /\ At(h, "clear")
  /\ handle' = [handle EXCEPT ![thread[h].wrap] = None]
  /\ created' = [created EXCEPT ![thread[h].wrap] = FALSE]
  /\ Goto(h, "forget")
  /\ UNCHANGED <<singleton, wraps, boxes, remote, calls, ran, overlaps, unkilled>>

(* The end of kill, or of reset_e2b_sandbox, which drops the wrapper too.  *)
Forget(h) ==
  /\ At(h, "forget")
  /\ singleton' \in {singleton, None}
  /\ End(h)
  /\ UNCHANGED <<wraps, handle, created, boxes, remote, calls, ran, overlaps,
                 unkilled>>

(* The service ends a box when its lifetime is over.                       *)
Expire(b) ==
  /\ remote[b] = "live"
  /\ remote' = [remote EXCEPT ![b] = "dead"]
  /\ UNCHANGED <<wrapper, boxes, thread, calls, ran, overlaps, unkilled>>

SandboxNext ==
  \/ \E h \in Threads :
       \/ \E op \in Ops : Call(h, op)
       \/ Construct(h) \/ Taken(h) \/ Look(h) \/ Return(h)
       \/ Create(h) \/ Mark(h) \/ CreateFails(h)
       \/ Use(h) \/ Host(h)
       \/ KillLooks(h) \/ KillSends(h) \/ KillClears(h) \/ Forget(h)
  \/ \E b \in Boxes : Expire(b)

SandboxSpec == SandboxInit /\ [][SandboxNext]_sandbox

(* A call runs its command in one place at most: once it may have started   *)
(* in a box, run_shell never runs it again on the host, whatever the box    *)
(* answered and whatever the other threads did to the wrapper (the          *)
(* RuntimeError that makes run_shell fall back is only raised before).      *)
RunsOnce == \A h \in Threads : Cardinality(ran[h]) <= 1

(* A live box the singleton no longer knows, and that was not kept alive by *)
(* a failed kill, has leaked: nothing will ever end it.  Each leak takes a  *)
(* call that began while another was inside the unlocked wrapper; calls one *)
(* after the other, killing, resetting and failing as they may, leak none.  *)
Known == IF singleton = None THEN {} ELSE {handle[singleton]}
LeaksAreRaced == Cardinality(Live \ (unkilled \cup Known)) <= overlaps
=============================================================================
