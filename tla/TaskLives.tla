----------------------------- MODULE TaskLives -----------------------------
(***************************************************************************)
(* What a TaskQueue with one worker promises of its tasks: each lives its   *)
(* own life, and all that ties one to another is that a run waits for the   *)
(* results it depends on and for the run before it to end.  Nothing is said *)
(* of how the queue stores, orders, counts or releases them.               *)
(***************************************************************************)
EXTENDS Naturals

CONSTANTS
    Tasks,
    Deps,         \* what each depends on
    MaxRetries    \* how often each may be run again

VARIABLES
    life,         \* [Tasks -> {"unknown", "open", "running", "done", "dead", "cancelled"}]
    runs          \* [Tasks -> Nat]: how often each has been started

vars == <<life, runs>>

Init == /\ life = [t \in Tasks |-> "unknown"]
        /\ runs = [t \in Tasks |-> 0]

\* A task is submitted once.
Submit(t) ==
    /\ life[t] = "unknown" /\ runs[t] = 0
    /\ life' = [life EXCEPT ![t] = "open"]
    /\ UNCHANGED runs

\* What a run may come to: a task is given up behind its last, and not before.
Outcomes(t) == {"done", IF runs[t] <= MaxRetries[t] THEN "open" ELSE "dead"}

\* A run begins, the lives being `now`, with what it depends on done.  A task that
\* is cancelled too late runs all the same.
Begin(t, now) ==
    /\ now[t] \in {"open", "cancelled"}
    /\ \A d \in Deps[t] : now[d] = "done"
    /\ life' = [now EXCEPT ![t] = "running"]
    /\ runs' = [runs EXCEPT ![t] = @ + 1]

Start(t) == (\A u \in Tasks : life[u] # "running") /\ Begin(t, life)

\* A run ends, and the next begins at once or not.
Finish(t) ==
    /\ life[t] = "running"
    /\ \E o \in Outcomes(t) :
          LET now == [life EXCEPT ![t] = o] IN
          \/ life' = now /\ UNCHANGED runs
          \/ \E u \in Tasks \ {t} : Begin(u, now)

Cancel(t) ==
    /\ life[t] = "open"
    /\ life' = [life EXCEPT ![t] = "cancelled"]
    /\ UNCHANGED runs

\* The dead are forgotten.
Forget ==
    /\ life' = [t \in Tasks |-> IF life[t] = "dead" THEN "unknown" ELSE life[t]]
    /\ UNCHANGED runs

Next == \/ \E t \in Tasks : Submit(t) \/ Start(t) \/ Finish(t) \/ Cancel(t)
        \/ Forget

Spec == Init /\ [][Next]_vars
=============================================================================
