----------------------------- MODULE MCScheduler -----------------------------
(* Job j is due every other tick, job k every tick or when its tool failed.   *)
EXTENDS Scheduler

CONSTANTS j, k, shell

MCTool      == [x \in Jobs |-> shell]
MCInterval  == [x \in Jobs |-> IF x = j THEN 2 ELSE 1]
MCThreshold == [x \in Jobs |-> IF x = k THEN 1 ELSE None]
=============================================================================
