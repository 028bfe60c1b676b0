---------------------------- MODULE MCSharedState ----------------------------
(* Two coroutines, two keys, one value.  One observer is there throughout; the *)
(* other comes and goes while the first event is sent, and is gone by the next. *)
EXTENDS SharedState

CONSTANTS v1, v2

MCVals   == {v1, v2}
MCUpdate == [v \in MCVals |-> IF v = v1 THEN v2 ELSE v1]

Settled ==
    /\ observers' # observers => Len(log) <= 1
    /\ Len(log') > 1 => Len(observers') = 1

StoreSpecMC == Init /\ [][Next /\ Settled]_vars
=============================================================================
