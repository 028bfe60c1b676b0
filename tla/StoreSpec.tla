------------------------------ MODULE StoreSpec ------------------------------
(***************************************************************************)
(* What SharedState promises its callers: a map whose operations take      *)
(* effect one at a time, each answering from the map as it then is.  A key *)
(* with a time to live may vanish at any moment.  Nothing is said of       *)
(* versions, events or of when expired entries leave memory.               *)
(***************************************************************************)
CONSTANTS
    Keys, Vals,
    Update,     \* the updater_fn passed to atomic_update
    None        \* Python's None: no value

VARIABLES
    kv,         \* [Keys -> Vals \cup {None}]
    answer      \* what the last operation returned, and for which key

vars == <<kv, answer>>

Answer(op, k, r) == answer' = [op |-> op, key |-> k, result |-> r]

Init == /\ kv = [k \in Keys |-> None]
        /\ answer = [op |-> "none", key |-> None, result |-> None]

Set(k, v) == kv' = [kv EXCEPT ![k] = v] /\ Answer("set", k, v)

Get(k) == UNCHANGED kv /\ Answer("get", k, kv[k])

\* A key that has just expired may or may not be reported as removed.
Delete(k) ==
    /\ kv' = [kv EXCEPT ![k] = None]
    /\ \/ Answer("delete", k, TRUE)
       \/ kv[k] = None /\ Answer("delete", k, FALSE)

AtomicUpdate(k) ==
    \/ /\ kv[k] # None
       /\ kv' = [kv EXCEPT ![k] = Update[kv[k]]]
       /\ Answer("atomic_update", k, Update[kv[k]])
    \/ kv[k] = None /\ UNCHANGED kv /\ Answer("atomic_update", k, None)

CompareAndSet(k, expected, new) ==
    \/ /\ kv[k] = expected
       /\ kv' = [kv EXCEPT ![k] = new]
       /\ Answer("compare_and_set", k, TRUE)
    \/ kv[k] # expected /\ UNCHANGED kv /\ Answer("compare_and_set", k, FALSE)

KeysCall == UNCHANGED kv /\ Answer("keys", None, {k \in Keys : kv[k] # None})

ClearCall == kv' = [k \in Keys |-> None] /\ Answer("clear", None, None)

Expire(k) == kv' = [kv EXCEPT ![k] = None] /\ UNCHANGED answer

Next == \/ \E k \in Keys : \/ Get(k) \/ Delete(k) \/ AtomicUpdate(k) \/ Expire(k)
                           \/ \E v \in Vals : Set(k, v)
                           \/ \E e, n \in Vals : CompareAndSet(k, e, n)
        \/ KeysCall
        \/ ClearCall

Spec == Init /\ [][Next]_vars
=============================================================================
