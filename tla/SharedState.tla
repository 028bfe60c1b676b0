----------------------------- MODULE SharedState -----------------------------
(***************************************************************************)
(* The versioned key-value store of src/agent/coordination/shared_state.py *)
(* and its change notifications.  Every operation changes the store in one *)
(* step, under the lock; the event is logged and the observers are called  *)
(* after the lock is released, an await per observer.                      *)
(*                                                                         *)
(* OneLoop says where the callers run.  TRUE: coroutines of one event loop,*)
(* where nothing interleaves between two awaits (the repository's use).    *)
(* FALSE: threads, which the class says it is safe for.                    *)
(***************************************************************************)
EXTENDS Integers, Sequences, FiniteSets

CONSTANTS
    Keys, Vals,
    Update,       \* updater_fn, [Vals -> Vals]
    Callers,      \* coroutines or threads that use the store
    Observers,    \* callbacks that may be registered
    Permanent,    \* those registered from the start and never removed
    None,
    OneLoop,
    MaxEvents     \* bound: change events in a behaviour

\* StateEntry; `stale` records that the TTL has passed since updated_at.
Entry == [value : Vals, version : Nat, ttl : BOOLEAN, stale : BOOLEAN]

ASSUME UpdateAssumption    == Update \in [Vals -> Vals]
ASSUME NoneAssumption      == None \notin Keys \cup Vals \cup Callers \cup Entry
ASSUME PermanentAssumption == Permanent \subseteq Observers
ASSUME FiniteAssumption    == IsFiniteSet(Keys) /\ IsFiniteSet(Callers) /\ IsFiniteSet(Observers)
ASSUME BoundAssumption     == OneLoop \in BOOLEAN /\ MaxEvents \in Nat

VARIABLES
    store,        \* _store: an entry or None for each key
    log,          \* _change_log
    observers,    \* _observers: the list new events are sent to
    outbox,       \* per caller: events of its call not yet fully notified
    pc,           \* per caller: "idle", about to "log", or to "notify"
    live,         \* per caller: its walk is over the current list of observers
    list,         \* per caller: the replaced list its walk is over otherwise
    idx,          \* per caller: the position of that walk
    running,      \* the coroutine that has the event loop, or None
    received,     \* per observer: the events it was called with (history)
    answer        \* the last operation's result (history)

walk == <<live, list, idx>>
vars == <<store, log, observers, outbox, pc, walk, running, received, answer>>

\* A notification loop walks the list object bound to _observers when it began.
Walked(c) == IF live[c] THEN observers ELSE list[c]

Event == [type : {"set", "delete", "expired"}, key : Keys,
          value : Vals \cup {None}, old : Vals \cup {None}, version : Nat]

Has(k) == store[k] # None

\* _is_expired, negated, of an entry that is there.
Fresh(k) == Has(k) /\ ~store[k].stale

ValueOf(k) == IF Fresh(k) THEN store[k].value ELSE None

\* The sequences that list each member of a set once.
Listings(S) == {s \in [1..Cardinality(S) -> S] : \A x \in S : \E i \in DOMAIN s : s[i] = x}

Pending == {p \in Callers \X (1..MaxEvents) : p[2] <= Len(outbox[p[1]])}

-----------------------------------------------------------------------------
Init ==
    /\ store     = [k \in Keys |-> None]
    /\ log       = <<>>
    /\ \E S \in SUBSET Observers : Permanent \subseteq S /\ observers \in Listings(S)
    /\ outbox    = [c \in Callers |-> <<>>]
    /\ pc        = [c \in Callers |-> "idle"]
    /\ live      = [c \in Callers |-> TRUE]
    /\ list      = [c \in Callers |-> <<>>]
    /\ idx       = [c \in Callers |-> 1]
    /\ running   = None
    /\ received  = [o \in Observers |-> <<>>]
    /\ answer    = [op |-> "none", key |-> None, result |-> None]

MayRun(c) == running \in {None, c}

Answer(op, k, r) == answer' = [op |-> op, key |-> k, result |-> r]

\* The end of the locked section: the call goes on to its events, if any, with
\* no await before the first is logged.
Leave(c, events) ==
    /\ outbox'  = [outbox EXCEPT ![c] = events]
    /\ pc'      = [pc EXCEPT ![c] = IF events = <<>> THEN "idle" ELSE "log"]
    /\ running' = IF OneLoop /\ events # <<>> THEN c ELSE None
    /\ UNCHANGED <<log, observers, walk, received>>

\* A caller begins an operation that may cause up to n events.
Enter(c, n) ==
    /\ pc[c] = "idle"
    /\ MayRun(c)
    /\ Len(log) + Cardinality(Pending) + n <= MaxEvents

SetEvent(k, v, old, version) ==
    [type |-> "set", key |-> k, value |-> v, old |-> old, version |-> version]

-----------------------------------------------------------------------------
(* The operations. *)

\* set: an existing entry, expired or not, gets the next version, and keeps its
\* TTL when none is given; either way its age starts anew.
Set(c, k, v, ttl) ==
    /\ Enter(c, 1)
    /\ LET entry == IF Has(k)
                    THEN [store[k] EXCEPT !.value = v, !.version = @ + 1,
                                          !.ttl = @ \/ ttl, !.stale = FALSE]
                    ELSE [value |-> v, version |-> 1, ttl |-> ttl, stale |-> FALSE]
           old == IF Has(k) THEN store[k].value ELSE None
       IN  /\ store' = [store EXCEPT ![k] = entry]
           /\ Leave(c, <<SetEvent(k, v, old, entry.version)>>)
    /\ Answer("set", k, v)

\* delete does not ask whether the entry has expired.
Delete(c, k) ==
    /\ Enter(c, 1)
    /\ store' = [store EXCEPT ![k] = None]
    /\ Leave(c, IF Has(k)
                THEN <<[type |-> "delete", key |-> k, value |-> None,
                        old |-> store[k].value, version |-> store[k].version]>>
                ELSE <<>>)
    /\ Answer("delete", k, Has(k))

\* get, get_entry and exists drop an expired entry silently.
Get(c, k) ==
    /\ Enter(c, 0)
    /\ store' = [store EXCEPT ![k] = IF Fresh(k) THEN @ ELSE None]
    /\ Leave(c, <<>>)
    /\ Answer("get", k, ValueOf(k))

\* keys and items sweep every expired entry, silently.
KeysCall(c) ==
    /\ Enter(c, 0)
    /\ store' = [k \in Keys |-> IF Fresh(k) THEN store[k] ELSE None]
    /\ Leave(c, <<>>)
    /\ Answer("keys", None, {k \in Keys : Fresh(k)})

\* clear empties the store, silently.
ClearCall(c) ==
    /\ Enter(c, 0)
    /\ store' = [k \in Keys |-> None]
    /\ Leave(c, <<>>)
    /\ Answer("clear", None, None)

\* Mutant: the change is not announced.
ReplaceSilently(c, k, v) ==
    /\ store' = [store EXCEPT ![k].value = v, ![k].version = @ + 1]
    /\ Leave(c, <<>>)

\* The common part of atomic_update and compare_and_set: a new value for a
\* fresh entry, whose age starts anew.
Replace(c, k, v) ==
    /\ store' = [store EXCEPT ![k].value = v, ![k].version = @ + 1]
    /\ Leave(c, <<SetEvent(k, v, store[k].value, store[k].version + 1)>>)

\* Both drop an expired entry silently and report failure.
Refuse(c, k) ==
    /\ store' = [store EXCEPT ![k] = IF Fresh(k) THEN @ ELSE None]
    /\ Leave(c, <<>>)

AtomicUpdate(c, k) ==
    /\ Enter(c, 1)
    /\ \/ /\ Fresh(k)
          /\ Replace(c, k, Update[store[k].value])
          /\ Answer("atomic_update", k, Update[store[k].value])
       \/ ~Fresh(k) /\ Refuse(c, k) /\ Answer("atomic_update", k, None)

\* Mutant: the value is compared without asking whether it has expired.
CompareAndSetExpired(c, k, expected, new) ==
    /\ Enter(c, 1)
    /\ Has(k) /\ store[k].value = expected
    /\ Replace(c, k, new)
    /\ Answer("compare_and_set", k, TRUE)

CompareAndSet(c, k, expected, new) ==
    /\ Enter(c, 1)
    /\ \/ /\ ValueOf(k) = expected
          /\ Replace(c, k, new)
          /\ Answer("compare_and_set", k, TRUE)
       \/ ValueOf(k) # expected /\ Refuse(c, k) /\ Answer("compare_and_set", k, FALSE)

\* _cleanup_expired removes every expired entry at once and then logs and
\* notifies them one after the other.  The order is the dictionary's.
Cleanup(c) ==
    LET expired == {k \in Keys : Has(k) /\ ~Fresh(k)} IN
    /\ expired # {}
    /\ Enter(c, Cardinality(expired))
    /\ store' = [k \in Keys |-> IF k \in expired THEN None ELSE store[k]]
    /\ \E order \in Listings(expired) :
          Leave(c, [i \in DOMAIN order |->
                       [type |-> "expired", key |-> order[i], value |-> None,
                        old |-> store[order[i]].value,
                        version |-> store[order[i]].version]])
    /\ UNCHANGED answer

-----------------------------------------------------------------------------
(* Logging and notification, after the lock. *)

Log(c) ==
    /\ pc[c] = "log"
    /\ MayRun(c)
    /\ log'  = Append(log, Head(outbox[c]))
    /\ pc'   = [pc EXCEPT ![c] = "notify"]
    /\ UNCHANGED <<store, observers, outbox, walk, running, received, answer>>

\* The next observer is called and awaited; what it raises is swallowed.
Notify(c) ==
    /\ pc[c] = "notify"
    /\ MayRun(c)
    /\ idx[c] <= Len(Walked(c))
    /\ LET o == Walked(c)[idx[c]] IN
       received' = [received EXCEPT ![o] = Append(@, Head(outbox[c]))]
    /\ idx'     = [idx EXCEPT ![c] = @ + 1]
    /\ running' = None
    /\ UNCHANGED <<store, log, observers, outbox, pc, live, list, answer>>

\* The walk is over: on to the call's next event, or return.
Finish(c) ==
    /\ pc[c] = "notify"
    /\ MayRun(c)
    /\ idx[c] > Len(Walked(c))
    /\ outbox'  = [outbox EXCEPT ![c] = Tail(@)]
    /\ pc'      = [pc EXCEPT ![c] = IF Len(outbox[c]) = 1 THEN "idle" ELSE "log"]
    /\ running' = IF OneLoop /\ Len(outbox[c]) > 1 THEN c ELSE None
    /\ live'    = [live EXCEPT ![c] = TRUE]
    /\ list'    = [list EXCEPT ![c] = <<>>]
    /\ idx'     = [idx EXCEPT ![c] = 1]
    /\ UNCHANGED <<store, log, observers, received, answer>>

\* observe appends to the list itself: walks in progress will reach it.
Observe(o) ==
    /\ running = None
    /\ o \in Observers \ Permanent
    /\ \A i \in DOMAIN observers : observers[i] # o
    /\ observers' = Append(observers, o)
    /\ UNCHANGED <<store, log, outbox, pc, walk, running, received, answer>>

\* Mutant: the observer is removed from the list in place.
UnobserveInPlace(o) ==
    /\ running = None
    /\ o \notin Permanent
    /\ \E i \in DOMAIN observers : observers[i] = o
    /\ observers' = SelectSeq(observers, LAMBDA x : x # o)
    /\ UNCHANGED <<store, log, outbox, pc, walk, running, received, answer>>

\* unobserve binds a new list, without the one place of the observer in the old:
\* walks in progress keep the old one.
Unobserve(o) ==
    /\ running = None
    /\ o \notin Permanent
    /\ \E i \in DOMAIN observers :
          /\ observers[i] = o
          /\ observers' = SubSeq(observers, 1, i - 1) \o SubSeq(observers, i + 1, Len(observers))
    /\ live' = [c \in Callers |-> live[c] /\ pc[c] # "notify"]
    /\ list' = [c \in Callers |-> IF pc[c] = "notify" THEN Walked(c) ELSE list[c]]
    /\ UNCHANGED <<store, log, outbox, pc, idx, running, received, answer>>

\* Time passes: an entry with a TTL has outlived it.
Expire(k) ==
    /\ running = None
    /\ Fresh(k)
    /\ store[k].ttl
    /\ store' = [store EXCEPT ![k].stale = TRUE]
    /\ UNCHANGED <<log, observers, outbox, pc, walk, running, received, answer>>

Operation(c) ==
    \/ \E k \in Keys : \/ \E v \in Vals, ttl \in BOOLEAN : Set(c, k, v, ttl)
                       \/ Delete(c, k)
                       \/ Get(c, k)
                       \/ AtomicUpdate(c, k)
                       \/ \E e, n \in Vals : CompareAndSet(c, k, e, n)
    \/ KeysCall(c)
    \/ ClearCall(c)
    \/ Cleanup(c)

Continue(c) == Log(c) \/ Notify(c) \/ Finish(c)

Next == \/ \E c \in Callers : Operation(c) \/ Continue(c)
        \/ \E o \in Observers : Observe(o) \/ Unobserve(o)
        \/ \E k \in Keys : Expire(k)

Spec == Init /\ [][Next]_vars

-----------------------------------------------------------------------------
TypeOK ==
    /\ store \in [Keys -> Entry \cup {None}]
    /\ log \in Seq(Event)
    /\ observers \in Seq(Observers)
    /\ outbox \in [Callers -> Seq(Event)]
    /\ pc \in [Callers -> {"idle", "log", "notify"}]
    /\ live \in [Callers -> BOOLEAN]
    /\ list \in [Callers -> Seq(Observers)]
    /\ idx \in [Callers -> Nat]
    /\ running \in Callers \cup {None}
    /\ received \in [Observers -> Seq(Event)]

Count(s, e) == Cardinality({i \in DOMAIN s : s[i] = e})

\* The callers whose current event is e and whose walk has yet to reach o.
Awaiting(o, e) ==
    {c \in Callers : /\ pc[c] = "notify"
                     /\ Head(outbox[c]) = e
                     /\ \E i \in idx[c]..Len(Walked(c)) : Walked(c)[i] = o}

\* An observer registered throughout is called exactly once for each logged
\* event, while others come and go during the walk: observe's append and
\* unobserve's new list neither skip nor repeat it.
ExactlyOnce ==
    \A o \in Permanent : \A e \in {log[i] : i \in DOMAIN log} :
        Count(log, e) = Count(received[o], e) + Cardinality(Awaiting(o, e))

\* The positions in the log of the sets and deletes of k.
Changes(k) == {i \in DOMAIN log : log[i].key = k /\ log[i].type # "expired"}

Latest(S) == CHOOSE i \in S : \A j \in S : j <= i

\* Between awaits, the last set or delete logged for a present key is the set
\* that produced its value and version.  (An expiry event may be logged later
\* than the set that followed it: _cleanup_expired awaits between its events.)
LogTellsStore ==
    running = None =>
        \A k \in Keys : Has(k) =>
            /\ Changes(k) # {}
            /\ LET e == log[Latest(Changes(k))] IN
               /\ e.type = "set"
               /\ e.value = store[k].value
               /\ e.version = store[k].version

\* The history has no lost update: each event of version n > 1 takes up the
\* value that version n - 1 of the same key left (deletes repeat the version).
HistoryChains ==
    \A k \in Keys : \A i \in Changes(k) :
        LET earlier == {j \in Changes(k) : j < i}
            base    == log[i].version - IF log[i].type = "set" THEN 1 ELSE 0
        IN  base > 0 => /\ earlier # {}
                        /\ log[Latest(earlier)].type = "set"
                        /\ log[Latest(earlier)].version = base
                        /\ log[Latest(earlier)].value = log[i].old

\* Together: from the log alone one can tell what is stored and how it came about.
LogSound == LogTellsStore /\ HistoryChains

\* The store as its callers see it implements the abstract map.
Abstract == INSTANCE StoreSpec WITH kv <- [k \in Keys |-> ValueOf(k)]

AbstractSpec == Abstract!Spec
=============================================================================
