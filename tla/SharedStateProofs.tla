-------------------------- MODULE SharedStateProofs --------------------------
(***************************************************************************)
(* SharedState implements StoreSpec: whatever the callers, the observers   *)
(* and the keys, with threads as with coroutines, every operation takes    *)
(* effect in one step on the map of the unexpired entries, and whoever is  *)
(* registered throughout hears of each change once.  With one event loop   *)
(* the log tells what is stored, and how it came about.                    *)
(***************************************************************************)
EXTENDS SharedState, FiniteSetTheorems, SequenceTheorems, TLAPS

StoreOK == store \in [Keys -> Entry \cup {None}]

\* The abstract map.
View == [k \in Keys |-> ValueOf(k)]

-----------------------------------------------------------------------------
(* How a change of one entry, or none, shows in the map. *)

\* An entry is not None, and its fields have their types.
LEMMA EntryFields ==
    ASSUME StoreOK, NEW k \in Keys, Has(k)
    PROVE  /\ store[k] \in Entry
           /\ store[k].value \in Vals /\ store[k].version \in Nat
           /\ store[k].ttl \in BOOLEAN /\ store[k].stale \in BOOLEAN
  BY DEF StoreOK, Has, Entry

\* Writing entry e to key k writes its value to the map when e is not stale.
LEMMA WriteShows ==
    ASSUME StoreOK, NEW k \in Keys, NEW e \in Entry, ~e.stale,
           store' = [store EXCEPT ![k] = e]
    PROVE  StoreOK' /\ View' = [View EXCEPT ![k] = e.value]
<1>1. e # None
  BY NoneAssumption
<1>2. StoreOK'
  BY DEF StoreOK
<1>3. ASSUME NEW j \in Keys PROVE ValueOf(j)' = IF j = k THEN e.value ELSE ValueOf(j)
  BY <1>1 DEF StoreOK, ValueOf, Fresh, Has
<1>4. View' = [j \in Keys |-> IF j = k THEN e.value ELSE ValueOf(j)]
  BY <1>3 DEF View
<1> QED
  BY <1>2, <1>4 DEF View

\* Removing key k removes it from the map.
LEMMA RemovalShows ==
    ASSUME StoreOK, NEW k \in Keys, store' = [store EXCEPT ![k] = None]
    PROVE  StoreOK' /\ View' = [View EXCEPT ![k] = None]
<1>1. StoreOK'
  BY DEF StoreOK
<1>2. ASSUME NEW j \in Keys PROVE ValueOf(j)' = IF j = k THEN None ELSE ValueOf(j)
  BY DEF StoreOK, ValueOf, Fresh, Has
<1>3. View' = [j \in Keys |-> IF j = k THEN None ELSE ValueOf(j)]
  BY <1>2 DEF View
<1> QED
  BY <1>1, <1>3 DEF View

\* Dropping expired entries, of some keys, does not show.
LEMMA SweepHides ==
    ASSUME StoreOK, NEW S \in SUBSET Keys,
           store' = [k \in Keys |-> IF k \in S /\ ~Fresh(k) THEN None ELSE store[k]]
    PROVE  StoreOK' /\ View' = View
<1>1. StoreOK'
  BY DEF StoreOK
<1>2. ASSUME NEW j \in Keys PROVE ValueOf(j)' = ValueOf(j)
  BY DEF StoreOK, ValueOf, Fresh, Has
<1> QED
  BY <1>1, <1>2 DEF View

\* The form in which get and the refusals drop an expired entry.
LEMMA DropHides ==
    ASSUME StoreOK, NEW k \in Keys,
           store' = [store EXCEPT ![k] = IF Fresh(k) THEN @ ELSE None]
    PROVE  StoreOK' /\ View' = View
<1>1. store' = [j \in Keys |-> IF j \in {k} /\ ~Fresh(j) THEN None ELSE store[j]]
  BY DEF StoreOK
<1>2. {k} \in SUBSET Keys
  OBVIOUS
<1> DEFINE S == {k}
<1> HIDE DEF S
<1>3. S \in SUBSET Keys /\ store' = [j \in Keys |-> IF j \in S /\ ~Fresh(j) THEN None ELSE store[j]]
  BY <1>1, <1>2 DEF S
<1> QED
  BY <1>3, SweepHides

LEMMA SameStore ==
    ASSUME StoreOK, UNCHANGED store
    PROVE  StoreOK' /\ View' = View
  BY DEF StoreOK, View, ValueOf, Fresh, Has

-----------------------------------------------------------------------------
(* One lemma per operation: the step of the map it is. *)

LEMMA SetStep ==
    ASSUME StoreOK, NEW c \in Callers, NEW k \in Keys, NEW v \in Vals, NEW ttl \in BOOLEAN,
           Set(c, k, v, ttl)
    PROVE  StoreOK' /\ Abstract!Set(k, v)
<1> DEFINE entry == IF Has(k)
                    THEN [store[k] EXCEPT !.value = v, !.version = @ + 1,
                                          !.ttl = @ \/ ttl, !.stale = FALSE]
                    ELSE [value |-> v, version |-> 1, ttl |-> ttl, stale |-> FALSE]
<1>1. store' = [store EXCEPT ![k] = entry] /\ Answer("set", k, v)
  BY DEF Set
<1>2. entry \in Entry /\ ~entry.stale /\ entry.value = v
  <2>1. CASE Has(k)
    <3>1. store[k] \in Entry /\ store[k].version \in Nat /\ (store[k].ttl \/ ttl) \in BOOLEAN
      BY <2>1, EntryFields
    <3> DEFINE t == store[k].ttl \/ ttl
               n == store[k].version + 1
    <3>2. entry = [store[k] EXCEPT !.value = v, !.version = n, !.ttl = t, !.stale = FALSE]
      BY <2>1
    <3>3. t \in BOOLEAN /\ n \in Nat
      BY <3>1
    <3> HIDE DEF t, n, entry
    <3> QED
      BY <3>1, <3>2, <3>3 DEF Entry
  <2>2. CASE ~Has(k)
    BY <2>2 DEF Entry
  <2> QED
    BY <2>1, <2>2
<1> HIDE DEF entry
<1>3. StoreOK' /\ View' = [View EXCEPT ![k] = entry.value]
  BY <1>1, <1>2, WriteShows
<1> QED
  BY <1>1, <1>2, <1>3 DEF Abstract!Set, Abstract!Answer, Answer, View

LEMMA DeleteStep ==
    ASSUME StoreOK, NEW c \in Callers, NEW k \in Keys, Delete(c, k)
    PROVE  StoreOK' /\ Abstract!Delete(k)
<1>1. store' = [store EXCEPT ![k] = None] /\ Answer("delete", k, Has(k))
  BY DEF Delete
<1>2. StoreOK' /\ View' = [View EXCEPT ![k] = None]
  BY <1>1, RemovalShows
<1>3. ~Has(k) => View[k] = None
  BY DEF View, ValueOf, Fresh
<1>4. Has(k) \in BOOLEAN
  BY DEF Has
<1> QED
  BY <1>1, <1>2, <1>3, <1>4 DEF Abstract!Delete, Abstract!Answer, Answer, View

LEMMA GetStep ==
    ASSUME StoreOK, NEW c \in Callers, NEW k \in Keys, Get(c, k)
    PROVE  StoreOK' /\ Abstract!Get(k)
<1>1. store' = [store EXCEPT ![k] = IF Fresh(k) THEN @ ELSE None]
      /\ Answer("get", k, ValueOf(k))
  BY DEF Get
<1>2. StoreOK' /\ View' = View
  BY <1>1, DropHides
<1> QED
  BY <1>1, <1>2 DEF Abstract!Get, Abstract!Answer, Answer, View

LEMMA KeysStep ==
    ASSUME StoreOK, NEW c \in Callers, KeysCall(c)
    PROVE  StoreOK' /\ Abstract!KeysCall
<1>1. store' = [k \in Keys |-> IF Fresh(k) THEN store[k] ELSE None]
      /\ Answer("keys", None, {k \in Keys : Fresh(k)})
  BY DEF KeysCall
<1>2. store' = [k \in Keys |-> IF k \in Keys /\ ~Fresh(k) THEN None ELSE store[k]]
  BY <1>1
<1>3. StoreOK' /\ View' = View
  BY <1>2, SweepHides
<1>4. ASSUME NEW k \in Keys PROVE Fresh(k) <=> View[k] # None
  BY NoneAssumption, EntryFields DEF View, ValueOf, Fresh
<1>5. {k \in Keys : Fresh(k)} = {k \in Keys : View[k] # None}
  BY <1>4
<1> QED
  BY <1>1, <1>3, <1>5 DEF Abstract!KeysCall, Abstract!Answer, Answer, View

LEMMA ClearStep ==
    ASSUME StoreOK, NEW c \in Callers, ClearCall(c)
    PROVE  StoreOK' /\ Abstract!ClearCall
<1>1. store' = [k \in Keys |-> None] /\ Answer("clear", None, None)
  BY DEF ClearCall
<1>2. StoreOK' /\ View' = [k \in Keys |-> None]
  BY <1>1 DEF StoreOK, View, ValueOf, Fresh, Has
<1> QED
  BY <1>1, <1>2 DEF Abstract!ClearCall, Abstract!Answer, Answer, View

\* A replacement writes the new value; the entry was fresh and remains so.
LEMMA ReplaceStep ==
    ASSUME StoreOK, NEW c \in Callers, NEW k \in Keys, NEW v \in Vals, Fresh(k),
           Replace(c, k, v)
    PROVE  StoreOK' /\ View' = [View EXCEPT ![k] = v]
<1> DEFINE entry == [store[k] EXCEPT !.value = v, !.version = @ + 1]
<1>1. store' = [store EXCEPT ![k] = entry]
  BY DEF Replace, StoreOK
<1>2. store[k] \in Entry /\ store[k].version + 1 \in Nat /\ ~store[k].stale
  BY EntryFields DEF Fresh
<1>3. entry \in Entry /\ ~entry.stale /\ entry.value = v
  BY <1>2 DEF Entry
<1> HIDE DEF entry
<1> QED
  BY <1>1, <1>3, WriteShows

\* A refusal does not show.
LEMMA RefuseStep ==
    ASSUME StoreOK, NEW c \in Callers, NEW k \in Keys, Refuse(c, k)
    PROVE  StoreOK' /\ View' = View
  BY DropHides DEF Refuse

LEMMA AtomicUpdateStep ==
    ASSUME StoreOK, NEW c \in Callers, NEW k \in Keys, AtomicUpdate(c, k)
    PROVE  StoreOK' /\ Abstract!AtomicUpdate(k)
<1>1. CASE Fresh(k)
  <2>1. /\ Replace(c, k, Update[store[k].value])
        /\ Answer("atomic_update", k, Update[store[k].value])
    BY <1>1 DEF AtomicUpdate
  <2>2. Update[store[k].value] \in Vals /\ View[k] = store[k].value /\ View[k] # None
    BY <1>1, EntryFields, UpdateAssumption, NoneAssumption DEF View, ValueOf, Fresh
  <2>3. StoreOK' /\ View' = [View EXCEPT ![k] = Update[View[k]]]
    BY <1>1, <2>1, <2>2, ReplaceStep
  <2> QED
    BY <2>1, <2>2, <2>3 DEF Abstract!AtomicUpdate, Abstract!Answer, Answer, View
<1>2. CASE ~Fresh(k)
  <2>1. Refuse(c, k) /\ Answer("atomic_update", k, None)
    BY <1>2 DEF AtomicUpdate
  <2>2. StoreOK' /\ View' = View /\ View[k] = None
    BY <1>2, <2>1, RefuseStep DEF View, ValueOf
  <2> QED
    BY <2>1, <2>2 DEF Abstract!AtomicUpdate, Abstract!Answer, Answer, View
<1> QED
  BY <1>1, <1>2

LEMMA CompareAndSetStep ==
    ASSUME StoreOK, NEW c \in Callers, NEW k \in Keys, NEW e \in Vals, NEW n \in Vals,
           CompareAndSet(c, k, e, n)
    PROVE  StoreOK' /\ Abstract!CompareAndSet(k, e, n)
<1>1. CASE ValueOf(k) = e
  <2>1. Replace(c, k, n) /\ Answer("compare_and_set", k, TRUE)
    BY <1>1 DEF CompareAndSet
  <2>2. Fresh(k) /\ View[k] = e
    BY <1>1, NoneAssumption DEF View, ValueOf
  <2>3. StoreOK' /\ View' = [View EXCEPT ![k] = n]
    BY <2>1, <2>2, ReplaceStep
  <2> QED
    BY <2>1, <2>2, <2>3 DEF Abstract!CompareAndSet, Abstract!Answer, Answer, View
<1>2. CASE ValueOf(k) # e
  <2>1. Refuse(c, k) /\ Answer("compare_and_set", k, FALSE)
    BY <1>2 DEF CompareAndSet
  <2>2. StoreOK' /\ View' = View /\ View[k] # e
    BY <1>2, <2>1, RefuseStep DEF View
  <2> QED
    BY <2>1, <2>2 DEF Abstract!CompareAndSet, Abstract!Answer, Answer, View
<1> QED
  BY <1>1, <1>2

LEMMA CleanupStep ==
    ASSUME StoreOK, NEW c \in Callers, Cleanup(c)
    PROVE  StoreOK' /\ UNCHANGED <<View, answer>>
<1>1. store' = [k \in Keys |-> IF k \in {j \in Keys : Has(j) /\ ~Fresh(j)} THEN None
                                                                        ELSE store[k]]
      /\ UNCHANGED answer
  BY DEF Cleanup
<1>2. store' = [k \in Keys |-> IF k \in {j \in Keys : Has(j)} /\ ~Fresh(k) THEN None
                                                                        ELSE store[k]]
  BY <1>1
<1>3. {j \in Keys : Has(j)} \in SUBSET Keys
  OBVIOUS
<1> QED
  BY <1>1, <1>2, <1>3, SweepHides

LEMMA ExpireStep ==
    ASSUME StoreOK, NEW k \in Keys, Expire(k)
    PROVE  StoreOK' /\ Abstract!Expire(k)
<1>1. Fresh(k) /\ store' = [store EXCEPT ![k].stale = TRUE] /\ UNCHANGED answer
  BY DEF Expire
<1>2. [store[k] EXCEPT !.stale = TRUE] \in Entry /\ [store[k] EXCEPT !.stale = TRUE].stale
  BY <1>1, EntryFields DEF Entry, Fresh
<1>3. StoreOK'
  BY <1>1, <1>2 DEF StoreOK
<1>4. ASSUME NEW j \in Keys PROVE ValueOf(j)' = IF j = k THEN None ELSE ValueOf(j)
  BY <1>1, <1>2 DEF StoreOK, ValueOf, Fresh, Has
<1>5. View' = [View EXCEPT ![k] = None]
  BY <1>4 DEF View
<1> QED
  BY <1>1, <1>3, <1>5 DEF Abstract!Expire, View

-----------------------------------------------------------------------------
(* The steps together. *)

\* Every step is a step of the map, or leaves map and answer alone.
LEMMA StepRefines ==
    ASSUME StoreOK, [Next]_vars
    PROVE  StoreOK' /\ [Abstract!Next]_(Abstract!vars)
<1>1. ASSUME NEW c \in Callers, Operation(c)
      PROVE  StoreOK' /\ [Abstract!Next]_(Abstract!vars)
  <2>1. CASE \E k \in Keys, v \in Vals, ttl \in BOOLEAN : Set(c, k, v, ttl)
    BY <2>1, SetStep DEF Abstract!Next
  <2>2. CASE \E k \in Keys : Delete(c, k)
    BY <2>2, DeleteStep DEF Abstract!Next
  <2>3. CASE \E k \in Keys : Get(c, k)
    BY <2>3, GetStep DEF Abstract!Next
  <2>4. CASE \E k \in Keys : AtomicUpdate(c, k)
    BY <2>4, AtomicUpdateStep DEF Abstract!Next
  <2>5. CASE \E k \in Keys, e \in Vals, n \in Vals : CompareAndSet(c, k, e, n)
    BY <2>5, CompareAndSetStep DEF Abstract!Next
  <2>6. CASE KeysCall(c)
    BY <2>6, KeysStep DEF Abstract!Next
  <2>7. CASE ClearCall(c)
    BY <2>7, ClearStep DEF Abstract!Next
  <2>8. CASE Cleanup(c)
    BY <2>8, CleanupStep DEF Abstract!vars, View
  <2> QED
    BY <1>1, <2>1, <2>2, <2>3, <2>4, <2>5, <2>6, <2>7, <2>8 DEF Operation
<1>2. ASSUME UNCHANGED <<store, answer>>
      PROVE  StoreOK' /\ [Abstract!Next]_(Abstract!vars)
  BY <1>2, SameStore DEF Abstract!vars, View
<1>3. ASSUME NEW c \in Callers, Continue(c) PROVE UNCHANGED <<store, answer>>
  BY <1>3 DEF Continue, Log, Notify, Finish
<1>4. ASSUME NEW o \in Observers, Observe(o) \/ Unobserve(o) PROVE UNCHANGED <<store, answer>>
  BY <1>4 DEF Observe, Unobserve
<1>5. ASSUME NEW k \in Keys, Expire(k)
      PROVE  StoreOK' /\ [Abstract!Next]_(Abstract!vars)
  BY <1>5, ExpireStep DEF Abstract!Next
<1>6. CASE UNCHANGED vars
  BY <1>2, <1>6 DEF vars
<1> QED
  BY <1>1, <1>2, <1>3, <1>4, <1>5, <1>6 DEF Next

\* The entries keep their types: an entry is never half written, and versions
\* are numbers, under any interleaving of callers.
THEOREM StoreTyped == Spec => []StoreOK
<1>1. Init => StoreOK
  BY DEF Init, StoreOK
<1>2. StoreOK /\ [Next]_vars => StoreOK'
  BY StepRefines
<1> QED
  BY <1>1, <1>2, PTL DEF Spec

\* The store as its callers see it implements the abstract map: atomic_update
\* and compare_and_set are atomic, and expired entries count as gone, with
\* threads as well as with coroutines.
THEOREM Implements == Spec => AbstractSpec
<1>1. Init => Abstract!Init
  BY DEF Init, Abstract!Init, ValueOf, Fresh, Has
<1>2. StoreOK /\ [Next]_vars => [Abstract!Next]_(Abstract!vars)
  BY StepRefines
<1> QED
  BY <1>1, <1>2, StoreTyped, PTL DEF Spec, AbstractSpec, Abstract!Spec
-----------------------------------------------------------------------------
(* The observers' lists, and who has heard of what. *)

\* A list of observers: each once, and all that are there from the start.
Lists(s) ==
    /\ \A i, j \in DOMAIN s : s[i] = s[j] => i = j
    /\ \A o \in Permanent : \E i \in DOMAIN s : s[i] = o

ListsInv ==
    /\ Lists(observers)
    /\ \A c \in Callers : /\ ~live[c] => Lists(list[c])
                          /\ pc[c] # "notify" => live[c] /\ idx[c] = 1
                          /\ idx[c] >= 1
                          /\ pc[c] # "idle" => outbox[c] # <<>>

\* Who has been called for e, or will be, and how often e was logged.
CountInv ==
    \A o \in Permanent, e \in Event :
        Count(log, e) = Count(received[o], e) + Cardinality(Awaiting(o, e))

NotifyInv == TypeOK /\ ListsInv /\ CountInv

-----------------------------------------------------------------------------
(* The types of all there is. *)

\* An operation that announces nothing but entries it has swept.
Sweeps(events) ==
    /\ \A i \in 1 .. Len(events) : events[i].type = "expired"
    /\ \A k \in Keys : store'[k] \in {store[k], None}

\* An operation that changes k, in the event e.
Changed(k, e) ==
    /\ e.key = k /\ e.type \in {"set", "delete"}
    /\ \A j \in Keys : j # k => store'[j] = store[j]
    /\ Has(k)' => /\ e.type = "set"
                  /\ e.value = store'[k].value
                  /\ e.version = store'[k].version
    /\ Has(k) => /\ e.old = store[k].value
                 /\ e.version = store[k].version + (IF e.type = "set" THEN 1 ELSE 0)
    /\ ~Has(k) => e.type = "set" /\ e.version = 1

\* What an operation leaves to be logged.
Announces(c) ==
    \E events \in Seq(Event) :
        /\ Leave(c, events)
        /\ Sweeps(events) \/ \E k \in Keys, e \in Event : events = <<e>> /\ Changed(k, e)

LEMMA AnnouncesOne ==
    ASSUME NEW c \in Callers, NEW k \in Keys, NEW e \in Event, Leave(c, <<e>>), Changed(k, e)
    PROVE  Announces(c)
<1>1. <<e>> \in Seq(Event)
  OBVIOUS
<1> DEFINE events == <<e>>
<1>2. events \in Seq(Event) /\ Leave(c, events) /\ events = <<e>>
  BY <1>1
<1> HIDE DEF events
<1> QED
  BY <1>2 DEF Announces

LEMMA AnnouncesNone ==
    ASSUME NEW c \in Callers, Leave(c, <<>>), \A k \in Keys : store'[k] \in {store[k], None}
    PROVE  Announces(c)
<1>1. <<>> \in Seq(Event) /\ Sweeps(<<>>)
  BY DEF Sweeps
<1> QED
  BY <1>1 DEF Announces

LEMMA SetAnnounces ==
    ASSUME TypeOK, NEW c \in Callers, NEW k \in Keys, NEW v \in Vals, NEW ttl \in BOOLEAN,
           Set(c, k, v, ttl)
    PROVE  Announces(c)
<1> DEFINE entry == IF Has(k)
                    THEN [store[k] EXCEPT !.value = v, !.version = @ + 1,
                                          !.ttl = @ \/ ttl, !.stale = FALSE]
                    ELSE [value |-> v, version |-> 1, ttl |-> ttl, stale |-> FALSE]
           old == IF Has(k) THEN store[k].value ELSE None
           e == SetEvent(k, v, old, entry.version)
<1>1. store' = [store EXCEPT ![k] = entry] /\ Leave(c, <<e>>)
  BY DEF Set
<1>2. StoreOK
  BY DEF TypeOK, StoreOK
<1>3. /\ entry.value = v /\ entry.version \in Nat
      /\ entry.version = IF Has(k) THEN store[k].version + 1 ELSE 1
  BY <1>2, EntryFields DEF Entry
<1>4. old \in Vals \cup {None}
  BY <1>2, EntryFields
<1>5. /\ e \in Event /\ e.key = k /\ e.type = "set"
      /\ e.value = v /\ e.old = old /\ e.version = entry.version
  BY <1>3, <1>4 DEF SetEvent, Event
<1>6. store'[k] = entry /\ \A j \in Keys : j # k => store'[j] = store[j]
  BY <1>1, <1>2 DEF StoreOK
<1> HIDE DEF entry, e
<1>7. Changed(k, e)
  BY <1>3, <1>5, <1>6 DEF Changed
<1> QED
  BY <1>1, <1>5, <1>7, AnnouncesOne

LEMMA DeleteAnnounces ==
    ASSUME TypeOK, NEW c \in Callers, NEW k \in Keys, Delete(c, k)
    PROVE  Announces(c)
<1>1. StoreOK /\ store' = [store EXCEPT ![k] = None]
  BY DEF Delete, TypeOK, StoreOK
<1>2. store'[k] = None /\ \A j \in Keys : j # k => store'[j] = store[j]
  BY <1>1 DEF StoreOK
<1>3. CASE Has(k)
  <2> DEFINE e == [type |-> "delete", key |-> k, value |-> None,
                   old |-> store[k].value, version |-> store[k].version]
  <2>1. Leave(c, <<e>>)
    BY <1>3 DEF Delete
  <2>2. /\ e \in Event /\ e.key = k /\ e.type = "delete"
        /\ e.old = store[k].value /\ e.version = store[k].version
        /\ store[k].version \in Nat
    BY <1>1, <1>3, EntryFields DEF Event
  <2> HIDE DEF e
  <2>3. Changed(k, e)
    BY <1>2, <1>3, <2>2 DEF Changed, Has
  <2> QED
    BY <2>1, <2>2, <2>3, AnnouncesOne
<1>4. CASE ~Has(k)
  <2>1. Leave(c, <<>>)
    BY <1>4 DEF Delete
  <2> QED
    BY <1>2, <2>1, AnnouncesNone
<1> QED
  BY <1>3, <1>4

LEMMA ReplaceAnnounces ==
    ASSUME TypeOK, NEW c \in Callers, NEW k \in Keys, NEW v \in Vals, Fresh(k), Replace(c, k, v)
    PROVE  Announces(c)
<1> DEFINE entry == [store[k] EXCEPT !.value = v, !.version = @ + 1]
           e == SetEvent(k, v, store[k].value, store[k].version + 1)
<1>1. StoreOK /\ Has(k)
  BY DEF Fresh, TypeOK, StoreOK
<1>2. store' = [store EXCEPT ![k] = entry] /\ Leave(c, <<e>>)
  BY <1>1 DEF Replace, StoreOK
<1>3. entry.value = v /\ entry.version = store[k].version + 1 /\ store[k].version \in Nat
  BY <1>1, EntryFields DEF Entry
<1>4. /\ e \in Event /\ e.key = k /\ e.type = "set" /\ e.value = v
      /\ e.old = store[k].value /\ e.version = store[k].version + 1
  BY <1>1, EntryFields DEF SetEvent, Event
<1>5. store'[k] = entry /\ \A j \in Keys : j # k => store'[j] = store[j]
  BY <1>1, <1>2 DEF StoreOK
<1> HIDE DEF entry, e
<1>6. Changed(k, e)
  BY <1>1, <1>3, <1>4, <1>5 DEF Changed
<1> QED
  BY <1>2, <1>4, <1>6, AnnouncesOne

LEMMA RefuseAnnounces ==
    ASSUME TypeOK, NEW c \in Callers, NEW k \in Keys, Refuse(c, k)
    PROVE  Announces(c)
<1>1. \A j \in Keys : store'[j] \in {store[j], None}
  BY DEF Refuse, TypeOK
<1> QED
  BY <1>1, AnnouncesNone DEF Refuse

LEMMA SequenceOf ==
    ASSUME NEW S, NEW n \in Nat, NEW f \in [1 .. n -> S]
    PROVE  f \in Seq(S) /\ Len(f) = n
  OBVIOUS

LEMMA CleanupAnnounces ==
    ASSUME TypeOK, NEW c \in Callers, Cleanup(c)
    PROVE  Announces(c)
<1> DEFINE expired == {k \in Keys : Has(k) /\ ~Fresh(k)}
           Swept(order) == [i \in DOMAIN order |->
                              [type |-> "expired", key |-> order[i], value |-> None,
                               old |-> store[order[i]].value,
                               version |-> store[order[i]].version]]
<1>1. PICK order \in Listings(expired) : Leave(c, Swept(order))
  BY DEF Cleanup
<1>2. Cardinality(expired) \in Nat
  <2>1. expired \in SUBSET Keys
    OBVIOUS
  <2> QED
    BY <2>1, FiniteAssumption, FS_Subset, FS_CardinalityType
<1>3. order \in [1 .. Cardinality(expired) -> expired]
  BY DEF Listings
<1>4. ASSUME NEW i \in DOMAIN order PROVE Swept(order)[i] \in Event /\ Swept(order)[i].type = "expired"
  <2>1. order[i] \in Keys /\ Has(order[i])
    BY <1>3
  <2>2. StoreOK
    BY DEF TypeOK, StoreOK
  <2> QED
    BY <2>1, <2>2, EntryFields DEF Event
<1>5. DOMAIN order = 1 .. Cardinality(expired)
  BY <1>3
<1> DEFINE events == Swept(order)
<1>6. events \in Seq(Event) /\ Leave(c, events) /\ \A i \in 1 .. Len(events) : events[i].type = "expired"
  <2>1. events \in [1 .. Cardinality(expired) -> Event]
    BY <1>4, <1>5
  <2>2. Len(events) = Cardinality(expired)
    BY <1>2, <1>5
  <2>3. events \in Seq(Event)
    <3> HIDE DEF events, expired
    <3> QED
      BY <1>2, <2>1, SequenceOf
  <2>4. \A i \in 1 .. Len(events) : events[i].type = "expired"
    BY <1>4, <1>5, <2>2
  <2> QED
    BY <1>1, <2>3, <2>4
<1> HIDE DEF events
<1>7. \A k \in Keys : store'[k] \in {store[k], None}
  BY DEF Cleanup
<1> QED
  BY <1>6, <1>7 DEF Announces, Sweeps

LEMMA OperationAnnounces ==
    ASSUME TypeOK, NEW c \in Callers, Operation(c)
    PROVE  pc[c] = "idle" /\ MayRun(c) /\ Announces(c)
<1>1. ASSUME NEW k \in Keys, NEW v \in Vals, NEW ttl \in BOOLEAN, Set(c, k, v, ttl)
      PROVE  pc[c] = "idle" /\ MayRun(c) /\ Announces(c)
  BY <1>1, SetAnnounces DEF Set, Enter
<1>2. ASSUME NEW k \in Keys, Delete(c, k) PROVE pc[c] = "idle" /\ MayRun(c) /\ Announces(c)
  BY <1>2, DeleteAnnounces DEF Delete, Enter
<1>3. ASSUME NEW k \in Keys, Get(c, k) PROVE pc[c] = "idle" /\ MayRun(c) /\ Announces(c)
  <2>1. Refuse(c, k)
    BY <1>3 DEF Get, Refuse
  <2> QED
    BY <1>3, <2>1, RefuseAnnounces DEF Get, Enter
<1>4. ASSUME NEW k \in Keys, AtomicUpdate(c, k) PROVE pc[c] = "idle" /\ MayRun(c) /\ Announces(c)
  <2>1. pc[c] = "idle" /\ MayRun(c) /\ ((Fresh(k) /\ Replace(c, k, Update[store[k].value])) \/ Refuse(c, k))
    BY <1>4 DEF AtomicUpdate, Enter
  <2>2. Fresh(k) => Update[store[k].value] \in Vals
    BY EntryFields, UpdateAssumption DEF Fresh, TypeOK, StoreOK
  <2> QED
    BY <2>1, <2>2, ReplaceAnnounces, RefuseAnnounces
<1>5. ASSUME NEW k \in Keys, NEW e \in Vals, NEW n \in Vals, CompareAndSet(c, k, e, n)
      PROVE  pc[c] = "idle" /\ MayRun(c) /\ Announces(c)
  <2>1. /\ pc[c] = "idle" /\ MayRun(c)
        /\ (ValueOf(k) = e /\ Replace(c, k, n)) \/ Refuse(c, k)
    BY <1>5 DEF CompareAndSet, Enter
  <2>2. ValueOf(k) = e => Fresh(k)
    BY NoneAssumption DEF ValueOf
  <2> QED
    BY <2>1, <2>2, ReplaceAnnounces, RefuseAnnounces
<1>6. CASE KeysCall(c) \/ ClearCall(c)
  <2>1. \A k \in Keys : store'[k] \in {store[k], None}
    BY <1>6 DEF KeysCall, ClearCall
  <2>2. pc[c] = "idle" /\ MayRun(c) /\ Leave(c, <<>>)
    BY <1>6 DEF KeysCall, ClearCall, Enter
  <2> QED
    BY <2>1, <2>2, AnnouncesNone
<1>7. CASE Cleanup(c)
  BY <1>7, CleanupAnnounces DEF Cleanup, Enter
<1> QED
  BY <1>1, <1>2, <1>3, <1>4, <1>5, <1>6, <1>7 DEF Operation

LEMMA LongTail ==
    ASSUME NEW S, NEW s \in Seq(S), s # <<>>
    PROVE  Len(s) # 1 => Len(s) > 1 /\ Tail(s) # <<>>
<1>1. Len(s) \in Nat /\ Len(s) # 0
  OBVIOUS
<1>2. Len(Tail(s)) = Len(s) - 1
  BY HeadTailProperties
<1>3. Len(s) # 1 => Len(s) > 1 /\ Len(Tail(s)) # 0
  BY <1>1, <1>2
<1>4. Len(<<>>) = 0
  OBVIOUS
<1> QED
  BY <1>3, <1>4

LEMMA TailMoves ==
    ASSUME NEW S, NEW s \in Seq(S), s # <<>>
    PROVE  /\ Len(Tail(s)) = Len(s) - 1 /\ Len(s) \in Nat /\ Len(s) >= 1
           /\ \A i \in 2 .. Len(Tail(s)) : Tail(s)[i] = s[i + 1] /\ i + 1 \in 2 .. Len(s)
<1>1. Len(s) \in Nat /\ Len(s) >= 1
  OBVIOUS
<1>2. /\ Len(Tail(s)) = Len(s) - 1
      /\ \A i \in 1 .. Len(Tail(s)) : Tail(s)[i] = s[i + 1]
  BY HeadTailProperties
<1>3. \A i \in 2 .. (Len(s) - 1) : i \in 1 .. (Len(s) - 1) /\ i + 1 \in 2 .. Len(s)
  BY <1>1
<1> QED
  BY <1>1, <1>2, <1>3

LEMMA WithoutTyped ==
    ASSUME NEW S, NEW s \in Seq(S), NEW i \in DOMAIN s
    PROVE  SubSeq(s, 1, i - 1) \o SubSeq(s, i + 1, Len(s)) \in Seq(S)
<1>1. SubSeq(s, 1, i - 1) \in Seq(S) /\ SubSeq(s, i + 1, Len(s)) \in Seq(S)
  OBVIOUS
<1> QED
  BY <1>1

LEMMA TypesStep ==
    ASSUME TypeOK, ListsInv, [Next]_vars
    PROVE  TypeOK'
<1>1. store' \in [Keys -> Entry \cup {None}]
  BY StepRefines DEF TypeOK, StoreOK
<1>2. ASSUME NEW c \in Callers, Operation(c) PROVE TypeOK'
  <2>1. PICK events \in Seq(Event) : Leave(c, events)
    BY <1>2, OperationAnnounces DEF Announces
  <2>2. /\ outbox' \in [Callers -> Seq(Event)]
        /\ pc' \in [Callers -> {"idle", "log", "notify"}]
        /\ running' \in Callers \cup {None}
    BY <2>1 DEF Leave, TypeOK
  <2> QED
    BY <1>1, <2>1, <2>2 DEF Leave, TypeOK, walk
<1>3. ASSUME NEW c \in Callers, Log(c) PROVE TypeOK'
  <2>1. outbox[c] # <<>> /\ outbox[c] \in Seq(Event)
    BY <1>3 DEF Log, ListsInv, TypeOK
  <2>2. log' \in Seq(Event) /\ pc' \in [Callers -> {"idle", "log", "notify"}]
    BY <1>3, <2>1 DEF Log, TypeOK
  <2> QED
    BY <1>1, <1>3, <2>2 DEF Log, TypeOK, walk
<1>4. ASSUME NEW c \in Callers, Notify(c) PROVE TypeOK'
  <2>1. outbox[c] # <<>> /\ outbox[c] \in Seq(Event)
    BY <1>4 DEF Notify, ListsInv, TypeOK
  <2>2. Walked(c) \in Seq(Observers) /\ idx[c] \in Nat
    BY DEF Walked, TypeOK
  <2> DEFINE o == Walked(c)[idx[c]]
  <2>3. received' = [received EXCEPT ![o] = Append(@, Head(outbox[c]))] /\ idx' = [idx EXCEPT ![c] = @ + 1]
    BY <1>4 DEF Notify
  <2>4. received' \in [Observers -> Seq(Event)]
    <3> HIDE DEF o
    <3>1. Head(outbox[c]) \in Event
      BY <2>1
    <3>2. CASE o \in Observers
      <4>1. Append(received[o], Head(outbox[c])) \in Seq(Event)
        BY <3>1, <3>2 DEF TypeOK
      <4> QED
        BY <2>3, <3>2, <4>1 DEF TypeOK
    <3>3. CASE o \notin Observers
      BY <2>3, <3>3 DEF TypeOK
    <3> QED
      BY <3>2, <3>3
  <2>5. idx' \in [Callers -> Nat]
    BY <2>3 DEF TypeOK
  <2> QED
    BY <1>1, <1>4, <2>4, <2>5 DEF Notify, TypeOK
<1>5. ASSUME NEW c \in Callers, Finish(c) PROVE TypeOK'
  <2>1. outbox[c] # <<>> /\ outbox[c] \in Seq(Event)
    BY <1>5 DEF Finish, ListsInv, TypeOK
  <2>2. Tail(outbox[c]) \in Seq(Event) /\ <<>> \in Seq(Observers)
    BY <2>1
  <2>3. /\ outbox' \in [Callers -> Seq(Event)]
        /\ pc' \in [Callers -> {"idle", "log", "notify"}]
        /\ running' \in Callers \cup {None}
    BY <1>5, <2>2 DEF Finish, TypeOK
  <2>4. /\ live' \in [Callers -> BOOLEAN]
        /\ list' \in [Callers -> Seq(Observers)]
        /\ idx' \in [Callers -> Nat]
    BY <1>5, <2>2 DEF Finish, TypeOK
  <2> QED
    BY <1>1, <1>5, <2>3, <2>4 DEF Finish, TypeOK
<1>6. ASSUME NEW o \in Observers, Observe(o) PROVE TypeOK'
  <2>1. observers' \in Seq(Observers)
    BY <1>6 DEF Observe, TypeOK
  <2>2. UNCHANGED <<log, outbox, pc, live, list, idx, running, received>>
    BY <1>6 DEF Observe, walk
  <2> QED
    BY <1>1, <2>1, <2>2 DEF TypeOK
<1>7. ASSUME NEW o \in Observers, Unobserve(o) PROVE TypeOK'
  <2>1. observers' \in Seq(Observers)
    BY <1>7, WithoutTyped DEF Unobserve, TypeOK
  <2>2. \A c \in Callers : Walked(c) \in Seq(Observers)
    BY DEF Walked, TypeOK
  <2>3. live' \in [Callers -> BOOLEAN] /\ list' \in [Callers -> Seq(Observers)]
    BY <1>7, <2>2 DEF Unobserve, TypeOK
  <2> QED
    BY <1>1, <1>7, <2>1, <2>3 DEF Unobserve, TypeOK
<1>8. ASSUME NEW k \in Keys, Expire(k) PROVE TypeOK'
  BY <1>1, <1>8 DEF Expire, TypeOK, walk
<1>9. CASE UNCHANGED vars
  BY <1>9 DEF vars, TypeOK, walk
<1> QED
  BY <1>2, <1>3, <1>4, <1>5, <1>6, <1>7, <1>8, <1>9 DEF Next, Continue

-----------------------------------------------------------------------------
(* The history of changes.  OneLoop: with threads, another call may come between *)
(* a change and its event.                                                      *)

\* Of the callers, the one that has the loop is in the middle of a call, and only
\* it has changed the store without having logged that.
LoopInv ==
    /\ running # None => pc[running] # "idle"
    /\ \A c \in Callers : pc[c] = "log" => running = c
    /\ \A c \in Callers : pc[c] # "idle" => outbox[c] # <<>>
    /\ \A c \in Callers : \A i \in 2 .. Len(outbox[c]) : outbox[c][i].type = "expired"

Recent(S, i) == i \in S /\ \A j \in S : j <= i

\* Event e says what is stored under k.
Tells(e, k) == e.type = "set" /\ e.value = store[k].value /\ e.version = store[k].version

\* Event e takes up what the last of the changes S has left.
Follows(e, S) ==
    LET base == e.version - IF e.type = "set" THEN 1 ELSE 0
    IN  base > 0 => \E j \in S : /\ Recent(S, j)
                                 /\ log[j].type = "set"
                                 /\ log[j].version = base
                                 /\ log[j].value = e.old

\* Caller c is about to log a set or a delete of k.
Pends(c, k) == pc[c] = "log" /\ outbox[c][1].key = k /\ outbox[c][1].type # "expired"

Told(k) == \E i \in Changes(k) : Recent(Changes(k), i) /\ Tells(log[i], k)

TellInv ==
    \A k \in Keys :
        /\ Has(k) => Told(k) \/ \E c \in Callers : Pends(c, k)
        /\ \A c \in Callers : Pends(c, k) => /\ Has(k) => Tells(outbox[c][1], k)
                                             /\ Follows(outbox[c][1], Changes(k))
        /\ \A i \in Changes(k) : Follows(log[i], {j \in Changes(k) : j < i})

\* What holds between two steps of a call: with one loop, only the call that has
\* the loop can be between its change and the event that tells of it.
LEMMA LoopStep ==
    ASSUME OneLoop = TRUE, TypeOK, LoopInv, TypeOK', [Next]_vars
    PROVE  LoopInv'
<1> USE DEF LoopInv
<1>1. ASSUME NEW c \in Callers, Operation(c) PROVE LoopInv'
  <2>1. pc[c] = "idle" /\ running = None
    <3>1. running \in {None, c} /\ pc[c] = "idle"
      BY <1>1, OperationAnnounces DEF MayRun
    <3> QED
      BY <3>1
  <2>2. PICK events \in Seq(Event) :
           /\ Leave(c, events)
           /\ \A i \in 2 .. Len(events) : events[i].type = "expired"
    <3>1. PICK events \in Seq(Event) :
            /\ Leave(c, events)
            /\ Sweeps(events) \/ \E k \in Keys, e \in Event : events = <<e>> /\ Changed(k, e)
      BY <1>1, OperationAnnounces DEF Announces
    <3>2. \A i \in 2 .. Len(events) : events[i].type = "expired"
      BY <3>1 DEF Sweeps
    <3> QED
      BY <3>1, <3>2
  <2>3. /\ outbox' = [outbox EXCEPT ![c] = events]
        /\ pc' = [pc EXCEPT ![c] = IF events = <<>> THEN "idle" ELSE "log"]
        /\ running' = IF events # <<>> THEN c ELSE None
    BY <2>2 DEF Leave
  <2>4. outbox'[c] = events /\ \A d \in Callers : d # c => outbox'[d] = outbox[d]
    BY <2>3 DEF TypeOK
  <2>5. /\ pc'[c] = IF events = <<>> THEN "idle" ELSE "log"
        /\ \A d \in Callers : d # c => pc'[d] = pc[d]
    BY <2>3 DEF TypeOK
  <2>6. \A d \in Callers : d # c => pc[d] # "log"
    BY <2>1, NoneAssumption
  <2> QED
    BY <2>2, <2>3, <2>4, <2>5, <2>6
<1>2. ASSUME NEW c \in Callers, Log(c) PROVE LoopInv'
  <2>1. pc'[c] = "notify" /\ \A d \in Callers : d # c => pc'[d] = pc[d]
    BY <1>2 DEF Log, TypeOK
  <2>2. running = c /\ running' = running /\ outbox' = outbox
    BY <1>2 DEF Log
  <2> QED
    BY <1>2, <2>1, <2>2 DEF Log
<1>3. ASSUME NEW c \in Callers, Notify(c) PROVE LoopInv'
  <2>1. running' = None /\ outbox' = outbox /\ pc' = pc
    BY <1>3 DEF Notify
  <2>2. \A d \in Callers : pc[d] # "log"
    BY <1>3, NoneAssumption DEF Notify, MayRun
  <2> QED
    BY <2>1, <2>2
<1>4. ASSUME NEW c \in Callers, Finish(c) PROVE LoopInv'
  <2>1. outbox[c] # <<>> /\ outbox[c] \in Seq(Event) /\ pc[c] = "notify" /\ running \in {None, c}
    BY <1>4 DEF Finish, MayRun, TypeOK
  <2>2. /\ outbox'[c] = Tail(outbox[c])
        /\ \A d \in Callers : d # c => outbox'[d] = outbox[d]
    BY <1>4 DEF Finish, TypeOK
  <2>3. /\ pc'[c] = IF Len(outbox[c]) = 1 THEN "idle" ELSE "log"
        /\ \A d \in Callers : d # c => pc'[d] = pc[d]
    BY <1>4 DEF Finish, TypeOK
  <2>4. running' = IF Len(outbox[c]) > 1 THEN c ELSE None
    BY <1>4 DEF Finish
  <2>5. /\ Len(outbox'[c]) = Len(outbox[c]) - 1 /\ Len(outbox[c]) \in Nat /\ Len(outbox[c]) >= 1
        /\ \A i \in 2 .. Len(outbox'[c]) : outbox'[c][i] = outbox[c][i + 1] /\ i + 1 \in 2 .. Len(outbox[c])
    BY <2>1, <2>2, TailMoves
  <2>6. \A i \in 2 .. Len(outbox'[c]) : outbox'[c][i].type = "expired"
    BY <2>5
  <2>7. \A d \in Callers : d # c => pc[d] # "log"
    BY <2>1, NoneAssumption
  <2>8. Len(outbox[c]) # 1 => Len(outbox[c]) > 1 /\ Tail(outbox[c]) # <<>>
    BY <2>1, LongTail
  <2>9. pc'[c] # "idle" => outbox'[c] # <<>>
    BY <2>2, <2>3, <2>8
  <2>10. running' # None => pc'[running'] # "idle"
    BY <2>3, <2>4
  <2>11. \A d \in Callers : pc'[d] = "log" => running' = d
    <3>1. pc'[c] = "log" => Len(outbox[c]) > 1
      BY <2>3, <2>8
    <3> QED
      BY <2>3, <2>4, <2>7, <3>1
  <2>12. \A d \in Callers : pc'[d] # "idle" => outbox'[d] # <<>>
    BY <2>2, <2>3, <2>9
  <2>13. \A d \in Callers : \A i \in 2 .. Len(outbox'[d]) : outbox'[d][i].type = "expired"
    <3>1. \A d \in Callers : d # c => \A i \in 2 .. Len(outbox'[d]) : outbox'[d][i].type = "expired"
      BY <2>2
    <3> QED
      BY <2>6, <3>1
  <2> QED
    BY <2>10, <2>11, <2>12, <2>13
<1>5. ASSUME UNCHANGED <<running, pc, outbox>> PROVE LoopInv'
  BY <1>5
<1>6. ASSUME NEW o \in Observers, Observe(o) \/ Unobserve(o) PROVE LoopInv'
  BY <1>5, <1>6 DEF Observe, Unobserve
<1>7. ASSUME NEW k \in Keys, Expire(k) PROVE LoopInv'
  BY <1>5, <1>7 DEF Expire
<1>8. CASE UNCHANGED vars
  BY <1>5, <1>8 DEF vars
<1> QED
  BY <1>1, <1>2, <1>3, <1>4, <1>6, <1>7, <1>8 DEF Next, Continue

\* A step that changes neither log nor values nor what is about to be logged.
LEMMA TellSame ==
    ASSUME TellInv, log' = log,
           \A k \in Keys : Has(k)' => /\ Has(k)
                                      /\ store'[k].value = store[k].value
                                      /\ store'[k].version = store[k].version,
           \A c \in Callers, k \in Keys : Pends(c, k)' <=> Pends(c, k),
           \A c \in Callers, k \in Keys : Pends(c, k) => outbox'[c][1] = outbox[c][1]
    PROVE  TellInv'
<1>1. \A k \in Keys : Changes(k)' = Changes(k)
  BY DEF Changes
<1>2. ASSUME NEW e, NEW S PROVE Follows(e, S)' <=> Follows(e, S)
  BY DEF Follows, Recent
<1>3. ASSUME NEW e, NEW k \in Keys, Has(k)' PROVE Tells(e, k) => Tells(e, k)'
  BY <1>3 DEF Tells
<1>4. ASSUME NEW k \in Keys, Has(k)' PROVE Told(k)' \/ \E c \in Callers : Pends(c, k)'
  <2>1. Told(k) \/ \E c \in Callers : Pends(c, k)
    BY <1>4 DEF TellInv
  <2>2. Told(k) => Told(k)'
    BY <1>1, <1>3, <1>4 DEF Told, Recent
  <2> QED
    BY <2>1, <2>2
<1>5. ASSUME NEW k \in Keys, NEW c \in Callers, Pends(c, k)'
      PROVE  (Has(k)' => Tells(outbox[c][1], k)') /\ Follows(outbox[c][1], Changes(k))' /\ outbox'[c][1] = outbox[c][1]
  <2>1. Pends(c, k) /\ outbox'[c][1] = outbox[c][1]
    BY <1>5
  <2>2. (Has(k) => Tells(outbox[c][1], k)) /\ Follows(outbox[c][1], Changes(k))
    BY <2>1 DEF TellInv
  <2> QED
    BY <1>1, <1>2, <1>3, <2>1, <2>2 DEF Follows, Recent
<1>6. ASSUME NEW k \in Keys, NEW i \in Changes(k)
      PROVE  Follows(log[i], {j \in Changes(k) : j < i})'
  BY <1>1, <1>2, <1>6 DEF TellInv, Follows, Recent
<1> QED
  BY <1>1, <1>4, <1>5, <1>6 DEF TellInv, Tells, Follows

LEMMA SweepTells ==
    ASSUME TypeOK, LoopInv, TellInv, running = None, NEW c \in Callers, NEW events \in Seq(Event),
           Leave(c, events), Sweeps(events)
    PROVE  TellInv'
<1>1. log' = log
  BY DEF Leave
<1>2. \A d \in Callers : pc[d] # "log"
  BY NoneAssumption DEF LoopInv
<1>3. ASSUME NEW d \in Callers, NEW k \in Keys PROVE ~Pends(d, k) /\ ~Pends(d, k)'
  <2>1. CASE d = c
    <3>1. outbox'[c] = events /\ (pc'[c] = "log" => events # <<>>)
      BY DEF Leave, TypeOK
    <3>2. events # <<>> => 1 \in 1 .. Len(events)
      OBVIOUS
    <3>3. events # <<>> => events[1].type = "expired"
      BY <3>2 DEF Sweeps
    <3> QED
      BY <1>2, <2>1, <3>1, <3>3 DEF Pends
  <2>2. CASE d # c
    <3>1. pc'[d] = pc[d]
      BY <2>2 DEF Leave, TypeOK
    <3> QED
      BY <1>2, <3>1 DEF Pends
  <2> QED
    BY <2>1, <2>2
<1>4. ASSUME NEW k \in Keys, Has(k)' PROVE Has(k) /\ store'[k] = store[k]
  BY <1>4 DEF Has, Sweeps
<1> QED
  BY <1>1, <1>3, <1>4, TellSame

LEMMA ChangeTells ==
    ASSUME TypeOK, LoopInv, TellInv, running = None, NEW c \in Callers, NEW k \in Keys, NEW e \in Event,
           Leave(c, <<e>>), Changed(k, e)
    PROVE  TellInv'
<1>1. log' = log /\ outbox'[c] = <<e>> /\ outbox'[c][1] = e
  BY DEF Leave, TypeOK
<1>2. \A d \in Callers : pc[d] # "log"
  BY NoneAssumption DEF LoopInv
<1>3. <<e>> # <<>>
  OBVIOUS
<1>4. pc'[c] = "log" /\ \A d \in Callers : d # c => pc'[d] # "log"
  BY <1>2, <1>3 DEF Leave, TypeOK
<1>5. ASSUME NEW d \in Callers, NEW j \in Keys PROVE Pends(d, j)' <=> d = c /\ j = k
  BY <1>1, <1>4 DEF Pends, Changed
<1>6. \A j \in Keys : Changes(j)' = Changes(j)
  BY <1>1 DEF Changes
<1>7. \A j \in Keys : Has(j) => Told(j)
  BY <1>2 DEF TellInv, Pends
<1>8. Follows(e, Changes(k))
  <2>1. CASE Has(k)
    <3>1. store[k].version \in Nat
      BY <2>1, EntryFields DEF TypeOK, StoreOK
    <3>2. e.version - (IF e.type = "set" THEN 1 ELSE 0) = store[k].version /\ e.old = store[k].value
      BY <2>1, <3>1 DEF Changed
    <3>3. PICK i \in Changes(k) : Recent(Changes(k), i) /\ Tells(log[i], k)
      BY <1>7, <2>1 DEF Told
    <3> QED
      BY <3>2, <3>3 DEF Follows, Tells
  <2>2. CASE ~Has(k)
    BY <2>2 DEF Follows, Changed
  <2> QED
    BY <2>1, <2>2
<1>9. ASSUME NEW j \in Keys, j # k, Has(j)' PROVE Told(j)'
  <2>1. Has(j) /\ store'[j] = store[j]
    BY <1>9 DEF Changed, Has
  <2>2. PICK i \in Changes(j) : Recent(Changes(j), i) /\ Tells(log[i], j)
    BY <1>7, <2>1 DEF Told
  <2>3. i \in Changes(j)' /\ Recent(Changes(j), i)' /\ Tells(log[i], j)'
    BY <1>1, <1>6, <2>1, <2>2 DEF Recent, Tells
  <2> QED
    BY <2>3 DEF Told
<1>10. Has(k)' => Tells(e, k)'
  BY DEF Changed, Tells
<1>11. ASSUME NEW j \in Keys, NEW i \in Changes(j)' PROVE Follows(log[i], {m \in Changes(j) : m < i})'
  <2>1. Follows(log[i], {m \in Changes(j) : m < i})
    BY <1>6, <1>11 DEF TellInv
  <2> QED
    BY <1>1, <1>6, <2>1 DEF Follows, Recent
<1>12. Follows(e, Changes(k))'
  BY <1>1, <1>6, <1>8 DEF Follows, Recent
<1>13. ASSUME NEW j \in Keys, Has(j)' PROVE Told(j)' \/ \E d \in Callers : Pends(d, j)'
  BY <1>5, <1>9, <1>13
<1>14. ASSUME NEW j \in Keys, NEW d \in Callers, Pends(d, j)'
       PROVE (Has(j)' => Tells(outbox[d][1], j)') /\ Follows(outbox[d][1], Changes(j))'
  <2>1. d = c /\ j = k
    BY <1>5, <1>14
  <2> QED
    BY <1>1, <1>10, <1>12, <2>1 DEF Tells, Follows
<1> QED
  BY <1>11, <1>13, <1>14 DEF TellInv

\* A logged event is the last change of its key, or no change.
LEMMA LogTells ==
    ASSUME OneLoop = TRUE, TypeOK, LoopInv, TellInv, NEW c \in Callers, Log(c)
    PROVE  TellInv'
<1>1. /\ outbox[c] # <<>> /\ outbox[c] \in Seq(Event) /\ outbox[c][1] \in Event
      /\ Head(outbox[c]) = outbox[c][1]
      /\ pc[c] = "log" /\ running = c /\ log \in Seq(Event) /\ Len(log) \in Nat
  BY DEF Log, LoopInv, TypeOK
<1> PICK e \in Event : e = outbox[c][1]
  BY <1>1
<1> PICK n \in Nat : n = Len(log) + 1
  BY <1>1
<1>2. /\ log' = Append(log, e) /\ store' = store /\ outbox' = outbox
      /\ pc'[c] = "notify" /\ \A d \in Callers : d # c => pc'[d] = pc[d]
  BY <1>1 DEF Log, TypeOK
<1>3. /\ DOMAIN log = 1 .. Len(log) /\ DOMAIN log' = 1 .. n /\ log'[n] = e
      /\ \A i \in 1 .. Len(log) : log'[i] = log[i]
  BY <1>1, <1>2
<1>4. /\ (\A i \in 1 .. Len(log) : i \in Nat /\ i < n) /\ n \notin 1 .. Len(log)
      /\ 1 .. n = (1 .. Len(log)) \cup {n}
  BY <1>1
<1>5. ASSUME NEW k \in Keys
      PROVE  Changes(k)' = IF e.key = k /\ e.type # "expired" THEN Changes(k) \cup {n} ELSE Changes(k)
  BY <1>3, <1>4 DEF Changes
<1>6. \A k \in Keys : Changes(k) \subseteq 1 .. Len(log)
  BY <1>3 DEF Changes
<1>7. ASSUME NEW d \in Callers, NEW k \in Keys
      PROVE  ~Pends(d, k)' /\ (Pends(d, k) <=> d = c /\ e.key = k /\ e.type # "expired")
  <2>1. pc[d] = "log" => d = c
    BY <1>1 DEF LoopInv
  <2> QED
    BY <1>1, <1>2, <2>1 DEF Pends
<1>8. ASSUME NEW f \in Event, NEW S, S \subseteq 1 .. Len(log), Follows(f, S)
      PROVE  Follows(f, S)'
  BY <1>3, <1>8 DEF Follows, Recent
<1>9. ASSUME NEW k \in Keys, NEW i \in Changes(k)'
      PROVE  Follows(log[i], {j \in Changes(k) : j < i})'
  <2>1. CASE i = n
    <3>1. e.key = k /\ e.type # "expired"
      BY <1>4, <1>5, <1>6, <1>9, <2>1
    <3>2. Follows(e, Changes(k))
      BY <1>7, <3>1 DEF TellInv
    <3>3. {j \in Changes(k)' : j < i} = Changes(k)
      BY <1>4, <1>5, <1>6, <2>1, <3>1
    <3>4. log'[i] = e
      BY <1>3, <2>1
    <3>5. Follows(e, Changes(k)) => \A S : S = Changes(k) => Follows(e, S)
      OBVIOUS
    <3> QED
      BY <1>1, <1>3, <1>6, <3>2, <3>3, <3>4 DEF Follows, Recent
  <2>2. CASE i # n
    <3>1. i \in Changes(k) /\ i \in 1 .. Len(log)
      BY <1>5, <1>6, <1>9, <2>2
    <3>2. {j \in Changes(k)' : j < i} = {j \in Changes(k) : j < i}
      BY <1>4, <1>5, <1>6, <3>1
    <3>3. Follows(log[i], {j \in Changes(k) : j < i})
      BY <3>1 DEF TellInv
    <3>4. log'[i] = log[i] /\ log[i] \in Event
      BY <1>1, <1>3, <3>1
    <3> QED
      BY <1>3, <1>6, <3>2, <3>3, <3>4 DEF Follows, Recent
  <2> QED
    BY <2>1, <2>2
<1>10. ASSUME NEW k \in Keys, Has(k)' PROVE Told(k)'
  <2>1. Has(k)
    BY <1>2, <1>10 DEF Has
  <2>2. CASE e.key = k /\ e.type # "expired"
    <3>1. Tells(e, k)
      BY <1>7, <2>1, <2>2 DEF TellInv
    <3>2. n \in Changes(k)' /\ Recent(Changes(k), n)'
      <4>1. Changes(k)' = Changes(k) \cup {n}
        BY <1>5, <2>2
      <4>2. \A j \in Changes(k) : j <= n
        BY <1>4, <1>6
      <4> QED
        BY <4>1, <4>2 DEF Recent
    <3>3. Tells(log[n], k)'
      BY <1>2, <1>3, <3>1 DEF Tells
    <3> QED
      BY <3>2, <3>3 DEF Told
  <2>3. CASE ~(e.key = k /\ e.type # "expired")
    <3>1. PICK i \in Changes(k) : Recent(Changes(k), i) /\ Tells(log[i], k)
      BY <1>7, <2>1, <2>3 DEF TellInv, Told
    <3>2. i \in Changes(k)' /\ Recent(Changes(k), i)' /\ log'[i] = log[i]
      BY <1>3, <1>5, <1>6, <2>3, <3>1 DEF Recent
    <3>3. Tells(log[i], k)'
      BY <1>2, <3>1, <3>2 DEF Tells
    <3> QED
      BY <3>2, <3>3 DEF Told
  <2> QED
    BY <2>2, <2>3
<1> QED
  BY <1>7, <1>9, <1>10 DEF TellInv

LEMMA Beyond ==
    ASSUME NEW n \in Nat, n # 0, n # 1
    PROVE  2 \in 2 .. n /\ 1 \in 1 .. n - 1
  OBVIOUS

LEMMA HistoryStep ==
    ASSUME OneLoop = TRUE, TypeOK, LoopInv, TellInv, [Next]_vars
    PROVE  TellInv'
<1>1. ASSUME NEW c \in Callers, Operation(c) PROVE TellInv'
  <2>1. running = None
    <3>1. running \in {None, c} /\ pc[c] = "idle"
      BY <1>1, OperationAnnounces DEF MayRun
    <3> QED
      BY <3>1 DEF LoopInv
  <2>2. Announces(c)
    BY <1>1, OperationAnnounces
  <2> QED
    BY <2>1, <2>2, SweepTells, ChangeTells DEF Announces
<1>2. ASSUME NEW c \in Callers, Log(c) PROVE TellInv'
  BY <1>2, LogTells
<1>3. ASSUME UNCHANGED <<store, log, pc, outbox>> PROVE TellInv'
  <2>1. \A k \in Keys : Has(k)' => Has(k) /\ store'[k] = store[k]
    BY <1>3 DEF Has
  <2>2. \A c \in Callers, k \in Keys : Pends(c, k)' <=> Pends(c, k)
    BY <1>3 DEF Pends
  <2> QED
    BY <1>3, <2>1, <2>2, TellSame
<1>4. ASSUME NEW c \in Callers, Notify(c) PROVE TellInv'
  BY <1>3, <1>4 DEF Notify
<1>5. ASSUME NEW c \in Callers, Finish(c) PROVE TellInv'
  <2>1. pc[c] = "notify" /\ outbox[c] # <<>> /\ outbox[c] \in Seq(Event) /\ store' = store /\ log' = log
    BY <1>5 DEF Finish, LoopInv, TypeOK
  <2>2. /\ outbox'[c] = Tail(outbox[c])
        /\ \A d \in Callers : d # c => outbox'[d] = outbox[d] /\ pc'[d] = pc[d]
        /\ pc'[c] = IF Len(outbox[c]) = 1 THEN "idle" ELSE "log"
    BY <1>5 DEF Finish, TypeOK
  <2>3. ASSUME pc'[c] = "log" PROVE outbox'[c][1].type = "expired"
    <3>1. Len(outbox[c]) \in Nat /\ Len(outbox[c]) # 1 /\ Len(outbox[c]) # 0
      BY <2>1, <2>2, <2>3
    <3>2. 2 \in 2 .. Len(outbox[c]) /\ 1 \in 1 .. Len(outbox[c]) - 1
      BY <3>1, Beyond
    <3>3. Tail(outbox[c])[1] = outbox[c][2]
      BY <2>1, <3>2, HeadTailProperties
    <3> QED
      BY <2>2, <3>2, <3>3 DEF LoopInv
  <2>4. ASSUME NEW d \in Callers, NEW k \in Keys
        PROVE (Pends(d, k)' <=> Pends(d, k)) /\ (Pends(d, k) => outbox'[d][1] = outbox[d][1])
    BY <2>1, <2>2, <2>3 DEF Pends
  <2>5. \A k \in Keys : Has(k)' => Has(k) /\ store'[k] = store[k]
    BY <2>1 DEF Has
  <2> QED
    BY <2>1, <2>4, <2>5, TellSame
<1>6. ASSUME NEW o \in Observers, Observe(o) \/ Unobserve(o) PROVE TellInv'
  BY <1>3, <1>6 DEF Observe, Unobserve
<1>7. ASSUME NEW k \in Keys, Expire(k) PROVE TellInv'
  <2>1. Has(k) /\ StoreOK /\ store' = [store EXCEPT ![k].stale = TRUE] /\ UNCHANGED <<log, pc, outbox>>
    BY <1>7 DEF Expire, Fresh, TypeOK, StoreOK
  <2>2. store[k] \in Entry
    BY <2>1, EntryFields
  <2>3. store'[k].value = store[k].value /\ store'[k].version = store[k].version
    BY <2>1, <2>2 DEF StoreOK, Entry
  <2>4. \A j \in Keys : j # k => store'[j] = store[j]
    BY <2>1 DEF StoreOK
  <2>5. ASSUME NEW j \in Keys, Has(j)'
        PROVE  Has(j) /\ store'[j].value = store[j].value /\ store'[j].version = store[j].version
    BY <2>1, <2>3, <2>4, <2>5 DEF Has
  <2>6. \A c \in Callers, j \in Keys : Pends(c, j)' <=> Pends(c, j)
    BY <2>1 DEF Pends
  <2> QED
    BY <2>1, <2>5, <2>6, TellSame
<1>8. CASE UNCHANGED vars
  BY <1>3, <1>8 DEF vars
<1> QED
  BY <1>1, <1>2, <1>4, <1>5, <1>6, <1>7, <1>8 DEF Next, Continue
-----------------------------------------------------------------------------
(* Notification. *)

\* Binding a list without one place takes nobody else from it.
LEMMA WithoutLists ==
    ASSUME NEW s \in Seq(Observers), Lists(s), NEW i \in DOMAIN s, s[i] \notin Permanent
    PROVE  Lists(SubSeq(s, 1, i - 1) \o SubSeq(s, i + 1, Len(s)))
<1> DEFINE t == SubSeq(s, 1, i - 1) \o SubSeq(s, i + 1, Len(s))
           At(j) == IF j < i THEN j ELSE j + 1
<1>1. i \in Nat /\ i >= 1 /\ i <= Len(s) /\ Len(s) \in Nat /\ DOMAIN s = 1 .. Len(s)
  OBVIOUS
<1>2. /\ Len(SubSeq(s, 1, i - 1)) = i - 1
      /\ Len(SubSeq(s, i + 1, Len(s))) = Len(s) - i
      /\ SubSeq(s, 1, i - 1) \in Seq(Observers) /\ SubSeq(s, i + 1, Len(s)) \in Seq(Observers)
  BY <1>1
<1>3. DOMAIN t = 1 .. (Len(s) - 1)
  BY <1>1, <1>2
<1>4. ASSUME NEW j \in DOMAIN t PROVE t[j] = s[At(j)] /\ At(j) \in DOMAIN s /\ j \in Nat
  <2>1. j \in Nat /\ j >= 1 /\ j <= Len(s) - 1
    BY <1>1, <1>3, <1>4
  <2>2. CASE j < i
    <3>1. t[j] = SubSeq(s, 1, i - 1)[j]
      BY <1>1, <1>2, <2>1, <2>2
    <3>2. SubSeq(s, 1, i - 1)[j] = s[j]
      BY <1>1, <2>1, <2>2
    <3> QED
      BY <1>1, <2>1, <2>2, <3>1, <3>2
  <2>3. CASE ~(j < i)
    <3> DEFINE a == SubSeq(s, 1, i - 1)
               b == SubSeq(s, i + 1, Len(s))
    <3>1. a \in Seq(Observers) /\ b \in Seq(Observers) /\ Len(a) = i - 1 /\ Len(b) = Len(s) - i
      BY <1>2
    <3>2. b[j - (i - 1)] = s[(i + 1) + (j - (i - 1)) - 1]
      BY <1>1, <2>1, <2>3
    <3>3. (i + 1) + (j - (i - 1)) - 1 = j + 1
      BY <1>1, <2>1
    <3>4. b[j - (i - 1)] = s[j + 1]
      BY <3>2, <3>3
    <3>5. t = a \o b
      OBVIOUS
    <3> HIDE DEF a, b, t
    <3>6. (a \o b)[j] = b[j - Len(a)]
      BY <1>1, <2>1, <2>3, <3>1
    <3>7. t[j] = s[j + 1]
      BY <3>1, <3>4, <3>5, <3>6
    <3> QED
      BY <1>1, <2>1, <2>3, <3>7
  <2> QED
    BY <2>2, <2>3
<1> HIDE DEF t
<1>5. ASSUME NEW j \in DOMAIN t, NEW k \in DOMAIN t, t[j] = t[k] PROVE j = k
  <2>1. At(j) = At(k)
    <3>1. s[At(j)] = s[At(k)] /\ At(j) \in DOMAIN s /\ At(k) \in DOMAIN s
      BY <1>4, <1>5
    <3> HIDE DEF At
    <3> QED
      BY <3>1 DEF Lists
  <2>2. j \in Nat /\ k \in Nat
    BY <1>4
  <2> QED
    BY <1>1, <2>1, <2>2
<1>6. ASSUME NEW o \in Permanent PROVE \E j \in DOMAIN t : t[j] = o
  <2>1. PICK m \in DOMAIN s : s[m] = o
    BY DEF Lists
  <2>2. m # i /\ m \in Nat /\ m >= 1 /\ m <= Len(s)
    BY <1>1, <2>1
  <2> DEFINE j == IF m < i THEN m ELSE m - 1
  <2>3. j \in DOMAIN t /\ At(j) = m
    BY <1>1, <1>3, <2>2
  <2> HIDE DEF j, At
  <2> QED
    BY <1>4, <2>1, <2>3
<1>7. Lists(t)
  BY <1>5, <1>6 DEF Lists
<1> QED
  BY <1>7 DEF t

LEMMA AppendLists ==
    ASSUME NEW s \in Seq(Observers), Lists(s), NEW o \in Observers, \A i \in DOMAIN s : s[i] # o
    PROVE  Lists(Append(s, o))
<1> DEFINE t == Append(s, o)
<1>1. /\ DOMAIN s = 1 .. Len(s) /\ Len(s) \in Nat /\ DOMAIN t = 1 .. (Len(s) + 1)
      /\ t[Len(s) + 1] = o
      /\ \A i \in DOMAIN s : t[i] = s[i] /\ i \in DOMAIN t
      /\ \A i \in DOMAIN t : i \in DOMAIN s \/ i = Len(s) + 1
  OBVIOUS
<1> HIDE DEF t
<1>2. ASSUME NEW i \in DOMAIN t, NEW j \in DOMAIN t, t[i] = t[j] PROVE i = j
  BY <1>1, <1>2 DEF Lists
<1>3. ASSUME NEW p \in Permanent PROVE \E j \in DOMAIN t : t[j] = p
  BY <1>1 DEF Lists
<1>4. Lists(t)
  BY <1>2, <1>3 DEF Lists
<1> QED
  BY <1>4 DEF t

LEMMA WalkLists ==
    ASSUME TypeOK, ListsInv, NEW c \in Callers
    PROVE  Lists(Walked(c)) /\ Walked(c) \in Seq(Observers)
  BY DEF ListsInv, Walked, TypeOK

LEMMA ListsStep ==
    ASSUME TypeOK, ListsInv, [Next]_vars
    PROVE  ListsInv'
<1>1. ASSUME NEW c \in Callers, Operation(c) PROVE ListsInv'
  <2>1. pc[c] = "idle" /\ Announces(c)
    BY <1>1, OperationAnnounces
  <2>2. PICK events \in Seq(Event) : Leave(c, events)
    BY <2>1 DEF Announces
  <2>3. /\ pc'[c] = IF events = <<>> THEN "idle" ELSE "log"
        /\ outbox'[c] = events
        /\ \A d \in Callers : d # c => pc'[d] = pc[d] /\ outbox'[d] = outbox[d]
        /\ UNCHANGED <<observers, live, list, idx>>
    BY <2>2 DEF Leave, TypeOK, walk
  <2> QED
    BY <2>1, <2>3 DEF ListsInv, Lists
<1>2. ASSUME NEW c \in Callers, Log(c) PROVE ListsInv'
  <2>1. /\ pc[c] = "log" /\ pc'[c] = "notify" /\ \A d \in Callers : d # c => pc'[d] = pc[d]
        /\ UNCHANGED <<observers, live, list, idx, outbox>>
    BY <1>2 DEF Log, TypeOK, walk
  <2> QED
    BY <2>1 DEF ListsInv, Lists
<1>3. ASSUME NEW c \in Callers, Notify(c) PROVE ListsInv'
  <2>1. /\ pc[c] = "notify" /\ idx'[c] = idx[c] + 1 /\ \A d \in Callers : d # c => idx'[d] = idx[d]
        /\ idx[c] \in Nat /\ UNCHANGED <<observers, live, list, pc, outbox>>
    BY <1>3 DEF Notify, TypeOK
  <2>2. idx'[c] >= 1
    BY <2>1
  <2> QED
    BY <2>1, <2>2 DEF ListsInv, Lists
<1>4. ASSUME NEW c \in Callers, Finish(c) PROVE ListsInv'
  <2>1. pc[c] = "notify" /\ outbox[c] # <<>> /\ outbox[c] \in Seq(Event)
    BY <1>4 DEF Finish, TypeOK, ListsInv
  <2>2. /\ live'[c] = TRUE /\ idx'[c] = 1 /\ outbox'[c] = Tail(outbox[c])
        /\ pc'[c] = IF Len(outbox[c]) = 1 THEN "idle" ELSE "log"
        /\ observers' = observers
        /\ \A d \in Callers : d # c => /\ pc'[d] = pc[d] /\ outbox'[d] = outbox[d]
                                       /\ live'[d] = live[d] /\ list'[d] = list[d] /\ idx'[d] = idx[d]
    BY <1>4 DEF Finish, TypeOK
  <2>3. Len(outbox[c]) # 1 => Tail(outbox[c]) # <<>>
    BY <2>1, LongTail
  <2>4. Lists(observers')
    BY <2>2 DEF ListsInv
  <2>5. ASSUME NEW d \in Callers
        PROVE  /\ ~live'[d] => Lists(list'[d])
               /\ pc'[d] # "notify" => live'[d] /\ idx'[d] = 1
               /\ idx'[d] >= 1
               /\ pc'[d] # "idle" => outbox'[d] # <<>>
    <3>1. CASE d = c
      <4>1. live'[d] = TRUE /\ idx'[d] = 1
        BY <2>2, <3>1
      <4>2. pc'[d] # "idle" => Len(outbox[d]) # 1
        BY <2>2, <3>1
      <4>3. Len(outbox[d]) # 1 => outbox'[d] # <<>>
        BY <2>2, <2>3, <3>1
      <4> QED
        BY <4>1, <4>2, <4>3
    <3>2. CASE d # c
      BY <2>2, <3>2 DEF ListsInv
    <3> QED
      BY <3>1, <3>2
  <2> QED
    BY <2>4, <2>5 DEF ListsInv, Lists
<1>5. ASSUME NEW o \in Observers, Observe(o) PROVE ListsInv'
  <2>1. observers' = Append(observers, o) /\ UNCHANGED <<live, list, idx, pc, outbox>>
    BY <1>5 DEF Observe, walk
  <2>2. Lists(Append(observers, o))
    BY <1>5, AppendLists DEF Observe, ListsInv, TypeOK
  <2> QED
    BY <2>1, <2>2 DEF ListsInv, Lists
<1>6. ASSUME NEW o \in Observers, Unobserve(o) PROVE ListsInv'
  <2>1. Lists(observers')
    BY <1>6, WithoutLists DEF Unobserve, ListsInv, TypeOK
  <2>2. UNCHANGED <<idx, pc, outbox>>
    BY <1>6 DEF Unobserve
  <2>3. ASSUME NEW c \in Callers
        PROVE  /\ ~live'[c] => Lists(list'[c])
               /\ pc[c] # "notify" => live'[c]
    BY <1>6, WalkLists DEF Unobserve, ListsInv
  <2> QED
    BY <2>1, <2>2, <2>3 DEF ListsInv, Lists
<1>7. ASSUME UNCHANGED <<observers, live, list, idx, pc, outbox>> PROVE ListsInv'
  BY <1>7 DEF ListsInv, Lists
<1>8. ASSUME NEW k \in Keys, Expire(k) PROVE ListsInv'
  BY <1>7, <1>8 DEF Expire, walk
<1>9. CASE UNCHANGED vars
  BY <1>7, <1>9 DEF vars, walk
<1> QED
  BY <1>1, <1>2, <1>3, <1>4, <1>5, <1>6, <1>8, <1>9 DEF Next, Continue

LEMMA CountAppend ==
    ASSUME NEW s \in Seq(Event), NEW x \in Event, NEW e
    PROVE  /\ Count(s, e) \in Nat
           /\ Count(Append(s, x), e) = IF x = e THEN Count(s, e) + 1 ELSE Count(s, e)
<1> DEFINE n == Len(s)
           S == {i \in 1 .. n : s[i] = e}
           T == {i \in 1 .. (n + 1) : Append(s, x)[i] = e}
<1>1. n \in Nat /\ DOMAIN s = 1 .. n /\ DOMAIN Append(s, x) = 1 .. (n + 1)
  OBVIOUS
<1>2. Count(s, e) = Cardinality(S) /\ Count(Append(s, x), e) = Cardinality(T)
  BY <1>1 DEF Count
<1>3. T = IF x = e THEN S \cup {n + 1} ELSE S
  <2>1. \A i \in 1 .. n : Append(s, x)[i] = s[i] /\ i \in 1 .. (n + 1) /\ i # n + 1
    BY <1>1
  <2>2. Append(s, x)[n + 1] = x /\ n + 1 \in 1 .. (n + 1)
    BY <1>1
  <2>3. \A i \in 1 .. (n + 1) : i \in 1 .. n \/ i = n + 1
    BY <1>1
  <2> HIDE DEF n
  <2> QED
    BY <2>1, <2>2, <2>3
<1>4. n + 1 \notin S
  BY <1>1
<1> HIDE DEF n
<1>5. IsFiniteSet(S) /\ Cardinality(S) \in Nat
  <2>1. IsFiniteSet(1 .. n) /\ S \in SUBSET (1 .. n)
    BY <1>1, FS_Interval
  <2> QED
    BY <2>1, FS_Subset, FS_CardinalityType
<1> HIDE DEF S, T
<1>6. Cardinality(S \cup {n + 1}) = Cardinality(S) + 1
  <2>1. Cardinality(S \cup {n + 1}) = IF n + 1 \in S THEN Cardinality(S) ELSE Cardinality(S) + 1
    BY <1>5, FS_AddElement, Zenon
  <2> QED
    BY <1>4, <2>1
<1> QED
  BY <1>2, <1>3, <1>5, <1>6

\* Caller c is among those who will still call o for e.
Awaits(c, o, e) ==
    /\ pc[c] = "notify"
    /\ Head(outbox[c]) = e
    /\ \E i \in idx[c] .. Len(Walked(c)) : Walked(c)[i] = o

LEMMA AwaitingFinite ==
    ASSUME NEW o, NEW e
    PROVE  /\ IsFiniteSet(Awaiting(o, e)) /\ Cardinality(Awaiting(o, e)) \in Nat
           /\ \A c \in Callers : c \in Awaiting(o, e) <=> Awaits(c, o, e)
<1>1. Awaiting(o, e) \in SUBSET Callers
  BY DEF Awaiting
<1>2. IsFiniteSet(Awaiting(o, e))
  BY <1>1, FiniteAssumption, FS_Subset
<1>3. Cardinality(Awaiting(o, e)) \in Nat
  BY <1>2, FS_CardinalityType
<1> QED
  BY <1>2, <1>3 DEF Awaiting, Awaits

\* A step that logs nothing and calls nobody.
LEMMA CountSame ==
    ASSUME CountInv, log' = log, received' = received,
           \A c \in Callers, o \in Permanent, e \in Event : Awaits(c, o, e)' <=> Awaits(c, o, e)
    PROVE  CountInv'
<1>1. ASSUME NEW o \in Permanent, NEW e \in Event PROVE Awaiting(o, e)' = Awaiting(o, e)
  BY DEF Awaiting, Awaits
<1> QED
  BY <1>1 DEF CountInv, Count

LEMMA LogCounts ==
    ASSUME TypeOK, ListsInv, CountInv, NEW c \in Callers, Log(c)
    PROVE  CountInv'
<1> PICK x : x = Head(outbox[c])
  OBVIOUS
<1>1. /\ x \in Event /\ pc[c] = "log" /\ log \in Seq(Event)
      /\ log' = Append(log, x) /\ UNCHANGED <<received, outbox, idx, observers, live, list>>
      /\ pc'[c] = "notify" /\ \A d \in Callers : d # c => pc'[d] = pc[d]
  BY DEF Log, TypeOK, ListsInv, walk
<1>2. \A d \in Callers : Walked(d)' = Walked(d)
  BY <1>1 DEF Walked
<1>3. ASSUME NEW o \in Permanent, NEW e \in Event
      PROVE  Count(log, e)' = Count(received[o], e)' + Cardinality(Awaiting(o, e))'
  <2>1. ASSUME NEW d \in Callers, d # c PROVE Awaits(d, o, e)' <=> Awaits(d, o, e)
    BY <1>1, <1>2, <2>1 DEF Awaits
  <2>2. ~Awaits(c, o, e)
    BY <1>1 DEF Awaits
  <2>3. Awaits(c, o, e)' <=> x = e
    <3>1. Walked(c) = observers /\ idx[c] = 1
      BY <1>1 DEF ListsInv, Walked
    <3>2. PICK i \in DOMAIN observers : observers[i] = o
      BY DEF ListsInv, Lists
    <3>3. i \in 1 .. Len(observers)
      BY <3>2 DEF TypeOK
    <3>4. \E j \in idx[c] .. Len(Walked(c)) : Walked(c)[j] = o
      BY <3>1, <3>2, <3>3
    <3> QED
      BY <1>1, <1>2, <3>4 DEF Awaits
  <2>4. Awaiting(o, e)' = IF x = e THEN Awaiting(o, e) \cup {c} ELSE Awaiting(o, e)
    BY <2>1, <2>2, <2>3 DEF Awaiting, Awaits
  <2>5. c \notin Awaiting(o, e) /\ IsFiniteSet(Awaiting(o, e)) /\ Cardinality(Awaiting(o, e)) \in Nat
    BY <2>2, AwaitingFinite
  <2>6. Cardinality(Awaiting(o, e) \cup {c}) = Cardinality(Awaiting(o, e)) + 1
    <3>1. Cardinality(Awaiting(o, e) \cup {c}) =
            IF c \in Awaiting(o, e) THEN Cardinality(Awaiting(o, e)) ELSE Cardinality(Awaiting(o, e)) + 1
      BY <2>5, FS_AddElement, Zenon
    <3> QED
      BY <2>5, <3>1
  <2>7. received[o] \in Seq(Event)
    BY PermanentAssumption DEF TypeOK
  <2>8. Count(received[o], e) \in Nat
    BY <1>1, <2>7, CountAppend
  <2>9. Count(log, e) = Count(received[o], e) + Cardinality(Awaiting(o, e))
    BY DEF CountInv
  <2>10. Count(log, e)' = Count(Append(log, x), e) /\ Count(received[o], e)' = Count(received[o], e)
    BY <1>1 DEF Count
  <2>11. Count(Append(log, x), e) = IF x = e THEN Count(log, e) + 1 ELSE Count(log, e)
    BY <1>1, CountAppend
  <2>12. CASE x = e
    <3>1. Cardinality(Awaiting(o, e))' = Cardinality(Awaiting(o, e)) + 1
      BY <2>4, <2>6, <2>12
    <3>2. Count(log, e)' = Count(received[o], e) + Cardinality(Awaiting(o, e)) + 1
      BY <2>9, <2>10, <2>11, <2>12
    <3> QED
      BY <2>5, <2>8, <2>10, <3>1, <3>2
  <2>13. CASE x # e
    BY <2>4, <2>9, <2>10, <2>11, <2>13
  <2> QED
    BY <2>12, <2>13
<1> QED
  BY <1>3 DEF CountInv

LEMMA NotifyCounts ==
    ASSUME TypeOK, ListsInv, CountInv, NEW c \in Callers, Notify(c)
    PROVE  CountInv'
<1> PICK x : x = Head(outbox[c])
  OBVIOUS
<1> PICK w : w = Walked(c)
  OBVIOUS
<1> PICK p : p = idx[c]
  OBVIOUS
<1>1. /\ x \in Event /\ outbox[c] # <<>> /\ pc[c] = "notify"
      /\ w \in Seq(Observers) /\ Lists(w) /\ p \in Nat /\ p >= 1 /\ p <= Len(w)
  BY WalkLists DEF Notify, TypeOK, ListsInv
<1>2. /\ received' = [received EXCEPT ![w[p]] = Append(@, x)]
      /\ idx'[c] = p + 1 /\ \A d \in Callers : d # c => idx'[d] = idx[d]
      /\ UNCHANGED <<log, observers, outbox, pc, live, list>>
  BY DEF Notify, TypeOK
<1>3. \A d \in Callers : Walked(d)' = Walked(d)
  BY <1>2 DEF Walked
<1>4. p \in DOMAIN w /\ DOMAIN w = 1 .. Len(w) /\ Len(w) \in Nat /\ w[p] \in Observers
  BY <1>1
<1>5. ASSUME NEW o \in Permanent, NEW e \in Event
      PROVE  Count(log, e)' = Count(received[o], e)' + Cardinality(Awaiting(o, e))'
  <2>1. ASSUME NEW d \in Callers, d # c PROVE Awaits(d, o, e)' <=> Awaits(d, o, e)
    BY <1>2, <1>3, <2>1 DEF Awaits
  <2>2. Awaits(c, o, e) <=> x = e /\ \E i \in p .. Len(w) : w[i] = o
    BY <1>1 DEF Awaits
  <2>3. Awaits(c, o, e)' <=> x = e /\ \E i \in p + 1 .. Len(w) : w[i] = o
    BY <1>1, <1>2, <1>3 DEF Awaits
  <2>4. p .. Len(w) = {p} \cup (p + 1 .. Len(w))
    BY <1>1, <1>4
  <2>5. received[o] \in Seq(Event) /\ o \in Observers
    BY PermanentAssumption DEF TypeOK
  <2>6. Count(received[o], e) \in Nat
    BY <1>1, <2>5, CountAppend
  <2>7. Count(log, e) = Count(received[o], e) + Cardinality(Awaiting(o, e)) /\ Count(log, e)' = Count(log, e)
    BY <1>2 DEF CountInv, Count
  <2>8. IsFiniteSet(Awaiting(o, e)) /\ Cardinality(Awaiting(o, e)) \in Nat
        /\ (c \in Awaiting(o, e) <=> Awaits(c, o, e))
    BY AwaitingFinite
  <2>9. CASE w[p] = o /\ x = e
    <3>1. received'[o] = Append(received[o], e)
      BY <1>2, <2>5, <2>9 DEF TypeOK
    <3>2. Count(received[o], e)' = Count(received[o], e) + 1
      <4>1. Count(Append(received[o], e), e) = Count(received[o], e) + 1
        BY <2>5, CountAppend
      <4>2. Count(received[o], e)' = Count(Append(received[o], e), e)
        BY <3>1 DEF Count
      <4> QED
        BY <4>1, <4>2
    <3>3. Awaits(c, o, e) /\ ~Awaits(c, o, e)'
      <4>1. ASSUME NEW i \in p + 1 .. Len(w) PROVE w[i] # o
        <5>1. i \in DOMAIN w /\ i # p
          BY <1>1, <1>4
        <5> QED
          BY <1>1, <1>4, <2>9, <5>1 DEF Lists
      <4> QED
        BY <2>2, <2>3, <2>4, <2>9, <4>1
    <3>4. Awaiting(o, e)' = Awaiting(o, e) \ {c}
      BY <2>1, <3>3 DEF Awaiting, Awaits
    <3>5. Cardinality(Awaiting(o, e) \ {c}) = Cardinality(Awaiting(o, e)) - 1
      <4>1. Cardinality(Awaiting(o, e) \ {c}) =
              IF c \in Awaiting(o, e) THEN Cardinality(Awaiting(o, e)) - 1 ELSE Cardinality(Awaiting(o, e))
        BY <2>8, FS_RemoveElement, Zenon
      <4> QED
        BY <2>8, <3>3, <4>1
    <3> QED
      BY <2>6, <2>7, <2>8, <3>2, <3>4, <3>5
  <2>10. CASE ~(w[p] = o /\ x = e)
    <3>1. Count(received[o], e)' = Count(received[o], e)
      <4>1. CASE w[p] = o
        <5>1. received'[o] = Append(received[o], x) /\ x # e
          BY <1>2, <2>5, <2>10, <4>1 DEF TypeOK
        <5>2. Count(Append(received[o], x), e) = Count(received[o], e)
          BY <1>1, <2>5, <5>1, CountAppend
        <5>3. Count(received[o], e)' = Count(Append(received[o], x), e)
          BY <5>1 DEF Count
        <5> QED
          BY <5>2, <5>3
      <4>2. CASE w[p] # o
        <5>1. received'[o] = received[o]
          BY <1>2, <2>5, <4>2 DEF TypeOK
        <5> QED
          BY <5>1 DEF Count
      <4> QED
        BY <4>1, <4>2
    <3>2. Awaits(c, o, e)' <=> Awaits(c, o, e)
      BY <2>2, <2>3, <2>4, <2>10
    <3>3. Awaiting(o, e)' = Awaiting(o, e)
      BY <2>1, <3>2 DEF Awaiting, Awaits
    <3> QED
      BY <2>7, <3>1, <3>3
  <2> QED
    BY <2>9, <2>10
<1> QED
  BY <1>5 DEF CountInv

LEMMA CountStep ==
    ASSUME TypeOK, ListsInv, CountInv, [Next]_vars
    PROVE  CountInv'
<1>1. ASSUME NEW c \in Callers, Operation(c) PROVE CountInv'
  <2>1. pc[c] = "idle" /\ Announces(c)
    BY <1>1, OperationAnnounces
  <2>2. PICK events \in Seq(Event) : Leave(c, events)
    BY <2>1 DEF Announces
  <2>3. /\ pc'[c] # "notify"
        /\ \A d \in Callers : d # c => pc'[d] = pc[d] /\ outbox'[d] = outbox[d]
        /\ UNCHANGED <<log, received, observers, live, list, idx>>
    BY <2>2 DEF Leave, TypeOK, walk
  <2>4. \A d \in Callers : Walked(d)' = Walked(d)
    BY <2>3 DEF Walked
  <2>5. ASSUME NEW d \in Callers, NEW o \in Permanent, NEW e \in Event
        PROVE  Awaits(d, o, e)' <=> Awaits(d, o, e)
    BY <2>1, <2>3, <2>4 DEF Awaits
  <2> QED
    BY <2>3, <2>5, CountSame
<1>2. ASSUME NEW c \in Callers, Finish(c) PROVE CountInv'
  <2>1. /\ pc'[c] # "notify"
        /\ \A d \in Callers : d # c => /\ pc'[d] = pc[d] /\ outbox'[d] = outbox[d]
                                       /\ live'[d] = live[d] /\ list'[d] = list[d] /\ idx'[d] = idx[d]
        /\ UNCHANGED <<log, received, observers>>
    BY <1>2 DEF Finish, TypeOK
  <2>2. \A d \in Callers : d # c => Walked(d)' = Walked(d)
    BY <2>1 DEF Walked
  <2>3. ASSUME NEW o, NEW e PROVE ~Awaits(c, o, e)
    <3>1. idx[c] > Len(Walked(c)) /\ idx[c] \in Nat /\ Len(Walked(c)) \in Nat
      BY <1>2, WalkLists DEF Finish, TypeOK
    <3> QED
      BY <3>1 DEF Awaits
  <2>4. ASSUME NEW d \in Callers, NEW o \in Permanent, NEW e \in Event
        PROVE  Awaits(d, o, e)' <=> Awaits(d, o, e)
    <3>1. CASE d = c
      BY <2>1, <2>3, <3>1 DEF Awaits
    <3>2. CASE d # c
      BY <2>1, <2>2, <3>2 DEF Awaits
    <3> QED
      BY <3>1, <3>2
  <2> QED
    BY <2>1, <2>4, CountSame
<1>3. ASSUME NEW p \in Observers, Observe(p) PROVE CountInv'
  <2>1. /\ observers' = Append(observers, p) /\ p \notin Permanent
        /\ UNCHANGED <<log, received, outbox, pc, live, list, idx>>
    BY <1>3 DEF Observe, walk
  <2>2. ASSUME NEW d \in Callers, NEW o \in Permanent, NEW e \in Event
        PROVE  Awaits(d, o, e)' <=> Awaits(d, o, e)
    <3>1. CASE ~live[d]
      <4>1. Walked(d)' = Walked(d)
        BY <2>1, <3>1 DEF Walked
      <4> QED
        BY <2>1, <4>1 DEF Awaits
    <3>2. CASE live[d]
      <4>1. Walked(d) = observers /\ Walked(d)' = Append(observers, p)
        BY <2>1, <3>2 DEF Walked
      <4>2. observers \in Seq(Observers) /\ Len(observers) \in Nat /\ idx[d] \in Nat /\ idx[d] >= 1
        BY DEF TypeOK, ListsInv
      <4>3. /\ Len(Append(observers, p)) = Len(observers) + 1
            /\ Append(observers, p)[Len(observers) + 1] = p
            /\ \A i \in 1 .. Len(observers) : Append(observers, p)[i] = observers[i]
        BY <4>2
      <4>4. (\E i \in idx[d] .. Len(observers) : observers[i] = o)
              <=> \E i \in idx[d] .. (Len(observers) + 1) : Append(observers, p)[i] = o
        <5>1. ASSUME NEW i \in idx[d] .. Len(observers)
              PROVE  i \in idx[d] .. (Len(observers) + 1) /\ Append(observers, p)[i] = observers[i]
          BY <4>2, <4>3
        <5>2. ASSUME NEW i \in idx[d] .. (Len(observers) + 1), Append(observers, p)[i] = o
              PROVE  i \in idx[d] .. Len(observers) /\ Append(observers, p)[i] = observers[i]
          <6>1. i # Len(observers) + 1
            BY <2>1, <4>3, <5>2
          <6>2. i \in idx[d] .. Len(observers)
            BY <4>2, <6>1
          <6> QED
            BY <5>1, <6>2
        <5> QED
          BY <5>1, <5>2
      <4> QED
        BY <2>1, <4>1, <4>3, <4>4 DEF Awaits
    <3> QED
      BY <3>1, <3>2
  <2> QED
    BY <2>1, <2>2, CountSame
<1>4. ASSUME NEW p \in Observers, Unobserve(p) PROVE CountInv'
  <2>1. /\ UNCHANGED <<log, received, outbox, pc, idx>>
        /\ \A d \in Callers : pc[d] = "notify" => ~live'[d] /\ list'[d] = Walked(d)
    BY <1>4 DEF Unobserve
  <2>2. \A d \in Callers : pc[d] = "notify" => Walked(d)' = Walked(d)
    BY <2>1 DEF Walked
  <2>3. ASSUME NEW d \in Callers, NEW o \in Permanent, NEW e \in Event
        PROVE  Awaits(d, o, e)' <=> Awaits(d, o, e)
    BY <2>1, <2>2 DEF Awaits
  <2> QED
    BY <2>1, <2>3, CountSame
<1>5. ASSUME UNCHANGED <<log, received, outbox, pc, walk, observers>> PROVE CountInv'
  <2>1. \A d \in Callers, o \in Permanent, e \in Event : Awaits(d, o, e)' <=> Awaits(d, o, e)
    BY <1>5 DEF Awaits, Walked, walk
  <2> QED
    BY <1>5, <2>1, CountSame
<1>6. ASSUME NEW k \in Keys, Expire(k) PROVE CountInv'
  BY <1>5, <1>6 DEF Expire
<1>7. CASE UNCHANGED vars
  BY <1>5, <1>7 DEF vars
<1> QED
  BY <1>1, <1>2, <1>3, <1>4, <1>6, <1>7, LogCounts, NotifyCounts DEF Next, Continue

\* The list of observers that the store starts with names each once.
LEMMA ListingsList ==
    ASSUME NEW S \in SUBSET Observers, Permanent \subseteq S, NEW s \in Listings(S)
    PROVE  s \in Seq(Observers) /\ Lists(s)
<1>1. IsFiniteSet(S) /\ Cardinality(S) \in Nat
  BY FiniteAssumption, FS_Subset, FS_CardinalityType
<1> PICK n \in Nat : n = Cardinality(S)
  BY <1>1
<1>2. s \in [1 .. n -> S] /\ \A x \in S : \E i \in DOMAIN s : s[i] = x
  BY DEF Listings
<1>3. s \in Surjection(1 .. n, S)
  BY <1>2 DEF Surjection
<1>4. IsFiniteSet(1 .. n) /\ Cardinality(1 .. n) = n
  BY FS_Interval
<1>5. s \in Injection(1 .. n, S)
  BY <1>3, <1>4, FS_SurjSameCardinalityImpliesInj
<1>6. \A i, j \in DOMAIN s : s[i] = s[j] => i = j
  BY <1>2, <1>5 DEF Injection, IsInjective
<1>7. s \in [1 .. n -> Observers]
  BY <1>2
<1> QED
  BY <1>2, <1>6, <1>7, SequenceOf DEF Lists

LEMMA NotifyStarts == Init => NotifyInv
<1> SUFFICES ASSUME Init PROVE NotifyInv
  OBVIOUS
<1>1. PICK S \in SUBSET Observers : Permanent \subseteq S /\ observers \in Listings(S)
  BY DEF Init
<1>2. observers \in Seq(Observers) /\ Lists(observers)
  BY <1>1, ListingsList
<1>3. <<>> \in Seq(Event) /\ <<>> \in Seq(Observers)
  OBVIOUS
<1>4. /\ store \in [Keys -> Entry \cup {None}] /\ log \in Seq(Event) /\ running \in Callers \cup {None}
      /\ outbox \in [Callers -> Seq(Event)] /\ received \in [Observers -> Seq(Event)]
      /\ list \in [Callers -> Seq(Observers)]
  BY <1>3 DEF Init
<1>5. /\ pc \in [Callers -> {"idle", "log", "notify"}]
      /\ live \in [Callers -> BOOLEAN] /\ idx \in [Callers -> Nat]
  BY DEF Init
<1>6. TypeOK
  BY <1>2, <1>4, <1>5 DEF TypeOK
<1>7. ListsInv
  BY <1>2 DEF Init, ListsInv
<1>8. ASSUME NEW o \in Permanent, NEW e \in Event
      PROVE  Count(log, e) = Count(received[o], e) + Cardinality(Awaiting(o, e))
  <2>1. log = <<>> /\ received[o] = <<>>
    BY PermanentAssumption DEF Init
  <2>2. Count(<<>>, e) = 0
    <3>1. {i \in DOMAIN <<>> : <<>>[i] = e} = {}
      OBVIOUS
    <3> QED
      BY <3>1, FS_EmptySet DEF Count
  <2>3. Awaiting(o, e) = {}
    BY DEF Init, Awaiting
  <2> QED
    BY <2>1, <2>2, <2>3, FS_EmptySet
<1> QED
  BY <1>6, <1>7, <1>8 DEF NotifyInv, CountInv

LEMMA NotifyInvariant == Spec => []NotifyInv
<1>1. NotifyInv /\ [Next]_vars => NotifyInv'
  BY TypesStep, ListsStep, CountStep DEF NotifyInv
<1> QED
  BY <1>1, NotifyStarts, PTL DEF Spec

\* Whoever is registered throughout hears of each logged event exactly once, for
\* any observers that come and go during the walk, and with threads as with
\* coroutines (_notify_observers).
THEOREM ObserversHearOnce == Spec => []ExactlyOnce
<1>1. NotifyInv => ExactlyOnce
  <2> SUFFICES ASSUME NotifyInv, NEW o \in Permanent, NEW e \in {log[i] : i \in DOMAIN log}
               PROVE  Count(log, e) = Count(received[o], e) + Cardinality(Awaiting(o, e))
    BY DEF ExactlyOnce
  <2>1. e \in Event
    BY DEF NotifyInv, TypeOK
  <2> QED
    BY <2>1 DEF NotifyInv, CountInv
<1> QED
  BY <1>1, NotifyInvariant, PTL

LEMMA LatestIs ==
    ASSUME NEW S \in SUBSET Nat, NEW i \in S, Recent(S, i)
    PROVE  Latest(S) = i
<1>1. \E m \in S : \A j \in S : j <= m
  BY DEF Recent
<1>2. Latest(S) \in S /\ \A j \in S : j <= Latest(S)
  BY <1>1, Zenon DEF Latest
<1>3. Latest(S) \in Nat /\ i \in Nat /\ i <= Latest(S) /\ Latest(S) <= i
  BY <1>2 DEF Recent
<1> QED
  BY <1>3

LEMMA HistorySound == TypeOK /\ LoopInv /\ TellInv => LogSound
<1> SUFFICES ASSUME TypeOK, LoopInv, TellInv PROVE LogSound
  OBVIOUS
<1>1. ASSUME NEW k \in Keys PROVE Changes(k) \in SUBSET Nat
  BY DEF Changes, TypeOK
<1>2. ASSUME running = None, NEW k \in Keys, Has(k)
      PROVE  /\ Changes(k) # {}
             /\ LET e == log[Latest(Changes(k))] IN
                e.type = "set" /\ e.value = store[k].value /\ e.version = store[k].version
  <2>1. \A c \in Callers : ~Pends(c, k)
    BY <1>2, NoneAssumption DEF LoopInv, Pends
  <2>2. PICK i \in Changes(k) : Recent(Changes(k), i) /\ Tells(log[i], k)
    BY <1>2, <2>1 DEF TellInv, Told
  <2>3. Latest(Changes(k)) = i
    BY <1>1, <2>2, LatestIs
  <2> QED
    BY <2>2, <2>3 DEF Tells
<1>3. ASSUME NEW k \in Keys, NEW i \in Changes(k)
      PROVE  LET earlier == {j \in Changes(k) : j < i}
                 base    == log[i].version - IF log[i].type = "set" THEN 1 ELSE 0
             IN  base > 0 => /\ earlier # {}
                             /\ log[Latest(earlier)].type = "set"
                             /\ log[Latest(earlier)].version = base
                             /\ log[Latest(earlier)].value = log[i].old
  <2> DEFINE earlier == {j \in Changes(k) : j < i}
             base == log[i].version - IF log[i].type = "set" THEN 1 ELSE 0
  <2> SUFFICES ASSUME base > 0
               PROVE  /\ earlier # {}
                      /\ log[Latest(earlier)].type = "set"
                      /\ log[Latest(earlier)].version = base
                      /\ log[Latest(earlier)].value = log[i].old
    OBVIOUS
  <2>1. Follows(log[i], earlier) /\ earlier \in SUBSET Nat
    BY <1>1 DEF TellInv
  <2>2. PICK j \in earlier : /\ Recent(earlier, j)
                             /\ log[j].type = "set" /\ log[j].version = base /\ log[j].value = log[i].old
    BY <2>1 DEF Follows
  <2> HIDE DEF earlier, base
  <2>3. Latest(earlier) = j
    BY <2>1, <2>2, LatestIs
  <2> QED
    BY <2>2, <2>3
<1>4. LogTellsStore
  BY <1>2 DEF LogTellsStore
<1>5. HistoryChains
  BY <1>3 DEF HistoryChains
<1> QED
  BY <1>4, <1>5 DEF LogSound

\* With one event loop, the log tells what is stored between two awaits, and each
\* logged change takes up what the one before it left: no update is lost, whoever
\* else calls and whatever expires meanwhile.  With threads another call's event
\* may come first.
THEOREM HistoryTells == ASSUME OneLoop = TRUE PROVE Spec => []LogSound
<1>1. Init => LoopInv /\ TellInv
  <2> SUFFICES ASSUME Init PROVE LoopInv /\ TellInv
    OBVIOUS
  <2>1. LoopInv
    BY DEF Init, LoopInv
  <2>2. \A k \in Keys : Changes(k) = {} /\ ~Has(k)
    BY DEF Init, Changes, Has
  <2>3. \A c \in Callers, k \in Keys : ~Pends(c, k)
    BY DEF Init, Pends
  <2> QED
    BY <2>1, <2>2, <2>3 DEF TellInv
<1>2. TypeOK /\ TypeOK' /\ LoopInv /\ TellInv /\ [Next]_vars => (LoopInv /\ TellInv)'
  BY LoopStep, HistoryStep
<1>3. NotifyInv => TypeOK
  BY DEF NotifyInv
<1> QED
  BY <1>1, <1>2, <1>3, NotifyInvariant, HistorySound, PTL DEF Spec
=============================================================================
