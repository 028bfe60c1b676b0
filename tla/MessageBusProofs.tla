--------------------------- MODULE MessageBusProofs ---------------------------
(***************************************************************************)
(* The lifecycle of the dispatch task, for any subscribers, messages,      *)
(* callers of stop() and number of restarts: when start() does not overlap *)
(* a stop(), there is one dispatch task at a time, and none once the stops *)
(* have returned.  And what that one task delivers: every subscriber that  *)
(* stays registered while a message it wants passes the queue is called    *)
(* with it exactly once, in the order of the queue.                        *)
(***************************************************************************)
EXTENDS MessageBus, FiniteSetTheorems, SequenceTheorems, TLAPS

LifecycleTyped ==
    /\ running \in BOOLEAN
    /\ task \in Dispatchers \cup {None}
    /\ pc \in [Dispatchers -> {"unused", "created", "getting", "calling", "returned", "crashed"}]
    /\ awaited \in [Stoppers -> Dispatchers \cup {None}]

\* A stop in progress keeps the bus from running, and awaits the current task,
\* or one that another stop has already seen the end of.
StopsHold ==
    \A c \in Stopping : ~running /\ task \in {None, awaited[c]}

\* A bus that neither runs nor is being stopped has no dispatch task.
Quiet == ~running /\ Stopping = {} => Alive = {}

BusInv == LifecycleTyped /\ OneDispatcher /\ StopsHold /\ Quiet

-----------------------------------------------------------------------------
\* What a dispatch task does to itself: no other task comes or goes.
LEMMA OneMoves ==
    ASSUME LifecycleTyped, NEW d \in Dispatchers, Dispatch(d)
    PROVE  /\ pc' \in [Dispatchers -> {"unused", "created", "getting", "calling",
                                       "returned", "crashed"}]
           /\ Alive' \subseteq Alive
           /\ UNCHANGED <<running, task, awaited>>
<1>1. d \in Alive
  BY DEF Dispatch, Begin, Take, CallbackEnds, CancelArrives, Alive
<1>2. /\ \E state \in {"getting", "calling", "returned", "crashed"} :
            pc' = [pc EXCEPT ![d] = state]
      /\ UNCHANGED lifecycle
  <2>1. ASSUME NEW w, NEW p, NEW m, Advance(d, w, p, m)
        PROVE  \E state \in {"getting", "calling", "returned", "crashed"} :
                  pc' = [pc EXCEPT ![d] = state]
    BY <2>1 DEF Advance, Rest
  <2>2. CASE Begin(d) \/ CancelArrives(d)
    BY <2>2 DEF Begin, CancelArrives, Rest
  <2>3. CASE Take(d) \/ CallbackEnds(d)
    BY <2>1, <2>3 DEF Take, CallbackEnds
  <2> QED
    BY <2>2, <2>3 DEF Dispatch
<1> QED
  BY <1>1, <1>2 DEF LifecycleTyped, Alive, lifecycle

LEMMA BusInitial == Init => BusInv
<1> SUFFICES ASSUME Init PROVE BusInv
  OBVIOUS
<1>1. LifecycleTyped /\ Stopping = {} /\ Alive = {}
  BY DEF Init, LifecycleTyped, Stopping, Alive
<1> QED
  BY <1>1 DEF BusInv, OneDispatcher, StopsHold, Quiet

LEMMA BusPreserved ==
    ASSUME Overlap = FALSE, BusInv, [Next]_vars
    PROVE  BusInv'
<1> USE DEF BusInv
<1>1. ASSUME UNCHANGED <<running, task, pc, awaited>> PROVE BusInv'
  BY <1>1 DEF LifecycleTyped, OneDispatcher, StopsHold, Quiet, Stopping, Alive
<1>2. ASSUME NEW s \in Subs, Subscribe(s) \/ Unsubscribe(s) PROVE BusInv'
  BY <1>1, <1>2 DEF Subscribe, Unsubscribe, lifecycle, delivery
<1>3. ASSUME NEW m \in Messages, Publish(m) \/ PublishSync(m) PROVE BusInv'
  BY <1>1, <1>3 DEF Publish, PublishSync, lifecycle, delivery
<1>4. CASE PutNowait \/ UNCHANGED vars
  BY <1>1, <1>4 DEF PutNowait, vars, lifecycle, delivery
<1>5. CASE Start
  <2>1. Stopping = {} /\ ~running /\ Alive = {}
    BY <1>5 DEF Start, Quiet
  <2>2. PICK d \in Dispatchers : pc' = [pc EXCEPT ![d] = "created"] /\ task' = d
    BY <1>5 DEF Start
  <2>3. running' = TRUE /\ awaited' = awaited
    BY <1>5 DEF Start
  <2>4. Alive' = {d} /\ Stopping' = {}
    BY <2>1, <2>2, <2>3 DEF Alive, Stopping, LifecycleTyped
  <2> QED
    BY <2>2, <2>3, <2>4 DEF LifecycleTyped, OneDispatcher, StopsHold, Quiet
<1>6. ASSUME NEW c \in Stoppers, Stop(c) PROVE BusInv'
  <2>1. running' = FALSE /\ pc' = pc /\ Alive' = Alive
    BY <1>6 DEF Stop, delivery, Alive
  <2>2. CASE task = None
    <3>1. task' = None /\ awaited' = awaited /\ Alive = {}
      BY <1>6, <2>2, NoneAssumption DEF Stop, OneDispatcher, Alive
    <3> QED
      BY <2>1, <3>1 DEF LifecycleTyped, OneDispatcher, StopsHold, Quiet, Stopping
  <2>3. CASE task # None /\ Ended(task)
    <3>1. task' \in {task, None} /\ awaited' = awaited /\ Alive = {}
      BY <1>6, <2>3 DEF Stop, OneDispatcher, Alive, Ended
    <3> QED
      BY <2>1, <3>1 DEF LifecycleTyped, OneDispatcher, StopsHold, Quiet, Stopping
  <2>4. CASE task # None /\ ~Ended(task)
    <3>1. task' = task /\ awaited' = [awaited EXCEPT ![c] = task]
      BY <1>6, <2>4 DEF Stop
    <3>2. awaited'[c] # None
      BY <2>4, <3>1 DEF LifecycleTyped
    <3> QED
      BY <2>1, <3>1, <3>2 DEF LifecycleTyped, OneDispatcher, StopsHold, Quiet, Stopping
  <2> QED
    BY <2>2, <2>3, <2>4
<1>7. ASSUME NEW c \in Stoppers, StopReturns(c) PROVE BusInv'
  <2>1. /\ task' = None /\ awaited' = [awaited EXCEPT ![c] = None]
        /\ running' = running /\ pc' = pc /\ Alive' = Alive
    BY <1>7 DEF StopReturns, delivery, Alive
  <2>2. c \in Stopping /\ Ended(awaited[c]) /\ ~running /\ task \in {None, awaited[c]}
    BY <1>7 DEF StopReturns, Stopping, StopsHold
  <2>3. Alive = {}
    BY <2>2, NoneAssumption DEF OneDispatcher, Alive, Ended
  <2> QED
    BY <2>1, <2>2, <2>3 DEF LifecycleTyped, OneDispatcher, StopsHold, Quiet, Stopping
<1>8. ASSUME NEW d \in Dispatchers, Dispatch(d) PROVE BusInv'
  BY <1>8, OneMoves DEF LifecycleTyped, OneDispatcher, StopsHold, Quiet, Stopping
<1> QED
  BY <1>2, <1>3, <1>4, <1>5, <1>6, <1>7, <1>8 DEF Next

LEMMA BusInvariant == ASSUME Overlap = FALSE PROVE Spec => []BusInv
<1>1. BusInv /\ [Next]_vars => BusInv'
  BY BusPreserved
<1> QED
  BY <1>1, BusInitial, PTL DEF Spec

\* There is never more than the one dispatch task the bus knows of, so messages
\* leave the queue one at a time.
THEOREM SingleDispatcher ==
    ASSUME Overlap = FALSE PROVE Spec => []OneDispatcher
<1>1. BusInv => OneDispatcher
  BY DEF BusInv
<1> QED
  BY <1>1, BusInvariant, PTL

\* When every stop() has returned, whatever number of them ran together, the
\* dispatch task has ended.
THEOREM StopEndsDispatch ==
    ASSUME Overlap = FALSE PROVE Spec => []StopFinishesTask
<1>1. BusInv => StopFinishesTask
  BY DEF BusInv, Quiet, StopFinishesTask
<1> QED
  BY <1>1, BusInvariant, PTL

-----------------------------------------------------------------------------
(* Delivery: what holds between any two steps of the bus. *)

\* A list of the registry: each subscriber once, and all with its pattern.
ListOK(l, p) ==
    /\ l \in Seq(Subs)
    /\ \A j \in DOMAIN l : Pattern[l[j]] = p
    /\ \A i, j \in DOMAIN l : l[i] = l[j] => i = j

RegistryInv ==
    /\ registry \in Seq([pattern : {Pattern[s] : s \in Subs}, subs : Seq(Subs)])
    /\ \A i \in DOMAIN registry : ListOK(registry[i].subs, registry[i].pattern)
    /\ \A i, j \in DOMAIN registry : registry[i].pattern = registry[j].pattern => i = j

\* What has entered the queue has left it for the history or is in it still, each
\* message once.
QueueInv ==
    /\ queue \in Seq(Messages) /\ handed \in Seq(Messages) /\ history \in Seq(Messages)
    /\ entered = history \o queue
    /\ \A i, j \in DOMAIN entered : entered[i] = entered[j] => i = j
    /\ \A i, j \in DOMAIN handed : handed[i] = handed[j] => i = j
    /\ \A i \in DOMAIN entered, j \in DOMAIN handed : entered[i] # handed[j]

Got(s, m) == \E i \in DOMAIN received[s] : received[s][i] = m

\* The messages of l are in h, in the same order.
InOrder(l, h) ==
    /\ \A i \in DOMAIN l : \E k \in DOMAIN h : h[k] = l[i]
    /\ \A i, j \in DOMAIN l : i < j => \E k, n \in DOMAIN h : k < n /\ h[k] = l[i] /\ h[n] = l[j]

\* Subscribers got what they want, each message once, in the order of history h.
ReceivedOK(h) ==
    /\ received \in [Subs -> Seq(Messages)]
    /\ \A s \in Subs :
          /\ \A i \in DOMAIN received[s] : Wants(s, received[s][i])
          /\ \A i, j \in DOMAIN received[s] : received[s][i] = received[s][j] => i = j
          /\ InOrder(received[s], h)

\* The lists of a walk, as it sees them, and where s is in them.
Lists(w) == [e \in DOMAIN w |-> ListAt(w[e])]

Passed(l, p, s) == \E e \in DOMAIN l : \E j \in DOMAIN l[e] : l[e][j] = s /\ ~Before(p, <<e, j>>)
Ahead(l, p, s)  == \E e \in DOMAIN l : \E j \in DOMAIN l[e] : l[e][j] = s /\ Before(p, <<e, j>>)

\* A walk has the lists of different patterns, live ones among the registry's.
WalkFit(w) ==
    /\ w \in Seq(WalkEntry)
    /\ \A e, f \in DOMAIN w : w[e].pattern = w[f].pattern => e = f
    /\ \A e \in DOMAIN w :
          IF w[e].live THEN EntryOf(w[e].pattern) # {} ELSE ListOK(w[e].subs, w[e].pattern)

\* In the walk w for m, at place p, whoever got m has been passed, and whoever is
\* due m and did not get it is ahead.
WalkSound(l, p, m, D) ==
    /\ \A s \in Subs : Got(s, m) => Passed(l, p, s)
    /\ \A s \in D : Wants(s, m) => Got(s, m) \/ Ahead(l, p, s)

WalksInv ==
    /\ walk \in [Dispatchers -> Seq(WalkEntry)]
    /\ pos \in [Dispatchers -> Nat \X Nat]
    /\ current \in [Dispatchers -> Messages \cup {None}]
    /\ \A d \in Dispatchers : pc[d] = "calling" =>
          /\ history # <<>> /\ current[d] = history[Len(history)]
          /\ WalkFit(walk[d])
          /\ WalkSound(Lists(walk[d]), pos[d], current[d], due[current[d]])

\* Whoever is due a message is registered, and got it, or its delivery was cut
\* off or is under way.
DueInv ==
    /\ due \in [Messages -> SUBSET Subs]
    /\ cut \subseteq Messages
    /\ \A m \in Messages : \A s \in due[m] :
          /\ Registered(s)
          /\ Wants(s, m) => \/ Got(s, m) \/ m \in cut
                            \/ \E d \in Dispatchers : pc[d] = "calling" /\ current[d] = m

DeliveryInv == RegistryInv /\ QueueInv /\ ReceivedOK(history) /\ WalksInv /\ DueInv

-----------------------------------------------------------------------------
\* A set of natural numbers has a least one.
LEMMA LeastNatural ==
    ASSUME NEW T \in SUBSET Nat, T # {}
    PROVE  \E x \in T : \A y \in T : x <= y
<1> DEFINE Below == {1 .. x : x \in T}
<1>1. Below \subseteq FiniteSubsetsOf(Nat) /\ Below # {}
  <2>1. ASSUME NEW x \in T PROVE 1 .. x \in SUBSET Nat /\ IsFiniteSet(1 .. x)
    BY FS_Interval
  <2> QED
    BY <2>1 DEF FiniteSubsetsOf
<1>2. \E b \in Below : \A a \in Below : ~ (<<a, b>> \in StrictSubsetOrdering(Nat))
  <2>1. IsWellFoundedOn(StrictSubsetOrdering(Nat), FiniteSubsetsOf(Nat))
    BY FS_StrictSubsetOrderingWellFounded
  <2> HIDE DEF Below
  <2> QED
    BY <1>1, <2>1, WFMin
<1>3. PICK x \in T : \A y \in T : ~ (<<1 .. y, 1 .. x>> \in StrictSubsetOrdering(Nat))
  BY <1>2
<1>4. ASSUME NEW y \in T, y < x PROVE FALSE
  <2>1. 1 .. y \subseteq 1 .. x /\ x \in 1 .. x /\ x \notin 1 .. y
    BY <1>4
  <2>2. 1 .. y \in SUBSET Nat /\ 1 .. x \in SUBSET Nat
    OBVIOUS
  <2>3. <<1 .. y, 1 .. x>> \in StrictSubsetOrdering(Nat)
    BY <2>1, <2>2 DEF StrictSubsetOrdering
  <2> QED
    BY <1>3, <2>3
<1> QED
  BY <1>4

\* Among places there is a first one.
LEMMA FirstExists ==
    ASSUME NEW S \in SUBSET (Nat \X Nat), S # {}
    PROVE  First(S) \in S /\ \A q \in S : ~Before(q, First(S))
<1>1. \E p \in S : \A q \in S : ~Before(q, p)
  <2> DEFINE entries == {p[1] : p \in S}
  <2>1. PICK e \in entries : \A f \in entries : e <= f
    <3>1. entries \in SUBSET Nat /\ entries # {}
      OBVIOUS
    <3> HIDE DEF entries
    <3> QED
      BY <3>1, LeastNatural
  <2> DEFINE indices == {p[2] : p \in {r \in S : r[1] = e}}
  <2>2. PICK j \in indices : \A k \in indices : j <= k
    <3>1. indices \in SUBSET Nat /\ indices # {}
      BY <2>1
    <3> HIDE DEF indices
    <3> QED
      BY <3>1, LeastNatural
  <2>3. PICK p \in S : p[1] = e /\ p[2] = j
    BY <2>2
  <2>4. ASSUME NEW q \in S PROVE ~Before(q, p)
    <3>1. q[1] \in Nat /\ q[2] \in Nat /\ e \in Nat /\ j \in Nat /\ e <= q[1]
      BY <2>1, <2>2
    <3>2. q[1] = e => j <= q[2]
      BY <2>2
    <3> QED
      BY <2>3, <3>1, <3>2 DEF Before
  <2> QED
    BY <2>4
<1> QED
  BY <1>1 DEF First

\* Places are in a line.
LEMMA BeforeLine ==
    ASSUME NEW p \in Nat \X Nat, NEW e \in Nat, NEW j \in Nat, NEW f \in Nat, NEW k \in Nat
    PROVE  /\ Before(<<e, j>>, <<f, k>>) \/ Before(<<f, k>>, <<e, j>>) \/ (e = f /\ j = k)
           /\ ~Before(p, p)
           /\ Before(p, <<e, j>>) /\ ~Before(p, <<f, k>>) => Before(<<f, k>>, <<e, j>>)
           /\ Before(p, <<e, j>>) => ~Before(<<e, j>>, p)
           /\ ~Before(p, <<f, k>>) /\ Before(p, <<e, j>>) => ~Before(<<e, j>>, <<f, k>>)
<1>1. p[1] \in Nat /\ p[2] \in Nat
  OBVIOUS
<1> QED
  BY <1>1 DEF Before

\* A list without its element at a place.
LEMMA DropAtEffect ==
    ASSUME NEW S, NEW l \in Seq(S), NEW i \in DOMAIN l
    PROVE  /\ DropAt(l, i) \in Seq(S)
           /\ Len(DropAt(l, i)) = Len(l) - 1
           /\ \A j \in 1 .. (i - 1) : DropAt(l, i)[j] = l[j]
           /\ \A j \in i .. (Len(l) - 1) : DropAt(l, i)[j] = l[j + 1]
<1> DEFINE a == SubSeq(l, 1, i - 1)
           b == SubSeq(l, i + 1, Len(l))
<1>1. Len(l) \in Nat /\ i \in 1 .. Len(l)
  OBVIOUS
<1>2. /\ a \in Seq(S) /\ Len(a) = i - 1 /\ \A j \in 1 .. (i - 1) : a[j] = l[j]
      /\ b \in Seq(S) /\ Len(b) = Len(l) - i /\ \A j \in 1 .. (Len(l) - i) : b[j] = l[i + j]
  BY <1>1
<1> HIDE DEF a, b
<1>3. /\ a \o b \in Seq(S) /\ Len(a \o b) = Len(l) - 1
      /\ \A j \in 1 .. (Len(l) - 1) : (a \o b)[j] = IF j <= i - 1 THEN a[j] ELSE b[j - (i - 1)]
  BY <1>1, <1>2, SMTT(30)
<1>4. \A j \in 1 .. (i - 1) : (a \o b)[j] = l[j]
  BY <1>1, <1>2, <1>3
<1>5. ASSUME NEW j \in i .. (Len(l) - 1) PROVE (a \o b)[j] = l[j + 1]
  <2>1. /\ j \in 1 .. (Len(l) - 1) /\ ~(j <= i - 1)
        /\ j - (i - 1) \in 1 .. (Len(l) - i) /\ i + (j - (i - 1)) = j + 1
    BY <1>1
  <2>2. (a \o b)[j] = b[j - (i - 1)]
    BY <1>3, <2>1
  <2>3. b[j - (i - 1)] = l[i + (j - (i - 1))]
    BY <1>2, <2>1
  <2> QED
    BY <2>1, <2>2, <2>3
<1> QED
  BY <1>3, <1>4, <1>5 DEF DropAt, a, b

\* Each element but the dropped one has a place, and no place is made up.
LEMMA DropAtElements ==
    ASSUME NEW S, NEW l \in Seq(S), NEW i \in DOMAIN l
    PROVE  /\ \A j \in DOMAIN DropAt(l, i) : \E k \in DOMAIN l :
                 k = (IF j < i THEN j ELSE j + 1) /\ k # i /\ DropAt(l, i)[j] = l[k]
           /\ \A k \in DOMAIN l : k # i => \E j \in DOMAIN DropAt(l, i) : DropAt(l, i)[j] = l[k]
           /\ DOMAIN DropAt(l, i) \subseteq Nat
<1> DEFINE r == DropAt(l, i)
<1>1. /\ r \in Seq(S) /\ Len(r) = Len(l) - 1
      /\ \A j \in 1 .. (i - 1) : r[j] = l[j]
      /\ \A j \in i .. (Len(l) - 1) : r[j] = l[j + 1]
  BY DropAtEffect
<1>2. Len(l) \in Nat /\ DOMAIN l = 1 .. Len(l) /\ i \in 1 .. Len(l)
  OBVIOUS
<1> HIDE DEF r
<1>3. DOMAIN r = 1 .. (Len(l) - 1)
  BY <1>1, <1>2
<1>4. \A j \in DOMAIN r : \E k \in DOMAIN l : k = (IF j < i THEN j ELSE j + 1) /\ k # i /\ r[j] = l[k]
  BY <1>1, <1>2, <1>3
<1>5. ASSUME NEW k \in DOMAIN l, k # i PROVE \E j \in DOMAIN r : r[j] = l[k]
  <2>1. CASE k < i
    <3>1. k \in DOMAIN r /\ k \in 1 .. (i - 1)
      BY <1>2, <1>3, <2>1
    <3> QED
      BY <1>1, <3>1
  <2>2. CASE k > i
    <3>1. k - 1 \in DOMAIN r /\ k - 1 \in i .. (Len(l) - 1) /\ (k - 1) + 1 = k
      BY <1>2, <1>3, <2>2
    <3>2. r[k - 1] = l[(k - 1) + 1]
      BY <1>1, <3>1
    <3> QED
      BY <3>1, <3>2
  <2> QED
    BY <1>2, <1>5, <2>1, <2>2
<1> QED
  BY <1>3, <1>4, <1>5 DEF r

\* A list without s: the others stay, in it once.
LEMMA WithoutEffect ==
    ASSUME NEW l, NEW p, ListOK(l, p), NEW s
    PROVE  /\ ListOK(Without(l, s), p)
           /\ \A j \in DOMAIN l : l[j] # s => \E k \in DOMAIN Without(l, s) : Without(l, s)[k] = l[j]
<1>1. CASE ~(\E j \in DOMAIN l : l[j] = s)
  BY <1>1 DEF Without
<1>2. CASE \E j \in DOMAIN l : l[j] = s
  <2>1. PICK i \in DOMAIN l : l[i] = s /\ Without(l, s) = DropAt(l, i)
    <3> DEFINE i == CHOOSE j \in DOMAIN l : l[j] = s
    <3>1. i \in DOMAIN l /\ l[i] = s
      BY <1>2
    <3> QED
      BY <1>2, <3>1 DEF Without
  <2> DEFINE r == DropAt(l, i)
  <2>2. /\ r \in Seq(Subs) /\ DOMAIN r \subseteq Nat /\ i \in Nat
        /\ \A j \in DOMAIN r : \E k \in DOMAIN l : k = (IF j < i THEN j ELSE j + 1) /\ k # i /\ r[j] = l[k]
        /\ \A k \in DOMAIN l : k # i => \E j \in DOMAIN r : r[j] = l[k]
    <3>1. l \in Seq(Subs)
      BY DEF ListOK
    <3>2. i \in Nat
      BY <3>1
    <3>3. r \in Seq(Subs)
      BY <3>1, DropAtEffect
    <3> QED
      BY <3>1, <3>2, <3>3, DropAtElements
  <2> HIDE DEF r
  <2>3. ListOK(r, p)
    <3>1. ASSUME NEW j \in DOMAIN r PROVE Pattern[r[j]] = p
      BY <2>2 DEF ListOK
    <3>2. ASSUME NEW j \in DOMAIN r, NEW k \in DOMAIN r, r[j] = r[k] PROVE j = k
      <4>1. PICK a \in DOMAIN l : a = (IF j < i THEN j ELSE j + 1) /\ r[j] = l[a]
        BY <2>2
      <4>2. PICK b \in DOMAIN l : b = (IF k < i THEN k ELSE k + 1) /\ r[k] = l[b]
        BY <2>2
      <4>3. a = b
        BY <3>2, <4>1, <4>2 DEF ListOK
      <4> QED
        BY <2>2, <4>1, <4>2, <4>3
    <3> QED
      BY <2>2, <3>1, <3>2 DEF ListOK
  <2>4. \A j \in DOMAIN l : l[j] # s => \E k \in DOMAIN r : r[k] = l[j]
    BY <2>1, <2>2
  <2> QED
    BY <2>1, <2>3, <2>4 DEF r
<1> QED
  BY <1>1, <1>2

\* The entry of a pattern is the only one.
LEMMA EntryUnique ==
    ASSUME RegistryInv, NEW i \in DOMAIN registry, NEW p, registry[i].pattern = p
    PROVE  EntryOf(p) = {i} /\ (CHOOSE k \in EntryOf(p) : TRUE) = i
<1>1. EntryOf(p) = {i}
  BY DEF EntryOf, RegistryInv
<1> QED
  BY <1>1

LEMMA LiveList ==
    ASSUME RegistryInv, NEW i \in DOMAIN registry, NEW e, e.live, registry[i].pattern = e.pattern
    PROVE  ListAt(e) = registry[i].subs
  BY EntryUnique DEF ListAt

\* The lists that a walk sees are proper lists.
LEMMA ListsFit ==
    ASSUME RegistryInv, NEW w, WalkFit(w)
    PROVE  /\ DOMAIN Lists(w) = DOMAIN w /\ DOMAIN w \subseteq Nat
           /\ \A e \in DOMAIN w : Lists(w)[e] = ListAt(w[e]) /\ ListOK(Lists(w)[e], w[e].pattern)
<1>1. /\ DOMAIN Lists(w) = DOMAIN w /\ DOMAIN w \subseteq Nat
      /\ \A e \in DOMAIN w : Lists(w)[e] = ListAt(w[e])
  BY DEF Lists, WalkFit
<1>2. ASSUME NEW e \in DOMAIN w PROVE ListOK(ListAt(w[e]), w[e].pattern)
  <2>1. CASE w[e].live
    <3>1. PICK i \in DOMAIN registry : registry[i].pattern = w[e].pattern
      BY <2>1 DEF WalkFit, EntryOf
    <3>2. ListAt(w[e]) = registry[i].subs
      BY <2>1, <3>1, LiveList
    <3> QED
      BY <3>1, <3>2 DEF RegistryInv
  <2>2. CASE ~w[e].live
    BY <2>2 DEF WalkFit, ListAt
  <2> QED
    BY <2>1, <2>2
<1> QED
  BY <1>1, <1>2

\* A subscriber has one place in a walk.
LEMMA PlaceUnique ==
    ASSUME RegistryInv, NEW w, WalkFit(w), NEW l, l = Lists(w),
           NEW e \in DOMAIN l, NEW j \in DOMAIN l[e],
           NEW f \in DOMAIN l, NEW k \in DOMAIN l[f], l[e][j] = l[f][k]
    PROVE  e = f /\ j = k
<1>1. e \in DOMAIN w /\ f \in DOMAIN w /\ ListOK(l[e], w[e].pattern) /\ ListOK(l[f], w[f].pattern)
  BY ListsFit
<1>2. w[e].pattern = w[f].pattern
  BY <1>1 DEF ListOK
<1>3. e = f
  BY <1>1, <1>2 DEF WalkFit
<1> QED
  BY <1>1, <1>3 DEF ListOK

\* Places and lists are what the loop's search is about.
LEMMA PlacesOf ==
    ASSUME RegistryInv, NEW w, WalkFit(w)
    PROVE  /\ Places(w) \subseteq Nat \X Nat
           /\ \A q \in Places(w) :
                 /\ q = <<q[1], q[2]>> /\ q[1] \in DOMAIN Lists(w) /\ q[2] \in DOMAIN Lists(w)[q[1]]
                 /\ SubAt(w, q) = Lists(w)[q[1]][q[2]]
           /\ \A e \in DOMAIN Lists(w) : \A j \in DOMAIN Lists(w)[e] :
                 <<e, j>> \in Places(w) /\ SubAt(w, <<e, j>>) = Lists(w)[e][j] /\ e \in Nat /\ j \in Nat
<1>1. /\ DOMAIN Lists(w) = DOMAIN w /\ DOMAIN w \subseteq Nat
      /\ \A e \in DOMAIN w : /\ Lists(w)[e] = ListAt(w[e])
                             /\ DOMAIN ListAt(w[e]) \subseteq Nat
  <2>1. \A e \in DOMAIN w : Lists(w)[e] = ListAt(w[e]) /\ ListAt(w[e]) \in Seq(Subs)
    BY ListsFit DEF ListOK
  <2> QED
    BY <2>1, ListsFit
<1>2. ASSUME NEW q \in Places(w)
      PROVE  \E e \in DOMAIN w : \E j \in DOMAIN ListAt(w[e]) : q = <<e, j>>
  <2>1. PICK e \in DOMAIN w : q \in {e} \X DOMAIN ListAt(w[e])
    BY DEF Places
  <2> QED
    BY <2>1
<1>3. \A e \in DOMAIN w : \A j \in DOMAIN ListAt(w[e]) : <<e, j>> \in Places(w)
  BY DEF Places
<1>4. \A q \in Places(w) : q = <<q[1], q[2]>> /\ q[1] \in DOMAIN w /\ q[2] \in DOMAIN ListAt(w[q[1]])
  BY <1>2
<1> QED
  BY <1>1, <1>3, <1>4 DEF SubAt

-----------------------------------------------------------------------------
(* The dispatch task goes on. *)

\* Nobody who wants m is left ahead of place p of lists l.
Done(l, p, m) == \A s \in Subs : Wants(s, m) => ~Ahead(l, p, s)

\* The next to be called for m after place p is at q: nobody else who wants m is
\* skipped.
NextCalled(l, p, m, q, s) ==
    /\ q[1] \in DOMAIN l /\ q[2] \in DOMAIN l[q[1]] /\ q \in Nat \X Nat
    /\ s \in Subs /\ l[q[1]][q[2]] = s
    /\ Before(p, q)
    /\ Wants(s, m)
    /\ \A t \in Subs : Wants(t, m) /\ Ahead(l, p, t) => t = s \/ Ahead(l, q, t)

LEMMA AdvanceEffect ==
    ASSUME RegistryInv, NEW d \in Dispatchers, NEW w, WalkFit(w), NEW p \in Nat \X Nat,
           NEW m \in Messages, Advance(d, w, p, m), NEW l, l = Lists(w)
    PROVE  \/ /\ Done(l, p, m)
              /\ \E state \in {"getting", "returned"} : Rest(d, state)
              /\ UNCHANGED <<received, cut>>
           \/ Rest(d, "crashed") /\ cut' = cut \cup {m} /\ UNCHANGED received
           \/ \E q \in Nat \X Nat, s \in Subs :
                 /\ NextCalled(l, p, m, q, s)
                 /\ received' = [received EXCEPT ![s] = Append(@, m)]
                 /\ pc' = [pc EXCEPT ![d] = "calling"]
                 /\ current' = [current EXCEPT ![d] = m]
                 /\ walk' = [walk EXCEPT ![d] = w]
                 /\ pos' = [pos EXCEPT ![d] = q]
                 /\ UNCHANGED cut
<1> DEFINE ahead == Stops(w, p, m)
           q     == First(ahead)
           s     == SubAt(w, q)
<1>1. /\ Places(w) \subseteq Nat \X Nat
      /\ \A r \in Places(w) :
            /\ r = <<r[1], r[2]>> /\ r[1] \in DOMAIN l /\ r[2] \in DOMAIN l[r[1]]
            /\ SubAt(w, r) = l[r[1]][r[2]]
      /\ \A e \in DOMAIN l : \A j \in DOMAIN l[e] :
            <<e, j>> \in Places(w) /\ SubAt(w, <<e, j>>) = l[e][j] /\ e \in Nat /\ j \in Nat
  BY PlacesOf
<1>2. ASSUME NEW t \in Subs, Wants(t, m), Ahead(l, p, t)
      PROVE  \E r \in ahead : SubAt(w, r) = t
  <2>1. PICK e \in DOMAIN l : \E j \in DOMAIN l[e] : l[e][j] = t /\ Before(p, <<e, j>>)
    BY <1>2 DEF Ahead
  <2>2. PICK j \in DOMAIN l[e] : l[e][j] = t /\ Before(p, <<e, j>>)
    BY <2>1
  <2>3. <<e, j>> \in Places(w) /\ SubAt(w, <<e, j>>) = t
    BY <1>1, <2>2
  <2>4. Hears(t, m)
    BY <1>2 DEF Wants, Hears
  <2> QED
    BY <2>2, <2>3, <2>4 DEF Stops
<1>3. CASE ahead = {}
  <2>1. Done(l, p, m)
    BY <1>2, <1>3 DEF Done
  <2>2. \E state \in {"getting", "returned"} : Rest(d, state)
    BY <1>3 DEF Advance
  <2>3. UNCHANGED <<received, cut>>
    BY <1>3 DEF Advance
  <2> QED
    BY <2>1, <2>2, <2>3
<1>4. CASE ahead # {} /\ Verdict[<<s, m>>] = "raises"
  BY <1>4 DEF Advance
<1>5. CASE ahead # {} /\ Verdict[<<s, m>>] = "accepts"
  <2>1. q \in ahead /\ \A r \in ahead : ~Before(r, q)
    <3>1. ahead \in SUBSET (Nat \X Nat)
      BY <1>1 DEF Stops
    <3> HIDE DEF ahead
    <3> QED
      BY <1>5, <3>1, FirstExists
  <2>2. q \in Places(w) /\ Before(p, q) /\ Hears(s, m)
    BY <2>1 DEF Stops
  <2> HIDE DEF q
  <2>3. /\ q \in Nat \X Nat /\ q = <<q[1], q[2]>> /\ q[1] \in DOMAIN l /\ q[2] \in DOMAIN l[q[1]]
        /\ s = l[q[1]][q[2]]
    BY <1>1, <2>2
  <2>4. s \in Subs
    <3>1. ListOK(l[q[1]], w[q[1]].pattern)
      BY <2>3, ListsFit
    <3> QED
      BY <2>3, <3>1 DEF ListOK
  <2>5. Wants(s, m)
    BY <1>5, <2>2 DEF Wants, Hears
  <2> HIDE DEF s
  <2>6. ASSUME NEW t \in Subs, Wants(t, m), Ahead(l, p, t)
        PROVE  t = s \/ Ahead(l, q, t)
    <3>1. PICK r \in ahead : SubAt(w, r) = t
      BY <1>2, <2>6
    <3>2. r \in Places(w) /\ ~Before(r, q)
      BY <2>1, <3>1 DEF Stops
    <3>3. r = <<r[1], r[2]>> /\ r[1] \in DOMAIN l /\ r[2] \in DOMAIN l[r[1]] /\ t = l[r[1]][r[2]]
          /\ r[1] \in Nat /\ r[2] \in Nat /\ q[1] \in Nat /\ q[2] \in Nat
      BY <1>1, <2>3, <3>1, <3>2
    <3>4. Before(q, r) \/ (q[1] = r[1] /\ q[2] = r[2])
      BY <3>2, <3>3 DEF Before
    <3>5. CASE q[1] = r[1] /\ q[2] = r[2]
      BY <2>3, <3>3, <3>5
    <3>6. CASE Before(q, r)
      BY <3>3, <3>6 DEF Ahead
    <3> QED
      BY <3>4, <3>5, <3>6
  <2>7. NextCalled(l, p, m, q, s)
    BY <2>2, <2>3, <2>4, <2>5, <2>6 DEF NextCalled
  <2>8. /\ received' = [received EXCEPT ![s] = Append(@, m)]
        /\ pc' = [pc EXCEPT ![d] = "calling"]
        /\ current' = [current EXCEPT ![d] = m]
        /\ walk' = [walk EXCEPT ![d] = w]
        /\ pos' = [pos EXCEPT ![d] = q]
        /\ UNCHANGED cut
    BY <1>5 DEF Advance, q, s
  <2> QED
    BY <2>3, <2>4, <2>7, <2>8
<1> QED
  BY <1>3, <1>4, <1>5 DEF Advance

\* The message that was taken last is received once more.
LEMMA ReceiveKeeps ==
    ASSUME NEW h \in Seq(Messages), h # <<>>, ReceivedOK(h),
           NEW m \in Messages, m = h[Len(h)], NEW s \in Subs, Wants(s, m), ~Got(s, m),
           received' = [received EXCEPT ![s] = Append(@, m)]
    PROVE  /\ ReceivedOK(h)'
           /\ Got(s, m)'
           /\ \A t \in Subs : \A n : Got(t, n)' <=> Got(t, n) \/ (t = s /\ n = m)
<1> DEFINE a == received[s]
           b == Append(a, m)
<1>1. /\ received' \in [Subs -> Seq(Messages)]
      /\ received'[s] = b
      /\ \A t \in Subs : t # s => received'[t] = received[t]
  BY DEF ReceivedOK
<1>2. /\ a \in Seq(Messages)
      /\ \A i \in DOMAIN a : Wants(s, a[i]) /\ a[i] # m
      /\ \A i, j \in DOMAIN a : a[i] = a[j] => i = j
      /\ InOrder(a, h)
  BY DEF ReceivedOK, Got
<1>3. Len(a) \in Nat /\ DOMAIN a = 1 .. Len(a)
  BY <1>2
<1>4. /\ DOMAIN b = 1 .. (Len(a) + 1) /\ b[Len(a) + 1] = m
      /\ \A i \in 1 .. Len(a) : b[i] = a[i]
  BY <1>2
<1>5. Len(h) \in DOMAIN h /\ DOMAIN h = 1 .. Len(h) /\ Len(h) \in Nat
  OBVIOUS
<1> HIDE DEF a, b
<1>6. \A i \in DOMAIN b : Wants(s, b[i])
  BY <1>2, <1>3, <1>4
<1>7. \A i, j \in DOMAIN b : b[i] = b[j] => i = j
  BY <1>2, <1>3, <1>4
<1>8. InOrder(b, h)
  <2>1. ASSUME NEW i \in DOMAIN b PROVE \E k \in DOMAIN h : h[k] = b[i]
    BY <1>2, <1>3, <1>4, <1>5 DEF InOrder
  <2>2. ASSUME NEW i \in DOMAIN b, NEW j \in DOMAIN b, i < j
        PROVE  \E k, n \in DOMAIN h : k < n /\ h[k] = b[i] /\ h[n] = b[j]
    <3>1. CASE j = Len(a) + 1
      <4>1. i \in DOMAIN a /\ b[i] = a[i] /\ b[j] = m
        BY <1>3, <1>4, <2>2, <3>1
      <4>2. PICK k \in DOMAIN h : h[k] = a[i]
        BY <1>2, <4>1 DEF InOrder
      <4>3. k # Len(h)
        BY <1>2, <4>1, <4>2
      <4>4. k < Len(h)
        BY <1>5, <4>3
      <4> QED
        BY <1>5, <4>1, <4>2, <4>4
    <3>2. CASE j # Len(a) + 1
      <4>1. i \in DOMAIN a /\ j \in DOMAIN a /\ b[i] = a[i] /\ b[j] = a[j]
        BY <1>3, <1>4, <2>2, <3>2
      <4> QED
        BY <1>2, <2>2, <4>1 DEF InOrder
    <3> QED
      BY <3>1, <3>2
  <2> QED
    BY <2>1, <2>2 DEF InOrder
<1>9. ASSUME NEW t \in Subs
      PROVE  /\ \A i \in DOMAIN received'[t] : Wants(t, received'[t][i])
             /\ \A i, j \in DOMAIN received'[t] : received'[t][i] = received'[t][j] => i = j
             /\ InOrder(received'[t], h)
  <2>1. CASE t = s
    BY <1>1, <1>6, <1>7, <1>8, <2>1
  <2>2. CASE t # s
    BY <1>1, <2>2 DEF ReceivedOK
  <2> QED
    BY <2>1, <2>2
<1>10. ReceivedOK(h)'
  BY <1>1, <1>9 DEF ReceivedOK, Wants, InOrder
<1>11. ASSUME NEW t \in Subs, NEW n
       PROVE  Got(t, n)' <=> Got(t, n) \/ (t = s /\ n = m)
  <2>1. CASE t = s
    <3>1. (\E i \in DOMAIN b : b[i] = n) <=> (\E i \in DOMAIN a : a[i] = n) \/ n = m
      <4>1. ASSUME NEW i \in DOMAIN b PROVE b[i] = m \/ \E j \in DOMAIN a : b[i] = a[j]
        BY <1>3, <1>4
      <4>2. \A i \in DOMAIN a : i \in DOMAIN b /\ b[i] = a[i]
        BY <1>3, <1>4
      <4>3. Len(a) + 1 \in DOMAIN b /\ b[Len(a) + 1] = m
        BY <1>3, <1>4
      <4> QED
        BY ONLY <4>1, <4>2, <4>3, Zenon
    <3> QED
      BY <1>1, <2>1, <3>1 DEF Got, a
  <2>2. CASE t # s
    BY <1>1, <2>2 DEF Got
  <2> QED
    BY <2>1, <2>2
<1> QED
  BY <1>10, <1>11

\* What a dispatch task that goes on leaves behind: it calls the next one, or
\* everybody that is due m got it, unless the delivery was cut off.
Delivers(d, w, l, m, h, D) ==
    /\ ReceivedOK(h)'
    /\ \A t \in Subs : \A n : Got(t, n) => Got(t, n)'
    /\ cut \subseteq cut' /\ cut' \subseteq Messages
    /\ walk' \in [Dispatchers -> Seq(WalkEntry)]
    /\ pos' \in [Dispatchers -> Nat \X Nat]
    /\ current' \in [Dispatchers -> Messages \cup {None}]
    /\ \A c \in Dispatchers : c # d => pc'[c] = pc[c]
    /\ \/ /\ pc'[d] = "calling" /\ current'[d] = m /\ walk'[d] = w
          /\ \E q : pos'[d] = q /\ WalkSound(l, q, m, D)'
       \/ pc'[d] # "calling" /\ \A s \in D : Wants(s, m) => Got(s, m)' \/ m \in cut'

DeliveryTyped ==
    /\ walk \in [Dispatchers -> Seq(WalkEntry)]
    /\ pos \in [Dispatchers -> Nat \X Nat]
    /\ current \in [Dispatchers -> Messages \cup {None}]
    /\ cut \subseteq Messages

LEMMA RestEffect ==
    ASSUME LifecycleTyped, DeliveryTyped, NEW d \in Dispatchers, NEW state, Rest(d, state),
           state \in {"getting", "returned", "crashed"}
    PROVE  /\ walk' \in [Dispatchers -> Seq(WalkEntry)]
           /\ pos' \in [Dispatchers -> Nat \X Nat]
           /\ current' \in [Dispatchers -> Messages \cup {None}]
           /\ \A c \in Dispatchers : c # d => pc'[c] = pc[c]
           /\ pc'[d] # "calling"
<1>1. <<>> \in Seq(WalkEntry) /\ <<1, 0>> \in Nat \X Nat
  OBVIOUS
<1>2. /\ pc' = [pc EXCEPT ![d] = state] /\ current' = [current EXCEPT ![d] = None]
      /\ walk' = [walk EXCEPT ![d] = <<>>] /\ pos' = [pos EXCEPT ![d] = <<1, 0>>]
  BY DEF Rest
<1>3. walk' \in [Dispatchers -> Seq(WalkEntry)]
  BY <1>1, <1>2 DEF DeliveryTyped
<1>4. pos' \in [Dispatchers -> Nat \X Nat]
  BY <1>1, <1>2 DEF DeliveryTyped
<1>5. current' \in [Dispatchers -> Messages \cup {None}]
  BY <1>2 DEF DeliveryTyped
<1>6. (\A c \in Dispatchers : c # d => pc'[c] = pc[c]) /\ pc'[d] = state
  BY <1>2 DEF LifecycleTyped
<1> QED
  BY <1>3, <1>4, <1>5, <1>6

LEMMA AdvanceKeeps ==
    ASSUME RegistryInv, LifecycleTyped, DeliveryTyped, NEW d \in Dispatchers,
           NEW w, WalkFit(w), NEW l, l = Lists(w), NEW p \in Nat \X Nat, NEW m \in Messages,
           NEW h \in Seq(Messages), h # <<>>, h[Len(h)] = m, ReceivedOK(h),
           NEW D \in SUBSET Subs, WalkSound(l, p, m, D), Advance(d, w, p, m)
    PROVE  Delivers(d, w, l, m, h, D)
<1>1. CASE /\ Done(l, p, m)
           /\ \E state \in {"getting", "returned"} : Rest(d, state)
           /\ UNCHANGED <<received, cut>>
  <2>1. PICK state \in {"getting", "returned"} : Rest(d, state)
    BY <1>1
  <2>2. ReceivedOK(h)' /\ (\A t \in Subs : \A n : Got(t, n)' <=> Got(t, n)) /\ cut' = cut
    BY <1>1 DEF ReceivedOK, Got, Wants, InOrder
  <2>3. \A s \in D : Wants(s, m) => Got(s, m)
    BY <1>1 DEF Done, WalkSound
  <2> QED
    BY <2>1, <2>2, <2>3, RestEffect DEF Delivers, DeliveryTyped
<1>2. CASE Rest(d, "crashed") /\ cut' = cut \cup {m} /\ UNCHANGED received
  <2>1. ReceivedOK(h)' /\ (\A t \in Subs : \A n : Got(t, n)' <=> Got(t, n))
    BY <1>2 DEF ReceivedOK, Got, Wants, InOrder
  <2> QED
    BY <1>2, <2>1, RestEffect DEF Delivers, DeliveryTyped
<1>3. ASSUME NEW q \in Nat \X Nat, NEW s \in Subs,
             NextCalled(l, p, m, q, s),
             received' = [received EXCEPT ![s] = Append(@, m)],
             pc' = [pc EXCEPT ![d] = "calling"],
             current' = [current EXCEPT ![d] = m],
             walk' = [walk EXCEPT ![d] = w],
             pos' = [pos EXCEPT ![d] = q],
             UNCHANGED cut
      PROVE  Delivers(d, w, l, m, h, D)
  <2>1. /\ DOMAIN l \subseteq Nat
        /\ \A e \in DOMAIN l : \A j \in DOMAIN l[e] : e \in Nat /\ j \in Nat
    BY PlacesOf, ListsFit
  <2>2. /\ q[1] \in DOMAIN l /\ q[2] \in DOMAIN l[q[1]] /\ l[q[1]][q[2]] = s
        /\ q[1] \in Nat /\ q[2] \in Nat /\ q = <<q[1], q[2]>>
        /\ Before(p, q) /\ Wants(s, m)
        /\ \A t \in Subs : Wants(t, m) /\ Ahead(l, p, t) => t = s \/ Ahead(l, q, t)
    BY <1>3 DEF NextCalled
  <2>3. ~Got(s, m)
    <3> SUFFICES ASSUME Got(s, m) PROVE FALSE
      OBVIOUS
    <3>1. PICK e \in DOMAIN l : \E j \in DOMAIN l[e] : l[e][j] = s /\ ~Before(p, <<e, j>>)
      BY DEF WalkSound, Passed
    <3>2. PICK j \in DOMAIN l[e] : l[e][j] = s /\ ~Before(p, <<e, j>>)
      BY <3>1
    <3>3. e = q[1] /\ j = q[2]
      BY <2>2, <3>2, PlaceUnique
    <3> QED
      BY <2>2, <3>2, <3>3
  <2>4. /\ ReceivedOK(h)' /\ Got(s, m)'
        /\ \A t \in Subs : \A n : Got(t, n)' <=> Got(t, n) \/ (t = s /\ n = m)
    <3>1. Wants(s, m) /\ m = h[Len(h)] /\ received' = [received EXCEPT ![s] = Append(@, m)]
      BY <1>3, <2>2
    <3> QED
      BY <2>3, <3>1, ReceiveKeeps
  <2>5. ASSUME NEW t \in Subs, Got(t, m)' PROVE Passed(l, q, t)
    <3>1. CASE t = s
      BY <2>2, <3>1, BeforeLine, SMTT(30) DEF Passed
    <3>2. CASE t # s
      <4>1. Passed(l, p, t)
        BY <2>4, <2>5, <3>2 DEF WalkSound
      <4>2. PICK e \in DOMAIN l : \E j \in DOMAIN l[e] : l[e][j] = t /\ ~Before(p, <<e, j>>)
        BY <4>1 DEF Passed
      <4>3. PICK j \in DOMAIN l[e] : l[e][j] = t /\ ~Before(p, <<e, j>>)
        BY <4>2
      <4>4. ~Before(q, <<e, j>>)
        BY <2>1, <2>2, <4>3, BeforeLine
      <4> QED
        BY <4>3, <4>4 DEF Passed
    <3> QED
      BY <3>1, <3>2
  <2>6. ASSUME NEW t \in D, Wants(t, m) PROVE Got(t, m)' \/ Ahead(l, q, t)
    <3>1. t \in Subs /\ (Got(t, m) \/ Ahead(l, p, t))
      BY <2>6 DEF WalkSound
    <3> QED
      BY <2>2, <2>4, <2>6, <3>1
  <2>7. WalkSound(l, q, m, D)'
    BY <2>5, <2>6 DEF WalkSound, Passed, Ahead, Wants, Before
  <2>8. /\ walk' \in [Dispatchers -> Seq(WalkEntry)] /\ walk'[d] = w
        /\ pos' \in [Dispatchers -> Nat \X Nat] /\ pos'[d] = q
        /\ current' \in [Dispatchers -> Messages \cup {None}] /\ current'[d] = m
    BY <1>3 DEF DeliveryTyped, WalkFit
  <2>9. pc'[d] = "calling" /\ \A c \in Dispatchers : c # d => pc'[c] = pc[c]
    BY <1>3 DEF LifecycleTyped
  <2>10. (\A t \in Subs : \A n : Got(t, n) => Got(t, n)') /\ cut \subseteq cut' /\ cut' \subseteq Messages
    BY <1>3, <2>4 DEF DeliveryTyped
  <2> QED
    BY <2>4, <2>7, <2>8, <2>9, <2>10 DEF Delivers
<1>4. \/ /\ Done(l, p, m)
         /\ \E state \in {"getting", "returned"} : Rest(d, state)
         /\ UNCHANGED <<received, cut>>
      \/ Rest(d, "crashed") /\ cut' = cut \cup {m} /\ UNCHANGED received
      \/ \E q \in Nat \X Nat, s \in Subs :
            /\ NextCalled(l, p, m, q, s)
            /\ received' = [received EXCEPT ![s] = Append(@, m)]
            /\ pc' = [pc EXCEPT ![d] = "calling"]
            /\ current' = [current EXCEPT ![d] = m]
            /\ walk' = [walk EXCEPT ![d] = w]
            /\ pos' = [pos EXCEPT ![d] = q]
            /\ UNCHANGED cut
  BY AdvanceEffect
<1> QED
  BY <1>1, <1>2, <1>3, <1>4

\* Nobody but d is in a walk.
LEMMA OneWalks ==
    ASSUME BusInv, NEW d \in Dispatchers, d \in Alive
    PROVE  \A c \in Dispatchers : c # d => pc[c] # "calling"
  BY DEF BusInv, OneDispatcher, Alive

\* While the registry stays as it is, so do the lists of a walk.
LEMMA ListsStay ==
    ASSUME registry' = registry, NEW w
    PROVE  /\ WalkFit(w)' <=> WalkFit(w)
           /\ Lists(w)' = Lists(w)
           /\ RegistryInv' <=> RegistryInv
           /\ \A s \in Subs : Registered(s)' <=> Registered(s)
<1>1. \A p : EntryOf(p)' = EntryOf(p)
  BY DEF EntryOf
<1>2. ASSUME NEW e PROVE ListAt(e)' = ListAt(e)
  <2>1. EntryOf(e.pattern)' = EntryOf(e.pattern)
    BY <1>1
  <2> QED
    BY <2>1 DEF ListAt
<1> QED
  BY <1>1, <1>2 DEF WalkFit, Lists, RegistryInv, ListOK, Registered

\* Task d, with all that it delivers, keeps what holds of walks and debts.
LEMMA DeliversKeeps ==
    ASSUME DeliveryInv, BusInv, NEW d \in Dispatchers, pc[d] \in {"getting", "calling"},
           NEW w, WalkFit(w), NEW l, l = Lists(w), NEW m \in Messages, NEW h, NEW D,
           Delivers(d, w, l, m, h, D),
           registry' = registry, history' = h, h # <<>>, h[Len(h)] = m,
           due' \in [Messages -> SUBSET Subs], due'[m] = D,
           \A n \in Messages : n # m => due'[n] = due[n],
           \A s \in D : Registered(s),
           pc[d] = "calling" => current[d] = m
    PROVE  (RegistryInv /\ ReceivedOK(history) /\ WalksInv /\ DueInv)'
<1>1. \A c \in Dispatchers : c # d => pc[c] # "calling" /\ pc'[c] # "calling"
  BY OneWalks DEF Alive, Delivers
<1>2. RegistryInv' /\ WalkFit(w)' /\ Lists(w)' = l /\ \A s \in Subs : Registered(s)' <=> Registered(s)
  BY ListsStay DEF DeliveryInv
<1>3. ReceivedOK(history)'
  BY DEF Delivers, ReceivedOK, InOrder
<1>4. ASSUME NEW c \in Dispatchers, pc'[c] = "calling"
      PROVE  /\ history' # <<>> /\ current'[c] = history'[Len(history')]
             /\ WalkFit(walk[c])'
             /\ WalkSound(Lists(walk[c]), pos[c], current[c], due[current[c]])'
  <2>1. c = d /\ pc'[d] = "calling"
    BY <1>1, <1>4
  <2>2. walk'[d] = w /\ current'[d] = m /\ \E q : pos'[d] = q /\ WalkSound(l, q, m, D)'
    BY <2>1 DEF Delivers
  <2>3. PICK q : pos'[d] = q /\ WalkSound(l, q, m, D)'
    BY <2>2
  <2>4. WalkFit(walk[d])' /\ Lists(walk[d])' = l
    BY <1>2, <2>2 DEF WalkFit, Lists
  <2>5. WalkSound(Lists(walk[d]), pos[d], current[d], due[current[d]])'
    BY <2>2, <2>3, <2>4 DEF WalkSound
  <2> QED
    BY <2>1, <2>2, <2>4, <2>5
<1>5. WalksInv'
  BY <1>4 DEF WalksInv, Delivers
<1>6. ASSUME NEW n \in Messages, NEW s \in due'[n]
      PROVE  /\ Registered(s)'
             /\ Wants(s, n) => \/ Got(s, n)' \/ n \in cut'
                               \/ \E c \in Dispatchers : pc'[c] = "calling" /\ current'[c] = n
  <2>1. s \in Subs /\ (n = m => s \in D) /\ (n # m => s \in due[n])
    OBVIOUS
  <2>2. Registered(s)'
    BY <1>2, <2>1 DEF DeliveryInv, DueInv
  <2>3. CASE n = m
    BY <2>1, <2>2, <2>3 DEF Delivers
  <2>4. CASE n # m
    <3>1. Wants(s, n) => Got(s, n) \/ n \in cut
      BY <1>1, <2>1, <2>4 DEF DeliveryInv, DueInv
    <3>2. (Got(s, n) => Got(s, n)') /\ cut \subseteq cut'
      BY <2>1 DEF Delivers
    <3> QED
      BY <2>2, <3>1, <3>2
  <2> QED
    BY <2>3, <2>4
<1>7. DueInv'
  BY <1>6 DEF DueInv, Delivers, Wants
<1> QED
  BY <1>2, <1>3, <1>5, <1>7

LEMMA DeliveryTypes == ASSUME DeliveryInv PROVE DeliveryTyped
  BY DEF DeliveryInv, DeliveryTyped, WalksInv, DueInv

LEMMA CallbackKeeps ==
    ASSUME DeliveryInv, BusInv, NEW d \in Dispatchers, CallbackEnds(d)
    PROVE  DeliveryInv'
<1> DEFINE m == current[d]
<1>1. /\ pc[d] = "calling" /\ Advance(d, walk[d], pos[d], m)
      /\ registry' = registry /\ history' = history /\ due' = due
      /\ queue' = queue /\ handed' = handed /\ entered' = entered
  BY DEF CallbackEnds, client
<1>2. /\ history # <<>> /\ m = history[Len(history)] /\ history \in Seq(Messages)
      /\ WalkFit(walk[d]) /\ WalkSound(Lists(walk[d]), pos[d], m, due[m]) /\ pos[d] \in Nat \X Nat
  BY <1>1 DEF DeliveryInv, WalksInv, QueueInv
<1>3. m \in Messages
  BY <1>2
<1>4. RegistryInv /\ LifecycleTyped /\ DeliveryTyped /\ ReceivedOK(history) /\ due[m] \in SUBSET Subs
  BY <1>3, DeliveryTypes DEF DeliveryInv, BusInv, DueInv
<1> HIDE DEF m
<1>5. PICK n, h, w, l, D, p : n = m /\ h = history /\ w = walk[d] /\ l = Lists(w) /\ D = due[m] /\ p = pos[d]
  OBVIOUS
<1>6. Delivers(d, w, l, n, h, D)
  BY <1>1, <1>2, <1>3, <1>4, <1>5, AdvanceKeeps
<1>7. \A s \in D : Registered(s)
  BY <1>3, <1>5 DEF DeliveryInv, DueInv
<1>8. due' \in [Messages -> SUBSET Subs] /\ due'[n] = D
  BY <1>1, <1>5 DEF DeliveryInv, DueInv
<1>9. (RegistryInv /\ ReceivedOK(history) /\ WalksInv /\ DueInv)'
  BY <1>1, <1>2, <1>3, <1>5, <1>6, <1>7, <1>8, DeliversKeeps DEF m
<1> QED
  BY <1>1, <1>9 DEF DeliveryInv, QueueInv

\* A history that grows keeps the order of what was received.
LEMMA HistoryGrows ==
    ASSUME NEW h \in Seq(Messages), NEW m \in Messages, ReceivedOK(h)
    PROVE  ReceivedOK(Append(h, m))
<1> DEFINE g == Append(h, m)
<1>1. /\ DOMAIN h \subseteq DOMAIN g
      /\ \A k \in DOMAIN h : g[k] = h[k]
  OBVIOUS
<1> HIDE DEF g
<1>2. ASSUME NEW l, InOrder(l, h) PROVE InOrder(l, g)
  <2>1. ASSUME NEW i \in DOMAIN l PROVE \E k \in DOMAIN g : g[k] = l[i]
    BY <1>1, <1>2 DEF InOrder
  <2>2. ASSUME NEW i \in DOMAIN l, NEW j \in DOMAIN l, i < j
        PROVE  \E k, n \in DOMAIN g : k < n /\ g[k] = l[i] /\ g[n] = l[j]
    <3>1. PICK k \in DOMAIN h, n \in DOMAIN h : k < n /\ h[k] = l[i] /\ h[n] = l[j]
      BY <1>2, <2>2 DEF InOrder
    <3> QED
      BY <1>1, <3>1
  <2> QED
    BY <2>1, <2>2 DEF InOrder
<1> QED
  BY <1>2 DEF ReceivedOK, g

\* What has been received is in the history, and what is queued is not.
LEMMA QueuedIsNew ==
    ASSUME DeliveryInv, queue # <<>>
    PROVE  /\ Head(queue) \in Messages
           /\ \A k \in DOMAIN history : history[k] # Head(queue)
           /\ \A s \in Subs : ~Got(s, Head(queue))
           /\ history \o queue = Append(history, Head(queue)) \o Tail(queue)
           /\ Tail(queue) \in Seq(Messages)
<1>1. queue \in Seq(Messages) /\ history \in Seq(Messages) /\ entered = history \o queue
  BY DEF DeliveryInv, QueueInv
<1>2. /\ Head(queue) \in Messages /\ Tail(queue) \in Seq(Messages)
      /\ Len(queue) \in Nat /\ Len(queue) >= 1 /\ Len(history) \in Nat
      /\ Head(queue) = queue[1] /\ Len(Tail(queue)) = Len(queue) - 1
      /\ \A i \in 1 .. Len(Tail(queue)) : Tail(queue)[i] = queue[i + 1]
  BY <1>1, HeadTailProperties
<1>3. /\ \A k \in 1 .. Len(history) : entered[k] = history[k]
      /\ entered[Len(history) + 1] = queue[1]
      /\ DOMAIN entered = 1 .. (Len(history) + Len(queue))
  BY <1>1, <1>2
<1>4. ASSUME NEW k \in DOMAIN history PROVE history[k] # Head(queue)
  <2>1. k \in 1 .. Len(history) /\ k \in DOMAIN entered /\ Len(history) + 1 \in DOMAIN entered
        /\ k # Len(history) + 1
    BY <1>1, <1>2, <1>3
  <2>2. entered[k] # entered[Len(history) + 1]
    BY <2>1 DEF DeliveryInv, QueueInv
  <2> QED
    BY <1>2, <1>3, <2>1, <2>2
<1>5. \A s \in Subs : ~Got(s, Head(queue))
  BY <1>4 DEF DeliveryInv, ReceivedOK, InOrder, Got
<1>6. history \o queue = Append(history, Head(queue)) \o Tail(queue)
  <2> DEFINE a == history \o queue
             b == Append(history, Head(queue)) \o Tail(queue)
             n == Len(history)
  <2>1. /\ a \in Seq(Messages) /\ Len(a) = n + Len(queue)
        /\ \A i \in 1 .. (n + Len(queue)) : a[i] = IF i <= n THEN history[i] ELSE queue[i - n]
    BY <1>1, <1>2
  <2>2. /\ Append(history, Head(queue)) \in Seq(Messages)
        /\ Len(Append(history, Head(queue))) = n + 1
        /\ \A i \in 1 .. n : Append(history, Head(queue))[i] = history[i]
        /\ Append(history, Head(queue))[n + 1] = Head(queue)
    BY <1>1, <1>2
  <2>3. /\ b \in Seq(Messages) /\ Len(b) = (n + 1) + (Len(queue) - 1)
        /\ \A i \in 1 .. ((n + 1) + (Len(queue) - 1)) :
              b[i] = IF i <= n + 1 THEN Append(history, Head(queue))[i] ELSE Tail(queue)[i - (n + 1)]
    BY <1>2, <2>2
  <2> HIDE DEF a, b, n
  <2>4. n \in Nat
    BY <1>2 DEF n
  <2>5. Len(a) = Len(b)
    BY <1>2, <2>1, <2>3, <2>4
  <2>6. ASSUME NEW i \in 1 .. Len(a) PROVE a[i] = b[i]
    <3>1. CASE i <= n
      <4>1. i \in 1 .. n /\ i \in 1 .. ((n + 1) + (Len(queue) - 1)) /\ i <= n + 1
        BY <1>2, <2>1, <2>4, <3>1
      <4>2. b[i] = Append(history, Head(queue))[i]
        BY <2>3, <4>1
      <4> QED
        BY <2>1, <2>2, <3>1, <4>1, <4>2
    <3>2. CASE i = n + 1
      BY <1>2, <2>1, <2>2, <2>3, <2>4, <3>2
    <3>3. CASE i > n + 1
      <4>1. i - (n + 1) \in 1 .. Len(Tail(queue)) /\ (i - (n + 1)) + 1 = i - n
        BY <1>2, <2>1, <2>4, <3>3
      <4>2. b[i] = Tail(queue)[i - (n + 1)] /\ a[i] = queue[i - n]
        BY <1>2, <2>1, <2>3, <2>4, <3>3
      <4>3. Tail(queue)[i - (n + 1)] = queue[(i - (n + 1)) + 1]
        BY <1>2, <4>1
      <4> QED
        BY <4>1, <4>2, <4>3
    <3> QED
      BY <2>1, <2>4, <3>1, <3>2, <3>3
  <2>7. a = b
    BY <2>1, <2>3, <2>5, <2>6, SeqEqual
  <2> QED
    BY <2>7 DEF a, b
<1> QED
  BY <1>2, <1>4, <1>5, <1>6

\* A walk that begins has every registered subscriber ahead, and nobody got the
\* message yet.
LEMMA TakeKeeps ==
    ASSUME DeliveryInv, BusInv, NEW d \in Dispatchers, Take(d)
    PROVE  DeliveryInv'
<1> DEFINE walk0 == [i \in DOMAIN registry |->
                        [pattern |-> registry[i].pattern, live |-> TRUE, subs |-> <<>>]]
<1>1. /\ pc[d] = "getting" /\ queue # <<>> /\ queue' = Tail(queue)
      /\ history' = Append(history, Head(queue))
      /\ Advance(d, walk0, <<1, 0>>, Head(queue))
      /\ due' = [due EXCEPT ![Head(queue)] = {s \in Subs : Registered(s)}]
      /\ registry' = registry /\ handed' = handed /\ entered' = entered
  BY DEF Take, client
<1>2. PICK m, h, w, D, p : /\ m = Head(queue) /\ h = Append(history, Head(queue)) /\ w = walk0
                           /\ D = {s \in Subs : Registered(s)} /\ p = <<1, 0>>
  OBVIOUS
<1>3. /\ m \in Messages /\ (\A s \in Subs : ~Got(s, m)) /\ history \in Seq(Messages)
      /\ history \o queue = Append(history, m) \o Tail(queue) /\ Tail(queue) \in Seq(Messages)
  BY <1>1, <1>2, QueuedIsNew DEF DeliveryInv, QueueInv
<1>4. h \in Seq(Messages) /\ h # <<>> /\ h[Len(h)] = m
  BY <1>2, <1>3
<1>5. ReceivedOK(h)
  BY <1>2, <1>3, HistoryGrows DEF DeliveryInv
<1>6. /\ w \in Seq(WalkEntry) /\ DOMAIN w = DOMAIN registry
      /\ \A i \in DOMAIN w : w[i].pattern = registry[i].pattern /\ w[i].live
  <2> DEFINE entry == [pattern : {Pattern[s] : s \in Subs}, subs : Seq(Subs)]
  <2>0. registry \in Seq(entry)
    BY DEF DeliveryInv, RegistryInv
  <2> HIDE DEF entry
  <2>1. /\ Len(registry) \in Nat /\ DOMAIN registry = 1 .. Len(registry)
        /\ \A i \in DOMAIN registry : registry[i] \in entry
    BY <2>0
  <2>2. ASSUME NEW i \in DOMAIN registry
        PROVE  [pattern |-> registry[i].pattern, live |-> TRUE, subs |-> <<>>] \in WalkEntry
    <3>1. registry[i] \in [pattern : {Pattern[s] : s \in Subs}, subs : Seq(Subs)]
      BY <2>1 DEF entry
    <3>2. registry[i].pattern \in {Pattern[s] : s \in Subs} /\ <<>> \in Seq(Subs)
      BY <3>1
    <3> QED
      BY <3>2 DEF WalkEntry
  <2>3. w \in [1 .. Len(registry) -> WalkEntry]
    BY <1>2, <2>1, <2>2
  <2> QED
    BY <1>2, <2>1, <2>3
<1>7. WalkFit(w)
  BY <1>6 DEF WalkFit, DeliveryInv, RegistryInv, EntryOf
<1>8. PICK l : l = Lists(w)
  OBVIOUS
<1>9. DOMAIN l = DOMAIN registry /\ \A i \in DOMAIN l : l[i] = registry[i].subs
  <2>1. ASSUME NEW i \in DOMAIN registry PROVE ListAt(w[i]) = registry[i].subs
    BY <1>6, LiveList DEF DeliveryInv
  <2> QED
    BY <1>6, <1>8, <2>1 DEF Lists
<1>10. ASSUME NEW s \in D PROVE Ahead(l, p, s)
  <2>1. PICK i \in DOMAIN registry : \E j \in DOMAIN registry[i].subs : registry[i].subs[j] = s
    BY <1>2 DEF Registered
  <2>2. PICK j \in DOMAIN registry[i].subs : registry[i].subs[j] = s
    BY <2>1
  <2>3. i >= 1 /\ i \in Nat
    BY DEF DeliveryInv, RegistryInv
  <2>4. j >= 1 /\ j \in Nat
    <3>1. registry[i].subs \in Seq(Subs)
      BY DEF DeliveryInv, RegistryInv, ListOK
    <3> QED
      BY <3>1
  <2>5. Before(p, <<i, j>>)
    BY <1>2, <2>3, <2>4 DEF Before
  <2> QED
    BY <1>9, <2>2, <2>5 DEF Ahead
<1>11. WalkSound(l, p, m, D)
  BY <1>3, <1>10 DEF WalkSound
<1>12. RegistryInv /\ LifecycleTyped /\ DeliveryTyped /\ D \in SUBSET Subs /\ p \in Nat \X Nat
  BY <1>2, DeliveryTypes DEF DeliveryInv, BusInv
<1>13. Advance(d, w, p, m)
  BY <1>1, <1>2
<1> HIDE DEF walk0
<1>14. Delivers(d, w, l, m, h, D)
  BY <1>3, <1>4, <1>5, <1>7, <1>8, <1>11, <1>12, <1>13, AdvanceKeeps
<1>15. /\ due' \in [Messages -> SUBSET Subs] /\ due'[m] = D
       /\ \A n \in Messages : n # m => due'[n] = due[n]
  BY <1>1, <1>2, <1>3, <1>12 DEF DeliveryInv, DueInv
<1>16. \A s \in D : Registered(s)
  BY <1>2
<1>17. (RegistryInv /\ ReceivedOK(history) /\ WalksInv /\ DueInv)'
  BY <1>1, <1>2, <1>3, <1>4, <1>7, <1>8, <1>14, <1>15, <1>16, DeliversKeeps, ZenonT(40)
<1>18. QueueInv'
  <2>1. entered' = history' \o queue' /\ history' \in Seq(Messages) /\ queue' \in Seq(Messages)
    BY <1>1, <1>2, <1>3, <1>4 DEF DeliveryInv, QueueInv
  <2>2. /\ \A i, j \in DOMAIN entered : entered[i] = entered[j] => i = j
        /\ handed \in Seq(Messages)
        /\ \A i, j \in DOMAIN handed : handed[i] = handed[j] => i = j
        /\ \A i \in DOMAIN entered, j \in DOMAIN handed : entered[i] # handed[j]
    BY DEF DeliveryInv, QueueInv
  <2>3. entered' = entered /\ handed' = handed
    BY <1>1
  <2> QED
    BY ONLY <2>1, <2>2, <2>3 DEF QueueInv
<1> QED
  BY <1>17, <1>18 DEF DeliveryInv

\* A task that begins, or is cancelled, ends no delivery but one cut off.
LEMMA RestKeeps ==
    ASSUME DeliveryInv, BusInv, NEW d \in Dispatchers, Begin(d) \/ CancelArrives(d)
    PROVE  DeliveryInv'
<1>1. /\ d \in Alive
      /\ \E state \in {"getting", "returned"} : Rest(d, state)
      /\ registry' = registry /\ handed' = handed /\ queue' = queue /\ history' = history
      /\ entered' = entered /\ received' = received /\ due' = due
      /\ cut' = (IF pc[d] = "calling" THEN cut \cup {current[d]} ELSE cut)
  BY DEF Begin, CancelArrives, client, account, Alive
<1>2. /\ walk' \in [Dispatchers -> Seq(WalkEntry)]
      /\ pos' \in [Dispatchers -> Nat \X Nat]
      /\ current' \in [Dispatchers -> Messages \cup {None}]
      /\ \A c \in Dispatchers : pc'[c] # "calling"
  <2>1. PICK state \in {"getting", "returned"} : Rest(d, state)
    BY <1>1
  <2>2. /\ walk' \in [Dispatchers -> Seq(WalkEntry)]
        /\ pos' \in [Dispatchers -> Nat \X Nat]
        /\ current' \in [Dispatchers -> Messages \cup {None}]
        /\ \A c \in Dispatchers : c # d => pc'[c] = pc[c]
        /\ pc'[d] # "calling"
    BY <2>1, RestEffect, DeliveryTypes DEF BusInv
  <2> QED
    BY <1>1, <2>2, OneWalks
<1>3. \A s \in Subs : (Registered(s)' <=> Registered(s)) /\ \A n : Got(s, n)' <=> Got(s, n)
  BY <1>1 DEF Registered, Got
<1>4. pc[d] = "calling" => current[d] \in Messages
  BY SMTT(30) DEF DeliveryInv, WalksInv, QueueInv
<1>5. ASSUME NEW n \in Messages, NEW s \in due[n]
      PROVE  Registered(s) /\ (Wants(s, n) => Got(s, n) \/ n \in cut')
  BY <1>1, OneWalks DEF DeliveryInv, DueInv
<1>6. DueInv'
  <2>1. cut' \subseteq Messages
    BY <1>1, <1>4 DEF DeliveryInv, DueInv
  <2> QED
    BY <1>1, <1>3, <1>5, <2>1 DEF DeliveryInv, DueInv, Wants
<1>7. WalksInv'
  BY <1>2 DEF WalksInv
<1>8. (RegistryInv /\ QueueInv /\ ReceivedOK(history))'
  BY <1>1 DEF DeliveryInv, RegistryInv, ListOK, QueueInv, ReceivedOK, Wants, InOrder
<1> QED
  BY <1>6, <1>7, <1>8 DEF DeliveryInv

-----------------------------------------------------------------------------
(* The registry changes under the walks. *)

\* A list keeps its elements in their places.
Kept(a, b) == DOMAIN a \subseteq DOMAIN b /\ \A j \in DOMAIN a : b[j] = a[j]

LEMMA AppendOK ==
    ASSUME NEW l, NEW p, ListOK(l, p), NEW s \in Subs, Pattern[s] = p, \A j \in DOMAIN l : l[j] # s
    PROVE  ListOK(Append(l, s), p) /\ Kept(l, Append(l, s)) /\ \E j \in DOMAIN Append(l, s) : Append(l, s)[j] = s
<1> DEFINE b == Append(l, s)
<1>1. l \in Seq(Subs) /\ Len(l) \in Nat /\ DOMAIN l = 1 .. Len(l)
  BY DEF ListOK
<1>2. /\ b \in Seq(Subs) /\ DOMAIN b = 1 .. (Len(l) + 1) /\ b[Len(l) + 1] = s
      /\ \A j \in 1 .. Len(l) : b[j] = l[j]
  BY <1>1
<1> HIDE DEF b
<1>3. \A j \in DOMAIN b : Pattern[b[j]] = p
  BY <1>1, <1>2 DEF ListOK
<1>4. \A i, j \in DOMAIN b : b[i] = b[j] => i = j
  BY <1>1, <1>2 DEF ListOK
<1>5. Kept(l, b) /\ Len(l) + 1 \in DOMAIN b
  BY <1>1, <1>2 DEF Kept
<1> QED
  BY <1>2, <1>3, <1>4, <1>5 DEF ListOK, b

\* LiveList, after a step.
LEMMA LiveListNext ==
    ASSUME RegistryInv', NEW i \in DOMAIN registry', NEW e, e.live, registry'[i].pattern = e.pattern
    PROVE  EntryOf(e.pattern)' # {} /\ ListAt(e)' = registry'[i].subs
<1>1. EntryOf(e.pattern)' = {i}
  BY DEF EntryOf, RegistryInv
<1> QED
  BY <1>1 DEF ListAt

\* A walk whose lists keep their elements in place is as sound as before.
LEMMA SoundStays ==
    ASSUME NEW l, NEW k, DOMAIN k = DOMAIN l, \A e \in DOMAIN l : Kept(l[e], k[e]),
           NEW p, NEW m, NEW D, NEW E \in SUBSET D, WalkSound(l, p, m, D)
    PROVE  WalkSound(k, p, m, E)
<1>1. \A s : (Passed(l, p, s) => Passed(k, p, s)) /\ (Ahead(l, p, s) => Ahead(k, p, s))
  BY DEF Passed, Ahead, Kept
<1> QED
  BY <1>1 DEF WalkSound

\* What a change of the registry has to respect: walks keep their lists, and who
\* is due a message stays registered.
LEMMA RegistryChanges ==
    ASSUME DeliveryInv, RegistryInv', UNCHANGED <<history, received, cut, pc, pos, current>>,
           walk' \in [Dispatchers -> Seq(WalkEntry)],
           due' \in [Messages -> SUBSET Subs],
           \A m \in Messages : due'[m] \subseteq due[m] /\ \A s \in due'[m] : Registered(s)',
           \A d \in Dispatchers : pc[d] = "calling" =>
              /\ DOMAIN walk'[d] = DOMAIN walk[d]
              /\ \A e \in DOMAIN walk[d] :
                    /\ walk'[d][e].pattern = walk[d][e].pattern
                    /\ walk'[d][e].live => EntryOf(walk[d][e].pattern)' # {}
                    /\ ~walk'[d][e].live => ListOK(walk'[d][e].subs, walk[d][e].pattern)
                    /\ Kept(ListAt(walk[d][e]), ListAt(walk[d][e])')
    PROVE  (ReceivedOK(history) /\ WalksInv /\ DueInv)'
<1>1. ReceivedOK(history)' /\ \A s \in Subs : \A n : Got(s, n)' <=> Got(s, n)
  BY DEF DeliveryInv, ReceivedOK, InOrder, Wants, Got
<1>2. DueInv'
  BY <1>1 DEF DeliveryInv, DueInv, Wants
<1>3. ASSUME NEW d \in Dispatchers, pc'[d] = "calling"
      PROVE  /\ history' # <<>> /\ current'[d] = history'[Len(history')]
             /\ WalkFit(walk[d])'
             /\ WalkSound(Lists(walk[d]), pos[d], current[d], due[current[d]])'
  <2>1. /\ pc[d] = "calling" /\ history # <<>> /\ current[d] = history[Len(history)]
        /\ WalkFit(walk[d]) /\ WalkSound(Lists(walk[d]), pos[d], current[d], due[current[d]])
        /\ current[d] \in Messages
    BY <1>3 DEF DeliveryInv, WalksInv, QueueInv
  <2>2. /\ DOMAIN walk'[d] = DOMAIN walk[d] /\ walk'[d] \in Seq(WalkEntry)
        /\ \A e \in DOMAIN walk[d] :
              /\ walk'[d][e].pattern = walk[d][e].pattern
              /\ walk'[d][e].live => EntryOf(walk[d][e].pattern)' # {}
              /\ ~walk'[d][e].live => ListOK(walk'[d][e].subs, walk[d][e].pattern)
              /\ Kept(ListAt(walk[d][e]), ListAt(walk[d][e])')
    BY <2>1
  <2>3. WalkFit(walk[d])'
    <3>1. \A e, f \in DOMAIN walk'[d] : walk'[d][e].pattern = walk'[d][f].pattern => e = f
      BY <2>1, <2>2 DEF WalkFit
    <3>2. \A e \in DOMAIN walk'[d] : /\ walk'[d][e].live => EntryOf(walk[d][e].pattern)' # {}
                                     /\ ~walk'[d][e].live => ListOK(walk'[d][e].subs, walk'[d][e].pattern)
      BY <2>2
    <3>3. \A e \in DOMAIN walk'[d] : EntryOf(walk[d][e].pattern)' # {}
                                        => \E i \in DOMAIN registry' : registry'[i].pattern = walk'[d][e].pattern
      BY <2>2 DEF EntryOf
    <3> QED
      BY <2>2, <3>1, <3>2, <3>3 DEF WalkFit, EntryOf, ListOK
  <2>4. PICK l, k : l = Lists(walk[d]) /\ k = Lists(walk[d])'
    OBVIOUS
  <2>5. DOMAIN k = DOMAIN l /\ \A e \in DOMAIN l : Kept(l[e], k[e])
    BY <2>2, <2>4 DEF Lists
  <2>6. PICK m, p, D, E : m = current[d] /\ p = pos[d] /\ D = due[m] /\ E = due'[m]
    OBVIOUS
  <2>7. WalkSound(k, p, m, E)
    BY <2>1, <2>4, <2>5, <2>6, SoundStays
  <2>8. WalkSound(k, p, m, E)'
    <3>1. E \subseteq Subs
      BY <2>1, <2>6
    <3> QED
      BY <1>1, <2>7, <3>1 DEF WalkSound, Passed, Ahead, Wants, Before
  <2>9. k = Lists(walk[d])' /\ p = pos'[d] /\ m = current'[d] /\ E = (due[current[d]])'
    BY <2>4, <2>6
  <2> QED
    BY <2>1, <2>3, <2>8, <2>9 DEF WalkSound
<1>4. WalksInv'
  BY <1>3 DEF DeliveryInv, WalksInv
<1> QED
  BY <1>1, <1>2, <1>4

\* Entries and their elements keep their places when somebody subscribes.
LEMMA SubscribedRegistry ==
    ASSUME RegistryInv, NEW s \in Subs, Subscribe(s)
    PROVE  /\ RegistryInv'
           /\ DOMAIN registry \subseteq DOMAIN registry'
           /\ \A i \in DOMAIN registry : /\ registry'[i].pattern = registry[i].pattern
                                         /\ Kept(registry[i].subs, registry'[i].subs)
<1> DEFINE entry == [pattern : {Pattern[t] : t \in Subs}, subs : Seq(Subs)]
           P     == Pattern[s]
<1>1. /\ registry \in Seq(entry) /\ Len(registry) \in Nat /\ DOMAIN registry = 1 .. Len(registry)
      /\ \A i \in DOMAIN registry : ListOK(registry[i].subs, registry[i].pattern)
      /\ \A i, j \in DOMAIN registry : registry[i].pattern = registry[j].pattern => i = j
  BY DEF RegistryInv
<1>2. P \in {Pattern[t] : t \in Subs}
  OBVIOUS
<1>3. CASE EntryOf(P) = {} /\ registry' = Append(registry, [pattern |-> P, subs |-> <<s>>])
  <2> DEFINE new == [pattern |-> P, subs |-> <<s>>]
  <2>1. new \in entry /\ new.pattern = P /\ ListOK(new.subs, P)
    BY <1>2 DEF ListOK
  <2>2. \A i \in DOMAIN registry : registry[i].pattern # P
    BY <1>3 DEF EntryOf
  <2> HIDE DEF new, entry, P
  <2>3. /\ registry' \in Seq(entry) /\ DOMAIN registry' = 1 .. (Len(registry) + 1)
        /\ registry'[Len(registry) + 1] = new
        /\ \A i \in 1 .. Len(registry) : registry'[i] = registry[i]
    BY <1>1, <1>3, <2>1 DEF new
  <2>4. \A i \in DOMAIN registry' : ListOK(registry'[i].subs, registry'[i].pattern)
    BY <1>1, <2>1, <2>3
  <2>5. \A i, j \in DOMAIN registry' : registry'[i].pattern = registry'[j].pattern => i = j
    BY <1>1, <2>1, <2>2, <2>3
  <2>6. RegistryInv'
    BY <2>3, <2>4, <2>5 DEF RegistryInv, ListOK, entry
  <2> QED
    BY <1>1, <2>3, <2>6 DEF Kept
<1>4. ASSUME NEW i \in EntryOf(P), registry' = [registry EXCEPT ![i].subs = Append(@, s)]
      PROVE  /\ RegistryInv'
             /\ DOMAIN registry \subseteq DOMAIN registry'
             /\ \A n \in DOMAIN registry : /\ registry'[n].pattern = registry[n].pattern
                                           /\ Kept(registry[n].subs, registry'[n].subs)
  <2> DEFINE rec == [registry[i] EXCEPT !.subs = Append(@, s)]
  <2>0. i \in DOMAIN registry /\ registry[i].pattern = P
    BY <1>4 DEF EntryOf
  <2>1. i \in DOMAIN registry /\ registry[i].pattern = P /\ registry[i] \in entry
    <3> HIDE DEF entry
    <3> QED
      BY <1>1, <2>0
  <2>2. \A j \in DOMAIN registry[i].subs : registry[i].subs[j] # s
    BY <2>1 DEF Subscribe, Registered
  <2>3. ListOK(registry[i].subs, P)
    BY <1>1, <2>1
  <2>4. ListOK(Append(registry[i].subs, s), P) /\ Kept(registry[i].subs, Append(registry[i].subs, s))
    BY <2>2, <2>3, AppendOK
  <2>5. rec \in entry /\ rec.pattern = P /\ rec.subs = Append(registry[i].subs, s)
    BY <2>1, <2>4 DEF ListOK
  <2>6. registry' = [registry EXCEPT ![i] = rec]
    BY <1>4
  <2> HIDE DEF rec, entry, P
  <2>7. /\ registry' \in Seq(entry) /\ DOMAIN registry' = DOMAIN registry
        /\ registry'[i] = rec /\ \A n \in DOMAIN registry : n # i => registry'[n] = registry[n]
    BY <1>1, <2>1, <2>5, <2>6
  <2>8. \A n \in DOMAIN registry : /\ registry'[n].pattern = registry[n].pattern
                                   /\ Kept(registry[n].subs, registry'[n].subs)
                                   /\ ListOK(registry'[n].subs, registry'[n].pattern)
    BY <1>1, <2>1, <2>4, <2>5, <2>7 DEF Kept
  <2>9. \A n, j \in DOMAIN registry' : registry'[n].pattern = registry'[j].pattern => n = j
    BY <1>1, <2>7, <2>8
  <2>10. RegistryInv'
    BY <2>7, <2>8, <2>9 DEF RegistryInv, ListOK, entry
  <2> QED
    BY <2>7, <2>8, <2>10
<1> QED
  BY <1>3, <1>4 DEF Subscribe

LEMMA SubscribeKeeps ==
    ASSUME DeliveryInv, NEW s \in Subs, Subscribe(s)
    PROVE  DeliveryInv'
<1>1. /\ walk' = walk /\ pos' = pos /\ pc' = pc /\ current' = current
      /\ history' = history /\ received' = received /\ cut' = cut /\ due' = due
      /\ queue' = queue /\ handed' = handed /\ entered' = entered
  BY DEF Subscribe, delivery, account
<1>2. /\ RegistryInv /\ RegistryInv'
      /\ DOMAIN registry \subseteq DOMAIN registry'
      /\ \A i \in DOMAIN registry : /\ registry'[i].pattern = registry[i].pattern
                                    /\ Kept(registry[i].subs, registry'[i].subs)
  BY SubscribedRegistry DEF DeliveryInv
<1>3. \A t \in Subs : Registered(t) => Registered(t)'
  BY <1>2 DEF Registered, Kept
<1>4. ASSUME NEW d \in Dispatchers, pc[d] = "calling", NEW e \in DOMAIN walk[d]
      PROVE  /\ walk'[d][e].live => EntryOf(walk[d][e].pattern)' # {}
             /\ ~walk'[d][e].live => ListOK(walk'[d][e].subs, walk[d][e].pattern)
             /\ Kept(ListAt(walk[d][e]), ListAt(walk[d][e])')
  <2>1. WalkFit(walk[d])
    BY <1>4 DEF DeliveryInv, WalksInv
  <2>2. PICK x : x = walk[d][e] /\ x = walk'[d][e]
    BY <1>1
  <2>3. CASE x.live
    <3>1. PICK i \in DOMAIN registry : registry[i].pattern = x.pattern
      BY <2>1, <2>2, <2>3 DEF WalkFit, EntryOf
    <3>2. ListAt(x) = registry[i].subs
      BY <1>2, <2>3, <3>1, LiveList
    <3>3. EntryOf(x.pattern)' # {} /\ ListAt(x)' = registry'[i].subs
      BY <1>2, <2>3, <3>1, LiveListNext
    <3> QED
      BY <1>1, <1>2, <2>2, <2>3, <3>1, <3>2, <3>3 DEF ListAt, EntryOf
  <2>4. CASE ~x.live
    <3>1. ListAt(x) = x.subs /\ ListAt(x)' = x.subs
      BY <2>4 DEF ListAt
    <3> QED
      BY <1>1, <2>1, <2>2, <2>4, <3>1 DEF WalkFit, ListAt, Kept
  <2> QED
    BY <2>3, <2>4
<1>5. (ReceivedOK(history) /\ WalksInv /\ DueInv)'
  <2>1. walk' \in [Dispatchers -> Seq(WalkEntry)] /\ due' \in [Messages -> SUBSET Subs]
    BY <1>1 DEF DeliveryInv, WalksInv, DueInv
  <2>2. \A m \in Messages : due'[m] \subseteq due[m] /\ \A t \in due'[m] : Registered(t)'
    BY <1>1, <1>3 DEF DeliveryInv, DueInv
  <2>3. \A d \in Dispatchers : pc[d] = "calling" =>
              /\ DOMAIN walk'[d] = DOMAIN walk[d]
              /\ \A e \in DOMAIN walk[d] :
                    /\ walk'[d][e].pattern = walk[d][e].pattern
                    /\ walk'[d][e].live => EntryOf(walk[d][e].pattern)' # {}
                    /\ ~walk'[d][e].live => ListOK(walk'[d][e].subs, walk[d][e].pattern)
                    /\ Kept(ListAt(walk[d][e]), ListAt(walk[d][e])')
    BY <1>1, <1>4
  <2> QED
    BY <1>1, <1>2, <2>1, <2>2, <2>3, RegistryChanges
<1>6. QueueInv'
  BY <1>1 DEF DeliveryInv, QueueInv
<1> QED
  BY <1>2, <1>5, <1>6 DEF DeliveryInv

\* Unsubscribing changes the one entry, and takes nobody else out.
LEMMA UnsubscribedRegistry ==
    ASSUME RegistryInv, NEW s \in Subs, Unsubscribe(s)
    PROVE  /\ RegistryInv'
           /\ \E i \in DOMAIN registry : registry[i].pattern = Pattern[s]
           /\ \A k \in DOMAIN registry : registry[k].pattern # Pattern[s] =>
                 \E n \in DOMAIN registry' : registry'[n] = registry[k]
           /\ \A t \in Subs : t # s /\ Registered(t) => Registered(t)'
<1> DEFINE entry == [pattern : {Pattern[t] : t \in Subs}, subs : Seq(Subs)]
<1>1. PICK i \in EntryOf(Pattern[s]) :
         registry' = IF Without(registry[i].subs, s) = <<>> THEN DropAt(registry, i)
                     ELSE [registry EXCEPT ![i].subs = Without(registry[i].subs, s)]
  BY DEF Unsubscribe
<1>2. PICK rest : rest = Without(registry[i].subs, s)
  OBVIOUS
<1>3. /\ registry \in Seq(entry)
      /\ \A n \in DOMAIN registry : ListOK(registry[n].subs, registry[n].pattern)
      /\ \A n, j \in DOMAIN registry : registry[n].pattern = registry[j].pattern => n = j
      /\ i \in DOMAIN registry /\ registry[i].pattern = Pattern[s]
  BY <1>1 DEF RegistryInv, EntryOf
<1>4. /\ ListOK(rest, Pattern[s])
      /\ \A j \in DOMAIN registry[i].subs :
            registry[i].subs[j] # s => \E k \in DOMAIN rest : rest[k] = registry[i].subs[j]
  BY <1>2, <1>3, WithoutEffect
<1>5. \A k \in DOMAIN registry : registry[k].pattern # Pattern[s] => k # i
  BY <1>3
<1> HIDE DEF entry
<1>6. CASE rest = <<>>
  <2>1. registry' = DropAt(registry, i)
    BY <1>1, <1>2, <1>6
  <2>2. /\ registry' \in Seq(entry) /\ DOMAIN registry' \subseteq Nat /\ i \in Nat
        /\ \A j \in DOMAIN registry' : \E k \in DOMAIN registry :
              k = (IF j < i THEN j ELSE j + 1) /\ k # i /\ registry'[j] = registry[k]
        /\ \A k \in DOMAIN registry : k # i => \E j \in DOMAIN registry' : registry'[j] = registry[k]
    <3>1. i \in Nat
      BY <1>3
    <3>2. registry' \in Seq(entry)
      BY <1>3, <2>1, DropAtEffect
    <3> QED
      BY <1>3, <2>1, <3>1, <3>2, DropAtElements
  <2>3. \A n \in DOMAIN registry' : ListOK(registry'[n].subs, registry'[n].pattern)
    BY <1>3, <2>2
  <2>4. ASSUME NEW n \in DOMAIN registry', NEW j \in DOMAIN registry',
               registry'[n].pattern = registry'[j].pattern
        PROVE  n = j
    <3>1. PICK a \in DOMAIN registry : a = (IF n < i THEN n ELSE n + 1) /\ registry'[n] = registry[a]
      BY <2>2
    <3>2. PICK b \in DOMAIN registry : b = (IF j < i THEN j ELSE j + 1) /\ registry'[j] = registry[b]
      BY <2>2
    <3>3. a = b
      BY <1>3, <2>4, <3>1, <3>2
    <3>4. n \in Nat /\ j \in Nat /\ i \in Nat
      BY <2>2
    <3> QED
      BY <3>1, <3>2, <3>3, <3>4
  <2>5. RegistryInv'
    BY <2>2, <2>3, <2>4 DEF RegistryInv, ListOK, entry
  <2>6. ASSUME NEW t \in Subs, t # s, Registered(t) PROVE Registered(t)'
    <3>1. PICK k \in DOMAIN registry : \E j \in DOMAIN registry[k].subs : registry[k].subs[j] = t
      BY <2>6 DEF Registered
    <3>2. k # i
      BY <1>4, <1>6, <2>6, <3>1
    <3> QED
      BY <2>2, <3>1, <3>2 DEF Registered
  <2> QED
    BY <1>3, <1>5, <2>2, <2>5, <2>6
<1>7. CASE rest # <<>>
  <2> DEFINE rec == [registry[i] EXCEPT !.subs = rest]
  <2>1. registry' = [registry EXCEPT ![i] = rec]
    BY <1>1, <1>2, <1>7
  <2>2. registry[i] \in entry
    BY <1>3
  <2>3. rec \in entry /\ rec.pattern = Pattern[s] /\ rec.subs = rest
    BY <1>3, <1>4, <2>2 DEF entry, ListOK
  <2> HIDE DEF rec
  <2>4. /\ registry' \in Seq(entry) /\ DOMAIN registry' = DOMAIN registry
        /\ registry'[i] = rec /\ \A n \in DOMAIN registry : n # i => registry'[n] = registry[n]
    BY <1>3, <2>1, <2>3
  <2>5. \A n \in DOMAIN registry : /\ registry'[n].pattern = registry[n].pattern
                                   /\ ListOK(registry'[n].subs, registry'[n].pattern)
    BY <1>3, <1>4, <2>3, <2>4
  <2>6. \A n, j \in DOMAIN registry' : registry'[n].pattern = registry'[j].pattern => n = j
    BY <1>3, <2>4, <2>5
  <2>7. RegistryInv'
    BY <2>4, <2>5, <2>6 DEF RegistryInv, ListOK, entry
  <2>8. ASSUME NEW t \in Subs, t # s, Registered(t) PROVE Registered(t)'
    <3>1. PICK k \in DOMAIN registry : \E j \in DOMAIN registry[k].subs : registry[k].subs[j] = t
      BY <2>8 DEF Registered
    <3>2. \E j \in DOMAIN registry'[k].subs : registry'[k].subs[j] = t
      BY <1>4, <2>3, <2>4, <2>8, <3>1
    <3> QED
      BY <2>4, <3>2 DEF Registered
  <2> QED
    BY <1>3, <1>5, <2>4, <2>7, <2>8
<1> QED
  BY <1>6, <1>7

\* A walk in progress has, of the pattern's list, what it was before.
LEMMA UnsubscribeKeeps ==
    ASSUME DeliveryInv, NEW s \in Subs, Unsubscribe(s)
    PROVE  DeliveryInv'
<1> DEFINE P == Pattern[s]
           Frozen(x) == IF x.live /\ x.pattern = P
                        THEN [x EXCEPT !.live = FALSE, !.subs = ListAt(x)] ELSE x
<1>1. /\ pos' = pos /\ pc' = pc /\ current' = current
      /\ history' = history /\ received' = received /\ cut' = cut
      /\ due' = [m \in Messages |-> due[m] \ {s}]
      /\ walk' = [d \in Dispatchers |-> [e \in DOMAIN walk[d] |-> Frozen(walk[d][e])]]
      /\ queue' = queue /\ handed' = handed /\ entered' = entered
  BY DEF Unsubscribe
<1>2. /\ RegistryInv /\ RegistryInv'
      /\ \E i \in DOMAIN registry : registry[i].pattern = P
      /\ \A k \in DOMAIN registry : registry[k].pattern # P =>
            \E n \in DOMAIN registry' : registry'[n] = registry[k]
      /\ \A t \in Subs : t # s /\ Registered(t) => Registered(t)'
  BY UnsubscribedRegistry DEF DeliveryInv
<1> HIDE DEF P
<1>3. ASSUME NEW x \in WalkEntry
      PROVE  Frozen(x) \in WalkEntry /\ Frozen(x).pattern = x.pattern
  <2>1. CASE x.live /\ x.pattern = P
    <3>1. PICK i \in DOMAIN registry : registry[i].pattern = P
      BY <1>2
    <3>2. ListAt(x) = registry[i].subs /\ registry[i].subs \in Seq(Subs)
      BY <1>2, <2>1, <3>1, LiveList DEF RegistryInv, ListOK
    <3> QED
      BY <2>1, <3>2 DEF WalkEntry
  <2>2. CASE ~(x.live /\ x.pattern = P)
    BY <2>2
  <2> QED
    BY <2>1, <2>2
<1>4. ASSUME NEW d \in Dispatchers
      PROVE  /\ walk'[d] \in Seq(WalkEntry) /\ DOMAIN walk'[d] = DOMAIN walk[d]
             /\ \A e \in DOMAIN walk[d] : walk[d][e] \in WalkEntry /\ walk'[d][e] = Frozen(walk[d][e])
  <2>1. walk[d] \in Seq(WalkEntry)
    BY DEF DeliveryInv, WalksInv
  <2>2. Len(walk[d]) \in Nat /\ DOMAIN walk[d] = 1 .. Len(walk[d])
        /\ \A e \in DOMAIN walk[d] : walk[d][e] \in WalkEntry
    BY <2>1
  <2> HIDE DEF Frozen
  <2>3. walk'[d] = [e \in 1 .. Len(walk[d]) |-> Frozen(walk[d][e])]
    BY <1>1, <2>2
  <2>4. walk'[d] \in [1 .. Len(walk[d]) -> WalkEntry]
    BY <1>3, <2>2, <2>3
  <2>5. walk'[d] \in Seq(WalkEntry)
    BY <2>2, <2>4
  <2> QED
    BY <2>2, <2>3, <2>5
<1>5. ASSUME NEW d \in Dispatchers, pc[d] = "calling", NEW e \in DOMAIN walk[d]
      PROVE  /\ walk'[d][e].pattern = walk[d][e].pattern
             /\ walk'[d][e].live => EntryOf(walk[d][e].pattern)' # {}
             /\ ~walk'[d][e].live => ListOK(walk'[d][e].subs, walk[d][e].pattern)
             /\ ListAt(walk[d][e])' = ListAt(walk[d][e])
  <2>1. WalkFit(walk[d])
    BY <1>5 DEF DeliveryInv, WalksInv
  <2>2. PICK x, y : x = walk[d][e] /\ y = walk'[d][e]
    OBVIOUS
  <2>3. x \in WalkEntry /\ y = Frozen(x) /\ y.pattern = x.pattern
    BY <1>3, <1>4, <2>2, ZenonT(40)
  <2>4. CASE x.live /\ x.pattern = P
    <3>1. y.live = FALSE /\ y.subs = ListAt(x)
      BY <2>3, <2>4 DEF WalkEntry
    <3>2. ListOK(ListAt(x), x.pattern)
      BY <1>2, <2>1, <2>2, ListsFit
    <3>3. ListAt(y)' = y.subs
      BY <3>1 DEF ListAt
    <3> QED
      BY <2>2, <2>3, <3>1, <3>2, <3>3, ZenonT(40) DEF ListAt
  <2>5. CASE x.live /\ x.pattern # P
    <3>1. y = x
      BY <2>3, <2>5
    <3>2. PICK i \in DOMAIN registry : registry[i].pattern = x.pattern
      BY <2>1, <2>2, <2>5 DEF WalkFit, EntryOf
    <3>3. PICK n \in DOMAIN registry' : registry'[n] = registry[i]
      BY <1>2, <2>5, <3>2
    <3>4. ListAt(x) = registry[i].subs
      BY <1>2, <2>5, <3>2, LiveList
    <3>5. EntryOf(x.pattern)' # {} /\ ListAt(x)' = registry'[n].subs
      BY <1>2, <2>5, <3>2, <3>3, LiveListNext
    <3> QED
      BY <2>2, <2>5, <3>1, <3>3, <3>4, <3>5 DEF ListAt, EntryOf
  <2>6. CASE ~x.live
    <3>1. y = x
      BY <2>3, <2>6
    <3>2. ListAt(x)' = x.subs /\ ListAt(x) = x.subs
      BY <2>6 DEF ListAt
    <3> QED
      BY <2>1, <2>2, <2>6, <3>1, <3>2 DEF WalkFit, ListAt
  <2> QED
    BY <2>4, <2>5, <2>6
<1>6. (ReceivedOK(history) /\ WalksInv /\ DueInv)'
  <2>1. walk' \in [Dispatchers -> Seq(WalkEntry)]
    <3> HIDE DEF Frozen
    <3> QED
      BY <1>1, <1>4
  <2>2. due' \in [Messages -> SUBSET Subs] /\ \A m \in Messages : due'[m] = due[m] \ {s}
    BY <1>1 DEF DeliveryInv, DueInv
  <2>3. \A m \in Messages : due'[m] \subseteq due[m] /\ \A t \in due'[m] : Registered(t)'
    BY <1>2, <2>2 DEF DeliveryInv, DueInv
  <2>4. \A d \in Dispatchers : pc[d] = "calling" =>
              /\ DOMAIN walk'[d] = DOMAIN walk[d]
              /\ \A e \in DOMAIN walk[d] :
                    /\ walk'[d][e].pattern = walk[d][e].pattern
                    /\ walk'[d][e].live => EntryOf(walk[d][e].pattern)' # {}
                    /\ ~walk'[d][e].live => ListOK(walk'[d][e].subs, walk[d][e].pattern)
                    /\ Kept(ListAt(walk[d][e]), ListAt(walk[d][e])')
    BY <1>4, <1>5 DEF Kept
  <2> QED
    BY <1>1, <1>2, <2>1, <2>2, <2>3, <2>4, RegistryChanges DEF DeliveryInv
<1>7. QueueInv'
  BY <1>1 DEF DeliveryInv, QueueInv
<1> QED
  BY <1>2, <1>6, <1>7 DEF DeliveryInv

-----------------------------------------------------------------------------
(* Publishing, and the whole. *)

\* A message that is new to the queue enters it.
LEMMA EnterQueue ==
    ASSUME QueueInv, NEW m \in Messages, \A i \in DOMAIN entered : entered[i] # m
    PROVE  /\ Append(entered, m) = history \o Append(queue, m)
           /\ Append(queue, m) \in Seq(Messages)
           /\ \A i, j \in DOMAIN Append(entered, m) :
                 Append(entered, m)[i] = Append(entered, m)[j] => i = j
           /\ \A i \in DOMAIN Append(entered, m) :
                 Append(entered, m)[i] = m \/ \E j \in DOMAIN entered : Append(entered, m)[i] = entered[j]
<1>1. queue \in Seq(Messages) /\ history \in Seq(Messages) /\ entered = history \o queue
  BY DEF QueueInv
<1>2. entered \in Seq(Messages) /\ <<m>> \in Seq(Messages)
  BY <1>1
<1>3. Append(entered, m) = entered \o <<m>> /\ Append(queue, m) = queue \o <<m>>
  BY <1>1, <1>2, AppendIsConcat
<1>4. Append(entered, m) = history \o Append(queue, m)
  BY <1>1, <1>2, <1>3, ConcatAssociative
<1>5. PICK a, b : a = entered /\ b = Append(entered, m)
  OBVIOUS
<1>6. /\ DOMAIN a = 1 .. Len(a) /\ Len(a) \in Nat
      /\ DOMAIN b = 1 .. (Len(a) + 1) /\ b[Len(a) + 1] = m
      /\ \A i \in 1 .. Len(a) : b[i] = a[i]
  BY <1>2, <1>5
<1>7. (\A i, j \in DOMAIN a : a[i] = a[j] => i = j) /\ (\A i \in DOMAIN a : a[i] # m)
  BY <1>5 DEF QueueInv
<1>8. \A i, j \in DOMAIN b : b[i] = b[j] => i = j
  BY <1>6, <1>7
<1>9. \A i \in DOMAIN b : b[i] = m \/ \E j \in DOMAIN a : b[i] = a[j]
  BY <1>6
<1>10. Append(queue, m) \in Seq(Messages)
  BY <1>1
<1>11. \A i, j \in DOMAIN Append(entered, m) :
          Append(entered, m)[i] = Append(entered, m)[j] => i = j
  BY ONLY <1>5, <1>8, Zenon
<1>12. \A i \in DOMAIN Append(entered, m) :
          Append(entered, m)[i] = m \/ \E j \in DOMAIN entered : Append(entered, m)[i] = entered[j]
  BY ONLY <1>5, <1>9, Zenon
<1> QED
  BY ONLY <1>4, <1>10, <1>11, <1>12, Zenon

\* Steps that only publish, or start and stop, change neither walks nor debts.
LEMMA QuietKeeps ==
    ASSUME DeliveryInv, QueueInv',
           UNCHANGED <<registry, walk, pos, current, history, received, due, cut>>,
           \A d \in Dispatchers : pc'[d] = "calling" <=> pc[d] = "calling"
    PROVE  DeliveryInv'
<1>1. RegistryInv' /\ ReceivedOK(history)'
  BY DEF DeliveryInv, RegistryInv, ListOK, ReceivedOK, InOrder, Wants
<1>2. \A s \in Subs : (Registered(s)' <=> Registered(s)) /\ \A n : Got(s, n)' <=> Got(s, n)
  BY DEF Registered, Got
<1>3. DueInv'
  BY <1>2 DEF DeliveryInv, DueInv, Wants
<1>4. ASSUME NEW d \in Dispatchers, pc'[d] = "calling"
      PROVE  /\ history' # <<>> /\ current'[d] = history'[Len(history')]
             /\ WalkFit(walk[d])'
             /\ WalkSound(Lists(walk[d]), pos[d], current[d], due[current[d]])'
  <2>1. /\ history # <<>> /\ current[d] = history[Len(history)] /\ current[d] \in Messages
        /\ WalkFit(walk[d])
        /\ WalkSound(Lists(walk[d]), pos[d], current[d], due[current[d]])
    BY <1>4 DEF DeliveryInv, WalksInv, QueueInv
  <2>2. PICK w, l, p, m, D : w = walk[d] /\ l = Lists(w) /\ p = pos[d] /\ m = current[d] /\ D = due[m]
    OBVIOUS
  <2>3. WalkFit(w)' /\ Lists(w)' = l
    BY <2>1, <2>2, ListsStay
  <2>4. WalkSound(l, p, m, D)'
    <3>1. D \subseteq Subs
      BY <2>1, <2>2 DEF DeliveryInv, DueInv
    <3> QED
      BY <1>2, <2>1, <2>2, <3>1 DEF WalkSound, Passed, Ahead, Wants, Before
  <2>5. w = walk'[d] /\ p = pos'[d] /\ m = current'[d] /\ D = (due[current[d]])'
    BY <2>2
  <2>6. WalkFit(walk[d])' /\ Lists(walk[d])' = l
    BY <2>3, <2>5 DEF WalkFit, Lists
  <2> QED
    BY <2>1, <2>4, <2>5, <2>6 DEF WalkSound
<1>5. WalksInv'
  BY <1>4 DEF DeliveryInv, WalksInv
<1> QED
  BY <1>1, <1>3, <1>5 DEF DeliveryInv

LEMMA PublishKeeps ==
    ASSUME DeliveryInv, NEW m \in Messages, Publish(m) \/ PublishSync(m)
    PROVE  DeliveryInv'
<1>1. /\ \A i \in DOMAIN entered : entered[i] # m
      /\ \A i \in DOMAIN handed : handed[i] # m
  BY DEF Publish, PublishSync, Published
<1>2. UNCHANGED <<registry, walk, pos, current, pc, history, received, due, cut>>
  BY DEF Publish, PublishSync, client, delivery, account
<1>3. CASE Publish(m)
  <2>1. queue' = Append(queue, m) /\ entered' = Append(entered, m) /\ handed' = handed
    BY <1>3 DEF Publish, client
  <2>2. PICK a, b : a = Append(entered, m) /\ b = Append(queue, m)
    OBVIOUS
  <2>3. /\ a = history \o b /\ b \in Seq(Messages)
        /\ \A i, j \in DOMAIN a : a[i] = a[j] => i = j
        /\ \A i \in DOMAIN a : a[i] = m \/ \E j \in DOMAIN entered : a[i] = entered[j]
    BY <1>1, <2>2, EnterQueue DEF DeliveryInv
  <2>4. /\ handed \in Seq(Messages) /\ history \in Seq(Messages)
        /\ \A i, j \in DOMAIN handed : handed[i] = handed[j] => i = j
        /\ \A i \in DOMAIN entered, j \in DOMAIN handed : entered[i] # handed[j]
    BY DEF DeliveryInv, QueueInv
  <2>5. \A i \in DOMAIN a, j \in DOMAIN handed : a[i] # handed[j]
    BY <1>1, <2>3, <2>4
  <2>6. entered' = a /\ queue' = b /\ handed' = handed /\ history' = history
    BY <1>2, <2>1, <2>2
  <2>7. QueueInv'
    BY ONLY <2>3, <2>4, <2>5, <2>6 DEF QueueInv
  <2> QED
    BY <1>2, <2>7, QuietKeeps
<1>4. CASE PublishSync(m)
  <2>1. handed' = Append(handed, m) /\ UNCHANGED <<queue, entered>>
    BY <1>4 DEF PublishSync, account
  <2>2. PICK a, b : a = handed /\ b = Append(handed, m)
    OBVIOUS
  <2>3. a \in Seq(Messages) /\ (\A i, j \in DOMAIN a : a[i] = a[j] => i = j) /\ (\A i \in DOMAIN a : a[i] # m)
    BY <1>1, <2>2 DEF DeliveryInv, QueueInv
  <2>4. /\ DOMAIN a = 1 .. Len(a) /\ Len(a) \in Nat /\ b \in Seq(Messages)
        /\ DOMAIN b = 1 .. (Len(a) + 1) /\ b[Len(a) + 1] = m
        /\ \A i \in 1 .. Len(a) : b[i] = a[i]
    BY <2>2, <2>3
  <2>5. \A i, j \in DOMAIN b : b[i] = b[j] => i = j
    BY <2>3, <2>4
  <2>6. \A i \in DOMAIN b : b[i] = m \/ \E j \in DOMAIN a : b[i] = a[j]
    BY <2>4
  <2>7. /\ queue \in Seq(Messages) /\ history \in Seq(Messages) /\ entered = history \o queue
        /\ \A i, j \in DOMAIN entered : entered[i] = entered[j] => i = j
        /\ \A i \in DOMAIN entered, j \in DOMAIN a : entered[i] # a[j]
    BY <2>2 DEF DeliveryInv, QueueInv
  <2>8. \A i \in DOMAIN entered, j \in DOMAIN b : entered[i] # b[j]
    BY <1>1, <2>6, <2>7
  <2>9. handed' = b /\ queue' = queue /\ entered' = entered /\ history' = history
    BY <1>2, <2>1, <2>2
  <2>10. QueueInv'
    BY ONLY <2>4, <2>5, <2>7, <2>8, <2>9 DEF QueueInv
  <2> QED
    BY <1>2, <2>10, QuietKeeps
<1> QED
  BY <1>3, <1>4

LEMMA PutKeeps ==
    ASSUME DeliveryInv, PutNowait
    PROVE  DeliveryInv'
<1>1. /\ handed # <<>> /\ handed' = Tail(handed)
      /\ queue' = Append(queue, Head(handed)) /\ entered' = Append(entered, Head(handed))
      /\ UNCHANGED <<registry, walk, pos, current, pc, history, received, due, cut>>
  BY DEF PutNowait, delivery
<1>2. PICK a, t, m : a = handed /\ t = Tail(handed) /\ m = Head(handed)
  OBVIOUS
<1>3. /\ a \in Seq(Messages) /\ a # <<>> /\ t = Tail(a) /\ m = Head(a)
      /\ \A i, j \in DOMAIN a : a[i] = a[j] => i = j
      /\ \A i \in DOMAIN entered, j \in DOMAIN a : entered[i] # a[j]
      /\ history \in Seq(Messages)
  BY <1>1, <1>2 DEF DeliveryInv, QueueInv
<1>4. /\ m \in Messages /\ t \in Seq(Messages) /\ Len(a) \in Nat /\ Len(a) >= 1 /\ m = a[1]
      /\ Len(t) = Len(a) - 1 /\ \A i \in 1 .. Len(t) : t[i] = a[i + 1]
  BY <1>3, HeadTailProperties
<1>5. DOMAIN a = 1 .. Len(a) /\ DOMAIN t = 1 .. (Len(a) - 1)
  BY <1>3, <1>4
<1>6. \A i \in DOMAIN t : i + 1 \in DOMAIN a /\ 1 \in DOMAIN a /\ i + 1 # 1 /\ t[i] = a[i + 1]
  BY <1>4, <1>5
<1>7. (\A i, j \in DOMAIN t : t[i] = t[j] => i = j) /\ (\A i \in DOMAIN t : t[i] # m)
  <2>1. \A i \in DOMAIN t : t[i] # m
    BY <1>3, <1>4, <1>6
  <2>2. ASSUME NEW i \in DOMAIN t, NEW j \in DOMAIN t, t[i] = t[j] PROVE i = j
    <3>1. i + 1 = j + 1
      BY <1>3, <1>6, <2>2
    <3> QED
      BY <1>5, <3>1
  <2> QED
    BY <2>1, <2>2
<1>8. \A i \in DOMAIN entered : entered[i] # m /\ \A j \in DOMAIN t : entered[i] # t[j]
  <2>1. 1 \in DOMAIN a
    BY <1>4, <1>5
  <2> QED
    BY <1>3, <1>4, <1>6, <2>1
<1>9. PICK b, q : b = Append(entered, m) /\ q = Append(queue, m)
  OBVIOUS
<1>10. /\ b = history \o q /\ q \in Seq(Messages)
       /\ \A i, j \in DOMAIN b : b[i] = b[j] => i = j
       /\ \A i \in DOMAIN b : b[i] = m \/ \E j \in DOMAIN entered : b[i] = entered[j]
  BY <1>4, <1>8, <1>9, EnterQueue DEF DeliveryInv
<1>11. \A i \in DOMAIN b, j \in DOMAIN t : b[i] # t[j]
  BY <1>7, <1>8, <1>10
<1>12. entered' = b /\ queue' = q /\ handed' = t /\ history' = history
  BY <1>1, <1>2, <1>9
<1>13. QueueInv'
  BY ONLY <1>3, <1>4, <1>7, <1>10, <1>11, <1>12, ZenonT(40) DEF QueueInv
<1> QED
  BY <1>1, <1>13, QuietKeeps

\* Starting and stopping: a new task is in no walk.
LEMMA LifecycleKeeps ==
    ASSUME DeliveryInv, LifecycleTyped,
           Start \/ (\E c \in Stoppers : Stop(c) \/ StopReturns(c)) \/ UNCHANGED vars
    PROVE  DeliveryInv'
<1>1. UNCHANGED <<registry, walk, pos, current, history, received, due, cut, queue, handed, entered>>
  BY DEF Start, Stop, StopReturns, vars, client, delivery, account
<1>2. \A d \in Dispatchers : pc'[d] = "calling" <=> pc[d] = "calling"
  BY DEF Start, Stop, StopReturns, vars, delivery, LifecycleTyped
<1>3. QueueInv'
  BY <1>1 DEF DeliveryInv, QueueInv
<1> QED
  BY <1>1, <1>2, <1>3, QuietKeeps

LEMMA DeliveryInitial == Init => DeliveryInv
<1> SUFFICES ASSUME Init PROVE DeliveryInv
  OBVIOUS
<1>1. /\ registry = <<>> /\ queue = <<>> /\ handed = <<>> /\ history = <<>> /\ entered = <<>>
      /\ cut = {}
      /\ received = [s \in Subs |-> <<>>] /\ due = [m \in Messages |-> {}]
  BY DEF Init
<1>2. RegistryInv
  BY <1>1 DEF RegistryInv
<1>3. QueueInv
  <2>1. <<>> \in Seq(Messages) /\ <<>> = <<>> \o <<>>
    OBVIOUS
  <2> QED
    BY <1>1, <2>1 DEF QueueInv
<1>4. ReceivedOK(history)
  <2>1. <<>> \in Seq(Messages)
    OBVIOUS
  <2> QED
    BY <1>1, <2>1 DEF ReceivedOK, InOrder
<1>5. WalksInv
  <2>1. <<>> \in Seq(WalkEntry) /\ <<1, 0>> \in Nat \X Nat
    OBVIOUS
  <2> QED
    BY <2>1 DEF Init, WalksInv
<1>6. DueInv
  BY <1>1 DEF DueInv
<1> QED
  BY <1>2, <1>3, <1>4, <1>5, <1>6 DEF DeliveryInv

LEMMA DeliveryPreserved ==
    ASSUME DeliveryInv, BusInv, [Next]_vars
    PROVE  DeliveryInv'
<1>1. ASSUME NEW s \in Subs, Subscribe(s) \/ Unsubscribe(s) PROVE DeliveryInv'
  BY <1>1, SubscribeKeeps, UnsubscribeKeeps
<1>2. ASSUME NEW m \in Messages, Publish(m) \/ PublishSync(m) PROVE DeliveryInv'
  BY <1>2, PublishKeeps
<1>3. CASE PutNowait
  BY <1>3, PutKeeps
<1>4. CASE Start \/ (\E c \in Stoppers : Stop(c) \/ StopReturns(c)) \/ UNCHANGED vars
  BY <1>4, LifecycleKeeps DEF BusInv
<1>5. ASSUME NEW d \in Dispatchers, Dispatch(d) PROVE DeliveryInv'
  BY <1>5, TakeKeeps, CallbackKeeps, RestKeeps DEF Dispatch
<1> QED
  BY <1>1, <1>2, <1>3, <1>4, <1>5 DEF Next

\* What the invariant says to a caller.
LEMMA DeliveryFollows == DeliveryInv => Delivery
<1> SUFFICES ASSUME DeliveryInv PROVE Delivery
  OBVIOUS
<1>1. ASSUME NEW m \in Messages, NEW s \in Subs
      PROVE  /\ Got(s, m) => Wants(s, m) /\ Times(m, s) = 1
             /\ ~Got(s, m) => Times(m, s) = 0
  <2> DEFINE at == {i \in DOMAIN received[s] : received[s][i] = m}
  <2>1. CASE Got(s, m)
    <3>1. PICK i \in DOMAIN received[s] : received[s][i] = m
      BY <2>1 DEF Got
    <3>2. at = {i} /\ Wants(s, m)
      BY <3>1 DEF DeliveryInv, ReceivedOK
    <3> QED
      BY <2>1, <3>2, FS_Singleton DEF Times
  <2>2. CASE ~Got(s, m)
    <3>1. at = {}
      BY <2>2 DEF Got
    <3> QED
      BY <2>2, <3>1, FS_EmptySet DEF Times
  <2> QED
    BY <2>1, <2>2
<1>2. ASSUME NEW m \in Messages, NEW s \in due[m], Wants(s, m), ~Got(s, m), m \notin cut
      PROVE  StillDue(m, s)
  <2>1. s \in Subs
    BY DEF DeliveryInv, DueInv
  <2>2. PICK d \in Dispatchers : pc[d] = "calling" /\ current[d] = m
    BY <1>2 DEF DeliveryInv, DueInv
  <2>3. WalkFit(walk[d]) /\ WalkSound(Lists(walk[d]), pos[d], m, due[m])
    BY <2>2 DEF DeliveryInv, WalksInv
  <2>4. Ahead(Lists(walk[d]), pos[d], s)
    BY <1>2, <2>3 DEF WalkSound
  <2>5. PICK e \in DOMAIN Lists(walk[d]) : \E j \in DOMAIN Lists(walk[d])[e] :
           Lists(walk[d])[e][j] = s /\ Before(pos[d], <<e, j>>)
    BY <2>4 DEF Ahead
  <2>6. PICK j \in DOMAIN Lists(walk[d])[e] : Lists(walk[d])[e][j] = s /\ Before(pos[d], <<e, j>>)
    BY <2>5
  <2>7. <<e, j>> \in Places(walk[d]) /\ SubAt(walk[d], <<e, j>>) = s
    BY <2>3, <2>6, PlacesOf DEF DeliveryInv
  <2>8. Hears(s, m)
    BY <1>2 DEF Wants, Hears
  <2>9. <<e, j>> \in Stops(walk[d], pos[d], m)
    BY <2>6, <2>7, <2>8 DEF Stops
  <2> QED
    BY <2>2, <2>7, <2>9 DEF StillDue
<1>3. DeliveredOnce
  <2> SUFFICES ASSUME NEW m \in Messages, NEW s \in Subs
               PROVE  /\ Times(m, s) <= IF Wants(s, m) THEN 1 ELSE 0
                      /\ Wants(s, m) /\ s \in due[m] => Times(m, s) = 1 \/ m \in cut \/ StillDue(m, s)
    BY DEF DeliveredOnce
  <2>1. Times(m, s) <= IF Wants(s, m) THEN 1 ELSE 0
    <3>1. CASE Got(s, m)
      BY <1>1, <3>1
    <3>2. CASE ~Got(s, m)
      BY <1>1, <3>2
    <3> QED
      BY <3>1, <3>2
  <2> QED
    BY <1>1, <1>2, <2>1
<1>4. DeliveredInOrder
  <2> SUFFICES ASSUME NEW s \in Subs, NEW i \in DOMAIN received[s], NEW j \in DOMAIN received[s], i < j
               PROVE  \E k, l \in DOMAIN entered :
                         k < l /\ entered[k] = received[s][i] /\ entered[l] = received[s][j]
    BY DEF DeliveredInOrder
  <2>1. PICK k \in DOMAIN history, l \in DOMAIN history :
           k < l /\ history[k] = received[s][i] /\ history[l] = received[s][j]
    BY DEF DeliveryInv, ReceivedOK, InOrder
  <2>2. /\ DOMAIN history \subseteq DOMAIN entered
        /\ \A n \in DOMAIN history : entered[n] = history[n]
    <3>1. history \in Seq(Messages) /\ queue \in Seq(Messages) /\ entered = history \o queue
      BY DEF DeliveryInv, QueueInv
    <3> QED
      BY <3>1
  <2> QED
    BY <2>1, <2>2
<1> QED
  BY <1>3, <1>4 DEF Delivery

\* With one dispatch task, a subscriber registered throughout is called once for
\* each message it wants, in the order of the queue, whoever comes, goes, starts
\* and stops meanwhile (_dispatch_loop, subscribe, unsubscribe).
THEOREM DeliveredAsPromised ==
    ASSUME Overlap = FALSE PROVE Spec => []Delivery
<1>1. BusInv /\ DeliveryInv /\ [Next]_vars => DeliveryInv'
  BY DeliveryPreserved
<1> QED
  BY <1>1, BusInvariant, DeliveryInitial, DeliveryFollows, PTL DEF Spec
=============================================================================
