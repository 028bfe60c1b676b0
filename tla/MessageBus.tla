----------------------------- MODULE MessageBus -----------------------------
(***************************************************************************)
(* The publish/subscribe bus of src/agent/coordination/message_bus.py: the *)
(* registry of subscriptions, the queue, the dispatch task and the calls   *)
(* that start and stop it.  A step is what runs between two awaits.  While *)
(* the dispatch task awaits a callback, anyone may subscribe, unsubscribe, *)
(* publish, start or stop.                                                 *)
(*                                                                         *)
(* Assumed of the subscribers: a callback does not swallow the             *)
(* CancelledError that stop() throws into it.                              *)
(***************************************************************************)
EXTENDS Integers, Sequences, FiniteSets

CONSTANTS
    Words, Begins,   \* topic words; Begins[v, w]: string w starts with v
    Messages,        \* the messages published, each once
    Topic,           \* Message.topic, split at the dots
    Subs,            \* subscribers, each with one pattern
    Pattern,         \* Subscription.topic_pattern
    Verdict,         \* what filter_fn does: "accepts", "rejects" or "raises"
    Stoppers,        \* coroutines that call stop()
    Dispatchers,     \* the dispatch tasks create_task may make (bound)
    Overlap,         \* may start() be called while a stop() is in progress?
    None

PatternType == [kind : {"all", "deep", "one", "exact"}, prefix : Seq(Words)]

ASSUME BeginsAssumption == Begins \in [Words \X Words -> BOOLEAN]
ASSUME TopicAssumption == Topic \in [Messages -> Seq(Words) \ {<<>>}]
ASSUME PatternAssumption == Pattern \in [Subs -> PatternType]
ASSUME VerdictAssumption == Verdict \in [Subs \X Messages -> {"accepts", "rejects", "raises"}]
ASSUME NoneAssumption == None \notin Messages \cup Dispatchers
ASSUME OverlapAssumption == Overlap \in BOOLEAN

VARIABLES
    registry,    \* _subscribers, in order: records [pattern, subs]
    queue,       \* _queue
    handed,      \* publish_sync's put_nowait calls the loop has yet to run
    running,     \* _running
    task,        \* _dispatch_task
    pc,          \* per dispatch task: where it is
    current,     \* the message it delivers, or None
    walk,        \* its snapshot of the registry: records [pattern, live, subs]
    pos,         \* its place in the walk: <<entry, index>>
    cancelled,   \* tasks with a cancellation pending
    awaited,     \* per coroutine in stop(): the task it awaits, or None
    history,     \* _history
    entered,     \* the messages in the order they entered the queue (history)
    received,    \* per subscriber: the messages its callback got (history)
    due,         \* per message: who was registered when it was taken, and has
                 \* stayed (history)
    cut          \* messages whose delivery was cut short (history)

client == <<registry, handed>>
lifecycle == <<running, task, cancelled, awaited>>
delivery == <<pc, current, walk, pos>>
account == <<entered, received, due, cut>>
vars == <<queue, client, lifecycle, delivery, history, account>>

Published == {entered[i] : i \in DOMAIN entered} \cup {handed[i] : i \in DOMAIN handed}

-----------------------------------------------------------------------------
(* Topics. *)

\* The text of topic t starts with the dotted text of p: the last word of p
\* need only begin t's word at that place.
StartsWith(t, p) ==
    LET n == Len(p) IN
    n = 0 \/ /\ Len(t) >= n
             /\ \A i \in 1..(n - 1) : t[i] = p[i]
             /\ Begins[<<p[n], t[n]>>]

\* _topic_matches: "*", "prefix.**", "prefix.*" and an exact topic.
Matches(t, p) ==
    \/ p.kind = "all"
    \/ p.kind = "deep" /\ StartsWith(t, p.prefix)
    \/ /\ p.kind = "one"
       /\ Len(t) = Len(p.prefix) + 1
       /\ SubSeq(t, 1, Len(p.prefix)) = p.prefix
    \/ p.kind = "exact" /\ t = p.prefix

\* The subscribers at which the loop stops for m: to call them, or to die.
Hears(s, m) == Matches(Topic[m], Pattern[s]) /\ Verdict[<<s, m>>] # "rejects"

-----------------------------------------------------------------------------
Init ==
    /\ registry = <<>>
    /\ queue = <<>> /\ handed = <<>>
    /\ running = FALSE /\ task = None
    /\ pc = [d \in Dispatchers |-> "unused"]
    /\ current = [d \in Dispatchers |-> None]
    /\ walk = [d \in Dispatchers |-> <<>>]
    /\ pos = [d \in Dispatchers |-> <<1, 0>>]
    /\ cancelled = {}
    /\ awaited = [c \in Stoppers |-> None]
    /\ history = <<>>
    /\ entered = <<>>
    /\ received = [s \in Subs |-> <<>>]
    /\ due = [m \in Messages |-> {}]
    /\ cut = {}

(* Subscriptions. *)

EntryOf(p) == {i \in DOMAIN registry : registry[i].pattern = p}

Registered(s) ==
    \E i \in DOMAIN registry : \E j \in DOMAIN registry[i].subs : registry[i].subs[j] = s

\* The list of pattern p as the walk that entry e belongs to sees it.
ListAt(e) == IF e.live THEN registry[CHOOSE i \in EntryOf(e.pattern) : TRUE].subs
                       ELSE e.subs

DropAt(q, i) == SubSeq(q, 1, i - 1) \o SubSeq(q, i + 1, Len(q))

Without(l, s) ==
    IF \E j \in DOMAIN l : l[j] = s THEN DropAt(l, CHOOSE j \in DOMAIN l : l[j] = s) ELSE l

\* subscribe appends to the pattern's list, which walks in progress share, or
\* adds the pattern, which they do not see.
Subscribe(s) ==
    /\ ~Registered(s)
    /\ \/ /\ EntryOf(Pattern[s]) = {}
          /\ registry' = Append(registry, [pattern |-> Pattern[s], subs |-> <<s>>])
       \/ \E i \in EntryOf(Pattern[s]) :
             registry' = [registry EXCEPT ![i].subs = Append(@, s)]
    /\ UNCHANGED <<queue, handed, lifecycle, delivery, history, account>>

\* Mutant: the list is changed in place.
UnsubscribeInPlace(s) ==
    /\ EntryOf(Pattern[s]) # {}
    /\ registry' = SelectSeq([i \in DOMAIN registry |->
                        [registry[i] EXCEPT !.subs = SelectSeq(@, LAMBDA x : x # s)]],
                        LAMBDA e : e.subs # <<>>)
    /\ due' = [m \in Messages |-> due[m] \ {s}]
    /\ walk' = [d \in Dispatchers |-> SelectSeq(walk[d], LAMBDA e :
                    \E i \in DOMAIN registry' : registry'[i].pattern = e.pattern)]
    /\ UNCHANGED <<queue, handed, lifecycle, pc, current, pos, history, entered, received, cut>>

\* unsubscribe binds a new list to the pattern, or drops an empty one: walks in
\* progress keep the old list.  A handle is in its list once at most.
Unsubscribe(s) ==
    /\ \E i \in EntryOf(Pattern[s]) :
          LET rest == Without(registry[i].subs, s)
          IN  registry' = IF rest = <<>> THEN DropAt(registry, i)
                          ELSE [registry EXCEPT ![i].subs = rest]
    /\ walk' = [d \in Dispatchers |-> [i \in DOMAIN walk[d] |->
                   IF walk[d][i].live /\ walk[d][i].pattern = Pattern[s]
                   THEN [walk[d][i] EXCEPT !.live = FALSE, !.subs = ListAt(walk[d][i])]
                   ELSE walk[d][i]]]
    /\ due' = [m \in Messages |-> due[m] \ {s}]
    /\ UNCHANGED <<queue, handed, lifecycle, pc, current, pos, history, entered, received, cut>>

(* Publishing. *)

Publish(m) ==
    /\ m \notin Published
    /\ queue' = Append(queue, m)
    /\ entered' = Append(entered, m)
    /\ UNCHANGED <<client, lifecycle, delivery, history, received, due, cut>>

\* publish_sync while the loop runs: the loop will make the put, in order.
\* (A thread without an event loop gets a RuntimeError and publishes nothing;
\* with a loop that does not run, the put is made at once, as in Publish.)
PublishSync(m) ==
    /\ m \notin Published
    /\ handed' = Append(handed, m)
    /\ UNCHANGED <<registry, queue, lifecycle, delivery, history, account>>

PutNowait ==
    /\ handed # <<>>
    /\ queue' = Append(queue, Head(handed))
    /\ entered' = Append(entered, Head(handed))
    /\ handed' = Tail(handed)
    /\ UNCHANGED <<registry, lifecycle, delivery, history, received, due, cut>>

-----------------------------------------------------------------------------
(* start and stop. *)

Stopping == {c \in Stoppers : awaited[c] # None}

Ended(d) == pc[d] \in {"returned", "crashed"}

\* start returns at once when _running is set, whatever became of the task.
Start ==
    /\ Overlap \/ Stopping = {}
    /\ ~running
    /\ \E d \in Dispatchers :
          /\ pc[d] = "unused"
          /\ pc' = [pc EXCEPT ![d] = "created"]
          /\ task' = d
    /\ running' = TRUE
    /\ UNCHANGED <<queue, client, cancelled, awaited, current, walk, pos, history, account>>

\* stop clears _running and, when there is a task, cancels and awaits it.  A
\* task that has ended does not suspend the await: it gives its result, and the
\* exception of one that crashed leaves _dispatch_task set.
Stop(c) ==
    /\ awaited[c] = None
    /\ running' = FALSE
    /\ IF task = None THEN UNCHANGED <<task, cancelled, awaited>>
       ELSE IF Ended(task)
       THEN /\ task' = IF pc[task] = "crashed" THEN task ELSE None
            /\ UNCHANGED <<cancelled, awaited>>
       ELSE /\ cancelled' = cancelled \cup {task}
            /\ awaited' = [awaited EXCEPT ![c] = task]
            /\ UNCHANGED task
    /\ UNCHANGED <<queue, client, delivery, history, account>>

\* Mutant: the cancelled task is not awaited.
StopReturnsAtOnce(c) ==
    /\ awaited[c] # None
    /\ task' = None
    /\ awaited' = [awaited EXCEPT ![c] = None]
    /\ UNCHANGED <<queue, client, running, cancelled, delivery, history, account>>

\* The awaited task has ended: stop forgets whichever task is current now.
StopReturns(c) ==
    /\ awaited[c] # None
    /\ Ended(awaited[c])
    /\ task' = None
    /\ awaited' = [awaited EXCEPT ![c] = None]
    /\ UNCHANGED <<queue, client, running, cancelled, delivery, history, account>>

-----------------------------------------------------------------------------
(* The dispatch task. *)

Places(w) == UNION {{e} \X DOMAIN ListAt(w[e]) : e \in DOMAIN w}

SubAt(w, q) == ListAt(w[q[1]])[q[2]]

Before(p, q) == p[1] < q[1] \/ (p[1] = q[1] /\ p[2] < q[2])

\* The places of walk w after place p where the loop stops for message m.
Stops(w, p, m) == {q \in Places(w) : Before(p, q) /\ Hears(SubAt(w, q), m)}

First(S) == CHOOSE p \in S : \A q \in S : ~Before(q, p)

\* Task d leaves message `current[d]` behind and takes up state `state`.
Rest(d, state) ==
    /\ pc' = [pc EXCEPT ![d] = state]
    /\ current' = [current EXCEPT ![d] = None]
    /\ walk' = [walk EXCEPT ![d] = <<>>]
    /\ pos' = [pos EXCEPT ![d] = <<1, 0>>]

\* Mutant: a message that nobody wants ends the loop.
AdvanceReturns(d, w, p, m) ==
    LET ahead == Stops(w, p, m)
        q     == First(ahead)
        s     == SubAt(w, q)
    IN  \/ /\ ahead = {}
           /\ Rest(d, IF p[2] # 0 /\ running THEN "getting" ELSE "returned")
           /\ UNCHANGED <<received, cut>>
        \/ /\ ahead # {}
           /\ received' = [received EXCEPT ![s] = Append(@, m)]
           /\ pc' = [pc EXCEPT ![d] = "calling"]
           /\ current' = [current EXCEPT ![d] = m]
           /\ walk' = [walk EXCEPT ![d] = w]
           /\ pos' = [pos EXCEPT ![d] = q]
           /\ UNCHANGED cut

\* Task d goes on from place p of walk w: to the next callback, whose awaits
\* let others run; to a filter that raises, outside the `try`; or, when nobody
\* is left, to the test of the while loop.
Advance(d, w, p, m) ==
    LET ahead == Stops(w, p, m)
        q     == First(ahead)
        s     == SubAt(w, q)
    IN  \/ /\ ahead = {}
           /\ Rest(d, IF running THEN "getting" ELSE "returned")
           /\ UNCHANGED <<received, cut>>
        \/ /\ ahead # {}
           /\ Verdict[<<s, m>>] = "raises"
           /\ Rest(d, "crashed")
           /\ cut' = cut \cup {m}
           /\ UNCHANGED received
        \/ /\ ahead # {}
           /\ Verdict[<<s, m>>] = "accepts"
           /\ received' = [received EXCEPT ![s] = Append(@, m)]
           /\ pc' = [pc EXCEPT ![d] = "calling"]
           /\ current' = [current EXCEPT ![d] = m]
           /\ walk' = [walk EXCEPT ![d] = w]
           /\ pos' = [pos EXCEPT ![d] = q]
           /\ UNCHANGED cut

\* A new task runs for the first time.
Begin(d) ==
    /\ pc[d] = "created" /\ d \notin cancelled
    /\ Rest(d, IF running THEN "getting" ELSE "returned")
    /\ UNCHANGED <<queue, client, lifecycle, history, account>>

\* queue.get answers: the message enters the history and the walk begins.  The
\* loop does not look at _running again before it delivers.
Take(d) ==
    /\ pc[d] = "getting" /\ d \notin cancelled
    /\ queue # <<>>
    /\ queue' = Tail(queue)
    /\ history' = Append(history, Head(queue))
    /\ Advance(d, [i \in DOMAIN registry |->
                      [pattern |-> registry[i].pattern, live |-> TRUE, subs |-> <<>>]],
               <<1, 0>>, Head(queue))
    /\ due' = [due EXCEPT ![Head(queue)] = {s \in Subs : Registered(s)}]
    /\ UNCHANGED <<client, lifecycle, entered>>

\* The callback returns, or raises an Exception, which is logged.
CallbackEnds(d) ==
    /\ pc[d] = "calling" /\ d \notin cancelled
    /\ Advance(d, walk[d], pos[d], current[d])
    /\ UNCHANGED <<queue, client, lifecycle, history, entered, due>>

\* The cancellation reaches the task wherever it is suspended: before its first
\* step, in queue.get, or in a callback.
CancelArrives(d) ==
    /\ d \in cancelled /\ pc[d] \in {"created", "getting", "calling"}
    /\ cut' = IF pc[d] = "calling" THEN cut \cup {current[d]} ELSE cut
    /\ Rest(d, "returned")
    /\ UNCHANGED <<queue, client, lifecycle, history, entered, received, due>>

Dispatch(d) == Begin(d) \/ Take(d) \/ CallbackEnds(d) \/ CancelArrives(d)

Next == \/ \E s \in Subs : Subscribe(s) \/ Unsubscribe(s)
        \/ \E m \in Messages : Publish(m) \/ PublishSync(m)
        \/ PutNowait
        \/ Start
        \/ \E c \in Stoppers : Stop(c) \/ StopReturns(c)
        \/ \E d \in Dispatchers : Dispatch(d)

Spec == Init /\ [][Next]_vars

\* The event loop runs what is ready: callbacks end, puts and wake-ups happen.
FairSpec == /\ Spec
            /\ WF_vars(PutNowait)
            /\ \A d \in Dispatchers : WF_vars(Dispatch(d))
            /\ \A c \in Stoppers : WF_vars(StopReturns(c))

-----------------------------------------------------------------------------
Alive == {d \in Dispatchers : pc[d] \in {"created", "getting", "calling"}}

WalkEntry == [pattern : {Pattern[s] : s \in Subs}, live : BOOLEAN, subs : Seq(Subs)]

TypeOK ==
    /\ registry \in Seq([pattern : {Pattern[s] : s \in Subs}, subs : Seq(Subs) \ {<<>>}])
    /\ {queue, handed, history, entered} \subseteq Seq(Messages)
    /\ running \in BOOLEAN
    /\ task \in Dispatchers \cup {None}
    /\ pc \in [Dispatchers -> {"unused", "created", "getting", "calling", "returned", "crashed"}]
    /\ current \in [Dispatchers -> Messages \cup {None}]
    /\ walk \in [Dispatchers -> Seq(WalkEntry)]
    /\ pos \in [Dispatchers -> Nat \X Nat]
    /\ cancelled \subseteq Dispatchers
    /\ awaited \in [Stoppers -> Dispatchers \cup {None}]
    /\ received \in [Subs -> Seq(Messages)]
    /\ due \in [Messages -> SUBSET Subs]
    /\ cut \subseteq Messages

Times(m, s) == Cardinality({i \in DOMAIN received[s] : received[s][i] = m})

\* Somebody delivers m and has still to reach s.
StillDue(m, s) ==
    \E d \in Dispatchers :
        /\ pc[d] = "calling" /\ current[d] = m
        /\ \E q \in Stops(walk[d], pos[d], m) : SubAt(walk[d], q) = s

\* s is to be called for m.
Wants(s, m) == Matches(Topic[m], Pattern[s]) /\ Verdict[<<s, m>>] = "accepts"

\* A subscriber that is registered when a message is taken, and stays, is called
\* exactly once for it if it matches and accepts it, while others come and go in
\* the middle of the walk; only a cancelled or crashed delivery may miss it.
\* One that comes or goes meanwhile is called at most once.
DeliveredOnce ==
    \A m \in Messages, s \in Subs :
        /\ Times(m, s) <= IF Wants(s, m) THEN 1 ELSE 0
        /\ Wants(s, m) /\ s \in due[m] => Times(m, s) = 1 \/ m \in cut \/ StillDue(m, s)

\* Every subscriber sees messages in the order they entered the queue.
DeliveredInOrder ==
    \A s \in Subs : \A i, j \in DOMAIN received[s] :
        i < j => \E k, l \in DOMAIN entered :
                    k < l /\ entered[k] = received[s][i] /\ entered[l] = received[s][j]

\* Delivery, as a caller of publish and subscribe relies on it: nobody is left
\* out or called twice, and nobody sees messages out of order.
Delivery == DeliveredOnce /\ DeliveredInOrder

\* There is never more than the one dispatch task the bus knows of.
OneDispatcher == Alive \subseteq {task}

\* A message in the queue of a bus that keeps running is dispatched, unless a
\* filter that raised has ended the task.
QueuedIsDispatched ==
    \A m \in Messages :
        (\E i \in DOMAIN queue : queue[i] = m)
            ~> \/ \E i \in DOMAIN history : history[i] = m
               \/ ~running
               \/ \E d \in Dispatchers : pc[d] = "crashed"

\* Every stop() returns.
StopCompletes == \A c \in Stoppers : awaited[c] # None ~> awaited[c] = None

\* The bus gets on with its work: what is queued is dispatched and stop() returns.
BusProgress == QueuedIsDispatched /\ StopCompletes

\* stop: "Stop the dispatch loop and wait for the task to finish": when no stop
\* is in progress and the bus does not run, no dispatch task is left.
StopFinishesTask == ~running /\ Stopping = {} => Alive = {}

=============================================================================
