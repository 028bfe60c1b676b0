-------------------------------- MODULE Nerve --------------------------------
(***************************************************************************)
(* The event bus of src/agent/nerve/event_bus.py: a queue, lists of         *)
(* callbacks by event type, one more list for every type, and dispatch      *)
(* loops: each initialize() creates a task for one.  The coroutines run on  *)
(* one event loop, so a step here goes from one suspension to the next; a   *)
(* loop suspends in an empty queue and in a callback, and, in the model, also *)
(* between two events of a queue that is not empty.  A plain function as     *)
(* callback is a coroutine in whose time only its own calls occur.          *)
(*                                                                         *)
(* The observer of files is a thread.  It has no running event loop, so the *)
(* create_task of its handlers raises; external: an exception out of a      *)
(* handler ends watchdog's thread.                                          *)
(***************************************************************************)
EXTENDS Naturals, FiniteSets, SequencesExt

CONSTANTS
    Callbacks,
    Types,        \* event types
    Star,          \* the wildcard "*"
    Events,       \* events that programs emit, each once
    NoEvent,
    TypeOf,       \* the type of each
    Loops,        \* dispatch loops: the bound on calls of initialize
    MaxListed     \* bound: registrations in all

ASSUME TypeOfAssumption == TypeOf \in [Events -> Types]
ASSUME StarAssumption    == Star \notin Types

VARIABLES
    queue,        \* _event_queue
    subscribers,  \* _subscribers
    running,      \* _running
    loop,         \* per dispatch loop: where it is, its event and its place
    watcher,      \* the observer's thread: "off", "on" or "dead"
    heard,        \* history: per event, the callbacks called with it, in order
    owed,         \* history: per event, those registered for it when it was taken
    done,         \* history: events whose fan-out came to its end
    late          \* history: per loop, events taken since running was cleared

nerve == <<queue, subscribers, running, loop, watcher, heard, owed, done, late>>

Between(pc) == [pc |-> pc, event |-> NoEvent, list |-> Star, at |-> 1]

NerveInit ==
    /\ queue = <<>>
    /\ subscribers = [t \in Types \cup {Star} |-> <<>>]
    /\ running = FALSE
    /\ loop = [l \in Loops |-> Between("none")]
    /\ watcher = "off"
    /\ heard = [e \in Events |-> <<>>]
    /\ owed = [e \in Events |-> <<>>]
    /\ done = {}
    /\ late = [l \in Loops |-> 0]

Registrations == UNION {{t} \X DOMAIN subscribers[t] : t \in Types \cup {Star}}

Subscribe(t, c) ==
    /\ Cardinality(Registrations) < MaxListed
    /\ subscribers' = [subscribers EXCEPT ![t] = Append(@, c)]
    /\ UNCHANGED <<queue, running, loop, watcher, heard, owed, done, late>>

Emitted == ToSet(queue) \cup done \cup {e \in Events : owed[e] # <<>>}

Emit(e) ==
    /\ e \notin Emitted
    /\ queue' = Append(queue, e)
    /\ UNCHANGED <<subscribers, running, loop, watcher, heard, owed, done, late>>

-----------------------------------------------------------------------------
(* NerveManager and OSWatcher. *)

Initialize(l) ==
    /\ loop[l].pc = "none"
    /\ loop' = [loop EXCEPT ![l] = Between("created")]
    /\ watcher' = "on"
    /\ UNCHANGED <<queue, subscribers, running, heard, owed, done, late>>

\* Only the flag is cleared: a loop that is suspended finds out when its event,
\* or the next one, is done with.
Stop ==
    /\ running' = FALSE
    /\ watcher' = "off"
    /\ UNCHANGED <<queue, subscribers, loop, heard, owed, done, late>>

\* on_created, and on_modified of a file: the event goes nowhere.
FileEvent ==
    /\ watcher = "on"
    /\ watcher' = "dead"
    /\ UNCHANGED <<queue, subscribers, running, loop, heard, owed, done, late>>

-----------------------------------------------------------------------------
(* start_dispatch_loop. *)

\* The next place at or after place i of list t at which a callback is called
\* with an event: the lists are walked as they are now, the wildcard's last.
Places(t, i) == {p \in Registrations : p[1] \in {t, Star} /\ (p[1] = t => p[2] >= i)}

NextPlace(t, i) ==
    CHOOSE p \in Places(t, i) :
        \A q \in Places(t, i) : \/ p[1] = t /\ q[1] # t
                                \/ p[1] = q[1] /\ p[2] <= q[2]

\* Loop l is called back with event e at a place, and suspends there.
CallAt(l, e, p) ==
    /\ loop' = [loop EXCEPT ![l] = [pc |-> "calling", event |-> e, list |-> p[1], at |-> p[2]]]
    /\ heard' = [heard EXCEPT ![e] = Append(@, subscribers[p[1]][p[2]])]

\* Mutant: the flag is not looked at.
GoRoundAlways(l) == loop' = [loop EXCEPT ![l] = Between("waiting")]

\* The loop suspends in get(), or ends when the flag is clear.
GoRound(l) == loop' = [loop EXCEPT ![l] = Between(IF running THEN "waiting" ELSE "ended")]

\* The task runs for the first time.
Begin(l) ==
    /\ loop[l].pc = "created"
    /\ running' = TRUE
    /\ loop' = [loop EXCEPT ![l] = Between("waiting")]
    /\ late' = [k \in Loops |-> 0]
    /\ UNCHANGED <<queue, subscribers, watcher, heard, owed, done>>

\* get() returns: the flag was read before it.
Take(l) ==
    /\ loop[l].pc = "waiting"
    /\ queue # <<>>
    /\ LET e == Head(queue)
           t == TypeOf[e]
       IN /\ queue' = Tail(queue)
          /\ owed' = [owed EXCEPT ![e] = subscribers[t] \o subscribers[Star]]
          /\ late' = IF running THEN late ELSE [late EXCEPT ![l] = @ + 1]
          /\ \/ /\ Places(t, 1) # {}
                /\ CallAt(l, e, NextPlace(t, 1))
                /\ done' = done
             \/ /\ Places(t, 1) = {}
                /\ GoRound(l)
                /\ done' = done \cup {e}
                /\ heard' = heard
    /\ UNCHANGED <<subscribers, running, watcher>>

\* Mutant: an exception of a callback is not caught inside the walk, only
\* around it.
CallbackEndsWalk(l) ==
    /\ loop[l].pc = "calling"
    /\ GoRound(l)
    /\ done' = done \cup {loop[l].event}
    /\ UNCHANGED <<queue, subscribers, running, watcher, heard, owed, late>>

\* A callback returns, or raises an Exception, which is logged: on to the next.
CallbackEnds(l) ==
    /\ loop[l].pc = "calling"
    /\ LET e == loop[l].event
           left == Places(loop[l].list, loop[l].at + 1)
       IN \/ /\ left # {}
             /\ CallAt(l, e, NextPlace(loop[l].list, loop[l].at + 1))
             /\ done' = done
          \/ /\ left = {}
             /\ GoRound(l)
             /\ done' = done \cup {e}
             /\ heard' = heard
    /\ UNCHANGED <<queue, subscribers, running, watcher, owed, late>>

\* Mutant: the flag is left to stop().
CallbackCancelledOnly(l) ==
    /\ loop[l].pc = "calling"
    /\ loop' = [loop EXCEPT ![l] = Between("ended")]
    /\ UNCHANGED <<queue, subscribers, running, watcher, heard, owed, done, late>>

\* A callback that awaits a cancelled task ends in CancelledError, which is no
\* Exception: the loop ends, without a trace, and makes the others end.
CallbackCancelled(l) ==
    /\ loop[l].pc = "calling"
    /\ running' = FALSE
    /\ loop' = [loop EXCEPT ![l] = Between("ended")]
    /\ UNCHANGED <<queue, subscribers, watcher, heard, owed, done, late>>

Dispatch(l) == Begin(l) \/ Take(l) \/ CallbackEnds(l)

NerveNext ==
    \/ \E t \in Types \cup {Star}, c \in Callbacks : Subscribe(t, c)
    \/ \E e \in Events : Emit(e)
    \/ \E l \in Loops : Initialize(l) \/ Dispatch(l) \/ CallbackCancelled(l)
    \/ Stop
    \/ FileEvent

\* A task that can run is run, and callbacks return.
NerveFairness == \A l \in Loops : WF_nerve(Dispatch(l))

NerveSpec == NerveInit /\ [][NerveNext]_nerve /\ NerveFairness

-----------------------------------------------------------------------------
\* How often c is in a list.
Times(list, c) == Cardinality({i \in DOMAIN list : list[i] = c})

\* A fan-out that comes to its end has called each callback as often as it was
\* registered for the event when it was taken from the queue, and no more often
\* than it is now, whatever was raised or registered on the way.
FanOutComplete ==
    \A e \in done, c \in Callbacks :
       /\ Times(heard[e], c) >= Times(owed[e], c)
       /\ Times(heard[e], c) <= Times(subscribers[TypeOf[e]] \o subscribers[Star], c)

\* After stop(), until the bus is started again, each dispatch loop takes at most
\* one more event.
StopBound == \A l \in Loops : late[l] <= 1

\* While the bus runs, what is in the queue is taken from it: running is never
\* left set by a loop that ends.
QueuedIsTaken ==
    \A e \in Events : e \in ToSet(queue) ~> (e \notin ToSet(queue) \/ ~running)

=============================================================================
