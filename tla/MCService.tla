----------------------------- MODULE MCService -----------------------------
(* Three parts of the service that share nothing, so that a behaviour is of one *)
(* of them: its accounts (Accounts), its model (ModelLifecycle) and its         *)
(* retrieval library (MCRetriever).  Accounts: one account, two requests at a   *)
(* time, the lock after two failures.                                           *)
EXTENDS Accounts, MCModelLifecycle, MCRetriever

VARIABLE side     \* which of them the behaviour is of

ServiceInit ==
    /\ Init
    /\ LifecycleInit
    /\ RagInit
    /\ \/ side = "rag"
       \/ side \in {"accounts", "model"} /\ part = "store" /\ use = Up

ServiceNext ==
    /\ side' = side
    /\ \/ side = "accounts" /\ Next /\ UNCHANGED <<lifecycle, rag>>
       \/ side = "model"    /\ LifecycleNext /\ UNCHANGED <<vars, rag>>
       \/ side = "rag"      /\ RagNext /\ UNCHANGED <<vars, lifecycle>>

ServiceSpec == ServiceInit /\ [][ServiceNext]_<<vars, lifecycle, rag, side>>

\* Requests, passwords and tokens are interchangeable, and so are tasks and threads
\* of one kind; every property of the run is one of safety.
ServiceSymmetry ==
    Symmetry \cup Permutations(Requests) \cup Permutations(Passwords) \cup Permutations(Tokens)
=============================================================================
