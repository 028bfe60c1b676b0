------------------------------ MODULE Retriever ------------------------------
(***************************************************************************)
(* The vector store of src/features/rag/retriever.py: retrievers, each in a *)
(* process of its own, share one collection on a Qdrant server.  Each keeps *)
(* to the server until a call to it fails and then to its own memory, for   *)
(* good.  A call is one step here: of what a retriever keeps, nothing is    *)
(* shared but the collection, which a call changes in at most one request.  *)
(*                                                                         *)
(* A document is a vector with its metadata and text; scores are left out:  *)
(* Visible is what a search draws its results from.                        *)
(*                                                                         *)
(* External: a request is carried out and answered, refused, or carried out *)
(* without an answer; points cannot be put in a collection that is missing; *)
(* to delete a collection that is missing is no error.                     *)
(***************************************************************************)
EXTENDS Naturals, FiniteSets

CONSTANTS
    Retrievers,
    Docs,         \* documents; each is added once
    Dim,          \* number of components of a document's vector
    Selected,     \* the documents that the filter of a deletion matches
    Hybrid        \* enable_hybrid, with rank-bm25 installed

ASSUME DimAssumption    == Dim \in [Docs -> Nat \ {0}]
ASSUME FilterAssumption == Selected \subseteq Docs
ASSUME HybridAssumption == Hybrid \in BOOLEAN

Replies == {"done", "refused", "unanswered"}

VARIABLES
    server,       \* the collection: whether it exists, and its documents
    use,          \* _use_qdrant
    created,      \* _collection_created
    memory,       \* _vectors with _metadata
    dim,          \* _dimension
    added,        \* documents handed to an add that has returned
    gone          \* history: documents removed by a clear or a deletion, or
                  \* with the memory of a process that ended

retriever == <<server, use, created, memory, dim, added, gone>>

RetrieverInit ==
    /\ server = [exists |-> FALSE, docs |-> {}]
    /\ use \in [Retrievers -> BOOLEAN]
    /\ created = [r \in Retrievers |-> FALSE]
    /\ memory = [r \in Retrievers |-> {}]
    /\ dim = [r \in Retrievers |-> 0]
    /\ added = {}
    /\ gone = {}

\* The process of a retriever ends and another takes its place, which finds the
\* server up or not.
Restart(r, up) ==
    /\ use' = [use EXCEPT ![r] = up]
    /\ created' = [created EXCEPT ![r] = FALSE]
    /\ memory' = [memory EXCEPT ![r] = {}]
    /\ dim' = [dim EXCEPT ![r] = 0]
    /\ gone' = gone \cup (memory[r] \ server.docs)
    /\ UNCHANGED <<server, added>>

\* What _ensure_collection may leave: on an error the retriever gives the server
\* up, and its caller goes on with the request all the same.
Ensured(r) ==
    IF ~use[r] \/ created[r]
    THEN {[use |-> use[r], created |-> created[r], exists |-> server.exists]}
    ELSE {[use |-> TRUE, created |-> TRUE, exists |-> TRUE]} \cup
         [use : {FALSE}, created : {FALSE}, exists : {server.exists, TRUE}]

-----------------------------------------------------------------------------
(* add. *)

\* The vectors of a batch have one dimension, that of the vectors before it; it
\* is set before anything is stored.
Fits(r, batch) ==
    /\ batch # {}
    /\ \A d \in batch : Dim[d] \in {dim[r]} \/ dim[r] = 0
    /\ \A d, e \in batch : Dim[d] = Dim[e]

SetDim(r, batch) == dim' = [dim EXCEPT ![r] = Dim[CHOOSE d \in batch : TRUE]]

AddToMemory(r, batch) ==
    /\ ~use[r]
    /\ memory' = [memory EXCEPT ![r] = @ \cup batch]
    /\ UNCHANGED <<server, use, created>>

\* Mutant: the server is given another try at the next call.
AddKeepsServer(r, batch) ==
    /\ use[r]
    /\ \E e \in Ensured(r), reply \in Replies :
          LET ok == e.exists /\ reply = "done" IN
          /\ server' = [exists |-> e.exists,
                        docs |-> IF e.exists /\ reply # "refused" THEN server.docs \cup batch ELSE server.docs]
          /\ created' = [created EXCEPT ![r] = e.created]
          /\ use' = use
          /\ memory' = IF ok THEN memory ELSE [memory EXCEPT ![r] = @ \cup batch]

\* The upsert; what is not known to be stored goes to memory, and so does
\* everything after it.
AddToQdrant(r, batch) ==
    /\ use[r]
    /\ \E e \in Ensured(r), reply \in Replies :
          LET ok == e.exists /\ reply = "done" IN
          /\ server' = [exists |-> e.exists,
                        docs |-> IF e.exists /\ reply # "refused" THEN server.docs \cup batch ELSE server.docs]
          /\ created' = [created EXCEPT ![r] = e.created]
          /\ use' = [use EXCEPT ![r] = e.use /\ ok]
          /\ memory' = IF ok THEN memory ELSE [memory EXCEPT ![r] = @ \cup batch]

Add(r, batch) ==
    /\ batch \cap added = {}
    /\ Fits(r, batch)
    /\ SetDim(r, batch)
    /\ AddToMemory(r, batch) \/ AddToQdrant(r, batch)
    /\ added' = added \cup batch
    /\ gone' = gone

\* With texts, the sparse embeddings are dictionaries with integer keys, which
\* cannot be passed as keywords: the call ends in TypeError, outside any try.
AddWithTexts(r, batch) ==
    /\ Hybrid
    /\ use[r]
    /\ batch \cap added = {}
    /\ Fits(r, batch)
    /\ SetDim(r, batch)
    /\ \E e \in Ensured(r) :
          /\ server' = [server EXCEPT !.exists = e.exists]
          /\ created' = [created EXCEPT ![r] = e.created]
          /\ use' = [use EXCEPT ![r] = e.use]
    /\ UNCHANGED <<memory, added, gone>>

-----------------------------------------------------------------------------
(* search, clear, delete_by_filter. *)

\* What a search finds its results in.
Visible(r) == IF use[r] THEN server.docs ELSE memory[r]

\* A search of the server; any error is the end of its use.  (A search of memory
\* changes nothing.)
SearchQdrant(r) ==
    /\ use[r]
    /\ \E e \in Ensured(r), reply \in Replies :
          /\ server' = [server EXCEPT !.exists = e.exists]
          /\ created' = [created EXCEPT ![r] = e.created]
          /\ use' = [use EXCEPT ![r] = e.use /\ e.exists /\ reply = "done"]
    /\ UNCHANGED <<memory, dim, added, gone>>

ClearMemory(r) ==
    /\ memory' = [memory EXCEPT ![r] = {}]
    /\ dim' = [dim EXCEPT ![r] = 0]

\* The request has an effect on the server.
Reached(r, reply) == use[r] /\ reply # "refused"

\* An error of the server is logged, and the flag goes on saying that the
\* collection exists; memory goes in any case.
Clear(r) ==
    \E reply \in Replies :
       /\ server' = IF Reached(r, reply) THEN [exists |-> FALSE, docs |-> {}] ELSE server
       /\ gone' = gone \cup memory[r] \cup (server.docs \ server'.docs)
       /\ created' = [created EXCEPT ![r] = @ /\ ~(use[r] /\ reply = "done")]
       /\ ClearMemory(r)
       /\ UNCHANGED <<use, added>>

\* Without the server nothing is deleted.
DeleteByFilter(r) ==
    /\ \E reply \in Replies :
          server' = [server EXCEPT !.docs = IF Reached(r, reply) THEN @ \ Selected ELSE @]
    /\ gone' = gone \cup (server.docs \ server'.docs)
    /\ UNCHANGED <<use, created, memory, dim, added>>

RetrieverNext ==
    \E r \in Retrievers :
       \/ \E up \in BOOLEAN : Restart(r, up)
       \/ \E batch \in SUBSET Docs : Add(r, batch) \/ AddWithTexts(r, batch)
       \/ SearchQdrant(r) \/ Clear(r) \/ DeleteByFilter(r)

RetrieverSpec == RetrieverInit /\ [][RetrieverNext]_retriever

-----------------------------------------------------------------------------
\* Whatever an add has accepted and nobody has removed since is on the server or in
\* a memory that its retriever's searches use, whichever requests failed, answered
\* or not: a retriever that has fallen back never returns to the server and leaves
\* documents behind.
NothingLost == added \subseteq gone \cup server.docs \cup UNION {Visible(r) : r \in Retrievers}
=============================================================================
