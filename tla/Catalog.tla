------------------------------- MODULE Catalog -------------------------------
(***************************************************************************)
(* The tables that clients manage - items, models, experiments and         *)
(* datasets - through their routers (src/api/<table>/router.py) and through the  *)
(* agent's tools (src/agent/tools.py), both over src/db/crud.py.  A request *)
(* has a session and a thread of its own: what it reads and what it commits *)
(* are separate steps, and the process may die between them.               *)
(*                                                                         *)
(* Reads alone (list, get, download, and the refresh after a commit, which *)
(* fails if the row has gone meanwhile) change nothing and are left out.    *)
(*                                                                         *)
(* External: an UPDATE names the columns whose value differs from the one   *)
(* loaded; of no such row it fails, whereas a DELETE of no row succeeds;    *)
(* ids are not given twice; after a commit that failed the session refuses  *)
(* every statement.                                                        *)
(***************************************************************************)
EXTENDS Naturals, FiniteSets

CONSTANTS
    Requests,     \* requests that may be in progress at once
    Ids, Names, Files, Fields, Values,
    Unset,        \* the value of a field at creation
    None,
    MaxFaults     \* bound: crashes and failed commits

ASSUME FieldAssumption == Unset \in Values
ASSUME FaultAssumption == MaxFaults \in Nat

Kinds == {"item", "model", "experiment", "dataset"}

\* A row: its name (for a model, name and version), the file uploaded with it,
\* and the fields a PATCH may change.
Row == [kind : Kinds, name : Names, file : Files \cup {None}, fields : [Fields -> Values]]

\* What a PATCH may ask for: a value for some of the fields.
Changes == UNION {[S -> Values] : S \in SUBSET Fields \ {{}}}

\* What a request may be about to do: insert a row, after a file if it has one;
\* commit an edit or a deletion; add a row to the audit log.
Insertion == [op : {"store", "insert"}, tool : BOOLEAN, seen : SUBSET Ids, row : Row]
Edit      == [op : {"update"}, id : Ids, change : Changes, seen : [Fields -> Values]]
OfRow     == [op : {"delete", "audit"}, id : Ids]

\* What is remembered of a row's creation.
Birth == [row : Row, seen : SUBSET Ids, tool : BOOLEAN]

ASSUME RequestAssumption == IsFiniteSet(Requests)
ASSUME NoneAssumption ==
    None \notin Ids \cup Files \cup Row \cup Insertion \cup Edit \cup OfRow \cup Birth

VARIABLES
    rows,         \* the tables: a row or None for each id
    files,        \* DATA_DIR/uploads
    req,          \* per request: what it is about to do, or None
    audit,        \* the rows whose creation by a tool is in the audit log
    faults,
    born          \* history: per id, its row as created, with the ids that
                  \* existed when its name was looked up; or None

vars == <<rows, files, req, audit, faults, born>>

Init ==
    /\ rows = [i \in Ids |-> None]
    /\ files = {}
    /\ req = [r \in Requests |-> None]
    /\ audit = {}
    /\ faults = 0
    /\ born = [i \in Ids |-> None]

Present(kind)     == {i \in Ids : rows[i] # None /\ rows[i].kind = kind}
Taken(kind, name) == \E i \in Present(kind) : rows[i].name = name

Waits(r, op)    == req[r] # None /\ req[r].op = op
Goes(r, next)   == req' = [req EXCEPT ![r] = next]
Idle(r)         == req[r] = None

-----------------------------------------------------------------------------
(* Creation. *)

\* On to the insertion of a row; `seen` is what a lookup of its name has seen.
Inserts(kind, name, tool, seen) ==
    [op |-> "insert", tool |-> tool, seen |-> seen,
     row |-> [kind |-> kind, name |-> name, file |-> None, fields |-> [f \in Fields |-> Unset]]]

\* A request to create a row of a kind whose names are not looked up.
Unchecked(r, kind, name, tool) ==
    /\ Idle(r)
    /\ Goes(r, Inserts(kind, name, tool, {}))
    /\ UNCHANGED <<rows, files, audit, faults, born>>

\* ... and of one whose names are: a name in use is answered with 409.
Checked(r, kind, name, tool) ==
    /\ Idle(r)
    /\ ~Taken(kind, name)
    /\ Goes(r, Inserts(kind, name, tool, Present(kind)))
    /\ UNCHANGED <<rows, files, audit, faults, born>>

\* Mutant: the name of a dataset is not looked up.
UploadUnchecked(r, name) ==
    /\ Idle(r)
    /\ Goes(r, [Inserts("dataset", name, FALSE, Present("dataset")) EXCEPT !.op = "store"])
    /\ UNCHANGED <<rows, files, audit, faults, born>>

\* upload_dataset looks the name up before it reads the file.
Upload(r, name) ==
    /\ Idle(r)
    /\ ~Taken("dataset", name)
    /\ Goes(r, [Inserts("dataset", name, FALSE, Present("dataset")) EXCEPT !.op = "store"])
    /\ UNCHANGED <<rows, files, audit, faults, born>>

\* Mutant: two uploads may be stored under one name.
StoreOver(r, f) ==
    /\ Waits(r, "store")
    /\ files' = files \cup {f}
    /\ Goes(r, [req[r] EXCEPT !.op = "insert", !.row.file = f])
    /\ UNCHANGED <<rows, audit, faults, born>>

\* The file is written, under a name of its own, before there is a row.
Store(r, f) ==
    /\ Waits(r, "store")
    /\ f \notin files
    /\ files' = files \cup {f}
    /\ Goes(r, [req[r] EXCEPT !.op = "insert", !.row.file = f])
    /\ UNCHANGED <<rows, audit, faults, born>>

\* The insertion is committed; a tool's call goes on to its audit entry.
Insert(r, i) ==
    /\ Waits(r, "insert")
    /\ born[i] = None
    /\ rows' = [rows EXCEPT ![i] = req[r].row]
    /\ born' = [born EXCEPT ![i] = [row |-> req[r].row, seen |-> req[r].seen, tool |-> req[r].tool]]
    /\ Goes(r, IF req[r].tool THEN [op |-> "audit", id |-> i] ELSE None)
    /\ UNCHANGED <<files, audit, faults>>

-----------------------------------------------------------------------------
(* PATCH and DELETE. *)

\* The row is loaded, and the fields given (None leaves one alone) are set on it.
UpdateReads(r, kind, i, change) ==
    /\ Idle(r)
    /\ i \in Present(kind)
    /\ Goes(r, [op |-> "update", id |-> i, change |-> change, seen |-> rows[i].fields])
    /\ UNCHANGED <<rows, files, audit, faults, born>>

\* Mutant: every column is written.
WholeRow(fields, change, seen) ==
    [f \in Fields |-> IF f \in DOMAIN change THEN change[f] ELSE seen[f]]

\* The columns that the change leaves different from what was loaded are written.
Changed(fields, change, seen) ==
    [f \in Fields |-> IF f \in DOMAIN change /\ change[f] # seen[f] THEN change[f] ELSE fields[f]]

UpdateCommits(r) ==
    /\ Waits(r, "update")
    /\ LET i == req[r].id IN
       rows' = IF rows[i] = None THEN rows
               ELSE [rows EXCEPT ![i].fields = Changed(@, req[r].change, req[r].seen)]
    /\ Goes(r, None)
    /\ UNCHANGED <<files, audit, faults, born>>

DeleteReads(r, kind, i) ==
    /\ Idle(r)
    /\ i \in Present(kind)
    /\ Goes(r, [op |-> "delete", id |-> i])
    /\ UNCHANGED <<rows, files, audit, faults, born>>

\* The row goes, if no other request has removed it; its file stays.
DeleteCommits(r) ==
    /\ Waits(r, "delete")
    /\ rows' = [rows EXCEPT ![req[r].id] = None]
    /\ Goes(r, None)
    /\ UNCHANGED <<files, audit, faults, born>>

-----------------------------------------------------------------------------
(* The endpoints and the tools. *)

Items(r) ==
    \/ \E n \in Names : Unchecked(r, "item", n, FALSE)
    \/ \E i \in Ids : DeleteReads(r, "item", i)

Models(r) ==
    \/ \E n \in Names : Unchecked(r, "model", n, FALSE)
    \/ \E i \in Ids : DeleteReads(r, "model", i)

Experiments(r) ==
    \/ \E n \in Names : Unchecked(r, "experiment", n, FALSE)
    \/ \E i \in Ids, c \in Changes : UpdateReads(r, "experiment", i, c)
    \/ \E i \in Ids : DeleteReads(r, "experiment", i)

CreateDataset(r) == \E n \in Names : Checked(r, "dataset", n, FALSE)

Datasets(r) ==
    \/ \E n \in Names : Upload(r, n)
    \/ \E f \in Files : Store(r, f)
    \/ \E i \in Ids, c \in Changes : UpdateReads(r, "dataset", i, c)
    \/ \E i \in Ids : DeleteReads(r, "dataset", i)

\* The tools that create look at the name of a dataset, and at name and version
\* of a model, which the endpoint does not.
CreateTools(r) ==
    \E n \in Names :
       \/ Checked(r, "dataset", n, TRUE) \/ Checked(r, "model", n, TRUE)
       \/ Unchecked(r, "experiment", n, TRUE)

\* Mutant: the entry of a call that succeeded is not written.
AuditForgets(r) ==
    /\ Waits(r, "audit")
    /\ Goes(r, None)
    /\ UNCHANGED <<rows, files, audit, faults, born>>

\* invoke_tool, after the handler: the entry is a commit of its own.
Audit(r) ==
    /\ Waits(r, "audit")
    /\ audit' = audit \cup {req[r].id}
    /\ Goes(r, None)
    /\ UNCHANGED <<rows, files, faults, born>>

-----------------------------------------------------------------------------
(* Faults. *)

\* The database refuses a commit.  The exception of an insertion ends the call,
\* and the session then refuses the audit entry as well; that of an audit entry
\* is swallowed.
CommitFails(r) ==
    /\ faults < MaxFaults
    /\ \E op \in {"insert", "update", "delete", "audit"} : Waits(r, op)
    /\ Goes(r, None)
    /\ faults' = faults + 1
    /\ UNCHANGED <<rows, files, audit, born>>

\* The process dies, with every request in it.
Crash ==
    /\ faults < MaxFaults
    /\ req' = [r \in Requests |-> None]
    /\ faults' = faults + 1
    /\ UNCHANGED <<rows, files, audit, born>>

Next ==
    \/ Crash
    \/ \E r \in Requests :
          \/ Items(r) \/ Models(r) \/ Experiments(r) \/ CreateDataset(r) \/ Datasets(r) \/ CreateTools(r)
          \/ UpdateCommits(r) \/ DeleteCommits(r) \/ Audit(r) \/ CommitFails(r)
          \/ \E i \in Ids : Insert(r, i)

Spec == Init /\ [][Next]_vars

-----------------------------------------------------------------------------
Created == {i \in Ids : born[i] # None}
Pending(f) == \E r \in Requests : Waits(r, "insert") /\ req[r].row.file = f

\* Every dataset that has a file has it on disk, and for itself; every file was
\* stored for a dataset, be it one deleted since or still to be inserted, or for
\* one that a fault has cut off.
UploadsAccounted ==
    /\ \A i \in Created : born[i].row.file \in files \cup {None}
    /\ \A i, j \in Created : born[i].row.file = born[j].row.file => i = j \/ born[i].row.file = None
    /\ Cardinality({f \in files : ~Pending(f) /\ \A i \in Created : born[i].row.file # f})
          <= faults * Cardinality(Requests)

\* Two datasets share a name only if neither was there when the name of the
\* other was looked up: nothing but two overlapping creations makes duplicates.
DuplicatesRaced ==
    \A i, j \in Present("dataset") :
       i # j /\ rows[i].name = rows[j].name => i \notin born[j].seen

\* A commit of one request changes only the fields that this request was asked
\* to change, so that overlapping edits of different fields are both kept; and
\* a row once deleted is not brought back by an edit that had loaded it.
EditsKept ==
    [][\A i \in Created :
          rows'[i] # rows[i] =>
             \E r \in Requests :
                \/ Waits(r, "delete") /\ req[r].id = i /\ rows'[i] = None
                \/ /\ Waits(r, "update") /\ req[r].id = i /\ rows[i] # None /\ rows'[i] # None
                   /\ \A f \in Fields \ DOMAIN req[r].change : rows'[i].fields[f] = rows[i].fields[f]]_vars

\* Whatever a tool has created is in the audit log, or its call is still on the
\* way there, or a fault has struck for each that is missing (one per request of
\* the process, if it was a crash).
ToolCallsAudited ==
    Cardinality({i \in Created : born[i].tool /\ i \notin audit
                                 /\ ~\E r \in Requests : Waits(r, "audit") /\ req[r].id = i})
       <= faults * Cardinality(Requests)

=============================================================================
