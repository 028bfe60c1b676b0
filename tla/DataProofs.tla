------------------------------ MODULE DataProofs ------------------------------
(***************************************************************************)
(* The data of the service: what Catalog guarantees for any set of rows and *)
(* any finite set of overlapping requests, what ModelLifecycle guarantees   *)
(* for any runs, trainings, promotions and reloads, whatever breaks between *)
(* two steps; for any retrievers, documents and dimensions, that what an    *)
(* add has accepted is found on the server or in a memory until someone     *)
(* removes it; and what Passages guarantees for any texts, documents and    *)
(* sizes.                                                                  *)
(***************************************************************************)
EXTENDS Catalog, ModelLifecycle, Retriever, Passages, FiniteSetTheorems, SequenceTheorems, TLAPS

-----------------------------------------------------------------------------
(* The lifecycle of the model: types. *)

LifecycleTypes ==
    /\ logged \subseteq Runs
    /\ artifact \in [Runs -> Runs \cup {Nil}]
    /\ file \in Runs \cup {Nil}
    /\ experiment \in [Runs -> {"running", "completed", "failed"} \cup {Nil}]
    /\ metadata \subseteq [run : Runs, by : {"training", "promotion"}]
    /\ task \in [Trainers -> Training \cup {Nil}]
    /\ versions \in Seq(Runs)
    /\ stage \in [Runs -> {"None", "Production", "Archived"}]
    /\ promote \in [Promoters -> Promotion \cup {Nil}]
    /\ service \in [model : Runs \cup {Nil}, processor : Runs \cup {Nil}]
    /\ loading \in [Loaders -> Load \cup {Nil}]
    /\ log \subseteq BOOLEAN
    /\ breaks \in Nat

\* What a name or a stage of the registry leads to is a run.
LEMMA NamesRuns ==
    ASSUME LifecycleTypes, NEW alias
    PROVE  Named(alias) \subseteq Runs
  <1>1. Registered \subseteq Runs
    BY DEF LifecycleTypes, Registered, ToSet
  <1>2. versions # <<>> => Last(versions) \in Runs
    BY DEF LifecycleTypes, Last
  <1>3. QED
    BY <1>1, <1>2 DEF Named, Production

\* Every step of a training, a promotion or a load keeps the types.
LEMMA TypesStep ==
    ASSUME LifecycleTypes, [LifecycleNext]_lifecycle
    PROVE  LifecycleTypes'
  <1> USE NilAssumption DEF LifecycleTypes
  <1>1. ASSUME NEW t \in Trainers, Trains(t) PROVE LifecycleTypes'
    <2>1. ASSUME NEW r \in Runs, NEW retrain \in BOOLEAN, Start(t, r, retrain) PROVE LifecycleTypes'
      BY <2>1 DEF Start, Training, Others, serving
    <2>2. CASE LogModel(t)
      BY <2>2 DEF LogModel, At, GoesTo, Training, Others, serving
    <2>3. CASE SaveProcessor(t)
      BY <2>3 DEF SaveProcessor, At, GoesTo, Training, Others, serving
    <2>4. CASE LogProcessor(t)
      BY <2>4 DEF LogProcessor, At, GoesTo, Training, Others, serving
    <2>5. CASE Complete(t)
      BY <2>5 DEF Complete, At, GoesTo, Training, Others, serving
    <2>6. CASE Register(t)
      BY <2>6 DEF Register, At, Training, Others, serving
    <2>7. CASE Raise(t)
      BY <2>7 DEF Raise, Training, Others, serving
    <2>8. CASE Break(t)
      BY <2>8 DEF Break, Training, Others, serving
    <2>9. QED
      BY <1>1, <2>1, <2>2, <2>3, <2>4, <2>5, <2>6, <2>7, <2>8 DEF Trains
  <1>2. ASSUME NEW r \in Runs, RegisterVersion(r) PROVE LifecycleTypes'
    BY <1>2 DEF RegisterVersion, train, serving
  <1>3. ASSUME NEW p \in Promoters, Promoting(p) PROVE LifecycleTypes'
    <2>1. ASSUME NEW r \in Runs, PromoteReads(p, r) PROVE LifecycleTypes'
      BY <2>1 DEF PromoteReads, Promotion, train, serving
    <2>2. CASE PromoteTransitions(p)
      BY <2>2 DEF PromoteTransitions, Promotion, train, serving
    <2>3. CASE PromoteCommits(p)
      BY <2>3 DEF PromoteCommits, Promotion, train, serving
    <2>4. CASE PromoteFails(p)
      BY <2>4 DEF PromoteFails, Promotion, train, serving
    <2>5. QED
      BY <1>3, <2>1, <2>2, <2>3, <2>4 DEF Promoting
  <1>4. ASSUME NEW l \in Loaders, Serving(l) PROVE LifecycleTypes'
    <2>1. CASE Reload(l)
      BY <2>1 DEF Reload, Load, train
    <2>2. CASE LoadModel(l)
      <3>1. Named(loading[l].alias) \subseteq Runs
        BY NamesRuns
      <3>2. QED
        BY <2>2, <3>1 DEF LoadModel, GiveUp, Load, train
    <2>3. CASE LoadProcessor(l)
      <3>1. Latest \subseteq Runs
        <4>1. Latest \subseteq Registered
          BY Zenon DEF Latest
        <4>2. Registered \subseteq Runs
          BY DEF Registered, ToSet
        <4>3. QED
          BY <4>1, <4>2
      <3>2. loading' \in [Loaders -> Load \cup {Nil}]
        BY <2>3 DEF LoadProcessor, GiveUp, Load
      <3>3. service' \in [model : Runs \cup {Nil}, processor : Runs \cup {Nil}]
        BY <2>3, <3>1 DEF LoadProcessor, GiveUp
      <3>4. QED
        BY <2>3, <3>2, <3>3 DEF LoadProcessor, train
    <2>4. QED
      BY <1>4, <2>1, <2>2, <2>3 DEF Serving
  <1>5. CASE Predict
    BY <1>5 DEF Predict, Loading, train
  <1>6. CASE UNCHANGED lifecycle
    BY <1>6 DEF lifecycle, train, serving
  <1>7. QED
    BY <1>1, <1>2, <1>3, <1>4, <1>5, <1>6 DEF LifecycleNext

-----------------------------------------------------------------------------
(* The lifecycle of the model: invariants. *)

\* What a training relies on at each of its steps: its run is its own and not
\* yet registered by a training, what the earlier steps have put down is there,
\* and its experiment is as it has left it.
TrainingSound(t) ==
    task[t] # Nil =>
       LET r == task[t].run
           step == task[t].step
       IN  /\ \A u \in Trainers : task[u] # Nil /\ task[u].run = r => u = t
           /\ \A m \in metadata : m.run = r => m.by # "training"
           /\ step # "model" => r \in logged
           /\ step = "log" => file # Nil
           /\ step \in {"complete", "register"} => artifact[r] # Nil
           /\ experiment[r] = IF ~task[t].retrain THEN Nil
                              ELSE IF step = "register" THEN "completed" ELSE "running"
           /\ step = "complete" => task[t].retrain

TrainingInv == RegisteredIsFinished /\ \A t \in Trainers : TrainingSound(t)

\* A model is without a processor only while some load is half way.
ServingInv == ServedBound /\ (service.model # Nil /\ service.processor = Nil => Loading)

\* The versions in production that are not on record, nor about to be.
Unrecorded == {r \in Runs : /\ stage[r] # "None"
                            /\ ~\E m \in metadata : m.run = r
                            /\ ~\E p \in Promoters : promote[p] # Nil /\ promote[p].run = r}

PromotionInv ==
    /\ IsFiniteSet(Unrecorded)
    /\ Cardinality(Unrecorded) <= breaks

\* Steps that are neither of training nor of the promotion of a version leave
\* what a training relies on; a promotion only adds rows of its own kind.
LEMMA TrainingStep ==
    ASSUME LifecycleTypes, TrainingInv, [LifecycleNext]_lifecycle
    PROVE  TrainingInv'
  <1> USE NilAssumption DEF LifecycleTypes, TrainingInv, TrainingSound, RegisteredIsFinished
  <1>1. ASSUME NEW t \in Trainers, Trains(t) PROVE TrainingInv'
    <2>1. ASSUME NEW r \in Runs, NEW retrain \in BOOLEAN, Start(t, r, retrain) PROVE TrainingInv'
      BY <2>1 DEF Start, Training
    <2>2. CASE LogModel(t)
      BY <2>2 DEF LogModel, At, GoesTo, Training
    <2>3. CASE SaveProcessor(t)
      BY <2>3 DEF SaveProcessor, At, GoesTo, Training
    <2>4. CASE LogProcessor(t)
      BY <2>4 DEF LogProcessor, At, GoesTo, Training
    <2>5. CASE Complete(t)
      BY <2>5 DEF Complete, At, GoesTo, Training
    <2>6. CASE Register(t)
      BY <2>6 DEF Register, At, Training
    <2>7. CASE Raise(t)
      BY <2>7 DEF Raise, Training
    <2>8. CASE Break(t)
      BY <2>8 DEF Break, Training
    <2>9. QED
      BY <1>1, <2>1, <2>2, <2>3, <2>4, <2>5, <2>6, <2>7, <2>8 DEF Trains
  <1>2. ASSUME UNCHANGED train,
               \A m \in metadata' \ metadata : m.by = "promotion"
        PROVE  TrainingInv'
    BY <1>2 DEF train
  <1>3. ASSUME NEW p \in Promoters, Promoting(p) PROVE TrainingInv'
    BY <1>2, <1>3 DEF Promoting, PromoteReads, PromoteTransitions, PromoteCommits, PromoteFails
  <1>4. ASSUME NEW r \in Runs, RegisterVersion(r) PROVE TrainingInv'
    BY <1>2, <1>4 DEF RegisterVersion
  <1>5. ASSUME NEW l \in Loaders, Serving(l) PROVE TrainingInv'
    BY <1>2, <1>5 DEF Serving, Reload, LoadModel, LoadProcessor
  <1>6. CASE Predict
    BY <1>2, <1>6 DEF Predict
  <1>7. CASE UNCHANGED lifecycle
    BY <1>2, <1>7 DEF lifecycle
  <1>8. QED
    BY <1>1, <1>3, <1>4, <1>5, <1>6, <1>7 DEF LifecycleNext

\* A load that ends has either brought a processor or taken the model away; until
\* then its caller is loading.
LEMMA ServingStep ==
    ASSUME LifecycleTypes, ServingInv, [LifecycleNext]_lifecycle
    PROVE  ServingInv'
  <1> USE NilAssumption DEF LifecycleTypes, ServingInv, ServedBound, Loading
  <1>1. ASSUME UNCHANGED serving PROVE ServingInv'
    BY <1>1 DEF serving
  <1>2. ASSUME NEW l \in Loaders, Serving(l) PROVE ServingInv'
    <2>1. CASE Reload(l)
      BY <2>1 DEF Reload, Load
    <2>2. CASE LoadModel(l)
      <3>1. log' = log /\ (loading'[l] # Nil \/ service'.model = Nil)
        BY <2>2 DEF LoadModel, GiveUp, Load
      <3>2. QED
        BY <3>1
    <2>3. CASE LoadProcessor(l)
      <3>1. log' = log /\ (loading'[l] # Nil \/ service'.model = Nil \/ service'.processor # Nil)
        BY <2>3 DEF LoadProcessor, GiveUp, Load
      <3>2. QED
        BY <3>1
    <2>4. QED
      BY <1>2, <2>1, <2>2, <2>3 DEF Serving
  <1>3. CASE Predict
    BY <1>3 DEF Predict
  <1>4. ASSUME NEW t \in Trainers, Trains(t) PROVE UNCHANGED serving
    BY <1>4 DEF Trains, Start, LogModel, SaveProcessor, LogProcessor, Complete, Register, Raise, Break, Others
  <1>5. ASSUME NEW p \in Promoters, Promoting(p) PROVE UNCHANGED serving
    BY <1>5 DEF Promoting, PromoteReads, PromoteTransitions, PromoteCommits, PromoteFails
  <1>6. ASSUME NEW r \in Runs, RegisterVersion(r) PROVE UNCHANGED serving
    BY <1>6 DEF RegisterVersion
  <1>7. CASE UNCHANGED lifecycle
    BY <1>1, <1>7 DEF lifecycle
  <1>8. QED
    BY <1>1, <1>2, <1>3, <1>4, <1>5, <1>6, <1>7 DEF LifecycleNext

\* A step that makes no version unrecorded keeps the bound.
LEMMA NoneMissing ==
    ASSUME PromotionInv, Unrecorded' \subseteq Unrecorded, breaks \in Nat, breaks' \in Nat, breaks <= breaks'
    PROVE  PromotionInv'
  <1>1. IsFiniteSet(Unrecorded') /\ Cardinality(Unrecorded') <= Cardinality(Unrecorded)
    BY FS_Subset DEF PromotionInv
  <1>2. Cardinality(Unrecorded) \in Nat /\ Cardinality(Unrecorded') \in Nat
    BY <1>1, FS_CardinalityType DEF PromotionInv
  <1>3. QED
    BY <1>1, <1>2 DEF PromotionInv

\* Only a promotion that fails after the transition leaves a version unrecorded,
\* and that one alone.
LEMMA PromotionStep ==
    ASSUME LifecycleTypes, PromotionInv, [LifecycleNext]_lifecycle
    PROVE  PromotionInv'
  <1> USE NilAssumption DEF LifecycleTypes
  <1>1. ASSUME UNCHANGED <<metadata, stage, promote>>, breaks' \in {breaks, breaks + 1}
        PROVE  PromotionInv'
    BY <1>1, NoneMissing DEF Unrecorded
  <1>2. ASSUME NEW t \in Trainers, Trains(t) PROVE PromotionInv'
    <2>1. CASE Register(t)
      BY <2>1, NoneMissing DEF Register, Unrecorded, Others
    <2>2. CASE ~Register(t)
      BY <1>1, <1>2, <2>2 DEF Trains, Start, LogModel, SaveProcessor, LogProcessor, Complete, Raise, Break, Others
    <2>3. QED
      BY <2>1, <2>2
  <1>3. ASSUME NEW p \in Promoters, Promoting(p) PROVE PromotionInv'
    <2>1. ASSUME NEW r \in Runs, PromoteReads(p, r) PROVE PromotionInv'
      BY <2>1, NoneMissing DEF PromoteReads, Unrecorded, Promotion
    <2>2. CASE PromoteTransitions(p)
      BY <2>2, NoneMissing DEF PromoteTransitions, Unrecorded, Promotion
    <2>3. CASE PromoteCommits(p)
      <3>1. \E m \in metadata' : m.run = promote[p].run
        <4>1. \/ \E m \in metadata : m.run = promote[p].run /\ metadata' = metadata
              \/ [run |-> promote[p].run, by |-> "promotion"] \in metadata'
          BY <2>3 DEF PromoteCommits
        <4>2. QED
          BY <4>1
      <3>2. \A m \in metadata : m \in metadata'
        BY <2>3 DEF PromoteCommits
      <3>3. \A q \in Promoters \ {p} : promote'[q] = promote[q]
        BY <2>3 DEF PromoteCommits
      <3>4. Unrecorded' \subseteq Unrecorded
        BY <2>3, <3>1, <3>2, <3>3 DEF PromoteCommits, Unrecorded
      <3>5. QED
        BY <2>3, <3>4, NoneMissing DEF PromoteCommits
    <2>4. CASE PromoteFails(p)
      <3> DEFINE most == Unrecorded \cup {promote[p].run}
      <3>1. Unrecorded' \subseteq most
        BY <2>4 DEF PromoteFails, Unrecorded
      <3>2. IsFiniteSet(most) /\ Cardinality(most) <= Cardinality(Unrecorded) + 1
        <4>1. IsFiniteSet(Unrecorded) /\ Cardinality(Unrecorded) \in Nat
          BY FS_CardinalityType DEF PromotionInv
        <4>2. /\ IsFiniteSet(most)
              /\ Cardinality(most) = IF promote[p].run \in Unrecorded THEN Cardinality(Unrecorded)
                                     ELSE Cardinality(Unrecorded) + 1
          BY <4>1, FS_AddElement, Zenon
        <4>3. QED
          BY <4>1, <4>2
      <3> HIDE DEF most
      <3>3. IsFiniteSet(Unrecorded') /\ Cardinality(Unrecorded') <= Cardinality(most)
        BY <3>1, <3>2, FS_Subset
      <3>4. /\ Cardinality(Unrecorded) \in Nat
            /\ Cardinality(most) \in Nat
            /\ Cardinality(Unrecorded') \in Nat
        BY <3>2, <3>3, FS_CardinalityType DEF PromotionInv
      <3>5. QED
        BY <2>4, <3>2, <3>3, <3>4 DEF PromoteFails, PromotionInv
    <2>5. QED
      BY <1>3, <2>1, <2>2, <2>3, <2>4 DEF Promoting
  <1>4. ASSUME NEW r \in Runs, RegisterVersion(r) PROVE PromotionInv'
    BY <1>1, <1>4 DEF RegisterVersion
  <1>5. ASSUME NEW l \in Loaders, Serving(l) PROVE PromotionInv'
    BY <1>1, <1>5 DEF Serving, Reload, LoadModel, LoadProcessor
  <1>6. CASE Predict
    BY <1>1, <1>6 DEF Predict
  <1>7. CASE UNCHANGED lifecycle
    BY <1>1, <1>7 DEF lifecycle
  <1>8. QED
    BY <1>2, <1>3, <1>4, <1>5, <1>6, <1>7 DEF LifecycleNext

LEMMA LifecycleStarts ==
    LifecycleInit => LifecycleTypes /\ TrainingInv /\ ServingInv /\ PromotionInv
  <1> SUFFICES ASSUME LifecycleInit PROVE LifecycleTypes /\ TrainingInv /\ ServingInv /\ PromotionInv
    OBVIOUS
  <1> USE DEF LifecycleInit
  <1>1. LifecycleTypes
    BY BreakAssumption DEF LifecycleTypes
  <1>2. TrainingInv
    BY DEF TrainingInv, TrainingSound, RegisteredIsFinished
  <1>3. ServingInv
    BY DEF ServingInv, ServedBound
  <1>4. Unrecorded = {}
    BY DEF Unrecorded
  <1>5. PromotionInv
    BY <1>4, FS_EmptySet DEF PromotionInv
  <1>6. QED
    BY <1>1, <1>2, <1>3, <1>5

-----------------------------------------------------------------------------
(* The lifecycle of the model: theorems. *)

\* What a training has registered is complete: train_task and retrain_model_task
\* add the row only after model and processor are logged, and nothing marks its
\* experiment as failed afterwards, for any number of overlapping trainings.
THEOREM TrainedIsFinished == LifecycleSpec => []RegisteredIsFinished
  <1>1. LifecycleInit => LifecycleTypes /\ TrainingInv
    BY LifecycleStarts
  <1>2. LifecycleTypes /\ TrainingInv /\ [LifecycleNext]_lifecycle => (LifecycleTypes /\ TrainingInv)'
    BY TypesStep, TrainingStep
  <1>3. TrainingInv => RegisteredIsFinished
    BY DEF TrainingInv
  <1>4. QED
    BY <1>1, <1>2, <1>3, PTL DEF LifecycleSpec

\* promote_model moves the version in MLflow and then commits its row: whatever
\* has been in production has a row, is about to have one, or is one of at most
\* as many as there were faults.
THEOREM PromotedOnRecord == LifecycleSpec => []PromotedIsRecorded
  <1>1. LifecycleInit => LifecycleTypes /\ PromotionInv
    BY LifecycleStarts
  <1>2. LifecycleTypes /\ PromotionInv /\ [LifecycleNext]_lifecycle => (LifecycleTypes /\ PromotionInv)'
    BY TypesStep, PromotionStep
  <1>3. PromotionInv => PromotedIsRecorded
    BY DEF PromotionInv, Unrecorded, PromotedIsRecorded
  <1>4. QED
    BY <1>1, <1>2, <1>3, PTL DEF LifecycleSpec

\* A prediction without a processor has met a load half way, for any number of
\* overlapping reloads and whichever of their steps fail.
THEOREM ServedWithProcessor == LifecycleSpec => []ServedBound
  <1>1. LifecycleInit => LifecycleTypes /\ ServingInv
    BY LifecycleStarts
  <1>2. LifecycleTypes /\ ServingInv /\ [LifecycleNext]_lifecycle => (LifecycleTypes /\ ServingInv)'
    BY TypesStep, ServingStep
  <1>3. ServingInv => ServedBound
    BY DEF ServingInv
  <1>4. QED
    BY <1>1, <1>2, <1>3, PTL DEF LifecycleSpec

-----------------------------------------------------------------------------
(* The catalog: types. *)

Call == Insertion \cup Edit \cup OfRow

CatalogTypes ==
    /\ rows \in [Ids -> Row \cup {None}]
    /\ files \subseteq Files
    /\ req \in [Requests -> Call \cup {None}]
    /\ audit \subseteq Ids
    /\ faults \in Nat
    /\ born \in [Ids -> Birth \cup {None}]

\* The kind of what a request is about to do tells what it has with it.
LEMMA Waiting ==
    ASSUME CatalogTypes, NEW r \in Requests
    PROVE  /\ Waits(r, "store") \/ Waits(r, "insert") => req[r] \in Insertion
           /\ Waits(r, "update") => req[r] \in Edit
           /\ Waits(r, "delete") \/ Waits(r, "audit") => req[r] \in OfRow
  BY DEF CatalogTypes, Call, Waits, Insertion, Edit, OfRow

\* A call to create, edit or delete begins: an insertion has no file yet, and that
\* of a dataset comes with the datasets there are, none of which has its name.
Begins(r, c) ==
    /\ req[r] = None
    /\ req' = [req EXCEPT ![r] = c]
    /\ UNCHANGED <<rows, files, audit, faults, born>>
    /\ c \in Call /\ c.op # "audit"
    /\ c \in Insertion =>
          /\ c.row.file = None
          /\ c.row.kind = "dataset" => c.seen = Present("dataset") /\ ~Taken("dataset", c.row.name)

LEMMA InsertsTyped ==
    ASSUME NEW kind \in Kinds, NEW name \in Names, NEW tool \in BOOLEAN, NEW seen \in SUBSET Ids,
           NEW c, c = Inserts(kind, name, tool, seen)
    PROVE  /\ c \in Insertion /\ c.op = "insert" /\ c.row.file = None
           /\ c.row.kind = kind /\ c.row.name = name /\ c.seen = seen
  BY FieldAssumption DEF Inserts, Insertion, Row

\* What the endpoints and the tools begin, and every later step of a request.
LEMMA CatalogSteps ==
    ASSUME CatalogTypes, Next
    PROVE  \/ Crash
           \/ \E r \in Requests :
                 \/ \E c \in Call : Begins(r, c)
                 \/ \E f \in Files : Store(r, f)
                 \/ \E i \in Ids : Insert(r, i)
                 \/ UpdateCommits(r) \/ DeleteCommits(r) \/ Audit(r) \/ CommitFails(r)
  <1> USE DEF CatalogTypes
  <1>1. ASSUME NEW r \in Requests, NEW kind \in Kinds, NEW n \in Names, NEW tool \in BOOLEAN,
               kind # "dataset", Unchecked(r, kind, n, tool)
        PROVE  \E c \in Call : Begins(r, c)
    <2> DEFINE c == Inserts(kind, n, tool, {})
    <2>1. c \in Insertion /\ c.op = "insert" /\ c.row.file = None /\ c.row.kind = kind
      BY InsertsTyped
    <2>2. req[r] = None /\ req' = [req EXCEPT ![r] = c] /\ UNCHANGED <<rows, files, audit, faults, born>>
      BY <1>1 DEF Unchecked, Idle, Goes
    <2> HIDE DEF c
    <2>3. QED
      BY <1>1, <2>1, <2>2 DEF Begins, Call
  <1>2. ASSUME NEW r \in Requests, NEW kind \in Kinds, NEW n \in Names, NEW tool \in BOOLEAN,
               Checked(r, kind, n, tool)
        PROVE  \E c \in Call : Begins(r, c)
    <2>1. Present(kind) \in SUBSET Ids
      BY DEF Present
    <2> DEFINE c == Inserts(kind, n, tool, Present(kind))
    <2>2. /\ c \in Insertion /\ c.op = "insert" /\ c.row.file = None
          /\ c.row.kind = kind /\ c.row.name = n /\ c.seen = Present(kind)
      BY <2>1, InsertsTyped
    <2>3. req[r] = None /\ req' = [req EXCEPT ![r] = c] /\ UNCHANGED <<rows, files, audit, faults, born>>
      BY <1>2 DEF Checked, Idle, Goes
    <2>4. ~Taken(kind, n)
      BY <1>2 DEF Checked
    <2> HIDE DEF c
    <2>5. QED
      BY <2>2, <2>3, <2>4 DEF Begins, Call
  <1>3. ASSUME NEW r \in Requests, NEW n \in Names, Upload(r, n)
        PROVE  \E c \in Call : Begins(r, c)
    <2> DEFINE new == Inserts("dataset", n, FALSE, Present("dataset"))
               c == [new EXCEPT !.op = "store"]
    <2>1. Present("dataset") \in SUBSET Ids
      BY DEF Present
    <2>2. /\ c \in Insertion /\ c.op = "store" /\ c.row.file = None
          /\ c.row.name = n /\ c.seen = Present("dataset")
      <3>1. /\ new \in Insertion /\ new.row.file = None
            /\ new.row.name = n /\ new.seen = Present("dataset")
        BY <2>1, FieldAssumption DEF Inserts, Insertion, Row, Kinds
      <3> HIDE DEF new
      <3>2. QED
        BY <3>1 DEF Insertion
    <2>3. req[r] = None /\ req' = [req EXCEPT ![r] = c] /\ UNCHANGED <<rows, files, audit, faults, born>>
      BY <1>3 DEF Upload, Idle, Goes
    <2>4. ~Taken("dataset", n)
      BY <1>3 DEF Upload
    <2> HIDE DEF c
    <2>5. QED
      BY <2>2, <2>3, <2>4 DEF Begins, Call
  <1>4. ASSUME NEW r \in Requests, NEW kind \in Kinds, NEW i \in Ids, NEW change \in Changes,
               UpdateReads(r, kind, i, change)
        PROVE  \E c \in Call : Begins(r, c)
    <2> DEFINE c == [op |-> "update", id |-> i, change |-> change, seen |-> rows[i].fields]
    <2>1. rows[i].fields \in [Fields -> Values]
      BY <1>4 DEF UpdateReads, Present, Row
    <2>2. c \in Edit /\ c.op = "update" /\ c \notin Insertion
      BY <2>1 DEF Edit, Insertion
    <2>3. req[r] = None /\ req' = [req EXCEPT ![r] = c] /\ UNCHANGED <<rows, files, audit, faults, born>>
      BY <1>4 DEF UpdateReads, Idle, Goes
    <2> HIDE DEF c
    <2>4. QED
      BY <2>2, <2>3 DEF Begins, Call
  <1>5. ASSUME NEW r \in Requests, NEW kind \in Kinds, NEW i \in Ids, DeleteReads(r, kind, i)
        PROVE  \E c \in Call : Begins(r, c)
    <2> DEFINE c == [op |-> "delete", id |-> i]
    <2>1. c \in OfRow /\ c.op = "delete" /\ c \notin Insertion
      BY DEF OfRow, Insertion
    <2>2. req[r] = None /\ req' = [req EXCEPT ![r] = c] /\ UNCHANGED <<rows, files, audit, faults, born>>
      BY <1>5 DEF DeleteReads, Idle, Goes
    <2> HIDE DEF c
    <2>3. QED
      BY <2>1, <2>2 DEF Begins, Call
  <1>6. ASSUME NEW r \in Requests,
               Items(r) \/ Models(r) \/ Experiments(r) \/ CreateDataset(r) \/ Datasets(r) \/ CreateTools(r)
        PROVE  (\E c \in Call : Begins(r, c)) \/ \E f \in Files : Store(r, f)
    <2> USE DEF Kinds
    <2>1. CASE Items(r)
      BY <1>1, <1>5, <2>1 DEF Items
    <2>2. CASE Models(r)
      BY <1>1, <1>5, <2>2 DEF Models
    <2>3. CASE Experiments(r)
      BY <1>1, <1>4, <1>5, <2>3 DEF Experiments
    <2>4. CASE CreateDataset(r)
      BY <1>2, <2>4 DEF CreateDataset
    <2>5. CASE Datasets(r)
      BY <1>3, <1>4, <1>5, <2>5 DEF Datasets
    <2>6. CASE CreateTools(r)
      BY <1>1, <1>2, <2>6 DEF CreateTools
    <2>7. QED
      BY <1>6, <2>1, <2>2, <2>3, <2>4, <2>5, <2>6
  <1>7. QED
    BY <1>6 DEF Next

\* Every step of a request and every fault keeps the types.
LEMMA CatalogTypesStep ==
    ASSUME CatalogTypes, [Next]_vars
    PROVE  CatalogTypes'
  <1> USE NoneAssumption DEF CatalogTypes
  <1>1. ASSUME NEW r \in Requests, NEW c \in Call, Begins(r, c) PROVE CatalogTypes'
    BY <1>1 DEF Begins
  <1>2. ASSUME NEW r \in Requests, NEW f \in Files, Store(r, f) PROVE CatalogTypes'
    <2>1. [req[r] EXCEPT !.op = "insert", !.row.file = f] \in Insertion
      <3>1. req[r] \in Insertion
        BY <1>2, Waiting DEF Store
      <3>2. [req[r].row EXCEPT !.file = f] \in Row
        BY <3>1 DEF Insertion, Row
      <3>3. QED
        BY <3>1, <3>2 DEF Insertion
    <2>2. QED
      BY <1>2, <2>1 DEF Store, Goes, Call
  <1>3. ASSUME NEW r \in Requests, NEW i \in Ids, Insert(r, i) PROVE CatalogTypes'
    <2> DEFINE birth == [row |-> req[r].row, seen |-> req[r].seen, tool |-> req[r].tool]
               next == IF req[r].tool THEN [op |-> "audit", id |-> i] ELSE None
    <2>1. req[r] \in Insertion
      BY <1>3, Waiting DEF Insert
    <2>2. birth \in Birth /\ req[r].row \in Row
      BY <2>1 DEF Insertion, Birth
    <2>3. next \in Call \cup {None}
      BY DEF Call, OfRow
    <2>4. /\ req' = [req EXCEPT ![r] = next] /\ born' = [born EXCEPT ![i] = birth]
          /\ rows' = [rows EXCEPT ![i] = req[r].row] /\ UNCHANGED <<files, audit, faults>>
      BY <1>3 DEF Insert, Goes
    <2> HIDE DEF birth, next
    <2>5. QED
      BY <2>2, <2>3, <2>4
  <1>4. ASSUME NEW r \in Requests, UpdateCommits(r) PROVE CatalogTypes'
    <2> DEFINE i == req[r].id
               edited == Changed(rows[i].fields, req[r].change, req[r].seen)
    <2>1. req[r] \in Edit
      BY <1>4, Waiting DEF UpdateCommits
    <2>2. i \in Ids /\ req[r].change \in Changes
      BY <2>1 DEF Edit
    <2>3. rows[i] # None => edited \in [Fields -> Values]
      BY <2>2 DEF Changed, Changes, Row
    <2>4. rows' \in [Ids -> Row \cup {None}]
      <3>1. CASE rows[i] = None
        BY <1>4, <3>1 DEF UpdateCommits
      <3>2. CASE rows[i] # None
        <4>1. rows' = [rows EXCEPT ![i] = [rows[i] EXCEPT !.fields = edited]]
          BY <1>4, <3>2 DEF UpdateCommits
        <4>2. [rows[i] EXCEPT !.fields = edited] \in Row
          BY <2>2, <2>3, <3>2 DEF Row
        <4>3. QED
          BY <2>2, <4>1, <4>2
      <3>3. QED
        BY <3>1, <3>2
    <2>5. QED
      BY <1>4, <2>4 DEF UpdateCommits, Goes
  <1>5. ASSUME NEW r \in Requests, DeleteCommits(r) PROVE CatalogTypes'
    BY <1>5 DEF DeleteCommits, Goes
  <1>6. ASSUME NEW r \in Requests, Audit(r) PROVE CatalogTypes'
    BY <1>6, Waiting DEF Audit, Goes, OfRow
  <1>7. ASSUME NEW r \in Requests, CommitFails(r) PROVE CatalogTypes'
    BY <1>7 DEF CommitFails, Goes
  <1>8. CASE Crash
    BY <1>8 DEF Crash
  <1>9. CASE UNCHANGED vars
    BY <1>9 DEF vars
  <1>10. QED
    BY <1>1, <1>2, <1>3, <1>4, <1>5, <1>6, <1>7, <1>8, <1>9, CatalogSteps

-----------------------------------------------------------------------------
(* The catalog: invariants. *)

\* What the lookup of a dataset's name has seen are other names.
OthersSeen(row, seen) ==
    row.kind = "dataset" => \A i \in seen : born[i] # None /\ born[i].row.name # row.name

\* A row keeps the kind and the name it was created with.
NamesInv ==
    /\ \A i \in Ids : rows[i] # None => /\ born[i] # None
                                        /\ rows[i].kind = born[i].row.kind
                                        /\ rows[i].name = born[i].row.name
    /\ \A i \in Ids : born[i] # None => OthersSeen(born[i].row, born[i].seen)
    /\ \A r \in Requests : Waits(r, "store") \/ Waits(r, "insert") => OthersSeen(req[r].row, req[r].seen)

\* Files that no dataset has had and none is about to have.
Lost == {f \in files : ~Pending(f) /\ \A i \in Created : born[i].row.file # f}

\* A file is of one row, or of one insertion to come.
FilesInv ==
    /\ \A i \in Created : born[i].row.file \in files \cup {None}
    /\ \A i, j \in Created : born[i].row.file = born[j].row.file => i = j \/ born[i].row.file = None
    /\ \A r \in Requests : Waits(r, "store") => req[r].row.file = None
    /\ \A r \in Requests :
          Waits(r, "insert") /\ req[r].row.file # None =>
             /\ req[r].row.file \in files
             /\ \A i \in Created : born[i].row.file # req[r].row.file
             /\ \A s \in Requests : Waits(s, "insert") /\ req[s].row.file = req[r].row.file => s = r
    /\ IsFiniteSet(Lost)
    /\ Cardinality(Lost) <= faults * Cardinality(Requests)

\* The rows a tool has created that are neither in the audit log nor on their way.
Unaudited == {i \in Created : born[i].tool /\ i \notin audit
                              /\ ~\E r \in Requests : Waits(r, "audit") /\ req[r].id = i}

AuditInv ==
    /\ IsFiniteSet(Unaudited)
    /\ Cardinality(Unaudited) <= faults * Cardinality(Requests)

\* What the steps of a request do, for the invariants: an insertion takes a new id.
LEMMA InsertFacts ==
    ASSUME CatalogTypes, NEW r \in Requests, NEW i \in Ids, Insert(r, i)
    PROVE  /\ req[r] \in Insertion /\ Waits(r, "insert") /\ born[i] = None
           /\ born'[i] # None /\ born'[i].row = req[r].row
           /\ born'[i].seen = req[r].seen /\ born'[i].tool = req[r].tool
           /\ rows'[i] = req[r].row
           /\ \A j \in Ids \ {i} : born'[j] = born[j] /\ rows'[j] = rows[j]
           /\ \A s \in Requests \ {r} : req'[s] = req[s]
           /\ req[r].tool => Waits(r, "audit")' /\ req'[r].id = i
           /\ ~Waits(r, "insert")' /\ ~Waits(r, "store")'
           /\ UNCHANGED <<files, audit, faults>>
  <1> DEFINE birth == [row |-> req[r].row, seen |-> req[r].seen, tool |-> req[r].tool]
             entry == [op |-> "audit", id |-> i]
  <1> USE NoneAssumption DEF CatalogTypes
  <1>1. req[r] \in Insertion
    BY Waiting DEF Insert
  <1>2. /\ birth \in Birth /\ birth.row = req[r].row
        /\ birth.seen = req[r].seen /\ birth.tool = req[r].tool
    BY <1>1 DEF Insertion, Birth
  <1>3. entry \in OfRow /\ entry.op = "audit" /\ entry.id = i
    BY DEF OfRow
  <1>4. /\ req' = [req EXCEPT ![r] = IF req[r].tool THEN entry ELSE None]
        /\ born' = [born EXCEPT ![i] = birth]
        /\ rows' = [rows EXCEPT ![i] = req[r].row]
        /\ Waits(r, "insert") /\ born[i] = None
        /\ UNCHANGED <<files, audit, faults>>
    BY DEF Insert, Goes
  <1> HIDE DEF birth, entry
  <1>5. /\ born'[i] = birth /\ rows'[i] = req[r].row
        /\ \A j \in Ids \ {i} : born'[j] = born[j] /\ rows'[j] = rows[j]
        /\ \A s \in Requests \ {r} : req'[s] = req[s]
        /\ req'[r] = IF req[r].tool THEN entry ELSE None
    BY <1>4
  <1>6. /\ req[r].tool => Waits(r, "audit")' /\ req'[r].id = i
        /\ ~Waits(r, "insert")' /\ ~Waits(r, "store")'
    BY <1>3, <1>5 DEF Waits
  <1>7. QED
    BY <1>1, <1>2, <1>4, <1>5, <1>6

LEMMA StoreFacts ==
    ASSUME CatalogTypes, NEW r \in Requests, NEW f \in Files, Store(r, f)
    PROVE  /\ req[r] \in Insertion /\ Waits(r, "store") /\ f \notin files
           /\ files' = files \cup {f}
           /\ Waits(r, "insert")' /\ req'[r].seen = req[r].seen /\ req'[r].row.file = f
           /\ req'[r].row.kind = req[r].row.kind /\ req'[r].row.name = req[r].row.name
           /\ \A s \in Requests \ {r} : req'[s] = req[s]
           /\ UNCHANGED <<rows, audit, faults, born>>
  <1> DEFINE stored == [req[r] EXCEPT !.op = "insert", !.row.file = f]
  <1> USE NoneAssumption DEF CatalogTypes
  <1>1. req[r] \in Insertion
    BY Waiting DEF Store
  <1>2. /\ stored \in Insertion
        /\ stored.op = "insert" /\ stored.seen = req[r].seen /\ stored.row.file = f
        /\ stored.row.kind = req[r].row.kind /\ stored.row.name = req[r].row.name
    <2>1. /\ [req[r].row EXCEPT !.file = f] \in Row
          /\ [req[r].row EXCEPT !.file = f].file = f
          /\ [req[r].row EXCEPT !.file = f].kind = req[r].row.kind
          /\ [req[r].row EXCEPT !.file = f].name = req[r].row.name
      BY <1>1 DEF Insertion, Row
    <2>2. QED
      BY <1>1, <2>1 DEF Insertion
  <1>3. req' = [req EXCEPT ![r] = stored]
    BY DEF Store, Goes
  <1> HIDE DEF stored
  <1>4. req'[r] = stored /\ \A s \in Requests \ {r} : req'[s] = req[s]
    BY <1>3
  <1>5. QED
    BY <1>1, <1>2, <1>4 DEF Store, Waits

\* A commit of an edit changes only the fields it was asked to change.
LEMMA UpdateFacts ==
    ASSUME CatalogTypes, NEW r \in Requests, UpdateCommits(r)
    PROVE  /\ req[r].id \in Ids /\ Waits(r, "update")
           /\ \A j \in Ids : rows'[j] = None <=> rows[j] = None
           /\ \A j \in Ids : rows[j] # None => rows'[j].kind = rows[j].kind /\ rows'[j].name = rows[j].name
           /\ \A j \in Ids : rows'[j] # rows[j] =>
                 /\ j = req[r].id
                 /\ \A f \in Fields \ DOMAIN req[r].change : rows'[j].fields[f] = rows[j].fields[f]
           /\ req' = [req EXCEPT ![r] = None]
           /\ UNCHANGED <<files, audit, faults, born>>
  <1> USE NoneAssumption DEF CatalogTypes
  <1> DEFINE i == req[r].id
             edited == Changed(rows[i].fields, req[r].change, req[r].seen)
  <1>1. req[r] \in Edit
    BY Waiting DEF UpdateCommits
  <1>2. i \in Ids
    BY <1>1 DEF Edit
  <1>3. /\ rows[i] # None => edited \in [Fields -> Values]
        /\ \A f \in Fields \ DOMAIN req[r].change : edited[f] = rows[i].fields[f]
    BY <1>1, <1>2 DEF Changed, Changes, Edit, Row
  <1>4. rows[i] = None => rows' = rows
    BY DEF UpdateCommits
  <1>5. rows[i] # None => /\ rows' = [rows EXCEPT ![i] = [rows[i] EXCEPT !.fields = edited]]
                         /\ [rows[i] EXCEPT !.fields = edited] \in Row
    BY <1>2, <1>3 DEF UpdateCommits, Row
  <1>6. rows[i] # None => /\ \A j \in Ids \ {i} : rows'[j] = rows[j]
                         /\ rows'[i] # None
                         /\ rows'[i].kind = rows[i].kind /\ rows'[i].name = rows[i].name
                         /\ rows'[i].fields = edited
    <2> HIDE DEF edited
    <2>1. QED
      BY <1>2, <1>5 DEF Row
  <1> HIDE DEF edited, i
  <1>7. QED
    BY <1>2, <1>3, <1>4, <1>6 DEF UpdateCommits, Goes, i

LEMMA NamesStep ==
    ASSUME CatalogTypes, NamesInv, [Next]_vars
    PROVE  NamesInv'
  <1> USE NoneAssumption DEF CatalogTypes
  <1>1. ASSUME NEW r \in Requests, NEW c \in Call, Begins(r, c) PROVE NamesInv'
    <2>1. c \in Insertion => OthersSeen(c.row, c.seen)
      BY <1>1 DEF Begins, OthersSeen, NamesInv, Present, Taken, Insertion
    <2>2. c.op \in {"store", "insert"} => c \in Insertion
      BY DEF Call, Insertion, Edit, OfRow
    <2>3. req'[r] = c /\ \A s \in Requests \ {r} : req'[s] = req[s]
      BY <1>1 DEF Begins
    <2>4. QED
      BY <1>1, <2>1, <2>2, <2>3 DEF Begins, NamesInv, OthersSeen, Waits
  <1>2. ASSUME NEW r \in Requests, NEW f \in Files, Store(r, f) PROVE NamesInv'
    BY <1>2, StoreFacts DEF NamesInv, OthersSeen, Waits
  <1>3. ASSUME NEW r \in Requests, NEW i \in Ids, Insert(r, i) PROVE NamesInv'
    <2>1. \A row, seen : seen \subseteq Ids /\ OthersSeen(row, seen) => OthersSeen(row, seen)'
      BY <1>3, InsertFacts DEF OthersSeen
    <2>2. /\ req[r].seen \subseteq Ids
          /\ \A j \in Ids : born[j] # None => born[j].seen \subseteq Ids
          /\ \A s \in Requests : Waits(s, "store") \/ Waits(s, "insert") => req[s].seen \subseteq Ids
      BY <1>3, InsertFacts, Waiting DEF Insertion, Birth
    <2>3. QED
      BY <1>3, <2>1, <2>2, InsertFacts DEF NamesInv, Waits
  <1>4. ASSUME \A s \in Requests : req'[s] \in {req[s], None}, UNCHANGED born,
               \A i \in Ids : rows'[i] # None => /\ rows[i] # None
                                                /\ rows'[i].kind = rows[i].kind
                                                /\ rows'[i].name = rows[i].name
        PROVE  NamesInv'
    BY <1>4 DEF NamesInv, OthersSeen, Waits
  <1>5. ASSUME NEW r \in Requests, UpdateCommits(r) PROVE NamesInv'
    BY <1>4, <1>5, UpdateFacts
  <1>6. ASSUME NEW r \in Requests, DeleteCommits(r) PROVE NamesInv'
    BY <1>4, <1>6 DEF DeleteCommits, Goes
  <1>7. ASSUME NEW r \in Requests, Audit(r) \/ CommitFails(r) PROVE NamesInv'
    BY <1>4, <1>7 DEF Audit, CommitFails, Goes
  <1>8. CASE Crash
    BY <1>4, <1>8 DEF Crash
  <1>9. CASE UNCHANGED vars
    BY <1>4, <1>9 DEF vars
  <1>10. QED
    BY <1>1, <1>2, <1>3, <1>5, <1>6, <1>7, <1>8, <1>9, CatalogSteps

\* One fault costs at most one element for each request.
LEMMA OneFaultMore ==
    ASSUME NEW S, NEW T, NEW g, NEW n \in Nat,
           IsFiniteSet(S), Cardinality(S) <= n * Cardinality(Requests),
           T \subseteq S \cup {g[r] : r \in Requests}
    PROVE  IsFiniteSet(T) /\ Cardinality(T) <= (n + 1) * Cardinality(Requests)
  <1> DEFINE image == {g[r] : r \in Requests}
             h == [r \in Requests |-> g[r]]
             R == Cardinality(Requests)
  <1>1. h \in Surjection(Requests, image)
    BY DEF Surjection
  <1>2. IsFiniteSet(image) /\ Cardinality(image) <= R
    BY <1>1, FS_Surjection, RequestAssumption
  <1> HIDE DEF image, h
  <1>3. /\ IsFiniteSet(S \cup image)
        /\ Cardinality(S \cup image) = Cardinality(S) + Cardinality(image) - Cardinality(S \cap image)
    BY <1>2, FS_Union
  <1>4. IsFiniteSet(S \cap image)
    BY <1>2, FS_Intersection
  <1>5. IsFiniteSet(T) /\ Cardinality(T) <= Cardinality(S \cup image)
    BY <1>3, FS_Subset DEF image
  <1>6. /\ R \in Nat /\ Cardinality(S) \in Nat /\ Cardinality(image) \in Nat /\ Cardinality(T) \in Nat
        /\ Cardinality(S \cap image) \in Nat /\ Cardinality(S \cup image) \in Nat
    BY <1>2, <1>3, <1>4, <1>5, FS_CardinalityType, RequestAssumption
  <1> HIDE DEF R
  <1>7. n * R \in Nat /\ (n + 1) * R = n * R + R
    BY <1>6
  <1>8. QED
    BY <1>2, <1>3, <1>5, <1>6, <1>7 DEF R

LEMMA NoMore ==
    ASSUME NEW S, NEW T, NEW n, IsFiniteSet(S), n \in Nat,
           Cardinality(S) <= n * Cardinality(Requests), T \subseteq S
    PROVE  IsFiniteSet(T) /\ Cardinality(T) <= n * Cardinality(Requests)
  <1>1. IsFiniteSet(T) /\ Cardinality(T) <= Cardinality(S)
    BY FS_Subset
  <1>2. Cardinality(T) \in Nat /\ Cardinality(S) \in Nat /\ Cardinality(Requests) \in Nat
    BY <1>1, FS_CardinalityType, RequestAssumption
  <1>3. n * Cardinality(Requests) \in Nat
    BY <1>2
  <1>4. QED
    BY <1>1, <1>2, <1>3

LEMMA FilesStep ==
    ASSUME CatalogTypes, FilesInv, [Next]_vars
    PROVE  FilesInv'
  <1> USE NoneAssumption DEF CatalogTypes, Created
  \* Most steps lose nothing.
  <1>1. ASSUME Lost' \subseteq Lost, faults' = faults
        PROVE  IsFiniteSet(Lost') /\ Cardinality(Lost') <= faults' * Cardinality(Requests)
    BY <1>1, NoMore DEF FilesInv
  <1>2. ASSUME NEW r \in Requests, NEW c \in Call, Begins(r, c) PROVE FilesInv'
    <2>1. req'[r] = c /\ req[r] = None /\ \A s \in Requests \ {r} : req'[s] = req[s]
      BY <1>2 DEF Begins
    <2>2. c.op \in {"store", "insert"} => c.row.file = None
      BY <1>2 DEF Begins, Call, Insertion, Edit, OfRow
    <2>3. \A f \in files : Pending(f) => Pending(f)'
      BY <2>1 DEF Pending, Waits
    <2>4. Lost' \subseteq Lost /\ faults' = faults
      BY <1>2, <2>3 DEF Begins, Lost
    <2>5. QED
      BY <1>1, <1>2, <2>1, <2>2, <2>4 DEF Begins, FilesInv, Waits
  <1>3. ASSUME NEW r \in Requests, NEW f \in Files, Store(r, f) PROVE FilesInv'
    <2>1. Pending(f)' /\ \A g \in files : Pending(g) => Pending(g)'
      BY <1>3, StoreFacts DEF Pending, Waits
    <2>2. Lost' \subseteq Lost /\ faults' = faults
      BY <1>3, <2>1, StoreFacts DEF Lost
    <2>3. /\ \A i \in Created : born[i].row.file # f
          /\ \A s \in Requests : Waits(s, "insert") => req[s].row.file # f
      BY <1>3, StoreFacts DEF FilesInv
    <2>4. QED
      BY <1>1, <1>3, <2>2, <2>3, StoreFacts DEF FilesInv, Waits
  <1>4. ASSUME NEW r \in Requests, NEW i \in Ids, Insert(r, i) PROVE FilesInv'
    <2>1. Created' = Created \cup {i} /\ i \notin Created
      BY <1>4, InsertFacts
    <2>2. \A f \in files : Pending(f) => Pending(f)' \/ born'[i].row.file = f
      BY <1>4, InsertFacts DEF Pending, Waits
    <2>3. Lost' \subseteq Lost /\ faults' = faults
      BY <1>4, <2>1, <2>2, InsertFacts DEF Lost
    <2>4. req[r].row.file \in files \cup {None}
      BY <1>4, InsertFacts DEF FilesInv
    <2>5. QED
      BY <1>1, <1>4, <2>1, <2>3, <2>4, InsertFacts DEF FilesInv, Waits
  \* A request that ends without an insertion.
  <1>5. ASSUME NEW r \in Requests, req' = [req EXCEPT ![r] = None], ~Waits(r, "insert"),
               UNCHANGED <<files, faults, born>>
        PROVE  FilesInv'
    <2>1. \A f \in files : Pending(f) => Pending(f)'
      BY <1>5 DEF Pending, Waits
    <2>2. Lost' \subseteq Lost
      BY <1>5, <2>1 DEF Lost
    <2>3. QED
      BY <1>1, <1>5, <2>2 DEF FilesInv, Waits
  \* A fault loses at most the file of each insertion it cuts off.
  <1>6. ASSUME \A s \in Requests : req'[s] \in {req[s], None}, faults' = faults + 1,
               UNCHANGED <<files, born>>
        PROVE  FilesInv'
    <2> DEFINE g == [s \in Requests |-> req[s].row.file]
    <2>1. Lost' \subseteq Lost \cup {g[s] : s \in Requests}
      BY <1>6 DEF Lost, Pending
    <2> HIDE DEF g
    <2>2. /\ IsFiniteSet(Lost) /\ Cardinality(Lost) <= faults * Cardinality(Requests)
          /\ faults \in Nat
      BY DEF FilesInv
    <2>3. IsFiniteSet(Lost') /\ Cardinality(Lost') <= (faults + 1) * Cardinality(Requests)
      BY <2>1, <2>2, OneFaultMore
    <2>4. QED
      BY <1>6, <2>3 DEF FilesInv, Waits
  <1>7. ASSUME NEW r \in Requests, UpdateCommits(r) PROVE FilesInv'
    BY <1>5, <1>7, UpdateFacts DEF Waits
  <1>8. ASSUME NEW r \in Requests, DeleteCommits(r) \/ Audit(r) PROVE FilesInv'
    BY <1>5, <1>8 DEF DeleteCommits, Audit, Goes, Waits
  <1>9. ASSUME NEW r \in Requests, CommitFails(r) PROVE FilesInv'
    BY <1>6, <1>9 DEF CommitFails, Goes
  <1>10. CASE Crash
    BY <1>6, <1>10 DEF Crash
  <1>11. CASE UNCHANGED vars
    <2>1. Lost' = Lost /\ faults' = faults
      BY <1>11 DEF vars, Lost, Pending, Waits
    <2>2. QED
      BY <1>1, <1>11, <2>1 DEF vars, FilesInv, Waits
  <1>12. QED
    BY <1>2, <1>3, <1>4, <1>7, <1>8, <1>9, <1>10, <1>11, CatalogSteps

LEMMA AuditStep ==
    ASSUME CatalogTypes, AuditInv, [Next]_vars
    PROVE  AuditInv'
  <1> USE NoneAssumption DEF CatalogTypes, Created
  <1>1. ASSUME Unaudited' \subseteq Unaudited, faults' = faults PROVE AuditInv'
    BY <1>1, NoMore DEF AuditInv
  <1>2. ASSUME NEW r \in Requests, NEW c \in Call, Begins(r, c) PROVE AuditInv'
    BY <1>1, <1>2 DEF Begins, Unaudited, Waits
  <1>3. ASSUME NEW r \in Requests, NEW f \in Files, Store(r, f) PROVE AuditInv'
    BY <1>1, <1>3, StoreFacts DEF Unaudited, Waits
  <1>4. ASSUME NEW r \in Requests, NEW i \in Ids, Insert(r, i) PROVE AuditInv'
    <2>1. \A j \in Ids \ {i} : born'[j] = born[j]
      BY <1>4, InsertFacts
    <2>2. \A s \in Requests : Waits(s, "audit") => s # r /\ req'[s] = req[s]
      BY <1>4, InsertFacts DEF Waits
    <2>3. i \notin Unaudited'
      BY <1>4, InsertFacts DEF Unaudited
    <2>4. Unaudited' \subseteq Unaudited
      BY <1>4, <2>1, <2>2, <2>3, InsertFacts DEF Unaudited, Waits
    <2>5. QED
      BY <1>1, <1>4, <2>4, InsertFacts
  <1>5. ASSUME NEW r \in Requests, UpdateCommits(r) PROVE AuditInv'
    BY <1>1, <1>5, UpdateFacts DEF Unaudited, Waits
  <1>6. ASSUME NEW r \in Requests, DeleteCommits(r) PROVE AuditInv'
    BY <1>1, <1>6 DEF DeleteCommits, Goes, Unaudited, Waits
  <1>7. ASSUME NEW r \in Requests, Audit(r) PROVE AuditInv'
    BY <1>1, <1>7 DEF Audit, Goes, Unaudited, Waits
  <1>8. ASSUME \A s \in Requests : req'[s] \in {req[s], None}, faults' = faults + 1,
               UNCHANGED <<audit, born>>
        PROVE  AuditInv'
    <2> DEFINE g == [s \in Requests |-> req[s].id]
    <2>1. Unaudited' \subseteq Unaudited \cup {g[s] : s \in Requests}
      BY <1>8 DEF Unaudited, Waits
    <2> HIDE DEF g
    <2>2. IsFiniteSet(Unaudited) /\ Cardinality(Unaudited) <= faults * Cardinality(Requests)
      BY DEF AuditInv
    <2>3. IsFiniteSet(Unaudited') /\ Cardinality(Unaudited') <= (faults + 1) * Cardinality(Requests)
      BY <2>1, <2>2, OneFaultMore
    <2>4. QED
      BY <1>8, <2>3 DEF AuditInv
  <1>9. ASSUME NEW r \in Requests, CommitFails(r) PROVE AuditInv'
    BY <1>8, <1>9 DEF CommitFails, Goes
  <1>10. CASE Crash
    BY <1>8, <1>10 DEF Crash
  <1>11. CASE UNCHANGED vars
    BY <1>1, <1>11 DEF vars, Unaudited, Waits
  <1>12. QED
    BY <1>2, <1>3, <1>4, <1>5, <1>6, <1>7, <1>9, <1>10, <1>11, CatalogSteps

LEMMA CatalogStarts ==
    Init => CatalogTypes /\ NamesInv /\ FilesInv /\ AuditInv
  <1> SUFFICES ASSUME Init PROVE CatalogTypes /\ NamesInv /\ FilesInv /\ AuditInv
    OBVIOUS
  <1> USE DEF Init
  <1>1. CatalogTypes
    BY DEF CatalogTypes
  <1>2. NamesInv
    BY DEF NamesInv, Waits
  <1>3. Lost = {} /\ Unaudited = {}
    BY DEF Lost, Unaudited, Created
  <1>4. Cardinality(Requests) \in Nat
    BY RequestAssumption, FS_CardinalityType
  <1>5. IsFiniteSet({}) /\ Cardinality({}) = 0 /\ 0 <= faults * Cardinality(Requests)
    BY <1>4, FS_EmptySet
  <1>6. FilesInv
    BY <1>3, <1>5 DEF FilesInv, Created, Waits
  <1>7. AuditInv
    BY <1>3, <1>5 DEF AuditInv
  <1>8. QED
    BY <1>1, <1>2, <1>6, <1>7

-----------------------------------------------------------------------------
(* The catalog: theorems. *)

\* upload_dataset stores the file and then inserts the row: no two rows share a
\* file, none lacks its own, and the files without a row are those of uploads
\* under way or cut off, at most one a request for each fault.
THEOREM UploadsKept == Spec => []UploadsAccounted
  <1>1. Init => CatalogTypes /\ FilesInv
    BY CatalogStarts
  <1>2. CatalogTypes /\ FilesInv /\ [Next]_vars => (CatalogTypes /\ FilesInv)'
    BY CatalogTypesStep, FilesStep
  <1>3. FilesInv => UploadsAccounted
    BY DEF FilesInv, Lost, UploadsAccounted
  <1>4. QED
    BY <1>1, <1>2, <1>3, PTL DEF Spec

\* get_dataset_by_name before the insertion: of two datasets with one name neither
\* had been there for the other's lookup, for any number of requests.
THEOREM OnlyRacesDuplicate == Spec => []DuplicatesRaced
  <1>1. Init => CatalogTypes /\ NamesInv
    BY CatalogStarts
  <1>2. CatalogTypes /\ NamesInv /\ [Next]_vars => (CatalogTypes /\ NamesInv)'
    BY CatalogTypesStep, NamesStep
  <1>3. NamesInv => DuplicatesRaced
    BY DEF NamesInv, OthersSeen, DuplicatesRaced, Present
  <1>4. QED
    BY <1>1, <1>2, <1>3, PTL DEF Spec

\* invoke_tool writes its entry after the handler's own commit: a row without one
\* is about to get it, or was cut off by a fault.
THEOREM ToolsAudited == Spec => []ToolCallsAudited
  <1>1. Init => CatalogTypes /\ AuditInv
    BY CatalogStarts
  <1>2. CatalogTypes /\ AuditInv /\ [Next]_vars => (CatalogTypes /\ AuditInv)'
    BY CatalogTypesStep, AuditStep
  <1>3. AuditInv => ToolCallsAudited
    BY DEF AuditInv, Unaudited, ToolCallsAudited
  <1>4. QED
    BY <1>1, <1>2, <1>3, PTL DEF Spec

\* update_dataset and update_experiment write the columns that the request changes
\* and no others, whatever was committed since the row was loaded; a deleted row
\* stays deleted.
THEOREM EditsOverlap == Spec => EditsKept
  <1> DEFINE Kept ==
        \A i \in Created :
           rows'[i] # rows[i] =>
              \E r \in Requests :
                 \/ Waits(r, "delete") /\ req[r].id = i /\ rows'[i] = None
                 \/ /\ Waits(r, "update") /\ req[r].id = i /\ rows[i] # None /\ rows'[i] # None
                    /\ \A f \in Fields \ DOMAIN req[r].change : rows'[i].fields[f] = rows[i].fields[f]
  <1>1. Init => CatalogTypes
    BY CatalogStarts
  <1>2. CatalogTypes /\ [Next]_vars => CatalogTypes'
    BY CatalogTypesStep
  <1>3. ASSUME CatalogTypes, [Next]_vars PROVE Kept
    <2> USE DEF CatalogTypes, Created
    <2>1. ASSUME NEW r \in Requests, UpdateCommits(r) PROVE Kept
      <3>1. ASSUME NEW i \in Created, rows'[i] # rows[i]
            PROVE  /\ Waits(r, "update") /\ req[r].id = i /\ rows[i] # None /\ rows'[i] # None
                   /\ \A f \in Fields \ DOMAIN req[r].change : rows'[i].fields[f] = rows[i].fields[f]
        BY <1>3, <2>1, <3>1, UpdateFacts
      <3>2. QED
        BY <3>1
    <2>2. ASSUME NEW r \in Requests, DeleteCommits(r) PROVE Kept
      BY <1>3, <2>2, Waiting DEF DeleteCommits, OfRow
    <2>3. ASSUME NEW r \in Requests, NEW i \in Ids, Insert(r, i) PROVE Kept
      <3>1. \A j \in Created : rows'[j] = rows[j]
        BY <1>3, <2>3, InsertFacts
      <3>2. QED
        BY <3>1
    <2>4. ASSUME UNCHANGED rows PROVE Kept
      BY <2>4
    <2>5. ASSUME NEW r \in Requests, NEW c \in Call, Begins(r, c) PROVE Kept
      BY <2>4, <2>5 DEF Begins
    <2>6. ASSUME NEW r \in Requests, NEW f \in Files, Store(r, f) PROVE Kept
      BY <2>4, <2>6 DEF Store
    <2>7. ASSUME NEW r \in Requests, Audit(r) \/ CommitFails(r) PROVE Kept
      BY <2>4, <2>7 DEF Audit, CommitFails
    <2>8. CASE Crash
      BY <2>4, <2>8 DEF Crash
    <2>9. CASE UNCHANGED vars
      BY <2>4, <2>9 DEF vars
    <2>10. QED
      BY <1>3, <2>1, <2>2, <2>3, <2>5, <2>6, <2>7, <2>8, <2>9, CatalogSteps
  <1>4. CatalogTypes /\ [Next]_vars => [Kept]_vars
    BY <1>3
  <1>5. QED
    BY <1>1, <1>2, <1>4, PTL DEF Spec, EditsKept

-----------------------------------------------------------------------------
(* The vector store. *)

RetrieverTypes ==
    /\ server \in [exists : BOOLEAN, docs : SUBSET Docs]
    /\ use \in [Retrievers -> BOOLEAN]
    /\ created \in [Retrievers -> BOOLEAN]
    /\ memory \in [Retrievers -> SUBSET Docs]

\* A retriever that uses the server has nothing in memory: it has never failed
\* over, and only then is memory written.
ServerAlone == \A r \in Retrievers : use[r] => memory[r] = {}

\* NothingLost, document by document.
DocumentsKept == \A d \in added : d \in gone \/ d \in server.docs \/ \E r \in Retrievers : d \in memory[r]

RetrieverInv == RetrieverTypes /\ ServerAlone /\ DocumentsKept

\* What ensuring the collection leaves: the flags are flags, and a retriever that
\* does not use the server does not begin to.
LEMMA EnsuredEffect ==
    ASSUME RetrieverTypes, NEW r \in Retrievers, NEW e \in Ensured(r)
    PROVE  e.use \in BOOLEAN /\ e.created \in BOOLEAN /\ e.exists \in BOOLEAN /\ (e.use => use[r])
  <1>1. CASE ~use[r] \/ created[r]
    <2>1. e = [use |-> use[r], created |-> created[r], exists |-> server.exists]
      BY <1>1 DEF Ensured
    <2> QED
      BY <2>1 DEF RetrieverTypes
  <1>2. CASE use[r] /\ ~created[r]
    <2>1. CASE e = [use |-> TRUE, created |-> TRUE, exists |-> TRUE]
      BY <1>2, <2>1
    <2>2. CASE e \in [use : {FALSE}, created : {FALSE}, exists : {server.exists, TRUE}]
      BY <2>2 DEF RetrieverTypes
    <2> QED
      BY <1>2, <2>1, <2>2 DEF Ensured
  <1> QED
    BY <1>1, <1>2 DEF RetrieverTypes

\* An add leaves its batch on the server or in memory, whatever the server
\* answers, and memory is written only as the server is given up.
LEMMA AddKeepsAll ==
    ASSUME RetrieverInv, NEW r \in Retrievers, NEW batch \in SUBSET Docs, Add(r, batch)
    PROVE  RetrieverInv'
  <1> USE DEF RetrieverInv
  <1>1. added' = added \cup batch /\ gone' = gone
    BY DEF Add
  <1>2. CASE AddToMemory(r, batch)
    BY <1>1, <1>2 DEF AddToMemory, RetrieverTypes, ServerAlone, DocumentsKept
  <1>3. CASE AddToQdrant(r, batch)
    <2>1. PICK e \in Ensured(r), reply \in Replies :
             LET ok == e.exists /\ reply = "done" IN
             /\ server' = [exists |-> e.exists,
                           docs |-> IF e.exists /\ reply # "refused" THEN server.docs \cup batch
                                    ELSE server.docs]
             /\ created' = [created EXCEPT ![r] = e.created]
             /\ use' = [use EXCEPT ![r] = e.use /\ ok]
             /\ memory' = IF ok THEN memory ELSE [memory EXCEPT ![r] = @ \cup batch]
      BY <1>3 DEF AddToQdrant
    <2>2. e.use \in BOOLEAN /\ e.created \in BOOLEAN /\ e.exists \in BOOLEAN
      BY EnsuredEffect
    <2>3. CASE e.exists /\ reply = "done"
      <3>1. /\ server'.docs = server.docs \cup batch
            /\ memory' = memory
            /\ use[r]
        BY <1>3, <2>1, <2>3 DEF AddToQdrant
      <3>2. RetrieverTypes'
        BY <2>1, <2>2, <2>3, <3>1 DEF RetrieverTypes
      <3>3. ServerAlone'
        BY <2>1, <3>1 DEF ServerAlone, RetrieverTypes
      <3>4. DocumentsKept'
        BY <1>1, <3>1 DEF DocumentsKept
      <3> QED
        BY <3>2, <3>3, <3>4
    <2>4. CASE ~(e.exists /\ reply = "done")
      <3>1. /\ server.docs \subseteq server'.docs /\ server'.docs \subseteq Docs
            /\ server' \in [exists : BOOLEAN, docs : SUBSET Docs]
        BY <2>1, <2>2 DEF RetrieverTypes
      <3>2. /\ memory' = [memory EXCEPT ![r] = @ \cup batch]
            /\ use' = [use EXCEPT ![r] = FALSE]
        BY <2>1, <2>2, <2>4
      <3>3. RetrieverTypes'
        BY <2>1, <2>2, <3>1, <3>2 DEF RetrieverTypes
      <3>4. ServerAlone'
        BY <3>2 DEF ServerAlone, RetrieverTypes
      <3>5. DocumentsKept'
        BY <1>1, <3>1, <3>2 DEF DocumentsKept, RetrieverTypes
      <3> QED
        BY <3>3, <3>4, <3>5
    <2> QED
      BY <2>3, <2>4
  <1> QED
    BY <1>2, <1>3 DEF Add

\* A search, and an add that ends in TypeError, touch no document; the server may
\* be given up.
LEMMA TouchKeepsAll ==
    ASSUME RetrieverInv, NEW r \in Retrievers, NEW e \in Ensured(r), NEW stays \in BOOLEAN,
           server' = [server EXCEPT !.exists = e.exists],
           created' = [created EXCEPT ![r] = e.created],
           use' = [use EXCEPT ![r] = e.use /\ stays],
           UNCHANGED <<memory, added, gone>>
    PROVE  RetrieverInv'
  <1>1. e.use \in BOOLEAN /\ e.created \in BOOLEAN /\ e.exists \in BOOLEAN /\ (e.use => use[r])
    BY EnsuredEffect DEF RetrieverInv
  <1>2. RetrieverTypes'
    BY <1>1 DEF RetrieverInv, RetrieverTypes
  <1>3. (ServerAlone /\ DocumentsKept)'
    BY <1>1 DEF RetrieverInv, RetrieverTypes, ServerAlone, DocumentsKept
  <1> QED
    BY <1>2, <1>3 DEF RetrieverInv

\* The other calls remove documents only into `gone`.
LEMMA RemovalKeepsAll ==
    ASSUME RetrieverInv, NEW r \in Retrievers,
           (\E up \in BOOLEAN : Restart(r, up)) \/ Clear(r) \/ DeleteByFilter(r)
    PROVE  RetrieverInv'
  <1> USE DEF RetrieverInv
  <1>1. ASSUME NEW up \in BOOLEAN, Restart(r, up)
        PROVE  RetrieverInv'
    BY <1>1 DEF Restart, RetrieverTypes, ServerAlone, DocumentsKept
  <1>2. CASE Clear(r)
    <2>1. /\ server' \in [exists : BOOLEAN, docs : SUBSET Docs]
          /\ memory' = [memory EXCEPT ![r] = {}]
          /\ use' = use /\ added' = added
          /\ gone' = gone \cup memory[r] \cup (server.docs \ server'.docs)
          /\ created' \in [Retrievers -> BOOLEAN]
      BY <1>2 DEF Clear, ClearMemory, RetrieverTypes
    <2>2. RetrieverTypes' /\ ServerAlone'
      BY <2>1 DEF RetrieverTypes, ServerAlone
    <2>3. DocumentsKept'
      BY <2>1 DEF RetrieverTypes, DocumentsKept
    <2> QED
      BY <2>2, <2>3
  <1>3. CASE DeleteByFilter(r)
    <2>1. /\ server' \in [exists : BOOLEAN, docs : SUBSET Docs]
          /\ gone' = gone \cup (server.docs \ server'.docs)
          /\ UNCHANGED <<use, created, memory, added>>
      BY <1>3 DEF DeleteByFilter, RetrieverTypes
    <2> QED
      BY <2>1 DEF RetrieverTypes, ServerAlone, DocumentsKept
  <1> QED
    BY <1>1, <1>2, <1>3

\* Every retriever starts with an empty memory, on an empty server.
LEMMA RetrieverStarts == RetrieverInit => RetrieverInv
  BY DEF RetrieverInit, RetrieverInv, RetrieverTypes, ServerAlone, DocumentsKept

\* Every call keeps the invariant.
LEMMA RetrieverSteps == RetrieverInv /\ [RetrieverNext]_retriever => RetrieverInv'
  <1> SUFFICES ASSUME RetrieverInv, [RetrieverNext]_retriever
               PROVE  RetrieverInv'
    OBVIOUS
  <1>1. CASE UNCHANGED retriever
    BY <1>1 DEF retriever, RetrieverInv, RetrieverTypes, ServerAlone, DocumentsKept
  <1>2. ASSUME NEW r \in Retrievers, NEW batch \in SUBSET Docs, AddWithTexts(r, batch)
        PROVE  RetrieverInv'
    <2>1. PICK e \in Ensured(r) :
             /\ server' = [server EXCEPT !.exists = e.exists]
             /\ created' = [created EXCEPT ![r] = e.created]
             /\ use' = [use EXCEPT ![r] = e.use]
      BY <1>2 DEF AddWithTexts
    <2>2. use' = [use EXCEPT ![r] = e.use /\ TRUE]
      BY <2>1, EnsuredEffect DEF RetrieverInv
    <2> QED
      BY <1>2, <2>1, <2>2, TouchKeepsAll DEF AddWithTexts
  <1>3. ASSUME NEW r \in Retrievers, SearchQdrant(r)
        PROVE  RetrieverInv'
    <2>1. PICK e \in Ensured(r), reply \in Replies :
             /\ server' = [server EXCEPT !.exists = e.exists]
             /\ created' = [created EXCEPT ![r] = e.created]
             /\ use' = [use EXCEPT ![r] = e.use /\ e.exists /\ reply = "done"]
      BY <1>3 DEF SearchQdrant
    <2> DEFINE stays == e.exists /\ reply = "done"
    <2>2. use' = [use EXCEPT ![r] = e.use /\ stays] /\ stays \in BOOLEAN
      BY <2>1
    <2> HIDE DEF stays
    <2> QED
      BY <1>3, <2>1, <2>2, TouchKeepsAll DEF SearchQdrant
  <1> QED
    BY <1>1, <1>2, <1>3, AddKeepsAll, RemovalKeepsAll DEF RetrieverNext

\* The flags are flags and the stores hold documents, whichever calls fail.
THEOREM RetrieversConsistent == RetrieverSpec => []RetrieverInv
  BY RetrieverStarts, RetrieverSteps, PTL DEF RetrieverSpec

\* Nothing that an add has accepted is lost, and a retriever searches what it holds
\* in memory (VectorRetriever.add, its fallback and search), for any retrievers of
\* one collection.
THEOREM AddsAreKept == RetrieverSpec => []NothingLost
  <1>1. ASSUME RetrieverInv, NEW d \in added
        PROVE  d \in gone \/ d \in server.docs \/ \E r \in Retrievers : d \in Visible(r)
    <2>1. CASE \E r \in Retrievers : d \in memory[r]
      BY <1>1, <2>1 DEF RetrieverInv, ServerAlone, Visible
    <2> QED
      BY <1>1, <2>1 DEF RetrieverInv, DocumentsKept
  <1>2. RetrieverInv => NothingLost
    BY <1>1 DEF NothingLost
  <1> QED
    BY <1>2, RetrieversConsistent, PTL

-----------------------------------------------------------------------------
(* The chunker.  What is said of a text and of the chunks made of it has them *)
(* as arguments: a step leaves the text alone and has the chunks before it     *)
(* and those behind it.                                                       *)

\* Word i of text t begins at place p; none does between p and q.
Place(t, p)     == \E i \in DOMAIN t.starts : t.starts[i] = p
NoWord(t, p, q) == ~\E i \in DOMAIN t.starts : p < t.starts[i] /\ t.starts[i] < q

\* The chunk before the i-th, or the empty one the first starts from.
Before(cs, i) == IF i = 1 THEN Nothing(0) ELSE cs[i - 1]
Newest(cs)    == Before(cs, Len(cs) + 1)

\* What is at the beginning of chunk c is the end of chunk b.
Overlapping(t, b, c) ==
    c.from # c.own =>
       /\ b.from <= c.from /\ c.from < c.own /\ c.own - 1 - c.from <= Overlap
       /\ Place(t, c.from) \/ NoWord(t, c.from, c.own)

\* Chunk c continues the text behind chunk b.
Continues(t, b, c) ==
    /\ c.own = b.end /\ c.own < c.end
    /\ Place(t, c.own) /\ Place(t, c.end)
    /\ Overlapping(t, b, c)

Small(c) ==
    c.end - 1 - c.own <= ChunkSize /\ Size(c) <= ChunkSize + Overlap + 1

Bounded(t, c) == Small(c) \/ (c.from = c.own /\ NoWord(t, c.own, c.end))

Sound(t, cs) ==
    /\ cs \in Seq(Chunk)
    /\ \A i \in DOMAIN cs : Continues(t, Before(cs, i), cs[i]) /\ Bounded(t, cs[i])

\* The chunk in the making: nothing yet, or what may go behind b.
Making(t, b, c) ==
    IF IsEmpty(c) THEN c = Nothing(b.end) ELSE Continues(t, b, c) /\ Small(c)

\* The chunks end where the chunk in the making begins, and that ends where the
\* sentence, or the word of a long one, begins whose turn it is.
ChunkerInv ==
    /\ IsText(text)
    /\ turn \in DOMAIN text.heads
    /\ word \in Nat
    /\ current \in Chunk
    /\ Sound(text, chunks)
    /\ Making(text, Newest(chunks), current)
    /\ word = 0 => current.end = SentenceAt(turn)
    /\ word > 0 => /\ turn + 1 \in DOMAIN text.heads
                   /\ text.heads[turn] <= word /\ word <= text.heads[turn + 1]
                   /\ current.end = WordAt(word)

\* What a text is: its words follow each other, and so do its sentences.
LEMMA TextOrder ==
    ASSUME NEW t, IsText(t)
    PROVE  /\ DOMAIN t.starts = 1 .. Len(t.starts) /\ Len(t.starts) \in Nat \ {0}
           /\ DOMAIN t.heads = 1 .. Len(t.heads) /\ Len(t.heads) \in Nat \ {0}
           /\ \A i \in DOMAIN t.starts : t.starts[i] \in Nat /\ Place(t, t.starts[i])
           /\ \A i \in DOMAIN t.starts : i + 1 \in DOMAIN t.starts =>
                 /\ t.starts[i] + 1 < t.starts[i + 1]
                 /\ NoWord(t, t.starts[i], t.starts[i + 1])
           /\ \A s \in DOMAIN t.heads : t.heads[s] \in DOMAIN t.starts
           /\ \A s \in DOMAIN t.heads : s + 1 \in DOMAIN t.heads =>
                 /\ t.heads[s] < t.heads[s + 1]
                 /\ t.starts[t.heads[s]] + 1 < t.starts[t.heads[s + 1]]
  <1>1. /\ DOMAIN t.starts = 1 .. Len(t.starts) /\ Len(t.starts) \in Nat \ {0}
        /\ DOMAIN t.heads = 1 .. Len(t.heads) /\ Len(t.heads) \in Nat \ {0}
        /\ \A i \in DOMAIN t.starts : t.starts[i] \in Nat
        /\ \A s \in DOMAIN t.heads : t.heads[s] \in DOMAIN t.starts
    BY DEF IsText
  <1>2. \A i, j \in DOMAIN t.starts : i < j => t.starts[i] + 1 < t.starts[j]
    BY DEF IsText
  <1>3. \A i, j \in DOMAIN t.heads : i < j => t.heads[i] < t.heads[j]
    BY DEF IsText
  <1>4. \A i \in DOMAIN t.starts : Place(t, t.starts[i])
    BY DEF Place
  <1>5. ASSUME NEW i \in DOMAIN t.starts, i + 1 \in DOMAIN t.starts
        PROVE  /\ t.starts[i] + 1 < t.starts[i + 1]
               /\ NoWord(t, t.starts[i], t.starts[i + 1])
    <2>1. t.starts[i] + 1 < t.starts[i + 1]
      BY <1>1, <1>2, <1>5
    <2>2. ASSUME NEW j \in DOMAIN t.starts, t.starts[i] < t.starts[j], t.starts[j] < t.starts[i + 1]
          PROVE  FALSE
      <3>1. t.starts[j] \in Nat /\ t.starts[i] \in Nat /\ t.starts[i + 1] \in Nat
        BY <1>1, <1>5
      <3>2. i \in Nat /\ j \in Nat
        BY <1>1
      <3>3. ~(j < i)
        BY <1>2, <2>2, <3>1
      <3>4. ~(i + 1 < j)
        BY <1>2, <1>5, <2>2, <3>1
      <3>5. j = i \/ j = i + 1
        BY <3>2, <3>3, <3>4
      <3> QED
        BY <2>2, <3>1, <3>5
    <2> QED
      BY <2>1, <2>2 DEF NoWord
  <1>6. ASSUME NEW s \in DOMAIN t.heads, s + 1 \in DOMAIN t.heads
        PROVE  /\ t.heads[s] < t.heads[s + 1]
               /\ t.starts[t.heads[s]] + 1 < t.starts[t.heads[s + 1]]
    <2>1. t.heads[s] < t.heads[s + 1]
      BY <1>1, <1>3, <1>6
    <2> QED
      BY <1>1, <1>2, <1>6, <2>1
  <1> QED
    BY <1>1, <1>4, <1>5, <1>6

\* The latest of sound chunks is one.
LEMMA NewestIsChunk ==
    ASSUME NEW cs \in Seq(Chunk)
    PROVE  Newest(cs) \in Chunk
  <1>1. CASE cs = <<>>
    BY <1>1 DEF Newest, Before, Nothing, Chunk
  <1>2. CASE cs # <<>>
    <2>1. Len(cs) \in 1 .. Len(cs) /\ cs[Len(cs)] \in Chunk /\ Len(cs) \in Nat
      BY <1>2
    <2>2. Newest(cs) = cs[Len(cs)]
      BY <2>1 DEF Newest, Before
    <2> QED
      BY <2>1, <2>2
  <1> QED
    BY <1>1, <1>2

\* Sound chunks stay sound when one that continues them is put behind.
LEMMA OneMore ==
    ASSUME NEW t, NEW cs, Sound(t, cs), NEW c \in Chunk,
           Continues(t, Newest(cs), c), Bounded(t, c)
    PROVE  Sound(t, Append(cs, c)) /\ Newest(Append(cs, c)) = c
  <1> DEFINE more == Append(cs, c)
  <1>1. cs \in Seq(Chunk) /\ Len(cs) \in Nat /\ DOMAIN cs = 1 .. Len(cs)
    BY DEF Sound
  <1>2. /\ more \in Seq(Chunk) /\ Len(more) = Len(cs) + 1 /\ DOMAIN more = 1 .. Len(cs) + 1
        /\ \A i \in 1 .. Len(cs) : more[i] = cs[i]
        /\ more[Len(cs) + 1] = c
    BY <1>1
  <1> HIDE DEF more
  <1>3. \A i \in 1 .. Len(cs) + 1 : Before(more, i) = Before(cs, i)
    BY <1>1, <1>2 DEF Before
  <1>4. ASSUME NEW i \in DOMAIN more
        PROVE  Continues(t, Before(more, i), more[i]) /\ Bounded(t, more[i])
    <2>1. CASE i = Len(cs) + 1
      BY <1>1, <1>2, <1>3, <2>1 DEF Newest
    <2>2. CASE i # Len(cs) + 1
      BY <1>1, <1>2, <1>3, <2>2 DEF Sound
    <2> QED
      BY <2>1, <2>2
  <1>5. Newest(more) = c
    BY <1>1, <1>2 DEF Newest, Before
  <1> QED
    BY <1>2, <1>4, <1>5 DEF Sound, more

\* A flush keeps the chunks sound, and they end where the one in the making did.
LEMMA FlushEffect ==
    ASSUME ChunkerInv
    PROVE  /\ Sound(text, Flushed) /\ Newest(Flushed).end = current.end
           /\ ~IsEmpty(current) => Newest(Flushed) = current
  <1>1. CASE IsEmpty(current)
    BY <1>1 DEF ChunkerInv, Making, Flushed, Nothing
  <1>2. CASE ~IsEmpty(current)
    <2>1. Continues(text, Newest(chunks), current) /\ Bounded(text, current)
      BY <1>2 DEF ChunkerInv, Making, Bounded
    <2> QED
      BY <1>2, <2>1, OneMore DEF ChunkerInv, Flushed
  <1> QED
    BY <1>1, <1>2

\* A set of natural numbers has a least one.
LEMMA LeastNatural ==
    ASSUME NEW T \in SUBSET Nat, T # {}
    PROVE  \E x \in T : \A y \in T : x <= y
  <1> DEFINE Below == {1 .. x : x \in T}
  <1>1. Below \subseteq FiniteSubsetsOf(Nat) /\ Below # {}
    <2>1. ASSUME NEW x \in T PROVE 1 .. x \in SUBSET Nat /\ IsFiniteSet(1 .. x)
      BY FS_Interval
    <2> QED
      BY <2>1 DEF FiniteSubsetsOf
  <1>2. \E b \in Below : \A a \in Below : ~ (<<a, b>> \in StrictSubsetOrdering(Nat))
    <2>1. IsWellFoundedOn(StrictSubsetOrdering(Nat), FiniteSubsetsOf(Nat))
      BY FS_StrictSubsetOrderingWellFounded
    <2> HIDE DEF Below
    <2> QED
      BY <1>1, <2>1, WFMin
  <1>3. PICK x \in T : \A y \in T : ~ (<<1 .. y, 1 .. x>> \in StrictSubsetOrdering(Nat))
    BY <1>2
  <1>4. ASSUME NEW y \in T, y < x PROVE FALSE
    <2>1. 1 .. y \subseteq 1 .. x /\ x \in 1 .. x /\ x \notin 1 .. y
      BY <1>4
    <2>2. 1 .. y \in SUBSET Nat /\ 1 .. x \in SUBSET Nat
      OBVIOUS
    <2>3. <<1 .. y, 1 .. x>> \in StrictSubsetOrdering(Nat)
      BY <2>1, <2>2 DEF StrictSubsetOrdering
    <2> QED
      BY <1>3, <2>3
  <1> QED
    BY <1>4

\* What is carried over from a chunk, if anything, is its end, within the overlap
\* and from the beginning of a word, or part of one.
LEMMA CarriedEffect ==
    ASSUME IsText(text), NEW c \in Chunk, c.from < c.end
    PROVE  /\ Carried(c) \in Nat /\ c.from <= Carried(c) /\ Carried(c) <= c.end
           /\ Carried(c) # c.end =>
                 /\ c.end - 1 - Carried(c) <= Overlap
                 /\ Place(text, Carried(c)) \/ NoWord(text, Carried(c), c.end)
  <1> DEFINE p == IF Size(c) > Overlap THEN c.end - 1 - Overlap ELSE c.from
             begins == Behind(c, p)
             first == CHOOSE i \in begins : \A j \in begins : i <= j
  <1>1. /\ c.from \in Nat /\ c.end \in Nat
        /\ Overlap \in Nat
        /\ Size(c) = c.end - 1 - c.from
    BY SizeAssumption DEF Chunk, Size
  <1>2. /\ p \in Nat /\ c.from <= p /\ p < c.end /\ c.end - 1 - p <= Overlap
    BY <1>1
  <1>3. Carried(c) = IF Overlap = 0 THEN c.end ELSE IF begins = {} THEN p ELSE WordAt(first)
    BY DEF Carried
  <1>4. begins = {i \in DOMAIN text.starts : p < WordAt(i) /\ WordAt(i) < c.end}
    BY DEF Behind
  <1>5. /\ DOMAIN text.starts \subseteq Nat
        /\ \A i \in DOMAIN text.starts : WordAt(i) \in Nat /\ Place(text, WordAt(i))
    BY TextOrder DEF WordAt
  <1> HIDE DEF p, begins
  <1>6. CASE Overlap = 0
    BY <1>1, <1>3, <1>6
  <1>7. CASE Overlap # 0 /\ begins = {}
    <2>1. NoWord(text, p, c.end)
      BY <1>4, <1>7 DEF NoWord, WordAt
    <2> QED
      BY <1>1, <1>2, <1>3, <1>7, <2>1
  <1>8. CASE Overlap # 0 /\ begins # {}
    <2>1. begins \in SUBSET Nat
      BY <1>4, <1>5
    <2>2. first \in begins
      <3>1. \E i \in begins : \A j \in begins : i <= j
        BY <1>8, <2>1, LeastNatural
      <3> QED
        BY <3>1
    <2> HIDE DEF first
    <2>3. /\ WordAt(first) \in Nat /\ Place(text, WordAt(first))
          /\ p < WordAt(first) /\ WordAt(first) < c.end
      BY <1>4, <1>5, <2>2
    <2> QED
      BY <1>1, <1>2, <1>3, <1>8, <2>3
  <1> QED
    BY <1>6, <1>7, <1>8

\* The words and sentences whose turn it may be are words and sentences of the text.
LEMMA TurnOrder ==
    ASSUME ChunkerInv
    PROVE  /\ turn \in Nat \ {0} /\ word \in Nat /\ ChunkSize \in Nat /\ Overlap \in Nat
           /\ current.from \in Nat /\ current.own \in Nat /\ current.end \in Nat
           /\ SentenceAt(turn) \in Nat /\ Place(text, SentenceAt(turn))
           /\ InSentences =>
                 /\ turn + 1 \in DOMAIN text.heads
                 /\ text.heads[turn] \in Nat \ {0} /\ text.heads[turn] < text.heads[turn + 1]
                 /\ SentenceAt(turn + 1) \in Nat /\ Place(text, SentenceAt(turn + 1))
                 /\ SentenceAt(turn) + 1 < SentenceAt(turn + 1)
           /\ InWords =>
                 /\ word + 1 <= text.heads[turn + 1]
                 /\ WordAt(word) \in Nat /\ Place(text, WordAt(word))
                 /\ WordAt(word + 1) \in Nat /\ Place(text, WordAt(word + 1))
                 /\ WordAt(word) + 1 < WordAt(word + 1)
                 /\ NoWord(text, WordAt(word), WordAt(word + 1))
  <1>1. IsText(text) /\ turn \in DOMAIN text.heads /\ word \in Nat
    BY DEF ChunkerInv
  <1>2. /\ turn \in Nat \ {0} /\ ChunkSize \in Nat /\ Overlap \in Nat
        /\ current.from \in Nat /\ current.own \in Nat /\ current.end \in Nat
    BY <1>1, TextOrder, SizeAssumption DEF ChunkerInv, Chunk
  <1>3. SentenceAt(turn) \in Nat /\ Place(text, SentenceAt(turn))
    BY <1>1, TextOrder DEF SentenceAt
  <1>4. ASSUME InSentences
        PROVE  /\ turn + 1 \in DOMAIN text.heads
               /\ text.heads[turn] \in Nat \ {0} /\ text.heads[turn] < text.heads[turn + 1]
               /\ SentenceAt(turn + 1) \in Nat /\ Place(text, SentenceAt(turn + 1))
               /\ SentenceAt(turn) + 1 < SentenceAt(turn + 1)
    <2>1. turn + 1 \in DOMAIN text.heads
      BY <1>1, <1>2, <1>4, TextOrder DEF InSentences
    <2>2. text.heads[turn] \in DOMAIN text.starts /\ text.heads[turn + 1] \in DOMAIN text.starts
      BY <1>1, <2>1, TextOrder
    <2>3. /\ text.heads[turn] < text.heads[turn + 1]
          /\ SentenceAt(turn) + 1 < SentenceAt(turn + 1)
      BY <1>1, <2>1, TextOrder DEF SentenceAt
    <2>4. text.heads[turn] \in Nat \ {0}
      BY <1>1, <2>2, TextOrder
    <2>5. SentenceAt(turn + 1) \in Nat /\ Place(text, SentenceAt(turn + 1))
      BY <1>1, <2>2, TextOrder DEF SentenceAt
    <2> QED
      BY <2>1, <2>3, <2>4, <2>5
  <1>5. ASSUME InWords
        PROVE  /\ word + 1 <= text.heads[turn + 1]
               /\ WordAt(word) \in Nat /\ Place(text, WordAt(word))
               /\ WordAt(word + 1) \in Nat /\ Place(text, WordAt(word + 1))
               /\ WordAt(word) + 1 < WordAt(word + 1)
               /\ NoWord(text, WordAt(word), WordAt(word + 1))
    <2>1. /\ word > 0 /\ word < text.heads[turn + 1] /\ turn + 1 \in DOMAIN text.heads
      BY <1>5 DEF InWords, ChunkerInv
    <2>2. /\ text.heads[turn + 1] \in DOMAIN text.starts
          /\ DOMAIN text.starts = 1 .. Len(text.starts) /\ Len(text.starts) \in Nat
      BY <1>1, <2>1, TextOrder
    <2>3. /\ word \in DOMAIN text.starts /\ word + 1 \in DOMAIN text.starts
          /\ word + 1 <= text.heads[turn + 1]
      BY <1>1, <2>1, <2>2
    <2> QED
      BY <1>1, <2>3, TextOrder DEF WordAt
  <1> QED
    BY <1>1, <1>2, <1>3, <1>4, <1>5

\* A place in the text of which a chunk is made next, with nothing in the making.
LEMMA MakingNothing ==
    ASSUME NEW t, NEW b, NEW p \in Nat, b.end = p
    PROVE  Nothing(p) \in Chunk /\ Making(t, b, Nothing(p)) /\ Nothing(p).end = p
  BY DEF Nothing, Chunk, Making, IsEmpty

\* What is in the making grows by a sentence or a word that has room.
LEMMA Grows ==
    ASSUME ChunkerInv, NEW e \in Nat, current.end < e, Place(text, current.end), Place(text, e),
           Room(e)
    PROVE  LET c == Extended(current, e) IN
           c \in Chunk /\ Making(text, Newest(chunks), c) /\ c.end = e
  <1> DEFINE c == Extended(current, e)
             b == Newest(chunks)
  <1>1. c \in Chunk /\ c.from = current.from /\ c.own = current.own /\ c.end = e
    BY DEF ChunkerInv, Extended, Chunk
  <1>2. /\ e - 1 - c.from <= ChunkSize
        /\ c.from \in Nat /\ c.own \in Nat /\ current.end \in Nat /\ ChunkSize \in Nat /\ Overlap \in Nat
    BY <1>1, TurnOrder DEF Room, Size
  <1>3. CASE IsEmpty(current)
    <2>1. c.from = b.end /\ c.own = b.end /\ current.end = b.end
      BY <1>1, <1>3 DEF ChunkerInv, Making, Nothing
    <2> HIDE DEF c, b
    <2>2. Continues(text, b, c) /\ Small(c) /\ ~IsEmpty(c)
      BY <1>1, <1>2, <2>1 DEF Continues, Overlapping, Small, Size, IsEmpty
    <2> QED
      BY <1>1, <2>2 DEF Making, c, b
  <1>4. CASE ~IsEmpty(current)
    <2>1. Continues(text, b, current)
      BY <1>4 DEF ChunkerInv, Making
    <2> HIDE DEF c, b
    <2>2. Continues(text, b, c)
      BY <1>1, <1>2, <2>1 DEF Continues, Overlapping
    <2>3. c.from <= c.own /\ c.own < e
      BY <1>1, <1>2, <2>1 DEF Continues, Overlapping
    <2>4. Small(c) /\ ~IsEmpty(c)
      BY <1>1, <1>2, <2>3 DEF Small, Size, IsEmpty
    <2> QED
      BY <1>1, <2>2, <2>4 DEF Making, c, b
  <1> QED
    BY <1>3, <1>4

\* A sentence that does not fit, nor is long, is put behind what is carried over.
LEMMA NextSentenceStep ==
    ASSUME ChunkerInv, NextSentence
    PROVE  ChunkerInv'
  <1> DEFINE e == SentenceAt(turn + 1)
             c == [from |-> Carried(current), own |-> current.end, end |-> e]
  <1>1. /\ InSentences /\ ~Long /\ ~Room(e)
        /\ chunks' = Flushed /\ current' = c /\ turn' = turn + 1
        /\ text' = text /\ word' = word /\ word = 0
    BY DEF NextSentence, InSentences
  <1>2. /\ current.end = SentenceAt(turn) /\ e - 1 - current.end <= ChunkSize
        /\ current.end + 1 < e /\ e \in Nat /\ Place(text, current.end) /\ Place(text, e)
        /\ turn + 1 \in DOMAIN text.heads
    BY <1>1, TurnOrder DEF ChunkerInv, Long
  <1>3. ~IsEmpty(current)
    BY <1>1, <1>2, TurnOrder DEF Room, Size, Extended, IsEmpty, ChunkerInv, Chunk
  <1>4. Sound(text, Flushed) /\ Newest(Flushed) = current
    BY <1>3, FlushEffect
  <1>5. current.from < current.end
    <2>1. Continues(text, Newest(chunks), current)
      BY <1>3 DEF ChunkerInv, Making
    <2> QED
      BY <2>1, TurnOrder DEF Continues, Overlapping
  <1>6. /\ Carried(current) \in Nat /\ current.from <= Carried(current)
        /\ Carried(current) <= current.end
        /\ Carried(current) # current.end =>
              /\ current.end - 1 - Carried(current) <= Overlap
              /\ Place(text, Carried(current)) \/ NoWord(text, Carried(current), current.end)
    BY <1>5, CarriedEffect DEF ChunkerInv
  <1>7. c \in Chunk /\ c.from = Carried(current) /\ c.own = current.end /\ c.end = e
    BY <1>2, <1>6, TurnOrder DEF Chunk
  <1>8. Making(text, current, c)
    <2> HIDE DEF c, e
    <2>1. Continues(text, current, c)
      BY <1>2, <1>6, <1>7, TurnOrder DEF Continues, Overlapping
    <2>2. Small(c) /\ ~IsEmpty(c)
      BY <1>2, <1>6, <1>7, TurnOrder DEF Small, Size, IsEmpty
    <2> QED
      BY <2>1, <2>2 DEF Making
  <1> HIDE DEF c
  <1>9. current'.end = SentenceAt(turn)'
    BY <1>1, <1>7 DEF SentenceAt
  <1> QED
    BY <1>1, <1>2, <1>4, <1>7, <1>8, <1>9 DEF ChunkerInv

\* A word that does not fit begins a chunk, and is a chunk if it is too long for one.
LEMMA NextWordStep ==
    ASSUME ChunkerInv, NextWord
    PROVE  ChunkerInv'
  <1> DEFINE e == WordAt(word + 1)
             alone == Extended(Nothing(WordAt(word)), e)
  <1>1. /\ InWords /\ text' = text /\ turn' = turn /\ word' = word + 1 /\ word > 0
        /\ IF Size(alone) > ChunkSize
           THEN chunks' = Append(Flushed, alone) /\ current' = Nothing(e)
           ELSE chunks' = Flushed /\ current' = alone
    BY DEF NextWord, InWords
  <1>2. /\ word + 1 <= text.heads[turn + 1] /\ word \in Nat
        /\ current.end \in Nat /\ e \in Nat /\ current.end + 1 < e
        /\ Place(text, current.end) /\ Place(text, e) /\ NoWord(text, current.end, e)
        /\ current.end = WordAt(word) /\ ChunkSize \in Nat /\ Overlap \in Nat
        /\ turn + 1 \in DOMAIN text.heads /\ text.heads[turn] <= word
        /\ text.heads[turn] \in Nat
    <2>1. text.heads[turn] \in Nat
      BY TextOrder DEF ChunkerInv
    <2> QED
      BY <1>1, <2>1, TurnOrder DEF ChunkerInv
  <1>3. Sound(text, Flushed) /\ Newest(Flushed).end = current.end
    BY FlushEffect
  <1>4. /\ alone \in Chunk /\ alone.from = current.end /\ alone.own = current.end /\ alone.end = e
    BY <1>2 DEF Extended, Nothing, Chunk
  <1>5. WordAt(word)' = e
    BY <1>1 DEF WordAt
  <1>6. text.heads[turn] <= word + 1
    BY <1>2
  <1> HIDE DEF alone, e
  <1>7. Continues(text, Newest(Flushed), alone)
    BY <1>2, <1>3, <1>4 DEF Continues, Overlapping
  <1>8. CASE Size(alone) > ChunkSize
    <2>1. Bounded(text, alone)
      BY <1>2, <1>4 DEF Bounded
    <2>2. Sound(text, chunks') /\ Newest(chunks') = alone
      BY <1>1, <1>3, <1>4, <1>7, <1>8, <2>1, OneMore
    <2>3. /\ current' \in Chunk /\ current'.end = e
          /\ Making(text, Newest(chunks'), current')
      BY <1>1, <1>2, <1>4, <1>8, <2>2, MakingNothing
    <2> QED
      BY <1>1, <1>2, <1>5, <1>6, <2>2, <2>3 DEF ChunkerInv
  <1>9. CASE ~(Size(alone) > ChunkSize)
    <2>1. Small(alone) /\ ~IsEmpty(alone)
      BY <1>2, <1>4, <1>9 DEF Small, Size, IsEmpty
    <2>2. Making(text, Newest(Flushed), alone)
      BY <1>7, <2>1 DEF Making
    <2> QED
      BY <1>1, <1>2, <1>3, <1>4, <1>5, <1>6, <1>9, <2>2 DEF ChunkerInv
  <1> QED
    BY <1>8, <1>9

\* Every turn of the loops keeps the invariant.
LEMMA ChunkerSteps == ChunkerInv /\ [ChunkerNext]_chunker => ChunkerInv'
  <1> SUFFICES ASSUME ChunkerInv, [ChunkerNext]_chunker
               PROVE  ChunkerInv'
    OBVIOUS
  <1>1. CASE UNCHANGED chunker
    BY <1>1 DEF chunker, ChunkerInv, SentenceAt, WordAt
  <1>2. CASE LongSentence
    <2>1. /\ InSentences /\ chunks' = Flushed /\ current' = Nothing(SentenceAt(turn))
          /\ word' = text.heads[turn] /\ text' = text /\ turn' = turn /\ word = 0
      BY <1>2 DEF LongSentence, InSentences
    <2>2. /\ SentenceAt(turn) \in Nat /\ text.heads[turn] \in Nat \ {0}
          /\ turn + 1 \in DOMAIN text.heads /\ text.heads[turn] < text.heads[turn + 1]
      BY <2>1, TurnOrder
    <2>3. text.heads[turn + 1] \in Nat
      BY <2>2, TextOrder DEF ChunkerInv
    <2>4. Sound(text, Flushed) /\ Newest(Flushed).end = SentenceAt(turn)
      BY <2>1, FlushEffect DEF ChunkerInv
    <2>5. /\ current' \in Chunk /\ current'.end = SentenceAt(turn)
          /\ Making(text, Newest(Flushed), current')
      BY <2>1, <2>2, <2>4, MakingNothing
    <2>6. WordAt(word)' = SentenceAt(turn)
      BY <2>1 DEF WordAt, SentenceAt
    <2>7. text.heads[turn] <= text.heads[turn + 1]
      BY <2>2, <2>3
    <2> QED
      BY <2>1, <2>2, <2>4, <2>5, <2>6, <2>7 DEF ChunkerInv
  <1>3. CASE FittingSentence
    <2> DEFINE e == SentenceAt(turn + 1)
    <2>1. /\ InSentences /\ Room(e) /\ current' = Extended(current, e) /\ turn' = turn + 1
          /\ text' = text /\ chunks' = chunks /\ word' = word /\ word = 0
      BY <1>3 DEF FittingSentence, InSentences
    <2>2. /\ e \in Nat /\ Place(text, e) /\ current.end < e /\ Place(text, current.end)
          /\ turn + 1 \in DOMAIN text.heads
      BY <2>1, TurnOrder DEF ChunkerInv
    <2>3. SentenceAt(turn)' = e
      BY <2>1 DEF SentenceAt
    <2> HIDE DEF e
    <2>4. /\ current' \in Chunk /\ current'.end = e
          /\ Making(text, Newest(chunks), current')
      BY <2>1, <2>2, Grows
    <2> QED
      BY <2>1, <2>2, <2>3, <2>4 DEF ChunkerInv
  <1>4. CASE FittingWord
    <2> DEFINE e == WordAt(word + 1)
    <2>1. /\ InWords /\ Room(e) /\ current' = Extended(current, e) /\ word' = word + 1
          /\ text' = text /\ chunks' = chunks /\ turn' = turn /\ word > 0
      BY <1>4 DEF FittingWord, InWords
    <2>2. /\ e \in Nat /\ Place(text, e) /\ current.end < e /\ Place(text, current.end)
          /\ word \in Nat /\ word + 1 <= text.heads[turn + 1]
      BY <2>1, TurnOrder DEF ChunkerInv
    <2>3. /\ turn + 1 \in DOMAIN text.heads /\ text.heads[turn] \in Nat
          /\ text.heads[turn] <= word
      BY <2>1, TextOrder DEF ChunkerInv
    <2>4. WordAt(word)' = e
      BY <2>1 DEF WordAt
    <2>5. text.heads[turn] <= word + 1
      BY <2>2, <2>3
    <2> HIDE DEF e
    <2>6. /\ current' \in Chunk /\ current'.end = e
          /\ Making(text, Newest(chunks), current')
      BY <2>1, <2>2, Grows
    <2> QED
      BY <2>1, <2>2, <2>3, <2>4, <2>5, <2>6 DEF ChunkerInv
  <1>5. CASE SentenceSplit
    <2> DEFINE e == SentenceAt(turn + 1)
    <2>1. /\ word > 0 /\ word = text.heads[turn + 1] /\ chunks' = Flushed
          /\ current' = Nothing(e) /\ word' = 0 /\ turn' = turn + 1 /\ text' = text
      BY <1>5 DEF SentenceSplit
    <2>2. turn + 1 \in DOMAIN text.heads /\ current.end = e /\ e \in Nat
      BY <2>1, TurnOrder DEF ChunkerInv, WordAt, SentenceAt
    <2>3. SentenceAt(turn)' = e
      BY <2>1 DEF SentenceAt
    <2> HIDE DEF e
    <2>4. Sound(text, Flushed) /\ Newest(Flushed).end = e
      BY <2>2, FlushEffect
    <2>5. current' \in Chunk /\ current'.end = e /\ Making(text, Newest(Flushed), current')
      BY <2>1, <2>2, <2>4, MakingNothing
    <2> QED
      BY <2>1, <2>2, <2>3, <2>4, <2>5 DEF ChunkerInv
  <1>6. CASE Remaining
    <2>1. /\ chunks' = Flushed /\ current' = Nothing(current.end)
          /\ text' = text /\ turn' = turn /\ word' = word /\ word = 0
      BY <1>6 DEF Remaining
    <2>2. Sound(text, Flushed) /\ Newest(Flushed).end = current.end
      BY FlushEffect
    <2>3. current' \in Chunk /\ current'.end = current.end /\ Making(text, Newest(Flushed), current')
      BY <2>1, <2>2, TurnOrder, MakingNothing
    <2>4. SentenceAt(turn)' = SentenceAt(turn)
      BY <2>1 DEF SentenceAt
    <2> QED
      BY <2>1, <2>2, <2>3, <2>4 DEF ChunkerInv
  <1> QED
    BY <1>1, <1>2, <1>3, <1>4, <1>5, <1>6, NextSentenceStep, NextWordStep DEF ChunkerNext

\* At first there are no chunks, and nothing is in the making.
LEMMA ChunkerStarts == ChunkerInit => ChunkerInv
  <1> SUFFICES ASSUME ChunkerInit
               PROVE  ChunkerInv
    OBVIOUS
  <1>1. /\ IsText(text) /\ turn = 1 /\ word = 0 /\ current = Nothing(0) /\ chunks = <<>>
    BY TextAssumption DEF ChunkerInit
  <1>2. turn \in DOMAIN text.heads
    BY <1>1, TextOrder
  <1>3. SentenceAt(turn) = 0
    BY <1>1 DEF SentenceAt, IsText
  <1>4. Sound(text, chunks) /\ Newest(chunks) = Nothing(0)
    BY <1>1 DEF Sound, Newest, Before
  <1>5. Making(text, Newest(chunks), current) /\ current \in Chunk /\ current.end = 0
    BY <1>1, <1>4 DEF Nothing, Making, IsEmpty, Chunk
  <1> QED
    BY <1>1, <1>2, <1>3, <1>4, <1>5 DEF ChunkerInv

\* The chunks of a text are in its order, whatever sizes of chunk and overlap.
THEOREM ChunkingInvariant == ChunkerSpec => []ChunkerInv
  BY ChunkerStarts, ChunkerSteps, PTL DEF ChunkerSpec

\* No word of a text is lost, cut or repeated but in what is carried over, and no
\* chunk outgrows the size and the overlap but for a word that does so by itself
\* (Chunker.chunk, its overlap and _split_long_sentence).
THEOREM ChunksAreSound == ChunkerSpec => []ChunksSound
  <1>1. ASSUME ChunkerInv PROVE ChunksSound
    <2>1. ASSUME NEW i \in DOMAIN chunks
          PROVE  /\ chunks[i].own = (IF i = 1 THEN 0 ELSE chunks[i - 1].end)
                 /\ chunks[i].own < chunks[i].end
                 /\ AtWord(chunks[i].own) /\ AtWord(chunks[i].end)
                 /\ chunks[i].from # chunks[i].own =>
                       /\ i > 1 /\ chunks[i - 1].from <= chunks[i].from
                       /\ chunks[i].from < chunks[i].own
                       /\ chunks[i].own - 1 - chunks[i].from <= Overlap
                       /\ AtWord(chunks[i].from) \/ ~\E j \in DOMAIN text.starts :
                              chunks[i].from < WordAt(j) /\ WordAt(j) < chunks[i].own
      <3>1. Continues(text, Before(chunks, i), chunks[i])
        BY <1>1, <2>1 DEF ChunkerInv, Sound
      <3>2. /\ i \in Nat \ {0} /\ chunks[i].from \in Nat /\ chunks[i].own \in Nat
            /\ chunks[i].end \in Nat
        <4>1. chunks \in Seq(Chunk)
          BY <1>1 DEF ChunkerInv, Sound
        <4>2. chunks[i] \in Chunk /\ i \in Nat \ {0}
          BY <2>1, <4>1
        <4> QED
          BY <4>2 DEF Chunk
      <3>3. CASE i = 1
        BY <3>1, <3>2, <3>3
           DEF Continues, Overlapping, Before, Nothing, Place, AtWord, WordAt
      <3>4. CASE i # 1
        BY <3>1, <3>2, <3>4
           DEF Continues, Overlapping, Before, Place, NoWord, AtWord, WordAt
      <3> QED
        BY <3>3, <3>4
    <2>2. ASSUME Chunked
          PROVE  text.starts[Len(text.starts)] = (IF chunks = <<>> THEN 0 ELSE chunks[Len(chunks)].end)
      <3>1. current.end = text.starts[Len(text.starts)]
        BY <1>1, <2>2 DEF Chunked, ChunkerInv, SentenceAt, IsText
      <3>2. current.end = Newest(chunks).end
        BY <1>1, <2>2 DEF Chunked, ChunkerInv, Making, Nothing
      <3>3. chunks \in Seq(Chunk)
        BY <1>1 DEF ChunkerInv, Sound
      <3>4. CASE chunks = <<>>
        BY <3>1, <3>2, <3>4 DEF Newest, Before, Nothing
      <3>5. CASE chunks # <<>>
        BY <3>1, <3>2, <3>3, <3>5 DEF Newest, Before
      <3> QED
        BY <3>4, <3>5
    <2>3. ChunksBounded
      BY <1>1 DEF ChunkerInv, Sound, Bounded, Small, ChunksBounded, OneWord, NoWord, WordAt
    <2> QED
      BY <2>1, <2>2, <2>3 DEF ChunksSound, WordsKept
  <1> QED
    BY <1>1, ChunkingInvariant, PTL

-----------------------------------------------------------------------------
(* The augmenter. *)

Passage == [doc : Nat, before : Nat, length : Nat]

\* The passages so far are of documents the loop has looked at.
AugmenterInv ==
    /\ context \in Seq(Document)
    /\ looked \in 0 .. Len(context)
    /\ total \in Nat
    /\ parts \in Seq(Passage)
    /\ \A i \in DOMAIN parts : parts[i].doc \in 1 .. looked
    /\ BudgetFilled

\* A document, or what of it there is room for, goes behind the others.
LEMMA InjectStep ==
    ASSUME AugmenterInv, InjectDocument
    PROVE  AugmenterInv'
  <1> DEFINE size == context[looked + 1].length
             n    == IF size > Budget - total THEN Budget - total ELSE size
             k    == Len(parts)
             new  == [doc |-> looked + 1, before |-> total, length |-> n]
  <1>1. /\ Budget > total /\ looked < Len(context)
        /\ parts' = Append(parts, new) /\ total' = total + n
        /\ looked' = looked + 1 /\ context' = context
    BY DEF InjectDocument, Inject, Usable
  <1>2. /\ Budget \in Nat /\ total \in Nat /\ looked \in Nat /\ Len(context) \in Nat /\ k \in Nat
        /\ looked + 1 \in 1 .. Len(context) /\ size \in Nat
    <2>1. context \in Seq(Document) /\ looked + 1 \in 1 .. Len(context) /\ looked \in Nat
      BY <1>1 DEF AugmenterInv
    <2>2. context[looked + 1] \in Document
      BY <2>1
    <2>3. size \in Nat
      BY <2>2 DEF Document
    <2> QED
      BY <2>1, <2>3, BudgetAssumption DEF AugmenterInv
  <1> HIDE DEF size
  <1>3. /\ n \in Nat /\ total + n <= Budget
        /\ n = size \/ (total + n = Budget /\ n < size)
        /\ total + n < Budget => n = size
    BY <1>1, <1>2
  <1>4. /\ new \in Passage /\ new.doc = looked + 1 /\ new.before = total /\ new.length = n
    BY <1>2, <1>3 DEF Passage
  <1> HIDE DEF n, new
  <1>5. /\ parts' \in Seq(Passage) /\ Len(parts') = k + 1 /\ DOMAIN parts' = 1 .. k + 1
        /\ DOMAIN parts = 1 .. k
        /\ \A i \in 1 .. k : parts'[i] = parts[i]
        /\ parts'[k + 1] = new
    BY <1>1, <1>4 DEF AugmenterInv
  <1>6. /\ \A i \in 1 .. k : parts[i].doc \in 1 .. looked
        /\ \A i \in 1 .. k :
              /\ parts[i].before = (IF i = 1 THEN 0 ELSE parts[i - 1].before + parts[i - 1].length)
              /\ i > 1 => parts[i - 1].doc < parts[i].doc
              /\ parts[i].length = context[parts[i].doc].length
        /\ \A d \in 1 .. looked :
              context[d].length > 0 => \E i \in 1 .. k : parts[i].doc = d
    <2>1. total < Budget /\ total # Budget
      BY <1>1, <1>2
    <2>2. \A i \in 1 .. k : parts[i].doc \in 1 .. looked
      BY <1>5 DEF AugmenterInv
    <2>3. ASSUME NEW i \in 1 .. k
          PROVE  /\ parts[i].before = (IF i = 1 THEN 0 ELSE parts[i - 1].before + parts[i - 1].length)
                 /\ i > 1 => parts[i - 1].doc < parts[i].doc
                 /\ parts[i].length = context[parts[i].doc].length
      BY <1>5, <2>1, <2>3 DEF AugmenterInv, BudgetFilled
    <2>4. \A d \in 1 .. looked :
             context[d].length > 0 => \E i \in 1 .. k : parts[i].doc = d
      BY <1>5, <2>1 DEF AugmenterInv, BudgetFilled
    <2> QED
      BY <2>2, <2>3, <2>4
  <1>7. total = (IF k = 0 THEN 0 ELSE parts[k].before + parts[k].length)
    BY <1>5 DEF AugmenterInv, BudgetFilled
  <1> HIDE DEF k
  <1>8. \A i \in DOMAIN parts' : parts'[i].doc \in 1 .. looked'
    BY <1>1, <1>2, <1>4, <1>5, <1>6
  <1>9. /\ total' <= Budget
        /\ total' = parts'[k + 1].before + parts'[k + 1].length
        /\ parts' # <<>>
    <2>1. total' <= Budget /\ total' = total + n
      BY <1>1, <1>3
    <2>2. parts'[k + 1].before = total /\ parts'[k + 1].length = n
      BY <1>4, <1>5
    <2>3. parts' # <<>>
      BY <1>2, <1>5
    <2> QED
      BY <2>1, <2>2, <2>3
  <1>10. ASSUME NEW i \in DOMAIN parts'
         PROVE  /\ parts'[i].before = (IF i = 1 THEN 0 ELSE parts'[i - 1].before + parts'[i - 1].length)
                /\ i > 1 => parts'[i - 1].doc < parts'[i].doc
                /\ \/ parts'[i].length = context'[parts'[i].doc].length
                   \/ /\ i = Len(parts') /\ total' = Budget
                      /\ parts'[i].length < context'[parts'[i].doc].length
    <2>1. CASE i = k + 1
      <3>1. /\ parts'[i].before = total /\ parts'[i].doc = looked + 1 /\ parts'[i].length = n
        BY <1>4, <1>5, <2>1
      <3>2. i > 1 => k \in 1 .. k /\ parts'[i - 1] = parts[k]
        BY <1>2, <1>5, <2>1
      <3>3. parts'[i].before = (IF i = 1 THEN 0 ELSE parts'[i - 1].before + parts'[i - 1].length)
        BY <1>2, <1>7, <2>1, <3>1, <3>2
      <3>4. i > 1 => parts'[i - 1].doc < parts'[i].doc
        BY <1>2, <1>6, <3>1, <3>2
      <3>5. context'[parts'[i].doc].length = size
        BY <1>1, <3>1 DEF size
      <3> QED
        BY <1>1, <1>3, <1>5, <2>1, <3>1, <3>3, <3>4, <3>5
    <2>2. CASE i # k + 1
      <3>1. i \in 1 .. k /\ parts'[i] = parts[i] /\ (i > 1 => parts'[i - 1] = parts[i - 1])
        BY <1>2, <1>5, <2>2
      <3> QED
        BY <1>1, <1>6, <3>1
    <2> QED
      BY <2>1, <2>2
  <1>11. ASSUME total' < Budget, NEW d \in 1 .. looked', context'[d].length > 0
         PROVE  \E i \in DOMAIN parts' : parts'[i].doc = d
    <2>1. CASE d = looked + 1
      BY <1>2, <1>4, <1>5, <2>1
    <2>2. CASE d # looked + 1
      <3>1. d \in 1 .. looked /\ context[d].length > 0
        BY <1>1, <1>2, <1>11, <2>2
      <3>2. PICK i \in 1 .. k : parts[i].doc = d
        BY <1>6, <3>1
      <3> QED
        BY <1>2, <1>5, <3>2
    <2> QED
      BY <2>1, <2>2
  <1>12. BudgetFilled'
    BY <1>5, <1>9, <1>10, <1>11 DEF BudgetFilled
  <1> QED
    BY <1>1, <1>2, <1>3, <1>5, <1>8, <1>12 DEF AugmenterInv

\* Every turn of the loop keeps the invariant.
LEMMA AugmenterSteps == AugmenterInv /\ [AugmenterNext]_augmenter => AugmenterInv'
  <1> SUFFICES ASSUME AugmenterInv, [AugmenterNext]_augmenter
               PROVE  AugmenterInv'
    OBVIOUS
  <1>1. CASE UNCHANGED augmenter
    BY <1>1 DEF augmenter, AugmenterInv, BudgetFilled
  <1>2. CASE SkipDocument
    BY <1>2 DEF SkipDocument, AugmenterInv, BudgetFilled
  <1>3. CASE OutOfBudget
    BY <1>3, BudgetAssumption DEF OutOfBudget, Usable, AugmenterInv, BudgetFilled
  <1> QED
    BY <1>1, <1>2, <1>3, InjectStep DEF AugmenterNext

\* A prompt is augmented with the documents in their order, whole, until the budget
\* is used up, for any budget and any documents (Augmenter.augment).
THEOREM BudgetIsFilled == AugmenterSpec => []BudgetFilled
  <1>1. AugmenterInit => AugmenterInv
    BY ContextAssumption, BudgetAssumption DEF AugmenterInit, AugmenterInv, BudgetFilled
  <1>2. AugmenterInv => BudgetFilled
    BY DEF AugmenterInv
  <1> QED
    BY <1>1, <1>2, AugmenterSteps, PTL DEF AugmenterSpec

=============================================================================
