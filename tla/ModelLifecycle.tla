--------------------------- MODULE ModelLifecycle ---------------------------
(***************************************************************************)
(* Training, promotion and serving of the prediction model: the Celery     *)
(* tasks of src/tasks over src/ml/training.py, ModelLifecycleService and    *)
(* PredictionService of src/api/prediction.  The state is spread over the   *)
(* MLflow server (runs, registry, stages), the database (experiments and    *)
(* model metadata), a scratch file of the workers, and what a service has   *)
(* loaded; nothing but the order of the steps keeps them together.          *)
(*                                                                         *)
(* External: somebody registers runs as versions, which no code does;       *)
(* get_latest_versions gives the last version of each stage, in any order,  *)
(* and a query without ORDER BY any row; promotion archives the version it  *)
(* replaces; any request to MLflow may fail.                                *)
(***************************************************************************)
EXTENDS Naturals, Sequences, FiniteSets, SequencesExt

CONSTANTS
    Runs,         \* MLflow runs; each belongs to one training
    Accuracy,     \* the metric of a run
    Trainers,     \* training tasks that may be in progress at once
    Loaders,      \* threads that may be in reload_model at once
    Promoters,    \* requests that may be in promote_model at once
    Nil,
    MaxBreaks     \* bound: crashes and failed commits

\* A training under way, the second half of a promotion, and a load of a model.
Training  == [run : Runs, retrain : BOOLEAN, step : {"model", "save", "log", "complete", "register"}]
Promotion == [run : Runs, step : {"transition", "commit"}]
Load      == [alias : {"Production", "latest"}, step : {"model", "processor"}]

ASSUME AccuracyAssumption == Accuracy \in [Runs -> Nat]
ASSUME NilAssumption      == Nil \notin Runs \cup Training \cup Promotion \cup Load
ASSUME BreakAssumption    == MaxBreaks \in Nat

VARIABLES
    logged,       \* runs whose model is logged
    artifact,     \* per run, whose feature processor was logged with it
    file,         \* tmp/feature_processor.pkl: the run whose processor it holds
    experiment,   \* status of a run's Experiment row, or Nil
    metadata,     \* ModelMetadata rows: [run, by]
    task,         \* per trainer: a Training or Nil
    versions,     \* the registry: registered runs, oldest first
    stage,        \* the stage of a registered run
    promote,      \* per promoter: a Promotion or Nil
    service,      \* PredictionService.model and feature_processor
    loading,      \* per loader: a Load or Nil
    log,          \* PredictionLog, of predictions made without a processor: whether
                  \* each met a load in progress
    breaks

train     == <<logged, artifact, file, experiment, task>>
serving   == <<service, loading, log>>
lifecycle == <<train, metadata, versions, stage, promote, serving, breaks>>

LifecycleInit ==
    /\ logged = {}
    /\ artifact = [r \in Runs |-> Nil]
    /\ file = Nil
    /\ experiment = [r \in Runs |-> Nil]
    /\ metadata = {}
    /\ task = [t \in Trainers |-> Nil]
    /\ versions = <<>>
    /\ stage = [r \in Runs |-> "None"]
    /\ promote = [p \in Promoters |-> Nil]
    /\ service = [model |-> Nil, processor |-> Nil]
    /\ loading = [l \in Loaders |-> Nil]
    /\ log = {}
    /\ breaks = 0

-----------------------------------------------------------------------------
(* Training: only a retraining has the step "complete".                      *)

At(t, step) == task[t] # Nil /\ task[t].step = step
GoesTo(t, step) == task' = [task EXCEPT ![t].step = step]
Others == <<versions, stage, promote, serving>>

\* train_task, or retrain_model_task, which commits an experiment first.
Start(t, r, retrain) ==
    /\ task[t] = Nil
    /\ r \notin logged /\ \A u \in Trainers : task[u] # Nil => task[u].run # r
    /\ experiment[r] = Nil
    /\ task' = [task EXCEPT ![t] = [run |-> r, step |-> "model", retrain |-> retrain]]
    /\ experiment' = IF retrain THEN [experiment EXCEPT ![r] = "running"] ELSE experiment
    /\ UNCHANGED <<logged, artifact, file, metadata, breaks, Others>>

LogModel(t) ==
    /\ At(t, "model")
    /\ logged' = logged \cup {task[t].run}
    /\ GoesTo(t, "save")
    /\ UNCHANGED <<artifact, file, experiment, metadata, breaks, Others>>

\* One path for every training.
SaveProcessor(t) ==
    /\ At(t, "save")
    /\ file' = task[t].run
    /\ GoesTo(t, "log")
    /\ UNCHANGED <<logged, artifact, experiment, metadata, breaks, Others>>

LogProcessor(t) ==
    /\ At(t, "log")
    /\ artifact' = [artifact EXCEPT ![task[t].run] = file]
    /\ GoesTo(t, IF task[t].retrain THEN "complete" ELSE "register")
    /\ UNCHANGED <<logged, file, experiment, metadata, breaks, Others>>

Complete(t) ==
    /\ At(t, "complete")
    /\ experiment' = [experiment EXCEPT ![task[t].run] = "completed"]
    /\ GoesTo(t, "register")
    /\ UNCHANGED <<logged, artifact, file, metadata, breaks, Others>>

\* Mutant: the row is added as soon as there is a run.
RegisterEarly(t) ==
    /\ task[t] # Nil
    /\ metadata' = metadata \cup {[run |-> task[t].run, by |-> "training"]}
    /\ task' = [task EXCEPT ![t] = IF task[t].step = "register" THEN Nil ELSE @]
    /\ UNCHANGED <<logged, artifact, file, experiment, breaks, Others>>

\* The ModelMetadata row, in a commit of its own, is the last thing a task does.
Register(t) ==
    /\ At(t, "register")
    /\ metadata' = metadata \cup {[run |-> task[t].run, by |-> "training"]}
    /\ task' = [task EXCEPT ![t] = Nil]
    /\ UNCHANGED <<logged, artifact, file, experiment, breaks, Others>>

\* The data cannot be read, or MLflow refuses: a retraining marks its experiment.
Raise(t) ==
    /\ task[t] # Nil
    /\ task[t].step \in {"model", "save", "log"}
    /\ experiment' = IF task[t].retrain THEN [experiment EXCEPT ![task[t].run] = "failed"] ELSE experiment
    /\ task' = [task EXCEPT ![t] = Nil]
    /\ UNCHANGED <<logged, artifact, file, metadata, breaks, Others>>

\* The worker dies, or a commit is refused: the handler's own commit is then
\* refused too, and the experiment stays as it is.
Break(t) ==
    /\ breaks < MaxBreaks
    /\ task[t] # Nil
    /\ task' = [task EXCEPT ![t] = Nil]
    /\ breaks' = breaks + 1
    /\ UNCHANGED <<logged, artifact, file, experiment, metadata, Others>>

Trains(t) ==
    \/ \E r \in Runs, retrain \in BOOLEAN : Start(t, r, retrain)
    \/ LogModel(t) \/ SaveProcessor(t) \/ LogProcessor(t) \/ Complete(t) \/ Register(t) \/ Raise(t) \/ Break(t)

-----------------------------------------------------------------------------
(* The registry and promotion. *)

\* External: a run is registered as the newest version.
RegisterVersion(r) ==
    /\ r \in logged
    /\ ~Contains(versions, r)
    /\ versions' = Append(versions, r)
    /\ UNCHANGED <<train, metadata, stage, promote, serving, breaks>>

Registered == ToSet(versions)
Production == {r \in Registered : stage[r] = "Production"}

\* get_latest_versions: of each stage the last.
Latest == {r \in Registered : r = Last(SelectSeq(versions, LAMBDA v : stage[v] = stage[r]))}

\* The metadata row compared with: whichever the query gives first.  Refused
\* requests change nothing.
PromoteReads(p, r) ==
    /\ promote[p] = Nil
    /\ \/ metadata = {}
       \/ \E current \in metadata : Accuracy[r] > Accuracy[current.run]
    /\ r \in Latest
    /\ promote' = [promote EXCEPT ![p] = [run |-> r, step |-> "transition"]]
    /\ UNCHANGED <<train, metadata, versions, stage, serving, breaks>>

PromoteTransitions(p) ==
    /\ promote[p] # Nil
    /\ promote[p].step = "transition"
    /\ stage' = [r \in Runs |-> IF r = promote[p].run THEN "Production"
                                ELSE IF stage[r] = "Production" THEN "Archived" ELSE stage[r]]
    /\ promote' = [promote EXCEPT ![p].step = "commit"]
    /\ UNCHANGED <<train, metadata, versions, serving, breaks>>

\* Mutant: a row of another version will do.
PromoteCommitsSome(p) ==
    /\ promote[p] # Nil
    /\ promote[p].step = "commit"
    /\ metadata' = IF metadata # {} THEN metadata ELSE {[run |-> promote[p].run, by |-> "promotion"]}
    /\ promote' = [promote EXCEPT ![p] = Nil]
    /\ UNCHANGED <<train, versions, stage, serving, breaks>>

\* A row for the version, unless it has one.
PromoteCommits(p) ==
    /\ promote[p] # Nil
    /\ promote[p].step = "commit"
    /\ metadata' = IF \E m \in metadata : m.run = promote[p].run THEN metadata
                   ELSE metadata \cup {[run |-> promote[p].run, by |-> "promotion"]}
    /\ promote' = [promote EXCEPT ![p] = Nil]
    /\ UNCHANGED <<train, versions, stage, serving, breaks>>

\* MLflow refuses the transition, or the database the commit, which is rolled
\* back: the stage stays where it is.
PromoteFails(p) ==
    /\ promote[p] # Nil
    /\ breaks < MaxBreaks
    /\ promote' = [promote EXCEPT ![p] = Nil]
    /\ breaks' = breaks + 1
    /\ UNCHANGED <<train, metadata, versions, stage, serving>>

Promoting(p) ==
    (\E r \in Runs : PromoteReads(p, r)) \/ PromoteTransitions(p) \/ PromoteCommits(p) \/ PromoteFails(p)

-----------------------------------------------------------------------------
(* Serving. *)

\* The model that `models:/<name>/<alias>` names, if any.
Named(alias) == IF alias = "Production" THEN Production ELSE IF versions = <<>> THEN {} ELSE {Last(versions)}

Reload(l) ==
    /\ loading[l] = Nil
    /\ loading' = [loading EXCEPT ![l] = [alias |-> "Production", step |-> "model"]]
    /\ UNCHANGED <<train, metadata, versions, stage, promote, service, log, breaks>>

\* The next step of a load that has failed: `latest` after Production, and after
\* that nothing is left loaded.
GiveUp(l) ==
    IF loading[l].alias = "Production"
    THEN /\ loading' = [loading EXCEPT ![l] = [alias |-> "latest", step |-> "model"]]
         /\ service' = service
    ELSE /\ loading' = [loading EXCEPT ![l] = Nil]
         /\ service' = [model |-> Nil, processor |-> Nil]

LoadModel(l) ==
    /\ loading[l] # Nil
    /\ loading[l].step = "model"
    /\ \/ /\ \E r \in Named(loading[l].alias) : service' = [service EXCEPT !.model = r]
          /\ loading' = [loading EXCEPT ![l].step = "processor"]
       \/ GiveUp(l)
    /\ UNCHANGED <<train, metadata, versions, stage, promote, log, breaks>>

\* Mutant: the model is served without one.
LoadProcessorOrNot(l) ==
    /\ loading[l] # Nil
    /\ loading[l].step = "processor"
    /\ \/ \E r \in Latest : artifact[r] # Nil /\ service' = [service EXCEPT !.processor = artifact[r]]
       \/ service' = service
    /\ loading' = [loading EXCEPT ![l] = Nil]
    /\ UNCHANGED <<train, metadata, versions, stage, promote, log, breaks>>

\* The processor of the version that get_latest_versions puts first; without one
\* the load has failed.
LoadProcessor(l) ==
    /\ loading[l] # Nil
    /\ loading[l].step = "processor"
    /\ \/ /\ \E r \in Latest : artifact[r] # Nil /\ service' = [service EXCEPT !.processor = artifact[r]]
          /\ loading' = [loading EXCEPT ![l] = Nil]
       \/ GiveUp(l)
    /\ UNCHANGED <<train, metadata, versions, stage, promote, log, breaks>>

Loading == \E l \in Loaders : loading[l] # Nil

\* Without a processor the features go to the model as they are.  The log's commit
\* may fail; the prediction is answered all the same.
Predict ==
    /\ service.model # Nil
    /\ log' = IF service.processor = Nil THEN log \cup {Loading} ELSE log
    /\ UNCHANGED <<train, metadata, versions, stage, promote, service, loading, breaks>>

Serving(l) == Reload(l) \/ LoadModel(l) \/ LoadProcessor(l)

LifecycleNext ==
    \/ \E t \in Trainers : Trains(t)
    \/ \E r \in Runs : RegisterVersion(r)
    \/ \E p \in Promoters : Promoting(p)
    \/ \E l \in Loaders : Serving(l)
    \/ Predict

LifecycleSpec == LifecycleInit /\ [][LifecycleNext]_lifecycle

-----------------------------------------------------------------------------
\* A run that a training has registered was finished - model and processor are
\* with MLflow - and its experiment, if it has one, is completed: none is marked
\* as failed once it is offered for promotion.
RegisteredIsFinished ==
    \A m \in metadata :
       m.by = "training" =>
          m.run \in logged /\ artifact[m.run] # Nil /\ experiment[m.run] \in {"completed", Nil}

\* MLflow and the database agree: a version that has been in production has its
\* row, or its promotion is about to commit it, or a fault came between for each
\* version that has none.
PromotedIsRecorded ==
    Cardinality({r \in Runs : /\ stage[r] # "None"
                              /\ ~\E m \in metadata : m.run = r
                              /\ ~\E p \in Promoters : promote[p] # Nil /\ promote[p].run = r}) <= breaks

\* No prediction is made by a model that has no processor, but for one that meets
\* a reload half way; overlapping reloads, each of which may fail at either of its
\* steps, leave a model with a processor or no model.
ServedBound == log \subseteq {TRUE}

\* lifecycle_service.py: "Promotes a model version to 'Production' if its metrics
\* are superior to the current production model."
PromotionImproves ==
    [][\A old \in Production, new \in Runs :
          (new # old /\ stage[new] # "Production" /\ stage'[new] = "Production") => Accuracy[new] > Accuracy[old]]_lifecycle

=============================================================================
