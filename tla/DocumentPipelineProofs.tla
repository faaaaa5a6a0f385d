------------------------ MODULE DocumentPipelineProofs ------------------------
(***************************************************************************)
(* Proofs about DocumentPipeline, for every set of documents, tasks,       *)
(* workers, cleaners and assets and every attempt budget, whether the      *)
(* document lock excludes or not, whichever index store there is, wherever *)
(* documents are moved and whatever publish commits meet: the composition  *)
(* uses ingestion_tasks as IngestionQueue says; only a publish commit      *)
(* takes a deletion back; and of the documents no commit has met the       *)
(* deleted ones have no rows and the completed ones have their content.    *)
(***************************************************************************)
EXTENDS DocumentPipeline, IngestionQueueProofs

------------------------------------------------------------------------------
(* Every step of the pipeline is a step of the queue or leaves it alone.    *)

LEMMA ApiIsQueueStep ==
  ASSUME NEW d \in Doc, ApiStep(d)
  PROVE  [QueueNext]_queueVars
  <1>1. CASE CompleteUpload(d)
    <2>1. UNCHANGED lease /\ ((\E t \in IngestTask : Insert(t)) \/ UNCHANGED rows)
      BY <1>1 DEF CompleteUpload
    <2>2. CASE \E t \in IngestTask : Insert(t)
      BY <2>1, <2>2, PipelineAssumption DEF QueueNext, Enqueue
    <2> QED BY <2>1, <2>2 DEF queueVars
  <1>2. CASE EnqueueReindex(d)
    BY <1>2 DEF EnqueueReindex, QueueNext, Enqueue
  <1>3. CASE RequestDeletion(d)
    BY <1>3 DEF RequestDeletion, QueueNext, DeleteDocument, queueVars
  <1> QED BY <1>1, <1>2, <1>3
          DEF ApiStep, BeginPut, FinishPut, RejectUpload, BeginReindex, ReindexDies, PatchDocument,
              PublishStep, PublishRow, PublishIndex, PublishVectors, DropStaleIndex, PublishDies,
              queueVars

LEMMA RunIsQueueStep ==
  ASSUME LeaseInv, NEW w \in Worker, RunStep(w)
  PROVE  [QueueNext]_queueVars
  <1>1. CASE ClaimTask(w) \/ RenewTask(w)
    BY <1>1 DEF ClaimTask, RenewTask, QueueNext, WorkerStep
  <1>2. CASE CompleteTask(w) \/ FailTask(w) \/ FindLeaseLost(w)
    BY <1>2 DEF CompleteTask, FailTask, FindLeaseLost, QueueNext, WorkerStep
  <1>3. CASE Die(w)
    <2>1. Forget(w) /\ UNCHANGED rows
      BY <1>3 DEF Die
    <2>2. CASE lease[w] = NoLease
      BY <2>1, <2>2 DEF Forget, queueVars, LeaseInv, TypeOK
    <2>3. CASE lease[w] # NoLease
      BY <2>1, <2>3 DEF Abandon, QueueNext, WorkerStep
    <2> QED BY <2>2, <2>3
  <1>4. CASE CompleteDocument(w) \/ DemoteDocument(w)
    BY <1>4 DEF CompleteDocument, DemoteDocument, queueVars
  <1>5. CASE StartProcessing(w) \/ LockDocument(w) \/ ReadDocument(w)
    BY <1>5 DEF StartProcessing, LockDocument, ReadDocument, queueVars
  <1>6. CASE PipelineStage(w)
    BY <1>6 DEF PipelineStage, CheckSideEffects, ProjectDocumentIr, RemoveStructTables,
                RebuildStructTables, ReplaceTableEvidence, SkipStructTables, StoreBodyChunks,
                MirrorAsset, StoreAssetRow, UndoAsset, HasNoAssets, ReplaceIndex, PurgeIndex, InsertIndex,
                InsertIndexFails, FinishProcessing, ProcessFails, queueVars
  <1> QED BY <1>1, <1>2, <1>3, <1>4, <1>5, <1>6 DEF RunStep, RunEnd

LEMMA NextIsQueueStep ==
  ASSUME LeaseInv, [PipelineNext]_pipelineVars
  PROVE  [QueueNext]_queueVars
  <1>1. ASSUME NEW t \in Task, TimerStep(t) PROVE [QueueNext]_queueVars
    BY <1>1 DEF TimerStep, QueueNext
  <1>2. CASE CleanerStep \/ UNCHANGED pipelineVars
    BY <1>2 DEF CleanerStep, pipelineVars, queueVars
  <1> QED BY <1>1, <1>2, ApiIsQueueStep, RunIsQueueStep DEF PipelineNext

LEMMA PipelineLeaseInv == PipelineSpec => []LeaseInv
  <1>1. PipelineInit => LeaseInv
    BY InitEstablishesLeaseInv DEF PipelineInit
  <1>2. LeaseInv /\ [PipelineNext]_pipelineVars => LeaseInv'
    BY NextIsQueueStep, NextKeepsLeaseInv
  <1> QED BY <1>1, <1>2, PTL DEF PipelineSpec

\* The document side effects around it leave the queue a queue, so the theorems
\* about QueueSpec hold of ingestion_tasks here.
THEOREM PipelineUsesTheQueue == PipelineSpec => UsesTheQueue
  <1>1. PipelineInit => QueueInit
    BY DEF PipelineInit
  <1>2. LeaseInv /\ [PipelineNext]_pipelineVars => [QueueNext]_queueVars
    BY NextIsQueueStep
  <1> QED BY <1>1, <1>2, PipelineLeaseInv, PTL DEF PipelineSpec, UsesTheQueue, QueueSpec

------------------------------------------------------------------------------
(* What any step may do to documents and stores.                            *)

AliveNext(d) == document'[d].status \notin {"deleting", "deleted"}
UnpublishedNext(d) == published'[d] = "never"

\* What the stages of runs promise of d they still promise after the step.
InForceNext(d) == AliveNext(d) /\ UnpublishedNext(d)

\* Nothing is taken back of a deletion, but by the upsert of a publish commit.
DeletionStays ==
    \A d \in Doc : ~(published'[d] # "never" /\ document'[d].status = "completed") =>
        /\ ~Alive(d) => document'[d].status \in {"deleting", "deleted"}
        /\ document[d].status = "deleted" => document'[d].status = "deleted"

\* A document once met by a publish commit has been met.
PublishedStays == \A d \in Doc : UnpublishedNext(d) => Unpublished(d)

\* The content of a document stays until it is being deleted.
ContentStays ==
    \A d \in Doc : UnpublishedNext(d) /\ Alive(d) => stored[d] \cap Content \subseteq stored'[d]

\* From then on no rows are added, and it is not moved to others.
NoNewRows ==
    \A d \in Doc : UnpublishedNext(d) /\ ~Alive(d) =>
        /\ "rows" \in stored'[d] => "rows" \in stored[d]
        /\ filed'[d] \subseteq filed[d] /\ workspace'[d] = workspace[d]

RowsGoneNext(d) == "rows" \notin stored'[d] /\ \A r \in filed'[d] : r[1] # workspace'[d]

\* Three sources of a status that promises something.
DeletedByMark ==
    \A d \in Doc : document'[d].status = "deleted" =>
        \/ document[d].status = "deleted"
        \/ \E c \in Cleaner : job[c].doc = d /\ job[c].phase = "mark"

CompletedByRun ==
    \A d \in Doc : UnpublishedNext(d) /\ document'[d].status = "completed" =>
        \/ document[d].status = "completed"
        \/ "completed" \in PatchStatus
        \/ Alive(d) /\ \E w \in Worker : run[w].doc = d /\ run[w].stage = "processed"

\* Cleanup tasks begin with a deletion, runs of them with the task.
TasksFollowDeletion ==
    /\ \A d \in Doc : cleanup'[d].status # "new" => cleanup[d].status # "new" \/ ~AliveNext(d)
    /\ \A c \in Cleaner : job'[c].doc # NoDoc =>
          job'[c].doc = job[c].doc \/ cleanup[job'[c].doc].status # "new"

MarksFollowRemoval ==
    \A c \in Cleaner : job'[c].doc # NoDoc /\ job'[c].phase = "mark" =>
        \/ job'[c].doc = job[c].doc /\ job[c].phase = "mark"
        \/ RowsGoneNext(job'[c].doc)

\* A run goes on, or reaches a stage whose predecessors have written.
StageReached(w) ==
    \/ run'[w].doc = run[w].doc /\ run'[w].stage = run[w].stage
    \/ run'[w].doc # NoDoc /\ InForceNext(run'[w].doc) => StagesHaveWritten(w)'

LEMMA StepKeepsInv ==
  ASSUME PipelineInv, LeaseInv', PipelineTypeOK', EndedRunsHoldNothing',
         DeletionStays, PublishedStays, ContentStays, NoNewRows, DeletedByMark, CompletedByRun,
         TasksFollowDeletion, MarksFollowRemoval, \A w \in Worker : StageReached(w)
  PROVE  PipelineInv'
  <1>0. /\ \A w \in Worker : run[w].doc \in Doc \cup {NoDoc} /\ run'[w].doc \in Doc \cup {NoDoc}
        /\ \A c \in Cleaner : job[c].doc \in Doc \cup {NoDoc} /\ job'[c].doc \in Doc \cup {NoDoc}
        /\ \A d \in Doc : UnpublishedNext(d) => Unpublished(d)
        /\ \A d \in Doc : InForceNext(d) => Alive(d)
        /\ NoDoc \notin Doc
    <2>1. run \in [Worker -> Run] /\ run' \in [Worker -> Run]
      BY DEF PipelineInv, PipelineTypeOK
    <2>2. job \in [Cleaner -> Clean!Job] /\ job' \in [Cleaner -> Clean!Job]
      BY DEF PipelineInv, PipelineTypeOK, Clean!TypeOK
    <2>3. \A d \in Doc : InForceNext(d) => Alive(d)
      BY DEF DeletionStays, Alive, AliveNext, UnpublishedNext, InForceNext
    <2> QED BY <2>1, <2>2, <2>3, PipelineAssumption DEF Run, Clean!Job, PublishedStays
  <1>1. CleanupMeansDeletion'
    <2>1. \A d \in Doc : UnpublishedNext(d) /\ cleanup'[d].status # "new" => ~AliveNext(d)
      BY <1>0 DEF PipelineInv, CleanupMeansDeletion, TasksFollowDeletion, InForceNext
    <2>2. ASSUME NEW c \in Cleaner, job'[c].doc # NoDoc, UnpublishedNext(job'[c].doc)
          PROVE  ~AliveNext(job'[c].doc)
      <3>1. job'[c].doc \in Doc /\ ~Alive(job'[c].doc)
        BY <1>0, <2>2 DEF PipelineInv, CleanupMeansDeletion, TasksFollowDeletion
      <3> QED BY <1>0, <2>2, <3>1 DEF InForceNext
    <2> QED BY <2>1, <2>2 DEF CleanupMeansDeletion, Alive, AliveNext, Unpublished, UnpublishedNext
  <1>2. ASSUME NEW c \in Cleaner, job[c].doc # NoDoc, job[c].phase = "mark",
               UnpublishedNext(job[c].doc)
        PROVE  job[c].doc \in Doc /\ RowsGoneNext(job[c].doc)
    <2>1. job[c].doc \in Doc /\ Unpublished(job[c].doc) /\ ~Alive(job[c].doc)
      BY <1>0, <1>2 DEF PipelineInv, CleanupMeansDeletion
    <2>2. RowsGone(job[c].doc)
      BY <1>2, <2>1 DEF PipelineInv, RowsStayGone
    <2> QED BY <1>2, <2>1, <2>2 DEF NoNewRows, RowsGone, RowsGoneNext
  <1>3. RowsStayGone'
    <2>1. ASSUME NEW c \in Cleaner, job'[c].doc # NoDoc, job'[c].phase = "mark",
                 UnpublishedNext(job'[c].doc)
          PROVE  RowsGoneNext(job'[c].doc)
      BY <1>2, <2>1 DEF MarksFollowRemoval
    <2> QED BY <2>1 DEF RowsStayGone, RowsGone, RowsGoneNext, Unpublished, UnpublishedNext
  <1>4. DeletedHasNoRows'
    <2>1. ASSUME NEW d \in Doc, UnpublishedNext(d), document'[d].status = "deleted"
          PROVE  RowsGoneNext(d)
      <3>1. CASE document[d].status = "deleted"
        <4>1. ~Alive(d) /\ RowsGone(d)
          BY <1>0, <2>1, <3>1 DEF PipelineInv, DeletedHasNoRows, Alive
        <4> QED BY <2>1, <4>1 DEF NoNewRows, RowsGone, RowsGoneNext
      <3>2. CASE \E c \in Cleaner : job[c].doc = d /\ job[c].phase = "mark"
        BY <1>0, <1>2, <2>1, <3>2
      <3> QED BY <2>1, <3>1, <3>2 DEF DeletedByMark
    <2> QED BY <2>1 DEF DeletedHasNoRows, RowsGone, RowsGoneNext, Unpublished, UnpublishedNext
  <1>5. \A w \in Worker : run'[w].doc # NoDoc /\ InForceNext(run'[w].doc) => StagesHaveWritten(w)'
    <2>1. ASSUME NEW w \in Worker, run[w].doc # NoDoc, Alive(run[w].doc), Unpublished(run[w].doc)
          PROVE  StagesHaveWritten(w)
      BY <2>1 DEF PipelineInv
    <2>2. ASSUME NEW w \in Worker, run'[w].doc # NoDoc, InForceNext(run'[w].doc)
          PROVE  StagesHaveWritten(w)'
      <3>1. CASE run'[w].doc = run[w].doc /\ run'[w].stage = run[w].stage
        <4>1. run'[w].doc \in Doc /\ Alive(run'[w].doc) /\ UnpublishedNext(run'[w].doc)
          BY <1>0, <2>2 DEF InForceNext
        <4>2. StagesHaveWritten(w)
          BY <1>0, <2>1, <2>2, <3>1, <4>1
        <4>3. stored[run[w].doc] \cap Content \subseteq stored'[run[w].doc]
          BY <3>1, <4>1 DEF ContentStays
        <4>4. {"object", "rows"} \subseteq Content
          BY DEF Content
        <4> HIDE DEF Content
        <4> QED BY <3>1, <4>2, <4>3, <4>4 DEF StagesHaveWritten
      <3> QED BY <2>2, <3>1 DEF StageReached
    <2> QED BY <2>2
  <1>6. ASSUME "completed" \notin PatchStatus, NEW d \in Doc, UnpublishedNext(d),
               document'[d].status = "completed"
        PROVE  Content \subseteq stored'[d]
    <2>1. Alive(d) /\ Unpublished(d)
      BY <1>0, <1>6 DEF InForceNext, AliveNext
    <2>2. Content \subseteq stored[d]
      <3>1. CASE document[d].status = "completed"
        BY <1>6, <2>1, <3>1 DEF PipelineInv, CompletedHasContent
      <3>2. CASE \E w \in Worker : run[w].doc = d /\ run[w].stage = "processed"
        <4>1. PICK w \in Worker : run[w].doc = d /\ run[w].stage = "processed"
          BY <3>2
        <4>2. StagesHaveWritten(w)
          BY <1>0, <2>1, <4>1 DEF PipelineInv
        <4> QED BY <4>1, <4>2 DEF StagesHaveWritten
      <3> QED BY <1>6, <3>1, <3>2 DEF CompletedByRun
    <2> QED BY <1>6, <2>1, <2>2 DEF ContentStays
  <1>7. "completed" \notin PatchStatus => CompletedHasContent'
    BY <1>6 DEF CompletedHasContent, Unpublished, UnpublishedNext
  <1> QED BY <1>1, <1>3, <1>4, <1>5, <1>7
          DEF PipelineInv, Alive, AliveNext, Unpublished, UnpublishedNext, InForceNext

------------------------------------------------------------------------------
(* The steps of workers and of the API.                                     *)

\* What a step that is no cleaner's does to documents and stores.
Effects ==
    /\ document' \in [Doc -> Clean!Document] /\ stored' \in [Doc -> SUBSET Clean!Kind]
    /\ asset_objects' \in [Doc -> SUBSET Asset] /\ filed' \in [Doc -> SUBSET Clean!FiledRow]
    /\ workspace' \in [Doc -> Workspace] /\ published' \in [Doc -> Publication]
    /\ PublishedStays /\ DeletionStays /\ ContentStays /\ NoNewRows /\ CompletedByRun
    /\ \A d \in Doc : document'[d].status = "deleted" => document[d].status = "deleted"

LEMMA NoEffects ==
  ASSUME PipelineInv, UNCHANGED <<document, storeVars, placeVars>>
  PROVE  Effects
  <1>1. UNCHANGED <<document, stored, asset_objects, filed, workspace, published>>
    BY DEF storeVars, placeVars
  <1>2. Clean!TypeOK /\ published \in [Doc -> Publication]
    BY DEF PipelineInv, PipelineTypeOK
  <1>3. PublishedStays /\ DeletionStays /\ ContentStays /\ NoNewRows /\ CompletedByRun
    BY <1>1 DEF PublishedStays, DeletionStays, ContentStays, NoNewRows, CompletedByRun, Alive,
                Unpublished, UnpublishedNext
  <1> QED BY <1>1, <1>2, <1>3 DEF Effects, Clean!TypeOK

LEMMA StatusEffects ==
  ASSUME PipelineInv, NEW d \in Doc, NEW s \in Clean!DocumentStatus \ {"deleting", "deleted"},
         SetStatus(d, s), UNCHANGED <<storeVars, published>>,
         workspace' \in [Doc -> Workspace], \A e \in Doc : e # d => workspace'[e] = workspace[e],
         s = "completed" => \/ "completed" \in PatchStatus
                            \/ \E w \in Worker : run[w].doc = d /\ run[w].stage = "processed"
  PROVE  Effects
  <1>1. /\ UNCHANGED <<stored, asset_objects, filed, published>> /\ Clean!TypeOK
        /\ published \in [Doc -> Publication]
    BY DEF storeVars, PipelineInv, PipelineTypeOK
  <1>2. /\ document' \in [Doc -> Clean!Document]
        /\ document'[d].status = s /\ Alive(d)
        /\ \A e \in Doc : e # d => document'[e] = document[e]
    BY <1>1 DEF SetStatus, Clean!TypeOK, Clean!Document, Clean!DocumentWith
  <1>3. \A e \in Doc : e # d => document'[e].status = document[e].status
    BY <1>2
  <1>4. PublishedStays /\ DeletionStays /\ ContentStays /\ NoNewRows
    BY <1>1, <1>2, <1>3 DEF PublishedStays, DeletionStays, ContentStays, NoNewRows, Alive,
                            Unpublished, UnpublishedNext
  <1>5. CompletedByRun
    BY <1>2, <1>3 DEF CompletedByRun
  <1>6. \A e \in Doc : document'[e].status = "deleted" => document[e].status = "deleted"
    BY <1>2, <1>3
  <1> QED BY <1>1, <1>2, <1>4, <1>5, <1>6 DEF Effects, Clean!TypeOK

LEMMA StoreEffects ==
  ASSUME PipelineInv, UNCHANGED <<document, placeVars>>, NEW d \in Doc,
         stored' \in [Doc -> SUBSET Clean!Kind],
         asset_objects' \in [Doc -> SUBSET Asset], filed' \in [Doc -> SUBSET Clean!FiledRow],
         \A e \in Doc : e # d => stored'[e] = stored[e] /\ filed'[e] = filed[e],
         stored[d] \cap Content \subseteq stored'[d],
         Alive(d) \/ /\ "rows" \in stored'[d] => "rows" \in stored[d]
                     /\ filed'[d] \subseteq filed[d]
  PROVE  Effects
  <1>1. /\ document \in [Doc -> Clean!Document] /\ UNCHANGED <<workspace, published>>
        /\ workspace \in [Doc -> Workspace] /\ published \in [Doc -> Publication]
    BY DEF PipelineInv, PipelineTypeOK, Clean!TypeOK, placeVars
  <1>2. PublishedStays /\ DeletionStays /\ CompletedByRun
    BY <1>1 DEF PublishedStays, DeletionStays, CompletedByRun, Alive, Unpublished, UnpublishedNext
  <1> HIDE DEF Content
  <1>3. ContentStays /\ NoNewRows
    BY <1>1 DEF ContentStays, NoNewRows
  <1> QED BY <1>1, <1>2, <1>3 DEF Effects

\* A document that is not being deleted changes its workspace.
LEMMA MoveEffects ==
  ASSUME PipelineInv, NEW d \in Doc, Alive(d), UNCHANGED <<document, storeVars, published>>,
         workspace' \in [Doc -> Workspace], \A e \in Doc : e # d => workspace'[e] = workspace[e]
  PROVE  Effects
  <1>1. /\ UNCHANGED <<stored, asset_objects, filed>> /\ Clean!TypeOK
        /\ published \in [Doc -> Publication]
    BY DEF storeVars, PipelineInv, PipelineTypeOK
  <1>2. PublishedStays /\ DeletionStays /\ ContentStays /\ NoNewRows /\ CompletedByRun
    BY <1>1 DEF PublishedStays, DeletionStays, ContentStays, NoNewRows, CompletedByRun, Alive,
                Unpublished, UnpublishedNext
  <1> QED BY <1>1, <1>2 DEF Effects, Clean!TypeOK

\* A publish commit touches one document, of which nothing is promised any more.
LEMMA PublishEffects ==
  ASSUME PipelineInv, NEW d \in Doc, NEW stage \in Publication \ {"never"}, Publish(d, stage),
         UNCHANGED <<asset_objects, filed>>,
         workspace' \in [Doc -> Workspace], \A e \in Doc : e # d => workspace'[e] = workspace[e],
         stored' \in [Doc -> SUBSET Clean!Kind], \A e \in Doc : e # d => stored'[e] = stored[e],
         \/ UNCHANGED document
         \/ document' = [document EXCEPT ![d] =
                             Clean!DocumentWith("completed", document[d].deletion_error)]
  PROVE  Effects
  <1>1. Clean!TypeOK /\ published \in [Doc -> Publication]
    BY DEF PipelineInv, PipelineTypeOK
  <1>2. /\ published' \in [Doc -> Publication] /\ published'[d] # "never"
        /\ \A e \in Doc : e # d => published'[e] = published[e]
    BY <1>1 DEF Publish
  <1>3. /\ document' \in [Doc -> Clean!Document]
        /\ \A e \in Doc : e # d => document'[e].status = document[e].status
        /\ document'[d].status \in {document[d].status, "completed"}
    BY <1>1 DEF Clean!TypeOK, Clean!Document, Clean!DocumentWith, Clean!DocumentStatus
  <1>4. PublishedStays
    BY <1>2 DEF PublishedStays, Unpublished, UnpublishedNext
  <1>5. DeletionStays
    BY <1>2, <1>3 DEF DeletionStays, Alive
  <1>6. NoNewRows /\ ContentStays
    <2> HIDE DEF Content
    <2> QED BY <1>2 DEF NoNewRows, ContentStays, UnpublishedNext
  <1>7. CompletedByRun
    BY <1>2, <1>3 DEF CompletedByRun, UnpublishedNext
  <1>8. \A e \in Doc : document'[e].status = "deleted" => document[e].status = "deleted"
    BY <1>3
  <1>9. asset_objects' \in [Doc -> SUBSET Asset] /\ filed' \in [Doc -> SUBSET Clean!FiledRow]
    BY <1>1 DEF Clean!TypeOK
  <1> QED BY <1>2, <1>3, <1>4, <1>5, <1>6, <1>7, <1>8, <1>9 DEF Effects

\* A step of one run, from one stage to another or to its end.
LEMMA WorkerKeepsInv ==
  ASSUME PipelineInv, LeaseInv', Effects, UNCHANGED <<cleanerVars, putting, reindexing>>,
         NEW w \in Worker, NEW next \in Run, run' = [run EXCEPT ![w] = next],
         \A v \in Worker : v # w => lease'[v] = lease[v],
         lease'[w] # NoLease => next.doc = DocOf[lease'[w].task],
         next.doc = NoDoc => next.stage = "idle",
         next.stage = "asset_row" => next.asset # NoAsset,
         next.stage \in {"idle", "requeued", "buried"} <=> lease'[w] = NoLease,
         \/ next.doc = run[w].doc /\ next.stage = run[w].stage
         \/ next.doc # NoDoc /\ InForceNext(next.doc) => StagesHaveWritten(w)'
  PROVE  PipelineInv'
  <1>1. UNCHANGED <<cleanup, job, putting, reindexing>>
    BY DEF cleanerVars
  <1>2. run \in [Worker -> Run] /\ PipelineTypeOK
    BY DEF PipelineInv, PipelineTypeOK
  <1>3. run' \in [Worker -> Run] /\ run'[w] = next /\ \A v \in Worker : v # w => run'[v] = run[v]
    BY <1>2
  <1>4. Clean!TypeOK'
    BY <1>1, <1>2 DEF PipelineTypeOK, Clean!TypeOK, Effects
  <1>5. \A v \in Worker : lease'[v] # NoLease => run'[v].doc = DocOf[lease'[v].task]
    BY <1>2, <1>3 DEF PipelineTypeOK
  <1>10. \A v \in Worker : /\ run'[v].doc = NoDoc => run'[v].stage = "idle"
                           /\ run'[v].stage = "asset_row" => run'[v].asset # NoAsset
    BY <1>2, <1>3 DEF PipelineTypeOK
  <1>6. PipelineTypeOK'
    BY <1>1, <1>2, <1>3, <1>4, <1>5, <1>10 DEF PipelineTypeOK, LeaseInv, NoLease, Effects
  <1>7. EndedRunsHoldNothing'
    BY <1>3 DEF PipelineInv, EndedRunsHoldNothing, NoLease
  <1>8. TasksFollowDeletion /\ MarksFollowRemoval /\ DeletedByMark
    BY <1>1 DEF TasksFollowDeletion, MarksFollowRemoval, DeletedByMark, Effects
  <1>9. \A v \in Worker : StageReached(v)
    BY <1>3 DEF StageReached
  <1> QED BY <1>6, <1>7, <1>8, <1>9, StepKeepsInv DEF Effects

\* A request or a timer: no run moves.
LEMMA RequestKeepsInv ==
  ASSUME PipelineInv, LeaseInv', Effects, UNCHANGED <<cleanerVars, run, lease>>,
         putting' \subseteq Doc, reindexing' \subseteq Doc \X Workspace
  PROVE  PipelineInv'
  <1>1. UNCHANGED <<cleanup, job>>
    BY DEF cleanerVars
  <1>2. PipelineTypeOK
    BY DEF PipelineInv
  <1>3. Clean!TypeOK'
    BY <1>1, <1>2 DEF PipelineTypeOK, Clean!TypeOK, Effects
  <1>4. PipelineTypeOK'
    BY <1>2, <1>3 DEF PipelineTypeOK, LeaseInv, NoLease, Effects
  <1>5. EndedRunsHoldNothing'
    BY DEF PipelineInv, EndedRunsHoldNothing, NoLease
  <1>6. TasksFollowDeletion /\ MarksFollowRemoval /\ DeletedByMark
    BY <1>1 DEF TasksFollowDeletion, MarksFollowRemoval, DeletedByMark, Effects
  <1>7. \A v \in Worker : StageReached(v)
    BY DEF StageReached
  <1> QED BY <1>4, <1>5, <1>6, <1>7, StepKeepsInv DEF Effects

\* What Goto and its kin make of a run: the new state of w alone.
Moved(w, stage, checked, asset) ==
    [doc |-> run[w].doc, stage |-> stage, checked |-> checked, asset |-> asset]

\* A run goes to a stage that is no end, keeping its document and its lease.
LEMMA MoveKeepsInv ==
  ASSUME PipelineInv, LeaseInv', Effects, UNCHANGED <<cleanerVars, putting, reindexing, lease>>,
         NEW w \in Worker, run[w].stage \notin {"idle", "requeued", "buried"},
         NEW stage \in Stage \ {"idle", "requeued", "buried"},
         NEW checked \in {"no", "yes"}, NEW asset \in Asset \cup {NoAsset},
         stage = "asset_row" => asset # NoAsset,
         run' = [run EXCEPT ![w] = Moved(w, stage, checked, asset)],
         \/ stage = run[w].stage
         \/ InForceNext(run[w].doc) => StagesHaveWritten(w)'
  PROVE  PipelineInv'
  <1> DEFINE next == Moved(w, stage, checked, asset)
  <1>1. run[w].doc \in Doc \cup {NoDoc} /\ PipelineTypeOK
    BY DEF PipelineInv, PipelineTypeOK, Run
  <1>2. next \in Run /\ next.doc = run[w].doc /\ next.stage = stage /\ next.asset = asset
    BY <1>1 DEF Moved, Run
  <1>3. next.doc # NoDoc
    BY <1>1, <1>2 DEF PipelineTypeOK
  <1>4. run' = [run EXCEPT ![w] = next]
    OBVIOUS
  <1> HIDE DEF next
  <1>5. lease'[w] # NoLease /\ next.doc = DocOf[lease'[w].task]
    BY <1>1, <1>2 DEF PipelineInv, PipelineTypeOK, EndedRunsHoldNothing
  <1> QED BY <1>2, <1>3, <1>4, <1>5, WorkerKeepsInv

\* What the run has written so far is still there in a document not deleted.
LEMMA StillWritten ==
  ASSUME PipelineInv, Effects, NEW w \in Worker, run[w].stage # "idle", InForceNext(run[w].doc)
  PROVE  /\ run[w].doc \in Doc /\ Alive(run[w].doc) /\ StagesHaveWritten(w)
         /\ stored[run[w].doc] \cap Content \subseteq stored'[run[w].doc]
  <1>1. run[w].doc \in Doc
    BY DEF PipelineInv, PipelineTypeOK, Run
  <1>2. Alive(run[w].doc) /\ Unpublished(run[w].doc)
    BY <1>1 DEF Effects, DeletionStays, PublishedStays, Alive, AliveNext, UnpublishedNext, InForceNext
  <1>3. StagesHaveWritten(w)
    BY <1>1, <1>2, PipelineAssumption DEF PipelineInv
  <1> QED BY <1>1, <1>2, <1>3 DEF Effects, ContentStays, InForceNext

\* A run that is under way files its rows under the workspace of its task.
LEMMA FilesUnderTask ==
  ASSUME PipelineInv, NEW w \in Worker, run[w].stage \notin {"idle", "requeued", "buried"}
  PROVE  TaskWorkspace(w) \in Workspace
  <1>1. lease[w] # NoLease
    BY DEF PipelineInv, EndedRunsHoldNothing
  <1>2. lease[w].task \in Task
    BY <1>1 DEF PipelineInv, LeaseInv, LeaseRemembersClaim
  <1> QED BY <1>2, PipelineAssumption DEF TaskWorkspace

\* A run that moves on without any effect: the next stage promises no more than
\* the present one.
LEMMA QuietMoves ==
  ASSUME PipelineInv, LeaseInv', NEW w \in Worker,
         \/ LockDocument(w) \/ CheckSideEffects(w) \/ SkipStructTables(w)
         \/ HasNoAssets(w) \/ FinishProcessing(w) \/ ProcessFails(w)
  PROVE  PipelineInv'
  <1>1. UNCHANGED <<lease, document, cleanerVars, storeVars, apiVars>>
    BY DEF LockDocument, CheckSideEffects, SkipStructTables, HasNoAssets,
           FinishProcessing, ProcessFails
  <1>2. Effects /\ UNCHANGED <<putting, reindexing>>
    BY <1>1, NoEffects DEF apiVars
  <1>3. UNCHANGED stored /\ run \in [Worker -> Run]
    BY <1>1 DEF storeVars, PipelineInv, PipelineTypeOK
  <1>4. CASE CheckSideEffects(w)
    <2>1. /\ run' = [run EXCEPT ![w] = Moved(w, run[w].stage, "yes", run[w].asset)]
          /\ run[w].stage \in CheckedStage
      BY <1>4 DEF CheckSideEffects, Moved
    <2>2. /\ run[w].stage \in Stage \ {"idle", "requeued", "buried"}
          /\ run[w].asset \in Asset \cup {NoAsset}
          /\ run[w].stage = "asset_row" => run[w].asset # NoAsset
      BY <1>3, <2>1 DEF CheckedStage, Stage, ProcessStage, Run, PipelineInv, PipelineTypeOK
    <2> QED BY <1>1, <1>2, <2>1, <2>2, MoveKeepsInv
  <1>5. ASSUME NEW stage \in Stage \ {"idle", "requeued", "buried"}, Goto(w, stage),
               run[w].stage \notin {"idle", "requeued", "buried"},
               \/ stage \in {"locked", "failing", "failing_terminal"}
               \/ stage = "body" /\ run[w].stage \in {"struct", "evidence"}
               \/ stage = "index" /\ run[w].stage = "asset"
               \/ stage = "processed" /\ run[w].stage = "finish"
        PROVE  PipelineInv'
    <2>1. run' = [run EXCEPT ![w] = Moved(w, stage, "no", NoAsset)]
      BY <1>5 DEF Goto, Moved
    <2>2. run'[w].doc = run[w].doc /\ run'[w].stage = stage
      BY <1>3, <2>1 DEF Moved
    <2>3. ASSUME InForceNext(run[w].doc) PROVE StagesHaveWritten(w)'
      <3>1. StagesHaveWritten(w)
        BY <1>2, <1>5, <2>3, StillWritten
      <3> QED BY <1>3, <1>5, <2>2, <3>1 DEF StagesHaveWritten
    <2> QED BY <1>1, <1>2, <1>5, <2>1, <2>3, MoveKeepsInv
  <1>6. CASE LockDocument(w)
    BY <1>5, <1>6 DEF LockDocument, At, Stage, ProcessStage
  <1>8. CASE SkipStructTables(w)
    BY <1>5, <1>8 DEF SkipStructTables, Stage, ProcessStage
  <1>9. CASE HasNoAssets(w)
    BY <1>5, <1>9 DEF HasNoAssets, Cleared, At, Stage, ProcessStage
  <1>10. CASE FinishProcessing(w)
    BY <1>5, <1>10 DEF FinishProcessing, Cleared, At, Stage, ProcessStage
  <1>11. CASE ProcessFails(w)
    <2>1. run[w].stage \notin {"idle", "requeued", "buried"}
      BY <1>11 DEF ProcessFails, ProcessStage
    <2>2. Goto(w, "failing") \/ Goto(w, "failing_terminal")
      BY <1>11 DEF ProcessFails
    <2> QED BY <1>5, <2>1, <2>2 DEF Stage
  <1> QED BY <1>4, <1>6, <1>8, <1>9, <1>10, <1>11

\* A stage that writes to the stores of its document, and goes on.
LEMMA WritingMove ==
  ASSUME PipelineInv, LeaseInv', NEW w \in Worker,
         UNCHANGED <<document, cleanerVars, apiVars, lease>>,
         run[w].stage \notin {"idle", "requeued", "buried"},
         NEW stage \in Stage \ {"idle", "requeued", "buried"},
         NEW asset \in Asset \cup {NoAsset}, stage = "asset_row" => asset # NoAsset,
         run' = [run EXCEPT ![w] = Moved(w, stage, "no", asset)],
         NEW now \in SUBSET Clean!Kind, NEW objects \in SUBSET Asset, NEW F \in SUBSET Clean!FiledRow,
         stored' = [stored EXCEPT ![run[w].doc] = now],
         asset_objects' = [asset_objects EXCEPT ![run[w].doc] = objects],
         filed' = [filed EXCEPT ![run[w].doc] = F],
         stored[run[w].doc] \cap Content \subseteq now,
         \/ Alive(run[w].doc)
         \/ /\ "rows" \in now => "rows" \in stored[run[w].doc]
            /\ F \subseteq filed[run[w].doc],
         \/ stage = "project" /\ "object" \in now
         \/ /\ stage \in {"failing", "struct", "evidence", "body"}
            /\ run[w].stage \in ProcessStage \ {"preflight", "locked"}
         \/ stage = "asset" /\ run[w].stage = "body" /\ "rows" \in now
         \/ stage \in {"asset_row", "index"} /\ run[w].stage \in {"asset", "asset_row"}
         \/ stage = "inserting" /\ run[w].stage = "index"
         \/ /\ stage = "finish" /\ run[w].stage \in {"index", "inserting"}
            /\ Content \subseteq {"object", "rows"} \cup now
  PROVE  PipelineInv'
  <1> DEFINE d == run[w].doc
  <1>1. d \in Doc /\ run \in [Worker -> Run] /\ Clean!TypeOK
    BY DEF PipelineInv, PipelineTypeOK, Run
  <1>2. /\ stored' \in [Doc -> SUBSET Clean!Kind] /\ stored'[d] = now
        /\ asset_objects' \in [Doc -> SUBSET Asset]
        /\ filed' \in [Doc -> SUBSET Clean!FiledRow] /\ filed'[d] = F
        /\ \A e \in Doc : e # d => stored'[e] = stored[e] /\ filed'[e] = filed[e]
    BY <1>1 DEF Clean!TypeOK
  <1>3. Effects /\ UNCHANGED <<putting, reindexing>>
    BY <1>1, <1>2, StoreEffects DEF apiVars
  <1>4. run'[w].doc = d /\ run'[w].stage = stage
    BY <1>1 DEF Moved
  <1>5. ASSUME InForceNext(d) PROVE StagesHaveWritten(w)'
    <2>1. StagesHaveWritten(w)
      BY <1>3, <1>5, StillWritten
    <2>2. {"object", "rows"} \subseteq Content
      BY DEF Content
    <2> HIDE DEF Content
    <2> QED BY <1>2, <1>4, <2>1, <2>2 DEF StagesHaveWritten, ProcessStage
  <1> QED BY <1>3, <1>5, MoveKeepsInv

LEMMA WritingStages ==
  ASSUME PipelineInv, LeaseInv', NEW w \in Worker,
         \/ ReadDocument(w) \/ ProjectDocumentIr(w) \/ RemoveStructTables(w)
         \/ RebuildStructTables(w) \/ ReplaceTableEvidence(w) \/ StoreBodyChunks(w)
         \/ MirrorAsset(w) \/ StoreAssetRow(w) \/ UndoAsset(w)
         \/ ReplaceIndex(w) \/ PurgeIndex(w) \/ InsertIndex(w) \/ InsertIndexFails(w)
  PROVE  PipelineInv'
  <1> DEFINE d == run[w].doc
  <1> DEFINE ws == TaskWorkspace(w)
  <1>1. Clean!TypeOK /\ run \in [Worker -> Run]
    BY DEF PipelineInv, PipelineTypeOK
  <1>2. run[w].stage \in {"locked", "project", "struct", "evidence", "body", "asset", "asset_row",
                          "index", "inserting"}
    BY DEF ReadDocument, ProjectDocumentIr, RemoveStructTables, RebuildStructTables,
           ReplaceTableEvidence, StoreBodyChunks, MirrorAsset, StoreAssetRow, UndoAsset,
           ReplaceIndex, PurgeIndex, InsertIndex, InsertIndexFails, Cleared, At
  <1>3. d \in Doc /\ ws \in Workspace
    BY <1>1, <1>2, FilesUnderTask DEF PipelineInv, PipelineTypeOK, Run
  <1>4. /\ stored[d] \in SUBSET Clean!Kind /\ asset_objects[d] \in SUBSET Asset
        /\ filed[d] \in SUBSET Clean!FiledRow
    BY <1>1, <1>3 DEF Clean!TypeOK
  <1>5. /\ UNCHANGED stored => stored' = [stored EXCEPT ![d] = stored[d]]
        /\ UNCHANGED asset_objects => asset_objects' = [asset_objects EXCEPT ![d] = asset_objects[d]]
        /\ UNCHANGED filed => filed' = [filed EXCEPT ![d] = filed[d]]
    BY <1>1, <1>3 DEF Clean!TypeOK
  <1>6. UNCHANGED <<document, cleanerVars, apiVars, lease>>
    BY DEF ReadDocument, ProjectDocumentIr, RemoveStructTables, RebuildStructTables,
           ReplaceTableEvidence, StoreBodyChunks, MirrorAsset, StoreAssetRow, UndoAsset,
           ReplaceIndex, PurgeIndex, InsertIndex, InsertIndexFails
  <1>7. ASSUME NEW stage, Goto(w, stage)
        PROVE  run' = [run EXCEPT ![w] = Moved(w, stage, "no", NoAsset)]
    BY <1>7 DEF Goto, Moved
  <1>8. /\ {"failing", "project", "struct", "evidence", "body", "asset", "asset_row", "index",
            "inserting", "finish"} \subseteq Stage \ {"idle", "requeued", "buried"}
        /\ run[w].stage \notin {"idle", "requeued", "buried"}
        /\ run[w].stage # "locked" => run[w].stage \in ProcessStage \ {"preflight", "locked"}
        /\ {"struct", "evidence", "rows", "index"} \subseteq Clean!Kind
    BY <1>2 DEF Stage, ProcessStage, Clean!Kind
  <1>9. ASSUME NEW assets \in SUBSET (Asset \cup {NoAsset}), File(w, assets)
        PROVE  /\ filed' = [filed EXCEPT ![d] = filed[d] \cup ({ws} \X assets)]
               /\ filed[d] \cup ({ws} \X assets) \in SUBSET Clean!FiledRow
    <2>1. {ws} \X assets \in SUBSET Clean!FiledRow
      BY <1>3 DEF Clean!FiledRow
    <2> HIDE DEF ws
    <2> QED BY <1>4, <1>9, <2>1 DEF File, ws
  <1>10. ASSUME NEW F \in SUBSET Clean!FiledRow, filed' = [filed EXCEPT ![d] = F], Alive(d),
                UNCHANGED <<stored, asset_objects>>, NEW stage, Goto(w, stage),
                \/ stage = "project" /\ "object" \in stored[d]
                \/ stage = "struct" /\ run[w].stage = "project"
                \/ stage = "index" /\ run[w].stage = "asset_row"
         PROVE  PipelineInv'
    <2>1. stage \in Stage \ {"idle", "requeued", "buried"} /\ stage # "asset_row"
      BY <1>8, <1>10
    <2>2. run' = [run EXCEPT ![w] = Moved(w, stage, "no", NoAsset)]
      BY <1>7, <1>10
    <2>3. \/ stage = "project" /\ "object" \in stored[d]
          \/ stage = "struct" /\ run[w].stage \in ProcessStage \ {"preflight", "locked"}
          \/ stage = "index" /\ run[w].stage = "asset_row"
      BY <1>8, <1>10
    <2> QED BY <1>4, <1>5, <1>6, <1>8, <1>10, <2>1, <2>2, <2>3, WritingMove
  <1>11. CASE ReadDocument(w)
    <2>1. /\ Goto(w, "project") /\ "object" \in stored[d] /\ Alive(d)
          /\ UNCHANGED <<stored, asset_objects>> /\ File(w, {NoAsset})
      BY <1>11 DEF ReadDocument, SideEffectsAllowed
    <2> QED BY <1>9, <1>10, <2>1
  <1>12. CASE ProjectDocumentIr(w)
    <2>1. /\ Goto(w, "struct") /\ Alive(d) /\ run[w].stage = "project"
          /\ UNCHANGED <<stored, asset_objects>>
          /\ filed' = [filed EXCEPT ![d] = {r \in filed[d] : r[2] = NoAsset} \cup {<<ws, NoAsset>>}]
      BY <1>12 DEF ProjectDocumentIr, Cleared, At
    <2>2. {r \in filed[d] : r[2] = NoAsset} \cup {<<ws, NoAsset>>} \in SUBSET Clean!FiledRow
      BY <1>3, <1>4 DEF Clean!FiledRow
    <2> HIDE DEF ws
    <2> QED BY <1>10, <2>1, <2>2
  <1>13. CASE StoreAssetRow(w)
    <2>1. /\ Goto(w, "index") /\ Alive(d) /\ run[w].stage = "asset_row"
          /\ UNCHANGED <<stored, asset_objects>> /\ File(w, {run[w].asset, NoAsset})
      BY <1>13 DEF StoreAssetRow, Cleared, At
    <2>2. {run[w].asset, NoAsset} \in SUBSET (Asset \cup {NoAsset})
      BY <1>1 DEF Run
    <2> QED BY <1>9, <1>10, <2>1, <2>2
  <1>14. ASSUME NEW now \in SUBSET Clean!Kind, stored' = [stored EXCEPT ![d] = now],
                UNCHANGED <<filed, asset_objects>>, stored[d] \cap Content \subseteq now,
                Alive(d) \/ ("rows" \in now => "rows" \in stored[d]),
                run[w].stage # "locked", NEW stage, Goto(w, stage),
                \/ stage \in {"failing", "evidence", "body"}
                \/ stage = "asset" /\ run[w].stage = "body" /\ "rows" \in now
                \/ stage = "inserting" /\ run[w].stage = "index"
                \/ /\ stage = "finish" /\ run[w].stage \in {"index", "inserting"}
                   /\ Content \subseteq {"object", "rows"} \cup now
         PROVE  PipelineInv'
    <2>1. stage \in Stage \ {"idle", "requeued", "buried"} /\ stage # "asset_row"
      BY <1>8, <1>14
    <2>2. run' = [run EXCEPT ![w] = Moved(w, stage, "no", NoAsset)]
      BY <1>7, <1>14
    <2>3. run[w].stage \in ProcessStage \ {"preflight", "locked"} /\ filed[d] \subseteq filed[d]
      BY <1>8, <1>14
    <2>4. \/ Alive(d)
          \/ ("rows" \in now => "rows" \in stored[d]) /\ filed[d] \subseteq filed[d]
      BY <1>14
    <2>5. \/ /\ stage \in {"failing", "struct", "evidence", "body"}
             /\ run[w].stage \in ProcessStage \ {"preflight", "locked"}
          \/ stage = "asset" /\ run[w].stage = "body" /\ "rows" \in now
          \/ stage = "inserting" /\ run[w].stage = "index"
          \/ /\ stage = "finish" /\ run[w].stage \in {"index", "inserting"}
             /\ Content \subseteq {"object", "rows"} \cup now
      BY <1>14, <2>3
    <2>6. /\ asset_objects' = [asset_objects EXCEPT ![d] = asset_objects[d]]
          /\ filed' = [filed EXCEPT ![d] = filed[d]]
          /\ stored[d] \cap Content \subseteq now
      BY <1>5, <1>14
    <2>7. /\ stage = "asset_row" => NoAsset # NoAsset
          /\ run[w].stage \notin {"idle", "requeued", "buried"}
          /\ now \in SUBSET Clean!Kind /\ stored' = [stored EXCEPT ![d] = now]
      BY <1>8, <1>14, <2>1
    <2> HIDE DEF Content
    <2> QED BY <1>4, <1>6, <2>1, <2>2, <2>4, <2>5, <2>6, <2>7, WritingMove
  <1>15. CASE RemoveStructTables(w)
    <2>1. PICK gone \in SUBSET {"struct", "evidence"} :
            /\ Goto(w, "body") /\ run[w].stage = "struct"
            /\ UNCHANGED <<filed, asset_objects>> /\ stored' = [stored EXCEPT ![d] = stored[d] \ gone]
      BY <1>15 DEF RemoveStructTables, At
    <2>2. /\ stored[d] \ gone \in SUBSET Clean!Kind
          /\ stored[d] \cap Content \subseteq stored[d] \ gone
          /\ "rows" \in stored[d] \ gone => "rows" \in stored[d]
      BY <1>4 DEF Content
    <2> QED BY <1>14, <2>1, <2>2
  <1>16. ASSUME NEW kind \in Clean!Kind, Store(d, kind), UNCHANGED <<filed, asset_objects>>,
                kind = "rows" => Alive(d), run[w].stage # "locked", NEW stage, Goto(w, stage),
                \/ stage \in {"failing", "evidence", "body"}
                \/ stage = "asset" /\ run[w].stage = "body" /\ kind = "rows"
                \/ stage = "finish" /\ run[w].stage \in {"index", "inserting"} /\ kind = "index"
         PROVE  PipelineInv'
    <2> DEFINE now == stored[d] \cup {kind}
    <2>1. stored' = [stored EXCEPT ![d] = now] /\ now \in SUBSET Clean!Kind
      BY <1>4, <1>16 DEF Store
    <2>2. /\ stored[d] \cap Content \subseteq now /\ kind \in now
          /\ Alive(d) \/ ("rows" \in now => "rows" \in stored[d])
      BY <1>16
    <2>3. kind = "index" => Content \subseteq {"object", "rows"} \cup now
      BY DEF Content
    <2> HIDE DEF now
    <2>4. \/ stage \in {"failing", "evidence", "body"}
          \/ stage = "asset" /\ run[w].stage = "body" /\ "rows" \in now
          \/ /\ stage = "finish" /\ run[w].stage \in {"index", "inserting"}
             /\ Content \subseteq {"object", "rows"} \cup now
      BY <1>16, <2>2, <2>3
    <2> HIDE DEF Content
    <2> QED BY <1>14, <1>16, <2>1, <2>2, <2>4
  <1>17. CASE RebuildStructTables(w)
    BY <1>8, <1>16, <1>17 DEF RebuildStructTables, At
  <1>18. CASE ReplaceTableEvidence(w)
    BY <1>8, <1>16, <1>18 DEF ReplaceTableEvidence, Cleared, At
  <1>19. CASE StoreBodyChunks(w)
    BY <1>8, <1>16, <1>19 DEF StoreBodyChunks, Cleared, At
  <1>20. CASE InsertIndex(w) \/ InsertIndexFails(w)
    BY <1>8, <1>16, <1>20 DEF InsertIndex, InsertIndexFails, At
  <1>21. CASE ReplaceIndex(w)
    <2>1. CASE IndexStore = "none"
      <3>1. /\ Goto(w, "finish") /\ run[w].stage = "index" /\ UNCHANGED <<filed, asset_objects>>
            /\ stored' = [stored EXCEPT ![d] = stored[d]]
        BY <1>5, <1>21, <2>1 DEF ReplaceIndex, At
      <3>2. Content \subseteq {"object", "rows"} \cup stored[d]
        BY <2>1 DEF Content
      <3> QED BY <1>4, <1>14, <3>1, <3>2
    <2>2. CASE IndexStore # "none"
      BY <1>8, <1>16, <1>21, <2>2 DEF ReplaceIndex, At
    <2> QED BY <2>1, <2>2
  <1>22. CASE PurgeIndex(w)
    <2>1. PICK gone \in SUBSET {"index"} :
            /\ Goto(w, "inserting") /\ run[w].stage = "index" /\ IndexStore = "milvus"
            /\ UNCHANGED <<filed, asset_objects>> /\ stored' = [stored EXCEPT ![d] = stored[d] \ gone]
      BY <1>22 DEF PurgeIndex, Cleared, At
    <2>2. /\ stored[d] \ gone \in SUBSET Clean!Kind
          /\ stored[d] \cap Content \subseteq stored[d] \ gone
          /\ "rows" \in stored[d] \ gone => "rows" \in stored[d]
      BY <1>4, <2>1 DEF Content
    <2> QED BY <1>14, <2>1, <2>2
  <1>23. CASE MirrorAsset(w)
    <2>1. PICK a \in NewAsset :
            /\ asset_objects' = [asset_objects EXCEPT ![d] = asset_objects[d] \cup {a}]
            /\ run' = [run EXCEPT ![w] = Moved(w, "asset_row", "no", a)]
      BY <1>23 DEF MirrorAsset, Moved
    <2>2. a \in Asset /\ a # NoAsset /\ asset_objects[d] \cup {a} \in SUBSET Asset
      BY <1>4, <2>1, PipelineAssumption DEF NewAsset
    <2>3. UNCHANGED <<stored, filed>> /\ run[w].stage = "asset"
      BY <1>23 DEF MirrorAsset, Cleared, At
    <2>4. /\ stored' = [stored EXCEPT ![d] = stored[d]] /\ filed' = [filed EXCEPT ![d] = filed[d]]
          /\ stored[d] \cap Content \subseteq stored[d]
      BY <1>5, <2>3
    <2>5. \/ Alive(d)
          \/ ("rows" \in stored[d] => "rows" \in stored[d]) /\ filed[d] \subseteq filed[d]
      OBVIOUS
    <2>6. /\ "asset_row" \in Stage \ {"idle", "requeued", "buried"}
          /\ "asset_row" \in {"asset_row", "index"} /\ run[w].stage \in {"asset", "asset_row"}
      BY <1>8, <2>3
    <2> HIDE DEF Content
    <2> QED BY <1>4, <1>6, <1>8, <2>1, <2>2, <2>4, <2>5, <2>6, WritingMove
  <1>24. CASE UndoAsset(w)
    <2>1. PICK gone \in SUBSET {run[w].asset} :
            asset_objects' = [asset_objects EXCEPT ![d] = asset_objects[d] \ gone]
      BY <1>24 DEF UndoAsset
    <2>2. PICK F \in SUBSET Clean!FiledRow :
            /\ filed' = [filed EXCEPT ![d] = F]
            /\ Alive(d) \/ F \subseteq filed[d]
      <3>1. CASE UNCHANGED filed
        BY <1>4, <1>5, <3>1
      <3>2. CASE Alive(d) /\ File(w, {run[w].asset})
        <4>1. {run[w].asset} \in SUBSET (Asset \cup {NoAsset})
          BY <1>1 DEF Run
        <4> QED BY <1>9, <3>2, <4>1
      <3> QED BY <1>24, <3>1, <3>2 DEF UndoAsset
    <2>3. /\ run' = [run EXCEPT ![w] = Moved(w, "failing", "no", NoAsset)]
          /\ UNCHANGED stored /\ asset_objects[d] \ gone \in SUBSET Asset /\ run[w].stage = "asset_row"
      BY <1>4, <1>7, <1>24 DEF UndoAsset, At
    <2>4. /\ stored' = [stored EXCEPT ![d] = stored[d]]
          /\ stored[d] \cap Content \subseteq stored[d]
      BY <1>5, <2>3
    <2>5. \/ Alive(d)
          \/ ("rows" \in stored[d] => "rows" \in stored[d]) /\ F \subseteq filed[d]
      BY <2>2
    <2>6. /\ "failing" \in Stage \ {"idle", "requeued", "buried"}
          /\ "failing" \in {"failing", "struct", "evidence", "body"}
          /\ run[w].stage \in ProcessStage \ {"preflight", "locked"}
      BY <1>8, <2>3
    <2> HIDE DEF Content
    <2> QED BY <1>4, <1>6, <1>8, <2>1, <2>2, <2>3, <2>4, <2>5, <2>6, WritingMove
  <1> QED BY <1>11, <1>12, <1>13, <1>15, <1>17, <1>18, <1>19, <1>20, <1>21, <1>22, <1>23, <1>24

\* The transitions to processing and to completed.
LEMMA TransitionsKeepInv ==
  ASSUME PipelineInv, LeaseInv', NEW w \in Worker, StartProcessing(w) \/ CompleteDocument(w)
  PROVE  PipelineInv'
  <1>1. /\ run \in [Worker -> Run] /\ workspace' \in [Doc -> Workspace]
        /\ UNCHANGED <<storeVars, cleanerVars, putting, reindexing, workspace, published, lease>>
    BY DEF PipelineInv, PipelineTypeOK, Clean!TypeOK, StartProcessing, CompleteDocument, apiVars,
           placeVars
  <1>2. run[w].stage \in {"claimed", "processed"} /\ run[w].doc \in Doc
    BY <1>1 DEF StartProcessing, CompleteDocument, At, PipelineInv, PipelineTypeOK, Run
  <1>3. ASSUME NEW stage \in {"preflight", "completed"}, Goto(w, stage), Effects
        PROVE  PipelineInv'
    <2>1. /\ run' = [run EXCEPT ![w] = Moved(w, stage, "no", NoAsset)]
          /\ stage \in Stage \ {"idle", "requeued", "buried"} /\ stage # "asset_row"
      BY <1>3 DEF Goto, Moved, Stage, ProcessStage
    <2>2. run'[w].stage = stage
      BY <1>1, <2>1 DEF Moved
    <2>3. StagesHaveWritten(w)'
      BY <1>3, <2>2 DEF StagesHaveWritten
    <2> QED BY <1>1, <1>2, <1>3, <2>1, <2>3, MoveKeepsInv
  <1>4. CASE StartProcessing(w)
    <2>1. SetStatus(run[w].doc, "processing") /\ Goto(w, "preflight")
      BY <1>4 DEF StartProcessing
    <2>2. "processing" \in Clean!DocumentStatus \ {"deleting", "deleted"}
      BY DEF Clean!DocumentStatus
    <2> QED BY <1>1, <1>2, <1>3, <2>1, <2>2, StatusEffects
  <1>5. CASE CompleteDocument(w)
    <2>1. SetStatus(run[w].doc, "completed") /\ Goto(w, "completed") /\ run[w].stage = "processed"
      BY <1>5 DEF CompleteDocument, At
    <2>2. "completed" \in Clean!DocumentStatus \ {"deleting", "deleted"}
      BY DEF Clean!DocumentStatus
    <2> QED BY <1>1, <1>2, <1>3, <2>1, <2>2, StatusEffects
  <1> QED BY <1>4, <1>5

\* A run begins with a claim and ends without its lease.
LEMMA EndsKeepInv ==
  ASSUME PipelineInv, LeaseInv', NEW w \in Worker,
         CompleteTask(w) \/ FindLeaseLost(w) \/ Die(w) \/ DemoteDocument(w)
  PROVE  PipelineInv'
  <1>1. /\ run \in [Worker -> Run] /\ lease \in [Worker -> [task : Task \cup {NoTask}, token : Token]]
        /\ UNCHANGED <<storeVars, cleanerVars, putting, reindexing, workspace, published>>
        /\ workspace' \in [Doc -> Workspace] /\ run' = [run EXCEPT ![w] = NoRun]
    BY DEF PipelineInv, PipelineTypeOK, TypeOK, Clean!TypeOK, CompleteTask, FindLeaseLost, Die,
           DemoteDocument, EndRun, apiVars, placeVars
  <1>2. NoRun \in Run /\ NoRun.doc = NoDoc /\ NoRun.stage = "idle"
    BY DEF NoRun, Run, Stage
  <1>3. lease'[w] = NoLease /\ \A v \in Worker : v # w => lease'[v] = lease[v]
    <2>1. CASE DemoteDocument(w)
      BY <2>1 DEF DemoteDocument, PipelineInv, EndedRunsHoldNothing
    <2>2. CASE CompleteTask(w) \/ FindLeaseLost(w) \/ Die(w)
      <3>1. Forget(w)
        BY <2>2 DEF CompleteTask, Complete, FindLeaseLost, LeaseLost, Die
      <3> QED BY <1>1, <3>1 DEF Forget
    <2> QED BY <2>1, <2>2
  <1>4. Effects
    <2>1. CASE DemoteDocument(w)
      <3>1. run[w].doc \in Doc
        BY <1>1, <2>1 DEF DemoteDocument, PipelineInv, PipelineTypeOK, Run
      <3>2. PICK s \in {"queued", "failed"} : SetStatus(run[w].doc, s)
        BY <2>1 DEF DemoteDocument
      <3>3. s \in Clean!DocumentStatus \ {"deleting", "deleted"} /\ s # "completed"
        BY DEF Clean!DocumentStatus
      <3> QED BY <1>1, <3>1, <3>2, <3>3, StatusEffects
    <2>2. CASE CompleteTask(w) \/ FindLeaseLost(w) \/ Die(w)
      <3>1. UNCHANGED document
        BY <2>2 DEF CompleteTask, FindLeaseLost, Die
      <3> QED BY <1>1, <3>1, NoEffects DEF placeVars
    <2> QED BY <2>1, <2>2
  <1> HIDE DEF NoRun
  <1> QED BY <1>1, <1>2, <1>3, <1>4, WorkerKeepsInv

LEMMA FailTaskKeepsInv ==
  ASSUME PipelineInv, LeaseInv', NEW w \in Worker, FailTask(w)
  PROVE  PipelineInv'
  <1>1. /\ run \in [Worker -> Run] /\ lease \in [Worker -> [task : Task \cup {NoTask}, token : Token]]
        /\ UNCHANGED <<document, storeVars, cleanerVars, placeVars, putting, reindexing>>
    BY DEF PipelineInv, PipelineTypeOK, TypeOK, FailTask, apiVars
  <1>2. PICK stage \in {"requeued", "buried"} : Goto(w, stage)
    BY DEF FailTask
  <1> DEFINE next == Moved(w, stage, "no", NoAsset)
  <1>3. run' = [run EXCEPT ![w] = next]
    BY <1>2 DEF Goto, Moved
  <1>4. run[w].doc \in Doc
    BY <1>1 DEF FailTask, At, PipelineInv, PipelineTypeOK, Run
  <1>5. next \in Run /\ next.doc = run[w].doc /\ next.stage = stage
    BY <1>4 DEF Moved, Run, Stage
  <1> HIDE DEF next
  <1>6. Forget(w)
    BY DEF FailTask, Fail, FailTerminal
  <1>7. lease'[w] = NoLease /\ \A v \in Worker : v # w => lease'[v] = lease[v]
    BY <1>1, <1>6 DEF Forget
  <1>8. StagesHaveWritten(w)'
    <2>1. run'[w].stage = stage
      BY <1>1, <1>3, <1>5
    <2> QED BY <2>1 DEF StagesHaveWritten
  <1>9. next.doc # NoDoc
    BY <1>4, <1>5, PipelineAssumption
  <1> QED BY <1>1, <1>3, <1>5, <1>7, <1>8, <1>9, NoEffects, WorkerKeepsInv

LEMMA ClaimTaskKeepsInv ==
  ASSUME PipelineInv, LeaseInv', NEW w \in Worker, ClaimTask(w)
  PROVE  PipelineInv'
  <1>1. /\ run \in [Worker -> Run]
        /\ UNCHANGED <<document, storeVars, cleanerVars, placeVars, putting, reindexing>>
        /\ lease' \in [Worker -> [task : Task \cup {NoTask}, token : Token]]
    BY DEF PipelineInv, PipelineTypeOK, LeaseInv, TypeOK, ClaimTask, apiVars
  <1>2. \A v \in Worker : v # w => lease'[v] = lease[v]
    BY DEF ClaimTask, Claim, PipelineInv, LeaseInv, TypeOK
  <1>3. lease'[w] # NoLease => lease'[w].task \in Task
    BY DEF LeaseInv, LeaseRemembersClaim, NoLease
  <1>4. PICK next : /\ run' = [run EXCEPT ![w] = next]
                    /\ next = IF lease'[w] = NoLease THEN NoRun
                              ELSE [doc |-> DocOf[lease'[w].task], stage |-> "claimed",
                                    checked |-> "no", asset |-> NoAsset]
    BY DEF ClaimTask
  <1>5. CASE lease'[w] = NoLease
    <2>1. next \in Run /\ next.doc = NoDoc /\ next.stage = "idle"
      BY <1>4, <1>5 DEF NoRun, Run, Stage
    <2> QED BY <1>1, <1>2, <1>4, <1>5, <2>1, NoEffects, WorkerKeepsInv
  <1>6. CASE lease'[w] # NoLease
    <2>1. DocOf[lease'[w].task] \in Doc
      BY <1>3, <1>6, ConstantsAssumption
    <2>2. next \in Run /\ next.doc = DocOf[lease'[w].task] /\ next.stage = "claimed"
      BY <1>4, <1>6, <2>1 DEF Run, Stage
    <2>3. next.doc # NoDoc
      BY <2>1, <2>2, PipelineAssumption
    <2>4. run'[w].stage = "claimed"
      BY <1>1, <1>4, <2>2
    <2>5. StagesHaveWritten(w)'
      BY <2>4 DEF StagesHaveWritten
    <2>6. next.stage \notin {"idle", "requeued", "buried"} /\ next.stage # "asset_row"
      BY <2>2
    <2>7. Effects
      BY <1>1, NoEffects
    <2> QED BY <1>1, <1>2, <1>4, <1>6, <2>2, <2>3, <2>5, <2>6, <2>7, WorkerKeepsInv
  <1> QED BY <1>5, <1>6

LEMMA RunStepKeepsInv ==
  ASSUME PipelineInv, LeaseInv', NEW w \in Worker, RunStep(w)
  PROVE  PipelineInv'
  <1>1. CASE RenewTask(w)
    <2>1. UNCHANGED <<document, storeVars, cleanerVars, placeVars, putting, reindexing, run, lease>>
      BY <1>1 DEF RenewTask, Renew, apiVars
    <2>2. putting' \subseteq Doc /\ reindexing' \subseteq Doc \X Workspace
      BY <2>1 DEF PipelineInv, PipelineTypeOK
    <2> QED BY <2>1, <2>2, NoEffects, RequestKeepsInv
  <1> QED BY <1>1, QuietMoves, WritingStages, TransitionsKeepInv, EndsKeepInv, FailTaskKeepsInv,
             ClaimTaskKeepsInv
          DEF RunStep, PipelineStage, RunEnd

\* The API, but for the deletion, which is a cleanup step as well.
LEMMA ApiKeepsInv ==
  ASSUME PipelineInv, LeaseInv', NEW d \in Doc, ApiStep(d), ~RequestDeletion(d)
  PROVE  PipelineInv'
  <1>1. /\ Clean!TypeOK /\ putting \subseteq Doc /\ reindexing \subseteq Doc \X Workspace
        /\ published \in [Doc -> Publication]
    BY DEF PipelineInv, PipelineTypeOK
  <1>2. putting' \subseteq Doc /\ reindexing' \subseteq Doc \X Workspace /\ UNCHANGED <<cleanerVars, run, lease>>
    <2>1. CASE PublishStep(d)
      BY <1>1, <2>1 DEF PublishStep, PublishRow, PublishIndex, PublishVectors, DropStaleIndex,
                        PublishDies
    <2>2. CASE BeginReindex(d) \/ EnqueueReindex(d) \/ ReindexDies(d)
      <3>1. /\ UNCHANGED <<putting, cleanerVars, run, lease>>
            /\ reindexing' \subseteq reindexing \cup {<<d, workspace[d]>>}
        BY <2>2 DEF BeginReindex, EnqueueReindex, ReindexDies
      <3>2. <<d, workspace[d]>> \in Doc \X Workspace
        BY <1>1 DEF Clean!TypeOK
      <3> QED BY <1>1, <3>1, <3>2
    <2> QED BY <1>1, <2>1, <2>2 DEF ApiStep, BeginPut, FinishPut, RejectUpload, CompleteUpload,
                                    PatchDocument, apiVars
  <1>3. Effects
    <2>1. CASE BeginPut(d) \/ EnqueueReindex(d) \/ ReindexDies(d)
      BY <2>1, NoEffects DEF BeginPut, EnqueueReindex, ReindexDies
    <2>2. CASE FinishPut(d)
      <3> DEFINE now == stored[d] \cup {"object"}
      <3>1. UNCHANGED <<document, asset_objects, filed, placeVars>> /\ stored' = [stored EXCEPT ![d] = now]
        BY <2>2 DEF FinishPut, Store
      <3>2. /\ now \in SUBSET Clean!Kind /\ stored[d] \cap Content \subseteq now
            /\ "rows" \in now => "rows" \in stored[d]
        BY <1>1 DEF Clean!TypeOK, Clean!Kind
      <3> HIDE DEF now
      <3>3. /\ stored' \in [Doc -> SUBSET Clean!Kind] /\ stored'[d] = now
            /\ \A e \in Doc : e # d => stored'[e] = stored[e]
        BY <1>1, <3>1, <3>2 DEF Clean!TypeOK
      <3> QED BY <1>1, <3>1, <3>2, <3>3, StoreEffects DEF Clean!TypeOK
    <2>3. CASE RejectUpload(d) \/ CompleteUpload(d) \/ BeginReindex(d)
      <3>1. /\ UNCHANGED <<storeVars, workspace, published>> /\ workspace' \in [Doc -> Workspace]
            /\ SetStatus(d, "upload_invalid") \/ SetStatus(d, "queued")
        BY <1>1, <2>3 DEF RejectUpload, CompleteUpload, BeginReindex, apiVars, placeVars, Clean!TypeOK
      <3>2. {"upload_invalid", "queued"} \subseteq Clean!DocumentStatus \ {"deleting", "deleted"}
        BY DEF Clean!DocumentStatus
      <3> QED BY <3>1, <3>2, StatusEffects
    <2>4. CASE PatchDocument(d)
      <3>1. PICK s \in PatchStatus \cup {document[d].status} : SetStatus(d, s)
        BY <2>4 DEF PatchDocument
      <3>2. PICK ws \in Workspace : workspace' = [workspace EXCEPT ![d] = ws]
        BY <2>4 DEF PatchDocument
      <3>3. /\ UNCHANGED <<storeVars, published>> /\ workspace' \in [Doc -> Workspace]
            /\ \A e \in Doc : e # d => workspace'[e] = workspace[e]
        BY <1>1, <2>4, <3>2 DEF PatchDocument, Clean!TypeOK
      <3>4. s \in Clean!DocumentStatus \ {"deleting", "deleted"}
        BY <1>1, <3>1, PipelineAssumption DEF SetStatus, Alive, Clean!TypeOK, Clean!Document
      <3>5. CASE s \in PatchStatus
        BY <3>1, <3>3, <3>4, <3>5, StatusEffects
      <3>6. CASE s = document[d].status
        <4>1. UNCHANGED document
          BY <1>1, <3>1, <3>6 DEF SetStatus, Clean!DocumentWith, Clean!TypeOK, Clean!Document
        <4> QED BY <1>1, <3>1, <3>3, <4>1, MoveEffects DEF SetStatus
      <3> QED BY <3>5, <3>6
    <2>5. CASE PublishStep(d)
      <3>1. PICK stage \in Publication \ {"never"} : Publish(d, stage)
        BY <2>5 DEF PublishStep, PublishRow, PublishIndex, PublishVectors, DropStaleIndex,
                    PublishDies, Publication
      <3>2. /\ UNCHANGED <<asset_objects, filed>>
            /\ \/ UNCHANGED document
               \/ document' = [document EXCEPT ![d] =
                                  Clean!DocumentWith("completed", document[d].deletion_error)]
        BY <2>5 DEF PublishStep, PublishRow, PublishIndex, PublishVectors, DropStaleIndex,
                    PublishDies, storeVars
      <3>3. /\ workspace' \in [Doc -> Workspace]
            /\ \A e \in Doc : e # d => workspace'[e] = workspace[e]
        BY <1>1, <2>5 DEF PublishStep, PublishRow, PublishIndex, PublishVectors, DropStaleIndex,
                          PublishDies, Clean!TypeOK
      <3>4. /\ stored' \in [Doc -> SUBSET Clean!Kind]
            /\ \A e \in Doc : e # d => stored'[e] = stored[e]
        <4>1. PICK now : /\ now \in {stored[d] \cup {"index"}, stored[d] \ {"index"}, stored[d]}
                         /\ stored' = [stored EXCEPT ![d] = now]
          <5>0. \A gone \in Clean!IndexDeletions : gone \in SUBSET {"index"}
            BY PipelineAssumption DEF Clean!IndexDeletions
          <5>1. \/ UNCHANGED stored
                \/ stored' = [stored EXCEPT ![d] = stored[d] \cup {"index"}]
                \/ \E gone \in SUBSET {"index"} : stored' = [stored EXCEPT ![d] = stored[d] \ gone]
            BY <2>5, <5>0 DEF PublishStep, PublishRow, PublishIndex, PublishVectors,
                              DropStaleIndex, PublishDies, storeVars, Store
          <5>2. stored = [stored EXCEPT ![d] = stored[d]]
            BY <1>1 DEF Clean!TypeOK
          <5>3. \A gone \in SUBSET {"index"} : stored[d] \ gone \in {stored[d] \ {"index"}, stored[d]}
            OBVIOUS
          <5> QED BY <5>1, <5>2, <5>3
        <4>2. now \in SUBSET Clean!Kind
          BY <1>1, <4>1 DEF Clean!TypeOK, Clean!Kind
        <4> QED BY <1>1, <4>1, <4>2 DEF Clean!TypeOK
      <3> QED BY <3>1, <3>2, <3>3, <3>4, PublishEffects
    <2> QED BY <2>1, <2>2, <2>3, <2>4, <2>5 DEF ApiStep
  <1> QED BY <1>2, <1>3, RequestKeepsInv

LEMMA TimerKeepsInv ==
  ASSUME PipelineInv, LeaseInv', NEW t \in Task, TimerStep(t)
  PROVE  PipelineInv'
  <1>1. UNCHANGED <<document, storeVars, cleanerVars, placeVars, putting, reindexing, run, lease>>
    BY DEF TimerStep, BackoffElapses, LeaseExpires, apiVars
  <1>2. putting' \subseteq Doc /\ reindexing' \subseteq Doc \X Workspace
    BY <1>1 DEF PipelineInv, PipelineTypeOK
  <1> QED BY <1>1, <1>2, NoEffects, RequestKeepsInv

------------------------------------------------------------------------------
(* The steps of cleaners.                                                   *)

\* A step that moves no run of the pipeline.
LEMMA CleanKeepsInv ==
  ASSUME PipelineInv, LeaseInv', UNCHANGED <<run, lease, apiVars>>, Clean!TypeOK',
         DeletionStays, ContentStays, NoNewRows, DeletedByMark, CompletedByRun,
         TasksFollowDeletion, MarksFollowRemoval
  PROVE  PipelineInv'
  <1>1. PipelineTypeOK' /\ PublishedStays
    BY DEF PipelineInv, PipelineTypeOK, LeaseInv, apiVars, placeVars, NoLease, PublishedStays,
           Unpublished, UnpublishedNext
  <1>2. EndedRunsHoldNothing'
    BY DEF PipelineInv, EndedRunsHoldNothing, NoLease
  <1>3. \A w \in Worker : StageReached(w)
    BY DEF StageReached
  <1> QED BY <1>1, <1>2, <1>3, StepKeepsInv

\* What a cleaner knows of its document, and what any cleaner's row is made of.
LEMMA CleanerKnows ==
  ASSUME PipelineInv
  PROVE  /\ \A c \in Cleaner : /\ job[c] \in Clean!Job
                               /\ job[c].doc # NoDoc =>
                                     /\ job[c].doc \in Doc
                                     /\ Unpublished(job[c].doc) => ~Alive(job[c].doc)
         /\ \A d \in Doc : cleanup[d].attempt_count \in 0..MaxAttempts
  BY DEF PipelineInv, PipelineTypeOK, Clean!TypeOK, Clean!Job, Clean!CleanupRow, CleanupMeansDeletion

\* Documents and stores stay as they are.
LEMMA QuietCleaning ==
  ASSUME PipelineInv, LeaseInv', UNCHANGED <<run, lease, apiVars, document, storeVars>>,
         cleanup' \in [Doc -> Clean!CleanupRow], job' \in [Cleaner -> Clean!Job],
         TasksFollowDeletion, MarksFollowRemoval
  PROVE  PipelineInv'
  <1>1. Effects
    BY NoEffects DEF apiVars
  <1>2. Clean!TypeOK'
    BY <1>1 DEF Effects, Clean!TypeOK
  <1>3. DeletedByMark
    BY DEF DeletedByMark
  <1> QED BY <1>1, <1>2, <1>3, CleanKeepsInv DEF Effects

\* Of the cleanup table, one row changes or none.
LEMMA CleanupRows ==
  ASSUME PipelineInv, NEW d \in Doc
  PROVE  /\ Clean!InsertedRow \in Clean!CleanupRow
         /\ \A status \in {"queued", "completed", "dead_letter"} :
               Clean!Unlocked(cleanup[d], status) \in Clean!CleanupRow
         /\ \A timer \in {"running", "elapsed"} : Clean!Timed(cleanup[d], timer) \in Clean!CleanupRow
         /\ cleanup[d].attempt_count < MaxAttempts => Clean!ClaimedRow(cleanup[d]) \in Clean!CleanupRow
  BY ConstantsAssumption
  DEF PipelineInv, PipelineTypeOK, Clean!TypeOK, Clean!CleanupRow, Clean!Token, Clean!NoToken,
      Clean!InsertedRow, Clean!Unlocked, Clean!Timed, Clean!ClaimedRow

LEMMA CleanerClaims ==
  ASSUME PipelineInv, LeaseInv', NEW c \in Cleaner, Clean!Claim(c), UNCHANGED <<run, lease, apiVars>>
  PROVE  PipelineInv'
  <1>1. /\ UNCHANGED <<document, storeVars>> /\ job \in [Cleaner -> Clean!Job]
        /\ cleanup \in [Doc -> Clean!CleanupRow]
    BY DEF Clean!Claim, storeVars, PipelineInv, PipelineTypeOK, Clean!TypeOK
  <1>2. PICK granted \in SUBSET Clean!Claimable : cleanup' = Clean!AfterClaim(granted)
    BY DEF Clean!Claim, Clean!NextTask
  <1>3. \A d \in Doc : /\ cleanup'[d] \in Clean!CleanupRow
                       /\ cleanup'[d].status # "new" => cleanup[d].status # "new"
    <2> SUFFICES ASSUME NEW d \in Doc
                 PROVE  /\ cleanup'[d] \in Clean!CleanupRow
                        /\ cleanup'[d].status # "new" => cleanup[d].status # "new"
      OBVIOUS
    <2>1. CASE d \in Clean!Exhausted
      <3>1. cleanup'[d] = Clean!Unlocked(cleanup[d], "dead_letter") /\ cleanup[d].status # "new"
        BY <1>2, <2>1 DEF Clean!AfterClaim, Clean!Exhausted, Clean!ReadyToRun
      <3> QED BY <3>1, CleanupRows
    <2>2. CASE d \notin Clean!Exhausted /\ d \in granted
      <3>1. /\ cleanup'[d] = Clean!ClaimedRow(cleanup[d]) /\ cleanup[d].status # "new"
            /\ cleanup[d].attempt_count < MaxAttempts
        BY <1>2, <2>2 DEF Clean!AfterClaim, Clean!Claimable, Clean!ReadyToRun
      <3> QED BY <3>1, CleanupRows
    <2>3. CASE d \notin Clean!Exhausted /\ d \notin granted
      BY <1>1, <1>2, <2>3 DEF Clean!AfterClaim
    <2> QED BY <2>1, <2>2, <2>3
  <1>4. cleanup' \in [Doc -> Clean!CleanupRow]
    BY <1>2, <1>3 DEF Clean!AfterClaim
  <1>5. CASE UNCHANGED job
    BY <1>1, <1>3, <1>4, <1>5, QuietCleaning DEF TasksFollowDeletion, MarksFollowRemoval, storeVars
  <1>6. ASSUME NEW d \in Clean!NextTask,
               job' = [job EXCEPT ![c] =
                         [doc |-> d, token |-> cleanup[d].attempt_count + 1,
                          phase |-> "targets", checked |-> "no", listed |-> {}]]
        PROVE  PipelineInv'
    <2>1. d \in Doc /\ cleanup[d].attempt_count < MaxAttempts /\ cleanup[d].status # "new"
      BY DEF Clean!NextTask, Clean!Claimable, Clean!ReadyToRun
    <2>2. cleanup[d].attempt_count + 1 \in Clean!Token
      BY <2>1, CleanerKnows, ConstantsAssumption DEF Clean!Token
    <2> DEFINE new == [doc |-> d, token |-> cleanup[d].attempt_count + 1,
                       phase |-> "targets", checked |-> "no", listed |-> {}]
    <2>3. new \in Clean!Job /\ new.doc = d /\ new.phase = "targets"
      BY <2>1, <2>2 DEF Clean!Job, Clean!Phase
    <2>4. job' = [job EXCEPT ![c] = new]
      BY <1>6
    <2> HIDE DEF new
    <2>5. job' \in [Cleaner -> Clean!Job] /\ job'[c] = new /\ \A b \in Cleaner : b # c => job'[b] = job[b]
      BY <1>1, <2>3, <2>4
    <2>6. TasksFollowDeletion
      BY <1>3, <2>1, <2>3, <2>5 DEF TasksFollowDeletion
    <2>7. MarksFollowRemoval
      BY <2>3, <2>5 DEF MarksFollowRemoval
    <2> QED BY <1>1, <1>4, <2>5, <2>6, <2>7, QuietCleaning
  <1> QED BY <1>5, <1>6 DEF Clean!Claim

LEMMA CleanupTimer ==
  ASSUME PipelineInv, LeaseInv', NEW d \in Doc, NEW timer \in {"running", "elapsed"},
         cleanup' = [cleanup EXCEPT ![d] = Clean!Timed(cleanup[d], timer)],
         UNCHANGED <<run, lease, apiVars, document, storeVars, job>>
  PROVE  PipelineInv'
  <1>1. job \in [Cleaner -> Clean!Job] /\ cleanup \in [Doc -> Clean!CleanupRow]
    BY DEF PipelineInv, PipelineTypeOK, Clean!TypeOK
  <1>2. cleanup' \in [Doc -> Clean!CleanupRow]
    BY <1>1, CleanupRows
  <1>3. Clean!Timed(cleanup[d], timer).status = cleanup[d].status
    BY DEF Clean!Timed
  <1>4. \A e \in Doc : cleanup'[e].status = cleanup[e].status
    BY <1>1, <1>3
  <1>5. TasksFollowDeletion /\ MarksFollowRemoval
    BY <1>4 DEF TasksFollowDeletion, MarksFollowRemoval, storeVars
  <1> QED BY <1>1, <1>2, <1>5, QuietCleaning

\* The run of a cleaner is over; its row may have been unlocked.
LEMMA CleanerEnds ==
  ASSUME PipelineInv, LeaseInv', NEW c \in Cleaner, Clean!RunEnds(c), UNCHANGED <<run, lease, apiVars>>
  PROVE  PipelineInv'
  <1>1. /\ job \in [Cleaner -> Clean!Job] /\ cleanup \in [Doc -> Clean!CleanupRow]
        /\ document \in [Doc -> Clean!Document] /\ UNCHANGED storeVars
        /\ job' = [job EXCEPT ![c] = Clean!NoJob]
    BY DEF PipelineInv, PipelineTypeOK, Clean!TypeOK, Clean!RunEnds, Clean!Complete, Clean!Fail,
           Clean!LeaseLost, Clean!Crash, Clean!Forget, storeVars
  <1>2. Clean!NoJob \in Clean!Job /\ Clean!NoJob.doc = NoDoc
    BY ConstantsAssumption DEF Clean!NoJob, Clean!Job, Clean!Token, Clean!NoToken, Clean!Phase
  <1>3. /\ job' \in [Cleaner -> Clean!Job] /\ job'[c].doc = NoDoc
        /\ \A b \in Cleaner : b # c => job'[b] = job[b]
    BY <1>1, <1>2
  <1>4. /\ cleanup' \in [Doc -> Clean!CleanupRow]
        /\ \A d \in Doc : cleanup'[d].status # "new" => cleanup[d].status # "new"
    <2>1. CASE UNCHANGED cleanup
      BY <1>1, <2>1
    <2>2. ASSUME NEW d \in Doc, NEW status \in {"queued", "completed", "dead_letter"}, Clean!Holds(c, d),
                 cleanup' = [cleanup EXCEPT ![d] = Clean!Unlocked(cleanup[d], status)]
          PROVE  /\ cleanup' \in [Doc -> Clean!CleanupRow]
                 /\ \A e \in Doc : cleanup'[e].status # "new" => cleanup[e].status # "new"
      <3>1. cleanup[d].status # "new"
        BY <2>2 DEF Clean!Holds, Clean!LeaseCurrent
      <3> QED BY <1>1, <2>2, <3>1, CleanupRows
    <2>3. CASE Clean!Complete(c)
      BY <2>2, <2>3 DEF Clean!Complete
    <2>4. CASE Clean!Fail(c)
      BY <2>2, <2>4 DEF Clean!Fail
    <2>5. CASE Clean!LeaseLost(c) \/ Clean!Crash(c)
      BY <2>1, <2>5 DEF Clean!LeaseLost, Clean!Crash
    <2> QED BY <2>3, <2>4, <2>5 DEF Clean!RunEnds
  <1>5. TasksFollowDeletion /\ MarksFollowRemoval
    BY <1>1, <1>3, <1>4 DEF TasksFollowDeletion, MarksFollowRemoval, storeVars
  <1>6. CASE UNCHANGED document
    BY <1>1, <1>3, <1>4, <1>5, <1>6, QuietCleaning
  <1>7. ASSUME NEW d \in Doc, document[d].status = "deleting",
               document' = [document EXCEPT ![d] = Clean!DocumentWith("deleting", "set")]
        PROVE  PipelineInv'
    <2>1. /\ document' \in [Doc -> Clean!Document]
          /\ \A e \in Doc : document'[e].status = document[e].status
      BY <1>1, <1>7 DEF Clean!DocumentWith, Clean!Document, Clean!DocumentStatus
    <2>2. DeletionStays /\ DeletedByMark /\ CompletedByRun
      BY <2>1 DEF DeletionStays, DeletedByMark, CompletedByRun, Alive
    <2>3. ContentStays /\ NoNewRows
      BY <1>1 DEF ContentStays, NoNewRows, storeVars, apiVars, placeVars
    <2>4. Clean!TypeOK'
      BY <1>1, <1>3, <1>4, <2>1
      DEF PipelineInv, PipelineTypeOK, Clean!TypeOK, storeVars, apiVars, placeVars
    <2> QED BY <1>5, <2>2, <2>3, <2>4, CleanKeepsInv
  <1>8. \/ UNCHANGED document
        \/ \E d \in Doc : /\ document[d].status = "deleting"
                          /\ document' = [document EXCEPT ![d] = Clean!DocumentWith("deleting", "set")]
    BY DEF Clean!RunEnds, Clean!Complete, Clean!Fail, Clean!LeaseLost, Clean!Crash
  <1> QED BY <1>6, <1>7, <1>8

\* A phase of a cleaner takes things away from its document, and from it alone.
LEMMA PhaseKeepsInv ==
  ASSUME PipelineInv, LeaseInv', UNCHANGED <<run, lease, apiVars, cleanup>>,
         NEW c \in Cleaner, job[c].doc # NoDoc, NEW next \in Clean!Job, next.doc = job[c].doc,
         job' = [job EXCEPT ![c] = next],
         document' \in [Doc -> Clean!Document], DeletionStays, DeletedByMark, CompletedByRun,
         stored' \in [Doc -> SUBSET Clean!Kind], asset_objects' \in [Doc -> SUBSET Asset],
         filed' \in [Doc -> SUBSET Clean!FiledRow],
         \A d \in Doc : stored'[d] \subseteq stored[d] /\ filed'[d] \subseteq filed[d],
         \A d \in Doc : d # job[c].doc => stored'[d] = stored[d],
         next.phase = "mark" =>
            \/ job[c].phase = "mark"
            \/ "rows" \notin stored'[next.doc] /\ \A r \in filed'[next.doc] : r[1] # workspace[next.doc]
  PROVE  PipelineInv'
  <1>1. /\ job \in [Cleaner -> Clean!Job] /\ cleanup \in [Doc -> Clean!CleanupRow]
        /\ workspace \in [Doc -> Workspace] /\ UNCHANGED <<workspace, published>>
        /\ job[c].doc \in Doc /\ (Unpublished(job[c].doc) => ~Alive(job[c].doc))
    BY CleanerKnows DEF PipelineInv, PipelineTypeOK, Clean!TypeOK, apiVars, placeVars
  <1>2. /\ job' \in [Cleaner -> Clean!Job] /\ job'[c] = next
        /\ \A b \in Cleaner : b # c => job'[b] = job[b]
    BY <1>1
  <1>3. Clean!TypeOK'
    BY <1>1, <1>2 DEF Clean!TypeOK
  <1>4. TasksFollowDeletion /\ MarksFollowRemoval
    BY <1>1, <1>2 DEF TasksFollowDeletion, MarksFollowRemoval, RowsGoneNext
  <1>5. NoNewRows
    BY <1>1 DEF NoNewRows
  <1>6. ContentStays
    BY <1>1 DEF ContentStays, Unpublished, UnpublishedNext
  <1> QED BY <1>3, <1>4, <1>5, <1>6, CleanKeepsInv

LEMMA PhasesKeepInv ==
  ASSUME PipelineInv, LeaseInv', NEW c \in Cleaner, Clean!CleanupPhase(c),
         UNCHANGED <<run, lease, apiVars>>
  PROVE  PipelineInv'
  <1>1. /\ document \in [Doc -> Clean!Document] /\ stored \in [Doc -> SUBSET Clean!Kind]
        /\ asset_objects \in [Doc -> SUBSET Asset] /\ filed \in [Doc -> SUBSET Clean!FiledRow]
        /\ job \in [Cleaner -> Clean!Job]
    BY DEF PipelineInv, PipelineTypeOK, Clean!TypeOK
  <1>2. UNCHANGED cleanup
    BY DEF Clean!CleanupPhase, Clean!CheckLease, Clean!LookUpTargets, Clean!DeleteObject,
           Clean!DeleteAssetObject, Clean!HasNoAssets, Clean!DeleteIndex,
           Clean!DeleteDerivedRows, Clean!MarkDeleted
  <1>3. job[c].doc # NoDoc
    BY PipelineAssumption
    DEF Clean!CleanupPhase, Clean!CheckLease, Clean!LookUpTargets, Clean!DeleteObject,
        Clean!DeleteAssetObject, Clean!HasNoAssets, Clean!DeleteIndex, Clean!DeleteDerivedRows,
        Clean!MarkDeleted, Clean!Running, Clean!Holds
  <1>4. job[c] \in Clean!Job /\ job[c].doc \in Doc
    BY <1>3, CleanerKnows
  <1>5. CASE UNCHANGED document
    <2>1. DeletionStays /\ DeletedByMark /\ CompletedByRun
      BY <1>5 DEF DeletionStays, DeletedByMark, CompletedByRun, Alive
    <2>2. ASSUME NEW phase \in Clean!Phase \ {"mark"}, NEW listed \in SUBSET Asset,
                 Clean!Enter(c, phase, listed),
                 stored' \in [Doc -> SUBSET Clean!Kind],
                 asset_objects' \in [Doc -> SUBSET Asset], UNCHANGED filed,
                 \A d \in Doc : stored'[d] \subseteq stored[d],
                 \A d \in Doc : d # job[c].doc => stored'[d] = stored[d]
          PROVE  PipelineInv'
      <3> DEFINE next == [doc |-> job[c].doc, token |-> job[c].token, phase |-> phase,
                          checked |-> "no", listed |-> listed]
      <3>1. next \in Clean!Job /\ next.doc = job[c].doc /\ next.phase # "mark"
        BY <1>4, <2>2 DEF Clean!Job
      <3>2. job' = [job EXCEPT ![c] = next]
        BY <2>2 DEF Clean!Enter
      <3> HIDE DEF next
      <3> QED BY <1>1, <1>2, <1>3, <1>5, <2>1, <2>2, <3>1, <3>2, PhaseKeepsInv
    <2>3. CASE Clean!CheckLease(c)
      <3> DEFINE next == [doc |-> job[c].doc, token |-> job[c].token, phase |-> job[c].phase,
                          checked |-> "yes", listed |-> job[c].listed]
      <3>1. next \in Clean!Job /\ next.doc = job[c].doc /\ next.phase = job[c].phase
        BY <1>4 DEF Clean!Job
      <3>2. job' = [job EXCEPT ![c] = next] /\ UNCHANGED <<stored, asset_objects, filed>>
        BY <2>3 DEF Clean!CheckLease
      <3> HIDE DEF next
      <3> QED BY <1>1, <1>2, <1>3, <1>5, <2>1, <3>1, <3>2, PhaseKeepsInv
    <2>4. CASE Clean!LookUpTargets(c) \/ Clean!HasNoAssets(c)
      <3>1. UNCHANGED <<stored, asset_objects, filed>>
        BY <2>4 DEF Clean!LookUpTargets, Clean!HasNoAssets
      <3>2. PICK phase \in {"object", "ok", "index"}, listed \in {Clean!Listed(job[c].doc), {}} :
               Clean!Enter(c, phase, listed)
        BY <2>4 DEF Clean!LookUpTargets, Clean!HasNoAssets
      <3>3. phase \in Clean!Phase \ {"mark"} /\ listed \in SUBSET Asset
        BY <1>1, <1>4 DEF Clean!Phase, Clean!Listed
      <3> QED BY <1>1, <2>2, <3>1, <3>2, <3>3
    <2>5. CASE Clean!DeleteObject(c) \/ Clean!DeleteIndex(c)
      <3>1. PICK gone : stored' = [stored EXCEPT ![job[c].doc] = stored[job[c].doc] \ gone]
        BY <2>5 DEF Clean!DeleteObject, Clean!DeleteIndex
      <3>2. PICK phase \in {"assets", "rows"}, listed \in {job[c].listed, {}} :
               Clean!Enter(c, phase, listed)
        BY <2>5 DEF Clean!DeleteObject, Clean!DeleteIndex
      <3>3. phase \in Clean!Phase \ {"mark"} /\ listed \in SUBSET Asset
        BY <1>4 DEF Clean!Phase, Clean!Job
      <3>4. UNCHANGED <<asset_objects, filed>>
        BY <2>5 DEF Clean!DeleteObject, Clean!DeleteIndex
      <3>5. /\ stored' \in [Doc -> SUBSET Clean!Kind]
            /\ \A d \in Doc : stored'[d] \subseteq stored[d]
            /\ \A d \in Doc : d # job[c].doc => stored'[d] = stored[d]
        BY <1>1, <1>4, <3>1
      <3> QED BY <1>1, <2>2, <3>2, <3>3, <3>4, <3>5
    <2>6. CASE Clean!DeleteAssetObject(c)
      <3>1. PICK a \in job[c].listed :
               /\ asset_objects' = [asset_objects EXCEPT ![job[c].doc] = asset_objects[job[c].doc] \ {a}]
               /\ Clean!Enter(c, IF job[c].listed = {a} THEN "index" ELSE "assets", job[c].listed \ {a})
        BY <2>6 DEF Clean!DeleteAssetObject
      <3>2. PICK phase \in {"index", "assets"}, listed \in {job[c].listed \ {a}} :
               Clean!Enter(c, phase, listed)
        BY <3>1
      <3>3. phase \in Clean!Phase \ {"mark"} /\ listed \in SUBSET Asset
        BY <1>4, <3>2 DEF Clean!Phase, Clean!Job
      <3>4. UNCHANGED <<stored, filed>> /\ asset_objects' \in [Doc -> SUBSET Asset]
        BY <1>1, <2>6, <3>1 DEF Clean!DeleteAssetObject
      <3> QED BY <1>1, <2>2, <3>2, <3>3, <3>4
    <2>7. CASE Clean!DeleteDerivedRows(c)
      <3>1. PICK files \in SUBSET {"struct"} :
               stored' = [stored EXCEPT ![job[c].doc] =
                            (stored[job[c].doc] \ {"rows", "evidence"}) \ files]
        BY <2>7 DEF Clean!DeleteDerivedRows
      <3>2. /\ filed' = [filed EXCEPT ![job[c].doc] = {r \in filed[job[c].doc] : r[1] # workspace[job[c].doc]}]
            /\ UNCHANGED asset_objects /\ Clean!Enter(c, "mark", {})
        BY <2>7 DEF Clean!DeleteDerivedRows
      <3> DEFINE next == [doc |-> job[c].doc, token |-> job[c].token, phase |-> "mark",
                          checked |-> "no", listed |-> {}]
      <3>3. next \in Clean!Job /\ next.doc = job[c].doc
        BY <1>4 DEF Clean!Job, Clean!Phase
      <3>4. job' = [job EXCEPT ![c] = next]
        BY <3>2 DEF Clean!Enter
      <3> HIDE DEF next
      <3>5. /\ stored' \in [Doc -> SUBSET Clean!Kind] /\ "rows" \notin stored'[job[c].doc]
            /\ \A d \in Doc : stored'[d] \subseteq stored[d]
            /\ \A d \in Doc : d # job[c].doc => stored'[d] = stored[d]
        BY <1>1, <1>4, <3>1
      <3>6. /\ filed' \in [Doc -> SUBSET Clean!FiledRow]
            /\ \A r \in filed'[job[c].doc] : r[1] # workspace[job[c].doc]
            /\ \A d \in Doc : filed'[d] \subseteq filed[d]
        BY <1>1, <1>4, <3>2
      <3> QED BY <1>1, <1>2, <1>3, <1>5, <2>1, <3>2, <3>3, <3>4, <3>5, <3>6, PhaseKeepsInv
    <2>8. CASE Clean!MarkDeleted(c) /\ UNCHANGED document
      <3>1. Clean!Enter(c, "ok", {}) /\ UNCHANGED <<stored, asset_objects, filed>>
        BY <2>8 DEF Clean!MarkDeleted
      <3>2. "ok" \in Clean!Phase \ {"mark"}
        BY DEF Clean!Phase
      <3> QED BY <1>1, <2>2, <3>1, <3>2
    <2> QED BY <1>5, <2>3, <2>4, <2>5, <2>6, <2>7, <2>8 DEF Clean!CleanupPhase
  <1>6. CASE Clean!MarkDeleted(c)
    <2> DEFINE next == [doc |-> job[c].doc, token |-> job[c].token, phase |-> "ok",
                        checked |-> "no", listed |-> {}]
    <2>1. next \in Clean!Job /\ next.doc = job[c].doc /\ next.phase # "mark"
      BY <1>4 DEF Clean!Job, Clean!Phase
    <2>2. job' = [job EXCEPT ![c] = next] /\ UNCHANGED <<stored, asset_objects, filed>>
      BY <1>6 DEF Clean!MarkDeleted, Clean!Enter
    <2> HIDE DEF next
    <2>3. /\ document' \in [Doc -> Clean!Document] /\ document'[job[c].doc].status = "deleted"
          /\ \A d \in Doc : d # job[c].doc => document'[d] = document[d]
      BY <1>1, <1>4, <1>6 DEF Clean!MarkDeleted, Clean!DocumentWith, Clean!Document, Clean!DocumentStatus
    <2>4. job[c].phase = "mark"
      BY <1>6 DEF Clean!MarkDeleted, Clean!Running
    <2>5. DeletionStays
      BY <2>3 DEF DeletionStays, Alive
    <2>6. DeletedByMark /\ CompletedByRun
      BY <2>3, <2>4 DEF DeletedByMark, CompletedByRun
    <2> QED BY <1>1, <1>2, <1>3, <2>1, <2>2, <2>3, <2>5, <2>6, PhaseKeepsInv
  <1>7. UNCHANGED document \/ Clean!MarkDeleted(c)
    BY DEF Clean!CleanupPhase, Clean!CheckLease, Clean!LookUpTargets, Clean!DeleteObject,
           Clean!DeleteAssetObject, Clean!HasNoAssets, Clean!DeleteIndex, Clean!DeleteDerivedRows
  <1> QED BY <1>5, <1>6, <1>7

LEMMA CleanerKeepsInv ==
  ASSUME PipelineInv, LeaseInv', CleanerStep
  PROVE  PipelineInv'
  <1>1. UNCHANGED <<run, lease, apiVars>>
    BY DEF CleanerStep
  <1>2. ASSUME NEW d \in Doc, NEW timer \in {"running", "elapsed"},
               cleanup' = [cleanup EXCEPT ![d] = Clean!Timed(cleanup[d], timer)],
               UNCHANGED <<document, job, stored, asset_objects, filed>>
        PROVE  PipelineInv'
    BY <1>1, <1>2, CleanupTimer DEF storeVars
  <1>3. ASSUME NEW c \in Cleaner, Clean!CleanerStep(c) PROVE PipelineInv'
    <2>1. CASE Clean!Renew(c)
      BY <1>2, <2>1 DEF Clean!Renew
    <2> QED BY <1>1, <1>3, <2>1, CleanerClaims, PhasesKeepInv, CleanerEnds DEF Clean!CleanerStep
  <1>4. ASSUME NEW d \in Doc, Clean!TimerElapses(d) PROVE PipelineInv'
    BY <1>2, <1>4 DEF Clean!TimerElapses
  <1> QED BY <1>3, <1>4 DEF CleanerStep

LEMMA DeletionKeepsInv ==
  ASSUME PipelineInv, LeaseInv', NEW d \in Doc, RequestDeletion(d)
  PROVE  PipelineInv'
  <1>1. /\ document[d].status # "deleted" /\ UNCHANGED <<job, stored, asset_objects, filed>>
        /\ UNCHANGED <<run, lease, apiVars>>
        /\ document \in [Doc -> Clean!Document] /\ cleanup \in [Doc -> Clean!CleanupRow]
    BY DEF RequestDeletion, Clean!DeleteDocument, PipelineInv, PipelineTypeOK, Clean!TypeOK
  <1>2. /\ document' \in [Doc -> Clean!Document] /\ document'[d].status = "deleting"
        /\ \A e \in Doc : e # d => document'[e] = document[e]
    BY <1>1 DEF RequestDeletion, Clean!DeleteDocument, Clean!DocumentWith, Clean!Document,
                Clean!DocumentStatus
  <1>3. /\ cleanup' \in [Doc -> Clean!CleanupRow]
        /\ \A e \in Doc : e # d => cleanup'[e] = cleanup[e]
    BY <1>1, CleanupRows DEF RequestDeletion, Clean!DeleteDocument
  <1>4. Clean!TypeOK'
    BY <1>1, <1>2, <1>3 DEF PipelineInv, PipelineTypeOK, Clean!TypeOK, apiVars, placeVars
  <1>5. DeletionStays /\ ContentStays /\ NoNewRows
    BY <1>1, <1>2 DEF DeletionStays, ContentStays, NoNewRows, Alive, apiVars, placeVars
  <1>6. DeletedByMark /\ CompletedByRun
    BY <1>2 DEF DeletedByMark, CompletedByRun
  <1>7. TasksFollowDeletion /\ MarksFollowRemoval
    BY <1>1, <1>2, <1>3 DEF TasksFollowDeletion, MarksFollowRemoval, AliveNext
  <1> QED BY <1>1, <1>4, <1>5, <1>6, <1>7, CleanKeepsInv

LEMMA InitEstablishesInv == PipelineInit => PipelineInv
  <1> SUFFICES ASSUME PipelineInit PROVE PipelineInv
    OBVIOUS
  <1>1. LeaseInv
    BY InitEstablishesLeaseInv DEF PipelineInit
  <1>2. Clean!TypeOK
    BY ConstantsAssumption
    DEF PipelineInit, Clean!TypeOK, Clean!DocumentWith, Clean!Document, Clean!DocumentStatus,
        Clean!NoRow, Clean!CleanupRow, Clean!NoJob, Clean!Job, Clean!Phase, Clean!Token, Clean!NoToken
  <1>3. /\ run \in [Worker -> Run] /\ putting = {} /\ reindexing = {}
        /\ published \in [Doc -> Publication]
        /\ \A w \in Worker : run[w].doc = NoDoc /\ run[w].stage = "idle" /\ lease[w] = NoLease
    BY DEF PipelineInit, QueueInit, NoRun, Run, Stage, Publication
  <1>4. PipelineTypeOK /\ EndedRunsHoldNothing
    BY <1>1, <1>2, <1>3 DEF PipelineTypeOK, EndedRunsHoldNothing, LeaseInv
  <1>5. /\ \A d \in Doc : document[d].status = "pending" /\ cleanup[d].status = "new"
        /\ \A c \in Cleaner : job[c].doc = NoDoc
    BY DEF PipelineInit, Clean!DocumentWith, Clean!NoRow, Clean!NoJob
  <1> QED BY <1>1, <1>3, <1>4, <1>5
          DEF PipelineInv, CleanupMeansDeletion, RowsStayGone, DeletedHasNoRows, CompletedHasContent

LEMMA NextKeepsInv == PipelineInv /\ [PipelineNext]_pipelineVars => PipelineInv'
  <1> SUFFICES ASSUME PipelineInv, [PipelineNext]_pipelineVars PROVE PipelineInv'
    OBVIOUS
  <1>1. LeaseInv'
    <2>1. [QueueNext]_queueVars
      BY NextIsQueueStep DEF PipelineInv
    <2> QED BY <2>1, NextKeepsLeaseInv DEF PipelineInv
  <1>2. ASSUME NEW d \in Doc, ApiStep(d) PROVE PipelineInv'
    BY <1>1, <1>2, ApiKeepsInv, DeletionKeepsInv
  <1>3. CASE UNCHANGED pipelineVars
    <2>1. UNCHANGED <<document, storeVars, cleanerVars, placeVars, putting, reindexing, run, lease>>
      BY <1>3 DEF pipelineVars, apiVars
    <2>2. putting' \subseteq Doc /\ reindexing' \subseteq Doc \X Workspace
      BY <2>1 DEF PipelineInv, PipelineTypeOK
    <2> QED BY <1>1, <2>1, <2>2, NoEffects, RequestKeepsInv
  <1> QED BY <1>1, <1>2, <1>3, RunStepKeepsInv, TimerKeepsInv, CleanerKeepsInv DEF PipelineNext

------------------------------------------------------------------------------
(* The theorems.                                                            *)

\* The strengthening of the properties below, for any number of documents,
\* tasks, workers, cleaners and attempts, with or without the document lock.
THEOREM PipelineInvariant == PipelineSpec => []PipelineInv
  <1> QED BY InitEstablishesInv, NextKeepsInv, PTL DEF PipelineSpec

\* A worker still running when its document is deleted and cleaned up leaves no
\* chunk behind, and no block, parse run or asset row in the workspace of the
\* document, wherever the document and its tasks have been before.
THEOREM DeletedLeavesNoRows == PipelineSpec => []DeletedHasNoRows
  <1>1. PipelineInv => DeletedHasNoRows
    BY DEF PipelineInv
  <1> QED BY <1>1, PipelineInvariant, PTL

\* A completed document has its upload, its chunks and, with pgvector, its index,
\* unless a client has PATCHed it to completed or a publish commit has met it; it
\* takes no exclusive lock.
THEOREM CompletedIsWhole ==
  ASSUME "completed" \notin PatchStatus
  PROVE  PipelineSpec => []CompletedHasContent
  <1>1. PipelineInv => CompletedHasContent
    BY DEF PipelineInv
  <1> QED BY <1>1, PipelineInvariant, PTL

\* SetStatus looks for the deletion in its own statement.
LEMMA StatusKeepsDeletion ==
  ASSUME NEW d \in Doc, NEW s, SetStatus(d, s), document \in [Doc -> Clean!Document]
  PROVE  DeletionStays
  BY DEF SetStatus, DeletionStays, Alive

LEMMA StepKeepsDeletion == PipelineInv /\ [PipelineNext]_pipelineVars => DeletionStays
  <1> SUFFICES ASSUME PipelineInv, [PipelineNext]_pipelineVars PROVE DeletionStays
    OBVIOUS
  <1>1. document \in [Doc -> Clean!Document]
    BY DEF PipelineInv, PipelineTypeOK, Clean!TypeOK
  <1>2. CASE UNCHANGED document
    BY <1>2 DEF DeletionStays, Alive
  <1>3. ASSUME NEW d \in Doc, ApiStep(d) PROVE DeletionStays
    <2>1. CASE RequestDeletion(d)
      BY <1>1, <2>1
      DEF RequestDeletion, Clean!DeleteDocument, Clean!DocumentWith, DeletionStays, Alive
    <2>2. CASE PublishRow(d)
      <3>1. published \in [Doc -> Publication]
        BY DEF PipelineInv, PipelineTypeOK
      <3>2. published'[d] # "never" /\ document'[d].status = "completed"
        BY <1>1, <2>2, <3>1 DEF PublishRow, Publish, Clean!DocumentWith
      <3>3. \A e \in Doc : e # d => document'[e] = document[e]
        BY <1>1, <2>2 DEF PublishRow
      <3> QED BY <3>2, <3>3 DEF DeletionStays, Alive
    <2>3. CASE ~RequestDeletion(d) /\ ~PublishRow(d)
      <3>1. UNCHANGED document \/ \E s : SetStatus(d, s)
        BY <1>3, <2>3 DEF ApiStep, BeginPut, FinishPut, RejectUpload, CompleteUpload, BeginReindex,
                          EnqueueReindex, ReindexDies, PatchDocument, PublishStep, PublishIndex,
                          PublishVectors, DropStaleIndex, PublishDies
      <3> QED BY <1>1, <1>2, <3>1, StatusKeepsDeletion
    <2> QED BY <2>1, <2>2, <2>3
  <1>4. ASSUME NEW w \in Worker, RunStep(w) PROVE DeletionStays
    <2>1. UNCHANGED document \/ \E d, s : d = run[w].doc /\ SetStatus(d, s)
      BY <1>4 DEF RunStep, ClaimTask, RenewTask, StartProcessing, LockDocument, ReadDocument, RunEnd,
                  CompleteDocument, CompleteTask, FailTask, FindLeaseLost, DemoteDocument, Die,
                  PipelineStage, CheckSideEffects, ProjectDocumentIr, RemoveStructTables,
                  RebuildStructTables, ReplaceTableEvidence, SkipStructTables, StoreBodyChunks,
                  MirrorAsset, StoreAssetRow, UndoAsset, HasNoAssets, ReplaceIndex, PurgeIndex, InsertIndex,
                  InsertIndexFails, FinishProcessing, ProcessFails
    <2>2. ASSUME NEW s, SetStatus(run[w].doc, s) PROVE DeletionStays
      <3>1. CASE run[w].doc \in Doc
        BY <1>1, <2>2, <3>1, StatusKeepsDeletion
      <3>2. CASE run[w].doc \notin Doc
        <4>1. UNCHANGED document
          BY <1>1, <2>2, <3>2 DEF SetStatus
        <4> QED BY <1>2, <4>1
      <3> QED BY <3>1, <3>2
    <2> QED BY <1>2, <2>1, <2>2
  <1>5. ASSUME NEW t \in Task, TimerStep(t) PROVE DeletionStays
    BY <1>2, <1>5 DEF TimerStep
  <1>6. CASE CleanerStep
    <2>1. ASSUME NEW d \in Doc, document[d].status = "deleting",
                 document' = [document EXCEPT ![d] = Clean!DocumentWith("deleting", "set")]
          PROVE  DeletionStays
      BY <1>1, <2>1 DEF Clean!DocumentWith, DeletionStays, Alive
    <2>2. ASSUME NEW d, document' = [document EXCEPT ![d] = Clean!DocumentWith("deleted", "none")]
          PROVE  DeletionStays
      BY <1>1, <2>2 DEF Clean!DocumentWith, DeletionStays, Alive
    <2>3. \/ UNCHANGED document
          \/ \E d \in Doc : /\ document[d].status = "deleting"
                            /\ document' = [document EXCEPT ![d] = Clean!DocumentWith("deleting", "set")]
          \/ \E d : document' = [document EXCEPT ![d] = Clean!DocumentWith("deleted", "none")]
      BY <1>6
      DEF CleanerStep, Clean!CleanerStep, Clean!TimerElapses, Clean!Claim, Clean!Renew,
          Clean!CleanupPhase, Clean!CheckLease, Clean!LookUpTargets, Clean!DeleteObject,
          Clean!DeleteAssetObject, Clean!HasNoAssets, Clean!DeleteIndex, Clean!DeleteDerivedRows,
          Clean!MarkDeleted, Clean!RunEnds, Clean!Complete, Clean!Fail, Clean!LeaseLost, Clean!Crash
    <2> QED BY <1>2, <2>1, <2>2, <2>3
  <1> QED BY <1>2, <1>3, <1>4, <1>5, <1>6 DEF PipelineNext, pipelineVars

\* Nothing the API, a late worker or a cleaner does takes a document out of
\* deleting but to deleted, or out of deleted, but for the upsert of a publish
\* commit, which makes it completed.
THEOREM DeletionStaysFinal == PipelineSpec => DeletionIsFinal
  <1> DEFINE Final ==
        \A d \in Doc : ~Republished(d) =>
            /\ ~Alive(d) => document'[d].status \in {"deleting", "deleted"}
            /\ document[d].status = "deleted" => document'[d].status = "deleted"
  <1>1. PipelineInv /\ [PipelineNext]_pipelineVars => [Final]_pipelineVars
    BY StepKeepsDeletion DEF DeletionStays, Republished, Unpublished
  <1>2. PipelineSpec => [][Final]_pipelineVars
    BY <1>1, PipelineInvariant, PTL DEF PipelineSpec
  <1> QED BY <1>2 DEF DeletionIsFinal

------------------------------------------------------------------------------
(* The cleanup queue: the steps of the composition are steps of it, whatever *)
(* else the ingestion runs and the API write into the same documents.       *)

\* What CleanupQueueProofs says of tasks and claims, for this table.
Cleaning == INSTANCE CleanupQueueProofs

LEMMA CleaningAssumption == Cleaning!CleanupAssumption
  BY ConstantsAssumption, PipelineAssumption DEF Cleaning!CleanupAssumption

LEMMA SameTypes == Clean!TypeOK <=> Cleaning!TypeOK
  BY DEF Clean!TypeOK, Clean!Document, Clean!DocumentStatus, Clean!CleanupRow, Clean!Token,
         Clean!Job, Clean!Phase, Clean!Kind, Clean!FiledRow,
         Cleaning!TypeOK, Cleaning!Document, Cleaning!DocumentStatus, Cleaning!CleanupRow,
         Cleaning!Token, Cleaning!Job, Cleaning!Phase, Cleaning!Kind, Cleaning!FiledRow

LEMMA SameLease == Clean!LeaseInv <=> Cleaning!LeaseInv
  BY SameTypes
  DEF Clean!LeaseInv, Clean!TokenMatchesClaim, Clean!RunRemembersClaim, Clean!ClaimsRememberedOnce,
      Clean!NoJob, Clean!NoToken,
      Cleaning!LeaseInv, Cleaning!TokenMatchesClaim, Cleaning!RunRemembersClaim,
      Cleaning!ClaimsRememberedOnce, Cleaning!NoJob, Cleaning!NoToken

LEMMA SameQueue ==
  /\ Clean!Abs!AbsInit <=> Cleaning!Abs!AbsInit
  /\ Clean!Abs!AbsNext <=> Cleaning!Abs!AbsNext
  /\ Clean!Abs!absVars = Cleaning!Abs!absVars
  BY DEF Clean!Abs!AbsInit, Clean!Abs!AbsNext, Clean!Abs!absVars, Clean!Abs!TaskStep,
         Clean!Abs!Submit, Clean!Abs!Grant, Clean!Abs!Lapse, Clean!Abs!Return, Clean!Abs!Finish,
         Clean!Abs!Bury, Clean!Abs!Stay, Clean!phaseOf, Clean!Holds, Clean!LeaseCurrent,
         Cleaning!Abs!AbsInit, Cleaning!Abs!AbsNext, Cleaning!Abs!absVars, Cleaning!Abs!TaskStep,
         Cleaning!Abs!Submit, Cleaning!Abs!Grant, Cleaning!Abs!Lapse, Cleaning!Abs!Return,
         Cleaning!Abs!Finish, Cleaning!Abs!Bury, Cleaning!Abs!Stay, Cleaning!phaseOf,
         Cleaning!Holds, Cleaning!LeaseCurrent

LEMMA SameClaim ==
  ASSUME NEW c \in Cleaner
  PROVE  Clean!Claim(c) <=> Cleaning!Claim(c)
  BY DEF Clean!Claim, Clean!NextTask, Clean!Claimable, Clean!ReadyToRun, Clean!Exhausted,
         Clean!AfterClaim, Clean!Unlocked, Clean!ClaimedRow, Clean!NoJob, Clean!NoToken,
         Cleaning!Claim, Cleaning!NextTask, Cleaning!Claimable, Cleaning!ReadyToRun,
         Cleaning!Exhausted, Cleaning!AfterClaim, Cleaning!Unlocked, Cleaning!ClaimedRow,
         Cleaning!NoJob, Cleaning!NoToken

LEMMA SamePhases ==
  ASSUME NEW c \in Cleaner
  PROVE  Clean!CleanupPhase(c) <=> Cleaning!CleanupPhase(c)
  BY DEF Clean!CleanupPhase, Clean!CheckLease, Clean!LookUpTargets, Clean!DeleteObject,
         Clean!DeleteAssetObject, Clean!HasNoAssets, Clean!DeleteIndex, Clean!DeleteDerivedRows,
         Clean!MarkDeleted, Clean!Running, Clean!Enter, Clean!Deletable, Clean!DocumentWith,
         Clean!Holds, Clean!LeaseCurrent, Clean!Listed, Clean!IndexDeletions,
         Cleaning!CleanupPhase, Cleaning!CheckLease, Cleaning!LookUpTargets,
         Cleaning!DeleteObject, Cleaning!DeleteAssetObject, Cleaning!HasNoAssets,
         Cleaning!DeleteIndex, Cleaning!DeleteDerivedRows, Cleaning!MarkDeleted,
         Cleaning!Running, Cleaning!Enter, Cleaning!Deletable, Cleaning!DocumentWith,
         Cleaning!Holds, Cleaning!LeaseCurrent, Cleaning!Listed, Cleaning!IndexDeletions

LEMMA SameRunEnds ==
  ASSUME NEW c \in Cleaner
  PROVE  /\ Clean!RunEnds(c) <=> Cleaning!RunEnds(c)
         /\ Clean!Renew(c) <=> Cleaning!Renew(c)
  BY DEF Clean!RunEnds, Clean!Complete, Clean!Fail, Clean!LeaseLost, Clean!Crash, Clean!Forget,
         Clean!Running, Clean!Unlocked, Clean!DocumentWith, Clean!Holds, Clean!LeaseCurrent,
         Clean!NoJob, Clean!NoToken, Clean!Renew, Clean!Timed,
         Cleaning!RunEnds, Cleaning!Complete, Cleaning!Fail, Cleaning!LeaseLost, Cleaning!Crash,
         Cleaning!Forget, Cleaning!Running, Cleaning!Unlocked, Cleaning!DocumentWith,
         Cleaning!Holds, Cleaning!LeaseCurrent, Cleaning!NoJob, Cleaning!NoToken,
         Cleaning!Renew, Cleaning!Timed

LEMMA SameRowSteps ==
  ASSUME NEW d \in Doc
  PROVE  /\ Clean!DeleteDocument(d) <=> Cleaning!DeleteDocument(d)
         /\ Clean!TimerElapses(d) <=> Cleaning!TimerElapses(d)
  BY DEF Clean!DeleteDocument, Clean!InsertedRow, Clean!NoToken, Clean!DocumentWith,
         Clean!TimerElapses, Clean!Timed,
         Cleaning!DeleteDocument, Cleaning!InsertedRow, Cleaning!NoToken, Cleaning!DocumentWith,
         Cleaning!TimerElapses, Cleaning!Timed

\* The steps of a run leave cleanup_tasks and its cleaners alone.
LEMMA RunLeavesCleaning ==
  ASSUME NEW w \in Worker, RunStep(w)
  PROVE  UNCHANGED <<cleanup, job>>
  BY DEF RunStep, ClaimTask, RenewTask, StartProcessing, LockDocument, ReadDocument, RunEnd,
         CompleteDocument, CompleteTask, FailTask, FindLeaseLost, DemoteDocument, Die,
         PipelineStage, CheckSideEffects, ProjectDocumentIr, RemoveStructTables,
         RebuildStructTables, ReplaceTableEvidence, SkipStructTables, StoreBodyChunks,
         MirrorAsset, StoreAssetRow, UndoAsset, HasNoAssets, ReplaceIndex, PurgeIndex, InsertIndex,
         InsertIndexFails, FinishProcessing, ProcessFails, cleanerVars

LEMMA NextIsCleanupStep ==
  ASSUME [PipelineNext]_pipelineVars
  PROVE  Cleaning!CleanupStep
  <1>1. ASSUME NEW d \in Doc, ApiStep(d) PROVE Cleaning!CleanupStep
    <2>1. CASE RequestDeletion(d)
      BY <2>1, SameRowSteps DEF RequestDeletion, Cleaning!CleanupStep
    <2>2. CASE ~RequestDeletion(d)
      <3>1. UNCHANGED <<cleanup, job>>
        BY <1>1, <2>2 DEF ApiStep, BeginPut, FinishPut, RejectUpload, CompleteUpload, BeginReindex,
                          EnqueueReindex, ReindexDies, PatchDocument, PublishStep, PublishRow,
                          PublishIndex, PublishVectors, DropStaleIndex, PublishDies, cleanerVars
      <3> QED BY <3>1 DEF Cleaning!CleanupStep
    <2> QED BY <2>1, <2>2
  <1>2. ASSUME NEW w \in Worker, RunStep(w) PROVE Cleaning!CleanupStep
    BY <1>2, RunLeavesCleaning DEF Cleaning!CleanupStep
  <1>3. ASSUME NEW t \in Task, TimerStep(t) PROVE Cleaning!CleanupStep
    BY <1>3 DEF TimerStep, cleanerVars, Cleaning!CleanupStep
  <1>4. CASE CleanerStep
    <2>1. ASSUME NEW c \in Cleaner, Clean!CleanerStep(c) PROVE Cleaning!CleanerStep(c)
      BY <2>1, SameClaim, SamePhases, SameRunEnds DEF Clean!CleanerStep, Cleaning!CleanerStep
    <2> QED BY <1>4, <2>1, SameRowSteps DEF CleanerStep, Cleaning!CleanupStep
  <1>5. CASE UNCHANGED pipelineVars
    BY <1>5 DEF pipelineVars, cleanerVars, Cleaning!CleanupStep
  <1> QED BY <1>1, <1>2, <1>3, <1>4, <1>5 DEF PipelineNext

LEMMA NextKeepsCleaningLease ==
  ASSUME Cleaning!LeaseInv, PipelineInv', [PipelineNext]_pipelineVars
  PROVE  Cleaning!LeaseInv'
  <1>1. Cleaning!TypeOK'
    BY SameTypes, PTL DEF PipelineInv, PipelineTypeOK
  <1> QED BY <1>1, NextIsCleanupStep, CleaningAssumption, Cleaning!StepKeepsLease
          DEF Cleaning!CleanupAssumption

\* The lease part of the invariant of CleanupQueue, which needs no other part.
LEMMA CleaningLease == PipelineSpec => []Cleaning!LeaseInv
  <1>1. PipelineInit => Cleaning!LeaseInv
    <2> SUFFICES ASSUME PipelineInit PROVE Cleaning!LeaseInv
      OBVIOUS
    <2>1. Cleaning!TypeOK
      BY InitEstablishesInv, SameTypes DEF PipelineInv, PipelineTypeOK
    <2>2. cleanup = [d \in Doc |-> Cleaning!NoRow] /\ job = [c \in Cleaner |-> Cleaning!NoJob]
      BY DEF PipelineInit, Clean!NoRow, Clean!NoJob, Clean!NoToken, Cleaning!NoRow,
             Cleaning!NoJob, Cleaning!NoToken
    <2> QED BY <2>1, <2>2
            DEF Cleaning!LeaseInv, Cleaning!TokenMatchesClaim, Cleaning!RunRemembersClaim,
                Cleaning!ClaimsRememberedOnce, Cleaning!NoRow
  <1>2. Cleaning!LeaseInv /\ PipelineInv' /\ [PipelineNext]_pipelineVars => Cleaning!LeaseInv'
    BY NextKeepsCleaningLease
  <1> QED BY <1>1, <1>2, PipelineInvariant, PTL DEF PipelineSpec

\* Every behaviour of the composition is, for its cleanup tasks, one of the
\* abstract leased queue: the writes of ingestion runs and of the API disturb
\* neither the claims nor the attempt budget.
THEOREM PipelineCleansLikeTheQueue == PipelineSpec => CleansLikeTheQueue
  <1>1. PipelineInit => Clean!Abs!AbsInit
    <2> SUFFICES ASSUME PipelineInit PROVE Clean!Abs!AbsInit
      OBVIOUS
    <2>1. cleanup = [d \in Doc |-> Cleaning!NoRow] /\ job = [c \in Cleaner |-> Cleaning!NoJob]
      BY DEF PipelineInit, Clean!NoRow, Clean!NoJob, Clean!NoToken, Cleaning!NoRow,
             Cleaning!NoJob, Cleaning!NoToken
    <2> QED BY <2>1, SameQueue, CleaningAssumption, Cleaning!InitImplements
            DEF Cleaning!CleanupAssumption
  <1>2. /\ Cleaning!LeaseInv /\ Cleaning!LeaseInv' /\ [PipelineNext]_pipelineVars
        => [Clean!Abs!AbsNext]_(Clean!Abs!absVars)
    <2> SUFFICES ASSUME Cleaning!LeaseInv, Cleaning!LeaseInv', [PipelineNext]_pipelineVars
                 PROVE  Clean!Abs!AbsNext
      OBVIOUS
    <2> QED BY NextIsCleanupStep, SameQueue, CleaningAssumption, Cleaning!StepImplements
            DEF Cleaning!CleanupAssumption
  <1> QED BY <1>1, <1>2, CleaningLease, PTL
          DEF PipelineSpec, CleansLikeTheQueue, Clean!ImplementsTaskLease, Clean!Abs!AbsSpec

------------------------------------------------------------------------------
(* How deletions end.                                                       *)

\* The cleanup run of a document passes its last phase when the document is
\* marked, a task is completed by such a run, and an error is only ever set on
\* a document being deleted.
LEMMA CleaningEnds ==
  ASSUME PipelineInv, CleanerStep
  PROVE  /\ \A c \in Cleaner : job'[c].doc # NoDoc /\ job'[c].phase = "ok" =>
               \/ job[c].doc = job'[c].doc /\ job[c].phase = "ok"
               \/ document'[job'[c].doc].status = "deleted"
               \/ ~Unpublished(job'[c].doc)
         /\ \A d \in Doc : cleanup'[d].status = "completed" =>
               \/ cleanup[d].status = "completed"
               \/ \E c \in Cleaner : job[c].doc = d /\ job[c].phase = "ok"
         /\ \A d \in Doc : document'[d].status # "deleting" =>
               \/ document'[d] = document[d]
               \/ document'[d].deletion_error = "none"
  <1>0. Clean!TypeOK /\ CleanupMeansDeletion
    BY DEF PipelineInv, PipelineTypeOK
  <1>1. /\ document \in [Doc -> Clean!Document] /\ cleanup \in [Doc -> Clean!CleanupRow]
        /\ job \in [Cleaner -> Clean!Job]
    BY <1>0 DEF Clean!TypeOK
  <1>2. \A c \in Cleaner : job[c].doc # NoDoc =>
           job[c].doc \in Doc /\ (Unpublished(job[c].doc) => ~Alive(job[c].doc))
    BY <1>0, <1>1 DEF CleanupMeansDeletion, Clean!Job
  <1>3. ASSUME NEW d \in Doc, NEW timer, UNCHANGED <<document, job>>,
               cleanup' = [cleanup EXCEPT ![d] = Clean!Timed(cleanup[d], timer)]
        PROVE  /\ \A c \in Cleaner : job'[c].doc # NoDoc /\ job'[c].phase = "ok" =>
                     job[c].doc = job'[c].doc /\ job[c].phase = "ok"
               /\ \A e \in Doc : cleanup'[e].status = cleanup[e].status
    BY <1>1, <1>3 DEF Clean!Timed
  <1>4. ASSUME NEW d \in Doc, Clean!TimerElapses(d)
        PROVE  /\ \A c \in Cleaner : job'[c].doc # NoDoc /\ job'[c].phase = "ok" =>
                     job[c].doc = job'[c].doc /\ job[c].phase = "ok"
               /\ \A e \in Doc : cleanup'[e].status = cleanup[e].status
               /\ UNCHANGED document
    BY <1>3, <1>4 DEF Clean!TimerElapses
  <1>5. ASSUME NEW c \in Cleaner, Clean!Renew(c)
        PROVE  /\ \A b \in Cleaner : job'[b].doc # NoDoc /\ job'[b].phase = "ok" =>
                     job[b].doc = job'[b].doc /\ job[b].phase = "ok"
               /\ \A e \in Doc : cleanup'[e].status = cleanup[e].status
               /\ UNCHANGED document
    BY <1>3, <1>5 DEF Clean!Renew
  <1>6. ASSUME NEW c \in Cleaner, Clean!Claim(c)
        PROVE  /\ \A b \in Cleaner : job'[b].doc # NoDoc /\ job'[b].phase = "ok" =>
                     job[b].doc = job'[b].doc /\ job[b].phase = "ok"
               /\ \A e \in Doc : cleanup'[e].status = "completed" => cleanup[e].status = "completed"
               /\ UNCHANGED document
    <2>1. \A b \in Cleaner : job'[b] = job[b] \/ job'[b].phase = "targets"
      <3>1. ASSUME NEW d, job' = [job EXCEPT ![c] =
                     [doc |-> d, token |-> cleanup[d].attempt_count + 1,
                      phase |-> "targets", checked |-> "no", listed |-> {}]]
            PROVE  \A b \in Cleaner : job'[b] = job[b] \/ job'[b].phase = "targets"
        BY <1>1, <3>1
      <3>2. \/ UNCHANGED job
            \/ \E d : job' = [job EXCEPT ![c] =
                     [doc |-> d, token |-> cleanup[d].attempt_count + 1,
                      phase |-> "targets", checked |-> "no", listed |-> {}]]
        BY <1>6 DEF Clean!Claim
      <3> QED BY <3>1, <3>2
    <2>2. \A granted : cleanup' = Clean!AfterClaim(granted) =>
             \A e \in Doc : cleanup'[e].status \in {"dead_letter", "processing", cleanup[e].status}
      BY <1>1 DEF Clean!AfterClaim, Clean!Unlocked, Clean!ClaimedRow
    <2>3. \E granted : cleanup' = Clean!AfterClaim(granted)
      BY <1>6 DEF Clean!Claim
    <2> QED BY <1>6, <2>1, <2>2, <2>3 DEF Clean!Claim
  <1>7. ASSUME NEW c \in Cleaner, Clean!CleanupPhase(c)
        PROVE  /\ \A b \in Cleaner : job'[b].doc # NoDoc /\ job'[b].phase = "ok" =>
                     \/ job[b].doc = job'[b].doc /\ job[b].phase = "ok"
                     \/ document'[job'[b].doc].status = "deleted"
                     \/ ~Unpublished(job'[b].doc)
               /\ UNCHANGED cleanup
               /\ \A d \in Doc : document'[d].status # "deleting" =>
                     \/ document'[d] = document[d]
                     \/ document'[d].deletion_error = "none"
    <2>1. ASSUME NEW phase, NEW listed, Clean!Enter(c, phase, listed)
          PROVE  /\ \A b \in Cleaner : b # c => job'[b] = job[b]
                 /\ job'[c].doc = job[c].doc /\ job'[c].phase = phase
      BY <1>1, <2>1 DEF Clean!Enter
    <2>2. CASE Clean!MarkDeleted(c)
      <3>1. /\ document' = [document EXCEPT ![job[c].doc] = Clean!DocumentWith("deleted", "none")]
            /\ Clean!Enter(c, "ok", {}) /\ UNCHANGED cleanup /\ job[c].doc # NoDoc
        BY <2>2 DEF Clean!MarkDeleted, Clean!Running
      <3>2. /\ document'[job[c].doc] = Clean!DocumentWith("deleted", "none")
            /\ \A d \in Doc : d # job[c].doc => document'[d] = document[d]
        BY <1>1, <1>2, <3>1
      <3> QED BY <2>1, <3>1, <3>2 DEF Clean!DocumentWith
    <2>3. CASE Clean!CheckLease(c)
      <3>1. \A b \in Cleaner : job'[b].doc = job[b].doc /\ job'[b].phase = job[b].phase
        BY <1>1, <2>3 DEF Clean!CheckLease
      <3> QED BY <2>3, <3>1 DEF Clean!CheckLease
    <2>4. CASE Clean!LookUpTargets(c)
      <3>1. \/ Clean!Enter(c, "object", Clean!Listed(job[c].doc))
            \/ ~Unpublished(job[c].doc) /\ Clean!Enter(c, "ok", {})
        BY <1>2, <2>4 DEF Clean!LookUpTargets, Clean!Running, Clean!Deletable, Alive
      <3> QED BY <2>1, <2>4, <3>1 DEF Clean!LookUpTargets
    <2>5. CASE ~(Clean!MarkDeleted(c) \/ Clean!CheckLease(c) \/ Clean!LookUpTargets(c))
      <3>1. \E phase, listed : phase # "ok" /\ Clean!Enter(c, phase, listed)
        BY <1>7, <2>5
        DEF Clean!CleanupPhase, Clean!DeleteObject, Clean!DeleteAssetObject, Clean!HasNoAssets,
            Clean!DeleteIndex, Clean!DeleteDerivedRows
      <3>2. UNCHANGED <<cleanup, document>>
        BY <1>7, <2>5
        DEF Clean!CleanupPhase, Clean!DeleteObject, Clean!DeleteAssetObject, Clean!HasNoAssets,
            Clean!DeleteIndex, Clean!DeleteDerivedRows
      <3> QED BY <2>1, <3>1, <3>2
    <2> QED BY <2>2, <2>3, <2>4, <2>5
  <1>8. ASSUME NEW c \in Cleaner, Clean!RunEnds(c)
        PROVE  /\ \A b \in Cleaner : job'[b].doc # NoDoc /\ job'[b].phase = "ok" =>
                     job[b].doc = job'[b].doc /\ job[b].phase = "ok"
               /\ \A d \in Doc : cleanup'[d].status = "completed" =>
                     \/ cleanup[d].status = "completed"
                     \/ job[c].doc = d /\ job[c].phase = "ok"
               /\ \A d \in Doc : document'[d].status # "deleting" => document'[d] = document[d]
    <2>1. \A b \in Cleaner : b # c => job'[b] = job[b]
      BY <1>1, <1>8 DEF Clean!RunEnds, Clean!Complete, Clean!Fail, Clean!LeaseLost, Clean!Crash,
                        Clean!Forget
    <2>2. job'[c].doc = NoDoc
      BY <1>1, <1>8 DEF Clean!RunEnds, Clean!Complete, Clean!Fail, Clean!LeaseLost, Clean!Crash,
                        Clean!Forget, Clean!NoJob
    <2>3. CASE Clean!Complete(c)
      <3>1. PICK d \in Doc : /\ Clean!Holds(c, d)
                             /\ cleanup' = [cleanup EXCEPT ![d] = Clean!Unlocked(cleanup[d], "completed")]
        BY <2>3 DEF Clean!Complete
      <3>2. job[c].doc = d /\ job[c].phase = "ok" /\ UNCHANGED document
        BY <2>3, <3>1 DEF Clean!Complete, Clean!Running, Clean!Holds
      <3>3. \A e \in Doc : e # d => cleanup'[e] = cleanup[e]
        BY <1>1, <3>1
      <3> QED BY <2>1, <2>2, <3>2, <3>3
    <2>4. CASE Clean!Fail(c)
      <3>1. PICK d \in Doc, status \in {"queued", "dead_letter"} :
               /\ cleanup' = [cleanup EXCEPT ![d] = Clean!Unlocked(cleanup[d], status)]
               /\ document' = IF document[d].status = "deleting"
                              THEN [document EXCEPT ![d] = Clean!DocumentWith("deleting", "set")]
                              ELSE document
        BY <2>4 DEF Clean!Fail
      <3>2. \A e \in Doc : cleanup'[e].status \in {"queued", "dead_letter", cleanup[e].status}
        BY <1>1, <3>1 DEF Clean!Unlocked
      <3>3. \A e \in Doc : document'[e].status # "deleting" => document'[e] = document[e]
        BY <1>1, <3>1 DEF Clean!DocumentWith
      <3> QED BY <2>1, <2>2, <3>2, <3>3
    <2>5. CASE Clean!LeaseLost(c) \/ Clean!Crash(c)
      BY <2>1, <2>2, <2>5 DEF Clean!LeaseLost, Clean!Crash
    <2> QED BY <1>8, <2>3, <2>4, <2>5 DEF Clean!RunEnds
  <1> QED BY <1>4, <1>5, <1>6, <1>7, <1>8 DEF CleanerStep, Clean!CleanerStep

\* A status is set on documents that are not being deleted and keeps the error.
LEMMA StatusErrors ==
  ASSUME PipelineInv, [PipelineNext]_pipelineVars, ~CleanerStep, NEW d \in Doc,
         document'[d].status # "deleting"
  PROVE  \/ document'[d].deletion_error = document[d].deletion_error /\ Alive(d)
         \/ document'[d].deletion_error = "none"
         \/ document'[d] = document[d]
         \/ ~UnpublishedNext(d)
  <1>1. document \in [Doc -> Clean!Document] /\ published \in [Doc -> Publication]
    BY DEF PipelineInv, PipelineTypeOK, Clean!TypeOK
  <1>2. ASSUME NEW e, NEW s, SetStatus(e, s)
        PROVE  \/ document'[d].deletion_error = document[d].deletion_error /\ Alive(d)
               \/ document'[d] = document[d]
    BY <1>1, <1>2 DEF SetStatus, Clean!DocumentWith
  <1>3. ASSUME NEW e \in Doc, ApiStep(e)
        PROVE  \/ UNCHANGED document
               \/ \E s : SetStatus(e, s)
               \/ document'[d] = document[d] \/ document'[d].deletion_error = "none"
               \/ ~UnpublishedNext(d)
    <2>1. CASE RequestDeletion(e)
      BY <1>1, <2>1 DEF RequestDeletion, Clean!DeleteDocument, Clean!DocumentWith
    <2>2. CASE PublishRow(e)
      <3>1. d = e => published'[d] = "upserted"
        BY <1>1, <2>2 DEF PublishRow, Publish
      <3>2. d # e => document'[d] = document[d]
        BY <1>1, <2>2 DEF PublishRow
      <3> QED BY <3>1, <3>2 DEF UnpublishedNext
    <2> QED BY <1>3, <2>1, <2>2
            DEF ApiStep, BeginPut, FinishPut, RejectUpload, CompleteUpload, BeginReindex,
                EnqueueReindex, ReindexDies, PatchDocument, PublishStep, PublishIndex,
                PublishVectors, DropStaleIndex, PublishDies
  <1>4. ASSUME NEW w \in Worker, RunStep(w)
        PROVE  UNCHANGED document \/ \E e, s : SetStatus(e, s)
    BY <1>4 DEF RunStep, ClaimTask, RenewTask, StartProcessing, LockDocument, ReadDocument, RunEnd,
                CompleteDocument, CompleteTask, FailTask, FindLeaseLost, DemoteDocument, Die,
                PipelineStage, CheckSideEffects, ProjectDocumentIr, RemoveStructTables,
                RebuildStructTables, ReplaceTableEvidence, SkipStructTables, StoreBodyChunks,
                MirrorAsset, StoreAssetRow, UndoAsset, HasNoAssets, ReplaceIndex, PurgeIndex, InsertIndex,
                InsertIndexFails, FinishProcessing, ProcessFails
  <1>5. ASSUME NEW t \in Task, TimerStep(t) PROVE UNCHANGED document
    BY <1>5 DEF TimerStep
  <1> QED BY <1>2, <1>3, <1>4, <1>5 DEF PipelineNext, pipelineVars

\* No statement but the insert brings a task to life.
LEMMA OnlyInsertsRevive ==
  ASSUME LeaseInv, NEW t \in Task, Live(t)',
         \/ \E w \in Worker : WorkerStep(w)
         \/ \E u \in Task : BackoffElapses(u) \/ LeaseExpires(u)
         \/ \E d \in Doc : BuryTasksOf(d)
         \/ UNCHANGED rows
  PROVE  Live(t)
  <1>1. rows \in [Task -> Row]
    BY LeaseInvByRows
  <1>2. ASSUME NEW u \in Task, Live(u), NEW row, rows' = [rows EXCEPT ![u] = row] PROVE Live(t)
    BY <1>1, <1>2 DEF Live
  <1>3. ASSUME NEW w \in Worker, Claim(w) PROVE Live(t)
    <2>1. PICK granted \in SUBSET Claimable(w) : rows' = AfterClaim(granted)
      BY <1>3 DEF Claim, NextTask
    <2>2. t \in Exhausted \/ t \in granted \/ rows'[t] = rows[t]
      BY <2>1 DEF AfterClaim
    <2> QED BY <2>1, <2>2 DEF Exhausted, Claimable, ReadyToRun, Live
  <1>4. ASSUME NEW w \in Worker, WorkerStep(w), ~Claim(w) PROVE Live(t)
    <2>1. \/ UNCHANGED rows
          \/ \E u \in Task : \E row : Holds(w, u) /\ rows' = [rows EXCEPT ![u] = row]
      BY <1>4 DEF WorkerStep, Renew, Complete, Fail, FailTerminal, LeaseLost, Abandon
    <2> QED BY <1>2, <2>1 DEF Holds, LeaseCurrent, Live
  <1>5. ASSUME NEW u \in Task, BackoffElapses(u) \/ LeaseExpires(u) PROVE Live(t)
    BY <1>2, <1>5 DEF BackoffElapses, LeaseExpires, Live
  <1>6. ASSUME NEW d \in Doc, BuryTasksOf(d) PROVE Live(t)
    BY <1>6 DEF BuryTasksOf, Live, DeadLettered
  <1> QED BY <1>3, <1>4, <1>5, <1>6 DEF Live

LEMMA RunsReviveNothing ==
  ASSUME LeaseInv, NEW w \in Worker, RunStep(w), NEW t \in Task, Live(t)'
  PROVE  Live(t)
  <1>1. WorkerStep(w) \/ UNCHANGED rows
    BY DEF RunStep, ClaimTask, RenewTask, StartProcessing, LockDocument, ReadDocument, RunEnd,
           CompleteDocument, CompleteTask, FailTask, FindLeaseLost, DemoteDocument, Die,
           PipelineStage, CheckSideEffects, ProjectDocumentIr, RemoveStructTables,
           RebuildStructTables, ReplaceTableEvidence, SkipStructTables, StoreBodyChunks,
           MirrorAsset, StoreAssetRow, UndoAsset, HasNoAssets, ReplaceIndex, PurgeIndex, InsertIndex,
         InsertIndexFails, FinishProcessing, ProcessFails, WorkerStep
  <1> QED BY <1>1, OnlyInsertsRevive

\* Only delete_document begins a deletion.
LEMMA OnlyRequestsDelete ==
  ASSUME PipelineInv, [PipelineNext]_pipelineVars, NEW d \in Doc, Alive(d), ~AliveNext(d)
  PROVE  RequestDeletion(d)
  <1>0. document \in [Doc -> Clean!Document]
    BY DEF PipelineInv, PipelineTypeOK, Clean!TypeOK
  <1>1. document'[d] # document[d]
    BY DEF Alive, AliveNext
  <1>2. ASSUME NEW e, NEW s \in Clean!DocumentStatus \ {"deleting", "deleted"}, SetStatus(e, s)
        PROVE  FALSE
    BY <1>0, <1>1, <1>2 DEF SetStatus, Clean!DocumentWith, AliveNext
  <1>3. ASSUME NEW e \in Doc, ApiStep(e) PROVE RequestDeletion(d)
    <2>1. CASE RequestDeletion(e)
      BY <1>0, <1>1, <2>1 DEF RequestDeletion, Clean!DeleteDocument
    <2>2. CASE PublishRow(e)
      BY <1>0, <1>1, <2>2 DEF PublishRow, Clean!DocumentWith, AliveNext
    <2>3. CASE PatchDocument(e)
      <3>1. PICK s \in PatchStatus \cup {document[e].status} : SetStatus(e, s)
        BY <2>3 DEF PatchDocument
      <3>2. s \in Clean!DocumentStatus \ {"deleting", "deleted"}
        BY <1>0, <3>1, PipelineAssumption DEF SetStatus, Alive, Clean!Document
      <3> QED BY <1>2, <3>1, <3>2
    <2>4. CASE ~RequestDeletion(e) /\ ~PublishRow(e) /\ ~PatchDocument(e)
      <3>1. UNCHANGED document \/ \E s \in {"upload_invalid", "queued"} : SetStatus(e, s)
        BY <1>3, <2>4 DEF ApiStep, BeginPut, FinishPut, RejectUpload, CompleteUpload, BeginReindex,
                          EnqueueReindex, ReindexDies, PublishStep, PublishIndex, PublishVectors,
                          DropStaleIndex, PublishDies
      <3> QED BY <1>1, <1>2, <3>1 DEF Clean!DocumentStatus
    <2> QED BY <2>1, <2>2, <2>3, <2>4
  <1>4. ASSUME NEW w \in Worker, RunStep(w) PROVE FALSE
    <2>1. \/ UNCHANGED document
          \/ \E s \in {"processing", "completed", "queued", "failed"} : SetStatus(run[w].doc, s)
      BY <1>4 DEF RunStep, ClaimTask, RenewTask, StartProcessing, LockDocument, ReadDocument, RunEnd,
                  CompleteDocument, CompleteTask, FailTask, FindLeaseLost, DemoteDocument, Die,
                  PipelineStage, CheckSideEffects, ProjectDocumentIr, RemoveStructTables,
                  RebuildStructTables, ReplaceTableEvidence, SkipStructTables, StoreBodyChunks,
                  MirrorAsset, StoreAssetRow, UndoAsset, HasNoAssets, ReplaceIndex, PurgeIndex, InsertIndex,
                  InsertIndexFails, FinishProcessing, ProcessFails
    <2> QED BY <1>1, <1>2, <2>1 DEF Clean!DocumentStatus
  <1>5. ASSUME NEW t \in Task, TimerStep(t) PROVE FALSE
    BY <1>1, <1>5 DEF TimerStep
  <1>6. CASE CleanerStep
    <2>1. \/ UNCHANGED document
          \/ \E e \in Doc : \E row : ~Alive(e) /\ document' = [document EXCEPT ![e] = row]
          \/ \E c \in Cleaner : \E row :
                /\ ~Alive(job[c].doc)
                /\ document' = [document EXCEPT ![job[c].doc] = row]
      BY <1>6
      DEF CleanerStep, Clean!CleanerStep, Clean!TimerElapses, Clean!Claim, Clean!Renew,
          Clean!CleanupPhase, Clean!CheckLease, Clean!LookUpTargets, Clean!DeleteObject,
          Clean!DeleteAssetObject, Clean!HasNoAssets, Clean!DeleteIndex, Clean!DeleteDerivedRows,
          Clean!MarkDeleted, Clean!RunEnds, Clean!Complete, Clean!Fail, Clean!LeaseLost,
          Clean!Crash, Clean!Deletable, Alive
    <2> QED BY <1>0, <1>1, <2>1
  <1>7. CASE UNCHANGED pipelineVars
    BY <1>1, <1>7 DEF pipelineVars
  <1> QED BY <1>3, <1>4, <1>5, <1>6, <1>7 DEF PipelineNext

\* Inserting an upload task and burying it look at the status they go with.
LEMMA UploadsStayBuried ==
  ASSUME PipelineInv, DeletionBuriesUploads, [PipelineNext]_pipelineVars
  PROVE  DeletionBuriesUploads'
  <1> SUFFICES ASSUME NEW t \in IngestTask, ~AliveNext(DocOf[t]), Live(t)'
               PROVE  FALSE
    BY DEF DeletionBuriesUploads, Alive, AliveNext
  <1>0. /\ t \in Task /\ DocOf[t] \in Doc
        /\ LeaseInv /\ document \in [Doc -> Clean!Document] /\ rows \in [Task -> Row]
    BY PipelineAssumption, ConstantsAssumption, LeaseInvByRows
    DEF PipelineInv, PipelineTypeOK, Clean!TypeOK
  <1>1. ASSUME Live(t) PROVE FALSE
    <2>1. RequestDeletion(DocOf[t]) /\ Alive(DocOf[t])
      BY <1>0, <1>1, OnlyRequestsDelete DEF DeletionBuriesUploads
    <2>2. rows'[t] = DeadLettered(rows[t])
      BY <1>0, <1>1, <2>1 DEF RequestDeletion, BuryTasksOf, Alive
    <2> QED BY <2>2 DEF Live, DeadLettered
  <1>2. ASSUME ~Live(t), NEW d \in Doc, ApiStep(d) PROVE FALSE
    <2>1. rows'[t] # rows[t]
      BY <1>2 DEF Live
    <2>2. CASE CompleteUpload(d)
      <3>1. PICK u \in IngestTask : DocOf[u] = d /\ Insert(u)
        BY <2>1, <2>2 DEF CompleteUpload
      <3>2. DocOf[t] = d
        BY <1>0, <2>1, <3>1 DEF Insert
      <3>3. document'[d].status = "queued"
        BY <1>0, <2>2 DEF CompleteUpload, SetStatus, Clean!DocumentWith
      <3> QED BY <3>2, <3>3 DEF AliveNext
    <2>3. CASE EnqueueReindex(d)
      BY <1>0, <2>1, <2>3 DEF EnqueueReindex, Insert
    <2>4. CASE RequestDeletion(d)
      BY <1>0, <1>2, <2>4, OnlyInsertsRevive DEF RequestDeletion
    <2> QED BY <1>2, <2>1, <2>2, <2>3, <2>4
            DEF ApiStep, BeginPut, FinishPut, RejectUpload, BeginReindex, ReindexDies, PatchDocument,
                PublishStep, PublishRow, PublishIndex, PublishVectors, DropStaleIndex, PublishDies
  <1>3. ASSUME ~Live(t), NEW w \in Worker, RunStep(w) PROVE FALSE
    BY <1>0, <1>3, RunsReviveNothing
  <1>4. ASSUME ~Live(t), NEW u \in Task, TimerStep(u) PROVE FALSE
    BY <1>0, <1>4, OnlyInsertsRevive DEF TimerStep
  <1>5. ASSUME ~Live(t), CleanerStep \/ UNCHANGED pipelineVars PROVE FALSE
    BY <1>5 DEF CleanerStep, pipelineVars, Live
  <1> QED BY <1>1, <1>2, <1>3, <1>4, <1>5 DEF PipelineNext

\* No step forgets that a publish commit has met a document.
LEMMA StepPublishes == PipelineInv /\ [PipelineNext]_pipelineVars => PublishedStays
  <1> SUFFICES ASSUME PipelineInv, [PipelineNext]_pipelineVars PROVE PublishedStays
    OBVIOUS
  <1>1. published \in [Doc -> Publication]
    BY DEF PipelineInv, PipelineTypeOK
  <1>2. UNCHANGED published \/ \E d \in Doc, stage \in Publication \ {"never"} : Publish(d, stage)
    <2>1. ASSUME NEW d \in Doc, ApiStep(d)
          PROVE  UNCHANGED published \/ \E stage \in Publication \ {"never"} : Publish(d, stage)
      BY <2>1 DEF ApiStep, BeginPut, FinishPut, RejectUpload, CompleteUpload, BeginReindex,
                  EnqueueReindex, ReindexDies, PatchDocument, RequestDeletion, PublishStep,
                  PublishRow, PublishIndex, PublishVectors, DropStaleIndex, PublishDies,
                  Publication, apiVars, placeVars
    <2>2. ASSUME NEW w \in Worker, RunStep(w) PROVE UNCHANGED published
      BY <2>2 DEF RunStep, ClaimTask, RenewTask, StartProcessing, LockDocument, ReadDocument, RunEnd,
                  CompleteDocument, CompleteTask, FailTask, FindLeaseLost, DemoteDocument, Die,
                  PipelineStage, CheckSideEffects, ProjectDocumentIr, RemoveStructTables,
                  RebuildStructTables, ReplaceTableEvidence, SkipStructTables, StoreBodyChunks,
                  MirrorAsset, StoreAssetRow, UndoAsset, HasNoAssets, ReplaceIndex, PurgeIndex,
                  InsertIndex, InsertIndexFails, FinishProcessing, ProcessFails, apiVars, placeVars
    <2> QED BY <2>1, <2>2
            DEF PipelineNext, TimerStep, CleanerStep, pipelineVars, apiVars, placeVars
  <1> QED BY <1>1, <1>2 DEF PublishedStays, Publish, Unpublished, UnpublishedNext

LEMMA NextKeepsDeletionInv ==
  ASSUME DeletionInv, PipelineInv', [PipelineNext]_pipelineVars
  PROVE  DeletionInv'
  <1>0. /\ PipelineInv /\ document \in [Doc -> Clean!Document] /\ published \in [Doc -> Publication]
        /\ \A c \in Cleaner : job[c].doc # NoDoc => job[c].doc \in Doc
        /\ NoDoc \notin Doc
    BY PipelineAssumption DEF DeletionInv, PipelineInv, PipelineTypeOK, Clean!TypeOK, Clean!Job
  <1>1. Clean!LeaseInv'
    <2>1. Cleaning!LeaseInv
      BY SameLease DEF DeletionInv
    <2> QED BY <2>1, NextKeepsCleaningLease, SameLease, PTL
  <1>2. DeletionBuriesUploads'
    BY <1>0, UploadsStayBuried DEF DeletionInv
  <1>3. \A d \in Doc : UnpublishedNext(d) =>
           /\ Unpublished(d)
           /\ document[d].status = "deleted" => document'[d].status = "deleted"
    <2>1. \A d \in Doc : UnpublishedNext(d) => Unpublished(d)
      BY <1>0, StepPublishes DEF PublishedStays
    <2> QED BY <1>0, <2>1, StepKeepsDeletion DEF DeletionStays, UnpublishedNext
  \* How a run comes to its Ok, a task to completed and an error to be shown.
  <1>4. /\ \A c \in Cleaner : job'[c].doc # NoDoc /\ job'[c].phase = "ok" =>
              \/ job[c].doc = job'[c].doc /\ job[c].phase = "ok"
              \/ document'[job'[c].doc].status = "deleted"
              \/ ~UnpublishedNext(job'[c].doc)
        /\ \A d \in Doc : cleanup'[d].status = "completed" =>
              \/ cleanup[d].status = "completed"
              \/ \E c \in Cleaner : job[c].doc = d /\ job[c].phase = "ok"
        /\ \A d \in Doc : document'[d].status # "deleting" =>
              \/ document'[d].deletion_error = document[d].deletion_error /\ document[d].status # "deleting"
              \/ document'[d].deletion_error = "none"
              \/ ~UnpublishedNext(d)
    <2>1. CASE CleanerStep
      <3>1. UNCHANGED published
        BY <2>1 DEF CleanerStep, apiVars, placeVars
      <3>2. \A d \in Doc : document'[d] = document[d] /\ document'[d].status # "deleting" =>
               /\ document'[d].deletion_error = document[d].deletion_error
               /\ document[d].status # "deleting"
        OBVIOUS
      <3> QED BY <1>0, <2>1, <3>1, <3>2, CleaningEnds DEF Unpublished, UnpublishedNext
    <2>2. CASE ~CleanerStep
      <3>1. UNCHANGED <<cleanup, job>> \/ \E d \in Doc : RequestDeletion(d)
        BY <2>2, RunLeavesCleaning
        DEF PipelineNext, ApiStep, BeginPut, FinishPut, RejectUpload, CompleteUpload, BeginReindex,
            EnqueueReindex, ReindexDies, PatchDocument, PublishStep, PublishRow, PublishIndex,
            PublishVectors, DropStaleIndex, PublishDies, TimerStep, cleanerVars, pipelineVars
      <3>2. cleanup \in [Doc -> Clean!CleanupRow]
        BY <1>0 DEF PipelineInv, PipelineTypeOK, Clean!TypeOK
      <3>3. /\ UNCHANGED job
            /\ \A d \in Doc : cleanup'[d].status = "completed" => cleanup[d].status = "completed"
        BY <3>1, <3>2 DEF RequestDeletion, Clean!DeleteDocument, Clean!InsertedRow
      <3>4. ASSUME NEW d \in Doc, document'[d].status # "deleting"
            PROVE  \/ /\ document'[d].deletion_error = document[d].deletion_error
                      /\ document[d].status # "deleting"
                   \/ document'[d].deletion_error = "none"
                   \/ ~UnpublishedNext(d)
        BY <1>0, <2>2, <3>4, StatusErrors DEF Alive
      <3> QED BY <3>3, <3>4
    <2> QED BY <2>1, <2>2
  <1>5. ASSUME NEW c \in Cleaner, job[c].doc # NoDoc, job[c].phase = "ok", UnpublishedNext(job[c].doc)
        PROVE  document'[job[c].doc].status = "deleted"
    BY <1>0, <1>3, <1>5 DEF DeletionInv
  <1>6. \A c \in Cleaner : job'[c].doc # NoDoc /\ job'[c].phase = "ok" /\ UnpublishedNext(job'[c].doc) =>
           document'[job'[c].doc].status = "deleted"
    BY <1>4, <1>5
  <1>7. ASSUME NEW d \in Doc, UnpublishedNext(d)
        PROVE  /\ cleanup'[d].status = "completed" => document'[d].status = "deleted"
               /\ document'[d].status # "deleting" => document'[d].deletion_error = "none"
    <2>1. /\ cleanup[d].status = "completed" => document[d].status = "deleted"
          /\ document[d].status # "deleting" => document[d].deletion_error = "none"
      BY <1>3, <1>7 DEF DeletionInv, CleanupEndsInDeletion
    <2>2. (\E c \in Cleaner : job[c].doc = d /\ job[c].phase = "ok") => document'[d].status = "deleted"
      BY <1>0, <1>5, <1>7
    <2> QED BY <1>3, <1>4, <1>7, <2>1, <2>2
  <1> QED BY <1>1, <1>2, <1>6, <1>7
          DEF DeletionInv, CleanupEndsInDeletion, Unpublished, UnpublishedNext

LEMMA InitEstablishesDeletionInv == PipelineInit => DeletionInv
  <1> SUFFICES ASSUME PipelineInit PROVE DeletionInv
    OBVIOUS
  <1>1. /\ \A d \in Doc : /\ document[d].status = "pending" /\ document[d].deletion_error = "none"
                          /\ cleanup[d].status = "new"
        /\ \A c \in Cleaner : job[c].doc = NoDoc /\ job[c] = Clean!NoJob
        /\ \A t \in Task : rows[t].status = "new"
    BY DEF PipelineInit, QueueInit, NotYetInserted, Clean!DocumentWith, Clean!NoRow, Clean!NoJob
  <1>2. Clean!LeaseInv
    <2>1. Clean!TypeOK
      BY InitEstablishesInv DEF PipelineInv, PipelineTypeOK
    <2>2. \A d \in Doc : cleanup[d].attempt_count = 0
      BY DEF PipelineInit, Clean!NoRow
    <2> QED BY <1>1, <2>1, <2>2
            DEF Clean!LeaseInv, Clean!TokenMatchesClaim, Clean!RunRemembersClaim,
                Clean!ClaimsRememberedOnce
  <1> QED BY <1>1, <1>2, InitEstablishesInv, PipelineAssumption
          DEF DeletionInv, CleanupEndsInDeletion, DeletionBuriesUploads, Live

\* The second layer of the invariant, from the first one and DeletionStays.
THEOREM DeletionInvariant == PipelineSpec => []DeletionInv
  <1>1. DeletionInv /\ PipelineInv' /\ [PipelineNext]_pipelineVars => DeletionInv'
    BY NextKeepsDeletionInv
  <1> QED BY <1>1, InitEstablishesDeletionInv, PipelineInvariant, PTL DEF PipelineSpec

\* No upload of a document being deleted is queued or running: its row was
\* buried with the deletion and completing the upload again is refused.
THEOREM UploadsAreBuried == PipelineSpec => []DeletionBuriesUploads
  <1>1. DeletionInv => DeletionBuriesUploads
    BY DEF DeletionInv
  <1> QED BY <1>1, DeletionInvariant, PTL

\* Whatever runs were under way when the document was deleted, a completed task
\* and a shown error mean what the API takes them to mean, as long as no publish
\* commit has met the document.
THEOREM DeletionsEnd == PipelineSpec => []CleanupEndsInDeletion
  <1>1. DeletionInv => CleanupEndsInDeletion
    BY DEF DeletionInv
  <1> QED BY <1>1, DeletionInvariant, PTL

\* What LeaseExclusive, LateRunChangesNothing and TaskLease say of the queue
\* alone they say of ingestion_tasks among all the other writers.
THEOREM PipelineKeepsTheQueuesPromises ==
  PipelineSpec => []LeaseExclusive /\ LateRunChangesNothing /\ ImplementsTaskLease
  BY PipelineUsesTheQueue, Exclusive, LateRunHarmless, Refinement, PTL DEF UsesTheQueue

------------------------------------------------------------------------------
(* How much a deletion may be too late for.                                 *)

AddsNothing(d) ==
    /\ stored'[d] \subseteq stored[d] \cup {"object"}
    /\ asset_objects'[d] \subseteq asset_objects[d]

\* A run that goes to a stage which asks has no answer to use.
LEMMA GoneOn ==
  ASSUME PipelineInv, NEW w \in Worker, NEW stage, stage \notin {"struct", "inserting"}, Goto(w, stage)
  PROVE  /\ \A v \in Worker : v # w => run'[v] = run[v]
         /\ \A d \in Doc : w \notin MayStillWrite(d)'
  <1>1. run \in [Worker -> Run]
    BY DEF PipelineInv, PipelineTypeOK
  <1> DEFINE next == [doc |-> run[w].doc, stage |-> stage, checked |-> "no", asset |-> NoAsset]
  <1>2. run' = [run EXCEPT ![w] = next] /\ next.checked = "no" /\ next.stage = stage
    BY DEF Goto
  <1> HIDE DEF next
  <1>3. run'[w] = next /\ \A v \in Worker : v # w => run'[v] = run[v]
    BY <1>1, <1>2
  <1> QED BY <1>2, <1>3 DEF MayStillWrite, At

\* A step of one run uses up what it may still write, or writes nothing; the purge
\* of Milvus leaves it the insert.
SpendsItsAnswer(w, d) ==
    /\ \A v \in Worker : v # w => run'[v] = run[v]
    /\ \/ w \notin MayStillWrite(d)'
       \/ (run'[w] = run[w] \/ w \in MayStillWrite(d)) /\ AddsNothing(d)
    /\ AddsNothing(d) \/ w \in MayStillWrite(d)

LEMMA RunSpendsItsAnswer ==
  ASSUME PipelineInv, NEW w \in Worker, RunStep(w), NEW d \in Doc, ~Alive(d)
  PROVE  SpendsItsAnswer(w, d)
  <1>0. /\ run \in [Worker -> Run] /\ stored \in [Doc -> SUBSET Clean!Kind]
        /\ asset_objects \in [Doc -> SUBSET Asset]
    BY DEF PipelineInv, PipelineTypeOK, Clean!TypeOK
  <1>1. ASSUME UNCHANGED storeVars PROVE AddsNothing(d)
    BY <1>1 DEF storeVars, AddsNothing
  <1>2. ASSUME NEW stage, stage \notin {"struct", "inserting"}, Goto(w, stage), AddsNothing(d) \/ w \in MayStillWrite(d)
        PROVE  SpendsItsAnswer(w, d)
    BY <1>2, GoneOn DEF SpendsItsAnswer
  <1>3. ASSUME NEW next, run' = [run EXCEPT ![w] = next], AddsNothing(d) \/ w \in MayStillWrite(d),
               next.doc = d => next.checked = "no" /\ next.stage \notin {"struct", "inserting"}
        PROVE  SpendsItsAnswer(w, d)
    <2>1. run'[w] = next /\ \A v \in Worker : v # w => run'[v] = run[v]
      BY <1>0, <1>3
    <2> QED BY <1>3, <2>1 DEF SpendsItsAnswer, MayStillWrite, At
  <1>4. CASE RenewTask(w)
    BY <1>1, <1>4 DEF RenewTask, SpendsItsAnswer
  <1>5. ASSUME EndRun(w), UNCHANGED storeVars PROVE SpendsItsAnswer(w, d)
    BY <1>1, <1>3, <1>5 DEF EndRun, NoRun
  <1>6. CASE ClaimTask(w)
    <2>1. PICK next : /\ run' = [run EXCEPT ![w] = next]
                      /\ next.checked = "no" /\ next.stage \notin {"struct", "inserting"}
      <3>1. CASE lease'[w] = NoLease
        <4>1. run' = [run EXCEPT ![w] = NoRun]
          BY <1>6, <3>1 DEF ClaimTask
        <4>2. NoRun.checked = "no" /\ NoRun.stage \notin {"struct", "inserting"}
          BY DEF NoRun
        <4> QED BY <4>1, <4>2
      <3>2. CASE lease'[w] # NoLease
        <4> DEFINE next == [doc |-> DocOf[lease'[w].task], stage |-> "claimed",
                            checked |-> "no", asset |-> NoAsset]
        <4>1. run' = [run EXCEPT ![w] = next]
          BY <1>6, <3>2 DEF ClaimTask
        <4>2. next.checked = "no" /\ next.stage \notin {"struct", "inserting"}
          OBVIOUS
        <4> HIDE DEF next
        <4> QED BY <4>1, <4>2
      <3> QED BY <3>1, <3>2
    <2> QED BY <1>1, <1>3, <1>6, <2>1 DEF ClaimTask
  <1>7. CASE CheckSideEffects(w)
    <2> DEFINE next == [doc |-> run[w].doc, stage |-> run[w].stage,
                        checked |-> "yes", asset |-> run[w].asset]
    <2>1. run' = [run EXCEPT ![w] = next] /\ next.doc = run[w].doc
      BY <1>7 DEF CheckSideEffects
    <2> HIDE DEF next
    <2>2. run[w].doc # d
      BY <1>7 DEF CheckSideEffects, SideEffectsAllowed
    <2> QED BY <1>1, <1>3, <1>7, <2>1, <2>2 DEF CheckSideEffects
  <1>8. CASE ProjectDocumentIr(w)
    <2> DEFINE next == [doc |-> run[w].doc, stage |-> "struct", checked |-> "no", asset |-> NoAsset]
    <2>1. run' = [run EXCEPT ![w] = next] /\ next.doc = run[w].doc
      BY <1>8 DEF ProjectDocumentIr, Goto
    <2> HIDE DEF next
    <2>2. run[w].doc # d /\ AddsNothing(d)
      BY <1>8 DEF ProjectDocumentIr, AddsNothing
    <2> QED BY <1>3, <2>1, <2>2
  <1>9. CASE StartProcessing(w) \/ LockDocument(w) \/ SkipStructTables(w) \/ HasNoAssets(w)
             \/ FinishProcessing(w) \/ ProcessFails(w)
    <2>1. UNCHANGED storeVars /\ \E stage : stage \notin {"struct", "inserting"} /\ Goto(w, stage)
      BY <1>9 DEF StartProcessing, LockDocument, SkipStructTables, HasNoAssets, FinishProcessing, ProcessFails
    <2> QED BY <1>1, <1>2, <2>1
  <1>10. CASE CompleteDocument(w) \/ FailTask(w)
    <2>1. UNCHANGED storeVars /\ \E stage : stage \notin {"struct", "inserting"} /\ Goto(w, stage)
      BY <1>10 DEF CompleteDocument, FailTask
    <2> QED BY <1>1, <1>2, <2>1
  <1>11. CASE CompleteTask(w) \/ FindLeaseLost(w) \/ DemoteDocument(w) \/ Die(w)
    BY <1>5, <1>11 DEF CompleteTask, FindLeaseLost, DemoteDocument, Die
  <1>12. CASE RemoveStructTables(w)
    <2>1. PICK gone : stored' = [stored EXCEPT ![run[w].doc] = @ \ gone]
      BY <1>12 DEF RemoveStructTables
    <2>2. AddsNothing(d)
      BY <1>0, <1>12, <2>1 DEF RemoveStructTables, AddsNothing
    <2> QED BY <1>2, <1>12, <2>2 DEF RemoveStructTables
  <1>13. ASSUME NEW kind, Store(run[w].doc, kind), UNCHANGED asset_objects, NEW stage,
                stage \notin {"struct", "inserting"}, Goto(w, stage), run[w].checked = "yes" \/ run[w].stage \in {"struct", "inserting"}
         PROVE  SpendsItsAnswer(w, d)
    <2>1. run[w].doc # d => AddsNothing(d)
      BY <1>0, <1>13 DEF Store, AddsNothing
    <2>2. run[w].doc = d => w \in MayStillWrite(d)
      BY <1>13 DEF MayStillWrite
    <2> QED BY <1>2, <1>13, <2>1, <2>2
  <1>14. CASE RebuildStructTables(w) \/ ReplaceTableEvidence(w) \/ StoreBodyChunks(w)
              \/ InsertIndex(w) \/ InsertIndexFails(w)
    BY <1>13, <1>14 DEF RebuildStructTables, ReplaceTableEvidence, StoreBodyChunks, InsertIndex,
                        InsertIndexFails, Cleared, At
  <1>18. CASE ReplaceIndex(w)
    <2>1. CASE IndexStore = "none"
      <3>1. UNCHANGED <<stored, asset_objects>> /\ Goto(w, "finish")
        BY <1>18, <2>1 DEF ReplaceIndex
      <3> QED BY <1>2, <3>1 DEF AddsNothing
    <2>2. CASE IndexStore # "none"
      BY <1>13, <1>18, <2>2 DEF ReplaceIndex
    <2> QED BY <2>1, <2>2
  <1>19. CASE PurgeIndex(w)
    <2> DEFINE next == [doc |-> run[w].doc, stage |-> "inserting", checked |-> "no", asset |-> NoAsset]
    <2>1. run' = [run EXCEPT ![w] = next] /\ next.doc = run[w].doc
      BY <1>19 DEF PurgeIndex, Goto
    <2> HIDE DEF next
    <2>2. PICK gone : stored' = [stored EXCEPT ![run[w].doc] = @ \ gone]
      BY <1>19 DEF PurgeIndex
    <2>3. AddsNothing(d)
      BY <1>0, <1>19, <2>2 DEF PurgeIndex, AddsNothing
    <2>4. run'[w] = next /\ \A v \in Worker : v # w => run'[v] = run[v]
      BY <1>0, <2>1
    <2>5. CASE run[w].doc = d
      <3>1. w \in MayStillWrite(d)
        BY <1>19, <2>5 DEF PurgeIndex, Cleared, MayStillWrite
      <3> QED BY <2>3, <2>4, <3>1 DEF SpendsItsAnswer
    <2>6. CASE run[w].doc # d
      BY <2>1, <2>3, <2>4, <2>6 DEF SpendsItsAnswer, MayStillWrite
    <2> QED BY <2>5, <2>6
  <1>20. CASE ReadDocument(w)
    <2>1. AddsNothing(d)
      BY <1>20 DEF ReadDocument, AddsNothing
    <2> QED BY <1>2, <1>20, <2>1 DEF ReadDocument
  <1>15. CASE MirrorAsset(w)
    <2>1. PICK a : /\ asset_objects' = [asset_objects EXCEPT ![run[w].doc] = @ \cup {a}]
                   /\ run' = [run EXCEPT ![w] = [doc |-> run[w].doc, stage |-> "asset_row",
                                                 checked |-> "no", asset |-> a]]
      BY <1>15 DEF MirrorAsset
    <2> DEFINE next == [doc |-> run[w].doc, stage |-> "asset_row", checked |-> "no", asset |-> a]
    <2>2. run' = [run EXCEPT ![w] = next] /\ next.checked = "no" /\ next.stage \notin {"struct", "inserting"}
      BY <2>1
    <2> HIDE DEF next
    <2>3. run[w].doc # d => AddsNothing(d)
      BY <1>0, <1>15, <2>1 DEF MirrorAsset, AddsNothing
    <2>4. run[w].doc = d => w \in MayStillWrite(d)
      BY <1>15 DEF MirrorAsset, Cleared, MayStillWrite
    <2> QED BY <1>3, <2>2, <2>3, <2>4
  <1>16. CASE StoreAssetRow(w)
    <2>1. AddsNothing(d)
      BY <1>16 DEF StoreAssetRow, AddsNothing
    <2> QED BY <1>2, <1>16, <2>1 DEF StoreAssetRow
  <1>17. CASE UndoAsset(w)
    <2>1. PICK gone : asset_objects' = [asset_objects EXCEPT ![run[w].doc] = @ \ gone]
      BY <1>17 DEF UndoAsset
    <2>2. AddsNothing(d)
      BY <1>0, <1>17, <2>1 DEF UndoAsset, AddsNothing
    <2> QED BY <1>2, <1>17, <2>2 DEF UndoAsset
  <1> QED BY <1>4, <1>6, <1>7, <1>8, <1>9, <1>10, <1>11, <1>12, <1>14, <1>15, <1>16, <1>17, <1>18,
             <1>19, <1>20
          DEF RunStep, RunEnd, PipelineStage

LEMMA StepBoundsLateWrites ==
  ASSUME PipelineInv, [PipelineNext]_pipelineVars, NEW d \in Doc, ~Alive(d), UnpublishedNext(d)
  PROVE  /\ MayStillWrite(d)' \subseteq MayStillWrite(d)
         /\ AddsNothing(d) \/ MayStillWrite(d)' # MayStillWrite(d)
  <1>0. /\ stored \in [Doc -> SUBSET Clean!Kind] /\ asset_objects \in [Doc -> SUBSET Asset]
    BY DEF PipelineInv, PipelineTypeOK, Clean!TypeOK
  <1>1. ASSUME UNCHANGED run, AddsNothing(d)
        PROVE  /\ MayStillWrite(d)' \subseteq MayStillWrite(d)
               /\ AddsNothing(d) \/ MayStillWrite(d)' # MayStillWrite(d)
    BY <1>1 DEF MayStillWrite, At
  <1>2. ASSUME NEW w \in Worker, RunStep(w)
        PROVE  /\ MayStillWrite(d)' \subseteq MayStillWrite(d)
               /\ AddsNothing(d) \/ MayStillWrite(d)' # MayStillWrite(d)
    <2>1. SpendsItsAnswer(w, d)
      BY <1>2, RunSpendsItsAnswer
    <2>2. \A v \in Worker : run'[v] = run[v] => (v \in MayStillWrite(d)' <=> v \in MayStillWrite(d))
      BY DEF MayStillWrite, At
    <2>3. MayStillWrite(d)' \subseteq Worker
      BY DEF MayStillWrite
    <2> QED BY <2>1, <2>2, <2>3 DEF SpendsItsAnswer
  <1>3. ASSUME NEW e \in Doc, ApiStep(e) PROVE UNCHANGED run /\ AddsNothing(d)
    <2>1. CASE FinishPut(e)
      BY <1>0, <2>1 DEF FinishPut, Store, AddsNothing
    <2>2. CASE PublishStep(e)
      <3>1. published \in [Doc -> Publication]
        BY DEF PipelineInv, PipelineTypeOK
      <3>2. \E stage \in Publication \ {"never"} : Publish(e, stage)
        BY <2>2 DEF PublishStep, PublishRow, PublishIndex, PublishVectors, DropStaleIndex,
                    PublishDies, Publication
      <3>3. e # d
        BY <3>1, <3>2 DEF Publish, UnpublishedNext
      <3>4. UNCHANGED <<run, asset_objects>> /\ stored'[d] = stored[d]
        BY <1>0, <2>2, <3>3 DEF PublishStep, PublishRow, PublishIndex, PublishVectors,
                                DropStaleIndex, PublishDies, storeVars, Store
      <3> QED BY <3>4 DEF AddsNothing
    <2>3. CASE ~FinishPut(e) /\ ~PublishStep(e)
      BY <1>3, <2>3
      DEF ApiStep, BeginPut, RejectUpload, CompleteUpload, BeginReindex, EnqueueReindex,
          ReindexDies, PatchDocument, RequestDeletion, Clean!DeleteDocument, storeVars, AddsNothing
    <2> QED BY <2>1, <2>2, <2>3
  <1>4. ASSUME NEW t \in Task, TimerStep(t) PROVE UNCHANGED run /\ AddsNothing(d)
    BY <1>4 DEF TimerStep, storeVars, AddsNothing
  <1>5. CASE CleanerStep
    <2>1. ASSUME NEW c \in Cleaner, Clean!CleanupPhase(c)
          PROVE  \/ UNCHANGED stored
                 \/ \E e, gone : stored' = [stored EXCEPT ![e] = @ \ gone]
      <3>1. CASE Clean!DeleteDerivedRows(c)
        <4>1. PICK files : stored' = [stored EXCEPT ![job[c].doc] = (@ \ {"rows", "evidence"}) \ files]
          BY <3>1 DEF Clean!DeleteDerivedRows
        <4>2. stored' = [stored EXCEPT ![job[c].doc] = @ \ ({"rows", "evidence"} \cup files)]
          BY <1>0, <4>1
        <4> QED BY <4>2
      <3>2. CASE Clean!DeleteObject(c)
        BY <3>2 DEF Clean!DeleteObject
      <3>3. CASE Clean!DeleteIndex(c)
        BY <3>3 DEF Clean!DeleteIndex
      <3> QED BY <2>1, <3>1, <3>2, <3>3
              DEF Clean!CleanupPhase, Clean!CheckLease, Clean!LookUpTargets, Clean!DeleteAssetObject,
                  Clean!HasNoAssets, Clean!MarkDeleted
    <2>2. ASSUME NEW c \in Cleaner, Clean!CleanupPhase(c)
          PROVE  \/ UNCHANGED asset_objects
                 \/ \E e, gone : asset_objects' = [asset_objects EXCEPT ![e] = @ \ gone]
      <3>1. CASE Clean!DeleteAssetObject(c)
        BY <3>1 DEF Clean!DeleteAssetObject
      <3> QED BY <2>2, <3>1
              DEF Clean!CleanupPhase, Clean!CheckLease, Clean!LookUpTargets, Clean!DeleteObject,
                  Clean!HasNoAssets, Clean!DeleteIndex, Clean!DeleteDerivedRows, Clean!MarkDeleted
    <2>3. ASSUME NEW c \in Cleaner, Clean!CleanupPhase(c) PROVE AddsNothing(d)
      <3>1. stored'[d] \subseteq stored[d]
        BY <1>0, <2>1, <2>3
      <3>2. asset_objects'[d] \subseteq asset_objects[d]
        BY <1>0, <2>2, <2>3
      <3> QED BY <3>1, <3>2 DEF AddsNothing
    <2>4. AddsNothing(d) \/ \E c \in Cleaner : Clean!CleanupPhase(c)
      <3>1. (\E c \in Cleaner : Clean!CleanupPhase(c)) \/ UNCHANGED <<stored, asset_objects>>
        BY <1>5
        DEF CleanerStep, Clean!CleanerStep, Clean!TimerElapses, Clean!Claim, Clean!Renew,
            Clean!RunEnds, Clean!Complete, Clean!Fail, Clean!LeaseLost, Clean!Crash
      <3> QED BY <3>1 DEF AddsNothing
    <2> QED BY <1>1, <1>5, <2>3, <2>4 DEF CleanerStep
  <1>6. CASE UNCHANGED pipelineVars
    BY <1>1, <1>6 DEF pipelineVars, storeVars, AddsNothing
  <1> QED BY <1>1, <1>2, <1>3, <1>4, <1>5, <1>6 DEF PipelineNext

\* After a deletion the stores without a status to ask gain at most one write of
\* each run that had passed its check: the findings of the runs late_evidence and
\* late_index are as bad as it gets.
THEOREM LateWritesBounded == PipelineSpec => LateWritesAreBounded
  <1> DEFINE Bounded ==
        \A d \in Doc : ~Alive(d) /\ Unpublished(d)' =>
            /\ MayStillWrite(d)' \subseteq MayStillWrite(d)
            /\ \/ /\ stored'[d] \subseteq stored[d] \cup {"object"}
                  /\ asset_objects'[d] \subseteq asset_objects[d]
               \/ MayStillWrite(d)' # MayStillWrite(d)
  <1>1. PipelineInv /\ [PipelineNext]_pipelineVars => [Bounded]_pipelineVars
    BY StepBoundsLateWrites DEF AddsNothing, Unpublished, UnpublishedNext
  <1>2. PipelineSpec => [][Bounded]_pipelineVars
    BY <1>1, PipelineInvariant, PTL DEF PipelineSpec
  <1> QED BY <1>2 DEF LateWritesAreBounded
==============================================================================
