--------------------------- MODULE DocumentPipeline ---------------------------
(***************************************************************************)
(* The life of a document: uploaded and queued by the API, ingested by     *)
(* workers that claim its tasks from IngestionQueue, reindexed and deleted *)
(* by the API, cleaned up by the cleaners of CleanupQueue, all at once.    *)
(*                                                                         *)
(* Before most side effects a worker asks whether its lease is current and *)
(* the document not being deleted (ensure_ingestion_side_effects_allowed); *)
(* the answer is remembered in run[w].checked, and the effect is another   *)
(* call.  Row writes ask about the document once more, in their own        *)
(* transaction; the object store, the retrieval index, the table evidence  *)
(* and the struct_store files have nothing to ask.                         *)
(***************************************************************************)
EXTENDS IngestionQueue

CONSTANTS
    IngestTask,    \* the tasks built by build_ingest_task; the others reindex
    WorkspaceOf,   \* WorkspaceOf[t]: the workspace_id task t is built with
    Asset,         \* asset_id values; every run that has an asset takes a new one
    Workspace,     \* workspaces, of one owner, that documents move between
    IndexStore,    \* the retrieval data plane: "pgvector", "milvus" or "none"
    Cleaner,       \* worker processes, seen as cleaners
    NoDoc,         \* what a cleaner without a claimed task remembers
    NoAsset,       \* what a run without a mirrored asset remembers
    PatchStatus,   \* the statuses clients set with PUT /documents/{id}
    Publishable,   \* documents whose ids publish commits may carry or find
    ExclusiveLock  \* TRUE: the document lock excludes; FALSE: it may lapse

VARIABLES
    document, cleanup, job, stored, asset_objects, filed, workspace,  \* as in CleanupQueue
    run,           \* run[w]: the run of WorkerRuntime::run_once in w
    putting,       \* documents whose upload PUT has passed its status check
    reindexing,    \* <<d, ws>>: d is set to queued, its reindex task is not inserted yet
    published      \* published[d]: what the last publish commit that met d has done to it

Clean == INSTANCE CleanupQueue

ASSUME PipelineAssumption ==
    /\ IngestTask \subseteq Task
    /\ WorkspaceOf \in [Task -> Workspace]
    /\ IndexStore \in {"pgvector", "milvus", "none"}
    /\ NoDoc \notin Doc /\ NoAsset \notin Asset
    /\ Publishable \subseteq Doc
    /\ PatchStatus \subseteq Clean!DocumentStatus \ {"deleting", "deleted"}
    /\ ExclusiveLock \in BOOLEAN

cleanerVars == <<cleanup, job>>
storeVars == <<stored, asset_objects, filed>>
placeVars == <<workspace, published>>
apiVars == <<putting, reindexing, placeVars>>
pipelineVars == <<rows, lease, document, cleanerVars, storeVars, run, apiVars>>

\* Where run_once is.  From "locked" on it holds the document lock.
ProcessStage == {"preflight", "locked", "project", "struct", "evidence", "body", "asset",
                 "asset_row", "index", "inserting", "finish"}

Stage == {"idle", "claimed", "processed", "completed", "failing", "failing_terminal",
          "requeued", "buried"} \cup ProcessStage

Run == [doc : Doc \cup {NoDoc}, stage : Stage, checked : {"no", "yes"},
        asset : Asset \cup {NoAsset}]

NoRun == [doc |-> NoDoc, stage |-> "idle", checked |-> "no", asset |-> NoAsset]

\* A commit has upserted the row; it has purged the index too (Milvus); it is over.
Publication == {"never", "upserted", "inserting", "over"}

PipelineTypeOK ==
    /\ TypeOK
    /\ Clean!TypeOK
    /\ run \in [Worker -> Run]
    /\ putting \subseteq Doc /\ reindexing \subseteq Doc \X Workspace
    /\ published \in [Doc -> Publication]
    /\ \A w \in Worker : lease[w] # NoLease => run[w].doc = DocOf[lease[w].task]
    /\ \A w \in Worker : /\ run[w].doc = NoDoc => run[w].stage = "idle"
                         /\ run[w].stage = "asset_row" => run[w].asset # NoAsset

------------------------------------------------------------------------------
\* status not in ('deleting', 'deleted')
Alive(d) == document[d].status \notin {"deleting", "deleted"}

\* document_allows_ingestion_side_effects
SideEffectsAllowed(w) == Alive(run[w].doc) /\ \E t \in Task : Holds(w, t)

At(w, stage) == run[w].stage = stage

\* (mutant) the answer of one stage is taken for the next.
GotoStillCleared(w, stage) ==
    run' = [run EXCEPT ![w] = [doc |-> run[w].doc, stage |-> stage, checked |-> run[w].checked,
                               asset |-> NoAsset]]

Goto(w, stage) ==
    run' = [run EXCEPT ![w] = [doc |-> run[w].doc, stage |-> stage, checked |-> "no",
                               asset |-> NoAsset]]

\* (mutant) the update forgets the status condition.
SetStatusAnyway(d, status) ==
    document' = [document EXCEPT ![d] = Clean!DocumentWith(status, "none")]

\* set_document_status and its kin; the deletion columns stay as they are.
SetStatus(d, status) ==
    /\ Alive(d)
    /\ document' = [document EXCEPT ![d] = Clean!DocumentWith(status, document[d].deletion_error)]

\* What the other writers promise they promise of documents no publish commit has met.
Unpublished(d) == published[d] = "never"

\* The workspace_id of the task w runs, under which it files its rows.
TaskWorkspace(w) == WorkspaceOf[lease[w].task]

Store(d, kind) == stored' = [stored EXCEPT ![d] = @ \cup {kind}]

------------------------------------------------------------------------------
(* The API                                                                  *)

\* Rows of documents; one that publish commits insert is there from the start.
PipelineInit ==
    /\ QueueInit
    /\ document = [d \in Doc |-> Clean!DocumentWith("pending", "none")]
    /\ cleanup = [d \in Doc |-> Clean!NoRow]
    /\ job = [c \in Cleaner |-> Clean!NoJob]
    /\ stored = [d \in Doc |-> {}]
    /\ asset_objects = [d \in Doc |-> {}] /\ filed = [d \in Doc |-> {}]
    /\ run = [w \in Worker |-> NoRun]
    /\ putting = {} /\ reindexing = {}
    /\ workspace \in [Doc -> Workspace]
    /\ published = [d \in Doc |-> "never"]

UploadMutable(d) == document[d].status \in {"pending", "upload_invalid"}

\* put_uploaded_document: the status check, then the write.
BeginPut(d) ==
    /\ UploadMutable(d) /\ putting' = putting \cup {d}
    /\ UNCHANGED <<rows, lease, document, cleanerVars, storeVars, run, reindexing, placeVars>>

FinishPut(d) ==
    /\ d \in putting /\ putting' = putting \ {d}
    /\ Store(d, "object")
    /\ UNCHANGED <<rows, lease, document, cleanerVars, asset_objects, filed, run, reindexing, placeVars>>

\* complete_document_upload of an object that is not there or has the wrong size.
RejectUpload(d) ==
    /\ UploadMutable(d) /\ SetStatus(d, "upload_invalid")
    /\ UNCHANGED <<rows, lease, cleanerVars, storeVars, run, apiVars>>

\* complete_document_upload: one transaction sets the status and inserts the
\* task, unless a row of an earlier ingest task still has its key.
CompleteUpload(d) ==
    /\ UploadMutable(d) /\ "object" \in stored[d] /\ SetStatus(d, "queued")
    /\ \/ \E t \in IngestTask : DocOf[t] = d /\ WorkspaceOf[t] = workspace[d] /\ Insert(t)
       \/ (\E t \in IngestTask : DocOf[t] = d /\ KeyTaken(t)) /\ UNCHANGED rows
    /\ UNCHANGED <<lease, cleanerVars, storeVars, run, apiVars>>

\* reindex_document: the task's fields are read and the status is set, then, in a
\* transaction of its own, the task is inserted.
BeginReindex(d) ==
    /\ \E t \in Task \ IngestTask :
          DocOf[t] = d /\ WorkspaceOf[t] = workspace[d] /\ rows[t].status = "new"
    /\ SetStatus(d, "queued") /\ reindexing' = reindexing \cup {<<d, workspace[d]>>}
    /\ UNCHANGED <<rows, lease, cleanerVars, storeVars, run, putting, placeVars>>

EnqueueReindex(d) ==
    /\ \E t \in Task \ IngestTask :
          /\ DocOf[t] = d /\ <<d, WorkspaceOf[t]>> \in reindexing /\ Insert(t)
          /\ reindexing' = reindexing \ {<<d, WorkspaceOf[t]>>}
    /\ UNCHANGED <<lease, document, cleanerVars, storeVars, run, putting, placeVars>>

\* The request dies between the two.
ReindexDies(d) ==
    /\ \E ws \in Workspace :
          <<d, ws>> \in reindexing /\ reindexing' = reindexing \ {<<d, ws>>}
    /\ UNCHANGED <<rows, lease, document, cleanerVars, storeVars, run, putting, placeVars>>

\* update_document: a client may set every status but deleting and deleted, and
\* move the document; what has been filed stays where it is.
PatchDocument(d) ==
    /\ \E s \in PatchStatus \cup {document[d].status} : SetStatus(d, s)
    /\ \E ws \in Workspace : workspace' = [workspace EXCEPT ![d] = ws]
    /\ UNCHANGED <<rows, lease, cleanerVars, storeVars, run, putting, reindexing, published>>

\* (mutant) the tasks are deleted, not buried.
RequestDeletionDropsTasks(d) ==
    /\ Clean!DeleteDocument(d)
    /\ rows' = [t \in Task |-> IF DocOf[t] = d /\ Live(t) THEN Deleted(rows[t]) ELSE rows[t]]
    /\ UNCHANGED <<lease, run, apiVars>>

\* (mutant) the status is set and the tasks are left to run into it.
RequestDeletionLeavesTasks(d) ==
    /\ Clean!DeleteDocument(d)
    /\ UNCHANGED <<rows, lease, run, apiVars>>

\* delete_document, which buries the tasks of a document not yet deleting.
RequestDeletion(d) ==
    /\ Clean!DeleteDocument(d)
    /\ IF document[d].status = "deleting" THEN UNCHANGED rows ELSE BuryTasksOf(d)
    /\ UNCHANGED <<lease, run, apiVars>>

(* commit_publish_session_inner, for one document at a time.                *)

Publish(d, stage) == published' = [published EXCEPT ![d] = stage]

\* upsert_published_document: a completed row, whatever was there before.  It needs
\* no object, no chunks and no task, and looks at no status.
PublishRow(d) ==
    /\ IndexStore # "none" /\ d \in Publishable /\ published[d] \in {"never", "over"}
    /\ document' = [document EXCEPT ![d] =
                        Clean!DocumentWith("completed", document[d].deletion_error)]
    /\ \E ws \in Workspace : workspace' = [workspace EXCEPT ![d] = ws]
    /\ Publish(d, "upserted")
    /\ UNCHANGED <<rows, lease, cleanerVars, storeVars, run, putting, reindexing>>

\* replace_document_index of pgvector, one transaction; of Milvus, the purge.
PublishIndex(d) ==
    /\ published[d] = "upserted"
    /\ IF IndexStore = "pgvector" THEN Store(d, "index") /\ Publish(d, "over")
       ELSE /\ \E gone \in SUBSET {"index"} : stored' = [stored EXCEPT ![d] = @ \ gone]
            /\ Publish(d, "inserting")
    /\ UNCHANGED <<rows, lease, document, cleanerVars, asset_objects, filed, run,
                   putting, reindexing, workspace>>

\* The inserts, all, some or none of which stay.
PublishVectors(d) ==
    /\ published[d] = "inserting"
    /\ stored' = [stored EXCEPT ![d] = @ \cup {"index"}] \/ UNCHANGED stored
    /\ Publish(d, "over")
    /\ UNCHANGED <<rows, lease, document, cleanerVars, asset_objects, filed, run,
                   putting, reindexing, workspace>>

\* A document of the workspace that is not in the export loses its index before it
\* is deleted; a commit that dies in between leaves it so.
DropStaleIndex(d) ==
    /\ IndexStore # "none" /\ d \in Publishable /\ published[d] \in {"never", "over"}
    /\ \E gone \in Clean!IndexDeletions : stored' = [stored EXCEPT ![d] = @ \ gone]
    /\ Publish(d, "over")
    /\ UNCHANGED <<rows, lease, document, cleanerVars, asset_objects, filed, run,
                   putting, reindexing, workspace>>

\* The commit dies after the upsert.
PublishDies(d) ==
    /\ published[d] = "upserted"
    /\ Publish(d, "over")
    /\ UNCHANGED <<rows, lease, document, cleanerVars, storeVars, run,
                   putting, reindexing, workspace>>

PublishStep(d) ==
    \/ PublishRow(d) \/ PublishIndex(d) \/ PublishVectors(d)
    \/ DropStaleIndex(d) \/ PublishDies(d)

ApiStep(d) ==
    \/ BeginPut(d) \/ FinishPut(d) \/ RejectUpload(d) \/ CompleteUpload(d)
    \/ BeginReindex(d) \/ EnqueueReindex(d) \/ ReindexDies(d)
    \/ PatchDocument(d) \/ RequestDeletion(d) \/ PublishStep(d)

------------------------------------------------------------------------------
(* run_once up to the pipeline                                              *)

ClaimTask(w) ==
    /\ run[w] = NoRun
    /\ Claim(w)
    /\ run' = [run EXCEPT ![w] = IF lease'[w] = NoLease THEN NoRun
                                 ELSE [doc |-> DocOf[lease'[w].task], stage |-> "claimed",
                                       checked |-> "no", asset |-> NoAsset]]
    /\ UNCHANGED <<document, cleanerVars, storeVars, apiVars>>

\* The heartbeat lives as long as process does.
RenewTask(w) ==
    /\ run[w].stage \in ProcessStage
    /\ Renew(w)
    /\ UNCHANGED <<document, cleanerVars, storeVars, run, apiVars>>

\* The transition to processing, guarded by the lease in the same statement.
StartProcessing(w) ==
    /\ At(w, "claimed") /\ SideEffectsAllowed(w)
    /\ SetStatus(run[w].doc, "processing")
    /\ Goto(w, "preflight")
    /\ UNCHANGED <<rows, lease, cleanerVars, storeVars, apiVars>>

InsideLock(v, d) == run[v].doc = d /\ run[v].stage \in ProcessStage \ {"preflight"}

\* (mutant) a held lock means another worker does the job: Ok without a run.
LockDocumentOrSkip(w) ==
    /\ At(w, "preflight")
    /\ Goto(w, IF \E v \in Worker : InsideLock(v, run[w].doc) THEN "processed" ELSE "locked")
    /\ UNCHANGED <<rows, lease, document, cleanerVars, storeVars, apiVars>>

\* The wallet preflight, then the document lock.
LockDocument(w) ==
    /\ At(w, "preflight")
    /\ ExclusiveLock => \A v \in Worker : ~InsideLock(v, run[w].doc)
    /\ Goto(w, "locked")
    /\ UNCHANGED <<rows, lease, document, cleanerVars, storeVars, apiVars>>

File(w, assets) ==
    filed' = [filed EXCEPT ![run[w].doc] = @ \cup ({TaskWorkspace(w)} \X assets)]

\* Fetch, verify, scan and route the bytes, create the parse run, parse.  The parse
\* run is created only while the document is in the workspace of the task.
ReadDocument(w) ==
    /\ At(w, "locked") /\ "object" \in stored[run[w].doc] /\ SideEffectsAllowed(w)
    /\ workspace[run[w].doc] = TaskWorkspace(w)
    /\ File(w, {NoAsset})
    /\ Goto(w, "project")
    /\ UNCHANGED <<rows, lease, document, cleanerVars, stored, asset_objects, apiVars>>

------------------------------------------------------------------------------
(* run_document_pipeline                                                    *)

CheckedStage == {"project", "evidence", "body", "asset", "asset_row", "finish"}
                    \cup (IF IndexStore = "none" THEN {} ELSE {"index"})

\* ensure_ingestion_side_effects_allowed, when they are.
CheckSideEffects(w) ==
    /\ run[w].stage \in CheckedStage /\ run[w].checked = "no" /\ SideEffectsAllowed(w)
    /\ run' = [run EXCEPT ![w] = [doc |-> run[w].doc, stage |-> run[w].stage,
                                  checked |-> "yes", asset |-> run[w].asset]]
    /\ UNCHANGED <<rows, lease, document, cleanerVars, storeVars, apiVars>>

Cleared(w, stage) == At(w, stage) /\ run[w].checked = "yes"

\* clear_document_ir_projection and replace_document_blocks: the rows of mirrored
\* assets go, under any workspace, and their objects stay; earlier parse runs stay.
ProjectDocumentIr(w) ==
    /\ Cleared(w, "project") /\ Alive(run[w].doc)
    /\ filed' = [filed EXCEPT ![run[w].doc] =
                     {r \in @ : r[2] = NoAsset} \cup {<<TaskWorkspace(w), NoAsset>>}]
    /\ Goto(w, "struct")
    /\ UNCHANGED <<rows, lease, document, cleanerVars, stored, asset_objects, apiVars>>

\* stage_struct_tables, best effort: no tables, and what is left of older ones
\* removed; tables rebuilt; or nothing done.
RemoveStructTables(w) ==
    /\ At(w, "struct")
    /\ \E gone \in SUBSET {"struct", "evidence"} :
          stored' = [stored EXCEPT ![run[w].doc] = @ \ gone]
    /\ Goto(w, "body")
    /\ UNCHANGED <<rows, lease, document, cleanerVars, asset_objects, filed, apiVars>>

RebuildStructTables(w) ==
    /\ At(w, "struct")
    /\ Store(run[w].doc, "struct")
    /\ Goto(w, "evidence")
    /\ UNCHANGED <<rows, lease, document, cleanerVars, asset_objects, filed, apiVars>>

\* replace_table_evidence_chunks looks at no status.
ReplaceTableEvidence(w) ==
    /\ Cleared(w, "evidence")
    /\ Store(run[w].doc, "evidence")
    /\ Goto(w, "body")
    /\ UNCHANGED <<rows, lease, document, cleanerVars, asset_objects, filed, apiVars>>

\* A stage that was skipped, refused or failed without failing the run.
SkipStructTables(w) ==
    /\ run[w].stage \in {"struct", "evidence"}
    /\ Goto(w, "body")
    /\ UNCHANGED <<rows, lease, document, cleanerVars, storeVars, apiVars>>

\* (mutant) the transaction writes the chunks without its update of documents.
StoreBodyChunksUnguarded(w) ==
    /\ Cleared(w, "body")
    /\ Store(run[w].doc, "rows")
    /\ Goto(w, "asset")
    /\ UNCHANGED <<rows, lease, document, cleanerVars, asset_objects, filed, apiVars>>

\* store_document_body_chunks
StoreBodyChunks(w) ==
    /\ Cleared(w, "body") /\ Alive(run[w].doc)
    /\ Store(run[w].doc, "rows")
    /\ Goto(w, "asset")
    /\ UNCHANGED <<rows, lease, document, cleanerVars, asset_objects, filed, apiVars>>

\* Uuid::new_v4() never repeats.
NewAsset == Asset \ (UNION {asset_objects[d] \cup {r[2] : r \in filed[d]} : d \in Doc}
                     \cup {run[w].asset : w \in Worker}
                     \cup UNION {job[c].listed : c \in Cleaner})

\* persist_document_assets: the object first, under a new asset_id ...
MirrorAsset(w) ==
    /\ Cleared(w, "asset")
    /\ \E a \in NewAsset :
          /\ asset_objects' = [asset_objects EXCEPT ![run[w].doc] = @ \cup {a}]
          /\ run' = [run EXCEPT ![w] = [doc |-> run[w].doc, stage |-> "asset_row",
                                        checked |-> "no", asset |-> a]]
    /\ UNCHANGED <<rows, lease, document, cleanerVars, stored, filed, apiVars>>

\* ... then its row and its multimodal chunk, wherever the document is now ...
StoreAssetRow(w) ==
    /\ Cleared(w, "asset_row") /\ Alive(run[w].doc)
    /\ File(w, {run[w].asset, NoAsset})
    /\ Goto(w, "index")
    /\ UNCHANGED <<rows, lease, document, cleanerVars, stored, asset_objects, apiVars>>

\* ... and when the second check or the row fails, the object is deleted again,
\* which may fail too; the row may be there although its commit reported an error.
UndoAsset(w) ==
    /\ At(w, "asset_row")
    /\ \E gone \in SUBSET {run[w].asset} :
          asset_objects' = [asset_objects EXCEPT ![run[w].doc] = @ \ gone]
    /\ \/ UNCHANGED filed
       \/ /\ run[w].checked = "yes" /\ Alive(run[w].doc)
          /\ File(w, {run[w].asset})
    /\ Goto(w, "failing")
    /\ UNCHANGED <<rows, lease, document, cleanerVars, stored, apiVars>>

\* A document without assets.
HasNoAssets(w) ==
    /\ Cleared(w, "asset")
    /\ Goto(w, "index")
    /\ UNCHANGED <<rows, lease, document, cleanerVars, storeVars, apiVars>>

\* replace_document_index of pgvector, one transaction; without a data plane the
\* stage asks and does nothing.
ReplaceIndex(w) ==
    /\ At(w, "index") /\ IndexStore # "milvus"
    /\ IF IndexStore = "none" THEN UNCHANGED stored
       ELSE run[w].checked = "yes" /\ Store(run[w].doc, "index")
    /\ Goto(w, "finish")
    /\ UNCHANGED <<rows, lease, document, cleanerVars, asset_objects, filed, apiVars>>

\* replace_document_index of Milvus purges first, whatever the deletes answer ...
PurgeIndex(w) ==
    /\ Cleared(w, "index") /\ IndexStore = "milvus"
    /\ \E gone \in SUBSET {"index"} : stored' = [stored EXCEPT ![run[w].doc] = @ \ gone]
    /\ Goto(w, "inserting")
    /\ UNCHANGED <<rows, lease, document, cleanerVars, asset_objects, filed, apiVars>>

\* ... then inserts, collection by collection and without another question ...
InsertIndex(w) ==
    /\ At(w, "inserting")
    /\ Store(run[w].doc, "index")
    /\ Goto(w, "finish")
    /\ UNCHANGED <<rows, lease, document, cleanerVars, asset_objects, filed, apiVars>>

\* ... and an insert that fails, or is cut off, may leave others behind.
InsertIndexFails(w) ==
    /\ At(w, "inserting")
    /\ Store(run[w].doc, "index")
    /\ Goto(w, "failing")
    /\ UNCHANGED <<rows, lease, document, cleanerVars, asset_objects, filed, apiVars>>

\* The counts agree and the parse run, found only while the document is in its
\* workspace, is finished: process returns Ok.
FinishProcessing(w) ==
    /\ Cleared(w, "finish") /\ "rows" \in stored[run[w].doc] /\ SideEffectsAllowed(w)
    /\ workspace[run[w].doc] = TaskWorkspace(w)
    /\ Goto(w, "processed")
    /\ UNCHANGED <<rows, lease, document, cleanerVars, storeVars, apiVars>>

\* Where an error may be terminal: no funds, malware, no chunks, counts differ.
TerminalStage == {"preflight", "locked", "body", "finish"}

\* An error or the task timeout ends process, or the transition before it.
ProcessFails(w) ==
    /\ run[w].stage \in {"claimed"} \cup ProcessStage
    /\ \/ Goto(w, "failing")
       \/ run[w].stage \in TerminalStage /\ Goto(w, "failing_terminal")
    /\ UNCHANGED <<rows, lease, document, cleanerVars, storeVars, apiVars>>

PipelineStage(w) ==
    \/ CheckSideEffects(w) \/ ProjectDocumentIr(w)
    \/ RemoveStructTables(w) \/ RebuildStructTables(w) \/ ReplaceTableEvidence(w)
    \/ SkipStructTables(w) \/ StoreBodyChunks(w)
    \/ MirrorAsset(w) \/ StoreAssetRow(w) \/ UndoAsset(w) \/ HasNoAssets(w)
    \/ ReplaceIndex(w) \/ PurgeIndex(w) \/ InsertIndex(w) \/ InsertIndexFails(w)
    \/ FinishProcessing(w) \/ ProcessFails(w)

------------------------------------------------------------------------------
(* run_once after the pipeline                                              *)

EndRun(w) == run' = [run EXCEPT ![w] = NoRun]

\* The transition to completed: content counts, then the guarded update.
CompleteDocument(w) ==
    /\ At(w, "processed") /\ SideEffectsAllowed(w) /\ "rows" \in stored[run[w].doc]
    /\ SetStatus(run[w].doc, "completed")
    /\ Goto(w, "completed")
    /\ UNCHANGED <<rows, lease, cleanerVars, storeVars, apiVars>>

CompleteTask(w) ==
    /\ At(w, "completed") /\ Complete(w) /\ EndRun(w)
    /\ UNCHANGED <<document, cleanerVars, storeVars, apiVars>>

FailTask(w) ==
    /\ \/ At(w, "failing") /\ Fail(w)
       \/ At(w, "failing_terminal") /\ FailTerminal(w)
    /\ Goto(w, IF rows'[lease[w].task].status = "queued" THEN "requeued" ELSE "buried")
    /\ UNCHANGED <<document, cleanerVars, storeVars, apiVars>>

FindLeaseLost(w) ==
    /\ run[w].stage \in {"completed", "failing", "failing_terminal"}
    /\ LeaseLost(w) /\ EndRun(w)
    /\ UNCHANGED <<document, cleanerVars, storeVars, apiVars>>

\* The transitions back to queued and to failed, after the lease is gone and
\* without asking for it; one that is refused is only logged.
DemoteDocument(w) ==
    /\ run[w].stage \in {"requeued", "buried"}
    /\ SetStatus(run[w].doc, IF At(w, "requeued") THEN "queued" ELSE "failed")
    /\ EndRun(w)
    /\ UNCHANGED <<rows, lease, cleanerVars, storeVars, apiVars>>

\* The process dies, or run_once returns at an error of an audit record, of
\* the transition to completed or of fail itself, or after a refused demotion.
Die(w) ==
    /\ ~At(w, "idle")
    /\ Forget(w) /\ EndRun(w)
    /\ UNCHANGED <<rows, document, cleanerVars, storeVars, apiVars>>

RunEnd(w) ==
    \/ CompleteDocument(w) \/ CompleteTask(w) \/ FailTask(w) \/ FindLeaseLost(w)
    \/ DemoteDocument(w) \/ Die(w)

RunStep(w) ==
    \/ ClaimTask(w) \/ RenewTask(w) \/ StartProcessing(w) \/ LockDocument(w)
    \/ ReadDocument(w) \/ PipelineStage(w) \/ RunEnd(w)

TimerStep(t) ==
    /\ BackoffElapses(t) \/ LeaseExpires(t)
    /\ UNCHANGED <<document, cleanerVars, storeVars, run, apiVars>>

CleanerStep ==
    /\ \/ \E c \in Cleaner : Clean!CleanerStep(c)
       \/ \E d \in Doc : Clean!TimerElapses(d)
    /\ UNCHANGED <<rows, lease, run, apiVars>>

PipelineNext ==
    \/ \E d \in Doc : ApiStep(d)
    \/ \E w \in Worker : RunStep(w)
    \/ \E t \in Task : TimerStep(t)
    \/ CleanerStep

PipelineSpec == PipelineInit /\ [][PipelineNext]_pipelineVars

------------------------------------------------------------------------------
(* Properties                                                               *)

\* A publish commit has upserted d, in this step or before it.
Republished(d) == ~Unpublished(d)' /\ document'[d].status = "completed"

\* Deletion is for good, but for one way back: nothing the API, a late worker or a
\* cleaner does takes a document out of deleting but to deleted, or out of deleted,
\* except the upsert of a publish commit, which makes it completed.
\* (The status conditions of set_document_status, update_document,
\* set_document_status_for_ingestion_task and delete_document; none in
\* upsert_published_document.)
DeletionIsFinal ==
    [][\A d \in Doc : ~Republished(d) =>
          /\ ~Alive(d) => document'[d].status \in {"deleting", "deleted"}
          /\ document[d].status = "deleted" => document'[d].status = "deleted"]_pipelineVars

\* What a completed document consists of.  (Milvus gives up the index before it has
\* the new one, and without a data plane there is none.)
Content == {"object", "rows"} \cup (IF IndexStore = "pgvector" THEN {"index"} ELSE {})

\* A completed document no publish commit has met has its upload and its chunks, and
\* with pgvector its retrieval index, however many runs, requeues, crashes, moves
\* and reindexes led there.
\* (The document lock, "never Ok-skip", and the order of the stages.)
CompletedHasContent ==
    \A d \in Doc : Unpublished(d) /\ document[d].status = "completed" => Content \subseteq stored[d]

\* No chunks, and no other rows in the workspace of the document.
RowsGone(d) == "rows" \notin stored[d] /\ \A r \in filed[d] : r[1] # workspace[d]

\* A worker that is still running when its document is deleted and cleaned up
\* leaves no chunk behind, and no block, parse run or asset row in the workspace
\* of the document, although it files them under the workspace of its task.
\* (The status condition inside every transaction that writes them.)
DeletedHasNoRows ==
    \A d \in Doc : Unpublished(d) /\ document[d].status = "deleted" => RowsGone(d)

\* The document side effects around it leave the queue a queue: what is proved
\* of QueueSpec holds of ingestion_tasks here.
UsesTheQueue == QueueSpec

\* The invariant behind the three properties above and DeletionIsFinal.
\* A run has a lease until it gives its task back.
EndedRunsHoldNothing ==
    \A w \in Worker : run[w].stage \in {"idle", "requeued", "buried"} <=> lease[w] = NoLease

\* There is a cleanup task, or a run of one, only of a document being deleted.
CleanupMeansDeletion ==
    /\ \A d \in Doc : Unpublished(d) /\ cleanup[d].status # "new" => ~Alive(d)
    /\ \A c \in Cleaner : job[c].doc # NoDoc /\ Unpublished(job[c].doc) => ~Alive(job[c].doc)

\* Rows that a cleanup has removed stay removed until the document is marked.
RowsStayGone ==
    \A c \in Cleaner : job[c].doc # NoDoc /\ job[c].phase = "mark" /\ Unpublished(job[c].doc) =>
        RowsGone(job[c].doc)

\* What the stages a run has been through have written, as long as the document
\* is not being deleted.
StagesHaveWritten(w) ==
    LET past(stages) == run[w].stage \in stages
        written == stored[run[w].doc]
    IN /\ past({"project", "struct", "evidence", "body", "asset", "asset_row", "index",
                "inserting", "finish", "processed"}) => "object" \in written
       /\ past({"asset", "asset_row", "index", "inserting", "finish", "processed"}) =>
             "rows" \in written
       /\ past({"finish", "processed"}) => Content \subseteq written

\* Inductive, for any documents, tasks, workers, cleaners and attempts; a client
\* that may PATCH a document to completed can claim any content.
PipelineInv ==
    /\ LeaseInv
    /\ PipelineTypeOK
    /\ EndedRunsHoldNothing
    /\ CleanupMeansDeletion
    /\ RowsStayGone
    /\ DeletedHasNoRows
    /\ \A w \in Worker : run[w].doc # NoDoc /\ Alive(run[w].doc) /\ Unpublished(run[w].doc) =>
          StagesHaveWritten(w)
    /\ "completed" \notin PatchStatus => CompletedHasContent

\* No upload of a document being deleted is still queued or running, however
\* late it was completed or requeued; a reindex in two transactions may be.
\* (The tasks are buried in the transaction that sets the status, and an upload
\* is queued in the transaction that looks at the status.)
DeletionBuriesUploads == \A t \in IngestTask : ~Alive(DocOf[t]) => ~Live(t)

\* The writes of late ingestion runs and of the API leave cleanup_tasks a leased
\* queue: completed only by the holder, never revived, never over budget.
CleansLikeTheQueue == Clean!ImplementsTaskLease

\* Cleanup tasks are completed for deleted documents and no finished deletion
\* shows an error, although runs that began before it still write statuses.
CleanupEndsInDeletion ==
    \A d \in Doc : Unpublished(d) =>
        /\ cleanup[d].status = "completed" => document[d].status = "deleted"
        /\ document[d].status # "deleting" => document[d].deletion_error = "none"

\* The second layer of the invariant: how a deletion goes on and how it ends,
\* whatever the runs of the other queue write into the stores meanwhile.
DeletionInv ==
    /\ PipelineInv
    /\ Clean!LeaseInv
    /\ \A c \in Cleaner : job[c].doc # NoDoc /\ job[c].phase = "ok" /\ Unpublished(job[c].doc) =>
          document[job[c].doc].status = "deleted"
    /\ CleanupEndsInDeletion
    /\ DeletionBuriesUploads

\* Runs with an answer they have not used up yet, or in a stage that asks for none.
MayStillWrite(d) ==
    {w \in Worker : /\ run[w].doc = d
                    /\ run[w].checked = "yes" \/ run[w].stage \in {"struct", "inserting"}}

\* The stores that look at no status can be written after a deletion, but only
\* once by each run that was past its check when the deletion came: with every
\* such write there is one run less that may, and never one more.
\* (Every stage asks ensure_ingestion_side_effects_allowed anew.)
LateWritesAreBounded ==
    [][\A d \in Doc : ~Alive(d) /\ Unpublished(d)' =>
          /\ MayStillWrite(d)' \subseteq MayStillWrite(d)
          /\ \/ /\ stored'[d] \subseteq stored[d] \cup {"object"}
                /\ asset_objects'[d] \subseteq asset_objects[d]
             \/ MayStillWrite(d)' # MayStillWrite(d)]_pipelineVars

\* Not a property of the code: the table evidence has no such condition.
\* "cleanup task completed -> ... PG chunks all cleared, doc status=deleted".
DeletedHasNoChunks ==
    \A d \in Doc : cleanup[d].status = "completed" => stored[d] \cap {"rows", "evidence"} = {}

\* Not a property of the code: the index is replaced after the question.
\* "Document deleted / task lease lost: ... the index is no longer written".
DeletedHasNoIndex ==
    \A d \in Doc : document[d].status = "deleted" => "index" \notin stored[d]
==============================================================================
