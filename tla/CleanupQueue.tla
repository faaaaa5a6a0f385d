----------------------------- MODULE CleanupQueue -----------------------------
(***************************************************************************)
(* Deletion of a document: a soft delete that queues one cleanup task, and *)
(* workers that claim the task under a lease and remove, one phase after   *)
(* another, everything the document has left in the object store, in the   *)
(* retrieval index and in the database, before they mark it deleted.       *)
(*                                                                         *)
(* Before each phase the worker asks whether its lease is still current;   *)
(* the phase itself is another call, so the lease may be lost in between.  *)
(* The answer is remembered in job[c].checked.  The lease_lost flag of the *)
(* heartbeat only ever repeats what that question answers.                 *)
(***************************************************************************)
EXTENDS Naturals, FiniteSets

CONSTANTS
    Doc,           \* documents
    Asset,         \* asset_id values a document may have
    Workspace,     \* workspaces a document may be in, or may have been in
    Cleaner,       \* worker processes
    MaxAttempts,   \* max_attempts of every cleanup row
    IndexStore,    \* the retrieval data plane: "pgvector", "milvus" or "none"
    NoAsset,       \* stands for an asset in the rows that are not of one
    NoDoc          \* what a cleaner without a claimed task remembers

ASSUME CleanupAssumption ==
    /\ MaxAttempts \in Nat \ {0}
    /\ IndexStore \in {"pgvector", "milvus", "none"}
    /\ NoDoc \notin Doc /\ NoAsset \notin Asset

VARIABLES
    document,      \* document[d]: status and deletion_error
    cleanup,       \* cleanup[d]: the cleanup task of d (its key is unique per document)
    job,           \* job[c]: the run of run_document_cleanup_once in c
    stored,        \* stored[d]: what exists of d besides its assets
    asset_objects, \* asset_objects[d]: the mirrored assets in the object store
    filed,         \* filed[d]: the derived rows of d that carry a workspace_id
    workspace      \* workspace[d]: the workspace_id of d itself

cleanupVars == <<document, cleanup, job, stored, asset_objects, filed, workspace>>

DocumentStatus == {"pending", "upload_invalid", "enqueueing", "queued", "processing",
                   "completed", "failed", "deleting", "deleted"}

Document == [status : DocumentStatus, deletion_error : {"none", "set"}]

\* The uploaded object; the retrieval index, or some part of it; the body chunks
\* and the table_evidence chunks; the struct_store files.
Kind == {"object", "index", "rows", "evidence", "struct"}

\* <<ws, a>>: the document_assets row of a, filed under ws; <<ws, NoAsset>>: parse
\* runs, blocks or multimodal chunks under ws.
FiledRow == Workspace \X (Asset \cup {NoAsset})

NoToken == 0
Token == 0..MaxAttempts

CleanupRow == [status : {"new", "queued", "processing", "completed", "dead_letter"},
               attempt_count : 0..MaxAttempts, lock_token : Token,
               timer : {"running", "elapsed"}]

\* The phases of process_document_cleanup_task, and its Ok(()).
Phase == {"targets", "object", "assets", "index", "rows", "mark", "ok"}

Job == [doc : Doc \cup {NoDoc}, token : Token, phase : Phase,
        checked : {"no", "yes"}, listed : SUBSET Asset]

NoJob == [doc |-> NoDoc, token |-> NoToken, phase |-> "targets",
          checked |-> "no", listed |-> {}]

TypeOK ==
    /\ document \in [Doc -> Document]
    /\ cleanup \in [Doc -> CleanupRow]
    /\ job \in [Cleaner -> Job]
    /\ stored \in [Doc -> SUBSET Kind]
    /\ asset_objects \in [Doc -> SUBSET Asset]
    /\ filed \in [Doc -> SUBSET FiledRow]
    /\ workspace \in [Doc -> Workspace]

------------------------------------------------------------------------------
(* Conditions the statements select rows by.                                *)

Deletable(d) == document[d].status \in {"deleting", "deleted"}

\* (mutant) the statement forgets to compare the token.
LeaseOfAnyToken(d, token) == cleanup[d].status = "processing"

LeaseCurrent(d, token) ==
    /\ cleanup[d].status = "processing"
    /\ cleanup[d].lock_token = token

Holds(c, d) == job[c].doc = d /\ LeaseCurrent(d, job[c].token)

ReadyToRun(d) == cleanup[d].status \in {"queued", "processing"} /\ cleanup[d].timer = "elapsed"

\* (mutant) the CTE overlooks a worker that died in its last attempt.
ExhaustedQueuedOnly ==
    {d \in Doc : cleanup[d].status = "queued" /\ cleanup[d].timer = "elapsed"
                 /\ cleanup[d].attempt_count >= MaxAttempts}

Exhausted == {d \in Doc : ReadyToRun(d) /\ cleanup[d].attempt_count >= MaxAttempts}

\* (mutant) off by one: the budget is compared with <=.
ClaimableOnceMore == {d \in Doc : ReadyToRun(d) /\ cleanup[d].attempt_count <= MaxAttempts}

Claimable == {d \in Doc : ReadyToRun(d) /\ cleanup[d].attempt_count < MaxAttempts}

\* Stale processing rows first; among equals any, which includes the oldest.
NextTask == {d \in Claimable :
                cleanup[d].status = "processing"
                \/ \A e \in Claimable : cleanup[e].status = "queued"}

------------------------------------------------------------------------------
(* What a statement makes of one cleanup row or one document.               *)

NoRow == [status |-> "new", attempt_count |-> 0, lock_token |-> NoToken, timer |-> "running"]

InsertedRow == [status |-> "queued", attempt_count |-> 0, lock_token |-> NoToken, timer |-> "elapsed"]

Unlocked(row, status) ==
    [status |-> status, attempt_count |-> row.attempt_count,
     lock_token |-> NoToken, timer |-> "running"]

ClaimedRow(row) ==
    [status |-> "processing", attempt_count |-> row.attempt_count + 1,
     lock_token |-> row.attempt_count + 1, timer |-> "running"]

Timed(row, timer) ==
    [status |-> row.status, attempt_count |-> row.attempt_count,
     lock_token |-> row.lock_token, timer |-> timer]

AfterClaim(granted) ==
    [d \in Doc |-> IF d \in Exhausted THEN Unlocked(cleanup[d], "dead_letter")
                   ELSE IF d \in granted THEN ClaimedRow(cleanup[d])
                   ELSE cleanup[d]]

DocumentWith(status, error) == [status |-> status, deletion_error |-> error]

------------------------------------------------------------------------------
\* asset_id is the key of document_assets.
RowPerAsset(F) == \A r, q \in F : r[2] = q[2] /\ r[2] # NoAsset => r = q

\* Documents in and after ingestion.  Earlier runs may have left objects
\* whose rows are gone, and rows under a workspace the document has left.
CleanupInit ==
    /\ document \in [Doc -> {DocumentWith(s, "none") : s \in {"processing", "completed"}}]
    /\ stored \in [Doc -> {{}, {"object"}, Kind}]
    /\ asset_objects \in [Doc -> SUBSET Asset]
    /\ filed \in [Doc -> {F \in SUBSET FiledRow : RowPerAsset(F)}]
    /\ workspace \in [Doc -> Workspace]
    /\ cleanup = [d \in Doc |-> NoRow]
    /\ job = [c \in Cleaner |-> NoJob]

\* The part of delete_document outside the ingestion queue.  On a deleting
\* document only the insert is tried again, and finds the key taken.
DeleteDocument(d) ==
    /\ document[d].status # "deleted"
    /\ cleanup' = IF cleanup[d].status = "new"
                  THEN [cleanup EXCEPT ![d] = InsertedRow] ELSE cleanup
    /\ document' = IF document[d].status = "deleting" THEN document
                   ELSE [document EXCEPT ![d] = DocumentWith("deleting", "none")]
    /\ UNCHANGED <<job, stored, asset_objects, filed, workspace>>

Claim(c) ==
    /\ job[c] = NoJob
    /\ \/ \E d \in NextTask :
             /\ cleanup' = AfterClaim({d})
             /\ job' = [job EXCEPT ![c] =
                          [doc |-> d, token |-> cleanup[d].attempt_count + 1,
                           phase |-> "targets", checked |-> "no", listed |-> {}]]
       \/ /\ Claimable = {}
          /\ cleanup' = AfterClaim({})
          /\ UNCHANGED job
    /\ UNCHANGED <<document, stored, asset_objects, filed, workspace>>

Renew(c) ==
    /\ \E d \in Doc : Holds(c, d) /\ cleanup' = [cleanup EXCEPT ![d] = Timed(cleanup[d], "running")]
    /\ UNCHANGED <<document, job, stored, asset_objects, filed, workspace>>

------------------------------------------------------------------------------
(* process_document_cleanup_task                                            *)

Running(c, phase) == job[c].doc # NoDoc /\ job[c].phase = phase

Enter(c, phase, listed) ==
    job' = [job EXCEPT ![c] = [doc |-> job[c].doc, token |-> job[c].token, phase |-> phase,
                               checked |-> "no", listed |-> listed]]

\* ensure_document_cleanup_task_can_continue, when it can.
CheckLease(c) ==
    /\ job[c].phase # "ok" /\ job[c].checked = "no"
    /\ \E d \in Doc : Holds(c, d)
    /\ job' = [job EXCEPT ![c] = [doc |-> job[c].doc, token |-> job[c].token,
                                  phase |-> job[c].phase, checked |-> "yes",
                                  listed |-> job[c].listed]]
    /\ UNCHANGED <<document, cleanup, stored, asset_objects, filed, workspace>>

\* The asset rows of d under the workspace d is in now.
Listed(d) == {a \in Asset : <<workspace[d], a>> \in filed[d]}

\* A document that is not deletable ends the task without an error.
LookUpTargets(c) ==
    /\ Running(c, "targets") /\ job[c].checked = "yes"
    /\ IF Deletable(job[c].doc)
       THEN Enter(c, "object", Listed(job[c].doc))
       ELSE Enter(c, "ok", {})
    /\ UNCHANGED <<document, cleanup, stored, asset_objects, filed, workspace>>

\* (mutant) best effort: a failed delete is logged and the task goes on.
DeleteObjectBestEffort(c) ==
    /\ Running(c, "object") /\ job[c].checked = "yes"
    /\ \E gone \in SUBSET {"object"} : stored' = [stored EXCEPT ![job[c].doc] = @ \ gone]
    /\ Enter(c, "assets", job[c].listed)
    /\ UNCHANGED <<document, cleanup, asset_objects, filed, workspace>>

DeleteObject(c) ==
    /\ Running(c, "object") /\ job[c].checked = "yes"
    /\ stored' = [stored EXCEPT ![job[c].doc] = @ \ {"object"}]
    /\ Enter(c, "assets", job[c].listed)
    /\ UNCHANGED <<document, cleanup, asset_objects, filed, workspace>>

\* (mutant) best effort: a failed delete is logged and the loop goes on.
DeleteAssetObjectBestEffort(c) ==
    /\ Running(c, "assets") /\ job[c].checked = "yes"
    /\ \E a \in job[c].listed, gone \in SUBSET Asset :
          /\ asset_objects' = [asset_objects EXCEPT ![job[c].doc] = @ \ (gone \cap {a})]
          /\ Enter(c, IF job[c].listed = {a} THEN "index" ELSE "assets", job[c].listed \ {a})
    /\ UNCHANGED <<document, cleanup, stored, filed, workspace>>

\* The loop over the listed assets, one object at a time.
DeleteAssetObject(c) ==
    /\ Running(c, "assets") /\ job[c].checked = "yes"
    /\ \E a \in job[c].listed :
          /\ asset_objects' = [asset_objects EXCEPT ![job[c].doc] = @ \ {a}]
          /\ Enter(c, IF job[c].listed = {a} THEN "index" ELSE "assets", job[c].listed \ {a})
    /\ UNCHANGED <<document, cleanup, stored, filed, workspace>>

HasNoAssets(c) ==
    /\ Running(c, "assets") /\ job[c].checked = "yes" /\ job[c].listed = {}
    /\ Enter(c, "index", {})
    /\ UNCHANGED <<document, cleanup, stored, asset_objects, filed, workspace>>

\* delete_document_index of Milvus ignores every error; without a data plane
\* there is no call.
IndexDeletions ==
    CASE IndexStore = "pgvector" -> {{"index"}}
      [] IndexStore = "milvus" -> SUBSET {"index"}
      [] IndexStore = "none" -> {{}}

DeleteIndex(c) ==
    /\ Running(c, "index") /\ job[c].checked = "yes"
    /\ \E gone \in IndexDeletions : stored' = [stored EXCEPT ![job[c].doc] = @ \ gone]
    /\ Enter(c, "rows", {})
    /\ UNCHANGED <<document, cleanup, asset_objects, filed, workspace>>

\* cleanup_document_derived_rows (on any other document it is an error): chunks
\* of the document, other rows of the document in its workspace.  Then
\* remove_struct_store_files, whose failures are only logged.
DeleteDerivedRows(c) ==
    /\ Running(c, "rows") /\ job[c].checked = "yes" /\ Deletable(job[c].doc)
    /\ \E files \in SUBSET {"struct"} :
          stored' = [stored EXCEPT ![job[c].doc] = (@ \ {"rows", "evidence"}) \ files]
    /\ filed' = [filed EXCEPT ![job[c].doc] = {r \in @ : r[1] # workspace[job[c].doc]}]
    /\ Enter(c, "mark", {})
    /\ UNCHANGED <<document, cleanup, asset_objects, workspace>>

MarkDeleted(c) ==
    /\ Running(c, "mark") /\ job[c].checked = "yes" /\ Deletable(job[c].doc)
    /\ document' = [document EXCEPT ![job[c].doc] = DocumentWith("deleted", "none")]
    /\ Enter(c, "ok", {})
    /\ UNCHANGED <<cleanup, stored, asset_objects, filed, workspace>>

CleanupPhase(c) ==
    \/ CheckLease(c) \/ LookUpTargets(c) \/ DeleteObject(c) \/ DeleteAssetObject(c)
    \/ HasNoAssets(c) \/ DeleteIndex(c) \/ DeleteDerivedRows(c) \/ MarkDeleted(c)

------------------------------------------------------------------------------
(* The end of run_document_cleanup_once                                     *)

Forget(c) == job' = [job EXCEPT ![c] = NoJob]

\* (mutant) the result of the run is not looked at.
CompleteAnyway(c) ==
    /\ \E d \in Doc :
          /\ Holds(c, d)
          /\ cleanup' = [cleanup EXCEPT ![d] = Unlocked(cleanup[d], "completed")]
    /\ Forget(c)
    /\ UNCHANGED <<document, stored, asset_objects, filed, workspace>>

Complete(c) ==
    /\ Running(c, "ok")
    /\ \E d \in Doc :
          /\ Holds(c, d)
          /\ cleanup' = [cleanup EXCEPT ![d] = Unlocked(cleanup[d], "completed")]
    /\ Forget(c)
    /\ UNCHANGED <<document, stored, asset_objects, filed, workspace>>

\* (mutant) the error is written whatever the document's status is.
FailWritesError(c) ==
    /\ job[c].doc # NoDoc /\ job[c].phase # "ok"
    /\ \E d \in Doc :
          /\ Holds(c, d)
          /\ document' = [document EXCEPT ![d] = DocumentWith(document[d].status, "set")]
          /\ cleanup' = [cleanup EXCEPT ![d] =
                Unlocked(cleanup[d], IF cleanup[d].attempt_count >= MaxAttempts
                                     THEN "dead_letter" ELSE "queued")]
    /\ Forget(c)
    /\ UNCHANGED <<stored, asset_objects, filed, workspace>>

\* Any call of any phase may fail; one that fails after its effect is a
\* failure of the next phase's lease check.
Fail(c) ==
    /\ job[c].doc # NoDoc /\ job[c].phase # "ok"
    /\ \E d \in Doc :
          /\ Holds(c, d)
          /\ document' = IF document[d].status = "deleting"
                         THEN [document EXCEPT ![d] = DocumentWith("deleting", "set")]
                         ELSE document
          /\ cleanup' = [cleanup EXCEPT ![d] =
                Unlocked(cleanup[d], IF cleanup[d].attempt_count >= MaxAttempts
                                     THEN "dead_letter" ELSE "queued")]
    /\ Forget(c)
    /\ UNCHANGED <<stored, asset_objects, filed, workspace>>

\* The lease check, complete or fail finds the lease gone: nothing is written.
LeaseLost(c) ==
    /\ job[c].doc # NoDoc
    /\ \A d \in Doc : ~Holds(c, d)
    /\ Forget(c)
    /\ UNCHANGED <<document, cleanup, stored, asset_objects, filed, workspace>>

\* The worker dies.
Crash(c) ==
    /\ job[c].doc # NoDoc
    /\ Forget(c)
    /\ UNCHANGED <<document, cleanup, stored, asset_objects, filed, workspace>>

RunEnds(c) == Complete(c) \/ Fail(c) \/ LeaseLost(c) \/ Crash(c)

TimerElapses(d) ==
    /\ cleanup[d].status \in {"queued", "processing"} /\ cleanup[d].timer = "running"
    /\ cleanup' = [cleanup EXCEPT ![d] = Timed(cleanup[d], "elapsed")]
    /\ UNCHANGED <<document, job, stored, asset_objects, filed, workspace>>

CleanerStep(c) == Claim(c) \/ Renew(c) \/ CleanupPhase(c) \/ RunEnds(c)

CleanupNext ==
    \/ \E d \in Doc : DeleteDocument(d) \/ TimerElapses(d)
    \/ \E c \in Cleaner : CleanerStep(c)

CleanupSpec == CleanupInit /\ [][CleanupNext]_cleanupVars

\* Workers poll; a run goes from call to call and ends; timers run out.
CleanupFairness ==
    /\ \A c \in Cleaner : WF_cleanupVars(Claim(c)) /\ WF_cleanupVars(CleanupPhase(c) \/ RunEnds(c))
    /\ \A d \in Doc : WF_cleanupVars(TimerElapses(d))

FairCleanupSpec == CleanupSpec /\ CleanupFairness

------------------------------------------------------------------------------
(* Properties                                                               *)

\* What the cleanup removes only if it can: its failures are not errors of the task.
BestEffort == {"struct"} \cup (IF IndexStore = "pgvector" THEN {} ELSE {"index"})

\* A document marked deleted has nothing left of what the phases must remove (its
\* upload, its chunks, the rows of its workspace, its pgvector index), whichever
\* of the runs that ever cleaned it, late ones included, did the marking.  Rows
\* under another workspace, and objects without a row, are outside the promise.
\* (The order of the phases of process_document_cleanup_task.)
DeletedMeansGone ==
    \A d \in Doc : document[d].status = "deleted" =>
        /\ stored[d] \subseteq BestEffort
        /\ \A r \in filed[d] : r[1] # workspace[d]

\* The cleanup itself loses no object: the row that names an asset goes only after
\* the object has gone, so that a retry after a failure, a death or a lost lease
\* still finds every object that could be found before.
\* (Listing and deleting assets before cleanup_document_derived_rows.)
RowsOutliveObjects ==
    [][\A d \in Doc : \A r \in filed[d] \ filed'[d] : r[2] \notin asset_objects[d]]_cleanupVars

\* A finished deletion is never shown as failing, although a run that lost its
\* lease may fail after another run has marked the document.
\* (The status conditions of fail_document_cleanup_task and mark_document_deleted.)
DeletedShowsNoError ==
    \A d \in Doc : document[d].status # "deleting" => document[d].deletion_error = "none"

\* A task row is completed only when its document has been deleted.
CompletedMeansDeleted ==
    \A d \in Doc : cleanup[d].status = "completed" => document[d].status = "deleted"

\* The invariant behind the four properties above.
\* A row under a lease has the number of its claim as its token.
TokenMatchesClaim ==
    \A d \in Doc :
        /\ cleanup[d].status = "processing" =>
              cleanup[d].lock_token = cleanup[d].attempt_count /\ cleanup[d].attempt_count # 0
        /\ cleanup[d].status = "new" => cleanup[d].attempt_count = 0

\* What a run remembers is a claim the table has granted ...
RunRemembersClaim ==
    \A c \in Cleaner : job[c] # NoJob =>
        job[c].doc \in Doc /\ job[c].token \in 1..cleanup[job[c].doc].attempt_count

\* ... and granted to it alone.
ClaimsRememberedOnce ==
    \A b, c \in Cleaner : b # c /\ job[b] # NoJob /\ job[b].doc = job[c].doc =>
        job[b].token # job[c].token

\* There is no task without a deletion.
TaskMeansDeletion == \A d \in Doc : cleanup[d].status # "new" => Deletable(d)

\* What the earlier phases of a run removed stays removed while it goes on, and of
\* the assets with a row only those it has still listed have an object, whatever
\* other runs have done.
EarlierPhasesDone(c) ==
    LET d == job[c].doc
        past(phases) == job[c].phase \in phases
    IN /\ past({"assets", "index", "rows", "mark"}) => "object" \notin stored[d]
       /\ past({"object", "assets"}) => Listed(d) \cap asset_objects[d] \subseteq job[c].listed
       /\ past({"index", "rows", "mark"}) => Listed(d) \cap asset_objects[d] = {}
       /\ past({"rows", "mark"}) => stored[d] \cap {"index"} \subseteq BestEffort
       /\ past({"mark"}) => stored[d] \subseteq BestEffort /\ \A r \in filed[d] : r[1] # workspace[d]
       /\ past({"ok"}) => document[d].status = "deleted"

LeaseInv == TypeOK /\ TokenMatchesClaim /\ RunRemembersClaim /\ ClaimsRememberedOnce

\* Inductive, for any documents, assets, cleaners and attempts.
CleanupInv ==
    /\ LeaseInv
    /\ TaskMeansDeletion
    /\ \A c \in Cleaner : job[c] # NoJob => EarlierPhasesDone(c)
    /\ DeletedMeansGone
    /\ DeletedShowsNoError
    /\ CompletedMeansDeleted

\* A deletion that was asked for is finished, or its task is dead-lettered
\* after max_attempts runs: it never hangs, although workers may die anywhere.
DeletionSettles ==
    \A d \in Doc : document[d].status = "deleting"
        ~> document[d].status = "deleted" \/ cleanup[d].status = "dead_letter"

\* The cleanup queue implements the abstract leased queue.
phaseOf(d) ==
    CASE cleanup[d].status = "new" -> "none"
      [] cleanup[d].status = "queued" -> "ready"
      [] cleanup[d].status = "processing" -> "held"
      [] cleanup[d].status = "dead_letter" -> "dead"
      [] cleanup[d].status = "completed" -> "done"

Abs == INSTANCE TaskLease WITH
          Task <- Doc,
          Worker <- Cleaner,
          Budget <- MaxAttempts,
          phase <- [d \in Doc |-> phaseOf(d)],
          holders <- [d \in Doc |-> {c \in Cleaner : Holds(c, d)}],
          grants <- [d \in Doc |-> cleanup[d].attempt_count]

\* Every step of the cleanup queue is a step TaskLease allows: completed only
\* by the holder, never revived, never claimed beyond max_attempts.
ImplementsTaskLease == Abs!AbsSpec
==============================================================================
