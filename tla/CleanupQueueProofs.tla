-------------------------- MODULE CleanupQueueProofs --------------------------
(***************************************************************************)
(* Proofs about CleanupQueue, for every set of documents, assets and       *)
(* cleaners and every attempt budget: a document marked deleted has        *)
(* nothing left of what the phases must remove, no row goes before its     *)
(* object, a task is completed only for a deleted document, and the queue  *)
(* implements the abstract TaskLease.                                      *)
(***************************************************************************)
EXTENDS CleanupQueue, TLAPS

LEMMA InitEstablishesInv == CleanupInit => CleanupInv
  <1> SUFFICES ASSUME CleanupInit PROVE CleanupInv
    OBVIOUS
  <1>1. TypeOK
    BY CleanupAssumption
    DEF CleanupInit, TypeOK, Document, DocumentStatus, DocumentWith, CleanupRow, Token, NoToken,
        NoRow, Job, NoJob, Phase, Kind
  <1>2. TokenMatchesClaim /\ RunRemembersClaim /\ ClaimsRememberedOnce /\ TaskMeansDeletion
    BY DEF CleanupInit, TokenMatchesClaim, RunRemembersClaim, ClaimsRememberedOnce,
           TaskMeansDeletion, NoRow
  <1>3. \A c \in Cleaner : job[c] = NoJob
    BY DEF CleanupInit
  <1>4. DeletedMeansGone /\ DeletedShowsNoError /\ CompletedMeansDeleted
    <2>1. \A d \in Doc : \E s \in {"processing", "completed"} :
                            document[d] = DocumentWith(s, "none")
      BY DEF CleanupInit
    <2>2. \A d \in Doc : document[d].status # "deleted" /\ document[d].deletion_error = "none"
      BY <2>1 DEF DocumentWith
    <2>3. \A d \in Doc : cleanup[d].status = "new"
      BY DEF CleanupInit, NoRow
    <2> QED BY <2>2, <2>3 DEF DeletedMeansGone, DeletedShowsNoError, CompletedMeansDeleted
  <1> QED BY <1>1, <1>2, <1>3, <1>4 DEF CleanupInv, LeaseInv

------------------------------------------------------------------------------
(* The lease: rows, runs and their tokens.                                  *)

RowOK(row) ==
    /\ row \in CleanupRow
    /\ row.status = "processing" => row.lock_token = row.attempt_count /\ row.attempt_count # 0
    /\ row.status = "new" => row.attempt_count = 0

\* What a statement makes of one row keeps its token the number of its claims,
\* and never lowers that number.
LEMMA RowSteps ==
  ASSUME NEW row, RowOK(row)
  PROVE  /\ \A status \in {"queued", "completed", "dead_letter"} :
               /\ RowOK(Unlocked(row, status))
               /\ Unlocked(row, status).attempt_count = row.attempt_count
         /\ \A timer \in {"running", "elapsed"} :
               /\ RowOK(Timed(row, timer))
               /\ Timed(row, timer).attempt_count = row.attempt_count
         /\ row.status = "new" =>
               RowOK(InsertedRow) /\ InsertedRow.attempt_count = row.attempt_count
         /\ row.attempt_count < MaxAttempts =>
               /\ RowOK(ClaimedRow(row))
               /\ ClaimedRow(row).attempt_count = row.attempt_count + 1
  BY CleanupAssumption
  DEF RowOK, CleanupRow, Token, NoToken, Unlocked, Timed, InsertedRow, ClaimedRow

LEMMA LeaseInvByRows ==
  ASSUME LeaseInv
  PROVE  /\ cleanup \in [Doc -> CleanupRow]
         /\ \A d \in Doc : RowOK(cleanup[d]) /\ cleanup[d].attempt_count \in 0..MaxAttempts
         /\ job \in [Cleaner -> Job]
  BY DEF LeaseInv, TypeOK, TokenMatchesClaim, RowOK, CleanupRow

\* The step leaves every row in order and forgets no claim.
RowsInOrder ==
    /\ cleanup' \in [Doc -> CleanupRow]
    /\ \A d \in Doc : RowOK(cleanup'[d]) /\ cleanup[d].attempt_count <= cleanup'[d].attempt_count

\* The run of every cleaner keeps its claim or is over.
NoNewClaim ==
    \A c \in Cleaner : \/ job'[c] = NoJob
                       \/ /\ job[c] # NoJob
                          /\ job'[c].doc = job[c].doc /\ job'[c].token = job[c].token

\* A step that gives no cleaner a claim keeps the lease part of the invariant.
LEMMA NoClaimStep ==
  ASSUME LeaseInv, TypeOK', RowsInOrder, NoNewClaim
  PROVE  LeaseInv'
  <1>0. \A d \in Doc : cleanup[d].attempt_count \in Nat /\ cleanup'[d].attempt_count \in Nat
    BY LeaseInvByRows, CleanupAssumption DEF RowsInOrder, RowOK, CleanupRow
  <1>1. TokenMatchesClaim'
    BY DEF RowsInOrder, RowOK, TokenMatchesClaim
  <1>2. RunRemembersClaim'
    <2>1. ASSUME NEW c \in Cleaner, job'[c] # NoJob
          PROVE  job'[c].doc \in Doc /\ job'[c].token \in 1..cleanup'[job'[c].doc].attempt_count
      <3>1. /\ job'[c].doc = job[c].doc /\ job'[c].token = job[c].token
            /\ job[c].doc \in Doc /\ job[c].token \in 1..cleanup[job[c].doc].attempt_count
        BY <2>1 DEF NoNewClaim, LeaseInv, RunRemembersClaim
      <3> QED BY <1>0, <3>1 DEF RowsInOrder
    <2> QED BY <2>1 DEF RunRemembersClaim
  <1>3. ClaimsRememberedOnce'
    <2>1. ASSUME NEW b \in Cleaner, NEW c \in Cleaner, b # c, job'[b] # NoJob,
                 job'[b].doc = job'[c].doc
          PROVE  job'[b].token # job'[c].token
      <3>1. job[b] # NoJob /\ job'[b].doc = job[b].doc /\ job'[b].token = job[b].token
            /\ job[b].doc \in Doc
        BY <2>1 DEF NoNewClaim, LeaseInv, RunRemembersClaim
      <3>2. job'[c] # NoJob
        <4>1. job'[c].doc \in Doc
          BY <2>1, <3>1
        <4>2. NoJob.doc = NoDoc
          BY DEF NoJob
        <4> QED BY <4>1, <4>2, CleanupAssumption
      <3>3. job'[c].doc = job[c].doc /\ job'[c].token = job[c].token
        BY <3>2 DEF NoNewClaim
      <3> QED BY <2>1, <3>1, <3>3 DEF LeaseInv, ClaimsRememberedOnce
    <2> QED BY <2>1 DEF ClaimsRememberedOnce
  <1> QED BY <1>1, <1>2, <1>3 DEF LeaseInv

\* What the claim statement makes of the rows.
LEMMA ClaimedRows ==
  ASSUME LeaseInv, NEW granted \in SUBSET Claimable, cleanup' = AfterClaim(granted)
  PROVE  /\ RowsInOrder
         /\ granted \cap Exhausted = {}
         /\ \A d \in granted : cleanup'[d] = ClaimedRow(cleanup[d])
  <1>0. /\ \A d \in Doc : RowOK(cleanup[d]) /\ cleanup[d].attempt_count \in 0..MaxAttempts
        /\ granted \subseteq Doc /\ \A d \in granted : cleanup[d].attempt_count < MaxAttempts
    BY LeaseInvByRows DEF Claimable
  <1>1. granted \cap Exhausted = {}
    BY <1>0, CleanupAssumption DEF Exhausted
  <1>2. \A d \in Doc : /\ RowOK(cleanup'[d])
                       /\ cleanup[d].attempt_count <= cleanup'[d].attempt_count
    <2> SUFFICES ASSUME NEW d \in Doc
                 PROVE  RowOK(cleanup'[d]) /\ cleanup[d].attempt_count <= cleanup'[d].attempt_count
      OBVIOUS
    <2>1. CASE d \in Exhausted
      <3>1. cleanup'[d] = Unlocked(cleanup[d], "dead_letter")
        BY <2>1 DEF AfterClaim
      <3>2. /\ RowOK(Unlocked(cleanup[d], "dead_letter"))
            /\ Unlocked(cleanup[d], "dead_letter").attempt_count = cleanup[d].attempt_count
        BY <1>0, RowSteps
      <3> QED BY <1>0, <3>1, <3>2, CleanupAssumption
    <2>2. CASE d \in granted
      <3>1. cleanup'[d] = ClaimedRow(cleanup[d])
        BY <1>1, <2>2 DEF AfterClaim
      <3>2. /\ RowOK(ClaimedRow(cleanup[d]))
            /\ ClaimedRow(cleanup[d]).attempt_count = cleanup[d].attempt_count + 1
        BY <1>0, <2>2, RowSteps
      <3> QED BY <1>0, <3>1, <3>2, CleanupAssumption
    <2>3. CASE d \notin Exhausted /\ d \notin granted
      BY <1>0, <2>3, CleanupAssumption DEF AfterClaim
    <2> QED BY <2>1, <2>2, <2>3
  <1>3. cleanup' \in [Doc -> CleanupRow]
    BY <1>2 DEF AfterClaim, RowOK
  <1> QED BY <1>0, <1>1, <1>2, <1>3 DEF AfterClaim, RowsInOrder

\* A claim keeps the lease part: the token given out is larger than every token
\* remembered for that task.
LEMMA ClaimStep ==
  ASSUME LeaseInv, NEW c \in Cleaner, Claim(c)
  PROVE  LeaseInv' /\ RowsInOrder
  <1>0. /\ \A d \in Doc : RowOK(cleanup[d]) /\ cleanup[d].attempt_count \in 0..MaxAttempts
        /\ job \in [Cleaner -> Job] /\ job[c] = NoJob
        /\ TypeOK
    BY LeaseInvByRows DEF Claim, LeaseInv
  <1>1. CASE cleanup' = AfterClaim({}) /\ UNCHANGED job
    <2>1. RowsInOrder
      BY <1>1, ClaimedRows
    <2>2. TypeOK'
      BY <1>0, <1>1, <2>1 DEF TypeOK, RowsInOrder, Claim
    <2> QED BY <1>1, <2>1, <2>2, NoClaimStep DEF NoNewClaim
  <1>2. ASSUME NEW d \in NextTask, cleanup' = AfterClaim({d}),
               job' = [job EXCEPT ![c] =
                         [doc |-> d, token |-> cleanup[d].attempt_count + 1,
                          phase |-> "targets", checked |-> "no", listed |-> {}]]
        PROVE  LeaseInv' /\ RowsInOrder
    <2>1. d \in Claimable /\ d \in Doc /\ cleanup[d].attempt_count < MaxAttempts
      BY DEF NextTask, Claimable
    <2>2. RowsInOrder /\ cleanup'[d] = ClaimedRow(cleanup[d])
      BY <1>2, <2>1, ClaimedRows
    <2>3. cleanup'[d].attempt_count = cleanup[d].attempt_count + 1
      BY <2>2 DEF ClaimedRow
    <2>4. \A e \in Doc : cleanup[e].attempt_count \in Nat /\ cleanup'[e].attempt_count \in Nat
      BY <1>0, <2>2, CleanupAssumption DEF RowsInOrder, RowOK, CleanupRow
    <2>5. TypeOK'
      <3>1. cleanup[d].attempt_count + 1 \in Token
        BY <1>0, <2>1, CleanupAssumption DEF Token
      <3>2. job' \in [Cleaner -> Job]
        BY <1>0, <1>2, <2>1, <3>1 DEF Job, Phase
      <3> QED BY <1>0, <2>2, <3>2 DEF TypeOK, RowsInOrder, Claim
    <2>6. \A b \in Cleaner : b # c => job'[b] = job[b]
      BY <1>0, <1>2
    <2>7. job'[c].doc = d /\ job'[c].token = cleanup[d].attempt_count + 1
      BY <1>0, <1>2
    <2>8. \A b \in Cleaner : b # c /\ job[b] # NoJob =>
             job[b].doc \in Doc /\ job[b].token \in 1..cleanup[job[b].doc].attempt_count
      BY DEF LeaseInv, RunRemembersClaim
    <2>9. RunRemembersClaim'
      BY <2>1, <2>2, <2>3, <2>4, <2>6, <2>7, <2>8 DEF RunRemembersClaim, RowsInOrder
    <2>10. ASSUME NEW b \in Cleaner, b # c, job'[b].doc = job'[c].doc
           PROVE  job'[b].token # job'[c].token
      <3>1. job[b].doc = d
        BY <2>6, <2>7, <2>10
      <3>2. job[b] # NoJob
        BY <2>1, <3>1, CleanupAssumption DEF NoJob
      <3> QED BY <2>1, <2>4, <2>6, <2>7, <2>8, <2>10, <3>1, <3>2
    <2>11. ClaimsRememberedOnce'
      BY <2>6, <2>10 DEF LeaseInv, ClaimsRememberedOnce
    <2>12. TokenMatchesClaim'
      BY <2>2 DEF RowsInOrder, RowOK, TokenMatchesClaim
    <2> QED BY <2>2, <2>5, <2>9, <2>11, <2>12 DEF LeaseInv
  <1> QED BY <1>1, <1>2 DEF Claim

\* A step of a run that keeps or ends its claim, without touching rows.
LEMMA RunStepKeepsClaims ==
  ASSUME LeaseInv, TypeOK', UNCHANGED cleanup, NoNewClaim
  PROVE  LeaseInv' /\ RowsInOrder
  <1>1. RowsInOrder
    BY LeaseInvByRows, CleanupAssumption DEF RowsInOrder
  <1> QED BY <1>1, NoClaimStep

\* A step that writes one row with one of the row operators.
LEMMA OneRowStep ==
  ASSUME LeaseInv, NEW d \in Doc, NEW row, RowOK(row),
         row.attempt_count = cleanup[d].attempt_count,
         cleanup' = [cleanup EXCEPT ![d] = row]
  PROVE  RowsInOrder
  BY LeaseInvByRows, CleanupAssumption DEF RowsInOrder, RowOK

\* A run that goes on to a phase keeps its claim.
LEMMA EnterKeepsClaim ==
  ASSUME LeaseInv, NEW c \in Cleaner, job[c].doc # NoDoc,
         NEW phase \in Phase, NEW listed \in SUBSET Asset, Enter(c, phase, listed)
  PROVE  /\ NoNewClaim
         /\ job' \in [Cleaner -> Job]
         /\ \A b \in Cleaner : b # c => job'[b] = job[b]
         /\ job'[c] = [doc |-> job[c].doc, token |-> job[c].token, phase |-> phase,
                       checked |-> "no", listed |-> listed]
  <1>0. job \in [Cleaner -> Job]
    BY LeaseInvByRows
  <1>1. job[c] # NoJob
    BY DEF NoJob
  <1>2. job' \in [Cleaner -> Job]
    BY <1>0 DEF Enter, Job
  <1>3. /\ job'[c] = [doc |-> job[c].doc, token |-> job[c].token, phase |-> phase,
                      checked |-> "no", listed |-> listed]
        /\ \A b \in Cleaner : b # c => job'[b] = job[b]
    BY <1>0 DEF Enter
  <1>4. job'[c].doc = job[c].doc /\ job'[c].token = job[c].token
    BY <1>3
  <1>5. \A b \in Cleaner : b # c => job'[b] = NoJob \/ job[b] # NoJob
    BY <1>3
  <1> QED BY <1>1, <1>2, <1>3, <1>4, <1>5 DEF NoNewClaim

\* A run that is over gives its claim back.
LEMMA ForgetKeepsClaims ==
  ASSUME LeaseInv, NEW c \in Cleaner, Forget(c)
  PROVE  /\ NoNewClaim
         /\ job' \in [Cleaner -> Job]
         /\ \A b \in Cleaner : b # c => job'[b] = job[b]
         /\ job'[c] = NoJob
  <1>0. job \in [Cleaner -> Job]
    BY LeaseInvByRows
  <1>1. NoJob \in Job
    BY CleanupAssumption DEF NoJob, Job, Phase, Token, NoToken
  <1> QED BY <1>0, <1>1 DEF Forget, NoNewClaim

\* A phase goes on with the claim of its run.
LEMMA PhaseKeepsRun ==
  ASSUME NEW c \in Cleaner, CleanupPhase(c)
  PROVE  /\ UNCHANGED cleanup
         /\ job[c].doc # NoDoc
         /\ \E run : /\ job' = [job EXCEPT ![c] = run]
                     /\ run.doc = job[c].doc /\ run.token = job[c].token
  <1>1. UNCHANGED cleanup
    BY DEF CleanupPhase, CheckLease, LookUpTargets, DeleteObject, DeleteAssetObject, HasNoAssets,
           DeleteIndex, DeleteDerivedRows, MarkDeleted
  <1>2. ASSUME NEW phase, NEW listed, Enter(c, phase, listed)
        PROVE  \E run : /\ job' = [job EXCEPT ![c] = run]
                        /\ run.doc = job[c].doc /\ run.token = job[c].token
    <2> DEFINE run == [doc |-> job[c].doc, token |-> job[c].token, phase |-> phase,
                       checked |-> "no", listed |-> listed]
    <2>1. run.doc = job[c].doc /\ run.token = job[c].token
      OBVIOUS
    <2>2. job' = [job EXCEPT ![c] = run]
      BY <1>2 DEF Enter
    <2> HIDE DEF run
    <2> QED BY <2>1, <2>2
  <1>3. ASSUME CheckLease(c)
        PROVE  \E run : /\ job' = [job EXCEPT ![c] = run]
                        /\ run.doc = job[c].doc /\ run.token = job[c].token
    <2> DEFINE run == [doc |-> job[c].doc, token |-> job[c].token, phase |-> job[c].phase,
                       checked |-> "yes", listed |-> job[c].listed]
    <2>1. run.doc = job[c].doc /\ run.token = job[c].token
      OBVIOUS
    <2>2. job' = [job EXCEPT ![c] = run]
      BY <1>3 DEF CheckLease
    <2> HIDE DEF run
    <2> QED BY <2>1, <2>2
  <1>4. CheckLease(c) \/ \E phase, listed : Enter(c, phase, listed)
    BY DEF CleanupPhase, LookUpTargets, DeleteObject, DeleteAssetObject, HasNoAssets,
           DeleteIndex, DeleteDerivedRows, MarkDeleted
  <1>5. job[c].doc # NoDoc
    BY CleanupAssumption
    DEF CleanupPhase, CheckLease, Holds, LookUpTargets, DeleteObject, DeleteAssetObject,
        HasNoAssets, DeleteIndex, DeleteDerivedRows, MarkDeleted, Running
  <1> QED BY <1>1, <1>2, <1>3, <1>4, <1>5

\* What the steps of this module do to tasks and claims, whoever else writes
\* documents and stores.
CleanupStep ==
    \/ \E d \in Doc : DeleteDocument(d) \/ TimerElapses(d)
    \/ \E c \in Cleaner : CleanerStep(c)
    \/ UNCHANGED <<cleanup, job>>

\* The lease part is inductive by itself.
LEMMA StepKeepsLease ==
  ASSUME LeaseInv, TypeOK', CleanupStep
  PROVE  LeaseInv'
  <1>0. /\ job \in [Cleaner -> Job] /\ cleanup \in [Doc -> CleanupRow]
        /\ \A d \in Doc : RowOK(cleanup[d]) /\ cleanup[d].attempt_count \in 0..MaxAttempts
    BY LeaseInvByRows
  <1>1. ASSUME NoNewClaim, UNCHANGED cleanup PROVE LeaseInv'
    BY <1>1, RunStepKeepsClaims
  <1>2. ASSUME NoNewClaim, NEW d \in Doc, NEW row, RowOK(row),
               row.attempt_count = cleanup[d].attempt_count, cleanup' = [cleanup EXCEPT ![d] = row]
        PROVE  LeaseInv'
    BY <1>2, OneRowStep, NoClaimStep
  <1>3. UNCHANGED job => NoNewClaim
    BY DEF NoNewClaim
  <1>4. ASSUME NEW d \in Doc, DeleteDocument(d) PROVE LeaseInv'
    <2>1. UNCHANGED job
      BY <1>4 DEF DeleteDocument
    <2>2. CASE cleanup[d].status = "new"
      <3>1. RowOK(InsertedRow) /\ InsertedRow.attempt_count = cleanup[d].attempt_count
        BY <1>0, <2>2, RowSteps
      <3>2. cleanup' = [cleanup EXCEPT ![d] = InsertedRow]
        BY <1>4, <2>2 DEF DeleteDocument
      <3> QED BY <1>2, <1>3, <2>1, <3>1, <3>2
    <2>3. CASE cleanup[d].status # "new"
      BY <1>1, <1>3, <1>4, <2>1, <2>3 DEF DeleteDocument
    <2> QED BY <2>2, <2>3
  <1>5. ASSUME NEW d \in Doc, NEW timer \in {"running", "elapsed"}, UNCHANGED job,
               cleanup' = [cleanup EXCEPT ![d] = Timed(cleanup[d], timer)]
        PROVE  LeaseInv'
    <2>1. /\ RowOK(Timed(cleanup[d], timer))
          /\ Timed(cleanup[d], timer).attempt_count = cleanup[d].attempt_count
      BY <1>0, RowSteps
    <2> QED BY <1>2, <1>3, <1>5, <2>1
  <1>6. ASSUME NEW d \in Doc, TimerElapses(d) PROVE LeaseInv'
    BY <1>5, <1>6 DEF TimerElapses
  <1>7. ASSUME NEW c \in Cleaner, Renew(c) PROVE LeaseInv'
    BY <1>5, <1>7 DEF Renew
  <1>8. ASSUME NEW c \in Cleaner, CleanupPhase(c) PROVE LeaseInv'
    <2>1. PICK run : /\ job' = [job EXCEPT ![c] = run]
                     /\ run.doc = job[c].doc /\ run.token = job[c].token
      BY <1>8, PhaseKeepsRun
    <2>2. UNCHANGED cleanup /\ job[c] # NoJob
      BY <1>8, PhaseKeepsRun DEF NoJob
    <2>3. NoNewClaim
      BY <1>0, <2>1, <2>2 DEF NoNewClaim
    <2> QED BY <1>1, <2>2, <2>3
  <1>9. ASSUME NEW c \in Cleaner, RunEnds(c) PROVE LeaseInv'
    <2>1. Forget(c)
      BY <1>9 DEF RunEnds, Complete, Fail, LeaseLost, Crash
    <2>2. NoNewClaim
      BY <2>1, ForgetKeepsClaims
    <2>3. \/ UNCHANGED cleanup
          \/ \E d \in Doc, status \in {"queued", "completed", "dead_letter"} :
                cleanup' = [cleanup EXCEPT ![d] = Unlocked(cleanup[d], status)]
      BY <1>9 DEF RunEnds, Complete, Fail, LeaseLost, Crash
    <2>4. ASSUME NEW d \in Doc, NEW status \in {"queued", "completed", "dead_letter"},
                 cleanup' = [cleanup EXCEPT ![d] = Unlocked(cleanup[d], status)]
          PROVE  LeaseInv'
      <3>1. /\ RowOK(Unlocked(cleanup[d], status))
            /\ Unlocked(cleanup[d], status).attempt_count = cleanup[d].attempt_count
        BY <1>0, RowSteps
      <3> QED BY <1>2, <2>2, <2>4, <3>1
    <2> QED BY <1>1, <2>2, <2>3, <2>4
  <1> QED BY <1>1, <1>3, <1>4, <1>6, <1>7, <1>8, <1>9, ClaimStep DEF CleanupStep, CleanerStep

------------------------------------------------------------------------------
(* The phases: effects only ever remove, and a deletion is never taken back. *)

OnlyRemoves ==
    /\ \A d \in Doc : /\ stored'[d] \subseteq stored[d]
                      /\ asset_objects'[d] \subseteq asset_objects[d]
                      /\ filed'[d] \subseteq filed[d] /\ workspace'[d] = workspace[d]
                      /\ document[d].status = "deleted" => document'[d].status = "deleted"

\* A run that is over, begins, or stays in its phase with what it has listed.
StaysInPhase(c) ==
    \/ job'[c] = NoJob
    \/ job'[c].phase = "targets"
    \/ /\ job[c] # NoJob
       /\ job'[c].doc = job[c].doc /\ job'[c].phase = job[c].phase
       /\ job'[c].listed = job[c].listed

LEMMA StayingKeepsPhase ==
  ASSUME CleanupInv, OnlyRemoves, NEW c \in Cleaner, StaysInPhase(c), job'[c] # NoJob
  PROVE  EarlierPhasesDone(c)'
  <1>1. CASE job'[c].phase = "targets"
    BY <1>1 DEF EarlierPhasesDone
  <1>2. CASE job'[c].phase # "targets"
    <2>1. /\ job'[c].doc = job[c].doc /\ job'[c].phase = job[c].phase
          /\ job'[c].listed = job[c].listed
          /\ job[c].doc \in Doc /\ EarlierPhasesDone(c)
      BY <1>2 DEF StaysInPhase, CleanupInv, LeaseInv, RunRemembersClaim
    <2> DEFINE d == job[c].doc
    <2>2. /\ stored'[d] \subseteq stored[d]
          /\ asset_objects'[d] \subseteq asset_objects[d]
          /\ filed'[d] \subseteq filed[d] /\ workspace'[d] = workspace[d]
          /\ document[d].status = "deleted" => document'[d].status = "deleted"
      BY <2>1 DEF OnlyRemoves
    <2> QED BY <2>1, <2>2 DEF EarlierPhasesDone, Listed
  <1> QED BY <1>1, <1>2

\* A step that touches neither documents nor stores.
LEMMA QuietStep ==
  ASSUME CleanupInv, LeaseInv', UNCHANGED <<document, stored, asset_objects, filed, workspace>>,
         \A c \in Cleaner : StaysInPhase(c),
         \A d \in Doc : /\ cleanup'[d].status # "new" => cleanup[d].status # "new"
                        /\ cleanup'[d].status = "completed" =>
                              cleanup[d].status = "completed" \/ document[d].status = "deleted"
  PROVE  CleanupInv'
  <1>1. OnlyRemoves
    BY DEF OnlyRemoves
  <1>2. \A c \in Cleaner : job'[c] # NoJob => EarlierPhasesDone(c)'
    BY <1>1, StayingKeepsPhase
  <1>3. TaskMeansDeletion' /\ CompletedMeansDeleted'
    BY DEF CleanupInv, TaskMeansDeletion, CompletedMeansDeleted, Deletable
  <1>4. DeletedMeansGone' /\ DeletedShowsNoError'
    BY DEF CleanupInv, DeletedMeansGone, DeletedShowsNoError
  <1> QED BY <1>2, <1>3, <1>4 DEF CleanupInv, NoJob

\* One row is written with one of the row operators, documents and stores are
\* left alone, and the runs go on or one of them is over.
LEMMA RowWritten ==
  ASSUME CleanupInv, NEW d \in Doc, NEW row, RowOK(row),
         row.attempt_count = cleanup[d].attempt_count,
         row.status # "new" => cleanup[d].status # "new",
         row.status = "completed" => cleanup[d].status = "completed" \/ document[d].status = "deleted",
         cleanup' = [cleanup EXCEPT ![d] = row],
         UNCHANGED <<document, stored, asset_objects, filed, workspace>>,
         UNCHANGED job \/ \E c \in Cleaner : Forget(c)
  PROVE  CleanupInv'
  <1>0. LeaseInv /\ TypeOK /\ cleanup \in [Doc -> CleanupRow]
    BY LeaseInvByRows DEF CleanupInv, LeaseInv
  <1>1. RowsInOrder
    BY <1>0, OneRowStep
  <1>2. NoNewClaim /\ job' \in [Cleaner -> Job] /\ \A c \in Cleaner : StaysInPhase(c)
    <2>1. CASE UNCHANGED job
      BY <1>0, <2>1 DEF NoNewClaim, StaysInPhase, TypeOK
    <2>2. ASSUME NEW c \in Cleaner, Forget(c)
          PROVE  NoNewClaim /\ job' \in [Cleaner -> Job] /\ \A b \in Cleaner : StaysInPhase(b)
      <3>1. /\ NoNewClaim /\ job' \in [Cleaner -> Job] /\ job'[c] = NoJob
            /\ \A b \in Cleaner : b # c => job'[b] = job[b]
        BY <1>0, <2>2, ForgetKeepsClaims
      <3> QED BY <3>1 DEF StaysInPhase
    <2> QED BY <2>1, <2>2
  <1>3. TypeOK'
    BY <1>0, <1>1, <1>2 DEF TypeOK, RowsInOrder
  <1>4. LeaseInv'
    BY <1>0, <1>1, <1>2, <1>3, NoClaimStep
  <1>5. \A e \in Doc : cleanup'[e] = IF e = d THEN row ELSE cleanup[e]
    BY <1>0
  <1> QED BY <1>2, <1>4, <1>5, QuietStep

\* A run goes from one phase to the next without writing rows of the queue.
LEMMA PhaseEntered ==
  ASSUME CleanupInv, NEW c \in Cleaner, job[c].doc # NoDoc,
         NEW phase \in Phase, NEW listed \in SUBSET Asset, Enter(c, phase, listed),
         UNCHANGED cleanup,
         document' \in [Doc -> Document], stored' \in [Doc -> SUBSET Kind],
         asset_objects' \in [Doc -> SUBSET Asset], filed' \in [Doc -> SUBSET FiledRow],
         workspace' \in [Doc -> Workspace],
         OnlyRemoves, EarlierPhasesDone(c)'
  PROVE  LeaseInv' /\ \A b \in Cleaner : job'[b] # NoJob => EarlierPhasesDone(b)'
  <1>0. LeaseInv /\ TypeOK
    BY DEF CleanupInv, LeaseInv
  <1>1. /\ NoNewClaim /\ job' \in [Cleaner -> Job]
        /\ \A b \in Cleaner : b # c => job'[b] = job[b]
    BY <1>0, EnterKeepsClaim
  <1>2. TypeOK'
    BY <1>0, <1>1 DEF TypeOK
  <1>3. LeaseInv'
    BY <1>0, <1>1, <1>2, RunStepKeepsClaims
  <1>4. ASSUME NEW b \in Cleaner, job'[b] # NoJob PROVE EarlierPhasesDone(b)'
    <2>1. b # c => StaysInPhase(b)
      BY <1>1, <1>4 DEF StaysInPhase
    <2> QED BY <1>4, <2>1, StayingKeepsPhase
  <1> QED BY <1>3, <1>4

\* What a run with a task is, and where its task stands.
LEMMA RunHasTask ==
  ASSUME CleanupInv, NEW c \in Cleaner, job[c].doc # NoDoc
  PROVE  /\ job[c] # NoJob /\ job[c].doc \in Doc /\ job[c] \in Job
         /\ EarlierPhasesDone(c)
         /\ cleanup[job[c].doc].status # "new" /\ Deletable(job[c].doc)
  <1>1. job[c] # NoJob
    BY DEF NoJob
  <1>2. /\ job[c].doc \in Doc /\ EarlierPhasesDone(c)
        /\ job[c].token \in 1..cleanup[job[c].doc].attempt_count
    BY <1>1 DEF CleanupInv, LeaseInv, RunRemembersClaim
  <1>3. cleanup[job[c].doc].attempt_count \in Nat /\ cleanup[job[c].doc].attempt_count # 0
    BY <1>2, LeaseInvByRows, CleanupAssumption DEF CleanupInv
  <1>4. cleanup[job[c].doc].status # "new"
    BY <1>2, <1>3 DEF CleanupInv, LeaseInv, TokenMatchesClaim
  <1>5. job[c] \in Job
    BY DEF CleanupInv, LeaseInv, TypeOK
  <1> QED BY <1>1, <1>2, <1>4, <1>5 DEF CleanupInv, TaskMeansDeletion

LEMMA LookUpKeepsInv ==
  ASSUME CleanupInv, NEW c \in Cleaner, LookUpTargets(c) PROVE CleanupInv'
  <1>0. job[c].doc # NoDoc /\ TypeOK
    BY DEF LookUpTargets, Running, CleanupInv, LeaseInv
  <1>1. job[c].doc \in Doc /\ Deletable(job[c].doc)
    BY <1>0, RunHasTask
  <1>2. /\ Listed(job[c].doc) \in SUBSET Asset
        /\ Enter(c, "object", Listed(job[c].doc))
    BY <1>0, <1>1 DEF LookUpTargets, Listed
  <1>3. OnlyRemoves /\ UNCHANGED <<document, cleanup, stored, asset_objects, filed, workspace>>
    BY DEF LookUpTargets, OnlyRemoves
  <1>4. /\ job'[c].doc = job[c].doc /\ job'[c].phase = "object"
        /\ job'[c].listed = Listed(job[c].doc)
    BY <1>0, <1>2 DEF Enter, TypeOK
  <1>5. EarlierPhasesDone(c)'
    BY <1>1, <1>3, <1>4 DEF EarlierPhasesDone, Listed
  <1>6. LeaseInv' /\ \A b \in Cleaner : job'[b] # NoJob => EarlierPhasesDone(b)'
    <2>1. "object" \in Phase
      BY DEF Phase
    <2> QED BY <1>0, <1>2, <1>3, <1>5, <2>1, PhaseEntered DEF TypeOK
  <1> QED BY <1>3, <1>6
          DEF CleanupInv, NoJob, TaskMeansDeletion, Deletable, DeletedMeansGone,
              DeletedShowsNoError, CompletedMeansDeleted

LEMMA DeleteObjectKeepsInv ==
  ASSUME CleanupInv, NEW c \in Cleaner, DeleteObject(c) PROVE CleanupInv'
  <1> DEFINE d == job[c].doc
  <1>0. d # NoDoc /\ TypeOK
    BY DEF DeleteObject, Running, CleanupInv, LeaseInv
  <1>1. d \in Doc /\ job[c] \in Job /\ EarlierPhasesDone(c)
    BY <1>0, RunHasTask
  <1>2. /\ stored' \in [Doc -> SUBSET Kind] /\ "object" \notin stored'[d]
        /\ \A e \in Doc : stored'[e] \subseteq stored[e]
    BY <1>0, <1>1 DEF DeleteObject, TypeOK
  <1>3. OnlyRemoves /\ UNCHANGED <<document, cleanup, asset_objects, filed, workspace>>
    BY <1>2 DEF DeleteObject, OnlyRemoves
  <1>4. Enter(c, "assets", job[c].listed) /\ job[c].phase = "object" /\ job[c].listed \in SUBSET Asset
    BY <1>1 DEF DeleteObject, Running, Job
  <1>5. job'[c].doc = d /\ job'[c].phase = "assets" /\ job'[c].listed = job[c].listed
    BY <1>0, <1>4 DEF Enter, TypeOK
  <1>6. EarlierPhasesDone(c)'
    BY <1>1, <1>2, <1>3, <1>4, <1>5 DEF EarlierPhasesDone, Listed
  <1>7. LeaseInv' /\ \A b \in Cleaner : job'[b] # NoJob => EarlierPhasesDone(b)'
    <2>1. "assets" \in Phase
      BY DEF Phase
    <2> QED BY <1>0, <1>2, <1>3, <1>4, <1>6, <2>1, PhaseEntered DEF TypeOK
  <1> QED BY <1>2, <1>3, <1>7
          DEF CleanupInv, NoJob, TaskMeansDeletion, Deletable, DeletedMeansGone,
              DeletedShowsNoError, CompletedMeansDeleted

LEMMA DeleteAssetsKeepsInv ==
  ASSUME CleanupInv, NEW c \in Cleaner, DeleteAssetObject(c) \/ HasNoAssets(c) PROVE CleanupInv'
  <1> DEFINE d == job[c].doc
  <1>0. d # NoDoc /\ TypeOK
    BY DEF DeleteAssetObject, HasNoAssets, Running, CleanupInv, LeaseInv
  <1>1. d \in Doc /\ job[c] \in Job /\ EarlierPhasesDone(c) /\ job[c].phase = "assets"
    BY <1>0, RunHasTask DEF DeleteAssetObject, HasNoAssets, Running
  <1>2. PICK gone \in SUBSET Asset :
          /\ asset_objects' = [asset_objects EXCEPT ![d] = @ \ gone]
          /\ Enter(c, IF job[c].listed \subseteq gone THEN "index" ELSE "assets", job[c].listed \ gone)
    <2>1. CASE HasNoAssets(c)
      <3>1. asset_objects' = [asset_objects EXCEPT ![d] = @ \ {}]
        BY <1>0, <1>1, <2>1 DEF HasNoAssets, TypeOK
      <3>2. Enter(c, IF job[c].listed \subseteq {} THEN "index" ELSE "assets", job[c].listed \ {})
        BY <2>1 DEF HasNoAssets, Enter
      <3> QED BY <3>1, <3>2
    <2>2. CASE DeleteAssetObject(c)
      <3>1. PICK a \in job[c].listed :
               /\ asset_objects' = [asset_objects EXCEPT ![d] = @ \ {a}]
               /\ Enter(c, IF job[c].listed = {a} THEN "index" ELSE "assets", job[c].listed \ {a})
        BY <2>2 DEF DeleteAssetObject
      <3>2. {a} \in SUBSET Asset /\ (job[c].listed = {a} <=> job[c].listed \subseteq {a})
        BY <1>1 DEF Job
      <3> QED BY <3>1, <3>2
    <2> QED BY <2>1, <2>2
  <1>3. /\ asset_objects' \in [Doc -> SUBSET Asset] /\ asset_objects'[d] = asset_objects[d] \ gone
        /\ \A e \in Doc : asset_objects'[e] \subseteq asset_objects[e]
    BY <1>0, <1>1, <1>2 DEF TypeOK
  <1>4. OnlyRemoves /\ UNCHANGED <<document, cleanup, stored, filed, workspace>>
    BY <1>3 DEF DeleteAssetObject, HasNoAssets, OnlyRemoves
  <1>5. PICK phase \in {"index", "assets"} :
           /\ Enter(c, phase, job[c].listed \ gone)
           /\ phase = "index" => job[c].listed \subseteq gone
    BY <1>2
  <1>6. job'[c].doc = d /\ job'[c].phase = phase /\ job'[c].listed = job[c].listed \ gone
    BY <1>0, <1>5 DEF Enter, TypeOK
  <1>7. EarlierPhasesDone(c)'
    BY <1>1, <1>3, <1>4, <1>5, <1>6 DEF EarlierPhasesDone, Listed
  <1>8. LeaseInv' /\ \A b \in Cleaner : job'[b] # NoJob => EarlierPhasesDone(b)'
    <2>1. phase \in Phase /\ job[c].listed \ gone \in SUBSET Asset
      BY <1>1, <1>5 DEF Phase, Job
    <2> QED BY <1>0, <1>3, <1>4, <1>5, <1>7, <2>1, PhaseEntered DEF TypeOK
  <1>9. TaskMeansDeletion' /\ CompletedMeansDeleted' /\ DeletedShowsNoError'
    BY <1>4 DEF CleanupInv, TaskMeansDeletion, Deletable, CompletedMeansDeleted, DeletedShowsNoError
  <1>10. DeletedMeansGone'
    BY <1>4 DEF CleanupInv, DeletedMeansGone
  <1> QED BY <1>8, <1>9, <1>10 DEF CleanupInv, NoJob

LEMMA DeleteIndexKeepsInv ==
  ASSUME CleanupInv, NEW c \in Cleaner, DeleteIndex(c) PROVE CleanupInv'
  <1> DEFINE d == job[c].doc
  <1>0. d # NoDoc /\ TypeOK
    BY DEF DeleteIndex, Running, CleanupInv, LeaseInv
  <1>1. d \in Doc /\ job[c] \in Job /\ EarlierPhasesDone(c)
    BY <1>0, RunHasTask
  <1>2. /\ stored' \in [Doc -> SUBSET Kind] /\ stored'[d] \cap {"index"} \subseteq BestEffort
        /\ \A e \in Doc : stored'[e] \subseteq stored[e]
    <2>1. PICK gone \in IndexDeletions : stored' = [stored EXCEPT ![d] = @ \ gone]
      BY DEF DeleteIndex
    <2>2. gone = {"index"} \/ "index" \in BestEffort
      BY CleanupAssumption DEF IndexDeletions, BestEffort
    <2> QED BY <1>0, <1>1, <2>1, <2>2 DEF TypeOK
  <1>3. OnlyRemoves /\ UNCHANGED <<document, cleanup, asset_objects, filed, workspace>>
    BY <1>2 DEF DeleteIndex, OnlyRemoves
  <1>4. Enter(c, "rows", {}) /\ job[c].phase = "index"
    BY DEF DeleteIndex, Running
  <1>5. job'[c].doc = d /\ job'[c].phase = "rows"
    BY <1>0, <1>4 DEF Enter, TypeOK
  <1>6. EarlierPhasesDone(c)'
    BY <1>1, <1>2, <1>3, <1>4, <1>5 DEF EarlierPhasesDone, Listed
  <1>7. LeaseInv' /\ \A b \in Cleaner : job'[b] # NoJob => EarlierPhasesDone(b)'
    <2>1. "rows" \in Phase
      BY DEF Phase
    <2> QED BY <1>0, <1>2, <1>3, <1>4, <1>6, <2>1, PhaseEntered DEF TypeOK
  <1> QED BY <1>2, <1>3, <1>7
          DEF CleanupInv, NoJob, TaskMeansDeletion, Deletable, DeletedMeansGone,
              DeletedShowsNoError, CompletedMeansDeleted

LEMMA DeleteRowsKeepsInv ==
  ASSUME CleanupInv, NEW c \in Cleaner, DeleteDerivedRows(c) PROVE CleanupInv'
  <1> DEFINE d == job[c].doc
  <1>0. d # NoDoc /\ TypeOK
    BY DEF DeleteDerivedRows, Running, CleanupInv, LeaseInv
  <1>1. d \in Doc /\ job[c] \in Job /\ EarlierPhasesDone(c) /\ job[c].phase = "rows"
    BY <1>0, RunHasTask DEF DeleteDerivedRows, Running
  <1>2. PICK files \in SUBSET {"struct"} :
           stored' = [stored EXCEPT ![d] = (@ \ {"rows", "evidence"}) \ files]
    BY DEF DeleteDerivedRows
  <1>3. /\ stored' \in [Doc -> SUBSET Kind]
        /\ stored'[d] = (stored[d] \ {"rows", "evidence"}) \ files
        /\ \A e \in Doc : stored'[e] \subseteq stored[e]
    BY <1>0, <1>1, <1>2 DEF TypeOK
  <1>4. /\ filed' \in [Doc -> SUBSET FiledRow] /\ UNCHANGED workspace
        /\ \A r \in filed'[d] : r[1] # workspace[d]
        /\ \A e \in Doc : filed'[e] \subseteq filed[e]
    BY <1>0, <1>1 DEF DeleteDerivedRows, TypeOK
  <1>5. OnlyRemoves /\ UNCHANGED <<document, cleanup, asset_objects>>
    BY <1>3, <1>4 DEF DeleteDerivedRows, OnlyRemoves
  <1>6. Enter(c, "mark", {})
    BY DEF DeleteDerivedRows
  <1>7. job'[c].doc = d /\ job'[c].phase = "mark"
    BY <1>0, <1>6 DEF Enter, TypeOK
  <1>8. /\ "object" \notin stored[d] /\ stored[d] \cap {"index"} \subseteq BestEffort
        /\ Listed(d) \cap asset_objects[d] = {}
    BY <1>1 DEF EarlierPhasesDone
  <1>9. stored'[d] \subseteq BestEffort
    BY <1>0, <1>1, <1>3, <1>8 DEF TypeOK, Kind, BestEffort
  <1>10. EarlierPhasesDone(c)'
    BY <1>1, <1>3, <1>4, <1>5, <1>7, <1>8, <1>9 DEF EarlierPhasesDone, Listed
  <1>11. LeaseInv' /\ \A b \in Cleaner : job'[b] # NoJob => EarlierPhasesDone(b)'
    <2>1. "mark" \in Phase
      BY DEF Phase
    <2> QED BY <1>0, <1>3, <1>4, <1>5, <1>6, <1>10, <2>1, PhaseEntered DEF TypeOK
  <1>12. TaskMeansDeletion' /\ CompletedMeansDeleted' /\ DeletedShowsNoError'
    BY <1>5 DEF CleanupInv, TaskMeansDeletion, Deletable, CompletedMeansDeleted, DeletedShowsNoError
  <1>13. DeletedMeansGone'
    BY <1>3, <1>4, <1>5 DEF CleanupInv, DeletedMeansGone
  <1> QED BY <1>11, <1>12, <1>13 DEF CleanupInv, NoJob

LEMMA MarkKeepsInv ==
  ASSUME CleanupInv, NEW c \in Cleaner, MarkDeleted(c) PROVE CleanupInv'
  <1> DEFINE d == job[c].doc
  <1>0. d # NoDoc /\ TypeOK
    BY DEF MarkDeleted, Running, CleanupInv, LeaseInv
  <1>1. d \in Doc /\ job[c] \in Job /\ EarlierPhasesDone(c) /\ job[c].phase = "mark"
    BY <1>0, RunHasTask DEF MarkDeleted, Running
  <1>2. /\ document' \in [Doc -> Document]
        /\ document'[d].status = "deleted" /\ document'[d].deletion_error = "none"
        /\ \A e \in Doc : e # d => document'[e] = document[e]
    BY <1>0, <1>1 DEF MarkDeleted, TypeOK, DocumentWith, Document, DocumentStatus
  <1>3. OnlyRemoves /\ UNCHANGED <<cleanup, stored, asset_objects, filed, workspace>>
    BY <1>2 DEF MarkDeleted, OnlyRemoves
  <1>4. Enter(c, "ok", {})
    BY DEF MarkDeleted
  <1>5. job'[c].doc = d /\ job'[c].phase = "ok"
    BY <1>0, <1>4 DEF Enter, TypeOK
  <1>6. EarlierPhasesDone(c)'
    BY <1>2, <1>5 DEF EarlierPhasesDone
  <1>7. LeaseInv' /\ \A b \in Cleaner : job'[b] # NoJob => EarlierPhasesDone(b)'
    <2>1. "ok" \in Phase
      BY DEF Phase
    <2> QED BY <1>0, <1>2, <1>3, <1>4, <1>6, <2>1, PhaseEntered DEF TypeOK
  <1>8. TaskMeansDeletion' /\ CompletedMeansDeleted' /\ DeletedShowsNoError'
    BY <1>2, <1>3 DEF CleanupInv, TaskMeansDeletion, Deletable, CompletedMeansDeleted, DeletedShowsNoError
  <1>9. DeletedMeansGone'
    BY <1>1, <1>2, <1>3 DEF CleanupInv, DeletedMeansGone, EarlierPhasesDone
  <1> QED BY <1>7, <1>8, <1>9 DEF CleanupInv, NoJob

LEMMA DeleteDocumentKeepsInv ==
  ASSUME CleanupInv, NEW d \in Doc, DeleteDocument(d) PROVE CleanupInv'
  <1>0. LeaseInv /\ TypeOK /\ \A e \in Doc : RowOK(cleanup[e])
    BY LeaseInvByRows DEF CleanupInv, LeaseInv
  <1>1. /\ document' \in [Doc -> Document] /\ document'[d].status = "deleting"
        /\ document'[d].deletion_error = "none" \/ document'[d] = document[d]
        /\ \A e \in Doc : e # d => document'[e] = document[e]
    BY <1>0 DEF DeleteDocument, TypeOK, Document, DocumentStatus, DocumentWith
  <1>2. OnlyRemoves /\ UNCHANGED <<job, stored, asset_objects, filed, workspace>>
    BY <1>1 DEF DeleteDocument, OnlyRemoves
  <1>3. RowsInOrder /\ \A e \in Doc : e # d => cleanup'[e] = cleanup[e]
    <2>1. CASE cleanup[d].status = "new"
      <3>1. RowOK(InsertedRow) /\ InsertedRow.attempt_count = cleanup[d].attempt_count
        BY <1>0, <2>1, RowSteps
      <3>2. cleanup' = [cleanup EXCEPT ![d] = InsertedRow]
        BY <2>1 DEF DeleteDocument
      <3> QED BY <1>0, <3>1, <3>2, OneRowStep DEF TypeOK
    <2>2. CASE cleanup[d].status # "new"
      <3>1. UNCHANGED cleanup
        BY <2>2 DEF DeleteDocument
      <3> QED BY <1>0, <3>1, LeaseInvByRows, CleanupAssumption DEF RowsInOrder
    <2> QED BY <2>1, <2>2
  <1>4. LeaseInv'
    <2>1. NoNewClaim
      BY <1>2 DEF NoNewClaim
    <2>2. TypeOK'
      BY <1>0, <1>1, <1>2, <1>3 DEF TypeOK, RowsInOrder
    <2> QED BY <1>0, <1>3, <2>1, <2>2, NoClaimStep
  <1>5. \A c \in Cleaner : job'[c] # NoJob => EarlierPhasesDone(c)'
    BY <1>2, StayingKeepsPhase DEF StaysInPhase
  <1>6. TaskMeansDeletion'
    BY <1>1, <1>3 DEF CleanupInv, TaskMeansDeletion, Deletable
  <1>7. CompletedMeansDeleted'
    <2>1. cleanup'[d].status = "completed" => cleanup[d].status = "completed"
      BY <1>0 DEF DeleteDocument, TypeOK, InsertedRow
    <2> QED BY <1>1, <1>3, <2>1 DEF CleanupInv, CompletedMeansDeleted, DeleteDocument
  <1>8. DeletedMeansGone' /\ DeletedShowsNoError'
    BY <1>1, <1>2 DEF CleanupInv, DeletedMeansGone, DeletedShowsNoError
  <1> QED BY <1>4, <1>5, <1>6, <1>7, <1>8 DEF CleanupInv, NoJob

LEMMA ClaimKeepsInv ==
  ASSUME CleanupInv, NEW c \in Cleaner, Claim(c) PROVE CleanupInv'
  <1>0. LeaseInv /\ TypeOK
    BY DEF CleanupInv, LeaseInv
  <1>1. LeaseInv' /\ UNCHANGED <<document, stored, asset_objects, filed, workspace>>
    BY <1>0, ClaimStep DEF Claim
  <1>2. \A b \in Cleaner : StaysInPhase(b)
    <2>1. ASSUME NEW b \in Cleaner PROVE job'[b] = job[b] \/ job'[b].phase = "targets"
      <3>1. job \in [Cleaner -> Job]
        BY <1>0 DEF TypeOK
      <3>2. PICK run : /\ job' = [job EXCEPT ![c] = run] \/ UNCHANGED job
                       /\ run.phase = "targets"
        <4>1. CASE UNCHANGED job
          <5>1. NoJob.phase = "targets"
            BY DEF NoJob
          <5> QED BY <4>1, <5>1
        <4>2. ASSUME NEW d, job' = [job EXCEPT ![c] =
                                      [doc |-> d, token |-> cleanup[d].attempt_count + 1,
                                       phase |-> "targets", checked |-> "no", listed |-> {}]]
              PROVE  \E run : /\ job' = [job EXCEPT ![c] = run] \/ UNCHANGED job
                             /\ run.phase = "targets"
          <5> DEFINE run == [doc |-> d, token |-> cleanup[d].attempt_count + 1,
                             phase |-> "targets", checked |-> "no", listed |-> {}]
          <5>1. run.phase = "targets"
            OBVIOUS
          <5>2. job' = [job EXCEPT ![c] = run]
            BY <4>2
          <5> HIDE DEF run
          <5> QED BY <5>1, <5>2
        <4> QED BY <4>1, <4>2 DEF Claim
      <3> QED BY <3>1, <3>2
    <2> QED BY <2>1 DEF StaysInPhase
  <1>3. PICK granted \in SUBSET Claimable : cleanup' = AfterClaim(granted)
    BY DEF Claim, NextTask
  <1>4. \A d \in Doc : /\ cleanup'[d].status # "new" => cleanup[d].status # "new"
                       /\ cleanup'[d].status = "completed" => cleanup[d].status = "completed"
    BY <1>3 DEF AfterClaim, Exhausted, Claimable, ReadyToRun, Unlocked, ClaimedRow
  <1> QED BY <1>1, <1>2, <1>4, QuietStep

LEMMA TimedKeepsInv ==
  ASSUME CleanupInv, NEW d \in Doc, NEW timer \in {"running", "elapsed"},
         cleanup' = [cleanup EXCEPT ![d] = Timed(cleanup[d], timer)],
         UNCHANGED <<document, job, stored, asset_objects, filed, workspace>>
  PROVE  CleanupInv'
  <1>1. RowOK(cleanup[d])
    BY LeaseInvByRows DEF CleanupInv
  <1>2. /\ RowOK(Timed(cleanup[d], timer))
        /\ Timed(cleanup[d], timer).attempt_count = cleanup[d].attempt_count
    BY <1>1, RowSteps
  <1>3. Timed(cleanup[d], timer).status = cleanup[d].status
    BY DEF Timed
  <1>4. cleanup[d].status = "completed" => document[d].status = "deleted"
    BY DEF CleanupInv, CompletedMeansDeleted
  <1> QED BY <1>2, <1>3, <1>4, RowWritten

LEMMA CheckLeaseKeepsInv ==
  ASSUME CleanupInv, NEW c \in Cleaner, CheckLease(c) PROVE CleanupInv'
  <1>0. LeaseInv /\ TypeOK
    BY DEF CleanupInv, LeaseInv
  <1>1. job[c].doc \in Doc /\ job[c].doc # NoDoc
    BY CleanupAssumption DEF CheckLease, Holds
  <1>2. job[c] # NoJob /\ job[c] \in Job
    BY <1>1, RunHasTask
  <1>3. /\ job' \in [Cleaner -> Job]
        /\ job'[c].doc = job[c].doc /\ job'[c].token = job[c].token
        /\ job'[c].phase = job[c].phase /\ job'[c].listed = job[c].listed
        /\ \A b \in Cleaner : b # c => job'[b] = job[b]
    BY <1>0, <1>2 DEF CheckLease, TypeOK, Job
  <1>4. UNCHANGED <<document, cleanup, stored, asset_objects, filed, workspace>>
    BY DEF CheckLease
  <1>5. NoNewClaim /\ \A b \in Cleaner : StaysInPhase(b)
    BY <1>2, <1>3 DEF NoNewClaim, StaysInPhase
  <1>6. TypeOK'
    BY <1>0, <1>3, <1>4 DEF TypeOK
  <1>7. LeaseInv'
    BY <1>0, <1>4, <1>5, <1>6, RunStepKeepsClaims
  <1> QED BY <1>4, <1>5, <1>7, QuietStep

LEMMA RunEndKeepsInv ==
  ASSUME CleanupInv, NEW c \in Cleaner, RunEnds(c) PROVE CleanupInv'
  <1>0. LeaseInv /\ TypeOK /\ \A d \in Doc : RowOK(cleanup[d])
    BY LeaseInvByRows DEF CleanupInv, LeaseInv
  <1>1. CASE Complete(c)
    <2>1. PICK d \in Doc : Holds(c, d) /\ cleanup' = [cleanup EXCEPT ![d] = Unlocked(cleanup[d], "completed")]
      BY <1>1 DEF Complete
    <2>2. job[c].doc = d /\ job[c].doc # NoDoc /\ job[c].phase = "ok"
      BY <1>1, <2>1 DEF Complete, Running, Holds
    <2>3. cleanup[d].status # "new" /\ document[d].status = "deleted"
      BY <2>2, RunHasTask DEF EarlierPhasesDone
    <2>4. /\ RowOK(Unlocked(cleanup[d], "completed"))
          /\ Unlocked(cleanup[d], "completed").attempt_count = cleanup[d].attempt_count
      BY <1>0, RowSteps
    <2> QED BY <1>1, <2>1, <2>3, <2>4, RowWritten DEF Complete
  <1>2. CASE LeaseLost(c) \/ Crash(c)
    <2>1. Forget(c) /\ UNCHANGED <<document, cleanup, stored, asset_objects, filed, workspace>>
      BY <1>2 DEF LeaseLost, Crash
    <2>2. /\ NoNewClaim /\ job' \in [Cleaner -> Job] /\ job'[c] = NoJob
          /\ \A b \in Cleaner : b # c => job'[b] = job[b]
      BY <1>0, <2>1, ForgetKeepsClaims
    <2>3. TypeOK'
      BY <1>0, <2>1, <2>2 DEF TypeOK
    <2>4. LeaseInv'
      BY <1>0, <2>1, <2>2, <2>3, RunStepKeepsClaims
    <2>5. \A b \in Cleaner : StaysInPhase(b)
      BY <2>2 DEF StaysInPhase
    <2> QED BY <2>1, <2>4, <2>5, QuietStep
  <1>3. CASE Fail(c)
    <2>1. PICK d \in Doc, status \in {"dead_letter", "queued"} :
             /\ Holds(c, d)
             /\ cleanup' = [cleanup EXCEPT ![d] = Unlocked(cleanup[d], status)]
             /\ document' = IF document[d].status = "deleting"
                            THEN [document EXCEPT ![d] = DocumentWith("deleting", "set")]
                            ELSE document
      BY <1>3 DEF Fail
    <2>2. Forget(c) /\ UNCHANGED <<stored, asset_objects, filed, workspace>>
      BY <1>3 DEF Fail
    <2>3. /\ document' \in [Doc -> Document]
          /\ \A e \in Doc : /\ document'[e].status = document[e].status
                            /\ document'[e].deletion_error = document[e].deletion_error
                               \/ document'[e].status = "deleting"
      BY <1>0, <2>1 DEF TypeOK, Document, DocumentStatus, DocumentWith
    <2>4. OnlyRemoves
      BY <2>2, <2>3 DEF OnlyRemoves
    <2>5. /\ RowOK(Unlocked(cleanup[d], status))
          /\ Unlocked(cleanup[d], status).attempt_count = cleanup[d].attempt_count
      BY <1>0, <2>1, RowSteps
    <2>6. RowsInOrder
      BY <1>0, <2>1, <2>5, OneRowStep
    <2>7. /\ NoNewClaim /\ job' \in [Cleaner -> Job] /\ job'[c] = NoJob
          /\ \A b \in Cleaner : b # c => job'[b] = job[b]
      BY <1>0, <2>2, ForgetKeepsClaims
    <2>8. TypeOK'
      BY <1>0, <2>2, <2>3, <2>6, <2>7 DEF TypeOK, RowsInOrder
    <2>9. LeaseInv'
      BY <1>0, <2>6, <2>7, <2>8, NoClaimStep
    <2>10. \A b \in Cleaner : job'[b] # NoJob => EarlierPhasesDone(b)'
      BY <2>4, <2>7, StayingKeepsPhase DEF StaysInPhase
    <2>11. cleanup[d].status = "processing"
           /\ \A e \in Doc : cleanup'[e] = IF e = d THEN Unlocked(cleanup[d], status) ELSE cleanup[e]
      BY <1>0, <2>1 DEF Holds, LeaseCurrent, TypeOK
    <2>12. TaskMeansDeletion' /\ CompletedMeansDeleted'
      BY <2>1, <2>3, <2>11 DEF CleanupInv, TaskMeansDeletion, CompletedMeansDeleted, Deletable, Unlocked
    <2>13. DeletedMeansGone' /\ DeletedShowsNoError'
      BY <2>2, <2>3 DEF CleanupInv, DeletedMeansGone, DeletedShowsNoError
    <2> QED BY <2>9, <2>10, <2>12, <2>13 DEF CleanupInv, NoJob
  <1> QED BY <1>1, <1>2, <1>3 DEF RunEnds

LEMMA NextKeepsInv == CleanupInv /\ [CleanupNext]_cleanupVars => CleanupInv'
  <1> SUFFICES ASSUME CleanupInv, [CleanupNext]_cleanupVars PROVE CleanupInv'
    OBVIOUS
  <1>1. ASSUME NEW d \in Doc, TimerElapses(d) PROVE CleanupInv'
    BY <1>1, TimedKeepsInv DEF TimerElapses
  <1>2. ASSUME NEW c \in Cleaner, Renew(c) PROVE CleanupInv'
    BY <1>2, TimedKeepsInv DEF Renew
  <1>3. ASSUME NEW c \in Cleaner, CleanupPhase(c) PROVE CleanupInv'
    BY <1>3, CheckLeaseKeepsInv, LookUpKeepsInv, DeleteObjectKeepsInv, DeleteAssetsKeepsInv,
       DeleteIndexKeepsInv, DeleteRowsKeepsInv, MarkKeepsInv DEF CleanupPhase
  <1>4. CASE UNCHANGED cleanupVars
    <2>1. UNCHANGED <<document, cleanup, job, stored, asset_objects, filed, workspace>>
      BY <1>4 DEF cleanupVars
    <2>2. LeaseInv /\ TypeOK' /\ NoNewClaim
      BY <2>1 DEF CleanupInv, LeaseInv, TypeOK, NoNewClaim
    <2>3. LeaseInv' /\ \A c \in Cleaner : StaysInPhase(c)
      BY <2>1, <2>2, RunStepKeepsClaims DEF StaysInPhase
    <2> QED BY <2>1, <2>3, QuietStep
  <1> QED BY <1>1, <1>2, <1>3, <1>4, DeleteDocumentKeepsInv, ClaimKeepsInv, RunEndKeepsInv
          DEF CleanupNext, CleanerStep

\* Every state of the cleanup queue satisfies the inductive invariant.
THEOREM CleanupInvariant == CleanupSpec => []CleanupInv
  BY InitEstablishesInv, NextKeepsInv, PTL DEF CleanupSpec

\* What is marked deleted has lost everything the phases must remove (all but the
\* struct_store files and, with Milvus or no data plane, the index; all but rows
\* under other workspaces and objects no row names), whichever run did the marking,
\* and whatever rows and objects the deletion began with.
THEOREM DeletedIsGone == CleanupSpec => []DeletedMeansGone
  <1>1. CleanupInv => DeletedMeansGone
    BY DEF CleanupInv
  <1> QED BY <1>1, CleanupInvariant, PTL

LEMMA RowsGoAfterObjects ==
  ASSUME CleanupInv, [CleanupNext]_cleanupVars,
         NEW d \in Doc, NEW r \in filed[d] \ filed'[d]
  PROVE  r[2] \notin asset_objects[d]
  <1>1. PICK c \in Cleaner : DeleteDerivedRows(c)
    BY DEF CleanupNext, CleanerStep, CleanupPhase, RunEnds, DeleteDocument, TimerElapses, Claim,
           Renew, CheckLease, LookUpTargets, DeleteObject, DeleteAssetObject, HasNoAssets,
           DeleteIndex, MarkDeleted, Complete, Fail, LeaseLost, Crash, cleanupVars
  <1>2. TypeOK /\ job[c].doc # NoDoc /\ job[c].phase = "rows"
    BY <1>1 DEF DeleteDerivedRows, Running, CleanupInv, LeaseInv
  <1>3. d = job[c].doc /\ r[1] = workspace[d]
    BY <1>1, <1>2 DEF DeleteDerivedRows, TypeOK
  <1>4. Listed(d) \cap asset_objects[d] = {}
    BY <1>2, <1>3, RunHasTask DEF EarlierPhasesDone
  <1>5. r = <<workspace[d], r[2]>> /\ asset_objects[d] \subseteq Asset
    BY <1>2, <1>3 DEF TypeOK, FiledRow
  <1> QED BY <1>4, <1>5 DEF Listed

\* The cleanup deletes no row while the asset it names has an object: a run that
\* takes over finds every object an earlier run could have found.
THEOREM CleanupLosesNoObject == CleanupSpec => RowsOutliveObjects
  <1>1. CleanupInv /\ [CleanupNext]_cleanupVars =>
           [\A d \in Doc : \A r \in filed[d] \ filed'[d] : r[2] \notin asset_objects[d]]_cleanupVars
    BY RowsGoAfterObjects
  <1> QED BY <1>1, CleanupInvariant, PTL DEF CleanupSpec, RowsOutliveObjects

\* A run that lost its lease and fails late never marks a finished deletion as
\* failing (fail_document_cleanup_task).
THEOREM NoErrorAfterDeletion == CleanupSpec => []DeletedShowsNoError
  <1>1. CleanupInv => DeletedShowsNoError
    BY DEF CleanupInv
  <1> QED BY <1>1, CleanupInvariant, PTL

\* complete_document_cleanup_task completes rows of deleted documents only.
THEOREM CompletedIsDeleted == CleanupSpec => []CompletedMeansDeleted
  <1>1. CleanupInv => CompletedMeansDeleted
    BY DEF CleanupInv
  <1> QED BY <1>1, CleanupInvariant, PTL

------------------------------------------------------------------------------
(* The queue implements TaskLease: task by task, every step of the cleanup  *)
(* queue is one of the abstract task steps.                                 *)

HoldersOf(d) == {c \in Cleaner : Holds(c, d)}

\* How the refinement mapping reads one task, before and after a step.
LEMMA MappedTask ==
  ASSUME NEW d \in Doc
  PROVE  Abs!TaskStep(d) <=>
           \/ /\ phaseOf(d) = "none" /\ phaseOf(d)' = "ready"
              /\ HoldersOf(d)' = {} /\ cleanup'[d].attempt_count = cleanup[d].attempt_count
           \/ /\ phaseOf(d) \in {"ready", "held"} /\ cleanup[d].attempt_count < MaxAttempts
              /\ phaseOf(d)' = "held" /\ (\E c \in Cleaner : HoldersOf(d)' = {c})
              /\ cleanup'[d].attempt_count = cleanup[d].attempt_count + 1
           \/ /\ phaseOf(d) = "held" /\ phaseOf(d)' = "held"
              /\ HoldersOf(d)' = {} /\ cleanup'[d].attempt_count = cleanup[d].attempt_count
           \/ /\ phaseOf(d) = "held" /\ HoldersOf(d) # {} /\ cleanup[d].attempt_count < MaxAttempts
              /\ phaseOf(d)' = "ready"
              /\ HoldersOf(d)' = {} /\ cleanup'[d].attempt_count = cleanup[d].attempt_count
           \/ /\ phaseOf(d) = "held" /\ HoldersOf(d) # {} /\ phaseOf(d)' = "done"
              /\ HoldersOf(d)' = {} /\ cleanup'[d].attempt_count = cleanup[d].attempt_count
           \/ /\ phaseOf(d) \in {"ready", "held"} /\ phaseOf(d)' = "dead"
              /\ HoldersOf(d)' = {} /\ cleanup'[d].attempt_count = cleanup[d].attempt_count
           \/ /\ phaseOf(d)' = phaseOf(d) /\ HoldersOf(d)' = HoldersOf(d)
              /\ cleanup'[d].attempt_count = cleanup[d].attempt_count
  BY DEF Abs!TaskStep, Abs!Submit, Abs!Grant, Abs!Lapse, Abs!Return, Abs!Finish, Abs!Bury,
         Abs!Stay, HoldersOf

\* A row that is not processing has no holder.
LEMMA NotProcessingNotHeld ==
  /\ \A d \in Doc : cleanup[d].status # "processing" => HoldersOf(d) = {}
  /\ \A d \in Doc : cleanup'[d].status # "processing" => HoldersOf(d)' = {}
  BY DEF HoldersOf, Holds, LeaseCurrent

HeldByOne == \A d \in Doc : \A b, c \in Cleaner : Holds(b, d) /\ Holds(c, d) => b = c

\* A task is held by one cleaner at most.
LEMMA HeldOnce == LeaseInv => HeldByOne
  <1> SUFFICES ASSUME LeaseInv, NEW d \in Doc, NEW b \in Cleaner, NEW c \in Cleaner,
                      Holds(b, d), Holds(c, d)
               PROVE  b = c
    BY DEF HeldByOne
  <1>1. job[b].doc = d /\ job[c].doc = d /\ job[b].token = job[c].token
    BY DEF Holds, LeaseCurrent
  <1>2. job[b] # NoJob
    BY <1>1, CleanupAssumption DEF NoJob
  <1> QED BY <1>1, <1>2 DEF LeaseInv, ClaimsRememberedOnce

LEMMA HeldOnceNext == LeaseInv' => HeldByOne'
  BY HeldOnce, PTL

\* Neither what the row says of the task nor who holds it did change.
LEMMA UntouchedTask ==
  ASSUME NEW d \in Doc, cleanup'[d].status = cleanup[d].status,
         cleanup'[d].lock_token = cleanup[d].lock_token,
         cleanup'[d].attempt_count = cleanup[d].attempt_count,
         \A c \in Cleaner : job'[c].doc = d \/ job[c].doc = d =>
                               job'[c].doc = job[c].doc /\ job'[c].token = job[c].token
  PROVE  Abs!TaskStep(d)
  <1>1. \A c \in Cleaner : Holds(c, d)' <=> Holds(c, d)
    BY DEF Holds, LeaseCurrent
  <1>2. HoldersOf(d)' = HoldersOf(d)
    BY <1>1 DEF HoldersOf
  <1>3. phaseOf(d)' = phaseOf(d)
    BY DEF phaseOf
  <1> QED BY <1>2, <1>3, MappedTask

\* A live task was dead-lettered.
LEMMA BuriedTask ==
  ASSUME NEW d \in Doc, cleanup[d].status \in {"queued", "processing"},
         cleanup'[d] = Unlocked(cleanup[d], "dead_letter")
  PROVE  Abs!TaskStep(d)
  <1>1. cleanup'[d].status = "dead_letter" /\ cleanup'[d].attempt_count = cleanup[d].attempt_count
    BY DEF Unlocked
  <1>2. HoldersOf(d)' = {}
    BY <1>1, NotProcessingNotHeld
  <1>3. phaseOf(d) \in {"ready", "held"} /\ phaseOf(d)' = "dead"
    BY <1>1 DEF phaseOf
  <1> QED BY <1>1, <1>2, <1>3, MappedTask

LEMMA ClaimImplements ==
  ASSUME LeaseInv, LeaseInv', NEW c \in Cleaner, Claim(c), NEW d \in Doc
  PROVE  Abs!TaskStep(d)
  <1>0. job \in [Cleaner -> Job] /\ job[c] = NoJob /\ NoJob.doc = NoDoc /\ NoDoc \notin Doc
    BY LeaseInvByRows, CleanupAssumption DEF Claim, NoJob
  <1>1. ASSUME NEW granted, cleanup' = AfterClaim(granted), d \in Exhausted
        PROVE  Abs!TaskStep(d)
    <2>1. cleanup[d].status \in {"queued", "processing"}
      BY <1>1 DEF Exhausted, ReadyToRun
    <2>2. cleanup'[d] = Unlocked(cleanup[d], "dead_letter")
      BY <1>1 DEF AfterClaim
    <2> QED BY <2>1, <2>2, BuriedTask
  <1>2. CASE cleanup' = AfterClaim({}) /\ UNCHANGED job
    <2>1. d \notin Exhausted => cleanup'[d] = cleanup[d]
      BY <1>2 DEF AfterClaim
    <2> QED BY <1>1, <1>2, <2>1, UntouchedTask
  <1>3. ASSUME NEW e \in NextTask, cleanup' = AfterClaim({e}), NEW run,
               job' = [job EXCEPT ![c] = run],
               run.doc = e, run.token = cleanup[e].attempt_count + 1
        PROVE  Abs!TaskStep(d)
    <2>1. /\ e \in Claimable /\ e \in Doc /\ cleanup[e].attempt_count < MaxAttempts
          /\ cleanup[e].status \in {"queued", "processing"}
      BY DEF NextTask, Claimable, ReadyToRun
    <2>2. cleanup'[e] = ClaimedRow(cleanup[e])
      BY <1>3, <2>1, ClaimedRows
    <2>3. job'[c] = run /\ \A b \in Cleaner : b # c => job'[b] = job[b]
      BY <1>0, <1>3
    <2>4. CASE d = e
      <3>1. /\ cleanup'[d].status = "processing"
            /\ cleanup'[d].lock_token = cleanup[d].attempt_count + 1
            /\ cleanup'[d].attempt_count = cleanup[d].attempt_count + 1
        BY <2>2, <2>4 DEF ClaimedRow
      <3>2. Holds(c, d)'
        BY <1>3, <2>3, <2>4, <3>1 DEF Holds, LeaseCurrent
      <3>3. HoldersOf(d)' = {c}
        BY <3>2, HeldOnceNext DEF HeldByOne, HoldersOf
      <3>4. phaseOf(d) \in {"ready", "held"} /\ phaseOf(d)' = "held"
        BY <2>1, <2>4, <3>1 DEF phaseOf
      <3> QED BY <2>1, <2>4, <3>1, <3>3, <3>4, MappedTask
    <2>5. CASE d # e /\ d \notin Exhausted
      <3>1. cleanup'[d] = cleanup[d]
        BY <1>3, <2>5 DEF AfterClaim
      <3>2. job[c].doc # d /\ job'[c].doc # d
        BY <1>0, <1>3, <2>3, <2>5
      <3> QED BY <2>3, <3>1, <3>2, UntouchedTask
    <2> QED BY <1>1, <1>3, <2>4, <2>5
  <1>4. CASE \E e \in NextTask :
               /\ cleanup' = AfterClaim({e})
               /\ job' = [job EXCEPT ![c] =
                            [doc |-> e, token |-> cleanup[e].attempt_count + 1,
                             phase |-> "targets", checked |-> "no", listed |-> {}]]
    <2>1. PICK e \in NextTask :
               /\ cleanup' = AfterClaim({e})
               /\ job' = [job EXCEPT ![c] =
                            [doc |-> e, token |-> cleanup[e].attempt_count + 1,
                             phase |-> "targets", checked |-> "no", listed |-> {}]]
      BY <1>4
    <2> DEFINE run == [doc |-> e, token |-> cleanup[e].attempt_count + 1,
                       phase |-> "targets", checked |-> "no", listed |-> {}]
    <2>2. run.doc = e /\ run.token = cleanup[e].attempt_count + 1
      OBVIOUS
    <2>3. job' = [job EXCEPT ![c] = run]
      BY <2>1
    <2> HIDE DEF run
    <2> QED BY <1>3, <2>1, <2>2, <2>3
  <1> QED BY <1>2, <1>4 DEF Claim

LEMMA PhaseImplements ==
  ASSUME LeaseInv, NEW c \in Cleaner, CleanupPhase(c), NEW d \in Doc
  PROVE  Abs!TaskStep(d)
  <1>1. UNCHANGED cleanup
    BY PhaseKeepsRun
  <1>2. PICK run : /\ job' = [job EXCEPT ![c] = run]
                   /\ run.doc = job[c].doc /\ run.token = job[c].token
    BY PhaseKeepsRun
  <1>3. \A b \in Cleaner : job'[b].doc = job[b].doc /\ job'[b].token = job[b].token
    BY <1>2, LeaseInvByRows
  <1> QED BY <1>1, <1>3, UntouchedTask

LEMMA RunEndImplements ==
  ASSUME LeaseInv, NEW c \in Cleaner, RunEnds(c), NEW d \in Doc
  PROVE  Abs!TaskStep(d)
  <1>0. /\ cleanup \in [Doc -> CleanupRow] /\ NoJob.doc = NoDoc /\ NoDoc \notin Doc
        /\ \A e \in Doc : cleanup[e].attempt_count \in 0..MaxAttempts
    BY LeaseInvByRows, CleanupAssumption DEF NoJob
  <1>1. Forget(c)
    BY DEF RunEnds, Complete, Fail, LeaseLost, Crash
  <1>2. job'[c] = NoJob /\ \A b \in Cleaner : b # c => job'[b] = job[b]
    BY <1>1, ForgetKeepsClaims
  <1>3. ASSUME cleanup'[d] = cleanup[d] PROVE Abs!TaskStep(d)
    <2>1. CASE Holds(c, d)
      <3>1. \A b \in Cleaner : ~Holds(b, d)'
        <4>1. ASSUME NEW b \in Cleaner, Holds(b, d)' PROVE FALSE
          <5>1. b # c
            BY <1>0, <1>2, <4>1 DEF Holds
          <5>2. Holds(b, d)
            BY <1>2, <1>3, <4>1, <5>1 DEF Holds, LeaseCurrent
          <5> QED BY <2>1, <5>1, <5>2, HeldOnce DEF HeldByOne
        <4> QED BY <4>1
      <3>2. HoldersOf(d)' = {}
        BY <3>1 DEF HoldersOf
      <3>3. phaseOf(d) = "held" /\ phaseOf(d)' = "held"
        BY <1>3, <2>1 DEF Holds, LeaseCurrent, phaseOf
      <3> QED BY <1>3, <3>2, <3>3, MappedTask
    <2>2. CASE ~Holds(c, d)
      <3>1. \A b \in Cleaner : Holds(b, d)' <=> Holds(b, d)
        BY <1>0, <1>2, <1>3, <2>2 DEF Holds, LeaseCurrent
      <3>2. HoldersOf(d)' = HoldersOf(d) /\ phaseOf(d)' = phaseOf(d)
        BY <1>3, <3>1 DEF HoldersOf, phaseOf
      <3> QED BY <1>3, <3>2, MappedTask
    <2> QED BY <2>1, <2>2
  <1>4. CASE LeaseLost(c) \/ Crash(c)
    BY <1>3, <1>4 DEF LeaseLost, Crash
  <1>5. CASE Complete(c) \/ Fail(c)
    <2>1. PICK e \in Doc, status \in {"completed", "queued", "dead_letter"} :
             /\ Holds(c, e)
             /\ cleanup' = [cleanup EXCEPT ![e] = Unlocked(cleanup[e], status)]
             /\ status = "queued" => cleanup[e].attempt_count < MaxAttempts
      BY <1>0, <1>5, CleanupAssumption DEF Complete, Fail
    <2>2. CASE d # e
      BY <1>0, <1>3, <2>1, <2>2
    <2>3. CASE d = e
      <3>1. cleanup'[d] = Unlocked(cleanup[d], status) /\ cleanup[d].status = "processing"
        BY <1>0, <2>1, <2>3 DEF Holds, LeaseCurrent
      <3>2. cleanup'[d].status = status /\ cleanup'[d].attempt_count = cleanup[d].attempt_count
        BY <3>1 DEF Unlocked
      <3>3. HoldersOf(d)' = {}
        BY <2>1, <3>2, NotProcessingNotHeld
      <3>4. phaseOf(d) = "held" /\ HoldersOf(d) # {}
        BY <2>1, <2>3, <3>1 DEF phaseOf, HoldersOf
      <3>5. phaseOf(d)' = CASE status = "completed" -> "done" [] status = "queued" -> "ready"
                            [] status = "dead_letter" -> "dead"
        BY <2>1, <3>2 DEF phaseOf
      <3> QED BY <2>1, <2>3, <3>2, <3>3, <3>4, <3>5, MappedTask
    <2> QED BY <2>2, <2>3
  <1> QED BY <1>4, <1>5 DEF RunEnds

LEMMA NextImplements ==
  ASSUME LeaseInv, LeaseInv', CleanupStep, NEW d \in Doc
  PROVE  Abs!TaskStep(d)
  <1>0. cleanup \in [Doc -> CleanupRow]
    BY LeaseInvByRows
  <1>1. ASSUME NEW e \in Doc, DeleteDocument(e) PROVE Abs!TaskStep(d)
    <2>1. CASE d = e /\ cleanup[d].status = "new"
      <3>1. cleanup'[d] = InsertedRow /\ cleanup[d].attempt_count = 0
        BY <1>0, <1>1, <2>1 DEF DeleteDocument, LeaseInv, TokenMatchesClaim
      <3>2. cleanup'[d].status = "queued" /\ cleanup'[d].attempt_count = 0
        BY <3>1 DEF InsertedRow
      <3>3. HoldersOf(d)' = {} /\ phaseOf(d) = "none" /\ phaseOf(d)' = "ready"
        BY <2>1, <3>2, NotProcessingNotHeld DEF phaseOf
      <3> QED BY <3>1, <3>2, <3>3, MappedTask
    <2>2. CASE ~(d = e /\ cleanup[d].status = "new")
      <3>1. cleanup'[d] = cleanup[d] /\ UNCHANGED job
        BY <1>0, <1>1, <2>2 DEF DeleteDocument
      <3> QED BY <3>1, UntouchedTask
    <2> QED BY <2>1, <2>2
  <1>2. ASSUME NEW e \in Doc, NEW timer, cleanup' = [cleanup EXCEPT ![e] = Timed(cleanup[e], timer)],
               UNCHANGED job
        PROVE  Abs!TaskStep(d)
    <2>1. /\ cleanup'[d].status = cleanup[d].status
          /\ cleanup'[d].lock_token = cleanup[d].lock_token
          /\ cleanup'[d].attempt_count = cleanup[d].attempt_count
      BY <1>0, <1>2 DEF Timed
    <2> QED BY <1>2, <2>1, UntouchedTask
  <1>3. ASSUME NEW e \in Doc, TimerElapses(e) PROVE Abs!TaskStep(d)
    BY <1>2, <1>3 DEF TimerElapses
  <1>4. ASSUME NEW c \in Cleaner, Renew(c) PROVE Abs!TaskStep(d)
    BY <1>2, <1>4 DEF Renew
  <1>5. CASE UNCHANGED <<cleanup, job>>
    BY <1>5, UntouchedTask
  <1> QED BY <1>1, <1>3, <1>4, <1>5, ClaimImplements, PhaseImplements, RunEndImplements
          DEF CleanupStep, CleanerStep

LEMMA StepImplements ==
  ASSUME LeaseInv, LeaseInv', CleanupStep
  PROVE  Abs!AbsNext
  <1>1. \A d \in Doc : phaseOf(d)' \in {"none", "ready", "held", "done", "dead"}
    BY DEF LeaseInv, TypeOK, CleanupRow, phaseOf
  <1>2. \A d \in Doc : cleanup'[d].attempt_count \in 0..MaxAttempts
    BY DEF LeaseInv, TypeOK, CleanupRow
  <1>3. \A d \in Doc : Abs!TaskStep(d)
    BY NextImplements
  <1> QED BY <1>1, <1>2, <1>3 DEF Abs!AbsNext

LEMMA InitImplements ==
  ASSUME cleanup = [d \in Doc |-> NoRow], job = [c \in Cleaner |-> NoJob]
  PROVE  Abs!AbsInit
  BY CleanupAssumption DEF NoRow, NoJob, Abs!AbsInit, phaseOf, Holds, LeaseCurrent

\* Every behaviour of the cleanup table, late and crashed runs included, is a
\* behaviour of the abstract leased queue.
THEOREM CleanupRefinement == CleanupSpec => ImplementsTaskLease
  <1>1. CleanupInit => Abs!AbsInit
    BY InitImplements DEF CleanupInit
  <1>2. CleanupInv => LeaseInv
    BY DEF CleanupInv
  <1>3. [CleanupNext]_cleanupVars => CleanupStep
    BY DEF CleanupNext, CleanupStep, cleanupVars
  <1>4. LeaseInv /\ LeaseInv' /\ CleanupStep => [Abs!AbsNext]_(Abs!absVars)
    BY StepImplements
  <1> QED BY <1>1, <1>2, <1>3, <1>4, CleanupInvariant, PTL
          DEF CleanupSpec, ImplementsTaskLease, Abs!AbsSpec
==============================================================================
