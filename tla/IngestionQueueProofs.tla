------------------------ MODULE IngestionQueueProofs ------------------------
(***************************************************************************)
(* Proofs about IngestionQueue, for every set of tasks and workers, every  *)
(* assignment of keys, groups and times, and every attempt budget:         *)
(* the lease is exclusive, a late run changes nothing, and the queue       *)
(* implements the abstract TaskLease.                                      *)
(***************************************************************************)
EXTENDS IngestionQueue, TLAPS

LEMMA InitEstablishesLeaseInv == QueueInit => LeaseInv
  BY ConstantsAssumption
  DEF QueueInit, LeaseInv, TypeOK, TokenMatchesClaim, LeaseRemembersClaim,
      ClaimsRememberedOnce, NotYetInserted, Row, Token, NoToken, NoLease

\* What a step leaves of one row keeps the row well typed and its token the
\* number of its claims, and never lowers that number.
RowOK(row) ==
    /\ row \in Row
    /\ row.status = "processing" => row.lock_token = row.attempt_count /\ row.attempt_count # 0
    /\ row.status # "processing" => row.lock_token = NoToken
    /\ row.status = "new" => row.attempt_count = 0

LEMMA RowSteps ==
  ASSUME NEW row, RowOK(row)
  PROVE  /\ RowOK(DeadLettered(row)) /\ DeadLettered(row).attempt_count = row.attempt_count
         /\ \A timer \in {"running", "elapsed"} :
               /\ RowOK(Timed(row, timer))
               /\ Timed(row, timer).attempt_count = row.attempt_count
         /\ RowOK(Deleted(row)) /\ Deleted(row).attempt_count = row.attempt_count
         /\ RowOK(Requeued(row)) /\ Requeued(row).attempt_count = row.attempt_count
         /\ row.attempt_count < MaxAttempts =>
               /\ RowOK(Claimed(row))
               /\ Claimed(row).attempt_count = row.attempt_count + 1
  BY ConstantsAssumption
  DEF RowOK, Row, Token, NoToken, Timed, DeadLettered, Deleted, Requeued, Claimed

\* The invariant, row by row and lease by lease.
LEMMA LeaseInvByRows ==
  ASSUME LeaseInv
  PROVE  /\ rows \in [Task -> Row]
         /\ \A t \in Task : RowOK(rows[t])
         /\ lease \in [Worker -> [task : Task \cup {NoTask}, token : Token]]
  BY DEF LeaseInv, TypeOK, TokenMatchesClaim, RowOK

\* A step that changes rows only, and no row's claims, keeps the invariant.
LEMMA RowsOnlyStep ==
  ASSUME LeaseInv, rows' \in [Task -> Row], UNCHANGED lease,
         \A t \in Task : RowOK(rows'[t]) /\ rows[t].attempt_count <= rows'[t].attempt_count
  PROVE  LeaseInv'
  <1>1. TypeOK' /\ TokenMatchesClaim'
    BY DEF LeaseInv, TypeOK, TokenMatchesClaim, RowOK
  <1>2. LeaseRemembersClaim'
    BY ConstantsAssumption DEF LeaseInv, LeaseRemembersClaim, TypeOK, Row, RowOK, Token, NoLease
  <1>3. ClaimsRememberedOnce'
    BY DEF LeaseInv, ClaimsRememberedOnce, NoLease
  <1> QED BY <1>1, <1>2, <1>3 DEF LeaseInv

\* So does a step in which, besides, one worker forgets its claim.
LEMMA ForgettingStep ==
  ASSUME LeaseInv, rows' \in [Task -> Row], NEW w \in Worker, Forget(w),
         \A t \in Task : RowOK(rows'[t]) /\ rows[t].attempt_count <= rows'[t].attempt_count
  PROVE  LeaseInv'
  <1>1. TypeOK' /\ TokenMatchesClaim'
    BY ConstantsAssumption DEF LeaseInv, TypeOK, TokenMatchesClaim, RowOK, Forget, NoLease, NoToken, Token
  <1>2. LeaseRemembersClaim'
    BY ConstantsAssumption
    DEF LeaseInv, LeaseRemembersClaim, TypeOK, Row, RowOK, Token, NoLease, Forget
  <1>3. ClaimsRememberedOnce'
    BY DEF LeaseInv, TypeOK, ClaimsRememberedOnce, NoLease, Forget
  <1> QED BY <1>1, <1>2, <1>3 DEF LeaseInv

\* A claim by a worker with no task keeps the invariant: the token it is given
\* is larger than every token remembered for that task.
LEMMA ClaimStep ==
  ASSUME LeaseInv, NEW w \in Worker, Claim(w)
  PROVE  LeaseInv'
  <1>0. /\ rows \in [Task -> Row]
        /\ \A t \in Task : RowOK(rows[t]) /\ rows[t].attempt_count \in 0..MaxAttempts
        /\ lease \in [Worker -> [task : Task \cup {NoTask}, token : Token]]
    BY LeaseInvByRows DEF Row
  <1>1. ASSUME NEW granted \in SUBSET Task, \A t \in granted : rows[t].attempt_count < MaxAttempts,
               rows' = AfterClaim(granted)
        PROVE  /\ rows' \in [Task -> Row]
               /\ \A t \in Task : RowOK(rows'[t]) /\ rows[t].attempt_count <= rows'[t].attempt_count
               /\ \A t \in granted : t \notin Exhausted =>
                                        rows'[t].attempt_count = rows[t].attempt_count + 1
    <2>1. \A t \in Task : /\ RowOK(rows'[t])
                          /\ rows'[t].attempt_count = rows[t].attempt_count
                             \/ rows'[t].attempt_count = rows[t].attempt_count + 1
      BY <1>0, <1>1, RowSteps DEF AfterClaim
    <2>2. rows' \in [Task -> Row]
      BY <1>1, <2>1 DEF AfterClaim, RowOK
    <2>3. \A t \in granted : t \notin Exhausted => rows'[t] = Claimed(rows[t])
      BY <1>1 DEF AfterClaim
    <2> QED BY <1>0, <1>1, <2>1, <2>2, <2>3, RowSteps, ConstantsAssumption
  <1>2. CASE UNCHANGED lease
    <2>1. PICK granted \in SUBSET Task : /\ \A t \in granted : rows[t].attempt_count < MaxAttempts
                                         /\ rows' = AfterClaim(granted)
      BY DEF Claim, NextTask, Claimable
    <2> QED BY <1>1, <1>2, <2>1, RowsOnlyStep
  <1>3. CASE ~UNCHANGED lease
    <2>1. PICK t \in NextTask(w) :
             /\ rows' = AfterClaim({t})
             /\ lease' = [lease EXCEPT ![w] = [task |-> t, token |-> rows[t].attempt_count + 1]]
      BY <1>3 DEF Claim
    <2>2. t \in Task /\ rows[t].attempt_count < MaxAttempts /\ t \notin Exhausted
      BY <1>0, <2>1, ConstantsAssumption DEF NextTask, Claimable, Exhausted
    <2>3. /\ rows' \in [Task -> Row]
          /\ \A u \in Task : RowOK(rows'[u]) /\ rows[u].attempt_count <= rows'[u].attempt_count
          /\ rows'[t].attempt_count = rows[t].attempt_count + 1
      <3>1. {t} \in SUBSET Task /\ \A u \in {t} : rows[u].attempt_count < MaxAttempts
        BY <2>2
      <3> QED BY <1>1, <2>1, <2>2, <3>1
    <2>4. \A u \in Task : rows[u].attempt_count \in 0..MaxAttempts
                          /\ rows'[u].attempt_count \in 0..MaxAttempts
      BY <1>0, <2>3 DEF Row
    <2>5. rows[t].attempt_count + 1 \in Token
      BY <2>2, <2>4, ConstantsAssumption DEF Token
    <2>6. TypeOK' /\ TokenMatchesClaim'
      BY <1>0, <2>1, <2>2, <2>3, <2>5 DEF TypeOK, TokenMatchesClaim, RowOK
    <2>7. LeaseRemembersClaim'
      <3>1. ASSUME NEW v \in Worker, v # w, lease[v] # NoLease
            PROVE  lease'[v].task \in Task /\ lease'[v].token \in 1..rows'[lease'[v].task].attempt_count
        <4>1. /\ lease'[v] = lease[v] /\ lease[v].task \in Task
              /\ lease[v].token \in 1..rows[lease[v].task].attempt_count
          BY <1>0, <2>1, <3>1 DEF LeaseInv, LeaseRemembersClaim
        <4> QED BY <2>3, <2>4, <4>1
      <3>2. lease'[w].task = t /\ lease'[w].token \in 1..rows'[t].attempt_count
        BY <1>0, <2>1, <2>2, <2>3, <2>4
      <3>3. \A v \in Worker : v # w => lease'[v] = lease[v]
        BY <1>0, <2>1
      <3> QED BY <2>2, <3>1, <3>2, <3>3 DEF LeaseRemembersClaim
    <2>8. \A v \in Worker : v # w => lease'[v] = lease[v] /\ lease'[v] # lease'[w]
      <3>1. ASSUME NEW v \in Worker, v # w, lease[v] = lease'[w] PROVE FALSE
        BY <1>0, <2>1, <2>2, <3>1, ConstantsAssumption
        DEF LeaseInv, LeaseRemembersClaim, NoLease
      <3> QED BY <1>0, <2>1, <3>1
    <2>9. ClaimsRememberedOnce'
      BY <2>8 DEF LeaseInv, ClaimsRememberedOnce, NoLease
    <2> QED BY <2>6, <2>7, <2>9 DEF LeaseInv
  <1> QED BY <1>2, <1>3

\* Every other step changes single rows by one of the row operators, or the
\* rows of one document, and makes at most its own worker forget.
LEMMA NextKeepsLeaseInv == LeaseInv /\ [QueueNext]_queueVars => LeaseInv'
  <1> SUFFICES ASSUME LeaseInv, [QueueNext]_queueVars PROVE LeaseInv'
    OBVIOUS
  <1>n. /\ rows \in [Task -> Row]
        /\ \A t \in Task : RowOK(rows[t]) /\ rows[t].attempt_count \in 0..MaxAttempts
    BY LeaseInvByRows DEF Row
  <1>0. ASSUME NEW t \in Task, NEW row, RowOK(row), rows[t].attempt_count <= row.attempt_count,
               rows' = [rows EXCEPT ![t] = row]
        PROVE  /\ rows' \in [Task -> Row]
               /\ \A u \in Task : RowOK(rows'[u]) /\ rows[u].attempt_count <= rows'[u].attempt_count
    BY <1>n, <1>0, ConstantsAssumption DEF RowOK
  <1>1. ASSUME NEW t \in Task, Enqueue(t) PROVE LeaseInv'
    <2>1. RowOK(Inserted) /\ rows[t].attempt_count <= Inserted.attempt_count
      BY <1>1, <1>n, ConstantsAssumption DEF Enqueue, Insert, Inserted, RowOK, Row, Token, NoToken
    <2> QED BY <1>0, <1>1, <2>1, RowsOnlyStep DEF Enqueue, Insert
  <1>2. ASSUME NEW t \in Task, BackoffElapses(t) \/ LeaseExpires(t) PROVE LeaseInv'
    BY <1>0, <1>n, <1>2, RowsOnlyStep, RowSteps, ConstantsAssumption DEF BackoffElapses, LeaseExpires
  <1>3. ASSUME NEW w \in Worker, Claim(w) PROVE LeaseInv'
    BY <1>3, ClaimStep
  <1>4. ASSUME NEW w \in Worker, Renew(w) PROVE LeaseInv'
    <2>1. PICK t \in Task : rows' = [rows EXCEPT ![t] = Timed(rows[t], "running")]
      BY <1>4 DEF Renew
    <2>2. /\ RowOK(Timed(rows[t], "running"))
          /\ rows[t].attempt_count <= Timed(rows[t], "running").attempt_count
      BY <1>n, RowSteps, ConstantsAssumption
    <2> QED BY <1>0, <1>4, <2>1, <2>2, RowsOnlyStep DEF Renew
  <1>5. ASSUME NEW w \in Worker, Complete(w) \/ Fail(w) \/ FailTerminal(w) PROVE LeaseInv'
    <2>1. PICK t \in Task : \/ rows' = [rows EXCEPT ![t] = Deleted(rows[t])]
                            \/ rows' = [rows EXCEPT ![t] = DeadLettered(rows[t])]
                            \/ rows' = [rows EXCEPT ![t] = Requeued(rows[t])]
      BY <1>5 DEF Complete, Fail, FailTerminal
    <2>2. PICK row : /\ RowOK(row) /\ row.attempt_count = rows[t].attempt_count
                     /\ rows' = [rows EXCEPT ![t] = row]
      BY <1>n, <2>1, RowSteps
    <2>3. rows[t].attempt_count <= row.attempt_count
      BY <1>n, <2>2, ConstantsAssumption
    <2>4. Forget(w)
      BY <1>5 DEF Complete, Fail, FailTerminal
    <2> QED BY <1>0, <2>2, <2>3, <2>4, ForgettingStep
  <1>6. ASSUME NEW w \in Worker, LeaseLost(w) \/ Abandon(w) PROVE LeaseInv'
    BY <1>n, <1>6, ForgettingStep, ConstantsAssumption DEF LeaseLost, Abandon
  <1>7. ASSUME NEW d \in Doc, DeleteDocument(d) PROVE LeaseInv'
    <2>1. \A t \in Task : /\ RowOK(rows'[t])
                          /\ rows'[t].attempt_count = rows[t].attempt_count
      BY <1>n, <1>7, RowSteps DEF DeleteDocument, BuryTasksOf
    <2>2. rows' \in [Task -> Row]
      BY <1>7, <2>1 DEF DeleteDocument, BuryTasksOf, RowOK
    <2> QED BY <1>n, <1>7, <2>1, <2>2, RowsOnlyStep, ConstantsAssumption DEF DeleteDocument
  <1>8. CASE UNCHANGED queueVars
    BY <1>n, <1>8, RowsOnlyStep, ConstantsAssumption DEF queueVars
  <1> QED BY <1>1, <1>2, <1>3, <1>4, <1>5, <1>6, <1>7, <1>8 DEF QueueNext, WorkerStep

\* Every state of the queue satisfies the inductive invariant.
THEOREM LeaseInvariant == QueueSpec => []LeaseInv
  BY InitEstablishesLeaseInv, NextKeepsLeaseInv, PTL DEF QueueSpec

\* No row is claimed more than max_attempts times and every token is one the
\* table handed out (claim_next_ingestion_task's budget comparison).
THEOREM TypeCorrect == QueueSpec => []TypeOK
  <1>1. LeaseInv => TypeOK
    BY DEF LeaseInv
  <1> QED BY <1>1, LeaseInvariant, PTL

LEMMA LeaseInvImpliesExclusive == LeaseInv => LeaseExclusive
  <1> SUFFICES ASSUME LeaseInv, NEW t \in Task, NEW v \in Worker, NEW w \in Worker,
                      Holds(v, t), Holds(w, t)
               PROVE  v = w
    BY DEF LeaseExclusive
  <1>1. /\ lease[v].task = t /\ lease[w].task = t
        /\ lease[v].token = lease[w].token
    BY DEF Holds, LeaseCurrent
  <1>2. lease[v] = lease[w]
    BY <1>1 DEF LeaseInv, TypeOK
  <1>3. lease[v] # NoLease
    BY <1>1, ConstantsAssumption DEF NoLease
  <1> QED BY <1>2, <1>3 DEF LeaseInv, ClaimsRememberedOnce

LEMMA ExclusiveNext == LeaseInv' => LeaseExclusive'
  BY LeaseInvImpliesExclusive, PTL

\* At most one worker holds the current token of a task (the lock_token
\* comparison in renew, complete, fail and fail_terminal).
THEOREM Exclusive == QueueSpec => []LeaseExclusive
  BY LeaseInvariant, LeaseInvImpliesExclusive, PTL

\* A run whose task was taken over ends without touching the row.
THEOREM LateRunHarmless == QueueSpec => LateRunChangesNothing
  <1>1. ASSUME LeaseInv, [QueueNext]_queueVars, NEW w \in Worker, NEW t \in Task,
               lease[w].task = t, lease'[w] = NoLease, rows[t].lock_token # lease[w].token
        PROVE  rows'[t] = rows[t]
    <2>1. lease \in [Worker -> [task : Task \cup {NoTask}, token : Token]]
          /\ rows \in [Task -> Row]
      BY <1>1 DEF LeaseInv, TypeOK
    <2>2. lease[w] # NoLease
      BY <1>1, ConstantsAssumption DEF NoLease
    <2>3. CASE UNCHANGED rows
      BY <2>3
    <2>4. ASSUME NEW v \in Worker, Complete(v) \/ Fail(v) \/ FailTerminal(v)
          PROVE  rows'[t] = rows[t]
      <3>1. v = w
        BY <1>1, <2>1, <2>2, <2>4 DEF Complete, Fail, FailTerminal, Forget
      <3>2. PICK u \in Task : Holds(v, u) /\ \A x \in Task : x # u => rows'[x] = rows[x]
        BY <2>1, <2>4 DEF Complete, Fail, FailTerminal
      <3>3. u # t
        BY <1>1, <3>1, <3>2 DEF Holds, LeaseCurrent
      <3> QED BY <3>2, <3>3
    <2>5. ASSUME NEW v \in Worker, Claim(v) PROVE FALSE
      BY <1>1, <2>1, <2>2, <2>5 DEF Claim, NoLease
    <2>6. UNCHANGED lease => FALSE
      BY <1>1, <2>2
    <2> QED BY <1>1, <2>3, <2>4, <2>5, <2>6
            DEF QueueNext, WorkerStep, queueVars, Enqueue, BackoffElapses, LeaseExpires,
                Renew, LeaseLost, Abandon, DeleteDocument
  <1>2. LeaseInv /\ [QueueNext]_queueVars =>
          [\A w \in Worker, t \in Task :
              /\ lease[w].task = t /\ lease'[w] = NoLease
              /\ rows[t].lock_token # lease[w].token
              => rows'[t] = rows[t]]_queueVars
    BY <1>1
  <1> QED BY <1>2, LeaseInvariant, PTL DEF QueueSpec, LateRunChangesNothing
------------------------------------------------------------------------------
(* The queue implements TaskLease: task by task, every step of the queue is *)
(* one of the abstract task steps.                                          *)

HoldersOf(t) == {w \in Worker : Holds(w, t)}

\* How the refinement mapping reads one task, before and after a step.
LEMMA MappedTask ==
  ASSUME NEW t \in Task
  PROVE  Abs!TaskStep(t) <=>
           \/ /\ phaseOf(t) = "none" /\ phaseOf(t)' = "ready"
              /\ HoldersOf(t)' = {} /\ rows'[t].attempt_count = rows[t].attempt_count
           \/ /\ phaseOf(t) \in {"ready", "held"} /\ rows[t].attempt_count < MaxAttempts
              /\ phaseOf(t)' = "held" /\ (\E w \in Worker : HoldersOf(t)' = {w})
              /\ rows'[t].attempt_count = rows[t].attempt_count + 1
           \/ /\ phaseOf(t) = "held" /\ phaseOf(t)' = "held"
              /\ HoldersOf(t)' = {} /\ rows'[t].attempt_count = rows[t].attempt_count
           \/ /\ phaseOf(t) = "held" /\ HoldersOf(t) # {} /\ rows[t].attempt_count < MaxAttempts
              /\ phaseOf(t)' = "ready"
              /\ HoldersOf(t)' = {} /\ rows'[t].attempt_count = rows[t].attempt_count
           \/ /\ phaseOf(t) = "held" /\ HoldersOf(t) # {} /\ phaseOf(t)' = "done"
              /\ HoldersOf(t)' = {} /\ rows'[t].attempt_count = rows[t].attempt_count
           \/ /\ phaseOf(t) \in {"ready", "held"} /\ phaseOf(t)' = "dead"
              /\ HoldersOf(t)' = {} /\ rows'[t].attempt_count = rows[t].attempt_count
           \/ /\ phaseOf(t)' = phaseOf(t) /\ HoldersOf(t)' = HoldersOf(t)
              /\ rows'[t].attempt_count = rows[t].attempt_count
  BY DEF Abs!TaskStep, Abs!Submit, Abs!Grant, Abs!Lapse, Abs!Return, Abs!Finish, Abs!Bury,
         Abs!Stay, HoldersOf

\* A row that is not processing has no holder.
LEMMA NotProcessingNotHeld ==
  /\ \A t \in Task : rows[t].status # "processing" => HoldersOf(t) = {}
  /\ \A t \in Task : rows'[t].status # "processing" => HoldersOf(t)' = {}
  BY DEF HoldersOf, Holds, LeaseCurrent

\* The row of a task and the leases on it did not change.
LEMMA UntouchedTask ==
  ASSUME NEW t \in Task, rows'[t] = rows[t],
         \A w \in Worker : Holds(w, t)' <=> Holds(w, t)
  PROVE  Abs!TaskStep(t)
  <1>1. HoldersOf(t)' = HoldersOf(t)
    BY DEF HoldersOf
  <1>2. phaseOf(t)' = phaseOf(t)
    BY DEF phaseOf
  <1> QED BY <1>1, <1>2, MappedTask

\* A live row was dead-lettered.
LEMMA BuriedTask ==
  ASSUME NEW t \in Task, Live(t), rows'[t] = DeadLettered(rows[t])
  PROVE  Abs!TaskStep(t)
  <1>1. rows'[t].status = "dead_letter" /\ rows'[t].attempt_count = rows[t].attempt_count
    BY DEF DeadLettered
  <1>2. HoldersOf(t)' = {}
    BY <1>1, NotProcessingNotHeld
  <1>3. phaseOf(t) \in {"ready", "held"} /\ phaseOf(t)' = "dead"
    BY <1>1 DEF phaseOf, Live
  <1> QED BY <1>1, <1>2, <1>3, MappedTask

\* Only the row of t changed, and only the worker that held t forgot its lease.
LEMMA OtherTaskUntouched ==
  ASSUME LeaseInv, NEW w \in Worker, Forget(w), NEW u \in Task,
         rows'[u] = rows[u], ~Holds(w, u)
  PROVE  Abs!TaskStep(u)
  <1>1. lease \in [Worker -> [task : Task \cup {NoTask}, token : Token]]
    BY DEF LeaseInv, TypeOK
  <1>2. ASSUME NEW v \in Worker PROVE Holds(v, u)' <=> Holds(v, u)
    <2>1. CASE v = w
      BY <1>1, <2>1, ConstantsAssumption DEF Forget, NoLease, Holds
    <2>2. CASE v # w
      BY <1>1, <2>2 DEF Forget, Holds, LeaseCurrent
    <2> QED BY <2>1, <2>2
  <1> QED BY <1>2, UntouchedTask

LEMMA ClaimImplements ==
  ASSUME LeaseInv, LeaseInv', NEW w \in Worker, Claim(w), NEW t \in Task
  PROVE  Abs!TaskStep(t)
  <1>0. /\ rows \in [Task -> Row]
        /\ \A u \in Task : rows[u].attempt_count \in 0..MaxAttempts
        /\ lease \in [Worker -> [task : Task \cup {NoTask}, token : Token]]
        /\ lease[w] = NoLease
    BY LeaseInvByRows DEF Row, Claim
  <1>1. ASSUME NEW granted, rows' = AfterClaim(granted), t \in Exhausted
        PROVE  Abs!TaskStep(t)
    <2>1. Live(t)
      BY <1>1 DEF Exhausted, ReadyToRun
    <2>2. rows'[t] = DeadLettered(rows[t])
      BY <1>1 DEF AfterClaim
    <2> QED BY <2>1, <2>2, BuriedTask
  <1>2. CASE rows' = AfterClaim({}) /\ UNCHANGED lease
    <2>1. t \notin Exhausted => rows'[t] = rows[t]
      BY <1>2 DEF AfterClaim
    <2>2. rows'[t] = rows[t] => \A v \in Worker : Holds(v, t)' <=> Holds(v, t)
      BY <1>2 DEF Holds, LeaseCurrent
    <2> QED BY <1>1, <1>2, <2>1, <2>2, UntouchedTask
  <1>3. ASSUME NEW u \in NextTask(w), rows' = AfterClaim({u}),
               lease' = [lease EXCEPT ![w] = [task |-> u, token |-> rows[u].attempt_count + 1]]
        PROVE  Abs!TaskStep(t)
    <2>1. /\ u \in Task /\ Live(u)
          /\ rows[u].attempt_count < MaxAttempts /\ u \notin Exhausted
      BY <1>0, <1>3, ConstantsAssumption DEF NextTask, Claimable, ReadyToRun, Exhausted
    <2>2. CASE t = u
      <3>1. rows'[t] = Claimed(rows[t])
        BY <1>3, <2>1, <2>2 DEF AfterClaim
      <3>2. Holds(w, t)'
        BY <1>0, <1>3, <2>2, <3>1 DEF Holds, LeaseCurrent, Claimed
      <3>3. HoldersOf(t)' = {w}
        BY <3>2, ExclusiveNext DEF LeaseExclusive, HoldersOf
      <3>4. phaseOf(t) \in {"ready", "held"} /\ phaseOf(t)' = "held"
        BY <2>1, <2>2, <3>1 DEF phaseOf, Live, Claimed
      <3> QED BY <2>1, <2>2, <3>1, <3>3, <3>4, MappedTask DEF Claimed
    <2>3. CASE t # u /\ t \notin Exhausted
      <3>1. rows'[t] = rows[t]
        BY <1>3, <2>3 DEF AfterClaim
      <3>2. ~Holds(w, t) /\ ~Holds(w, t)'
        BY <1>0, <1>3, <2>3, ConstantsAssumption DEF Holds, NoLease
      <3>3. ASSUME NEW v \in Worker, v # w PROVE Holds(v, t)' <=> Holds(v, t)
        BY <1>0, <1>3, <3>1, <3>3 DEF Holds, LeaseCurrent
      <3> QED BY <3>1, <3>2, <3>3, UntouchedTask
    <2> QED BY <1>1, <1>3, <2>2, <2>3
  <1> QED BY <1>2, <1>3 DEF Claim

LEMMA EndOfRunImplements ==
  ASSUME LeaseInv, NEW w \in Worker, Complete(w) \/ Fail(w) \/ FailTerminal(w), NEW t \in Task
  PROVE  Abs!TaskStep(t)
  <1>0. rows \in [Task -> Row] /\ \A u \in Task : rows[u].attempt_count \in 0..MaxAttempts
    BY LeaseInvByRows DEF Row
  <1>1. PICK u \in Task :
           /\ Holds(w, u)
           /\ \/ rows' = [rows EXCEPT ![u] = Deleted(rows[u])]
              \/ rows' = [rows EXCEPT ![u] = DeadLettered(rows[u])]
              \/ /\ rows[u].attempt_count < MaxAttempts
                 /\ rows' = [rows EXCEPT ![u] = Requeued(rows[u])]
    BY <1>0, ConstantsAssumption DEF Complete, Fail, FailTerminal
  <1>2. Forget(w)
    BY DEF Complete, Fail, FailTerminal
  <1>3. CASE t # u
    <2>1. rows'[t] = rows[t] /\ ~Holds(w, t)
      BY <1>0, <1>1, <1>3 DEF Holds
    <2> QED BY <1>2, <2>1, OtherTaskUntouched
  <1>4. CASE t = u
    <2>1. phaseOf(t) = "held" /\ Live(t) /\ HoldersOf(t) # {}
      BY <1>1, <1>4 DEF Holds, LeaseCurrent, phaseOf, Live, HoldersOf
    <2>2. rows'[t] = DeadLettered(rows[t]) => Abs!TaskStep(t)
      BY <2>1, BuriedTask
    <2>3. ASSUME rows'[t] = Deleted(rows[t]) PROVE Abs!TaskStep(t)
      <3>1. HoldersOf(t)' = {} /\ phaseOf(t)' = "done"
        BY <2>3, NotProcessingNotHeld DEF Deleted, phaseOf
      <3> QED BY <2>1, <2>3, <3>1, MappedTask DEF Deleted
    <2>4. ASSUME rows'[t] = Requeued(rows[t]), rows[t].attempt_count < MaxAttempts
          PROVE  Abs!TaskStep(t)
      <3>1. HoldersOf(t)' = {} /\ phaseOf(t)' = "ready"
        BY <2>4, NotProcessingNotHeld DEF Requeued, phaseOf
      <3> QED BY <2>1, <2>4, <3>1, MappedTask DEF Requeued
    <2> QED BY <1>0, <1>1, <1>4, <2>2, <2>3, <2>4
  <1> QED BY <1>3, <1>4

LEMMA AbandonImplements ==
  ASSUME LeaseInv, NEW w \in Worker, Abandon(w) \/ LeaseLost(w), NEW t \in Task
  PROVE  Abs!TaskStep(t)
  <1>1. UNCHANGED rows /\ Forget(w)
    BY DEF Abandon, LeaseLost
  <1>2. CASE ~Holds(w, t)
    BY <1>1, <1>2, OtherTaskUntouched
  <1>3. CASE Holds(w, t)
    <2>1. \A v \in Worker : v # w => ~Holds(v, t)
      BY <1>3, LeaseInvImpliesExclusive DEF LeaseExclusive
    <2>2. HoldersOf(t)' = {}
      BY <1>1, <2>1, ConstantsAssumption
      DEF HoldersOf, Holds, LeaseCurrent, Forget, NoLease, LeaseInv, TypeOK
    <2>3. phaseOf(t) = "held" /\ phaseOf(t)' = "held"
      BY <1>1, <1>3 DEF Holds, LeaseCurrent, phaseOf
    <2> QED BY <1>1, <2>2, <2>3, MappedTask
  <1> QED BY <1>2, <1>3

LEMMA NextImplements ==
  ASSUME LeaseInv, LeaseInv', [QueueNext]_queueVars, NEW t \in Task
  PROVE  Abs!TaskStep(t)
  <1>0. rows \in [Task -> Row]
    BY LeaseInvByRows
  <1>1. ASSUME NEW u \in Task, Enqueue(u) PROVE Abs!TaskStep(t)
    <2>1. CASE t # u
      BY <1>0, <1>1, <2>1, UntouchedTask DEF Enqueue, Insert, Holds, LeaseCurrent
    <2>2. CASE t = u
      <3>1. rows'[t] = Inserted /\ rows[t].status = "new" /\ rows[t].attempt_count = 0
        BY <1>0, <1>1, <2>2 DEF Enqueue, Insert, LeaseInv, TokenMatchesClaim
      <3>2. HoldersOf(t)' = {} /\ phaseOf(t) = "none" /\ phaseOf(t)' = "ready"
        BY <3>1, NotProcessingNotHeld DEF Inserted, phaseOf
      <3> QED BY <3>1, <3>2, MappedTask DEF Inserted
    <2> QED BY <2>1, <2>2
  <1>2. ASSUME NEW u \in Task, NEW timer, rows' = [rows EXCEPT ![u] = Timed(rows[u], timer)],
               UNCHANGED lease
        PROVE  Abs!TaskStep(t)
    <2>1. /\ rows'[t].status = rows[t].status
          /\ rows'[t].lock_token = rows[t].lock_token
          /\ rows'[t].attempt_count = rows[t].attempt_count
      BY <1>0, <1>2 DEF Timed
    <2>2. HoldersOf(t)' = HoldersOf(t) /\ phaseOf(t)' = phaseOf(t)
      BY <1>2, <2>1 DEF HoldersOf, Holds, LeaseCurrent, phaseOf
    <2> QED BY <2>1, <2>2, MappedTask
  <1>3. ASSUME NEW u \in Task, BackoffElapses(u) \/ LeaseExpires(u) PROVE Abs!TaskStep(t)
    BY <1>2, <1>3 DEF BackoffElapses, LeaseExpires
  <1>4. ASSUME NEW w \in Worker, Renew(w) PROVE Abs!TaskStep(t)
    BY <1>2, <1>4 DEF Renew
  <1>5. ASSUME NEW d \in Doc, DeleteDocument(d) PROVE Abs!TaskStep(t)
    <2>1. CASE DocOf[t] = d /\ Live(t)
      BY <1>5, <2>1, BuriedTask DEF DeleteDocument, BuryTasksOf
    <2>2. CASE ~(DocOf[t] = d /\ Live(t))
      <3>1. rows'[t] = rows[t] /\ UNCHANGED lease
        BY <1>5, <2>2 DEF DeleteDocument, BuryTasksOf
      <3> QED BY <3>1, UntouchedTask DEF Holds, LeaseCurrent
    <2> QED BY <2>1, <2>2
  <1>6. CASE UNCHANGED queueVars
    BY <1>6, UntouchedTask DEF queueVars, Holds, LeaseCurrent
  <1> QED BY <1>1, <1>3, <1>4, <1>5, <1>6, ClaimImplements, EndOfRunImplements, AbandonImplements
          DEF QueueNext, WorkerStep

\* Every behaviour of the table, its workers' crashes and late runs included,
\* is a behaviour of the abstract leased queue.
THEOREM Refinement == QueueSpec => ImplementsTaskLease
  <1>1. QueueInit => Abs!AbsInit
    BY ConstantsAssumption
    DEF QueueInit, NotYetInserted, Abs!AbsInit, phaseOf, Holds, LeaseCurrent
  <1>2. ASSUME LeaseInv, LeaseInv', [QueueNext]_queueVars PROVE Abs!AbsNext
    <2>1. \A t \in Task : phaseOf(t)' \in {"none", "ready", "held", "done", "dead"}
      BY <1>2 DEF LeaseInv, TypeOK, Row, phaseOf
    <2>2. \A t \in Task : rows'[t].attempt_count \in 0..MaxAttempts
      BY <1>2 DEF LeaseInv, TypeOK, Row
    <2>3. \A t \in Task : Abs!TaskStep(t)
      BY <1>2, NextImplements
    <2> QED BY <2>1, <2>2, <2>3 DEF Abs!AbsNext
  <1>3. LeaseInv /\ LeaseInv' /\ [QueueNext]_queueVars => [Abs!AbsNext]_(Abs!absVars)
    BY <1>2
  <1> QED BY <1>1, <1>3, LeaseInvariant, PTL DEF QueueSpec, ImplementsTaskLease, Abs!AbsSpec
==============================================================================
