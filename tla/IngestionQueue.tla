---------------------------- MODULE IngestionQueue ----------------------------
(***************************************************************************)
(* The ingestion_tasks table: a Postgres table used as a leased,           *)
(* at-least-once work queue by the API (which inserts), the workers (which *)
(* claim, renew, complete and fail) and document deletion (which buries).  *)
(*                                                                         *)
(* Each action is one transaction of repository_ingestion_queue.rs.  A     *)
(* worker remembers the task and the lock token it was given by its last   *)
(* claim; between two of its transactions anything else may happen, the    *)
(* expiry of its lease and the re-claim of its task included.              *)
(*                                                                         *)
(* Time is not counted.  What a row waits for is its timer: available_at   *)
(* while it is queued, locked_at plus 30 minutes while it is processing.   *)
(* A queued row is due, and a processing row is stale, once its timer has  *)
(* elapsed; a heartbeat restarts it.                                       *)
(***************************************************************************)
EXTENDS Naturals, FiniteSets

CONSTANTS
    Task,          \* task_id values: every insert attempt brings a new one
    Worker,        \* worker processes
    Doc,           \* documents
    DocOf,         \* DocOf[t]: the document task t is about
    Key,           \* Key[t]: the idempotency key t is inserted under
    EnqueuedAt,    \* EnqueuedAt[t]: the enqueued_at the API stamps t with
    TaskGroup,     \* TaskGroup[t]: the queue_group t is inserted with
    WorkerGroup,   \* WorkerGroup[w]: the queue_group w serves
    MaxAttempts,   \* max_attempts of every row
    NoTask         \* what a worker without a claimed task remembers

ASSUME ConstantsAssumption ==
    /\ MaxAttempts \in Nat \ {0}
    /\ EnqueuedAt \in [Task -> Nat]
    /\ DocOf \in [Task -> Doc]
    /\ NoTask \notin Task

VARIABLES
    rows,          \* rows[t]: the row of task t
    lease          \* lease[w]: the task and lock token w got from its last claim

queueVars == <<rows, lease>>

NoToken == 0

\* "new" and "deleted" are rows that are not in the table (not yet, no more).
Token == 0..MaxAttempts

Row == [status : {"new", "queued", "processing", "dead_letter", "deleted"},
        attempt_count : 0..MaxAttempts, lock_token : Token, timer : {"running", "elapsed"}]

NoLease == [task |-> NoTask, token |-> NoToken]

\* Types, and: no row is ever claimed more than max_attempts times.
TypeOK ==
    /\ rows \in [Task -> Row]
    /\ lease \in [Worker -> [task : Task \cup {NoTask}, token : Token]]

------------------------------------------------------------------------------
(* Conditions the statements select rows by.                                *)

InTable(t) == rows[t].status \in {"queued", "processing", "dead_letter"}

Live(t) == rows[t].status \in {"queued", "processing"}

KeyTaken(t) == \E u \in Task : Key[u] = Key[t] /\ InTable(u)

\* (mutant) the statement forgets to compare the token.
LeaseOfAnyToken(t, token) == rows[t].status = "processing"

\* where task_id = .. and lock_token = .. and status = 'processing'
\*   and dead_lettered_at is null
LeaseCurrent(t, token) ==
    /\ rows[t].status = "processing"
    /\ rows[t].lock_token = token

Holds(w, t) == lease[w].task = t /\ LeaseCurrent(t, lease[w].token)

\* available_at <= now(), or locked_at <= now() - 30 minutes
ReadyToRun(t) == Live(t) /\ rows[t].timer = "elapsed"

\* (mutant) the CTE overlooks a worker that died in its last attempt.
ExhaustedQueuedOnly ==
    {t \in Task : /\ rows[t].status = "queued" /\ rows[t].timer = "elapsed"
                  /\ rows[t].attempt_count >= MaxAttempts}

\* The rows of the exhausted_tasks CTE, which looks at every queue group.
Exhausted == {t \in Task : ReadyToRun(t) /\ rows[t].attempt_count >= MaxAttempts}

\* (mutant) off by one: the budget is compared with <=.
ClaimableOnceMore(w) ==
    {t \in Task : /\ ReadyToRun(t)
                  /\ TaskGroup[t] = WorkerGroup[w]
                  /\ rows[t].attempt_count <= MaxAttempts}

Claimable(w) ==
    {t \in Task : /\ ReadyToRun(t)
                  /\ TaskGroup[t] = WorkerGroup[w]
                  /\ rows[t].attempt_count < MaxAttempts}

\* order by case when status = 'processing' then 0 else 1 end, enqueued_at
Precedes(t, u) ==
    \/ rows[t].status = "processing" /\ rows[u].status = "queued"
    \/ rows[t].status = rows[u].status /\ EnqueuedAt[t] <= EnqueuedAt[u]

NextTask(w) ==
    {t \in Claimable(w) : \A u \in Claimable(w) : Precedes(t, u)}

------------------------------------------------------------------------------
(* What a statement makes of one row.                                       *)

Inserted == [status |-> "queued", attempt_count |-> 0,
             lock_token |-> NoToken, timer |-> "elapsed"]

Timed(row, timer) ==
    [status |-> row.status, attempt_count |-> row.attempt_count,
     lock_token |-> row.lock_token, timer |-> timer]

DeadLettered(row) ==
    [status |-> "dead_letter", attempt_count |-> row.attempt_count,
     lock_token |-> NoToken, timer |-> "running"]

\* gen_random_uuid() never repeats; the attempt number is a value this row's
\* lock_token has never had, and a token is only ever compared together with
\* its task_id.
Claimed(row) ==
    [status |-> "processing", attempt_count |-> row.attempt_count + 1,
     lock_token |-> row.attempt_count + 1, timer |-> "running"]

Requeued(row) ==
    [status |-> "queued", attempt_count |-> row.attempt_count,
     lock_token |-> NoToken, timer |-> "running"]

Deleted(row) ==
    [status |-> "deleted", attempt_count |-> row.attempt_count,
     lock_token |-> NoToken, timer |-> "running"]

\* The table after one claim statement that hands out the tasks in granted.
AfterClaim(granted) ==
    [t \in Task |-> IF t \in Exhausted THEN DeadLettered(rows[t])
                    ELSE IF t \in granted THEN Claimed(rows[t])
                    ELSE rows[t]]

------------------------------------------------------------------------------
NotYetInserted == [status |-> "new", attempt_count |-> 0,
                   lock_token |-> NoToken, timer |-> "running"]

QueueInit ==
    /\ rows = [t \in Task |-> NotYetInserted]
    /\ lease = [w \in Worker |-> NoLease]

\* insert ... on conflict (idempotency_key) do nothing
Insert(t) ==
    /\ rows[t].status = "new"
    /\ ~KeyTaken(t)
    /\ rows' = [rows EXCEPT ![t] = Inserted]

Enqueue(t) == Insert(t) /\ UNCHANGED lease

Claim(w) ==
    /\ lease[w] = NoLease
    /\ \/ \E t \in NextTask(w) :
             /\ rows' = AfterClaim({t})
             /\ lease' = [lease EXCEPT ![w] = [task |-> t, token |-> rows[t].attempt_count + 1]]
       \/ /\ Claimable(w) = {}
          /\ rows' = AfterClaim({})
          /\ UNCHANGED lease

\* The heartbeat; a renewal that finds no row is only logged.
Renew(w) ==
    /\ \E t \in Task : Holds(w, t) /\ rows' = [rows EXCEPT ![t] = Timed(rows[t], "running")]
    /\ UNCHANGED lease

Forget(w) == lease' = [lease EXCEPT ![w] = NoLease]

\* The delete, update or select-for-update found no row: LeaseLost.
LeaseLost(w) ==
    /\ lease[w] # NoLease
    /\ \A t \in Task : ~Holds(w, t)
    /\ Forget(w)
    /\ UNCHANGED rows

\* (mutant) the delete selects its row by task_id alone.
CompleteByTaskId(w) ==
    /\ \E t \in Task :
          /\ lease[w].task = t /\ rows[t].status = "processing"
          /\ rows' = [rows EXCEPT ![t] = Deleted(rows[t])]
    /\ Forget(w)

Complete(w) ==
    /\ \E t \in Task :
          /\ Holds(w, t)
          /\ rows' = [rows EXCEPT ![t] = Deleted(rows[t])]
    /\ Forget(w)

\* (mutant) off by one: the last failed attempt is requeued too.
FailRequeuesTheLast(w) ==
    /\ \E t \in Task :
          /\ Holds(w, t)
          /\ rows' = [rows EXCEPT ![t] = IF rows[t].attempt_count > MaxAttempts
                                         THEN DeadLettered(rows[t])
                                         ELSE Requeued(rows[t])]
    /\ Forget(w)

Fail(w) ==
    /\ \E t \in Task :
          /\ Holds(w, t)
          /\ rows' = [rows EXCEPT ![t] = IF rows[t].attempt_count >= MaxAttempts
                                         THEN DeadLettered(rows[t])
                                         ELSE Requeued(rows[t])]
    /\ Forget(w)

FailTerminal(w) ==
    /\ \E t \in Task : Holds(w, t) /\ rows' = [rows EXCEPT ![t] = DeadLettered(rows[t])]
    /\ Forget(w)

\* The process dies, or run_once returns early on an audit or status error:
\* the row keeps the lease nobody remembers.
Abandon(w) ==
    /\ lease[w] # NoLease
    /\ Forget(w)
    /\ UNCHANGED rows

\* The part of delete_document that touches this table.
BuryTasksOf(d) ==
    rows' = [t \in Task |-> IF DocOf[t] = d /\ Live(t) THEN DeadLettered(rows[t]) ELSE rows[t]]

DeleteDocument(d) == BuryTasksOf(d) /\ UNCHANGED lease

BackoffElapses(t) ==
    /\ rows[t].status = "queued" /\ rows[t].timer = "running"
    /\ rows' = [rows EXCEPT ![t] = Timed(rows[t], "elapsed")]
    /\ UNCHANGED lease

LeaseExpires(t) ==
    /\ rows[t].status = "processing" /\ rows[t].timer = "running"
    /\ rows' = [rows EXCEPT ![t] = Timed(rows[t], "elapsed")]
    /\ UNCHANGED lease

WorkerStep(w) ==
    \/ Claim(w) \/ Renew(w) \/ Complete(w) \/ Fail(w) \/ FailTerminal(w)
    \/ LeaseLost(w) \/ Abandon(w)

QueueNext ==
    \/ \E t \in Task : Enqueue(t) \/ BackoffElapses(t) \/ LeaseExpires(t)
    \/ \E w \in Worker : WorkerStep(w)
    \/ \E d \in Doc : DeleteDocument(d)

QueueSpec == QueueInit /\ [][QueueNext]_queueVars

\* A run of a worker always ends: the task timeout bounds it, and a crash or
\* an early return ends it too.  Workers poll, backoffs and leases run out.
QueueFairness ==
    /\ \A w \in Worker :
          /\ WF_queueVars(Claim(w))
          /\ WF_queueVars(Complete(w) \/ Fail(w) \/ FailTerminal(w) \/ LeaseLost(w) \/ Abandon(w))
    /\ \A t \in Task : WF_queueVars(BackoffElapses(t)) /\ WF_queueVars(LeaseExpires(t))

FairQueueSpec == QueueSpec /\ QueueFairness

------------------------------------------------------------------------------
(* Properties                                                               *)

\* At any time at most one worker could complete, fail or renew a task, even
\* when the task was taken over from a worker that is still running it.
\* (The lock_token comparison of renew, complete, fail and fail_terminal.)
LeaseExclusive ==
    \A t \in Task, v, w \in Worker : Holds(v, t) /\ Holds(w, t) => v = w

\* What makes LeaseExclusive inductive: a claimed row's token is the number of
\* its claims, a remembered token is the number of some claim, and no two
\* workers remember the same claim.
TokenMatchesClaim ==
    \A t \in Task :
        /\ rows[t].status = "processing" => rows[t].lock_token = rows[t].attempt_count
                                           /\ rows[t].attempt_count # 0
        /\ rows[t].status # "processing" => rows[t].lock_token = NoToken
        /\ rows[t].status = "new" => rows[t].attempt_count = 0

LeaseRemembersClaim ==
    \A w \in Worker :
        \/ lease[w] = NoLease
        \/ lease[w].task \in Task /\ lease[w].token \in 1..rows[lease[w].task].attempt_count

ClaimsRememberedOnce ==
    \A v, w \in Worker : lease[v] = lease[w] => v = w \/ lease[v] = NoLease

LeaseInv == TypeOK /\ TokenMatchesClaim /\ LeaseRemembersClaim /\ ClaimsRememberedOnce

\* A worker whose task has been taken over leaves the row exactly as it is
\* when its run ends, however it ends: the new run's claim survives.
LateRunChangesNothing ==
    [][\A w \in Worker, t \in Task :
          /\ lease[w].task = t /\ lease'[w] = NoLease
          /\ rows[t].lock_token # lease[w].token
          => rows'[t] = rows[t]]_queueVars

\* Every row that was ever queued is in the end completed or dead-lettered,
\* although workers may die in any attempt, the last one included.
EveryTaskSettles ==
    \A t \in Task :
        rows[t].status = "queued" ~> rows[t].status \in {"dead_letter", "deleted"}

\* The table and the workers' memories implement the abstract leased queue.
phaseOf(t) ==
    CASE rows[t].status = "new" -> "none"
      [] rows[t].status = "queued" -> "ready"
      [] rows[t].status = "processing" -> "held"
      [] rows[t].status = "dead_letter" -> "dead"
      [] rows[t].status = "deleted" -> "done"

Abs == INSTANCE TaskLease WITH
          phase <- [t \in Task |-> phaseOf(t)],
          holders <- [t \in Task |-> {w \in Worker : Holds(w, t)}],
          grants <- [t \in Task |-> rows[t].attempt_count],
          Budget <- MaxAttempts

\* Every step of the queue submits, grants, loses, returns, finishes or buries
\* tasks as TaskLease allows: done only by the holder, never back from done or
\* dead, never granted beyond the budget, never handed back without budget.
ImplementsTaskLease == Abs!AbsSpec
==============================================================================
