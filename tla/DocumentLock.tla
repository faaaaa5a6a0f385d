----------------------------- MODULE DocumentLock -----------------------------
(***************************************************************************)
(* The lock a worker takes on a document before it processes one of its    *)
(* tasks: a Redis key set with NX and a TTL, or, when Redis answers with   *)
(* an error, a Postgres session advisory lock.                             *)
(*                                                                         *)
(* A slot is one call of process() on the document; once it is over the    *)
(* slot stands for a later call.  The Redis key holds no token, and it is  *)
(* deleted by a thread that the dropped guard leaves behind.               *)
(*                                                                         *)
(* Time is counted in ticks.  The timed future of process() is gone after  *)
(* Timeout ticks; DelDelay bounds how long the thread takes to reach       *)
(* Redis.  LockAssumption is the condition the comment on the default TTL  *)
(* states: a run and its release end before the key expires.               *)
(***************************************************************************)
EXTENDS Naturals

CONSTANTS
    Slot,          \* calls of process() that may be under way at once
    NoSlot,        \* the advisory lock is free
    IdleSession,   \* the advisory lock is left to a session that is back in the pool
    Ttl,           \* AVRAG_DOCUMENT_LOCK_TTL_SECS, in ticks
    Timeout,       \* AVRAG_INGESTION_TASK_TIMEOUT_SECS, in ticks
    DelDelay       \* the longest a release thread takes to reach Redis

ASSUME LockAssumption ==
    /\ NoSlot \notin Slot /\ IdleSession \notin Slot /\ NoSlot # IdleSession
    /\ Ttl \in Nat /\ Timeout \in Nat /\ DelDelay \in Nat
    /\ Timeout + DelDelay < Ttl

VARIABLES
    key_left,      \* ticks until doc:lock:{id} expires; 0: the key is not there
    advisory,      \* whose session has the advisory lock
    call,          \* call[s]: what the call of slot s is doing, and since when
    redis          \* whether some Redis command has returned an error so far

lockVars == <<key_left, advisory, call, redis>>

\* "dropped": the guard is gone, its DEL has not reached Redis yet.
Phase == {"idle", "redis", "advisory", "dropped"}

Call == [phase : Phase, age : 0..(Timeout + DelDelay)]

Idle == [phase |-> "idle", age |-> 0]

LockTypeOK ==
    /\ key_left \in 0..Ttl
    /\ advisory \in Slot \cup {NoSlot, IdleSession}
    /\ call \in [Slot -> Call]
    /\ redis \in {"answering", "has_failed"}

------------------------------------------------------------------------------
Processing(s) == call[s].phase \in {"redis", "advisory"}

Begin(s, phase) == call' = [call EXCEPT ![s] = [phase |-> phase, age |-> 0]]

LockInit ==
    /\ key_left = 0
    /\ advisory = NoSlot
    /\ call = [s \in Slot |-> Idle]
    /\ redis = "answering"

\* (mutant) SET without NX: whoever asks gets the lock.
AcquireAlways(s) ==
    /\ call[s].phase = "idle"
    /\ key_left' = Ttl
    /\ Begin(s, "redis")
    /\ UNCHANGED <<advisory, redis>>

\* try_acquire: SET key 1 NX EX ttl answers OK.  When the key is there the
\* call ends with DocumentLocked and its task is requeued.
Acquire(s) ==
    /\ call[s].phase = "idle"
    /\ key_left = 0 /\ key_left' = Ttl
    /\ Begin(s, "redis")
    /\ UNCHANGED <<advisory, redis>>

\* (mutant) the Redis error stands for the lock, a taken advisory lock is no
\* reason to stop.
FallBackAnyway(s) ==
    /\ call[s].phase = "idle"
    /\ redis' = "has_failed"
    /\ advisory' = s
    /\ Begin(s, "advisory")
    /\ UNCHANGED key_left

\* SET returns an error, whether Redis has executed it or not.  The call goes
\* on to pg_try_advisory_lock, and ends with DocumentLocked when that is taken;
\* the session it was left to gets it again.
FallBack(s) ==
    /\ call[s].phase = "idle"
    /\ redis' = "has_failed"
    /\ key_left' \in {key_left} \cup (IF key_left = 0 THEN {Ttl} ELSE {})
    /\ \/ /\ advisory \in {NoSlot, IdleSession} /\ advisory' = s
          /\ Begin(s, "advisory")
       \/ /\ advisory # NoSlot
          /\ UNCHANGED <<advisory, call>>

\* The timed future ends or is cancelled: the guard is dropped.  The advisory
\* lock is released at once, on its own connection, which returns to the pool
\* even when pg_advisory_unlock has failed, or has undone one of two locks; for
\* the Redis key a thread is left behind.
Release(s) ==
    /\ \/ /\ call[s].phase = "advisory"
          /\ advisory' \in {NoSlot, IdleSession}
          /\ call' = [call EXCEPT ![s] = Idle]
       \/ /\ call[s].phase = "redis"
          /\ call' = [call EXCEPT ![s] = [phase |-> "dropped", age |-> call[s].age]]
          /\ UNCHANGED advisory
    /\ UNCHANGED <<key_left, redis>>

\* The thread's DEL.  It deletes the key whoever has set it.
Delete(s) ==
    /\ call[s].phase = "dropped"
    /\ key_left' = 0
    /\ call' = [call EXCEPT ![s] = Idle]
    /\ UNCHANGED <<advisory, redis>>

\* The thread cannot connect, or its DEL returns an error.
LoseDelete(s) ==
    /\ call[s].phase = "dropped"
    /\ redis' = "has_failed"
    /\ call' = [call EXCEPT ![s] = Idle]
    /\ UNCHANGED <<key_left, advisory>>

\* The worker process dies; its Postgres session ends with it.
Die(s) ==
    /\ call[s].phase # "idle"
    /\ call' = [call EXCEPT ![s] = Idle]
    /\ advisory' = IF advisory = s THEN NoSlot ELSE advisory
    /\ UNCHANGED <<key_left, redis>>

\* The pool closes a connection that was idle or has lived for too long.
CloseSession ==
    /\ advisory = IdleSession /\ advisory' = NoSlot
    /\ UNCHANGED <<key_left, call, redis>>

\* (mutant) a key that is set without EX.
KeyLeftForever == key_left

\* (mutant) EX in milliseconds.
KeyGoneAtOnce == 0

KeyLeftAfterTick == IF key_left = 0 THEN 0 ELSE key_left - 1

\* Time passes, unless a timeout or a release is due.
Tick ==
    /\ \A s \in Slot :
        /\ Processing(s) => call[s].age < Timeout
        /\ call[s].phase = "dropped" => call[s].age < Timeout + DelDelay
    /\ key_left' = KeyLeftAfterTick
    /\ call' = [s \in Slot |->
                  IF call[s].phase = "idle" THEN call[s]
                  ELSE [phase |-> call[s].phase, age |-> call[s].age + 1]]
    /\ UNCHANGED <<advisory, redis>>

LockNext ==
    \/ Tick \/ CloseSession
    \/ \E s \in Slot :
        \/ Acquire(s) \/ FallBack(s) \/ Release(s)
        \/ Delete(s) \/ LoseDelete(s) \/ Die(s)

\* Time passes, futures time out, and threads end.  No connection outlives its
\* max_lifetime for being used again and again.
LockFairness ==
    /\ WF_lockVars(Tick) /\ SF_lockVars(CloseSession)
    /\ \A s \in Slot : WF_lockVars(Release(s)) /\ WF_lockVars(Delete(s))

LockSpec == LockInit /\ [][LockNext]_lockVars /\ LockFairness

------------------------------------------------------------------------------
(* Properties                                                               *)

\* Two calls of process() never have the same document: "Acquire a per-document
\* lock so two workers cannot process the same document concurrently ... so
\* the guarantee still holds without Redis" (processor.rs:359-362).
MutualExclusion ==
    \A s, u \in Slot : Processing(s) /\ Processing(u) => s = u

\* The guarantee does hold until a Redis command fails, although any call's DEL
\* deletes any call's key and the threads run after their calls.  After that a
\* Redis holder and an advisory holder may meet: the locks do not know of each
\* other.
ExclusiveUntilRedisFails == redis = "answering" => MutualExclusion

\* Each lock for itself excludes, Redis errors or not.
EachLockExcludes ==
    \A s, u \in Slot :
        Processing(s) /\ Processing(u) /\ call[s].phase = call[u].phase => s = u

\* No document stays locked: not by a dead worker, a lost DEL, an error whose SET
\* was executed or an unlock that failed.  Again and again both locks can be taken.
LockComesFree == []<>(key_left = 0) /\ []<>(advisory = NoSlot)

------------------------------------------------------------------------------
(* Why: at most one call processes under the Redis lock or has its DEL      *)
(* under way, and the key it set is there until that DEL.                   *)

Engaged(s) == call[s].phase \in {"redis", "dropped"}

OneEngaged == \A s, u \in Slot : Engaged(s) /\ Engaged(u) => s = u

\* A key is as old as the call that set it.
KeyOutlivesCall == \A s \in Slot : Engaged(s) => key_left + call[s].age = Ttl

AdvisoryIsHeld == \A s \in Slot : call[s].phase = "advisory" <=> advisory = s

LockInv ==
    /\ LockTypeOK
    /\ OneEngaged /\ KeyOutlivesCall /\ AdvisoryIsHeld
    /\ redis = "answering" => advisory = NoSlot
===============================================================================
