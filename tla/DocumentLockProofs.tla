-------------------------- MODULE DocumentLockProofs --------------------------
(***************************************************************************)
(* Proofs about DocumentLock, for any number of calls and any Ttl, Timeout *)
(* and DelDelay with Timeout + DelDelay < Ttl.                             *)
(***************************************************************************)
EXTENDS DocumentLock, TLAPS

LEMMA InitEstablishesLockInv == LockInit => LockInv
  <1> SUFFICES ASSUME LockInit PROVE LockInv
    OBVIOUS
  <1>1. Idle \in Call
    BY LockAssumption DEF Idle, Call, Phase
  <1>2. LockTypeOK
    BY <1>1, LockAssumption DEF LockInit, LockTypeOK
  <1>3. \A s \in Slot : call[s].phase = "idle"
    BY DEF LockInit, Idle
  <1> QED BY <1>2, <1>3, LockAssumption
          DEF LockInit, LockInv, OneEngaged, KeyOutlivesCall, AdvisoryIsHeld, Engaged

\* An engaged call has its key: it has not been there for Ttl ticks yet.
LEMMA EngagedHasKey ==
  ASSUME LockInv, NEW s \in Slot, Engaged(s)
  PROVE  key_left > 0
  BY LockAssumption DEF LockInv, LockTypeOK, KeyOutlivesCall, Call

LEMMA NextKeepsLockInv == LockInv /\ [LockNext]_lockVars => LockInv'
  <1> SUFFICES ASSUME LockInv, [LockNext]_lockVars PROVE LockInv'
    OBVIOUS
  <1> USE LockAssumption DEF LockTypeOK, Call, Phase, Idle, Engaged
  <1>t. /\ key_left \in 0..Ttl /\ advisory \in Slot \cup {NoSlot, IdleSession}
        /\ call \in [Slot -> Call] /\ redis \in {"answering", "has_failed"}
        /\ OneEngaged /\ KeyOutlivesCall /\ AdvisoryIsHeld
        /\ redis = "answering" => advisory = NoSlot
    BY DEF LockInv
  <1>1. CASE Tick
    <2>1. \A s \in Slot : /\ call'[s].phase = call[s].phase
                          /\ call'[s].age = IF call[s].phase = "idle" THEN call[s].age
                                            ELSE call[s].age + 1
      BY <1>t, <1>1 DEF Tick
    <2>2. \A s \in Slot : call'[s] \in Call
      BY <1>t, <1>1 DEF Tick, Processing
    <2>3. LockTypeOK'
      BY <1>t, <1>1, <2>2 DEF Tick, KeyLeftAfterTick
    <2>4. OneEngaged' /\ AdvisoryIsHeld'
      BY <1>t, <1>1, <2>1 DEF Tick, OneEngaged, AdvisoryIsHeld
    <2>5. KeyOutlivesCall'
      <3> SUFFICES ASSUME NEW s \in Slot, Engaged(s) PROVE key_left' + call'[s].age = Ttl
        BY <2>1 DEF KeyOutlivesCall
      <3>1. key_left > 0
        BY EngagedHasKey
      <3> QED BY <1>t, <1>1, <2>1, <3>1 DEF Tick, KeyLeftAfterTick, KeyOutlivesCall
    <2> QED BY <1>t, <1>1, <2>3, <2>4, <2>5 DEF Tick, LockInv
  <1>2. ASSUME NEW s \in Slot, Acquire(s) PROVE LockInv'
    <2>1. \A u \in Slot : ~Engaged(u)
      BY <1>2, EngagedHasKey DEF Acquire
    <2> QED BY <1>t, <1>2, <2>1
            DEF Acquire, Begin, LockInv, OneEngaged, KeyOutlivesCall, AdvisoryIsHeld
  <1>3. ASSUME NEW s \in Slot, FallBack(s) PROVE LockInv'
    <2>1. \A u \in Slot : Engaged(u) => key_left' = key_left
      BY <1>3, EngagedHasKey DEF FallBack
    <2>2. CASE Begin(s, "advisory") /\ advisory' = s /\ advisory \in {NoSlot, IdleSession}
      <3>1. \A u \in Slot : call'[u] = IF u = s THEN [phase |-> "advisory", age |-> 0] ELSE call[u]
        BY <1>t, <2>2 DEF Begin
      <3>2. LockTypeOK' /\ redis' = "has_failed"
        BY <1>t, <1>3, <2>2 DEF FallBack, Begin
      <3>3. \A u \in Slot : Engaged(u)' => Engaged(u) /\ call'[u].age = call[u].age
        BY <3>1
      <3>4. OneEngaged' /\ KeyOutlivesCall'
        BY <1>t, <2>1, <3>3 DEF OneEngaged, KeyOutlivesCall
      <3>5. AdvisoryIsHeld'
        BY <1>t, <2>2, <3>1 DEF AdvisoryIsHeld
      <3> QED BY <3>2, <3>4, <3>5 DEF LockInv
    <2>3. CASE UNCHANGED <<advisory, call>>
      BY <1>t, <1>3, <2>1, <2>3
      DEF FallBack, LockInv, OneEngaged, KeyOutlivesCall, AdvisoryIsHeld
    <2> QED BY <1>3, <2>2, <2>3 DEF FallBack
  <1>4. ASSUME NEW s \in Slot, Release(s) PROVE LockInv'
    BY <1>t, <1>4 DEF Release, LockInv, OneEngaged, KeyOutlivesCall, AdvisoryIsHeld
  <1>5. ASSUME NEW s \in Slot, Delete(s) PROVE LockInv'
    BY <1>t, <1>5 DEF Delete, LockInv, OneEngaged, KeyOutlivesCall, AdvisoryIsHeld
  <1>6. ASSUME NEW s \in Slot, LoseDelete(s) PROVE LockInv'
    BY <1>t, <1>6 DEF LoseDelete, LockInv, OneEngaged, KeyOutlivesCall, AdvisoryIsHeld
  <1>7. ASSUME NEW s \in Slot, Die(s) PROVE LockInv'
    BY <1>t, <1>7 DEF Die, LockInv, OneEngaged, KeyOutlivesCall, AdvisoryIsHeld
  <1>9. CASE CloseSession
    BY <1>t, <1>9 DEF CloseSession, LockInv, OneEngaged, KeyOutlivesCall, AdvisoryIsHeld
  <1>8. CASE UNCHANGED lockVars
    BY <1>t, <1>8 DEF lockVars, LockInv, OneEngaged, KeyOutlivesCall, AdvisoryIsHeld
  <1> QED BY <1>1, <1>2, <1>3, <1>4, <1>5, <1>6, <1>7, <1>8, <1>9 DEF LockNext

\* A key is there as long as the call that set it is engaged, so no second call
\* can set it and no stray DEL can meet another call's key.
THEOREM LockInvariant == LockSpec => []LockInv
  <1> QED BY InitEstablishesLockInv, NextKeepsLockInv, PTL DEF LockSpec

\* The Redis lock excludes and the advisory lock excludes, whatever fails.
THEOREM EachLockIsExclusive == LockSpec => []EachLockExcludes
  <1>1. LockInv => EachLockExcludes
    BY LockAssumption DEF LockInv, OneEngaged, Engaged, AdvisoryIsHeld, EachLockExcludes, Processing
  <1> QED BY <1>1, LockInvariant, PTL

\* Until a Redis command fails, no two calls process the document.
THEOREM ExclusiveWhileRedisAnswers == LockSpec => []ExclusiveUntilRedisFails
  <1>1. LockInv => ExclusiveUntilRedisFails
    BY LockAssumption DEF LockInv, OneEngaged, Engaged, AdvisoryIsHeld, ExclusiveUntilRedisFails,
                          MutualExclusion, Processing
  <1> QED BY <1>1, LockInvariant, PTL
===============================================================================
