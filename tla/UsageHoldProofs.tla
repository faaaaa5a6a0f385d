--------------------------- MODULE UsageHoldProofs ---------------------------
(***************************************************************************)
(* Proofs about UsageHold, for any set of users, turns, calls and workers. *)
(***************************************************************************)
EXTENDS UsageHold, WalletStoreProofs

LEMMA InitEstablishesHoldInv == UsageInit => HoldInv
  <1> SUFFICES ASSUME UsageInit PROVE HoldInv
    OBVIOUS
  <1>1. StoreInv
    BY InitEstablishesStoreInv DEF UsageInit
  <1>2. ledger = {} /\ \A p \in Proc : tx[p] = NoTx
    BY DEF UsageInit, StoreInit
  <1>3. UsageTypeOK
    BY <1>1 DEF UsageInit, UsageTypeOK, Stage
  <1>4. ReleasesAreDue
    BY <1>2 DEF ReleasesAreDue, Idle, NoTx
  <1>5. HoldsAreKnown
    BY <1>2, UsageAssumption DEF UsageInit, HoldsAreKnown, NoTx
  <1> QED BY <1>3, <1>4, <1>5 DEF HoldInv

------------------------------------------------------------------------------
(* What the steps of a call do to the ledger and to the other calls.        *)

LEMMA LookUpEffect ==
  ASSUME HoldInv, NEW p \in Proc, NEW k \in Key, LookUp(p, k)
  PROVE  /\ StoreInv' /\ ledger' = ledger
         /\ tx'[p].key = k /\ tx'[p].step # "applied"
         /\ \A q \in Proc : q # p => tx'[q] = tx[q]
  <1>1. StoreInv'
    BY LookUpKeepsStoreInv DEF HoldInv, UsageTypeOK
  <1> QED BY <1>1 DEF LookUp, Becomes, HoldInv, UsageTypeOK, StoreInv, StoreTypeOK

LEMMA LeaveEffect ==
  ASSUME HoldInv, NEW p \in Proc, Leave(p)
  PROVE  /\ StoreInv' /\ ledger' = ledger
         /\ tx'[p].step = "idle"
         /\ \A q \in Proc : q # p => tx'[q] = tx[q]
  <1>1. StoreInv'
    BY LeaveKeepsStoreInv DEF HoldInv, UsageTypeOK
  <1> QED BY <1>1 DEF Leave, Becomes, HoldInv, UsageTypeOK, StoreInv, StoreTypeOK

LEMMA StoreStepEffect ==
  ASSUME HoldInv, NEW p \in Proc, StoreStep(p)
  PROVE  /\ StoreInv' /\ ledger \subseteq ledger' /\ ledger' \subseteq ledger \cup {tx[p].key}
         /\ ~Idle(p) /\ tx'[p].key = tx[p].key
         /\ tx'[p].step = "applied" => tx[p].key \in ledger'
         /\ \A q \in Proc : q # p => tx'[q] = tx[q]
  <1>1. StoreInv'
    BY StoreStepKeepsStoreInv DEF HoldInv, UsageTypeOK
  <1>2. tx \in [Proc -> Tx] /\ tx' \in [Proc -> Tx]
    BY <1>1 DEF HoldInv, UsageTypeOK, StoreInv, StoreTypeOK
  <1>3. CASE LockWallet(p)
    BY <1>1, <1>2, <1>3 DEF LockWallet, Becomes, Idle
  <1>4. CASE Commit(p)
    BY <1>1, <1>2, <1>4 DEF Commit, Write, Becomes, Idle
  <1>5. CASE LoseReply(p)
    BY <1>1, <1>2, <1>5 DEF LoseReply, Write, Becomes, Idle
  <1>6. CASE FailCall(p)
    BY <1>1, <1>2, <1>6 DEF FailCall, InCall, Becomes, Idle
  <1> QED BY <1>3, <1>4, <1>5, <1>6 DEF StoreStep

\* A dying turn rolls back what is under way and changes no row.
LEMMA DieEffect ==
  ASSUME HoldInv, NEW t \in Turn, Die(t)
  PROVE  /\ StoreInv' /\ ledger' = ledger
         /\ \A p \in Proc : tx'[p].step # "idle" =>
              tx[p].step # "idle" /\ tx'[p].key = tx[p].key
         /\ \A p \in Proc : tx'[p].step = "applied" => tx'[p] = tx[p]
         /\ \A p \in Turn : p # t => tx'[p] = tx[p]
  <1>1. /\ tx \in [Proc -> Tx] /\ \A p \in Proc : tx[p].step # "idle" => tx[p].key \in Key
        /\ Turn \subseteq Proc
    BY UsageAssumption DEF HoldInv, UsageTypeOK, StoreInv, StoreTypeOK
  <1>2. ASSUME NEW p \in Proc
        PROVE  \/ tx'[p] = NoTx
               \/ tx'[p] = [step |-> "error", key |-> tx[p].key, seen |-> 0] /\ InCall(p)
               \/ tx'[p] = tx[p]
    BY DEF Die
  <1>3. ASSUME NEW p \in Turn, p # t PROVE tx'[p] = tx[p]
    BY <1>1, <1>3, UsageAssumption DEF Die
  <1>4. ASSUME NEW p \in Proc
        PROVE  tx'[p] \in Tx /\ (tx'[p].step # "idle" => tx'[p].key \in Key)
    <2>1. CASE tx'[p] = NoTx
      BY <2>1 DEF Tx, NoTx
    <2>2. CASE tx'[p] = [step |-> "error", key |-> tx[p].key, seen |-> 0] /\ InCall(p)
      <3>1. tx[p].key \in Key
        BY <1>1, <2>2 DEF InCall
      <3> QED BY <2>2, <3>1 DEF Tx, Result
    <2>3. CASE tx'[p] = tx[p]
      BY <1>1, <2>3
    <2> QED BY <1>2, <2>1, <2>2, <2>3
  <1>5. ASSUME NEW p \in Proc, tx'[p].step = "locked"
        PROVE  tx'[p] = tx[p]
    <2>1. tx'[p] # NoTx
      BY <1>5 DEF NoTx
    <2>2. tx'[p] # [step |-> "error", key |-> tx[p].key, seen |-> 0]
      BY <1>5
    <2> QED BY <1>2, <2>1, <2>2
  <1>6. tx' \in [Proc -> Tx]
    BY <1>4 DEF Die
  <1>7. StoreInv'
    <2>1. StoreTypeOK'
      BY <1>4, <1>6 DEF Die, HoldInv, UsageTypeOK, StoreInv, StoreTypeOK
    <2>2. LockedSeesBalance'
      <3> SUFFICES ASSUME NEW p \in Proc, tx'[p].step = "locked"
                   PROVE  /\ tx'[p].seen = balance'[OwnerOf[tx'[p].key]]
                          /\ \A q \in Proc : Locks(q, OwnerOf[tx[p].key])' => q = p
        BY <1>5 DEF LockedSeesBalance, Locks
      <3>1. tx'[p] = tx[p] /\ balance' = balance
        BY <1>5 DEF Die
      <3>2. \A q \in Proc : Locks(q, OwnerOf[tx[p].key])' => Locks(q, OwnerOf[tx[p].key])
        BY <1>5 DEF Locks
      <3> QED BY <3>1, <3>2 DEF HoldInv, UsageTypeOK, StoreInv, LockedSeesBalance
    <2> QED BY <2>1, <2>2 DEF StoreInv
  <1> QED BY <1>2, <1>3, <1>7 DEF Die, NoTx, InCall

------------------------------------------------------------------------------
(* A turn that is through stays so, and a hold that is old stays old.       *)

TurnsGoOn ==
  /\ ledger \subseteq ledger' /\ old \subseteq old'
  /\ \A t \in Turn : stage[t] \in {"releasing", "over"} => stage'[t] \in {"releasing", "over"}

LEMMA ReleasableStays ==
  ASSUME TurnsGoOn, NEW t \in HoldTurn, Releasable(t)
  PROVE  Releasable(t)'
  BY UsageAssumption DEF TurnsGoOn, Releasable

\* Nothing new is asked to be released, and nothing new is released.
LEMMA KeepsReleasesAreDue ==
  ASSUME HoldInv, TurnsGoOn,
         \A t \in HoldTurn : ReleaseKey[t] \in ledger' =>
            ReleaseKey[t] \in ledger \/ \E p \in Proc : ~Idle(p) /\ tx[p].key = ReleaseKey[t],
         \A t \in HoldTurn, p \in Proc : ~Idle(p)' /\ tx'[p].key = ReleaseKey[t] =>
            (~Idle(p) /\ tx[p].key = ReleaseKey[t]) \/ Releasable(t)'
  PROVE  ReleasesAreDue'
  BY ReleasableStays DEF HoldInv, ReleasesAreDue

\* Looking up a key that releases nothing, or what is due.
LEMMA LookUpKeepsReleasesAreDue ==
  ASSUME HoldInv, TurnsGoOn, NEW p \in Proc, NEW k \in Key, LookUp(p, k),
         \A t \in HoldTurn : ReleaseKey[t] = k => Releasable(t)'
  PROVE  ReleasesAreDue'
  BY LookUpEffect, KeepsReleasesAreDue DEF Idle

LEMMA LeaveKeepsReleasesAreDue ==
  ASSUME HoldInv, TurnsGoOn, NEW p \in Proc, Leave(p)
  PROVE  ReleasesAreDue'
  BY LeaveEffect, KeepsReleasesAreDue DEF Idle

LEMMA EntersEffect ==
  ASSUME HoldInv, NEW t \in Turn, NEW s \in Stage, Enters(t, s)
  PROVE  /\ stage' \in [Turn -> Stage] /\ stage'[t] = s
         /\ \A u \in Turn : u # t => stage'[u] = stage[u]
  BY DEF Enters, HoldInv, UsageTypeOK

------------------------------------------------------------------------------
(* One lemma per action of a turn.                                          *)

LEMMA BeginTurnKeepsHoldInv ==
  ASSUME HoldInv, NEW t \in Turn, BeginTurn(t)
  PROVE  HoldInv'
  <1> DEFINE k == GrantKey[PayerOf[t]]
  <1>1. t \in Proc /\ k \in Key /\ \A s \in HoldTurn : s \in Turn /\ ReleaseKey[s] # k
    BY UsageAssumption
  <1>2. /\ stage' \in [Turn -> Stage] /\ stage[t] = "idle" /\ stage'[t] = "checking"
        /\ \A u \in Turn : u # t => stage'[u] = stage[u]
    BY EntersEffect DEF BeginTurn, Stage
  <1>3. LookUp(t, k) /\ UNCHANGED <<old, stale>>
    BY DEF BeginTurn
  <1>4. /\ StoreInv' /\ ledger' = ledger /\ tx'[t].step # "applied"
        /\ \A q \in Proc : q # t => tx'[q] = tx[q]
    BY <1>1, <1>3, LookUpEffect
  <1>5. UsageTypeOK'
    BY <1>2, <1>3, <1>4 DEF HoldInv, UsageTypeOK
  <1>6. TurnsGoOn
    BY <1>2, <1>3, <1>4 DEF TurnsGoOn
  <1>7. ReleasesAreDue'
    BY <1>1, <1>3, <1>6, LookUpKeepsReleasesAreDue
  <1>8. HoldsAreKnown'
    BY <1>1, <1>2, <1>3, <1>4, UsageAssumption DEF HoldInv, HoldsAreKnown
  <1> QED BY <1>5, <1>7, <1>8 DEF HoldInv

LEMMA CheckBalanceKeepsHoldInv ==
  ASSUME HoldInv, NEW t \in Turn, CheckBalance(t)
  PROVE  HoldInv'
  <1>1. t \in Proc /\ \A s \in HoldTurn : s \in Turn /\ s \in Proc
    BY UsageAssumption
  <1>2. PICK s \in {"over", "cleared", "running"} :
          Enters(t, s) /\ (s = "running" => t \notin HoldTurn)
    BY DEF CheckBalance
  <1>3. /\ stage' \in [Turn -> Stage] /\ stage[t] = "checking" /\ stage'[t] = s
        /\ \A u \in Turn : u # t => stage'[u] = stage[u]
    BY <1>2, EntersEffect DEF CheckBalance, Stage
  <1>4. Leave(t) /\ UNCHANGED <<old, stale>>
    BY DEF CheckBalance
  <1>5. /\ StoreInv' /\ ledger' = ledger /\ tx'[t].step = "idle"
        /\ \A q \in Proc : q # t => tx'[q] = tx[q]
    BY <1>1, <1>4, LeaveEffect
  <1>6. UsageTypeOK'
    BY <1>3, <1>4, <1>5 DEF HoldInv, UsageTypeOK
  <1>7. TurnsGoOn
    BY <1>3, <1>4, <1>5 DEF TurnsGoOn
  <1>8. ReleasesAreDue'
    BY <1>1, <1>4, <1>7, LeaveKeepsReleasesAreDue
  <1>9. HoldsAreKnown'
    BY <1>1, <1>2, <1>3, <1>4, <1>5 DEF HoldInv, HoldsAreKnown
  <1> QED BY <1>6, <1>8, <1>9 DEF HoldInv

LEMMA EndWithoutHoldKeepsHoldInv ==
  ASSUME HoldInv, NEW t \in Turn, EndWithoutHold(t)
  PROVE  HoldInv'
  <1>1. /\ stage' \in [Turn -> Stage] /\ stage'[t] = "over"
        /\ \A u \in Turn : u # t => stage'[u] = stage[u]
    BY EntersEffect DEF EndWithoutHold, Stage
  <1>2. UNCHANGED <<ledger, balance, paid, tx, old, stale>>
    BY DEF EndWithoutHold, storeVars
  <1>3. UsageTypeOK'
    BY <1>1, <1>2
       DEF HoldInv, UsageTypeOK, StoreInv, StoreTypeOK, LockedSeesBalance, Locks
  <1>4. TurnsGoOn
    BY <1>1, <1>2 DEF TurnsGoOn
  <1>5. ReleasesAreDue'
    BY <1>2, <1>4, KeepsReleasesAreDue DEF Idle
  <1>6. HoldsAreKnown'
    BY <1>1, <1>2, UsageAssumption DEF HoldInv, HoldsAreKnown
  <1> QED BY <1>3, <1>5, <1>6 DEF HoldInv

LEMMA PlaceHoldKeepsHoldInv ==
  ASSUME HoldInv, NEW t \in HoldTurn, PlaceHold(t)
  PROVE  HoldInv'
  <1> DEFINE k == HoldKey[t]
  <1>1. /\ t \in Turn /\ t \in Proc /\ k \in Key
        /\ \A s \in HoldTurn : s \in Turn /\ s \in Proc /\ ReleaseKey[s] # k
    BY UsageAssumption
  <1>2. /\ stage' \in [Turn -> Stage] /\ stage[t] = "cleared" /\ stage'[t] = "holding"
        /\ \A u \in Turn : u # t => stage'[u] = stage[u]
    BY <1>1, EntersEffect DEF PlaceHold, Stage
  <1>3. LookUp(t, k) /\ UNCHANGED <<old, stale>>
    BY DEF PlaceHold
  <1>4. /\ StoreInv' /\ ledger' = ledger /\ tx'[t].key = k /\ tx'[t].step # "applied"
        /\ \A q \in Proc : q # t => tx'[q] = tx[q]
    BY <1>1, <1>3, LookUpEffect
  <1>5. UsageTypeOK'
    BY <1>2, <1>3, <1>4 DEF HoldInv, UsageTypeOK
  <1>6. TurnsGoOn
    BY <1>2, <1>3, <1>4 DEF TurnsGoOn
  <1>7. ReleasesAreDue'
    BY <1>1, <1>3, <1>6, LookUpKeepsReleasesAreDue
  <1>8. HoldsAreKnown'
    BY <1>1, <1>2, <1>3, <1>4 DEF HoldInv, HoldsAreKnown
  <1> QED BY <1>5, <1>7, <1>8 DEF HoldInv

\* A turn runs only when its own hold was applied.
LEMMA HoldAnsweredKeepsHoldInv ==
  ASSUME HoldInv, NEW t \in HoldTurn, HoldAnswered(t)
  PROVE  HoldInv'
  <1>1. /\ t \in Turn /\ t \in Proc
        /\ \A s \in HoldTurn : s \in Turn /\ s \in Proc
    BY UsageAssumption
  <1>2. PICK s \in {"over", "running"} :
          Enters(t, s) /\ (s = "running" => tx[t].step = "applied")
    BY DEF HoldAnswered
  <1>3. /\ stage' \in [Turn -> Stage] /\ stage[t] = "holding" /\ stage'[t] = s
        /\ \A u \in Turn : u # t => stage'[u] = stage[u]
    BY <1>1, <1>2, EntersEffect DEF HoldAnswered, Stage
  <1>4. Leave(t) /\ UNCHANGED <<old, stale>>
    BY DEF HoldAnswered
  <1>5. /\ StoreInv' /\ ledger' = ledger /\ tx'[t].step = "idle"
        /\ \A q \in Proc : q # t => tx'[q] = tx[q]
    BY <1>1, <1>4, LeaveEffect
  <1>6. s = "running" => HoldKey[t] \in ledger
    BY <1>1, <1>2, <1>3 DEF HoldInv, HoldsAreKnown
  <1>7. UsageTypeOK'
    BY <1>3, <1>4, <1>5 DEF HoldInv, UsageTypeOK
  <1>8. TurnsGoOn
    BY <1>3, <1>4, <1>5 DEF TurnsGoOn
  <1>9. ReleasesAreDue'
    BY <1>1, <1>4, <1>8, LeaveKeepsReleasesAreDue
  <1>10. HoldsAreKnown'
    BY <1>1, <1>2, <1>3, <1>4, <1>5, <1>6 DEF HoldInv, HoldsAreKnown
  <1> QED BY <1>7, <1>9, <1>10 DEF HoldInv

LEMMA EndTurnKeepsHoldInv ==
  ASSUME HoldInv, NEW t \in Turn, EndTurn(t)
  PROVE  HoldInv'
  <1>1. CASE t \in HoldTurn
    <2> DEFINE k == ReleaseKey[t]
    <2>1. /\ t \in Proc /\ k \in Key
          /\ \A s \in HoldTurn : s \in Turn /\ s \in Proc /\ (ReleaseKey[s] = k => s = t)
      BY <1>1, UsageAssumption
    <2>2. /\ stage' \in [Turn -> Stage] /\ stage[t] = "running" /\ stage'[t] = "releasing"
          /\ \A u \in Turn : u # t => stage'[u] = stage[u]
      BY <1>1, EntersEffect DEF EndTurn, Stage
    <2>3. LookUp(t, k) /\ UNCHANGED <<old, stale>>
      BY <1>1 DEF EndTurn
    <2>4. /\ StoreInv' /\ ledger' = ledger /\ tx'[t].step # "applied"
          /\ \A q \in Proc : q # t => tx'[q] = tx[q]
      BY <2>1, <2>3, LookUpEffect
    <2>5. HoldKey[t] \in ledger
      BY <1>1, <2>2 DEF HoldInv, HoldsAreKnown
    <2>6. UsageTypeOK'
      BY <2>2, <2>3, <2>4 DEF HoldInv, UsageTypeOK
    <2>7. TurnsGoOn
      BY <2>2, <2>3, <2>4 DEF TurnsGoOn
    <2>8. Releasable(t)'
      BY <2>2, <2>4, <2>5 DEF Releasable
    <2>9. ReleasesAreDue'
      BY <2>1, <2>3, <2>7, <2>8, LookUpKeepsReleasesAreDue
    <2>10. HoldsAreKnown'
      BY <2>1, <2>2, <2>3, <2>4, <2>5 DEF HoldInv, HoldsAreKnown
    <2> QED BY <2>6, <2>9, <2>10 DEF HoldInv
  <1>2. CASE t \notin HoldTurn
    <2>1. /\ stage' \in [Turn -> Stage] /\ stage'[t] = "over"
          /\ \A u \in Turn : u # t => stage'[u] = stage[u]
      BY <1>2, EntersEffect DEF EndTurn, Stage
    <2>2. UNCHANGED <<ledger, balance, paid, tx, old, stale>>
      BY <1>2 DEF EndTurn, storeVars
    <2>3. UsageTypeOK'
      BY <2>1, <2>2
         DEF HoldInv, UsageTypeOK, StoreInv, StoreTypeOK, LockedSeesBalance, Locks
    <2>4. TurnsGoOn
      BY <2>1, <2>2 DEF TurnsGoOn
    <2>5. ReleasesAreDue'
      BY <2>2, <2>4, KeepsReleasesAreDue DEF Idle
    <2>6. HoldsAreKnown'
      BY <1>2, <2>1, <2>2, UsageAssumption DEF HoldInv, HoldsAreKnown
    <2> QED BY <2>3, <2>5, <2>6 DEF HoldInv
  <1> QED BY <1>1, <1>2

LEMMA ReleaseAnsweredKeepsHoldInv ==
  ASSUME HoldInv, NEW t \in HoldTurn, ReleaseAnswered(t)
  PROVE  HoldInv'
  <1>1. /\ t \in Turn /\ t \in Proc
        /\ \A s \in HoldTurn : s \in Turn /\ s \in Proc
    BY UsageAssumption
  <1>2. /\ stage' \in [Turn -> Stage] /\ stage[t] = "releasing" /\ stage'[t] = "over"
        /\ \A u \in Turn : u # t => stage'[u] = stage[u]
    BY <1>1, EntersEffect DEF ReleaseAnswered, Stage
  <1>3. Leave(t) /\ UNCHANGED <<old, stale>>
    BY DEF ReleaseAnswered
  <1>4. /\ StoreInv' /\ ledger' = ledger /\ tx'[t].step = "idle"
        /\ \A q \in Proc : q # t => tx'[q] = tx[q]
    BY <1>1, <1>3, LeaveEffect
  <1>5. UsageTypeOK'
    BY <1>2, <1>3, <1>4 DEF HoldInv, UsageTypeOK
  <1>6. TurnsGoOn
    BY <1>2, <1>3, <1>4 DEF TurnsGoOn
  <1>7. ReleasesAreDue'
    BY <1>1, <1>3, <1>6, LeaveKeepsReleasesAreDue
  <1>8. HoldsAreKnown'
    BY <1>1, <1>2, <1>3, <1>4 DEF HoldInv, HoldsAreKnown
  <1> QED BY <1>5, <1>7, <1>8 DEF HoldInv

LEMMA DieKeepsHoldInv ==
  ASSUME HoldInv, NEW t \in Turn, Die(t)
  PROVE  HoldInv'
  <1>1. /\ stage' \in [Turn -> Stage] /\ stage'[t] = "over"
        /\ \A u \in Turn : u # t => stage'[u] = stage[u]
    BY EntersEffect DEF Die, Stage
  <1>2. UNCHANGED <<old, stale>>
    BY DEF Die
  <1>3. UsageTypeOK'
    BY <1>1, <1>2, DieEffect DEF HoldInv, UsageTypeOK
  <1>4. TurnsGoOn
    BY <1>1, <1>2, DieEffect DEF TurnsGoOn
  <1>5. ReleasesAreDue'
    BY <1>4, DieEffect, KeepsReleasesAreDue DEF Idle
  <1>6. HoldsAreKnown'
    BY <1>1, <1>2, DieEffect, UsageAssumption DEF HoldInv, HoldsAreKnown
  <1> QED BY <1>3, <1>5, <1>6 DEF HoldInv

LEMMA AgeKeepsHoldInv ==
  ASSUME HoldInv, NEW t \in HoldTurn, Age(t)
  PROVE  HoldInv'
  <1>1. /\ UNCHANGED <<ledger, balance, paid, tx, stage, stale>>
        /\ old' = old \cup {t} /\ HoldKey[t] \in ledger
    BY DEF Age, storeVars
  <1>2. UsageTypeOK'
    BY <1>1 DEF HoldInv, UsageTypeOK, StoreInv, StoreTypeOK, LockedSeesBalance, Locks
  <1>3. TurnsGoOn
    BY <1>1 DEF TurnsGoOn
  <1>4. ReleasesAreDue'
    BY <1>1, <1>3, KeepsReleasesAreDue DEF Idle
  <1>5. HoldsAreKnown'
    BY <1>1 DEF HoldInv, HoldsAreKnown
  <1> QED BY <1>2, <1>4, <1>5 DEF HoldInv

------------------------------------------------------------------------------
(* The steps of model calls, of the job, and of the calls of the store.     *)

LEMMA DebitCallKeepsHoldInv ==
  ASSUME HoldInv, NEW c \in Call, DebitCall(c)
  PROVE  HoldInv'
  <1> DEFINE k == DebitKey[c]
  <1>1. /\ c \in Proc /\ k \in Key
        /\ \A s \in HoldTurn : s # c /\ s \in Proc /\ ReleaseKey[s] # k
    BY UsageAssumption
  <1>2. LookUp(c, k) /\ UNCHANGED <<stage, old, stale>>
    BY DEF DebitCall, usageVars
  <1>3. /\ StoreInv' /\ ledger' = ledger /\ tx'[c].step # "applied"
        /\ \A q \in Proc : q # c => tx'[q] = tx[q]
    BY <1>1, <1>2, LookUpEffect
  <1>4. UsageTypeOK'
    BY <1>2, <1>3 DEF HoldInv, UsageTypeOK
  <1>5. TurnsGoOn
    BY <1>2, <1>3 DEF TurnsGoOn
  <1>6. ReleasesAreDue'
    BY <1>1, <1>2, <1>5, LookUpKeepsReleasesAreDue
  <1>7. HoldsAreKnown'
    BY <1>1, <1>2, <1>3 DEF HoldInv, HoldsAreKnown
  <1> QED BY <1>4, <1>6, <1>7 DEF HoldInv

LEMMA ReaperStepKeepsHoldInv ==
  ASSUME HoldInv, NEW r \in Reaper, ReaperStep(r)
  PROVE  HoldInv'
  <1>1. r \in Proc /\ \A s \in HoldTurn : s # r /\ s \in Proc /\ ReleaseKey[s] \in Key
    BY UsageAssumption
  <1>2. UNCHANGED <<stage, old>>
    BY DEF ReaperStep, ListStale, DieReaper, ReleaseStale, StaleAnswered, usageVars
  <1>3. CASE ListStale(r)
    <2>1. UNCHANGED <<ledger, balance, paid, tx>> /\ stale' = [stale EXCEPT ![r] = Stale]
      BY <1>3 DEF ListStale, storeVars
    <2>2. UsageTypeOK'
      BY <1>2, <2>1
         DEF HoldInv, UsageTypeOK, StoreInv, StoreTypeOK, LockedSeesBalance, Locks, Stale
    <2>3. TurnsGoOn
      BY <1>2, <2>1 DEF TurnsGoOn
    <2>4. ReleasesAreDue'
      BY <2>1, <2>3, KeepsReleasesAreDue DEF Idle
    <2>5. HoldsAreKnown'
      BY <1>2, <2>1 DEF HoldInv, UsageTypeOK, HoldsAreKnown, Stale
    <2> QED BY <2>2, <2>4, <2>5 DEF HoldInv
  <1>4. ASSUME NEW t \in HoldTurn, ReleaseStale(r, t)
        PROVE  HoldInv'
    <2>1. LookUp(r, ReleaseKey[t]) /\ UNCHANGED stale /\ t \in stale[r]
      BY <1>4 DEF ReleaseStale, usageVars
    <2>2. /\ StoreInv' /\ ledger' = ledger /\ tx'[r].step # "applied"
          /\ \A q \in Proc : q # r => tx'[q] = tx[q]
      BY <1>1, <2>1, LookUpEffect
    <2>3. UsageTypeOK'
      BY <1>2, <2>1, <2>2 DEF HoldInv, UsageTypeOK
    <2>4. TurnsGoOn
      BY <1>2, <2>2 DEF TurnsGoOn
    <2>5. Releasable(t)'
      BY <1>2, <2>1, <2>2 DEF HoldInv, HoldsAreKnown, Releasable
    <2>6. \A s \in HoldTurn : ReleaseKey[s] = ReleaseKey[t] => s = t
      BY UsageAssumption
    <2>7. ReleasesAreDue'
      BY <1>1, <2>1, <2>4, <2>5, <2>6, LookUpKeepsReleasesAreDue
    <2>8. HoldsAreKnown'
      BY <1>1, <1>2, <2>1, <2>2 DEF HoldInv, HoldsAreKnown
    <2> QED BY <2>3, <2>7, <2>8 DEF HoldInv
  <1>5. ASSUME Leave(r), NEW S \in SUBSET stale[r], stale' = [stale EXCEPT ![r] = S]
        PROVE  HoldInv'
    <2>1. /\ StoreInv' /\ ledger' = ledger /\ tx'[r].step = "idle"
          /\ \A q \in Proc : q # r => tx'[q] = tx[q]
      BY <1>1, <1>5, LeaveEffect
    <2>2. UsageTypeOK'
      BY <1>2, <1>5, <2>1 DEF HoldInv, UsageTypeOK
    <2>3. TurnsGoOn
      BY <1>2, <2>1 DEF TurnsGoOn
    <2>4. ReleasesAreDue'
      BY <1>1, <1>5, <2>3, LeaveKeepsReleasesAreDue
    <2>5. HoldsAreKnown'
      BY <1>1, <1>2, <1>5, <2>1 DEF HoldInv, UsageTypeOK, HoldsAreKnown
    <2> QED BY <2>2, <2>4, <2>5 DEF HoldInv
  <1>6. ASSUME NEW t \in HoldTurn, StaleAnswered(r, t)
        PROVE  HoldInv'
    BY <1>5, <1>6 DEF StaleAnswered
  <1>7. CASE DieReaper(r)
    BY <1>5, <1>7 DEF DieReaper
  <1> QED BY <1>3, <1>4, <1>6, <1>7 DEF ReaperStep

LEMMA StoreStepKeepsHoldInv ==
  ASSUME HoldInv, NEW p \in Proc, StoreStep(p), UNCHANGED usageVars
  PROVE  HoldInv'
  <1>1. UNCHANGED <<stage, old, stale>>
    BY DEF usageVars
  <1>2. UsageTypeOK'
    BY <1>1, StoreStepEffect DEF HoldInv, UsageTypeOK
  <1>3. TurnsGoOn
    BY <1>1, StoreStepEffect DEF TurnsGoOn
  <1>4. ReleasesAreDue'
    BY <1>3, StoreStepEffect, KeepsReleasesAreDue DEF Idle
  <1>5. HoldsAreKnown'
    BY <1>1, StoreStepEffect, UsageAssumption DEF HoldInv, HoldsAreKnown
  <1> QED BY <1>2, <1>4, <1>5 DEF HoldInv

LEMMA NextKeepsHoldInv == HoldInv /\ [UsageNext]_vars => HoldInv'
  <1> SUFFICES ASSUME HoldInv, [UsageNext]_vars PROVE HoldInv'
    OBVIOUS
  <1>1. CASE UNCHANGED vars
    BY <1>1 DEF vars, storeVars, usageVars, HoldInv, UsageTypeOK, StoreInv, StoreTypeOK,
                LockedSeesBalance, Locks, ReleasesAreDue, Releasable, Idle, HoldsAreKnown
  <1>2. ASSUME NEW t \in Turn, TurnStep(t) PROVE HoldInv'
    BY <1>2, BeginTurnKeepsHoldInv, CheckBalanceKeepsHoldInv, EndWithoutHoldKeepsHoldInv,
       PlaceHoldKeepsHoldInv, HoldAnsweredKeepsHoldInv, EndTurnKeepsHoldInv,
       ReleaseAnsweredKeepsHoldInv, DieKeepsHoldInv, AgeKeepsHoldInv DEF TurnStep
  <1>3. Turn \cup Call \cup Reaper \subseteq Proc
    BY UsageAssumption
  <1>4. CASE UsageNext
    BY <1>2, <1>3, <1>4, DebitCallKeepsHoldInv, ReaperStepKeepsHoldInv, StoreStepKeepsHoldInv
       DEF UsageNext
  <1> QED BY <1>1, <1>4

\* A release is asked for only when its hold is in the ledger and its turn is
\* through or old; wallet rows have one lock each, and balances are typed.
THEOREM HoldInvariant == UsageSpec => []HoldInv
  BY InitEstablishesHoldInv, NextKeepsHoldInv, PTL DEF UsageSpec

\* A release is credited only for a hold that was debited.
THEOREM ReleasesFollow == UsageSpec => []ReleaseFollowsHold
  <1>1. HoldInv => ReleaseFollowsHold
    BY DEF HoldInv, ReleasesAreDue, Releasable, ReleaseFollowsHold
  <1> QED BY <1>1, HoldInvariant, PTL

\* A chat turn runs under its hold, unless the job takes it for dead.
THEOREM TurnsRunUnderHold == UsageSpec => []RunsUnderHold
  <1>1. HoldInv => RunsUnderHold
    BY DEF HoldInv, ReleasesAreDue, HoldsAreKnown, Releasable, RunsUnderHold
  <1> QED BY <1>1, HoldInvariant, PTL

------------------------------------------------------------------------------
(* The ledger and the balances.                                             *)

\* Only a call of the store touches the ledger, and it does what Account allows.
LEMMA UsageStepIsAccountStep ==
  ASSUME HoldInv, [UsageNext]_vars
  PROVE  Account!AccountNext \/ UNCHANGED <<ledger, balance, paid>>
  <1>1. CASE UNCHANGED vars
    BY <1>1 DEF vars, storeVars
  <1>2. ASSUME NEW p \in Turn \cup Call \cup Reaper, StoreStep(p)
        PROVE  Account!AccountNext \/ UNCHANGED <<ledger, balance, paid>>
    BY <1>2, StoreStepIsAccountStep, UsageAssumption DEF HoldInv, UsageTypeOK
  <1>3. ASSUME NEW t \in Turn, TurnStep(t)
        PROVE  UNCHANGED <<ledger, balance, paid>>
    BY <1>3 DEF TurnStep, BeginTurn, CheckBalance, EndWithoutHold, PlaceHold, HoldAnswered,
                EndTurn, ReleaseAnswered, Die, Age, LookUp, Leave, storeVars
  <1>4. ASSUME NEW c \in Call, DebitCall(c)
        PROVE  UNCHANGED <<ledger, balance, paid>>
    BY <1>4 DEF DebitCall, LookUp
  <1>5. ASSUME NEW r \in Reaper, ReaperStep(r)
        PROVE  UNCHANGED <<ledger, balance, paid>>
    BY <1>5 DEF ReaperStep, ListStale, ReleaseStale, StaleAnswered, DieReaper,
                LookUp, Leave, storeVars
  <1> QED BY <1>1, <1>2, <1>3, <1>4, <1>5 DEF UsageNext

\* Turns, model calls and jobs together change balances only as Account allows.
THEOREM UsageRefinement == UsageSpec => ImplementsAccount
  <1>1. UsageInit => Account!AccountInit
    BY DEF UsageInit, StoreInit, Account!AccountInit
  <1>2. HoldInv /\ [UsageNext]_vars => [Account!AccountNext]_(Account!accountVars)
    BY UsageStepIsAccountStep DEF Account!accountVars
  <1> QED BY <1>1, <1>2, HoldInvariant, PTL
          DEF UsageSpec, ImplementsAccount, Account!AccountSpec

\* The entries of a wallet that are not of a hold that was given back.
Unsettled(u) == {k \in ledger : OwnerOf[k] = u /\ ~Settled(k)}

\* An entry that is not a release leaves settled what is settled, and is not.
LEMMA OtherEntryIsUnsettled ==
  ASSUME HoldInv, NEW k \in Key, Account!Apply(k), NEW u \in User,
         \A t \in HoldTurn : k # ReleaseKey[t]
  PROVE  Unsettled(u)' = IF u = OwnerOf[k] THEN Unsettled(u) \cup {k} ELSE Unsettled(u)
  <1>1. ledger' = ledger \cup {k} /\ k \notin ledger
    BY DEF Account!Apply
  <1>2. \A j : Settled(j)' <=> Settled(j)
    BY <1>1 DEF Settled
  <1>3. ~Settled(k)
    BY <1>1 DEF HoldInv, ReleasesAreDue, Releasable, Settled
  <1> QED BY <1>1, <1>2, <1>3 DEF Unsettled

\* A release settles itself and its hold, which was in the ledger and unsettled.
LEMMA ReleaseSettlesItsHold ==
  ASSUME HoldInv, HoldInv', NEW t \in HoldTurn, Account!Apply(ReleaseKey[t]), NEW u \in User
  PROVE  /\ Unsettled(u)' = Unsettled(u) \ {HoldKey[t]}
         /\ HoldKey[t] \in Unsettled(u) <=> u = OwnerOf[HoldKey[t]]
  <1> DEFINE k == ReleaseKey[t]
             h == HoldKey[t]
  <1>1. ledger' = ledger \cup {k} /\ k \notin ledger
    BY DEF Account!Apply
  <1>2. h # k /\ \A s \in HoldTurn :
          /\ h # ReleaseKey[s] /\ HoldKey[s] # k
          /\ (HoldKey[s] = h => s = t) /\ (ReleaseKey[s] = k => s = t)
    BY UsageAssumption
  <1>3. h \in ledger
    BY <1>1, <1>2 DEF HoldInv, ReleasesAreDue, Releasable
  <1>4. ~Settled(h)
    BY <1>1, <1>2 DEF Settled
  <1>5. \A j : Settled(j)' <=> Settled(j) \/ j \in {h, k}
    BY <1>1, <1>2 DEF Settled
  <1> HIDE DEF h, k
  <1> QED BY <1>1, <1>2, <1>3, <1>4, <1>5 DEF Unsettled, h

LEMMA UsageStepKeepsSettlement ==
  ASSUME HoldInv, HoldInv', SettledHoldsCostNothing,
         Account!AccountNext \/ UNCHANGED <<ledger, balance, paid>>
  PROVE  SettledHoldsCostNothing'
  <1>1. CASE UNCHANGED <<ledger, balance, paid>>
    BY <1>1 DEF SettledHoldsCostNothing, Settled
  <1>2. ASSUME NEW k \in Key, Account!Apply(k), NEW u \in User
        PROVE  balance'[u] = Total[Unsettled(u)']
    <2>1. ledger \subseteq Key /\ Unsettled(u) \subseteq Key /\ balance \in [User -> Nat]
      BY DEF HoldInv, UsageTypeOK, StoreInv, StoreTypeOK, Unsettled
    <2>2. balance[u] = Total[Unsettled(u)]
      BY DEF SettledHoldsCostNothing, Unsettled
    <2>3. balance' = [balance EXCEPT ![OwnerOf[k]] = balance[OwnerOf[k]] + AmountOf[k]]
      BY <1>2 DEF Account!Apply
    <2>4. k \notin Unsettled(u)
      BY <1>2 DEF Account!Apply, Unsettled
    <2>5. CASE \A t \in HoldTurn : k # ReleaseKey[t]
      <3>1. Unsettled(u)' = IF u = OwnerOf[k] THEN Unsettled(u) \cup {k} ELSE Unsettled(u)
        BY <1>2, <2>5, OtherEntryIsUnsettled
      <3>2. Total[Unsettled(u) \cup {k}] = Total[Unsettled(u)] + AmountOf[k]
        BY <2>1, <2>4, StoreTotalAssumption
      <3> QED BY <2>1, <2>2, <2>3, <3>1, <3>2
    <2>6. ASSUME NEW t \in HoldTurn, k = ReleaseKey[t]
          PROVE  balance'[u] = Total[Unsettled(u)']
      <3> DEFINE h == HoldKey[t]
                 S == Unsettled(u) \ {h}
      <3>1. Unsettled(u)' = S /\ (h \in Unsettled(u) <=> u = OwnerOf[h])
        BY <1>2, <2>6, ReleaseSettlesItsHold
      <3>2. h \in Key /\ OwnerOf[k] = OwnerOf[h] /\ AmountOf[k] = -AmountOf[h]
        BY <2>6, UsageAssumption
      <3>3. AmountOf[h] \in Int /\ Total[S] \in Int /\ Total[S \cup {h}] = Total[S] + AmountOf[h]
        BY <2>1, <3>2, StoreAssumption, StoreTotalAssumption
      <3>4. CASE u = OwnerOf[h]
        <4>1. S \cup {h} = Unsettled(u)
          BY <3>1, <3>4
        <4>2. balance'[u] = balance[u] + AmountOf[k] /\ AmountOf[k] \in Int
          BY <2>1, <2>3, <3>2, <3>3, <3>4
        <4>3. balance[u] = Total[S] + AmountOf[h]
          BY <2>2, <3>3, <4>1
        <4> HIDE DEF S, h
        <4>4. balance'[u] = Total[S]
          BY <3>2, <3>3, <4>2, <4>3
        <4> QED BY <3>1, <4>4
      <3>5. CASE u # OwnerOf[h]
        <4>1. S = Unsettled(u)
          BY <3>1, <3>5
        <4> HIDE DEF S, h
        <4> QED BY <2>1, <2>2, <2>3, <3>1, <3>2, <3>5, <4>1
      <3> QED BY <3>4, <3>5
    <2> QED BY <2>5, <2>6
  <1> QED BY <1>1, <1>2 DEF SettledHoldsCostNothing, Unsettled, Account!AccountNext

LEMMA InitEstablishesSettlement == UsageInit => BalancesAreTotals /\ SettledHoldsCostNothing
  <1> SUFFICES ASSUME UsageInit, NEW u \in User
               PROVE  Total[{k \in ledger : OwnerOf[k] = u /\ ~Settled(k)}] = 0
    BY InitEstablishesTotals DEF UsageInit, StoreInit, SettledHoldsCostNothing
  <1>1. {k \in ledger : OwnerOf[k] = u /\ ~Settled(k)} = {}
    BY DEF UsageInit, StoreInit
  <1> QED BY <1>1, StoreTotalAssumption

\* The whole invariant: what HoldInv says of turns, calls and jobs, and that every
\* balance is the sum of its ledger, of which holds given back are no part.
THEOREM UsageInvariant == UsageSpec => []UsageInv
  <1>1. HoldInv /\ HoldInv' /\ BalancesAreTotals /\ SettledHoldsCostNothing /\ [UsageNext]_vars
          => BalancesAreTotals' /\ SettledHoldsCostNothing'
    BY UsageStepIsAccountStep, StepKeepsTotals, UsageStepKeepsSettlement
       DEF HoldInv, UsageTypeOK
  <1> QED BY <1>1, InitEstablishesSettlement, HoldInvariant, PTL DEF UsageSpec, UsageInv

\* A hold that has been released has cost nothing, whoever released it and
\* whatever was debited, granted or held in between.
THEOREM HoldsCostNothing == UsageSpec => []SettledHoldsCostNothing
  <1>1. UsageInv => SettledHoldsCostNothing
    BY DEF UsageInv
  <1> QED BY <1>1, UsageInvariant, PTL
==============================================================================
