-------------------------- MODULE WalletStoreProofs --------------------------
(***************************************************************************)
(* Proofs about WalletStore, for any set of keys, wallets and processes.   *)
(***************************************************************************)
EXTENDS WalletStore, TLAPS

LEMMA InitEstablishesStoreInv == StoreInit => StoreInv
  BY StoreAssumption
     DEF StoreInit, StoreInv, StoreTypeOK, LockedSeesBalance, Tx, NoTx, Result

\* A step of a call is typed and leaves every other call as it was.
LEMMA BecomesIsTyped ==
  ASSUME StoreTypeOK, NEW p \in Proc, NEW step, NEW key, NEW seen,
         [step |-> step, key |-> key, seen |-> seen] \in Tx,
         Becomes(p, step, key, seen)
  PROVE  /\ tx' \in [Proc -> Tx]
         /\ tx'[p] = [step |-> step, key |-> key, seen |-> seen]
         /\ \A q \in Proc : q # p => tx'[q] = tx[q]
  BY DEF StoreTypeOK, Becomes

\* Only the one holder of a wallet's lock writes to it, and what it writes is
\* the present balance plus the amount of its entry.
LEMMA WriteIsTyped ==
  ASSUME StoreInv, NEW p \in Proc, tx[p].step = "locked", Applies(p), Write(p)
  PROVE  /\ ledger' \subseteq Key
         /\ balance' \in [User -> Nat] /\ paid' \in [User -> Nat]
         /\ \A u \in User : u # OwnerOf[tx[p].key] => balance'[u] = balance[u]
  <1> DEFINE k == tx[p].key
  <1>1. k \in Key /\ OwnerOf[k] \in User /\ AmountOf[k] \in Int /\ tx[p].seen \in Nat
    BY StoreAssumption DEF StoreInv, StoreTypeOK, Tx
  <1>2. NewBalance(p) \in Nat
    BY <1>1 DEF Applies, NewBalance
  <1>3. k \in PaidTopup => AmountOf[k] > 0
    BY StoreAssumption
  <1> QED BY <1>1, <1>2, <1>3 DEF Write, StoreInv, StoreTypeOK

\* Calls that do not write and end unlocked keep the invariant.
LEMMA QuietStepKeepsStoreInv ==
  ASSUME StoreInv, NEW p \in Proc, NEW step, NEW key,
         step \in {"idle", "missed"} \cup Result, key \in Key \cup {NoKey},
         step # "idle" => key \in Key,
         Becomes(p, step, key, 0), UNCHANGED <<ledger, balance, paid>>
  PROVE  StoreInv'
  <1>1. [step |-> step, key |-> key, seen |-> 0] \in Tx
    BY DEF Tx
  <1>2. /\ tx' \in [Proc -> Tx]
        /\ tx'[p] = [step |-> step, key |-> key, seen |-> 0]
        /\ \A q \in Proc : q # p => tx'[q] = tx[q]
    BY <1>1, BecomesIsTyped DEF StoreInv
  <1>3. tx'[p].step # "locked"
    BY <1>2 DEF Result
  <1>4. StoreTypeOK'
    BY <1>2 DEF StoreInv, StoreTypeOK
  <1>5. LockedSeesBalance'
    BY <1>2, <1>3 DEF StoreInv, LockedSeesBalance, Locks
  <1> QED BY <1>4, <1>5 DEF StoreInv

LEMMA LockWalletKeepsStoreInv ==
  ASSUME StoreInv, NEW p \in Proc, LockWallet(p)
  PROVE  StoreInv'
  <1> DEFINE k == tx[p].key
  <1>1. k \in Key /\ OwnerOf[k] \in User /\ balance[OwnerOf[k]] \in Nat
    BY StoreAssumption DEF StoreInv, StoreTypeOK, LockWallet
  <1>2. [step |-> "locked", key |-> k, seen |-> balance[OwnerOf[k]]] \in Tx
    BY <1>1 DEF Tx
  <1>3. /\ tx' \in [Proc -> Tx]
        /\ tx'[p] = [step |-> "locked", key |-> k, seen |-> balance[OwnerOf[k]]]
        /\ \A q \in Proc : q # p => tx'[q] = tx[q]
    BY <1>2, BecomesIsTyped DEF StoreInv, LockWallet
  <1>4. StoreTypeOK'
    BY <1>1, <1>3 DEF StoreInv, StoreTypeOK, LockWallet
  <1>5. LockedSeesBalance'
    BY <1>3 DEF StoreInv, LockedSeesBalance, Locks, LockWallet
  <1> QED BY <1>4, <1>5 DEF StoreInv

LEMMA WritingStepKeepsStoreInv ==
  ASSUME StoreInv, NEW p \in Proc, NEW step \in Result,
         tx[p].step = "locked", Applies(p), Write(p), Becomes(p, step, tx[p].key, 0)
  PROVE  StoreInv'
  <1>1. tx[p].key \in Key
    BY DEF StoreInv, StoreTypeOK
  <1>2. [step |-> step, key |-> tx[p].key, seen |-> 0] \in Tx
    BY <1>1 DEF Tx
  <1>3. /\ tx' \in [Proc -> Tx]
        /\ tx'[p] = [step |-> step, key |-> tx[p].key, seen |-> 0]
        /\ \A q \in Proc : q # p => tx'[q] = tx[q]
    BY <1>2, BecomesIsTyped DEF StoreInv
  <1>4. /\ ledger' \subseteq Key
        /\ balance' \in [User -> Nat] /\ paid' \in [User -> Nat]
        /\ \A u \in User : u # OwnerOf[tx[p].key] => balance'[u] = balance[u]
    BY WriteIsTyped
  <1>5. StoreTypeOK'
    BY <1>1, <1>3, <1>4 DEF StoreInv, StoreTypeOK
  <1>6. LockedSeesBalance'
    <2> SUFFICES ASSUME NEW q \in Proc, tx'[q].step = "locked"
                 PROVE  /\ tx'[q].seen = balance'[OwnerOf[tx'[q].key]]
                        /\ \A r \in Proc : Locks(r, OwnerOf[tx[q].key])' => r = q
      BY <1>3 DEF LockedSeesBalance, Locks, Result
    <2>1. q # p /\ tx'[q] = tx[q]
      BY <1>3 DEF Result
    <2>2. OwnerOf[tx[q].key] # OwnerOf[tx[p].key]
      BY <2>1 DEF StoreInv, LockedSeesBalance, Locks
    <2>3. OwnerOf[tx[q].key] \in User
      BY <2>1, StoreAssumption DEF StoreInv, StoreTypeOK
    <2> QED BY <1>3, <1>4, <2>1, <2>2, <2>3
            DEF StoreInv, LockedSeesBalance, Locks, Result
  <1> QED BY <1>5, <1>6 DEF StoreInv

LEMMA StoreStepKeepsStoreInv ==
  ASSUME StoreInv, NEW p \in Proc, StoreStep(p)
  PROVE  StoreInv'
  <1>0. tx[p].step # "idle" => tx[p].key \in Key
    BY DEF StoreInv, StoreTypeOK
  <1>1. CASE LockWallet(p)
    BY <1>1, LockWalletKeepsStoreInv
  <1>2. CASE Commit(p)
    <2>1. CASE Applies(p)
      BY <1>2, <2>1, WritingStepKeepsStoreInv DEF Commit, Result
    <2>2. CASE ~Applies(p)
      BY <1>0, <1>2, <2>2, QuietStepKeepsStoreInv DEF Commit, Result
    <2> QED BY <2>1, <2>2
  <1>3. CASE LoseReply(p)
    BY <1>3, WritingStepKeepsStoreInv DEF LoseReply, Result
  <1>4. CASE FailCall(p)
    BY <1>0, <1>4, QuietStepKeepsStoreInv DEF FailCall, InCall, Result
  <1> QED BY <1>1, <1>2, <1>3, <1>4 DEF StoreStep

LEMMA LookUpKeepsStoreInv ==
  ASSUME StoreInv, NEW p \in Proc, NEW k \in Key, LookUp(p, k)
  PROVE  StoreInv'
  BY QuietStepKeepsStoreInv DEF LookUp, Result

LEMMA LeaveKeepsStoreInv ==
  ASSUME StoreInv, NEW p \in Proc, Leave(p)
  PROVE  StoreInv'
  BY QuietStepKeepsStoreInv DEF Leave, Result

LEMMA NextKeepsStoreInv == StoreInv /\ [StoreNext]_storeVars => StoreInv'
  <1> SUFFICES ASSUME StoreInv, [StoreNext]_storeVars PROVE StoreInv'
    OBVIOUS
  <1>1. CASE UNCHANGED storeVars
    BY <1>1 DEF storeVars, StoreInv, StoreTypeOK, LockedSeesBalance, Locks
  <1>2. CASE StoreNext
    BY <1>2, StoreStepKeepsStoreInv, LookUpKeepsStoreInv, LeaveKeepsStoreInv DEF StoreNext
  <1> QED BY <1>1, <1>2

\* A wallet row has one lock, its holder has read the present balance, and no
\* balance is negative.
THEOREM StoreInvariant == StoreSpec => []StoreInv
  BY InitEstablishesStoreInv, NextKeepsStoreInv, PTL DEF StoreSpec

------------------------------------------------------------------------------
\* A step of a call applies its entry to the account, or does not touch it.
LEMMA StoreStepIsAccountStep ==
  ASSUME StoreInv, NEW p \in Proc, StoreStep(p)
  PROVE  Account!AccountNext \/ UNCHANGED <<ledger, balance, paid>>
  <1> DEFINE k == tx[p].key
  <1>1. ASSUME tx[p].step = "locked", Applies(p), Write(p)
        PROVE  Account!AccountNext
    <2>1. k \in Key
      BY <1>1 DEF StoreInv, StoreTypeOK
    <2>2. tx[p].seen = balance[OwnerOf[k]]
      BY <1>1 DEF StoreInv, LockedSeesBalance
    <2>3. Account!Apply(k)
      BY <1>1, <2>2
         DEF Applies, Write, NewBalance, Account!Apply, Account!Covers, Account!PaidBump
    <2> QED BY <2>1, <2>3 DEF Account!AccountNext
  <1> QED BY <1>1 DEF StoreStep, LockWallet, Commit, LoseReply, FailCall

\* However many calls race, each entry changes its wallet once, by its amount,
\* and never below zero.
THEOREM Refinement == StoreSpec => ImplementsAccount
  <1>1. StoreInit => Account!AccountInit
    BY DEF StoreInit, Account!AccountInit
  <1>2. StoreInv /\ [StoreNext]_storeVars => [Account!AccountNext]_(Account!accountVars)
    <2> SUFFICES ASSUME StoreInv, [StoreNext]_storeVars
                 PROVE  Account!AccountNext \/ UNCHANGED <<ledger, balance, paid>>
      BY DEF Account!accountVars
    <2>1. CASE UNCHANGED storeVars
      BY <2>1 DEF storeVars
    <2>2. CASE StoreNext
      BY <2>2, StoreStepIsAccountStep DEF StoreNext, LookUp, Leave
    <2> QED BY <2>1, <2>2
  <1> QED BY <1>1, <1>2, StoreInvariant, PTL
          DEF StoreSpec, ImplementsAccount, Account!AccountSpec

------------------------------------------------------------------------------
\* An entry that was not in the ledger adds its amount to the sum of its wallet,
\* and to no other; a sum over some of the entries moves only with those.
LEMMA EntryAddsToItsWallet ==
  ASSUME NEW k \in Key, Account!Apply(k), ledger \subseteq Key, NEW u \in User
  PROVE  /\ Account!EntriesOf(u) \subseteq Key
         /\ Account!EntriesOf(u)' =
              IF u = OwnerOf[k] THEN Account!EntriesOf(u) \cup {k} ELSE Account!EntriesOf(u)
         /\ k \notin Account!EntriesOf(u)
  BY DEF Account!Apply, Account!EntriesOf

LEMMA ApplyKeepsTotals ==
  ASSUME ledger \subseteq Key, balance \in [User -> Nat], paid \in [User -> Nat],
         BalancesAreTotals, NEW k \in Key, Account!Apply(k)
  PROVE  BalancesAreTotals'
  <1> SUFFICES ASSUME NEW u \in User
               PROVE  /\ balance'[u] = Total[Account!EntriesOf(u)']
                      /\ paid'[u] = Total[Account!EntriesOf(u)' \cap PaidTopup]
    BY DEF BalancesAreTotals, Account!BalancesAreTotals
  <1> DEFINE K == Account!EntriesOf(u)
  <1>1. /\ K \subseteq Key /\ k \notin K
        /\ Account!EntriesOf(u)' = IF u = OwnerOf[k] THEN K \cup {k} ELSE K
    BY EntryAddsToItsWallet
  <1>2. balance[u] = Total[K] /\ paid[u] = Total[K \cap PaidTopup]
    BY DEF BalancesAreTotals, Account!BalancesAreTotals
  <1>3. OwnerOf[k] \in User /\ AmountOf[k] \in Int /\ Total[K] \in Int
    BY <1>1, StoreAssumption, StoreTotalAssumption
  <1>4. balance[u] \in Nat /\ paid[u] \in Nat
    OBVIOUS
  <1>5. /\ balance' = [balance EXCEPT ![OwnerOf[k]] = balance[OwnerOf[k]] + AmountOf[k]]
        /\ paid' = [paid EXCEPT ![OwnerOf[k]] =
                      paid[OwnerOf[k]] + (IF k \in PaidTopup THEN AmountOf[k] ELSE 0)]
    BY DEF Account!Apply, Account!PaidBump
  <1>6. balance \in [User -> Nat] /\ paid \in [User -> Nat]
    OBVIOUS
  <1> HIDE DEF K
  <1>7. CASE u # OwnerOf[k]
    BY <1>1, <1>2, <1>5, <1>6, <1>7
  <1>8. CASE u = OwnerOf[k]
    <2>1. Total[K \cup {k}] = Total[K] + AmountOf[k]
      BY <1>1, StoreTotalAssumption
    <2>2. balance'[u] = balance[u] + AmountOf[k]
      BY <1>5, <1>6, <1>8
    <2>3. CASE k \in PaidTopup
      <3>1. (K \cup {k}) \cap PaidTopup = (K \cap PaidTopup) \cup {k}
        BY <2>3
      <3>2. Total[(K \cap PaidTopup) \cup {k}] = Total[K \cap PaidTopup] + AmountOf[k]
        BY <1>1, StoreTotalAssumption
      <3>3. paid'[u] = paid[u] + AmountOf[k]
        BY <1>5, <1>6, <1>8, <2>3
      <3> QED BY <1>1, <1>2, <1>8, <2>1, <2>2, <3>1, <3>2, <3>3
    <2>4. CASE k \notin PaidTopup
      <3>1. (K \cup {k}) \cap PaidTopup = K \cap PaidTopup
        BY <2>4
      <3>2. paid'[u] = paid[u]
        BY <1>4, <1>5, <1>6, <1>8, <2>4
      <3> QED BY <1>1, <1>2, <1>8, <2>1, <2>2, <3>1, <3>2
    <2> QED BY <2>3, <2>4
  <1> QED BY <1>7, <1>8

LEMMA InitEstablishesTotals == StoreInit => BalancesAreTotals
  <1> SUFFICES ASSUME StoreInit, NEW u \in User
               PROVE  Total[{k \in ledger : OwnerOf[k] = u}] = 0
                      /\ Total[{k \in ledger : OwnerOf[k] = u} \cap PaidTopup] = 0
    BY DEF StoreInit, BalancesAreTotals, Account!BalancesAreTotals, Account!EntriesOf
  <1>1. {k \in ledger : OwnerOf[k] = u} = {} /\ {} \cap PaidTopup = {}
    BY DEF StoreInit
  <1> QED BY <1>1, StoreTotalAssumption

LEMMA StepKeepsTotals ==
  ASSUME StoreInv, BalancesAreTotals,
         Account!AccountNext \/ UNCHANGED <<ledger, balance, paid>>
  PROVE  BalancesAreTotals'
  <1>1. CASE Account!AccountNext
    BY <1>1, ApplyKeepsTotals DEF StoreInv, StoreTypeOK, Account!AccountNext
  <1>2. CASE UNCHANGED <<ledger, balance, paid>>
    BY <1>2 DEF BalancesAreTotals, Account!BalancesAreTotals, Account!EntriesOf
  <1> QED BY <1>1, <1>2

\* However many calls race, and whichever of them fail or lose their reply, a
\* wallet is worth what its ledger adds up to.
THEOREM WalletsAreTotals == StoreSpec => []BalancesAreTotals
  <1>1. StoreInv /\ BalancesAreTotals /\ [StoreNext]_storeVars => BalancesAreTotals'
    <2> SUFFICES ASSUME StoreInv, BalancesAreTotals, [StoreNext]_storeVars
                 PROVE  Account!AccountNext \/ UNCHANGED <<ledger, balance, paid>>
      BY StepKeepsTotals
    <2>1. CASE UNCHANGED storeVars
      BY <2>1 DEF storeVars
    <2>2. CASE StoreNext
      BY <2>2, StoreStepIsAccountStep DEF StoreNext, LookUp, Leave
    <2> QED BY <2>1, <2>2
  <1> QED BY <1>1, InitEstablishesTotals, StoreInvariant, PTL DEF StoreSpec
==============================================================================
