----------------------------- MODULE WalletStore -----------------------------
(***************************************************************************)
(* PgWalletStoreAdapter::apply_ledger_entry, called by any number of       *)
(* processes at once, and the hold reaper's hand-written copy of it.       *)
(*                                                                         *)
(* A call first looks its idempotency key up, without a lock.  If the key  *)
(* is not there it locks the wallet row and reads the balance; then it     *)
(* inserts the ledger row and writes the balance it has computed.  Another *)
(* call may insert the key between the look-up and the lock.  A call may   *)
(* fail at any point, and its commit may succeed although its reply is     *)
(* lost.                                                                   *)
(***************************************************************************)
EXTENDS Integers

CONSTANTS User, Key, OwnerOf, AmountOf, PaidTopup, Total,   \* as in Account
          Proc,        \* the processes that call the store, one call at a time
          NoKey        \* a process that is in no call

ASSUME StoreAssumption ==
    /\ OwnerOf \in [Key -> User]
    /\ AmountOf \in [Key -> Int \ {0}]
    /\ PaidTopup \subseteq Key
    /\ \A k \in PaidTopup : AmountOf[k] > 0
    /\ NoKey \notin Key

ASSUME StoreTotalAssumption ==
    /\ Total \in [SUBSET Key -> Int]
    /\ Total[{}] = 0
    /\ \A K \in SUBSET Key : \A k \in Key \ K : Total[K \cup {k}] = Total[K] + AmountOf[k]

VARIABLES
    ledger,        \* the idempotency keys in wallet_ledger
    balance,       \* balance[u] = wallets.balance_fen
    paid,          \* paid[u] = wallets.lifetime_paid_topup_fen
    tx             \* tx[p]: the call of process p and how far it is

storeVars == <<ledger, balance, paid, tx>>

\* "error" is an insufficient balance as well as a failed statement.
Result == {"applied", "replayed", "error"}

Tx == [step : {"idle", "missed", "locked"} \cup Result,
       key  : Key \cup {NoKey},
       seen : Nat]       \* the balance read under the lock

NoTx == [step |-> "idle", key |-> NoKey, seen |-> 0]

StoreTypeOK ==
    /\ ledger \subseteq Key
    /\ balance \in [User -> Nat]
    /\ paid \in [User -> Nat]
    /\ tx \in [Proc -> Tx]
    /\ \A p \in Proc : tx[p].step # "idle" => tx[p].key \in Key

------------------------------------------------------------------------------
Idle(p) == tx[p].step = "idle"

InCall(p) == tx[p].step \in {"missed", "locked"}

Answered(p) == tx[p].step \in Result

Locks(p, u) == tx[p].step = "locked" /\ OwnerOf[tx[p].key] = u

\* The call under way becomes this one.
Becomes(p, step, key, seen) ==
    tx' = [tx EXCEPT ![p] = [step |-> step, key |-> key, seen |-> seen]]

StoreInit ==
    /\ ledger = {}
    /\ balance = [u \in User |-> 0]
    /\ paid = [u \in User |-> 0]
    /\ tx = [p \in Proc |-> NoTx]

\* The fast path: SELECT ... WHERE idempotency_key, before any lock.
LookUp(p, k) ==
    /\ Idle(p)
    /\ Becomes(p, IF k \in ledger THEN "replayed" ELSE "missed", k, 0)
    /\ UNCHANGED <<ledger, balance, paid>>

\* (mutant) SELECT without FOR UPDATE.
ReadWallet(p) ==
    /\ tx[p].step = "missed"
    /\ Becomes(p, "locked", tx[p].key, balance[OwnerOf[tx[p].key]])
    /\ UNCHANGED <<ledger, balance, paid>>

\* SELECT ... FROM wallets ... FOR UPDATE waits for whoever has the row.
LockWallet(p) ==
    /\ tx[p].step = "missed"
    /\ \A q \in Proc : ~Locks(q, OwnerOf[tx[p].key])
    /\ Becomes(p, "locked", tx[p].key, balance[OwnerOf[tx[p].key]])
    /\ UNCHANGED <<ledger, balance, paid>>

NewBalance(p) == tx[p].seen + AmountOf[tx[p].key]

\* (mutant) the conflict of the INSERT is not noticed.
AppliesAnyway(p) == NewBalance(p) >= 0

\* INSERT ... ON CONFLICT DO NOTHING inserts a row.
Applies(p) == NewBalance(p) >= 0 /\ tx[p].key \notin ledger

Write(p) ==
    LET k == tx[p].key IN
    /\ ledger' = ledger \cup {k}
    /\ balance' = [balance EXCEPT ![OwnerOf[k]] = NewBalance(p)]
    /\ paid' = [paid EXCEPT ![OwnerOf[k]] =
                  paid[OwnerOf[k]] + (IF k \in PaidTopup THEN AmountOf[k] ELSE 0)]

Commit(p) ==
    /\ tx[p].step = "locked"
    /\ \/ /\ Applies(p)
          /\ Write(p)
          /\ Becomes(p, "applied", tx[p].key, 0)
       \/ /\ ~Applies(p)
          /\ Becomes(p, IF NewBalance(p) < 0 THEN "error" ELSE "replayed", tx[p].key, 0)
          /\ UNCHANGED <<ledger, balance, paid>>

\* COMMIT is executed, its reply does not arrive: the caller sees an error.
LoseReply(p) ==
    /\ tx[p].step = "locked"
    /\ Applies(p)
    /\ Write(p)
    /\ Becomes(p, "error", tx[p].key, 0)

\* Any statement fails: the transaction is rolled back.
FailCall(p) ==
    /\ InCall(p)
    /\ Becomes(p, "error", tx[p].key, 0)
    /\ UNCHANGED <<ledger, balance, paid>>

\* The caller takes the result, or is dropped with its transaction.
Leave(p) ==
    /\ Becomes(p, "idle", NoKey, 0)
    /\ UNCHANGED <<ledger, balance, paid>>

StoreStep(p) == LockWallet(p) \/ Commit(p) \/ LoseReply(p) \/ FailCall(p)

StoreNext ==
    \E p \in Proc : StoreStep(p) \/ Leave(p) \/ \E k \in Key : LookUp(p, k)

StoreSpec == StoreInit /\ [][StoreNext]_storeVars

------------------------------------------------------------------------------
(* Properties                                                               *)

Account == INSTANCE Account WITH applied <- ledger

\* However many calls race, each entry changes the wallet once, by its amount,
\* and no balance goes below zero (CHECK (balance_fen >= 0), migration 0064).
ImplementsAccount == Account!AccountSpec

\* Why: a wallet row has one lock, and its holder has read the present balance.
LockedSeesBalance ==
    \A p \in Proc : tx[p].step = "locked" =>
        /\ tx[p].seen = balance[OwnerOf[tx[p].key]]
        /\ \A q \in Proc : Locks(q, OwnerOf[tx[p].key]) => q = p

StoreInv == StoreTypeOK /\ LockedSeesBalance

\* However many calls race, a wallet is worth what its ledger adds up to.
BalancesAreTotals == Account!BalancesAreTotals
==============================================================================
