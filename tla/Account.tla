------------------------------- MODULE Account -------------------------------
(***************************************************************************)
(* What the wallet promises its callers: an entry is applied at most once, *)
(* an applied entry has changed the balance of its owner by its amount and *)
(* nothing else has, and no balance ever goes below zero.                  *)
(*                                                                         *)
(* WalletStore, where callers race for rows and locks, is shown to         *)
(* implement this module; Referral and BillingWebhooks are written on top  *)
(* of it, with a call of apply_ledger_entry as one step.                   *)
(***************************************************************************)
EXTENDS Integers

CONSTANTS
    User,          \* the wallets
    Key,           \* the idempotency keys callers may use
    OwnerOf,       \* OwnerOf[k]: the wallet of the entry with key k
    AmountOf,      \* AmountOf[k]: its amount in fen, negative for a debit
    PaidTopup,     \* the keys of entries that count as a paid top-up
    Total          \* Total[K]: the sum of the amounts of the entries with keys in K

ASSUME AccountAssumption ==
    /\ OwnerOf \in [Key -> User]
    /\ AmountOf \in [Key -> Int \ {0}]
    /\ PaidTopup \subseteq Key
    /\ \A k \in PaidTopup : AmountOf[k] > 0

\* These equations are those of a sum, and of nothing else.
ASSUME TotalAssumption ==
    /\ Total \in [SUBSET Key -> Int]
    /\ Total[{}] = 0
    /\ \A K \in SUBSET Key : \A k \in Key \ K : Total[K \cup {k}] = Total[K] + AmountOf[k]

VARIABLES
    applied,       \* the entries that are in the ledger
    balance,       \* balance[u] = wallets.balance_fen
    paid           \* paid[u] = wallets.lifetime_paid_topup_fen

accountVars == <<applied, balance, paid>>

AccountTypeOK ==
    /\ applied \subseteq Key
    /\ balance \in [User -> Nat]
    /\ paid \in [User -> Nat]

PaidBump(k) == IF k \in PaidTopup THEN AmountOf[k] ELSE 0

Covers(k) == balance[OwnerOf[k]] + AmountOf[k] >= 0

AccountInit ==
    /\ applied = {}
    /\ balance = [u \in User |-> 0]
    /\ paid = [u \in User |-> 0]

Apply(k) ==
    /\ k \notin applied
    /\ Covers(k)
    /\ applied' = applied \cup {k}
    /\ balance' = [balance EXCEPT ![OwnerOf[k]] = balance[OwnerOf[k]] + AmountOf[k]]
    /\ paid' = [paid EXCEPT ![OwnerOf[k]] = paid[OwnerOf[k]] + PaidBump(k)]

\* A credit, as its caller sees it: the entry is there afterwards, once.
Credit(k) ==
    \/ Apply(k)
    \/ k \in applied /\ UNCHANGED accountVars

AccountNext == \E k \in Key : Apply(k)

AccountSpec == AccountInit /\ [][AccountNext]_accountVars

------------------------------------------------------------------------------
EntriesOf(u) == {k \in applied : OwnerOf[k] = u}

\* No money appears or disappears: a wallet is worth what its ledger adds up to,
\* and its lifetime_paid_topup_fen is what its paid top-ups add up to, although
\* both are columns that every entry overwrites (pg_wallet_store.rs:237-250).
BalancesAreTotals ==
    \A u \in User :
        /\ balance[u] = Total[EntriesOf(u)]
        /\ paid[u] = Total[EntriesOf(u) \cap PaidTopup]
==============================================================================
