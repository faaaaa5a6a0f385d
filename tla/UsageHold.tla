------------------------------ MODULE UsageHold ------------------------------
(***************************************************************************)
(* Paying for the platform's models: the balance check before a turn, the  *)
(* hold on its estimated price, the debits of its model calls, the release *)
(* of the hold, and the maintenance job that releases holds whose turn has *)
(* not.                                                                    *)
(*                                                                         *)
(* A turn in HoldTurn is a chat turn on platform keys.  The other turns    *)
(* pass the same balance check and place no hold: relayed desktop calls    *)
(* and the indexing of a document.  Model calls may run at the same time   *)
(* and are debited one by one.                                             *)
(* A turn may die at any point: its process crashes, or its client goes    *)
(* away and the future is dropped.                                         *)
(***************************************************************************)
EXTENDS WalletStore

CONSTANTS
    Turn, HoldTurn,   \* turns, and those that place a hold
    Call,             \* model calls
    BeforeHold,       \* calls that come before the hold (the embedding of a
                      \* query for the share cache)
    Reaper,           \* workers that run the maintenance job
    PayerOf,          \* PayerOf[t]: the owner who pays for turn t
    TurnOf,           \* TurnOf[c]: the turn of call c
    GrantKey,         \* GrantKey[u]: the key of the signup grant of u
    HoldKey,          \* the keys of the hold of a turn, of its release,
    ReleaseKey,
    DebitKey          \* and of the debit of a call

ASSUME UsageAssumption ==
    /\ HoldTurn \subseteq Turn /\ BeforeHold \subseteq Call
    /\ Turn \cup Call \cup Reaper \subseteq Proc
    /\ Turn \cap Call = {} /\ Turn \cap Reaper = {} /\ Call \cap Reaper = {}
    /\ PayerOf \in [Turn -> User] /\ TurnOf \in [Call -> Turn]
    /\ GrantKey \in [User -> Key] /\ DebitKey \in [Call -> Key]
    /\ HoldKey \in [HoldTurn -> Key] /\ ReleaseKey \in [HoldTurn -> Key]
    \* Keys begin with what they are for, and a release names its hold.
    /\ \A t \in HoldTurn :
        /\ \A u \in User : GrantKey[u] # ReleaseKey[t]
        /\ \A c \in Call : DebitKey[c] # ReleaseKey[t]
        /\ \A s \in HoldTurn : HoldKey[s] # ReleaseKey[t]
        /\ \A s \in HoldTurn : ReleaseKey[s] = ReleaseKey[t] => s = t
        /\ \A s \in HoldTurn : HoldKey[s] = HoldKey[t] => s = t
    \* A hold is released to whom it was taken from, as much as was taken.
    /\ \A t \in HoldTurn :
        /\ OwnerOf[ReleaseKey[t]] = OwnerOf[HoldKey[t]]
        /\ AmountOf[ReleaseKey[t]] = -AmountOf[HoldKey[t]]

VARIABLES
    stage,            \* stage[t]: where turn t is
    old,              \* the turns whose hold is older than WALLET_HOLD_MAX_AGE_SECS
    stale             \* stale[r]: the holds the job of r has listed

usageVars == <<stage, old, stale>>
vars == <<storeVars, usageVars>>

Stage == {"idle", "checking", "cleared", "holding", "running", "releasing", "over"}

UsageTypeOK ==
    /\ StoreInv
    /\ stage \in [Turn -> Stage]
    /\ old \subseteq HoldTurn
    /\ stale \in [Reaper -> SUBSET HoldTurn]

------------------------------------------------------------------------------
Quiet(t) == \A c \in Call : TurnOf[c] = t => ~InCall(c)

Enters(t, s) == stage' = [stage EXCEPT ![t] = s]

UsageInit ==
    /\ StoreInit
    /\ stage = [t \in Turn |-> "idle"]
    /\ old = {}
    /\ stale = [r \in Reaper |-> {}]

\* ensure_payer_has_wallet_balance: first the signup grant, if it is missing.
BeginTurn(t) ==
    /\ stage[t] = "idle"
    /\ LookUp(t, GrantKey[PayerOf[t]])
    /\ Enters(t, "checking")
    /\ UNCHANGED <<old, stale>>

\* Then the balance, whatever became of the grant.
CheckBalance(t) ==
    /\ stage[t] = "checking" /\ Answered(t)
    /\ Leave(t)
    /\ Enters(t, IF balance[PayerOf[t]] = 0 THEN "over"
                   ELSE IF t \in HoldTurn THEN "cleared" ELSE "running")
    /\ UNCHANGED <<old, stale>>

\* A later gate refuses, or the share cache has the answer.
EndWithoutHold(t) ==
    /\ stage[t] = "cleared" /\ Quiet(t)
    /\ Enters(t, "over")
    /\ UNCHANGED <<storeVars, old, stale>>

PlaceHold(t) ==
    /\ stage[t] = "cleared" /\ Quiet(t)
    /\ LookUp(t, HoldKey[t])
    /\ Enters(t, "holding")
    /\ UNCHANGED <<old, stale>>

\* (mutant) an insufficient balance is metering, and metering is fail-open.
HoldAnsweredFailOpen(t) ==
    /\ stage[t] = "holding" /\ Answered(t)
    /\ Leave(t)
    /\ Enters(t, "running")
    /\ UNCHANGED <<old, stale>>

\* Any error of the hold ends the turn, with no hold to release.
HoldAnswered(t) ==
    /\ stage[t] = "holding" /\ Answered(t)
    /\ Leave(t)
    /\ Enters(t, IF tx[t].step = "applied" THEN "running" ELSE "over")
    /\ UNCHANGED <<old, stale>>

\* The usage observer debits a call, with an event id of its own.  Whether the
\* debit was applied does not matter to the turn.
DebitCall(c) ==
    /\ stage[TurnOf[c]] = IF c \in BeforeHold THEN "cleared" ELSE "running"
    /\ LookUp(c, DebitKey[c])
    /\ UNCHANGED usageVars

\* The turn returns, with an answer or an error.
EndTurn(t) ==
    /\ stage[t] = "running" /\ Quiet(t)
    /\ \/ /\ t \in HoldTurn
          /\ LookUp(t, ReleaseKey[t])
          /\ Enters(t, "releasing")
       \/ /\ t \notin HoldTurn
          /\ Enters(t, "over")
          /\ UNCHANGED storeVars
    /\ UNCHANGED <<old, stale>>

\* An error of the release is logged.
ReleaseAnswered(t) ==
    /\ stage[t] = "releasing" /\ Answered(t)
    /\ Leave(t)
    /\ Enters(t, "over")
    /\ UNCHANGED <<old, stale>>

\* The transactions of the turn and of its calls end with it.
Die(t) ==
    /\ stage[t] \notin {"idle", "over"}
    /\ Enters(t, "over")
    /\ tx' = [p \in Proc |->
                IF p = t THEN NoTx
                ELSE IF p \in Call /\ TurnOf[p] = t /\ InCall(p)
                     THEN [step |-> "error", key |-> tx[p].key, seen |-> 0]
                     ELSE tx[p]]
    /\ UNCHANGED <<ledger, balance, paid, old, stale>>

------------------------------------------------------------------------------
(* release_stale_usage_holds                                                *)

Age(t) ==
    /\ HoldKey[t] \in ledger /\ t \notin old
    /\ old' = old \cup {t}
    /\ UNCHANGED <<storeVars, stage, stale>>

\* (mutant) exists for not exists.
StaleWithRelease == {t \in old : ReleaseKey[t] \in ledger}

\* (mutant) the listing forgets created_at.
StaleAtAnyAge == {t \in HoldTurn : HoldKey[t] \in ledger /\ ReleaseKey[t] \notin ledger}

Stale == {t \in old : ReleaseKey[t] \notin ledger}

ListStale(r) ==
    /\ stale[r] = {} /\ Stale # {}
    /\ stale' = [stale EXCEPT ![r] = Stale]
    /\ UNCHANGED <<storeVars, stage, old>>

ReleaseStale(r, t) ==
    /\ t \in stale[r]
    /\ LookUp(r, ReleaseKey[t])
    /\ UNCHANGED usageVars

\* One hold that cannot be released does not keep the others.
StaleAnswered(r, t) ==
    /\ t \in stale[r] /\ Answered(r) /\ tx[r].key = ReleaseKey[t]
    /\ Leave(r)
    /\ stale' = [stale EXCEPT ![r] = stale[r] \ {t}]
    /\ UNCHANGED <<stage, old>>

DieReaper(r) ==
    /\ stale[r] # {}
    /\ Leave(r)
    /\ stale' = [stale EXCEPT ![r] = {}]
    /\ UNCHANGED <<stage, old>>

ReaperStep(r) ==
    \/ ListStale(r) \/ DieReaper(r)
    \/ \E t \in HoldTurn : ReleaseStale(r, t) \/ StaleAnswered(r, t)

TurnStep(t) ==
    \/ BeginTurn(t) \/ CheckBalance(t) \/ EndWithoutHold(t)
    \/ EndTurn(t) \/ Die(t)
    \/ t \in HoldTurn /\ (\/ PlaceHold(t) \/ HoldAnswered(t)
                          \/ ReleaseAnswered(t) \/ Age(t))

UsageNext ==
    \/ \E t \in Turn : TurnStep(t)
    \/ \E c \in Call : DebitCall(c)
    \/ \E r \in Reaper : ReaperStep(r)
    \/ \E p \in Turn \cup Call \cup Reaper : StoreStep(p) /\ UNCHANGED usageVars

\* Time passes, transactions end, the worker's maintenance loop goes on, and the
\* database does not fail the job for ever.
UsageFairness ==
    /\ WF_vars(\E t \in HoldTurn : Age(t))
    /\ WF_vars(\E p \in Turn \cup Call : StoreStep(p) /\ UNCHANGED usageVars)
    /\ \A r \in Reaper :
        /\ WF_vars(ListStale(r))
        /\ SF_vars(\E t \in HoldTurn : ReleaseStale(r, t))
        /\ SF_vars(LockWallet(r) /\ UNCHANGED usageVars)
        /\ SF_vars(Commit(r) /\ UNCHANGED usageVars)
        /\ WF_vars(\E t \in HoldTurn : StaleAnswered(r, t))

UsageSpec == UsageInit /\ [][UsageNext]_vars /\ UsageFairness

------------------------------------------------------------------------------
(* Properties                                                               *)

\* A release is credited only for a hold that was debited, so that no order of
\* turns, errors and jobs makes money (billing_context.rs:186-207).
ReleaseFollowsHold ==
    \A t \in HoldTurn : ReleaseKey[t] \in ledger => HoldKey[t] \in ledger

\* A chat turn that spends has its estimate reserved, and keeps it while it runs
\* unless it is so old that the job takes it for dead ("All gates passed and
\* cache miss -> atomic hold for estimated platform spend", pipeline.rs:207).
RunsUnderHold ==
    \A t \in HoldTurn : stage[t] = "running" =>
        /\ HoldKey[t] \in ledger
        /\ ReleaseKey[t] \in ledger => t \in old

\* A hold that has been released has cost nothing: a wallet is worth its grants
\* minus the debits and the holds that are still out, in whatever order turns,
\* their calls and the job came by, and whoever of them released it ("the
\* estimated hold is released because actual usage is still charged via the usage
\* observer's `usage_debit`", billing_context.rs:111-115).
Settled(k) == \E t \in HoldTurn : ReleaseKey[t] \in ledger /\ k \in {HoldKey[t], ReleaseKey[t]}

SettledHoldsCostNothing ==
    \A u \in User : balance[u] = Total[{k \in ledger : OwnerOf[k] = u /\ ~Settled(k)}]

\* Every hold is given back, whoever died or failed on the way.
HoldsAreReturned ==
    \A t \in HoldTurn : HoldKey[t] \in ledger ~> ReleaseKey[t] \in ledger

------------------------------------------------------------------------------
(* Why: a release is only ever asked for when its hold is in the ledger and *)
(* its turn is through, or so old that the job takes it for dead.           *)

Releasable(t) ==
    /\ HoldKey[t] \in ledger
    /\ t \in old \/ stage[t] \in {"releasing", "over"}

ReleasesAreDue ==
    \A t \in HoldTurn :
        /\ ReleaseKey[t] \in ledger => Releasable(t)
        /\ \A p \in Proc : ~Idle(p) /\ tx[p].key = ReleaseKey[t] => Releasable(t)

HoldsAreKnown ==
    /\ \A t \in HoldTurn :
        /\ t \in old \/ stage[t] \in {"running", "releasing"} => HoldKey[t] \in ledger
        /\ stage[t] = "holding" => tx[t].key = HoldKey[t]
    /\ \A p \in Proc : tx[p].step = "applied" => tx[p].key \in ledger
    /\ \A r \in Reaper : stale[r] \subseteq old

\* The inductive invariant.  UsageTypeOK also says that a wallet row has one lock
\* and that its holder has read the present balance (pg_wallet_store.rs:165).
HoldInv == UsageTypeOK /\ ReleasesAreDue /\ HoldsAreKnown

UsageInv == HoldInv /\ BalancesAreTotals /\ SettledHoldsCostNothing
==============================================================================
