---------------------------- MODULE BillingSystem ----------------------------
(***************************************************************************)
(* Payments and invitations over one account: a top-up that is credited    *)
(* while a registration is under way raises the inviter's quota.           *)
(***************************************************************************)
EXTENDS BillingWebhooks, Referral

CONSTANTS
    Inviting       \* bound of the model: the scenarios with registrations

ASSUME SystemAssumption ==
    /\ Inviting \subseteq Scenario
    \* The keys of bonuses and of top-ups begin differently.
    /\ \A e \in Event, i \in Invitee : KindOf[e] \in TopUpKind =>
        TopUpKey[ItemOf[e]] \notin {InviterBonus[i], InviteeBonus[i]}

systemVars == <<accountVars, billingVars, referralVars>>

SystemInit == BillingInit /\ ReferralInit

SystemNext ==
    \/ BillingNext /\ UNCHANGED referralVars
    \/ scene \in Inviting /\ ReferralNext /\ UNCHANGED billingVars

SystemSpec == SystemInit /\ [][SystemNext]_systemVars /\ BillingFairness

SystemTypeOK == AccountTypeOK /\ BillingTypeOK /\ ReferralTypeOK

\* Beyond types: no row of the outbox is retried more often than process_outbox
\* grants, a handler that goes on has committed what is behind it, and a
\* registration pays in the order of finish_pending.
CommitInv ==
    /\ SystemTypeOK
    /\ HandlersInv /\ OutboxInv /\ RegistrationsInv
    /\ ProcessedMeansApplied /\ SentMeansNotified /\ RewardsBothOrNeither

\* The inductive invariant.
SystemInv ==
    /\ CommitInv
    /\ BalancesAreTotals
    /\ EventsAreReal /\ EntitlementsArePaid
    /\ ExpiryFindsPaidRow
==============================================================================
