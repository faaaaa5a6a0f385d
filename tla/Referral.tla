------------------------------ MODULE Referral ------------------------------
(***************************************************************************)
(* apply_referral_on_register: a user who registers with an invite code is *)
(* bound to the inviter, the inviter's quota and today's rewards are       *)
(* counted, and both sides are paid a bonus, one ledger entry after the    *)
(* other.                                                                  *)
(*                                                                         *)
(* Registrations run at the same time.  Each calls the function once, and  *)
(* may fail or die after any of its transactions.                          *)
(***************************************************************************)
EXTENDS Account, FiniteSets

CONSTANTS
    Invitee,       \* users who register with a code
    InviterOf,     \* InviterOf[i]: the user whose code i enters
    InviterBonus,  \* the keys referral_bonus:inviter:{i}
    InviteeBonus,  \* and referral_bonus:invitee:{i}
    BaseQuota, TopupStep,
    DailyCap       \* REFERRAL_MAX_REWARDS_PER_DAY; 0 turns the cap off

ASSUME ReferralAssumption ==
    /\ InviterOf \in [Invitee -> User]
    /\ \A i \in Invitee : InviterOf[i] # i
    /\ InviterBonus \in [Invitee -> Key] /\ InviteeBonus \in [Invitee -> Key]
    \* Either key names the side and the invitee.
    /\ \A i, j \in Invitee :
        /\ InviterBonus[i] # InviteeBonus[j]
        /\ InviterBonus[i] = InviterBonus[j] \/ InviteeBonus[i] = InviteeBonus[j] => i = j
    /\ BaseQuota \in Nat /\ TopupStep \in Nat \ {0} /\ DailyCap \in Nat

VARIABLES
    referral,      \* referral[i]: the status of the row of invitee i
    today,         \* the rows with a rewarded_at of today
    register,      \* register[i]: how far the registration of i is
    quota          \* quota[i]: the quota it has computed

referralVars == <<referral, today, register, quota>>

ReferralTypeOK ==
    /\ referral \in [Invitee -> {"none", "pending", "rewarded", "rejected"}]
    /\ today \subseteq Invitee
    /\ register \in [Invitee -> {"new", "bound", "weighed", "counted", "cleared", "refused",
                                 "inviter_paid", "both_paid", "over"}]
    /\ quota \in [Invitee -> Nat]

ReferralInit ==
    /\ referral = [i \in Invitee |-> "none"]
    /\ today = {}
    /\ register = [i \in Invitee |-> "new"]
    /\ quota = [i \in Invitee |-> 0]

Moves(i, from, to) ==
    /\ register[i] = from
    /\ register' = [register EXCEPT ![i] = to]

\* insert_pending; the code was found and is not the user's own.
Bind(i) ==
    /\ Moves(i, "new", "bound")
    /\ referral' = [referral EXCEPT ![i] = "pending"]
    /\ UNCHANGED <<accountVars, today, quota>>

\* referral_quota of the inviter's paid top-ups so far.
Weigh(i) ==
    /\ Moves(i, "bound", "weighed")
    /\ quota' = [quota EXCEPT ![i] = BaseQuota + paid[InviterOf[i]] \div TopupStep]
    /\ UNCHANGED <<accountVars, referral, today>>

Rewarded(i) == {j \in Invitee : InviterOf[j] = InviterOf[i] /\ referral[j] = "rewarded"}

CountAll(i) ==
    /\ Moves(i, "weighed", IF Cardinality(Rewarded(i)) >= quota[i] THEN "refused" ELSE "counted")
    /\ UNCHANGED <<accountVars, referral, today, quota>>

CountToday(i) ==
    /\ Moves(i, "counted", IF DailyCap > 0 /\ Cardinality(Rewarded(i) \cap today) >= DailyCap
                           THEN "refused" ELSE "cleared")
    /\ UNCHANGED <<accountVars, referral, today, quota>>

MarkRejected(i) ==
    /\ Moves(i, "refused", "over")
    /\ referral' = [referral EXCEPT ![i] = "rejected"]
    /\ UNCHANGED <<accountVars, today, quota>>

PayInviter(i) ==
    /\ Moves(i, "cleared", "inviter_paid")
    /\ Credit(InviterBonus[i])
    /\ UNCHANGED <<referral, today, quota>>

\* (mutant) an error of the second grant is logged.
PayInviteeBestEffort(i) ==
    /\ Moves(i, "inviter_paid", "both_paid")
    /\ Credit(InviteeBonus[i]) \/ UNCHANGED accountVars
    /\ UNCHANGED <<referral, today, quota>>

PayInvitee(i) ==
    /\ Moves(i, "inviter_paid", "both_paid")
    /\ Credit(InviteeBonus[i])
    /\ UNCHANGED <<referral, today, quota>>

MarkRewarded(i) ==
    /\ Moves(i, "both_paid", "over")
    /\ referral' = [referral EXCEPT ![i] = "rewarded"]
    /\ today' = today \cup {i}
    /\ UNCHANGED <<accountVars, quota>>

\* An error is logged and does not stop the registration; nobody tries again.
GiveUp(i) ==
    /\ register[i] # "over"
    /\ register' = [register EXCEPT ![i] = "over"]
    /\ UNCHANGED <<accountVars, referral, today, quota>>

NextDay ==
    /\ today # {}
    /\ today' = {}
    /\ UNCHANGED <<accountVars, referral, register, quota>>

ReferralNext ==
    \/ NextDay
    \/ \E i \in Invitee :
        \/ Bind(i) \/ Weigh(i) \/ CountAll(i) \/ CountToday(i) \/ MarkRejected(i)
        \/ PayInviter(i) \/ PayInvitee(i) \/ MarkRewarded(i) \/ GiveUp(i)

------------------------------------------------------------------------------
\* A rewarded invitation has paid both sides and a rejected one neither
\* ("over-quota rejects both sides without grant", referral.rs:5).
RewardsBothOrNeither ==
    \A i \in Invitee :
        /\ referral[i] = "rewarded" => {InviterBonus[i], InviteeBonus[i]} \subseteq applied
        /\ referral[i] = "rejected" => {InviterBonus[i], InviteeBonus[i]} \cap applied = {}

------------------------------------------------------------------------------
(* Why: a registration pays before it marks the row, and marks it last.     *)

Unpaid(i) == {InviterBonus[i], InviteeBonus[i]} \cap applied = {}

RegistrationsInv ==
    \A i \in Invitee :
        /\ register[i] \in {"new", "bound", "weighed", "counted", "cleared", "refused"} => Unpaid(i)
        /\ register[i] \in {"inviter_paid", "both_paid"} => InviterBonus[i] \in applied
        /\ register[i] = "both_paid" => InviteeBonus[i] \in applied
        /\ register[i] # "over" => referral[i] \in {"none", "pending"}
==============================================================================
