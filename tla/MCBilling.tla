------------------------------ MODULE MCBilling ------------------------------
(* Instances of BillingSystem: an Alipay top-up, an Alipay plan, and a Creem *)
(* subscription that is paid, renewed and canceled.                           *)
EXTENDS BillingSystem

LOCAL INSTANCE FiniteSetsExt

CONSTANTS u1, i1, i2, topup, plan, creem, top, buy, pay, renew, cancel, h1, h2, none

TopUp == [kind |-> "topup", of |-> topup]
Inviter(i) == [kind |-> "referral_bonus_inviter", of |-> i]
Invited(i) == [kind |-> "referral_bonus_invitee", of |-> i]
MCPaidTopup == {TopUp}
MCKey == {TopUp} \cup {Inviter(i) : i \in {i1, i2}} \cup {Invited(i) : i \in {i1, i2}}
MCOwnerOf == [k \in MCKey |-> IF k.kind = "referral_bonus_invitee" THEN k.of ELSE u1]
MCAmountOf == [k \in MCKey |-> IF k = TopUp THEN 2 ELSE 1]
MCTotal == [K \in SUBSET MCKey |-> MapThenSumSet(LAMBDA k : MCAmountOf[k], K)]
MCInviterOf == [i \in {i1, i2} |-> u1]
MCInviterBonus == [i \in {i1, i2} |-> Inviter(i)]
MCInviteeBonus == [i \in {i1, i2} |-> Invited(i)]
MCTopUpKey == [x \in {topup} |-> TopUp]
MCKindOf == [e \in Event |-> CASE e = top -> "alipay_topup" [] e = buy -> "alipay_plan"
                               [] e = cancel -> "creem_canceled" [] OTHER -> "creem_paid"]
MCItemOf == [e \in Event |-> CASE e = top -> topup [] e = buy -> plan [] OTHER -> creem]
MCEndOf == [e \in Event |-> IF e = renew THEN 1 ELSE 0]
Scene(events, handlers, until) == [events |-> events, handlers |-> handlers, until |-> until]
MCInviting == {Scene({top}, {h1}, 0)}
MCScenario == MCInviting \cup {Scene({top}, {h1, h2}, 0), Scene({buy}, {h1}, 1), Scene({pay, cancel}, {h1}, 2)}
MCRenewals == {Scene({pay, renew}, {h1}, 2)}
MCBefore == [e \in Event |-> IF e \in {renew, cancel} THEN {pay} ELSE {}]
==============================================================================
