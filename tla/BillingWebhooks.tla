--------------------------- MODULE BillingWebhooks ---------------------------
(***************************************************************************)
(* Payments: the webhooks of Creem and Alipay, claimed under a lease and   *)
(* applied to orders, wallets, subscriptions and the outbox; the poll of   *)
(* an Alipay order, which applies the same event without a claim; and the  *)
(* worker's maintenance job, which expires subscriptions and sends what is *)
(* in the outbox.                                                          *)
(*                                                                         *)
(* Providers deliver an event late, more than once and in any order.  A    *)
(* handler may fail or die after any of its transactions, and may be so    *)
(* slow that its lease runs out; the claim carries no token.               *)
(***************************************************************************)
EXTENDS Account

CONSTANTS
    Handler,       \* requests that may be handled at once
    Item,          \* what is paid for: an order or a provider subscription id
    Event, NoEvent,
    KindOf,        \* KindOf[e]: the kind of event e
    ItemOf,        \* ItemOf[e]: what it is about
    EndOf,         \* EndOf[e]: the period end a Creem "paid" event names
    Before,        \* Before[e]: the events that happen before e
    TopUpKey,      \* TopUpKey[x]: the idempotency key topup:{provider}:{x}
    Days,          \* the length of an Alipay period
    Scenario,      \* bounds of the model: which events happen together, which
                   \* requests are handled at once then, and the last tick
    MaxNow,        \* bound of the model: the last tick of any scenario
    MaxRetry       \* how often a row of the outbox is retried

Kind == {"alipay_topup", "alipay_plan", "creem_topup", "creem_paid", "creem_canceled"}

TopUpKind == {"alipay_topup", "creem_topup"}
PeriodKind == {"alipay_plan", "creem_paid"}
AlipayKind == {"alipay_topup", "alipay_plan"}

ASSUME BillingAssumption ==
    /\ NoEvent \notin Event
    /\ KindOf \in [Event -> Kind] /\ ItemOf \in [Event -> Item]
    /\ Before \in [Event -> SUBSET Event]
    /\ Scenario \subseteq [events : SUBSET Event, handlers : SUBSET Handler, until : 0..MaxNow]
    /\ MaxNow \in Nat /\ Days \in Nat \ {0} /\ MaxRetry \in Nat
    /\ \A e \in Event : KindOf[e] = "creem_canceled" =>
         \E f \in Before[e] : KindOf[f] \in PeriodKind /\ ItemOf[f] = ItemOf[e]
    /\ EndOf \in [Event -> 0..(MaxNow + Days)]
    /\ \A e \in Event : KindOf[e] \in TopUpKind => TopUpKey[ItemOf[e]] \in PaidTopup
    \* The key names the provider and its order.
    /\ \A e, f \in Event : {KindOf[e], KindOf[f]} \subseteq TopUpKind
         /\ TopUpKey[ItemOf[e]] = TopUpKey[ItemOf[f]] => ItemOf[e] = ItemOf[f]

VARIABLES
    now,           \* the clock
    scene,         \* the scenario of this behaviour; it does not change
    happened,      \* the events that have happened at the providers
    order,         \* order[x]: the status of the billing_orders row
    webhook,       \* webhook[e]: the webhook_events row; "stale" is processing
                   \* with a lease that has run out
    handler,       \* handler[h]: the event a request applies, and how far it is
    sub,           \* sub[x]: the subscriptions row
    outbox,        \* outbox[<<x, n>>]: the billing_outbox row with the dedupe
                   \* key "{x}:expired:{n}"
    notified,      \* the outbox rows a notification was inserted for
    job            \* what the maintenance job is doing

billingVars == <<now, scene, happened, order, webhook, handler, sub, outbox, notified, job>>
allVars == <<accountVars, billingVars>>

Subscription == {ItemOf[e] : e \in {f \in Event : KindOf[f] \in PeriodKind}}

Instant == 0..(MaxNow + Days)
OutboxKey == Subscription \X Instant

NoHandler == [event |-> NoEvent, by |-> "webhook", step |-> "idle"]
NoJob == [doing |-> "nothing", rows |-> {}]
Row(type, status, retries) == [type |-> type, status |-> status, retries |-> retries]
NoRow == Row("none", "none", 0)

BillingTypeOK ==
    /\ now \in 0..MaxNow
    /\ scene \in Scenario /\ happened \subseteq scene.events
    /\ order \in [Item -> {"none", "pending", "paid"}]
    /\ webhook \in [Event -> {"none", "processing", "stale", "failed", "processed"}]
    /\ handler \in [Handler -> [event : Event \cup {NoEvent}, by : {"webhook", "poll"},
                                step : {"idle", "apply", "credit", "done"}]]
    /\ sub \in [Subscription -> [status : {"none", "active", "canceled", "expired"}, ends : Instant]]
    /\ outbox \in [OutboxKey -> [type : {"none", "paid", "expired"},
                                 status : {"none", "pending", "sent", "failed"},
                                 retries : 0..(MaxRetry + 1)]]
    /\ notified \subseteq OutboxKey
    /\ job \in [doing : {"nothing", "expiring", "notified"}, rows : SUBSET OutboxKey]

BillingInit ==
    /\ AccountInit
    /\ now = 0
    /\ scene \in Scenario
    /\ happened = {}
    /\ order = [x \in Item |-> "none"]
    /\ webhook = [e \in Event |-> "none"]
    /\ handler = [h \in Handler |-> NoHandler]
    /\ sub = [x \in Subscription |-> [status |-> "none", ends |-> 0]]
    /\ outbox = [k \in OutboxKey |-> NoRow]
    /\ notified = {}
    /\ job = NoJob

------------------------------------------------------------------------------
(* The world outside                                                        *)

Tick ==
    /\ now < scene.until
    /\ now' = now + 1
    /\ UNCHANGED <<accountVars, scene, happened, order, webhook, handler, sub, outbox, notified, job>>

\* An Alipay order is inserted before its QR code is made.
Checkout(e) ==
    /\ KindOf[e] \in AlipayKind /\ order[ItemOf[e]] = "none"
    /\ order' = [order EXCEPT ![ItemOf[e]] = "pending"]
    /\ UNCHANGED <<accountVars, now, scene, happened, webhook, handler, sub, outbox, notified, job>>

Happen(e) ==
    /\ e \in scene.events \ happened /\ Before[e] \subseteq happened
    /\ KindOf[e] \in AlipayKind => order[ItemOf[e]] = "pending"
    /\ happened' = happened \cup {e}
    /\ UNCHANGED <<accountVars, now, scene, order, webhook, handler, sub, outbox, notified, job>>

------------------------------------------------------------------------------
(* handle_webhook and get_order_status                                      *)

\* A poll has nothing to mark when it is done.
Goes(h, step) ==
    handler' = [handler EXCEPT ![h] =
                  IF step = "done" /\ handler[h].by = "poll" THEN NoHandler
                  ELSE [event |-> handler[h].event, by |-> handler[h].by, step |-> step]]

\* update_webhook_lease_status by (provider, event_id), whoever has the claim.
Marks(h, status) ==
    /\ webhook' = IF handler[h].by = "poll" THEN webhook
                  ELSE [webhook EXCEPT ![handler[h].event] = status]
    /\ handler' = [handler EXCEPT ![h] = NoHandler]

\* (mutant) a failed delivery is not taken again.
ClaimableUnlessFailed(e) == webhook[e] \in {"none", "stale"}

Claimable(e) == webhook[e] \in {"none", "stale", "failed"}

\* A delivery that may not claim its event changes nothing: "processed" is
\* answered with ok, a fresh lease with an error.
Claim(h, e) ==
    /\ h \in scene.handlers /\ handler[h].step = "idle" /\ e \in happened
    /\ Claimable(e)
    /\ webhook' = [webhook EXCEPT ![e] = "processing"]
    /\ handler' = [handler EXCEPT ![h] = [event |-> e, by |-> "webhook", step |-> "apply"]]
    /\ UNCHANGED <<accountVars, now, scene, happened, order, sub, outbox, notified, job>>

\* The browser polls a pending order, and the provider says it is paid.
Poll(h, e) ==
    /\ h \in scene.handlers /\ handler[h].step = "idle" /\ e \in happened
    /\ KindOf[e] \in AlipayKind /\ order[ItemOf[e]] = "pending"
    /\ handler' = [handler EXCEPT ![h] = [event |-> e, by |-> "poll", step |-> "apply"]]
    /\ UNCHANGED <<accountVars, now, scene, happened, order, webhook, sub, outbox, notified, job>>

\* INSERT ... ON CONFLICT (dedupe_key) DO NOTHING
Announced(rows, type) ==
    [k \in OutboxKey |->
        IF k \in rows /\ outbox[k].type = "none"
        THEN Row(type, "pending", 0) ELSE outbox[k]]

\* Alipay names no period: it begins now.
PeriodEnd(e) == IF KindOf[e] = "alipay_plan" THEN now + Days ELSE EndOf[e]

\* (mutant) a cancellation that comes first inserts its row.
CancelInserts(x) == [status |-> "canceled", ends |-> sub[x].ends]

\* UPDATE subscriptions ... WHERE provider_subscription_id = $1
Canceled(x) == [status |-> IF sub[x].status = "none" THEN "none" ELSE "canceled",
                ends |-> sub[x].ends]

\* process_webhook_event: what is committed in one transaction.  A top-up is
\* credited after it, by a call of its own.
Fulfil(h) ==
    LET e == handler[h].event
        x == ItemOf[e]
    IN
    /\ handler[h].step = "apply"
    /\ \/ /\ KindOf[e] \in TopUpKind
          /\ order' = [order EXCEPT ![x] = "paid"]
          /\ Goes(h, "credit")
          /\ UNCHANGED <<sub, outbox>>
       \/ /\ KindOf[e] \in PeriodKind
          /\ order' = [order EXCEPT ![x] = "paid"]
          /\ sub' = [sub EXCEPT ![x] = [status |-> "active", ends |-> PeriodEnd(e)]]
          /\ outbox' = Announced({<<x, PeriodEnd(e)>>}, "paid")
          /\ Goes(h, "done")
       \/ /\ KindOf[e] = "creem_canceled"
          /\ sub' = [sub EXCEPT ![x] = Canceled(x)]
          /\ Goes(h, "done")
          /\ UNCHANGED <<order, outbox>>
    /\ UNCHANGED <<accountVars, now, scene, happened, webhook, notified, job>>

CreditTopUp(h) ==
    /\ handler[h].step = "credit"
    /\ Credit(TopUpKey[ItemOf[handler[h].event]])
    /\ Goes(h, "done")
    /\ UNCHANGED <<now, scene, happened, order, webhook, sub, outbox, notified, job>>

\* (mutant) the delivery is marked when its order is paid.
FinishEarly(h) ==
    /\ handler[h].step \in {"credit", "done"}
    /\ Marks(h, "processed")
    /\ UNCHANGED <<accountVars, now, scene, happened, order, sub, outbox, notified, job>>

Finish(h) ==
    /\ handler[h].step = "done"
    /\ Marks(h, "processed")
    /\ UNCHANGED <<accountVars, now, scene, happened, order, sub, outbox, notified, job>>

\* A statement fails, and nothing of its transaction stays.
Fail(h) ==
    /\ handler[h].step \in {"apply", "credit"}
    /\ Marks(h, "failed")
    /\ UNCHANGED <<accountVars, now, scene, happened, order, sub, outbox, notified, job>>

\* The request is dropped or its process dies.  The claim stays.
Drop(h) ==
    /\ handler[h].step # "idle"
    /\ handler' = [handler EXCEPT ![h] = NoHandler]
    /\ UNCHANGED <<accountVars, now, scene, happened, order, webhook, sub, outbox, notified, job>>

\* Five minutes have passed since the claim.
LeaseEnds(e) ==
    /\ webhook[e] = "processing"
    /\ webhook' = [webhook EXCEPT ![e] = "stale"]
    /\ UNCHANGED <<accountVars, now, scene, happened, order, handler, sub, outbox, notified, job>>

------------------------------------------------------------------------------
(* The maintenance job, on one replica: expire_subscriptions, process_outbox *)

Due == {<<x, sub[x].ends>> : x \in {y \in Subscription : sub[y].status = "active" /\ sub[y].ends < now}}

ExpireRead ==
    /\ job.doing = "nothing" /\ Due # {}
    /\ job' = [doing |-> "expiring", rows |-> Due]
    /\ UNCHANGED <<accountVars, now, scene, happened, order, webhook, handler, sub, outbox, notified>>

\* (mutant) only what the INSERT into the outbox was new for.
ExpireWriteIfNew ==
    /\ job.doing = "expiring"
    /\ sub' = [x \in Subscription |->
                  IF \E n \in Instant : <<x, n>> \in job.rows /\ outbox[<<x, n>>].type = "none"
                  THEN [status |-> "expired", ends |-> sub[x].ends] ELSE sub[x]]
    /\ outbox' = Announced(job.rows, "expired")
    /\ job' = NoJob
    /\ UNCHANGED <<accountVars, now, scene, happened, order, webhook, handler, notified>>

\* UPDATE ... WHERE id = $1: the row is not read again.
ExpireWrite ==
    /\ job.doing = "expiring"
    /\ sub' = [x \in Subscription |-> IF \E n \in Instant : <<x, n>> \in job.rows
                              THEN [status |-> "expired", ends |-> sub[x].ends] ELSE sub[x]]
    /\ outbox' = Announced(job.rows, "expired")
    /\ job' = NoJob
    /\ UNCHANGED <<accountVars, now, scene, happened, order, webhook, handler, notified>>

\* emit_billing_notification, in a transaction of its own.
Notify(k) ==
    /\ job.doing = "nothing" /\ outbox[k].status = "pending"
    /\ notified' = notified \cup {k}
    /\ job' = [doing |-> "notified", rows |-> {k}]
    /\ UNCHANGED <<accountVars, now, scene, happened, order, webhook, handler, sub, outbox>>

MarkSent ==
    /\ job.doing = "notified"
    /\ outbox' = [k \in OutboxKey |->
                    IF k \in job.rows THEN Row(outbox[k].type, "sent", outbox[k].retries)
                    ELSE outbox[k]]
    /\ job' = NoJob
    /\ UNCHANGED <<accountVars, now, scene, happened, order, webhook, handler, sub, notified>>

\* (mutant) a failed notification is marked like a sent one.
AfterFailureSent(k) == Row(outbox[k].type, "sent", outbox[k].retries)

\* (mutant) the retries are not counted.
AfterFailureAgain(k) == outbox[k]

\* (mutant) one more retry than the code grants.
AfterFailureOnceMore(k) ==
    Row(outbox[k].type, IF outbox[k].retries > MaxRetry THEN "failed" ELSE "pending",
        outbox[k].retries + 1)

AfterFailure(k) ==
    Row(outbox[k].type, IF outbox[k].retries + 1 > MaxRetry THEN "failed" ELSE "pending",
        outbox[k].retries + 1)

\* The notification could not be inserted.
MarkFailed(k) ==
    /\ job.doing = "nothing" /\ outbox[k].status = "pending"
    /\ outbox' = [outbox EXCEPT ![k] = AfterFailure(k)]
    /\ UNCHANGED <<accountVars, now, scene, happened, order, webhook, handler, sub, notified, job>>

\* The worker dies, between a notification and its mark, say.
DropJob ==
    /\ job.doing # "nothing"
    /\ job' = NoJob
    /\ UNCHANGED <<accountVars, now, scene, happened, order, webhook, handler, sub, outbox, notified>>

------------------------------------------------------------------------------
HandlerStep(h) ==
    Fulfil(h) \/ CreditTopUp(h) \/ Finish(h) \/ Fail(h) \/ Drop(h)

JobStep ==
    \/ ExpireRead \/ ExpireWrite \/ MarkSent \/ DropJob
    \/ \E k \in OutboxKey : Notify(k) \/ MarkFailed(k)

BillingNext ==
    \/ Tick
    \/ \E e \in Event : Checkout(e) \/ Happen(e) \/ LeaseEnds(e)
    \/ \E h \in Handler : HandlerStep(h) \/ \E e \in Event : Claim(h, e) \/ Poll(h, e)
    \/ JobStep

\* A provider delivers the notification of a top-up again until it is answered
\* with ok, time passes, and neither requests nor the job fail for ever.
BillingFairness ==
    /\ \A e \in {f \in Event : KindOf[f] \in TopUpKind} :
        /\ WF_allVars(LeaseEnds(e))
        /\ SF_allVars(\E h \in Handler : Claim(h, e))
        /\ SF_allVars(\E h \in Handler : handler[h].event = e /\ Fulfil(h))
        /\ SF_allVars(\E h \in Handler : handler[h].event = e /\ CreditTopUp(h))
    /\ \A h \in Handler : WF_allVars(HandlerStep(h))
    /\ SF_allVars(ExpireRead) /\ SF_allVars(ExpireWrite)
    /\ SF_allVars(MarkSent \/ \E k \in OutboxKey : MarkFailed(k))

BillingSpec == BillingInit /\ [][BillingNext]_allVars /\ BillingFairness

------------------------------------------------------------------------------
(* Properties                                                               *)

\* An event is applied as far as its order and its outbox row go.
Recorded(e) ==
    /\ KindOf[e] # "creem_canceled" => order[ItemOf[e]] = "paid"
    /\ KindOf[e] = "creem_paid" => outbox[<<ItemOf[e], EndOf[e]>>].type # "none"

Credited(e) == KindOf[e] \in TopUpKind => TopUpKey[ItemOf[e]] \in applied

\* A delivery that is acknowledged for good has done all it stands for, also
\* when several requests worked on it: the order is paid, a paid period has its
\* row in the outbox, and the money of a top-up is in the wallet
\* (service.rs:567-590 marks the event after process_webhook_event).
ProcessedMeansApplied ==
    \A e \in Event : webhook[e] = "processed" => Recorded(e) /\ Credited(e)

\* Nobody gets what nobody paid: behind a top-up in the wallet and behind a
\* subscription, even a canceled one, there is an order marked paid, and behind
\* that a payment at the provider, in whatever order its events arrive
\* (process.rs:191-340; a cancellation updates a row and never inserts one, :130).
EntitlementsArePaid ==
    /\ \A e \in Event : KindOf[e] \in TopUpKind /\ TopUpKey[ItemOf[e]] \in applied
                         => order[ItemOf[e]] = "paid"
    /\ \A x \in Subscription : sub[x].status # "none" => order[x] = "paid"
    /\ \A x \in Item : order[x] = "paid" =>
         \E e \in happened : ItemOf[e] = x /\ KindOf[e] # "creem_canceled"

\* Whatever dies between a notification and its mark, a row that counts as sent
\* had its notification (maintenance.rs:270-301).
SentMeansNotified ==
    \A k \in OutboxKey : outbox[k].status = "sent" => k \in notified

\* A paid top-up reaches the wallet, through failing and overtaken handlers and
\* polls that stop half-way ("This recovers when notify was missed or failed",
\* service.rs:449).
TopUpIsCredited ==
    \A e \in Event : KindOf[e] \in TopUpKind =>
        (e \in happened ~> TopUpKey[ItemOf[e]] \in applied)

\* A period that has run out does not stay active (expire_subscriptions).
LapsedEnds ==
    \A x \in Subscription : sub[x].status = "active" /\ sub[x].ends < now
                       ~> ~(sub[x].status = "active" /\ sub[x].ends < now)

\* A row of the outbox is sent or given up: its retries are counted and bounded
\* (process_outbox: more than three retries and it has failed).
OutboxSettles ==
    \A k \in OutboxKey : outbox[k].status = "pending" ~> outbox[k].status \in {"sent", "failed"}

\* The owner of an expired subscription is told: "subscription-paid /
\* subscription-expired / billing-update", "billing outbox"
\* (avrag-rs/notifications/README.md:14).
ExpiryIsAnnounced ==
    \A x \in Subscription : sub[x].status = "expired" =>
        \E n \in Instant : outbox[<<x, n>>].type = "expired"

------------------------------------------------------------------------------
(* Why: what a handler has behind it is committed and is never undone, and  *)
(* the job inserts the notification before it marks the row.                *)

HandlersInv ==
    \A h \in Handler : LET e == handler[h].event IN
        /\ handler[h].step # "idle" => e \in Event
        /\ handler[h].step \in {"credit", "done"} => Recorded(e)
        /\ handler[h].step = "credit" => KindOf[e] \in TopUpKind
        /\ handler[h].step = "done" => Credited(e)

\* A request works on what has happened, and an expiry on subscriptions that exist.
EventsAreReal ==
    /\ \A h \in Handler : handler[h].step # "idle" => handler[h].event \in happened
    /\ job.doing = "expiring" => \A k \in job.rows : sub[k[1]].status # "none"

\* No expiry finds its key free: the payment of the period took it, and rows of
\* the outbox are never removed.  This is why ExpiryIsAnnounced fails, and that
\* it fails for every subscription.
ExpiryFindsPaidRow ==
    /\ \A x \in Subscription : sub[x].status # "none" => outbox[<<x, sub[x].ends>>].type = "paid"
    /\ job.doing = "expiring" => \A k \in job.rows : outbox[k].type = "paid"
    /\ \A k \in OutboxKey : outbox[k].type # "expired"

OutboxInv ==
    /\ job.doing = "notified" => job.rows \subseteq notified
    /\ \A k \in OutboxKey : outbox[k].status = "pending" => outbox[k].retries <= MaxRetry
==============================================================================
