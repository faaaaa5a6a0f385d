------------------------- MODULE BillingSystemProofs -------------------------
(***************************************************************************)
(* Proofs about BillingSystem, for any set of events, requests and         *)
(* registrations.                                                          *)
(***************************************************************************)
EXTENDS BillingSystem, TLAPS

\* What webhooks and the job keep, and what registrations keep.
BillingInv ==
  BillingTypeOK /\ HandlersInv /\ OutboxInv /\ ProcessedMeansApplied /\ SentMeansNotified

ReferralInv == ReferralTypeOK /\ RegistrationsInv /\ RewardsBothOrNeither

LEMMA CommitInvIs == CommitInv <=> AccountTypeOK /\ BillingInv /\ ReferralInv
  BY DEF CommitInv, SystemTypeOK, BillingInv, ReferralInv

LEMMA InitEstablishesCommitInv == SystemInit => CommitInv
  <1> SUFFICES ASSUME SystemInit PROVE CommitInv
    OBVIOUS
  <1>1. AccountTypeOK
    BY DEF SystemInit, BillingInit, AccountInit, AccountTypeOK
  <1>2. BillingTypeOK
    BY BillingAssumption
       DEF SystemInit, BillingInit, BillingTypeOK, NoHandler, NoJob, NoRow, Row, Instant
  <1>3. HandlersInv /\ OutboxInv /\ ProcessedMeansApplied /\ SentMeansNotified
    BY DEF SystemInit, BillingInit, HandlersInv, OutboxInv, ProcessedMeansApplied,
           SentMeansNotified, NoHandler, NoJob, NoRow, Row
  <1>4. ReferralInv
    BY DEF SystemInit, BillingInit, AccountInit, ReferralInit, ReferralInv, ReferralTypeOK,
           RegistrationsInv, RewardsBothOrNeither, Unpaid
  <1> QED BY <1>1, <1>2, <1>3, <1>4, CommitInvIs DEF BillingInv

------------------------------------------------------------------------------
(* The account.                                                             *)

\* A credit leaves its entry in the ledger, and no other new one.
LEMMA CreditEffect ==
  ASSUME AccountTypeOK, NEW k \in Key, Credit(k)
  PROVE  /\ AccountTypeOK'
         /\ applied' = applied \cup {k}
  <1>1. OwnerOf[k] \in User /\ AmountOf[k] \in Int /\ PaidBump(k) \in Nat
    BY AccountAssumption DEF PaidBump
  <1>2. CASE Apply(k)
    <2>1. balance[OwnerOf[k]] + AmountOf[k] \in Nat
      BY <1>1, <1>2 DEF Apply, Covers, AccountTypeOK
    <2>2. paid[OwnerOf[k]] + PaidBump(k) \in Nat
      BY <1>1 DEF AccountTypeOK
    <2> QED BY <1>1, <1>2, <2>1, <2>2 DEF Apply, AccountTypeOK
  <1>3. CASE k \in applied /\ UNCHANGED accountVars
    BY <1>3 DEF accountVars, AccountTypeOK
  <1> QED BY <1>2, <1>3 DEF Credit

LEMMA AccountStutters ==
  ASSUME AccountTypeOK, UNCHANGED accountVars
  PROVE  AccountTypeOK' /\ applied' = applied
  BY DEF accountVars, AccountTypeOK

------------------------------------------------------------------------------
(* The rows of the outbox.                                                  *)

OutboxRow == [type : {"none", "paid", "expired"},
              status : {"none", "pending", "sent", "failed"},
              retries : 0..(MaxRetry + 1)]

\* No announcement is ever taken back.
OutboxKept ==
  \A k \in OutboxKey : outbox[k].type # "none" => outbox'[k].type # "none"

\* Rows keep their bounds, and only what a notification was inserted for is sent.
OutboxGood(rows, notes) ==
  /\ rows \in [OutboxKey -> OutboxRow]
  /\ \A k \in OutboxKey : rows[k].status = "pending" => rows[k].retries <= MaxRetry
  /\ \A k \in OutboxKey : rows[k].status = "sent" => k \in notes

LEMMA AnnouncedEffect ==
  ASSUME OutboxGood(outbox, notified), NEW rows, NEW type \in {"paid", "expired"},
         outbox' = Announced(rows, type)
  PROVE  /\ OutboxKept /\ OutboxGood(outbox', notified)
         /\ \A k \in OutboxKey : k \in rows => outbox'[k].type # "none"
  <1>1. Row(type, "pending", 0) \in OutboxRow
    BY BillingAssumption DEF Row, OutboxRow
  <1>2. ASSUME NEW k \in OutboxKey
        PROVE  \/ k \in rows /\ outbox[k].type = "none" /\ outbox'[k] = Row(type, "pending", 0)
               \/ ~(k \in rows /\ outbox[k].type = "none") /\ outbox'[k] = outbox[k]
    BY DEF Announced
  <1>3. outbox' \in [OutboxKey -> OutboxRow]
    BY <1>1 DEF Announced, OutboxGood
  <1>4. /\ Row(type, "pending", 0).type = type /\ Row(type, "pending", 0).status = "pending"
        /\ Row(type, "pending", 0).retries = 0
    BY DEF Row
  <1>5. 0 <= MaxRetry
    BY BillingAssumption
  <1> QED BY <1>2, <1>3, <1>4, <1>5 DEF OutboxKept, OutboxGood
------------------------------------------------------------------------------
(* What no step undoes.                                                     *)

EventsKept ==
  /\ applied \subseteq applied'
  /\ \A x \in Item : order[x] = "paid" => order'[x] = "paid"
  /\ OutboxKept

\* A period that Creem names has its place in the outbox.
LEMMA NamedPeriod ==
  ASSUME NEW e \in Event, KindOf[e] = "creem_paid"
  PROVE  <<ItemOf[e], EndOf[e]>> \in OutboxKey
  <1>1. ItemOf[e] \in Subscription
    BY DEF Subscription, PeriodKind
  <1>2. EndOf[e] \in Instant
    BY BillingAssumption DEF Instant
  <1> QED BY <1>1, <1>2 DEF OutboxKey

LEMMA RecordsStay ==
  ASSUME EventsKept, NEW e \in Event
  PROVE  (Recorded(e) => Recorded(e)') /\ (Credited(e) => Credited(e)')
  <1>1. ItemOf[e] \in Item
    BY BillingAssumption
  <1>2. Recorded(e) => Recorded(e)'
    BY <1>1, NamedPeriod DEF EventsKept, OutboxKept, Recorded
  <1>3. Credited(e) => Credited(e)'
    BY DEF EventsKept, Credited
  <1> QED BY <1>2, <1>3

\* A delivery may be marked as processed when its event is applied.
LEMMA MarkedWhenApplied ==
  ASSUME ProcessedMeansApplied, EventsKept,
         \A e \in Event : webhook'[e] = "processed" =>
            webhook[e] = "processed" \/ (Recorded(e) /\ Credited(e))
  PROVE  ProcessedMeansApplied'
  BY RecordsStay DEF ProcessedMeansApplied

HandlerRow == [event : Event \cup {NoEvent}, by : {"webhook", "poll"},
               step : {"idle", "apply", "credit", "done"}]

\* One handler moves, and may do so because of what is committed by now.
LEMMA OneHandlerMoves ==
  ASSUME BillingTypeOK, HandlersInv, EventsKept,
         NEW h \in Handler, NEW r \in HandlerRow,
         handler' = [handler EXCEPT ![h] = r],
         r.step # "idle" => r.event \in Event,
         r.step \in {"credit", "done"} => Recorded(r.event)',
         r.step = "credit" => KindOf[r.event] \in TopUpKind,
         r.step = "done" => Credited(r.event)'
  PROVE  handler' \in [Handler -> HandlerRow] /\ HandlersInv'
  <1>1. handler' \in [Handler -> HandlerRow]
    BY DEF BillingTypeOK, HandlerRow
  <1>2. ASSUME NEW g \in Handler, NEW e, e = handler'[g].event
        PROVE  /\ handler'[g].step # "idle" => e \in Event
               /\ handler'[g].step \in {"credit", "done"} => Recorded(e)'
               /\ handler'[g].step = "credit" => KindOf[e] \in TopUpKind
               /\ handler'[g].step = "done" => Credited(e)'
    <2>1. CASE g = h
      BY <1>2, <2>1 DEF BillingTypeOK
    <2>2. CASE g # h
      <3>1. handler'[g] = handler[g]
        BY <2>2 DEF BillingTypeOK
      <3> QED BY <1>2, <3>1, RecordsStay DEF HandlersInv
    <2> QED BY <2>1, <2>2
  <1> QED BY <1>1, <1>2 DEF HandlersInv

LEMMA HandlersRest ==
  ASSUME HandlersInv, EventsKept, UNCHANGED handler
  PROVE  HandlersInv'
  BY RecordsStay DEF HandlersInv

LEMMA EventsRest ==
  ASSUME UNCHANGED <<applied, order, outbox>>
  PROVE  EventsKept
  BY DEF EventsKept, OutboxKept

LEMMA OutboxRests ==
  ASSUME OutboxInv, SentMeansNotified, UNCHANGED <<outbox, job, notified>>
  PROVE  OutboxInv' /\ SentMeansNotified'
  BY DEF OutboxInv, SentMeansNotified

\* No bonus is paid.
NoBonus ==
  \A i \in Invitee : {InviterBonus[i], InviteeBonus[i]} \cap applied' \subseteq applied

------------------------------------------------------------------------------
(* The world outside keeps the invariant.                                   *)

LEMMA TickKeeps ==
  ASSUME AccountTypeOK, BillingInv, Tick
  PROVE  AccountTypeOK' /\ BillingInv' /\ NoBonus
  <1>1. AccountTypeOK' /\ applied' = applied
    BY AccountStutters DEF Tick
  <1>2. EventsKept
    BY <1>1, EventsRest DEF Tick
  <1>3. BillingTypeOK'
    <2>1. scene.until \in 0..MaxNow /\ MaxNow \in Nat
      BY BillingAssumption DEF BillingInv, BillingTypeOK
    <2>2. now' \in 0..MaxNow
      BY <2>1 DEF Tick, BillingInv, BillingTypeOK
    <2> QED BY <2>2 DEF Tick, BillingInv, BillingTypeOK
  <1>4. HandlersInv' /\ OutboxInv' /\ SentMeansNotified' /\ ProcessedMeansApplied'
    BY <1>2, HandlersRest, OutboxRests, MarkedWhenApplied DEF Tick, BillingInv
  <1>5. NoBonus
    BY <1>1 DEF NoBonus
  <1> QED BY <1>1, <1>3, <1>4, <1>5 DEF BillingInv

LEMMA OutsideKeeps ==
  ASSUME AccountTypeOK, BillingInv, NEW e \in Event, Checkout(e) \/ Happen(e) \/ LeaseEnds(e)
  PROVE  AccountTypeOK' /\ BillingInv' /\ NoBonus
  <1>1. AccountTypeOK' /\ applied' = applied
    BY AccountStutters DEF Checkout, Happen, LeaseEnds
  <1>2. UNCHANGED <<handler, sub, outbox, notified, job>>
    BY DEF Checkout, Happen, LeaseEnds
  <1>3. EventsKept
    <2>1. ItemOf[e] \in Item
      BY BillingAssumption
    <2>2. CASE Checkout(e)
      BY <1>1, <2>1, <2>2 DEF Checkout, EventsKept, OutboxKept, BillingInv, BillingTypeOK
    <2>3. CASE Happen(e) \/ LeaseEnds(e)
      BY <1>1, <2>3, EventsRest DEF Happen, LeaseEnds
    <2> QED BY <2>2, <2>3
  <1>4. BillingTypeOK'
    BY DEF Checkout, Happen, LeaseEnds, BillingInv, BillingTypeOK
  <1>5. HandlersInv' /\ OutboxInv' /\ SentMeansNotified'
    BY <1>2, <1>3, HandlersRest, OutboxRests DEF BillingInv
  <1>6. ProcessedMeansApplied'
    <2>1. \A f \in Event : webhook'[f] = "processed" => webhook[f] = "processed"
      BY DEF Checkout, Happen, LeaseEnds, BillingInv, BillingTypeOK
    <2> QED BY <1>3, <2>1, MarkedWhenApplied DEF BillingInv
  <1>7. NoBonus
    BY <1>1 DEF NoBonus
  <1> QED BY <1>1, <1>4, <1>5, <1>6, <1>7 DEF BillingInv

------------------------------------------------------------------------------
(* Requests keep it.                                                        *)

LEMMA ClaimKeeps ==
  ASSUME AccountTypeOK, BillingInv, NEW h \in Handler, NEW e \in Event,
         Claim(h, e) \/ Poll(h, e)
  PROVE  AccountTypeOK' /\ BillingInv' /\ NoBonus
  <1>1. AccountTypeOK' /\ applied' = applied
    BY AccountStutters DEF Claim, Poll
  <1>2. UNCHANGED <<now, scene, happened, order, sub, outbox, notified, job>>
    BY DEF Claim, Poll
  <1>3. EventsKept
    BY <1>1, <1>2, EventsRest
  <1>4. handler' \in [Handler -> HandlerRow] /\ HandlersInv'
    <2>1. PICK by \in {"webhook", "poll"} :
            handler' = [handler EXCEPT ![h] = [event |-> e, by |-> by, step |-> "apply"]]
      BY DEF Claim, Poll
    <2>2. [event |-> e, by |-> by, step |-> "apply"] \in HandlerRow
      BY DEF HandlerRow
    <2> QED BY <1>3, <2>1, <2>2, OneHandlerMoves DEF BillingInv
  <1>5. webhook' \in [Event -> {"none", "processing", "stale", "failed", "processed"}]
    BY DEF Claim, Poll, BillingInv, BillingTypeOK
  <1>6. BillingTypeOK'
    BY <1>2, <1>4, <1>5 DEF BillingInv, BillingTypeOK, HandlerRow
  <1>7. OutboxInv' /\ SentMeansNotified'
    BY <1>2, OutboxRests DEF BillingInv
  <1>8. ProcessedMeansApplied'
    <2>1. \A f \in Event : webhook'[f] = "processed" => webhook[f] = "processed"
      BY DEF Claim, Poll, BillingInv, BillingTypeOK
    <2> QED BY <1>3, <2>1, MarkedWhenApplied DEF BillingInv
  <1>9. NoBonus
    BY <1>1 DEF NoBonus
  <1> QED BY <1>1, <1>4, <1>6, <1>7, <1>8, <1>9 DEF BillingInv

LEMMA IdleRow ==
  NoHandler \in HandlerRow /\ NoHandler.step = "idle"
  BY DEF NoHandler, HandlerRow

\* Where Goes takes a handler.
LEMMA GoesEffect ==
  ASSUME BillingTypeOK, NEW h \in Handler, NEW step \in {"credit", "done"}, Goes(h, step)
  PROVE  \E r \in HandlerRow :
            /\ handler' = [handler EXCEPT ![h] = r]
            /\ r = NoHandler \/ (r.event = handler[h].event /\ r.step = step)
  <1>1. [event |-> handler[h].event, by |-> handler[h].by, step |-> step] \in HandlerRow
    BY DEF BillingTypeOK, HandlerRow
  <1> QED BY <1>1, IdleRow DEF Goes

\* A handler comes behind what it has just committed.
LEMMA HandlerGoesOn ==
  ASSUME BillingTypeOK, HandlersInv, EventsKept,
         NEW h \in Handler, NEW step \in {"credit", "done"}, Goes(h, step),
         NEW e \in Event, e = handler[h].event,
         Recorded(e)',
         step = "credit" => KindOf[e] \in TopUpKind,
         step = "done" => Credited(e)'
  PROVE  handler' \in [Handler -> HandlerRow] /\ HandlersInv'
  <1>1. PICK r \in HandlerRow :
            /\ handler' = [handler EXCEPT ![h] = r]
            /\ r = NoHandler \/ (r.event = e /\ r.step = step)
    BY GoesEffect
  <1>2. CASE r = NoHandler
    <2>1. r.step = "idle"
      BY <1>2, IdleRow
    <2> QED BY <1>1, <2>1, OneHandlerMoves
  <1>3. CASE r.event = e /\ r.step = step
    BY <1>1, <1>3, OneHandlerMoves
  <1> QED BY <1>1, <1>2, <1>3

LEMMA TypeParts ==
  BillingTypeOK <=>
    /\ now \in 0..MaxNow /\ scene \in Scenario /\ happened \subseteq scene.events
    /\ order \in [Item -> {"none", "pending", "paid"}]
    /\ webhook \in [Event -> {"none", "processing", "stale", "failed", "processed"}]
    /\ handler \in [Handler -> HandlerRow]
    /\ sub \in [Subscription -> [status : {"none", "active", "canceled", "expired"}, ends : Instant]]
    /\ outbox \in [OutboxKey -> OutboxRow]
    /\ notified \subseteq OutboxKey
    /\ job \in [doing : {"nothing", "expiring", "notified"}, rows : SUBSET OutboxKey]
  BY DEF BillingTypeOK, HandlerRow, OutboxRow

LEMMA OutboxIsGood ==
  OutboxGood(outbox, notified) /\ (job.doing = "notified" => job.rows \subseteq notified)
    <=> outbox \in [OutboxKey -> OutboxRow] /\ OutboxInv /\ SentMeansNotified
  BY DEF OutboxGood, OutboxInv, SentMeansNotified

LEMMA FulfilKeeps ==
  ASSUME AccountTypeOK, BillingInv, NEW h \in Handler, Fulfil(h)
  PROVE  AccountTypeOK' /\ BillingInv' /\ NoBonus
  <1>0. PICK e \in Event : e = handler[h].event
    BY DEF Fulfil, BillingInv, HandlersInv
  <1>1. e = handler[h].event /\ ItemOf[e] \in Item
    BY <1>0, BillingAssumption
  <1>2. AccountTypeOK' /\ applied' = applied
    BY AccountStutters DEF Fulfil
  <1>3. UNCHANGED <<now, scene, happened, webhook, notified, job>>
    BY DEF Fulfil
  <1>4. SUFFICES /\ order' \in [Item -> {"none", "pending", "paid"}]
                 /\ sub' \in [Subscription ->
                       [status : {"none", "active", "canceled", "expired"}, ends : Instant]]
                 /\ EventsKept /\ OutboxGood(outbox', notified)
                 /\ handler' \in [Handler -> HandlerRow] /\ HandlersInv'
    <2>1. OutboxGood(outbox', notified') /\ (job'.doing = "notified" => job'.rows \subseteq notified')
      BY <1>3, <1>4, OutboxIsGood, TypeParts DEF BillingInv
    <2>2. outbox' \in [OutboxKey -> OutboxRow] /\ OutboxInv' /\ SentMeansNotified'
      BY <2>1 DEF OutboxGood, OutboxInv, SentMeansNotified
    <2>3. BillingTypeOK'
      BY <1>3, <1>4, <2>2, TypeParts DEF BillingInv, BillingTypeOK, HandlerRow, OutboxRow
    <2>4. ProcessedMeansApplied'
      BY <1>3, <1>4, MarkedWhenApplied DEF BillingInv
    <2>5. NoBonus
      BY <1>2 DEF NoBonus
    <2> QED BY <1>2, <1>4, <2>2, <2>3, <2>4, <2>5 DEF BillingInv
  <1>5. OutboxGood(outbox, notified) /\ sub \in [Subscription ->
           [status : {"none", "active", "canceled", "expired"}, ends : Instant]]
        /\ order \in [Item -> {"none", "pending", "paid"}] /\ now \in 0..MaxNow
    BY OutboxIsGood, TypeParts DEF BillingInv
  <1>6. CASE /\ KindOf[e] \in TopUpKind
             /\ order' = [order EXCEPT ![ItemOf[e]] = "paid"]
             /\ Goes(h, "credit") /\ UNCHANGED <<sub, outbox>>
    <2>1. EventsKept
      BY <1>2, <1>5, <1>6 DEF EventsKept, OutboxKept
    <2>2. Recorded(e)'
      BY <1>1, <1>5, <1>6 DEF Recorded, TopUpKind
    <2>3. handler' \in [Handler -> HandlerRow] /\ HandlersInv'
      BY <1>1, <1>6, <2>1, <2>2, HandlerGoesOn DEF BillingInv
    <2> QED BY <1>5, <1>6, <2>1, <2>3
  <1>7. CASE /\ KindOf[e] \in PeriodKind
             /\ order' = [order EXCEPT ![ItemOf[e]] = "paid"]
             /\ sub' = [sub EXCEPT ![ItemOf[e]] = [status |-> "active", ends |-> PeriodEnd(e)]]
             /\ outbox' = Announced({<<ItemOf[e], PeriodEnd(e)>>}, "paid")
             /\ Goes(h, "done")
    <2>1. PeriodEnd(e) \in Instant
      BY <1>1, <1>5, BillingAssumption DEF PeriodEnd, Instant
    <2>2. sub' \in [Subscription -> [status : {"none", "active", "canceled", "expired"}, ends : Instant]]
      BY <1>5, <1>7, <2>1
    <2>3. /\ OutboxKept /\ OutboxGood(outbox', notified)
          /\ \A k \in OutboxKey : k \in {<<ItemOf[e], PeriodEnd(e)>>} => outbox'[k].type # "none"
      BY <1>5, <1>7, AnnouncedEffect
    <2>4. EventsKept
      BY <1>2, <1>5, <1>7, <2>3 DEF EventsKept
    <2>5. Recorded(e)'
      <3>1. ASSUME KindOf[e] = "creem_paid" PROVE outbox'[<<ItemOf[e], EndOf[e]>>].type # "none"
        BY <1>1, <2>3, <3>1, NamedPeriod DEF PeriodEnd
      <3>2. order'[ItemOf[e]] = "paid"
        BY <1>1, <1>5, <1>7
      <3> QED BY <3>1, <3>2 DEF Recorded
    <2>6. Credited(e)'
      BY <1>7 DEF Credited, TopUpKind, PeriodKind
    <2>7. handler' \in [Handler -> HandlerRow] /\ HandlersInv'
      BY <1>1, <1>7, <2>4, <2>5, <2>6, HandlerGoesOn DEF BillingInv
    <2> QED BY <1>5, <1>7, <2>2, <2>3, <2>4, <2>7
  <1>8. CASE /\ KindOf[e] = "creem_canceled"
             /\ sub' = [sub EXCEPT ![ItemOf[e]] = Canceled(ItemOf[e])]
             /\ Goes(h, "done") /\ UNCHANGED <<order, outbox>>
    <2>1. EventsKept
      BY <1>2, <1>8, EventsRest
    <2>2. ItemOf[e] \in Subscription
      BY <1>1, <1>8, BillingAssumption DEF Subscription
    <2>3. sub' \in [Subscription -> [status : {"none", "active", "canceled", "expired"}, ends : Instant]]
      BY <1>5, <1>8, <2>2 DEF Canceled
    <2>4. Recorded(e)' /\ Credited(e)'
      BY <1>8 DEF Recorded, Credited, TopUpKind
    <2>5. handler' \in [Handler -> HandlerRow] /\ HandlersInv'
      BY <1>1, <1>8, <2>1, <2>4, HandlerGoesOn DEF BillingInv
    <2> QED BY <1>5, <1>8, <2>1, <2>3, <2>5
  <1> QED BY <1>1, <1>6, <1>7, <1>8 DEF Fulfil

LEMMA CreditTopUpKeeps ==
  ASSUME AccountTypeOK, BillingInv, NEW h \in Handler, CreditTopUp(h)
  PROVE  AccountTypeOK' /\ BillingInv' /\ NoBonus
  <1>1. PICK e \in Event : e = handler[h].event
    BY DEF CreditTopUp, BillingInv, HandlersInv
  <1>2. /\ KindOf[e] \in TopUpKind /\ Recorded(e)
        /\ TopUpKey[ItemOf[e]] \in Key /\ Credit(TopUpKey[ItemOf[e]])
    BY <1>1, BillingAssumption, AccountAssumption DEF CreditTopUp, BillingInv, HandlersInv
  <1>3. AccountTypeOK' /\ applied' = applied \cup {TopUpKey[ItemOf[e]]}
    BY <1>2, CreditEffect
  <1>4. UNCHANGED <<now, scene, happened, order, webhook, sub, outbox, notified, job>>
    BY DEF CreditTopUp
  <1>5. EventsKept
    BY <1>3, <1>4 DEF EventsKept, OutboxKept
  <1>6. Recorded(e)' /\ Credited(e)'
    BY <1>2, <1>3, <1>5, RecordsStay DEF Credited
  <1>7. handler' \in [Handler -> HandlerRow] /\ HandlersInv'
    BY <1>1, <1>5, <1>6, HandlerGoesOn DEF CreditTopUp, BillingInv
  <1>8. BillingTypeOK'
    BY <1>4, <1>7 DEF BillingInv, BillingTypeOK, HandlerRow
  <1>9. OutboxInv' /\ SentMeansNotified'
    BY <1>4, OutboxRests DEF BillingInv
  <1>10. ProcessedMeansApplied'
    BY <1>4, <1>5, MarkedWhenApplied DEF BillingInv
  <1>11. NoBonus
    BY <1>2, <1>3, SystemAssumption DEF NoBonus
  <1> QED BY <1>3, <1>7, <1>8, <1>9, <1>10, <1>11 DEF BillingInv

LEMMA EndKeeps ==
  ASSUME AccountTypeOK, BillingInv, NEW h \in Handler, Finish(h) \/ Fail(h) \/ Drop(h)
  PROVE  AccountTypeOK' /\ BillingInv' /\ NoBonus
  <1>1. AccountTypeOK' /\ applied' = applied
    BY AccountStutters DEF Finish, Fail, Drop
  <1>2. /\ UNCHANGED <<now, scene, happened, order, sub, outbox, notified, job>>
        /\ handler' = [handler EXCEPT ![h] = NoHandler]
    BY DEF Finish, Fail, Drop, Marks
  <1>3. EventsKept
    BY <1>1, <1>2, EventsRest
  <1>4. handler' \in [Handler -> HandlerRow] /\ HandlersInv'
    BY <1>2, <1>3, IdleRow, OneHandlerMoves DEF BillingInv
  <1>5. webhook' \in [Event -> {"none", "processing", "stale", "failed", "processed"}]
    BY DEF Finish, Fail, Drop, Marks, BillingInv, BillingTypeOK
  <1>6. BillingTypeOK'
    BY <1>2, <1>4, <1>5 DEF BillingInv, BillingTypeOK, HandlerRow
  <1>7. OutboxInv' /\ SentMeansNotified'
    BY <1>2, OutboxRests DEF BillingInv
  <1>8. ProcessedMeansApplied'
    <2>1. CASE Finish(h)
      <3>1. Recorded(handler[h].event) /\ Credited(handler[h].event)
        BY <2>1 DEF Finish, BillingInv, HandlersInv
      <3>2. \A f \in Event : webhook'[f] = "processed" =>
               webhook[f] = "processed" \/ f = handler[h].event
        BY <2>1 DEF Finish, Marks, BillingInv, BillingTypeOK
      <3> QED BY <1>3, <3>1, <3>2, MarkedWhenApplied DEF BillingInv
    <2>2. CASE Fail(h) \/ Drop(h)
      <3>1. \A f \in Event : webhook'[f] = "processed" => webhook[f] = "processed"
        BY <2>2 DEF Fail, Drop, Marks, BillingInv, BillingTypeOK
      <3> QED BY <1>3, <3>1, MarkedWhenApplied DEF BillingInv
    <2> QED BY <2>1, <2>2
  <1>9. NoBonus
    BY <1>1 DEF NoBonus
  <1> QED BY <1>1, <1>4, <1>6, <1>7, <1>8, <1>9 DEF BillingInv

------------------------------------------------------------------------------
(* The job keeps it.                                                        *)

\* The job touches the subscriptions, the outbox and its own state.
LEMMA JobKeeps ==
  ASSUME AccountTypeOK, BillingInv, JobStep
  PROVE  AccountTypeOK' /\ BillingInv' /\ NoBonus
  <1>1. AccountTypeOK' /\ applied' = applied
    BY AccountStutters
       DEF JobStep, ExpireRead, ExpireWrite, MarkSent, DropJob, Notify, MarkFailed
  <1>2. UNCHANGED <<now, scene, happened, order, webhook, handler>>
    BY DEF JobStep, ExpireRead, ExpireWrite, MarkSent, DropJob, Notify, MarkFailed
  <1> DEFINE SubOK == sub' \in [Subscription ->
                 [status : {"none", "active", "canceled", "expired"}, ends : Instant]]
             JobOK == /\ job' \in [doing : {"nothing", "expiring", "notified"}, rows : SUBSET OutboxKey]
                      /\ job'.doing = "notified" => job'.rows \subseteq notified'
                      /\ notified' \subseteq OutboxKey
             Good == SubOK /\ JobOK /\ OutboxKept /\ OutboxGood(outbox', notified')
  <1>3. SUFFICES Good
    <2>1. EventsKept
      BY <1>1, <1>2, <1>3 DEF EventsKept
    <2>2. outbox' \in [OutboxKey -> OutboxRow] /\ OutboxInv' /\ SentMeansNotified'
      BY <1>3 DEF OutboxGood, OutboxInv, SentMeansNotified
    <2>3. BillingTypeOK'
      BY <1>2, <1>3, <2>2 DEF BillingInv, BillingTypeOK, OutboxRow
    <2>4. HandlersInv' /\ ProcessedMeansApplied'
      BY <1>2, <2>1, HandlersRest, MarkedWhenApplied DEF BillingInv
    <2>5. NoBonus
      BY <1>1 DEF NoBonus
    <2> QED BY <1>1, <2>2, <2>3, <2>4, <2>5 DEF BillingInv
  <1>4. /\ OutboxGood(outbox, notified) /\ notified \subseteq OutboxKey
        /\ job.doing = "notified" => job.rows \subseteq notified
        /\ job \in [doing : {"nothing", "expiring", "notified"}, rows : SUBSET OutboxKey]
        /\ sub \in [Subscription ->
             [status : {"none", "active", "canceled", "expired"}, ends : Instant]]
    BY OutboxIsGood, TypeParts DEF BillingInv
  <1>5. NoJob \in [doing : {"nothing", "expiring", "notified"}, rows : SUBSET OutboxKey]
        /\ NoJob.doing = "nothing"
    BY DEF NoJob
  <1>6. ASSUME UNCHANGED outbox PROVE OutboxKept
    BY <1>6 DEF OutboxKept
  <1>7. CASE ExpireRead
    <2>1. Due \subseteq OutboxKey
      BY <1>4 DEF Due, OutboxKey
    <2> QED BY <1>4, <1>6, <1>7, <2>1 DEF ExpireRead
  <1>8. CASE ExpireWrite
    <2>1. OutboxKept /\ OutboxGood(outbox', notified)
      BY <1>4, <1>8, AnnouncedEffect DEF ExpireWrite
    <2>2. SubOK
      BY <1>4, <1>8 DEF ExpireWrite
    <2> QED BY <1>4, <1>5, <1>8, <2>1, <2>2 DEF ExpireWrite
  <1>9. ASSUME NEW k \in OutboxKey, Notify(k) PROVE Good
    <2>1. OutboxGood(outbox', notified')
      BY <1>4, <1>9 DEF Notify, OutboxGood
    <2> QED BY <1>4, <1>6, <1>9, <2>1 DEF Notify
  <1>10. CASE MarkSent
    <2>1. \A k \in OutboxKey :
             \/ k \in notified /\ outbox'[k] = Row(outbox[k].type, "sent", outbox[k].retries)
             \/ outbox'[k] = outbox[k]
      BY <1>4, <1>10 DEF MarkSent
    <2>2. \A k \in OutboxKey : LET r == Row(outbox[k].type, "sent", outbox[k].retries) IN
             r \in OutboxRow /\ r.type = outbox[k].type /\ r.status = "sent"
      BY <1>4 DEF Row, OutboxGood, OutboxRow
    <2>3. outbox' \in [OutboxKey -> OutboxRow]
      BY <1>4, <1>10, <2>2 DEF MarkSent, OutboxGood
    <2>4. OutboxKept /\ OutboxGood(outbox', notified)
      BY <1>4, <2>1, <2>2, <2>3 DEF OutboxKept, OutboxGood
    <2> QED BY <1>4, <1>5, <1>10, <2>4 DEF MarkSent
  <1>11. ASSUME NEW k \in OutboxKey, MarkFailed(k) PROVE Good
    <2>1. /\ MaxRetry \in Nat /\ outbox[k] \in OutboxRow
          /\ outbox[k].retries \in 0..MaxRetry
      BY <1>4, <1>11, BillingAssumption DEF MarkFailed, OutboxGood, OutboxRow
    <2>2. /\ AfterFailure(k) \in OutboxRow /\ AfterFailure(k).type = outbox[k].type
          /\ AfterFailure(k).status \in {"pending", "failed"}
          /\ AfterFailure(k).status = "pending" => AfterFailure(k).retries <= MaxRetry
      BY <2>1 DEF AfterFailure, Row, OutboxRow
    <2>3. outbox' \in [OutboxKey -> OutboxRow] /\ outbox'[k] = AfterFailure(k)
          /\ \A m \in OutboxKey : m # k => outbox'[m] = outbox[m]
      BY <1>4, <1>11, <2>2 DEF MarkFailed, OutboxGood
    <2>4. OutboxKept /\ OutboxGood(outbox', notified)
      BY <1>4, <2>2, <2>3 DEF OutboxKept, OutboxGood
    <2> QED BY <1>4, <1>11, <2>4 DEF MarkFailed
  <1>12. CASE DropJob
    BY <1>4, <1>5, <1>6, <1>12 DEF DropJob
  <1> QED BY <1>7, <1>8, <1>9, <1>10, <1>11, <1>12 DEF JobStep

LEMMA BillingKeeps ==
  ASSUME AccountTypeOK, BillingInv, BillingNext
  PROVE  AccountTypeOK' /\ BillingInv' /\ NoBonus
  <1>1. CASE Tick
    BY <1>1, TickKeeps
  <1>2. ASSUME NEW e \in Event, Checkout(e) \/ Happen(e) \/ LeaseEnds(e)
        PROVE  AccountTypeOK' /\ BillingInv' /\ NoBonus
    BY <1>2, OutsideKeeps
  <1>3. ASSUME NEW h \in Handler, HandlerStep(h)
        PROVE  AccountTypeOK' /\ BillingInv' /\ NoBonus
    BY <1>3, FulfilKeeps, CreditTopUpKeeps, EndKeeps DEF HandlerStep
  <1>4. ASSUME NEW h \in Handler, NEW e \in Event, Claim(h, e) \/ Poll(h, e)
        PROVE  AccountTypeOK' /\ BillingInv' /\ NoBonus
    BY <1>4, ClaimKeeps
  <1>5. CASE JobStep
    BY <1>5, JobKeeps
  <1> QED BY <1>1, <1>2, <1>3, <1>4, <1>5 DEF BillingNext

\* A payment takes no entry out of the ledger.
LEMMA EntriesStay ==
  ASSUME BillingNext
  PROVE  applied \subseteq applied'
  BY DEF BillingNext, Tick, Checkout, Happen, LeaseEnds, HandlerStep, Fulfil, CreditTopUp, Finish,
         Fail, Drop, Claim, Poll, JobStep, ExpireRead, ExpireWrite, MarkSent, DropJob, Notify,
         MarkFailed, Credit, Apply, accountVars

\* Payments leave registrations alone, and a top-up is not a bonus.
LEMMA BillingLeavesReferrals ==
  ASSUME ReferralInv, UNCHANGED referralVars, applied \subseteq applied', NoBonus
  PROVE  ReferralInv'
  BY DEF ReferralInv, ReferralTypeOK, RegistrationsInv, RewardsBothOrNeither, Unpaid,
         NoBonus, referralVars

\* Registrations leave payments alone, and take no entry out of the ledger.
LEMMA ReferralsLeaveBilling ==
  ASSUME BillingInv, UNCHANGED billingVars, applied \subseteq applied'
  PROVE  BillingInv'
  <1>1. EventsKept
    BY DEF billingVars, EventsKept, OutboxKept
  <1>2. BillingTypeOK'
    BY DEF BillingInv, BillingTypeOK, billingVars
  <1>3. HandlersInv' /\ OutboxInv' /\ SentMeansNotified'
    BY <1>1, HandlersRest, OutboxRests DEF BillingInv, billingVars
  <1>4. ProcessedMeansApplied'
    BY <1>1, MarkedWhenApplied DEF BillingInv, billingVars
  <1> QED BY <1>2, <1>3, <1>4 DEF BillingInv

------------------------------------------------------------------------------
(* Registrations keep the invariant.                                        *)

\* What holds of one registration.
RegistrationGood(at, row, entries, i) ==
  /\ at \in {"new", "bound", "weighed", "counted", "cleared", "refused"} =>
       {InviterBonus[i], InviteeBonus[i]} \cap entries = {}
  /\ at \in {"inviter_paid", "both_paid"} => InviterBonus[i] \in entries
  /\ at = "both_paid" => InviteeBonus[i] \in entries
  /\ at # "over" => row \in {"none", "pending"}
  /\ row = "rewarded" => {InviterBonus[i], InviteeBonus[i]} \subseteq entries
  /\ row = "rejected" => {InviterBonus[i], InviteeBonus[i]} \cap entries = {}

LEMMA RegistrationsAreGood ==
  (\A i \in Invitee : RegistrationGood(register[i], referral[i], applied, i))
    <=> RegistrationsInv /\ RewardsBothOrNeither
  BY DEF RegistrationGood, RegistrationsInv, RewardsBothOrNeither, Unpaid

\* A registration that takes a step leaves every other as it is.
LEMMA OneRegistrationMoves ==
  ASSUME ReferralInv, NEW i \in Invitee, NEW at, NEW row,
         register' = [register EXCEPT ![i] = at],
         referral' = [referral EXCEPT ![i] = row],
         applied' \in {applied, applied \cup {InviterBonus[i]}, applied \cup {InviteeBonus[i]}},
         RegistrationGood(at, row, applied', i)
  PROVE  RegistrationsInv' /\ RewardsBothOrNeither'
  <1>1. ASSUME NEW j \in Invitee
        PROVE  RegistrationGood(register'[j], referral'[j], applied', j)
    <2>1. CASE j = i
      BY <2>1 DEF ReferralInv, ReferralTypeOK
    <2>2. CASE j # i
      <3>1. register'[j] = register[j] /\ referral'[j] = referral[j]
        BY <2>2 DEF ReferralInv, ReferralTypeOK
      <3>2. RegistrationGood(register[j], referral[j], applied, j)
        BY RegistrationsAreGood DEF ReferralInv
      <3>3. /\ InviterBonus[j] \in applied' <=> InviterBonus[j] \in applied
            /\ InviteeBonus[j] \in applied' <=> InviteeBonus[j] \in applied
        BY <2>2, ReferralAssumption
      <3> QED BY <3>1, <3>2, <3>3 DEF RegistrationGood
    <2> QED BY <2>1, <2>2
  <1> QED BY <1>1 DEF RegistrationGood, RegistrationsInv, RewardsBothOrNeither, Unpaid

LEMMA ReferralKeeps ==
  ASSUME AccountTypeOK, ReferralInv, ReferralNext
  PROVE  AccountTypeOK' /\ ReferralInv' /\ applied \subseteq applied'
  <1>1. CASE NextDay
    <2>1. AccountTypeOK' /\ applied' = applied
      BY <1>1, AccountStutters DEF NextDay
    <2> QED BY <1>1, <2>1 DEF NextDay, ReferralInv, ReferralTypeOK, RegistrationsInv,
                              RewardsBothOrNeither, Unpaid
  <1>2. ASSUME NEW i \in Invitee
        PROVE  /\ RegistrationGood(register[i], referral[i], applied, i)
               /\ referral = [referral EXCEPT ![i] = referral[i]]
               /\ InviterBonus[i] \in Key /\ InviteeBonus[i] \in Key
               /\ InviterOf[i] \in User /\ paid[InviterOf[i]] \in Nat
    BY RegistrationsAreGood, ReferralAssumption DEF ReferralInv, ReferralTypeOK, AccountTypeOK
  <1>3. ASSUME NEW i \in Invitee,
               \/ Bind(i) \/ Weigh(i) \/ CountAll(i) \/ CountToday(i) \/ MarkRejected(i)
               \/ MarkRewarded(i) \/ GiveUp(i)
        PROVE  AccountTypeOK' /\ ReferralInv' /\ applied \subseteq applied'
    <2>1. AccountTypeOK' /\ applied' = applied
      BY <1>3, AccountStutters
         DEF Bind, Weigh, CountAll, CountToday, MarkRejected, MarkRewarded, GiveUp
    <2>2. ReferralTypeOK'
      <3>1. CASE Weigh(i)
        <4>1. BaseQuota + paid[InviterOf[i]] \div TopupStep \in Nat
          BY <1>2, ReferralAssumption
        <4> QED BY <3>1, <4>1 DEF Weigh, Moves, ReferralInv, ReferralTypeOK
      <3>2. CASE \/ Bind(i) \/ CountAll(i) \/ CountToday(i) \/ MarkRejected(i)
                 \/ MarkRewarded(i) \/ GiveUp(i)
        BY <3>2 DEF Bind, CountAll, CountToday, MarkRejected, MarkRewarded, GiveUp, Moves,
                    ReferralInv, ReferralTypeOK
      <3> QED BY <1>3, <3>1, <3>2
    <2>3. PICK at, row : /\ register' = [register EXCEPT ![i] = at]
                         /\ referral' = [referral EXCEPT ![i] = row]
                         /\ RegistrationGood(at, row, applied, i)
      <3>1. CASE Bind(i)
        BY <1>2, <3>1 DEF Bind, Moves, RegistrationGood
      <3>2. CASE Weigh(i)
        BY <1>2, <3>2 DEF Weigh, Moves, RegistrationGood
      <3>3. CASE CountAll(i)
        BY <1>2, <3>3 DEF CountAll, Moves, RegistrationGood
      <3>4. CASE CountToday(i)
        BY <1>2, <3>4 DEF CountToday, Moves, RegistrationGood
      <3>5. CASE MarkRejected(i)
        BY <1>2, <3>5 DEF MarkRejected, Moves, RegistrationGood
      <3>6. CASE MarkRewarded(i)
        <4>1. register[i] = "both_paid"
          BY <3>6 DEF MarkRewarded, Moves
        <4>2. {InviterBonus[i], InviteeBonus[i]} \subseteq applied
          BY <1>2, <4>1 DEF RegistrationGood
        <4>3. RegistrationGood("over", "rewarded", applied, i)
          BY <4>2 DEF RegistrationGood
        <4> QED BY <3>6, <4>3 DEF MarkRewarded, Moves
      <3>7. CASE GiveUp(i)
        BY <1>2, <3>7 DEF GiveUp, RegistrationGood
      <3> QED BY <1>3, <3>1, <3>2, <3>3, <3>4, <3>5, <3>6, <3>7
    <2>4. RegistrationsInv' /\ RewardsBothOrNeither'
      BY <2>1, <2>3, OneRegistrationMoves
    <2> QED BY <2>1, <2>2, <2>4 DEF ReferralInv
  <1>4. ASSUME NEW i \in Invitee, PayInviter(i)
        PROVE  AccountTypeOK' /\ ReferralInv' /\ applied \subseteq applied'
    <2>1. AccountTypeOK' /\ applied' = applied \cup {InviterBonus[i]}
      BY <1>2, <1>4, CreditEffect DEF PayInviter
    <2>2. ReferralTypeOK'
      BY <1>4 DEF PayInviter, Moves, ReferralInv, ReferralTypeOK
    <2>3. RegistrationGood("inviter_paid", referral[i], applied', i)
      BY <1>2, <1>4, <2>1 DEF PayInviter, Moves, RegistrationGood
    <2>4. RegistrationsInv' /\ RewardsBothOrNeither'
      BY <1>2, <1>4, <2>1, <2>3, OneRegistrationMoves DEF PayInviter, Moves
    <2> QED BY <2>1, <2>2, <2>4 DEF ReferralInv
  <1>5. ASSUME NEW i \in Invitee, PayInvitee(i)
        PROVE  AccountTypeOK' /\ ReferralInv' /\ applied \subseteq applied'
    <2>1. AccountTypeOK' /\ applied' = applied \cup {InviteeBonus[i]}
      BY <1>2, <1>5, CreditEffect DEF PayInvitee
    <2>2. ReferralTypeOK'
      BY <1>5 DEF PayInvitee, Moves, ReferralInv, ReferralTypeOK
    <2>3. RegistrationGood("both_paid", referral[i], applied', i)
      BY <1>2, <1>5, <2>1 DEF PayInvitee, Moves, RegistrationGood
    <2>4. RegistrationsInv' /\ RewardsBothOrNeither'
      BY <1>2, <1>5, <2>1, <2>3, OneRegistrationMoves DEF PayInvitee, Moves
    <2> QED BY <2>1, <2>2, <2>4 DEF ReferralInv
  <1> QED BY <1>1, <1>3, <1>4, <1>5 DEF ReferralNext

------------------------------------------------------------------------------
(* Every step keeps it.                                                     *)

LEMMA StepKeepsCommitInv ==
  ASSUME CommitInv, [SystemNext]_systemVars
  PROVE  CommitInv'
  <1>1. AccountTypeOK /\ BillingInv /\ ReferralInv
    BY CommitInvIs
  <1>2. SUFFICES AccountTypeOK' /\ BillingInv' /\ ReferralInv'
    BY DEF CommitInv, SystemTypeOK, BillingInv, ReferralInv
  <1>3. CASE BillingNext /\ UNCHANGED referralVars
    <2>1. AccountTypeOK' /\ BillingInv' /\ NoBonus
      BY <1>1, <1>3, BillingKeeps
    <2>2. applied \subseteq applied'
      BY <1>1, <1>3, EntriesStay
    <2> QED BY <1>1, <1>3, <2>1, <2>2, BillingLeavesReferrals
  <1>4. CASE ReferralNext /\ UNCHANGED billingVars
    BY <1>1, <1>4, ReferralKeeps, ReferralsLeaveBilling
  <1>5. CASE UNCHANGED systemVars
    <2>1. AccountTypeOK' /\ applied' = applied /\ NoBonus
      BY <1>1, <1>5, AccountStutters DEF systemVars, NoBonus
    <2>2. UNCHANGED billingVars /\ UNCHANGED referralVars
      BY <1>5 DEF systemVars
    <2> QED BY <1>1, <2>1, <2>2, BillingLeavesReferrals, ReferralsLeaveBilling
  <1> QED BY <1>3, <1>4, <1>5 DEF SystemNext

------------------------------------------------------------------------------
(* The sums of the ledger.                                                  *)

\* Nothing but the entry of a top-up or of a bonus changes the account.
LEMMA SystemStepIsAccountStep ==
  ASSUME CommitInv, [SystemNext]_systemVars
  PROVE  AccountNext \/ UNCHANGED accountVars
  <1>1. CASE UNCHANGED systemVars
    BY <1>1 DEF systemVars
  <1>2. ASSUME NEW k \in Key, Credit(k)
        PROVE  AccountNext \/ UNCHANGED accountVars
    BY <1>2 DEF Credit, AccountNext
  <1>3. CASE BillingNext
    <2>1. ASSUME NEW h \in Handler, CreditTopUp(h)
          PROVE  AccountNext \/ UNCHANGED accountVars
      <3>1. handler[h].event \in Event /\ KindOf[handler[h].event] \in TopUpKind
        BY <2>1 DEF CommitInv, HandlersInv, CreditTopUp
      <3>2. TopUpKey[ItemOf[handler[h].event]] \in Key
        BY <3>1, BillingAssumption, AccountAssumption
      <3> QED BY <1>2, <2>1, <3>2 DEF CreditTopUp
    <2> QED BY <1>3, <2>1
            DEF BillingNext, Tick, Checkout, Happen, LeaseEnds, HandlerStep, Fulfil, Finish, Fail,
                Drop, Claim, Poll, JobStep, ExpireRead, ExpireWrite, MarkSent, DropJob, Notify,
                MarkFailed
  <1>4. CASE ReferralNext
    <2>1. \A i \in Invitee : InviterBonus[i] \in Key /\ InviteeBonus[i] \in Key
      BY ReferralAssumption
    <2> QED BY <1>2, <1>4, <2>1
            DEF ReferralNext, NextDay, Bind, Weigh, CountAll, CountToday, MarkRejected, PayInviter,
                PayInvitee, MarkRewarded, GiveUp
  <1> QED BY <1>1, <1>3, <1>4 DEF SystemNext

\* What WalletStoreProofs says of sums, for this account: a store without callers.
Wallet == INSTANCE WalletStoreProofs
            WITH ledger <- applied, Proc <- {}, tx <- <<>>, NoKey <- CHOOSE k : k \notin Key

LEMMA WalletAssumptions ==
  /\ Wallet!StoreAssumption
  /\ Wallet!StoreTotalAssumption
  <1>1. (CHOOSE k : k \notin Key) \notin Key
    BY NoSetContainsEverything
  <1> QED BY <1>1, AccountAssumption, TotalAssumption
          DEF Wallet!StoreAssumption, Wallet!StoreTotalAssumption

LEMMA StepKeepsTotals ==
  ASSUME AccountTypeOK, BalancesAreTotals, AccountNext \/ UNCHANGED accountVars
  PROVE  BalancesAreTotals'
  <1>1. BalancesAreTotals <=> Wallet!BalancesAreTotals
    BY DEF BalancesAreTotals, EntriesOf, Wallet!BalancesAreTotals, Wallet!Account!BalancesAreTotals,
           Wallet!Account!EntriesOf
  <1>2. ASSUME NEW k \in Key, Apply(k)
        PROVE  BalancesAreTotals'
    <2>1. Wallet!Account!Apply(k)
      BY <1>2 DEF Apply, Covers, PaidBump, Wallet!Account!Apply, Wallet!Account!Covers,
                  Wallet!Account!PaidBump
    <2>2. applied \subseteq Key /\ balance \in [User -> Nat] /\ paid \in [User -> Nat]
      BY DEF AccountTypeOK
    <2>3. Wallet!BalancesAreTotals'
      BY <1>1, <2>1, <2>2, Wallet!ApplyKeepsTotals, WalletAssumptions
         DEF Wallet!StoreAssumption, Wallet!StoreTotalAssumption
    <2> QED BY <2>3
            DEF BalancesAreTotals, EntriesOf, Wallet!BalancesAreTotals,
                Wallet!Account!BalancesAreTotals, Wallet!Account!EntriesOf
  <1>3. CASE UNCHANGED accountVars
    BY <1>3 DEF accountVars, BalancesAreTotals, EntriesOf
  <1> QED BY <1>2, <1>3 DEF AccountNext

------------------------------------------------------------------------------
(* What was paid for.                                                       *)

\* Events do not unhappen, and what is paid stays paid.
PaymentsStay ==
  /\ happened \subseteq happened'
  /\ \A x \in Item : order[x] = "paid" => order'[x] = "paid"

LEMMA SubscriptionsAreItems == Subscription \subseteq Item
  BY BillingAssumption DEF Subscription

\* New entries, orders and subscriptions are each paid for by what is behind them.
LEMMA StaysPaidFor ==
  ASSUME EntitlementsArePaid, PaymentsStay,
         \A e \in Event : KindOf[e] \in TopUpKind /\ TopUpKey[ItemOf[e]] \in applied' =>
           TopUpKey[ItemOf[e]] \in applied \/ order'[ItemOf[e]] = "paid",
         \A x \in Subscription : sub'[x].status # "none" =>
           sub[x].status # "none" \/ order'[x] = "paid",
         \A x \in Item : order'[x] = "paid" =>
           \/ order[x] = "paid"
           \/ \E e \in happened : ItemOf[e] = x /\ KindOf[e] # "creem_canceled"
  PROVE  EntitlementsArePaid'
  BY SubscriptionsAreItems, BillingAssumption DEF EntitlementsArePaid, PaymentsStay

\* A handler that moves goes on with its event, or starts with one that happened.
LEMMA HandlerStaysReal ==
  ASSUME EventsAreReal, BillingTypeOK, NEW h \in Handler, NEW r,
         handler' = [handler EXCEPT ![h] = r], r.step # "idle" => r.event \in happened,
         UNCHANGED job, happened \subseteq happened',
         \A x \in Subscription : sub[x].status # "none" => sub'[x].status # "none"
  PROVE  EventsAreReal'
  <1>1. \A g \in Handler : handler'[g] = IF g = h THEN r ELSE handler[g]
    BY DEF BillingTypeOK
  <1>2. job.doing = "expiring" => \A k \in job.rows : k[1] \in Subscription
    BY DEF BillingTypeOK, OutboxKey
  <1> QED BY <1>1, <1>2 DEF EventsAreReal

LEMMA GoesStaysReal ==
  ASSUME EventsAreReal, BillingTypeOK, NEW h \in Handler, handler[h].step # "idle",
         NEW step \in {"credit", "done"}, Goes(h, step),
         UNCHANGED <<job, happened>>,
         \A x \in Subscription : sub[x].status # "none" => sub'[x].status # "none"
  PROVE  EventsAreReal'
  <1>1. PICK r \in HandlerRow :
          /\ handler' = [handler EXCEPT ![h] = r]
          /\ r = NoHandler \/ (r.event = handler[h].event /\ r.step = step)
    BY GoesEffect
  <1>2. r.step # "idle" => r.event \in happened
    BY <1>1, IdleRow DEF EventsAreReal
  <1>3. UNCHANGED job /\ happened \subseteq happened'
    OBVIOUS
  <1> QED BY <1>1, <1>2, <1>3, HandlerStaysReal

PaidInv == EventsAreReal /\ EntitlementsArePaid

LEMMA FulfilIsPaidFor ==
  ASSUME CommitInv, PaidInv, NEW h \in Handler, Fulfil(h)
  PROVE  PaidInv'
  <1> DEFINE e == handler[h].event
             x == ItemOf[e]
  <1>1. /\ e \in Event /\ e \in happened /\ x \in Item /\ handler[h].step # "idle"
        /\ UNCHANGED <<applied, happened, job>>
    BY BillingAssumption
       DEF Fulfil, CommitInv, HandlersInv, PaidInv, EventsAreReal, accountVars
  <1>2. BillingTypeOK /\ order \in [Item -> {"none", "pending", "paid"}]
        /\ sub \in [Subscription -> [status : {"none", "active", "canceled", "expired"}, ends : Instant]]
    BY TypeParts DEF CommitInv, SystemTypeOK
  <1>3. KindOf[e] \in TopUpKind \/ KindOf[e] \in PeriodKind => KindOf[e] # "creem_canceled"
    BY DEF TopUpKind, PeriodKind
  <1>4. CASE /\ KindOf[e] \in TopUpKind
             /\ order' = [order EXCEPT ![x] = "paid"]
             /\ Goes(h, "credit") /\ UNCHANGED <<sub, outbox>>
    <2>1. EventsAreReal'
      BY <1>1, <1>2, <1>4, GoesStaysReal DEF PaidInv
    <2>2. EntitlementsArePaid'
      BY <1>1, <1>2, <1>3, <1>4, StaysPaidFor DEF PaidInv, PaymentsStay
    <2> QED BY <2>1, <2>2 DEF PaidInv
  <1>5. CASE /\ KindOf[e] \in PeriodKind
             /\ order' = [order EXCEPT ![x] = "paid"]
             /\ sub' = [sub EXCEPT ![x] = [status |-> "active", ends |-> PeriodEnd(e)]]
             /\ Goes(h, "done")
    <2>1. \A y \in Subscription : sub'[y].status = IF y = x THEN "active" ELSE sub[y].status
      BY <1>2, <1>5
    <2>2. EventsAreReal'
      BY <1>1, <1>2, <1>5, <2>1, GoesStaysReal DEF PaidInv
    <2>3. \A y \in Item : order'[y] = IF y = x THEN "paid" ELSE order[y]
      BY <1>2, <1>5
    <2>4. EntitlementsArePaid'
      BY <1>1, <1>3, <1>5, <2>1, <2>3, StaysPaidFor DEF PaidInv, PaymentsStay
    <2> QED BY <2>2, <2>4 DEF PaidInv
  <1>6. CASE /\ sub' = [sub EXCEPT ![x] = Canceled(x)]
             /\ Goes(h, "done") /\ UNCHANGED <<order, outbox>>
    <2>1. \A y \in Subscription : sub'[y].status # "none" <=> sub[y].status # "none"
      BY <1>2, <1>6 DEF Canceled
    <2>2. EventsAreReal'
      BY <1>1, <1>2, <1>6, <2>1, GoesStaysReal DEF PaidInv
    <2>3. EntitlementsArePaid'
      BY <1>1, <1>6, <2>1, StaysPaidFor DEF PaidInv, PaymentsStay
    <2> QED BY <2>2, <2>3 DEF PaidInv
  <1> QED BY <1>4, <1>5, <1>6 DEF Fulfil

\* The order of a top-up is paid before its entry is made.
LEMMA CreditIsPaidFor ==
  ASSUME CommitInv, PaidInv, NEW h \in Handler, CreditTopUp(h)
  PROVE  PaidInv'
  <1> DEFINE e == handler[h].event
  <1>1. /\ e \in Event /\ KindOf[e] \in TopUpKind /\ Recorded(e) /\ handler[h].step # "idle"
        /\ UNCHANGED <<order, sub, happened, job>>
    BY DEF CreditTopUp, CommitInv, HandlersInv
  <1>2. BillingTypeOK
    BY DEF CommitInv, SystemTypeOK
  <1>3. order[ItemOf[e]] = "paid"
    BY <1>1 DEF Recorded, TopUpKind
  <1>4. applied' \subseteq applied \cup {TopUpKey[ItemOf[e]]}
    BY DEF CreditTopUp, Credit, Apply, accountVars
  <1>5. \A f \in Event : KindOf[f] \in TopUpKind /\ TopUpKey[ItemOf[f]] = TopUpKey[ItemOf[e]]
                            => ItemOf[f] = ItemOf[e]
    BY <1>1, BillingAssumption
  <1>6. EventsAreReal'
    BY <1>1, <1>2, GoesStaysReal DEF CreditTopUp, PaidInv
  <1>7. EntitlementsArePaid'
    BY <1>1, <1>3, <1>4, <1>5, StaysPaidFor DEF PaidInv, PaymentsStay
  <1> QED BY <1>6, <1>7 DEF PaidInv

LEMMA RequestIsPaidFor ==
  ASSUME CommitInv, PaidInv, NEW h \in Handler,
         HandlerStep(h) \/ \E e \in Event : Claim(h, e) \/ Poll(h, e)
  PROVE  PaidInv'
  <1>1. ASSUME UNCHANGED <<applied, order, sub, happened, job>>,
               NEW r, handler' = [handler EXCEPT ![h] = r], r.step # "idle" => r.event \in happened
        PROVE  PaidInv'
    <2>1. EventsAreReal'
      BY <1>1, HandlerStaysReal DEF PaidInv, CommitInv, SystemTypeOK
    <2>2. EntitlementsArePaid'
      BY <1>1, StaysPaidFor DEF PaidInv, PaymentsStay
    <2> QED BY <2>1, <2>2 DEF PaidInv
  <1>2. CASE Finish(h) \/ Fail(h) \/ Drop(h)
    <2>1. UNCHANGED <<applied, order, sub, happened, job>> /\ handler' = [handler EXCEPT ![h] = NoHandler]
      BY <1>2 DEF Finish, Fail, Drop, Marks, accountVars
    <2> QED BY <1>1, <2>1, IdleRow
  <1>3. ASSUME NEW e \in Event, Claim(h, e) \/ Poll(h, e)
        PROVE  PaidInv'
    <2>1. PICK by \in {"webhook", "poll"} :
            handler' = [handler EXCEPT ![h] = [event |-> e, by |-> by, step |-> "apply"]]
      BY <1>3 DEF Claim, Poll
    <2>2. UNCHANGED <<applied, order, sub, happened, job>> /\ e \in happened
      BY <1>3 DEF Claim, Poll, accountVars
    <2> QED BY <1>1, <2>1, <2>2
  <1> QED BY <1>2, <1>3, FulfilIsPaidFor, CreditIsPaidFor DEF HandlerStep

LEMMA WorldIsPaidFor ==
  ASSUME CommitInv, PaidInv,
         Tick \/ \E e \in Event : Checkout(e) \/ Happen(e) \/ LeaseEnds(e)
  PROVE  PaidInv'
  <1>1. UNCHANGED <<applied, handler, sub, job>> /\ happened \subseteq happened'
    BY DEF Tick, Checkout, Happen, LeaseEnds, accountVars
  <1>2. \A x \in Item : order'[x] = "paid" <=> order[x] = "paid"
    <2>1. order \in [Item -> {"none", "pending", "paid"}]
      BY TypeParts DEF CommitInv, SystemTypeOK
    <2> QED BY <2>1 DEF Tick, Checkout, Happen, LeaseEnds
  <1>3. EventsAreReal'
    BY <1>1 DEF PaidInv, EventsAreReal
  <1>4. EntitlementsArePaid'
    BY <1>1, <1>2, StaysPaidFor DEF PaidInv, PaymentsStay
  <1> QED BY <1>3, <1>4 DEF PaidInv

\* What an expiry writes: the status of subscriptions that there are.
LEMMA ExpiryHits ==
  ASSUME EventsAreReal, ExpireWrite, NEW x \in Subscription
  PROVE  /\ sub'[x].status # "none" <=> sub[x].status # "none"
         /\ sub'[x].ends = sub[x].ends
  <1> DEFINE Hit == \E n \in Instant : <<x, n>> \in job.rows
  <1>1. sub'[x] = IF Hit THEN [status |-> "expired", ends |-> sub[x].ends] ELSE sub[x]
    BY DEF ExpireWrite
  <1>2. Hit => sub[x].status # "none"
    BY DEF ExpireWrite, EventsAreReal
  <1> HIDE DEF Hit
  <1> QED BY <1>1, <1>2

\* The job expires only subscriptions that there are.
LEMMA JobIsPaidFor ==
  ASSUME CommitInv, PaidInv, JobStep
  PROVE  PaidInv'
  <1>1. UNCHANGED <<applied, handler, order, happened>>
    BY DEF JobStep, ExpireRead, ExpireWrite, MarkSent, DropJob, Notify, MarkFailed, accountVars
  <1>2. \A x \in Subscription : sub'[x].status # "none" <=> sub[x].status # "none"
    <2>1. CASE ExpireWrite
      BY <2>1, ExpiryHits DEF PaidInv
    <2>2. CASE ~ExpireWrite
      BY <2>2 DEF JobStep, ExpireRead, MarkSent, DropJob, Notify, MarkFailed
    <2> QED BY <2>1, <2>2
  <1>3. job'.doing = "expiring" => \A k \in job'.rows : sub[k[1]].status # "none" /\ k[1] \in Subscription
    <2>1. CASE ExpireRead
      BY <2>1 DEF ExpireRead, Due
    <2>2. CASE ~ExpireRead
      BY <2>2 DEF JobStep, ExpireWrite, MarkSent, DropJob, Notify, MarkFailed, NoJob,
                  PaidInv, EventsAreReal, CommitInv, SystemTypeOK, BillingTypeOK, OutboxKey
    <2> QED BY <2>1, <2>2
  <1>4. EventsAreReal'
    BY <1>1, <1>2, <1>3 DEF PaidInv, EventsAreReal
  <1>5. EntitlementsArePaid'
    BY <1>1, <1>2, StaysPaidFor DEF PaidInv, PaymentsStay
  <1> QED BY <1>4, <1>5 DEF PaidInv

\* A bonus is no top-up.
LEMMA ReferralIsPaidFor ==
  ASSUME CommitInv, PaidInv, ReferralNext, UNCHANGED billingVars
  PROVE  PaidInv'
  <1>1. UNCHANGED <<handler, order, sub, happened, job>>
    BY DEF billingVars
  <1>2. \A e \in Event : KindOf[e] \in TopUpKind /\ TopUpKey[ItemOf[e]] \in applied'
                           => TopUpKey[ItemOf[e]] \in applied
    <2>1. \/ UNCHANGED applied
          \/ \E i \in Invitee : applied' \in {applied \cup {InviterBonus[i]}, applied \cup {InviteeBonus[i]}}
      BY DEF ReferralNext, NextDay, Bind, Weigh, CountAll, CountToday, MarkRejected, PayInviter,
             PayInvitee, MarkRewarded, GiveUp, Credit, Apply, accountVars
    <2> QED BY <2>1, SystemAssumption
  <1>3. EntitlementsArePaid'
    BY <1>1, <1>2, StaysPaidFor DEF PaidInv, PaymentsStay
  <1> QED BY <1>1, <1>3 DEF PaidInv, EventsAreReal

LEMMA StepIsPaidFor ==
  ASSUME CommitInv, PaidInv, [SystemNext]_systemVars
  PROVE  PaidInv'
  <1>1. CASE UNCHANGED systemVars
    BY <1>1 DEF systemVars, billingVars, accountVars, PaidInv, EventsAreReal, EntitlementsArePaid
  <1> QED BY <1>1, RequestIsPaidFor, WorldIsPaidFor, JobIsPaidFor, ReferralIsPaidFor
          DEF SystemNext, BillingNext

------------------------------------------------------------------------------
(* Expiries find their key taken.                                           *)

\* Every row stays what it is, unless it was none and is now a paid one.
RowsStay ==
  \A k \in OutboxKey : \/ outbox'[k].type = outbox[k].type
                       \/ outbox[k].type = "none" /\ outbox'[k].type = "paid"

LEMMA RowsStayPaid ==
  ASSUME CommitInv, ExpiryFindsPaidRow, RowsStay,
         \A x \in Subscription : sub'[x].status # "none" =>
           \/ sub[x].status # "none" /\ sub'[x].ends = sub[x].ends
           \/ outbox'[<<x, sub'[x].ends>>].type = "paid",
         job'.doing = "expiring" => \A k \in job'.rows : k \in OutboxKey /\ outbox[k].type = "paid"
  PROVE  ExpiryFindsPaidRow'
  <1>1. sub \in [Subscription -> [status : {"none", "active", "canceled", "expired"}, ends : Instant]]
    BY TypeParts DEF CommitInv, SystemTypeOK
  <1>2. \A x \in Subscription : <<x, sub[x].ends>> \in OutboxKey
    BY <1>1 DEF OutboxKey
  <1>3. \A k \in OutboxKey : outbox[k].type = "paid" => outbox'[k].type = "paid"
    BY DEF RowsStay
  <1>4. \A k \in OutboxKey : outbox'[k].type # "expired"
    BY DEF RowsStay, ExpiryFindsPaidRow
  <1>5. ASSUME NEW x \in Subscription, sub'[x].status # "none"
        PROVE  outbox'[<<x, sub'[x].ends>>].type = "paid"
    BY <1>2, <1>3, <1>5 DEF ExpiryFindsPaidRow
  <1>6. job'.doing = "expiring" => \A k \in job'.rows : outbox'[k].type = "paid"
    BY <1>3
  <1> QED BY <1>4, <1>5, <1>6 DEF ExpiryFindsPaidRow

LEMMA AnnouncedRow ==
  ASSUME NEW rows, NEW type, outbox' = Announced(rows, type), NEW k \in OutboxKey
  PROVE  outbox'[k].type = IF k \in rows /\ outbox[k].type = "none" THEN type ELSE outbox[k].type
  BY DEF Announced, Row

LEMMA FulfilFindsRows ==
  ASSUME CommitInv, ExpiryFindsPaidRow, NEW h \in Handler, Fulfil(h)
  PROVE  ExpiryFindsPaidRow'
  <1> DEFINE e == handler[h].event
             x == ItemOf[e]
  <1>1. e \in Event /\ UNCHANGED job
    BY DEF Fulfil, CommitInv, HandlersInv
  <1>2. /\ sub \in [Subscription -> [status : {"none", "active", "canceled", "expired"}, ends : Instant]]
        /\ outbox \in [OutboxKey -> OutboxRow] /\ now \in 0..MaxNow
        /\ job \in [doing : {"nothing", "expiring", "notified"}, rows : SUBSET OutboxKey]
    BY TypeParts DEF CommitInv, SystemTypeOK
  <1>3. job.doing = "expiring" => \A k \in job.rows : k \in OutboxKey /\ outbox[k].type = "paid"
    BY <1>2 DEF ExpiryFindsPaidRow
  <1>4. CASE UNCHANGED <<sub, outbox>>
    BY <1>1, <1>3, <1>4, RowsStayPaid DEF RowsStay
  <1>5. CASE /\ KindOf[e] \in PeriodKind
             /\ sub' = [sub EXCEPT ![x] = [status |-> "active", ends |-> PeriodEnd(e)]]
             /\ outbox' = Announced({<<x, PeriodEnd(e)>>}, "paid")
    <2>1. x \in Subscription /\ PeriodEnd(e) \in Instant
      BY <1>1, <1>2, <1>5, BillingAssumption DEF Subscription, PeriodEnd, Instant
    <2>2. RowsStay
      BY <1>5, AnnouncedRow DEF RowsStay
    <2>3. <<x, PeriodEnd(e)>> \in OutboxKey
      BY <2>1 DEF OutboxKey
    <2>4. outbox'[<<x, PeriodEnd(e)>>].type = "paid"
      <3>1. outbox[<<x, PeriodEnd(e)>>].type \in {"none", "paid"}
        BY <1>2, <2>3 DEF OutboxRow, ExpiryFindsPaidRow
      <3> QED BY <1>5, <2>3, <3>1, AnnouncedRow
    <2>5. sub'[x].ends = PeriodEnd(e) /\ \A y \in Subscription : y # x => sub'[y] = sub[y]
      BY <1>2, <1>5, <2>1
    <2> QED BY <1>1, <1>3, <2>2, <2>4, <2>5, RowsStayPaid
  <1>6. CASE sub' = [sub EXCEPT ![x] = Canceled(x)] /\ UNCHANGED outbox
    <2>1. \A y \in Subscription : /\ sub'[y].status # "none" <=> sub[y].status # "none"
                                 /\ sub'[y].ends = sub[y].ends
      BY <1>2, <1>6 DEF Canceled
    <2> QED BY <1>1, <1>3, <1>6, <2>1, RowsStayPaid DEF RowsStay
  <1> QED BY <1>4, <1>5, <1>6 DEF Fulfil

LEMMA JobFindsRows ==
  ASSUME CommitInv, PaidInv, ExpiryFindsPaidRow, JobStep
  PROVE  ExpiryFindsPaidRow'
  <1>1. /\ sub \in [Subscription -> [status : {"none", "active", "canceled", "expired"}, ends : Instant]]
        /\ outbox \in [OutboxKey -> OutboxRow]
        /\ job \in [doing : {"nothing", "expiring", "notified"}, rows : SUBSET OutboxKey]
    BY TypeParts DEF CommitInv, SystemTypeOK
  <1>2. job.doing = "expiring" => \A k \in job.rows : k \in OutboxKey /\ outbox[k].type = "paid"
    BY <1>1 DEF ExpiryFindsPaidRow
  <1>3. CASE ExpireRead
    <2>1. \A k \in Due : k \in OutboxKey /\ outbox[k].type = "paid"
      BY <1>1 DEF Due, OutboxKey, ExpiryFindsPaidRow
    <2>2. UNCHANGED <<sub, outbox>> /\ job'.rows = Due
      BY <1>3 DEF ExpireRead
    <2> QED BY <2>1, <2>2, RowsStayPaid DEF RowsStay
  <1>4. CASE ExpireWrite
    <2>1. RowsStay
      BY <1>2, <1>4, AnnouncedRow DEF ExpireWrite, RowsStay
    <2>2. job'.doing # "expiring"
      BY <1>4 DEF ExpireWrite, NoJob
    <2>3. \A x \in Subscription : /\ sub'[x].status # "none" <=> sub[x].status # "none"
                                 /\ sub'[x].ends = sub[x].ends
      BY <1>4, ExpiryHits DEF PaidInv
    <2> QED BY <2>1, <2>2, <2>3, RowsStayPaid
  <1>5. CASE MarkSent
    <2>1. RowsStay
      BY <1>1, <1>5 DEF MarkSent, RowsStay, Row
    <2> QED BY <1>5, <2>1, RowsStayPaid DEF MarkSent, NoJob
  <1>6. ASSUME NEW k \in OutboxKey, MarkFailed(k)
        PROVE  ExpiryFindsPaidRow'
    <2>1. RowsStay
      BY <1>1, <1>6 DEF MarkFailed, RowsStay, AfterFailure, Row
    <2> QED BY <1>2, <1>6, <2>1, RowsStayPaid DEF MarkFailed
  <1>7. ASSUME NEW k \in OutboxKey, Notify(k)
        PROVE  ExpiryFindsPaidRow'
    BY <1>7, RowsStayPaid DEF Notify, RowsStay
  <1>8. CASE DropJob
    BY <1>8, RowsStayPaid DEF DropJob, NoJob, RowsStay
  <1> QED BY <1>3, <1>4, <1>5, <1>6, <1>7, <1>8 DEF JobStep

LEMMA StepFindsRows ==
  ASSUME CommitInv, PaidInv, ExpiryFindsPaidRow, [SystemNext]_systemVars
  PROVE  ExpiryFindsPaidRow'
  <1>1. CASE UNCHANGED <<sub, outbox, job>>
    BY <1>1 DEF ExpiryFindsPaidRow
  <1>2. ASSUME NEW h \in Handler, Fulfil(h) PROVE ExpiryFindsPaidRow'
    BY <1>2, FulfilFindsRows
  <1>3. CASE JobStep
    BY <1>3, JobFindsRows
  <1>4. CASE UNCHANGED systemVars \/ UNCHANGED billingVars
    BY <1>1, <1>4 DEF systemVars, billingVars
  <1>5. CASE BillingNext
    BY <1>1, <1>2, <1>3, <1>5
       DEF BillingNext, Tick, Checkout, Happen, LeaseEnds, HandlerStep, CreditTopUp, Finish, Fail,
           Drop, Claim, Poll
  <1> QED BY <1>4, <1>5 DEF SystemNext

LEMMA InitPaysNothing == SystemInit => BalancesAreTotals /\ PaidInv /\ ExpiryFindsPaidRow
  <1> SUFFICES ASSUME SystemInit PROVE BalancesAreTotals /\ PaidInv /\ ExpiryFindsPaidRow
    OBVIOUS
  <1>1. BalancesAreTotals
    <2>1. \A u \in User : EntriesOf(u) = {} /\ EntriesOf(u) \cap PaidTopup = {}
      BY DEF SystemInit, BillingInit, AccountInit, EntriesOf
    <2> QED BY <2>1, TotalAssumption DEF SystemInit, BillingInit, AccountInit, BalancesAreTotals
  <1>2. PaidInv
    BY SubscriptionsAreItems, BillingAssumption
       DEF SystemInit, BillingInit, AccountInit, PaidInv, EventsAreReal, EntitlementsArePaid,
           NoHandler, NoJob
  <1>3. ExpiryFindsPaidRow
    BY DEF SystemInit, BillingInit, ExpiryFindsPaidRow, NoRow, Row, NoJob
  <1> QED BY <1>1, <1>2, <1>3

------------------------------------------------------------------------------
(* The theorems.                                                            *)

\* Every reachable state satisfies the inductive invariant, whatever the
\* providers send, in whatever order and how often, and whoever dies
\* (the webhook handlers, the maintenance job and finish_pending).
THEOREM SystemInvariant == SystemSpec => []SystemInv
  <1>1. SystemInit => CommitInv
    BY InitEstablishesCommitInv
  <1>2. CommitInv /\ [SystemNext]_systemVars => CommitInv'
    BY StepKeepsCommitInv
  <1>3. SystemInit => BalancesAreTotals /\ PaidInv /\ ExpiryFindsPaidRow
    BY InitPaysNothing
  <1>4. CommitInv /\ BalancesAreTotals /\ [SystemNext]_systemVars => BalancesAreTotals'
    BY SystemStepIsAccountStep, StepKeepsTotals DEF CommitInv, SystemTypeOK
  <1>5. CommitInv /\ PaidInv /\ [SystemNext]_systemVars => PaidInv'
    BY StepIsPaidFor
  <1>6. CommitInv /\ PaidInv /\ ExpiryFindsPaidRow /\ [SystemNext]_systemVars => ExpiryFindsPaidRow'
    BY StepFindsRows
  <1> QED BY <1>1, <1>2, <1>3, <1>4, <1>5, <1>6, PTL DEF SystemSpec, SystemInv, PaidInv

\* Nobody has a top-up or a subscription that nobody paid for, whatever requests,
\* polls and cancellations overtake each other (process.rs:191-340).
THEOREM NothingUnpaid == SystemSpec => []EntitlementsArePaid
  <1>1. SystemInv => EntitlementsArePaid
    BY DEF SystemInv
  <1> QED BY <1>1, SystemInvariant, PTL

\* With top-ups and bonuses racing, a wallet is worth what its ledger adds up to.
THEOREM SystemBalances == SystemSpec => []BalancesAreTotals
  <1>1. SystemInv => BalancesAreTotals
    BY DEF SystemInv
  <1> QED BY <1>1, SystemInvariant, PTL

\* No expiry is ever announced: its row has the key of the paid one of its period
\* (maintenance.rs:63, process.rs:76 and :306).
THEOREM ExpiriesGoUnannounced == SystemSpec => []ExpiryFindsPaidRow
  <1>1. SystemInv => ExpiryFindsPaidRow
    BY DEF SystemInv
  <1> QED BY <1>1, SystemInvariant, PTL

\* A webhook event that is marked processed has been applied in full, also when
\* several requests worked on it at once (service.rs:567-590).
THEOREM AcknowledgedIsApplied == SystemSpec => []ProcessedMeansApplied
  <1>1. SystemInv => ProcessedMeansApplied
    BY DEF SystemInv, CommitInv
  <1> QED BY <1>1, SystemInvariant, PTL

\* No crash of the maintenance job makes a row of the outbox count as sent
\* without its notification (maintenance.rs:270-301).
THEOREM SentIsNotified == SystemSpec => []SentMeansNotified
  <1>1. SystemInv => SentMeansNotified
    BY DEF SystemInv, CommitInv
  <1> QED BY <1>1, SystemInvariant, PTL

\* A rewarded invitation has paid both sides, a rejected one neither, whatever
\* other registrations and payments do meanwhile (referral.rs:5).
THEOREM RewardIsWhole == SystemSpec => []RewardsBothOrNeither
  <1>1. SystemInv => RewardsBothOrNeither
    BY DEF SystemInv, CommitInv
  <1> QED BY <1>1, SystemInvariant, PTL
==============================================================================
