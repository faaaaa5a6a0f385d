SPECIFICATION SystemSpec
CONSTANTS
    u1 = u1
    i1 = i1
    i2 = i2
    h1 = h1
    h2 = h2
    none = none
    topup = topup
    plan = plan
    creem = creem
    top = top
    buy = buy
    pay = pay
    renew = renew
    cancel = cancel
    User = {u1, i1, i2}
    Key <- MCKey
    OwnerOf <- MCOwnerOf
    AmountOf <- MCAmountOf
    PaidTopup <- MCPaidTopup
    Total <- MCTotal
    Handler = {h1, h2}
    Item = {topup, plan, creem}
    Event = {top, buy, pay, renew, cancel}
    NoEvent = none
    Scenario <- MCScenario
    KindOf <- MCKindOf
    ItemOf <- MCItemOf
    EndOf <- MCEndOf
    Before <- MCBefore
    TopUpKey <- MCTopUpKey
    Days = 1
    MaxNow = 2
    MaxRetry = 1
    Inviting <- MCInviting
    Invitee = {i1, i2}
    InviterOf <- MCInviterOf
    InviterBonus <- MCInviterBonus
    InviteeBonus <- MCInviteeBonus
    BaseQuota = 1
    TopupStep = 2
    DailyCap = 1
INVARIANTS SystemInv ProcessedMeansApplied SentMeansNotified RewardsBothOrNeither EntitlementsArePaid
PROPERTIES TopUpIsCredited LapsedEnds OutboxSettles
CHECK_DEADLOCK FALSE
