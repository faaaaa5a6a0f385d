SPECIFICATION UsageSpec
CONSTANTS
    u1 = u1
    chat1 = chat1
    chat2 = chat2
    relay = relay
    llm = llm
    embed = embed
    job = job
    NoKey = NoKey
    User = {u1}
    Key <- MCKey
    OwnerOf <- MCOwnerOf
    AmountOf <- MCAmountOf
    PaidTopup = {}
    Total <- MCTotal
    Proc <- MCProc
    Turn = {chat1, chat2, relay}
    HoldTurn = {chat1, chat2}
    Call <- MCCall
    BeforeHold = {embed}
    Reaper = {job}
    PayerOf <- MCPayerOf
    TurnOf <- MCTurnOf
    GrantKey <- MCGrantKey
    HoldKey <- MCHoldKey
    ReleaseKey <- MCReleaseKey
    DebitKey <- MCDebitKey
INVARIANTS UsageInv ReleaseFollowsHold RunsUnderHold SettledHoldsCostNothing
PROPERTIES ImplementsAccount HoldsAreReturned
CHECK_DEADLOCK FALSE
