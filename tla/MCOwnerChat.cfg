SPECIFICATION ChatSpec
CONSTANTS
    bot1 = bot1
    bot2 = bot2
    Bots = {bot1, bot2}
    First = bot1
    c1 = c1
    c2 = c2
    Sends = {c1, c2}
    TextOf <- SameText
    MaxHub = 2
    TraceCap = 1
    Budgets <- SomeBudgets
    NoBot = NoBot
    NoSend = NoSend
INVARIANTS
    OwnerChatHolds
CHECK_DEADLOCK FALSE
