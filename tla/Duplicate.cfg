SPECIFICATION FairSpec
CONSTANTS
    s1 = s1
    NoEvent = NoEvent
    Events = {e1, e2}
    Legacy = {e2}
    Orders = {s1}
    OrderOf <- OneOrder
    Executors = {x1}
    Admins = {a1}
    MaxAttempts = 2
    LeaseTicks = 1
    BackoffTicks = 1
INVARIANTS ProcessedCreatedTheOrder
PROPERTIES OrderCreatedOnce DeadLetterStaysManual ImplementsOrderIntake EveryIntakeSettles
