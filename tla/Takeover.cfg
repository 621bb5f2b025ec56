SPECIFICATION FairSpec
CONSTANTS
    s1 = s1
    NoEvent = NoEvent
    Events = {e1}
    Legacy = {}
    Orders = {s1}
    OrderOf <- OneOrder
    Executors = {x1, x2}
    Admins = {a1}
    MaxAttempts = 3
    LeaseTicks = 2
    BackoffTicks = 1
INVARIANTS TypeOK AtMostOneWriter NoStrandedRetry AttemptBudget JobCompletionIsTrue
PROPERTIES ProcessedIsFinal ReplacedOwnerIsHarmless EveryIntakeSettles
