SPECIFICATION Spec
CONSTANTS
    s1 = s1
    NoEvent = NoEvent
    Events = {e1}
    Legacy = {e1}
    Orders = {s1}
    OrderOf <- OneOrder
    Executors = {x1}
    Admins = {a1}
    MaxAttempts = 2
    LeaseTicks = 1
    BackoffTicks = 1
INVARIANTS LegacyNeverAutomatic
