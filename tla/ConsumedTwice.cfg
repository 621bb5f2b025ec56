\* A refund taken off directly and as an adjustment.
SPECIFICATION Spec
CONSTANTS
    s1 = s1
    s2 = s2
    r1 = r1
    r2 = r2
    Sales = {s1, s2}
    Refunds = {r1, r2}
    SaleOf <- SaleOfRefund
    SaleAmount <- Owed
    RefundAmount <- TakenBack
    MaxApprovals = 3
    MaxBatches = 2
CHECK_DEADLOCK FALSE
INVARIANTS NotConsumedTwice
