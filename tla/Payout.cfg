\* Two sales with a refund each.
SPECIFICATION Spec
CONSTANTS
    s1 = s1
    s2 = s2
    r1 = r1
    r2 = r2
    Sales = {s1, s2}
    Refunds = {r1, r2}
    SaleOf <- SaleOfRefund
    SaleAmount <- Owed
    RefundAmount <- TakenBack
    MaxApprovals = 2
    MaxBatches = 3
CHECK_DEADLOCK FALSE
INVARIANTS TypeOK Conserved ListedOnce PaidStaysApproved ClaimsFollowBatch
           NeverNegative RefundAccounted ReviewReleasable
