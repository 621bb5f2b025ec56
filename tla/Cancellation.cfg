SPECIFICATION MCSpec
CONSTANTS
    i1 = i1
    i2 = i2
    w1 = w1
    w2 = w2
    Items = {i1, i2}
    Workers = {w1, w2}
    MaxRetries = 1
    ShippingPaid = TRUE
    MaxStaff = 1
CHECK_DEADLOCK FALSE
INVARIANTS TypeOK RowsAreTrue CancelFollowsRefund
PROPERTIES EveryCancellationEnds
