SPECIFICATION Spec
CONSTANTS
    i1 = i1
    i2 = i2
    w1 = w1
    w2 = w2
    Items = {i1, i2}
    Workers = {w1}
    MaxRetries = 2
    ShippingPaid = TRUE
    MaxStaff = 0
CHECK_DEADLOCK FALSE
INVARIANTS SiblingDefers
