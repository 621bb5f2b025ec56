\* A fulfillment made for the intent is found, with others in Shopify Admin beside it.
SPECIFICATION FairSpec
CONSTANTS
    Workers = {w1}
    Pollers = {p1, p2}
    Vendors = {}
    Hooks = {}
    Cargos = {c1, c2}
    NoCargo = NoCargo
    MaxForeign = 2
    MaxManual = 0
PROPERTIES CreatedIsIdentified
