\* An identity is lost when the local shipment conflicts during the create.
SPECIFICATION Spec
CONSTANTS
    Workers = {w1}
    Pollers = {p1}
    Vendors = {}
    Hooks = {h1}
    Cargos = {c1, c2}
    NoCargo = NoCargo
    MaxForeign = 0
    MaxManual = 0
PROPERTIES ProvenIsRecorded
