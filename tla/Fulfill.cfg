\* Two worker cycles, a poller, the vendor and a webhook on one allocation with one cargo.
SPECIFICATION Spec
CONSTANTS
    Workers = {w1, w2}
    Pollers = {p1}
    Vendors = {v1}
    Hooks = {h1}
    Cargos = {c1}
    NoCargo = NoCargo
    MaxForeign = 0
    MaxManual = 1
SYMMETRY Symmetry
INVARIANTS TypeOK OneSubmission ClaimsExclusive SubmissionRemembered
PROPERTIES IdentityFixed
