SPECIFICATION Spec
CONSTANTS
    NoOp = NoOp
    o1 = o1  o2 = o2  p1 = p1  p2 = p2  e1 = e1  g1 = g1
    Ops = {o1, o2}
    SmtpOps = {o2}
    BodylessOps = {o1}
    Requests = {}
    Schedulers = {p1, p2}
    Expirers = {e1}
    Stagers = {g1}
    MaxFaults = 0
SYMMETRY Symmetry
INVARIANTS
    StrandedIsUnsent
PROPERTIES
    KeepsPromise
CHECK_DEADLOCK FALSE
