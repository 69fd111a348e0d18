SPECIFICATION Spec
CONSTANTS
    NoOp = NoOp
    o1 = o1  r1 = r1  s1 = s1  g1 = g1
    Ops = {o1}
    SmtpOps = {o1}
    BodylessOps = {}
    Requests = {r1}
    Schedulers = {s1}
    Expirers = {}
    Stagers = {g1}
    MaxFaults = 0
INVARIANTS ClaimBarsApproval
CHECK_DEADLOCK FALSE
