SPECIFICATION FairSpec
CONSTANTS
    NoOp = NoOp
    o1 = o1  r1 = r1  s1 = s1  e1 = e1  g1 = g1
    Ops = {o1}
    SmtpOps = {}
    BodylessOps = {}
    Requests = {r1}
    Schedulers = {s1}
    Expirers = {e1}
    Stagers = {g1}
    MaxFaults = 1
INVARIANTS
    TypeOK
    ExecutedIsTrue
    RefusalIsReverted
    DecisionIsAudited
PROPERTIES
    SettledIsFinal
    PendingIsDecided
CHECK_DEADLOCK FALSE
