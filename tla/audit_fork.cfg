SPECIFICATION TrailSpec
CONSTANTS
    a = a  b = b  c = c  d = d  NoOne = NoOne
    Writers = {a, b}
    Recorders = {a, b}
    ApiWriters = {a, b}
    UserWriters = {}
    SlowCommits = FALSE
    MaxRows = 3
    MaxPurges = 0
    x1 = x1  x2 = x2  k1 = k1  k2 = k2
    Ops = {x1}
    Passes = {k1}
    Limit = 1
    MaxFaults = 0
INVARIANTS NoSharedPrev
CHECK_DEADLOCK FALSE
