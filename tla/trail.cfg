SPECIFICATION TrailSpec
CONSTANTS
    a = a  b = b  c = c  d = d  NoOne = NoOne
    Writers = {a, b, c, d}
    Recorders = {a, b}
    ApiWriters = {a, c}
    UserWriters = {c}
    SlowCommits = TRUE
    MaxRows = 3
    MaxPurges = 1
    x1 = x1  x2 = x2  k1 = k1  k2 = k2
    Ops = {x1, x2}
    Passes = {k1, k2}
    Limit = 1
    MaxFaults = 1
INVARIANTS
    NoFalseAlarm ScrubbingIsSafe
PROPERTIES
    LinksHold WritersAndPassesEnd
CHECK_DEADLOCK FALSE
