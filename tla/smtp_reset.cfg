SPECIFICATION SmtpSpec
CONSTANTS
    a = a  b = b  r = r  s = s
    x1 = x1  x2 = x2  x3 = x3  c1 = c1  c2 = c2
    Agents = {a}
    Recipients = {r, s}
    MaxCommands = 7
    Notices = 0
    Faults = FALSE
    UpstreamEnds = FALSE
    Ops = {x1}
    Conns = {c1}
    Limit = 2
    MaxFaults = 2
INVARIANTS StagedIsTransaction
CHECK_DEADLOCK FALSE
