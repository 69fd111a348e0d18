SPECIFICATION SmtpSpec
CONSTANTS
    a = a  b = b  r = r  s = s
    x1 = x1  x2 = x2  x3 = x3  c1 = c1  c2 = c2
    Agents = {a, b}
    Recipients = {r, s}
    MaxCommands = 8
    Notices = 1
    Faults = TRUE
    UpstreamEnds = TRUE
    Ops = {x1, x2, x3}
    Conns = {c1, c2}
    Limit = 2
    MaxFaults = 2
INVARIANTS
     ClientIsToldTrue
PROPERTIES
    ClientIsTold
CHECK_DEADLOCK FALSE
