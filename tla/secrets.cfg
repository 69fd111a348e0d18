SPECIFICATION SecretsSpec
CONSTANTS
    u = u  a = a  b = b  c = c  d = d  r = r  s = s  x = x
    Users = {u}
    Agents = {a, b}
    Kinds = {"password", "google"}
    MaxFaults = 1
    Callers = {c, d}
    Lifetime = 4
    Buffer = 2
    Latency = 1
    MaxTime = 6
    Refs = {r, s}
    Readers = {c, d}
    Deleters = {x}
    MaxEntries = 1
    v = v  w = w  st1 = st1  st2 = st2
    States = {st1, st2}
    Visitors = {v, w}
    Providers = {"google", "microsoft"}
    Callbacks = {c, d}
INVARIANTS
    NoOrphanSecret LiveCredentialWorks SecretsAreServed FlowIsTrue
PROPERTIES
    CallsEnd
CHECK_DEADLOCK FALSE
