SPECIFICATION AccountsSpec
CONSTANTS
    q = q  r = r  s = s  e = e  f = f  k = k  m = m  p = p  w = w
    l = l  n = n  i = i  a = a  b = b
    Requests = {q, r}
    Emails = {e, f}
    Codes = {k, m}
    Passwords = {p, w}
    InviteOnly = TRUE
    MaxAccounts = 2
    MaxTokens = 3
    Logins = {l, n}
    Ips = {i}
    Targets = {a, b}
    AttemptWindow = 2
    MaxPerIp = 4
    MaxPerAccount = 2
    FailureWindow = 3
    MaxFailures = 2
    BaseLockout = 1
    MaxLockout = 3
    MaxTime = 4
    s1 = s1  s2 = s2  s3 = s3  s4 = s4
    Sends = {s1, s2, s3, s4}
    FirstAgentSends = {s1, s2, s3}
    AgentCap = 2
    AccountCap = 2
    DayCap = 4
    Window = 1
    Day = 2
    MaxRecipients = 2
    MaxInFlight = 2
    MaxSendTime = 3
SYMMETRY Symmetry
INVARIANTS
    CodesMatchAccounts EndedStaysDead RatesAreBounded
PROPERTIES
    LockoutsHold
CHECK_DEADLOCK FALSE
