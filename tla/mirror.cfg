SPECIFICATION MirrorSpec
CONSTANTS
    o1 = o1  o2 = o2  s1 = s1  s2 = s2
    Ops = {o1, o2}
    Commands <- Disjoint
    Sessions = {s1}
    Flags = {"S"}
    MaxUid = 3
    MaxPending = 2
    Outside = {"flags", "mail"}
    m1 = m1  m2 = m2  inbox = inbox  archive = archive  t1 = t1  t2 = t2
    Msgs = {m1, m2}
    Folders = {inbox, archive}
    Tasks = {t1, t2}
    MaxOutside = 1
    MaxFaults = 1
INVARIANTS  RefusalReachesAgent HiddenWillMove UndoIsTrue
PROPERTIES RollbackIsTrue
CHECK_DEADLOCK FALSE
