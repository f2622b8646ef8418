SPECIFICATION BatchSpec
CONSTANTS
    None = None
    p1 = p1
    p2 = p2
    c1 = c1
    c2 = c2
    e1 = e1
    e2 = e2
    m1 = m1
    m2 = m2
    Plmn = {p1, p2}
    Cell = {c1, c2}
    Enb = {e1}
    Mme = {m1, m2}
    Gap = 1
    Captures <- RuleCaptures
    MaxMessages = 2
    MaxFailures = 0
CHECK_DEADLOCK FALSE
INVARIANTS
    ImsiAttachIsFlagged
