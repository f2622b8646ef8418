SPECIFICATION TrafficSpec
CONSTANTS
    None = None
    p1 = p1
    p2 = p2
    c1 = c1
    c2 = c2
    e1 = e1
    e2 = e2
    m1 = m1
    m2 = m2
    Plmn = {p1, p2}
    Cell = {c1, c2}
    Enb = {e1, e2}
    Mme = {m1, m2}
    Gap = 2
    Captures <- DetectorCaptures
    MaxMessages = 6
    MaxFailures = 1
CHECK_DEADLOCK FALSE
INVARIANTS
    TypeOK
    SessionIsOneContext
    NoGapInside
    DetachEndsSession
    RunnerTracksOpenSessions
    MmeIsFirstSeen
    AkaAlertExact
    AkaEvidence
    ImsiAlertJudgesFirstAttach
PROPERTIES
    PassSplitsOnlyByGapOrDetach
    StatsTellTheCommit
    EveryPassAdvances
    PassIsOneFunction
    StoreSpec
    EventuallyAssigned
