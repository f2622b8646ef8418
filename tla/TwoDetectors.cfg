SPECIFICATION Spec
CONSTANTS
    None = None
    p1 = p1
    p2 = p2
    c1 = c1
    c2 = c2
    e1 = e1
    m1 = m1
    m2 = m2
    s1 = s1
    s2 = s2
    s3 = s3
    d1 = d1
    d2 = d2
    Plmn = {p1, p2}
    Cell = {c1, c2}
    Enb = {e1}
    Mme = {m1, m2}
    Gap = 1
    Detectors = {d1, d2}
    Sniffers = {s1, s2, s3}
    CaptureOf <- LateCaptures
    Captures <- LatePrefixes
    MaxMessages = 2
    MaxFailures = 0
    MaxReadErrors = 0
CHECK_DEADLOCK FALSE
PROPERTIES
    AssignedOnce
