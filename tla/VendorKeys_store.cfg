SPECIFICATION Spec
CONSTANTS
    q1 = q1
    q2 = q2
    q3 = q3
    q4 = q4
    s1 = s1
    Requests <- FourRequests
    Scans <- OneScan
    MaxKeys = 2
SYMMETRY Symmetric
INVARIANTS TypeOK TokensAreGranted
PROPERTIES GoneIsGone DisableSticks
CHECK_DEADLOCK FALSE
