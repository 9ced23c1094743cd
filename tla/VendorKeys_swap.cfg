SPECIFICATION Spec
CONSTANTS
    q1 = q1
    q2 = q2
    q3 = q3
    q4 = q4
    s1 = s1
    Requests <- ThreeRequests
    Scans <- OneScan
    MaxKeys = 1
INVARIANT SwapSurvives
CHECK_DEADLOCK FALSE
