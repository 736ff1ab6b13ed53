SPECIFICATION TableSpec
CONSTANTS
    Callers = {c1, c2, c3}
    Values = {u, v}
    NoVal = NoVal
    FirstId = 2
    MaxId = 6
    Explicit = {}
    Lease = 2
    CommitErrors = FALSE
INVARIANT OneIdPerValue
\* No ID above MaxId is issued, so a run ends there.
CHECK_DEADLOCK FALSE
