SPECIFICATION Spec
CONSTANTS
    MaxOps = 2
    Reqs = {r1, r2}
    Apps = {a1}
    Inbox = Inbox
    NoOp = NoOp
    NoReq = NoReq
    NoApp = NoApp
    NoTx = NoTx
    OutCap = 1
    FreshIds = TRUE
PROPERTY SessionCloses
\* A session that is done, or blocked for good, takes no further step.
CHECK_DEADLOCK FALSE
