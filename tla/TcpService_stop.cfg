SPECIFICATION ServiceSpec
CONSTANTS
    Conns = {k1, k2}
    NoConn = NoConn
PROPERTY ServiceStops
\* A service that is stopped ends.
CHECK_DEADLOCK FALSE
