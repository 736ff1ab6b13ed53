SPECIFICATION PartSpec
CONSTANTS
    Pins = {p1, p2, p3}
    Committers = {p1, p2}
    Syncers = {p2, p3}
    Onces = {p1}
    NoPin = NoPin
    ChangesCap = 1
    Conns = {k1, k2}
    NoConn = NoConn
    WordBits = 15
    HalfBits = 8
    Samples <- SampleMessages
    UnknownFields <- SampleFields
    Payloads <- SamplePayloads
    SignatureOf <- SampleSignature
INVARIANTS
    CellTypeOK NoLostUpdate
    ServiceTypeOK ConnsAreAccounted
    WrittenAgrees ReadAgrees MergesAppended SignedReadsBack
PROPERTIES
    InSync CommitReturns
    StopsUnlessStuck
\* Pins that have ended take no further step, a service that is stopped ends, and
\* a message that was read stays.
CHECK_DEADLOCK FALSE
