SPECIFICATION DataSpec
CONSTANTS
    Callers = {c1, c2, c3}
    Values = {u, v}
    NoVal = NoVal
    FirstId = 1
    MaxId = 5
    Explicit = {2}
    Lease = 2
    CommitErrors = TRUE
    m1 = m1
    m2 = m2
    Mergers <- MCMergers
    RingNames <- MCNames
    Entries <- MCEntries
    ShortPubs <- MCShortPubs
    Sources <- MCSources
    None = None
    MaxMerges = 2
SYMMETRY Symmetry
INVARIANTS
    TableTypeOK AnswersResolve
    MergeIsExact KeysAreFound UnmarshalRestores
PROPERTIES
    OnlyRetriesReplace KeysStand
