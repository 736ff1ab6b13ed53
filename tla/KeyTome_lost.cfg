CONSTANTS
    m1 = m1
    m2 = m2
    Mergers <- MCMergers
    RingNames <- MCNames
    Entries <- MCEntries
    ShortPubs <- MCShortPubs
    Sources <- MCSources
    None = None
    MaxMerges = 2
SPECIFICATION TomeSpec
PROPERTY MergesLoseNothing
