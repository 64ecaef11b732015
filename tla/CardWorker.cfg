CONSTANTS
    passport = passport
    token = token
    left = left
    right = right
    elsewhere = elsewhere
    None = None
    Readers <- MCReaders
    Cards <- MCCards
    CapsOf <- MCCapsOf
    CertsOf <- MCCertsOf
    Paths <- MCPaths
    MintLimit = 3
    ChannelLimit = 3
SPECIFICATION FairSpec
INVARIANTS
    TypeOK
    NoReadOutlivesItsRequest
    TreeListsWhatItResolves
PROPERTIES
    ServedFromItsCard
    PulledCardIsReportedRemoved
    FoundCertificateIsNotMissing
    RequestAnswered
