CONSTANTS
    c1 = c1
    c2 = c2
    None = None
    Readers <- MCReaders
    Cards <- MCCards
    Caps <- MCCaps
SPECIFICATION FairSpec
INVARIANTS
    TypeOK
    OneOperationOnTheBoundCard
    CancelFlagsMatchOperations
    BusyViewHasOperation
    DashboardShowsBoundCard
    NoPromptLeftBehind
    BindingFollowsRegistry
    ReadyRowsAreFresh
PROPERTIES
    RegistryNeverRetargetsVerb
    CancelledReadStaysCancelled
    ExplicitReaderIsListedFirst
    RelistFollowsVerb
    ImplementsVerbSession
    WindowSettles
