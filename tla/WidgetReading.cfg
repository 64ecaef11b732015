CONSTANTS
    c1 = c1
    c2 = c2
    contact = contact
    contactless = contactless
    former = former
    desk = desk
    None = None
    Readers <- MCTwoReaders
    Cards <- MCCards
    Caps <- MCCaps
    Names <- MCPortNames
    NameOf <- MCTwoNameOf
    SameUnit <- MCSameUnitInPorts
    Profiles <- MCReadProfiles
    Deferring <- MCTwoReaders
    Asks = 1
    Installations <- MCAnyInstallation
    NameKeys <- MCNameKeys
    SummaryKeys <- MCSummaryKeys
    FullName = "full_name"
    HiddenKeys <- MCHiddenKeys
    FieldOrder <- MCFieldOrder
    FallbackRows = 2
    Words <- MCWords
    HexPairs <- MCHexPairs
    Groups <- MCGroups
    Serials <- MCSerials
    Units <- MCUnits
    UnitOf <- MCUnitOf
SPECIFICATION Spec
INVARIANTS
    HolderDataOfBoundCard
    CardOfItsReader
    UnlockedViewWasRead
    LauncherFollowsCard
    PhotoSavedIsTheCardAsked
    RowsAreShownOnceInOrder
    UnitsAreToldApart
PROPERTIES
    NoUnaskedRead
    DetectionForetellsCard
    ImplementsHolderView
    StartAnswered
