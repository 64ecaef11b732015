CONSTANTS
    c1 = c1
    c2 = c2
    contact = contact
    contactless = contactless
    former = former
    desk = desk
    None = None
    Readers <- MCReaders
    Cards <- MCCards
    Caps <- MCCaps
    Names <- MCNames
    NameOf <- MCNameOf
    SameUnit <- MCSameUnit
    Profiles <- MCReadProfiles
    Deferring <- MCNoReader
    Asks = 0
    Installations <- MCInstalled
SPECIFICATION Spec
INVARIANT BusyMeansReading
