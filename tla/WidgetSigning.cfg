CONSTANTS
    c1 = c1
    c2 = c2
    contact = contact
    contactless = contactless
    former = former
    desk = desk
    None = None
    Readers <- MCTwoReaders
    Cards <- MCCards
    Caps <- MCCaps
    Names <- MCTwoNames
    NameOf <- MCTwoNameOf
    SameUnit <- MCSameUnit
    Profiles <- MCSignProfiles
    Deferring <- MCNoReader
    Asks = 0
    Installations <- MCInstalled
SPECIFICATION Spec
SYMMETRY CardSymmetry
INVARIANTS
    TypeOK
    SurfacesOfTheirCard
PROPERTIES
    RunningSignSurvives
