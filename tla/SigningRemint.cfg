CONSTANTS
    c1 = c1
    c2 = c2
    j1 = j1
    j2 = j2
    left = left
    right = right
    None = None
    Readers <- MCReaders
    Cards <- MCCards
    Caps <- MCCaps
    Jobs <- MCJobs
    Names <- MCNames
    NameOf <- MCNameOf
    MintLimit = 3
SPECIFICATION Spec
INVARIANT SignsOnlyWithThePick
