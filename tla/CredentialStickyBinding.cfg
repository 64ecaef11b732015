CONSTANTS
    c1 = c1
    c2 = c2
    None = None
    Readers <- MCReaders
    Cards <- MCCards
    Caps <- MCCaps
SPECIFICATION Spec
INVARIANT ExplicitBindingWins
