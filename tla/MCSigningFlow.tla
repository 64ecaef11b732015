--------------------------- MODULE MCSigningFlow ---------------------------
EXTENDS SigningFlow

CONSTANTS c1, c2, j1, j2, left, right

MCReaders == 1..2
MCCards == {c1, c2}
MCJobs == {j1, j2}
MCCaps == {Pki}
MCNames == {left, right}
MCNameOf == [r \in MCReaders |-> IF r = 1 THEN left ELSE right]
=============================================================================
