----------------------- MODULE MCCredentialController -----------------------
EXTENDS CredentialController

CONSTANTS c1, c2

MCReaders == 1..2
MCCards == {c1, c2}
MCCaps == {PinManagement}
=============================================================================
