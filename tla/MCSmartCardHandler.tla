------------------------- MODULE MCSmartCardHandler -------------------------
EXTENDS SmartCardHandler, TLC

CONSTANTS c1, c2, contact, contactless, former, desk

MCCards == {c1, c2}
MCCaps == {Identity, Pki, PinManagement, Unlock}
CardSymmetry == Permutations(MCCards)

(* Two entries of one physical unit (its interfaces, or its name before    *)
(* and after a re-enumeration), and one more reader.                       *)
MCReaders == 1..3
MCNames == {contact, contactless, desk}
MCNameOf == [r \in MCReaders |-> IF r = 1 THEN contact
                                 ELSE IF r = 2 THEN contactless ELSE desk]
MCSameUnit == {contact, contactless} \X {contact, contactless}
MCSameUnitInPorts == {contact, contactless, former} \X {contact, contactless, former}

(* The two interfaces alone; and the names a widget may be bound to beside *)
(* theirs: the one the unit had in another port, and one not plugged in.   *)
MCTwoReaders == 1..2
MCPortNames == {contact, contactless, former, desk}
MCTwoNames == {contact, contactless}
MCTwoNameOf == [r \in MCTwoReaders |-> IF r = 1 THEN contact ELSE contactless]

(* An identity card that must be unlocked, one that is read freely, and a  *)
(* card with nothing but PINs to manage.                                   *)
MCReadProfiles == {{Identity, Unlock}, {Identity}, {PinManagement}}
MCSignProfiles == {{Pki}}

MCNoReader == {}
MCInstalled == {TRUE}
MCAnyInstallation == BOOLEAN
=============================================================================
