---------------------------- MODULE WidgetUnits ----------------------------
(***************************************************************************)
(* The widget together with the rule on reader names: SmartCardHandler     *)
(* takes the pairs of names of one unit as given, and here they are those  *)
(* that sameReaderUnit finds among the names of the machine's units.       *)
(***************************************************************************)
EXTENDS SmartCardHandler, ReaderNames

CONSTANTS
    Units,      \* units a name may be of: model, serial and the two indices
    UnitOf      \* the unit each name of a reader spells

ASSUME UnitsAssumption == UnitOf \in [Names -> Units]

(* The pairs for which the code calls two names one unit.                  *)
SameUnitNames ==
    {p \in Names \X Names :
        SameReaderUnit(NameOfUnit(UnitOf[p[1]]), NameOfUnit(UnitOf[p[2]]))}

(* The reader of the name, or another enumeration of its unit.             *)
OfItsUnit(n, m) == n = m \/ OneUnit(UnitOf[n], UnitOf[m])

(* The rule on names decides right for any two units; so it does for the   *)
(* names of the machine's readers.                                         *)
UnitsDecided ==
    /\ DecidesUnits(Units)
    /\ \A n, m \in Names : <<n, m>> \in SameUnit <=> OneUnit(UnitOf[n], UnitOf[m])

(* m_boundReaderPresent says whether the bound reader is plugged in, under *)
(* whichever name; a card shown for it is in that reader or another        *)
(* interface of the unit, never in a sibling of like name; for the rule on *)
(* names tells any two units apart.                                        *)
UnitsAreToldApart ==
    /\ wid.boundPresent
          <=> wid.bound # None /\ \E r \in readers : OfItsUnit(wid.bound, NameOf[r])
    /\ wid.bound # None /\ wid.card # None => OfItsUnit(wid.bound, wid.readerName)
    /\ wid.boundPresent => UnitsDecided
=============================================================================
