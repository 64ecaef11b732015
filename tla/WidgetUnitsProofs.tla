------------------------- MODULE WidgetUnitsProofs -------------------------
(***************************************************************************)
(* The widget over the names PC/SC makes: with the rule of readerSerialKey *)
(* and readerBaseName for its relation of names, a bound reader is taken   *)
(* for present, and a card for its card, only within one physical unit.    *)
(***************************************************************************)
EXTENDS WidgetUnits, SmartCardHandlerProofs, ReaderNamesProofs

(* For the units of which the rule decides right (UnitsAreDecided), the    *)
(* relation the widget is given is that of being one unit.                 *)
LEMMA NamesOfOneUnit ==
    ASSUME "none" \notin Groups, Units \subseteq PlainUnits, SameUnit = SameUnitNames
    PROVE  UnitsDecided
<1>1. \A a, b \in Units : SameReaderUnit(NameOfUnit(a), NameOfUnit(b)) <=> OneUnit(a, b)
  BY UnitsAreDecided DEF DecidesUnits
<1>2. ASSUME NEW n \in Names, NEW m \in Names
      PROVE  <<n, m>> \in SameUnit <=> OneUnit(UnitOf[n], UnitOf[m])
  <2>1. UnitOf[n] \in Units /\ UnitOf[m] \in Units
    BY UnitsAssumption
  <2>2. <<n, m>> \in SameUnit <=> SameReaderUnit(NameOfUnit(UnitOf[n]), NameOfUnit(UnitOf[m]))
    BY DEF SameUnitNames
  <2> QED
    BY <1>1, <2>1, <2>2
<1> QED
  BY <1>1, <1>2 DEF UnitsDecided, DecidesUnits

(* updateBoundReaderPresent and pickActiveReader never take a sibling for  *)
(* the bound unit, whatever the names of the readers and their number.     *)
THEOREM UnitsToldApart ==
    ASSUME "none" \notin Groups, Units \subseteq PlainUnits, SameUnit = SameUnitNames
    PROVE  Spec => []UnitsAreToldApart
<1>1. ASSUME IInv PROVE UnitsAreToldApart
  <2> DEFINE r == Pick(wid, readers, slot)
  <2>1. UnitsDecided
    BY NamesOfOneUnit
  <2>2. \A n, m \in Names : <<n, m>> \in SameUnit <=> OneUnit(UnitOf[n], UnitOf[m])
    BY <2>1 DEF UnitsDecided
  <2>3. /\ readers \in SUBSET Readers /\ Placed(wid, readers, slot)
        /\ wid.bound \in Names \cup {None}
    BY <1>1 DEF IInv, RegistryTypeOK, Settled, Widget
  <2>4. \A q \in readers : NameOf[q] \in Names
    BY <2>3, HandlerAssumption
  <2>5. /\ r # None => r \in readers
        /\ wid.bound # None /\ r # None =>
              NameOf[r] = wid.bound \/ <<wid.bound, NameOf[r]>> \in SameUnit
    BY <2>3, PickEffect DEF WalkEnds
  <2>6. /\ wid.boundPresent <=> Present(wid, readers)
        /\ wid.card # None => r # None /\ wid.readerName = NameOf[r]
    BY <2>3 DEF Placed
  <2> HIDE DEF r
  <2>7. Present(wid, readers)
           <=> wid.bound # None /\ \E q \in readers : OfItsUnit(wid.bound, NameOf[q])
    BY <2>2, <2>3, <2>4 DEF Present, OfItsUnit
  <2>8. wid.bound # None /\ wid.card # None => OfItsUnit(wid.bound, wid.readerName)
    BY <2>2, <2>3, <2>4, <2>5, <2>6 DEF OfItsUnit
  <2> QED
    BY <2>1, <2>6, <2>7, <2>8 DEF UnitsAreToldApart
<1> QED
  BY <1>1, Inductive, PTL
=============================================================================
