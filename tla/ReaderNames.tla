---------------------------- MODULE ReaderNames ----------------------------
(***************************************************************************)
(* When are two reader names the same physical unit, plugged in again?     *)
(* PC/SC spells a reader as its model, the unit's serial in parentheses    *)
(* and two enumeration indices, which change when it re-enumerates.  The   *)
(* widget's rule works on the spelled name: here a sequence of tokens, a   *)
(* plain word or a parenthesised group.                                    *)
(***************************************************************************)
EXTENDS SequencesExt

CONSTANTS
    Words,      \* plain words of names
    HexPairs,   \* the words that are two hex digits
    Groups,     \* contents of parenthesised groups
    Serials     \* the groups long enough, and with a digit, to be a serial

ASSUME ReaderNamesAssumption ==
    /\ HexPairs \subseteq Words
    /\ Serials \subseteq Groups
    /\ Words \cap Groups = {}

LastGroup(name) == SelectLastInSeq(name, LAMBDA token : token \in Groups)

(* Faulty: the first group, which may be the model's, is taken.            *)
ReaderSerialKeyFirst(name) ==
    LET i == SelectInSeq(name, LAMBDA token : token \in Groups)
    IN  IF i # 0 /\ name[i] \in Serials THEN {name[i]} ELSE {}

(* The last group, if it can be a serial; {} if there is no key.           *)
ReaderSerialKey(name) ==
    LET i == LastGroup(name)
    IN  IF i # 0 /\ name[i] \in Serials THEN {name[i]} ELSE {}

WithoutLastGroup(name) == IF LastGroup(name) = 0 THEN name ELSE RemoveAt(name, LastGroup(name))

(* How many of the trailing words are indices: two at most.                *)
TrailingIndices(words) ==
    LET n == Len(words)
        index(i) == i > 0 /\ words[i] \in HexPairs
    IN  IF ~index(n) THEN 0 ELSE IF ~index(n - 1) THEN 1 ELSE 2

ReaderBaseName(name) ==
    LET words == WithoutLastGroup(name)
    IN  SubSeq(words, 1, Len(words) - TrailingIndices(words))

SameReaderUnit(a, b) ==
    /\ ReaderSerialKey(a) # {}
    /\ ReaderSerialKey(a) = ReaderSerialKey(b)
    /\ ReaderBaseName(a) = ReaderBaseName(b)

-----------------------------------------------------------------------------
(* What the rule is meant to decide.                                       *)

(* A name PC/SC makes; not every model has a serial.                       *)
NameOfUnit(u) ==
    u.model \o (IF u.serial = "none" THEN <<>> ELSE <<u.serial>>) \o <<u.first, u.second>>

(* One model and one serial, whatever the indices.                         *)
OneUnit(a, b) == a.model = b.model /\ a.serial = b.serial /\ a.serial \in Serials

(* The rule finds exactly the re-enumerations of a unit: no sibling of     *)
(* another model under one serial, no other unit of one model.             *)
DecidesUnits(units) ==
    \A a, b \in units : SameReaderUnit(NameOfUnit(a), NameOfUnit(b)) <=> OneUnit(a, b)
=============================================================================
