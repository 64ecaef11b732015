-------------------------- MODULE ReaderNamesProofs --------------------------
(***************************************************************************)
(* The rule that recognises a unit under another name decides right, for   *)
(* names of any length over any words, groups and serials.                 *)
(***************************************************************************)
EXTENDS ReaderNames, WellFoundedInduction, TLAPS

(* The units the rule is made for: whatever the model, its own groups are  *)
(* none that could be a serial.                                            *)
PlainUnits ==
    [model : Seq(Words \cup (Groups \ Serials)),
     serial : Groups \cup {"none"},
     first : HexPairs,
     second : HexPairs]

-----------------------------------------------------------------------------
(* Positions.                                                              *)

(* A set of positions that is not empty has a last one.                    *)
LEMMA LastPosition ==
    ASSUME NEW n \in Nat, NEW I \in SUBSET (1..n), I # {}
    PROVE  Max(I) \in I /\ \A i \in I : i <= Max(I)
<1> DEFINE R == OpToRel(<, Nat)
           T == {n - i : i \in I}
<1>1. T \subseteq Nat /\ T # {}
  OBVIOUS
<1>2. PICK x \in T : \A y \in T : ~ (<<y, x>> \in R)
  BY <1>1, NatLessThanWellFounded, WFMin
<1>3. PICK i \in I : x = n - i
  BY <1>2
<1>4. ASSUME NEW j \in I PROVE i >= j
  <2>1. n - j \in T /\ n - j \in Nat /\ n - i \in Nat
    BY <1>1
  <2>2. ~(n - j < n - i)
    BY <1>2, <1>3, <2>1 DEF OpToRel
  <2> QED
    BY <2>2
<1>5. \E m \in I : \A j \in I : m >= j
  BY <1>4
<1> QED
  BY <1>5 DEF Max

(* The last group of a name is a group, or there is none.                  *)
LEMMA LastGroupIsGroup ==
    ASSUME NEW name, Len(name) \in Nat, LastGroup(name) # 0
    PROVE  LastGroup(name) \in 1..Len(name) /\ name[LastGroup(name)] \in Groups
<1> DEFINE I == {i \in 1..Len(name) : name[i] \in Groups}
<1>1. LastGroup(name) = IF I # {} THEN Max(I) ELSE 0
  BY DEF LastGroup, SelectLastInSeq
<1>2. Max(I) \in I
  BY <1>1, LastPosition
<1> QED
  BY <1>1, <1>2

(* A group that only words follow is the last one.                         *)
LEMMA LastGroupAt ==
    ASSUME NEW name, Len(name) \in Nat, NEW k \in 1..Len(name),
           name[k] \in Groups,
           \A i \in (k + 1)..Len(name) : name[i] \notin Groups
    PROVE  LastGroup(name) = k
<1> DEFINE I == {i \in 1..Len(name) : name[i] \in Groups}
<1>1. LastGroup(name) = IF I # {} THEN Max(I) ELSE 0
  BY DEF LastGroup, SelectLastInSeq
<1>2. k \in I /\ \A i \in I : i <= k
  OBVIOUS
<1> HIDE DEF I
<1>3. I \in SUBSET (1..Len(name))
  BY DEF I
<1>4. I # {} /\ Max(I) \in I /\ k <= Max(I)
  BY <1>2, <1>3, LastPosition
<1>5. Max(I) = k
  <2>1. Max(I) \in 1..Len(name) /\ Max(I) <= k
    BY <1>2, <1>3, <1>4
  <2> HIDE DEF I
  <2>2. k \in Nat /\ Max(I) \in Nat
    BY <2>1
  <2> QED
    BY <1>4, <2>1, <2>2
<1> QED
  BY <1>1, <1>4, <1>5

-----------------------------------------------------------------------------
(* The two kinds of names.                                                 *)

(* A name with a serial: the serial is its last group, and the model is    *)
(* what is left without it and the indices.                                *)
LEMMA NameWithSerial ==
    ASSUME NEW u \in PlainUnits, u.serial \in Groups, "none" \notin Groups
    PROVE  /\ ReaderSerialKey(NameOfUnit(u)) = IF u.serial \in Serials THEN {u.serial} ELSE {}
           /\ ReaderBaseName(NameOfUnit(u)) = u.model
<1> DEFINE Tokens == Words \cup Groups
           n == Len(u.model)
           name == u.model \o <<u.serial, u.first, u.second>>
           bare == u.model \o <<u.first, u.second>>
<1>1. /\ u.model \in Seq(Tokens) /\ n \in Nat
      /\ u.serial \in Tokens /\ u.first \in Tokens /\ u.second \in Tokens
      /\ u.first \in HexPairs /\ u.second \in HexPairs
      /\ u.first \notin Groups /\ u.second \notin Groups
  BY ReaderNamesAssumption DEF PlainUnits
<1>2. NameOfUnit(u) = name
  <2>1. NameOfUnit(u) = u.model \o <<u.serial>> \o <<u.first, u.second>>
    BY DEF NameOfUnit
  <2> QED
    BY <1>1, <2>1
<1>3. /\ name \in Seq(Tokens) /\ Len(name) = n + 3
      /\ \A i \in 1..n : name[i] = u.model[i]
      /\ name[n + 1] = u.serial /\ name[n + 2] = u.first /\ name[n + 3] = u.second
  BY <1>1
<1>4. /\ bare \in Seq(Tokens) /\ Len(bare) = n + 2
      /\ \A i \in 1..n : bare[i] = u.model[i]
      /\ bare[n + 1] = u.first /\ bare[n + 2] = u.second
  BY <1>1
<1> HIDE DEF name, bare
<1>5. LastGroup(name) = n + 1
  <2>1. \A i \in (n + 2)..(n + 3) : name[i] \notin Groups
    BY <1>1, <1>3
  <2> QED
    BY <1>1, <1>3, <2>1, LastGroupAt
<1>6. WithoutLastGroup(name) = bare
  <2>1. WithoutLastGroup(name) = SubSeq(name, 1, n) \o SubSeq(name, n + 2, n + 3)
    <3>1. n + 1 # 0 /\ (n + 1) - 1 = n /\ (n + 1) + 1 = n + 2
      BY <1>1
    <3>2. WithoutLastGroup(name) = RemoveAt(name, n + 1)
      BY <1>5, <3>1 DEF WithoutLastGroup
    <3> QED
      BY <1>3, <3>1, <3>2 DEF RemoveAt
  <2>2. SubSeq(name, 1, n) = u.model
    BY <1>1, <1>3
  <2>3. SubSeq(name, n + 2, n + 3) = <<u.first, u.second>>
    <3> DEFINE s == SubSeq(name, n + 2, n + 3)
               t == <<u.first, u.second>>
    <3>1. s \in Seq(Tokens) /\ Len(s) = 2 /\ s[1] = name[n + 2] /\ s[2] = name[n + 3]
      BY <1>1, <1>3
    <3>2. t \in Seq(Tokens) /\ Len(t) = 2 /\ t[1] = u.first /\ t[2] = u.second
      BY <1>1
    <3> HIDE DEF s, t
    <3>3. s = t
      BY <1>3, <3>1, <3>2
    <3> QED
      BY <3>3 DEF s, t
  <2> QED
    BY <2>1, <2>2, <2>3 DEF bare
<1>7. TrailingIndices(bare) = 2
  BY <1>1, <1>4 DEF TrailingIndices
<1>8. ReaderBaseName(name) = u.model
  <2>1. ReaderBaseName(name) = SubSeq(bare, 1, n)
    BY <1>1, <1>4, <1>6, <1>7 DEF ReaderBaseName
  <2> QED
    BY <1>1, <1>4, <2>1
<1>9. ReaderSerialKey(name) = IF u.serial \in Serials THEN {u.serial} ELSE {}
  <2>1. LastGroup(name) # 0 /\ name[LastGroup(name)] = u.serial
    BY <1>1, <1>3, <1>5
  <2> QED
    BY <2>1 DEF ReaderSerialKey
<1> QED
  BY <1>2, <1>8, <1>9

(* A name without a serial has no key, whatever groups its model has.      *)
LEMMA NameWithoutSerial ==
    ASSUME NEW u \in PlainUnits, u.serial = "none"
    PROVE  ReaderSerialKey(NameOfUnit(u)) = {}
<1> DEFINE Tokens == Words \cup (Groups \ Serials)
           name == u.model \o <<u.first, u.second>>
<1>1. /\ u.model \in Seq(Tokens) /\ u.first \in Tokens /\ u.second \in Tokens
  BY ReaderNamesAssumption DEF PlainUnits
<1>2. NameOfUnit(u) = name
  BY <1>1 DEF NameOfUnit
<1>3. name \in Seq(Tokens)
  BY <1>1
<1> HIDE DEF name
<1>4. \A i \in 1..Len(name) : name[i] \notin Serials
  BY <1>3, ReaderNamesAssumption
<1>5. LastGroup(name) # 0 => name[LastGroup(name)] \notin Serials
  BY <1>3, <1>4, LastGroupIsGroup
<1> QED
  BY <1>2, <1>5 DEF ReaderSerialKey

-----------------------------------------------------------------------------
(* sameReaderUnit finds exactly the re-enumerations of a unit: neither a   *)
(* sibling of another model under the same serial nor another unit of the  *)
(* model, however the model ends and whatever the indices are.             *)
THEOREM UnitsAreDecided ==
    ASSUME "none" \notin Groups
    PROVE  DecidesUnits(PlainUnits)
<1> SUFFICES ASSUME NEW a \in PlainUnits, NEW b \in PlainUnits
             PROVE  SameReaderUnit(NameOfUnit(a), NameOfUnit(b)) <=> OneUnit(a, b)
  BY DEF DecidesUnits
<1>0. Serials \subseteq Groups
  BY ReaderNamesAssumption
<1>1. /\ a.serial \in Groups \cup {"none"}
      /\ b.serial \in Groups \cup {"none"}
  BY DEF PlainUnits
<1>2. CASE a.serial \in Groups /\ b.serial \in Groups
  BY <1>0, <1>2, NameWithSerial DEF SameReaderUnit, OneUnit
<1>3. CASE a.serial = "none"
  BY <1>0, <1>3, NameWithoutSerial DEF SameReaderUnit, OneUnit
<1>4. CASE a.serial # "none" /\ b.serial = "none"
  BY <1>0, <1>4, NameWithoutSerial DEF SameReaderUnit, OneUnit
<1> QED
  BY <1>1, <1>2, <1>3, <1>4
=============================================================================
