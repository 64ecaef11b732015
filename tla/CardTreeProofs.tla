--------------------------- MODULE CardTreeProofs ---------------------------
(***************************************************************************)
(* Theorems about the tree and the folders of certificates, for every set  *)
(* of readers and cards, whatever the cards advertise and list.            *)
(***************************************************************************)
EXTENDS CardTree, FiniteSetTheorems, TLAPS

(* A path that is not empty, its parent and its last segment.              *)
LEMMA ParentOf ==
    ASSUME NEW S, NEW path \in Seq(S), path # <<>>
    PROVE  /\ Len(path) \in Nat \ {0}
           /\ Front(path) \in Seq(S)
           /\ Len(Front(path)) = Len(path) - 1
           /\ \A i \in 1..(Len(path) - 1) : Front(path)[i] = path[i]
           /\ Last(path) = path[Len(path)]
  BY DEF Front, Last

(* The parts of a path below the reader.                                   *)
LEMMA BelowOf ==
    ASSUME NEW S, NEW path \in Seq(S), path # <<>>
    PROVE  /\ Tail(path) \in Seq(S)
           /\ Len(Tail(path)) = Len(path) - 1
           /\ \A i \in 1..(Len(path) - 1) : Tail(path)[i] = path[i + 1]
  OBVIOUS

(* A path is one segment exactly when it has length one.                   *)
LEMMA OneSegment ==
    ASSUME NEW S, NEW path \in Seq(S), NEW t
    PROVE  path = <<t>> <=> Len(path) = 1 /\ path[1] = t
  OBVIOUS

LEMMA Names ==
    /\ InfoTxt # IdentityDirName /\ InfoTxt # PkiDirName /\ IdentityDirName # PkiDirName
  BY DEF InfoTxt, IdentityDirName, PkiDirName, Segment

LEMMA EmptySegments ==
    ASSUME NEW S, NEW path \in Seq(S)
    PROVE  path = <<>> <=> Len(path) = 0
  OBVIOUS

(* Below a reader, what the listing of the parent offers is what resolves: *)
(* the node at one segment ...                                             *)
LEMMA OneBelow ==
    ASSUME NEW S, NEW rest \in Seq(S), Len(rest) = 1, NEW caps
    PROVE  /\ KindBelow(caps, rest) # "Invalid"
              <=> \/ rest[1] = InfoTxt
                  \/ rest[1] = IdentityDirName /\ "IdentityData" \in caps
                  \/ rest[1] = PkiDirName /\ "Pki" \in caps
           /\ KindBelow(caps, rest) \in {"Root", "Reader", "IdentityDir"}
              <=> rest[1] = IdentityDirName /\ "IdentityData" \in caps
  <1>1. rest = <<InfoTxt>> <=> rest[1] = InfoTxt
    BY OneSegment
  <1>a. rest # <<>>
    BY EmptySegments
  <1>b. Tail(rest) \in Seq(S) /\ Len(Tail(rest)) = 0
    BY <1>a, BelowOf
  <1>2. Tail(rest) = <<>>
    BY <1>b, EmptySegments
  <1>3. InfoTxt # IdentityDirName /\ InfoTxt # PkiDirName /\ IdentityDirName # PkiDirName
    BY Names
  <1>4. IdentityKind(caps, <<>>) = "IdentityDir" /\ PkiKind(<<>>) = "PkiDir"
    BY DEF IdentityKind, PkiKind
  <1>5. CASE rest[1] = InfoTxt
    BY <1>1, <1>3, <1>5 DEF KindBelow
  <1>6. CASE rest[1] = IdentityDirName
    BY <1>1, <1>2, <1>3, <1>4, <1>6 DEF KindBelow
  <1>7. CASE rest[1] = PkiDirName
    BY <1>1, <1>2, <1>3, <1>4, <1>7 DEF KindBelow
  <1>8. CASE rest[1] \notin {InfoTxt, IdentityDirName, PkiDirName}
    BY <1>1, <1>8 DEF KindBelow
  <1>. QED BY <1>5, <1>6, <1>7, <1>8

(* ... and at two, where only the directory of the identity is listed.     *)
LEMMA TwoBelow ==
    ASSUME NEW S, NEW rest \in Seq(S), Len(rest) = 2, NEW caps,
           rest[1] = IdentityDirName, "IdentityData" \in caps
    PROVE  KindBelow(caps, rest) # "Invalid" <=> rest[2] \in IdentityChildren(caps)
  <1>1. rest = <<InfoTxt>> <=> Len(rest) = 1 /\ rest[1] = InfoTxt
    BY OneSegment
  <1>0. rest = <<>> <=> Len(rest) = 0
    BY EmptySegments
  <1>. rest # <<>>
    BY <1>0
  <1>c. Tail(rest) \in Seq(S) /\ Len(Tail(rest)) = 1
    <2>1. Tail(rest) \in Seq(S) /\ Len(Tail(rest)) = Len(rest) - 1
      BY BelowOf
    <2>. QED BY <2>1
  <1>d. 1 \in 1..(Len(rest) - 1) /\ 1 + 1 = 2
    OBVIOUS
  <1>e. \A i \in 1..(Len(rest) - 1) : Tail(rest)[i] = rest[i + 1]
    BY BelowOf
  <1>2. Tail(rest) \in Seq(S) /\ Len(Tail(rest)) = 1 /\ Tail(rest)[1] = rest[2]
    BY <1>c, <1>d, <1>e
  <1>3. KindBelow(caps, rest) = IdentityKind(caps, Tail(rest))
    BY <1>1, Names DEF KindBelow
  <1>4. \A t : Tail(rest) = <<t>> <=> rest[2] = t
    BY <1>2, OneSegment
  <1>b. Tail(rest) = <<>> <=> Len(Tail(rest)) = 0
    BY <1>2, EmptySegments
  <1>5. Tail(rest) # <<>>
    BY <1>b, <1>2
  <1>. QED BY <1>3, <1>4, <1>5 DEF IdentityKind, IdentityChildren

(* Two segments below a reader are never one of the listed directories.    *)
LEMMA DeeperBelow ==
    ASSUME NEW S, NEW rest \in Seq(S), Len(rest) \in Nat, Len(rest) >= 2, NEW caps
    PROVE  KindBelow(caps, rest) \notin {"Root", "Reader", "IdentityDir"}
  <1>1. rest = <<InfoTxt>> <=> Len(rest) = 1 /\ rest[1] = InfoTxt
    BY OneSegment
  <1>0. rest = <<>> <=> Len(rest) = 0
    BY EmptySegments
  <1>. rest # <<>>
    BY <1>0
  <1>c. Tail(rest) \in Seq(S) /\ Len(Tail(rest)) = Len(rest) - 1
    BY BelowOf
  <1>d. Len(rest) - 1 \in Nat \ {0}
    <2>1. \A n \in Nat : n >= 2 => n - 1 \in Nat \ {0}
      OBVIOUS
    <2>. QED BY ONLY <2>1, Len(rest) \in Nat, Len(rest) >= 2
  <1>2. Tail(rest) \in Seq(S) /\ Len(Tail(rest)) \in Nat \ {0}
    BY <1>c, <1>d
  <1>b. Tail(rest) = <<>> <=> Len(Tail(rest)) = 0
    BY <1>2, EmptySegments
  <1>a. Tail(rest) # <<>>
    BY <1>b, <1>2
  <1>3. IdentityKind(caps, Tail(rest)) \notin {"Root", "Reader", "IdentityDir"}
    BY <1>a DEF IdentityKind
  <1>4. PkiKind(Tail(rest)) \notin {"Root", "Reader", "IdentityDir"}
    BY <1>2 DEF PkiKind
  <1>. QED BY <1>1, <1>3, <1>4, Names DEF KindBelow

(* A segment is listed by its parent exactly when the path it ends         *)
(* resolves, where the parent's listing is the registry's to tell: the     *)
(* root, a reader, the identity.  (CardTree::list, CardTree::resolve)      *)
LEMMA ListedResolves ==
    ASSUME NEW S, NEW path \in Seq(S), path # <<>>, NEW held
    PROVE  Last(path) \in ListChildren(held, Front(path))
           <=> /\ Resolve(held, path) # "Invalid"
               /\ Resolve(held, Front(path)) \in {"Root", "Reader", "IdentityDir"}
  <1>. DEFINE f == Front(path)
              caps == CapsOf[held[path[1][1]]]
  <1>1. /\ Len(path) \in Nat \ {0} /\ f \in Seq(S) /\ Len(f) = Len(path) - 1
        /\ \A i \in 1..(Len(path) - 1) : f[i] = path[i]
        /\ Last(path) = path[Len(path)]
    BY ParentOf
  <1>2. f = <<>> <=> Len(f) = 0
    BY <1>1, EmptySegments
  <1>. HIDE DEF f
  <1>3. CASE Len(path) = 1
    <2>1. Resolve(held, f) = "Root" /\ ListChildren(held, f) = {Segment(r) : r \in PresentReaders(held)}
      BY <1>1, <1>2, <1>3 DEF Resolve, ListChildren
    <2>2. Resolve(held, path) # "Invalid" <=> Present(held, path[1])
      BY <1>3 DEF Resolve
    <2>. QED BY <1>1, <1>3, <2>1, <2>2 DEF Present, f
  <1>4. CASE Len(path) >= 2 /\ ~Present(held, path[1])
    <2>1. f # <<>> /\ f[1] = path[1]
      BY <1>1, <1>2, <1>4
    <2>. QED BY <1>4, <2>1 DEF Resolve, ListChildren, f
  <1>5. CASE Len(path) >= 2 /\ Present(held, path[1])
    <2>. DEFINE rest == Tail(path)
                frest == Tail(f)
    <2>1. f # <<>> /\ f[1] = path[1]
      BY <1>1, <1>2, <1>5
    <2>2. /\ rest \in Seq(S) /\ Len(rest) = Len(path) - 1
          /\ \A i \in 1..(Len(path) - 1) : rest[i] = path[i + 1]
      BY BelowOf
    <2>3. /\ frest \in Seq(S) /\ Len(frest) = Len(path) - 2
          /\ \A i \in 1..(Len(f) - 1) : frest[i] = f[i + 1]
      BY <1>1, <2>1, BelowOf
    <2>4. Len(path) # 1 /\ path # <<>>
      BY <1>1, <1>5
    <2>5. Resolve(held, path) = KindBelow(caps, rest)
      BY <1>5, <2>4 DEF Resolve
    <2>. HIDE DEF rest
    <2>6. CASE Len(path) = 2
      <3>1. Resolve(held, f) = "Reader"
        BY <1>1, <1>5, <2>1, <2>6 DEF Resolve
      <3>2. ListChildren(held, f) =
               {InfoTxt} \cup {IdentityDirName : x \in caps \cap {"IdentityData"}}
                         \cup {PkiDirName : x \in caps \cap {"Pki"}}
        <4>1. Len(f) = 1 /\ f # <<>> /\ Present(held, f[1]) /\ CapsOf[held[f[1][1]]] = caps
          BY <1>1, <1>5, <2>1, <2>6
        <4>2. Tail(f) # <<IdentityDirName>>
          <5>1. frest \in Seq(S) /\ Len(frest) # 1
            BY <2>3, <2>6
          <5>. HIDE DEF frest
          <5>2. frest # <<IdentityDirName>>
            BY <5>1, OneSegment
          <5>. QED BY <5>2 DEF frest
        <4>. HIDE DEF f, frest, caps
        <4>. QED BY <4>1, <4>2 DEF ListChildren
      <3>3. 1 \in 1..(Len(path) - 1) /\ 1 + 1 = 2 /\ Len(path) - 1 = 1
        BY <2>6
      <3>4. Last(path) = rest[1] /\ Len(rest) = 1
        BY <1>1, <2>2, <2>6, <3>3
      <3>5. Resolve(held, path) # "Invalid"
              <=> \/ rest[1] = InfoTxt
                  \/ rest[1] = IdentityDirName /\ "IdentityData" \in caps
                  \/ rest[1] = PkiDirName /\ "Pki" \in caps
        BY <2>2, <2>5, <3>4, OneBelow
      <3>. HIDE DEF caps
      <3>. QED BY <3>1, <3>2, <3>4, <3>5 DEF f
    <2>7. CASE Len(path) = 3
      <3>1. /\ 1 \in 1..(Len(path) - 1) /\ 2 \in 1..(Len(path) - 1) /\ 1 \in 1..(Len(f) - 1)
            /\ 1 + 1 = 2 /\ 2 + 1 = 3 /\ Len(f) = 2 /\ Len(path) - 1 = 2 /\ Len(path) - 2 = 1
        BY <1>1, <2>7
      <3>2. Resolve(held, f) = KindBelow(caps, frest)
        BY <1>5, <2>1, <3>1 DEF Resolve
      <3>. HIDE DEF frest
      <3>3. frest[1] = path[2] /\ Len(frest) = 1
        BY <1>1, <2>3, <3>1
      <3>4. frest = <<IdentityDirName>> <=> path[2] = IdentityDirName
        BY <2>3, <3>3, OneSegment
      <3>5. ListChildren(held, f) =
              IF path[2] = IdentityDirName /\ "IdentityData" \in caps THEN IdentityChildren(caps) ELSE {}
        BY <1>5, <2>1, <3>1, <3>4 DEF ListChildren, frest
      <3>6. Resolve(held, f) \in {"Root", "Reader", "IdentityDir"}
              <=> path[2] = IdentityDirName /\ "IdentityData" \in caps
        BY <2>3, <3>2, <3>3, OneBelow
      <3>7. rest[1] = path[2] /\ rest[2] = path[3] /\ Len(rest) = 2
        BY <2>2, <3>1
      <3>8. path[2] = IdentityDirName /\ "IdentityData" \in caps
            => (Resolve(held, path) # "Invalid" <=> path[3] \in IdentityChildren(caps))
        BY <2>2, <2>5, <3>7, TwoBelow
      <3>9. Last(path) = path[3]
        BY <1>1, <2>7
      <3>. HIDE DEF caps
      <3>. QED BY <3>5, <3>6, <3>8, <3>9 DEF f
    <2>8. CASE Len(path) >= 4
      <3>1. Len(f) # 1 /\ Len(path) - 2 \in Nat /\ Len(path) - 2 >= 2 /\ Len(path) - 2 # 1
        BY <1>1, <2>8
      <3>2. Resolve(held, f) = KindBelow(caps, frest)
        BY <1>5, <2>1, <3>1 DEF Resolve
      <3>. HIDE DEF frest
      <3>3. Resolve(held, f) \notin {"Root", "Reader", "IdentityDir"}
        BY <2>3, <3>1, <3>2, DeeperBelow
      <3>4. frest # <<IdentityDirName>>
        BY <2>3, <3>1, OneSegment
      <3>5. ListChildren(held, f) = {}
        BY <1>5, <2>1, <3>1, <3>4 DEF ListChildren, frest
      <3>. QED BY <3>3, <3>5 DEF f
    <2>. QED BY <1>1, <1>5, <2>6, <2>7, <2>8
  <1>. QED BY <1>1, <1>3, <1>4, <1>5

(* What lies below a reader, by its first segment alone.                   *)
LEMMA KindAt ==
    ASSUME NEW S, NEW rest \in Seq(S), Len(rest) # 0, NEW caps
    PROVE  /\ rest[1] = IdentityDirName /\ "IdentityData" \in caps
                => KindBelow(caps, rest) = IdentityKind(caps, Tail(rest))
           /\ rest[1] = PkiDirName /\ "Pki" \in caps => KindBelow(caps, rest) = PkiKind(Tail(rest))
           /\ ~(rest[1] = IdentityDirName /\ "IdentityData" \in caps)
              /\ ~(rest[1] = PkiDirName /\ "Pki" \in caps)
                => KindBelow(caps, rest) = IF rest[1] = InfoTxt /\ Len(rest) = 1 THEN "InfoLeaf" ELSE "Invalid"
  <1>1. rest = <<InfoTxt>> <=> Len(rest) = 1 /\ rest[1] = InfoTxt
    BY OneSegment
  <1>. QED BY <1>1, Names DEF KindBelow

(* Nothing lies below the leaves of the identity.                          *)
LEMMA IdentityAt ==
    ASSUME NEW S, NEW below \in Seq(S), NEW caps
    PROVE  /\ Len(below) = 0 => IdentityKind(caps, below) = "IdentityDir"
           /\ Len(below) # 0 => IdentityKind(caps, below) \in {"IdentityLeaf", "PhotoLeaf", "Invalid"}
           /\ Len(below) \notin {0, 1} => IdentityKind(caps, below) = "Invalid"
  <1>1. below = <<>> <=> Len(below) = 0
    BY EmptySegments
  <1>2. \A t : below = <<t>> => Len(below) = 1
    BY OneSegment
  <1>. QED BY <1>1, <1>2 DEF IdentityKind

(* Below PKI any one segment is a folder, and the three files of a folder  *)
(* are all there is in it.                                                 *)
LEMMA PkiAt ==
    ASSUME NEW S, NEW below \in Seq(S)
    PROVE  /\ Len(below) = 0 => PkiKind(below) = "PkiDir"
           /\ Len(below) = 1 => PkiKind(below) = "CertDir"
           /\ Len(below) = 2 => /\ PkiKind(below) \notin {"PkiDir", "CertDir"}
                                /\ PkiKind(below) \notin {"Root", "Reader", "IdentityDir"}
                                /\ PkiKind(below) # "Invalid"
                                     <=> below[2] \in {InfoTxt, CertDerName, CertPemName}
           /\ Len(below) \notin {0, 1, 2} => PkiKind(below) = "Invalid"
  BY DEF PkiKind

(* Any name below PKI resolves; in a folder below it exactly its three     *)
(* files do; and nothing resolves below what is not a directory.           *)
(* (CardTree::resolve)                                                     *)
LEMMA ResolvesBelow ==
    ASSUME NEW S, NEW path \in Seq(S), path # <<>>, NEW held
    PROVE  /\ Resolve(held, Front(path)) = "PkiDir" => Resolve(held, path) # "Invalid"
           /\ Resolve(held, Front(path)) = "CertDir"
                => (Resolve(held, path) # "Invalid" <=> Last(path) \in {InfoTxt, CertDerName, CertPemName})
           /\ Resolve(held, Front(path)) \notin Directories => Resolve(held, path) = "Invalid"
  <1>. DEFINE f == Front(path)
              caps == CapsOf[held[path[1][1]]]
              Below(kind, parent) ==
                  /\ parent = "PkiDir" => kind # "Invalid"
                  /\ parent = "CertDir"
                       => (kind # "Invalid" <=> Last(path) \in {InfoTxt, CertDerName, CertPemName})
                  /\ parent \notin Directories => kind = "Invalid"
  <1>1. /\ Len(path) \in Nat \ {0} /\ f \in Seq(S) /\ Len(f) = Len(path) - 1
        /\ \A i \in 1..(Len(path) - 1) : f[i] = path[i]
        /\ Last(path) = path[Len(path)]
    BY ParentOf
  <1>2. f = <<>> <=> Len(f) = 0
    BY <1>1, EmptySegments
  <1>. SUFFICES Below(Resolve(held, path), Resolve(held, f))
    OBVIOUS
  <1>. HIDE DEF f
  <1>3. CASE Len(path) = 1
    BY <1>1, <1>2, <1>3 DEF Resolve, Directories
  <1>4. CASE Len(path) >= 2 /\ ~Present(held, path[1])
    <2>1. f # <<>> /\ f[1] = path[1]
      BY <1>1, <1>2, <1>4
    <2>. QED BY <1>4, <2>1 DEF Resolve
  <1>5. CASE Len(path) = 2 /\ Present(held, path[1])
    <2>1. f # <<>> /\ f[1] = path[1] /\ Len(f) = 1
      BY <1>1, <1>2, <1>5
    <2>2. Resolve(held, f) = "Reader"
      BY <1>5, <2>1 DEF Resolve
    <2>. QED BY <2>2 DEF Directories
  <1>6. CASE Len(path) >= 3 /\ Present(held, path[1])
    <2>. DEFINE rest == Tail(path)
                frest == Tail(f)
                below == Tail(rest)
                fbelow == Tail(frest)
    <2>1. f # <<>> /\ f[1] = path[1] /\ Len(f) # 1
      BY <1>1, <1>2, <1>6
    <2>2. /\ rest \in Seq(S) /\ Len(rest) = Len(path) - 1
          /\ \A i \in 1..(Len(path) - 1) : rest[i] = path[i + 1]
      BY BelowOf
    <2>3. /\ frest \in Seq(S) /\ Len(frest) = Len(path) - 2
          /\ \A i \in 1..(Len(f) - 1) : frest[i] = f[i + 1]
      BY <1>1, <2>1, BelowOf
    <2>4. Resolve(held, path) = KindBelow(caps, rest) /\ Resolve(held, f) = KindBelow(caps, frest)
      BY <1>1, <1>6, <2>1 DEF Resolve
    <2>. HIDE DEF rest, frest, caps
    <2>5. Len(rest) # 0 /\ Len(frest) # 0 /\ Len(rest) # 1 /\ rest # <<>> /\ frest # <<>>
      <3>1. Len(rest) # 0 /\ Len(frest) # 0 /\ Len(rest) # 1
        BY <1>1, <1>6, <2>2, <2>3
      <3>. QED BY <2>2, <2>3, <3>1, EmptySegments
    <2>6. /\ below \in Seq(S) /\ Len(below) = Len(path) - 2
          /\ \A i \in 1..(Len(rest) - 1) : below[i] = rest[i + 1]
      BY <1>1, <2>2, <2>5, BelowOf
    <2>7. fbelow \in Seq(S) /\ Len(fbelow) = Len(path) - 3
      BY <1>1, <2>3, <2>5, BelowOf
    <2>8. rest[1] = path[2] /\ frest[1] = path[2]
      <3>1. 1 \in 1..(Len(path) - 1) /\ 1 \in 1..(Len(f) - 1) /\ 2 \in 1..(Len(path) - 1) /\ 1 + 1 = 2
        BY <1>1, <1>6
      <3>. QED BY <1>1, <2>2, <2>3, <3>1
    <2>. HIDE DEF below, fbelow
    <2>9. CASE path[2] = IdentityDirName /\ "IdentityData" \in caps
      <3>1. /\ KindBelow(caps, rest) = IdentityKind(caps, below)
            /\ KindBelow(caps, frest) = IdentityKind(caps, fbelow)
        BY <2>2, <2>3, <2>5, <2>8, <2>9, KindAt DEF below, fbelow
      <3>2. CASE Len(path) = 3
        <4>1. Len(fbelow) = 0
          BY <2>7, <3>2
        <4>2. IdentityKind(caps, fbelow) = "IdentityDir"
          BY ONLY <2>7, <4>1, IdentityAt
        <4>. QED BY <2>4, <3>1, <4>2 DEF Directories
      <3>3. CASE Len(path) # 3
        <4>1. Len(fbelow) # 0 /\ Len(below) \notin {0, 1}
          <5>1. \A n \in Nat : n >= 3 /\ n # 3 => n - 3 # 0 /\ n - 2 \notin {0, 1}
            OBVIOUS
          <5>. QED BY ONLY <1>1, <1>6, <2>6, <2>7, <3>3, <5>1
        <4>2. /\ IdentityKind(caps, fbelow) \in {"IdentityLeaf", "PhotoLeaf", "Invalid"}
              /\ IdentityKind(caps, below) = "Invalid"
          BY <2>6, <2>7, <4>1, IdentityAt
        <4>. QED BY <2>4, <3>1, <4>2
      <3>. QED BY <3>2, <3>3
    <2>10. CASE path[2] = PkiDirName /\ "Pki" \in caps
      <3>1. /\ KindBelow(caps, rest) = PkiKind(below)
            /\ KindBelow(caps, frest) = PkiKind(fbelow)
        BY <2>2, <2>3, <2>5, <2>8, <2>10, KindAt DEF below, fbelow
      <3>2. CASE Len(path) = 3
        <4>1. Len(fbelow) = 0 /\ Len(below) = 1
          BY <2>6, <2>7, <3>2
        <4>2. PkiKind(fbelow) = "PkiDir" /\ PkiKind(below) = "CertDir"
          BY <2>6, <2>7, <4>1, PkiAt
        <4>. QED BY <2>4, <3>1, <4>2 DEF Directories
      <3>3. CASE Len(path) = 4
        <4>1. Len(fbelow) = 1 /\ Len(below) = 2
          BY <2>6, <2>7, <3>3
        <4>2. below[2] = Last(path)
          <5>1. 2 \in 1..(Len(rest) - 1) /\ 3 \in 1..(Len(path) - 1) /\ 2 + 1 = 3 /\ 3 + 1 = 4
            BY <2>2, <3>3
          <5>. QED BY <1>1, <2>2, <2>6, <3>3, <5>1
        <4>3. /\ PkiKind(fbelow) = "CertDir"
              /\ PkiKind(below) # "Invalid" <=> Last(path) \in {InfoTxt, CertDerName, CertPemName}
          BY <2>6, <2>7, <4>1, <4>2, PkiAt
        <4>. QED BY <2>4, <3>1, <4>3 DEF Directories
      <3>4. CASE Len(path) >= 5
        <4>1. Len(fbelow) \notin {0, 1} /\ Len(below) \notin {0, 1, 2}
          <5>1. \A n \in Nat : n >= 5 => n - 3 \notin {0, 1} /\ n - 2 \notin {0, 1, 2}
            OBVIOUS
          <5>. QED BY ONLY <1>1, <2>6, <2>7, <3>4, <5>1
        <4>2. PkiKind(fbelow) \notin {"PkiDir", "CertDir"} /\ PkiKind(below) = "Invalid"
          BY <2>6, <2>7, <4>1, PkiAt
        <4>. QED BY <2>4, <3>1, <4>2
      <3>. QED BY <1>1, <1>6, <3>2, <3>3, <3>4
    <2>11. CASE /\ ~(path[2] = IdentityDirName /\ "IdentityData" \in caps)
                /\ ~(path[2] = PkiDirName /\ "Pki" \in caps)
      <3>1. KindBelow(caps, rest) = "Invalid" /\ KindBelow(caps, frest) \in {"InfoLeaf", "Invalid"}
        BY <2>2, <2>3, <2>5, <2>8, <2>11, KindAt
      <3>. QED BY <2>4, <3>1
    <2>. QED BY <2>9, <2>10, <2>11
  <1>. QED BY <1>1, <1>3, <1>4, <1>5, <1>6

-----------------------------------------------------------------------------
(* The folders of certificates.                                            *)

FolderOf(certs, i) == BuildCertFolders(certs)[i]

LEMMA FolderAt ==
    ASSUME NEW certs, NEW i \in Signing(certs)
    PROVE  /\ FolderOf(certs, i).cert = certs[i].id
           /\ FolderOf(certs, i).name = <<certs[i].base, Cardinality(Seen(certs, i, certs[i].base))>>
  BY DEF FolderOf, BuildCertFolders

(* The count of a base name grows with each certificate that bears it.     *)
LEMMA SeenGrows ==
    ASSUME NEW S, NEW certs \in Seq(S),
           NEW i \in Signing(certs), NEW j \in Signing(certs), i < j,
           certs[i].base = certs[j].base
    PROVE  Cardinality(Seen(certs, i, certs[i].base)) # Cardinality(Seen(certs, j, certs[j].base))
  <1>. DEFINE base == certs[j].base
              before == Seen(certs, i, base)
              upTo == Seen(certs, j, base)
  <1>1. i \in Nat /\ j \in Nat
    BY DEF Signing
  <1>2. IsFiniteSet(1..j)
    BY <1>1, FS_Interval
  <1>3. upTo \in SUBSET (1..j)
    BY DEF Seen
  <1>4. IsFiniteSet(upTo)
    BY <1>2, <1>3, FS_Subset
  <1>5. before \in SUBSET upTo
    BY <1>1 DEF Seen
  <1>6. j \in upTo /\ j \notin before
    BY <1>1 DEF Seen, Signing
  <1>. HIDE DEF before, upTo
  <1>7. Cardinality(before) # Cardinality(upTo)
    BY <1>4, <1>5, <1>6, FS_Subset
  <1>. QED BY <1>7 DEF before, upTo

(* No two folders have one name.  (CardWorkerLogic::buildCertFolders)      *)
LEMMA FolderNamesDiffer ==
    ASSUME NEW S, NEW certs \in Seq(S),
           NEW i \in Signing(certs), NEW j \in Signing(certs),
           FolderOf(certs, i).name = FolderOf(certs, j).name
    PROVE  i = j
  <1>1. certs[i].base = certs[j].base
    BY FolderAt
  <1>2. Cardinality(Seen(certs, i, certs[i].base)) = Cardinality(Seen(certs, j, certs[j].base))
    BY FolderAt
  <1>3. i \in Nat /\ j \in Nat
    BY DEF Signing
  <1>4. ~(i < j) /\ ~(j < i)
    BY <1>1, <1>2, SeenGrows
  <1>. QED BY <1>3, <1>4

(* A folder's name leads back to its certificate.                          *)
(* (CardWorkerLogic::resolveCertId)                                        *)
LEMMA FolderResolves ==
    ASSUME NEW S, NEW certs \in Seq(S), NEW i \in Signing(certs)
    PROVE  ResolveCertId(certs, FolderOf(certs, i).name) = certs[i].id
  <1>. DEFINE name == FolderOf(certs, i).name
              named == {j \in DOMAIN BuildCertFolders(certs) : BuildCertFolders(certs)[j].name = name}
  <1>1. DOMAIN BuildCertFolders(certs) = Signing(certs)
    BY DEF BuildCertFolders
  <1>2. named = {i}
    BY <1>1, FolderNamesDiffer DEF FolderOf
  <1>3. i \in Nat
    BY DEF Signing
  <1>4. \A k \in named : (\A j \in named : k <= j) <=> k = i
    BY <1>2, <1>3
  <1>. HIDE DEF name, named
  <1>5. (CHOOSE k \in named : \A j \in named : k <= j) = i
    BY <1>2, <1>4
  <1>6. ResolveCertId(certs, name) = BuildCertFolders(certs)[i].cert
    BY <1>2, <1>5 DEF ResolveCertId, named
  <1>. QED BY <1>6, FolderAt DEF name, FolderOf

(* What is resolved is a folder: of a signing certificate, by its name.    *)
LEMMA ResolvedIsFolder ==
    ASSUME NEW S, NEW certs \in Seq(S), NEW name, ResolveCertId(certs, name) # None
    PROVE  \E i \in Signing(certs) :
             /\ FolderOf(certs, i).name = name
             /\ ResolveCertId(certs, name) = certs[i].id
  <1>1. DOMAIN BuildCertFolders(certs) = Signing(certs)
    BY DEF BuildCertFolders
  <1>2. PICK i \in Signing(certs) : BuildCertFolders(certs)[i].name = name
    BY <1>1 DEF ResolveCertId
  <1>. QED BY <1>2, FolderResolves DEF FolderOf

LEMMA FolderNamesAre ==
    ASSUME NEW certs
    PROVE  FolderNames(certs) = {FolderOf(certs, i).name : i \in Signing(certs)}
  BY DEF FolderNames, FolderOf, BuildCertFolders, Range
=============================================================================
