------------------------------ MODULE CardTree ------------------------------
(***************************************************************************)
(* The layout of the `card:/' file tree: how a path resolves to a node and *)
(* what a directory lists, both from the presence of cards and from their  *)
(* capability bits alone (CardTree), and the folders of the certificates   *)
(* (CardWorkerLogic::buildCertFolders).                                    *)
(*                                                                         *)
(* A path is a sequence of segments; a segment is a text and the ordinal   *)
(* of its copy: <<t, 1>> is written "t", <<t, 2>> is written "t ~2".       *)
(***************************************************************************)
EXTENDS Naturals, Sequences, FiniteSets, SequencesExt

CONSTANTS
    Readers,    \* reader names, the first segment of a path
    Cards,      \* cards (what is in the plastic)
    CapsOf,     \* the capability bits each card advertises
    CertsOf,    \* the certificates of each card, in the order the agent lists them
    None        \* nothing there

Cap == {"IdentityData", "EmrtdCrypto", "Pki"}

CertIdsOf(card) == IF card = None THEN {} ELSE {CertsOf[card][i].id : i \in DOMAIN CertsOf[card]}

(* A card lists each certificate once.                                     *)
ASSUME TreeAssumption ==
    /\ CapsOf \in [Cards -> SUBSET Cap]
    /\ \A c \in Cards :
         /\ CertsOf[c] \in Seq(Range(CertsOf[c]))
         /\ \A i \in DOMAIN CertsOf[c] : CertsOf[c][i].signing \in BOOLEAN
         /\ \A i, j \in DOMAIN CertsOf[c] : CertsOf[c][i].id = CertsOf[c][j].id => i = j
         /\ None \notin CertIdsOf(c)
    /\ None \notin Cards
    /\ None \notin Readers

Segment(text) == <<text, 1>>

InfoTxt == Segment("info.txt")
IdentityDirName == Segment("Identity")
PkiDirName == Segment("PKI")
IdentityTxt == Segment("identity.txt")
CertDerName == Segment("certificate.der")
CertPemName == Segment("certificate.pem")

PhotoLeafName(caps) ==
    Segment(IF "EmrtdCrypto" \in caps THEN "photo.jp2" ELSE "photo.jpg")

IdentityChildren(caps) == {IdentityTxt, PhotoLeafName(caps)}

ReadLeaves == {"IdentityLeaf", "PhotoLeaf", "CertInfoLeaf", "CertDerLeaf", "CertPemLeaf"}
Leaves == ReadLeaves \cup {"InfoLeaf"}
Directories == {"Root", "Reader", "IdentityDir", "PkiDir", "CertDir"}
NodeKind == {"Invalid"} \cup Directories \cup Leaves

-----------------------------------------------------------------------------
(* CardTree, over held: the card in each reader, None when there is none.  *)

IdentityKind(caps, below) ==
    CASE below = <<>> -> "IdentityDir"
      [] below = <<IdentityTxt>> -> "IdentityLeaf"
      [] below = <<PhotoLeafName(caps)>> -> "PhotoLeaf"
      [] OTHER -> "Invalid"

PkiKind(below) ==
    CASE Len(below) = 0 -> "PkiDir"
      [] Len(below) = 1 -> "CertDir"
      [] Len(below) = 2 /\ below[2] = InfoTxt -> "CertInfoLeaf"
      [] Len(below) = 2 /\ below[2] = CertDerName -> "CertDerLeaf"
      [] Len(below) = 2 /\ below[2] = CertPemName -> "CertPemLeaf"
      [] OTHER -> "Invalid"

(* What lies below a reader, at the path rest (not empty).                 *)
KindBelow(caps, rest) ==
    CASE rest = <<InfoTxt>> -> "InfoLeaf"
      [] rest[1] = IdentityDirName /\ "IdentityData" \in caps -> IdentityKind(caps, Tail(rest))
      [] rest[1] = PkiDirName /\ "Pki" \in caps -> PkiKind(Tail(rest))
      [] OTHER -> "Invalid"

PresentReaders(held) == {r \in Readers : held[r] # None}

(* CardTree::presenceFor: the segment names a reader that holds a card.    *)
Present(held, segment) == \E r \in PresentReaders(held) : segment = Segment(r)

Resolve(held, path) ==
    IF path = <<>> THEN "Root"
    ELSE IF ~Present(held, path[1]) THEN "Invalid"
    ELSE IF Len(path) = 1 THEN "Reader"
    ELSE KindBelow(CapsOf[held[path[1][1]]], Tail(path))

(* CardTree::list                                                          *)
ListChildren(held, path) ==
    IF path = <<>> THEN {Segment(r) : r \in PresentReaders(held)}
    ELSE IF ~Present(held, path[1]) THEN {}
    ELSE LET caps == CapsOf[held[path[1][1]]] IN
      CASE Len(path) = 1 ->
             {InfoTxt} \cup {IdentityDirName : x \in caps \cap {"IdentityData"}}
                       \cup {PkiDirName : x \in caps \cap {"Pki"}}
        [] Tail(path) = <<IdentityDirName>> /\ "IdentityData" \in caps -> IdentityChildren(caps)
        [] OTHER -> {}

-----------------------------------------------------------------------------
(* The folders of the signing-capable certificates, at the index of each.  *)
(* "base" stands for stableCertFolderName: the purpose and the first       *)
(* characters of the id.                                                   *)
Signing(certs) == {i \in DOMAIN certs : certs[i].signing}

(* The certificates up to the i-th whose folder has this base name.        *)
Seen(certs, i, base) == {j \in 1..i : certs[j].signing /\ certs[j].base = base}

(* Faulty: the ordinal is left out.                                        *)
BuildCertFoldersUnnumbered(certs) ==
    [i \in Signing(certs) |-> [name |-> <<certs[i].base, 1>>, cert |-> certs[i].id]]

BuildCertFolders(certs) ==
    [i \in Signing(certs) |->
        [name |-> <<certs[i].base, Cardinality(Seen(certs, i, certs[i].base))>>,
         cert |-> certs[i].id]]

FolderNames(certs) == {f.name : f \in Range(BuildCertFolders(certs))}

(* Faulty: the name without its ordinal is taken for the id.               *)
ResolveCertIdByName(certs, name) ==
    IF name \in FolderNames(certs) THEN name[1] ELSE None

(* CardWorkerLogic::resolveCertId: the first folder of that name.          *)
ResolveCertId(certs, name) ==
    LET folders == BuildCertFolders(certs)
        named == {i \in DOMAIN folders : folders[i].name = name}
    IN IF named = {} THEN None
       ELSE folders[CHOOSE i \in named : \A j \in named : i <= j].cert
=============================================================================
