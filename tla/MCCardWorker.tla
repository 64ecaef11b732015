---------------------------- MODULE MCCardWorker ----------------------------
EXTENDS CardWorker

CONSTANTS passport, token, left, right, elsewhere

MCReaders == {left, right}
MCCards == {passport, token}

MCCapsOf == (passport :> {"IdentityData", "EmrtdCrypto", "Pki"}) @@ (token :> {"Pki"})

Cert(id, base, signing) == [id |-> id, base |-> base, signing |-> signing]

(* Both cards have certificates of the same two ids, in another order; the *)
(* folders of two of them differ by the ordinal alone.                     *)
MCCertsOf ==
    (passport :> <<Cert("k3", "Other", FALSE), Cert("k1", "Signature", TRUE), Cert("k2", "Signature", TRUE)>>)
    @@ (token :> <<Cert("k2", "Signature", TRUE), Cert("k1", "Other", TRUE)>>)

(* Everything below one reader, one certificate below the other, and paths *)
(* that lead nowhere.                                                      *)
Signature == <<"Signature", 1>>

Below ==
    {<<>>, <<InfoTxt>>, <<IdentityDirName>>, <<IdentityDirName, IdentityTxt>>,
     <<IdentityDirName, PhotoLeafName({"EmrtdCrypto"})>>, <<IdentityDirName, PhotoLeafName({})>>,
     <<PkiDirName>>, <<PkiDirName, Signature>>, <<PkiDirName, Signature, InfoTxt>>,
     <<PkiDirName, <<"Signature", 2>>, CertDerName>>, <<PkiDirName, Signature, CertPemName>>,
     <<InfoTxt, InfoTxt>>, <<PkiDirName, Signature, IdentityTxt>>}

MCPaths ==
    {<<Segment(left)>> \o below : below \in Below}
    \cup {<<>>, <<Segment(elsewhere)>>, <<Segment(right)>>,
          <<Segment(right), PkiDirName, Signature, CertDerName>>}
=============================================================================
