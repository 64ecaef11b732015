------------------------- MODULE AgentRegistryProofs -------------------------
(***************************************************************************)
(* What the proofs about every component need of the registry: whatever    *)
(* the library reports, it stays well-typed and consistent.                *)
(***************************************************************************)
EXTENDS AgentRegistry, TLAPS

(* Registry events keep the registry's types.                              *)
LEMMA RegistryTypePreserved ==
    ASSUME RegistryTypeOK,
           \/ UNCHANGED registry
           \/ AgentAppears
           \/ AgentVanishes
           \/ \E r \in Readers : ReaderArrives(r) \/ ReaderLeaves(r) \/ CardLeaves(r)
           \/ \E r \in Readers, c \in Cards, bits \in SUBSET Caps : CardArrives(r, c, bits)
           \/ \E c \in Cards, bits \in SUBSET Caps : CapsChange(c, bits)
    PROVE  RegistryTypeOK'
<1>1. \A c : CapsWithout(c) \in [Cards -> SUBSET Caps]
  BY DEF RegistryTypeOK, CapsWithout
<1>2. CASE UNCHANGED registry
  BY <1>2 DEF RegistryTypeOK, registry
<1>3. CASE AgentAppears
  BY <1>3 DEF RegistryTypeOK, AgentAppears
<1>4. CASE AgentVanishes
  BY <1>4 DEF RegistryTypeOK, AgentVanishes
<1>5. ASSUME NEW r \in Readers, ReaderArrives(r) \/ ReaderLeaves(r) \/ CardLeaves(r)
      PROVE  RegistryTypeOK'
  BY <1>1, <1>5 DEF RegistryTypeOK, ReaderArrives, ReaderLeaves, CardLeaves
<1>6. ASSUME NEW r \in Readers, NEW c \in Cards, NEW bits \in SUBSET Caps,
             CardArrives(r, c, bits)
      PROVE  RegistryTypeOK'
  BY <1>6 DEF RegistryTypeOK, CardArrives
<1>7. ASSUME NEW c \in Cards, NEW bits \in SUBSET Caps, CapsChange(c, bits)
      PROVE  RegistryTypeOK'
  BY <1>7 DEF RegistryTypeOK, CapsChange
<1> QED
  BY <1>2, <1>3, <1>4, <1>5, <1>6, <1>7

(* Registry events keep the registry consistent.                           *)
LEMMA RegistryConsistentPreserved ==
    ASSUME RegistryTypeOK, RegistryConsistent,
           \/ UNCHANGED registry
           \/ AgentAppears
           \/ AgentVanishes
           \/ \E r \in Readers : ReaderArrives(r) \/ ReaderLeaves(r) \/ CardLeaves(r)
           \/ \E r \in Readers, c \in Cards, bits \in SUBSET Caps : CardArrives(r, c, bits)
           \/ \E c \in Cards, bits \in SUBSET Caps : CapsChange(c, bits)
    PROVE  RegistryConsistent'
<1>1. CASE UNCHANGED registry
  BY <1>1 DEF RegistryConsistent, registry
<1>2. CASE AgentAppears
  BY <1>2 DEF RegistryConsistent, AgentAppears
<1>3. CASE AgentVanishes
  BY <1>3 DEF RegistryConsistent, AgentVanishes
<1>4. ASSUME NEW r \in Readers, ReaderArrives(r) PROVE RegistryConsistent'
  BY <1>4 DEF RegistryConsistent, ReaderArrives
<1>5. ASSUME NEW r \in Readers, ReaderLeaves(r) PROVE RegistryConsistent'
  BY <1>5 DEF RegistryConsistent, ReaderLeaves, RegistryTypeOK
<1>6. ASSUME NEW r \in Readers, CardLeaves(r) PROVE RegistryConsistent'
  BY <1>6 DEF RegistryConsistent, CardLeaves, RegistryTypeOK
<1>7. ASSUME NEW r \in Readers, NEW c \in Cards, NEW bits \in SUBSET Caps,
             CardArrives(r, c, bits)
      PROVE  RegistryConsistent'
  BY <1>7 DEF RegistryConsistent, CardArrives, CardPresent, RegistryTypeOK
<1>8. ASSUME NEW c \in Cards, NEW bits \in SUBSET Caps, CapsChange(c, bits)
      PROVE  RegistryConsistent'
  BY <1>8 DEF RegistryConsistent, CapsChange
<1> QED
  BY <1>1, <1>2, <1>3, <1>4, <1>5, <1>6, <1>7, <1>8

(* A card pulled, alone or with its reader, is gone and no other is.       *)
LEMMA PulledIsGone ==
    ASSUME RegistryTypeOK, RegistryConsistent,
           NEW r \in Readers, slot' = [slot EXCEPT ![r] = None],
           NEW c \in Cards
    PROVE  CardPresent(slot', c) <=> CardPresent(slot, c) /\ c \notin {slot[r]} \ {None}
  BY RegistryAssumption DEF RegistryTypeOK, RegistryConsistent, CardPresent
=============================================================================
