--------------------------- MODULE AgentRegistry ---------------------------
(***************************************************************************)
(* The registry every LibreKDE component reads: which smart-card agent is  *)
(* reachable, which readers it lists, which card sits in which reader and  *)
(* what each card advertises.  The registry itself lives in the agent      *)
(* client library (outside this repository), so its changes are modelled   *)
(* from what the code relies on:                                           *)
(*   - the library updates the registry before it emits a signal, so a     *)
(*     handler reads the registry as it is after the event;                *)
(*   - a removed card, or a lost agent, destroys the card objects;         *)
(*   - readers are listed in the order of their object paths.              *)
(* An event is a predicate on the registry alone; a component conjoins it  *)
(* with what its own handler of the signal does.                           *)
(***************************************************************************)
EXTENDS Naturals

CONSTANTS
    Readers,    \* reader object paths; their order is the order of the paths
    Cards,      \* card objects (one insertion of one card)
    Caps,       \* capability bits a card can advertise
    None        \* the null pointer / empty id

ASSUME RegistryAssumption ==
    /\ Readers \subseteq Nat
    /\ \A S \in SUBSET Readers : S # {} => \E r \in S : \A q \in S : r <= q
    /\ None \notin Readers
    /\ None \notin Cards

VARIABLES
    avail,      \* AgentClient::isAvailable()
    readers,    \* the readers the agent lists
    slot,       \* the card in each reader, None when there is none
    caps        \* the capability bits of each card

registry == <<avail, readers, slot, caps>>

RegistryTypeOK ==
    /\ avail \in BOOLEAN
    /\ readers \in SUBSET Readers
    /\ slot \in [Readers -> Cards \cup {None}]
    /\ caps \in [Cards -> SUBSET Caps]

(* What the library keeps true of its registry: a card sits in a listed    *)
(* reader, and in one reader only; an unreachable agent lists nothing.     *)
RegistryConsistent ==
    /\ \A r \in Readers : slot[r] # None => r \in readers
    /\ \A r, q \in Readers : slot[r] = slot[q] /\ slot[r] # None => r = q
    /\ ~avail => readers = {}

RegistryInit ==
    /\ RegistryTypeOK
    /\ RegistryConsistent

(* Is the card object alive in the registry s (a value of slot)?           *)
CardPresent(s, c) == \E r \in Readers : s[r] = c

(* Cards::hasCapability                                                    *)
HasCapability(k, c, cap) == cap \in k[c]

(* Readers::firstReaderWithCard, over the registry (rs, s).                *)
FirstReaderWithCard(rs, s) ==
    LET holding == {r \in rs : s[r] # None} IN
    IF holding = {} THEN None
    ELSE CHOOSE r \in holding : \A q \in holding : r <= q

-----------------------------------------------------------------------------
(* Events of the registry.                                                 *)

(* A destroyed card advertises nothing.                                    *)
CapsWithout(c) == [d \in Cards |-> IF d = c THEN {} ELSE caps[d]]

AgentAppears ==
    /\ ~avail
    /\ avail' = TRUE
    /\ UNCHANGED <<readers, slot, caps>>

AgentVanishes ==
    /\ avail
    /\ avail' = FALSE
    /\ readers' = {}
    /\ slot' = [r \in Readers |-> None]
    /\ caps' = [c \in Cards |-> {}]

ReaderArrives(r) ==
    /\ avail
    /\ r \notin readers
    /\ readers' = readers \cup {r}
    /\ UNCHANGED <<avail, slot, caps>>

ReaderLeaves(r) ==
    /\ r \in readers
    /\ readers' = readers \ {r}
    /\ slot' = [slot EXCEPT ![r] = None]
    /\ caps' = CapsWithout(slot[r])
    /\ UNCHANGED avail

CardArrives(r, c, bits) ==
    /\ r \in readers
    /\ slot[r] = None
    /\ ~CardPresent(slot, c)
    /\ slot' = [slot EXCEPT ![r] = c]
    /\ caps' = [caps EXCEPT ![c] = bits]
    /\ UNCHANGED <<avail, readers>>

CardLeaves(r) ==
    /\ slot[r] # None
    /\ slot' = [slot EXCEPT ![r] = None]
    /\ caps' = CapsWithout(slot[r])
    /\ UNCHANGED <<avail, readers>>

(* The agent changes what a present card advertises (AgentCard::changed).  *)
CapsChange(c, bits) ==
    /\ CardPresent(slot, c)
    /\ caps[c] # bits
    /\ caps' = [caps EXCEPT ![c] = bits]
    /\ UNCHANGED <<avail, readers, slot>>
=============================================================================
