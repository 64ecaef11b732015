---------------------------- MODULE SigningFlow ----------------------------
(***************************************************************************)
(* Sharing a file to the "sign" action: SignPurposePlugin's job, the       *)
(* choice of the card (chooseSigningCard), the SignJob that lists the      *)
(* card's certificates, lets the user choose one, signs and saves.         *)
(*                                                                         *)
(* Both choosers are modal dialogs with nested event loops: while one is   *)
(* open, signals of the agent, terminals and other shares are handled      *)
(* inside its loop.  Shares run side by side, each in a process of its own *)
(* or in one application; dialogs may then have to close in the reverse    *)
(* order of their opening, which is one of the orders modelled.            *)
(*                                                                         *)
(* A card's id is minted from a counter of the agent's process, so a       *)
(* restarted agent mints the same ids again.                               *)
(***************************************************************************)
EXTENDS AgentRegistry

CONSTANTS
    Jobs,       \* shares
    Names,      \* reader names
    NameOf,     \* the name of each reader
    MintLimit   \* bound: ids one agent process mints

Pki == "Pki"

ASSUME SigningAssumption ==
    /\ NameOf \in [Readers -> Names]
    /\ MintLimit \in Nat
    /\ Pki \in Caps

VARIABLES
    ids,        \* AgentCard::id of each present card
    minted,     \* how many ids this agent process has minted
    share       \* the members of each share

vars == <<avail, readers, slot, caps, ids, minted, share>>

Ids == 0..MintLimit

(* A CardChoice; "card" says, for the properties, whose row it is.         *)
Choice == [card : Cards, id : Ids, name : Names]

Phase == {"idle", "choosing", "certificates", "picking", "queued", "signing", "ended"}

Outcome == {"none", "succeeded", "failed", "cancelled"}

Share == [
    phase : Phase,
    choices : SUBSET Choice,        \* the rows of the card dialog
    picked : Cards \cup {None},     \* whose row the user took
    restarted : BOOLEAN,            \* the agent went away under the card dialog
    card : Cards \cup {None},       \* SignJob's QPointer
    started : Cards \cup {None},    \* the card SignJob was created with
    op : Cards \cup {None},         \* the card the live certOp or signOp is on
    outcome : Outcome,              \* what was reported
    wrote : BOOLEAN ]               \* a signed file was saved

TypeOK ==
    /\ RegistryTypeOK
    /\ ids \in [Cards -> Ids \cup {None}]
    /\ minted \in Ids
    /\ share \in [Jobs -> Share]

NotShared == [phase |-> "idle", choices |-> {}, picked |-> None, restarted |-> FALSE,
              card |-> None, started |-> None, op |-> None,
              outcome |-> "none", wrote |-> FALSE]

Init ==
    /\ RegistryTypeOK
    /\ readers = {}
    /\ slot = [r \in Readers |-> None]
    /\ caps = [c \in Cards |-> {}]
    /\ ids = [c \in Cards |-> None]
    /\ minted = 0
    /\ share = [j \in Jobs |-> NotShared]

-----------------------------------------------------------------------------
(* SignJob, one operator per slot.                                         *)

Report(s, outcome) ==
    [NotShared EXCEPT !.phase = "ended", !.outcome = outcome,
                      !.started = s.started, !.wrote = s.wrote]

(* SignJob::start, whose formats are those of MimeFormatMap.               *)
StartJob(s, c) ==
    LET u == [NotShared EXCEPT !.card = c, !.started = c, !.picked = s.picked] IN
    IF ~HasCapability(caps, c, Pki) THEN Report(u, "failed")
    ELSE [u EXCEPT !.phase = "certificates", !.op = c]

(* The hop to a fresh turn of the event loop.                              *)
QueueSign(s) == [s EXCEPT !.phase = "queued"]

(* What the certificates operation ends with: a failure, or so many        *)
(* certificates that can sign.                                             *)
CertificatesResult == {"failed", "none", "one", "several"}

(* Faulty: fail() is called, and the slot goes on.                         *)
OnCertificatesFinishedAnyway(s, result) ==
    LET u == [s EXCEPT !.op = None] IN
    CASE result = "failed" -> Report(u, "failed")
      [] result = "none" -> [QueueSign(u) EXCEPT !.outcome = "failed"]
      [] result = "one" -> QueueSign(u)
      [] result = "several" -> [u EXCEPT !.phase = "picking"]

OnCertificatesFinished(s, result) ==
    LET u == [s EXCEPT !.op = None] IN
    CASE result \in {"failed", "none"} -> Report(u, "failed")
      [] result = "one" -> QueueSign(u)
      [] result = "several" -> [u EXCEPT !.phase = "picking"]

(* Faulty: the card is not looked at again after the dialog and the hop.   *)
BeginSignUnchecked(s, opened) ==
    IF opened THEN [s EXCEPT !.phase = "signing", !.op = s.started]
    ELSE Report(s, "failed")

(* Faulty: the card's absence is noticed, and told to nobody.              *)
BeginSignSilently(s, opened) ==
    IF s.card = None THEN s
    ELSE IF opened THEN [s EXCEPT !.phase = "signing", !.op = s.card]
    ELSE Report(s, "failed")

BeginSign(s, opened) ==
    IF s.card # None /\ opened THEN [s EXCEPT !.phase = "signing", !.op = s.card]
    ELSE Report(s, "failed")

(* The sign operation ends: it failed, its artifact could not be saved     *)
(* (unreadable, empty, no free name, write failed), or it was.             *)
SignResult == {"failed", "unsaved", "saved"}

(* Faulty: the end of the write is reported in the words of the library.   *)
OnSignFinishedVerbatim(s, result) == Report([s EXCEPT !.wrote = result = "saved"], result)

OnSignFinished(s, result) ==
    IF result = "saved" THEN Report([s EXCEPT !.wrote = TRUE], "succeeded")
    ELSE Report(s, "failed")

-----------------------------------------------------------------------------
(* chooseSigningCard.                                                      *)

(* Cards::cardsWithCapability, with the reader of each.                    *)
HoldersOfSigners ==
    {r \in readers : slot[r] # None /\ HasCapability(caps, slot[r], Pki)}

ChoiceOf(r) == [card |-> slot[r], id |-> ids[slot[r]], name |-> NameOf[r]]

(* client.card(id), in the reader it sits in.                              *)
ReaderOfId(id) == {r \in readers : slot[r] # None /\ ids[slot[r]] = id}

(* Faulty: an id is enough.                                                *)
StillNamesById(pick, r) == HasCapability(caps, slot[r], Pki)

(* A live card answers for the row taken: it has the row's id, can still   *)
(* sign, and sits in the reader of the row's name.                         *)
StillNames(pick, r) ==
    /\ HasCapability(caps, slot[r], Pki)
    /\ NameOf[r] = pick.name

Resolve(s, pick) ==
    LET u == [s EXCEPT !.picked = pick.card]
        live == {r \in ReaderOfId(pick.id) : StillNames(pick, r)}
    IN  IF live = {} THEN Report(u, "failed")
        ELSE LET r == CHOOSE r \in live : TRUE IN StartJob(u, slot[r])

(* SignPurposeJob::start, for a share of one local file.                   *)
StartShare(s) ==
    IF ~avail \/ HoldersOfSigners = {} THEN Report(s, "failed")
    ELSE IF \E r \in HoldersOfSigners : HoldersOfSigners = {r}
    THEN LET r == CHOOSE r \in HoldersOfSigners : TRUE IN StartJob(s, slot[r])
    ELSE [s EXCEPT !.phase = "choosing",
                   !.choices = {ChoiceOf(r) : r \in HoldersOfSigners}]

-----------------------------------------------------------------------------
(* Actions.                                                                *)

Quiet == UNCHANGED <<registry, ids, minted>>

(* A share of no file, several files or a remote one is refused.           *)
ShareFile(j) ==
    /\ share[j].phase = "idle"
    /\ Quiet
    /\ \E signable \in BOOLEAN :
          share' = [share EXCEPT ![j] = IF signable THEN StartShare(@)
                                        ELSE Report(@, "failed")]

ChooseCard(j) ==
    /\ share[j].phase = "choosing"
    /\ Quiet
    /\ \/ \E pick \in share[j].choices :
             share' = [share EXCEPT ![j] = Resolve(@, pick)]
       \/ share' = [share EXCEPT ![j] = Report(@, "cancelled")]

CertificatesFinished(j) ==
    /\ share[j].phase = "certificates" /\ share[j].op # None
    /\ Quiet
    /\ \E result \in CertificatesResult :
          share' = [share EXCEPT ![j] = OnCertificatesFinished(@, result)]

ChooseCertificate(j) ==
    /\ share[j].phase = "picking"
    /\ Quiet
    /\ share' \in {[share EXCEPT ![j] = QueueSign(@)],
                   [share EXCEPT ![j] = Report(@, "failed")]}

QueuedSign(j) ==
    /\ share[j].phase = "queued"
    /\ Quiet
    /\ \E opened \in BOOLEAN : share' = [share EXCEPT ![j] = BeginSign(@, opened)]

SignFinished(j) ==
    /\ share[j].phase = "signing" /\ share[j].op # None
    /\ Quiet
    /\ \E result \in SignResult :
          share' = [share EXCEPT ![j] = OnSignFinished(@, result)]

(* The library ends the live operations of a lost card, destroys the card  *)
(* and them, and nulls the pointers; a share whose operation had its       *)
(* terminal queued already is not told.                                    *)
LoseCards(lost, told) ==
    LET null(c) == IF c \in lost THEN None ELSE c
        swept(j) == IF j \in told /\ share[j].op \in lost
                    THEN Report(share[j], "failed") ELSE share[j]
    IN  /\ share' = [j \in Jobs |->
                        [swept(j) EXCEPT !.card = null(@), !.op = null(@),
                                         !.restarted = @ \/ (~avail' /\ share[j].phase = "choosing")]]
        /\ ids' = [c \in Cards |-> IF c \in lost THEN None ELSE ids[c]]

RegistryLoss ==
    \E told \in SUBSET Jobs :
        \/ AgentVanishes /\ LoseCards(Cards, told) /\ minted' = 0
        \/ \E r \in Readers :
              /\ ReaderLeaves(r) \/ CardLeaves(r)
              /\ LoseCards({slot[r]} \ {None}, told)
              /\ UNCHANGED minted

Insertion ==
    \E r \in Readers, c \in Cards, bits \in SUBSET Caps :
        /\ minted < MintLimit
        /\ CardArrives(r, c, bits)
        /\ ids' = [ids EXCEPT ![c] = minted]
        /\ minted' = minted + 1
        /\ UNCHANGED share

OtherRegistryEvent ==
    /\ \/ AgentAppears
       \/ \E r \in Readers : ReaderArrives(r)
       \/ \E c \in Cards, bits \in SUBSET Caps : CapsChange(c, bits)
    /\ UNCHANGED <<ids, minted, share>>

Runs(j) == CertificatesFinished(j) \/ QueuedSign(j) \/ SignFinished(j)

Next ==
    \/ \E j \in Jobs : ShareFile(j) \/ ChooseCard(j) \/ ChooseCertificate(j) \/ Runs(j)
    \/ RegistryLoss
    \/ Insertion
    \/ OtherRegistryEvent

Spec == Init /\ [][Next]_vars

FairSpec == Spec /\ \A j \in Jobs : WF_vars(Runs(j))

-----------------------------------------------------------------------------
(* Properties.                                                             *)

(* Whatever happened under the dialogs, an operation of a share runs on a  *)
(* card that is still there, and on no other than the one it listed the    *)
(* certificates of.                                                        *)
OperationsOnLiveCards ==
    \A j \in Jobs : share[j].op # None =>
        /\ share[j].op = share[j].started
        /\ share[j].op = share[j].card
        /\ CardPresent(slot, share[j].op)

(* A share that asked which card signs starts on the card whose row was    *)
(* taken; should the agent have restarted under the dialog, at least on a  *)
(* card that sits in the reader of that row's name.  Either can sign.      *)
Started(j, r, row) ==
    /\ slot[r] = share'[j].started
    /\ NameOf[r] = row.name
    /\ Pki \in caps[slot[r]]
    /\ ~share[j].restarted => slot[r] = row.card

StartsAsPicked ==
    [][ \A j \in Jobs :
          share[j].phase = "choosing" /\ share'[j].phase = "certificates" =>
            \E row \in share[j].choices, r \in readers :
               row.card = share'[j].picked /\ Started(j, r, row) ]_vars

(* The shares implement SignPromise: each reports once, and has saved a    *)
(* file exactly when it reported success.                                  *)
Stage(s) ==
    IF s.outcome # "none" THEN s.outcome
    ELSE IF s.started # None THEN "running" ELSE "asked"

Promise == INSTANCE SignPromise WITH
    stage <- [j \in Jobs |-> Stage(share[j])],
    signer <- [j \in Jobs |-> share[j].started],
    wrote <- [j \in Jobs |-> share[j].wrote]

ImplementsSignPromise == Promise!Spec

(* A started share does not hang: it comes to its end, or to its dialog,   *)
(* unless its card was destroyed with the terminal of its operation        *)
(* undelivered.                                                            *)
Undelivered(s) == s.phase \in {"certificates", "signing"} /\ s.op = None

SharesEnd ==
    \A j \in Jobs : share[j].started # None ~>
        share[j].outcome # "none" \/ share[j].phase = "picking" \/ Undelivered(share[j])

-----------------------------------------------------------------------------
(* What the repository's comments say, and the code does not do.           *)

(* CardSelection: refuse, rather than sign with an identity the user did   *)
(* not pick.                                                               *)
SignsOnlyWithThePick ==
    \A j \in Jobs : share[j].picked # None => share[j].started = share[j].picked
=============================================================================
