-------------------------- MODULE SmartCardHandler --------------------------
(***************************************************************************)
(* One smart-card widget: SmartCardHandler and the QML that decides which  *)
(* of its invokables can be called when.  The handler follows one reader   *)
(* (bound by configuration, or the first that holds a card), classifies    *)
(* the card in it, reads the holder's identity and photo on request (or    *)
(* freely, for an open popup and a card with no secret to ask), and keeps  *)
(* one signing entry per reader.                                           *)
(*                                                                         *)
(* As in the credentials window, the widget is one thread: a handler is    *)
(* one action, an operator from the record of members before to the one    *)
(* after.  SignJob is seen through its promise here: a job ends once, with *)
(* an outcome, unless the card is destroyed before the terminal reaches    *)
(* it (SigningFlow models the job itself).                                 *)
(*                                                                         *)
(* Of the other widgets in its process it sees the answers to their starts *)
(* of the agent (AgentStart).                                              *)
(***************************************************************************)
EXTENDS AgentStart

CONSTANTS
    Names,      \* friendly names of readers: what the widget binds and keys by
    NameOf,     \* the name of each reader (two readers may share one)
    SameUnit,   \* pairs of names whose serial says they are one physical reader
    Profiles,   \* the sets of bits a card may advertise
    Deferring   \* readers whose cards may be reported before they are published

(* What a card advertises: its capabilities, and whether it announces a    *)
(* pre-read unlock (preReadUnlockRequired).                                *)
Identity == "IdentityData"
Pki == "Pki"
PinManagement == "PinManagement"
Unlock == "PreReadUnlock"

ASSUME HandlerAssumption ==
    /\ NameOf \in [Readers -> Names]
    /\ SameUnit \subseteq Names \X Names
    /\ Profiles \subseteq SUBSET Caps
    /\ Deferring \subseteq Readers
    /\ {Identity, Pki, PinManagement, Unlock} \subseteq Caps
    /\ None \notin Names

VARIABLES
    seated,     \* readers that report a card (HasCard) the agent has not published
    wid         \* the members of the handler, and what its QML holds

vars == <<avail, readers, slot, caps, seated, client, wid>>

(* All a handler sees but does not change.                                 *)
world == <<registry, seated, client>>

State == {"NoCard", "PreAuthRequired", "IdentityOnly", "PkiOnly", "Hybrid",
          "Error", "UnknownCard", "AgentUnavailable"}

Outcome == {"none", "succeeded", "failed"}

(* A ReaderSignState under its reader's name: is its job live, the card it *)
(* was started on (None once destroyed), its last outcome.  For the        *)
(* properties it remembers which card it is about ("of", however the       *)
(* pointer fared since) and which the user asked to sign with.             *)
SignEntry == [name : Names, job : BOOLEAN, card : Cards \cup {None},
              outcome : Outcome, of : Cards \cup {None}, asked : Cards \cup {None}]

(* signingBusy and signResult, as the QML last saw them.                   *)
Surface == [busy : BOOLEAN, outcome : Outcome, of : Cards \cup {None}]

NoSurface == [busy |-> FALSE, outcome |-> "none", of |-> None]

Widget == [
    bound : Names \cup {None},          \* m_boundReaderName, None in Auto mode
    boundPresent : BOOLEAN,             \* m_boundReaderPresent
    selected : Names \cup {None},       \* m_selectedReaderName
    readerName : Names \cup {None},
    card : Cards \cup {None},
    identityOp : Cards \cup {None},     \* the card a live identity read is on
    photoOp : Cards \cup {None},
    identityRead : BOOLEAN,
    identity : Cards \cup {None},       \* the card the identity rows came from
    photo : Cards \cup {None},          \* the card the photo came from
    busy : BOOLEAN,
    error : Cards \cup {None},          \* the card errorMessage is about
    state : State,
    pinManagement : BOOLEAN,            \* m_pinManagementAvailable
    viewActive : BOOLEAN,
    detected : BOOLEAN,                 \* m_cardDetected
    installed : BOOLEAN,                \* m_agentInstalled
    starting : BOOLEAN,                 \* m_agentStarting
    signs : SUBSET SignEntry,           \* m_signStates
    published : Surface,
    dialog : Cards \cup {None},         \* card the open file dialog was opened for
    photoDialog : Cards \cup {None} ]   \* card whose photo the open one is to save

TypeOK ==
    /\ RegistryTypeOK
    /\ AgentStartTypeOK
    /\ seated \in SUBSET Deferring
    /\ \A r \in seated : r \in readers /\ slot[r] = None
    /\ wid \in Widget
    /\ \A e, f \in wid.signs : e.name = f.name => e = f

-----------------------------------------------------------------------------
(* Which reader the widget reflects.                                       *)

Listed(n) == \E r \in readers' : NameOf[r] = n

(* readerWithCardByName                                                    *)
WithCardByName(n) == FirstReaderWithCard({r \in readers' : NameOf[r] = n}, slot')

SameUnitWithCard(n) ==
    FirstReaderWithCard({r \in readers' : <<n, NameOf[r]>> \in SameUnit}, slot')

(* Faulty: a sibling interface stands in for a listed, card-less reader.   *)
PickActiveReaderOfUnit(w) ==
    IF w.bound # None
    THEN IF WithCardByName(w.bound) # None THEN WithCardByName(w.bound)
         ELSE SameUnitWithCard(w.bound)
    ELSE IF w.selected # None /\ WithCardByName(w.selected) # None
         THEN WithCardByName(w.selected)
         ELSE FirstReaderWithCard(readers', slot')

PickActiveReader(w) ==
    IF w.bound # None
    THEN IF WithCardByName(w.bound) # None THEN WithCardByName(w.bound)
         ELSE IF Listed(w.bound) THEN None
         ELSE SameUnitWithCard(w.bound)
    ELSE IF w.selected # None /\ WithCardByName(w.selected) # None
         THEN WithCardByName(w.selected)
         ELSE FirstReaderWithCard(readers', slot')

(* Faulty: a seated card counts whichever interface of the unit it is in.  *)
CardDetectedInUnit(w) ==
    IF w.bound # None
    THEN \E r \in seated' : NameOf[r] = w.bound \/ <<w.bound, NameOf[r]>> \in SameUnit
    ELSE seated' # {}

(* computeCardDetected: will pickActiveReader have a card here once the    *)
(* agent publishes it?  Of several readers of the bound name, the first    *)
(* answers.                                                                *)
CardDetected(w) ==
    IF w.bound = None THEN seated' # {}
    ELSE IF Listed(w.bound)
         THEN \E r \in seated' : /\ NameOf[r] = w.bound
                                 /\ \A q \in readers' : NameOf[q] = w.bound => r <= q
    ELSE \E r \in seated' : <<w.bound, NameOf[r]>> \in SameUnit

(* The master-detail view replaces the single detail, its file dialogs     *)
(* included, when Auto mode holds two cards.                               *)
MultiCard(bound, rs, s) ==
    /\ bound = None
    /\ \E r, q \in rs : r # q /\ s[r] # None /\ s[q] # None

-----------------------------------------------------------------------------
(* The signing surfaces.                                                   *)

(* Faulty: a card swapped into the reader inherits its entry.              *)
ActiveEntriesOfReader(w) == {e \in w.signs : e.name = w.readerName}

(* activeSignState: the entry of the displayed reader, for its card only.  *)
ActiveEntries(w) == {e \in w.signs : e.name = w.readerName /\ e.card = w.card}

ActiveSurface(w) ==
    IF ActiveEntries(w) = {} THEN NoSurface
    ELSE LET e == CHOOSE e \in ActiveEntries(w) : TRUE
         IN  [busy |-> e.job, outcome |-> e.outcome, of |-> e.of]

PublishSignSurfaces(w) == [w EXCEPT !.published = ActiveSurface(w)]

(* updateBoundReaderPresent: by name, or as the same unit re-enumerated.   *)
BoundReaderPresent(w) ==
    /\ w.bound # None
    /\ Listed(w.bound) \/ \E n \in Names : <<w.bound, n>> \in SameUnit /\ Listed(n)

(* updateReaderRosters: departed readers are forgotten, but for a running  *)
(* sign, and the presence of the bound one is looked up again.             *)
UpdateReaderRosters(w) ==
    [w EXCEPT !.signs = {e \in @ : e.job \/ Listed(e.name)},
              !.boundPresent = BoundReaderPresent(w)]

-----------------------------------------------------------------------------
(* Binding, reading, classification.                                       *)

(* Faulty: null is taken for the same card.                                *)
BindCardUnlessSame(w, c) ==
    IF w.card = c THEN w
    ELSE [w EXCEPT !.busy = IF w.identityOp # None THEN FALSE ELSE @,
                   !.identityOp = None, !.photoOp = None, !.card = c,
                   !.identityRead = FALSE, !.photo = None, !.identity = None]

(* Faulty: the reads of the old card stay in flight.                       *)
BindCardKeepingReads(w, c) ==
    IF c # None /\ w.card = c THEN w
    ELSE [w EXCEPT !.card = c, !.identityRead = FALSE, !.photo = None,
                   !.identity = None]

(* Faulty: the pre-read latch survives the card it was earned on.          *)
BindCardKeepingLatch(w, c) ==
    IF c # None /\ w.card = c THEN w
    ELSE [w EXCEPT !.busy = IF w.identityOp # None THEN FALSE ELSE @,
                   !.identityOp = None, !.photoOp = None, !.card = c,
                   !.photo = None, !.identity = None]

BindCard(w, c) ==
    IF c # None /\ w.card = c THEN w
    ELSE [w EXCEPT !.busy = IF w.identityOp # None THEN FALSE ELSE @,
                   !.identityOp = None, !.photoOp = None, !.card = c,
                   !.identityRead = FALSE, !.photo = None, !.identity = None]

UpdatePinManagement(w) ==
    [w EXCEPT !.pinManagement =
        w.card # None /\ HasCapability(caps', w.card, PinManagement)]

UnlockRequired(w) == HasCapability(caps', w.card, Unlock)

ReadIdentity(w) ==
    IF w.card = None \/ w.identityOp # None THEN w
    ELSE [w EXCEPT !.error = None, !.identityOp = w.card, !.busy = TRUE]

EnsureFreeRead(w) ==
    IF \/ w.card = None \/ UnlockRequired(w) \/ w.identityRead
       \/ w.identityOp # None \/ w.state \notin {"IdentityOnly", "Hybrid"}
    THEN w
    ELSE ReadIdentity(w)

(* What resolveCardState makes of a present card, and fromUiState of that. *)
CardState(w) ==
    LET has(cap) == HasCapability(caps', w.card, cap) IN
    IF UnlockRequired(w) /\ ~w.identityRead THEN "PreAuthRequired"
    ELSE IF has(Identity) THEN IF has(Pki) THEN "Hybrid" ELSE "IdentityOnly"
    ELSE IF has(Pki) THEN "PkiOnly"
    ELSE IF has(PinManagement) THEN "Error"
    ELSE "UnknownCard"

(* classifyActiveCard up to its read; refresh's empty branches end so too.  *)
Classified(w) ==
    [UpdatePinManagement(w) EXCEPT !.state = IF w.card = None THEN "NoCard" ELSE CardState(w)]

(* Faulty: classification reads for a popup nobody opened.                 *)
ClassifyAndRead(w) == EnsureFreeRead(Classified(w))

ClassifyActiveCard(w) == IF w.viewActive THEN EnsureFreeRead(Classified(w)) ELSE Classified(w)

(* Faulty: the launcher keeps the last card's answer in the empty states.  *)
ShowNoCardKeepingPin(w, installed) ==
    [w EXCEPT !.error = None, !.identityRead = FALSE,
              !.state = IF avail' THEN "NoCard" ELSE "AgentUnavailable",
              !.readerName = IF avail' THEN w.bound ELSE None,
              !.detected = avail' /\ CardDetected(w),
              !.installed = installed]

(* Whether the agent is installed, which is asked while it is not there.   *)
AgentState(w) == IF avail' THEN {w.installed} ELSE Installations

(* The card-less branches of refresh, once the card is unbound: the agent  *)
(* is not there, or no reader to reflect holds a card.                     *)
ShowNoCard(w, installed) ==
    [UpdatePinManagement(w) EXCEPT
        !.error = None, !.identityRead = FALSE,
        !.state = IF avail' THEN "NoCard" ELSE "AgentUnavailable",
        !.readerName = IF avail' THEN w.bound ELSE None,
        !.detected = avail' /\ CardDetected(w),
        !.installed = installed]

(* The branch for a reader that holds a card, once that card is bound.     *)
ShowReader(w, r) ==
    [ClassifyActiveCard(w) EXCEPT !.detected = FALSE, !.readerName = NameOf[r]]

(* Faulty: only a change of the page closes the dialog.                    *)
PageFollowsState(w, v) ==
    [v EXCEPT !.photoDialog = IF v.state = w.state THEN @ ELSE None]

(* From w to v: PhotoSaveAction outlives the page of a card, so it closes  *)
(* its dialog when the page or the reader changes.                         *)
PageFollows(w, v) ==
    [v EXCEPT !.photoDialog =
        IF v.state = w.state /\ v.readerName = w.readerName THEN @ ELSE None]

(* A view that is swapped takes its dialogs with it.                       *)
Rendered(w) ==
    IF MultiCard(wid.bound, readers, slot) = MultiCard(w.bound, readers', slot')
    THEN w
    ELSE [w EXCEPT !.dialog = None, !.photoDialog = None]

(* refresh; the steps of a handler are bound one by one, in their order.   *)
Refresh(w) ==
    \E r \in {PickActiveReader(w)}, installed \in AgentState(w) :
        \E b \in {BindCard(UpdateReaderRosters(w), IF r = None THEN None ELSE slot'[r])} :
            \E v \in {IF r = None THEN ShowNoCard(b, installed) ELSE ShowReader(b, r)} :
                wid' = PublishSignSurfaces(Rendered(PageFollows(w, v)))

Idle == [bound |-> None, boundPresent |-> FALSE, selected |-> None, readerName |-> None, card |-> None,
         identityOp |-> None, photoOp |-> None, identityRead |-> FALSE,
         identity |-> None, photo |-> None, busy |-> FALSE, error |-> None,
         state |-> "NoCard", pinManagement |-> FALSE, viewActive |-> FALSE,
         detected |-> FALSE, installed |-> FALSE, starting |-> FALSE,
         signs |-> {}, published |-> NoSurface,
         dialog |-> None, photoDialog |-> None]

(* The constructor refreshes at once; a widget starts beside an agent that *)
(* lists nothing yet, or is not there.                                     *)
Init ==
    /\ RegistryTypeOK
    /\ readers = {}
    /\ slot = [r \in Readers |-> None]
    /\ \A c \in Cards : caps[c] = {}
    /\ seated = {}
    /\ AgentStartInit
    /\ \/ avail /\ wid = Idle
       \/ /\ ~avail
          /\ \E installed \in Installations :
                wid = [Idle EXCEPT !.state = "AgentUnavailable", !.installed = installed]

-----------------------------------------------------------------------------
(* Terminals.                                                              *)

ReadTerminal == {"Ok", "Dismissed", "Failed"}

StartPhotoRead(w) ==
    IF w.card = None \/ w.photoOp # None THEN w ELSE [w EXCEPT !.photoOp = w.card]

OnOperationFinished(w, t) ==
    LET u == [w EXCEPT !.identityOp = None, !.busy = FALSE] IN
    CASE t = "Dismissed" -> ClassifyActiveCard([u EXCEPT !.error = None])
      [] t = "Failed" -> [u EXCEPT !.error = w.card, !.state = "Error"]
      [] t = "Ok" -> StartPhotoRead(ClassifyActiveCard(
                       [u EXCEPT !.identityRead = TRUE, !.identity = w.identityOp]))

OnPhotoFinished(w, found) ==
    [w EXCEPT !.photoOp = None,
              !.photo = IF found THEN w.photoOp ELSE @]

Ended(e, outcome) == [e EXCEPT !.job = FALSE, !.outcome = outcome]

OnSignEnded(w, e, outcome) ==
    PublishSignSurfaces([w EXCEPT !.signs = (@ \ {e}) \cup {Ended(e, outcome)}])

-----------------------------------------------------------------------------
(* Cards that go away: the library ends the live operations of the card    *)
(* (told: unless a terminal was already queued), destroys it, signals.     *)

Sweep(w, lost, told) ==
    LET u == IF told /\ w.identityOp \in lost
             THEN OnOperationFinished(w, "Failed") ELSE w
        v == IF told /\ w.photoOp \in lost THEN OnPhotoFinished(u, FALSE) ELSE u
        hit(e) == told /\ e.job /\ e.card \in lost
    IN  [v EXCEPT !.signs = {IF hit(e) THEN Ended(e, "failed") ELSE e : e \in @}]

(* The QPointers null themselves, those of the signing entries too.        *)
Destroy(w, lost) ==
    LET null(c) == IF c \in lost THEN None ELSE c IN
    [w EXCEPT !.card = null(@), !.identityOp = null(@), !.photoOp = null(@),
              !.signs = {[e EXCEPT !.card = null(@)] : e \in @}]

LoseCards(lost, told) ==
    \E swept \in {PageFollows(wid, Sweep(wid, lost, told))} :
        \E left \in {Destroy(swept, lost)} : Refresh(left)

(* HasCard follows the card, or lags behind it.                            *)
SeatMayStay(r) == \E also \in {{}, {r} \cap Deferring} : seated' = seated \cup also

RegistryLoss ==
    /\ UNCHANGED client
    /\ \E told \in BOOLEAN :
          \/ AgentVanishes /\ seated' = {} /\ LoseCards(Cards, told)
          \/ \E r \in Readers :
                /\ \/ ReaderLeaves(r) /\ seated' = seated \ {r}
                   \/ CardLeaves(r) /\ SeatMayStay(r)
                /\ LoseCards({slot[r]} \ {None}, told)

RegistryGain ==
    /\ UNCHANGED client
    /\ \/ AgentAppears /\ UNCHANGED seated
       \/ \E r \in Readers : ReaderArrives(r) /\ SeatMayStay(r)
       \/ \E r \in Readers, c \in Cards, bits \in Profiles :
             CardArrives(r, c, bits) /\ seated' = seated \ {r}
    /\ Refresh(wid)

(* A reader reports a card the agent is still resolving, or no longer one. *)
SeatChanged ==
    /\ UNCHANGED <<registry, client>>
    /\ \E r \in readers \cap Deferring :
          /\ slot[r] = None
          /\ seated' = IF r \in seated THEN seated \ {r} ELSE seated \cup {r}
    /\ Refresh(wid)

(* AgentCard::changed goes to classifyActiveCard, not through refresh.     *)
CardChanged ==
    \E c \in Cards, bits \in Profiles :
        /\ CapsChange(c, bits)
        /\ UNCHANGED <<seated, client>>
        /\ wid' = IF wid.card = c THEN PageFollows(wid, ClassifyActiveCard(wid)) ELSE wid

(* A relabel: readersChanged over an unchanged registry.                   *)
Relabel ==
    /\ UNCHANGED world
    /\ Refresh(wid)

IdentityFinished ==
    /\ wid.identityOp # None
    /\ UNCHANGED world
    /\ \E t \in ReadTerminal : wid' = PageFollows(wid, OnOperationFinished(wid, t))

PhotoFinished ==
    /\ wid.photoOp # None
    /\ UNCHANGED world
    /\ \E found \in BOOLEAN : wid' = OnPhotoFinished(wid, found)

(* A job whose card is gone can only fail, if it ends at all.              *)
SignEnded ==
    /\ UNCHANGED world
    /\ \E e \in wid.signs, outcome \in {"succeeded", "failed"} :
          /\ e.job
          /\ e.card = None => outcome = "failed"
          /\ wid' = OnSignEnded(wid, e, outcome)

-----------------------------------------------------------------------------
(* The user.                                                               *)

SetBoundReaderName(n) ==
    /\ n # wid.bound
    /\ UNCHANGED world
    /\ Refresh([wid EXCEPT !.bound = n, !.selected = None])

(* A chip of the master-detail view: a reader that holds a card.           *)
SelectReader(n) ==
    /\ MultiCard(wid.bound, readers, slot)
    /\ \E r \in readers : NameOf[r] = n /\ slot[r] # None
    /\ n # wid.selected
    /\ UNCHANGED world
    /\ Refresh([wid EXCEPT !.selected = n])

SetViewActive(active) ==
    /\ active # wid.viewActive
    /\ UNCHANGED world
    /\ wid' = IF active THEN EnsureFreeRead([wid EXCEPT !.viewActive = TRUE])
              ELSE [wid EXCEPT !.viewActive = FALSE]

(* The Read Card button of the PreAuth page.                               *)
ReadCard ==
    /\ wid.viewActive
    /\ wid.state = "PreAuthRequired"
    /\ ~wid.busy
    /\ UNCHANGED world
    /\ wid' = ReadIdentity(wid)

CanSign == wid.viewActive /\ wid.state \in {"PkiOnly", "Hybrid"}

OpenSignDialog ==
    /\ CanSign
    /\ ~wid.published.busy
    /\ wid.dialog = None
    /\ UNCHANGED world
    /\ wid' = [wid EXCEPT !.dialog = wid.card]

CloseSignDialog ==
    /\ wid.dialog # None
    /\ UNCHANGED world
    /\ wid' = [wid EXCEPT !.dialog = None]

NewSign(w) ==
    [name |-> w.readerName, job |-> w.card # None, card |-> w.card,
     outcome |-> IF w.card = None THEN "failed" ELSE "none", of |-> w.card,
     asked |-> w.dialog]

(* Faulty: the reader's last entry stays beside the new one.               *)
StartSignBeside(w) ==
    PublishSignSurfaces([w EXCEPT !.error = None, !.signs = @ \cup {NewSign(w)}])

StartSign(w) ==
    PublishSignSurfaces([w EXCEPT !.error = None,
        !.signs = {e \in @ : e.name # w.readerName} \cup {NewSign(w)}])

(* Faulty: a second sign takes the entry of a running one.                 *)
SignFileAgain(w) ==
    IF w.readerName = None THEN [w EXCEPT !.error = None] ELSE StartSign(w)

(* signFile: the job is started on the active card; with none it fails at  *)
(* once.  The entry of the empty reader name is never shown, and is left   *)
(* out.                                                                    *)
SignFile(w) ==
    IF w.readerName = None THEN [w EXCEPT !.error = None]
    ELSE IF \E e \in w.signs : e.name = w.readerName /\ e.job THEN w
    ELSE StartSign(w)

AcceptSignDialog ==
    /\ wid.dialog # None
    /\ UNCHANGED world
    /\ wid' = [SignFile(wid) EXCEPT !.dialog = None]

DismissSignResult ==
    /\ CanSign
    /\ wid.published.outcome # "none"
    /\ UNCHANGED world
    /\ wid' = PublishSignSurfaces([wid EXCEPT !.signs =
          {IF e.name = wid.readerName THEN [e EXCEPT !.outcome = "none"] ELSE e : e \in @}])

CanSavePhoto ==
    wid.viewActive /\ wid.state \in {"IdentityOnly", "Hybrid"} /\ wid.photo # None

OpenPhotoDialog ==
    /\ CanSavePhoto
    /\ wid.photoDialog = None
    /\ UNCHANGED world
    /\ wid' = [wid EXCEPT !.photoDialog = wid.photo]

(* savePhoto writes the photo the widget holds by then, and changes none   *)
(* of its members; a rejected dialog writes nothing.                       *)
LeavePhotoDialog ==
    /\ wid.photoDialog # None
    /\ UNCHANGED world
    /\ wid' = [wid EXCEPT !.photoDialog = None]

-----------------------------------------------------------------------------
(* Starting the agent.                                                     *)

(* The Start service button.                                               *)
StartAgent ==
    /\ wid.viewActive
    /\ wid.state = "AgentUnavailable"
    /\ wid.installed
    /\ ~wid.starting
    /\ Ask("widget")
    /\ UNCHANGED <<registry, seated>>
    /\ wid' = [wid EXCEPT !.starting = TRUE]

(* The Refresh button of the empty and the failed pages.                   *)
RequestRefresh ==
    /\ wid.viewActive
    /\ wid.state \in {"AgentUnavailable", "NoCard", "Error"}
    /\ Ask("recheck")
    /\ UNCHANGED <<registry, seated, wid>>

(* Another widget or window of the process, whose agent is gone as well.   *)
SiblingAsks ==
    /\ ~avail
    /\ \E asker \in {"sibling", "recheck"} : Ask(asker)
    /\ UNCHANGED <<registry, seated, wid>>

(* Faulty: the control stays disabled until the start that is under way    *)
(* ends, whoever asked for it.                                             *)
OnAgentStartFinishedByArrival(result) ==
    IF ~wid.starting \/ result = Requested THEN UNCHANGED wid
    ELSE Refresh([wid EXCEPT !.starting = FALSE])

(* Every answer ends the start this widget asked for (that it failed is a  *)
(* note on the page).                                                      *)
OnAgentStartFinished(result) ==
    IF ~wid.starting THEN UNCHANGED wid
    ELSE Refresh([wid EXCEPT !.starting = FALSE])

(* A re-check ends with readersChanged; it is nobody's start.              *)
Hear(asker, result) ==
    IF asker = "recheck" THEN Refresh(wid) ELSE OnAgentStartFinished(result)

RequestRun ==
    /\ UNCHANGED <<registry, seated>>
    /\ \E asker \in Asker, answer \in {None, Started, Requested, Missing} :
          /\ RunRequest(asker, answer)
          /\ IF answer = None THEN UNCHANGED wid ELSE Hear(asker, answer)

StartEnds ==
    /\ UNCHANGED <<registry, seated>>
    /\ \E asker \in Asker : EndWait(asker) /\ Hear(asker, Verdict)

RegistryEvent == RegistryGain \/ RegistryLoss \/ SeatChanged \/ CardChanged \/ Relabel

Next ==
    \/ RegistryEvent
    \/ IdentityFinished
    \/ PhotoFinished
    \/ SignEnded
    \/ \E n \in Names \cup {None} : SetBoundReaderName(n)
    \/ \E n \in Names : SelectReader(n)
    \/ \E active \in BOOLEAN : SetViewActive(active)
    \/ ReadCard
    \/ OpenSignDialog
    \/ CloseSignDialog
    \/ AcceptSignDialog
    \/ DismissSignResult
    \/ OpenPhotoDialog
    \/ LeavePhotoDialog
    \/ StartAgent
    \/ RequestRefresh
    \/ SiblingAsks
    \/ RequestRun
    \/ StartEnds

(* The event loop runs what is queued, and the bus answers every start.    *)
Spec == Init /\ [][Next]_vars /\ WF_vars(RequestRun) /\ WF_vars(StartEnds)

-----------------------------------------------------------------------------
(* Properties.                                                             *)

(* The holder's rows and photo never outlive their card, on screen or in   *)
(* the store: what the widget holds was read from the card it is bound to, *)
(* it holds rows exactly when it says the card was read, and a live read,  *)
(* which will be booked to the bound card, is on that card.                *)
HolderDataOfBoundCard ==
    /\ wid.identity = IF wid.identityRead THEN wid.card ELSE None
    /\ wid.photo # None => wid.photo = wid.card /\ wid.identityRead
    /\ wid.identityOp # None => wid.identityOp = wid.card /\ wid.busy
    /\ wid.photoOp # None => wid.photoOp = wid.card

(* The widget implements HolderView.                                       *)
Holder == INSTANCE HolderView WITH
    shown <- wid.card, reading <- wid.identityOp, rows <- wid.identity, photo <- wid.photo

(* A refinement: rows come from a read of the shown card that ended, are   *)
(* read once, and are lost only with the card; the photo comes after them. *)
ImplementsHolderView == Holder!Spec

(* A bound widget whose reader is listed shows that reader's card or none, *)
(* never a sibling interface's; Auto mode shows a card whenever there is   *)
(* one; and the reader named is the one that holds the card.  The walks    *)
(* over the roster for the card and for the reader agree: a widget showing *)
(* a card never calls its bound reader disconnected.                       *)
CardOfItsReader ==
    /\ wid.card # None =>
        \E r \in readers : slot[r] = wid.card /\ NameOf[r] = wid.readerName
    /\ wid.card # None /\ (\E r \in readers : NameOf[r] = wid.bound)
        => wid.readerName = wid.bound
    /\ wid.bound = None /\ wid.card = None => \A r \in readers : slot[r] = None
    /\ wid.bound # None /\ wid.card # None => wid.boundPresent
    /\ wid.boundPresent => wid.bound # None /\ readers # {}

(* A card that announces an unlock is shown as ready only after a read of  *)
(* that very card went through.                                            *)
UnlockedViewWasRead ==
    wid.state \in {"IdentityOnly", "Hybrid", "PkiOnly"} /\ Unlock \in caps[wid.card]
        => wid.identity = wid.card

(* The launcher of the credentials window is offered exactly while the     *)
(* bound card advertises PIN management, whatever path the change took.    *)
LauncherFollowsCard ==
    wid.pinManagement <=> wid.card # None /\ PinManagement \in caps[wid.card]

(* No card is read for a popup nobody looks at, and none that would raise  *)
(* a prompt unless the user pressed Read Card.                             *)
NoUnaskedRead ==
    [][ wid'.identityOp \notin {None, wid.identityOp}
          => /\ wid'.viewActive
             /\ Unlock \in caps'[wid'.identityOp] => ReadCard ]_vars

(* What the QML last saw of the sign surfaces is what they are; and a      *)
(* sign's spinner and its banner speak for the card that signed: never for *)
(* one swapped into its reader, or shown from another reader.              *)
SurfacesOfTheirCard ==
    /\ wid.published = ActiveSurface(wid)
    /\ wid.card # None /\ wid.published # NoSurface => wid.published.of = wid.card

(* While its card stays, a running sign keeps its entry until it has an    *)
(* outcome to put there: no second sign, re-target or rebind takes it.     *)
RunningSignSurvives ==
    [][ \A e \in wid.signs : e.job /\ CardPresent(slot', e.card) =>
          \E f \in wid'.signs :
             /\ f.name = e.name /\ f.of = e.of /\ f.asked = e.asked
             /\ f.job \/ f.outcome # "none" ]_vars

(* "A card is being detected" is a promise about pickActiveReader: when a  *)
(* card is published in a seated reader, an empty widget shows it only if  *)
(* it announced one, and if it did, and no other reader was seated, it     *)
(* does.                                                                   *)
DetectionForetellsCard ==
    [][ \A r \in seated : wid.state = "NoCard" /\ slot'[r] # None =>
          /\ wid'.card = slot'[r] => wid.detected
          /\ wid.detected /\ seated = {r} => wid'.card = slot'[r] ]_vars

(* An open save dialog does not outlive its card: the photo that would be  *)
(* written is of the card it was opened for (readers bearing names of      *)
(* their own).                                                             *)
PhotoSavedIsTheCardAsked == wid.photoDialog # None => wid.photo = wid.photoDialog

(* The Start service button comes back: whatever else the process asked of *)
(* its client meanwhile, and whether or not the agent ever arrives.        *)
StartAnswered == wid.starting ~> ~wid.starting

-----------------------------------------------------------------------------
(* What the repository's comments say, and the code does not do.           *)

(* busy: true while an agent read is in flight (a latch left behind would  *)
(* disable the Read Card button for good).                                 *)
BusyMeansReading == wid.busy => wid.identityOp # None

(* errorMessage is the widget's card-state surface; an error of one card   *)
(* must not surface on another reader's failed-card page.                  *)
FailedPageOfItsCard == wid.state = "Error" /\ wid.error # None => wid.error = wid.card

(* The sign button chooses a file and signs it with this card.             *)
SignsWithTheCardAsked == \A e \in wid.signs : e.job => e.of = e.asked
=============================================================================
