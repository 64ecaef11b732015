------------------------ MODULE CredentialController ------------------------
(***************************************************************************)
(* The credentials window: CredentialController, its CredentialModel and   *)
(* the parts of its QML that decide which handler can run when.            *)
(*                                                                         *)
(* The window is one thread.  Every handler runs to its end before the     *)
(* next event is delivered, so a handler is one action; what interleaves   *)
(* is registry events, terminals of operations, clicks and second          *)
(* launches.  The window's members are one record, win, and a handler (or  *)
(* a helper it calls) is an operator from the record before to the record  *)
(* after, composed in the order of the code's calls.                       *)
(*                                                                         *)
(* An agent operation is the card it runs on and whether the agent was     *)
(* sent a Cancel for it.  A call the agent refuses at method entry is an   *)
(* operation too: its terminal is queued, so it is delivered by a later    *)
(* event like any other, and a card that goes first takes it along         *)
(* undelivered.                                                            *)
(***************************************************************************)
EXTENDS AgentRegistry

VARIABLES
    started,    \* the first, queued refresh has run (the event loop is live)
    win         \* the members of the controller, and what its QML holds

vars == <<avail, readers, slot, caps, started, win>>

PinManagement == "PinManagement"

State == {"AgentUnavailable", "NoCard", "NotManageable", "Loading", "Ready",
          "Empty", "Working", "Result", "ReadFailed"}

(* Main.qml keeps the dashboard loaded in these states only.               *)
DashboardState == {"Ready", "Working", "Result"}

Operation == [card : Cards, cancelSent : BOOLEAN]

(* The rows of the CredentialModel: the card they were listed from, and    *)
(* whether the agent's listing is still the one they came from.            *)
Rows == [card : Cards, fresh : BOOLEAN]

ASSUME ControllerAssumption ==
    /\ None \notin Operation
    /\ None \notin Rows
    /\ PinManagement \in Caps

Window == [
    readerId : Readers \cup {None},     \* explicit target (m_readerId)
    resolved : Readers \cup {None},     \* m_resolvedReaderId
    card : Cards \cup {None},
    listOp : Operation \cup {None},
    mutationOp : Operation \cup {None},
    state : State,
    listSettled : BOOLEAN,
    listCancelRequested : BOOLEAN,
    mutationCancelRequested : BOOLEAN,
    showingResult : BOOLEAN,
    rows : Rows \cup {None},
    banner : {"none", "notice", "error"},   \* resultMessage / resultIsError
    removalNotice : BOOLEAN,
    agentStarting : BOOLEAN,
    sheet : Cards \cup {None},          \* card whose PIN the unblock sheet names
    letGo : SUBSET Operation,           \* dropped operations the agent still runs
    deferred : BOOLEAN,                 \* history: a refresh stopped at a live verb
    readStopped : BOOLEAN ]             \* history: the user cancelled the last read

TypeOK ==
    /\ RegistryTypeOK
    /\ started \in BOOLEAN
    /\ win \in Window

Init ==
    /\ RegistryInit
    /\ started = FALSE
    /\ win = [readerId |-> None, resolved |-> None, card |-> None,
              listOp |-> None, mutationOp |-> None, state |-> "NoCard",
              listSettled |-> FALSE, listCancelRequested |-> FALSE,
              mutationCancelRequested |-> FALSE, showingResult |-> FALSE,
              rows |-> None, banner |-> "none", removalNotice |-> FALSE,
              agentStarting |-> FALSE, sheet |-> None, letGo |-> {},
              deferred |-> FALSE, readStopped |-> FALSE]

-----------------------------------------------------------------------------
(* Helpers of the controller.                                              *)

(* The sheet is a child of the dashboard and goes with it.                 *)
TransitionTo(w, next) ==
    [w EXCEPT !.state = next,
              !.sheet = IF next \in DashboardState THEN @ ELSE None]

AbandonedSilently(op) == IF op = None THEN {} ELSE {op}    \* faulty: no Cancel sent

AbandonedUnguarded(op) == {op}      \* faulty: a null pointer is let go of too

(* Disconnect, send the agent a Cancel, forget: what is left behind.       *)
Abandoned(op) == IF op = None THEN {} ELSE {[op EXCEPT !.cancelSent = TRUE]}

(* Faulty: the user's cancel outlives its listing.                         *)
ResetListStateKeepingCancel(w) ==
    [w EXCEPT !.letGo = @ \cup Abandoned(w.listOp),
              !.listOp = None,
              !.listSettled = FALSE,
              !.showingResult = FALSE]

(* Faulty: a listing counts as settled for the next card too.              *)
ResetListStateKeepingSettled(w) ==
    [w EXCEPT !.letGo = @ \cup Abandoned(w.listOp),
              !.listOp = None,
              !.listCancelRequested = FALSE,
              !.showingResult = FALSE]

ResetListState(w) ==
    [w EXCEPT !.letGo = @ \cup Abandoned(w.listOp),
              !.listOp = None,
              !.listSettled = FALSE,
              !.listCancelRequested = FALSE,
              !.showingResult = FALSE]

DetachMutation(w) ==
    [w EXCEPT !.letGo = @ \cup Abandoned(w.mutationOp),
              !.mutationOp = None,
              !.mutationCancelRequested = FALSE]

BindCard(w, c) ==
    IF c # None /\ w.card = c THEN w
    ELSE LET u == DetachMutation(ResetListState(w)) IN
         [u EXCEPT !.card = c,
                   !.removalNotice = IF c # None THEN FALSE ELSE @]

(* The null branch shared by classify and startListCredentials.            *)
ShowNoSurface(w, next) ==
    TransitionTo([ResetListState(w) EXCEPT !.rows = None], next)

StartListCredentials(w) ==
    IF w.card = None THEN ShowNoSurface(w, "NoCard")
    ELSE IF w.mutationOp # None \/ w.listOp # None \/ w.listSettled THEN w
    ELSE LET u == [w EXCEPT !.listOp = [card |-> w.card, cancelSent |-> FALSE]]
         IN  IF w.showingResult THEN u ELSE TransitionTo(u, "Loading")

(* Capabilities are read as they are after the event.                      *)
Classify(w) ==
    IF w.card = None THEN ShowNoSurface(w, "NoCard")
    ELSE IF ~HasCapability(caps', w.card, PinManagement)
         THEN ShowNoSurface(w, "NotManageable")
         ELSE StartListCredentials(w)

(* Faulty: an explicit reader without a card loses to the fallback.        *)
TargetReaderWithCard(id, rs, s) ==
    IF id # None /\ id \in rs /\ s[id] # None THEN id ELSE FirstReaderWithCard(rs, s)

(* The reader refresh() resolves to: the explicit one when the agent lists *)
(* it, else the first that holds a card.                                   *)
TargetReader(id, rs, s) ==
    IF id # None /\ id \in rs THEN id ELSE FirstReaderWithCard(rs, s)

(* Faulty: no guard on a live verb.                                        *)
RefreshThroughVerb(w) ==
    LET target == TargetReader(w.readerId, readers', slot')
        unbound == BindCard([w EXCEPT !.resolved = None], None)
    IN  IF ~avail' THEN TransitionTo(unbound, "AgentUnavailable")
        ELSE IF target = None THEN TransitionTo(unbound, "NoCard")
        ELSE Classify(BindCard([w EXCEPT !.resolved = target], slot'[target]))

(* Faulty: a bound card is kept, whatever the binding resolves to by now.  *)
RefreshKeepingCard(w) ==
    LET target == TargetReader(w.readerId, readers', slot')
        unbound == BindCard([w EXCEPT !.resolved = None, !.deferred = FALSE], None)
    IN  IF ~avail' THEN TransitionTo(unbound, "AgentUnavailable")
        ELSE IF w.mutationOp # None THEN [w EXCEPT !.deferred = TRUE]
        ELSE IF w.card # None THEN Classify(w)
        ELSE IF target = None THEN TransitionTo(unbound, "NoCard")
        ELSE Classify(BindCard([w EXCEPT !.resolved = target, !.deferred = FALSE],
                               slot'[target]))

Refresh(w) ==
    LET target == TargetReader(w.readerId, readers', slot')
        unbound == BindCard([w EXCEPT !.resolved = None, !.deferred = FALSE], None)
        bound == BindCard([w EXCEPT !.resolved = target, !.deferred = FALSE],
                          slot'[target])
    IN  IF ~avail' THEN TransitionTo(unbound, "AgentUnavailable")
        ELSE IF w.mutationOp # None THEN [w EXCEPT !.deferred = TRUE]
        ELSE IF target = None THEN TransitionTo(unbound, "NoCard")
        ELSE Classify(bound)

(* Faulty: the settled latch of the old rows stops the re-list.            *)
RelistWithoutReset(w) == StartListCredentials([w EXCEPT !.showingResult = TRUE])

(* The mandatory re-list: hold the banner while fresh rows load.           *)
RelistAfterMutation(w) ==
    StartListCredentials([ResetListState(w) EXCEPT !.showingResult = TRUE])

-----------------------------------------------------------------------------
(* Terminals of the list operation.                                        *)

ListStatus == {"Ok", "OkEmpty", "Cancelled", "Error"}

(* Faulty: only a preserved Cancelled status counts as the user's cancel.  *)
OnListFinishedByStatus(w, status) ==
    LET ok == status \in {"Ok", "OkEmpty"}
        u == [w EXCEPT
                !.listOp = None,
                !.listCancelRequested = FALSE,
                !.showingResult = FALSE,
                !.listSettled = ok \/ status = "Cancelled",
                !.rows = IF status = "Ok" THEN [card |-> w.card, fresh |-> TRUE]
                         ELSE None,
                !.readStopped = ~ok /\ w.listOp.cancelSent]
    IN  TransitionTo(u, CASE status = "Ok" -> "Ready"
                          [] status = "OkEmpty" -> "Empty"
                          [] OTHER -> "ReadFailed")

(* Faulty: a failed read falls back on the rows there were.                *)
OnListFinishedKeepingRows(w, status) ==
    LET keeps == status \in {"Cancelled", "Error"} /\ w.rows # None
        u == [w EXCEPT
                !.listOp = None,
                !.listCancelRequested = FALSE,
                !.showingResult = FALSE,
                !.listSettled = TRUE,
                !.rows = IF status = "Ok" THEN [card |-> w.card, fresh |-> TRUE]
                         ELSE IF keeps THEN @ ELSE None]
    IN  TransitionTo(u, CASE status = "Ok" \/ keeps -> "Ready"
                          [] status = "OkEmpty" -> "Empty"
                          [] OTHER -> "ReadFailed")

OnListFinished(w, status) ==
    LET ok == status \in {"Ok", "OkEmpty"}
        u == [w EXCEPT
                !.listOp = None,
                !.listCancelRequested = FALSE,
                !.showingResult = FALSE,
                !.listSettled = ok \/ w.listCancelRequested \/ status = "Cancelled",
                !.rows = IF status = "Ok" THEN [card |-> w.card, fresh |-> TRUE]
                         ELSE None,
                !.readStopped = ~ok /\ w.listOp.cancelSent]
    IN  TransitionTo(u, CASE status = "Ok" -> "Ready"
                          [] status = "OkEmpty" -> "Empty"
                          [] OTHER -> "ReadFailed")

-----------------------------------------------------------------------------
(* Terminals of a mutation.  A refusal the agent names never ran; the two  *)
(* sweeps are manufactured by the client library when a card or the agent  *)
(* goes away.                                                              *)

Ran(status, outcome, code) ==
    [status |-> status, outcome |-> outcome, code |-> code, named |-> "none"]

Refused(name) ==
    [status |-> "Error", outcome |-> "Unspecified", code |-> "Other", named |-> name]

SweepTerminal(code) == Ran("Cancelled", "Unspecified", code)

MutationTerminal ==
    { Ran("Ok", "Ok", "None"),
      Ran("Error", "Failed", "Other"),              \* invalidPin, blocked, ...
      Ran("Cancelled", "UserCancelled", "None"),
      Ran("Cancelled", "Unspecified", "None"),
      Ran("Error", "CardRemoved", "CardRemoved"),   \* the agent's own report
      Ran("Error", "Unspecified", "CommunicationError"),
      Ran("Error", "Unspecified", "Other") }        \* timeout, broken reply
    \cup { Refused(name) : name \in {"UnknownCredential", "RateLimited",
                                     "InvalidRequest", "OtherName"} }

(* Does the terminal say that the listing the rows came from is void?      *)
VoidsListing(t) == t.named \in {"none", "UnknownCredential"}

HandleRefusal(w, name) ==
    LET u == TransitionTo([w EXCEPT !.banner = "notice"], "Result") IN
    IF name \in {"RateLimited", "InvalidRequest"} THEN u
    ELSE RelistAfterMutation(u)

(* Faulty: the terminal alone says whether the user cancelled.             *)
OnMutationDoneByStatus(w, t) ==
    LET cancelled == t.status = "Cancelled" /\ t.code = "None"
        isError == ~cancelled /\ t.outcome \notin {"Ok", "UserCancelled"}
        u == [w EXCEPT !.mutationOp = None, !.mutationCancelRequested = FALSE]
    IN  IF t.named # "none" THEN HandleRefusal(u, t.named)
        ELSE RelistAfterMutation(
               TransitionTo([u EXCEPT !.banner = IF isError THEN "error" ELSE "notice"],
                            "Result"))

OnMutationDone(w, t) ==
    LET sweepTerminated == t.code \in {"CardRemoved", "CommunicationError"}
        cancelled == \/ w.mutationCancelRequested
                     \/ t.status = "Cancelled" /\ ~sweepTerminated
        effective == IF ~cancelled /\ t.outcome = "Unspecified"
                                   /\ t.code = "CardRemoved"
                     THEN "CardRemoved" ELSE t.outcome
        isError == ~cancelled /\ effective \notin {"Ok", "UserCancelled"}
        silent == \/ effective = "UserCancelled"
                  \/ cancelled /\ effective = "Unspecified"
        u == [w EXCEPT !.mutationOp = None,
                       !.mutationCancelRequested = FALSE,
                       !.rows = IF @ # None /\ VoidsListing(t)
                                THEN [@ EXCEPT !.fresh = FALSE] ELSE @]
        shown == TransitionTo([u EXCEPT !.banner = IF isError THEN "error"
                                          ELSE IF silent THEN "none" ELSE "notice"],
                              "Result")
    IN  IF t.named # "none" THEN HandleRefusal(u, t.named)
        ELSE IF effective = "CardRemoved" THEN [shown EXCEPT !.removalNotice = TRUE]
        ELSE RelistAfterMutation(shown)

-----------------------------------------------------------------------------
(* Cards that go away.  The library ends the live operations of a lost     *)
(* card (told: unless their terminal was already queued, as for a refused  *)
(* call), destroys the card and its operations, and only then signals.     *)

SweepList(w, lost, told) ==
    IF w.listOp = None \/ w.listOp.card \notin lost \/ ~told THEN w
    ELSE OnListFinished(w, "Cancelled")

SweepMutation(w, lost, code, told) ==
    IF w.mutationOp = None \/ w.mutationOp.card \notin lost \/ ~told THEN w
    ELSE OnMutationDone(w, SweepTerminal(code))

(* The controller's QPointers null themselves.                             *)
Destroy(w, lost) ==
    LET gone(op) == op # None /\ op.card \in lost IN
    [w EXCEPT !.card = IF @ \in lost THEN None ELSE @,
              !.listOp = IF gone(@) THEN None ELSE @,
              !.mutationOp = IF gone(@) THEN None ELSE @,
              !.letGo = {op \in @ : op.card \notin lost}]

LoseCards(w, lost, code, told) ==
    Refresh(Destroy(SweepMutation(SweepList(w, lost, told), lost, code, told), lost))

-----------------------------------------------------------------------------
(* The event loop.                                                         *)

(* The refresh the constructor queued.                                     *)
FirstRefresh ==
    /\ ~started
    /\ started' = TRUE
    /\ UNCHANGED registry
    /\ win' = Refresh(win)

(* Faulty: the abandoned verb's list state is left settled.                *)
BindReaderKeepingList(id) ==
    LET retarget == win.mutationOp # None /\ id # win.resolved
        w == IF retarget THEN DetachMutation(win) ELSE win
    IN  /\ UNCHANGED <<registry, started>>
        /\ win' = Refresh([w EXCEPT !.readerId = id])

(* --reader at launch, before the loop runs, or of a second launch.        *)
BindReader(id) ==
    LET retarget == win.mutationOp # None /\ id # win.resolved
        w == IF retarget THEN ResetListState(DetachMutation(win)) ELSE win
    IN  /\ UNCHANGED <<registry, started>>
        /\ win' = Refresh([w EXCEPT !.readerId = id])

ListFinished(status) ==
    /\ win.listOp # None
    /\ UNCHANGED registry
    /\ win' = OnListFinished(win, status)

MutationFinished(t) ==
    /\ win.mutationOp # None
    /\ UNCHANGED registry
    /\ win' = OnMutationDone(win, t)

(* The agent is done with an operation the window let go of.               *)
LetGoEnds(op) ==
    /\ UNCHANGED registry
    /\ win' = [win EXCEPT !.letGo = @ \ {op}]

(* The Loading page and the Working scrim offer Cancel.                    *)
Cancel ==
    /\ win.state \in {"Loading", "Working"}
    /\ UNCHANGED registry
    /\ win' = [win EXCEPT
          !.mutationCancelRequested = @ \/ win.mutationOp # None,
          !.mutationOp = IF @ = None THEN None ELSE [@ EXCEPT !.cancelSent = TRUE],
          !.listCancelRequested = @ \/ win.listOp # None,
          !.listOp = IF @ = None THEN None ELSE [@ EXCEPT !.cancelSent = TRUE]]

CanStartMutation == win.card # None /\ win.mutationOp = None

(* Faulty: the pending re-list stays in flight beside the verb.            *)
BeginMutationBesideList(w) ==
    TransitionTo([w EXCEPT !.removalNotice = FALSE,
                           !.mutationOp = [card |-> w.card, cancelSent |-> FALSE],
                           !.mutationCancelRequested = FALSE],
                 "Working")

BeginMutation(w) ==
    LET u == IF w.listOp # None THEN ResetListState(w) ELSE w IN
    TransitionTo([u EXCEPT !.removalNotice = FALSE,
                           !.mutationOp = [card |-> w.card, cancelSent |-> FALSE],
                           !.mutationCancelRequested = FALSE],
                 "Working")

(* The list takes input while the dashboard shows it, no scrim covers it   *)
(* and no sheet is over it.                                                *)
ListTakesInput ==
    /\ win.state \in {"Ready", "Result"}
    /\ win.rows # None
    /\ win.sheet = None

(* changePin, activate, activateSigningKey                                 *)
StartVerb ==
    /\ ListTakesInput
    /\ CanStartMutation
    /\ UNCHANGED registry
    /\ win' = BeginMutation(win)

RequestUnblock ==
    /\ ListTakesInput
    /\ CanStartMutation
    /\ UNCHANGED registry
    /\ win' = [win EXCEPT !.sheet = win.rows.card]

ConfirmUnblock ==
    /\ win.sheet # None
    /\ UNCHANGED registry
    /\ win' = [(IF CanStartMutation THEN BeginMutation(win) ELSE win)
                 EXCEPT !.sheet = None]

DismissSheet ==
    /\ win.sheet # None
    /\ UNCHANGED registry
    /\ win' = [win EXCEPT !.sheet = None]

StartAgent ==
    /\ win.state = "AgentUnavailable"
    /\ ~win.agentStarting
    /\ UNCHANGED registry
    /\ win' = [win EXCEPT !.agentStarting = TRUE]

AgentStartFinished ==
    /\ win.agentStarting
    /\ UNCHANGED registry
    /\ win' = Refresh([win EXCEPT !.agentStarting = FALSE])

(* A registry signal that changes nothing here: a relabel, another window. *)
Relabel ==
    /\ UNCHANGED registry
    /\ win' = Refresh(win)

RegistryGain ==
    /\ \/ AgentAppears
       \/ \E r \in Readers : ReaderArrives(r)
       \/ \E r \in Readers, c \in Cards, bits \in SUBSET Caps : CardArrives(r, c, bits)
    /\ win' = Refresh(win)

RegistryLoss ==
    \E told \in BOOLEAN :
        \/ /\ AgentVanishes
           /\ win' = LoseCards(win, Cards, "CommunicationError", told)
        \/ \E r \in Readers :
              /\ ReaderLeaves(r) \/ CardLeaves(r)
              /\ win' = LoseCards(win, {slot[r]}, "CardRemoved", told)

(* AgentCard::changed reaches classify directly, past refresh()'s guard.   *)
CardChanged ==
    \E c \in Cards, bits \in SUBSET Caps :
        /\ CapsChange(c, bits)
        /\ win' = IF win.card = c THEN Classify(win) ELSE win

Click == Cancel \/ StartVerb \/ RequestUnblock \/ ConfirmUnblock \/ DismissSheet \/ StartAgent

ListAnswer == \E status \in ListStatus : ListFinished(status)
MutationAnswer == \E t \in MutationTerminal : MutationFinished(t)

RegistryEvent == RegistryGain \/ RegistryLoss \/ CardChanged \/ Relabel

Next ==
    \/ FirstRefresh
    \/ \E id \in Readers \cup {None} : BindReader(id)
    \/ /\ started
       /\ UNCHANGED started
       /\ \/ ListAnswer
          \/ MutationAnswer
          \/ \E op \in win.letGo : LetGoEnds(op)
          \/ Click
          \/ AgentStartFinished
          \/ RegistryEvent

Fairness ==
    /\ WF_vars(started /\ UNCHANGED started /\ ListAnswer)
    /\ WF_vars(started /\ UNCHANGED started /\ MutationAnswer)
    /\ WF_vars(FirstRefresh)

Spec == Init /\ [][Next]_vars

FairSpec == Spec /\ Fairness

-----------------------------------------------------------------------------
(* Properties.                                                             *)

(* A live operation runs on the bound card, and never two at once: a verb  *)
(* and a listing on one card would race for the agent's prompter.          *)
OneOperationOnTheBoundCard ==
    /\ win.listOp # None => win.listOp.card = win.card
    /\ win.mutationOp # None => win.mutationOp.card = win.card
    /\ win.listOp = None \/ win.mutationOp = None

(* The two cancel-request flags say exactly whether the live operation was *)
(* cancelled by the user: none leaks past its operation into the next      *)
(* listing (which it would latch) or verb (whose failure it would hide).   *)
CancelFlagsMatchOperations ==
    /\ win.listCancelRequested <=> (win.listOp # None /\ win.listOp.cancelSent)
    /\ win.mutationCancelRequested
         <=> (win.mutationOp # None /\ win.mutationOp.cancelSent)

(* The window never strands behind a spinner or a scrim whose Cancel is    *)
(* dead: Working has its verb and Loading its listing, whatever re-binds   *)
(* or registry events did to them.                                         *)
BusyViewHasOperation ==
    /\ win.state = "Working" => win.mutationOp # None
    /\ win.state = "Loading" => win.listOp # None

(* The dashboard never offers a card's PINs over another card: the rows it *)
(* shows and the id an open unblock sheet holds are the bound card's.      *)
DashboardShowsBoundCard ==
    /\ win.state \in DashboardState /\ win.rows # None => win.rows.card = win.card
    /\ win.sheet # None => win.sheet = win.card

(* No operation is let go of while the agent may still prompt for it.      *)
NoPromptLeftBehind == \A op \in win.letGo : op.cancelSent

(* The window manages the card its binding resolves to; only a signal that *)
(* a live verb deferred can have left it with another.                     *)
BindingFollowsRegistry ==
    started /\ avail /\ ~win.deferred =>
        /\ win.resolved = TargetReader(win.readerId, readers, slot)
        /\ win.card = IF win.resolved = None THEN None ELSE slot[win.resolved]

(* Rows the window calls Ready were listed after every verb that voided    *)
(* the agent's listing.                                                    *)
ReadyRowsAreFresh == win.state = "Ready" => win.rows # None /\ win.rows.fresh

(* While a verb runs and its card stays, no registry event touches the     *)
(* binding or the verb: not a card in a reader earlier in the order, not   *)
(* the explicit reader coming back.                                        *)
VerbUntouched ==
    RegistryEvent /\ win.mutationOp # None /\ CardPresent(slot', win.mutationOp.card)
      => /\ win'.mutationOp = win.mutationOp
         /\ win'.card = win.card
         /\ win'.resolved = win.resolved

RegistryNeverRetargetsVerb == [][VerbUntouched]_vars

Lists == win'.listOp # None /\ (win.listOp = None \/ win.listOp.card # win'.listOp.card)

(* A read the user cancelled is not started again, prompting again, until  *)
(* another card is bound, a capability changed or the user re-targets a    *)
(* running verb: no relabel, arrival or restart of anything else does it.  *)
CancelledReadStaysCancelled ==
    [][ win.state = "ReadFailed" /\ win.readStopped /\ Lists
          => win'.card # win.card ]_vars

(* When the agent lists the explicit reader, no other reader's card is     *)
(* probed (and prompted for), from the launch on, except on a binding that *)
(* a signal deferred by a live verb has left behind.                       *)
ExplicitReaderIsListedFirst ==
    [][ Lists /\ ~win.deferred /\ win'.readerId \in readers'
          => slot'[win'.readerId] = win'.listOp.card ]_vars

(* A verb that voided the listing leaves no stale rows behind unattended:  *)
(* the step that ends it starts the re-list, unless the card is reported   *)
(* gone.                                                                   *)
RelistFollowsVerb ==
    [][ win.mutationOp # None /\ win'.mutationOp = None /\ win'.card = win.card
        /\ win'.rows # None /\ win.rows.fresh /\ ~win'.rows.fresh
          => win'.listOp # None \/ win'.removalNotice ]_vars

(* The window implements VerbSession.                                      *)
Session == INSTANCE VerbSession WITH
    running <- IF win.mutationOp = None THEN None ELSE win.mutationOp.card,
    cancelled <- win.mutationOp # None /\ win.mutationOp.cancelSent,
    verdict <- win.banner

(* A refinement: verdicts come one per verb, never from an abandoned one,  *)
(* and never red after a cancel.                                           *)
ImplementsVerbSession == Session!Spec

(* The window does not stay busy: provided the agent ends every operation  *)
(* (the library ends silent ones), Working and Loading are left.           *)
WindowSettles ==
    win.state \in {"Working", "Loading"} ~> win.state \notin {"Working", "Loading"}

-----------------------------------------------------------------------------
(* What the repository's comments say, and the code does not do.           *)

(* Dashboard.qml: no action can be started until the mutation finishes and *)
(* the mandatory re-list has refreshed the rows.                           *)
VerbsStartOnFreshRows ==
    [][ win.mutationOp = None /\ win'.mutationOp # None => win.rows.fresh ]_vars

(* CredentialController::refresh: the explicit binding stays sticky and    *)
(* wins again once it resolves.                                            *)
ExplicitBindingWins ==
    started /\ avail /\ win.mutationOp = None /\ win.readerId \in readers
        => win.resolved = win.readerId

(* removalNotice: a card removed mid-verb lands the window in NoCard, with *)
(* the truthful outcome as its explanation.                                *)
RemovalMidVerbIsExplained ==
    [][ win.mutationOp # None /\ ~win.mutationCancelRequested
        /\ win'.mutationOp = None /\ win'.banner = "error"
        /\ avail' /\ ~CardPresent(slot', win.mutationOp.card)
          => win'.state = "NoCard" /\ win'.removalNotice ]_vars
=============================================================================
