# LibreKDE in TLA+

LibreKDE is a set of thin KDE Plasma clients of one per-user agent, the
LibreSCRS agent, which owns the smart-card readers. The agent is reached over
D-Bus through a client library (`LibreAgent::ClientQt`) that is *not* part of
this repository: what is known of it here is what the code in `src/` relies on,
and every definition that stands for it is marked external in `PROJECT.json`.

Each client is one Qt thread. Nothing runs in parallel inside a client, and yet
the hard behaviour is all concurrency: registry signals, terminals of
operations, clicks and second launches interleave in any order; a terminal can
be queued while the object it is about is destroyed; modal choosers and the KIO
worker's drive loop re-enter the event loop in the middle of a handler; and the
agent can die and come back with its card ids minted afresh.

## Inventory

| Component | State | Operations | What makes it correct |
|---|---|---|---|
| Agent registry (client library, external) | agent up or down; readers, the card in each, its capabilities | readers and cards come and go; on a loss the library ends the live operations, destroys the card, then signals | consumers never act on what is gone |
| Credentials window (`components/credentials`) | explicit reader, resolved reader, card, list operation, PIN verb, view, rows, banner, unblock sheet | bind a reader, refresh, list, four verbs, cancel, start the agent | one operation, on the shown card; no verb re-targeted; rows fresh; no orphaned prompt; no dead spinner |
| Smart-card widget (`components/plasmoid`) | bound or selected reader, whether it is there, card, detection hint, identity and photo reads, page, per-reader signs, start latch, QML surfaces and dialogs | refresh, bind, chip select, read, popup open/close, sign, dismiss, save the photo, start the agent, re-check | holder data, banners and saved photo belong to the card they are shown with; no unasked prompt; no button disabled for good |
| Start of the agent (client library, external) | what was asked and not run yet, the start being waited for | ask, run, answer | every asker hears of its request |
| Reader names (`SmartCardHandler`) | none: functions of two names | serial key, base name, same unit | a re-enumerated unit is recognised, and no other |
| Holder rows (`SmartCardHandler`, `IdentityRows`, `CardRenderers`) | none: functions of a delivery | checks and fields into rows; summary, details, reading order, headings; sections of `identity.txt` | every row printed once, under its heading, on both surfaces alike |
| Signing core (`shared/signing`) | a job's phase, its operations, the chosen card and certificate | choose a card, list certificates, choose one, sign, save | signs with what was picked, reports once, says success only with a file |
| Purpose plugin (`components/purpose`) | one share per file | start a share, report to Purpose | as the signing core |
| `card:/` worker (`components/kio`) | the request answered, the operation driven, a lagging copy of the registry | listDir, stat, mimetype, get | every request answered, from the card its path stood for |
| `card:/` tree (`CardTree`) | none: functions of the registry | resolve, list | what is listed resolves; the reverse, but for the folders of `PKI` |
| Row models, texts, labels, renderers, photo store, format table | lists and tables | look-ups, formatting | not modelled (see the end) |

Interactions: the widget launches the credentials window with `--reader` (a
second launch re-targets the running one: `BindReader`), opens `card:/<reader>`
in the file manager (a request of the worker), and runs `SignJob`s; the Purpose
plugin runs `SignJob`s behind two choosers. All talk to the same agent, each
over a registry copy of its own.

## Modules

* `AgentRegistry` — the registry as the code in one process sees it, and how it
  may change. Extended by the three GUI components; its order of readers is the
  order of `AgentClient::readers()`, so `FirstReaderWithCard` is the code's.
* `CredentialController` — the credentials window. Its members are one record
  `win`; a handler is one action, a helper it calls is an operator from the
  record before to the record after, composed in the order of the code's calls.
  `letGo` holds the operations the window no longer listens to, so that an
  uncancelled one is visible. `deferred` and `readStopped` are history
  variables, read by properties only.
* `VerbSession` — what the window promises of PIN verbs: one at a time, one
  verdict each, none after an abandonment, never a red one after a cancel.
  `CredentialController` implements it (`Session`, `ImplementsVerbSession`).
* `SmartCardHandler` — the widget: which reader it reflects (and which cards the
  agent only reports so far: `seated`), binding, classification, identity and
  photo reads, one signing entry per reader, the two file dialogs, the start
  latch. Its members are one record `wid`, its helpers operators from the record
  before to the record after, and `Refresh` composes them in `refresh()`'s
  order: rosters, reader, `BindCard`, then the empty branch (`ShowNoCard`) or
  the page of the card (`ShowReader`), and what the QML makes of the change
  (`PageFollows`, `Rendered`). A sign is seen through its promise (ends at most
  once); what a dialog or a sign was asked for is remembered for the properties.
* `HolderView` — what a widget promises of a holder's data: rows come from a
  read of the shown card that ended, are read once, the photo comes after them,
  and all go when the card does and no step later or earlier.
  `SmartCardHandler` implements it (`Holder`, `ImplementsHolderView`), with its
  bindings, null pointers and terminals behind the mapping.
* `AgentStart` — how the shared client runs requests to start the agent or to
  look again, in a nested loop while a start is waited for, and broadcasts its
  answers. The widget is one asker, its siblings in the process another.
* `ReaderNames` — the rule that recognises a unit under another name, on names
  as sequences of tokens. `WidgetUnits` composes it with the widget, which takes
  the pairs of names of one unit (`SameUnit`) as given.
* `HolderRows` — the rows of a holder as pure functions of a delivery: what
  `identityRows` makes of checks and fields, the popup's summary and expanded
  list, and the sections of `identity.txt`.
* `SigningFlow` — shares and jobs in detail: two choosers with their nested
  loops, the queued hop between listing and signing, the re-resolution of the
  chosen card by id and reader name, ids minted afresh by a restarted agent.
  Implements `SignPromise`.
* `CardTree`, `CardWorker` — the `card:/` tree as pure operators, and the worker
  as a process with the agent on the other side of an ordered channel. The
  folders of a card are a function on the positions of its signing certificates;
  a folder's name is its base and its ordinal, and is compared as a whole, so
  that a hand-typed ordinal finds nothing. The resolver does not read the card and
  takes any name below `PKI` for a folder: `stat` reports folders that no listing
  of `PKI` shows, the same three files are listed in each, and only `get` of one,
  which reads the card, finds no certificate. The worker's `view` lags behind
  `agent`; a request starts an operation (`Do*`, `StartRead`, `StartExport`),
  messages are delivered inside the loop (`Deliver`), and the request is answered
  when the loop ends (`AfterRead`, `AfterExport`). The reply to an operation that
  was destroyed with its request is still under way and reaches nobody
  (`Unheard`).
* `MC*` — instances for TLC.
* `AgentRegistryProofs`, `CredentialControllerProofs`, `SmartCardHandlerProofs`,
  `ReaderNamesProofs`, `WidgetUnitsProofs`, `SigningFlowProofs`, `CardTreeProofs`,
  `CardWorkerProofs` — the theorems about the module each is named for. The GUI components' proofs
  share the first, the worker's rest on those of the tree.

A recurring point: *told*. When a card is lost, the library ends its live
operations before it destroys the card — unless the operation's own terminal
was already queued. In that case nobody hears of it: the pointer is null when
the queued call would arrive. The loss actions choose between both.

Definitions named `...Keeping...`, `...By...` and the like, commented
"Faulty", are plausible bugs of the operator that follows them. Nothing uses
them: substituted for it, each breaks the property `PROJECT.json` pairs it with.

## Runs

| Run | What it shows | States |
|---|---|---|
| `credential_window` | the window's invariants, action properties, refinement of `VerbSession`, and that it leaves Loading and Working | 119,726 |
| `credential_stale_verb` | *violated*: a verb can start on stale rows over the result banner | |
| `credential_sticky_binding` | *violated*: an explicit reader that returns during a verb is not resolved when it ends | |
| `credential_removal_notice` | *violated*: a removal mid-verb is not always explained | |
| `widget_reading` | holder data, page, launcher and saved photo belong to the bound card, whatever reader that is; refinement of `HolderView`; no unasked read; a detected card is then shown; the start button comes back; the rows of every delivery are printed once and in order, in the popup and in the file; units are told apart | 231,680 |
| `widget_signing` | signs of two readers side by side: none is displaced while it runs, and what the QML shows is current and of its card | 148,760 |
| `widget_busy_latch` | *violated*: busy can outlive the read | |
| `widget_stale_error` | *violated*: a failed card's message on another card's page | |
| `widget_sign_target` | *violated*: a dialog opened over one card signs with the next | |
| `signing` | operations on live cards, starts as picked, refinement of `SignPromise`, shares end | 575,241 |
| `signing_reminted_id` | *violated*: after an agent restart an id can match a card the user never saw | |
| `card_worker` | every request answered; served from its card; removals reported; tree and folders consistent | 475,973 |

The violated properties are not wishes: each is what a comment or a UI text of
the repository says, quoted in `PROJECT.json` under `findings`. None is about
memory or a lost secret; each is a disagreement between code and comment.

### Bounds

* Window: two readers, two cards, PIN management as the one capability. Two of
  each are what a fallback, a swap and a re-target need. Nothing counts.
* Widget, reading: two readers, the two interfaces of one unit, and two more
  names to be bound to: the one the unit had in another port, so that a
  re-enumeration has to be recognised, and a reader that is not there. Two
  cards. The profiles are an identity card to be unlocked, one read freely, and
  one with PINs only. Both readers may report a card before it is published
  (`Deferring`). `Asks = 1` request waits to be run: one more can be asked once
  it runs, so the nested loop of a start with a second request in it occurs.
  `Installations` lets the agent's package come and go. No symmetry, because of
  `StartAnswered`. A third, unrelated reader would be one
  more card-holder to choose from, which the other interface already is in Auto
  mode; with it the state space is no longer finished in minutes.
* Widget, signing: two readers, two PKI cards, with symmetry; no start, no
  deferred card.
* Rows: two groups, each with none, one or two checks (under one id, or without
  an id and with nothing but a reason, or less), then any of a free-form name, a
  name component with each kind of value and a hidden trace; a fallback of two
  rows (`FallbackRows`, four in the code) so that it is exceeded.
* Names: models that end in what looks like an index or in a group of their
  own, groups that are serials and one that is none, all indices. The pairs the
  widget is given (`SameUnit`) are compared with the units the names are of,
  and these with the rule (`UnitsAreToldApart`).
* Shares: two jobs, two readers, two cards. `MintLimit = 3`: enough to exchange
  two cards after a restart, and then one more.
* Worker: `MintLimit = 3` ids of one agent process, `ChannelLimit = 3` messages
  under way: a removal, an insertion and a reply in one nested loop. The two
  cards have certificates of the same ids in another order, and two of one
  folder name.

Two windows, two widgets or two workers share nothing but the agent, so one of
each is modelled. Widgets of one process also share the client that starts the
agent: to the one modelled, the others are `sibling` in `AgentStart`.

### Fairness

* Window: its first queued refresh runs, and a live operation ends. The second
  is the client library's stall budget, which ends silent operations; a prompt
  in front of a person is assumed to be answered.
* Shares: a job's own steps run (queued calls and terminals are delivered).
  Choosers are *not* fair: a person may leave one open, and `SharesEnd` stops at
  `picking`.
* Worker: messages arrive, a loop asked to quit ends, and the agent or the stall
  budget ends an operation.
* Widget: the event loop runs what was queued (`RequestRun`), and the bus
  answers every start, by success, failure or its own timeout (`StartEnds`). Its
  reads and signs are *not* fair, nothing it promises depends on them.
* Registry events and clicks are never fair.

`SharesEnd` excuses one case, `Undelivered`: a job whose terminal was queued when
its card was destroyed never reports, though `SignJob.h` promises exactly one of
succeeded and failed. It is listed with the hazards.

Assumptions about what lies outside the repository: signals of the agent arrive
in order; a call goes to the agent process the client knows; when the agent
dies the bus answers what it left open; whether the destruction of the
registry also reports each card of an export is left open (both are modelled).

## Proofs

Every theorem holds for any sets of readers, cards, capabilities and names,
finite or not, and any value of the bounds. Assumed are the named assumptions of
the modules (`RegistryAssumption`, `ControllerAssumption`, `HandlerAssumption`,
`AgentStartAssumption`, `ReaderNamesAssumption`, `UnitsAssumption`,
`SigningAssumption`, `TreeAssumption`, `WorkerAssumption`), which TLC evaluates on
every run, and a few hypotheses that stand in the theorems that need them and are
explained below.
Hardly an invariant of a run is inductive by itself: each component has an `IInv`,
which TLC finds to hold on the runs' instances, and the theorems follow from it.

The proofs follow the code's shape. A handler is a composition of helpers on a
record of members, so each helper has a lemma that says what it needs and what it
leaves (`...Effect`); a handler's step cites them in call order, and one lemma has
one step per action of `Next`. Where an action property or a refinement is proved
too, that lemma proves not only `IInv'` but also what the step may have done, so
that the walk over the actions is made once.

### The window (`CredentialControllerProofs`)

All eight invariants of the run, its four action properties and the refinement of
`VerbSession`.

`IInv` is the type invariant, `Sound` (operations belong to the shown card, flags
to live operations, nothing let go uncancelled), `Viewed` (each view has what it
shows) and `BindingFollowsRegistry`. What `Viewed` adds to the properties: while a
verb runs the view is Working, or a capability change has taken the rows away, so
that the verb's end cannot bring a Ready view back over no rows; an open sheet
only lives in a dashboard; and a failed read has nothing running and, when the
user stopped it, is settled, which is what keeps a refresh from listing again.
Between helpers the record is in one of two half-way conditions: `Blank` (listing
and verb dropped, no page chosen yet) and `Bereft` (the library has destroyed the
bound card).

* `NeverRetargets` needs in addition that one card is in one reader
  (`ConsistentInvariant`).
* `ExplicitReaderFirst`, `CancelledReadStays`: a listing starts in `refresh`, in
  the end of a verb or by a click, and `NextSettles` says of every other step that
  it starts none. In a refresh the window is bound to its target before it lists
  (`RefreshingStep`); a launch binds its reader first (`LaunchBinds`).
* `RelistFollows`: a verb that ends either left the rows as they were, or marked
  them stale in the same step that started the re-list or set the notice.
* `Refinement`: every handler keeps a verb, drops it without a verdict, or ends it
  with one (`KeptDroppedOrEnded`), each a step of `VerbSession` or a stutter.

### The widget (`SmartCardHandlerProofs`)

`TypeCorrect`, `HolderOfBoundCard`, `ReaderOfTheCard`, `UnlockedWasRead`,
`LauncherOfTheCard`, `SurfacesOfTheCard`, the action properties `ReadsAsked` and
`RunningSignKept`, and the refinement `ImplementsView`; with readers of different
names also `PhotoOfTheDialog` and `DetectionForetells`.

`IInv` says where the record is once a handler has run (`Settled`). `Held`: rows
are of the shown card exactly while they are marked as read, a photo is there only
after them, a read in flight is of the shown card, before the rows (identity) or
after them (photo). `Entries`: one signing entry for a reader's name, of the card
it was started on. `Page`: a page with rows has a card, and the rows of a card to
be unlocked were read. `Placed`: card and reader are those `pickActiveReader`
would choose now. `published` is what the QML last saw. Most handlers end in
`refresh`, and `RefreshEffect` says what it makes of *any* record with `Held` and
`Entries`: a settled one. A destroyed card nulls pointers before that
(`DestroyEffect`), and `Held` survives because rows, photo and operations lose
their card together. `Step`, proved with `IInv'`, says what a step may have done to
the holder's data, the signs and the dialogs; the two action properties and
the refinement read it off.

`StartIsPending` is the safety half of `StartAnswered`: the start button is
disabled only while the widget's request waits to be run or its start to be
answered (`LatchIsPending`; TLC finds it to hold on the instance of
`widget_reading`). No step but the click disables the button (`LatchKept`), and an
answer that is the widget's, or a sibling's that it takes for its own, releases it
(`HeardLatch`). What is left to fairness is that requests are run and starts end.

`DistinctNames` is the hypothesis of the last two: no two readers have one name.
It is needed. The dialog of the photo is dismissed when the page or the name of
the reader changes, so that cards exchanged in two readers of one name slip past
it; and `computeCardDetected` looks at the first reader of the bound name, while
`pickActiveReader` takes the first *with a card*. The agent can list two
readers of one name (the code labels equal ones apart); the hazards say so. The
runs use different names.

### Reader names (`ReaderNamesProofs`, `WidgetUnitsProofs`)

`UnitsAreDecided`: two names are recognised as one unit exactly when they are the
same model and serial at different places, for models of any length over any
words. The run `widget_reading` checks the same statement (`DecidesUnits`) on
names of its own choice, as part of `UnitsAreToldApart`. `PlainUnits` leaves out the models
with a group of their own that could be a serial: on those the rule is wrong, and
the code says so (`SmartCardHandler.cpp:1363-1367`). The hypothesis that `"none"`
is no group only keeps the mark for a unit without a serial apart from the serials.

`UnitsToldApart` carries this to the widget. Its hypothesis is that the relation of
names the widget works with is the one the rule computes (`SameUnit =
SameUnitNames`) and that the readers' names are of `PlainUnits`. Then
`boundReaderPresent` holds exactly while a reader of the bound name or of its unit
is listed, and a card shown for a bound reader is in that reader or another
interface of its unit (`UnitsAreToldApart`). It joins `Placed`, of the widget's
`IInv`, with `UnitsAreDecided`.

### Shares (`SigningFlowProofs`)

`TypeCorrect`, `LiveCards`, `AsPicked`, the refinement `ImplementsPromise`, and what
can be said of `SharesEnd` without fairness, `SharesGoOn` and `OnlyLossDeserts`.

`IInv`: each share is `Sound` (its phase says which of card, operation, outcome and
file are there), `Live` (its pointer is null or to a present card), and `Named`
(until the agent restarts, a row of an open dialog names by its id the card it was
made from, or none). `Named` needs `Minted`: ids of present cards are distinct and
below the next one, so that an insertion under the open dialog cannot take a row's
id. This is exactly what a restart breaks, and what `signing_reminted_id` shows.

`SharesGoOn` is the safety half of `SharesEnd`: a share that has started and not
ended is in its dialog, on its way to the sign, or at work by the operation it waits
for, on the card it points to. It allows both to be null, which is the excused
`Undelivered`; `OnlyLossDeserts` says that nothing but the loss of that card leads
there. Both rest on one walk over the actions (`StepIsHeard`): a step leaves a share
as it was, leaves it with the operation it waits for (`Heard`), or has lost cards
(`Lost`).

### The tree and the worker (`CardTreeProofs`, `CardWorkerProofs`)

`ListedResolves`: for any held cards and any path, `ListChildren` lists an entry of
the root, a reader or an identity folder exactly when the path to it resolves, and
lists nothing elsewhere. `ResolvesBelow`: any name below `PKI` resolves, in a folder
below it exactly its three files do, and nothing does below what is not a directory.
Together they give `TreeIsWhatItLists` its first half; its exception is a fact of
the code, for which folders of `PKI` the card's certificates alone decide.
`ServedFromTheCard` has the rest: nothing is served from a folder that stands for no
certificate of the card. `FolderNamesDiffer`, `FolderResolves`, `ResolvedIsFolder`: the ordinals make the folders of any list of
certificates different, each resolves to its certificate, and nothing else
resolves. The ordinal counts the earlier certificates of the same base, and the
count grows from one to the next (`SeenGrows`).

`TypeCorrect`, `RequestsAreSeparate`, `TreeIsWhatItLists`, `ServedFromTheCard`,
`RemovalIsReported`, `FoundIsNotMissing` for the worker.

The worker acts on a registry that lags, so `IInv` has to say how far. `Tracked`:
a card the worker knows in a reader, or will once a message is handled, is the one
the agent has there, or a message that takes it out is under way, ahead of any
that speaks of another card there. `Removals`: a card whose removal is under way is
in no reader of the agent, unless the agent was lost since. Each message the agent
sends preserves this at the end of the channel, each one handled at its front.
Upon it stand `Reading` and `Exporting`: a read that ends well brings data of the
request's card; an export, which names a reader and not a card, brings the wanted
certificate of that card, or the removal of that card is ahead of the reply, and
the loop has seen it (`gone`) before it looks at what it got. `Outstanding`: at
most one reply is under way, and none without a request.

`NobodyWaitsInVain` is the safety half of `RequestAnswered`: a loop that runs waits
for an answer the agent is at work on or that is under way, and a request whose
operation is over has been asked to quit (`RequestIsPursued`, which TLC finds to
hold on the instance of `card_worker`). Left to fairness is that the agent answers,
messages arrive and the loop ends.

### Only model-checked

* `WindowSettles`, `StartAnswered`, `SharesEnd`, `RequestAnswered`: liveness, which
  is outside TLAPS. The safety half of each is proved: a window that is busy has the
  operation it waits for (`BusyViewHasOperation`), and likewise for the button
  (`LatchIsPending`), a share (`StartedSharesGoOn`) and a request
  (`RequestIsPursued`).
* `RowsAreShownOnceInOrder`: the rows are folds over deliveries, and induction over
  data is outside it too.

## Not modelled

* `ErrorText`, `CredentialText`, `DisplayText`, the translations of labels,
  values and headings in `IdentityRows`, the renderers of certificates and of
  `info.txt`, `MimeFormatMap`: total functions into wording or file types, which
  no control depends on.
* `CredentialModel` beyond the card and the freshness of its rows.
* `CardPhotoStore`, `CardPhotoProvider`, `EngineInit`: storage of one image and
  start-up of QML.
* Of the widget: the certificate warm-up before the file manager opens (asked
  of the agent, its answer dropped; never for a card with an unlock, so it
  raises no prompt), finding and launching LibreCelik, the launch of the
  credentials window (its other end is `BindReader`), the clipboard, labels and
  phases, and the note that a start failed.
* Of the worker: MIME names, UDS details, and the files other than
  `identity.txt`.
* Two readers of identical raw name in the worker; a certificate list whose
  order changes between two requests.
* Build files, packaging, translations, tools.

## Plan

Order of the modules, most important behaviour first; all exist.

1. `AgentRegistry`, `CredentialController`, `VerbSession`; invariants,
   refinement and liveness; proofs of the invariants and the refinement.
2. `SmartCardHandler`, reading and signing.
3. `SigningFlow` with `SignPromise`.
4. `CardTree` and `CardWorker`.
5. `HolderRows`.
6. The widget's remaining state: detection, presence and names of a
   re-enumerated reader (`ReaderNames`), the start latch beside other widgets
   (`AgentStart`), the photo dialog; and `HolderView`.
7. Both surfaces of a holder's rows.

Proofs, in the order they were made: the window's invariants and refinement; the
shares; the widget; the tree and the worker; the window's remaining action
properties; the names; the start latch; the safety halves of `RequestAnswered` and
`SharesEnd`; the names and the widget together. Left: what `VerbSession`,
`HolderView` and `SignPromise` imply, stated on the abstract specifications alone.
