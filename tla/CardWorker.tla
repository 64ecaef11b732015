----------------------------- MODULE CardWorker -----------------------------
(***************************************************************************)
(* The `card:/' KIO worker: one process that answers one request of a file *)
(* manager at a time, from its copy of the agent's registry or by driving  *)
(* an operation of the agent in a nested event loop (CardWorkerLogic over  *)
(* AgentCardDataSource).                                                   *)
(*                                                                         *)
(* The agent is another process: what it does to cards reaches the worker  *)
(* through a channel that keeps order, so the worker's copy of the         *)
(* registry lags behind, and a pulled card, its replacement and the reply  *)
(* to a fetch can all arrive inside one nested loop.  The loop ends when   *)
(* asked to quit, and may handle more messages before it has ended.        *)
(***************************************************************************)
EXTENDS CardTree

CONSTANTS
    Paths,          \* the paths a file manager asks for
    MintLimit,      \* bound: card ids one agent process mints
    ChannelLimit    \* bound: messages of the agent under way

VARIABLES
    agent,          \* the agent: running, the card in each reader, ids minted
    serving,        \* the request the agent is at work on
    channel,        \* messages from the agent, oldest first
    view,           \* the worker's registry: AgentClient
    worker          \* the request being answered

vars == <<agent, serving, channel, view, worker>>

Ids == 0..MintLimit
Presence == [id : Ids, card : Cards]
CertIds == UNION {CertIdsOf(c) : c \in Cards}
Fetch == [by : {"card", "reader"}, id : Ids \cup {None}, reader : Readers \cup {None},
          cert : CertIds \cup {None}]

ASSUME WorkerAssumption ==
    /\ MintLimit \in Nat
    /\ None \notin Ids \cup Presence \cup Fetch
    /\ \A path \in Paths : path \in Seq(Range(path))

NoCards == [r \in Readers |-> None]

Held(slots) == [r \in Readers |-> IF slots[r] = None THEN None ELSE slots[r].card]

(* AgentClient::card: the reader of the card with this id, None for none.  *)
ReaderOf(slots, id) ==
    LET at == {r \in Readers : slots[r] # None /\ slots[r].id = id} IN
    IF at = {} THEN None ELSE CHOOSE r \in at : TRUE

(* How an operation can end: AgentOperation's status, errorCode, callError.*)
End(status, code, call) == [status |-> status, code |-> code, call |-> call]

EndedOk == End("Ok", "None", "None")
EndedByUser == End("Cancelled", "None", "None")
EndedUnauthenticated == End("Error", "AuthFailed", "None")
EndedByRemoval == End("Error", "CardRemoved", "None")
EndedUnreadable == End("Error", "CommunicationError", "None")
EndedUnsupported == End("Error", "CapabilityMissing", "None")
EndedSilent == End("Error", "None", "Timeout")
EndedAbandoned == End("Error", "CommunicationError", "AgentUnavailable")
EndedRefused == End("Error", "None", "InvalidArguments")
EndedDenied == End("Error", "None", "AccessDenied")
EndedKeyNotFound == End("Error", "KeyNotFound", "None")
SweptByRemoval == End("Cancelled", "CardRemoved", "None")
SweptByLoss == End("Cancelled", "CommunicationError", "AgentUnavailable")

Ends == {EndedOk, EndedByUser, EndedUnauthenticated, EndedByRemoval, EndedUnreadable,
         EndedUnsupported, EndedSilent, EndedAbandoned, EndedRefused, EndedDenied,
         EndedKeyNotFound, SweptByRemoval, SweptByLoss}

(* What an operation brought: of which card, and which certificate.        *)
Data == [card : Cards \cup {None}, cert : CertIds \cup {None}]
NoData == [card |-> None, cert |-> None]

Error == {"ERR_USER_CANCELED", "ERR_ACCESS_DENIED", "ERR_WORKER_DIED", "ERR_DOES_NOT_EXIST",
          "ERR_CANNOT_ENTER_DIRECTORY", "ERR_CANNOT_OPEN_FOR_READING", "ERR_IS_DIRECTORY",
          "ERR_WORKER_DEFINED"}

(* A WorkerResult and what was emitted before it.                          *)
NoAnswer == [result |-> "none", names |-> {}, data |-> NoData]
Pass == [NoAnswer EXCEPT !.result = "pass"]
Fail(error) == [NoAnswer EXCEPT !.result = error]

Idle == [stage |-> "idle", kind |-> "Invalid", id |-> None, card |-> None, folder |-> None,
         wanted |-> None, op |-> "none", end |-> EndedOk, data |-> NoData,
         quit |-> FALSE, gone |-> FALSE, answer |-> NoAnswer]

Init ==
    /\ agent = [up |-> FALSE, slot |-> NoCards, minted |-> 0]
    /\ serving = None
    /\ channel = <<>>
    /\ view = [up |-> FALSE, slot |-> NoCards]
    /\ worker = Idle

-----------------------------------------------------------------------------
(* Classification of failures.                                             *)

(* Codes of one meaning are one here: AuthFailed stands for a wrong or     *)
(* blocked credential too, CapabilityMissing for an unsupported card.      *)
MapStatus(end) ==
    IF end.status = "Ok" THEN "Ok"
    ELSE IF end.status = "Cancelled" /\ end.call = "None" THEN "Cancelled"
    ELSE CASE end.code = "AuthFailed" -> "AuthFailed"
           [] end.code = "CardRemoved" -> "CardRemoved"
           [] end.code = "CapabilityMissing" -> "CapabilityMissing"
           [] OTHER -> CASE end.call \in {"AgentUnavailable", "Timeout"} -> "Unavailable"
                         [] end.call = "AccessDenied" -> "AuthFailed"
                         [] end.call = "InvalidArguments" -> "CapabilityMissing"
                         [] OTHER -> "Error"

(* The classification of a certificate export has rules of its own.        *)
ExportStatus(end) ==
    CASE end.status = "Ok" -> "Ok"
      [] end.code = "KeyNotFound" -> "NotAvailable"
      [] end.call = "AgentUnavailable" -> "Unavailable"
      [] OTHER -> "Error"

FailForRead(status, isDirOp) ==
    Fail(CASE status = "Cancelled" -> "ERR_USER_CANCELED"
           [] status = "AuthFailed" -> "ERR_ACCESS_DENIED"
           [] status \in {"CapabilityMissing", "NotAvailable"} -> "ERR_DOES_NOT_EXIST"
           [] status = "Unavailable" /\ isDirOp -> "ERR_CANNOT_ENTER_DIRECTORY"
           [] status = "Unavailable" /\ ~isDirOp -> "ERR_CANNOT_OPEN_FOR_READING"
           [] OTHER -> "ERR_WORKER_DIED")

-----------------------------------------------------------------------------
(* The request being answered.                                             *)

(* Faulty: a fetch in flight is left to the agent.                         *)
AnswerLeavingFetch(answer) ==
    /\ worker' = [Idle EXCEPT !.answer = answer]
    /\ UNCHANGED <<agent, serving, channel, view>>

(* The operation goes with the request: its late reply reaches nobody.     *)
Unheard == [what |-> "unheard"]

WithoutReplies == [i \in DOMAIN channel |-> IF channel[i].what = "reply" THEN Unheard ELSE channel[i]]

Answer(answer) ==
    /\ worker' = [Idle EXCEPT !.answer = answer]
    /\ serving' = None
    /\ channel' = WithoutReplies
    /\ UNCHANGED <<agent, view>>

AnswerRead(status) == Answer(FailForRead(status, worker.kind = "PkiDir"))

Serve(data) == Answer([Pass EXCEPT !.data = data])

(* An answer that needs no operation.                                      *)
AnswerAtOnce(answer) ==
    /\ worker' = [Idle EXCEPT !.answer = answer]
    /\ UNCHANGED <<agent, serving, channel, view>>

(* A call reaches the agent process the worker knows: not one that is gone *)
(* or has been replaced since.                                             *)
Reachable == agent.up /\ \A i \in DOMAIN channel : channel[i].what # "lost"

(* Faulty: a call refused at entry is waited for.                          *)
StartReadAndWait(kind, path) ==
    LET held == view.slot[path[1][1]]
        folder == IF Len(path) > 2 THEN path[3] ELSE None
        reading == [Idle EXCEPT !.stage = "reading", !.kind = kind, !.id = held.id,
                                !.card = held.card, !.folder = folder, !.op = "running"]
    IN
    /\ \/ /\ Reachable
          /\ ReaderOf(agent.slot, held.id) # None
          /\ serving' = [by |-> "card", id |-> held.id, reader |-> None, cert |-> None]
          /\ worker' = reading
       \/ /\ worker' = [reading EXCEPT !.op = "finished", !.end = EndedRefused]
          /\ UNCHANGED serving
    /\ UNCHANGED <<agent, channel, view>>

(* AgentCard::readIdentity, readCertificates, getPhoto on the card held    *)
(* where path leads, then driveToFinished: the agent takes the request if  *)
(* it knows the id; a refused call comes back finished and needs no loop.  *)
StartRead(kind, path) ==
    LET held == view.slot[path[1][1]]
        folder == IF Len(path) > 2 THEN path[3] ELSE None
        reading == [Idle EXCEPT !.stage = "reading", !.kind = kind, !.id = held.id,
                                !.card = held.card, !.folder = folder, !.op = "running"]
    IN
    \/ /\ Reachable
       /\ ReaderOf(agent.slot, held.id) # None
       /\ serving' = [by |-> "card", id |-> held.id, reader |-> None, cert |-> None]
       /\ worker' = reading
       /\ UNCHANGED <<agent, channel, view>>
    \/ \E end \in IF ~Reachable THEN {EndedAbandoned}
                  ELSE IF ReaderOf(agent.slot, held.id) = None THEN {EndedRefused}
                  ELSE {EndedRefused, EndedDenied} :
         AnswerAtOnce(FailForRead(MapStatus(end), kind = "PkiDir"))

(* What every folder of a certificate holds.                               *)
CertChildren == {InfoTxt, CertDerName, CertPemName}

(* CardWorkerLogic::doListDir                                              *)
DoListDir(path) ==
    LET kind == Resolve(Held(view.slot), path) IN
    /\ worker.stage = "idle"
    /\ \/ /\ kind = "Root"
          /\ ~view.up
          /\ AnswerAtOnce(Fail("ERR_WORKER_DEFINED"))
       \/ /\ kind \in {"Reader", "IdentityDir"} \/ (kind = "Root" /\ view.up)
          /\ AnswerAtOnce([Pass EXCEPT !.names = ListChildren(Held(view.slot), path)])
       \/ /\ kind = "PkiDir"
          /\ StartRead(kind, path)
       \/ /\ kind = "CertDir"
          /\ AnswerAtOnce([Pass EXCEPT !.names = CertChildren])
       \/ /\ kind = "Invalid"
          /\ AnswerAtOnce(Fail("ERR_CANNOT_ENTER_DIRECTORY"))
       \/ /\ kind \in Leaves
          /\ AnswerAtOnce(Fail("ERR_IS_DIRECTORY"))

(* CardWorkerLogic::doStat: the registry alone answers.                    *)
DoStat(path) ==
    /\ worker.stage = "idle"
    /\ AnswerAtOnce(IF Resolve(Held(view.slot), path) = "Invalid"
                    THEN Fail("ERR_DOES_NOT_EXIST") ELSE Pass)

(* CardWorkerLogic::doMimetype                                             *)
DoMimetype(path) == DoStat(path)

(* CardWorkerLogic::doGet                                                  *)
DoGet(path) ==
    LET kind == Resolve(Held(view.slot), path) IN
    /\ worker.stage = "idle"
    /\ \/ /\ kind = "InfoLeaf"
          /\ AnswerAtOnce([Pass EXCEPT !.data.card = view.slot[path[1][1]].card])
       \/ /\ kind \in ReadLeaves
          /\ StartRead(kind, path)
       \/ /\ kind \in Directories
          /\ AnswerAtOnce(Fail("ERR_IS_DIRECTORY"))
       \/ /\ kind = "Invalid"
          /\ AnswerAtOnce(Fail("ERR_DOES_NOT_EXIST"))

(* AgentCardDataSource::getCertificateDer: the export is asked of the      *)
(* reader, and its operation belongs to the client, not to the card.       *)
StartExport(certId) ==
    LET reader == ReaderOf(view.slot, worker.id) IN
    \/ /\ reader = None
       /\ AnswerRead("Unavailable")
    \/ /\ reader # None
       /\ worker' = [worker EXCEPT !.stage = "exporting", !.wanted = certId, !.op = "running",
                                   !.end = EndedOk, !.data = NoData, !.quit = FALSE]
       /\ \/ /\ Reachable
             /\ serving' = [by |-> "reader", id |-> None, reader |-> reader, cert |-> certId]
             /\ UNCHANGED channel
          \/ /\ ~Reachable
             /\ channel' = Append(channel, [what |-> "reply", end |-> EndedAbandoned, data |-> NoData])
             /\ UNCHANGED serving
       /\ UNCHANGED <<agent, view>>

(* Faulty: the operation is consulted although its card took it along.     *)
AfterReadUnguarded ==
    /\ worker.stage = "reading"
    /\ worker.quit
    /\ \/ /\ MapStatus(worker.end) = "Ok"
          /\ Serve(worker.data)
       \/ /\ MapStatus(worker.end) # "Ok"
          /\ AnswerRead(MapStatus(worker.end))

(* The nested loop of a card read has ended.                               *)
AfterRead ==
    LET status == MapStatus(worker.end)
        certs == CertsOf[worker.data.card]
        wanted == ResolveCertId(certs, worker.folder)
    IN
    /\ worker.stage = "reading"
    /\ worker.quit
    /\ \/ /\ worker.op = "destroyed"
          /\ AnswerRead("CardRemoved")
       \/ /\ worker.op = "finished"
          /\ status # "Ok"
          /\ AnswerRead(status)
       \/ /\ worker.op = "finished"
          /\ status = "Ok"
          /\ \/ /\ worker.kind \in {"IdentityLeaf", "PhotoLeaf"}
                /\ Serve(worker.data)
             \/ /\ worker.kind = "PhotoLeaf"       \* no photo, or one that cannot be read
                /\ \E photo \in {"NotAvailable", "Error"} : AnswerRead(photo)
             \/ /\ worker.kind = "PkiDir"
                /\ Answer([Pass EXCEPT !.names = FolderNames(certs), !.data = worker.data])
             \/ /\ worker.kind \in {"CertInfoLeaf", "CertDerLeaf", "CertPemLeaf"}
                /\ wanted = None
                /\ Answer(Fail("ERR_DOES_NOT_EXIST"))
             \/ /\ worker.kind = "CertInfoLeaf"
                /\ wanted # None
                /\ Serve([worker.data EXCEPT !.cert = wanted])
             \/ /\ worker.kind \in {"CertDerLeaf", "CertPemLeaf"}
                /\ wanted # None
                /\ StartExport(wanted)

(* Faulty: the removal is looked at only when the export brought nothing.  *)
AfterExportDataFirst ==
    /\ worker.stage = "exporting"
    /\ worker.quit
    /\ \/ /\ ExportStatus(worker.end) = "Ok"
          /\ worker.data # NoData
          /\ Serve(worker.data)
       \/ /\ ExportStatus(worker.end) # "Ok" \/ worker.data = NoData
          /\ AnswerRead(IF worker.gone THEN "CardRemoved" ELSE ExportStatus(worker.end))

(* Faulty: the export's own failure is preferred to the removal.           *)
AfterExportFailureFirst ==
    LET status == ExportStatus(worker.end) IN
    /\ worker.stage = "exporting"
    /\ worker.quit
    /\ \/ /\ status # "Ok"
          /\ AnswerRead(status)
       \/ /\ status = "Ok" /\ worker.gone
          /\ AnswerRead("CardRemoved")
       \/ /\ status = "Ok" /\ ~worker.gone
          /\ Serve(worker.data)

(* The nested loop of a certificate export has ended.                      *)
AfterExport ==
    LET status == ExportStatus(worker.end) IN
    /\ worker.stage = "exporting"
    /\ worker.quit
    /\ \/ /\ worker.gone
          /\ AnswerRead("CardRemoved")
       \/ /\ ~worker.gone
          /\ status # "Ok"
          /\ AnswerRead(status)
       \/ /\ ~worker.gone
          /\ status = "Ok"
          /\ Serve(worker.data)

-----------------------------------------------------------------------------
(* What the event loop delivers to the client library.                     *)

(* The library terminalizes and destroys the operations of a lost card; an *)
(* export it can only be told of.                                          *)
CardLost(w, end) ==
    CASE w.stage = "reading" ->
           [w EXCEPT !.op = "destroyed", !.quit = TRUE, !.data = NoData,
                     !.end = IF w.op = "finished" THEN w.end ELSE end]
      [] w.stage = "exporting" -> [w EXCEPT !.gone = TRUE, !.quit = TRUE]
      [] OTHER -> w

OnInserted(m) ==
    /\ m.what = "inserted"
    /\ view' = [view EXCEPT !.slot[m.reader] = [id |-> m.id, card |-> m.card]]
    /\ UNCHANGED <<serving, worker>>

OnRemoved(m) ==
    /\ m.what = "removed"
    /\ view' = [view EXCEPT !.slot[m.reader] = None]
    /\ worker' = IF worker.id = m.id THEN CardLost(worker, SweptByRemoval) ELSE worker
    /\ UNCHANGED serving

OnAgentUp(m) ==
    /\ m.what = "up"
    /\ view' = [view EXCEPT !.up = TRUE]
    /\ UNCHANGED <<serving, worker>>

(* A lost agent loses its cards; an export may not be told which.          *)
OnAgentLost(m) ==
    /\ m.what = "lost"
    /\ view' = [up |-> FALSE, slot |-> NoCards]
    /\ \/ worker' = CardLost(worker, SweptByLoss)
       \/ /\ worker.stage = "exporting"
          /\ UNCHANGED worker
    /\ UNCHANGED serving

OnReply(m) ==
    /\ m.what = "reply"
    /\ worker' = IF worker.op # "running" THEN worker
                 ELSE [worker EXCEPT !.op = "finished", !.end = m.end, !.data = m.data,
                                     !.quit = TRUE]
    /\ UNCHANGED <<serving, view>>

OnUnheard(m) ==
    /\ m.what = "unheard"
    /\ UNCHANGED <<serving, view, worker>>

Deliver ==
    /\ channel # <<>>
    /\ channel' = Tail(channel)
    /\ LET m == Head(channel) IN
         \/ OnInserted(m) \/ OnRemoved(m) \/ OnAgentUp(m) \/ OnAgentLost(m)
         \/ OnReply(m) \/ OnUnheard(m)
    /\ UNCHANGED agent

(* The stall budget of the library runs out on a silent operation.         *)
Stall ==
    /\ worker.op = "running"
    /\ worker' = [worker EXCEPT !.op = "finished", !.end = EndedSilent, !.quit = TRUE]
    /\ serving' = None
    /\ channel' = WithoutReplies
    /\ UNCHANGED <<agent, view>>

-----------------------------------------------------------------------------
(* The agent.                                                              *)

Send(m) == channel' = Append(channel, m)

News(what, reader, id, card) == [what |-> what, reader |-> reader, id |-> id, card |-> card]

AgentStarts ==
    /\ ~agent.up
    /\ agent' = [up |-> TRUE, slot |-> NoCards, minted |-> 0]
    /\ Send(News("up", None, None, None))
    /\ UNCHANGED serving

(* The bus answers a request of the dead agent with an error.              *)
AgentDies ==
    /\ agent.up
    /\ agent' = [agent EXCEPT !.up = FALSE, !.slot = NoCards]
    /\ channel' = channel
         \o (IF serving = None THEN <<>>
             ELSE <<[what |-> "reply", end |-> EndedAbandoned, data |-> NoData]>>)
         \o <<News("lost", None, None, None)>>
    /\ serving' = None

CardGoesIn(r, c) ==
    /\ agent.up
    /\ agent.slot[r] = None
    /\ \A q \in Readers : Held(agent.slot)[q] # c
    /\ agent.minted < MintLimit
    /\ agent' = [agent EXCEPT !.slot[r] = [id |-> agent.minted, card |-> c], !.minted = @ + 1]
    /\ Send(News("inserted", r, agent.minted, c))
    /\ UNCHANGED serving

CardComesOut(r) ==
    /\ agent.slot[r] # None
    /\ agent' = [agent EXCEPT !.slot[r] = None]
    /\ Send(News("removed", r, agent.slot[r].id, None))
    /\ UNCHANGED serving

(* A card or the agent comes or goes.                                      *)
Hardware ==
    /\ Len(channel) < ChannelLimit
    /\ \/ AgentStarts
       \/ AgentDies
       \/ \E r \in Readers, c \in Cards : CardGoesIn(r, c)
       \/ \E r \in Readers : CardComesOut(r)
    /\ UNCHANGED <<view, worker>>

Reply(end, data) ==
    /\ Len(channel) < ChannelLimit
    /\ Send([what |-> "reply", end |-> end, data |-> data])
    /\ serving' = None
    /\ UNCHANGED <<agent, view, worker>>

(* The agent ends the read of a card, by the card's id.                    *)
AgentEndsRead ==
    /\ serving # None
    /\ serving.by = "card"
    /\ LET reader == ReaderOf(agent.slot, serving.id) IN
       \/ /\ reader = None
          /\ Reply(EndedByRemoval, NoData)
       \/ /\ reader # None
          /\ \E end \in {EndedByUser, EndedUnauthenticated, EndedUnreadable, EndedUnsupported} :
                Reply(end, NoData)
       \/ /\ reader # None
          /\ Reply(EndedOk, [NoData EXCEPT !.card = agent.slot[reader].card])

(* The agent exports a certificate of whatever card the reader holds.      *)
AgentEndsExport ==
    /\ serving # None
    /\ serving.by = "reader"
    /\ LET held == Held(agent.slot)[serving.reader] IN
       \/ Reply(EndedUnreadable, NoData)
       \/ /\ serving.cert \notin CertIdsOf(held)
          /\ Reply(EndedKeyNotFound, NoData)
       \/ /\ serving.cert \in CertIdsOf(held)
          /\ Reply(EndedOk, [card |-> held, cert |-> serving.cert])

-----------------------------------------------------------------------------
Request ==
    \E path \in Paths :
        DoListDir(path) \/ DoStat(path) \/ DoMimetype(path) \/ DoGet(path)

Next ==
    \/ Request
    \/ AfterRead
    \/ AfterExport
    \/ Deliver
    \/ Stall
    \/ Hardware
    \/ AgentEndsRead
    \/ AgentEndsExport

Spec == Init /\ [][Next]_vars

(* Messages arrive, a loop asked to quit ends, and the agent or the stall  *)
(* budget ends an operation: a person asked for a CAN answers in the end.  *)
FairSpec ==
    /\ Spec
    /\ WF_vars(Deliver)
    /\ WF_vars(AfterRead)
    /\ WF_vars(AfterExport)
    /\ WF_vars(AgentEndsRead \/ AgentEndsExport \/ Stall)

-----------------------------------------------------------------------------
(* Properties.                                                             *)

(* Type invariant of the agent, the channel, the worker's registry and the *)
(* request being answered.                                                 *)
TypeOK ==
    /\ agent.up \in BOOLEAN
    /\ agent.slot \in [Readers -> Presence \cup {None}]
    /\ agent.minted \in Ids
    /\ view.up \in BOOLEAN
    /\ view.slot \in [Readers -> Presence \cup {None}]
    /\ worker.stage \in {"idle", "reading", "exporting"}
    /\ worker.kind \in NodeKind
    /\ worker.id \in Ids \cup {None}
    /\ worker.card \in Cards \cup {None}
    /\ worker.wanted \in CertIds \cup {None}
    /\ worker.op \in {"none", "running", "finished", "destroyed"}
    /\ worker.end \in Ends
    /\ worker.data \in Data
    /\ worker.quit \in BOOLEAN
    /\ worker.gone \in BOOLEAN
    /\ worker.answer.result \in {"none", "pass"} \cup Error
    /\ worker.answer.data \in Data
    /\ \A i \in DOMAIN channel :
         channel[i].what \in {"up", "lost", "inserted", "removed", "reply", "unheard"}

(* A folder name stands for a certificate of a card: of its signing        *)
(* certificates with that base, the one with the ordinal many up to it.    *)
(* It stands for none when the card has no such folder.                    *)
StandsFor(name, card, cert) ==
    \E i \in DOMAIN CertsOf[card] :
        /\ CertsOf[card][i].id = cert
        /\ CertsOf[card][i].signing
        /\ CertsOf[card][i].base = name[1]
        /\ Cardinality({j \in 1..i : /\ CertsOf[card][j].signing
                                     /\ CertsOf[card][j].base = name[1]}) = name[2]

OperationAnswered == worker.stage # "idle" /\ worker'.stage = "idle"

(* What an operation brought is served only if it was read from the card   *)
(* the path's reader held when the file manager asked, and, below a        *)
(* certificate folder, from the certificate the folder stands for - of a   *)
(* folder the card does not have, though stat knows of any, nothing is     *)
(* served - whatever was pulled, inserted or restarted in the loop.        *)
ServedFromItsCard ==
    [][OperationAnswered /\ worker'.answer.data # NoData =>
        /\ worker'.answer.data.card = worker.card
        /\ worker.kind \in {"CertInfoLeaf", "CertDerLeaf", "CertPemLeaf"} =>
             StandsFor(worker.folder, worker.card, worker'.answer.data.cert)]_vars

(* A card the worker knows to be gone when its read or export ends is      *)
(* reported as removed: not as cancelled by the user, not as a file that   *)
(* does not exist, and nothing of it is served.                            *)
PulledCardIsReportedRemoved ==
    [][/\ OperationAnswered
       /\ view.up
       /\ worker.card \notin {Held(view.slot)[r] : r \in Readers}
       /\ worker.stage = "reading" \/ worker.gone
       => worker'.answer = Fail("ERR_WORKER_DIED")]_vars

(* A certificate whose folder was found on the card is never reported as   *)
(* missing: the agent exports by reader, and a card swapped under the      *)
(* export must not make it look as if the certificate did not exist.       *)
FoundCertificateIsNotMissing ==
    [][worker.stage = "exporting" /\ OperationAnswered =>
        worker'.answer.result # "ERR_DOES_NOT_EXIST"]_vars

(* When a request has been answered, the agent is at work on nothing for   *)
(* the worker and no reply is under way to be taken for a later request's. *)
NoReadOutlivesItsRequest ==
    worker.stage = "idle" =>
        /\ serving = None
        /\ \A i \in DOMAIN channel : channel[i].what # "reply"

(* What doListDir lists in a directory without a read of the card.         *)
ListedAtOnce(held, path) ==
    IF Resolve(held, path) = "CertDir" THEN CertChildren ELSE ListChildren(held, path)

(* The folders of PKI are not to be told from the registry: there the      *)
(* resolver takes any name.                                                *)
ListedWhereResolved(held, path) ==
    IF path = <<>> \/ Resolve(held, Front(path)) = "PkiDir" THEN Resolve(held, path) # "Invalid"
    ELSE Last(path) \in ListedAtOnce(held, Front(path)) <=> Resolve(held, path) # "Invalid"

EachCertificateIsFound(certs, names) ==
    {ResolveCertId(certs, name) : name \in names} = {c.id : c \in {d \in Range(certs) : d.signing}}

(* What is listed resolves.  The reverse holds but for the folders of PKI: *)
(* anywhere else a path that resolves is listed by its parent.  Below PKI  *)
(* the resolver takes any name for a folder, since it does not read the    *)
(* card (stat finds folders that no listing shows); but a listing there    *)
(* has one folder for each signing certificate of the card, and a later    *)
(* request in it finds that certificate.                                   *)
TreeListsWhatItResolves ==
    /\ \A path \in Paths : ListedWhereResolved(Held(view.slot), path)
    /\ worker.answer.data.card # None /\ worker.answer.names # {}
        => EachCertificateIsFound(CertsOf[worker.answer.data.card], worker.answer.names)

(* Every request is answered.                                              *)
RequestAnswered == worker.stage # "idle" ~> worker.stage = "idle"
=============================================================================
