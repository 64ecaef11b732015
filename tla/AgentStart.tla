----------------------------- MODULE AgentStart -----------------------------
(***************************************************************************)
(* How the agent is started on request.  One client object serves every    *)
(* widget and window of a process.  It runs what was asked of it from the  *)
(* event loop, in order, and waits for a start in a local event loop, from *)
(* which what was asked meanwhile is run: nested, and answered at once.    *)
(* Its answer is a broadcast: every asker of the process hears each one.   *)
(*                                                                         *)
(* The client is outside this repository; this is what its callers and     *)
(* their tests rely on.                                                    *)
(***************************************************************************)
EXTENDS AgentRegistry, Sequences

CONSTANTS
    Asks,           \* bound: requests the event loop has not run yet
    Installations   \* what agentState() may say when asked: is the agent installed?

ASSUME AgentStartAssumption ==
    /\ Asks \in Nat
    /\ Installations \subseteq BOOLEAN

VARIABLE client     \* the requests, and the start being waited for

(* This widget, any other of the process, a manual re-check by either.     *)
Asker == {"widget", "sibling", "recheck"}

ASSUME NoneIsNoAsker == None \notin Asker \cup {"Started", "Requested", "Failed", "Missing"}

Started == "Started"
Requested == "Requested"
Failed == "Failed"
Missing == "Missing"

Client == [
    tasks : Seq(Asker),             \* queued, not run yet
    starter : Asker \cup {None} ]   \* whose start waits in a local event loop

AgentStartTypeOK == client \in Client

AgentStartInit == client = [tasks |-> <<>>, starter |-> None]

(* requestAgentStartLater, refreshDiscoveryLater                           *)
Ask(asker) ==
    /\ Len(client.tasks) < Asks
    /\ client' = [client EXCEPT !.tasks = Append(@, asker)]

(* What a request that is run now is answered at once; None: it starts the *)
(* agent and waits.                                                        *)
Answers ==
    IF avail THEN {Started}
    ELSE IF client.starter # None THEN {Requested}
    ELSE {IF installed THEN None ELSE Missing : installed \in Installations}

(* The event loop, the local one of a waiting start too, runs a request.   *)
RunRequest(asker, answer) ==
    /\ client.tasks # <<>>
    /\ asker = Head(client.tasks)
    /\ answer \in Answers
    /\ client' = [client EXCEPT !.tasks = Tail(@),
                                !.starter = IF answer = None THEN asker ELSE @]

(* The bus answers the start that is waited for.                           *)
EndWait(asker) ==
    /\ client.starter # None
    /\ asker = client.starter
    /\ client' = [client EXCEPT !.starter = None]

Verdict == IF avail THEN Started ELSE Failed
=============================================================================
