---------------------------- MODULE SignPromise ----------------------------
(***************************************************************************)
(* What a sign promises to whoever started it (the share dialog, the       *)
(* widget): it is refused, or runs on one card; it reports at most once;   *)
(* and a signed file lies beside the input exactly when it succeeded.      *)
(* Signs go on side by side: a lost card may end several of them at once.  *)
(***************************************************************************)
CONSTANTS Jobs, Cards, None

VARIABLES
    stage,      \* how far each sign is
    signer,     \* the card each runs (or ran) on
    wrote       \* whether each saved a signed file

vars == <<stage, signer, wrote>>

Init ==
    /\ stage = [j \in Jobs |-> "asked"]
    /\ signer = [j \in Jobs |-> None]
    /\ wrote = [j \in Jobs |-> FALSE]

Same(j) ==
    /\ stage'[j] = stage[j]
    /\ signer'[j] = signer[j]
    /\ wrote'[j] = wrote[j]

(* A sign may also fail as soon as it has its card.                        *)
Refuse(j) ==
    /\ stage[j] = "asked"
    /\ stage'[j] \in {"failed", "cancelled"}
    /\ stage'[j] = "cancelled" => signer'[j] = None
    /\ signer'[j] \in Cards \cup {None}
    /\ ~wrote'[j]

Run(j) ==
    /\ stage[j] = "asked"
    /\ stage'[j] = "running"
    /\ signer'[j] \in Cards
    /\ ~wrote'[j]

Report(j) ==
    /\ stage[j] = "running"
    /\ stage'[j] \in {"succeeded", "failed"}
    /\ wrote'[j] <=> stage'[j] = "succeeded"
    /\ signer'[j] = signer[j]

Next ==
    \A j \in Jobs : Same(j) \/ Refuse(j) \/ Run(j) \/ Report(j)

Spec == Init /\ [][Next]_vars
=============================================================================
