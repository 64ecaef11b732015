---------------------------- MODULE VerbSession ----------------------------
(***************************************************************************)
(* What the credentials window promises about PIN verbs, with none of its  *)
(* machinery: one verb runs at a time, on one card; it ends with exactly   *)
(* one verdict, or is dropped with none; the verdict on show is that of    *)
(* the last verb that ended; and a verb the user cancelled never ends in   *)
(* an error.                                                               *)
(***************************************************************************)
CONSTANTS
    Cards,      \* card objects
    None        \* no card

VARIABLES
    running,    \* the card a verb runs on, None when idle
    cancelled,  \* the user asked for the running verb to be cancelled
    verdict     \* the verdict on show

sessionVars == <<running, cancelled, verdict>>

Verdict == {"none", "notice", "error"}

SessionTypeOK ==
    /\ running \in Cards \cup {None}
    /\ cancelled \in BOOLEAN
    /\ verdict \in Verdict

Init ==
    /\ running = None
    /\ cancelled = FALSE
    /\ verdict = "none"

Begin(c) ==
    /\ running = None
    /\ running' = c
    /\ UNCHANGED <<cancelled, verdict>>

AskCancel ==
    /\ running # None
    /\ cancelled' = TRUE
    /\ UNCHANGED <<running, verdict>>

End(v) ==
    /\ running # None
    /\ cancelled => v # "error"
    /\ running' = None
    /\ cancelled' = FALSE
    /\ verdict' = v

(* Its card is gone, or the user pointed the window elsewhere.             *)
Drop ==
    /\ running # None
    /\ running' = None
    /\ cancelled' = FALSE
    /\ UNCHANGED verdict

Next ==
    \/ \E c \in Cards : Begin(c)
    \/ AskCancel
    \/ \E v \in Verdict : End(v)
    \/ Drop

Spec == Init /\ [][Next]_sessionVars
=============================================================================
