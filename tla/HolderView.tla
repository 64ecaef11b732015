----------------------------- MODULE HolderView -----------------------------
(***************************************************************************)
(* What a widget promises about the holder of a card: it shows one card,   *)
(* or none; it reads a card it shows, one read at a time, and not again    *)
(* once it holds the holder's rows; rows come from a read that ended, a    *)
(* photo comes after the rows; and all of it stays until the card is       *)
(* replaced or gone, and not a step longer.                                *)
(***************************************************************************)
CONSTANTS Cards, None

VARIABLES
    shown,      \* the card on display
    reading,    \* the card whose identity is being read
    rows,       \* the card the rows were read from
    photo       \* the card the photo was read from

view == <<shown, reading, rows, photo>>

Init == shown = None /\ reading = None /\ rows = None /\ photo = None

(* Another card, or none: nothing of the last one is left.  The new one    *)
(* may be read at once.                                                    *)
Turn(c) ==
    /\ c # shown
    /\ shown' = c
    /\ reading' \in {None, c}
    /\ rows' = None
    /\ photo' = None

Read ==
    /\ shown # None
    /\ reading = None
    /\ rows = None
    /\ reading' = shown
    /\ UNCHANGED <<shown, rows, photo>>

ReadEnds ==
    /\ reading # None
    /\ reading' = None
    /\ rows' \in {None, reading}
    /\ UNCHANGED <<shown, photo>>

Photograph ==
    /\ rows # None
    /\ photo' = shown
    /\ UNCHANGED <<shown, reading, rows>>

Next ==
    \/ \E c \in Cards \cup {None} : Turn(c)
    \/ Read
    \/ ReadEnds
    \/ Photograph

Spec == Init /\ [][Next]_view
=============================================================================
