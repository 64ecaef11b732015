----------------------- MODULE SmartCardHandlerProofs -----------------------
(***************************************************************************)
(* Theorems about the smart-card widget, for every set of readers, cards,  *)
(* names and profiles, and any relation between names of one unit.         *)
(*                                                                         *)
(* As for the credentials window, a lemma for each helper on the record of *)
(* members says what it changes; here most handlers end in refresh, and    *)
(* one lemma, RefreshEffect, says what refresh makes of whatever record it *)
(* is given.  The invariant has four parts: the holder's data are of the   *)
(* bound card (Held), a sign's entry is of the card it was started on      *)
(* (Entries), the page follows the card (Page), and card and reader are    *)
(* those that pickActiveReader would choose now (Placed).                  *)
(***************************************************************************)
EXTENDS SmartCardHandler, AgentRegistryProofs

ReadyState == {"IdentityOnly", "Hybrid", "PkiOnly"}
PhotoState == {"IdentityOnly", "Hybrid"}

(* A read starts only before the rows are there, and the photo's after.    *)
Held(w) ==
    /\ w.identity = IF w.identityRead THEN w.card ELSE None
    /\ w.photo # None => w.photo = w.card /\ w.identityRead
    /\ w.identityOp # None => w.identityOp = w.card /\ w.busy /\ ~w.identityRead
    /\ w.photoOp # None => w.photoOp = w.card /\ w.identityRead

Entries(w) ==
    /\ \A e, f \in w.signs : e.name = f.name => e = f
    /\ \A e \in w.signs : e.card # None => e.card = e.of

(* pickActiveReader and computeCardDetected over the registry (rs, s) and  *)
(* the readers st that report a card.                                      *)
CardByName(n, rs, s) == FirstReaderWithCard({r \in rs : NameOf[r] = n}, s)

Pick(w, rs, s) ==
    IF w.bound # None
    THEN IF CardByName(w.bound, rs, s) # None THEN CardByName(w.bound, rs, s)
         ELSE IF \E r \in rs : NameOf[r] = w.bound THEN None
         ELSE FirstReaderWithCard({r \in rs : <<w.bound, NameOf[r]>> \in SameUnit}, s)
    ELSE IF w.selected # None /\ CardByName(w.selected, rs, s) # None
         THEN CardByName(w.selected, rs, s)
         ELSE FirstReaderWithCard(rs, s)

Detects(w, rs, st) ==
    IF w.bound = None THEN st # {}
    ELSE IF \E r \in rs : NameOf[r] = w.bound
         THEN \E r \in st : /\ NameOf[r] = w.bound
                            /\ \A q \in rs : NameOf[q] = w.bound => r <= q
    ELSE \E r \in st : <<w.bound, NameOf[r]>> \in SameUnit

Present(w, rs) ==
    /\ w.bound # None
    /\ \/ \E r \in rs : NameOf[r] = w.bound
       \/ \E n \in Names : <<w.bound, n>> \in SameUnit /\ \E r \in rs : NameOf[r] = n

Placed(w, rs, s) ==
    /\ w.boundPresent <=> Present(w, rs)
    /\ IF Pick(w, rs, s) = None THEN w.card = None
       ELSE w.card = s[Pick(w, rs, s)] /\ w.readerName = NameOf[Pick(w, rs, s)]

(* k: what each card advertises.                                           *)
Page(w, rs, st, k) ==
    /\ w.pinManagement <=> w.card # None /\ PinManagement \in k[w.card]
    /\ w.state \in ReadyState => w.card # None /\ (Unlock \in k[w.card] => w.identityRead)
    /\ w.state = "PreAuthRequired" => ~w.identityRead
    /\ w.state = "NoCard" => w.card = None /\ (w.detected <=> Detects(w, rs, st))

Settled(w, rs, s, st, k) ==
    /\ w \in Widget
    /\ Held(w)
    /\ Entries(w)
    /\ Page(w, rs, st, k)
    /\ Placed(w, rs, s)
    /\ w.published = ActiveSurface(w)

Seats(rs, s, st) ==
    /\ st \in SUBSET Deferring
    /\ \A r \in st : r \in rs /\ s[r] = None

IInv ==
    /\ RegistryTypeOK
    /\ RegistryConsistent
    /\ AgentStartTypeOK
    /\ Seats(readers, slot, seated)
    /\ Settled(wid, readers, slot, seated, caps)

-----------------------------------------------------------------------------
(* What a helper leaves alone.                                             *)

SameWish(w, u) ==
    /\ u.bound = w.bound
    /\ u.selected = w.selected
    /\ u.viewActive = w.viewActive
    /\ u.starting = w.starting

SameReader(w, u) ==
    /\ u.boundPresent = w.boundPresent
    /\ u.readerName = w.readerName

SameSigns(w, u) ==
    /\ u.signs = w.signs
    /\ u.published = w.published

SameHolder(w, u) ==
    /\ u.card = w.card
    /\ u.identityRead = w.identityRead
    /\ u.identity = w.identity
    /\ u.photo = w.photo
    /\ u.photoOp = w.photoOp

SameDialogs(w, u) ==
    /\ u.dialog = w.dialog
    /\ u.photoDialog = w.photoDialog

(* Nothing of a holder.                                                    *)
Empty(w) ==
    /\ w.identity = None
    /\ w.photo = None
    /\ w.photoOp = None
    /\ ~w.identityRead

-----------------------------------------------------------------------------
(* Which reader the widget reflects.                                       *)

(* The first reader that holds a card, if any does.                        *)
LEMMA FirstReader ==
    ASSUME NEW rs \in SUBSET Readers, NEW s
    PROVE  LET r == FirstReaderWithCard(rs, s) IN
           \/ r = None /\ \A q \in rs : s[q] = None
           \/ r # None /\ r \in rs /\ s[r] # None /\ \A q \in rs : s[q] # None => r <= q
<1> DEFINE holding == {r \in rs : s[r] # None}
<1>1. CASE holding = {}
  BY <1>1 DEF FirstReaderWithCard
<1>2. CASE holding # {}
  <2>1. \E r \in holding : \A q \in holding : r <= q
    BY <1>2, RegistryAssumption
  <2> DEFINE r == CHOOSE r \in holding : \A q \in holding : r <= q
  <2>2. r \in holding /\ \A q \in holding : r <= q
    BY <2>1
  <2>3. FirstReaderWithCard(rs, s) = r
    BY <1>2 DEF FirstReaderWithCard
  <2> HIDE DEF r
  <2> QED
    BY <2>2, <2>3, RegistryAssumption
<1> QED
  BY <1>1, <1>2

(* What the walk over the roster chooses, and what it did not find when it *)
(* chose nothing.                                                          *)
WalkEnds(r, w, rs, s) ==
    /\ r # None => r \in rs /\ s[r] # None
    /\ w.bound # None /\ r # None =>
          \/ NameOf[r] = w.bound
          \/ /\ \A q \in rs : NameOf[q] # w.bound
             /\ <<w.bound, NameOf[r]>> \in SameUnit
    /\ w.bound # None /\ r = None =>
          IF \E q \in rs : NameOf[q] = w.bound
          THEN \A q \in rs : NameOf[q] = w.bound => s[q] = None
          ELSE \A q \in rs : <<w.bound, NameOf[q]>> \in SameUnit => s[q] = None
    /\ w.bound = None /\ r = None => \A q \in rs : s[q] = None

LEMMA PickEffect ==
    ASSUME NEW rs \in SUBSET Readers, NEW s, NEW w
    PROVE  WalkEnds(Pick(w, rs, s), w, rs, s)
<1> DEFINE named(n) == {r \in rs : NameOf[r] = n}
           unit == {r \in rs : <<w.bound, NameOf[r]>> \in SameUnit}
           r == Pick(w, rs, s)
<1>1. \A n : LET q == CardByName(n, rs, s) IN
              \/ q = None /\ \A p \in rs : NameOf[p] = n => s[p] = None
              \/ q # None /\ q \in rs /\ NameOf[q] = n /\ s[q] # None
  <2> TAKE n
  <2>1. named(n) \in SUBSET Readers
    OBVIOUS
  <2> QED
    BY <2>1, FirstReader DEF CardByName
<1>2. LET q == FirstReaderWithCard(unit, s) IN
      \/ q = None /\ \A p \in rs : <<w.bound, NameOf[p]>> \in SameUnit => s[p] = None
      \/ q # None /\ q \in rs /\ <<w.bound, NameOf[q]>> \in SameUnit /\ s[q] # None
  <2>1. unit \in SUBSET Readers
    OBVIOUS
  <2> QED
    BY <2>1, FirstReader
<1>3. LET q == FirstReaderWithCard(rs, s) IN
      \/ q = None /\ \A p \in rs : s[p] = None
      \/ q # None /\ q \in rs /\ s[q] # None
  BY FirstReader
<1>4. CASE w.bound # None /\ CardByName(w.bound, rs, s) # None
  BY <1>1, <1>4 DEF Pick, WalkEnds
<1>5. CASE w.bound # None /\ CardByName(w.bound, rs, s) = None
  <2>1. \A p \in rs : NameOf[p] = w.bound => s[p] = None
    BY <1>1, <1>5
  <2>2. CASE \E q \in rs : NameOf[q] = w.bound
    BY <1>5, <2>1, <2>2 DEF Pick, WalkEnds
  <2>3. CASE ~(\E q \in rs : NameOf[q] = w.bound)
    BY <1>2, <1>5, <2>3 DEF Pick, WalkEnds
  <2> QED
    BY <2>2, <2>3
<1>6. CASE w.bound = None
  BY <1>1, <1>3, <1>6 DEF Pick, WalkEnds
<1> QED
  BY <1>4, <1>5, <1>6

(* pickActiveReader, computeCardDetected and updateBoundReaderPresent are  *)
(* those walks, over the registry after the event.                         *)
LEMMA WalksAfterTheEvent ==
    ASSUME NEW w
    PROVE  /\ PickActiveReader(w) = Pick(w, readers', slot')
           /\ CardDetected(w) <=> Detects(w, readers', seated')
           /\ BoundReaderPresent(w) <=> Present(w, readers')
<1>1. PickActiveReader(w) = Pick(w, readers', slot')
  BY DEF PickActiveReader, Pick, WithCardByName, CardByName, SameUnitWithCard, Listed
<1>2. CardDetected(w) <=> Detects(w, readers', seated')
  BY DEF CardDetected, Detects, Listed
<1>3. BoundReaderPresent(w) <=> Present(w, readers')
  BY DEF BoundReaderPresent, Present, Listed
<1> QED
  BY <1>1, <1>2, <1>3

-----------------------------------------------------------------------------
(* A record of members stays one when a member is given a value of its     *)
(* type: the update of several is one update after another.                *)
LEMMA WidgetFields ==
    ASSUME NEW w \in Widget
    PROVE  /\ \A x \in Names \cup {None} :
              /\ [w EXCEPT !.bound = x] \in Widget
              /\ [w EXCEPT !.selected = x] \in Widget
              /\ [w EXCEPT !.readerName = x] \in Widget
           /\ \A x \in BOOLEAN :
              /\ [w EXCEPT !.boundPresent = x] \in Widget
              /\ [w EXCEPT !.identityRead = x] \in Widget
              /\ [w EXCEPT !.busy = x] \in Widget
              /\ [w EXCEPT !.pinManagement = x] \in Widget
              /\ [w EXCEPT !.viewActive = x] \in Widget
              /\ [w EXCEPT !.detected = x] \in Widget
              /\ [w EXCEPT !.installed = x] \in Widget
              /\ [w EXCEPT !.starting = x] \in Widget
           /\ \A x \in Cards \cup {None} :
              /\ [w EXCEPT !.card = x] \in Widget
              /\ [w EXCEPT !.identityOp = x] \in Widget
              /\ [w EXCEPT !.photoOp = x] \in Widget
              /\ [w EXCEPT !.identity = x] \in Widget
              /\ [w EXCEPT !.photo = x] \in Widget
              /\ [w EXCEPT !.error = x] \in Widget
              /\ [w EXCEPT !.dialog = x] \in Widget
              /\ [w EXCEPT !.photoDialog = x] \in Widget
           /\ \A x \in State : [w EXCEPT !.state = x] \in Widget
           /\ \A x \in SUBSET SignEntry : [w EXCEPT !.signs = x] \in Widget
           /\ \A x \in Surface : [w EXCEPT !.published = x] \in Widget
<1>1. ASSUME NEW x \in Names \cup {None} PROVE [w EXCEPT !.bound = x] \in Widget
  BY SMT DEF Widget
<1>2. ASSUME NEW x \in BOOLEAN PROVE [w EXCEPT !.boundPresent = x] \in Widget
  BY SMT DEF Widget
<1>3. ASSUME NEW x \in Names \cup {None} PROVE [w EXCEPT !.selected = x] \in Widget
  BY SMT DEF Widget
<1>4. ASSUME NEW x \in Names \cup {None} PROVE [w EXCEPT !.readerName = x] \in Widget
  BY SMT DEF Widget
<1>5. ASSUME NEW x \in Cards \cup {None} PROVE [w EXCEPT !.card = x] \in Widget
  BY SMT DEF Widget
<1>6. ASSUME NEW x \in Cards \cup {None} PROVE [w EXCEPT !.identityOp = x] \in Widget
  BY SMT DEF Widget
<1>7. ASSUME NEW x \in Cards \cup {None} PROVE [w EXCEPT !.photoOp = x] \in Widget
  BY SMT DEF Widget
<1>8. ASSUME NEW x \in BOOLEAN PROVE [w EXCEPT !.identityRead = x] \in Widget
  BY SMT DEF Widget
<1>9. ASSUME NEW x \in Cards \cup {None} PROVE [w EXCEPT !.identity = x] \in Widget
  BY SMT DEF Widget
<1>10. ASSUME NEW x \in Cards \cup {None} PROVE [w EXCEPT !.photo = x] \in Widget
  BY SMT DEF Widget
<1>11. ASSUME NEW x \in BOOLEAN PROVE [w EXCEPT !.busy = x] \in Widget
  BY SMT DEF Widget
<1>12. ASSUME NEW x \in Cards \cup {None} PROVE [w EXCEPT !.error = x] \in Widget
  BY SMT DEF Widget
<1>13. ASSUME NEW x \in State PROVE [w EXCEPT !.state = x] \in Widget
  BY SMT DEF Widget
<1>14. ASSUME NEW x \in BOOLEAN PROVE [w EXCEPT !.pinManagement = x] \in Widget
  BY SMT DEF Widget
<1>15. ASSUME NEW x \in BOOLEAN PROVE [w EXCEPT !.viewActive = x] \in Widget
  BY SMT DEF Widget
<1>16. ASSUME NEW x \in BOOLEAN PROVE [w EXCEPT !.detected = x] \in Widget
  BY SMT DEF Widget
<1>17. ASSUME NEW x \in BOOLEAN PROVE [w EXCEPT !.installed = x] \in Widget
  BY SMT DEF Widget
<1>18. ASSUME NEW x \in BOOLEAN PROVE [w EXCEPT !.starting = x] \in Widget
  BY SMT DEF Widget
<1>19. ASSUME NEW x \in SUBSET SignEntry PROVE [w EXCEPT !.signs = x] \in Widget
  BY SMT DEF Widget
<1>20. ASSUME NEW x \in Surface PROVE [w EXCEPT !.published = x] \in Widget
  BY SMT DEF Widget
<1>21. ASSUME NEW x \in Cards \cup {None} PROVE [w EXCEPT !.dialog = x] \in Widget
  BY SMT DEF Widget
<1>22. ASSUME NEW x \in Cards \cup {None} PROVE [w EXCEPT !.photoDialog = x] \in Widget
  BY SMT DEF Widget
<1> QED
  BY <1>1, <1>2, <1>3, <1>4, <1>5, <1>6, <1>7, <1>8, <1>9, <1>10, <1>11,
     <1>12, <1>13, <1>14, <1>15, <1>16, <1>17, <1>18, <1>19, <1>20, <1>21,
     <1>22, Zenon

-----------------------------------------------------------------------------
(* The helpers of refresh, in their order.                                 *)

LEMMA UpdateReaderRostersEffect ==
    ASSUME NEW w \in Widget
    PROVE  LET u == UpdateReaderRosters(w) IN
           /\ u \in Widget
           /\ u.boundPresent <=> Present(w, readers')
           /\ u.signs \subseteq w.signs
           /\ \A e \in w.signs : e.job => e \in u.signs
           /\ SameWish(w, u) /\ SameHolder(w, u) /\ SameDialogs(w, u)
           /\ u.identityOp = w.identityOp /\ u.busy = w.busy /\ u.state = w.state
           /\ u.readerName = w.readerName
<1> DEFINE u == UpdateReaderRosters(w)
<1>1. u = [w EXCEPT !.signs = {e \in w.signs : e.job \/ Listed(e.name)},
                    !.boundPresent = BoundReaderPresent(w)]
  BY DEF UpdateReaderRosters
<1>2. /\ u.signs = {e \in w.signs : e.job \/ Listed(e.name)}
      /\ u.boundPresent = BoundReaderPresent(w)
      /\ SameWish(w, u) /\ SameHolder(w, u) /\ SameDialogs(w, u)
      /\ u.identityOp = w.identityOp /\ u.busy = w.busy /\ u.state = w.state
      /\ u.readerName = w.readerName
  BY <1>1 DEF Widget, SameWish, SameHolder, SameDialogs
<1>3. /\ {e \in w.signs : e.job \/ Listed(e.name)} \in SUBSET SignEntry
      /\ BoundReaderPresent(w) \in BOOLEAN
  <2>1. w.signs \in SUBSET SignEntry
    BY DEF Widget
  <2> QED
    BY <2>1 DEF BoundReaderPresent
<1> HIDE DEF u
<1>4. u \in Widget
  BY <1>1, <1>3, WidgetFields
<1> QED
  BY <1>2, <1>4, WalksAfterTheEvent DEF u

(* bindCard keeps everything of a card that stays, and nothing of another. *)
LEMMA BindCardEffect ==
    ASSUME NEW w \in Widget, w.card # None => Held(w), NEW c \in Cards \cup {None}
    PROVE  LET u == BindCard(w, c) IN
           /\ u \in Widget
           /\ u.card = c /\ Held(u)
           /\ IF c # None /\ w.card = c THEN u = w ELSE Empty(u) /\ u.identityOp = None
           /\ SameWish(w, u) /\ SameReader(w, u) /\ SameSigns(w, u) /\ SameDialogs(w, u)
           /\ u.state = w.state
<1> DEFINE u == BindCard(w, c)
<1>1. CASE c # None /\ w.card = c
  BY <1>1 DEF BindCard, SameWish, SameReader, SameSigns, SameDialogs
<1>2. CASE ~(c # None /\ w.card = c)
  <2> DEFINE b == IF w.identityOp # None THEN FALSE ELSE w.busy
  <2>1. u = [w EXCEPT !.busy = b,
                   !.identityOp = None, !.photoOp = None, !.card = c,
                   !.identityRead = FALSE, !.photo = None, !.identity = None]
    BY <1>2 DEF BindCard
  <2>2. b \in BOOLEAN
    BY DEF Widget
  <2> HIDE DEF b
  <2>3. /\ u.card = c /\ u.identityOp = None /\ Empty(u)
        /\ SameWish(w, u) /\ SameReader(w, u) /\ SameSigns(w, u) /\ SameDialogs(w, u)
        /\ u.state = w.state
    BY <2>1 DEF Widget, SameWish, SameReader, SameSigns, SameDialogs, Empty
  <2> HIDE DEF u
  <2>4. u \in Widget
    BY <2>1, <2>2, WidgetFields
  <2>5. Held(u)
    BY <2>3 DEF Held, Empty
  <2> QED
    BY <1>2, <2>3, <2>4, <2>5 DEF u
<1> QED
  BY <1>1, <1>2

(* The launcher and the page, from the card.                               *)
LEMMA ClassifiedEffect ==
    ASSUME NEW w \in Widget
    PROVE  LET u == Classified(w) IN
           /\ u \in Widget
           /\ u.pinManagement <=> w.card # None /\ PinManagement \in caps'[w.card]
           /\ w.card = None => u.state = "NoCard"
           /\ w.card # None =>
                 /\ u.state \in ReadyState => (Unlock \in caps'[w.card] => w.identityRead)
                 /\ u.state = "PreAuthRequired" => ~w.identityRead
                 /\ u.state # "NoCard"
           /\ SameWish(w, u) /\ SameReader(w, u) /\ SameSigns(w, u) /\ SameDialogs(w, u)
           /\ SameHolder(w, u) /\ u.identityOp = w.identityOp /\ u.busy = w.busy
<1> DEFINE u == Classified(w)
           m == w.card # None /\ HasCapability(caps', w.card, PinManagement)
           v == [w EXCEPT !.pinManagement = m]
           p == IF w.card = None THEN "NoCard" ELSE CardState(w)
<1>1. m \in BOOLEAN /\ (m <=> w.card # None /\ PinManagement \in caps'[w.card])
  BY DEF HasCapability
<1> HIDE DEF m
<1>2. /\ v \in Widget /\ v.pinManagement = m
      /\ SameWish(w, v) /\ SameReader(w, v) /\ SameSigns(w, v) /\ SameDialogs(w, v)
      /\ SameHolder(w, v) /\ v.identityOp = w.identityOp /\ v.busy = w.busy
  BY <1>1 DEF Widget, SameWish, SameReader, SameSigns, SameDialogs, SameHolder
<1>3. u = [v EXCEPT !.state = p]
  BY DEF Classified, UpdatePinManagement, m
<1> HIDE DEF v, u
<1>4. /\ p \in State
      /\ w.card = None => p = "NoCard"
      /\ w.card # None =>
            /\ p \in ReadyState => (Unlock \in caps'[w.card] => w.identityRead)
            /\ p = "PreAuthRequired" => ~w.identityRead
            /\ p # "NoCard"
  BY <1>2 DEF CardState, UnlockRequired, HasCapability, State, ReadyState, SameHolder
<1> HIDE DEF p
<1>5. /\ u \in Widget /\ u.state = p /\ u.pinManagement = m
      /\ SameWish(v, u) /\ SameReader(v, u) /\ SameSigns(v, u) /\ SameDialogs(v, u)
      /\ SameHolder(v, u) /\ u.identityOp = v.identityOp /\ u.busy = v.busy
  BY <1>2, <1>3, <1>4 DEF Widget, SameWish, SameReader, SameSigns, SameDialogs, SameHolder
<1> QED
  BY <1>1, <1>2, <1>4, <1>5 DEF SameWish, SameReader, SameSigns, SameDialogs, SameHolder, u

(* From w to u a read of the shown card may have started: freely, for an   *)
(* open popup and a card that raises no prompt.                            *)
FreeRead(w, u) ==
    \/ u.identityOp = w.identityOp
    \/ /\ w.identityOp = None /\ ~w.identityRead /\ w.card # None
       /\ u.identityOp = w.card
       /\ u.viewActive /\ Unlock \notin caps'[w.card]

LEMMA ReadIdentityEffect ==
    ASSUME NEW w \in Widget, Held(w), ~w.identityRead
    PROVE  LET u == ReadIdentity(w) IN
           /\ u \in Widget /\ Held(u)
           /\ u.identityOp = IF w.card # None /\ w.identityOp = None THEN w.card ELSE w.identityOp
           /\ SameWish(w, u) /\ SameReader(w, u) /\ SameSigns(w, u) /\ SameDialogs(w, u)
           /\ SameHolder(w, u)
           /\ u.state = w.state /\ u.pinManagement = w.pinManagement /\ u.detected = w.detected
<1> DEFINE u == ReadIdentity(w)
<1>1. CASE w.card = None \/ w.identityOp # None
  <2>1. u = w
    BY <1>1 DEF ReadIdentity
  <2> HIDE DEF u
  <2> QED
    BY <1>1, <2>1 DEF SameWish, SameReader, SameSigns, SameDialogs, SameHolder, u
<1>2. CASE ~(w.card = None \/ w.identityOp # None)
  <2>1. u = [w EXCEPT !.error = None, !.identityOp = w.card, !.busy = TRUE]
    BY <1>2 DEF ReadIdentity
  <2> HIDE DEF u
  <2>2. /\ u.identityOp = w.card /\ u.busy
        /\ SameWish(w, u) /\ SameReader(w, u) /\ SameSigns(w, u) /\ SameDialogs(w, u)
        /\ SameHolder(w, u)
        /\ u.state = w.state /\ u.pinManagement = w.pinManagement /\ u.detected = w.detected
    BY <2>1 DEF Widget, SameWish, SameReader, SameSigns, SameDialogs, SameHolder
  <2>3. w.card \in Cards \cup {None}
    BY DEF Widget
  <2>4. u \in Widget
    BY <2>1, <2>3, WidgetFields
  <2>5. Held(u)
    BY <2>2 DEF Held, SameHolder
  <2> QED
    BY <1>2, <2>2, <2>4, <2>5 DEF u
<1> QED
  BY <1>1, <1>2

LEMMA EnsureFreeReadEffect ==
    ASSUME NEW w \in Widget, Held(w), w.viewActive
    PROVE  LET u == EnsureFreeRead(w) IN
           /\ u \in Widget /\ Held(u) /\ FreeRead(w, u)
           /\ SameWish(w, u) /\ SameReader(w, u) /\ SameSigns(w, u) /\ SameDialogs(w, u)
           /\ SameHolder(w, u)
           /\ u.state = w.state /\ u.pinManagement = w.pinManagement /\ u.detected = w.detected
<1> DEFINE u == EnsureFreeRead(w)
           idle == \/ w.card = None \/ UnlockRequired(w) \/ w.identityRead
                   \/ w.identityOp # None \/ w.state \notin {"IdentityOnly", "Hybrid"}
<1>1. CASE idle
  <2>1. u = w
    BY <1>1 DEF EnsureFreeRead
  <2> HIDE DEF u
  <2> QED
    BY <2>1 DEF SameWish, SameReader, SameSigns, SameDialogs, SameHolder, FreeRead, u
<1>2. CASE ~idle
  <2>1. u = ReadIdentity(w) /\ ~w.identityRead /\ w.identityOp = None /\ w.card # None
    BY <1>2 DEF EnsureFreeRead
  <2>2. Unlock \notin caps'[w.card]
    BY <1>2 DEF UnlockRequired, HasCapability
  <2> HIDE DEF u
  <2>3. /\ u \in Widget /\ Held(u) /\ u.identityOp = w.card
        /\ SameWish(w, u) /\ SameReader(w, u) /\ SameSigns(w, u) /\ SameDialogs(w, u)
        /\ SameHolder(w, u)
        /\ u.state = w.state /\ u.pinManagement = w.pinManagement /\ u.detected = w.detected
    BY <2>1, ReadIdentityEffect
  <2>4. FreeRead(w, u)
    BY <2>1, <2>2, <2>3 DEF FreeRead, SameWish
  <2> QED
    BY <2>3, <2>4 DEF u
<1> QED
  BY <1>1, <1>2

(* The page is that of the card, whichever path led there.                 *)
LEMMA ClassifyActiveCardEffect ==
    ASSUME NEW w \in Widget, Held(w)
    PROVE  LET u == ClassifyActiveCard(w) IN
           /\ u \in Widget /\ Held(u) /\ FreeRead(w, u)
           /\ u.pinManagement <=> w.card # None /\ PinManagement \in caps'[w.card]
           /\ w.card # None =>
                 /\ u.state \in ReadyState => (Unlock \in caps'[w.card] => w.identityRead)
                 /\ u.state = "PreAuthRequired" => ~w.identityRead
                 /\ u.state # "NoCard"
           /\ SameWish(w, u) /\ SameReader(w, u) /\ SameSigns(w, u) /\ SameDialogs(w, u)
           /\ SameHolder(w, u)
<1> DEFINE v == Classified(w)
           u == ClassifyActiveCard(w)
<1>1. /\ v \in Widget
      /\ v.pinManagement <=> w.card # None /\ PinManagement \in caps'[w.card]
      /\ w.card # None =>
            /\ v.state \in ReadyState => (Unlock \in caps'[w.card] => w.identityRead)
            /\ v.state = "PreAuthRequired" => ~w.identityRead
            /\ v.state # "NoCard"
      /\ SameWish(w, v) /\ SameReader(w, v) /\ SameSigns(w, v) /\ SameDialogs(w, v)
      /\ SameHolder(w, v) /\ v.identityOp = w.identityOp /\ v.busy = w.busy
  BY ClassifiedEffect
<1>2. u = IF w.viewActive THEN EnsureFreeRead(v) ELSE v
  BY DEF ClassifyActiveCard
<1> HIDE DEF v, u
<1>3. Held(v)
  BY <1>1 DEF Held, SameHolder
<1>4. CASE w.viewActive
  <2>1. v.viewActive
    BY <1>1, <1>4 DEF SameWish
  <2>2. /\ u \in Widget /\ Held(u) /\ FreeRead(v, u)
        /\ SameWish(v, u) /\ SameReader(v, u) /\ SameSigns(v, u) /\ SameDialogs(v, u)
        /\ SameHolder(v, u)
        /\ u.state = v.state /\ u.pinManagement = v.pinManagement
    BY <1>1, <1>2, <1>3, <1>4, <2>1, EnsureFreeReadEffect
  <2> QED
    BY <1>1, <2>2 DEF SameWish, SameReader, SameSigns, SameDialogs, SameHolder, FreeRead, u
<1>5. CASE ~w.viewActive
  BY <1>1, <1>2, <1>3, <1>5 DEF FreeRead, u
<1> QED
  BY <1>4, <1>5

LEMMA LabelsTyped ==
    ASSUME NEW w \in Widget, NEW n \in Names \cup {None},
           NEW detected \in BOOLEAN, NEW installed \in BOOLEAN
    PROVE  [w EXCEPT !.readerName = n, !.detected = detected, !.installed = installed] \in Widget
  BY WidgetFields

LEMMA ShowNoCardEffect ==
    ASSUME RegistryTypeOK', NEW w \in Widget, w.card = None, Held(w), Empty(w),
           w.identityOp = None, NEW installed \in BOOLEAN
    PROVE  LET u == ShowNoCard(w, installed) IN
           /\ u \in Widget /\ Held(u) /\ Empty(u)
           /\ u.card = None /\ u.identityOp = None
           /\ Page(u, readers', seated', caps')
           /\ SameWish(w, u) /\ SameSigns(w, u) /\ SameDialogs(w, u)
           /\ u.boundPresent = w.boundPresent
           /\ u.state \in {"NoCard", "AgentUnavailable"}
<1> DEFINE m == w.card # None /\ HasCapability(caps', w.card, PinManagement)
           p == IF avail' THEN "NoCard" ELSE "AgentUnavailable"
           n == IF avail' THEN w.bound ELSE None
           d == avail' /\ CardDetected(w)
           u == ShowNoCard(w, installed)
<1>1. u = [w EXCEPT !.pinManagement = m, !.error = None, !.identityRead = FALSE,
                    !.state = p, !.readerName = n, !.detected = d, !.installed = installed]
  <2>1. UpdatePinManagement(w).bound = w.bound
    BY DEF UpdatePinManagement, Widget
  <2> QED
    BY <2>1 DEF ShowNoCard, UpdatePinManagement
<1>2. m \in BOOLEAN /\ ~m
  OBVIOUS
<1>3. p \in State /\ p \in {"NoCard", "AgentUnavailable"} /\ (p = "NoCard" <=> avail')
  BY DEF State
<1>4. n \in Names \cup {None}
  BY DEF Widget
<1>5. d \in BOOLEAN /\ (d <=> avail' /\ Detects(w, readers', seated'))
  <2>1. avail' \in BOOLEAN
    BY DEF RegistryTypeOK
  <2>2. CardDetected(w) <=> Detects(w, readers', seated')
    BY WalksAfterTheEvent
  <2>3. Detects(w, readers', seated') \in BOOLEAN
    BY DEF Detects
  <2>4. CardDetected(w) \in BOOLEAN
    BY DEF CardDetected
  <2> QED
    BY <2>1, <2>2, <2>3, <2>4
<1> HIDE DEF m, p, n, d, u
<1>6. /\ u.card = None /\ u.identityOp = None /\ ~u.identityRead
      /\ u.identity = w.identity /\ u.photo = w.photo /\ u.photoOp = w.photoOp
      /\ u.pinManagement = m /\ u.state = p /\ u.detected = d
      /\ u.boundPresent = w.boundPresent
      /\ SameWish(w, u) /\ SameSigns(w, u) /\ SameDialogs(w, u)
  BY <1>1 DEF Widget, SameWish, SameSigns, SameDialogs
<1>7. u \in Widget
  <2> DEFINE v == [w EXCEPT !.pinManagement = m, !.error = None, !.identityRead = FALSE,
                            !.state = p]
  <2>1. v \in Widget
    BY <1>2, <1>3, WidgetFields
  <2>2. u = [v EXCEPT !.readerName = n, !.detected = d, !.installed = installed]
    BY <1>1
  <2>3. d \in BOOLEAN
    BY <1>5
  <2> HIDE DEF v
  <2>4. [v EXCEPT !.readerName = n, !.detected = d, !.installed = installed] \in Widget
    BY <1>4, <2>1, <2>3, LabelsTyped
  <2> QED
    BY <2>2, <2>4
<1>8. Held(u) /\ Empty(u)
  BY <1>6 DEF Held, Empty
<1>9. Detects(u, readers', seated') <=> Detects(w, readers', seated')
  BY <1>6 DEF Detects, SameWish
<1>10. Page(u, readers', seated', caps')
  BY <1>2, <1>3, <1>5, <1>6, <1>9 DEF Page, ReadyState
<1> QED
  BY <1>3, <1>6, <1>7, <1>8, <1>10 DEF u

LEMMA ShowReaderEffect ==
    ASSUME NEW w \in Widget, Held(w), w.card # None, NEW r \in Readers
    PROVE  LET u == ShowReader(w, r) IN
           /\ u \in Widget /\ Held(u) /\ FreeRead(w, u)
           /\ Page(u, readers', seated', caps')
           /\ SameWish(w, u) /\ SameSigns(w, u) /\ SameDialogs(w, u) /\ SameHolder(w, u)
           /\ u.boundPresent = w.boundPresent
           /\ u.readerName = NameOf[r]
<1> DEFINE v == ClassifyActiveCard(w)
           u == ShowReader(w, r)
<1>1. /\ v \in Widget /\ Held(v) /\ FreeRead(w, v)
      /\ v.pinManagement <=> w.card # None /\ PinManagement \in caps'[w.card]
      /\ v.state \in ReadyState => (Unlock \in caps'[w.card] => w.identityRead)
      /\ v.state = "PreAuthRequired" => ~w.identityRead
      /\ v.state # "NoCard"
      /\ SameWish(w, v) /\ SameReader(w, v) /\ SameSigns(w, v) /\ SameDialogs(w, v)
      /\ SameHolder(w, v)
  BY ClassifyActiveCardEffect
<1>2. u = [v EXCEPT !.detected = FALSE, !.readerName = NameOf[r]]
  BY DEF ShowReader
<1>3. NameOf[r] \in Names
  BY HandlerAssumption
<1> HIDE DEF u, v
<1>4. /\ u.readerName = NameOf[r] /\ u.identityOp = v.identityOp /\ u.busy = v.busy
      /\ u.pinManagement = v.pinManagement /\ u.state = v.state
      /\ u.boundPresent = v.boundPresent
      /\ SameWish(v, u) /\ SameSigns(v, u) /\ SameDialogs(v, u) /\ SameHolder(v, u)
  BY <1>1, <1>2 DEF Widget, SameWish, SameSigns, SameDialogs, SameHolder
<1>5. u \in Widget
  BY <1>1, <1>2, <1>3, WidgetFields
<1>6. SameWish(w, u) /\ SameSigns(w, u) /\ SameDialogs(w, u) /\ SameHolder(w, u)
      /\ u.boundPresent = w.boundPresent
  BY <1>1, <1>4 DEF SameWish, SameReader, SameSigns, SameDialogs, SameHolder
<1>7. FreeRead(w, u)
  BY <1>1, <1>4 DEF FreeRead, SameWish
<1>8. Held(u)
  BY <1>1, <1>4 DEF Held, SameHolder
<1>9. Page(u, readers', seated', caps')
  BY <1>1, <1>4, <1>6 DEF Page, SameHolder
<1> QED
  BY <1>4, <1>5, <1>6, <1>7, <1>8, <1>9 DEF u

-----------------------------------------------------------------------------
(* What the QML and the signing surfaces make of a record.                 *)

SamePage(w, u) ==
    /\ u.state = w.state
    /\ u.pinManagement = w.pinManagement
    /\ u.detected = w.detected

SameRead(w, u) ==
    /\ u.identityOp = w.identityOp
    /\ u.busy = w.busy

(* A dialog that is open still was not closed by a change of page.         *)
KeptDialog(w, v, u) ==
    u.photoDialog # None =>
        /\ u.photoDialog = v.photoDialog
        /\ v.state = w.state /\ v.readerName = w.readerName

LEMMA PageFollowsEffect ==
    ASSUME NEW w, NEW v \in Widget
    PROVE  LET u == PageFollows(w, v) IN
           /\ u \in Widget
           /\ SameWish(v, u) /\ SameReader(v, u) /\ SameSigns(v, u) /\ SameHolder(v, u)
           /\ SamePage(v, u) /\ SameRead(v, u) /\ u.dialog = v.dialog
           /\ KeptDialog(w, v, u)
<1> DEFINE u == PageFollows(w, v)
           d == IF v.state = w.state /\ v.readerName = w.readerName THEN v.photoDialog ELSE None
<1>1. u = [v EXCEPT !.photoDialog = d]
  BY DEF PageFollows, Widget
<1>2. d \in Cards \cup {None}
  BY DEF Widget
<1>3. d # None => d = v.photoDialog /\ v.state = w.state /\ v.readerName = w.readerName
  OBVIOUS
<1> HIDE DEF d, u
<1>4. u \in Widget /\ u.photoDialog = d
  BY <1>1, <1>2 DEF Widget
<1> QED
  BY <1>1, <1>3, <1>4
     DEF Widget, SameWish, SameReader, SameSigns, SameHolder, SamePage, SameRead, KeptDialog, u

LEMMA RenderedEffect ==
    ASSUME NEW v \in Widget
    PROVE  LET u == Rendered(v) IN
           /\ u \in Widget
           /\ SameWish(v, u) /\ SameReader(v, u) /\ SameSigns(v, u) /\ SameHolder(v, u)
           /\ SamePage(v, u) /\ SameRead(v, u)
           /\ u.photoDialog # None => u.photoDialog = v.photoDialog
<1> DEFINE u == Rendered(v)
           x == [v EXCEPT !.dialog = None, !.photoDialog = None]
<1>1. u = v \/ u = x
  BY DEF Rendered
<1>2. /\ x \in Widget /\ x.photoDialog = None
      /\ SameWish(v, x) /\ SameReader(v, x) /\ SameSigns(v, x) /\ SameHolder(v, x)
      /\ SamePage(v, x) /\ SameRead(v, x)
  <2>1. x \in Widget
    BY WidgetFields
  <2> QED
    BY <2>1 DEF Widget, SameWish, SameReader, SameSigns, SameHolder, SamePage, SameRead
<1> HIDE DEF x, u
<1> QED
  BY <1>1, <1>2 DEF SameWish, SameReader, SameSigns, SameHolder, SamePage, SameRead, u

(* What is published depends on the entries, the reader and the card only. *)
LEMMA SurfaceEffect ==
    ASSUME NEW w \in Widget
    PROVE  /\ ActiveSurface(w) \in Surface
           /\ \A u : u.signs = w.signs /\ u.readerName = w.readerName /\ u.card = w.card
                        => ActiveSurface(u) = ActiveSurface(w)
<1>1. \A u : u.signs = w.signs /\ u.readerName = w.readerName /\ u.card = w.card
                => ActiveEntries(u) = ActiveEntries(w)
  BY DEF ActiveEntries
<1>2. \A u : u.signs = w.signs /\ u.readerName = w.readerName /\ u.card = w.card
                => ActiveSurface(u) = ActiveSurface(w)
  <2> DEFINE shown(entries) ==
                IF entries = {} THEN NoSurface
                ELSE LET e == CHOOSE e \in entries : TRUE
                     IN  [busy |-> e.job, outcome |-> e.outcome, of |-> e.of]
  <2>1. \A u : ActiveSurface(u) = shown(ActiveEntries(u))
    BY DEF ActiveSurface
  <2> HIDE DEF shown
  <2> QED
    BY <1>1, <2>1
<1>3. CASE ActiveEntries(w) = {}
  BY <1>2, <1>3 DEF ActiveSurface, NoSurface, Surface, Outcome
<1>4. CASE ActiveEntries(w) # {}
  <2> DEFINE e == CHOOSE e \in ActiveEntries(w) : TRUE
  <2>1. e \in ActiveEntries(w)
    BY <1>4
  <2>2. e \in SignEntry
    BY <2>1 DEF ActiveEntries, Widget
  <2>3. ActiveSurface(w) = [busy |-> e.job, outcome |-> e.outcome, of |-> e.of]
    BY <1>4 DEF ActiveSurface
  <2> HIDE DEF e
  <2>4. e.job \in BOOLEAN /\ e.outcome \in Outcome /\ e.of \in Cards \cup {None}
    BY <2>2 DEF SignEntry
  <2> QED
    BY <1>2, <2>3, <2>4 DEF Surface
<1> QED
  BY <1>3, <1>4

LEMMA PublishEffect ==
    ASSUME NEW v \in Widget
    PROVE  LET u == PublishSignSurfaces(v) IN
           /\ u \in Widget
           /\ u.published = ActiveSurface(u)
           /\ SameWish(v, u) /\ SameReader(v, u) /\ SameHolder(v, u) /\ u.signs = v.signs
           /\ SamePage(v, u) /\ SameRead(v, u) /\ SameDialogs(v, u)
<1> DEFINE u == PublishSignSurfaces(v)
           x == ActiveSurface(v)
<1>1. u = [v EXCEPT !.published = x]
  BY DEF PublishSignSurfaces
<1>2. x \in Surface
  BY SurfaceEffect
<1> HIDE DEF x, u
<1>3. /\ u \in Widget /\ u.published = x /\ u.signs = v.signs
      /\ SameWish(v, u) /\ SameReader(v, u) /\ SameHolder(v, u)
      /\ SamePage(v, u) /\ SameRead(v, u) /\ SameDialogs(v, u)
  BY <1>1, <1>2 DEF Widget, SameWish, SameReader, SameHolder, SamePage, SameRead, SameDialogs
<1>4. ActiveSurface(u) = x
  BY <1>3, SurfaceEffect DEF SameReader, SameHolder, x
<1> QED
  BY <1>3, <1>4 DEF u

-----------------------------------------------------------------------------
(* refresh.                                                                *)

(* From w to u: what the user set stays, and so does the holder of a card  *)
(* that stays; a dialog stays open only on the page it was opened on.      *)
Followed(w, u) ==
    /\ SameWish(w, u)
    /\ IF u.card # None /\ u.card = w.card
       THEN SameHolder(w, u) /\ FreeRead(w, u)
       ELSE Empty(u) /\ (u.identityOp # None => u.viewActive /\ Unlock \notin caps'[u.card])
    /\ u.photoDialog # None =>
          u.photoDialog = w.photoDialog /\ u.state = w.state /\ u.readerName = w.readerName

(* ... and running signs keep their entries.                               *)
Refreshed(w, u) ==
    /\ Followed(w, u)
    /\ u.signs \subseteq w.signs
    /\ \A e \in w.signs : e.job => e \in u.signs

(* Whatever record refresh is given, it settles it in the registry after   *)
(* the event.                                                              *)
LEMMA RefreshEffect ==
    ASSUME RegistryTypeOK', NEW w \in Widget, Entries(w), w.card # None => Held(w),
           Refresh(w)
    PROVE  /\ Settled(wid', readers', slot', seated', caps')
           /\ Refreshed(w, wid')
<1> DEFINE r == PickActiveReader(w)
           a == UpdateReaderRosters(w)
           c == IF r = None THEN None ELSE slot'[r]
           b == BindCard(a, c)
<1>1. PICK installed \in AgentState(w) :
         wid' = PublishSignSurfaces(Rendered(PageFollows(w,
                   IF r = None THEN ShowNoCard(b, installed) ELSE ShowReader(b, r))))
  BY DEF Refresh
<1> DEFINE v == IF r = None THEN ShowNoCard(b, installed) ELSE ShowReader(b, r)
           p == PageFollows(w, v)
           d == Rendered(p)
<1>2. installed \in BOOLEAN
  BY AgentStartAssumption DEF AgentState, Widget
<1>3. /\ r = Pick(w, readers', slot')
      /\ r # None => r \in Readers /\ c \in Cards /\ c # None
      /\ c \in Cards \cup {None}
  <2>1. r = Pick(w, readers', slot')
    BY WalksAfterTheEvent
  <2>2. readers' \in SUBSET Readers /\ slot' \in [Readers -> Cards \cup {None}]
    BY DEF RegistryTypeOK
  <2> HIDE DEF r
  <2>3. r # None => r \in readers' /\ slot'[r] # None
    BY <2>1, <2>2, PickEffect DEF WalkEnds
  <2> QED
    BY <2>1, <2>2, <2>3
<1>4. wid' = PublishSignSurfaces(d)
  BY <1>1
<1>5. /\ a \in Widget
      /\ a.boundPresent <=> Present(w, readers')
      /\ a.signs \subseteq w.signs
      /\ \A e \in w.signs : e.job => e \in a.signs
      /\ SameWish(w, a) /\ SameHolder(w, a) /\ SameDialogs(w, a)
      /\ a.identityOp = w.identityOp /\ a.busy = w.busy /\ a.state = w.state
      /\ a.readerName = w.readerName
  BY UpdateReaderRostersEffect
<1>6. a.card # None => Held(a)
  BY <1>5 DEF Held, SameHolder
<1> HIDE DEF a
<1>7. /\ b \in Widget /\ b.card = c /\ Held(b)
      /\ IF c # None /\ a.card = c THEN b = a ELSE Empty(b) /\ b.identityOp = None
      /\ SameWish(a, b) /\ SameReader(a, b) /\ SameSigns(a, b) /\ SameDialogs(a, b)
      /\ b.state = a.state
  BY <1>3, <1>5, <1>6, BindCardEffect
<1> HIDE DEF b, r
<1>8. /\ v \in Widget /\ Held(v) /\ v.card = c
      /\ Page(v, readers', seated', caps')
      /\ SameWish(b, v) /\ SameSigns(b, v) /\ SameDialogs(b, v)
      /\ v.boundPresent = b.boundPresent
      /\ r # None => SameHolder(b, v) /\ FreeRead(b, v) /\ v.readerName = NameOf[r]
      /\ r = None => Empty(v) /\ v.identityOp = None
  <2>1. CASE r = None
    <3>1. b.card = None /\ Empty(b) /\ b.identityOp = None
      BY <1>7, <2>1
    <3>2. v = ShowNoCard(b, installed)
      BY <2>1
    <3> HIDE DEF v
    <3> QED
      BY <1>2, <1>7, <2>1, <3>1, <3>2, ShowNoCardEffect
  <2>2. CASE r # None
    <3>1. b.card # None /\ r \in Readers
      BY <1>3, <1>7, <2>2
    <3>2. v = ShowReader(b, r)
      BY <2>2
    <3> HIDE DEF v
    <3>3. /\ v \in Widget /\ Held(v) /\ FreeRead(b, v)
          /\ Page(v, readers', seated', caps')
          /\ SameWish(b, v) /\ SameSigns(b, v) /\ SameDialogs(b, v) /\ SameHolder(b, v)
          /\ v.boundPresent = b.boundPresent
          /\ v.readerName = NameOf[r]
      BY <1>7, <3>1, <3>2, ShowReaderEffect
    <3> QED
      BY <1>7, <2>2, <3>3 DEF SameHolder
  <2> QED
    BY <2>1, <2>2
<1> HIDE DEF v, c
<1>9. /\ p \in Widget
      /\ SameWish(v, p) /\ SameReader(v, p) /\ SameSigns(v, p) /\ SameHolder(v, p)
      /\ SamePage(v, p) /\ SameRead(v, p)
      /\ KeptDialog(w, v, p)
  BY <1>8, PageFollowsEffect
<1> HIDE DEF p
<1>10. /\ d \in Widget
       /\ SameWish(p, d) /\ SameReader(p, d) /\ SameSigns(p, d) /\ SameHolder(p, d)
       /\ SamePage(p, d) /\ SameRead(p, d)
       /\ d.photoDialog # None => d.photoDialog = p.photoDialog
  BY <1>9, RenderedEffect
<1> HIDE DEF d
<1>11. /\ wid' \in Widget
       /\ wid'.published = ActiveSurface(wid')
       /\ SameWish(d, wid') /\ SameReader(d, wid') /\ SameHolder(d, wid') /\ wid'.signs = d.signs
       /\ SamePage(d, wid') /\ SameRead(d, wid') /\ SameDialogs(d, wid')
  BY <1>4, <1>10, PublishEffect
<1>12. /\ SameWish(v, wid') /\ SameReader(v, wid') /\ SameHolder(v, wid')
       /\ SamePage(v, wid') /\ SameRead(v, wid') /\ wid'.signs = v.signs
       /\ wid'.photoDialog # None => wid'.photoDialog = p.photoDialog
  BY <1>9, <1>10, <1>11
     DEF SameWish, SameReader, SameSigns, SameHolder, SamePage, SameRead, SameDialogs
<1>13. SameWish(w, wid') /\ wid'.card = c /\ wid'.boundPresent = a.boundPresent
  BY <1>5, <1>7, <1>8, <1>12 DEF SameWish, SameReader, SameHolder
<1>14. Held(wid')
  BY <1>8, <1>12 DEF Held, SameHolder, SameRead
<1>15. Page(wid', readers', seated', caps')
  <2>1. Detects(wid', readers', seated') <=> Detects(v, readers', seated')
    BY <1>12 DEF Detects, SameWish
  <2> QED
    BY <1>8, <1>12, <2>1 DEF Page, SamePage, SameHolder
<1>16. Placed(wid', readers', slot')
  <2>1. Pick(wid', readers', slot') = r
    BY <1>3, <1>13 DEF Pick, SameWish
  <2>2. Present(wid', readers') <=> Present(w, readers')
    BY <1>13 DEF Present, SameWish
  <2>3. r = None => wid'.card = None
    BY <1>13 DEF c
  <2>4. r # None => wid'.card = slot'[r] /\ wid'.readerName = NameOf[r]
    BY <1>8, <1>12, <1>13 DEF c, SameReader
  <2> QED
    BY <1>5, <1>13, <2>1, <2>2, <2>3, <2>4 DEF Placed
<1>17. wid'.signs = a.signs
  BY <1>7, <1>8, <1>12 DEF SameSigns
<1>18. Entries(wid')
  BY <1>5, <1>17 DEF Entries
<1>19. IF wid'.card # None /\ wid'.card = w.card
       THEN SameHolder(w, wid') /\ FreeRead(w, wid')
       ELSE Empty(wid') /\ (wid'.identityOp # None => wid'.viewActive /\ Unlock \notin caps'[wid'.card])
  <2>1. CASE c # None /\ c = w.card
    <3>1. b = a /\ r # None
      BY <1>5, <1>7, <2>1 DEF SameHolder, c
    <3>2. SameHolder(w, wid')
      BY <1>5, <1>8, <1>12, <3>1 DEF SameHolder
    <3>3. FreeRead(w, wid')
      BY <1>5, <1>8, <1>12, <3>1 DEF FreeRead, SameHolder, SameRead, SameWish
    <3> QED
      BY <1>13, <2>1, <3>2, <3>3
  <2>2. CASE ~(c # None /\ c = w.card)
    <3>1. Empty(b) /\ b.identityOp = None /\ b.card = c
      BY <1>5, <1>7, <2>2 DEF SameHolder
    <3>2. Empty(wid')
      BY <1>8, <1>12, <3>1 DEF Empty, SameHolder
    <3>3. wid'.identityOp # None => wid'.viewActive /\ Unlock \notin caps'[wid'.card]
      BY <1>8, <1>12, <1>13, <3>1 DEF FreeRead, SameRead, SameWish
    <3> QED
      BY <1>13, <2>2, <3>2, <3>3
  <2> QED
    BY <2>1, <2>2
<1>20. wid'.photoDialog # None =>
          wid'.photoDialog = w.photoDialog /\ wid'.state = w.state /\ wid'.readerName = w.readerName
  <2>1. v.photoDialog = w.photoDialog
    BY <1>5, <1>7, <1>8 DEF SameDialogs
  <2> QED
    BY <1>9, <1>12, <2>1 DEF KeptDialog, SamePage, SameReader
<1> QED
  BY <1>5, <1>11, <1>13, <1>14, <1>15, <1>16, <1>17, <1>18, <1>19, <1>20
     DEF Settled, Refreshed, Followed

-----------------------------------------------------------------------------
(* Terminals.                                                              *)

LEMMA StartPhotoReadEffect ==
    ASSUME NEW w \in Widget, Held(w), w.identityRead
    PROVE  LET u == StartPhotoRead(w) IN
           /\ u \in Widget /\ Held(u)
           /\ SameWish(w, u) /\ SameReader(w, u) /\ SameSigns(w, u) /\ SameDialogs(w, u)
           /\ SamePage(w, u) /\ SameRead(w, u)
           /\ u.card = w.card /\ u.identity = w.identity /\ u.photo = w.photo
           /\ u.identityRead = w.identityRead
<1> DEFINE u == StartPhotoRead(w)
<1>1. CASE u = w
  <2> HIDE DEF u
  <2> QED
    BY <1>1 DEF SameWish, SameReader, SameSigns, SameDialogs, SamePage, SameRead, u
<1>2. CASE u # w
  <2>1. u = [w EXCEPT !.photoOp = w.card] /\ w.card \in Cards \cup {None}
    BY <1>2 DEF StartPhotoRead, Widget
  <2> HIDE DEF u
  <2>2. /\ u \in Widget /\ u.photoOp = w.card
        /\ SameWish(w, u) /\ SameReader(w, u) /\ SameSigns(w, u) /\ SameDialogs(w, u)
        /\ SamePage(w, u) /\ SameRead(w, u)
        /\ u.card = w.card /\ u.identity = w.identity /\ u.photo = w.photo
        /\ u.identityRead = w.identityRead
    BY <2>1 DEF Widget, SameWish, SameReader, SameSigns, SameDialogs, SamePage, SameRead
  <2>3. Held(u)
    BY <2>2 DEF Held, SameRead
  <2> QED
    BY <2>2, <2>3 DEF u
<1> QED
  BY <1>1, <1>2

LEMMA ReadTyped ==
    ASSUME NEW w \in Widget, NEW op \in Cards \cup {None}, NEW busy \in BOOLEAN
    PROVE  [w EXCEPT !.identityOp = op, !.busy = busy] \in Widget
  BY WidgetFields

LEMMA ErrorTyped ==
    ASSUME NEW w \in Widget, NEW c \in Cards \cup {None}, NEW p \in State
    PROVE  /\ [w EXCEPT !.error = c] \in Widget
           /\ [w EXCEPT !.error = c, !.state = p] \in Widget
<1>1. [w EXCEPT !.error = c] \in Widget
  BY WidgetFields
<1>2. [w EXCEPT !.error = c, !.state = p] \in Widget
  BY WidgetFields
<1> QED
  BY <1>1, <1>2

(* The page of a terminal: that of the failure, or that of the card.       *)
Paged(w, u) ==
    \/ u.state = "Error" /\ u.pinManagement = w.pinManagement
    \/ /\ u.pinManagement <=> PinManagement \in caps'[w.card]
       /\ u.state \in ReadyState => (Unlock \in caps'[w.card] => u.identityRead)
       /\ u.state = "PreAuthRequired" => ~u.identityRead
       /\ u.state # "NoCard"

(* A read ends on its card with rows or without; dismissed, the read of a  *)
(* card without a prompt is taken up again at once.                        *)
LEMMA OnOperationFinishedEffect ==
    ASSUME NEW w \in Widget, Held(w), w.identityOp # None, NEW t \in ReadTerminal
    PROVE  LET u == OnOperationFinished(w, t) IN
           /\ u \in Widget /\ Held(u)
           /\ SameWish(w, u) /\ SameReader(w, u) /\ SameSigns(w, u) /\ SameDialogs(w, u)
           /\ u.card = w.card /\ u.photo = w.photo
           /\ u.identityOp = None \/ (u.identityOp = w.identityOp /\ u.identity = w.identity)
           /\ u.identity \in {None, w.identityOp}
           /\ Paged(w, u)
<1> DEFINE u == OnOperationFinished(w, t)
           v == [w EXCEPT !.identityOp = None, !.busy = FALSE]
<1>1. /\ w.card = w.identityOp /\ w.card # None /\ w.card \in Cards
      /\ ~w.identityRead /\ w.identity = None /\ w.photo = None /\ w.photoOp = None
  BY DEF Held, Widget
<1>2. /\ v \in Widget /\ v.identityOp = None
      /\ SameWish(w, v) /\ SameReader(w, v) /\ SameSigns(w, v) /\ SameDialogs(w, v)
      /\ SameHolder(w, v) /\ v.pinManagement = w.pinManagement
  <2>1. v \in Widget
    BY ReadTyped
  <2>2. /\ v.identityOp = None /\ v.pinManagement = w.pinManagement
        /\ SameWish(w, v) /\ SameReader(w, v) /\ SameSigns(w, v) /\ SameDialogs(w, v)
        /\ SameHolder(w, v)
    BY DEF Widget, SameWish, SameReader, SameSigns, SameDialogs, SameHolder
  <2> QED
    BY <2>1, <2>2
<1>3. Held(v)
  BY <1>1, <1>2 DEF Held, SameHolder
<1>4. CASE t = "Dismissed"
  <2> DEFINE x == [v EXCEPT !.error = None]
  <2>1. u = ClassifyActiveCard(x)
    BY <1>4 DEF OnOperationFinished
  <2> HIDE DEF v, u
  <2>2. /\ x \in Widget /\ x.identityOp = None
        /\ SameWish(v, x) /\ SameReader(v, x) /\ SameSigns(v, x) /\ SameDialogs(v, x)
        /\ SameHolder(v, x)
    <3>1. x \in Widget
      BY <1>2, ErrorTyped DEF State
    <3>2. /\ x.identityOp = v.identityOp
          /\ SameWish(v, x) /\ SameReader(v, x) /\ SameSigns(v, x) /\ SameDialogs(v, x)
          /\ SameHolder(v, x)
      BY <1>2 DEF Widget, SameWish, SameReader, SameSigns, SameDialogs, SameHolder
    <3> QED
      BY <1>2, <3>1, <3>2
  <2> HIDE DEF x
  <2>3. Held(x)
    BY <1>2, <1>3, <2>2 DEF Held, SameHolder
  <2>4. /\ u \in Widget /\ Held(u) /\ FreeRead(x, u)
        /\ u.pinManagement <=> x.card # None /\ PinManagement \in caps'[x.card]
        /\ x.card # None =>
              /\ u.state \in ReadyState => (Unlock \in caps'[x.card] => x.identityRead)
              /\ u.state = "PreAuthRequired" => ~x.identityRead
              /\ u.state # "NoCard"
        /\ SameWish(x, u) /\ SameReader(x, u) /\ SameSigns(x, u) /\ SameDialogs(x, u)
        /\ SameHolder(x, u)
    BY <2>1, <2>2, <2>3, ClassifyActiveCardEffect
  <2>5. /\ SameWish(w, u) /\ SameReader(w, u) /\ SameSigns(w, u) /\ SameDialogs(w, u)
        /\ SameHolder(w, u)
    BY <1>2, <2>2, <2>4 DEF SameWish, SameReader, SameSigns, SameDialogs, SameHolder
  <2>6. Paged(w, u)
    BY <1>1, <1>2, <2>2, <2>4, <2>5 DEF Paged, SameHolder
  <2>7. u.identityOp \in {None, w.identityOp} /\ u.identity = None
    BY <1>1, <1>2, <2>2, <2>4, <2>5 DEF FreeRead, SameHolder
  <2> QED
    BY <1>1, <2>4, <2>5, <2>6, <2>7 DEF SameHolder, u
<1>5. CASE t = "Failed"
  <2>1. u = [v EXCEPT !.error = w.card, !.state = "Error"]
    BY <1>5 DEF OnOperationFinished
  <2>2. w.card \in Cards \cup {None} /\ "Error" \in State
    BY <1>1 DEF State
  <2> HIDE DEF v, u
  <2>3. /\ u.identityOp = v.identityOp /\ u.state = "Error" /\ u.pinManagement = v.pinManagement
        /\ SameWish(v, u) /\ SameReader(v, u) /\ SameSigns(v, u) /\ SameDialogs(v, u)
        /\ SameHolder(v, u)
    BY <1>2, <2>1 DEF Widget, SameWish, SameReader, SameSigns, SameDialogs, SameHolder
  <2>4. u \in Widget
    BY <1>2, <2>1, <2>2, ErrorTyped
  <2>5. Held(u)
    BY <1>2, <1>3, <2>3 DEF Held, SameHolder
  <2>6. Paged(w, u)
    BY <1>2, <2>3 DEF Paged
  <2> QED
    BY <1>1, <1>2, <2>3, <2>4, <2>5, <2>6
       DEF SameWish, SameReader, SameSigns, SameDialogs, SameHolder, u
<1>6. CASE t = "Ok"
  <2> DEFINE x == [v EXCEPT !.identityRead = TRUE, !.identity = w.identityOp]
             y == ClassifyActiveCard(x)
  <2>1. u = StartPhotoRead(y)
    BY <1>6 DEF OnOperationFinished
  <2>2. /\ x.identityOp = None /\ x.identityRead /\ x.identity = w.card
        /\ SameWish(v, x) /\ SameReader(v, x) /\ SameSigns(v, x) /\ SameDialogs(v, x)
        /\ x.card = v.card /\ x.photo = v.photo /\ x.photoOp = v.photoOp
    BY <1>1, <1>2 DEF Widget, SameWish, SameReader, SameSigns, SameDialogs
  <2>3. x \in Widget
    <3>1. w.identityOp \in Cards \cup {None}
      BY <1>1
    <3> HIDE DEF v
    <3> QED
      BY <1>2, <3>1, WidgetFields
  <2> HIDE DEF v, x, u
  <2>4. Held(x)
    BY <1>1, <1>2, <2>2 DEF Held, SameHolder
  <2>5. /\ y \in Widget /\ Held(y) /\ FreeRead(x, y)
        /\ y.pinManagement <=> x.card # None /\ PinManagement \in caps'[x.card]
        /\ x.card # None =>
              /\ y.state \in ReadyState => (Unlock \in caps'[x.card] => x.identityRead)
              /\ y.state = "PreAuthRequired" => ~x.identityRead
              /\ y.state # "NoCard"
        /\ SameWish(x, y) /\ SameReader(x, y) /\ SameSigns(x, y) /\ SameDialogs(x, y)
        /\ SameHolder(x, y)
    BY <2>3, <2>4, ClassifyActiveCardEffect
  <2> HIDE DEF y
  <2>6. y.identityRead /\ y.identityOp = None
    BY <2>2, <2>5 DEF FreeRead, SameHolder
  <2>7. /\ u \in Widget /\ Held(u)
        /\ SameWish(y, u) /\ SameReader(y, u) /\ SameSigns(y, u) /\ SameDialogs(y, u)
        /\ SamePage(y, u) /\ SameRead(y, u)
        /\ u.card = y.card /\ u.identity = y.identity /\ u.photo = y.photo
        /\ u.identityRead = y.identityRead
    BY <2>1, <2>5, <2>6, StartPhotoReadEffect
  <2>8. SameWish(w, u) /\ SameReader(w, u) /\ SameSigns(w, u) /\ SameDialogs(w, u)
    BY <1>2, <2>2, <2>5, <2>7 DEF SameWish, SameReader, SameSigns, SameDialogs
  <2>9. /\ u.card = w.card /\ u.identity = w.card /\ u.photo = w.photo
        /\ u.identityOp = None
    BY <1>2, <2>2, <2>5, <2>6, <2>7 DEF SameHolder, SameRead
  <2>10. Paged(w, u)
    BY <1>1, <1>2, <2>2, <2>5, <2>6, <2>7 DEF Paged, SamePage, SameHolder
  <2> QED
    BY <1>1, <2>7, <2>8, <2>9, <2>10 DEF u
<1> QED
  BY <1>4, <1>5, <1>6 DEF ReadTerminal

LEMMA OnPhotoFinishedEffect ==
    ASSUME NEW w \in Widget, Held(w), w.photoOp # None, NEW found \in BOOLEAN
    PROVE  LET u == OnPhotoFinished(w, found) IN
           /\ u \in Widget /\ Held(u)
           /\ SameWish(w, u) /\ SameReader(w, u) /\ SameSigns(w, u) /\ SameDialogs(w, u)
           /\ SamePage(w, u) /\ SameRead(w, u)
           /\ u.card = w.card /\ u.identityRead = w.identityRead /\ u.identity = w.identity
           /\ u.photo \in {w.photo, w.card}
<1> DEFINE u == OnPhotoFinished(w, found)
           p == IF found THEN w.photoOp ELSE w.photo
<1>1. u = [w EXCEPT !.photoOp = None, !.photo = p]
  BY DEF OnPhotoFinished, Widget
<1>2. p \in Cards \cup {None} /\ p \in {w.photo, w.card} /\ w.identityRead
  BY DEF Widget, Held
<1> HIDE DEF p, u
<1>3. /\ u.photo = p /\ u.photoOp = None
      /\ SameWish(w, u) /\ SameReader(w, u) /\ SameSigns(w, u) /\ SameDialogs(w, u)
      /\ SamePage(w, u) /\ SameRead(w, u)
      /\ u.card = w.card /\ u.identityRead = w.identityRead /\ u.identity = w.identity
  BY <1>1, <1>2 DEF Widget, SameWish, SameReader, SameSigns, SameDialogs, SamePage, SameRead
<1>4. u \in Widget
  BY <1>1, <1>2, WidgetFields
<1>5. Held(u)
  BY <1>2, <1>3 DEF Held, SameRead
<1> QED
  BY <1>2, <1>3, <1>4, <1>5 DEF u

-----------------------------------------------------------------------------
(* The entries of the signs.                                               *)

LEMMA EndedEffect ==
    ASSUME NEW e \in SignEntry, NEW outcome \in Outcome
    PROVE  LET f == Ended(e, outcome) IN
           /\ f \in SignEntry
           /\ f.name = e.name /\ f.card = e.card /\ f.of = e.of /\ f.asked = e.asked
           /\ ~f.job /\ f.outcome = outcome
<1>1. Ended(e, outcome) \in SignEntry
  BY Zenon DEF Ended, SignEntry
<1> QED
  BY <1>1 DEF Ended, SignEntry

(* Only the entries of a record are replaced.                              *)
LEMMA SignsEffect ==
    ASSUME NEW w \in Widget, NEW S \in SUBSET SignEntry
    PROVE  LET u == [w EXCEPT !.signs = S] IN
           /\ u \in Widget
           /\ u.signs = S
           /\ SameWish(w, u) /\ SameReader(w, u) /\ SameHolder(w, u) /\ SameDialogs(w, u)
           /\ SamePage(w, u) /\ SameRead(w, u)
           /\ u.published = w.published
<1> DEFINE u == [w EXCEPT !.signs = S]
<1>1. u \in Widget
  BY WidgetFields
<1>2. /\ u.signs = S
      /\ SameWish(w, u) /\ SameReader(w, u) /\ SameHolder(w, u) /\ SameDialogs(w, u)
      /\ SamePage(w, u) /\ SameRead(w, u)
      /\ u.published = w.published
  BY DEF Widget, SameWish, SameReader, SameHolder, SameDialogs, SamePage, SameRead
<1> QED
  BY <1>1, <1>2

(* The same sign, still running or ended with an outcome to show.          *)
Outlives(e, f) ==
    /\ f.name = e.name /\ f.of = e.of /\ f.asked = e.asked
    /\ f.job \/ f.outcome # "none"

-----------------------------------------------------------------------------
(* Cards that go away.                                                     *)

(* Only what is of a lost card is ended by the sweep.                      *)
LEMMA SweepEffect ==
    ASSUME NEW w \in Widget, Held(w), Entries(w), NEW lost \in SUBSET Cards,
           NEW told \in BOOLEAN
    PROVE  LET u == Sweep(w, lost, told) IN
           /\ u \in Widget /\ Held(u) /\ Entries(u)
           /\ SameWish(w, u) /\ SameReader(w, u) /\ SameDialogs(w, u)
           /\ u.card = w.card
           /\ w.card \notin lost => SameHolder(w, u) /\ SameRead(w, u) /\ u.state = w.state
           /\ \A e \in w.signs : e.card \notin lost => e \in u.signs
<1> DEFINE u == Sweep(w, lost, told)
           v == IF told /\ w.identityOp \in lost THEN OnOperationFinished(w, "Failed")
                ELSE IF told /\ w.photoOp \in lost THEN OnPhotoFinished(w, FALSE) ELSE w
           hit(e) == told /\ e.job /\ e.card \in lost
           after(e) == IF hit(e) THEN Ended(e, "failed") ELSE e
           S == {after(e) : e \in w.signs}
<1>1. None \notin lost
  BY RegistryAssumption
<1>2. w.identityOp \in lost => w.photoOp \notin lost
  BY <1>1 DEF Held
<1>3. /\ v \in Widget /\ Held(v)
      /\ SameWish(w, v) /\ SameReader(w, v) /\ SameSigns(w, v) /\ SameDialogs(w, v)
      /\ v.card = w.card
      /\ w.card \notin lost => SameHolder(w, v) /\ SameRead(w, v) /\ v.state = w.state
  <2>1. CASE told /\ w.identityOp \in lost
    <3>1. w.identityOp # None /\ w.card \in lost /\ "Failed" \in ReadTerminal
      BY <1>1, <2>1 DEF Held, ReadTerminal
    <3>2. v = OnOperationFinished(w, "Failed")
      BY <2>1
    <3> HIDE DEF v
    <3> QED
      BY <3>1, <3>2, OnOperationFinishedEffect
  <2>2. CASE ~(told /\ w.identityOp \in lost) /\ told /\ w.photoOp \in lost
    <3>1. w.photoOp # None /\ w.card \in lost
      BY <1>1, <2>2 DEF Held
    <3>2. v = OnPhotoFinished(w, FALSE)
      BY <2>2
    <3> HIDE DEF v
    <3> QED
      BY <3>1, <3>2, OnPhotoFinishedEffect
  <2>3. CASE ~(told /\ w.identityOp \in lost) /\ ~(told /\ w.photoOp \in lost)
    <3>1. v = w
      BY <2>3
    <3> HIDE DEF v
    <3> QED
      BY <3>1 DEF SameWish, SameReader, SameSigns, SameDialogs, SameHolder, SameRead
  <2> QED
    BY <2>1, <2>2, <2>3
<1>4. u = [v EXCEPT !.signs = {after(e) : e \in v.signs}]
  <2>1. CASE told /\ w.identityOp \in lost
    BY <1>2, <2>1 DEF Sweep
  <2>2. CASE ~(told /\ w.identityOp \in lost)
    BY <2>2 DEF Sweep
  <2> QED
    BY <2>1, <2>2
<1> HIDE DEF v
<1>5. u = [v EXCEPT !.signs = S]
  BY <1>3, <1>4 DEF SameSigns
<1> HIDE DEF u
<1>6. \A e \in w.signs :
         /\ after(e) \in SignEntry
         /\ after(e).name = e.name /\ after(e).card = e.card /\ after(e).of = e.of
         /\ e.card \notin lost => after(e) = e
  <2>1. \A e \in w.signs : e \in SignEntry
    BY DEF Widget
  <2> QED
    BY <2>1, EndedEffect DEF Outcome
<1> HIDE DEF after
<1>7. S \in SUBSET SignEntry
  BY <1>6
<1>8. /\ u \in Widget /\ u.signs = S
      /\ SameWish(v, u) /\ SameReader(v, u) /\ SameHolder(v, u) /\ SameDialogs(v, u)
      /\ SamePage(v, u) /\ SameRead(v, u)
  BY <1>3, <1>5, <1>7, SignsEffect
<1>9. Entries(u)
  BY <1>6, <1>8 DEF Entries
<1>10. Held(u)
  BY <1>3, <1>8 DEF Held, SameHolder, SameRead
<1> QED
  BY <1>3, <1>6, <1>8, <1>9, <1>10
     DEF SameWish, SameReader, SameHolder, SameDialogs, SamePage, SameRead, u

(* The entry of a sign once the cards lost are destroyed.                  *)
Nulled(e, lost) == [e EXCEPT !.card = IF e.card \in lost THEN None ELSE e.card]

LEMMA NulledEffect ==
    ASSUME NEW e \in SignEntry, NEW lost
    PROVE  LET f == Nulled(e, lost) IN
           /\ f \in SignEntry
           /\ f.name = e.name /\ f.of = e.of /\ f.asked = e.asked /\ f.job = e.job
           /\ f.card \in {None, e.card}
<1>1. (IF e.card \in lost THEN None ELSE e.card) \in Cards \cup {None}
  BY DEF SignEntry
<1>2. Nulled(e, lost) \in SignEntry
  BY <1>1 DEF Nulled, SignEntry
<1> QED
  BY <1>2 DEF Nulled, SignEntry

(* Of a destroyed card only the pointers are gone; of any other, nothing.  *)
LEMMA DestroyEffect ==
    ASSUME NEW w \in Widget, Held(w), Entries(w), NEW lost \in SUBSET Cards
    PROVE  LET u == Destroy(w, lost) IN
           /\ u \in Widget /\ Entries(u)
           /\ SameWish(w, u) /\ SameReader(w, u) /\ SameDialogs(w, u)
           /\ u.state = w.state
           /\ u.card = IF w.card \in lost THEN None ELSE w.card
           /\ u.card # None => Held(u) /\ SameHolder(w, u) /\ SameRead(w, u)
           /\ \A e \in w.signs : e.job => \E f \in u.signs : f.job /\ Outlives(e, f)
<1> DEFINE u == Destroy(w, lost)
           null(c) == IF c \in lost THEN None ELSE c
           v == [w EXCEPT !.card = null(w.card), !.identityOp = null(w.identityOp),
                          !.photoOp = null(w.photoOp)]
           S == {Nulled(e, lost) : e \in w.signs}
<1>1. u = [w EXCEPT !.card = null(w.card), !.identityOp = null(w.identityOp),
                    !.photoOp = null(w.photoOp), !.signs = S]
  BY DEF Destroy, Nulled
<1>2. /\ null(w.card) \in Cards \cup {None}
      /\ null(w.identityOp) \in Cards \cup {None}
      /\ null(w.photoOp) \in Cards \cup {None}
  BY DEF Widget
<1>3. \A e \in w.signs :
         LET f == Nulled(e, lost) IN
         /\ f \in SignEntry
         /\ f.name = e.name /\ f.of = e.of /\ f.asked = e.asked /\ f.job = e.job
         /\ f.card \in {None, e.card}
  <2>1. \A e \in w.signs : e \in SignEntry
    BY DEF Widget
  <2> QED
    BY <2>1, NulledEffect
<1>4. S \in SUBSET SignEntry
  BY <1>3
<1>5. /\ u.signs = S
      /\ u.card = null(w.card) /\ u.identityOp = null(w.identityOp)
      /\ u.photoOp = null(w.photoOp)
      /\ u.identityRead = w.identityRead /\ u.identity = w.identity /\ u.photo = w.photo
      /\ u.busy = w.busy /\ u.state = w.state
      /\ SameWish(w, u) /\ SameReader(w, u) /\ SameDialogs(w, u)
  <2> HIDE DEF S, null, u
  <2> QED
    BY <1>1 DEF Widget, SameWish, SameReader, SameDialogs
<1>6. u \in Widget
  <2> HIDE DEF S, null, u
  <2> QED
    BY <1>1, <1>2, <1>4, WidgetFields
<1> HIDE DEF u
<1>7. Entries(u)
  <2> HIDE DEF null
  <2> QED
    BY <1>3, <1>5 DEF Entries
<1>8. u.card # None => Held(u) /\ SameHolder(w, u) /\ SameRead(w, u)
  BY <1>5, RegistryAssumption DEF Held, SameHolder, SameRead
<1>9. \A e \in w.signs : e.job => \E f \in u.signs : f.job /\ Outlives(e, f)
  <2> HIDE DEF null
  <2> QED
    BY <1>3, <1>5 DEF Outlives
<1> QED
  BY <1>5, <1>6, <1>7, <1>8, <1>9 DEF u

-----------------------------------------------------------------------------
(* What every step does.                                                   *)

(* A step of HolderView, read off two records.                             *)
HolderStep(w, u) ==
    \/ /\ u.card # w.card
       /\ u.identityOp \in {None, u.card}
       /\ u.identity = None
       /\ u.photo = None
    \/ /\ u.card = w.card /\ u.photo = w.photo
       /\ \/ u.identityOp = w.identityOp /\ u.identity = w.identity
          \/ /\ w.card # None /\ w.identityOp = None /\ w.identity = None
             /\ u.identityOp = w.card /\ u.identity = w.identity
          \/ /\ w.identityOp # None
             /\ u.identityOp = None /\ u.identity \in {None, w.identityOp}
    \/ /\ w.identity # None
       /\ u.card = w.card /\ u.photo = w.card
       /\ u.identityOp = w.identityOp /\ u.identity = w.identity

(* A read that started by itself did so for an open popup, with no prompt. *)
FreelyRead(w, u) ==
    u.identityOp \notin {None, w.identityOp} =>
        u.viewActive /\ Unlock \notin caps'[u.identityOp]

(* The start button was not disabled.                                      *)
LatchKept(w, u) == u.starting => w.starting

(* The dialog open now was open on this very page, or has just been opened.*)
DialogStep(w, u) ==
    u.photoDialog # None =>
        \/ /\ u.photoDialog = w.photoDialog
           /\ u.state = w.state /\ u.readerName = w.readerName
        \/ u.photoDialog = u.photo /\ u.state \in PhotoState

SignsStep(w, u, s) ==
    \A e \in w.signs : e.job /\ CardPresent(s, e.card) => \E f \in u.signs : Outlives(e, f)

Step(w, u) ==
    /\ HolderStep(w, u)
    /\ DialogStep(w, u)
    /\ SignsStep(w, u, slot')

(* A step that touches no read, no dialog for a photo and no sign.         *)
LEMMA QuietStep ==
    ASSUME NEW w, NEW u, SameHolder(w, u), SameRead(w, u),
           u.photoDialog # None =>
               u.photoDialog = w.photoDialog /\ u.state = w.state /\ u.readerName = w.readerName
    PROVE  HolderStep(w, u) /\ FreelyRead(w, u) /\ DialogStep(w, u)
  BY DEF SameHolder, SameRead, HolderStep, FreelyRead, DialogStep

(* What follows the registry is a turn to another card, or a free read.    *)
LEMMA FollowedStep ==
    ASSUME NEW w \in Widget, NEW u \in Widget, Held(w), Held(u), Followed(w, u)
    PROVE  /\ HolderStep(w, u) /\ FreelyRead(w, u) /\ DialogStep(w, u)
           /\ LatchKept(w, u)
<1>1. DialogStep(w, u) /\ LatchKept(w, u)
  BY DEF Followed, DialogStep, SameWish, LatchKept
<1>2. CASE u.card # None /\ u.card = w.card
  <2>1. SameHolder(w, u) /\ FreeRead(w, u)
    BY <1>2 DEF Followed
  <2>2. HolderStep(w, u)
    BY <2>1 DEF SameHolder, FreeRead, HolderStep, Held
  <2>3. FreelyRead(w, u)
    BY <2>1 DEF FreeRead, FreelyRead
  <2> QED
    BY <1>1, <2>2, <2>3
<1>3. CASE ~(u.card # None /\ u.card = w.card)
  <2>1. Empty(u) /\ (u.identityOp # None => u.viewActive /\ Unlock \notin caps'[u.card])
    BY <1>3 DEF Followed
  <2>2. FreelyRead(w, u)
    BY <2>1 DEF FreelyRead, Held
  <2>3. CASE u.card # w.card
    BY <1>1, <2>1, <2>2, <2>3 DEF Empty, HolderStep, Held
  <2>4. CASE u.card = w.card
    <3>1. u.card = None /\ w.card = None
      BY <1>3, <2>4
    <3>2. u.identityOp = None /\ w.identityOp = None
      BY <3>1 DEF Held
    <3>3. w.identity = None /\ w.photo = None /\ u.identity = None /\ u.photo = None
      BY <2>1, <3>1 DEF Held, Empty
    <3> QED
      BY <1>1, <2>2, <3>1, <3>2, <3>3 DEF HolderStep
  <2> QED
    BY <2>3, <2>4
<1> QED
  BY <1>2, <1>3

(* A card is shown from the registry, if at all.                           *)
LEMMA ShownIsPresent ==
    ASSUME NEW rs \in SUBSET Readers, NEW s, NEW w, Placed(w, rs, s)
    PROVE  w.card # None =>
              \E r \in rs : /\ r = Pick(w, rs, s)
                            /\ s[r] = w.card /\ NameOf[r] = w.readerName
<1> DEFINE r == Pick(w, rs, s)
<1>1. r # None => r \in rs
  BY PickEffect DEF WalkEnds
<1>2. IF r = None THEN w.card = None
      ELSE w.card = s[r] /\ w.readerName = NameOf[r]
  BY DEF Placed
<1> HIDE DEF r
<1>3. w.card # None => r \in rs /\ s[r] = w.card /\ NameOf[r] = w.readerName
  BY <1>1, <1>2
<1> QED
  BY <1>3 DEF r

(* When cards are lost the library ends their operations, destroys them    *)
(* and signals, and the widget is settled again.                           *)
LEMMA LoseCardsEffect ==
    ASSUME RegistryTypeOK', wid \in Widget, Held(wid), Entries(wid),
           NEW lost \in SUBSET Cards, NEW told \in BOOLEAN, LoseCards(lost, told),
           \A r \in Readers : slot'[r] \notin lost
    PROVE  /\ Settled(wid', readers', slot', seated', caps')
           /\ HolderStep(wid, wid') /\ FreelyRead(wid, wid') /\ DialogStep(wid, wid') /\ LatchKept(wid, wid')
           /\ \A e \in wid.signs : e.job /\ e.card \notin lost =>
                 \E f \in wid'.signs : Outlives(e, f)
<1> DEFINE a == Sweep(wid, lost, told)
           b == PageFollows(wid, a)
           c == Destroy(b, lost)
<1>1. Refresh(c)
  BY DEF LoseCards
<1>2. /\ a \in Widget /\ Held(a) /\ Entries(a)
      /\ SameWish(wid, a) /\ SameReader(wid, a) /\ SameDialogs(wid, a)
      /\ a.card = wid.card
      /\ wid.card \notin lost => SameHolder(wid, a) /\ SameRead(wid, a) /\ a.state = wid.state
      /\ \A e \in wid.signs : e.card \notin lost => e \in a.signs
  BY SweepEffect
<1> HIDE DEF a
<1>3. /\ b \in Widget
      /\ SameWish(a, b) /\ SameReader(a, b) /\ SameSigns(a, b) /\ SameHolder(a, b)
      /\ SamePage(a, b) /\ SameRead(a, b) /\ b.dialog = a.dialog
      /\ KeptDialog(wid, a, b)
  BY <1>2, PageFollowsEffect
<1>4. Held(b) /\ Entries(b)
  BY <1>2, <1>3 DEF Held, Entries, SameHolder, SameRead, SameSigns
<1> HIDE DEF b
<1>5. /\ c \in Widget /\ Entries(c)
      /\ SameWish(b, c) /\ SameReader(b, c) /\ SameDialogs(b, c)
      /\ c.state = b.state
      /\ c.card = IF b.card \in lost THEN None ELSE b.card
      /\ c.card # None => Held(c) /\ SameHolder(b, c) /\ SameRead(b, c)
      /\ \A e \in b.signs : e.job => \E f \in c.signs : f.job /\ Outlives(e, f)
  BY <1>3, <1>4, DestroyEffect
<1> HIDE DEF c
<1>6. /\ Settled(wid', readers', slot', seated', caps')
      /\ Refreshed(c, wid')
  BY <1>1, <1>5, RefreshEffect
<1>7. wid'.card \notin lost
  <2>1. CASE wid'.card = None
    BY <2>1, RegistryAssumption
  <2>2. CASE wid'.card # None
    <3>1. readers' \in SUBSET Readers /\ Placed(wid', readers', slot')
      BY <1>6 DEF RegistryTypeOK, Settled
    <3>2. \E r \in readers' : slot'[r] = wid'.card
      BY <2>2, <3>1, ShownIsPresent
    <3> QED
      BY <3>1, <3>2
  <2> QED
    BY <2>1, <2>2
<1>8. Followed(wid, wid')
  <2>1. SameWish(wid, wid')
    BY <1>2, <1>3, <1>5, <1>6 DEF SameWish, Refreshed, Followed
  <2>2. wid'.photoDialog # None =>
           /\ wid'.photoDialog = wid.photoDialog
           /\ wid'.state = wid.state /\ wid'.readerName = wid.readerName
    BY <1>2, <1>3, <1>5, <1>6
       DEF Refreshed, Followed, KeptDialog, SameReader, SameDialogs, SamePage
  <2>3. CASE wid'.card # None /\ wid'.card = wid.card
    <3>1. SameHolder(wid, c) /\ SameRead(wid, c) /\ c.card = wid.card
      BY <1>2, <1>3, <1>5, <1>7, <2>3 DEF SameHolder, SameRead
    <3>2. SameHolder(c, wid') /\ FreeRead(c, wid')
      BY <1>6, <2>3, <3>1 DEF Refreshed, Followed
    <3>3. SameHolder(wid, wid') /\ FreeRead(wid, wid')
      BY <3>1, <3>2 DEF SameHolder, SameRead, FreeRead
    <3> QED
      BY <2>1, <2>2, <2>3, <3>3 DEF Followed
  <2>4. CASE ~(wid'.card # None /\ wid'.card = wid.card)
    <3>1. ~(wid'.card # None /\ wid'.card = c.card)
      BY <1>2, <1>3, <1>5, <2>4 DEF SameHolder
    <3> QED
      BY <1>6, <2>1, <2>2, <2>4, <3>1 DEF Refreshed, Followed
  <2> QED
    BY <2>3, <2>4
<1>9. HolderStep(wid, wid') /\ FreelyRead(wid, wid') /\ DialogStep(wid, wid') /\ LatchKept(wid, wid')
  BY <1>6, <1>8, FollowedStep DEF Settled
<1>10. \A e \in wid.signs : e.job /\ e.card \notin lost =>
          \E f \in wid'.signs : Outlives(e, f)
  BY <1>2, <1>3, <1>5, <1>6 DEF SameSigns, Refreshed
<1> QED
  BY <1>6, <1>9, <1>10

-----------------------------------------------------------------------------
(* The actions.                                                            *)

(* A record that differs in nothing the page and the place depend on.      *)
LEMMA KeptSettled ==
    ASSUME NEW rs, NEW s, NEW st, NEW k, NEW w, Settled(w, rs, s, st, k),
           NEW u \in Widget, Held(u), Entries(u), u.published = ActiveSurface(u),
           u.bound = w.bound, u.selected = w.selected,
           SameReader(w, u), SamePage(w, u),
           u.card = w.card, u.identityRead = w.identityRead
    PROVE  Settled(u, rs, s, st, k)
<1>1. Pick(u, rs, s) = Pick(w, rs, s)
  BY DEF Pick
<1>2. Present(u, rs) <=> Present(w, rs)
  BY DEF Present
<1>3. Detects(u, rs, st) <=> Detects(w, rs, st)
  BY DEF Detects
<1>4. Placed(u, rs, s)
  BY <1>1, <1>2 DEF Settled, Placed, SameReader
<1>5. Page(u, rs, st, k)
  BY <1>3 DEF Settled, Page, SamePage
<1> QED
  BY <1>4, <1>5 DEF Settled

(* The surfaces stay true to signs, reader and card that stay.             *)
LEMMA KeptSurface ==
    ASSUME NEW w \in Widget, w.published = ActiveSurface(w), NEW u,
           SameSigns(w, u), SameReader(w, u), u.card = w.card
    PROVE  u.published = ActiveSurface(u)
  BY SurfaceEffect DEF SameSigns, SameReader

LEMMA SameSignsStep ==
    ASSUME NEW w, NEW u, NEW s, \A e \in w.signs : e.job => e \in u.signs
    PROVE  SignsStep(w, u, s)
  BY DEF SignsStep, Outlives

(* refresh after a change of anything it reads.                            *)
LEMMA RefreshStep ==
    ASSUME RegistryTypeOK', IInv, NEW w \in Widget, Refresh(w),
           SameHolder(wid, w), SameRead(wid, w), w.signs = wid.signs,
           w.photoDialog = wid.photoDialog, w.state = wid.state,
           w.readerName = wid.readerName, LatchKept(wid, w)
    PROVE  /\ Settled(wid', readers', slot', seated', caps')
           /\ Step(wid, wid') /\ FreelyRead(wid, wid') /\ LatchKept(wid, wid')
<1>1. wid \in Widget /\ Held(wid) /\ Entries(wid)
  BY DEF IInv, Settled
<1>2. Held(w) /\ Entries(w)
  BY <1>1 DEF Held, Entries, SameHolder, SameRead
<1>3. Settled(wid', readers', slot', seated', caps') /\ Refreshed(w, wid')
  BY <1>2, RefreshEffect
<1>4. wid' \in Widget /\ Held(wid') /\ Followed(w, wid')
  BY <1>3 DEF Settled, Refreshed
<1>5. HolderStep(w, wid') /\ FreelyRead(w, wid') /\ DialogStep(w, wid') /\ LatchKept(w, wid')
  BY <1>2, <1>4, FollowedStep
<1>6. HolderStep(wid, wid')
  BY <1>5 DEF HolderStep, SameHolder, SameRead
<1>7. FreelyRead(wid, wid') /\ DialogStep(wid, wid') /\ LatchKept(wid, wid')
  BY <1>5 DEF FreelyRead, DialogStep, LatchKept, SameRead
<1>8. SignsStep(wid, wid', slot')
  BY <1>3, SameSignsStep DEF Refreshed
<1> QED
  BY <1>3, <1>6, <1>7, <1>8 DEF Step

(* The library reports something new: nothing in the record changes before *)
(* the refresh.                                                            *)
LEMMA RefreshedStep ==
    ASSUME RegistryTypeOK', IInv, Refresh(wid)
    PROVE  /\ Settled(wid', readers', slot', seated', caps')
           /\ Step(wid, wid') /\ FreelyRead(wid, wid') /\ LatchKept(wid, wid')
<1>1. wid \in Widget
  BY DEF IInv, Settled
<1> QED
  BY <1>1, RefreshStep DEF SameHolder, SameRead, LatchKept

LEMMA RegistryGainStep ==
    ASSUME IInv, RegistryGain
    PROVE  IInv' /\ Step(wid, wid') /\ FreelyRead(wid, wid') /\ LatchKept(wid, wid')
<1>1. RegistryTypeOK' /\ RegistryConsistent'
  BY RegistryTypePreserved, RegistryConsistentPreserved, HandlerAssumption
     DEF IInv, RegistryGain
<1>2. AgentStartTypeOK'
  BY DEF IInv, RegistryGain, AgentStartTypeOK
<1>3. Seats(readers', slot', seated')
  <2>1. CASE AgentAppears /\ UNCHANGED seated
    BY <2>1 DEF IInv, Seats, AgentAppears
  <2>2. ASSUME NEW r \in Readers, ReaderArrives(r), SeatMayStay(r)
        PROVE  Seats(readers', slot', seated')
    BY <2>2, HandlerAssumption DEF IInv, Seats, ReaderArrives, SeatMayStay, RegistryConsistent
  <2>3. ASSUME NEW r \in Readers, NEW c \in Cards, NEW bits \in Profiles,
               CardArrives(r, c, bits), seated' = seated \ {r}
        PROVE  Seats(readers', slot', seated')
    BY <2>3, HandlerAssumption DEF IInv, Seats, CardArrives, RegistryTypeOK
  <2> QED
    BY <2>1, <2>2, <2>3 DEF RegistryGain
<1>4. Refresh(wid)
  BY DEF RegistryGain
<1> QED
  BY <1>1, <1>2, <1>3, <1>4, RefreshedStep DEF IInv

LEMMA RegistryLossStep ==
    ASSUME IInv, RegistryLoss
    PROVE  IInv' /\ Step(wid, wid') /\ FreelyRead(wid, wid') /\ LatchKept(wid, wid')
<1>1. RegistryTypeOK' /\ RegistryConsistent'
  BY RegistryTypePreserved, RegistryConsistentPreserved DEF IInv, RegistryLoss
<1>2. AgentStartTypeOK'
  BY DEF IInv, RegistryLoss, AgentStartTypeOK
<1>3. Seats(readers', slot', seated')
  <2>1. CASE seated' = {}
    BY <2>1 DEF Seats
  <2>2. ASSUME NEW r \in Readers, ReaderLeaves(r), seated' = seated \ {r}
        PROVE  Seats(readers', slot', seated')
    BY <2>2, HandlerAssumption DEF IInv, Seats, ReaderLeaves, RegistryTypeOK
  <2>3. ASSUME NEW r \in Readers, CardLeaves(r), SeatMayStay(r)
        PROVE  Seats(readers', slot', seated')
    BY <2>3, HandlerAssumption
       DEF IInv, Seats, CardLeaves, SeatMayStay, RegistryConsistent, RegistryTypeOK
  <2> QED
    BY <2>1, <2>2, <2>3 DEF RegistryLoss
<1>4. \E lost \in SUBSET Cards, told \in BOOLEAN :
         LoseCards(lost, told) /\ \A r \in Readers : slot'[r] \notin lost
  <2>1. ASSUME NEW told \in BOOLEAN, AgentVanishes, LoseCards(Cards, told)
        PROVE  \A r \in Readers : slot'[r] \notin Cards
    BY <2>1, RegistryAssumption DEF AgentVanishes
  <2>2. ASSUME NEW r \in Readers, ReaderLeaves(r) \/ CardLeaves(r)
        PROVE  /\ {slot[r]} \ {None} \in SUBSET Cards
               /\ \A q \in Readers : slot'[q] \notin {slot[r]} \ {None}
    BY <2>2 DEF IInv, ReaderLeaves, CardLeaves, RegistryTypeOK, RegistryConsistent
  <2>3. PICK told \in BOOLEAN :
           \/ AgentVanishes /\ LoseCards(Cards, told)
           \/ \E r \in Readers : /\ ReaderLeaves(r) \/ CardLeaves(r)
                                /\ LoseCards({slot[r]} \ {None}, told)
    BY DEF RegistryLoss
  <2>4. CASE AgentVanishes /\ LoseCards(Cards, told)
    BY <2>1, <2>4
  <2>5. ASSUME NEW r \in Readers, ReaderLeaves(r) \/ CardLeaves(r),
               LoseCards({slot[r]} \ {None}, told)
        PROVE  \E lost \in SUBSET Cards, t \in BOOLEAN :
                  LoseCards(lost, t) /\ \A q \in Readers : slot'[q] \notin lost
    <3> DEFINE lost == {slot[r]} \ {None}
    <3>1. /\ lost \in SUBSET Cards
          /\ LoseCards(lost, told)
          /\ \A q \in Readers : slot'[q] \notin lost
      BY <2>2, <2>5
    <3> HIDE DEF lost
    <3> QED
      BY <3>1
  <2> QED
    BY <2>3, <2>4, <2>5
<1>5. PICK lost \in SUBSET Cards, told \in BOOLEAN :
         LoseCards(lost, told) /\ \A r \in Readers : slot'[r] \notin lost
  BY <1>4
<1>6. wid \in Widget /\ Held(wid) /\ Entries(wid)
  BY DEF IInv, Settled
<1>7. /\ Settled(wid', readers', slot', seated', caps')
      /\ HolderStep(wid, wid') /\ FreelyRead(wid, wid') /\ DialogStep(wid, wid') /\ LatchKept(wid, wid')
      /\ \A e \in wid.signs : e.job /\ e.card \notin lost =>
            \E f \in wid'.signs : Outlives(e, f)
  BY <1>1, <1>5, <1>6, LoseCardsEffect
<1>8. SignsStep(wid, wid', slot')
  BY <1>5, <1>7 DEF SignsStep, CardPresent
<1> QED
  BY <1>1, <1>2, <1>3, <1>7, <1>8 DEF IInv, Step

LEMMA SeatChangedStep ==
    ASSUME IInv, SeatChanged
    PROVE  IInv' /\ Step(wid, wid') /\ FreelyRead(wid, wid') /\ LatchKept(wid, wid')
<1>1. RegistryTypeOK' /\ RegistryConsistent' /\ AgentStartTypeOK'
  BY DEF IInv, SeatChanged, RegistryTypeOK, RegistryConsistent, AgentStartTypeOK, registry
<1>2. Seats(readers', slot', seated')
  BY DEF IInv, SeatChanged, Seats, registry
<1>3. Refresh(wid)
  BY DEF SeatChanged
<1> QED
  BY <1>1, <1>2, <1>3, RefreshedStep DEF IInv

LEMMA CardChangedStep ==
    ASSUME IInv, CardChanged
    PROVE  IInv' /\ Step(wid, wid') /\ FreelyRead(wid, wid') /\ LatchKept(wid, wid')
<1>1. PICK c \in Cards, bits \in Profiles :
         /\ CapsChange(c, bits)
         /\ UNCHANGED <<seated, client>>
         /\ wid' = IF wid.card = c THEN PageFollows(wid, ClassifyActiveCard(wid)) ELSE wid
  BY DEF CardChanged
<1>2. RegistryTypeOK' /\ RegistryConsistent'
  BY <1>1, RegistryTypePreserved, RegistryConsistentPreserved, HandlerAssumption DEF IInv
<1>3. UNCHANGED <<avail, readers, slot, seated, client>>
  BY <1>1 DEF CapsChange
<1>4. AgentStartTypeOK' /\ Seats(readers', slot', seated')
  BY <1>3 DEF IInv, AgentStartTypeOK, Seats
<1>5. /\ wid \in Widget /\ Held(wid) /\ Entries(wid)
      /\ wid.published = ActiveSurface(wid)
      /\ Page(wid, readers, seated, caps) /\ Placed(wid, readers, slot)
  BY DEF IInv, Settled
<1>6. CASE wid.card = c
  <2> DEFINE v == ClassifyActiveCard(wid)
  <2>1. wid.card # None
    BY <1>6, RegistryAssumption
  <2>2. /\ v \in Widget /\ Held(v) /\ FreeRead(wid, v)
        /\ v.pinManagement <=> wid.card # None /\ PinManagement \in caps'[wid.card]
        /\ v.state \in ReadyState => (Unlock \in caps'[wid.card] => wid.identityRead)
        /\ v.state = "PreAuthRequired" => ~wid.identityRead
        /\ v.state # "NoCard"
        /\ SameWish(wid, v) /\ SameReader(wid, v) /\ SameSigns(wid, v) /\ SameDialogs(wid, v)
        /\ SameHolder(wid, v)
    BY <1>5, <2>1, ClassifyActiveCardEffect
  <2>3. wid' = PageFollows(wid, v)
    BY <1>1, <1>6
  <2> HIDE DEF v
  <2>4. /\ wid' \in Widget
        /\ SameWish(v, wid') /\ SameReader(v, wid') /\ SameSigns(v, wid') /\ SameHolder(v, wid')
        /\ SamePage(v, wid') /\ SameRead(v, wid')
        /\ KeptDialog(wid, v, wid')
    BY <2>2, <2>3, PageFollowsEffect
  <2>5. /\ SameWish(wid, wid') /\ SameReader(wid, wid') /\ SameSigns(wid, wid')
        /\ SameHolder(wid, wid')
    BY <2>2, <2>4 DEF SameWish, SameReader, SameSigns, SameHolder
  <2>6. Held(wid')
    BY <2>2, <2>4 DEF Held, SameHolder, SameRead
  <2>7. Page(wid', readers', seated', caps')
    BY <2>1, <2>2, <2>4, <2>5 DEF Page, SamePage, SameHolder
  <2>8. Placed(wid', readers', slot')
    <3>1. Pick(wid', readers', slot') = Pick(wid, readers, slot)
      BY <1>3, <2>5 DEF Pick, SameWish
    <3>2. Present(wid', readers') <=> Present(wid, readers)
      BY <1>3, <2>5 DEF Present, SameWish
    <3> QED
      BY <1>3, <1>5, <2>5, <3>1, <3>2 DEF Placed, SameHolder, SameReader
  <2>9. wid'.published = ActiveSurface(wid')
    BY <1>5, <2>5, KeptSurface DEF SameHolder
  <2>10. Entries(wid')
    BY <1>5, <2>5 DEF Entries, SameSigns
  <2>11. Followed(wid, wid')
    <3>1. FreeRead(wid, wid')
      BY <2>2, <2>4 DEF FreeRead, SameRead, SameWish
    <3>2. wid'.photoDialog # None =>
             /\ wid'.photoDialog = wid.photoDialog
             /\ wid'.state = wid.state /\ wid'.readerName = wid.readerName
      BY <2>2, <2>4 DEF KeptDialog, SameDialogs, SamePage, SameReader
    <3> QED
      BY <2>1, <2>5, <3>1, <3>2 DEF Followed, SameHolder
  <2>12. HolderStep(wid, wid') /\ FreelyRead(wid, wid') /\ DialogStep(wid, wid') /\ LatchKept(wid, wid')
    BY <1>5, <2>4, <2>6, <2>11, FollowedStep
  <2>13. SignsStep(wid, wid', slot')
    BY <2>5, SameSignsStep DEF SameSigns
  <2> QED
    BY <1>2, <1>4, <2>4, <2>6, <2>7, <2>8, <2>9, <2>10, <2>12, <2>13
       DEF IInv, Settled, Step
<1>7. CASE wid.card # c
  <2>1. wid' = wid
    BY <1>1, <1>7
  <2>2. wid.card # None => caps'[wid.card] = caps[wid.card]
    <3>1. wid.card \in Cards \cup {None}
      BY <1>5 DEF Widget
    <3> QED
      BY <1>1, <1>7, <3>1 DEF CapsChange, IInv, RegistryTypeOK
  <2>3. Page(wid, readers, seated, caps')
    BY <1>5, <2>2 DEF Page
  <2>4. Settled(wid', readers', slot', seated', caps')
    BY <1>3, <1>5, <2>1, <2>3 DEF Settled
  <2>5. HolderStep(wid, wid') /\ FreelyRead(wid, wid') /\ DialogStep(wid, wid') /\ LatchKept(wid, wid')
    BY <2>1, QuietStep DEF SameHolder, SameRead, LatchKept
  <2>6. SignsStep(wid, wid', slot')
    BY <2>1, SameSignsStep
  <2> QED
    BY <1>2, <1>4, <2>4, <2>5, <2>6 DEF IInv, Step
<1> QED
  BY <1>6, <1>7

(* What a handler that leaves the registry alone has to establish.         *)
LEMMA ClientMoved ==
    ASSUME IInv, UNCHANGED <<registry, seated>>, AgentStartTypeOK',
           Settled(wid', readers, slot, seated, caps)
    PROVE  IInv'
<1>1. UNCHANGED <<avail, readers, slot, caps, seated>>
  BY DEF registry
<1>2. RegistryTypeOK' /\ RegistryConsistent'
  BY <1>1 DEF IInv, RegistryTypeOK, RegistryConsistent
<1>3. Seats(readers', slot', seated') /\ Settled(wid', readers', slot', seated', caps')
  BY <1>1 DEF IInv
<1> QED
  BY <1>2, <1>3 DEF IInv

LEMMA WorldUnchanged ==
    ASSUME IInv, UNCHANGED world
    PROVE  UNCHANGED <<registry, seated>> /\ AgentStartTypeOK'
  BY DEF IInv, world, AgentStartTypeOK

LEMMA WorldKept ==
    ASSUME IInv, UNCHANGED world, Settled(wid', readers, slot, seated, caps)
    PROVE  IInv'
  BY ClientMoved, WorldUnchanged

(* A refresh with nothing new in the registry.                             *)
LEMMA RefreshedInPlace ==
    ASSUME IInv, UNCHANGED <<registry, seated>>, AgentStartTypeOK',
           NEW w \in Widget, Refresh(w),
           SameHolder(wid, w), SameRead(wid, w), w.signs = wid.signs,
           w.photoDialog = wid.photoDialog, w.state = wid.state,
           w.readerName = wid.readerName, LatchKept(wid, w)
    PROVE  IInv' /\ Step(wid, wid') /\ FreelyRead(wid, wid') /\ LatchKept(wid, wid')
<1>1. UNCHANGED <<avail, readers, slot, caps, seated>>
  BY DEF registry
<1>2. RegistryTypeOK'
  BY <1>1 DEF IInv, RegistryTypeOK
<1>3. /\ Settled(wid', readers', slot', seated', caps')
      /\ Step(wid, wid') /\ FreelyRead(wid, wid') /\ LatchKept(wid, wid')
  BY <1>2, RefreshStep
<1>4. Settled(wid', readers, slot, seated, caps)
  BY <1>1, <1>3
<1> QED
  BY <1>3, <1>4, ClientMoved

LEMMA IdentityFinishedStep ==
    ASSUME IInv, IdentityFinished
    PROVE  IInv' /\ Step(wid, wid') /\ FreelyRead(wid, wid') /\ LatchKept(wid, wid')
<1>1. PICK t \in ReadTerminal : wid' = PageFollows(wid, OnOperationFinished(wid, t))
  BY DEF IdentityFinished
<1> DEFINE v == OnOperationFinished(wid, t)
<1>2. /\ wid \in Widget /\ Held(wid) /\ Entries(wid)
      /\ wid.published = ActiveSurface(wid)
      /\ Page(wid, readers, seated, caps) /\ Placed(wid, readers, slot)
      /\ wid.identityOp # None /\ caps' = caps
  BY DEF IInv, Settled, IdentityFinished, world, registry
<1>3. /\ v \in Widget /\ Held(v)
      /\ SameWish(wid, v) /\ SameReader(wid, v) /\ SameSigns(wid, v) /\ SameDialogs(wid, v)
      /\ v.card = wid.card /\ v.photo = wid.photo
      /\ v.identityOp = None \/ (v.identityOp = wid.identityOp /\ v.identity = wid.identity)
      /\ v.identity \in {None, wid.identityOp}
      /\ Paged(wid, v)
  BY <1>2, OnOperationFinishedEffect
<1>4. wid' = PageFollows(wid, v)
  BY <1>1
<1> HIDE DEF v
<1>5. /\ wid' \in Widget
      /\ SameWish(v, wid') /\ SameReader(v, wid') /\ SameSigns(v, wid') /\ SameHolder(v, wid')
      /\ SamePage(v, wid') /\ SameRead(v, wid')
      /\ KeptDialog(wid, v, wid')
  BY <1>3, <1>4, PageFollowsEffect
<1>6. /\ SameWish(wid, wid') /\ SameReader(wid, wid') /\ SameSigns(wid, wid')
      /\ wid'.card = wid.card /\ wid'.card # None
  BY <1>2, <1>3, <1>5 DEF SameWish, SameReader, SameSigns, SameHolder, Held
<1>7. Held(wid')
  BY <1>3, <1>5 DEF Held, SameHolder, SameRead
<1>8. Page(wid', readers, seated, caps)
  BY <1>2, <1>3, <1>5, <1>6 DEF Page, Paged, SamePage, SameHolder, ReadyState
<1>9. Placed(wid', readers, slot)
  <2>1. Pick(wid', readers, slot) = Pick(wid, readers, slot)
    BY <1>6 DEF Pick, SameWish
  <2>2. Present(wid', readers) <=> Present(wid, readers)
    BY <1>6 DEF Present, SameWish
  <2> QED
    BY <1>2, <1>6, <2>1, <2>2 DEF Placed, SameReader
<1>10. wid'.published = ActiveSurface(wid') /\ Entries(wid')
  BY <1>2, <1>6, KeptSurface DEF Entries, SameSigns
<1>11. IInv'
  BY <1>5, <1>7, <1>8, <1>9, <1>10, WorldKept DEF Settled, IdentityFinished
<1>12. HolderStep(wid, wid')
  BY <1>2, <1>3, <1>5, <1>6 DEF HolderStep, SameHolder, SameRead
<1>13. FreelyRead(wid, wid') /\ LatchKept(wid, wid')
  BY <1>3, <1>5, <1>6 DEF FreelyRead, LatchKept, SameRead, SameWish
<1>14. DialogStep(wid, wid')
  BY <1>3, <1>5 DEF DialogStep, KeptDialog, SameDialogs, SamePage, SameReader
<1>15. SignsStep(wid, wid', slot')
  BY <1>6, SameSignsStep DEF SameSigns
<1> QED
  BY <1>11, <1>12, <1>13, <1>14, <1>15 DEF Step

LEMMA PhotoFinishedStep ==
    ASSUME IInv, PhotoFinished
    PROVE  IInv' /\ Step(wid, wid') /\ FreelyRead(wid, wid') /\ LatchKept(wid, wid')
<1>1. PICK found \in BOOLEAN : wid' = OnPhotoFinished(wid, found)
  BY DEF PhotoFinished
<1>2. /\ Settled(wid, readers, slot, seated, caps)
      /\ wid \in Widget /\ Held(wid) /\ Entries(wid)
      /\ wid.published = ActiveSurface(wid) /\ wid.photoOp # None
  BY DEF IInv, Settled, PhotoFinished
<1>3. /\ wid' \in Widget /\ Held(wid')
      /\ SameWish(wid, wid') /\ SameReader(wid, wid') /\ SameSigns(wid, wid')
      /\ SameDialogs(wid, wid') /\ SamePage(wid, wid') /\ SameRead(wid, wid')
      /\ wid'.card = wid.card /\ wid'.identityRead = wid.identityRead
      /\ wid'.identity = wid.identity
      /\ wid'.photo \in {wid.photo, wid.card}
  BY <1>1, <1>2, OnPhotoFinishedEffect
<1>4. wid'.published = ActiveSurface(wid') /\ Entries(wid')
  BY <1>2, <1>3, KeptSurface DEF Entries, SameSigns
<1>5. Settled(wid', readers, slot, seated, caps)
  BY <1>2, <1>3, <1>4, KeptSettled DEF SameWish
<1>6. IInv'
  BY <1>5, WorldKept DEF PhotoFinished
<1>7. HolderStep(wid, wid')
  BY <1>2, <1>3 DEF HolderStep, Held, SameRead
<1>8. FreelyRead(wid, wid') /\ DialogStep(wid, wid') /\ LatchKept(wid, wid')
  BY <1>3 DEF FreelyRead, DialogStep, LatchKept, SameWish, SameRead, SameDialogs, SamePage, SameReader
<1>9. SignsStep(wid, wid', slot')
  BY <1>3, SameSignsStep DEF SameSigns
<1> QED
  BY <1>6, <1>7, <1>8, <1>9 DEF Step

(* Members on which no page, place or surface depends may change freely.   *)
LEMMA UnseenSettled ==
    ASSUME NEW rs, NEW s, NEW st, NEW k, NEW w, Settled(w, rs, s, st, k),
           NEW u \in Widget, SameSigns(w, u), SameReader(w, u), SameHolder(w, u),
           SamePage(w, u), SameRead(w, u), u.bound = w.bound, u.selected = w.selected
    PROVE  Settled(u, rs, s, st, k)
<1>1. Held(u) /\ Entries(u)
  BY DEF Settled, Held, Entries, SameHolder, SameRead, SameSigns
<1>2. w \in Widget /\ w.published = ActiveSurface(w)
  BY DEF Settled
<1>3. u.published = ActiveSurface(u)
  BY <1>2, KeptSurface DEF SameHolder
<1> QED
  BY <1>1, <1>3, KeptSettled DEF SameHolder

(* Entries replaced, and the surfaces published.                           *)
LEMMA SignsPublished ==
    ASSUME NEW rs, NEW s, NEW st, NEW k, NEW w, Settled(w, rs, s, st, k),
           NEW S \in SUBSET SignEntry,
           \A e, f \in S : e.name = f.name => e = f,
           \A e \in S : e.card # None => e.card = e.of
    PROVE  LET u == PublishSignSurfaces([w EXCEPT !.signs = S]) IN
           /\ Settled(u, rs, s, st, k)
           /\ u.signs = S
           /\ SameWish(w, u) /\ SameReader(w, u) /\ SameHolder(w, u) /\ SameDialogs(w, u)
           /\ SamePage(w, u) /\ SameRead(w, u)
<1> DEFINE v == [w EXCEPT !.signs = S]
           u == PublishSignSurfaces(v)
<1>1. /\ v \in Widget
      /\ v.signs = S
      /\ SameWish(w, v) /\ SameReader(w, v) /\ SameHolder(w, v) /\ SameDialogs(w, v)
      /\ SamePage(w, v) /\ SameRead(w, v)
  BY SignsEffect DEF Settled
<1> HIDE DEF v
<1>2. /\ u \in Widget
      /\ u.published = ActiveSurface(u)
      /\ SameWish(v, u) /\ SameReader(v, u) /\ SameHolder(v, u) /\ u.signs = v.signs
      /\ SamePage(v, u) /\ SameRead(v, u) /\ SameDialogs(v, u)
  BY <1>1, PublishEffect
<1> HIDE DEF u
<1>3. /\ u.signs = S
      /\ SameWish(w, u) /\ SameReader(w, u) /\ SameHolder(w, u) /\ SameDialogs(w, u)
      /\ SamePage(w, u) /\ SameRead(w, u)
  BY <1>1, <1>2 DEF SameWish, SameReader, SameHolder, SameDialogs, SamePage, SameRead
<1>4. Held(u)
  BY <1>3 DEF Settled, Held, SameHolder, SameRead
<1>5. Entries(u)
  BY <1>3 DEF Entries
<1>6. Settled(u, rs, s, st, k)
  BY <1>2, <1>3, <1>4, <1>5, KeptSettled DEF SameWish, SameHolder
<1> QED
  BY <1>3, <1>6 DEF u, v

(* An action on the signs alone.                                           *)
LEMMA SignsPublishedStep ==
    ASSUME IInv, UNCHANGED world, NEW S \in SUBSET SignEntry,
           \A e, f \in S : e.name = f.name => e = f,
           \A e \in S : e.card # None => e.card = e.of,
           \A e \in wid.signs : e.job => \E f \in S : Outlives(e, f),
           wid' = PublishSignSurfaces([wid EXCEPT !.signs = S])
    PROVE  IInv' /\ Step(wid, wid') /\ FreelyRead(wid, wid') /\ LatchKept(wid, wid')
<1>1. Settled(wid, readers, slot, seated, caps)
  BY DEF IInv
<1>2. /\ Settled(wid', readers, slot, seated, caps)
      /\ wid'.signs = S
      /\ SameWish(wid, wid') /\ SameReader(wid, wid') /\ SameHolder(wid, wid')
      /\ SameDialogs(wid, wid') /\ SamePage(wid, wid') /\ SameRead(wid, wid')
  BY <1>1, SignsPublished
<1>3. IInv'
  BY <1>2, WorldKept
<1>4. HolderStep(wid, wid') /\ FreelyRead(wid, wid') /\ DialogStep(wid, wid') /\ LatchKept(wid, wid')
  BY <1>2, QuietStep DEF LatchKept, SameWish, SameDialogs, SamePage, SameReader
<1>5. SignsStep(wid, wid', slot')
  BY <1>2 DEF SignsStep
<1> QED
  BY <1>3, <1>4, <1>5 DEF Step

LEMMA SignEndedStep ==
    ASSUME IInv, SignEnded
    PROVE  IInv' /\ Step(wid, wid') /\ FreelyRead(wid, wid') /\ LatchKept(wid, wid')
<1>1. PICK e \in wid.signs, outcome \in {"succeeded", "failed"} :
         e.job /\ wid' = OnSignEnded(wid, e, outcome)
  BY DEF SignEnded
<1> DEFINE f == Ended(e, outcome)
           S == (wid.signs \ {e}) \cup {f}
<1>2. wid \in Widget /\ Entries(wid)
  BY DEF IInv, Settled
<1>3. wid.signs \in SUBSET SignEntry
  BY <1>2 DEF Widget
<1>4. /\ f \in SignEntry
      /\ f.name = e.name /\ f.card = e.card /\ f.of = e.of /\ f.asked = e.asked
      /\ ~f.job /\ f.outcome = outcome
  <2>1. e \in SignEntry /\ outcome \in Outcome
    BY <1>1, <1>3 DEF Outcome
  <2> QED
    BY <2>1, EndedEffect
<1>5. wid' = PublishSignSurfaces([wid EXCEPT !.signs = S])
  BY <1>1 DEF OnSignEnded
<1> HIDE DEF f
<1>6. S \in SUBSET SignEntry
  BY <1>3, <1>4
<1>7. /\ \A g, h \in S : g.name = h.name => g = h
      /\ \A g \in S : g.card # None => g.card = g.of
  BY <1>2, <1>4 DEF Entries
<1>8. \A g \in wid.signs : g.job => \E h \in S : Outlives(g, h)
  <2>1. outcome # "none"
    BY <1>1
  <2> QED
    BY <1>4, <2>1 DEF Outlives
<1> HIDE DEF S
<1>9. UNCHANGED world
  BY DEF SignEnded
<1> QED
  BY <1>5, <1>6, <1>7, <1>8, <1>9, SignsPublishedStep

LEMMA DismissSignResultStep ==
    ASSUME IInv, DismissSignResult
    PROVE  IInv' /\ Step(wid, wid') /\ FreelyRead(wid, wid') /\ LatchKept(wid, wid')
<1> DEFINE cleared(e) == [e EXCEPT !.outcome = "none"]
           after(e) == IF e.name = wid.readerName THEN cleared(e) ELSE e
           S == {after(e) : e \in wid.signs}
<1>1. wid \in Widget /\ Entries(wid)
  BY DEF IInv, Settled
<1>2. wid.signs \in SUBSET SignEntry
  BY <1>1 DEF Widget
<1>3. wid' = PublishSignSurfaces([wid EXCEPT !.signs = S])
  BY DEF DismissSignResult
<1>4. \A e \in wid.signs :
         /\ cleared(e) \in SignEntry
         /\ cleared(e).name = e.name /\ cleared(e).card = e.card /\ cleared(e).of = e.of
         /\ cleared(e).asked = e.asked /\ cleared(e).job = e.job
  <2>1. ASSUME NEW e \in SignEntry PROVE cleared(e) \in SignEntry
    BY SMT DEF SignEntry, Outcome
  <2> QED
    BY <1>2, <2>1 DEF SignEntry
<1> HIDE DEF cleared
<1>5. \A e \in wid.signs :
         /\ after(e) \in SignEntry
         /\ after(e).name = e.name /\ after(e).card = e.card /\ after(e).of = e.of
         /\ after(e).asked = e.asked /\ after(e).job = e.job
  BY <1>2, <1>4
<1> HIDE DEF after
<1>6. /\ S \in SUBSET SignEntry
      /\ \A g, h \in S : g.name = h.name => g = h
      /\ \A g \in S : g.card # None => g.card = g.of
  BY <1>1, <1>5 DEF Entries
<1>7. \A g \in wid.signs : g.job => \E h \in S : Outlives(g, h)
  BY <1>5 DEF Outlives
<1> HIDE DEF S
<1>8. UNCHANGED world
  BY DEF DismissSignResult
<1> QED
  BY <1>3, <1>6, <1>7, <1>8, SignsPublishedStep

(* signFile, with the record it makes and the entries in it.               *)
LEMMA SignFileEffect ==
    ASSUME NEW rs, NEW s, NEW st, NEW k, NEW w, Settled(w, rs, s, st, k)
    PROVE  LET u == SignFile(w) IN
           /\ Settled(u, rs, s, st, k)
           /\ SameWish(w, u) /\ SameReader(w, u) /\ SameHolder(w, u) /\ SameDialogs(w, u)
           /\ SamePage(w, u) /\ SameRead(w, u)
           /\ \A e \in w.signs : e.job => e \in u.signs
<1> DEFINE u == SignFile(w)
           v == [w EXCEPT !.error = None]
           n == NewSign(w)
           S == {e \in w.signs : e.name # w.readerName} \cup {n}
<1>1. w \in Widget /\ Entries(w)
  BY DEF Settled
<1>2. /\ v \in Widget
      /\ SameWish(w, v) /\ SameReader(w, v) /\ SameHolder(w, v) /\ SameDialogs(w, v)
      /\ SamePage(w, v) /\ SameRead(w, v) /\ SameSigns(w, v)
  <2>1. v \in Widget
    BY <1>1, ErrorTyped DEF State
  <2>2. /\ SameWish(w, v) /\ SameReader(w, v) /\ SameHolder(w, v) /\ SameDialogs(w, v)
        /\ SamePage(w, v) /\ SameRead(w, v) /\ SameSigns(w, v)
    BY <1>1 DEF Widget, SameWish, SameReader, SameHolder, SameDialogs, SamePage, SameRead,
                SameSigns
  <2> QED
    BY <2>1, <2>2
<1>3. Settled(v, rs, s, st, k)
  BY <1>2, UnseenSettled DEF SameWish
<1>4. CASE w.readerName = None
  <2>1. u = v
    BY <1>4 DEF SignFile
  <2> HIDE DEF u, v
  <2> QED
    BY <1>2, <1>3, <2>1 DEF SameSigns, u
<1>5. CASE w.readerName # None /\ \E e \in w.signs : e.name = w.readerName /\ e.job
  <2>1. u = w
    BY <1>5 DEF SignFile
  <2> HIDE DEF u
  <2> QED
    BY <2>1 DEF SameWish, SameReader, SameHolder, SameDialogs, SamePage, SameRead, u
<1>6. CASE w.readerName # None /\ ~(\E e \in w.signs : e.name = w.readerName /\ e.job)
  <2>1. u = PublishSignSurfaces([v EXCEPT !.signs = S])
    BY <1>1, <1>6 DEF SignFile, StartSign, Widget
  <2>2. /\ n \in SignEntry /\ n.name = w.readerName
        /\ n.card # None => n.card = n.of
    <3>1. w.readerName \in Names /\ w.card \in Cards \cup {None} /\ w.dialog \in Cards \cup {None}
      BY <1>1, <1>6 DEF Widget
    <3> QED
      BY <3>1 DEF NewSign, SignEntry, Outcome
  <2> HIDE DEF n, v, u
  <2>3. /\ S \in SUBSET SignEntry
        /\ \A e, f \in S : e.name = f.name => e = f
        /\ \A e \in S : e.card # None => e.card = e.of
    <3>1. w.signs \in SUBSET SignEntry
      BY <1>1 DEF Widget
    <3> QED
      BY <1>1, <2>2, <3>1 DEF Entries
  <2>4. \A e \in w.signs : e.job => e \in S
    BY <1>6
  <2> HIDE DEF S
  <2>5. /\ Settled(u, rs, s, st, k)
        /\ u.signs = S
        /\ SameWish(v, u) /\ SameReader(v, u) /\ SameHolder(v, u) /\ SameDialogs(v, u)
        /\ SamePage(v, u) /\ SameRead(v, u)
    BY <1>3, <2>1, <2>3, SignsPublished
  <2> QED
    BY <1>2, <2>4, <2>5
       DEF SameWish, SameReader, SameHolder, SameDialogs, SamePage, SameRead, u
<1> QED
  BY <1>4, <1>5, <1>6

(* An action on members that nothing else depends on.                      *)
LEMMA UnseenStep ==
    ASSUME IInv, UNCHANGED <<registry, seated>>, AgentStartTypeOK',
           wid' \in Widget, SameSigns(wid, wid'), SameReader(wid, wid'),
           SameHolder(wid, wid'), SamePage(wid, wid'), SameRead(wid, wid'),
           wid'.bound = wid.bound, wid'.selected = wid.selected,
           wid'.photoDialog # None =>
              \/ wid'.photoDialog = wid.photoDialog
              \/ wid'.photoDialog = wid.photo /\ wid.state \in PhotoState
    PROVE  IInv' /\ Step(wid, wid') /\ FreelyRead(wid, wid')
<1>1. Settled(wid', readers, slot, seated, caps)
  BY UnseenSettled DEF IInv
<1>2. IInv'
  BY <1>1, ClientMoved
<1>3. HolderStep(wid, wid') /\ FreelyRead(wid, wid')
  BY DEF SameHolder, SameRead, HolderStep, FreelyRead
<1>4. DialogStep(wid, wid')
  BY DEF DialogStep, SamePage, SameReader, SameHolder
<1>5. SignsStep(wid, wid', slot')
  BY SameSignsStep DEF SameSigns
<1> QED
  BY <1>2, <1>3, <1>4, <1>5 DEF Step

LEMMA SetBoundReaderNameStep ==
    ASSUME IInv, NEW n \in Names \cup {None}, SetBoundReaderName(n)
    PROVE  IInv' /\ Step(wid, wid') /\ FreelyRead(wid, wid') /\ LatchKept(wid, wid')
<1> DEFINE w == [wid EXCEPT !.bound = n, !.selected = None]
<1>1. wid \in Widget
  BY DEF IInv, Settled
<1>2. w \in Widget
  BY <1>1, WidgetFields
<1>3. /\ SameHolder(wid, w) /\ SameRead(wid, w) /\ w.signs = wid.signs
      /\ w.photoDialog = wid.photoDialog /\ w.state = wid.state
      /\ w.readerName = wid.readerName /\ LatchKept(wid, w)
  BY <1>1 DEF Widget, SameHolder, SameRead, LatchKept
<1>4. Refresh(w) /\ UNCHANGED world
  BY DEF SetBoundReaderName
<1> HIDE DEF w
<1> QED
  BY <1>2, <1>3, <1>4, WorldUnchanged, RefreshedInPlace

LEMMA SelectReaderStep ==
    ASSUME IInv, NEW n \in Names, SelectReader(n)
    PROVE  IInv' /\ Step(wid, wid') /\ FreelyRead(wid, wid') /\ LatchKept(wid, wid')
<1> DEFINE w == [wid EXCEPT !.selected = n]
<1>1. wid \in Widget
  BY DEF IInv, Settled
<1>2. w \in Widget
  BY <1>1, WidgetFields
<1>3. /\ SameHolder(wid, w) /\ SameRead(wid, w) /\ w.signs = wid.signs
      /\ w.photoDialog = wid.photoDialog /\ w.state = wid.state
      /\ w.readerName = wid.readerName /\ LatchKept(wid, w)
  BY <1>1 DEF Widget, SameHolder, SameRead, LatchKept
<1>4. Refresh(w) /\ UNCHANGED world
  BY DEF SelectReader
<1> HIDE DEF w
<1> QED
  BY <1>2, <1>3, <1>4, WorldUnchanged, RefreshedInPlace

LEMMA RelabelStep ==
    ASSUME IInv, Relabel
    PROVE  IInv' /\ Step(wid, wid') /\ FreelyRead(wid, wid') /\ LatchKept(wid, wid')
<1>1. wid \in Widget
  BY DEF IInv, Settled
<1> QED
  BY <1>1, WorldUnchanged, RefreshedInPlace DEF Relabel, SameHolder, SameRead, LatchKept

(* A read started in place, by the popup or by the button.                 *)
LEMMA ReadStep ==
    ASSUME IInv, UNCHANGED world, wid' \in Widget, Held(wid'),
           SameSigns(wid, wid'), SameReader(wid, wid'), SameDialogs(wid, wid'),
           SameHolder(wid, wid'), SamePage(wid, wid'),
           wid'.bound = wid.bound, wid'.selected = wid.selected,
           \/ wid'.identityOp = wid.identityOp
           \/ /\ wid.identityOp = None /\ ~wid.identityRead /\ wid.card # None
              /\ wid'.identityOp = wid.card
    PROVE  IInv' /\ Step(wid, wid')
<1>1. /\ Settled(wid, readers, slot, seated, caps)
      /\ wid \in Widget /\ Held(wid) /\ Entries(wid) /\ wid.published = ActiveSurface(wid)
  BY DEF IInv, Settled
<1>2. wid'.published = ActiveSurface(wid') /\ Entries(wid')
  BY <1>1, KeptSurface DEF Entries, SameSigns, SameHolder
<1>3. Settled(wid', readers, slot, seated, caps)
  BY <1>1, <1>2, KeptSettled DEF SameHolder
<1>4. IInv'
  BY <1>3, WorldKept
<1>5. HolderStep(wid, wid')
  BY <1>1 DEF HolderStep, SameHolder, Held
<1>6. DialogStep(wid, wid')
  BY DEF DialogStep, SameDialogs, SamePage, SameReader
<1>7. SignsStep(wid, wid', slot')
  BY SameSignsStep DEF SameSigns
<1> QED
  BY <1>4, <1>5, <1>6, <1>7 DEF Step

LEMMA SetViewActiveStep ==
    ASSUME IInv, NEW active \in BOOLEAN, SetViewActive(active)
    PROVE  IInv' /\ Step(wid, wid') /\ FreelyRead(wid, wid') /\ LatchKept(wid, wid')
<1> DEFINE w == [wid EXCEPT !.viewActive = active]
<1>1. wid \in Widget /\ Held(wid)
  BY DEF IInv, Settled
<1>2. /\ w \in Widget /\ w.viewActive = active
      /\ SameSigns(wid, w) /\ SameReader(wid, w) /\ SameDialogs(wid, w)
      /\ SameHolder(wid, w) /\ SamePage(wid, w) /\ SameRead(wid, w)
      /\ w.bound = wid.bound /\ w.selected = wid.selected /\ w.starting = wid.starting
  <2>1. w \in Widget
    BY <1>1, WidgetFields
  <2> QED
    BY <1>1, <2>1
       DEF Widget, SameSigns, SameReader, SameDialogs, SameHolder, SamePage, SameRead
<1>3. /\ active => wid' = EnsureFreeRead(w)
      /\ ~active => wid' = w
      /\ UNCHANGED world
  BY DEF SetViewActive
<1> HIDE DEF w
<1>4. CASE active
  <2>1. Held(w) /\ w.viewActive
    BY <1>1, <1>2, <1>4 DEF Held, SameHolder, SameRead
  <2>2. /\ wid' \in Widget /\ Held(wid') /\ FreeRead(w, wid')
        /\ SameWish(w, wid') /\ SameReader(w, wid') /\ SameSigns(w, wid')
        /\ SameDialogs(w, wid') /\ SameHolder(w, wid')
        /\ wid'.state = w.state /\ wid'.pinManagement = w.pinManagement
        /\ wid'.detected = w.detected
    BY <1>2, <1>3, <1>4, <2>1, EnsureFreeReadEffect
  <2>3. /\ SameSigns(wid, wid') /\ SameReader(wid, wid') /\ SameDialogs(wid, wid')
        /\ SameHolder(wid, wid') /\ SamePage(wid, wid')
        /\ wid'.bound = wid.bound /\ wid'.selected = wid.selected
        /\ wid'.starting = wid.starting
    BY <1>2, <2>2 DEF SameSigns, SameReader, SameDialogs, SameHolder, SamePage, SameWish
  <2>4. FreeRead(wid, wid')
    BY <1>2, <2>2 DEF FreeRead, SameHolder, SameRead
  <2>5. IInv' /\ Step(wid, wid')
    BY <1>3, <2>2, <2>3, <2>4, ReadStep DEF FreeRead
  <2>6. FreelyRead(wid, wid') /\ LatchKept(wid, wid')
    BY <2>3, <2>4 DEF FreeRead, FreelyRead, LatchKept
  <2> QED
    BY <2>5, <2>6
<1>5. CASE ~active
  BY <1>2, <1>3, <1>5, WorldUnchanged, UnseenStep DEF SameDialogs, LatchKept
<1> QED
  BY <1>4, <1>5

LEMMA ReadCardStep ==
    ASSUME IInv, ReadCard
    PROVE  IInv' /\ Step(wid, wid') /\ wid'.viewActive /\ LatchKept(wid, wid')
<1>1. wid \in Widget /\ Held(wid) /\ ~wid.identityRead /\ wid.viewActive
  BY DEF IInv, Settled, Page, ReadCard
<1>2. wid' = ReadIdentity(wid) /\ UNCHANGED world
  BY DEF ReadCard
<1>3. /\ wid' \in Widget /\ Held(wid')
      /\ wid'.identityOp = IF wid.card # None /\ wid.identityOp = None THEN wid.card
                           ELSE wid.identityOp
      /\ SameWish(wid, wid') /\ SameReader(wid, wid') /\ SameSigns(wid, wid')
      /\ SameDialogs(wid, wid') /\ SameHolder(wid, wid')
      /\ wid'.state = wid.state /\ wid'.pinManagement = wid.pinManagement
      /\ wid'.detected = wid.detected
  BY <1>1, <1>2, ReadIdentityEffect
<1> QED
  BY <1>1, <1>2, <1>3, ReadStep DEF SamePage, SameWish, LatchKept

LEMMA AcceptSignDialogStep ==
    ASSUME IInv, AcceptSignDialog
    PROVE  IInv' /\ Step(wid, wid') /\ FreelyRead(wid, wid') /\ LatchKept(wid, wid')
<1> DEFINE w == SignFile(wid)
<1>1. Settled(wid, readers, slot, seated, caps)
  BY DEF IInv
<1>2. /\ Settled(w, readers, slot, seated, caps)
      /\ SameWish(wid, w) /\ SameReader(wid, w) /\ SameHolder(wid, w) /\ SameDialogs(wid, w)
      /\ SamePage(wid, w) /\ SameRead(wid, w)
      /\ \A e \in wid.signs : e.job => e \in w.signs
  BY <1>1, SignFileEffect
<1>3. wid' = [w EXCEPT !.dialog = None] /\ UNCHANGED world
  BY DEF AcceptSignDialog
<1> HIDE DEF w
<1>4. w \in Widget
  BY <1>2 DEF Settled
<1>5. /\ wid' \in Widget
      /\ SameWish(w, wid') /\ SameSigns(w, wid') /\ SameReader(w, wid') /\ SameHolder(w, wid')
      /\ SamePage(w, wid') /\ SameRead(w, wid')
      /\ wid'.photoDialog = w.photoDialog
  <2>1. wid' \in Widget
    BY <1>3, <1>4, WidgetFields
  <2> QED
    BY <1>3, <1>4, <2>1
       DEF Widget, SameWish, SameSigns, SameReader, SameHolder, SamePage, SameRead
<1>6. Settled(wid', readers, slot, seated, caps)
  BY <1>2, <1>5, UnseenSettled DEF SameWish
<1>7. IInv'
  BY <1>3, <1>6, WorldKept
<1>8. SameHolder(wid, wid') /\ SameRead(wid, wid')
  BY <1>2, <1>5 DEF SameHolder, SameRead
<1>9. wid'.photoDialog # None =>
         /\ wid'.photoDialog = wid.photoDialog
         /\ wid'.state = wid.state /\ wid'.readerName = wid.readerName
  BY <1>2, <1>5 DEF SameDialogs, SamePage, SameReader
<1>10. HolderStep(wid, wid') /\ FreelyRead(wid, wid') /\ DialogStep(wid, wid') /\ LatchKept(wid, wid')
  BY <1>2, <1>5, <1>8, <1>9, QuietStep DEF SameWish, LatchKept
<1>11. SignsStep(wid, wid', slot')
  BY <1>2, <1>5, SameSignsStep DEF SameSigns
<1> QED
  BY <1>7, <1>10, <1>11 DEF Step

(* The file dialogs.                                                       *)
LEMMA DialogsStep ==
    ASSUME IInv, OpenSignDialog \/ CloseSignDialog \/ OpenPhotoDialog \/ LeavePhotoDialog
    PROVE  IInv' /\ Step(wid, wid') /\ FreelyRead(wid, wid') /\ LatchKept(wid, wid')
<1>1. wid \in Widget
  BY DEF IInv, Settled
<1>2. UNCHANGED world
  BY DEF OpenSignDialog, CloseSignDialog, OpenPhotoDialog, LeavePhotoDialog
<1>3. ASSUME NEW c \in Cards \cup {None}, wid' = [wid EXCEPT !.dialog = c]
      PROVE  IInv' /\ Step(wid, wid') /\ FreelyRead(wid, wid') /\ LatchKept(wid, wid')
  <2>1. wid' \in Widget
    BY <1>1, <1>3, WidgetFields
  <2>2. /\ SameSigns(wid, wid') /\ SameReader(wid, wid') /\ SameHolder(wid, wid')
        /\ SamePage(wid, wid') /\ SameRead(wid, wid')
        /\ wid'.bound = wid.bound /\ wid'.selected = wid.selected
        /\ wid'.photoDialog = wid.photoDialog /\ LatchKept(wid, wid')
    BY <1>1, <1>3 DEF LatchKept, Widget, SameSigns, SameReader, SameHolder, SamePage, SameRead
  <2> QED
    BY <1>2, <2>1, <2>2, WorldUnchanged, UnseenStep
<1>4. ASSUME NEW c \in Cards \cup {None}, wid' = [wid EXCEPT !.photoDialog = c],
             c = None \/ (c = wid.photo /\ wid.state \in PhotoState)
      PROVE  IInv' /\ Step(wid, wid') /\ FreelyRead(wid, wid') /\ LatchKept(wid, wid')
  <2>1. wid' \in Widget
    BY <1>1, <1>4, WidgetFields
  <2>2. /\ SameSigns(wid, wid') /\ SameReader(wid, wid') /\ SameHolder(wid, wid')
        /\ SamePage(wid, wid') /\ SameRead(wid, wid')
        /\ wid'.bound = wid.bound /\ wid'.selected = wid.selected
        /\ wid'.photoDialog = c /\ LatchKept(wid, wid')
    BY <1>1, <1>4 DEF LatchKept, Widget, SameSigns, SameReader, SameHolder, SamePage, SameRead
  <2> QED
    BY <1>2, <1>4, <2>1, <2>2, WorldUnchanged, UnseenStep
<1>5. wid.card \in Cards \cup {None} /\ wid.photo \in Cards \cup {None}
  BY <1>1 DEF Widget
<1>6. CASE OpenSignDialog \/ CloseSignDialog
  BY <1>3, <1>5, <1>6 DEF OpenSignDialog, CloseSignDialog
<1>7. CASE OpenPhotoDialog
  <2>1. wid.state \in PhotoState /\ wid' = [wid EXCEPT !.photoDialog = wid.photo]
    BY <1>7 DEF OpenPhotoDialog, CanSavePhoto, PhotoState
  <2> QED
    BY <1>4, <1>5, <2>1
<1>8. CASE LeavePhotoDialog
  BY <1>4, <1>8 DEF LeavePhotoDialog
<1> QED
  BY <1>6, <1>7, <1>8

-----------------------------------------------------------------------------
(* Starting the agent.                                                     *)

LEMMA AskTyped ==
    ASSUME AgentStartTypeOK, NEW asker \in Asker, Ask(asker)
    PROVE  AgentStartTypeOK'
<1>1. client.tasks \in Seq(Asker) /\ client.starter \in Asker \cup {None}
  BY DEF AgentStartTypeOK, Client
<1>2. Append(client.tasks, asker) \in Seq(Asker)
  BY <1>1
<1>3. client' = [client EXCEPT !.tasks = Append(client.tasks, asker)]
  BY DEF Ask
<1> QED
  BY <1>2, <1>3 DEF AgentStartTypeOK, Client

LEMMA RunTyped ==
    ASSUME AgentStartTypeOK, NEW asker \in Asker, NEW answer,
           RunRequest(asker, answer) \/ EndWait(asker)
    PROVE  AgentStartTypeOK'
<1>1. client \in Client /\ client.tasks \in Seq(Asker) /\ client.starter \in Asker \cup {None}
  BY DEF AgentStartTypeOK, Client
<1>2. CASE RunRequest(asker, answer)
  <2> DEFINE starter == IF answer = None THEN asker ELSE client.starter
  <2>1. client' = [client EXCEPT !.tasks = Tail(client.tasks), !.starter = starter]
    BY <1>2 DEF RunRequest
  <2>2. Tail(client.tasks) \in Seq(Asker)
    BY <1>1, <1>2 DEF RunRequest
  <2>3. starter \in Asker \cup {None}
    BY <1>1
  <2> HIDE DEF starter
  <2> QED
    BY <1>1, <2>1, <2>2, <2>3 DEF AgentStartTypeOK, Client
<1>3. CASE EndWait(asker)
  BY <1>1, <1>3 DEF EndWait, AgentStartTypeOK, Client
<1> QED
  BY <1>2, <1>3

(* An answer, whoever asked.                                               *)
LEMMA HearStep ==
    ASSUME IInv, UNCHANGED <<registry, seated>>, AgentStartTypeOK',
           NEW asker, NEW result, Hear(asker, result) \/ UNCHANGED wid
    PROVE  IInv' /\ Step(wid, wid') /\ FreelyRead(wid, wid')
<1> DEFINE w == [wid EXCEPT !.starting = FALSE]
<1>1. wid \in Widget
  BY DEF IInv, Settled
<1>2. CASE UNCHANGED wid
  BY <1>1, <1>2, UnseenStep DEF SameSigns, SameReader, SameHolder, SamePage, SameRead
<1>3. CASE Refresh(wid)
  BY <1>1, <1>3, RefreshedInPlace DEF SameHolder, SameRead, LatchKept
<1>4. CASE Refresh(w)
  <2>1. w \in Widget
    BY <1>1, WidgetFields
  <2>2. /\ SameHolder(wid, w) /\ SameRead(wid, w) /\ w.signs = wid.signs
        /\ w.photoDialog = wid.photoDialog /\ w.state = wid.state
        /\ w.readerName = wid.readerName /\ LatchKept(wid, w)
    BY <1>1 DEF Widget, SameHolder, SameRead, LatchKept
  <2> HIDE DEF w
  <2> QED
    BY <1>4, <2>1, <2>2, RefreshedInPlace
<1> QED
  BY <1>2, <1>3, <1>4 DEF Hear, OnAgentStartFinished

LEMMA AgentSteps ==
    ASSUME IInv, StartAgent \/ RequestRefresh \/ SiblingAsks \/ RequestRun \/ StartEnds
    PROVE  IInv' /\ Step(wid, wid') /\ FreelyRead(wid, wid')
<1>1. wid \in Widget /\ AgentStartTypeOK
  BY DEF IInv, Settled
<1>2. CASE StartAgent
  <2>1. AgentStartTypeOK'
    BY <1>1, <1>2, AskTyped DEF StartAgent, Asker
  <2>2. wid' = [wid EXCEPT !.starting = TRUE]
    BY <1>2 DEF StartAgent
  <2>3. wid' \in Widget
    BY <1>1, <2>2, WidgetFields
  <2>4. /\ SameSigns(wid, wid') /\ SameReader(wid, wid') /\ SameHolder(wid, wid')
        /\ SamePage(wid, wid') /\ SameRead(wid, wid')
        /\ wid'.bound = wid.bound /\ wid'.selected = wid.selected
        /\ wid'.photoDialog = wid.photoDialog
    BY <1>1, <2>2 DEF Widget, SameSigns, SameReader, SameHolder, SamePage, SameRead
  <2> QED
    BY <1>2, <2>1, <2>3, <2>4, UnseenStep DEF StartAgent
<1>3. CASE RequestRefresh
  <2>1. AgentStartTypeOK'
    BY <1>1, <1>3, AskTyped DEF RequestRefresh, Asker
  <2> QED
    BY <1>3, <2>1, HearStep DEF RequestRefresh
<1>4. CASE SiblingAsks
  <2>1. AgentStartTypeOK'
    BY <1>1, <1>4, AskTyped DEF SiblingAsks, Asker
  <2> QED
    BY <1>4, <2>1, HearStep DEF SiblingAsks
<1>5. CASE RequestRun
  <2>1. PICK asker \in Asker, answer \in {None, Started, Requested, Missing} :
           /\ RunRequest(asker, answer)
           /\ Hear(asker, answer) \/ UNCHANGED wid
    BY <1>5 DEF RequestRun
  <2>2. AgentStartTypeOK'
    BY <1>1, <2>1, RunTyped
  <2> QED
    BY <1>5, <2>1, <2>2, HearStep DEF RequestRun
<1>6. CASE StartEnds
  <2>1. PICK asker \in Asker : EndWait(asker) /\ Hear(asker, Verdict)
    BY <1>6 DEF StartEnds
  <2>2. AgentStartTypeOK'
    BY <1>1, <2>1, RunTyped
  <2> QED
    BY <1>6, <2>1, <2>2, HearStep DEF StartEnds
<1> QED
  BY <1>2, <1>3, <1>4, <1>5, <1>6

-----------------------------------------------------------------------------
(* The invariant.                                                          *)

(* The steps that ask something of the shared client, or hear from it.     *)
ClientStep == StartAgent \/ RequestRefresh \/ SiblingAsks \/ RequestRun \/ StartEnds

LEMMA NextIInv ==
    ASSUME IInv, Next
    PROVE  /\ IInv'
           /\ Step(wid, wid')
           /\ FreelyRead(wid, wid') \/ (ReadCard /\ wid'.viewActive)
           /\ LatchKept(wid, wid') \/ ClientStep
<1>1. CASE RegistryEvent
  BY <1>1, RegistryGainStep, RegistryLossStep, SeatChangedStep, CardChangedStep, RelabelStep
     DEF RegistryEvent
<1>2. CASE IdentityFinished
  BY <1>2, IdentityFinishedStep
<1>3. CASE PhotoFinished
  BY <1>3, PhotoFinishedStep
<1>4. CASE SignEnded
  BY <1>4, SignEndedStep
<1>5. ASSUME NEW n \in Names \cup {None}, SetBoundReaderName(n)
      PROVE  IInv' /\ Step(wid, wid') /\ FreelyRead(wid, wid') /\ LatchKept(wid, wid')
  BY <1>5, SetBoundReaderNameStep
<1>6. ASSUME NEW n \in Names, SelectReader(n)
      PROVE  IInv' /\ Step(wid, wid') /\ FreelyRead(wid, wid') /\ LatchKept(wid, wid')
  BY <1>6, SelectReaderStep
<1>7. ASSUME NEW active \in BOOLEAN, SetViewActive(active)
      PROVE  IInv' /\ Step(wid, wid') /\ FreelyRead(wid, wid') /\ LatchKept(wid, wid')
  BY <1>7, SetViewActiveStep
<1>8. CASE ReadCard
  BY <1>8, ReadCardStep
<1>9. CASE OpenSignDialog \/ CloseSignDialog \/ OpenPhotoDialog \/ LeavePhotoDialog
  BY <1>9, DialogsStep
<1>10. CASE AcceptSignDialog
  BY <1>10, AcceptSignDialogStep
<1>11. CASE DismissSignResult
  BY <1>11, DismissSignResultStep
<1>12. CASE ClientStep
  BY <1>12, AgentSteps DEF ClientStep
<1> QED
  BY <1>1, <1>2, <1>3, <1>4, <1>5, <1>6, <1>7, <1>8, <1>9, <1>10, <1>11, <1>12
     DEF Next, ClientStep

(* The record the constructor leaves, whether or not the agent is there.   *)
Fresh(w) ==
    /\ w.bound = None /\ w.selected = None /\ ~w.boundPresent /\ w.card = None
    /\ w.identityOp = None /\ w.photoOp = None /\ ~w.identityRead
    /\ w.identity = None /\ w.photo = None /\ ~w.pinManagement
    /\ w.state \in {"NoCard", "AgentUnavailable"}
    /\ ~w.detected /\ w.signs = {} /\ w.published = NoSurface
    /\ w.photoDialog = None /\ ~w.starting

LEMMA InitFresh ==
    ASSUME Init
    PROVE  wid \in Widget /\ Fresh(wid)
<1>1. /\ "NoCard" \in State /\ "AgentUnavailable" \in State
      /\ NoSurface \in Surface /\ {} \in SUBSET SignEntry
      /\ None \in Names \cup {None} /\ None \in Cards \cup {None}
  BY DEF State, NoSurface, Surface, Outcome
<1>2. Idle \in Widget
  BY <1>1, SMT DEF Idle, Widget
<1>3. Fresh(Idle)
  BY DEF Fresh, Idle
<1>4. CASE avail
  <2>1. wid = Idle
    BY <1>4 DEF Init
  <2> QED
    BY <1>2, <1>3, <2>1
<1>5. CASE ~avail
  <2>1. PICK installed \in Installations :
           wid = [Idle EXCEPT !.state = "AgentUnavailable", !.installed = installed]
    BY <1>5 DEF Init
  <2>2. installed \in BOOLEAN
    BY AgentStartAssumption
  <2>3. wid \in Widget
    BY <1>1, <1>2, <2>1, <2>2, WidgetFields
  <2>4. Fresh(wid)
    BY <2>1 DEF Fresh, Idle
  <2> QED
    BY <2>3, <2>4
<1> QED
  BY <1>4, <1>5

LEMMA InitIInv ==
    ASSUME Init
    PROVE  IInv
<1>1. wid \in Widget /\ Fresh(wid)
  BY InitFresh
<1>2. /\ RegistryTypeOK /\ readers = {} /\ slot = [r \in Readers |-> None]
      /\ seated = {}
  BY DEF Init
<1>3. RegistryConsistent
  BY <1>2 DEF RegistryConsistent
<1>4. AgentStartTypeOK
  <2>1. <<>> \in Seq(Asker)
    OBVIOUS
  <2> QED
    BY <2>1 DEF Init, AgentStartInit, AgentStartTypeOK, Client
<1>5. Seats(readers, slot, seated)
  BY <1>2 DEF Seats
<1>6. Held(wid) /\ Entries(wid)
  BY <1>1 DEF Fresh, Held, Entries
<1>7. Page(wid, readers, seated, caps)
  BY <1>1, <1>2 DEF Fresh, Page, ReadyState, Detects
<1>8. Placed(wid, readers, slot)
  <2>1. readers \in SUBSET Readers
    BY <1>2
  <2>2. Pick(wid, readers, slot) \notin readers
    BY <1>2
  <2>3. Pick(wid, readers, slot) = None
    BY <2>1, <2>2, PickEffect DEF WalkEnds
  <2> QED
    BY <1>1, <1>2, <2>3 DEF Fresh, Placed, Present
<1>9. wid.published = ActiveSurface(wid)
  BY <1>1 DEF Fresh, ActiveSurface, ActiveEntries
<1> QED
  BY <1>1, <1>2, <1>3, <1>4, <1>5, <1>6, <1>7, <1>8, <1>9 DEF IInv, Settled

(* IInv holds in every state, and takes the whole of a step into account.  *)
LEMMA Inductive == Spec => []IInv
<1>1. Init => IInv
  BY InitIInv
<1>2. IInv /\ [Next]_vars => IInv'
  <2> SUFFICES ASSUME IInv, [Next]_vars PROVE IInv'
    OBVIOUS
  <2>1. CASE Next
    BY <2>1, NextIInv
  <2>2. CASE UNCHANGED vars
    BY <2>2 DEF vars, IInv, RegistryTypeOK, RegistryConsistent, AgentStartTypeOK
  <2> QED
    BY <2>1, <2>2
<1> QED
  BY <1>1, <1>2, PTL DEF Spec

-----------------------------------------------------------------------------
(* The properties.                                                         *)

(* Registry, requests and the widget's members keep their types, and no    *)
(* reader name has two entries in m_signStates.                            *)
THEOREM TypeCorrect == Spec => []TypeOK
<1>1. IInv => TypeOK
  BY DEF IInv, Seats, Settled, Entries, TypeOK
<1> QED
  BY <1>1, Inductive, PTL

(* Rows and photo are of the bound card, and so is the read that will be   *)
(* booked to it (bindCard cancels both reads before it re-points m_card).  *)
THEOREM HolderOfBoundCard == Spec => []HolderDataOfBoundCard
<1>1. IInv => HolderDataOfBoundCard
  BY DEF IInv, Settled, Held, HolderDataOfBoundCard
<1> QED
  BY <1>1, Inductive, PTL

(* The card shown is in the reader named; a listed bound reader is never   *)
(* replaced by its sibling interface; and Auto mode misses no card.        *)
THEOREM ReaderOfTheCard == Spec => []CardOfItsReader
<1>1. ASSUME IInv PROVE CardOfItsReader
  <2> DEFINE r == Pick(wid, readers, slot)
  <2>1. /\ readers \in SUBSET Readers /\ Placed(wid, readers, slot) /\ wid \in Widget
    BY <1>1 DEF IInv, RegistryTypeOK, Settled
  <2>2. \A q \in readers : NameOf[q] \in Names
    BY <2>1, HandlerAssumption
  <2>3. /\ r # None => r \in readers /\ slot[r] # None
        /\ wid.bound # None /\ r # None =>
              \/ NameOf[r] = wid.bound
              \/ /\ \A q \in readers : NameOf[q] # wid.bound
                 /\ <<wid.bound, NameOf[r]>> \in SameUnit
        /\ wid.bound = None /\ r = None => \A q \in readers : slot[q] = None
    BY <2>1, PickEffect DEF WalkEnds
  <2>4. /\ wid.boundPresent <=> Present(wid, readers)
        /\ r = None => wid.card = None
        /\ r # None => wid.card = slot[r] /\ wid.readerName = NameOf[r]
    BY <2>1 DEF Placed
  <2> HIDE DEF r
  <2>5. wid.card # None =>
           \E q \in readers : slot[q] = wid.card /\ NameOf[q] = wid.readerName
    BY <2>3, <2>4
  <2>6. wid.card # None /\ (\E q \in readers : NameOf[q] = wid.bound)
           => wid.readerName = wid.bound
    BY <2>2, <2>3, <2>4, HandlerAssumption
  <2>7. wid.bound = None /\ wid.card = None => \A q \in readers : slot[q] = None
    BY <2>3, <2>4
  <2>8. wid.bound # None /\ wid.card # None => wid.boundPresent
    BY <2>2, <2>3, <2>4 DEF Present
  <2>9. wid.boundPresent => wid.bound # None /\ readers # {}
    BY <2>4 DEF Present
  <2> QED
    BY <2>5, <2>6, <2>7, <2>8, <2>9 DEF CardOfItsReader
<1> QED
  BY <1>1, Inductive, PTL

(* A ready page of a card that announces an unlock shows what that card    *)
(* was read of (resolveCardState, m_identityRead).                         *)
THEOREM UnlockedWasRead == Spec => []UnlockedViewWasRead
<1>1. IInv => UnlockedViewWasRead
  BY DEF IInv, Settled, Held, Page, ReadyState, UnlockedViewWasRead
<1> QED
  BY <1>1, Inductive, PTL

(* updatePinManagement is reached on every path the card changes on.       *)
THEOREM LauncherOfTheCard == Spec => []LauncherFollowsCard
<1>1. IInv => LauncherFollowsCard
  BY DEF IInv, Settled, Page, LauncherFollowsCard
<1> QED
  BY <1>1, Inductive, PTL

(* What the QML last saw of the signing surfaces is what they are, and of  *)
(* the card on display (publishSignSurfaces, activeSignState).             *)
THEOREM SurfacesOfTheCard == Spec => []SurfacesOfTheirCard
<1>1. ASSUME IInv PROVE SurfacesOfTheirCard
  <2>1. wid.published = ActiveSurface(wid) /\ Entries(wid)
    BY <1>1 DEF IInv, Settled
  <2>2. ASSUME wid.card # None, wid.published # NoSurface
        PROVE  wid.published.of = wid.card
    <3> DEFINE e == CHOOSE e \in ActiveEntries(wid) : TRUE
    <3>1. ActiveEntries(wid) # {}
      BY <2>1, <2>2 DEF ActiveSurface
    <3>2. e \in ActiveEntries(wid)
      BY <3>1
    <3>3. wid.published = [busy |-> e.job, outcome |-> e.outcome, of |-> e.of]
      BY <2>1, <3>1 DEF ActiveSurface
    <3> HIDE DEF e
    <3>4. e \in wid.signs /\ e.card = wid.card
      BY <3>2 DEF ActiveEntries
    <3> QED
      BY <2>1, <2>2, <3>3, <3>4 DEF Entries
  <2> QED
    BY <2>1, <2>2 DEF SurfacesOfTheirCard
<1> QED
  BY <1>1, Inductive, PTL

(* The widget reads by itself only for an open popup and without a prompt  *)
(* (ensureFreeRead); any other read is the Read Card button's.             *)
THEOREM ReadsAsked == Spec => NoUnaskedRead
<1>1. ASSUME IInv, Next, wid'.identityOp \notin {None, wid.identityOp}
      PROVE  wid'.viewActive /\ (Unlock \in caps'[wid'.identityOp] => ReadCard)
  BY <1>1, NextIInv DEF FreelyRead
<1>2. IInv /\ [Next]_vars =>
         [ wid'.identityOp \notin {None, wid.identityOp}
              => /\ wid'.viewActive
                 /\ Unlock \in caps'[wid'.identityOp] => ReadCard ]_vars
  BY <1>1
<1> QED
  BY <1>2, Inductive, PTL DEF Spec, NoUnaskedRead

(* A running sign whose card stays keeps its entry: refresh forgets only   *)
(* the ended ones, and signFile starts none beside it.                     *)
THEOREM RunningSignKept == Spec => RunningSignSurvives
<1>1. ASSUME IInv, Next, NEW e \in wid.signs, e.job, CardPresent(slot', e.card)
      PROVE  \E f \in wid'.signs :
                /\ f.name = e.name /\ f.of = e.of /\ f.asked = e.asked
                /\ f.job \/ f.outcome # "none"
  <2>1. SignsStep(wid, wid', slot')
    BY <1>1, NextIInv DEF Step
  <2>2. \E f \in wid'.signs : Outlives(e, f)
    BY <1>1, <2>1 DEF SignsStep
  <2> QED
    BY <2>2 DEF Outlives
<1>2. IInv /\ [Next]_vars =>
         [ \A e \in wid.signs : e.job /\ CardPresent(slot', e.card) =>
             \E f \in wid'.signs :
                /\ f.name = e.name /\ f.of = e.of /\ f.asked = e.asked
                /\ f.job \/ f.outcome # "none" ]_vars
  BY <1>1
<1> QED
  BY <1>2, Inductive, PTL DEF Spec, RunningSignSurvives

(* The widget implements HolderView: whatever card comes, goes, changes    *)
(* what it advertises or ends its reads, rows and photo change only as     *)
(* promised.                                                               *)
THEOREM ImplementsView == Spec => ImplementsHolderView
<1>1. Init => Holder!Init
  BY InitFresh DEF Fresh, Holder!Init
<1>2. ASSUME IInv, IInv', HolderStep(wid, wid')
      PROVE  Holder!Next \/ UNCHANGED Holder!view
  <2>1. wid'.card \in Cards \cup {None}
    BY <1>2 DEF IInv, Settled, Widget
  <2>2. CASE wid'.card # wid.card
    BY <1>2, <2>1, <2>2 DEF HolderStep, Holder!Next, Holder!Turn
  <2>3. CASE wid'.card = wid.card
    BY <1>2, <2>3
       DEF HolderStep, Holder!Next, Holder!Read, Holder!ReadEnds, Holder!Photograph, Holder!view
  <2> QED
    BY <2>2, <2>3
<1>3. IInv /\ [Next]_vars => [Holder!Next]_(Holder!view)
  <2>1. ASSUME IInv, Next PROVE [Holder!Next]_(Holder!view)
    BY <1>2, <2>1, NextIInv DEF Step
  <2>2. ASSUME UNCHANGED vars PROVE UNCHANGED Holder!view
    BY <2>2 DEF vars, Holder!view
  <2> QED
    BY <2>1, <2>2
<1> QED
  BY <1>1, <1>3, Inductive, PTL DEF Spec, ImplementsHolderView, Holder!Spec

-----------------------------------------------------------------------------
(* The start button.                                                       *)

(* The widget's request waits to be run, or its start to be answered.      *)
Pending(c) ==
    \/ c.starter = "widget"
    \/ \E i \in 1..Len(c.tasks) : c.tasks[i] = "widget"

LatchIsPending == wid.starting => Pending(client)

(* What an answer leaves of the latch.                                     *)
LEMMA HeardLatch ==
    ASSUME IInv, UNCHANGED <<registry, seated>>, NEW asker, NEW result, Hear(asker, result)
    PROVE  LatchKept(wid, wid') /\ (asker # "recheck" => ~wid'.starting)
<1> DEFINE w == [wid EXCEPT !.starting = FALSE]
<1>1. wid \in Widget /\ Held(wid) /\ Entries(wid)
  BY DEF IInv, Settled
<1>2. RegistryTypeOK'
  BY DEF IInv, RegistryTypeOK, registry
<1>3. CASE Refresh(wid) /\ asker = "recheck"
  <2>1. SameWish(wid, wid')
    BY <1>1, <1>2, <1>3, RefreshEffect DEF Refreshed, Followed
  <2> QED
    BY <1>3, <2>1 DEF SameWish, LatchKept
<1>4. CASE Refresh(w)
  <2>1. w \in Widget
    BY <1>1, WidgetFields
  <2>2. Held(w) /\ Entries(w) /\ ~w.starting
    BY <1>1 DEF Widget, Held, Entries
  <2> HIDE DEF w
  <2>3. SameWish(w, wid')
    BY <1>2, <1>4, <2>1, <2>2, RefreshEffect DEF Refreshed, Followed
  <2> QED
    BY <2>2, <2>3 DEF SameWish, LatchKept
<1>5. CASE UNCHANGED wid /\ ~wid.starting
  BY <1>5 DEF LatchKept
<1> QED
  BY <1>3, <1>4, <1>5 DEF Hear, OnAgentStartFinished

(* A request that is run or a start that ends is the widget's own, and the *)
(* answer releases the latch, or another's, and leaves the widget's alone. *)
LEMMA ClientSteps ==
    ASSUME IInv, LatchIsPending, ClientStep
    PROVE  LatchIsPending'
<1>1. client.tasks \in Seq(Asker) /\ client.starter \in Asker \cup {None}
  BY DEF IInv, AgentStartTypeOK, Client
<1>2. ASSUME NEW asker \in Asker, Ask(asker)
      PROVE  /\ Pending(client) => Pending(client')
             /\ asker = "widget" => Pending(client')
  <2> DEFINE after == Append(client.tasks, asker)
  <2>1. /\ client'.tasks = after /\ client'.starter = client.starter
    BY <1>2 DEF Ask, IInv, AgentStartTypeOK, Client
  <2>2. /\ Len(after) = Len(client.tasks) + 1 /\ Len(client.tasks) \in Nat
        /\ \A i \in 1..Len(client.tasks) : after[i] = client.tasks[i]
        /\ after[Len(after)] = asker
    BY <1>1
  <2> HIDE DEF after
  <2> QED
    BY <2>1, <2>2 DEF Pending
<1>3. CASE StartAgent
  BY <1>2, <1>3 DEF StartAgent, Asker, LatchIsPending
<1>4. CASE RequestRefresh \/ SiblingAsks
  BY <1>2, <1>4 DEF RequestRefresh, SiblingAsks, Asker, LatchIsPending
<1>5. CASE RequestRun
  <2>1. PICK asker \in Asker, answer \in {None, Started, Requested, Missing} :
           /\ RunRequest(asker, answer)
           /\ IF answer = None THEN UNCHANGED wid ELSE Hear(asker, answer)
    BY <1>5 DEF RequestRun
  <2> DEFINE left == Tail(client.tasks)
  <2>2. /\ client'.tasks = left
        /\ client'.starter = IF answer = None THEN asker ELSE client.starter
        /\ asker = Head(client.tasks) /\ client.tasks # <<>>
        /\ answer = None => client.starter = None
    BY <2>1, NoneIsNoAsker
       DEF RunRequest, Answers, Started, Requested, Missing, IInv, AgentStartTypeOK, Client
  <2>3. /\ Len(client.tasks) \in Nat \ {0} /\ Len(left) = Len(client.tasks) - 1
        /\ \A i \in 1..Len(left) : left[i] = client.tasks[i + 1]
        /\ asker = client.tasks[1]
    BY <1>1, <2>2
  <2> HIDE DEF left
  <2>4. ASSUME Pending(client), asker # "widget"
        PROVE  Pending(client')
    <3>1. CASE client.starter = "widget"
      BY <2>2, <3>1, NoneIsNoAsker DEF Pending, Asker
    <3>2. ASSUME NEW i \in 1..Len(client.tasks), client.tasks[i] = "widget"
          PROVE  Pending(client')
      <4>1. i - 1 \in 1..Len(left) /\ (i - 1) + 1 = i
        BY <2>3, <2>4, <3>2
      <4>2. left[i - 1] = "widget"
        BY <2>3, <3>2, <4>1
      <4> QED
        BY <2>2, <4>1, <4>2 DEF Pending
    <3> QED
      BY <2>4, <3>1, <3>2 DEF Pending
  <2>5. CASE answer = None
    <3>1. wid' = wid
      BY <2>1, <2>5
    <3>2. asker = "widget" => Pending(client')
      BY <2>2, <2>5 DEF Pending
    <3> QED
      BY <2>4, <3>1, <3>2 DEF LatchIsPending
  <2>6. CASE answer # None
    <3>1. LatchKept(wid, wid') /\ (asker # "recheck" => ~wid'.starting)
      BY <1>5, <2>1, <2>6, HeardLatch DEF RequestRun
    <3> QED
      BY <2>4, <3>1 DEF LatchIsPending, LatchKept
  <2> QED
    BY <2>5, <2>6
<1>6. CASE StartEnds
  <2>1. PICK asker \in Asker : EndWait(asker) /\ Hear(asker, Verdict)
    BY <1>6 DEF StartEnds
  <2>2. client'.tasks = client.tasks /\ asker = client.starter
    BY <2>1 DEF EndWait, IInv, AgentStartTypeOK, Client
  <2>3. LatchKept(wid, wid') /\ (asker # "recheck" => ~wid'.starting)
    BY <1>6, <2>1, HeardLatch DEF StartEnds
  <2> QED
    BY <2>2, <2>3 DEF LatchIsPending, LatchKept, Pending
<1> QED
  BY <1>3, <1>4, <1>5, <1>6 DEF ClientStep

(* The start button is disabled only while the request its click made is   *)
(* waiting or its start unanswered: no answer that is due to the widget    *)
(* goes by without releasing the latch (m_agentStarting).                  *)
THEOREM StartIsPending == Spec => []LatchIsPending
<1>1. Init => LatchIsPending
  BY InitFresh DEF Fresh, LatchIsPending
<1>2. ASSUME IInv, LatchIsPending, Next
      PROVE  LatchIsPending'
  <2>1. CASE ClientStep
    BY <1>2, <2>1, ClientSteps
  <2>2. CASE ~ClientStep
    <3>1. LatchKept(wid, wid')
      BY <1>2, <2>2, NextIInv
    <3>2. client' = client
      BY <1>2, <2>2
         DEF Next, ClientStep, RegistryEvent, RegistryGain, RegistryLoss, SeatChanged, CardChanged,
             Relabel, IdentityFinished, PhotoFinished, SignEnded, SetBoundReaderName,
             SelectReader, SetViewActive, ReadCard, OpenSignDialog, CloseSignDialog,
             AcceptSignDialog, DismissSignResult, OpenPhotoDialog, LeavePhotoDialog, world
    <3> QED
      BY <1>2, <3>1, <3>2 DEF LatchIsPending, LatchKept
  <2> QED
    BY <2>1, <2>2
<1>3. IInv /\ LatchIsPending /\ [Next]_vars => LatchIsPending'
  BY <1>2 DEF vars, LatchIsPending
<1> QED
  BY <1>1, <1>3, Inductive, PTL DEF Spec

-----------------------------------------------------------------------------
(* What needs readers of different names: a widget tells readers apart by  *)
(* name alone.                                                             *)

DistinctNames == \A r, q \in Readers : NameOf[r] = NameOf[q] => r = q

(* A reader that keeps a card keeps the same one.                          *)
LEMMA SlotStep ==
    ASSUME IInv, Next, NEW r \in Readers, slot[r] # None, slot'[r] # None
    PROVE  slot'[r] = slot[r]
<1>1. CASE UNCHANGED slot
  BY <1>1
<1>2. CASE RegistryGain
  BY <1>2 DEF IInv, RegistryTypeOK, RegistryGain, AgentAppears, ReaderArrives, CardArrives
<1>3. CASE RegistryLoss
  BY <1>3 DEF IInv, RegistryTypeOK, RegistryLoss, AgentVanishes, ReaderLeaves, CardLeaves
<1>4. RegistryGain \/ RegistryLoss \/ UNCHANGED slot
  BY DEF Next, RegistryEvent, SeatChanged, CardChanged, CapsChange, Relabel, IdentityFinished,
         PhotoFinished, SignEnded, SetBoundReaderName, SelectReader, SetViewActive, ReadCard,
         OpenSignDialog, CloseSignDialog, AcceptSignDialog, DismissSignResult,
         OpenPhotoDialog, LeavePhotoDialog, StartAgent, RequestRefresh, SiblingAsks,
         RequestRun, StartEnds, world, registry
<1> QED
  BY <1>1, <1>2, <1>3, <1>4

(* The photo about to be saved is on screen, on a page that shows one.     *)
PhotoAnchored ==
    wid.photoDialog # None =>
        wid.photo = wid.photoDialog /\ wid.state \in PhotoState

(* savePhoto writes the photo the dialog was opened for: the page of a     *)
(* card and the name of its reader outlive no change of the card.          *)
THEOREM PhotoOfTheDialog ==
    ASSUME DistinctNames
    PROVE  Spec => []PhotoSavedIsTheCardAsked
<1>1. Init => PhotoAnchored
  BY InitFresh DEF Fresh, PhotoAnchored
<1>2. ASSUME IInv, IInv', PhotoAnchored, Next
      PROVE  PhotoAnchored'
  <2>1. HolderStep(wid, wid') /\ DialogStep(wid, wid')
    BY <1>2, NextIInv DEF Step
  <2>2. ASSUME wid'.photoDialog # None, wid'.photoDialog = wid.photoDialog,
               wid'.state = wid.state, wid'.readerName = wid.readerName
        PROVE  wid'.photo = wid'.photoDialog /\ wid'.state \in PhotoState
    <3>1. wid.photo = wid.photoDialog /\ wid.photo # None /\ wid.state \in PhotoState
      BY <1>2, <2>2 DEF PhotoAnchored
    <3>2. wid.photo = wid.card
      BY <1>2, <3>1 DEF IInv, Settled, Held
    <3>3. wid.card # None /\ wid'.card # None
      BY <1>2, <2>2, <3>1, <3>2 DEF IInv, Settled, Page, PhotoState, ReadyState
    <3>4. PICK r \in readers : slot[r] = wid.card /\ NameOf[r] = wid.readerName
      <4>1. readers \in SUBSET Readers /\ Placed(wid, readers, slot)
        BY <1>2 DEF IInv, RegistryTypeOK, Settled
      <4> QED
        BY <3>3, <4>1, ShownIsPresent
    <3>5. PICK q \in readers' : slot'[q] = wid'.card /\ NameOf[q] = wid'.readerName
      <4>1. readers' \in SUBSET Readers /\ Placed(wid', readers', slot')
        BY <1>2 DEF IInv, RegistryTypeOK, Settled
      <4> QED
        BY <3>3, <4>1, ShownIsPresent
    <3>6. r \in Readers /\ q \in Readers
      BY <1>2, <3>4, <3>5 DEF IInv, RegistryTypeOK
    <3>7. r = q
      BY <1>2, <2>2, <3>4, <3>5, <3>6 DEF DistinctNames
    <3>8. wid'.card = wid.card
      BY <1>2, <3>3, <3>4, <3>5, <3>6, <3>7, SlotStep
    <3>9. wid'.photo = wid.photo
      BY <2>1, <3>2, <3>8 DEF HolderStep
    <3> QED
      BY <2>2, <3>1, <3>9
  <2>3. CASE wid'.photoDialog = wid'.photo /\ wid'.state \in PhotoState
    BY <2>3 DEF PhotoAnchored
  <2>4. CASE wid'.photoDialog = None
    BY <2>4 DEF PhotoAnchored
  <2> QED
    BY <2>1, <2>2, <2>3, <2>4 DEF DialogStep, PhotoAnchored
<1>3. IInv /\ IInv' /\ PhotoAnchored /\ [Next]_vars => PhotoAnchored'
  BY <1>2 DEF vars, PhotoAnchored
<1>4. PhotoAnchored => PhotoSavedIsTheCardAsked
  BY DEF PhotoAnchored, PhotoSavedIsTheCardAsked
<1> QED
  BY <1>1, <1>3, <1>4, Inductive, PTL DEF Spec

(* Only a card that arrives in it takes a seat.                            *)
LEMMA SeatTaken ==
    ASSUME IInv, Next, NEW r \in seated, slot'[r] # None
    PROVE  /\ r \in readers /\ readers' = readers
           /\ slot[r] = None
           /\ \A q \in Readers : q # r => slot'[q] = slot[q]
           /\ Refresh(wid)
<1>1. slot \in [Readers -> Cards \cup {None}] /\ r \in Readers /\ r \in readers /\ slot[r] = None
  BY DEF IInv, RegistryTypeOK, Seats
<1>2. ~UNCHANGED slot
  BY <1>1
<1>3. ~RegistryLoss
  BY <1>1 DEF RegistryLoss, AgentVanishes, ReaderLeaves, CardLeaves
<1>4. RegistryGain
  BY <1>2, <1>3
     DEF Next, RegistryEvent, SeatChanged, CardChanged, CapsChange, Relabel, IdentityFinished,
         PhotoFinished, SignEnded, SetBoundReaderName, SelectReader, SetViewActive, ReadCard,
         OpenSignDialog, CloseSignDialog, AcceptSignDialog, DismissSignResult,
         OpenPhotoDialog, LeavePhotoDialog, StartAgent, RequestRefresh, SiblingAsks,
         RequestRun, StartEnds, world, registry
<1>5. PICK q \in Readers, c \in Cards, bits \in Profiles : CardArrives(q, c, bits)
  BY <1>2, <1>4 DEF RegistryGain, AgentAppears, ReaderArrives
<1>6. slot' = [slot EXCEPT ![q] = c] /\ readers' = readers
  BY <1>5 DEF CardArrives
<1>7. q = r
  BY <1>1, <1>6
<1> QED
  BY <1>1, <1>4, <1>6, <1>7 DEF RegistryGain

(* computeCardDetected and pickActiveReader walk the same roster: a seat   *)
(* is announced exactly when the card published in it will be shown.       *)
THEOREM DetectionForetells ==
    ASSUME DistinctNames
    PROVE  Spec => DetectionForetellsCard
<1>1. ASSUME IInv, IInv', Next, NEW r \in seated, wid.state = "NoCard", slot'[r] # None
      PROVE  /\ wid'.card = slot'[r] => wid.detected
             /\ wid.detected /\ seated = {r} => wid'.card = slot'[r]
  <2> DEFINE p == Pick(wid, readers, slot)
             n == Pick(wid', readers', slot')
  <2>1. /\ r \in readers /\ readers' = readers
        /\ slot[r] = None
        /\ \A q \in Readers : q # r => slot'[q] = slot[q]
        /\ Refresh(wid)
    BY <1>1, SeatTaken
  <2>2. /\ readers \in SUBSET Readers /\ r \in Readers /\ RegistryTypeOK'
        /\ wid \in Widget /\ Held(wid) /\ Entries(wid)
    BY <1>1, <2>1 DEF IInv, RegistryTypeOK, Settled
  <2>3. SameWish(wid, wid')
    BY <2>1, <2>2, RefreshEffect DEF Refreshed, Followed
  <2>4. wid.card = None /\ (wid.detected <=> Detects(wid, readers, seated))
    BY <1>1 DEF IInv, Settled, Page
  <2>5. /\ n = None => wid'.card = None
        /\ n # None => wid'.card = slot'[n]
    BY <1>1 DEF IInv, Settled, Placed
  <2>6. WalkEnds(n, wid, readers, slot')
    <3>1. n = Pick(wid, readers, slot')
      BY <2>1, <2>3 DEF Pick, SameWish
    <3>2. readers \in SUBSET Readers
      BY <2>2
    <3> HIDE DEF n
    <3> QED
      BY <3>1, <3>2, PickEffect
  <2> HIDE DEF n
  <2>7. ASSUME wid'.card = slot'[r]
        PROVE  wid.detected
    <3>1. n = r /\ n # None
      BY <1>1, <2>1, <2>2, <2>5, <2>6, <2>7 DEF IInv, RegistryConsistent, WalkEnds
    <3>2. CASE wid.bound = None
      BY <2>4, <3>2 DEF Detects
    <3>3. CASE wid.bound # None /\ NameOf[r] = wid.bound
      <4>1. \A q \in readers : NameOf[q] = wid.bound => r <= q
        BY <2>2, <3>3, RegistryAssumption DEF DistinctNames
      <4> QED
        BY <2>1, <2>4, <3>3, <4>1 DEF Detects
    <3>4. CASE wid.bound # None /\ NameOf[r] # wid.bound
      <4>1. /\ ~(\E q \in readers : NameOf[q] = wid.bound)
            /\ <<wid.bound, NameOf[r]>> \in SameUnit
        BY <2>6, <3>1, <3>4 DEF WalkEnds
      <4> QED
        BY <2>4, <3>4, <4>1 DEF Detects
    <3> QED
      BY <3>2, <3>3, <3>4
  <2>8. ASSUME wid.detected, seated = {r}
        PROVE  wid'.card = slot'[r]
    <3>1. n # None
      <4>1. CASE wid.bound = None
        BY <1>1, <2>1, <2>6, <4>1 DEF WalkEnds
      <4>2. CASE wid.bound # None /\ \E q \in readers : NameOf[q] = wid.bound
        <5>1. NameOf[r] = wid.bound
          BY <2>4, <2>8, <4>2 DEF Detects
        <5> QED
          BY <1>1, <2>1, <2>6, <4>2, <5>1 DEF WalkEnds
      <4>3. CASE wid.bound # None /\ ~(\E q \in readers : NameOf[q] = wid.bound)
        <5>1. <<wid.bound, NameOf[r]>> \in SameUnit
          BY <2>4, <2>8, <4>3 DEF Detects
        <5> QED
          BY <1>1, <2>1, <2>6, <4>3, <5>1 DEF WalkEnds
      <4> QED
        BY <4>1, <4>2, <4>3
    <3>2. p = None
      <4>1. p # None => slot[p] # None
        BY <2>2, PickEffect DEF WalkEnds
      <4> QED
        BY <1>1, <2>4, <4>1 DEF IInv, Settled, Placed
    <3>3. /\ wid.bound # None =>
                IF \E q \in readers : NameOf[q] = wid.bound
                THEN \A q \in readers : NameOf[q] = wid.bound => slot[q] = None
                ELSE \A q \in readers : <<wid.bound, NameOf[q]>> \in SameUnit => slot[q] = None
          /\ wid.bound = None => \A q \in readers : slot[q] = None
      BY <2>2, <3>2, PickEffect DEF WalkEnds
    <3>4. slot[n] = None
      BY <2>2, <2>6, <3>1, <3>3 DEF WalkEnds
    <3>5. n = r
      BY <2>1, <2>2, <2>6, <3>1, <3>4 DEF WalkEnds
    <3> QED
      BY <2>5, <3>1, <3>5
  <2> QED
    BY <2>7, <2>8
<1>2. IInv /\ IInv' /\ [Next]_vars =>
         [ \A r \in seated : wid.state = "NoCard" /\ slot'[r] # None =>
              /\ wid'.card = slot'[r] => wid.detected
              /\ wid.detected /\ seated = {r} => wid'.card = slot'[r] ]_vars
  BY <1>1
<1> QED
  BY <1>2, Inductive, PTL DEF Spec, DetectionForetellsCard
=============================================================================
