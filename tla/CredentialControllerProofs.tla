--------------------- MODULE CredentialControllerProofs ---------------------
(***************************************************************************)
(* Theorems about the credentials window, for every set of readers, cards  *)
(* and capabilities.                                                       *)
(*                                                                         *)
(* The controller's handlers are compositions of helpers on the record of  *)
(* its members, so the proof is too: a lemma says what each helper needs   *)
(* and what it leaves, and a handler's step cites the lemmas of the        *)
(* helpers it calls, in their order.  Three conditions of the record       *)
(* suffice.  Between handlers the window is Sound and its Viewed page fits *)
(* its operations.  Inside a handler, after a helper dropped the listing   *)
(* and the verb and before classify put a page up again, it is Blank; and  *)
(* after the library destroyed the bound card it is Bereft.                *)
(***************************************************************************)
EXTENDS CredentialController, AgentRegistryProofs

Sound(w) ==
    /\ w \in Window
    /\ w.listOp # None => w.listOp.card = w.card
    /\ w.mutationOp # None => w.mutationOp.card = w.card
    /\ w.listOp = None \/ w.mutationOp = None
    /\ w.listCancelRequested <=> (w.listOp # None /\ w.listOp.cancelSent)
    /\ w.mutationCancelRequested <=> (w.mutationOp # None /\ w.mutationOp.cancelSent)
    /\ \A op \in w.letGo : op.cancelSent

(* The last two conjuncts are what the proof adds: a verb whose page a     *)
(* lost capability took away has no rows to come back to; and a failed     *)
(* read has nothing under way, and is settled if the user stopped it.      *)
Viewed(w) ==
    /\ w.state = "Working" => w.mutationOp # None
    /\ w.state = "Loading" => w.listOp # None
    /\ w.state \in DashboardState /\ w.rows # None => w.rows.card = w.card
    /\ w.sheet # None => w.sheet = w.card /\ w.state \in DashboardState
    /\ w.state = "Ready" => w.rows # None /\ w.rows.fresh
    /\ w.mutationOp # None => w.state = "Working" \/ w.rows = None
    /\ w.state = "ReadFailed" =>
          /\ w.listOp = None /\ w.mutationOp = None /\ ~w.showingResult
          /\ w.readStopped => w.listSettled

Blank(w) ==
    /\ w.listOp = None
    /\ w.mutationOp = None
    /\ ~w.listSettled
    /\ ~w.showingResult

Bereft(w) ==
    /\ w \in Window
    /\ w.card = None
    /\ w.listOp = None
    /\ w.mutationOp = None
    /\ \A op \in w.letGo : op.cancelSent

SameBinding(w, u) ==
    /\ u.readerId = w.readerId
    /\ u.resolved = w.resolved
    /\ u.card = w.card
    /\ u.deferred = w.deferred

SameVerb(w, u) ==
    /\ u.mutationOp = w.mutationOp
    /\ u.banner = w.banner

(* The verb runs on, or went without a verdict.                            *)
Dropped(w, u) ==
    /\ u.mutationOp = w.mutationOp \/ u.mutationOp = None
    /\ u.banner = w.banner

(* The verb ended with the verdict in the banner.                          *)
Ended(w, u) ==
    /\ w.mutationOp # None
    /\ u.mutationOp = None
    /\ w.mutationCancelRequested => u.banner # "error"

(* Fresh rows became stale ones.                                           *)
Voided(w, u) == u.rows # None /\ w.rows.fresh /\ ~u.rows.fresh

(* The re-list is under way, or the removal of the card is reported.       *)
Attended(u) == u.listOp # None \/ u.removalNotice

(* The binding agrees with the registry (rs, s).                           *)
Bound(w, rs, s) ==
    /\ w.resolved = TargetReader(w.readerId, rs, s)
    /\ w.card = IF w.resolved = None THEN None ELSE s[w.resolved]

IInv ==
    /\ TypeOK
    /\ Sound(win)
    /\ Viewed(win)
    /\ BindingFollowsRegistry

-----------------------------------------------------------------------------
(* A record of members stays one when a member is given a value of its     *)
(* type: the update of several is one update after another.                *)
LEMMA WindowFields ==
    ASSUME NEW w \in Window
    PROVE  /\ \A x \in Readers \cup {None} :
              /\ [w EXCEPT !.readerId = x] \in Window
              /\ [w EXCEPT !.resolved = x] \in Window
           /\ \A x \in Cards \cup {None} :
              /\ [w EXCEPT !.card = x] \in Window
              /\ [w EXCEPT !.sheet = x] \in Window
           /\ \A x \in Operation \cup {None} :
              /\ [w EXCEPT !.listOp = x] \in Window
              /\ [w EXCEPT !.mutationOp = x] \in Window
           /\ \A x \in State : [w EXCEPT !.state = x] \in Window
           /\ \A x \in BOOLEAN :
              /\ [w EXCEPT !.listSettled = x] \in Window
              /\ [w EXCEPT !.listCancelRequested = x] \in Window
              /\ [w EXCEPT !.mutationCancelRequested = x] \in Window
              /\ [w EXCEPT !.showingResult = x] \in Window
              /\ [w EXCEPT !.removalNotice = x] \in Window
              /\ [w EXCEPT !.agentStarting = x] \in Window
              /\ [w EXCEPT !.deferred = x] \in Window
              /\ [w EXCEPT !.readStopped = x] \in Window
           /\ \A x \in Rows \cup {None} : [w EXCEPT !.rows = x] \in Window
           /\ \A x \in {"none", "notice", "error"} : [w EXCEPT !.banner = x] \in Window
           /\ \A x \in SUBSET Operation : [w EXCEPT !.letGo = x] \in Window
<1>1. ASSUME NEW x \in Readers \cup {None} PROVE [w EXCEPT !.readerId = x] \in Window
  BY SMT DEF Window
<1>2. ASSUME NEW x \in Readers \cup {None} PROVE [w EXCEPT !.resolved = x] \in Window
  BY SMT DEF Window
<1>3. ASSUME NEW x \in Cards \cup {None} PROVE [w EXCEPT !.card = x] \in Window
  BY SMT DEF Window
<1>4. ASSUME NEW x \in Operation \cup {None} PROVE [w EXCEPT !.listOp = x] \in Window
  BY SMT DEF Window
<1>5. ASSUME NEW x \in Operation \cup {None} PROVE [w EXCEPT !.mutationOp = x] \in Window
  BY SMT DEF Window
<1>6. ASSUME NEW x \in State PROVE [w EXCEPT !.state = x] \in Window
  BY SMT DEF Window
<1>7. ASSUME NEW x \in BOOLEAN PROVE [w EXCEPT !.listSettled = x] \in Window
  BY SMT DEF Window
<1>8. ASSUME NEW x \in BOOLEAN PROVE [w EXCEPT !.listCancelRequested = x] \in Window
  BY SMT DEF Window
<1>9. ASSUME NEW x \in BOOLEAN PROVE [w EXCEPT !.mutationCancelRequested = x] \in Window
  BY SMT DEF Window
<1>10. ASSUME NEW x \in BOOLEAN PROVE [w EXCEPT !.showingResult = x] \in Window
  BY SMT DEF Window
<1>11. ASSUME NEW x \in Rows \cup {None} PROVE [w EXCEPT !.rows = x] \in Window
  BY SMT DEF Window
<1>12. ASSUME NEW x \in {"none", "notice", "error"} PROVE [w EXCEPT !.banner = x] \in Window
  BY SMT DEF Window
<1>13. ASSUME NEW x \in BOOLEAN PROVE [w EXCEPT !.removalNotice = x] \in Window
  BY SMT DEF Window
<1>14. ASSUME NEW x \in BOOLEAN PROVE [w EXCEPT !.agentStarting = x] \in Window
  BY SMT DEF Window
<1>15. ASSUME NEW x \in Cards \cup {None} PROVE [w EXCEPT !.sheet = x] \in Window
  BY SMT DEF Window
<1>16. ASSUME NEW x \in SUBSET Operation PROVE [w EXCEPT !.letGo = x] \in Window
  BY SMT DEF Window
<1>17. ASSUME NEW x \in BOOLEAN PROVE [w EXCEPT !.deferred = x] \in Window
  BY SMT DEF Window
<1>18. ASSUME NEW x \in BOOLEAN PROVE [w EXCEPT !.readStopped = x] \in Window
  BY SMT DEF Window
<1> QED
  BY <1>1, <1>2, <1>3, <1>4, <1>5, <1>6, <1>7, <1>8, <1>9, <1>10, <1>11,
     <1>12, <1>13, <1>14, <1>15, <1>16, <1>17, <1>18, Zenon

-----------------------------------------------------------------------------
(* The helpers that drop an operation.                                     *)

(* Dropping an operation leaves at most that operation behind, with its    *)
(* Cancel sent.                                                            *)
LEMMA AbandonedEffect ==
    ASSUME NEW op \in Operation \cup {None}
    PROVE  /\ Abandoned(op) \in SUBSET Operation
           /\ \A o \in Abandoned(op) : o.cancelSent
  BY DEF Abandoned, Operation

(* resetListState drops the listing and every latch about it.              *)
LEMMA ResetListStateEffect ==
    ASSUME NEW w \in Window, \A op \in w.letGo : op.cancelSent
    PROVE  LET u == ResetListState(w) IN
           /\ u \in Window
           /\ u.listOp = None /\ ~u.listSettled /\ ~u.listCancelRequested
           /\ ~u.showingResult
           /\ \A op \in u.letGo : op.cancelSent
           /\ SameBinding(w, u) /\ SameVerb(w, u)
           /\ u.mutationCancelRequested = w.mutationCancelRequested
           /\ u.state = w.state /\ u.rows = w.rows /\ u.sheet = w.sheet
<1>1. Abandoned(w.listOp) \in SUBSET Operation
         /\ \A o \in Abandoned(w.listOp) : o.cancelSent
  BY AbandonedEffect DEF Window
<1> DEFINE v == [w EXCEPT !.letGo = @ \cup Abandoned(w.listOp), !.listOp = None]
           u == ResetListState(w)
<1>2. v \in Window /\ \A op \in v.letGo : op.cancelSent
  BY <1>1 DEF Window
<1>3. u = [v EXCEPT !.listSettled = FALSE, !.listCancelRequested = FALSE,
                    !.showingResult = FALSE]
  BY DEF ResetListState
<1>4. /\ u.listOp = None /\ ~u.listSettled /\ ~u.listCancelRequested
      /\ ~u.showingResult
      /\ SameBinding(w, u) /\ SameVerb(w, u)
      /\ u.mutationCancelRequested = w.mutationCancelRequested
      /\ u.state = w.state /\ u.rows = w.rows /\ u.sheet = w.sheet
      /\ u.letGo = v.letGo
  BY DEF ResetListState, Window, SameBinding, SameVerb
<1> HIDE DEF v, u
<1>5. u \in Window
  BY <1>2, <1>3, WindowFields
<1> QED
  BY <1>2, <1>4, <1>5 DEF u

(* detachMutation drops the verb and its cancel flag.                      *)
LEMMA DetachMutationEffect ==
    ASSUME NEW w \in Window, \A op \in w.letGo : op.cancelSent
    PROVE  LET u == DetachMutation(w) IN
           /\ u \in Window
           /\ u.mutationOp = None /\ ~u.mutationCancelRequested
           /\ \A op \in u.letGo : op.cancelSent
           /\ SameBinding(w, u)
           /\ u.listOp = w.listOp /\ u.listSettled = w.listSettled
           /\ u.listCancelRequested = w.listCancelRequested
           /\ u.showingResult = w.showingResult
           /\ u.state = w.state /\ u.rows = w.rows /\ u.sheet = w.sheet
           /\ u.banner = w.banner
<1>1. Abandoned(w.mutationOp) \in SUBSET Operation
         /\ \A o \in Abandoned(w.mutationOp) : o.cancelSent
  BY AbandonedEffect DEF Window
<1> DEFINE u == DetachMutation(w)
<1>2. u \in Window
  BY <1>1 DEF DetachMutation, Window
<1>3. \A op \in u.letGo : op.cancelSent
  BY <1>1 DEF DetachMutation, Window
<1>4. /\ u.mutationOp = None /\ ~u.mutationCancelRequested
      /\ SameBinding(w, u)
      /\ u.listOp = w.listOp /\ u.listSettled = w.listSettled
      /\ u.listCancelRequested = w.listCancelRequested
      /\ u.showingResult = w.showingResult
      /\ u.state = w.state /\ u.rows = w.rows /\ u.sheet = w.sheet
      /\ u.banner = w.banner
  BY DEF DetachMutation, Window, SameBinding
<1> QED
  BY <1>2, <1>3, <1>4

(* transitionTo moves the page and takes the sheet down with the           *)
(* dashboard; it touches no operation and no binding.                      *)
LEMMA TransitionToEffect ==
    ASSUME NEW w, NEW next \in State
    PROVE  LET u == TransitionTo(w, next) IN
           /\ w \in Window => /\ u \in Window
                              /\ u.state = next
                              /\ u.sheet = IF next \in DashboardState THEN w.sheet ELSE None
                              /\ u.rows = w.rows
                              /\ SameBinding(w, u) /\ SameVerb(w, u)
                              /\ u.listOp = w.listOp
                              /\ u.listSettled = w.listSettled
                              /\ u.showingResult = w.showingResult
                              /\ u.readStopped = w.readStopped
                              /\ u.letGo = w.letGo
                              /\ u.listCancelRequested = w.listCancelRequested
                              /\ u.mutationCancelRequested = w.mutationCancelRequested
           /\ Sound(w) => Sound(u)
<1> DEFINE u == TransitionTo(w, next)
<1>1. ASSUME w \in Window
      PROVE  /\ u \in Window
             /\ u.state = next
             /\ u.sheet = IF next \in DashboardState THEN w.sheet ELSE None
             /\ u.rows = w.rows
             /\ SameBinding(w, u) /\ SameVerb(w, u)
             /\ u.listOp = w.listOp
             /\ u.listSettled = w.listSettled
             /\ u.showingResult = w.showingResult
             /\ u.readStopped = w.readStopped
             /\ u.letGo = w.letGo
             /\ u.listCancelRequested = w.listCancelRequested
             /\ u.mutationCancelRequested = w.mutationCancelRequested
  <2>1. u \in Window
    <3> DEFINE sheet == IF next \in DashboardState THEN w.sheet ELSE None
    <3>1. sheet \in Cards \cup {None}
      BY <1>1 DEF Window
    <3>2. u = [w EXCEPT !.state = next, !.sheet = sheet]
      BY DEF TransitionTo
    <3> HIDE DEF sheet, u
    <3> QED
      BY <1>1, <3>1, <3>2, WindowFields
  <2>2. /\ u.state = next /\ u.rows = w.rows
        /\ u.sheet = IF next \in DashboardState THEN w.sheet ELSE None
    BY <1>1 DEF TransitionTo, Window
  <2>3. SameBinding(w, u) /\ SameVerb(w, u)
    BY <1>1 DEF TransitionTo, Window, SameBinding, SameVerb
  <2>4. /\ u.listOp = w.listOp
        /\ u.listSettled = w.listSettled
        /\ u.showingResult = w.showingResult
        /\ u.readStopped = w.readStopped
        /\ u.letGo = w.letGo
        /\ u.listCancelRequested = w.listCancelRequested
        /\ u.mutationCancelRequested = w.mutationCancelRequested
    BY <1>1 DEF TransitionTo, Window
  <2> QED
    BY <2>1, <2>2, <2>3, <2>4
<1>2. ASSUME Sound(w) PROVE Sound(u)
  <2>1. w \in Window
    BY <1>2 DEF Sound
  <2> HIDE DEF u
  <2> QED
    BY <1>1, <1>2, <2>1 DEF Sound, SameBinding, SameVerb
<1> QED
  BY <1>1, <1>2

-----------------------------------------------------------------------------
(* The helpers that bind a card and list it.                               *)

(* bindCard binds c; unless c was bound already, whatever ran is dropped   *)
(* and the window is Blank.                                                *)
LEMMA BindCardEffect ==
    ASSUME NEW w, NEW c \in Cards \cup {None},
           \/ Sound(w) /\ (Viewed(w) \/ Blank(w))
           \/ Bereft(w)
    PROVE  LET u == BindCard(w, c) IN
           /\ Sound(u)
           /\ Viewed(u) \/ Blank(u)
           /\ c = None => Blank(u)
           /\ u.card = c
           /\ u.readerId = w.readerId /\ u.resolved = w.resolved
           /\ u.deferred = w.deferred
           /\ u.mutationOp = w.mutationOp \/ u.mutationOp = None
           /\ u.banner = w.banner
           /\ u.rows = w.rows
           /\ c # None /\ w.card = c => u = w
<1> DEFINE u == BindCard(w, c)
<1>0. w \in Window /\ \A op \in w.letGo : op.cancelSent
  BY DEF Sound, Bereft
<1>1. CASE c # None /\ w.card = c
  <2>1. u = w
    BY <1>1 DEF BindCard
  <2>2. Sound(w) /\ (Viewed(w) \/ Blank(w))
    BY <1>1 DEF Bereft
  <2> QED
    BY <2>1, <2>2, <1>1
<1>2. CASE ~(c # None /\ w.card = c)
  <2> DEFINE v == DetachMutation(ResetListState(w))
  <2>1. /\ v \in Window
        /\ Blank(v) /\ ~v.listCancelRequested /\ ~v.mutationCancelRequested
        /\ \A op \in v.letGo : op.cancelSent
        /\ SameBinding(w, v) /\ v.banner = w.banner /\ v.rows = w.rows
    BY <1>0, ResetListStateEffect, DetachMutationEffect
       DEF Blank, SameBinding, SameVerb
  <2>2. u = [v EXCEPT !.card = c,
                      !.removalNotice = IF c # None THEN FALSE ELSE @]
    BY <1>2 DEF BindCard
  <2> HIDE DEF v, u
  <2>3. u \in Window
    <3> DEFINE x == [v EXCEPT !.card = c]
    <3>1. x \in Window
      BY <2>1 DEF Window
    <3> DEFINE notice == IF c # None THEN FALSE ELSE x.removalNotice
    <3>2. u = [x EXCEPT !.removalNotice = notice]
      BY <2>2
    <3>3. notice \in BOOLEAN
      BY <3>1 DEF Window
    <3> HIDE DEF x, notice
    <3> QED
      BY <3>1, <3>2, <3>3, WindowFields
  <2>4. /\ u.card = c /\ u.readerId = v.readerId /\ u.resolved = v.resolved
        /\ u.deferred = v.deferred /\ u.mutationOp = v.mutationOp
        /\ u.banner = v.banner /\ u.letGo = v.letGo /\ u.listOp = v.listOp
        /\ u.rows = v.rows
        /\ u.listSettled = v.listSettled /\ u.showingResult = v.showingResult
        /\ u.listCancelRequested = v.listCancelRequested
        /\ u.mutationCancelRequested = v.mutationCancelRequested
    BY <2>1, <2>2 DEF Window
  <2>5. Sound(u) /\ Blank(u)
    BY <2>1, <2>3, <2>4 DEF Sound, Blank
  <2> QED
    BY <1>2, <2>1, <2>4, <2>5 DEF u, SameBinding, Blank
<1> QED
  BY <1>1, <1>2

(* Without a card, or without the capability, the window shows neither     *)
(* rows nor a listing.                                                     *)
LEMMA ShowNoSurfaceEffect ==
    ASSUME NEW w, Sound(w), NEW next \in {"NoCard", "NotManageable"}
    PROVE  LET u == ShowNoSurface(w, next) IN
           /\ Sound(u) /\ Viewed(u)
           /\ SameBinding(w, u) /\ SameVerb(w, u)
           /\ u.listOp = None /\ u.rows = None
<1> DEFINE v == ResetListState(w)
           x == [v EXCEPT !.rows = None]
           u == TransitionTo(x, next)
<1>0. w \in Window /\ next \in State \ DashboardState
  BY DEF Sound, State, DashboardState
<1>1. /\ v \in Window
      /\ v.listOp = None /\ ~v.listSettled /\ ~v.listCancelRequested
      /\ \A op \in v.letGo : op.cancelSent
      /\ SameBinding(w, v) /\ SameVerb(w, v)
      /\ v.mutationCancelRequested = w.mutationCancelRequested
  BY <1>0, ResetListStateEffect DEF Sound
<1> HIDE DEF v
<1>2. /\ x \in Window
      /\ x.listOp = None /\ x.rows = None
      /\ SameBinding(v, x) /\ SameVerb(v, x)
      /\ x.listCancelRequested = v.listCancelRequested
      /\ x.mutationCancelRequested = v.mutationCancelRequested
      /\ x.letGo = v.letGo
  BY <1>1 DEF Window, SameBinding, SameVerb
<1> HIDE DEF x
<1>3. Sound(x) /\ SameBinding(w, x) /\ SameVerb(w, x)
  BY <1>1, <1>2 DEF Sound, SameBinding, SameVerb
<1>4. /\ Sound(u) /\ u.state = next /\ u.sheet = None /\ u.rows = None
      /\ SameBinding(x, u) /\ SameVerb(x, u) /\ u.listOp = x.listOp
  BY <1>0, <1>2, <1>3, TransitionToEffect
<1> HIDE DEF u
<1>5. Viewed(u)
  BY <1>0, <1>4 DEF Viewed, State, DashboardState
<1>6. u = ShowNoSurface(w, next)
  BY DEF u, x, v, ShowNoSurface
<1> QED
  BY <1>2, <1>3, <1>4, <1>5, <1>6 DEF SameBinding, SameVerb

(* startListCredentials starts a listing only where none, no verb and no   *)
(* settled listing stands; it never touches the verb or the binding.       *)
LEMMA StartListCredentialsEffect ==
    ASSUME NEW w, Sound(w), Viewed(w) \/ Blank(w)
    PROVE  LET u == StartListCredentials(w) IN
           /\ Sound(u) /\ Viewed(u)
           /\ SameBinding(w, u) /\ SameVerb(w, u)
           /\ u.rows \in {w.rows, None}
           /\ w.listOp = None /\ w.listSettled => u.listOp = None
           /\ w.card # None /\ w.mutationOp = None /\ ~w.listSettled => u.listOp # None
<1> DEFINE u == StartListCredentials(w)
<1>0. w \in Window
  BY DEF Sound
<1>1. CASE w.card = None
  BY <1>1, ShowNoSurfaceEffect DEF StartListCredentials
<1>2. CASE w.card # None /\ (w.mutationOp # None \/ w.listOp # None \/ w.listSettled)
  <2>1. u = w
    BY <1>2 DEF StartListCredentials
  <2> QED
    BY <1>2, <2>1 DEF Blank, SameBinding, SameVerb
<1>3. CASE w.card # None /\ ~(w.mutationOp # None \/ w.listOp # None \/ w.listSettled)
  <2> DEFINE op == [card |-> w.card, cancelSent |-> FALSE]
             v == [w EXCEPT !.listOp = op]
  <2>1. op \in Operation /\ op # None /\ op.card = w.card /\ ~op.cancelSent
    <3>1. w.card \in Cards
      BY <1>0, <1>3 DEF Window
    <3>2. op \in Operation
      BY <3>1 DEF Operation
    <3> QED
      BY <3>2, ControllerAssumption
  <2>2. u = IF w.showingResult THEN v ELSE TransitionTo(v, "Loading")
    BY <1>3 DEF StartListCredentials
  <2> HIDE DEF op
  <2>3. /\ v \in Window
        /\ v.listOp = op /\ v.mutationOp = w.mutationOp
        /\ SameBinding(w, v) /\ SameVerb(w, v)
        /\ v.letGo = w.letGo /\ v.state = w.state /\ v.rows = w.rows
        /\ v.sheet = w.sheet
        /\ v.listCancelRequested = w.listCancelRequested
        /\ v.mutationCancelRequested = w.mutationCancelRequested
    BY <1>0, <2>1 DEF Window, SameBinding, SameVerb
  <2> HIDE DEF v
  <2>4. v.listCancelRequested = FALSE /\ v.mutationCancelRequested = FALSE
        /\ v.mutationOp = None /\ v.listOp.card = v.card /\ v.listOp # None
        /\ ~v.listOp.cancelSent
    BY <1>0, <1>3, <2>1, <2>3 DEF Sound, SameBinding, Window
  <2>5. Sound(v)
    BY <2>3, <2>4 DEF Sound
  <2>6. CASE w.showingResult
    <3>1. Viewed(w)
      BY <2>6 DEF Blank
    <3>2. Viewed(v)
      BY <1>3, <2>3, <2>4, <2>6, <3>1 DEF Viewed, SameBinding
    <3> QED
      BY <1>3, <2>2, <2>3, <2>4, <2>5, <2>6, <3>2
  <2>7. CASE ~w.showingResult
    <3>1. /\ Sound(u) /\ SameBinding(v, u) /\ SameVerb(v, u)
          /\ u.state = "Loading" /\ u.sheet = None /\ u.rows = v.rows
          /\ u.listOp = v.listOp /\ u.mutationOp = None
      BY <2>2, <2>3, <2>4, <2>5, <2>7, TransitionToEffect DEF State, DashboardState, SameVerb
    <3>2. Viewed(u)
      BY <2>4, <3>1 DEF Viewed, DashboardState
    <3> QED
      BY <1>3, <2>3, <2>4, <3>1, <3>2 DEF SameBinding, SameVerb
  <2> QED
    BY <2>6, <2>7
<1> QED
  BY <1>1, <1>2, <1>3

(* classify shows the page the bound card's capabilities call for.         *)
LEMMA ClassifyEffect ==
    ASSUME NEW w, Sound(w), Viewed(w) \/ Blank(w)
    PROVE  LET u == Classify(w) IN
           /\ Sound(u) /\ Viewed(u)
           /\ SameBinding(w, u) /\ SameVerb(w, u)
           /\ u.rows \in {w.rows, None}
           /\ w.listOp = None /\ w.listSettled => u.listOp = None
  BY ShowNoSurfaceEffect, StartListCredentialsEffect DEF Classify

(* The reader refresh resolves to is one of the readers.                   *)
LEMMA TargetReaderType ==
    ASSUME NEW id \in Readers \cup {None}, NEW rs \in SUBSET Readers, NEW s
    PROVE  TargetReader(id, rs, s) \in Readers \cup {None}
<1> DEFINE holding == {r \in rs : s[r] # None}
<1>1. holding \in SUBSET Readers
  OBVIOUS
<1>2. holding # {} => \E r \in holding : \A q \in holding : r <= q
  BY <1>1, RegistryAssumption
<1>3. FirstReaderWithCard(rs, s) \in Readers \cup {None}
  BY <1>1, <1>2 DEF FirstReaderWithCard
<1> QED
  BY <1>3 DEF TargetReader

(* refresh re-establishes everything: the binding follows the registry as  *)
(* the event left it, unless a live verb deferred it.                      *)
LEMMA RefreshEffect ==
    ASSUME RegistryTypeOK', NEW w,
           \/ Sound(w) /\ (Viewed(w) \/ Blank(w))
           \/ Bereft(w)
    PROVE  LET u == Refresh(w) IN
           /\ Sound(u) /\ Viewed(u)
           /\ avail' /\ ~u.deferred => Bound(u, readers', slot')
           /\ ~avail' => u.card = None
           /\ u.deferred => u.mutationOp # None
           /\ u.readerId = w.readerId
           /\ u.mutationOp = w.mutationOp \/ u.mutationOp = None
           /\ u.banner = w.banner
           /\ u.rows \in {w.rows, None}
           /\ w.mutationOp = None /\ w.listOp = None /\ w.listSettled /\ u.card = w.card
                => u.listOp = None
<1> DEFINE u == Refresh(w)
           target == TargetReader(w.readerId, readers', slot')
           v == [w EXCEPT !.resolved = None, !.deferred = FALSE]
           x == [w EXCEPT !.resolved = target, !.deferred = FALSE]
<1>0. w \in Window
  BY DEF Sound, Bereft
<1>1. target \in Readers \cup {None}
  BY <1>0, TargetReaderType DEF RegistryTypeOK, Window
<1> HIDE DEF target
<1>2. ASSUME NEW t \in Readers \cup {None}, NEW y,
             y = [w EXCEPT !.resolved = t, !.deferred = FALSE]
      PROVE  /\ (Sound(y) /\ (Viewed(y) \/ Blank(y))) \/ Bereft(y)
             /\ y.resolved = t /\ ~y.deferred
             /\ y.readerId = w.readerId
             /\ y.mutationOp = w.mutationOp /\ y.banner = w.banner
             /\ y.rows = w.rows /\ y.card = w.card
             /\ y.listOp = w.listOp /\ y.listSettled = w.listSettled
  <2>1. /\ y \in Window
        /\ y.resolved = t /\ ~y.deferred /\ y.readerId = w.readerId
        /\ SameVerb(w, y) /\ y.card = w.card /\ y.letGo = w.letGo
        /\ y.listOp = w.listOp /\ y.listSettled = w.listSettled
        /\ y.listCancelRequested = w.listCancelRequested
        /\ y.mutationCancelRequested = w.mutationCancelRequested
        /\ y.showingResult = w.showingResult /\ y.readStopped = w.readStopped
        /\ y.state = w.state /\ y.rows = w.rows /\ y.sheet = w.sheet
    BY <1>0, <1>2 DEF Window, SameVerb
  <2>2. CASE Bereft(w)
    BY <2>1, <2>2 DEF Bereft, SameVerb
  <2>3. Sound(w) => Sound(y)
    BY <2>1 DEF Sound, SameVerb
  <2>4. Viewed(w) => Viewed(y)
    BY <2>1 DEF Viewed, SameVerb
  <2>5. Blank(w) => Blank(y)
    BY <2>1 DEF Blank, SameVerb
  <2> QED
    BY <2>1, <2>2, <2>3, <2>4, <2>5 DEF SameVerb
<1>3. /\ (Sound(v) /\ (Viewed(v) \/ Blank(v))) \/ Bereft(v)
      /\ v.resolved = None /\ ~v.deferred
      /\ v.readerId = w.readerId
      /\ v.mutationOp = w.mutationOp /\ v.banner = w.banner /\ v.rows = w.rows
  <2>1. None \in Readers \cup {None}
    OBVIOUS
  <2> HIDE DEF x
  <2> QED
    BY <1>2, <2>1, Zenon DEF v
<1>4. /\ (Sound(x) /\ (Viewed(x) \/ Blank(x))) \/ Bereft(x)
      /\ x.resolved = target /\ ~x.deferred
      /\ x.readerId = w.readerId
      /\ x.mutationOp = w.mutationOp /\ x.banner = w.banner /\ x.rows = w.rows
      /\ x.card = w.card /\ x.listOp = w.listOp /\ x.listSettled = w.listSettled
  BY <1>1, <1>2
<1> HIDE DEF v, x
<1>5. ASSUME NEW next \in {"AgentUnavailable", "NoCard"},
             u = TransitionTo(BindCard(v, None), next)
      PROVE  /\ Sound(u) /\ Viewed(u)
             /\ u.resolved = None /\ u.card = None /\ u.readerId = w.readerId
             /\ ~u.deferred
             /\ u.mutationOp = None /\ u.listOp = None
             /\ u.banner = w.banner /\ u.rows = w.rows
  <2> DEFINE b == BindCard(v, None)
  <2>1. /\ Sound(b) /\ Blank(b) /\ b.card = None
        /\ b.readerId = w.readerId /\ b.resolved = None /\ ~b.deferred
        /\ b.banner = w.banner /\ b.rows = w.rows
    BY <1>3, BindCardEffect
  <2> HIDE DEF b
  <2>2. /\ Sound(u) /\ u.state = next /\ u.sheet = None
        /\ SameBinding(b, u) /\ SameVerb(b, u)
        /\ u.listOp = b.listOp /\ u.rows = b.rows
    <3>1. next \in State /\ next \notin DashboardState
      BY <1>5 DEF State, DashboardState
    <3>2. u = TransitionTo(b, next)
      BY <1>5 DEF b
    <3>3. b \in Window
      BY <2>1 DEF Sound
    <3> QED
      BY <2>1, <3>1, <3>2, <3>3, TransitionToEffect
  <2> HIDE DEF u
  <2>3. Viewed(u)
    BY <2>1, <2>2 DEF Viewed, Blank, SameVerb, DashboardState
  <2> QED
    BY <2>1, <2>2, <2>3 DEF SameBinding, SameVerb, Blank
<1>6. CASE ~avail'
  <2>1. u = TransitionTo(BindCard(v, None), "AgentUnavailable")
    BY <1>6 DEF Refresh, v
  <2> HIDE DEF u
  <2> QED
    BY <1>5, <1>6, <2>1 DEF u
<1>7. CASE avail' /\ w.mutationOp # None
  <2>1. u = [w EXCEPT !.deferred = TRUE]
    BY <1>7 DEF Refresh
  <2>2. Sound(w) /\ Viewed(w)
    BY <1>7 DEF Bereft, Blank
  <2>3. /\ u \in Window /\ u.deferred
        /\ SameVerb(w, u) /\ u.readerId = w.readerId /\ u.card = w.card
        /\ u.letGo = w.letGo /\ u.listOp = w.listOp
        /\ u.listCancelRequested = w.listCancelRequested
        /\ u.mutationCancelRequested = w.mutationCancelRequested
        /\ u.state = w.state /\ u.rows = w.rows /\ u.sheet = w.sheet
    <3>1. u \in Window
      BY <1>0, <2>1, WindowFields
    <3>2. /\ u.deferred
          /\ SameVerb(w, u) /\ u.readerId = w.readerId /\ u.card = w.card
          /\ u.letGo = w.letGo /\ u.listOp = w.listOp
          /\ u.listCancelRequested = w.listCancelRequested
          /\ u.mutationCancelRequested = w.mutationCancelRequested
          /\ u.state = w.state /\ u.rows = w.rows /\ u.sheet = w.sheet
      BY <1>0, <2>1 DEF Window, SameVerb
    <3> QED
      BY <3>1, <3>2
  <2> HIDE DEF u
  <2>4. Sound(u)
    BY <2>2, <2>3 DEF Sound, SameVerb
  <2>5. Viewed(u)
    BY <1>7, <2>2, <2>3 DEF Viewed, SameVerb
  <2> QED
    BY <1>7, <2>3, <2>4, <2>5 DEF SameVerb, u
<1>8. CASE avail' /\ w.mutationOp = None /\ target = None
  <2>1. u = TransitionTo(BindCard(v, None), "NoCard")
    BY <1>8 DEF Refresh, v, target
  <2> HIDE DEF u
  <2>2. Bound(u, readers', slot')
    BY <1>5, <1>8, <2>1 DEF Bound, target
  <2> QED
    BY <1>5, <2>1, <2>2 DEF u
<1>9. CASE avail' /\ w.mutationOp = None /\ target # None
  <2> DEFINE b == BindCard(x, slot'[target])
  <2>1. slot'[target] \in Cards \cup {None}
    BY <1>1, <1>9 DEF RegistryTypeOK
  <2>2. /\ Sound(b) /\ (Viewed(b) \/ Blank(b))
        /\ b.card = slot'[target] /\ b.resolved = target
        /\ b.readerId = w.readerId /\ ~b.deferred
        /\ b.mutationOp = None /\ b.banner = w.banner /\ b.rows = w.rows
    BY <1>4, <1>9, <2>1, BindCardEffect
  <2>3. u = Classify(b)
    BY <1>9 DEF Refresh, x, target
  <2> HIDE DEF b, u
  <2>4. /\ Sound(u) /\ Viewed(u) /\ SameBinding(b, u) /\ SameVerb(b, u)
        /\ u.rows \in {b.rows, None}
        /\ b.listOp = None /\ b.listSettled => u.listOp = None
    BY <2>2, <2>3, ClassifyEffect
  <2>5. Bound(u, readers', slot')
    BY <1>9, <2>2, <2>4 DEF Bound, target, SameBinding
  <2>6. w.listOp = None /\ w.listSettled /\ u.card = w.card => u.listOp = None
    <3>1. CASE u.card = None
      BY <2>4, <3>1, RegistryAssumption DEF Sound, Window, Operation
    <3>2. CASE u.card # None /\ u.card = w.card
      <4>1. b = x
        BY <1>4, <2>1, <2>2, <2>4, <3>2, BindCardEffect DEF b, SameBinding
      <4> QED
        BY <1>4, <2>4, <4>1
    <3> QED
      BY <3>1, <3>2
  <2> QED
    BY <2>2, <2>4, <2>5, <2>6, <1>9 DEF SameBinding, SameVerb, u
<1> HIDE DEF u
<1>10. avail' \in BOOLEAN
  BY DEF RegistryTypeOK
<1> QED
  BY <1>6, <1>7, <1>8, <1>9

-----------------------------------------------------------------------------
(* Terminals and lost cards.                                               *)

(* The end of a listing leaves no operation and a page that fits; it moves *)
(* no binding and says nothing about a verb.                               *)
LEMMA OnListFinishedEffect ==
    ASSUME NEW w, Sound(w), Viewed(w), w.listOp # None, NEW status \in ListStatus
    PROVE  LET u == OnListFinished(w, status) IN
           /\ Sound(u) /\ Viewed(u)
           /\ SameBinding(w, u) /\ SameVerb(w, u)
<1> DEFINE newRows == IF status = "Ok" THEN [card |-> w.card, fresh |-> TRUE] ELSE None
           settled == \/ status \in {"Ok", "OkEmpty"}
                      \/ w.listCancelRequested
                      \/ status = "Cancelled"
           stopped == status \notin {"Ok", "OkEmpty"} /\ w.listOp.cancelSent
           next == CASE status = "Ok" -> "Ready"
                     [] status = "OkEmpty" -> "Empty"
                     [] OTHER -> "ReadFailed"
           v == [w EXCEPT !.listOp = None,
                          !.listCancelRequested = FALSE,
                          !.showingResult = FALSE,
                          !.listSettled = settled,
                          !.rows = newRows,
                          !.readStopped = stopped]
           u == OnListFinished(w, status)
<1>0. /\ w \in Window /\ w.card \in Cards /\ w.mutationOp = None
      /\ w.listOp \in Operation
  BY DEF Sound, Window, Operation
<1>1. newRows \in Rows \cup {None} /\ settled \in BOOLEAN /\ stopped \in BOOLEAN
  <2>1. newRows \in Rows \cup {None}
    BY <1>0 DEF Rows
  <2>2. settled \in BOOLEAN /\ stopped \in BOOLEAN
    BY <1>0 DEF Operation
  <2> QED
    BY <2>1, <2>2
<1>2. newRows # None => status = "Ok" /\ newRows.card = w.card /\ newRows.fresh
  OBVIOUS
<1>3. status = "Ok" => newRows # None
  <2>1. [card |-> w.card, fresh |-> TRUE] \in Rows
    BY <1>0 DEF Rows
  <2> QED
    BY <2>1, ControllerAssumption
<1>4. u = TransitionTo(v, next)
  BY DEF OnListFinished
<1>5. next \in State /\ (next = "Ready" <=> status = "Ok")
      /\ next \notin {"Working", "Loading", "Result"}
  BY DEF ListStatus, State
<1>10. stopped => settled
  BY DEF Sound
<1> HIDE DEF newRows, settled, stopped, next
<1>6. /\ v \in Window /\ v.listOp = None /\ v.rows = newRows
      /\ v.listSettled = settled /\ v.readStopped = stopped /\ ~v.showingResult
      /\ ~v.listCancelRequested
      /\ v.mutationCancelRequested = w.mutationCancelRequested
      /\ v.letGo = w.letGo /\ v.sheet = w.sheet /\ v.state = w.state
      /\ SameBinding(w, v) /\ SameVerb(w, v)
  <2> DEFINE x == [w EXCEPT !.listOp = None, !.listCancelRequested = FALSE,
                            !.showingResult = FALSE]
  <2>0. x \in Window
    <3> DEFINE y == [w EXCEPT !.listOp = None]
    <3>1. y \in Window
      BY <1>0 DEF Window
    <3>2. x = [y EXCEPT !.listCancelRequested = FALSE, !.showingResult = FALSE]
      OBVIOUS
    <3> HIDE DEF x, y
    <3> QED
      BY <3>1, <3>2 DEF Window
  <2>1. v \in Window
    <3> DEFINE y == [x EXCEPT !.listSettled = settled]
               z == [y EXCEPT !.rows = newRows]
    <3>1. v = [z EXCEPT !.readStopped = stopped]
      OBVIOUS
    <3> HIDE DEF v, x
    <3>2. y \in Window
      BY <1>1, <2>0 DEF Window
    <3> HIDE DEF y
    <3>3. z \in Window
      BY <1>1, <3>2 DEF Window
    <3> HIDE DEF z
    <3> QED
      BY <1>1, <3>1, <3>3 DEF Window
  <2>2. /\ v.listOp = None /\ v.rows = newRows
        /\ v.listSettled = settled /\ v.readStopped = stopped
        /\ v.showingResult = FALSE
        /\ v.listCancelRequested = FALSE
        /\ v.mutationCancelRequested = w.mutationCancelRequested
        /\ v.letGo = w.letGo /\ v.sheet = w.sheet /\ v.state = w.state
    BY <1>0 DEF Window
  <2>3. SameBinding(w, v) /\ SameVerb(w, v)
    BY <1>0 DEF Window, SameBinding, SameVerb
  <2> QED
    BY <2>1, <2>2, <2>3
<1> HIDE DEF v
<1>7. Sound(v)
  BY <1>0, <1>6 DEF Sound, SameVerb, SameBinding
<1>8. /\ Sound(u) /\ u.state = next /\ u.rows = newRows
      /\ u.listOp = None /\ ~u.showingResult
      /\ u.listSettled = settled /\ u.readStopped = stopped
      /\ u.sheet = IF next \in DashboardState THEN w.sheet ELSE None
      /\ SameBinding(w, u) /\ SameVerb(w, u)
  BY <1>4, <1>5, <1>6, <1>7, TransitionToEffect DEF SameBinding, SameVerb
<1> HIDE DEF u
<1>9. Viewed(u)
  <2>1. u.mutationOp = None /\ u.card = w.card
    BY <1>0, <1>8 DEF SameBinding, SameVerb
  <2> QED
    BY <1>2, <1>3, <1>5, <1>8, <1>10, <2>1 DEF Viewed
<1> QED
  BY <1>8, <1>9 DEF u

(* The mandatory re-list keeps the verdict page up.                        *)
LEMMA RelistAfterMutationEffect ==
    ASSUME NEW w, Sound(w), Viewed(w), w.mutationOp = None, w.state = "Result"
    PROVE  LET u == RelistAfterMutation(w) IN
           /\ Sound(u) /\ Viewed(u)
           /\ SameBinding(w, u) /\ SameVerb(w, u)
           /\ w.card # None => u.listOp # None
<1> DEFINE v == ResetListState(w)
           x == [v EXCEPT !.showingResult = TRUE]
<1>1. /\ v \in Window
      /\ v.listOp = None /\ ~v.listCancelRequested /\ ~v.listSettled
      /\ \A op \in v.letGo : op.cancelSent
      /\ SameBinding(w, v) /\ SameVerb(w, v)
      /\ v.mutationCancelRequested = w.mutationCancelRequested
      /\ v.state = w.state /\ v.rows = w.rows /\ v.sheet = w.sheet
  BY ResetListStateEffect DEF Sound
<1> HIDE DEF v
<1>2. /\ x \in Window
      /\ x.listOp = None /\ ~x.listCancelRequested /\ ~x.listSettled
      /\ x.letGo = v.letGo
      /\ SameBinding(w, x) /\ SameVerb(w, x)
      /\ x.mutationCancelRequested = w.mutationCancelRequested
      /\ x.state = w.state /\ x.rows = w.rows /\ x.sheet = w.sheet
  BY <1>1 DEF Window, SameBinding, SameVerb
<1>3. RelistAfterMutation(w) = StartListCredentials(x)
  BY DEF RelistAfterMutation, v
<1> HIDE DEF x
<1>4. Sound(x)
  BY <1>1, <1>2 DEF Sound, SameBinding, SameVerb
<1>5. Viewed(x)
  BY <1>2 DEF Viewed, SameBinding, SameVerb
<1> QED
  BY <1>2, <1>3, <1>4, <1>5, StartListCredentialsEffect DEF SameBinding, SameVerb

(* The end of a verb: no verb is left, the binding stands, and a verb the  *)
(* user cancelled does not end in an error.                                *)
LEMMA OnMutationDoneEffect ==
    ASSUME NEW w, Sound(w), Viewed(w), w.mutationOp # None, NEW t
    PROVE  LET u == OnMutationDone(w, t) IN
           /\ Sound(u) /\ Viewed(u)
           /\ SameBinding(w, u)
           /\ u.mutationOp = None
           /\ w.mutationCancelRequested => u.banner # "error"
           /\ Voided(w, u) => Attended(u)
<1> DEFINE v == [w EXCEPT !.mutationOp = None,
                          !.mutationCancelRequested = FALSE,
                          !.rows = IF @ # None /\ VoidsListing(t)
                                   THEN [@ EXCEPT !.fresh = FALSE] ELSE @]
           shown(b) == TransitionTo([v EXCEPT !.banner = b], "Result")
           Banner == {"none", "notice", "error"}
           u == OnMutationDone(w, t)
           Done(y) ==
              /\ Sound(y) /\ Viewed(y) /\ SameBinding(w, y)
              /\ y.mutationOp = None
              /\ Voided(w, y) => Attended(y)
           Shown(y) ==
              /\ Sound(y) /\ Viewed(y) /\ SameBinding(w, y)
              /\ y.mutationOp = None /\ y.state = "Result"
              /\ y.rows = v.rows
<1>0. /\ w \in Window /\ w.card \in Cards /\ w.listOp = None
      /\ w.rows # None => w.rows \in Rows /\ w.rows.card = w.card
  BY DEF Sound, Viewed, Window, Operation, DashboardState
<1>1. /\ v \in Window /\ v.mutationOp = None /\ ~v.mutationCancelRequested
      /\ SameBinding(w, v) /\ v.listOp = None
      /\ v.listCancelRequested = w.listCancelRequested
      /\ v.letGo = w.letGo /\ v.sheet = w.sheet /\ v.state = w.state
      /\ v.rows # None => v.rows.card = w.card
      /\ ~VoidsListing(t) => v.rows = w.rows
  <2> DEFINE rows == IF w.rows # None /\ VoidsListing(t)
                     THEN [w.rows EXCEPT !.fresh = FALSE] ELSE w.rows
  <2>1. /\ rows \in Rows \cup {None} /\ (rows # None => rows.card = w.card)
        /\ ~VoidsListing(t) => rows = w.rows
    BY <1>0 DEF Rows, Window
  <2>2. v = [w EXCEPT !.mutationOp = None,
                      !.mutationCancelRequested = FALSE, !.rows = rows]
    BY <1>0 DEF Window
  <2> HIDE DEF rows, v
  <2>3. v \in Window
    <3> DEFINE x == [w EXCEPT !.rows = rows]
    <3>1. x \in Window
      BY <1>0, <2>1 DEF Window
    <3>2. v = [x EXCEPT !.mutationOp = None, !.mutationCancelRequested = FALSE]
      BY <2>2
    <3> HIDE DEF x
    <3> QED
      BY <3>1, <3>2 DEF Window
  <2>4. /\ v.mutationOp = None /\ ~v.mutationCancelRequested /\ v.rows = rows
        /\ SameBinding(w, v) /\ v.listOp = w.listOp
        /\ v.listCancelRequested = w.listCancelRequested
        /\ v.letGo = w.letGo /\ v.sheet = w.sheet /\ v.state = w.state
    BY <1>0, <2>2 DEF Window, SameBinding
  <2> QED
    BY <1>0, <2>1, <2>3, <2>4
<1> HIDE DEF v
<1>2. ASSUME NEW b \in Banner
      PROVE  Shown(shown(b)) /\ shown(b).banner = b
  <2> DEFINE x == [v EXCEPT !.banner = b]
             y == shown(b)
  <2>1. /\ x \in Window /\ x.mutationOp = None /\ ~x.mutationCancelRequested
        /\ SameBinding(w, x) /\ x.listOp = None
        /\ x.listCancelRequested = w.listCancelRequested
        /\ x.letGo = w.letGo /\ x.sheet = w.sheet /\ x.banner = b
        /\ x.rows = v.rows
    BY <1>1 DEF Window, SameBinding
  <2>0. y = TransitionTo(x, "Result")
    OBVIOUS
  <2> HIDE DEF x, y
  <2>2. Sound(x)
    BY <1>0, <2>1 DEF Sound, SameBinding
  <2>3. /\ Sound(y) /\ y.state = "Result" /\ y.sheet = w.sheet
        /\ y.rows = v.rows /\ SameBinding(x, y) /\ SameVerb(x, y)
    BY <2>0, <2>1, <2>2, TransitionToEffect DEF State, DashboardState
  <2>4. SameBinding(w, y) /\ y.mutationOp = None /\ y.banner = b
    BY <2>1, <2>3 DEF SameBinding, SameVerb
  <2>5. Viewed(y)
    BY <1>1, <2>3, <2>4 DEF Viewed, SameBinding, DashboardState
  <2> QED
    BY <2>3, <2>4, <2>5 DEF y
<1> HIDE DEF shown
<1>3. ASSUME NEW b \in Banner
      PROVE  Done(RelistAfterMutation(shown(b)))
             /\ RelistAfterMutation(shown(b)).banner = b
  BY <1>0, <1>2, <1>3, RelistAfterMutationEffect, RegistryAssumption
     DEF SameBinding, SameVerb, Attended
<1>4. ASSUME NEW b \in Banner
      PROVE  LET y == [shown(b) EXCEPT !.removalNotice = TRUE] IN
             Done(y) /\ y.banner = b
  <2> DEFINE x == shown(b)
             y == [x EXCEPT !.removalNotice = TRUE]
  <2>1. x \in Window /\ Shown(x) /\ x.banner = b
    BY <1>2 DEF Sound
  <2> HIDE DEF x
  <2>2. /\ y \in Window /\ y.mutationOp = x.mutationOp
        /\ SameBinding(x, y) /\ y.listOp = x.listOp
        /\ y.listCancelRequested = x.listCancelRequested
        /\ y.mutationCancelRequested = x.mutationCancelRequested
        /\ y.letGo = x.letGo /\ y.sheet = x.sheet /\ y.rows = x.rows
        /\ y.state = x.state /\ y.banner = x.banner /\ y.removalNotice
    <3>1. y \in Window
      BY <2>1, WindowFields
    <3>2. /\ y.mutationOp = x.mutationOp
          /\ SameBinding(x, y) /\ y.listOp = x.listOp
          /\ y.listCancelRequested = x.listCancelRequested
          /\ y.mutationCancelRequested = x.mutationCancelRequested
          /\ y.letGo = x.letGo /\ y.sheet = x.sheet /\ y.rows = x.rows
          /\ y.state = x.state /\ y.banner = x.banner /\ y.removalNotice
      BY <2>1 DEF Window, SameBinding
    <3> QED
      BY <3>1, <3>2
  <2> HIDE DEF y
  <2>3. Sound(y)
    BY <2>1, <2>2 DEF Sound, SameBinding
  <2>4. Viewed(y)
    BY <2>1, <2>2 DEF Viewed, SameBinding
  <2> QED
    BY <2>1, <2>2, <2>3, <2>4 DEF SameBinding, Attended, x, y
<1>5. CASE t.named # "none"
  <2>1. \/ u = shown("notice") /\ ~VoidsListing(t)
        \/ u = RelistAfterMutation(shown("notice"))
    BY <1>5 DEF OnMutationDone, HandleRefusal, VoidsListing, shown, v
  <2> HIDE DEF u
  <2>2. ASSUME u = shown("notice"), ~VoidsListing(t)
        PROVE  Done(u) /\ u.banner = "notice"
    <3>1. Shown(u) /\ u.banner = "notice" /\ u.rows = w.rows
      BY <1>1, <1>2, <2>2
    <3> QED
      BY <3>1 DEF Voided
  <2>3. Done(u) /\ u.banner = "notice"
    <3> HIDE DEF Done
    <3> QED
      BY <1>3, <2>1, <2>2
  <2> QED
    BY <2>3 DEF u
<1>6. CASE t.named = "none"
  <2>1. PICK b \in Banner :
          /\ w.mutationCancelRequested => b # "error"
          /\ \/ u = [shown(b) EXCEPT !.removalNotice = TRUE]
             \/ u = RelistAfterMutation(shown(b))
    BY <1>6 DEF OnMutationDone, shown, v
  <2> HIDE DEF u
  <2>2. Done(u) /\ u.banner = b
    <3> HIDE DEF Done
    <3> QED
      BY <1>3, <1>4, <2>1
  <2> QED
    BY <2>1, <2>2 DEF u
<1> QED
  BY <1>5, <1>6

(* Destroying cards takes the bound card's operations with it, or leaves   *)
(* the window alone but for the operations it had let go of.               *)
LEMMA DestroyEffect ==
    ASSUME NEW w, Sound(w), Viewed(w), NEW lost
    PROVE  LET u == Destroy(w, lost) IN
           \/ /\ Sound(u) /\ Viewed(u) /\ SameBinding(w, u) /\ SameVerb(w, u)
              /\ u.listOp = w.listOp /\ u.listSettled = w.listSettled
              /\ u.rows = w.rows
           \/ Bereft(u) /\ u.banner = w.banner /\ w.card \in lost
<1> DEFINE gone(op) == op # None /\ op.card \in lost
           card == IF w.card \in lost THEN None ELSE w.card
           list == IF gone(w.listOp) THEN None ELSE w.listOp
           verb == IF gone(w.mutationOp) THEN None ELSE w.mutationOp
           left == {op \in w.letGo : op.card \notin lost}
           u == Destroy(w, lost)
<1>0. w \in Window
  BY DEF Sound
<1>1. u = [w EXCEPT !.card = card, !.listOp = list, !.mutationOp = verb, !.letGo = left]
  BY <1>0 DEF Destroy, Window
<1>2. /\ card \in Cards \cup {None} /\ list \in Operation \cup {None}
      /\ verb \in Operation \cup {None} /\ left \in SUBSET Operation
  BY <1>0 DEF Window
<1>3. \A op \in left : op.cancelSent
  BY DEF Sound
<1>4. w.card \in lost => card = None /\ list = None /\ verb = None
  BY <1>0, RegistryAssumption DEF Sound, Window, Operation
<1>5. w.card \notin lost => card = w.card /\ list = w.listOp /\ verb = w.mutationOp
  BY DEF Sound
<1> HIDE DEF card, list, verb, left, u
<1>6. /\ u \in Window
      /\ u.card = card /\ u.listOp = list /\ u.mutationOp = verb /\ u.letGo = left
      /\ u.readerId = w.readerId /\ u.resolved = w.resolved /\ u.deferred = w.deferred
      /\ u.banner = w.banner /\ u.state = w.state /\ u.rows = w.rows
      /\ u.sheet = w.sheet /\ u.listSettled = w.listSettled
      /\ u.showingResult = w.showingResult /\ u.readStopped = w.readStopped
      /\ u.listCancelRequested = w.listCancelRequested
      /\ u.mutationCancelRequested = w.mutationCancelRequested
  BY <1>0, <1>1, <1>2 DEF Window
<1>7. CASE w.card \in lost
  BY <1>3, <1>4, <1>6, <1>7 DEF Bereft, u
<1>8. CASE w.card \notin lost
  <2>1. SameBinding(w, u) /\ SameVerb(w, u)
    BY <1>5, <1>6, <1>8 DEF SameBinding, SameVerb
  <2>2. Sound(u)
    BY <1>3, <1>5, <1>6, <1>8 DEF Sound
  <2>3. Viewed(u)
    BY <1>5, <1>6, <1>8 DEF Viewed
  <2> QED
    BY <1>5, <1>6, <1>8, <2>1, <2>2, <2>3 DEF u
<1> QED
  BY <1>7, <1>8

(* Losing cards leaves the window as any signal does, whether or not the   *)
(* bound card is one of them and the ends of its operations were told.     *)
LEMMA LoseCardsEffect ==
    ASSUME RegistryTypeOK', NEW w, Sound(w), Viewed(w), NEW lost, NEW code, NEW told
    PROVE  LET u == LoseCards(w, lost, code, told) IN
           /\ Sound(u) /\ Viewed(u)
           /\ avail' /\ ~u.deferred => Bound(u, readers', slot')
           /\ ~avail' => u.card = None
           /\ u.deferred => u.mutationOp # None
           /\ Dropped(w, u) \/ Ended(w, u)
<1> DEFINE a == SweepList(w, lost, told)
           b == SweepMutation(a, lost, code, told)
           d == Destroy(b, lost)
           u == LoseCards(w, lost, code, told)
<1>1. Sound(a) /\ Viewed(a) /\ a.card = w.card
      /\ SameVerb(w, a)
  BY OnListFinishedEffect DEF SweepList, ListStatus, SameBinding, SameVerb
<1> HIDE DEF a
<1>0. a.mutationCancelRequested <=> w.mutationCancelRequested
  BY <1>1 DEF Sound, SameVerb
<1>2. /\ Sound(b) /\ Viewed(b) /\ b.card = w.card
      /\ Dropped(a, b) \/ Ended(a, b)
  BY <1>1, OnMutationDoneEffect DEF SweepMutation, SameBinding, Dropped, Ended
<1> HIDE DEF b
<1>3. /\ \/ Sound(d) /\ Viewed(d)
         \/ Bereft(d)
      /\ Dropped(b, d)
  <2>1. \/ Sound(d) /\ Viewed(d) /\ SameVerb(b, d)
        \/ Bereft(d) /\ d.banner = b.banner
    BY <1>2, DestroyEffect
  <2> HIDE DEF d
  <2> QED
    BY <2>1 DEF Bereft, Dropped, SameVerb
<1>4. u = Refresh(d)
  BY DEF LoseCards, a, b
<1> HIDE DEF d
<1>5. /\ Sound(u) /\ Viewed(u)
      /\ avail' /\ ~u.deferred => Bound(u, readers', slot')
      /\ ~avail' => u.card = None
      /\ u.deferred => u.mutationOp # None
      /\ Dropped(d, u)
  BY <1>3, <1>4, RefreshEffect DEF Dropped
<1> HIDE DEF u
<1>6. Dropped(w, u) \/ Ended(w, u)
  BY <1>0, <1>1, <1>2, <1>3, <1>5 DEF Dropped, Ended, SameVerb
<1> QED
  BY <1>5, <1>6 DEF u

(* Losing other cards than the bound one is a refresh.                     *)
LEMMA LoseOtherCards ==
    ASSUME RegistryTypeOK', NEW w, Sound(w), Viewed(w), NEW lost, NEW code, NEW told,
           w.card \notin lost
    PROVE  LET u == LoseCards(w, lost, code, told) IN
           /\ u.rows \in {w.rows, None}
           /\ w.mutationOp = None /\ w.listOp = None /\ w.listSettled /\ u.card = w.card
                => u.listOp = None
<1> DEFINE d == Destroy(w, lost)
<1>1. LoseCards(w, lost, code, told) = Refresh(d)
  BY DEF LoseCards, SweepMutation, SweepList, Sound
<1>2. /\ Sound(d) /\ Viewed(d) /\ SameBinding(w, d) /\ SameVerb(w, d)
      /\ d.listOp = w.listOp /\ d.listSettled = w.listSettled /\ d.rows = w.rows
  BY DestroyEffect
<1> HIDE DEF d
<1> QED
  BY <1>1, <1>2, RefreshEffect DEF SameBinding, SameVerb

(* A verb starts on the bound card, and the listing it may find is gone.   *)
LEMMA BeginMutationEffect ==
    ASSUME NEW w, Sound(w), Viewed(w), w.card # None, w.mutationOp = None,
           w.state \in DashboardState
    PROVE  LET u == BeginMutation(w) IN
           /\ Sound(u) /\ Viewed(u)
           /\ SameBinding(w, u)
           /\ u.mutationOp = [card |-> w.card, cancelSent |-> FALSE]
           /\ u.banner = w.banner
           /\ u.state = "Working" /\ u.sheet = w.sheet /\ u.rows = w.rows
<1> DEFINE op == [card |-> w.card, cancelSent |-> FALSE]
           v == IF w.listOp # None THEN ResetListState(w) ELSE w
           x == [v EXCEPT !.removalNotice = FALSE, !.mutationOp = op,
                          !.mutationCancelRequested = FALSE]
           u == BeginMutation(w)
<1>1. op \in Operation /\ op.card = w.card /\ ~op.cancelSent
  BY DEF Sound, Window, Operation
<1>2. /\ v \in Window /\ v.listOp = None /\ ~v.listCancelRequested
      /\ \A o \in v.letGo : o.cancelSent
      /\ SameBinding(w, v) /\ v.banner = w.banner
      /\ v.state = w.state /\ v.rows = w.rows /\ v.sheet = w.sheet
  <2>1. CASE w.listOp # None
    BY <2>1, ResetListStateEffect DEF Sound, SameVerb
  <2>2. CASE w.listOp = None
    BY <2>2 DEF Sound, SameBinding
  <2> QED
    BY <2>1, <2>2
<1>3. u = TransitionTo(x, "Working")
  BY DEF BeginMutation
<1> HIDE DEF v, op
<1>4. /\ x \in Window /\ x.listOp = None /\ x.listCancelRequested = v.listCancelRequested
      /\ x.mutationOp = op /\ ~x.mutationCancelRequested
      /\ x.letGo = v.letGo
      /\ SameBinding(v, x) /\ x.banner = v.banner
      /\ x.state = v.state /\ x.rows = v.rows /\ x.sheet = v.sheet
  BY <1>1, <1>2 DEF Window, SameBinding
<1> HIDE DEF x
<1>5. Sound(x)
  BY <1>1, <1>2, <1>4, ControllerAssumption DEF Sound, SameBinding
<1>6. /\ Sound(u) /\ u.state = "Working" /\ u.sheet = x.sheet /\ u.rows = x.rows
      /\ SameBinding(x, u) /\ SameVerb(x, u)
  BY <1>3, <1>4, <1>5, TransitionToEffect DEF State, DashboardState
<1> HIDE DEF u
<1>7. SameBinding(w, u) /\ u.mutationOp = op /\ u.banner = w.banner
      /\ u.rows = w.rows /\ u.sheet = w.sheet
  BY <1>2, <1>4, <1>6 DEF SameBinding, SameVerb
<1>8. Viewed(u)
  BY <1>1, <1>6, <1>7, ControllerAssumption DEF Viewed, SameBinding, DashboardState
<1> QED
  BY <1>6, <1>7, <1>8 DEF u, op

-----------------------------------------------------------------------------
(* The inductive invariant.                                                *)

(* What a handler has to leave for the invariant to hold again.            *)
Settled ==
    /\ RegistryTypeOK'
    /\ started' \in BOOLEAN
    /\ Sound(win')
    /\ Viewed(win')
    /\ started' /\ avail' /\ ~win'.deferred => Bound(win', readers', slot')
    /\ win'.deferred => win.deferred \/ win'.mutationOp # None

(* That is enough for the invariant to hold again.                         *)
LEMMA SettledIsIInv ==
    ASSUME Settled
    PROVE  IInv'
  BY DEF Settled, IInv, TypeOK, Sound, Bound, BindingFollowsRegistry

(* A handler that leaves the registry and the binding alone keeps them in  *)
(* agreement.                                                              *)
LEMMA QuietHandler ==
    ASSUME IInv, UNCHANGED <<registry, started>>,
           Sound(win'), Viewed(win'), SameBinding(win, win')
    PROVE  Settled
<1>1. RegistryTypeOK'
  BY RegistryTypePreserved DEF IInv, TypeOK, registry
<1>2. started' = started /\ avail' = avail /\ readers' = readers /\ slot' = slot
  BY DEF registry
<1>3. started /\ avail /\ ~win.deferred => Bound(win, readers, slot)
  BY DEF IInv, BindingFollowsRegistry, Bound
<1> QED
  BY <1>1, <1>2, <1>3 DEF Settled, SameBinding, Bound, IInv, TypeOK

(* A handler that ends in refresh settles everything.                      *)
LEMMA RefreshSettles ==
    ASSUME RegistryTypeOK', started' \in BOOLEAN, NEW w, win' = Refresh(w),
           \/ Sound(w) /\ (Viewed(w) \/ Blank(w))
           \/ Bereft(w)
    PROVE  Settled
  BY RefreshEffect DEF Settled

(* Window members that the conditions do not mention.                      *)
LEMMA OtherMembers ==
    ASSUME NEW w, Sound(w), Viewed(w), NEW u \in Window,
           u.card = w.card, u.listOp = w.listOp, u.mutationOp = w.mutationOp,
           u.listCancelRequested = w.listCancelRequested,
           u.mutationCancelRequested = w.mutationCancelRequested,
           u.letGo \subseteq w.letGo, u.state = w.state, u.rows = w.rows,
           u.listSettled = w.listSettled, u.showingResult = w.showingResult,
           u.readStopped = w.readStopped, u.sheet = w.sheet \/ u.sheet = None
    PROVE  Sound(u) /\ Viewed(u)
<1>1. Sound(u)
  BY DEF Sound
<1>2. Viewed(u)
  BY DEF Viewed
<1> QED
  BY <1>1, <1>2

(* The step refreshes the window, as it was or, when a launch takes it from *)
(* a running verb, with verb and listing dropped.                          *)
Refreshes(x) ==
    /\ win' = Refresh(x)
    /\ Sound(x)
    /\ Viewed(x) \/ Blank(x)
    /\ x.mutationOp \in {win.mutationOp, None}
    /\ x.banner = win.banner
    /\ x.rows = win.rows
    /\ win.mutationOp = None => /\ x.card = win.card
                               /\ x.listOp = win.listOp
                               /\ x.listSettled = win.listSettled

(* Signals, launches and the answer about a start end in a refresh.        *)
LEMMA RefreshingStep ==
    ASSUME IInv,
           \/ FirstRefresh
           \/ \E id \in Readers \cup {None} : BindReader(id)
           \/ AgentStartFinished
           \/ RegistryGain
           \/ Relabel
    PROVE  \E x : Refreshes(x)
<1>0. Sound(win) /\ Viewed(win) /\ win \in Window
  BY DEF IInv, TypeOK
<1>1. CASE FirstRefresh \/ RegistryGain \/ Relabel
  <2>1. win' = Refresh(win)
    BY <1>1 DEF FirstRefresh, RegistryGain, Relabel
  <2>2. Refreshes(win)
    BY <1>0, <2>1 DEF Refreshes
  <2> QED
    BY <2>2
<1>2. CASE AgentStartFinished
  <2> DEFINE x == [win EXCEPT !.agentStarting = FALSE]
  <2>1. x \in Window
    BY <1>0 DEF Window
  <2>2. /\ x.letGo = win.letGo /\ x.card = win.card /\ x.listOp = win.listOp
        /\ x.mutationOp = win.mutationOp /\ x.banner = win.banner
        /\ x.listCancelRequested = win.listCancelRequested
        /\ x.mutationCancelRequested = win.mutationCancelRequested
        /\ x.state = win.state /\ x.rows = win.rows /\ x.sheet = win.sheet
        /\ x.listSettled = win.listSettled /\ x.showingResult = win.showingResult
        /\ x.readStopped = win.readStopped
    BY <1>0 DEF Window
  <2>3. win' = Refresh(x)
    BY <1>2 DEF AgentStartFinished
  <2> HIDE DEF x
  <2>4. Sound(x) /\ Viewed(x)
    BY <1>0, <2>1, <2>2, OtherMembers
  <2>5. Refreshes(x)
    BY <2>2, <2>3, <2>4 DEF Refreshes
  <2> QED
    BY <2>5
<1>3. ASSUME NEW id \in Readers \cup {None}, BindReader(id)
      PROVE  \E x : Refreshes(x)
  <2> DEFINE retarget == win.mutationOp # None /\ id # win.resolved
             v == IF retarget THEN ResetListState(DetachMutation(win)) ELSE win
             x == [v EXCEPT !.readerId = id]
  <2>1. win' = Refresh(x)
    BY <1>3 DEF BindReader
  <2>2. /\ Sound(v) /\ (Viewed(v) \/ Blank(v))
        /\ v.mutationOp \in {win.mutationOp, None}
        /\ v.banner = win.banner /\ v.rows = win.rows
        /\ win.mutationOp = None => v = win
    <3>1. CASE retarget
      <4> DEFINE d == DetachMutation(win)
      <4>1. /\ d \in Window /\ d.mutationOp = None /\ ~d.mutationCancelRequested
            /\ \A op \in d.letGo : op.cancelSent
            /\ d.banner = win.banner /\ d.rows = win.rows
        BY <1>0, DetachMutationEffect DEF Sound
      <4>2. v = ResetListState(d)
        BY <3>1
      <4> HIDE DEF d, v
      <4>3. /\ v \in Window /\ Blank(v) /\ v.mutationOp = None
            /\ ~v.listCancelRequested /\ ~v.mutationCancelRequested
            /\ \A op \in v.letGo : op.cancelSent
            /\ v.banner = win.banner /\ v.rows = win.rows
        BY <4>1, <4>2, ResetListStateEffect DEF Blank, SameVerb
      <4> QED
        BY <3>1, <4>3 DEF Sound, Blank
    <3>2. CASE ~retarget
      BY <1>0, <3>2
    <3> QED
      BY <3>1, <3>2
  <2> HIDE DEF v
  <2>3. /\ x \in Window
        /\ x.card = v.card /\ x.listOp = v.listOp /\ x.mutationOp = v.mutationOp
        /\ x.listCancelRequested = v.listCancelRequested
        /\ x.mutationCancelRequested = v.mutationCancelRequested
        /\ x.letGo = v.letGo /\ x.state = v.state /\ x.rows = v.rows
        /\ x.sheet = v.sheet /\ x.banner = v.banner
        /\ x.listSettled = v.listSettled /\ x.showingResult = v.showingResult
        /\ x.readStopped = v.readStopped
    BY <2>2 DEF Sound, Window
  <2> HIDE DEF x
  <2>4. Sound(x)
    BY <2>2, <2>3 DEF Sound
  <2>5. Viewed(x) \/ Blank(x)
    BY <2>2, <2>3 DEF Viewed, Blank
  <2>6. Refreshes(x)
    BY <2>1, <2>2, <2>3, <2>4, <2>5 DEF Refreshes
  <2> QED
    BY <2>6
<1> QED
  BY <1>1, <1>2, <1>3

(* The clicks of the user.                                                 *)
LEMMA ClickSettles ==
    ASSUME IInv, UNCHANGED started, Click
    PROVE  Settled
<1>0. /\ Sound(win) /\ Viewed(win) /\ win \in Window
      /\ UNCHANGED <<registry, started>>
  BY DEF IInv, TypeOK, Click, Cancel, StartVerb, RequestUnblock, ConfirmUnblock,
         DismissSheet, StartAgent
<1>1. ASSUME Cancel PROVE Settled
  <2> DEFINE sent(op) == IF op = None THEN None ELSE [op EXCEPT !.cancelSent = TRUE]
             list == sent(win.listOp)
             verb == sent(win.mutationOp)
             lc == win.listCancelRequested \/ win.listOp # None
             mc == win.mutationCancelRequested \/ win.mutationOp # None
  <2>1. ASSUME NEW op \in Operation \cup {None}
        PROVE  /\ sent(op) \in Operation \cup {None}
               /\ sent(op) = None <=> op = None
               /\ op # None => sent(op).cancelSent /\ sent(op).card = op.card
    <3>1. CASE op = None
      BY <3>1
    <3>2. CASE op # None
      <4>1. [op EXCEPT !.cancelSent = TRUE] \in Operation
        BY <2>1, <3>2 DEF Operation
      <4> QED
        BY <2>1, <3>2, <4>1, ControllerAssumption DEF Operation
    <3> QED
      BY <3>1, <3>2
  <2>2. win.listOp \in Operation \cup {None} /\ win.mutationOp \in Operation \cup {None}
        /\ lc \in BOOLEAN /\ mc \in BOOLEAN
    BY <1>0 DEF Window
  <2>3. win' = [win EXCEPT !.mutationCancelRequested = mc, !.mutationOp = verb,
                           !.listCancelRequested = lc, !.listOp = list]
    BY <1>0, <1>1 DEF Cancel, Window
  <2>4. /\ list \in Operation \cup {None}
        /\ list = None <=> win.listOp = None
        /\ list # None => list.cancelSent /\ list.card = win.listOp.card
        /\ verb \in Operation \cup {None}
        /\ verb = None <=> win.mutationOp = None
        /\ verb # None => verb.cancelSent /\ verb.card = win.mutationOp.card
    BY <2>1, <2>2
  <2>5. /\ lc <=> list # None
        /\ mc <=> verb # None
    BY <1>0, <2>4 DEF Sound
  <2> HIDE DEF list, verb, lc, mc, sent
  <2>6. /\ win' \in Window
        /\ win'.listOp = list /\ win'.mutationOp = verb
        /\ win'.listCancelRequested = lc /\ win'.mutationCancelRequested = mc
        /\ win'.letGo = win.letGo /\ win'.state = win.state
        /\ win'.rows = win.rows /\ win'.sheet = win.sheet
        /\ SameBinding(win, win')
    <3> DEFINE x == [win EXCEPT !.mutationCancelRequested = mc,
                                !.listCancelRequested = lc]
    <3>1. win' \in Window
      <4>1. x \in Window
        BY <1>0, <2>2 DEF Window
      <4>2. win' = [x EXCEPT !.mutationOp = verb, !.listOp = list]
        BY <1>0, <2>3 DEF Window
      <4>3. list \in Operation \cup {None} /\ verb \in Operation \cup {None}
        BY <2>4
      <4> HIDE DEF x
      <4> QED
        BY <4>1, <4>2, <4>3 DEF Window
    <3> QED
      BY <1>0, <2>3, <3>1 DEF Window, SameBinding
  <2>7. Sound(win')
    BY <1>0, <2>4, <2>5, <2>6 DEF Sound, SameBinding
  <2>8. Viewed(win')
    BY <1>0, <1>1, <2>4, <2>6 DEF Cancel, Viewed, SameBinding
  <2> QED
    BY <1>0, <2>6, <2>7, <2>8, QuietHandler
<1>2. ASSUME StartVerb PROVE Settled
  <2>1. win.card # None /\ win.mutationOp = None /\ win.state \in DashboardState
        /\ win' = BeginMutation(win)
    BY <1>2 DEF StartVerb, CanStartMutation, ListTakesInput, DashboardState
  <2> QED
    BY <1>0, <2>1, BeginMutationEffect, QuietHandler
<1>3. ASSUME RequestUnblock PROVE Settled
  <2>1. /\ win.state \in {"Ready", "Result"} /\ win.rows # None
        /\ win.rows.card = win.card /\ win.rows.card \in Cards
    BY <1>0, <1>3 DEF RequestUnblock, ListTakesInput, Viewed, DashboardState,
                      Window, Rows
  <2>2. /\ win' \in Window /\ win'.sheet = win.card
        /\ win'.card = win.card /\ win'.listOp = win.listOp
        /\ win'.mutationOp = win.mutationOp
        /\ win'.listCancelRequested = win.listCancelRequested
        /\ win'.mutationCancelRequested = win.mutationCancelRequested
        /\ win'.letGo = win.letGo /\ win'.state = win.state /\ win'.rows = win.rows
        /\ SameBinding(win, win')
    BY <1>0, <1>3, <2>1 DEF RequestUnblock, Window, SameBinding
  <2>3. Sound(win')
    BY <1>0, <2>2 DEF Sound
  <2>4. Viewed(win')
    BY <1>0, <2>1, <2>2 DEF Viewed, DashboardState
  <2> QED
    BY <1>0, <2>2, <2>3, <2>4, QuietHandler
<1>4. ASSUME ConfirmUnblock PROVE Settled
  <2> DEFINE w == IF CanStartMutation THEN BeginMutation(win) ELSE win
  <2>1. Sound(w) /\ Viewed(w) /\ SameBinding(win, w)
    <3>1. CASE CanStartMutation
      <4>1. win.card # None /\ win.mutationOp = None /\ win.state \in DashboardState
        BY <1>0, <1>4, <3>1 DEF ConfirmUnblock, CanStartMutation, Viewed
      <4> QED
        BY <1>0, <3>1, <4>1, BeginMutationEffect
    <3>2. CASE ~CanStartMutation
      BY <1>0, <3>2 DEF SameBinding
    <3> QED
      BY <3>1, <3>2
  <2>2. win' = [w EXCEPT !.sheet = None]
    BY <1>4 DEF ConfirmUnblock
  <2> HIDE DEF w
  <2>3. /\ win' \in Window /\ win'.sheet = None
        /\ win'.card = w.card /\ win'.listOp = w.listOp
        /\ win'.mutationOp = w.mutationOp
        /\ win'.listCancelRequested = w.listCancelRequested
        /\ win'.mutationCancelRequested = w.mutationCancelRequested
        /\ win'.letGo = w.letGo /\ win'.state = w.state /\ win'.rows = w.rows
        /\ win'.listSettled = w.listSettled
        /\ win'.showingResult = w.showingResult /\ win'.readStopped = w.readStopped
        /\ SameBinding(w, win')
    BY <2>1, <2>2 DEF Sound, Window, SameBinding
  <2>4. Sound(win') /\ Viewed(win')
    BY <2>1, <2>3, OtherMembers
  <2> QED
    BY <1>0, <2>1, <2>3, <2>4, QuietHandler DEF SameBinding
<1>5. ASSUME DismissSheet \/ StartAgent PROVE Settled
  <2>1. /\ win' \in Window /\ win'.sheet \in {None, win.sheet}
        /\ win'.card = win.card /\ win'.listOp = win.listOp
        /\ win'.mutationOp = win.mutationOp
        /\ win'.listCancelRequested = win.listCancelRequested
        /\ win'.mutationCancelRequested = win.mutationCancelRequested
        /\ win'.letGo = win.letGo /\ win'.state = win.state /\ win'.rows = win.rows
        /\ win'.listSettled = win.listSettled
        /\ win'.showingResult = win.showingResult /\ win'.readStopped = win.readStopped
        /\ SameBinding(win, win')
    <3>1. CASE DismissSheet
      BY <1>0, <3>1 DEF DismissSheet, Window, SameBinding
    <3>2. CASE StartAgent
      BY <1>0, <3>2 DEF StartAgent, Window, SameBinding
    <3> QED
      BY <1>5, <3>1, <3>2
  <2>2. Sound(win') /\ Viewed(win')
    BY <1>0, <2>1, OtherMembers
  <2> QED
    BY <1>0, <2>1, <2>2, QuietHandler
<1> QED
  BY <1>1, <1>2, <1>3, <1>4, <1>5 DEF Click

(* The signals of the registry.                                            *)
LEMMA RegistryEventSettles ==
    ASSUME IInv, UNCHANGED started, RegistryEvent
    PROVE  Settled
<1>0. /\ Sound(win) /\ Viewed(win) /\ win \in Window
      /\ RegistryTypeOK /\ started' \in BOOLEAN
  BY DEF IInv, TypeOK
<1>1. ASSUME RegistryGain PROVE Settled
  <2>1. RegistryTypeOK'
    BY <1>0, <1>1, RegistryTypePreserved DEF RegistryGain
  <2>2. win' = Refresh(win)
    BY <1>1 DEF RegistryGain
  <2> QED
    BY <1>0, <2>1, <2>2, RefreshSettles
<1>2. ASSUME RegistryLoss PROVE Settled
  <2>1. RegistryTypeOK'
    BY <1>0, <1>2, RegistryTypePreserved DEF RegistryLoss
  <2>2. PICK lost, code, told : win' = LoseCards(win, lost, code, told)
    BY <1>2 DEF RegistryLoss
  <2> QED
    BY <1>0, <2>1, <2>2, LoseCardsEffect DEF Settled
<1>3. ASSUME CardChanged PROVE Settled
  <2>1. RegistryTypeOK'
    BY <1>0, <1>3, RegistryTypePreserved DEF CardChanged
  <2>2. Sound(win') /\ Viewed(win') /\ SameBinding(win, win')
    BY <1>0, <1>3, ClassifyEffect DEF CardChanged, SameBinding
  <2>3. avail' = avail /\ readers' = readers /\ slot' = slot
    BY <1>3 DEF CardChanged, CapsChange
  <2>4. started /\ avail /\ ~win.deferred => Bound(win, readers, slot)
    BY DEF IInv, BindingFollowsRegistry, Bound
  <2> QED
    BY <1>0, <2>1, <2>2, <2>3, <2>4 DEF Settled, SameBinding, Bound
<1>4. ASSUME Relabel PROVE Settled
  <2>1. RegistryTypeOK'
    BY <1>0, <1>4, RegistryTypePreserved DEF Relabel
  <2>2. win' = Refresh(win)
    BY <1>4 DEF Relabel
  <2> QED
    BY <1>0, <2>1, <2>2, RefreshSettles
<1> QED
  BY <1>1, <1>2, <1>3, <1>4 DEF RegistryEvent

(* A launch with --reader, or a second one.                                *)
LEMMA BindReaderSettles ==
    ASSUME IInv, NEW id \in Readers \cup {None}, BindReader(id)
    PROVE  Settled
<1>1. PICK x : Refreshes(x)
  BY RefreshingStep
<1>2. RegistryTypeOK' /\ started' \in BOOLEAN
  BY RegistryTypePreserved DEF IInv, TypeOK, BindReader
<1> QED
  BY <1>1, <1>2, RefreshSettles DEF Refreshes

(* The other turns of the event loop.                                      *)
LEMMA LoopSettles ==
    ASSUME IInv, UNCHANGED started,
           \/ ListAnswer
           \/ MutationAnswer
           \/ \E op \in win.letGo : LetGoEnds(op)
           \/ AgentStartFinished
    PROVE  Settled
<1>0. /\ Sound(win) /\ Viewed(win) /\ win \in Window
      /\ RegistryTypeOK /\ UNCHANGED <<registry, started>> /\ started' \in BOOLEAN
  BY DEF IInv, TypeOK, ListAnswer, ListFinished, MutationAnswer, MutationFinished,
         LetGoEnds, AgentStartFinished
<1>1. ASSUME ListAnswer PROVE Settled
  BY <1>0, <1>1, OnListFinishedEffect, QuietHandler DEF ListAnswer, ListFinished
<1>2. ASSUME MutationAnswer PROVE Settled
  BY <1>0, <1>2, OnMutationDoneEffect, QuietHandler DEF MutationAnswer, MutationFinished
<1>3. ASSUME NEW op \in win.letGo, LetGoEnds(op) PROVE Settled
  <2>1. /\ win' \in Window /\ win'.letGo \subseteq win.letGo
        /\ win'.card = win.card /\ win'.listOp = win.listOp
        /\ win'.mutationOp = win.mutationOp
        /\ win'.listCancelRequested = win.listCancelRequested
        /\ win'.mutationCancelRequested = win.mutationCancelRequested
        /\ win'.state = win.state /\ win'.rows = win.rows /\ win'.sheet = win.sheet
        /\ win'.listSettled = win.listSettled
        /\ win'.showingResult = win.showingResult /\ win'.readStopped = win.readStopped
        /\ SameBinding(win, win')
    BY <1>0, <1>3 DEF LetGoEnds, Window, SameBinding
  <2>2. Sound(win') /\ Viewed(win')
    BY <1>0, <2>1, OtherMembers
  <2> QED
    BY <1>0, <2>1, <2>2, QuietHandler
<1>4. ASSUME AgentStartFinished PROVE Settled
  <2>1. RegistryTypeOK'
    BY <1>0, RegistryTypePreserved
  <2>2. PICK x : Refreshes(x)
    BY <1>4, RefreshingStep
  <2> QED
    BY <1>0, <2>1, <2>2, RefreshSettles DEF Refreshes
<1> QED
  BY <1>1, <1>2, <1>3, <1>4

(* The window a launch creates is Blank, which satisfies the invariant.    *)
LEMMA InitIInv ==
    Init => IInv
<1> SUFFICES ASSUME Init PROVE IInv
  OBVIOUS
<1>1. win \in Window
  BY DEF Init, Window, State
<1>2. Sound(win) /\ Viewed(win)
  BY <1>1 DEF Init, Sound, Viewed, DashboardState
<1> QED
  BY <1>1, <1>2 DEF Init, IInv, TypeOK, RegistryInit, BindingFollowsRegistry

(* Every handler, click and signal leaves what the invariant needs.        *)
LEMMA NextSettles ==
    ASSUME IInv, [Next]_vars
    PROVE  Settled
<1>1. CASE UNCHANGED vars
  <2>1. SameBinding(win, win') /\ UNCHANGED <<registry, started>>
        /\ Sound(win') /\ Viewed(win')
    BY <1>1 DEF vars, registry, SameBinding, IInv
  <2> QED
    BY <2>1, QuietHandler
<1>2. CASE FirstRefresh
  <2>1. RegistryTypeOK' /\ started' \in BOOLEAN /\ win' = Refresh(win)
        /\ Sound(win) /\ Viewed(win)
    BY <1>2, RegistryTypePreserved DEF FirstRefresh, IInv, TypeOK
  <2> QED
    BY <2>1, RefreshSettles
<1>3. CASE \E id \in Readers \cup {None} : BindReader(id)
  BY <1>3, BindReaderSettles
<1>4. CASE /\ UNCHANGED started
           /\ \/ ListAnswer
              \/ MutationAnswer
              \/ \E op \in win.letGo : LetGoEnds(op)
              \/ AgentStartFinished
  BY <1>4, LoopSettles
<1>5. CASE UNCHANGED started /\ Click
  BY <1>5, ClickSettles
<1>6. CASE UNCHANGED started /\ RegistryEvent
  BY <1>6, RegistryEventSettles
<1> QED
  BY <1>1, <1>2, <1>3, <1>4, <1>5, <1>6 DEF Next

(* The inductive invariant holds in every reachable state.                 *)
THEOREM Inductive == Spec => []IInv
<1>1. Init => IInv
  BY InitIInv
<1>2. IInv /\ [Next]_vars => IInv'
  BY NextSettles, SettledIsIInv
<1> QED
  BY <1>1, <1>2, PTL DEF Spec

-----------------------------------------------------------------------------
(* What follows from the invariant.                                        *)

(* The members of the window have their types in every reachable state.    *)
THEOREM TypeCorrect == Spec => []TypeOK
<1>1. IInv => TypeOK
  BY DEF IInv
<1> QED
  BY <1>1, Inductive, PTL

(* At most one operation of the window is live, and it runs on the card    *)
(* the window shows: handlers never start a verb beside a listing.         *)
THEOREM OneOperation == Spec => []OneOperationOnTheBoundCard
<1>1. IInv => OneOperationOnTheBoundCard
  BY DEF IInv, Sound, OneOperationOnTheBoundCard
<1> QED
  BY <1>1, Inductive, PTL

(* The cancel-request flags never outlive their operation, whichever of    *)
(* the nine paths ended or dropped it.                                     *)
THEOREM CancelFlags == Spec => []CancelFlagsMatchOperations
<1>1. IInv => CancelFlagsMatchOperations
  BY DEF IInv, Sound, CancelFlagsMatchOperations
<1> QED
  BY <1>1, Inductive, PTL

(* A spinner or a scrim always has the operation its Cancel would stop.    *)
THEOREM BusyView == Spec => []BusyViewHasOperation
<1>1. IInv => BusyViewHasOperation
  BY DEF IInv, Viewed, BusyViewHasOperation
<1> QED
  BY <1>1, Inductive, PTL

(* The dashboard and its unblock sheet are about the bound card.           *)
THEOREM DashboardOfBoundCard == Spec => []DashboardShowsBoundCard
<1>1. IInv => DashboardShowsBoundCard
  BY DEF IInv, Viewed, DashboardShowsBoundCard
<1> QED
  BY <1>1, Inductive, PTL

(* Every operation the window let go of was sent its Cancel.               *)
THEOREM NoPromptLeft == Spec => []NoPromptLeftBehind
<1>1. IInv => NoPromptLeftBehind
  BY DEF IInv, Sound, NoPromptLeftBehind
<1> QED
  BY <1>1, Inductive, PTL

(* The window manages the card its binding resolves to in the registry,    *)
(* unless a live verb made it defer a signal.                              *)
THEOREM BindingFollows == Spec => []BindingFollowsRegistry
<1>1. IInv => BindingFollowsRegistry
  BY DEF IInv
<1> QED
  BY <1>1, Inductive, PTL

(* Ready rows are those of a listing no verb has voided since.             *)
THEOREM ReadyRows == Spec => []ReadyRowsAreFresh
<1>1. IInv => ReadyRowsAreFresh
  BY DEF IInv, Viewed, ReadyRowsAreFresh
<1> QED
  BY <1>1, Inductive, PTL

-----------------------------------------------------------------------------
(* What the steps may not do.                                              *)

(* The registry stays consistent: the library's events keep it so, and the *)
(* window's handlers do not touch it.                                      *)
LEMMA ConsistentInvariant ==
    Spec => []RegistryConsistent
<1>1. Init => RegistryConsistent
  BY DEF Init, RegistryInit
<1>2. ASSUME TypeOK, RegistryConsistent, [Next]_vars
      PROVE  RegistryConsistent'
  <2>1. RegistryTypeOK
    BY <1>2 DEF TypeOK
  <2>2. CASE UNCHANGED registry
    BY <1>2, <2>1, <2>2, RegistryConsistentPreserved
  <2>3. CASE UNCHANGED vars
    BY <2>2, <2>3 DEF vars, registry
  <2>4. CASE RegistryEvent
    BY <1>2, <2>1, <2>4, RegistryConsistentPreserved
       DEF RegistryEvent, RegistryGain, RegistryLoss, CardChanged, Relabel
  <2>5. CASE Click
    BY <2>2, <2>5 DEF Click, Cancel, StartVerb, RequestUnblock, ConfirmUnblock,
                       DismissSheet, StartAgent
  <2> QED
    BY <1>2, <2>2, <2>3, <2>4, <2>5
       DEF Next, FirstRefresh, BindReader, ListAnswer, ListFinished, MutationAnswer,
           MutationFinished, LetGoEnds, AgentStartFinished
<1>3. TypeOK /\ RegistryConsistent /\ [Next]_vars => RegistryConsistent'
  BY <1>2
<1> QED
  BY <1>1, <1>3, TypeCorrect, PTL DEF Spec

(* A refresh with a live verb and an agent only notes that it deferred.    *)
LEMMA DeferredRefresh ==
    ASSUME NEW w \in Window, w.mutationOp # None, avail'
    PROVE  LET u == Refresh(w) IN
           /\ u.mutationOp = w.mutationOp
           /\ u.card = w.card
           /\ u.resolved = w.resolved
<1>1. Refresh(w) = [w EXCEPT !.deferred = TRUE]
  BY DEF Refresh
<1> QED
  BY <1>1 DEF Window

(* While the card of a running verb stays, no signal touches the verb or   *)
(* the binding: refresh stops at the live verb, a lost card that is not    *)
(* the bound one sweeps nothing, and classify re-lists without re-binding. *)
THEOREM NeverRetargets == Spec => RegistryNeverRetargetsVerb
<1>1. ASSUME IInv, RegistryConsistent, RegistryConsistent', IInv', RegistryEvent,
             win.mutationOp # None, CardPresent(slot', win.mutationOp.card)
      PROVE  /\ win'.mutationOp = win.mutationOp
             /\ win'.card = win.card
             /\ win'.resolved = win.resolved
  <2>1. /\ Sound(win) /\ Viewed(win) /\ win \in Window
        /\ win.mutationOp.card = win.card /\ win.card \in Cards /\ win.card # None
        /\ win.listOp = None
    BY <1>1, RegistryAssumption DEF IInv, Sound, Window, Operation
  <2>2. PICK q \in Readers : slot'[q] = win.card
    BY <1>1, <2>1 DEF CardPresent
  <2>3. avail'
    BY <1>1, <2>1, <2>2 DEF RegistryConsistent, IInv, TypeOK, RegistryTypeOK
  <2>4. CASE win' = Refresh(win)
    BY <1>1, <2>1, <2>3, <2>4, DeferredRefresh
  <2>5. CASE CardChanged
    BY <2>1, <2>5, ClassifyEffect DEF CardChanged, SameBinding, SameVerb
  <2>6. CASE RegistryLoss
    <3>1. PICK lost, code, told :
             win.card \notin lost /\ win' = LoseCards(win, lost, code, told)
      <4>1. ~AgentVanishes
        BY <2>3 DEF AgentVanishes
      <4>2. PICK told \in BOOLEAN, r \in Readers :
               /\ ReaderLeaves(r) \/ CardLeaves(r)
               /\ win' = LoseCards(win, {slot[r]}, "CardRemoved", told)
        BY <2>6, <4>1 DEF RegistryLoss
      <4>3. slot' = [slot EXCEPT ![r] = None]
        BY <4>2 DEF ReaderLeaves, CardLeaves
      <4>4. q # r /\ slot[q] = win.card
        BY <1>1, <2>1, <2>2, <4>3 DEF IInv, TypeOK, RegistryTypeOK
      <4>5. slot[r] # win.card
        BY <1>1, <2>1, <4>4 DEF RegistryConsistent
      <4> QED
        BY <4>2, <4>5
    <3> DEFINE d == Destroy(win, lost)
    <3>2. LoseCards(win, lost, code, told) = Refresh(d)
      BY <2>1, <3>1 DEF LoseCards, SweepMutation, SweepList
    <3>3. Sound(d) /\ SameBinding(win, d) /\ SameVerb(win, d)
      BY <2>1, <3>1, DestroyEffect
    <3> HIDE DEF d
    <3>4. LET u == Refresh(d) IN
          u.mutationOp = d.mutationOp /\ u.card = d.card /\ u.resolved = d.resolved
      BY <1>1, <2>3, <3>3, DeferredRefresh DEF Sound, SameVerb
    <3> QED
      BY <3>1, <3>2, <3>3, <3>4 DEF SameBinding, SameVerb
  <2> QED
    BY <1>1, <2>4, <2>5, <2>6 DEF RegistryEvent, RegistryGain, Relabel
<1>2. IInv /\ IInv' /\ RegistryConsistent /\ RegistryConsistent' /\ [Next]_vars
        => [VerbUntouched]_vars
  BY <1>1 DEF VerbUntouched
<1> QED
  BY <1>2, Inductive, ConsistentInvariant, PTL DEF Spec, RegistryNeverRetargetsVerb

-----------------------------------------------------------------------------
(* When a listing starts.                                                  *)

(* A launch, before the loop runs or after, re-binds at once.              *)
LEMMA LaunchBinds ==
    ASSUME IInv, NEW id \in Readers \cup {None}, BindReader(id)
    PROVE  avail' /\ ~win'.deferred => Bound(win', readers', slot')
<1>1. PICK x : Refreshes(x)
  BY RefreshingStep
<1>2. RegistryTypeOK'
  BY RegistryTypePreserved DEF IInv, TypeOK, BindReader
<1> QED
  BY <1>1, <1>2, RefreshEffect DEF Refreshes

(* Every listing that starts runs on the card of the explicit reader when  *)
(* the agent lists that reader: whatever step started it has just bound    *)
(* the window anew, or left alone a binding that followed the registry.    *)
THEOREM ExplicitReaderFirst == Spec => ExplicitReaderIsListedFirst
<1>1. ASSUME IInv, RegistryConsistent', [Next]_vars, Lists, ~win.deferred,
             win'.readerId \in readers'
      PROVE  slot'[win'.readerId] = win'.listOp.card
  <2>1. Settled
    BY <1>1, NextSettles
  <2>2. /\ win'.listOp # None /\ win'.listOp.card = win'.card
        /\ win'.mutationOp = None /\ ~win'.deferred
    BY <1>1, <2>1 DEF Lists, Settled, Sound
  <2>3. avail'
    BY <1>1, <2>1 DEF RegistryConsistent, Settled, RegistryTypeOK
  <2>4. Bound(win', readers', slot')
    <3>1. CASE started'
      BY <2>1, <2>2, <2>3, <3>1 DEF Settled
    <3>2. CASE \E id \in Readers \cup {None} : BindReader(id)
      BY <1>1, <2>2, <2>3, <3>2, LaunchBinds
    <3>3. CASE UNCHANGED vars
      BY <1>1, <3>3 DEF Lists, vars
    <3>4. started' \/ (\E id \in Readers \cup {None} : BindReader(id)) \/ UNCHANGED vars
      BY <1>1 DEF Next, FirstRefresh
    <3> QED
      BY <3>1, <3>2, <3>3, <3>4
  <2>5. win'.readerId # None /\ win'.readerId \in Readers
    BY <1>1, <2>1, RegistryAssumption DEF Settled, RegistryTypeOK
  <2>6. TargetReader(win'.readerId, readers', slot') = win'.readerId
    BY <1>1, <2>5 DEF TargetReader
  <2> QED
    BY <2>2, <2>4, <2>5, <2>6 DEF Bound
<1>2. IInv /\ RegistryConsistent' /\ [Next]_vars
        => [ Lists /\ ~win.deferred /\ win'.readerId \in readers'
               => slot'[win'.readerId] = win'.listOp.card ]_vars
  BY <1>1
<1> QED
  BY <1>2, Inductive, ConsistentInvariant, PTL DEF Spec, ExplicitReaderIsListedFirst

(* A loss that leaves the window on its card, with no listing and no verb  *)
(* after it, did not touch that card: it lists nothing that is settled and *)
(* makes no rows stale.                                                    *)
LEMMA LossKeepsTheCard ==
    ASSUME IInv, RegistryConsistent, Settled, RegistryLoss,
           win.listOp = None, win'.mutationOp = None,
           win'.card = win.card, win.card # None
    PROVE  /\ win'.rows \in {win.rows, None}
           /\ win.mutationOp = None /\ win.listSettled => win'.listOp = None
<1>0. /\ Sound(win) /\ Viewed(win) /\ win.card \in Cards
      /\ RegistryTypeOK /\ RegistryTypeOK'
  BY DEF IInv, TypeOK, Sound, Window, Settled
<1>1. CASE AgentVanishes
  <2>1. PICK lost, code, told : win' = LoseCards(win, lost, code, told)
    BY DEF RegistryLoss
  <2>2. win'.card = None
    BY <1>0, <1>1, <2>1, LoseCardsEffect DEF AgentVanishes
  <2> QED
    BY <2>2
<1>2. ASSUME NEW told, NEW r \in Readers, ReaderLeaves(r) \/ CardLeaves(r),
             win' = LoseCards(win, {slot[r]}, "CardRemoved", told)
      PROVE  /\ win'.rows \in {win.rows, None}
             /\ win.mutationOp = None /\ win.listSettled => win'.listOp = None
  <2>1. CASE win.card = slot[r]
    <3>1. slot' = [slot EXCEPT ![r] = None]
      BY <1>2 DEF ReaderLeaves, CardLeaves
    <3>2. ~CardPresent(slot', win.card)
      BY <1>0, <2>1, <3>1, PulledIsGone
    <3>3. win'.card = None \/ CardPresent(slot', win'.card)
      <4>1. avail' => Bound(win', readers', slot')
        BY <1>0, <1>2, LoseCardsEffect
      <4>2. ~avail' => win'.card = None
        BY <1>0, <1>2, LoseCardsEffect
      <4>3. win'.resolved \in Readers \cup {None}
        BY DEF Settled, Sound, Window
      <4> QED
        BY <4>1, <4>2, <4>3 DEF Bound, CardPresent
    <3> QED
      BY <3>2, <3>3
  <2>2. CASE win.card # slot[r]
    BY <1>0, <1>2, <2>2, LoseOtherCards
  <2> QED
    BY <2>1, <2>2
<1> QED
  BY <1>1, <1>2 DEF RegistryLoss

(* A read the user cancelled is settled, with nothing under way, and every *)
(* step that stays on its card finds it so and lists nothing.              *)
THEOREM CancelledReadStays == Spec => CancelledReadStaysCancelled
<1>1. ASSUME IInv, RegistryConsistent, [Next]_vars,
             win.state = "ReadFailed", win.readStopped, Lists, win'.card = win.card
      PROVE  FALSE
  <2>1. Settled
    BY <1>1, NextSettles
  <2>2. /\ Sound(win) /\ Viewed(win) /\ win \in Window
        /\ win.listOp = None /\ win.mutationOp = None /\ win.listSettled
        /\ win.sheet = None
    BY <1>1 DEF IInv, TypeOK, Viewed, DashboardState
  <2>3. win'.listOp # None /\ win'.mutationOp = None /\ win.card # None
    BY <1>1, <2>1, RegistryAssumption DEF Lists, Settled, Sound, Window, Operation
  <2>4. CASE UNCHANGED vars
    BY <2>2, <2>3, <2>4 DEF vars
  <2>5. CASE \/ FirstRefresh \/ RegistryGain \/ Relabel \/ AgentStartFinished
             \/ \E id \in Readers \cup {None} : BindReader(id)
    <3>1. PICK x : Refreshes(x)
      BY <1>1, <2>5, RefreshingStep
    <3>2. RegistryTypeOK'
      BY <2>1 DEF Settled
    <3> QED
      BY <1>1, <2>2, <2>3, <3>1, <3>2, RefreshEffect DEF Refreshes
  <2>6. CASE ListAnswer \/ MutationAnswer
    BY <2>2, <2>6 DEF ListAnswer, ListFinished, MutationAnswer, MutationFinished
  <2>7. CASE \E op \in win.letGo : LetGoEnds(op)
    BY <2>2, <2>3, <2>7 DEF LetGoEnds, Window
  <2>8. CASE Click
    <3>1. StartAgent
      BY <1>1, <2>2, <2>8 DEF Click, Cancel, StartVerb, RequestUnblock, ConfirmUnblock,
                              DismissSheet, ListTakesInput
    <3> QED
      BY <2>2, <2>3, <3>1 DEF StartAgent, Window
  <2>9. CASE CardChanged
    BY <2>2, <2>3, <2>9, ClassifyEffect DEF CardChanged
  <2>10. CASE RegistryLoss
    BY <1>1, <2>1, <2>2, <2>3, <2>10, LossKeepsTheCard
  <2> QED
    BY <1>1, <2>4, <2>5, <2>6, <2>7, <2>8, <2>9, <2>10 DEF Next, RegistryEvent
<1>2. IInv /\ RegistryConsistent /\ [Next]_vars
        => [ win.state = "ReadFailed" /\ win.readStopped /\ Lists
               => win'.card # win.card ]_vars
  BY <1>1
<1> QED
  BY <1>2, Inductive, ConsistentInvariant, PTL DEF Spec, CancelledReadStaysCancelled

(* Only the terminal of a verb makes rows stale, and its handler starts    *)
(* the re-list in the same step, unless it reports the card gone; whatever *)
(* else drops a verb leaves the rows as they were, or takes them away.     *)
THEOREM RelistFollows == Spec => RelistFollowsVerb
<1>1. ASSUME IInv, RegistryConsistent, [Next]_vars,
             win.mutationOp # None, win'.mutationOp = None, win'.card = win.card,
             Voided(win, win')
      PROVE  Attended(win')
  <2>1. Settled
    BY <1>1, NextSettles
  <2>2. /\ Sound(win) /\ Viewed(win) /\ win \in Window
        /\ win.listOp = None /\ win.card # None
    BY <1>1, RegistryAssumption DEF IInv, TypeOK, Sound, Window, Operation
  <2>3. win'.rows \notin {win.rows, None}
    BY <1>1 DEF Voided
  <2>4. CASE UNCHANGED vars
    BY <2>3, <2>4 DEF vars
  <2>5. CASE \/ FirstRefresh \/ RegistryGain \/ Relabel \/ AgentStartFinished
             \/ \E id \in Readers \cup {None} : BindReader(id)
    <3>1. PICK x : Refreshes(x)
      BY <1>1, <2>5, RefreshingStep
    <3>2. RegistryTypeOK'
      BY <2>1 DEF Settled
    <3> QED
      BY <2>3, <3>1, <3>2, RefreshEffect DEF Refreshes
  <2>6. CASE ListAnswer
    BY <2>2, <2>6 DEF ListAnswer, ListFinished
  <2>7. CASE MutationAnswer
    BY <1>1, <2>2, <2>7, OnMutationDoneEffect DEF MutationAnswer, MutationFinished
  <2>8. CASE \E op \in win.letGo : LetGoEnds(op)
    BY <2>2, <2>3, <2>8 DEF LetGoEnds, Window
  <2>9. CASE Click
    BY <1>1, <2>2, <2>3, <2>9
       DEF Click, Cancel, StartVerb, RequestUnblock, ConfirmUnblock, DismissSheet,
           StartAgent, CanStartMutation, Window
  <2>10. CASE CardChanged
    BY <2>2, <2>3, <2>10, ClassifyEffect DEF CardChanged
  <2>11. CASE RegistryLoss
    BY <1>1, <2>1, <2>2, <2>3, <2>11, LossKeepsTheCard
  <2> QED
    BY <1>1, <2>4, <2>5, <2>6, <2>7, <2>8, <2>9, <2>10, <2>11 DEF Next, RegistryEvent
<1>2. IInv /\ RegistryConsistent /\ [Next]_vars
        => [ win.mutationOp # None /\ win'.mutationOp = None /\ win'.card = win.card
             /\ win'.rows # None /\ win.rows.fresh /\ ~win'.rows.fresh
               => win'.listOp # None \/ win'.removalNotice ]_vars
  BY <1>1 DEF Voided, Attended
<1> QED
  BY <1>2, Inductive, ConsistentInvariant, PTL DEF Spec, RelistFollowsVerb

-----------------------------------------------------------------------------
(* The window implements VerbSession.                                      *)

(* A handler that keeps, drops or ends the verb is a step of the session.  *)
LEMMA KeptDroppedOrEnded ==
    ASSUME Sound(win), Sound(win'), Dropped(win, win') \/ Ended(win, win')
    PROVE  [Session!Next]_Session!sessionVars
<1>1. win.banner \in Session!Verdict /\ win'.banner \in Session!Verdict
  BY DEF Sound, Window, Session!Verdict
<1>2. win.mutationOp # None => win.mutationOp.card \in Cards /\ win.mutationOp.card # None
  BY RegistryAssumption DEF Sound, Window, Operation
<1>3. CASE win'.mutationOp = win.mutationOp /\ win'.banner = win.banner
  BY <1>3 DEF Session!sessionVars
<1>4. CASE win.mutationOp = None /\ win'.mutationOp = None /\ win'.banner = win.banner
  BY <1>4 DEF Session!sessionVars
<1>5. CASE win.mutationOp # None /\ win'.mutationOp = None /\ win'.banner = win.banner
  <2>1. Session!Drop
    BY <1>2, <1>5 DEF Session!Drop
  <2> QED
    BY <2>1 DEF Session!Next
<1>6. CASE Ended(win, win')
  <2>1. Session!End(win'.banner)
    BY <1>2, <1>6 DEF Session!End, Ended, Sound
  <2> QED
    BY <1>1, <2>1 DEF Session!Next
<1> QED
  BY <1>3, <1>4, <1>5, <1>6 DEF Dropped

(* Starting a verb begins a session on the bound card.                     *)
LEMMA VerbBegins ==
    ASSUME Sound(win), win.mutationOp = None, win.card # None,
           win'.mutationOp = [card |-> win.card, cancelSent |-> FALSE],
           win'.banner = win.banner
    PROVE  Session!Next
<1>1. win.card \in Cards
  BY DEF Sound, Window
<1>2. win'.mutationOp # None
  <2>1. win'.mutationOp \in Operation
    BY <1>1 DEF Operation
  <2> QED
    BY <2>1, ControllerAssumption
<1>3. Session!Begin(win.card)
  BY <1>2 DEF Session!Begin
<1> QED
  BY <1>1, <1>3 DEF Session!Next

(* Every step of the window is a step of the session or leaves it alone.   *)
LEMMA SessionStep ==
    ASSUME IInv, IInv', [Next]_vars
    PROVE  [Session!Next]_Session!sessionVars
<1>0. /\ Sound(win) /\ Viewed(win) /\ win \in Window
      /\ Sound(win') /\ Viewed(win') /\ RegistryTypeOK'
  BY DEF IInv, TypeOK
<1>1. CASE UNCHANGED win
  BY <1>1 DEF Session!sessionVars
<1>3. CASE \/ FirstRefresh \/ RegistryGain \/ Relabel \/ AgentStartFinished
           \/ \E id \in Readers \cup {None} : BindReader(id)
  <2>1. PICK x : Refreshes(x)
    BY <1>3, RefreshingStep
  <2>2. Dropped(win, win')
    BY <1>0, <2>1, RefreshEffect DEF Dropped, Refreshes
  <2> QED
    BY <1>0, <2>2, KeptDroppedOrEnded
<1>5. CASE ListAnswer
  <2>1. SameVerb(win, win')
    BY <1>0, <1>5, OnListFinishedEffect DEF ListAnswer, ListFinished
  <2> QED
    BY <1>0, <2>1, KeptDroppedOrEnded DEF SameVerb, Dropped
<1>6. CASE MutationAnswer
  <2>1. Ended(win, win')
    BY <1>0, <1>6, OnMutationDoneEffect DEF MutationAnswer, MutationFinished, Ended
  <2> QED
    BY <1>0, <2>1, KeptDroppedOrEnded
<1>7. CASE \/ \E op \in win.letGo : LetGoEnds(op)
           \/ RequestUnblock \/ DismissSheet \/ StartAgent
  <2>1. SameVerb(win, win')
    BY <1>0, <1>7 DEF LetGoEnds, RequestUnblock, DismissSheet, StartAgent, Window, SameVerb
  <2> QED
    BY <1>0, <2>1, KeptDroppedOrEnded DEF SameVerb, Dropped
<1>9. CASE StartVerb
  <2>1. /\ win.card # None /\ win.mutationOp = None /\ win.state \in DashboardState
        /\ win' = BeginMutation(win)
    BY <1>9 DEF StartVerb, CanStartMutation, ListTakesInput, DashboardState
  <2> QED
    BY <1>0, <2>1, BeginMutationEffect, VerbBegins
<1>10. CASE ConfirmUnblock
  <2>1. CASE CanStartMutation
    <3> DEFINE w == BeginMutation(win)
    <3>1. win.card # None /\ win.mutationOp = None /\ win.state \in DashboardState
      BY <1>0, <1>10, <2>1 DEF ConfirmUnblock, CanStartMutation, Viewed
    <3>2. win' = [w EXCEPT !.sheet = None]
      BY <1>10, <2>1 DEF ConfirmUnblock
    <3>3. /\ w \in Window
          /\ w.mutationOp = [card |-> win.card, cancelSent |-> FALSE]
          /\ w.banner = win.banner
      BY <1>0, <3>1, BeginMutationEffect DEF Sound
    <3> HIDE DEF w
    <3>4. win'.mutationOp = w.mutationOp /\ win'.banner = w.banner
      BY <3>2, <3>3 DEF Window
    <3> QED
      BY <1>0, <3>1, <3>3, <3>4, VerbBegins
  <2>2. CASE ~CanStartMutation
    <3>1. SameVerb(win, win')
      BY <1>0, <1>10, <2>2 DEF ConfirmUnblock, Window, SameVerb
    <3> QED
      BY <1>0, <3>1, KeptDroppedOrEnded DEF SameVerb, Dropped
  <2> QED
    BY <2>1, <2>2
<1>11. CASE Cancel
  <2>1. CASE win.mutationOp = None
    <3>1. win'.mutationOp = None /\ win'.banner = win.banner
      BY <1>0, <1>11, <2>1 DEF Cancel, Window
    <3> QED
      BY <1>0, <2>1, <3>1, KeptDroppedOrEnded DEF Dropped
  <2>2. CASE win.mutationOp # None
    <3> DEFINE op == [win.mutationOp EXCEPT !.cancelSent = TRUE]
    <3>1. /\ op \in Operation /\ op # None /\ op.cancelSent
          /\ op.card = win.mutationOp.card
          /\ win.mutationOp.card \in Cards /\ win.mutationOp.card # None
      <4>1. win.mutationOp \in Operation
        BY <1>0, <2>2 DEF Window
      <4> QED
        BY <4>1, ControllerAssumption, RegistryAssumption DEF Operation
    <3>2. win'.mutationOp = op /\ win'.banner = win.banner
      BY <1>0, <1>11, <2>2 DEF Cancel, Window
    <3> HIDE DEF op
    <3>3. Session!AskCancel
      BY <2>2, <3>1, <3>2 DEF Session!AskCancel
    <3> QED
      BY <3>3 DEF Session!Next
  <2> QED
    BY <2>1, <2>2
<1>12. CASE RegistryLoss
  <2>1. PICK lost, code, told : win' = LoseCards(win, lost, code, told)
    BY <1>12 DEF RegistryLoss
  <2>2. Dropped(win, win') \/ Ended(win, win')
    BY <1>0, <2>1, LoseCardsEffect
  <2> QED
    BY <1>0, <2>2, KeptDroppedOrEnded
<1>13. CASE CardChanged
  <2>1. SameVerb(win, win')
    BY <1>0, <1>13, ClassifyEffect DEF CardChanged, SameVerb
  <2> QED
    BY <1>0, <2>1, KeptDroppedOrEnded DEF SameVerb, Dropped
<1> QED
  BY <1>1, <1>3, <1>5, <1>6, <1>7, <1>9, <1>10, <1>11, <1>12, <1>13
     DEF Next, Click, RegistryEvent, vars

(* The window implements the abstract session: one verb at a time on one   *)
(* card, one verdict per verb, and none in red after a cancel.             *)
THEOREM Refinement == Spec => ImplementsVerbSession
<1>1. Init => Session!Init
  BY DEF Init, Session!Init
<1>2. IInv /\ IInv' /\ [Next]_vars => [Session!Next]_Session!sessionVars
  BY SessionStep
<1> QED
  BY <1>1, <1>2, Inductive, PTL DEF Spec, ImplementsVerbSession, Session!Spec
=============================================================================
