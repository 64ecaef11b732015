-------------------------- MODULE SigningFlowProofs --------------------------
(***************************************************************************)
(* Theorems about shares and their jobs, for every set of jobs, readers,   *)
(* cards and names, and every bound on the ids an agent mints.             *)
(*                                                                         *)
(* A share's members are one record, and what a slot or a chooser makes of *)
(* it is an operator: a lemma for each says that it leaves a Sound record, *)
(* and that the record moved as SignPromise allows (Kept, or Moved).  What *)
(* ties a share to the registry is said apart: its pointer is to a card    *)
(* that is present (Live), and the rows of an open card dialog name, until *)
(* the agent restarts, cards by ids that no other card can bear (Named).   *)
(***************************************************************************)
EXTENDS SigningFlow, AgentRegistryProofs

Running == {"certificates", "picking", "queued", "signing"}

(* What a share's phase says of its other members.                         *)
Sound(s) ==
    /\ s \in Share
    /\ s.phase \in {"idle", "choosing"} =>
          /\ s.card = None /\ s.op = None /\ s.started = None
          /\ s.outcome = "none" /\ ~s.wrote
    /\ s.phase \in Running =>
          /\ s.started # None /\ s.card \in {None, s.started} /\ s.op \in {None, s.card}
          /\ s.outcome = "none" /\ ~s.wrote
    /\ s.phase = "ended" =>
          /\ s.card = None /\ s.op = None
          /\ s.outcome # "none" /\ (s.wrote <=> s.outcome = "succeeded")

(* The job's pointer is to a card in the registry s, or null.              *)
Live(u, s) == u.card # None => CardPresent(s, u.card)

(* Ids k of the cards in s: minted below m, and no two alike.              *)
Minted(k, m, s) ==
    /\ \A c \in Cards : CardPresent(s, c) => k[c] \in Ids /\ k[c] < m
    /\ \A c, d \in Cards : CardPresent(s, c) /\ CardPresent(s, d) /\ k[c] = k[d] => c = d

(* No card but the row's own bears its id, now or after an insertion.      *)
Named(u, k, m, s) ==
    u.phase = "choosing" /\ ~u.restarted =>
        \A row \in u.choices :
            /\ row.id < m
            /\ \A c \in Cards : CardPresent(s, c) /\ k[c] = row.id => c = row.card

IInv ==
    /\ TypeOK
    /\ RegistryConsistent
    /\ Minted(ids, minted, slot)
    /\ \A j \in Jobs : /\ Sound(share[j])
                       /\ Live(share[j], slot)
                       /\ Named(share[j], ids, minted, slot)

(* One share from s to t, as SignPromise sees it.                          *)
Kept(s, t) == Stage(t) = Stage(s) /\ t.started = s.started /\ t.wrote = s.wrote

Moved(s, t) ==
    \/ /\ Stage(s) = "asked"
       /\ Stage(t) \in {"failed", "cancelled"}
       /\ Stage(t) = "cancelled" => t.started = None
       /\ t.started \in Cards \cup {None}
       /\ ~t.wrote
    \/ /\ Stage(s) = "asked"
       /\ Stage(t) = "running"
       /\ t.started \in Cards
       /\ ~t.wrote
    \/ /\ Stage(s) = "running"
       /\ Stage(t) \in {"succeeded", "failed"}
       /\ t.wrote <=> Stage(t) = "succeeded"
       /\ t.started = s.started

-----------------------------------------------------------------------------
(* The operators of a share.                                               *)

(* A share that has not started has nothing on a card.                     *)
LEMMA NotSharedSound == NotShared \in Share /\ Sound(NotShared)
  BY DEF NotShared, Sound, Share, Phase, Outcome, Running

(* A report ends the share, on no card, with the outcome it was given.     *)
LEMMA ReportEffect ==
    ASSUME NEW s, s.started \in Cards \cup {None}, s.wrote \in BOOLEAN,
           NEW outcome \in Outcome \ {"none"}, s.wrote <=> outcome = "succeeded"
    PROVE  LET t == Report(s, outcome) IN
           /\ Sound(t)
           /\ t.phase = "ended" /\ t.card = None /\ t.op = None
           /\ t.started = s.started /\ t.wrote = s.wrote
           /\ t.outcome = outcome /\ Stage(t) = outcome
<1> DEFINE t == Report(s, outcome)
<1>1. /\ NotShared \in Share /\ NotShared.card = None /\ NotShared.op = None
      /\ NotShared.phase = "idle" /\ NotShared.started = None
  BY NotSharedSound DEF NotShared
<1>2. t \in Share
  BY <1>1 DEF Report, Share, Phase
<1>3. /\ t.phase = "ended" /\ t.card = None /\ t.op = None
      /\ t.started = s.started /\ t.wrote = s.wrote /\ t.outcome = outcome
  BY <1>1 DEF Report, Share
<1> HIDE DEF t
<1>4. Stage(t) = outcome
  BY <1>3 DEF Stage
<1>5. Sound(t)
  BY <1>2, <1>3 DEF Sound, Running
<1> QED
  BY <1>3, <1>4, <1>5 DEF t

(* A job starts on the card it is given, or fails at once.                 *)
LEMMA StartJobEffect ==
    ASSUME NEW s, s.picked \in Cards \cup {None}, NEW c \in Cards
    PROVE  LET t == StartJob(s, c) IN
           /\ Sound(t)
           /\ t.started = c /\ ~t.wrote
           /\ t.phase \in {"certificates", "ended"}
           /\ t.phase = "certificates" => /\ Pki \in caps[c] /\ t.card = c /\ t.picked = s.picked
           /\ t.phase = "ended" => t.card = None
           /\ Stage(t) \in {"failed", "running"}
<1> DEFINE u == [NotShared EXCEPT !.card = c, !.started = c, !.picked = s.picked]
           t == StartJob(s, c)
<1>1. /\ u \in Share /\ u.card = c /\ u.started = c /\ u.picked = s.picked
      /\ ~u.wrote /\ u.outcome = "none"
  <2>1. NotShared \in Share /\ NotShared.wrote = FALSE /\ NotShared.outcome = "none"
    BY NotSharedSound DEF NotShared
  <2> QED
    BY <2>1 DEF Share
<1>2. t = IF ~HasCapability(caps, c, Pki) THEN Report(u, "failed")
          ELSE [u EXCEPT !.phase = "certificates", !.op = c]
  BY DEF StartJob
<1> HIDE DEF u
<1>3. CASE ~HasCapability(caps, c, Pki)
  <2>1. t = Report(u, "failed")
    BY <1>2, <1>3
  <2> HIDE DEF t
  <2>2. /\ Sound(t) /\ t.phase = "ended" /\ t.card = None
        /\ t.started = u.started /\ t.wrote = u.wrote /\ Stage(t) = "failed"
    BY <1>1, <2>1, ReportEffect DEF Outcome, Share
  <2> QED
    BY <1>1, <2>2 DEF t
<1>4. CASE HasCapability(caps, c, Pki)
  <2>1. t = [u EXCEPT !.phase = "certificates", !.op = c]
    BY <1>2, <1>4
  <2> HIDE DEF t
  <2>2. /\ t \in Share
        /\ t.phase = "certificates" /\ t.card = c /\ t.started = c /\ t.op = c
        /\ t.outcome = "none" /\ ~t.wrote /\ t.picked = s.picked
    BY <1>1, <2>1 DEF Share, Phase
  <2>3. c # None
    BY RegistryAssumption
  <2>4. Sound(t) /\ Stage(t) = "running"
    BY <2>2, <2>3 DEF Sound, Running, Stage
  <2> QED
    BY <1>4, <2>2, <2>4 DEF HasCapability, t
<1> QED
  BY <1>3, <1>4

(* A failure of a share ends it as SignPromise allows.                     *)
LEMMA FailEffect ==
    ASSUME NEW s, Sound(s), s.phase \in Running
    PROVE  LET t == Report(s, "failed") IN
           Sound(t) /\ t.phase = "ended" /\ t.card = None /\ Moved(s, t)
<1> DEFINE t == Report(s, "failed")
<1>1. /\ s.started \in Cards \cup {None} /\ s.started # None
      /\ s.outcome = "none" /\ ~s.wrote /\ s.wrote \in BOOLEAN
  BY DEF Sound, Share
<1>2. /\ Sound(t) /\ t.phase = "ended" /\ t.card = None
      /\ t.started = s.started /\ t.wrote = s.wrote /\ Stage(t) = "failed"
  BY <1>1, ReportEffect DEF Outcome
<1> HIDE DEF t
<1>3. Stage(s) = "running"
  BY <1>1 DEF Stage
<1>4. Moved(s, t)
  BY <1>1, <1>2, <1>3 DEF Moved
<1> QED
  BY <1>2, <1>4 DEF t

(* A job that goes on: another phase of a run, on its card or none.        *)
LEMMA RunsOn ==
    ASSUME NEW s, Sound(s), s.phase \in Running,
           NEW next \in Running, NEW op, op \in {None, s.card}
    PROVE  LET t == [s EXCEPT !.phase = next, !.op = op] IN
           Sound(t) /\ t.phase = next /\ t.card = s.card /\ Kept(s, t)
<1> DEFINE t == [s EXCEPT !.phase = next, !.op = op]
<1>1. /\ s \in Share /\ s.started # None /\ s.card \in {None, s.started}
      /\ s.outcome = "none" /\ ~s.wrote
  BY DEF Sound
<1>2. t \in Share
  BY <1>1 DEF Share, Phase, Running
<1>3. /\ t.phase = next /\ t.op = op /\ t.card = s.card /\ t.started = s.started
      /\ t.outcome = s.outcome /\ t.wrote = s.wrote
  BY <1>1 DEF Share
<1> HIDE DEF t
<1>4. Kept(s, t)
  BY <1>3 DEF Kept, Stage
<1>5. Sound(t)
  BY <1>1, <1>2, <1>3 DEF Sound, Running
<1> QED
  BY <1>3, <1>4, <1>5 DEF t

(* The end of the listing: a failure, the hop to the sign, or the dialog.  *)
LEMMA OnCertificatesFinishedEffect ==
    ASSUME NEW s, Sound(s), s.phase = "certificates", NEW result \in CertificatesResult
    PROVE  LET t == OnCertificatesFinished(s, result) IN
           /\ Sound(t) /\ t.phase # "choosing" /\ t.card \in {None, s.card}
           /\ Kept(s, t) \/ Moved(s, t)
<1> DEFINE t == OnCertificatesFinished(s, result)
           u == [s EXCEPT !.op = None]
<1>1. s.phase \in Running /\ s \in Share
  BY DEF Running, Sound
<1>2. CASE result \in {"failed", "none"}
  <2>1. Report(u, "failed") = Report(s, "failed")
    BY <1>1 DEF Report, Share
  <2>2. t = Report(s, "failed")
    BY <1>2, <2>1 DEF OnCertificatesFinished
  <2> HIDE DEF t
  <2> QED
    BY <1>1, <2>2, FailEffect DEF t
<1>3. CASE result = "one"
  <2>1. t = [s EXCEPT !.phase = "queued", !.op = None]
    BY <1>1, <1>3 DEF OnCertificatesFinished, QueueSign, Share
  <2>2. "queued" \in Running
    BY DEF Running
  <2>3. LET v == [s EXCEPT !.phase = "queued", !.op = None] IN
        Sound(v) /\ v.phase = "queued" /\ v.card = s.card /\ Kept(s, v)
    BY <1>1, <2>2, RunsOn, Zenon
  <2> HIDE DEF t
  <2>4. Sound(t) /\ t.phase = "queued" /\ t.card = s.card /\ Kept(s, t)
    BY <2>1, <2>3, Zenon
  <2> QED
    BY <2>4 DEF t
<1>4. CASE result = "several"
  <2>1. t = [s EXCEPT !.phase = "picking", !.op = None]
    BY <1>1, <1>4 DEF OnCertificatesFinished, Share
  <2>2. "picking" \in Running
    BY DEF Running
  <2>3. LET v == [s EXCEPT !.phase = "picking", !.op = None] IN
        Sound(v) /\ v.phase = "picking" /\ v.card = s.card /\ Kept(s, v)
    BY <1>1, <2>2, RunsOn, Zenon
  <2> HIDE DEF t
  <2>4. Sound(t) /\ t.phase = "picking" /\ t.card = s.card /\ Kept(s, t)
    BY <2>1, <2>3, Zenon
  <2> QED
    BY <2>4 DEF t
<1> QED
  BY <1>2, <1>3, <1>4 DEF CertificatesResult

(* A chosen certificate waits for the hop to the sign.                     *)
LEMMA QueueSignEffect ==
    ASSUME NEW s, Sound(s), s.phase = "picking"
    PROVE  LET t == QueueSign(s) IN
           Sound(t) /\ t.phase # "choosing" /\ t.card \in {None, s.card} /\ Kept(s, t)
<1> DEFINE t == QueueSign(s)
<1>1. s.phase \in Running /\ s \in Share /\ s.op \in {None, s.card}
  BY DEF Running, Sound
<1>2. s.started # None /\ s.card \in {None, s.started} /\ s.outcome = "none" /\ ~s.wrote
  BY <1>1 DEF Sound
<1>3. t \in Share
  BY <1>1 DEF QueueSign, Share, Phase
<1>4. /\ t.phase = "queued" /\ t.op = s.op /\ t.card = s.card /\ t.started = s.started
      /\ t.outcome = s.outcome /\ t.wrote = s.wrote
  BY <1>1 DEF QueueSign, Share
<1> HIDE DEF t
<1>5. Sound(t)
  BY <1>1, <1>2, <1>3, <1>4 DEF Sound, Running
<1>6. Kept(s, t)
  BY <1>4 DEF Kept, Stage
<1> QED
  BY <1>4, <1>5, <1>6 DEF t

(* The sign begins on the card the job still has, or the job fails.        *)
LEMMA BeginSignEffect ==
    ASSUME NEW s, Sound(s), s.phase = "queued", NEW opened \in BOOLEAN
    PROVE  LET t == BeginSign(s, opened) IN
           /\ Sound(t) /\ t.phase # "choosing" /\ t.card \in {None, s.card}
           /\ Kept(s, t) \/ Moved(s, t)
<1> DEFINE t == BeginSign(s, opened)
<1>1. s.phase \in Running
  BY DEF Running
<1>2. CASE s.card # None /\ opened
  <2>1. t = [s EXCEPT !.phase = "signing", !.op = s.card]
    BY <1>2 DEF BeginSign
  <2>2. "signing" \in Running
    BY DEF Running
  <2>3. LET v == [s EXCEPT !.phase = "signing", !.op = s.card] IN
        Sound(v) /\ v.phase = "signing" /\ v.card = s.card /\ Kept(s, v)
    BY <1>1, <2>2, RunsOn, Zenon
  <2> HIDE DEF t
  <2>4. Sound(t) /\ t.phase = "signing" /\ t.card = s.card /\ Kept(s, t)
    BY <2>1, <2>3, Zenon
  <2> QED
    BY <2>4 DEF t
<1>3. CASE ~(s.card # None /\ opened)
  <2>1. t = Report(s, "failed")
    BY <1>3 DEF BeginSign
  <2> HIDE DEF t
  <2> QED
    BY <1>1, <2>1, FailEffect DEF t
<1> QED
  BY <1>2, <1>3

(* A sign ends in success exactly if its file is there.                    *)
LEMMA OnSignFinishedEffect ==
    ASSUME NEW s, Sound(s), s.phase = "signing", NEW result \in SignResult
    PROVE  LET t == OnSignFinished(s, result) IN
           Sound(t) /\ t.phase # "choosing" /\ t.card = None /\ Moved(s, t)
<1> DEFINE t == OnSignFinished(s, result)
           u == [s EXCEPT !.wrote = TRUE]
<1>1. s.phase \in Running
  BY DEF Running
<1>2. CASE result = "saved"
  <2>1. /\ s \in Share /\ s.outcome = "none" /\ s.started # None
        /\ s.started \in Cards \cup {None} /\ Stage(s) = "running"
    BY <1>1 DEF Sound, Share, Stage
  <2>2. u.started = s.started /\ u.wrote = TRUE
    BY <2>1 DEF Share
  <2>3. t = Report(u, "succeeded")
    BY <1>2 DEF OnSignFinished
  <2> HIDE DEF u, t
  <2>4. /\ u.started \in Cards \cup {None} /\ u.wrote \in BOOLEAN
        /\ "succeeded" \in Outcome \ {"none"} /\ (u.wrote <=> "succeeded" = "succeeded")
    BY <2>1, <2>2 DEF Outcome
  <2>5. /\ Sound(t) /\ t.phase = "ended" /\ t.card = None
        /\ t.started = s.started /\ t.wrote /\ Stage(t) = "succeeded"
    BY <2>4, <2>2, <2>3, ReportEffect
  <2>6. Moved(s, t)
    BY <2>1, <2>5 DEF Moved
  <2> QED
    BY <2>5, <2>6 DEF t
<1>3. CASE result # "saved"
  <2>1. t = Report(s, "failed")
    BY <1>3 DEF OnSignFinished
  <2> HIDE DEF t
  <2> QED
    BY <1>1, <2>1, FailEffect DEF t
<1> QED
  BY <1>2, <1>3

-----------------------------------------------------------------------------
(* The choice of the card.                                                 *)

(* Before it has started, a share that starts a job moves as it may.       *)
LEMMA StartMoves ==
    ASSUME NEW s, Stage(s) = "asked", NEW u, u.picked \in Cards \cup {None},
           NEW c \in Cards
    PROVE  Moved(s, StartJob(u, c))
<1> DEFINE t == StartJob(u, c)
<1>1. t.started = c /\ ~t.wrote /\ Stage(t) \in {"failed", "running"}
  BY StartJobEffect
<1> HIDE DEF t
<1>2. Moved(s, t)
  BY <1>1 DEF Moved
<1> QED
  BY <1>2 DEF t

(* Before it has started, a share may be refused.                          *)
LEMMA RefuseEffect ==
    ASSUME NEW s, Sound(s), s.phase \in {"idle", "choosing"},
           NEW u, u.started = None, u.wrote \in BOOLEAN, ~u.wrote,
           NEW outcome \in {"failed", "cancelled"}
    PROVE  LET t == Report(u, outcome) IN
           Sound(t) /\ t.phase = "ended" /\ t.card = None /\ Moved(s, t)
<1> DEFINE t == Report(u, outcome)
<1>1. Stage(s) = "asked"
  BY DEF Sound, Stage
<1>2. /\ u.started \in Cards \cup {None} /\ u.wrote \in BOOLEAN
      /\ outcome \in Outcome \ {"none"} /\ (u.wrote <=> outcome = "succeeded")
  BY DEF Outcome
<1>3. /\ Sound(t) /\ t.phase = "ended" /\ t.card = None
      /\ t.started = None /\ ~t.wrote /\ Stage(t) = outcome
  BY <1>2, ReportEffect
<1> HIDE DEF t
<1>4. Moved(s, t)
  BY <1>1, <1>3 DEF Moved
<1> QED
  BY <1>3, <1>4 DEF t

(* The row of s that was picked is the reason why t has started its job.   *)
AnswersFor(t, s, pick) ==
    t.phase = "certificates" =>
        /\ pick.card = t.picked
        /\ \E r \in readers :
              /\ slot[r] = t.started
              /\ NameOf[r] = pick.name
              /\ Pki \in caps[slot[r]]
              /\ ~s.restarted => slot[r] = pick.card

(* A chosen row is resolved to a card that is there, and until the agent   *)
(* restarts to the card of the row; or the share is refused.               *)
LEMMA ResolveEffect ==
    ASSUME RegistryTypeOK, Minted(ids, minted, slot),
           NEW s, Sound(s), s.phase = "choosing", Named(s, ids, minted, slot),
           NEW pick \in s.choices
    PROVE  LET t == Resolve(s, pick) IN
           /\ Sound(t) /\ Live(t, slot) /\ t.phase # "choosing" /\ Moved(s, t)
           /\ AnswersFor(t, s, pick)
<1> DEFINE t == Resolve(s, pick)
           u == [s EXCEPT !.picked = pick.card]
           live == {r \in ReaderOfId(pick.id) : StillNames(pick, r)}
<1>1. /\ s \in Share /\ pick \in Choice /\ pick.card \in Cards
      /\ s.started = None /\ ~s.wrote /\ s.outcome = "none"
  BY DEF Sound, Share, Choice
<1>2. u.picked = pick.card /\ u.started = None /\ u.wrote \in BOOLEAN /\ ~u.wrote
  BY <1>1 DEF Share
<1>3. Stage(s) = "asked"
  BY <1>1 DEF Stage
<1>4. t = IF live = {} THEN Report(u, "failed")
          ELSE StartJob(u, slot[CHOOSE r \in live : TRUE])
  BY DEF Resolve
<1> HIDE DEF u
<1>5. CASE live = {}
  <2>1. t = Report(u, "failed")
    BY <1>4, <1>5
  <2> HIDE DEF t
  <2>2. Sound(t) /\ t.phase = "ended" /\ t.card = None /\ Moved(s, t)
    BY <1>2, <2>1, RefuseEffect
  <2> QED
    BY <2>2 DEF Live, AnswersFor, t
<1>6. CASE live # {}
  <2> DEFINE r == CHOOSE r \in live : TRUE
  <2>1. r \in live
    BY <1>6
  <2>2. t = StartJob(u, slot[r])
    BY <1>4, <1>6
  <2> HIDE DEF t, r
  <2>3. /\ r \in readers /\ r \in Readers /\ slot[r] \in Cards
        /\ ids[slot[r]] = pick.id /\ NameOf[r] = pick.name /\ Pki \in caps[slot[r]]
    BY <2>1 DEF ReaderOfId, StillNames, HasCapability, RegistryTypeOK
  <2>4. CardPresent(slot, slot[r])
    BY <2>3 DEF CardPresent
  <2>5. /\ Sound(t) /\ t.started = slot[r] /\ t.phase \in {"certificates", "ended"}
        /\ t.phase = "certificates" => t.card = slot[r] /\ t.picked = pick.card
        /\ t.phase = "ended" => t.card = None
    BY <1>1, <1>2, <2>2, <2>3, StartJobEffect
  <2>6. Moved(s, t)
    BY <1>1, <1>2, <1>3, <2>2, <2>3, StartMoves
  <2>7. ~s.restarted => slot[r] = pick.card
    BY <2>3, <2>4 DEF Named
  <2> QED
    BY <2>3, <2>4, <2>5, <2>6, <2>7 DEF Live, AnswersFor, t
<1> QED
  BY <1>5, <1>6

(* A share of a file is refused, started on the one card that can sign, or *)
(* opens the dialog, whose rows name their cards.                          *)
LEMMA StartShareEffect ==
    ASSUME TypeOK, Minted(ids, minted, slot), NEW s, Sound(s), s.phase = "idle"
    PROVE  LET t == StartShare(s) IN
           /\ Sound(t) /\ Live(t, slot) /\ Named(t, ids, minted, slot)
           /\ Kept(s, t) \/ Moved(s, t)
<1> DEFINE t == StartShare(s)
<1>1. /\ s \in Share /\ s.card = None /\ s.op = None /\ s.started = None
      /\ ~s.wrote /\ s.wrote \in BOOLEAN /\ s.outcome = "none" /\ s.picked \in Cards \cup {None}
      /\ Stage(s) = "asked"
  BY DEF Sound, Share, Stage
<1>2. CASE ~avail \/ HoldersOfSigners = {}
  <2>1. t = Report(s, "failed")
    BY <1>2 DEF StartShare
  <2> HIDE DEF t
  <2>2. Sound(t) /\ t.phase = "ended" /\ t.card = None /\ Moved(s, t)
    BY <1>1, <2>1, RefuseEffect
  <2> QED
    BY <2>2 DEF t, Live, Named
<1>3. ASSUME ~(~avail \/ HoldersOfSigners = {}),
             \E r \in HoldersOfSigners : HoldersOfSigners = {r}
      PROVE  /\ Sound(t) /\ Live(t, slot) /\ Named(t, ids, minted, slot)
             /\ Kept(s, t) \/ Moved(s, t)
  <2> DEFINE r == CHOOSE r \in HoldersOfSigners : TRUE
  <2>1. t = StartJob(s, slot[r]) /\ r \in HoldersOfSigners
    BY <1>3 DEF StartShare
  <2> HIDE DEF t, r
  <2>2. r \in Readers /\ slot[r] \in Cards
    BY <2>1 DEF HoldersOfSigners, TypeOK, RegistryTypeOK
  <2>3. Sound(t) /\ t.phase \in {"certificates", "ended"} /\ t.card \in {None, slot[r]}
    BY <1>1, <2>1, <2>2, StartJobEffect
  <2>4. Moved(s, t)
    BY <1>1, <2>1, <2>2, StartMoves
  <2>5. CardPresent(slot, slot[r])
    BY <2>2 DEF CardPresent
  <2> QED
    BY <2>3, <2>4, <2>5 DEF Live, Named
<1>4. ASSUME ~(~avail \/ HoldersOfSigners = {}),
             ~(\E r \in HoldersOfSigners : HoldersOfSigners = {r})
      PROVE  /\ Sound(t) /\ Live(t, slot) /\ Named(t, ids, minted, slot)
             /\ Kept(s, t) \/ Moved(s, t)
  <2> DEFINE rows == {ChoiceOf(r) : r \in HoldersOfSigners}
  <2>1. ASSUME NEW row \in rows
        PROVE  /\ row \in Choice /\ row.id < minted
               /\ \A c \in Cards : CardPresent(slot, c) /\ ids[c] = row.id => c = row.card
    <3>1. PICK r \in HoldersOfSigners : row = ChoiceOf(r)
      BY <2>1
    <3>2. r \in Readers /\ slot[r] \in Cards
      BY <3>1 DEF HoldersOfSigners, TypeOK, RegistryTypeOK
    <3>3. CardPresent(slot, slot[r])
      BY <3>2 DEF CardPresent
    <3>4. ids[slot[r]] \in Ids /\ ids[slot[r]] < minted /\ NameOf[r] \in Names
      BY <3>2, <3>3, SigningAssumption DEF Minted
    <3> QED
      BY <3>1, <3>2, <3>3, <3>4 DEF ChoiceOf, Choice, Minted
  <2>2. t = [s EXCEPT !.phase = "choosing", !.choices = rows]
    BY <1>4 DEF StartShare
  <2>3. rows \in SUBSET Choice
    BY <2>1
  <2> HIDE DEF t, rows
  <2>4. t \in Share
    BY <1>1, <2>2, <2>3 DEF Share, Phase
  <2>5. /\ t.phase = "choosing" /\ t.choices = rows /\ t.card = None /\ t.op = None
        /\ t.started = None /\ t.outcome = "none" /\ t.wrote = s.wrote
    BY <1>1, <2>2 DEF Share
  <2>6. Sound(t)
    BY <1>1, <2>4, <2>5 DEF Sound, Running
  <2>7. Named(t, ids, minted, slot)
    BY <2>1, <2>5 DEF Named
  <2>8. Kept(s, t)
    BY <1>1, <2>5 DEF Kept, Stage
  <2> QED
    BY <2>5, <2>6, <2>7, <2>8 DEF Live
<1> QED
  BY <1>2, <1>3, <1>4

-----------------------------------------------------------------------------
(* What a lost card makes of a share.                                      *)

(* The pointers to lost cards null themselves.                             *)
Nulled(u, lost, gone) ==
    [u EXCEPT !.card = IF @ \in lost THEN None ELSE @,
              !.op = IF @ \in lost THEN None ELSE @,
              !.restarted = @ \/ gone]

(* A share is told that the card of its operation is gone, or not; its     *)
(* pointers to lost cards are null.                                        *)
LEMMA LoseEffect ==
    ASSUME NEW s, Sound(s), NEW lost \in SUBSET Cards, NEW gone \in BOOLEAN,
           NEW swept, swept = s \/ (s.op \in lost /\ swept = Report(s, "failed")),
           NEW t, t = Nulled(swept, lost, gone)
    PROVE  /\ Sound(t)
           /\ t.card # None => t.card = s.card /\ t.card \notin lost
           /\ Kept(s, t) \/ Moved(s, t)
           /\ t.phase \in {s.phase, "ended"}
           /\ t.phase = "choosing" => t.choices = s.choices /\ (t.restarted <=> s.restarted \/ gone)
<1>1. s \in Share /\ None \notin lost
  BY RegistryAssumption DEF Sound
<1>2. /\ Sound(swept)
      /\ swept = s \/ (swept.phase = "ended" /\ swept.card = None /\ Moved(s, swept))
  <2>1. CASE s.op \in lost /\ swept = Report(s, "failed")
    <3>1. s.phase \in Running
      BY <1>1, <2>1 DEF Sound, Share, Phase, Running
    <3> QED
      BY <2>1, <3>1, FailEffect
  <2> QED
    BY <2>1
<1>3. swept \in Share
  BY <1>2 DEF Sound
<1>4. /\ (IF swept.card \in lost THEN None ELSE swept.card) \in Cards \cup {None}
      /\ (IF swept.op \in lost THEN None ELSE swept.op) \in Cards \cup {None}
      /\ (swept.restarted \/ gone) \in BOOLEAN
  BY <1>3 DEF Share
<1>5. t \in Share
  BY <1>3, <1>4 DEF Nulled, Share
<1>6. /\ t.card = IF swept.card \in lost THEN None ELSE swept.card
      /\ t.op = IF swept.op \in lost THEN None ELSE swept.op
      /\ t.phase = swept.phase /\ t.started = swept.started /\ t.choices = swept.choices
      /\ t.outcome = swept.outcome /\ t.wrote = swept.wrote
  BY <1>3 DEF Nulled, Share
<1>7. t.restarted <=> swept.restarted \/ gone
  BY <1>3 DEF Nulled, Share
<1>8. Sound(t)
  BY <1>1, <1>2, <1>5, <1>6 DEF Sound, Running
<1>9. Stage(t) = Stage(swept)
  BY <1>6 DEF Stage
<1>10. Kept(s, t) \/ Moved(s, t)
  BY <1>2, <1>6, <1>9 DEF Kept, Moved
<1> QED
  BY <1>2, <1>6, <1>7, <1>8, <1>10

-----------------------------------------------------------------------------
(* The steps.                                                              *)

(* Every share goes on as SignPromise allows.                              *)
Advance == \A j \in Jobs : Kept(share[j], share'[j]) \/ Moved(share[j], share'[j])

(* A slot or a chooser of one share, over an unchanged registry.           *)
LEMMA OneShareMoves ==
    ASSUME IInv, Quiet, NEW j \in Jobs, NEW t, share' = [share EXCEPT ![j] = t],
           Sound(t), Live(t, slot), Named(t, ids, minted, slot),
           Kept(share[j], t) \/ Moved(share[j], t)
    PROVE  IInv' /\ Advance
<1>1. /\ share \in [Jobs -> Share] /\ t \in Share
      /\ share'[j] = t /\ \A i \in Jobs : i # j => share'[i] = share[i]
  BY DEF IInv, TypeOK, Sound
<1>2. UNCHANGED <<avail, readers, slot, caps, ids, minted>>
  BY DEF Quiet, registry
<1>3. TypeOK' /\ RegistryConsistent'
  <2>1. share' \in [Jobs -> Share]
    BY <1>1
  <2> QED
    BY <1>2, <2>1 DEF IInv, TypeOK, RegistryTypeOK, RegistryConsistent
<1>4. Minted(ids, minted, slot)'
  BY <1>2 DEF IInv
<1>5. ASSUME NEW i \in Jobs
      PROVE  /\ Sound(share'[i]) /\ Live(share'[i], slot')
             /\ Named(share'[i], ids', minted', slot')
             /\ Kept(share[i], share'[i]) \/ Moved(share[i], share'[i])
  <2>1. CASE i = j
    BY <1>1, <1>2, <2>1
  <2>2. CASE i # j
    BY <1>1, <1>2, <2>2 DEF IInv, Kept
  <2> QED
    BY <2>1, <2>2
<1> QED
  BY <1>3, <1>4, <1>5 DEF IInv, Advance

(* A slot of a share under way stays on its card, or leaves it.            *)
LEMMA RunMoves ==
    ASSUME IInv, Quiet, NEW j \in Jobs, NEW t, share' = [share EXCEPT ![j] = t],
           Sound(t), t.card \in {None, share[j].card}, t.phase # "choosing",
           Kept(share[j], t) \/ Moved(share[j], t)
    PROVE  IInv' /\ Advance
<1>1. Live(t, slot)
  BY DEF IInv, Live
<1>2. Named(t, ids, minted, slot)
  BY DEF Named
<1> QED
  BY <1>1, <1>2, OneShareMoves

LEMMA ShareFileSteps ==
    ASSUME IInv, NEW j \in Jobs, ShareFile(j)
    PROVE  IInv' /\ Advance
<1>1. Sound(share[j]) /\ share[j].phase = "idle" /\ Quiet
  BY DEF IInv, ShareFile
<1>2. PICK signable \in BOOLEAN :
         share' = [share EXCEPT ![j] = IF signable THEN StartShare(share[j])
                                       ELSE Report(share[j], "failed")]
  BY DEF ShareFile
<1>3. CASE signable
  BY <1>1, <1>2, <1>3, StartShareEffect, OneShareMoves DEF IInv
<1>4. CASE ~signable
  <2> DEFINE t == Report(share[j], "failed")
  <2>1. /\ share[j].started = None /\ share[j].wrote \in BOOLEAN /\ ~share[j].wrote
    BY <1>1 DEF Sound, Share
  <2>2. Sound(t) /\ t.phase = "ended" /\ t.card = None /\ Moved(share[j], t)
    BY <1>1, <2>1, RefuseEffect
  <2>3. share' = [share EXCEPT ![j] = t]
    BY <1>2, <1>4
  <2> HIDE DEF t
  <2> QED
    BY <1>1, <2>2, <2>3, RunMoves
<1> QED
  BY <1>3, <1>4

LEMMA ChooseCardSteps ==
    ASSUME IInv, NEW j \in Jobs, ChooseCard(j)
    PROVE  IInv' /\ Advance
<1>1. Sound(share[j]) /\ Named(share[j], ids, minted, slot) /\ share[j].phase = "choosing" /\ Quiet
  BY DEF IInv, ChooseCard
<1>2. ASSUME NEW pick \in share[j].choices, share' = [share EXCEPT ![j] = Resolve(share[j], pick)]
      PROVE  IInv' /\ Advance
  <2> DEFINE t == Resolve(share[j], pick)
  <2>1. Sound(t) /\ Live(t, slot) /\ t.phase # "choosing" /\ Moved(share[j], t)
    BY <1>1, ResolveEffect DEF IInv, TypeOK
  <2>2. share' = [share EXCEPT ![j] = t]
    BY <1>2
  <2> HIDE DEF t
  <2>3. Named(t, ids, minted, slot)
    BY <2>1 DEF Named
  <2> QED
    BY <1>1, <2>1, <2>2, <2>3, OneShareMoves
<1>3. CASE share' = [share EXCEPT ![j] = Report(share[j], "cancelled")]
  <2> DEFINE t == Report(share[j], "cancelled")
  <2>1. /\ share[j].started = None /\ share[j].wrote \in BOOLEAN /\ ~share[j].wrote
    BY <1>1 DEF Sound, Share
  <2>2. Sound(t) /\ t.phase = "ended" /\ t.card = None /\ Moved(share[j], t)
    BY <1>1, <2>1, RefuseEffect
  <2>3. share' = [share EXCEPT ![j] = t]
    BY <1>3
  <2> HIDE DEF t
  <2> QED
    BY <1>1, <2>2, <2>3, RunMoves
<1> QED
  BY <1>2, <1>3 DEF ChooseCard

LEMMA ChooseCertificateSteps ==
    ASSUME IInv, NEW j \in Jobs, ChooseCertificate(j)
    PROVE  IInv' /\ Advance
<1>1. Sound(share[j]) /\ share[j].phase = "picking" /\ share[j].phase \in Running /\ Quiet
  BY DEF IInv, ChooseCertificate, Running
<1>2. CASE share' = [share EXCEPT ![j] = QueueSign(share[j])]
  BY <1>1, <1>2, QueueSignEffect, RunMoves
<1>3. CASE share' = [share EXCEPT ![j] = Report(share[j], "failed")]
  <2> DEFINE t == Report(share[j], "failed")
  <2>1. share' = [share EXCEPT ![j] = t]
    BY <1>3
  <2>2. Sound(t) /\ t.phase = "ended" /\ t.card = None /\ Moved(share[j], t)
    BY <1>1, FailEffect
  <2> HIDE DEF t
  <2> QED
    BY <1>1, <2>1, <2>2, RunMoves
<1> QED
  BY <1>2, <1>3 DEF ChooseCertificate

LEMMA RunsSteps ==
    ASSUME IInv, NEW j \in Jobs, Runs(j)
    PROVE  IInv' /\ Advance
<1>1. Sound(share[j])
  BY DEF IInv
<1>2. CASE CertificatesFinished(j)
  <2>1. PICK result \in CertificatesResult :
           share' = [share EXCEPT ![j] = OnCertificatesFinished(share[j], result)]
    BY <1>2 DEF CertificatesFinished
  <2> QED
    BY <1>1, <1>2, <2>1, OnCertificatesFinishedEffect, RunMoves DEF CertificatesFinished
<1>3. CASE QueuedSign(j)
  <2>1. PICK opened \in BOOLEAN : share' = [share EXCEPT ![j] = BeginSign(share[j], opened)]
    BY <1>3 DEF QueuedSign
  <2> QED
    BY <1>1, <1>3, <2>1, BeginSignEffect, RunMoves DEF QueuedSign
<1>4. CASE SignFinished(j)
  <2>1. PICK result \in SignResult :
           share' = [share EXCEPT ![j] = OnSignFinished(share[j], result)]
    BY <1>4 DEF SignFinished
  <2> QED
    BY <1>1, <1>4, <2>1, OnSignFinishedEffect, RunMoves DEF SignFinished
<1> QED
  BY <1>2, <1>3, <1>4 DEF Runs

(* Lost cards: what LoseEffect says, of each share.                        *)
LEMMA LoseCardsEffect ==
    ASSUME IInv, NEW lost \in SUBSET Cards, NEW told, LoseCards(lost, told),
           avail' \in BOOLEAN, NEW j \in Jobs
    PROVE  LET s == share[j]  t == share'[j] IN
           /\ Sound(t)
           /\ t.card # None => t.card = s.card /\ t.card \notin lost
           /\ Kept(s, t) \/ Moved(s, t)
           /\ t.phase \in {s.phase, "ended"}
           /\ t.phase = "choosing" => /\ t.choices = s.choices
                                      /\ t.restarted <=> s.restarted \/ ~avail'
<1> DEFINE s == share[j]
           t == share'[j]
           swept == IF j \in told /\ s.op \in lost THEN Report(s, "failed") ELSE s
           gone == ~avail' /\ s.phase = "choosing"
<1>1. swept = s \/ (s.op \in lost /\ swept = Report(s, "failed"))
  OBVIOUS
<1>2. Sound(s)
  BY DEF IInv
<1>3. t = Nulled(swept, lost, gone)
  BY DEF LoseCards, Nulled
<1>4. gone \in BOOLEAN
  OBVIOUS
<1>5. gone <=> ~avail' /\ s.phase = "choosing"
  OBVIOUS
<1> HIDE DEF s, t, swept, gone
<1>6. /\ Sound(t)
      /\ t.card # None => t.card = s.card /\ t.card \notin lost
      /\ Kept(s, t) \/ Moved(s, t)
      /\ t.phase \in {s.phase, "ended"}
      /\ t.phase = "choosing" => t.choices = s.choices /\ (t.restarted <=> s.restarted \/ gone)
  BY <1>1, <1>2, <1>3, <1>4, LoseEffect
<1> QED
  BY <1>5, <1>6 DEF s, t

(* A loss leaves no pointer to what is gone, and the rows of an open       *)
(* dialog either name their cards still or are those of another agent.     *)
LEMMA RegistryLossSteps ==
    ASSUME IInv, RegistryLoss
    PROVE  IInv' /\ Advance
<1> USE DEF IInv, TypeOK
<1>1. ASSUME NEW told, AgentVanishes, LoseCards(Cards, told), minted' = 0
      PROVE  IInv' /\ Advance
  <2>1. /\ RegistryTypeOK' /\ RegistryConsistent' /\ ~avail' /\ avail' \in BOOLEAN
        /\ \A r \in Readers : slot'[r] = None
    BY <1>1, RegistryTypePreserved, RegistryConsistentPreserved DEF AgentVanishes
  <2>2. \A c \in Cards : ~CardPresent(slot', c)
    BY <2>1, RegistryAssumption DEF CardPresent
  <2>3. minted' \in Ids /\ ids' \in [Cards -> Ids \cup {None}]
    <3>1. minted' \in Ids
      BY <1>1, SigningAssumption DEF Ids
    <3>2. ids' = [c \in Cards |-> IF c \in Cards THEN None ELSE ids[c]]
      BY <1>1 DEF LoseCards
    <3> QED
      BY <3>1, <3>2
  <2>4. Minted(ids', minted', slot')
    BY <2>2 DEF Minted
  <2>5. ASSUME NEW j \in Jobs
        PROVE  /\ Sound(share'[j]) /\ Live(share'[j], slot')
               /\ Named(share'[j], ids', minted', slot')
               /\ Kept(share[j], share'[j]) \/ Moved(share[j], share'[j])
    <3> HIDE DEF IInv, TypeOK
    <3>1. /\ Sound(share'[j])
          /\ share'[j].card # None => share'[j].card \notin Cards
          /\ Kept(share[j], share'[j]) \/ Moved(share[j], share'[j])
          /\ share'[j].phase = "choosing" => share'[j].restarted
      BY <1>1, <2>1, LoseCardsEffect
    <3>2. share'[j].card = None
      BY <3>1 DEF Sound, Share
    <3> QED
      BY <3>1, <3>2 DEF Live, Named
  <2>6. share' \in [Jobs -> Share]
    BY <1>1, <2>5 DEF LoseCards, Sound
  <2> QED
    BY <2>1, <2>3, <2>4, <2>5, <2>6 DEF Advance
<1>2. ASSUME NEW told, NEW r \in Readers, ReaderLeaves(r) \/ CardLeaves(r),
             LoseCards({slot[r]} \ {None}, told), UNCHANGED minted
      PROVE  IInv' /\ Advance
  <2> DEFINE lost == {slot[r]} \ {None}
  <2>1. RegistryTypeOK' /\ RegistryConsistent'
    BY <1>2, RegistryTypePreserved, RegistryConsistentPreserved
  <2>2. lost \in SUBSET Cards /\ slot' = [slot EXCEPT ![r] = None]
    BY <1>2 DEF RegistryTypeOK, ReaderLeaves, CardLeaves
  <2>3. \A c \in Cards : CardPresent(slot', c) <=> CardPresent(slot, c) /\ c \notin lost
    BY <2>2, PulledIsGone
  <2>4. /\ ids' \in [Cards -> Ids \cup {None}]
        /\ \A c \in Cards : c \notin lost => ids'[c] = ids[c]
    BY <1>2 DEF LoseCards
  <2>5. Minted(ids', minted', slot')
    BY <1>2, <2>3, <2>4 DEF Minted
  <2>6. ASSUME NEW j \in Jobs
        PROVE  /\ Sound(share'[j]) /\ Live(share'[j], slot')
               /\ Named(share'[j], ids', minted', slot')
               /\ Kept(share[j], share'[j]) \/ Moved(share[j], share'[j])
    <3>1. avail' \in BOOLEAN /\ LoseCards(lost, told)
      BY <1>2, <2>1 DEF RegistryTypeOK
    <3>2. Live(share[j], slot) /\ Named(share[j], ids, minted, slot) /\ Sound(share[j])
      OBVIOUS
    <3> HIDE DEF IInv, TypeOK, lost
    <3>3. /\ Sound(share'[j])
          /\ share'[j].card # None => share'[j].card = share[j].card /\ share'[j].card \notin lost
          /\ Kept(share[j], share'[j]) \/ Moved(share[j], share'[j])
          /\ share'[j].phase \in {share[j].phase, "ended"}
          /\ share'[j].phase = "choosing" =>
                /\ share'[j].choices = share[j].choices
                /\ share'[j].restarted <=> share[j].restarted \/ ~avail'
      BY <2>2, <3>1, LoseCardsEffect
    <3>4. share[j].card \in Cards \cup {None}
      BY <3>2 DEF Sound, Share
    <3>5. Live(share'[j], slot')
      BY <2>3, <3>2, <3>3, <3>4 DEF Live
    <3>6. Named(share'[j], ids', minted', slot')
      BY <1>2, <2>3, <2>4, <3>2, <3>3 DEF Named
    <3> QED
      BY <3>3, <3>5, <3>6
  <2>7. share' \in [Jobs -> Share]
    BY <1>2, <2>6 DEF LoseCards, Sound
  <2> QED
    BY <1>2, <2>1, <2>4, <2>5, <2>6, <2>7 DEF Advance
<1> QED
  BY <1>1, <1>2 DEF RegistryLoss

(* An inserted card has an id no row and no other card bears.              *)
LEMMA InsertionSteps ==
    ASSUME IInv, Insertion
    PROVE  IInv' /\ Advance
<1> USE DEF IInv, TypeOK
<1>1. PICK r \in Readers, c \in Cards, bits \in SUBSET Caps :
         /\ minted < MintLimit
         /\ CardArrives(r, c, bits)
         /\ ids' = [ids EXCEPT ![c] = minted]
         /\ minted' = minted + 1
         /\ UNCHANGED share
  BY DEF Insertion
<1>2. RegistryTypeOK' /\ RegistryConsistent'
  BY <1>1, RegistryTypePreserved, RegistryConsistentPreserved
<1>3. /\ minted \in Nat /\ minted' \in Ids
      /\ ids' \in [Cards -> Ids \cup {None}] /\ ids'[c] = minted
      /\ \A d \in Cards : d # c => ids'[d] = ids[d]
  BY <1>1, SigningAssumption DEF Ids
<1>4. \A d \in Cards : CardPresent(slot', d) => d = c \/ CardPresent(slot, d)
  BY <1>1 DEF CardArrives, CardPresent, RegistryTypeOK
<1>5. \A d \in Cards : CardPresent(slot, d) => CardPresent(slot', d) /\ d # c
  BY <1>1, RegistryAssumption DEF CardArrives, CardPresent, RegistryTypeOK
<1>6. \A d \in Cards : CardPresent(slot', d) => ids'[d] \in Ids /\ ids'[d] < minted'
  BY <1>1, <1>3, <1>4 DEF Minted, Ids
<1>7. \A d \in Cards : CardPresent(slot', d) /\ d # c => ids'[d] = ids[d] /\ ids[d] < minted
  BY <1>3, <1>4 DEF Minted
<1>8. Minted(ids', minted', slot')
  <2>1. ASSUME NEW d \in Cards, NEW e \in Cards, CardPresent(slot', d), CardPresent(slot', e),
               ids'[d] = ids'[e]
        PROVE  d = e
    BY <1>3, <1>4, <1>7, <2>1 DEF Minted, Ids
  <2> QED
    BY <1>6, <2>1 DEF Minted
<1>9. ASSUME NEW j \in Jobs
      PROVE  /\ Sound(share'[j]) /\ Live(share'[j], slot')
             /\ Named(share'[j], ids', minted', slot')
             /\ Kept(share[j], share'[j]) \/ Moved(share[j], share'[j])
  <2>1. /\ share'[j] = share[j] /\ Sound(share[j]) /\ Live(share[j], slot)
        /\ Named(share[j], ids, minted, slot) /\ share[j].card \in Cards \cup {None}
    BY <1>1 DEF Share
  <2>2. Live(share'[j], slot')
    BY <1>5, <2>1 DEF Live
  <2>3. ASSUME share[j].phase = "choosing", ~share[j].restarted, NEW row \in share[j].choices
        PROVE  /\ row.id < minted'
               /\ \A d \in Cards : CardPresent(slot', d) /\ ids'[d] = row.id => d = row.card
    <3>1. row.id \in Nat
      BY <2>1, SigningAssumption DEF Sound, Share, Choice, Ids
    <3>2. /\ row.id < minted
          /\ \A d \in Cards : CardPresent(slot, d) /\ ids[d] = row.id => d = row.card
      BY <2>1, <2>3 DEF Named
    <3> QED
      BY <1>1, <1>3, <1>4, <3>1, <3>2
  <2>4. Named(share'[j], ids', minted', slot')
    BY <2>1, <2>3 DEF Named
  <2> QED
    BY <2>1, <2>2, <2>4 DEF Kept
<1> QED
  BY <1>1, <1>2, <1>3, <1>8, <1>9 DEF Advance

LEMMA OtherRegistrySteps ==
    ASSUME IInv, OtherRegistryEvent
    PROVE  IInv' /\ Advance
<1>1. RegistryTypeOK' /\ RegistryConsistent'
  BY RegistryTypePreserved, RegistryConsistentPreserved DEF OtherRegistryEvent, IInv, TypeOK
<1>2. UNCHANGED <<slot, ids, minted, share>>
  BY DEF OtherRegistryEvent, AgentAppears, ReaderArrives, CapsChange
<1> QED
  BY <1>1, <1>2 DEF IInv, TypeOK, Advance, Kept

-----------------------------------------------------------------------------
(* The inductive invariant.                                                *)

LEMMA InitIInv == Init => IInv
<1> SUFFICES ASSUME Init PROVE IInv
  OBVIOUS
<1>1. \A j \in Jobs : share[j] = NotShared
  BY DEF Init
<1>2. NotShared.card = None /\ NotShared.phase = "idle"
  BY DEF NotShared
<1>3. \A c \in Cards : ~CardPresent(slot, c)
  BY RegistryAssumption DEF Init, CardPresent
<1>4. TypeOK /\ RegistryConsistent
  BY NotSharedSound, SigningAssumption
     DEF Init, TypeOK, RegistryTypeOK, RegistryConsistent, Ids
<1> QED
  BY <1>1, <1>2, <1>3, <1>4, NotSharedSound DEF IInv, Minted, Live, Named

LEMMA NextIInv == IInv /\ [Next]_vars => IInv' /\ Advance
<1> SUFFICES ASSUME IInv, [Next]_vars PROVE IInv' /\ Advance
  OBVIOUS
<1>1. ASSUME NEW j \in Jobs,
             ShareFile(j) \/ ChooseCard(j) \/ ChooseCertificate(j) \/ Runs(j)
      PROVE  IInv' /\ Advance
  BY <1>1, ShareFileSteps, ChooseCardSteps, ChooseCertificateSteps, RunsSteps
<1>2. CASE UNCHANGED vars
  BY <1>2 DEF vars, IInv, TypeOK, RegistryTypeOK, RegistryConsistent, Advance, Kept
<1> QED
  BY <1>1, <1>2, RegistryLossSteps, InsertionSteps, OtherRegistrySteps DEF Next

LEMMA Inductive == Spec => []IInv
<1>1. IInv /\ [Next]_vars => IInv'
  BY NextIInv
<1> QED
  BY <1>1, InitIInv, PTL DEF Spec

-----------------------------------------------------------------------------
(* The properties.                                                         *)

(* The registry, the ids and every share keep their types.                 *)
THEOREM TypeCorrect == Spec => []TypeOK
<1>1. IInv => TypeOK
  BY DEF IInv
<1> QED
  BY <1>1, Inductive, PTL

(* Whatever happened under the dialogs, an operation of a share runs on    *)
(* the card it was started on, and that card is there (the QPointer, read  *)
(* again in beginSign, and the failure that ends the job without it).      *)
THEOREM LiveCards == Spec => []OperationsOnLiveCards
<1>1. ASSUME IInv, NEW j \in Jobs, share[j].op # None
      PROVE  /\ share[j].op = share[j].started
             /\ share[j].op = share[j].card
             /\ CardPresent(slot, share[j].op)
  <2>1. Sound(share[j]) /\ Live(share[j], slot)
    BY <1>1 DEF IInv
  <2> QED
    BY <1>1, <2>1 DEF Sound, Share, Phase, Running, Live
<1>2. IInv => OperationsOnLiveCards
  BY <1>1 DEF OperationsOnLiveCards
<1> QED
  BY <1>2, Inductive, PTL

(* A share that asked which card signs starts on the card of the row that  *)
(* was taken; if the agent restarted under the dialog and minted the row's *)
(* id again, on a card in the reader of that row's name, which can sign.   *)
THEOREM AsPicked == Spec => StartsAsPicked
<1>1. ASSUME IInv, Next, NEW j \in Jobs, share[j].phase = "choosing", share'[j].phase = "certificates"
      PROVE  \E row \in share[j].choices, r \in readers :
                row.card = share'[j].picked /\ Started(j, r, row)
  <2>1. /\ share \in [Jobs -> Share] /\ RegistryTypeOK /\ Minted(ids, minted, slot)
        /\ Sound(share[j]) /\ Named(share[j], ids, minted, slot) /\ share[j].phase = "choosing"
    BY <1>1 DEF IInv, TypeOK
  <2>2. ASSUME NEW i \in Jobs, i # j,
               ShareFile(i) \/ ChooseCard(i) \/ ChooseCertificate(i) \/ Runs(i)
        PROVE  FALSE
    <3>1. share'[j] = share[j]
      BY <2>1, <2>2 DEF ShareFile, ChooseCard, ChooseCertificate, Runs,
                        CertificatesFinished, QueuedSign, SignFinished
    <3> QED
      BY <1>1, <3>1
  <2>3. ~(ShareFile(j) \/ ChooseCertificate(j) \/ Runs(j))
    BY <1>1 DEF ShareFile, ChooseCertificate, Runs, CertificatesFinished, QueuedSign, SignFinished
  <2>4. ~(Insertion \/ OtherRegistryEvent)
    BY <1>1 DEF Insertion, OtherRegistryEvent
  <2>5. ~RegistryLoss
    <3>1. ASSUME NEW lost \in SUBSET Cards, NEW told, LoseCards(lost, told), avail' \in BOOLEAN
          PROVE  FALSE
      BY <1>1, <3>1, LoseCardsEffect
    <3>2. avail' \in BOOLEAN \/ ~RegistryLoss
      BY <1>1 DEF RegistryLoss, AgentVanishes, ReaderLeaves, CardLeaves, IInv, TypeOK, RegistryTypeOK
    <3>3. \A r \in Readers : {slot[r]} \ {None} \in SUBSET Cards
      BY <1>1 DEF IInv, TypeOK, RegistryTypeOK
    <3> QED
      BY <3>1, <3>2, <3>3 DEF RegistryLoss
  <2>6. ChooseCard(j)
    BY <1>1, <2>2, <2>3, <2>4, <2>5 DEF Next
  <2>7. share' # [share EXCEPT ![j] = Report(share[j], "cancelled")]
    <3>1. Report(share[j], "cancelled").phase = "ended"
      BY NotSharedSound DEF Report, Share
    <3> QED
      BY <1>1, <2>1, <3>1
  <2>8. PICK row \in share[j].choices : share' = [share EXCEPT ![j] = Resolve(share[j], row)]
    BY <2>6, <2>7 DEF ChooseCard
  <2>9. share'[j] = Resolve(share[j], row)
    BY <2>1, <2>8
  <2>10. AnswersFor(Resolve(share[j], row), share[j], row)
    BY <2>1, ResolveEffect
  <2>11. AnswersFor(share'[j], share[j], row)
    BY <2>9, <2>10
  <2>12. row.card = share'[j].picked
    BY <1>1, <2>11 DEF AnswersFor
  <2>13. share'[j].phase = "certificates"
    BY <1>1
  <2>14. \E r \in readers : Started(j, r, row)
    BY <2>11, <2>13 DEF AnswersFor, Started
  <2> QED
    BY <2>12, <2>14
<1>2. IInv /\ [Next]_vars =>
         [ \A j \in Jobs :
             share[j].phase = "choosing" /\ share'[j].phase = "certificates" =>
               \E row \in share[j].choices, r \in readers :
                  row.card = share'[j].picked /\ Started(j, r, row) ]_vars
  BY <1>1
<1> QED
  BY <1>2, Inductive, PTL DEF Spec, StartsAsPicked

(* The shares implement SignPromise: whatever is lost, restarted, chosen   *)
(* or cancelled, each share reports at most once, and has written a signed *)
(* file exactly when it reported success.                                  *)
THEOREM ImplementsPromise == Spec => ImplementsSignPromise
<1>1. Init => Promise!Init
  BY NotSharedSound DEF Init, Promise!Init, Stage, NotShared
<1>2. ASSUME Advance PROVE Promise!Next
  BY <1>2 DEF Advance, Kept, Moved, Promise!Next, Promise!Same, Promise!Refuse, Promise!Run, Promise!Report
<1>3. IInv /\ [Next]_vars => [Promise!Next]_(Promise!vars)
  BY <1>2, NextIInv
<1> QED
  BY <1>1, <1>3, Inductive, PTL DEF Spec, ImplementsSignPromise, Promise!Spec

-----------------------------------------------------------------------------
(* What leaves a share without its terminal.                               *)

(* A share that waits for the agent does so by an operation on its card.   *)
Heard(s) == s.phase \in {"certificates", "signing"} => s.op # None /\ s.op = s.card

(* A report is heard.                                                      *)
LEMMA ReportIsHeard == \A s, outcome : Heard(Report(s, outcome))
BY DEF Report, NotShared, Heard

(* A job that starts lists the certificates of its card, or has failed.    *)
LEMMA StartIsHeard ==
    ASSUME NEW s, NEW c \in Cards
    PROVE  Heard(StartJob(s, c))
<1> DEFINE u == [NotShared EXCEPT !.card = c, !.started = c, !.picked = s.picked]
           v == [u EXCEPT !.phase = "certificates", !.op = c]
<1>1. StartJob(s, c) = IF ~HasCapability(caps, c, Pki) THEN Report(u, "failed") ELSE v
  BY DEF StartJob
<1>2. v.op = c /\ v.card = c /\ c # None
  BY RegistryAssumption DEF NotShared
<1> HIDE DEF u, v
<1> QED
  BY <1>1, <1>2, ReportIsHeard DEF Heard

(* So do the two ways to choose its card.                                  *)
LEMMA ChoiceIsHeard ==
    ASSUME RegistryTypeOK, NEW s \in Share
    PROVE  /\ Heard(StartShare(s))
           /\ \A pick \in s.choices : Heard(Resolve(s, pick))
<1>1. Heard(StartShare(s))
  <2>1. ASSUME NEW rows
        PROVE  Heard([s EXCEPT !.phase = "choosing", !.choices = rows])
    BY DEF Share, Heard
  <2>2. CASE ~avail \/ HoldersOfSigners = {}
    BY <2>2, ReportIsHeard DEF StartShare
  <2>3. CASE ~(~avail \/ HoldersOfSigners = {})
    <3>1. CASE \E r \in HoldersOfSigners : HoldersOfSigners = {r}
      <4> DEFINE r == CHOOSE r \in HoldersOfSigners : TRUE
      <4>1. r \in HoldersOfSigners /\ StartShare(s) = StartJob(s, slot[r])
        BY <2>3, <3>1 DEF StartShare
      <4> HIDE DEF r
      <4>2. slot[r] \in Cards
        BY <4>1 DEF HoldersOfSigners, RegistryTypeOK
      <4> QED
        BY <4>1, <4>2, StartIsHeard
    <3>2. CASE ~(\E r \in HoldersOfSigners : HoldersOfSigners = {r})
      BY <2>1, <2>3, <3>2 DEF StartShare
    <3> QED
      BY <3>1, <3>2
  <2> QED
    BY <2>2, <2>3
<1>2. ASSUME NEW pick \in s.choices
      PROVE  Heard(Resolve(s, pick))
  <2> DEFINE u == [s EXCEPT !.picked = pick.card]
             live == {r \in ReaderOfId(pick.id) : StillNames(pick, r)}
             r == CHOOSE r \in live : TRUE
  <2>1. Resolve(s, pick) = IF live = {} THEN Report(u, "failed") ELSE StartJob(u, slot[r])
    BY DEF Resolve
  <2>2. live # {} => slot[r] \in Cards
    <3>1. live # {} => r \in live
      OBVIOUS
    <3> HIDE DEF r
    <3> QED
      BY <3>1 DEF ReaderOfId, RegistryTypeOK
  <2> HIDE DEF u, live, r
  <2> QED
    BY <2>1, <2>2, ReportIsHeard, StartIsHeard
<1> QED
  BY <1>1, <1>2

(* The slots of a job start an operation on its card, go on without one,   *)
(* or report.                                                              *)
LEMMA SlotsAreHeard ==
    ASSUME NEW s \in Share
    PROVE  /\ \A result \in CertificatesResult : Heard(OnCertificatesFinished(s, result))
           /\ Heard(QueueSign(s))
           /\ \A opened \in BOOLEAN : Heard(BeginSign(s, opened))
           /\ \A result \in SignResult : Heard(OnSignFinished(s, result))
<1>1. ASSUME NEW u \in Share PROVE Heard(QueueSign(u))
  BY DEF QueueSign, Share, Heard
<1>2. ASSUME NEW result \in CertificatesResult
      PROVE  Heard(OnCertificatesFinished(s, result))
  <2> DEFINE u == [s EXCEPT !.op = None]
  <2>1. u \in Share
    BY DEF Share
  <2>2. Heard([u EXCEPT !.phase = "picking"])
    BY <2>1 DEF Share, Heard
  <2>3. OnCertificatesFinished(s, result) \in {Report(u, "failed"), QueueSign(u), [u EXCEPT !.phase = "picking"]}
    BY DEF OnCertificatesFinished, CertificatesResult
  <2> HIDE DEF u
  <2> QED
    BY <1>1, <2>1, <2>2, <2>3, ReportIsHeard
<1>3. ASSUME NEW opened \in BOOLEAN
      PROVE  Heard(BeginSign(s, opened))
  <2>1. s.card # None => Heard([s EXCEPT !.phase = "signing", !.op = s.card])
    BY DEF Share, Heard
  <2> QED
    BY <2>1, ReportIsHeard DEF BeginSign
<1>4. ASSUME NEW result \in SignResult
      PROVE  Heard(OnSignFinished(s, result))
  BY ReportIsHeard DEF OnSignFinished
<1> QED
  BY <1>1, <1>2, <1>3, <1>4

(* The step lost cards, none of which is in a reader any more.             *)
Lost(s, t) ==
    \E lost, gone, swept :
        /\ swept = s \/ swept = Report(s, "failed")
        /\ t = Nulled(swept, lost, gone)
        /\ \A c \in Cards \cap lost : ~CardPresent(slot', c)

(* A step keeps a share, leaves it heard, or takes its card.               *)
LEMMA StepIsHeard ==
    ASSUME IInv, Next, NEW j \in Jobs
    PROVE  share'[j] = share[j] \/ Heard(share'[j]) \/ Lost(share[j], share'[j])
<1>1. share \in [Jobs -> Share] /\ share[j] \in Share /\ RegistryTypeOK /\ RegistryConsistent
  BY DEF IInv, TypeOK
<1>2. ASSUME NEW i \in Jobs, NEW t, share' = [share EXCEPT ![i] = t], Heard(t)
      PROVE  share'[j] = share[j] \/ Heard(share'[j])
  BY <1>1, <1>2
<1>3. ASSUME NEW i \in Jobs, ShareFile(i) \/ ChooseCard(i) \/ ChooseCertificate(i) \/ Runs(i)
      PROVE  \E t : share' = [share EXCEPT ![i] = t] /\ Heard(t)
  <2>1. share[i] \in Share
    BY <1>1
  <2>2. CASE ShareFile(i)
    <3>1. \/ share' = [share EXCEPT ![i] = StartShare(share[i])]
          \/ share' = [share EXCEPT ![i] = Report(share[i], "failed")]
      BY <2>2 DEF ShareFile
    <3> QED
      BY <1>1, <2>1, <3>1, ChoiceIsHeard, ReportIsHeard
  <2>3. CASE ChooseCard(i)
    <3>1. \/ \E pick \in share[i].choices : share' = [share EXCEPT ![i] = Resolve(share[i], pick)]
          \/ share' = [share EXCEPT ![i] = Report(share[i], "cancelled")]
      BY <2>3 DEF ChooseCard
    <3> QED
      BY <1>1, <2>1, <3>1, ChoiceIsHeard, ReportIsHeard
  <2>4. CASE ChooseCertificate(i) \/ Runs(i)
    BY <2>1, <2>4, SlotsAreHeard, ReportIsHeard
       DEF ChooseCertificate, Runs, CertificatesFinished, QueuedSign, SignFinished
  <2> QED
    BY <1>3, <2>2, <2>3, <2>4
<1>4. CASE Insertion \/ OtherRegistryEvent
  BY <1>4 DEF Insertion, OtherRegistryEvent
<1>5. ASSUME NEW lost, NEW told, LoseCards(lost, told),
             \A c \in Cards \cap lost : ~CardPresent(slot', c)
      PROVE  Lost(share[j], share'[j])
  <2> DEFINE swept == IF j \in told /\ share[j].op \in lost THEN Report(share[j], "failed") ELSE share[j]
             gone == ~avail' /\ share[j].phase = "choosing"
  <2>1. share'[j] = Nulled(swept, lost, gone)
    BY <1>5 DEF LoseCards, Nulled
  <2>2. swept = share[j] \/ swept = Report(share[j], "failed")
    OBVIOUS
  <2> HIDE DEF swept, gone
  <2> QED
    BY <1>5, <2>1, <2>2 DEF Lost
<1>6. CASE RegistryLoss
  <2>1. ASSUME NEW told, AgentVanishes, LoseCards(Cards, told)
        PROVE  Lost(share[j], share'[j])
    <3>1. \A c \in Cards : ~CardPresent(slot', c)
      BY <2>1, RegistryAssumption DEF AgentVanishes, CardPresent
    <3> QED
      BY <1>5, <2>1, <3>1
  <2>2. ASSUME NEW told, NEW r \in Readers, ReaderLeaves(r) \/ CardLeaves(r),
               LoseCards({slot[r]} \ {None}, told)
        PROVE  Lost(share[j], share'[j])
    <3>1. slot' = [slot EXCEPT ![r] = None]
      BY <2>2 DEF ReaderLeaves, CardLeaves
    <3>2. \A c \in Cards \cap ({slot[r]} \ {None}) : ~CardPresent(slot', c)
      BY <1>1, <3>1, PulledIsGone
    <3> QED
      BY <1>5, <2>2, <3>2
  <2> QED
    BY <1>6, <2>1, <2>2 DEF RegistryLoss
<1> QED
  BY <1>2, <1>3, <1>4, <1>6 DEF Next

(* A lost card takes the operation of a share, and its pointer with it.    *)
LEMMA LossIsUnheard ==
    ASSUME NEW s \in Share, NEW t, Lost(s, t), None \notin Cards
    PROVE  /\ Undelivered(t) /\ ~Undelivered(s) => s.op # None /\ ~CardPresent(slot', s.op)
           /\ (s.phase \in {"certificates", "signing"} => s.op = s.card)
                => (t.phase \in {"certificates", "signing"} => t.op = t.card)
<1>1. PICK lost, gone, swept :
         /\ swept = s \/ swept = Report(s, "failed")
         /\ t = Nulled(swept, lost, gone)
         /\ \A c \in Cards \cap lost : ~CardPresent(slot', c)
  BY DEF Lost
<1>2. CASE swept = Report(s, "failed")
  <2>1. t.phase = "ended"
    BY <1>1, <1>2 DEF Nulled, Report, NotShared
  <2> QED
    BY <2>1 DEF Undelivered
<1>3. CASE swept = s
  <2>1. /\ t.phase = s.phase
        /\ t.op = IF s.op \in lost THEN None ELSE s.op
        /\ t.card = IF s.card \in lost THEN None ELSE s.card
        /\ s.op \in Cards \cup {None}
    BY <1>1, <1>3 DEF Nulled, Share
  <2> QED
    BY <1>1, <2>1 DEF Undelivered
<1> QED
  BY <1>1, <1>2, <1>3

(* A share that has started and not ended is in its dialog, on its way to  *)
(* the sign, or at work on its card by the operation it waits for; it is   *)
(* without one only when it has lost that card.                            *)
StartedSharesGoOn ==
    \A j \in Jobs : share[j].started # None =>
        \/ share[j].outcome # "none"
        \/ share[j].phase \in {"picking", "queued"}
        \/ share[j].phase \in {"certificates", "signing"} /\ share[j].op = share[j].card

(* A share goes without the terminal of its operation only when its card   *)
(* is lost: no other step, of it or of another share, leaves it waiting    *)
(* for an operation that is not there.                                     *)
DesertedWithItsCard ==
    [][ \A j \in Jobs : ~Undelivered(share[j]) /\ Undelivered(share'[j]) =>
          share[j].op # None /\ ~CardPresent(slot', share[j].op) ]_vars

(* The phases of SignJob leave it no other place to be, which is the       *)
(* safety half of SharesEnd: while it has its card, a started share waits  *)
(* for an answer of the agent, the user, or a turn of the event loop.      *)
THEOREM SharesGoOn == Spec => []StartedSharesGoOn
<1> DEFINE AtWork == \A j \in Jobs :
              share[j].phase \in {"certificates", "signing"} => share[j].op = share[j].card
<1>1. Init => AtWork
  BY DEF Init, NotShared
<1>2. ASSUME IInv, AtWork, Next, NEW j \in Jobs, share'[j].phase \in {"certificates", "signing"}
      PROVE  share'[j].op = share'[j].card
  <2>1. share[j] \in Share /\ None \notin Cards
    BY <1>2, RegistryAssumption DEF IInv, TypeOK
  <2> QED
    BY <1>2, <2>1, StepIsHeard, LossIsUnheard DEF Heard
<1>3. IInv /\ AtWork /\ [Next]_vars => AtWork'
  BY <1>2 DEF vars
<1>4. ASSUME IInv, AtWork, NEW j \in Jobs, share[j].started # None
      PROVE  \/ share[j].outcome # "none"
             \/ share[j].phase \in {"picking", "queued"}
             \/ share[j].phase \in {"certificates", "signing"} /\ share[j].op = share[j].card
  <2>1. Sound(share[j]) /\ share[j].phase \in Phase
    BY <1>4 DEF IInv, Sound, Share
  <2> QED
    BY <1>4, <2>1 DEF Sound, Phase
<1>5. IInv /\ AtWork => StartedSharesGoOn
  BY <1>4 DEF StartedSharesGoOn
<1> HIDE DEF AtWork
<1> QED
  BY <1>1, <1>3, <1>5, Inductive, PTL DEF Spec

(* The removal of its card is all that can leave a job hanging, as         *)
(* SharesEnd exempts: every slot of SignJob starts an operation on a card  *)
(* it still has, goes on without one, or reports.                          *)
THEOREM OnlyLossDeserts == Spec => DesertedWithItsCard
<1>1. ASSUME IInv, Next, NEW j \in Jobs, ~Undelivered(share[j]), Undelivered(share'[j])
      PROVE  share[j].op # None /\ ~CardPresent(slot', share[j].op)
  <2>1. share[j] \in Share /\ None \notin Cards
    BY <1>1, RegistryAssumption DEF IInv, TypeOK
  <2>2. ~Heard(share'[j]) /\ share'[j] # share[j]
    BY <1>1 DEF Heard, Undelivered
  <2>3. Lost(share[j], share'[j])
    BY <1>1, <2>2, StepIsHeard
  <2> QED
    BY <1>1, <2>1, <2>3, LossIsUnheard
<1>2. IInv /\ [Next]_vars =>
         [ \A j \in Jobs : ~Undelivered(share[j]) /\ Undelivered(share'[j]) =>
             share[j].op # None /\ ~CardPresent(slot', share[j].op) ]_vars
  BY <1>1
<1> QED
  BY <1>2, Inductive, PTL DEF Spec, DesertedWithItsCard
=============================================================================
