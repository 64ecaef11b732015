-------------------------- MODULE CardWorkerProofs --------------------------
(***************************************************************************)
(* Theorems about the `card:/' worker, for every set of readers and cards, *)
(* every set of paths and every bound on ids and messages under way.       *)
(*                                                                         *)
(* The worker's registry lags behind the agent's.  What ties the two is    *)
(* the channel: a card the worker knows, or is about to be told of, is     *)
(* the one in that reader of the agent, or a message that takes it away is *)
(* under way (Tracked).  With that, what the agent brings for a request is *)
(* of the request's card unless the worker is told of the removal first    *)
(* (Reading, Exporting).                                                   *)
(***************************************************************************)
EXTENDS CardWorker, CardTreeProofs

-----------------------------------------------------------------------------
(* The inductive invariant.                                                *)

Entries ==
    {Segment(r) : r \in Readers}
    \cup {InfoTxt, IdentityDirName, PkiDirName, IdentityTxt, CertDerName, CertPemName,
          Segment("photo.jp2"), Segment("photo.jpg")}
    \cup UNION {FolderNames(CertsOf[c]) : c \in Cards}

Segments == UNION {Range(path) : path \in Paths}

Slots == [Readers -> Presence \cup {None}]

AgentState == [up : BOOLEAN, slot : Slots, minted : Ids]

Registry == [up : BOOLEAN, slot : Slots]

Reported == [what : {"reply"}, end : Ends, data : Data]

Message ==
    [what : {"up", "lost"}, reader : {None}, id : {None}, card : {None}]
    \cup [what : {"inserted"}, reader : Readers, id : Ids, card : Cards]
    \cup [what : {"removed"}, reader : Readers, id : Ids, card : {None}]
    \cup Reported
    \cup {Unheard}

Answered == [result : {"none", "pass"} \cup Error, names : SUBSET Entries, data : Data]

Requests ==
    [stage : {"idle", "reading", "exporting"}, kind : NodeKind, id : Ids \cup {None},
     card : Cards \cup {None}, folder : Segments \cup {None}, wanted : CertIds \cup {None},
     op : {"none", "running", "finished", "destroyed"}, end : Ends, data : Data,
     quit : BOOLEAN, gone : BOOLEAN, answer : Answered]

Typed ==
    /\ agent \in AgentState
    /\ serving \in Fetch \cup {None}
    /\ channel \in Seq(Message)
    /\ view \in Registry
    /\ worker \in Requests

(* Message m takes the card with id k out of reader r.                     *)
Takes(m, r, k) == m.what = "lost" \/ (m.what = "removed" /\ m.reader = r /\ m.id = k)

(* A message between the i-th and the j-th does.                           *)
Gone(ch, r, k, i, j) == \E n \in DOMAIN ch : i < n /\ n < j /\ Takes(ch[n], r, k)

(* Message m speaks of another card than p in p's place: one in its reader *)
(* or of its id comes, or another than it leaves the reader.               *)
Contradicts(m, p, r) ==
    \/ m.what = "inserted" /\ (m.reader = r \/ m.id = p.id)
    \/ m.what = "removed" /\ m.reader = r /\ m.id # p.id

(* The card p, known in reader r once the i-th message is handled, is the  *)
(* agent's in that reader or taken out by a later message, and no message  *)
(* contradicts it before one has taken it out.                             *)
Tracked(p, r, i, ch, slots) ==
    /\ \A j \in DOMAIN ch : i < j /\ Contradicts(ch[j], p, r) => Gone(ch, r, p.id, i, j)
    /\ slots[r] = p \/ Gone(ch, r, p.id, i, Len(ch) + 1)

(* In slots s, no two cards have one id.                                   *)
Distinct(s) ==
    \A r, q \in Readers : s[r] # None /\ s[q] # None /\ s[r].id = s[q].id => r = q

(* The agent's ids are its own and below the next; a dead one has no card. *)
AgentSound(a) ==
    /\ ~a.up => a.slot = NoCards
    /\ \A r \in Readers : a.slot[r] # None => a.slot[r].id < a.minted
    /\ Distinct(a.slot)

(* No message after the j-th says that the agent was lost.                 *)
Current(ch, j) == \A n \in DOMAIN ch : j < n => ch[n].what # "lost"

(* A card reported as removed by the agent as it is has not come back.     *)
Removals(a, ch) ==
    \A j \in DOMAIN ch :
        ch[j].what = "removed" /\ Current(ch, j) =>
            /\ a.up
            /\ ch[j].id < a.minted
            /\ \A r \in Readers : a.slot[r] # None => a.slot[r].id # ch[j].id

Coming(m) == [id |-> m.id, card |-> m.card]

Mirrored(v, a, ch) ==
    /\ Distinct(v.slot)
    /\ \A r \in Readers : v.slot[r] # None => Tracked(v.slot[r], r, 0, ch, a.slot)
    /\ \A i \in DOMAIN ch :
         ch[i].what = "inserted" => Tracked(Coming(ch[i]), ch[i].reader, i, ch, a.slot)

Lagging(v, a, ch) == AgentSound(a) /\ Removals(a, ch) /\ Mirrored(v, a, ch)

NoReply == \A i \in DOMAIN channel : channel[i].what # "reply"

(* At most one request is with the agent, or its reply under way.          *)
Outstanding ==
    /\ worker.stage = "idle" => serving = None /\ NoReply /\ worker.op = "none"
    /\ worker.op = "finished" => serving = None /\ NoReply
    /\ serving # None => agent.up /\ NoReply
    /\ \A i, j \in DOMAIN channel : channel[i].what = "reply" /\ channel[j].what = "reply" => i = j

(* A read is of the card the worker knows by that id: destroyed with it,   *)
(* answered from it.                                                       *)
Reading ==
    worker.stage = "reading" =>
        /\ worker.id \in Ids /\ worker.card \in Cards
        /\ worker.op # "destroyed" =>
             \E r \in Readers : view.slot[r] = [id |-> worker.id, card |-> worker.card]
        /\ serving # None =>
             /\ serving.by = "card" /\ serving.id = worker.id /\ worker.id < agent.minted
             /\ \A r \in Readers : agent.slot[r] # None /\ agent.slot[r].id = worker.id
                                     => agent.slot[r].card = worker.card
        /\ \A i \in DOMAIN channel :
             channel[i].what = "reply" /\ channel[i].end.status = "Ok" => channel[i].data.card = worker.card
        /\ worker.op = "finished" /\ worker.end.status = "Ok" => worker.data.card = worker.card

(* What an export of the certificate wanted may bring.                     *)
Wanted(end, data) ==
    data \in {NoData, [card |-> worker.card, cert |-> worker.wanted]} /\ end.code # "KeyNotFound"

(* The worker will know of the removal before the i-th message.            *)
Pulled(i) == \E n \in DOMAIN channel : n < i /\ channel[n].what = "removed" /\ channel[n].id = worker.id

(* An export is of the certificate wanted, from the request's card, unless *)
(* the removal of that card is known first.                                *)
Exporting ==
    worker.stage = "exporting" =>
        /\ worker.id \in Ids /\ worker.card \in Cards
        /\ worker.kind \in {"CertDerLeaf", "CertPemLeaf"}
        /\ worker.wanted # None
        /\ worker.wanted = ResolveCertId(CertsOf[worker.card], worker.folder)
        /\ serving # None =>
             /\ serving.by = "reader" /\ serving.cert = worker.wanted /\ serving.reader \in Readers
             /\ \/ worker.gone
                \/ agent.slot[serving.reader] = [id |-> worker.id, card |-> worker.card]
                \/ Pulled(Len(channel) + 1)
        /\ \A i \in DOMAIN channel :
             channel[i].what = "reply" =>
                 worker.gone \/ Pulled(i) \/ Wanted(channel[i].end, channel[i].data)
        /\ worker.gone \/ Wanted(worker.end, worker.data)

(* A listing that names a card has the folders of its certificates.        *)
Listed(answer) ==
    answer.data.card # None /\ answer.names # {} =>
        answer.names = FolderNames(CertsOf[answer.data.card])

IInv ==
    /\ Typed
    /\ Lagging(view, agent, channel)
    /\ Outstanding
    /\ Reading
    /\ Exporting
    /\ Listed(worker.answer)

-----------------------------------------------------------------------------
(* The channel, as far as it carries news of cards.                        *)

Quiet(m) == m.what \in {"reply", "unheard"}

(* cg has the news of ch, and replies besides.                             *)
SameNews(ch, cg) ==
    /\ DOMAIN ch = 1..Len(ch) /\ DOMAIN cg = 1..Len(cg)
    /\ Len(ch) \in Nat /\ Len(cg) \in Nat /\ Len(ch) <= Len(cg)
    /\ \A n \in DOMAIN ch : cg[n] = ch[n] \/ (Quiet(ch[n]) /\ Quiet(cg[n]))
    /\ \A n \in DOMAIN cg : n > Len(ch) => Quiet(cg[n])

LEMMA GoneQuiet ==
    ASSUME NEW ch, NEW cg, SameNews(ch, cg), NEW r, NEW k, NEW i \in Nat, NEW j \in Nat,
           Gone(ch, r, k, i, j)
    PROVE  Gone(cg, r, k, i, j)
  <1>1. PICK n \in DOMAIN ch : i < n /\ n < j /\ Takes(ch[n], r, k)
    BY DEF Gone
  <1>2. n \in DOMAIN cg
    BY DEF SameNews
  <1>3. cg[n] = ch[n]
    BY <1>1 DEF SameNews, Quiet, Takes
  <1>. QED BY <1>1, <1>2, <1>3 DEF Gone

LEMMA TrackedQuiet ==
    ASSUME NEW ch, NEW cg, SameNews(ch, cg), NEW p, NEW r, NEW i \in Nat, NEW slots,
           Tracked(p, r, i, ch, slots)
    PROVE  Tracked(p, r, i, cg, slots)
  <1>1. ASSUME NEW j \in DOMAIN cg, i < j, Contradicts(cg[j], p, r)
        PROVE  Gone(cg, r, p.id, i, j)
    <2>1. j \in Nat /\ ~Quiet(cg[j])
      BY <1>1 DEF SameNews, Quiet, Contradicts
    <2>2. j \in DOMAIN ch /\ cg[j] = ch[j]
      BY <2>1 DEF SameNews
    <2>3. Gone(ch, r, p.id, i, j)
      BY <1>1, <2>2 DEF Tracked
    <2>. QED BY <2>1, <2>3, GoneQuiet
  <1>2. ASSUME Gone(ch, r, p.id, i, Len(ch) + 1)
        PROVE  Gone(cg, r, p.id, i, Len(cg) + 1)
    <2>1. Len(ch) + 1 \in Nat
      BY DEF SameNews
    <2>2. Gone(cg, r, p.id, i, Len(ch) + 1)
      BY <1>2, <2>1, GoneQuiet
    <2>. QED BY <2>2 DEF Gone, SameNews
  <1>. QED BY <1>1, <1>2 DEF Tracked

LEMMA CurrentQuiet ==
    ASSUME NEW ch, NEW cg, SameNews(ch, cg), NEW j \in DOMAIN ch, Current(cg, j)
    PROVE  Current(ch, j)
  BY DEF SameNews, Current, Quiet

(* Replies come and go without a change of what the worker knows.          *)
LEMMA LaggingQuiet ==
    ASSUME NEW ch, NEW cg, SameNews(ch, cg), NEW v, NEW a, Lagging(v, a, ch)
    PROVE  Lagging(v, a, cg)
  <1>1. ASSUME NEW j \in DOMAIN cg, ~Quiet(cg[j])
        PROVE  j \in Nat /\ j \in DOMAIN ch /\ cg[j] = ch[j]
    BY <1>1 DEF SameNews
  <1>2. Removals(a, cg)
    <2>1. ASSUME NEW j \in DOMAIN cg, cg[j].what = "removed", Current(cg, j)
          PROVE  /\ a.up
                 /\ cg[j].id < a.minted
                 /\ \A r \in Readers : a.slot[r] # None => a.slot[r].id # cg[j].id
      <3>1. j \in DOMAIN ch /\ cg[j] = ch[j]
        BY <1>1, <2>1 DEF Quiet
      <3>2. Current(ch, j)
        BY <2>1, <3>1, CurrentQuiet
      <3>. QED BY <2>1, <3>1, <3>2 DEF Lagging, Removals
    <2>. QED BY <2>1 DEF Removals
  <1>3. Mirrored(v, a, cg)
    <2>1. ASSUME NEW r \in Readers, v.slot[r] # None
          PROVE  Tracked(v.slot[r], r, 0, cg, a.slot)
      BY <2>1, TrackedQuiet DEF Lagging, Mirrored
    <2>2. ASSUME NEW i \in DOMAIN cg, cg[i].what = "inserted"
          PROVE  Tracked(Coming(cg[i]), cg[i].reader, i, cg, a.slot)
      <3>1. i \in Nat /\ i \in DOMAIN ch /\ cg[i] = ch[i]
        BY <1>1, <2>2 DEF Quiet
      <3>. QED BY <2>2, <3>1, TrackedQuiet DEF Lagging, Mirrored
    <2>. QED BY <2>1, <2>2 DEF Lagging, Mirrored
  <1>. QED BY <1>2, <1>3 DEF Lagging

-----------------------------------------------------------------------------
(* The agent reports: one more message on the channel.                     *)

Appended(ch, cg, m) ==
    /\ DOMAIN ch = 1..Len(ch) /\ DOMAIN cg = 1..Len(cg)
    /\ Len(ch) \in Nat /\ Len(cg) = Len(ch) + 1
    /\ \A n \in DOMAIN ch : cg[n] = ch[n]
    /\ cg[Len(cg)] = m

LEMMA AppendIs ==
    ASSUME NEW S, NEW ch \in Seq(S), NEW m \in S
    PROVE  Append(ch, m) \in Seq(S) /\ Appended(ch, Append(ch, m), m)
  BY DEF Appended

LEMMA GoneAppended ==
    ASSUME NEW ch, NEW cg, NEW m, Appended(ch, cg, m), NEW r, NEW k, NEW i, NEW j \in Nat,
           Gone(ch, r, k, i, j)
    PROVE  Gone(cg, r, k, i, j) /\ Gone(cg, r, k, i, j + 1)
  BY DEF Gone, Appended

(* A card stays tracked when the message keeps to what the agent does: it  *)
(* contradicts no card the agent holds, and takes out what it gives up.    *)
LEMMA TrackedAppended ==
    ASSUME NEW ch, NEW cg, NEW m, Appended(ch, cg, m),
           NEW p, NEW r, NEW i \in 0..Len(ch), NEW s, NEW t,
           Tracked(p, r, i, ch, s),
           s[r] = p => ~Contradicts(m, p, r) /\ (t[r] = p \/ Takes(m, r, p.id)),
           Gone(ch, r, p.id, i, Len(ch) + 1) \/ s[r] = p
    PROVE  Tracked(p, r, i, cg, t)
  <1>1. Len(cg) = Len(ch) + 1 /\ Len(ch) + 1 \in Nat
    BY DEF Appended
  <1>2. ASSUME NEW j \in DOMAIN cg, i < j, Contradicts(cg[j], p, r)
        PROVE  Gone(cg, r, p.id, i, j)
    <2>1. CASE j \in DOMAIN ch
      <3>1. j \in Nat /\ cg[j] = ch[j]
        BY <2>1 DEF Appended
      <3>2. Gone(ch, r, p.id, i, j)
        BY <1>2, <2>1, <3>1 DEF Tracked
      <3>. QED BY <3>1, <3>2, GoneAppended
    <2>2. CASE j \notin DOMAIN ch
      <3>1. j = Len(ch) + 1 /\ cg[j] = m
        BY <2>2 DEF Appended
      <3>2. Gone(ch, r, p.id, i, Len(ch) + 1)
        BY <1>2, <3>1
      <3>. QED BY <1>1, <3>1, <3>2, GoneAppended
    <2>. QED BY <2>1, <2>2
  <1>3. t[r] = p \/ Gone(cg, r, p.id, i, Len(cg) + 1)
    <2>1. CASE Gone(ch, r, p.id, i, Len(ch) + 1)
      BY <1>1, <2>1, GoneAppended
    <2>2. CASE s[r] = p
      BY <2>2 DEF Gone, Appended
    <2>. QED BY <2>1, <2>2
  <1>. QED BY <1>2, <1>3 DEF Tracked

LEMMA CurrentAppended ==
    ASSUME NEW ch, NEW cg, NEW m, Appended(ch, cg, m), NEW j \in DOMAIN ch, Current(cg, j)
    PROVE  Current(ch, j) /\ m.what # "lost" /\ cg[j] = ch[j]
  BY DEF Appended, Current

(* What a report must keep to for the worker's registry to keep lagging:   *)
(* the agent stays sound from a to b, and the message says what it did.    *)
Truthful(a, b, m) ==
    /\ AgentSound(b)
    /\ \A r \in Readers, p \in Presence :
         a.slot[r] = p => ~Contradicts(m, p, r) /\ (b.slot[r] = p \/ Takes(m, r, p.id))
    /\ m.what = "inserted" => b.slot[m.reader] = Coming(m)

LEMMA LaggingAppended ==
    ASSUME NEW ch \in Seq(Message), NEW cg \in Seq(Message), NEW m \in Message, Appended(ch, cg, m),
           NEW a \in AgentState, NEW b \in AgentState, NEW v \in Registry,
           Lagging(v, a, ch), Truthful(a, b, m), Removals(b, cg)
    PROVE  Lagging(v, b, cg)
  <1>1. ASSUME NEW r \in Readers, NEW p \in Presence, NEW i \in 0..Len(ch),
               Tracked(p, r, i, ch, a.slot)
        PROVE  Tracked(p, r, i, cg, b.slot)
    <2>1. a.slot[r] = p => ~Contradicts(m, p, r) /\ (b.slot[r] = p \/ Takes(m, r, p.id))
      BY DEF Truthful
    <2>2. Gone(ch, r, p.id, i, Len(ch) + 1) \/ a.slot[r] = p
      BY <1>1 DEF Tracked
    <2>. QED BY <1>1, <2>1, <2>2, TrackedAppended
  <1>2. \A r \in Readers : v.slot[r] # None => v.slot[r] \in Presence
    BY DEF Registry, Slots
  <1>3. ASSUME NEW i \in DOMAIN cg, cg[i].what = "inserted"
        PROVE  Tracked(Coming(cg[i]), cg[i].reader, i, cg, b.slot)
    <2>1. cg[i] \in Message
      BY DEF Appended
    <2>2. Coming(cg[i]) \in Presence /\ cg[i].reader \in Readers
      BY <1>3, <2>1 DEF Message, Presence, Coming, Reported, Unheard
    <2>3. CASE i \in DOMAIN ch
      <3>1. i \in 0..Len(ch) /\ cg[i] = ch[i]
        BY <2>3 DEF Appended
      <3>2. Tracked(Coming(ch[i]), ch[i].reader, i, ch, a.slot)
        BY <1>3, <2>3, <3>1 DEF Lagging, Mirrored
      <3>. QED BY <1>1, <2>2, <3>1, <3>2
    <2>4. CASE i \notin DOMAIN ch
      <3>1. i = Len(cg) /\ cg[i] = m /\ \A j \in DOMAIN cg : ~(i < j)
        BY <2>4 DEF Appended
      <3>2. b.slot[cg[i].reader] = Coming(cg[i])
        BY <1>3, <3>1 DEF Truthful
      <3>. QED BY <3>1, <3>2 DEF Tracked
    <2>. QED BY <2>3, <2>4
  <1>4. 0 \in 0..Len(ch)
    OBVIOUS
  <1>5. \A r \in Readers : v.slot[r] # None => Tracked(v.slot[r], r, 0, cg, b.slot)
    BY <1>1, <1>2, <1>4 DEF Lagging, Mirrored
  <1>. QED BY <1>3, <1>5 DEF Lagging, Mirrored, Truthful

-----------------------------------------------------------------------------
(* The agent comes and goes, and its cards.                                *)

LEMMA NewsTyped ==
    /\ News("up", None, None, None) \in Message
    /\ News("lost", None, None, None) \in Message
    /\ \A r \in Readers, k \in Ids, c \in Cards : News("inserted", r, k, c) \in Message
    /\ \A r \in Readers, k \in Ids : News("removed", r, k, None) \in Message
    /\ \A end \in Ends, data \in Data : [what |-> "reply", end |-> end, data |-> data] \in Message
    /\ Unheard \in Message
  BY DEF News, Message, Reported, Unheard

LEMMA NobodyHome == NoCards \in Slots /\ Distinct(NoCards)
  BY DEF NoCards, Slots, Distinct

LEMMA PresenceNotNone == \A p \in Presence : p # None
  BY WorkerAssumption

LEMMA AgentStartsLags ==
    ASSUME Typed, Lagging(view, agent, channel), AgentStarts
    PROVE  /\ agent' \in AgentState /\ channel' \in Seq(Message)
           /\ Appended(channel, channel', News("up", None, None, None))
           /\ Lagging(view, agent', channel')
  <1>. DEFINE m == News("up", None, None, None)
  <1>1. agent' \in AgentState
    BY NobodyHome, WorkerAssumption DEF AgentStarts, AgentState, Ids
  <1>2. channel' \in Seq(Message) /\ Appended(channel, channel', m)
    BY NewsTyped, AppendIs DEF AgentStarts, Send, Typed
  <1>3. agent.slot = NoCards /\ agent'.slot = NoCards /\ agent'.up
    BY DEF AgentStarts, Lagging, AgentSound
  <1>4. m.what = "up"
    BY DEF News
  <1>5. Truthful(agent, agent', m)
    <2>1. AgentSound(agent')
      BY <1>3, NobodyHome DEF AgentSound, NoCards
    <2>. QED BY <1>3, <1>4, <2>1 DEF Truthful, Contradicts
  <1>6. Removals(agent', channel')
    <2>1. ASSUME NEW j \in DOMAIN channel', channel'[j].what = "removed", Current(channel', j)
          PROVE  FALSE
      <3>1. j \in DOMAIN channel
        BY <1>2, <1>4, <2>1 DEF Appended
      <3>2. Current(channel, j) /\ channel[j].what = "removed"
        BY <1>2, <2>1, <3>1, CurrentAppended
      <3>. QED BY <3>1, <3>2 DEF AgentStarts, Lagging, Removals
    <2>. QED BY <2>1 DEF Removals
  <1>7. Lagging(view, agent', channel')
    BY <1>1, <1>2, <1>5, <1>6, NewsTyped, LaggingAppended DEF Typed
  <1>. QED BY <1>1, <1>2, <1>7

LEMMA CardGoesInLags ==
    ASSUME Typed, Lagging(view, agent, channel), NEW r \in Readers, NEW c \in Cards, CardGoesIn(r, c)
    PROVE  /\ agent' \in AgentState /\ channel' \in Seq(Message)
           /\ Appended(channel, channel', News("inserted", r, agent.minted, c))
           /\ Lagging(view, agent', channel')
           /\ agent'.up /\ agent.up
           /\ agent'.minted = agent.minted + 1 /\ agent.minted \in Nat
           /\ agent'.slot = [agent.slot EXCEPT ![r] = [id |-> agent.minted, card |-> c]]
  <1>. DEFINE m == News("inserted", r, agent.minted, c)
              p == [id |-> agent.minted, card |-> c]
  <1>1. agent.minted \in Nat /\ agent.minted \in Ids /\ agent.minted + 1 \in Ids
    BY WorkerAssumption DEF CardGoesIn, Typed, AgentState, Ids
  <1>2. /\ agent'.up /\ agent.up /\ agent'.up \in BOOLEAN
        /\ agent'.minted = agent.minted + 1
        /\ agent'.slot = [agent.slot EXCEPT ![r] = p]
        /\ agent.slot[r] = None
    BY DEF CardGoesIn, Typed, AgentState
  <1>3. p \in Presence
    BY <1>1 DEF Presence
  <1>4. agent.slot \in Slots
    BY DEF Typed, AgentState
  <1>5. agent'.slot \in Slots
    BY <1>2, <1>3, <1>4 DEF Slots
  <1>6. agent' \in AgentState
    BY <1>1, <1>2, <1>5 DEF CardGoesIn, Typed, AgentState
  <1>7. m \in Message
    BY <1>1, NewsTyped
  <1>8. channel' \in Seq(Message) /\ Appended(channel, channel', m)
    BY <1>7, AppendIs DEF CardGoesIn, Send, Typed
  <1>9. m.what = "inserted" /\ m.reader = r /\ m.id = agent.minted /\ m.card = c
    BY DEF News
  <1>10. \A q \in Readers : agent.slot[q] # None => agent.slot[q].id < agent.minted /\ agent.slot[q].id \in Nat
    BY <1>4 DEF Lagging, AgentSound, Slots, Presence, Ids
  <1>11. \A q \in Readers : agent'.slot[q] = IF q = r THEN p ELSE agent.slot[q]
    BY <1>2, <1>4 DEF Slots
  <1>12. AgentSound(agent')
    <2>1. \A q \in Readers : agent'.slot[q] # None => agent'.slot[q].id < agent'.minted
      BY <1>1, <1>2, <1>10, <1>11
    <2>2. Distinct(agent'.slot)
      BY <1>1, <1>10, <1>11 DEF Distinct, Lagging, AgentSound
    <2>. QED BY <1>2, <2>1, <2>2 DEF AgentSound
  <1>13. Truthful(agent, agent', m)
    <2>1. ASSUME NEW q \in Readers, NEW o \in Presence, agent.slot[q] = o
          PROVE  ~Contradicts(m, o, q) /\ agent'.slot[q] = o
      <3>1. o # None
        BY PresenceNotNone
      <3>2. q # r /\ o.id < agent.minted /\ o.id \in Nat
        BY <1>2, <1>10, <2>1, <3>1
      <3>. QED BY <1>1, <1>9, <1>11, <2>1, <3>2 DEF Contradicts
    <2>2. agent'.slot[m.reader] = Coming(m)
      BY <1>9, <1>11 DEF Coming
    <2>. QED BY <1>12, <2>1, <2>2 DEF Truthful
  <1>14. Removals(agent', channel')
    <2>1. ASSUME NEW j \in DOMAIN channel', channel'[j].what = "removed", Current(channel', j)
          PROVE  /\ agent'.up
                 /\ channel'[j].id < agent'.minted
                 /\ \A q \in Readers : agent'.slot[q] # None => agent'.slot[q].id # channel'[j].id
      <3>1. j \in DOMAIN channel
        BY <1>8, <1>9, <2>1 DEF Appended
      <3>2. Current(channel, j) /\ channel'[j] = channel[j] /\ channel[j].what = "removed"
        BY <1>8, <2>1, <3>1, CurrentAppended
      <3>3. /\ channel[j].id < agent.minted
            /\ \A q \in Readers : agent.slot[q] # None => agent.slot[q].id # channel[j].id
        BY <3>1, <3>2 DEF Lagging, Removals
      <3>4. channel[j].id \in Nat
        <4>1. channel[j] \in Message
          BY <3>1 DEF Typed
        <4>. QED BY <3>2, <4>1 DEF Message, Reported, Unheard, Ids
      <3>. QED BY <1>1, <1>2, <1>11, <3>2, <3>3, <3>4
    <2>. QED BY <2>1 DEF Removals
  <1>15. Lagging(view, agent', channel')
    BY <1>6, <1>7, <1>8, <1>13, <1>14, LaggingAppended DEF Typed
  <1>. QED BY <1>1, <1>2, <1>6, <1>8, <1>15

LEMMA CardComesOutLags ==
    ASSUME Typed, Lagging(view, agent, channel), NEW r \in Readers, CardComesOut(r)
    PROVE  /\ agent' \in AgentState /\ channel' \in Seq(Message)
           /\ agent.slot[r] \in Presence
           /\ Appended(channel, channel', News("removed", r, agent.slot[r].id, None))
           /\ Lagging(view, agent', channel')
           /\ agent'.up /\ agent'.minted = agent.minted
           /\ agent'.slot = [agent.slot EXCEPT ![r] = None]
  <1>. DEFINE m == News("removed", r, agent.slot[r].id, None)
  <1>1. agent.slot \in Slots /\ agent.minted \in Ids
    BY DEF Typed, AgentState
  <1>2. agent.slot[r] # None /\ agent.slot[r] \in Presence
    BY <1>1 DEF CardComesOut, Slots
  <1>3. agent.slot[r].id \in Ids
    BY <1>2 DEF Presence
  <1>4. agent.up
    BY <1>2 DEF Lagging, AgentSound, NoCards
  <1>5. /\ agent'.up /\ agent'.up \in BOOLEAN /\ agent'.minted = agent.minted
        /\ agent'.slot = [agent.slot EXCEPT ![r] = None]
    BY <1>4 DEF CardComesOut, Typed, AgentState
  <1>6. agent'.slot \in Slots
    BY <1>1, <1>5 DEF Slots
  <1>7. agent' \in AgentState
    BY <1>5, <1>6 DEF CardComesOut, Typed, AgentState
  <1>8. m \in Message
    BY <1>3, NewsTyped
  <1>9. channel' \in Seq(Message) /\ Appended(channel, channel', m)
    BY <1>8, AppendIs DEF CardComesOut, Send, Typed
  <1>10. m.what = "removed" /\ m.reader = r /\ m.id = agent.slot[r].id
    BY DEF News
  <1>11. \A q \in Readers : agent'.slot[q] = IF q = r THEN None ELSE agent.slot[q]
    BY <1>1, <1>5 DEF Slots
  <1>12. /\ \A q \in Readers : agent.slot[q] # None => agent.slot[q].id < agent.minted
         /\ Distinct(agent.slot)
    BY DEF Lagging, AgentSound
  <1>13. AgentSound(agent')
    BY <1>5, <1>11, <1>12 DEF AgentSound, Distinct
  <1>14. Truthful(agent, agent', m)
    <2>1. ASSUME NEW q \in Readers, NEW o \in Presence, agent.slot[q] = o
          PROVE  ~Contradicts(m, o, q) /\ (agent'.slot[q] = o \/ Takes(m, q, o.id))
      BY <1>10, <1>11, <2>1 DEF Contradicts, Takes
    <2>. QED BY <1>10, <1>13, <2>1 DEF Truthful
  <1>15. Removals(agent', channel')
    <2>1. ASSUME NEW j \in DOMAIN channel', channel'[j].what = "removed", Current(channel', j)
          PROVE  /\ channel'[j].id < agent'.minted
                 /\ \A q \in Readers : agent'.slot[q] # None => agent'.slot[q].id # channel'[j].id
      <3>1. CASE j \in DOMAIN channel
        <4>1. Current(channel, j) /\ channel'[j] = channel[j] /\ channel[j].what = "removed"
          BY <1>9, <2>1, <3>1, CurrentAppended
        <4>2. /\ channel[j].id < agent.minted
              /\ \A q \in Readers : agent.slot[q] # None => agent.slot[q].id # channel[j].id
          BY <3>1, <4>1 DEF Lagging, Removals
        <4>. QED BY <1>5, <1>11, <4>1, <4>2
      <3>2. CASE j \notin DOMAIN channel
        <4>1. channel'[j] = m
          BY <1>9, <3>2 DEF Appended
        <4>. QED BY <1>2, <1>5, <1>10, <1>11, <1>12, <4>1 DEF Distinct
      <3>. QED BY <3>1, <3>2
    <2>. QED BY <1>5, <2>1 DEF Removals
  <1>16. Lagging(view, agent', channel')
    BY <1>7, <1>8, <1>9, <1>14, <1>15, LaggingAppended DEF Typed
  <1>. QED BY <1>2, <1>5, <1>7, <1>9, <1>16

(* A reply appended brings no news.                                        *)
LEMMA ReplyIsQuiet ==
    ASSUME NEW ch, NEW cg, NEW m, Appended(ch, cg, m), Quiet(m)
    PROVE  SameNews(ch, cg)
  BY DEF Appended, SameNews

AbandonedReply == [what |-> "reply", end |-> EndedAbandoned, data |-> NoData]

(* What the channel holds when the agent has died, but for its last        *)
(* message: the error the bus answers an outstanding request with.         *)
LastWords == IF serving = None THEN channel ELSE Append(channel, AbandonedReply)

LEMMA AbandonedTyped == AbandonedReply \in Message /\ Quiet(AbandonedReply)
  <1>1. NoData \in Data
    BY DEF NoData, Data
  <1>2. EndedAbandoned \in Ends
    BY DEF Ends
  <1>. QED BY <1>1, <1>2, NewsTyped DEF AbandonedReply, Quiet

LEMMA AgentDiesLags ==
    ASSUME Typed, Lagging(view, agent, channel), AgentDies
    PROVE  /\ agent' \in AgentState /\ channel' \in Seq(Message)
           /\ LastWords \in Seq(Message) /\ SameNews(channel, LastWords)
           /\ serving = None => LastWords = channel
           /\ serving # None => Appended(channel, LastWords, AbandonedReply)
           /\ Appended(LastWords, channel', News("lost", None, None, None))
           /\ Lagging(view, agent', channel')
  <1>. DEFINE m == News("lost", None, None, None)
              w == LastWords
  <1>1. channel \in Seq(Message)
    BY DEF Typed
  <1>2. /\ w \in Seq(Message) /\ SameNews(channel, w)
        /\ serving = None => w = channel
        /\ serving # None => Appended(channel, w, AbandonedReply)
    <2>1. CASE serving = None
      BY <1>1, <2>1 DEF LastWords, SameNews
    <2>2. CASE serving # None
      BY <1>1, <2>2, AbandonedTyped, AppendIs, ReplyIsQuiet DEF LastWords
    <2>. QED BY <2>1, <2>2
  <1>3. channel' = Append(w, m)
    BY <1>1, <1>2 DEF AgentDies, LastWords, AbandonedReply
  <1>. HIDE DEF w
  <1>4. channel' \in Seq(Message) /\ Appended(w, channel', m)
    BY <1>2, <1>3, NewsTyped, AppendIs
  <1>5. Lagging(view, agent, w)
    BY <1>2, LaggingQuiet
  <1>6. m.what = "lost"
    BY DEF News
  <1>7. agent'.slot = NoCards /\ ~agent'.up /\ agent'.up \in BOOLEAN /\ agent'.minted = agent.minted
    BY DEF AgentDies, Typed, AgentState
  <1>8. agent' \in AgentState
    BY <1>7, NobodyHome DEF AgentDies, Typed, AgentState
  <1>9. Truthful(agent, agent', m)
    <2>1. AgentSound(agent')
      BY <1>7, NobodyHome DEF AgentSound, NoCards
    <2>. QED BY <1>6, <2>1 DEF Truthful, Contradicts, Takes
  <1>10. Removals(agent', channel')
    <2>1. ASSUME NEW j \in DOMAIN channel', channel'[j].what = "removed", Current(channel', j)
          PROVE  FALSE
      <3>1. j \in DOMAIN w
        BY <1>4, <1>6, <2>1 DEF Appended
      <3>. QED BY <1>4, <1>6, <2>1, <3>1, CurrentAppended
    <2>. QED BY <2>1 DEF Removals
  <1>11. Lagging(view, agent', channel')
    BY <1>2, <1>4, <1>5, <1>8, <1>9, <1>10, NewsTyped, LaggingAppended DEF Typed
  <1>. QED BY <1>2, <1>4, <1>8, <1>11 DEF w

-----------------------------------------------------------------------------
(* The worker handles the oldest message.                                  *)

LEMMA WithoutRepliesIs ==
    ASSUME Typed
    PROVE  /\ WithoutReplies \in Seq(Message)
           /\ SameNews(channel, WithoutReplies)
           /\ \A i \in DOMAIN WithoutReplies : WithoutReplies[i].what # "reply"
  <1>1. channel \in Seq(Message)
    BY DEF Typed
  <1>2. WithoutReplies \in Seq(Message)
    BY <1>1, NewsTyped DEF WithoutReplies
  <1>3. DOMAIN WithoutReplies = DOMAIN channel /\ Len(WithoutReplies) = Len(channel)
    BY <1>1 DEF WithoutReplies
  <1>4. \A i \in DOMAIN channel :
          WithoutReplies[i] = IF channel[i].what = "reply" THEN Unheard ELSE channel[i]
    BY DEF WithoutReplies
  <1>5. Unheard.what = "unheard"
    BY DEF Unheard
  <1>6. DOMAIN channel = 1..Len(channel) /\ Len(channel) \in Nat
    BY <1>1
  <1>. QED BY <1>2, <1>3, <1>4, <1>5, <1>6 DEF SameNews, Quiet

Handled(ch, cg) ==
    /\ DOMAIN ch = 1..Len(ch) /\ DOMAIN cg = 1..Len(cg)
    /\ Len(ch) \in Nat \ {0} /\ Len(cg) = Len(ch) - 1
    /\ \A n \in DOMAIN cg : cg[n] = ch[n + 1]

LEMMA TailIs ==
    ASSUME NEW S, NEW ch \in Seq(S), ch # <<>>
    PROVE  /\ Tail(ch) \in Seq(S) /\ Handled(ch, Tail(ch))
           /\ Head(ch) = ch[1] /\ ch[1] \in S /\ 1 \in DOMAIN ch
  BY DEF Handled

LEMMA GoneHandled ==
    ASSUME NEW ch, NEW cg, Handled(ch, cg), NEW r, NEW k, NEW i \in Nat, NEW j \in Nat
    PROVE  /\ Gone(ch, r, k, i + 1, j + 1) => Gone(cg, r, k, i, j)
           /\ Gone(ch, r, k, 0, j + 1) /\ ~Takes(ch[1], r, k) => Gone(cg, r, k, 0, j)
  <1>1. ASSUME NEW n \in DOMAIN ch, 1 < n, n < j + 1
        PROVE  n - 1 \in DOMAIN cg /\ cg[n - 1] = ch[n] /\ 0 < n - 1 /\ n - 1 < j
    <2>1. n - 1 \in DOMAIN cg /\ (n - 1) + 1 = n
      BY <1>1 DEF Handled
    <2>. QED BY <1>1, <2>1 DEF Handled
  <1>2. ASSUME Gone(ch, r, k, i + 1, j + 1)
        PROVE  Gone(cg, r, k, i, j)
    <2>1. PICK n \in DOMAIN ch : i + 1 < n /\ n < j + 1 /\ Takes(ch[n], r, k)
      BY <1>2 DEF Gone
    <2>2. n \in Nat /\ 1 < n /\ i < n - 1
      BY <2>1 DEF Handled
    <2>. QED BY <1>1, <2>1, <2>2 DEF Gone
  <1>3. ASSUME Gone(ch, r, k, 0, j + 1), ~Takes(ch[1], r, k)
        PROVE  Gone(cg, r, k, 0, j)
    <2>1. PICK n \in DOMAIN ch : 0 < n /\ n < j + 1 /\ Takes(ch[n], r, k)
      BY <1>3 DEF Gone
    <2>2. n \in Nat /\ 1 < n
      BY <1>3, <2>1 DEF Handled
    <2>. QED BY <1>1, <2>1, <2>2 DEF Gone
  <1>. QED BY <1>2, <1>3

LEMMA TrackedHandled ==
    ASSUME NEW ch, NEW cg, Handled(ch, cg), NEW p, NEW r, NEW i \in Nat, NEW s
    PROVE  /\ Tracked(p, r, i + 1, ch, s) => Tracked(p, r, i, cg, s)
           /\ Tracked(p, r, 0, ch, s) /\ ~Takes(ch[1], r, p.id) => Tracked(p, r, 0, cg, s)
  <1>1. \A j \in DOMAIN cg : j \in Nat /\ j + 1 \in DOMAIN ch /\ cg[j] = ch[j + 1]
    BY DEF Handled
  <1>2. Len(cg) + 1 \in Nat /\ (Len(cg) + 1) + 1 = Len(ch) + 1
    BY DEF Handled
  <1>3. ASSUME Tracked(p, r, i + 1, ch, s)
        PROVE  Tracked(p, r, i, cg, s)
    <2>1. ASSUME NEW j \in DOMAIN cg, i < j, Contradicts(cg[j], p, r)
          PROVE  Gone(cg, r, p.id, i, j)
      <3>1. Gone(ch, r, p.id, i + 1, j + 1)
        BY <1>1, <1>3, <2>1 DEF Tracked
      <3>. QED BY <1>1, <3>1, GoneHandled
    <2>2. s[r] = p \/ Gone(cg, r, p.id, i, Len(cg) + 1)
      BY <1>2, <1>3, GoneHandled DEF Tracked
    <2>. QED BY <2>1, <2>2 DEF Tracked
  <1>4. ASSUME Tracked(p, r, 0, ch, s), ~Takes(ch[1], r, p.id)
        PROVE  Tracked(p, r, 0, cg, s)
    <2>1. ASSUME NEW j \in DOMAIN cg, 0 < j, Contradicts(cg[j], p, r)
          PROVE  Gone(cg, r, p.id, 0, j)
      <3>1. Gone(ch, r, p.id, 0, j + 1)
        BY <1>1, <1>4, <2>1 DEF Tracked
      <3>. QED BY <1>1, <1>4, <3>1, GoneHandled
    <2>2. s[r] = p \/ Gone(cg, r, p.id, 0, Len(cg) + 1)
      BY <1>2, <1>4, GoneHandled DEF Tracked
    <2>. QED BY <2>1, <2>2 DEF Tracked
  <1>. QED BY <1>3, <1>4

(* What a message makes of the worker's registry.                          *)
Told(v, m) ==
    CASE m.what = "inserted" -> [v EXCEPT !.slot[m.reader] = Coming(m)]
      [] m.what = "removed" -> [v EXCEPT !.slot[m.reader] = None]
      [] m.what = "up" -> [v EXCEPT !.up = TRUE]
      [] m.what = "lost" -> [up |-> FALSE, slot |-> NoCards]
      [] OTHER -> v

LEMMA ToldTyped ==
    ASSUME NEW v \in Registry, NEW m \in Message
    PROVE  /\ Told(v, m) \in Registry
           /\ \A r \in Readers :
                Told(v, m).slot[r] =
                  CASE m.what = "inserted" -> IF r = m.reader THEN Coming(m) ELSE v.slot[r]
                    [] m.what = "removed" -> IF r = m.reader THEN None ELSE v.slot[r]
                    [] m.what = "lost" -> None
                    [] OTHER -> v.slot[r]
  <1>1. CASE m.what = "inserted"
    <2>1. Coming(m) \in Presence /\ m.reader \in Readers
      BY <1>1 DEF Message, Presence, Coming, Reported, Unheard
    <2>. QED BY <1>1, <2>1 DEF Told, Registry, Slots
  <1>2. CASE m.what = "removed"
    <2>1. m.reader \in Readers
      BY <1>2 DEF Message, Reported, Unheard
    <2>. QED BY <1>2, <2>1 DEF Told, Registry, Slots
  <1>3. CASE m.what = "up"
    BY <1>3 DEF Told, Registry
  <1>4. CASE m.what = "lost"
    BY <1>4, NobodyHome DEF Told, Registry, NoCards
  <1>5. CASE m.what \notin {"inserted", "removed", "up", "lost"}
    BY <1>5 DEF Told
  <1>. QED BY <1>1, <1>2, <1>3, <1>4, <1>5

LEMMA DeliverLags ==
    ASSUME Typed, Lagging(view, agent, channel), channel # <<>>,
           NEW cg, cg = Tail(channel), NEW w, w = Told(view, channel[1])
    PROVE  Lagging(w, agent, cg)
  <1>. DEFINE m == channel[1]
  <1>1. Handled(channel, cg) /\ m \in Message /\ 1 \in DOMAIN channel /\ channel \in Seq(Message)
    BY TailIs DEF Typed
  <1>2. view \in Registry
    BY DEF Typed
  <1>3. \A r \in Readers :
          w.slot[r] =
            CASE m.what = "inserted" -> IF r = m.reader THEN Coming(m) ELSE view.slot[r]
              [] m.what = "removed" -> IF r = m.reader THEN None ELSE view.slot[r]
              [] m.what = "lost" -> None
              [] OTHER -> view.slot[r]
    BY <1>1, <1>2, ToldTyped
  <1>4. ASSUME NEW r \in Readers, w.slot[r] # None
        PROVE  \/ w.slot[r] = view.slot[r] /\ ~Takes(m, r, view.slot[r].id)
               \/ w.slot[r] = Coming(m) /\ m.what = "inserted" /\ r = m.reader
    BY <1>3, <1>4 DEF Takes
  <1>5. \A r, k : ~Gone(channel, r, k, 0, 1)
    BY <1>1 DEF Gone, Handled
  <1>6. ASSUME NEW q \in Readers, view.slot[q] # None, m.what = "inserted"
        PROVE  q # m.reader /\ view.slot[q].id # m.id
    <2>1. ~Contradicts(m, view.slot[q], q)
      BY <1>1, <1>5, <1>6 DEF Lagging, Mirrored, Tracked
    <2>. QED BY <1>6, <2>1 DEF Contradicts
  <1>7. Distinct(w.slot)
    <2>1. Distinct(view.slot)
      BY DEF Lagging, Mirrored
    <2>2. m.what = "inserted" => Coming(m).id = m.id
      BY DEF Coming
    <2>. QED BY <1>4, <1>6, <2>1, <2>2 DEF Distinct
  <1>8. ASSUME NEW r \in Readers, w.slot[r] # None
        PROVE  Tracked(w.slot[r], r, 0, cg, agent.slot)
    <2>1. CASE w.slot[r] = view.slot[r] /\ ~Takes(m, r, view.slot[r].id)
      <3>1. Tracked(view.slot[r], r, 0, channel, agent.slot)
        BY <1>8, <2>1 DEF Lagging, Mirrored
      <3>. QED BY <1>1, <2>1, <3>1, TrackedHandled
    <2>2. CASE w.slot[r] = Coming(m) /\ m.what = "inserted" /\ r = m.reader
      <3>1. Tracked(Coming(m), r, 0 + 1, channel, agent.slot)
        BY <1>1, <2>2 DEF Lagging, Mirrored
      <3>2. 0 \in Nat
        OBVIOUS
      <3>. QED BY <1>1, <2>2, <3>1, <3>2, TrackedHandled
    <2>. QED BY <1>4, <1>8, <2>1, <2>2
  <1>9. ASSUME NEW i \in DOMAIN cg, cg[i].what = "inserted"
        PROVE  Tracked(Coming(cg[i]), cg[i].reader, i, cg, agent.slot)
    <2>1. i \in Nat /\ i + 1 \in DOMAIN channel /\ cg[i] = channel[i + 1]
      BY <1>1 DEF Handled
    <2>2. Tracked(Coming(cg[i]), cg[i].reader, i + 1, channel, agent.slot)
      BY <1>9, <2>1 DEF Lagging, Mirrored
    <2>. QED BY <1>1, <2>1, <2>2, TrackedHandled
  <1>10. Removals(agent, cg)
    <2>1. ASSUME NEW j \in DOMAIN cg, cg[j].what = "removed", Current(cg, j)
          PROVE  /\ agent.up
                 /\ cg[j].id < agent.minted
                 /\ \A r \in Readers : agent.slot[r] # None => agent.slot[r].id # cg[j].id
      <3>1. j \in Nat /\ j + 1 \in DOMAIN channel /\ cg[j] = channel[j + 1]
        BY <1>1 DEF Handled
      <3>2. ASSUME NEW n \in DOMAIN channel, j + 1 < n
            PROVE  channel[n].what # "lost"
        <4>1. n - 1 \in DOMAIN cg /\ (n - 1) + 1 = n /\ j < n - 1
          BY <1>1, <3>1, <3>2 DEF Handled
        <4>2. cg[n - 1] = channel[n]
          BY <1>1, <4>1 DEF Handled
        <4>. QED BY <2>1, <4>1, <4>2 DEF Current
      <3>3. Current(channel, j + 1)
        BY <3>2 DEF Current
      <3>. QED BY <2>1, <3>1, <3>3 DEF Lagging, Removals
    <2>. QED BY <2>1 DEF Removals
  <1>. QED BY <1>7, <1>8, <1>9, <1>10 DEF Lagging, Mirrored

-----------------------------------------------------------------------------
(* The answers.                                                            *)

LEMMA NoDataTyped ==
    /\ NoData \in Data /\ NoData.card = None /\ NoData.cert = None
    /\ \A c \in Cards : [NoData EXCEPT !.card = c] \in Data /\ [NoData EXCEPT !.card = c].card = c
  BY DEF NoData, Data

LEMMA AnswersTyped ==
    /\ NoAnswer \in Answered /\ NoAnswer.names = {} /\ NoAnswer.data = NoData
    /\ Pass \in Answered /\ Pass.names = {} /\ Pass.data = NoData
    /\ \A error \in Error : /\ Fail(error) \in Answered /\ Fail(error).names = {}
                            /\ Fail(error).data = NoData /\ Fail(error).result = error
    /\ \A names \in SUBSET Entries :
         /\ [Pass EXCEPT !.names = names] \in Answered
         /\ [Pass EXCEPT !.names = names].names = names
         /\ [Pass EXCEPT !.names = names].data = NoData
    /\ \A data \in Data :
         /\ [Pass EXCEPT !.data = data] \in Answered
         /\ [Pass EXCEPT !.data = data].names = {}
         /\ [Pass EXCEPT !.data = data].data = data
    /\ \A names \in SUBSET Entries, data \in Data :
         /\ [Pass EXCEPT !.names = names, !.data = data] \in Answered
         /\ [Pass EXCEPT !.names = names, !.data = data].names = names
         /\ [Pass EXCEPT !.names = names, !.data = data].data = data
  BY NoDataTyped DEF NoAnswer, Pass, Fail, Answered

(* An answer of given names and holder data.                               *)
LEMMA FilledAnswer ==
    ASSUME NEW names \in SUBSET Entries, NEW data \in Data
    PROVE  LET a == [Pass EXCEPT !.names = names, !.data = data]
           IN  a \in Answered /\ a.names = names /\ a.data = data
  BY AnswersTyped

LEMMA FailForReadIs ==
    ASSUME NEW status, NEW isDirOp \in BOOLEAN
    PROVE  /\ FailForRead(status, isDirOp) \in Answered
           /\ FailForRead(status, isDirOp).names = {}
           /\ FailForRead(status, isDirOp).data = NoData
           /\ FailForRead("CardRemoved", isDirOp) = Fail("ERR_WORKER_DIED")
           /\ status \notin {"CapabilityMissing", "NotAvailable"} =>
                FailForRead(status, isDirOp).result # "ERR_DOES_NOT_EXIST"
  BY AnswersTyped DEF FailForRead, Error

(* A request stays one when a member is given a value of its type.         *)
LEMMA RequestFields ==
    ASSUME NEW w \in Requests
    PROVE  /\ \A x \in {"idle", "reading", "exporting"} : [w EXCEPT !.stage = x] \in Requests
           /\ \A x \in NodeKind : [w EXCEPT !.kind = x] \in Requests
           /\ \A x \in Ids \cup {None} : [w EXCEPT !.id = x] \in Requests
           /\ \A x \in Cards \cup {None} : [w EXCEPT !.card = x] \in Requests
           /\ \A x \in Segments \cup {None} : [w EXCEPT !.folder = x] \in Requests
           /\ \A x \in CertIds \cup {None} : [w EXCEPT !.wanted = x] \in Requests
           /\ \A x \in {"none", "running", "finished", "destroyed"} : [w EXCEPT !.op = x] \in Requests
           /\ \A x \in Ends : [w EXCEPT !.end = x] \in Requests
           /\ \A x \in Data : [w EXCEPT !.data = x] \in Requests
           /\ \A x \in BOOLEAN :
              /\ [w EXCEPT !.quit = x] \in Requests
              /\ [w EXCEPT !.gone = x] \in Requests
           /\ \A x \in Answered : [w EXCEPT !.answer = x] \in Requests
<1>1. ASSUME NEW x \in {"idle", "reading", "exporting"} PROVE [w EXCEPT !.stage = x] \in Requests
  BY SMT DEF Requests
<1>2. ASSUME NEW x \in NodeKind PROVE [w EXCEPT !.kind = x] \in Requests
  BY SMT DEF Requests
<1>3. ASSUME NEW x \in Ids \cup {None} PROVE [w EXCEPT !.id = x] \in Requests
  BY SMT DEF Requests
<1>4. ASSUME NEW x \in Cards \cup {None} PROVE [w EXCEPT !.card = x] \in Requests
  BY SMT DEF Requests
<1>5. ASSUME NEW x \in Segments \cup {None} PROVE [w EXCEPT !.folder = x] \in Requests
  BY SMT DEF Requests
<1>6. ASSUME NEW x \in CertIds \cup {None} PROVE [w EXCEPT !.wanted = x] \in Requests
  BY SMT DEF Requests
<1>7. ASSUME NEW x \in {"none", "running", "finished", "destroyed"} PROVE [w EXCEPT !.op = x] \in Requests
  BY SMT DEF Requests
<1>8. ASSUME NEW x \in Ends PROVE [w EXCEPT !.end = x] \in Requests
  BY SMT DEF Requests
<1>9. ASSUME NEW x \in Data PROVE [w EXCEPT !.data = x] \in Requests
  BY SMT DEF Requests
<1>10. ASSUME NEW x \in BOOLEAN PROVE [w EXCEPT !.quit = x] \in Requests
  BY SMT DEF Requests
<1>11. ASSUME NEW x \in BOOLEAN PROVE [w EXCEPT !.gone = x] \in Requests
  BY SMT DEF Requests
<1>12. ASSUME NEW x \in Answered PROVE [w EXCEPT !.answer = x] \in Requests
  BY SMT DEF Requests
<1> QED
  BY <1>1, <1>2, <1>3, <1>4, <1>5, <1>6, <1>7, <1>8, <1>9, <1>10, <1>11,
     <1>12, Zenon

LEMMA IdleTyped ==
    /\ Idle \in Requests
    /\ \A a \in Answered :
         /\ [Idle EXCEPT !.answer = a] \in Requests
         /\ [Idle EXCEPT !.answer = a].stage = "idle"
         /\ [Idle EXCEPT !.answer = a].op = "none"
         /\ [Idle EXCEPT !.answer = a].answer = a
  <1>1. EndedOk \in Ends
    BY DEF Ends
  <1>2. "Invalid" \in NodeKind
    BY DEF NodeKind
  <1>3. Idle \in Requests
    BY <1>1, <1>2, NoDataTyped, AnswersTyped DEF Idle, Requests
  <1>4. Idle.stage = "idle" /\ Idle.op = "none"
    BY DEF Idle
  <1>. QED BY <1>3, <1>4 DEF Requests

-----------------------------------------------------------------------------
(* Answering a request.                                                    *)

LEMMA AnswerAtOnceKeeps ==
    ASSUME IInv, worker.stage = "idle", NEW a \in Answered, Listed(a), AnswerAtOnce(a)
    PROVE  IInv'
  <1>1. /\ worker' \in Requests /\ worker'.stage = "idle" /\ worker'.op = "none"
        /\ worker'.answer = a
    BY IdleTyped DEF AnswerAtOnce
  <1>2. UNCHANGED <<agent, serving, channel, view>>
    BY DEF AnswerAtOnce
  <1>3. Typed'
    BY <1>1, <1>2 DEF IInv, Typed
  <1>4. Lagging(view, agent, channel)'
    BY <1>2 DEF IInv
  <1>5. Outstanding'
    BY <1>1, <1>2 DEF IInv, Outstanding, NoReply
  <1>. QED BY <1>1, <1>3, <1>4, <1>5 DEF IInv, Reading, Exporting

LEMMA AnswerKeeps ==
    ASSUME IInv, NEW a \in Answered, Listed(a), Answer(a)
    PROVE  IInv' /\ worker'.stage = "idle" /\ worker'.answer = a
  <1>1. /\ worker' \in Requests /\ worker'.stage = "idle" /\ worker'.op = "none"
        /\ worker'.answer = a
    BY IdleTyped DEF Answer
  <1>2. serving' = None /\ channel' = WithoutReplies /\ UNCHANGED <<agent, view>>
    BY DEF Answer
  <1>3. /\ WithoutReplies \in Seq(Message)
        /\ SameNews(channel, WithoutReplies)
        /\ \A i \in DOMAIN WithoutReplies : WithoutReplies[i].what # "reply"
    BY WithoutRepliesIs DEF IInv
  <1>4. Typed'
    BY <1>1, <1>2, <1>3 DEF IInv, Typed
  <1>5. Lagging(view, agent, channel)'
    BY <1>2, <1>3, LaggingQuiet DEF IInv
  <1>6. Outstanding'
    BY <1>1, <1>2, <1>3 DEF Outstanding, NoReply
  <1>. QED BY <1>1, <1>4, <1>5, <1>6 DEF IInv, Reading, Exporting

LEMMA AnswerReadKeeps ==
    ASSUME IInv, NEW status, AnswerRead(status)
    PROVE  /\ IInv' /\ worker'.stage = "idle"
           /\ worker'.answer = FailForRead(status, worker.kind = "PkiDir")
           /\ worker'.answer.data = NoData
           /\ status = "CardRemoved" => worker'.answer = Fail("ERR_WORKER_DIED")
           /\ status \notin {"CapabilityMissing", "NotAvailable"} =>
                worker'.answer.result # "ERR_DOES_NOT_EXIST"
  <1>. DEFINE isDirOp == worker.kind = "PkiDir"
              a == FailForRead(status, isDirOp)
  <1>1. isDirOp \in BOOLEAN
    OBVIOUS
  <1>2. /\ a \in Answered /\ a.names = {} /\ a.data = NoData
        /\ status = "CardRemoved" => a = Fail("ERR_WORKER_DIED")
        /\ status \notin {"CapabilityMissing", "NotAvailable"} => a.result # "ERR_DOES_NOT_EXIST"
    <2>. HIDE DEF isDirOp
    <2>. QED BY <1>1, FailForReadIs
  <1>3. Listed(a)
    BY <1>2 DEF Listed
  <1>4. Answer(a)
    BY DEF AnswerRead
  <1>5. IInv' /\ worker'.stage = "idle" /\ worker'.answer = a
    BY <1>2, <1>3, <1>4, AnswerKeeps
  <1>. QED BY <1>2, <1>5

LEMMA ServeKeeps ==
    ASSUME IInv, NEW data \in Data, Serve(data)
    PROVE  /\ IInv' /\ worker'.stage = "idle"
           /\ worker'.answer = [Pass EXCEPT !.data = data]
           /\ worker'.answer.data = data
           /\ worker'.answer.result # "ERR_DOES_NOT_EXIST"
  <1>. DEFINE a == [Pass EXCEPT !.data = data]
  <1>1. a \in Answered /\ a.names = {} /\ a.data = data
    BY AnswersTyped
  <1>2. a.result = "pass"
    BY DEF Pass, NoAnswer
  <1>3. Listed(a)
    BY <1>1 DEF Listed
  <1>4. IInv' /\ worker'.stage = "idle" /\ worker'.answer = a
    BY <1>1, <1>3, AnswerKeeps DEF Serve
  <1>. QED BY <1>1, <1>2, <1>4

-----------------------------------------------------------------------------
(* A request arrives.                                                      *)

LEMMA HeldIs ==
    ASSUME NEW s \in Slots
    PROVE  /\ \A r \in Readers : Held(s)[r] # None <=> s[r] # None
           /\ \A r \in Readers : s[r] # None => s[r] \in Presence /\ Held(s)[r] = s[r].card
           /\ \A r \in Readers : Held(s)[r] \in Cards \cup {None}
  BY TreeAssumption DEF Held, Slots, Presence

(* A path that resolves below the root leads to a reader with a card.      *)
LEMMA PathOfACard ==
    ASSUME NEW s \in Slots, NEW path \in Paths,
           Resolve(Held(s), path) \notin {"Root", "Invalid"}
    PROVE  /\ path[1][1] \in Readers
           /\ s[path[1][1]] \in Presence
           /\ s[path[1][1]] # None
  <1>1. Present(Held(s), path[1])
    BY DEF Resolve
  <1>2. PICK r \in Readers : Held(s)[r] # None /\ path[1] = Segment(r)
    BY <1>1 DEF Present, PresentReaders
  <1>3. path[1][1] = r
    BY <1>2 DEF Segment
  <1>. QED BY <1>2, <1>3, HeldIs

LEMMA FolderOfAPath ==
    ASSUME NEW path \in Paths
    PROVE  Len(path) > 2 => path[3] \in Segments
  <1>1. path \in Seq(Range(path))
    BY WorkerAssumption
  <1>2. ASSUME Len(path) > 2
        PROVE  3 \in DOMAIN path
    BY <1>1, <1>2
  <1>. QED BY <1>2 DEF Segments, Range

LEMMA ListingTyped ==
    ASSUME NEW held, NEW path
    PROVE  ListChildren(held, path) \in SUBSET Entries
  <1>1. \A caps : IdentityChildren(caps) \subseteq Entries
    BY DEF IdentityChildren, PhotoLeafName, Entries
  <1>. QED BY <1>1 DEF ListChildren, Entries, PresentReaders

AskedByCard(k) == [by |-> "card", id |-> k, reader |-> None, cert |-> None]
AskedByReader(r, cert) == [by |-> "reader", id |-> None, reader |-> r, cert |-> cert]

LEMMA FetchTyped ==
    /\ \A k \in Ids : /\ AskedByCard(k) \in Fetch /\ AskedByCard(k) # None
                      /\ AskedByCard(k).by = "card" /\ AskedByCard(k).id = k
    /\ \A r \in Readers, cert \in CertIds :
         /\ AskedByReader(r, cert) \in Fetch /\ AskedByReader(r, cert) # None
         /\ AskedByReader(r, cert).by = "reader" /\ AskedByReader(r, cert).reader = r
         /\ AskedByReader(r, cert).cert = cert
  <1>1. None \notin Fetch
    BY WorkerAssumption
  <1>2. \A k \in Ids : AskedByCard(k) \in Fetch
    BY DEF AskedByCard, Fetch
  <1>3. \A r \in Readers, cert \in CertIds : AskedByReader(r, cert) \in Fetch
    BY DEF AskedByReader, Fetch
  <1>. QED BY <1>1, <1>2, <1>3 DEF AskedByCard, AskedByReader

(* The record of a read that starts.                                       *)
ReadOf(kind, id, card, folder) ==
    [Idle EXCEPT !.stage = "reading", !.kind = kind, !.id = id, !.card = card, !.folder = folder,
                 !.op = "running"]

LEMMA ReadTyped ==
    ASSUME NEW kind \in NodeKind, NEW id \in Ids, NEW card \in Cards, NEW folder \in Segments \cup {None}
    PROVE  /\ ReadOf(kind, id, card, folder) \in Requests
           /\ ReadOf(kind, id, card, folder).stage = "reading"
           /\ ReadOf(kind, id, card, folder).id = id
           /\ ReadOf(kind, id, card, folder).card = card
           /\ ReadOf(kind, id, card, folder).op = "running"
           /\ ReadOf(kind, id, card, folder).answer = NoAnswer
  <1>1. Idle \in Requests /\ Idle.answer = NoAnswer
    BY IdleTyped DEF Idle
  <1>2. ReadOf(kind, id, card, folder) \in Requests
    BY <1>1, RequestFields DEF ReadOf
  <1>. QED BY <1>1, <1>2 DEF ReadOf, Requests

LEMMA PresenceIs == \A p \in Presence : p.id \in Ids /\ p.card \in Cards /\ p = [id |-> p.id, card |-> p.card]
  BY DEF Presence

(* A card the worker can ask the agent for by its id is the agent's in the *)
(* same reader.                                                            *)
LEMMA ReachedIsTheCard ==
    ASSUME Typed, Lagging(view, agent, channel), Reachable, NEW r \in Readers, view.slot[r] # None,
           ReaderOf(agent.slot, view.slot[r].id) # None
    PROVE  agent.slot[r] = view.slot[r]
  <1>. DEFINE k == view.slot[r].id
  <1>1. PICK q \in Readers : agent.slot[q] # None /\ agent.slot[q].id = k
    BY DEF ReaderOf
  <1>2. Tracked(view.slot[r], r, 0, channel, agent.slot)
    BY DEF Lagging, Mirrored
  <1>3. ~Gone(channel, r, k, 0, Len(channel) + 1)
    <2>1. SUFFICES ASSUME NEW n \in DOMAIN channel, Takes(channel[n], r, k)
                   PROVE  FALSE
      BY DEF Gone
    <2>2. channel[n].what = "removed" /\ channel[n].id = k /\ Current(channel, n)
      BY <2>1 DEF Reachable, Takes, Current
    <2>. QED BY <1>1, <2>2 DEF Lagging, Removals
  <1>. QED BY <1>2, <1>3 DEF Tracked

LEMMA StartReadKeeps ==
    ASSUME IInv, worker.stage = "idle", NEW path \in Paths,
           NEW kind \in NodeKind, kind = Resolve(Held(view.slot), path), kind \notin {"Root", "Invalid"},
           StartRead(kind, path)
    PROVE  IInv'
  <1>. DEFINE r == path[1][1]
              held == view.slot[r]
              folder == IF Len(path) > 2 THEN path[3] ELSE None
              reading == ReadOf(kind, held.id, held.card, folder)
  <1>0. Typed /\ Lagging(view, agent, channel) /\ Outstanding
    BY DEF IInv
  <1>1. r \in Readers /\ held \in Presence /\ held # None
    BY <1>0, PathOfACard DEF Typed, Registry
  <1>2. held.id \in Ids /\ held.card \in Cards /\ held = [id |-> held.id, card |-> held.card]
    BY <1>1, PresenceIs
  <1>3. folder \in Segments \cup {None}
    BY FolderOfAPath
  <1>. HIDE DEF folder
  <1>4. /\ reading \in Requests /\ reading.stage = "reading" /\ reading.op = "running"
        /\ reading.id = held.id /\ reading.card = held.card /\ reading.answer = NoAnswer
    <2>1. held.id \in Ids /\ held.card \in Cards
      BY <1>2
    <2>. HIDE DEF held
    <2>. QED BY <1>3, <2>1, ReadTyped
  <1>. DEFINE asked == AskedByCard(held.id)
  <1>5. \/ /\ Reachable /\ ReaderOf(agent.slot, held.id) # None
           /\ serving' = asked /\ worker' = reading
           /\ UNCHANGED <<agent, channel, view>>
        \/ \E end : AnswerAtOnce(FailForRead(MapStatus(end), kind = "PkiDir"))
    BY DEF StartRead, ReadOf, folder, AskedByCard
  <1>. HIDE DEF reading
  <1>6. ASSUME Reachable, ReaderOf(agent.slot, held.id) # None,
               serving' = asked, worker' = reading, UNCHANGED <<agent, channel, view>>
        PROVE  IInv'
    <2>1. agent.slot[r] = held
      BY <1>0, <1>1, <1>6, ReachedIsTheCard
    <2>2. asked \in Fetch /\ asked.by = "card" /\ asked.id = held.id /\ asked # None
      BY <1>2, FetchTyped
    <2>. HIDE DEF asked
    <2>3. Typed'
      BY <1>0, <1>4, <1>6, <2>2 DEF Typed
    <2>4. Lagging(view, agent, channel)'
      BY <1>0, <1>6
    <2>5. Outstanding'
      BY <1>0, <1>4, <1>6 DEF Outstanding, NoReply, Reachable
    <2>6. Reading'
      <3>1. view'.slot[r] = [id |-> worker'.id, card |-> worker'.card]
        BY <1>2, <1>4, <1>6
      <3>2. worker'.id < agent'.minted
        BY <1>0, <1>1, <1>4, <1>6, <2>1 DEF Lagging, AgentSound
      <3>3. \A q \in Readers : agent'.slot[q] # None /\ agent'.slot[q].id = worker'.id
                                 => agent'.slot[q].card = worker'.card
        BY <1>0, <1>1, <1>4, <1>6, <2>1 DEF Lagging, AgentSound, Distinct
      <3>4. \A i \in DOMAIN channel' : channel'[i].what # "reply"
        BY <1>0, <1>6 DEF Outstanding, NoReply
      <3>. QED BY <1>1, <1>2, <1>4, <1>6, <2>2, <3>1, <3>2, <3>3, <3>4 DEF Reading
    <2>7. Exporting' /\ Listed(worker'.answer)
      BY <1>4, <1>6, AnswersTyped DEF Exporting, Listed
    <2>. QED BY <2>3, <2>4, <2>5, <2>6, <2>7 DEF IInv
  <1>7. ASSUME NEW end, AnswerAtOnce(FailForRead(MapStatus(end), kind = "PkiDir"))
        PROVE  IInv'
    <2>. DEFINE isDirOp == kind = "PkiDir"
                a == FailForRead(MapStatus(end), isDirOp)
    <2>1. isDirOp \in BOOLEAN
      OBVIOUS
    <2>2. a \in Answered /\ a.names = {}
      <3>. HIDE DEF isDirOp
      <3>. QED BY <2>1, FailForReadIs
    <2>3. Listed(a)
      BY <2>2 DEF Listed
    <2>. QED BY <1>7, <2>2, <2>3, AnswerAtOnceKeeps
  <1>. QED BY <1>5, <1>6, <1>7

LEMMA KindIs == \A held, path : Resolve(held, path) \in NodeKind
  <1>1. \A caps, below : IdentityKind(caps, below) \in NodeKind
    BY DEF IdentityKind, NodeKind, Directories, Leaves, ReadLeaves
  <1>2. \A below : PkiKind(below) \in NodeKind
    BY DEF PkiKind, NodeKind, Directories, Leaves, ReadLeaves
  <1>3. \A caps, rest : KindBelow(caps, rest) \in NodeKind
    BY <1>1, <1>2 DEF KindBelow, NodeKind, Leaves
  <1>. QED BY <1>3 DEF Resolve, NodeKind, Directories

(* An answer without names, or of names alone, is no listing of folders.   *)
LEMMA RequestKeeps ==
    ASSUME IInv, Request
    PROVE  IInv' /\ worker.stage = "idle"
  <1>1. PICK path \in Paths : DoListDir(path) \/ DoStat(path) \/ DoMimetype(path) \/ DoGet(path)
    BY DEF Request
  <1>. DEFINE kind == Resolve(Held(view.slot), path)
  <1>2. worker.stage = "idle"
    BY <1>1 DEF DoListDir, DoStat, DoMimetype, DoGet
  <1>3. kind \in NodeKind
    BY KindIs
  <1>4. \A error \in Error : Fail(error) \in Answered /\ Listed(Fail(error))
    BY AnswersTyped DEF Listed
  <1>5. \A names \in SUBSET Entries :
          [Pass EXCEPT !.names = names] \in Answered /\ Listed([Pass EXCEPT !.names = names])
    BY AnswersTyped, NoDataTyped DEF Listed
  <1>6. Pass \in Answered /\ Listed(Pass)
    BY AnswersTyped DEF Listed
  <1>7. \A error \in Error : AnswerAtOnce(Fail(error)) => IInv'
    BY <1>2, <1>4, AnswerAtOnceKeeps
  <1>8. {"ERR_WORKER_DEFINED", "ERR_CANNOT_ENTER_DIRECTORY", "ERR_IS_DIRECTORY", "ERR_DOES_NOT_EXIST"}
          \subseteq Error
    BY DEF Error
  <1>9. ASSUME DoListDir(path)
        PROVE  IInv'
    <2>. DEFINE entries == ListChildren(Held(view.slot), path)
                folder == CertChildren
    <2>1. entries \in SUBSET Entries /\ folder \in SUBSET Entries
      BY ListingTyped DEF Entries, CertChildren
    <2>2. \/ \E error \in Error : AnswerAtOnce(Fail(error))
          \/ AnswerAtOnce([Pass EXCEPT !.names = entries])
          \/ AnswerAtOnce([Pass EXCEPT !.names = folder])
          \/ kind = "PkiDir" /\ StartRead(kind, path)
      BY <1>8, <1>9 DEF DoListDir
    <2>. HIDE DEF entries, folder
    <2>3. AnswerAtOnce([Pass EXCEPT !.names = entries]) => IInv'
      BY <1>2, <1>5, <2>1, AnswerAtOnceKeeps
    <2>4. AnswerAtOnce([Pass EXCEPT !.names = folder]) => IInv'
      BY <1>2, <1>5, <2>1, AnswerAtOnceKeeps
    <2>5. kind = "PkiDir" /\ StartRead(kind, path) => IInv'
      BY <1>2, <1>3, StartReadKeeps
    <2>. QED BY <1>7, <2>2, <2>3, <2>4, <2>5
  <1>10. ASSUME DoStat(path)
         PROVE  IInv'
    <2>1. AnswerAtOnce(Fail("ERR_DOES_NOT_EXIST")) \/ AnswerAtOnce(Pass)
      BY <1>10 DEF DoStat
    <2>2. AnswerAtOnce(Pass) => IInv'
      BY <1>2, <1>6, AnswerAtOnceKeeps
    <2>. QED BY <1>7, <1>8, <2>1, <2>2
  <1>11. ASSUME DoGet(path)
         PROVE  IInv'
    <2>. DEFINE card == view.slot[path[1][1]].card
                a == [Pass EXCEPT !.data.card = card]
    <2>1. \/ \E error \in Error : AnswerAtOnce(Fail(error))
          \/ kind = "InfoLeaf" /\ AnswerAtOnce(a)
          \/ kind \in ReadLeaves /\ StartRead(kind, path)
      BY <1>8, <1>11 DEF DoGet
    <2>2. ASSUME kind = "InfoLeaf", AnswerAtOnce(a)
          PROVE  IInv'
      <3>1. card \in Cards
        BY <2>2, PathOfACard, PresenceIs DEF IInv, Typed, Registry
      <3>. HIDE DEF card
      <3>2. Pass \in Answered /\ Pass.names = {}
        BY AnswersTyped
      <3>3. a \in Answered
        BY <3>1, <3>2 DEF Answered, Data
      <3>4. a.names = {}
        BY <3>2 DEF Answered
      <3>5. Listed(a)
        BY <3>4 DEF Listed
      <3>. QED BY <1>2, <2>2, <3>3, <3>5, AnswerAtOnceKeeps
    <2>3. kind \in ReadLeaves /\ StartRead(kind, path) => IInv'
      BY <1>2, <1>3, StartReadKeeps DEF ReadLeaves
    <2>. QED BY <1>7, <2>1, <2>2, <2>3
  <1>. QED BY <1>1, <1>2, <1>9, <1>10, <1>11 DEF DoMimetype

-----------------------------------------------------------------------------
(* The certificates of a card.                                             *)

LEMMA CertsOfACard ==
    ASSUME NEW c \in Cards
    PROVE  /\ CertsOf[c] \in Seq(Range(CertsOf[c]))
           /\ c # None
           /\ \A i \in Signing(CertsOf[c]) :
                CertsOf[c][i].id \in CertIdsOf(c) /\ CertsOf[c][i].id \in CertIds /\ CertsOf[c][i].id # None
  <1>1. CertsOf[c] \in Seq(Range(CertsOf[c])) /\ c # None /\ None \notin CertIdsOf(c)
    BY TreeAssumption
  <1>2. \A i \in Signing(CertsOf[c]) : CertsOf[c][i].id \in CertIdsOf(c)
    BY <1>1 DEF CertIdsOf, Signing
  <1>. QED BY <1>1, <1>2 DEF CertIds

(* The certificate resolved is the one the folder's name stands for.       *)
LEMMA ResolvedIsNamed ==
    ASSUME NEW c \in Cards, NEW name, ResolveCertId(CertsOf[c], name) # None
    PROVE  /\ StandsFor(name, c, ResolveCertId(CertsOf[c], name))
           /\ ResolveCertId(CertsOf[c], name) \in CertIds
           /\ ResolveCertId(CertsOf[c], name) \in CertIdsOf(c)
  <1>. DEFINE certs == CertsOf[c]
  <1>1. certs \in Seq(Range(certs))
    BY CertsOfACard
  <1>. HIDE DEF certs
  <1>2. PICK i \in Signing(certs) :
          FolderOf(certs, i).name = name /\ ResolveCertId(certs, name) = certs[i].id
    BY <1>1, ResolvedIsFolder DEF certs
  <1>3. name = <<certs[i].base, Cardinality(Seen(certs, i, certs[i].base))>>
    BY <1>2, FolderAt
  <1>4. certs[i].id \in CertIdsOf(c) /\ certs[i].id \in CertIds
    BY CertsOfACard DEF certs
  <1>5. /\ i \in DOMAIN certs /\ certs[i].signing /\ certs[i].base = name[1]
        /\ Cardinality(Seen(certs, i, name[1])) = name[2]
    BY <1>3 DEF Signing
  <1>6. StandsFor(name, c, certs[i].id)
    BY <1>5 DEF StandsFor, Seen, certs
  <1>. QED BY <1>2, <1>4, <1>6 DEF certs

(* A listing of a card's folders has one for each signing certificate.     *)
LEMMA FoldersFindEach ==
    ASSUME NEW c \in Cards
    PROVE  EachCertificateIsFound(CertsOf[c], FolderNames(CertsOf[c]))
  <1>. DEFINE certs == CertsOf[c]
  <1>1. certs \in Seq(Range(certs))
    BY CertsOfACard
  <1>. HIDE DEF certs
  <1>2. FolderNames(certs) = {FolderOf(certs, i).name : i \in Signing(certs)}
    BY FolderNamesAre
  <1>3. \A i \in Signing(certs) : ResolveCertId(certs, FolderOf(certs, i).name) = certs[i].id
    BY <1>1, FolderResolves
  <1>4. {ResolveCertId(certs, name) : name \in FolderNames(certs)} = {certs[i].id : i \in Signing(certs)}
    BY <1>2, <1>3
  <1>5. {d \in Range(certs) : d.signing} = {certs[i] : i \in Signing(certs)}
    BY DEF Range, Signing
  <1>6. {d.id : d \in {e \in Range(certs) : e.signing}} = {certs[i].id : i \in Signing(certs)}
    BY <1>5
  <1>. QED BY <1>4, <1>6 DEF EachCertificateIsFound, certs

-----------------------------------------------------------------------------
(* A read has ended.                                                       *)

ExportOf(w, certId) ==
    [w EXCEPT !.stage = "exporting", !.wanted = certId, !.op = "running",
              !.end = EndedOk, !.data = NoData, !.quit = FALSE]

LEMMA ExportTyped ==
    ASSUME NEW w \in Requests, NEW certId \in CertIds
    PROVE  /\ ExportOf(w, certId) \in Requests
           /\ ExportOf(w, certId).stage = "exporting" /\ ExportOf(w, certId).op = "running"
           /\ ExportOf(w, certId).wanted = certId
           /\ ExportOf(w, certId).end = EndedOk /\ ExportOf(w, certId).data = NoData
           /\ ExportOf(w, certId).id = w.id /\ ExportOf(w, certId).card = w.card
           /\ ExportOf(w, certId).kind = w.kind /\ ExportOf(w, certId).folder = w.folder
           /\ ExportOf(w, certId).answer = w.answer
  <1>1. EndedOk \in Ends
    BY DEF Ends
  <1>2. ExportOf(w, certId) \in Requests
    BY <1>1, NoDataTyped, RequestFields DEF ExportOf
  <1>. QED BY <1>2 DEF ExportOf, Requests

LEMMA EndsAre ==
    /\ EndedOk.status = "Ok" /\ EndedOk.code = "None"
    /\ EndedAbandoned.status = "Error" /\ EndedAbandoned.code = "CommunicationError"
    /\ EndedSilent.status = "Error" /\ EndedSilent.code = "None"
    /\ EndedUnreadable.status = "Error" /\ EndedUnreadable.code = "CommunicationError"
    /\ EndedByUser.status = "Cancelled" /\ EndedUnauthenticated.status = "Error"
    /\ EndedByRemoval.status = "Error" /\ EndedUnsupported.status = "Error"
    /\ EndedKeyNotFound.status = "Error" /\ EndedKeyNotFound.code = "KeyNotFound"
    /\ {EndedOk, EndedAbandoned, EndedSilent, EndedUnreadable, EndedByUser, EndedUnauthenticated,
        EndedUnsupported, EndedByRemoval, EndedKeyNotFound, SweptByRemoval, SweptByLoss} \subseteq Ends
  BY DEF EndedOk, EndedAbandoned, EndedSilent, EndedUnreadable, EndedByUser, EndedUnauthenticated,
         EndedUnsupported, EndedByRemoval, EndedKeyNotFound, End, Ends

LEMMA StartExportKeeps ==
    ASSUME IInv, worker.stage = "reading", worker.op = "finished",
           worker.kind \in {"CertDerLeaf", "CertPemLeaf"},
           NEW certId \in CertIds, certId = ResolveCertId(CertsOf[worker.card], worker.folder),
           certId # None, StartExport(certId)
    PROVE  /\ IInv'
           /\ \/ worker'.stage = "exporting"
              \/ worker'.stage = "idle" /\ worker'.answer.data = NoData
  <1>. DEFINE reader == ReaderOf(view.slot, worker.id)
              exporting == ExportOf(worker, certId)
              X == [id |-> worker.id, card |-> worker.card]
  <1>0. Typed /\ Lagging(view, agent, channel) /\ Outstanding /\ Reading /\ Listed(worker.answer)
    BY DEF IInv
  <1>1. worker \in Requests /\ worker.id \in Ids /\ worker.card \in Cards
    BY <1>0 DEF Typed, Reading
  <1>2. serving = None /\ NoReply
    BY <1>0 DEF Outstanding
  <1>3. CASE reader = None
    <2>1. CASE AnswerRead("Unavailable")
      BY <2>1, AnswerReadKeeps
    <2>. QED BY <1>3, <2>1 DEF StartExport
  <1>4. CASE reader # None
    <2>1. /\ exporting \in Requests /\ exporting.stage = "exporting" /\ exporting.op = "running"
          /\ exporting.wanted = certId /\ exporting.end = EndedOk /\ exporting.data = NoData
          /\ exporting.id = worker.id /\ exporting.card = worker.card
          /\ exporting.kind = worker.kind /\ exporting.folder = worker.folder
          /\ exporting.answer = worker.answer
      BY <1>1, ExportTyped
    <2>2. /\ worker' = exporting /\ UNCHANGED <<agent, view>>
          /\ \/ Reachable /\ serving' = AskedByReader(reader, certId) /\ channel' = channel
             \/ ~Reachable /\ channel' = Append(channel, AbandonedReply) /\ serving' = serving
      BY <1>4 DEF StartExport, ExportOf, AskedByReader, AbandonedReply
    <2>. HIDE DEF exporting
    <2>3. reader \in Readers /\ view.slot[reader] # None /\ view.slot[reader].id = worker.id
      BY <1>4 DEF ReaderOf
    <2>. HIDE DEF reader
    <2>4. view.slot[reader] = X
      <3>1. PICK r \in Readers : view.slot[r] = X
        BY <1>0 DEF Reading
      <3>2. X \in Presence /\ X # None /\ X.id = worker.id
        BY <1>1, PresenceNotNone DEF Presence
      <3>3. Distinct(view.slot)
        BY <1>0 DEF Lagging, Mirrored
      <3>4. reader = r
        BY <2>3, <3>1, <3>2, <3>3 DEF Distinct
      <3>. QED BY <3>1, <3>4
    <2>5. Wanted(EndedOk, NoData)' /\ Wanted(EndedAbandoned, NoData)'
      BY EndsAre DEF Wanted
    <2>6. Listed(worker'.answer)
      BY <1>0, <2>1, <2>2
    <2>7. CASE Reachable /\ serving' = AskedByReader(reader, certId) /\ channel' = channel
      <3>1. /\ serving' \in Fetch /\ serving' # None /\ serving'.by = "reader"
            /\ serving'.reader = reader /\ serving'.cert = certId
        BY <2>3, <2>7, FetchTyped
      <3>2. Typed'
        BY <1>0, <2>1, <2>2, <2>7, <3>1 DEF Typed
      <3>3. Lagging(view, agent, channel)'
        BY <1>0, <2>2, <2>7
      <3>4. Outstanding'
        BY <1>0, <1>2, <2>1, <2>2, <2>7 DEF Outstanding, NoReply, Reachable
      <3>5. agent.slot[reader] = X \/ Pulled(Len(channel) + 1)
        <4>1. Tracked(X, reader, 0, channel, agent.slot)
          BY <1>0, <2>3, <2>4 DEF Lagging, Mirrored
        <4>2. ASSUME Gone(channel, reader, worker.id, 0, Len(channel) + 1)
              PROVE  Pulled(Len(channel) + 1)
          <5>1. PICK n \in DOMAIN channel :
                  0 < n /\ n < Len(channel) + 1 /\ Takes(channel[n], reader, worker.id)
            BY <4>2 DEF Gone
          <5>2. channel[n].what = "removed" /\ channel[n].id = worker.id
            BY <2>7, <5>1 DEF Takes, Reachable
          <5>. QED BY <5>1, <5>2 DEF Pulled
        <4>3. X.id = worker.id
          OBVIOUS
        <4>. QED BY <4>1, <4>2, <4>3 DEF Tracked
      <3>6. Pulled(Len(channel) + 1) => Pulled(Len(channel) + 1)'
        BY <2>1, <2>2, <2>7 DEF Pulled
      <3>7. \A i \in DOMAIN channel' : channel'[i].what # "reply"
        BY <1>2, <2>7 DEF NoReply
      <3>8. Exporting'
        BY <1>1, <2>1, <2>2, <2>3, <2>5, <3>1, <3>5, <3>6, <3>7 DEF Exporting
      <3>9. Reading'
        BY <2>1, <2>2 DEF Reading
      <3>. QED BY <2>1, <2>2, <2>6, <3>2, <3>3, <3>4, <3>8, <3>9 DEF IInv
    <2>8. CASE channel' = Append(channel, AbandonedReply) /\ serving' = serving
      <3>1. channel' \in Seq(Message) /\ Appended(channel, channel', AbandonedReply)
        BY <1>0, <2>8, AbandonedTyped, AppendIs DEF Typed
      <3>2. Typed'
        BY <1>0, <2>1, <2>2, <2>8, <3>1 DEF Typed
      <3>3. Lagging(view, agent, channel)'
        <4>1. SameNews(channel, channel')
          BY <3>1, AbandonedTyped, ReplyIsQuiet
        <4>. QED BY <1>0, <2>2, <4>1, LaggingQuiet
      <3>4. \A i \in DOMAIN channel' : channel'[i].what = "reply" => i = Len(channel') /\ channel'[i] = AbandonedReply
        BY <1>2, <3>1 DEF Appended, NoReply
      <3>5. AbandonedReply.end = EndedAbandoned /\ AbandonedReply.data = NoData
        BY DEF AbandonedReply
      <3>6. Outstanding'
        BY <1>2, <2>1, <2>2, <2>8, <3>4 DEF Outstanding
      <3>7. Exporting'
        BY <1>1, <1>2, <2>1, <2>2, <2>5, <2>8, <3>4, <3>5 DEF Exporting
      <3>8. Reading'
        BY <2>1, <2>2 DEF Reading
      <3>. QED BY <2>1, <2>2, <2>6, <3>2, <3>3, <3>6, <3>7, <3>8 DEF IInv
    <2>. QED BY <2>1, <2>2, <2>7, <2>8
  <1>. QED BY <1>3, <1>4

(* What the properties say of one step.                                    *)
ServedFromIt ==
    OperationAnswered /\ worker'.answer.data # NoData =>
        /\ worker'.answer.data.card = worker.card
        /\ worker.kind \in {"CertInfoLeaf", "CertDerLeaf", "CertPemLeaf"} =>
             StandsFor(worker.folder, worker.card, worker'.answer.data.cert)

ReportedRemoved ==
    /\ OperationAnswered
    /\ view.up
    /\ worker.card \notin {Held(view.slot)[r] : r \in Readers}
    /\ worker.stage = "reading" \/ worker.gone
    => worker'.answer = Fail("ERR_WORKER_DIED")

NotMissing ==
    worker.stage = "exporting" /\ OperationAnswered => worker'.answer.result # "ERR_DOES_NOT_EXIST"

LEMMA MapStatusOk ==
    ASSUME NEW end, MapStatus(end) = "Ok"
    PROVE  end.status = "Ok"
  BY DEF MapStatus

LEMMA AfterReadKeeps ==
    ASSUME IInv, AfterRead
    PROVE  IInv' /\ ServedFromIt /\ ReportedRemoved /\ NotMissing
  <1>. DEFINE status == MapStatus(worker.end)
              c == worker.card
              wanted == ResolveCertId(CertsOf[worker.data.card], worker.folder)
  <1>0. Typed /\ Reading /\ worker.stage = "reading"
    BY DEF IInv, AfterRead
  <1>1. worker \in Requests /\ worker.data \in Data /\ c \in Cards
    BY <1>0 DEF Typed, Reading, Requests
  <1>2. NotMissing
    BY <1>0 DEF NotMissing
  <1>3. worker.op # "destroyed" => c \in {Held(view.slot)[r] : r \in Readers}
    <2>1. ASSUME NEW r \in Readers, view.slot[r] = [id |-> worker.id, card |-> c]
          PROVE  Held(view.slot)[r] = c
      <3>1. [id |-> worker.id, card |-> c] \in Presence
        BY <1>0, <1>1 DEF Reading, Presence
      <3>2. view.slot \in Slots
        BY <1>0 DEF Typed, Registry
      <3>. QED BY <2>1, <3>1, <3>2, HeldIs, PresenceNotNone
    <2>. QED BY <1>0, <2>1 DEF Reading
  <1>4. \/ worker.op = "destroyed" /\ AnswerRead("CardRemoved")
        \/ worker.op = "finished" /\ status # "Ok" /\ AnswerRead(status)
        \/ /\ worker.op = "finished" /\ status = "Ok"
           /\ \/ worker.kind \in {"IdentityLeaf", "PhotoLeaf"} /\ Serve(worker.data)
              \/ \E photo \in {"NotAvailable", "Error"} : AnswerRead(photo)
              \/ /\ worker.kind = "PkiDir"
                 /\ Answer([Pass EXCEPT !.names = FolderNames(CertsOf[worker.data.card]),
                                        !.data = worker.data])
              \/ Answer(Fail("ERR_DOES_NOT_EXIST"))
              \/ wanted # None /\ Serve([worker.data EXCEPT !.cert = wanted])
              \/ worker.kind \in {"CertDerLeaf", "CertPemLeaf"} /\ wanted # None /\ StartExport(wanted)
    BY DEF AfterRead
  <1>5. ASSUME worker.op = "finished", status = "Ok"
        PROVE  worker.data.card = c
    BY <1>0, <1>5, MapStatusOk DEF Reading
  <1>. HIDE DEF status, wanted
  <1>6. CASE worker.op = "destroyed" /\ AnswerRead("CardRemoved")
    <2>1. IInv' /\ worker'.answer.data = NoData /\ worker'.answer = Fail("ERR_WORKER_DIED")
      BY <1>6, AnswerReadKeeps
    <2>. QED BY <1>2, <2>1 DEF ServedFromIt, ReportedRemoved
  <1>7. CASE worker.op = "finished" /\ \E s : AnswerRead(s)
    <2>1. IInv' /\ worker'.answer.data = NoData
      BY <1>7, AnswerReadKeeps
    <2>. QED BY <1>2, <1>3, <1>7, <2>1 DEF ServedFromIt, ReportedRemoved
  <1>8. CASE /\ worker.op = "finished" /\ status = "Ok"
             /\ worker.kind \in {"IdentityLeaf", "PhotoLeaf"} /\ Serve(worker.data)
    <2>1. IInv' /\ worker'.answer.data = worker.data
      BY <1>1, <1>8, ServeKeeps
    <2>. QED BY <1>2, <1>3, <1>5, <1>8, <2>1 DEF ServedFromIt, ReportedRemoved
  <1>9. CASE /\ worker.op = "finished" /\ status = "Ok" /\ worker.kind = "PkiDir"
             /\ Answer([Pass EXCEPT !.names = FolderNames(CertsOf[worker.data.card]),
                                    !.data = worker.data])
    <2>. DEFINE names == FolderNames(CertsOf[worker.data.card])
                a == [Pass EXCEPT !.names = names, !.data = worker.data]
    <2>1. names \in SUBSET Entries
      BY <1>1, <1>5, <1>9 DEF Entries
    <2>2. Answer(a)
      BY <1>9
    <2>. HIDE DEF names
    <2>3. a \in Answered /\ a.names = names /\ a.data = worker.data
      <3>1. worker.data \in Data
        BY <1>1
      <3>2. ASSUME NEW data \in Data, data = worker.data
            PROVE  a \in Answered /\ a.names = names /\ a.data = data
        BY <2>1, <3>2, FilledAnswer
      <3>. QED BY <3>1, <3>2
    <2>. HIDE DEF a
    <2>4. Listed(a)
      BY <2>3 DEF Listed, names
    <2>5. IInv' /\ worker'.answer = a
      BY <2>2, <2>3, <2>4, AnswerKeeps
    <2>. QED BY <1>2, <1>3, <1>5, <1>9, <2>3, <2>5 DEF ServedFromIt, ReportedRemoved
  <1>10. CASE worker.op = "finished" /\ Answer(Fail("ERR_DOES_NOT_EXIST"))
    <2>. DEFINE a == Fail("ERR_DOES_NOT_EXIST")
    <2>1. a \in Answered /\ a.names = {} /\ a.data = NoData
      BY AnswersTyped DEF Error
    <2>2. Listed(a)
      BY <2>1 DEF Listed
    <2>3. IInv' /\ worker'.answer = a
      BY <1>10, <2>1, <2>2, AnswerKeeps
    <2>. QED BY <1>2, <1>3, <1>10, <2>1, <2>3 DEF ServedFromIt, ReportedRemoved
  <1>11. CASE /\ worker.op = "finished" /\ status = "Ok"
              /\ wanted # None /\ Serve([worker.data EXCEPT !.cert = wanted])
    <2>. DEFINE data == [worker.data EXCEPT !.cert = wanted]
    <2>1. StandsFor(worker.folder, c, wanted) /\ wanted \in CertIds
      BY <1>1, <1>5, <1>11, ResolvedIsNamed DEF wanted
    <2>2. data \in Data /\ data.card = c /\ data.cert = wanted
      BY <1>1, <1>5, <1>11, <2>1 DEF Data
    <2>3. Serve(data)
      BY <1>11
    <2>. HIDE DEF data
    <2>4. IInv' /\ worker'.answer.data = data
      BY <2>2, <2>3, ServeKeeps
    <2>. QED BY <1>2, <1>3, <1>11, <2>1, <2>2, <2>4 DEF ServedFromIt, ReportedRemoved
  <1>12. CASE /\ worker.op = "finished" /\ status = "Ok"
              /\ worker.kind \in {"CertDerLeaf", "CertPemLeaf"} /\ wanted # None /\ StartExport(wanted)
    <2>1. wanted = ResolveCertId(CertsOf[c], worker.folder) /\ wanted \in CertIds
      BY <1>1, <1>5, <1>12, ResolvedIsNamed DEF wanted
    <2>2. IInv' /\ (worker'.stage = "exporting" \/ (worker'.stage = "idle" /\ worker'.answer.data = NoData))
      BY <1>0, <1>12, <2>1, StartExportKeeps
    <2>. QED BY <1>2, <1>3, <1>12, <2>2 DEF ServedFromIt, ReportedRemoved, OperationAnswered
  <1>. QED BY <1>4, <1>6, <1>7, <1>8, <1>9, <1>10, <1>11, <1>12

-----------------------------------------------------------------------------
(* An export has ended, or is given up for its silence.                    *)

LEMMA ExportStatusIs ==
    ASSUME NEW end
    PROVE  /\ ExportStatus(end) = "NotAvailable" => end.code = "KeyNotFound"
           /\ ExportStatus(end) # "CapabilityMissing"
  BY DEF ExportStatus

LEMMA AfterExportKeeps ==
    ASSUME IInv, AfterExport
    PROVE  IInv' /\ ServedFromIt /\ ReportedRemoved /\ NotMissing
  <1>. DEFINE status == ExportStatus(worker.end)
  <1>0. Typed /\ Exporting /\ worker.stage = "exporting"
    BY DEF IInv, AfterExport
  <1>1. worker.data \in Data /\ worker.card \in Cards
    BY <1>0 DEF Typed, Exporting, Requests
  <1>2. CASE worker.gone /\ AnswerRead("CardRemoved")
    <2>1. /\ IInv' /\ worker'.answer.data = NoData /\ worker'.answer = Fail("ERR_WORKER_DIED")
          /\ worker'.answer.result # "ERR_DOES_NOT_EXIST"
      BY <1>2, AnswerReadKeeps
    <2>. QED BY <2>1 DEF ServedFromIt, ReportedRemoved, NotMissing
  <1>3. CASE ~worker.gone /\ status # "Ok" /\ AnswerRead(status)
    <2>1. status \notin {"CapabilityMissing", "NotAvailable"}
      BY <1>0, <1>3, ExportStatusIs DEF Exporting, Wanted
    <2>. HIDE DEF status
    <2>2. /\ IInv' /\ worker'.answer.data = NoData
          /\ worker'.answer.result # "ERR_DOES_NOT_EXIST"
      BY <1>3, <2>1, AnswerReadKeeps
    <2>. QED BY <1>0, <1>3, <2>2 DEF ServedFromIt, ReportedRemoved, NotMissing
  <1>4. CASE ~worker.gone /\ Serve(worker.data)
    <2>1. /\ IInv' /\ worker'.answer.data = worker.data
          /\ worker'.answer.result # "ERR_DOES_NOT_EXIST"
      BY <1>1, <1>4, ServeKeeps
    <2>2. worker.data = NoData \/ (worker.data.card = worker.card /\ worker.data.cert = worker.wanted)
      BY <1>0, <1>4 DEF Exporting, Wanted
    <2>3. StandsFor(worker.folder, worker.card, worker.wanted)
      BY <1>0, <1>1, ResolvedIsNamed DEF Exporting
    <2>. QED BY <1>0, <1>4, <2>1, <2>2, <2>3 DEF ServedFromIt, ReportedRemoved, NotMissing
  <1>. QED BY <1>2, <1>3, <1>4 DEF AfterExport

FinishedAs(w, end, data) == [w EXCEPT !.op = "finished", !.end = end, !.data = data, !.quit = TRUE]

LEMMA FinishedTyped ==
    ASSUME NEW w \in Requests, NEW end \in Ends, NEW data \in Data, NEW t, t = FinishedAs(w, end, data)
    PROVE  /\ t \in Requests /\ t.op = "finished" /\ t.end = end /\ t.data = data
           /\ t.stage = w.stage /\ t.id = w.id /\ t.card = w.card /\ t.kind = w.kind
           /\ t.folder = w.folder /\ t.wanted = w.wanted /\ t.gone = w.gone /\ t.answer = w.answer
  <1>1. t \in Requests
    <2>. DEFINE u == [w EXCEPT !.op = "finished", !.end = end]
    <2>1. u \in Requests
      BY RequestFields
    <2>2. t = [u EXCEPT !.data = data, !.quit = TRUE]
      BY DEF FinishedAs
    <2>. HIDE DEF u
    <2>. QED BY <2>1, <2>2, RequestFields
  <1>. QED BY <1>1 DEF FinishedAs, Requests

LEMMA StallKeeps ==
    ASSUME IInv, Stall
    PROVE  IInv' /\ worker'.stage = worker.stage
  <1>. DEFINE t == FinishedAs(worker, EndedSilent, worker.data)
  <1>0. Typed /\ Lagging(view, agent, channel) /\ Outstanding /\ Reading /\ Exporting /\ Listed(worker.answer)
    BY DEF IInv
  <1>1. worker \in Requests /\ worker.data \in Data /\ worker.op = "running"
    BY <1>0 DEF Typed, Requests, Stall
  <1>2. worker' = t
    BY <1>1 DEF Stall, FinishedAs, Requests
  <1>3. /\ t \in Requests /\ t.op = "finished" /\ t.end = EndedSilent /\ t.data = worker.data
        /\ t.stage = worker.stage /\ t.id = worker.id /\ t.card = worker.card /\ t.kind = worker.kind
        /\ t.folder = worker.folder /\ t.wanted = worker.wanted /\ t.gone = worker.gone
        /\ t.answer = worker.answer
    <2>1. EndedSilent \in Ends
      BY EndsAre
    <2>2. t = FinishedAs(worker, EndedSilent, worker.data)
      OBVIOUS
    <2>. HIDE DEF t
    <2>. QED BY <1>1, <2>1, <2>2, FinishedTyped
  <1>. HIDE DEF t
  <1>4. serving' = None /\ channel' = WithoutReplies /\ UNCHANGED <<agent, view>>
    BY DEF Stall
  <1>5. /\ channel' \in Seq(Message) /\ SameNews(channel, channel')
        /\ \A i \in DOMAIN channel' : channel'[i].what # "reply"
    BY <1>0, <1>4, WithoutRepliesIs
  <1>6. Typed'
    BY <1>0, <1>2, <1>3, <1>4, <1>5 DEF Typed
  <1>7. Lagging(view, agent, channel)'
    BY <1>0, <1>4, <1>5, LaggingQuiet
  <1>8. Outstanding'
    BY <1>0, <1>1, <1>2, <1>3, <1>4, <1>5 DEF Outstanding, NoReply
  <1>9. Reading'
    BY <1>0, <1>1, <1>2, <1>3, <1>4, <1>5, EndsAre DEF Reading
  <1>10. Exporting'
    BY <1>0, <1>2, <1>3, <1>4, <1>5, EndsAre DEF Exporting, Wanted
  <1>. QED BY <1>0, <1>2, <1>3, <1>6, <1>7, <1>8, <1>9, <1>10 DEF IInv

-----------------------------------------------------------------------------
(* A message is handled.                                                   *)

LEMMA CardLostIs ==
    ASSUME NEW w \in Requests, NEW end \in Ends, NEW t, t = CardLost(w, end)
    PROVE  /\ t \in Requests /\ t.stage = w.stage /\ t.id = w.id /\ t.card = w.card
           /\ t.kind = w.kind /\ t.folder = w.folder /\ t.wanted = w.wanted /\ t.answer = w.answer
           /\ w.stage = "reading" => t.op = "destroyed"
           /\ w.stage = "exporting" => t.gone /\ t.op = w.op
           /\ w.stage = "idle" => t = w
  <1>1. CASE w.stage = "reading"
    <2>. DEFINE last == IF w.op = "finished" THEN w.end ELSE end
    <2>1. last \in Ends
      BY DEF Requests
    <2>2. t = [w EXCEPT !.op = "destroyed", !.quit = TRUE, !.data = NoData, !.end = last]
      BY <1>1 DEF CardLost
    <2>. HIDE DEF last
    <2>3. t \in Requests
      <3>. DEFINE u == [w EXCEPT !.op = "destroyed", !.quit = TRUE]
      <3>1. u \in Requests
        BY RequestFields
      <3>2. t = [u EXCEPT !.data = NoData, !.end = last]
        BY <2>2
      <3>3. NoData \in Data
        BY NoDataTyped
      <3>. HIDE DEF u
      <3>4. [u EXCEPT !.data = NoData, !.end = last] \in Requests
        BY <2>1, <3>1, <3>3, RequestFields
      <3>. QED BY <3>2, <3>4
    <2>4. /\ t.stage = w.stage /\ t.id = w.id /\ t.card = w.card /\ t.kind = w.kind
          /\ t.folder = w.folder /\ t.wanted = w.wanted /\ t.answer = w.answer
          /\ t.op = "destroyed"
      BY <2>2 DEF Requests
    <2>. QED BY <1>1, <2>3, <2>4
  <1>2. CASE w.stage = "exporting"
    <2>1. t = [w EXCEPT !.gone = TRUE, !.quit = TRUE]
      BY <1>2 DEF CardLost
    <2>. QED BY <1>2, <2>1 DEF Requests
  <1>3. CASE w.stage = "idle"
    <2>1. t = w
      BY <1>3 DEF CardLost
    <2>. QED BY <1>3, <2>1
  <1>. QED BY <1>1, <1>2, <1>3 DEF Requests

(* The head of the channel, and what it does to the registry.              *)
LEMMA DeliverIs ==
    ASSUME Typed, Lagging(view, agent, channel), Deliver
    PROVE  /\ channel[1] \in Message /\ 1 \in DOMAIN channel
           /\ channel' \in Seq(Message) /\ Handled(channel, channel')
           /\ UNCHANGED <<agent, serving>>
           /\ view' = Told(view, channel[1]) /\ view' \in Registry
           /\ Lagging(view, agent, channel)'
  <1>. DEFINE m == channel[1]
  <1>1. channel # <<>> /\ channel' = Tail(channel) /\ agent' = agent
    BY DEF Deliver
  <1>2. /\ channel' \in Seq(Message) /\ Handled(channel, channel')
        /\ Head(channel) = m /\ m \in Message /\ 1 \in DOMAIN channel
    BY <1>1, TailIs DEF Typed
  <1>3. OnInserted(m) \/ OnRemoved(m) \/ OnAgentUp(m) \/ OnAgentLost(m) \/ OnReply(m) \/ OnUnheard(m)
    BY <1>2 DEF Deliver
  <1>. HIDE DEF m
  <1>4. serving' = serving /\ view' = Told(view, m)
    BY <1>3 DEF OnInserted, OnRemoved, OnAgentUp, OnAgentLost, OnReply, OnUnheard, Told, Coming
  <1>5. view' \in Registry
    BY <1>2, <1>4, ToldTyped DEF Typed
  <1>6. Lagging(view', agent, channel')
    BY <1>1, <1>4, DeliverLags DEF m
  <1>. QED BY <1>1, <1>2, <1>4, <1>5, <1>6 DEF m

(* A card the worker knows stays known but by a message that takes it.     *)
LEMMA StaysKnown ==
    ASSUME Typed, Lagging(view, agent, channel), NEW m, m = channel[1], 1 \in DOMAIN channel, m \in Message,
           NEW r \in Readers, view.slot[r] # None, ~Takes(m, r, view.slot[r].id)
    PROVE  Told(view, m).slot[r] = view.slot[r]
  <1>1. ~Gone(channel, r, view.slot[r].id, 0, 1)
    <2>1. \A n \in DOMAIN channel : n \in Nat
      BY DEF Typed
    <2>. QED BY <2>1 DEF Gone
  <1>2. ~Contradicts(m, view.slot[r], r)
    BY <1>1 DEF Lagging, Mirrored, Tracked
  <1>3. view \in Registry
    BY DEF Typed
  <1>. QED BY <1>2, <1>3, ToldTyped DEF Contradicts, Takes

LEMMA PulledHandled ==
    ASSUME Typed, Handled(channel, channel'), worker'.id = worker.id, NEW i \in Nat,
           ~(channel[1].what = "removed" /\ channel[1].id = worker.id)
    PROVE  Pulled(i + 1) => Pulled(i)'
  <1>1. SUFFICES ASSUME NEW n \in DOMAIN channel, n < i + 1,
                        channel[n].what = "removed", channel[n].id = worker.id
                 PROVE  Pulled(i)'
    BY DEF Pulled
  <1>a. n \in Nat /\ n # 1
    BY <1>1 DEF Handled
  <1>2. n - 1 \in DOMAIN channel' /\ (n - 1) + 1 = n /\ n - 1 < i
    BY <1>1, <1>a DEF Handled
  <1>3. channel'[n - 1] = channel[n]
    BY <1>2 DEF Handled
  <1>. QED BY <1>1, <1>2, <1>3 DEF Pulled

(* A message that leaves the request alone, and does not take its card.    *)
LEMMA UntouchedKeeps ==
    ASSUME IInv, Deliver, worker' = worker,
           channel[1].what # "reply" \/ worker.op # "running",
           worker.stage = "reading" /\ worker.op # "destroyed" =>
               \A r \in Readers : view.slot[r] = [id |-> worker.id, card |-> worker.card]
                                    => ~Takes(channel[1], r, worker.id),
           worker.stage = "exporting" /\ ~worker.gone =>
               ~(channel[1].what = "removed" /\ channel[1].id = worker.id)
    PROVE  IInv'
  <1>. DEFINE m == channel[1]
              X == [id |-> worker.id, card |-> worker.card]
  <1>0. Typed /\ Lagging(view, agent, channel) /\ Outstanding /\ Reading /\ Exporting /\ Listed(worker.answer)
    BY DEF IInv
  <1>1. /\ m \in Message /\ 1 \in DOMAIN channel
        /\ channel' \in Seq(Message) /\ Handled(channel, channel')
        /\ UNCHANGED <<agent, serving>>
        /\ view' = Told(view, m) /\ view' \in Registry
        /\ Lagging(view, agent, channel)'
    BY <1>0, DeliverIs
  <1>2. \A i \in DOMAIN channel' : i \in Nat /\ i + 1 \in DOMAIN channel /\ channel'[i] = channel[i + 1]
    BY <1>1 DEF Handled
  <1>3. Typed'
    BY <1>0, <1>1 DEF Typed
  <1>4. Outstanding'
    BY <1>0, <1>1, <1>2 DEF Outstanding, NoReply
  <1>5. ASSUME worker.stage = "reading", worker.op # "destroyed"
        PROVE  \E r \in Readers : view'.slot[r] = X
    <2>1. PICK r \in Readers : view.slot[r] = X
      BY <1>0, <1>5 DEF Reading
    <2>2. X \in Presence /\ X # None /\ X.id = worker.id
      BY <1>0, <1>5, PresenceNotNone DEF Reading, Presence
    <2>3. ~Takes(m, r, view.slot[r].id)
      BY <1>5, <2>1, <2>2
    <2>4. Told(view, m).slot[r] = view.slot[r]
      BY <1>0, <1>1, <2>1, <2>2, <2>3, StaysKnown
    <2>. QED BY <1>1, <2>1, <2>4
  <1>6. Reading'
    BY <1>0, <1>1, <1>2, <1>5 DEF Reading
  <1>7. Exporting'
    <2>1. SUFFICES ASSUME worker.stage = "exporting", ~worker.gone
                   PROVE  Exporting'
      BY <1>0, <1>1, <1>2 DEF Exporting
    <2>2. \A i \in Nat : Pulled(i + 1) => Pulled(i)'
      BY <1>0, <1>1, <2>1, PulledHandled
    <2>3. Len(channel') + 1 \in Nat /\ (Len(channel') + 1) + 1 = Len(channel) + 1
      BY <1>1 DEF Handled
    <2>. QED BY <1>0, <1>1, <1>2, <2>2, <2>3 DEF Exporting, Wanted
  <1>. QED BY <1>0, <1>1, <1>3, <1>4, <1>6, <1>7 DEF IInv

(* The loss of the request's card destroys a read and is known to an       *)
(* export.                                                                 *)
LEMMA LostKeeps ==
    ASSUME IInv, Deliver, channel[1].what # "reply", NEW end \in Ends, worker' = CardLost(worker, end)
    PROVE  IInv' /\ worker'.stage = worker.stage
  <1>0. Typed /\ Lagging(view, agent, channel) /\ Outstanding /\ Reading /\ Exporting /\ Listed(worker.answer)
    BY DEF IInv
  <1>1. /\ 1 \in DOMAIN channel
        /\ channel' \in Seq(Message) /\ Handled(channel, channel')
        /\ UNCHANGED <<agent, serving>>
        /\ view' \in Registry
        /\ Lagging(view, agent, channel)'
    BY <1>0, DeliverIs
  <1>2. \A i \in DOMAIN channel' : i \in Nat /\ i + 1 \in DOMAIN channel /\ channel'[i] = channel[i + 1]
    BY <1>1 DEF Handled
  <1>3. worker \in Requests
    BY <1>0 DEF Typed
  <1>4. /\ worker' \in Requests /\ worker'.stage = worker.stage /\ worker'.id = worker.id
        /\ worker'.card = worker.card /\ worker'.kind = worker.kind /\ worker'.folder = worker.folder
        /\ worker'.wanted = worker.wanted /\ worker'.answer = worker.answer
        /\ worker.stage = "reading" => worker'.op = "destroyed"
        /\ worker.stage = "exporting" => worker'.gone /\ worker'.op = worker.op
        /\ worker.stage = "idle" => worker' = worker
    BY <1>3, CardLostIs
  <1>5. Typed'
    BY <1>0, <1>1, <1>4 DEF Typed
  <1>6. worker.stage \in {"idle", "reading", "exporting"}
    BY <1>3 DEF Requests
  <1>7. Outstanding'
    BY <1>0, <1>1, <1>2, <1>4, <1>6 DEF Outstanding, NoReply
  <1>8. Reading'
    BY <1>0, <1>1, <1>2, <1>4 DEF Reading
  <1>9. Exporting'
    BY <1>0, <1>1, <1>2, <1>4 DEF Exporting
  <1>. QED BY <1>0, <1>1, <1>4, <1>5, <1>7, <1>8, <1>9 DEF IInv

(* A reply that is waited for ends its operation.                          *)
LEMMA ReplyKeeps ==
    ASSUME IInv, Deliver, channel[1].what = "reply", worker.op = "running",
           worker' = FinishedAs(worker, channel[1].end, channel[1].data)
    PROVE  IInv' /\ worker'.stage = worker.stage
  <1>. DEFINE m == channel[1]
  <1>0. Typed /\ Lagging(view, agent, channel) /\ Outstanding /\ Reading /\ Exporting /\ Listed(worker.answer)
    BY DEF IInv
  <1>1. /\ m \in Message /\ 1 \in DOMAIN channel
        /\ channel' \in Seq(Message) /\ Handled(channel, channel')
        /\ UNCHANGED <<agent, serving>>
        /\ view' = Told(view, m) /\ view' \in Registry
        /\ Lagging(view, agent, channel)'
    BY <1>0, DeliverIs
  <1>2. \A i \in DOMAIN channel' : i \in Nat /\ i + 1 \in DOMAIN channel /\ channel'[i] = channel[i + 1]
    BY <1>1 DEF Handled
  <1>3. m.end \in Ends /\ m.data \in Data
    BY <1>1 DEF Message, Reported, Unheard
  <1>4. worker \in Requests
    BY <1>0 DEF Typed
  <1>5. /\ worker' \in Requests /\ worker'.op = "finished" /\ worker'.end = m.end
        /\ worker'.data = m.data /\ worker'.stage = worker.stage /\ worker'.id = worker.id
        /\ worker'.card = worker.card /\ worker'.kind = worker.kind /\ worker'.folder = worker.folder
        /\ worker'.wanted = worker.wanted /\ worker'.gone = worker.gone
        /\ worker'.answer = worker.answer
    BY <1>3, <1>4, FinishedTyped
  <1>6. serving = None /\ \A i \in DOMAIN channel' : channel'[i].what # "reply"
    BY <1>0, <1>1, <1>2 DEF Outstanding, NoReply
  <1>7. view' = view
    BY <1>1 DEF Told
  <1>8. Typed'
    BY <1>0, <1>1, <1>5 DEF Typed
  <1>9. Outstanding'
    BY <1>0, <1>1, <1>5, <1>6 DEF Outstanding, NoReply
  <1>10. Reading'
    BY <1>0, <1>1, <1>5, <1>6, <1>7 DEF Reading
  <1>11. Exporting'
    <2>1. ~Pulled(1)
      <3>1. \A n \in DOMAIN channel : n \in Nat /\ n >= 1
        BY <1>1 DEF Handled
      <3>. QED BY <3>1 DEF Pulled
    <2>. QED BY <1>0, <1>1, <1>5, <1>6, <2>1 DEF Exporting, Wanted
  <1>. QED BY <1>0, <1>1, <1>5, <1>8, <1>9, <1>10, <1>11 DEF IInv

LEMMA DeliverKeeps ==
    ASSUME IInv, Deliver
    PROVE  IInv' /\ worker'.stage = worker.stage
  <1>. DEFINE m == channel[1]
  <1>1. channel \in Seq(Message) /\ channel # <<>>
    BY DEF IInv, Typed, Deliver
  <1>2. Head(channel) = m
    BY <1>1, TailIs
  <1>3. SweptByRemoval \in Ends /\ SweptByLoss \in Ends
    BY DEF Ends
  <1>. HIDE DEF m
  <1>5. ASSUME m.what \notin {"removed", "lost"}, worker' = worker, m.what = "reply" => worker.op # "running"
        PROVE  IInv'
    BY <1>5, UntouchedKeeps DEF m, Takes
  <1>6. CASE Deliver /\ OnInserted(m)
    BY <1>5, <1>6 DEF OnInserted
  <1>7. CASE Deliver /\ OnRemoved(m)
    <2>1. CASE worker.id = m.id
      <3>1. worker' = CardLost(worker, SweptByRemoval) /\ m.what # "reply"
        BY <1>7, <2>1 DEF OnRemoved
      <3>. QED BY <1>3, <3>1, LostKeeps DEF m
    <2>2. CASE worker.id # m.id
      <3>1. worker' = worker /\ m.what = "removed"
        BY <1>7, <2>2 DEF OnRemoved
      <3>. QED BY <2>2, <3>1, UntouchedKeeps DEF m, Takes
    <2>. QED BY <2>1, <2>2
  <1>8. CASE Deliver /\ OnAgentUp(m)
    BY <1>5, <1>8 DEF OnAgentUp
  <1>9. CASE Deliver /\ OnAgentLost(m)
    <2>1. CASE worker' = CardLost(worker, SweptByLoss)
      BY <1>3, <1>9, <2>1, LostKeeps DEF m, OnAgentLost
    <2>2. CASE worker' = worker /\ worker.stage = "exporting"
      <3>1. m.what = "lost"
        BY <1>9 DEF OnAgentLost
      <3>. QED BY <2>2, <3>1, UntouchedKeeps DEF m
    <2>. QED BY <1>9, <2>1, <2>2 DEF OnAgentLost
  <1>10. CASE Deliver /\ OnReply(m)
    <2>1. CASE worker.op # "running"
      BY <1>5, <1>10, <2>1 DEF OnReply
    <2>2. CASE worker.op = "running"
      <3>1. m.what = "reply" /\ worker \in Requests
        BY <1>10 DEF OnReply, IInv, Typed
      <3>2. worker' = [worker EXCEPT !.op = "finished", !.end = m.end, !.data = m.data, !.quit = TRUE]
        BY <1>10, <2>2 DEF OnReply
      <3>3. worker' = FinishedAs(worker, m.end, m.data)
        BY <3>2 DEF FinishedAs
      <3>. QED BY <2>2, <3>1, <3>3, ReplyKeeps DEF m
    <2>. QED BY <2>1, <2>2
  <1>11. CASE Deliver /\ OnUnheard(m)
    BY <1>5, <1>11 DEF OnUnheard
  <1>. QED BY <1>2, <1>6, <1>7, <1>8, <1>9, <1>10, <1>11 DEF Deliver

-----------------------------------------------------------------------------
(* A card or the agent comes or goes.                                      *)

(* A report keeps the request in order when the agent's cards are as they  *)
(* were, but for a new one and for one it reports as removed.              *)
LEMMA ReportKeeps ==
    ASSUME IInv, UNCHANGED <<view, worker, serving>>,
           agent' \in AgentState, channel' \in Seq(Message), Lagging(view, agent', channel'),
           NEW m, Appended(channel, channel', m), m.what # "reply",
           serving # None =>
               /\ agent'.up /\ agent.minted <= agent'.minted
               /\ \A r \in Readers :
                    /\ agent'.slot[r] # None /\ agent'.slot[r].id < agent.minted
                         => agent'.slot[r] = agent.slot[r]
                    /\ agent.slot[r] # None
                         => \/ agent'.slot[r] = agent.slot[r]
                            \/ m.what = "removed" /\ m.id = agent.slot[r].id
    PROVE  IInv'
  <1>. DEFINE X == [id |-> worker.id, card |-> worker.card]
  <1>0. Typed /\ Outstanding /\ Reading /\ Exporting /\ Listed(worker.answer)
    BY DEF IInv
  <1>1. Typed'
    BY <1>0 DEF Typed
  <1>2. \A i \in DOMAIN channel' : channel'[i].what = "reply" => i \in DOMAIN channel /\ channel'[i] = channel[i]
    BY DEF Appended
  <1>3. Outstanding'
    BY <1>0, <1>2 DEF Outstanding, NoReply
  <1>4. Reading'
    <2>1. ASSUME worker.stage = "reading", serving # None
          PROVE  /\ worker.id < agent'.minted
                 /\ \A r \in Readers : agent'.slot[r] # None /\ agent'.slot[r].id = worker.id
                                         => agent'.slot[r].card = worker.card
      <3>1. worker.id < agent.minted /\ worker.id \in Nat
        BY <1>0, <2>1 DEF Reading, Ids
      <3>2. agent.minted \in Nat /\ agent'.minted \in Nat
        BY <1>0 DEF Typed, AgentState, Ids
      <3>. QED BY <1>0, <2>1, <3>1, <3>2 DEF Reading
    <2>. QED BY <1>0, <1>2, <2>1 DEF Reading
  <1>5. Exporting'
    <2>1. SUFFICES ASSUME worker.stage = "exporting"
                   PROVE  Exporting'
      BY DEF Exporting
    <2>2. \A i : Pulled(i) => Pulled(i)'
      BY DEF Pulled, Appended
    <2>3. Pulled(Len(channel) + 1) => Pulled(Len(channel) + 1)'
      <3>1. \A n \in DOMAIN channel : n < Len(channel) + 1 => n < Len(channel') + 1 /\ n \in DOMAIN channel' /\ channel'[n] = channel[n]
        BY DEF Appended
      <3>. QED BY <3>1 DEF Pulled
    <2>4. m.what = "removed" /\ m.id = worker.id => Pulled(Len(channel) + 1)'
      <3>1. Len(channel') \in DOMAIN channel' /\ Len(channel') < Len(channel') + 1 /\ channel'[Len(channel')] = m
        BY DEF Appended
      <3>. QED BY <3>1 DEF Pulled
    <2>5. X # None /\ X.id = worker.id
      <3>1. X \in Presence
        BY <1>0, <2>1 DEF Exporting, Presence
      <3>. QED BY <3>1, PresenceNotNone
    <2>6. serving # None => \/ worker.gone
                            \/ agent'.slot[serving.reader] = X
                            \/ Pulled(Len(channel) + 1)'
      BY <1>0, <2>1, <2>3, <2>4, <2>5 DEF Exporting
    <2>. QED BY <1>0, <1>2, <2>1, <2>2, <2>6 DEF Exporting, Wanted
  <1>. QED BY <1>0, <1>1, <1>3, <1>4, <1>5 DEF IInv

LEMMA AgentDiesKeeps ==
    ASSUME IInv, AgentDies, UNCHANGED <<view, worker>>
    PROVE  IInv'
  <1>. DEFINE m == News("lost", None, None, None)
  <1>0. Typed /\ Lagging(view, agent, channel) /\ Outstanding /\ Reading /\ Exporting /\ Listed(worker.answer)
    BY DEF IInv
  <1>1. /\ agent' \in AgentState /\ channel' \in Seq(Message)
        /\ serving = None => LastWords = channel
        /\ serving # None => Appended(channel, LastWords, AbandonedReply)
        /\ Appended(LastWords, channel', m)
        /\ Lagging(view, agent', channel')
    BY <1>0, AgentDiesLags
  <1>2. serving' = None
    BY DEF AgentDies
  <1>3. m.what = "lost"
    BY DEF News
  <1>4. channel \in Seq(Message)
    BY <1>0 DEF Typed
  <1>a. /\ DOMAIN channel = 1..Len(channel) /\ Len(channel) \in Nat
        /\ DOMAIN LastWords = 1..Len(LastWords) /\ Len(LastWords) \in Nat
        /\ DOMAIN channel' = 1..(Len(LastWords) + 1)
        /\ channel'[Len(LastWords) + 1] = m
        /\ \A i \in DOMAIN LastWords : channel'[i] = LastWords[i]
    BY <1>1, <1>4 DEF Appended
  <1>b. \/ serving = None /\ LastWords = channel
        \/ /\ serving # None /\ Len(LastWords) = Len(channel) + 1
           /\ LastWords[Len(channel) + 1] = AbandonedReply
           /\ \A i \in DOMAIN channel : LastWords[i] = channel[i]
    BY <1>1 DEF Appended
  <1>. HIDE DEF m
  <1>5. \A i \in DOMAIN channel : i \in DOMAIN channel' /\ channel'[i] = channel[i]
    <2>1. CASE serving = None
      BY <1>a, <1>b, <2>1
    <2>2. CASE serving # None
      <3>1. \A i \in DOMAIN channel : i \in DOMAIN LastWords /\ LastWords[i] = channel[i]
        <4>1. Len(LastWords) = Len(channel) + 1 /\ \A i \in DOMAIN channel : LastWords[i] = channel[i]
          BY <1>b, <2>2
        <4>2. \A i \in 1..Len(channel) : i \in 1..(Len(channel) + 1)
          BY <1>a
        <4>. QED BY <1>a, <4>1, <4>2
      <3>2. \A i \in DOMAIN LastWords : i \in DOMAIN channel' /\ channel'[i] = LastWords[i]
        BY <1>a
      <3>. QED BY <3>1, <3>2
    <2>. QED BY <2>1, <2>2
  <1>6. ASSUME NEW i \in DOMAIN channel', channel'[i].what = "reply"
        PROVE  \/ i \in DOMAIN channel /\ channel'[i] = channel[i]
               \/ serving # None /\ i = Len(channel) + 1 /\ channel'[i] = AbandonedReply
    <2>1. i \in DOMAIN LastWords /\ channel'[i] = LastWords[i]
      BY <1>3, <1>6, <1>a
    <2>2. CASE serving = None
      BY <1>b, <2>1, <2>2
    <2>3. CASE serving # None
      <3>1. i \in DOMAIN channel \/ i = Len(channel) + 1
        <4>1. Len(LastWords) = Len(channel) + 1
          BY <1>b, <2>3
        <4>2. i \in 1..(Len(channel) + 1)
          BY <1>a, <2>1, <4>1
        <4>3. i \in 1..Len(channel) \/ i = Len(channel) + 1
          BY <1>a, <4>2
        <4>. QED BY <1>a, <4>3
      <3>. QED BY <1>b, <2>1, <2>3, <3>1
    <2>. QED BY <2>2, <2>3
  <1>7. AbandonedReply.end = EndedAbandoned /\ AbandonedReply.data = NoData
    BY DEF AbandonedReply
  <1>8. EndedAbandoned.status # "Ok" /\ EndedAbandoned.code # "KeyNotFound"
    BY DEF EndedAbandoned, End
  <1>9. Typed'
    BY <1>0, <1>1, <1>2 DEF Typed
  <1>10. Outstanding'
    BY <1>0, <1>2, <1>6 DEF Outstanding, NoReply
  <1>11. Reading'
    BY <1>0, <1>2, <1>6, <1>7, <1>8 DEF Reading
  <1>12. Exporting'
    <2>1. \A i : Pulled(i) => Pulled(i)'
      BY <1>5 DEF Pulled
    <2>. QED BY <1>0, <1>2, <1>6, <1>7, <1>8, <2>1 DEF Exporting, Wanted
  <1>. QED BY <1>0, <1>1, <1>9, <1>10, <1>11, <1>12 DEF IInv

LEMMA HardwareKeeps ==
    ASSUME IInv, Hardware
    PROVE  IInv' /\ worker' = worker
  <1>0. Typed /\ Lagging(view, agent, channel) /\ (serving # None => agent.up)
    BY DEF IInv, Outstanding
  <1>1. UNCHANGED <<view, worker>>
    BY DEF Hardware
  <1>2. agent \in AgentState /\ agent.minted \in Nat
    BY <1>0 DEF Typed, AgentState, Ids
  <1>3. CASE AgentStarts
    <2>1. serving = None /\ serving' = serving
      BY <1>0, <1>3 DEF AgentStarts
    <2>2. /\ agent' \in AgentState /\ channel' \in Seq(Message) /\ Lagging(view, agent', channel')
          /\ Appended(channel, channel', News("up", None, None, None))
      BY <1>0, <1>3, AgentStartsLags
    <2>3. News("up", None, None, None).what # "reply"
      BY DEF News
    <2>. QED BY <1>1, <2>1, <2>2, <2>3, ReportKeeps
  <1>4. CASE AgentDies
    BY <1>1, <1>4, AgentDiesKeeps
  <1>5. ASSUME NEW r \in Readers, NEW c \in Cards, CardGoesIn(r, c)
        PROVE  IInv'
    <2>. DEFINE m == News("inserted", r, agent.minted, c)
    <2>1. /\ agent' \in AgentState /\ channel' \in Seq(Message) /\ Lagging(view, agent', channel')
          /\ Appended(channel, channel', m)
          /\ agent'.up /\ agent'.minted = agent.minted + 1
          /\ agent'.slot = [agent.slot EXCEPT ![r] = [id |-> agent.minted, card |-> c]]
      BY <1>0, <1>5, CardGoesInLags
    <2>2. serving' = serving /\ agent.slot[r] = None
      BY <1>5 DEF CardGoesIn
    <2>3. \A q \in Readers : q # r => agent'.slot[q] = agent.slot[q]
      BY <1>2, <2>1 DEF AgentState, Slots
    <2>4. agent'.slot[r].id = agent.minted
      BY <1>2, <2>1 DEF AgentState, Slots
    <2>5. \A q \in Readers :
            /\ agent'.slot[q] # None /\ agent'.slot[q].id < agent.minted => agent'.slot[q] = agent.slot[q]
            /\ agent.slot[q] # None => agent'.slot[q] = agent.slot[q]
      BY <1>2, <2>2, <2>3, <2>4
    <2>6. m.what # "reply"
      BY DEF News
    <2>7. agent.minted <= agent'.minted
      BY <1>2, <2>1
    <2>. HIDE DEF m
    <2>. QED BY <1>1, <2>1, <2>2, <2>5, <2>6, <2>7, ReportKeeps
  <1>6. ASSUME NEW r \in Readers, CardComesOut(r)
        PROVE  IInv'
    <2>. DEFINE m == News("removed", r, agent.slot[r].id, None)
    <2>1. /\ agent' \in AgentState /\ channel' \in Seq(Message) /\ Lagging(view, agent', channel')
          /\ Appended(channel, channel', m)
          /\ agent'.up /\ agent'.minted = agent.minted
          /\ agent'.slot = [agent.slot EXCEPT ![r] = None]
      BY <1>0, <1>6, CardComesOutLags
    <2>2. serving' = serving
      BY <1>6 DEF CardComesOut
    <2>3. m.what = "removed" /\ m.id = agent.slot[r].id
      BY DEF News
    <2>4. \A q \in Readers : agent'.slot[q] = IF q = r THEN None ELSE agent.slot[q]
      BY <1>2, <2>1 DEF AgentState, Slots
    <2>5. \A q \in Readers :
            /\ agent'.slot[q] # None => agent'.slot[q] = agent.slot[q]
            /\ agent.slot[q] # None
                 => agent'.slot[q] = agent.slot[q] \/ (m.what = "removed" /\ m.id = agent.slot[q].id)
      BY <2>3, <2>4
    <2>6. agent.minted <= agent'.minted
      BY <1>2, <2>1
    <2>. HIDE DEF m
    <2>. QED BY <1>1, <2>1, <2>2, <2>3, <2>5, <2>6, ReportKeeps
  <1>. QED BY <1>1, <1>3, <1>4, <1>5, <1>6 DEF Hardware

-----------------------------------------------------------------------------
(* The agent ends the request it is at work on.                            *)

LEMMA RepliedKeeps ==
    ASSUME IInv, serving # None, NEW end \in Ends, NEW data \in Data, Reply(end, data),
           worker.stage = "reading" /\ end.status = "Ok" => data.card = worker.card,
           worker.stage = "exporting" => worker.gone \/ Pulled(Len(channel) + 1) \/ Wanted(end, data)
    PROVE  IInv' /\ worker' = worker
  <1>. DEFINE m == [what |-> "reply", end |-> end, data |-> data]
  <1>0. Typed /\ Lagging(view, agent, channel) /\ Outstanding /\ Reading /\ Exporting /\ Listed(worker.answer)
    BY DEF IInv
  <1>1. m \in Message /\ m.what = "reply" /\ m.end = end /\ m.data = data
    BY NewsTyped
  <1>2. channel' = Append(channel, m) /\ serving' = None /\ UNCHANGED <<agent, view, worker>>
    BY DEF Reply, Send
  <1>. HIDE DEF m
  <1>3. channel' \in Seq(Message) /\ Appended(channel, channel', m)
    BY <1>0, <1>1, <1>2, AppendIs DEF Typed
  <1>4. Lagging(view, agent, channel')
    <2>1. SameNews(channel, channel')
      BY <1>1, <1>3, ReplyIsQuiet DEF Quiet
    <2>. QED BY <1>0, <2>1, LaggingQuiet
  <1>5. NoReply
    BY <1>0 DEF Outstanding
  <1>6. ASSUME NEW i \in DOMAIN channel', channel'[i].what = "reply"
        PROVE  i = Len(channel) + 1 /\ channel'[i] = m
    BY <1>3, <1>5, <1>6 DEF Appended, NoReply
  <1>7. Typed'
    BY <1>0, <1>2, <1>3 DEF Typed
  <1>8. Outstanding'
    BY <1>0, <1>2, <1>6 DEF Outstanding, NoReply
  <1>9. Reading'
    BY <1>0, <1>1, <1>2, <1>6 DEF Reading
  <1>10. Exporting'
    <2>1. \A i : Pulled(i) => Pulled(i)'
      BY <1>2, <1>3 DEF Pulled, Appended
    <2>2. ASSUME NEW i \in DOMAIN channel', channel'[i].what = "reply", worker.stage = "exporting"
          PROVE  worker.gone \/ Pulled(i)' \/ Wanted(channel'[i].end, channel'[i].data)
      BY <1>1, <1>6, <2>1, <2>2
    <2>3. \A i \in DOMAIN channel' : channel'[i].what = "reply" /\ worker'.stage = "exporting" =>
              worker'.gone \/ Pulled(i)' \/ Wanted(channel[i].end, channel[i].data)'
      BY <1>2, <2>2 DEF Wanted
    <2>4. worker.stage = "exporting" =>
              /\ worker.id \in Ids /\ worker.card \in Cards
              /\ worker.kind \in {"CertDerLeaf", "CertPemLeaf"}
              /\ worker.wanted # None
              /\ worker.wanted = ResolveCertId(CertsOf[worker.card], worker.folder)
              /\ worker.gone \/ Wanted(worker.end, worker.data)
      BY <1>0 DEF Exporting
    <2>. QED BY <1>2, <2>3, <2>4 DEF Exporting, Wanted
  <1>. QED BY <1>0, <1>2, <1>4, <1>7, <1>8, <1>9, <1>10 DEF IInv

LEMMA AgentEndsReadKeeps ==
    ASSUME IInv, AgentEndsRead
    PROVE  IInv' /\ worker' = worker
  <1>. DEFINE reader == ReaderOf(agent.slot, serving.id)
  <1>1. serving # None /\ serving.by = "card"
    BY DEF AgentEndsRead
  <1>2. Typed /\ Outstanding /\ Reading /\ Exporting
    BY DEF IInv
  <1>3. worker.stage = "reading"
    <2>1. worker.stage \in {"idle", "reading", "exporting"}
      BY <1>2 DEF Typed, Requests
    <2>. QED BY <1>1, <1>2, <2>1 DEF Outstanding, Exporting
  <1>4. NoData \in Data
    BY NoDataTyped
  <1>5. ASSUME NEW end \in Ends, end.status # "Ok", Reply(end, NoData)
        PROVE  IInv' /\ worker' = worker
    BY <1>1, <1>3, <1>4, <1>5, RepliedKeeps
  <1>6. {EndedByRemoval, EndedByUser, EndedUnauthenticated, EndedUnreadable, EndedUnsupported, EndedOk} \subseteq Ends
    BY EndsAre
  <1>7. ASSUME reader # None, NEW data, data = [NoData EXCEPT !.card = agent.slot[reader].card],
               Reply(EndedOk, data)
        PROVE  IInv' /\ worker' = worker
    <2>1. reader \in Readers /\ agent.slot[reader] # None /\ agent.slot[reader].id = serving.id
      BY <1>7 DEF ReaderOf
    <2>. HIDE DEF reader
    <2>2. agent.slot[reader].card = worker.card /\ worker.card \in Cards
      BY <1>1, <1>2, <1>3, <2>1 DEF Reading
    <2>3. data \in Data /\ data.card = worker.card
      BY <1>7, <2>2, NoDataTyped
    <2>. QED BY <1>1, <1>3, <1>6, <1>7, <2>3, RepliedKeeps
  <1>8. \/ Reply(EndedByRemoval, NoData)
        \/ \E end \in {EndedByUser, EndedUnauthenticated, EndedUnreadable, EndedUnsupported} : Reply(end, NoData)
        \/ reader # None /\ Reply(EndedOk, [NoData EXCEPT !.card = agent.slot[reader].card])
    BY DEF AgentEndsRead
  <1>. QED BY <1>5, <1>6, <1>7, <1>8, EndsAre

LEMMA AgentEndsExportKeeps ==
    ASSUME IInv, AgentEndsExport
    PROVE  IInv' /\ worker' = worker
  <1>. DEFINE held == Held(agent.slot)[serving.reader]
              X == [id |-> worker.id, card |-> worker.card]
              Known == worker.gone \/ Pulled(Len(channel) + 1)
  <1>1. serving # None /\ serving.by = "reader"
    BY DEF AgentEndsExport
  <1>2. Typed /\ Outstanding /\ Reading /\ Exporting
    BY DEF IInv
  <1>3. worker.stage = "exporting"
    <2>1. worker.stage \in {"idle", "reading", "exporting"}
      BY <1>2 DEF Typed, Requests
    <2>. QED BY <1>1, <1>2, <2>1 DEF Outstanding, Reading
  <1>4. /\ serving.cert = worker.wanted /\ serving.reader \in Readers
        /\ Known \/ agent.slot[serving.reader] = X
        /\ worker.id \in Ids /\ worker.card \in Cards /\ worker.wanted # None
        /\ worker.wanted = ResolveCertId(CertsOf[worker.card], worker.folder)
    BY <1>1, <1>2, <1>3 DEF Exporting
  <1>5. worker.wanted \in CertIds /\ worker.wanted \in CertIdsOf(worker.card)
    BY <1>4, ResolvedIsNamed
  <1>6. agent.slot \in Slots
    BY <1>2 DEF Typed, AgentState
  <1>7. held \in Cards \cup {None} /\ (Known \/ held = worker.card)
    <2>1. X \in Presence /\ X.card = worker.card
      BY <1>4 DEF Presence
    <2>. QED BY <1>4, <1>6, <2>1, HeldIs, PresenceNotNone
  <1>. HIDE DEF held, Known
  <1>8. NoData \in Data
    BY NoDataTyped
  <1>9. ASSUME NEW end \in Ends, NEW data \in Data, Reply(end, data), Known \/ Wanted(end, data)
        PROVE  IInv' /\ worker' = worker
    BY <1>1, <1>3, <1>9, RepliedKeeps DEF Known
  <1>10. CASE Reply(EndedUnreadable, NoData)
    BY <1>8, <1>9, <1>10, EndsAre DEF Wanted
  <1>11. CASE serving.cert \notin CertIdsOf(held) /\ Reply(EndedKeyNotFound, NoData)
    BY <1>4, <1>5, <1>7, <1>8, <1>9, <1>11, EndsAre
  <1>12. CASE Reply(EndedOk, [card |-> held, cert |-> serving.cert])
    <2>1. [card |-> held, cert |-> serving.cert] \in Data
      BY <1>4, <1>5, <1>7 DEF Data
    <2>2. Known \/ [card |-> held, cert |-> serving.cert] = [card |-> worker.card, cert |-> worker.wanted]
      BY <1>4, <1>7
    <2>. QED BY <1>9, <1>12, <2>1, <2>2, EndsAre DEF Wanted
  <1>. QED BY <1>10, <1>11, <1>12 DEF AgentEndsExport, held

-----------------------------------------------------------------------------
(* The theorems.                                                           *)

LEMMA InitIsSound ==
    ASSUME Init
    PROVE  IInv
  <1>1. /\ Idle \in Requests /\ Idle.stage = "idle" /\ Idle.op = "none" /\ Idle.answer = NoAnswer
    <2>1. Idle.stage = "idle" /\ Idle.op = "none" /\ Idle.answer = NoAnswer
      BY DEF Idle
    <2>. QED BY <2>1, IdleTyped
  <1>2. 0 \in Ids /\ NoCards \in Slots /\ \A r \in Readers : NoCards[r] = None
    BY NobodyHome, WorkerAssumption DEF Ids, NoCards
  <1>3. channel \in Seq(Message) /\ DOMAIN channel = {}
    BY DEF Init
  <1>4. agent \in AgentState /\ view \in Registry /\ agent.slot = NoCards /\ view.slot = NoCards
    BY <1>2 DEF Init, AgentState, Registry
  <1>5. Typed
    BY <1>1, <1>3, <1>4 DEF Init, Typed
  <1>6. Lagging(view, agent, channel)
    BY <1>2, <1>3, <1>4, NobodyHome DEF Lagging, AgentSound, Removals, Mirrored
  <1>7. Outstanding /\ Reading /\ Exporting
    BY <1>1, <1>3 DEF Init, Outstanding, NoReply, Reading, Exporting
  <1>8. Listed(worker.answer)
    BY <1>1, AnswersTyped DEF Init, Listed
  <1>. QED BY <1>5, <1>6, <1>7, <1>8 DEF IInv

LEMMA StutterKeeps ==
    ASSUME IInv, UNCHANGED vars
    PROVE  IInv' /\ worker' = worker
  <1>1. UNCHANGED <<agent, serving, channel, view, worker>>
    BY DEF vars
  <1>2. Typed' /\ Outstanding' /\ Reading' /\ Listed(worker.answer)'
    BY <1>1 DEF IInv, Typed, Outstanding, NoReply, Reading, Listed
  <1>3. Lagging(view, agent, channel)'
    BY <1>1 DEF IInv
  <1>4. Exporting'
    BY <1>1 DEF IInv, Exporting, Wanted, Pulled
  <1>. QED BY <1>1, <1>2, <1>3, <1>4 DEF IInv

(* The invariant is inductive, and only the end of a read or of an export  *)
(* answers a request that drove an operation.                              *)
LEMMA StepKeeps ==
    ASSUME IInv, [Next]_vars
    PROVE  IInv' /\ ServedFromIt /\ ReportedRemoved /\ NotMissing
  <1>1. CASE AfterRead
    BY <1>1, AfterReadKeeps
  <1>2. CASE AfterExport
    BY <1>2, AfterExportKeeps
  <1>3. ASSUME worker.stage = "idle" \/ worker'.stage = worker.stage
        PROVE  ServedFromIt /\ ReportedRemoved /\ NotMissing
    BY <1>3 DEF ServedFromIt, ReportedRemoved, NotMissing, OperationAnswered
  <1>4. CASE Request
    BY <1>3, <1>4, RequestKeeps
  <1>5. CASE Deliver
    BY <1>3, <1>5, DeliverKeeps
  <1>6. CASE Stall
    BY <1>3, <1>6, StallKeeps
  <1>7. CASE Hardware
    BY <1>3, <1>7, HardwareKeeps
  <1>8. CASE AgentEndsRead
    BY <1>3, <1>8, AgentEndsReadKeeps
  <1>9. CASE AgentEndsExport
    BY <1>3, <1>9, AgentEndsExportKeeps
  <1>10. CASE UNCHANGED vars
    BY <1>3, <1>10, StutterKeeps
  <1>. QED BY <1>1, <1>2, <1>4, <1>5, <1>6, <1>7, <1>8, <1>9, <1>10 DEF Next

LEMMA Inductive == Spec => []IInv
  <1>1. Init => IInv
    BY InitIsSound
  <1>2. IInv /\ [Next]_vars => IInv'
    BY StepKeeps
  <1>. QED BY <1>1, <1>2, PTL DEF Spec

(* The agent, the messages under way, the worker's registry and the        *)
(* request being answered have their types, whatever the agent does while  *)
(* the worker's event loop runs.                                           *)
THEOREM TypeCorrect == Spec => []TypeOK
  <1>1. IInv => TypeOK
    <2>1. SUFFICES ASSUME IInv PROVE TypeOK
      OBVIOUS
    <2>2. \A i \in DOMAIN channel :
            channel[i].what \in {"up", "lost", "inserted", "removed", "reply", "unheard"}
      <3>1. \A m \in Message : m.what \in {"up", "lost", "inserted", "removed", "reply", "unheard"}
        BY DEF Message, Reported, Unheard
      <3>. QED BY <2>1, <3>1 DEF IInv, Typed
    <2>. QED BY <2>1, <2>2 DEF IInv, Typed, TypeOK, AgentState, Registry, Slots, Requests, Answered
  <1>. QED BY <1>1, Inductive, PTL

(* When the worker has answered a request (CardWorkerLogic returns its     *)
(* WorkerResult and the operation goes out of scope), the agent is at work *)
(* on nothing for it, and no reply is left to be taken for a later one's.  *)
THEOREM RequestsAreSeparate == Spec => []NoReadOutlivesItsRequest
  <1>1. IInv => NoReadOutlivesItsRequest
    BY DEF IInv, Outstanding, NoReply, NoReadOutlivesItsRequest
  <1>. QED BY <1>1, Inductive, PTL

(* For every path and every set of cards present, what is listed resolves  *)
(* (CardTree::list, doListDir, CardTree::resolve), and what resolves is    *)
(* listed by its parent, but for the folders of PKI, where the resolver    *)
(* takes any name; every signing certificate has a folder of its own in    *)
(* the worker's listing there, which resolveCertId finds.                  *)
THEOREM TreeIsWhatItLists == Spec => []TreeListsWhatItResolves
  <1>1. \A path \in Paths : \A held : ListedWhereResolved(held, path)
    <2>1. SUFFICES ASSUME NEW path \in Paths, NEW held PROVE ListedWhereResolved(held, path)
      OBVIOUS
    <2>2. CASE path = <<>>
      BY <2>2 DEF ListedWhereResolved, Resolve
    <2>3. CASE path # <<>>
      <3>. DEFINE kind == Resolve(held, Front(path))
      <3>0. path \in Seq(Range(path))
        BY WorkerAssumption
      <3>1. /\ Last(path) \in ListChildren(held, Front(path))
                 <=> Resolve(held, path) # "Invalid" /\ kind \in {"Root", "Reader", "IdentityDir"}
            /\ kind = "PkiDir" => Resolve(held, path) # "Invalid"
            /\ kind = "CertDir" => (Resolve(held, path) # "Invalid" <=> Last(path) \in CertChildren)
            /\ kind \notin Directories => Resolve(held, path) = "Invalid"
        BY <2>3, <3>0, ListedResolves, ResolvesBelow DEF CertChildren
      <3>. HIDE DEF kind
      <3>2. ListedWhereResolved(held, path) <=>
              IF kind = "PkiDir" THEN Resolve(held, path) # "Invalid"
              ELSE Last(path) \in (IF kind = "CertDir" THEN CertChildren ELSE ListChildren(held, Front(path)))
                   <=> Resolve(held, path) # "Invalid"
        BY <2>3 DEF ListedWhereResolved, ListedAtOnce, kind
      <3>. QED BY <3>1, <3>2 DEF Directories
    <2>. QED BY <2>2, <2>3
  <1>2. IInv => TreeListsWhatItResolves
    <2>1. SUFFICES ASSUME IInv, worker.answer.data.card # None, worker.answer.names # {}
                   PROVE  EachCertificateIsFound(CertsOf[worker.answer.data.card], worker.answer.names)
      BY <1>1 DEF TreeListsWhatItResolves
    <2>2. worker.answer.data.card \in Cards
      BY <2>1 DEF IInv, Typed, Requests, Answered, Data
    <2>3. worker.answer.names = FolderNames(CertsOf[worker.answer.data.card])
      BY <2>1 DEF IInv, Listed
    <2>. QED BY <2>2, <2>3, FoldersFindEach
  <1>. QED BY <1>2, Inductive, PTL

(* What an operation brought is served only if it was read from the card   *)
(* the path's reader held when the file manager asked, and, below a        *)
(* certificate's folder, from the certificate the folder stands for: the   *)
(* worker consults an operation only if its card has not taken it along,   *)
(* and asks after the removal of the card before it serves an export.      *)
THEOREM ServedFromTheCard == Spec => ServedFromItsCard
  <1>1. IInv /\ [Next]_vars => [OperationAnswered /\ worker'.answer.data # NoData =>
            /\ worker'.answer.data.card = worker.card
            /\ worker.kind \in {"CertInfoLeaf", "CertDerLeaf", "CertPemLeaf"} =>
                 StandsFor(worker.folder, worker.card, worker'.answer.data.cert)]_vars
    BY StepKeeps DEF ServedFromIt
  <1>. QED BY <1>1, Inductive, PTL DEF Spec, ServedFromItsCard

(* A card the worker knows to be gone when its read or export ends is      *)
(* reported as removed, not as the user's cancellation the library ends    *)
(* its operations with and not as whatever the agent said of the export.   *)
THEOREM RemovalIsReported == Spec => PulledCardIsReportedRemoved
  <1>1. IInv /\ [Next]_vars =>
          [/\ OperationAnswered
           /\ view.up
           /\ worker.card \notin {Held(view.slot)[r] : r \in Readers}
           /\ worker.stage = "reading" \/ worker.gone
           => worker'.answer = Fail("ERR_WORKER_DIED")]_vars
    BY StepKeeps DEF ReportedRemoved
  <1>. QED BY <1>1, Inductive, PTL DEF Spec, PulledCardIsReportedRemoved

(* A certificate whose folder was found is never reported as missing: the  *)
(* agent exports by the reader's name, and answers that it has no such     *)
(* certificate only once another card is there, of which the worker knows. *)
THEOREM FoundIsNotMissing == Spec => FoundCertificateIsNotMissing
  <1>1. IInv /\ [Next]_vars =>
          [worker.stage = "exporting" /\ OperationAnswered =>
             worker'.answer.result # "ERR_DOES_NOT_EXIST"]_vars
    BY StepKeeps DEF NotMissing
  <1>. QED BY <1>1, Inductive, PTL DEF Spec, FoundCertificateIsNotMissing
-----------------------------------------------------------------------------
(* What a request under way waits for.                                     *)

(* A loop that runs waits for an answer that the agent is at work on, or   *)
(* that is under way; one with an operation that is over was asked to      *)
(* quit, and what was read is of a kind AfterRead knows to go on with.     *)
RequestIsPursued ==
    /\ worker.op = "running" => serving # None \/ ~NoReply
    /\ worker.stage # "idle" => worker.op # "none" /\ (worker.op # "running" => worker.quit)
    /\ worker.stage = "reading" => worker.kind \in ReadLeaves \cup {"PkiDir"}
    /\ worker.stage = "reading" /\ worker.quit => worker.op # "running"

(* A request that is answered waits for nothing.                           *)
LEMMA AnsweredIsPursued ==
    ASSUME NEW answer, worker' = [Idle EXCEPT !.answer = answer]
    PROVE  RequestIsPursued'
  <1>1. worker'.stage = "idle" /\ worker'.op = "none"
    BY DEF Idle
  <1>. QED BY <1>1 DEF RequestIsPursued

(* The agent is at work on a read that has been started.                   *)
LEMMA StartReadIsPursued ==
    ASSUME IInv, NEW path \in Paths, NEW kind \in ReadLeaves \cup {"PkiDir"},
           kind = Resolve(Held(view.slot), path), StartRead(kind, path)
    PROVE  RequestIsPursued'
  <1>. DEFINE held == view.slot[path[1][1]]
              folder == IF Len(path) > 2 THEN path[3] ELSE None
              asked == AskedByCard(held.id)
  <1>1. held \in Presence
    <2>1. Typed /\ kind \notin {"Root", "Invalid"}
      BY DEF IInv, ReadLeaves
    <2>. QED BY <2>1, PathOfACard DEF Typed, Registry
  <1>2. asked # None
    BY <1>1, PresenceIs, FetchTyped
  <1>3. \/ /\ serving' = asked
           /\ worker' = ReadOf(kind, held.id, held.card, folder)
        \/ \E end : AnswerAtOnce(FailForRead(MapStatus(end), kind = "PkiDir"))
    BY DEF StartRead, AskedByCard, ReadOf
  <1>4. ASSUME serving' = asked, NEW id, NEW card, NEW f, worker' = ReadOf(kind, id, card, f)
        PROVE  RequestIsPursued'
    <2>1. worker'.stage = "reading" /\ worker'.op = "running" /\ worker'.kind = kind /\ ~worker'.quit
      BY <1>4 DEF ReadOf, Idle
    <2>2. serving' # None
      BY <1>2, <1>4
    <2>. HIDE DEF asked
    <2>. QED BY <2>1, <2>2 DEF RequestIsPursued
  <1>5. ASSUME NEW end, AnswerAtOnce(FailForRead(MapStatus(end), kind = "PkiDir"))
        PROVE  RequestIsPursued'
    BY <1>5, AnsweredIsPursued DEF AnswerAtOnce
  <1>. HIDE DEF held, folder, asked
  <1>. QED BY <1>3, <1>4, <1>5

LEMMA RequestPursues ==
    ASSUME IInv, Request
    PROVE  RequestIsPursued'
  <1>1. PICK path \in Paths : DoListDir(path) \/ DoStat(path) \/ DoMimetype(path) \/ DoGet(path)
    BY DEF Request
  <1>. DEFINE kind == Resolve(Held(view.slot), path)
  <1>2. \A answer : AnswerAtOnce(answer) => RequestIsPursued'
    BY AnsweredIsPursued DEF AnswerAtOnce
  <1>3. (\E answer : AnswerAtOnce(answer)) \/ (kind \in ReadLeaves \cup {"PkiDir"} /\ StartRead(kind, path))
    <2>1. CASE DoListDir(path)
      BY <2>1 DEF DoListDir
    <2>2. CASE DoStat(path) \/ DoMimetype(path)
      BY <2>2 DEF DoStat, DoMimetype
    <2>3. CASE DoGet(path)
      BY <2>3 DEF DoGet
    <2>. QED BY <1>1, <2>1, <2>2, <2>3
  <1>4. kind \in ReadLeaves \cup {"PkiDir"} /\ StartRead(kind, path) => RequestIsPursued'
    BY StartReadIsPursued
  <1>. QED BY <1>2, <1>3, <1>4

(* The agent is at work on an export that has been started, or the bus has *)
(* already said that there is no agent.                                    *)
LEMMA StartExportPursues ==
    ASSUME IInv, NEW certId \in CertIds, StartExport(certId)
    PROVE  RequestIsPursued'
  <1>. DEFINE reader == ReaderOf(view.slot, worker.id)
  <1>1. worker \in Requests /\ channel \in Seq(Message)
    BY DEF IInv, Typed
  <1>2. CASE reader = None
    BY <1>2, AnsweredIsPursued DEF StartExport, AnswerRead, Answer
  <1>3. CASE reader # None
    <2>1. worker'.stage = "exporting" /\ worker'.op = "running"
      BY <1>1, <1>3 DEF StartExport, Requests
    <2>2. reader \in Readers
      BY <1>3 DEF ReaderOf
    <2>3. \/ serving' = AskedByReader(reader, certId)
          \/ channel' = Append(channel, AbandonedReply)
      BY <1>3 DEF StartExport, AskedByReader, AbandonedReply
    <2>. HIDE DEF reader
    <2>4. serving' = AskedByReader(reader, certId) => serving' # None
      BY <2>2, FetchTyped
    <2>5. channel' = Append(channel, AbandonedReply) => ~NoReply'
      BY <1>1 DEF NoReply, AbandonedReply
    <2>. QED BY <2>1, <2>3, <2>4, <2>5 DEF RequestIsPursued
  <1>. QED BY <1>2, <1>3

LEMMA AfterReadPursues ==
    ASSUME IInv, AfterRead
    PROVE  RequestIsPursued'
  <1>. DEFINE wanted == ResolveCertId(CertsOf[worker.data.card], worker.folder)
  <1>1. \A answer : Answer(answer) => RequestIsPursued'
    BY AnsweredIsPursued DEF Answer
  <1>2. \/ \E answer : Answer(answer)
        \/ worker.op = "finished" /\ MapStatus(worker.end) = "Ok" /\ wanted # None /\ StartExport(wanted)
    BY DEF AfterRead, AnswerRead, Serve
  <1>3. ASSUME worker.op = "finished", MapStatus(worker.end) = "Ok", wanted # None
        PROVE  wanted \in CertIds
    <2>1. worker.stage = "reading" /\ Reading
      BY DEF AfterRead, IInv
    <2>2. worker.data.card = worker.card /\ worker.card \in Cards
      BY <1>3, <2>1, MapStatusOk DEF Reading
    <2>. QED BY <1>3, <2>2, ResolvedIsNamed
  <1>. HIDE DEF wanted
  <1>. QED BY <1>1, <1>2, <1>3, StartExportPursues

LEMMA AfterExportPursues ==
    ASSUME IInv, AfterExport
    PROVE  RequestIsPursued'
  <1>1. \E answer : Answer(answer)
    BY DEF AfterExport, AnswerRead, Serve
  <1>. QED BY <1>1, AnsweredIsPursued DEF Answer

LEMMA DeliverPursues ==
    ASSUME IInv, RequestIsPursued, Deliver
    PROVE  RequestIsPursued'
  <1>. DEFINE m == channel[1]
  <1>1. worker \in Requests /\ m \in Message /\ Handled(channel, channel') /\ serving' = serving
    BY DeliverIs DEF IInv, Typed
  <1>2. OnInserted(m) \/ OnRemoved(m) \/ OnAgentUp(m) \/ OnAgentLost(m) \/ OnReply(m) \/ OnUnheard(m)
    <2>1. Head(channel) = m
      BY TailIs DEF Deliver, IInv, Typed
    <2>. QED BY <2>1 DEF Deliver
  <1>3. m.what # "reply" => (NoReply' => NoReply)
    <2>1. ASSUME m.what # "reply", NoReply', NEW i \in DOMAIN channel
          PROVE  channel[i].what # "reply"
      <3>1. CASE i = 1
        BY <2>1, <3>1
      <3>2. CASE i # 1
        <4>1. i - 1 \in DOMAIN channel' /\ channel'[i - 1] = channel[i]
          BY <1>1, <3>2 DEF Handled
        <4>. QED BY <2>1, <4>1 DEF NoReply
      <3>. QED BY <3>1, <3>2
    <2>. QED BY <2>1 DEF NoReply
  <1>. HIDE DEF m
  <1>4. CASE m.what # "reply" /\ UNCHANGED worker
    BY <1>1, <1>3, <1>4 DEF RequestIsPursued
  <1>5. ASSUME m.what # "reply", NEW end \in Ends, worker' = CardLost(worker, end)
        PROVE  RequestIsPursued'
    <2>1. CASE worker.stage = "idle"
      BY <1>1, <1>3, <1>5, <2>1 DEF RequestIsPursued, CardLost
    <2>2. CASE worker.stage = "reading"
      <3>1. worker'.op = "destroyed" /\ worker'.quit /\ worker'.kind = worker.kind
        BY <1>1, <1>5, <2>2 DEF CardLost, Requests
      <3>. QED BY <2>2, <3>1 DEF RequestIsPursued
    <2>3. CASE worker.stage = "exporting"
      <3>1. worker'.stage = "exporting" /\ worker'.quit /\ worker'.op = worker.op
        BY <1>1, <1>5, <2>3 DEF CardLost, Requests
      <3>. QED BY <1>1, <1>3, <1>5, <2>3, <3>1 DEF RequestIsPursued
    <2>. QED BY <1>1, <2>1, <2>2, <2>3 DEF Requests
  <1>6. CASE OnReply(m)
    <2>1. CASE worker.op # "running"
      BY <1>6, <2>1 DEF RequestIsPursued, OnReply
    <2>2. CASE worker.op = "running"
      <3>1. /\ worker'.op = "finished" /\ worker'.quit /\ worker'.stage = worker.stage
            /\ worker'.kind = worker.kind
        BY <1>1, <1>6, <2>2 DEF OnReply, Requests
      <3>. QED BY <3>1 DEF RequestIsPursued
    <2>. QED BY <2>1, <2>2
  <1>7. CASE OnRemoved(m) \/ OnAgentLost(m)
    <2>1. m.what # "reply"
      BY <1>7 DEF OnRemoved, OnAgentLost
    <2>2. UNCHANGED worker \/ \E end \in Ends : worker' = CardLost(worker, end)
      BY <1>7, EndsAre DEF OnRemoved, OnAgentLost
    <2>. QED BY <1>4, <1>5, <2>1, <2>2
  <1>8. CASE OnInserted(m) \/ OnAgentUp(m) \/ OnUnheard(m)
    BY <1>4, <1>8 DEF OnInserted, OnAgentUp, OnUnheard
  <1>. QED BY <1>2, <1>6, <1>7, <1>8

LEMMA StallPursues ==
    ASSUME IInv, RequestIsPursued, Stall
    PROVE  RequestIsPursued'
  <1>1. worker \in Requests /\ worker' = FinishedAs(worker, EndedSilent, worker.data)
    BY DEF IInv, Typed, Stall, FinishedAs, Requests
  <1>2. /\ worker'.op = "finished" /\ worker'.quit
        /\ worker'.stage = worker.stage /\ worker'.kind = worker.kind
    BY <1>1 DEF FinishedAs, Requests
  <1>. QED BY <1>2 DEF RequestIsPursued

(* The agent takes no reply back, and gives up a request only to reply.    *)
LEMMA AgentPursues ==
    ASSUME RequestIsPursued, UNCHANGED worker, NEW S, channel \in Seq(S),
           NEW ch \in Seq(S), channel' = channel \o ch,
           serving' = serving \/ \E i \in DOMAIN ch : ch[i].what = "reply"
    PROVE  RequestIsPursued'
  <1>1. /\ \A i \in DOMAIN channel : i \in DOMAIN channel' /\ channel'[i] = channel[i]
        /\ \A i \in DOMAIN ch : /\ Len(channel) + i \in DOMAIN channel'
                                /\ channel'[Len(channel) + i] = ch[i]
    OBVIOUS
  <1>2. NoReply' => NoReply
    BY <1>1 DEF NoReply
  <1>3. NoReply' => serving' = serving
    BY <1>1 DEF NoReply
  <1>. QED BY <1>2, <1>3 DEF RequestIsPursued

(* An appended message, in the form of the above.                          *)
LEMMA SentPursues ==
    ASSUME RequestIsPursued, UNCHANGED worker, channel \in Seq(Message), NEW m, Send(m),
           serving' = serving \/ m.what = "reply"
    PROVE  RequestIsPursued'
  <1>. DEFINE ch == <<m>>
              S == Message \cup {m}
  <1>1. channel \in Seq(S) /\ ch \in Seq(S)
    OBVIOUS
  <1>2. 1 \in DOMAIN ch /\ ch[1] = m
    OBVIOUS
  <1>3. channel' = channel \o ch
    BY DEF Send
  <1>. HIDE DEF ch, S
  <1>. QED BY <1>1, <1>2, <1>3, AgentPursues

LEMMA HardwarePursues ==
    ASSUME IInv, RequestIsPursued, Hardware
    PROVE  RequestIsPursued'
  <1>1. channel \in Seq(Message) /\ agent \in AgentState /\ UNCHANGED worker
    BY DEF IInv, Typed, Hardware
  <1>2. CASE AgentStarts
    BY <1>1, <1>2, NewsTyped, SentPursues DEF AgentStarts
  <1>3. ASSUME NEW r \in Readers, NEW c \in Cards, CardGoesIn(r, c)
        PROVE  RequestIsPursued'
    BY <1>1, <1>3, NewsTyped, SentPursues DEF CardGoesIn, AgentState
  <1>4. ASSUME NEW r \in Readers, CardComesOut(r)
        PROVE  RequestIsPursued'
    <2>1. agent.slot[r].id \in Ids
      BY <1>1, <1>4, PresenceIs DEF CardComesOut, AgentState, Slots
    <2>. QED BY <1>1, <1>4, <2>1, NewsTyped, SentPursues DEF CardComesOut
  <1>5. CASE AgentDies
    <2>. DEFINE last == News("lost", None, None, None)
    <2>1. last \in Message /\ AbandonedReply \in Message
      BY NewsTyped, AbandonedTyped
    <2>2. channel' = (channel \o (IF serving = None THEN <<>> ELSE <<AbandonedReply>>)) \o <<last>>
      BY <1>5 DEF AgentDies, AbandonedReply
    <2>. HIDE DEF last
    <2>3. CASE serving = None
      <3>1. channel' = channel \o <<last>> /\ <<last>> \in Seq(Message)
        BY <1>1, <2>1, <2>2, <2>3
      <3>2. serving' = serving
        BY <1>5, <2>3 DEF AgentDies
      <3>. QED BY <1>1, <3>1, <3>2, AgentPursues
    <2>4. CASE serving # None
      <3>. DEFINE ch == <<AbandonedReply, last>>
      <3>1. channel' = channel \o ch
        BY <1>1, <2>1, <2>2, <2>4
      <3>2. ch \in Seq(Message) /\ 1 \in DOMAIN ch /\ ch[1].what = "reply"
        BY <2>1 DEF AbandonedReply
      <3>. HIDE DEF ch
      <3>. QED BY <1>1, <3>1, <3>2, AgentPursues
    <2>. QED BY <2>3, <2>4
  <1>. QED BY <1>2, <1>3, <1>4, <1>5 DEF Hardware

LEMMA AgentEndsPursues ==
    ASSUME IInv, RequestIsPursued, AgentEndsRead \/ AgentEndsExport
    PROVE  RequestIsPursued'
  <1>1. \E end, data : Reply(end, data)
    BY DEF AgentEndsRead, AgentEndsExport
  <1>2. PICK end, data : Reply(end, data)
    BY <1>1
  <1>. DEFINE m == [what |-> "reply", end |-> end, data |-> data]
  <1>3. channel \in Seq(Message) /\ UNCHANGED worker /\ Send(m) /\ m.what = "reply"
    BY <1>2 DEF IInv, Typed, Reply
  <1>. HIDE DEF m
  <1>. QED BY <1>3, SentPursues

LEMMA StepPursues ==
    ASSUME IInv, RequestIsPursued, [Next]_vars
    PROVE  RequestIsPursued'
  <1>1. CASE UNCHANGED vars
    BY <1>1 DEF vars, RequestIsPursued, NoReply
  <1>. QED BY <1>1, RequestPursues, AfterReadPursues, AfterExportPursues, DeliverPursues,
              StallPursues, HardwarePursues, AgentEndsPursues DEF Next

(* Nobody waits in vain, which is the safety half of RequestAnswered: a    *)
(* loop that runs waits for an answer the agent is at work on or that is   *)
(* under way, whatever was pulled, lost or restarted meanwhile; a request  *)
(* whose operation is over was asked to quit, and once a read was, its     *)
(* kind is one that doListDir or doGet go on with.                         *)
THEOREM NobodyWaitsInVain == Spec => []RequestIsPursued
  <1>1. Init => RequestIsPursued
    BY DEF Init, Idle, RequestIsPursued
  <1>. QED BY <1>1, StepPursues, Inductive, PTL DEF Spec
=============================================================================
