---------------------------- MODULE AdmissionProofs ----------------------------
(***************************************************************************)
(* Admission for any handles, slots and bounds.                            *)
(*                                                                         *)
(* That an admitted member is complete rests on the page: a profile is     *)
(* only asked to be published by who has joined, since the page only       *)
(* believes in a joining that an answer confirmed.  That the page shows    *)
(* the state as it is rests on the order of the port: in what is not heard *)
(* yet, everything after the last event tells the present state.           *)
(***************************************************************************)
EXTENDS Admission, SequenceTheorems, TLAPS

\* Each answer on its way belongs to one call that is done, and lets in only
\* who has joined.
Answers(q, under, j) ==
  /\ \A i \in DOMAIN q : q[i].kind = "reply" =>
       /\ under[q[i].slot] # Nothing /\ under[q[i].slot].at = "done"
       /\ q[i].ok /\ under[q[i].slot].op \in {"join", "signIn", "board"} => j
  /\ \A i, k \in DOMAIN q : q[i].kind = "reply" /\ q[k].kind = "reply" /\ i # k => q[i].slot # q[k].slot

PublishersJoined(under, j) ==
  \A s \in Slots : under[s] # Nothing /\ under[s].op \in {"prepare", "publish"} => j

News(m) == m.kind \in {"lobby", "load"} \/ (m.kind = "reply" /\ m.lobby # Nothing)

\* What no event comes after tells the present state.
Recent(q, l) ==
  \A i \in DOMAIN q :
    News(q[i]) /\ (\A k \in DOMAIN q : k > i => q[k].kind # "lobby") => q[i].lobby = l

Unheard(q) == \E i \in DOMAIN q : q[i].kind = "lobby"

AdmissionInv ==
  /\ TypeOK
  /\ AdmittedIsComplete
  /\ pageJoined => joined
  /\ PublishersJoined(calls, joined)
  /\ Answers(inbox, calls, joined)
  /\ Recent(inbox, lobby)
  /\ ShownIsCurrent

-----------------------------------------------------------------------------
(* Sequences of messages.                                                  *)

LEMMA TailOf ==
  ASSUME NEW S, NEW q \in Seq(S), q # <<>>
  PROVE  /\ Tail(q) \in Seq(S)
         /\ DOMAIN Tail(q) = 1..(Len(q) - 1)
         /\ \A i \in DOMAIN Tail(q) : i + 1 \in DOMAIN q /\ Tail(q)[i] = q[i + 1]
         /\ Head(q) = q[1] /\ 1 \in DOMAIN q /\ Head(q) \in S
  BY HeadTailProperties, LenProperties, ElementOfSeq

LEMMA AppendOf ==
  ASSUME NEW S, NEW q \in Seq(S), NEW e \in S
  PROVE  /\ Append(q, e) \in Seq(S)
         /\ DOMAIN Append(q, e) = 1..(Len(q) + 1)
         /\ \A i \in DOMAIN q : i \in DOMAIN Append(q, e) /\ Append(q, e)[i] = q[i]
         /\ Append(q, e)[Len(q) + 1] = e
         /\ DOMAIN q = 1..Len(q) /\ Len(q) \in Nat
  BY AppendProperties, LenProperties

\* A tail has no more to answer, and tells the present state where q did.
LEMMA TailKeeps ==
  ASSUME NEW q \in Seq(Messages), q # <<>>, NEW under, NEW j, NEW l,
         Answers(q, under, j), Recent(q, l)
  PROVE  Answers(Tail(q), under, j) /\ Recent(Tail(q), l)
<1> DEFINE t == Tail(q)
<1>1. /\ t \in Seq(Messages) /\ DOMAIN t = 1..(Len(q) - 1) /\ DOMAIN q = 1..Len(q) /\ Len(q) \in Nat
      /\ \A i \in DOMAIN t : i + 1 \in DOMAIN q /\ t[i] = q[i + 1]
  BY TailOf, LenProperties
<1> HIDE DEF t
<1>2. Answers(t, under, j)
  <2>1. \A i \in DOMAIN t : t[i].kind = "reply" =>
          /\ under[t[i].slot] # Nothing /\ under[t[i].slot].at = "done"
          /\ t[i].ok /\ under[t[i].slot].op \in {"join", "signIn", "board"} => j
    BY <1>1 DEF Answers
  <2>2. \A i, k \in DOMAIN t : t[i].kind = "reply" /\ t[k].kind = "reply" /\ i # k => t[i].slot # t[k].slot
    <3> TAKE i, k \in DOMAIN t
    <3>1. i + 1 \in DOMAIN q /\ k + 1 \in DOMAIN q /\ t[i] = q[i + 1] /\ t[k] = q[k + 1]
      BY <1>1
    <3>2. i # k => i + 1 # k + 1
      BY <1>1
    <3> QED BY <3>1, <3>2 DEF Answers
  <2> QED BY <2>1, <2>2 DEF Answers
<1>3. Recent(t, l)
  <2> SUFFICES ASSUME NEW i \in DOMAIN t, News(t[i]), \A k \in DOMAIN t : k > i => t[k].kind # "lobby"
               PROVE  t[i].lobby = l
    BY DEF Recent
  <2>1. ASSUME NEW k \in DOMAIN q, k > i + 1 PROVE q[k].kind # "lobby"
    <3>1. k - 1 \in DOMAIN t /\ k - 1 > i /\ (k - 1) + 1 = k
      BY <2>1, <1>1
    <3> QED BY <3>1, <1>1
  <2> QED BY <2>1, <1>1 DEF Recent
<1> QED BY <1>2, <1>3 DEF t

\* One message more, which tells the present state if it tells any.
LEMMA AppendRecent ==
  ASSUME NEW q \in Seq(Messages), NEW e \in Messages, NEW l,
         Recent(q, l) \/ e.kind = "lobby", News(e) => e.lobby = l
  PROVE  Recent(Append(q, e), l)
<1> DEFINE t == Append(q, e)
<1>1. /\ DOMAIN t = 1..(Len(q) + 1) /\ DOMAIN q = 1..Len(q) /\ Len(q) \in Nat
      /\ \A i \in DOMAIN q : i \in DOMAIN t /\ t[i] = q[i]
      /\ t[Len(q) + 1] = e
  BY AppendOf
<1> HIDE DEF t
<1> SUFFICES ASSUME NEW i \in DOMAIN t, News(t[i]), \A k \in DOMAIN t : k > i => t[k].kind # "lobby"
             PROVE  t[i].lobby = l
  BY DEF Recent, t
<1>2. CASE i = Len(q) + 1
  BY <1>1, <1>2
<1>3. CASE i # Len(q) + 1
  <2>1. i \in DOMAIN q /\ Len(q) + 1 > i /\ Len(q) + 1 \in DOMAIN t
    BY <1>1, <1>3
  <2>2. e.kind # "lobby"
    BY <2>1, <1>1
  <2> QED BY <2>1, <2>2, <1>1 DEF Recent
<1> QED BY <1>2, <1>3

\* The answer to a call that is done by it, or a message that answers none.
LEMMA AppendAnswers ==
  ASSUME NEW q \in Seq(Messages), NEW e \in Messages, NEW j, NEW joins,
         NEW under \in [Slots -> Calls \cup {Nothing}], NEW s \in Slots, under[s] \in Calls,
         under[s].at # "done", Answers(q, under, j), j => joins,
         e.kind = "reply" => e.slot = s,
         e.kind = "reply" /\ e.ok /\ under[s].op \in {"join", "signIn", "board"} => joins
  PROVE  Answers(Append(q, e), [under EXCEPT ![s].at = "done"], joins)
<1> DEFINE t == Append(q, e)
           now == [under EXCEPT ![s].at = "done"]
<1>1. /\ DOMAIN t = 1..(Len(q) + 1) /\ DOMAIN q = 1..Len(q) /\ Len(q) \in Nat
      /\ \A i \in DOMAIN q : i \in DOMAIN t /\ t[i] = q[i]
      /\ t[Len(q) + 1] = e
  BY AppendOf
<1>2. \A r \in Slots : r # s => now[r] = under[r]
  OBVIOUS
<1>3. now[s] \in Calls /\ now[s].at = "done" /\ now[s].op = under[s].op /\ now[s] # Nothing
  BY NothingAssumption DEF Calls
<1>4. \A i \in DOMAIN q : q[i].kind = "reply" => q[i].slot \in Slots /\ q[i].slot # s
  BY ElementOfSeq, <1>1 DEF Answers, Messages
<1> HIDE DEF t, now
<1>5. \A i \in DOMAIN t : i \in DOMAIN q \/ i = Len(q) + 1
  BY <1>1
<1>6. ASSUME NEW i \in DOMAIN t, t[i].kind = "reply"
      PROVE  /\ now[t[i].slot] # Nothing /\ now[t[i].slot].at = "done"
             /\ t[i].ok /\ now[t[i].slot].op \in {"join", "signIn", "board"} => joins
  <2>1. CASE i \in DOMAIN q
    BY <2>1, <1>1, <1>2, <1>4, <1>6 DEF Answers
  <2>2. CASE i = Len(q) + 1
    BY <2>2, <1>1, <1>3, <1>6
  <2> QED BY <2>1, <2>2, <1>5
<1>7. ASSUME NEW i \in DOMAIN t, NEW k \in DOMAIN t, t[i].kind = "reply", t[k].kind = "reply", i # k
      PROVE  t[i].slot # t[k].slot
  <2>1. CASE i \in DOMAIN q /\ k \in DOMAIN q
    BY <2>1, <1>1, <1>7 DEF Answers
  <2>2. CASE i = Len(q) + 1 /\ k \in DOMAIN q
    BY <2>2, <1>1, <1>4, <1>7
  <2>3. CASE k = Len(q) + 1 /\ i \in DOMAIN q
    BY <2>3, <1>1, <1>4, <1>7
  <2> QED BY <2>1, <2>2, <2>3, <1>5, <1>7
<1>8. Answers(t, now, joins)
  BY <1>6, <1>7 DEF Answers
<1> QED BY <1>8 DEF t, now

LEMMA TwoMore ==
  ASSUME NEW S, NEW q \in Seq(S), NEW a \in S, NEW b \in S
  PROVE  q \o <<a, b>> = Append(Append(q, a), b)
  OBVIOUS

\* Forgetting the answer to a load changes nothing of this, nor does leaving a page.
LEMMA StaleKeeps ==
  ASSUME NEW q \in Seq(Messages), NEW j, NEW l, NEW under \in [Slots -> Calls \cup {Nothing}],
         NEW now \in [Slots -> Calls \cup {Nothing}],
         \A s \in Slots : now[s] = under[s] \/ (under[s] \in Calls /\ now[s] = [under[s] EXCEPT !.by = "left"]),
         Answers(q, under, j), Recent(q, l)
  PROVE  /\ Stale(q) \in Seq(Messages) /\ (Unheard(Stale(q)) <=> Unheard(q))
         /\ Answers(Stale(q), now, j) /\ Recent(Stale(q), l)
<1> DEFINE t == Stale(q)
           gone == [kind |-> "stale", lobby |-> Nothing]
<1>1. DOMAIN q = 1..Len(q) /\ Len(q) \in Nat /\ \A i \in DOMAIN q : q[i] \in Messages
  BY ElementOfSeq, LenProperties
<1>2. DOMAIN t = DOMAIN q /\ \A i \in DOMAIN q : t[i] = IF q[i].kind = "load" THEN gone ELSE q[i]
  BY DEF Stale
<1>3. gone \in Messages /\ gone.kind = "stale"
  BY DEF Messages
<1>4. t \in Seq(Messages)
  <2>1. \A i \in 1..Len(q) : (IF q[i].kind = "load" THEN gone ELSE q[i]) \in Messages
    BY <1>1, <1>3
  <2> QED BY <1>1, <2>1, IsASeq DEF Stale
<1> HIDE DEF t, gone
<1>5. \A i \in DOMAIN q : (t[i].kind \in {"lobby", "reply"} \/ News(t[i])) => t[i] = q[i]
  BY <1>2, <1>3 DEF News
<1>6. \A i \in DOMAIN q : q[i].kind \in {"lobby", "reply"} => t[i] = q[i]
  BY <1>2
<1>7. \A s \in Slots : under[s] # Nothing => now[s] # Nothing /\ now[s].at = under[s].at /\ now[s].op = under[s].op
  BY NothingAssumption DEF Calls
<1>8. Unheard(t) <=> Unheard(q)
  BY <1>2, <1>5, <1>6 DEF Unheard
<1>9. Answers(t, now, j)
  <2>1. \A i \in DOMAIN q : q[i].kind = "reply" => q[i].slot \in Slots
    BY <1>1 DEF Messages
  <2>2. ASSUME NEW i \in DOMAIN t, t[i].kind = "reply"
        PROVE  /\ now[t[i].slot] # Nothing /\ now[t[i].slot].at = "done"
               /\ t[i].ok /\ now[t[i].slot].op \in {"join", "signIn", "board"} => j
    BY <1>2, <1>5, <1>7, <2>1, <2>2 DEF Answers
  <2>3. \A i, k \in DOMAIN t : t[i].kind = "reply" /\ t[k].kind = "reply" /\ i # k => t[i].slot # t[k].slot
    BY <1>2, <1>5 DEF Answers
  <2> QED BY <2>2, <2>3 DEF Answers
<1>10. Recent(t, l)
  BY <1>2, <1>5, <1>6 DEF Recent
<1> QED BY <1>4, <1>8, <1>9, <1>10 DEF t

-----------------------------------------------------------------------------
(* Steps of the page.                                                      *)

UpToDateIn(q, l, kept) ==
  ~Unheard(q) => /\ l # Nothing => l = lobby
                 /\ joined => l # Nothing
                 /\ View = "lobby" /\ kept # Nothing => kept = lobby

LEMMA ShowsStep ==
  ASSUME AdmissionInv, UNCHANGED adapter, sent' \in Seq(Slots), timers' \in Seq(Slots),
         NEW known \in BOOLEAN, NEW l \in LobbyStates \cup {Nothing}, NEW r \in Routes,
         NEW kept \in LobbyStates \cup {Nothing}, NEW loading \in BOOLEAN,
         NEW under \in [Slots -> Calls \cup {Nothing}], NEW queue \in Seq(Messages),
         Shows(known, l, r, kept, loading, under, queue),
         known => joined, PublishersJoined(under, joined), Answers(queue, under, joined),
         Recent(queue, lobby), UpToDateIn(queue, l, kept)
  PROVE  AdmissionInv'
<1> DEFINE now == Mounted(known, l, r)
           left == [s \in Slots |-> IF under[s] # Nothing /\ under[s].by = "view"
                                      THEN [under[s] EXCEPT !.by = "left"] ELSE under[s]]
<1>1. UNCHANGED <<joined, lobby, released, policy, board>>
  BY DEF adapter
<1>2. /\ left \in [Slots -> Calls \cup {Nothing}]
      /\ \A s \in Slots : left[s] = under[s] \/ (under[s] \in Calls /\ left[s] = [under[s] EXCEPT !.by = "left"])
  BY DEF Calls
<1>3. /\ Stale(queue) \in Seq(Messages) /\ (Unheard(Stale(queue)) <=> Unheard(queue))
      /\ Answers(Stale(queue), left, joined) /\ Recent(Stale(queue), lobby)
  BY <1>2, StaleKeeps
<1>4. pageJoined' = known /\ shown' = l /\ route' = r
  BY DEF Shows
<1>5. View' = now[1]
  BY <1>4 DEF View, Mounted, NeedsArrival, NeedsLobby
<1>6. /\ calls' \in [Slots -> Calls \cup {Nothing}] /\ inbox' \in Seq(Messages)
      /\ Answers(inbox', calls', joined) /\ Recent(inbox', lobby) /\ (Unheard(inbox') <=> Unheard(queue))
      /\ PublishersJoined(calls', joined)
  <2>1. CASE now # Mounted(pageJoined, shown, route)
    <3>1. calls' = left /\ inbox' = Stale(queue)
      BY <2>1 DEF Shows
    <3>2. PublishersJoined(left, joined)
      BY <1>2, NothingAssumption DEF PublishersJoined, Calls
    <3> QED BY <3>1, <3>2, <1>2, <1>3
  <2>2. CASE now = Mounted(pageJoined, shown, route)
    BY <2>2 DEF Shows
  <2> QED BY <2>1, <2>2
<1>7. /\ local' \in LobbyStates \cup {Nothing} /\ load' \in BOOLEAN
      /\ local' = Nothing \/ (local' = kept /\ View' = View)
  <2>1. now = Mounted(pageJoined, shown, route) => View' = View
    BY <1>5 DEF View
  <2> QED BY <2>1 DEF Shows
<1>8. TypeOK'
  BY <1>1, <1>4, <1>6, <1>7 DEF AdmissionInv, TypeOK
<1>9. ShownIsCurrent'
  <2>1. Quiet' => ~Unheard(queue)
    BY <1>6 DEF Quiet, Unheard
  <2> QED BY <2>1, <1>1, <1>4, <1>7 DEF UpToDateIn, ShownIsCurrent
<1> QED BY <1>1, <1>4, <1>6, <1>8, <1>9 DEF AdmissionInv, AdmittedIsComplete

LEMMA NavigateStep ==
  ASSUME AdmissionInv, NEW r \in Routes, Navigate(r)
  PROVE  AdmissionInv'
<1>1. UpToDateIn(inbox, shown, local)
  BY DEF AdmissionInv, ShownIsCurrent, Quiet, UpToDateIn, Unheard
<1> QED BY <1>1, ShowsStep DEF Navigate, AdmissionInv, TypeOK

\* What is heard leaves the rest as it was.
LEMMA HeardRest ==
  ASSUME AdmissionInv, First
  PROVE  /\ Tail(inbox) \in Seq(Messages) /\ Message \in Messages /\ Message = inbox[1] /\ 1 \in DOMAIN inbox
         /\ Answers(Tail(inbox), calls, joined) /\ Recent(Tail(inbox), lobby)
         /\ Message.kind # "lobby" => (Unheard(Tail(inbox)) <=> Unheard(inbox))
         /\ ~Unheard(Tail(inbox)) /\ News(Message) => Message.lobby = lobby
<1>1. inbox \in Seq(Messages) /\ inbox # <<>>
  BY DEF AdmissionInv, TypeOK, First
<1>2. /\ Tail(inbox) \in Seq(Messages) /\ DOMAIN Tail(inbox) = 1..(Len(inbox) - 1)
      /\ \A i \in DOMAIN Tail(inbox) : i + 1 \in DOMAIN inbox /\ Tail(inbox)[i] = inbox[i + 1]
      /\ Head(inbox) = inbox[1] /\ 1 \in DOMAIN inbox /\ Head(inbox) \in Messages
      /\ DOMAIN inbox = 1..Len(inbox) /\ Len(inbox) \in Nat
  BY <1>1, TailOf, LenProperties
<1>3. Answers(Tail(inbox), calls, joined) /\ Recent(Tail(inbox), lobby)
  BY <1>1, TailKeeps DEF AdmissionInv
<1>4. \A k \in DOMAIN inbox : k > 1 => k - 1 \in DOMAIN Tail(inbox) /\ Tail(inbox)[k - 1] = inbox[k]
  <2> TAKE k \in DOMAIN inbox
  <2> HAVE k > 1
  <2>1. k - 1 \in 1..(Len(inbox) - 1) /\ (k - 1) + 1 = k
    BY <1>2
  <2> QED BY <2>1, <1>2
<1>5. Message.kind # "lobby" => (Unheard(Tail(inbox)) <=> Unheard(inbox))
  <2>1. Unheard(Tail(inbox)) => Unheard(inbox)
    BY <1>2 DEF Unheard
  <2>2. ASSUME Message.kind # "lobby", Unheard(inbox) PROVE Unheard(Tail(inbox))
    <3>1. PICK k \in DOMAIN inbox : inbox[k].kind = "lobby"
      BY <2>2 DEF Unheard
    <3>2. k > 1
      BY <3>1, <2>2, <1>2 DEF Message
    <3> QED BY <3>1, <3>2, <1>4 DEF Unheard
  <2> QED BY <2>1, <2>2
<1>6. ASSUME ~Unheard(Tail(inbox)), News(Message) PROVE Message.lobby = lobby
  <2>1. \A k \in DOMAIN inbox : k > 1 => inbox[k].kind # "lobby"
    BY <1>4, <1>6 DEF Unheard
  <2>2. Recent(inbox, lobby)
    BY DEF AdmissionInv
  <2> QED BY <2>1, <2>2, <1>2, <1>6 DEF Recent, Message
<1> QED BY <1>2, <1>3, <1>5, <1>6 DEF Message

LEMMA HearLobbyStep ==
  ASSUME AdmissionInv, HearLobby
  PROVE  AdmissionInv'
<1> DEFINE kept == IF View = "lobby" THEN Message.lobby ELSE local
<1>1. First /\ Message.kind = "lobby" /\ News(Message)
  BY DEF HearLobby, News
<1>2. Message.lobby \in LobbyStates \cup {Nothing}
  BY <1>1, HeardRest DEF Messages
<1>3. UpToDateIn(Tail(inbox), Message.lobby, kept)
  <2>1. lobby # Nothing
    BY NothingAssumption DEF AdmissionInv, TypeOK
  <2> QED BY <2>1, <1>1, HeardRest DEF UpToDateIn
<1>4. Shows(pageJoined, Message.lobby, route, kept, load, calls, Tail(inbox))
  BY DEF HearLobby
<1>5. UNCHANGED adapter /\ sent' \in Seq(Slots) /\ timers' \in Seq(Slots)
  BY DEF HearLobby, AdmissionInv, TypeOK
<1>6. /\ pageJoined \in BOOLEAN /\ route \in Routes /\ load \in BOOLEAN /\ local \in LobbyStates \cup {Nothing}
      /\ calls \in [Slots -> Calls \cup {Nothing}] /\ (pageJoined => joined) /\ PublishersJoined(calls, joined)
  BY DEF AdmissionInv, TypeOK
<1>7. Tail(inbox) \in Seq(Messages) /\ Answers(Tail(inbox), calls, joined) /\ Recent(Tail(inbox), lobby)
  BY <1>1, HeardRest
<1>8. kept \in LobbyStates \cup {Nothing}
  BY <1>2, <1>6
<1> HIDE DEF kept
<1> QED BY <1>8, <1>2, <1>3, <1>4, <1>5, <1>6, <1>7, ShowsStep

LEMMA HearLoadStep ==
  ASSUME AdmissionInv, HearLoad
  PROVE  AdmissionInv'
<1>1. First /\ Message.kind = "load" /\ News(Message)
  BY DEF HearLoad, News
<1>2. Message.lobby \in LobbyStates \cup {Nothing}
  BY <1>1, HeardRest DEF Messages
<1>3. UpToDateIn(Tail(inbox), shown, Message.lobby)
  <2>1. ~Unheard(Tail(inbox)) => Quiet
    BY <1>1, HeardRest DEF Unheard, Quiet
  <2> QED BY <2>1, <1>1, HeardRest DEF UpToDateIn, AdmissionInv, ShownIsCurrent
<1>4. Shows(pageJoined, shown, route, Message.lobby, load, calls, Tail(inbox))
  BY DEF HearLoad
<1>5. UNCHANGED adapter /\ sent' \in Seq(Slots) /\ timers' \in Seq(Slots)
  BY DEF HearLoad, AdmissionInv, TypeOK
<1>6. /\ pageJoined \in BOOLEAN /\ route \in Routes /\ load \in BOOLEAN /\ shown \in LobbyStates \cup {Nothing}
      /\ calls \in [Slots -> Calls \cup {Nothing}] /\ (pageJoined => joined) /\ PublishersJoined(calls, joined)
  BY DEF AdmissionInv, TypeOK
<1>7. Tail(inbox) \in Seq(Messages) /\ Answers(Tail(inbox), calls, joined) /\ Recent(Tail(inbox), lobby)
  BY <1>1, HeardRest
<1> QED BY <1>2, <1>3, <1>4, <1>5, <1>6, <1>7, ShowsStep

LEMMA HearStaleStep ==
  ASSUME AdmissionInv, HearStale
  PROVE  AdmissionInv'
<1>1. First /\ Message.kind = "stale"
  BY DEF HearStale
<1>2. /\ inbox' = Tail(inbox) /\ Tail(inbox) \in Seq(Messages)
      /\ UNCHANGED <<joined, lobby, released, policy, board, pageJoined, shown, route, local, load, calls, sent, timers>>
  BY <1>1, HeardRest DEF HearStale, adapter, page
<1>3. TypeOK'
  BY <1>2 DEF AdmissionInv, TypeOK
<1>4. ShownIsCurrent'
  <2>1. Quiet' => Quiet
    BY <1>1, <1>2, HeardRest DEF Quiet, Unheard
  <2>2. View' = View
    BY <1>2 DEF View
  <2> QED BY <2>1, <2>2, <1>2 DEF AdmissionInv, ShownIsCurrent
<1>5. Answers(inbox', calls', joined') /\ Recent(inbox', lobby') /\ PublishersJoined(calls', joined')
  BY <1>1, <1>2, HeardRest DEF AdmissionInv
<1> QED BY <1>2, <1>3, <1>4, <1>5 DEF AdmissionInv, AdmittedIsComplete

LEMMA HearReplyStep ==
  ASSUME AdmissionInv, NEW s \in Slots, HearReply(s)
  PROVE  AdmissionInv'
<1> DEFINE rest == Tail(inbox)
<1>1. /\ First /\ Message.kind = "reply" /\ Message.slot = s /\ calls[s] # Nothing
      /\ UNCHANGED adapter /\ timers' = timers
  BY DEF HearReply
<1>2. /\ rest \in Seq(Messages) /\ Answers(rest, calls, joined) /\ Recent(rest, lobby)
      /\ (Unheard(rest) <=> Unheard(inbox)) /\ (~Unheard(rest) /\ Message.lobby # Nothing => Message.lobby = lobby)
  BY <1>1, HeardRest DEF News
<1>3. /\ pageJoined \in BOOLEAN /\ route \in Routes /\ load \in BOOLEAN /\ shown \in LobbyStates \cup {Nothing}
      /\ local \in LobbyStates \cup {Nothing} /\ calls \in [Slots -> Calls \cup {Nothing}]
      /\ sent \in Seq(Slots) /\ timers \in Seq(Slots) /\ (pageJoined => joined) /\ PublishersJoined(calls, joined)
  BY DEF AdmissionInv, TypeOK
<1>4. Message.lobby \in LobbyStates \cup {Nothing} /\ Message.ok \in BOOLEAN /\ calls[s] \in Calls
  BY <1>1, <1>3, HeardRest DEF Messages
<1>5. \A i \in DOMAIN rest : rest[i].kind = "reply" => rest[i].slot \in Slots /\ rest[i].slot # s
  <2>1. inbox \in Seq(Messages) /\ inbox # <<>>
    BY <1>1 DEF First, AdmissionInv, TypeOK
  <2>2. /\ \A i \in DOMAIN rest : i + 1 \in DOMAIN inbox /\ rest[i] = inbox[i + 1] /\ i + 1 # 1
        /\ 1 \in DOMAIN inbox /\ inbox[1] = Message
    BY <2>1, TailOf, LenProperties DEF Message
  <2>3. \A i \in DOMAIN rest : rest[i] \in Messages
    BY <1>2, ElementOfSeq, LenProperties
  <2> QED BY <2>2, <2>3, <1>1 DEF AdmissionInv, Answers, Messages
<1>6. Message.ok /\ calls[s].op \in {"join", "signIn", "board"} => joined
  BY <1>1, HeardRest DEF AdmissionInv, Answers
<1>7. ASSUME NEW now \in [Slots -> Calls \cup {Nothing}], \A r \in Slots : r # s => now[r] = calls[r]
      PROVE  Answers(rest, now, joined)
  BY <1>2, <1>5, <1>7 DEF Answers
<1>8. /\ Settled(s) \in [Slots -> Calls \cup {Nothing}] /\ \A r \in Slots : r # s => Settled(s)[r] = calls[r]
      /\ Settled(s)[s] = Nothing
  BY <1>3 DEF Settled
<1>9. Answers(rest, Settled(s), joined) /\ PublishersJoined(Settled(s), joined)
  BY <1>3, <1>7, <1>8 DEF PublishersJoined
<1>10. Unheard(rest) \/ Quiet
  BY <1>2 DEF Quiet, Unheard
<1> DEFINE left == Settled(s)
<1>11. left \in [Slots -> Calls \cup {Nothing}] /\ Answers(rest, left, joined) /\ PublishersJoined(left, joined)
  BY <1>8, <1>9
<1> HIDE DEF rest, left
<1>12. UpToDateIn(rest, shown, local)
  BY <1>10 DEF UpToDateIn, AdmissionInv, ShownIsCurrent
<1>13. UpToDateIn(rest, shown, Message.lobby)
  BY <1>10, <1>2 DEF UpToDateIn, AdmissionInv, ShownIsCurrent
<1>14. CASE /\ Enters(s)
            /\ Shows(TRUE, shown, "lobby", local, load, Settled(s), Tail(inbox))
            /\ UNCHANGED sent
  <2>1. joined
    BY <1>6, <1>14 DEF Enters
  <2>2. "lobby" \in Routes
    BY DEF Routes
  <2>3. Shows(TRUE, shown, "lobby", local, load, left, rest)
    BY <1>14 DEF rest, left
  <2>4. sent' \in Seq(Slots) /\ timers' \in Seq(Slots)
    BY <1>1, <1>3, <1>14
  <2>5. shown \in LobbyStates \cup {Nothing} /\ local \in LobbyStates \cup {Nothing} /\ load \in BOOLEAN
    BY <1>3
  <2>6. rest \in Seq(Messages) /\ Recent(rest, lobby) /\ UNCHANGED adapter
    BY <1>1, <1>2
  <2> QED BY <2>1, <2>2, <2>3, <2>4, <2>5, <2>6, <1>11, <1>12, ShowsStep, ZenonT(60)
<1>15. CASE /\ Message.ok /\ calls[s].op = "prepare" /\ calls[s].by # "nobody"
            /\ calls' = [calls EXCEPT ![s].op = "publish", ![s].at = "sent"]
            /\ sent' = Append(sent, s) /\ inbox' = Tail(inbox)
            /\ UNCHANGED page
  <2>1. UNCHANGED <<joined, lobby, released, policy, board, pageJoined, shown, route, local, load>>
    BY <1>1, <1>15 DEF adapter, page
  <2>2. /\ calls' \in [Slots -> Calls \cup {Nothing}] /\ \A r \in Slots : r # s => calls'[r] = calls[r]
    BY <1>3, <1>4, <1>15 DEF Calls, Ops
  <2>3. Answers(rest, calls', joined)
    BY <2>2, <1>7
  <2>4. PublishersJoined(calls', joined)
    BY <2>2, <1>1, <1>3, <1>15 DEF PublishersJoined
  <2>5. inbox' = rest
    BY <1>15 DEF rest
  <2>6. sent' \in Seq(Slots)
    BY <1>3, <1>15, AppendProperties
  <2>7. TypeOK'
    BY <2>1, <2>2, <2>5, <2>6, <1>1, <1>2 DEF AdmissionInv, TypeOK
  <2>8. ShownIsCurrent'
    <3>1. View' = View
      BY <2>1 DEF View
    <3>2. Quiet' => ~Unheard(rest)
      BY <2>5 DEF Quiet, Unheard
    <3> QED BY <2>1, <3>1, <3>2, <1>12 DEF UpToDateIn, ShownIsCurrent
  <2> QED BY <2>1, <2>3, <2>4, <2>5, <2>7, <2>8, <1>2 DEF AdmissionInv, AdmittedIsComplete
<1>16. CASE /\ LET mine == Message.ok /\ calls[s].by = "view" IN
                 Shows(pageJoined, shown, route,
                       IF mine /\ calls[s].op = "gate" THEN Message.lobby ELSE local, load, Settled(s), Tail(inbox))
            /\ UNCHANGED sent
  <2>1. PICK kept \in {Message.lobby, local} :
          Shows(pageJoined, shown, route, kept, load, left, rest)
    BY <1>16 DEF rest, left
  <2>2. kept \in LobbyStates \cup {Nothing} /\ UpToDateIn(rest, shown, kept)
    BY <2>1, <1>3, <1>4, <1>12, <1>13
  <2>3. sent' \in Seq(Slots) /\ timers' \in Seq(Slots)
    BY <1>1, <1>3, <1>16
  <2>4. /\ pageJoined \in BOOLEAN /\ shown \in LobbyStates \cup {Nothing} /\ route \in Routes /\ load \in BOOLEAN
        /\ (pageJoined => joined)
    BY <1>3
  <2>5. rest \in Seq(Messages) /\ Recent(rest, lobby) /\ UNCHANGED adapter
    BY <1>1, <1>2
  <2> QED BY <2>1, <2>2, <2>3, <2>4, <2>5, <1>11, ShowsStep, ZenonT(60)
<1> QED BY <1>14, <1>15, <1>16 DEF HearReply

-----------------------------------------------------------------------------
(* Steps of the adapter, which leave the page as it is.                    *)

LEMMA MessageTypes ==
  /\ \A l \in LobbyStates : Told(l) \in Messages /\ Told(l).kind = "lobby" /\ Told(l).lobby = l
  /\ \A s \in Slots, ok \in BOOLEAN, l \in LobbyStates \cup {Nothing} :
       /\ Reply(s, ok, l) \in Messages /\ Reply(s, ok, l).kind = "reply" /\ Reply(s, ok, l).slot = s
       /\ Reply(s, ok, l).ok = ok /\ Reply(s, ok, l).lobby = l
  BY DEF Told, Reply, Messages

LEMMA DoneTypes ==
  ASSUME AdmissionInv, NEW s \in Slots, calls[s] \in Calls, Done(s), PublishersJoined(calls, joined')
  PROVE  calls' \in [Slots -> Calls \cup {Nothing}] /\ PublishersJoined(calls', joined')
<1>1. calls \in [Slots -> Calls \cup {Nothing}]
  BY DEF AdmissionInv, TypeOK
<1>2. /\ calls'[s] \in Calls /\ calls'[s].op = calls[s].op
      /\ \A r \in Slots : r # s => calls'[r] = calls[r]
      /\ calls' \in [Slots -> Calls \cup {Nothing}]
  BY <1>1 DEF Done, Calls
<1> QED BY <1>1, <1>2, NothingAssumption DEF PublishersJoined

LEMMA SettlesStep ==
  ASSUME AdmissionInv, NEW s \in Slots, calls[s] \in Calls, calls[s].at # "done",
         NEW ok \in BOOLEAN, ok /\ calls[s].op \in {"join", "signIn", "board"} => joined,
         Settles(s, ok), UNCHANGED <<adapter, page>>, sent' \in Seq(Slots), timers' \in Seq(Slots)
  PROVE  AdmissionInv'
<1> DEFINE reply == Reply(s, ok, Nothing)
<1>1. UNCHANGED <<joined, lobby, released, policy, board, pageJoined, shown, route, local, load>>
  BY DEF adapter, page
<1>2. /\ calls \in [Slots -> Calls \cup {Nothing}] /\ inbox \in Seq(Messages)
      /\ calls' = [calls EXCEPT ![s].at = "done"] /\ inbox' = Append(inbox, reply)
      /\ joined \in BOOLEAN /\ Answers(inbox, calls, joined) /\ Recent(inbox, lobby)
  BY DEF AdmissionInv, TypeOK, Settles, Done
<1>3. /\ reply \in Messages /\ reply.kind = "reply" /\ reply.slot = s /\ reply.ok = ok /\ reply.lobby = Nothing
  BY MessageTypes
<1>4. ~News(reply)
  BY <1>3 DEF News
<1> HIDE DEF reply
<1>5. Answers(inbox', calls', joined)
  BY <1>2, <1>3, AppendAnswers
<1>6. Recent(inbox', lobby)
  BY <1>2, <1>3, <1>4, AppendRecent
<1>7. inbox' \in Seq(Messages) /\ (Quiet' => Quiet)
  BY <1>2, <1>3, AppendOf DEF Quiet
<1>8. calls' \in [Slots -> Calls \cup {Nothing}] /\ PublishersJoined(calls', joined)
  BY <1>1, DoneTypes DEF Settles, AdmissionInv
<1>9. TypeOK'
  BY <1>1, <1>7, <1>8 DEF AdmissionInv, TypeOK
<1>10. ShownIsCurrent'
  <2>1. View' = View
    BY <1>1 DEF View
  <2> QED BY <2>1, <1>1, <1>7 DEF AdmissionInv, ShownIsCurrent
<1> QED BY <1>1, <1>5, <1>6, <1>8, <1>9, <1>10 DEF AdmissionInv, AdmittedIsComplete

LEMMA TellsStep ==
  ASSUME AdmissionInv, NEW s \in Slots, calls[s] \in Calls, calls[s].at # "done",
         NEW l \in LobbyStates, Tells(s, l), l.admitted => joined' /\ l.published /\ l.gate = "complete",
         joined' \in BOOLEAN, joined => joined', calls[s].op \in {"join", "signIn", "board"} => joined',
         released' \subseteq Handles \cup {BoardHandle, NoHandle}, policy' \in Policies \cup {"locked"},
         board' \in {"none", "unavailable", "eligible", "active"},
         UNCHANGED page, sent' \in Seq(Slots), timers' \in Seq(Slots)
  PROVE  AdmissionInv'
<1> DEFINE event == Told(l)
           told == IF calls[s].op = "gate" THEN l ELSE Nothing
           reply == Reply(s, TRUE, told)
           first == Append(inbox, event)
<1>1. UNCHANGED <<pageJoined, shown, route, local, load>>
  BY DEF page
<1>2. /\ calls \in [Slots -> Calls \cup {Nothing}] /\ inbox \in Seq(Messages)
      /\ calls' = [calls EXCEPT ![s].at = "done"] /\ lobby' = l
      /\ joined \in BOOLEAN /\ Answers(inbox, calls, joined) /\ Recent(inbox, lobby)
  BY DEF AdmissionInv, TypeOK, Tells, Done
<1> told \in LobbyStates \cup {Nothing} /\ told \in {l, Nothing}
  OBVIOUS
<1> HIDE DEF told
<1>3. /\ event \in Messages /\ event.kind = "lobby" /\ event.lobby = l
      /\ reply \in Messages /\ reply.kind = "reply" /\ reply.slot = s /\ reply.ok /\ reply.lobby \in {l, Nothing}
  <2>1. event \in Messages /\ event.kind = "lobby" /\ event.lobby = l
    BY MessageTypes
  <2>2. reply \in Messages /\ reply.kind = "reply" /\ reply.slot = s /\ reply.lobby = told
    BY MessageTypes DEF Reply, Messages
  <2>3. reply.ok
    BY DEF Reply
  <2> QED BY <2>1, <2>2, <2>3
<1>4. inbox' = inbox \o <<event, reply>>
  BY DEF Tells, told
<1>5. News(reply) => reply.lobby = l
  BY <1>3 DEF News
<1> HIDE DEF event, reply
<1>6. first \in Seq(Messages) /\ Recent(first, l) /\ Unheard(first) /\ inbox' = Append(first, reply)
  <2>1. /\ first \in Seq(Messages) /\ DOMAIN first = 1..(Len(inbox) + 1) /\ Len(inbox) \in Nat
        /\ first[Len(inbox) + 1] = event
    BY <1>2, <1>3, AppendOf
  <2>2. inbox' = Append(first, reply)
    BY <1>2, <1>3, <1>4, TwoMore
  <2>3. Recent(first, l)
    BY <1>2, <1>3, AppendRecent
  <2>4. Unheard(first)
    <3>1. Len(inbox) + 1 \in DOMAIN first
      BY <2>1
    <3> HIDE DEF first
    <3> QED BY <3>1, <2>1, <1>3 DEF Unheard
  <2> QED BY <2>1, <2>2, <2>3, <2>4
<1>7. Answers(first, calls, joined)
  <2>1. /\ \A i \in DOMAIN inbox : i \in DOMAIN first /\ first[i] = inbox[i]
        /\ \A i \in DOMAIN first : first[i].kind = "reply" => i \in DOMAIN inbox
    BY <1>2, <1>3, AppendOf
  <2> QED BY <2>1, <1>2 DEF Answers
<1> HIDE DEF first
<1>8. Answers(inbox', calls', joined')
  BY <1>2, <1>3, <1>6, <1>7, AppendAnswers
<1>9. Recent(inbox', l)
  BY <1>3, <1>5, <1>6, AppendRecent
<1>10. inbox' \in Seq(Messages) /\ ~Quiet'
  BY <1>3, <1>6, AppendOf DEF Quiet, Unheard
<1>11. PublishersJoined(calls, joined')
  BY DEF AdmissionInv, PublishersJoined
<1>12. calls' \in [Slots -> Calls \cup {Nothing}] /\ PublishersJoined(calls', joined')
  BY <1>11, DoneTypes DEF Tells
<1>13. TypeOK'
  BY <1>1, <1>2, <1>10, <1>12 DEF AdmissionInv, TypeOK
<1>14. ShownIsCurrent'
  BY <1>10 DEF ShownIsCurrent
<1> QED BY <1>1, <1>2, <1>8, <1>9, <1>12, <1>13, <1>14 DEF AdmissionInv, AdmittedIsComplete

\* The handle is dealt with by a call of another page.
LEMMA OtherStep ==
  ASSUME AdmissionInv, NEW l \in LobbyStates, lobby' = l, inbox' = Append(inbox, Told(l)),
         l.admitted = lobby.admitted, l.published = lobby.published, l.gate = lobby.gate,
         released' \subseteq Handles \cup {BoardHandle, NoHandle}, policy' \in Policies \cup {"locked"},
         UNCHANGED <<joined, board, page, calls, sent, timers>>
  PROVE  AdmissionInv'
<1> DEFINE event == Told(l)
<1>1. UNCHANGED <<pageJoined, shown, route, local, load>>
  BY DEF page
<1>2. inbox \in Seq(Messages) /\ Answers(inbox, calls, joined)
  BY DEF AdmissionInv, TypeOK
<1>3. event \in Messages /\ event.kind = "lobby" /\ event.lobby = l
  BY MessageTypes
<1> HIDE DEF event
<1>4. /\ inbox' \in Seq(Messages) /\ ~Quiet'
      /\ \A i \in DOMAIN inbox : i \in DOMAIN inbox' /\ inbox'[i] = inbox[i]
      /\ \A i \in DOMAIN inbox' : inbox'[i].kind = "reply" => i \in DOMAIN inbox
  BY <1>2, <1>3, AppendOf DEF Quiet, event
<1>5. Answers(inbox', calls, joined)
  BY <1>2, <1>4 DEF Answers
<1>6. Recent(inbox', l)
  BY <1>2, <1>3, AppendRecent DEF event
<1>7. TypeOK'
  BY <1>1, <1>4 DEF AdmissionInv, TypeOK
<1>8. ShownIsCurrent'
  BY <1>4 DEF ShownIsCurrent
<1> QED BY <1>1, <1>5, <1>6, <1>7, <1>8 DEF AdmissionInv, AdmittedIsComplete

\* A call that arrives leaves the way to the adapter.
LEMMA ArrivesTypes ==
  ASSUME AdmissionInv, NEW s \in Slots, Arrives(s)
  PROVE  calls[s] \in Calls /\ calls[s].at = "sent" /\ sent' \in Seq(Slots)
<1>1. calls[s] \in Calls /\ calls[s].at = "sent"
  BY DEF AdmissionInv, TypeOK, Arrives
<1>2. PICK i \in DOMAIN sent : sent' = RemoveAt(sent, i)
  BY DEF Arrives
<1>3. sent \in Seq(Slots) /\ Len(sent) \in Nat /\ i \in 1..Len(sent)
  BY LenProperties DEF AdmissionInv, TypeOK
<1>4. SubSeq(sent, 1, i - 1) \in Seq(Slots)
  BY <1>3, SubSeqProperties
<1>5. SubSeq(sent, i + 1, Len(sent)) \in Seq(Slots)
  BY <1>3, SubSeqProperties
<1>6. RemoveAt(sent, i) \in Seq(Slots)
  BY <1>4, <1>5, ConcatProperties DEF RemoveAt
<1> QED BY <1>1, <1>2, <1>6

LEMMA RefuseStep ==
  ASSUME AdmissionInv, NEW s \in Slots, Refuse(s)
  PROVE  AdmissionInv'
<1>1. calls[s] \in Calls /\ calls[s].at # "done" /\ sent' \in Seq(Slots)
  BY ArrivesTypes DEF Refuse
<1>2. timers' \in Seq(Slots) /\ Settles(s, FALSE) /\ UNCHANGED <<adapter, page>>
  BY DEF Refuse, AdmissionInv, TypeOK
<1> QED BY <1>1, <1>2, SettlesStep

LEMMA PrepareStep ==
  ASSUME AdmissionInv, NEW s \in Slots, Prepare(s)
  PROVE  AdmissionInv'
<1>1. calls[s] \in Calls /\ calls[s].at # "done" /\ sent' \in Seq(Slots) /\ calls[s].op = "prepare"
  BY ArrivesTypes DEF Prepare, Accepted
<1>2. timers' \in Seq(Slots) /\ Settles(s, TRUE) /\ UNCHANGED <<adapter, page>>
  BY DEF Prepare, AdmissionInv, TypeOK
<1> QED BY <1>1, <1>2, SettlesStep

LEMMA CompleteGateStep ==
  ASSUME AdmissionInv, NEW s \in Slots, CompleteGate(s)
  PROVE  AdmissionInv'
<1> DEFINE l == [lobby EXCEPT !.gate = "complete", !.admitted = lobby.published]
<1>1. calls[s] \in Calls /\ calls[s].at # "done" /\ sent' \in Seq(Slots) /\ calls[s].op = "gate"
  BY ArrivesTypes DEF CompleteGate, Accepted
<1>2. joined
  BY DEF CompleteGate, Accepted, Refused
<1>3. l \in LobbyStates /\ (l.admitted => l.published /\ l.gate = "complete")
  BY DEF AdmissionInv, TypeOK, LobbyStates
<1>4. Tells(s, l) /\ UNCHANGED <<joined, released, policy, board, page, timers>>
  BY DEF CompleteGate
<1>5. /\ joined \in BOOLEAN /\ released \subseteq Handles \cup {BoardHandle, NoHandle}
      /\ policy \in Policies \cup {"locked"} /\ board \in {"none", "unavailable", "eligible", "active"}
      /\ timers \in Seq(Slots)
  BY DEF AdmissionInv, TypeOK
<1> HIDE DEF l
<1> QED BY <1>1, <1>2, <1>3, <1>4, <1>5, TellsStep

LEMMA EnterRootBoardStep ==
  ASSUME AdmissionInv, NEW s \in Slots, EnterRootBoard(s)
  PROVE  AdmissionInv'
<1> DEFINE l == [lobby EXCEPT !.handle = BoardHandle]
<1>1. calls[s] \in Calls /\ calls[s].at # "done" /\ sent' \in Seq(Slots) /\ calls[s].op = "board"
  BY ArrivesTypes DEF EnterRootBoard, Accepted
<1>2. l \in LobbyStates /\ (l.admitted => l.published /\ l.gate = "complete")
  BY DEF AdmissionInv, TypeOK, LobbyStates, AdmittedIsComplete
<1>3. Tells(s, l) /\ joined' /\ joined' \in BOOLEAN /\ board' = "active" /\ UNCHANGED <<released, policy, page, timers>>
  BY DEF EnterRootBoard
<1>4. /\ released \subseteq Handles \cup {BoardHandle, NoHandle}
      /\ policy \in Policies \cup {"locked"} /\ timers \in Seq(Slots)
  BY DEF AdmissionInv, TypeOK
<1> HIDE DEF l
<1> QED BY <1>1, <1>2, <1>3, <1>4, TellsStep

-----------------------------------------------------------------------------
(* Steps that concern a call alone.                                        *)

LEMMA CallStep ==
  ASSUME AdmissionInv, NEW s \in Slots, calls' \in [Slots -> Calls \cup {Nothing}],
         \A r \in Slots : r # s => calls'[r] = calls[r],
         calls'[s] \in Calls, calls'[s].op \in {"prepare", "publish"} => joined,
         \/ calls[s] = Nothing
         \/ calls[s].at # "done"
         \/ calls'[s].at = calls[s].at /\ calls'[s].op = calls[s].op,
         UNCHANGED <<adapter, page, inbox>>, sent' \in Seq(Slots), timers' \in Seq(Slots)
  PROVE  AdmissionInv'
<1>1. UNCHANGED <<joined, lobby, released, policy, board, pageJoined, shown, route, local, load, inbox>>
  BY DEF adapter, page
<1>2. inbox \in Seq(Messages) /\ \A i \in DOMAIN inbox : inbox[i] \in Messages
  BY ElementOfSeq, LenProperties DEF AdmissionInv, TypeOK
<1>3. Answers(inbox, calls', joined)
  <2>1. ASSUME NEW i \in DOMAIN inbox, inbox[i].kind = "reply"
        PROVE  /\ calls'[inbox[i].slot] # Nothing /\ calls'[inbox[i].slot].at = "done"
               /\ inbox[i].ok /\ calls'[inbox[i].slot].op \in {"join", "signIn", "board"} => joined
    <3>1. inbox[i].slot \in Slots
      BY <1>2, <2>1 DEF Messages
    <3>2. /\ calls[inbox[i].slot] # Nothing /\ calls[inbox[i].slot].at = "done"
          /\ inbox[i].ok /\ calls[inbox[i].slot].op \in {"join", "signIn", "board"} => joined
      BY <2>1 DEF AdmissionInv, Answers
    <3>3. calls'[s] # Nothing
      BY NothingAssumption
    <3> QED BY <3>1, <3>2, <3>3
  <2> QED BY <2>1 DEF AdmissionInv, Answers
<1>4. PublishersJoined(calls', joined)
  BY DEF AdmissionInv, PublishersJoined
<1>5. TypeOK'
  BY <1>1 DEF AdmissionInv, TypeOK
<1>6. ShownIsCurrent'
  <2>1. View' = View
    BY <1>1 DEF View
  <2> QED BY <2>1, <1>1 DEF AdmissionInv, ShownIsCurrent, Quiet
<1> QED BY <1>1, <1>3, <1>4, <1>5, <1>6 DEF AdmissionInv, AdmittedIsComplete

LEMMA AskStep ==
  ASSUME AdmissionInv, NEW op \in Ops, NEW h \in Handles, Ask(op, h)
  PROVE  AdmissionInv'
<1> DEFINE free == CHOOSE s \in Slots : calls[s] = Nothing
<1>1. free \in Slots /\ calls[free] = Nothing
  BY DEF Ask
<1>2. op # "publish" /\ (op = "prepare" => joined)
  <2>1. op = "prepare" => View = "profile"
    BY DEF Ask, Offered
  <2>2. View = "profile" => pageJoined
    BY DEF View, Mounted, NeedsArrival, NeedsLobby, OpenRoutes
  <2> QED BY <2>1, <2>2 DEF AdmissionInv, Ask, Offered
<1> DEFINE call == [op |-> op, handle |-> h, at |-> "sent", by |-> "view"]
<1>3. call \in Calls /\ call.op = op
  BY DEF Calls
<1>4. calls \in [Slots -> Calls \cup {Nothing}] /\ sent \in Seq(Slots) /\ timers \in Seq(Slots)
  BY DEF AdmissionInv, TypeOK
<1>5. /\ calls' = [calls EXCEPT ![free] = call] /\ sent' = Append(sent, free)
      /\ UNCHANGED <<adapter, page, timers, inbox>>
  BY DEF Ask, Send
<1> HIDE DEF free, call
<1>6. /\ calls' \in [Slots -> Calls \cup {Nothing}] /\ calls'[free] = call
      /\ \A r \in Slots : r # free => calls'[r] = calls[r]
  BY <1>1, <1>3, <1>4, <1>5
<1>7. sent' \in Seq(Slots) /\ timers' \in Seq(Slots) /\ UNCHANGED <<adapter, page, inbox>>
  BY <1>1, <1>4, <1>5, AppendProperties
<1> QED BY <1>1, <1>2, <1>3, <1>6, <1>7, CallStep

LEMMA WaitStep ==
  ASSUME AdmissionInv, NEW s \in Slots, Wait(s)
  PROVE  AdmissionInv'
<1>1. calls[s] \in Calls /\ calls[s].at = "sent" /\ sent' \in Seq(Slots)
  BY ArrivesTypes DEF Wait, Accepted
<1>2. /\ calls \in [Slots -> Calls \cup {Nothing}] /\ timers \in Seq(Slots)
      /\ PublishersJoined(calls, joined)
  BY DEF AdmissionInv, TypeOK
<1>3. calls' = [calls EXCEPT ![s].at = "timer"] /\ timers' = Append(timers, s) /\ UNCHANGED <<adapter, page, inbox>>
  BY DEF Wait
<1>4. /\ calls' \in [Slots -> Calls \cup {Nothing}] /\ calls'[s] \in Calls /\ calls'[s].op = calls[s].op
      /\ \A r \in Slots : r # s => calls'[r] = calls[r]
  BY <1>1, <1>2, <1>3 DEF Calls
<1>5. calls'[s].op \in {"prepare", "publish"} => joined
  BY <1>1, <1>2, <1>4, NothingAssumption DEF PublishersJoined
<1>6. timers' \in Seq(Slots)
  BY <1>2, <1>3, AppendProperties
<1> QED BY <1>1, <1>3, <1>4, <1>5, <1>6, CallStep

LEMMA ExpireStep ==
  ASSUME AdmissionInv, NEW s \in Slots, Expire(s)
  PROVE  AdmissionInv'
<1>1. /\ calls \in [Slots -> Calls \cup {Nothing}] /\ timers \in Seq(Slots) /\ sent \in Seq(Slots)
      /\ calls[s] \in Calls /\ calls[s].op \in Passkey
  BY DEF AdmissionInv, TypeOK, Expire
<1>2. calls' = [calls EXCEPT ![s].by = "nobody"] /\ UNCHANGED <<adapter, page, sent, timers, inbox>>
  BY DEF Expire
<1>3. /\ calls' \in [Slots -> Calls \cup {Nothing}] /\ calls'[s] \in Calls
      /\ calls'[s].op = calls[s].op /\ calls'[s].at = calls[s].at
      /\ \A r \in Slots : r # s => calls'[r] = calls[r]
  BY <1>1, <1>2 DEF Calls
<1>4. ~(calls'[s].op \in {"prepare", "publish"})
  BY <1>1, <1>3 DEF Passkey
<1> QED BY <1>1, <1>2, <1>3, <1>4, CallStep

LEMMA AnswerLoadStep ==
  ASSUME AdmissionInv, AnswerLoad
  PROVE  AdmissionInv'
<1> DEFINE answer == [kind |-> "load", lobby |-> lobby]
<1>1. /\ inbox \in Seq(Messages) /\ lobby \in LobbyStates /\ load' \in BOOLEAN
      /\ Answers(inbox, calls, joined) /\ Recent(inbox, lobby)
      /\ UNCHANGED <<joined, lobby, released, policy, board, pageJoined, shown, route, local, calls, sent, timers>>
  BY DEF AdmissionInv, TypeOK, AnswerLoad, adapter
<1>2. inbox' = Append(inbox, answer)
  BY DEF AnswerLoad
<1>3. answer \in Messages /\ answer.kind = "load" /\ answer.lobby = lobby
  BY <1>1 DEF Messages
<1> HIDE DEF answer
<1>4. Recent(inbox', lobby)
  BY <1>1, <1>2, <1>3, AppendRecent
<1>5. /\ inbox' \in Seq(Messages)
      /\ \A i \in DOMAIN inbox : i \in DOMAIN inbox' /\ inbox'[i] = inbox[i]
      /\ \A i \in DOMAIN inbox' : inbox'[i].kind # "load" => i \in DOMAIN inbox
  BY <1>1, <1>2, <1>3, AppendOf
<1>6. Answers(inbox', calls, joined)
  BY <1>1, <1>5 DEF Answers
<1>7. ShownIsCurrent'
  <2>1. View' = View /\ (Quiet' => Quiet)
    BY <1>1, <1>5 DEF View, Quiet
  <2> QED BY <2>1, <1>1 DEF AdmissionInv, ShownIsCurrent
<1>8. TypeOK'
  BY <1>1, <1>5 DEF AdmissionInv, TypeOK
<1> QED BY <1>1, <1>4, <1>6, <1>7, <1>8 DEF AdmissionInv, AdmittedIsComplete

-----------------------------------------------------------------------------
(* The timers of the adapter, and the handle.                              *)

LEMMA TimerFiresStep ==
  ASSUME AdmissionInv, TimerFires
  PROVE  AdmissionInv'
<1> DEFINE s == Head(timers)
<1>1. /\ timers \in Seq(Slots) /\ timers # <<>> /\ sent \in Seq(Slots) /\ calls \in [Slots -> Calls \cup {Nothing}]
      /\ joined \in BOOLEAN /\ released \subseteq Handles \cup {BoardHandle, NoHandle} /\ lobby \in LobbyStates
      /\ policy \in Policies \cup {"locked"} /\ board \in {"none", "unavailable", "eligible", "active"}
      /\ PublishersJoined(calls, joined)
  BY DEF TimerFires, AdmissionInv, TypeOK
<1>2. s \in Slots /\ timers' \in Seq(Slots) /\ sent' \in Seq(Slots) /\ UNCHANGED page
  BY <1>1, TailOf DEF TimerFires
<1>3. calls[s] \in Calls /\ calls[s].at # "done" /\ (Joins(s) \/ SignsIn(s) \/ Publishes(s))
  BY <1>1, <1>2 DEF TimerFires
<1> HIDE DEF s
<1>4. CASE Joins(s)
  <2> DEFINE l == [lobby EXCEPT !.handle = calls[s].handle, !.admitted = FALSE]
  <2>1. l \in LobbyStates /\ ~l.admitted
    BY <1>1, <1>3 DEF LobbyStates, Calls
  <2>2. Tells(s, l) /\ joined' = TRUE /\ UNCHANGED <<released, policy, board>>
    BY <1>4 DEF Joins
  <2> HIDE DEF l
  <2> QED BY <1>1, <1>2, <1>3, <2>1, <2>2, TellsStep
<1>5. CASE SignsIn(s)
  BY <1>1, <1>2, <1>3, <1>5, SettlesStep DEF SignsIn
<1>6. CASE Publishes(s)
  <2> DEFINE l == [lobby EXCEPT !.published = TRUE, !.admitted = lobby.gate = "complete"]
  <2>1. l \in LobbyStates /\ (l.admitted => l.published /\ l.gate = "complete")
    BY <1>1 DEF LobbyStates
  <2>2. Tells(s, l) /\ UNCHANGED <<joined, released, policy, board>> /\ calls[s].op = "publish"
    BY <1>6 DEF Publishes
  <2>3. joined
    BY <1>1, <1>2, <1>3, <2>2, NothingAssumption DEF PublishersJoined
  <2> HIDE DEF l
  <2> QED BY <1>1, <1>2, <1>3, <2>1, <2>2, <2>3, TellsStep
<1> QED BY <1>3, <1>4, <1>5, <1>6

LEMMA OthersStep ==
  ASSUME AdmissionInv, Others
  PROVE  AdmissionInv'
<1>1. /\ lobby \in LobbyStates /\ released \subseteq Handles \cup {BoardHandle, NoHandle}
      /\ policy \in Policies \cup {"locked"}
  BY DEF AdmissionInv, TypeOK
<1>2. CASE RequireHandleChange
  <2> DEFINE l == [lobby EXCEPT !.change = TRUE]
  <2>1. l \in LobbyStates /\ l.admitted = lobby.admitted /\ l.published = lobby.published /\ l.gate = lobby.gate
    BY <1>1 DEF LobbyStates
  <2>2. lobby' = l /\ inbox' = Append(inbox, Told(l)) /\ UNCHANGED <<joined, released, policy, board, page, calls, sent, timers>>
    BY <1>2 DEF RequireHandleChange
  <2> HIDE DEF l
  <2> QED BY <1>1, <2>1, <2>2, OtherStep
<1>3. ASSUME NEW h \in Handles, ChangeHandle(h) PROVE AdmissionInv'
  <2> DEFINE l == [lobby EXCEPT !.handle = h, !.change = FALSE]
  <2>1. l \in LobbyStates /\ l.admitted = lobby.admitted /\ l.published = lobby.published /\ l.gate = lobby.gate
    BY <1>1 DEF LobbyStates
  <2>2. /\ lobby' = l /\ inbox' = Append(inbox, Told(l)) /\ released' = released \cup {lobby.handle}
        /\ policy' \in {"locked", policy}
        /\ UNCHANGED <<joined, board, page, calls, sent, timers>>
    BY <1>3 DEF ChangeHandle, Changed
  <2>3. lobby.handle \in Handles \cup {BoardHandle, NoHandle}
    BY <1>1 DEF LobbyStates
  <2> HIDE DEF l
  <2>4. released' \subseteq Handles \cup {BoardHandle, NoHandle} /\ policy' \in Policies \cup {"locked"}
    BY <1>1, <2>2, <2>3
  <2> QED BY <2>1, <2>2, <2>4, OtherStep
<1> QED BY <1>2, <1>3 DEF Others

-----------------------------------------------------------------------------
(* The theorems.                                                           *)

LEMMA InitInv ==
  ASSUME Init
  PROVE  AdmissionInv
<1>1. lobby \in LobbyStates /\ ~lobby.admitted
  <2>1. PICK gate \in Gates :
          lobby = [handle |-> NoHandle, change |-> policy = "required", published |-> FALSE,
                   gate |-> gate, admitted |-> FALSE]
    BY DEF Init
  <2>2. gate \in {"complete", "action-needed", "waiting"} /\ (policy = "required") \in BOOLEAN
    BY AdmissionAssumption
  <2> QED BY <2>1, <2>2 DEF LobbyStates
<1>2. policy \in Policies /\ board \in {"none", "unavailable", "eligible", "active"}
  BY AdmissionAssumption DEF Init
<1>3. inbox = <<>> /\ sent = <<>> /\ timers = <<>> /\ <<>> \in Seq(Slots) /\ <<>> \in Seq(Messages) /\ DOMAIN inbox = {}
  BY DEF Init
<1>4. TypeOK
  BY <1>1, <1>2, <1>3 DEF Init, TypeOK, Routes
<1>5. Answers(inbox, calls, joined) /\ Recent(inbox, lobby) /\ PublishersJoined(calls, joined)
  BY <1>3 DEF Init, Answers, Recent, PublishersJoined
<1>6. ShownIsCurrent
  BY DEF Init, ShownIsCurrent
<1> QED BY <1>1, <1>4, <1>5, <1>6 DEF Init, AdmissionInv, AdmittedIsComplete

LEMMA NextStep ==
  ASSUME AdmissionInv, [Next]_vars
  PROVE  AdmissionInv'
<1>1. CASE Adapter
  BY <1>1, RefuseStep, WaitStep, CompleteGateStep, PrepareStep, EnterRootBoardStep, TimerFiresStep, AnswerLoadStep
  DEF Adapter
<1>2. CASE Others
  BY <1>2, OthersStep
<1>3. CASE Hear
  BY <1>3, HearLobbyStep, HearLoadStep, HearStaleStep, HearReplyStep DEF Hear
<1>4. CASE User
  BY <1>4, NavigateStep, AskStep DEF User
<1>5. CASE \E s \in Slots : Expire(s)
  BY <1>5, ExpireStep
<1>6. CASE UNCHANGED vars
  <2>1. /\ UNCHANGED <<joined, lobby, released, policy, board, pageJoined, shown, route, local, load>>
        /\ UNCHANGED <<calls, sent, timers, inbox>>
    BY <1>6 DEF vars, adapter, page
  <2>2. TypeOK' /\ View' = View
    BY <2>1 DEF AdmissionInv, TypeOK, View
  <2> QED BY <2>1, <2>2 DEF AdmissionInv, AdmittedIsComplete, ShownIsCurrent, Quiet
<1> QED BY <1>1, <1>2, <1>3, <1>4, <1>5, <1>6 DEF Next

LEMMA AdmissionInvHolds == Spec => []AdmissionInv
<1>1. Init => AdmissionInv
  BY InitInv
<1>2. AdmissionInv /\ [Next]_vars => AdmissionInv'
  BY NextStep
<1> QED BY <1>1, <1>2, PTL DEF Spec

\* Adapter, port and page keep their types: a handle, a gate or a policy that
\* the lists of the code do not have never gets into their state, and only
\* calls that were asked for wait.
THEOREM AdmissionTypeCorrect == Spec => []TypeOK
<1>1. AdmissionInv => TypeOK
  BY DEF AdmissionInv
<1> QED BY <1>1, AdmissionInvHolds, PTL

\* However long a call waits and whatever page is left under it, an admitted
\* member has joined, passed the gate and published a profile, although
\* publishProfile of the adapter looks at the gate alone.
THEOREM AdmittedIsCompleteHolds == Spec => []AdmittedIsComplete
<1>1. AdmissionInv => AdmittedIsComplete
  BY DEF AdmissionInv
<1> QED BY <1>1, AdmissionInvHolds, PTL

\* With every event heard, the session and the mounted lobby show the state of
\* the adapter: a loaded answer never hides a later event, nor a reply.
THEOREM ShownIsCurrentHolds == Spec => []ShownIsCurrent
<1>1. AdmissionInv => ShownIsCurrent
  BY DEF AdmissionInv
<1> QED BY <1>1, AdmissionInvHolds, PTL

LEMMA EndsStep ==
  ASSUME AdmissionInv, [Next]_vars, lobby.admitted, ~lobby'.admitted
  PROVE  \E s \in Slots : /\ calls[s] # Nothing /\ calls[s].op = "join" /\ calls[s].at = "timer"
                          /\ calls'[s].at = "done"
<1>1. lobby \in LobbyStates /\ lobby.gate = "complete" /\ lobby' # lobby
  BY DEF AdmissionInv, TypeOK, AdmittedIsComplete
<1>2. CASE TimerFires
  <2> DEFINE s == Head(timers)
  <2>1. s \in Slots /\ calls[s] \in Calls /\ calls[s].at = "timer" /\ calls \in [Slots -> Calls \cup {Nothing}]
    <3>1. timers \in Seq(Slots) /\ timers # <<>> /\ calls \in [Slots -> Calls \cup {Nothing}]
      BY <1>2 DEF AdmissionInv, TypeOK, TimerFires
    <3> QED BY <3>1, <1>2, TailOf DEF TimerFires
  <2>2. Joins(s) \/ SignsIn(s) \/ Publishes(s)
    BY <1>2 DEF TimerFires
  <2> HIDE DEF s
  <2>3. ~SignsIn(s)
    BY <1>1 DEF SignsIn, adapter
  <2>4. ~Publishes(s)
    <3>1. Publishes(s) => lobby' = [lobby EXCEPT !.published = TRUE, !.admitted = lobby.gate = "complete"]
      BY DEF Publishes, Tells
    <3> QED BY <3>1, <1>1 DEF LobbyStates
  <2>5. Joins(s)
    BY <2>2, <2>3, <2>4
  <2>6. calls[s].op = "join" /\ calls'[s].at = "done"
    BY <2>1, <2>5 DEF Joins, Tells, Done, Calls
  <2> QED BY <2>1, <2>6, NothingAssumption
<1>3. ASSUME NEW s \in Slots, CompleteGate(s) PROVE FALSE
  BY <1>1, <1>3 DEF CompleteGate, Accepted, Refused
<1>4. ASSUME NEW s \in Slots, EnterRootBoard(s) PROVE FALSE
  <2>1. lobby' = [lobby EXCEPT !.handle = BoardHandle]
    BY <1>4 DEF EnterRootBoard, Tells
  <2> QED BY <2>1, <1>1 DEF LobbyStates
<1>5. ASSUME Others PROVE FALSE
  <2>1. RequireHandleChange => lobby' = [lobby EXCEPT !.change = TRUE]
    BY DEF RequireHandleChange
  <2>2. \A h \in Handles : ChangeHandle(h) => lobby' = [lobby EXCEPT !.handle = h, !.change = FALSE]
    BY DEF ChangeHandle, Changed
  <2> QED BY <1>5, <2>1, <2>2, <1>1 DEF Others, LobbyStates
<1>6. ASSUME NEW s \in Slots, Refuse(s) \/ Wait(s) \/ Prepare(s) PROVE FALSE
  BY <1>1, <1>6 DEF Refuse, Wait, Prepare, adapter
<1>7. ~AnswerLoad
  BY <1>1 DEF AnswerLoad, adapter
<1>8. ~Hear
  BY <1>1 DEF Hear, HearLobby, HearLoad, HearStale, HearReply, adapter
<1>9. ~User
  BY <1>1 DEF User, Navigate, Ask, adapter
<1>10. ASSUME NEW s \in Slots, Expire(s) PROVE FALSE
  BY <1>1, <1>10 DEF Expire, adapter
<1>11. vars' # vars
  BY <1>1 DEF vars, adapter
<1> QED BY <1>2, <1>3, <1>4, <1>5, <1>6, <1>7, <1>8, <1>9, <1>10, <1>11 DEF Next, Adapter

\* Only a call to join that has waited its turn takes admission away: neither
\* a gate answered again nor a profile published again does, nor a new handle.
THEOREM AdmissionEndsOnlyByJoining == Spec => AdmissionEndsByJoining
<1>1. AdmissionInv /\ [Next]_vars =>
        (lobby.admitted /\ ~lobby'.admitted =>
           \E s \in Slots : /\ calls[s] # Nothing /\ calls[s].op = "join" /\ calls[s].at = "timer"
                            /\ calls'[s].at = "done")
  BY EndsStep
<1>2. Spec => [][Next]_vars
  BY DEF Spec
<1> QED BY <1>1, <1>2, AdmissionInvHolds, PTL DEF AdmissionEndsByJoining
================================================================================
