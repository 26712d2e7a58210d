---------------------------- MODULE ChatViewProofs -----------------------------
(***************************************************************************)
(* What module ChatView promises of the conversation page, proved for any  *)
(* set of members and any bounds, in order or not, keyed or not.           *)
(***************************************************************************)
EXTENDS ChatView, SequenceTheorems, TLAPS

Kind == {"load", "send"} \cup Action
CallRec == [kind : Kind, peer : Peers, seq : Nat, n : Nat, text : Nat, over : BOOLEAN]
ViewRec == [peer : Peers, version : Nat, state : ThreadState]
ReplyRec == [type : {"reply"}, call : CallRec, ok : BOOLEAN, view : ViewRec \cup {NoThread}]
EventRec == [type : {"message", "contacts"}, peer : Peers]

TypeInv ==
  /\ thread \in [Peers -> [version : Nat, state : ThreadState]]
  /\ asked \subseteq CallRec
  /\ inbox \in Seq(ReplyRec \cup EventRec)
  /\ mounted \in BOOLEAN /\ peer \in Peers /\ loadSeq \in Nat /\ latestReq \in Nat
  /\ draft \in Nat /\ drafts \in [Peers -> Nat] /\ texts \in Nat /\ ops \in Nat
  /\ sendBusy \in BOOLEAN /\ actionBusy \in BOOLEAN /\ confirmPunish \in BOOLEAN

ReplyAt == {i \in DOMAIN inbox : inbox[i].type = "reply"}

\* What was asked for by this visit is about its member; nothing is of a
\* visit to come.
OfVisit(c) == c.seq <= loadSeq /\ (c.seq = loadSeq => c.peer = peer)
CallsOfVisit ==
  /\ \A c \in asked : OfVisit(c)
  /\ \A i \in ReplyAt : OfVisit(inbox[i].call)

\* A reply is to a call that was waited for, a load brings the thread it was
\* asked for.
RepliesFit ==
  \A i \in ReplyAt :
    /\ ~inbox[i].call.over
    /\ inbox[i].view # NoThread => inbox[i].view.peer = inbox[i].call.peer

DialogOfPeer == confirmPunish => dialogPeer = peer

\* The calls of this visit that lock the page, waiting or answered.
Locks(c) == c.seq = loadSeq /\ c.kind # "load" /\ ~c.over
AskedLocks == {c \in asked : Locks(c)}
HeardLocks == {i \in ReplyAt : Locks(inbox[i].call)}

\* There is one at most, and in one place.
OneLock ==
  /\ \A c, d \in AskedLocks : c = d
  /\ \A i, j \in HeardLocks : i = j
  /\ AskedLocks = {} \/ HeardLocks = {}

LockOf(send) ==
  \/ \E c \in AskedLocks : (c.kind = "send") = send
  \/ \E i \in HeardLocks : (inbox[i].call.kind = "send") = send

Locked == mounted => OneLock /\ (sendBusy <=> LockOf(TRUE)) /\ (actionBusy <=> LockOf(FALSE))

ViewInv == TypeInv /\ CallsOfVisit /\ RepliesFit /\ ViewIsOfPeer /\ DialogOfPeer
PageInv == ViewInv /\ Locked

-----------------------------------------------------------------------------
(* The inbox.                                                              *)

\* The place in s of what is at k once the element at i is gone.
From(i, k) == IF k < i THEN k ELSE k + 1

LEMMA Removed ==
  ASSUME NEW S, NEW s \in Seq(S), NEW i \in 1..Len(s)
  PROVE  /\ RemoveAt(s, i) \in Seq(S)
         /\ Len(RemoveAt(s, i)) = Len(s) - 1
         /\ \A k \in DOMAIN RemoveAt(s, i) :
              From(i, k) \in DOMAIN s /\ From(i, k) # i /\ RemoveAt(s, i)[k] = s[From(i, k)]
         /\ \A j \in DOMAIN s : j # i => \E k \in DOMAIN RemoveAt(s, i) : From(i, k) = j
         /\ \A k, l \in DOMAIN RemoveAt(s, i) : From(i, k) = From(i, l) => k = l
<1> DEFINE a == SubSeq(s, 1, i - 1)
           b == SubSeq(s, i + 1, Len(s))
<1>1. /\ a \in Seq(S) /\ Len(a) = i - 1 /\ \A k \in 1..(i - 1) : a[k] = s[k]
      /\ b \in Seq(S) /\ Len(b) = Len(s) - i /\ \A k \in 1..(Len(s) - i) : b[k] = s[i + k]
  OBVIOUS
<1>2. RemoveAt(s, i) = a \o b
  BY DEF RemoveAt
<1> HIDE DEF a, b
<1>3. /\ a \o b \in Seq(S) /\ Len(a \o b) = Len(s) - 1
      /\ \A k \in 1..(Len(s) - 1) : (a \o b)[k] = s[From(i, k)]
  <2>1. a \o b \in Seq(S) /\ Len(a \o b) = Len(s) - 1
    BY <1>1
  <2>2. ASSUME NEW k \in 1..(Len(s) - 1), k < i PROVE (a \o b)[k] = s[From(i, k)]
    <3>1. (a \o b)[k] = a[k] /\ a[k] = s[k]
      BY <1>1, <2>2
    <3> QED
      BY <2>2, <3>1 DEF From
  <2>3. ASSUME NEW k \in 1..(Len(s) - 1), ~(k < i) PROVE (a \o b)[k] = s[From(i, k)]
    <3>1. k - (i - 1) \in 1..(Len(s) - i) /\ k > Len(a)
      BY <1>1, <2>3
    <3>2. (a \o b)[k] = b[k - (i - 1)]
      BY <1>1, <2>3, <3>1
    <3>3. b[k - (i - 1)] = s[i + (k - (i - 1))] /\ i + (k - (i - 1)) = k + 1
      BY <1>1, <3>1
    <3> QED
      BY <2>3, <3>2, <3>3 DEF From
  <2> QED
    BY <2>1, <2>2, <2>3
<1>4. DOMAIN RemoveAt(s, i) = 1..(Len(s) - 1) /\ DOMAIN s = 1..Len(s)
  BY <1>2, <1>3
<1>5. \A j \in DOMAIN s : j # i => \E k \in DOMAIN RemoveAt(s, i) : From(i, k) = j
  <2>1. ASSUME NEW j \in 1..Len(s), j < i PROVE j \in 1..(Len(s) - 1) /\ From(i, j) = j
    BY <2>1 DEF From
  <2>2. ASSUME NEW j \in 1..Len(s), j > i PROVE j - 1 \in 1..(Len(s) - 1) /\ From(i, j - 1) = j
    BY <2>2 DEF From
  <2> QED
    BY <1>4, <2>1, <2>2
<1>6. \A k, l \in 1..(Len(s) - 1) : From(i, k) = From(i, l) => k = l
  BY DEF From
<1>7. \A k \in 1..(Len(s) - 1) : From(i, k) \in 1..Len(s) /\ From(i, k) # i
  BY DEF From
<1> QED
  BY <1>2, <1>3, <1>4, <1>5, <1>6, <1>7

\* What a success says: the client did what was asked.
Granted(call) == call.kind = "send" => call.text \in stored'

\* A call is answered at the end of the inbox, unless nobody waits for it.
Answers(call) ==
  /\ inbox' \in Seq(ReplyRec \cup EventRec)
  /\ \A k \in DOMAIN inbox : k \in DOMAIN inbox' /\ inbox'[k] = inbox[k]
  /\ \A k \in DOMAIN inbox' \ DOMAIN inbox : inbox'[k].type = "reply" =>
       /\ k = Len(inbox') /\ ~call.over /\ inbox'[k].call = call
       /\ inbox'[k].view # NoThread => inbox'[k].view = View(call.peer)
       /\ inbox'[k].ok => Granted(call)
  /\ ~call.over => /\ Len(inbox') \in DOMAIN inbox' /\ Len(inbox') \notin DOMAIN inbox
                   /\ inbox'[Len(inbox')].type = "reply" /\ inbox'[Len(inbox')].call = call

LEMMA ReplyType ==
  ASSUME NEW c \in CallRec, NEW ok \in BOOLEAN, NEW v \in ViewRec \cup {NoThread}
  PROVE  ReplyTo(c, ok, v) \in ReplyRec /\ ReplyTo(c, ok, v).type = "reply"
         /\ ReplyTo(c, ok, v).call = c /\ ReplyTo(c, ok, v).view = v
         /\ ReplyTo(c, ok, v).ok = ok
BY DEF ReplyTo, ReplyRec

Msg == ReplyRec \cup EventRec

\* The inbox as it is, or with an event.
AddsEvent(x) ==
  /\ x \in Seq(Msg)
  /\ \A k \in DOMAIN inbox : k \in DOMAIN x /\ x[k] = inbox[k]
  /\ \A k \in DOMAIN x \ DOMAIN inbox : x[k].type # "reply"

LEMMA RepliesAnswer ==
  ASSUME inbox \in Seq(Msg), NEW c \in CallRec, NEW ok \in BOOLEAN,
         NEW v \in ViewRec \cup {NoThread}, v # NoThread => v = View(c.peer), ok => Granted(c),
         NEW x, AddsEvent(x),
         inbox' = x \o Replies(c, ok, v)
  PROVE  Answers(c)
<1> DEFINE r == ReplyTo(c, ok, v)
<1>1. r \in Msg /\ r.type = "reply" /\ r.call = c /\ r.view = v /\ r.ok = ok
  BY ReplyType DEF Msg
<1> HIDE DEF r
<1>2. CASE c.over
  <2>1. Replies(c, ok, v) = <<>>
    BY <1>2, Zenon DEF Replies
  <2>2. inbox' = x
    BY <2>1, ConcatEmptySeq DEF AddsEvent
  <2> QED
    BY <1>2, <2>2 DEF Answers, AddsEvent, Msg
<1>3. CASE ~c.over
  <2>1. Replies(c, ok, v) = <<r>>
    BY <1>3, Zenon DEF Replies, r
  <2>2. x \in Seq(Msg) /\ <<r>> \in Seq(Msg) /\ Len(<<r>>) = 1 /\ <<r>>[1] = r
    BY <1>1 DEF AddsEvent
  <2>3. /\ inbox' \in Seq(Msg) /\ Len(inbox') = Len(x) + 1
        /\ \A k \in DOMAIN x : k \in DOMAIN inbox' /\ inbox'[k] = x[k]
        /\ \A k \in DOMAIN inbox' \ DOMAIN x : k = Len(inbox')
        /\ inbox'[Len(inbox')] = r
    BY <2>1, <2>2, ConcatProperties
  <2>4. Len(inbox') \in DOMAIN inbox' /\ Len(inbox') \notin DOMAIN x
    BY <2>2, <2>3
  <2>5. DOMAIN inbox \subseteq DOMAIN x
    BY DEF AddsEvent
  <2>6. \A k \in DOMAIN inbox' \ DOMAIN inbox : inbox'[k].type = "reply" => k = Len(inbox')
    BY <2>3 DEF AddsEvent
  <2>7. \A k \in DOMAIN inbox : k \in DOMAIN inbox' /\ inbox'[k] = inbox[k]
    BY <2>3 DEF AddsEvent
  <2> QED
    BY <1>1, <1>3, <2>3, <2>4, <2>5, <2>6, <2>7 DEF Answers, Msg
<1> QED
  BY <1>2, <1>3

LEMMA NoEventAdded ==
  ASSUME inbox \in Seq(Msg)
  PROVE  AddsEvent(inbox)
BY DEF AddsEvent

LEMMA EventAdded ==
  ASSUME inbox \in Seq(Msg), NEW e \in EventRec
  PROVE  AddsEvent(inbox \o <<e>>)
<1>1. e \in Msg /\ e.type # "reply"
  BY DEF EventRec, Msg
<1>2. <<e>> \in Seq(Msg) /\ Len(<<e>>) = 1 /\ <<e>>[1] = e
  BY <1>1
<1>3. /\ inbox \o <<e>> \in Seq(Msg) /\ Len(inbox \o <<e>>) = Len(inbox) + 1
      /\ \A k \in 1..(Len(inbox) + 1) : (inbox \o <<e>>)[k] = IF k <= Len(inbox) THEN inbox[k] ELSE <<e>>[k - Len(inbox)]
  BY <1>2, ConcatProperties
<1>4. \A k \in DOMAIN inbox : k \in DOMAIN (inbox \o <<e>>) /\ (inbox \o <<e>>)[k] = inbox[k]
  BY <1>3
<1>5. \A k \in DOMAIN (inbox \o <<e>>) \ DOMAIN inbox : (inbox \o <<e>>)[k] = e
  BY <1>2, <1>3
<1> QED
  BY <1>1, <1>3, <1>4, <1>5 DEF AddsEvent

\* Running a call, or giving up on it, answers it.
LEMMA RunAnswers ==
  ASSUME TypeInv, NEW c \in asked, RunCall(c) \/ TimeOut(c)
  PROVE  /\ Answers(c)
         /\ thread' \in [Peers -> [version : Nat, state : ThreadState]]
         /\ \E over \in SUBSET CallRec :
              /\ asked' = (asked \ {c}) \cup over
              /\ \A d \in over : d.over /\ d.seq = c.seq /\ d.peer = c.peer /\ d.kind # "load"
         /\ stored \subseteq stored'
         /\ \A p \in Peers : thread'[p].version >= thread[p].version
<1>0. /\ c \in CallRec /\ c.peer \in Peers /\ inbox \in Seq(Msg) /\ AddsEvent(inbox)
      /\ thread \in [Peers -> [version : Nat, state : ThreadState]]
  BY NoEventAdded DEF TypeInv, CallRec, Msg
<1>1. CASE RunCall(c)
  <2>1. \E over \in SUBSET CallRec : /\ asked' = (asked \ {c}) \cup over
                                     /\ \A d \in over : d.over /\ d.seq = c.seq /\ d.peer = c.peer /\ d.kind # "load"
    <3>1. asked' = (asked \ {c}) \cup {} /\ {} \in SUBSET CallRec
      BY <1>1 DEF RunCall
    <3>2. \A d \in {} : d.over /\ d.seq = c.seq /\ d.peer = c.peer /\ d.kind # "load"
      OBVIOUS
    <3> QED
      BY <3>1, <3>2, Zenon
  <2>2. CASE c.kind = "load"
    <3>1. inbox' = inbox \o Replies(c, TRUE, View(c.peer)) /\ thread' = thread /\ stored' = stored
      BY <1>0, <1>1, <2>2 DEF RunCall
    <3>2. View(c.peer) \in ViewRec /\ Granted(c)
      BY <1>0, <2>2 DEF View, ViewRec, Granted
    <3>3. Answers(c)
      BY <1>0, <3>1, <3>2, RepliesAnswer
    <3>4. \A p \in Peers : thread[p].version >= thread[p].version
      BY <1>0
    <3> QED
      BY <1>0, <2>1, <3>1, <3>3, <3>4
  <2>3. CASE c.kind # "load" /\ Allowed(c)
    <3> DEFINE e == Event(IF c.kind = "send" THEN "message" ELSE "contacts", c.peer)
    <3>1. /\ inbox' = (inbox \o <<e>>) \o Replies(c, TRUE, NoThread)
          /\ thread' = [thread EXCEPT ![c.peer] = [version |-> @.version + 1, state |-> Becomes(c)]]
          /\ stored' = IF c.kind = "send" THEN stored \cup {c.text} ELSE stored
      BY <1>1, <2>3 DEF RunCall
    <3>2. AddsEvent(inbox \o <<e>>)
      <4>1. e \in EventRec
        BY <1>0 DEF Event, EventRec
      <4> QED
        BY <1>0, <4>1, EventAdded
    <3>3. Becomes(c) \in ThreadState
      BY DEF Becomes, ThreadState
    <3>4. thread' \in [Peers -> [version : Nat, state : ThreadState]]
      BY <1>0, <3>1, <3>3
    <3>5. \A p \in Peers : thread'[p].version >= thread[p].version
      BY <1>0, <3>1
    <3>6. Granted(c) /\ stored \subseteq stored'
      BY <3>1 DEF Granted
    <3> HIDE DEF e
    <3>7. Answers(c)
      BY <1>0, <3>1, <3>2, <3>6, RepliesAnswer
    <3> QED
      BY <2>1, <3>4, <3>5, <3>6, <3>7
  <2>4. CASE c.kind # "load" /\ ~Allowed(c)
    <3>1. inbox' = inbox \o Replies(c, FALSE, NoThread) /\ thread' = thread /\ stored' = stored
      BY <1>0, <1>1, <2>4 DEF RunCall
    <3>2. Answers(c)
      BY <1>0, <3>1, RepliesAnswer
    <3>3. \A p \in Peers : thread[p].version >= thread[p].version
      BY <1>0
    <3> QED
      BY <1>0, <2>1, <3>1, <3>2, <3>3
  <2> QED
    BY <2>2, <2>3, <2>4
<1>2. CASE TimeOut(c)
  <2>1. inbox' = inbox \o Replies(c, FALSE, NoThread) /\ thread' = thread /\ stored' = stored
    <3>1. Replies(c, FALSE, NoThread) = <<ReplyTo(c, FALSE, NoThread)>>
      BY <1>2, Zenon DEF TimeOut, Replies
    <3>2. ReplyTo(c, FALSE, NoThread) \in ReplyRec \cup EventRec
      BY <1>0, ReplyType
    <3> QED
      BY <1>0, <1>2, <3>1, <3>2, AppendIsConcat DEF TimeOut, Msg
  <2>2. Answers(c)
    BY <1>0, <2>1, RepliesAnswer
  <2>3. /\ [c EXCEPT !.over = TRUE] \in CallRec
        /\ [c EXCEPT !.over = TRUE].over /\ [c EXCEPT !.over = TRUE].seq = c.seq /\ [c EXCEPT !.over = TRUE].peer = c.peer
        /\ [c EXCEPT !.over = TRUE].kind = c.kind
    BY <1>0 DEF CallRec
  <2> DEFINE over == IF c.kind = "load" THEN {} ELSE {[c EXCEPT !.over = TRUE]}
  <2>4. asked' = (asked \ {c}) \cup over
    BY <1>2 DEF TimeOut
  <2>5. over \in SUBSET CallRec /\ \A d \in over : d.over /\ d.seq = c.seq /\ d.peer = c.peer /\ d.kind # "load"
    BY <2>3
  <2>6. \A p \in Peers : thread[p].version >= thread[p].version
    BY <1>0
  <2> QED
    BY <1>0, <2>1, <2>2, <2>4, <2>5, <2>6
<1> QED
  BY <1>1, <1>2

-----------------------------------------------------------------------------
(* Each step.                                                              *)

LEMMA AnswerStep ==
  ASSUME PageInv, NEW c \in asked, RunCall(c) \/ TimeOut(c)
  PROVE  PageInv'
<1> USE DEF PageInv, ViewInv
<1>1. /\ mounted' = mounted /\ peer' = peer /\ loadSeq' = loadSeq /\ latestReq' = latestReq /\ shown' = shown
      /\ draft' = draft /\ drafts' = drafts /\ texts' = texts /\ ops' = ops
      /\ sendBusy' = sendBusy /\ actionBusy' = actionBusy
      /\ confirmPunish' = confirmPunish /\ dialogPeer' = dialogPeer
  BY DEF RunCall, TimeOut, composer, dialog
<1>2. Answers(c) /\ thread' \in [Peers -> [version : Nat, state : ThreadState]]
  BY RunAnswers
<1>3. PICK over \in SUBSET CallRec : /\ asked' = (asked \ {c}) \cup over
                                     /\ \A d \in over : d.over /\ d.seq = c.seq /\ d.peer = c.peer
  BY RunAnswers
<1>4. TypeInv'
  BY <1>1, <1>2, <1>3 DEF TypeInv, Answers
<1>5. \A k \in ReplyAt' : \/ k \in ReplyAt /\ inbox'[k] = inbox[k]
                          \/ /\ k = Len(inbox') /\ ~c.over /\ inbox'[k].call = c
                             /\ inbox'[k].view # NoThread => inbox'[k].view.peer = c.peer
  BY <1>2 DEF Answers, ReplyAt, View
<1>6. CallsOfVisit'
  <2>1. \A d \in asked' : OfVisit(d)
    BY <1>3 DEF CallsOfVisit, OfVisit
  <2>2. \A k \in ReplyAt' : OfVisit(inbox'[k].call)
    BY <1>5 DEF CallsOfVisit
  <2> QED
    BY <1>1, <2>1, <2>2 DEF CallsOfVisit, OfVisit
<1>7. RepliesFit'
  BY <1>5 DEF RepliesFit
<1>8. ViewIsOfPeer' /\ DialogOfPeer'
  BY <1>1 DEF ViewIsOfPeer, DialogOfPeer
<1>9. Locked'
  <2>1. AskedLocks' = AskedLocks \ {c}
    BY <1>1, <1>3 DEF AskedLocks, Locks
  <2>2. HeardLocks \subseteq HeardLocks' /\ \A k \in HeardLocks : inbox'[k] = inbox[k]
    BY <1>1, <1>2 DEF HeardLocks, Locks, ReplyAt, Answers
  <2>3. CASE ~mounted
    BY <1>1, <2>3 DEF Locked
  <2>4. CASE mounted /\ ~Locks(c)
    <3>1. AskedLocks' = AskedLocks
      BY <2>1, <2>4 DEF AskedLocks
    <3>2. HeardLocks' = HeardLocks
      BY <1>1, <1>5, <2>2, <2>4 DEF HeardLocks, Locks
    <3> QED
      BY <1>1, <2>2, <3>1, <3>2 DEF Locked, OneLock, LockOf
  <2>5. CASE mounted /\ Locks(c)
    <3>1. AskedLocks = {c} /\ HeardLocks = {}
      BY <2>5 DEF AskedLocks, Locked, OneLock
    <3>2. AskedLocks' = {}
      BY <2>1, <3>1
    <3>3. HeardLocks' = {Len(inbox')} /\ inbox'[Len(inbox')].call = c
      <4>1. Len(inbox') \in HeardLocks' /\ inbox'[Len(inbox')].call = c
        BY <1>1, <1>2, <2>5 DEF HeardLocks, ReplyAt, Locks, Answers
      <4>2. \A k \in HeardLocks' : k = Len(inbox')
        BY <1>1, <1>5, <3>1 DEF HeardLocks, Locks
      <4> QED
        BY <4>1, <4>2
    <3>4. OneLock'
      BY <3>2, <3>3 DEF OneLock
    <3>5. \A b \in BOOLEAN : LockOf(b)' <=> LockOf(b)
      BY <3>1, <3>2, <3>3 DEF LockOf
    <3> QED
      BY <1>1, <2>5, <3>4, <3>5 DEF Locked
  <2> QED
    BY <2>3, <2>4, <2>5
<1> QED
  BY <1>4, <1>6, <1>7, <1>8, <1>9

LEMMA NoLocks ==
  ASSUME PageInv, mounted, ~busy
  PROVE  AskedLocks = {} /\ HeardLocks = {}
BY DEF PageInv, Locked, LockOf, busy

LEMMA LoadCallType ==
  ASSUME NEW p \in Peers, NEW s \in Nat, NEW n \in Nat
  PROVE  /\ LoadCall(p, s, n) \in CallRec /\ LoadCall(p, s, n).seq = s /\ LoadCall(p, s, n).peer = p
         /\ LoadCall(p, s, n).kind = "load"
BY DEF LoadCall, CallRec, Kind, NoText

LEMMA OpCallType ==
  ASSUME TypeInv, NEW kind \in {"send"} \cup Action, NEW text \in Nat
  PROVE  /\ OpCall(kind, text) \in CallRec /\ OpCall(kind, text).seq = loadSeq /\ OpCall(kind, text).peer = peer
         /\ OpCall(kind, text).kind = kind /\ OpCall(kind, text).over = FALSE
BY DEF OpCall, CallRec, Kind, TypeInv

\* Asking for something locks the page.
LEMMA AskStep ==
  ASSUME PageInv, mounted, ~busy, NEW kind \in {"send"} \cup Action, NEW text \in Nat,
         Ask(OpCall(kind, text)),
         sendBusy' = (sendBusy \/ kind = "send"), actionBusy' = (actionBusy \/ kind # "send"),
         UNCHANGED <<thread, inbox, mounted, peer, loadSeq, latestReq, shown, draft, drafts, texts, confirmPunish, dialogPeer>>
  PROVE  PageInv'
<1> USE DEF PageInv, ViewInv
<1> DEFINE call == OpCall(kind, text)
<1>1. /\ call \in CallRec /\ call.seq = loadSeq /\ call.peer = peer /\ call.kind = kind /\ call.over = FALSE
      /\ kind # "load"
  BY OpCallType DEF Action
<1>2. asked' = asked \cup {call} /\ ops' = ops + 1
  BY DEF Ask
<1> HIDE DEF call
<1>3. TypeInv'
  BY <1>1, <1>2 DEF TypeInv
<1>4. CallsOfVisit'
  BY <1>1, <1>2 DEF CallsOfVisit, OfVisit, ReplyAt, TypeInv
<1>5. RepliesFit' /\ ViewIsOfPeer' /\ DialogOfPeer'
  BY DEF RepliesFit, ReplyAt, ViewIsOfPeer, DialogOfPeer
<1>6. AskedLocks = {} /\ HeardLocks = {} /\ ~sendBusy /\ ~actionBusy
  BY NoLocks DEF busy
<1>7. AskedLocks' = {call} /\ HeardLocks' = {}
  BY <1>1, <1>2, <1>6 DEF AskedLocks, HeardLocks, ReplyAt, Locks
<1>8. Locked'
  BY <1>1, <1>6, <1>7 DEF Locked, OneLock, LockOf
<1> QED
  BY <1>3, <1>4, <1>5, <1>8

\* What is under way is of this visit or of an earlier one.
LEMMA NothingToCome ==
  ASSUME PageInv
  PROVE  /\ \A c \in asked : c.seq <= loadSeq /\ c.seq \in Nat
         /\ \A i \in ReplyAt : inbox[i].call.seq <= loadSeq /\ inbox[i].call.seq \in Nat
<1>1. \A i \in ReplyAt : inbox[i].call \in CallRec
  BY DEF PageInv, ViewInv, TypeInv, ReplyAt, ReplyRec, EventRec
<1> QED
  BY <1>1 DEF PageInv, ViewInv, TypeInv, CallsOfVisit, OfVisit, CallRec

\* The effect runs anew: nothing that is under way is of the new visit.
LEMMA SwitchStep ==
  ASSUME PageInv, NEW p \in Peers, SwitchPeer(p)
  PROVE  PageInv'
<1> USE DEF PageInv, ViewInv
<1> DEFINE call == LoadCall(p, loadSeq + 1, latestReq + 1)
<1>1. call \in CallRec /\ call.seq = loadSeq + 1 /\ call.peer = p /\ call.kind = "load" /\ loadSeq \in Nat /\ latestReq \in Nat
  BY LoadCallType DEF TypeInv
<1>2. /\ asked' = asked \cup {call} /\ inbox' = inbox /\ thread' = thread /\ loadSeq' = loadSeq + 1 /\ peer' = p
      /\ latestReq' = latestReq + 1 /\ shown' = NoThread /\ mounted' = mounted /\ texts' = texts /\ ops' = ops
      /\ drafts' = (IF Keyed THEN [q \in Peers |-> NoText] ELSE drafts) /\ draft' = drafts'[p]
      /\ sendBusy' = FALSE /\ actionBusy' = FALSE /\ confirmPunish' = FALSE
  BY DEF SwitchPeer, client
<1> HIDE DEF call
<1>3. drafts' \in [Peers -> Nat] /\ draft' \in Nat
  BY <1>2 DEF TypeInv, NoText
<1>4. TypeInv'
  <2>1. asked' \subseteq CallRec /\ loadSeq' \in Nat /\ latestReq' \in Nat
    BY <1>1, <1>2 DEF TypeInv
  <2> QED
    BY <1>2, <1>3, <2>1 DEF TypeInv
<1>5. /\ \A c \in asked : c.seq <= loadSeq /\ c.seq \in Nat
      /\ \A i \in ReplyAt : inbox[i].call.seq <= loadSeq /\ inbox[i].call.seq \in Nat
  BY NothingToCome
<1>6. CallsOfVisit'
  BY <1>1, <1>2, <1>5 DEF CallsOfVisit, OfVisit, ReplyAt
<1>7. RepliesFit' /\ ViewIsOfPeer' /\ DialogOfPeer'
  BY <1>2 DEF RepliesFit, ReplyAt, ViewIsOfPeer, DialogOfPeer
<1>8. AskedLocks' = {} /\ HeardLocks' = {}
  BY <1>1, <1>2, <1>5 DEF AskedLocks, HeardLocks, ReplyAt, Locks
<1>9. Locked'
  BY <1>2, <1>8 DEF Locked, OneLock, LockOf
<1> QED
  BY <1>4, <1>6, <1>7, <1>9

LEMMA MemberStep ==
  ASSUME PageInv, Member
  PROVE  PageInv'
<1> USE DEF PageInv, ViewInv
<1>1. ASSUME NEW p \in Peers, SwitchPeer(p) PROVE PageInv'
  BY <1>1, SwitchStep
<1>2. CASE Leave
  <2>1. /\ asked' = asked /\ inbox' = inbox /\ thread' = thread /\ loadSeq' = loadSeq + 1 /\ peer' = peer
        /\ latestReq' = latestReq /\ shown' = shown /\ mounted' = FALSE /\ texts' = texts /\ ops' = ops
        /\ drafts' = drafts /\ draft' = draft /\ sendBusy' = sendBusy /\ actionBusy' = actionBusy
        /\ confirmPunish' = confirmPunish /\ dialogPeer' = dialogPeer
    BY <1>2 DEF Leave, client, wires, composer, dialog
  <2>2. TypeInv'
    <3>1. loadSeq' \in Nat
      BY <2>1 DEF TypeInv
    <3> QED
      BY <2>1, <3>1 DEF TypeInv
  <2>3. /\ \A c \in asked : c.seq <= loadSeq /\ c.seq \in Nat
        /\ \A i \in ReplyAt : inbox[i].call.seq <= loadSeq /\ inbox[i].call.seq \in Nat
    BY NothingToCome
  <2>4. CallsOfVisit'
    BY <2>1, <2>3 DEF CallsOfVisit, OfVisit, ReplyAt, TypeInv
  <2>5. RepliesFit' /\ ViewIsOfPeer' /\ DialogOfPeer' /\ Locked'
    BY <2>1 DEF RepliesFit, ReplyAt, ViewIsOfPeer, DialogOfPeer, Locked
  <2> QED
    BY <2>2, <2>4, <2>5
<1>3. CASE Type \/ OpenDialog \/ CancelDialog
  <2>1. /\ asked' = asked /\ inbox' = inbox /\ thread' = thread /\ loadSeq' = loadSeq /\ peer' = peer
        /\ latestReq' = latestReq /\ shown' = shown /\ mounted' = mounted /\ ops' = ops
        /\ sendBusy' = sendBusy /\ actionBusy' = actionBusy
    BY <1>3 DEF Type, OpenDialog, CancelDialog, client, wires, composer, dialog
  <2>2. TypeInv' /\ draft' = drafts'[peer]
    <3>1. /\ draft' \in Nat /\ drafts' \in [Peers -> Nat] /\ texts' \in Nat
          /\ draft' = drafts'[peer]
      BY <1>3 DEF Type, OpenDialog, CancelDialog, composer, TypeInv, ViewIsOfPeer
    <3>2. confirmPunish' \in BOOLEAN
      BY <1>3 DEF Type, OpenDialog, CancelDialog, dialog, TypeInv
    <3> QED
      BY <2>1, <3>1, <3>2 DEF TypeInv
  <2>3. DialogOfPeer'
    BY <1>3, <2>1 DEF Type, OpenDialog, CancelDialog, dialog, DialogOfPeer
  <2>4. CallsOfVisit' /\ RepliesFit' /\ ViewIsOfPeer'
    BY <2>1, <2>2 DEF CallsOfVisit, OfVisit, RepliesFit, ReplyAt, ViewIsOfPeer
  <2>5. Locked'
    BY <2>1 DEF Locked, OneLock, LockOf, AskedLocks, HeardLocks, ReplyAt, Locks
  <2> QED
    BY <2>2, <2>3, <2>4, <2>5
<1>4. CASE Send
  <2>1. sendBusy' = (sendBusy \/ "send" = "send") /\ actionBusy' = (actionBusy \/ "send" # "send")
    BY <1>4 DEF Send, TypeInv, busy
  <2> QED
    BY <1>4, <2>1, AskStep DEF Send, client, composer, dialog, TypeInv
<1>5. ASSUME NEW kind \in Action, RunAction(kind) PROVE PageInv'
  <2>1. kind # "send" /\ NoText \in Nat
    BY DEF Action, NoText
  <2>2. sendBusy' = (sendBusy \/ kind = "send") /\ actionBusy' = (actionBusy \/ kind # "send")
    BY <1>5, <2>1 DEF RunAction, TypeInv, busy
  <2> QED
    BY <1>5, <2>1, <2>2, AskStep DEF RunAction, client, composer, dialog
<1> QED
  BY <1>1, <1>2, <1>3, <1>4, <1>5 DEF Member

\* The page hears the reply or the event at i.
LEMMA HearStep ==
  ASSUME PageInv, NEW i \in 1..Len(inbox), Hear(i)
  PROVE  PageInv'
<1> USE DEF PageInv, ViewInv
<1> DEFINE m == inbox[i]
<1>1. /\ i \in DOMAIN inbox /\ m \in ReplyRec \cup EventRec
      /\ inbox' = RemoveAt(inbox, i) /\ thread' = thread
      /\ mounted' = mounted /\ peer' = peer /\ loadSeq' = loadSeq /\ texts' = texts
      /\ dialogPeer' = dialogPeer /\ ops' = ops
      /\ LoadAnswered(m) \/ SendAnswered(m) \/ ActionAnswered(m) \/ EventHeard(m)
  BY DEF Hear, client, TypeInv
<1>2. /\ inbox' \in Seq(ReplyRec \cup EventRec)
      /\ \A k \in DOMAIN inbox' : From(i, k) \in DOMAIN inbox /\ From(i, k) # i /\ inbox'[k] = inbox[From(i, k)]
      /\ \A j \in DOMAIN inbox : j # i => \E k \in DOMAIN inbox' : From(i, k) = j
      /\ \A k, l \in DOMAIN inbox' : From(i, k) = From(i, l) => k = l
  BY <1>1, Removed DEF TypeInv
<1>3. m.type = "reply" => m \in ReplyRec /\ m.call \in CallRec /\ OfVisit(m.call) /\ i \in ReplyAt
  BY <1>1 DEF ReplyRec, EventRec, CallsOfVisit, ReplyAt
<1>4. /\ asked \subseteq asked' /\ latestReq' \in Nat
      /\ \A c \in asked' \ asked : c \in CallRec /\ c.kind = "load" /\ c.seq = loadSeq /\ c.peer = peer
  <2>1. RequestLoad => /\ latestReq' \in Nat /\ asked \subseteq asked'
                       /\ \A c \in asked' \ asked : c \in CallRec /\ c.kind = "load" /\ c.seq = loadSeq /\ c.peer = peer
    <3>1. peer \in Peers /\ loadSeq \in Nat /\ latestReq \in Nat /\ latestReq + 1 \in Nat
      BY DEF TypeInv
    <3> QED
      BY <3>1, LoadCallType DEF RequestLoad
  <2>2. RequestLoad \/ (asked' = asked /\ latestReq' = latestReq)
    BY <1>1 DEF LoadAnswered, SendAnswered, ActionAnswered, EventHeard
  <2> QED
    BY <2>1, <2>2 DEF TypeInv
<1>5. /\ draft' \in Nat /\ drafts' \in [Peers -> Nat] /\ draft' = drafts'[peer]
      /\ shown' # NoThread => shown'.peer = peer
      /\ confirmPunish' => confirmPunish
      /\ sendBusy' \in BOOLEAN /\ actionBusy' \in BOOLEAN /\ confirmPunish' \in BOOLEAN
  <2>1. CASE LoadAnswered(m)
    <3>1. shown' # NoThread => shown'.peer = peer
      BY <1>3, <2>1 DEF LoadAnswered, Latest, OfVisit, RepliesFit, ViewIsOfPeer
    <3> QED
      BY <2>1, <3>1 DEF LoadAnswered, TypeInv, ViewIsOfPeer
  <2>2. CASE SendAnswered(m)
    <3>1. \/ draft' = draft /\ drafts' = drafts
          \/ draft' = NoText /\ drafts' = [drafts EXCEPT ![peer] = NoText]
      BY <1>3, <2>2 DEF SendAnswered, OfVisit
    <3>2. draft' \in Nat /\ drafts' \in [Peers -> Nat] /\ draft' = drafts'[peer]
      BY <3>1 DEF TypeInv, ViewIsOfPeer, NoText
    <3>3. sendBusy' \in BOOLEAN
      BY <2>2 DEF SendAnswered, TypeInv
    <3> QED
      BY <2>2, <3>2, <3>3 DEF SendAnswered, TypeInv, ViewIsOfPeer
  <2>3. CASE ActionAnswered(m)
    <3>1. /\ actionBusy' \in BOOLEAN /\ confirmPunish' \in BOOLEAN
          /\ confirmPunish' => confirmPunish
      BY <2>3 DEF ActionAnswered, TypeInv
    <3> QED
      BY <2>3, <3>1 DEF ActionAnswered, TypeInv, ViewIsOfPeer
  <2>4. CASE EventHeard(m)
    BY <2>4 DEF EventHeard, TypeInv, ViewIsOfPeer
  <2> QED
    BY <1>1, <2>1, <2>2, <2>3, <2>4
<1> HIDE DEF m
<1>6. TypeInv'
  <2>1. asked' \subseteq CallRec
    BY <1>4 DEF TypeInv
  <2> QED
    BY <1>1, <1>2, <1>4, <1>5, <2>1 DEF TypeInv
<1>7. \A k \in ReplyAt' : From(i, k) \in ReplyAt /\ inbox'[k] = inbox[From(i, k)]
  BY <1>2 DEF ReplyAt
<1>8. CallsOfVisit'
  <2>1. \A c \in asked' : OfVisit(c)
    BY <1>4 DEF CallsOfVisit, OfVisit, TypeInv
  <2>2. \A k \in ReplyAt' : OfVisit(inbox'[k].call)
    BY <1>7 DEF CallsOfVisit
  <2> QED
    BY <1>1, <2>1, <2>2 DEF CallsOfVisit, OfVisit
<1>9. RepliesFit'
  BY <1>7 DEF RepliesFit
<1>10. ViewIsOfPeer' /\ DialogOfPeer'
  BY <1>1, <1>5 DEF ViewIsOfPeer, DialogOfPeer
<1>11. Locked'
  <2>1. AskedLocks' = AskedLocks
    BY <1>1, <1>4 DEF AskedLocks, Locks
  <2>2. /\ \A k \in HeardLocks' : From(i, k) \in HeardLocks \ {i} /\ inbox'[k] = inbox[From(i, k)]
        /\ \A j \in HeardLocks \ {i} : \E k \in HeardLocks' : From(i, k) = j /\ inbox'[k] = inbox[j]
        /\ \A k, l \in HeardLocks' : From(i, k) = From(i, l) => k = l
    <3>1. \A k \in HeardLocks' : From(i, k) \in HeardLocks \ {i} /\ inbox'[k] = inbox[From(i, k)]
      BY <1>1, <1>2, <1>7 DEF HeardLocks, Locks, ReplyAt
    <3>2. ASSUME NEW j \in HeardLocks \ {i}
          PROVE  \E k \in HeardLocks' : From(i, k) = j /\ inbox'[k] = inbox[j]
      <4>1. PICK k \in DOMAIN inbox' : From(i, k) = j
        BY <1>2 DEF HeardLocks, ReplyAt
      <4>2. inbox'[k] = inbox[j]
        BY <1>2, <4>1
      <4>3. k \in HeardLocks'
        BY <1>1, <4>1, <4>2 DEF HeardLocks, ReplyAt, Locks
      <4> QED
        BY <4>1, <4>2, <4>3
    <3>3. \A k, l \in HeardLocks' : From(i, k) = From(i, l) => k = l
      BY <1>2 DEF HeardLocks, ReplyAt
    <3> QED
      BY <3>1, <3>2, <3>3
  <2>3. CASE ~mounted
    BY <1>1, <2>3 DEF Locked
  <2>4. CASE mounted /\ i \notin HeardLocks
    <3>1. sendBusy' = sendBusy /\ actionBusy' = actionBusy
      <4>1. m.type = "reply" /\ m.call.kind # "load" => m.call.seq # loadSeq
        <5>1. m.type = "reply" => i \in ReplyAt /\ ~m.call.over
          BY <1>3 DEF RepliesFit, m
        <5> QED
          BY <2>4, <5>1 DEF HeardLocks, Locks, m
      <4>2. m.call.kind \in Action => m.call.kind # "load"
        BY DEF Action
      <4> QED
        BY <1>1, <4>1, <4>2 DEF LoadAnswered, SendAnswered, ActionAnswered, EventHeard
    <3>2. OneLock /\ (sendBusy <=> LockOf(TRUE)) /\ (actionBusy <=> LockOf(FALSE))
      BY <2>4 DEF Locked
    <3>3. HeardLocks \ {i} = HeardLocks
      BY <2>4
    <3>4. OneLock'
      BY <2>1, <2>2, <3>2, <3>3 DEF OneLock
    <3>5. ASSUME NEW b \in BOOLEAN PROVE LockOf(b)' <=> LockOf(b)
      BY <2>1, <2>2, <3>3 DEF LockOf
    <3> QED
      BY <3>1, <3>2, <3>4, <3>5 DEF Locked
  <2>5. CASE mounted /\ i \in HeardLocks
    <3>1. AskedLocks = {} /\ HeardLocks = {i}
      BY <2>5 DEF Locked, OneLock
    <3>2. AskedLocks' = {} /\ HeardLocks' = {}
      BY <2>1, <2>2, <3>1
    <3>3. /\ m.type = "reply" /\ m.call.seq = loadSeq /\ m.call.kind # "load"
          /\ sendBusy <=> m.call.kind = "send"
          /\ actionBusy <=> m.call.kind # "send"
      BY <2>5, <3>1 DEF HeardLocks, ReplyAt, Locks, Locked, LockOf, m
    <3>4. sendBusy' = FALSE /\ actionBusy' = FALSE
      <4>1. CASE m.call.kind = "send"
        <5>1. SendAnswered(m)
          BY <1>1, <3>3, <4>1 DEF LoadAnswered, ActionAnswered, EventHeard, Action
        <5> QED
          BY <3>3, <4>1, <5>1 DEF SendAnswered, TypeInv
      <4>2. CASE m.call.kind # "send"
        <5>1. ActionAnswered(m)
          BY <1>1, <3>3, <4>2 DEF LoadAnswered, SendAnswered, EventHeard
        <5> QED
          BY <3>3, <4>2, <5>1 DEF ActionAnswered, TypeInv
      <4> QED
        BY <4>1, <4>2
    <3> QED
      BY <3>2, <3>4 DEF Locked, OneLock, LockOf
  <2> QED
    BY <2>3, <2>4, <2>5
<1> QED
  BY <1>6, <1>8, <1>9, <1>10, <1>11

LEMMA PageInit ==
  ASSUME Init
  PROVE  PageInv
<1> DEFINE call == LoadCall(peer, 1, 1)
<1>1. call \in CallRec /\ call.seq = 1 /\ call.peer = peer /\ call.kind = "load" /\ peer \in Peers
  BY LoadCallType DEF Init
<1>2. asked = {call} /\ inbox = <<>> /\ loadSeq = 1 /\ drafts = [p \in Peers |-> 0] /\ draft = 0
      /\ shown = NoThread /\ sendBusy = FALSE /\ actionBusy = FALSE /\ confirmPunish = FALSE /\ dialogPeer = peer
      /\ mounted = TRUE /\ latestReq = 1 /\ texts = 0 /\ ops = 0
      /\ thread = [p \in Peers |-> [version |-> 0, state |-> "active"]]
  BY DEF Init, NoText
<1> HIDE DEF call
<1>3. ReplyAt = {} /\ inbox \in Seq(ReplyRec \cup EventRec)
  BY <1>2 DEF ReplyAt
<1>4. TypeInv
  BY <1>1, <1>2, <1>3 DEF TypeInv, ThreadState
<1>5. CallsOfVisit /\ RepliesFit /\ ViewIsOfPeer /\ DialogOfPeer
  BY <1>1, <1>2, <1>3 DEF CallsOfVisit, OfVisit, RepliesFit, ViewIsOfPeer, DialogOfPeer
<1>6. AskedLocks = {} /\ HeardLocks = {}
  BY <1>1, <1>2, <1>3 DEF AskedLocks, HeardLocks, Locks
<1>7. Locked
  BY <1>2, <1>6 DEF Locked, OneLock, LockOf
<1> QED
  BY <1>4, <1>5, <1>7 DEF PageInv, ViewInv

LEMMA PageStep ==
  ASSUME PageInv, [Next]_vars
  PROVE  PageInv'
<1>1. CASE Member
  BY <1>1, MemberStep
<1>2. CASE Runs \/ \E c \in asked : TimeOut(c)
  BY <1>2, AnswerStep DEF Runs
<1>3. CASE Hears
  BY <1>3, HearStep DEF Hears
<1>4. CASE UNCHANGED vars
  BY <1>4 DEF vars, client, wires, composer, dialog, PageInv, ViewInv, TypeInv, CallsOfVisit, OfVisit, RepliesFit,
     ReplyAt, ViewIsOfPeer, DialogOfPeer, Locked, OneLock, LockOf, AskedLocks, HeardLocks, Locks
<1> QED
  BY <1>1, <1>2, <1>3, <1>4 DEF Next

-----------------------------------------------------------------------------
(* What is shown does not go back in time.                                 *)

\* The load that counts: the last one that was asked for.
IsNewest(c) == c.kind = "load" /\ c.n = latestReq
AskedNewest == {c \in asked : IsNewest(c)}
HeardNewest == {i \in ReplyAt : IsNewest(inbox[i].call)}

\* It is in one place at most.
OneNewest ==
  /\ \A c, d \in AskedNewest : c = d
  /\ \A i, j \in HeardNewest : i = j
  /\ AskedNewest = {} \/ HeardNewest = {}

Numbered ==
  /\ \A c \in asked : c.kind = "load" => c.n <= latestReq
  /\ \A i \in ReplyAt : inbox[i].call.kind = "load" => inbox[i].call.n <= latestReq

\* Nobody is ahead of the client.
NoneAhead ==
  /\ shown \in ViewRec \cup {NoThread}
  /\ shown # NoThread => shown.version <= thread[shown.peer].version
  /\ \A i \in ReplyAt : inbox[i].view # NoThread =>
       inbox[i].view.version <= thread[inbox[i].view.peer].version

\* The answer that counts is no older than what is shown.
NewestIsNewer ==
  \A i \in HeardNewest :
    inbox[i].call.seq = loadSeq /\ inbox[i].view # NoThread /\ shown # NoThread =>
      shown.version <= inbox[i].view.version

NewsInv == Numbered /\ OneNewest /\ NoneAhead /\ NewestIsNewer

LEMMA RepliesTyped ==
  ASSUME TypeInv, NEW i \in ReplyAt
  PROVE  inbox[i] \in ReplyRec /\ inbox[i].call \in CallRec /\ inbox[i].view \in ViewRec \cup {NoThread}
<1>1. inbox[i] \in ReplyRec \cup EventRec /\ inbox[i].type = "reply"
  <2>1. i \in DOMAIN inbox /\ inbox[i].type = "reply"
    BY DEF ReplyAt
  <2>2. inbox \in Seq(ReplyRec \cup EventRec)
    BY DEF TypeInv
  <2> QED
    BY <2>1, <2>2
<1>2. inbox[i] \in ReplyRec
  BY <1>1 DEF EventRec
<1> QED
  BY <1>2 DEF ReplyRec

\* Another load is asked for: it is the only one that counts.
LEMMA AskedAnew ==
  ASSUME TypeInv, Numbered, NEW p \in Peers, NEW s \in Nat,
         latestReq' = latestReq + 1,
         asked' = asked \cup {LoadCall(p, s, latestReq + 1)},
         \A k \in ReplyAt' : \E j \in ReplyAt : inbox'[k] = inbox[j]
  PROVE  Numbered' /\ OneNewest' /\ HeardNewest' = {}
<1> DEFINE call == LoadCall(p, s, latestReq + 1)
<1>1. call.kind = "load" /\ call.n = latestReq + 1 /\ latestReq \in Nat
  BY DEF LoadCall, TypeInv
<1> HIDE DEF call
<1>2. /\ \A c \in asked : c.kind = "load" => c.n \in Nat /\ c.n <= latestReq
      /\ \A j \in ReplyAt : inbox[j].call.kind = "load" => inbox[j].call.n \in Nat /\ inbox[j].call.n <= latestReq
  <2>1. \A j \in ReplyAt : inbox[j].call \in CallRec
    BY RepliesTyped
  <2> QED
    BY <2>1 DEF TypeInv, CallRec, Numbered
<1>3. asked' = asked \cup {call}
  BY DEF call
<1>4. AskedNewest' = {call}
  BY <1>1, <1>2, <1>3 DEF AskedNewest, IsNewest
<1>5. HeardNewest' = {}
  <2>1. ASSUME NEW k \in ReplyAt' PROVE ~(inbox'[k].call.kind = "load" /\ inbox'[k].call.n = latestReq')
    <3>1. PICK j \in ReplyAt : inbox'[k] = inbox[j]
      OBVIOUS
    <3> QED
      BY <1>1, <1>2, <3>1
  <2> QED
    BY <2>1 DEF HeardNewest, IsNewest
<1>6. Numbered'
  BY <1>1, <1>2, <1>3 DEF Numbered
<1> QED
  BY <1>4, <1>5, <1>6 DEF OneNewest

\* Nothing was asked for and nothing answered, as far as loads go.
LEMMA NothingAsked ==
  ASSUME TypeInv, NewsInv, latestReq' = latestReq, inbox' = inbox,
         \A c \in asked' : c \in asked \/ c.kind # "load"
  PROVE  Numbered' /\ OneNewest' /\ HeardNewest' = HeardNewest
<1>1. ReplyAt' = ReplyAt
  BY DEF ReplyAt
<1>2. HeardNewest' = HeardNewest
  BY <1>1 DEF HeardNewest, IsNewest
<1>3. AskedNewest' \subseteq AskedNewest
  BY DEF AskedNewest, IsNewest
<1>4. Numbered'
  BY <1>1 DEF NewsInv, Numbered
<1> QED
  BY <1>2, <1>3, <1>4 DEF NewsInv, OneNewest

LEMMA NewsMember ==
  ASSUME PageInv, NewsInv, Member
  PROVE  NewsInv'
<1> USE DEF PageInv, ViewInv
<1>1. ASSUME NEW p \in Peers, SwitchPeer(p) PROVE NewsInv'
  <2>1. /\ asked' = asked \cup {LoadCall(p, loadSeq + 1, latestReq + 1)} /\ latestReq' = latestReq + 1
        /\ inbox' = inbox /\ thread' = thread /\ shown' = NoThread /\ loadSeq + 1 \in Nat
    BY <1>1 DEF SwitchPeer, client, TypeInv
  <2>2. ReplyAt' = ReplyAt
    BY <2>1 DEF ReplyAt
  <2>3. Numbered' /\ OneNewest' /\ HeardNewest' = {}
    BY <2>1, <2>2, AskedAnew DEF NewsInv
  <2>4. NoneAhead'
    BY <2>1, <2>2 DEF NewsInv, NoneAhead
  <2> QED
    BY <2>3, <2>4 DEF NewsInv, NewestIsNewer
<1>2. CASE Leave \/ Type \/ Send \/ OpenDialog \/ CancelDialog \/ \E kind \in Action : RunAction(kind)
  <2>1. /\ inbox' = inbox /\ thread' = thread /\ shown' = shown /\ latestReq' = latestReq
        /\ loadSeq' = loadSeq \/ loadSeq' = loadSeq + 1
    BY <1>2 DEF Leave, Type, Send, OpenDialog, CancelDialog, RunAction, client, wires
  <2>2. \A c \in asked' : c \in asked \/ c.kind # "load"
    BY <1>2 DEF Leave, Type, Send, OpenDialog, CancelDialog, RunAction, wires, Ask, OpCall, Action
  <2>3. ReplyAt' = ReplyAt
    BY <2>1 DEF ReplyAt
  <2>4. Numbered' /\ OneNewest' /\ HeardNewest' = HeardNewest
    BY <2>1, <2>2, NothingAsked
  <2>5. NoneAhead'
    BY <2>1, <2>3 DEF NewsInv, NoneAhead
  <2>6. NewestIsNewer'
    <3>1. \A i \in HeardNewest : inbox[i].call.seq \in Nat /\ inbox[i].call.seq <= loadSeq
      BY NothingToCome DEF HeardNewest
    <3>2. loadSeq \in Nat
      BY DEF TypeInv
    <3> QED
      BY <2>1, <2>4, <3>1, <3>2 DEF NewsInv, NewestIsNewer
  <2> QED
    BY <2>4, <2>5, <2>6 DEF NewsInv
<1> QED
  BY <1>1, <1>2 DEF Member

LEMMA NewsAnswer ==
  ASSUME PageInv, NewsInv, NEW c \in asked, RunCall(c) \/ TimeOut(c)
  PROVE  NewsInv'
<1> USE DEF PageInv, ViewInv
<1>1. loadSeq' = loadSeq /\ latestReq' = latestReq /\ shown' = shown /\ peer' = peer
  BY DEF RunCall, TimeOut
<1>2. Answers(c) /\ \A p \in Peers : thread'[p].version >= thread[p].version
  BY RunAnswers
<1>3. PICK over \in SUBSET CallRec : /\ asked' = (asked \ {c}) \cup over
                                     /\ \A d \in over : d.kind # "load"
  BY RunAnswers
<1>4. \A k \in ReplyAt' : \/ k \in ReplyAt /\ inbox'[k] = inbox[k]
                          \/ /\ k = Len(inbox') /\ inbox'[k].call = c
                             /\ inbox'[k].view # NoThread => inbox'[k].view = View(c.peer)
  BY <1>2 DEF Answers, ReplyAt
<1>5. Numbered'
  BY <1>1, <1>3, <1>4 DEF NewsInv, Numbered
<1>6. AskedNewest' = AskedNewest \ {c}
  BY <1>1, <1>3 DEF AskedNewest, IsNewest
<1>7. \A k \in HeardNewest' : k \in HeardNewest \/ (k = Len(inbox') /\ c \in AskedNewest)
  BY <1>1, <1>4 DEF HeardNewest, AskedNewest, IsNewest
<1>8. OneNewest'
  BY <1>6, <1>7 DEF NewsInv, OneNewest
<1>9. c.peer \in Peers /\ \A p \in Peers : thread[p].version \in Nat /\ thread'[p].version \in Nat
  BY RunAnswers DEF TypeInv, CallRec
<1>10. NoneAhead'
  <2>1. shown # NoThread => shown.version <= thread'[shown.peer].version
    BY <1>2, <1>9 DEF NewsInv, NoneAhead, ViewRec
  <2>2. ASSUME NEW k \in ReplyAt', inbox'[k].view # NoThread
        PROVE  inbox'[k].view.version <= thread'[inbox'[k].view.peer].version
    <3>1. CASE k \in ReplyAt /\ inbox'[k] = inbox[k]
      <4>1. inbox[k].view \in ViewRec
        BY <2>2, <3>1, RepliesTyped
      <4>2. inbox[k].view.version <= thread[inbox[k].view.peer].version
        BY <2>2, <3>1 DEF NewsInv, NoneAhead
      <4> QED
        BY <1>2, <1>9, <3>1, <4>1, <4>2 DEF ViewRec
    <3>2. CASE inbox'[k].view = View(c.peer)
      BY <1>2, <1>9, <3>2 DEF View
    <3> QED
      BY <1>4, <2>2, <3>1, <3>2
  <2> QED
    BY <1>1, <2>1, <2>2 DEF NewsInv, NoneAhead
<1>11. NewestIsNewer'
  <2>1. SUFFICES ASSUME NEW k \in HeardNewest', inbox'[k].call.seq = loadSeq, inbox'[k].view # NoThread,
                        shown # NoThread
                 PROVE  shown.version <= inbox'[k].view.version
    BY <1>1 DEF NewestIsNewer
  <2>2. k \in ReplyAt'
    BY DEF HeardNewest
  <2>3. CASE k \in ReplyAt /\ inbox'[k] = inbox[k]
    <3>1. k \in HeardNewest
      BY <1>1, <2>1, <2>3 DEF HeardNewest, IsNewest
    <3> QED
      BY <2>1, <2>3, <3>1 DEF NewsInv, NewestIsNewer
  <2>4. CASE inbox'[k].call = c /\ inbox'[k].view = View(c.peer)
    <3>1. c.peer = peer /\ shown.peer = peer
      BY <2>1, <2>4 DEF CallsOfVisit, OfVisit, ViewIsOfPeer
    <3> QED
      BY <2>1, <2>4, <3>1 DEF NewsInv, NoneAhead, View
  <2> QED
    BY <1>4, <2>1, <2>2, <2>3, <2>4
<1> QED
  BY <1>5, <1>8, <1>10, <1>11 DEF NewsInv

\* What was at i is taken from the inbox; a load is asked for, or none.
LEMMA HeardFrom ==
  ASSUME PageInv, NEW i \in 1..Len(inbox), Hear(i)
  PROVE  /\ \A k \in ReplyAt' : From(i, k) \in ReplyAt /\ From(i, k) # i /\ inbox'[k] = inbox[From(i, k)]
         /\ \A k, l \in ReplyAt' : From(i, k) = From(i, l) => k = l
         /\ RequestLoad \/ (asked' = asked /\ latestReq' = latestReq)
         /\ i \in DOMAIN inbox /\ thread' = thread /\ peer' = peer /\ loadSeq' = loadSeq
         /\ mounted' = mounted /\ stored' = stored
<1> USE DEF PageInv, ViewInv
<1>1. inbox' = RemoveAt(inbox, i) /\ inbox \in Seq(ReplyRec \cup EventRec)
  BY DEF Hear, TypeInv
<1>2. /\ \A k \in DOMAIN inbox' : From(i, k) \in DOMAIN inbox /\ From(i, k) # i /\ inbox'[k] = inbox[From(i, k)]
      /\ \A k, l \in DOMAIN inbox' : From(i, k) = From(i, l) => k = l
  BY <1>1, Removed
<1>3. /\ \A k \in ReplyAt' : From(i, k) \in ReplyAt /\ From(i, k) # i /\ inbox'[k] = inbox[From(i, k)]
      /\ \A k, l \in ReplyAt' : From(i, k) = From(i, l) => k = l
  BY <1>2 DEF ReplyAt
<1>4. RequestLoad \/ (asked' = asked /\ latestReq' = latestReq)
  BY DEF Hear, LoadAnswered, SendAnswered, ActionAnswered, EventHeard
<1>5. i \in DOMAIN inbox /\ thread' = thread /\ peer' = peer /\ loadSeq' = loadSeq
      /\ mounted' = mounted /\ stored' = stored
  BY <1>1 DEF Hear, client
<1> QED
  BY <1>3, <1>4, <1>5

\* What is shown is taken from the load that counts, if it changes at all.
LEMMA ShownFrom ==
  ASSUME PageInv, NEW i \in 1..Len(inbox), Hear(i), shown' # shown
  PROVE  i \in HeardNewest /\ inbox[i].call.seq = loadSeq /\ shown' = inbox[i].view
         /\ asked' = asked /\ latestReq' = latestReq
<1>1. LoadAnswered(inbox[i])
  BY DEF Hear, SendAnswered, ActionAnswered, EventHeard
<1>2. i \in ReplyAt
  BY <1>1, HeardFrom DEF LoadAnswered, ReplyAt
<1> QED
  BY <1>1, <1>2 DEF LoadAnswered, Latest, HeardNewest, IsNewest

LEMMA NewsHear ==
  ASSUME PageInv, NewsInv, NEW i \in 1..Len(inbox), Hear(i)
  PROVE  NewsInv'
<1> USE DEF PageInv, ViewInv
<1>1. /\ \A k \in ReplyAt' : From(i, k) \in ReplyAt /\ From(i, k) # i /\ inbox'[k] = inbox[From(i, k)]
      /\ \A k, l \in ReplyAt' : From(i, k) = From(i, l) => k = l
      /\ thread' = thread /\ loadSeq' = loadSeq
  BY HeardFrom
<1>2. NoneAhead'
  <2>1. \/ shown' = shown
        \/ i \in ReplyAt /\ shown' = inbox[i].view
    BY ShownFrom DEF HeardNewest
  <2>2. i \in ReplyAt => inbox[i].view \in ViewRec \cup {NoThread}
    BY RepliesTyped
  <2>3. shown' \in ViewRec \cup {NoThread} /\ (shown' # NoThread => shown'.version <= thread[shown'.peer].version)
    BY <2>1, <2>2 DEF NewsInv, NoneAhead
  <2> QED
    BY <1>1, <2>3 DEF NewsInv, NoneAhead
<1>3. CASE RequestLoad
  <2>1. \A k \in ReplyAt' : \E j \in ReplyAt : inbox'[k] = inbox[j]
    BY <1>1
  <2>2. Numbered' /\ OneNewest' /\ HeardNewest' = {}
    BY <1>3, <2>1, AskedAnew DEF RequestLoad, NewsInv, TypeInv
  <2> QED
    BY <1>2, <2>2 DEF NewsInv, NewestIsNewer
<1>4. CASE asked' = asked /\ latestReq' = latestReq
  <2>1. /\ \A k \in HeardNewest' : From(i, k) \in HeardNewest \ {i} /\ inbox'[k] = inbox[From(i, k)]
        /\ \A k, l \in HeardNewest' : From(i, k) = From(i, l) => k = l
    BY <1>1, <1>4 DEF HeardNewest, IsNewest
  <2>2. AskedNewest' = AskedNewest
    BY <1>4 DEF AskedNewest, IsNewest
  <2>3. OneNewest'
    BY <2>1, <2>2 DEF NewsInv, OneNewest
  <2>4. Numbered'
    BY <1>1, <1>4 DEF NewsInv, Numbered
  <2>5. NewestIsNewer'
    <3>1. CASE shown' = shown
      BY <1>1, <2>1, <3>1 DEF NewsInv, NewestIsNewer
    <3>2. CASE shown' # shown
      <4>1. HeardNewest' = {}
        BY <2>1, <3>2, ShownFrom DEF NewsInv, OneNewest
      <4> QED
        BY <4>1 DEF NewestIsNewer
    <3> QED
      BY <3>1, <3>2
  <2> QED
    BY <1>2, <2>3, <2>4, <2>5 DEF NewsInv
<1> QED
  BY <1>3, <1>4, HeardFrom

LEMMA NewsInit ==
  ASSUME Init
  PROVE  NewsInv
<1>1. inbox = <<>> /\ shown = NoThread /\ asked = {LoadCall(peer, 1, 1)} /\ latestReq = 1
  BY DEF Init
<1>2. ReplyAt = {}
  BY <1>1 DEF ReplyAt
<1>3. LoadCall(peer, 1, 1).n = 1
  BY DEF LoadCall
<1> QED
  BY <1>1, <1>2, <1>3 DEF NewsInv, Numbered, OneNewest, NoneAhead, NewestIsNewer, AskedNewest, HeardNewest

LEMMA NewsStep ==
  ASSUME PageInv, NewsInv, [Next]_vars
  PROVE  NewsInv'
<1>1. CASE Member
  BY <1>1, NewsMember
<1>2. CASE Runs \/ \E c \in asked : TimeOut(c)
  BY <1>2, NewsAnswer DEF Runs
<1>3. CASE Hears
  BY <1>3, NewsHear DEF Hears
<1>4. CASE UNCHANGED vars
  BY <1>4 DEF vars, client, wires, NewsInv, Numbered, OneNewest, NoneAhead, NewestIsNewer, AskedNewest, HeardNewest,
     IsNewest, ReplyAt
<1> QED
  BY <1>1, <1>2, <1>3, <1>4 DEF Next

-----------------------------------------------------------------------------
(* A draft goes when its text is stored.                                   *)

\* What is being sent is what is in the composer, and a success says that it
\* is stored.
SendsOfDraft ==
  /\ ~mounted => AskedLocks = {} /\ HeardLocks = {}
  /\ \A c \in AskedLocks : c.kind = "send" => c.text = draft
  /\ \A i \in HeardLocks : inbox[i].call.kind = "send" =>
       inbox[i].call.text = draft /\ (inbox[i].ok => draft \in stored)

LEMMA DraftMember ==
  ASSUME PageInv, SendsOfDraft, Member
  PROVE  SendsOfDraft'
<1> USE DEF PageInv, ViewInv
<1>1. CASE Leave \/ \E p \in Peers : SwitchPeer(p)
  <2>1. /\ \A c \in asked' : c \in asked \/ c.kind = "load"
        /\ inbox' = inbox /\ loadSeq' = loadSeq + 1 /\ loadSeq \in Nat
    BY <1>1 DEF Leave, SwitchPeer, wires, LoadCall, TypeInv
  <2>2. AskedLocks' = {} /\ HeardLocks' = {}
    BY <2>1, NothingToCome DEF AskedLocks, HeardLocks, ReplyAt, Locks
  <2> QED
    BY <2>2 DEF SendsOfDraft
<1>2. CASE Type
  <2>1. AskedLocks = {} /\ HeardLocks = {}
    BY <1>2, NoLocks DEF Type
  <2>2. AskedLocks' = {} /\ HeardLocks' = {}
    BY <1>2, <2>1 DEF Type, wires, AskedLocks, HeardLocks, ReplyAt, Locks
  <2> QED
    BY <2>2 DEF SendsOfDraft
<1>3. CASE OpenDialog \/ CancelDialog
  <2>1. asked' = asked /\ inbox' = inbox /\ loadSeq' = loadSeq /\ mounted' = mounted /\ draft' = draft /\ stored' = stored
    BY <1>3 DEF OpenDialog, CancelDialog, client, wires, composer
  <2> QED
    BY <2>1 DEF SendsOfDraft, AskedLocks, HeardLocks, ReplyAt, Locks
<1>4. CASE Send \/ \E kind \in Action : RunAction(kind)
  <2>1. mounted /\ mounted' = mounted /\ ~busy /\ inbox' = inbox /\ loadSeq' = loadSeq /\ draft' = draft
    BY <1>4 DEF Send, RunAction, composer
  <2>2. AskedLocks = {} /\ HeardLocks = {}
    BY <2>1, NoLocks
  <2>3. HeardLocks' = {}
    BY <2>1, <2>2 DEF HeardLocks, ReplyAt, Locks
  <2>4. \A c \in asked' : c \in asked \/ (c.kind = "send" => c.text = draft)
    BY <1>4 DEF Send, RunAction, Ask, OpCall, Action
  <2>5. \A c \in AskedLocks' : c.kind = "send" => c.text = draft
    BY <2>1, <2>2, <2>4 DEF AskedLocks, Locks
  <2> QED
    BY <2>1, <2>3, <2>5 DEF SendsOfDraft
<1> QED
  BY <1>1, <1>2, <1>3, <1>4 DEF Member

LEMMA DraftAnswer ==
  ASSUME PageInv, SendsOfDraft, NEW c \in asked, RunCall(c) \/ TimeOut(c)
  PROVE  SendsOfDraft'
<1> USE DEF PageInv, ViewInv
<1>1. loadSeq' = loadSeq /\ mounted' = mounted /\ draft' = draft
  BY DEF RunCall, TimeOut, composer
<1>2. Answers(c) /\ stored \subseteq stored'
  BY RunAnswers
<1>3. PICK over \in SUBSET CallRec : asked' = (asked \ {c}) \cup over /\ \A d \in over : d.over
  BY RunAnswers
<1>4. \A k \in ReplyAt' : \/ k \in ReplyAt /\ inbox'[k] = inbox[k]
                          \/ inbox'[k].call = c /\ (inbox'[k].ok => Granted(c))
  BY <1>2 DEF Answers, ReplyAt
<1>5. AskedLocks' \subseteq AskedLocks
  BY <1>1, <1>3 DEF AskedLocks, Locks
<1>6. \A k \in HeardLocks' : \/ k \in HeardLocks /\ inbox'[k] = inbox[k]
                             \/ c \in AskedLocks /\ inbox'[k].call = c /\ (inbox'[k].ok => Granted(c))
  BY <1>1, <1>4 DEF HeardLocks, AskedLocks, Locks
<1>7. ASSUME NEW k \in HeardLocks', inbox'[k].call.kind = "send"
      PROVE  inbox'[k].call.text = draft /\ (inbox'[k].ok => draft \in stored')
  <2>1. CASE k \in HeardLocks /\ inbox'[k] = inbox[k]
    BY <1>2, <1>7, <2>1 DEF SendsOfDraft
  <2>2. CASE c \in AskedLocks /\ inbox'[k].call = c /\ (inbox'[k].ok => Granted(c))
    BY <1>7, <2>2 DEF SendsOfDraft, Granted
  <2> QED
    BY <1>6, <2>1, <2>2
<1>8. ~mounted => AskedLocks' = {} /\ HeardLocks' = {}
  BY <1>5, <1>6 DEF SendsOfDraft
<1> QED
  BY <1>1, <1>5, <1>7, <1>8 DEF SendsOfDraft

\* A draft changes at an answer only when its text was sent and is stored.
LEMMA DraftFrom ==
  ASSUME PageInv, SendsOfDraft, NEW i \in 1..Len(inbox), Hear(i), drafts' # drafts \/ draft' # draft
  PROVE  /\ mounted /\ HeardLocks = {i} /\ AskedLocks = {}
         /\ draft \in stored
         /\ drafts' = [drafts EXCEPT ![peer] = NoText]
<1> USE DEF PageInv, ViewInv
<1> DEFINE m == inbox[i]
<1>1. m.type = "reply" /\ m.call.kind = "send" /\ m.call.seq = loadSeq /\ m.ok
      /\ drafts' = [drafts EXCEPT ![m.call.peer] = NoText]
  BY DEF Hear, LoadAnswered, SendAnswered, ActionAnswered, EventHeard
<1> HIDE DEF m
<1>2. i \in ReplyAt /\ ~m.call.over /\ m.call.peer = peer
  <2>1. i \in ReplyAt
    BY <1>1, HeardFrom DEF ReplyAt, m
  <2> QED
    BY <1>1, <2>1 DEF RepliesFit, CallsOfVisit, OfVisit, m
<1>3. i \in HeardLocks
  BY <1>1, <1>2 DEF HeardLocks, Locks, m
<1>4. mounted /\ draft \in stored
  BY <1>1, <1>3 DEF SendsOfDraft, m
<1>5. HeardLocks = {i} /\ AskedLocks = {}
  BY <1>3, <1>4 DEF Locked, OneLock
<1> QED
  BY <1>1, <1>2, <1>4, <1>5

LEMMA DraftHear ==
  ASSUME PageInv, SendsOfDraft, NEW i \in 1..Len(inbox), Hear(i)
  PROVE  SendsOfDraft'
<1>1. /\ \A k \in ReplyAt' : From(i, k) \in ReplyAt /\ From(i, k) # i /\ inbox'[k] = inbox[From(i, k)]
      /\ loadSeq' = loadSeq /\ mounted' = mounted /\ stored' = stored
      /\ RequestLoad \/ asked' = asked
  BY HeardFrom
<1>2. AskedLocks' = AskedLocks
  <2>1. \A c \in asked' : c \in asked \/ c.kind = "load"
    BY <1>1 DEF RequestLoad, LoadCall
  <2>2. asked \subseteq asked'
    BY <1>1 DEF RequestLoad
  <2> QED
    BY <1>1, <2>1, <2>2 DEF AskedLocks, Locks
<1>3. \A k \in HeardLocks' : From(i, k) \in HeardLocks \ {i} /\ inbox'[k] = inbox[From(i, k)]
  BY <1>1 DEF HeardLocks, Locks
<1>4. CASE draft' = draft
  <2>1. ~mounted => HeardLocks' = {}
    BY <1>3 DEF SendsOfDraft
  <2>2. ASSUME NEW k \in HeardLocks', inbox'[k].call.kind = "send"
        PROVE  inbox'[k].call.text = draft /\ (inbox'[k].ok => draft \in stored)
    BY <1>3, <2>2 DEF SendsOfDraft
  <2> QED
    BY <1>1, <1>2, <1>4, <2>1, <2>2 DEF SendsOfDraft
<1>5. CASE draft' # draft
  <2>1. AskedLocks' = {} /\ HeardLocks' = {}
    BY <1>2, <1>3, <1>5, DraftFrom
  <2> QED
    BY <2>1 DEF SendsOfDraft
<1> QED
  BY <1>4, <1>5

LEMMA DraftStep ==
  ASSUME PageInv, SendsOfDraft, [Next]_vars
  PROVE  SendsOfDraft'
<1>1. CASE Member
  BY <1>1, DraftMember
<1>2. CASE Runs \/ \E c \in asked : TimeOut(c)
  BY <1>2, DraftAnswer DEF Runs
<1>3. CASE Hears
  BY <1>3, DraftHear DEF Hears
<1>4. CASE UNCHANGED vars
  BY <1>4 DEF vars, client, wires, composer, SendsOfDraft, AskedLocks, HeardLocks, ReplyAt, Locks
<1> QED
  BY <1>1, <1>2, <1>3, <1>4 DEF Next

LEMMA DraftInit ==
  ASSUME Init
  PROVE  SendsOfDraft
<1>1. inbox = <<>> /\ asked = {LoadCall(peer, 1, 1)}
  BY DEF Init
<1>2. AskedLocks = {} /\ HeardLocks = {}
  BY <1>1 DEF AskedLocks, HeardLocks, ReplyAt, Locks, LoadCall
<1> QED
  BY <1>2 DEF SendsOfDraft

-----------------------------------------------------------------------------

\* What the page shows, and what is in the composer, is of the member whose
\* conversation it is, however late the answers of other visits come.
THEOREM ViewIsOfPeerHolds == Spec => []ViewIsOfPeer
<1>1. Init => PageInv
  BY PageInit
<1>2. PageInv /\ [Next]_vars => PageInv'
  BY PageStep
<1>3. PageInv => ViewIsOfPeer
  BY DEF PageInv, ViewInv
<1> QED
  BY <1>1, <1>2, <1>3, PTL DEF Spec

\* The page is locked as long as a call of its visit is under way, for as many
\* calls, visits and timeouts as there may be.
THEOREM LockedWhileBusyHolds == Spec => []LockedWhileBusy
<1>1. Init => PageInv
  BY PageInit
<1>2. PageInv /\ [Next]_vars => PageInv'
  BY PageStep
<1>3. ASSUME PageInv PROVE LockedWhileBusy
  <2> DEFINE under == {c \in Calls : c.seq = loadSeq /\ c.kind # "load"}
  <2>1. under = AskedLocks \cup {inbox[i].call : i \in HeardLocks}
    <3>1. HeardLocks = {i \in ReplyAt : inbox[i].call.seq = loadSeq /\ inbox[i].call.kind # "load"}
      BY <1>3 DEF PageInv, ViewInv, RepliesFit, HeardLocks, Locks
    <3>2. ReplyAt = {j \in 1..Len(inbox) : inbox[j].type = "reply"}
      BY <1>3 DEF PageInv, ViewInv, TypeInv, ReplyAt
    <3> QED
      BY <3>1, <3>2 DEF Calls, AskedLocks, Locks
  <2>2. SUFFICES ASSUME mounted
                 PROVE  /\ sendBusy <=> \E c \in under : c.kind = "send"
                        /\ actionBusy <=> \E c \in under : c.kind # "send"
                        /\ \A c, d \in under : c = d
    BY DEF LockedWhileBusy
  <2>3. OneLock /\ (sendBusy <=> LockOf(TRUE)) /\ (actionBusy <=> LockOf(FALSE))
    BY <1>3, <2>2 DEF PageInv, Locked
  <2> HIDE DEF under
  <2>4. \A c, d \in under : c = d
    BY <2>1, <2>3 DEF OneLock
  <2>5. sendBusy <=> \E c \in under : c.kind = "send"
    BY <2>1, <2>3 DEF LockOf
  <2>6. actionBusy <=> \E c \in under : c.kind # "send"
    BY <2>1, <2>3 DEF LockOf
  <2> QED
    BY <2>4, <2>5, <2>6
<1> QED
  BY <1>1, <1>2, <1>3, PTL DEF Spec

\* Whom a punishment is asked for is whom the dialog was opened for.
THEOREM PunishesConfirmedHolds == Spec => PunishesConfirmed
<1> DEFINE Confirmed == \A c \in asked' \ asked : c.kind = "punish" /\ ~c.over => c.peer = dialogPeer
<1>1. ASSUME PageInv, [Next]_vars PROVE Confirmed
  <2> USE DEF PageInv, ViewInv
  <2>1. ASSUME NEW p \in Peers, SwitchPeer(p) PROVE Confirmed
    BY <1>1, <2>1 DEF SwitchPeer, LoadCall
  <2>2. CASE Leave \/ Type \/ OpenDialog \/ CancelDialog \/ UNCHANGED vars
    BY <2>2 DEF Leave, Type, OpenDialog, CancelDialog, vars, wires
  <2>3. CASE Send
    BY <1>1, <2>3 DEF Send, Ask, OpCall
  <2>4. ASSUME NEW kind \in Action, RunAction(kind) PROVE Confirmed
    <3>1. asked' = asked \cup {OpCall(kind, NoText)} /\ OpCall(kind, NoText).kind = kind /\ OpCall(kind, NoText).peer = peer
      BY <2>4 DEF RunAction, Ask, OpCall
    <3>2. kind = "punish" => confirmPunish
      BY <2>4 DEF RunAction, Offered
    <3> QED
      BY <1>1, <3>1, <3>2 DEF DialogOfPeer
  <2>5. ASSUME NEW c \in asked, RunCall(c) \/ TimeOut(c) PROVE Confirmed
    BY <1>1, <2>5, RunAnswers
  <2>6. ASSUME NEW i \in 1..Len(inbox), Hear(i) PROVE Confirmed
    BY <1>1, <2>6 DEF Hear, LoadAnswered, SendAnswered, ActionAnswered, EventHeard, RequestLoad, LoadCall
  <2> QED
    BY <1>1, <2>1, <2>2, <2>3, <2>4, <2>5, <2>6 DEF Next, Member, Runs, Hears
<1>2. PageInv /\ [Next]_vars => PageInv'
  BY PageStep
<1>3. Init => PageInv
  BY PageInit
<1>4. PageInv /\ [Next]_vars => [Confirmed]_vars
  BY <1>1
<1> QED
  BY <1>2, <1>3, <1>4, PTL DEF Spec, PunishesConfirmed
\* The thread that is shown does not go back in time within a visit, though
\* loads run and are answered in any order, fail, and overtake each other.
THEOREM NeverOlderHolds == Spec => NeverOlder
<1> DEFINE Newer == shown # NoThread /\ shown' # NoThread /\ loadSeq' = loadSeq => shown'.version >= shown.version
<1>1. Init => PageInv /\ NewsInv
  BY PageInit, NewsInit
<1>2. PageInv /\ NewsInv /\ [Next]_vars => PageInv' /\ NewsInv'
  BY PageStep, NewsStep
<1>3. ASSUME PageInv, NewsInv, [Next]_vars PROVE Newer
  <2>1. CASE shown' = shown
    <3>1. shown # NoThread => shown.version \in Nat
      BY <1>3 DEF NewsInv, NoneAhead, ViewRec
    <3> QED
      BY <2>1, <3>1
  <2>2. CASE shown' # shown
    <3>1. CASE \E p \in Peers : SwitchPeer(p)
      BY <3>1 DEF SwitchPeer
    <3>2. ASSUME NEW i \in 1..Len(inbox), Hear(i) PROVE Newer
      <4>1. i \in HeardNewest /\ inbox[i].call.seq = loadSeq /\ shown' = inbox[i].view
        BY <1>3, <2>2, <3>2, ShownFrom
      <4>2. inbox[i].view \in ViewRec \cup {NoThread}
        BY <1>3, <4>1, RepliesTyped DEF PageInv, ViewInv, HeardNewest
      <4>3. shown # NoThread /\ shown' # NoThread => shown.version <= shown'.version
        BY <1>3, <4>1 DEF NewsInv, NewestIsNewer
      <4> QED
        BY <1>3, <4>1, <4>2, <4>3 DEF NewsInv, NoneAhead, ViewRec
    <3> QED
      BY <1>3, <2>2, <3>1, <3>2 DEF Next, Member, Leave, Type, Send, OpenDialog, CancelDialog, RunAction, Runs, RunCall,
         TimeOut, Hears, vars
  <2> QED
    BY <2>1, <2>2
<1>4. PageInv /\ NewsInv /\ [Next]_vars => [Newer]_vars
  BY <1>3
<1> QED
  BY <1>1, <1>2, <1>4, PTL DEF Spec, NeverOlder

\* As long as the page stays mounted, a draft is lost only once its text is
\* stored: not by a failure, not by a timeout, and not by the answer to what
\* was sent on another visit.  A new mount, and only that, forgets the others.
THEOREM DraftsKeptOnMount ==
  Spec => [][(Keyed => loadSeq' = loadSeq) =>
               \A p \in Peers : drafts[p] # NoText /\ drafts'[p] = NoText => drafts[p] \in stored]_vars
<1> DEFINE Kept == \A p \in Peers : drafts[p] # NoText /\ drafts'[p] = NoText => drafts[p] \in stored
<1>1. Init => PageInv /\ SendsOfDraft
  BY PageInit, DraftInit
<1>2. PageInv /\ SendsOfDraft /\ [Next]_vars => PageInv' /\ SendsOfDraft'
  BY PageStep, DraftStep
<1>3. ASSUME PageInv, SendsOfDraft, [Next]_vars, Keyed => loadSeq' = loadSeq PROVE Kept
  <2>1. CASE drafts' = drafts
    BY <2>1
  <2>2. CASE drafts' # drafts
    <3>1. CASE \E p \in Peers : SwitchPeer(p)
      <4>1. loadSeq' = loadSeq + 1 /\ loadSeq \in Nat
        BY <1>3, <3>1 DEF SwitchPeer, PageInv, ViewInv, TypeInv
      <4> QED
        BY <1>3, <2>2, <3>1, <4>1 DEF SwitchPeer
    <3>2. CASE Type
      <4>1. drafts' = [drafts EXCEPT ![peer] = texts + 1] /\ texts + 1 # NoText /\ drafts \in [Peers -> Nat]
        BY <1>3, <3>2 DEF Type, PageInv, ViewInv, TypeInv, NoText
      <4> QED
        BY <4>1
    <3>3. ASSUME NEW i \in 1..Len(inbox), Hear(i) PROVE Kept
      <4>1. draft \in stored /\ drafts' = [drafts EXCEPT ![peer] = NoText]
        BY <1>3, <2>2, <3>3, DraftFrom
      <4>2. draft = drafts[peer] /\ drafts \in [Peers -> Nat]
        BY <1>3 DEF PageInv, ViewInv, TypeInv, ViewIsOfPeer
      <4> QED
        BY <4>1, <4>2
    <3> QED
      BY <1>3, <2>2, <3>1, <3>2, <3>3 DEF Next, Member, Leave, Send, OpenDialog, CancelDialog, RunAction, Runs, RunCall,
         TimeOut, Hears, vars, composer
  <2> QED
    BY <2>1, <2>2
<1>4. PageInv /\ SendsOfDraft /\ [Next]_vars => [(Keyed => loadSeq' = loadSeq) => Kept]_vars
  BY <1>3
<1> QED
  BY <1>1, <1>2, <1>4, PTL DEF Spec

\* On a page that changes conversations under one mount, no draft of any of
\* them is lost before its text is stored.
THEOREM DraftsKeptHolds == ~Keyed => (Spec => DraftsKept)
<1> SUFFICES ASSUME ~Keyed PROVE Spec => DraftsKept
  OBVIOUS
<1> DEFINE Kept == \A p \in Peers : drafts[p] # NoText /\ drafts'[p] = NoText => drafts[p] \in stored
<1>1. [(Keyed => loadSeq' = loadSeq) => Kept]_vars => [Kept]_vars
  OBVIOUS
<1> QED
  BY <1>1, DraftsKeptOnMount, PTL DEF DraftsKept
=============================================================================
