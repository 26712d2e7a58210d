------------------------------- MODULE ChatView -------------------------------
(***************************************************************************)
(* The conversation page (apps/web/src/views/Chat.svelte) over a client    *)
(* whose calls are asynchronous: the calls it made run in any order, and   *)
(* while one is under way the member goes to another conversation, types,  *)
(* or asks for something else.                                             *)
(*                                                                         *)
(* A visit (one run of the page's effect) has a generation, loadSeq; each  *)
(* load has a number, latestReq.  App.svelte mounts a new page for each    *)
(* conversation (Keyed); the page, and its tests, also change peers under  *)
(* one mount.  A new mount counts anew, and what is under way for the old  *)
(* one is for nobody: counting on is the same.                             *)
(*                                                                         *)
(* Calls and events come back through an inbox.  Over the port of the      *)
(* vault bridge they arrive in the order in which they were sent (InOrder);*)
(* the client interface alone promises no order.  A thread is its state    *)
(* and a version that each change raises; a text is a number; what is      *)
(* displayed in words is left out.                                         *)
(***************************************************************************)
EXTENDS Naturals, Sequences, SequencesExt

CONSTANTS
  Peers,
  Keyed,       \* the page is mounted anew for each conversation, as App.svelte does
  InOrder,     \* replies and events arrive in the order they were sent
  MaxVisits,   \* bound: runs of the effect
  MaxOps,      \* bound: messages sent and actions asked for
  MaxTexts,    \* bound: texts typed
  MaxTimeouts  \* bound: calls that time out

NoThread == [peer |-> "none"]
NoText == 0

VARIABLES
  thread,     \* the client's conversations: [Peers -> [version, state]]
  stored,     \* texts the client stored as messages
  asked,      \* calls made and not yet run
  inbox,      \* replies and events under way to the page
  mounted, peer, loadSeq, latestReq,
  shown,      \* thread in the code: what the page shows
  draft, drafts, sendBusy, actionBusy, confirmPunish,
  dialogPeer, \* auxiliary: whom the confirmation dialog was opened for
  ops, texts, timeouts  \* counters of what was asked for, typed, and timed out

client == <<thread, stored, timeouts>>
wires == <<asked, inbox>>
composer == <<draft, drafts, texts>>
dialog == <<confirmPunish, dialogPeer>>
vars == <<client, wires, mounted, peer, loadSeq, latestReq, shown, composer,
          sendBusy, actionBusy, dialog, ops>>

ThreadState == {"active", "closed", "blocked", "reopen-pending"}
Action == {"close", "block", "punish", "reopen"}
busy == sendBusy \/ actionBusy

LoadCall(p, s, n) == [kind |-> "load", peer |-> p, seq |-> s, n |-> n, text |-> NoText, over |-> FALSE]
OpCall(kind, text) == [kind |-> kind, peer |-> peer, seq |-> loadSeq, n |-> ops + 1, text |-> text, over |-> FALSE]

Init ==
  /\ thread = [p \in Peers |-> [version |-> 0, state |-> "active"]]
  /\ stored = {}
  /\ mounted = TRUE
  /\ peer \in Peers
  /\ loadSeq = 1
  /\ latestReq = 1
  /\ asked = {LoadCall(peer, 1, 1)}
  /\ inbox = <<>>
  /\ shown = NoThread
  /\ draft = NoText
  /\ drafts = [p \in Peers |-> NoText]
  /\ sendBusy = FALSE /\ actionBusy = FALSE
  /\ confirmPunish = FALSE
  /\ dialogPeer = peer
  /\ ops = 0
  /\ texts = 0
  /\ timeouts = 0

-----------------------------------------------------------------------------
(* The member.                                                             *)

\* Mutant of SwitchPeer: the effect leaves the dialog open.
SwitchPeerKeepsDialog(p) ==
  /\ mounted /\ p # peer /\ loadSeq < MaxVisits
  /\ peer' = p
  /\ loadSeq' = loadSeq + 1
  /\ shown' = NoThread
  /\ draft' = drafts[p]
  /\ sendBusy' = FALSE /\ actionBusy' = FALSE
  /\ latestReq' = latestReq + 1
  /\ asked' = asked \cup {LoadCall(p, loadSeq + 1, latestReq + 1)}
  /\ UNCHANGED <<client, inbox, mounted, drafts, texts, dialog, ops>>

\* The effect runs for another peer: everything of the visit starts anew; a
\* new mount has no drafts either.
SwitchPeer(p) ==
  /\ mounted /\ p # peer /\ loadSeq < MaxVisits
  /\ peer' = p
  /\ loadSeq' = loadSeq + 1
  /\ shown' = NoThread
  /\ drafts' = IF Keyed THEN [q \in Peers |-> NoText] ELSE drafts
  /\ draft' = drafts'[p]
  /\ sendBusy' = FALSE /\ actionBusy' = FALSE
  /\ confirmPunish' = FALSE
  /\ latestReq' = latestReq + 1
  /\ asked' = asked \cup {LoadCall(p, loadSeq + 1, latestReq + 1)}
  /\ UNCHANGED <<client, inbox, mounted, texts, dialogPeer, ops>>

\* The page is left: the effect's cleanup.
Leave ==
  /\ mounted
  /\ mounted' = FALSE
  /\ loadSeq' = loadSeq + 1
  /\ UNCHANGED <<client, wires, peer, latestReq, shown, composer, sendBusy, actionBusy, dialog, ops>>

isOpen == shown # NoThread /\ shown.state = "active"

\* onDraftInput: the composer is disabled while it would not count.
Type ==
  /\ mounted /\ isOpen /\ ~busy /\ texts < MaxTexts
  /\ texts' = texts + 1
  /\ draft' = texts + 1
  /\ drafts' = [drafts EXCEPT ![peer] = texts + 1]
  /\ UNCHANGED <<client, wires, mounted, peer, loadSeq, latestReq, shown, sendBusy, actionBusy, dialog, ops>>

Ask(call) ==
  /\ ops < MaxOps
  /\ ops' = ops + 1
  /\ asked' = asked \cup {call}

\* Mutant of Send: the composer is not locked.
SendUnlocked ==
  /\ mounted /\ isOpen /\ ~busy /\ draft # NoText
  /\ Ask(OpCall("send", draft))
  /\ UNCHANGED <<client, inbox, mounted, peer, loadSeq, latestReq, shown, composer, sendBusy, actionBusy, dialog>>

Send ==
  /\ mounted /\ isOpen /\ ~busy /\ draft # NoText
  /\ sendBusy' = TRUE
  /\ Ask(OpCall("send", draft))
  /\ UNCHANGED <<client, inbox, mounted, peer, loadSeq, latestReq, shown, composer, actionBusy, dialog>>

\* Which buttons the page offers.
Offered(kind) ==
  CASE kind = "close"  -> isOpen
    [] kind = "reopen" -> shown # NoThread /\ shown.state = "closed"
    [] kind = "block"  -> shown # NoThread
    [] kind = "punish" -> confirmPunish

RunAction(kind) ==
  /\ mounted /\ ~busy /\ Offered(kind)
  /\ actionBusy' = TRUE
  /\ Ask(OpCall(kind, NoText))
  /\ UNCHANGED <<client, inbox, mounted, peer, loadSeq, latestReq, shown, composer, sendBusy, dialog>>

OpenDialog ==
  /\ mounted /\ ~busy /\ ~confirmPunish
  /\ shown # NoThread /\ shown.state # "blocked"
  /\ confirmPunish' = TRUE
  /\ dialogPeer' = peer
  /\ UNCHANGED <<client, wires, mounted, peer, loadSeq, latestReq, shown, composer, sendBusy, actionBusy, ops>>

CancelDialog ==
  /\ mounted /\ ~busy /\ confirmPunish
  /\ confirmPunish' = FALSE
  /\ UNCHANGED <<client, wires, mounted, peer, loadSeq, latestReq, shown, composer, sendBusy, actionBusy, dialogPeer, ops>>

-----------------------------------------------------------------------------
(* The client.                                                             *)

\* Whether the client does what is asked, given the state of the thread.
Allowed(call) ==
  CASE call.kind = "send"   -> thread[call.peer].state = "active"
    [] call.kind = "reopen" -> thread[call.peer].state = "closed"
    [] OTHER -> TRUE

Becomes(call) ==
  CASE call.kind = "send" -> "active"
    [] call.kind = "close" -> "closed"
    [] call.kind = "reopen" -> "reopen-pending"
    [] OTHER -> "blocked"

View(p) == [peer |-> p, version |-> thread[p].version, state |-> thread[p].state]

ReplyTo(call, ok, view) == [type |-> "reply", call |-> call, ok |-> ok, view |-> view]
Event(type, p) == [type |-> type, peer |-> p]

\* A reply to a call that timed out reaches nobody.
Replies(call, ok, view) == IF call.over THEN <<>> ELSE <<ReplyTo(call, ok, view)>>

\* The client runs one call: its effect and its event come before its reply.
RunCall(call) ==
  /\ asked' = asked \ {call}
  /\ CASE call.kind = "load" ->
            /\ inbox' = inbox \o Replies(call, TRUE, View(call.peer))
            /\ UNCHANGED <<thread, stored>>
       [] call.kind # "load" /\ Allowed(call) ->
            /\ thread' = [thread EXCEPT ![call.peer] =
                 [version |-> @.version + 1, state |-> Becomes(call)]]
            /\ stored' = IF call.kind = "send" THEN stored \cup {call.text} ELSE stored
            /\ inbox' = (inbox \o <<Event(IF call.kind = "send" THEN "message" ELSE "contacts", call.peer)>>)
                        \o Replies(call, TRUE, NoThread)
       [] OTHER ->
            /\ inbox' = inbox \o Replies(call, FALSE, NoThread)
            /\ UNCHANGED <<thread, stored>>
  /\ UNCHANGED <<timeouts, mounted, peer, loadSeq, latestReq, shown, composer, sendBusy, actionBusy, dialog, ops>>

\* The call takes too long.  What it asks for may still be done; a load that
\* nobody waits for does nothing.
TimeOut(call) ==
  /\ ~call.over /\ timeouts < MaxTimeouts
  /\ timeouts' = timeouts + 1
  /\ asked' = (asked \ {call}) \cup
              IF call.kind = "load" THEN {} ELSE {[call EXCEPT !.over = TRUE]}
  /\ inbox' = Append(inbox, ReplyTo(call, FALSE, NoThread))
  /\ UNCHANGED <<thread, stored, mounted, peer, loadSeq, latestReq, shown, composer, sendBusy, actionBusy, dialog, ops>>

-----------------------------------------------------------------------------
(* The page hears of it.                                                   *)

RequestLoad ==
  /\ latestReq' = latestReq + 1
  /\ asked' = asked \cup {LoadCall(peer, loadSeq, latestReq + 1)}

\* Mutant of Latest: a load of this visit is taken however old it is.
LatestOfVisit(call) == call.seq = loadSeq

\* Mutant of Latest: a load is taken wherever it comes from.
LatestOfAnyone(call) == TRUE

\* A load counts if it is of this visit and no later one was asked for.
Latest(call) == call.seq = loadSeq /\ call.n = latestReq

LoadAnswered(m) ==
  /\ m.type = "reply" /\ m.call.kind = "load"
  /\ shown' = IF Latest(m.call) THEN m.view ELSE shown
  /\ UNCHANGED <<asked, latestReq, draft, drafts, sendBusy, actionBusy, confirmPunish>>

\* Mutant of SendAnswered: the draft is cleared whatever the answer is.
SendAnsweredClears(m) ==
  /\ m.type = "reply" /\ m.call.kind = "send"
  /\ IF m.call.seq # loadSeq
     THEN UNCHANGED <<asked, latestReq, draft, drafts, sendBusy>>
     ELSE /\ sendBusy' = FALSE
          /\ RequestLoad
          /\ drafts' = [drafts EXCEPT ![m.call.peer] = NoText]
          /\ draft' = NoText
  /\ UNCHANGED <<shown, actionBusy, confirmPunish>>

SendAnswered(m) ==
  /\ m.type = "reply" /\ m.call.kind = "send"
  /\ CASE m.call.seq # loadSeq -> UNCHANGED <<asked, latestReq, draft, drafts, sendBusy>>
       [] m.call.seq = loadSeq /\ m.ok ->
            /\ drafts' = [drafts EXCEPT ![m.call.peer] = NoText]
            /\ draft' = NoText
            /\ RequestLoad
            /\ sendBusy' = FALSE
       [] OTHER -> sendBusy' = FALSE /\ UNCHANGED <<asked, latestReq, draft, drafts>>
  /\ UNCHANGED <<shown, actionBusy, confirmPunish>>

ActionAnswered(m) ==
  /\ m.type = "reply" /\ m.call.kind \in Action
  /\ CASE m.call.seq # loadSeq -> UNCHANGED <<asked, latestReq, actionBusy, confirmPunish>>
       [] m.call.seq = loadSeq /\ m.ok ->
            /\ confirmPunish' = FALSE
            /\ RequestLoad
            /\ actionBusy' = FALSE
       [] OTHER -> actionBusy' = FALSE /\ UNCHANGED <<asked, latestReq, confirmPunish>>
  /\ UNCHANGED <<shown, draft, drafts, sendBusy>>

\* Mutant of Concerns: events about relations are not listened to.
ConcernsMessages(m) ==
  m.type = "message" /\ shown # NoThread /\ shown.peer = m.peer

\* The subscription of this visit: messages of the shown thread, any contacts.
Concerns(m) ==
  \/ m.type = "contacts"
  \/ m.type = "message" /\ shown # NoThread /\ shown.peer = m.peer

EventHeard(m) ==
  /\ m.type # "reply"
  /\ IF mounted /\ Concerns(m) THEN RequestLoad ELSE UNCHANGED <<asked, latestReq>>
  /\ UNCHANGED <<shown, draft, drafts, sendBusy, actionBusy, confirmPunish>>

Hear(i) ==
  /\ InOrder => i = 1
  /\ inbox' = RemoveAt(inbox, i)
  /\ LET m == inbox[i] IN LoadAnswered(m) \/ SendAnswered(m) \/ ActionAnswered(m) \/ EventHeard(m)
  /\ UNCHANGED <<client, mounted, peer, loadSeq, texts, dialogPeer, ops>>

Member ==
  \/ \E p \in Peers : SwitchPeer(p)
  \/ Leave \/ Type \/ Send \/ OpenDialog \/ CancelDialog
  \/ \E kind \in Action : RunAction(kind)

Runs == \E call \in asked : RunCall(call)
Hears == \E i \in 1..Len(inbox) : Hear(i)

Next ==
  \/ Member
  \/ Runs
  \/ \E call \in asked : TimeOut(call)
  \/ Hears

Spec == Init /\ [][Next]_vars

\* Calls run and what is sent arrives; the member may do nothing more.
FairSpec == Spec /\ WF_vars(Runs) /\ WF_vars(Hears)

-----------------------------------------------------------------------------
(* Properties.                                                             *)

Calls == {c \in asked : ~c.over} \cup {inbox[i].call : i \in {j \in 1..Len(inbox) : inbox[j].type = "reply"}}

\* Late answers never touch the view of another peer: what is shown and what
\* is in the composer are of the peer whose page it is.
ViewIsOfPeer == (shown # NoThread => shown.peer = peer) /\ draft = drafts[peer]

\* The page is locked exactly while a call of this visit is under way: it is
\* neither stuck after the answer, nor open to a second call before it.
LockedWhileBusy ==
  mounted =>
    LET under == {c \in Calls : c.seq = loadSeq /\ c.kind # "load"} IN
    /\ sendBusy <=> \E c \in under : c.kind = "send"
    /\ actionBusy <=> \E c \in under : c.kind # "send"
    /\ \A c, d \in under : c = d

\* Punishing takes a confirmation for that very peer.
PunishesConfirmed ==
  [][\A c \in asked' \ asked : c.kind = "punish" /\ ~c.over => c.peer = dialogPeer]_vars

\* An earlier load never overwrites a later one: within a visit the shown
\* thread does not go back in time.
NeverOlder ==
  [][shown # NoThread /\ shown' # NoThread /\ loadSeq' = loadSeq =>
       shown'.version >= shown.version]_vars

\* A draft is lost only once its text is stored as a message.
DraftsKept ==
  [][\A p \in Peers : drafts[p] # NoText /\ drafts'[p] = NoText => drafts[p] \in stored]_vars

\* When the member stops and what is sent arrives in order, the page ends up
\* showing the conversation as it is, also when calls failed after their
\* effect or changes were asked for on an earlier visit.
ShowsCurrent ==
  <>[](mounted /\ shown # NoThread => shown = View(peer))
=============================================================================
