------------------------------- MODULE Admission -------------------------------
(***************************************************************************)
(* How a member gets in: joining, signing in, the gates of the lobby, the  *)
(* profile that has to be published, the admission that follows, and the   *)
(* handle with its changes, in the development adapter; with the pages     *)
(* that ask for them, the shell that decides which page is mounted, and    *)
(* the port between page and adapter.                                      *)
(*                                                                         *)
(* The adapter decides on admission in four places and only the pages keep *)
(* some of the calls in order: it publishes a profile for whoever asks.    *)
(* Calls wait for 150 ms in the adapter or for a passkey on their way to   *)
(* it, pages are left while their calls are under way, most pages go on    *)
(* all the same, and the page learns of every change by events.            *)
(*                                                                         *)
(* What comes back over the port comes in order; calls that need no        *)
(* passkey go in order too.  Vouchers, profiles and names that may be      *)
(* wrong are a free choice between accepting and refusing.  The            *)
(* connection is up throughout (module Session).  What the settings and    *)
(* the board offer before they are asked is left out: the adapter checks   *)
(* again.                                                                  *)
(***************************************************************************)
EXTENDS Naturals, Sequences, SequencesExt

CONSTANTS
  Handles,      \* handles a member types
  Taken,        \* handles of the seed members
  BoardHandle,  \* handle in the community of the board
  NoHandle,     \* the empty handle of who has not joined
  Nothing,      \* no call, or nothing shown
  Gates,        \* gateState the adapter may be started with
  Policies,     \* handlePolicy the adapter may be started with
  Boards,       \* boardState it may be started with, "none" outside the root community
  Slots,        \* bound: calls under way at a time
  MaxUnheard,   \* bound: messages unheard when handles are dealt with
  Overlapping   \* bound: calls beside which another one is asked for

ASSUME AdmissionAssumption ==
  /\ Taken \subseteq Handles
  /\ Gates \subseteq {"complete", "action-needed", "waiting"}
  /\ Policies \subseteq {"settling-in", "locked", "token", "required", "placeholder"}
  /\ Boards \subseteq {"none", "unavailable", "eligible", "active"}
  /\ MaxUnheard \in Nat

VARIABLES
  joined,      \* adapter: a member is on this device
  lobby,       \* adapter: what lobbyState() tells
  released,    \* adapter: handles a change gave up
  policy,      \* adapter: policyState
  board,       \* adapter: boardState, "none" outside the root community
  pageJoined,  \* session: snapshot.joined
  shown,       \* session: snapshot.lobby
  route,       \* route of the location's hash
  local,       \* the state a mounted lobby shows
  load,        \* the mounted lobby waits for its first state
  calls,       \* calls under way
  sent,        \* their way to the adapter
  timers,      \* calls that wait 150 ms, in their order
  inbox        \* replies and events on their way to the page

adapter == <<joined, lobby, released, policy, board>>
page == <<pageJoined, shown, route, local, load>>
vars == <<adapter, page, calls, sent, timers, inbox>>

Routes == {"arrival", "lobby", "profile", "settings", "board", "forum"}
LobbyStates == [handle : Handles \cup {BoardHandle, NoHandle}, change : BOOLEAN, published : BOOLEAN,
                gate : {"complete", "action-needed", "waiting"}, admitted : BOOLEAN]

Ops == {"join", "signIn", "gate", "prepare", "publish", "board"}
Passkey == {"join", "signIn"}
Delayed == {"join", "signIn", "publish"}

\* A call is awaited by the page mounted now, by one that is left, or, after
\* the bridge gave it up, by nobody.
Calls == [op : Ops, handle : Handles, at : {"sent", "timer", "done"}, by : {"view", "left", "nobody"}]
Messages == [kind : {"lobby", "load", "stale"}, lobby : LobbyStates \cup {Nothing}]
            \cup [kind : {"reply"}, slot : Slots, ok : BOOLEAN, lobby : LobbyStates \cup {Nothing}]

ASSUME NothingAssumption == Nothing \notin LobbyStates /\ Nothing \notin Calls

Init ==
  /\ joined = FALSE /\ released = {}
  /\ policy \in Policies
  /\ \E gate \in Gates :
       lobby = [handle |-> NoHandle, change |-> policy = "required", published |-> FALSE,
                gate |-> gate, admitted |-> FALSE]
  /\ board \in Boards
  /\ pageJoined = FALSE /\ shown = Nothing /\ route = "arrival"
  /\ local = Nothing /\ load = FALSE
  /\ calls = [s \in Slots |-> Nothing]
  /\ sent = <<>> /\ timers = <<>> /\ inbox = <<>>

-----------------------------------------------------------------------------
(* The shell: which page is mounted.                                       *)

\* Mutant of OpenRoutes: the profile is open to who has not joined.
OpenRoutesProfile == {"arrival", "settings", "board", "profile"}

OpenRoutes == {"arrival", "settings", "board"}

NeedsArrival(known, r) == ~known /\ r \notin OpenRoutes
NeedsLobby(known, l, r) == known /\ r = "forum" /\ ~(l # Nothing /\ l.admitted)

\* The page and, but for arrival that is forced, the route it was made for.
Mounted(known, l, r) ==
  IF NeedsArrival(known, r) THEN <<"arrival", "any">>
  ELSE IF NeedsLobby(known, l, r) THEN <<"lobby", r>> ELSE <<r, r>>

View == Mounted(pageJoined, shown, route)[1]

\* Nobody looks at the state that a lobby asked for which is gone.
Stale(queue) ==
  [i \in DOMAIN queue |-> IF queue[i].kind = "load" THEN [kind |-> "stale", lobby |-> Nothing] ELSE queue[i]]

\* The page after a step: a new one starts empty, and a lobby asks for its state.
Shows(known, l, r, kept, loading, under, queue) ==
  LET now == Mounted(known, l, r)
      fresh == now # Mounted(pageJoined, shown, route)
  IN /\ pageJoined' = known /\ shown' = l /\ route' = r
     /\ local' = IF fresh THEN Nothing ELSE kept
     /\ load' = IF fresh THEN now[1] = "lobby" ELSE loading
     /\ calls' = IF fresh
                   THEN [s \in Slots |-> IF under[s] # Nothing /\ under[s].by = "view"
                                           THEN [under[s] EXCEPT !.by = "left"] ELSE under[s]]
                   ELSE under
     /\ inbox' = IF fresh THEN Stale(queue) ELSE queue

Navigate(r) ==
  /\ r # route
  /\ Shows(pageJoined, shown, r, local, load, calls, inbox)
  /\ UNCHANGED <<adapter, sent, timers>>

Send(s, op, h) ==
  /\ calls' = [calls EXCEPT ![s] = [op |-> op, handle |-> h, at |-> "sent", by |-> "view"]]
  /\ sent' = Append(sent, s)

\* What the mounted page lets its user ask for.
Offered(op) ==
  \/ op \in {"join", "signIn"} /\ View = "arrival"
  \/ op = "gate" /\ View = "lobby" /\ local # Nothing /\ local.gate = "action-needed"
  \/ op = "prepare" /\ View = "profile"
  \/ op = "board" /\ View = "board"

\* Any free slot will do; h counts for joining.
Ask(op, h) ==
  /\ \E s \in Slots : calls[s] = Nothing
  /\ \A s \in Slots : calls[s] # Nothing => calls[s].by # "view" /\ calls[s].op \in Overlapping
  /\ op = "join" \/ h = CHOOSE any \in Handles : TRUE
  /\ Offered(op)
  /\ Send(CHOOSE s \in Slots : calls[s] = Nothing, op, h)
  /\ UNCHANGED <<adapter, page, timers, inbox>>

-----------------------------------------------------------------------------
(* The adapter.                                                            *)

Told(l) == [kind |-> "lobby", lobby |-> l]
Reply(s, ok, l) == [kind |-> "reply", slot |-> s, ok |-> ok, lobby |-> l]

\* What the state of the adapter makes it refuse.
Refused(op) ==
  \/ op = "gate" /\ (~joined \/ lobby.gate # "action-needed")
  \/ op = "board" /\ board \in {"none", "unavailable"}

\* A call reaches the adapter when no other that needs no passkey is before it.
Arrives(s) ==
  /\ calls[s] # Nothing /\ calls[s].at = "sent"
  /\ \E i \in DOMAIN sent :
       /\ sent[i] = s
       /\ calls[s].op \in Passkey \/ \A k \in 1..(i - 1) : calls[sent[k]].op \in Passkey
       /\ sent' = RemoveAt(sent, i)

Done(s) == calls' = [calls EXCEPT ![s].at = "done"]
Settles(s, ok) == Done(s) /\ inbox' = Append(inbox, Reply(s, ok, Nothing))
\* The change is told to every subscriber, then to the caller.  Of the replies
\* only that of the gate is looked at.
Tells(s, l) ==
  /\ Done(s) /\ lobby' = l
  /\ inbox' = inbox \o <<Told(l), Reply(s, TRUE, IF calls[s].op = "gate" THEN l ELSE Nothing)>>

\* A wrong input, a passkey denied, or a state in which the call cannot be.
Refuse(s) ==
  /\ Arrives(s)
  /\ calls[s].op = "board" => Refused("board")
  /\ Settles(s, FALSE)
  /\ UNCHANGED <<adapter, page, timers>>

Accepted(s, op) ==
  /\ Arrives(s) /\ calls[s].op = op
  /\ ~Refused(op)

Wait(s) ==
  /\ \E op \in Delayed : Accepted(s, op)
  /\ calls' = [calls EXCEPT ![s].at = "timer"]
  /\ timers' = Append(timers, s)
  /\ UNCHANGED <<adapter, page, inbox>>

\* Joining, the first time or again.
Joins(s) ==
  /\ calls[s].op = "join"
  /\ joined' = TRUE
  /\ Tells(s, [lobby EXCEPT !.handle = calls[s].handle, !.admitted = FALSE])
  /\ UNCHANGED <<released, policy, board>>

SignsIn(s) ==
  /\ calls[s].op = "signIn"
  /\ Settles(s, joined)
  /\ UNCHANGED adapter

\* Mutant of Publishes: a new profile has to be admitted anew.
PublishesPending(s) ==
  /\ calls[s].op = "publish"
  /\ Tells(s, [lobby EXCEPT !.published = TRUE, !.admitted = FALSE])
  /\ UNCHANGED <<joined, released, policy, board>>

Publishes(s) ==
  /\ calls[s].op = "publish"
  /\ Tells(s, [lobby EXCEPT !.published = TRUE, !.admitted = lobby.gate = "complete"])
  /\ UNCHANGED <<joined, released, policy, board>>

\* The delay of the oldest waiting call is over.
TimerFires ==
  /\ timers # <<>> /\ timers' = Tail(timers)
  /\ LET s == Head(timers) IN
     /\ calls[s] # Nothing /\ calls[s].at = "timer"
     /\ Joins(s) \/ SignsIn(s) \/ Publishes(s)
  /\ UNCHANGED <<page, sent>>

CompleteGate(s) ==
  /\ Accepted(s, "gate")
  /\ Tells(s, [lobby EXCEPT !.gate = "complete", !.admitted = lobby.published])
  /\ UNCHANGED <<joined, released, policy, board, page, timers>>

\* validateProfile and saveRules, which change nothing here.
Prepare(s) ==
  /\ Accepted(s, "prepare")
  /\ Settles(s, TRUE)
  /\ UNCHANGED <<adapter, page, timers>>

EnterRootBoard(s) ==
  /\ Accepted(s, "board")
  /\ joined' = TRUE /\ board' = "active"
  /\ Tells(s, [lobby EXCEPT !.handle = BoardHandle])
  /\ UNCHANGED <<released, policy, page, timers>>

CanChange == lobby.change \/ policy \in {"settling-in", "token"}
Changed(h) ==
  /\ joined /\ CanChange /\ h \notin released \cup Taken \cup {lobby.handle}
  /\ released' = released \cup {lobby.handle}
  /\ policy' = IF lobby.change \/ policy = "token" THEN "locked" ELSE policy
  /\ lobby' = [lobby EXCEPT !.handle = h, !.change = FALSE]
  /\ UNCHANGED <<joined, board, page, calls, sent, timers>>

\* The settings have a handle changed.
ChangeHandle(h) == Changed(h) /\ inbox' = Append(inbox, Told(lobby'))

\* An admin has the member of this device change the handle.
RequireHandleChange ==
  /\ joined
  /\ lobby' = [lobby EXCEPT !.change = TRUE]
  /\ inbox' = Append(inbox, Told(lobby'))
  /\ UNCHANGED <<joined, released, policy, board, page, calls, sent, timers>>

LoadUnheard == \E i \in DOMAIN inbox : inbox[i].kind \in {"load", "stale"}

\* lobby(), asked for by a lobby that is mounted; bound: one answer at a
\* time.  It is never refused, for a lobby is mounted only for who has joined.
AnswerLoad ==
  /\ load /\ joined /\ ~LoadUnheard
  /\ load' = FALSE
  /\ inbox' = Append(inbox, [kind |-> "load", lobby |-> lobby])
  /\ UNCHANGED <<adapter, pageJoined, shown, route, local, calls, sent, timers>>

-----------------------------------------------------------------------------
(* What the page does with what comes back.                                *)

First == inbox # <<>>
Message == Head(inbox)

\* Mutant of HearLobby: only the page that is mounted listens.
HearLobbyLocal ==
  /\ First /\ Message.kind = "lobby"
  /\ Shows(pageJoined, IF View = "lobby" THEN Message.lobby ELSE shown, route,
           IF View = "lobby" THEN Message.lobby ELSE local, load, calls, Tail(inbox))
  /\ UNCHANGED <<adapter, sent, timers>>

\* The session and a mounted lobby both take the state that is told.
HearLobby ==
  /\ First /\ Message.kind = "lobby"
  /\ Shows(pageJoined, Message.lobby, route,
           IF View = "lobby" THEN Message.lobby ELSE local, load, calls, Tail(inbox))
  /\ UNCHANGED <<adapter, sent, timers>>

HearLoad ==
  /\ First /\ Message.kind = "load"
  /\ Shows(pageJoined, shown, route, Message.lobby, load, calls, Tail(inbox))
  /\ UNCHANGED <<adapter, sent, timers>>

HearStale ==
  /\ First /\ Message.kind = "stale"
  /\ inbox' = Tail(inbox)
  /\ UNCHANGED <<adapter, page, calls, sent, timers>>

Settled(s) == [calls EXCEPT ![s] = Nothing]

\* markJoined() and the way to the lobby: arrival goes on when it was left, the
\* board does not.
Enters(s) ==
  /\ Message.ok
  /\ \/ calls[s].op \in {"join", "signIn"} /\ calls[s].by # "nobody"
     \/ calls[s].op = "board" /\ calls[s].by = "view"

HearReply(s) ==
  /\ First /\ Message.kind = "reply" /\ Message.slot = s /\ calls[s] # Nothing
  /\ \/ /\ Enters(s)
        /\ Shows(TRUE, shown, "lobby", local, load, Settled(s), Tail(inbox))
        /\ UNCHANGED sent
     \/ /\ Message.ok /\ calls[s].op = "prepare" /\ calls[s].by # "nobody"
        /\ calls' = [calls EXCEPT ![s].op = "publish", ![s].at = "sent"]
        /\ sent' = Append(sent, s) /\ inbox' = Tail(inbox)
        /\ UNCHANGED page
     \/ /\ ~Enters(s) /\ ~(Message.ok /\ calls[s].op = "prepare" /\ calls[s].by # "nobody")
        /\ LET mine == Message.ok /\ calls[s].by = "view" IN
           Shows(pageJoined, shown, route,
                 IF mine /\ calls[s].op = "gate" THEN Message.lobby ELSE local, load, Settled(s), Tail(inbox))
        /\ UNCHANGED sent
  /\ UNCHANGED <<adapter, timers>>

\* The bridge gives a call up, which only one that waits for a passkey can take
\* long enough for: its page hears an error, its reply is dropped.
Expire(s) ==
  /\ calls[s] # Nothing /\ calls[s].op \in Passkey /\ calls[s].by # "nobody"
  /\ calls' = [calls EXCEPT ![s].by = "nobody"]
  /\ UNCHANGED <<adapter, page, sent, timers, inbox>>

-----------------------------------------------------------------------------
Adapter ==
  \/ \E s \in Slots : \/ Refuse(s) \/ Wait(s) \/ CompleteGate(s) \/ Prepare(s) \/ EnterRootBoard(s)
  \/ TimerFires \/ AnswerLoad
Others == Len(inbox) < MaxUnheard /\ (RequireHandleChange \/ \E h \in Handles : ChangeHandle(h))
Hear == HearLobby \/ HearLoad \/ HearStale \/ \E s \in Slots : HearReply(s)
User ==
  \/ \E r \in Routes : Navigate(r)
  \/ \E op \in Ops, h \in Handles : Ask(op, h)
Next == Adapter \/ Others \/ Hear \/ User \/ \E s \in Slots : Expire(s)

Spec == Init /\ [][Next]_vars

-----------------------------------------------------------------------------
TypeOK ==
  /\ joined \in BOOLEAN /\ lobby \in LobbyStates /\ released \subseteq Handles \cup {BoardHandle, NoHandle}
  /\ policy \in Policies \cup {"locked"} /\ board \in {"none", "unavailable", "eligible", "active"}
  /\ pageJoined \in BOOLEAN /\ shown \in LobbyStates \cup {Nothing} /\ route \in Routes
  /\ local \in LobbyStates \cup {Nothing} /\ load \in BOOLEAN
  /\ calls \in [Slots -> Calls \cup {Nothing}]
  /\ sent \in Seq(Slots) /\ timers \in Seq(Slots) /\ inbox \in Seq(Messages)

\* Who is admitted has joined, passed the gate and published a profile.  The
\* adapter publishes for anybody: it is the shell, which knows of the joining
\* from a reply, that keeps the profile of a stranger from it.
AdmittedIsComplete ==
  lobby.admitted => joined /\ lobby.published /\ lobby.gate = "complete"

\* Admission is taken away by joining again and by nothing else.
AdmissionEndsByJoining ==
  [][lobby.admitted /\ ~lobby'.admitted =>
       \E s \in Slots : /\ calls[s] # Nothing /\ calls[s].op = "join" /\ calls[s].at = "timer"
                        /\ calls'[s].at = "done"]_vars

\* Once nothing is left to be heard, the session and a lobby that has loaded
\* show the state as the adapter has it.
Quiet == \A i \in DOMAIN inbox : inbox[i].kind # "lobby"
ShownIsCurrent ==
  Quiet => /\ shown # Nothing => shown = lobby
           /\ joined => shown # Nothing
           /\ View = "lobby" /\ local # Nothing => local = lobby
=============================================================================
