-------------------------------- MODULE Session --------------------------------
(***************************************************************************)
(* The page's session (apps/web/src/session.svelte.ts) and the network     *)
(* connection of the client it starts (connect and disconnect in           *)
(* core/src/dev-adapter.ts).                                               *)
(*                                                                         *)
(* A start subscribes, asks for the status, then asks for a connection,    *)
(* which reports its phases as events while the call is under way.  In     *)
(* between the member retries, the page is torn down, waves come in.  Both *)
(* sides discard what an earlier generation left behind: the session by    *)
(* generation, the client by connectionGeneration.                         *)
(*                                                                         *)
(* What the page asks for and what comes back are two queues, as over the  *)
(* port of the vault bridge (rpc.ts); a client in the page itself answers  *)
(* at once, which is the same with queues that are never left waiting.     *)
(***************************************************************************)
EXTENDS Naturals, Sequences

CONSTANTS
  MaxStarts,    \* bound: starts of the session
  MaxJoins,     \* bound: joins and sign-ins that the member begins
  MaxChanges,   \* bound: changes of the waves that wait for an answer
  MaxTimeouts   \* bound: calls that time out

ASSUME SessionAssumption ==
  MaxStarts \in Nat /\ MaxJoins \in Nat /\ MaxChanges \in Nat /\ MaxTimeouts \in Nat

VARIABLES
  conn,        \* phase of the client's connection
  connectionGeneration,
  connecting,  \* connects under way: [start, generation, phase reached]
  hears,       \* the client has a handler to send its events to
  waves,       \* pending incoming waves the client holds
  bridge,      \* the vault bridge to the client: none, fresh or subscribed
  toClient,    \* what the page asked for
  toPage,      \* replies and events
  running,     \* the session was started and not stopped since
  generation, snap, joined, unread,
  awaiting,    \* the call the current start awaits
  joining,     \* joins and sign-ins under way, also of a page that is gone
  starts, joins, changes, timeouts,  \* counters
  joinedLate   \* history: a join ended after the session was stopped

client == <<conn, connectionGeneration, connecting, hears, waves>>
arrival == <<joining, joins, joinedLate>>
page == <<running, generation, snap, joined, unread, bridge, awaiting, starts, timeouts, arrival>>
vars == <<client, page, toClient, toPage, changes>>

Phase == {"starting", "bootstrapping", "publishing", "ready", "failed"}

Init ==
  /\ conn = "starting" /\ connectionGeneration = 0 /\ connecting = {}
  /\ hears = FALSE /\ waves = 0 /\ bridge \in {"none", "fresh"}
  /\ toClient = <<>> /\ toPage = <<>>
  /\ running = FALSE /\ generation = 0 /\ snap = "starting"
  /\ joined = FALSE /\ unread = 0
  /\ awaiting = "none" /\ starts = 0 /\ changes = 0 /\ timeouts = 0
  /\ joining = 0 /\ joins = 0 /\ joinedLate = FALSE

Call == {"status", "connect", "waves"}
RequestSet == [kind : Call \cup {"subscribe", "disconnect"}, generation : Nat]
Message ==
  [kind : {"status", "connect"}, generation : Nat, phase : Phase \cup {"error"}, count : {0}]
  \cup [kind : {"waves", "connection", "wave"}, generation : Nat, phase : Phase, count : 0..1]

Request(kind, g) == [kind |-> kind, generation |-> g]
ConnEvent(phase) == [kind |-> "connection", generation |-> 0, phase |-> phase, count |-> 0]
WaveEvent == [kind |-> "wave", generation |-> 0, phase |-> "ready", count |-> 0]
Reply(kind, g, phase) == [kind |-> kind, generation |-> g, phase |-> phase, count |-> 0]
WavesReply(g, n) == [kind |-> "waves", generation |-> g, phase |-> "ready", count |-> n]

\* Events reach the page only through a handler.
Emit(queue, event) == IF hears THEN Append(queue, event) ELSE queue

-----------------------------------------------------------------------------
(* The session.                                                            *)

\* The bridge asks the vault for events once; a local client is asked anew,
\* after the handler of the previous start was taken away.
Subscription == IF bridge = "subscribed" THEN <<>> ELSE <<Request("subscribe", 0)>>

\* Mutant of Start: the generation is read before it is raised.
StartReadsEarly ==
  /\ starts < MaxStarts
  /\ running => snap = "failed"
  /\ starts' = starts + 1
  /\ running' = TRUE
  /\ generation' = generation + 1
  /\ bridge' = IF bridge = "none" THEN "none" ELSE "subscribed"
  /\ awaiting' = "status"
  /\ toClient' = toClient \o Subscription \o <<Request("status", generation)>>
  /\ joinedLate' = FALSE
  /\ UNCHANGED <<client, toPage, snap, joined, unread, timeouts, changes, joining, joins>>

\* start(): the first one, a retry after a failure, or one after stop().
Start ==
  /\ starts < MaxStarts
  /\ running => snap = "failed"
  /\ starts' = starts + 1
  /\ running' = TRUE
  /\ generation' = generation + 1
  /\ bridge' = IF bridge = "none" THEN "none" ELSE "subscribed"
  /\ awaiting' = "status"
  /\ toClient' = toClient \o Subscription \o <<Request("status", generation + 1)>>
  /\ joinedLate' = FALSE
  /\ UNCHANGED <<client, toPage, snap, joined, unread, timeouts, changes, joining, joins>>

\* Mutant of Stop: the generation stays.
StopSameGeneration ==
  /\ running
  /\ running' = FALSE
  /\ toClient' = Append(toClient, Request("disconnect", 0))
  /\ UNCHANGED <<client, toPage, generation, snap, joined, unread, bridge, awaiting, starts, timeouts, changes, arrival>>

\* stop(): the page is torn down; the client disconnects.
Stop ==
  /\ running
  /\ running' = FALSE
  /\ generation' = generation + 1
  /\ awaiting' = "none"
  /\ toClient' = Append(toClient, Request("disconnect", 0))
  /\ UNCHANGED <<client, toPage, snap, joined, unread, bridge, starts, timeouts, changes, arrival>>

\* Arrival: the member joins or signs in.  App.svelte shows the view while the
\* connection is ready; the call, which is in Admission, goes on when the view
\* is taken away and may end at any time.
Join ==
  /\ running /\ snap = "ready" /\ joins < MaxJoins
  /\ joins' = joins + 1
  /\ joining' = joining + 1
  /\ UNCHANGED <<client, toClient, toPage, running, generation, snap, joined, unread, bridge,
                 awaiting, starts, timeouts, changes, joinedLate>>

\* The call is refused, or takes too long.
JoinFails ==
  /\ joining > 0
  /\ joining' = joining - 1
  /\ UNCHANGED <<client, toClient, toPage, running, generation, snap, joined, unread, bridge,
                 awaiting, starts, joins, timeouts, changes, joinedLate>>

\* The call ends well: onjoined() marks the session, whatever became of the page
\* or of the session in the meantime, and asks for the waves.
MarkJoined ==
  /\ joining > 0
  /\ joining' = joining - 1
  /\ joined' = TRUE
  /\ joinedLate' = ~running
  /\ toClient' = Append(toClient, Request("waves", generation))
  /\ UNCHANGED <<client, toPage, running, generation, snap, unread, bridge, awaiting, starts,
                 joins, timeouts, changes>>

\* A call of the bridge that takes too long fails; its reply will be dropped.
TimeOut ==
  /\ bridge # "none" /\ awaiting # "none" /\ timeouts < MaxTimeouts
  /\ timeouts' = timeouts + 1
  /\ awaiting' = "none"
  /\ snap' = "failed"
  /\ UNCHANGED <<client, toClient, toPage, running, generation, joined, unread, bridge, starts, changes, arrival>>

\* The reply is for the current start, and still waited for.
Mine(m) == m.generation = generation /\ (m.kind = "waves" \/ m.kind = awaiting)

\* What a reply makes the page show.
Shown(m) == IF m.phase = "error" THEN "failed" ELSE m.phase

\* What the page does with the reply to connectionStatus, to connect, and to
\* incomingWaves; an error of the first two ends the start.
Continue(m) ==
  CASE m.kind = "status" /\ m.phase # "error" ->
         /\ snap' = m.phase
         /\ awaiting' = "connect"
         /\ toClient' = Append(toClient, Request("connect", generation))
         /\ UNCHANGED unread
    [] m.kind = "connect" /\ m.phase # "error" ->
         /\ snap' = m.phase
         /\ awaiting' = "none"
         /\ toClient' = IF joined THEN Append(toClient, Request("waves", generation)) ELSE toClient
         /\ UNCHANGED unread
    [] m.kind = "waves" ->
         /\ unread' = m.count
         /\ UNCHANGED <<toClient, snap, awaiting>>
    [] OTHER ->
         /\ snap' = Shown(m)
         /\ awaiting' = "none"
         /\ UNCHANGED <<toClient, unread>>

HearReply ==
  /\ toPage # <<>> /\ Head(toPage).kind \in Call
  /\ toPage' = Tail(toPage)
  /\ IF Mine(Head(toPage)) THEN Continue(Head(toPage))
     ELSE UNCHANGED <<toClient, snap, awaiting, unread>>
  /\ UNCHANGED <<client, running, generation, joined, bridge, starts, timeouts, changes, arrival>>

\* onEvent, while the session's handler is attached.
HearWave ==
  /\ toPage # <<>> /\ Head(toPage).kind = "wave"
  /\ toPage' = Tail(toPage)
  /\ toClient' = IF running THEN Append(toClient, Request("waves", generation)) ELSE toClient
  /\ UNCHANGED <<client, page, changes>>

HearConnection ==
  /\ toPage # <<>> /\ Head(toPage).kind = "connection"
  /\ toPage' = Tail(toPage)
  /\ snap' = IF running THEN Head(toPage).phase ELSE snap
  /\ UNCHANGED <<client, toClient, running, generation, joined, unread, bridge,
                 awaiting, starts, timeouts, changes, arrival>>

-----------------------------------------------------------------------------
(* The client.                                                             *)

Asked(kind) == toClient # <<>> /\ Head(toClient).kind = kind
Answer(m) == toPage' = Append(toPage, m)

Subscribe ==
  /\ Asked("subscribe")
  /\ toClient' = Tail(toClient)
  /\ hears' = TRUE
  /\ UNCHANGED <<conn, connectionGeneration, connecting, waves, page, toPage, changes>>

Status ==
  /\ Asked("status")
  /\ toClient' = Tail(toClient)
  /\ Answer(Reply("status", Head(toClient).generation, conn))
  /\ UNCHANGED <<client, page, changes>>

IncomingWaves ==
  /\ Asked("waves")
  /\ toClient' = Tail(toClient)
  /\ Answer(WavesReply(Head(toClient).generation, waves))
  /\ UNCHANGED <<client, page, changes>>

\* The client refuses to tell its status, or to connect.
Refuse(kind) ==
  /\ Asked(kind)
  /\ toClient' = Tail(toClient)
  /\ Answer(Reply(kind, Head(toClient).generation, "error"))
  /\ UNCHANGED <<client, page, changes>>

\* connect() begins, and supersedes a connect under way.
ConnectBegins ==
  /\ Asked("connect")
  /\ toClient' = Tail(toClient)
  /\ connectionGeneration' = connectionGeneration + 1
  /\ conn' = "bootstrapping"
  /\ connecting' = connecting \cup
       {[start |-> Head(toClient).generation, generation |-> connectionGeneration + 1, reached |-> "bootstrapping"]}
  /\ toPage' = Emit(toPage, ConnEvent("bootstrapping"))
  /\ UNCHANGED <<hears, waves, page, changes>>

\* Mutant of Current: a superseded connect goes on.
CurrentAlways(r) == TRUE

Current(r) == r.generation = connectionGeneration

\* The first wait of a connect is over.
ConnectPublishes(r) ==
  /\ r.reached = "bootstrapping" /\ Current(r)
  /\ conn' = "publishing"
  /\ connecting' = (connecting \ {r}) \cup {[r EXCEPT !.reached = "publishing"]}
  /\ toPage' = Emit(toPage, ConnEvent("publishing"))
  /\ UNCHANGED <<connectionGeneration, hears, waves, page, toClient, changes>>

\* Mutant of ConnectEnds: the status is copied before it is changed.
ConnectEndsStale(r, phase) ==
  /\ r.reached = "publishing" /\ Current(r)
  /\ conn' = phase
  /\ connecting' = connecting \ {r}
  /\ toPage' = Append(Emit(toPage, ConnEvent(conn)), Reply("connect", r.start, conn))
  /\ UNCHANGED <<connectionGeneration, hears, waves, page, toClient, changes>>

\* The second wait is over.
ConnectEnds(r, phase) ==
  /\ r.reached = "publishing" /\ Current(r)
  /\ conn' = phase
  /\ connecting' = connecting \ {r}
  /\ toPage' = Append(Emit(toPage, ConnEvent(phase)), Reply("connect", r.start, phase))
  /\ UNCHANGED <<connectionGeneration, hears, waves, page, toClient, changes>>

\* A wait is over and the connect was superseded: it answers with what is.
ConnectSuperseded(r) ==
  /\ ~Current(r)
  /\ connecting' = connecting \ {r}
  /\ Answer(Reply("connect", r.start, conn))
  /\ UNCHANGED <<conn, connectionGeneration, hears, waves, page, toClient, changes>>

\* disconnect(): told to the handlers, which are then dropped.
Disconnect ==
  /\ Asked("disconnect")
  /\ toClient' = Tail(toClient)
  /\ connectionGeneration' = connectionGeneration + 1
  /\ conn' = "starting"
  /\ toPage' = Emit(toPage, ConnEvent("starting"))
  /\ hears' = FALSE
  /\ UNCHANGED <<connecting, waves, page, changes>>

\* Waves come in or are answered.
WavesChange ==
  /\ changes < MaxChanges
  /\ changes' = changes + 1
  /\ waves' \in 0..1 /\ waves' # waves
  /\ toPage' = Emit(toPage, WaveEvent)
  /\ UNCHANGED <<conn, connectionGeneration, connecting, hears, page, toClient>>

ClientRuns ==
  \/ Subscribe \/ Status \/ IncomingWaves
  \/ \E kind \in {"status", "connect"} : Refuse(kind)
  \/ ConnectBegins
  \/ Disconnect

Connecting(r) == ConnectPublishes(r) \/ ConnectSuperseded(r) \/ \E phase \in {"ready", "failed"} : ConnectEnds(r, phase)

PageHears == HearReply \/ HearWave \/ HearConnection

Next ==
  \/ Start \/ Stop \/ TimeOut
  \/ Join \/ JoinFails \/ MarkJoined
  \/ PageHears
  \/ ClientRuns
  \/ \E r \in connecting : Connecting(r)
  \/ WavesChange

Spec == Init /\ [][Next]_vars

\* What is asked for runs, waits end, and what is sent arrives.
FairSpec ==
  /\ Spec
  /\ WF_vars(ClientRuns) /\ WF_vars(PageHears)
  /\ WF_vars(\E r \in connecting : Connecting(r))

-----------------------------------------------------------------------------
(* Properties.                                                             *)

\* Every variable stays in its type.
TypeOK ==
  /\ conn \in Phase /\ connectionGeneration \in Nat
  /\ connecting \subseteq [start : Nat, generation : Nat, reached : {"bootstrapping", "publishing"}]
  /\ toClient \in Seq(RequestSet) /\ toPage \in Seq(Message)
  /\ hears \in BOOLEAN /\ waves \in 0..1 /\ bridge \in {"none", "fresh", "subscribed"}
  /\ running \in BOOLEAN /\ generation \in Nat /\ snap \in Phase
  /\ joined \in BOOLEAN /\ unread \in 0..1
  /\ awaiting \in {"none", "status", "connect"}
  /\ starts \in 0..MaxStarts /\ changes \in 0..MaxChanges /\ timeouts \in 0..MaxTimeouts
  /\ joining \in 0..joins /\ joins \in 0..MaxJoins /\ joinedLate \in BOOLEAN

\* The connection goes through its phases in order: neither a disconnect nor a
\* new connect is undone by what an earlier connect finds when it wakes up.
PhasesInOrder ==
  [][conn' # conn => <<conn, conn'>> \in
       {<<"bootstrapping", "publishing">>, <<"publishing", "ready">>, <<"publishing", "failed">>}
       \cup (Phase \X {"starting", "bootstrapping"})]_vars

\* Once torn down the session shows no phase that still comes in, and no number
\* of waves either, unless a join ended after the session was stopped: markJoined
\* asks for the waves in the name of the generation that stop() began.
StoppedIsQuiet ==
  [][~running /\ ~running' =>
       /\ snap' = snap
       /\ unread' # unread => joinedLate]_vars

\* A start ends: the session does not wait for ever for a call, also when a
\* retry or a disconnect superseded the connect it asked for.
StartsEnd == awaiting # "none" ~> awaiting = "none"

\* When things calm down the session shows the phase the client is in, or a
\* failure that offers a retry, and a member who joined and is connected sees
\* the number of waves that wait.  Over the bridge the waves need that no call
\* timed out (a connection that comes up after its call failed is shown without
\* them) and that no stop took the handler away (the bridge subscribes once).
ShowsClient ==
  <>[](running =>
         /\ snap = conn \/ snap = "failed"
         /\ joined /\ snap = "ready" /\ hears /\ timeouts = 0 => unread = waves)
=============================================================================
