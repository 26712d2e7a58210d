----------------------------- MODULE SessionProofs -----------------------------
(***************************************************************************)
(* What the two generation counters of the session and of its client buy,  *)
(* proved for any number of starts, waves and timeouts.                    *)
(***************************************************************************)
EXTENDS Session, TLAPS

\* A generation in use.  A session that was stopped has none, but for the waves
\* that a join which ended after that asks for.
Past(kind, g) ==
  /\ g <= generation
  /\ ~running => g < generation \/ (kind = "waves" /\ joinedLate)

\* Everything under way is of a start that took place, or asks for the waves
\* after a join that ended since.
NothingFromTheFuture ==
  /\ \A i \in 1..Len(toClient) : toClient[i].kind \in Call => Past(toClient[i].kind, toClient[i].generation)
  /\ \A i \in 1..Len(toPage) : toPage[i].kind \in Call => Past(toPage[i].kind, toPage[i].generation)
  /\ \A r \in connecting : Past("connect", r.start)
  /\ awaiting # "none" => running

\* A connect that was not superseded is where the connection is, and there is
\* one at most: the phase a waking connect continues from is the phase it left.
ConnectsAgree ==
  /\ \A r \in connecting : r.generation <= connectionGeneration
  /\ \A r \in connecting : r.generation = connectionGeneration => conn = r.reached
  /\ \A r, s \in connecting : r.generation = s.generation => r = s

SessionInv == TypeOK /\ NothingFromTheFuture /\ ConnectsAgree

-----------------------------------------------------------------------------
(* Queues.                                                                 *)

LEMMA AppendedElements ==
  ASSUME NEW S, NEW q \in Seq(S), NEW e \in S
  PROVE  /\ Append(q, e) \in Seq(S)
         /\ \A i \in 1..Len(Append(q, e)) :
              Append(q, e)[i] = e \/ (i \in 1..Len(q) /\ Append(q, e)[i] = q[i])
  OBVIOUS

LEMMA TailElements ==
  ASSUME NEW S, NEW q \in Seq(S), q # <<>>
  PROVE  /\ Tail(q) \in Seq(S) /\ Head(q) \in S
         /\ Head(q) = q[1] /\ 1 \in 1..Len(q)
         /\ \A i \in 1..Len(Tail(q)) : Tail(q)[i] = q[i + 1] /\ i + 1 \in 1..Len(q)
  OBVIOUS

\* Good queues: every element is typed and of a start that took place.
GoodRequest(x) == x \in RequestSet /\ (x.kind \in Call => Past(x.kind, x.generation))
GoodMessage(x) == x \in Message /\ (x.kind \in Call => Past(x.kind, x.generation))
GoodToClient(q) == q \in Seq(RequestSet) /\ \A i \in 1..Len(q) : q[i].kind \in Call => Past(q[i].kind, q[i].generation)
GoodToPage(q) == q \in Seq(Message) /\ \A i \in 1..Len(q) : q[i].kind \in Call => Past(q[i].kind, q[i].generation)

LEMMA RequestAdded ==
  ASSUME NEW q, GoodToClient(q), NEW x, GoodRequest(x)
  PROVE  GoodToClient(Append(q, x))
  BY AppendedElements DEF GoodToClient, GoodRequest

LEMMA MessageAdded ==
  ASSUME NEW q, GoodToPage(q), NEW x, GoodMessage(x)
  PROVE  GoodToPage(Append(q, x))
  BY AppendedElements DEF GoodToPage, GoodMessage

LEMMA RequestTaken ==
  ASSUME NEW q, GoodToClient(q), q # <<>>
  PROVE  GoodToClient(Tail(q)) /\ GoodRequest(Head(q))
  BY TailElements DEF GoodToClient, GoodRequest

LEMMA MessageTaken ==
  ASSUME NEW q, GoodToPage(q), q # <<>>
  PROVE  GoodToPage(Tail(q)) /\ GoodMessage(Head(q))
  BY TailElements DEF GoodToPage, GoodMessage

\* The messages the client sends are good ones.
LEMMA EventsAreGood ==
  ASSUME TypeOK
  PROVE  /\ \A phase \in Phase : GoodMessage(ConnEvent(phase))
         /\ GoodMessage(WaveEvent)
  BY DEF TypeOK, GoodMessage, ConnEvent, WaveEvent, Message, Call, Phase

LEMMA RepliesAreGood ==
  ASSUME TypeOK, NEW g \in Nat
  PROVE  /\ \A kind \in {"status", "connect"}, phase \in Phase \cup {"error"} :
              Past(kind, g) => GoodMessage(Reply(kind, g, phase))
         /\ Past("waves", g) => GoodMessage(WavesReply(g, waves))
  BY DEF TypeOK, GoodMessage, Reply, WavesReply, Message, Call, Phase

LEMMA QueuesAreGood ==
  ASSUME SessionInv
  PROVE  GoodToClient(toClient) /\ GoodToPage(toPage)
  BY DEF SessionInv, TypeOK, NothingFromTheFuture, GoodToClient, GoodToPage

\* The step keeps the queues if it leaves the generation alone.
LEMMA QueuesKept ==
  ASSUME UNCHANGED <<generation, running, joinedLate>>,
         GoodToClient(toClient'), GoodToPage(toPage')
  PROVE  /\ toClient' \in Seq(RequestSet) /\ toPage' \in Seq(Message)
         /\ (\A i \in 1..Len(toClient) : toClient[i].kind \in Call => Past(toClient[i].kind, toClient[i].generation))'
         /\ (\A i \in 1..Len(toPage) : toPage[i].kind \in Call => Past(toPage[i].kind, toPage[i].generation))'
  BY DEF GoodToClient, GoodToPage, Past

LEMMA SessionInitInv ==
  ASSUME Init
  PROVE  SessionInv
<1>1. TypeOK
  <2>1. 0 \in 0..MaxStarts /\ 0 \in 0..MaxJoins /\ 0 \in 0..MaxChanges /\ 0 \in 0..MaxTimeouts
    BY SessionAssumption
  <2>2. <<>> \in Seq(RequestSet) /\ <<>> \in Seq(Message)
    OBVIOUS
  <2>3. connecting \subseteq [start : Nat, generation : Nat, reached : {"bootstrapping", "publishing"}]
    BY DEF Init
  <2>4. toClient \in Seq(RequestSet) /\ toPage \in Seq(Message)
    BY <2>2 DEF Init
  <2>5. /\ conn \in Phase /\ snap \in Phase /\ awaiting \in {"none", "status", "connect"}
        /\ hears \in BOOLEAN /\ bridge \in {"none", "fresh", "subscribed"} /\ running \in BOOLEAN /\ joined \in BOOLEAN
    BY DEF Init, Phase
  <2>6. /\ connectionGeneration \in Nat /\ waves \in 0..1 /\ generation \in Nat /\ unread \in 0..1
        /\ starts \in 0..MaxStarts /\ changes \in 0..MaxChanges /\ timeouts \in 0..MaxTimeouts
        /\ joining \in 0..joins /\ joins \in 0..MaxJoins
    BY <2>1 DEF Init
  <2>7. joinedLate \in BOOLEAN
    BY DEF Init
  <2> QED
    BY <2>3, <2>4, <2>5, <2>6, <2>7 DEF TypeOK
<1>2. NothingFromTheFuture /\ ConnectsAgree
  BY DEF Init, NothingFromTheFuture, ConnectsAgree
<1> QED
  BY <1>1, <1>2 DEF SessionInv

\* Past, in the next state, of what is in this one.
PastNext(kind, g) ==
  /\ g <= generation'
  /\ ~running' => g < generation' \/ (kind = "waves" /\ joinedLate')

\* What stays past: all, when the session starts or stops, or a join ends.
Later ==
  \/ generation' = generation + 1
  \/ UNCHANGED <<generation, running>> /\ (~running => joinedLate')

LEMMA PastKept ==
  ASSUME SessionInv, Later, NEW kind, NEW g \in Nat, Past(kind, g)
  PROVE  PastNext(kind, g)
<1>1. generation \in Nat
  BY DEF SessionInv, TypeOK
<1>2. CASE generation' = generation + 1
  BY <1>1, <1>2 DEF Past, PastNext
<1>3. CASE UNCHANGED <<generation, running>> /\ (~running => joinedLate')
  BY <1>3 DEF Past, PastNext
<1> QED
  BY <1>2, <1>3 DEF Later

\* Queues filled before that stay good.
LEMMA OlderRequests ==
  ASSUME SessionInv, Later
  PROVE  /\ \A i \in 1..Len(toClient) : toClient[i].kind \in Call => PastNext(toClient[i].kind, toClient[i].generation)
         /\ \A i \in 1..Len(toPage) : toPage[i].kind \in Call => PastNext(toPage[i].kind, toPage[i].generation)
         /\ \A r \in connecting : PastNext("connect", r.start)
<1>1. \A i \in 1..Len(toClient) : toClient[i].generation \in Nat
  <2>1. \A i \in 1..Len(toClient) : toClient[i] \in RequestSet
    BY DEF SessionInv, TypeOK
  <2> QED
    BY <2>1 DEF RequestSet
<1>2. \A i \in 1..Len(toPage) : toPage[i].generation \in Nat
  <2>1. \A i \in 1..Len(toPage) : toPage[i] \in Message
    BY DEF SessionInv, TypeOK
  <2> QED
    BY <2>1 DEF Message
<1>3. \A r \in connecting : r.start \in Nat
  BY DEF SessionInv, TypeOK
<1>4. \A kind, g : g \in Nat /\ Past(kind, g) => PastNext(kind, g)
  BY PastKept
<1> QED
  BY <1>1, <1>2, <1>3, <1>4 DEF SessionInv, NothingFromTheFuture

-----------------------------------------------------------------------------
(* The steps.                                                              *)

\* Starting.
LEMMA StartStep ==
  ASSUME SessionInv, Start
  PROVE  SessionInv'
<1>1. /\ generation' = generation + 1 /\ running' = TRUE /\ awaiting' = "status"
      /\ UNCHANGED <<client, toPage>> /\ Later
  BY DEF Start, Later
<1>2. TypeOK
  BY DEF SessionInv
<1>3. toClient' = (toClient \o Subscription) \o <<Request("status", generation + 1)>>
      /\ Subscription \in Seq(RequestSet)
      /\ \A i \in 1..Len(Subscription) : Subscription[i].kind \notin Call
  <2>1. CASE bridge = "subscribed"
    BY <2>1 DEF Start, Subscription
  <2>2. CASE bridge # "subscribed"
    <3> DEFINE x == Request("subscribe", 0)
    <3>1. x \in RequestSet /\ x.kind \notin Call
      BY DEF Request, RequestSet, Call
    <3> HIDE DEF x
    <3>2. Subscription = <<x>>
      BY <2>2 DEF Subscription, x
    <3>3. toClient' = (toClient \o Subscription) \o <<Request("status", generation + 1)>>
      BY DEF Start
    <3> QED
      BY <3>1, <3>2, <3>3
  <2> QED
    BY <2>1, <2>2
<1>4. /\ toClient' \in Seq(RequestSet)
      /\ \A i \in 1..Len(toClient') : toClient'[i].kind \in Call => PastNext(toClient'[i].kind, toClient'[i].generation)
  <2> DEFINE x == Request("status", generation + 1)
             q == toClient \o Subscription
  <2>1. x \in RequestSet /\ PastNext(x.kind, x.generation)
    BY <1>1, <1>2 DEF x, Request, RequestSet, Call, TypeOK, PastNext
  <2>2. /\ q \in Seq(RequestSet)
        /\ \A i \in 1..Len(q) : \/ i \in 1..Len(toClient) /\ q[i] = toClient[i]
                                \/ q[i].kind \notin Call
    BY <1>2, <1>3 DEF TypeOK
  <2>3. \A i \in 1..Len(q) : q[i].kind \in Call => PastNext(q[i].kind, q[i].generation)
    BY <1>1, <2>2, OlderRequests
  <2> HIDE DEF x, q
  <2>4. toClient' = Append(q, x)
    BY <1>3, <2>1, <2>2 DEF q, x
  <2> QED
    BY <2>1, <2>2, <2>3, <2>4, AppendedElements
<1>5. NothingFromTheFuture'
  BY <1>1, <1>4, OlderRequests DEF NothingFromTheFuture, Past, PastNext, client
<1>6. ConnectsAgree'
  BY <1>1 DEF SessionInv, ConnectsAgree, client
<1>7. TypeOK'
  <2>1. /\ UNCHANGED <<conn, connectionGeneration, connecting, hears, waves, toPage, snap, joined, unread,
                      timeouts, changes, joining, joins>>
        /\ running' \in BOOLEAN /\ joinedLate' \in BOOLEAN /\ awaiting' \in {"none", "status", "connect"}
    BY DEF Start, client
  <2>2. starts' \in 0..MaxStarts /\ generation' \in Nat
    BY <1>2, SessionAssumption DEF Start, TypeOK
  <2>3. bridge' \in {"none", "fresh", "subscribed"}
    BY DEF Start
  <2> QED
    BY <1>2, <1>4, <2>1, <2>2, <2>3 DEF TypeOK
<1> QED
  BY <1>5, <1>6, <1>7 DEF SessionInv

\* Stopping.
LEMMA StopStep ==
  ASSUME SessionInv, Stop
  PROVE  SessionInv'
<1>1. /\ generation' = generation + 1 /\ running' = FALSE /\ awaiting' = "none"
      /\ UNCHANGED <<client, toPage, snap, joined, unread, bridge, starts, timeouts, changes, arrival>>
      /\ toClient' = Append(toClient, Request("disconnect", 0)) /\ Later
  BY DEF Stop, Later
<1>2. TypeOK
  BY DEF SessionInv
<1>3. /\ toClient' \in Seq(RequestSet)
      /\ \A i \in 1..Len(toClient') : toClient'[i].kind \in Call => PastNext(toClient'[i].kind, toClient'[i].generation)
  <2> DEFINE x == Request("disconnect", 0)
  <2>1. x \in RequestSet /\ x.kind \notin Call
    BY DEF Request, RequestSet, Call
  <2> HIDE DEF x
  <2>2. toClient' = Append(toClient, x) /\ toClient \in Seq(RequestSet)
    BY <1>1, <1>2 DEF x, TypeOK
  <2> QED
    BY <1>1, <2>1, <2>2, AppendedElements, OlderRequests
<1>4. NothingFromTheFuture'
  BY <1>1, <1>3, OlderRequests DEF NothingFromTheFuture, Past, PastNext, client
<1>5. ConnectsAgree'
  BY <1>1 DEF SessionInv, ConnectsAgree, client
<1>6. TypeOK'
  <2>1. toClient' \in Seq(RequestSet) /\ generation' \in Nat
    BY <1>1, <1>2, <1>3 DEF TypeOK
  <2>2. UNCHANGED <<conn, connectionGeneration, connecting, hears, waves, toPage, snap, joined,
                    unread, bridge, starts, timeouts, changes, joining, joins, joinedLate>>
    BY <1>1 DEF client, arrival
  <2> QED
    BY <1>1, <1>2, <2>1, <2>2 DEF TypeOK
<1> QED
  BY <1>4, <1>5, <1>6 DEF SessionInv

\* What a step of the page may do to the rest while the generation stays.
LEMMA PageStep ==
  ASSUME SessionInv, UNCHANGED <<client, running, generation, starts, changes, joins, joinedLate>>,
         GoodToClient(toClient'), GoodToPage(toPage'),
         snap' \in Phase, joined' \in BOOLEAN, unread' \in 0..1, bridge' \in {"none", "fresh", "subscribed"},
         awaiting' \in {"none", "status", "connect"}, awaiting' # "none" => running,
         timeouts' \in 0..MaxTimeouts, joining' \in 0..joins
  PROVE  SessionInv'
<1>1. TypeOK /\ NothingFromTheFuture /\ ConnectsAgree
  BY DEF SessionInv
<1>2. UNCHANGED <<conn, connectionGeneration, connecting, hears, waves>>
  BY DEF client
<1>3. TypeOK'
  BY <1>1, <1>2, QueuesKept DEF TypeOK
<1>4. NothingFromTheFuture'
  BY <1>1, <1>2, QueuesKept DEF NothingFromTheFuture, Past
<1>5. ConnectsAgree'
  BY <1>1, <1>2 DEF ConnectsAgree
<1> QED
  BY <1>3, <1>4, <1>5 DEF SessionInv

\* A request of the current generation is good while the session runs.
LEMMA AskIsGood ==
  ASSUME SessionInv, running, NEW kind \in Call
  PROVE  GoodRequest(Request(kind, generation))
  BY DEF SessionInv, TypeOK, GoodRequest, Request, RequestSet, Call, Past

\* A join begins, or comes to nothing.
LEMMA JoinStep ==
  ASSUME SessionInv, Join
  PROVE  SessionInv'
<1>1. TypeOK /\ NothingFromTheFuture /\ ConnectsAgree
  BY DEF SessionInv
<1>2. UNCHANGED <<conn, connectionGeneration, connecting, hears, waves, toClient, toPage, running, generation, snap,
                  joined, unread, bridge, awaiting, starts, timeouts, changes, joinedLate>>
  BY DEF Join, client
<1>3. joining' \in 0..joins' /\ joins' \in 0..MaxJoins
  BY <1>1, SessionAssumption DEF Join, TypeOK
<1>4. TypeOK'
  BY <1>1, <1>2, <1>3 DEF TypeOK
<1>5. NothingFromTheFuture' /\ ConnectsAgree'
  BY <1>1, <1>2 DEF NothingFromTheFuture, ConnectsAgree, Past
<1> QED
  BY <1>4, <1>5 DEF SessionInv

LEMMA JoinFailsStep ==
  ASSUME SessionInv, JoinFails
  PROVE  SessionInv'
<1>1. joining' \in 0..joins
  BY SessionAssumption DEF JoinFails, SessionInv, TypeOK
<1>2. GoodToClient(toClient') /\ GoodToPage(toPage')
  BY QueuesAreGood DEF JoinFails
<1> QED
  BY <1>1, <1>2, PageStep DEF JoinFails, SessionInv, TypeOK, NothingFromTheFuture

\* A join ends well, while the session runs or after it was stopped.
LEMMA MarkJoinedStep ==
  ASSUME SessionInv, MarkJoined
  PROVE  SessionInv'
<1> DEFINE x == Request("waves", generation)
<1>1. TypeOK /\ NothingFromTheFuture /\ ConnectsAgree
  BY DEF SessionInv
<1>2. /\ UNCHANGED <<conn, connectionGeneration, connecting, hears, waves, toPage, running, generation, snap,
                     unread, bridge, awaiting, starts, joins, timeouts, changes>>
      /\ toClient' = Append(toClient, x)
      /\ joined' \in BOOLEAN /\ joinedLate' \in BOOLEAN /\ (~running => joinedLate')
  BY DEF MarkJoined, client
<1>3. joining' \in 0..joins
  BY <1>1, SessionAssumption DEF MarkJoined, TypeOK
<1>4. x \in RequestSet /\ PastNext(x.kind, x.generation)
  BY <1>1, <1>2 DEF x, Request, RequestSet, Call, TypeOK, PastNext
<1>5. Later
  BY <1>2 DEF Later
<1> HIDE DEF x
<1>6. /\ toClient' \in Seq(RequestSet)
      /\ \A i \in 1..Len(toClient') : toClient'[i].kind \in Call => PastNext(toClient'[i].kind, toClient'[i].generation)
  BY <1>1, <1>2, <1>4, <1>5, AppendedElements, OlderRequests DEF TypeOK
<1>7. NothingFromTheFuture'
  BY <1>1, <1>2, <1>5, <1>6, OlderRequests DEF NothingFromTheFuture, Past, PastNext
<1>8. ConnectsAgree'
  BY <1>1, <1>2 DEF ConnectsAgree
<1>9. TypeOK'
  BY <1>1, <1>2, <1>3, <1>6 DEF TypeOK
<1> QED
  BY <1>7, <1>8, <1>9 DEF SessionInv

LEMMA TimeOutStep ==
  ASSUME SessionInv, TimeOut
  PROVE  SessionInv'
<1>1. GoodToClient(toClient') /\ GoodToPage(toPage')
  BY QueuesAreGood DEF TimeOut
<1>2. timeouts' \in 0..MaxTimeouts
  BY SessionAssumption DEF TimeOut, SessionInv, TypeOK
<1>3. snap' \in Phase
  BY DEF TimeOut, Phase
<1> QED
  BY <1>1, <1>2, <1>3, PageStep DEF TimeOut, arrival, SessionInv, TypeOK

LEMMA HearReplyStep ==
  ASSUME SessionInv, HearReply
  PROVE  SessionInv'
<1> DEFINE m == Head(toPage)
<1>1. /\ UNCHANGED <<client, running, generation, joined, bridge, starts, timeouts, changes, arrival>>
      /\ toPage # <<>> /\ toPage' = Tail(toPage)
  BY DEF HearReply
<1>2. GoodToPage(toPage') /\ GoodMessage(m)
  BY <1>1, QueuesAreGood, MessageTaken
<1>3. m.phase \in Phase \cup {"error"} /\ m.count \in 0..1 /\ m.kind \in Call
  BY <1>2 DEF GoodMessage, Message, HearReply
<1>4. CASE ~Mine(m)
  BY <1>1, <1>2, <1>4, QueuesAreGood, PageStep DEF HearReply, arrival, SessionInv, TypeOK, NothingFromTheFuture
<1>5. CASE Mine(m)
  <2>1. running \/ m.kind = "waves"
    BY <1>2, <1>3, <1>5 DEF Mine, GoodMessage, Past, SessionInv, TypeOK, NothingFromTheFuture
  <2>2. Continue(m)
    BY <1>5 DEF HearReply
  <2> HIDE DEF m
  <2>3. GoodToClient(toClient')
    <3>1. CASE running
      BY <1>1, <2>2, <3>1, AskIsGood, QueuesAreGood, RequestAdded DEF Continue, Call
    <3>2. CASE m.kind = "waves"
      BY <2>2, <3>2, QueuesAreGood DEF Continue
    <3> QED
      BY <2>1, <3>1, <3>2
  <2>4. snap' \in Phase /\ unread' \in 0..1 /\ awaiting' \in {"none", "status", "connect"}
    BY <1>3, <2>2 DEF Continue, Shown, SessionInv, TypeOK, Phase, Call
  <2>5. awaiting' # "none" => running
    <3>1. CASE running
      BY <3>1
    <3>2. CASE m.kind = "waves"
      BY <2>2, <3>2 DEF Continue, SessionInv, NothingFromTheFuture
    <3> QED
      BY <2>1, <3>1, <3>2
  <2> QED
    BY <1>1, <1>2, <2>3, <2>4, <2>5, PageStep DEF arrival, SessionInv, TypeOK
<1> QED
  BY <1>4, <1>5

LEMMA HearWaveStep ==
  ASSUME SessionInv, HearWave
  PROVE  SessionInv'
<1>1. GoodToPage(toPage')
  BY QueuesAreGood, MessageTaken DEF HearWave
<1>2. GoodToClient(toClient')
  BY AskIsGood, QueuesAreGood, RequestAdded DEF HearWave, page, Call
<1> QED
  BY <1>1, <1>2, PageStep DEF HearWave, page, arrival, SessionInv, TypeOK, NothingFromTheFuture

LEMMA HearConnectionStep ==
  ASSUME SessionInv, HearConnection
  PROVE  SessionInv'
<1>1. GoodToPage(toPage') /\ GoodToClient(toClient')
  BY QueuesAreGood, MessageTaken DEF HearConnection
<1>2. Head(toPage).phase \in Phase
  BY QueuesAreGood, MessageTaken DEF HearConnection, GoodMessage, Message
<1> QED
  BY <1>1, <1>2, PageStep DEF HearConnection, arrival, SessionInv, TypeOK, NothingFromTheFuture

\* What a step of the client may do to the rest.
LEMMA ClientStep ==
  ASSUME SessionInv, UNCHANGED <<page>>,
         GoodToClient(toClient'), GoodToPage(toPage'),
         conn' \in Phase, connectionGeneration' \in Nat, hears' \in BOOLEAN, waves' \in 0..1,
         changes' \in 0..MaxChanges,
         connecting' \subseteq [start : Nat, generation : Nat, reached : {"bootstrapping", "publishing"}],
         \A r \in connecting' : Past("connect", r.start),
         ConnectsAgree'
  PROVE  SessionInv'
<1>1. TypeOK /\ NothingFromTheFuture
  BY DEF SessionInv
<1>2. UNCHANGED <<running, generation, snap, joined, unread, bridge, awaiting, starts, timeouts,
                  joining, joins, joinedLate>>
  BY DEF page, arrival
<1>3. TypeOK'
  BY <1>1, <1>2, QueuesKept DEF TypeOK
<1>4. NothingFromTheFuture'
  BY <1>1, <1>2, QueuesKept DEF NothingFromTheFuture, Past
<1> QED
  BY <1>3, <1>4 DEF SessionInv

\* The request at the head of the queue.
LEMMA HeadRequest ==
  ASSUME SessionInv, NEW kind, Asked(kind), toClient' = Tail(toClient)
  PROVE  /\ GoodToClient(toClient')
         /\ kind \in Call => Past(kind, Head(toClient).generation)
         /\ Head(toClient).generation \in Nat
  BY QueuesAreGood, RequestTaken DEF Asked, GoodRequest, RequestSet

\* Events keep the queue good.
LEMMA EmitIsGood ==
  ASSUME SessionInv, NEW q, GoodToPage(q), NEW x, GoodMessage(x)
  PROVE  GoodToPage(Emit(q, x))
  BY MessageAdded DEF Emit

\* Steps of the client that leave the connection alone.
LEMMA AnswerStep ==
  ASSUME SessionInv,
         Subscribe \/ Status \/ IncomingWaves \/ (\E kind \in {"status", "connect"} : Refuse(kind)) \/ WavesChange
  PROVE  SessionInv'
<1>0. TypeOK /\ GoodToPage(toPage) /\ GoodToClient(toClient)
  BY QueuesAreGood DEF SessionInv
<1>1. UNCHANGED <<page, conn, connectionGeneration, connecting>>
  BY DEF Subscribe, Status, IncomingWaves, Refuse, WavesChange, client
<1>2. hears' \in BOOLEAN /\ waves' \in 0..1 /\ changes' \in 0..MaxChanges
  <2>0. hears \in BOOLEAN /\ waves \in 0..1 /\ changes \in 0..MaxChanges
    BY <1>0 DEF TypeOK
  <2>1. hears' = hears \/ hears' = TRUE
    BY DEF Subscribe, Status, IncomingWaves, Refuse, WavesChange, client
  <2>2. waves' = waves \/ waves' \in 0..1
    BY DEF Subscribe, Status, IncomingWaves, Refuse, WavesChange, client
  <2>3. changes' = changes \/ (changes' = changes + 1 /\ changes < MaxChanges)
    BY DEF Subscribe, Status, IncomingWaves, Refuse, WavesChange, client
  <2>4. hears' \in BOOLEAN
    BY <2>0, <2>1
  <2>5. changes' \in 0..MaxChanges
    BY <2>0, <2>3, SessionAssumption
  <2> QED
    BY <2>0, <2>2, <2>4, <2>5
<1>3. GoodToClient(toClient')
  BY <1>0, HeadRequest DEF Subscribe, Status, IncomingWaves, Refuse, WavesChange
<1>4. GoodToPage(toPage')
  <2>1. CASE Subscribe
    BY <1>0, <2>1 DEF Subscribe
  <2>2. CASE Status
    BY <1>0, <2>2, HeadRequest, RepliesAreGood, MessageAdded DEF Status, Answer, TypeOK, Call
  <2>3. CASE IncomingWaves
    BY <1>0, <2>3, HeadRequest, RepliesAreGood, MessageAdded DEF IncomingWaves, Answer, Call
  <2>4. ASSUME NEW kind \in {"status", "connect"}, Refuse(kind) PROVE GoodToPage(toPage')
    BY <1>0, <2>4, HeadRequest, RepliesAreGood, MessageAdded DEF Refuse, Answer, Call
  <2>5. CASE WavesChange
    BY <1>0, <2>5, EventsAreGood, EmitIsGood DEF WavesChange
  <2> QED
    BY <2>1, <2>2, <2>3, <2>4, <2>5
<1>5. ConnectsAgree'
  BY <1>1 DEF SessionInv, ConnectsAgree
<1> QED
  BY <1>0, <1>1, <1>2, <1>3, <1>4, <1>5, ClientStep DEF SessionInv, TypeOK, NothingFromTheFuture

LEMMA ConnectBeginsStep ==
  ASSUME SessionInv, ConnectBegins
  PROVE  SessionInv'
<1>0. TypeOK /\ ConnectsAgree /\ GoodToPage(toPage)
  BY QueuesAreGood DEF SessionInv
<1>1. GoodToClient(toClient') /\ Past("connect", Head(toClient).generation) /\ Head(toClient).generation \in Nat
  BY HeadRequest DEF ConnectBegins, Call
<1>2. GoodToPage(toPage')
  BY <1>0, EventsAreGood, EmitIsGood DEF ConnectBegins, Phase
<1> DEFINE r == [start |-> Head(toClient).generation, generation |-> connectionGeneration + 1,
                 reached |-> "bootstrapping"]
<1>3. /\ r \in [start : Nat, generation : Nat, reached : {"bootstrapping", "publishing"}]
      /\ Past("connect", r.start) /\ r.generation = connectionGeneration + 1 /\ r.reached = "bootstrapping"
  BY <1>0, <1>1 DEF TypeOK
<1>4. connecting' = connecting \cup {r}
  BY DEF ConnectBegins
<1> HIDE DEF r
<1>5. \A s \in connecting : s.generation \in Nat
  BY <1>0 DEF TypeOK
<1>6. ConnectsAgree'
  BY <1>0, <1>3, <1>4, <1>5 DEF ConnectBegins, ConnectsAgree, TypeOK
<1>7. UNCHANGED <<page, hears, waves, changes>> /\ conn' \in Phase /\ connectionGeneration' \in Nat
  BY <1>0 DEF ConnectBegins, TypeOK, Phase
<1> QED
  BY <1>0, <1>1, <1>2, <1>3, <1>4, <1>6, <1>7, ClientStep DEF SessionInv, TypeOK, NothingFromTheFuture

LEMMA ConnectingStep ==
  ASSUME SessionInv, NEW r \in connecting, Connecting(r)
  PROVE  SessionInv'
<1>0. TypeOK /\ ConnectsAgree /\ GoodToPage(toPage) /\ GoodToClient(toClient)
  BY QueuesAreGood DEF SessionInv
<1>1. r \in [start : Nat, generation : Nat, reached : {"bootstrapping", "publishing"}] /\ Past("connect", r.start)
  BY <1>0 DEF TypeOK, SessionInv, NothingFromTheFuture
<1>2. UNCHANGED <<page, connectionGeneration, hears, waves, toClient, changes>>
  BY DEF Connecting, ConnectPublishes, ConnectEnds, ConnectSuperseded
<1>3. GoodToPage(toPage') /\ conn' \in Phase
  <2>1. CASE ConnectPublishes(r)
    BY <1>0, <2>1, EventsAreGood, EmitIsGood DEF ConnectPublishes, Phase
  <2>2. ASSUME NEW phase \in {"ready", "failed"}, ConnectEnds(r, phase) PROVE GoodToPage(toPage') /\ conn' \in Phase
    <3>1. GoodToPage(Emit(toPage, ConnEvent(phase)))
      BY <1>0, EventsAreGood, EmitIsGood DEF Phase
    <3> QED
      BY <1>0, <1>1, <2>2, <3>1, RepliesAreGood, MessageAdded DEF ConnectEnds, Phase
  <2>3. CASE ConnectSuperseded(r)
    BY <1>0, <1>1, <2>3, RepliesAreGood, MessageAdded DEF ConnectSuperseded, Answer, TypeOK
  <2> QED
    BY <2>1, <2>2, <2>3 DEF Connecting
<1>4. \/ connecting' = connecting \ {r} /\ (conn' = conn \/ r.generation = connectionGeneration)
      \/ /\ connecting' = (connecting \ {r}) \cup {[r EXCEPT !.reached = "publishing"]}
         /\ r.generation = connectionGeneration /\ conn' = "publishing"
  BY DEF Connecting, ConnectPublishes, ConnectEnds, ConnectSuperseded, Current
<1>5. CASE connecting' = connecting \ {r} /\ (conn' = conn \/ r.generation = connectionGeneration)
  <2>1. ConnectsAgree'
    BY <1>0, <1>2, <1>5 DEF ConnectsAgree
  <2> QED
    BY <1>0, <1>2, <1>3, <1>5, <2>1, ClientStep DEF SessionInv, TypeOK, NothingFromTheFuture
<1>6. CASE /\ connecting' = (connecting \ {r}) \cup {[r EXCEPT !.reached = "publishing"]}
           /\ r.generation = connectionGeneration /\ conn' = "publishing"
  <2> DEFINE s == [r EXCEPT !.reached = "publishing"]
  <2>1. /\ s \in [start : Nat, generation : Nat, reached : {"bootstrapping", "publishing"}]
        /\ s.start = r.start /\ s.generation = r.generation /\ s.reached = "publishing"
    BY <1>1
  <2>2. connecting' = (connecting \ {r}) \cup {s}
    BY <1>6
  <2> HIDE DEF s
  <2>3. ConnectsAgree'
    BY <1>0, <1>2, <1>6, <2>1, <2>2 DEF ConnectsAgree
  <2> QED
    BY <1>0, <1>1, <1>2, <1>3, <2>1, <2>2, <2>3, ClientStep DEF SessionInv, TypeOK, NothingFromTheFuture
<1> QED
  BY <1>4, <1>5, <1>6

LEMMA DisconnectStep ==
  ASSUME SessionInv, Disconnect
  PROVE  SessionInv'
<1>0. TypeOK /\ ConnectsAgree /\ GoodToPage(toPage)
  BY QueuesAreGood DEF SessionInv
<1>1. GoodToClient(toClient')
  BY HeadRequest DEF Disconnect
<1>2. GoodToPage(toPage')
  BY <1>0, EventsAreGood, EmitIsGood DEF Disconnect, Phase
<1>3. ConnectsAgree'
  BY <1>0 DEF Disconnect, ConnectsAgree, TypeOK
<1>4. UNCHANGED <<page, connecting, waves, changes>> /\ hears' \in BOOLEAN
  BY DEF Disconnect
<1>5. conn' \in Phase /\ connectionGeneration' \in Nat
  BY <1>0 DEF Disconnect, TypeOK, Phase
<1> QED
  BY <1>0, <1>1, <1>2, <1>3, <1>4, <1>5, ClientStep DEF SessionInv, TypeOK, NothingFromTheFuture

LEMMA SessionStep ==
  ASSUME SessionInv, [Next]_vars
  PROVE  SessionInv'
<1>1. CASE UNCHANGED vars
  BY <1>1 DEF vars, client, page, arrival, SessionInv, TypeOK, NothingFromTheFuture, ConnectsAgree, Past
<1> QED
  BY <1>1, StartStep, StopStep, JoinStep, JoinFailsStep, MarkJoinedStep, TimeOutStep, HearReplyStep, HearWaveStep,
     HearConnectionStep, AnswerStep, ConnectBeginsStep, ConnectingStep, DisconnectStep
  DEF Next, PageHears, ClientRuns

-----------------------------------------------------------------------------
(* Results.                                                                *)

\* Every variable keeps its type.
THEOREM SessionTypeCorrect == Spec => []TypeOK
<1>1. Init => SessionInv
  BY SessionInitInv
<1>2. SessionInv /\ [Next]_vars => SessionInv'
  BY SessionStep
<1>3. SessionInv => TypeOK
  BY DEF SessionInv
<1> QED
  BY <1>1, <1>2, <1>3, PTL DEF Spec

\* The connection goes through its phases in order: what an earlier connect
\* finds when it wakes up undoes neither a disconnect nor a newer connect.
THEOREM PhasesAreInOrder == Spec => PhasesInOrder
<1> DEFINE Order == conn' # conn => <<conn, conn'>> \in
              {<<"bootstrapping", "publishing">>, <<"publishing", "ready">>, <<"publishing", "failed">>}
              \cup (Phase \X {"starting", "bootstrapping"})
<1>1. Init => SessionInv
  BY SessionInitInv
<1>2. SessionInv /\ [Next]_vars => SessionInv'
  BY SessionStep
<1>3. SessionInv /\ [Next]_vars => [Order]_vars
  <2> SUFFICES ASSUME SessionInv, Next PROVE Order
    OBVIOUS
  <2>1. conn \in Phase /\ \A r \in connecting : r.generation = connectionGeneration => conn = r.reached
    BY DEF SessionInv, TypeOK, ConnectsAgree
  <2>2. ASSUME NEW r \in connecting, Connecting(r) PROVE Order
    BY <2>1, <2>2 DEF Connecting, ConnectPublishes, ConnectEnds, ConnectSuperseded, Current
  <2>3. CASE conn' \in {conn, "starting", "bootstrapping"}
    BY <2>1, <2>3
  <2> QED
    BY <2>2, <2>3 DEF Next, Start, Stop, Join, JoinFails, MarkJoined, TimeOut, PageHears, HearReply, HearWave,
       HearConnection, ClientRuns, Subscribe, Status, IncomingWaves, Refuse, ConnectBegins,
       Disconnect, WavesChange, client
<1> QED
  BY <1>1, <1>2, <1>3, PTL DEF Spec, PhasesInOrder

\* Once torn down the session shows no phase that still comes in, and a number
\* of waves only where a join ended after the session was stopped.
THEOREM StoppedSessionIsQuiet == Spec => StoppedIsQuiet
<1> DEFINE Quiet == ~running /\ ~running' => snap' = snap /\ (unread' # unread => joinedLate)
<1>1. Init => SessionInv
  BY SessionInitInv
<1>2. SessionInv /\ [Next]_vars => SessionInv'
  BY SessionStep
<1>3. SessionInv /\ [Next]_vars => [Quiet]_vars
  <2> SUFFICES ASSUME SessionInv, Next, ~running, ~running'
               PROVE  snap' = snap /\ (unread' # unread => joinedLate)
    OBVIOUS
  <2>1. CASE HearReply
    <3> DEFINE m == Head(toPage)
    <3>1. GoodMessage(m) /\ m.kind \in Call
      BY <2>1, QueuesAreGood, MessageTaken DEF HearReply
    <3>2. CASE ~Mine(m)
      BY <2>1, <3>2 DEF HearReply
    <3>3. CASE Mine(m)
      <4>1. m.kind = "waves" /\ joinedLate
        BY <3>1, <3>3 DEF Mine, GoodMessage, Past, SessionInv, TypeOK, NothingFromTheFuture
      <4>2. Continue(m)
        BY <2>1, <3>3 DEF HearReply
      <4> HIDE DEF m
      <4> QED
        BY <4>1, <4>2 DEF Continue
    <3> QED
      BY <3>2, <3>3
  <2>2. CASE TimeOut
    BY <2>2 DEF TimeOut, SessionInv, NothingFromTheFuture
  <2>3. CASE UNCHANGED page
    BY <2>3 DEF page
  <2> QED
    BY <2>1, <2>2, <2>3 DEF Next, Start, Stop, Join, JoinFails, MarkJoined, PageHears, HearWave,
       HearConnection, ClientRuns, Subscribe, Status, IncomingWaves, Refuse, ConnectBegins, Connecting,
       ConnectPublishes, ConnectEnds, ConnectSuperseded, Disconnect, WavesChange
<1> QED
  BY <1>1, <1>2, <1>3, PTL DEF Spec, StoppedIsQuiet
=============================================================================
