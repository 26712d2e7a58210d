-------------------------- MODULE VaultBridgeProofs --------------------------
(***************************************************************************)
(* The ceremony for any number of requests and of pop-up windows; and the  *)
(* bridge over it, which implements the safety part of RemoteCalls and     *)
(* runs operations only when granted, for any number of calls.             *)
(***************************************************************************)
EXTENDS VaultBridge, TLAPS

\* The inductive invariant.  RequestBounded alone is not kept by a result,
\* which settles outcome[nonce] without looking whether a promise is pending:
\* it relies on a nonce being left without a request only by dispose(), after
\* which no result is delivered, and on an open window carrying a nonce at all.
CeremonyInv ==
  /\ CeremonyTypeOK
  /\ RequestBounded
  /\ OpenIsWatched
  /\ win.open => win.nonce # 0 /\ win.id # 0
  /\ nonce # 0 => pending \/ disposed

\* Every step with its arguments named.
LEMMA CeremonyCases ==
  ASSUME [CeremonyNext]_cvars
  PROVE  \/ \E r \in Requests : Require(r)
         \/ ContinueBlocked
         \/ ContinueOpens
         \/ \E status \in {"approved", "cancelled"} : Answer(status)
         \/ CloseWindow
         \/ \E m \in wire : Deliver(m)
         \/ Poll
         \/ Deadline
         \/ Dispose
         \/ UNCHANGED cvars
  BY DEF CeremonyNext, User, Runs, Receive

LEMMA CeremonyInitInv ==
  ASSUME CeremonyInit
  PROVE  CeremonyInv
<1>1. win = [id |-> 0, open |-> FALSE, nonce |-> 0] /\ win \in Window /\ ~win.open
  BY CeremonyAssumption DEF CeremonyInit, Window
<1>2. outcome \in [Requests -> {"none", "pending", "resolved", "rejected"}]
      /\ \A r \in Requests : outcome[r] = "none"
  BY DEF CeremonyInit
<1>3. CeremonyTypeOK
  <2>1. /\ state = "idle" /\ nonce = 0 /\ popup = 0 /\ wire = {}
        /\ pending = FALSE /\ watch = FALSE /\ deadline = FALSE /\ disposed = FALSE
    BY DEF CeremonyInit
  <2>2. 0 \in 0..MaxRequests /\ 0 \in 0..MaxWindows
    BY CeremonyAssumption
  <2> QED
    BY <1>1, <1>2, <2>1, <2>2 DEF CeremonyTypeOK, State
<1>4. RequestBounded /\ OpenIsWatched
  BY <1>2 DEF CeremonyInit, RequestBounded, OpenIsWatched
<1> QED
  BY <1>1, <1>3, <1>4 DEF CeremonyInv, CeremonyInit

\* The window after popup?.close().
LEMMA ClosePopupWindow ==
  ASSUME CeremonyInv, ClosePopup
  PROVE  /\ win' \in Window
         /\ win'.open => win.open
         /\ win'.nonce = win.nonce /\ win'.id = win.id
  BY DEF ClosePopup, CeremonyInv, CeremonyTypeOK, Window

\* finish() leaves no request pending.
LEMMA FinishStep ==
  ASSUME CeremonyInv, pending, NEW res \in {"resolved", "rejected"}, Finish(res)
  PROVE  /\ outcome' \in [Requests -> {"none", "pending", "resolved", "rejected"}]
         /\ \A r \in Requests : outcome'[r] # "pending"
         /\ \A r \in Requests : r # nonce => outcome'[r] = outcome[r]
         /\ nonce' = 0 /\ popup' = 0 /\ pending' = FALSE /\ deadline' = FALSE /\ watch' = FALSE
         /\ 0 \in 0..MaxRequests /\ 0 \in 0..MaxWindows
<1>1. nonce \in Requests
  BY DEF CeremonyInv, CeremonyTypeOK, RequestBounded, Requests
<1>2. outcome' = [outcome EXCEPT ![nonce] = res]
  BY DEF Finish
<1>3. \A r \in Requests : r # nonce => outcome[r] # "pending"
  BY DEF CeremonyInv, RequestBounded
<1> QED
  BY <1>1, <1>2, <1>3, CeremonyAssumption DEF CeremonyInv, CeremonyTypeOK, Finish

LEMMA CeremonyStep ==
  ASSUME CeremonyInv, [CeremonyNext]_cvars
  PROVE  CeremonyInv'
<1> USE DEF CeremonyInv, CeremonyTypeOK, RequestBounded, OpenIsWatched, State, Waiting, Requests
<1>1. ASSUME NEW r \in Requests, Require(r) PROVE CeremonyInv'
  BY <1>1, CeremonyAssumption DEF Require, Fresh
<1>2. CASE ContinueBlocked
  BY <1>2 DEF ContinueBlocked
<1>3. CASE ContinueOpens
  <2>1. CASE win.open
    BY <1>3, <2>1 DEF ContinueOpens, Window
  <2>2. CASE ~win.open
    <3> DEFINE w == [id |-> win.id + 1, open |-> TRUE, nonce |-> nonce]
    <3>1. w \in Window /\ w.id # 0 /\ w.nonce # 0 /\ w.id = win.id + 1
      BY <1>3, <2>2, CeremonyAssumption DEF ContinueOpens, Window
    <3>2. win' = w
      BY <1>3, <2>2 DEF ContinueOpens
    <3> HIDE DEF w
    <3> QED
      BY <1>3, <3>1, <3>2 DEF ContinueOpens, Window
  <2> QED
    BY <2>1, <2>2
<1>4. ASSUME NEW status \in {"approved", "cancelled"}, Answer(status) PROVE CeremonyInv'
  <2> DEFINE m == [nonce |-> win.nonce, status |-> status, from |-> win.id]
  <2>1. m \in Result
    BY <1>4 DEF Answer, Result, Window
  <2>2. win' \in Window /\ ~win'.open
    BY <1>4 DEF Answer, Window
  <2> HIDE DEF m
  <2>3. wire' = wire \cup {m}
    BY <1>4 DEF Answer, m
  <2> QED
    BY <1>4, <2>1, <2>2, <2>3 DEF Answer
<1>5. CASE CloseWindow
  <2>1. win' \in Window /\ ~win'.open
    BY <1>5 DEF CloseWindow, Window
  <2> QED
    BY <1>5, <2>1 DEF CloseWindow
<1>6. ASSUME NEW m \in wire, Deliver(m) PROVE CeremonyInv'
  <2>1. CASE ~Accepts(m)
    BY <1>6, <2>1 DEF Deliver
  <2>2. CASE Accepts(m) /\ m.status = "approved"
    <3>1. Finish("resolved") /\ state' = "done" /\ UNCHANGED <<disposed, win>>
          /\ wire' \subseteq wire
      BY <1>6, <2>2 DEF Deliver
    <3>2. pending
      BY <1>6, <2>2 DEF Accepts, Deliver
    <3> QED
      BY <3>1, <3>2, FinishStep
  <2>3. CASE Accepts(m) /\ m.status # "approved"
    BY <1>6, <2>3, CeremonyAssumption DEF Deliver
  <2> QED
    BY <2>1, <2>2, <2>3
<1>7. CASE Poll
  BY <1>7, CeremonyAssumption DEF Poll
<1>8. CASE Deadline
  <2>1. Finish("rejected") /\ state' = "timeout" /\ UNCHANGED <<disposed, wire>> /\ pending
    BY <1>8 DEF Deadline
  <2>2. win' \in Window /\ (win'.open => win.open) /\ win'.nonce = win.nonce /\ win'.id = win.id
    BY <1>8, ClosePopupWindow DEF Deadline
  <2> QED
    BY <2>1, <2>2, FinishStep
<1>9. CASE Dispose
  BY <1>9, ClosePopupWindow DEF Dispose
<1>10. CASE UNCHANGED cvars
  BY <1>10 DEF cvars
<1> QED
  BY <1>1, <1>2, <1>3, <1>4, <1>5, <1>6, <1>7, <1>8, <1>9, <1>10, CeremonyCases

\* Every variable of the controller and of the pop-up keeps its type.
THEOREM CeremonyTypeCorrect == CeremonySpec => []CeremonyTypeOK
<1>1. CeremonyInit => CeremonyInv
  BY CeremonyInitInv
<1>2. CeremonyInv /\ [CeremonyNext]_cvars => CeremonyInv'
  BY CeremonyStep
<1>3. CeremonyInv => CeremonyTypeOK
  BY DEF CeremonyInv
<1> QED
  BY <1>1, <1>2, <1>3, PTL DEF CeremonySpec

\* A request in progress always has its deadline, its nonce and a status that
\* offers a way on, and no deadline outlives its request.
THEOREM RequestsBounded == CeremonySpec => []RequestBounded
<1>1. CeremonyInit => CeremonyInv
  BY CeremonyInitInv
<1>2. CeremonyInv /\ [CeremonyNext]_cvars => CeremonyInv'
  BY CeremonyStep
<1>3. CeremonyInv => RequestBounded
  BY DEF CeremonyInv
<1> QED
  BY <1>1, <1>2, <1>3, PTL DEF CeremonySpec

\* While the pop-up is shown as open the controller holds and polls a window.
THEOREM OpenPopupWatched == CeremonySpec => []OpenIsWatched
<1>1. CeremonyInit => CeremonyInv
  BY CeremonyInitInv
<1>2. CeremonyInv /\ [CeremonyNext]_cvars => CeremonyInv'
  BY CeremonyStep
<1>3. CeremonyInv => OpenIsWatched
  BY DEF CeremonyInv
<1> QED
  BY <1>1, <1>2, <1>3, PTL DEF CeremonySpec

\* No step but the delivery of an approval of the same nonce grants a request.
THEOREM GrantsAreOwn == CeremonySpec => GrantedByOwnApproval
<1> DEFINE Own == \A r \in Requests : outcome[r] # "resolved" /\ outcome'[r] = "resolved" =>
                    [nonce |-> r, status |-> "approved"] \in
                      {[nonce |-> m.nonce, status |-> m.status] : m \in wire}
<1>1. CeremonyInit => CeremonyInv
  BY CeremonyInitInv
<1>2. CeremonyInv /\ [CeremonyNext]_cvars => CeremonyInv'
  BY CeremonyStep
<1>3. CeremonyInv /\ [CeremonyNext]_cvars => [Own]_cvars
  <2> SUFFICES ASSUME CeremonyInv, [CeremonyNext]_cvars
               PROVE  Own
    OBVIOUS
  <2>0. outcome \in [Requests -> {"none", "pending", "resolved", "rejected"}]
    BY DEF CeremonyInv, CeremonyTypeOK
  <2>1. CASE outcome' = outcome
    BY <2>1
  <2>2. ASSUME NEW r \in Requests, Require(r) PROVE Own
    BY <2>0, <2>2 DEF Require
  <2>3. ASSUME NEW m \in wire, Deliver(m) PROVE Own
    <3>1. CASE Accepts(m) /\ m.status = "approved"
      <4>1. outcome' = [outcome EXCEPT ![nonce] = "resolved"] /\ m.nonce = nonce
        BY <2>3, <3>1 DEF Deliver, Finish, Accepts
      <4> QED
        BY <2>0, <3>1, <4>1
    <3>2. CASE ~(Accepts(m) /\ m.status = "approved")
      BY <2>1, <2>3, <3>2 DEF Deliver
    <3> QED
      BY <3>1, <3>2
  <2>4. CASE Deadline
    BY <2>0, <2>4 DEF Deadline, Finish
  <2>5. CASE Dispose
    BY <2>0, <2>5 DEF Dispose
  <2> QED
    BY <2>1, <2>2, <2>3, <2>4, <2>5, CeremonyCases
    DEF ContinueBlocked, ContinueOpens, Answer, CloseWindow, Poll, cvars
<1> QED
  BY <1>1, <1>2, <1>3, PTL DEF CeremonySpec, GrantedByOwnApproval

-----------------------------------------------------------------------------
(* The bridge.                                                             *)

\* Types of what the proof reads.  The queues are sequences of messages.
BridgeTypes ==
  /\ call \in [Calls -> {"idle", "pending", "ok", "error"}]
  /\ method \in [Calls -> Method]
  /\ toVault \in Seq(Calls \cup {0})
  /\ toUi \in Seq([id : Calls, ok : BOOLEAN])
  /\ lastId \in 0..MaxCalls
  /\ phase \in [Calls -> {"away", "waiting", "running", "over"}]
  /\ ticket \in [Calls -> 0..MaxRequests]
  /\ ran \subseteq Calls

\* A message on its way to the vault is of a call that was made.
QueuedWereMade == \A i \in 1..Len(toVault) : toVault[i] # 0 => call[toVault[i]] # "idle"

\* A good reply on its way to the page is of an operation that ran.
RepliesAreTrue == \A i \in 1..Len(toUi) : toUi[i].ok => toUi[i].id \in ran

\* What the vault knows of one call agrees with what the page knows.
CallAgrees(c) ==
  /\ phase[c] # "away" => call[c] # "idle" /\ c <= lastId
  /\ phase[c] \in {"away", "waiting"} => c \notin ran
  /\ phase[c] \in {"running"} => c \in ran
  /\ call[c] = "ok" => c \in ran
  /\ method[c] = "ceremony" /\ phase[c] = "waiting" => ticket[c] # 0

\* The inductive invariant.  RunsWhenGranted needs the ticket to be known
\* before the operation runs, hence the agreement of each waiting call; that a
\* granted request stays granted is the ceremony's own invariant.
BridgeInv ==
  /\ CeremonyInv
  /\ BridgeTypes
  /\ QueuedWereMade
  /\ RepliesAreTrue
  /\ \A c \in Calls : CallAgrees(c)
  /\ RunsWhenGranted

-----------------------------------------------------------------------------
(* Queues.                                                                 *)

LEMMA AppendedElements ==
  ASSUME NEW S, NEW q \in Seq(S), NEW e \in S
  PROVE  /\ Append(q, e) \in Seq(S)
         /\ Len(Append(q, e)) = Len(q) + 1
         /\ \A i \in 1..(Len(q) + 1) : Append(q, e)[i] = IF i = Len(q) + 1 THEN e ELSE q[i]
  OBVIOUS

LEMMA TailElements ==
  ASSUME NEW S, NEW q \in Seq(S), q # <<>>
  PROVE  /\ Tail(q) \in Seq(S) /\ Head(q) \in S
         /\ Head(q) = q[1] /\ 1 \in 1..Len(q)
         /\ \A i \in 1..Len(Tail(q)) : Tail(q)[i] = q[i + 1] /\ i + 1 \in 1..Len(q)
  OBVIOUS

-----------------------------------------------------------------------------
(* The ceremony, seen from the bridge.                                     *)

\* A granted request stays granted.
LEMMA GrantStays ==
  ASSUME CeremonyInv, [CeremonyNext]_cvars, NEW r \in Requests, outcome[r] = "resolved"
  PROVE  outcome'[r] = "resolved"
<1>0. outcome \in [Requests -> {"none", "pending", "resolved", "rejected"}]
      /\ (pending => outcome[nonce] = "pending")
  BY DEF CeremonyInv, CeremonyTypeOK, RequestBounded
<1>1. CASE outcome' = outcome
  BY <1>1
<1>2. ASSUME NEW q \in Requests, Require(q) PROVE outcome'[r] = "resolved"
  BY <1>0, <1>2 DEF Require, Fresh
<1>3. ASSUME NEW m \in wire, Deliver(m) PROVE outcome'[r] = "resolved"
  <2>1. CASE Accepts(m) /\ m.status = "approved"
    BY <1>0, <1>3, <2>1 DEF Deliver, Finish
  <2>2. CASE ~(Accepts(m) /\ m.status = "approved")
    BY <1>3, <2>2 DEF Deliver
  <2> QED
    BY <2>1, <2>2
<1>4. CASE Deadline
  <2>1. deadline => pending
    BY DEF CeremonyInv, RequestBounded
  <2> QED
    BY <1>0, <1>4, <2>1 DEF Deadline, Finish
<1>5. CASE Dispose
  BY <1>0, <1>5 DEF Dispose
<1> QED
  BY <1>1, <1>2, <1>3, <1>4, <1>5, CeremonyCases
  DEF ContinueBlocked, ContinueOpens, Answer, CloseWindow, Poll, cvars

\* Every step of the bridge is a step of the ceremony, or leaves it alone.
LEMMA CeremonyInside ==
  ASSUME [Next]_vars
  PROVE  [CeremonyNext]_cvars
<1>1. ASSUME NEW c, Awaits(c) PROVE [CeremonyNext]_cvars
  BY <1>1 DEF Awaits, CeremonyNext
<1>2. CASE ReceiveCall
  BY <1>1, <1>2 DEF ReceiveCall, cvars
<1> QED
  BY <1>2 DEF Next, Issue, CallTimeout, Step, Begin, Denied, End, PageReceives,
     PageDisposes, ReceiveDispose, FrameDisposes, CeremonySteps, CeremonyNext, vars

-----------------------------------------------------------------------------
(* The invariant.                                                          *)

LEMMA BridgeInitInv ==
  ASSUME Init
  PROVE  BridgeInv
<1>1. CeremonyInv
  BY CeremonyInitInv DEF Init
<1>2. BridgeTypes
  BY BridgeAssumption, CeremonyAssumption DEF Init, BridgeTypes, Method
<1>3. QueuedWereMade /\ RepliesAreTrue
  BY DEF Init, QueuedWereMade, RepliesAreTrue
<1>4. (\A c \in Calls : CallAgrees(c)) /\ RunsWhenGranted
  BY DEF Init, CallAgrees, RunsWhenGranted
<1> QED
  BY <1>1, <1>2, <1>3, <1>4 DEF BridgeInv

\* Tickets name requests.
LEMMA TicketIsRequest ==
  ASSUME BridgeInv, NEW c \in Calls, ticket[c] # 0
  PROVE  ticket[c] \in Requests
  BY CeremonyAssumption DEF BridgeInv, BridgeTypes, Requests

\* A reply keeps the queue true, if it is good only after the operation ran.
LEMMA ReplyStep ==
  ASSUME BridgeInv, NEW c \in Calls, NEW ok \in BOOLEAN, Reply(c, ok),
         ok => c \in ran, ran \subseteq ran'
  PROVE  toUi' \in Seq([id : Calls, ok : BOOLEAN]) /\ RepliesAreTrue'
<1> DEFINE m == [id |-> c, ok |-> ok]
<1>1. m \in [id : Calls, ok : BOOLEAN] /\ m.id = c /\ m.ok = ok
  OBVIOUS
<1> HIDE DEF m
<1>2. toUi' = Append(toUi, m) \/ toUi' = toUi
  BY DEF Reply, m
<1>3. toUi \in Seq([id : Calls, ok : BOOLEAN])
  BY DEF BridgeInv, BridgeTypes
<1>4. \A i \in 1..Len(toUi) : toUi[i].ok => toUi[i].id \in ran'
  BY DEF BridgeInv, RepliesAreTrue
<1>5. CASE toUi' = toUi
  BY <1>3, <1>4, <1>5 DEF RepliesAreTrue
<1>6. CASE toUi' = Append(toUi, m)
  <2>1. \A i \in 1..(Len(toUi) + 1) : toUi'[i] = IF i = Len(toUi) + 1 THEN m ELSE toUi[i]
    BY <1>1, <1>3, <1>6, AppendedElements
  <2>2. toUi' \in Seq([id : Calls, ok : BOOLEAN]) /\ Len(toUi') = Len(toUi) + 1
    BY <1>1, <1>3, <1>6, AppendedElements
  <2>3. \A i \in 1..(Len(toUi) + 1) : i = Len(toUi) + 1 \/ i \in 1..Len(toUi)
    BY <1>3
  <2> QED
    BY <1>1, <1>4, <2>1, <2>2, <2>3 DEF RepliesAreTrue
<1> QED
  BY <1>2, <1>5, <1>6

\* The page sends a call it made, or the farewell.
LEMMA SentToVault ==
  ASSUME BridgeInv, NEW e \in Calls \cup {0}, toVault' = Append(toVault, e),
         e # 0 => call'[e] # "idle",
         \A d \in Calls : call[d] # "idle" => call'[d] # "idle"
  PROVE  toVault' \in Seq(Calls \cup {0}) /\ QueuedWereMade'
<1>1. toVault \in Seq(Calls \cup {0}) /\ QueuedWereMade
  BY DEF BridgeInv, BridgeTypes
<1>2. /\ toVault' \in Seq(Calls \cup {0}) /\ Len(toVault') = Len(toVault) + 1
      /\ \A i \in 1..(Len(toVault) + 1) : toVault'[i] = IF i = Len(toVault) + 1 THEN e ELSE toVault[i]
  BY <1>1, AppendedElements
<1>3. \A i \in 1..Len(toVault) : toVault[i] \in Calls \cup {0}
  BY <1>1
<1>4. \A i \in 1..(Len(toVault) + 1) : i = Len(toVault) + 1 \/ i \in 1..Len(toVault)
  BY <1>1
<1> QED
  BY <1>1, <1>2, <1>3, <1>4 DEF QueuedWereMade

\* The page's steps leave the vault alone.
LEMMA PageStep ==
  ASSUME BridgeInv,
         \/ \E c \in Calls : (\E m \in Method : Issue(c, m)) \/ CallTimeout(c)
         \/ PageReceives
         \/ PageDisposes
  PROVE  BridgeInv'
<1> USE DEF BridgeInv, BridgeTypes
<1>0. UNCHANGED <<lastId, phase, ticket, ran, serving, cvars>> /\ CeremonyInv'
  BY CeremonyStep DEF Issue, CallTimeout, PageReceives, PageDisposes
<1>1. ASSUME NEW c \in Calls, NEW m \in Method, Issue(c, m) PROVE BridgeInv'
  <2>1. call' = [call EXCEPT ![c] = "pending"] /\ method' = [method EXCEPT ![c] = m]
        /\ toVault' = Append(toVault, c) /\ toUi' = toUi /\ call[c] = "idle"
    BY <1>1 DEF Issue, NextId
  <2>2. BridgeTypes'
    BY <1>0, <2>1, AppendedElements
  <2>3. QueuedWereMade'
    BY <2>1, c \in Calls \cup {0}, call'[c] # "idle", SentToVault
  <2>4. RepliesAreTrue'
    BY <1>0, <2>1 DEF RepliesAreTrue
  <2>5. \A d \in Calls : CallAgrees(d)'
    BY <1>0, <2>1 DEF CallAgrees
  <2>6. c \notin ran
    BY <2>1 DEF CallAgrees
  <2>7. RunsWhenGranted'
    BY <1>0, <2>1, <2>6 DEF RunsWhenGranted, cvars
  <2> QED
    BY <1>0, <2>2, <2>3, <2>4, <2>5, <2>7
<1>2. ASSUME NEW c \in Calls, CallTimeout(c) PROVE BridgeInv'
  <2>1. call' = [call EXCEPT ![c] = "error"] /\ UNCHANGED <<method, toVault, toUi>>
        /\ call[c] = "pending"
    BY <1>2 DEF CallTimeout
  <2>2. QueuedWereMade'
    BY <2>1 DEF QueuedWereMade
  <2>3. RepliesAreTrue' /\ RunsWhenGranted'
    BY <1>0, <2>1 DEF RepliesAreTrue, RunsWhenGranted, cvars
  <2>4. \A d \in Calls : CallAgrees(d)'
    BY <1>0, <2>1 DEF CallAgrees
  <2> QED
    BY <1>0, <2>1, <2>2, <2>3, <2>4
<1>3. CASE PageReceives
  <2> DEFINE reply == Head(toUi)
  <2>1. toUi \in Seq([id : Calls, ok : BOOLEAN]) /\ toUi # <<>>
    BY <1>3 DEF PageReceives
  <2>2. reply \in [id : Calls, ok : BOOLEAN] /\ reply = toUi[1] /\ 1 \in 1..Len(toUi)
    BY <2>1, TailElements
  <2>3. reply.id \in Calls /\ (reply.ok => reply.id \in ran)
    BY <2>2 DEF RepliesAreTrue
  <2>4. UNCHANGED <<method, toVault>> /\ toUi' = Tail(toUi)
        /\ call' = IF call[reply.id] = "pending"
                   THEN [call EXCEPT ![reply.id] = IF reply.ok THEN "ok" ELSE "error"]
                   ELSE call
    BY <1>3 DEF PageReceives, Expected
  <2> HIDE DEF reply
  <2>5. call' \in [Calls -> {"idle", "pending", "ok", "error"}]
        /\ \A d \in Calls : /\ call[d] # "idle" => call'[d] # "idle"
                            /\ call'[d] = "ok" => call[d] = "ok" \/ d \in ran
    BY <2>3, <2>4
  <2>6. toUi' \in Seq([id : Calls, ok : BOOLEAN]) /\ RepliesAreTrue'
    BY <1>0, <2>1, <2>4, TailElements DEF RepliesAreTrue
  <2>7. QueuedWereMade'
    BY <2>4, <2>5 DEF QueuedWereMade
  <2>8. RunsWhenGranted'
    BY <1>0, <2>4 DEF RunsWhenGranted, cvars
  <2>9. \A d \in Calls : CallAgrees(d)'
    BY <1>0, <2>4, <2>5 DEF CallAgrees
  <2> QED
    BY <1>0, <2>4, <2>5, <2>6, <2>7, <2>8, <2>9
<1>4. CASE PageDisposes
  <2>1. UNCHANGED <<method, toUi>> /\ toVault' = Append(toVault, 0)
        /\ call' = [c \in Calls |-> IF call[c] = "pending" THEN "error" ELSE call[c]]
    BY <1>4 DEF PageDisposes
  <2>2. BridgeTypes'
    BY <1>0, <2>1, AppendedElements
  <2>3. \A d \in Calls : /\ call[d] # "idle" => call'[d] # "idle"
                         /\ call'[d] = "ok" => call[d] = "ok"
    BY <2>1
  <2>4. QueuedWereMade'
    BY <2>1, <2>3, SentToVault
  <2>5. RepliesAreTrue' /\ RunsWhenGranted'
    BY <1>0, <2>1 DEF RepliesAreTrue, RunsWhenGranted, cvars
  <2>6. \A d \in Calls : CallAgrees(d)'
    BY <1>0, <2>1, <2>3 DEF CallAgrees
  <2> QED
    BY <1>0, <2>2, <2>4, <2>5, <2>6
<1> QED
  BY <1>1, <1>2, <1>3, <1>4

\* The head of the queue is taken.
LEMMA TakenFromVault ==
  ASSUME BridgeInv, toVault # <<>>, toVault' = Tail(toVault),
         \A c \in Calls : call[c] # "idle" => call'[c] # "idle"
  PROVE  /\ toVault' \in Seq(Calls \cup {0})
         /\ QueuedWereMade'
         /\ Head(toVault) \in Calls \cup {0}
         /\ Head(toVault) # 0 => call[Head(toVault)] # "idle"
<1>1. toVault \in Seq(Calls \cup {0}) /\ QueuedWereMade
  BY DEF BridgeInv, BridgeTypes
<1>2. /\ Tail(toVault) \in Seq(Calls \cup {0}) /\ Head(toVault) \in Calls \cup {0}
      /\ Head(toVault) = toVault[1] /\ 1 \in 1..Len(toVault)
      /\ \A i \in 1..Len(Tail(toVault)) : Tail(toVault)[i] = toVault[i + 1] /\ i + 1 \in 1..Len(toVault)
  BY <1>1, TailElements
<1>3. \A i \in 1..Len(toVault) : toVault[i] # 0 => toVault[i] \in Calls
  BY <1>1
<1> QED
  BY <1>1, <1>2, <1>3 DEF QueuedWereMade

\* Taking up a call: nothing ran, nothing is granted twice.
LEMMA ReceiveCallStep ==
  ASSUME BridgeInv, ReceiveCall, CeremonyInv'
  PROVE  BridgeInv'
<1> DEFINE c == Head(toVault)
<1>1. UNCHANGED <<closed, call, method, serving, ran>> /\ toVault # <<>>
      /\ toVault' = Tail(toVault) /\ c # 0
  BY DEF ReceiveCall
<1>2. toVault' \in Seq(Calls \cup {0}) /\ QueuedWereMade' /\ c \in Calls /\ call[c] # "idle"
  BY <1>1, TakenFromVault
<1>3. CASE c <= lastId \/ method[c] = "unknown"
  <2>1. Reply(c, FALSE) /\ UNCHANGED <<cvars, phase, ticket>>
        /\ (lastId' = lastId \/ (lastId' = c /\ ~(c <= lastId)))
    <3>1. CASE c <= lastId
      BY <3>1 DEF ReceiveCall
    <3>2. CASE ~(c <= lastId)
      BY <1>3, <3>2 DEF ReceiveCall
    <3> QED
      BY <3>1, <3>2
  <2>2. toUi' \in Seq([id : Calls, ok : BOOLEAN]) /\ RepliesAreTrue'
    BY <1>1, <1>2, <2>1, ReplyStep
  <2>3. lastId' \in 0..MaxCalls /\ lastId' >= lastId
    BY <1>2, <2>1 DEF BridgeInv, BridgeTypes, Calls
  <2>4. \A d \in Calls : CallAgrees(d)'
    BY <1>1, <2>1, <2>3 DEF BridgeInv, BridgeTypes, CallAgrees, Calls
  <2>5. RunsWhenGranted'
    BY <1>1, <2>1 DEF BridgeInv, RunsWhenGranted, cvars
  <2>6. BridgeTypes'
    BY <1>1, <1>2, <2>1, <2>2, <2>3 DEF BridgeInv, BridgeTypes
  <2> QED
    BY <1>2, <2>2, <2>4, <2>5, <2>6 DEF BridgeInv
<1>4. CASE ~(c <= lastId) /\ method[c] # "unknown"
  <2>1. /\ lastId' = c /\ phase' = [phase EXCEPT ![c] = "waiting"]
        /\ Awaits(c) /\ UNCHANGED toUi
    BY <1>4 DEF ReceiveCall
  <2>2. lastId' \in 0..MaxCalls /\ lastId' >= lastId
    BY <1>2, <1>4, <2>1 DEF BridgeInv, BridgeTypes, Calls
  <2>3. phase[c] = "away" /\ c \notin ran /\ call[c] # "ok"
    BY <1>2, <1>4 DEF BridgeInv, BridgeTypes, CallAgrees, Calls
  <2>4. /\ ticket' = [ticket EXCEPT ![c] = ticket'[c]]
        /\ ticket' \in [Calls -> 0..MaxRequests]
        /\ method[c] = "ceremony" => ticket'[c] # 0
    <3>1. CASE method[c] # "ceremony"
      BY <1>2, <2>1, <3>1 DEF Awaits, BridgeInv, BridgeTypes
    <3>2. CASE method[c] = "ceremony" /\ pending
      <4>1. nonce \in 0..MaxRequests /\ nonce # 0
        BY <3>2 DEF BridgeInv, CeremonyInv, CeremonyTypeOK, RequestBounded
      <4> QED
        BY <1>2, <2>1, <3>2, <4>1 DEF Awaits, BridgeInv, BridgeTypes
    <3>3. CASE method[c] = "ceremony" /\ ~pending
      <4>1. PICK r \in Requests : ticket' = [ticket EXCEPT ![c] = r]
        BY <2>1, <3>3 DEF Awaits
      <4>2. r \in 0..MaxRequests /\ r # 0
        BY CeremonyAssumption DEF Requests
      <4>3. ticket \in [Calls -> 0..MaxRequests]
        BY DEF BridgeInv, BridgeTypes
      <4> HIDE DEF c
      <4> QED
        BY <1>2, <4>1, <4>2, <4>3
    <3> QED
      BY <3>1, <3>2, <3>3
  <2>5. BridgeTypes'
    BY <1>1, <1>2, <2>1, <2>2, <2>4 DEF BridgeInv, BridgeTypes
  <2>6. \A d \in Calls : CallAgrees(d)'
    <3> SUFFICES ASSUME NEW d \in Calls PROVE CallAgrees(d)'
      OBVIOUS
    <3>1. CASE d = c
      BY <1>1, <1>2, <2>1, <2>3, <2>4, <3>1 DEF BridgeInv, BridgeTypes, CallAgrees, Calls
    <3>2. CASE d # c
      BY <1>1, <1>2, <2>1, <2>2, <2>4, <3>2 DEF BridgeInv, BridgeTypes, CallAgrees, Calls
    <3> QED
      BY <3>1, <3>2
  <2>7. RunsWhenGranted'
    <3> SUFFICES ASSUME NEW d \in Calls, d \in ran, method[d] = "ceremony"
                 PROVE  ticket'[d] # 0 /\ outcome'[ticket'[d]] = "resolved"
      BY <1>1 DEF RunsWhenGranted
    <3>1. d # c /\ ticket'[d] = ticket[d]
      BY <1>2, <2>3, <2>4 DEF BridgeInv, BridgeTypes
    <3>2. ticket[d] # 0 /\ outcome[ticket[d]] = "resolved"
      BY DEF BridgeInv, RunsWhenGranted
    <3>3. ticket[d] \in Requests
      BY <3>2, TicketIsRequest
    <3>4. [CeremonyNext]_cvars
      <4>1. Next
        BY DEF Next
      <4> QED
        BY <4>1, CeremonyInside
    <3> QED
      BY <3>1, <3>2, <3>3, <3>4, GrantStays DEF BridgeInv
  <2>8. RepliesAreTrue'
    BY <1>1, <2>1 DEF BridgeInv, RepliesAreTrue
  <2> QED
    BY <1>2, <2>5, <2>6, <2>7, <2>8 DEF BridgeInv
<1> QED
  BY <1>3, <1>4

\* The steps of one operation.
LEMMA OperationStep ==
  ASSUME BridgeInv, NEW c \in Calls, Step(c)
  PROVE  BridgeInv'
<1>1. UNCHANGED <<cvars, closed, call, method, toVault, lastId, serving, ticket>>
  BY DEF Step, Begin, Denied, End
<1>2. CeremonyInv' /\ QueuedWereMade'
  <2>1. [CeremonyNext]_cvars
    BY <1>1
  <2> QED
    BY <1>1, <2>1, CeremonyStep DEF BridgeInv, QueuedWereMade
<1>3. SUFFICES ASSUME /\ toUi' \in Seq([id : Calls, ok : BOOLEAN]) /\ RepliesAreTrue'
                      /\ \/ /\ phase[c] = "waiting" /\ Granted(c)
                            /\ phase' = [phase EXCEPT ![c] = "running"] /\ ran' = ran \cup {c}
                         \/ /\ phase[c] # "away" /\ (phase[c] = "waiting" => c \notin ran)
                            /\ phase' = [phase EXCEPT ![c] = "over"] /\ ran' = ran
               PROVE  BridgeInv'
  <2>1. CASE Begin(c)
    <3>1. CASE phase' = [phase EXCEPT ![c] = "running"] /\ ran' = ran \cup {c} /\ UNCHANGED toUi
      BY <1>3, <2>1, <3>1 DEF Begin, BridgeInv, BridgeTypes, RepliesAreTrue
    <3>2. CASE phase' = [phase EXCEPT ![c] = "over"] /\ Reply(c, FALSE) /\ UNCHANGED ran
      BY <1>3, <2>1, <3>2, ReplyStep DEF Begin, BridgeInv, CallAgrees
    <3> QED
      BY <2>1, <3>1, <3>2 DEF Begin
  <2>2. CASE Denied(c)
    BY <1>3, <2>2, ReplyStep DEF Denied, BridgeInv, CallAgrees
  <2>3. ASSUME NEW ok \in BOOLEAN, End(c, ok) PROVE BridgeInv'
    <3>1. Reply(c, ok) /\ phase[c] = "running" /\ c \in ran /\ ran' = ran
          /\ phase' = [phase EXCEPT ![c] = "over"]
      BY <2>3 DEF End, BridgeInv, CallAgrees
    <3>2. toUi' \in Seq([id : Calls, ok : BOOLEAN]) /\ RepliesAreTrue'
      BY <3>1, ReplyStep
    <3> QED
      BY <1>3, <3>1, <3>2
  <2> QED
    BY <2>1, <2>2, <2>3 DEF Step
<1>4. phase' \in [Calls -> {"away", "waiting", "running", "over"}] /\ ran' \subseteq Calls
  BY <1>3 DEF BridgeInv, BridgeTypes
<1>5. \A d \in Calls : d # c => phase'[d] = phase[d] /\ (d \in ran' <=> d \in ran)
  BY <1>3 DEF BridgeInv, BridgeTypes
<1>6. phase'[c] \in {"running", "over"} /\ (phase'[c] = "running" => c \in ran')
      /\ ran \subseteq ran' /\ phase[c] # "away"
  BY <1>3 DEF BridgeInv, BridgeTypes
<1>7. \A d \in Calls : CallAgrees(d)'
  <2> SUFFICES ASSUME NEW d \in Calls PROVE CallAgrees(d)'
    OBVIOUS
  <2>1. CallAgrees(d)
    BY DEF BridgeInv
  <2> QED
    BY <1>1, <1>5, <1>6, <2>1 DEF CallAgrees
<1>8. RunsWhenGranted'
  <2>1. method[c] = "ceremony" /\ c \in ran' => ticket[c] # 0 /\ outcome[ticket[c]] = "resolved"
    BY <1>3 DEF BridgeInv, RunsWhenGranted, CallAgrees, Granted
  <2> QED
    BY <1>1, <1>5, <2>1 DEF BridgeInv, RunsWhenGranted, cvars
<1> QED
  BY <1>1, <1>2, <1>3, <1>4, <1>7, <1>8 DEF BridgeInv, BridgeTypes

\* Steps that only stop the port, or belong to the ceremony.
LEMMA OtherStep ==
  ASSUME BridgeInv, CeremonyInv', [CeremonyNext]_cvars,
         ReceiveDispose \/ FrameDisposes \/ CeremonySteps \/ UNCHANGED vars
  PROVE  BridgeInv'
<1>1. UNCHANGED <<call, method, toUi, lastId, phase, ticket, ran>>
  BY DEF ReceiveDispose, FrameDisposes, CeremonySteps, bvars, vars
<1>2. toVault' \in Seq(Calls \cup {0}) /\ QueuedWereMade'
  <2>1. CASE ReceiveDispose
    BY <1>1, <2>1, TakenFromVault DEF ReceiveDispose
  <2>2. CASE toVault' = toVault
    BY <1>1, <2>2 DEF BridgeInv, BridgeTypes, QueuedWereMade
  <2> QED
    BY <2>1, <2>2 DEF FrameDisposes, CeremonySteps, bvars, vars
<1>3. RunsWhenGranted'
  <2> SUFFICES ASSUME NEW d \in Calls, d \in ran, method[d] = "ceremony"
               PROVE  ticket[d] # 0 /\ outcome'[ticket[d]] = "resolved"
    BY <1>1 DEF RunsWhenGranted
  <2>1. ticket[d] # 0 /\ outcome[ticket[d]] = "resolved"
    BY DEF BridgeInv, RunsWhenGranted
  <2> QED
    BY <2>1, TicketIsRequest, GrantStays DEF BridgeInv
<1> QED
  BY <1>1, <1>2, <1>3 DEF BridgeInv, BridgeTypes, CallAgrees, RepliesAreTrue

LEMMA BridgeStep ==
  ASSUME BridgeInv, [Next]_vars
  PROVE  BridgeInv'
<1>1. [CeremonyNext]_cvars /\ CeremonyInv'
  BY CeremonyInside, CeremonyStep DEF BridgeInv
<1> QED
  BY <1>1, PageStep, ReceiveCallStep, OperationStep, OtherStep DEF Next

-----------------------------------------------------------------------------
(* Results.                                                                *)

\* An operation that needs the ceremony runs only after its own request was
\* granted.
THEOREM RunsWhenGrantedHolds == Spec => []RunsWhenGranted
<1>1. Init => BridgeInv
  BY BridgeInitInv
<1>2. BridgeInv /\ [Next]_vars => BridgeInv'
  BY BridgeStep
<1>3. BridgeInv => RunsWhenGranted
  BY DEF BridgeInv
<1> QED
  BY <1>1, <1>2, <1>3, PTL DEF Spec

\* Taking a result off the queue settles a call as RemoteCalls allows.
LEMMA PageReceivesRefines ==
  ASSUME BridgeInv, PageReceives
  PROVE  [Remote!Next]_(Remote!rvars)
<1> DEFINE reply == Head(toUi)
<1>1. toUi \in Seq([id : Calls, ok : BOOLEAN]) /\ toUi # <<>>
  BY DEF PageReceives, BridgeInv, BridgeTypes
<1>2. reply \in [id : Calls, ok : BOOLEAN] /\ reply = toUi[1] /\ 1 \in 1..Len(toUi)
  BY <1>1, TailElements
<1>3. reply.id \in Calls /\ (reply.ok => reply.id \in ran)
  BY <1>2 DEF BridgeInv, RepliesAreTrue
<1>4. /\ call' = IF call[reply.id] = "pending"
                 THEN [call EXCEPT ![reply.id] = IF reply.ok THEN "ok" ELSE "error"]
                 ELSE call
      /\ ran' = ran
  BY DEF PageReceives, Expected
<1>5. call \in [Calls -> {"idle", "pending", "ok", "error"}]
  BY DEF BridgeInv, BridgeTypes
<1> HIDE DEF reply
<1>6. CASE call[reply.id] # "pending"
  BY <1>4, <1>6 DEF Remote!rvars
<1>7. CASE call[reply.id] = "pending" /\ reply.ok
  <2>1. Remote!Succeed(reply.id)
    BY <1>3, <1>4, <1>7 DEF Remote!Succeed
  <2> QED
    BY <1>3, <2>1 DEF Remote!Next
<1>8. CASE call[reply.id] = "pending" /\ ~reply.ok
  <2>1. Remote!Fail({reply.id})
    BY <1>3, <1>4, <1>5, <1>8 DEF Remote!Fail
  <2> QED
    BY <1>3, <2>1 DEF Remote!Next
<1> QED
  BY <1>6, <1>7, <1>8

LEMMA StepRefines ==
  ASSUME BridgeInv, [Next]_vars
  PROVE  [Remote!Next]_(Remote!rvars)
<1>0. call \in [Calls -> {"idle", "pending", "ok", "error"}]
  BY DEF BridgeInv, BridgeTypes
<1>1. ASSUME NEW c \in Calls, NEW m \in Method, Issue(c, m) PROVE Remote!Next
  BY <1>1 DEF Issue, NextId, Remote!Next, Remote!Issue
<1>2. ASSUME NEW c \in Calls, CallTimeout(c) PROVE Remote!Next
  <2>1. Remote!Fail({c})
    BY <1>0, <1>2 DEF CallTimeout, Remote!Fail
  <2> QED
    BY <2>1 DEF Remote!Next
<1>3. CASE PageDisposes
  <2> DEFINE C == {c \in Calls : call[c] = "pending"}
  <2>1. Remote!Fail(C)
    BY <1>0, <1>3 DEF PageDisposes, Remote!Fail
  <2> QED
    BY <2>1 DEF Remote!Next
<1>4. ASSUME NEW c \in Calls, Begin(c) PROVE [Remote!Next]_(Remote!rvars)
  <2>1. c \notin ran /\ call[c] # "idle" /\ call[c] # "ok" /\ call' = call
    BY <1>4 DEF Begin, BridgeInv, CallAgrees
  <2>2. CASE ran' = ran \cup {c}
    BY <2>1, <2>2 DEF Remote!Next, Remote!Run
  <2>3. CASE ran' = ran
    BY <2>1, <2>3 DEF Remote!rvars
  <2> QED
    BY <1>4, <2>2, <2>3 DEF Begin
<1>5. CASE UNCHANGED <<call, ran>>
  BY <1>5 DEF Remote!rvars
<1> QED
  BY <1>1, <1>2, <1>3, <1>4, <1>5, PageReceivesRefines
  DEF Next, Step, Denied, End, ReceiveCall, ReceiveDispose, FrameDisposes,
      CeremonySteps, bvars, vars

\* Over the two queues and the ceremony the bridge implements the safety part
\* of RemoteCalls: a call settles once, its operation runs at most once, and
\* only a call whose operation ran succeeds.
THEOREM BridgeRefines == Spec => Remote!SafeSpec
<1>1. Init => BridgeInv
  BY BridgeInitInv
<1>2. BridgeInv /\ [Next]_vars => BridgeInv'
  BY BridgeStep
<1>3. Init => Remote!Init
  BY DEF Init, Remote!Init
<1>4. BridgeInv /\ [Next]_vars => [Remote!Next]_(Remote!rvars)
  BY StepRefines
<1> QED
  BY <1>1, <1>2, <1>3, <1>4, PTL DEF Spec, Remote!SafeSpec
=============================================================================
