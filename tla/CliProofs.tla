------------------------------- MODULE CliProofs -------------------------------
(***************************************************************************)
(* What the exit code of the command line client says of the actions it    *)
(* sent, and the bound on results nobody reads, proved for any ids, any    *)
(* limit of pending requests and any number of requests.                   *)
(***************************************************************************)
EXTENDS Cli, FiniteSetTheorems, TLAPS

Held(n) == requests[n] \in Progress \ {"new", "settled"}

\* Where a session can be.
PlacesOfSession ==
  /\ session = "invoke" => at \in {"connecting", "reading", "waiting", "writing", "ended"}
  /\ session = "tui" => at \in {"connecting", "drawing", "idle", "waiting", "ended"}
  /\ session = "mcp" => at \in {"connecting", "initializing", "serving", "ended"}
  /\ exit = "none" <=> at # "ended"

\* What was sent and not told, by the place of invoke and tui: at most one
\* action, while it is waited for and until its response is written or drawn.
OneAtATime ==
  /\ at \in {"connecting", "reading", "initializing"} => \A n \in Requests : requests[n] = "new"
  /\ session = "invoke" => \A n \in Requests : n # 1 => requests[n] = "new"
  /\ at = "waiting" => \A n \in Requests : requests[n] \in {"new", "delivered", "running"}
  /\ at = "waiting" => \A m, n \in Requests : requests[m] = "running" /\ requests[n] = "running" => m = n
  /\ at = "writing" /\ code # "reconcile" => \A n \in Requests : requests[n] \in {"new", "answered"}
  /\ at = "drawing" => \A n \in Requests : requests[n] \in {"new", "delivered", "answered"}
  /\ at = "drawing" /\ shown => \A n \in Requests : requests[n] # "answered"
  /\ at = "idle" => \A n \in Requests : requests[n] \in {"new", "delivered"}

\* What was sent and not told, in mcp: it is pending.
HeldArePending ==
  /\ IsFiniteSet(pending) /\ Cardinality(pending) <= MaxPending
  /\ session = "mcp" => \A n \in Requests : Held(n) => ids[n] \in pending
  /\ session = "mcp" => \A m, n \in Requests : Held(m) /\ Held(n) /\ ids[m] = ids[n] => m = n

CliInv == TypeOK /\ PlacesOfSession /\ OneAtATime /\ HeldArePending /\ UnknownIsReconcile

-----------------------------------------------------------------------------
LEMMA CliInitInv ==
  ASSUME Init
  PROVE  CliInv
<1>1. TypeOK
  BY DEF Init, TypeOK, Code, Progress
<1>2. PlacesOfSession /\ OneAtATime
  BY DEF Init, PlacesOfSession, OneAtATime
<1>3. HeldArePending
  BY CliAssumption, FS_EmptySet DEF Init, HeldArePending, Held
<1>4. UnknownIsReconcile
  BY DEF Init, UnknownIsReconcile
<1> QED
  BY <1>1, <1>2, <1>3, <1>4 DEF CliInv

LEMMA OneRequest == 1 \in Requests
  BY CliAssumption DEF Requests

\* A request changes its progress, and no other does.
LEMMA BecomesChanges ==
  ASSUME TypeOK, NEW n \in Requests, NEW p \in Progress, Becomes(n, p)
  PROVE  /\ requests' \in [Requests -> Progress]
         /\ requests'[n] = p
         /\ \A k \in Requests : k # n => requests'[k] = requests[k]
  BY DEF TypeOK, Becomes

-----------------------------------------------------------------------------
(* The types, by the three sessions.                                       *)

LEMMA OwnSteps ==
  ASSUME TypeOK, Interrupt \/ Crash \/ Keyboard \/ HearCancel
  PROVE  TypeOK'
<1> USE DEF TypeOK, Code, Progress, mcp, Exit, Goes
<1>1. CASE Interrupt
  BY <1>1 DEF Interrupt
<1>2. CASE Leave \/ Edit \/ InvalidBody \/ LeaveWaiting \/ TerminalCloses
  BY <1>2 DEF Leave, Edit, InvalidBody, LeaveWaiting, TerminalCloses
<1>3. ASSUME NEW n \in Requests, Enter(n) PROVE TypeOK'
  BY <1>3, BecomesChanges DEF Enter
<1>4. CASE InvokeCancelled \/ TuiCancelled
  BY <1>4 DEF InvokeCancelled, TuiCancelled
<1>5. CASE ServiceQuits("cancelled") \/ ServiceQuits("crashed")
  BY <1>5 DEF ServiceQuits, Serving
<1> QED
  BY <1>1, <1>2, <1>3, <1>4, <1>5 DEF Crash, Keyboard, HearCancel

LEMMA OuterSteps ==
  ASSUME TypeOK, Owner \/ Peer
  PROVE  TypeOK'
<1> USE DEF TypeOK, Code, Progress, mcp, Exit, Goes
<1>1. ASSUME NEW c \in {"ok", "refused", "reconcile"}, InvokeAnswered(c) PROVE TypeOK'
  BY <1>1, OneRequest, BecomesChanges DEF InvokeAnswered
<1>2. ASSUME NEW n \in Requests, NEW c \in {"ok", "refused", "reconcile"}, TuiAnswered(n, c) PROVE TypeOK'
  BY <1>2, BecomesChanges DEF TuiAnswered
<1>3. ASSUME NEW n \in Requests, HandlerEnds(n) \/ RequestCancelled(n) PROVE TypeOK'
  BY <1>3, BecomesChanges DEF HandlerEnds, RequestCancelled
<1>4. CASE BadFrame \/ EndOfInput
  BY <1>4 DEF BadFrame, EndOfInput, Closes
<1>5. ASSUME NEW n \in Requests, Receive(n) PROVE TypeOK'
  <2>1. CASE Admitted(ids[n])
    <3>1. requests' \in [Requests -> Progress]
      BY <1>5, <2>1, BecomesChanges DEF Receive
    <3>2. pending' \subseteq Ids
      BY <1>5, <2>1 DEF Receive
    <3> QED
      BY <1>5, <2>1, <3>1, <3>2 DEF Receive
  <2>2. CASE ~Admitted(ids[n])
    <3>1. /\ Closes
          /\ UNCHANGED <<session, at, code, shown, requests, ids, pending, quit, exit>>
      BY <1>5, <2>2 DEF Receive
    <3> QED
      BY <3>1 DEF Closes
  <2> QED
    BY <2>1, <2>2
<1> QED
  BY <1>1, <1>2, <1>3, <1>4, <1>5 DEF Owner, Peer

LEMMA DeliveredType ==
  ASSUME TypeOK
  PROVE  Delivered \in [Requests -> Progress]
  BY DEF TypeOK, Delivered, Progress

LEMMA ProcessSteps ==
  ASSUME TypeOK, Proceeds
  PROVE  TypeOK'
<1> USE DEF TypeOK, Code, Progress, mcp, Exit, Goes
<1>1. CASE Connects
  BY <1>1 DEF Connects, FirstPlace
<1>2. ASSUME NEW c \in {"refused", "unavailable", "reconcile"}, ConnectFails(c) PROVE TypeOK'
  BY <1>2 DEF ConnectFails
<1>3. CASE Dispatch
  BY <1>3, OneRequest, BecomesChanges DEF Dispatch
<1>4. CASE InputFails("refused") \/ InputFails("unavailable")
  BY <1>4 DEF InputFails
<1>5. CASE Write \/ Draw
  <2>1. requests' \in [Requests -> Progress]
    BY <1>5, DeliveredType DEF Write, Draw
  <2> QED
    BY <1>5, <2>1 DEF Write, Draw
<1>6. CASE WriteFails \/ DrawFails
  BY <1>6 DEF WriteFails, DrawFails, DrawFailure
<1>7. ASSUME NEW n \in Requests, Flushes(n) \/ Settles(n) \/ SendFails(n) PROVE TypeOK'
  <2>1. requests' \in [Requests -> Progress]
    BY <1>7, BecomesChanges DEF Flushes, Settles, SendFails
  <2>2. CASE Flushes(n)
    BY <2>1, <2>2 DEF Flushes
  <2>3. CASE Settles(n)
    BY <2>1, <2>3 DEF Settles
  <2>4. CASE SendFails(n)
    BY <2>1, <2>4 DEF SendFails
  <2> QED
    BY <1>7, <2>2, <2>3, <2>4
<1>8. CASE Initialized \/ InitializeFails \/ ServiceQuits("closed")
  BY <1>8 DEF Initialized, InitializeFails, ServiceQuits, Serving
<1>9. CASE ServeEnds
  BY <1>9 DEF ServeEnds, ServeResult
<1> QED
  BY <1>1, <1>2, <1>3, <1>4, <1>5, <1>6, <1>7, <1>8, <1>9 DEF Proceeds

LEMMA TypesKept ==
  ASSUME TypeOK, [Next]_vars
  PROVE  TypeOK'
<1>1. CASE UNCHANGED vars
  BY <1>1 DEF vars, mcp, TypeOK
<1>2. CASE Next
  BY <1>2, OwnSteps, OuterSteps, ProcessSteps DEF Next
<1> QED
  BY <1>1, <1>2
-----------------------------------------------------------------------------
(* Where a session can be.                                                 *)

\* Steps of invoke and tui, by the place they start from.
LEMMA PlacesKept ==
  ASSUME TypeOK, PlacesOfSession, [Next]_vars
  PROVE  PlacesOfSession'
<1> USE DEF PlacesOfSession, TypeOK, Code, mcp, Exit, Goes
<1>1. CASE UNCHANGED vars
  BY <1>1 DEF vars
<1>2. CASE Interrupt \/ Crash \/ HearCancel
  BY <1>2 DEF Interrupt, Crash, HearCancel, InvokeCancelled, TuiCancelled, ServiceQuits, Serving
<1>3. CASE Keyboard
  BY <1>3 DEF Keyboard, Leave, Edit, InvalidBody, LeaveWaiting, TerminalCloses, Enter
<1>4. CASE Owner
  BY <1>4 DEF Owner, InvokeAnswered, TuiAnswered, HandlerEnds, Serving
<1>5. CASE Peer
  BY <1>5 DEF Peer, BadFrame, EndOfInput, Receive, RequestCancelled, Serving
<1>6. CASE Proceeds
  <2>1. CASE Connects
    BY <2>1 DEF Connects, FirstPlace
  <2>2. ASSUME NEW c \in {"refused", "unavailable", "reconcile"}, ConnectFails(c) PROVE PlacesOfSession'
    BY <2>2 DEF ConnectFails
  <2>3. CASE Dispatch \/ InputFails("refused") \/ InputFails("unavailable") \/ Write \/ WriteFails
    BY <2>3 DEF Dispatch, InputFails, Write, WriteFails
  <2>4. CASE Draw \/ DrawFails
    BY <2>4 DEF Draw, DrawFails, DrawFailure
  <2>5. ASSUME NEW n \in Requests, Flushes(n) \/ Settles(n) \/ SendFails(n) PROVE PlacesOfSession'
    BY <2>5 DEF Flushes, Settles, SendFails
  <2>6. CASE Initialized \/ InitializeFails \/ ServiceQuits("closed")
    BY <2>6 DEF Initialized, InitializeFails, ServiceQuits, Serving
  <2>7. CASE ServeEnds
    BY <2>7 DEF ServeEnds, ServeResult
  <2> QED
    BY <1>6, <2>1, <2>2, <2>3, <2>4, <2>5, <2>6, <2>7 DEF Proceeds
<1> QED
  BY <1>1, <1>2, <1>3, <1>4, <1>5, <1>6 DEF Next
-----------------------------------------------------------------------------
(* What invoke and tui have sent and not told.                             *)

LEMMA OneAtATimeKept ==
  ASSUME TypeOK, PlacesOfSession, OneAtATime, [Next]_vars
  PROVE  OneAtATime'
<1> USE DEF mcp, Exit, Goes
<1>1. CASE UNCHANGED vars
  BY <1>1 DEF vars, OneAtATime
<1>2. CASE Interrupt \/ Crash \/ HearCancel
  BY <1>2 DEF Interrupt, Crash, HearCancel, InvokeCancelled, TuiCancelled, ServiceQuits, Serving, OneAtATime
<1>3. CASE Leave \/ Edit \/ InvalidBody \/ LeaveWaiting \/ TerminalCloses
  BY <1>3 DEF Leave, Edit, InvalidBody, LeaveWaiting, TerminalCloses, OneAtATime
<1>4. ASSUME NEW n \in Requests, Enter(n) PROVE OneAtATime'
  <2>1. CASE Becomes(n, "running") /\ at' = "waiting"
    <3>1. \A k \in Requests : k # n => requests'[k] = requests[k]
      BY <2>1, BecomesChanges DEF Progress
    <3>2. requests'[n] = "running"
      BY <2>1, BecomesChanges DEF Progress
    <3> QED
      BY <1>4, <2>1, <3>1, <3>2 DEF Enter, OneAtATime
  <2>2. CASE at' = "ended" /\ UNCHANGED requests
    BY <1>4, <2>2 DEF Enter, OneAtATime
  <2> QED
    BY <1>4, <2>1, <2>2 DEF Enter
<1>5. ASSUME NEW c \in {"ok", "refused", "reconcile"}, InvokeAnswered(c) PROVE OneAtATime'
  <2>1. /\ \A k \in Requests : k # 1 => requests'[k] = requests[k]
        /\ requests'[1] = "answered"
    BY <1>5, OneRequest, BecomesChanges DEF InvokeAnswered, Progress
  <2> QED
    BY <1>5, <2>1, OneRequest DEF InvokeAnswered, OneAtATime
<1>6. ASSUME NEW n \in Requests, NEW c \in {"ok", "refused", "reconcile"}, TuiAnswered(n, c) PROVE OneAtATime'
  <2>1. /\ \A k \in Requests : k # n => requests'[k] = requests[k]
        /\ requests'[n] = "answered"
    BY <1>6, BecomesChanges DEF TuiAnswered, Progress
  <2> QED
    BY <1>6, <2>1 DEF TuiAnswered, OneAtATime
<1>7. ASSUME at = "serving", at' \in {"serving", "ended"}, UNCHANGED session PROVE OneAtATime'
  BY <1>7 DEF OneAtATime, PlacesOfSession
<1>8. ASSUME NEW n \in Requests, HandlerEnds(n) \/ RequestCancelled(n) \/ Receive(n) \/ Flushes(n) \/ Settles(n) \/ SendFails(n)
      PROVE  OneAtATime'
  BY <1>7, <1>8 DEF HandlerEnds, RequestCancelled, Receive, Flushes, Settles, SendFails, Serving
<1>9. CASE BadFrame \/ EndOfInput \/ ServiceQuits("closed") \/ ServeEnds
  BY <1>7, <1>9 DEF BadFrame, EndOfInput, ServiceQuits, ServeEnds, Serving
<1>10. CASE Connects \/ Initialized \/ InitializeFails
  BY <1>10 DEF Connects, FirstPlace, Initialized, InitializeFails, OneAtATime, TypeOK
<1>11. ASSUME NEW c \in {"refused", "unavailable", "reconcile"}, ConnectFails(c) PROVE OneAtATime'
  BY <1>11 DEF ConnectFails, OneAtATime
<1>12. CASE Dispatch
  <2>1. /\ \A k \in Requests : k # 1 => requests'[k] = requests[k]
        /\ requests'[1] = "running"
    BY <1>12, OneRequest, BecomesChanges DEF Dispatch, Progress
  <2> QED
    BY <1>12, <2>1 DEF Dispatch, OneAtATime
<1>13. CASE InputFails("refused") \/ InputFails("unavailable")
  BY <1>13 DEF InputFails, OneAtATime
<1>14. CASE Write
  BY <1>14, OneRequest DEF Write, Delivered, OneAtATime
<1>15. CASE Draw
  BY <1>15 DEF Draw, Delivered, OneAtATime, PlacesOfSession
<1>16. CASE WriteFails \/ DrawFails
  BY <1>16 DEF WriteFails, DrawFails, OneAtATime
<1> QED
  BY <1>1, <1>2, <1>3, <1>4, <1>5, <1>6, <1>8, <1>9, <1>10, <1>11, <1>12, <1>13, <1>14, <1>15, <1>16
     DEF Next, Keyboard, Owner, Peer, Proceeds
-----------------------------------------------------------------------------
(* What mcp has sent and not told.                                         *)

\* No request is taken up or settled, and nothing is admitted.
LEMMA HeldKept ==
  ASSUME HeldArePending, UNCHANGED <<session, ids, pending>>,
         session = "mcp" => \A n \in Requests : Held(n)' => Held(n)
  PROVE  HeldArePending'
  BY DEF HeldArePending

\* A request that is held goes on to be held.
LEMMA HeldGoesOn ==
  ASSUME TypeOK, HeldArePending, NEW n \in Requests, Held(n),
         NEW p \in Progress \ {"new", "settled"}, Becomes(n, p), UNCHANGED <<session, ids, pending>>
  PROVE  HeldArePending'
<1>1. \A k \in Requests : k # n => requests'[k] = requests[k]
  BY BecomesChanges
<1>2. \A k \in Requests : Held(k)' => Held(k)
  BY <1>1 DEF Held
<1> QED
  BY <1>2, HeldKept

LEMMA AdmittedIsHeld ==
  ASSUME CliInv, NEW n \in Requests, Receive(n)
  PROVE  HeldArePending'
<1> USE DEF CliInv
<1>1. CASE ~Admitted(ids[n])
  BY <1>1, HeldKept DEF Receive, Closes, Held
<1>2. CASE Admitted(ids[n])
  <2>1. /\ IsFiniteSet(pending) /\ Cardinality(pending) \in Nat
        /\ Cardinality(pending) < MaxPending /\ ids[n] \notin pending
    BY <1>2, FS_CardinalityType DEF HeldArePending, Admitted
  <2>2. pending' = pending \cup {ids[n]} /\ UNCHANGED <<session, ids>> /\ Becomes(n, "running")
    BY <1>2 DEF Receive
  <2>3. IsFiniteSet(pending') /\ Cardinality(pending') <= MaxPending
    <3>1. /\ IsFiniteSet(pending \cup {ids[n]})
          /\ Cardinality(pending \cup {ids[n]}) = Cardinality(pending) + 1
      BY <2>1, FS_AddElement
    <3> QED
      BY <2>1, <2>2, <3>1, CliAssumption
  <2>4. \A k \in Requests : Held(k)' => k = n \/ Held(k)
    BY <2>2, BecomesChanges DEF Held, Progress
  <2>5. session = "mcp"
    BY DEF Receive, Serving, PlacesOfSession, TypeOK
  <2>6. \A k \in Requests : Held(k) => ids[k] \in pending
    BY <2>5 DEF HeldArePending
  <2>7. \A k, l \in Requests : Held(k) /\ Held(l) /\ ids[k] = ids[l] => k = l
    BY <2>5 DEF HeldArePending
  <2>8. \A k \in Requests : Held(k)' => ids'[k] \in pending'
    BY <2>2, <2>4, <2>6
  <2>9. \A k, l \in Requests : Held(k)' /\ Held(l)' /\ ids'[k] = ids'[l] => k = l
    BY <2>1, <2>2, <2>4, <2>6, <2>7
  <2> QED
    BY <2>3, <2>8, <2>9 DEF HeldArePending
<1> QED
  BY <1>1, <1>2

LEMMA SettledIsFree ==
  ASSUME CliInv, NEW n \in Requests, Settles(n)
  PROVE  HeldArePending'
<1> USE DEF CliInv
<1>1. /\ IsFiniteSet(pending) /\ Cardinality(pending) \in Nat /\ Cardinality(pending) <= MaxPending
  BY FS_CardinalityType DEF HeldArePending
<1>2. pending' = pending \ {ids[n]} /\ UNCHANGED <<session, ids>> /\ Becomes(n, "settled")
  BY DEF Settles
<1>3. IsFiniteSet(pending') /\ Cardinality(pending') <= MaxPending
  <2>1. /\ IsFiniteSet(pending \ {ids[n]})
        /\ Cardinality(pending \ {ids[n]}) = IF ids[n] \in pending THEN Cardinality(pending) - 1 ELSE Cardinality(pending)
    BY <1>1, FS_RemoveElement
  <2>2. Cardinality(pending \ {ids[n]}) <= Cardinality(pending)
    BY <1>1, <2>1
  <2> QED
    BY <1>1, <1>2, <2>1, <2>2, CliAssumption
<1>4. Held(n)
  BY DEF Settles, Held, Progress
<1>5. \A k \in Requests : Held(k)' => k # n /\ Held(k)
  BY <1>2, BecomesChanges DEF Held, Progress
<1>6. session = "mcp"
  BY DEF Settles, PlacesOfSession, TypeOK
<1>7. \A k \in Requests : Held(k) => ids[k] \in pending
  BY <1>6 DEF HeldArePending
<1>8. \A k, l \in Requests : Held(k) /\ Held(l) /\ ids[k] = ids[l] => k = l
  BY <1>6 DEF HeldArePending
<1>9. \A k \in Requests : Held(k)' => ids'[k] \in pending'
  BY <1>2, <1>4, <1>5, <1>7, <1>8
<1>10. \A k, l \in Requests : Held(k)' /\ Held(l)' /\ ids'[k] = ids'[l] => k = l
  BY <1>2, <1>5, <1>8
<1> QED
  BY <1>3, <1>9, <1>10 DEF HeldArePending

LEMMA HeldArePendingKept ==
  ASSUME CliInv, [Next]_vars
  PROVE  HeldArePending'
<1> USE DEF CliInv
<1>1. CASE session # "mcp" /\ UNCHANGED <<session, ids, pending>>
  BY <1>1, HeldKept
<1>2. CASE UNCHANGED <<session, requests, ids, pending>>
  BY <1>2, HeldKept DEF Held
<1>3. ASSUME NEW n \in Requests, HandlerEnds(n) \/ RequestCancelled(n) \/ Flushes(n) \/ SendFails(n)
      PROVE  HeldArePending'
  <2>1. Held(n)
    BY <1>3 DEF HandlerEnds, RequestCancelled, Flushes, SendFails, Held, Progress
  <2>2. PICK p \in Progress \ {"new", "settled"} : Becomes(n, p)
    BY <1>3 DEF HandlerEnds, RequestCancelled, Flushes, SendFails, Progress
  <2>3. UNCHANGED <<session, ids, pending>>
    BY <1>3 DEF HandlerEnds, RequestCancelled, Flushes, SendFails, mcp
  <2> QED
    BY <2>1, <2>2, <2>3, HeldGoesOn
<1>4. ASSUME NEW n \in Requests, Receive(n) \/ Settles(n) PROVE HeldArePending'
  BY <1>4, AdmittedIsHeld, SettledIsFree
<1>5. CASE UNCHANGED vars
  BY <1>2, <1>5 DEF vars, mcp
<1>6. CASE Interrupt \/ Crash \/ HearCancel
  BY <1>2, <1>6 DEF Interrupt, Crash, HearCancel, InvokeCancelled, TuiCancelled, ServiceQuits, mcp
<1>7. CASE Keyboard
  BY <1>1, <1>7 DEF Keyboard, Leave, Edit, InvalidBody, LeaveWaiting, TerminalCloses, Enter, mcp
<1>8. ASSUME NEW c \in {"ok", "refused", "reconcile"}, InvokeAnswered(c) \/ \E n \in Requests : TuiAnswered(n, c)
      PROVE  HeldArePending'
  BY <1>1, <1>8 DEF InvokeAnswered, TuiAnswered, mcp
<1>9. CASE BadFrame \/ EndOfInput
  BY <1>2, <1>9 DEF BadFrame, EndOfInput, Closes
<1>10. CASE Connects \/ (\E c \in {"refused", "unavailable", "reconcile"} : ConnectFails(c))
  BY <1>2, <1>10 DEF Connects, ConnectFails, mcp
<1>11. CASE Dispatch \/ InputFails("refused") \/ InputFails("unavailable") \/ Write \/ WriteFails \/ Draw \/ DrawFails
  <2>1. session # "mcp"
    BY <1>11 DEF Dispatch, InputFails, Write, WriteFails, Draw, DrawFails, PlacesOfSession
  <2> QED
    BY <1>1, <1>11, <2>1 DEF Dispatch, InputFails, Write, WriteFails, Draw, DrawFails, mcp
<1>12. CASE Initialized \/ InitializeFails \/ ServiceQuits("closed") \/ ServeEnds
  BY <1>2, <1>12 DEF Initialized, InitializeFails, ServiceQuits, ServeEnds, mcp
<1> QED
  BY <1>3, <1>4, <1>5, <1>6, <1>7, <1>8, <1>9, <1>10, <1>11, <1>12 DEF Next, Owner, Peer, Proceeds

-----------------------------------------------------------------------------
(* What the exit code says.                                                *)

\* A step that leaves the exit code alone, of a process that runs or did end.
LEMMA NoExitNoClaim ==
  ASSUME CliInv, UNCHANGED exit, at # "ended" \/ UNCHANGED vars
  PROVE  UnknownIsReconcile'
<1>1. CASE UNCHANGED vars
  BY <1>1 DEF vars, mcp, CliInv, UnknownIsReconcile, Unknown
<1>2. CASE at # "ended"
  BY <1>2 DEF CliInv, PlacesOfSession, UnknownIsReconcile
<1> QED
  BY <1>1, <1>2

\* An exit that claims nothing.
LEMMA SilentExit ==
  ASSUME exit' \in {"reconcile", "output", "none"}
  PROVE  UnknownIsReconcile'
  BY DEF UnknownIsReconcile

\* An exit when all that was sent was told.
LEMMA TruthfulExit ==
  ASSUME \A n \in Requests : requests'[n] \in {"new", "delivered", "settled"}
  PROVE  UnknownIsReconcile'
  BY DEF UnknownIsReconcile, Unknown

LEMMA ExitCodeKept ==
  ASSUME CliInv, [Next]_vars
  PROVE  UnknownIsReconcile'
<1> USE DEF CliInv
<1>1. CASE UNCHANGED vars
  BY <1>1, NoExitNoClaim DEF vars
<1>2. CASE Interrupt \/ Crash \/ HearCancel
  BY <1>2, NoExitNoClaim, SilentExit
     DEF Interrupt, Crash, HearCancel, InvokeCancelled, TuiCancelled, ServiceQuits, Serving, Exit, Goes
<1>3. CASE Leave \/ TerminalCloses
  BY <1>3, TruthfulExit DEF Leave, TerminalCloses, OneAtATime
<1>4. CASE Edit \/ InvalidBody \/ LeaveWaiting
  BY <1>4, NoExitNoClaim, SilentExit DEF Edit, InvalidBody, LeaveWaiting, Exit, Goes
<1>5. ASSUME NEW n \in Requests, Enter(n) PROVE UnknownIsReconcile'
  <2>1. CASE UNCHANGED requests
    BY <1>5, <2>1, TruthfulExit DEF Enter, OneAtATime
  <2>2. CASE Goes("waiting")
    BY <1>5, <2>2, NoExitNoClaim DEF Enter, Goes
  <2> QED
    BY <1>5, <2>1, <2>2 DEF Enter
<1>6. CASE Owner
  BY <1>6, NoExitNoClaim DEF Owner, InvokeAnswered, TuiAnswered, HandlerEnds, Serving, Goes
<1>7. CASE Peer
  BY <1>7, NoExitNoClaim DEF Peer, BadFrame, EndOfInput, Receive, RequestCancelled, Serving
<1>8. ASSUME NEW c \in {"refused", "unavailable", "reconcile"}, Connects \/ ConnectFails(c) PROVE UnknownIsReconcile'
  <2>1. CASE UNCHANGED exit
    BY <1>8, <2>1, NoExitNoClaim DEF Connects, ConnectFails
  <2>2. CASE UNCHANGED requests
    BY <1>8, <2>2, TruthfulExit DEF Connects, ConnectFails, OneAtATime
  <2> QED
    BY <1>8, <2>1, <2>2 DEF Connects, ConnectFails
<1>9. CASE Dispatch \/ InputFails("refused") \/ InputFails("unavailable") \/ Draw
  BY <1>9, NoExitNoClaim DEF Dispatch, InputFails, Draw, Goes
<1>10. CASE Write
  <2>1. CASE code = "reconcile"
    BY <1>10, <2>1, SilentExit DEF Write, Exit
  <2>2. CASE code # "reconcile"
    <3>1. \A n \in Requests : requests'[n] \in {"new", "delivered"}
      BY <1>10, <2>2 DEF Write, Delivered, OneAtATime
    <3> QED
      BY <3>1, TruthfulExit
  <2> QED
    BY <2>1, <2>2
<1>11. CASE WriteFails
  BY <1>11, SilentExit DEF WriteFails, Exit
<1>12. CASE DrawFails
  <2>1. CASE shown
    BY <1>12, <2>1, TruthfulExit DEF DrawFails, OneAtATime
  <2>2. CASE ~shown
    BY <1>12, <2>2, SilentExit DEF DrawFails, DrawFailure, Exit
  <2> QED
    BY <2>1, <2>2
<1>13. ASSUME NEW n \in Requests, Flushes(n) \/ Settles(n) \/ SendFails(n) PROVE UnknownIsReconcile'
  BY <1>13, NoExitNoClaim DEF Flushes, Settles, SendFails
<1>14. CASE Initialized \/ ServiceQuits("closed")
  BY <1>14, NoExitNoClaim DEF Initialized, ServiceQuits, Serving, Goes
<1>15. CASE InitializeFails
  BY <1>15, TruthfulExit DEF InitializeFails, OneAtATime
<1>16. CASE ServeEnds
  <2>1. exit' = ServeResult /\ UNCHANGED <<session, requests, quit>> /\ session = "mcp"
    BY <1>16 DEF ServeEnds, Exit, mcp, PlacesOfSession, TypeOK
  <2>2. CASE quit = "crashed"
    BY <2>1, <2>2 DEF UnknownIsReconcile
  <2>3. CASE quit # "crashed" /\ pending # {}
    BY <2>1, <2>3, SilentExit DEF ServeResult
  <2>4. CASE pending = {}
    <3>1. \A n \in Requests : ~Held(n)
      BY <2>1, <2>4 DEF HeldArePending
    <3>2. \A n \in Requests : requests[n] \in {"new", "settled"}
      BY <3>1 DEF Held, TypeOK
    <3> QED
      BY <2>1, <3>2, TruthfulExit
  <2> QED
    BY <2>2, <2>3, <2>4
<1> QED
  BY <1>1, <1>2, <1>3, <1>4, <1>5, <1>6, <1>7, <1>8, <1>9, <1>10, <1>11, <1>12, <1>13, <1>14, <1>15, <1>16
     DEF Next, Keyboard, Proceeds

-----------------------------------------------------------------------------
LEMMA CliInvHolds ==
  Spec => []CliInv
<1>1. Init => CliInv
  BY CliInitInv
<1>2. CliInv /\ [Next]_vars => CliInv'
  BY TypesKept, PlacesKept, OneAtATimeKept, HeldArePendingKept, ExitCodeKept DEF CliInv
<1> QED
  BY <1>1, <1>2, PTL DEF Spec

\* For any ids and limits, every variable of a client process has its type.
THEOREM CliTypeCorrect ==
  Spec => []TypeOK
<1>1. CliInv => TypeOK
  BY DEF CliInv
<1> QED
  BY <1>1, CliInvHolds, PTL

\* A process that does not end as Reconcile, or with broken output, told the
\* outcome of every action it sent, whatever broke and whenever.
THEOREM UnknownIsReconcileHolds ==
  Spec => []UnknownIsReconcile
<1>1. CliInv => UnknownIsReconcile
  BY DEF CliInv
<1> QED
  BY <1>1, CliInvHolds, PTL

\* At most MAX_PENDING requests of an mcp session have no flushed response,
\* each with an id of its own.
THEOREM BacklogIsBounded ==
  Spec => []BacklogBounded
<1>1. ASSUME CliInv, session = "mcp"
      PROVE  LET held == {n \in Requests : requests[n] \in Progress \ {"new", "settled"}} IN
             /\ Cardinality(held) <= MaxPending
             /\ \A m, n \in held : ids[m] = ids[n] => m = n
  <2> DEFINE held == {n \in Requests : requests[n] \in Progress \ {"new", "settled"}}
             idOf == [n \in held |-> ids[n]]
  <2>1. /\ \A n \in held : ids[n] \in pending
        /\ \A m, n \in held : ids[m] = ids[n] => m = n
    BY <1>1 DEF CliInv, HeldArePending, Held
  <2>2. idOf \in Injection(held, pending)
    BY <2>1 DEF Injection, IsInjective
  <2>3. IsFiniteSet(pending) /\ Cardinality(pending) <= MaxPending
    BY <1>1 DEF CliInv, HeldArePending
  <2> HIDE DEF held, idOf
  <2>4. IsFiniteSet(held) /\ Cardinality(held) <= Cardinality(pending)
    BY <2>2, <2>3, FS_Injection
  <2>5. Cardinality(held) \in Nat /\ Cardinality(pending) \in Nat
    BY <2>3, <2>4, FS_CardinalityType
  <2>6. Cardinality(held) <= MaxPending
    BY <2>3, <2>4, <2>5, CliAssumption
  <2> QED
    BY <2>1, <2>6 DEF held
<1>2. CliInv => BacklogBounded
  BY <1>1 DEF BacklogBounded
<1> QED
  BY <1>2, CliInvHolds, PTL
=============================================================================
