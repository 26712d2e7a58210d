---------------------------------- MODULE Cli ----------------------------------
(***************************************************************************)
(* A process of the command line client (apps/cli): one of its three       *)
(* connected sessions, invoke, tui and mcp, from the import of the         *)
(* capability to the exit code.                                            *)
(*                                                                         *)
(* What the process must get right is what it says when it ends: an action *)
(* that was sent to the owner may have had its effect, so the exit code is *)
(* Reconcile unless the outcome of every such action was handed to whoever *)
(* asked.  An interrupt, a closed pipe, a stalled reader, a full or        *)
(* repeated request and a failed draw all end a session, at any moment.    *)
(*                                                                         *)
(* The owner (cmsg) and the MCP SDK are external: the owner answers or     *)
(* not, the SDK runs a handler per request, sends their responses in any   *)
(* order, drops the response of a request its peer cancelled, and leaves   *)
(* its loop when its input ends or it is cancelled.  Bodies, schemas and   *)
(* the drawing itself are left out.                                        *)
(***************************************************************************)
EXTENDS Naturals, FiniteSets

CONSTANTS
  Ids,          \* JSON-RPC request ids a peer uses
  MaxPending,   \* MAX_PENDING
  MaxRequests   \* bound: requests of one session

ASSUME CliAssumption == MaxPending \in Nat /\ MaxRequests \in Nat \ {0}

VARIABLES
  session,    \* "invoke", "tui" or "mcp"
  at,         \* where the session is
  cancelled,  \* the cancellation token
  code,       \* result of the last action, of which the exit code is made
  shown,      \* tui: the last response was drawn (~response_not_shown)
  requests,   \* what became of each request; request n is the n-th one
  ids,        \* mcp: id of each request
  pending,    \* mcp: ids admitted and not yet answered
  failed,     \* mcp: the transport failed
  reading,    \* mcp: receive still yields messages
  quit,       \* mcp: why the service ended
  exit        \* exit code, "none" while the process runs

mcp == <<ids, pending, failed, reading, quit>>
vars == <<session, at, cancelled, code, shown, requests, mcp, exit>>

Requests == 1..MaxRequests

\* "refused" is any error that settles the action, of the owner or of a limit
\* kept before it is sent; "invalid" is a body that is no JSON.
Code == {"ok", "refused", "invalid", "unavailable", "reconcile"}

\* "running" is sent to the owner; "answered" has a response nobody has seen;
\* "dropped" will get none; "delivered" has its response out, "settled" has
\* also given up its place; "lost" could not be delivered.
Progress == {"new", "running", "answered", "dropped", "delivered", "settled", "lost"}

\* Sent to the owner, and nobody was told what came of it.
Unknown == {n \in Requests : requests[n] \in {"running", "answered", "dropped", "lost"}}

Init ==
  /\ session \in {"invoke", "tui", "mcp"}
  /\ at = "connecting" /\ cancelled = FALSE /\ code = "ok" /\ shown = TRUE
  /\ requests = [n \in Requests |-> "new"]
  /\ ids \in [Requests -> Ids] /\ pending = {}
  /\ failed = FALSE /\ reading = TRUE /\ quit = "none"
  /\ exit = "none"

IsNext(n) == requests[n] = "new" /\ \A k \in 1..(n - 1) : requests[k] # "new"
Becomes(n, progress) == requests' = [requests EXCEPT ![n] = progress]
Exit(c) == exit' = c /\ at' = "ended"
Goes(place) == at' = place /\ UNCHANGED exit

-----------------------------------------------------------------------------
(* The import of the capability, common to the three.                      *)

\* ctrl_c() resolves.
Interrupt ==
  /\ at # "ended" /\ ~cancelled
  /\ cancelled' = TRUE
  /\ UNCHANGED <<session, at, code, shown, requests, mcp, exit>>

FirstPlace == [invoke |-> "reading", tui |-> "drawing", mcp |-> "initializing"][session]

Connects ==
  /\ at = "connecting"
  /\ Goes(FirstPlace)
  /\ UNCHANGED <<session, cancelled, code, shown, requests, mcp>>

\* No capability: invoke still writes the error down, the others end with it.
ConnectFails(c) ==
  /\ at = "connecting"
  /\ c = "reconcile" => cancelled
  /\ IF session = "invoke" THEN Goes("writing") /\ code' = c
                           ELSE Exit(c) /\ UNCHANGED code
  /\ UNCHANGED <<session, cancelled, shown, requests, mcp>>

-----------------------------------------------------------------------------
(* invoke.                                                                 *)

\* Standard input was read in time.
Dispatch ==
  /\ at = "reading"
  /\ Becomes(1, "running")
  /\ Goes("waiting")
  /\ UNCHANGED <<session, cancelled, code, shown, mcp>>

InputFails(c) ==
  /\ at = "reading"
  /\ code' = c
  /\ Goes("writing")
  /\ UNCHANGED <<session, cancelled, shown, requests, mcp>>

\* The owner's answer, or what its client makes of a lost one.
InvokeAnswered(c) ==
  /\ session = "invoke" /\ at = "waiting"
  /\ Becomes(1, "answered")
  /\ code' = c
  /\ Goes("writing")
  /\ UNCHANGED <<session, cancelled, shown, mcp>>

InvokeCancelled ==
  /\ session = "invoke" /\ at \in {"reading", "waiting"} /\ cancelled
  /\ code' = "reconcile"
  /\ Goes("writing")
  /\ UNCHANGED <<session, cancelled, shown, requests, mcp>>

Delivered == [n \in Requests |-> IF requests[n] = "answered" THEN "delivered" ELSE requests[n]]

\* The envelope is written, or the write fails or takes too long: exit 1.
Write ==
  /\ at = "writing"
  /\ Exit(code)
  /\ requests' = Delivered
  /\ UNCHANGED <<session, cancelled, code, shown, mcp>>

WriteFails ==
  /\ at = "writing"
  /\ Exit("output")
  /\ UNCHANGED <<session, cancelled, code, shown, requests, mcp>>

-----------------------------------------------------------------------------
(* tui: one operation at a time.                                           *)

Draw ==
  /\ at = "drawing"
  /\ shown' = TRUE
  /\ requests' = Delivered
  /\ Goes("idle")
  /\ UNCHANGED <<session, cancelled, code, mcp>>

\* A draw that fails leaves the last response unseen.
DrawFailure == IF shown THEN "unavailable" ELSE "reconcile"

DrawFails ==
  /\ at = "drawing"
  /\ Exit(DrawFailure)
  /\ UNCHANGED <<session, cancelled, code, shown, requests, mcp>>

\* Esc; the exit code is that of the last result.
Leave ==
  /\ session = "tui" /\ at = "idle"
  /\ Exit(code)
  /\ UNCHANGED <<session, cancelled, code, shown, requests, mcp>>

\* A key that edits.
Edit ==
  /\ session = "tui" /\ at = "idle"
  /\ Goes("drawing")
  /\ UNCHANGED <<session, cancelled, code, shown, requests, mcp>>

\* Enter on a body that is no JSON: nothing is sent.
InvalidBody ==
  /\ session = "tui" /\ at = "idle"
  /\ code' = "invalid" /\ shown' = FALSE
  /\ Goes("drawing")
  /\ UNCHANGED <<session, cancelled, requests, mcp>>

\* Enter: "Outcome unknown" is drawn, and only then the action is sent.
Enter(n) ==
  /\ session = "tui" /\ at = "idle" /\ IsNext(n)
  /\ \/ Becomes(n, "running") /\ Goes("waiting")
     \/ Exit("unavailable") /\ UNCHANGED requests
  /\ UNCHANGED <<session, cancelled, code, shown, mcp>>

TuiAnswered(n, c) ==
  /\ session = "tui" /\ at = "waiting" /\ requests[n] = "running"
  /\ Becomes(n, "answered")
  /\ code' = c /\ shown' = FALSE
  /\ Goes("drawing")
  /\ UNCHANGED <<session, cancelled, mcp>>

\* Esc, or a terminal that closes, while the owner has not answered.
LeaveWaiting ==
  /\ session = "tui" /\ at = "waiting"
  /\ Exit("reconcile")
  /\ UNCHANGED <<session, cancelled, code, shown, requests, mcp>>

TerminalCloses ==
  /\ session = "tui" /\ at = "idle"
  /\ Exit("unavailable")
  /\ UNCHANGED <<session, cancelled, code, shown, requests, mcp>>

\* Mutant of TuiCancelled: the wait for the owner does not listen.
TuiCancelledIdle ==
  /\ session = "tui" /\ at = "idle" /\ cancelled
  /\ Exit("reconcile")
  /\ UNCHANGED <<session, cancelled, code, shown, requests, mcp>>

TuiCancelled ==
  /\ session = "tui" /\ at \in {"idle", "waiting"} /\ cancelled
  /\ Exit("reconcile")
  /\ UNCHANGED <<session, cancelled, code, shown, requests, mcp>>

-----------------------------------------------------------------------------
(* mcp.                                                                    *)

\* The handshake, in which nothing is sent to the owner.
Initialized ==
  /\ at = "initializing"
  /\ Goes("serving")
  /\ UNCHANGED <<session, cancelled, code, shown, requests, mcp>>

InitializeFails ==
  /\ at = "initializing"
  /\ Exit("unavailable")
  /\ UNCHANGED <<session, cancelled, code, shown, requests, mcp>>

Serving == at = "serving" /\ quit = "none"

\* Mutant of Admitted: a repeated id is let in.
AdmittedRepeated(id) == Cardinality(pending) < MaxPending

Admitted(id) == Cardinality(pending) < MaxPending /\ id \notin pending

Closes == failed' = TRUE /\ cancelled' = TRUE /\ reading' = FALSE

\* receive() yields a request, and the SDK runs its handler (one that names no
\* action of the owner is answered in the same way); a request that is not
\* admitted closes the transport.
Receive(n) ==
  /\ Serving /\ reading /\ IsNext(n)
  /\ IF Admitted(ids[n])
       THEN /\ pending' = pending \cup {ids[n]}
            /\ Becomes(n, "running")
            /\ UNCHANGED <<failed, cancelled, reading>>
       ELSE Closes /\ UNCHANGED <<pending, requests>>
  /\ UNCHANGED <<session, at, code, shown, ids, quit, exit>>

\* A frame that is malformed or too large, or none for too long.
BadFrame ==
  /\ Serving /\ reading
  /\ Closes
  /\ UNCHANGED <<session, at, code, shown, requests, ids, pending, quit, exit>>

EndOfInput ==
  /\ Serving /\ reading
  /\ reading' = FALSE
  /\ UNCHANGED <<session, at, cancelled, code, shown, requests, ids, pending, failed, quit, exit>>

\* Mutant of HandlerEnds: the place is given up with the result.
HandlerEndsFrees(n) ==
  /\ Serving /\ requests[n] = "running"
  /\ Becomes(n, "answered")
  /\ pending' = pending \ {ids[n]}
  /\ UNCHANGED <<session, at, cancelled, code, shown, ids, failed, reading, quit, exit>>

\* The handler has its result: the owner's, or Reconcile when cancelled.
HandlerEnds(n) ==
  /\ Serving /\ requests[n] = "running"
  /\ Becomes(n, "answered")
  /\ UNCHANGED <<session, at, cancelled, code, shown, mcp, exit>>

\* The peer cancelled the request, whose response the SDK then drops.
RequestCancelled(n) ==
  /\ Serving /\ requests[n] = "running"
  /\ Becomes(n, "dropped")
  /\ UNCHANGED <<session, at, cancelled, code, shown, mcp, exit>>

\* send(): the response is out; a moment later its place is free.  A send the
\* SDK has started goes on when the service ends.
Flushes(n) ==
  /\ at = "serving" /\ requests[n] = "answered"
  /\ Becomes(n, "delivered")
  /\ UNCHANGED <<session, at, cancelled, code, shown, mcp, exit>>

Settles(n) ==
  /\ at = "serving" /\ requests[n] = "delivered"
  /\ Becomes(n, "settled")
  /\ pending' = pending \ {ids[n]}
  /\ UNCHANGED <<session, at, cancelled, code, shown, ids, failed, reading, quit, exit>>

\* send(): too large, refused, or not taken in time.
SendFails(n) ==
  /\ at = "serving" /\ requests[n] = "answered"
  /\ Becomes(n, "lost")
  /\ failed' = TRUE /\ cancelled' = TRUE
  /\ UNCHANGED <<session, at, code, shown, ids, pending, reading, quit, exit>>

\* The SDK leaves its loop; what runs is dropped.
ServiceQuits(reason) ==
  /\ Serving
  /\ reason = "closed" => ~reading
  /\ reason = "cancelled" => cancelled
  /\ quit' = reason
  /\ UNCHANGED <<session, at, cancelled, code, shown, requests, ids, pending, failed, reading, exit>>

\* The end of serve().
ServeResult ==
  IF quit = "crashed" THEN "unavailable"
  ELSE IF pending # {} THEN "reconcile"
  ELSE IF failed THEN "unavailable"
  ELSE IF quit = "closed" THEN "ok" ELSE "reconcile"

ServeEnds ==
  /\ at = "serving" /\ quit # "none"
  /\ Exit(ServeResult)
  /\ UNCHANGED <<session, cancelled, code, shown, requests, mcp>>

-----------------------------------------------------------------------------
Owner ==
  \/ \E c \in {"ok", "refused", "reconcile"} :
       InvokeAnswered(c) \/ \E n \in Requests : TuiAnswered(n, c)
  \/ \E n \in Requests : HandlerEnds(n)

Keyboard ==
  \/ Leave \/ Edit \/ InvalidBody \/ LeaveWaiting \/ TerminalCloses
  \/ \E n \in Requests : Enter(n)

Peer ==
  \/ BadFrame \/ EndOfInput
  \/ \E n \in Requests : Receive(n) \/ RequestCancelled(n)

HearCancel == InvokeCancelled \/ TuiCancelled \/ ServiceQuits("cancelled")

\* What the process does by itself, each step under a deadline or at once.
Proceeds ==
  \/ Connects \/ \E c \in {"refused", "unavailable", "reconcile"} : ConnectFails(c)
  \/ Dispatch \/ InputFails("refused") \/ InputFails("unavailable") \/ Write \/ WriteFails
  \/ Draw \/ DrawFails
  \/ \E n \in Requests : Flushes(n) \/ Settles(n) \/ SendFails(n)
  \/ Initialized \/ InitializeFails \/ ServiceQuits("closed") \/ ServeEnds

\* The SDK's task ends by a panic.
Crash == ServiceQuits("crashed")

Next == Interrupt \/ Crash \/ Owner \/ Keyboard \/ Peer \/ HearCancel \/ Proceeds

Spec == Init /\ [][Next]_vars

\* Reads, draws and writes end by their deadlines; a select! that is entered
\* again and again takes a branch that is always ready at some time, since it
\* polls its branches in a random order.
FairSpec == Spec /\ WF_vars(Proceeds) /\ SF_vars(HearCancel)

-----------------------------------------------------------------------------
(* Properties.                                                             *)

\* Every variable stays in its type.
TypeOK ==
  /\ session \in {"invoke", "tui", "mcp"}
  /\ at \in {"connecting", "reading", "waiting", "writing", "drawing", "idle", "initializing", "serving", "ended"}
  /\ cancelled \in BOOLEAN /\ shown \in BOOLEAN /\ failed \in BOOLEAN /\ reading \in BOOLEAN
  /\ code \in Code
  /\ requests \in [Requests -> Progress]
  /\ ids \in [Requests -> Ids] /\ pending \subseteq Ids
  /\ quit \in {"none", "closed", "cancelled", "crashed"}
  /\ exit \in Code \cup {"none", "output"}

\* The process never ends with a settled outcome, success above all, while
\* an action it sent has an outcome that nobody was told: it says Reconcile,
\* or for invoke that the output failed.  A crash of the SDK's own task is
\* the one way to Unavailable that does not look at what was sent.
UnknownIsReconcile ==
  exit \in {"ok", "refused", "invalid", "unavailable"} /\ quit # "crashed" => Unknown = {}

\* Results that nobody reads do not pile up: a request keeps its place until
\* its response is out, and no id has two requests in the meantime.
BacklogBounded ==
  LET held == {n \in Requests : requests[n] \in Progress \ {"new", "settled"}} IN
  session = "mcp" =>
    /\ Cardinality(held) <= MaxPending
    /\ \A m, n \in held : ids[m] = ids[n] => m = n

\* An interrupt ends the process, in whatever session and place it is.
InterruptEnds == cancelled ~> exit # "none"
=============================================================================
