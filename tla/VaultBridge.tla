----------------------------- MODULE VaultBridge -----------------------------
(***************************************************************************)
(* Calls from the member page to the vault frame over one MessagePort      *)
(* (apps/web/src/browser/harness/rpc.ts), the frame that lets some of them *)
(* wait for the passkey ceremony (frame.ts), and the ceremony itself       *)
(* (module Ceremony, extended here).                                       *)
(*                                                                         *)
(* The page numbers its calls and arms a timer for each; the vault answers *)
(* calls in the order they end.  Between them are two queues.  An          *)
(* operation is three steps of the vault: it is received, it begins once   *)
(* the ceremony it waits for is granted, and it ends with a reply; other   *)
(* calls, results and timers come in between.  What an operation does, and *)
(* the values it returns, are left out.                                    *)
(***************************************************************************)
EXTENDS Ceremony, Sequences

CONSTANT MaxCalls  \* bound: calls the page makes

ASSUME BridgeAssumption == MaxCalls \in Nat /\ MaxCalls <= MaxRequests

VARIABLES
  closed,    \* the page disposed of the connection
  call,      \* [Calls -> what the page knows of the call]
  method,    \* [Calls -> the kind of operation asked for]
  toVault,   \* messages to the vault: ids of calls, 0 for { dispose: true }
  toUi,      \* replies to the page
  lastId,    \* last id the vault served
  serving,   \* the vault still listens on its port
  phase,     \* [Calls -> where the call is in the vault]
  ticket,    \* [Calls -> the ceremony request the call waits for, 0 for none]
  ran        \* calls whose operation ran

bvars == <<closed, call, method, toVault, toUi, lastId, serving, phase, ticket, ran>>
vars == <<cvars, bvars>>

Calls == 1..MaxCalls
Method == {"plain", "ceremony", "unknown"}

Init ==
  /\ CeremonyInit
  /\ closed = FALSE
  /\ call = [c \in Calls |-> "idle"]
  /\ method = [c \in Calls |-> "plain"]
  /\ toVault = <<>>
  /\ toUi = <<>>
  /\ lastId = 0
  /\ serving = TRUE
  /\ phase = [c \in Calls |-> "away"]
  /\ ticket = [c \in Calls |-> 0]
  /\ ran = {}

-----------------------------------------------------------------------------
(* The page: connectVault.                                                 *)

NextId(c) == call[c] = "idle" /\ \A d \in 1..(c - 1) : call[d] # "idle"

Issue(c, m) ==
  /\ ~closed /\ NextId(c)
  /\ call' = [call EXCEPT ![c] = "pending"]
  /\ method' = [method EXCEPT ![c] = m]
  /\ toVault' = Append(toVault, c)
  /\ UNCHANGED <<cvars, closed, toUi, lastId, serving, phase, ticket, ran>>

CallTimeout(c) ==
  /\ call[c] = "pending"
  /\ call' = [call EXCEPT ![c] = "error"]
  /\ UNCHANGED <<cvars, closed, method, toVault, toUi, lastId, serving, phase, ticket, ran>>

\* Mutant of Expected: a reply is taken for a call that already ended.
ExpectedAlways(id) == TRUE

\* A reply is for a call that still waits; a late one finds no entry.
Expected(id) == call[id] = "pending"

PageReceives ==
  /\ ~closed /\ toUi # <<>>
  /\ toUi' = Tail(toUi)
  /\ LET reply == Head(toUi) IN
       call' = IF Expected(reply.id)
               THEN [call EXCEPT ![reply.id] = IF reply.ok THEN "ok" ELSE "error"]
               ELSE call
  /\ UNCHANGED <<cvars, closed, method, toVault, lastId, serving, phase, ticket, ran>>

PageDisposes ==
  /\ ~closed
  /\ closed' = TRUE
  /\ toVault' = Append(toVault, 0)
  /\ call' = [c \in Calls |-> IF call[c] = "pending" THEN "error" ELSE call[c]]
  /\ UNCHANGED <<cvars, method, toUi, lastId, serving, phase, ticket, ran>>

-----------------------------------------------------------------------------
(* The vault: serveVault, and startFrame's hook before an operation.       *)

\* A reply on a port that was closed is lost.
Reply(c, ok) == toUi' = IF serving THEN Append(toUi, [id |-> c, ok |-> ok]) ELSE toUi

\* Mutant of Awaits: the ceremony is asked for and not awaited.
AwaitsNothing(c) ==
  /\ ticket' = ticket
  /\ UNCHANGED cvars

\* The hook before an operation: one that needs the ceremony joins the request
\* in progress or starts one; the others wait for nothing.
Awaits(c) ==
  IF method[c] # "ceremony" THEN ticket' = ticket /\ UNCHANGED cvars
  ELSE IF pending THEN ticket' = [ticket EXCEPT ![c] = nonce] /\ UNCHANGED cvars
  ELSE \E r \in Requests : Require(r) /\ ticket' = [ticket EXCEPT ![c] = r]

\* port.onmessage of a call: ids must increase, the operation must exist.
ReceiveCall ==
  /\ serving /\ toVault # <<>> /\ Head(toVault) # 0
  /\ toVault' = Tail(toVault)
  /\ LET c == Head(toVault) IN
       IF c <= lastId
       THEN Reply(c, FALSE) /\ UNCHANGED <<cvars, lastId, phase, ticket>>
       ELSE /\ lastId' = c
            /\ IF method[c] = "unknown"
               THEN Reply(c, FALSE) /\ UNCHANGED <<cvars, phase, ticket>>
               ELSE /\ phase' = [phase EXCEPT ![c] = "waiting"]
                    /\ Awaits(c)
                    /\ UNCHANGED toUi
  /\ UNCHANGED <<closed, call, method, serving, ran>>

ReceiveDispose ==
  /\ serving /\ toVault # <<>> /\ Head(toVault) = 0
  /\ toVault' = Tail(toVault)
  /\ serving' = FALSE
  /\ UNCHANGED <<cvars, closed, call, method, toUi, lastId, phase, ticket, ran>>

Granted(c) == IF ticket[c] = 0 THEN TRUE ELSE outcome[ticket[c]] = "resolved"

\* The hook resolved: the operation runs, or refuses its arguments.
Begin(c) ==
  /\ phase[c] = "waiting" /\ Granted(c)
  /\ \/ /\ phase' = [phase EXCEPT ![c] = "running"]
        /\ ran' = ran \cup {c}
        /\ UNCHANGED toUi
     \/ /\ phase' = [phase EXCEPT ![c] = "over"]
        /\ Reply(c, FALSE)
        /\ UNCHANGED ran
  /\ UNCHANGED <<cvars, closed, call, method, toVault, lastId, serving, ticket>>

\* Mutant of Denied: a refused ceremony is not answered.
DeniedSilently(c) ==
  /\ phase[c] = "waiting" /\ ticket[c] # 0 /\ outcome[ticket[c]] = "rejected"
  /\ UNCHANGED vars

\* The hook rejected: the caller gets the ceremony's error.
Denied(c) ==
  /\ phase[c] = "waiting" /\ ticket[c] # 0 /\ outcome[ticket[c]] = "rejected"
  /\ phase' = [phase EXCEPT ![c] = "over"]
  /\ Reply(c, FALSE)
  /\ UNCHANGED <<cvars, closed, call, method, toVault, lastId, serving, ticket, ran>>

\* The operation ends, with a value or an error after what it did.
End(c, ok) ==
  /\ phase[c] = "running"
  /\ phase' = [phase EXCEPT ![c] = "over"]
  /\ Reply(c, ok)
  /\ UNCHANGED <<cvars, closed, call, method, toVault, lastId, serving, ticket, ran>>

\* startFrame's dispose: the port stops and the ceremony is closed.
FrameDisposes ==
  /\ Dispose
  /\ serving' = FALSE
  /\ UNCHANGED <<closed, call, method, toVault, toUi, lastId, phase, ticket, ran>>

CeremonySteps == (User \/ Runs) /\ UNCHANGED bvars

Step(c) == Begin(c) \/ Denied(c) \/ \E ok \in BOOLEAN : End(c, ok)

Next ==
  \/ \E c \in Calls :
       \/ \E m \in Method : Issue(c, m)
       \/ CallTimeout(c)
       \/ Step(c)
  \/ PageReceives
  \/ PageDisposes
  \/ ReceiveCall
  \/ ReceiveDispose
  \/ FrameDisposes
  \/ CeremonySteps

Spec == Init /\ [][Next]_vars

\* Timers fire, messages arrive and operations end; the user, who makes the
\* calls and stands before the pop-up, owes nothing.
Fairness ==
  /\ \A c \in Calls : WF_vars(CallTimeout(c)) /\ WF_vars(Step(c))
  /\ WF_vars(PageReceives) /\ WF_vars(ReceiveCall) /\ WF_vars(ReceiveDispose)
  /\ WF_vars(Runs /\ UNCHANGED bvars)

FairSpec == Spec /\ Fairness

-----------------------------------------------------------------------------
(* Properties.                                                             *)

Remote == INSTANCE RemoteCalls WITH result <- call

\* Over two queues, late replies, timers, a ceremony that may be refused and
\* a page that may leave, a call still settles once, runs at most once, and
\* succeeds only if it ran.
ImplementsRemoteCalls == Remote!Spec

\* An operation that needs the ceremony runs only after its own request was
\* granted, also when several calls share one ceremony.
RunsWhenGranted ==
  \A c \in Calls : c \in ran /\ method[c] = "ceremony" =>
     ticket[c] # 0 /\ outcome[ticket[c]] = "resolved"

\* Every call the vault took up gets its end, granted or not, even when the
\* page timed out and asked again: no caller waits for a ceremony that is over.
EveryCallEnds == \A c \in Calls : (phase[c] = "waiting") ~> (phase[c] = "over")
=============================================================================
