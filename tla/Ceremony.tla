------------------------------- MODULE Ceremony -------------------------------
(***************************************************************************)
(* The pop-up route of the passkey ceremony                                *)
(* (apps/web/src/browser/harness/ceremony.ts): the controller in the vault *)
(* frame, the one named pop-up window, the user in front of it, and the    *)
(* same-origin BroadcastChannel over which the pop-up reports its result.  *)
(*                                                                         *)
(* A handler of the controller runs without an await, so it is one action. *)
(* What interleaves are the user (who continues, answers, or closes the    *)
(* window), the results on their way, the poll that looks whether the      *)
(* window was closed, and the deadline.                                    *)
(*                                                                         *)
(* Nonces are numbered by request, 0 is the empty nonce.  The pop-up reads *)
(* its nonce when it is mounted; opening the same named window again while *)
(* it is open only changes its fragment, so it keeps the nonce it has.     *)
(***************************************************************************)
EXTENDS Naturals, FiniteSets

CONSTANTS
  MaxRequests,  \* bound: ceremonies asked for
  MaxWindows    \* bound: pop-up windows opened

ASSUME CeremonyAssumption == MaxRequests \in Nat /\ MaxWindows \in Nat

VARIABLES
  state,     \* the status shown in the frame and reported to the UI
  nonce,     \* nonce of the current request, 0 for none
  pending,   \* the promise of require() is unsettled
  popup,     \* id of the window the controller holds, 0 for null
  watch,     \* the poll interval is running
  deadline,  \* the deadline timer is running
  disposed,  \* dispose() was called: the channel is closed
  win,       \* the pop-up window: its id, whether it is open, its nonce
  wire,      \* results posted and not delivered yet
  outcome    \* per request: what became of its promise

cvars == <<state, nonce, pending, popup, watch, deadline, disposed, win, wire, outcome>>

Requests == 1..MaxRequests
State == {"idle", "continue-needed", "popup-open", "done", "cancelled", "blocked", "timeout"}
Window == [id : 0..MaxWindows, open : BOOLEAN, nonce : 0..MaxRequests]
Result == [nonce : Requests, status : {"approved", "cancelled"}, from : 1..MaxWindows]

Waiting == {"continue-needed", "popup-open", "blocked", "cancelled"}
Retryable == {"continue-needed", "blocked", "cancelled"}

CeremonyInit ==
  /\ state = "idle"
  /\ nonce = 0
  /\ pending = FALSE
  /\ popup = 0
  /\ watch = FALSE
  /\ deadline = FALSE
  /\ disposed = FALSE
  /\ win = [id |-> 0, open |-> FALSE, nonce |-> 0]
  /\ wire = {}
  /\ outcome = [r \in Requests |-> "none"]

PopupClosed == ~(win.open /\ win.id = popup)

\* popup?.close()
ClosePopup == win' = IF popup # 0 /\ win.id = popup THEN [win EXCEPT !.open = FALSE] ELSE win

\* finish(): the timers stop and the promise settles.
Finish(result) ==
  /\ watch' = FALSE
  /\ deadline' = FALSE
  /\ nonce' = 0
  /\ popup' = 0
  /\ pending' = FALSE
  /\ outcome' = [outcome EXCEPT ![nonce] = result]

\* The first free nonce; a call while a ceremony is pending shares its promise
\* and changes nothing.
Fresh(r) == outcome[r] = "none" /\ \A q \in 1..(r - 1) : outcome[q] # "none"

\* Mutant of Require: no deadline is armed.
RequireUnbounded(r) ==
  /\ ~pending /\ Fresh(r)
  /\ nonce' = r
  /\ pending' = TRUE
  /\ state' = "continue-needed"
  /\ outcome' = [outcome EXCEPT ![r] = "pending"]
  /\ UNCHANGED <<popup, watch, deadline, disposed, win, wire>>

Require(r) ==
  /\ ~pending /\ Fresh(r)
  /\ nonce' = r
  /\ pending' = TRUE
  /\ deadline' = TRUE
  /\ state' = "continue-needed"
  /\ outcome' = [outcome EXCEPT ![r] = "pending"]
  /\ UNCHANGED <<popup, watch, disposed, win, wire>>

\* The user clicks Continue and the browser blocks the pop-up.
ContinueBlocked ==
  /\ pending /\ state \in Retryable
  /\ state' = "blocked"
  /\ UNCHANGED <<nonce, pending, popup, watch, deadline, disposed, win, wire, outcome>>

\* Mutant of ContinueOpens: nothing polls the window.
ContinueOpensUnwatched ==
  /\ pending /\ state \in Retryable
  /\ win.open \/ win.id < MaxWindows
  /\ win' = IF win.open THEN win
            ELSE [id |-> win.id + 1, open |-> TRUE, nonce |-> nonce]
  /\ popup' = win'.id
  /\ state' = "popup-open"
  /\ UNCHANGED <<nonce, pending, deadline, disposed, watch, wire, outcome>>

\* The user clicks Continue and the window opens, or is there already.
ContinueOpens ==
  /\ pending /\ state \in Retryable
  /\ win.open \/ win.id < MaxWindows
  /\ win' = IF win.open THEN win
            ELSE [id |-> win.id + 1, open |-> TRUE, nonce |-> nonce]
  /\ popup' = win'.id
  /\ state' = "popup-open"
  /\ watch' = TRUE
  /\ UNCHANGED <<nonce, pending, deadline, disposed, wire, outcome>>

\* Mutant of Accepts: any result ends the request.
AcceptsForeign(m) == nonce # 0

\* The controller looks at a result: the nonce must be the current one.
Accepts(m) == nonce # 0 /\ m.nonce = nonce

\* channel.onmessage
Deliver(m) ==
  /\ ~disposed
  /\ m \in wire
  /\ wire' = wire \ {m}
  /\ CASE ~Accepts(m) ->
            UNCHANGED <<state, nonce, pending, popup, watch, deadline, outcome>>
       [] Accepts(m) /\ m.status = "approved" ->
            state' = "done" /\ Finish("resolved")
       [] OTHER ->
            /\ popup' = 0
            /\ state' = "cancelled"
            /\ UNCHANGED <<nonce, pending, watch, deadline, outcome>>
  /\ UNCHANGED <<disposed, win>>

\* The poll interval sees that the window was closed.
Poll ==
  /\ watch /\ popup # 0 /\ PopupClosed /\ state = "popup-open"
  /\ popup' = 0
  /\ state' = "cancelled"
  /\ UNCHANGED <<nonce, pending, watch, deadline, disposed, win, wire, outcome>>

Deadline ==
  /\ deadline
  /\ ClosePopup
  /\ state' = "timeout"
  /\ Finish("rejected")
  /\ UNCHANGED <<disposed, wire>>

Dispose ==
  /\ ~disposed
  /\ disposed' = TRUE
  /\ watch' = FALSE /\ deadline' = FALSE
  /\ ClosePopup
  /\ pending' = FALSE
  /\ outcome' = IF pending THEN [outcome EXCEPT ![nonce] = "rejected"] ELSE outcome
  /\ UNCHANGED <<state, nonce, popup, wire>>

\* The pop-up page: one answer, then the window closes itself.
Answer(status) ==
  /\ win.open
  /\ wire' = wire \cup {[nonce |-> win.nonce, status |-> status, from |-> win.id]}
  /\ win' = [win EXCEPT !.open = FALSE]
  /\ UNCHANGED <<state, nonce, pending, popup, watch, deadline, disposed, outcome>>

\* The user closes the window without an answer.
CloseWindow ==
  /\ win.open
  /\ win' = [win EXCEPT !.open = FALSE]
  /\ UNCHANGED <<state, nonce, pending, popup, watch, deadline, disposed, wire, outcome>>

Receive == \E m \in wire : Deliver(m)

User ==
  \/ ContinueBlocked
  \/ ContinueOpens
  \/ \E status \in {"approved", "cancelled"} : Answer(status)
  \/ CloseWindow

\* Controller steps that need no one to ask for them.
Runs == Receive \/ Poll \/ Deadline

CeremonyNext ==
  \/ \E r \in Requests : Require(r)
  \/ User
  \/ Runs
  \/ Dispose

CeremonySpec == CeremonyInit /\ [][CeremonyNext]_cvars

-----------------------------------------------------------------------------
(* Properties.                                                             *)

\* Every variable stays in its type.
CeremonyTypeOK ==
  /\ state \in State
  /\ nonce \in 0..MaxRequests
  /\ pending \in BOOLEAN
  /\ popup \in 0..MaxWindows
  /\ watch \in BOOLEAN /\ deadline \in BOOLEAN /\ disposed \in BOOLEAN
  /\ win \in Window
  /\ wire \subseteq Result
  /\ outcome \in [Requests -> {"none", "pending", "resolved", "rejected"}]

\* A request in progress has a nonce to accept, a deadline to end it and a
\* status that offers the user a way on; once there is none the deadline is
\* off, so it can never end a later request early.
RequestBounded ==
  /\ pending => nonce # 0 /\ outcome[nonce] = "pending" /\ deadline /\ state \in Waiting
  /\ deadline => pending
  /\ \A r \in Requests : outcome[r] = "pending" => pending /\ nonce = r

\* While the frame says that the pop-up is open, the controller holds a window
\* and polls it: closing the window cannot go unnoticed.
OpenIsWatched == pending /\ state = "popup-open" => popup # 0 /\ watch

\* A request is granted only by an approval given in a window that was opened
\* for that very request, never by one of an earlier request.
GrantedByOwnApproval ==
  [][\A r \in Requests : outcome[r] # "resolved" /\ outcome'[r] = "resolved" =>
       [nonce |-> r, status |-> "approved"] \in
         {[nonce |-> m.nonce, status |-> m.status] : m \in wire}]_cvars

\* No request hangs: whatever the user does or leaves undone, it settles.
EveryRequestSettles == pending ~> ~pending

\* ceremony.ts:75, "a stale, foreign or repeated message is ignored": a
\* window that is open is not reported cancelled by a message of another.
OpenPopupNotCancelled ==
  [][state = "popup-open" /\ ~PopupClosed => state' # "cancelled"]_cvars
=============================================================================
