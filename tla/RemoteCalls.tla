----------------------------- MODULE RemoteCalls -----------------------------
(***************************************************************************)
(* What a caller of the vault may rely on, whatever lies in between: a     *)
(* call settles once; its operation runs at most once; a success means     *)
(* that it ran.  A failure says nothing: the operation may have run, may   *)
(* still run, or may never run.                                            *)
(***************************************************************************)
EXTENDS Naturals

CONSTANT Calls

VARIABLES
  result,  \* what the caller knows: idle, pending, ok or error
  ran      \* calls whose operation ran

rvars == <<result, ran>>

Settled == {"ok", "error"}

Init ==
  /\ result = [c \in Calls |-> "idle"]
  /\ ran = {}

Issue(c) ==
  /\ result[c] = "idle"
  /\ result' = [result EXCEPT ![c] = "pending"]
  /\ UNCHANGED ran

Run(c) ==
  /\ result[c] # "idle" /\ result[c] # "ok" /\ c \notin ran
  /\ ran' = ran \cup {c}
  /\ UNCHANGED result

Succeed(c) ==
  /\ result[c] = "pending" /\ c \in ran
  /\ result' = [result EXCEPT ![c] = "ok"]
  /\ UNCHANGED ran

\* Some calls fail, together when the connection closes.
Fail(C) ==
  /\ \A c \in C : result[c] = "pending"
  /\ result' = [c \in Calls |-> IF c \in C THEN "error" ELSE result[c]]
  /\ UNCHANGED ran

Next ==
  \/ \E c \in Calls : Issue(c) \/ Run(c) \/ Succeed(c)
  \/ \E C \in SUBSET Calls : Fail(C)

\* The safety part, and a settled result for every call.
SafeSpec == Init /\ [][Next]_rvars

Spec == SafeSpec /\ \A c \in Calls : WF_rvars(Succeed(c) \/ Fail({c}))
=============================================================================
