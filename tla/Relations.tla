------------------------------ MODULE Relations ------------------------------
(***************************************************************************)
(* First contact and everything that follows it, as the in-memory          *)
(* CmsgClient of core/src/dev-adapter.ts keeps it: waves and the           *)
(* introduction slots they hold, relations, blocks, threads and their      *)
(* messages, and the two kinds of timers (release of a sent wave, return   *)
(* of the sender's slot after a close).                                    *)
(*                                                                         *)
(* One action is one API call or one timer callback.  Every method of the  *)
(* adapter runs to its last state change without an await, so a call is    *)
(* atomic; what interleaves are the calls of several views, the timers and *)
(* the loss of the connection, which clears every timer.                   *)
(*                                                                         *)
(* Abstracted: texts (a blank text only ever refuses the call, except in   *)
(* SendMessage, where the thread was already created), handles, ids and    *)
(* clocks.  Of the connection only "phase is ready" is kept; the phases    *)
(* and attempts are the subject of module Session.                         *)
(***************************************************************************)
EXTENDS Naturals, Sequences, FiniteSets

CONSTANTS
  Peers,        \* every member id a call may name
  Seeds,        \* members the adapter knows (SEED_MEMBERS)
  Online,       \* seeded members that are online
  SeedSender,   \* who sent the wave that is waiting at start
  SeedRelease,  \* "released" or "reserved": options.incomingReleaseState
  Slots,        \* slots of each kind at start (3 in the code)
  MaxMessages   \* bound: messages kept in one thread

me == "me"

ASSUME RelationsAssumption ==
  /\ me \notin Peers
  /\ Seeds \subseteq Peers
  /\ Online \subseteq Seeds
  /\ SeedSender \in Seeds
  /\ SeedRelease \in {"released", "reserved"}
  /\ Slots \in Nat
  /\ MaxMessages \in Nat

VARIABLES
  ready,          \* connection.phase = "ready"
  senderSlots,    \* introductions available
  recipientSlots, \* incoming slots available
  waves,          \* sequence of waves, the seeded one first
  relations,      \* [Peers -> relation]; "unknown" is a missing map entry
  blocked,        \* the set of blocked members
  threads         \* partial function from peers to threads

vars == <<ready, senderSlots, recipientSlots, waves, relations, blocked, threads>>

Relation == {"unknown", "pending", "established", "closed", "blocked"}
ThreadState == {"active", "closed", "blocked", "reopen-pending"}
Message == [outgoing : BOOLEAN, state : {"queued", "stored", "received"}]
Thread == [messages : Seq(Message), established : BOOLEAN, state : ThreadState]
Wave == [from : Peers \cup {me}, to : Peers \cup {me},
         state : {"pending", "answered", "closed", "punished"},
         senderSlotHeld : BOOLEAN, recipientSlotHeld : BOOLEAN,
         releaseState : {"reserved", "released"},
         timer : {"none", "release", "return"}]

NewWave(from, to, release, timer) ==
  [from |-> from, to |-> to, state |-> "pending", senderSlotHeld |-> TRUE,
   recipientSlotHeld |-> TRUE, releaseState |-> release, timer |-> timer]

Init ==
  /\ ready = FALSE
  /\ senderSlots = Slots
  /\ recipientSlots = Slots
  /\ waves = << NewWave(SeedSender, me, SeedRelease, "none") >>
  /\ relations = [p \in Peers |-> "unknown"]
  /\ blocked = {}
  /\ threads = [p \in {} |-> <<>>]

-----------------------------------------------------------------------------
(* Threads.                                                                *)

WithThread(p, t) ==
  [q \in DOMAIN threads \cup {p} |-> IF q = p THEN t ELSE threads[q]]

\* The thread of p, created from the relation when there is none yet.
EnsureThread(p) ==
  IF p \in DOMAIN threads THEN threads[p]
  ELSE [messages |-> <<>>,
        established |-> relations[p] = "established",
        state |-> IF relations[p] \in {"blocked", "closed"}
                  THEN relations[p] ELSE "active"]

ThreadOpen(t) == t.state = "active" /\ t.established

\* An existing thread of p leaves the established state; none is created.
ShutThread(p, to) ==
  threads' = IF p \in DOMAIN threads
             THEN WithThread(p, [threads[p] EXCEPT !.established = FALSE, !.state = to])
             ELSE threads

\* As ShutThread, but a thread is created first where there is none.
ShutOrCreateThread(p, to) ==
  threads' = WithThread(p, [EnsureThread(p) EXCEPT !.established = FALSE, !.state = to])

-----------------------------------------------------------------------------
(* Waves.                                                                  *)

SetWave(i, w) == waves' = [waves EXCEPT ![i] = w]

\* Mutant of Decidable: a wave may be decided twice.
DecidableTwice(i) == waves[i].to = me /\ waves[i].releaseState = "released"

\* The conditions a wave must meet before it is closed or punished.
Decidable(i) ==
  /\ waves[i].state = "pending"
  /\ waves[i].to = me
  /\ waves[i].releaseState = "released"

\* Mutant of Answerable: the block list is not consulted.
AnswerableWhenBlocked(i) == Decidable(i)

Answerable(i) == Decidable(i) /\ waves[i].from \notin blocked

\* Mutant of Capped: the capacity is forgotten.
Uncapped(n) == n

Capped(n) == IF n < Slots THEN n ELSE Slots

SendWave(p) ==
  /\ p \notin blocked
  /\ senderSlots >= 1
  /\ p \in Online
  /\ senderSlots' = senderSlots - 1
  /\ waves' = Append(waves, NewWave(me, p, "reserved", "release"))
  /\ UNCHANGED <<ready, recipientSlots, relations, blocked, threads>>

Greeting == [outgoing |-> FALSE, state |-> "received"]
Reply == [outgoing |-> TRUE, state |-> "received"]

\* The reply opens the conversation: the thread is set, not extended.
AnswerWave(i) ==
  /\ Answerable(i)
  /\ SetWave(i, [waves[i] EXCEPT !.state = "answered", !.releaseState = "released",
                                 !.senderSlotHeld = FALSE, !.recipientSlotHeld = FALSE])
  /\ senderSlots' = senderSlots + 1
  /\ recipientSlots' = Capped(recipientSlots + 1)
  /\ relations' = [relations EXCEPT ![waves[i].from] = "established"]
  /\ threads' = WithThread(waves[i].from, [messages |-> <<Greeting, Reply>>,
                                           established |-> TRUE, state |-> "active"])
  /\ UNCHANGED <<ready, blocked>>

\* Mutant of CloseWave: the sender's slot is credited at once, not by the timer.
CloseWaveCreditsSender(i) ==
  /\ Decidable(i)
  /\ SetWave(i, [waves[i] EXCEPT !.state = "closed", !.recipientSlotHeld = FALSE])
  /\ recipientSlots' = Capped(recipientSlots + 1)
  /\ senderSlots' = senderSlots + 1
  /\ UNCHANGED <<ready, relations, blocked, threads>>

CloseWave(i) ==
  /\ Decidable(i)
  /\ SetWave(i, [waves[i] EXCEPT !.state = "closed", !.recipientSlotHeld = FALSE,
                                 !.timer = "return"])
  /\ recipientSlots' = Capped(recipientSlots + 1)
  /\ UNCHANGED <<ready, senderSlots, relations, blocked, threads>>

PunishWave(i) ==
  /\ Decidable(i)
  /\ SetWave(i, [waves[i] EXCEPT !.state = "punished",
                                 !.senderSlotHeld = FALSE, !.recipientSlotHeld = FALSE])
  /\ blocked' = blocked \cup {waves[i].from}
  /\ relations' = [relations EXCEPT ![waves[i].from] = "blocked"]
  /\ ShutThread(waves[i].from, "blocked")
  /\ UNCHANGED <<ready, senderSlots, recipientSlots>>

\* The release timer of a sent wave fires.
ReleaseFires(i) ==
  /\ waves[i].timer = "release"
  /\ SetWave(i, [waves[i] EXCEPT !.releaseState = "released", !.timer = "none"])
  /\ UNCHANGED <<ready, senderSlots, recipientSlots, relations, blocked, threads>>

\* Mutant of ReturnFires: the slot is given back only while connected.
ReturnFiresOnline(i) ==
  /\ waves[i].timer = "return" /\ ready
  /\ SetWave(i, [waves[i] EXCEPT !.senderSlotHeld = FALSE, !.timer = "none"])
  /\ senderSlots' = senderSlots + 1
  /\ UNCHANGED <<ready, recipientSlots, relations, blocked, threads>>

\* The waiting period after a close ends.
ReturnFires(i) ==
  /\ waves[i].timer = "return"
  /\ SetWave(i, [waves[i] EXCEPT !.senderSlotHeld = FALSE, !.timer = "none"])
  /\ senderSlots' = senderSlots + 1
  /\ UNCHANGED <<ready, recipientSlots, relations, blocked, threads>>

-----------------------------------------------------------------------------
(* Contacts and threads.                                                   *)

BlockMember(p) ==
  /\ blocked' = blocked \cup {p}
  /\ relations' = [relations EXCEPT ![p] = "blocked"]
  /\ ShutThread(p, "blocked")
  /\ UNCHANGED <<ready, senderSlots, recipientSlots, waves>>

UnblockMember(p) ==
  /\ blocked' = blocked \ {p}
  /\ relations' = [relations EXCEPT ![p] = IF @ = "blocked" THEN "closed" ELSE @]
  /\ ShutThread(p, "closed")
  /\ UNCHANGED <<ready, senderSlots, recipientSlots, waves>>

\* thread(peer): reading a conversation creates it for a known member.
OpenThread(p) ==
  /\ p \in Seeds
  /\ threads' = WithThread(p, EnsureThread(p))
  /\ UNCHANGED <<ready, senderSlots, recipientSlots, waves, relations, blocked>>

\* sendMessage(peer, text): the thread is created before the call can be
\* refused, for a closed conversation or for a blank text.
SendMessage(p, blank) ==
  LET t == EnsureThread(p)
      m == [outgoing |-> TRUE, state |-> IF ready THEN "stored" ELSE "queued"]
  IN /\ IF ThreadOpen(t) /\ ~blank
        THEN /\ Len(t.messages) < MaxMessages
             /\ threads' = WithThread(p, [t EXCEPT !.messages = Append(@, m)])
        ELSE threads' = WithThread(p, t)
     /\ UNCHANGED <<ready, senderSlots, recipientSlots, waves, relations, blocked>>

CloseConversation(p) ==
  /\ relations' = [relations EXCEPT ![p] = "closed"]
  /\ ShutOrCreateThread(p, "closed")
  /\ UNCHANGED <<ready, senderSlots, recipientSlots, waves, blocked>>

PunishConversation(p) ==
  /\ blocked' = blocked \cup {p}
  /\ relations' = [relations EXCEPT ![p] = "blocked"]
  /\ ShutOrCreateThread(p, "blocked")
  /\ UNCHANGED <<ready, senderSlots, recipientSlots, waves>>

\* Mutant of RequestReopen: the request opens the conversation by itself.
RequestReopenOpens(p) ==
  /\ relations[p] = "closed"
  /\ relations' = [relations EXCEPT ![p] = "established"]
  /\ threads' = WithThread(p, [EnsureThread(p) EXCEPT !.established = TRUE,
                                                      !.state = "active"])
  /\ UNCHANGED <<ready, senderSlots, recipientSlots, waves, blocked>>

RequestReopen(p) ==
  /\ relations[p] = "closed"
  /\ relations' = [relations EXCEPT ![p] = "pending"]
  /\ ShutOrCreateThread(p, "reopen-pending")
  /\ UNCHANGED <<ready, senderSlots, recipientSlots, waves, blocked>>

-----------------------------------------------------------------------------
(* The connection, as far as waves and messages see it.                    *)

\* connect() leaves the ready phase at once and may reach it again later.
Connect ==
  /\ ready' \in BOOLEAN
  /\ UNCHANGED <<senderSlots, recipientSlots, waves, relations, blocked, threads>>

\* disconnect() clears every timer; what the timers would have done is lost.
Disconnect ==
  /\ ready' = FALSE
  /\ waves' = [i \in DOMAIN waves |-> [waves[i] EXCEPT !.timer = "none"]]
  /\ UNCHANGED <<senderSlots, recipientSlots, relations, blocked, threads>>

Call ==
  \/ \E p \in Peers :
       \/ SendWave(p)
       \/ BlockMember(p)
       \/ UnblockMember(p)
       \/ OpenThread(p)
       \/ \E blank \in BOOLEAN : SendMessage(p, blank)
       \/ CloseConversation(p)
       \/ PunishConversation(p)
       \/ RequestReopen(p)
  \/ \E i \in DOMAIN waves : AnswerWave(i) \/ CloseWave(i) \/ PunishWave(i)
  \/ Connect

Timer == \E i \in DOMAIN waves : ReleaseFires(i) \/ ReturnFires(i)

Next == Call \/ Timer \/ Disconnect

Spec == Init /\ [][Next]_vars

-----------------------------------------------------------------------------
(* Fairness: the event loop runs an armed timer's callback.  Calls are what *)
(* people do and get none.                                                  *)

TimersFire ==
  \A i \in 1..(Slots + 2) :
    /\ WF_vars(i \in DOMAIN waves /\ ReleaseFires(i))
    /\ WF_vars(i \in DOMAIN waves /\ ReturnFires(i))

FairSpec == Spec /\ TimersFire

-----------------------------------------------------------------------------
(* Properties.                                                             *)

\* Every variable stays in its type.
TypeOK ==
  /\ ready \in BOOLEAN
  /\ senderSlots \in Nat
  /\ recipientSlots \in 0..Slots
  /\ waves \in Seq(Wave)
  /\ relations \in [Peers -> Relation]
  /\ blocked \subseteq Peers
  /\ DOMAIN threads \subseteq Peers
  /\ threads \in [DOMAIN threads -> Thread]

Open(p) == p \in DOMAIN threads /\ ThreadOpen(threads[p])

\* A conversation one can write in belongs to an established relation with a
\* member who is not blocked, whichever views blocked, closed, unblocked or
\* answered in between (isOpen in Chat.svelte shows the composer on the
\* thread alone and never looks at the relation).
OpenNeedsRelation ==
  \A p \in Peers : Open(p) => relations[p] = "established" /\ p \notin blocked

AnsweredBy(p) == \E i \in DOMAIN waves : waves[i].from = p /\ waves[i].state = "answered"

SendersHeld == {i \in DOMAIN waves : waves[i].senderSlotHeld}
Punished == {i \in DOMAIN waves : waves[i].state = "punished"}

\* No introduction is created or lost: what is available, what a wave holds
\* and what punishment burned add up to the slots at start and the one the
\* waiting wave brought along.
SlotConservation ==
  senderSlots + Cardinality(SendersHeld) + Cardinality(Punished) = Slots + 1

\* A return timer is armed only for a closed wave that still holds its
\* sender's slot, so no slot is credited twice; a release timer only for a
\* wave of ours that waits for its release.
TimersMatchWaves ==
  \A i \in DOMAIN waves :
    /\ waves[i].timer = "return" => waves[i].state = "closed" /\ waves[i].senderSlotHeld
    /\ waves[i].timer = "release" =>
         waves[i].from = me /\ waves[i].state = "pending" /\ waves[i].releaseState = "reserved"

\* A conversation opens by an answer to a pending wave of that member and in
\* no other way: it stays shut through unblocking and reopen requests.
OpensOnlyByAnswer ==
  [][\A p \in Peers : ~Open(p) /\ Open(p)' =>
       \E i \in DOMAIN waves : /\ waves[i].from = p
                               /\ waves[i].state = "pending"
                               /\ waves'[i].state = "answered"]_vars

\* No call drops or rewrites a message already shown, the answer that
\* replaces the whole thread included.
HistoryKept ==
  [][\A p \in DOMAIN threads :
       /\ p \in DOMAIN threads'
       /\ Len(threads[p].messages) <= Len(threads'[p].messages)
       /\ \A k \in DOMAIN threads[p].messages :
            threads'[p].messages[k] = threads[p].messages[k]]_vars

WaitsForSlot(i) == i \in DOMAIN waves /\ waves[i].state = "closed" /\ waves[i].senderSlotHeld
WaitsForRelease(i) == i \in DOMAIN waves /\ waves[i].releaseState = "reserved"

Dropped == ~ready /\ \A j \in DOMAIN waves : waves[j].timer = "none"

\* Of what waits on a timer, a closed wave gives its sender the slot back and
\* a sent wave is released, in whatever else is called meanwhile; only a
\* connection that is dropped ends the wait without it.
TimersServe ==
  \A i \in 1..(Slots + 2) :
    /\ WaitsForSlot(i) /\ waves[i].timer = "return" ~> ~WaitsForSlot(i) \/ Dropped
    /\ WaitsForRelease(i) /\ waves[i].timer = "release" ~> ~WaitsForRelease(i) \/ Dropped

\* What decisions.md:70 says of every closed wave, whatever the connection
\* does: the sender's introduction comes back after the waiting period.
ClosedWaveReturnsSlot == WaitsForSlot(1) ~> ~WaitsForSlot(1)

\* contacts.test.ts:77, "unblock leaves a closed relation": of a blocked
\* member, in whatever relation the other calls left them.
UnblockLeavesClosed ==
  [][\A p \in blocked : p \notin blocked' => relations'[p] = "closed"]_vars
=============================================================================
