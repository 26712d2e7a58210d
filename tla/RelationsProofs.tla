--------------------------- MODULE RelationsProofs ---------------------------
(***************************************************************************)
(* What module Relations promises, proved for every set of members, every  *)
(* number of slots and every bound on messages.                            *)
(***************************************************************************)
EXTENDS Relations, FiniteSetTheorems, TLAPS

\* A wave is either addressed to us by a member or sent by us to a member.
WaveEnds ==
  \A i \in DOMAIN waves :
    \/ waves[i].to = me /\ waves[i].from \in Peers
    \/ waves[i].from = me /\ waves[i].to \in Peers

\* Every call and every timer, with its argument named.
LEMMA NextCases ==
  ASSUME Next
  PROVE  \/ \E p \in Peers : SendWave(p)
         \/ \E p \in Peers : BlockMember(p)
         \/ \E p \in Peers : UnblockMember(p)
         \/ \E p \in Peers : OpenThread(p)
         \/ \E p \in Peers, blank \in BOOLEAN : SendMessage(p, blank)
         \/ \E p \in Peers : CloseConversation(p)
         \/ \E p \in Peers : PunishConversation(p)
         \/ \E p \in Peers : RequestReopen(p)
         \/ \E i \in DOMAIN waves : AnswerWave(i)
         \/ \E i \in DOMAIN waves : CloseWave(i)
         \/ \E i \in DOMAIN waves : PunishWave(i)
         \/ \E i \in DOMAIN waves : ReleaseFires(i)
         \/ \E i \in DOMAIN waves : ReturnFires(i)
         \/ Connect
         \/ Disconnect
  BY DEF Next, Call, Timer

-----------------------------------------------------------------------------
(* Types.                                                                  *)

TypeInv == TypeOK /\ WaveEnds

\* A thread found or created for p is a thread.
LEMMA EnsureThreadType ==
  ASSUME TypeOK, NEW p \in Peers
  PROVE  EnsureThread(p) \in Thread
<1>1. CASE p \in DOMAIN threads
  BY <1>1 DEF EnsureThread, TypeOK
<1>2. CASE p \notin DOMAIN threads
  <2>1. <<>> \in Seq(Message)
    OBVIOUS
  <2>2. relations[p] \in Relation
    BY DEF TypeOK
  <2>3. (IF relations[p] \in {"blocked", "closed"} THEN relations[p] ELSE "active") \in ThreadState
    BY DEF ThreadState
  <2> QED
    BY <1>2, <2>1, <2>3 DEF EnsureThread, Thread
<1> QED
  BY <1>1, <1>2

\* Setting the thread of p to a thread keeps the map's type.
LEMMA WithThreadType ==
  ASSUME TypeOK, NEW p \in Peers, NEW t \in Thread, threads' = WithThread(p, t)
  PROVE  /\ DOMAIN threads' \subseteq Peers
         /\ threads' \in [DOMAIN threads' -> Thread]
         /\ DOMAIN threads' = DOMAIN threads \cup {p}
         /\ threads'[p] = t
         /\ \A q \in DOMAIN threads : q # p => threads'[q] = threads[q]
  BY DEF TypeOK, WithThread

\* A shut thread is a thread.
LEMMA ShutType ==
  ASSUME NEW t \in Thread, NEW s \in ThreadState
  PROVE  [t EXCEPT !.established = FALSE, !.state = s] \in Thread
  BY DEF Thread

\* Shutting a thread, existing or created, keeps the map's type and leaves
\* the thread of p shut and the others alone.
LEMMA ShutThreadType ==
  ASSUME TypeOK, NEW p \in Peers, NEW s \in ThreadState,
         ShutThread(p, s) \/ ShutOrCreateThread(p, s)
  PROVE  /\ DOMAIN threads' \subseteq Peers
         /\ threads' \in [DOMAIN threads' -> Thread]
         /\ DOMAIN threads' \subseteq DOMAIN threads \cup {p}
         /\ p \in DOMAIN threads' => ~threads'[p].established
         /\ \A q \in DOMAIN threads : q # p => threads'[q] = threads[q]
<1>1. CASE ShutThread(p, s) /\ p \notin DOMAIN threads
  BY <1>1 DEF ShutThread, TypeOK
<1>2. ASSUME NEW t \in Thread,
             threads' = WithThread(p, [t EXCEPT !.established = FALSE, !.state = s])
      PROVE  /\ DOMAIN threads' \subseteq Peers
             /\ threads' \in [DOMAIN threads' -> Thread]
             /\ DOMAIN threads' \subseteq DOMAIN threads \cup {p}
             /\ p \in DOMAIN threads' => ~threads'[p].established
             /\ \A q \in DOMAIN threads : q # p => threads'[q] = threads[q]
  <2> DEFINE u == [t EXCEPT !.established = FALSE, !.state = s]
  <2>1. u \in Thread /\ ~u.established
    BY ShutType DEF Thread
  <2> HIDE DEF u
  <2>2. threads' = WithThread(p, u)
    BY <1>2 DEF u
  <2> QED
    BY <2>1, <2>2, WithThreadType
<1>3. CASE ShutThread(p, s) /\ p \in DOMAIN threads
  <2>1. threads[p] \in Thread
    BY <1>3 DEF TypeOK
  <2>2. threads' = WithThread(p, [threads[p] EXCEPT !.established = FALSE, !.state = s])
    BY <1>3 DEF ShutThread
  <2> QED
    BY <2>1, <2>2, <1>2
<1>4. CASE ShutOrCreateThread(p, s)
  BY <1>4, <1>2, EnsureThreadType DEF ShutOrCreateThread
<1> QED
  BY <1>1, <1>3, <1>4

\* A wave whose fields move within their types stays a wave.
LEMMA WaveType ==
  ASSUME TypeOK, NEW i \in DOMAIN waves, NEW w \in Wave,
         waves' = [waves EXCEPT ![i] = w]
  PROVE  /\ waves' \in Seq(Wave)
         /\ DOMAIN waves' = DOMAIN waves
         /\ waves'[i] = w
         /\ \A j \in DOMAIN waves : j # i => waves'[j] = waves[j]
  BY DEF TypeOK

\* The decision calls and the timers replace one wave by another that keeps
\* its ends.
LEMMA WaveStep ==
  ASSUME TypeOK, NEW i \in DOMAIN waves,
         AnswerWave(i) \/ CloseWave(i) \/ PunishWave(i) \/ ReleaseFires(i) \/ ReturnFires(i)
  PROVE  /\ waves' \in Seq(Wave)
         /\ DOMAIN waves' = DOMAIN waves
         /\ waves'[i].from = waves[i].from
         /\ waves'[i].to = waves[i].to
         /\ \A j \in DOMAIN waves : j # i => waves'[j] = waves[j]
<1>0. waves[i] \in Wave
  BY DEF TypeOK
<1>1. CASE AnswerWave(i)
  <2> DEFINE w == [waves[i] EXCEPT !.state = "answered", !.releaseState = "released",
                                  !.senderSlotHeld = FALSE, !.recipientSlotHeld = FALSE]
  <2>1. w \in Wave /\ w.from = waves[i].from /\ w.to = waves[i].to
    BY <1>0 DEF Wave
  <2>2. waves' = [waves EXCEPT ![i] = w]
    BY <1>1 DEF AnswerWave, SetWave
  <2> HIDE DEF w
  <2> QED
    BY <2>1, <2>2, WaveType
<1>2. CASE CloseWave(i)
  <2> DEFINE w == [waves[i] EXCEPT !.state = "closed", !.recipientSlotHeld = FALSE, !.timer = "return"]
  <2>1. w \in Wave /\ w.from = waves[i].from /\ w.to = waves[i].to
    BY <1>0 DEF Wave
  <2>2. waves' = [waves EXCEPT ![i] = w]
    BY <1>2 DEF CloseWave, SetWave
  <2> HIDE DEF w
  <2> QED
    BY <2>1, <2>2, WaveType
<1>3. CASE PunishWave(i)
  <2> DEFINE w == [waves[i] EXCEPT !.state = "punished", !.senderSlotHeld = FALSE,
                                  !.recipientSlotHeld = FALSE]
  <2>1. w \in Wave /\ w.from = waves[i].from /\ w.to = waves[i].to
    BY <1>0 DEF Wave
  <2>2. waves' = [waves EXCEPT ![i] = w]
    BY <1>3 DEF PunishWave, SetWave
  <2> HIDE DEF w
  <2> QED
    BY <2>1, <2>2, WaveType
<1>4. CASE ReleaseFires(i)
  <2> DEFINE w == [waves[i] EXCEPT !.releaseState = "released", !.timer = "none"]
  <2>1. w \in Wave /\ w.from = waves[i].from /\ w.to = waves[i].to
    BY <1>0 DEF Wave
  <2>2. waves' = [waves EXCEPT ![i] = w]
    BY <1>4 DEF ReleaseFires, SetWave
  <2> HIDE DEF w
  <2> QED
    BY <2>1, <2>2, WaveType
<1>5. CASE ReturnFires(i)
  <2> DEFINE w == [waves[i] EXCEPT !.senderSlotHeld = FALSE, !.timer = "none"]
  <2>1. w \in Wave /\ w.from = waves[i].from /\ w.to = waves[i].to
    BY <1>0 DEF Wave
  <2>2. waves' = [waves EXCEPT ![i] = w]
    BY <1>5 DEF ReturnFires, SetWave
  <2> HIDE DEF w
  <2> QED
    BY <2>1, <2>2, WaveType
<1> QED
  BY <1>1, <1>2, <1>3, <1>4, <1>5

\* Losing the connection disarms every timer and changes nothing else of the
\* waves.
LEMMA DisconnectWaves ==
  ASSUME TypeOK, Disconnect
  PROVE  /\ waves' \in Seq(Wave)
         /\ DOMAIN waves' = DOMAIN waves
         /\ \A i \in DOMAIN waves :
              /\ waves'[i] \in Wave
              /\ waves'[i].timer = "none"
              /\ waves'[i].from = waves[i].from
              /\ waves'[i].to = waves[i].to
              /\ waves'[i].state = waves[i].state
              /\ waves'[i].senderSlotHeld = waves[i].senderSlotHeld
<1> DEFINE off(i) == [waves[i] EXCEPT !.timer = "none"]
<1>1. \A i \in DOMAIN waves : /\ off(i) \in Wave
                              /\ off(i).timer = "none"
                              /\ off(i).from = waves[i].from
                              /\ off(i).to = waves[i].to
                              /\ off(i).state = waves[i].state
                              /\ off(i).senderSlotHeld = waves[i].senderSlotHeld
  <2> TAKE i \in DOMAIN waves
  <2>1. waves[i] \in Wave
    BY DEF TypeOK
  <2> QED
    BY <2>1 DEF Wave
<1>2. waves' = [i \in DOMAIN waves |-> off(i)]
  BY DEF Disconnect
<1> HIDE DEF off
<1>3. DOMAIN waves = 1..Len(waves) /\ Len(waves) \in Nat
  BY DEF TypeOK
<1>4. waves' \in [1..Len(waves) -> Wave]
  BY <1>1, <1>2, <1>3
<1>5. waves' \in Seq(Wave)
  BY <1>3, <1>4
<1> QED
  BY <1>1, <1>2, <1>5

\* What the calls on threads leave of the waves: nothing moves.
LEMMA WavesSame ==
  ASSUME WaveEnds, waves' = waves
  PROVE  WaveEnds'
  BY DEF WaveEnds

\* One new thread map is enough for the type invariant when the call leaves
\* the waves and the slots alone.
LEMMA ThreadCallType ==
  ASSUME TypeInv, NEW p \in Peers,
         relations' \in [Peers -> Relation], blocked' \subseteq Peers,
         DOMAIN threads' \subseteq Peers, threads' \in [DOMAIN threads' -> Thread],
         UNCHANGED <<ready, senderSlots, recipientSlots, waves>>
  PROVE  TypeInv'
  BY WavesSame DEF TypeInv, TypeOK

\* Every call, timer and loss of the connection keeps the types.
LEMMA TypeStep ==
  ASSUME TypeInv, [Next]_vars
  PROVE  TypeInv'
<1> USE DEF TypeInv
<1>a. "blocked" \in Relation /\ "closed" \in Relation /\ "pending" \in Relation
      /\ "established" \in Relation
  BY DEF Relation
<1>b. "blocked" \in ThreadState /\ "closed" \in ThreadState
      /\ "reopen-pending" \in ThreadState /\ "active" \in ThreadState
  BY DEF ThreadState
<1>1. ASSUME NEW p \in Peers, SendWave(p) PROVE TypeInv'
  <2> DEFINE w == NewWave(me, p, "reserved", "release")
  <2>1. w \in Wave /\ w.from = me /\ w.to = p
    BY DEF NewWave, Wave
  <2> HIDE DEF w
  <2>2. waves' = Append(waves, w)
    BY <1>1 DEF SendWave, w
  <2>3. /\ waves' \in Seq(Wave)
        /\ DOMAIN waves' = DOMAIN waves \cup {Len(waves) + 1}
        /\ waves'[Len(waves) + 1] = w
        /\ \A i \in DOMAIN waves : waves'[i] = waves[i]
    BY <2>1, <2>2 DEF TypeOK
  <2>4. WaveEnds'
    BY <2>1, <2>3 DEF WaveEnds
  <2>5. senderSlots' \in Nat
    BY <1>1 DEF SendWave, TypeOK
  <2> QED
    BY <1>1, <2>3, <2>4, <2>5 DEF SendWave, TypeOK
<1>2. ASSUME NEW p \in Peers, BlockMember(p) PROVE TypeInv'
  BY <1>2, <1>a, <1>b, ShutThreadType, ThreadCallType DEF BlockMember, TypeOK
<1>3. ASSUME NEW p \in Peers, UnblockMember(p) PROVE TypeInv'
  BY <1>3, <1>a, <1>b, ShutThreadType, ThreadCallType DEF UnblockMember, TypeOK
<1>4. ASSUME NEW p \in Peers, OpenThread(p) PROVE TypeInv'
  BY <1>4, EnsureThreadType, WithThreadType, ThreadCallType DEF OpenThread, TypeOK
<1>5. ASSUME NEW p \in Peers, NEW blank \in BOOLEAN, SendMessage(p, blank) PROVE TypeInv'
  <2> DEFINE t == EnsureThread(p)
             m == [outgoing |-> TRUE, state |-> IF ready THEN "stored" ELSE "queued"]
             u == [t EXCEPT !.messages = Append(t.messages, m)]
  <2>1. t \in Thread
    BY EnsureThreadType
  <2>2. m \in Message
    BY DEF Message, TypeOK
  <2> HIDE DEF t, m
  <2>3. u \in Thread
    BY <2>1, <2>2 DEF Thread
  <2> HIDE DEF u
  <2>4. threads' = WithThread(p, u) \/ threads' = WithThread(p, t)
    BY <1>5 DEF SendMessage, t, u, m
  <2> QED
    BY <1>5, <2>1, <2>3, <2>4, WithThreadType, ThreadCallType DEF SendMessage, TypeOK
<1>6. ASSUME NEW p \in Peers, CloseConversation(p) PROVE TypeInv'
  BY <1>6, <1>a, <1>b, ShutThreadType, ThreadCallType DEF CloseConversation, TypeOK
<1>7. ASSUME NEW p \in Peers, PunishConversation(p) PROVE TypeInv'
  BY <1>7, <1>a, <1>b, ShutThreadType, ThreadCallType DEF PunishConversation, TypeOK
<1>8. ASSUME NEW p \in Peers, RequestReopen(p) PROVE TypeInv'
  BY <1>8, <1>a, <1>b, ShutThreadType, ThreadCallType DEF RequestReopen, TypeOK
<1>c. ASSUME NEW i \in DOMAIN waves,
             AnswerWave(i) \/ CloseWave(i) \/ PunishWave(i) \/ ReleaseFires(i) \/ ReturnFires(i)
      PROVE  waves' \in Seq(Wave) /\ WaveEnds'
  BY <1>c, WaveStep DEF WaveEnds
<1>d. \A n \in Nat : Capped(n) \in 0..Slots
  BY RelationsAssumption DEF Capped
<1>e. ASSUME NEW i \in DOMAIN waves, Decidable(i) PROVE waves[i].from \in Peers
  BY <1>e, RelationsAssumption DEF Decidable, WaveEnds
<1>9. ASSUME NEW i \in DOMAIN waves, AnswerWave(i) PROVE TypeInv'
  <2> DEFINE p == waves[i].from
             t == [messages |-> <<Greeting, Reply>>, established |-> TRUE, state |-> "active"]
  <2>1. p \in Peers
    BY <1>9, <1>e DEF AnswerWave, Answerable
  <2>2. t \in Thread
    BY <1>b DEF Thread, Message, Greeting, Reply
  <2> HIDE DEF t
  <2>3. threads' = WithThread(p, t)
    BY <1>9 DEF AnswerWave, t
  <2>4. DOMAIN threads' \subseteq Peers /\ threads' \in [DOMAIN threads' -> Thread]
    BY <2>1, <2>2, <2>3, WithThreadType
  <2>5. relations' = [relations EXCEPT ![p] = "established"]
    BY <1>9 DEF AnswerWave
  <2>6. relations' \in [Peers -> Relation]
    BY <1>a, <2>5 DEF TypeOK
  <2>7. senderSlots' \in Nat /\ recipientSlots' \in 0..Slots
    BY <1>9, <1>d DEF AnswerWave, TypeOK
  <2> QED
    BY <1>9, <1>c, <2>4, <2>6, <2>7 DEF AnswerWave, TypeOK
<1>10. ASSUME NEW i \in DOMAIN waves, CloseWave(i) PROVE TypeInv'
  <2>1. recipientSlots' \in 0..Slots
    BY <1>10, <1>d DEF CloseWave, TypeOK
  <2> QED
    BY <1>10, <1>c, <2>1 DEF CloseWave, TypeOK
<1>11. ASSUME NEW i \in DOMAIN waves, PunishWave(i) PROVE TypeInv'
  <2>1. waves[i].from \in Peers
    BY <1>11, <1>e DEF PunishWave
  <2>2. DOMAIN threads' \subseteq Peers /\ threads' \in [DOMAIN threads' -> Thread]
    BY <1>11, <1>b, <2>1, ShutThreadType DEF PunishWave
  <2>3. blocked' \subseteq Peers /\ relations' \in [Peers -> Relation]
    BY <1>11, <1>a, <2>1 DEF PunishWave, TypeOK
  <2> QED
    BY <1>11, <1>c, <2>2, <2>3 DEF PunishWave, TypeOK
<1>12. ASSUME NEW i \in DOMAIN waves, ReleaseFires(i) PROVE TypeInv'
  BY <1>12, <1>c DEF ReleaseFires, TypeOK
<1>13. ASSUME NEW i \in DOMAIN waves, ReturnFires(i) PROVE TypeInv'
  <2>1. senderSlots' \in Nat
    BY <1>13 DEF ReturnFires, TypeOK
  <2> QED
    BY <1>13, <1>c, <2>1 DEF ReturnFires, TypeOK
<1>14. CASE Connect
  BY <1>14 DEF Connect, TypeOK, WaveEnds
<1>15. CASE Disconnect
  <2>1. /\ waves' \in Seq(Wave)
        /\ DOMAIN waves' = DOMAIN waves
        /\ \A i \in DOMAIN waves : /\ waves'[i].from = waves[i].from
                                   /\ waves'[i].to = waves[i].to
    BY <1>15, DisconnectWaves
  <2>2. WaveEnds'
    BY <2>1 DEF WaveEnds
  <2> QED
    BY <1>15, <2>1, <2>2 DEF Disconnect, TypeOK
<1>16. CASE UNCHANGED vars
  BY <1>16 DEF vars, TypeOK, WaveEnds
<1> QED
  BY <1>1, <1>2, <1>3, <1>4, <1>5, <1>6, <1>7, <1>8, <1>9, <1>10, <1>11, <1>12, <1>13,
     <1>14, <1>15, <1>16, NextCases

LEMMA TypeInit ==
  ASSUME Init
  PROVE  TypeInv
<1> DEFINE w == NewWave(SeedSender, me, SeedRelease, "none")
<1>1. w \in Wave /\ w.from = SeedSender /\ w.to = me
  BY RelationsAssumption DEF NewWave, Wave
<1> HIDE DEF w
<1>2. waves = <<w>>
  BY DEF Init, w
<1>3. waves \in Seq(Wave) /\ WaveEnds
  BY <1>1, <1>2, RelationsAssumption DEF WaveEnds
<1>4. recipientSlots \in 0..Slots /\ senderSlots \in Nat
  BY RelationsAssumption DEF Init
<1>5. relations \in [Peers -> Relation] /\ blocked \subseteq Peers /\ ready \in BOOLEAN
  BY DEF Init, Relation
<1>6. DOMAIN threads \subseteq Peers /\ threads \in [DOMAIN threads -> Thread]
  BY DEF Init
<1> QED
  BY <1>3, <1>4, <1>5, <1>6 DEF TypeInv, TypeOK

\* The variables of the adapter keep their types in every behaviour.
THEOREM TypeCorrect == Spec => []TypeOK
<1>1. Init => TypeInv
  BY TypeInit
<1>2. TypeInv /\ [Next]_vars => TypeInv'
  BY TypeStep
<1>3. TypeInv => TypeOK
  BY DEF TypeInv
<1> QED
  BY <1>1, <1>2, <1>3, PTL DEF Spec

-----------------------------------------------------------------------------
(* A conversation one can write in.                                        *)

\* The inductive form: a blocked member is never in an established relation,
\* and an open thread belongs to an established relation.  The second part is
\* what ensureThread and sendMessage rely on, the first what turns it into the
\* promise about blocked members.
OpenInv ==
  /\ TypeInv
  /\ \A p \in blocked : relations[p] # "established"
  /\ \A p \in DOMAIN threads : ThreadOpen(threads[p]) => relations[p] = "established"

\* A call that shuts the conversation of p and leaves p in a relation that is
\* not established keeps OpenInv.
LEMMA ShutStep ==
  ASSUME OpenInv, TypeInv', NEW p \in Peers, NEW s \in ThreadState, NEW r \in Relation,
         r # "established", s # "active",
         relations' = [relations EXCEPT ![p] = r] \/ relations' = relations,
         relations'[p] # "established" \/ p \notin blocked',
         blocked' \subseteq blocked \cup {p},
         ShutThread(p, s) \/ ShutOrCreateThread(p, s)
  PROVE  OpenInv'
<1>1. /\ DOMAIN threads' \subseteq DOMAIN threads \cup {p}
      /\ p \in DOMAIN threads' => ~threads'[p].established
      /\ \A q \in DOMAIN threads : q # p => threads'[q] = threads[q]
  BY ShutThreadType DEF OpenInv, TypeInv
<1>2. \A q \in Peers : q # p => relations'[q] = relations[q]
  BY DEF OpenInv, TypeInv, TypeOK
<1>3. \A q \in blocked' : relations'[q] # "established"
  BY <1>2 DEF OpenInv, TypeInv, TypeOK
<1>4. \A q \in DOMAIN threads' : ThreadOpen(threads'[q]) => relations'[q] = "established"
  BY <1>1, <1>2 DEF OpenInv, ThreadOpen, TypeInv, TypeOK
<1> QED
  BY <1>3, <1>4 DEF OpenInv

LEMMA OpenStep ==
  ASSUME OpenInv, [Next]_vars
  PROVE  OpenInv'
<1>0. TypeInv /\ TypeInv'
  BY TypeStep DEF OpenInv
<1>a. "blocked" \in Relation /\ "closed" \in Relation /\ "pending" \in Relation
  BY DEF Relation
<1>b. "blocked" \in ThreadState /\ "closed" \in ThreadState /\ "reopen-pending" \in ThreadState
  BY DEF ThreadState
<1>1. ASSUME UNCHANGED <<relations, blocked, threads>> PROVE OpenInv'
  BY <1>0, <1>1 DEF OpenInv
<1>2. ASSUME NEW p \in Peers, BlockMember(p) PROVE OpenInv'
  BY <1>0, <1>2, <1>a, <1>b, ShutStep DEF BlockMember, TypeInv, TypeOK
<1>3. ASSUME NEW p \in Peers, UnblockMember(p) PROVE OpenInv'
  BY <1>0, <1>3, <1>a, <1>b, ShutStep DEF UnblockMember, TypeInv, TypeOK
<1>4. ASSUME NEW p \in Peers, UNCHANGED <<relations, blocked>>,
             threads' = WithThread(p, EnsureThread(p))
      PROVE  OpenInv'
  <2>1. EnsureThread(p) \in Thread
    BY <1>0, EnsureThreadType DEF TypeInv
  <2>2. ThreadOpen(EnsureThread(p)) => relations[p] = "established"
    BY DEF OpenInv, EnsureThread, ThreadOpen
  <2>3. /\ DOMAIN threads' = DOMAIN threads \cup {p}
        /\ threads'[p] = EnsureThread(p)
        /\ \A q \in DOMAIN threads : q # p => threads'[q] = threads[q]
    BY <1>0, <1>4, <2>1, WithThreadType DEF TypeInv
  <2> QED
    BY <1>0, <1>4, <2>2, <2>3 DEF OpenInv
<1>5. ASSUME NEW p \in Peers, NEW blank \in BOOLEAN, SendMessage(p, blank) PROVE OpenInv'
  <2> DEFINE t == EnsureThread(p)
             m == [outgoing |-> TRUE, state |-> IF ready THEN "stored" ELSE "queued"]
             u == [t EXCEPT !.messages = Append(t.messages, m)]
  <2>1. CASE threads' = WithThread(p, t)
    BY <1>4, <1>5, <2>1 DEF SendMessage
  <2>2. CASE ThreadOpen(t) /\ threads' = WithThread(p, u)
    <3>1. t \in Thread /\ m \in Message
      BY <1>0, EnsureThreadType DEF Message, TypeInv, TypeOK
    <3>2. u \in Thread
      <4> HIDE DEF t, m
      <4> QED
        BY <3>1 DEF Thread
    <3>3. relations[p] = "established"
      BY <2>2 DEF OpenInv, EnsureThread, ThreadOpen
    <3> HIDE DEF u
    <3>4. /\ DOMAIN threads' = DOMAIN threads \cup {p}
          /\ \A q \in DOMAIN threads : q # p => threads'[q] = threads[q]
      BY <1>0, <2>2, <3>2, WithThreadType DEF TypeInv
    <3> QED
      BY <1>0, <1>5, <3>3, <3>4 DEF OpenInv, SendMessage
  <2> QED
    BY <1>5, <2>1, <2>2 DEF SendMessage
<1>6. ASSUME NEW p \in Peers, CloseConversation(p) PROVE OpenInv'
  BY <1>0, <1>6, <1>a, <1>b, ShutStep DEF CloseConversation, TypeInv, TypeOK
<1>7. ASSUME NEW p \in Peers, PunishConversation(p) PROVE OpenInv'
  BY <1>0, <1>7, <1>a, <1>b, ShutStep DEF PunishConversation, TypeInv, TypeOK
<1>8. ASSUME NEW p \in Peers, RequestReopen(p) PROVE OpenInv'
  BY <1>0, <1>8, <1>a, <1>b, ShutStep DEF RequestReopen, TypeInv, TypeOK
<1>e. ASSUME NEW i \in DOMAIN waves, Decidable(i) PROVE waves[i].from \in Peers
  BY <1>0, <1>e, RelationsAssumption DEF Decidable, TypeInv, WaveEnds
<1>9. ASSUME NEW i \in DOMAIN waves, AnswerWave(i) PROVE OpenInv'
  <2> DEFINE p == waves[i].from
             t == [messages |-> <<Greeting, Reply>>, established |-> TRUE, state |-> "active"]
  <2>1. p \in Peers /\ p \notin blocked
    BY <1>9, <1>e DEF AnswerWave, Answerable
  <2>2. threads' = WithThread(p, t) /\ blocked' = blocked
        /\ relations' = [relations EXCEPT ![p] = "established"]
    BY <1>9 DEF AnswerWave
  <2>3. t \in Thread
    BY DEF Thread, ThreadState, Message, Greeting, Reply
  <2> HIDE DEF t, p
  <2>4. /\ DOMAIN threads' = DOMAIN threads \cup {p}
        /\ \A q \in DOMAIN threads : q # p => threads'[q] = threads[q]
    BY <1>0, <2>1, <2>2, <2>3, WithThreadType DEF TypeInv
  <2>5. relations'[p] = "established" /\ \A q \in Peers : q # p => relations'[q] = relations[q]
    BY <1>0, <2>1, <2>2 DEF TypeInv, TypeOK
  <2> QED
    BY <1>0, <2>1, <2>2, <2>4, <2>5 DEF OpenInv, TypeInv, TypeOK
<1>11. ASSUME NEW i \in DOMAIN waves, PunishWave(i) PROVE OpenInv'
  BY <1>0, <1>11, <1>a, <1>b, <1>e, ShutStep DEF PunishWave, TypeInv, TypeOK
<1> QED
  <2>1. CASE UNCHANGED vars
    BY <1>1, <2>1 DEF vars
  <2>2. CASE \E p \in Peers : SendWave(p)
    BY <1>1, <2>2 DEF SendWave
  <2>3. CASE \E p \in Peers : OpenThread(p)
    BY <1>4, <2>3 DEF OpenThread
  <2>4. CASE Connect \/ Disconnect
    BY <1>1, <2>4 DEF Connect, Disconnect
  <2>5. CASE \E i \in DOMAIN waves : CloseWave(i) \/ ReleaseFires(i) \/ ReturnFires(i)
    BY <1>1, <2>5 DEF CloseWave, ReleaseFires, ReturnFires
  <2> QED
    BY <1>2, <1>3, <1>5, <1>6, <1>7, <1>8, <1>9, <1>11, <2>1, <2>2, <2>3, <2>4, <2>5, NextCases

\* A conversation one can write in belongs to an established relation with a
\* member who is not blocked, in every behaviour.
THEOREM OpenNeedsRelationHolds == Spec => []OpenNeedsRelation
<1>1. Init => OpenInv
  BY TypeInit DEF Init, OpenInv
<1>2. OpenInv /\ [Next]_vars => OpenInv'
  BY OpenStep
<1>3. OpenInv => OpenNeedsRelation
  BY DEF OpenInv, OpenNeedsRelation, Open, TypeInv, TypeOK
<1> QED
  BY <1>1, <1>2, <1>3, PTL DEF Spec

-----------------------------------------------------------------------------
(* Introductions.                                                          *)

\* The inductive form: conservation alone is not kept by answerWave, which
\* credits a slot without looking whether the wave holds it, nor by a return
\* timer; a pending wave holds its slot, and timers match their waves.
SlotInv ==
  /\ TypeInv
  /\ TimersMatchWaves
  /\ \A i \in DOMAIN waves : waves[i].state = "pending" => waves[i].senderSlotHeld
  /\ \A i \in DOMAIN waves : waves[i].state = "punished" => ~waves[i].senderSlotHeld
  /\ SlotConservation

\* The sets that conservation counts are finite.
LEMMA CountsFinite ==
  ASSUME TypeInv
  PROVE  /\ IsFiniteSet(SendersHeld) /\ IsFiniteSet(Punished)
         /\ Cardinality(SendersHeld) \in Nat /\ Cardinality(Punished) \in Nat
         /\ DOMAIN waves = 1..Len(waves) /\ Len(waves) \in Nat
<1>1. DOMAIN waves = 1..Len(waves) /\ Len(waves) \in Nat
  BY DEF TypeInv, TypeOK
<1>2. IsFiniteSet(1..Len(waves))
  BY <1>1, FS_Interval
<1>3. SendersHeld \subseteq 1..Len(waves) /\ Punished \subseteq 1..Len(waves)
  BY <1>1 DEF SendersHeld, Punished
<1> QED
  BY <1>1, <1>2, <1>3, FS_Subset, FS_CardinalityType

\* The counts after a step on wave i: what leaves or enters a set is i.
LEMMA CountStep ==
  ASSUME SlotInv, TypeInv', NEW i \in DOMAIN waves, DOMAIN waves' = DOMAIN waves,
         \A j \in DOMAIN waves : j # i => waves'[j] = waves[j]
  PROVE  /\ waves'[i].senderSlotHeld = waves[i].senderSlotHeld =>
              Cardinality(SendersHeld') = Cardinality(SendersHeld)
         /\ waves[i].senderSlotHeld /\ ~waves'[i].senderSlotHeld =>
              Cardinality(SendersHeld') = Cardinality(SendersHeld) - 1
         /\ waves[i].state # "punished" /\ waves'[i].state # "punished" =>
              Cardinality(Punished') = Cardinality(Punished)
         /\ waves[i].state # "punished" /\ waves'[i].state = "punished" =>
              Cardinality(Punished') = Cardinality(Punished) + 1
<1>0. IsFiniteSet(SendersHeld) /\ IsFiniteSet(Punished)
  BY CountsFinite DEF SlotInv
<1>1. ASSUME waves'[i].senderSlotHeld = waves[i].senderSlotHeld
      PROVE  SendersHeld' = SendersHeld
  BY <1>1 DEF SendersHeld
<1>2. ASSUME waves[i].senderSlotHeld, ~waves'[i].senderSlotHeld
      PROVE  Cardinality(SendersHeld') = Cardinality(SendersHeld) - 1
  <2>1. SendersHeld' = SendersHeld \ {i} /\ i \in SendersHeld
    BY <1>2 DEF SendersHeld
  <2> QED
    BY <1>0, <2>1, FS_RemoveElement
<1>3. ASSUME waves[i].state # "punished", waves'[i].state # "punished"
      PROVE  Punished' = Punished
  BY <1>3 DEF Punished
<1>4. ASSUME waves[i].state # "punished", waves'[i].state = "punished"
      PROVE  Cardinality(Punished') = Cardinality(Punished) + 1
  <2>1. Punished' = Punished \cup {i} /\ i \notin Punished
    BY <1>4 DEF Punished
  <2> QED
    BY <1>0, <2>1, FS_AddElement
<1> QED
  BY <1>1, <1>2, <1>3, <1>4

LEMMA SlotStep ==
  ASSUME SlotInv, [Next]_vars
  PROVE  SlotInv'
<1>0. TypeInv /\ TypeInv'
  BY TypeStep DEF SlotInv
<1>n. senderSlots \in Nat /\ Slots \in Nat /\ Cardinality(SendersHeld) \in Nat
      /\ Cardinality(Punished) \in Nat
  BY <1>0, CountsFinite, RelationsAssumption DEF TypeInv, TypeOK
<1>1. ASSUME UNCHANGED <<waves, senderSlots>> PROVE SlotInv'
  BY <1>0, <1>1 DEF SlotInv, TimersMatchWaves, SlotConservation, SendersHeld, Punished
<1>2. ASSUME NEW p \in Peers, SendWave(p) PROVE SlotInv'
  <2> DEFINE w == NewWave(me, p, "reserved", "release")
             n == Len(waves) + 1
  <2>1. /\ w.from = me /\ w.state = "pending" /\ w.senderSlotHeld /\ w.timer = "release"
        /\ w.releaseState = "reserved" /\ w \in Wave
    BY DEF NewWave, Wave
  <2> HIDE DEF w
  <2>2. waves' = Append(waves, w)
    BY <1>2 DEF SendWave, w
  <2>3. /\ DOMAIN waves' = DOMAIN waves \cup {n}
        /\ waves'[n] = w
        /\ n \notin DOMAIN waves
        /\ \A j \in DOMAIN waves : waves'[j] = waves[j]
    BY <1>0, <2>1, <2>2 DEF TypeInv, TypeOK
  <2>4. SendersHeld' = SendersHeld \cup {n} /\ n \notin SendersHeld
    BY <2>1, <2>3 DEF SendersHeld
  <2>5. Cardinality(SendersHeld') = Cardinality(SendersHeld) + 1
    BY <1>0, <2>4, CountsFinite, FS_AddElement
  <2>6. Punished' = Punished
    BY <2>1, <2>3 DEF Punished
  <2>7. SlotConservation'
    BY <1>2, <1>n, <2>5, <2>6 DEF SlotInv, SlotConservation, SendWave
  <2> QED
    BY <1>0, <2>1, <2>3, <2>7 DEF SlotInv, TimersMatchWaves
<1>3. ASSUME NEW i \in DOMAIN waves,
             AnswerWave(i) \/ CloseWave(i) \/ PunishWave(i) \/ ReleaseFires(i) \/ ReturnFires(i)
      PROVE  SlotInv'
  <2>0. /\ DOMAIN waves' = DOMAIN waves
        /\ \A j \in DOMAIN waves : j # i => waves'[j] = waves[j]
        /\ waves'[i].from = waves[i].from /\ waves'[i].to = waves[i].to
    BY <1>0, <1>3, WaveStep DEF TypeInv
  <2>w. waves[i] \in Wave
    BY <1>0 DEF TypeInv, TypeOK
  <2>d. ASSUME Decidable(i) PROVE waves[i].timer = "none" /\ waves[i].senderSlotHeld
                                 /\ waves[i].state = "pending"
    BY <2>d, <2>w DEF Decidable, SlotInv, TimersMatchWaves, Wave
  <2>q. ASSUME SlotConservation',
               waves'[i].timer = "return" => waves'[i].state = "closed" /\ waves'[i].senderSlotHeld,
               waves'[i].timer = "release" =>
                 waves'[i].from = me /\ waves'[i].state = "pending" /\ waves'[i].releaseState = "reserved",
               waves'[i].state = "pending" => waves'[i].senderSlotHeld,
               waves'[i].state = "punished" => ~waves'[i].senderSlotHeld
        PROVE  SlotInv'
    BY <1>0, <2>0, <2>q DEF SlotInv, TimersMatchWaves
  <2>1. CASE AnswerWave(i)
    <3>1. waves'[i] = [waves[i] EXCEPT !.state = "answered", !.releaseState = "released",
                                       !.senderSlotHeld = FALSE, !.recipientSlotHeld = FALSE]
      BY <1>0, <2>1 DEF AnswerWave, SetWave, TypeInv, TypeOK
    <3>2. waves'[i].state = "answered" /\ waves'[i].senderSlotHeld = FALSE /\ waves'[i].timer = "none"
      BY <2>1, <2>d, <2>w, <3>1 DEF AnswerWave, Answerable, Wave
    <3>3. SlotConservation'
      BY <1>0, <1>n, <2>0, <2>1, <2>d, <3>2, CountStep
      DEF SlotInv, SlotConservation, AnswerWave, Answerable
    <3> QED
      BY <2>q, <3>2, <3>3
  <2>2. CASE CloseWave(i)
    <3>1. waves'[i] = [waves[i] EXCEPT !.state = "closed", !.recipientSlotHeld = FALSE,
                                       !.timer = "return"]
      BY <1>0, <2>2 DEF CloseWave, SetWave, TypeInv, TypeOK
    <3>2. waves'[i].state = "closed" /\ waves'[i].senderSlotHeld = TRUE /\ waves'[i].timer = "return"
          /\ waves[i].senderSlotHeld = TRUE
      BY <2>2, <2>d, <2>w, <3>1 DEF CloseWave, Wave
    <3>3. SlotConservation'
      BY <1>0, <1>n, <2>0, <2>2, <2>d, <3>2, CountStep DEF SlotInv, SlotConservation, CloseWave
    <3> QED
      BY <2>q, <3>2, <3>3
  <2>3. CASE PunishWave(i)
    <3>1. waves'[i] = [waves[i] EXCEPT !.state = "punished", !.senderSlotHeld = FALSE,
                                       !.recipientSlotHeld = FALSE]
      BY <1>0, <2>3 DEF PunishWave, SetWave, TypeInv, TypeOK
    <3>2. waves'[i].state = "punished" /\ waves'[i].senderSlotHeld = FALSE /\ waves'[i].timer = "none"
      BY <2>3, <2>d, <2>w, <3>1 DEF PunishWave, Wave
    <3>3. SlotConservation'
      BY <1>0, <1>n, <2>0, <2>3, <2>d, <3>2, CountStep DEF SlotInv, SlotConservation, PunishWave
    <3> QED
      BY <2>q, <3>2, <3>3
  <2>4. CASE ReleaseFires(i)
    <3>1. waves'[i] = [waves[i] EXCEPT !.releaseState = "released", !.timer = "none"]
      BY <1>0, <2>4 DEF ReleaseFires, SetWave, TypeInv, TypeOK
    <3>2. waves'[i].state = waves[i].state /\ waves'[i].senderSlotHeld = waves[i].senderSlotHeld
          /\ waves'[i].timer = "none" /\ waves[i].state = "pending"
      BY <2>4, <2>w, <3>1 DEF ReleaseFires, Wave, SlotInv, TimersMatchWaves
    <3>3. SlotConservation'
      BY <1>0, <1>n, <2>0, <2>4, <3>2, CountStep DEF SlotInv, SlotConservation, ReleaseFires
    <3> QED
      BY <2>q, <3>2, <3>3 DEF SlotInv
  <2>5. CASE ReturnFires(i)
    <3>1. waves'[i] = [waves[i] EXCEPT !.senderSlotHeld = FALSE, !.timer = "none"]
      BY <1>0, <2>5 DEF ReturnFires, SetWave, TypeInv, TypeOK
    <3>2. waves'[i].state = "closed" /\ waves[i].state = "closed" /\ waves[i].senderSlotHeld
          /\ waves'[i].senderSlotHeld = FALSE /\ waves'[i].timer = "none"
      BY <2>5, <2>w, <3>1 DEF ReturnFires, Wave, SlotInv, TimersMatchWaves
    <3>3. SlotConservation'
      BY <1>0, <1>n, <2>0, <2>5, <3>2, CountStep DEF SlotInv, SlotConservation, ReturnFires
    <3> QED
      BY <2>q, <3>2, <3>3
  <2> QED
    BY <1>3, <2>1, <2>2, <2>3, <2>4, <2>5
<1>4. CASE Disconnect
  <2>1. /\ DOMAIN waves' = DOMAIN waves
        /\ \A i \in DOMAIN waves : /\ waves'[i].timer = "none"
                                   /\ waves'[i].state = waves[i].state
                                   /\ waves'[i].senderSlotHeld = waves[i].senderSlotHeld
    BY <1>0, <1>4, DisconnectWaves DEF TypeInv
  <2>2. SendersHeld' = SendersHeld /\ Punished' = Punished
    BY <2>1 DEF SendersHeld, Punished
  <2>3. SlotConservation'
    BY <1>4, <2>2 DEF SlotInv, SlotConservation, Disconnect
  <2> QED
    BY <1>0, <2>1, <2>3 DEF SlotInv, TimersMatchWaves
<1> QED
  <2>1. CASE UNCHANGED vars
    BY <1>1, <2>1 DEF vars
  <2>2. CASE \E p \in Peers : BlockMember(p) \/ UnblockMember(p) \/ OpenThread(p)
                            \/ CloseConversation(p) \/ PunishConversation(p) \/ RequestReopen(p)
    BY <1>1, <2>2 DEF BlockMember, UnblockMember, OpenThread, CloseConversation,
                      PunishConversation, RequestReopen
  <2>3. CASE \E p \in Peers, blank \in BOOLEAN : SendMessage(p, blank)
    BY <1>1, <2>3 DEF SendMessage
  <2>4. CASE Connect
    BY <1>1, <2>4 DEF Connect
  <2> QED
    BY <1>2, <1>3, <1>4, <2>1, <2>2, <2>3, <2>4, NextCases

LEMMA SlotInit ==
  ASSUME Init
  PROVE  SlotInv
<1>1. waves = << NewWave(SeedSender, me, SeedRelease, "none") >>
  BY DEF Init
<1>2. DOMAIN waves = {1} /\ waves[1].state = "pending" /\ waves[1].senderSlotHeld = TRUE
      /\ waves[1].timer = "none"
  BY <1>1 DEF NewWave
<1>3. SendersHeld = {1} /\ Punished = {}
  BY <1>2 DEF SendersHeld, Punished
<1>4. Cardinality(SendersHeld) = 1 /\ Cardinality(Punished) = 0
  BY <1>3, FS_Singleton, FS_EmptySet
<1>5. SlotConservation
  BY <1>4, RelationsAssumption DEF SlotConservation, Init
<1> QED
  BY <1>2, <1>5, TypeInit DEF SlotInv, TimersMatchWaves

\* No call, timer or loss of the connection creates or loses an introduction,
\* whatever the number of slots.
THEOREM SlotsConserved == Spec => []SlotConservation
<1>1. Init => SlotInv
  BY SlotInit
<1>2. SlotInv /\ [Next]_vars => SlotInv'
  BY SlotStep
<1>3. SlotInv => SlotConservation
  BY DEF SlotInv
<1> QED
  BY <1>1, <1>2, <1>3, PTL DEF Spec

\* A return timer is never armed for a wave whose slot already came back.
THEOREM TimersMatch == Spec => []TimersMatchWaves
<1>1. Init => SlotInv
  BY SlotInit
<1>2. SlotInv /\ [Next]_vars => SlotInv'
  BY SlotStep
<1>3. SlotInv => TimersMatchWaves
  BY DEF SlotInv
<1> QED
  BY <1>1, <1>2, <1>3, PTL DEF Spec

-----------------------------------------------------------------------------
(* How conversations begin, and that nothing in them is lost.              *)

\* Only the wave that was waiting at the start is addressed to us.
OneIncoming == \A i \in DOMAIN waves : waves[i].to = me => i = 1

\* Who is a contact has a thread.
EstablishedHasThread == \A p \in Peers : relations[p] = "established" => p \in DOMAIN threads

\* With a member whose wave still waits, nothing was written.
WaitingIsUnwritten ==
  \A i \in DOMAIN waves :
    waves[i].to = me /\ waves[i].state = "pending" =>
      /\ relations[waves[i].from] # "established"
      /\ waves[i].from \in DOMAIN threads => threads[waves[i].from].messages = <<>>

BeginInv == TypeInv /\ OpenInv /\ OpenNeedsRelation /\ OneIncoming /\ EstablishedHasThread /\ WaitingIsUnwritten

\* What becomes of threads when no wave is answered.
NoNewContact == \A p \in Peers : relations'[p] = "established" => relations[p] = "established"
NoThreadLost == DOMAIN threads \subseteq DOMAIN threads'
NoThreadOpened == \A p \in DOMAIN threads : ThreadOpen(threads'[p]) => ThreadOpen(threads[p])
MessagesKept ==
  \A p \in DOMAIN threads :
    /\ Len(threads[p].messages) <= Len(threads'[p].messages)
    /\ \A k \in DOMAIN threads[p].messages : threads'[p].messages[k] = threads[p].messages[k]
WrittenToContacts ==
  \A p \in DOMAIN threads' : relations[p] # "established" =>
    threads'[p].messages = IF p \in DOMAIN threads THEN threads[p].messages ELSE <<>>

Kept == NoNewContact /\ NoThreadLost /\ NoThreadOpened /\ MessagesKept /\ WrittenToContacts

LEMMA PutKept ==
  ASSUME TypeOK, NEW p \in Peers, NEW t \in Thread, threads' = WithThread(p, t),
         t.messages = EnsureThread(p).messages, ThreadOpen(t) => ThreadOpen(EnsureThread(p)),
         \A q \in Peers : relations'[q] = "established" => relations[q] = "established"
  PROVE  Kept
<1>1. /\ DOMAIN threads' = DOMAIN threads \cup {p}
      /\ threads'[p] = t
      /\ \A q \in DOMAIN threads : q # p => threads'[q] = threads[q]
  BY WithThreadType
<1>2. t.messages = IF p \in DOMAIN threads THEN threads[p].messages ELSE <<>>
  BY DEF EnsureThread
<1>3. \A q \in Peers : q \in DOMAIN threads => threads'[q].messages = threads[q].messages
  BY <1>1, <1>2
<1>4. \A q \in DOMAIN threads : Len(threads[q].messages) \in Nat
  BY DEF TypeOK, Thread
<1>5. \A q \in DOMAIN threads : ThreadOpen(threads'[q]) => ThreadOpen(threads[q])
  BY <1>1 DEF EnsureThread
<1> QED
  BY <1>1, <1>2, <1>3, <1>4, <1>5 DEF Kept, NoNewContact, NoThreadLost, NoThreadOpened, MessagesKept, WrittenToContacts

LEMMA SameKept ==
  ASSUME TypeOK, threads' = threads, \A q \in Peers : relations'[q] = "established" => relations[q] = "established"
  PROVE  Kept
<1>1. \A q \in DOMAIN threads : Len(threads[q].messages) \in Nat
  BY DEF TypeOK, Thread
<1> QED
  BY <1>1 DEF Kept, NoNewContact, NoThreadLost, NoThreadOpened, MessagesKept, WrittenToContacts

LEMMA ShutKept ==
  ASSUME TypeOK, NEW p \in Peers, NEW s \in ThreadState, ShutThread(p, s) \/ ShutOrCreateThread(p, s),
         \A q \in Peers : relations'[q] = "established" => relations[q] = "established"
  PROVE  Kept
<1>1. CASE threads' = threads
  BY <1>1, SameKept
<1>2. CASE threads' = WithThread(p, [EnsureThread(p) EXCEPT !.established = FALSE, !.state = s])
  <2>1. EnsureThread(p) \in Thread
    BY EnsureThreadType
  <2>2. /\ [EnsureThread(p) EXCEPT !.established = FALSE, !.state = s] \in Thread
        /\ [EnsureThread(p) EXCEPT !.established = FALSE, !.state = s].messages = EnsureThread(p).messages
        /\ ~ThreadOpen([EnsureThread(p) EXCEPT !.established = FALSE, !.state = s])
    BY <2>1 DEF Thread, ThreadOpen
  <2> QED
    BY <1>2, <2>2, PutKept
<1>3. ShutThread(p, s) =>
        threads' = threads \/ threads' = WithThread(p, [EnsureThread(p) EXCEPT !.established = FALSE, !.state = s])
  BY DEF ShutThread, EnsureThread
<1> QED
  BY <1>1, <1>2, <1>3 DEF ShutOrCreateThread

\* Every step but an answer leaves threads as Kept says.
LEMMA StepKept ==
  ASSUME BeginInv, [Next]_vars
  PROVE  Kept \/ \E i \in DOMAIN waves : AnswerWave(i)
<1> USE DEF BeginInv, TypeInv
<1>0. TypeOK /\ RelationsAssumption
  BY RelationsAssumption
<1>1. ASSUME NEW p \in Peers, BlockMember(p) PROVE Kept
  BY <1>0, <1>1, ShutKept DEF BlockMember, TypeOK, ThreadState
<1>2. ASSUME NEW p \in Peers, UnblockMember(p) PROVE Kept
  BY <1>0, <1>2, ShutKept DEF UnblockMember, TypeOK, ThreadState
<1>3. ASSUME NEW p \in Peers, OpenThread(p) PROVE Kept
  BY <1>0, <1>3, EnsureThreadType, PutKept DEF OpenThread
<1>4. ASSUME NEW p \in Peers, NEW blank \in BOOLEAN, SendMessage(p, blank) PROVE Kept
  <2> DEFINE t == EnsureThread(p)
             m == [outgoing |-> TRUE, state |-> IF ready THEN "stored" ELSE "queued"]
             new == [t EXCEPT !.messages = Append(@, m)]
  <2>1. t \in Thread /\ m \in Message /\ relations' = relations
    BY <1>4, EnsureThreadType DEF SendMessage, Message
  <2>2. CASE ThreadOpen(t) /\ ~blank
    <3>1. threads' = WithThread(p, new)
      BY <1>4, <2>2 DEF SendMessage
    <3>2. /\ new \in Thread /\ new.messages = Append(t.messages, m) /\ t.messages \in Seq(Message)
          /\ ThreadOpen(new) => ThreadOpen(t)
      BY <2>1 DEF Thread, ThreadOpen
    <3>3. relations[p] = "established" /\ p \in DOMAIN threads
      <4>1. CASE p \in DOMAIN threads
        BY <2>2, <4>1 DEF OpenNeedsRelation, Open, EnsureThread
      <4>2. CASE p \notin DOMAIN threads
        BY <2>2, <4>2 DEF EnsureThread, ThreadOpen, EstablishedHasThread
      <4> QED
        BY <4>1, <4>2
    <3>4. /\ DOMAIN threads' = DOMAIN threads /\ threads'[p] = new
          /\ \A q \in DOMAIN threads : q # p => threads'[q] = threads[q]
      BY <3>1, <3>2, <3>3, WithThreadType
    <3>5. t = threads[p]
      BY <3>3 DEF EnsureThread
    <3>6. /\ Len(threads[p].messages) <= Len(threads'[p].messages)
          /\ \A k \in DOMAIN threads[p].messages : threads'[p].messages[k] = threads[p].messages[k]
      BY <3>2, <3>4, <3>5
    <3>7. \A q \in DOMAIN threads : Len(threads[q].messages) \in Nat
      BY DEF TypeOK, Thread
    <3> HIDE DEF t, m, new
    <3> QED
      BY <2>1, <3>2, <3>3, <3>4, <3>5, <3>6, <3>7 DEF Kept, NoNewContact, NoThreadLost, NoThreadOpened, MessagesKept, WrittenToContacts
  <2>3. CASE ~(ThreadOpen(t) /\ ~blank)
    BY <1>0, <1>4, <2>1, <2>3, PutKept DEF SendMessage
  <2> QED
    BY <2>2, <2>3
<1>5. ASSUME NEW p \in Peers, CloseConversation(p) PROVE Kept
  BY <1>0, <1>5, ShutKept DEF CloseConversation, TypeOK, ThreadState
<1>6. ASSUME NEW p \in Peers, PunishConversation(p) PROVE Kept
  BY <1>0, <1>6, ShutKept DEF PunishConversation, TypeOK, ThreadState
<1>7. ASSUME NEW p \in Peers, RequestReopen(p) PROVE Kept
  BY <1>0, <1>7, ShutKept DEF RequestReopen, TypeOK, ThreadState
<1>8. ASSUME NEW i \in DOMAIN waves, PunishWave(i) PROVE Kept
  <2>1. waves[i].from \in Peers
    BY <1>0, <1>8 DEF PunishWave, Decidable, WaveEnds, RelationsAssumption
  <2> QED
    BY <1>0, <1>8, <2>1, ShutKept DEF PunishWave, TypeOK, ThreadState
<1>9. ASSUME threads' = threads, relations' = relations PROVE Kept
  BY <1>0, <1>9, SameKept
<1>10. CASE Next
  BY <1>1, <1>2, <1>3, <1>4, <1>5, <1>6, <1>7, <1>8, <1>9, <1>10, NextCases
  DEF SendWave, CloseWave, ReleaseFires, ReturnFires, Connect, Disconnect
<1> QED
  BY <1>9, <1>10 DEF vars

\* A wave to us was one before, and does not begin to wait again.
LEMMA WavesToUs ==
  ASSUME TypeInv, [Next]_vars
  PROVE  \A i \in DOMAIN waves' : waves'[i].to = me =>
           /\ i \in DOMAIN waves /\ waves[i].to = me /\ waves'[i].from = waves[i].from
           /\ waves'[i].state = "pending" => waves[i].state = "pending"
<1> USE DEF TypeInv
<1>1. CASE waves' = waves
  BY <1>1
<1>2. ASSUME NEW p \in Peers, SendWave(p)
      PROVE  \A i \in DOMAIN waves' : waves'[i].to = me => i \in DOMAIN waves /\ waves'[i] = waves[i]
  <2>1. /\ waves' = Append(waves, NewWave(me, p, "reserved", "release"))
        /\ NewWave(me, p, "reserved", "release").to = p
        /\ p # me /\ waves \in Seq(Wave)
    BY <1>2, RelationsAssumption DEF SendWave, NewWave, TypeOK
  <2> QED
    BY <2>1
<1>3. ASSUME NEW i \in DOMAIN waves, AnswerWave(i) \/ CloseWave(i) \/ PunishWave(i) \/ ReleaseFires(i) \/ ReturnFires(i)
      PROVE  /\ DOMAIN waves' = DOMAIN waves
             /\ \A j \in DOMAIN waves : /\ waves'[j].to = waves[j].to /\ waves'[j].from = waves[j].from
                                        /\ waves'[j].state = "pending" => waves[j].state = "pending"
  <2>1. /\ DOMAIN waves' = DOMAIN waves /\ waves'[i].from = waves[i].from /\ waves'[i].to = waves[i].to
        /\ \A j \in DOMAIN waves : j # i => waves'[j] = waves[j]
    BY <1>3, WaveStep
  <2>2. waves'[i].state = "pending" => waves[i].state = "pending"
    <3>1. waves[i] \in Wave
      BY DEF TypeOK
    <3>2. (ReleaseFires(i) \/ ReturnFires(i)) => waves'[i].state = waves[i].state
      BY <3>1 DEF ReleaseFires, ReturnFires, SetWave, TypeOK, Wave
    <3> QED
      BY <1>3, <3>2 DEF AnswerWave, CloseWave, PunishWave, Answerable, Decidable
  <2> QED
    BY <2>1, <2>2
<1>4. CASE Disconnect
  BY <1>4, DisconnectWaves
<1>5. CASE Next
  <2>1. CASE \E p \in Peers : SendWave(p)
    BY <1>2, <2>1
  <2>2. CASE \E i \in DOMAIN waves : AnswerWave(i) \/ CloseWave(i) \/ PunishWave(i) \/ ReleaseFires(i) \/ ReturnFires(i)
    <3>1. PICK i \in DOMAIN waves : AnswerWave(i) \/ CloseWave(i) \/ PunishWave(i) \/ ReleaseFires(i) \/ ReturnFires(i)
      BY <2>2
    <3>2. /\ DOMAIN waves' = DOMAIN waves
          /\ \A j \in DOMAIN waves : /\ waves'[j].to = waves[j].to /\ waves'[j].from = waves[j].from
                                     /\ waves'[j].state = "pending" => waves[j].state = "pending"
      BY <1>3, <3>1
    <3> QED
      BY <3>2
  <2> QED
    BY <1>1, <1>4, <1>5, <2>1, <2>2, NextCases
    DEF BlockMember, UnblockMember, OpenThread, SendMessage, CloseConversation, PunishConversation, RequestReopen, Connect
<1> QED
  BY <1>1, <1>5 DEF vars

LEMMA AnswerThreads ==
  ASSUME BeginInv, NEW i \in DOMAIN waves, AnswerWave(i)
  PROVE  /\ i = 1 /\ waves[i].from \in Peers /\ waves[i].to = me
         /\ waves[i].state = "pending" /\ waves'[i].state = "answered"
         /\ DOMAIN threads' = DOMAIN threads \cup {waves[i].from}
         /\ \A q \in DOMAIN threads : q # waves[i].from => threads'[q] = threads[q]
         /\ \A q \in Peers : q # waves[i].from => relations'[q] = relations[q]
         /\ waves[i].from \in DOMAIN threads => threads[waves[i].from].messages = <<>>
<1>1. waves[i].to = me /\ waves[i].state = "pending" /\ waves[i].from \in Peers /\ waves[i] \in Wave
  BY RelationsAssumption DEF AnswerWave, Answerable, Decidable, BeginInv, TypeInv, TypeOK, WaveEnds
<1>2. i = 1 /\ (waves[i].from \in DOMAIN threads => threads[waves[i].from].messages = <<>>)
  BY <1>1 DEF BeginInv, OneIncoming, WaitingIsUnwritten
<1>3. waves'[i].state = "answered"
  BY <1>1 DEF AnswerWave, SetWave, BeginInv, TypeInv, TypeOK, Wave
<1>4. \A q \in Peers : q # waves[i].from => relations'[q] = relations[q]
  BY DEF AnswerWave, BeginInv, TypeInv, TypeOK
<1>5. /\ DOMAIN threads' = DOMAIN threads \cup {waves[i].from}
      /\ \A q \in DOMAIN threads : q # waves[i].from => threads'[q] = threads[q]
  BY DEF AnswerWave, WithThread
<1> QED
  BY <1>1, <1>2, <1>3, <1>4, <1>5

LEMMA BeginStep ==
  ASSUME BeginInv, [Next]_vars
  PROVE  BeginInv'
<1>1. TypeInv' /\ OpenInv'
  BY TypeStep, OpenStep DEF BeginInv
<1>2. OpenNeedsRelation'
  BY <1>1 DEF OpenInv, OpenNeedsRelation, Open, TypeInv, TypeOK
<1>3. OneIncoming'
  BY WavesToUs DEF BeginInv, OneIncoming
<1>4. ASSUME Kept
      PROVE  EstablishedHasThread' /\ WaitingIsUnwritten'
  <2>1. EstablishedHasThread'
    BY <1>4 DEF Kept, NoNewContact, NoThreadLost, BeginInv, EstablishedHasThread
  <2>2. ASSUME NEW i \in DOMAIN waves', waves'[i].to = me, waves'[i].state = "pending"
        PROVE  /\ relations'[waves'[i].from] # "established"
               /\ waves'[i].from \in DOMAIN threads' => threads'[waves'[i].from].messages = <<>>
    <3>1. /\ i \in DOMAIN waves /\ waves[i].to = me /\ waves'[i].from = waves[i].from
          /\ waves[i].state = "pending"
      BY <2>2, WavesToUs DEF BeginInv
    <3>2. waves[i].from \in Peers
      BY <3>1, RelationsAssumption DEF BeginInv, TypeInv, WaveEnds
    <3>3. /\ relations[waves[i].from] # "established"
          /\ waves[i].from \in DOMAIN threads => threads[waves[i].from].messages = <<>>
      BY <3>1 DEF BeginInv, WaitingIsUnwritten
    <3> QED
      BY <1>4, <3>1, <3>2, <3>3 DEF Kept, NoNewContact, WrittenToContacts
  <2> QED
    BY <2>1, <2>2 DEF WaitingIsUnwritten
<1>5. ASSUME NEW i \in DOMAIN waves, AnswerWave(i)
      PROVE  EstablishedHasThread' /\ WaitingIsUnwritten'
  <2>1. EstablishedHasThread'
    BY <1>5, AnswerThreads DEF BeginInv, EstablishedHasThread
  <2>2. \A j \in DOMAIN waves' : waves'[j].to = me => j = 1 /\ waves'[j].state # "pending"
    BY <1>3, <1>5, AnswerThreads DEF OneIncoming
  <2> QED
    BY <2>1, <2>2 DEF WaitingIsUnwritten
<1> QED
  BY <1>1, <1>2, <1>3, <1>4, <1>5, StepKept DEF BeginInv

LEMMA BeginInit ==
  ASSUME Init
  PROVE  BeginInv
<1>1. TypeInv
  BY TypeInit
<1>2. waves = << NewWave(SeedSender, me, SeedRelease, "none") >> /\ DOMAIN waves = {1} /\ waves[1].from = SeedSender
  BY DEF Init, NewWave
<1>3. DOMAIN threads = {} /\ blocked = {} /\ \A p \in Peers : relations[p] = "unknown"
  BY DEF Init
<1>4. SeedSender \in Peers
  BY RelationsAssumption
<1> QED
  BY <1>1, <1>2, <1>3, <1>4
  DEF BeginInv, OpenInv, OpenNeedsRelation, Open, OneIncoming, EstablishedHasThread, WaitingIsUnwritten

\* A conversation opens by an answer to its member's waiting wave and in no
\* other way, whatever was blocked, unblocked or asked for in between.
THEOREM OpensOnlyByAnswerHolds == Spec => OpensOnlyByAnswer
<1> DEFINE Opened == \A p \in Peers : ~Open(p) /\ Open(p)' =>
                       \E i \in DOMAIN waves : /\ waves[i].from = p
                                               /\ waves[i].state = "pending"
                                               /\ waves'[i].state = "answered"
<1>1. ASSUME BeginInv, [Next]_vars PROVE Opened
  <2>1. BeginInv'
    BY <1>1, BeginStep
  <2>2. ASSUME Kept, NEW p \in Peers, Open(p)' PROVE Open(p)
    <3>1. relations'[p] = "established"
      BY <2>1, <2>2 DEF BeginInv, OpenNeedsRelation
    <3>2. p \in DOMAIN threads
      BY <1>1, <2>2, <3>1 DEF Kept, NoNewContact, BeginInv, EstablishedHasThread
    <3> QED
      BY <2>2, <3>2 DEF Kept, NoThreadOpened, Open
  <2>3. ASSUME NEW i \in DOMAIN waves, AnswerWave(i), NEW p \in Peers, ~Open(p), Open(p)'
        PROVE  waves[i].from = p /\ waves[i].state = "pending" /\ waves'[i].state = "answered"
    BY <1>1, <2>3, AnswerThreads DEF Open
  <2> QED
    BY <1>1, <2>2, <2>3, StepKept
<1>2. BeginInv /\ [Next]_vars => BeginInv'
  BY BeginStep
<1>3. Init => BeginInv
  BY BeginInit
<1>4. BeginInv /\ [Next]_vars => [Opened]_vars
  BY <1>1
<1> QED
  BY <1>2, <1>3, <1>4, PTL DEF Spec, OpensOnlyByAnswer

\* No message is dropped or rewritten: an answer, which sets the whole thread,
\* only ever finds one in which nothing was written.
THEOREM HistoryKeptHolds == Spec => HistoryKept
<1> DEFINE Longer == \A p \in DOMAIN threads :
                       /\ p \in DOMAIN threads'
                       /\ Len(threads[p].messages) <= Len(threads'[p].messages)
                       /\ \A k \in DOMAIN threads[p].messages :
                            threads'[p].messages[k] = threads[p].messages[k]
<1>1. ASSUME BeginInv, [Next]_vars PROVE Longer
  <2>1. DOMAIN threads \subseteq Peers /\ \A p \in DOMAIN threads : Len(threads[p].messages) \in Nat
    BY <1>1 DEF BeginInv, TypeInv, TypeOK, Thread
  <2>2. ASSUME Kept PROVE Longer
    BY <2>2 DEF Kept, NoThreadLost, MessagesKept
  <2>3. ASSUME NEW i \in DOMAIN waves, AnswerWave(i) PROVE Longer
    <3> DEFINE from == waves[i].from
    <3>1. /\ DOMAIN threads' = DOMAIN threads \cup {from}
          /\ \A q \in DOMAIN threads : q # from => threads'[q] = threads[q]
          /\ from \in DOMAIN threads => threads[from].messages = <<>>
      BY <1>1, <2>3, AnswerThreads
    <3>2. Len(threads'[from].messages) = 2
      BY <2>3 DEF AnswerWave, WithThread
    <3> HIDE DEF from
    <3>3. ASSUME NEW p \in DOMAIN threads, p = from
          PROVE  /\ Len(threads[p].messages) <= Len(threads'[p].messages)
                 /\ DOMAIN threads[p].messages = {}
      BY <3>1, <3>2, <3>3
    <3>4. ASSUME NEW p \in DOMAIN threads, p # from
          PROVE  /\ Len(threads[p].messages) <= Len(threads'[p].messages)
                 /\ threads'[p].messages = threads[p].messages
      BY <2>1, <3>1, <3>4
    <3> QED
      BY <3>1, <3>3, <3>4
  <2> QED
    BY <1>1, <2>2, <2>3, StepKept
<1>2. BeginInv /\ [Next]_vars => BeginInv'
  BY BeginStep
<1>3. Init => BeginInv
  BY BeginInit
<1>4. BeginInv /\ [Next]_vars => [Longer]_vars
  BY <1>1
<1> QED
  BY <1>2, <1>3, <1>4, PTL DEF Spec, HistoryKept
=============================================================================
