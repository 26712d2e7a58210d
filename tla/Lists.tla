-------------------------------- MODULE Lists ---------------------------------
(***************************************************************************)
(* Lists: the pages that list waves (views/Waves.svelte), contacts         *)
(* (Contacts.svelte) and devices (Devices.svelte), over the ordered port   *)
(* of the vault bridge.  What they list is the state of Relations, whose   *)
(* steps are the calls here, with the events that the client               *)
(* (core/src/dev-adapter.ts) sends after them; and the devices.            *)
(*                                                                         *)
(* One page is mounted at a time.  Calls of other pages (the forum, a      *)
(* conversation) are run beside those of the lists, and what a list asked  *)
(* for may be answered after it is gone, or time out and be run after      *)
(* that.  The waves are two reads, which Promise.all takes together.       *)
(*                                                                         *)
(* Left out: the drafts of answers and names, the texts, the restore of a  *)
(* vault, which changes nothing, and the loss of the connection, which     *)
(* ends every page.                                                        *)
(***************************************************************************)
EXTENDS Naturals, Sequences

CONSTANTS
  Peers, Online, SeedSender, Slots,  \* of Relations
  Names,        \* what a device may be called
  MaxDevices,   \* bound: devices there ever are
  MaxVisits,    \* bound: pages mounted
  MaxAsks,      \* bound: changes and reloads asked for
  MaxTimeouts   \* bound: calls that time out

ListsAssumption ==
  /\ SeedSender \in Peers /\ Online \subseteq Peers /\ Slots \in Nat
  /\ MaxDevices \in Nat \ {0} /\ MaxVisits \in Nat /\ MaxAsks \in Nat /\ MaxTimeouts \in Nat

VARIABLES
  ready, senderSlots, recipientSlots, waves, relations, blocked, threads,  \* the client's, as in Relations
  devices,            \* the client's: how many there ever were, and those there are, by id
  toClient, toPage,   \* the port, both ways
  page, visit,        \* what is mounted
  list,               \* the state of that page
  asks, timeouts      \* counters of what was asked for, and timed out

R == INSTANCE Relations WITH Seeds <- Peers, SeedRelease <- "released", MaxMessages <- 2

related == <<ready, senderSlots, recipientSlots, waves, relations, blocked, threads>>
client == <<related, devices>>
vars == <<client, toClient, toPage, page, visit, list, asks, timeouts>>

Lists == {"waves", "contacts", "devices"}
thisDevice == 1

\* half: the first of the two reads of a load of waves; confirm: punishId and
\* confirmation in the code; read (auxiliary): a load was answered, and not
\* only an event heard.  What may be missing is a sequence.
NewList == [seq |-> 0, half |-> <<>>, shown |-> <<>>, loaded |-> FALSE, error |-> FALSE,
            busy |-> FALSE, confirm |-> <<>>, read |-> FALSE]

Init ==
  /\ R!Init
  /\ devices = [made |-> 1, of |-> [d \in {thisDevice} |-> [state |-> "active", name |-> CHOOSE n \in Names : TRUE]]]
  /\ toClient = <<>> /\ toPage = <<>>
  /\ page = "away" /\ visit = 0 /\ list = NewList
  /\ asks = 0 /\ timeouts = 0

\* What the three pages list.
WavesNow ==
  [waves |-> [i \in {j \in DOMAIN waves : waves[j].to = R!me} |-> [waves[i] EXCEPT !.timer = "none"]],
   slots |-> <<senderSlots, recipientSlots>>]
ContactsNow ==
  [p \in {q \in Peers : relations[q] # "unknown"} \cup DOMAIN threads |->
     [relation |-> relations[p], blockedByMe |-> p \in blocked]]
DevicesNow == devices.of

-----------------------------------------------------------------------------
(* The member.                                                             *)

WaveReads == {"incomingWaves", "waveSlots"}

\* A call: about whom, as part of what, in which load, on which visit.
Call(op, of, for, seq, v) == [op |-> op, of |-> of, for |-> for, seq |-> seq, visit |-> v, over |-> FALSE]

Reads(p, for, seq, v) ==
  IF p = "waves" THEN <<Call("incomingWaves", <<>>, for, seq, v), Call("waveSlots", <<>>, for, seq, v)>>
  ELSE <<Call(p, <<>>, for, seq, v)>>

\* load: a new number, and its reads at the end of the queue.
Loads(for, new, queue) ==
  /\ list' = [new EXCEPT !.seq = @ + 1]
  /\ toClient' = queue \o Reads(page, for, new.seq + 1, visit)

Navigate(p) ==
  /\ visit < MaxVisits /\ p # page
  /\ page' = p /\ visit' = visit + 1
  /\ list' = [NewList EXCEPT !.seq = 1]
  /\ toClient' = toClient \o Reads(p, "load", 1, visit + 1)
  /\ UNCHANGED <<client, toPage, asks, timeouts>>

\* Another part of the shell is mounted, and may call the client as well.
Depart ==
  /\ page # "away"
  /\ page' = "away" /\ list' = NewList
  /\ UNCHANGED <<client, toClient, toPage, visit, asks, timeouts>>

Asks == asks < MaxAsks /\ asks' = asks + 1

Elsewhere(op, p) ==
  /\ page = "away" /\ visit < MaxVisits /\ Asks
  /\ toClient' = Append(toClient, Call(op, <<p>>, "other", 0, visit))
  /\ UNCHANGED <<client, toPage, page, visit, list, timeouts>>

\* Check for new waves, Refresh, or Retry.
Reload ==
  /\ list.confirm = <<>> /\ Asks
  /\ \/ page = "waves" /\ ~list.busy
     \/ page = "contacts" /\ (list.loaded \/ list.error)
     \/ page = "devices" /\ ~list.loaded /\ list.error
  /\ Loads("load", [list EXCEPT !.error = IF page = "devices" THEN FALSE ELSE @], toClient)
  /\ UNCHANGED <<client, toPage, page, visit, timeouts>>

Asked(op, of) ==
  /\ ~list.busy /\ Asks
  /\ list' = [list EXCEPT !.busy = TRUE, !.error = FALSE]
  /\ toClient' = Append(toClient, Call(op, of, "act", 0, visit))
  /\ UNCHANGED <<client, toPage, page, visit, timeouts>>

Waiting(i) ==
  /\ page = "waves" /\ list.shown # <<>> /\ i \in DOMAIN list.shown[1].first.waves
  /\ list.shown[1].first.waves[i].state = "pending"
  /\ list.shown[1].first.waves[i].releaseState = "released"

DecideWave(op, i) == Waiting(i) /\ list.confirm = <<>> /\ Asked(op, <<i>>)

\* An answer needs a text before it is sent.
AnswerBlank(i) ==
  /\ Waiting(i) /\ list.confirm = <<>> /\ ~list.busy
  /\ list' = [list EXCEPT !.error = TRUE]
  /\ UNCHANGED <<client, toClient, toPage, page, visit, asks, timeouts>>

Offered(op, contact) ==
  CASE op = "block"   -> ~contact.blockedByMe /\ contact.relation # "blocked"
    [] op = "unblock" -> contact.blockedByMe \/ contact.relation = "blocked"
    [] op = "reopen"  -> ~contact.blockedByMe /\ contact.relation = "closed"

\* mutate.
Mutate(op, p) ==
  /\ page = "contacts" /\ list.shown # <<>> /\ p \in DOMAIN list.shown[1]
  /\ Offered(op, list.shown[1][p])
  /\ Asked(op, <<p>>)

AddDevice(n) == page = "devices" /\ list.confirm = <<>> /\ Asked("addDevice", <<n>>)

Listed(d) == page = "devices" /\ list.shown # <<>> /\ d \in DOMAIN list.shown[1]

RenameDevice(d, n) == Listed(d) /\ list.confirm = <<>> /\ Asked("renameDevice", <<d, n>>)

\* A dialog asks before a wave is punished, or a device approved or removed.
AskFirst(op, x) ==
  /\ ~list.busy /\ list.confirm = <<>>
  /\ CASE op = "punish"        -> Waiting(x)
       [] op = "approveDevice" -> Listed(x) /\ list.shown[1][x].state = "pending"
       [] op = "removeDevice"  -> Listed(x) /\ x # thisDevice
  /\ list' = [list EXCEPT !.confirm = <<[op |-> op, of |-> x]>>]
  /\ UNCHANGED <<client, toClient, toPage, page, visit, asks, timeouts>>

Confirm == list.confirm # <<>> /\ Asked(list.confirm[1].op, <<list.confirm[1].of>>)

CloseDialog ==
  /\ list.confirm # <<>> /\ ~list.busy
  /\ list' = [list EXCEPT !.confirm = <<>>]
  /\ UNCHANGED <<client, toClient, toPage, page, visit, asks, timeouts>>

-----------------------------------------------------------------------------
(* The client.                                                             *)

Pending == {d \in DOMAIN devices.of : devices.of[d].state = "pending"}

Allowed(c) ==
  CASE c.op = "answer"              -> R!Answerable(c.of[1])
    [] c.op \in {"close", "punish"} -> R!Decidable(c.of[1])
    [] c.op = "reopen"              -> relations[c.of[1]] = "closed"
    [] c.op = "sendWave"            -> c.of[1] \in Online \ blocked /\ senderSlots >= 1
    [] c.op = "addDevice"           -> Pending = {} /\ devices.made < MaxDevices
    [] c.op = "approveDevice"       -> c.of[1] \in Pending
    [] c.op = "removeDevice"        -> c.of[1] \in DOMAIN devices.of \ {thisDevice}
    [] c.op = "renameDevice"        -> c.of[1] \in DOMAIN devices.of
    [] OTHER                        -> TRUE

Relates(c) ==
  CASE c.op = "answer"             -> R!AnswerWave(c.of[1])
    [] c.op = "close"              -> R!CloseWave(c.of[1])
    [] c.op = "punish"             -> R!PunishWave(c.of[1])
    [] c.op = "block"              -> R!BlockMember(c.of[1])
    [] c.op = "unblock"            -> R!UnblockMember(c.of[1])
    [] c.op = "reopen"             -> R!RequestReopen(c.of[1])
    [] c.op = "sendWave"           -> R!SendWave(c.of[1])
    [] c.op = "thread"             -> R!OpenThread(c.of[1])
    [] c.op = "closeConversation"  -> R!CloseConversation(c.of[1])
    [] c.op = "punishConversation" -> R!PunishConversation(c.of[1])
    [] OTHER                       -> UNCHANGED related

Device(d, state, name) == [e \in DOMAIN devices.of \cup {d} |-> IF e = d THEN [state |-> state, name |-> name] ELSE devices.of[e]]

DevicesAfter(c) ==
  CASE c.op = "addDevice" ->
         [made |-> devices.made + 1, of |-> Device(devices.made + 1, "pending", c.of[1])]
    [] c.op = "approveDevice" -> [devices EXCEPT !.of = Device(c.of[1], "active", @[c.of[1]].name)]
    [] c.op = "removeDevice"  -> [devices EXCEPT !.of = [d \in DOMAIN @ \ {c.of[1]} |-> @[d]]]
    [] c.op = "renameDevice"  -> [devices EXCEPT !.of = Device(c.of[1], @[c.of[1]].state, c.of[2])]
    [] OTHER                  -> devices

\* The event that follows a call; it brings the contacts or the devices along.
Event(c) ==
  CASE c.op \in {"answer", "close", "punish"} -> <<[type |-> "wave-updated"]>>
    [] c.op \in {"block", "unblock", "reopen", "closeConversation", "punishConversation"} ->
         <<[type |-> "contacts", told |-> ContactsNow']>>
    [] c.op \in {"addDevice", "approveDevice", "removeDevice", "renameDevice"} ->
         <<[type |-> "devices", told |-> DevicesNow']>>
    [] OTHER -> <<>>

\* Each of the two reads of waves brings the whole moment (auxiliary).
Told(c) ==
  CASE c.op \in WaveReads -> <<WavesNow'>>
    [] c.op = "contacts"  -> <<ContactsNow'>>
    [] c.op = "devices"   -> <<DevicesNow'>>
    [] OTHER              -> <<>>

Reply(c, ok) == IF c.over THEN <<>> ELSE <<[type |-> "reply", call |-> c, ok |-> ok, told |-> IF ok THEN Told(c) ELSE <<>>]>>

RunCall ==
  /\ toClient # <<>>
  /\ toClient' = Tail(toClient)
  /\ LET c == Head(toClient) IN
       IF Allowed(c)
       THEN Relates(c) /\ devices' = DevicesAfter(c) /\ toPage' = toPage \o Event(c) \o Reply(c, TRUE)
       ELSE UNCHANGED client /\ toPage' = toPage \o Reply(c, FALSE)
  /\ UNCHANGED <<page, visit, list, asks, timeouts>>

\* Mutant of TimerFires: the slot comes back and nobody is told.
TimerFiresUntold(i) ==
  /\ R!ReleaseFires(i) \/ R!ReturnFires(i)
  /\ UNCHANGED <<devices, toClient, toPage, page, visit, list, asks, timeouts>>

TimerFires(i) ==
  /\ R!ReleaseFires(i) \/ R!ReturnFires(i)
  /\ toPage' = Append(toPage, [type |-> "wave-updated"])
  /\ UNCHANGED <<devices, toClient, page, visit, list, asks, timeouts>>

-----------------------------------------------------------------------------
(* The page hears of it.                                                   *)

\* Mutant of Newest: an answer counts whatever was asked since.
NewestAlways(c) == TRUE

\* The devices are read without a number.
Newest(c) == page = "devices" \/ c.seq = list.seq

Settled(c) == [list EXCEPT !.busy = IF c.for = "after" THEN FALSE ELSE @]

LoadFailed(c) == [Settled(c) EXCEPT !.error = Newest(c) \/ @]

LoadEnds(c, content) ==
  IF Newest(c)
  THEN [Settled(c) EXCEPT !.shown = <<content>>, !.loaded = TRUE, !.read = TRUE,
                          !.error = IF page = "devices" THEN @ ELSE FALSE]
  ELSE Settled(c)

\* A load of waves ends with its second read, if it has the first.
ReadAnswered(c, ok, told) ==
  CASE ~ok -> LoadFailed(c)
    [] ok /\ c.op = "incomingWaves" -> [list EXCEPT !.half = <<[seq |-> c.seq, told |-> told[1]]>>]
    [] ok /\ c.op = "waveSlots" ->
         IF list.half = <<>> THEN list
         ELSE IF list.half[1].seq # c.seq THEN list
         ELSE [LoadEnds(c, [first |-> list.half[1].told, second |-> told[1]]) EXCEPT !.half = <<>>]
    [] OTHER -> LoadEnds(c, told[1])

\* A change of waves or contacts is done once the list was read again.
ActDone(queue) ==
  LET closed == [list EXCEPT !.confirm = <<>>] IN
  IF page = "devices" THEN list' = [closed EXCEPT !.busy = FALSE] /\ toClient' = queue
  ELSE Loads("after", closed, queue)

Continue(c, ok, told, queue) ==
  CASE c.visit # visit \/ page = "away" -> toClient' = queue /\ UNCHANGED list
    [] c.visit = visit /\ page # "away" /\ c.for = "act" ->
         IF ok THEN ActDone(queue)
         ELSE list' = [list EXCEPT !.busy = FALSE, !.error = TRUE] /\ toClient' = queue
    [] OTHER -> list' = ReadAnswered(c, ok, told) /\ toClient' = queue

HearReply ==
  /\ toPage # <<>> /\ Head(toPage).type = "reply"
  /\ toPage' = Tail(toPage)
  /\ LET m == Head(toPage) IN Continue(m.call, m.ok, m.told, toClient)
  /\ UNCHANGED <<client, page, visit, asks, timeouts>>

\* The waves are read again on every event, the others are in the event.
HearEvent ==
  /\ toPage # <<>> /\ Head(toPage).type # "reply"
  /\ toPage' = Tail(toPage)
  /\ LET m == Head(toPage) IN
       CASE m.type = "wave-updated" /\ page = "waves" -> Loads("load", list, toClient)
         [] m.type = "contacts" /\ page = "contacts" ->
              /\ list' = [list EXCEPT !.seq = @ + 1, !.shown = <<m.told>>, !.loaded = TRUE, !.error = FALSE]
              /\ UNCHANGED toClient
         [] m.type = "devices" /\ page = "devices" ->
              list' = [list EXCEPT !.shown = <<m.told>>] /\ UNCHANGED toClient
         [] OTHER -> UNCHANGED <<list, toClient>>
  /\ UNCHANGED <<client, page, visit, asks, timeouts>>

SameLoad(c, d) == c = d \/ (c.op \in WaveReads /\ d.op \in WaveReads /\ c.seq = d.seq /\ c.visit = d.visit)

Live(c) == c.visit = visit /\ page # "away" /\ ~c.over

\* The oldest call of the page takes too long; it may still be run.  With one
\* of two reads the load is over.
TimeOut(i) ==
  /\ timeouts < MaxTimeouts /\ timeouts' = timeouts + 1
  /\ Live(toClient[i]) /\ \A j \in 1..(i - 1) : ~Live(toClient[j])
  /\ Continue(toClient[i], FALSE, <<>>,
       [j \in DOMAIN toClient |-> [toClient[j] EXCEPT !.over = @ \/ SameLoad(toClient[j], toClient[i])]])
  /\ UNCHANGED <<client, toPage, page, visit, asks>>

Member ==
  \/ \E p \in Lists : Navigate(p)
  \/ Depart \/ Reload \/ Confirm \/ CloseDialog
  \/ \E p \in Peers :
       \/ \E op \in {"sendWave", "thread", "closeConversation", "punishConversation"} : Elsewhere(op, p)
       \/ \E op \in {"block", "unblock", "reopen"} : Mutate(op, p)
  \/ \E i \in DOMAIN waves : DecideWave("answer", i) \/ DecideWave("close", i) \/ AnswerBlank(i) \/ AskFirst("punish", i)
  \/ \E n \in Names : AddDevice(n) \/ \E d \in 1..MaxDevices : RenameDevice(d, n)
  \/ \E d \in 1..MaxDevices : AskFirst("approveDevice", d) \/ AskFirst("removeDevice", d)

Next ==
  \/ Member \/ RunCall \/ HearReply \/ HearEvent
  \/ (\E i \in DOMAIN waves : TimerFires(i)) \/ (\E i \in DOMAIN toClient : TimeOut(i))

Spec == Init /\ [][Next]_vars

-----------------------------------------------------------------------------
(* Properties.                                                             *)

Quiet == toClient = <<>> /\ toPage = <<>>
Loaded == list.loaded /\ ~list.error

\* Once all is heard, a list shows the client's state, whoever changed it and
\* whatever timed out, unless it says that something failed: every change of
\* Relations is told, or was made before the list was read.  Contacts must have
\* been read once: an event heard before that takes the place of an answer
\* that is newer, and may lack what other pages changed without an event.
ListsShown ==
  Quiet =>
    /\ page = "waves" /\ Loaded => list.shown[1].first = WavesNow
    /\ page = "contacts" /\ Loaded /\ list.read => list.shown[1] = ContactsNow
    /\ page = "devices" /\ list.shown # <<>> => list.shown[1] = DevicesNow

\* The waves and the slots shown beside them are of one moment, although they
\* are two reads and anything may happen between them.
WavesOfOneMoment ==
  page = "waves" /\ list.shown # <<>> => list.shown[1].first = list.shown[1].second
=============================================================================
