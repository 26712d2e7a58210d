-------------------------------- MODULE Forum ---------------------------------
(***************************************************************************)
(* Forum: finding members (views/Forum.svelte), the member's own profile   *)
(* and matching rules (views/ProfileEditor.svelte), and what the client    *)
(* keeps of them (core/src/dev-adapter.ts), over the ordered port of the   *)
(* vault bridge.  A key request and a publication wait in the client       *)
(* before they take effect; other calls run meanwhile.                     *)
(*                                                                         *)
(* The shell mounts one page at a time.  The forum drops what an earlier   *)
(* page asked for; a save of the profile goes on after its page is gone.   *)
(*                                                                         *)
(* Members are numbers in the order of the client.  A filter, the rules    *)
(* and the profile are each the set of members that meet it; some profiles *)
(* are not valid.  Cards, notes, fields and texts are left out, with the   *)
(* admission (module Admission; the shell shows the forum to who has it)   *)
(* and the event that carries matches, which the client never sends.       *)
(***************************************************************************)
EXTENDS Naturals, Sequences, FiniteSets

CONSTANTS
  N,            \* members
  Offline,      \* those of them who are not online
  FilterSets, RuleSets, ValueSets,  \* filters, rules and profiles to choose from
  Invalid,      \* profiles that leave a required answer out
  PageSize, Slots,
  MaxVisits, MaxAsks, MaxTimeouts   \* bounds: pages mounted, requests of the member, calls that time out

Members == 1..N

ForumAssumption ==
  /\ N \in Nat /\ PageSize \in Nat \ {0} /\ Slots \in Nat
  /\ MaxVisits \in Nat /\ MaxAsks \in Nat /\ MaxTimeouts \in Nat
  /\ FilterSets \cup RuleSets \cup ValueSets \subseteq SUBSET Members
  /\ Members \in FilterSets /\ Members \in RuleSets /\ Members \in ValueSets \ Invalid

VARIABLES
  rules, profile, revision,  \* the client's
  blocked, exchanges, senderSlots,
  toClient, toPage,          \* the port, both ways
  waiting,                   \* calls that wait in the client: delay in the code
  page, visit,               \* what is mounted: the forum, the profile, or neither
  forum, editor,             \* the state of either page
  asks, timeouts             \* counters of what was asked for, and timed out

client == <<rules, profile, revision, blocked, exchanges, senderSlots>>
port == <<toClient, toPage, waiting>>
vars == <<client, port, page, visit, forum, editor, asks, timeouts>>

NewForum ==
  [schema |-> FALSE, filters |-> Members, entries |-> {}, cursor |-> 0, exchanges |-> <<>>,
   loading |-> TRUE, more |-> FALSE, error |-> FALSE, requestGen |-> 0, exchangeGen |-> 0,
   keyBusy |-> {}, keyResults |-> {}, peer |-> 0, drafts |-> {}, waveBusy |-> {},
   under |-> {}]   \* auxiliary: under which rules and profile the entries were found
NewEditor == [loaded |-> FALSE, values |-> {}, rules |-> {}, revision |-> 0, busy |-> FALSE, saved |-> FALSE]

\* A call, what it is for, and the generation of the search it belongs to.
Call(op, for, gen) ==
  [op |-> op, for |-> for, gen |-> gen, exchangeGen |-> 0, peer |-> 0, at |-> 0, set |-> {}, rules |-> {},
   visit |-> visit, accepted |-> FALSE, over |-> FALSE]

Init ==
  /\ rules = Members /\ profile = Members /\ revision = 0
  /\ blocked = {} /\ exchanges = <<>> /\ senderSlots = Slots
  /\ toClient = <<>> /\ toPage = <<>> /\ waiting = <<>>
  /\ page = "away" /\ visit = 0
  /\ forum = NewForum /\ editor = NewEditor
  /\ asks = 0 /\ timeouts = 0

-----------------------------------------------------------------------------
(* The forum asks.                                                         *)

Discover(f, at, reset) ==
  [Call("discover", IF reset THEN "search" ELSE "more", f.requestGen) EXCEPT !.at = at, !.set = f.filters]

Reset(f) ==
  [f EXCEPT !.keyResults = {}, !.peer = 0, !.entries = {}, !.cursor = 0, !.under = {}, !.loading = TRUE]

\* search: the schema first where there is none yet.
Search(f, reset, queue) ==
  LET g == [f EXCEPT !.requestGen = @ + 1, !.error = FALSE]
      h == IF reset THEN Reset(g) ELSE [g EXCEPT !.more = TRUE]
  IN /\ forum' = h
     /\ toClient' = Append(queue, IF h.schema THEN Discover(h, h.cursor, reset)
                                  ELSE Call("schema", "search", h.requestGen))

\* reloadExchanges: for the page, for an event, or for a key request.
ReloadExchanges(f, for, c, queue) ==
  /\ forum' = [f EXCEPT !.exchangeGen = @ + 1]
  /\ toClient' = Append(queue, [Call("exchanges", for, c.gen) EXCEPT !.exchangeGen = f.exchangeGen + 1, !.peer = c.peer])

-----------------------------------------------------------------------------
(* The member.                                                             *)

Navigate(p) ==
  /\ visit < MaxVisits /\ p # page
  /\ page' = p /\ visit' = visit + 1
  /\ forum' = NewForum /\ editor' = NewEditor
  /\ toClient' = CASE p = "forum"   -> Append(toClient, [Call("schema", "page", 0) EXCEPT !.visit = visit + 1])
                   [] p = "profile" -> Append(toClient, [Call("load", "page", 0) EXCEPT !.visit = visit + 1])
                   [] OTHER         -> toClient
  /\ UNCHANGED <<client, toPage, waiting, asks, timeouts>>

Asks == asks < MaxAsks /\ asks' = asks + 1

\* A search anew: the filters are submitted, or the button is pressed, which
\* waits for the last search.
Find(filters) ==
  /\ page = "forum" /\ Asks
  /\ forum.schema \/ (filters = forum.filters /\ ~forum.loading)
  /\ Search([forum EXCEPT !.filters = filters], TRUE, toClient)
  /\ UNCHANGED <<client, toPage, waiting, page, visit, editor, timeouts>>

LoadMore ==
  /\ page = "forum" /\ forum.cursor # 0 /\ ~forum.loading /\ ~forum.more /\ Asks
  /\ Search(forum, FALSE, toClient)
  /\ UNCHANGED <<client, toPage, waiting, page, visit, editor, timeouts>>

RequestKey(m) ==
  /\ page = "forum" /\ m \in forum.entries \ forum.keyBusy /\ Asks
  /\ forum' = [forum EXCEPT !.keyBusy = @ \cup {m}, !.error = FALSE]
  /\ toClient' = Append(toClient, [Call("key", "page", forum.requestGen) EXCEPT !.peer = m])
  /\ UNCHANGED <<client, toPage, waiting, page, visit, editor, timeouts>>

\* The composer of one member is opened, written in, or closed.
Compose(m) ==
  /\ page = "forum" /\ m \in forum.entries
  /\ \/ forum' = [forum EXCEPT !.peer = IF @ = m THEN 0 ELSE m]
     \/ forum.peer = m /\ m \notin forum.drafts /\ forum' = [forum EXCEPT !.drafts = @ \cup {m}]
  /\ UNCHANGED <<client, port, page, visit, editor, asks, timeouts>>

SendFirstWave(m) ==
  /\ page = "forum" /\ m = forum.peer /\ m \in forum.drafts \ forum.waveBusy /\ Asks
  /\ forum' = [forum EXCEPT !.waveBusy = @ \cup {m}, !.error = FALSE]
  /\ toClient' = Append(toClient, [Call("wave", "page", forum.requestGen) EXCEPT !.peer = m])
  /\ UNCHANGED <<client, toPage, waiting, page, visit, editor, timeouts>>

\* Mutant of Edited: what was saved is still said to be.
EditedSaved(values, chosen) == [editor EXCEPT !.values = values, !.rules = chosen]

Edited(values, chosen) == [editor EXCEPT !.values = values, !.rules = chosen, !.saved = FALSE]

Edit(values, chosen) ==
  /\ page = "profile" /\ editor.loaded /\ ~editor.busy
  /\ <<values, chosen>> # <<editor.values, editor.rules>>
  /\ values = editor.values \/ chosen = editor.rules
  /\ editor' = Edited(values, chosen)
  /\ UNCHANGED <<client, port, page, visit, forum, asks, timeouts>>

Save ==
  /\ page = "profile" /\ editor.loaded /\ ~editor.busy /\ Asks
  /\ editor' = [editor EXCEPT !.busy = TRUE, !.saved = FALSE]
  /\ toClient' = Append(toClient, [Call("validate", "page", 0) EXCEPT !.set = editor.values, !.rules = editor.rules])
  /\ UNCHANGED <<client, toPage, waiting, page, visit, forum, timeouts>>

\* A page that is neither asks to block a member, or to unblock.
BlockElsewhere(m) ==
  /\ page = "away" /\ Asks
  /\ \E op \in {"block", "unblock"} :
       toClient' = Append(toClient, [Call(op, "page", 0) EXCEPT !.peer = m])
  /\ UNCHANGED <<client, toPage, waiting, page, visit, forum, editor, timeouts>>

-----------------------------------------------------------------------------
(* The client.                                                             *)

Matching == (rules \cap profile) \ Offline

Matched(filters) == {m \in Members : m \in filters \cap Matching /\ m \notin blocked}

\* How many of a set come before a member.
Rank(m, set) == Cardinality({k \in set : k < m})

\* discover: the page of members from a cursor on, and the cursor after it.
Found(filters, at) ==
  LET all == Matched(filters)
      next == at + PageSize
  IN [entries |-> {m \in all : at <= Rank(m, all) /\ Rank(m, all) < next},
      cursor |-> IF next < Cardinality(all) THEN next ELSE 0]

Nothing == [entries |-> {}, cursor |-> 0]

\* What comes back: whether the call was done, what was found, and the state
\* of the client that the call reads.
Reply(c, ok, found) ==
  IF c.over THEN <<>>
  ELSE <<[type |-> "reply", call |-> c, ok |-> ok, found |-> found, under |-> rules \cap profile,
          exchanges |-> exchanges', values |-> profile', rules |-> rules', revision |-> revision']>>
Event(type) == <<[type |-> type]>>

Done(c, events) == toPage' = toPage \o events \o Reply(c, TRUE, Nothing)
Refused(c) == UNCHANGED <<client, waiting>> /\ toPage' = toPage \o Reply(c, FALSE, Nothing)
Waits(c) == waiting' = Append(waiting, c) /\ UNCHANGED <<client, toPage>>

Reachable(m) == m \notin Offline \cup blocked

Perform(c) ==
  \/ /\ c.op \in {"schema", "exchanges", "load"}
     /\ UNCHANGED <<client, waiting>> /\ Done(c, <<>>)
  \/ /\ c.op = "discover"
     /\ UNCHANGED <<client, waiting>>
     /\ toPage' = toPage \o Reply(c, TRUE, Found(c.set, c.at))
  \/ /\ c.op = "key"
     /\ IF Reachable(c.peer) THEN Waits([c EXCEPT !.accepted = c.peer \in Matching]) ELSE Refused(c)
  \/ /\ c.op = "wave"
     /\ IF Reachable(c.peer) /\ senderSlots > 0
        THEN /\ senderSlots' = senderSlots - 1
             /\ UNCHANGED <<rules, profile, revision, blocked, exchanges, waiting>>
             /\ Done(c, <<>>)
        ELSE Refused(c)
  \/ /\ c.op = "validate"
     /\ IF c.set \in Invalid THEN Refused(c) ELSE UNCHANGED <<client, waiting>> /\ Done(c, <<>>)
  \/ /\ c.op = "saveRules"
     /\ rules' = c.rules
     /\ UNCHANGED <<profile, revision, blocked, exchanges, senderSlots, waiting>>
     /\ Done(c, <<>>)
  \/ /\ c.op = "publish"
     /\ IF c.set \in Invalid THEN Refused(c) ELSE Waits(c)
  \/ /\ c.op \in {"block", "unblock"}
     /\ blocked' = IF c.op = "block" THEN blocked \cup {c.peer} ELSE blocked \ {c.peer}
     /\ UNCHANGED <<rules, profile, revision, exchanges, senderSlots, waiting>>
     /\ Done(c, Event("contacts"))

RunCall ==
  /\ toClient # <<>>
  /\ toClient' = Tail(toClient)
  /\ Perform(Head(toClient))
  /\ UNCHANGED <<page, visit, forum, editor, asks, timeouts>>

Without(s, i) == SubSeq(s, 1, i - 1) \o SubSeq(s, i + 1, Len(s))

\* The wait of a call is over.  A refusal names a rule that fails: none may
\* fail any more, and then the call fails itself.
WaitEnds(i) ==
  /\ \A j \in 1..(i - 1) : waiting[j].op # waiting[i].op
  /\ waiting' = Without(waiting, i)
  /\ LET c == waiting[i] IN
       \/ /\ c.op = "key" /\ (c.accepted \/ c.peer \notin Matching)
          /\ exchanges' = Append(exchanges, [peer |-> c.peer, accepted |-> c.accepted])
          /\ UNCHANGED <<rules, profile, revision, blocked, senderSlots>>
          /\ Done(c, Event("key-decision"))
       \/ /\ c.op = "key" /\ ~c.accepted /\ c.peer \in Matching
          /\ UNCHANGED client
          /\ toPage' = toPage \o Reply(c, FALSE, Nothing)
       \/ /\ c.op = "publish"
          /\ profile' = c.set /\ revision' = revision + 1
          /\ UNCHANGED <<rules, blocked, exchanges, senderSlots>>
          /\ Done(c, <<>>)
  /\ UNCHANGED <<toClient, page, visit, forum, editor, asks, timeouts>>

-----------------------------------------------------------------------------
(* The page hears of it.                                                   *)

\* Mutant of Current: an answer counts although the search is another.
CurrentAlways(c) == TRUE

Current(c) == c.gen = forum.requestGen

\* The page whose call c is over with reply m has gone: only a save goes on.
Gone(c, queue) == toClient' = queue /\ UNCHANGED <<forum, editor>>

SearchAnswered(c, m, queue) ==
  /\ IF ~Current(c) THEN toClient' = queue /\ UNCHANGED forum
     ELSE IF m.ok /\ c.op = "schema"
     THEN /\ forum' = [forum EXCEPT !.schema = TRUE]
          /\ toClient' = Append(queue, Discover(forum, 0, TRUE))
     ELSE /\ toClient' = queue
          /\ forum' = [forum EXCEPT
               !.loading = FALSE, !.more = FALSE, !.error = ~m.ok,
               !.entries = IF ~m.ok THEN @ ELSE IF c.for = "search" THEN m.found.entries ELSE @ \cup m.found.entries,
               !.under = IF m.ok THEN @ \cup {m.under} ELSE @,
               !.cursor = IF m.ok THEN m.found.cursor ELSE @]
  /\ UNCHANGED editor

\* onMount: the schema, the exchanges, then a search.
MountAnswered(c, m, queue) ==
  /\ IF m.ok THEN ReloadExchanges([forum EXCEPT !.schema = TRUE], "page", c, queue)
     ELSE toClient' = queue /\ forum' = [forum EXCEPT !.error = TRUE, !.loading = FALSE]
  /\ UNCHANGED editor

ExchangesAnswered(c, m, queue) ==
  LET f == IF m.ok /\ c.exchangeGen = forum.exchangeGen THEN [forum EXCEPT !.exchanges = m.exchanges] ELSE forum IN
  /\ CASE c.for = "page" -> Search(f, TRUE, queue)
       [] c.for = "key"  -> forum' = [f EXCEPT !.keyBusy = @ \ {c.peer}] /\ toClient' = queue
       [] OTHER          -> forum' = f /\ toClient' = queue
  /\ UNCHANGED editor

\* Mutant of KeyAnswered: the member stays busy where the search is another.
KeyAnsweredLocked(c, m, queue) ==
  /\ IF m.ok /\ Current(c)
     THEN ReloadExchanges([forum EXCEPT !.keyResults = @ \cup {c.peer}], "key", c, queue)
     ELSE /\ forum' = IF Current(c) THEN [forum EXCEPT !.keyBusy = @ \ {c.peer}, !.error = TRUE] ELSE forum
          /\ toClient' = queue
  /\ UNCHANGED editor

KeyAnswered(c, m, queue) ==
  /\ IF m.ok /\ Current(c)
     THEN ReloadExchanges([forum EXCEPT !.keyResults = @ \cup {c.peer}], "key", c, queue)
     ELSE /\ forum' = [forum EXCEPT !.keyBusy = @ \ {c.peer}, !.error = IF Current(c) THEN TRUE ELSE @]
          /\ toClient' = queue
  /\ UNCHANGED editor

\* Whatever came of it the draft is only given up while the search is the same.
WaveAnswered(c, m, queue) ==
  /\ forum' = [forum EXCEPT !.waveBusy = @ \ {c.peer}, !.drafts = IF m.ok /\ Current(c) THEN @ \ {c.peer} ELSE @]
  /\ toClient' = queue
  /\ UNCHANGED editor

ProfileLoaded(m, queue) ==
  /\ editor' = IF m.ok THEN [editor EXCEPT !.loaded = TRUE, !.values = m.values, !.rules = m.rules, !.revision = m.revision]
               ELSE editor
  /\ toClient' = queue
  /\ UNCHANGED forum

\* The next call of a save.
NextOf(c) == [c EXCEPT !.op = IF c.op = "validate" THEN "saveRules" ELSE "publish"]

\* publishProfile was answered, or a call of the save failed.
Published(m) ==
  IF m.ok THEN [editor EXCEPT !.busy = FALSE, !.saved = TRUE, !.values = m.values, !.revision = m.revision]
  ELSE [editor EXCEPT !.busy = FALSE]

\* save goes on without asking whether its page is still there.
SaveAnswered(c, m, queue) ==
  /\ IF m.ok /\ c.op # "publish" THEN toClient' = Append(queue, NextOf(c)) /\ UNCHANGED editor
     ELSE toClient' = queue /\ editor' = IF c.visit = visit THEN Published(m) ELSE editor
  /\ UNCHANGED forum

Continue(c, m, queue) ==
  IF c.op \in {"validate", "saveRules", "publish"} THEN SaveAnswered(c, m, queue)
  ELSE IF c.visit # visit \/ page = "away" THEN Gone(c, queue)
  ELSE CASE c.op = "schema" /\ c.for = "page"                            -> MountAnswered(c, m, queue)
         [] c.op = "discover" \/ (c.op = "schema" /\ c.for = "search")  -> SearchAnswered(c, m, queue)
         [] c.op = "exchanges"                                          -> ExchangesAnswered(c, m, queue)
         [] c.op = "key"                                                -> KeyAnswered(c, m, queue)
         [] c.op = "wave"                                               -> WaveAnswered(c, m, queue)
         [] OTHER                                                       -> ProfileLoaded(m, queue)

HearReply ==
  /\ toPage # <<>> /\ Head(toPage).type = "reply"
  /\ toPage' = Tail(toPage)
  /\ Continue(Head(toPage).call, Head(toPage), toClient)
  /\ UNCHANGED <<client, waiting, page, visit, asks, timeouts>>

\* onEvent: contacts search anew, a decision reads the exchanges again; the
\* profile does not listen.
HearEvent ==
  /\ toPage # <<>> /\ Head(toPage).type # "reply"
  /\ toPage' = Tail(toPage)
  /\ IF page # "forum" THEN UNCHANGED <<forum, toClient>>
     ELSE IF Head(toPage).type = "contacts" THEN Search(forum, TRUE, toClient)
     ELSE ReloadExchanges(forum, "event", Call("exchanges", "event", 0), toClient)
  /\ UNCHANGED <<client, waiting, page, visit, editor, asks, timeouts>>

Failed == [ok |-> FALSE]

\* A call takes too long; it may still be run, or be waiting.
CallTimesOut(i) ==
  /\ ~toClient[i].over
  /\ Continue(toClient[i], Failed, [toClient EXCEPT ![i].over = TRUE])
  /\ UNCHANGED waiting
WaitTimesOut(i) ==
  /\ ~waiting[i].over
  /\ Continue(waiting[i], Failed, toClient)
  /\ waiting' = [waiting EXCEPT ![i].over = TRUE]
TimeOut ==
  /\ timeouts < MaxTimeouts /\ timeouts' = timeouts + 1
  /\ (\E i \in DOMAIN toClient : CallTimesOut(i)) \/ (\E i \in DOMAIN waiting : WaitTimesOut(i))
  /\ UNCHANGED <<client, toPage, page, visit, asks>>

Member ==
  \/ \E p \in {"forum", "profile", "away"} : Navigate(p)
  \/ \E filters \in FilterSets : Find(filters)
  \/ LoadMore
  \/ \E m \in Members : RequestKey(m) \/ Compose(m) \/ SendFirstWave(m) \/ BlockElsewhere(m)
  \/ \E values \in ValueSets, chosen \in RuleSets : Edit(values, chosen)
  \/ Save

Next == Member \/ RunCall \/ (\E i \in DOMAIN waiting : WaitEnds(i)) \/ HearReply \/ HearEvent \/ TimeOut

Spec == Init /\ [][Next]_vars

-----------------------------------------------------------------------------
(* Properties.                                                             *)

Replies == {j \in DOMAIN toPage : toPage[j].type = "reply"}

\* Calls of the page that is mounted whose answer is still to come.
Awaited ==
  {c \in {toClient[i] : i \in DOMAIN toClient} \cup {waiting[i] : i \in DOMAIN waiting} \cup {toPage[j].call : j \in Replies} :
     c.visit = visit /\ ~c.over}

\* A page says that it is busy, with a search, a key, a wave or a save, exactly
\* as long as an answer is on its way that ends it.
BusyIsAwaited ==
  /\ page = "forum" =>
       /\ forum.loading \/ forum.more =>
            \E c \in Awaited : \/ c.op \in {"schema", "exchanges"} /\ c.for = "page"
                               \/ c.op \in {"schema", "discover"} /\ c.gen = forum.requestGen
       /\ forum.keyBusy = {c.peer : c \in {d \in Awaited : d.op = "key" \/ (d.op = "exchanges" /\ d.for = "key")}}
       /\ forum.waveBusy = {c.peer : c \in {d \in Awaited : d.op = "wave"}}
  /\ page = "profile" => (editor.busy <=> \E c \in Awaited : c.op \in {"validate", "saveRules", "publish"})

Quiet == toClient = <<>> /\ toPage = <<>> /\ waiting = <<>>

\* Once all is heard the forum shows no member who was blocked, and every
\* exchange unless a call timed out.  If the last search did not fail (~error)
\* and no other rules or profile were stored since it began (under), it shows
\* exactly those who match, up to its cursor.  Key results are always of
\* members it shows.
ForumShown ==
  page = "forum" =>
    /\ forum.keyResults \subseteq forum.entries
    /\ Quiet /\ ~forum.error /\ forum.under \subseteq {rules \cap profile} =>
         LET all == Matched(forum.filters) IN
         forum.entries = IF forum.cursor = 0 THEN all ELSE {m \in all : Rank(m, all) < forum.cursor}
    /\ Quiet => forum.entries \cap blocked = {}
    /\ Quiet /\ timeouts = 0 => forum.exchanges = exchanges

\* While the profile says that it is saved, the client holds what it shows.
SavedIsStored ==
  page = "profile" /\ editor.saved =>
    profile = editor.values /\ rules = editor.rules /\ revision = editor.revision
=============================================================================
