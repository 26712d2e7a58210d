-------------------------------- MODULE Groups --------------------------------
(***************************************************************************)
(* Groups: the client's groups and their forks (core/src/dev-adapter.ts),  *)
(* the list of groups (views/Groups.svelte) and the page of one group      *)
(* (views/GroupDetail.svelte), over the ordered port of the vault bridge.  *)
(*                                                                         *)
(* The shell mounts one page at a time; a call of an earlier page is       *)
(* still run and answered, and its answer finds the page gone.  A call of  *)
(* the page may also time out, and be run after that.                      *)
(*                                                                         *)
(* A group is what the properties tell apart: who counts as a member, its  *)
(* forks, its texts.  Names, levels, bands, rosters, notes and credits are *)
(* left out, with the contacts the page reads for the names.               *)
(***************************************************************************)
EXTENDS Naturals, Sequences

CONSTANTS
  Seeds,        \* the groups at the start
  JoinedSeeds,  \* those of them the member is in
  AskingSeeds,  \* those that ask for consent to join
  Others,       \* other members of a group at the start
  MaxForks,     \* bound: forks proposed
  MaxVisits,    \* bound: pages mounted
  MaxAsks,      \* bound: changes and reloads asked for
  MaxTimeouts   \* bound: calls that time out

GroupsAssumption ==
  /\ Others \in Nat /\ MaxForks \in Nat \ {0} /\ MaxVisits \in Nat /\ MaxAsks \in Nat /\ MaxTimeouts \in Nat
  /\ Seeds \cap (1..MaxForks) = {}

VARIABLES
  groups,    \* the client's: forks that became groups, and what each group is
  parent,    \* [Forks -> the group it was proposed in], itself before that
  opens,     \* forks proposed as opening rooms
  toClient, toPage,         \* the port, both ways
  page, id,  \* what is mounted: the list, the page of group id, or neither
  visit,     \* lifecycle and generation in the code
  seq,       \* loadSeq and eventSeq in the code
  shown,     \* groups, and group with allGroups, in the code
  loading,
  busy,      \* the busy flags that are set, by the change they stand for
  pendingJoin, consentChecked,
  draft,     \* the composer of the group's page
  asks, timeouts            \* counters of what was asked for, and timed out

client == <<groups, parent, opens>>
dialog == <<pendingJoin, consentChecked>>
mount == <<page, id, visit>>
pageState == <<seq, shown, loading, busy, dialog, draft>>
vars == <<client, toClient, toPage, mount, pageState, asks, timeouts>>

Forks == 1..MaxForks
Ids == Seeds \cup Forks
NoText == 0
Texts == 1..2   \* what is not blank
NotLoaded == [made |-> <<>>, of |-> <<>>]

Listed(s) == Seeds \cup {s.made[i] : i \in DOMAIN s.made}
Has(s, g) == s # NotLoaded /\ g \in Listed(s)

Blank == [joined |-> FALSE, size |-> 0, forks |-> {}, consented |-> {}, texts |-> {}, suggestion |-> FALSE, asking |-> FALSE]
SeedGroup(g) == [Blank EXCEPT !.joined = g \in JoinedSeeds, !.asking = g \in AskingSeeds, !.suggestion = TRUE,
                              !.size = Others + IF g \in JoinedSeeds THEN 1 ELSE 0]

DetailOps == {"send", "propose", "consent", "welcome", "introduce", "dismiss"}
ListOps == {"join", "leave"}

\* A call: what for (a load, a refresh after a change, the change itself), on
\* which visit, and at which event.
Call(op, g, n, flag) ==
  [op |-> op, for |-> op, group |-> g, n |-> n, flag |-> flag, visit |-> visit, seen |-> seq, over |-> FALSE]
Read(for, v, at) ==
  [op |-> "groups", for |-> for, group |-> id, n |-> 0, flag |-> FALSE, visit |-> v, seen |-> at, over |-> FALSE]

Init ==
  /\ groups = [made |-> <<>>, of |-> [g \in Ids |-> IF g \in Seeds THEN SeedGroup(g) ELSE Blank]]
  /\ parent = [f \in Forks |-> f] /\ opens = {}
  /\ toClient = <<>> /\ toPage = <<>>
  /\ page = "away" /\ id \in Ids /\ visit = 0
  /\ seq = 0 /\ shown = NotLoaded /\ loading = FALSE /\ busy = {}
  /\ pendingJoin = {} /\ consentChecked = FALSE
  /\ draft = NoText /\ asks = 0 /\ timeouts = 0

-----------------------------------------------------------------------------
(* The member.                                                             *)

\* A page is mounted, and begins with a load.
Mount(p, g, queue) ==
  /\ page' = p /\ id' = g /\ visit' = visit + 1
  /\ seq' = 0 /\ shown' = NotLoaded /\ loading' = TRUE /\ busy' = {}
  /\ pendingJoin' = {} /\ consentChecked' = FALSE /\ draft' = NoText
  /\ toClient' = Append(queue, [Read("load", visit + 1, 0) EXCEPT !.group = g])

Navigate(p, g) ==
  /\ visit < MaxVisits /\ <<p, g>> # <<page, id>>
  /\ Mount(p, g, toClient)
  /\ UNCHANGED <<client, toPage, asks, timeouts>>

\* Another part of the shell is mounted, which hears nothing of the groups.
Depart ==
  /\ page # "away"
  /\ page' = "away"
  /\ seq' = 0 /\ shown' = NotLoaded /\ loading' = FALSE /\ busy' = {}
  /\ pendingJoin' = {} /\ consentChecked' = FALSE /\ draft' = NoText
  /\ UNCHANGED <<client, toClient, toPage, id, visit, asks, timeouts>>

Asks == asks < MaxAsks /\ asks' = asks + 1

cardsLocked == busy # {} \/ pendingJoin # {}

\* Retry on the list: a load in the foreground.
Reload ==
  /\ page = "list" /\ ~loading /\ pendingJoin = {} /\ Asks
  /\ loading' = TRUE
  /\ seq' = seq + 1
  /\ toClient' = Append(toClient, Read("load", visit, seq + 1))
  /\ UNCHANGED <<client, toPage, mount, shown, busy, dialog, draft, timeouts>>

AskJoin(g) ==
  /\ page = "list" /\ ~cardsLocked /\ Has(shown, g) /\ ~shown.of[g].joined
  /\ IF shown.of[g].asking
     THEN /\ pendingJoin' = {g} /\ consentChecked' = FALSE
          /\ UNCHANGED <<toClient, busy, asks>>
     ELSE /\ Asks
          /\ busy' = {"join"}
          /\ toClient' = Append(toClient, Call("join", g, 0, FALSE))
          /\ UNCHANGED dialog
  /\ UNCHANGED <<client, toPage, mount, seq, shown, loading, draft, timeouts>>

TickConsent ==
  /\ pendingJoin # {} /\ busy = {}
  /\ consentChecked' = ~consentChecked
  /\ UNCHANGED <<client, toClient, toPage, mount, seq, shown, loading, busy, pendingJoin, draft, asks, timeouts>>

ConfirmJoin(g) ==
  /\ g \in pendingJoin /\ consentChecked /\ busy = {} /\ Asks
  /\ busy' = {"join"}
  /\ toClient' = Append(toClient, Call("join", g, 0, TRUE))
  /\ UNCHANGED <<client, toPage, mount, seq, shown, loading, dialog, draft, timeouts>>

CloseDialog ==
  /\ pendingJoin # {} /\ busy = {}
  /\ pendingJoin' = {}
  /\ UNCHANGED <<client, toClient, toPage, mount, seq, shown, loading, busy, consentChecked, draft, asks, timeouts>>

Leave(g) ==
  /\ page = "list" /\ ~cardsLocked /\ Has(shown, g) /\ shown.of[g].joined /\ Asks
  /\ busy' = {"leave"}
  /\ toClient' = Append(toClient, Call("leave", g, 0, FALSE))
  /\ UNCHANGED <<client, toPage, mount, seq, shown, loading, dialog, draft, timeouts>>

Type(text) ==
  /\ page = "group" /\ Has(shown, id) /\ shown.of[id].joined /\ busy = {} /\ text > draft
  /\ draft' = text
  /\ UNCHANGED <<client, toClient, toPage, mount, seq, shown, loading, busy, dialog, asks, timeouts>>

\* What the page of a group offers, and with which arguments.
Offered(op, n, flag) ==
  LET g == shown.of[id] IN
  CASE op = "send"      -> g.joined /\ n = draft /\ n \in Texts /\ ~flag
    [] op = "propose"   -> g.joined /\ n = 0
    [] op = "consent"   -> g.joined /\ n \in g.forks \ g.consented /\ ~flag
    [] op = "introduce" -> g.joined /\ n = 0 /\ ~flag
    [] op = "dismiss"   -> g.suggestion /\ n = 0 /\ ~flag
    [] OTHER            -> n = 0 /\ ~flag

\* Mutant of Change: a change does not wait for the one under way.
ChangeUnlocked(op, n, flag) ==
  /\ page = "group" /\ Has(shown, id) /\ Offered(op, n, flag) /\ Asks
  /\ busy' = busy \cup {op}
  /\ toClient' = Append(toClient, Call(op, id, n, flag))
  /\ UNCHANGED <<client, toPage, mount, seq, shown, loading, dialog, draft, timeouts>>

\* send, propose, consent, welcome, introduce and dismiss, up to their call.
Change(op, n, flag) ==
  /\ page = "group" /\ Has(shown, id) /\ busy = {} /\ Offered(op, n, flag) /\ Asks
  /\ busy' = {op}
  /\ toClient' = Append(toClient, Call(op, id, n, flag))
  /\ UNCHANGED <<client, toPage, mount, seq, shown, loading, dialog, draft, timeouts>>

-----------------------------------------------------------------------------
(* The client.                                                             *)

Proposed == {f \in Forks : parent[f] # f}

\* Whether the client does what is asked.
Allowed(c) ==
  LET g == groups.of[c.group] IN
  /\ c.group \in Listed(groups)
  /\ CASE c.op = "join"      -> g.asking => c.flag
       [] c.op = "propose"   -> Proposed # Forks
       [] c.op = "consent"   -> c.n \in g.forks
       [] c.op = "send"      -> g.joined /\ c.n \in Texts
       [] c.op \in {"welcome", "introduce"} -> g.joined
       [] OTHER              -> TRUE

\* Mutant of Moves: consenting again makes another group.
MovesAgain(f) == TRUE

\* A first consent makes the fork a group; a later one returns that group.
Moves(f) == f \notin Listed(groups)

\* Mutant of Left: leaving takes off a member who had left before.
LeftAgain(g) == [g EXCEPT !.joined = FALSE, !.size = IF @ > 0 THEN @ - 1 ELSE 0]

Left(g) == [g EXCEPT !.joined = FALSE, !.size = IF g.joined THEN @ - 1 ELSE @]
Joined(g) == [g EXCEPT !.joined = TRUE, !.size = IF g.joined THEN @ ELSE @ + 1]

ForkOf(g, f) == [g EXCEPT !.forks = {}, !.consented = {}, !.joined = TRUE, !.asking = (f \in opens \/ @)]

Put(g, new) == [groups EXCEPT !.of[g] = new]

\* The groups after a call, with the fork f that a proposal makes.
After(c, f) ==
  LET g == groups.of[c.group] IN
  CASE c.op = "join"    -> Put(c.group, Joined(g))
    [] c.op = "leave"   -> Put(c.group, Left(g))
    [] c.op = "propose" -> Put(c.group, [g EXCEPT !.forks = @ \cup {f}])
    [] c.op = "consent" /\ Moves(c.n) ->
         [made |-> Append(groups.made, c.n),
          of |-> [groups.of EXCEPT ![c.group].consented = @ \cup {c.n}, ![c.n] = ForkOf(g, c.n)]]
    [] c.op = "dismiss" -> Put(c.group, [g EXCEPT !.suggestion = FALSE])
    [] c.op = "send"    -> Put(c.group, [g EXCEPT !.texts = @ \cup {c.n}])
    [] OTHER            -> groups

\* Mutant of Announced: leaving a group is not told.
AnnouncedSome(c) == c.op \in {"join", "propose", "dismiss"} \/ (c.op = "consent" /\ Moves(c.n))

\* Which calls tell every page about the groups.
Announced(c) == c.op \in {"join", "leave", "propose", "dismiss"} \/ (c.op = "consent" /\ Moves(c.n))

Reply(c, ok) == IF c.over THEN <<>> ELSE <<[type |-> "reply", call |-> c, ok |-> ok, groups |-> groups']>>

\* The client runs the next call; its event comes before its reply.
RunCall ==
  /\ toClient # <<>>
  /\ toClient' = Tail(toClient)
  /\ LET c == Head(toClient) IN
       \/ /\ Allowed(c)
          /\ \E f \in Forks :
               /\ IF c.op = "propose" THEN f \notin Proposed /\ \A h \in Forks \ Proposed : f <= h ELSE f = 1
               /\ groups' = After(c, f)
               /\ parent' = IF c.op = "propose" THEN [parent EXCEPT ![f] = c.group] ELSE parent
               /\ opens' = IF c.op = "propose" /\ c.flag THEN opens \cup {f} ELSE opens
          /\ toPage' = (IF Announced(c) THEN Append(toPage, [type |-> "groups", groups |-> groups']) ELSE toPage)
                       \o Reply(c, TRUE)
       \/ /\ ~Allowed(c)
          /\ UNCHANGED client
          /\ toPage' = toPage \o Reply(c, FALSE)
  /\ UNCHANGED <<mount, pageState, asks, timeouts>>

-----------------------------------------------------------------------------
(* The page hears of it.                                                   *)

\* The page is still the one that made the call.
RouteLive(c) == page # "away" /\ c.visit = visit

\* And it has not heard anything newer since.
DataLive(c) == RouteLive(c) /\ c.seen = seq

\* load, and refresh or refreshInto after a change; joining ends on the page
\* of the group.  No group is ever removed, so it is found again.
ReadAnswered(c, ok, s, queue) ==
  IF c.for = "join"
  THEN Mount("group", c.group, queue)
  ELSE /\ shown' = IF ok /\ DataLive(c) THEN s ELSE shown
       /\ loading' = IF c.for = "load" /\ DataLive(c) THEN FALSE ELSE loading
       /\ busy' = busy \ {c.for}
       /\ toClient' = queue
       /\ UNCHANGED <<mount, seq, dialog, draft>>

Refreshed == {"join", "leave", "send", "consent", "dismiss"}

\* A change is done, and the flag stays until what is shown was read again;
\* a proposal brings the group back itself.
ChangeDone(c, s, queue) ==
  /\ draft' = IF c.op = "send" /\ draft = c.n THEN NoText ELSE draft
  /\ pendingJoin' = IF c.op = "join" THEN {} ELSE pendingJoin
  /\ shown' = IF c.op = "propose" /\ DataLive(c) THEN [shown EXCEPT !.of[id] = s.of[id]] ELSE shown
  /\ seq' = IF c.op \in ListOps THEN seq + 1 ELSE seq
  /\ IF c.op \in Refreshed
     THEN toClient' = Append(queue, [Read(c.op, visit, seq') EXCEPT !.group = c.group]) /\ UNCHANGED busy
     ELSE toClient' = queue /\ busy' = busy \ {c.op}
  /\ UNCHANGED <<mount, loading, consentChecked>>

ChangeFailed(c, queue) ==
  /\ busy' = busy \ {c.op}
  /\ toClient' = queue
  /\ UNCHANGED <<mount, seq, shown, loading, dialog, draft>>

Continue(c, ok, s, queue) ==
  CASE ~RouteLive(c)           -> toClient' = queue /\ UNCHANGED <<mount, pageState>>
    [] RouteLive(c) /\ c.op = "groups" -> ReadAnswered(c, ok, s, queue)
    [] OTHER -> IF ok THEN ChangeDone(c, s, queue) ELSE ChangeFailed(c, queue)

HearReply ==
  /\ toPage # <<>> /\ Head(toPage).type = "reply"
  /\ toPage' = Tail(toPage)
  /\ LET m == Head(toPage) IN Continue(m.call, m.ok, m.groups, toClient)
  /\ UNCHANGED <<client, asks, timeouts>>

\* An event is newer than every read under way.  A page whose group is not
\* among the groups gives up what it was doing.
HearGroups ==
  /\ toPage # <<>> /\ Head(toPage).type = "groups"
  /\ toPage' = Tail(toPage)
  /\ LET s == Head(toPage).groups IN
       IF page = "away" THEN UNCHANGED <<mount, pageState>>
       ELSE /\ seq' = seq + 1 /\ shown' = s /\ loading' = FALSE
            /\ IF page = "group" /\ id \notin Listed(s)
               THEN visit' = visit + 1 /\ busy' = {}
               ELSE UNCHANGED <<visit, busy>>
            /\ UNCHANGED <<page, id, dialog, draft>>
  /\ UNCHANGED <<client, toClient, asks, timeouts>>

\* The oldest call of the page takes too long.  It may still be run; a page
\* cannot tell whether it was run before or after, as it hears no reply.
TimeOut(i) ==
  /\ timeouts < MaxTimeouts /\ timeouts' = timeouts + 1
  /\ RouteLive(toClient[i]) /\ ~toClient[i].over
  /\ \A j \in 1..(i - 1) : toClient[j].over \/ ~RouteLive(toClient[j])
  /\ \A j \in DOMAIN toPage : toPage[j].type = "reply" => ~RouteLive(toPage[j].call)
  /\ Continue(toClient[i], FALSE, NotLoaded, [toClient EXCEPT ![i].over = TRUE])
  /\ UNCHANGED <<client, toPage, asks>>

Member ==
  \/ \E g \in Ids : Navigate("group", g) \/ AskJoin(g) \/ ConfirmJoin(g) \/ Leave(g)
  \/ Navigate("list", id) \/ Depart \/ Reload \/ TickConsent \/ CloseDialog
  \/ \E text \in Texts : Type(text)
  \/ \E op \in DetailOps, n \in {0} \cup Forks \cup Texts, flag \in BOOLEAN : Change(op, n, flag)

Next == Member \/ RunCall \/ HearReply \/ HearGroups \/ \E i \in DOMAIN toClient : TimeOut(i)

Spec == Init /\ [][Next]_vars

-----------------------------------------------------------------------------
(* Properties.                                                             *)

\* A group of the start counts the others and this member if in.
SeedsCount ==
  \A g \in Seeds : groups.of[g].size = Others + IF groups.of[g].joined THEN 1 ELSE 0

\* No group, a fork's branch included, counts more than that.
NeverTooMany ==
  \A g \in Listed(groups) : groups.of[g].size <= Others + IF groups.of[g].joined THEN 1 ELSE 0

\* However often pages that still show an old list join, leave and consent,
\* a group of the start counts exactly the members it has.  A branch takes over
\* the count of its group: it never counts too many, and too few where someone
\* moved who had left the group before (OnlyMembersMove).
SizeCounts == SeedsCount /\ NeverTooMany

\* docs/product/user-stories.md:362, "only members who agree move", and
\* decisions.md:98, "Members may leave or propose [...] forks; each mover consents":
\* who moves to a fork is a member of the group it was proposed in.
OnlyMembersMove ==
  [][\A f \in Forks : Moves(f) /\ ~Moves(f)' => groups.of[parent[f]].joined]_vars

\* A fork becomes one group however often its consent is repeated.
OneGroupPerFork ==
  /\ \A i, j \in DOMAIN groups.made : groups.made[i] = groups.made[j] => i = j
  /\ \A f \in Forks : f \in Listed(groups) <=> f \in groups.of[parent[f]].consented

Awaited ==
  {c \in {toClient[i] : i \in DOMAIN toClient} \cup {toPage[j].call : j \in {k \in DOMAIN toPage : toPage[k].type = "reply"}} :
     RouteLive(c) /\ ~c.over}

\* One change of a page at a time, and the page is locked exactly while it is
\* under way.
OneChangeAtATime ==
  page # "away" =>
    LET changes == {c \in Awaited : c.for # "load"} IN
    /\ busy = {c.for : c \in changes}
    /\ \A c, d \in changes : c = d

Untold(s) == [made |-> s.made, of |-> [g \in Ids |-> [s.of[g] EXCEPT !.texts = {}]]]

\* Once all is heard, the page shows the groups as they are, but for their texts:
\* sending a message tells no page (Untold).
GroupsShown ==
  page # "away" /\ toClient = <<>> /\ toPage = <<>> /\ shown # NotLoaded =>
    Untold(shown) = Untold(groups)
=============================================================================
