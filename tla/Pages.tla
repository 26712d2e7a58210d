-------------------------------- MODULE Pages ---------------------------------
(***************************************************************************)
(* Pages: the modules Groups, Forum, Admin and Lists for TLC.  The shell   *)
(* (App.svelte) mounts one page at a time, and these four parts of it      *)
(* have different state of the client as their subject, over the same      *)
(* port.  A behaviour stays in one of them.                                *)
(***************************************************************************)
EXTENDS Naturals, Sequences

CONSTANTS
  Seeds, JoinedSeeds, AskingSeeds, Others, MaxForks,                            \* Groups
  N, Offline, FilterSets, RuleSets, ValueSets, Invalid, PageSize, Slots,        \* Forum
  Communities, Own, People,                                                     \* Admin
  Peers, Online, SeedSender, Names, MaxDevices,                                 \* Lists, with Slots
  MaxTimeouts,                                                                  \* all of them
  GroupVisits, GroupAsks, ForumVisits, ForumAsks,                               \* bounds of each
  AdminVisits, AdminAsks, ListVisits, ListAsks

VARIABLES
  area,                                       \* which of the four it is
  toClient, toPage, page, visit, asks, timeouts,                 \* of all four
  groups, parent, opens, id, seq, shown, loading, busy, pendingJoin, consentChecked, draft,  \* of Groups
  rules, profile, revision, exchanges, forum,                                                \* of Forum
  roles, views, members, schema, sign, root, controls,                                       \* of Admin
  waiting, editor,                                                                           \* of the last two
  ready, recipientSlots, waves, relations, threads, devices, list,                           \* of Lists
  blocked, senderSlots                                                                       \* of Forum and Lists

G == INSTANCE Groups WITH MaxVisits <- GroupVisits, MaxAsks <- GroupAsks
F == INSTANCE Forum WITH MaxVisits <- ForumVisits, MaxAsks <- ForumAsks
A == INSTANCE Admin WITH MaxVisits <- AdminVisits, MaxAsks <- AdminAsks
L == INSTANCE Lists WITH MaxVisits <- ListVisits, MaxAsks <- ListAsks

ASSUME PagesAssumption == G!GroupsAssumption /\ F!ForumAssumption /\ A!AdminAssumption /\ L!ListsAssumption

groupsOnly == <<groups, parent, opens, id, seq, shown, loading, busy, pendingJoin, consentChecked, draft>>
forumOnly == <<rules, profile, revision, exchanges, forum>>
adminOnly == <<roles, views, members, schema, sign, root, controls>>
listsOnly == <<ready, recipientSlots, waves, relations, threads, devices, list>>
savers == <<waiting, editor>>
wavers == <<blocked, senderSlots>>
vars == <<area, toClient, toPage, page, visit, asks, timeouts, groupsOnly, forumOnly, adminOnly, listsOnly, savers, wavers>>

NotHere == "not here"

NoGroups ==
  /\ groups = NotHere /\ parent = NotHere /\ opens = NotHere /\ id = NotHere /\ seq = NotHere /\ shown = NotHere
  /\ loading = NotHere /\ busy = NotHere /\ pendingJoin = NotHere /\ consentChecked = NotHere /\ draft = NotHere
NoForum == rules = NotHere /\ profile = NotHere /\ revision = NotHere /\ exchanges = NotHere /\ forum = NotHere
NoAdmin ==
  /\ roles = NotHere /\ views = NotHere /\ members = NotHere /\ schema = NotHere
  /\ sign = NotHere /\ root = NotHere /\ controls = NotHere
NoLists ==
  /\ ready = NotHere /\ recipientSlots = NotHere /\ waves = NotHere /\ relations = NotHere /\ threads = NotHere
  /\ devices = NotHere /\ list = NotHere
NoSavers == waiting = NotHere /\ editor = NotHere
NoWavers == blocked = NotHere /\ senderSlots = NotHere

Init ==
  \/ area = "groups" /\ G!Init /\ NoForum /\ NoAdmin /\ NoLists /\ NoSavers /\ NoWavers
  \/ area = "forum" /\ F!Init /\ NoGroups /\ NoAdmin /\ NoLists
  \/ area = "admin" /\ A!Init /\ NoGroups /\ NoForum /\ NoLists /\ NoWavers
  \/ area = "lists" /\ L!Init /\ NoGroups /\ NoForum /\ NoAdmin /\ NoSavers

GroupsStep == area = "groups" /\ G!Next /\ UNCHANGED <<area, forumOnly, adminOnly, listsOnly, savers, wavers>>
ForumStep == area = "forum" /\ F!Next /\ UNCHANGED <<area, groupsOnly, adminOnly, listsOnly>>
AdminStep == area = "admin" /\ A!Next /\ UNCHANGED <<area, groupsOnly, forumOnly, listsOnly, wavers>>
ListsStep == area = "lists" /\ L!Next /\ UNCHANGED <<area, groupsOnly, forumOnly, adminOnly, savers>>

Next == GroupsStep \/ ForumStep \/ AdminStep \/ ListsStep

Spec == Init /\ [][Next]_vars

-----------------------------------------------------------------------------
(* Properties: what the modules state, each of its own behaviours.         *)

\* A group counts as many members as it has (joinGroup, leaveGroup).
SizeCounts == area = "groups" => G!SizeCounts

\* Consent makes one group of a fork (consentFork).
OneGroupPerFork == area = "groups" => G!OneGroupPerFork

\* A page has one change of a group under way, and is locked as long.
OneChangeAtATime == area = "groups" => G!OneChangeAtATime

\* Once all is heard, a page shows the groups as they are.
GroupsShown == area = "groups" => G!GroupsShown

\* The forum and the profile are busy as long as an answer is on its way.
BusyIsAwaited == area = "forum" => F!BusyIsAwaited

\* Once all is heard, the forum shows whom its filters find.
ForumShown == area = "forum" => F!ForumShown

\* What the profile says is saved is what the client holds.
SavedIsStored == area = "forum" => F!SavedIsStored

\* The communities' page shows, and would change, the one that is selected.
RootShown == area = "admin" => A!RootShown

\* A schema is replaced only by one that was edited from it.
NoLostUpdate == [][area = "admin" /\ schema' # schema => A!EditedFrom(Head(toClient))]_vars

\* Once all is heard, the lists show waves, contacts and devices as they are.
ListsShown == area = "lists" => L!ListsShown

\* The waves and the slots that are shown together are of one moment.
WavesOfOneMoment == area = "lists" => L!WavesOfOneMoment
=============================================================================
