# A formal model of cmeet

cmeet is the member application of cmsg, a network of communities in which
strangers meet by *waves*. This directory holds TLA+ modules translated from its
source, configurations with which TLC checks them, and proofs that TLAPS checks.
Paths are relative to the repository (`DA` stands for
`core/src/dev-adapter.ts`, `views/` for `apps/web/src/views/`).

Contents: 1 the system, 2 what is hard in it, 3 the modules, 4 the runs,
5 fairness, 6 the proofs, 7 disagreements between code and documents,
8 what is left out, 9 the plan, 10 how to run it all.

## 1. The system

cmsg, the backend, is another repository. Here it appears as one interface,
`CmsgClient` (`core/src/cmsg.ts`), and as an implementation in memory, the
development adapter `createDevCmsg`. Everything the member sees calls that
interface and listens to its events. There is no storage in this repository: a
reload of the page starts the adapter anew, so crash recovery is no subject.

| Component | State | Operations | Talks to |
|---|---|---|---|
| **Relations** (`DA`) | waves, introduction slots, relations, blocks, threads, timers | send, answer, close, punish a wave; block, unblock; open, write to, close, punish, reopen a conversation; timers | every view, by calls and events; the connection, whose loss clears the timers |
| **Admission** (`DA`, `views/Arrival`, `Lobby`, `ProfileEditor`, `AdminBoard`, `HandleSettings`, `App.svelte`) | joined, handle, gate, profile published, admitted, handle policy; on the page: the snapshot and the mounted view | join, sign in, gate, publish, board, change of handle; navigation | session (events), bridge (passkey calls) |
| **Connection and session** (`DA` `connect`/`disconnect`, `session.svelte.ts`) | phase, generation on both sides, snapshot, unread count | start, retry, stop, refresh of waves | bridge or adapter |
| **Vault bridge** (`browser/harness/rpc.ts`, `frame.ts`) | pending calls with a timer each, ids, last id served | call, reply, timeout, event, dispose | page and vault frame over one `MessagePort`; the ceremony |
| **Passkey ceremony** (`browser/harness/ceremony.ts`, `views/VaultCeremony`) | status, nonce, window, poll, deadline | require, continue, result, poll, deadline, dispose | a pop-up over a `BroadcastChannel` |
| **Conversation page** (`views/Chat.svelte`) | shown thread, drafts, busy flags, dialog, request numbers | load, send, close, block, punish, reopen | client; keyed by `App.svelte` |
| **Command line client** (`apps/cli`) | session, exit code, admitted requests | invoke, tui, mcp | the owner (cmsg), an MCP SDK, a terminal, a pipe |
| **Forum and profile** (`DA`, `views/Forum`, `ProfileEditor`) | rules, published profile, exchanges, blocked members; on the page: filters, cursor, entries, key requests, drafts | discover, request a key, first wave, save of rules, profile and publication | Relations (slots, blocks), Admission |
| **Groups** (`DA`, `views/Groups`, `GroupDetail`) | members, sizes, forks, consents, texts; on the page: list or group, request number, busy flags, dialog, draft | join, leave, propose, consent, send, welcome, introduce, dismiss | events to both pages |
| **Lists** (`views/Waves`, `Contacts`) | what is listed, a request number, a dialog | load, act, reload | Relations, whose calls and timers they watch |
| **Devices** (`DA`, `views/Devices`) | devices, one of them pending | add, approve, remove, rename | its page |
| **Administration** (`DA`, `views/Admin`, `AdminSchema`, `AdminRoles`, `Root`) | roles, settings and admins of communities, members, a versioned schema | sign in, select, set, appoint, edit, save | Admission (the board) |
| Matching (`DA` `ruleMatches`) | none | compare rules and profiles | Forum |
| Browser login (`core/src/cli-login.ts`, `views/CliLogin`) | a request to log in | inspect, begin, cancel | page, CLI |
| Service worker (`apps/web/public/sw.js`, `pwa.ts`) | caches of versions | install, activate, fetch | page |

The components interact in four ways. *Calls* are asynchronous: a view awaits a
promise, and anything may happen before it goes on. *Events* go to every
subscriber and may overtake the view's own awaits. The *bridge* makes calls and
events messages on a port, in order, with a timeout of 120 s each. The *passkey
ceremony* holds up three kinds of call (`joinWithVoucher`, `signIn`,
`signInRole`), so these are overtaken by all others.

## 2. What is hard

The adapter's methods change state after their last `await`, so one handler is
atomic; nothing else is. The hazards follow from that:

- waves, slots and threads change by eight calls and two kinds of timer; a slot
  could be credited twice or lost, a conversation opened without a relation;
- pages go on after an `await` with a state that has moved: other conversation,
  other session, other visit, other mount;
- calls time out while their effect still happens; replies and events come late
  or for somebody who is gone;
- events and answers of reads overwrite the same list, and each page has its own
  rule for which of them counts: a request number, the last event, or none;
- pages left or outdated repeat what was done: a join, a consent, a save;
- one pop-up window serves several requests; its result may come late, twice,
  or from an earlier window;
- two delayed calls decide on the same admission, and part of the rule is kept
  only by which page is offered;
- an interrupt, a full queue, a broken pipe or a stalled reader ends a process
  whose last action may have had its effect.

`PROJECT.json` lists each hazard at its line with the property that covers it,
or with the reason why none does.

## 3. The modules

Definitions keep the names of the source. One action is one handler from one
`await` to the next. `PROJECT.json` maps every definition to its lines.

**Relations** (`MCRelations`, `RelationsProofs`). A record per wave (who, state,
which slots it holds, its timer), the two slot counters, a relation per member,
the blocked set and the threads. `SendWave`, `AnswerWave`, `CloseWave`,
`PunishWave`, `BlockMember`, `UnblockMember`, `OpenThread`, `SendMessage`,
`CloseConversation`, `PunishConversation` and `RequestReopen` are the calls,
`ReleaseFires` and `ReturnFires` the timers, `Connect` and `Disconnect` what of
the connection matters here. Ids, clocks and words are abstracted; that a
message is blank is kept, because `sendMessage` makes the thread before it looks.

**Ceremony** (`VaultBridgeProofs`). The controller (`Require`, `ContinueOpens`,
`ContinueBlocked`, `Deliver`, `Poll`, `Deadline`, `Dispose`) and the user with
the pop-up (`Answer`, `CloseWindow`). Results are a set on the wire, so they are
reordered, and one that answers an earlier request may come at any time.

**VaultBridge** (`VaultBridgeProofs`) extends Ceremony with the port: the page
(`Issue`, timeouts, receipt, dispose), two queues, and the vault, where a call is
received, waits for its ceremony, runs and replies. **RemoteCalls** is the
abstract specification of a call: it settles once, runs at most once, and has
succeeded only if it ran. VaultBridge implements it with `result <- call`.

**Session** (`SessionProofs`). Starts and stops of the page's session against
`connect`/`disconnect`, each with its generation counter, over two queues: the
phases shown and the number of waiting waves. The vault bridge's single
subscription is the variable `bridge`. Arrival joins or signs in (`Join`) and
goes on whether it is still mounted or not (`JoinFails`, `MarkJoined`), so
`markJoined` has no guard but that a join is under way; the history variable
`joinedLate` says that one ended after the session was stopped.

**ChatView** (`MCChatView`, `ChatViewProofs`). The conversation page against a client whose calls
run in any order. A visit is one run of the page's effect. `Keyed` says whether
each conversation gets a mount of its own, as in `App.svelte:103`; `InOrder`
whether replies and events keep their order, as over the port. The first run
takes neither for granted.

**Cli** (`CliProofs`). The three connected sessions of the client from import to
exit code: one request for `invoke`, the terminal loop of `tui`, and `mcp` with
its bounded transport. The owner, the SDK and the terminal are external and do
anything their interface allows.

**Admission** (`AdmissionProofs`). The adapter's admission state, the calls of up
to `Slots` pages under way, the port (`sent` towards the adapter, `inbox` back)
and the page: what the session knows, which view is mounted, what a mounted
lobby shows. `Mounted` is the choice `App.svelte` makes; a step that changes it
starts a view anew, and `Shows` is that part of every step of the page. `Arrives`
keeps calls in order but for those that wait for a passkey; `Wait` and
`TimerFires` are the 150 ms of `delay`. `Enters` tells pages that go on after
they were left (Arrival) from those that do not (AdminBoard). What a voucher or
a profile says is a choice between `Refuse` and acceptance.

The next four have one form: the client's state, two queues for the ordered port
(`toClient`, `toPage`), the page mounted, and counters that bound visits, requests
and timeouts. `RunCall` runs one call of the client with its event and its reply;
`HearReply` and `HearEvent` are the page going on; a timeout ends a call for the
page and leaves it in the queue, so that it may still be run.

**Groups** (`PagesProofs`). Members, sizes, forks and texts of groups, and the
list and the page of a group over them. `Change` is what a page asks for, `After`
what it does to the groups, `Announced` whether an event follows it,
`ReadAnswered` how the read after it comes back. The sizes are counted up and
down, as in the code, and not computed from the members.

**Forum** (`ForumProofs`). The search with its filters and pages, requests for a key, which wait
200 ms (`WaitEnds`), exchanges, the first wave, and the profile editor with its
three calls in a row (`NextOf`). Members are numbers; what a filter or a rule
selects is a set of them. A value of the profile is a set as well: whom its owner
is suitable for.

**Admin** (`PagesProofs`). The sign-in of a role, which waits for the passkey, the communities
with a setting and admins, the membership controls inside them, and the schema
with its version. What a schema was edited from is kept beside it (`base`). The
vault answers every call; the page passes over the answer of one that timed out
(`rpc.ts:109`).

**Lists** (`PagesProofs`). The pages of waves, contacts and devices over the actions of Relations
themselves (`R == INSTANCE Relations`): `Relates` is the call, `Event` what the
client tells after it, `TimerFires` a timer with its event. Other pages' calls
(`Elsewhere`) run beside them.

**Pages** puts the four together for TLC. They share the port and the page that
is mounted and nothing else that they change together, so a behaviour is in one
of the four areas: the checks of four modules in one run.

## 4. The runs

| Run | Question | Bounds | Result |
|---|---|---|---|
| `relations` | Are relations, threads and slots consistent under all calls and timers? Do timers serve what waits? | two members (one online), the code's three slots of a kind, three messages a thread | `TypeOK`, `OpenNeedsRelation`, `SlotConservation`, `OpensOnlyByAnswer`, `HistoryKept`, `TimersServe` hold |
| `relations_slot_lost` | Does every closed wave give its slot back? | one slot | no (section 7) |
| `relations_unblock` | Does unblocking leave a closed relation? | one slot | no (section 7) |
| `ceremony_stale_cancel` | Is a message of another window ignored? | two requests, three windows | no (section 7) |
| `groups_move` | Is who moves to a fork a member of its group? | one group, one fork, three visits, four requests, one timeout | no (section 7) |
| `vault_bridge` | Does the bridge with the ceremony implement `RemoteCalls`? Do operations wait for their grant, and end? Is a request granted by its own approval, watched, bounded, and settled? | two calls, three requests, three windows | holds |
| `session` | Are phases in order, is a stopped session quiet, does it converge? | three starts, one join, one change of the waves, one timeout | holds |
| `chat_view` | Does no late answer touch another view, unlock a busy page, lose a draft, or punish the wrong person? | two peers, two visits, two operations, one text, one timeout; any order, one mount | holds |
| `chat_view_converges` | Does the page end up showing the conversation? | the same; in order, keyed mounts | holds |
| `pages` | Are groups counted, forks made once and shown as they are? Does the forum keep busy only as long as needed, and show whom its filters find? Is a profile saved what the client holds? Do the administration pages show and change what they were told of? Do lists show Relations as it is? | `MaxForks` 1, three visits, three requests; three members, pages of two, two visits, three requests; two communities, one person, two visits, five requests; two members, one slot, two devices, two visits, two requests; one timeout each | holds |
| `cli` | Does the exit code admit what is unknown, is the backlog bounded, does an interrupt end it? | three ids, two pending, three requests | holds |
| `admission` | Whom does the adapter admit, what ends admission, what does the page show? | one typed handle and the board's, two calls, a gate open or closed; a handle dealt with only when nothing is unheard | holds |

Why the bounds are enough. Three slots are the real number, and two members give
every pair of a wave and a block; the third message is the first after an
answered pair. Three requests and three windows give a late result of an earlier
request and of an earlier window of the same request together. Two visits are
the fewest in which an answer belongs to another; two operations the fewest that
overlap. Two pending of three requests fill the backlog and leave one outside.
Three starts supersede a start twice, once before and once after it connects.
One join may end before, between or after them; a second one only asks for the
waves once more, and the proof holds for any number.
Two calls of admission give each pair of delayed calls in both orders; a second
call is asked only beside a joining or publishing one (`Overlapping`), the calls
that are long under way. Three visits of groups lead from the list to a group and
back; one fork can be consented to again from each of them. Three members on
pages of two leave a second page to load. Five requests of the administration
sign in, load, edit and save a schema with one left to save again. Two requests
of the lists are a change by the page and one by another, or a device added and
approved. A safety property of section 6 has no counterexample with more of any
of these.

Deadlock is looked for in the `relations` runs only. All the others may stop: a
user who does nothing, a request that is settled, a process that ended, or a
bound that is reached.

Every property of a passing run has a mutant of the code, a definition such as
`OpenRoutesProfile` or `RequireUnbounded` next to the one it changes, under which
TLC finds the property violated.

## 5. Fairness

Nothing is assumed of people: no user action is ever fair, so a member may wait
for ever, answer nothing, or leave. Assumed is:

- an armed timer fires (`setTimeout`, `setInterval`): return and release timers,
  the ceremony's poll and deadline, the timeout of a call;
- what was posted on a port or channel is delivered;
- an operation of the vault that began ends; a connect goes on after its waits;
- in the command line client, reads, writes and draws end, since each has a
  deadline, and a `select!` entered again and again takes a branch that stays
  ready: it polls its branches in random order. This is why the cancellation has
  strong fairness (`SF_vars(HearCancel)`) and all else weak.

A timer that a disconnect cleared is not armed and so not fair: `TimersServe`
says what is left of its promise.

## 6. The proofs

TLAPS checks the following for all values of the constants that meet the
`ASSUME`s of the modules (bounds are numbers, subsets are subsets, no model value
stands for two things). Each invariant is not inductive by itself; the
strengthening is given with the reason for it.

- **RelationsProofs**: `TypeCorrect`, `OpenNeedsRelationHolds`, `SlotsConserved`,
  `TimersMatch`, `OpensOnlyByAnswerHolds`, `HistoryKeptHolds`. `TypeInv` adds to
  the types that a wave runs between us and a member, `OpenInv` what an open
  thread needs of its relation. Slot conservation counts sets of waves; `SlotInv`
  adds to it that a pending wave holds its sender's slot, that a punished one does
  not, and that a return timer is only armed for a wave that does. An answer puts
  a new thread where one may be: that no message is lost by it rests on
  `BeginInv`, by which there is one incoming wave, an established relation has a
  thread, and while the wave waits its sender's thread is empty.
- **VaultBridgeProofs**: of the ceremony `CeremonyTypeCorrect`,
  `RequestsBounded`, `OpenPopupWatched`, `GrantsAreOwn`, where `CeremonyInv` adds
  that an open window has a number and a nonce, and that a nonce outlives its
  request only by disposal; of the bridge `RunsWhenGrantedHolds` and the
  refinement `BridgeRefines` of the safety part of `RemoteCalls`. `BridgeInv` says what the
  two ends know of each call while it is in a queue: what is queued was made,
  good replies are of operations that ran, and the place of a call in the vault
  agrees with what the page thinks of it.
- **ChatViewProofs**: `ViewIsOfPeerHolds`, `LockedWhileBusyHolds`,
  `PunishesConfirmedHolds`, for replies in any order and any keying. `PageInv`
  adds that every call under way is of a visit made so far and of its peer, that
  a reply fits its call, that there is one operation of a visit at a time, and
  that the flag set is the one of its kind; and that the dialog names the peer.
  `NeverOlderHolds` rests on `NewsInv`: the load that counts is at one place at
  most and was numbered last, nobody is ahead of the client, and its answer is no
  older than what is shown, so a late answer of an earlier load is never taken.
  `DraftsKeptHolds`, for a view that is not keyed, rests on `SendsOfDraft`: what is
  being sent is what is in the composer, and a success says that it is stored.
  `DraftsKeptOnMount` says it of any view: of what was typed nothing is lost
  except by opening another peer's view where the view is keyed.
- **PagesProofs**, about three of the four areas of Pages; each theorem speaks of
  any number of calls under way.
  - Groups: `OneGroupPerForkHolds`, `SizeCountsHolds`, `OneChangeAtATimeHolds`,
    `GroupsShownHolds`. `ClientInv` adds that a fork is listed, and consented to,
    only in the group it was proposed in, and that a fork that is no group yet has
    none of its own: a consent can then only come from the one parent, where the
    branch it made is found again. `SizeCounts` is exact for the groups of the
    start; of a branch it bounds the size from above, since who moves may have
    left before (`groups_move`). `GroupsInv` adds that of the calls of the visit
    at most one is a change, and that the page is locked while it is under way;
    `GroupsFresh` that the last event still unheard, and every answer after it,
    tells what the client keeps, and that with none unheard the page shows it.
  - Admin: `NoLostUpdateHolds`, `RootShownHolds`. `AdminInv` bounds the versions of
    the schema on the page and in every call: none is newer than the client's,
    and one as new was edited from it. `AdminFlow` follows what the client told
    along both queues; it is the same formula (`Flow`) for a community and for
    its members.
  - Lists: `WavesOfOneMomentHolds`, `ListsShownHolds`. `ListsInv` has the order of
    the visits over the port, by which an answer to this visit is heard only when
    no call of an earlier page is left (`Cleared`), and then, page by page, what
    becomes of what was told. For the waves (`WavesFlow`): the reads of all loads
    keep their order; the two of the last load stand together until the first is
    run, and the second is next (`Paired`); between what the first told and what
    the second told an event is still to be heard, or they are the same
    (`OneMoment`); what is shown is so, or an event or a read is to come
    (`WavesShown`). For contacts and devices: the last event tells what is so.
    Of contacts the theorem speaks once a read was answered on the visit
    (`list.read`, section 7), of waves and contacts where the page shows no error.
- **ForumProofs**, about the forum and the profile editor: `ForumInvHolds`,
  `BusyIsAwaitedHolds`, `SavedIsStoredHolds`, `ForumShownHolds`. `BusyForum` says
  more than that a busy flag has a call: it has exactly one, at one of the places
  a call can be. A save is three calls in a row; `SaveProfile` lists the seven
  places it can be at, in order, and what the client has stored by each. What the
  forum shows rests on three more parts (`ForumKnown`): every answer in the queue
  that is no longer true is followed by an event that says so (`ForumTold`);
  while no call timed out, the exchanges shown are the client's, or an event or a
  read that counts is to come (`ExchangesKnown`); and of the present search one call
  at most is under way, which starts where the entries end, under the filters
  shown (`Asked`), while the entries are those who match up to the cursor unless a
  block is still to be heard (`Listed`).
- **SessionProofs**: `SessionTypeCorrect`, `PhasesAreInOrder`,
  `StoppedSessionIsQuiet`. `SessionInv` adds that nothing under way is of a
  generation still to come, that after a stop nothing is of the present one but
  the waves a late join asked for, and that a connect not superseded is where the
  connection is.
- **CliProofs**: `CliTypeCorrect`, `UnknownIsReconcileHolds`, `BacklogIsBounded`.
  `CliInv` adds, place by place, how many actions can be without outcome, and
  that a held request of `mcp` is in the set of admitted ids.
- **AdmissionProofs**: `AdmissionTypeCorrect`, `AdmittedIsCompleteHolds`,
  `ShownIsCurrentHolds`, `AdmissionEndsOnlyByJoining`. The adapter publishes for
  anybody, so `AdmittedIsComplete` rests on the page: `AdmissionInv` adds that the
  page believes in a joining only when there was one, that who is asked to
  prepare or publish has joined, that an answer on its way belongs to one call
  and lets in only who has joined, and that in what is unheard everything after
  the last event tells the present state (`Recent`).

`TimersMatch`, `CeremonyTypeCorrect`, `SessionTypeCorrect`, `CliTypeCorrect` and
`AdmissionTypeCorrect` state invariants that no run lists: they are proved, and
the runs go to properties that say more.

Only model-checked: everything under fairness (`TimersServe`,
`EveryRequestSettles`, `EveryCallEnds`, the liveness half of `RemoteCalls`,
`StartsEnd`, `ShowsClient`, `ShowsCurrent`, `InterruptEnds`), which TLAPS does not
reach. Every safety invariant that a run checks and that holds has a theorem.
Induction over data and `RECURSIVE` operators are out of reach of the prover as
installed, and no module uses them.

## 7. Disagreements between code and documents

With a run that shows them:

1. `DA:667` A disconnect clears the timers that return slots, and nothing arms
   them again; `docs/product/decisions.md:70` returns every slot.
2. `DA:1005` Unblocking does not set the relation; `contacts.test.ts:77` says it
   leaves a closed one. A call made while the member is blocked may change the
   relation, and unblocking leaves it so.
3. `ceremony.ts:81` A cancellation from an earlier window of the same request
   cancels the window that is open; the comment at `:75` ignores stale messages.
4. `DA:1136` Consenting does not look whether the member is still in the group,
   as writing, welcoming and introducing do. Who left it and consents from a page
   that still shows the old list moves all the same, and the branch takes over a
   size that misses them. `docs/product/user-stories.md:362` has only members move,
   `decisions.md:98` members propose and movers consent.

Seen while modelling, without a run of their own:

- `Contacts.svelte:51` takes an event for newer than any load under way (the
  comment at `:48`). Over the ordered port it is older: heard before the answer
  of the first load, it cancels that answer, and with it what other pages changed
  without an event (`answerWave`, `punishWave` and `thread` send none). The page
  stays behind until it is refreshed. `ListsShown` excepts this with `list.read`;
  without that conjunct TLC finds it with two requests and two visits.
- `Devices.svelte:29` clears the error when a device is added after the first load
  failed: the page shows `loading` with nothing under way and no way to retry.
- `GroupDetail` and `Groups` show the texts of a group as they were at the last
  read or event; `sendGroupMessage` sends no `groups` event, so `GroupsShown` says
  nothing of texts. `loading` of the list can stay on when Retry is
  pressed between the event of one's own change and its reply.
- After the stale cancellation of 3 the controller has dropped the window that is
  open (`popup = null` in `ceremony.ts:81`), so the deadline, which closes the
  window in `browser-ceremony.test.ts:99`, leaves it open.
- `Arrival.svelte:50` and `:66` tell the session of a join without looking whether
  they are mounted. After `stop()`, `markJoined` (`session.svelte.ts:186`) asks for
  the waves in the name of the generation that `stop()` began, and the answer sets
  `unreadWaves` of a session that was torn down. `StoppedIsQuiet` excepts this with
  `joinedLate`; without it TLC finds the trace.
- `DA:825` computes which rule failed after the wait: rules saved meanwhile, under
  which all match, leave none, and the call ends in a `TypeError`.
- `Forum.svelte:283` drops the answer of a wave when the search was renewed: the
  draft stays and the wave can be sent a second time.
- A profile saved or published after the forum searched does not renew its
  entries: `ForumShown` speaks of the rules they were found under (`under`).
- `chat.test.ts:89` and `:309` guard against double submits and keep drafts under
  one mount; `App.svelte:103` mounts each conversation anew, where drafts of
  other conversations are lost.
- `decisions.md:71` returns the slot of a wave that meets silence; only a close
  starts a waiting period (`DA:869`).
- `punishConversation` charges no introduction, although `decisions.md:82` and
  `:84` describe punishment as costing one.
- The recipient's slots start at three while the wave in the seed holds one.
- `DA:696` calls the profile gate open when joining; who joins again has a
  profile, loses the admission all the same, and gets it back only by publishing
  again (`AdmissionEndsByJoining` is the exact statement).
- Joining again and entering the board replace a handle without releasing it,
  while `decisions.md:216` keeps released ones reserved.
- A change an admin required locks the handle also during settling-in, where
  `decisions.md:214` allows free changes.
- `AdminBoard.svelte:19` goes on only while mounted: left before the answer, the
  page does not learn that it has joined.

## 8. What is left out

Words, layout, focus, and everything a screen reader is told. The failure
switches of the fixture (`failIf`), which are refusals like others. Clocks are
orders of events. The `CmsgClient` behind the real network is not here. Texts and
profiles are members of small sets. Of Admission: what the settings and the
board show before they ask, and the phases of the connection, which Session has.
Of the start of the harness: its one handshake. Of the pages: drafts where no
property is about them, and the event `matches`, which the adapter never sends.

Not modelled, and why:

- *Matching* is a pure function of two profiles and their rules. Forum takes its
  result as a set of members; nothing else depends on it.
- *Service worker*: which version answers depends on the caches and clients of
  the browser, whose rules are in standards and not in this code.
- *Browser login*: the page relays three calls to a runtime that is not in this
  repository, and the stand-in answers each at once, so that none overlap.
- *Restore of a vault* changes nothing in the adapter.
- *Routing* parses a hash; the choice of a view is in Admission and Pages.
- Research simulations, continuous integration and generated files are no part
  of the program.

## 9. The plan

All components with state of their own are modelled, some in part (see
`PROJECT.json`). What would add most from here:

1. Admission with the settings page before it asks.
2. Matching as operators, compared with a definition by cases.
3. The browser login, once its runtime is known.

Runs are kept few. The runs that show a violation ask one question each;
`vault_bridge` contains the whole of Ceremony, and `pages` four modules.

## 10. Running

    tlc -config MCRelations.cfg MCRelations.tla
    tlc -config MCAdmission.cfg Admission.tla
    tlc -config MCPages.cfg Pages.tla
    tlapm AdmissionProofs.tla

`PROJECT.json` names module and configuration of every run. All runs end within
three minutes on two workers; the largest are `pages` (4.8 million distinct
states), `admission` (2.6 million) and `session` (0.9 million).
