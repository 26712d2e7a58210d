-------------------------------- MODULE Admin ---------------------------------
(***************************************************************************)
(* Admin: the administration pages, which are the sign-in of a community's *)
(* admins (views/Admin.svelte), the profile schema (AdminSchema.svelte),   *)
(* the platform's communities (Root.svelte) and the membership controls    *)
(* inside them (AdminRoles.svelte), over what the client keeps of roles,   *)
(* settings and schema (core/src/dev-adapter.ts).                          *)
(*                                                                         *)
(* One page is mounted at a time, and what it asked for may be answered    *)
(* after it is gone.  The port keeps the order of the calls, except that   *)
(* a sign-in waits for its passkey, and takes any time.                    *)
(*                                                                         *)
(* A community has one setting that is editable.  The fields of a schema   *)
(* are a number, new with each edit.  Notes, labels and defaults are left  *)
(* out, with the request for another handle, which is in Admission, and    *)
(* the reads that a page still asks for after it is gone.                  *)
(***************************************************************************)
EXTENDS Naturals, Sequences

CONSTANTS
  Communities, Own,  \* all communities, and the admin's own
  People,            \* members to appoint
  MaxVisits, MaxAsks, MaxTimeouts  \* bounds: pages mounted, requests, calls that time out

AdminAssumption ==
  /\ Own \in Communities
  /\ MaxVisits \in Nat /\ MaxAsks \in Nat /\ MaxTimeouts \in Nat

VARIABLES
  roles, views, members, schema,  \* the client's: rootViews and roleMembers in the code
  toClient, toPage,               \* the port, both ways
  waiting,                        \* sign-ins that wait for the passkey
  page, visit,
  sign,      \* [done, busy] of any page: signedIn, and busy or signingIn
  root,      \* the state of the communities' page
  controls,  \* the state of the membership controls
  editor,    \* the state of the schema's page
  asks, timeouts

client == <<roles, views, members, schema>>
port == <<toClient, toPage, waiting>>
state == <<sign, root, controls, editor>>
vars == <<client, port, page, visit, state, asks, timeouts>>

\* What is chosen for a setting; a value may be left blank.
Modes == {"inherit", "empty", "value", "blank"}
Role == {"member", "admin", "root"}
None == [of |-> {}]   \* what a page has not been told of a community yet
NoCommunity == {}

NewSign == [done |-> FALSE, busy |-> FALSE]
NewRoot == [selected |-> NoCommunity, view |-> None, draft |-> None, loading |-> FALSE,
            saving |-> FALSE, adminBusy |-> FALSE, seq |-> 0]
NewControls == [scope |-> NoCommunity, view |-> None, busy |-> FALSE, generation |-> 0]
NewEditor == [schema |-> <<>>, saving |-> FALSE, error |-> FALSE]

Call(op, community, what, who) ==
  [op |-> op, of |-> community, what |-> what, who |-> who, seq |-> 0, draft |-> <<>>, visit |-> visit, over |-> FALSE]

Init ==
  /\ roles = {}
  /\ views = [c \in Communities |-> [setting |-> "inherit", admins |-> {}]]
  /\ members = [c \in Communities |-> [p \in People |-> "member"]]
  /\ schema = [version |-> 1, fields |-> 0]
  /\ toClient = <<>> /\ toPage = <<>> /\ waiting = <<>>
  /\ page = "away" /\ visit = 0
  /\ sign = NewSign /\ root = NewRoot /\ controls = NewControls /\ editor = NewEditor
  /\ asks = 0 /\ timeouts = 0

-----------------------------------------------------------------------------
(* Someone at the pages.                                                   *)

Pages == {"admin", "schema", "root"}

Navigate(p) ==
  /\ visit < MaxVisits /\ p # page
  /\ page' = p /\ visit' = visit + 1
  /\ sign' = NewSign /\ root' = NewRoot /\ controls' = NewControls /\ editor' = NewEditor
  /\ UNCHANGED <<client, port, asks, timeouts>>

Asks == asks < MaxAsks /\ asks' = asks + 1

\* The communities' page offers a sign-in until one succeeded.
SignIn ==
  /\ page \in Pages /\ ~sign.busy /\ (sign.done => page = "admin") /\ Asks
  /\ sign' = [sign EXCEPT !.busy = TRUE]
  /\ toClient' = Append(toClient, Call("signInRole", Own, IF page = "root" THEN "root" ELSE "admin", {}))
  /\ UNCHANGED <<client, toPage, waiting, page, visit, root, controls, editor, timeouts>>

\* The membership controls are asked for a community, if it is another one.
ScopeTo(c, queue) ==
  IF controls.scope = c THEN toClient' = queue /\ UNCHANGED controls
  ELSE LET g == controls.generation + 1 IN
       /\ controls' = [NewControls EXCEPT !.scope = c, !.generation = g]
       /\ toClient' = Append(queue, [Call("adminAccess", c, "", {}) EXCEPT !.seq = g])

Opens(c) == [root EXCEPT !.selected = c, !.view = None, !.loading = TRUE, !.seq = @ + 1]

\* selectCommunity; the draft is only replaced by the answer.
Select(c, queue) ==
  /\ root' = Opens(c)
  /\ ScopeTo(c, Append(queue, [Call("rootCommunity", c, "", {}) EXCEPT !.seq = root'.seq]))

SelectCommunity(c) ==
  /\ page = "root" /\ sign.done /\ ~root.saving /\ ~root.adminBusy /\ Asks
  /\ Select(c, toClient)
  /\ UNCHANGED <<client, toPage, waiting, page, visit, sign, editor, timeouts>>

controlsDisabled == sign.busy \/ root.loading \/ root.saving \/ root.adminBusy
Shows == page = "root" /\ root.view # None

ChooseMode(mode) ==
  /\ Shows /\ ~controlsDisabled /\ root.draft.mode # mode
  /\ root' = [root EXCEPT !.draft.mode = mode]
  /\ UNCHANGED <<client, port, page, visit, sign, controls, editor, asks, timeouts>>

SaveSetting ==
  /\ Shows /\ ~controlsDisabled /\ Asks
  /\ root' = [root EXCEPT !.saving = TRUE]
  /\ toClient' = Append(toClient, [Call("rootSetSetting", root.selected, root.draft.mode, {}) EXCEPT !.seq = root.seq])
  /\ UNCHANGED <<client, toPage, waiting, page, visit, sign, controls, editor, timeouts>>

\* addAdmin and removeAdmin.
SetAdmin(p) ==
  /\ Shows /\ ~controlsDisabled /\ Asks
  /\ root' = [root EXCEPT !.adminBusy = TRUE]
  /\ toClient' = Append(toClient, [Call("rootSetAdmin", root.selected,
                   IF p \in root.view.admins THEN "remove" ELSE "add", {p}) EXCEPT !.seq = root.seq])
  /\ UNCHANGED <<client, toPage, waiting, page, visit, sign, controls, editor, timeouts>>

Apply(p, role) ==
  /\ controls.view # None /\ ~controls.busy /\ Asks
  /\ controls' = [controls EXCEPT !.busy = TRUE]
  /\ toClient' = Append(toClient, [Call("adminSetRole", controls.scope, role, {p}) EXCEPT !.seq = controls.generation])
  /\ UNCHANGED <<client, toPage, waiting, page, visit, sign, root, editor, timeouts>>

\* load again, which is offered where there is no schema to edit.
RetrySchema ==
  /\ page = "schema" /\ sign.done /\ editor.schema = <<>> /\ editor.error /\ Asks
  /\ editor' = [editor EXCEPT !.error = FALSE]
  /\ toClient' = Append(toClient, Call("adminSchema", Own, "load", {}))
  /\ UNCHANGED <<client, toPage, waiting, page, visit, sign, root, controls, timeouts>>

\* move, patch, onDrop, addQuestion and removeQuestion keep the version.
EditSchema ==
  /\ page = "schema" /\ editor.schema # <<>> /\ ~editor.saving /\ Asks
  /\ editor' = [editor EXCEPT !.schema[1].fields = asks + 1]
  /\ UNCHANGED <<client, port, page, visit, sign, root, controls, timeouts>>

SaveSchema ==
  /\ page = "schema" /\ editor.schema # <<>> /\ ~editor.saving /\ Asks
  /\ editor' = [editor EXCEPT !.saving = TRUE]
  /\ toClient' = Append(toClient, [Call("adminSaveSchema", Own, "", {}) EXCEPT !.draft = editor.schema])
  /\ UNCHANGED <<client, toPage, waiting, page, visit, sign, root, controls, timeouts>>

-----------------------------------------------------------------------------
(* The client.                                                             *)

Access(c) == roles # {} /\ (c = Own \/ "root" \in roles)
Roots(f) == {p \in People : f[p] = "root"}

Permitted(c) ==
  CASE c.op \in {"rootCommunities", "rootCommunity", "rootSetSetting", "rootSetAdmin"} -> "root" \in roles /\ c.what # "blank"
    [] c.op = "adminAccess" -> Access(c.of)
    [] c.op = "adminSetRole" ->
         /\ Access(c.of)
         /\ "root" \in roles \/ (c.what # "root" /\ c.who \cap Roots(members[c.of]) = {})
    [] c.op = "adminSchema" -> "admin" \in roles
    [] c.op = "adminSaveSchema" -> "admin" \in roles /\ c.draft[1].version = schema.version

\* What a page is told: of the community, of its members, or of the schema,
\* with what it will have been edited from (auxiliary).
Told(c) ==
  IF c.op \in {"rootCommunity", "rootSetSetting", "rootSetAdmin"}
  THEN [of |-> c.of, setting |-> views'[c.of].setting, admins |-> views'[c.of].admins]
  ELSE IF c.op \in {"adminAccess", "adminSetRole"} THEN [of |-> c.of, members |-> members'[c.of]]
  ELSE [version |-> schema'.version, fields |-> schema'.fields, base |-> schema'.fields]

\* Mutant of Saved: the version stays.
SavedUnversioned(next) == [version |-> schema.version, fields |-> next.fields]

Saved(next) == [version |-> schema.version + 1, fields |-> next.fields]

Reply(c, ok) == [call |-> c, ok |-> ok, told |-> IF ok THEN Told(c) ELSE None]

Perform(c) ==
  /\ views' = CASE c.op = "rootSetSetting" -> [views EXCEPT ![c.of].setting = c.what]
                [] c.op = "rootSetAdmin" ->
                     [views EXCEPT ![c.of].admins = IF c.what = "add" THEN @ \cup c.who ELSE @ \ c.who]
                [] OTHER -> views
  /\ members' = IF c.op = "adminSetRole"
                THEN [members EXCEPT ![c.of] = [p \in People |-> IF p \in c.who THEN c.what ELSE @[p]]]
                ELSE members
  /\ schema' = IF c.op = "adminSaveSchema" THEN Saved(c.draft[1]) ELSE schema

RunCall ==
  /\ toClient # <<>>
  /\ toClient' = Tail(toClient)
  /\ LET c == Head(toClient) IN
       IF c.op = "signInRole" THEN waiting' = Append(waiting, c) /\ UNCHANGED <<client, toPage>>
       ELSE /\ IF Permitted(c) THEN Perform(c) ELSE UNCHANGED <<views, members, schema>>
            /\ toPage' = Append(toPage, Reply(c, Permitted(c)))
            /\ UNCHANGED <<roles, waiting>>
  /\ UNCHANGED <<page, visit, state, asks, timeouts>>

Replies(ok) == [i \in DOMAIN waiting |-> [call |-> waiting[i], ok |-> ok, told |-> None]]

\* The passkey is given, or not, for all that wait for it; each sign-in takes
\* the place of the one before.
PasskeyEnds(ok) ==
  /\ waiting # <<>>
  /\ waiting' = <<>>
  /\ roles' = IF ok THEN {waiting[Len(waiting)].what} ELSE roles
  /\ toPage' = toPage \o Replies(ok)
  /\ UNCHANGED <<views, members, schema, toClient, page, visit, state, asks, timeouts>>

\* The client is disconnected, and forgets who signed in.
Disconnect ==
  /\ roles # {} /\ Asks
  /\ roles' = {}
  /\ UNCHANGED <<views, members, schema, port, page, visit, state, timeouts>>

-----------------------------------------------------------------------------
(* The page hears of it.                                                   *)

\* Mutant of Newest: an answer counts although another community is selected.
NewestAlways(c) == TRUE

Newest(c) == c.seq = root.seq

Draft(told) == [of |-> told.of, mode |-> told.setting]

\* What comes after a sign-in: the communities, the controls, or the schema.
SignedIn(c, ok, queue) ==
  LET done == IF page = "root" THEN sign ELSE [sign EXCEPT !.done = TRUE, !.busy = page = "schema"] IN
  /\ sign' = IF ok THEN done ELSE [sign EXCEPT !.busy = FALSE]
  /\ IF ok /\ page = "admin" THEN ScopeTo(Own, queue)
     ELSE /\ toClient' = IF ~ok THEN queue
                         ELSE Append(queue, Call(IF page = "root" THEN "rootCommunities" ELSE "adminSchema", Own, "load", {}))
          /\ UNCHANGED controls
  /\ UNCHANGED <<root, editor>>

CommunitiesAnswered(ok, queue) ==
  /\ sign' = [sign EXCEPT !.done = ok, !.busy = ok]
  /\ IF ok THEN Select(Own, queue) ELSE toClient' = queue /\ UNCHANGED <<root, controls>>
  /\ UNCHANGED editor

\* The sign-in ends with the answer for its first selection, newest or not.
CommunityAnswered(c, ok, told, queue) ==
  /\ root' = IF ~Newest(c) THEN root
             ELSE IF ok THEN [root EXCEPT !.view = told, !.draft = Draft(told), !.loading = FALSE]
             ELSE [root EXCEPT !.loading = FALSE]
  /\ sign' = IF c.seq = 1 THEN [sign EXCEPT !.busy = FALSE] ELSE sign
  /\ toClient' = queue
  /\ UNCHANGED <<controls, editor>>

ChangeAnswered(c, ok, told, queue) ==
  /\ LET r == IF ok /\ Newest(c) THEN [root EXCEPT !.view = told] ELSE root IN
     root' = IF c.op = "rootSetSetting"
             THEN [r EXCEPT !.saving = FALSE, !.draft = IF ok /\ Newest(c) THEN Draft(told) ELSE @]
             ELSE [r EXCEPT !.adminBusy = FALSE]
  /\ toClient' = queue
  /\ UNCHANGED <<sign, controls, editor>>

ControlsAnswered(c, ok, told, queue) ==
  /\ controls' = IF c.seq # controls.generation THEN controls
                 ELSE [controls EXCEPT !.view = IF ok THEN told ELSE @,
                                       !.busy = IF c.op = "adminSetRole" THEN FALSE ELSE @]
  /\ toClient' = queue
  /\ UNCHANGED <<sign, root, editor>>

\* A save reads the schema back.
SchemaAnswered(c, ok, told, queue) ==
  /\ IF c.op = "adminSaveSchema" /\ ok
     THEN toClient' = Append(queue, Call("adminSchema", Own, "back", {})) /\ UNCHANGED <<sign, editor>>
     ELSE /\ toClient' = queue
          /\ editor' = [schema |-> IF ok THEN <<told>> ELSE editor.schema, error |-> ~ok,
                        saving |-> IF c.what = "load" THEN editor.saving ELSE FALSE]
          /\ sign' = IF c.what = "load" THEN [sign EXCEPT !.busy = FALSE] ELSE sign
  /\ UNCHANGED <<root, controls>>

Continue(c, ok, told, queue) ==
  IF c.visit # visit THEN toClient' = queue /\ UNCHANGED state
  ELSE CASE c.op = "signInRole"                         -> SignedIn(c, ok, queue)
         [] c.op = "rootCommunities"                    -> CommunitiesAnswered(ok, queue)
         [] c.op = "rootCommunity"                      -> CommunityAnswered(c, ok, told, queue)
         [] c.op \in {"rootSetSetting", "rootSetAdmin"} -> ChangeAnswered(c, ok, told, queue)
         [] c.op \in {"adminAccess", "adminSetRole"}    -> ControlsAnswered(c, ok, told, queue)
         [] OTHER                                       -> SchemaAnswered(c, ok, told, queue)

\* The answer to a call that took too long finds nobody waiting for it.
HearReply ==
  /\ toPage # <<>>
  /\ toPage' = Tail(toPage)
  /\ LET m == Head(toPage) IN
       IF m.call.over THEN UNCHANGED <<toClient, state>> ELSE Continue(m.call, m.ok, m.told, toClient)
  /\ UNCHANGED <<client, waiting, page, visit, asks, timeouts>>

\* A call takes too long; it may still be run.
TimeOut(i) ==
  /\ timeouts < MaxTimeouts /\ timeouts' = timeouts + 1
  /\ toClient[i].visit = visit /\ ~toClient[i].over
  /\ Continue(toClient[i], FALSE, None, [toClient EXCEPT ![i].over = TRUE])
  /\ UNCHANGED <<client, toPage, waiting, page, visit, asks>>

PasskeyTimesOut(i) ==
  /\ timeouts < MaxTimeouts /\ timeouts' = timeouts + 1
  /\ waiting[i].visit = visit /\ ~waiting[i].over
  /\ Continue(waiting[i], FALSE, None, toClient)
  /\ waiting' = [waiting EXCEPT ![i].over = TRUE]
  /\ UNCHANGED <<client, toPage, page, visit, asks>>

Someone ==
  \/ \E p \in Pages : Navigate(p)
  \/ SignIn \/ SaveSetting \/ RetrySchema \/ EditSchema \/ SaveSchema \/ Disconnect
  \/ \E c \in Communities : SelectCommunity(c)
  \/ \E mode \in Modes : ChooseMode(mode)
  \/ \E p \in People : SetAdmin(p) \/ \E role \in Role : Apply(p, role)

Next ==
  \/ Someone \/ RunCall \/ HearReply
  \/ \E ok \in BOOLEAN : PasskeyEnds(ok)
  \/ (\E i \in DOMAIN toClient : TimeOut(i)) \/ (\E i \in DOMAIN waiting : PasskeyTimesOut(i))

Spec == Init /\ [][Next]_vars

-----------------------------------------------------------------------------
(* Properties.                                                             *)

Quiet == toClient = <<>> /\ toPage = <<>> /\ waiting = <<>>

\* The communities' page shows, and would save, what belongs to the community
\* that is selected and to no other; once all is heard and nothing timed out
\* it shows it, and the controls the members, as they are.
RootShown ==
  page = "root" =>
    /\ root.view # None => root.view.of = root.selected /\ root.draft.of = root.selected
    /\ controls.view # None => controls.view.of = root.selected
    /\ Quiet /\ timeouts = 0 /\ root.view # None =>
         /\ root.view.setting = views[root.selected].setting /\ root.view.admins = views[root.selected].admins
         /\ controls.view # None => controls.view.members = members[root.selected]

EditedFrom(c) == c.draft[1].base = schema.fields

\* A schema is only replaced by one that was edited from it: an admin never
\* undoes a change that the page had not shown, whatever answers were lost.
NoLostUpdate == [][schema' # schema => EditedFrom(Head(toClient))]_vars
=============================================================================
