# Content Delivery System: TLA+ models and proofs

This directory holds the formal models of the Content Delivery System: a
backend (`src/backend`, Express and Prisma over PostgreSQL) that hands out
tracked, limited links to files on Google Drive, and a frontend
(`src/frontend`, Next.js) with the owner's dashboard and the viewer's watch
page. `PROJECT.json` lists every run, mutant, theorem and finding, and maps
each definition to the lines it was translated from.

## 1. The system

| Component | State | Operations | Interacts with |
|---|---|---|---|
| Access engine (`streaming.service.ts`) | the link's row; devices, sessions, view logs | `requestAccess`, `heartbeat`, `endSession`, `stream` | link and tracking repositories, notifications, audit, the watch page |
| Watch page (`watch/[token]/page.tsx`, the player) | what was resolved, refused or granted; whether the player broke | open, unlock, fetch ranges | public API |
| Notifications (`notification.service.ts`, `mailer.ts`) | rules, notifications, `lastThresholdFired` on the link | `evaluateViewThresholds`, `notify...`, `dispatch`, CRUD of rules | called by the engine and the sweep; mail server |
| Link administration (`link.service.ts`) | the link's row | create, update, extend, raise limit, enable, disable, revoke, delete | writes the row that the engine and the sweep read |
| Expiry sweep (`scheduler.ts`) | the link's row | one tick a minute | notifications |
| Watch progress (player, `heartbeat`, `tracking.repository.ts`) | `watchSeconds`, `completed` of a view log | heartbeat, resume | the watch page |
| Content library (`content.service.ts`) | contents and their tags | create by Drive file, update, archive, restore, delete | the link form; links cascade with their content |
| Users, roles, boot (`user.service.ts`, `auth.middleware.ts`, `bootstrap/`, `server.ts`) | users, roles and their permissions, credentials | CRUD, `setPassword`, `authenticate`, seeding at boot | every admin route |
| Browser session (`lib/auth.tsx`, `app/login`, `AuthScreen`, `AppShell`) | the user shown, the calls of `/me` in flight, the path | sign in, sign out, redirect | the session library's cookie |
| Console pages (`app/(app)`, `DriveBrowser`) | the list, its filters, pager or folder, the open modal, drafts | load, filter, command a row, submit a modal | every admin route |
| Drive client, audit, analytics, reports, settings service | -- | pass-through or read-only | -- |

Everything is one Node process (or several) over one database. A handler is an
`async` function: between two `await`s nothing else runs, at each `await`
anything may. A single Prisma call is atomic; **almost no handler uses a transaction
across calls** (`setTags` and the removal of a user do), so every decision is made
on a row that may have changed by the time it is acted on. The browser is
concurrent in the same way: nothing cancels or sequences its calls, so answers
arrive in any order, on a page that has changed since.
Shutdown does not wait for handlers (`server.ts`: `process.exit`), so even a
deployment stops requests between two calls.

What makes each component correct:

* **Access engine.** A limit is not exceeded by more than racing requests can
  explain, however its owner moves it; no grant without a logged and counted view; a link that is not
  active, or is overdue, admits nobody; a lost session is not counted.
* **Alerts.** Each threshold is alerted, once, and what the link remembers never
  runs ahead of what was sent.
* **Administration and sweep.** An overdue link is expired and its expiry
  announced; a link's status follows what its owner asked for.
* **Watch progress.** What is saved was watched, and is not lost again; the offer
  to resume is honest.
* **Delivery.** No range is served that is judged after the link closed, the
  session ended or the grant expired; a viewer who is refused is told.
* **Notifications.** The status of a notification says what became of its mail; a
  rule in force is not passed over.
* **Library and link form.** A file is registered once; a content has the tags that
  somebody gave it; a link is for what was selected.
* **Users and boot.** Who is suspended gets nothing more in; roles keep no old or
  partial permissions, whatever boots do; somebody can still administer.
* **Browser.** The list and the user shown are the server's; what was typed into a
  modal is not lost; nothing spins or redirects for ever.

## 2. Modules

| Module | Models | Extends or instances |
|---|---|---|
| `Quota` | what a limit promises, whatever it counts | -- |
| `AccessEnforcement` | `requestAccess` and everything it awaits; touch and end of a session | instances `Quota` three times |
| `LinkAdministration` | the engine together with the admin API and the sweep | extends `AccessEnforcement` |
| `LinkAlerts` | the alerts and notices of a link whose limits are moved, and what its requests have met | extends `LinkAdministration` |
| `LinkRaces` | whose decision on the link's row was overtaken by another write | extends `LinkAdministration` |
| `WatchProgress` | player, heartbeat handler, offer to resume | -- |
| `StreamDelivery` | the watch page, the access request in outline, the streaming proxy and its grant | -- |
| `Dispatch` | rules, the evaluation of a view against them, each notification up to its status | -- |
| `ContentLibrary` | contents and tags under overlapping, failing requests | -- |
| `LinkComposer` | the form that registers a file and creates a link | extends `ContentLibrary` |
| `Permissions` | the roles and what they may do | -- |
| `UserAccounts` | users, credentials, the check of a request, the boot of a process | extends `Permissions` |
| `Session` | the browser's view of who is signed in, and where that takes it | -- |
| `Console` | the nine pages behind the sign-in | extends `Session`, `Permissions` |
| `QuotaProofs`, `AccessEnforcementProofs`, `WatchProgressProofs`, `StreamDeliveryProofs`, `DispatchProofs`, `ContentLibraryProofs`, `UserAccountsProofs`, `ConsoleProofs` | theorems | extend the module they are named after, or its `MC` module where a history variable is needed; `AccessEnforcementProofs` also extends `LinkRaces` and `LinkAlerts` |
| `MCAccessEnforcement`, `MCLinkAlerts`, `MCLinkLimits`, `MCLinkAdministration`, `MCWatchProgress`, `MCStreamDelivery`, `MCDispatch`, `MCContentLibrary`, `MCUserAccounts`, `MCConsole` | instances for TLC: data, symmetry, bounds and history variables | extend the above (`MCContentLibrary` extends `LinkComposer`, `MCLinkAdministration` extends `LinkRaces`) |

### AccessEnforcement

One link, and `Requests` slots for requests in flight. A request has a label
`pc`, the next call it awaits, and its local variables `viewer`, `seen` (the limits
in the row it read, by which it goes to the end), `key` (its session) and `todo` (the
rules it still has to alert). One action is one
database call with the code up to the next call:

| Label | Call | Action |
|---|---|---|
| resting | `findByTokenHash` and every check on the row it returned | `RefuseInactive`, `RefuseCredentials`, `RefuseSilently`, `FindOverdue`, `BlockAddress`, `HitViewLimit`, `Admit` |
| `expire`, `expiredNotice` | lazy expiry | `ExpireLink`, `NotifyExpired` |
| `security`, `limitNotice`, `limitMark` | denials that notify | `NotifySecurity`, `NotifyLimit`, `MarkLimit` |
| `device`, `countDevices`, `session`, `concurrent` | limit checks | `FindDevice`, `CountDevices`, `CountSessions`, `CountWatching` |
| `upsert`, `create`, `log`, `count` | the rows of the view | `UpsertDevice`, `CreateSession`, `CreateViewLog`, `IncrementViewCount` |
| `alert`, `record` | `evaluateViewThresholds` | `FireAlert`, `RecordThreshold` |
| `grant` | the answer | `IssueGrant` |

The checks on the row returned are one step because they all judge the same
copy: `bcrypt.compare` is awaited between them but cannot change it. The two
awaits of `audit.record` are left out: it swallows its errors and nothing reads
what it writes. `Fail` stops a request at any label and undoes nothing; the
slot takes another request afterwards.

Abstractions. The password and the embedding domain come with the request, so
either may be wrong (`RefuseCredentials`); the address allowlist is a set of
viewers, `ipAllowlist`. A viewer stands for its device fingerprint. Time is what the
code asks of it: whether `expiresAt` is ahead or past, and whether a session was
seen in the last five minutes (`recent`, left by `Lapse`, entered again by
`Heartbeat`). `alerts` and `notices` tally dispatched notifications as none, one
or several. A null limit is 0, which the validation does not accept as a limit.
Each limit and the allowlist is a column of the link, whose values are a constant
(`ViewLimits`, `AllowLists` and so on); the engine alone never writes them.

### LinkAdministration

Every admin handler is a read, on which it may refuse, and a write by id:
`SetStatus`, `Remove`, `ExtendExpiration`, `IncreaseViewLimit` and `Update`
put the write in `op`, `Store` makes it. A PATCH is a record of the fields of its body,
each given or not (`Updates`, `Given`): the expiry, the four limits and the address
allowlist, whatever the engine compares. The password and the embedding domains are
written like them, but a request's own are right or wrong anyway, and the label is read
by no step. A tick of the sweep is `Find`,
`ExpireFound`, `NotifyFound`; ticks overlap because `setInterval` does not wait
for the last one. `AdminFails` and `SweepFails` stop either half-way. Creation
is the initial state. `LinkRaces` adds a history variable, `overtaken`: those who are
about to write (`Deciding`) and whose row has changed since they read it. `LinkAlerts`
adds `met`: whether requests overlapped, one failed, or a view was counted after the
notice that the limit is reached.

### WatchProgress

One device opens the same link several times. The player's events send
heartbeats that may be lost and are handled in any order, two queries each.
Positions are in units of the film. `nearEnd` is what the content's row says of its
duration: where the last five percent begin, or nothing (`NoDuration`, for a duration
that is null or 0), in which case the code skips that check and offers any progress
(`streaming.service.ts:247`). `reached` is a history variable.

### Quota

`limit`, `used`, `pending`: `Admit` needs room and raises `pending`, `Use`
counts a unit, `Abandon` gives admissions back, `SetLimit` changes the limit.
`AccessEnforcement` implements it three times: views (admission is the read of
the row, use the increment), devices (the count, the upsert of a new
fingerprint) and sessions (the count, the create). A device or a session is admitted
by the limit that the request read at first, which an admin may have changed by then:
`LateSpec` is the quota with that liberty (`AdmitLate`).

### StreamDelivery

`page` is the state of a watch page, and the operators `Shows...` are the
conditions of its JSX; `call` is an access request, `transfer` a range request.
The engine's decisions appear only as what the page can tell apart: a status
code, a wrong password, some other refusal, or a session. `live` are the sessions
whose one-hour grant has been signed and not expired. The proxy's checks are one
action per await: `FindSession` (with the grant, which is verified before it),
`FindLink`, `Touch`, `StreamFile`, and the pipe until `Finish` or `BreakOff`.
`LinkAdministration`, seen from here, is `ChangeLink`: any status at any time.

### Dispatch

An evaluation (`eval`) carries the row that the increment returned: its count and
the mark it had. `FindRules` reads the rules in force, sorts the crossed
thresholds and looks the recipients up by threshold, as the code does; then each
alert goes through `Create`, `Send` and `MarkSent`, or `MarkFailed`. `Abort` is a
query that fails anywhere else, or the end of the process. `mailed` in a
notification is no column but what really happened to its mail.

### ContentLibrary and LinkComposer

Each handler is the look-up, the calls to Drive, the write, and the transaction
of `setTags`, whose two statements are two actions because READ COMMITTED lets
two of them overlap (`seen` is what the first statement found). The form's
requests go through the slot `Form` and share the table with everybody else's.
`meant` remembers what the form showed when its button was pressed.

### UserAccounts

`boot` is the step of `main()` each process is at: three roles seeded by upsert,
clear and grant, then the bootstrap administrator. `Stop` ends a process anywhere.
A request is authorised when it arrives (`ActiveUser`, `Authorised`) and writes
later. `OffersRow` is the page's rule that nobody is offered his own row. The
bootstrap variables are taken to be set. The role is looked up by name and no
role is ever deleted, so that look-up never fails.

### Session and Console

`Session` follows the calls of `/me` of the two callers (`AuthProvider`'s effect
and the login handler), which may fail and overtake each other, and the three
redirects. `Console` has one open page at a time. What differs between pages is a
record (`Pages`): permissions, filters, what a load does to an older error,
whether a failed load empties the list, whether a command's failure is told. What
they share is one set of actions: `Turn` changes what is asked for and loads,
`ReadRows` is the server reading, `Arrives` or `LoadFails` the end of a load,
`Press` a command on a row as the list shows it, `Carry` the server executing it,
`Succeeds` or `CommandFails` its end; modals are opened, closed and submitted
with commands of their own. A command remembers what the page asked for when it was
pressed, because the `load` that follows its `await` is the one of that render
(`content/page.tsx:87`, `links/page.tsx:54`; `Reload`), and where it was sent from: a
row, a modal that is still there, or one that has been closed since (`Leave`), whether by
the user or by the success of another command (`Closed`).

## 3. What the runs check

Passing runs:

| Run | Instance | Properties |
|---|---|---|
| `MCAccessLimits` | 2 requests that fail, 2 devices of which one may be outside the allowlist, 4 session keys, every limit 1 or 2, 1 alert | `TypeOK`; `ViewQuota`, `DeviceQuota`, `SessionQuota`: each check-then-use pair implements `Quota`; `ConcurrencyBounded`; `GrantsAccounted`: no grant without a counted view, no counted view without its log |
| `MCLinkAlerts` | 2 requests that fail, thresholds 1 and 2, an admin who moves the view limit between 1 and 2 | `MarkedMeansSent`: the mark never covers an alert that was not sent; `NoThresholdMissed`: without failures every passed threshold was alerted; `SentOnceSerially`: nothing is sent twice without an overlap, a failure or a view after the limit notice |
| `MCLinkLimits` | 2 requests, an admin who changes the status and, by PATCH, the limits of views, sessions and watchers and the allowlist | `ViewsDrain`: an inactive link admits nobody; `LimitsBounded`: views, devices, sessions and watchers exceed the largest limit that the link can have had by at most those in flight |
| `MCLinkExpiry` | 1 request, an admin who edits the expiry and the status, a tick; all fail | `OverdueEnforced`: an overdue link does not stay active for ever; `AnnouncedUnlessFailed`: its first expiry is announced unless whoever expired it failed before notifying; `AgainstTheRowByRaceOnly`: only someone who was overtaken expires what is not overdue, or a second time, or gives a removed link another status than active |
| `MCWatchProgress` | 2 views, 2 heartbeats in flight, a duration on record or none | `TypeOK`; `ProgressHonest`: no log claims more than was shown; `OfferHonest`: nor does an offer to resume, which lies before the last five percent of a known duration; `TakenBackByRaceOnly`: only two heartbeats that read the same row take progress back |
| `MCStreamDelivery` | 1 page with 2 access requests, 2 sessions, 1 range at a time, a player or a viewer of another type | `TypeOK`; `RefusalTold`; `OneViewPerVisit`: a visit uses one view unless Enter is pressed twice or a counted request fails; `ServedDrains`: what is judged after the link closed, the session ended or the grant expired is not served; `PageSettles`: the page does not stay blank |
| `MCDispatch` | 2 rules with thresholds 1 or 2, 2 evaluations, 1 edit, mail configured or not, a default recipient or none | `TypeOK` (the mark never exceeds the views); `StatusHonest`: SENT was taken by the mail server, and without failing queries nothing stays PENDING and nothing delivered is FAILED; `RulesServed`: a rule in force all the time is served once the views reach it, unless there is no default recipient and it, or a rule of its threshold, has none of its own |
| `MCContentLibrary` | 2 contents, 2 files, 2 sets of tags, the form and 2 other requests | `TypeOK`; `OncePerFile`; `TagsWhole`; `LinkedAsShown`: a link is for what the form showed when it was submitted |
| `MCUserAccounts` | 2 users, 2 processes, 2 requests, a database new or of an older build | `TypeOK`; `GrantsWhole`: while a process serves, a role has what it should or nothing; `GrantsRestored`: and not nothing for ever; `SuspensionDrains`: an inactive user gets nothing more in; `ManagerLeftSerially`: without overlap somebody can still administer |
| `MCConsole` | 2 users, every page with 1 row, 2 calls of a page at a time | `TypeOK` (among others, no page below the first); `ListHonest`: a page at rest shows the server's rows for what it asks for, but for the exceptions below; `SessionHonest`: the user shown is the one signed in; `ModalKept`: a modal closes only by the user or by a success; `Settles`: no endless spinner or redirect |

Properties that name exceptions (`ListHonest`, `SentOnceSerially`, `RulesServed`, `SessionHonest`, `OncePerFile`,
`TagsWhole`, `OneViewPerVisit`, `ModalKept`, `ManagerLeftSerially`,
`AgainstTheRowByRaceOnly`) say which
overlaps and failures are the *only* ways to break what the code intends; section
4 says what happens then.

Runs that TLC must find violated, each a disagreement between the code and what
its comments, tests or docs say:

| Run | Property | What happens |
|---|---|---|
| `MCAccessViewRace` | `MaxViewsRespected` | two requests for the last view are both granted |
| `MCAccessAlertRace` | `AlertSentOnce` | a view is counted before the threshold of the last one is recorded |

**History variables.** They live in the `MC` modules, `LinkAlerts`, `LinkRaces` and `WatchProgress`, never in
a guard: `overtaken` and `met` are described above, `failed` records that an
expiry was written by someone who then failed, `reached` how far a player got;
`disturbed`, `steady`, `mute`, `edits`, `raced`, `crossed`, `revived`, `overlapped`,
`newest`, `spoiled`, `strayed` and `doubt` record the exceptions above. A list is spoiled
when an answer comes after that of a later load, the last load fails, a command that
was carried out is reported as failed, others write, or the load after a command asks
for something else than the page does by then; a load that asks for the right thing
makes up for it, and calls that merely overlap are no exception. `newest` is the last
load, as long as it is under way. `strayed` is for the pager and the folders: whether,
since the page was opened, loads overlapped, failed or asked for something else. There
is doubt when both callers of `/me` wait at once, when one fails or a sign-out is not
carried out while there is a session, or when a sign-in reported as failed has changed
the cookie; loading the site again ends it.

**Bounds.** Two requests are enough for every race here, which are all between
one check and one write; the theorems remove that bound where they apply. The
session keys (`SessionKeys`) bound the views of a run: two let both thresholds
be passed by overlapping requests, four let requests overlap, finish and follow
one another past every limit used. `Several` caps the tallies, which are
compared with one and two only. `Offered` bounds which writes admins make and
`Bodies` which bodies of a PATCH they send, so that each run keeps those its
properties depend on; between them the runs make all of the first:
`MCLinkLimits` sets every
limit but that of devices, which is judged as that of sessions is and is left to the proof,
`MCLinkExpiry` every combination of `neverExpire` and `expiresAt`. Two values of a
limit let it be raised and lowered. `MaxViews` and `Beats` bound the views and heartbeats of `WatchProgress`; a
film of three units separates too early, resumable and near the end, and
`NearEnds` has a duration besides the content that has none. Symmetry is
used for requests, keys, viewers on the allowlist, admins, heartbeats, rules and
evaluations, none of which is ever ordered or named, and in no run with a liveness
property.

In the newer runs the bound is mostly on what happens at once, in a predicate
`Bounded` of the MC module: `MCUserAccounts` allows two boots and requests
together (two boots without a request); `MCContentLibrary` lets the form and one
other request overlap, or two requests without the form, and tags no content while
the form is open; `MCConsole` opens a page, and lets others write, only while no
call of the page is in flight, opens none while there is doubt about who is signed
in, has at most two calls of a page at once, two commands only if modals sent both
(closed meanwhile, the first may end in the second), and lets a session expire only
while no page is open. Every race here is between two calls, and each
of those pairs is reached but two commands of rows. `MaxContents` is two because a second row is what
`OncePerFile` forbids; `MaxEdits` is one because `RulesServed` asks what happens
to the *other* rules; two users are the fewest who can remove each other.
`Chosen` and `MaxAsk` bound the filters chosen and the page numbers and folders: links
are filtered to and fro, so that a command's load can ask for the filter of before, the
other pages change theirs once a visit;
two levels of folders and two pages have a first, a last and one that does not
exist. `Keys` bounds the sessions of `MCStreamDelivery`: requests beyond it wait.
Session expiry is left out while a page is open because no page looks at it: every
call fails from then on, which `LoadFails` and `CommandFails` already do.

**Deadlock** is checked everywhere but in `MCDispatch` and `MCContentLibrary`,
whose bounds on views, edits and rows let a run end.

**Fairness.** `Fairness` assumes that the interval timer keeps ticking
(`scheduler.ts`; `WF` of `Find`), that the event loop resumes what awaits (`WF`
of `NotifyFound`, `Store` and a request's denial), and that an update which is
tried again every minute succeeds at some time (`SF` of `ExpireFound`: a
failing tick is caught and the next one tries again). `MCStreamDelivery` assumes
that a request of the page is answered or breaks (`WF` of each request's handling and
of its reception) and that the resolution ends; `MCConsole` the same of the browser
(`Ends`: `/me`, sign-in, effects, loads and commands go on); `MCUserAccounts` that a
process that is down is started again and that its seeding goes on (`Booted`).
Nothing is assumed of viewers, of admins starting requests, or of failures
stopping, but `GrantsRestored` and `Settles` state it as their hypothesis: once
processes are not stopped any more, once nobody does anything any more.

## 4. Other disagreements met while modelling

These are certain or one step away in the models, and have no run of their own:

* `docs/API.md:71` calls revocation permanent. `enable`, `disable` and `extend`
  (`link.service.ts`) write the status whatever it was, except that a deleted
  link can only become active: a revoked link is reactivated by one call.
* `link.service.ts:90` refuses to create a link that has neither an expiry nor
  `neverExpire`; a PATCH (`:148-153`) with `neverExpire: false` alone reaches that
  row, which neither the sweep nor a viewer ever expires.
* A global rule and a rule of the link with the same threshold are both
  dispatched by one view (`notification.service.ts:94-103`), against the "at most
  once" of its comment. The runs use distinct thresholds.
* Two requests that find the limit reached both notify
  (`streaming.service.ts:185-190`, "only on the first time it is hit"): the race
  of `MCAccessAlertRace` in the other use of the same column.
* The limit notice puts `-1` in the place of the mark (`streaming.service.ts:190`), and
  raising the limit does not put it back (`link.service.ts:194-196`): the next view, on
  its own and without any failure, passes every threshold again and repeats all
  alerts, against "sent at most once" of `notification.service.ts:85-89`.
  `SentOnceSerially` names such a view ("reopened") as an exception.
* A limit that is lowered below what was counted takes nothing back, and a request goes
  by the limits it read at first: `LimitsBounded` can speak only of the largest limit
  that the link can have had.
* `streaming.service.ts:352-375`, "accumulate watch progress": of two heartbeats
  that read the same row the one written last decides, so saved progress, and the
  completed flag, go back. `TakenBackByRaceOnly` says that this is the only way.
* `streaming.service.ts:367`: a session silent for five minutes is not counted and its
  place is given away; the next heartbeat revives it, and one more than
  `maxConcurrent` are watching. `ConcurrencyBounded` is for viewers who do not come
  back (`LapsedResume` FALSE).
* `scheduler.ts:16-19`: a tick that fails after it expired a link never announces
  it, since the next tick finds active links only. `AnnouncedUnlessFailed` says that
  only a failure loses the notice.
* `link.repository.ts:86-97`, "whose expiry has passed": the update is by id, so a
  link extended between find and update is expired. The lazy expiry at
  `streaming.service.ts:154` does the same.
* `link.service.ts:213-217`, "Deleted links can only be restored to Active": the
  status is checked on the row that was read, so a link deleted in between becomes
  disabled or revoked.
* `findLatestProgress` (`tracking.repository.ts:87-99`) skips completed logs, so a
  device that finished the film is offered the position of an older view. A content
  without a duration is offered up to its very end (`streaming.service.ts:247`).

Watch page and delivery:

* A locked page hides the banner for `LINK_` codes and shows no status card, so a
  viewer who unlocks a link that was just revoked sees nothing happen
  (`SilentForm`).
* Enter submits the form while a request is under way; both are answered and two
  views are used.
* The grant lasts an hour and no page renews it: the player then fails for good,
  with a message about Google Drive. No page of this frontend calls `/end`.
* Archiving a content does not stop its delivery.

Notifications:

* Of two rules with the same threshold the first one's recipient gets both mails. If it
  has none and `ALERT_DEFAULT_RECIPIENT` is not set, both alerts are dropped and marked
  as fired, so the other rule, although it has a recipient, is passed over for good
  (`notification.service.ts:59-63`, `:102-107`). `RulesServed` excepts the thresholds of
  rules that were in force without a recipient (`mute`), when there is no default.
* A rule created or enabled for a threshold below the mark never fires.
* Without SMTP a notification is only logged and marked SENT.
* If `markSent` fails, a delivered mail is FAILED; if `markFailed` does, the viewer's
  request fails after its view was counted.

Library and link form:

* `content.service.ts:68-69` calls creation "idempotent instead of duplicating rows":
  two creations that both find nothing create two rows; so does restoring a row
  whose file was registered again.
* Two updates' tags can mix when their transactions overlap.
* "Create another" keeps the content that was linked, so with the Drive tab open a
  link can be made while nothing is shown as selected. A limit of zero or less, or
  one that is no number, is sent as "unlimited" (`numberOrNull`).

Users:

* No check of the server keeps the last super admin: overlapping requests, or a
  client other than the page, can leave nobody.
* A bootstrap user who has the role is not reactivated at boot if suspended
  (`ensureBootstrapAdmin.ts:49`).
* Between clearing and granting, requests of a role's users are refused while another
  process serves (`ensureCoreSeed.ts:31-35`).

Console:

* The load after a command asks for the filter that was selected when its button was
  pressed (`content/page.tsx:84-94`, `:274-277`, `links/page.tsx:51-60`, `:147-150`): if the
  filter was changed meanwhile, the rows of the old one end up under the new one, with
  nothing failing or arriving out of order.
* Answers that arrive out of order leave the rows of an older filter on the screen
  and clear the spinner of the newer load; failed commands on contents, links and
  rules are silent, and the error of a load stays after one that succeeds on most
  pages.
* Saving one setting discards the drafts of the others; "Saved" stays on its button.
* The late success of a modal that was closed closes the next one of its kind.
* Enabling and extending are offered by what the list showed, and extending a
  revoked link makes it active. "Add rule" may be pressed twice.
* A first `/me` that is refused late signs out, on the screen, the user who has just
  signed in; if the `/me` after a sign-in fails, the browser returns to the login
  page without a word; a session that ends is noticed at the next reload.

## 5. What is proved

Every theorem holds for every value of the constants that satisfies the named
`ASSUME`s of its module. These say what the code's data are and nothing of how
much of it there is: finite sets of slots, pages, rules and rows; `None` is no
member of any set that holds data; limits are natural numbers and the engine's
thresholds positive and ascending; switches are Booleans; the requests of the
library are those its validation accepts. The bounds of TLC (`MaxViews`,
`MaxContents`, `MaxEdits`) are arbitrary numbers here, and the bounds on what is
under way at once (`Bounded` of `MCUserAccounts`, `MCContentLibrary` and `MCConsole`) are
dropped: the proofs go through `NotedSpec`, which keeps only the history.

The argument is the same everywhere: an inductive invariant that says what every
request, boot, heartbeat, evaluation or range *knows* at its step, one lemma per
action, and the property as its consequence. Each invariant was checked by TLC on
the instance of its run before it was proved.

**Access engine** (`QuotaProofs`, `AccessEnforcementProofs`)

* `RowsCorrect`, `TypesCorrect` -- `TypeOK` alone is not inductive: that a log
  belongs to a session and a grant to a log rests on what each request *holds*
  at its label (`Holding`) and on no two requests having drawn the same key
  (`KeysDiffer`).
* `MarksFollowAlerts` -- `MarkedMeansSent`. Strengthened by `AlertsInOrder`: a
  request sends its alerts lowest first, so whatever lies below what it still
  has to send was sent.
* `NoneIsMissed` -- `NoThresholdMissed`, from `NoneForgotten`: a threshold that the
  count has passed was sent, or some request still has it before it. It and the next
  are about `LinkAlerts`: admins move the limits while requests run.
* `SerialAlertsOnce` -- `SentOnceSerially`, under the hypothesis `RulesDiffer`, that
  no two rules have the same threshold: of two that have, one view sends both
  (section 4), so without it the property is false of the code. `SerialInv` says
  that what was sent is marked as soon as its sender is past the mark, and that
  a link whose limit was announced counts no view, which lasts until an admin raises the
  limit and a viewer comes: then `met` has "reopened", the property says nothing more
  and the code repeats its alerts.
* `ViewsRefineQuota`, `SessionsRefineQuota`, `DevicesRefineQuota` -- every step of
  the engine is a step of the abstract quota or a stutter. Views and sessions
  count the requests in the phase between check and use, by the lemmas
  `PhaseMove` (what one request's move does to a phase) and `PhaseLeaves`. New
  devices are not a phase, because requests of one device share its row: one
  upsert settles them all, so `DevicesAbandon` argues by inclusion instead.
* `QuotaBounded`, and with it `ViewsBounded` -- a quota is overshot by at most the
  other slots; inductive once `pending` is bounded by `Slots`.
* `GrantsAreAccounted` -- `GrantsAccounted`, strengthened to `Accounts`: the
  requests that report a view are added to the grants, those about to count one
  to the count.
* `ConcurrencyIsBounded` -- `ConcurrencyBounded` is inductive together with
  `RowsInv`, once the requests between the check and the session are counted.

**Link administration and sweep** (`AccessEnforcementProofs`): `OfficeLeaves` says
what no admin call and no tick ever touches; it preserves every invariant of the
engine, so `EngineKeepsItsPromises` carries `MarkedMeansSent` and `GrantsAccounted` over
to `LinkSpec`, whose admins write every limit. `LinkCorrect` and `LinkTyped` give
`LinkTypeOK`. `LinkViewsRefineQuota` shows `ViewQuota` although the limit moves under the
requests (`SetLimit` of the quota): views are judged by the row that is read. Devices
and sessions are judged by a limit that was read earlier, so under administration they
implement the quota with late admissions only (`LateDevices`, `LateSessions`), which has
the same bound (`QuotaBounded`). `LimitsStayBounded` draws the consequence for all four
limits: each is overshot by at most the other requests in flight, counted from the
largest value that the link can have had. Of a lower limit in force it says nothing,
since the code takes nothing back. `ViewsAlwaysDrain` is the action property `ViewsDrain`. `OnlyRacesWriteAgainstTheRow`
is `AgainstTheRowByRaceOnly` of `LinkRaces`: whatever is decided is right by the row
of that step (`DecidesRightly`), a change of the row overtakes everybody who has
decided (`RaceInv`), and only who has decided changes the status (`WritesDecided`).

**Watch progress** (`WatchProgressProofs`): `ProgressStaysHonest` and
`OfferStaysHonest` need `BeatsHonest`, that neither what a heartbeat on its way says
nor what its handler has read exceeds what the player showed; `TakenBackOnlyByRace`
is the action property. `LastOfViews` shows that the latest view exists.

**Delivery** (`StreamDeliveryProofs`): `AnswersCounted` (a session is created before it
is counted and counted before it is granted) makes `TypeOK` inductive.
`RefusalIsTold`, `ServedStaysDrained`, and `OneViewForEachVisit`: an undisturbed page
asks only while it has nothing, so that every counted view is held by a page, or on
its way to it, and no page holds two (`VisitInv`).

**Alerts and notifications** (`DispatchProofs`): `DispatchTyped`, `StatusStaysHonest`
(what a notification's mail has come to is known at each step of its evaluation), and
`EveryRuleIsServed`: a rule in force all along that the views have reached is served,
or is still ahead in the loop of an evaluation; what lies below a mark, or below the
mark an evaluation was given, is served (`OnItsWay`).

**Content library and link form** (`ContentLibraryProofs`): `FormTyped`, and
`LinksAreAsShown`, which rests on rows never changing their file (`FilesStay`), on
what a request has found (`Knows`) and on what the form remembers of its submission
(`FormKnows`). `FilesOnce` and `TagsStayWhole` are the two exclusions: without a race
or a restoration, whoever is creating a row for a file has found none and is alone
(`EachOnce`); without overlapping transactions, whoever is about to insert tags has
found all that are there (`EachWhole`).

**Users and boot** (`UserAccountsProofs`): `GrantsStayWhole` from `SeedsInOrder` (what
each boot has made clean at its step stays clean, whatever the other processes seed);
`SuspensionsDrain`; `ManagerIsLeft` from `SerialInv`: somebody manages and whoever is
served asks it of another, or nobody has managed yet and no process serves.

**Browser** (`ConsoleProofs`). The assumptions are `ConsoleAssumption` (roles, folders
within folders, an audit trail of at least one page) and `NothingAssumption` (`None` is
no page, no call and no answer).

* `ConsoleCorrect` -- `TypeOK` is inductive only with `InHand`: a call that says its
  modal is there finds it, since closing a modal makes all its calls `"closed"`; a
  spinner turns only for a load; an alert or a password writes no row. From it,
  `ConsoleTyped` and the action property `ModalsKept`.
* `SessionStaysHonest` -- `SessionHonest`, from `SessionInv`: while there is no doubt
  only one call of `/me` is out, what it was answered still holds when it arrives,
  and the form waits exactly while the call after a sign-in does.
* `ListStaysHonest` -- `ListHonest`, from `ListInv`. A list that is not spoiled is
  `Afresh`: the load that began last asks for what the page asks for, and has read
  nothing yet or what the table still says, unless a command that was carried out is
  about to load again (`Pending`); once it has ended, the same is true of the rows
  shown. A list becomes fresh again by any load that begins with the right question
  (`BeginsAfresh`), and stays so when earlier loads come in before it (`ArrivesAfresh`,
  `FailsAfresh`). If loads never overlapped, failed or asked for something else since the
  page was opened (`Calm`), the pager's numbers and the folders come from answers to what
  the page asks for, so each turn leads to something that exists (`TurnsReal`).

**Only model-checked**

* Liveness: `OverdueEnforced`, `AnnouncedUnlessFailed`, `PageSettles`,
  `GrantsRestored`, `Settles`. They rest on fairness, which is outside what the
  provers do. Every other property of a passing run is a theorem.
* The two violations, which are counterexamples.

Sorting is by choice of any order the comparison allows (`Sorted` in `Dispatch`,
`NewestFirst` in `LinkComposer`): JavaScript's sort and SQL's `ORDER BY` are functions
that return one of these orders, ties in any order.

## 6. Plan

Done, in order of importance: `Quota`, `AccessEnforcement`, `LinkAdministration` with
`LinkRaces`, `WatchProgress`, `StreamDelivery`, `Dispatch`, `ContentLibrary` with `LinkComposer`,
`UserAccounts`, `Session` with `Console`; the proofs of section 5.

Next:

1. Pagination and the other pure helpers against reference definitions.

**Not modelled.** Drive client and session library (external, seen through their
answers); analytics and reports (read-only aggregation and formatting); the audit
service (best effort, read by nothing); categories and the upsert of tags (single
rows that nothing deletes); exports, the Drive tab's own buttons, the rule list
inside a link's modal, the own row on the users page, and a Drive that is not
configured (as a load that fails) in the console; the limits typed into the link
form; a second tab of the browser, which shares the session cookie; the CSS, layout and formatting of all pages.
