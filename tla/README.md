# feed.io: TLA+ models and proofs

feed.io is a self-hosted service for reviewing videos and images. This directory holds TLA+ models of
the parts of its backend and of its web client where several actors change the same state, the TLC runs
that check them on small instances, and TLAPS proofs of what holds for every size. Paths below are
relative to `src/`; backend paths are relative to `src/apps/backend/src/feedio/`, paths of the web
client to `src/apps/web/src/modules/`.

- [The system](#the-system)
- [The models](#the-models)
- [What the runs show](#what-the-runs-show)
- [Where code and documentation disagree](#where-code-and-documentation-disagree)
- [What else the models show](#what-else-the-models-show)
- [What is proved](#what-is-proved)
- [What is not modelled](#what-is-not-modelled)
- [Plan](#plan)
- [Running it](#running-it)

## The system

A Next.js client talks to a FastAPI backend. The backend keeps its state in PostgreSQL and its files in
an object store; RabbitMQ carries transcode jobs to worker processes; Valkey is a cache, the store of
the rate limiter and the pub/sub bus behind the websocket rooms; Stripe sells the subscriptions.

```
 browser --PUT parts--> object store <--read/write-- worker <--media.transcode-- RabbitMQ
    |                        ^                          |                           ^
    |  HTTP                  | presign, assemble, abort | rows                      | publish
    v                        |                          v                           |
   API request  -------------+---------------------> PostgreSQL  <-----------  API request
    ^                                                   ^
    |  webhook                                          |  every 12 hours
  Stripe  <------------ cancel, modify, retrieve --- worker: subscription reconciler
```

One fact about the backend decides how it is modelled: **a request has one database session at
READ COMMITTED, and almost every repository method ends with its own `commit()`**. A command such as
"complete the upload" or "leave the organization" is therefore a sequence of transactions, without
locks from one to the next. `expire_on_commit` is off, so rows read early stay in the session as they
were. Whatever was read may be stale when it is used, and a process may die between two commits.

One fact about the web client decides how it is modelled: **a component hears of the world through
callbacks (answers, events, timers, media elements) that act on whatever it shows by then**. Nothing
ties an answer to the question, so a late one acts on the next file, the next page, the next session
or the next selection. The code of the client is single-threaded: one callback is one action.

### Inventory

| Component | State | Operations | How it interacts | What is hard | What makes it correct |
|---|---|---|---|---|---|
| **Media pipeline** (`modules/media`, `entrypoints/worker.py`) | `media_assets` rows (status, storage key, deleted_at), objects under the row's prefix, multipart sessions, the queue `media.transcode` | presign, initiate multipart, complete, complete multipart, abort, retry, delete; receive, transcode, purge the original, save | client, store, broker and workers meet only in the row and the objects | workers that die half-way or are told to stop, messages delivered twice or rejected for good, a file named like its proxy, errors that are swallowed, deletion and retry during a job | content is not lost, no row waits for a job that does not exist, deleted rows stay as they are |
| **Version stacks** (`media/infrastructure/version_repository.py`) | `version_group_id`, `version_number`, `is_primary_version` of the media rows | stack, unstack, set primary, delete a version, delete a folder or project | the grid lists primary versions only; folder deletion updates the same rows | an invariant over several rows, kept by hand in six places | a stack is shown exactly once, its numbers differ |
| **Billing** (`modules/billing`, reconciler task in `entrypoints/worker.py`) | `subscriptions` row, `subscription_events`, `organizations.plan_tier` | webhook (checkout, updated, invoice, deleted), cancel, resume, checkout, reconciler | Stripe is the authority; quotas and member limits read `plan_tier` | events lost, late, repeated, reordered; several commits per event; calls to Stripe that fail | both rows agree with Stripe once its events are handled; an expired plan ends |
| **Organizations** (`modules/organizations`) | organization, members with a role, invitations | invite, accept, decline, revoke, change role, remove, leave, delete, create, rename | every other module authorizes through the membership | check, then act in another transaction | an owner remains, the free limit holds, a revoked invitation admits nobody |
| **Projects and folders** (`modules/projects`) | projects, their members, a tree of folders | create, rename, move, delete with all descendants | media and stacks live in folders; a deletion cascades | two moves at once, creation in a folder that is being deleted | the tree has no cycle, nothing lives under a deleted folder |
| **Share links and public review** | `share_links` with a token hash, an access count and a revoked flag | create, revoke, open, comment as a guest | follows media, projects, organizations | deletions that must revoke | a revoked link, or one to something deleted, opens nothing |
| **Review decisions** | decisions per version and reviewer, review status of a media | record, list, copy to the other versions of the stack | reads the stack | three commits, the last one best effort | the status is that of the decisions |
| **Comments**, **notifications** | one table each | create, update, resolve, delete; save, mark as read | comments publish realtime events | read and write back of a whole row | an edit is not lost |
| **Realtime collaboration** (`modules/collaboration`) | rooms of sockets per process, presence hashes in Valkey, a pub/sub listener | connect, disconnect, broadcast, join, leave | events come from comments and media through Valkey | one user with two tabs, a listener that ends | the presence list is the set of connected users |
| **Storage quota** (`media/infrastructure/quota_service.py`) | usage cached for five minutes | check, invalidate | presign and initiate ask it | a stale sum against several uploads | usage stays within the quota of the plan |
| **Rate limiter** (`shared/infrastructure/rate_limit.py`) | a sorted set per key | check | login and other endpoints | count and record are two transactions | at most `limit` requests in a window |
| **Identity** (`modules/identity`, `packages/api-client/src/axios_instance.ts`) | users, sessions with the hash of a refresh token, one-time action tokens; cookies, one refresh per tab | register, verify, login, refresh, logout, forgot and reset password, change password, end a session, Google login | every request carries an access token made from a session; a 401 makes the client refresh and repeat | several requests that meet an expired token, passwords changed in two commits, a login overtaken by a reset | a current token is never taken for a reuse, a changed password ends the other sessions, every request ends |
| **Route gates and sign-in pages** (`auth`, `onboarding`, `navigation`) | the page, the cached answer of `getCurrentUser`, `?redirect=` | open, redirect, sign in, sign out, be told that the session is over | the gates look at the cached answer only | answers that arrive after a logout or a login; data kept beside an error; organizations joined and left | a tab at rest is on the page that fits its user; redirects end |
| **Query cache, pages and forms** (all modules of the web client) | answers by key, requests under way, sockets | 65 forms, 24 places, three realtime hooks | forms set the cache before they call the server, hooks set it on events, hardly anything is fetched again after a success | an optimistic change, an event, an older fetch and a rollback meet in one list | once nothing is under way the user sees what the server has |
| **Browser upload** (`media/lib/multipart_uploader.ts`, `media_metadata.ts`, the two dialogs) | runs with pools of workers, an entry of localStorage, the dialog | choose, read, start, pause, resume, close, reload; PUT of small files | parts go to the store, the server opens and joins sessions | retries, pause and resume around requests in flight; a second pool beside the first; closing | only whole, stored files are completed; the dialog does not show work that is not going on |
| **Review player and version comparison** (`review`) | a video element, the player, the workspace; two elements and the loop that ties them | play, seek, step, jump, loop, select, draw, post, resolve, delete, compare, swap | three clocks that report to and command each other | a commanded time that is taken for an echo; late answers that select | the frame shown is the one of the selected comment; two versions come to rest together |
| **Generated client** (`packages/api-client`) | none | one function per endpoint | keys of the cache, paths of the refresh | | |
| **Admin**, **profiles**, **composition** | reports and single rows; wiring | | | | |

`PROJECT.json` lists the same components with their source files and, under `hazards`, the places where
this code can go wrong in ways a test would hardly reach, each at its line and with the properties that
cover it.

## The models

| Module | What it is |
|---|---|
| `MediaPipeline` | uploads, requests, queue, workers, objects and rows |
| `MediaLife` | what the rest of the system may believe of a media asset; `MediaPipeline` implements it |
| `VersionStacks` | the version columns, operations as transactions over a snapshot |
| `Billing` | Stripe, its events, the webhook, the API and the reconciler |
| `Membership` | members and invitations of an organization, requests in three steps |
| `AuthSession` | sessions and passwords on the server, the refreshing clients of several tabs and devices |
| `RouteGates` | the gates and the sign-in pages of one tab, over `AuthSession` |
| `ApiClient` | tables: the endpoints the client calls, with key, shape and subject |
| `Screens` | tables: what each form, place and realtime hook does to the cache, over `ApiClient` |
| `QueryCache` | the cache of one tab under forms, places, hooks and other users |
| `UploadSession` | the multipart uploader, its dialog, localStorage, sessions and store |
| `UploadDialog` | the dialogs as a whole: choice and reading of files, small uploads, over `UploadSession` |
| `ReviewPlayer` | the video element, the player and the workspace |
| `ComparePlayer` | two versions side by side |
| `ReviewWorkspace` | the workspace with its player or the comparison in its place: composes the two |
| `MC...` | the symmetry sets, tables and setups of the TLC instances of each module |
| `...Proofs` | lemmas and theorems about each module, checked by tlapm |

Composition: `RouteGates` EXTENDS `AuthSession`, which takes from `ApiClient` the paths that are never
refreshed; `UploadDialog` EXTENDS `UploadSession`; `ReviewWorkspace` EXTENDS `ReviewPlayer` and INSTANCEs
`ComparePlayer`; `MCQueryCache` puts `QueryCache` under the tables of `Screens`; `MediaPipeline`
INSTANCEs `MediaLife` with a refinement mapping. The two that share rows, `MediaPipeline` and
`VersionStacks`, use different columns of them: only deletion is in both.

In the modules of the client a variable `setup`, chosen at the start and never changed, says what a
behaviour contains: which acts of the user, which faults, which dialog. One run checks all setups of its
`MC` module; each is small enough to be exhausted and combines what has to meet.

### MediaPipeline

A *row* of `media_assets` is `status[m]`, `deleted[m]` and `key[m]`, the last saying whether
`storage_key` names the output of the transcoder (`"derived"`: always `proxy.mp4` or `optimized.webp`
beside the source, so a second job writes to the same name) or another object (`"orig"`). A storage key
ends with the name of the client's file: `named[m]` says which of the two the upload was given, for a file
may be called `proxy.mp4` itself.
`store[m]` is the set of objects that exist, `upload[m]` the client's transfer, `jobs[m][k]` the number
of messages in the queue that carry key `k`.

An API request is a program counter `req[r]` with what it read at the start; each commit, call to the
store and publish is one action, in the order of the code:

- `StartComplete`, `StartCompleteMultipart`, `StartAbort`, `StartRetry`: `get_by_id` and the early
  returns. Complete refuses rows that are ready or processing; retry looks at no status.
- `Assemble`, `CompleteStatus`, `RetryStatus`, `Publish` / `PublishLost`, `AbortSession`,
  `AbortDelete`: `PublishLost` is the `except` of the job publisher, which logs and goes on, or an API
  process that dies after its commit.
- `RequestDies`: at any other point.

A worker (`worker[w]`) is `process_message` and `ProcessMediaTranscode`: `Receive`, `MarkProcessing`,
`Download`, `Transcode`, `Purge`, `SaveReady` / `SaveFailed`, `Acknowledge`; `SwallowError` is the last
`except` of `process_message`. A worker ends in two ways: `Crash`, a killed process, returns the
unacknowledged message to the queue; `Stop`, a SIGTERM, cancels the consumer task, which no handler
catches, and `message.process(requeue=False)` rejects the message for good
(`entrypoints/worker.py:47,336`). The purge keeps the order of the code: delete the source object, then
point at the derived one, then save in another transaction. The store suppresses its own errors, so the
deletion may not happen.

Two variables record history only: `reprocessed` (media for which a job was published with the derived
key: by a retry, or by the first completion of an upload that was given that name) and `lost` (media whose
job was dropped by a swallowed error, a failed publication or a stopped worker, and not accepted anew
since). They say what the properties are conditional on. The setting that makes the worker delete
originals is fixed at its default, TRUE.

### MediaLife

Status, deletion and key of each media as in the pipeline, and of everything else only two sets: `owed`,
the media a result is still to come for, and `lost`, those whose result was given up. `Report` changes a
row only for a media that is owed, `Settle` ends what is owed and may not leave the row waiting unless
it was `Lose`d before, `Delete` is final. The mapping is in `MediaPipeline`: `owed` is what a request is
about to publish, the queue holds, or a worker works on.

### VersionStacks

An operation is `Open`, which reads the committed rows and computes new ones, and `Commit`, which
writes *the columns whose value changed* (that is what the ORM flushes: `Merge`), whatever others have
committed in between; `Rollback` covers a lost connection. `StackMedia`, `UnstackMedia`,
`SetPrimaryVersion`, `DeleteMedia` and `DeleteFolder` differ in what they compute. Any number of editors
have a transaction open at once. `raced` records that one of them wrote to a stack that others had changed
since it read the rows (`Overtaken`); the properties are about what comes before. Requests on different
stacks may overlap as they like. Where the code takes
the row with the highest number of a set of rows, any of the highest is taken, as the database may.

### Billing

`stripe[s]` is subscription `s` as Stripe has it, `sent` every event it has sent. Stripe is external:
its actions (`Renew`, `PaymentFails`, `Lapse`, and the effect of the calls the code makes) are what the
handlers expect of it. An event that is never received is lost, `InOrder` says whether events overtake
each other, `CallsMayFail` whether a call to the API may raise. An event is delivered again as long as
it is not recorded.

A process (a request or the reconciler) is `proc[p]`: it reads the row, calls Stripe if it has to
(`CallCancelNow`, `CallCancelLater`, `CallResume`, `CallRetrieve`), then commits the row (`Upsert`), the
plan of the organization (`SetPlan`) and the event (`Record`) one after the other. `Crash` may come
before each. `upsert_subscription` writes every column; the row it writes was computed when the process
read, which is what makes it stale if something else ran meanwhile. `UpsertRefused` is the CHECK
constraint on the status: Stripe's `unpaid` and an invoice's `paid` are not among its values, so these
events end in an error and are never recorded. An organization begins without a row or with the free one of
the migration (`Backfilled`).

Two variables are history: `overlapped`, the events one of whose deliveries began while another was in
progress, and `strayed`, that something happened which the rows need not survive: two requests or tasks in
progress at once, an event received before an earlier one was handled, a second subscription, or a
cancellation that failed at Stripe after the row was read. `RowsAgree` is what one would like to hold,
`FollowsStripe` what does: `~strayed => RowsAgree`.

### Membership

A request is authorized (`Authorize`: the role of the user *now* goes into its context), runs the
reads and refusals of its command (`Check`: one `May...` predicate per command) and writes (`Write...`:
one per repository method). `Fail` ends it at any point with nothing written. The writes look at
nothing again except the constraints of the tables: `ck_organization_invitations_terminal_state`
(never both accepted and revoked) is the guard of `WriteAccept` and `WriteRevoke`. The several SELECTs
of a check are one step. An invitation's address is the user it belongs to. The history variable `overtaken`
says that a role was written while another request on roles was in progress.

### AuthSession

On the server a session is a row (`session[s]`: live, ended or ended as reused, the number of its one
valid refresh token, and the version of the password it was opened with), and `password`, `mail` and
`active` belong to the user. `jar[b]` is what the browser `b` holds. Operations that commit more than
once are as many actions: `LoginVerified` / `LoginCreated` / `LoginAnswered`, `LogoutSent` /
`LogoutServed` / `LogoutAnswered`, `ChangeVerified` / `ChangeWritten` / `ChangeRevokes`; a refresh is
served, then answered or lost, and one that the client gave up may still be served (`RefreshLate`).

The client is `client.request` of `axios_instance.ts`: a request is sent, answered with what it asked
for or with a 401 (`Unauthorized`), and then waits for the one refresh of its tab or starts it; `Woken`
is what that refresh does to all who wait. Paths that are never refreshed are compared as the code does,
by the end of the URL: logins are, share links with a wrong passphrase are not. In the setups with the fault
`error` a request may also end in a timeout, a network error or a 5xx, which the interceptor passes on.

### RouteGates

`place`, `cached` (the query `getCurrentUser`: an answer, an error that may stand beside it, stale, asked
for) and the progress of a form. The gates are one definition: `Gate` is the set of places they send the
tab to, `Redirect` follows it. `SignIn` to `WhoAnswered` are the login form and its second request,
`LogOut` to `Settled` the menu of `app_shell.tsx`, `EndSession` and `Told` the list of sessions and the
event `session.revoked`. `Moves` is all by which the user gets into or out of his last organization beside
the onboarding form: he leaves or deletes it, is removed, or accepts an invitation, here or elsewhere.
None of these asks again who the user is; `cached.moved` says that it happened since the answer was asked
for. The variable `crossed` records that an answer about one session changed the cookies of another or of
none; it only says what `LoggedOutIsOutside` is conditional on.

### ApiClient, Screens and QueryCache

`QueryCache` follows one answer of the cache, any of 36: no form, hook or page reads one answer to write
another, so each can be checked alone. The server's data is the set of changes that were made to it, each
to a row of its own, and an answer is the set of changes it shows, with what TanStack Query keeps of it
(there or not, stale, a request under way and what it has read). A form (`Submit`) cancels, sets, calls;
its answer (`Answer`) patches, merges, invalidates; its failure (`Fail`) sets back to its snapshot, if the
component that would do so still lives. A form that sets a whole record (`edit_project_dialog` the answer
`project`) sets it to the one it was `Opened` with, changed, whatever the answer is by then, to the one
the server returns (`Merged`: what the server had when it made the change), or back, and creates the
answer if there is none. `feed` is the set of events on their way, each with the changes it came after, so
that `First` is the next one. `Deliver` is the realtime hooks, `Disconnect` and `Connect` the sockets,
`Navigate` and `Leave` the pages, `Poll`, `Read`, `Land`, `Lose` the requests.

What is particular to a form, place or event is a row of a table in `Screens`, translated from the
component it is named for: which keys it matches, by prefix, by any segment or by a predicate, what it
adds, merges or refreshes, whether it cancels requests, and whether its callbacks live with the form, the
page or the client. What the cache needs of these tables is the assumption `TablesFit`, which TLC evaluates
for the real ones: forms and places exist, two places of a page share its rooms, and a form whose change is
shown before its call either takes it back, from a component that outlives the form, or is named as one
that does not (`Forgetful`). What is promised of a form or an event (`Keeps`, `Told`)
must have something behind it, `PromisesAreBacked`: the form patches, merges or fetches again the answers
it keeps true, the hook of each page those its rooms are told about, and the rooms joined on every page
are dealt with alike on all of them. An event is owed to whoever is in the room when the server makes the
change, so `Apply` and `Other` note where the user is. `ApiClient` holds the URLs, by which matching is decided,
and the shape and subject of each answer.

`mishaps` records what happened to the answer that no code repairs: an event missed while its socket was
closed, a fetch that was cancelled and not repeated, an incomplete answer that a write made fresh before
anybody looked at it again, a record put over one that showed more, callbacks that went with their form, a
snapshot that took another call's change back, a late answer, a call that was given up. The properties are
about answers without a mishap; the list itself is a finding of the model (see below).

### UploadSession and UploadDialog

A *run* is a call of `start()`, with a pool (`worker[r][w]`), a list of parts of its own, and an uploader
(`of`) that a resumption keeps and a new start does not. All runs write `cache`, the entry of
localStorage. `Progress` is the promise of the pool: the first failed worker rejects it and leaves the
others at work. `CutOff` is `xhr.abort()` on the transfers of an uploader: the retry loop takes it for a
failure. `Close` aborts with a request for what localStorage names; `Reload` leaves the completions and
abortions that were under way to arrive or not (`late`, `ending`). The server and the store are as far
as the uploader calls them: a session joins only what is there, an abort deletes the asset whatever its
status and drops the parts of the session (`Dropped`), which runs and localStorage may go on naming.

`UploadDialog` adds the files chosen one after the other (`chosen`), the reading of each for metadata and
a thumbnail (`look`, with its eight seconds), and the uploads in one PUT (`put`), from the pressing of
the button to the answer of the completion.

### ReviewPlayer, ComparePlayer and ReviewWorkspace

Time is counted in frames. `video` is the element, `player` what the player believes (`scrub`, and `echo`,
the time it reported last), `time` and `active` belong to the workspace. `Becomes` is the effect of the
player on a new time from the workspace: nothing if it is taken for an echo, a seek if it is further off
than `PlayingWithin` while playing and `PausedWithin` otherwise. `Frame`, `TimeUpdate`, `Elapse` are the
element and its events, throttled as in the code; `Click`, `Pin` (a pin of the scrubber, which seeks
first), `Link`, `Posted`, `Resolved`, `Deleted`, `onCommentDeleted` select and deselect.

`ComparePlayer` is `use_synchronized_playback.ts`: A is the clock; the loop on animation frames
(`SyncPlaying`, `SyncPaused`) makes B follow by play and pause, speed and jumps, which take time
(`Sought`) and have a cooldown. In `ReviewWorkspace` opening the comparison unmounts the player: its
state is the one it will mount with, while answers and events still reach the workspace.

## What the runs show

All runs are exhaustive. Deadlock is checked in the Membership runs; in the others the system may
really stop (clients do nothing, or a bound on requests, time or numbers is reached). `PROJECT.json` has
the full list of properties; a type invariant is among them where the limit on properties left room, and
the others are defined in their modules (`TypeOK` of `VersionStacks`, `QueryCache` and `ReviewPlayer`,
`DialogTypeOK`, `WorkspaceTypeOK`); the first three are proved.

| Run | Instance | States | Shows |
|---|---|---|---|
| `media_video` | 1 video of either name, 2 requests at a time and 3 in all, 2 workers, 1 crash or stop | 198,884 | `StrandedOnlyAfterLoss`: a row in "processing" has a job queued, running or about to be published, unless a swallowed error or a stop dropped it. `ContentSurvives`, `RepointedIsStored`: until a job names the derived object, the content exists and the row never points at nothing. `LifeIsKept`: the pipeline implements `MediaLife` |
| `media_live` | an image and an svg, 1 request at a time and 2 in all, 1 worker, 1 crash or stop, fair | 605,455 | `ProcessingSettles`: "processing" ends unless the job was lost. `OthersSurviveReprocessing`: no retry costs an image or an svg its content |
| `versions_serial` | 3 media, 2 stacks, 2 editors, numbers to 3, up to the first race | 147,599 | `AtMostOnePrimary`: no stack is shown twice. `UniqueVersionNumbers`. `UngroupedIsShown`: what is in no stack is in the grid |
| `billing_serial` | 2 subscriptions, 2 processes, 6 events in any order, 3 periods, 2 crashes, failing calls, up to the first of what `strayed` records | 137,329 | `FollowsStripe`: once all events are handled both rows agree with Stripe, whatever was cancelled, resumed, reconciled and interrupted |
| `billing_live` | 1 subscription, 2 processes, 3 events, calls fail, 1 crash, fair | 610,264 | `ReplaysChangeNothing`: an event is written again only if two deliveries of it overlapped. `OverdueIsSettled`: a paid plan past its period is extended or ended even if no event arrives |
| `members_limit` | 3 users, 3 invitations, 2 requests, limit 2, role member | 1,683,870 | `WithinFreeLimit`: the limit is exceeded by less than there are requests at a time |
| `members_overlap` | 2 users, 2 invitations, 2 requests, limit 3, roles owner and member | 2,684,392 | `OwnerUnlessOvertaken`: an owner remains until a role is written while another request on roles is in progress. `NeverThroughRevoked`: however requests overlap, nobody joins through an invitation that was revoked, declined or replaced |
| `members_owner` | 2 users, 1 invitation, 2 requests | violation | `AlwaysAnOwner`, see below |
| `auth` | seven setups: one tab with three requests; two devices with resets and changes of the password; two tabs with lost answers; overlaps and crashes; a browsing tab; a browsing tab told from elsewhere; one whose user joins and leaves organizations, with failing requests | 842,818 | `NoFalseAlarm`, `TheCookieWorks`: with one tab and no lost answer, concurrent refreshes never end a session and leave its token. `OldPasswordDies`. `PlaceFitsTheUser`, `LoggedOutIsOutside`: a tab at rest is where its user belongs. `ComesToRest`: requests and redirects end |
| `cache` | every answer under every form and place; 2 changes by anybody, and in turn more navigation (there and back), polls or outages | 1,446,767 | `SettledViewIsTrue`: once nothing is under way, what the user looks at is complete. `NothingInvented`: nothing is shown that the server does not have. `NeverForgets`: nothing seen is lost again |
| `upload` | five setups: two runs with one worker, a pool of two with one attempt, a pool of two that pauses and reloads, two small uploads of each dialog; 2 parts | 747,091 | `CountedIsStored`, `WholeAssets`, `CompletedIsStored`: only whole and stored files are completed. `MetaIsNotLater`, `WorkIsGoingOn`. `DialogSettles`: every upload and reading ends |
| `review` | ten setups of what a user does with 11 frames and 3 comments, or with versions of 5 and 3 frames | 461,913 | `SelectedFrameIsShown`, `SelectionIsWhole`, `CommentsAreNear`. `LeavesTheComment`: playing away deselects. `VersionsRestTogether` |

### Bounds, and why they are enough

- *MediaPipeline.* Media share nothing but workers, so one video shows every safety property; the second
  media of `media_live` makes two kinds compete for a worker. Two workers and two requests allow every
  pairwise overlap, three requests in all a completion, a retry and an abort of the same media, and one
  crash or stop (`MaxCrashes` bounds both together) a redelivery, or a loss, beside a live duplicate.
  `MaxRequests` also bounds the queue.
- *VersionStacks.* Two editors overlap in every way on two stacks, three media let a version move from one
  stack to another that keeps a member, and three numbers let a number be freed below and at the top. The
  constraint `Undisturbed` ends behaviours at the first race, of whose rest the properties say nothing; it
  also bounds what others commit beside an open transaction to one changed row. The theorems have neither bound.
- *Billing.* 6 events are a purchase (two events), a renewal (two), a failed payment and an end; the
  constraint `Undisturbed` of `billing_serial` ends behaviours at the first stray. The history variables grow
  only, so nothing the properties are about is cut off.
  `MaxTime` of 3 lets two periods pass. The liveness run is smaller because only one expiry matters.
- *Membership.* Three users are an owner and two others who compete for the last place; with a limit of 2
  it is reached while an invitation is open, and three invitations let one be renewed beside another. Two
  requests are enough for every pair of operations. The overlap run leaves the role admin out (`Offered`): it
  differs from owner only in what is refused.
- *AuthSession, RouteGates.* Two sessions are an old and a new one; three requests let two wait for the
  refresh of a third, or one be refused for a reason of its own; two tabs or two devices are all that
  meets. `MaxTokens` bounds how often the access token of the browsing tab expires, `MaxVisits` the
  pages it opens: a sign-in, its end and a return.
- *QueryCache.* Two changes are enough for everything that needs two actors (a rollback under another
  call, an event before an answer); a third only repeats. Two navigations leave an answer and come back
  to it. The answer followed is any of 36, so everything is checked for each key.
- *UploadSession.* Two parts and two workers give a pool in which one worker fails while the other goes
  on; two runs give two pools beside each other and a resumption of what the first kept. Two files give
  a late reading. The theorems cover every number.
- *ReviewPlayer.* The video has 11 frames and the constants of time are scaled with it. At 24 frames per
  second the code's 0.08 s, 0.4 s, 200 ms and 5 s are 1, 9, 4 and 120 frames; the run has 1, 3, 2 and 4.
  The 0.04 s of a paused player is no frame at 24 frames per second, one from 25 to 49 and two from 50 to
  74: the run has 1 (`PausedWithin`), the theorem any number. Their order, which decides what branches can
  be taken one after the other, is kept, and the properties mention the constants by name. The version of
  3 frames ends before that of 5 does.

### Fairness

- `MediaPipeline!Fairness`: weak fairness of each accepted request (it runs to its end or dies) and of
  each worker (`run_transcode_consumer` is an endless loop that reconnects after every error; one that is
  stopped is started again by whoever deploys it). Clients
  are not fair: nobody has to finish an upload, start a retry or delete.
- `Billing!FairSpec`: weak fairness of the steps of a process in progress, strong fairness of
  the start of the reconciler, which the worker repeats every 12 hours whatever else happens. It is
  strong because in the model the reconciler needs a free slot of `Processes`, a bound of the model
  only. Neither Stripe nor the delivery of events is fair: `OverdueIsSettled` must not rely on them.
- `UploadDialog!DialogFairness`: the clock of eight seconds and the drawing of a thumbnail, workers,
  transfers and requests go on, and end in one way or another (a request has a timeout; a transfer has
  none in the code and relies on the network reporting an error). A decoder need not ever answer, and no
  user need do anything.
- `RouteGates!GatesSpec`: requests are answered or time out, and a tab goes on with what it has. Nothing
  says that a user signs in, or that tokens stop expiring: the bound does.
- `ReviewWorkspace!WorkspaceSpec`: weak fairness of the elements and their events, strong fairness of
  the paused loop, which is called on every animation frame: it is not enough that it could run between
  two calls of the user.

## Where code and documentation disagree

`members_owner` is a run and a finding of `PROJECT.json`: **no owner left**. "Cannot remove the only owner
of an organization": two owners who leave or demote each other at the same time both count two.

The next five have a definition that states the text, and a configuration that shows TLC's shortest
trace, to be run by hand (`tlc -config <cfg> <module>`; the first column names the module as well):

| Configuration | Property | The text, and what the code does |
|---|---|---|
| `MediaPipelineReprocess.cfg` (`MCMediaPipeline`) | `PointsAtStoredObject` | *A retried video loses its only object.* A retry publishes the key of the row, which is the proxy after the first transcode. The job overwrites the proxy with itself and then deletes it as "the original" (`process_media_transcode.py:88,91`; the branch for images compares the two keys at `:110`). The row is ready and points at nothing. The same happens on the first job of a video that is uploaded as `proxy.mp4`: its storage key ends with that name (`presign_media_upload.py:109-117`) |
| `VersionStacksShown.cfg` (`MCVersionStacks`) | `EveryStackIsShown` | "Exactly one version holds `is_primary_version = TRUE` within any `version_group_id`" (`docs/PHASE_8B_PLAN.md:97`). Stacking a primary version onto another stack, or deleting the folder it is in, leaves none, and the grid no longer shows the stack |
| `BillingOrder.cfg` (`MCBilling`) | `RowsAgree` | "Guarantee that replayed or out-of-order Stripe webhooks never corrupt subscription states" (`docs/DATABASE_SUBSCRIPTION_PLAN.md:12`). Replays do so only where two deliveries of an event overlap; an update applied after the deletion that followed it brings the paid plan back |
| `BillingTwo.cfg` (`MCBilling`) | `RowsAgree` | The table "stores the single active subscription state for an organization" (`:79` of the same document). The end of a replaced subscription is found through the organization in its metadata (`process_webhook_event.py:360-364`), and ends the plan that the newer, paid subscription gives |
| `QueryCacheSignOut.cfg` (`MCQueryCache`) | `OthersStaySignedIn` | "The targeted device is immediately disconnected" (`docs/REALTIME_AND_NOTIFICATIONS_PLAN.md:101`). The event of any ended session empties the cache of every tab of the user and sends it to the login page (`use_realtime_user.ts:118-124`) |

Three more definitions state a text and fail under the configuration of their module when added to it:

- `OnlyDraftsDeleted` (`UploadDialog.cfg`): "Soft delete the draft media asset"
  (`abort_multipart_upload.py:37`). It deletes whatever the asset is by then, a finished one too.
- `ClickSeeksToTheFrame` (`ReviewWorkspace.cfg`): "Clicking comment seeks video to exact frame"
  (`docs/PHASE_8A_PLAN.md:228`). Not if the frame is within 0.08 s of the last report
  (`video_player.tsx:112-117`), or within 0.04 s of where a paused player stands (`:124`): at 25 frames
  per second and more that is another frame.
- `AnswersKeepTheirShape` (`QueryCache.cfg`): `edit_media_dialog.tsx` and `move_media_dialog.tsx` spread
  every answer whose key matches, and turn arrays into objects.

Others are the exceptions of properties that hold, and can be seen by taking the exception away: duplicate
version numbers, or two primary versions, when two requests edit one stack (`raced`); a recorded event that
writes again when two of its deliveries overlap (`overlapped`); an organization downgraded while Stripe goes
on charging it when a cancellation fails (`strayed`); a free organization above its limit by one invitation
for each request that overlaps (`WithinFreeLimit` has the number of requests in its bound); a row that stays
"processing" for ever because its worker was stopped (`lost`). Their hazards say so.

Smaller ones, met while reading: `docs/PHASE_8B_PLAN.md:202` and `docs/PROJECT_PROGRESS.md:123` say that a
drift of 0.04 s is corrected by a seek, the code seeks at 0.5 s and changes the speed below;
`docs/PHASE_8B_PLAN.md:26` ties decisions to versions, the code copies them to the stack; swapping two
versions ends by comparing B with itself (`version_compare_workspace.tsx:82-89`,
`review_workspace.tsx:566-571`), which `handleSwapVersions` models.

## What else the models show

The properties of the client are conditional where the code lets something happen that nothing repairs.
What the conditions except is real, and worth knowing:

*Sessions and pages* (the conditions of `AuthSession` and `RouteGates`)
- Two tabs that refresh together, or an answer that is lost, end the session as a reuse of its token.
- A login that was verified before a reset and stored after it keeps a session of the old password; a
  change that was verified with the old password overwrites a reset
  (`identity/application/service.py:86,156,161`).
- A refresh answered after the logout sets the cookies again; a logout or a refusal answered after the
  next login clears the new ones; a login form answered after the logout sets the user again.
- An answer kept beside an error sends the tab from the application to the login page and back, until it
  is reloaded (`auth_gate.tsx:36`, `guest_gate.tsx:19`). `ComesToRest` excepts it by name (`Bounces`).
- Who leaves, deletes or is removed from his last organization stays in the application, and who is invited
  to his first stays at the onboarding, until a page opens after the answer to `getCurrentUser` is stale:
  the dialogs change the list of organizations only (`leave_organization_dialog.tsx:68-107`).
- At the end of the onboarding the refetched user sends the tab to the application while the form opens
  the organization. A logout keeps the query cache (`app_shell.tsx:58-66`). A wrong passphrase of a share
  link is a 401, so the browser refreshes its own session and asks again (`public_share_router.py:165`).

*Cached lists* (`mishaps`, `Forgetful`)
- Events during an interruption are never fetched again; an answer read before an event and stored after
  it takes it back; a cancelled fetch is not repeated.
- An answer that was marked to be fetched again when somebody looks at it loses the mark when a form or a
  hook writes to it: `setQueriesData` makes it fresh, whatever it lacks. The same happens to an answer
  whose request was dropped with its page after a write (`Freshened`, `Navigate`).
- Forms that close before their answer (edit, rename, move, change role, ...) never roll back. Comments
  and replies of a guest share one mutation, so the second call takes over the callbacks of the first.
- A rollback to a snapshot undoes what another call or an event wrote meanwhile. `edit_project_dialog` sets
  the whole record it was opened with, when it is used and again when it fails (`:108-111`), over whatever
  another user has changed since: the mishap "older record".
- `ingestMediaCreated` puts new media into the list of decisions. Mutations of billing invalidate a key
  that matches nothing. `use_notifications` spreads a number, so its request is never sent.
  `org.members_updated` is published in a room no hook joins. The tabs of the admin console show
  "updated" before the call succeeds; "resolve all and approve" approves even if a resolve fails; "Other
  sessions have been revoked" is shown even if they were not asked to be (`change_password_form.tsx:41`).

*Uploads*
- A reading that is late sets the metadata of the next file (`upload_media_dialog.tsx:150`), and nothing
  waits for a reading: `MetaIsNotLater` says no more than that files chosen later do no harm.
- Any transfer that ends takes away the handle by which another could be cut off (`:277-291`); closing
  while a URL is signed lets the upload go on unseen; closing an active transfer leaves "error" in the
  dialog when it is opened again; closing during the initiation leaves a draft nobody cleans up.
- `pause()` does not stop the workers, a resumption starts a second pool, and a part of the first that
  comes late saves the session again after it was finished. A late answer to an abort shows an error and
  clears the entry of a newer upload. After a lost completion the retry is refused; after a failed
  stacking it uploads a second asset.
- The server publishes a small upload without looking for the file (`complete_media_upload.py:37-49`):
  `CompletedIsStored` holds by the order of the client's calls only. A failed thumbnail is ignored.

*Review*
- A comment that cannot be posted is lost with its drawing (`review_workspace.tsx:329-339`). A late
  resolve, a failed deletion and a link select again what the user has left (`:281-289,434-443,500-502`).
- A loop or a link leaves an echo that makes the next selection near it not seek, or a time that makes the
  same comment not seek when it is selected again; *FrameInv* below lists what shows another frame.
- In a comparison a drift of one frame stays while paused, a shorter B starts over, the part of B beyond
  the end of A cannot be watched, and the button stays on "playing" when A ends.

## What is proved

The theorems hold for every value of the constants that satisfies the module's `ASSUME`, and so for any
number of media, workers, requests, users, events, parts, runs, files, tabs, comments or crashes. tlapm
checks every leaf. Every invariant and every action property of the passing runs is a theorem;
what is left to TLC is listed at the end of this section.

| Theorem | States | Argument |
|---|---|---|
| `PipelineTypes` | `[](TypeOK /\ TypeInv)` | by induction; a busy request or worker names a media, which `TypeOK` alone does not say |
| `NoStrandedRows` | `[]StrandedOnlyAfterLoss` | inductive as it stands, given the types. `AccountedKept` carries the media whose row, jobs and actors a step leaves alone; one case per action for the rest |
| `ContentIsSafe`, `RepointedRowsPlay` | `[]ContentSurvives`, `[]RepointedIsStored` | `ContentInv`, below |
| `OthersMayBeReprocessed` | `[]OthersSurviveReprocessing` | `OthersInv`: of a media that is no video, whoever depends on the derived object finds it, and a finished upload has left something; the purge compares the keys, so it deletes the original only when the derived object is there |
| `DeletedStaysDeleted` | `DeletedIsFinal` | with the invariant that a deleted row exists, every write of a row is guarded by `Live` or creates it |
| `PipelineImplementsLife` | `LifeIsKept`, that is `MediaPipeline` implements `MediaLife` | one lemma per action: what it is in `MediaLife`, or that it is a stutter, below |
| `StacksStayWellFormed`, `NumbersStayUnique`, `NoLonerIsHidden` | `[](TypeOK /\ AtMostOnePrimary)`, `[]UniqueVersionNumbers`, `[]UngroupedIsShown`, any overlap | `StacksInv`: until a race the rows are well formed, and so is what every open transaction would make of the rows it has read. One lemma per operation on rows, and one for overlapping commits (`MergeApart`): a transaction that writes to stacks nobody else has touched since it read them leaves the rows well formed |
| `BillingTypes` | `[]TypeOK` | a pending write names a subscription and an event that exist (`TypeInv`) |
| `ReplaysAreHarmless` | `ReplaysChangeNothing`, any overlap | `NewsOnly`: two deliveries in progress are of two events, and the event of a pending write is not recorded, but for events in `overlapped` |
| `RowsFollowStripe` | `[]FollowsStripe`, any number of subscriptions and processes | `~strayed => FollowInv`, below |
| `MembershipTypes` | `[]TypeOK`, any overlap | contains that no invitation is both accepted and revoked, which only the CHECK constraint keeps when requests overlap |
| `RevokedNeverAdmits` | `NeverThroughRevoked`, any overlap | `AnswersOwn`: between check and write an acceptance stays with an issued invitation of its user; the constraint does the rest |
| `OwnerRemains` | `[]OwnerUnlessOvertaken`, any overlap | `OwnerInv`, below |
| `LimitIsKept` | `[]WithinFreeLimit`, any overlap | `SeatsInv`: members, open invitations, checked acceptances whose invitation has expired and checked invites together are fewer than the limit and the number of requests: an invite that finds room is one of the requests. A checked acceptance has a seat even if its invitation expires before the write |
| `CountedPartsAreStored`, `JoinedIsWhole` | `[]CountedIsStored`, `[]WholeAssets` | `PoolInv`, below |
| `ReadyIsStored`, `NoLaterMetadata` | `[]CompletedIsStored`, `[]MetaIsNotLater` | `PutInv`: whose transfer is over, or whose completion is late, has stored its file; what the dialog holds is of a file chosen by now, for only those are read |
| `NoIdleSpinner` | `[]WorkIsGoingOn` | inductive over `PoolInv`: a run or transfer that ends takes the dialog out of its working states in the same step (`ProgressGoesOn`, `CutOffGoesOn`), and only one that goes on puts it there |
| `SessionTypes` | `[]GatesTypeOK` | `HeldExist`: what is under way is about a session that exists, unless it is still to be created |
| `NoTokenIsReused`, `CookiesAreCurrent` | `[]NoFalseAlarm`, `[]TheCookieWorks` | `CalmInv`, below |
| `OldSessionsEnd` | `[]OldPasswordDies` | `DieInv`: a live session that does not know the password is one that a change between its two commits is about to end; a login that is verified knows the password |
| `TheTabIsInItsPlace` | `[]PlaceFitsTheUser` | `KnownInv`: on every page the tab has an answer, asks for one or was refused; who is taken for a member without being one, or for new while being one, is asked about, has an error beside the answer, or has moved since |
| `LogoutLeadsOutside` | `[]LoggedOutIsOutside` | `AloneInv`, below |
| `QueryTypes` | `[]TypeOK` | by induction; what answers, requests and snapshots show comes from calls that were made |
| `NothingIsInvented` | `[]NothingInvented` | `ShownInv`, below |
| `SeenIsKept` | `NeverForgets` | `SeenInv`, below |
| `PromisesAreKept` | `[]SettledViewIsTrue` | `PromisedInv` with `SentInv`, below |
| `ReviewTypes` | `[]TypeOK` | by induction |
| `SelectionIsShown` | `[]SelectedFrameIsShown` | `FrameInv` with `PlayerStands` and `LoopStands`, below |
| `SelectionStaysWhole` | `[]SelectionIsWhole` | `WholeInv`: an answer that may select again has its comment in the list, or back in it, and nothing else is selected meanwhile; where a link would, nothing deselects before the answer |
| `NewCommentsAreNear` | `[]CommentsAreNear` | `NearInv`, below |

*ContentInv.* That the content survives does not follow from the objects alone: a worker that is about to
purge must be known to have stored the derived object, and no other job may be reading it as its source.
So for a media no job of which named the derived object, `SafeMedia` says that every job in the queue or in a
worker names the original, that a worker past the transcode, or holding a new key, has its derived object in
the store, that a row pointing at the derived object finds it, and that a finished upload has left
something. The step lemma shows that only `Publish` of a derived key can end this, and that puts the
media in `reprocessed`. It covers any number of duplicate jobs, retries and crashes.

*OwnerInv.* The check of an owner's departure happens before the write. As long as no role was written while
another request on roles was in progress (`~overtaken`), what it saw still holds: a checked request that takes
an owner away implies that there are two. A request to leave uses the role it was authorized with, so the
invariant also says that this is still the role. Joining overtakes nothing: it only adds a member.

*FollowInv.* It speaks of the time before `strayed`, when one process is at work and one subscription was
bought (`OneAtWork`, `OneBought`). At rest the rows say what Stripe says; in between they do not, and a
crash may leave the row written and the plan not. The invariant therefore speaks of what *can* still be
written. The events that can be handled are recorded in their order (`RecordedInOrder`), Stripe's sequence
begins with the purchase and a cancellation is its last event (`Told`). While the subscription renews,
nothing that is written or pending ends the plan (`StaysPaid`); once it has ended, nothing that can be
written after the deletion is recorded brings it back (`Ended`). Each is kept by a crash, for the next
delivery of the event that was not recorded writes the same again.

*The refinement.* The initial states map to initial states by definition. A step of the pipeline changes
`owed` when a request commits "processing" (`Accept`), and takes from it when the last request, message or
worker that owes a result is done (`Settle`), was dropped by a swallowed error, a failed publication or
the stop of its worker (`Lose`), or died. That `Settle` is allowed is the point: the row must not be
waiting then, which is `StrandedOnlyAfterLoss` after the step; the types and that invariant are the
strengthening the proof uses. A crash of a worker is a stutter, for the message is back in the queue; a
stop is a `Lose` or, once the result is saved, a `Settle` or a stutter.

*PoolInv.* That every counted part is stored is not inductive: it says nothing of a worker that has stored
a part which is not counted yet, and a run may change its session. `RunIsSound` says, of a run, its
workers and the store alone, that a worker at work sends a part of the file to the session of its run,
that a worker past its transfer has its part in the store, that a run about to complete has all parts,
also one whose completion was given up and may come late, and that a run that has not begun has nothing.
`OneRunMoves` then reduces every step to the one run it changes. The store of a session only grows
(`StoringHarmsNoRun`) until an abort drops all of it, of which no run may count on anything (`Countable`), so
the other runs stay sound. `CutOff` and `Reload`, which change many, have lemmas
of their own.

*CalmInv.* With one tab per browser and no lost answer a session has one holder. `OwnerInv` says that no
two browsers hold a session, nor a browser and the refresh of another; `LoginInv` that a login shares
its session with nothing before its cookies are set; `TokenInv` that a refresh still to be served has the
current token, and that of the cookies and the refresh already served one has it. A refresh is then
never served with an old token. Steps that change no holder are one lemma (`HeldStays`).

*AloneInv.* For the browsing tab, where sessions are ended by its own logout only. A refusal must mean a
dead session (else a refresh could clear the cookies behind a page nobody leads out), cookies of a
dead session mean that the answer to its logout is still to come, and without cookies and with no logout
unsettled the tab knows no user and asks for one in vain: its request is not sent with a valid access
token and was not answered "ok". With `KnownInv` a tab at rest then has an error, for which each gate leads
out. It rests on `CalmInv`: that the server refuses no current token is what makes a refusal final.

*ShownInv, SeenInv.* Both say of the snapshots what the properties say of the answer, because a rollback
puts a snapshot where the answer was. `ShownInv`: a change the server does not have is in an answer, or in
a snapshot that may be set back and that no other write came between, only while its own call is still to
be answered by a component that will hear, or for a reason the property names; no snapshot holds the
change of its own call. `SeenInv`: setting back such a snapshot takes back no other change of the answer's
kind, and a request that was not overtaken brings every such change the answer shows. The assumption about
the tables, `TablesFit`, is used for each: it is what the 65 forms have in common.

*PromisedInv, SentInv.* That a change reaches every list which promises to show it is a statement about
what is still on its way. As long as no mishap is noted, a change the server has made and an answer is
owed is `Covered`: nobody has the answer; or it shows the change, and a request that was not overtaken
brings it (`InView`); or a request is under way that brings it or is known to be too old (`Coming`); or
the answer is marked to be fetched again where nobody looks at it (`Outdated`); or the call that merges or
refetches is still to be answered (`Answering`); or the event is still on its way to a hook that deals
with it, on whatever page the user is by then (`Signalled`). A step hands a change from one of these to
another or notes a mishap: one lemma for all that write to the cache (`Rewritten`, `CoverStays`), one for
what a write brings (`WriteBrings`), one for events across pages (`SignalStays`). Once all is quiet, only
`InView` is left. `SentInv` says how a change begins: a form that shows its change at once does so before
the server makes it, no request from before its call is answered as if it knew, and a snapshot is set back
only where there is an answer. Where the invariant did not hold at first, TLC showed the two ways in which
a write makes an incomplete answer fresh; both are mishaps now.

*FrameInv.* The selected frame is shown because a player that does not play stands within `PausedWithin`
of where the workspace says, or has taken that time for an echo (`PlayerStands`), and the time of the
workspace is that of the selected comment, unless the video was just paused elsewhere and the event that
deselects it is on its way (`Placed`). An answer that selects again has to find the video where it left
it: nothing moves it and nothing else is selected while the answer is awaited. A loop takes a paused video
back without a report, and then the workspace's time must have been an echo already; `LoopStands` says so,
which needs that nothing ends on the last frame that was not reported. The conditions are part of the
properties, as `Steady` and `LinkStandsBack`. The proofs showed that they are needed, TLC gives a
counterexample without each: a user who resolves a comment and lets the video play to its end, or is fast,
finds the comment selected again over another frame; so does one who pauses on the first frame and opens a
comparison before the player has noticed; with a link, its comment is selected while the answer that
selects another is on its way, and then lies under it; and with a loop, a comment on the last frame (or
out of the loop, if a link or a user within 200 ms selects it) that was left because the loop started over
is not sought when it is selected again, for the workspace still has its time.

*NearInv.* A comment gets the time of the workspace, while its author sees the element. Between two reports
they drift by at most `Throttle` frames, and a loose seek while playing adds at most `PlayingWithin`; the
invariant says, for a playing and for a paused video, reported or not, how the echo, the element and the
workspace's time lie to each other. A comment within 200 ms of the end can leave an echo behind, because
the video ends before the next report; the property excepts such comments (`NoneIsLate`), and the run has
11 frames so that none of its comments is one.

*Assumptions.* The `ASSUME`s of the modules, which TLC evaluates in every run: that sets have the shape the
code gives them, and besides that `MembershipAssumption` (finitely many users and invitations, a limit of
at least one), `PlayerAssumption` (the thresholds are in the order of the code's: the 0.08 s of an echo are
no more than the 0.4 s of a loose seek and the 200 ms between reports), `GatesAssumption` (the form's
request is not the gates' own), `TablesFit` and `PromisesAreBacked`. No theorem assumes
anything else: none that there is one editor, process, request or subscription. Where the deployed system does
break a property, the property names the event after which it says nothing (`raced`, `overlapped`, `strayed`,
`overtaken`, `lost`, `mishaps`, `crossed`, `moved`) or the setup (`Calm`, `Steady`). The history variables are
set by the model's own steps, from what the code does in them, and nothing else reads them: the theorems then
say that these events, each of which is listed above, are the only ways.

*Only model-checked.* The liveness properties (`ProcessingSettles`, `OverdueIsSettled`, `DialogSettles`,
`ComesToRest`, `LeavesTheComment`, `VersionsRestTogether`), because liveness under fairness is beyond the
prover. That the 65 forms keep what `Screens` says they do is a matter of the tables, which TLC evaluates
(`TablesFit`, `PromisesAreBacked`). `DialogTypeOK` and `WorkspaceTypeOK`, which are no properties of a run
(the proofs about them use the parts they need).

## What is not modelled

- *MediaPipeline*: names and moves of a media, progress in the cache, notifications, thumbnails and HLS
  (they have no part in which objects the row names), comments and share links that a deletion takes
  along, and `CleanupOrphanedUploads`, which nothing schedules.
- *VersionStacks*: the free text label of a version.
- *Billing*: the mock provider and its renewal, the backfill of a missing period, the reminder a week
  before the end, mail, the quota cache, and the differences between the paid tiers.
- *Membership*: creation beyond the initial state, the name, paid plans (a downgrade may leave an
  organization above the free limit), and users disabled by an administrator. `member.status` is never
  set to anything but active, so the branch for inactive members is dead code and left out. The members
  of a deleted organization stay; authorization refuses them.
- *AuthSession, RouteGates*: registration and verification mails, the first password of a Google user, the
  exchange of codes with Google, and the pages of the password mails, which lead to the same places. The
  retry of a query is the same request; a navigation inside the application that would ask again keeps the
  request it has; the two steps of the onboarding form are one; pages are not loaded from outside while
  the tab signs in, signs out or refreshes. Timeouts and errors of the server are among the ends of
  requests in two of the setups.
- *QueryCache*: one answer at a time, each change a row of its own (two edits of one row are not told
  apart); one folder, and in each answer the rows of its own kind: that `ingestMediaCreated` and
  `ingestFolderCreated` put rows into the lists of other folders, or of decisions, until these are fetched
  again, does not show; of a form that takes its record from a list, a record made while a call that then
  failed was under way; the temporary row of `create_folder` and the poll of `media_viewer_modal` every
  three seconds. What a component only lays out is left out, and so are the landing and legal pages and
  the functions of the generated client that no screen calls.
- *UploadSession, UploadDialog*: the reading of a large file (it has no part in the pool), and the router
  that stores streamed parts in files.
- *ReviewPlayer, ComparePlayer*: replies, comments without a time, the image viewer, the badge with the
  time of a comment (which sets the workspace's time before it selects: in effect a `Click`), the list of
  comments that a failed resolve restores (it differs from the list then only where calls overlap), the
  player of the guest page, the arithmetic of time codes, and `frameOffset`, which nothing sets.
- *Not modelled at all*: the folder tree and the rows of share links on the server, the copying of
  decisions to the versions of a stack, the storage quota, the rate limiter, the presence hash and the
  pub/sub listener. Comments, notifications, profiles and the admin console are, on the server, single
  statements on single rows.

## Plan

1. *Done*: the modules above, their runs and theorems, `MediaLife` with its refinement.
2. `FolderTree`: create, move and delete by two requests. Properties: no cycle, nothing alive under a
   deleted folder; the walk of the breadcrumbs ends.
3. `ShareLinks`: creation against the deletions that revoke links. `Reviews`, composed with
   `VersionStacks`: decision, status and copies in separate commits.
4. Smaller ones: `RateLimiter`, `StorageQuota`, `Presence`.
5. `Entitlement` (a plan that starts and ends), to be implemented by `Billing`; the streaming router under
   `UploadSession`.
6. Theorems: the safety of the comparison, and of `FolderTree` that one request makes no cycle.

## Running it

`tlc -config MediaPipelineVideo.cfg MCMediaPipeline` and likewise for the other configurations: each
`.cfg` belongs to the `MC` module whose name begins it, and `PROJECT.json` lists the pairs (`UploadDialog.cfg`,
`QueryCache.cfg`, `ReviewWorkspace.cfg`, `RouteGates.cfg`, `MediaPipelineLive.cfg` and `BillingLive.cfg` take two
to three minutes each with two workers). `tlapm MediaPipelineProofs.tla` checks a module of proofs. A definition that no action uses and
whose comment begins with "Mutant" (or, in the older modules, names a broken variant: `DeletesAnySource`,
`NoOwnerCheck`, `Unsealed`, ...) is a plausible bug of the definition that follows it, with which the
properties are shown to be able to fail.
