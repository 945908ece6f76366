# SharedSpaces in TLA+

SharedSpaces is a self-hosted place to share files and texts: a server (ASP.NET
Core over SQLite and a directory of files), a web client and a command-line
client. This directory holds TLA+ models of the parts whose behaviour depends on
the order things happen in, the TLC configurations that check them on small
instances, and TLAPS proofs of what holds for instances of any size.

`S/` stands for `src/SharedSpaces.Server/`, `K/` for `src/SharedSpaces.Cli.Core/`,
`C/` for `src/SharedSpaces.Client/src/`.

## 1. The system

| part | its state | its operations | what is hard about it |
|---|---|---|---|
| Item store: `S/Features/Items/ItemEndpoints.cs`, `S/Infrastructure/FileStorage/LocalFileStorage.cs` | rows of `SpaceItems`; blob files `<space>/<item>.bin`; one semaphore per space; SQLite's write lock | upload and overwrite of texts and files, deletion, copy and move between spaces of a server, transfer to another server | quota checked against concurrent writers; rows and blobs in two stores with no common transaction; compensation on failure, cancellation and restart |
| Expiry: `ExpiredItemsCleanupService.cs`, `ExpiredItemsWakeSignal.cs`, `SpaceItemExpiry.cs` | TTL of items; the soonest requested wake-up; a semaphore with one permit | sweep, request to wake, wait | lost wake-ups; a batch that fails because of one row |
| Journal: `S/Features/Journal/*`, tombstones in `ItemEndpoints.cs` | `SharedAt`, `DeletedAt`, `JournalPrunedBefore`, `LastSyncAt` | journal query, acknowledge, reset, tombstones, pruning | stamps are older than their commits; a response is made of several queries |
| Members: `S/Features/{Tokens,Invitations,Spaces}/*` | invitations, members, `IsRevoked` | invite, withdraw, join by PIN, admission of requests, revoke, reinstate, delete | one PIN presented twice; revocation against requests under way; deletion against writes |
| Shared links: `S/Features/SharedLinks/*` | `SharedLinks` rows | create, delete, public read | they refer to items and members that others delete |
| Hub: `S/Features/Hubs/*` | connections grouped by space | item added and deleted events, sent after the commit | events of different requests in any order; connections outlive revocation |
| Web push: `S/Features/Notifications/*` | subscriptions by member and endpoint | subscribe, unsubscribe, deliver and drop stale ones | two registrations of one endpoint; a renewed subscription dropped as stale |
| Command-line sync: `K/Services/SyncService.cs` | folder, claims (`_downloadedItems`), retry timers | journal polls (passive mode), hub events and validation (live mode), uploads of changed files | several loops over the same folder; a claim taken before the download is done |
| Command-line configuration: `K/Services/ConfigService.cs` | one JSON file | load, change, replace | two commands at once; a failed read taken for an empty file |
| Web space view: `C/features/space-view/*`, `C/lib/signalr-client.ts` | the list on the page, the cached list and its checkpoint, files kept for large space mode, previews | loads with and without the journal, verification, hub events, deletion, large space mode, downloads and previews | nothing is cancelled: every answer meets the list, the mode and the space as they are by then |
| Web shell and tokens: `C/app-shell.ts`, `C/lib/token-storage.ts`, `C/features/join/join-view.ts` | the view and space shown, the token cache, IndexedDB and local storage | start, join, leave, choose a space | two stores that stand in for each other; tasks whose element has left the page |
| Administrator's page: `C/features/admin/*` | session, spaces with a card each, one dialog, calls under way | login, logout, refresh, create, change members and invitations, exchange a PIN | answers after a logout, a login elsewhere or with another dialog open |
| Web compose queue: `C/lib/idb-storage.ts`, `C/lib/offline-sync.ts`, `C/sw.ts` | inbox of shares, drafts and pending uploads in IndexedDB, the page's list of them | receive a share, type, pick, press Share, drain from page and from service worker | two drains at once; answers that are lost; a page that is closed between two stores |
| Admin filter, CORS, startup, migrations, shared-item page, commands | none, or generated | single checks, wiring, rendering | nothing a model adds to a test |

How they interact. Clients call the server over HTTP; each request is a sequence
of awaits, and requests interleave at every one. The server's handlers share the
database (one writer at a time; a `Serializable` transaction takes the write lock
at once), the blob directory and the per-space semaphores. After its commit a
handler asks the cleanup service to wake, notifies the hub and web push. Clients
follow either the hub's events or the journal.

What makes each part correct, in a word: quotas hold and no file row lacks its blob (item
store); expired items go (expiry); a device misses nothing it has acknowledged (journal); a
PIN makes one member, a revoked member stops writing and a deleted one leaves nothing
(members); a queued upload is done once and is not lost (compose queue); a page at rest
shows every item, and what it has acknowledged is in its cache (space view); no space is
lost whose joining has been stored (tokens); a page agrees with its server and shows a
secret only where it was asked for (administrator); the configuration keeps every change
(configuration). `PROJECT.json` lists the hazards behind these, line by line.

## 2. Modules

| module | models | state | proofs |
|---|---|---|---|
| `ItemStore` | item store | `rows`, `blobs`, `quotaLock`, `writer`, `req` | `ItemStore_proofs` |
| `ExpirySweep` | expiry | `ttl`, `pending`, `permit`, `svc`, `req` | `ExpirySweep_proofs` |
| `Journal` | journal endpoints and the writers they race with | `clock`, `items`, `tombs`, `pruned`, `lastSync`, `job`, `get` | `JournalSync_proofs` |
| `JournalSync` (extends `Journal`) | the devices that follow the journal, composed with it | `kind`, `copies`, `claimed`, `sync` | `JournalSync_proofs` |
| `Membership` | members, invitations, shared links | `invites`, `members`, `via`, `owner`, `links`, `req` | `Membership_proofs` |
| `Follower` | what a device promises that keeps a copy by the journal | `due`, `held` | |
| `SpaceView` | the web client's list of one space, with its hub, cache and verifications | `state`, `acked`, `inbox`, `enabled`, `cache`, `shown`, `hub`, `task`, `timer`, ... | `SpaceView_proofs` |
| `WebShell` | the page around the views, joining and leaving, the token store | `stored`, `legacy`, `cache`, `writes`, `view`, `join`, `leave`, ... | `ViewedFiles_proofs` |
| `ViewedFiles` (extends `WebShell`) | fetched, kept and previewed files, composed with the page | `large`, `viewed`, `preview`, `fetches`, `toggle`, ... | `ViewedFiles_proofs` |
| `AdminView` | the administrator's page and the servers it calls | `session`, `cards`, `modal`, `jwt`, `calls`, `made`, `rows`, `pins`, ... | `AdminView_proofs` |
| `ComposeQueue` | the web client's compose queue, in the page and in the service worker | `inbox`, `rows`, `legacy`, `page`, `share`, `sync`, `tag`, `server` | `ComposeQueue_proofs` |

`MC...` modules give TLC the constants a configuration cannot write and the
symmetry sets. Operators commented *Mutant* are wrong variants of the definition
that follows them, used to see that a property notices.

**ItemStore.** A handler is a record in `req` whose `pc` is the await it has
reached: `load` (existing row), `lock` (`AcquireQuotaLockAsync`), `begin`
(transaction and quota), `blob` (`SaveAsync`), `reread` (a move loads its source
again), `save` (`SaveChangesAsync` and commit), `clean` (blob deleted after the
commit). Reads and the check made under the write lock are one step, since nobody
else can write. A size is a number of units; a text that exceeds
`TextThreshold` is the one converted to a file. EF Core updates only the columns
that differ from the entity it loaded: `UpdatedRows`. `Faults` adds database and
I/O errors, a client that goes away at any await, and a restart that leaves a
partial file.

**ExpirySweep.** Times are kept relative (time left), so no clock needs a bound.
`WaitAsync` is five steps, as its two lock blocks, the registration on the
semaphore, `WhenAny` and the cancellation are apart, and `RequestWakeAt` two, its
gate and its release. `Task.Delay` may be late: `Tick` waits for nobody.

**Journal.** `StartUpload`/`CommitUpload` and `StartDelete`/`Remove` keep the stamp
apart from the commit; `GetSpace`, `GetMember`, `GetItems`, `GetTombs` are the
queries of one response; `CountExcess` and `Prune` those of the pruning. Without
the fault `"late"` no time passes between a stamp and its commit; without
`"overlap"` requests are served one by one.

**JournalSync.** The device side: `ApplyDeletions`, `Download` and its outcomes,
`Reconcile` (full sync) and `Acknowledge` for the command-line client;
`ApplyDelta`, `Reload` and `Acknowledge` for the web client. A copy is named by
the `SharedAt` it was taken from. Lost requests and answers are `PollFails`, a
restart loses the claims.

**Membership.** A handler reads in one step and saves in a later one; `SaveChanges`
is where keys, the unique index on PINs and the foreign keys bite (`Taken`,
`StillOpen`, `Restricted`). `via` is a history variable. The names the space gives
to things (display names, tokens, link names) are left out. A device has at most
one link per item in the model, which is enough to hold either row.

**ComposeQueue.** A *thing* is what a user hands over: a typed text, a picked file, a
text or file from another app, or a row an earlier version queued. Every id drawn for
it (`crypto.randomUUID`) is a pair of the thing and a number, and stands for a row and
its item alike. `page` is the memory that closing the page loses, `share` the press of
Share with its awaits in order (text, shared texts, claimed files, drafts), `sync` the
two drains with the snapshot each still has to go through. A picked file is in the list
at once and in the store when `PersistDraft` gets there. Writes of rows may fail;
deletions are taken to succeed, and the deletions that follow one upload are one step.
A request is one step of its answer: `Uploaded`, `DraftStored`, ... store the item;
after a network error or a close it may have been stored or not. A status is taken to
mean that nothing was stored. The device is offline when the page meets a network error
without storing. Every space has its mirrored token, and one space stands for all.
`torn` and `asked` are history variables. `SharedOnce` leaves out the shares in `torn`,
which were sent and then overtaken by a close of the page or a failed write while
still in the inbox: the next press sends them again under a new id. It also leaves out
typed texts, which `handleTextSubmit` queues under a new id after a network error, so
they may appear twice.

**Follower, and what implements it.** `due` is what the journal will not report again to
this device, `held` what the device would still have after a restart. A step may add to
`due` only what was held *before* it (first the copy, then the acknowledgement) and may
drop from `held` only what is not due. `JournalSync` and `SpaceView` both instantiate it:
in `JournalSync` `held` are the device's copies and `due` the rows stamped before its
checkpoint, where its next window starts; in `SpaceView` `held` is the cached list and `due`
what the server has as acknowledged while large space mode is on. The property `FollowsJournal` is
`Follower!Spec` under these mappings.

**SpaceView.** A checkpoint is the set of items shared by then, so no clock is needed.
`task[k]` holds one asynchronous call each, at its await: a load (`prepare`, `cache`,
`journal`, `delta` or `items`, `listed`, `ack`, then `stop` and `start` of the hub), a
verification, a refresh, a reconnection after the page became visible. Only what a
request brought back is kept in a task; `shown` is read anew, as the code does with
`this.items`. `inbox` are the hub's messages, in no order, and lost with the connection.
`timer` and `requested` are `journalVerifyTimer` and `journalVerificationRequested`.
`Overlaps` names what may come while a list is loaded.

**WebShell, ViewedFiles.** `cache`, `stored` and `legacy` are `tokenCache`, the row in
IndexedDB and the entry in local storage; `writes` is the chain of `tokenWritePromise`.
`join` and `leave` are `handleJoin` and `removeSpace` at their awaits, with the space they
were asked for, the space their element has by now, and whether it is still on the page. Two
history variables say what may be asked of the stores. `kept` are the spaces whose joining
has been stored (by a write to IndexedDB, or to local storage when that failed) and that
have not been left; a join closed before that is not promised. `cleared` are the tokens that
local storage alone had when `setToken` or `removeToken` removed its entry: while their
write is pending only the page's memory has them. Nothing but leaving takes a space out of
`kept`, opening the page anew included. `ViewedFiles` adds `getOrFetchFileBlob` as a set of
`fetches`, each with the space it asked and what its element was when it left the page;
every step of the shell carries `Follow` along, which says what becomes of the element. An
element is `Turning` between being given a space and reading its setting. `viewed` is the
order of `accessedAt`.

**AdminView.** A call is `sent`, then `ok`, `error` or `401`, and comes back whenever it
does; the page is changed by `Answer` only, one operator per handler's second half. The
server's part is one step of a call, and its effect may be followed by a lost answer; of
the two lists of a load one may fail and the other come.
`opened` gives every dialog a number, as the code compares the object `activeModal` by
identity. `clean` is a history variable: no list was asked for while it was being changed.

## 3. Runs

Two requests are enough for every interleaving of a pair of handlers, the form all
hazards found so far have; two spaces, two items and two units of quota let a
space be exactly full, over by one, or be emptied by a transfer.

| run | bounds | shows |
|---|---|---|
| `ItemStore_concurrent` | 2 spaces, 2 items, 2 requests of every kind, no converted text, quota 3 with files of 2 | `TypeOK`; `LockDiscipline`; `QuotaRespected` with cancellation and database errors at every await |
| `ItemStore_files` | 2 spaces, 2 items, 2 requests: file uploads, copies, the sweep | `FileHasBlob` and `FailuresCleanUp` with database errors and restarts; `RequestsComplete` under fairness |
| `ItemStore_sequential` | three items, one request at a time, all sizes 0..2, texts converted from size 1 | rows and blobs agree after every request: `RowIsWhole`, `StorageMatches`, `MoveIsOneUnit` |
| `ExpirySweep_wake` | 2 items, 2 uploads, TTL up to 2, sweep interval 3 | `NoLostWake` and, under fairness, `ExpiredRemoved` |
| `JournalSync_overlap` | 2 items, 2 requests that overlap, clock 3, an enrolled command-line device, lost answers | `WindowCovered`, `DeletionsArrive`, and `FollowsJournal`: the device implements `Follower` |
| `JournalSync_serial` | 2 items, clock 2, one tombstone kept, either client, enrollment, resets, restarts, pruning | `DeletionsArrive`, `FollowsJournal`, and `UpdatesArrive` for the web client |
| `JournalSync_web_deletions` | 1 item | *violated*: the web client never applies a deletion |
| `Membership_admin` | 2 members, 2 invitations, 1 PIN, 1 item, 2 administrators, 2 devices | `OneMemberPerInvitation`, `NoOrphans`, `RevokedAddNothing` |
| `ComposeQueue_drain` | a picked file with an old queue of one; a shared text, a shared file, a typed text by themselves; 2 ids per thing, 1 close of the page | `NothingLost`, `OnlyAsked`, `SharedOnce`, and `QueueDrains` under fairness |
| `SpaceView_journal` | 2 items, one there from the start; one fault (lost connection, pruned journal, reload, failed request, going offline), one act of the user, large space mode toggled once | `NothingMissing`, `FollowsJournal`, and `VerificationRuns` under fairness |
| `ViewedFiles_page` | 2 spaces, 3 files of sizes 1 to 3 with a budget of 2, 3 acts of the user, 2 faults | `TokensKept`, `PreviewOfItem`, `NothingKeptOutside` |
| `AdminView_session` | 2 servers, 2 spaces, a member and an invitation, 3 calls and their loads, 2 dialogs, 2 faults | `ListsCurrent`, `FlagsHaveCalls`, `SecretsInTheirDialog` |

The TTLs and the interval of `ExpirySweep_wake` let a request be sooner than, equal
to and later than the pending one, and sooner than the interval. A clock of 2 or 3
lets stamps fall before, on and after a checkpoint. One PIN for two
invitations makes a freed PIN be drawn again while somebody still presents it, and a draw be
refused while it is taken; two administrators let one reinstate, withdraw or invite between the
check and the save of the other.

**Fairness.** `ItemStore!FairSpec`: the runtime runs every handler that can go on
(weak fairness); `SemaphoreSlim` and SQLite's busy handler let every waiter through
in the end (strong fairness of taking the lock and of the writes that wait for it).
No fairness is assumed of clients or faults. `ExpirySweep!FairSpec`: the host runs the
background service, and time passes. `ExpiredRemoved` is claimed only for runs in which
from some time on no batch is spoiled (a failed save, a restart, a user's deletion
of an item in the batch): each of them may recur for ever, and then nothing is
promised.

`ComposeQueue!FairSpec`: the user opens the app again, the device comes online again, the
browser fires the sync events it owes (a `sync` event that fails is fired again), the
service worker runs to its end, and of uploads tried again and again some is answered
(strong fairness of `Uploaded`). Nothing is assumed of the page's own drain. Browsers
give up after some retries of one registration; `handleOnline` registers again, which
`ComeOnline` stands for. Two ids let every share be tried again once, and one
close can fall between any two steps of a press; two things at a time let a drain
have a row left when another changes the queue. More things multiply the states
without a step that compares them.

`SpaceView!FairSpec`: timers fire and every call comes to an end, well or not (weak
fairness of each task). Nothing is assumed of the hub, the network or the user.
One fault and one act of the user already meet each other and every await of a load; a second
item lets one be acknowledged while another is not. Three acts in `ViewedFiles_page` let a
file be fetched, something change and something be looked at; the budget of 2 is exceeded by
two files together and by one alone. Two dialogs in `AdminView_session` let an answer meet
another dialog, or the same one opened anew; a login, a call and another login are three.

## 4. What the code does against its documentation

Each of these is stated by a document of the repository, and the code does otherwise. The
first is a run of its own (*violated*); the others are obtained from a passing run by the edit
of its `.cfg` that is given.

* `JournalSync_web_deletions`. `journal.deleted` holds objects, `applyJournalDelta`
  treats them as ids; `IMPLEMENTATION_NOTES.md:13` says they are applied.
* `ItemStore_concurrent` with `TextThreshold = 1` violates `QuotaRespected`. A long text
  loads the row it replaces before it takes the quota lock, and subtracts that row's size
  from a usage read under the lock; two such uploads of one id both subtract it
  (`.squad/decisions.md:2839`: "Prevents TOCTOU bugs on quota enforcement").
* `ItemStore_files` with `Faults = {"io"}` violates `FileHasBlob`. `SaveAsync` truncates the
  file in place and deletes it when the copy fails; the row of the earlier upload stays and
  has no file (`.squad/decisions.md:2460` promises orphaned blobs rather than orphaned rows).
* `Membership_admin` with `INVARIANT RemovalPossible` violates it. `SharedLink.CreatedBy`
  restricts deletion; `DeleteMember` removes the member's items, with the links on them, but
  not its links on others' items, so the save fails each time (`.squad/decisions.md:2301`:
  "Admins can fully remove revoked members").
* `Membership_admin` with `PROPERTY ActiveSurvives` violates it. `DeleteMember` checks that
  the member is revoked when it has read it; another administrator may reinstate it before the save,
  which deletes the row whatever it says by then (`.squad/decisions.md:2267`: "409 Conflict if
  member is not revoked (prevents accidental deletion of active members)").

The passing runs stay clear of other schedules which the models do allow and which
break a property when a bound is lifted. They are limits of what is claimed:

* A blob deleted after its commit (deletion, or a file replaced by an inline text) may
  belong to the same item stored again meanwhile; `FileHasBlob` is checked for uploads,
  copies and the sweep. `FailuresCleanUp` is checked for the same, and leaves out two more:
  with `"cancel"` in `Faults` the compensation is given the token of the request, which is
  cancelled, and the blob stays; so it does when a file that replaces a text fails to be
  saved, as the handler compensates only for items that are new.
* Two concurrent upserts of one item, one of them a text, leave a row with columns of both;
  a move removes whatever version it finds at the end; a copy takes the size from the row
  and the bytes from the blob later. `RowIsWhole`, `MoveIsOneUnit` and `StorageMatches` are
  checked for one request at a time.
* Only the soonest wake-up is kept, so a second item that expires within the interval waits
  for the next sweep; and an item renewed between the sweep's query and its save is removed.
  Neither contradicts `NoLostWake` or `ExpiredRemoved`.
* With `"late"`, a row stamped before and committed after a response is in no later window
  either; with overlapping requests, tombstones pruned between the queries of a response are
  missed (`JournalSync_overlap` keeps 2 of 2), as is a deletion that looked for subscribers
  before the first one enrolled (its device is enrolled).
* The command-line client does not download a new version of a file it has claimed, and
  acknowledges it: `UpdatesArrive` is about the web client.
* In `Membership_admin`, which says nothing of it: an item of a member under deletion that
  another member overwrites meanwhile is removed all the same.
* In `SpaceView_journal`: `"lost"` in `Faults` violates `FollowsJournal` (an item is taken
  out of the list before the server has answered, an event writes that list to the cache,
  the deletion fails); so do `"verify"` in `Overlaps` (a verification sets the list from an
  older cache while a load acknowledges a newer one) and `MaxActs = MaxToggles = 2` (turned
  off, the mode forgets its cache but not the server's checkpoint). A verification that
  fails is not tried again, and without large space mode what is added between the list's
  answer and the hub's start is not seen: `NothingMissing` excludes both.
* In `ViewedFiles_page`: `"leave"` in `Overlaps` violates `TokensKept` (`removeSpace` reads
  `this.spaceId` after the hub has stopped, and removes the token of the space chosen
  meanwhile); so does `"read"` in `ShellFaults` (a store that cannot be read counts as
  empty, and the next join writes it so). So does `"close"` in `Overlaps` with `MaxActs = 4`:
  a write fails and leaves the token of one space in local storage alone; joining or
  leaving another removes that entry before its own write is made, and the page is closed in
  between. Without `"close"` the page is not closed in that state, and may be closed in any
  other. `"text"` violates `PreviewOfItem` (a text is read after the request's number was
  checked). `NothingKeptOutside` is violated by `"turn"` (a file comes while the element has
  another space but not yet its setting, and is kept for it by the mode of the space
  before), by `"toggle"` (the element leaves the space while its mode changes, and the
  setting of the space it shows by then decides), and by `"clear"` in `FileFaults` (the
  clearing fails, the `catch` block leaves the files). A join or leave whose element has
  left the page is not heard of; the list stays as it was.
* In `AdminView_session`, which says nothing of them: a refused secret of an old session
  ends the new one; a refresh that overtakes a change undoes it on the page until the next;
  an answer to a creation that is lost leaves the list without it; a refresh that overtakes
  a creation blanks the new card, so that an invitation under way for it may come to stand
  beside a token. `ListsCurrent` therefore speaks of states in which `clean` holds.

## 5. Proofs

Each theorem is about the specification that the runs check, for any number of spaces,
items, members, requests, devices and faults. Names in the last column are operators of
the module of proofs; each is a statement about the module's constants, true in the
configuration of the run that checks the property.

| theorem | says | assumes |
|---|---|---|
| `ItemStore_proofs!TypeCorrect` | `[]TypeOK` | |
| `ItemStore_proofs!LocksHeldByTheirHandlers` | `[]LockDiscipline` | |
| `ItemStore_proofs!QuotaSafe` | `[]QuotaRespected` | `NoConversion`, `FilesNotEmpty`: no text is converted, files are not empty |
| `ItemStore_proofs!RowsStayWhole` | `[]RowIsWhole` | one request at a time, or no uploads of texts |
| `ItemStore_proofs!MovesAreWhole` | `MoveIsOneUnit` | `Undisturbed`: one request at a time and no sweep |
| `ItemStore_proofs!FilesHaveBlobs` | `[]FileHasBlob` | any number of uploads of files, copies and sweeps whose blobs are written whole; or `Undisturbed` and no faults |
| `ItemStore_proofs!FailedSavesCleanUp` | `FailuresCleanUp` | `NoTextsSent`: no texts are uploaded; `CompensationRuns`: no client goes away |
| `ExpirySweep_proofs!TypeCorrect`, `WakesAreKept` | `[]TypeOK`, `[]NoLostWake` | |
| `JournalSync_proofs!TypeCorrect` | `[]TypeOK` of `Journal!Spec` | |
| `JournalSync_proofs!JournalCoversItsWindow` | `[]WindowCovered` | `NotLate`: no time passes between a stamp and its commit |
| `JournalSync_proofs!DevicesFollow` | `FollowsJournal` | `NotLate` |
| `JournalSync_proofs!WebIsCurrent` | `[]UpdatesArrive` | `NotLate` |
| `JournalSync_proofs!DeletionsReachDevices` | `[]DeletionsArrive` | `Serial`: requests are served one by one |
| `Membership_proofs!TypeCorrect` | `[]TypeOK` | |
| `Membership_proofs!InvitationsAreOneTime` | `[]OneMemberPerInvitation` | |
| `Membership_proofs!NothingIsOrphaned` | `[]NoOrphans` | |
| `Membership_proofs!RevocationHolds` | `RevokedAddNothing` | |
| `SpaceView_proofs!TypeCorrect` | `[]TypeOK` | |
| `SpaceView_proofs!KeepsWhatIsAcknowledged` | `FollowsJournal` | `Steady`: verifications and the user wait for a load, no answer to a deletion is lost, large space mode is toggled once at most |
| `SpaceView_proofs!NothingIsMissing` | `[]NothingMissing` | `Steady` |
| `ViewedFiles_proofs!TypeCorrect`, `TokensSafe` | `[]ShellTypeOK`, `[]TokensKept` of `WebShell!ShellSpec` | for the second, `Reliable`: stores can be read, no space is chosen while one is left, and the page is not closed while it alone has a token stored before |
| `ViewedFiles_proofs!FilesTypeCorrect` | `[]TypeOK` | |
| `ViewedFiles_proofs!TokensSafeWithFiles` | `[]TokensKept` of the composed page | `Reliable` |
| `ViewedFiles_proofs!PreviewsShowTheirFile` | `[]PreviewOfItem` | `TextsAlone`: no preview is opened while a text is read |
| `ViewedFiles_proofs!FilesStayInLargeSpaces` | `[]NothingKeptOutside` | `ModesAlone`: a space is not left while its mode is turned on or off, no file comes for an element that is `Turning` (nor is one with a file on its way taken off the page), and files are cleared without failure |
| `AdminView_proofs!TypeCorrect` | `[]TypeOK` | |
| `AdminView_proofs!NothingWaitsForNothing` | `[]FlagsHaveCalls` | |
| `AdminView_proofs!SecretsStay` | `[]SecretsInTheirDialog` | |
| `AdminView_proofs!ListsAreCurrent` | `[]ListsCurrent` | |
| `ComposeQueue_proofs!TypeCorrect` | `[]TypeOK` | |
| `ComposeQueue_proofs!NothingUnasked` | `[]OnlyAsked` | |
| `ComposeQueue_proofs!NothingGetsLost` | `NothingLost` | |
| `ComposeQueue_proofs!SharesArriveOnce` | `[]SharedOnce` | |

The assumptions in the last column are not conveniences: section 4 says for each what the
model does without it. Besides these the proofs use the named assumptions of the modules'
constants: bounds are natural numbers, sets of names do not overlap where the code tells
them apart by their kind (typed texts and shares, loads and the other tasks of the space view), and
`None` is none of the values it stands beside.

**ItemStore.** *LockDiscipline* is inductive with the type invariant. *QuotaRespected* is
not: between its check and its save a handler relies on the usage it has seen. The invariant
adds that a handler past its check fits (what it projected is still under the quota) and
that, as it has the write lock and the space's semaphore, nobody has added anything since;
deletions only free space. That a space's usage falls by what is taken away and grows by
what is put in is a lemma on the cardinality of the sets of units. *RowIsWhole* depends on
what an upsert remembers of the row it is about to change: `WholeInv` adds that the row it
has seen was whole, and is as it was or gone, since no other request came between, or that
there are only files. *MoveIsOneUnit* needs `Current`: what a handler has seen is what the
table still has. *FileHasBlob* with one request at a time follows from `Tidy`, which says by
how much the blobs may differ from the rows at each await (a blob written whose row is to
come, a blob to be deleted whose row is gone). *FileHasBlob* with many requests needs other
facts (`FilesInv`): all rows are files, a copy is written under an id that no row has, and a
handler whose blob is written is in its transaction, so that no other can take the row away
and its blob with it. *FailuresCleanUp* is about the step in which a save fails, and about
what its handler saw of the row several awaits before: `CleanInv` adds to *LockDiscipline*
and `WholeInv` that an upsert in its transaction still knows that row, or knows there is
none (`RowKnown`): the commits of others, the deletions and the sweep, which take no
semaphore, wait for its write lock.

**ExpirySweep.** *NoLostWake* needs what the service and the uploads have done on the way to
it: a request that changed the pending time still has its release to come or its permit
is there, unless the service has yet to look.

**Journal, JournalSync.** *WindowCovered* speaks of responses only; `WindowInv` adds that
uncommitted stamps are of now, that no checkpoint is ahead of now, and that the queries made
so far have found what their window holds. `FollowInv` continues this on the device: what a
response listed and the device has not yet downloaded it is not going to acknowledge,
what it is about to acknowledge it has. A step of the device is then a step of `Follower`, or
none; a new row enters `due` only by an acknowledgement, and was in `held` before. The same
invariant says for the web client that a copy is of the stamp the row has, which is *UpdatesArrive*.
*DeletionsArrive* needs more and holds for fewer schedules. `DeletionInv` has `OneByOne` (requests
do not overlap), `Watermark` (the tombstones that are left are newer than those pruned), what a
deletion or a pruning under way has found and what still holds of it (`Deleting`, `Dropping`),
and `Informed`: a copy of a deleted row is on the device only while its tombstone, or a pruning
past the device's checkpoint, lies in its next window. Commits may be late here, since no
response is made between a stamp and its commit. With requests that overlap it is
model-checked only (`JournalSync_overlap`, which keeps as many tombstones as there are items).

**Membership.** *OneMemberPerInvitation* needs that members joined by an invitation at all;
an open invitation is not used, and the exchange looks at the row again. *NoOrphans*
follows from the save of a deletion, which fails if anything that refers to the member is
left.

**SpaceView.** `DueInv` is what *FollowsJournal* takes. `One`: of all that may load the
list, one task does at a time. `Setting`: the page goes by the stored setting from the
moment it has read it, and who goes by the journal does so with large space mode on. `Past`:
nothing is known, shown, kept or told of an item before it is shared. `Covered`: what is due
is in the cache; it is on the page, unless the page has just been opened and nothing has
touched its cache; and what a task is about to show, keep or acknowledge contains it
(`DueTask`, one clause per await). The middle clause is what makes a write of the cache
after an event safe: it writes what the page shows. The proof of its type invariant showed
that "a task that acknowledges has a checkpoint" has to be part of it: an acknowledgement of
none would be merged with the checkpoint the server has. *NothingMissing* speaks of a page
at rest; `Found` says of a page that is connected, without an error, a load or a promised
verification, how each item gets there: it is shown, or what the task under way will show
has it, or the hub's message of it is on its way and the list does not have it. The last
half of that is what the code relies on without saying so: an item that is listed and
announced at once asks for no verification, which is harmless only because the list then has
it. `Places` says which tasks connect the hub: none of them is the verification, so that a
verification asked for then is not forgotten as it ends.

**WebShell, ViewedFiles.** *TokensKept* is not inductive either: between a join and its
write the token is in neither store. `Kept` says of every write that is queued that it has
all that is kept, and the space of the join that is stored by then (`Covers`), so that
whichever of them is made, to IndexedDB or to local storage, leaves all that is kept in the
one or the other; that a write is queued only with a cache, and nothing is `cleared` when
none is (`CacheWritten`); and that a space being left is the one that was asked for. `Inv`
adds the discipline of the queue: each write is for one task that waits for it, and nothing
is written before the tokens have been read. The steps of `ViewedFiles` change none of this,
or are steps of the shell, which is how the theorem carries over to the composed page.
*PreviewOfItem* is about numbers: `OwnFile` says that a fetch for a preview has the file its
number was given for, and that no number is ahead of the counter. *NothingKeptOutside* needs
`ModeInv`: the page's element knows its mode or is being cleared (`KnowsItsMode`), an
element that has left the page with a file on its way took with it the mode its space still
has, what a toggle is doing at each of its awaits (`Toggling`), and that what is kept is of
a large space or of the one being cleared (`KeptOrCleared`). That a list keeps its order and
has no file twice when rows are taken out of it is a set of lemmas about sequences, cited
wherever `viewed` changes.

**AdminView.** *FlagsHaveCalls* and *SecretsInTheirDialog* are inductive only together, with
what ties a call to the page it left: every call is of its space's server and its answer
of its space (`CallOK`), a login is alone and without a session (`Logins`), and the page
shows nothing, and waits for nothing, of another server than the session's (`OfSession`).
From these it follows that an answer that is dropped, the session being another by then,
leaves no flag behind, and that one to the open dialog is for its space and its session. One
lemma (`AnswerInv`) says what an answer may do to a card; each kind of answer is shown to be
one. *ListsCurrent* follows from `ShownInv`: while `clean` holds, lists and changes are not on their
way together, a list that is answered is what the server has, and what the page shows
otherwise than the server has it is still to be told by an answer that is on its way, or has an
error in its place.

**ComposeQueue.** *OnlyAsked* speaks of the server; `Asked` adds what is on its way there:
pending rows, the old queue, the snapshot and the entry of either drain, the draft or share
the page has sent and those it will send next. *NothingLost* is about one step, and all but
one follow from the step itself; `DropShare` removes a share because its row was stored a
step earlier. `Backed` says why that is safe: a drain may already have taken that row away,
but then the server has it or has refused it. `Pressed` has the types and the page's part in
a press. Two lemmas carry the rest: what a step of the press (`ShareInv`) and of a drain
(`DrainInv`) may change. *SharedOnce* bounds the ids of a share that the server has; `Once`
follows each id from the press that draws it to the server: two ids of one share are never
under way, unless the share is `torn`.

Model-checked only are the liveness properties (`RequestsComplete`, `ExpiredRemoved`,
`QueueDrains`, `VerificationRuns`), which are out of the prover's reach, `StorageMatches`,
`DeletionsArrive` for requests that overlap, and that the assumptions of the last column are
needed, which counterexamples show and no proof. Every other property of the passing runs is
stated by a theorem.

## 6. Not modelled

Transfers to another server (a chain of HTTP calls between two item stores), web push, the
command-line client's live mode, uploads and configuration: see the plan. The hub's server
side only passes messages on; its client is in `SpaceView`. In the web client: the dialogs
that share and transfer an item, the registration for push, several tabs with a token cache
each, saved server addresses, and the eviction of kept files when a full load lists them no
more. The shared-item page loads one item and shows it. The admin filter, CORS, startup,
migrations, argument parsing and rendering have no state of their own. Reading handlers
change nothing. Members deleted with their items leave no tombstones; `Membership` and
`Journal` are not composed, so no property says so.

Left out of parts that are modelled: `ItemStore` has no deletion of a member
(`SpaceEndpoints.cs:233-247`: the rows of its items in one save, then their blobs one by
one, by the steps of a deletion but for several items at once; `Membership` has its rows).
The web client's journal query hides items that have expired and are not yet swept
(`JournalEndpoints.cs:87-89`); `Journal` knows no expiry, neither this filter nor the
tombstones of expired items. In `SpaceView` large space mode is turned by one step (the
setting, the flag and the clearing of the cached list are three awaits,
`space-view.ts:698-720`), and `handleItemAdded` has no return for an item that the page
itself is uploading (`space-view.ts:796`), since uploads belong to `ComposeQueue`. There
deletions from the inbox and the queue succeed (`space-view.ts:1297` ignores that they may
not: the share would be sent again), and every space has its mirrored token (the service
worker skips the rows of one that has none, `sw.ts:394-398`).

## 7. Plan

1. `SyncLive`: hub events, validation, download, upload and full sync of the command-line
   client over one folder, an implementation of `Follower` too.
2. The dialogs of the space view (share, transfer, push) over `AdminView`'s pattern of late
   answers; several tabs over one token store.
3. `SpaceStore`, the abstract item store (a map of items per space, quota, atomic
   operations), and `ItemStore` shown to implement it where its handlers do not race.
4. `WebPush` next to `Membership`; the deletion of a member in `ItemStore`; tombstones of
   expired items and deleted members in `Journal`; `ConfigFile` for the configuration;
   cross-server transfers.
5. Proofs: `DeletionsArrive` for requests that overlap, as long as no more are deleted than
   tombstones are kept; theorems about what is added above.
