# A verification of db-state

This directory is a TLA+ development of db-state, a library that keeps
reactive copies of MongoDB records in browser tabs: what the server and the
tabs do is modelled as state machines, TLC checks the models on small
instances, and TLAPS proves the theorems listed below for every instance. The
models are translated from the code in `packages/`; `PROJECT.json` maps every
definition to the lines it stands for, lists the runs with their properties,
and for each property a mutation of the model (a *seeded defect*) that breaks
it.

Contents: [the system](#the-system), [the modules](#the-modules),
[the runs](#the-runs), [the proofs](#the-proofs),
[where code and documentation disagree](#where-code-and-documentation-disagree),
[what is left out](#what-is-left-out), [the plan](#the-plan).

## The system

A **server** (`packages/server-mongo`) holds documents in Mongo collections and
one more collection, the *change log*. A **tab** (`packages/vue`) holds some of
the documents as reactive objects and more of them in a persistent cache
(IndexedDB). One WebSocket joins a tab to the server; it carries requests with
an id (`rpc` and `system` messages, answered or timed out), and two messages
that nobody asked for: `hello`, when the socket opens, and
`changes_available`, when somebody has written something.

| component | state | operations |
|---|---|---|
| write path (`server-mongo/src/index.js`) | documents, change log, calls of `runWrite` in progress | `update`, `add`, `remove` |
| sync (`server-mongo`, `vue/src/index.js`) | the cursor `time1`, the run in progress `syncPromise` | `sync`, `syncNow`, the reset, `forceResync`, `login`'s cursor |
| records of a tab (`vue/src/table.js`, `index.js`, `cache.js`) | reactive cells with `__loaded` and `__stale`, loads in progress, cache, stored cursor | `load`, `queueLoad`, `applyChange`, `resetLocalState`, `retryUnloadedTables` |
| connection and sign-in (`vue/src/socket.js`, `index.js`, `server-mongo/src/auth.js`, `rpc.js`) | socket, pending requests, `state.auth`, saved credentials, `autoAuthPromise`; `client.user` on the server | open, close, `authByHash`, `autoAuth`, `login`, `logout`, `syncWhenReady` |
| broadcaster and hub (`server-mongo/src/index.js`, `socket.js`) | clients, debounce timer, wave under way | `schedule`, `broadcast`, `addClient`, `handleClose` |
| queries (`vue/src/table.js`) | counts and id lists, `loaded`, timers | `countRef`, `idsRef`, `listRef`, refreshes |
| loading keys (`vue/src/keys.js`) | pending tokens per key | `trackPendingKey`, `trackLoadedKey` |
| access (`server-mongo/src/access.js`, `auth.js`) | `client.user.access`, merged at login | read plans, row filters, field filters, the check of writes |
| hooks, method files (`hooks*.js`, `methods-dir.js`) | loaded functions by mtime | user code before and after each operation; reload after an edit |
| numeric ids (`numeric-id.js`) | one counter per table | `nextNumericId` |
| history (`history.js`) | none | pages of a record's change log |
| files (`server-files`, `vue-files`) | uploads and downloads per client, stored blobs, file rows | upload, deduplication, download |

How they interact. A write changes a document, appends a row to the log, and
calls `schedule()`; some seconds later the broadcaster sends
`changes_available` to the clients, slowly. A tab that is signed in answers
with `syncNow`, which asks for the rows after its cursor, except those it wrote
itself, window by window, applies each to its cells and cache, and stores the
new cursor. The rows a tab wrote itself it applies from the reply of its own
request. A cursor older than 20 days gets a reset: the tab empties cells and
cache, takes the server's time as its cursor, loads what was open again and
synchronises. A login does the same with the tab's own clock. When the socket
opens, a tab with saved credentials signs in by hash and synchronises.

What is hard here is order. Every `await` lets other handlers run: on the
server between the time stamp of a row, the document write and the log append;
in the tab between a cache read and its use, between two changes of one sync,
between clearing the cache and emptying the cells. Requests, pings and answers
are lost with a connection, and the requests go on waiting for a timeout long
after another connection is open. The hazards are listed in `PROJECT.json`, each
with its line and the properties that would catch it going wrong.

## The modules

### ChangeLog

The server's write path. `docs` and `log` are the collections, `writes` the
calls of `runWrite` that have not returned, `now` the clock. A write begins
(`BeginWrite`: the stamp of an add or update is taken here), is refused
(`Reject`: a hook, the access check, or the database), writes its document
(`ApplyUpdate`, `ApplyInsert`, `ApplyDelete`), takes its stamp if it is a delete
(`StampDelete`) and appends its row (`AppendLog`), or fails to (`FailAppend`).
Fields are top-level and values opaque: `setByPath` of nested paths is one
`$set` of a field. An update may name no field at all, because the client sent
none or only bookkeeping fields (`stripInfoSet`): it makes the document if there is
none, and its row is empty. Every update writes `info.editid` and `info.editdata`
into the document and into no row; `edited` has the documents that have them. A row's random `_id` is a key that orders rows of the same
millisecond in a way nobody controls.

`Replay` is `applyChange` of `packages/core` over the rows in the order of
`compareChanges`; the last row that touches a field decides it. What it gives is the
document without `info.editid` and `info.editdata`; those are there exactly if the
last row is an update, whose `userId` and `createdAt` stand for them
(`LastIsUpdate`). With updates of different fields at once they may be another
update's, which the model does not distinguish. The replay is promised
under a discipline (`ReplayableNext`): no append fails (`AppendsLand`), and a
write begins only when no conflicting one is in flight and after the millisecond
of the conflicting rows (`ConflictFree`). Two updates conflict if they name a common
field; an insert or a delete conflicts with every write of the document, an empty
update too, which would bring a deleted document back. `changelog_race` shows what happens
without it.

### Sync

`EXTENDS ChangeLog`, whose clock and writes go on underneath. For each session:
the cursor `time1`, the run of `syncNow` in progress with its stage (`asked`,
`windowed`: the server has chosen the window, `found`: it has read the log,
`reset` and `clearing`: the tab is dropping its data, `retrying`: it waits for
`retryUnloadedTables`), and a login in progress. Choosing the window and reading
the log are separate steps because `await`s and other requests lie between them.
The rows of a reply are applied one by one (`ApplyRow`), in the order of their
stamps and ids, and the cursor moves after the last (`ApplyReply`), so a cache that
fails in the middle ends the run with rows applied beyond the cursor; they come
again with the next run. After a reset the loop reads the cursor again (`GoOn`),
which a forced resynchronisation or a login may have moved by then. A run is not
stopped by a login, a forced resynchronisation, or the loss of anything but its
own reply.

Four ghosts say what a session was given: `got`, the rows applied since the
data were dropped; `torn`, those of them that a failed run left beyond the cursor;
`since`, when the data were dropped; and `blind`, the times for which the log was
read while a row could still land on them: the clock had not passed, or a write
stamped with it was in flight.

### RecordCache

One record in one tab with a persistent cache, against an ideal server. A
record has one field whose value is the position of the change that wrote it,
so a stale value is visible as such. `cell` is `tables[table][id]` with the
flags `__loaded` and `__stale`; `load` is the `queueLoad` in progress, which
keeps the object it fills even when that object is no longer in the table
(`target`). A reply of `sync` is the part of the log between two positions, of
which `sync.from` follows what is applied: the log only grows, so its rows need no
copy (`Rows`). Every `await` of `queueLoad`, `applyChange`, `syncNow`,
`resetLocalState` and `login` is the end of an action. `Reload` loses the
tab's memory between any two steps and keeps cache and stored cursor.

The tab may have any number of writes under way: `own` are its changes that are
made and whose replies are to come, in any order. The cache may reject what it is
asked to do: an own change is then in memory only (`WriteReplies`), a run of
`syncNow` ends in the middle of a reply and its rows come again (`ApplyNext`), and
a reset or a login leaves the stored cursor ahead of that in memory (`SyncFails`,
`LoginFails`).

The code is known to diverge in the nine ways of `Lapse`. The ghost `lapses`
records when one happens, at the step where it does, and
`ConvergesUnlessLapsed` says that there is no tenth.

### Session

The life of one tab's connection: the socket, what is on the wire, and one
request of each kind (`auth`, `login`, `logout`, `sync`), which is waiting for
the socket, sent, served, or lost with its connection and then waiting for its
timeout. Whether the tab has every change is one flag, `current`, and whether
the answer of the running sync has is another, `covers`; so any number of
writes, disconnections and sign-ins is covered by a finite state space, without
a bound. `Broadcast` stands for module Broadcaster: a wave that reaches this
tab some time after the last write. `lapses` plays the role it has in
RecordCache.

### Broadcaster

`createChangesBroadcaster` and the hub's client set. `logged` are the writes
between `await write()` and `schedule()` in `runWrite`; `untold` (a ghost) are
the connected clients that were sent nothing since the last row was logged.
`Fire` sends to the first client at once, as the loop of `broadcast` does, and
`SendNext` after each pause.

### FileUpload

The upload half of the file packages. `active` is the server's Map from clients
to uploads, `progress` the upload objects in it, `tmp` and `blobs` the files of
`localFileStorage`, `rows` the `file` table. `calls` are the handlers under way,
with the await each of them is at; `wire` what is on the connections. A handler
goes on after its connection closed, as it does in the code, and `Throw` makes
any await of storage or database fail. A write of the table may also throw when
the row is written, because the log does not take it or a hook fails
(`ThrowSaved`). A chunk that arrives belongs to the upload its client has at that
moment (`Belongs`), not to the one that sent it.

On the tab's side, `upload_done` takes the upload out of the tab's Map and awaits
`applyChange` before it resolves; `held` says that it is on this way (`applying`,
ended by `Resolve`), that the cache refused the row (`refused`), or that a chunk
of the file could not be read (`unread`).

The hash of a file is the file, so equal hashes mean equal bytes. An upload's
message id, `uploadId`, row and blob go by one name, since all of them are fresh.
The ghost `lapses` names seven ways in which one upload disturbs another or a
close disturbs a call. `stray` is the one that costs bytes: a chunk is counted to
an upload that did not send it. Each property excepts the lapses it must and no
other; `ReadyIsWhole` fails only after `stray` or `cut`, `DoneIsMine` only after
`stray`. `NobodyWaits` also excepts, for the upload they befall and no other, the
two awaits of the tab whose failure nobody handles.

### FileDownload

The download half. The tab has one `activeDownload` and the server one download
per connection (`slot`, its Map); a raw frame does not say which download it is
of. `toServer` and `toClient` are the messages of one connection in order,
`handlers` the calls on the server that await the database or the storage. A
lost connection drops messages, handlers and slot; what the tab sends while the
socket is closed waits for it. The ghost `hitches` says, per download, whether
another was under way with it, its connection was lost, or its file could not be
read.

### ChangeFeed

The abstract specification of synchronisation: a cursor, what a session holds,
when it began anew, and the times that are excused because changes could still
land on them while they were read. There are no windows, requests, replies or
resets in it. Every step keeps the `Promise`: up to its cursor a session holds
all changes of others since it began anew, except at excused times. `Sync`
instantiates it (`Feed`) with `time1` as the cursor, `got` as what is held, `torn`
as what is held loosely (given before the session gave up, so it may come again),
the stamps of the writes in flight as pending, and `blind` together with the open
times of a reply that was read and is not applied yet as excused.

### Queries

One `countRef` or `idsRef` of a tab: the entry with its value and `loaded`, its
debounce timer, the refreshes under way (which may be answered in any order and
end in any order), the copy in the persistent cache, and the `readCachedQuery`
that began with it. The result of the query is the version it was computed at, so
an old one is visible as such. Around it are the parts of `syncNow`,
`resetLocalState`, `authByHash`, `login` and the tab's own writes that announce
changes to it; a run announces the changes of all its windows with the last. The
ghost `lapses` has the six known ways to stay behind. The tab may have any number
of writes whose replies are to come (`own`), and they come in any order; a reply is
either announced, or the cache refuses the record and it never is.

### LoadingKeys

`keys.js` and its callers. `loadingByKey` and `keyRefs` are the Sets and refs of
the code; `running` are the operations, of which two may have one token; records
and calls are different things, and neither is `NoKey` (`KeysAssumption`). The
ghost `slips` says, per key, in which of three ways it may report ready too
early.

### Documents and ReadAccess

`Documents` has documents, patches and lists of fields as operators. A document
gives every path the value found there, so that an object is what is below its
path; `setByPath` and `unset` over a whole object become `ApplyPatch`. Field lists
are sets of paths, or `Unlimited`.

`ReadAccess` is one document, one user and a tab of the user. The user's access
is merged from the sources of a `Setup` when the behaviour begins, as at login. An
update or a removal reads the document and is checked (`BeginUpdate`,
`BeginRemove`), waits in `writing` with what it read, and then writes by the `_id`
alone to whatever document there is by then (`Update`, `RemoveDoc`), or fails
(`WriteFails`); the checks are for the user's own, and others write without. Each
appends a row. `Add` is one step, for nothing that could change is checked. A
sync takes up the rows after the cursor (`BeginSync`), decides them one by one
by the document as it is at that moment (`DecideRow`), and the tab applies what
was sent (`FinishSync`). `Load` shows the record as `readRecord` answers it. The
ghost `stale` says that a row was withheld since the tab took up what it shows.
Filters compare paths with scalars, null among them, with arrays and with the
placeholders; a query resolves `$adminid` inside an array and takes null for a
missing field, and the check in hand does neither.

### History

`readHistory` over a log to which rows are still added, some at a time that has
passed. The reader asks for page after page or starts over.

### FileCache

One hook file or method file, edited, deleted and put back while calls of it
overlap. Each call is at `stat` or at `import`; the entry it read before its
awaits (`held`) may have left the cache (`live`) when it marks it as checked. The
interpreter's cache of imports is by URL, which has the mtime.

### NumericIds

`nextNumericId` and `add`. The upsert that finds no counter and the insert of
one are two steps (`FindNone`, `Create`), between which another request may
create it (`LoseRace`). Requests fail before or after the counter moved, and
clients send numbers of their own.

### The MC modules

What TLC needs beyond the specifications: documents, patches, users, contents of
files and clock skews; the symmetry of uploads and clients. Where everything at once is too much, a
variable `world` chosen at the start says which things may happen in this
behaviour. Modules that share no state are checked in one run, in which a
variable `part` says whose steps a behaviour has: `MCChangeLog` (ChangeLog,
NumericIds), `MCFiles` (FileUpload, FileDownload), `MCTableReads` (Queries,
LoadingKeys) and `MCReadAccess` (ReadAccess, History, FileCache).

### ChangeLogProofs, WritePathProofs, SyncProofs, RecordCacheProofs, BroadcasterProofs, ReadAccessProofs, FilesProofs, TableReadsProofs

The theorems; see [the proofs](#the-proofs).

## The runs

Bounds are constants of the modules. Every passing run switches deadlock
checking off, because every model may stop for a good reason: the clock, the
keys of the log, the changes or the calls are used up, and a tab, a hub or a
file server that has nothing to do stays as it is.

| run | checks | what it shows | bounds |
|---|---|---|---|
| `changelog_disjoint` | `AllTypeOK`, `ReplayMatchesDocs`, `NumbersAreFresh` | if updates of the same field, or an insert or delete and any other write of a document, neither overlap nor share a millisecond, replaying the log gives the document but for who edited it when, which the last row says, however the others interleave; numbers of new documents are issued once, and a document with one is refused only where a client chose that number | one document, two fields, two writes at once, three rows; three adds at once, numbers to three |
| `sync_windows` | `TypeOK`, `MissedOnlyIfBlind`, `ImplementsFeed`, `NeverTwice`, `RunReachesPresent`, `RunsEnd` | windows tile time over resets, forced resynchronisations, failed runs, logins with clocks a tick off, late rows, and appends that fail; all of it is a feed in the sense of ChangeFeed; nothing comes twice but what a run that failed in mid-reply had applied; windows and resets do not follow each other for ever, unless resynchronisations are forced or users log in for ever | one session, windows of one tick, cursors too old after two, clock from 3 to 5; one write at a time, in three worlds: one write of any kind whose row may be lost, two updates, or one update and logins |
| `cache_writes` | `TypeOK`, `ConvergesUnlessLapsed` | loads, cached copies, changes of every kind from this tab and others, failures and page loads; a cache that rejects; and the same with resets and logins: nine ways to diverge and no other | four changes of every kind, or three updates while caches are cleared; three attempts of a load |
| `session_lifecycle` | `TypeOK`, `QuietIsCurrent`, `AuthorizedIsKnown`, `AuthRunsEnd` | a tab at rest has every change and is signed in where it says so, over any number of connections, sign-ins and writes, unless one of three lapses happened; every sign-in ends, so another can begin | one ping on the wire |
| `table_reads` | `TypeOK`, `QueryIsCurrent`, `ReadyIsQuiet`, `ProgressEnds` | a tab at rest shows the stored count or list where it takes it for loaded, and caches no other: six lapses and no seventh; a loading key counts the tokens under way, except for three slips, and always comes back to none | three versions, two refreshes under way; eight worlds that pair the interfering events; three operations, two keys |
| `read_access` | `AllTypeOK`, `ViewIsProjection`, `ListsAgreeWithLoads`, `QueryAgreesWithCheck`, `MergedIsUnion`, `WritesStayInside`, `PagesAreComplete`, `HookNeverSilenced`, `EditsApply` | a tab that synced holds what a load would show; lists agree with loads, merged access with its sources, and queries with checks where filters have no null and no placeholder in an array; writes stay inside their fields, and, if nothing overtook them, inside their filters; histories are complete; hook files are neither skipped nor kept too long | ten setups of user, groups and hooks, documents over `p.x`, `p.y` and `q`, five patches (whole objects among them), three writes, of which the first may overlap with another; three rows and two ticks of history in pages of two; two calls of a file with three versions, one of them broken |
| `file_uploads` | `TypeOK`, `DownloadTypeOK`, `ReadyIsWhole`, `DoneIsMine`, `InterruptedIsFailed`, `NobodyWaits`, `ResolvedIsTheFile`, `DownloadsEnd` | a ready row has the bytes its hash names, success means one's own file, interrupted uploads are cleaned up, nobody waits for ever, unless its own file cannot be read or its cache refuses the row; seven lapses and no other. A download that succeeds and met no other has the whole file, and every download ends and leaves the server free, except for three hitches | two uploads, two clients, files of no, one and two chunks, two awaits that throw; three downloads on one connection after another, two losses or failed reads |
| `broadcast_waves` | `TypeOK`, `NobodyForgotten`, `ToldOnceQuiet` | cancelled waves forget nobody, and once writes stop everybody is told | three clients, two writes at once |

Two uploads are enough to share a blob, to be taken for each other and to evict
each other; with two clients they do or do not share a connection. Two failures
let failUpload fail after what it was called for. Three downloads let one come
after two that crossed, or after one whose read failed. `NobodyWaits` and
`DownloadsEnd` are stated of the moments when nothing is under way: uploads and
downloads are finite, so every behaviour comes to one, and no fairness is
needed.

One session is enough in the runs of Sync because sessions share nothing but
the log, and rows of other sessions are there as rows of `Server`; the window
of one tick and the age of two make a run of several windows, a reset, and a
reset followed by windows happen within three ticks. Four changes let a record
be inserted, changed twice and deleted around one load; caches are cleared
around updates only, as what they hold is then older or newer and nothing else
matters. Three versions of a query let one refresh be overtaken by another and
both by a write. The theorems hold without these bounds.

The setups of `read_access` have each a thing that matters to the merge or to a
decision: filters on scalars, on arrays and with both placeholders, several
groups, a group that grants nothing, all rows with some fields, some rows with
all fields, full access, and hooks that narrow, allow and deny. The numbers of
adds and retries matter only to the race for the counter, which two adds make.

Fairness, where a run needs it. In Sync: a request, its query, its reply, the
clearing of the cache and the retries after a reset happen if they can for long enough; the failure of a run,
new runs and the clock are never forced. In Session: a socket reopens
(`reconnectDelay`), the server answers what arrives on a connection that lives,
what is lost ends in `rpcTimeout`, and the wave set off by a write goes out;
nothing forces a user, an administrator or a disconnection. In Broadcaster: the
timer fires, the loop goes on after its pause, and `runWrite` reaches
`schedule()` after its `write()`; no client is forced to come or go and no write
to begin.

## The proofs

Every proof but those about the operators of Documents follows the same argument:
an invariant (`IInv`, `IdsInv`, `ReplayInv`, `CacheInv`, `QueryInv`, `KeysInv`,
`FilesInv`, ...) holds initially and is kept by every action, one named lemma or
step for each, and implies the property.

**ChangeLogProofs.** `LogReplays`: `ReplayableSpec => []ReplayMatchesDocs`, for
any documents, fields, values, sessions, writes in flight and rows. `ReplayMatchesDocs`
speaks of the moments when no write is in flight; `ReplayInv`
(in ChangeLog) says what lies between them, field by field: a field is what the
write in flight that touches it leaves, if it has written the document and not
logged it, or else what the last row that touches it leaves (`FieldsInv`); a
document is missing if such a write, or else its last row, deletes it, and edited if
it is an update (`MissingInv`). Conflicting writes are never in flight together, and a write in
flight is stamped after the rows it conflicts with (`WritesInv`), so the row it
appends is the last where it matters; every set of rows has a last one because
`log` grows by one row at a time (`RowsInv`), which spares the induction over it.
The module begins with the types of every step of the server, on which the
proofs of Sync rest too.

**WritePathProofs.** `WritePathTyped`: `WritePathSpec => []AllTypeOK`, the types
of ChangeLog and NumericIds in the specification TLC runs. `NumbersStayFresh`:
`IdsSpec => []NumbersAreFresh`, for any number of concurrent adds, any limit of
retries above none and any numbers. The strengthening says that whoever lost the
race once finds the counter (`AskingInv`), so nobody loses it twice; that a
number on its way to an insert is held by one call only and is not in the table
unless a client chose it (`InsertingInv`); and that the table holds chosen and
issued numbers only (`RecordsInv`).

**SyncProofs.** `TypeCorrect`: `Spec => []TypeOK`, for the state of the log and
of every session. `MissesAreBlind`: `Spec => []MissedOnlyIfBlind`.
`NoChangeTwice`: `Spec => NeverTwice`. They assume what the module says of its
constants: a positive window, a non-negative age, and a clock that starts
later than the age limit after the epoch, so that the cursor of a client that
never synchronised is always too old. The sets of sessions, documents, writes
and rows are arbitrary, as are window, age and client clocks.

`MissedOnlyIfBlind` alone is not inductive: it says nothing of a reply in
flight, of rows that may yet land, or of a request that will continue from a
cursor a login has since replaced. `IInv` adds that

- every time between the last drop of the data and the cursor is either blind or
  *delivered*: no row can land on it any more and the session has those it
  should (`Covered`), and the same up to the start of the request in flight;
- a reply that has been read, with what was applied of it, holds every row of its
  window since the last drop of data, except at the times it was open
  (`ReplyComplete`), and stays so, because rows can only land on those;
- drops of data and ends of windows are not in the future (`ClocksBehind`), nor is any row (`RowsPast`), so a clock that has not moved
  makes a time blind rather than lost;
- what a session holds *firmly*, that is, without the torn rows, lies at or before
  its cursor and its request in flight, or these are the epoch, from which no
  window starts; only the rows applied of the reply in hand lie beyond the cursor,
  and they precede those that are left (`CursorPastHeld`); with it a row is new or
  torn, which is `NeverTwice`.

The second half of the module is `SyncIsFeed`: `Spec => ImplementsFeed`, that is,
Sync implements ChangeFeed under the mapping above. `PromiseKept` turns `IInv`
into the feed's promise. Then one lemma for each kind of step: the
server's steps move the log (`ServerMovesLog`), reading the log excuses the times
that are open (`FindRowsReads`), applying a row delivers one that is new and no older than
all that is held firmly (`ApplyRowDelivers`, which is where `CursorPastHeld` is
needed), the end of a reply moves the cursor on (`ApplyReplyMovesOn`), a failure gives
up what was read and loosens what lies beyond the cursor (`RunFailsGivesUp`),
the ends of resets and logins begin anew (`DropsBeginAnew`), a forced
resynchronisation rewinds the cursor (`ForceResyncRewinds`), and asking and choosing
a window are seen by the feed as nothing at all (`RunStepUnseen`). `ImplementsFeed` is a safety refinement: ChangeFeed has
no fairness. That a run which ends has reached the moment it began, and that no
reply leaves a cursor in the future, is `RunsReachThePresent`:
`Spec => RunReachesPresent`. Its invariant is `RunsReach`: a run began in the
past, and the window it was given ends in the past and, if it is the last, not
before the run began. That runs end at all is liveness (`RunsEnd`).

**RecordCacheProofs.** `CacheConverges`: `Spec => []ConvergesUnlessLapsed`, and
`CacheTypes`: `Spec => []TypeOK`, for any number of changes and any number of
attempts above none. `ConvergesUnlessLapsed` speaks of a tab that has caught up;
`CacheInv` says what lies between. A value is *pending* (`Pending`) if the
document had it and each later change will still be applied to it: a change of
another session by a sync that goes on from `Front` (the last row applied of the
reply in hand, or else the cursor), a change of this tab by its reply, which is on
its way.
As long as nothing lapsed,

- the value of a loaded cell, the cached copy, and the value a load has in hand
  and will not read again are pending (`CellPending`, `CachePending`,
  `LoadPending`), and a load fills the cell that is in the table, which nobody
  else has filled meanwhile (`LoadHasTarget`);
- this tab's changes are applied, but for those whose replies are on their way
  (`OwnApplied`): a reply that comes after a later change of the tab was applied is
  the lapse `swapped`;
- what other sessions changed after one of those is either still to be applied or
  known to be applied already (`RepliesBehind`), in which case the arrival of the
  reply is the lapse `echo`.

A document read from the server is pending at once (`DocPending`); a change of the
log keeps what is pending (`PendingGrows`), since it comes after every cursor; and
after a change is applied (`ChangeApplied`) the only value the tab is left with is
that of the change, or the copy in a cache that rejected it while it is to come
again, the rest being gone or marked for another read. What a reset or a login drops
needs no argument, and what runs on across one is a lapse; a page that starts again
with its cache goes on from no later than where the cache was, or else that is the
lapse `resetCrash`. When a tab has caught up no change is left to apply, so
a pending value is the last.

**BroadcasterProofs.** `TypeCorrect` and `NobodyIsForgotten`:
`Spec => []NobodyForgotten`, for any clients and any number of concurrent
writes. The strengthening is `OnlyConnectedUntold`: only connected clients are
owed a wave, so the wave `Fire` begins, which is over the connected ones,
reaches all that are owed. The lemmas before it are about `ToSet` of appended,
concatenated and shortened sequences.

**ReadAccessProofs.** About the operators of Documents, for any set of paths and
values. `FilterThenApply`: applying a cut-down patch to a projection gives the
projection of the patched document; it is what `ViewIsProjection` rests on, and
holds of patches that set whole objects, of which only some fields are allowed, as
well. `IntersectionIsExact`: the two lists of a sync together allow what both
allow. `NarrowingNeverWidens`: the list of a read never allows more than both. The
lemmas are that the prefixes of a path are comparable and prefixes of prefixes are
prefixes.

About ReadAccess, for any setups of users, groups and hooks, any filters, patches
and documents: `QueriesAgreeWithChecks` (`QueryAgreesWithCheck`),
`ListsShowWhatLoads` (`ListsAgreeWithLoads`) and `UsersWriteWhatTheyMay`
(`WritesStayInside`, an action property). The invariant is `AccessInv`: the stored
document is one (a patch makes a document of a document whatever objects it opens
or replaces, `PatchedIsDoc`), the access is that of the setup, and every write of
the user that waits has been checked (`PassedCheck`): its paths against the fields, and
the document it read against the filters. Assumed of the constants are what the
merge and the hooks give (`MergedAccessIsTyped`, `HooksListFields`): both are folds,
of which nothing can be proved for every input. The case to get
right in `UsersWriteWhatTheyMay` is a patch that changes a path it does not name:
by setting or unsetting an object around it, or by opening an object where a value
was. Every path that changes lies within one the write names or opens
(`PatchChangesWithin`), and what is within an allowed path is allowed.

About FileCache, for any interval, length of a load, calls and edits:
`HooksStay` (`HookNeverSilenced`) and `EditsAreSeen` (`EditsApply`). `FilesInv`
says that versions are replaced in their order (`GoneInOrder`); that what the
interpreter keeps for an mtime is that version or a later one (`ImportsLater`),
hence replaced no earlier; that an entry which was looked at was replaced at most
one load before it was marked (`EntryFresh`); and that a call's mtime was current
when or after the call began, and the copy it holds is the cache's entry as long
as it marks that (`CallsFresh`). A late import of an older file is covered by the
second and the third: it began before the version was replaced.

**FilesProofs.** For any number of uploads, connections, contents and failing
awaits: `UploadsTyped` (`TypeOK`), `ReadyRowsAreWhole` (`ReadyIsWhole`),
`DoneUploadsAreMine` (`DoneIsMine`), `InterruptedUploadsFail`
(`InterruptedIsFailed`) and `NobodyIsLeftWaiting` (`NobodyWaits`). The argument is
about the *token* of an upload, the one message or call by which it goes on.

- As long as no chunk went astray (`Straight`), an upload has at most one token
  (`OneInv`), no other call of it but one of its closed connection. So nobody
  else touches its object, its temporary file, its blob and its row, and each
  stage can say what they hold: the hash and the offset are those of the chunks so
  far (`ProgressInv`), an upload that left the Map is not counted to
  (`OutInv`), a ready row is that of the upload's own file (`ReadyInv`), a stored
  upload has no temporary file (`GoneInv`).
- If besides no close cut a call (`Uncut`), the closed connection's call and the
  token never exist together (`AloneInv`); the temporary file holds the bytes the
  hash is of (`TmpFits`), a call that goes on to link or to name a blob finds it
  there (`BlobsInv`), and every ready row names a blob with its bytes (`RowsInv`).
  A blob is removed only by the upload that stored it, before any row names
  it: that is what makes sharing safe.
- If no upload was overlapped or evicted (`Apart`), what goes on is in the Map
  (`MineInv`); a row that is uploading and a temporary file are in the Map too or
  have a call that will mark and remove them (`FailedInv`, `LeftInv`), and whoever
  waits, and could read its file, has a token (`WaitInv`).

The proof found what two uploads did not show: with a third upload on the same
connection, the chunk of an *evicted* upload can be counted to a later one,
although no two overlapped. `ReadyIsWhole` and `DoneIsMine` had excepted
`overlap`; they now except `stray`, the miscounting itself, which says more.

Of downloads, in the second half of the module, for any number of them, contents,
lost connections and failing reads: `DownloadsTyped` (`DownloadTypeOK`), `ResolvedDownloadsAreWhole`
(`ResolvedIsTheFile`) and `DownloadsComeToAnEnd` (`DownloadsEnd`). A download
nothing has spoiled (`Pure`) is alone (`AloneDownload`): frames are counted to it, no
other can send any, and what others left in the queue is ignored. It is at one of
seven stages (`StageInv`): asked for, sought, read, on its way as a frame with or
without the end behind it, asking for the next chunk, ending, or refused; at each
it is known how much the tab has. A request to start is the first the server
hears of a download, and comes once (`StartInv`), and what the server remembers or
works on is pure, or one of the named hitches (`SlotInv`, `HandlerInv`).

**TableReadsProofs.** In the specification TLC runs (`TableSpec`), for any number
of versions and of refreshes under way, and any operations, keys, records and
calls: `RestingQueryIsCurrent` (`QueryIsCurrent`), `KeysReportWhatRuns`
(`ReadyIsQuiet`), `ProgressComesToAnEnd` (`ProgressEnds`) and `TableReadsTypes`
(`TypeOK`).

`QueryIsCurrent` speaks of a tab at rest; `QueryInv` says what lies between. A
value is *good* (`Good`) if every later version is still to come with a sync of
this tab, or if the run under way, or the reply of one of the tab's own writes, will
announce one (`Fresh` is the first of these: later versions are after the cursor
and not the tab's own). As long as no lapse happened, what is shown is good, or
the timer or a refresh will replace it (`ShownGood`); the answer of the last
refresh is good or the timer will ask again (`LastGood`); and the cached value on
its way is good or known to be old (`CachedGood`). A step either keeps good
values good (`StandsGood`), or tells the entry of a newer version (`TellGood`), or
clears the entry and asks again (`ClearGood`). What a window brings is what
`WindowGood` is about: a value that is good when a window is read, and is not
after its end, is older than a change the run announces. At rest nothing is left
to announce, so a good value is the newest. Three parts hold whatever lapses:
nothing in the tab is newer than the server, no reply is older than the cached
value a component waits for (`RepliesBehind`), and a page that has not shown the
query has not logged in since its cache was filled (`Cold`).

`KeysInv` says that `keyRefs` has the size of the key's Set (`Counted`), that the
Set has only tokens of operations under way and, without a slip, one of its own
for each (`Tracked`), and that a record is loaded once at a time (`LoadsHeld`).

What the proofs assume of the constants is named in the modules
(`WindowAssumption`, `SkewAssumption`, `EpochAssumption` and those of ChangeLog;
`NumericBounds`; `CacheBounds`; `PathsAreSequences`, `AbsentIsNoValue`,
`UnlimitedIsNoList`, `NoDocIsNoDocument`, `UsersAreScalars`, `FiltersComparePaths`,
`MergedFieldsAreLists`; `FileBounds`; `FilesAssumption`, `DownloadsAssumption`;
`QueryBounds`, `QueryWorlds`, `KeysAssumption`), and TLC evaluates each assumption
in a run. They say that bounds are numbers, that the markers for *nothing* are not
values, that files are sequences, that ids of users and groups are no arrays, and
that filters compare paths. `MergedFieldsAreLists` says that merging sources gives
a list of fields: merging is a fold over the sources, of which the prover can show
nothing without induction.

Only model-checked:

- Session, whose only constants are switches: its state space is finite without a
  bound, so TLC's search is already complete;
- `ViewIsProjection`, `MergedIsUnion` and `PagesAreComplete`: the rows a sync
  decides, merged sources and pages of a history are folds and selections over
  sequences, and what those compute for every input needs induction, which is
  beyond the prover;
- the types of ReadAccess, History and FileCache together (`AllTypeOK`); those of
  FileCache are part of `FilesInv`;
- liveness (`RunsEnd`, `AuthRunsEnd`, `ToldOnceQuiet`).

## Where code and documentation disagree

Four runs check what a document promises and end in a counterexample:

- `sync_gap`: a row is stamped before its write and appended after it, so a
  sync in between moves the cursor past it. `sync-protocol.md` promises that no
  change is missed across consecutive syncs.
- `changelog_race`: two updates of one field can reach the document in one
  order and the log in the other. `getting-started.md` promises that replaying
  the log reconstructs any document.
- `cache_echo`: a tab applies its own change from its reply and then an older
  one of another session from sync, and stays with the older. `sync-protocol.md`
  says that every tab is in sync.
- `session_saved`: a timeout during `authByHash`, or a failed sync after it,
  deletes saved credentials that are still valid. `authentication.md` says they
  are cleared on logout and on a rejected hash.

The other lapses the models name, each found as a counterexample before it
got its name (dropping it from the ghost brings the counterexample back):

- `lostReply`: a write succeeded and its reply was lost; sync never returns
  the change to the session that made it, so its cached copy stays old.
- `swapped`: the replies of two writes of one tab are applied in the other order
  than the server made them, and the older value stays: nothing serialises a tab's
  writes (`table.js:182-224`).
- `cacheFailed`: the cache rejects the record of an own write; memory has the
  change, and the next page load shows the old copy (`index.js:156`).
- `deleteRace`: a delete or an insert, unlike an update, does not mark a record
  that is loading; the load's older answer wins.
- `resetRace`, `loginRace`: a load, a reply or a run of `syncNow` from before a
  reset or a login is used after it.
- `resetCrash`: the new cursor is stored before the cache is cleared; a page
  that dies in between, or after `cache.clear()` failed, keeps the old records for
  good.
- `attempts`: three reads of a record, each overtaken by a change, and the last
  is taken though it is known to be stale.
- `coalesced`: a ping that arrives while the answer of a run is read or applied
  joins that run, whose window is older than the change the ping announces.
  The change comes with the next write, or the next connection.
- `syncFailed`: nobody retries a sync.
- `loginOutlived`: `login` sets `authorized` after its awaits, when its
  connection may be gone or its user logged out.
- `cut`: a connection that closes while a chunk is being written or an upload
  finished. `failUpload` removes the temporary file and marks the row failed,
  and the handler goes on: `storage.finish` makes an empty file, and the row is
  `ready` with size 0 and the hash of bytes that are gone; or the next chunk
  leaves a temporary file behind. `CHANGELOG.md` says an interrupted upload is
  marked failed and its temporary file removed.
- `overlap`: two uploads of one tab both pass the check "Upload already active",
  which is two or three awaits before the Map is set. The second takes the
  place of the first, whose chunks then go into the second: without a hash from
  the client the second may succeed with the wrong bytes, and the first never
  ends. `CHANGELOG.md` says that a socket has one active upload.
- `late`: the connection closes during `startUpload`, whose row stays
  `uploading`.
- `evicted`: an upload whose row cannot be read back fails after it left the
  Map, and removes the entry of the client's next upload. A chunk of that one is
  then ignored, or counted to the upload after it.
- `stray`: a chunk is counted to an upload that did not send it, after `overlap`
  or `evicted`.
- `swallowed`: `failUpload` fails; its errors are ignored.
- `unlogged`: `api.add` writes the row of a new upload and then throws, because
  the log or a hook afterWrite does. The upload never enters the Map, so nothing
  fails it, and its row stays `uploading`.
- Not lapses of the server, but promises nobody settles (`held`): the tab's
  handler of `upload_done` takes the upload out of its Map before it awaits
  `applyChange`, so when the cache refuses the row `upload()` is never resolved;
  and when `arrayBuffer()` rejects, `sendUploadChunk` tells neither the server
  nor the caller.

Of queries (`lapses` of Queries):

- `overtaken`: of two refreshes the one begun first answers last, and its older
  value stays; nothing compares them (`table.js:124`).
- `lateCache`: the cached value is read late and replaces what a refresh brought,
  or marks the entry as loaded with a value older than what it was told of
  (`table.js:402`).
- `openedLate`: a query that is opened with a cached value is not asked for, and
  the changes since were announced before it was open (or were the tab's own); the
  old value shows until the next change of the table.
- `abandonedRun`: a run fails after earlier windows moved the cursor, and what
  they brought is never announced (`index.js:125`).
- `lostReply`: as above; the query is not told of the tab's own write.
- `unannounced`: the cache refuses the record that the tab's own write changed;
  `applyChange` rejects before it announces the change (`index.js:156`).

Of loading keys (`slips` of LoadingKeys): `shared`, two equal operations under one
key have one token, and the first to end reports for both; `again`, a record that
is asked for again while it is loading is reported as loaded (`table.js:34`);
`reset`, the key is reset while operations are under way.

Of downloads (`hitches` of FileDownload): `crossed`, two downloads of a tab
overlap, and frames count to the one begun last, which may succeed with the
other's bytes; `closed`, the promise of a download whose connection is lost is
never settled; `unread`, a file that cannot be read fails its download and stays
in the server's Map, so that later downloads of the connection are refused with
"Download already active".

More that the models contain and no property excludes: writes that keep coming
can keep a client from being told for ever (each cancels the wave under way); a
forced resynchronisation during a run is undone when that run stores its cursor;
a change of a document that has left the user's filter is withheld, and the tab
keeps what it had (`stale` of ReadAccess); a hook's list of fields means more for
a sync than for a load, which refuses an object of which the access allows only
some fields (`narrowFields` against `intersectFields`), so that
`ViewIsProjection` compares the two only where their lists are equal; a comment
in `hooks-dir.js:107` says a hook file deleted after the start is simply not
called any more, while the code keeps calling the last one, as
`HookNeverSilenced` says; a write goes to the document there is when it arrives, so
that another write which came after the check can have taken the document out of
the user's filter, or brought it to be where there was none (`WritesStayInside`
promises the filter only of writes that nothing overtook, and the fields of all);
a filter with `$adminid` inside an array, or with null, selects rows the check of
the document refuses (`Plain` of `QueryAgreesWithCheck`); and an upload that fails after
`storage.finish` leaves its blob with no row that names it.

## What is left out

- Inside the modelled parts: nested field paths in ChangeLog (they are in
  Documents), the values of its bookkeeping fields, of which the model has that
  `info.editid` and `info.editdata` are in a document; the filter on the rows in Sync (it is in ReadAccess); several tabs
  on one cache (RecordCache, Queries) and several cursors in one `metaStorage`;
  `clearLocalDB`; `safetySyncInterval`, off by default; `autoAuth` and
  `syncOnAuth` switched off; rate limits and password checks, which are the
  server's choice of answer in Session; `excludeSessionId` and external adapters
  of the hub.
- In ReadAccess: filters with Mongo operators or on `_id`, `$groupid` inside an
  array (a `$in` in a `$in`, which Mongo refuses), hooks that replace `ctx.filter`,
  hooks before a write (they only make the time between check and write longer, or
  let more through), access that changes while the user is signed in, and the
  bookkeeping fields the server writes itself. In FileCache: how names of tables
  and methods become files. In History: the references a hook adds are fixed
  (`Sources`).
- In FileUpload: the refusal of a start is possible at any time, whatever its
  reason; `dedupe: false`, custom storage adapters, and chunks that wait for
  another connection are left out. In FileDownload: which users a policy refuses,
  and the progress callbacks.
- `listRef`, which combines an id query with loads.
- Not to be modelled: what application code does in hooks and methods, the change
  hooks of the client (callbacks without state), string helpers, and the demo
  applications.

## The plan

Done: all parts of the packages that keep state, with the abstract feed that
synchronisation implements, and the proofs of every safety property but those
listed as only model-checked. Next, in this order:

1. Two tabs of one browser over one store: one cursor in `metaStorage`, one
   cache.
2. Session's wake-ups as an abstraction of Broadcaster (refinement), and the
   invariant behind `AuthorizedIsKnown` and `QuietIsCurrent`.
3. Tabs that reconnect during an upload.
