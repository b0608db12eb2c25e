# TLA+ specifications of GoSQLPage

GoSQLPage serves web pages written in SQL (v1: `cmd/gopage`, `pkg/`) and, since
v2.1 (`v2/`), content made of blocks that users and bots edit in isolated
sessions. A session is a SQLite file of its own; a single merger daemon takes
the submitted files from a queue of directories and applies their changes to
`content.db`. This directory models the concurrent and persistent parts of that
system, checks the models with TLC and proves theorems about them with TLAPS.

Check a module with `tlc -config MCx.cfg M.tla` and the proofs of a component
with `tlapm MProofs.tla` (SessionQueueProofs, ContentMergeProofs, PagesProofs,
EventHubProofs, PageCacheProofs, BotWorkerProofs, TenantsProofs, BackupsProofs).

## 1. Inventory

One process runs an HTTP server and four daemons (merger, collector, backups,
bot worker). They share files: `content.db`, `audit.db`, the session files in
`sessions/` and `queue/{pending,processing,done,failed}/`, the backup and the
cache directories. In memory each component has a map or a flag behind a mutex.

| component (source) | state | operations | what is hard | what makes it correct |
|---|---|---|---|---|
| session manager (`v2/pkg/session`) | map of sessions; one file per session: status, rows, journal `_changes`, snapshot hashes | GetOrCreate, CopyBlock, UpdateBlock, InsertBlock, DeleteBlock, Submit, Abandon, load at start | status checked before the lock is gone; two SQL statements without transaction; the file moves away under a call | what the session shows is what its journal says; an active session has its file |
| merger (`v2/pkg/merger`) | the queue directories; one session in progress | poll, claim, validate, replay in a transaction, bookkeeping, rename, recovery | crashes between commit, bookkeeping and rename; failed renames; stale snapshots | all or nothing, exactly once; no lost update; parents exist; every queued file is served |
| collector (`v2/pkg/gc`) | none of its own | removes inactive, merged and failed files; old audit rows; VACUUM | reads a status, removes a path later | never removes what is being merged |
| conflict resolver (`v2/pkg/conflicts`) | the file of a refused session | keep session, keep content, merge, recreate, new parent, make root, discard | several statements per choice, none of which asks whether the choice fits; `content.db` changes between its reads and writes | resolved sessions merge without losing texts; discarded is discarded |
| event hub (`pkg/sse`, `pkg/funcs/sse.go`) | tables of clients and channels, bounded channels | register, subscribe, unregister, publish, broadcast | goroutines and channels; slow readers; close against send | order; no send on a closed channel; publishers go on; nothing left behind |
| page cache (`v2/pkg/cache`) | entries, total size, block-to-pages map, files | Get, Set, Delete, InvalidateBlock(s), Clear, start | file I/O outside the lock, failed writes and removals, restart from files | exact and bounded size; invalidation finds every page; no revival |
| bot worker (`v2/pkg/bot`) | status attribute of each request | poll, process, answer in a session, mark outcome | pages change the request meanwhile; crash between answer and status | answered at most as often as asked; completed is answered |
| tenants (`v2/pkg/tenant`) | table, map, directory per tenant | Create, Suspend, Activate, Delete, route a request | three states changed one after the other; loads that miss tenants silently; requests without the lock | map and table agree; live data stay; a name leads to one tenant's data |
| backups (`v2/pkg/backup`) | files named by second and database | cycle of the scheduler or a request, cleanup, Restore | overlapping cycles, failures, a signal that ends only the scheduler's, a cleanup under a restore | undisturbed sets are complete; retention; the newest stay; a restore fails or is whole |
| HTTP API, process (`v2/pkg/api`, `v2/cmd`) | none | handlers call the above; start and shutdown | any interleaving of requests; end in the middle of anything | by the components |
| blocks (`v2/pkg/blocks`) | none | hash, fractional positions, ids | edge cases of strings | a position between two others lies between them |
| audit, users, metrics (`v2/pkg/...`) | rows, counters | append, look up, observe | histogram arithmetic | counts add up |
| SQL pages: server of v1 (`pkg/server`, `cmd/gopage`), page handler of v2 (`v2/cmd`), engine and database (`pkg/engine`, `pkg/db`) | one writer behind a mutex, a pool of readers, the transaction of a POST | take a connection, begin, query by query, commit or roll back, render, release; Close | functions that panic or call the same server inside a statement; failed queries; clients that leave; Close beside requests | a POST is all or nothing (v1); a panic hurts one other request at most; every request ends and Close returns |
| SQL functions (`pkg/funcs`), rendering (`pkg/render`) | none | pure functions; HTTP and model calls; events | what they do while the connection is held | by the pages |
| SQL pages, templates, configuration, schemas (`sql/`, `internal/templates`, `v2/config`, `v2/data`) | data | | | |

`PROJECT.json` lists the same components with what is left out of each, and the
hazards with their lines.

Interactions. The manager only writes files in `sessions/`; the merger only sees
`queue/`; nothing in the repository moves a submitted file from one to the other
(run MCNeverQueued). The collector removes files under both. The bot worker is a
client of the manager. The SQL pages of v2 have a connection of
their own to `content.db`, beside the merger's. The merger neither invalidates
the page cache nor publishes events, and nothing calls the resolver, Restore or
the fractional positions yet.

## 2. Modules

    AtomicMerge  <--implemented by--  SessionQueue  <--extended by--  SessionQueueProofs
                                      (path of a session's file)
    ContentMerge  <--extended by--  ConflictResolution
    (what a merge does to the blocks)  <--extended by--  ContentMergeProofs
    BotWorker  <--extended by--  BotWorkerProofs
    Pages      <--extended by--  PagesProofs
    EventHub   <--extended by--  EventHubProofs
    PageCache  <--extended by--  PageCacheProofs
    Tenants    <--extended by--  TenantsProofs
    Backups    <--extended by--  BackupsProofs

* **AtomicMerge** – the abstract queue: a session is open, queued, and then
  applied as a whole or refused or gone.
* **SessionQueue** – manager, merger, collector and process around the session
  files. `file` is the directory a file is in, `meta` its status, `known` the
  manager's map, `calls` the calls that stand between two steps (a status check
  and the statement it guards, file and map), `phase` the merger's place in
  `processSession`. A change row is a number; `content` counts how often it was
  applied. Each rename and each statement after the commit is an action that may
  fail. `Crash` loses map, calls and place; `Restart` is `loadExistingSessions`
  and `recoverProcessing`.
* **ContentMerge** – what those rows say: copies with snapshot hashes, edits in
  two statements each (`calls`), the check of hashes and parents (`Accept`,
  `Refuse`), the replay of the journal on a draft (`tx`), commit, rollback and
  crash. A block has a text (what the hash covers), a layout (`place` for
  position and HTML, and whether it is published: what it does not), a parent
  and a deletion mark. A copy is read and then scanned; `ScanFails` and the
  constant `TypedTimes` say what that needs (section 3).
* **ConflictResolution** – extends ContentMerge by the resolver on a refused
  session: each choice statement by statement, then back into the queue. As in
  the code any choice may be made for any block, in a conflict or not; what
  DetectConflicts shows beforehand bounds nothing. One resolution at a time.
* **Pages** – requests for SQL pages through the connections of `pkg/db`.
  `server` chooses the handler: v1's `handlePage` with its transaction or v2's
  `SQLPageHandler` without; the rest of their control is the same. `req[r]` says
  where request r is (waiting for a connection, at BEGIN, at block `step`, in a
  call, rendering), `holder` and `readers` are `writerMu` and the pool, `inTx`
  and `draft` the writer's transaction, `db` what is committed. A statement
  reads, writes, or calls: `http_get` and its kin ask the same server for
  another page (`Call`) and wait for `Answer` or the client's `TimeOut` of 30 s
  while the connection is held. BEGIN may fail in its step,
  with a rollback (`BeginFails`), or before it, without one (`BeginUnprepared`).
  `Panic` is a SQL function that panics (such as
  `str_truncate` with a negative length): the panic handler answers, the
  deferred release gives the writer back, and nobody rolls back. `Close` is
  `db.Close`, first the writer and then the readers.
* **EventHub** – `run`, the handler of each connection, publishers, and the
  global hub. `hub` is what `run` has received and not yet acted on: the handler
  on the other side of the unbuffered channel goes on meanwhile.
* **PageCache** – entries, sizes, mappings and files; `writer` is the Set that
  holds the mutex while it writes the file, `readers` the Gets that hold none.
* **BotWorker** – the poll, one request at a time and its statements; pages ask,
  withdraw and delete at any time.
* **Tenants** – row, map entry and directory of each tenant; `holder` is the
  operation that holds the manager's lock, between two of its steps. `Load` is
  `loadTenants`, which passes over what it cannot read: it lists any part of the
  live rows at the price of a fault, and `unloaded` remembers the others.
* **Backups** – cycles as sequences of file operations, the clock in seconds
  (the precision of the file names), and Restore, file by file, beside them.
  `Cancel` is the signal, which only the scheduler's cycle sees (`LeaveEarly`;
  VACUUM INTO fails under it, `FailVacuum`): the cycles of requests run under
  `context.Background()` until the process ends (`Crash`).

The map in `PROJECT.json` gives the lines each definition stands for. Some
definitions beside the ones of the specification, with names such as
`RestartRequeues` or `CommitDespiteConflict`, are plausible mistakes: each
property was seen to fail when one of them takes the place of the action below
it. No specification uses them.

## 3. Runs

| run | instance | what it shows |
|---|---|---|
| MCPages | 3 requests, for 3 pages (POST write, call, write; POST of two statements in a block, write; GET call, write), 1 reader, 1 fault, 1 panic | v1 all or nothing, v2 a prefix; a panic costs one request at most; the server comes to rest |
| MCSessionQueue | 2 sessions of one user, 2 calls in flight, 1 change row each, 1 crash, 1 fault | exactly once, all or nothing, status, directory and audit agree with it; refinement of AtomicMerge; queued files are served |
| MCContentMerge | 2 sessions, a root block and one to add, 2 texts, 2 layouts, 4 calls, one of them cut short, `TypedTimes` | the second editor of a text is refused; merges are all or nothing and as the session shows; deleted blocks stay deleted |
| MCConflictResolution | 2 sessions, a root and 2 ids to add, 2 texts, 4 calls, 2 choices, `TypedTimes` | the same after a resolution; parents exist; discarded is not merged |
| MCEventHub | 2 connections, 2 channels and `*`, buffers of one, 3 events | no send on a closed channel, order, publishers go on, connections are forgotten |
| MCPageCache | 2 pages, 2 blocks, sizes 1 to 3 with limit 2, 3 Sets, 1 fault, 1 restart | size exact and bounded, files and entries agree, mappings complete, no revival |
| MCBotWorker | 2 requests, one malformed, 3 asks each, 2 faults, 1 crash | rights to answers, completed means answered, who is left in processing, progress |
| MCTenants | 3 tenants, one the default, 2 names, 1 request, 1 fault or incomplete load, 1 restart | map is table, live data stay, a name leads to one tenant, each but for tenants the last load has missed |
| MCBackups | 2 databases, the scheduler's cycle, a request's and 1 restore at a time, 3 seconds, limit 1, 1 fault, signal or crash | completeness, retention, newest stay, a restore fails or is whole |

Three runs show a disagreement of the code with its own documentation; TLC finds
a behaviour that violates the documented property.

| run | documented | what the code does |
|---|---|---|
| MCNeverQueued | a submitted session goes to `queue/pending/` (`v2/README.md:171`) | Submit leaves it in `sessions/` (`manager.go:562`) |
| MCFailedLoad | Create looks for a duplicate: "tenant already exists" (`tenant.go:128`) | after a load that has missed a tenant (`tenant.go:92`, `:103`) it finds none; INSERT fails at the primary key and RemoveAll takes the tenant's directory (`tenant.go:151`) |
| MCLostSubscription | "Subscribe adds a client to a channel" (`hub.go:109`) | a handler may subscribe before `run` has stored it, and Subscribe returns silently (`hub.go:203`) |

**Times.** `schema_content.sql` declares `created_at` and `updated_at` of blocks
as TEXT, for which the driver returns strings, and `CopyBlock` scans them into
`time.Time` (`manager.go:350`), as does `replaceWithContentVersion`
(`resolver.go:400`). `database/sql` refuses that, so that with this schema no
existing block gets into a session. In the models that is `TypedTimes = FALSE`:
`CopyRow` and `ReadBlock` cannot be taken, `ScanFails` ends every copy, and
sessions only have the blocks they insert. MCContentMerge and
MCConflictResolution take TRUE, the program with columns the driver turns into
times, in which a scan may still fail: only then do copies, hashes and conflicts
matter. The behaviours with FALSE are among them, so that the safety properties
hold of both, and the proofs are for either value.

Other disagreements the models follow, without a run of their own:

* `v2/README.md:194` has the merger take up `queue/processing/` again at startup
  ("Merger reprend queue/processing/"), but recoverProcessing moves its files to
  `queue/failed/` (`merger.go:125`): `Restart` of SessionQueue does what the code
  does, and `ExactlyOnce` depends on it (see section 4).
* A block "deleted in content.db" is a conflict for `types.go:98` and
  `merger.go:338`; but deletions are soft, so that its row is found with the old
  hash and an update of it is merged into the deleted block. `ContentConflicts`
  does what the code does; `BlocksStay` says that the block stays deleted.
* The first GetHub replaces the hub that SetGlobalHub has set (`hub.go:266`),
  against its comment (`hub.go:273`): the events of SQL functions reach nobody.
  `Notify` of EventHub does what the code does.
* `PrepareTransient` compiles the first statement of a block and Execute drops
  the rest (`executor.go:50`): `Runs` of Pages. Blocks of several statements are
  in the repository's own pages, among them `sql/forum/api/new-topic.sql`.
* `v2/README.md:14` calls the merger the only writer of `content.db`, but every
  POST of a SQL page of v2 writes through `sqlPageDB` (`main.go:273`), also
  between the merger's check and its transaction.
* Between of `fractional.go` is not between for neighbours of different length:
  midpoint("mm", "n") is "mm". Expose of `metrics.go` adds up bucket counts that
  Observe has added up already. Neither is modelled.

What the properties except, because the code does it:

* MergedAsShown: a block that a session deletes and then copies again is alive in
  the session and deleted by its merge, since the copy leaves the journal alone.
  Of a row whose call was cut short or overlapped (`InDoubt`) it only says that
  no value but the session's gets in. ParentsExist excepts parents in doubt, and
  nothing excludes a cycle of new blocks.
* DiscardHolds is about discards that ended.
* Tenants: everything is said of tenants the last load has read (`Known`). The
  name of one it has missed leads to the default tenant, or to none; and its
  directory goes with the next attempt to create it (MCFailedLoad).
* RetentionHolds excepts a stopping process: a request may have listed what it
  removes before the scheduler begins its set, which a signal then cuts short;
  MaxBackups + 1 sets are left until the next cycle. NewestStay counts incomplete
  sets like whole ones, and SetsAreComplete leaves out sets of a shared second.
* MappingCovers is about the blocks Set was told of; after a restart the cache
  has forgotten them (`cache.go:88`) and InvalidateBlock misses those pages.
* Served of BotWorker has `MaxAsks`: whoever asks an older request again for ever
  keeps the poll from newer ones. ActiveHasFile leaves a submission under way
  alone.

Why the bounds suffice. Conflicts are between two sessions, and a lost update
needs a copy and an edit of each: four calls. In MCSessionQueue two calls in
flight are enough for every pair of handlers to overlap; a third would only add
another pair. One
crash can come at every point, also in the middle of bookkeeping that has
already failed once; a second crash starts from a state of the first, and the
proofs cover any number. Buffers of one are full after one event. Three Sets on
two keys replace, evict and store again. Three seconds exceed the retention of
one; a restore begins before anything has failed (`Calm`), since afterwards few
sets are whole. Three requests are a page that holds a connection, one that it
asks for, and one that finds what they leave behind, a transaction left open by
a panic, say; with one reader every GET that calls may find the pool empty.

Three runs have further bounds, named `Small` in the MC modules. In
MCContentMerge a session is kept to three rows and changes in all and at most
one call is cut short. In MCConflictResolution it has one row and one change and
no such call, nothing is published, and once a choice was made no session is
open; it has a third block in return: a parent that nobody has added is what
`ParentsExist` is about. In MCBackups one thing goes wrong in all, and a restore
is one of a complete set, not followed across a signal. Calls on session files are made one
after the other: calls of different sessions touch different files and overlap
only through merges, which come between any two statements; calls of one session
on one block that overlap leave the block in doubt. The proofs need none of
these bounds.

Stopping is not an error in these systems, since users and clients owe nothing
and counters are bounded, so deadlock is not checked.

Symmetry is used where the elements are only compared (ContentMerge,
ConflictResolution, PageCache, all without liveness).

### Fairness

* SessionQueue: weak fairness of the merger's steps together, because
  `Merger.Start` polls at every tick and works through what it has read without
  waiting for anybody; and of Restart, the operator starting the process again.
  No user, no collector, nobody who moves files is fair.
* EventHub: weak fairness of `run`, which never stops, and of the handler's
  statements that do not wait; strong fairness of `Register` and `Unregister`,
  which wait in `run`'s `select`: Go picks among the ready cases at random.
  Clients need not read, come or go.
* Pages: weak fairness of all handlers together and of Close. A handler never
  waits for a user: it waits for a connection, which another handler holds, or
  for a call, which `httpClient` ends after 30 seconds. It may hold its
  connection while the client reads the page, so a client is assumed to read or
  to break off (no write timeout is set). Requests are finitely many and each
  takes finitely many steps, so that fairness of all together is fairness of
  each. Nobody need ask, leave or stop the process.
* BotWorker: weak fairness of the worker's steps, as `Start` polls at every tick
  and the model answers or its context ends.

The other specifications are safety only.

## 4. Proofs

**SessionQueueProofs** proves, for any sets of sessions and users and any values
of the bounds, from `SessionAssumption` alone: the types (`TypeCorrect`),
`AppliedExactlyOnce`, `DoneSessionsAreApplied`, `StatusIsTruthful`,
`AuditIsBacked`, `ActiveSessionsHaveFiles`, and that the queue implements
AtomicMerge (`QueueIsAtomic`).

`ExactlyOnce` is not inductive: nothing in it says that the session the merger
is about to commit was not committed before. The inductive invariant `QueueInv`
adds `MergerInv` (the phase of the merger says where the file of its session is
and whether it is applied), `FileInv` (the directory of a file says whether the
session is applied: only files in processing, done, failed or removed may be,
and those in done must be) and `UntouchedInv` (a session that is not applied has
no marked change and no audit row). The argument: a commit happens only in phase
"claimed", whose file was in pending, so the session was not applied; afterwards
the file never returns to a directory the merger claims from. That is why
recovery must move files to failed/ and not back to pending/. `ActiveHasFile`
has an invariant of its own (`MemoryInv`): whoever may yet write the map holds a
call. The refinement maps `file` and `applied` to the fate of a session; each
step is a step of AtomicMerge or a stutter, under `QueueInv`.

**BotWorkerProofs** proves `WorkerTypes`, `AnsweredOnce`, `CompletedHasAnswer` and
`StuckOnlyByFault`, for any requests and bounds, from `BotAssumption`. The
inductive invariant `BotInv` counts rights: a request that is pending or in the
batch has been asked more often than answered; if it is pending again while
it is worked on, by two.

**PagesProofs** proves the types (`PageTypes`), `PagesAllOrNothing` and
`PanicsCostOne` of Pages, for any requests, pages, number of readers and bounds,
from `PagesAssumption`. `AllOrNothing` speaks of the database alone and is not
inductive: a COMMIT adds the draft, whatever it holds. The inductive invariant
`PagesInv` says where every write is. `Holder`: the writer is lent to exactly
the POSTs between TakeWriter and their answer, so there is one at most.
`Transaction`: while a POST of v1 runs its blocks, the draft is what the blocks
before its `step` have written, nobody else's writes among it; outside its
blocks its transaction is over. `Database`: nothing of a page is committed
before its COMMIT (v1), everything up to `step` is (v2). The case that matters
is a panic: the draft stays and the writer is free. Nobody can add to that draft
or commit it, since BEGIN comes first and fails, and rolls back. `Victims`
counts that: a transaction that is open while no POST runs (`LeftOpen`) stands
for a panic whose victim has not come yet.

**ContentMergeProofs** is about ContentMerge and ConflictResolution, for any
sessions, blocks, texts, layouts and numbers of calls and choices (no bound
`Small`, calls of one session overlapping as they like), from
`ContentAssumption` and `ChoiceAssumption`. It proves `MergeTypes`,
`TextIsNotLost`, `NoBlockGoes` and `MergeShowsAll` of the merge, and `NoOrphans`,
`DiscardedStaysOut` and `ResolvedTextIsNotLost` of the merge with the resolver.
`NoLostText` compares a commit with what the session copied long before, so the
inductive invariant `MergeInv` follows that copy: `Known` says that each row has
an entry in `_structural_deps` with the hash of the text it began with, or is an
insertion of the journal, unless calls that overlapped or were cut short have
left it in doubt (`torn`); `Merging` says that while a transaction is open, what
Accept has checked still holds (`Checked`: nobody else changes `content`), that
the draft differs from `content` only as the session's rows and deletions allow
(`Redrawn`, `Added`), and that the entries already replayed are in it
(`Replayed`). `MergedAsShown` needs in addition that rows and journal agree and
that a copied row has the parent its block has in `content.db` (`Shown`); the
resolver breaks that, since it changes rows without a journal entry, which is
why that theorem is about `Spec` and the others hold of `RSpec` too. What the
resolver's steps leave intact, statement by statement, is `RInv`; what it
discards is the recursive function `Without` over the journal, about which the
proofs need that such a function exists and what it keeps: both by counting up
its length (`Counting`).

**EventHubProofs** proves `HubConsistent` and `EventsInOrder`, for any clients,
channels and sizes of buffers, from `HubAssumption`. The two hazards are a send
on a closed channel and an event that overtakes another. `Tables` says that
whoever is in a table has its channel open and a handler that has not gone, also
while `run` holds a registration it has received and not stored: that is why a
close never meets a send. `Order` says that whatever is still on its way, in
`broadcast` or in `run`'s hand, is newer than whatever a connection has in its
buffer or has seen; an event skipped for a full buffer does not come later.

**PageCacheProofs** proves `CacheTypes`, `CacheIsAccounted`, `LimitIsKept`,
`EveryBlockIsListed` and `RemovedStaysRemoved`, for any keys, blocks, sizes,
limits and numbers of Sets, faults and restarts, from `CacheAssumption`. No set
of keys is assumed finite: that the tables are is part of the invariant. `size`
is a sum, which the community module takes in an order CHOOSE picks; the lemmas
`AddsValue` to `SizeSame` prove that the order does not matter and what an entry
more or less does to the sum. `CacheInv` joins what the map, the total, the
mappings and the directory say of one another: `Owned` and `Numbered` (a page is
stored under one key, pages are numbered as they are stored), `Fresh` and
`Opened` (the Set that holds the mutex while it writes has a page that is nowhere
else, and room for it), `OnDisk` and `Gone` (directory and map agree except for
that file, and neither has what was removed). `NoRevival` speaks of entries
alone and is not inductive: a restart makes entries of whatever is in the
directory, so that it takes `Gone` for the files as well.

**TenantsProofs** proves `MapFollowsTable`, `NameLeadsToOne` and `LiveDataStays`,
for any tenants, names, requests, failures and crashes, from `TenantAssumption`.
No load is assumed to succeed: the theorems speak of `Known`, the live rows
without those the last load has missed, and say nothing of the others.
`Consistent` speaks of the moments when the lock is free; `Locked` says what the
map lacks at each step of each operation while it is held, so that unlocking and
a restart restore it. `NameIsOneTenant` is about the past; it follows from
`NamesDiffer` and `Routed`: rows never go away and keep their names, and a name
that was served is the name of a row still.

**BackupsProofs** proves `SetsAreWhole`, `RestoredSetIsWhole`, `NewestSetsStay`
and `RetentionIsKept`, for any databases and cycles, limits and clocks, from
`BackupAssumption`. `NewestStay` is about the moment a file is removed, but the
cleanup has chosen it earlier: `Listed` says that what was chosen stays `Doomed`,
since sets that are newer can only be removed by a cleanup that counted enough
newer ones still (the lemmas on `Newer` count them). `Made` says for each set
that it is being made, or complete and untouched, or on one cycle's list as a
whole (`Settled`). That a set may be cleaned up by a second cycle while the first
is still making it, and is then removed as a whole by the first, is the case that
made `Settled` what it is. `Restoring` and `Cleaning` are the same for a copy
under way and for the last cleanups; `Cleaning`, and with it `RetentionHolds`,
ends where a signal comes.

**BotWorkerProofs** proves the types as well (`WorkerTypes`).

Each inductive invariant was checked with TLC on an instance of its module
before it was proved. The assumptions are those of the modules; they only say
what kind of value a constant is, that buffers, limits and pools are not empty,
and that the clock of Backups has a first second (`MaxClock`).

TLAPS has no backend here for liveness and ENABLED: `Served` of SessionQueue and
of BotWorker, `Progress`, `PublishersGoOn` and `Forgotten` are checked by TLC
only. Every other property of a passing run is a theorem. The three runs that
show a disagreement are counterexamples and need no proof.

## 5. What is abstracted

* Contents, names, HTML and positions are members of small sets; the hash of a
  text is the text.
* What a page writes is who wrote it: block k of request r. Parameters, rows,
  components and HTML are left out. SQL functions are the three things they can
  do to a request: return, call a server, panic.
* Ids are distinct: EventHub takes the time in nanoseconds that `ServeHTTP` makes
  a client's id of (`hub.go:194`) as unique.
* A panic while a page is rendered, after its COMMIT, is not in Pages: it changes
  neither the database nor the transaction.
* GetOrCreate may give a user two active sessions (`manager.go:304`), which
  SessionQueue allows; an event of a POST that is rolled back stays published
  (`pkg/funcs/sse.go:20`). The code promises nothing about either.
* SQLite: a statement or a transaction is atomic and durable; a panic inside a
  statement may or may not keep what it wrote; a write through a
  name whose file was moved fails (the journal mode of session files is the
  default one). SessionQueue's `Enqueue` is external: the move nobody makes.
* Time: inactivity, retention of sessions and expiry of pages may be found at
  any moment; only Backups has a clock.
* References and attributes of blocks: no operation of the manager journals them.
* Reads without effect: lists, diffs, statistics, health.
* Daemons are started once, as `main` does; Start after Stop is not modelled.

## 6. Plan

Done: the queue with its refinement, content and conflicts, hub, cache, bot,
tenants, backups with Restore, SQL pages of both servers; proofs of the safety
properties of all of them.

Next, in this order:

1. A composition of SessionQueue and ContentMerge: every behaviour of the
   detailed merge of rows as one of the queue, first with TLC, then step by step
   with TLAPS.
2. An abstract cache and an abstract hub that PageCache and EventHub implement.
3. The merger beside SQL pages that write to `content.db`; a journal whose
   reading ends early.
4. Fractional positions and ids as functions, checked against "lies between"
   over short strings; histograms of the metrics.
5. Daemon life cycle (Start, Stop, shutdown while a merge runs), audit
   retention.
