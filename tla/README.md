# A TLA+ model of Walens

Walens is one Go process beside one SQLite database: it collects wallpapers from
booru and reddit sources on cron schedules and lays them out, as files, in a
directory per device.  This directory holds TLA+ modules of the parts where steps
of several actors meet (queue, boot and shutdown, job rows, scheduler,
materializer, the fetch loops of the sources, tags and thumbnails, the requests and
listings of the services), the TLC configurations that check them on small instances, and
TLAPS proofs, for every value of the constants, of all the safety properties that
hold of them.

Source paths below are relative to `src/`; `internal/` is left off where it is clear.

## 1. Inventory

### Components, their state and their operations

| component | state | operations | how it interacts |
|---|---|---|---|
| queue (`internal/queue`) | `jobs`, `closed`, the unbuffered channel `ch`, a mutex | Enqueue, DequeueBlocks, Dequeue, Drain, Close, Size | cron goroutines enqueue, the worker dequeues, the main goroutine closes |
| application (`internal/app`) | queue, scheduler, runner, signal context | New, Start (recovery pass, wiring, HTTP server), waitForShutdown | creates and ends everything else; calls the jobs service at boot |
| jobs service (`internal/services/jobs`) | rows of `jobs` | CreateJob, PrecheckAndStartJob, StartJob, CompleteJob, FailJob, CancelJob, UpdateJobState, recovery statements, counters, listings | called by cron (create), worker (everything else), boot (recovery) |
| runner (`internal/runner/runner.go`) | one worker goroutine, its context | Start, run, ProcessJob, processSourceSyncJob, Stop | takes ids from the queue, reads and writes job rows, calls the materializer |
| materializer (`internal/runner/materialize.go`) | locals of one job | rules 1-4 per item and device | reads a source, writes rows of the images service and files of storage |
| images service (`internal/services/images`) | `images`, `image_assignments`, `image_locations`, `image_thumbnails`, `image_blacklists` | GetOrCreateImage, Ensure..., BlacklistImage, DeleteImage, SetImageFavorite, listings | called by the worker and by HTTP requests at once |
| storage (`internal/storage`) | the directory tree | DownloadToTemp, MoveToCanonical, CreateHardLink, CopyFile, thumbnails | called by the worker |
| scheduler (`internal/scheduler`) | cron entries, `schedules` map, `mu`, `ready`, `ctx` | Start, Reload, Stop, executeScheduledJob | reloaded by HTTP requests and boot; cron goroutines create jobs |
| source_schedules, sources services | rows of `source_schedules`, `sources` | create, update, delete, LoadEnabledSourceSchedules, CheckOverlapWarnings | HTTP requests; some call Reload after their write |
| devices, device_subscriptions services | rows of `devices`, `device_source_subscriptions` | create, update, delete, list | HTTP requests; read by the precheck and at the start of a sync |
| tags service | `tags`, `image_tags` | EnsureTag, EnsureImageTag, SyncImageTags | called by the worker |
| sources (`internal/sources`) | registry, HTTP clients | Fetch, BuildUniqueID | called by the materializer |
| configs, dbtypes, db | one config row; column types, pagination; connection and migrations | load, update | boot, every service |
| routes, auth, middleware, frontend, logger, codegen | none of their own | translate, check, serve, format | in front of the services, or at build time |

### Behaviours that are hard

* *Interleaving.*  Cron goroutines, the worker, HTTP requests and the main goroutine
  share the queue, the scheduler's mutex, the rows and the files.  No request uses a
  transaction: other actors run between any two statements.  Nearly every service
  reads, decides and writes in separate statements.
* *Crash and restart.*  Job rows, image rows and files survive the process, the queue
  does not.  The recovery pass of the next boot has to find everything.
* *Partial failure.*  Most errors of the worker and of the recovery pass are logged
  and the code goes on with whatever had been done.
* *Shutdown order.*  The signal context is the parent of the worker's and of cron's;
  `Runner.Stop` has a 30 s timeout, the HTTP server one of 5 s; downloads have none.
* *Moving targets.*  Feeds grow while they are read page by page, and tables change
  between two pages of a listing.
* *Files and rows.*  Files are made before the row that tracks them, and outlive
  devices, renames and failed rows; hard links share content.

`PROJECT.json` lists each hazard at its line, with the properties that watch it.

### What makes each component correct

* Queue: an accepted id is handed out at most once and never lost; a closed queue is
  emptied; workers stop.
* Lifecycle and jobs: an unfinished row is found by the next boot; a running row is
  being worked on; a job runs once; the status follows `isValidTransition`; a
  signalled process ends.
* Scheduler: the entries are those of one snapshot, and in step with the rows once
  the requests are over; no request waits forever.
* Materializer: what a job leaves half done the next one repairs; every file can be
  found from a row; one location per image and device; a blacklisting takes hold with
  the next item; a file shows the image of its row.
* Sources: a fetch looks at no more posts than its budget, passes over none, yields
  none twice, and ends, though the feed grows meanwhile.
* Tags, thumbnails, counters: what one pass gave an image no later pass, failure or
  crash takes away; no thumbnail file without a row; a job counts what it did.
* Services and listings: a request's own checks cover the constraints of the database;
  a reader who follows the cursors sees every row once; what a device was given stays
  among its images; a device is given what its constraints admit; overlapping
  schedules are reported.

## 2. Modules

    WorkPool  <--refines--  JobQueue            JobRows  <--refines--  Lifecycle
        ^                                                                 |
        +------------------- Queue == INSTANCE ---------------------------+

    Tables  <--EXTENDS--  Scheduler, Materializer, Library, Catalog

    Listing, Overlaps  <--EXTENDS--  Catalog            Fetch (on its own)

**WorkPool** is the abstract queue: an id is pending, handed over, discarded or
refused.  **JobQueue** is `queue.go` with one action per critical section of `q.mu` and
per channel operation.  `EnqueueLocked`/`Signal...` are the two halves of Enqueue
(the non-blocking send reaches a *parked* receiver, nobody, or a closed channel);
`DequeueLocked`, `Select`, `TakeSignalled` and `NextCall` are the worker's loop;
`CloseLocked`/`CloseChannel` the two halves of Close.  A parked receiver leaves its
`select` in the step that closes the channel or cancels its context.

**JobRows** is the state machine of the job rows (`isValidTransition`, plus the
recovery UPDATE).  **Lifecycle** is the installation over many runs of the process: boot
(`GetJobsForRecovery`, `RecoverRunningJobs`, `MarkJobsForRecovery`,
`EnqueueRecovered`, `Wire`), cron (`CreateJob`, `EnqueueFired`), the worker
(`Dequeue` to `FinishJob`, one action per statement), the shutdown (`CloseQueue`,
`StopRunner`, `StopScheduler`, `Exit`), `Signal` and `Crash` anywhere.  Its queue is the
pool of WorkPool: what JobQueue implements is what Lifecycle uses.  A statement of
the worker fails when its context is cancelled; any statement may fail by itself
(`Fault`, bounded by `MaxFaults` per run).

**Scheduler** has a thread per HTTP request and one for boot.  A request reads
(`UpdateSource`, ...), writes (`WriteSource`, ...) and reloads: `Load` reads the
snapshot *before* the mutex, `Lock` takes it and removes all entries, `AddSchedule`
adds them one by one (cron can fire in between), `Unlock` releases it.  `Signal` and
`Stop` end it.  What an entry does when it fires is in Lifecycle, where cron may
fire at any time.

**Materializer** has the one worker and the requests that touch what it uses.  The
worker's actions follow `MaterializeImage`: `StartSync`, `NextItem` (with the blacklist
check), `GetOrCreateImage`, `ReadLocations`, then per target `Skip` (rule 1) or `Choose`
(rules 2-4) followed by `Download`, or `Link`, `LinkFails` and `Copy`, and by `Assign` and
`Locate`.  Requests are `BlacklistImage`, the statements and file removals of
`DeleteImage` one by one, `CreateDevice`, `RenameDevice` (UpdateDevice with another
slug), `DeleteDevice`, and `LoseFile` (somebody removes a file, which is what rule 2
is for).  `ItemFails`, `LookFails`, `DownloadFails`, `CopyFails`, `AssignFails`, `LocateFails`
and `Crash` are the failures.  `files` maps paths to inodes and `content` says what an
inode shows: that is where hard links, truncation and overwriting are visible.

**Fetch** is the iterator `Fetch` of `sources/booru/booru.go` and `sources/reddit/reddit.go`
with its consumer, against a feed that grows (`NewPost`).  `Begin` sets the budget and the
page size; `FetchBooruPage` (by number) and `FetchRedditPage` (by token) are the
requests; `LookAtPost`, `LookAtChild` and `YieldItem` go through a page, `EndPage` and
`EndListing` turn it; `PageFails`, `RefuseRequest`, `Cancel` and `CancelSeen` cut a fetch
short.  What a post yields (`PostToImageMetadata`, `ChildToMetadata`,
`ChildToAlbumMetadata`), the requests (`BuildBooruURL`, `BuildListingURL`) and the checks of
the parameters are operators.  Upstream is external: a feed, newest first, whose page
or whose posts after a given one it answers.

**Library** is what a job leaves beside the devices' files: `EnsureTag` and
`EnsureImageTag` per tag (`SyncImageTags`); `EnsureThumbnail`, then `EncodeSmall` and
`Rename` or `EncodeInPlace` and `FinishInPlace`, then `ReadThumbnail` and
`RecordThumbnail`; and `ReadCounters`, `WriteCounters` and `CompleteJob`.  `DeleteImage`
runs beside it, file, rows and tags one by one, and `LoseFile`.  What happens to an item
on one device is reduced to an outcome that counts (`Visit`); an item that
`BlacklistImage` has put on the blacklist is passed over and counts as skipped once
(`SkipItem`).  Every step can fail, and `Crash` leaves a job that is repeated.

**Listing** has the pure part of the list operations: cursors, limits, sorts and their
rendering (`Page`), the filters of `ListImages` and `ListDeviceImages`, and the
constraints of a device (`Fits`).  **Overlaps** is `CheckOverlapWarnings`.  **Catalog**
puts both over the tables: requests that create, change and delete subscriptions, devices
and schedules, delete sources and images and mark favorites, each check (`CheckDevice`,
`CheckSource`, `CheckDuplicate`, `CheckSlug`, ...) and each write (`InsertSubscription`,
`RewriteDevice`, ...) a statement; the worker with one job (`StartSync`, `Yield`,
`Deliver`, `EndSync`); and a client (`BeginScan`, `ReadPage`, `TurnBack`) that pages
through one of seven listings while all that goes on.  A statement that a foreign key or a
unique index refuses changes nothing and is answered with 500.

**Tables** is a table as a function on existing ids.  `MC...` modules and `.cfg` files
give constants their values; definitions marked `Fault:` are broken variants of
the definition that follows them, which the properties must reject.

What the actions merge, and why that loses nothing: a read and the write that
follows it are one step where no other actor can change what was read in a way
that matters (`EnsureImageAssignment` and `EnsureImageLocation`: only the worker
inserts those rows, and a row deleted in between gives what deleting it just
after the step gives); a row's columns that no guard reads are dropped; a device
set of a sync is any set of existing devices, which covers every state of the
subscriptions.  A crash in the middle of a copy is `CopyFails` followed by `Crash`.
`DeleteImage` requests run one at a time, and `BlacklistImage` is a single step.  In
Fetch, a page that was received is parsed at once.  In Library, a tag or a thumbnail row
is looked for and inserted in one step, as only the worker inserts them.  In Catalog,
ids are numbers in the order of UUIDs; the total of a listing, offsets, and
searches by name or slug are left out; aspect ratios are in hundredths; a
favorite's flag is chosen as it is written; and occurrences of one minute are sorted by
id, which the code leaves open and which decides which pairs are named, not whether any is.

## 3. Runs

| run | question | size of the instance |
|---|---|---|
| `queue` | are ids handed out exactly once, is overtaking bounded, does the queue implement the pool, do workers stop? | 4 ids, 2 producers, 1 worker, 1 closer, plus Dequeue and Drain |
| `queue_stranded` | *violated:* an accepted job does not wait while the worker waits | 2 ids |
| `lifecycle` | is every unfinished row recovered, no job lost, run twice or left running in a healthy run, are the rows' transitions legal, does a signalled process end? | 2 jobs, 1 source, 2 cron goroutines, 3 runs of the process, 1 fault per run |
| `lifecycle_recovered` | *violated:* recovered jobs are in the queue of the worker | 1 job, 2 runs |
| `scheduler` | do reloads never mix, does a lone reload repair, does every request end? | 1 source, 2 schedules, 2 concurrent requests, 3 in all, 1 fault |
| `materializer` | do the rules repair, are there orphan files or double locations, does a blacklisting take hold? | 1 item, 2 devices, 2 slugs, 2 jobs, 2 requests, 1 fault or crash |
| `materializer_truncate` | *violated:* a file shows the image of its row | the same, no faults, 1 request |
| `fetch` | is the budget kept, is a post passed over or yielded twice, does a fetch end? | 5 posts in pages of 2, budgets of 1 to 3, two kinds of booru post and three of reddit post |
| `library` | are tags and thumbnails kept, do files have rows, are counters true? | 2 items with 3 spellings of 2 tags and a blank, 2 devices, 2 jobs, 1 deletion, blacklisting or lost file, 1 fault or crash |
| `catalog` | do pages lose or repeat rows, do delivered images stay listed, do checks cover the constraints, are overlaps told? | 1 device, 2 sources, 2 images, 2 jobs, 1 schedule and 1 subscription to begin with; 2 requests, a scan being one, and 1 delivery |
| `catalog_filter` | *violated:* a device gets only what its constraints admit | 1 delivery, no request |
| `catalog_newest` | *violated:* a reader sees every image | 2 images, 1 scan, nothing else |

Why the bounds are enough for the cases in question:

* `queue`: two producers suffice for a send that hits a parked worker while the other
  has appended; four ids for three to compete to overtake one; Dequeue and Drain
  take the place of a second worker.
* `lifecycle`: three runs give a crash, a recovery that itself crashes or fails, and
  a clean run; two cron goroutines and two jobs give the races on one source.
* `scheduler`: two requests overlap in every order; the third comes alone afterwards,
  which is what the repair property needs; two schedules make a partly added
  reload visible.
* `materializer`: two jobs (damage, then repair), two devices (link, copy, slug
  taken over), two image ids (deleted and created again), three inodes for two
  paths (a rename over an existing path holds both files for an instant).
  Items are handled one after the other with no state kept between them, so one
  item stands for all, except where items of two sources share a path (below, under
  "Met on the way").  Image ids, inodes and slugs are exchangeable in these runs, which
  check safety only.
* `fetch`: a page of two posts has a first and a last one, five posts make three pages,
  and a budget can be spent within a page, at its end and after it; a gallery has
  good and bad pictures; the feed can grow between any two pages.
* `library`: two items share a tag they spell differently and one names it twice; one
  crash and one deletion or blacklisting meet at any two points of two jobs, a crash
  after the counters were written, with the attempt repeated, among them.  The
  outcomes are skip, whose counter blacklisted items share, and download, the only
  one that can count an image as stored; the others add to a counter of their own in
  the same way, and a failed device to none.
* `catalog`: two requests are enough for a check that another one, or a cascade,
  overtakes; a scan with pages of one row and one request (or the delivery) between any
  two pages covers rows inserted before and after the cursor (ids 2 and 11 are free),
  changed out of a filter, and deleted, the cursor's own row among them.  The job in
  the queue runs beside all that.  One of the new schedules meets an old one
  late in its list of occurrences only.

### Fairness

* JobQueue: the second half of an Enqueue or of a Close, and each worker's loop, go
  on when they can (the Go scheduler runs every runnable goroutine).  Nobody is
  obliged to enqueue, close, drain or cancel.  The worker's jobs are assumed to end.
* Lifecycle: only the main goroutine's next step is fair, the 30 s timer of
  `Runner.Stop` included.  The worker may hang in a download for ever
  (`http.DefaultClient` has no timeout) and `ShutdownCompletes` holds all the same.
* Scheduler: a request that is on its way goes on; `sync.RWMutex` does not starve
  a waiting writer, so fairness of each thread's own steps is enough.
* Fetch: the iterator goes on, as its consumer returns from every yield and a request
  to upstream ends (it may fail); nobody is obliged to post or to cancel.
* Materializer, Library, Catalog: none; no liveness is claimed for a sync that may hang.

## 4. What the passing runs show

* `ExactlyOnce`, `NothingLeftBehind`, `BoundedOvertaking`, `ImplementsPool`,
  `WorkersStop`: whatever the interleaving, hand-over through the
  channel neither loses nor doubles an id, and lets at most one id per worker jump
  the line.
* `PendingIsQueued`, `RunningIsWorkedOn`, `TakenIsFinished`, `NewJobsAreHeld`,
  `RecoveryComplete`, `ImplementsRows`, `ShutdownCompletes`: with crashes, signals and
  failing statements anywhere.  The properties about a *healthy* run say nothing
  of a run in which a statement failed or a shutdown began: there the code does
  leave rows behind, for the next boot to recover.
* `ReloadsDoNotMix`, `ReloadRepairs`, `RequestsEnd`: the mutex does its work, and what
  goes wrong with the triggers of sources that exist (snapshots applied out of order,
  failed loads, lost updates) is repaired by the next reload that runs alone.  Entries
  of a source deleted or renamed without a reload are outside `ReloadRepairs`; they go
  with the next reload, whatever it was for (`ReloadsDoNotMix`).
* `PassRepairs`: once a job during which nothing fails and nothing is removed has come
  past a device, the image is assigned to it and has a file there, after every step of
  the rest of that item, whatever had crashed, failed, been renamed or deleted before.
  The file is at the path of the device's row, or at the path the device has now; in
  the second case an earlier failure can have left it without a row, which may have
  moved on to another path.  That is why it speaks of the steps of one job: the next
  job may find that path taken by another device.  `NoOrphans`: a file no row tracks
  needs one of four causes (a failure or crash, a deleted device, an image deleted
  during a job).
  `OneLocationPerDevice`: no index of the schema says so.
* `BlacklistTakesHold`: `isBlacklisted` looks once for an item, so one that is blacklisted
  after that is still fetched for the devices to come.  But no device gets a second file
  of it, whatever then fails, is lost, crashes or is tried again.
* `BudgetKept`, `NoGaps`, `NoRepeats`, `NothingLeftOut`, `FetchEnds`: new posts shift the
  pages of a booru, which repeats posts but passes over none; reddit's token does
  neither; and since the budget is charged for skipped posts too, no feed, however fast
  it grows, keeps a fetch going.
* `TagsKept`, `ThumbnailKept`, `NoOrphanThumbnails`: the exceptions the definitions name
  (a thumbnail cut while it is rewritten in place, an image deleted while the worker
  has it in hand) are the only ones.
* `CountersTrue`: a job counts a device it visited, or a blacklisted item it passed over,
  once for each attempt that did, and all of them if nothing failed.
* `ScanComplete`, `BackReturns`: cursors on the id are right in every listing *that is
  sorted by a column*, because the sort is rendered as a string literal and orders
  nothing: the id decides.  The same goes for `DeliveredStaysListed`.
* `ChecksCover`: a request on its own is never refused by the schema.  One that another
  request or the worker overtakes may be; that what it writes keeps the foreign keys and
  unique indexes is `TypeOK`.
* `OverlapsTold`: although only neighbouring occurrences are compared, for between two that
  are close there is always a change of schedule that is at least as close.

## 5. Findings

Each is a property that a comment or the plan states, violated by what the code does:

1. `RecoveredJobsAreEnqueued` - recovered jobs go into a queue that `initDB` replaces
   (`app/app.go:198`): the worker of this run never sees them, nor that of the next.
2. `NoJobStranded` - a wake-up is lost between the worker's unlock and its `select`
   (`queue/queue.go:42`).
3. `FilesShowTheirImages` - a device is renamed, its old slug goes to a new device, the
   hard link is refused because the path exists, and the copy that follows truncates
   its own source (`storage/storage.go:114`).
4. `DeliveredFits` - the worker delivers every image to every subscribed device,
   whatever the device's constraints (`runner/materialize.go:194`), which the README
   says are applied before the download.
5. `ScanComplete`, run `catalog_newest` - without a sort the images are listed newest
   first, while the next page is what has a greater id
   (`services/images/ListImages.go:146`): no reader gets past the newest.  The listings of
   a device's images and of jobs are made the same way, and those of devices and
   sources, in the order of names, have the same fault for the same reason.

Met on the way, without a run of their own.

Queue, runner and scheduler: Enqueue can send on the channel that Close has closed
(`queue.go:45`; in JobQueue this sets `panicked`).  The signal that starts the shutdown
cancels the statements with which the current job would record its end
(`runner.go:92`), though `app.go:755` speaks of draining it.  Two reloads can apply their
snapshots in the wrong order (`scheduler.go:157`), and DeleteSource, or UpdateSource
without `is_enabled`, reloads nothing: the entries stay stale until the next reload.  A job whose source is deleted between `GetJob` and the precheck stays
queued although it was taken (`jobs/Precheck.go:45`; `TakenIsFinished` excuses exactly these).

Materializer and storage: two booru sources with different hosts form the same identifier
for posts of one number (`booru.go:291`, against `sources.go:151`, which asks for globally
unique ones).  Images are told apart by their source, but the path of a file has no source
in it, so a download for one replaces the file of the other's image; with two sources in
`MCMaterializerTruncate.cfg` the run finds that first.  An item that is blacklisted while
the worker has it in hand is still downloaded, once for each device to come
(`materialize.go:118`), which line 557 of the plan rules out ("must never be downloaded or
redownloaded"); `BlacklistTakesHold` is what remains of it.  The locations of an image are
read once, so the second device of a *new* image downloads it again instead of linking it
(`materialize.go:171`, the plan's lines 803-804).  `ensureThumbnail` says that it
regenerates an existing thumbnail (`materialize.go:505`, `514`) and does not, so one cut
short while it was rewritten stays.  The error of `os.Rename` is thrown away
(`thumbnail.go:193`).  `os.Rename` from the temporary directory fails across file systems.
`BlacklistImage` dereferences `SourceID`, which is NULL once the source was deleted.  The
counter of reused images is never incremented; a job that is interrupted after its
counters were written counts both attempts.

Sources and listings: a booru post that yields nothing is skipped past the look at the
budget, so a fetch can look at the rest of a page for nothing (`booru.go:186`, against
`sources.go:20-21`; `BudgetKept` bounds it).  A sort is rendered as a string literal
(`dbtypes/sort.go:40`), so sorting does nothing.  A page that was read
backwards has a next cursor only if there are more pages *before* it.
`ListDeviceImages` looks for `sql.ErrNoRows`, which the query builder does not return: a
device that does not exist is answered with 500.  Overlap warnings name neighbouring
occurrences only, not every pair that is too close.

## 6. Proofs

| module | proved for every value of the constants |
|---|---|
| `JobQueue_proofs` | `TypeOK`, `ExactlyOnce`, `NothingLeftBehind`, `BoundedOvertaking`, refinement of WorkPool |
| `Lifecycle_proofs` | `TypeOK`, `PendingIsQueued`, `RunningIsWorkedOn`, `TakenIsFinished`, `NewJobsAreHeld`, `RecoveryComplete`, refinement of JobRows |
| `Scheduler_proofs` | `TypeOK`, `ReloadsDoNotMix`, `ReloadRepairs` |
| `Materializer_proofs` | `TypeOK` (with the schema's foreign keys and unique indexes), `OneLocationPerDevice`, `BlacklistTakesHold`, `NoOrphans`, `PassRepairs` |
| `Fetch_proofs` | `TypeOK`, `BudgetKept`, `NoGaps`, `NothingLeftOut`, `NoRepeats` |
| `Catalog_proofs` | `TypeOK` (with the schema's foreign keys and unique indexes), `ChecksCover`, `OverlapsTold`; with a sort also `ScanComplete`, `BackReturns`, `DeliveredStaysListed` |
| `Library_proofs` | `TypeOK`, `TagsKept`, `ThumbnailKept`, `NoOrphanThumbnails`, `CountersTrue` |
| `Tables_proofs` | lemmas on tables, for the proofs about the modules that extend Tables |

Assumptions: the bounds are naturals; `Main` is not a handler; `NoSource` is not a
source; the queue has a finite, non-empty set of workers; the size of a page and the
default lookup counts are positive; a source has a device at least, an item a sequence of tag
names, and the outcomes of a device are the rules 1 to 4 and a failure; a gallery has a
number of pictures; ids of Catalog and occurrences are naturals and the limit is any
integer; the rows a catalog begins with meet the schema; and a client asks for one
of the seven listings, with a device where the listing is of one, and with all the
filters.  TLC evaluates each of them in the run of its module.

Three theorems have a hypothesis, `{} \notin Sorts`: clients send a sort.  Without one a
listing may be the other way round than its cursors, and run `catalog_newest` shows that
`ScanComplete` is then false.

* *JobQueue.*  `ExactlyOnce` is inductive with the fact that a worker holding a signal
  checks it against `jobs` under the mutex.  `NothingLeftBehind` needs to know what
  "closed" implies for a worker at each point of its loop.  The refinement maps
  `Range(jobs)`, `Range(delivered)` and `drained` to the pool's sets.  `BoundedOvertaking` is
  a count (`LineHeld`): a worker goes to the channel only when it has found the queue
  empty, so each id that overtakes a pending one costs one of the workers that were
  waiting when that one was accepted.
* *Lifecycle.*  None of the properties is inductive.  The strengthening says what the
  memory of the process knows: ids in memory are rows that exist; an id cron has
  just created is new; the worker's job was taken and not pending; what each boot
  step has established so far; what each step of the worker knows of its row's
  status; and, in a healthy run, which rows can be unfinished.
* *Scheduler.*  `ReloadsDoNotMix` is strengthened by who holds the mutex (`LockInv`), that
  entries have distinct keys (`KeyInv`) and that while a thread adds, the entries are a part
  of its snapshot (`AddInv`).  `ReloadRepairs` needs what the overlap
  history implies: a trusted thread has been alone (`AloneInv`), its snapshot is
  fresh (`FreshInv`), a stale one belongs to an overlapped thread (`StaleInv`), a
  scheduler at rest is in step (`CalmInv`), ids are not reused (`UsedInv`).
* *Materializer.*  The unique indexes are preserved because each insert checks them; the
  foreign keys because every delete cascades.  `OneLocationPerDevice` holds because the
  row of the image and device is replaced, in the same step as it is looked for.
  `BlacklistTakesHold` needs that only blacklisted items are late, that the item in hand
  is late only on targets that have had their turn, and that each has one turn
  (`BlacklistInv`).  `NoOrphans` rests on three facts about an undisturbed installation:
  an image is assigned wherever it has a location (`Covered`), the row about to be
  replaced tracks no other file than the one just made (`Replaceable`), and a deletion
  that is past its files has left none (`Deleting`).  `PassRepairs` needs what the
  worker's snapshot is worth while nothing disturbs it: the rows of its image and targets
  are there (`Present`), the locations it has read are still those of the image on the
  targets it has not come to (`ReadOK`), and what it links to or has made still exists
  (`Made`); `Repaired` then collects the targets that are done.
* *Fetch.*  `BudgetKept` needs the look at the budget to be placed: none is spent where a page
  begins (`Budgeted`), and the posts left of a booru page can overdraw it by less than the
  page.  `NoGaps` is strengthened by where the next page will begin (`Covered`): all
  posts down to the end of the page at hand have been looked at or are on it.  For a
  booru that end moves up as the feed grows, by `newest - (cursor + 1) * pageLimit`, so pages
  overlap and never part; this is why every page must have the size of the first.
  `NothingLeftOut` accounts for every picture of a post that was looked at: yielded, in the
  iterator's hands, or dropped when the consumer stopped (`Handed`), and says why a fetch
  ended (`Ended`).  `NoRepeats` adds that the posts still to come are below all that were
  looked at (`Below`).  The good pictures of a gallery are picked by rank (`Nth`), and that
  each has one and only one rank is shown by counting.
* *Catalog.*  The invariant `IInv` has four parts: the schema (`DatabaseOK`), the shape of a
  request at each of its steps (`RequestsOK`), what its checks have established as long as
  nobody else has written since it began (`ChecksOK`), and the scan's parameters (`ScanOK`).
  `ChecksCover` and `OverlapsTold` follow; that a neighbouring pair is close whenever any
  pair is, is `NeighboursFound`.  For a scan with a sort, `Followed` says that what was read
  lies up to the cursor and covers what stayed there, and `Windows` that of a listing at rest
  the last page ends at the cursor and the one before it where the last one begins.  A page
  is characterised by counting, as the rows with fewer than `limit` of the set below (or
  above) them, which makes `ForwardPage` and `BackwardPage` true of sets of any size.
* *Library.*  `CountersTrue` counts what is in the row and what is still in the worker's
  result together (`Tally`), with one unit in reserve for a new image that was not stored yet,
  and knows at which steps the result is empty (`Stage`); a blacklisted item adds one to
  both sides.  `ThumbnailKept` and
  `NoOrphanThumbnails` are one induction (`ThumbInv`): what an undisturbed pass may take for
  granted of its image, which is there and is not being deleted (`Custody`); that a request
  past the file of its image has left none (`Removed`); that a file about to get its row is
  whole or known to be cut (`Intact`).  `TagsKept` adds that a tag not yet assigned is in
  hand or still to come (`Syncing`), and rests on `Deduped` keeping a name of every
  normal form, by the least position that has it.

TLC checked every one of these invariants first.  Only model-checked is liveness
(`WorkersStop`, `ShutdownCompletes`, `RequestsEnd`, `FetchEnds`), which is out of the
prover's reach under fairness.  The properties of the five runs that are violated are false,
so there is nothing to prove; `ScanComplete` is both, false of one set of clients and proved
of the others.

## 7. Not modelled, and the plan

Not modelled because there is nothing concurrent or stateful to check: routes,
authentication, frontend, logger, code generation, configuration, the registry of
sources.  SQLite, cron, the file system and HTTP are external: an action of the model is
what the code relies on.  Left out of the modules that are there: the reading of an
image's dimensions, file extensions and formats, the temporary file of a download,
source deletion inside Materializer (Catalog has it), configuration rows, and the
totals, offsets and name searches of listings.

Plan, most important first:

1. Refinement of an abstract shelf (which device shows which image) by Materializer,
   and the same abstraction as the delivery of Catalog.
2. The configuration row and the lost updates of read-merge-write requests.
