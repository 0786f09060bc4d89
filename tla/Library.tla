------------------------------ MODULE Library ------------------------------
(***************************************************************************)
(* What a job leaves beside the files of the devices: tags                 *)
(* (internal/services/tags), thumbnails (internal/storage/thumbnail.go and *)
(* the table image_thumbnails) and the counters of the job row             *)
(* (internal/services/jobs), against DeleteImage requests, lost files,     *)
(* failing statements and crashes.                                         *)
(*                                                                         *)
(* What happens to an item on one device is module Materializer's subject; *)
(* here a device is an outcome that counts and may leave a file to make    *)
(* the thumbnail from, and the blacklist is there for what it counts.      *)
(* Only the worker creates rows, so a read and the insert after it are one *)
(* step where nothing but another creation could come between them.  The   *)
(* quality a thumbnail ends with, its size and the pixels are left out.    *)
(***************************************************************************)
EXTENDS Naturals, Sequences, FiniteSets, Tables

CONSTANTS Items,        \* what the source yields
          Spellings,    \* tag names as sources write them
          Normal,       \* strings.ToLower(strings.TrimSpace(_)) of each
          Blank,        \* the empty string
          TagsOf,       \* the tag names of each item, in order
          Images,       \* ids an image row can have; an id is never used again
          TagIds,       \* ids a tag row can have
          Devices,      \* how many devices are subscribed to the source
          Outcomes,     \* bound: what can happen to an item on a device
          MaxJobs,      \* bound: jobs
          MaxRequests,  \* bound: deletions, blacklistings and thumbnail files lost
          MaxFaults     \* bound: failures of a statement, of a write, of the process

ASSUME ItemsAssumption ==
  /\ TagsOf \in [Items -> Seq(Spellings)]
  /\ Devices \in Nat \ {0}
  /\ Outcomes \subseteq {"skip", "redownload", "link", "copy", "download", "fail"}
  /\ MaxJobs \in Nat /\ MaxRequests \in Nat /\ MaxFaults \in Nat

Counters == {"downloaded", "hardlinked", "copied", "stored", "skipped"}

VARIABLES
  images,      \* the table images: the item of each row
  tags,        \* the table tags: name and normalized name of each row
  imageTags,   \* the table image_tags
  thumbnails,  \* the images with a row in image_thumbnails
  blacklist,   \* the table image_blacklists: items
  files,       \* the thumbnail files: whole or cut short
  used,        \* ids of images created so far
  job,         \* the job row: its status and its counters
  worker,      \* the worker: its step and its local variables
  result,      \* MaterializeResult of the job under way
  delete,      \* a DeleteImage request: its step and its image
  \* bookkeeping of the bounds:
  jobs, requests, faults,
  \* history, never read by the program:
  quiet,       \* nothing failed and nothing was removed while the item is handled
  clean,       \* nothing failed since the job was queued
  created,     \* images created for the job, over all its attempts
  visited,     \* devices visited for the job with success, and items passed over
               \* as blacklisted, likewise
  tagged,      \* images whose tags a quiet pass has synced
  shown,       \* images whose thumbnail a quiet pass has ensured
  cut,         \* images with a row whose thumbnail was cut while it was rewritten
  excused      \* images whose thumbnail file may have lost its row

rowVars     == <<images, tags, imageTags, thumbnails, blacklist, used>>
historyVars == <<quiet, clean, created, visited, tagged, shown, cut, excused>>
bounds      == <<jobs, requests, faults>>
vars == <<rowVars, files, job, worker, result, delete, bounds, historyVars>>

Idle == [at |-> "idle", todo |-> {}, item |-> {}, image |-> {}, names |-> {}, tag |-> {},
         canonical |-> FALSE, source |-> FALSE, fresh |-> FALSE, left |-> 0, read |-> {}]

NoDelete == [step |-> "idle", image |-> {}]
Zero     == [c \in Counters |-> 0]

Steps == {"idle", "fetch", "image", "tags", "assign tag", "locations", "devices", "thumbnail",
          "encode", "rename", "in place", "record", "insert", "update",
          "read counters", "write counters", "complete"}

\* Foreign keys and unique indexes of the migration.
Schema ==
  /\ imageTags \subseteq (DOMAIN images) \X (DOMAIN tags)
  /\ thumbnails \subseteq DOMAIN images
  /\ \A i, j \in DOMAIN images : images[i] = images[j] => i = j
  /\ \A t, u \in DOMAIN tags : tags[t].normal = tags[u].normal => t = u

\* Types, the constraints of the database, and that no tag is blank.
TypeOK ==
  /\ images \in Table(Images, Items)
  /\ tags \in Table(TagIds, [name : Spellings, normal : {Normal[s] : s \in Spellings} \ {Blank}])
  /\ Schema
  /\ blacklist \subseteq Items
  /\ files \in Table(Images, {"whole", "short"})
  /\ job \in [status : {"none", "queued", "running", "succeeded"}, counts : [Counters -> Nat]]
  /\ result \in [Counters -> Nat]
  /\ worker \in [at : Steps, todo : SUBSET Items, item : SUBSET Items, image : SUBSET Images,
                 names : SUBSET Spellings, tag : SUBSET TagIds, canonical : BOOLEAN,
                 source : BOOLEAN, fresh : BOOLEAN, left : 0..Devices, read : SUBSET [Counters -> Nat]]
  /\ delete \in [step : {"idle", "thumbnail", "file", "row", "tags", "image"}, image : SUBSET Images]

NoRow == [x \in {} |-> x]

Init ==
  /\ images = NoRow /\ tags = NoRow /\ imageTags = {} /\ thumbnails = {} /\ blacklist = {}
  /\ used = {}
  /\ files = NoRow
  /\ job = [status |-> "none", counts |-> Zero]
  /\ worker = Idle /\ result = Zero /\ delete = NoDelete
  /\ jobs = 0 /\ requests = 0 /\ faults = 0
  /\ quiet = FALSE /\ clean = FALSE /\ created = 0 /\ visited = 0
  /\ tagged = {} /\ shown = {} /\ cut = {} /\ excused = {}

-----------------------------------------------------------------------------
(* The job, from the queue to MaterializeImage. *)

\* A schedule or a user creates the job.
NewJob ==
  /\ job.status \in {"none", "succeeded"} /\ jobs < MaxJobs
  /\ job' = [status |-> "queued", counts |-> Zero]
  /\ jobs' = jobs + 1
  /\ clean' = TRUE /\ created' = 0 /\ visited' = 0
  /\ UNCHANGED <<rowVars, files, worker, result, delete, requests, faults, quiet,
                 tagged, shown, cut, excused>>

\* PrecheckAndStartJob, and the subscribed devices are read.
StartJob ==
  /\ worker.at = "idle" /\ job.status = "queued"
  /\ job' = [job EXCEPT !.status = "running"]
  /\ worker' = [Idle EXCEPT !.at = "fetch", !.todo = Items]
  /\ result' = Zero
  /\ UNCHANGED <<rowVars, files, delete, bounds, historyVars>>

Handles(i) == worker.image = {i}

Plus(counts, names) == [c \in Counters |-> counts[c] + (IF c \in names THEN 1 ELSE 0)]

\* The source yields a blacklisted item, which counts as skipped once, however
\* many devices there are.
SkipItem(x) ==
  /\ worker.at = "fetch" /\ x \in worker.todo /\ x \in blacklist
  /\ worker' = [worker EXCEPT !.todo = @ \ {x}]
  /\ result' = Plus(result, {"skipped"})
  /\ visited' = visited + 1
  /\ UNCHANGED <<rowVars, files, job, delete, bounds, quiet, clean, created, tagged, shown, cut,
                 excused>>

\* The source yields an item that is not blacklisted.
NextItem(x) ==
  /\ worker.at = "fetch" /\ x \in worker.todo /\ x \notin blacklist
  /\ worker' = [worker EXCEPT !.at = "image", !.item = {x}, !.todo = @ \ {x}]
  /\ UNCHANGED <<rowVars, files, job, result, delete, bounds, historyVars>>

RowsOf(x) == {i \in DOMAIN images : images[i] = x}

\* normalizeAndDedupeTags: of the names with one normal form the first stays.
Deduped(names) ==
  {names[k] : k \in {n \in DOMAIN names :
     /\ Normal[names[n]] # Blank
     /\ \A m \in 1..(n - 1) : Normal[names[m]] # Normal[names[n]]}}

\* GetOrCreateImage, then SyncImageTags begins.
GetOrCreateImage(x) ==
  /\ worker.at = "image" /\ worker.item = {x}
  /\ \E i \in Images :
       /\ IF RowsOf(x) # {}
          THEN i \in RowsOf(x) /\ UNCHANGED <<images, used, created>>
          ELSE /\ i \notin used
               /\ images' = With(images, i, x)
               /\ used' = used \cup {i}
               /\ created' = created + 1
       /\ worker' = [worker EXCEPT !.at = "tags", !.image = {i}, !.names = Deduped(TagsOf[x]),
                                   !.fresh = (RowsOf(x) = {})]
       /\ quiet' = (delete.image # {i})
       /\ excused' = excused \cup (delete.image \cap {i})
  /\ UNCHANGED <<tags, imageTags, thumbnails, blacklist, files, job, result, delete, bounds, clean,
                 visited, tagged, shown, cut>>

-----------------------------------------------------------------------------
(* Tags. *)

\* Fault: a tag is looked up by the name the source wrote.
Found_ByName(n) == {t \in DOMAIN tags : tags[t].name = n}

\* getTagByNormalizedName.
Found(n) == {t \in DOMAIN tags : tags[t].normal = Normal[n]}

\* EnsureTag: a blank name is passed over; else the tag is found, or created; the
\* unique index refuses a second row with the normalized name, which is logged.
\* The names come in any order, as the loop over the map of
\* normalizeAndDedupeTags yields them.
EnsureTag(n) ==
  /\ worker.at = "tags" /\ n \in worker.names
  /\ LET rest == [worker EXCEPT !.names = @ \ {n}]
         Assigning(I) == [rest EXCEPT !.at = "assign tag", !.tag = I]
     IN  CASE Normal[n] = Blank -> worker' = rest /\ UNCHANGED tags
           [] Normal[n] # Blank /\ Found(n) # {} -> worker' = Assigning(Found(n)) /\ UNCHANGED tags
           [] OTHER ->
                IF \E t \in DOMAIN tags : tags[t].normal = Normal[n]
                THEN worker' = rest /\ UNCHANGED tags
                ELSE \E t \in TagIds \ DOMAIN tags :
                       /\ tags' = With(tags, t, [name |-> n, normal |-> Normal[n]])
                       /\ worker' = Assigning({t})
  /\ UNCHANGED <<images, imageTags, thumbnails, blacklist, used, files, job, result, delete,
                 bounds, historyVars>>

\* EnsureImageTag: idempotent; the foreign key of an image that is gone fails.
EnsureImageTag(i, t) ==
  /\ worker.at = "assign tag" /\ Handles(i) /\ worker.tag = {t}
  /\ imageTags' = IF i \in DOMAIN images THEN imageTags \cup {<<i, t>>} ELSE imageTags
  /\ worker' = [worker EXCEPT !.at = "tags", !.tag = {}]
  /\ UNCHANGED <<images, tags, thumbnails, blacklist, used, files, job, result, delete, bounds,
                 historyVars>>

EndTags(i) ==
  /\ worker.at = "tags" /\ worker.names = {} /\ Handles(i)
  /\ worker' = [worker EXCEPT !.at = "locations"]
  /\ tagged' = IF quiet THEN tagged \cup {i} ELSE tagged
  /\ UNCHANGED <<rowVars, files, job, result, delete, bounds, quiet, clean, created, visited,
                 shown, cut, excused>>

-----------------------------------------------------------------------------
(* The devices, as far as counters and thumbnails go. *)

\* GetImageLocations: whether an active canonical file exists; it is the
\* thumbnail's source until a device sets another.
ReadLocations(c) ==
  /\ worker.at = "locations"
  /\ worker' = [worker EXCEPT !.at = "devices", !.canonical = c, !.source = c, !.left = Devices]
  /\ UNCHANGED <<rowVars, files, job, result, delete, bounds, historyVars>>

\* The counters an outcome adds one to; a new image counts as stored once.
Counted(o) ==
  CASE o = "skip"       -> {"skipped"}
    [] o = "redownload" -> {"downloaded"}
    [] o = "link"       -> {"hardlinked"}
    [] o = "copy"       -> {"copied"}
    [] o = "download"   -> {"downloaded"} \cup (IF worker.fresh THEN {"stored"} ELSE {})
    [] o = "fail"       -> {}

\* Fault: an image stays new after it was counted as stored.
StillNew_Always(o) == worker.fresh

\* imageIsNew: a new image is counted as stored for one device only.
StillNew(o) == worker.fresh /\ o # "download"

\* Rules 1 to 4; 3 applies when a canonical file was there, 4 when none was.
Visit(o) ==
  /\ worker.at = "devices" /\ worker.left > 0
  /\ o \in {"link", "copy"} => worker.canonical
  /\ o = "download" => ~worker.canonical
  /\ result' = Plus(result, Counted(o))
  /\ worker' = [worker EXCEPT !.left = @ - 1,
                              !.source = (@ \/ o \in {"skip", "redownload", "download"}),
                              !.fresh = StillNew(o)]
  /\ visited' = IF o = "fail" THEN visited ELSE visited + 1
  /\ UNCHANGED <<rowVars, files, job, delete, bounds, quiet, clean, created, tagged, shown, cut,
                 excused>>

\* The worker asks the source for the next item.
NoItem == [Idle EXCEPT !.at = "fetch", !.todo = worker.todo]

EndDevices ==
  /\ worker.at = "devices" /\ worker.left = 0
  /\ worker' = IF worker.source THEN [worker EXCEPT !.at = "thumbnail"] ELSE NoItem
  /\ UNCHANGED <<rowVars, files, job, result, delete, bounds, historyVars>>

-----------------------------------------------------------------------------
(* Thumbnails. *)

\* ensureThumbnail makes none when the row and the file are there, whatever the
\* file holds.
HasThumbnail(i) == i \in thumbnails /\ i \in DOMAIN files

EnsureThumbnail(i) ==
  /\ worker.at = "thumbnail" /\ Handles(i)
  /\ IF HasThumbnail(i)
     THEN worker' = NoItem /\ shown' = (IF quiet THEN shown \cup {i} ELSE shown)
     ELSE worker' = [worker EXCEPT !.at = "encode"] /\ UNCHANGED shown
  /\ UNCHANGED <<rowVars, files, job, result, delete, bounds, quiet, clean, created, visited,
                 tagged, cut, excused>>

\* encodeJPEGWithQuality: qualities 85 to 55 go to a temporary file, and one
\* that is small enough is kept.
EncodeSmall ==
  /\ worker.at = "encode" /\ worker' = [worker EXCEPT !.at = "rename"]
  /\ UNCHANGED <<rowVars, files, job, result, delete, bounds, historyVars>>

\* Fault: the temporary file is only renamed when there is no thumbnail yet.
Renamed_KeepsOld(i) == IF i \in DOMAIN files THEN files ELSE With(files, i, "whole")

Renamed(i) == With(files, i, "whole")

Rename(i) ==
  /\ worker.at = "rename" /\ Handles(i)
  /\ files' = Renamed(i) /\ cut' = cut \ {i}
  /\ worker' = [worker EXCEPT !.at = "record"]
  /\ UNCHANGED <<rowVars, job, result, delete, bounds, quiet, clean, created, visited, tagged,
                 shown, excused>>

\* None was small enough: quality 45 is written to the thumbnail's own path.
EncodeInPlace(i) ==
  /\ worker.at = "encode" /\ Handles(i)
  /\ files' = With(files, i, "short")
  /\ worker' = [worker EXCEPT !.at = "in place"]
  /\ UNCHANGED <<rowVars, job, result, delete, bounds, historyVars>>

\* If the path was removed meanwhile there is no file to describe.
FinishInPlace(i) ==
  /\ worker.at = "in place" /\ Handles(i)
  /\ IF i \in DOMAIN files
     THEN /\ files' = With(files, i, "whole") /\ cut' = cut \ {i}
          /\ worker' = [worker EXCEPT !.at = "record"]
     ELSE worker' = NoItem /\ UNCHANGED <<files, cut>>
  /\ UNCHANGED <<rowVars, job, result, delete, bounds, quiet, clean, created, visited, tagged,
                 shown, excused>>

\* EnsureImageThumbnail reads the row, then inserts one or updates the one it read.
ReadThumbnail(i) ==
  /\ worker.at = "record" /\ Handles(i)
  /\ worker' = [worker EXCEPT !.at = IF i \in thumbnails THEN "update" ELSE "insert"]
  /\ UNCHANGED <<rowVars, files, job, result, delete, bounds, historyVars>>

\* The insert fails when the image is gone; an update may find no row.
RecordThumbnail(i) ==
  /\ worker.at \in {"insert", "update"} /\ Handles(i)
  /\ thumbnails' = IF worker.at = "insert" /\ i \in DOMAIN images
                   THEN thumbnails \cup {i} ELSE thumbnails
  /\ worker' = NoItem
  /\ shown' = (IF quiet /\ i \in DOMAIN files THEN shown \cup {i} ELSE shown)
  /\ excused' = (IF i \in thumbnails' /\ delete.image # {i} THEN excused \ {i} ELSE excused)
  /\ UNCHANGED <<images, tags, imageTags, blacklist, used, files, job, result, delete, bounds,
                 quiet, clean, created, visited, tagged, cut>>

-----------------------------------------------------------------------------
(* The end of the job. *)

\* The source yields no more.
EndItems ==
  /\ worker.at = "fetch"
  /\ worker' = [Idle EXCEPT !.at = "read counters"]
  /\ UNCHANGED <<rowVars, files, job, result, delete, bounds, historyVars>>

\* IncrementJobCounters reads the row, which must be running, ...
ReadCounters ==
  /\ worker.at = "read counters" /\ job.status = "running"
  /\ worker' = [worker EXCEPT !.at = "write counters", !.read = {job.counts}]
  /\ UNCHANGED <<rowVars, files, job, result, delete, bounds, historyVars>>

\* ... and writes the sums in a second statement.
WriteCounters(old) ==
  /\ worker.at = "write counters" /\ worker.read = {old}
  /\ job' = [job EXCEPT !.counts = [c \in Counters |-> old[c] + result[c]]]
  /\ worker' = [Idle EXCEPT !.at = "complete"] /\ result' = Zero
  /\ UNCHANGED <<rowVars, files, delete, bounds, historyVars>>

\* CompleteJob.
CompleteJob ==
  /\ worker.at = "complete"
  /\ job' = [job EXCEPT !.status = "succeeded"]
  /\ worker' = Idle
  /\ UNCHANGED <<rowVars, files, result, delete, bounds, historyVars>>

-----------------------------------------------------------------------------
(* Requests of the user. *)

Request == requests < MaxRequests /\ requests' = requests + 1 /\ UNCHANGED <<jobs, faults>>

\* DeleteImage loads the image.
BeginDelete(i) ==
  /\ delete.step = "idle" /\ i \in DOMAIN images /\ Request
  /\ delete' = [step |-> "thumbnail", image |-> {i}]
  /\ quiet' = (quiet /\ ~Handles(i))
  /\ excused' = excused \cup (worker.image \cap {i})
  /\ tagged' = tagged \ {i} /\ shown' = shown \ {i}
  /\ UNCHANGED <<rowVars, files, job, worker, result, clean, created, visited, cut>>

\* Fault: the row is deleted before its file.
AfterRead_RowOnly(i) == IF i \in thumbnails THEN "row" ELSE "tags"

\* The file of a row is removed first; without a row none is looked for.
AfterRead(i) == IF i \in thumbnails THEN "file" ELSE "tags"

DeleteReads(i) ==
  /\ delete.step = "thumbnail" /\ delete.image = {i}
  /\ delete' = [delete EXCEPT !.step = AfterRead(i)]
  /\ UNCHANGED <<rowVars, files, job, worker, result, bounds, historyVars>>

DeleteFile(i) ==
  /\ delete.step = "file" /\ delete.image = {i}
  /\ files' = Without(files, i)
  /\ delete' = [delete EXCEPT !.step = "row"]
  /\ UNCHANGED <<rowVars, job, worker, result, bounds, historyVars>>

DeleteThumbnailRow ==
  /\ delete.step = "row"
  /\ thumbnails' = thumbnails \ delete.image
  /\ delete' = [delete EXCEPT !.step = "tags"]
  /\ UNCHANGED <<images, tags, imageTags, blacklist, used, files, job, worker, result, bounds,
                 historyVars>>

\* Fault: what a deleted image was tagged with stays.
TagsWithout_Keeps(I) == imageTags

TagsWithout(I) == {r \in imageTags : r[1] \notin I}

DeleteTags ==
  /\ delete.step = "tags"
  /\ imageTags' = TagsWithout(delete.image)
  /\ delete' = [delete EXCEPT !.step = "image"]
  /\ UNCHANGED <<images, tags, thumbnails, blacklist, used, files, job, worker, result, bounds,
                 historyVars>>

\* The rows that refer to the image go with it.
DeleteRow(i) ==
  /\ delete.step = "image" /\ delete.image = {i}
  /\ images' = Without(images, i)
  /\ thumbnails' = thumbnails \ {i}
  /\ imageTags' = TagsWithout({i})
  /\ delete' = NoDelete
  /\ UNCHANGED <<tags, blacklist, used, files, job, worker, result, bounds, historyVars>>

\* BlacklistImage takes the source and the identifier from the image row; the
\* row, its tags and its thumbnail stay.
BlacklistImage(i) ==
  /\ i \in DOMAIN images /\ images[i] \notin blacklist /\ Request
  /\ blacklist' = blacklist \cup {images[i]}
  /\ UNCHANGED <<images, tags, imageTags, thumbnails, used, files, job, worker, result, delete,
                 historyVars>>

\* Somebody removes a thumbnail file from the disk.
LoseFile(i) ==
  /\ i \in DOMAIN files /\ Request
  /\ files' = Without(files, i)
  /\ shown' = shown \ {i}
  /\ UNCHANGED <<rowVars, job, worker, result, delete, quiet, clean, created, visited, tagged, cut,
                 excused>>

-----------------------------------------------------------------------------
(* Failures. *)

Fault ==
  /\ faults < MaxFaults /\ faults' = faults + 1
  /\ clean' = FALSE /\ quiet' = FALSE
  /\ UNCHANGED <<jobs, requests, created, visited, tagged, shown>>

\* A row or a file cannot be read or written: the item is given up.
ItemFails ==
  /\ worker.at \in {"image", "locations", "thumbnail", "encode"} /\ Fault
  /\ worker' = NoItem
  /\ UNCHANGED <<rowVars, files, job, result, delete, cut, excused>>

\* A tag cannot be read or written: the tag is given up.
TagFails(n) ==
  /\ worker.at = "tags" /\ n \in worker.names /\ Fault
  /\ worker' = [worker EXCEPT !.names = @ \ {n}]
  /\ UNCHANGED <<rowVars, files, job, result, delete, cut, excused>>

EnsureImageTagFails ==
  /\ worker.at = "assign tag" /\ Fault
  /\ worker' = [worker EXCEPT !.at = "tags", !.tag = {}]
  /\ UNCHANGED <<rowVars, files, job, result, delete, cut, excused>>

\* The error of os.Rename is thrown away: an older file, whatever it holds, is
\* taken for the new one, and without any there is nothing to describe.
RenameFails(i) ==
  /\ worker.at = "rename" /\ Handles(i) /\ Fault
  /\ worker' = IF i \in DOMAIN files THEN [worker EXCEPT !.at = "record"] ELSE NoItem
  /\ cut' = IF i \in DOMAIN files /\ files[i] = "short" THEN cut \cup {i} ELSE cut
  /\ UNCHANGED <<rowVars, files, job, result, delete, excused>>

\* What the end of a thumbnail's making leaves when it comes too early.
Cut ==
  /\ cut' = IF worker.at = "in place" THEN cut \cup (worker.image \cap thumbnails) ELSE cut
  /\ excused' = IF worker.at \in {"in place", "record", "insert"}
                THEN excused \cup worker.image ELSE excused

\* The disk is full in the middle of a file, or the row cannot be written.
ThumbnailFails ==
  /\ worker.at \in {"in place", "record", "insert", "update"} /\ Fault /\ Cut
  /\ worker' = NoItem
  /\ UNCHANGED <<rowVars, files, job, result, delete>>

\* updateJobCounters logs its error.
CountersFail ==
  /\ worker.at \in {"read counters", "write counters"} /\ Fault
  /\ worker' = [Idle EXCEPT !.at = "complete"] /\ result' = Zero
  /\ UNCHANGED <<rowVars, files, job, delete, cut, excused>>

\* The job stays running until the program starts again.
CompleteFails ==
  /\ worker.at = "complete" /\ Fault
  /\ worker' = Idle
  /\ UNCHANGED <<rowVars, files, job, result, delete, cut, excused>>

\* The file could not be removed and nothing more is done, or a statement fails.
DeleteFails ==
  /\ delete.step # "idle" /\ Fault
  /\ delete' = NoDelete
  /\ UNCHANGED <<rowVars, files, job, worker, result, cut, excused>>

\* The process ends at any point and starts again; recoverJobs queues the job
\* that was running, with the counters it has.
Crash ==
  /\ worker.at # "idle" \/ delete.step # "idle" \/ job.status = "running"
  /\ Fault /\ Cut
  /\ worker' = Idle /\ delete' = NoDelete /\ result' = Zero
  /\ job' = [job EXCEPT !.status = IF @ = "running" THEN "queued" ELSE @]
  /\ UNCHANGED <<rowVars, files>>

-----------------------------------------------------------------------------
Job ==
  \/ NewJob \/ StartJob
  \/ \E x \in Items : SkipItem(x) \/ NextItem(x) \/ GetOrCreateImage(x)
  \/ \E c \in BOOLEAN : ReadLocations(c)
  \/ \E o \in Outcomes : Visit(o)
  \/ EndDevices \/ EndItems \/ ReadCounters \/ CompleteJob
  \/ \E old \in worker.read : WriteCounters(old)

Tag ==
  \/ \E n \in Spellings : EnsureTag(n) \/ TagFails(n)
  \/ \E i \in Images : EndTags(i) \/ \E t \in TagIds : EnsureImageTag(i, t)
  \/ EnsureImageTagFails

Thumbnail ==
  \/ EncodeSmall
  \/ \E i \in Images :
       \/ EnsureThumbnail(i) \/ Rename(i) \/ EncodeInPlace(i) \/ FinishInPlace(i)
       \/ ReadThumbnail(i) \/ RecordThumbnail(i) \/ LoseFile(i)

User ==
  \/ DeleteThumbnailRow \/ DeleteTags
  \/ \E i \in Images :
       BlacklistImage(i) \/ BeginDelete(i) \/ DeleteReads(i) \/ DeleteFile(i) \/ DeleteRow(i)

Failure ==
  \/ \E i \in Images : RenameFails(i)
  \/ ItemFails \/ ThumbnailFails \/ CountersFail \/ CompleteFails \/ DeleteFails \/ Crash

Next == Job \/ Tag \/ Thumbnail \/ User \/ Failure

Spec == Init /\ [][Next]_vars

-----------------------------------------------------------------------------
(* Properties. *)

\* An image the worker passed over undisturbed has every tag its source names,
\* in normal form, until a deletion begins: no other item, later job, failing
\* statement or crash takes a tag from it (SyncImageTags is additive).
TagsKept ==
  \A i \in tagged \cap DOMAIN images : \A k \in DOMAIN TagsOf[images[i]] :
    LET n == Normal[TagsOf[images[i]][k]]
    IN  n # Blank => \E t \in DOMAIN tags : tags[t].normal = n /\ <<i, t>> \in imageTags

\* An image the worker passed over undisturbed, with a file to start from, has
\* the row and the file of a thumbnail, and the file is whole unless the
\* process or the disk gave out while a lost thumbnail was rewritten in place:
\* a first thumbnail that was cut short is made again.
ThumbnailKept ==
  \A i \in shown :
    /\ i \in thumbnails /\ i \in DOMAIN files
    /\ files[i] = "whole" \/ i \in cut \/ Handles(i)

\* A thumbnail file has its row, unless its making was cut short or its image
\* was deleted while the worker had it in hand: DeleteImage on its own, wherever
\* it fails, leaves no file behind.
NoOrphanThumbnails ==
  \A i \in DOMAIN files :
    \/ i \in thumbnails \/ i \in excused
    \/ Handles(i) /\ worker.at \in {"in place", "record", "insert"}

Sum(counts) == counts["downloaded"] + counts["hardlinked"] + counts["copied"] + counts["skipped"]

\* The counters of a job never claim more than its attempts did, a device visited
\* or a blacklisted item passed over each, even when an attempt is repeated after
\* its counters were written; a job without a failure counts all of it, and no
\* image as stored that it did not create.
CountersTrue ==
  /\ Sum(job.counts) <= visited /\ job.counts["stored"] <= created
  /\ job.status = "succeeded" /\ clean => Sum(job.counts) = visited
=============================================================================
