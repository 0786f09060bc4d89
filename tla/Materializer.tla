---------------------------- MODULE Materializer ----------------------------
(***************************************************************************)
(* internal/runner/materialize.go beside internal/storage and the rows of  *)
(* internal/services/images: the worker turns what a source yields into    *)
(* image rows, files of the devices and image_locations rows, while HTTP   *)
(* requests blacklist and delete images and create, rename and delete      *)
(* devices.  One job runs at a time (module Lifecycle), so there is one    *)
(* worker; its statements and its file operations interleave with the      *)
(* requests.                                                               *)
(*                                                                         *)
(* A file name is the unique identifier of the item, so two sources can    *)
(* yield items with one file name.  A file is an inode, as hard links make *)
(* two paths share their content.  Extensions, thumbnails, tags, counters  *)
(* and the temporary file of a download are left out.                      *)
(***************************************************************************)
EXTENDS Naturals, Tables

CONSTANTS Sources,     \* rows of the table sources, all enabled
          Names,       \* unique identifiers, as BuildUniqueID forms them
          Devices,     \* ids a device row can have; an id is never used again
          Slugs,       \* what a device's directory can be called
          Images,      \* ids an image row can have; likewise
          Inodes,      \* files the file system can hold
          MaxPasses,   \* bound: jobs the worker runs
          MaxRequests, \* bound: requests that delete, rename or blacklist
          MaxFaults    \* bound: failures of a statement, a download or the process

ASSUME BoundsAssumption == MaxPasses \in Nat /\ MaxRequests \in Nat /\ MaxFaults \in Nat

Item     == [source : Sources, name : Names]
Path     == [slug : Slugs, name : Names]
Location == [image : Images, device : Devices, path : Path,
             kind : {"canonical", "hardlink", "copy"}]
Target   == [id : Devices, slug : Slugs]   \* a device as the job read it

VARIABLES
  images,      \* the table images: the item each row is for
  devices,     \* the table devices: the slug of each row
  assignments, \* the table image_assignments
  locations,   \* the table image_locations
  blacklist,   \* the table image_blacklists
  used,        \* ids of rows created so far, deleted ones included
  files,       \* the paths that exist, and the inode each one names
  content,     \* what an inode shows: an item, or nothing when it was truncated
  at,          \* the worker: the step it is about to execute
  job,         \* the source and the devices of its job
  item,        \* the item it works on, as a set of at most one
  image,       \* the image row it read for it, likewise
  known,       \* the locations it read for that image
  canonical,   \* the path of the canonical file among them, as a set
  left,        \* targets it has not come to for this item
  target,      \* the target it works on, as a set
  kind,        \* the storage kind of the file it has just made
  delete,      \* a DeleteImage request: its step, its image, paths to remove
  \* bookkeeping of the bounds:
  passes, requests, faults,
  \* history, never read by the program:
  quiet,       \* nothing failed and nothing was removed since the job began
  late,        \* what files were made for after it was blacklisted: item and device
  disturbed    \* whether something happened that may leave a file untracked

rowVars     == <<images, devices, assignments, locations, blacklist, used>>
fileVars    == <<files, content>>
workVars    == <<job, item, image, known, canonical, left, target, kind>>
counters    == <<passes, requests, faults>>
historyVars == <<quiet, late, disturbed>>
vars == <<rowVars, fileVars, at, workVars, delete, counters, historyVars>>

NoJob    == [source |-> {}, targets |-> {}]
NoDelete == [step |-> "idle", image |-> {}, paths |-> {}]

\* The foreign keys and the unique indexes of the migration.
Schema ==
  /\ assignments \subseteq (DOMAIN images) \X (DOMAIN devices)
  /\ \A l \in locations : l.image \in DOMAIN images /\ l.device \in DOMAIN devices
  /\ \A l, m \in locations : l.path = m.path => l = m
  /\ \A d, e \in DOMAIN devices : devices[d] = devices[e] => d = e
  /\ \A i, j \in DOMAIN images : images[i] = images[j] => i = j

RowsOK ==
  /\ images \in Table(Images, Item)
  /\ devices \in Table(Devices, Slugs)
  /\ locations \subseteq Location
  /\ blacklist \subseteq Item
  /\ used \subseteq Images \cup Devices
  /\ Schema

FilesOK ==
  /\ files \in Table(Path, Inodes)
  /\ content \in [Inodes -> SUBSET Item]

WorkOK ==
  /\ at \in {"idle", "fetch", "image", "locations", "device", "redownload",
             "download", "link", "copy", "assign", "locate"}
  /\ job \in [source : SUBSET Sources, targets : SUBSET Target]
  /\ item \subseteq Item /\ image \subseteq Images
  /\ known \subseteq Location /\ canonical \subseteq Path
  /\ left \subseteq Target /\ target \subseteq Target
  /\ kind \in {"canonical", "hardlink", "copy"}

DeleteOK ==
  delete \in [step : {"idle", "files", "failing", "assignments", "row"},
             image : SUBSET Images, paths : SUBSET Path]

HistoryOK == quiet \in BOOLEAN /\ late \subseteq Item \X Devices /\ disturbed \in BOOLEAN

\* Types of the variables, and the constraints the database enforces.
TypeOK == RowsOK /\ FilesOK /\ WorkOK /\ DeleteOK /\ HistoryOK

NoRow == [x \in {} |-> x]

Init ==
  /\ images = NoRow /\ devices = NoRow
  /\ assignments = {} /\ locations = {} /\ blacklist = {} /\ used = {}
  /\ files = NoRow /\ content = [n \in Inodes |-> {}]
  /\ at = "idle" /\ job = NoJob
  /\ item = {} /\ image = {} /\ known = {} /\ canonical = {}
  /\ left = {} /\ target = {} /\ kind = "canonical"
  /\ delete = NoDelete
  /\ passes = 0 /\ requests = 0 /\ faults = 0
  /\ quiet = FALSE /\ late = {} /\ disturbed = FALSE

-----------------------------------------------------------------------------
(* The file system. *)

InUse(fs) == {fs[p] : p \in DOMAIN fs}

\* The paths become fs; what n shows becomes c, and an inode without a path
\* shows nothing any more.
Become(fs, n, c) ==
  /\ files' = fs
  /\ content' = [m \in Inodes |-> IF m \notin InUse(fs) THEN {}
                                  ELSE IF m = n THEN c ELSE content[m]]

Remove(p) ==
  LET fs == Without(files, p)
  IN  /\ files' = fs
      /\ content' = [m \in Inodes |-> IF m \in InUse(fs) THEN content[m] ELSE {}]

-----------------------------------------------------------------------------
(* The worker: one job (processSourceSyncJob, MaterializeImage). *)

\* The worker's local state when it has no item in hand.
NoItem ==
  /\ item' = {} /\ image' = {} /\ known' = {} /\ canonical' = {}
  /\ left' = {} /\ target' = {} /\ kind' = "canonical"

\* GetSubscribedDevices: the devices of D are subscribed and enabled now.
StartSync(s, D) ==
  /\ at = "idle" /\ passes < MaxPasses
  /\ at' = "fetch" /\ passes' = passes + 1
  /\ job' = [source |-> {s}, targets |-> {[id |-> d, slug |-> devices[d]] : d \in D}]
  /\ quiet' = (delete.step = "idle")
  /\ disturbed' = (disturbed \/ delete.step # "idle")
  /\ UNCHANGED <<rowVars, fileVars, item, image, known, canonical, left, target,
                 kind, delete, requests, faults, late>>

\* Fault: the blacklist is not looked at.
NextItem_NoCheck(x) ==
  /\ at = "fetch" /\ x.source \in job.source
  /\ at' = "image" /\ item' = {x}
  /\ UNCHANGED <<rowVars, fileVars, job, image, known, canonical, left, target,
                 kind, delete, counters, historyVars>>

\* The source yields an item that is not blacklisted; one that is leaves the
\* worker where it is.
NextItem(x) ==
  /\ at = "fetch" /\ x.source \in job.source /\ x \notin blacklist
  /\ at' = "image" /\ item' = {x}
  /\ UNCHANGED <<rowVars, fileVars, job, image, known, canonical, left, target,
                 kind, delete, counters, historyVars>>

RowsOf(x) == {i \in DOMAIN images : images[i] = x}

GetOrCreateImage(x) ==
  /\ at = "image" /\ item = {x}
  /\ at' = "locations"
  /\ \/ /\ RowsOf(x) # {}
        /\ image' = RowsOf(x)
        /\ UNCHANGED <<images, used>>
     \/ /\ RowsOf(x) = {}
        /\ \E i \in Images \ used :
             /\ images' = With(images, i, x)
             /\ used' = used \cup {i}
             /\ image' = {i}
  /\ UNCHANGED <<devices, assignments, locations, blacklist, fileVars, job, item,
                 known, canonical, left, target, kind, delete, counters, historyVars>>

\* When all targets of the item are done, the worker asks for the next item.
AfterDevice(rest) ==
  /\ left' = rest
  /\ IF rest = {}
     THEN at' = "fetch" /\ NoItem
     ELSE /\ at' = "device" /\ target' = {} /\ kind' = "canonical"
          /\ UNCHANGED <<item, image, known, canonical>>

\* GetImageLocations; the rows come in any order and the last canonical one counts.
ReadLocations(i) ==
  /\ at = "locations" /\ image = {i}
  /\ known' = {l \in locations : l.image = i}
  /\ LET paths == {l.path : l \in {m \in known' : m.kind = "canonical"}}
     IN  IF paths = {} THEN canonical' = {} ELSE \E p \in paths : canonical' = {p}
  /\ at' = "device" /\ left' = job.targets
  /\ UNCHANGED <<rowVars, fileVars, job, item, image, target, kind, delete,
                 counters, historyVars>>

-----------------------------------------------------------------------------
(* The rules for one target. *)

Exists(p) == p \in DOMAIN files

Assigned(i, t) == <<i, t.id>> \in assignments

\* Fault: the row is trusted, the disk is not looked at.
HasFile_TrustsRow(t) == \E l \in known : l.device = t.id

HasFile(t) == \E l \in known : l.device = t.id /\ Exists(l.path)

\* Rule 1: assigned and the file exists.
Skip(i, t) ==
  /\ at = "device" /\ image = {i} /\ t \in left
  /\ Assigned(i, t) /\ HasFile(t)
  /\ AfterDevice(left \ {t})
  /\ UNCHANGED <<rowVars, fileVars, job, delete, counters, historyVars>>

\* The rule that applies to a target that needs a file.
Rule(i, t) ==
  IF Assigned(i, t) THEN "redownload"                            \* rule 2
  ELSE IF \E p \in canonical : Exists(p) THEN "link"             \* rule 3
  ELSE "download"                                                \* rule 4

Choose(i, t) ==
  /\ at = "device" /\ image = {i} /\ t \in left
  /\ ~(Assigned(i, t) /\ HasFile(t))
  /\ at' = Rule(i, t) /\ target' = {t} /\ left' = left \ {t}
  /\ UNCHANGED <<rowVars, fileVars, job, item, image, known, canonical, kind,
                 delete, counters, historyVars>>

\* History: a file was made for x on t.
MadeLate(x, t) == IF x \in blacklist THEN late \cup {<<x, t.id>>} ELSE late

TargetPath(x, t) == [slug |-> t.slug, name |-> x.name]

\* downloadToDevice: the temporary file is renamed over whatever the path names.
Download(x, t) ==
  /\ at \in {"download", "redownload"} /\ item = {x} /\ target = {t}
  /\ \E n \in Inodes \ InUse(files) :
       Become(With(files, TargetPath(x, t), n), n, {x})
  /\ at' = IF at = "redownload" THEN "locate" ELSE "assign"
  /\ kind' = "canonical" /\ late' = MadeLate(x, t)
  /\ UNCHANGED <<rowVars, job, item, image, known, canonical, left, target, delete,
                 counters, quiet, disturbed>>

\* CreateHardLink: link(2) refuses a target that exists, and a file system
\* without hard links refuses all.
Link(x, t, c) ==
  /\ at = "link" /\ item = {x} /\ target = {t} /\ canonical = {c}
  /\ Exists(c) /\ ~Exists(TargetPath(x, t))
  /\ files' = With(files, TargetPath(x, t), files[c])
  /\ at' = "assign" /\ kind' = "hardlink" /\ late' = MadeLate(x, t)
  /\ UNCHANGED <<rowVars, content, job, item, image, known, canonical, left, target,
                 delete, counters, quiet, disturbed>>

LinkFails ==
  /\ at = "link" /\ at' = "copy"
  /\ UNCHANGED <<rowVars, fileVars, workVars, delete, counters, historyVars>>

\* CopyFile: the target is truncated before the source is read.
Copy(x, t, c) ==
  /\ at = "copy" /\ item = {x} /\ target = {t} /\ canonical = {c} /\ Exists(c)
  /\ LET p == TargetPath(x, t)
     IN  \/ /\ Exists(p)
            /\ Become(files, files[p], IF files[p] = files[c] THEN {} ELSE content[files[c]])
         \/ /\ ~Exists(p)
            /\ \E n \in Inodes \ InUse(files) : Become(With(files, p, n), n, content[files[c]])
  /\ at' = "assign" /\ kind' = "copy" /\ late' = MadeLate(x, t)
  /\ UNCHANGED <<rowVars, job, item, image, known, canonical, left, target, delete,
                 counters, quiet, disturbed>>

\* The source of the copy is gone: the target stays as it is.
CopyFindsNothing(c) ==
  /\ at = "copy" /\ canonical = {c} /\ ~Exists(c)
  /\ AfterDevice(left)
  /\ UNCHANGED <<rowVars, fileVars, job, delete, counters, historyVars>>

\* EnsureImageAssignment; a foreign key that fails is only logged.
Assign(i, t) ==
  /\ at = "assign" /\ image = {i} /\ target = {t}
  /\ assignments' = IF i \in DOMAIN images /\ t.id \in DOMAIN devices
                    THEN assignments \cup {<<i, t.id>>} ELSE assignments
  /\ at' = "locate"
  /\ UNCHANGED <<images, devices, locations, blacklist, used, fileVars, workVars,
                 delete, counters, historyVars>>

\* Fault: the row is inserted whether or not there is one.
Located_Inserts(i, t, p, k) ==
  IF \/ i \notin DOMAIN images \/ t.id \notin DOMAIN devices
     \/ \E l \in locations : l.path = p
  THEN locations
  ELSE locations \cup {[image |-> i, device |-> t.id, path |-> p, kind |-> k]}

\* EnsureImageLocation: the row of the image and the device is updated, or one
\* is inserted; a foreign key or the unique path that fails is only logged.
Located(i, t, p, k) ==
  LET old == {l \in locations : l.image = i /\ l.device = t.id}
      new == [image |-> i, device |-> t.id, path |-> p, kind |-> k]
  IN  IF \/ i \notin DOMAIN images \/ t.id \notin DOMAIN devices
         \/ \E l \in locations \ old : l.path = p
      THEN locations
      ELSE (locations \ old) \cup {new}

Locate(x, i, t) ==
  /\ at = "locate" /\ item = {x} /\ image = {i} /\ target = {t}
  /\ locations' = Located(i, t, TargetPath(x, t), kind)
  /\ AfterDevice(left)
  /\ UNCHANGED <<images, devices, assignments, blacklist, used, fileVars, job,
                 delete, counters, historyVars>>

\* The source yields no more items.
EndSync ==
  /\ at = "fetch" /\ at' = "idle" /\ job' = NoJob /\ quiet' = FALSE
  /\ UNCHANGED <<rowVars, fileVars, item, image, known, canonical, left, target,
                 kind, delete, counters, late, disturbed>>

-----------------------------------------------------------------------------
(* Failures. *)

Fault ==
  /\ faults < MaxFaults /\ faults' = faults + 1
  /\ UNCHANGED <<passes, requests>>

\* A statement fails before the worker comes to the devices: the item is skipped.
ItemFails ==
  /\ at \in {"image", "locations"} /\ Fault
  /\ at' = "fetch" /\ quiet' = FALSE /\ NoItem
  /\ UNCHANGED <<rowVars, fileVars, job, delete, late, disturbed>>

\* The assignment cannot be read: the device is skipped.
LookFails(t) ==
  /\ at = "device" /\ t \in left /\ Fault
  /\ AfterDevice(left \ {t}) /\ quiet' = FALSE
  /\ UNCHANGED <<rowVars, fileVars, job, delete, late, disturbed>>

DownloadFails ==
  /\ at \in {"download", "redownload"} /\ Fault
  /\ AfterDevice(left) /\ quiet' = FALSE
  /\ UNCHANGED <<rowVars, fileVars, job, delete, late, disturbed>>

\* The disk is full: the target was created, or truncated, before.
CopyFails(x, t, c) ==
  /\ at = "copy" /\ item = {x} /\ target = {t} /\ canonical = {c} /\ Exists(c) /\ Fault
  /\ LET p == TargetPath(x, t)
     IN  \/ Exists(p) /\ Become(files, files[p], {})
         \/ ~Exists(p) /\ \E n \in Inodes \ InUse(files) : Become(With(files, p, n), n, {})
  /\ AfterDevice(left) /\ quiet' = FALSE /\ late' = MadeLate(x, t) /\ disturbed' = TRUE
  /\ UNCHANGED <<rowVars, job, delete>>

\* The error of either Ensure call is logged and the worker goes on.
AssignFails ==
  /\ at = "assign" /\ Fault
  /\ at' = "locate" /\ quiet' = FALSE /\ disturbed' = TRUE
  /\ UNCHANGED <<rowVars, fileVars, workVars, delete, late>>

LocateFails ==
  /\ at = "locate" /\ Fault
  /\ AfterDevice(left) /\ quiet' = FALSE /\ disturbed' = TRUE
  /\ UNCHANGED <<rowVars, fileVars, job, delete, late>>

\* The process ends at any point, and starts again.
Crash ==
  /\ at # "idle" \/ delete.step # "idle"
  /\ Fault
  /\ at' = "idle" /\ job' = NoJob /\ NoItem /\ delete' = NoDelete
  /\ quiet' = FALSE /\ disturbed' = TRUE
  /\ UNCHANGED <<rowVars, fileVars, late>>

-----------------------------------------------------------------------------
(* Requests of the user. *)

Request ==
  /\ requests < MaxRequests /\ requests' = requests + 1
  /\ UNCHANGED <<passes, faults, at, workVars>>

\* BlacklistImage takes the source and the identifier from the image row.
BlacklistImage(i) ==
  /\ i \in DOMAIN images /\ images[i] \notin blacklist /\ Request
  /\ blacklist' = blacklist \cup {images[i]}
  /\ UNCHANGED <<images, devices, assignments, locations, used, fileVars, delete,
                 historyVars>>

\* Fault: hard links and copies are left on the disk.
BeginDelete_CanonicalOnly(i) ==
  /\ delete.step = "idle" /\ i \in DOMAIN images /\ Request
  /\ LET paths == {l.path : l \in {m \in locations : m.image = i /\ m.kind = "canonical"}}
     IN  delete' = [step |-> IF paths = {} THEN "assignments" ELSE "files",
                    image |-> {i}, paths |-> paths]
  /\ quiet' = FALSE /\ disturbed' = (disturbed \/ at # "idle")
  /\ UNCHANGED <<rowVars, fileVars, late>>

\* DeleteImage reads the image and its locations; only if there are some does
\* it execute the statement that deletes them.
BeginDelete(i) ==
  /\ delete.step = "idle" /\ i \in DOMAIN images /\ Request
  /\ LET paths == {l.path : l \in {m \in locations : m.image = i}}
     IN  delete' = [step |-> IF paths = {} THEN "assignments" ELSE "files",
                    image |-> {i}, paths |-> paths]
  /\ quiet' = FALSE /\ disturbed' = (disturbed \/ at # "idle")
  /\ UNCHANGED <<rowVars, fileVars, late>>

RemoveFile(p) ==
  /\ delete.step \in {"files", "failing"} /\ p \in delete.paths
  /\ Remove(p)
  /\ delete' = [delete EXCEPT !.paths = @ \ {p}]
  /\ UNCHANGED <<rowVars, at, workVars, counters, historyVars>>

RemoveFails(p) ==
  /\ delete.step \in {"files", "failing"} /\ p \in delete.paths /\ Exists(p) /\ Fault
  /\ delete' = [delete EXCEPT !.step = "failing", !.paths = @ \ {p}]
  /\ UNCHANGED <<rowVars, fileVars, at, workVars, historyVars>>

\* A file that could not be removed: the rows stay.
DeleteFails ==
  /\ delete.step = "failing" /\ delete.paths = {}
  /\ delete' = NoDelete
  /\ UNCHANGED <<rowVars, fileVars, at, workVars, counters, historyVars>>

DeleteLocations ==
  /\ delete.step = "files" /\ delete.paths = {}
  /\ locations' = {l \in locations : l.image \notin delete.image}
  /\ delete' = [delete EXCEPT !.step = "assignments"]
  /\ UNCHANGED <<images, devices, assignments, blacklist, used, fileVars, at, workVars,
                 counters, historyVars>>

DeleteAssignments ==
  /\ delete.step = "assignments"
  /\ assignments' = {a \in assignments : a[1] \notin delete.image}
  /\ delete' = [delete EXCEPT !.step = "row"]
  /\ UNCHANGED <<images, devices, locations, blacklist, used, fileVars, at, workVars,
                 counters, historyVars>>

\* The rows that refer to the image go with it.
DeleteRow(i) ==
  /\ delete.step = "row" /\ delete.image = {i}
  /\ images' = Without(images, i)
  /\ assignments' = {a \in assignments : a[1] # i}
  /\ locations' = {l \in locations : l.image # i}
  /\ delete' = NoDelete
  /\ UNCHANGED <<devices, blacklist, used, fileVars, at, workVars, counters, historyVars>>

\* A statement of DeleteImage fails: the request ends where it is.
DeleteStatementFails ==
  /\ delete.step \in {"files", "assignments", "row"} /\ delete.paths = {} /\ Fault
  /\ delete' = NoDelete
  /\ UNCHANGED <<rowVars, fileVars, at, workVars, historyVars>>

Slugged(s) == \E d \in DOMAIN devices : devices[d] = s

CreateDevice(d, s) ==
  /\ d \notin used /\ ~Slugged(s)
  /\ devices' = With(devices, d, s)
  /\ used' = used \cup {d}
  /\ UNCHANGED <<images, assignments, locations, blacklist, fileVars, at, workVars,
                 delete, counters, historyVars>>

\* UpdateDevice: the files of the device stay where they are.
RenameDevice(d, s) ==
  /\ d \in DOMAIN devices /\ ~Slugged(s) /\ Request
  /\ devices' = [devices EXCEPT ![d] = s]
  /\ UNCHANGED <<images, assignments, locations, blacklist, used, fileVars, delete,
                 historyVars>>

\* Fault: the rows that refer to the device stay.
DeleteDevice_NoCascade(d) ==
  /\ d \in DOMAIN devices /\ Request
  /\ devices' = Without(devices, d)
  /\ quiet' = FALSE /\ disturbed' = TRUE
  /\ UNCHANGED <<images, assignments, locations, blacklist, used, fileVars, delete, late>>

\* The rows that refer to the device go with it, its files stay.
DeleteDevice(d) ==
  /\ d \in DOMAIN devices /\ Request
  /\ devices' = Without(devices, d)
  /\ assignments' = {a \in assignments : a[2] # d}
  /\ locations' = {l \in locations : l.device # d}
  /\ quiet' = FALSE /\ disturbed' = TRUE
  /\ UNCHANGED <<images, blacklist, used, fileVars, delete, late>>

\* Somebody removes a file from the disk.
LoseFile(p) ==
  /\ Exists(p) /\ Request
  /\ Remove(p)
  /\ quiet' = FALSE
  /\ UNCHANGED <<rowVars, delete, late, disturbed>>

-----------------------------------------------------------------------------
Sync ==
  \/ \E s \in Sources : \E D \in SUBSET DOMAIN devices : D # {} /\ StartSync(s, D)
  \/ \E x \in Item : NextItem(x) \/ GetOrCreateImage(x)
  \/ \E i \in image : ReadLocations(i) \/ (\E t \in left : Skip(i, t) \/ Choose(i, t))
  \/ \E x \in item, t \in target : Download(x, t)
  \/ \E x \in item, t \in target, c \in canonical : Link(x, t, c) \/ Copy(x, t, c)
  \/ LinkFails
  \/ \E c \in canonical : CopyFindsNothing(c)
  \/ \E i \in image, t \in target : Assign(i, t)
  \/ \E x \in item, i \in image, t \in target : Locate(x, i, t)
  \/ EndSync

Failure ==
  \/ ItemFails
  \/ \E t \in left : LookFails(t)
  \/ DownloadFails
  \/ \E x \in item, t \in target, c \in canonical : CopyFails(x, t, c)
  \/ AssignFails \/ LocateFails \/ Crash

User ==
  \/ \E i \in Images : BlacklistImage(i) \/ BeginDelete(i) \/ DeleteRow(i)
  \/ \E p \in Path : RemoveFile(p) \/ RemoveFails(p) \/ LoseFile(p)
  \/ DeleteFails \/ DeleteLocations \/ DeleteAssignments \/ DeleteStatementFails
  \/ \E d \in Devices :
       DeleteDevice(d) \/ (\E s \in Slugs : CreateDevice(d, s) \/ RenameDevice(d, s))

Next == Sync \/ Failure \/ User

Spec == Init /\ [][Next]_vars

-----------------------------------------------------------------------------
(* Properties. *)

\* An image has at most one location on a device, though no unique index says
\* so: EnsureImageLocation looks for the row before it inserts one.
OneLocationPerDevice ==
  \A l, m \in locations : l.image = m.image /\ l.device = m.device => l = m

Tracked(p) == \E l \in locations : l.path = p

\* The image is assigned to the target and has a file there, under the path the
\* database has for it or under the one the target has now, where another device's
\* row may track it until a row that a failure left unassigned moves on.
Served(x, i, t) ==
  /\ Assigned(i, t)
  /\ \/ \E l \in locations : l.image = i /\ l.device = t.id /\ Exists(l.path)
     \/ Exists(TargetPath(x, t)) /\ (disturbed \/ Tracked(TargetPath(x, t)))

\* The worker has an item whose locations it has read.
Handling == {"device", "redownload", "download", "link", "copy", "assign", "locate"}

\* The rules repair: whatever failed, crashed or was deleted before, once a job
\* during which nothing fails and nothing is removed has come past a target, the
\* item is assigned to that device and has a file there, also after the last one.
PassRepairs ==
  [][quiet' /\ at \in Handling =>
       \A x \in item, i \in image, t \in job.targets \ (left' \cup target') :
         Served(x, i, t)']_vars

\* The file the worker has made and not yet located.
InHand == IF at \in {"assign", "locate"}
          THEN {TargetPath(x, t) : x \in item, t \in target} ELSE {}

\* No file is lost from sight: unless a device was deleted, an image was deleted
\* during a job, or something failed, every file is one that DeleteImage would
\* remove, or the one the worker is about to locate.
NoOrphans ==
  ~disturbed => \A p \in DOMAIN files : Tracked(p) \/ p \in InHand

\* The step makes a file for x on t, whole or not.
FileMade(x, t) ==
  \/ Download(x, t)
  \/ \E c \in canonical : Link(x, t, c) \/ Copy(x, t, c) \/ CopyFails(x, t, c)

\* A blacklisting that comes while the worker has the item in hand, past
\* isBlacklisted, takes hold with the next item at the latest: no device gets a
\* second file of it afterwards, whatever is lost, fails, crashes or is tried again.
BlacklistTakesHold ==
  [][\A x \in item, t \in target :
       FileMade(x, t) /\ x \in blacklist => <<x, t.id>> \notin late]_vars

\* What DOES NOT hold: while no image is being deleted, the file of a location
\* shows the image of that location.  storage.go and the plan present CopyFile as
\* the fallback for a hard link that fails, and sources.go a unique identifier as
\* globally unique; but a copy onto its own source empties it, and two sources
\* can yield one identifier.
FilesShowTheirImages ==
  delete.step = "idle" =>
    \A l \in locations : Exists(l.path) => content[files[l.path]] = {images[l.image]}
=============================================================================
