------------------------ MODULE Materializer_proofs ------------------------
(***************************************************************************)
(* Proofs about module Materializer, for any rows, files and bounds: its   *)
(* types with the constraints of the schema, that an image has one         *)
(* location per device, that blacklisting an item takes hold, that no file *)
(* is lost from sight, and that a job repairs what it comes past.          *)
(***************************************************************************)
EXTENDS Materializer, Tables_proofs

-----------------------------------------------------------------------------
(* Which steps change what *)

\* The steps of the worker that write rows.
LEMMA SyncRows ==
  ASSUME Sync
  PROVE  \/ UNCHANGED rowVars
         \/ \E x \in Item : GetOrCreateImage(x)
         \/ \E i \in image, t \in target : Assign(i, t)
         \/ \E x \in item, i \in image, t \in target : Locate(x, i, t)
<1>1. ASSUME \/ \E D \in SUBSET DOMAIN devices, s \in Sources : StartSync(s, D)
             \/ EndSync \/ LinkFails \/ \E x \in Item : NextItem(x)
      PROVE  UNCHANGED rowVars
  BY <1>1 DEF StartSync, NextItem, LinkFails, EndSync
<1>2. ASSUME NEW i \in image,
             ReadLocations(i) \/ \E t \in left : Skip(i, t) \/ Choose(i, t)
      PROVE  UNCHANGED rowVars
  BY <1>2 DEF ReadLocations, Skip, Choose
<1>3. ASSUME NEW x \in item, NEW t \in target, Download(x, t)  PROVE UNCHANGED rowVars
  BY <1>3 DEF Download
<1>4. ASSUME NEW x \in item, NEW t \in target, NEW c \in canonical, Link(x, t, c) \/ Copy(x, t, c)
      PROVE  UNCHANGED rowVars
  BY <1>4 DEF Link, Copy
<1>5. ASSUME NEW c \in canonical, CopyFindsNothing(c)  PROVE UNCHANGED rowVars
  BY <1>5 DEF CopyFindsNothing
<1>. QED  BY <1>1, <1>2, <1>3, <1>4, <1>5 DEF Sync

LEMMA FailureRows ==
  ASSUME Failure
  PROVE  UNCHANGED rowVars
BY DEF Failure, ItemFails, LookFails, DownloadFails, CopyFails, AssignFails, LocateFails,
       Crash, rowVars

LEMMA UserRows ==
  ASSUME User
  PROVE  \/ UNCHANGED rowVars
         \/ \E i \in Images : BlacklistImage(i) \/ DeleteRow(i)
         \/ DeleteLocations \/ DeleteAssignments
         \/ \E d \in Devices :
              DeleteDevice(d) \/ (\E s \in Slugs : CreateDevice(d, s) \/ RenameDevice(d, s))
BY DEF User, BeginDelete, RemoveFile, RemoveFails, LoseFile, DeleteFails,
       DeleteStatementFails, rowVars

\* The steps that change files.
LEMMA FileSteps ==
  ASSUME Next
  PROVE  \/ UNCHANGED fileVars
         \/ \E x \in item, t \in target : Download(x, t)
         \/ \E x \in item, t \in target, c \in canonical :
              Link(x, t, c) \/ Copy(x, t, c) \/ CopyFails(x, t, c)
         \/ \E p \in Path : RemoveFile(p) \/ LoseFile(p)
<1>1. CASE Sync
  BY <1>1 DEF Sync, StartSync, NextItem, GetOrCreateImage, ReadLocations, Skip, Choose,
              LinkFails, CopyFindsNothing, Assign, Locate, EndSync, fileVars
<1>2. CASE Failure
  BY <1>2 DEF Failure, ItemFails, LookFails, DownloadFails, AssignFails, LocateFails,
              Crash, fileVars
<1>3. CASE User
  BY <1>3 DEF User, BlacklistImage, BeginDelete, DeleteRow, RemoveFails, DeleteFails,
              DeleteLocations, DeleteAssignments, DeleteStatementFails, DeleteDevice,
              CreateDevice, RenameDevice, fileVars
<1>. QED  BY <1>1, <1>2, <1>3 DEF Next

\* The steps that make a file at the target.
LEMMA MakesFile ==
  ASSUME NEW x, NEW t, Download(x, t) \/ \E c : Link(x, t, c) \/ Copy(x, t, c)
  PROVE  /\ DOMAIN files' = DOMAIN files \cup {TargetPath(x, t)}
         /\ at \in {"download", "redownload", "link", "copy"} /\ item = {x} /\ target = {t}
         /\ at' = IF at = "redownload" THEN "locate" ELSE "assign"
         /\ UNCHANGED <<rowVars, job, item, image, known, canonical, left, target, delete,
                        quiet, disturbed>>
         /\ late' = MadeLate(x, t)
<1>1. CASE Download(x, t)  BY <1>1 DEF Download, Become, With
<1>2. ASSUME NEW c, Link(x, t, c)
      PROVE  /\ DOMAIN files' = DOMAIN files \cup {TargetPath(x, t)}
             /\ at = "link" /\ item = {x} /\ target = {t} /\ at' = "assign"
             /\ UNCHANGED <<rowVars, job, item, image, known, canonical, left, target, delete,
                            quiet, disturbed>>
             /\ late' = MadeLate(x, t)
  BY <1>2 DEF Link, With
<1>3. ASSUME NEW c, Copy(x, t, c)
      PROVE  /\ DOMAIN files' = DOMAIN files \cup {TargetPath(x, t)}
             /\ at = "copy" /\ item = {x} /\ target = {t} /\ at' = "assign"
             /\ UNCHANGED <<rowVars, job, item, image, known, canonical, left, target, delete,
                            quiet, disturbed>>
             /\ late' = MadeLate(x, t)
  BY <1>3 DEF Copy, Become, With, Exists
<1>. QED  BY <1>1, <1>2, <1>3

\* Between the beginning and the end of a job the worker leaves the marks of what
\* disturbs it alone.
LEMMA SyncParts ==
  ASSUME Sync
  PROVE  \/ \E s \in Sources : \E D \in SUBSET DOMAIN devices : D # {} /\ StartSync(s, D)
         \/ \E x \in Item : NextItem(x)
         \/ EndSync
         \/ UNCHANGED <<quiet, disturbed, delete>>
<1>. DEFINE Within == UNCHANGED <<quiet, disturbed, delete>>
<1>1. ASSUME NEW x \in Item, GetOrCreateImage(x)  PROVE Within
  BY <1>1 DEF GetOrCreateImage, historyVars
<1>2. ASSUME NEW i \in image, ReadLocations(i)  PROVE Within
  BY <1>2 DEF ReadLocations, historyVars
<1>3. ASSUME NEW i \in image, NEW t \in left, Skip(i, t) \/ Choose(i, t)  PROVE Within
  BY <1>3 DEF Skip, Choose, historyVars
<1>4. ASSUME NEW x \in item, NEW t \in target,
             Download(x, t) \/ \E c \in canonical : Link(x, t, c) \/ Copy(x, t, c)
      PROVE  Within
  BY <1>4, MakesFile
<1>5. CASE LinkFails  BY <1>5 DEF LinkFails, workVars, historyVars
<1>6. ASSUME NEW c \in canonical, CopyFindsNothing(c)  PROVE Within
  BY <1>6 DEF CopyFindsNothing, historyVars
<1>7. ASSUME NEW i \in image, NEW t \in target, Assign(i, t)  PROVE Within
  BY <1>7 DEF Assign, workVars, historyVars
<1>8. ASSUME NEW x \in item, NEW i \in image, NEW t \in target, Locate(x, i, t)
      PROVE  Within
  BY <1>8 DEF Locate, historyVars
<1>. QED  BY <1>1, <1>2, <1>3, <1>4, <1>5, <1>6, <1>7, <1>8 DEF Sync

\* Only the steps that make a file mark what was made late.
LEMMA LateChange ==
  ASSUME [Next]_vars
  PROVE  \/ UNCHANGED late
         \/ \E x \in item, t \in target : late' = MadeLate(x, t)
<1>1. CASE UNCHANGED vars  BY <1>1 DEF vars, historyVars
<1>2. CASE Sync
  <2>1. ASSUME NEW x \in item, NEW t \in target,
               Download(x, t) \/ \E c \in canonical : Link(x, t, c) \/ Copy(x, t, c)
        PROVE  late' = MadeLate(x, t)
    BY <2>1, MakesFile
  <2>. QED  BY <1>2, <2>1 DEF Sync, StartSync, NextItem, GetOrCreateImage, ReadLocations, Skip,
               Choose, LinkFails, CopyFindsNothing, Assign, Locate, EndSync, historyVars
<1>3. CASE Failure
  BY <1>3 DEF Failure, ItemFails, LookFails, DownloadFails, CopyFails, AssignFails, LocateFails,
     Crash
<1>4. CASE User
  BY <1>4 DEF User, BlacklistImage, BeginDelete, DeleteRow, RemoveFile, RemoveFails, LoseFile,
     DeleteFails, DeleteLocations, DeleteAssignments, DeleteStatementFails, DeleteDevice,
     CreateDevice, RenameDevice, historyVars
<1>. QED  BY <1>1, <1>2, <1>3, <1>4 DEF Next

\* The user's requests leave the worker alone.
LEMMA UserWork ==
  ASSUME User
  PROVE  UNCHANGED <<at, workVars>>
BY DEF User, BlacklistImage, BeginDelete, DeleteRow, RemoveFile, RemoveFails, LoseFile,
       DeleteFails, DeleteLocations, DeleteAssignments, DeleteStatementFails,
       DeleteDevice, CreateDevice, RenameDevice, Request, workVars

-----------------------------------------------------------------------------
(* Types and constraints of the rows *)

LEMMA GetOrCreateRows ==
  ASSUME RowsOK, NEW x \in Item, GetOrCreateImage(x)
  PROVE  RowsOK'
<1>1. CASE UNCHANGED images
  BY <1>1 DEF RowsOK, Schema, GetOrCreateImage
<1>2. ASSUME RowsOf(x) = {}, NEW i \in Images \ used, images' = With(images, i, x),
             used' = used \cup {i}
      PROVE  RowsOK'
  <2>1. images \in Table(Images, Item)  BY DEF RowsOK
  <2>2. images' \in Table(Images, Item)  BY <1>2, <2>1, WithType
  <2>3. \A j \in DOMAIN images : images[j] # x  BY <1>2 DEF RowsOf
  <2>4. /\ DOMAIN images' = DOMAIN images \cup {i}
        /\ images'[i] = x
        /\ \A j \in DOMAIN images \ {i} : images'[j] = images[j]
    BY <1>2 DEF With
  <2>5. \A j, k \in DOMAIN images' : images'[j] = images'[k] => j = k
    BY <2>3, <2>4 DEF RowsOK, Schema
  <2>6. UNCHANGED <<devices, assignments, locations, blacklist>>  BY DEF GetOrCreateImage
  <2>7. used' \subseteq Images \cup Devices  BY <1>2 DEF RowsOK
  <2>. QED  BY <2>2, <2>4, <2>5, <2>6, <2>7 DEF RowsOK, Schema
<1>. QED  BY <1>1, <1>2 DEF GetOrCreateImage

LEMMA AssignRows ==
  ASSUME RowsOK, NEW i, NEW t, Assign(i, t)
  PROVE  RowsOK'
BY DEF RowsOK, Schema, Assign

\* What EnsureImageLocation leaves in the table.
LEMMA LocatedFacts ==
  ASSUME RowsOK, NEW i \in Images, NEW t \in Target, NEW p \in Path,
         NEW k \in {"canonical", "hardlink", "copy"}
  PROVE  /\ Located(i, t, p, k) \subseteq Location
         /\ \A l \in Located(i, t, p, k) : l.image \in DOMAIN images /\ l.device \in DOMAIN devices
         /\ \A l, m \in Located(i, t, p, k) : l.path = m.path => l = m
<1> DEFINE new == [image |-> i, device |-> t.id, path |-> p, kind |-> k]
           old == {l \in locations : l.image = i /\ l.device = t.id}
<1>1. new \in Location  BY DEF Location, Target
<1>2. CASE Located(i, t, p, k) = locations  BY <1>2 DEF RowsOK, Schema
<1>3. CASE /\ i \in DOMAIN images /\ t.id \in DOMAIN devices
           /\ \A l \in locations \ old : l.path # p
           /\ Located(i, t, p, k) = (locations \ old) \cup {new}
  <2>1. new.image = i /\ new.device = t.id /\ new.path = p  OBVIOUS
  <2> HIDE DEF new, old
  <2>. QED  BY <1>1, <1>3, <2>1 DEF RowsOK, Schema
<1>. QED  BY <1>2, <1>3 DEF Located

LEMMA LocateRows ==
  ASSUME RowsOK, WorkOK, NEW x \in item, NEW i \in image, NEW t \in target, Locate(x, i, t)
  PROVE  RowsOK'
<1>1. i \in Images /\ t \in Target /\ kind \in {"canonical", "hardlink", "copy"}  BY DEF WorkOK
<1>2. TargetPath(x, t) \in Path  BY DEF WorkOK, TargetPath, Path, Item, Target
<1>3. /\ locations' = Located(i, t, TargetPath(x, t), kind)
      /\ UNCHANGED <<images, devices, assignments, blacklist, used>>
  BY DEF Locate
<1>4. /\ locations' \subseteq Location
      /\ \A l \in locations' : l.image \in DOMAIN images /\ l.device \in DOMAIN devices
      /\ \A l, m \in locations' : l.path = m.path => l = m
  BY <1>1, <1>2, <1>3, LocatedFacts
<1>. QED  BY <1>3, <1>4 DEF RowsOK, Schema

LEMMA BlacklistRows ==
  ASSUME RowsOK, NEW i, BlacklistImage(i)
  PROVE  RowsOK'
<1>1. images[i] \in Item  BY TableFacts DEF RowsOK, BlacklistImage
<1>. QED  BY <1>1 DEF RowsOK, Schema, BlacklistImage

LEMMA DeleteRowRows ==
  ASSUME RowsOK, NEW i, DeleteRow(i)
  PROVE  RowsOK'
<1>1. images \in Table(Images, Item)  BY DEF RowsOK
<1>2. images' = Without(images, i)  BY DEF DeleteRow
<1>3. images' \in Table(Images, Item)  BY <1>1, <1>2, WithoutType
<1>4. /\ DOMAIN images' = DOMAIN images \ {i}
      /\ \A j \in DOMAIN images' : images'[j] = images[j]
  BY <1>2 DEF Without
<1>5. \A j, k \in DOMAIN images' : images'[j] = images'[k] => j = k
  BY <1>4 DEF RowsOK, Schema
<1>6. /\ assignments' = {a \in assignments : a[1] # i}
      /\ locations' = {l \in locations : l.image # i}
      /\ UNCHANGED <<devices, blacklist, used>>
  BY DEF DeleteRow
<1>. QED  BY <1>3, <1>4, <1>5, <1>6 DEF RowsOK, Schema

LEMMA DeleteDeviceRows ==
  ASSUME RowsOK, NEW d, DeleteDevice(d)
  PROVE  RowsOK'
<1>1. devices \in Table(Devices, Slugs)  BY DEF RowsOK
<1>2. devices' = Without(devices, d)  BY DEF DeleteDevice
<1>3. devices' \in Table(Devices, Slugs)  BY <1>1, <1>2, WithoutType
<1>4. /\ DOMAIN devices' = DOMAIN devices \ {d}
      /\ \A e \in DOMAIN devices' : devices'[e] = devices[e]
  BY <1>2 DEF Without
<1>5. \A e, f \in DOMAIN devices' : devices'[e] = devices'[f] => e = f
  BY <1>4 DEF RowsOK, Schema
<1>6. /\ assignments' = {a \in assignments : a[2] # d}
      /\ locations' = {l \in locations : l.device # d}
      /\ UNCHANGED <<images, blacklist, used>>
  BY DEF DeleteDevice
<1>. QED  BY <1>3, <1>4, <1>5, <1>6 DEF RowsOK, Schema

LEMMA CreateDeviceRows ==
  ASSUME RowsOK, NEW d \in Devices, NEW s \in Slugs, CreateDevice(d, s)
  PROVE  RowsOK'
<1>1. devices \in Table(Devices, Slugs)  BY DEF RowsOK
<1>2. devices' = With(devices, d, s)  BY DEF CreateDevice
<1>3. devices' \in Table(Devices, Slugs)  BY <1>1, <1>2, WithType
<1>4. /\ DOMAIN devices' = DOMAIN devices \cup {d}
      /\ devices'[d] = s
      /\ \A e \in DOMAIN devices \ {d} : devices'[e] = devices[e]
  BY <1>2 DEF With
<1>5. \A e \in DOMAIN devices : devices[e] # s  BY DEF CreateDevice, Slugged
<1>6. \A e, f \in DOMAIN devices' : devices'[e] = devices'[f] => e = f
  BY <1>4, <1>5 DEF RowsOK, Schema
<1>7. used' \subseteq Images \cup Devices  BY DEF RowsOK, CreateDevice
<1>8. UNCHANGED <<images, assignments, locations, blacklist>>  BY DEF CreateDevice
<1>. QED  BY <1>3, <1>4, <1>6, <1>7, <1>8 DEF RowsOK, Schema

LEMMA RenameDeviceRows ==
  ASSUME RowsOK, NEW d \in Devices, NEW s \in Slugs, RenameDevice(d, s)
  PROVE  RowsOK'
<1>1. devices' = [devices EXCEPT ![d] = s] /\ d \in DOMAIN devices  BY DEF RenameDevice
<1>2. devices' \in Table(Devices, Slugs)
  <2>1. devices \in Table(Devices, Slugs)  BY DEF RowsOK
  <2>2. (DOMAIN devices) \cup {d} = DOMAIN devices  BY <1>1
  <2>3. With(devices, d, s) = [e \in DOMAIN devices |-> IF e = d THEN s ELSE devices[e]]
    BY <2>2 DEF With
  <2>4. devices' = [e \in DOMAIN devices |-> IF e = d THEN s ELSE devices[e]]  BY <1>1
  <2>. QED  BY <2>1, <2>3, <2>4, WithType
<1>3. \A e \in DOMAIN devices : devices[e] # s  BY DEF RenameDevice, Slugged
<1>4. /\ DOMAIN devices' = DOMAIN devices
      /\ devices'[d] = s
      /\ \A e \in DOMAIN devices \ {d} : devices'[e] = devices[e]
  BY <1>1
<1>5. \A e, f \in DOMAIN devices' : devices'[e] = devices'[f] => e = f
  BY <1>3, <1>4 DEF RowsOK, Schema
<1>6. UNCHANGED <<images, assignments, locations, blacklist, used>>  BY DEF RenameDevice
<1>. QED  BY <1>2, <1>4, <1>5, <1>6 DEF RowsOK, Schema

LEMMA RowsStep ==
  ASSUME RowsOK, WorkOK, [Next]_vars
  PROVE  RowsOK'
<1>1. CASE UNCHANGED rowVars  BY <1>1 DEF RowsOK, Schema, rowVars
<1>2. CASE UNCHANGED vars  BY <1>1, <1>2 DEF vars
<1>3. CASE Sync  BY <1>1, <1>3, SyncRows, GetOrCreateRows, AssignRows, LocateRows
<1>4. CASE Failure  BY <1>1, <1>4, FailureRows
<1>5. CASE User
  <2>1. CASE DeleteLocations  BY <2>1 DEF RowsOK, Schema, DeleteLocations
  <2>2. CASE DeleteAssignments  BY <2>2 DEF RowsOK, Schema, DeleteAssignments
  <2>. QED  BY <1>1, <1>5, <2>1, <2>2, UserRows, BlacklistRows, DeleteRowRows,
               DeleteDeviceRows, CreateDeviceRows, RenameDeviceRows
<1>. QED  BY <1>2, <1>3, <1>4, <1>5 DEF Next

-----------------------------------------------------------------------------
(* Types of the files *)

LEMMA BecomeType ==
  ASSUME FilesOK, NEW fs \in Table(Path, Inodes), NEW n, NEW c \in SUBSET Item, Become(fs, n, c)
  PROVE  FilesOK'
BY DEF FilesOK, Become

LEMMA RemoveType ==
  ASSUME FilesOK, NEW p, Remove(p)
  PROVE  FilesOK'
<1>1. files' = Without(files, p) /\ files \in Table(Path, Inodes)  BY DEF FilesOK, Remove
<1>2. files' \in Table(Path, Inodes)  BY <1>1, WithoutType
<1>3. content' \in [Inodes -> SUBSET Item]  BY DEF FilesOK, Remove
<1>. QED  BY <1>2, <1>3 DEF FilesOK

\* What a step that makes a file names and reads.
LEMMA PathFacts ==
  ASSUME FilesOK, WorkOK, NEW x \in item, NEW t \in target
  PROVE  /\ TargetPath(x, t) \in Path
         /\ x \in Item
         /\ \A p \in DOMAIN files : files[p] \in Inodes /\ content[files[p]] \in SUBSET Item
         /\ \A n \in Inodes : With(files, TargetPath(x, t), n) \in Table(Path, Inodes)
<1>1. files \in Table(Path, Inodes)  BY DEF FilesOK
<1>2. TargetPath(x, t) \in Path /\ x \in Item
  BY DEF WorkOK, TargetPath, Path, Item, Target
<1>3. \A p \in DOMAIN files : files[p] \in Inodes  BY <1>1, TableFacts
<1>4. \A n \in Inodes : With(files, TargetPath(x, t), n) \in Table(Path, Inodes)
  BY <1>1, <1>2, WithType
<1>. QED  BY <1>2, <1>3, <1>4 DEF FilesOK

LEMMA DownloadFiles ==
  ASSUME FilesOK, WorkOK, NEW x \in item, NEW t \in target, Download(x, t)
  PROVE  FilesOK'
<1>1. PICK n \in Inodes : Become(With(files, TargetPath(x, t), n), n, {x})
  BY DEF Download
<1>. QED  BY <1>1, PathFacts, BecomeType

LEMMA LinkFiles ==
  ASSUME FilesOK, WorkOK, NEW x \in item, NEW t \in target, NEW c \in canonical, Link(x, t, c)
  PROVE  FilesOK'
<1>1. /\ c \in DOMAIN files
      /\ files' = With(files, TargetPath(x, t), files[c])
      /\ UNCHANGED content
  BY DEF Link, Exists
<1>. QED  BY <1>1, PathFacts DEF FilesOK

LEMMA CopyFiles ==
  ASSUME FilesOK, WorkOK, NEW x \in item, NEW t \in target, NEW c \in canonical,
         Copy(x, t, c) \/ CopyFails(x, t, c)
  PROVE  FilesOK'
<1>1. c \in DOMAIN files  BY DEF Copy, CopyFails, Exists
<1>2. content[files[c]] \in SUBSET Item  BY <1>1, PathFacts
<1>3. CASE \E d \in {{}, content[files[c]]} : Become(files, files[TargetPath(x, t)], d)
  BY <1>2, <1>3, BecomeType DEF FilesOK
<1>4. CASE \E n \in Inodes, d \in {{}, content[files[c]]} :
             Become(With(files, TargetPath(x, t), n), n, d)
  BY <1>2, <1>4, BecomeType, PathFacts
<1>. QED  BY <1>3, <1>4 DEF Copy, CopyFails

LEMMA FilesStep ==
  ASSUME FilesOK, WorkOK, [Next]_vars
  PROVE  FilesOK'
<1>1. CASE UNCHANGED fileVars  BY <1>1 DEF FilesOK, fileVars
<1>2. CASE UNCHANGED vars  BY <1>1, <1>2 DEF vars
<1>3. ASSUME NEW p \in Path, RemoveFile(p) \/ LoseFile(p)
      PROVE  FilesOK'
  BY <1>3, RemoveType DEF RemoveFile, LoseFile
<1>. QED  BY <1>1, <1>2, <1>3, FileSteps, DownloadFiles, LinkFiles, CopyFiles

-----------------------------------------------------------------------------
(* Types of the worker's memory and of the request *)

LEMMA NoItemType ==
  ASSUME WorkOK, NoItem, UNCHANGED job, at' \in {"idle", "fetch"}
  PROVE  WorkOK'
BY DEF WorkOK, NoItem

LEMMA AfterDeviceType ==
  ASSUME WorkOK, NEW rest \in SUBSET Target, AfterDevice(rest), UNCHANGED job
  PROVE  WorkOK'
BY DEF WorkOK, AfterDevice, NoItem

LEMMA StartSyncType ==
  ASSUME RowsOK, WorkOK, NEW s \in Sources, NEW D \in SUBSET DOMAIN devices, StartSync(s, D)
  PROVE  WorkOK'
<1>1. devices \in Table(Devices, Slugs)  BY DEF RowsOK
<1>2. \A d \in D : d \in Devices /\ devices[d] \in Slugs  BY <1>1, TableFacts
<1>3. {[id |-> d, slug |-> devices[d]] : d \in D} \subseteq Target  BY <1>2 DEF Target
<1>4. job' \in [source : SUBSET Sources, targets : SUBSET Target]  BY <1>3 DEF StartSync
<1>. QED  BY <1>4 DEF WorkOK, StartSync

LEMMA GetOrCreateType ==
  ASSUME RowsOK, WorkOK, NEW x \in Item, GetOrCreateImage(x)
  PROVE  WorkOK'
<1>1. images \in Table(Images, Item)  BY DEF RowsOK
<1>2. RowsOf(x) \subseteq Images  BY <1>1, TableFacts DEF RowsOf
<1>. QED  BY <1>2 DEF WorkOK, GetOrCreateImage

LEMMA ReadLocationsType ==
  ASSUME RowsOK, WorkOK, NEW i \in image, ReadLocations(i)
  PROVE  WorkOK'
<1>1. known' \subseteq Location  BY DEF RowsOK, ReadLocations
<1>2. \A l \in known' : l.path \in Path  BY <1>1 DEF Location
<1>3. canonical' \subseteq Path  BY <1>2 DEF ReadLocations
<1>. QED  BY <1>1, <1>3 DEF WorkOK, ReadLocations

LEMMA WorkStep ==
  ASSUME RowsOK, WorkOK, [Next]_vars
  PROVE  WorkOK'
<1>1. CASE UNCHANGED vars  BY <1>1 DEF vars, workVars, WorkOK
<1>2. CASE User  BY <1>2, UserWork DEF workVars, WorkOK
<1>3. CASE Failure
  <2>1. CASE ItemFails  BY <2>1, NoItemType DEF ItemFails
  <2>2. ASSUME NEW t \in left, LookFails(t)  PROVE WorkOK'
    <3>1. left \ {t} \in SUBSET Target  BY DEF WorkOK
    <3>. QED  BY <2>2, <3>1, AfterDeviceType DEF LookFails
  <2>3. left \in SUBSET Target  BY DEF WorkOK
  <2>4. CASE DownloadFails  BY <2>3, <2>4, AfterDeviceType DEF DownloadFails
  <2>5. ASSUME NEW x \in item, NEW t \in target, NEW c \in canonical, CopyFails(x, t, c)
        PROVE  WorkOK'
    BY <2>3, <2>5, AfterDeviceType DEF CopyFails
  <2>6. CASE AssignFails  BY <2>6 DEF AssignFails, WorkOK, workVars
  <2>7. CASE LocateFails  BY <2>3, <2>7, AfterDeviceType DEF LocateFails
  <2>8. CASE Crash  BY <2>8 DEF Crash, NoItem, NoJob, WorkOK
  <2>. QED  BY <1>3, <2>1, <2>2, <2>4, <2>5, <2>6, <2>7, <2>8 DEF Failure
<1>4. CASE Sync
  <2>1. left \in SUBSET Target  BY DEF WorkOK
  <2>2. CASE \E s \in Sources : \E D \in SUBSET DOMAIN devices : D # {} /\ StartSync(s, D)
    BY <2>2, StartSyncType
  <2>3. ASSUME NEW x \in Item, NextItem(x)  PROVE WorkOK'
    BY <2>3 DEF NextItem, WorkOK
  <2>4. ASSUME NEW x \in Item, GetOrCreateImage(x)  PROVE WorkOK'
    BY <2>4, GetOrCreateType
  <2>5. ASSUME NEW i \in image, ReadLocations(i)  PROVE WorkOK'
    BY <2>5, ReadLocationsType
  <2>6. ASSUME NEW i \in image, NEW t \in left, Skip(i, t)  PROVE WorkOK'
    <3>1. left \ {t} \in SUBSET Target  BY DEF WorkOK
    <3>. QED  BY <2>6, <3>1, AfterDeviceType DEF Skip
  <2>7. ASSUME NEW i \in image, NEW t \in left, Choose(i, t)  PROVE WorkOK'
    BY <2>7 DEF Choose, Rule, WorkOK
  <2>8. ASSUME NEW x \in item, NEW t \in target, Download(x, t)  PROVE WorkOK'
    BY <2>8 DEF Download, WorkOK
  <2>9. ASSUME NEW x \in item, NEW t \in target, NEW c \in canonical,
               Link(x, t, c) \/ Copy(x, t, c)
        PROVE  WorkOK'
    BY <2>9 DEF Link, Copy, WorkOK
  <2>10. CASE LinkFails  BY <2>10 DEF LinkFails, workVars, WorkOK
  <2>11. ASSUME NEW c \in canonical, CopyFindsNothing(c)  PROVE WorkOK'
    BY <2>1, <2>11, AfterDeviceType DEF CopyFindsNothing
  <2>12. ASSUME NEW i \in image, NEW t \in target, Assign(i, t)  PROVE WorkOK'
    BY <2>12 DEF Assign, workVars, WorkOK
  <2>13. ASSUME NEW x \in item, NEW i \in image, NEW t \in target, Locate(x, i, t)
         PROVE  WorkOK'
    BY <2>1, <2>13, AfterDeviceType DEF Locate
  <2>14. CASE EndSync  BY <2>14 DEF EndSync, NoJob, WorkOK
  <2>. QED  BY <1>4, <2>2, <2>3, <2>4, <2>5, <2>6, <2>7, <2>8, <2>9, <2>10, <2>11, <2>12,
               <2>13, <2>14 DEF Sync
<1>. QED  BY <1>1, <1>2, <1>3, <1>4 DEF Next

LEMMA BeginDeleteType ==
  ASSUME RowsOK, NEW i \in Images, BeginDelete(i)
  PROVE  DeleteOK'
<1> DEFINE paths == {l.path : l \in {m \in locations : m.image = i}}
<1>1. paths \subseteq Path  BY DEF RowsOK, Location
<1>2. delete' = [step |-> IF paths = {} THEN "assignments" ELSE "files",
                 image |-> {i}, paths |-> paths]
  BY DEF BeginDelete
<1>. QED  BY <1>1, <1>2 DEF DeleteOK

LEMMA DeleteStep ==
  ASSUME RowsOK, DeleteOK, [Next]_vars
  PROVE  DeleteOK'
<1>1. CASE UNCHANGED delete  BY <1>1 DEF DeleteOK
<1>2. CASE UNCHANGED vars  BY <1>1, <1>2 DEF vars
<1>3. CASE Sync  BY <1>1, <1>3, SyncParts DEF StartSync, NextItem, EndSync
<1>4. CASE Failure
  <2>1. NoDelete \in [step : {"idle", "files", "failing", "assignments", "row"},
                      image : SUBSET Images, paths : SUBSET Path]
    BY DEF NoDelete
  <2>2. CASE delete' = NoDelete  BY <2>1, <2>2 DEF DeleteOK
  <2>. QED  BY <1>1, <1>4, <2>2 DEF Failure, ItemFails, LookFails, DownloadFails, CopyFails,
               AssignFails, LocateFails, Crash
<1>5. CASE User
  <2>1. NoDelete \in [step : {"idle", "files", "failing", "assignments", "row"},
                      image : SUBSET Images, paths : SUBSET Path]
    BY DEF NoDelete
  <2>2. CASE delete' = NoDelete  BY <2>1, <2>2 DEF DeleteOK
  <2>3. ASSUME NEW p \in Path, RemoveFile(p) \/ RemoveFails(p)  PROVE DeleteOK'
    BY <2>3 DEF RemoveFile, RemoveFails, DeleteOK
  <2>4. CASE DeleteLocations \/ DeleteAssignments
    BY <2>4 DEF DeleteLocations, DeleteAssignments, DeleteOK
  <2>. QED  BY <1>1, <1>5, <2>2, <2>3, <2>4, BeginDeleteType
            DEF User, BlacklistImage, DeleteRow, LoseFile, DeleteFails, DeleteStatementFails,
                DeleteDevice, CreateDevice, RenameDevice
<1>. QED  BY <1>2, <1>3, <1>4, <1>5 DEF Next

LEMMA HistoryStep ==
  ASSUME WorkOK, HistoryOK, [Next]_vars
  PROVE  HistoryOK'
<1>0. late' \subseteq Item \X Devices
  <2>1. ASSUME NEW x \in item, NEW t \in target  PROVE MadeLate(x, t) \subseteq Item \X Devices
    BY DEF MadeLate, HistoryOK, WorkOK, Target
  <2>. QED  BY <2>1, LateChange DEF HistoryOK
<1>1. CASE UNCHANGED vars  BY <1>1 DEF vars, historyVars, HistoryOK
<1>2. CASE Sync
  <2>2. \/ UNCHANGED <<quiet, disturbed>>
        \/ quiet' = (delete.step = "idle") /\ disturbed' = (disturbed \/ delete.step # "idle")
        \/ quiet' = FALSE /\ UNCHANGED disturbed
    BY <1>2, SyncParts DEF StartSync, NextItem, EndSync, historyVars
  <2>3. quiet' \in BOOLEAN /\ disturbed' \in BOOLEAN  BY <2>2 DEF HistoryOK
  <2>. QED  BY <1>0, <2>3 DEF HistoryOK
<1>3. CASE Failure
  BY <1>0, <1>3
     DEF HistoryOK, Failure, ItemFails, LookFails, DownloadFails, CopyFails, AssignFails,
         LocateFails, Crash
<1>4. CASE User
  BY <1>0, <1>4 DEF HistoryOK, User, BlacklistImage, BeginDelete, DeleteRow, RemoveFile,
         RemoveFails, LoseFile, DeleteFails, DeleteLocations, DeleteAssignments,
         DeleteStatementFails, DeleteDevice, CreateDevice, RenameDevice, historyVars
<1>. QED  BY <1>1, <1>2, <1>3, <1>4 DEF Next

LEMMA TypeInit ==
  ASSUME Init
  PROVE  TypeOK
<1>1. \A Ids, Row : NoRow \in Table(Ids, Row)  BY DEF NoRow, Table
<1>2. RowsOK  BY <1>1 DEF Init, RowsOK, Schema, NoRow
<1>3. FilesOK  BY <1>1 DEF Init, FilesOK
<1>4. WorkOK  BY DEF Init, WorkOK, NoJob
<1>5. DeleteOK  BY DEF Init, DeleteOK, NoDelete
<1>6. HistoryOK  BY DEF Init, HistoryOK
<1>. QED  BY <1>2, <1>3, <1>4, <1>5, <1>6 DEF TypeOK

LEMMA TypeStep ==
  ASSUME TypeOK, [Next]_vars
  PROVE  TypeOK'
BY RowsStep, FilesStep, WorkStep, DeleteStep, HistoryStep DEF TypeOK

\* The rows, files and the memory of the worker have their types, and the rows keep
\* the foreign keys and unique indexes of the schema, whatever is deleted in
\* between two statements of the worker.
THEOREM TypeCorrect == Spec => []TypeOK
BY TypeInit, TypeStep, PTL DEF Spec

-----------------------------------------------------------------------------
(* One location per device *)

LEMMA OneLocationStep ==
  ASSUME OneLocationPerDevice, [Next]_vars
  PROVE  OneLocationPerDevice'
<1>1. CASE locations' \subseteq locations  BY <1>1 DEF OneLocationPerDevice
<1>2. CASE UNCHANGED rowVars \/ UNCHANGED vars  BY <1>1, <1>2 DEF rowVars, vars
<1>3. ASSUME NEW x \in item, NEW i \in image, NEW t \in target, Locate(x, i, t)
      PROVE  OneLocationPerDevice'
  <2> DEFINE p   == TargetPath(x, t)
             new == [image |-> i, device |-> t.id, path |-> p, kind |-> kind]
             old == {l \in locations : l.image = i /\ l.device = t.id}
  <2>1. CASE locations' = locations  BY <1>1, <2>1
  <2>2. CASE locations' = (locations \ old) \cup {new}
    <3>1. new.image = i /\ new.device = t.id  OBVIOUS
    <3> HIDE DEF new
    <3>. QED  BY <2>2, <3>1 DEF OneLocationPerDevice
  <2>. QED  BY <1>3, <2>1, <2>2 DEF Locate, Located
<1>4. CASE Sync
  BY <1>1, <1>2, <1>3, <1>4, SyncRows DEF GetOrCreateImage, Assign
<1>5. CASE Failure  BY <1>2, <1>5, FailureRows
<1>6. CASE User
  BY <1>1, <1>2, <1>6, UserRows
     DEF BlacklistImage, DeleteRow, DeleteLocations, DeleteAssignments, DeleteDevice,
         CreateDevice, RenameDevice
<1>. QED  BY <1>2, <1>4, <1>5, <1>6 DEF Next

\* An image has at most one location on a device, without a unique index that says so.
THEOREM OneLocationCorrect == Spec => []OneLocationPerDevice
<1>1. Init => OneLocationPerDevice  BY DEF Init, OneLocationPerDevice
<1>. QED  BY <1>1, OneLocationStep, PTL DEF Spec

-----------------------------------------------------------------------------
(* The worker's targets *)

\* The worker has a target in hand.
Serving == Handling \ {"device"}

\* No step fails or removes something behind the worker's back: since the job began,
\* or ever.
Calm == quiet \/ ~disturbed

TargetsOK ==
  /\ at \notin Serving => target = {}
  /\ \A t, u \in job.targets : t.id = u.id => t = u
  /\ at \in Handling => left \cup target \subseteq job.targets /\ left \cap target = {}

\* While nothing disturbs the worker, no image is deleted and the rows of its image
\* and of its targets are there.
Present ==
  Calm =>
    /\ at = "idle" \/ delete.step = "idle"
    /\ at \in Handling \cup {"locations"} => image \subseteq DOMAIN images
    /\ at # "idle" => \A t \in job.targets : t.id \in DOMAIN devices

LEMMA AfterDeviceFacts ==
  ASSUME NEW rest, AfterDevice(rest)
  PROVE  /\ at' \in {"fetch", "device"} /\ left' = rest /\ target' = {}
         /\ at' = "fetch" => item' = {} /\ image' = {}
         /\ at' = "device" => UNCHANGED <<item, image, known, canonical>>
BY DEF AfterDevice, NoItem

\* A failure that leaves the worker calm drops the item, or the target.
LEMMA CalmFailure ==
  ASSUME Failure, HistoryOK
  PROVE  /\ UNCHANGED <<images, devices, assignments, locations>> /\ quiet' = FALSE
         /\ disturbed => disturbed'
         /\ \/ /\ at \in {"image", "locations"} /\ at' = "fetch" /\ NoItem
               /\ UNCHANGED <<fileVars, job, delete, disturbed>>
            \/ /\ at \in Handling /\ UNCHANGED <<fileVars, job, delete, disturbed>>
               /\ at \notin {"assign", "locate"}
               /\ \E rest \in SUBSET left : AfterDevice(rest)
            \/ disturbed'
<1>1. CASE ItemFails  BY <1>1 DEF ItemFails, rowVars
<1>2. ASSUME NEW t \in left, LookFails(t)  PROVE \E rest \in SUBSET left : AfterDevice(rest)
  BY <1>2 DEF LookFails
<1>3. CASE DownloadFails
  BY <1>3 DEF DownloadFails, rowVars, Handling
<1>4. CASE \E t \in left : LookFails(t)
  BY <1>2, <1>4 DEF LookFails, rowVars, Handling
<1>5. CASE \/ \E x \in item, t \in target, c \in canonical : CopyFails(x, t, c)
           \/ AssignFails \/ LocateFails \/ Crash
  BY <1>5 DEF CopyFails, AssignFails, LocateFails, Crash, rowVars
<1>. QED  BY <1>1, <1>3, <1>4, <1>5 DEF Failure

\* What the requests do to a calm worker at work: files may get lost, rows may come.
LEMMA CalmUser ==
  ASSUME User, HistoryOK, Present, Calm'
  PROVE  /\ Calm /\ UNCHANGED <<at, workVars>> /\ (quiet' => quiet) /\ (disturbed => disturbed')
         /\ at # "idle" =>
              /\ UNCHANGED <<images, assignments, locations, delete, disturbed>>
              /\ DOMAIN devices \subseteq DOMAIN devices'
              /\ DOMAIN files' \subseteq DOMAIN files
              /\ quiet' => UNCHANGED files
<1>1. UNCHANGED <<at, workVars>>  BY UserWork
<1>2. (quiet' => quiet) /\ (disturbed => disturbed')
  <2>1. \/ UNCHANGED <<quiet, disturbed>>
        \/ quiet' = FALSE /\ UNCHANGED disturbed
        \/ quiet' = FALSE /\ disturbed' = (disturbed \/ at # "idle")
        \/ quiet' = FALSE /\ disturbed' = TRUE
    BY DEF User, BlacklistImage, BeginDelete, DeleteRow, RemoveFile, RemoveFails,
           LoseFile, DeleteFails, DeleteLocations, DeleteAssignments, DeleteStatementFails,
           DeleteDevice, CreateDevice, RenameDevice, historyVars
  <2>2. quiet' => quiet  BY <2>1
  <2>3. disturbed => disturbed'  BY <2>1
  <2>. QED  BY <2>2, <2>3
<1>3. Calm  BY <1>2 DEF Calm
<1>4. ASSUME at # "idle"
      PROVE  /\ UNCHANGED <<images, assignments, locations, delete, disturbed>>
             /\ DOMAIN devices \subseteq DOMAIN devices'
             /\ DOMAIN files' \subseteq DOMAIN files
             /\ quiet' => UNCHANGED files
  <2>1. delete.step = "idle"  BY <1>3, <1>4 DEF Present
  <2>2. ASSUME NEW i \in Images, BlacklistImage(i)
        PROVE  UNCHANGED <<images, assignments, locations, delete, disturbed, devices, files>>
    BY <2>2 DEF BlacklistImage, fileVars, historyVars
  <2>3. ASSUME NEW i \in Images, BeginDelete(i)  PROVE FALSE
    BY <1>4, <2>3 DEF BeginDelete, Calm
  <2>4. ASSUME NEW p \in Path, LoseFile(p)
        PROVE  /\ UNCHANGED <<images, assignments, locations, delete, disturbed, devices>>
               /\ DOMAIN files' \subseteq DOMAIN files /\ ~quiet'
    BY <2>4 DEF LoseFile, Remove, Without, rowVars
  <2>5. ASSUME NEW d \in Devices, DeleteDevice(d)  PROVE FALSE
    BY <2>5 DEF DeleteDevice, Calm
  <2>6. ASSUME NEW d \in Devices, NEW s \in Slugs, CreateDevice(d, s)
        PROVE  /\ UNCHANGED <<images, assignments, locations, delete, disturbed, files>>
               /\ DOMAIN devices \subseteq DOMAIN devices'
    BY <2>6 DEF CreateDevice, With, fileVars, historyVars
  <2>7. ASSUME NEW d \in Devices, NEW s \in Slugs, RenameDevice(d, s)
        PROVE  /\ UNCHANGED <<images, assignments, locations, delete, disturbed, files>>
               /\ DOMAIN devices \subseteq DOMAIN devices'
    BY <2>7 DEF RenameDevice, fileVars, historyVars
  <2>8. ~ \/ \E i \in Images : DeleteRow(i)
          \/ \E p \in Path : RemoveFile(p) \/ RemoveFails(p)
          \/ DeleteFails \/ DeleteLocations \/ DeleteAssignments \/ DeleteStatementFails
    BY <2>1 DEF DeleteRow, RemoveFile, RemoveFails, DeleteFails, DeleteLocations,
                DeleteAssignments, DeleteStatementFails
  <2>. QED  BY <2>2, <2>3, <2>4, <2>5, <2>6, <2>7, <2>8 DEF User
<1>. QED  BY <1>1, <1>2, <1>3, <1>4

LEMMA TargetsStep ==
  ASSUME TargetsOK, [Next]_vars
  PROVE  TargetsOK'
<1>1. CASE UNCHANGED <<at, workVars>>  BY <1>1 DEF TargetsOK, workVars
<1>2. ASSUME at' \notin Handling, target' = {}, UNCHANGED job \/ job' = NoJob  PROVE TargetsOK'
  BY <1>2 DEF TargetsOK, NoJob, Serving
<1>3. ASSUME at \in Handling, NEW rest \in SUBSET left, AfterDevice(rest), UNCHANGED job
      PROVE  TargetsOK'
  BY <1>3, AfterDeviceFacts DEF TargetsOK, Serving
<1>4. CASE User  BY <1>1, <1>4, UserWork
<1>5. CASE Failure
  <2>1. CASE ItemFails  BY <1>2, <2>1 DEF ItemFails, NoItem, Handling
  <2>2. ASSUME NEW t \in left, LookFails(t)  PROVE TargetsOK'
    <3>1. left \ {t} \in SUBSET left  OBVIOUS
    <3>. QED  BY <1>3, <2>2, <3>1 DEF LookFails, Handling
  <2>3. CASE DownloadFails  BY <1>3, <2>3 DEF DownloadFails, Handling
  <2>4. ASSUME NEW x \in item, NEW t \in target, NEW c \in canonical, CopyFails(x, t, c)
        PROVE  TargetsOK'
    BY <1>3, <2>4 DEF CopyFails, Handling
  <2>5. CASE AssignFails  BY <2>5 DEF AssignFails, workVars, TargetsOK, Serving, Handling
  <2>6. CASE LocateFails  BY <1>3, <2>6 DEF LocateFails, Handling
  <2>7. CASE Crash  BY <1>2, <2>7 DEF Crash, NoItem, Handling
  <2>. QED  BY <1>5, <2>1, <2>2, <2>3, <2>4, <2>5, <2>6, <2>7 DEF Failure
<1>6. CASE Sync
  <2>1. ASSUME NEW s \in Sources, NEW D \in SUBSET DOMAIN devices, StartSync(s, D)
        PROVE  TargetsOK'
    <3>1. /\ at' = "fetch" /\ target' = target /\ at = "idle"
          /\ job'.targets = {[id |-> d, slug |-> devices[d]] : d \in D}
      BY <2>1 DEF StartSync
    <3>2. target' = {}  BY <3>1 DEF TargetsOK, Serving, Handling
    <3>3. ASSUME NEW t \in job'.targets, NEW u \in job'.targets, t.id = u.id  PROVE t = u
      BY <3>1, <3>3
    <3>. QED  BY <3>1, <3>2, <3>3 DEF TargetsOK, Handling, Serving
  <2>2. ASSUME NEW x \in Item, NextItem(x) \/ GetOrCreateImage(x)  PROVE TargetsOK'
    BY <2>2 DEF NextItem, GetOrCreateImage, TargetsOK, Serving, Handling
  <2>3. ASSUME NEW i \in image, ReadLocations(i)  PROVE TargetsOK'
    BY <2>3 DEF ReadLocations, TargetsOK, Serving, Handling
  <2>4. ASSUME NEW i \in image, NEW t \in left, Skip(i, t)  PROVE TargetsOK'
    <3>1. left \ {t} \in SUBSET left  OBVIOUS
    <3>. QED  BY <1>3, <2>4, <3>1 DEF Skip, Handling
  <2>5. ASSUME NEW i \in image, NEW t \in left, Choose(i, t)  PROVE TargetsOK'
    BY <2>5 DEF Choose, Rule, TargetsOK, Serving, Handling
  <2>6. ASSUME NEW x \in item, NEW t \in target, NEW c \in canonical,
               Download(x, t) \/ Link(x, t, c) \/ Copy(x, t, c)
        PROVE  TargetsOK'
    BY <2>6 DEF Download, Link, Copy, TargetsOK, Serving, Handling
  <2>7. ASSUME NEW x \in item, NEW t \in target, Download(x, t)  PROVE TargetsOK'
    BY <2>7 DEF Download, TargetsOK, Serving, Handling
  <2>8. CASE LinkFails  BY <2>8 DEF LinkFails, workVars, TargetsOK, Serving, Handling
  <2>9. ASSUME NEW c \in canonical, CopyFindsNothing(c)  PROVE TargetsOK'
    BY <1>3, <2>9 DEF CopyFindsNothing, Handling
  <2>10. ASSUME NEW i \in image, NEW t \in target, Assign(i, t)  PROVE TargetsOK'
    BY <2>10 DEF Assign, workVars, TargetsOK, Serving, Handling
  <2>11. ASSUME NEW x \in item, NEW i \in image, NEW t \in target, Locate(x, i, t)
         PROVE  TargetsOK'
    BY <1>3, <2>11 DEF Locate, Handling
  <2>12. CASE EndSync
    BY <1>2, <2>12 DEF EndSync, TargetsOK, Serving, Handling
  <2>. QED  BY <1>6, <2>1, <2>2, <2>3, <2>4, <2>5, <2>6, <2>7, <2>8, <2>9, <2>10, <2>11, <2>12
            DEF Sync
<1>7. CASE UNCHANGED vars  BY <1>1, <1>7 DEF vars
<1>. QED  BY <1>4, <1>5, <1>6, <1>7 DEF Next

-----------------------------------------------------------------------------
(* Blacklisted items *)

\* The worker is about to make a file, or to fall back on a copy.
Making == {"redownload", "download", "link", "copy"}

\* What was made late is blacklisted, and nothing of it is about to be made again: the
\* item in hand was not blacklisted when it was checked, and each device has its turn once.
BlacklistInv ==
  /\ \A r \in late : r[1] \in blacklist
  /\ at \in {"image", "locations"} => \A x \in item : \A r \in late : r[1] # x
  /\ at \in Handling => \A x \in item, t \in left : <<x, t.id>> \notin late
  /\ at \in Making => \A x \in item, t \in target : <<x, t.id>> \notin late

\* A file made at one target leaves the others.
LEMMA MadeForOne ==
  ASSUME BlacklistInv, TargetsOK, NEW x, NEW t, item = {x}, target = {t}, at \in Making,
         late' = MadeLate(x, t), UNCHANGED blacklist
  PROVE  /\ \A r \in late' : r[1] \in blacklist'
         /\ \A u \in left : <<x, u.id>> \notin late'
<1>1. ASSUME NEW u \in left  PROVE <<x, u.id>> \notin late /\ u.id # t.id
  BY DEF BlacklistInv, TargetsOK, Making, Handling
<1>. QED  BY <1>1 DEF MadeLate, BlacklistInv

LEMMA BlacklistStep ==
  ASSUME BlacklistInv, TargetsOK, [Next]_vars
  PROVE  BlacklistInv'
<1>0. Making \subseteq Handling /\ Handling \cap {"idle", "fetch", "image", "locations"} = {}
  BY DEF Making, Handling
<1>1. ASSUME UNCHANGED late, blacklist \subseteq blacklist', at' \in {"idle", "fetch"}
      PROVE  BlacklistInv'
  BY <1>0, <1>1 DEF BlacklistInv
<1>2. ASSUME UNCHANGED <<late, at, item, left, target>>, blacklist \subseteq blacklist'
      PROVE  BlacklistInv'
  BY <1>2 DEF BlacklistInv
<1>3. ASSUME UNCHANGED <<late, blacklist>>, at \in Handling, NEW rest \in SUBSET left,
             AfterDevice(rest)
      PROVE  BlacklistInv'
  <2>1. CASE at' = "fetch"  BY <1>1, <1>3, <2>1
  <2>2. CASE at' = "device"
    BY <1>3, <2>2, AfterDeviceFacts DEF BlacklistInv, Making
  <2>. QED  BY <1>3, <2>1, <2>2, AfterDeviceFacts
<1>4. CASE UNCHANGED vars  BY <1>2, <1>4 DEF vars, rowVars, workVars, historyVars
<1>5. CASE User
  <2>1. UNCHANGED <<at, item, left, target>>  BY <1>5, UserWork DEF workVars
  <2>2. UNCHANGED late /\ blacklist \subseteq blacklist'
    BY <1>5 DEF User, BlacklistImage, BeginDelete, DeleteRow, RemoveFile, RemoveFails, LoseFile,
       DeleteFails, DeleteLocations, DeleteAssignments, DeleteStatementFails, DeleteDevice,
       CreateDevice, RenameDevice, rowVars, historyVars
  <2>. QED  BY <1>2, <2>1, <2>2
<1>6. CASE Failure
  <2>0. UNCHANGED blacklist  BY <1>6, FailureRows DEF rowVars
  <2>1. CASE ItemFails \/ Crash  BY <1>1, <2>0, <2>1 DEF ItemFails, Crash
  <2>2. ASSUME NEW t \in left, LookFails(t)  PROVE BlacklistInv'
    <3>1. left \ {t} \in SUBSET left  OBVIOUS
    <3>. QED  BY <1>3, <2>0, <2>2, <3>1 DEF LookFails, Handling
  <2>3. CASE DownloadFails \/ LocateFails
    <3>1. left \in SUBSET left  OBVIOUS
    <3>. QED  BY <1>3, <2>0, <2>3, <3>1 DEF DownloadFails, LocateFails, Handling
  <2>4. ASSUME NEW x \in item, NEW t \in target, NEW c \in canonical, CopyFails(x, t, c)
        PROVE  BlacklistInv'
    <3>1. /\ at = "copy" /\ item = {x} /\ target = {t} /\ late' = MadeLate(x, t)
          /\ AfterDevice(left)
      BY <2>4 DEF CopyFails
    <3>2. /\ \A r \in late' : r[1] \in blacklist'
          /\ \A u \in left : <<x, u.id>> \notin late'
      BY <2>0, <3>1, MadeForOne DEF Making
    <3>. QED  BY <1>0, <3>1, <3>2, AfterDeviceFacts DEF BlacklistInv, Making
  <2>5. CASE AssignFails
    BY <2>0, <2>5 DEF AssignFails, workVars, BlacklistInv, Handling, Making
  <2>. QED  BY <1>6, <2>1, <2>2, <2>3, <2>4, <2>5 DEF Failure
<1>7. CASE Sync
  <2>1. ASSUME NEW s \in Sources, NEW D \in SUBSET DOMAIN devices, StartSync(s, D)
        PROVE  BlacklistInv'
    BY <1>1, <2>1 DEF StartSync, rowVars
  <2>2. ASSUME NEW x \in Item, NextItem(x)  PROVE BlacklistInv'
    BY <1>0, <2>2 DEF NextItem, rowVars, historyVars, BlacklistInv
  <2>3. ASSUME NEW x \in Item, GetOrCreateImage(x)  PROVE BlacklistInv'
    BY <1>0, <2>3 DEF GetOrCreateImage, historyVars, BlacklistInv
  <2>4. ASSUME NEW i \in image, ReadLocations(i)  PROVE BlacklistInv'
    <3>1. /\ at = "locations" /\ at' = "device" /\ UNCHANGED <<item, late, blacklist>>
      BY <2>4 DEF ReadLocations, rowVars, historyVars
    <3>. QED  BY <3>1 DEF BlacklistInv, Making
  <2>5. ASSUME NEW i \in image, NEW t \in left, Skip(i, t)  PROVE BlacklistInv'
    <3>1. left \ {t} \in SUBSET left  OBVIOUS
    <3>. QED  BY <1>3, <2>5, <3>1 DEF Skip, Handling, rowVars, historyVars
  <2>6. ASSUME NEW i \in image, NEW t \in left, Choose(i, t)  PROVE BlacklistInv'
    <3>1. /\ at = "device" /\ at' \in Making /\ target' = {t} /\ left' = left \ {t}
          /\ UNCHANGED <<item, late, blacklist>>
      BY <2>6 DEF Choose, Rule, Making, rowVars, historyVars
    <3>. QED  BY <1>0, <3>1 DEF BlacklistInv, Handling
  <2>7. ASSUME NEW x \in item, NEW t \in target,
               Download(x, t) \/ \E c \in canonical : Link(x, t, c) \/ Copy(x, t, c)
        PROVE  BlacklistInv'
    <3>1. /\ at \in Making /\ at' \in {"assign", "locate"} /\ item = {x} /\ target = {t}
          /\ late' = MadeLate(x, t) /\ UNCHANGED <<blacklist, item, left>>
      BY <2>7, MakesFile DEF Making, rowVars
    <3>2. /\ \A r \in late' : r[1] \in blacklist'
          /\ \A u \in left : <<x, u.id>> \notin late'
      BY <3>1, MadeForOne
    <3>. QED  BY <3>1, <3>2 DEF BlacklistInv, Making
  <2>8. CASE LinkFails
    BY <2>8 DEF LinkFails, rowVars, workVars, historyVars, BlacklistInv, Handling, Making
  <2>9. ASSUME NEW c \in canonical, CopyFindsNothing(c)  PROVE BlacklistInv'
    <3>1. left \in SUBSET left  OBVIOUS
    <3>. QED  BY <1>3, <2>9, <3>1 DEF CopyFindsNothing, Handling, rowVars, historyVars
  <2>10. ASSUME NEW i \in image, NEW t \in target, Assign(i, t)  PROVE BlacklistInv'
    BY <2>10 DEF Assign, workVars, historyVars, BlacklistInv, Handling, Making
  <2>11. ASSUME NEW x \in item, NEW i \in image, NEW t \in target, Locate(x, i, t)
         PROVE  BlacklistInv'
    <3>1. left \in SUBSET left  OBVIOUS
    <3>. QED  BY <1>3, <2>11, <3>1 DEF Locate, Handling, historyVars
  <2>12. CASE EndSync  BY <1>1, <2>12 DEF EndSync, rowVars
  <2>. QED  BY <1>7, <2>1, <2>2, <2>3, <2>4, <2>5, <2>6, <2>7, <2>8, <2>9, <2>10, <2>11, <2>12
            DEF Sync
<1>. QED  BY <1>4, <1>5, <1>6, <1>7 DEF Next

\* Blacklisting an item while the worker has it in hand takes hold with the next item
\* at the latest (isBlacklisted): no device gets a second file of it afterwards, for any
\* number of jobs, losses, failures and crashes.
THEOREM BlacklistTakesHoldCorrect == Spec => BlacklistTakesHold
<1>. DEFINE Inv == BlacklistInv /\ TargetsOK
<1>1. Init => Inv
  BY DEF Init, BlacklistInv, TargetsOK, NoJob, Handling, Serving, Making
<1>2. Inv /\ [Next]_vars => Inv'  BY BlacklistStep, TargetsStep
<1>3. ASSUME Inv, NEW x \in item, NEW t \in target, FileMade(x, t)
      PROVE  <<x, t.id>> \notin late
  <2>1. at \in Making  BY <1>3 DEF FileMade, Download, Link, Copy, CopyFails, Making
  <2>. QED  BY <1>3, <2>1 DEF BlacklistInv
<1>4. Inv /\ [Next]_vars =>
        [\A x \in item, t \in target :
           FileMade(x, t) /\ x \in blacklist => <<x, t.id>> \notin late]_vars
  BY <1>3
<1>. QED  BY <1>1, <1>2, <1>4, PTL DEF Spec, BlacklistTakesHold

-----------------------------------------------------------------------------
(* A calm worker *)

LEMMA PresentStep ==
  ASSUME RowsOK, HistoryOK, Present, [Next]_vars
  PROVE  Present'
<1>. SUFFICES ASSUME Calm'
              PROVE  /\ at' = "idle" \/ delete'.step = "idle"
                     /\ at' \in Handling \cup {"locations"} => image' \subseteq DOMAIN images'
                     /\ at' # "idle" => \A t \in job'.targets : t.id \in DOMAIN devices'
  BY DEF Present
<1>1. ASSUME Calm, UNCHANGED <<images, devices, job, delete>>,
             at # "idle",
             \/ at' \notin Handling \cup {"locations"}
             \/ at \in Handling \cup {"locations"} /\ (UNCHANGED image \/ image' = {})
      PROVE  /\ at' = "idle" \/ delete'.step = "idle"
             /\ at' \in Handling \cup {"locations"} => image' \subseteq DOMAIN images'
             /\ at' # "idle" => \A t \in job'.targets : t.id \in DOMAIN devices'
  BY <1>1 DEF Present
<1>2. CASE User
  <2>1. CASE at # "idle"
    BY <1>2, <2>1, CalmUser DEF Present, workVars
  <2>2. CASE at = "idle"
    BY <1>2, <2>2, UserWork DEF Handling
  <2>. QED  BY <2>1, <2>2
<1>3. CASE Failure
  <2>1. ~disturbed' /\ Calm  BY <1>3, CalmFailure DEF Calm, HistoryOK
  <2>2. CASE at' = "fetch"  BY <1>1, <1>3, <2>1, <2>2, CalmFailure DEF Handling
  <2>3. ASSUME at \in Handling, NEW rest \in SUBSET left, AfterDevice(rest),
               UNCHANGED <<job, delete>>
        PROVE  UNCHANGED image \/ image' = {}
    BY <2>3, AfterDeviceFacts
  <2>. QED  BY <1>1, <1>3, <2>1, <2>2, <2>3, CalmFailure DEF Handling
<1>4. CASE Sync
  <2>1. ASSUME NEW s \in Sources, NEW D \in SUBSET DOMAIN devices, StartSync(s, D)
        PROVE  /\ at' = "fetch" /\ delete'.step = "idle"
               /\ \A t \in job'.targets : t.id \in DOMAIN devices'
    <3>1. /\ at' = "fetch" /\ UNCHANGED <<devices, delete>>
          /\ quiet' = (delete.step = "idle")
          /\ disturbed' = (disturbed \/ delete.step # "idle")
          /\ job'.targets = {[id |-> d, slug |-> devices[d]] : d \in D}
      BY <2>1 DEF StartSync, rowVars
    <3>2. delete.step = "idle"  BY <3>1 DEF Calm
    <3>. QED  BY <3>1, <3>2
  <2>2. ASSUME ~ \E s \in Sources : \E D \in SUBSET DOMAIN devices : D # {} /\ StartSync(s, D)
        PROVE  (quiet' => quiet) /\ UNCHANGED disturbed /\ UNCHANGED delete
    <3>1. CASE EndSync  BY <3>1 DEF EndSync
    <3>2. ASSUME NEW x \in Item, NextItem(x)  PROVE UNCHANGED <<quiet, disturbed, delete>>
      BY <3>2 DEF NextItem, historyVars
    <3>. QED  BY <1>4, <2>2, <3>1, <3>2, SyncParts
  <2>3. ASSUME NEW x \in Item, NextItem(x)
        PROVE  at # "idle" /\ at' = "image" /\ UNCHANGED <<images, devices, job>>
    BY <2>3 DEF NextItem, rowVars
  <2>4. ASSUME NEW x \in Item, GetOrCreateImage(x)
        PROVE  at # "idle" /\ image' \subseteq DOMAIN images' /\ UNCHANGED <<devices, job>>
    BY <2>4 DEF GetOrCreateImage, RowsOf, With
  <2>5. ASSUME NEW i \in image, ReadLocations(i)
        PROVE  at \in {"locations"} /\ UNCHANGED <<images, devices, job, image>>
    BY <2>5 DEF ReadLocations, rowVars
  <2>6. ASSUME NEW rest, AfterDevice(rest)  PROVE UNCHANGED image \/ image' = {}
    BY <2>6, AfterDeviceFacts
  <2>7. ASSUME \/ \E i \in image, t \in left : Skip(i, t) \/ Choose(i, t)
               \/ \E x \in item, t \in target : Download(x, t)
               \/ \E x \in item, t \in target, c \in canonical : Link(x, t, c) \/ Copy(x, t, c)
               \/ LinkFails
               \/ \E c \in canonical : CopyFindsNothing(c)
               \/ \E i \in image, t \in target : Assign(i, t)
               \/ \E x \in item, i \in image, t \in target : Locate(x, i, t)
        PROVE  /\ at \in Handling /\ UNCHANGED <<images, devices, job>>
               /\ UNCHANGED image \/ image' = {}
    <3>. DEFINE Same == /\ at \in Handling /\ UNCHANGED <<images, devices, job>>
                        /\ UNCHANGED image \/ image' = {}
    <3>1. ASSUME NEW i, NEW t, Skip(i, t) \/ Choose(i, t)  PROVE Same
      BY <2>6, <3>1 DEF Skip, Choose, rowVars, Handling
    <3>2. ASSUME NEW x, NEW t, Download(x, t) \/ \E c : Link(x, t, c) \/ Copy(x, t, c)
          PROVE  Same
      BY <3>2, MakesFile DEF rowVars, Handling
    <3>3. CASE LinkFails  BY <3>3 DEF LinkFails, rowVars, workVars, Handling
    <3>4. ASSUME NEW c, CopyFindsNothing(c)  PROVE Same
      BY <2>6, <3>4 DEF CopyFindsNothing, rowVars, Handling
    <3>5. ASSUME NEW i, NEW t, Assign(i, t)  PROVE Same
      BY <3>5 DEF Assign, workVars, Handling
    <3>6. ASSUME NEW x, NEW i, NEW t, Locate(x, i, t)  PROVE Same
      BY <2>6, <3>6 DEF Locate, Handling
    <3>. QED  BY <2>7, <3>1, <3>2, <3>3, <3>4, <3>5, <3>6
  <2>8. CASE EndSync  BY <2>8 DEF EndSync, Handling
  <2>9. CASE \E s \in Sources : \E D \in SUBSET DOMAIN devices : D # {} /\ StartSync(s, D)
    BY <2>1, <2>9 DEF Handling
  <2>10. CASE ~ \E s \in Sources : \E D \in SUBSET DOMAIN devices : D # {} /\ StartSync(s, D)
    <3>1. Calm /\ UNCHANGED delete  BY <2>2, <2>10 DEF Calm
    <3>2. ASSUME NEW x \in Item, NextItem(x)
          PROVE  /\ at' = "idle" \/ delete'.step = "idle"
                 /\ at' \in Handling \cup {"locations"} => image' \subseteq DOMAIN images'
                 /\ at' # "idle" => \A t \in job'.targets : t.id \in DOMAIN devices'
      <4>1. at' \notin Handling \cup {"locations"}  BY <2>3, <3>2 DEF Handling
      <4>. QED  BY <1>1, <2>3, <3>1, <3>2, <4>1
    <3>3. ASSUME NEW x \in Item, GetOrCreateImage(x)
          PROVE  /\ at' = "idle" \/ delete'.step = "idle"
                 /\ at' \in Handling \cup {"locations"} => image' \subseteq DOMAIN images'
                 /\ at' # "idle" => \A t \in job'.targets : t.id \in DOMAIN devices'
      BY <2>4, <3>1, <3>3 DEF Present
    <3>4. "idle" \notin Handling  BY DEF Handling
    <3>. QED  BY <1>1, <1>4, <2>5, <2>7, <2>8, <2>10, <3>1, <3>2, <3>3, <3>4 DEF Sync
  <2>. QED  BY <2>9, <2>10
<1>5. CASE UNCHANGED vars
  BY <1>5 DEF vars, rowVars, workVars, historyVars, Present, Calm
<1>. QED  BY <1>2, <1>3, <1>4, <1>5 DEF Next

-----------------------------------------------------------------------------
(* What the worker remembers, beside the rows *)

\* The locations a calm worker has read are still those of its image on the targets
\* it has not come to, and a target it is to locate a file on is assigned.
ReadOK ==
  Calm =>
    /\ at \in Handling => \A i \in image, t \in left :
         \A l \in Location : l.device = t.id =>
           (l \in known <=> l \in locations /\ l.image = i)
    /\ at \in {"redownload", "locate"} => \A i \in image, t \in target : Assigned(i, t)

\* The row of the image on the device is replaced or inserted, or another row has the path.
LEMMA LocateEffect ==
  ASSUME NEW x, NEW i, NEW t, Locate(x, i, t), i \in DOMAIN images, t.id \in DOMAIN devices,
         NEW p, p = TargetPath(x, t), kind \in {"canonical", "hardlink", "copy"},
         i \in Images, t \in Target, p \in Path
  PROVE  /\ \A l : ~ (l.image = i /\ l.device = t.id) => (l \in locations' <=> l \in locations)
         /\ \/ locations' = locations /\ \E l \in locations : l.path = p
            \/ /\ \E l \in locations' : l.image = i /\ l.device = t.id /\ l.path = p
               /\ \A l \in locations' : l.image = i /\ l.device = t.id => l.path = p
<1> DEFINE new == [image |-> i, device |-> t.id, path |-> p, kind |-> kind]
           old == {l \in locations : l.image = i /\ l.device = t.id}
<1>1. new.image = i /\ new.device = t.id /\ new.path = p  OBVIOUS
<1>2. \/ locations' = locations /\ \E l \in locations \ old : l.path = p
      \/ locations' = (locations \ old) \cup {new}
  BY DEF Locate, Located
<1>3. CASE locations' = locations /\ \E l \in locations \ old : l.path = p
  BY <1>3
<1>4. CASE locations' = (locations \ old) \cup {new}
  <2> HIDE DEF new
  <2>. QED  BY <1>1, <1>4
<1>. QED  BY <1>2, <1>3, <1>4

\* The types LocateEffect asks for.
LEMMA LocateTypes ==
  ASSUME WorkOK, NEW x \in item, NEW i \in image, NEW t \in target
  PROVE  /\ i \in Images /\ t \in Target /\ kind \in {"canonical", "hardlink", "copy"}
         /\ TargetPath(x, t) \in Path
BY DEF WorkOK, TargetPath, Path, Item, Target

LEMMA ReadStep ==
  ASSUME TypeOK, TargetsOK, Present, ReadOK, [Next]_vars
  PROVE  ReadOK'
<1>0. RowsOK /\ WorkOK /\ HistoryOK  BY DEF TypeOK
<1> DEFINE Known(i, t) == \A l \in Location : l.device = t.id =>
                            (l \in known <=> l \in locations /\ l.image = i)
           Goal == /\ at' \in Handling => \A i \in image', t \in left' : Known(i, t)'
                   /\ at' \in {"redownload", "locate"} =>
                        \A i \in image', t \in target' : Assigned(i, t)'
<1>. SUFFICES ASSUME Calm'  PROVE Goal
  BY DEF ReadOK
<1>1. ASSUME at' \notin Handling  PROVE Goal
  BY <1>1 DEF Handling
<1>2. ASSUME Calm, at \in Handling, at' \in Handling,
             UNCHANGED <<locations, assignments, known, image>>,
             left' \subseteq left,
             at' \in {"redownload", "locate"} =>
               \A i \in image, t \in target' : Assigned(i, t)
      PROVE  Goal
  BY <1>2 DEF ReadOK, Assigned
<1>3. ASSUME Calm, at \in Handling, UNCHANGED <<locations, assignments>>,
             NEW rest \in SUBSET left, AfterDevice(rest)
      PROVE  Goal
  <2>1. CASE at' = "fetch"  BY <1>1, <2>1 DEF Handling
  <2>2. CASE at' = "device"
    <3>1. UNCHANGED <<known, image>> /\ left' \subseteq left
      BY <1>3, <2>2, AfterDeviceFacts
    <3>. QED  BY <1>2, <1>3, <2>2, <3>1 DEF Handling
  <2>. QED  BY <1>3, <2>1, <2>2, AfterDeviceFacts
<1>4. CASE User
  <2>1. CASE at \in Handling
    <3>1. /\ Calm /\ UNCHANGED <<at, workVars, assignments, locations>>
      BY <1>0, <1>4, <2>1, CalmUser DEF Handling
    <3>2. at' \in {"redownload", "locate"} => \A i \in image, t \in target' : Assigned(i, t)
      BY <3>1 DEF ReadOK, workVars
    <3>. QED  BY <1>2, <2>1, <3>1, <3>2 DEF workVars
  <2>2. CASE at \notin Handling  BY <1>1, <1>4, <2>2, UserWork
  <2>. QED  BY <2>1, <2>2
<1>5. CASE Failure
  <2>1. ~disturbed' /\ Calm  BY <1>0, <1>5, CalmFailure DEF Calm, HistoryOK
  <2>2. CASE at' = "fetch"  BY <1>1, <2>2 DEF Handling
  <2>3. CASE at \in Handling /\ \E rest \in SUBSET left : AfterDevice(rest)
    BY <1>0, <1>3, <1>5, <2>1, <2>3, CalmFailure
  <2>. QED  BY <1>0, <1>5, <2>1, <2>2, <2>3, CalmFailure
<1>6. CASE Sync
  <2>1. ASSUME NEW s \in Sources, NEW D \in SUBSET DOMAIN devices, StartSync(s, D)  PROVE Goal
    BY <1>1, <2>1 DEF StartSync, Handling
  <2>2. ASSUME NEW x \in Item, NextItem(x) \/ GetOrCreateImage(x)  PROVE Goal
    BY <1>1, <2>2 DEF NextItem, GetOrCreateImage, Handling
  <2>3. ASSUME NEW i \in image, ReadLocations(i)  PROVE Goal
    <3>1. /\ image' = {i} /\ known' = {l \in locations : l.image = i}
          /\ UNCHANGED locations /\ at' = "device"
      BY <2>3 DEF ReadLocations, rowVars
    <3>2. \A t : Known(i, t)'  BY <3>1
    <3>. QED  BY <3>1, <3>2
  <2>4. ASSUME NEW i \in image, NEW t \in left, Skip(i, t)  PROVE Goal
    <3>1. left \ {t} \in SUBSET left  OBVIOUS
    <3>2. /\ AfterDevice(left \ {t}) /\ UNCHANGED <<locations, assignments>> /\ at \in Handling
          /\ Calm
      BY <2>4 DEF Skip, rowVars, historyVars, Handling, Calm
    <3>. QED  BY <1>3, <3>1, <3>2
  <2>5. ASSUME NEW i \in image, NEW t \in left, Choose(i, t)  PROVE Goal
    <3>1. /\ Calm /\ UNCHANGED <<locations, assignments, known, image>>
          /\ left' \subseteq left /\ at = "device" /\ target' = {t} /\ image = {i}
          /\ at' = Rule(i, t)
      BY <2>5 DEF Choose, rowVars, historyVars, Calm
    <3>2. at' \in Handling /\ at' # "locate" /\ (at' = "redownload" => Assigned(i, t))
      BY <3>1 DEF Rule, Handling
    <3>. QED  BY <1>2, <3>1, <3>2 DEF Handling
  <2>6. ASSUME NEW x \in item, NEW t \in target,
               Download(x, t) \/ \E c : Link(x, t, c) \/ Copy(x, t, c)
        PROVE  Goal
    <3>1. /\ Calm /\ UNCHANGED <<locations, assignments, known, image, left, target>>
          /\ at \in Handling /\ at' \in Handling /\ at' # "redownload"
          /\ at' = "locate" => at = "redownload"
      BY <2>6, MakesFile DEF rowVars, historyVars, Calm, Handling
    <3>2. at' = "locate" => \A i \in image, u \in target' : Assigned(i, u)
      BY <3>1 DEF ReadOK
    <3>. QED  BY <1>2, <3>1, <3>2
  <2>7. CASE LinkFails
    <3>1. /\ Calm /\ UNCHANGED <<locations, assignments, known, image, left, target>>
          /\ at \in Handling /\ at' = "copy"
      BY <2>7 DEF LinkFails, rowVars, workVars, historyVars, Calm, Handling
    <3>. QED  BY <1>2, <3>1 DEF Handling
  <2>8. ASSUME NEW c \in canonical, CopyFindsNothing(c)  PROVE Goal
    <3>1. /\ Calm /\ UNCHANGED <<locations, assignments>>
          /\ at \in Handling /\ AfterDevice(left)
      BY <2>8 DEF CopyFindsNothing, rowVars, historyVars, Calm, Handling
    <3>. QED  BY <1>3, <3>1
  <2>9. ASSUME NEW i \in image, NEW t \in target, Assign(i, t)  PROVE Goal
    <3>1. /\ Calm /\ UNCHANGED <<locations, images, devices, known, image, left, target>>
          /\ at = "assign" /\ at' = "locate" /\ image = {i} /\ target = {t}
      BY <2>9 DEF Assign, workVars, historyVars, Calm
    <3>2. i \in DOMAIN images /\ t.id \in DOMAIN devices
      BY <3>1 DEF Present, TargetsOK, Handling
    <3>3. assignments' = assignments \cup {<<i, t.id>>}  BY <2>9, <3>2 DEF Assign
    <3>4. \A j \in image', u \in left' : Known(j, u)'  BY <3>1 DEF ReadOK, Handling
    <3>5. \A j \in image', u \in target' : Assigned(j, u)'  BY <3>1, <3>3 DEF Assigned
    <3>. QED  BY <3>1, <3>4, <3>5
  <2>10. ASSUME NEW x \in item, NEW i \in image, NEW t \in target, Locate(x, i, t)  PROVE Goal
    <3>1. /\ Calm /\ at = "locate" /\ image = {i} /\ target = {t} /\ AfterDevice(left)
      BY <2>10 DEF Locate, historyVars, Calm
    <3>2. CASE at' = "fetch"  BY <1>1, <3>2 DEF Handling
    <3>3. CASE at' = "device"
      <4>1. image' = {i} /\ left' = left /\ UNCHANGED known
        BY <3>1, <3>3, AfterDeviceFacts
      <4>2. i \in DOMAIN images /\ t.id \in DOMAIN devices
        BY <3>1 DEF Present, TargetsOK, Handling
      <4>3. \A l : ~ (l.image = i /\ l.device = t.id) => (l \in locations' <=> l \in locations)
        BY <1>0, <2>10, <4>2, LocateEffect, LocateTypes
      <4>4. ASSUME NEW u \in left  PROVE Known(i, u)'
        <5>1. u.id # t.id  BY <3>1 DEF TargetsOK, Handling
        <5>2. Known(i, u)  BY <3>1 DEF ReadOK, Handling
        <5>. QED  BY <4>1, <4>3, <5>1, <5>2
      <4>. QED  BY <3>3, <4>1, <4>4
    <3>. QED  BY <3>1, <3>2, <3>3, AfterDeviceFacts
  <2>11. CASE EndSync  BY <1>1, <2>11 DEF EndSync, Handling
  <2>. QED  BY <1>6, <2>1, <2>2, <2>3, <2>4, <2>5, <2>6, <2>7, <2>8, <2>9, <2>10, <2>11 DEF Sync
<1>7. CASE UNCHANGED vars
  BY <1>7 DEF vars, rowVars, workVars, historyVars, ReadOK, Calm, Assigned
<1>. QED  BY <1>4, <1>5, <1>6, <1>7 DEF Next

-----------------------------------------------------------------------------
(* No file is lost from sight *)

\* Undisturbed, an image is assigned to the devices it has a location on.
Covered ==
  ~disturbed => \A l \in locations : <<l.image, l.device>> \in assignments

\* Undisturbed, the only file the row of the target in hand can track is the one the
\* worker makes, so that the row may go to a new path.
Replaceable ==
  ~disturbed /\ at \in Serving =>
    \A x \in item, i \in image, t \in target, l \in locations :
      l.image = i /\ l.device = t.id /\ Exists(l.path) => l.path = TargetPath(x, t)

\* Undisturbed, a request removes the files of all locations before it deletes the
\* rows, and all rows before it deletes the assignments.
Deleting ==
  ~disturbed =>
    /\ delete.step = "files" =>
         \A l \in locations : l.image \in delete.image /\ Exists(l.path) => l.path \in delete.paths
    /\ delete.step \in {"assignments", "row"} => \A l \in locations : l.image \notin delete.image

OrphanInv == Covered /\ Replaceable /\ Deleting /\ NoOrphans

LEMMA OrphanKeep ==
  ASSUME OrphanInv, ~disturbed, UNCHANGED <<locations, assignments, delete>>,
         DOMAIN files' \subseteq DOMAIN files, InHand \subseteq InHand',
         at' \notin Serving \/ (at \in Serving /\ UNCHANGED <<item, image, target>>)
  PROVE  OrphanInv'
<1>1. Covered'  BY DEF OrphanInv, Covered
<1>2. Replaceable'  BY DEF OrphanInv, Replaceable, Exists, TargetPath
<1>3. Deleting'  BY DEF OrphanInv, Deleting, Exists
<1>4. NoOrphans'  BY DEF OrphanInv, NoOrphans, Tracked
<1>. QED  BY <1>1, <1>2, <1>3, <1>4 DEF OrphanInv

\* What a step does to the mark of a disturbance.
LEMMA SyncHistory ==
  ASSUME Sync
  PROVE  /\ disturbed => disturbed'
         /\ ~disturbed' => UNCHANGED delete
         /\ quiet' => quiet \/ at = "idle"
<1>1. ASSUME NEW s \in Sources, NEW D \in SUBSET DOMAIN devices, StartSync(s, D)
      PROVE  (disturbed => disturbed') /\ UNCHANGED delete /\ at = "idle"
  BY <1>1 DEF StartSync
<1>2. CASE EndSync  BY <1>2 DEF EndSync
<1>3. ASSUME NEW x \in Item, NextItem(x)  PROVE UNCHANGED <<quiet, disturbed, delete>>
  BY <1>3 DEF NextItem, historyVars
<1>. QED  BY <1>1, <1>2, <1>3, SyncParts

\* The steps of DeleteImage, undisturbed.
LEMMA OrphanDelete ==
  ASSUME OrphanInv, DeleteOK, at = "idle", ~disturbed, UNCHANGED <<at, workVars>>,
         \/ \E i \in Images : BeginDelete(i) \/ DeleteRow(i)
         \/ \E p \in Path : RemoveFile(p) \/ RemoveFails(p)
         \/ DeleteFails \/ DeleteLocations \/ DeleteAssignments \/ DeleteStatementFails
  PROVE  OrphanInv'
<1>1. InHand = {} /\ InHand' = {} /\ at' \notin Serving  BY DEF InHand, Serving, Handling
<1>2. /\ \A l \in locations : <<l.image, l.device>> \in assignments
      /\ \A p \in DOMAIN files : Tracked(p)
  BY <1>1 DEF OrphanInv, Covered, NoOrphans
<1>3. ASSUME \A l \in locations' : <<l.image, l.device>> \in assignments', Deleting',
             \A p \in DOMAIN files' : Tracked(p)'
      PROVE  OrphanInv'
  BY <1>1, <1>3 DEF OrphanInv, Covered, Replaceable, NoOrphans
<1>4. ASSUME NEW i \in Images, BeginDelete(i)  PROVE OrphanInv'
  <2> DEFINE paths == {l.path : l \in {m \in locations : m.image = i}}
  <2>1. /\ UNCHANGED <<locations, assignments, files>>
        /\ delete' = [step |-> IF paths = {} THEN "assignments" ELSE "files",
                      image |-> {i}, paths |-> paths]
    BY <1>4 DEF BeginDelete, rowVars, fileVars
  <2>2. CASE paths = {}
    <3>1. delete'.step = "assignments" /\ delete'.image = {i}  BY <2>1, <2>2
    <3>2. \A l \in locations : l.image # i  BY <2>2
    <3>3. Deleting'  BY <2>1, <3>1, <3>2 DEF Deleting
    <3>. QED  BY <1>2, <1>3, <2>1, <3>3 DEF Tracked
  <2>3. CASE paths # {}
    <3>1. delete'.step = "files" /\ delete'.image = {i} /\ delete'.paths = paths
      BY <2>1, <2>3
    <3>2. \A l \in locations : l.image = i => l.path \in paths  OBVIOUS
    <3>3. Deleting'  BY <2>1, <3>1, <3>2 DEF Deleting
    <3>. QED  BY <1>2, <1>3, <2>1, <3>3 DEF Tracked
  <2>. QED  BY <2>2, <2>3
<1>5. ASSUME NEW i \in Images, DeleteRow(i)  PROVE OrphanInv'
  <2>1. /\ delete.step = "row" /\ delete.image = {i} /\ delete' = NoDelete /\ UNCHANGED files
        /\ assignments' = {a \in assignments : a[1] # i}
        /\ locations' = {l \in locations : l.image # i}
    BY <1>5 DEF DeleteRow, fileVars
  <2>2. \A l \in locations : l.image # i  BY <2>1 DEF OrphanInv, Deleting
  <2>3. locations' = locations  BY <2>1, <2>2
  <2>4. \A l \in locations' : <<l.image, l.device>> \in assignments'
    BY <1>2, <2>1, <2>2, <2>3
  <2>5. Deleting'  BY <2>1 DEF Deleting, NoDelete
  <2>. QED  BY <1>2, <1>3, <2>1, <2>3, <2>4, <2>5 DEF Tracked
<1>6. ASSUME NEW p \in Path, RemoveFile(p)  PROVE OrphanInv'
  <2>1. /\ UNCHANGED <<locations, assignments>>
        /\ DOMAIN files' = (DOMAIN files) \ {p}
        /\ delete'.step = delete.step /\ delete'.image = delete.image
        /\ delete'.paths = delete.paths \ {p}
    BY <1>6 DEF RemoveFile, rowVars, Remove, Without, DeleteOK
  <2>2. Deleting'  BY <2>1 DEF OrphanInv, Deleting, Exists
  <2>. QED  BY <1>2, <1>3, <2>1, <2>2 DEF Tracked
<1>7. ASSUME UNCHANGED <<locations, assignments, files>>, delete'.step \in {"idle", "failing"}
      PROVE  OrphanInv'
  <2>1. Deleting'  BY <1>7 DEF Deleting
  <2>. QED  BY <1>2, <1>3, <1>7, <2>1 DEF Tracked
<1>8. ASSUME NEW p \in Path, RemoveFails(p)  PROVE OrphanInv'
  BY <1>7, <1>8 DEF RemoveFails, rowVars, fileVars, DeleteOK
<1>9. CASE DeleteFails \/ DeleteStatementFails
  BY <1>7, <1>9 DEF DeleteFails, DeleteStatementFails, rowVars, fileVars, NoDelete
<1>10. CASE DeleteLocations
  <2>1. /\ delete.step = "files" /\ delete.paths = {} /\ UNCHANGED <<assignments, files>>
        /\ locations' = {l \in locations : l.image \notin delete.image}
        /\ delete'.step = "assignments" /\ delete'.image = delete.image
    BY <1>10 DEF DeleteLocations, fileVars, DeleteOK
  <2>2. \A l \in locations : l.path \in DOMAIN files => l \in locations'
    BY <2>1 DEF OrphanInv, Deleting, Exists
  <2>3. \A q \in DOMAIN files' : Tracked(q)'  BY <1>2, <2>1, <2>2 DEF Tracked
  <2>4. Deleting'  BY <2>1 DEF Deleting
  <2>. QED  BY <1>2, <1>3, <2>1, <2>3, <2>4
<1>11. CASE DeleteAssignments
  <2>1. /\ delete.step = "assignments" /\ UNCHANGED <<locations, files>>
        /\ assignments' = {a \in assignments : a[1] \notin delete.image}
        /\ delete'.step = "row" /\ delete'.image = delete.image
    BY <1>11 DEF DeleteAssignments, fileVars, DeleteOK
  <2>2. \A l \in locations : l.image \notin delete.image  BY <2>1 DEF OrphanInv, Deleting
  <2>3. \A l \in locations' : <<l.image, l.device>> \in assignments'
    BY <1>2, <2>1, <2>2
  <2>4. Deleting'  BY <2>1, <2>2 DEF Deleting
  <2>. QED  BY <1>2, <1>3, <2>1, <2>3, <2>4 DEF Tracked
<1>. QED  BY <1>4, <1>5, <1>6, <1>8, <1>9, <1>10, <1>11

LEMMA OrphanUser ==
  ASSUME TypeOK, Present, OrphanInv, User, ~disturbed'
  PROVE  OrphanInv'
<1>0. HistoryOK /\ DeleteOK  BY DEF TypeOK
<1>1. ~disturbed /\ UNCHANGED <<at, workVars>>  BY <1>0, CalmUser DEF Calm
<1>2. InHand' = InHand  BY <1>1 DEF InHand, workVars, TargetPath
<1>3. ASSUME UNCHANGED <<locations, assignments, delete>>, DOMAIN files' \subseteq DOMAIN files
      PROVE  OrphanInv'
  BY <1>1, <1>2, <1>3, OrphanKeep DEF workVars
<1>4. CASE at # "idle"  BY <1>0, <1>3, <1>4, CalmUser DEF Calm
<1>5. CASE at = "idle"
  <2>1. ASSUME NEW i \in Images, BlacklistImage(i)  PROVE OrphanInv'
    BY <1>3, <2>1 DEF BlacklistImage, fileVars
  <2>2. ASSUME NEW p \in Path, LoseFile(p)  PROVE OrphanInv'
    BY <1>3, <2>2 DEF LoseFile, rowVars, Remove, Without
  <2>3. ASSUME NEW d \in Devices, DeleteDevice(d)  PROVE OrphanInv'
    BY <2>3 DEF DeleteDevice
  <2>4. ASSUME NEW d \in Devices, NEW s \in Slugs, CreateDevice(d, s) \/ RenameDevice(d, s)
        PROVE  OrphanInv'
    BY <1>3, <2>4 DEF CreateDevice, RenameDevice, fileVars
  <2>. QED  BY <1>0, <1>1, <1>5, <2>1, <2>2, <2>3, <2>4, OrphanDelete DEF User
<1>. QED  BY <1>4, <1>5

LEMMA OrphanStep ==
  ASSUME TypeOK, TargetsOK, Present, ReadOK, OrphanInv, [Next]_vars
  PROVE  OrphanInv'
<1>0. /\ RowsOK /\ WorkOK /\ HistoryOK
      /\ Covered /\ Replaceable /\ Deleting /\ NoOrphans
  BY DEF TypeOK, OrphanInv
<1>. SUFFICES ASSUME ~disturbed'  PROVE OrphanInv'
  BY DEF OrphanInv, Covered, Replaceable, Deleting, NoOrphans
<1>1. CASE User  BY <1>1, OrphanUser
<1>2. CASE Failure
  <2>1. /\ ~disturbed /\ UNCHANGED <<locations, assignments, fileVars, delete>>
        /\ at \notin {"assign", "locate"}
        /\ at' = "fetch" \/ \E rest : AfterDevice(rest)
    BY <1>0, <1>2, CalmFailure DEF HistoryOK
  <2>2. at' \notin Serving  BY <2>1, AfterDeviceFacts DEF Serving, Handling
  <2>3. InHand \subseteq InHand' /\ DOMAIN files' \subseteq DOMAIN files
    BY <2>1 DEF InHand, fileVars
  <2>. QED  BY <2>1, <2>2, <2>3, OrphanKeep
<1>3. CASE Sync
  <2>0. ~disturbed /\ UNCHANGED delete  BY <1>3, SyncHistory
  <2>1. ASSUME at \notin {"assign", "locate"}, at' \notin Serving,
               UNCHANGED <<locations, assignments, files>>
        PROVE  OrphanInv'
    <3>1. InHand \subseteq InHand' /\ DOMAIN files' \subseteq DOMAIN files
      BY <2>1 DEF InHand
    <3>. QED  BY <2>0, <2>1, <3>1, OrphanKeep
  <2>2. ASSUME NEW s \in Sources, NEW D \in SUBSET DOMAIN devices, StartSync(s, D)
        PROVE  OrphanInv'
    BY <2>1, <2>2 DEF StartSync, rowVars, fileVars, Serving, Handling
  <2>3. ASSUME NEW x \in Item, NextItem(x) \/ GetOrCreateImage(x)  PROVE OrphanInv'
    BY <2>1, <2>3 DEF NextItem, GetOrCreateImage, rowVars, fileVars, Serving, Handling
  <2>4. ASSUME NEW i \in image, ReadLocations(i)  PROVE OrphanInv'
    BY <2>1, <2>4 DEF ReadLocations, rowVars, fileVars, Serving, Handling
  <2>5. ASSUME NEW i \in image, NEW t \in left, Skip(i, t)  PROVE OrphanInv'
    <3>1. at' \in {"fetch", "device"} /\ at = "device"
          /\ UNCHANGED <<locations, assignments, files>>
      BY <2>5, AfterDeviceFacts DEF Skip, rowVars, fileVars
    <3>. QED  BY <2>1, <3>1 DEF Serving, Handling
  <2>6. ASSUME NEW i \in image, NEW t \in left, Choose(i, t)  PROVE OrphanInv'
    <3>1. /\ UNCHANGED <<locations, assignments, files, item, image, known>> /\ image = {i}
          /\ at = "device" /\ target' = {t} /\ ~(Assigned(i, t) /\ HasFile(t))
          /\ at' \in {"redownload", "link", "download"}
      BY <2>6 DEF Choose, Rule, rowVars, fileVars
    <3>2. ASSUME NEW l \in locations, l.image = i, l.device = t.id, Exists(l.path)  PROVE FALSE
      <4>1. Assigned(i, t)  BY <1>0, <2>0, <3>2 DEF Covered, Assigned
      <4>2. l \in Location  BY <1>0 DEF RowsOK
      <4>3. l \in known  BY <2>0, <3>1, <3>2, <4>2 DEF ReadOK, Calm, Handling
      <4>. QED  BY <3>1, <3>2, <4>1, <4>3 DEF HasFile
    <3>3. Replaceable'  BY <3>1, <3>2 DEF Replaceable, Exists
    <3>4. InHand = {} /\ InHand' = {}  BY <3>1 DEF InHand
    <3>5. Covered' /\ Deleting' /\ NoOrphans'
      BY <1>0, <2>0, <3>1, <3>4 DEF Covered, Deleting, NoOrphans, Exists, Tracked
    <3>. QED  BY <3>3, <3>5 DEF OrphanInv
  <2>7. ASSUME NEW x \in item, NEW t \in target,
               Download(x, t) \/ \E c : Link(x, t, c) \/ Copy(x, t, c)
        PROVE  OrphanInv'
    <3>1. /\ UNCHANGED <<locations, assignments, item, image, target>>
          /\ DOMAIN files' = DOMAIN files \cup {TargetPath(x, t)}
          /\ at \in Serving /\ at' \in {"assign", "locate"} /\ item = {x} /\ target = {t}
          /\ at \notin {"assign", "locate"} /\ at # "idle"
      BY <2>7, MakesFile DEF rowVars, Serving, Handling
    <3>2. InHand = {} /\ InHand' = {TargetPath(x, t)}  BY <3>1 DEF InHand, TargetPath
    <3>3. NoOrphans'  BY <1>0, <2>0, <3>1, <3>2 DEF NoOrphans, Tracked
    <3>4. Replaceable'  BY <1>0, <2>0, <3>1 DEF Replaceable, Exists, TargetPath
    <3>5. delete.step = "idle"  BY <2>0, <3>1 DEF Present, Calm
    <3>6. Covered' /\ Deleting'  BY <1>0, <2>0, <3>1, <3>5 DEF Covered, Deleting
    <3>. QED  BY <3>3, <3>4, <3>6 DEF OrphanInv
  <2>8. CASE LinkFails
    BY <2>0, <2>8, OrphanKeep
       DEF LinkFails, rowVars, fileVars, workVars, Serving, Handling, InHand
  <2>9. ASSUME NEW c \in canonical, CopyFindsNothing(c)  PROVE OrphanInv'
    <3>1. at' \in {"fetch", "device"} /\ at = "copy"
          /\ UNCHANGED <<locations, assignments, files>>
      BY <2>9, AfterDeviceFacts DEF CopyFindsNothing, rowVars, fileVars
    <3>. QED  BY <2>1, <3>1 DEF Serving, Handling
  <2>10. ASSUME NEW i \in image, NEW t \in target, Assign(i, t)  PROVE OrphanInv'
    <3>1. /\ UNCHANGED <<locations, files, item, image, target>>
          /\ at = "assign" /\ at' = "locate" /\ assignments \subseteq assignments'
      BY <2>10 DEF Assign, workVars, fileVars
    <3>2. InHand' = InHand  BY <3>1 DEF InHand, TargetPath
    <3>3. Covered' /\ Deleting' /\ NoOrphans'
      BY <1>0, <2>0, <3>1, <3>2 DEF Covered, Deleting, NoOrphans, Tracked, Exists
    <3>4. Replaceable'
      BY <1>0, <2>0, <3>1 DEF Replaceable, Exists, TargetPath, Serving, Handling
    <3>. QED  BY <3>3, <3>4 DEF OrphanInv
  <2>11. ASSUME NEW x \in item, NEW i \in image, NEW t \in target, Locate(x, i, t)
         PROVE  OrphanInv'
    <3> DEFINE p == TargetPath(x, t)
    <3>1. /\ UNCHANGED <<assignments, files>> /\ AfterDevice(left)
          /\ at = "locate" /\ item = {x} /\ image = {i} /\ target = {t}
      BY <2>11 DEF Locate, fileVars
    <3>2. at' \in {"fetch", "device"}  BY <3>1, AfterDeviceFacts
    <3>3. i \in DOMAIN images /\ t.id \in DOMAIN devices /\ delete.step = "idle"
      BY <2>0, <3>1 DEF Present, TargetsOK, Calm, Handling
    <3>4. Assigned(i, t)  BY <2>0, <3>1 DEF ReadOK, Calm
    <3>5. /\ \A l : ~ (l.image = i /\ l.device = t.id) => (l \in locations' <=> l \in locations)
          /\ \/ locations' = locations /\ \E l \in locations : l.path = p
             \/ /\ \E l \in locations' : l.image = i /\ l.device = t.id /\ l.path = p
                /\ \A l \in locations' : l.image = i /\ l.device = t.id => l.path = p
      BY <1>0, <2>11, <3>3, LocateEffect, LocateTypes
    <3>6. Covered'  BY <1>0, <2>0, <3>1, <3>4, <3>5 DEF Covered, Assigned
    <3>7. ASSUME NEW q \in DOMAIN files'  PROVE Tracked(q)'
      <4>1. Tracked(q) \/ q = p
        BY <1>0, <2>0, <3>1 DEF NoOrphans, InHand
      <4>2. CASE q = p  BY <3>5, <4>2 DEF Tracked
      <4>3. ASSUME NEW l \in locations, l.path = q, q # p  PROVE l \in locations'
        <5>1. Exists(l.path)  BY <3>1, <4>3 DEF Exists
        <5>2. ~ (l.image = i /\ l.device = t.id)
          BY <1>0, <2>0, <3>1, <4>3, <5>1 DEF Replaceable, Serving, Handling
        <5>. QED  BY <3>5, <5>2
      <4>. QED  BY <4>1, <4>2, <4>3 DEF Tracked
    <3>8. NoOrphans'  BY <3>7 DEF NoOrphans
    <3>9. Replaceable' /\ Deleting'
      BY <2>0, <3>2, <3>3 DEF Replaceable, Deleting, Serving, Handling
    <3>. QED  BY <3>6, <3>8, <3>9 DEF OrphanInv
  <2>12. CASE EndSync
    BY <2>1, <2>12 DEF EndSync, rowVars, fileVars, Serving, Handling
  <2>. QED  BY <1>3, <2>2, <2>3, <2>4, <2>5, <2>6, <2>7, <2>8, <2>9, <2>10, <2>11, <2>12 DEF Sync
<1>4. CASE UNCHANGED vars
  BY <1>0, <1>4, OrphanKeep DEF vars, rowVars, fileVars, workVars, historyVars, InHand, TargetPath
<1>. QED  BY <1>1, <1>2, <1>3, <1>4 DEF Next

PassInv == TypeOK /\ TargetsOK /\ Present /\ ReadOK

LEMMA PassInit ==
  ASSUME Init
  PROVE  PassInv
<1>1. TargetsOK  BY DEF Init, TargetsOK, NoJob, Handling, Serving
<1>2. Present /\ ReadOK  BY DEF Init, Present, ReadOK, Handling
<1>. QED  BY <1>1, <1>2, TypeInit DEF PassInv

LEMMA PassStep ==
  ASSUME PassInv, [Next]_vars
  PROVE  PassInv'
BY TypeStep, TargetsStep, PresentStep, ReadStep DEF PassInv, TypeOK

\* Unless a device was deleted, an image was deleted during a job, or something failed,
\* every file is one that DeleteImage would remove, or the one in the worker's hand.
THEOREM NoOrphansCorrect == Spec => []NoOrphans
<1>1. Init => PassInv /\ OrphanInv
  <2>. SUFFICES ASSUME Init PROVE OrphanInv  BY PassInit
  <2>. QED
    BY DEF Init, OrphanInv, Covered, Replaceable, Deleting, NoOrphans, NoDelete, NoRow, Serving,
           Handling
<1>2. PassInv /\ OrphanInv /\ [Next]_vars => (PassInv /\ OrphanInv)'
  BY PassStep, OrphanStep DEF PassInv
<1>3. PassInv /\ OrphanInv => NoOrphans  BY DEF OrphanInv
<1>. QED  BY <1>1, <1>2, <1>3, PTL DEF Spec

-----------------------------------------------------------------------------
(* A pass repairs *)

\* In a quiet job, what the worker is to link to is there, and what it has made stays.
Made ==
  quiet =>
    /\ at \in {"link", "copy"} => \E c \in canonical : Exists(c)
    /\ at \in {"assign", "locate"} => \A x \in item, t \in target : Exists(TargetPath(x, t))

\* The invariant behind PassRepairs.
Repaired ==
  quiet /\ at \in Handling =>
    \A x \in item, i \in image, t \in job.targets \ (left \cup target) : Served(x, i, t)

\* What PassRepairs says of a step.
Repairs ==
  quiet' /\ at \in Handling =>
    \A x \in item, i \in image, t \in job.targets \ (left' \cup target') : Served(x, i, t)'

LEMMA ServedKept ==
  ASSUME NEW x, NEW i, NEW t, Served(x, i, t), UNCHANGED <<locations, disturbed>>,
         assignments \subseteq assignments', DOMAIN files \subseteq DOMAIN files'
  PROVE  Served(x, i, t)'
<1>1. Assigned(i, t)'  BY DEF Served, Assigned
<1>2. \/ \E l \in locations' : l.image = i /\ l.device = t.id /\ Exists(l.path)'
      \/ Exists(TargetPath(x, t))' /\ (disturbed' \/ Tracked(TargetPath(x, t))')
  BY DEF Served, Exists, Tracked, TargetPath
<1>. QED  BY <1>1, <1>2 DEF Served, Exists, TargetPath, Tracked

\* In a quiet job the worker alone writes, and a step that is not Skip or Locate leaves
\* the targets that are done where they are.
LEMMA RepairsKept ==
  ASSUME Repaired, UNCHANGED <<locations, disturbed>>, quiet' => quiet,
         assignments \subseteq assignments', DOMAIN files \subseteq DOMAIN files',
         left \cup target \subseteq left' \cup target'
  PROVE  Repairs
BY ServedKept DEF Repaired, Repairs

LEMMA SkipRepairs ==
  ASSUME TypeOK, TargetsOK, ReadOK, Repaired, NEW i \in image, NEW t \in left, Skip(i, t)
  PROVE  Repairs
<1>1. /\ UNCHANGED <<locations, assignments, files, disturbed, quiet>> /\ at = "device"
      /\ image = {i} /\ Assigned(i, t) /\ HasFile(t) /\ left' = left \ {t} /\ target' = {}
      /\ target = {}
  BY AfterDeviceFacts DEF Skip, rowVars, fileVars, historyVars, TargetsOK, Serving
<1>. SUFFICES ASSUME quiet, NEW x \in item, NEW u \in job.targets \ left'
              PROVE  Served(x, i, u)'
  BY <1>1 DEF Repairs
<1>2. Served(x, i, u)
  <2>1. CASE u = t
    <3>1. PICK l \in known : l.device = t.id /\ Exists(l.path)  BY <1>1 DEF HasFile
    <3>2. l \in Location  BY DEF TypeOK, WorkOK
    <3>3. l \in locations /\ l.image = i
      BY <1>1, <3>1, <3>2 DEF ReadOK, Calm, Handling
    <3>. QED  BY <1>1, <2>1, <3>1, <3>3 DEF Served
  <2>2. CASE u # t
    <3>1. u \in job.targets \ (left \cup target)  BY <1>1, <2>2
    <3>. QED  BY <1>1, <3>1 DEF Repaired, Handling
  <2>. QED  BY <2>1, <2>2
<1>. QED  BY <1>1, <1>2, ServedKept

LEMMA LocateRepairs ==
  ASSUME PassInv, OrphanInv, Made, Repaired,
         NEW x \in item, NEW i \in image, NEW t \in target, Locate(x, i, t)
  PROVE  Repairs
<1>0. RowsOK /\ WorkOK /\ HistoryOK /\ TargetsOK /\ Present /\ ReadOK
  BY DEF PassInv, TypeOK
<1> DEFINE p == TargetPath(x, t)
<1>1. /\ UNCHANGED <<assignments, files, disturbed, quiet>> /\ AfterDevice(left)
      /\ at = "locate" /\ item = {x} /\ image = {i} /\ target = {t}
  BY DEF Locate, fileVars, historyVars
<1>2. left' = left /\ target' = {}  BY <1>1, AfterDeviceFacts
<1>. SUFFICES ASSUME quiet, NEW u \in job.targets \ left
              PROVE  Served(x, i, u)'
  BY <1>1, <1>2 DEF Repairs
<1>3. i \in DOMAIN images /\ t.id \in DOMAIN devices
  BY <1>0, <1>1 DEF Present, TargetsOK, Calm, Handling
<1>4. Assigned(i, t) /\ Exists(p)  BY <1>0, <1>1 DEF ReadOK, Calm, Made
<1>5. /\ \A l : ~ (l.image = i /\ l.device = t.id) => (l \in locations' <=> l \in locations)
      /\ \/ locations' = locations /\ \E l \in locations : l.path = p
         \/ /\ \E l \in locations' : l.image = i /\ l.device = t.id /\ l.path = p
            /\ \A l \in locations' : l.image = i /\ l.device = t.id => l.path = p
  BY <1>0, <1>3, LocateEffect, LocateTypes
<1>6. CASE u = t
  <2>1. Assigned(i, t)' /\ Exists(p)'  BY <1>1, <1>4 DEF Assigned, Exists
  <2>2. CASE \E l \in locations' : l.image = i /\ l.device = t.id /\ l.path = p
    BY <1>6, <2>1, <2>2 DEF Served
  <2>3. CASE locations' = locations /\ \E l \in locations : l.path = p
    <3>1. Tracked(p)'  BY <2>3 DEF Tracked
    <3>. QED  BY <1>6, <2>1, <3>1 DEF Served, TargetPath
  <2>. QED  BY <1>5, <2>2, <2>3
<1>7. CASE u # t
  <2> DEFINE q == TargetPath(x, u)
  <2>1. Served(x, i, u)  BY <1>1, <1>7 DEF Repaired, Handling
  <2>2. u.id # t.id  BY <1>0, <1>1, <1>7 DEF TargetsOK, Handling
  <2>3. Assigned(i, u)'  BY <1>1, <2>1 DEF Served, Assigned
  <2>4. CASE \E l \in locations : l.image = i /\ l.device = u.id /\ Exists(l.path)
    <3>1. PICK l \in locations : l.image = i /\ l.device = u.id /\ Exists(l.path)  BY <2>4
    <3>2. l \in locations' /\ Exists(l.path)'  BY <1>1, <1>5, <2>2, <3>1 DEF Exists
    <3>. QED  BY <2>3, <3>1, <3>2 DEF Served
  <2>5. CASE Exists(q) /\ (disturbed \/ Tracked(q))
    <3>1. Exists(q)'  BY <1>1, <2>5 DEF Exists, TargetPath
    <3>2. CASE disturbed  BY <1>1, <2>3, <3>1, <3>2 DEF Served, TargetPath
    <3>3. ASSUME ~disturbed, NEW l \in locations, l.path = q  PROVE Tracked(q)'
      <4>1. CASE l.image = i /\ l.device = t.id
        <5>1. q = p
          BY <1>1, <2>5, <3>3, <4>1 DEF OrphanInv, Replaceable, Serving, Handling, Exists
        <5>. QED  BY <1>5, <3>3, <5>1 DEF Tracked
      <4>2. CASE ~ (l.image = i /\ l.device = t.id)
        BY <1>5, <3>3, <4>2 DEF Tracked
      <4>. QED  BY <4>1, <4>2
    <3>4. CASE ~disturbed /\ Tracked(q)
      <4>1. Tracked(q)'  BY <3>3, <3>4 DEF Tracked
      <4>. QED  BY <2>3, <3>1, <4>1 DEF Served, TargetPath
    <3>. QED  BY <2>5, <3>2, <3>4
  <2>. QED  BY <2>1, <2>4, <2>5 DEF Served
<1>. QED  BY <1>6, <1>7

\* In a quiet job only the worker's own steps count.
LEMMA RepairsStep ==
  ASSUME PassInv, OrphanInv, Made, Repaired, [Next]_vars
  PROVE  Repairs
<1>0. RowsOK /\ WorkOK /\ HistoryOK /\ TypeOK /\ TargetsOK /\ Present /\ ReadOK
  BY DEF PassInv, TypeOK
<1>. SUFFICES ASSUME quiet', at \in Handling  PROVE Repairs
  BY DEF Repairs
<1>1. CASE User
  <2>1. Calm'  BY DEF Calm
  <2>2. at # "idle"  BY DEF Handling
  <2>3. /\ UNCHANGED <<left, target, locations, assignments, disturbed, files>>
        /\ quiet' => quiet
    BY <1>0, <1>1, <2>1, <2>2, CalmUser DEF workVars
  <2>. QED  BY <2>3, RepairsKept
<1>2. CASE Failure  BY <1>0, <1>2, CalmFailure
<1>3. CASE Sync
  <2>1. quiet  BY <1>3, SyncHistory DEF Handling
  <2>2. ASSUME NEW i \in image, NEW t \in left, Choose(i, t)  PROVE Repairs
    <3>1. /\ UNCHANGED <<locations, assignments, files, disturbed>>
          /\ left' = left \ {t} /\ target' = {t} /\ target = {}
      BY <1>0, <2>2 DEF Choose, rowVars, fileVars, historyVars, TargetsOK, Serving
    <3>2. left \cup target \subseteq left' \cup target'  BY <3>1
    <3>. QED  BY <2>1, <3>1, <3>2, RepairsKept
  <2>3. ASSUME NEW x \in item, NEW t \in target,
               Download(x, t) \/ \E c : Link(x, t, c) \/ Copy(x, t, c)
        PROVE  Repairs
    <3>1. /\ UNCHANGED <<locations, assignments, disturbed, left, target>>
          /\ DOMAIN files \subseteq DOMAIN files'
      BY <2>3, MakesFile DEF rowVars, historyVars
    <3>. QED  BY <2>1, <3>1, RepairsKept
  <2>4. CASE LinkFails
    <3>1. UNCHANGED <<locations, assignments, disturbed, left, target, files>>
      BY <2>4 DEF LinkFails, rowVars, historyVars, workVars, fileVars
    <3>. QED  BY <2>1, <3>1, RepairsKept
  <2>5. ASSUME NEW c \in canonical, CopyFindsNothing(c)  PROVE FALSE
    BY <2>1, <2>5 DEF CopyFindsNothing, Made
  <2>6. ASSUME NEW i \in image, NEW t \in target, Assign(i, t)  PROVE Repairs
    <3>1. /\ UNCHANGED <<locations, disturbed, left, target, files>>
          /\ assignments \subseteq assignments'
      BY <2>6 DEF Assign, historyVars, workVars, fileVars
    <3>. QED  BY <2>1, <3>1, RepairsKept
  <2>7. ~ \/ \E s \in Sources : \E D \in SUBSET DOMAIN devices : D # {} /\ StartSync(s, D)
          \/ \E x \in Item : NextItem(x) \/ GetOrCreateImage(x)
          \/ \E i \in image : ReadLocations(i)
          \/ EndSync
    BY DEF StartSync, NextItem, GetOrCreateImage, ReadLocations, EndSync, Handling
  <2>. QED  BY <1>0, <1>3, <2>2, <2>3, <2>4, <2>5, <2>6, <2>7, SkipRepairs, LocateRepairs DEF Sync
<1>4. CASE UNCHANGED vars
  BY <1>4, RepairsKept DEF vars, rowVars, fileVars, workVars, historyVars
<1>. QED  BY <1>1, <1>2, <1>3, <1>4 DEF Next

LEMMA MadeStep ==
  ASSUME PassInv, Made, [Next]_vars
  PROVE  Made'
<1>0. HistoryOK /\ TypeOK /\ TargetsOK /\ Present /\ ReadOK
  BY DEF PassInv, TypeOK
<1> DEFINE Goal == /\ at' \in {"link", "copy"} => \E c \in canonical' : c \in DOMAIN files'
                   /\ at' \in {"assign", "locate"} =>
                        \A x \in item', t \in target' : TargetPath(x, t) \in DOMAIN files'
<1>. SUFFICES ASSUME quiet'  PROVE Goal
  BY DEF Made, Exists, TargetPath
<1>1. ASSUME at' \notin {"link", "copy", "assign", "locate"}  PROVE Goal
  BY <1>1
<1>2. ASSUME quiet, UNCHANGED <<canonical, item, target>>, DOMAIN files \subseteq DOMAIN files',
             \/ at' = at
             \/ at = "link" /\ at' = "copy"
             \/ at = "assign" /\ at' = "locate"
      PROVE  Goal
  BY <1>2 DEF Made, Exists
<1>3. CASE User
  <2>1. Calm'  BY DEF Calm
  <2>2. UNCHANGED <<at, canonical, item, target>> /\ quiet
        /\ (at # "idle" => UNCHANGED files)
    BY <1>0, <1>3, <2>1, CalmUser DEF workVars
  <2>3. CASE at = "idle"  BY <1>1, <2>2, <2>3
  <2>4. CASE at # "idle"  BY <1>2, <2>2, <2>4
  <2>. QED  BY <2>3, <2>4
<1>4. CASE Failure  BY <1>0, <1>4, CalmFailure
<1>5. CASE Sync
  <2>1. ASSUME NEW s \in Sources, NEW D \in SUBSET DOMAIN devices, StartSync(s, D)  PROVE Goal
    BY <1>1, <2>1 DEF StartSync
  <2>2. ASSUME NEW x \in Item, NextItem(x) \/ GetOrCreateImage(x)  PROVE Goal
    BY <1>1, <2>2 DEF NextItem, GetOrCreateImage
  <2>3. ASSUME NEW i \in image, ReadLocations(i)  PROVE Goal
    BY <1>1, <2>3 DEF ReadLocations
  <2>4. ASSUME NEW rest, AfterDevice(rest)  PROVE Goal
    BY <1>1, <2>4, AfterDeviceFacts
  <2>5. ASSUME NEW i \in image, NEW t \in left, Choose(i, t)  PROVE Goal
    <3>1. /\ at' = Rule(i, t) /\ UNCHANGED <<canonical, files>>
      BY <2>5 DEF Choose, fileVars
    <3>2. at' = "link" => \E c \in canonical' : c \in DOMAIN files'
      BY <3>1 DEF Rule, Exists
    <3>3. at' \notin {"copy", "assign", "locate"}  BY <3>1 DEF Rule
    <3>. QED  BY <3>2, <3>3
  <2>6. ASSUME NEW x \in item, NEW t \in target,
               Download(x, t) \/ \E c : Link(x, t, c) \/ Copy(x, t, c)
        PROVE  Goal
    <3>0. /\ DOMAIN files' = DOMAIN files \cup {TargetPath(x, t)}
          /\ UNCHANGED <<item, target>> /\ item = {x} /\ target = {t}
          /\ at' = IF at = "redownload" THEN "locate" ELSE "assign"
      BY <2>6, MakesFile
    <3>1. /\ UNCHANGED <<item, target>> /\ item = {x} /\ target = {t}
          /\ at' \in {"assign", "locate"} /\ TargetPath(x, t) \in DOMAIN files'
      BY <3>0
    <3>2. \A y \in item', u \in target' : TargetPath(y, u) \in DOMAIN files'
      BY <3>1
    <3>. QED  BY <3>1, <3>2
  <2>7. CASE LinkFails
    BY <1>2, <2>7 DEF LinkFails, fileVars, workVars, historyVars
  <2>8. ASSUME NEW i \in image, NEW t \in target, Assign(i, t)  PROVE Goal
    BY <1>2, <2>8 DEF Assign, fileVars, workVars, historyVars
  <2>9. CASE EndSync  BY <1>1, <2>9 DEF EndSync
  <2>. QED  BY <1>5, <2>1, <2>2, <2>3, <2>4, <2>5, <2>6, <2>7, <2>8, <2>9
            DEF Sync, Skip, CopyFindsNothing, Locate
<1>6. CASE UNCHANGED vars
  <2>1. quiet /\ UNCHANGED <<canonical, item, target, files, at>>
    BY <1>6 DEF vars, fileVars, workVars, historyVars
  <2>. QED  BY <1>2, <2>1
<1>. QED  BY <1>3, <1>4, <1>5, <1>6 DEF Next

\* The worker comes to the devices with all targets left, and keeps its item until it
\* has come past them.
LEMMA HandlingStep ==
  ASSUME HistoryOK, [Next]_vars, at' \in Handling, quiet'
  PROVE  \/ at \in Handling /\ UNCHANGED <<item, image, job>>
         \/ job'.targets = left'
<1>1. CASE User  BY <1>1, UserWork DEF workVars
<1>2. CASE Failure  BY <1>2, CalmFailure
<1>3. CASE UNCHANGED vars  BY <1>3 DEF vars, workVars
<1>4. CASE Sync
  <2>1. ASSUME NEW rest, AfterDevice(rest)  PROVE UNCHANGED <<item, image>>
    BY <2>1, AfterDeviceFacts DEF Handling
  <2>2. ASSUME NEW i \in image, ReadLocations(i)  PROVE job'.targets = left'
    BY <2>2 DEF ReadLocations
  <2>3. ASSUME NEW i \in image, NEW t \in left, Skip(i, t) \/ Choose(i, t)
        PROVE  at \in Handling /\ UNCHANGED <<item, image, job>>
    BY <2>1, <2>3 DEF Skip, Choose, Handling
  <2>4. ASSUME NEW x \in item, NEW t \in target,
               Download(x, t) \/ \E c : Link(x, t, c) \/ Copy(x, t, c)
        PROVE  at \in Handling /\ UNCHANGED <<item, image, job>>
    BY <2>4, MakesFile DEF Handling
  <2>5. CASE LinkFails  BY <2>5 DEF LinkFails, workVars, Handling
  <2>6. ASSUME NEW c \in canonical, CopyFindsNothing(c)
        PROVE  at \in Handling /\ UNCHANGED <<item, image, job>>
    BY <2>1, <2>6 DEF CopyFindsNothing, Handling
  <2>7. ASSUME NEW i \in image, NEW t \in target, Assign(i, t)
        PROVE  at \in Handling /\ UNCHANGED <<item, image, job>>
    BY <2>7 DEF Assign, workVars, Handling
  <2>8. ASSUME NEW x \in item, NEW i \in image, NEW t \in target, Locate(x, i, t)
        PROVE  at \in Handling /\ UNCHANGED <<item, image, job>>
    BY <2>1, <2>8 DEF Locate, Handling
  <2>9. ~ \/ \E s \in Sources : \E D \in SUBSET DOMAIN devices : D # {} /\ StartSync(s, D)
          \/ \E x \in Item : NextItem(x) \/ GetOrCreateImage(x)
          \/ EndSync
    BY DEF StartSync, NextItem, GetOrCreateImage, EndSync, Handling
  <2>. QED  BY <1>4, <2>2, <2>3, <2>4, <2>5, <2>6, <2>7, <2>8, <2>9 DEF Sync
<1>. QED  BY <1>1, <1>2, <1>3, <1>4 DEF Next

LEMMA RepairedStep ==
  ASSUME PassInv, OrphanInv, Made, Repaired, [Next]_vars
  PROVE  Repaired'
<1>. SUFFICES ASSUME quiet', at' \in Handling
              PROVE  \A x \in item', i \in image', t \in job'.targets \ (left' \cup target') :
                       Served(x, i, t)'
  BY DEF Repaired
<1>1. HistoryOK  BY DEF PassInv, TypeOK
<1>2. CASE at \in Handling /\ UNCHANGED <<item, image, job>>
  BY <1>2, RepairsStep DEF Repairs
<1>3. CASE job'.targets = left'  BY <1>3
<1>. QED  BY <1>1, <1>2, <1>3, HandlingStep

\* Whatever failed, crashed or was deleted before, once a job during which nothing fails and
\* nothing is removed has come past a target, the item is assigned to that device and has
\* a file there.
THEOREM PassRepairsCorrect == Spec => PassRepairs
<1> DEFINE Inv == PassInv /\ OrphanInv /\ Made /\ Repaired
<1>1. Init => Inv
  <2>. SUFFICES ASSUME Init PROVE OrphanInv /\ Made /\ Repaired  BY PassInit
  <2>1. Made /\ Repaired  BY DEF Init, Made, Repaired, Handling
  <2>2. OrphanInv
    BY DEF Init, OrphanInv, Covered, Replaceable, Deleting, NoOrphans, NoDelete, NoRow, Serving,
           Handling
  <2>. QED  BY <2>1, <2>2
<1>2. Inv /\ [Next]_vars => Inv'
  BY PassStep, OrphanStep, MadeStep, RepairedStep DEF PassInv
<1>3. Inv /\ [Next]_vars =>
        [quiet' /\ at \in Handling =>
           \A x \in item, i \in image, t \in job.targets \ (left' \cup target') :
             Served(x, i, t)']_vars
  BY RepairsStep DEF Repairs
<1>. QED  BY <1>1, <1>2, <1>3, PTL DEF Spec, PassRepairs
=============================================================================
