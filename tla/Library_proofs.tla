--------------------------- MODULE Library_proofs ---------------------------
(***************************************************************************)
(* Proofs about module Library, for any items, spellings, devices and      *)
(* bounds: the types and the schema, the counters, the tags and the        *)
(* thumbnails.                                                             *)
(***************************************************************************)
EXTENDS Library, Tables_proofs

-----------------------------------------------------------------------------
(* The parts of TypeOK, and what its foreign keys rest on. *)

TagRow == [name : Spellings, normal : {Normal[s] : s \in Spellings} \ {Blank}]

RowsOK ==
  /\ images \in Table(Images, Items) /\ tags \in Table(TagIds, TagRow)
  /\ Schema

BlacklistOK == blacklist \subseteq Items

FilesOK == files \in Table(Images, {"whole", "short"})

JobOK ==
  /\ job \in [status : {"none", "queued", "running", "succeeded"}, counts : [Counters -> Nat]]
  /\ result \in [Counters -> Nat]

Worker == [at : Steps, todo : SUBSET Items, item : SUBSET Items, image : SUBSET Images,
           names : SUBSET Spellings, tag : SUBSET TagIds, canonical : BOOLEAN,
           source : BOOLEAN, fresh : BOOLEAN, left : 0..Devices, read : SUBSET [Counters -> Nat]]

WorkOK == worker \in Worker

DeleteOK ==
  delete \in [step : {"idle", "thumbnail", "file", "row", "tags", "image"}, image : SUBSET Images]

\* The tag in the worker's hands exists: no tag is ever deleted.
TagExists == worker.tag \subseteq DOMAIN tags

LEMMA TypeParts == TypeOK <=> RowsOK /\ BlacklistOK /\ FilesOK /\ JobOK /\ WorkOK /\ DeleteOK
BY DEF TypeOK, RowsOK, BlacklistOK, FilesOK, JobOK, WorkOK, DeleteOK, TagRow, Worker

LEMMA ZeroType == Zero \in [Counters -> Nat]
BY DEF Zero

LEMMA IdleType == Idle \in Worker /\ Idle.tag = {}
BY ItemsAssumption DEF Idle, Worker, Steps

LEMMA NoItemType ==
  ASSUME WorkOK
  PROVE  NoItem \in Worker /\ NoItem.tag = {} /\ NoItem.at = "fetch"
BY IdleType DEF WorkOK, NoItem, Worker, Steps, Idle

LEMMA DedupedType ==
  ASSUME NEW x \in Items
  PROVE  Deduped(TagsOf[x]) \subseteq Spellings
<1>1. TagsOf[x] \in Seq(Spellings)  BY ItemsAssumption
<1>. QED  BY <1>1 DEF Deduped

-----------------------------------------------------------------------------
(* Rows *)

\* The actions that write a table, and what each of them does to it.
LEMMA RowsChange ==
  ASSUME [Next]_vars
  PROVE  \/ UNCHANGED <<images, tags, imageTags, thumbnails>>
         \/ \E x \in Items : GetOrCreateImage(x)
         \/ \E n \in Spellings : EnsureTag(n)
         \/ \E i \in Images, t \in TagIds : EnsureImageTag(i, t)
         \/ \E i \in Images : RecordThumbnail(i) \/ DeleteRow(i)
         \/ DeleteThumbnailRow \/ DeleteTags
<1>1. CASE UNCHANGED vars  BY <1>1 DEF vars, rowVars
<1>2. CASE Job
  BY <1>2 DEF Job, NewJob, StartJob, SkipItem, NextItem, ReadLocations, Visit, EndDevices, EndItems,
     ReadCounters, CompleteJob, WriteCounters, rowVars
<1>3. CASE Tag
  BY <1>3 DEF Tag, TagFails, EndTags, EnsureImageTagFails, rowVars
<1>4. CASE Thumbnail
  BY <1>4 DEF Thumbnail, EncodeSmall, EnsureThumbnail, Rename, EncodeInPlace, FinishInPlace,
     ReadThumbnail, LoseFile, rowVars
<1>5. CASE User
  BY <1>5 DEF User, BlacklistImage, BeginDelete, DeleteReads, DeleteFile, rowVars
<1>6. CASE Failure
  BY <1>6 DEF Failure, RenameFails, ItemFails, ThumbnailFails, CountersFail, CompleteFails,
     DeleteFails, Crash, rowVars
<1>. QED  BY <1>1, <1>2, <1>3, <1>4, <1>5, <1>6 DEF Next

LEMMA RowsStep ==
  ASSUME RowsOK, WorkOK, TagExists, [Next]_vars
  PROVE  RowsOK' /\ DOMAIN tags \subseteq DOMAIN tags'
<1>0. /\ images \in Table(Images, Items) /\ tags \in Table(TagIds, TagRow)
      /\ imageTags \subseteq (DOMAIN images) \X (DOMAIN tags) /\ thumbnails \subseteq DOMAIN images
      /\ \A i, j \in DOMAIN images : images[i] = images[j] => i = j
      /\ \A t, u \in DOMAIN tags : tags[t].normal = tags[u].normal => t = u
  BY DEF RowsOK, Schema
<1>1. CASE UNCHANGED <<images, tags, imageTags, thumbnails>>
  BY <1>1 DEF RowsOK, Schema
<1>2. ASSUME NEW x \in Items, GetOrCreateImage(x)
      PROVE  RowsOK' /\ DOMAIN tags \subseteq DOMAIN tags'
  <2>1. UNCHANGED <<tags, imageTags, thumbnails>>  BY <1>2 DEF GetOrCreateImage
  <2>2. CASE UNCHANGED images  BY <2>1, <2>2 DEF RowsOK, Schema
  <2>3. ASSUME NEW i \in Images, RowsOf(x) = {}, images' = With(images, i, x)
        PROVE  RowsOK' /\ DOMAIN tags \subseteq DOMAIN tags'
    <3>1. images' \in Table(Images, Items)  BY <1>0, <2>3, WithType
    <3>2. \A j \in DOMAIN images : images[j] # x  BY <2>3 DEF RowsOf
    <3>3. /\ DOMAIN images' = DOMAIN images \cup {i} /\ images'[i] = x
          /\ \A j \in DOMAIN images : j # i => images'[j] = images[j]
      BY <2>3 DEF With
    <3>4. \A j, k \in DOMAIN images' : images'[j] = images'[k] => j = k
      BY <1>0, <3>2, <3>3
    <3>. QED  BY <1>0, <2>1, <3>1, <3>3, <3>4 DEF RowsOK, Schema
  <2>. QED  BY <1>2, <2>2, <2>3 DEF GetOrCreateImage
<1>3. ASSUME NEW n \in Spellings, EnsureTag(n)  PROVE RowsOK' /\ DOMAIN tags \subseteq DOMAIN tags'
  <2>1. UNCHANGED <<images, imageTags, thumbnails>>  BY <1>3 DEF EnsureTag
  <2>2. CASE UNCHANGED tags  BY <2>1, <2>2 DEF RowsOK, Schema
  <2>3. ASSUME NEW t \in TagIds \ DOMAIN tags, Normal[n] # Blank,
               ~ \E u \in DOMAIN tags : tags[u].normal = Normal[n],
               tags' = With(tags, t, [name |-> n, normal |-> Normal[n]])
        PROVE  RowsOK' /\ DOMAIN tags \subseteq DOMAIN tags'
    <3>1. [name |-> n, normal |-> Normal[n]] \in TagRow  BY <2>3 DEF TagRow
    <3>2. tags' \in Table(TagIds, TagRow)  BY <1>0, <2>3, <3>1, WithType
    <3>3. /\ DOMAIN tags' = DOMAIN tags \cup {t} /\ tags'[t].normal = Normal[n]
          /\ \A u \in DOMAIN tags : tags'[u] = tags[u]
      BY <2>3 DEF With
    <3>4. \A u, v \in DOMAIN tags' : tags'[u].normal = tags'[v].normal => u = v
      BY <1>0, <2>3, <3>3
    <3>. QED  BY <1>0, <2>1, <3>2, <3>3, <3>4 DEF RowsOK, Schema
  <2>4. \/ UNCHANGED tags
        \/ /\ Normal[n] # Blank /\ ~ \E u \in DOMAIN tags : tags[u].normal = Normal[n]
           /\ \E t \in TagIds \ DOMAIN tags :
                tags' = With(tags, t, [name |-> n, normal |-> Normal[n]])
    BY <1>3 DEF EnsureTag, Found
  <2>. QED  BY <2>2, <2>3, <2>4
<1>4. ASSUME NEW i \in Images, NEW t \in TagIds, EnsureImageTag(i, t)
      PROVE  RowsOK' /\ DOMAIN tags \subseteq DOMAIN tags'
  <2>1. UNCHANGED <<images, tags, thumbnails>> /\ t \in DOMAIN tags
    BY <1>4 DEF EnsureImageTag, TagExists
  <2>2. imageTags' \subseteq (DOMAIN images) \X (DOMAIN tags)
    <3>1. imageTags' = IF i \in DOMAIN images THEN imageTags \cup {<<i, t>>} ELSE imageTags
      BY <1>4 DEF EnsureImageTag
    <3>2. i \in DOMAIN images => {<<i, t>>} \subseteq (DOMAIN images) \X (DOMAIN tags)
      BY <2>1
    <3>. QED  BY <1>0, <3>1, <3>2
  <2>. QED  BY <1>0, <2>1, <2>2 DEF RowsOK, Schema
<1>5. ASSUME NEW i \in Images, RecordThumbnail(i)
      PROVE  RowsOK' /\ DOMAIN tags \subseteq DOMAIN tags'
  BY <1>0, <1>5 DEF RecordThumbnail, RowsOK, Schema
<1>6. ASSUME NEW i \in Images, DeleteRow(i)  PROVE RowsOK' /\ DOMAIN tags \subseteq DOMAIN tags'
  <2>1. /\ tags' = tags /\ images' = Without(images, i) /\ thumbnails' = thumbnails \ {i}
        /\ imageTags' = {r \in imageTags : r[1] \notin {i}}
    BY <1>6 DEF DeleteRow, TagsWithout
  <2>2. images' \in Table(Images, Items)  BY <1>0, <2>1, WithoutType
  <2>3. DOMAIN images' = DOMAIN images \ {i} /\ \A j \in DOMAIN images' : images'[j] = images[j]
    BY <2>1 DEF Without
  <2>4. imageTags' \subseteq (DOMAIN images') \X (DOMAIN tags)
    BY <1>0, <2>1, <2>3
  <2>. QED  BY <1>0, <2>1, <2>2, <2>3, <2>4 DEF RowsOK, Schema
<1>7. CASE DeleteThumbnailRow \/ DeleteTags
  BY <1>0, <1>7 DEF DeleteThumbnailRow, DeleteTags, TagsWithout, RowsOK, Schema
<1>. QED  BY <1>1, <1>2, <1>3, <1>4, <1>5, <1>6, <1>7, RowsChange

-----------------------------------------------------------------------------
(* The blacklist, files, counters, the worker and the deletion *)

LEMMA BlacklistStep ==
  ASSUME RowsOK, BlacklistOK, [Next]_vars
  PROVE  BlacklistOK'
<1>1. CASE UNCHANGED blacklist  BY <1>1 DEF BlacklistOK
<1>2. CASE UNCHANGED vars  BY <1>1, <1>2 DEF vars, rowVars
<1>3. CASE Job
  BY <1>1, <1>3 DEF Job, NewJob, StartJob, SkipItem, NextItem, GetOrCreateImage, ReadLocations,
     Visit, EndDevices, EndItems, ReadCounters, CompleteJob, WriteCounters, rowVars
<1>4. CASE Tag
  BY <1>1, <1>4 DEF Tag, EnsureTag, TagFails, EndTags, EnsureImageTag, EnsureImageTagFails, rowVars
<1>5. CASE Thumbnail
  BY <1>1, <1>5 DEF Thumbnail, EncodeSmall, EnsureThumbnail, Rename, EncodeInPlace, FinishInPlace,
     ReadThumbnail, RecordThumbnail, LoseFile, rowVars
<1>6. CASE User
  <2>1. ASSUME NEW i \in Images, BlacklistImage(i)  PROVE BlacklistOK'
    <3>1. images[i] \in Items  BY <2>1, TableFacts DEF BlacklistImage, RowsOK
    <3>. QED  BY <2>1, <3>1 DEF BlacklistImage, BlacklistOK
  <2>. QED  BY <1>1, <1>6, <2>1 DEF User, BeginDelete, DeleteReads, DeleteFile,
               DeleteThumbnailRow, DeleteTags, DeleteRow, rowVars
<1>7. CASE Failure
  BY <1>1, <1>7 DEF Failure, RenameFails, ItemFails, ThumbnailFails, CountersFail, CompleteFails,
     DeleteFails, Crash, rowVars
<1>. QED  BY <1>2, <1>3, <1>4, <1>5, <1>6, <1>7 DEF Next

LEMMA FilesStep ==
  ASSUME FilesOK, [Next]_vars
  PROVE  FilesOK'
<1>1. CASE UNCHANGED files  BY <1>1 DEF FilesOK
<1>2. ASSUME NEW i \in Images, files' = Without(files, i)  PROVE FilesOK'
  BY <1>2, WithoutType DEF FilesOK
<1>3. ASSUME NEW i \in Images, NEW c \in {"whole", "short"}, files' = With(files, i, c)
      PROVE  FilesOK'
  BY <1>3, WithType DEF FilesOK
<1>4. CASE UNCHANGED vars  BY <1>1, <1>4 DEF vars
<1>5. CASE Job
  BY <1>1, <1>5 DEF Job, NewJob, StartJob, SkipItem, NextItem, GetOrCreateImage, ReadLocations,
     Visit, EndDevices, EndItems, ReadCounters, CompleteJob, WriteCounters
<1>6. CASE Tag
  BY <1>1, <1>6 DEF Tag, EnsureTag, TagFails, EndTags, EnsureImageTag, EnsureImageTagFails
<1>7. CASE Thumbnail
  <2>1. \/ UNCHANGED files
        \/ \E i \in Images : \/ files' = Without(files, i)
                              \/ \E c \in {"whole", "short"} : files' = With(files, i, c)
    BY <1>7 DEF Thumbnail, EncodeSmall, EnsureThumbnail, Rename, Renamed, EncodeInPlace,
       FinishInPlace, ReadThumbnail, RecordThumbnail, LoseFile
  <2>. QED  BY <1>1, <1>2, <1>3, <2>1
<1>8. CASE User
  BY <1>1, <1>2, <1>8 DEF User, BlacklistImage, BeginDelete, DeleteReads, DeleteFile,
     DeleteThumbnailRow, DeleteTags, DeleteRow
<1>9. CASE Failure
  BY <1>1, <1>9 DEF Failure, RenameFails, ItemFails, ThumbnailFails, CountersFail, CompleteFails,
     DeleteFails, Crash
<1>. QED  BY <1>4, <1>5, <1>6, <1>7, <1>8, <1>9 DEF Next

LEMMA PlusFacts ==
  ASSUME NEW r \in [Counters -> Nat], NEW names
  PROVE  /\ Plus(r, names) \in [Counters -> Nat]
         /\ \A c \in Counters : Plus(r, names)[c] = r[c] + (IF c \in names THEN 1 ELSE 0)
BY DEF Plus

\* What happens to the job row and to the counters of the job under way.
LEMMA JobChange ==
  ASSUME [Next]_vars
  PROVE  \/ UNCHANGED <<job, result>>
         \/ NewJob \/ StartJob \/ CompleteJob \/ Crash \/ CountersFail
         \/ \E o \in Outcomes : Visit(o)
         \/ \E x \in Items : SkipItem(x)
         \/ \E old \in worker.read : WriteCounters(old)
<1>1. CASE UNCHANGED vars  BY <1>1 DEF vars
<1>2. CASE Job
  BY <1>2 DEF Job, NextItem, GetOrCreateImage, ReadLocations, EndDevices, EndItems, ReadCounters
<1>3. CASE Tag
  BY <1>3 DEF Tag, EnsureTag, TagFails, EndTags, EnsureImageTag, EnsureImageTagFails
<1>4. CASE Thumbnail
  BY <1>4 DEF Thumbnail, EncodeSmall, EnsureThumbnail, Rename, EncodeInPlace,
     FinishInPlace, ReadThumbnail, RecordThumbnail, LoseFile
<1>5. CASE User
  BY <1>5 DEF User, BlacklistImage, BeginDelete, DeleteReads, DeleteFile,
     DeleteThumbnailRow, DeleteTags, DeleteRow
<1>6. CASE Failure
  BY <1>6 DEF Failure, RenameFails, ItemFails, ThumbnailFails, CompleteFails, DeleteFails
<1>. QED  BY <1>1, <1>2, <1>3, <1>4, <1>5, <1>6 DEF Next

LEMMA JobStep ==
  ASSUME JobOK, WorkOK, [Next]_vars
  PROVE  JobOK'
<1>1. CASE UNCHANGED <<job, result>>  BY <1>1 DEF JobOK
<1>2. CASE NewJob  BY <1>2, ZeroType DEF NewJob, JobOK
<1>3. CASE StartJob  BY <1>3, ZeroType DEF StartJob, JobOK
<1>4. CASE CompleteJob  BY <1>4 DEF CompleteJob, JobOK
<1>5. CASE Crash  BY <1>5, ZeroType DEF Crash, JobOK
<1>6. CASE CountersFail  BY <1>6, ZeroType DEF CountersFail, JobOK
<1>7. ASSUME NEW o \in Outcomes, Visit(o)  PROVE JobOK'
  BY <1>7, PlusFacts DEF Visit, JobOK
<1>8. ASSUME NEW old \in worker.read, WriteCounters(old)  PROVE JobOK'
  <2>1. old \in [Counters -> Nat]  BY DEF WorkOK, Worker
  <2>2. [c \in Counters |-> old[c] + result[c]] \in [Counters -> Nat]  BY <2>1 DEF JobOK
  <2>. QED  BY <1>8, <2>2, ZeroType DEF WriteCounters, JobOK
<1>9. ASSUME NEW x \in Items, SkipItem(x)  PROVE JobOK'
  BY <1>9, PlusFacts DEF SkipItem, JobOK
<1>. QED  BY <1>1, <1>2, <1>3, <1>4, <1>5, <1>6, <1>7, <1>8, <1>9, JobChange

LEMMA DeleteStep ==
  ASSUME DeleteOK, [Next]_vars
  PROVE  DeleteOK'
<1>0. NoDelete \in [step : {"idle", "thumbnail", "file", "row", "tags", "image"},
                    image : SUBSET Images]
  BY DEF NoDelete
<1>1. CASE UNCHANGED delete  BY <1>1 DEF DeleteOK
<1>2. CASE UNCHANGED vars  BY <1>1, <1>2 DEF vars
<1>3. CASE Job
  BY <1>1, <1>3 DEF Job, NewJob, StartJob, SkipItem, NextItem, GetOrCreateImage, ReadLocations,
     Visit, EndDevices, EndItems, ReadCounters, CompleteJob, WriteCounters
<1>4. CASE Tag
  BY <1>1, <1>4 DEF Tag, EnsureTag, TagFails, EndTags, EnsureImageTag, EnsureImageTagFails
<1>5. CASE Thumbnail
  BY <1>1, <1>5 DEF Thumbnail, EncodeSmall, EnsureThumbnail, Rename, EncodeInPlace,
     FinishInPlace, ReadThumbnail, RecordThumbnail, LoseFile
<1>6. CASE User
  <2>1. ASSUME NEW i \in Images, BeginDelete(i)  PROVE DeleteOK'
    BY <2>1 DEF BeginDelete, DeleteOK
  <2>2. CASE \E s \in {"file", "row", "tags", "image"} : delete' = [delete EXCEPT !.step = s]
    BY <2>2 DEF DeleteOK
  <2>3. CASE delete' = NoDelete  BY <1>0, <2>3 DEF DeleteOK
  <2>. QED  BY <1>1, <1>6, <2>1, <2>2, <2>3 DEF User, BlacklistImage, DeleteReads, AfterRead,
               DeleteFile, DeleteThumbnailRow, DeleteTags, DeleteRow
<1>7. CASE Failure
  BY <1>0, <1>1, <1>7 DEF Failure, RenameFails, ItemFails, ThumbnailFails, CountersFail,
     CompleteFails, DeleteFails, Crash, DeleteOK
<1>. QED  BY <1>2, <1>3, <1>4, <1>5, <1>6, <1>7 DEF Next

LEMMA WorkStep ==
  ASSUME RowsOK, JobOK, WorkOK, TagExists, [Next]_vars
  PROVE  WorkOK' /\ TagExists'
<1>. USE IdleType, NoItemType, ItemsAssumption
<1>0. DOMAIN tags \subseteq DOMAIN tags' /\ DOMAIN tags \subseteq TagIds
  BY RowsStep, TableFacts DEF RowsOK
<1>1. CASE UNCHANGED worker  BY <1>0, <1>1 DEF WorkOK, TagExists
<1>2. CASE worker' = Idle \/ worker' = NoItem  BY <1>2 DEF WorkOK, TagExists
<1>3. CASE Job
  <2>1. CASE NewJob  BY <1>1, <2>1 DEF NewJob
  <2>2. CASE StartJob  BY <2>2 DEF StartJob, WorkOK, TagExists, Worker, Steps
  <2>3. ASSUME NEW x \in Items, NextItem(x)  PROVE WorkOK' /\ TagExists'
    BY <1>0, <2>3 DEF NextItem, WorkOK, TagExists, Worker, Steps
  <2>4. ASSUME NEW x \in Items, GetOrCreateImage(x)  PROVE WorkOK' /\ TagExists'
    <3>1. Deduped(TagsOf[x]) \subseteq Spellings  BY DedupedType
    <3>2. \E i \in Images, b \in BOOLEAN :
            worker' = [worker EXCEPT !.at = "tags", !.image = {i}, !.names = Deduped(TagsOf[x]),
                                     !.fresh = b]
      BY <2>4 DEF GetOrCreateImage
    <3>. PICK i \in Images, b \in BOOLEAN :
            worker' = [worker EXCEPT !.at = "tags", !.image = {i}, !.names = Deduped(TagsOf[x]),
                                     !.fresh = b]
      BY <3>2
    <3>3. worker' \in Worker  BY <3>1 DEF WorkOK, Worker, Steps
    <3>4. worker'.tag = worker.tag  BY DEF WorkOK, Worker
    <3>. QED  BY <1>0, <3>3, <3>4 DEF WorkOK, TagExists
  <2>5. ASSUME NEW c \in BOOLEAN, ReadLocations(c)  PROVE WorkOK' /\ TagExists'
    <3>1. Devices \in 0..Devices  OBVIOUS
    <3>2. worker' = [worker EXCEPT !.at = "devices", !.canonical = c, !.source = c,
                                  !.left = Devices]
      BY <2>5 DEF ReadLocations
    <3>3. worker' \in Worker  BY <3>1, <3>2 DEF WorkOK, Worker, Steps
    <3>4. worker'.tag = worker.tag  BY <3>2 DEF WorkOK, Worker
    <3>. QED  BY <1>0, <3>3, <3>4 DEF WorkOK, TagExists
  <2>6. ASSUME NEW o \in Outcomes, Visit(o)  PROVE WorkOK' /\ TagExists'
    <3>1. worker.left - 1 \in 0..Devices  BY <2>6 DEF Visit, WorkOK, Worker
    <3>2. \E b, d \in BOOLEAN :
            worker' = [worker EXCEPT !.left = worker.left - 1, !.source = b, !.fresh = d]
      <4>1. worker.source \in BOOLEAN /\ worker.fresh \in BOOLEAN  BY DEF WorkOK, Worker
      <4>2. (worker.source \/ o \in {"skip", "redownload", "download"}) \in BOOLEAN
            /\ StillNew(o) \in BOOLEAN
        BY <4>1 DEF StillNew
      <4>. QED  BY <2>6, <4>2 DEF Visit
    <3>. PICK b, d \in BOOLEAN :
           worker' = [worker EXCEPT !.left = worker.left - 1, !.source = b, !.fresh = d]
      BY <3>2
    <3>3. worker' \in Worker  BY <3>1 DEF WorkOK, Worker
    <3>4. worker'.tag = worker.tag  BY DEF WorkOK, Worker
    <3>. QED  BY <1>0, <3>3, <3>4 DEF WorkOK, TagExists
  <2>7. CASE EndDevices
    BY <1>0, <1>2, <2>7 DEF EndDevices, WorkOK, TagExists, Worker, Steps
  <2>8. CASE EndItems  BY <2>8 DEF EndItems, WorkOK, TagExists, Worker, Steps
  <2>9. CASE ReadCounters
    BY <1>0, <2>9 DEF ReadCounters, JobOK, WorkOK, TagExists, Worker, Steps
  <2>10. CASE CompleteJob  BY <1>2, <2>10 DEF CompleteJob
  <2>11. ASSUME NEW old \in worker.read, WriteCounters(old)  PROVE WorkOK' /\ TagExists'
    BY <2>11 DEF WriteCounters, WorkOK, TagExists, Worker, Steps
  <2>12. ASSUME NEW x \in Items, SkipItem(x)  PROVE WorkOK' /\ TagExists'
    BY <1>0, <2>12 DEF SkipItem, WorkOK, TagExists, Worker
  <2>. QED
    BY <1>3, <2>1, <2>2, <2>3, <2>4, <2>5, <2>6, <2>7, <2>8, <2>9, <2>10, <2>11, <2>12 DEF Job
<1>4. CASE Tag
  <2>1. ASSUME NEW n \in Spellings, EnsureTag(n)  PROVE WorkOK' /\ TagExists'
    <3>1. \/ worker' = [worker EXCEPT !.names = @ \ {n}]
          \/ \E I \in SUBSET DOMAIN tags' :
               worker' = [worker EXCEPT !.names = @ \ {n}, !.at = "assign tag", !.tag = I]
      BY <1>0, <2>1 DEF EnsureTag, Found, With
    <3>2. DOMAIN tags' \subseteq TagIds  BY RowsStep, TableFacts DEF RowsOK
    <3>3. CASE worker' = [worker EXCEPT !.names = @ \ {n}]
      BY <1>0, <3>3 DEF WorkOK, TagExists, Worker
    <3>4. ASSUME NEW I \in SUBSET DOMAIN tags',
                 worker' = [worker EXCEPT !.names = @ \ {n}, !.at = "assign tag", !.tag = I]
          PROVE  WorkOK' /\ TagExists'
      <4>1. worker.names \ {n} \in SUBSET Spellings /\ I \in SUBSET TagIds
        BY <3>2 DEF WorkOK, Worker
      <4>2. worker' \in Worker  BY <3>4, <4>1 DEF WorkOK, Worker, Steps
      <4>3. worker'.tag = I  BY <3>4 DEF WorkOK, Worker
      <4>. QED  BY <4>2, <4>3 DEF WorkOK, TagExists
    <3>. QED  BY <3>1, <3>3, <3>4
  <2>2. ASSUME NEW n \in Spellings, TagFails(n)  PROVE WorkOK' /\ TagExists'
    BY <1>0, <2>2 DEF TagFails, WorkOK, TagExists, Worker, Steps
  <2>3. ASSUME NEW i \in Images, EndTags(i)  PROVE WorkOK' /\ TagExists'
    BY <1>0, <2>3 DEF EndTags, WorkOK, TagExists, Worker, Steps
  <2>4. CASE worker' = [worker EXCEPT !.at = "tags", !.tag = {}]
    BY <2>4 DEF WorkOK, TagExists, Worker, Steps
  <2>. QED  BY <1>4, <2>1, <2>2, <2>3, <2>4 DEF Tag, EnsureImageTag, EnsureImageTagFails
<1>5. CASE \E s \in Steps : worker' = [worker EXCEPT !.at = s]
  <2>. PICK s \in Steps : worker' = [worker EXCEPT !.at = s]  BY <1>5
  <2>1. worker' \in Worker  BY DEF WorkOK, Worker
  <2>2. worker'.tag = worker.tag  BY DEF WorkOK, Worker
  <2>. QED  BY <1>0, <2>1, <2>2 DEF WorkOK, TagExists
<1>6. CASE Thumbnail
  BY <1>1, <1>2, <1>5, <1>6 DEF Thumbnail, EncodeSmall, EnsureThumbnail, Rename, EncodeInPlace,
     FinishInPlace, ReadThumbnail, RecordThumbnail, LoseFile, Steps
<1>7. CASE User
  BY <1>1, <1>7 DEF User, BlacklistImage, BeginDelete, DeleteReads, DeleteFile,
     DeleteThumbnailRow, DeleteTags, DeleteRow
<1>8. CASE Failure
  <2>1. CASE CountersFail  BY <2>1 DEF CountersFail, WorkOK, TagExists, Worker, Steps
  <2>. QED  BY <1>1, <1>2, <1>5, <1>8, <2>1 DEF Failure, RenameFails, ItemFails, ThumbnailFails,
               CompleteFails, DeleteFails, Crash, Steps
<1>9. CASE UNCHANGED vars  BY <1>1, <1>9 DEF vars
<1>. QED  BY <1>3, <1>4, <1>6, <1>7, <1>8, <1>9 DEF Next

-----------------------------------------------------------------------------

LEMMA TypeInit ==
  ASSUME Init
  PROVE  TypeOK /\ TagExists
<1>1. \A Ids, Row : NoRow \in Table(Ids, Row)  BY DEF NoRow, Table
<1>2. RowsOK  BY <1>1 DEF Init, RowsOK, Schema, NoRow
<1>3. FilesOK  BY <1>1 DEF Init, FilesOK
<1>4. JobOK  BY ZeroType DEF Init, JobOK
<1>5. WorkOK /\ TagExists  BY IdleType DEF Init, WorkOK, TagExists
<1>6. DeleteOK  BY DEF Init, DeleteOK, NoDelete
<1>7. BlacklistOK  BY DEF Init, BlacklistOK
<1>. QED  BY <1>2, <1>3, <1>4, <1>5, <1>6, <1>7, TypeParts

LEMMA TypeStep ==
  ASSUME TypeOK, TagExists, [Next]_vars
  PROVE  TypeOK' /\ TagExists'
BY RowsStep, BlacklistStep, FilesStep, JobStep, WorkStep, DeleteStep, TypeParts
   DEF RowsOK, BlacklistOK, FilesOK, JobOK, WorkOK, DeleteOK, TypeOK, TagRow, Worker

\* Rows, files, worker and deletion have their types, the rows keep the foreign keys and
\* unique indexes of the migration, and no tag is blank, whatever fails or crashes.
THEOREM TypeCorrect == Spec => []TypeOK
<1>. QED  BY TypeInit, TypeStep, PTL DEF Spec

-----------------------------------------------------------------------------
(* Counters *)

\* What the counters of the job under way are at each step of the worker.
Stage ==
  /\ job.status # "running" => worker.at = "idle"
  /\ worker.at \in {"idle", "complete"} => result = Zero /\ ~worker.fresh
  /\ worker.at = "write counters" => worker.read = {job.counts}

\* What has been counted, here and in the row, was done; without a failure all of it
\* is counted; a new image that is not yet counted leaves room for itself.
Tally ==
  /\ created \in Nat /\ visited \in Nat
  /\ Sum(job.counts) + Sum(result) <= visited
  /\ clean => Sum(job.counts) + Sum(result) = visited
  /\ job.counts["stored"] + result["stored"] + (IF worker.fresh THEN 1 ELSE 0) <= created

LEMMA SumFacts ==
  /\ Sum(Zero) = 0 /\ Zero["stored"] = 0
  /\ \A r \in [Counters -> Nat] : Sum(r) \in Nat /\ r["stored"] \in Nat
BY DEF Sum, Zero, Counters

\* The steps of the worker that leave the counters alone.
LEMMA OtherSteps ==
  ASSUME WorkOK, [Next]_vars
  PROVE  \/ NewJob \/ StartJob \/ CompleteJob \/ CompleteFails \/ Crash \/ CountersFail
         \/ ReadCounters \/ (\E x \in Items : GetOrCreateImage(x) \/ SkipItem(x))
         \/ (\E o \in Outcomes : Visit(o)) \/ (\E old \in worker.read : WriteCounters(old))
         \/ /\ UNCHANGED <<job, result, created, visited>> /\ (UNCHANGED clean \/ clean' = FALSE)
            /\ \/ UNCHANGED worker
               \/ /\ worker.at \notin {"idle", "complete", "write counters"}
                  /\ worker'.at \notin {"idle", "complete", "write counters"}
                  /\ worker'.fresh \in {worker.fresh, FALSE}
<1>. DEFINE Other == /\ UNCHANGED <<job, result, created, visited>>
                     /\ (UNCHANGED clean \/ clean' = FALSE)
                     /\ \/ UNCHANGED worker
                        \/ /\ worker.at \notin {"idle", "complete", "write counters"}
                           /\ worker'.at \notin {"idle", "complete", "write counters"}
                           /\ worker'.fresh \in {worker.fresh, FALSE}
<1>. USE DEF WorkOK, Worker, historyVars
<1>0. NoItem.at = "fetch" /\ NoItem.fresh = FALSE  BY DEF NoItem, Idle
<1>1. CASE UNCHANGED vars  BY <1>1 DEF vars
<1>2. ASSUME NEW x \in Items, NextItem(x)  PROVE Other  BY <1>2 DEF NextItem
<1>3. ASSUME NEW c \in BOOLEAN, ReadLocations(c)  PROVE Other  BY <1>3 DEF ReadLocations
<1>4. CASE EndDevices  BY <1>0, <1>4 DEF EndDevices
<1>5. CASE EndItems  BY <1>5 DEF EndItems, Idle
<1>6. ASSUME NEW n \in Spellings, EnsureTag(n)  PROVE Other  BY <1>6 DEF EnsureTag
<1>7. ASSUME NEW n \in Spellings, TagFails(n)  PROVE Other  BY <1>7 DEF TagFails, Fault
<1>8. ASSUME NEW i \in Images, EndTags(i)  PROVE Other  BY <1>8 DEF EndTags
<1>9. ASSUME NEW i \in Images, NEW t \in TagIds, EnsureImageTag(i, t)  PROVE Other
  BY <1>9 DEF EnsureImageTag
<1>10. CASE EnsureImageTagFails  BY <1>10 DEF EnsureImageTagFails, Fault
<1>11. CASE Thumbnail
  <2>1. CASE EncodeSmall  BY <2>1 DEF EncodeSmall
  <2>2. ASSUME NEW i \in Images, EnsureThumbnail(i) \/ RecordThumbnail(i)  PROVE Other
    BY <1>0, <2>2 DEF EnsureThumbnail, RecordThumbnail
  <2>3. ASSUME NEW i \in Images, Rename(i) \/ EncodeInPlace(i)  PROVE Other
    BY <2>3 DEF Rename, EncodeInPlace
  <2>4. ASSUME NEW i \in Images, FinishInPlace(i)  PROVE Other  BY <1>0, <2>4 DEF FinishInPlace
  <2>5. ASSUME NEW i \in Images, ReadThumbnail(i)  PROVE Other  BY <2>5 DEF ReadThumbnail
  <2>6. ASSUME NEW i \in Images, LoseFile(i)  PROVE Other  BY <2>6 DEF LoseFile
  <2>. QED  BY <1>11, <2>1, <2>2, <2>3, <2>4, <2>5, <2>6 DEF Thumbnail
<1>12. CASE User
  BY <1>12 DEF User, BlacklistImage, BeginDelete, DeleteReads, DeleteFile,
     DeleteThumbnailRow, DeleteTags, DeleteRow
<1>13. CASE ItemFails \/ ThumbnailFails
  BY <1>0, <1>13 DEF ItemFails, ThumbnailFails, Fault
<1>14. CASE DeleteFails  BY <1>14 DEF DeleteFails, Fault
<1>15. ASSUME NEW i \in Images, RenameFails(i)  PROVE Other
  BY <1>0, <1>15 DEF RenameFails, Fault
<1>. QED  BY <1>1, <1>2, <1>3, <1>4, <1>5, <1>6, <1>7, <1>8, <1>9, <1>10, <1>11, <1>12, <1>13,
             <1>14, <1>15 DEF Next, Job, Tag, Failure

LEMMA StageStep ==
  ASSUME JobOK, WorkOK, Stage, [Next]_vars
  PROVE  Stage'
<1>. USE DEF JobOK, WorkOK, Worker
<1>0. Idle.at = "idle" /\ Idle.fresh = FALSE  BY DEF Idle
<1>1. CASE NewJob  BY <1>1 DEF NewJob, Stage
<1>2. CASE StartJob  BY <1>2 DEF StartJob, Stage, Idle
<1>3. CASE CompleteJob \/ CompleteFails  BY <1>0, <1>3 DEF CompleteJob, CompleteFails, Stage
<1>4. CASE Crash  BY <1>0, <1>4 DEF Crash, Stage
<1>5. CASE CountersFail  BY <1>5 DEF CountersFail, Stage, Idle
<1>6. CASE ReadCounters  BY <1>6 DEF ReadCounters, Stage
<1>7. ASSUME NEW x \in Items, GetOrCreateImage(x)  PROVE Stage'
  <2>1. job' = job /\ worker.at = "image" /\ worker'.at = "tags"
    BY <1>7 DEF GetOrCreateImage
  <2>. QED  BY <2>1 DEF Stage
<1>8. ASSUME NEW o \in Outcomes, Visit(o)  PROVE Stage'
  <2>1. job' = job /\ worker.at = "devices" /\ worker'.at = "devices"
    BY <1>8 DEF Visit
  <2>. QED  BY <2>1 DEF Stage
<1>9. ASSUME NEW old \in worker.read, WriteCounters(old)  PROVE Stage'
  BY <1>9 DEF WriteCounters, Stage, Idle
<1>10. CASE /\ UNCHANGED <<job, result>>
            /\ \/ UNCHANGED worker
               \/ /\ worker.at \notin {"idle", "complete", "write counters"}
                  /\ worker'.at \notin {"idle", "complete", "write counters"}
  BY <1>10 DEF Stage
<1>11. ASSUME NEW x \in Items, SkipItem(x)  PROVE Stage'
  <2>1. job' = job /\ worker.at = "fetch" /\ worker'.at = "fetch"
    BY <1>11 DEF SkipItem
  <2>. QED  BY <2>1 DEF Stage
<1>. QED  BY <1>1, <1>2, <1>3, <1>4, <1>5, <1>6, <1>7, <1>8, <1>9, <1>10, <1>11, OtherSteps

\* One of the counters that Sum adds up, and the sum with it, grows by one.
LEMMA SkippedSum ==
  ASSUME NEW r \in [Counters -> Nat]
  PROVE  /\ Sum(Plus(r, {"skipped"})) = Sum(r) + 1
         /\ Plus(r, {"skipped"})["stored"] = r["stored"]
BY PlusFacts DEF Sum, Counters

LEMMA IdleFresh == Idle.fresh = FALSE
BY DEF Idle

LEMMA TallyStep ==
  ASSUME JobOK, WorkOK, Stage, Tally, [Next]_vars
  PROVE  Tally'
<1>0. /\ job.counts \in [Counters -> Nat] /\ result \in [Counters -> Nat]
      /\ Sum(job.counts) \in Nat /\ Sum(result) \in Nat
      /\ job.counts["stored"] \in Nat /\ result["stored"] \in Nat
      /\ created \in Nat /\ visited \in Nat
  BY SumFacts DEF JobOK, Tally
<1>1. CASE NewJob
  <2>1. result = Zero /\ ~worker.fresh  BY <1>1 DEF NewJob, Stage
  <2>2. job'.counts = Zero /\ result' = result /\ worker' = worker /\ created' = 0 /\ visited' = 0
    BY <1>1 DEF NewJob
  <2>. QED  BY <2>1, <2>2, SumFacts DEF Tally
<1>2. CASE StartJob
  <2>1. result = Zero /\ ~worker.fresh  BY <1>2 DEF StartJob, Stage
  <2>2. /\ job'.counts = job.counts /\ result' = result /\ ~worker'.fresh
        /\ UNCHANGED <<created, visited, clean>>
    BY <1>2, <2>1 DEF StartJob, historyVars, JobOK, Idle
  <2>. QED  BY <1>0, <2>1, <2>2 DEF Tally
<1>3. CASE CompleteJob \/ CompleteFails
  <2>1. /\ job'.counts = job.counts /\ result' = result /\ ~worker'.fresh
        /\ UNCHANGED <<created, visited>> /\ (clean' => clean)
    BY <1>3 DEF CompleteJob, CompleteFails, Fault, historyVars, JobOK, Idle
  <2>. QED  BY <1>0, <2>1 DEF Tally
<1>4. CASE Crash \/ CountersFail
  <2>1. result' = Zero /\ UNCHANGED <<created, visited>> /\ ~clean'
    BY <1>4 DEF Crash, CountersFail, Fault
  <2>2. job'.counts = job.counts
    BY <1>4 DEF Crash, CountersFail, JobOK
  <2>3. ~worker'.fresh
    <3>1. CASE Crash  BY <3>1, IdleFresh DEF Crash
    <3>2. CASE CountersFail  BY <3>2 DEF CountersFail, Idle
    <3>. QED  BY <1>4, <3>1, <3>2
  <2>. QED  BY <1>0, <2>1, <2>2, <2>3, SumFacts DEF Tally
<1>5. CASE ReadCounters
  <2>1. UNCHANGED <<job, result, created, visited, clean>> /\ worker'.fresh = worker.fresh
    BY <1>5 DEF ReadCounters, historyVars, WorkOK, Worker
  <2>. QED  BY <2>1 DEF Tally
<1>6. ASSUME NEW x \in Items, GetOrCreateImage(x)  PROVE Tally'
  <2>1. UNCHANGED <<job, result, visited, clean>>  BY <1>6 DEF GetOrCreateImage
  <2>2. \/ created' = created /\ ~worker'.fresh
        \/ created' = created + 1
    BY <1>6 DEF GetOrCreateImage, WorkOK, Worker
  <2>. QED  BY <1>0, <2>1, <2>2 DEF Tally
<1>7. ASSUME NEW o \in Outcomes, Visit(o)  PROVE Tally'
  <2>1. /\ UNCHANGED <<job, created, clean>> /\ result' = Plus(result, Counted(o))
        /\ visited' = IF o = "fail" THEN visited ELSE visited + 1
        /\ worker'.fresh = StillNew(o)
    BY <1>7 DEF Visit, WorkOK, Worker
  <2>2. /\ Sum(result') = Sum(result) + (IF o = "fail" THEN 0 ELSE 1)
        /\ result'["stored"] = result["stored"] + (IF o = "download" /\ worker.fresh THEN 1 ELSE 0)
    <3>1. \A c \in Counters : result'[c] = result[c] + (IF c \in Counted(o) THEN 1 ELSE 0)
      BY <1>0, <2>1, PlusFacts
    <3>2. /\ "downloaded" \in Counters /\ "hardlinked" \in Counters /\ "copied" \in Counters
          /\ "stored" \in Counters /\ "skipped" \in Counters
      BY DEF Counters
    <3>3. /\ result["downloaded"] \in Nat /\ result["hardlinked"] \in Nat
          /\ result["copied"] \in Nat /\ result["skipped"] \in Nat
      BY <1>0, <3>2
    <3>4. CASE o = "skip"  BY <1>0, <3>1, <3>2, <3>3, <3>4 DEF Sum, Counted
    <3>5. CASE o = "redownload"  BY <1>0, <3>1, <3>2, <3>3, <3>5 DEF Sum, Counted
    <3>6. CASE o = "link"  BY <1>0, <3>1, <3>2, <3>3, <3>6 DEF Sum, Counted
    <3>7. CASE o = "copy"  BY <1>0, <3>1, <3>2, <3>3, <3>7 DEF Sum, Counted
    <3>8. CASE o = "download" /\ worker.fresh
      BY <1>0, <3>1, <3>2, <3>3, <3>8 DEF Sum, Counted
    <3>9. CASE o = "download" /\ ~worker.fresh
      BY <1>0, <3>1, <3>2, <3>3, <3>9 DEF Sum, Counted
    <3>10. CASE o = "fail"  BY <1>0, <3>1, <3>2, <3>3, <3>10 DEF Sum, Counted
    <3>. QED
      BY <3>4, <3>5, <3>6, <3>7, <3>8, <3>9, <3>10, ItemsAssumption
  <2>3. worker'.fresh = (worker.fresh /\ o # "download")  BY <2>1 DEF StillNew
  <2>4. Sum(result') \in Nat /\ result'["stored"] \in Nat /\ visited' \in Nat
    BY <1>0, <2>1, <2>2
  <2>5. Sum(job.counts) + Sum(result) = visited => Sum(job.counts) + Sum(result') = visited'
    BY <1>0, <2>1, <2>2
  <2>6. /\ Sum(job.counts) + Sum(result') <= visited'
        /\ job.counts["stored"] + result'["stored"] + (IF worker'.fresh THEN 1 ELSE 0) <= created
    <3>1. CASE worker.fresh /\ o = "download"
      <4>1. ~worker'.fresh  BY <2>3, <3>1
      <4>2. Sum(result') = Sum(result) + 1 /\ visited' = visited + 1
            /\ result'["stored"] = result["stored"] + 1
        BY <2>1, <2>2, <3>1
      <4>3. job.counts["stored"] + result["stored"] + 1 <= created
            /\ Sum(job.counts) + Sum(result) <= visited
        BY <3>1 DEF Tally
      <4>4. (IF worker'.fresh THEN 1 ELSE 0) = 0  BY <4>1
      <4>. QED  BY <1>0, <4>2, <4>3, <4>4
    <3>2. CASE worker.fresh /\ o # "download"  BY <1>0, <2>1, <2>2, <2>3, <3>2 DEF Tally
    <3>3. CASE ~worker.fresh
      <4>1. ~worker'.fresh  BY <2>3, <3>3
      <4>2. /\ Sum(result') - Sum(result) = visited' - visited
            /\ result'["stored"] = result["stored"]
        <5>1. result'["stored"] = result["stored"] + 0  BY <2>2, <3>3
        <5>2. \/ Sum(result') = Sum(result) + 0 /\ visited' = visited + 0
              \/ Sum(result') = Sum(result) + 1 /\ visited' = visited + 1
          <6>1. CASE o = "fail"  BY <1>0, <2>1, <2>2, <6>1
          <6>2. CASE o # "fail"  BY <1>0, <2>1, <2>2, <6>2
          <6>. QED  BY <6>1, <6>2
        <5>. QED  BY <1>0, <5>1, <5>2
      <4>3. job.counts["stored"] + result["stored"] <= created
            /\ Sum(job.counts) + Sum(result) <= visited
        <5>1. (IF worker.fresh THEN 1 ELSE 0) = 0  BY <3>3
        <5>. QED  BY <1>0, <5>1 DEF Tally
      <4>4. (IF worker'.fresh THEN 1 ELSE 0) = 0  BY <4>1
      <4>5. visited' \in Nat  BY <1>0, <2>1
      <4>. QED  BY <1>0, <2>4, <4>2, <4>3, <4>4, <4>5
    <3>. QED  BY <3>1, <3>2, <3>3
  <2>. QED  BY <1>0, <2>1, <2>4, <2>5, <2>6 DEF Tally
<1>8. ASSUME NEW old \in worker.read, WriteCounters(old)  PROVE Tally'
  <2>1. old = job.counts  BY <1>8 DEF WriteCounters, Stage
  <2>2. /\ job'.counts = [c \in Counters |-> job.counts[c] + result[c]] /\ result' = Zero
        /\ ~worker'.fresh /\ UNCHANGED <<created, visited, clean>>
    BY <1>8, <2>1 DEF WriteCounters, historyVars, JobOK, Idle
  <2>3. /\ Sum(job'.counts) = Sum(job.counts) + Sum(result)
        /\ job'.counts["stored"] = job.counts["stored"] + result["stored"]
    BY <1>0, <2>2 DEF Sum, Counters
  <2>. QED  BY <1>0, <2>2, <2>3, SumFacts DEF Tally
<1>9. CASE /\ UNCHANGED <<job, result, created, visited>> /\ (UNCHANGED clean \/ clean' = FALSE)
           /\ \/ UNCHANGED worker
              \/ worker'.fresh \in {worker.fresh, FALSE}
  <2>1. (IF worker'.fresh THEN 1 ELSE 0) <= (IF worker.fresh THEN 1 ELSE 0)
    <3>1. CASE worker.fresh
      <4>1. (IF worker.fresh THEN 1 ELSE 0) = 1  BY <3>1
      <4>2. (IF worker'.fresh THEN 1 ELSE 0) \in {0, 1}  OBVIOUS
      <4>. QED  BY <4>1, <4>2
    <3>2. CASE ~worker.fresh
      <4>1. ~worker'.fresh
        <5>1. worker' = worker \/ worker'.fresh = worker.fresh \/ worker'.fresh = FALSE  BY <1>9
        <5>. QED  BY <3>2, <5>1
      <4>2. (IF worker.fresh THEN 1 ELSE 0) = 0  BY <3>2
      <4>3. (IF worker'.fresh THEN 1 ELSE 0) = 0  BY <4>1
      <4>. QED  BY <4>2, <4>3
    <3>. QED  BY <3>1, <3>2
  <2>2. clean' => clean  BY <1>9
  <2>. QED  BY <1>0, <1>9, <2>1, <2>2 DEF Tally
<1>10. ASSUME NEW x \in Items, SkipItem(x)  PROVE Tally'
  <2>1. /\ UNCHANGED <<job, created, clean>> /\ visited' = visited + 1
        /\ result' = Plus(result, {"skipped"}) /\ worker'.fresh = worker.fresh
    BY <1>10 DEF SkipItem, WorkOK, Worker
  <2>2. Sum(result') = Sum(result) + 1 /\ result'["stored"] = result["stored"]
    BY <1>0, <2>1, SkippedSum
  <2>. QED  BY <1>0, <2>1, <2>2 DEF Tally
<1>. QED  BY <1>1, <1>2, <1>3, <1>4, <1>5, <1>6, <1>7, <1>8, <1>9, <1>10, OtherSteps

\* The counters of a job (jobs.IncrementJobCounters) never claim more than its attempts
\* did, a device visited or a blacklisted item passed over each, for any number
\* of crashes, and a job without a failure counts all of it.
THEOREM CountersTrueCorrect == Spec => []CountersTrue
<1>. DEFINE Inv == TypeOK /\ TagExists /\ Stage /\ Tally
<1>1. Init => Inv
  <2>. SUFFICES ASSUME Init PROVE Inv  OBVIOUS
  <2>1. Stage /\ Tally  BY SumFacts DEF Init, Stage, Tally, Idle
  <2>. QED  BY <2>1, TypeInit
<1>2. Inv /\ [Next]_vars => Inv'
  BY TypeStep, StageStep, TallyStep, TypeParts
<1>3. Inv => CountersTrue
  <2>. SUFFICES ASSUME Inv PROVE CountersTrue  OBVIOUS
  <2>1. /\ job.counts \in [Counters -> Nat] /\ result \in [Counters -> Nat]
    BY TypeParts DEF JobOK
  <2>2. /\ Sum(job.counts) \in Nat /\ Sum(result) \in Nat
        /\ job.counts["stored"] \in Nat /\ result["stored"] \in Nat
    BY <2>1, SumFacts
  <2>3. job.status = "succeeded" => Sum(result) = 0  BY SumFacts DEF Stage
  <2>. QED  BY <2>2, <2>3 DEF CountersTrue, Tally
<1>. QED  BY <1>1, <1>2, <1>3, PTL DEF Spec
-----------------------------------------------------------------------------
(* Thumbnails *)

\* What the worker may take for granted of the one image it handles: in a quiet pass it is
\* there and nobody deletes it; else a file it leaves behind is excused.
Custody ==
  /\ worker.image = {} \/ \E i \in Images : worker.image = {i}
  /\ quiet => /\ worker.image \subseteq DOMAIN images
              /\ worker.image \cap delete.image = {}
              /\ worker.at = "update" => worker.image \subseteq thumbnails
  /\ worker.image \cap delete.image \subseteq excused
  /\ worker.image \ DOMAIN images \subseteq excused

\* A request that is idle holds no image.
Deleting == delete = NoDelete \/ (delete.step # "idle" /\ \E i \in Images : delete.image = {i})

\* Once a request is past the file of its image there is none, or it is excused.
Removed ==
  delete.step \in {"row", "tags", "image"} => delete.image \cap DOMAIN files \subseteq excused

\* A file that is about to be described, or that has its row, is whole.
Intact ==
  /\ worker.at \in {"record", "insert", "update"} =>
       \A i \in worker.image \cap DOMAIN files : files[i] = "whole" \/ i \in cut
  /\ \A i \in thumbnails \cap DOMAIN files :
       files[i] = "whole" \/ i \in cut \/ (Handles(i) /\ worker.at = "in place")

\* A thumbnail that was shown is there until a request begins.
Shown == shown \subseteq (thumbnails \cap DOMAIN files) \ delete.image

ThumbInv ==
  /\ Deleting /\ Custody /\ Removed /\ Intact /\ Shown /\ NoOrphanThumbnails

thumbVars == <<images, thumbnails, files, delete, shown, cut, excused>>

\* Steps at which a thumbnail is being made.
Making == {"in place", "record", "insert", "update"}

\* The steps that neither make a thumbnail nor remove one.
LEMMA OtherThumbSteps ==
  ASSUME WorkOK, [Next]_vars
  PROVE  \/ \E x \in Items : GetOrCreateImage(x)
         \/ \E i \in Images : BeginDelete(i) \/ DeleteReads(i) \/ DeleteFile(i) \/ DeleteRow(i)
         \/ DeleteThumbnailRow \/ DeleteTags
         \/ Thumbnail \/ ThumbnailFails \/ DeleteFails \/ Crash
         \/ \E i \in Images : RenameFails(i)
         \/ /\ UNCHANGED thumbVars /\ quiet' \in {quiet, FALSE}
            /\ \/ UNCHANGED worker
               \/ /\ worker.at \notin Making /\ worker'.at \notin Making
                  /\ worker'.image = worker.image \/ worker'.image = {}
<1>. DEFINE Other == /\ UNCHANGED thumbVars /\ quiet' \in {quiet, FALSE}
                     /\ \/ UNCHANGED worker
                        \/ /\ worker.at \notin Making /\ worker'.at \notin Making
                           /\ worker'.image = worker.image \/ worker'.image = {}
<1>. USE DEF WorkOK, Worker, historyVars, rowVars, thumbVars, Making
<1>0. /\ NoItem.at = "fetch" /\ NoItem.image = {}
      /\ Idle.at = "idle" /\ Idle.image = {}
  BY DEF NoItem, Idle
<1>1. CASE UNCHANGED vars  BY <1>1 DEF vars
<1>2. CASE NewJob  BY <1>2 DEF NewJob
<1>3. CASE StartJob  BY <1>3 DEF StartJob, Idle
<1>4. ASSUME NEW x \in Items, SkipItem(x) \/ NextItem(x)  PROVE Other
  BY <1>4 DEF SkipItem, NextItem
<1>5. ASSUME NEW c \in BOOLEAN, ReadLocations(c)  PROVE Other  BY <1>5 DEF ReadLocations
<1>6. ASSUME NEW o \in Outcomes, Visit(o)  PROVE Other  BY <1>6 DEF Visit
<1>7. CASE EndDevices  BY <1>0, <1>7 DEF EndDevices
<1>8. CASE EndItems  BY <1>8 DEF EndItems, Idle
<1>9. CASE ReadCounters  BY <1>9 DEF ReadCounters
<1>10. ASSUME NEW old \in worker.read, WriteCounters(old)  PROVE Other
  BY <1>10 DEF WriteCounters, Idle
<1>11. CASE CompleteJob  BY <1>0, <1>11 DEF CompleteJob
<1>12. ASSUME NEW n \in Spellings, EnsureTag(n)  PROVE Other  BY <1>12 DEF EnsureTag
<1>13. ASSUME NEW n \in Spellings, TagFails(n)  PROVE Other  BY <1>13 DEF TagFails, Fault
<1>14. ASSUME NEW i \in Images, EndTags(i)  PROVE Other  BY <1>14 DEF EndTags
<1>15. ASSUME NEW i \in Images, NEW t \in TagIds, EnsureImageTag(i, t)  PROVE Other
  BY <1>15 DEF EnsureImageTag
<1>16. CASE EnsureImageTagFails  BY <1>16 DEF EnsureImageTagFails, Fault
<1>17. CASE ItemFails  BY <1>0, <1>17 DEF ItemFails, Fault
<1>18. CASE CountersFail  BY <1>18 DEF CountersFail, Fault, Idle
<1>19. CASE CompleteFails  BY <1>0, <1>19 DEF CompleteFails, Fault
<1>20. ASSUME NEW i \in Images, BlacklistImage(i)  PROVE Other
  BY <1>20 DEF BlacklistImage
<1>. QED  BY <1>1, <1>2, <1>3, <1>4, <1>5, <1>6, <1>7, <1>8, <1>9, <1>10, <1>11, <1>12, <1>13,
             <1>14, <1>15, <1>16, <1>17, <1>18, <1>19, <1>20 DEF Next, Job, Tag, User, Failure

LEMMA TableDomains ==
  ASSUME NEW table, NEW id, NEW row
  PROVE  /\ DOMAIN With(table, id, row) = DOMAIN table \cup {id}
         /\ With(table, id, row)[id] = row
         /\ \A j \in DOMAIN table : j # id => With(table, id, row)[j] = table[j]
         /\ DOMAIN Without(table, id) = DOMAIN table \ {id}
         /\ \A j \in DOMAIN Without(table, id) : Without(table, id)[j] = table[j]
BY DEF With, Without

\* The steps of the worker keep what is known of thumbnails.
LEMMA WorkerThumbs ==
  ASSUME WorkOK, FilesOK, Schema, ThumbInv,
         NEW i \in Images,
         \/ EnsureThumbnail(i) \/ Rename(i) \/ RenameFails(i) \/ EncodeInPlace(i)
         \/ FinishInPlace(i) \/ ReadThumbnail(i) \/ RecordThumbnail(i)
  PROVE  ThumbInv'
<1>. USE DEF WorkOK, Worker, historyVars, rowVars, bounds
<1>0. /\ NoItem.at = "fetch" /\ NoItem.image = {} /\ NoDelete.step = "idle"
      /\ \A j \in DOMAIN files : files[j] \in {"whole", "short"}
      /\ thumbnails \subseteq DOMAIN images
  <2>1. NoItem.at = "fetch" /\ NoItem.image = {} /\ NoDelete.step = "idle"
    BY DEF NoItem, Idle, NoDelete
  <2>2. \A j \in DOMAIN files : files[j] \in {"whole", "short"}
    BY TableFacts DEF FilesOK
  <2>. QED  BY <2>1, <2>2 DEF Schema
<1>1. CASE EnsureThumbnail(i)
  <2>1. /\ UNCHANGED <<images, thumbnails, files, delete, quiet, cut, excused>>
        /\ worker.at = "thumbnail" /\ worker.image = {i}
        /\ \/ /\ worker' = NoItem /\ i \in thumbnails /\ i \in DOMAIN files
              /\ shown' = (IF quiet THEN shown \cup {i} ELSE shown)
           \/ /\ worker'.image = {i} /\ worker'.at = "encode" /\ shown' = shown
    BY <1>0, <1>1 DEF EnsureThumbnail, HasThumbnail, Handles
  <2>2. Deleting'  BY <1>0, <2>1 DEF ThumbInv, Deleting, Handles
  <2>3. Custody'  BY <1>0, <2>1 DEF ThumbInv, Custody, Handles
  <2>4. Removed'  BY <1>0, <2>1 DEF ThumbInv, Removed, Handles
  <2>5. Intact'  BY <1>0, <2>1 DEF ThumbInv, Intact, Handles
  <2>6. Shown'
    BY <1>0, <2>1 DEF ThumbInv, Shown, Custody, Handles
  <2>7. NoOrphanThumbnails'  BY <1>0, <2>1 DEF ThumbInv, NoOrphanThumbnails, Handles
  <2>. QED  BY <2>2, <2>3, <2>4, <2>5, <2>6, <2>7 DEF ThumbInv
<1>2. CASE Rename(i)
  <2>1. /\ UNCHANGED <<images, thumbnails, delete, quiet, shown, excused>>
        /\ worker.at = "rename" /\ worker.image = {i}
        /\ worker'.at = "record" /\ worker'.image = {i}
        /\ DOMAIN files' = DOMAIN files \cup {i} /\ files'[i] = "whole"
        /\ \A j \in DOMAIN files : j # i => files'[j] = files[j]
        /\ cut' = cut \ {i}
    BY <1>2 DEF Rename, Renamed, With, Handles
  <2>2. Deleting'  BY <1>0, <2>1 DEF ThumbInv, Deleting, Handles
  <2>3. Custody'  BY <1>0, <2>1 DEF ThumbInv, Custody, Handles
  <2>4. Removed'
    BY <1>0, <2>1 DEF ThumbInv, Removed, Custody, Handles
  <2>5. Intact'  BY <1>0, <2>1 DEF ThumbInv, Intact, Handles
  <2>6. Shown'  BY <1>0, <2>1 DEF ThumbInv, Shown, Handles
  <2>7. NoOrphanThumbnails'  BY <1>0, <2>1 DEF ThumbInv, NoOrphanThumbnails, Handles
  <2>. QED  BY <2>2, <2>3, <2>4, <2>5, <2>6, <2>7 DEF ThumbInv
<1>3. CASE RenameFails(i)
  <2>1. /\ UNCHANGED <<images, thumbnails, files, delete, shown, excused>> /\ ~quiet'
        /\ worker.at = "rename" /\ worker.image = {i}
        /\ cut \subseteq cut'
        /\ \/ /\ i \in DOMAIN files /\ (files[i] = "whole" \/ i \in cut')
              /\ worker'.at = "record" /\ worker'.image = {i}
           \/ i \notin DOMAIN files /\ worker' = NoItem
    BY <1>0, <1>3 DEF RenameFails, Fault, Handles
  <2>2. Deleting'  BY <1>0, <2>1 DEF ThumbInv, Deleting, Handles
  <2>3. Custody'  BY <1>0, <2>1 DEF ThumbInv, Custody, Handles
  <2>4. Removed'  BY <1>0, <2>1 DEF ThumbInv, Removed, Handles
  <2>5. Intact'  BY <1>0, <2>1 DEF ThumbInv, Intact, Handles
  <2>6. Shown'  BY <1>0, <2>1 DEF ThumbInv, Shown, Handles
  <2>7. NoOrphanThumbnails'  BY <1>0, <2>1 DEF ThumbInv, NoOrphanThumbnails, Handles
  <2>. QED  BY <2>2, <2>3, <2>4, <2>5, <2>6, <2>7 DEF ThumbInv
<1>4. CASE EncodeInPlace(i)
  <2>1. /\ UNCHANGED <<images, thumbnails, delete, quiet, shown, cut, excused>>
        /\ worker.at = "encode" /\ worker.image = {i}
        /\ worker'.at = "in place" /\ worker'.image = {i}
        /\ DOMAIN files' = DOMAIN files \cup {i}
        /\ \A j \in DOMAIN files : j # i => files'[j] = files[j]
    BY <1>4 DEF EncodeInPlace, With, Handles
  <2>2. Deleting'  BY <1>0, <2>1 DEF ThumbInv, Deleting, Handles
  <2>3. Custody'  BY <1>0, <2>1 DEF ThumbInv, Custody, Handles
  <2>4. Removed'
    BY <1>0, <2>1 DEF ThumbInv, Removed, Custody, Handles
  <2>5. Intact'  BY <1>0, <2>1 DEF ThumbInv, Intact, Handles
  <2>6. Shown'  BY <1>0, <2>1 DEF ThumbInv, Shown, Handles
  <2>7. NoOrphanThumbnails'  BY <1>0, <2>1 DEF ThumbInv, NoOrphanThumbnails, Handles
  <2>. QED  BY <2>2, <2>3, <2>4, <2>5, <2>6, <2>7 DEF ThumbInv
<1>5. CASE FinishInPlace(i)
  <2>1. /\ UNCHANGED <<images, thumbnails, delete, quiet, shown, excused>>
        /\ worker.at = "in place" /\ worker.image = {i}
        /\ \/ /\ i \notin DOMAIN files /\ UNCHANGED <<files, cut>> /\ worker' = NoItem
           \/ /\ i \in DOMAIN files /\ DOMAIN files' = DOMAIN files /\ files'[i] = "whole"
              /\ \A j \in DOMAIN files : j # i => files'[j] = files[j]
              /\ cut' = cut \ {i} /\ worker'.at = "record" /\ worker'.image = {i}
    <3>1. CASE i \in DOMAIN files
      <4>1. /\ DOMAIN files' = DOMAIN files /\ files'[i] = "whole"
            /\ \A j \in DOMAIN files : j # i => files'[j] = files[j]
        <5>1. files' = With(files, i, "whole")  BY <1>5, <3>1 DEF FinishInPlace
        <5>. QED  BY <3>1, <5>1 DEF With
      <4>. QED  BY <1>5, <3>1, <4>1 DEF FinishInPlace, Handles
    <3>2. CASE i \notin DOMAIN files  BY <1>5, <3>2 DEF FinishInPlace, Handles
    <3>. QED  BY <3>1, <3>2
  <2>2. Deleting'  BY <1>0, <2>1 DEF ThumbInv, Deleting, Handles
  <2>3. Custody'  BY <1>0, <2>1 DEF ThumbInv, Custody, Handles
  <2>4. Removed'  BY <1>0, <2>1 DEF ThumbInv, Removed, Handles
  <2>5. Intact'  BY <1>0, <2>1 DEF ThumbInv, Intact, Handles
  <2>6. Shown'  BY <1>0, <2>1 DEF ThumbInv, Shown, Handles
  <2>7. NoOrphanThumbnails'
    <3>1. ASSUME NEW j \in DOMAIN files', j # i
          PROVE  j \in thumbnails' \/ j \in excused'
      BY <2>1, <3>1 DEF ThumbInv, NoOrphanThumbnails, Handles
    <3>2. i \in DOMAIN files' => worker'.image = {i} /\ worker'.at = "record"
      BY <2>1
    <3>. QED  BY <3>1, <3>2 DEF NoOrphanThumbnails, Handles
  <2>. QED  BY <2>2, <2>3, <2>4, <2>5, <2>6, <2>7 DEF ThumbInv
<1>6. CASE ReadThumbnail(i)
  <2>1. /\ UNCHANGED <<images, thumbnails, files, delete, quiet, shown, cut, excused>>
        /\ worker.at = "record" /\ worker.image = {i} /\ worker'.image = {i}
        /\ worker'.at = IF i \in thumbnails THEN "update" ELSE "insert"
    BY <1>6 DEF ReadThumbnail, Handles
  <2>2. Deleting'  BY <1>0, <2>1 DEF ThumbInv, Deleting, Handles
  <2>3. Custody'  BY <1>0, <2>1 DEF ThumbInv, Custody, Handles
  <2>4. Removed'  BY <1>0, <2>1 DEF ThumbInv, Removed, Handles
  <2>5. Intact'  BY <1>0, <2>1 DEF ThumbInv, Intact, Handles
  <2>6. Shown'  BY <1>0, <2>1 DEF ThumbInv, Shown, Handles
  <2>7. NoOrphanThumbnails'  BY <1>0, <2>1 DEF ThumbInv, NoOrphanThumbnails, Handles
  <2>. QED  BY <2>2, <2>3, <2>4, <2>5, <2>6, <2>7 DEF ThumbInv
<1>7. CASE RecordThumbnail(i)
  <2>1. /\ UNCHANGED <<images, files, delete, quiet, cut>>
        /\ worker.at \in {"insert", "update"} /\ worker.image = {i} /\ worker' = NoItem
        /\ thumbnails' = IF worker.at = "insert" /\ i \in DOMAIN images
                         THEN thumbnails \cup {i} ELSE thumbnails
        /\ shown' = (IF quiet /\ i \in DOMAIN files THEN shown \cup {i} ELSE shown)
        /\ excused' = (IF i \in thumbnails' /\ delete.image # {i} THEN excused \ {i} ELSE excused)
    BY <1>7 DEF RecordThumbnail, Handles
  <2>2. Deleting'  BY <1>0, <2>1 DEF ThumbInv, Deleting, Handles
  <2>3. Custody'  BY <1>0, <2>1 DEF ThumbInv, Custody, Handles
  <2>4. Removed'
    <3>1. delete.step # "idle" => delete.image \cap excused \subseteq excused'
      <4>1. SUFFICES ASSUME delete.step # "idle"
                     PROVE  delete.image \cap excused \subseteq excused'
        OBVIOUS
      <4>2. PICK j \in Images : delete.image = {j}
        BY <1>0, <4>1 DEF ThumbInv, Deleting
      <4>3. excused' = excused \/ (excused' = excused \ {i} /\ j # i)
        BY <2>1, <4>2
      <4>. QED  BY <4>2, <4>3
    <3>. QED  BY <2>1, <3>1 DEF ThumbInv, Removed
  <2>5. Intact'  BY <1>0, <2>1 DEF ThumbInv, Intact, Handles
  <2>6. Shown'
    BY <1>0, <2>1 DEF ThumbInv, Shown, Custody, Handles
  <2>7. NoOrphanThumbnails'
    <3>1. ASSUME NEW j \in DOMAIN files, j # i
          PROVE  j \in thumbnails' \/ j \in excused'
      BY <2>1, <3>1 DEF ThumbInv, NoOrphanThumbnails, Handles
    <3>2. i \in DOMAIN files => i \in thumbnails' \/ i \in excused'
      <4>1. CASE worker.at = "insert"  BY <1>0, <2>1, <4>1 DEF ThumbInv, Custody
      <4>2. CASE worker.at = "update"
        BY <2>1, <4>2 DEF ThumbInv, NoOrphanThumbnails
      <4>. QED  BY <2>1, <4>1, <4>2
    <3>. QED  BY <2>1, <3>1, <3>2 DEF NoOrphanThumbnails
  <2>. QED  BY <2>2, <2>3, <2>4, <2>5, <2>6, <2>7 DEF ThumbInv
<1>. QED  BY <1>1, <1>2, <1>3, <1>4, <1>5, <1>6, <1>7

\* So do the requests, and files that are lost.
LEMMA RequestThumbs ==
  ASSUME WorkOK, DeleteOK, FilesOK, Schema, ThumbInv,
         NEW i \in Images,
         \/ LoseFile(i) \/ BeginDelete(i) \/ DeleteReads(i) \/ DeleteFile(i) \/ DeleteRow(i)
         \/ DeleteThumbnailRow \/ DeleteTags \/ DeleteFails
  PROVE  ThumbInv'
<1>. USE DEF WorkOK, Worker, historyVars, rowVars, bounds
<1>0. NoDelete.step = "idle" /\ NoDelete.image = {} /\ thumbnails \subseteq DOMAIN images
  BY DEF NoDelete, Schema
<1>1. CASE LoseFile(i)
  <2>1. /\ UNCHANGED <<images, thumbnails, worker, delete, quiet, cut, excused>>
        /\ shown' = shown \ {i} /\ DOMAIN files' = DOMAIN files \ {i}
        /\ \A j \in DOMAIN files' : files'[j] = files[j]
    BY <1>1 DEF LoseFile, Request, Without
  <2>2. Deleting'  BY <1>0, <2>1 DEF ThumbInv, Deleting, Handles
  <2>3. Custody'  BY <1>0, <2>1 DEF ThumbInv, Custody, Handles
  <2>4. Removed'  BY <1>0, <2>1 DEF ThumbInv, Removed, Handles
  <2>5. Intact'  BY <1>0, <2>1 DEF ThumbInv, Intact, Handles
  <2>6. Shown'  BY <1>0, <2>1 DEF ThumbInv, Shown, Handles
  <2>7. NoOrphanThumbnails'  BY <1>0, <2>1 DEF ThumbInv, NoOrphanThumbnails, Handles
  <2>. QED  BY <2>2, <2>3, <2>4, <2>5, <2>6, <2>7 DEF ThumbInv
<1>2. CASE BeginDelete(i)
  <2>1. /\ UNCHANGED <<images, thumbnails, worker, files, cut>>
        /\ delete'.step = "thumbnail" /\ delete'.image = {i} /\ delete.step = "idle"
        /\ shown' = shown \ {i} /\ excused' = excused \cup (worker.image \cap {i})
        /\ quiet' => quiet /\ worker.image # {i}
    BY <1>2 DEF BeginDelete, Request, Handles
  <2>2. Deleting'  BY <1>0, <2>1 DEF ThumbInv, Deleting, Handles
  <2>3. Custody'
    BY <1>0, <2>1 DEF ThumbInv, Custody, Deleting, Handles
  <2>4. Removed'  BY <1>0, <2>1 DEF ThumbInv, Removed, Handles
  <2>5. Intact'  BY <1>0, <2>1 DEF ThumbInv, Intact, Handles
  <2>6. Shown'  BY <1>0, <2>1 DEF ThumbInv, Shown, Handles
  <2>7. NoOrphanThumbnails'  BY <1>0, <2>1 DEF ThumbInv, NoOrphanThumbnails, Handles
  <2>. QED  BY <2>2, <2>3, <2>4, <2>5, <2>6, <2>7 DEF ThumbInv
<1>3. CASE DeleteReads(i)
  <2>1. /\ UNCHANGED <<images, thumbnails, worker, files, quiet, shown, cut, excused>>
        /\ delete.step = "thumbnail" /\ delete.image = {i} /\ delete'.image = {i}
        /\ delete'.step = IF i \in thumbnails THEN "file" ELSE "tags"
    BY <1>3 DEF DeleteReads, AfterRead, DeleteOK
  <2>2. Deleting'  BY <1>0, <2>1 DEF ThumbInv, Deleting, Handles
  <2>3. Custody'  BY <1>0, <2>1 DEF ThumbInv, Custody, Handles
  <2>4. Removed'
    <3>1. CASE i \in thumbnails  BY <2>1, <3>1 DEF Removed
    <3>2. CASE i \notin thumbnails
      <4>1. i \in DOMAIN files => i \in excused
        BY <2>1, <3>2 DEF ThumbInv, NoOrphanThumbnails, Custody, Handles
      <4>. QED  BY <2>1, <4>1 DEF Removed
    <3>. QED  BY <3>1, <3>2
  <2>5. Intact'  BY <1>0, <2>1 DEF ThumbInv, Intact, Handles
  <2>6. Shown'  BY <1>0, <2>1 DEF ThumbInv, Shown, Handles
  <2>7. NoOrphanThumbnails'  BY <1>0, <2>1 DEF ThumbInv, NoOrphanThumbnails, Handles
  <2>. QED  BY <2>2, <2>3, <2>4, <2>5, <2>6, <2>7 DEF ThumbInv
<1>4. CASE DeleteFile(i)
  <2>1. /\ UNCHANGED <<images, thumbnails, worker, quiet, shown, cut, excused>>
        /\ delete.step = "file" /\ delete.image = {i} /\ delete'.image = {i}
        /\ delete'.step = "row" /\ DOMAIN files' = DOMAIN files \ {i}
        /\ \A j \in DOMAIN files' : files'[j] = files[j]
    BY <1>4 DEF DeleteFile, Without, DeleteOK
  <2>2. Deleting'  BY <1>0, <2>1 DEF ThumbInv, Deleting, Handles
  <2>3. Custody'  BY <1>0, <2>1 DEF ThumbInv, Custody, Handles
  <2>4. Removed'  BY <1>0, <2>1 DEF ThumbInv, Removed, Handles
  <2>5. Intact'  BY <1>0, <2>1 DEF ThumbInv, Intact, Handles
  <2>6. Shown'  BY <1>0, <2>1 DEF ThumbInv, Shown, Handles
  <2>7. NoOrphanThumbnails'  BY <1>0, <2>1 DEF ThumbInv, NoOrphanThumbnails, Handles
  <2>. QED  BY <2>2, <2>3, <2>4, <2>5, <2>6, <2>7 DEF ThumbInv
<1>5. CASE DeleteRow(i)
  <2>1. /\ UNCHANGED <<worker, files, quiet, shown, cut, excused>>
        /\ delete.step = "image" /\ delete.image = {i} /\ delete' = NoDelete
        /\ thumbnails' = thumbnails \ {i} /\ DOMAIN images' = DOMAIN images \ {i}
    BY <1>5 DEF DeleteRow, Without
  <2>2. Deleting'  BY <1>0, <2>1 DEF ThumbInv, Deleting, Handles
  <2>3. Custody'  BY <1>0, <2>1 DEF ThumbInv, Custody, Handles
  <2>4. Removed'  BY <1>0, <2>1 DEF ThumbInv, Removed, Handles
  <2>5. Intact'  BY <1>0, <2>1 DEF ThumbInv, Intact, Handles
  <2>6. Shown'  BY <1>0, <2>1 DEF ThumbInv, Shown, Handles
  <2>7. NoOrphanThumbnails'
    BY <1>0, <2>1 DEF ThumbInv, NoOrphanThumbnails, Removed, Handles
  <2>. QED  BY <2>2, <2>3, <2>4, <2>5, <2>6, <2>7 DEF ThumbInv
<1>6. CASE DeleteThumbnailRow
  <2>1. /\ UNCHANGED <<images, worker, files, quiet, shown, cut, excused>>
        /\ delete.step = "row" /\ delete'.step = "tags" /\ delete'.image = delete.image
        /\ thumbnails' = thumbnails \ delete.image
    BY <1>6 DEF DeleteThumbnailRow, DeleteOK
  <2>2. Deleting'  BY <1>0, <2>1 DEF ThumbInv, Deleting, Handles
  <2>3. Custody'  BY <1>0, <2>1 DEF ThumbInv, Custody, Handles
  <2>4. Removed'  BY <1>0, <2>1 DEF ThumbInv, Removed, Handles
  <2>5. Intact'  BY <1>0, <2>1 DEF ThumbInv, Intact, Handles
  <2>6. Shown'  BY <1>0, <2>1 DEF ThumbInv, Shown, Handles
  <2>7. NoOrphanThumbnails'
    BY <1>0, <2>1 DEF ThumbInv, NoOrphanThumbnails, Removed, Handles
  <2>. QED  BY <2>2, <2>3, <2>4, <2>5, <2>6, <2>7 DEF ThumbInv
<1>7. CASE DeleteTags
  <2>1. /\ UNCHANGED <<images, thumbnails, worker, files, quiet, shown, cut, excused>>
        /\ delete.step = "tags" /\ delete'.step = "image" /\ delete'.image = delete.image
    BY <1>7 DEF DeleteTags, DeleteOK
  <2>2. Deleting'  BY <1>0, <2>1 DEF ThumbInv, Deleting, Handles
  <2>3. Custody'  BY <1>0, <2>1 DEF ThumbInv, Custody, Handles
  <2>4. Removed'  BY <1>0, <2>1 DEF ThumbInv, Removed, Handles
  <2>5. Intact'  BY <1>0, <2>1 DEF ThumbInv, Intact, Handles
  <2>6. Shown'  BY <1>0, <2>1 DEF ThumbInv, Shown, Handles
  <2>7. NoOrphanThumbnails'  BY <1>0, <2>1 DEF ThumbInv, NoOrphanThumbnails, Handles
  <2>. QED  BY <2>2, <2>3, <2>4, <2>5, <2>6, <2>7 DEF ThumbInv
<1>8. CASE DeleteFails
  <2>1. /\ UNCHANGED <<images, thumbnails, worker, files, shown, cut, excused>> /\ ~quiet'
        /\ delete' = NoDelete
    BY <1>8 DEF DeleteFails, Fault
  <2>2. Deleting'  BY <1>0, <2>1 DEF ThumbInv, Deleting, Handles
  <2>3. Custody'  BY <1>0, <2>1 DEF ThumbInv, Custody, Handles
  <2>4. Removed'  BY <1>0, <2>1 DEF ThumbInv, Removed, Handles
  <2>5. Intact'  BY <1>0, <2>1 DEF ThumbInv, Intact, Handles
  <2>6. Shown'  BY <1>0, <2>1 DEF ThumbInv, Shown, Handles
  <2>7. NoOrphanThumbnails'  BY <1>0, <2>1 DEF ThumbInv, NoOrphanThumbnails, Handles
  <2>. QED  BY <2>2, <2>3, <2>4, <2>5, <2>6, <2>7 DEF ThumbInv
<1>. QED  BY <1>1, <1>2, <1>3, <1>4, <1>5, <1>6, <1>7, <1>8

\* And a pass that begins or is broken off.
LEMMA BrokenThumbs ==
  ASSUME WorkOK, FilesOK, Schema, ThumbInv,
         \/ \E x \in Items : GetOrCreateImage(x)
         \/ ThumbnailFails \/ Crash
  PROVE  ThumbInv'
<1>. USE DEF WorkOK, Worker, historyVars, rowVars, bounds
<1>0. /\ NoItem.at = "fetch" /\ NoItem.image = {} /\ Idle.at = "idle" /\ Idle.image = {}
      /\ NoDelete.step = "idle" /\ NoDelete.image = {} /\ thumbnails \subseteq DOMAIN images
  BY DEF NoItem, Idle, NoDelete, Schema
<1>1. ASSUME NEW x \in Items, GetOrCreateImage(x)  PROVE ThumbInv'
  <2>0. PICK i \in Images :
          /\ IF RowsOf(x) # {} THEN i \in RowsOf(x) /\ UNCHANGED images
             ELSE images' = With(images, i, x)
          /\ worker'.image = {i} /\ worker'.at = "tags" /\ worker.at = "image"
          /\ quiet' = (delete.image # {i})
          /\ excused' = excused \cup (delete.image \cap {i})
    BY <1>1 DEF GetOrCreateImage
  <2>1. /\ UNCHANGED <<thumbnails, files, delete, shown, cut>>
        /\ i \in DOMAIN images' /\ DOMAIN images \subseteq DOMAIN images'
        /\ worker'.image = {i} /\ worker'.at = "tags" /\ worker.at = "image"
        /\ quiet' => delete.image # {i}
        /\ excused' = excused \cup (delete.image \cap {i})
    <3>1. i \in DOMAIN images' /\ DOMAIN images \subseteq DOMAIN images'
      BY <2>0 DEF RowsOf, With
    <3>. QED  BY <1>1, <2>0, <3>1 DEF GetOrCreateImage
  <2>2. Deleting'  BY <1>0, <2>1 DEF ThumbInv, Deleting, Handles
  <2>3. Custody'
    BY <1>0, <2>1 DEF ThumbInv, Custody, Deleting, Handles
  <2>4. Removed'  BY <1>0, <2>1 DEF ThumbInv, Removed, Handles
  <2>5. Intact'  BY <1>0, <2>1 DEF ThumbInv, Intact, Handles
  <2>6. Shown'  BY <1>0, <2>1 DEF ThumbInv, Shown, Handles
  <2>7. NoOrphanThumbnails'  BY <1>0, <2>1 DEF ThumbInv, NoOrphanThumbnails, Handles
  <2>. QED  BY <2>2, <2>3, <2>4, <2>5, <2>6, <2>7 DEF ThumbInv
<1>2. CASE ThumbnailFails
  <2>1. /\ UNCHANGED <<images, thumbnails, files, delete, shown>> /\ ~quiet'
        /\ worker.at \in {"in place", "record", "insert", "update"} /\ worker' = NoItem
        /\ cut' = IF worker.at = "in place" THEN cut \cup (worker.image \cap thumbnails) ELSE cut
        /\ excused' = IF worker.at \in {"in place", "record", "insert"}
                      THEN excused \cup worker.image ELSE excused
    BY <1>2 DEF ThumbnailFails, Fault, Cut
  <2>2. Deleting'  BY <1>0, <2>1 DEF ThumbInv, Deleting, Handles
  <2>3. Custody'  BY <1>0, <2>1 DEF ThumbInv, Custody, Handles
  <2>4. Removed'  BY <1>0, <2>1 DEF ThumbInv, Removed, Handles
  <2>5. Intact'  BY <1>0, <2>1 DEF ThumbInv, Intact, Handles
  <2>6. Shown'  BY <1>0, <2>1 DEF ThumbInv, Shown, Handles
  <2>7. NoOrphanThumbnails'  BY <1>0, <2>1 DEF ThumbInv, NoOrphanThumbnails, Handles
  <2>. QED  BY <2>2, <2>3, <2>4, <2>5, <2>6, <2>7 DEF ThumbInv
<1>3. CASE Crash
  <2>1. /\ UNCHANGED <<images, thumbnails, files, shown>> /\ ~quiet'
        /\ worker' = Idle /\ delete' = NoDelete
        /\ cut' = IF worker.at = "in place" THEN cut \cup (worker.image \cap thumbnails) ELSE cut
        /\ excused' = IF worker.at \in {"in place", "record", "insert"}
                      THEN excused \cup worker.image ELSE excused
    BY <1>3 DEF Crash, Fault, Cut
  <2>2. Deleting'  BY <1>0, <2>1 DEF ThumbInv, Deleting, Handles
  <2>3. Custody'  BY <1>0, <2>1 DEF ThumbInv, Custody, Handles
  <2>4. Removed'  BY <1>0, <2>1 DEF ThumbInv, Removed, Handles
  <2>5. Intact'  BY <1>0, <2>1 DEF ThumbInv, Intact, Handles
  <2>6. Shown'  BY <1>0, <2>1 DEF ThumbInv, Shown, Handles
  <2>7. NoOrphanThumbnails'  BY <1>0, <2>1 DEF ThumbInv, NoOrphanThumbnails, Handles
  <2>. QED  BY <2>2, <2>3, <2>4, <2>5, <2>6, <2>7 DEF ThumbInv
<1>. QED  BY <1>1, <1>2, <1>3

LEMMA ThumbStep ==
  ASSUME WorkOK, DeleteOK, FilesOK, Schema, ThumbInv, [Next]_vars
  PROVE  ThumbInv'
<1>. USE WorkerThumbs, RequestThumbs, BrokenThumbs
<1>1. CASE \E x \in Items : GetOrCreateImage(x)  BY <1>1
<1>2. CASE Thumbnail
  <2>1. EncodeSmall => /\ UNCHANGED thumbVars /\ quiet' = quiet
                       /\ worker.at \notin Making /\ worker'.at \notin Making
                       /\ worker'.image = worker.image
    BY DEF EncodeSmall, thumbVars, Making, WorkOK, Worker, rowVars, historyVars
  <2>2. CASE EncodeSmall
    <3>1. Deleting' /\ Removed' /\ Shown'
      BY <2>1, <2>2 DEF ThumbInv, Deleting, Removed, Shown, thumbVars
    <3>2. Custody'
      <4>1. worker'.at # "update"  BY <2>1, <2>2 DEF Making
      <4>2. UNCHANGED <<images, thumbnails, delete, excused>> /\ worker'.image = worker.image
            /\ quiet' = quiet
        BY <2>1, <2>2 DEF thumbVars
      <4>. QED  BY <4>1, <4>2 DEF ThumbInv, Custody
    <3>3. Intact' /\ NoOrphanThumbnails'
      BY <2>1, <2>2 DEF ThumbInv, Intact, NoOrphanThumbnails, Handles, thumbVars, Making
    <3>. QED  BY <3>1, <3>2, <3>3 DEF ThumbInv
  <2>. QED  BY <1>2, <2>2 DEF Thumbnail
<1>3. CASE \/ \E i \in Images : BeginDelete(i) \/ DeleteReads(i) \/ DeleteFile(i) \/ DeleteRow(i)
           \/ DeleteThumbnailRow \/ DeleteTags \/ DeleteFails
  <2>1. CASE DeleteThumbnailRow \/ DeleteTags \/ DeleteFails
    <3>1. delete.step # "idle"
      BY <2>1 DEF DeleteThumbnailRow, DeleteTags, DeleteFails
    <3>2. PICK i \in Images : delete.image = {i}
      BY <3>1 DEF ThumbInv, Deleting, NoDelete
    <3>. QED  BY <2>1
  <2>. QED  BY <1>3, <2>1
<1>4. CASE ThumbnailFails \/ Crash  BY <1>4
<1>5. CASE \E i \in Images : RenameFails(i)  BY <1>5
<1>6. CASE /\ UNCHANGED thumbVars /\ quiet' \in {quiet, FALSE}
           /\ \/ UNCHANGED worker
              \/ /\ worker.at \notin Making /\ worker'.at \notin Making
                 /\ worker'.image = worker.image \/ worker'.image = {}
  <2>1. Deleting' /\ Removed' /\ Shown'
    BY <1>6 DEF ThumbInv, Deleting, Removed, Shown, thumbVars
  <2>2. Custody'
    <3>1. worker'.at = "update" => worker' = worker  BY <1>6 DEF Making
    <3>2. worker'.image \subseteq worker.image  BY <1>6
    <3>3. quiet' => quiet  BY <1>6
    <3>4. worker'.image = worker.image \/ worker'.image = {}  BY <1>6
    <3>. QED  BY <1>6, <3>1, <3>2, <3>3, <3>4 DEF ThumbInv, Custody, thumbVars
  <2>3. Intact' /\ NoOrphanThumbnails'
    <3>1. CASE UNCHANGED worker
      BY <1>6, <3>1 DEF ThumbInv, Intact, NoOrphanThumbnails, Handles, thumbVars
    <3>2. CASE worker.at \notin Making /\ worker'.at \notin Making
      BY <1>6, <3>2 DEF ThumbInv, Intact, NoOrphanThumbnails, Handles, thumbVars, Making
    <3>. QED  BY <1>6, <3>1, <3>2
  <2>. QED  BY <2>1, <2>2, <2>3 DEF ThumbInv
<1>. QED  BY <1>1, <1>2, <1>3, <1>4, <1>5, <1>6, OtherThumbSteps

LEMMA ThumbInit ==
  ASSUME Init
  PROVE  ThumbInv
BY DEF Init, ThumbInv, Deleting, Custody, Removed, Intact, Shown, NoOrphanThumbnails, NoRow,
   NoDelete, Idle

LEMMA ThumbInvHolds == Spec => []ThumbInv
<1>. DEFINE Inv == TypeOK /\ TagExists /\ ThumbInv
<1>1. Init => Inv  BY TypeInit, ThumbInit
<1>2. Inv /\ [Next]_vars => Inv'
  <2>. SUFFICES ASSUME Inv, [Next]_vars PROVE Inv'  OBVIOUS
  <2>1. Schema  BY DEF TypeOK
  <2>. QED  BY <2>1, TypeStep, ThumbStep, TypeParts
<1>3. Inv => ThumbInv  OBVIOUS
<1>. QED  BY <1>1, <1>2, <1>3, PTL DEF Spec

\* DeleteImage (images.DeleteImage and storage's thumbnails), wherever it fails, leaves no
\* thumbnail file without its row, but for an image the worker had in hand or a thumbnail
\* whose making broke off.
THEOREM NoOrphanThumbnailsCorrect == Spec => []NoOrphanThumbnails
<1>1. ThumbInv => NoOrphanThumbnails  BY DEF ThumbInv
<1>. QED  BY <1>1, ThumbInvHolds, PTL

\* What ensureThumbnail shows after an undisturbed pass stays: row and file, and the file is
\* whole unless a later rewriting in place was cut short.
THEOREM ThumbnailKeptCorrect == Spec => []ThumbnailKept
<1>1. ThumbInv => ThumbnailKept
  BY DEF ThumbInv, Shown, Intact, ThumbnailKept
<1>. QED  BY <1>1, ThumbInvHolds, PTL

-----------------------------------------------------------------------------
(* Tags *)

\* The normal forms of the names the source gives an image.
Needed(i) == {Normal[TagsOf[images[i]][k]] : k \in DOMAIN TagsOf[images[i]]} \ {Blank}

Assigned(i, n) == \E t \in DOMAIN tags : tags[t].normal = n /\ <<i, t>> \in imageTags

\* While an undisturbed pass syncs the tags, one that is not yet assigned is in hand or is
\* still to come.
Syncing ==
  quiet /\ worker.at \in {"tags", "assign tag"} =>
    \A i \in worker.image : \A n \in Needed(i) :
      \/ Assigned(i, n)
      \/ \E s \in worker.names : Normal[s] = n
      \/ \E t \in worker.tag : tags[t].normal = n

\* Images whose tags were synced are there, nobody deletes them, and they have their tags.
Synced ==
  /\ tagged \subseteq DOMAIN images \ delete.image
  /\ \A i \in tagged : \A n \in Needed(i) : Assigned(i, n)

TagInv ==
  /\ DOMAIN images \subseteq used
  /\ worker.at # "assign tag" => worker.tag = {}
  /\ Syncing /\ Synced

\* Of the names with one normal form Deduped keeps one.
LEMMA DedupedFacts ==
  ASSUME NEW x \in Items, NEW k \in DOMAIN TagsOf[x], Normal[TagsOf[x][k]] # Blank
  PROVE  \E s \in Deduped(TagsOf[x]) : Normal[s] = Normal[TagsOf[x][k]]
<1>. DEFINE names == TagsOf[x]
            S == {n \in DOMAIN names : Normal[names[n]] = Normal[names[k]]}
<1>1. names \in Seq(Spellings)  BY ItemsAssumption
<1>2. DOMAIN names = 1..Len(names) /\ Len(names) \in Nat  BY <1>1
<1>3. S \in SUBSET Nat /\ k \in S  BY <1>2
<1>4. PICK n \in S : \A m \in S : n <= m  BY <1>3, First
<1>5. \A m \in 1..(n - 1) : Normal[names[m]] # Normal[names[n]]  BY <1>2, <1>4
<1>. QED  BY <1>4, <1>5 DEF Deduped

tagVars == <<images, tags, imageTags, used, tagged>>

\* The steps that neither sync the tags of an image nor delete one.
LEMMA OtherTagSteps ==
  ASSUME WorkOK, [Next]_vars
  PROVE  \/ \E x \in Items : GetOrCreateImage(x)
         \/ \E n \in Spellings : EnsureTag(n)
         \/ \E i \in Images : EndTags(i) \/ \E t \in TagIds : EnsureImageTag(i, t)
         \/ \E i \in Images : BeginDelete(i) \/ DeleteReads(i) \/ DeleteFile(i) \/ DeleteRow(i)
         \/ DeleteThumbnailRow \/ DeleteTags
         \/ /\ UNCHANGED tagVars /\ delete' \in {delete, NoDelete} /\ quiet' \in {quiet, FALSE}
            /\ \/ UNCHANGED worker
               \/ /\ worker'.at # "assign tag" /\ (quiet' => worker'.at # "tags")
                  /\ \/ worker'.tag = {}
                     \/ worker.at # "assign tag" /\ worker'.tag = worker.tag
<1>. DEFINE Other ==
              /\ UNCHANGED tagVars /\ delete' \in {delete, NoDelete} /\ quiet' \in {quiet, FALSE}
              /\ \/ UNCHANGED worker
                 \/ /\ worker'.at # "assign tag" /\ (quiet' => worker'.at # "tags")
                    /\ \/ worker'.tag = {}
                       \/ worker.at # "assign tag" /\ worker'.tag = worker.tag
<1>. USE DEF WorkOK, Worker, historyVars, rowVars, tagVars, bounds
<1>0. /\ NoItem.at = "fetch" /\ NoItem.tag = {}
      /\ Idle.at = "idle" /\ Idle.tag = {}
  BY DEF NoItem, Idle
<1>1. CASE UNCHANGED vars  BY <1>1 DEF vars
<1>2. CASE NewJob  BY <1>2 DEF NewJob
<1>3. CASE StartJob  BY <1>3 DEF StartJob, Idle
<1>4. ASSUME NEW x \in Items, SkipItem(x) \/ NextItem(x)  PROVE Other
  BY <1>4 DEF SkipItem, NextItem
<1>5. ASSUME NEW c \in BOOLEAN, ReadLocations(c)  PROVE Other  BY <1>5 DEF ReadLocations
<1>6. ASSUME NEW o \in Outcomes, Visit(o)  PROVE Other  BY <1>6 DEF Visit
<1>7. CASE EndDevices  BY <1>0, <1>7 DEF EndDevices
<1>8. CASE EndItems  BY <1>8 DEF EndItems, Idle
<1>9. CASE ReadCounters  BY <1>9 DEF ReadCounters
<1>10. ASSUME NEW old \in worker.read, WriteCounters(old)  PROVE Other
  BY <1>10 DEF WriteCounters, Idle
<1>11. CASE CompleteJob  BY <1>0, <1>11 DEF CompleteJob
<1>12. ASSUME NEW n \in Spellings, TagFails(n)  PROVE Other  BY <1>12 DEF TagFails, Fault
<1>13. CASE EnsureImageTagFails  BY <1>13 DEF EnsureImageTagFails, Fault
<1>14. CASE ItemFails  BY <1>0, <1>14 DEF ItemFails, Fault
<1>15. CASE CountersFail  BY <1>15 DEF CountersFail, Fault, Idle
<1>16. CASE CompleteFails  BY <1>0, <1>16 DEF CompleteFails, Fault
<1>17. CASE ThumbnailFails  BY <1>0, <1>17 DEF ThumbnailFails, Fault
<1>18. CASE DeleteFails  BY <1>18 DEF DeleteFails, Fault
<1>19. CASE Crash  BY <1>0, <1>19 DEF Crash, Fault
<1>20. ASSUME NEW i \in Images, RenameFails(i)  PROVE Other
  BY <1>0, <1>20 DEF RenameFails, Fault
<1>21. CASE EncodeSmall  BY <1>21 DEF EncodeSmall
<1>22. ASSUME NEW i \in Images, EnsureThumbnail(i) \/ Rename(i) \/ ReadThumbnail(i)  PROVE Other
  BY <1>0, <1>22 DEF EnsureThumbnail, Rename, ReadThumbnail
<1>23. ASSUME NEW i \in Images, EncodeInPlace(i) \/ FinishInPlace(i)  PROVE Other
  BY <1>0, <1>23 DEF EncodeInPlace, FinishInPlace
<1>24. ASSUME NEW i \in Images, RecordThumbnail(i) \/ LoseFile(i)  PROVE Other
  BY <1>0, <1>24 DEF RecordThumbnail, LoseFile, Request
<1>25. ASSUME NEW i \in Images, BlacklistImage(i)  PROVE Other
  BY <1>25 DEF BlacklistImage
<1>. QED  BY <1>1, <1>2, <1>3, <1>4, <1>5, <1>6, <1>7, <1>8, <1>9, <1>10, <1>11, <1>12, <1>13,
             <1>14, <1>15, <1>16, <1>17, <1>18, <1>19, <1>20, <1>21, <1>22, <1>23, <1>24, <1>25
          DEF Next, Job, Tag, Thumbnail, User, Failure

\* What an image needs and what it has stay while its row and the rows of its tags stay.
LEMMA AssignedKept ==
  ASSUME NEW i, i \in DOMAIN images, i \in DOMAIN images', images'[i] = images[i],
         DOMAIN tags \subseteq DOMAIN tags', \A t \in DOMAIN tags : tags'[t] = tags[t],
         \A t : <<i, t>> \in imageTags => <<i, t>> \in imageTags'
  PROVE  /\ Needed(i)' = Needed(i)
         /\ \A n : Assigned(i, n) => Assigned(i, n)'
<1>1. Needed(i)' = Needed(i)  BY DEF Needed
<1>2. ASSUME NEW n, Assigned(i, n)  PROVE Assigned(i, n)'
  <2>1. PICK t \in DOMAIN tags : tags[t].normal = n /\ <<i, t>> \in imageTags
    BY <1>2 DEF Assigned
  <2>. QED  BY <2>1 DEF Assigned
<1>. QED  BY <1>1, <1>2

LEMMA SameTags ==
  ASSUME UNCHANGED <<images, tags, imageTags>>
  PROVE  /\ \A i : Needed(i)' = Needed(i)
         /\ \A i, n : Assigned(i, n)' <=> Assigned(i, n)
         /\ Syncing /\ UNCHANGED worker /\ (quiet' => quiet) => Syncing'
         /\ /\ Synced /\ tagged' \subseteq tagged /\ tagged' \cap delete'.image = {}
            => Synced'
<1>1. \A i : Needed(i)' = Needed(i)  BY DEF Needed
<1>2. \A i, n : Assigned(i, n)' <=> Assigned(i, n)  BY DEF Assigned
<1>3. ASSUME Syncing, UNCHANGED worker, quiet' => quiet  PROVE Syncing'
  <2>. SUFFICES ASSUME quiet, worker.at \in {"tags", "assign tag"},
                       NEW i \in worker.image, NEW n \in Needed(i)
                PROVE  \/ Assigned(i, n)
                       \/ \E s \in worker.names : Normal[s] = n
                       \/ \E t \in worker.tag : tags[t].normal = n
    BY <1>1, <1>2, <1>3 DEF Syncing
  <2>. QED  BY <1>3 DEF Syncing
<1>4. ASSUME Synced, tagged' \subseteq tagged, tagged' \cap delete'.image = {}  PROVE Synced'
  <2>1. \A i \in tagged' : \A n \in Needed(i)' : Assigned(i, n)'
    BY <1>1, <1>2, <1>4 DEF Synced
  <2>. QED  BY <1>4, <2>1 DEF Synced
<1>. QED  BY <1>1, <1>2, <1>3, <1>4

LEMMA TagStep ==
  ASSUME WorkOK, DeleteOK, RowsOK, TagExists, ThumbInv, TagInv, [Next]_vars
  PROVE  TagInv'
<1>0. /\ Deleting /\ Custody /\ Syncing /\ Synced
      /\ DOMAIN images \subseteq used /\ tagged \subseteq DOMAIN images
      /\ tagged \cap delete.image = {}
      /\ worker.at # "assign tag" => worker.tag = {}
      /\ NoDelete.image = {}
  BY DEF ThumbInv, TagInv, Synced, NoDelete
<1>1. ASSUME NEW x \in Items, GetOrCreateImage(x)  PROVE TagInv'
  <2>1. PICK i \in Images :
          /\ IF RowsOf(x) # {}
             THEN i \in RowsOf(x) /\ UNCHANGED <<images, used>>
             ELSE i \notin used /\ images' = With(images, i, x) /\ used' = used \cup {i}
          /\ worker' = [worker EXCEPT !.at = "tags", !.image = {i}, !.names = Deduped(TagsOf[x]),
                                      !.fresh = (RowsOf(x) = {})]
    BY <1>1 DEF GetOrCreateImage
  <2>2. UNCHANGED <<tags, imageTags, delete, tagged>> /\ worker.at = "image"
    BY <1>1 DEF GetOrCreateImage
  <2>3. /\ i \in DOMAIN images' /\ images'[i] = x /\ DOMAIN images' \subseteq used'
        /\ \A j \in DOMAIN images : j \in DOMAIN images' /\ images'[j] = images[j]
    BY <1>0, <2>1 DEF RowsOf, With
  <2>4. /\ worker'.at = "tags" /\ worker'.image = {i} /\ worker'.names = Deduped(TagsOf[x])
        /\ worker'.tag = {}
    BY <1>0, <2>1, <2>2 DEF WorkOK, Worker
  <2>5. Syncing'
    <3>1. ASSUME NEW n \in Needed(i)'  PROVE \E s \in worker'.names : Normal[s] = n
      <4>1. PICK k \in DOMAIN TagsOf[x] : n = Normal[TagsOf[x][k]] /\ n # Blank
        BY <2>3 DEF Needed
      <4>. QED  BY <2>4, <4>1, DedupedFacts
    <3>. QED  BY <2>4, <3>1 DEF Syncing
  <2>6. Synced'
    <3>1. ASSUME NEW j \in tagged, NEW n \in Needed(j)'  PROVE Assigned(j, n)'
      BY <1>0, <2>2, <2>3, AssignedKept DEF Synced
    <3>2. tagged' \subseteq DOMAIN images' \ delete'.image  BY <1>0, <2>2, <2>3
    <3>. QED  BY <2>2, <3>1, <3>2 DEF Synced
  <2>. QED  BY <2>3, <2>4, <2>5, <2>6 DEF TagInv
<1>2. ASSUME NEW n \in Spellings, EnsureTag(n)  PROVE TagInv'
  <2>1. /\ UNCHANGED <<images, imageTags, used, delete, tagged, quiet>> /\ worker.at = "tags"
        /\ worker'.image = worker.image /\ worker'.names = worker.names \ {n}
    BY <1>2 DEF EnsureTag, historyVars, WorkOK, Worker
  <2>2. DOMAIN tags \subseteq DOMAIN tags' /\ \A t \in DOMAIN tags : tags'[t] = tags[t]
    BY <1>2 DEF EnsureTag, With
  <2>3. \/ worker'.at = "tags" /\ worker'.tag = {} /\ Normal[n] = Blank
        \/ /\ worker'.at = "assign tag"
           /\ \E t \in worker'.tag : tags'[t].normal = Normal[n]
    <3>1. CASE Normal[n] = Blank
      BY <1>0, <1>2, <2>1, <3>1 DEF EnsureTag, WorkOK, Worker
    <3>2. CASE Normal[n] # Blank /\ Found(n) # {}
      <4>1. tags' = tags /\ worker'.at = "assign tag" /\ worker'.tag = Found(n)
        BY <1>2, <3>2 DEF EnsureTag, WorkOK, Worker
      <4>. QED  BY <3>2, <4>1 DEF Found
    <3>3. CASE Normal[n] # Blank /\ Found(n) = {}
      <4>1. ~ \E t \in DOMAIN tags : tags[t].normal = Normal[n]  BY <3>3 DEF Found
      <4>2. PICK t \in TagIds \ DOMAIN tags :
              /\ tags' = With(tags, t, [name |-> n, normal |-> Normal[n]])
              /\ worker'.at = "assign tag" /\ worker'.tag = {t}
        BY <1>2, <3>3, <4>1 DEF EnsureTag, WorkOK, Worker
      <4>3. tags'[t].normal = Normal[n]  BY <4>2 DEF With
      <4>. QED  BY <4>2, <4>3
    <3>. QED  BY <3>1, <3>2, <3>3
  <2>4. Syncing'
    <3>. SUFFICES ASSUME quiet, NEW i \in worker.image, NEW m \in Needed(i)'
                  PROVE  \/ Assigned(i, m)'
                         \/ \E s \in worker'.names : Normal[s] = m
                         \/ \E t \in worker'.tag : tags'[t].normal = m
      BY <2>1 DEF Syncing
    <3>1. i \in DOMAIN images  BY <1>0 DEF Custody
    <3>2. m \in Needed(i) /\ m # Blank  BY <2>1 DEF Needed
    <3>3. Assigned(i, m) => Assigned(i, m)'  BY <2>1, <2>2, <3>1, AssignedKept
    <3>4. Assigned(i, m) \/ \E s \in worker.names : Normal[s] = m
      BY <1>0, <2>1, <3>2 DEF Syncing
    <3>5. ASSUME NEW s \in worker.names, Normal[s] = m, s = n
          PROVE  \E t \in worker'.tag : tags'[t].normal = m
      BY <2>3, <3>2, <3>5
    <3>. QED  BY <2>1, <3>3, <3>4, <3>5
  <2>5. Synced'
    <3>1. ASSUME NEW j \in tagged, NEW m \in Needed(j)'  PROVE Assigned(j, m)'
      BY <1>0, <2>1, <2>2, AssignedKept DEF Synced
    <3>. QED  BY <1>0, <2>1, <3>1 DEF Synced
  <2>. QED  BY <1>0, <2>1, <2>3, <2>4, <2>5 DEF TagInv
<1>3. ASSUME NEW i \in Images, EndTags(i)  PROVE TagInv'
  <2>1. /\ UNCHANGED <<images, tags, imageTags, used, delete, quiet>>
        /\ worker.at = "tags" /\ worker.names = {} /\ worker.image = {i}
        /\ worker'.at = "locations" /\ worker'.tag = worker.tag
        /\ tagged' = IF quiet THEN tagged \cup {i} ELSE tagged
    BY <1>3 DEF EndTags, Handles, rowVars, WorkOK, Worker
  <2>2. quiet => i \in DOMAIN images \ delete.image /\ \A n \in Needed(i) : Assigned(i, n)
    BY <1>0, <2>1 DEF Syncing, Custody
  <2>3. Synced'
    <3>1. \A j \in tagged' : \A n \in Needed(j) : Assigned(j, n)
      BY <1>0, <2>1, <2>2 DEF Synced
    <3>2. \A j \in tagged' : \A n \in Needed(j)' : Assigned(j, n)'
      BY <2>1, <3>1, SameTags
    <3>. QED  BY <1>0, <2>1, <2>2, <3>2 DEF Synced
  <2>. QED  BY <1>0, <2>1, <2>3 DEF TagInv, Syncing
<1>4. ASSUME NEW i \in Images, NEW t \in TagIds, EnsureImageTag(i, t)  PROVE TagInv'
  <2>1. /\ UNCHANGED <<images, tags, used, delete, tagged, quiet>>
        /\ worker.at = "assign tag" /\ worker.image = {i} /\ worker.tag = {t}
        /\ worker'.at = "tags" /\ worker'.tag = {} /\ worker'.names = worker.names
        /\ worker'.image = {i}
        /\ imageTags' = IF i \in DOMAIN images THEN imageTags \cup {<<i, t>>} ELSE imageTags
    BY <1>4 DEF EnsureImageTag, Handles, historyVars, WorkOK, Worker
  <2>2. t \in DOMAIN tags  BY <2>1 DEF TagExists
  <2>3. Syncing'
    <3>. SUFFICES ASSUME quiet, NEW m \in Needed(i)'
                  PROVE  Assigned(i, m)' \/ \E s \in worker.names : Normal[s] = m
      BY <2>1 DEF Syncing
    <3>1. i \in DOMAIN images  BY <1>0, <2>1 DEF Custody
    <3>2. m \in Needed(i)  BY <2>1 DEF Needed
    <3>3. Assigned(i, m) => Assigned(i, m)'  BY <2>1, <3>1, AssignedKept
    <3>4. tags[t].normal = m => Assigned(i, m)'  BY <2>1, <2>2, <3>1 DEF Assigned
    <3>. QED  BY <1>0, <2>1, <3>2, <3>3, <3>4 DEF Syncing
  <2>4. Synced'
    <3>1. ASSUME NEW j \in tagged, NEW m \in Needed(j)'  PROVE Assigned(j, m)'
      BY <1>0, <2>1, AssignedKept DEF Synced
    <3>. QED  BY <1>0, <2>1, <3>1 DEF Synced
  <2>. QED  BY <1>0, <2>1, <2>3, <2>4 DEF TagInv
<1>5. ASSUME NEW i \in Images, BeginDelete(i)  PROVE TagInv'
  <2>1. /\ UNCHANGED <<images, tags, imageTags, used, worker>>
        /\ delete'.image = {i} /\ tagged' = tagged \ {i} /\ (quiet' => quiet)
    BY <1>5 DEF BeginDelete, Request, rowVars
  <2>2. Syncing'  BY <1>0, <2>1, SameTags
  <2>3. Synced'  BY <1>0, <2>1, SameTags
  <2>. QED  BY <1>0, <2>1, <2>2, <2>3 DEF TagInv
<1>6. ASSUME NEW i \in Images, DeleteReads(i) \/ DeleteFile(i)  PROVE TagInv'
  <2>1. UNCHANGED <<images, tags, imageTags, used, worker, tagged, quiet>>
        /\ delete'.image = delete.image
    BY <1>6 DEF DeleteReads, DeleteFile, rowVars, historyVars, DeleteOK
  <2>. QED  BY <1>0, <2>1, SameTags DEF TagInv
<1>7. CASE DeleteThumbnailRow
  <2>1. UNCHANGED <<images, tags, imageTags, used, worker, tagged, quiet>>
        /\ delete'.image = delete.image
    BY <1>7 DEF DeleteThumbnailRow, historyVars, DeleteOK
  <2>. QED  BY <1>0, <2>1, SameTags DEF TagInv
<1>8. ASSUME UNCHANGED <<tags, used, worker, tagged, quiet>>, delete'.image \subseteq delete.image,
             imageTags' = TagsWithout(delete.image),
             \A j \in DOMAIN images \ delete.image : j \in DOMAIN images' /\ images'[j] = images[j],
             DOMAIN images' \subseteq DOMAIN images
      PROVE  TagInv'
  <2>1. \A j : j \notin delete.image =>
               \A t : <<j, t>> \in imageTags => <<j, t>> \in imageTags'
    BY <1>8 DEF TagsWithout
  <2>2. Syncing'
    <3>. SUFFICES ASSUME quiet, worker.at \in {"tags", "assign tag"},
                         NEW i \in worker.image, NEW m \in Needed(i)'
                  PROVE  \/ Assigned(i, m)'
                         \/ \E s \in worker.names : Normal[s] = m
                         \/ \E t \in worker.tag : tags[t].normal = m
      BY <1>8 DEF Syncing
    <3>1. i \in DOMAIN images \ delete.image  BY <1>0 DEF Custody
    <3>2. m \in Needed(i) /\ (Assigned(i, m) => Assigned(i, m)')
      BY <1>8, <2>1, <3>1, AssignedKept
    <3>. QED  BY <1>0, <3>2 DEF Syncing
  <2>3. Synced'
    <3>1. ASSUME NEW j \in tagged, NEW m \in Needed(j)'  PROVE Assigned(j, m)'
      BY <1>0, <1>8, <2>1, AssignedKept DEF Synced
    <3>. QED  BY <1>0, <1>8, <3>1 DEF Synced
  <2>. QED  BY <1>0, <1>8, <2>2, <2>3 DEF TagInv
<1>9. CASE DeleteTags
  <2>1. UNCHANGED <<tags, used, worker, tagged, quiet, images>> /\ delete'.image = delete.image
        /\ imageTags' = TagsWithout(delete.image)
    BY <1>9 DEF DeleteTags, historyVars, DeleteOK
  <2>. QED  BY <1>8, <2>1
<1>10. ASSUME NEW i \in Images, DeleteRow(i)  PROVE TagInv'
  <2>1. /\ UNCHANGED <<tags, used, worker, tagged, quiet>> /\ delete' = NoDelete
        /\ imageTags' = TagsWithout(delete.image) /\ delete.image = {i}
        /\ images' = Without(images, i)
    BY <1>10 DEF DeleteRow, historyVars
  <2>2. /\ \A j \in DOMAIN images \ {i} : j \in DOMAIN images' /\ images'[j] = images[j]
        /\ DOMAIN images' \subseteq DOMAIN images
    BY <2>1 DEF Without
  <2>. QED  BY <1>0, <1>8, <2>1, <2>2
<1>11. CASE /\ UNCHANGED tagVars /\ delete' \in {delete, NoDelete} /\ quiet' \in {quiet, FALSE}
            /\ \/ UNCHANGED worker
               \/ /\ worker'.at # "assign tag" /\ (quiet' => worker'.at # "tags")
                  /\ \/ worker'.tag = {}
                     \/ worker.at # "assign tag" /\ worker'.tag = worker.tag
  <2>1. /\ UNCHANGED <<images, tags, imageTags, used, tagged>>
        /\ delete'.image = delete.image \/ delete'.image = {}
    BY <1>0, <1>11 DEF tagVars
  <2>2. Synced'  BY <1>0, <2>1, SameTags
  <2>3. Syncing'
    <3>1. CASE UNCHANGED worker
      <4>1. quiet' => quiet  BY <1>11
      <4>. QED  BY <1>0, <2>1, <3>1, <4>1, SameTags
    <3>2. CASE worker'.at # "assign tag" /\ (quiet' => worker'.at # "tags")
      BY <3>2 DEF Syncing
    <3>. QED  BY <1>11, <3>1, <3>2
  <2>4. worker'.at # "assign tag" => worker'.tag = {}  BY <1>0, <1>11
  <2>. QED  BY <1>0, <2>1, <2>2, <2>3, <2>4 DEF TagInv
<1>. QED  BY <1>1, <1>2, <1>3, <1>4, <1>5, <1>6, <1>7, <1>9, <1>10, <1>11, OtherTagSteps

\* SyncImageTags is additive: an image keeps every tag of an undisturbed pass, in normal
\* form, whatever comes after, until a deletion begins.
THEOREM TagsKeptCorrect == Spec => []TagsKept
<1>. DEFINE Inv == TypeOK /\ TagExists /\ ThumbInv /\ TagInv
<1>1. Init => Inv
  <2>. SUFFICES ASSUME Init PROVE Inv  OBVIOUS
  <2>1. TagInv
    BY DEF Init, TagInv, Syncing, Synced, NoRow, NoDelete, Idle
  <2>. QED  BY <2>1, TypeInit, ThumbInit
<1>2. Inv /\ [Next]_vars => Inv'
  <2>. SUFFICES ASSUME Inv, [Next]_vars PROVE Inv'  OBVIOUS
  <2>1. Schema  BY DEF TypeOK
  <2>. QED  BY <2>1, TypeStep, ThumbStep, TagStep, TypeParts
<1>3. Inv => TagsKept
  <2>. SUFFICES ASSUME Inv, NEW i \in tagged \cap DOMAIN images,
                       NEW k \in DOMAIN TagsOf[images[i]], Normal[TagsOf[images[i]][k]] # Blank
                PROVE  Assigned(i, Normal[TagsOf[images[i]][k]])
    BY DEF TagsKept, Assigned
  <2>1. Normal[TagsOf[images[i]][k]] \in Needed(i)  BY DEF Needed
  <2>. QED  BY <2>1 DEF TagInv, Synced
<1>. QED  BY <1>1, <1>2, <1>3, PTL DEF Spec
=============================================================================
