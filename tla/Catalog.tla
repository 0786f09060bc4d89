------------------------------ MODULE Catalog ------------------------------
(***************************************************************************)
(* The services of devices, subscriptions, schedules and images as their   *)
(* clients use them: requests of internal/services/devices,                *)
(* device_subscriptions, source_schedules, sources and images that check   *)
(* and then write, statement by statement and beside each other; the       *)
(* worker that delivers images to the subscribed devices; and a client     *)
(* that follows the cursors of a listing (module Listing) while the tables *)
(* change.                                                                 *)
(*                                                                         *)
(* Fields no property is about, such as a device's name beside its rank,   *)
(* are left out, and so are the disk (module Materializer) and the reloads *)
(* of the scheduler (module Scheduler).  SQLite executes one statement at  *)
(* a time.                                                                 *)
(***************************************************************************)
EXTENDS Listing, Overlaps, Tables

CONSTANTS Ids,           \* numbers an id can be; an id is never used again
          Threads,       \* HTTP requests that can be under way at once
          Specs,         \* what a request says of a device
          Crons,         \* the cron expressions a request can name
          Pictures,      \* what a source says of an image
          StartDevices, StartSources, StartSubscriptions, StartSchedules, StartJobs,
          StartImages, StartAssignments, StartLocations,
                         \* the rows of the database in the beginning
          Asked,         \* the scans a client can begin: listing, device and filter
          Sorts,         \* the sorts it asks for
          Limit,         \* the limit of its pages
          MaxRequests,   \* bound: requests, the scan being one
          MaxDeliveries  \* bound: items the worker gets from sources

Subscription == [device : Ids, source : Ids, enabled : BOOLEAN, created : Nat]
Schedule     == [source : Ids, cron : DOMAIN Occurrences, created : Nat]
Job          == [source : SUBSET Ids, created : Nat,
                 status : {"queued", "running", "succeeded", "failed"}]
Image        == [picture : Pictures \cup {StartImages[i].picture : i \in DOMAIN StartImages},
                 source : SUBSET Ids, favorite : BOOLEAN, created : Nat]

VARIABLES
  devices, sources, subscriptions, schedules, jobs, images, assignments, locations,
              \* the tables
  used,       \* ids given so far
  clock,      \* the time, as the number of rows inserted
  requests,   \* each request: operation, step, what it asks for and its answer
  sync,       \* the worker: its job, source and devices, the image in hand and for whom
  scan,       \* the client that reads a listing page by page
  \* bookkeeping of the bounds:
  asked, deliveries,
  \* history, never read by the program:
  overtaken,  \* requests during which another one, or the worker, wrote
  steady,     \* rows the scan's listing has had ever since it began
  delivered,  \* images the scan's device has had ever since it began
  calm        \* whether the listing has not changed since it began

tables  == <<devices, sources, subscriptions, schedules, jobs, images, assignments, locations>>
history == <<overtaken, steady, delivered, calm>>
vars == <<tables, used, clock, requests, sync, scan, asked, deliveries, history>>

\* Foreign keys and unique indexes, for subscriptions and devices as given.
SubscriptionsFit(subs, devs) ==
  /\ \A i \in DOMAIN subs : subs[i].device \in DOMAIN devs /\ subs[i].source \in DOMAIN sources
  /\ \A i, j \in DOMAIN subs :
       subs[i].device = subs[j].device /\ subs[i].source = subs[j].source => i = j

DevicesFit(devs) == \A d, e \in DOMAIN devs : devs[d].slug = devs[e].slug => d = e

Schema ==
  /\ SubscriptionsFit(subscriptions, devices) /\ DevicesFit(devices)
  /\ \A i \in DOMAIN schedules : schedules[i].source \in DOMAIN sources
  /\ \A i \in DOMAIN jobs : jobs[i].source \subseteq DOMAIN sources
  /\ \A i \in DOMAIN images : images[i].source \subseteq DOMAIN sources
  /\ assignments \cup locations \subseteq (DOMAIN images) \X (DOMAIN devices)

\* What the constants are: an id is a number, the start a database that meets its
\* constraints, and a scan one of the seven listings, of a device where it needs one.
StartIds == UNION {DOMAIN StartDevices, DOMAIN StartSources, DOMAIN StartSubscriptions,
                   DOMAIN StartSchedules, DOMAIN StartJobs, DOMAIN StartImages}

ASSUME NumbersAssumption == Ids \subseteq Nat /\ Limit \in Int

ASSUME StartAssumption ==
  /\ StartIds \subseteq Ids /\ IsFiniteSet(StartIds)
  /\ StartDevices \in [DOMAIN StartDevices -> Specs] /\ DevicesFit(StartDevices)
  /\ \A d \in DOMAIN StartDevices : ValidDevice(StartDevices[d])
  /\ StartSources \in [DOMAIN StartSources -> Nat]
  /\ StartSubscriptions \in [DOMAIN StartSubscriptions -> Subscription]
  /\ \A i \in DOMAIN StartSubscriptions :
       /\ StartSubscriptions[i].device \in DOMAIN StartDevices
       /\ StartSubscriptions[i].source \in DOMAIN StartSources
       /\ \A j \in DOMAIN StartSubscriptions :
            /\ StartSubscriptions[i].device = StartSubscriptions[j].device
            /\ StartSubscriptions[i].source = StartSubscriptions[j].source
            => i = j
  /\ StartSchedules \in [DOMAIN StartSchedules -> Schedule]
  /\ \A i \in DOMAIN StartSchedules : StartSchedules[i].source \in DOMAIN StartSources
  /\ StartJobs \in [DOMAIN StartJobs -> Job]
  /\ \A i \in DOMAIN StartJobs : StartJobs[i].source \subseteq DOMAIN StartSources
  /\ StartImages \in [DOMAIN StartImages -> Image]
  /\ \A i \in DOMAIN StartImages : StartImages[i].source \subseteq DOMAIN StartSources
  /\ StartAssignments \cup StartLocations \subseteq (DOMAIN StartImages) \X (DOMAIN StartDevices)

ASSUME AskedAssumption ==
  \A a \in Asked :
    /\ a.listing \in {"images", "device images", "subscriptions", "schedules", "jobs", "devices",
                      "sources"}
    /\ a.listing = "device images" => \E d \in Ids : a.device = {d}
    /\ {"adult", "favorite", "minWidth", "maxWidth", "minHeight", "maxHeight", "minSize", "maxSize",
        "words"} \subseteq DOMAIN a.filter

Ops == {"create subscription", "update subscription", "delete subscription",
        "create device", "update device", "delete device",
        "create schedule", "update schedule", "delete schedule",
        "delete source", "favorite image", "delete image"}

RequestType ==
  [op : Ops \cup {"none"}, id : SUBSET Ids,
   row : SUBSET (Subscription \cup Specs \cup [source : Ids, cron : Crons, created : Nat]),
   warned : BOOLEAN,
   step : {"idle", "existing", "device", "source", "duplicate", "slug", "write", "read", "warn",
           "answered"},
   answer : {"none", "ok", "bad request", "not found", "conflict", "server error"}]

\* Types, and the constraints the database enforces.
TypeOK ==
  /\ UNION {DOMAIN devices, DOMAIN sources, DOMAIN subscriptions, DOMAIN schedules, DOMAIN jobs,
            DOMAIN images} \subseteq used
  /\ devices \in [DOMAIN devices -> Specs]
  /\ sources \in [DOMAIN sources -> Nat]
  /\ subscriptions \in [DOMAIN subscriptions -> Subscription]
  /\ schedules \in [DOMAIN schedules -> Schedule]
  /\ jobs \in [DOMAIN jobs -> Job]
  /\ images \in [DOMAIN images -> Image]
  /\ Schema
  /\ \A d \in DOMAIN devices : ValidDevice(devices[d])
  /\ \A t \in Threads : requests[t] \in RequestType
  /\ used \subseteq Ids /\ scan.seen \subseteq used

-----------------------------------------------------------------------------
(* The listings. *)

PictureOf(i) == images[i].picture

\* An image as the queries see it: its row with what the source said of it.
Row(i) == [f \in DOMAIN PictureOf(i) \cup {"source", "favorite"} |->
             IF f \in {"source", "favorite"} THEN images[i][f] ELSE PictureOf(i)[f]]
Rows == [i \in DOMAIN images |-> Row(i)]

\* An assignment or a location ties an image to a device for good.
Historical(d) == {i \in DOMAIN images : <<i, d>> \in assignments \cup locations}

\* What the constraints of the device and its enabled subscriptions admit now.
Eligible(d) ==
  {i \in DOMAIN images :
     /\ devices[d].enabled
     /\ \E s \in DOMAIN subscriptions :
          /\ subscriptions[s].device = d /\ subscriptions[s].enabled
          /\ images[i].source = {subscriptions[s].source}
     /\ Fits(devices[d], PictureOf(i))}

\* Fault: a device that is switched off has no history.
DeviceImages_EnabledOnly(d) == IF devices[d].enabled THEN Historical(d) \cup Eligible(d) ELSE {}

DeviceImages(d) == Historical(d) \cup Eligible(d)

\* The newest images come first, unless the request sorts.
NewestFirst == [i \in DOMAIN images |-> 0 - images[i].created]

ListImages(f, q) == Page(Filtered(Rows, f), NewestFirst, q)

DeviceRows(d, f) ==
  IF d \in DOMAIN devices THEN DeviceImages(d) \cap DeviceFiltered(Rows, devices[d], f) ELSE {}

ListDeviceImages(d, f, q) == Page(DeviceRows(d, f), NewestFirst, q)

\* A filter on devices and a search for names are like the one on sources.
SubscriptionRows(f) ==
  {s \in DOMAIN subscriptions : f.sources # {} => subscriptions[s].source \in f.sources}

ListSubscriptions(f, q) ==
  Page(SubscriptionRows(f), [s \in DOMAIN subscriptions |-> subscriptions[s].created], q)

ListSchedules(q) == Page(DOMAIN schedules, [i \in DOMAIN schedules |-> schedules[i].created], q)

\* The filters on type and trigger are like the one on the status; the newest come first.
JobRows(f) ==
  {i \in DOMAIN jobs :
     /\ \A x \in f.status : jobs[i].status = x
     /\ f.sources # {} => jobs[i].source \cap f.sources # {}}

ListJobs(f, q) == Page(JobRows(f), [i \in DOMAIN jobs |-> 0 - jobs[i].created], q)

ListDevices(q) == Page(DOMAIN devices, [d \in DOMAIN devices |-> devices[d].name], q)

ListSources(q) == Page(DOMAIN sources, sources, q)

NoFilter(f) == \A field \in DOMAIN f : f[field] = {}

\* The rows, and a page, of the listing the client reads.
Listed ==
  CASE scan.listing = "images"        -> Filtered(Rows, scan.filter)
    [] scan.listing = "device images" -> UNION {DeviceRows(d, scan.filter) : d \in scan.device}
    [] scan.listing = "subscriptions" -> SubscriptionRows(scan.filter)
    [] scan.listing = "schedules"     -> DOMAIN schedules
    [] scan.listing = "jobs"          -> JobRows(scan.filter)
    [] scan.listing = "devices"       -> DOMAIN devices
    [] scan.listing = "sources"       -> DOMAIN sources

PageAt(q) ==
  CASE scan.listing = "images"        -> ListImages(scan.filter, q)
    [] scan.listing = "device images" ->
         ListDeviceImages(CHOOSE d \in scan.device : TRUE, scan.filter, q)
    [] scan.listing = "subscriptions" -> ListSubscriptions(scan.filter, q)
    [] scan.listing = "schedules"     -> ListSchedules(q)
    [] scan.listing = "jobs"          -> ListJobs(scan.filter, q)
    [] scan.listing = "devices"       -> ListDevices(q)
    [] scan.listing = "sources"       -> ListSources(q)

Delivered ==
  {i \in DOMAIN images : \E d \in scan.device : <<i, d>> \in assignments \cup locations}

\* Part of every step: the history of the scan.
Observe ==
  IF scan'.at = "idle" \/ scan.at = "idle"
  THEN /\ steady' = IF scan'.at = "idle" THEN {} ELSE Listed'
       /\ delivered' = IF scan'.at = "idle" THEN {} ELSE Delivered'
       /\ calm' = TRUE
  ELSE /\ steady' = steady \cap Listed'
       /\ delivered' = delivered \cap Delivered'
       /\ calm' = (calm /\ Listed' = Listed)

NoRequest == [op |-> "none", id |-> {}, row |-> {}, warned |-> FALSE, step |-> "idle",
              answer |-> "none"]
NoSync == [job |-> {}, source |-> {}, devices |-> {}, image |-> {}, left |-> {}]
NoScan == [at |-> "idle", listing |-> "images", device |-> {}, filter |-> {}, sorts |-> {},
           cursor |-> {}, back |-> {}, seen |-> {}, twice |-> FALSE, last |-> {}, before |-> {},
           turned |-> {}]

Init ==
  /\ devices = StartDevices /\ sources = StartSources /\ subscriptions = StartSubscriptions
  /\ schedules = StartSchedules /\ jobs = StartJobs
  /\ images = StartImages /\ assignments = StartAssignments /\ locations = StartLocations
  /\ used = StartIds
  /\ clock = Cardinality(used)
  /\ requests = [t \in Threads |-> NoRequest] /\ sync = NoSync /\ scan = NoScan
  /\ asked = 0 /\ deliveries = 0
  /\ overtaken = [t \in Threads |-> FALSE]
  /\ steady = {} /\ delivered = {} /\ calm = TRUE

-----------------------------------------------------------------------------
(* Requests that check and then write. *)

\* What is left of a request that has its answer.
Answered(op, code, warned) ==
  [NoRequest EXCEPT !.op = op, !.step = "answered", !.answer = code, !.warned = warned]

\* A request is received by a thread that has none.
Ask(t, op, id, row, step) ==
  /\ requests[t].step \in {"idle", "answered"} /\ asked < MaxRequests
  /\ asked' = asked + 1
  /\ requests' = [requests EXCEPT ![t] =
       IF step = "answered" THEN Answered(op, "bad request", FALSE)
       ELSE [NoRequest EXCEPT !.op = op, !.id = id, !.row = row, !.step = step]]
  /\ overtaken' = [overtaken EXCEPT ![t] = FALSE]
  /\ UNCHANGED <<tables, used, clock, sync, scan, deliveries, steady, delivered, calm>>

\* What a client can ask a subscription to be; the time is not its to say.
Wanted == [device : DOMAIN StartDevices, source : DOMAIN StartSources, enabled : BOOLEAN,
           created : {0}]
WantedSchedule == [source : DOMAIN StartSources, cron : Crons, created : {0}]

CreateSubscription(t, s) == Ask(t, "create subscription", {}, {s}, "device")
UpdateSubscription(t, i, s) == Ask(t, "update subscription", {i}, {s}, "existing")
DeleteSubscription(t, i) == Ask(t, "delete subscription", {i}, {}, "existing")

\* ValidateCronExpr comes first.
CreateSchedule(t, s) ==
  Ask(t, "create schedule", {}, {s}, IF ValidateCronExpr(s.cron) THEN "source" ELSE "answered")
UpdateSchedule(t, i, s) ==
  Ask(t, "update schedule", {i}, {s}, IF ValidateCronExpr(s.cron) THEN "existing" ELSE "answered")
DeleteSchedule(t, i) == Ask(t, "delete schedule", {i}, {}, "existing")

\* validateDeviceInput comes first.
CreateDevice(t, spec) ==
  Ask(t, "create device", {}, {spec}, IF ValidDevice(spec) THEN "slug" ELSE "answered")
UpdateDevice(t, i, spec) ==
  Ask(t, "update device", {i}, {spec}, IF ValidDevice(spec) THEN "existing" ELSE "answered")
DeleteDevice(t, i) == Ask(t, "delete device", {i}, {}, "existing")

DeleteSource(t, i)     == Ask(t, "delete source", {i}, {}, "existing")
SetImageFavorite(t, i) == Ask(t, "favorite image", {i}, {}, "existing")
DeleteImage(t, i)      == Ask(t, "delete image", {i}, {}, "existing")

\* The request goes on with a step, or is answered.
Go(t, step)     == requests' = [requests EXCEPT ![t].step = step]
Answer(t, code) == requests' = [requests EXCEPT ![t] = Answered(@.op, code, FALSE)]

Only(S) == CHOOSE x \in S : TRUE

OneOf(t, field) == Only(requests[t][field])

\* A statement of t that writes overtakes the requests under way beside it.
Writes(t) == overtaken' = [u \in Threads |-> overtaken[u] \/ (u # t /\ requests[u] # NoRequest)]

Reads ==
  /\ UNCHANGED <<tables, used, clock, sync, scan, asked, deliveries, overtaken>>
  /\ Observe

Existing(op) ==
  CASE op \in {"update subscription", "delete subscription"} -> DOMAIN subscriptions
    [] op \in {"update device", "delete device"}             -> DOMAIN devices
    [] op \in {"update schedule", "delete schedule"}         -> DOMAIN schedules
    [] op = "delete source"                                  -> DOMAIN sources
    [] OTHER                                                 -> DOMAIN images

AfterExisting(op) ==
  CASE op = "update subscription" -> "device" [] op = "update device"   -> "slug"
    [] op = "update schedule"     -> "source" [] OTHER                  -> "write"

\* GetSubscription, GetDevice, GetSchedule, GetSource or the image's row.
GetExisting(t) ==
  /\ requests[t].step = "existing"
  /\ IF requests[t].id \subseteq Existing(requests[t].op)
     THEN Go(t, AfterExisting(requests[t].op)) ELSE Answer(t, "not found")
  /\ Reads

\* countDevices.
CheckDevice(t) ==
  /\ requests[t].step = "device"
  /\ IF OneOf(t, "row").device \in DOMAIN devices
     THEN Go(t, "source") ELSE Answer(t, "bad request")
  /\ Reads

\* Fault: the source of a subscription or a schedule is not looked for.
SourceFound_Assumed(s) == TRUE

SourceFound(s) == s.source \in DOMAIN sources

\* countSources; schedules have no duplicates.
CheckSource(t) ==
  /\ requests[t].step = "source"
  /\ IF SourceFound(OneOf(t, "row"))
     THEN Go(t, IF "device" \in DOMAIN OneOf(t, "row") THEN "duplicate" ELSE "write")
     ELSE Answer(t, "bad request")
  /\ Reads

\* countSubscriptions of the same device and source, the request's own row aside.
CheckDuplicate(t) ==
  /\ requests[t].step = "duplicate"
  /\ LET s == OneOf(t, "row")
     IN  IF \E i \in DOMAIN subscriptions \ requests[t].id :
              subscriptions[i].device = s.device /\ subscriptions[i].source = s.source
         THEN Answer(t, "conflict") ELSE Go(t, "write")
  /\ Reads

\* countDevices with the same slug, the request's own row aside.
CheckSlug(t) ==
  /\ requests[t].step = "slug"
  /\ IF \E d \in DOMAIN devices \ requests[t].id : devices[d].slug = OneOf(t, "row").slug
     THEN Answer(t, "conflict") ELSE Go(t, "write")
  /\ Reads

-----------------------------------------------------------------------------
(* The statements that write; one a constraint refuses changes nothing. *)

Writing(t, op) == requests[t].step = "write" /\ requests[t].op = op

\* The request reads its row back, or the database refused the statement.
Refused(t, fits) == IF fits THEN Go(t, "read") ELSE Answer(t, "server error")

InsertSubscription(t, i) ==
  /\ Writing(t, "create subscription") /\ i \notin used
  /\ LET new == With(subscriptions, i, [OneOf(t, "row") EXCEPT !.created = clock])
     IN  IF SubscriptionsFit(new, devices)
         THEN /\ subscriptions' = new /\ used' = used \cup {i} /\ clock' = clock + 1
              /\ requests' = [requests EXCEPT ![t].step = "read", ![t].id = {i}]
         ELSE Answer(t, "server error") /\ UNCHANGED <<subscriptions, used, clock>>
  /\ Writes(t)
  /\ UNCHANGED <<devices, sources, schedules, jobs, images, assignments, locations, sync, scan,
                 asked, deliveries>>
  /\ Observe

\* UPDATE ... WHERE id: a row that is gone is no error.
RewriteSubscription(t) ==
  /\ Writing(t, "update subscription")
  /\ LET i   == OneOf(t, "id")
         new == IF i \in DOMAIN subscriptions
                THEN With(subscriptions, i, [OneOf(t, "row") EXCEPT
                                               !.created = subscriptions[i].created])
                ELSE subscriptions
         fit == SubscriptionsFit(new, devices)
     IN  subscriptions' = (IF fit THEN new ELSE subscriptions) /\ Refused(t, fit)
  /\ Writes(t)
  /\ UNCHANGED <<devices, sources, schedules, jobs, images, assignments, locations, used, clock,
                 sync, scan, asked, deliveries>>
  /\ Observe

RemoveSubscription(t) ==
  /\ Writing(t, "delete subscription")
  /\ subscriptions' = Without(subscriptions, OneOf(t, "id"))
  /\ Answer(t, "ok") /\ Writes(t)
  /\ UNCHANGED <<devices, sources, schedules, jobs, images, assignments, locations, used, clock,
                 sync, scan, asked, deliveries>>
  /\ Observe

InsertSchedule(t, i) ==
  /\ Writing(t, "create schedule") /\ i \notin used
  /\ IF OneOf(t, "row").source \in DOMAIN sources
     THEN /\ schedules' = With(schedules, i, [OneOf(t, "row") EXCEPT !.created = clock])
          /\ used' = used \cup {i} /\ clock' = clock + 1
          /\ requests' = [requests EXCEPT ![t].step = "read", ![t].id = {i}]
     ELSE Answer(t, "server error") /\ UNCHANGED <<schedules, used, clock>>
  /\ Writes(t)
  /\ UNCHANGED <<devices, sources, subscriptions, jobs, images, assignments, locations, sync, scan,
                 asked, deliveries>>
  /\ Observe

RewriteSchedule(t) ==
  /\ Writing(t, "update schedule")
  /\ LET i   == OneOf(t, "id")
         fit == i \in DOMAIN schedules => OneOf(t, "row").source \in DOMAIN sources
     IN  /\ schedules' = IF i \in DOMAIN schedules /\ fit
                         THEN With(schedules, i, [OneOf(t, "row") EXCEPT
                                                    !.created = schedules[i].created])
                         ELSE schedules
         /\ Refused(t, fit)
  /\ Writes(t)
  /\ UNCHANGED <<devices, sources, subscriptions, jobs, images, assignments, locations, used, clock,
                 sync, scan, asked, deliveries>>
  /\ Observe

RemoveSchedule(t) ==
  /\ Writing(t, "delete schedule")
  /\ schedules' = Without(schedules, OneOf(t, "id"))
  /\ Answer(t, "ok") /\ Writes(t)
  /\ UNCHANGED <<devices, sources, subscriptions, jobs, images, assignments, locations, used, clock,
                 sync, scan, asked, deliveries>>
  /\ Observe

InsertDevice(t, i) ==
  /\ Writing(t, "create device") /\ i \notin used
  /\ LET new == With(devices, i, OneOf(t, "row"))
     IN  IF DevicesFit(new)
         THEN /\ devices' = new /\ used' = used \cup {i} /\ clock' = clock + 1
              /\ requests' = [requests EXCEPT ![t].step = "read", ![t].id = {i}]
         ELSE Answer(t, "server error") /\ UNCHANGED <<devices, used, clock>>
  /\ Writes(t)
  /\ UNCHANGED <<sources, subscriptions, schedules, jobs, images, assignments, locations, sync,
                 scan, asked, deliveries>>
  /\ Observe

RewriteDevice(t) ==
  /\ Writing(t, "update device")
  /\ LET i   == OneOf(t, "id")
         new == IF i \in DOMAIN devices THEN With(devices, i, OneOf(t, "row")) ELSE devices
         fit == DevicesFit(new)
     IN  devices' = (IF fit THEN new ELSE devices) /\ Refused(t, fit)
  /\ Writes(t)
  /\ UNCHANGED <<sources, subscriptions, schedules, jobs, images, assignments, locations, used,
                 clock, sync, scan, asked, deliveries>>
  /\ Observe

\* The rows of T that meet the condition stay.
Keeping(table, ids) == [i \in ids |-> table[i]]

\* Fault: foreign keys are not enforced on this connection.
SubscriptionsAfter_NoCascade(d) == subscriptions

\* What the deletion of a device leaves of the subscriptions.
SubscriptionsAfter(d) ==
  Keeping(subscriptions, {i \in DOMAIN subscriptions : subscriptions[i].device # d})

RemoveDevice(t) ==
  /\ Writing(t, "delete device")
  /\ LET d == OneOf(t, "id")
     IN  /\ devices' = Without(devices, d)
         /\ subscriptions' = SubscriptionsAfter(d)
         /\ assignments' = {p \in assignments : p[2] # d}
         /\ locations' = {p \in locations : p[2] # d}
  /\ Answer(t, "ok") /\ Writes(t)
  /\ UNCHANGED <<sources, schedules, jobs, images, used, clock, sync, scan, asked, deliveries>>
  /\ Observe

\* Subscriptions and schedules go with their source; images and jobs stay and forget it.
RemoveSource(t) ==
  /\ Writing(t, "delete source")
  /\ LET s == OneOf(t, "id")
     IN  /\ sources' = Without(sources, s)
         /\ subscriptions' =
              Keeping(subscriptions, {i \in DOMAIN subscriptions : subscriptions[i].source # s})
         /\ schedules' =
              Keeping(schedules, {i \in DOMAIN schedules : schedules[i].source # s})
         /\ jobs' = [i \in DOMAIN jobs |-> [jobs[i] EXCEPT !.source = @ \ {s}]]
         /\ images' = [i \in DOMAIN images |-> [images[i] EXCEPT !.source = @ \ {s}]]
  /\ Answer(t, "ok") /\ Writes(t)
  /\ UNCHANGED <<devices, assignments, locations, used, clock, sync, scan, asked, deliveries>>
  /\ Observe

\* The flag the request asked for.
SetFavorite(t, flag) ==
  /\ Writing(t, "favorite image")
  /\ images' = [i \in DOMAIN images |->
                  IF i \in requests[t].id THEN [images[i] EXCEPT !.favorite = flag] ELSE images[i]]
  /\ Go(t, "read") /\ Writes(t)
  /\ UNCHANGED <<devices, sources, subscriptions, schedules, jobs, assignments, locations, used,
                 clock, sync, scan, asked, deliveries>>
  /\ Observe

RemoveImage(t) ==
  /\ Writing(t, "delete image")
  /\ LET i == OneOf(t, "id")
     IN  /\ images' = Without(images, i)
         /\ assignments' = {p \in assignments : p[1] # i}
         /\ locations' = {p \in locations : p[1] # i}
  /\ Answer(t, "ok") /\ Writes(t)
  /\ UNCHANGED <<devices, sources, subscriptions, schedules, jobs, used, clock, sync, scan, asked,
                 deliveries>>
  /\ Observe

\* The row a create or an update answers with.
ReadBack(t) ==
  /\ requests[t].step = "read"
  /\ LET op  == requests[t].op
         ids == CASE op \in {"create subscription", "update subscription"} -> DOMAIN subscriptions
                  [] op \in {"create device", "update device"}             -> DOMAIN devices
                  [] op \in {"create schedule", "update schedule"}         -> DOMAIN schedules
                  [] OTHER                                                 -> DOMAIN images
     IN  CASE ~requests[t].id \subseteq ids                     -> Answer(t, "not found")
           [] op \in {"create schedule", "update schedule"}
              /\ requests[t].id \subseteq ids                   -> Go(t, "warn")
           [] OTHER                                            -> Answer(t, "ok")
  /\ Reads

\* ListSchedulesWithSourceName, and the warnings go with the answer.
Warn(t) ==
  /\ requests[t].step = "warn"
  /\ requests' = [requests EXCEPT ![t] =
                     Answered(@.op, "ok", CheckOverlapWarnings(schedules) # {})]
  /\ Reads

-----------------------------------------------------------------------------
(* The worker. *)

\* GetSubscribedDevices: constraints of the devices are not looked at.
GetSubscribedDevices(s) ==
  {d \in DOMAIN devices :
     /\ devices[d].enabled
     /\ \E i \in DOMAIN subscriptions :
          subscriptions[i].device = d /\ subscriptions[i].source = s /\ subscriptions[i].enabled}

DevicesOf(j) == UNION {GetSubscribedDevices(s) : s \in jobs[j].source}

WorkerWrites == overtaken' = [t \in Threads |-> requests[t] # NoRequest]

\* PrecheckAndStartJob and the reading of the devices.
StartSync(j) ==
  /\ sync.job = {} /\ jobs[j].status = "queued"
  /\ jobs' = [jobs EXCEPT ![j].status = "running"]
  /\ sync' = [NoSync EXCEPT !.job = {j}, !.source = jobs[j].source, !.devices = DevicesOf(j)]
  /\ WorkerWrites
  /\ UNCHANGED <<devices, sources, subscriptions, schedules, images, assignments, locations, used,
                 clock, requests, scan, asked, deliveries>>
  /\ Observe

\* GetOrCreateImage of a new item; a source that is gone fails the foreign key.
\* What becomes of known items is module Materializer's subject.
Yield(s, x, i) ==
  /\ sync.devices # {} /\ sync.left = {} /\ deliveries < MaxDeliveries
  /\ sync.source = {s} /\ s \in DOMAIN sources /\ i \notin used
  /\ images' = With(images, i, [picture |-> x, source |-> {s}, favorite |-> FALSE,
                                created |-> clock])
  /\ used' = used \cup {i} /\ clock' = clock + 1 /\ deliveries' = deliveries + 1
  /\ sync' = [sync EXCEPT !.image = {i}, !.left = sync.devices]
  /\ WorkerWrites
  /\ UNCHANGED <<devices, sources, subscriptions, schedules, jobs, assignments, locations, requests,
                 scan, asked>>
  /\ Observe

\* The image goes to every device read above, its assignment and its location;
\* one that is gone by now fails the foreign keys.
Deliver(i, d) ==
  /\ sync.image = {i} /\ d \in sync.left
  /\ LET new == IF i \in DOMAIN images /\ d \in DOMAIN devices THEN {<<i, d>>} ELSE {}
     IN  assignments' = assignments \cup new /\ locations' = locations \cup new
  /\ sync' = [sync EXCEPT !.left = @ \ {d}]
  /\ WorkerWrites
  /\ UNCHANGED <<devices, sources, subscriptions, schedules, jobs, images, used, clock, requests,
                 scan, asked, deliveries>>
  /\ Observe

\* CompleteJob or FailJob; a job without a device has nothing that could fail.
EndSync(status) ==
  /\ sync.job # {} /\ sync.left = {} /\ (status = "failed" => sync.devices # {})
  /\ jobs' = [j \in DOMAIN jobs |->
                IF j \in sync.job THEN [jobs[j] EXCEPT !.status = status] ELSE jobs[j]]
  /\ sync' = NoSync
  /\ WorkerWrites
  /\ UNCHANGED <<devices, sources, subscriptions, schedules, images, assignments, locations, used,
                 clock, requests, scan, asked, deliveries>>
  /\ Observe

-----------------------------------------------------------------------------
(* The client that reads a listing. *)

Unchanged == UNCHANGED <<tables, used, clock, requests, sync, asked, deliveries, overtaken>>

BeginScan(a, sorts) ==
  /\ scan.at = "idle" /\ asked < MaxRequests /\ asked' = asked + 1
  /\ scan' = [NoScan EXCEPT !.at = "reading", !.listing = a.listing, !.device = a.device,
                            !.filter = a.filter, !.sorts = sorts]
  /\ UNCHANGED <<tables, used, clock, requests, sync, deliveries, overtaken>>
  /\ Observe

Query(next, prev) ==
  [next |-> next, prev |-> prev, offset |-> {}, limit |-> {Limit}, sorts |-> scan.sorts]

\* Only the images of a device need the device.
Readable == scan.device \subseteq DOMAIN devices

\* The next page; the scan is done when there is no cursor to a further one.
ReadPage ==
  /\ scan.at = "reading" /\ Readable
  /\ LET p == PageAt(Query(scan.cursor, {}))
     IN  scan' = [scan EXCEPT !.at = IF p.next = {} THEN "done" ELSE "reading",
                              !.cursor = p.next, !.back = p.prev,
                              !.seen = @ \cup p.items, !.twice = (@ \/ p.items \cap scan.seen # {}),
                              !.before = scan.last, !.last = p.items]
  /\ Unchanged /\ Observe

\* The client goes back one page.
TurnBack ==
  /\ scan.at \in {"reading", "done"} /\ scan.back # {} /\ Readable
  /\ scan' = [scan EXCEPT !.at = "turned", !.turned = PageAt(Query({}, scan.back)).items]
  /\ Unchanged /\ Observe

\* The device is gone: an error.
ScanFails ==
  /\ scan.at = "reading" /\ ~Readable
  /\ scan' = [scan EXCEPT !.at = "failed"]
  /\ Unchanged /\ Observe

-----------------------------------------------------------------------------
Receive(t) ==
  \/ \E s \in Wanted : \/ CreateSubscription(t, s)
                       \/ \E i \in DOMAIN subscriptions : UpdateSubscription(t, i, s)
  \/ \E i \in DOMAIN subscriptions : DeleteSubscription(t, i)
  \/ \E s \in WantedSchedule : \/ CreateSchedule(t, s)
                               \/ \E i \in DOMAIN schedules : UpdateSchedule(t, i, s)
  \/ \E i \in DOMAIN schedules : DeleteSchedule(t, i)
  \/ \E x \in Specs : CreateDevice(t, x) \/ \E i \in DOMAIN devices : UpdateDevice(t, i, x)
  \/ \E i \in DOMAIN devices : DeleteDevice(t, i)
  \/ \E i \in DOMAIN sources : DeleteSource(t, i)
  \/ \E i \in DOMAIN images : SetImageFavorite(t, i) \/ DeleteImage(t, i)

Execute(t) ==
  \/ GetExisting(t) \/ CheckDevice(t) \/ CheckSource(t) \/ CheckDuplicate(t) \/ CheckSlug(t)
  \/ \E i \in Ids \ used : InsertSubscription(t, i) \/ InsertDevice(t, i) \/ InsertSchedule(t, i)
  \/ \E flag \in BOOLEAN : SetFavorite(t, flag)
  \/ RewriteSubscription(t) \/ RemoveSubscription(t) \/ RewriteDevice(t) \/ RemoveDevice(t)
  \/ RewriteSchedule(t) \/ RemoveSchedule(t) \/ Warn(t)
  \/ RemoveSource(t) \/ RemoveImage(t) \/ ReadBack(t)

Sync ==
  \/ \E j \in DOMAIN jobs : StartSync(j)
  \/ \E s \in sync.source, i \in Ids \ used, x \in Pictures : Yield(s, x, i)
  \/ \E i \in sync.image, d \in sync.left : Deliver(i, d)
  \/ \E status \in {"succeeded", "failed"} : EndSync(status)

Scan ==
  \/ \E a \in Asked, sorts \in Sorts : BeginScan(a, sorts)
  \/ ReadPage \/ TurnBack \/ ScanFails

Next == (\E t \in Threads : Receive(t) \/ Execute(t)) \/ Sync \/ Scan

Spec == Init /\ [][Next]_vars

-----------------------------------------------------------------------------
(* Properties. *)

\* Whoever follows the next cursors to the end has seen every row that was in
\* the listing all the time, and no row twice, whatever was inserted, changed or
\* deleted between two pages (the cursors of dbtypes/pagination.go).
ScanComplete ==
  /\ ~scan.twice
  /\ scan.at = "done" => steady \subseteq scan.seen

\* The page before the one at hand, in a listing that has not changed, is the
\* one the client came from.
BackReturns == scan.at = "turned" /\ calm => scan.turned = scan.before

\* What a device was given stays among its images until the image or the device
\* is deleted: no edit, no switched-off device or subscription and no deleted
\* source hides it from a reader without filters who sends a sort
\* (ListDeviceImages); without a sort he may see only the newest (ScanComplete).
DeliveredStaysListed ==
  scan.at = "done" /\ scan.listing = "device images" /\ NoFilter(scan.filter)
    => delivered \subseteq scan.seen

\* The checks of a request on its own leave nothing for the database to refuse,
\* and it finds the row it has just written.  One that another request or the
\* worker has overtaken is excused: it is the foreign keys and unique indexes
\* that stop what its checks no longer cover, and Schema that says they do.
ChecksCover ==
  \A t \in Threads :
    requests[t].step = "answered" /\ ~overtaken[t] =>
      /\ requests[t].answer # "server error"
      /\ requests[t].op \in {"create subscription", "create device", "create schedule"}
           => requests[t].answer # "not found"

\* A request that writes a schedule is told of overlaps exactly when there are any:
\* two schedules of one source that fire less than five minutes apart
\* (CreateSchedule.go:21), though CheckOverlapWarnings compares neighbours only.
OverlapsTold ==
  \A t \in Threads :
    /\ requests[t].op \in {"create schedule", "update schedule"}
    /\ requests[t].answer = "ok" /\ ~overtaken[t]
    => requests[t].warned =
         \E i, j \in DOMAIN schedules :
           /\ i # j /\ schedules[i].source = schedules[j].source
           /\ \E m \in Occurrences[schedules[i].cron], n \in Occurrences[schedules[j].cron] :
                m - n \in (1 - MinDistance)..(MinDistance - 1)

\* An image reaches a device only if it meets the device's constraints; a device
\* no request edits is one whose constraints then are its constraints now.
DeliveredFits ==
  \A p \in assignments : Fits(devices[p[2]], PictureOf(p[1]))
=============================================================================
