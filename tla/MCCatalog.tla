----------------------------- MODULE MCCatalog -----------------------------
EXTENDS Catalog, TLC

\* A phone that takes upright images without adult content, the same one
\* switched off, a screen that takes what is large enough, and an impossible one.
Phone  == [slug |-> "phone", name |-> 2, enabled |-> TRUE, adult |-> FALSE, width |-> 1, height |-> 2,
           tolerance |-> 10, minWidth |-> 0, maxWidth |-> 0, minHeight |-> 0, maxHeight |-> 4,
           minSize |-> 0, maxSize |-> 9]
Screen == [Phone EXCEPT !.slug = "screen", !.name = 1, !.adult = TRUE, !.width = 2, !.tolerance = 0]
MCSpecs == {Phone, Screen, [Phone EXCEPT !.enabled = FALSE], [Screen EXCEPT !.width = 0]}

Upright == [width |-> 2, height |-> 4, aspect |-> 50, size |-> 3, adult |-> FALSE, words |-> {"sky"}]
Wide    == [Upright EXCEPT !.width = 4, !.height = 2, !.aspect = 200, !.adult = TRUE]
MCPictures == {Upright, Wide}
MCWide     == {Wide}

ImageOf(x, t) == [picture |-> x, source |-> {3}, favorite |-> FALSE, created |-> t]

MCDevices       == 1 :> Phone
MCSources       == 3 :> 2 @@ 6 :> 1
MCSubscriptions == 4 :> [device |-> 1, source |-> 3, enabled |-> TRUE, created |-> 3]
MCImages        == 5 :> ImageOf(Upright, 4) @@ 9 :> ImageOf(Upright, 5)
MCSchedules     == 7 :> [source |-> 3, cron |-> "hourly", created |-> 6]
MCJobs          == 8 :> [source |-> {3}, status |-> "succeeded", created |-> 7]
                   @@ 10 :> [source |-> {3}, status |-> "queued", created |-> 8]

\* One that meets the hourly one late, and a misspelt one.
MCOccurrences == "hourly" :> {0, 60, 120} @@ "often" :> {20, 80, 123}
MCCrons       == {"often", "wrong"}

MCAssignments   == {<<5, 1>>}
MCLocations     == {<<5, 1>>, <<9, 1>>}

None == [field \in {"adult", "favorite", "minWidth", "maxWidth", "minHeight", "maxHeight", "minSize",
                    "maxSize", "sources", "words", "status"} |-> {}]
ScanOf(listing, devs, filter) == [listing |-> listing, device |-> devs, filter |-> filter]
MCAsked == {ScanOf("device images", {1}, None),
            ScanOf("device images", {1}, [None EXCEPT !.adult = {TRUE}, !.favorite = {FALSE},
                                                      !.minWidth = {1}, !.maxHeight = {5}]),
            ScanOf("images", {}, [None EXCEPT !.sources = {3}, !.words = {"sky"}, !.maxSize = {8}]),
            ScanOf("subscriptions", {}, [None EXCEPT !.sources = {3, 6}]),
            ScanOf("jobs", {}, [None EXCEPT !.status = {"succeeded"}]),
            ScanOf("schedules", {}, None),
            ScanOf("devices", {}, None), ScanOf("sources", {}, None)}
MCAskedImages  == {ScanOf("images", {}, None)}
MCSorts        == {{"id"}}
MCDefaultSorts == {{}}

Symmetric == Permutations(Threads)
=============================================================================
