------------------------------- MODULE Fetch -------------------------------
\* The iterators of internal/sources: Fetch of the booru and of the reddit source, run
\* by a consumer (the range loop of MaterializeImage) that may stop it, against an
\* upstream that answers page by page, may fail, and gets new posts meanwhile.
\*
\* Posts are numbered in the order they were made: the feed is newest, ..., 2, 1.
EXTENDS Integers, Sequences, FiniteSets, SequencesExt

CONSTANTS
  MaxPosts,        \* bound: posts made by the end of the fetch
  PageLimit,       \* 100 in both sources
  DefaultCount,    \* DefaultLookupCount per source: 100 and 300
  LookupCounts,    \* the lookup counts requested; 0 and less mean the default
  BooruPosts,      \* the kinds of booru post upstream may hold
  RedditPosts,     \* the kinds of reddit post upstream may hold
  BooruParams,     \* the parameters a booru source may have been given
  RedditParams     \* the parameters a reddit source may have been given

ASSUME PageAssumption == PageLimit \in Nat \ {0} /\ MaxPosts \in Nat
ASSUME CountAssumption ==
  /\ DefaultCount \in [{"booru", "reddit"} -> Nat \ {0}]
  /\ LookupCounts \subseteq Int
ASSUME GalleryAssumption == \A post \in RedditPosts : Len(post.media) \in Nat

VARIABLES
  impl, params, lookupCount,       \* the source and the FetchRequest
  kind, newest,                    \* upstream: what each post is, the newest one made
  pc, remaining, pageLimit,        \* locals of Fetch
  cursor, page, out, after,        \* pageOffset or after; posts and items still to go
  cancelled, stopped, errors,      \* ctx; the consumer's answer; errors yielded
  first, checked, looked, got      \* history: newest at the start, posts looked at, identifiers

request == <<impl, params, lookupCount, kind>>
locals == <<pc, remaining, pageLimit, cursor, page, out, after>>
history == <<first, checked, looked, got>>
vars == <<request, newest, locals, cancelled, stopped, errors, history>>

NoCursor == 0
MinOf(a, b) == IF a <= b THEN a ELSE b
MaxOf(a, b) == IF a >= b THEN a ELSE b

-----------------------------------------------------------------------------
\* What a post yields

\* A booru post without an id or without a file yields nothing.
PostToImageMetadata(p, post) ==
  IF post.id /\ post.file
  THEN <<[post |-> p, media |-> 0, adult |-> post.rating \in {"explicit", "questionable"}]>>
  ELSE <<>>

ImageTypes == {"jpg", "png", "webp", "gif"}

\* The MIME type a URL shows, "" for none; a decoded URL is "none" when there is none.
DetectMime(url) == IF url \in ImageTypes THEN url ELSE ""

IsLikelyImagePost(post, url) ==
  /\ ~post.gallery /\ ~post.self /\ ~post.video /\ post.hint # "self"
  /\ post.hint = "image" \/ DetectMime(url) # ""

\* One picture at most: the preview's source if there is one, else the link itself.
ChildToMetadata(p, post, allowNSFW) ==
  LET url == IF post.preview # "none" THEN post.preview ELSE post.url
  IN IF /\ post.over18 => allowNSFW
        /\ IsLikelyImagePost(post, url)
        /\ DetectMime(url) # ""
        /\ post.named
     THEN <<[post |-> p, media |-> 0, adult |-> post.over18]>>
     ELSE <<>>

\* The i-th of a set of places, counted from the front.
Nth(places, i) == CHOOSE m \in places : Cardinality({k \in places : k <= m}) = i

\* Every valid picture of a gallery, in its order; its type is looked for in its URL
\* only when upstream names none.
ChildToAlbumMetadata(p, post, allowNSFW) ==
  LET Mime(media) == IF media.mime = "" THEN DetectMime(media.url) ELSE media.mime
      good == {m \in 1..Len(post.media) :
                 post.media[m].valid /\ Mime(post.media[m]) \in ImageTypes}
  IN IF post.over18 /\ ~allowNSFW THEN <<>>
     ELSE [i \in 1..Cardinality(good) |->
             [post |-> p, media |-> Nth(good, i), adult |-> post.over18]]

Items(p) ==
  CASE impl = "booru" -> PostToImageMetadata(p, kind[p])
    [] impl = "reddit" /\ kind[p].gallery -> ChildToAlbumMetadata(p, kind[p], params.nsfw)
    [] OTHER -> ChildToMetadata(p, kind[p], params.nsfw)

\* The identifier of an item: the type of its source, its post and, for a picture of a
\* gallery, which one it is; a gallery has no picture twice.
BuildUniqueID(item) == <<impl, item.post, item.media>>

-----------------------------------------------------------------------------
\* Parameters and requests

\* A target is its path segments once host and outer slashes are gone; <<>> is a blank.
NormalizeTarget(target) ==
  CASE target = <<>> -> [ok |-> FALSE]
    [] Len(target) >= 2 /\ target[1] \in {"r", "u", "user"} ->
         [ok |-> target[2] # "", user |-> target[1] # "r", name |-> target[2]]
    [] OTHER -> [ok |-> TRUE, user |-> FALSE, name |-> target[1]]

ValidateParams(ps) ==
  /\ NormalizeTarget(ps.target).ok
  /\ ps.search => ~NormalizeTarget(ps.target).user
  /\ ps.sort \in {"", "hot", "new", "top", "rising"}
  /\ ps.range \in {"", "hour", "day", "week", "month", "year", "all"}

\* What a booru is asked for: a page by its number and size, at the default host if none
\* is set, with the filters the parameters name.
BuildBooruURL(limit, pid) ==
  [host |-> IF params.host = "" THEN "gelbooru.com" ELSE params.host,
   tags |-> params.tags, rating |-> params.rating, limit |-> limit, pid |-> pid]

\* What reddit is asked for: a number of posts after a post, of a user or a subreddit,
\* in an order or, when the parameters say so, as the result of a search.
BuildListingURL(limit, from) ==
  LET target == NormalizeTarget(params.target)
  IN [user |-> target.user, name |-> target.name, search |-> params.search,
      sort |-> CASE params.search -> "" [] params.sort = "" -> "hot" [] OTHER -> params.sort,
      range |-> params.range, limit |-> limit, after |-> from]

\* What upstream answers: the posts of that page of the feed, newest first.
BooruPage(url) ==
  LET top == newest - url.pid * url.limit
  IN [k \in 1..MaxOf(0, MinOf(url.limit, top)) |-> top - k + 1]

\* The posts that follow the given one in the feed, newest first.
RedditPage(url) ==
  LET top == IF url.after = NoCursor THEN newest ELSE url.after - 1
  IN [k \in 1..MinOf(url.limit, top) |-> top - k + 1]

\* The after token of a reddit listing: its last post, unless nothing follows it.
RedditAfter(listing) ==
  IF listing # <<>> /\ Last(listing) > 1 THEN Last(listing) ELSE NoCursor

Budget == IF lookupCount <= 0 THEN DefaultCount[impl] ELSE lookupCount

-----------------------------------------------------------------------------
Init ==
  /\ \/ impl = "booru" /\ params \in BooruParams /\ kind \in [1..MaxPosts -> BooruPosts]
     \/ impl = "reddit" /\ params \in RedditParams /\ kind \in [1..MaxPosts -> RedditPosts]
  /\ lookupCount \in LookupCounts
  /\ newest \in 0..MaxPosts
  /\ pc = "start" /\ remaining = 0 /\ pageLimit = 0
  /\ cursor = NoCursor /\ page = <<>> /\ out = <<>> /\ after = NoCursor
  /\ cancelled = FALSE /\ stopped = FALSE /\ errors = 0
  /\ first = newest /\ checked = 0 /\ looked = {} /\ got = <<>>

\* yield of an error, after which the iterator returns; the consumer logs it and goes on.
YieldError ==
  /\ errors' = errors + 1
  /\ pc' = "done"
  /\ UNCHANGED <<request, newest, remaining, pageLimit, cursor, page, out, after,
                 cancelled, stopped, history>>

\* The context is cancelled already, or the parameters of a reddit source are not valid.
RefuseRequest ==
  /\ pc = "start"
  /\ cancelled \/ (impl = "reddit" /\ ~ValidateParams(params))
  /\ YieldError

\* Fault: a page may be asked to be larger than a source gives.
PageSize_Uncapped == Budget

PageSize == MinOf(PageLimit, Budget)

\* The budget, and the size a booru's pages will have.
Begin ==
  /\ pc = "start"
  /\ ~cancelled
  /\ impl = "reddit" => ValidateParams(params)
  /\ pc' = "page"
  /\ remaining' = Budget
  /\ pageLimit' = PageSize
  /\ UNCHANGED <<request, newest, cursor, page, out, after, cancelled, stopped, errors, checked, looked, got>>
  /\ first' = newest

\* Fault: the size of a page shrinks with the budget that is left.
BooruLimit_Shrinks == MinOf(PageLimit, remaining)

\* Every page of a booru fetch has the size of the first: pages are found by their number.
BooruLimit == pageLimit

\* Fault: an empty page makes the fetch start over.
Received_StartsOver(posts, token) ==
  /\ page' = posts
  /\ after' = token
  /\ pc' = IF posts = <<>> THEN "start" ELSE "posts"

\* A page has come; an empty one ends the fetch.
Received(posts, token) ==
  /\ page' = posts
  /\ after' = token
  /\ pc' = IF posts = <<>> THEN "done" ELSE "posts"

FetchBooruPage ==
  /\ pc = "page" /\ impl = "booru" /\ ~cancelled
  /\ Received(BooruPage(BuildBooruURL(BooruLimit, cursor)), NoCursor)
  /\ UNCHANGED <<request, newest, remaining, pageLimit, cursor, out, cancelled, stopped, errors, history>>

FetchRedditPage ==
  /\ pc = "page" /\ impl = "reddit" /\ ~cancelled
  /\ LET listing == RedditPage(BuildListingURL(MinOf(PageLimit, remaining), cursor))
     IN Received(listing, RedditAfter(listing))
  /\ UNCHANGED <<request, newest, remaining, pageLimit, cursor, out, cancelled, stopped, errors, history>>

\* A request fails, or the context is found cancelled before or in it.
PageFails == pc = "page" /\ YieldError

\* Every path but one looks whether the budget is spent once a post is done with.
AfterPost(left) == IF left = 0 THEN "done" ELSE "posts"

\* Fault: posts that yield nothing are not charged to the budget.
Charge_OnlyYields(items) == IF items = <<>> THEN remaining ELSE remaining - 1

\* Every post costs one, whatever it yields.
Charge(items) == remaining - 1

\* What looking at the next post of the page leaves, whichever source it is from.
LookedAt(items, next) ==
  /\ remaining' = Charge(items)
  /\ out' = items
  /\ pc' = next
  /\ page' = Tail(page)
  /\ checked' = checked + 1
  /\ looked' = looked \cup {Head(page)}
  /\ UNCHANGED <<request, newest, pageLimit, cursor, after, cancelled, stopped, errors, first, got>>

\* A booru post that yields nothing is skipped with a continue, past the look at the
\* budget: when it was the last one the budget allows for, the page is read to its end.
LookAtPost ==
  /\ pc = "posts" /\ impl = "booru" /\ page # <<>> /\ ~cancelled
  /\ LET items == Items(Head(page))
     IN LookedAt(items, IF items = <<>> THEN "posts" ELSE "yield")

LookAtChild ==
  /\ pc = "posts" /\ impl = "reddit" /\ page # <<>> /\ ~cancelled
  /\ LET items == Items(Head(page))
     IN LookedAt(items, IF items = <<>> THEN AfterPost(Charge(items)) ELSE "yield")

CancelSeen == pc = "posts" /\ page # <<>> /\ cancelled /\ YieldError

\* yield of an item; the consumer forms its identifier and answers whether it goes on.
YieldItem ==
  /\ pc = "yield"
  /\ got' = Append(got, BuildUniqueID(Head(out)))
  /\ \/ /\ out' = Tail(out)
        /\ pc' = IF Tail(out) # <<>> THEN "yield" ELSE AfterPost(remaining)
        /\ UNCHANGED stopped
     \/ /\ stopped' = TRUE
        /\ out' = <<>>
        /\ pc' = "done"
  /\ UNCHANGED <<request, newest, remaining, pageLimit, cursor, page, after, cancelled, errors,
                 first, checked, looked>>

\* The page has been read; the fetch goes on, if it does, after the given cursor.
PageRead(next, more) ==
  /\ pc = "posts" /\ page = <<>>
  /\ cursor' = next
  /\ pc' = IF more THEN "page" ELSE "done"
  /\ UNCHANGED <<request, newest, remaining, pageLimit, page, out, after, cancelled, stopped,
                 errors, history>>

\* Fault: the number of the next page is counted in posts.
NextPage_InPosts == cursor + pageLimit

\* A booru's pages are numbered.
NextPage == cursor + 1

EndPage == impl = "booru" /\ PageRead(NextPage, remaining > 0)

\* Fault: the fetch ends one post early.
EndListing_Early == impl = "reddit" /\ PageRead(after, after # NoCursor /\ remaining > 1)

\* Reddit hands out a token to go on with, as long as there is something to go on to.
EndListing == impl = "reddit" /\ PageRead(after, after # NoCursor /\ remaining > 0)

\* Somebody posts.
NewPost ==
  /\ newest < MaxPosts /\ pc # "done"
  /\ newest' = newest + 1
  /\ UNCHANGED <<request, locals, cancelled, stopped, errors, history>>

\* The worker's context ends.
Cancel ==
  /\ ~cancelled /\ pc # "done"
  /\ cancelled' = TRUE
  /\ UNCHANGED <<request, newest, locals, stopped, errors, history>>

Iterate ==
  \/ RefuseRequest \/ Begin \/ FetchBooruPage \/ FetchRedditPage \/ PageFails
  \/ LookAtPost \/ LookAtChild \/ CancelSeen \/ YieldItem \/ EndPage \/ EndListing

Next == Iterate \/ NewPost \/ Cancel

Spec == Init /\ [][Next]_vars

\* The consumer returns from every yield, and an HTTP request ends.
FairSpec == Spec /\ WF_vars(Iterate)

-----------------------------------------------------------------------------
\* Types of the request, the locals and the history of booru's and reddit's Fetch.
TypeOK ==
  /\ impl \in {"booru", "reddit"} /\ lookupCount \in LookupCounts
  /\ newest \in 0..MaxPosts /\ first \in 0..newest
  /\ pc \in {"start", "page", "posts", "yield", "done"}
  /\ remaining \in Int /\ pageLimit \in 0..PageLimit
  /\ cursor \in Nat /\ after \in Nat
  /\ page \in Seq(1..MaxPosts) /\ looked \subseteq 1..MaxPosts
  /\ cancelled \in BOOLEAN /\ stopped \in BOOLEAN /\ errors \in 0..1 /\ checked \in Nat

\* Posts that are skipped count (sources.go:20): a fetch looks at its budget of posts and
\* no more, but for the page a booru fetch is on when its last post is skipped.
BudgetKept ==
  pageLimit # 0 =>
    /\ checked + remaining = Budget
    /\ impl = "reddit" => remaining >= 0
    /\ impl = "booru" => remaining > -pageLimit

\* While posts are made, pages shift; no post that was there when the fetch began is
\* jumped over: what has been looked at goes down without a gap.
NoGaps ==
  \A old \in looked, p \in 1..first : old < p => p \in looked

\* No identifier comes twice: from reddit never, from a booru only when posts were made
\* between two of its pages.
NoRepeats ==
  impl = "reddit" \/ newest = first => IsInjective(got)

\* Every picture of a post that was looked at is yielded, once nothing is on its way,
\* and a fetch that was not cut short ends only when its budget or the feed is spent.
NothingLeftOut ==
  /\ pc # "yield" /\ ~stopped =>
       Range(got) = UNION {{BuildUniqueID(i) : i \in Range(Items(p))} : p \in looked}
  /\ pc = "done" /\ ~stopped /\ errors = 0 =>
       remaining <= 0 \/ 1..first \subseteq looked

\* A fetch ends, whatever is posted meanwhile.
FetchEnds == <>(pc = "done")
=============================================================================
