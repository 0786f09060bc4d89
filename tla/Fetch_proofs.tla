---------------------------- MODULE Fetch_proofs ----------------------------
(***************************************************************************)
(* Proofs about module Fetch, for any number of posts, size of pages,      *)
(* lookup counts and kinds of posts: the types, that the budget is kept,   *)
(* that no post is passed over however the feed grows, that every picture  *)
(* of the posts looked at is yielded, and none twice.                      *)
(***************************************************************************)
EXTENDS Fetch, TLAPS, SequenceTheorems, FiniteSetTheorems

-----------------------------------------------------------------------------
(* The invariant *)

\* What holds at each point of the iterator.
Phase ==
  /\ pc = "start" => /\ checked = 0 /\ looked = {} /\ pageLimit = 0
                     /\ page = <<>> /\ cursor = NoCursor
  /\ pc \in {"page", "posts", "yield"} => pageLimit # 0
  /\ pc = "page" => page = <<>>
  /\ pc # "done" => errors = 0
  /\ impl = "reddit" => cursor <= MaxPosts /\ after <= MaxPosts

\* No page begins, and no post of reddit is looked at, with the budget spent; the posts
\* left of a booru page may overdraw it, by less than a page.
Budgeted ==
  /\ pageLimit # 0 => checked + remaining = Budget
  /\ impl = "reddit" /\ pageLimit # 0 => remaining >= 0
  /\ impl = "reddit" /\ pc \in {"page", "posts"} => remaining > 0
  /\ impl = "booru" /\ pc = "page" => remaining > 0
  /\ impl = "booru" /\ pageLimit # 0 => remaining + pageLimit - Len(page) >= 1

OnPage(p) == \E i \in 1..Len(page) : page[i] = p

\* The posts that have been looked at, once those of the page are, reach down to the
\* one after which the next page begins.
Covered ==
  /\ NoGaps
  /\ \A i \in 1..Len(page) : page[i] = page[1] - i + 1
  /\ page # <<>> => \A p \in 1..first : p > page[1] => p \in looked
  /\ impl = "booru" /\ pc = "page" =>
       \A p \in 1..first : p > newest - cursor * pageLimit => p \in looked
  /\ impl = "booru" /\ pc \in {"posts", "yield"} =>
       \A p \in 1..first : p > newest - (cursor + 1) * pageLimit => p \in looked \/ OnPage(p)
  /\ impl = "reddit" /\ pc = "page" /\ cursor # NoCursor =>
       \A p \in 1..first : p >= cursor => p \in looked
  /\ impl = "reddit" /\ pc \in {"posts", "yield"} =>
       \A p \in 1..first : p >= after => p \in looked \/ OnPage(p)

IInv == TypeOK /\ Phase /\ Budgeted /\ Covered

\* The items of the posts there are, and the identifiers of items.
Item == UNION {Range(Items(p)) : p \in 1..MaxPosts}
IdsOf(items) == {BuildUniqueID(i) : i \in Range(items)}

\* The identifiers of all pictures of the posts that have been looked at.
Owed == UNION {IdsOf(Items(p)) : p \in looked}

\* What is not yielded yet is with the iterator, until the consumer stops it.
Handed ==
  /\ kind \in [1..MaxPosts -> IF impl = "booru" THEN BooruPosts ELSE RedditPosts]
  /\ got \in Seq({BuildUniqueID(i) : i \in Item}) /\ out \in Seq(Item)
  /\ pc = "yield" <=> out # <<>>
  /\ pc = "start" => got = <<>>
  /\ stopped => pc = "done"
  /\ Range(got) \cup IdsOf(out) \subseteq Owed
  /\ ~stopped => Range(got) \cup IdsOf(out) = Owed

\* A fetch that ends on its own has seen the end of its budget or of the feed.
Ended ==
  pc = "done" /\ ~stopped /\ errors = 0 => remaining <= 0 \/ 1..first \subseteq looked

\* The pages of a fetch do not move.
Steady == impl = "reddit" \/ newest = first

\* The posts that are still to come are below those that have been looked at.
Below ==
  Steady =>
    /\ page # <<>> => \A p \in looked : p > page[1]
    /\ impl = "booru" /\ pc = "page" => \A p \in looked : p > newest - cursor * pageLimit
    /\ impl = "booru" /\ pc \in {"posts", "yield"} =>
         \A p \in 1..MaxPosts : p \in looked \/ OnPage(p) => p > newest - (cursor + 1) * pageLimit
    /\ impl = "reddit" /\ pc = "page" =>
         (cursor = NoCursor => looked = {}) /\ \A p \in looked : p >= cursor
    /\ impl = "reddit" /\ pc \in {"posts", "yield"} =>
         \A p \in 1..MaxPosts : p \in looked \/ OnPage(p) => p >= after

\* What was yielded and what is about to be are different pictures.
Distinct ==
  Steady =>
    /\ IsInjective(got)
    /\ \A a, b \in 1..Len(out) : BuildUniqueID(out[a]) = BuildUniqueID(out[b]) => a = b
    /\ Range(got) \cap IdsOf(out) = {}

Yielded == Handed /\ Ended /\ Below /\ Distinct

-----------------------------------------------------------------------------
(* Numbers and pages *)

LEMMA TimesFacts ==
  ASSUME NEW c \in Nat, NEW l \in Nat
  PROVE  c * l \in Nat /\ (c + 1) * l = c * l + l
OBVIOUS

LEMMA BudgetPositive ==
  ASSUME TypeOK
  PROVE  Budget \in Nat \ {0} /\ PageSize \in 1..PageLimit
BY PageAssumption, CountAssumption DEF TypeOK, Budget, PageSize, MinOf

\* n posts that go down from the given one.
Down(top, n) == [k \in 1..n |-> top - k + 1]

LEMMA DownFacts ==
  ASSUME NEW top \in Int, top <= MaxPosts, NEW n \in Nat, n <= top \/ n = 0
  PROVE  /\ Down(top, n) \in Seq(1..MaxPosts) /\ Len(Down(top, n)) = n
         /\ \A i \in 1..n : Down(top, n)[i] = top - i + 1
         /\ \A p \in Int : p <= top /\ p > top - n => \E i \in 1..n : Down(top, n)[i] = p
<1>1. Down(top, n) \in Seq(1..MaxPosts)
  <2>1. \A k \in 1..n : top - k + 1 \in 1..MaxPosts  BY PageAssumption
  <2>. QED  BY <2>1 DEF Down
<1>2. Len(Down(top, n)) = n  BY DEF Down
<1>3. \A i \in 1..n : Down(top, n)[i] = top - i + 1  BY DEF Down
<1>4. \A p \in Int : p <= top /\ p > top - n => \E i \in 1..n : Down(top, n)[i] = p
  <2>. SUFFICES ASSUME NEW p \in Int, p <= top, p > top - n
                PROVE  \E i \in 1..n : Down(top, n)[i] = p
    OBVIOUS
  <2>1. top - p + 1 \in 1..n /\ top - (top - p + 1) + 1 = p  OBVIOUS
  <2>. QED  BY <1>3, <2>1
<1>. QED  BY <1>1, <1>2, <1>3, <1>4

\* The page of a booru whose number is the cursor.
LEMMA BooruPageFacts ==
  ASSUME TypeOK, Phase, pc = "page",
         NEW s, s = BooruPage(BuildBooruURL(BooruLimit, cursor)),
         NEW top, top = newest - cursor * pageLimit
  PROVE  /\ top \in Int
         /\ s \in Seq(1..MaxPosts) /\ Len(s) <= pageLimit
         /\ \A i \in 1..Len(s) : s[i] = top - i + 1
         /\ \A p \in Nat \ {0} : p <= top /\ p > top - pageLimit => \E i \in 1..Len(s) : s[i] = p
<1>. DEFINE n == MaxOf(0, MinOf(pageLimit, top))
<1>1. cursor * pageLimit \in Nat  BY TimesFacts, PageAssumption DEF TypeOK
<1>2. top \in Int /\ top <= MaxPosts  BY <1>1, PageAssumption DEF TypeOK
<1>3. pageLimit \in Nat  BY PageAssumption DEF TypeOK
<1>4. n \in Nat /\ (n <= top \/ n = 0) /\ n <= pageLimit
      /\ (n = pageLimit \/ n = top \/ (top <= 0 /\ n = 0))
  BY <1>2, <1>3 DEF MaxOf, MinOf
<1>5. s = Down(top, n)
  BY DEF Down, BooruPage, BuildBooruURL, BooruLimit
<1>. HIDE DEF n
<1>6. /\ s \in Seq(1..MaxPosts) /\ Len(s) = n
      /\ \A i \in 1..n : s[i] = top - i + 1
      /\ \A p \in Int : p <= top /\ p > top - n => \E i \in 1..n : s[i] = p
  <2>1. /\ Down(top, n) \in Seq(1..MaxPosts) /\ Len(Down(top, n)) = n
        /\ \A i \in 1..n : Down(top, n)[i] = top - i + 1
        /\ \A p \in Int : p <= top /\ p > top - n => \E i \in 1..n : Down(top, n)[i] = p
    BY <1>2, <1>4, DownFacts
  <2>. QED  BY <1>5, <2>1
<1>7. \A p \in Nat \ {0} : p <= top /\ p > top - pageLimit => p > top - n
  BY <1>2, <1>3, <1>4
<1>. QED  BY <1>2, <1>4, <1>6, <1>7

\* The page of reddit after the post the cursor names, and the token it comes with.
LEMMA RedditPageFacts ==
  ASSUME TypeOK, Phase, Budgeted, pc = "page", impl = "reddit",
         NEW s, s = RedditPage(BuildListingURL(MinOf(PageLimit, remaining), cursor)),
         NEW top, top = IF cursor = NoCursor THEN newest ELSE cursor - 1
  PROVE  /\ top \in Nat
         /\ s \in Seq(1..MaxPosts)
         /\ \A i \in 1..Len(s) : s[i] = top - i + 1
         /\ RedditAfter(s) \in 0..MaxPosts
         /\ s # <<>> => \A p \in Nat :
              p > 0 /\ p <= top /\ p >= RedditAfter(s) => \E i \in 1..Len(s) : s[i] = p
         /\ \A i \in 1..Len(s) : s[i] >= RedditAfter(s)
         /\ Len(s) = 0 => top = 0
<1>. DEFINE n == MinOf(MinOf(PageLimit, remaining), top)
<1>1. top \in Nat /\ top <= MaxPosts  BY PageAssumption DEF TypeOK, Phase, NoCursor
<1>2. n \in Nat /\ n <= top
  BY <1>1, PageAssumption DEF TypeOK, Budgeted, MinOf
<1>3. s = Down(top, n)
  BY DEF Down, RedditPage, BuildListingURL
<1>. HIDE DEF n
<1>4. /\ s \in Seq(1..MaxPosts) /\ Len(s) = n
      /\ \A i \in 1..n : s[i] = top - i + 1
      /\ \A p \in Int : p <= top /\ p > top - n => \E i \in 1..n : s[i] = p
  <2>1. /\ Down(top, n) \in Seq(1..MaxPosts) /\ Len(Down(top, n)) = n
        /\ \A i \in 1..n : Down(top, n)[i] = top - i + 1
        /\ \A p \in Int : p <= top /\ p > top - n => \E i \in 1..n : Down(top, n)[i] = p
    <3>1. top \in Int /\ (n <= top \/ n = 0)  BY <1>1, <1>2
    <3>. QED  BY <1>1, <1>2, <3>1, DownFacts
  <2>. QED  BY <1>3, <2>1
<1>5. s # <<>> => Last(s) \in 1..MaxPosts /\ Last(s) = top - n + 1
  <2>. SUFFICES ASSUME s # <<>>
                PROVE  Last(s) \in 1..MaxPosts /\ Last(s) = top - n + 1
    OBVIOUS
  <2>1. n \in 1..n  BY <1>2, <1>4
  <2>2. Last(s) = s[n]  BY <1>4 DEF Last
  <2>3. s[n] = top - n + 1  BY <1>4, <2>1
  <2>. QED  BY <1>1, <1>2, <2>1, <2>2, <2>3, PageAssumption
<1>6. RedditAfter(s) \in 0..MaxPosts
  BY <1>5, PageAssumption DEF RedditAfter, NoCursor
<1>7. s # <<>> => RedditAfter(s) <= top - n + 1
                  /\ \A p \in Nat : p > 0 /\ p >= RedditAfter(s) => p >= top - n + 1
  BY <1>1, <1>2, <1>5 DEF RedditAfter, NoCursor
<1>8. \A i \in 1..Len(s) : s[i] >= RedditAfter(s)
  <2>. SUFFICES ASSUME NEW i \in 1..Len(s)  PROVE s[i] >= RedditAfter(s)
    OBVIOUS
  <2>1. s # <<>> /\ i \in 1..n /\ s[i] = top - i + 1  BY <1>4
  <2>. QED  BY <1>1, <1>2, <1>6, <1>7, <2>1
<1>9. Len(s) = 0 => top = 0
  <2>1. Len(s) = 0 => n = 0  BY <1>4
  <2>2. n = 0 => top = 0
    BY <1>1, PageAssumption DEF n, TypeOK, Budgeted, MinOf
  <2>. QED  BY <2>1, <2>2
<1>10. s # <<>> => \A p \in Nat :
          p > 0 /\ p <= top /\ p >= RedditAfter(s) => \E i \in 1..Len(s) : s[i] = p
  <2>. SUFFICES ASSUME s # <<>>, NEW p \in Nat, p > 0, p <= top, p >= RedditAfter(s)
                PROVE  \E i \in 1..Len(s) : s[i] = p
    OBVIOUS
  <2>1. p >= top - n + 1  BY <1>7
  <2>2. p \in Int /\ p > top - n  BY <1>1, <1>2, <2>1
  <2>. QED  BY <1>4, <2>2
<1>. QED  BY <1>1, <1>4, <1>6, <1>8, <1>9, <1>10
-----------------------------------------------------------------------------
(* What the actions do *)

\* The post at the head of a page, and what is left of the page.
LEMMA HeadFacts ==
  ASSUME TypeOK, page # <<>>
  PROVE  /\ Len(page) \in Nat \ {0} /\ Head(page) = page[1] /\ Head(page) \in 1..MaxPosts
         /\ \A i \in 1..Len(page) : page[i] \in 1..MaxPosts
         /\ Tail(page) \in Seq(1..MaxPosts) /\ Len(Tail(page)) = Len(page) - 1
         /\ \A i \in 1..Len(page) - 1 : Tail(page)[i] = page[i + 1]
<1>1. page \in Seq(1..MaxPosts)  BY DEF TypeOK
<1>2. Len(page) \in Nat \ {0} /\ \A i \in 1..Len(page) : page[i] \in 1..MaxPosts
  BY <1>1, LenProperties, EmptySeq
<1>3. Head(page) = page[1] /\ Head(page) \in 1..MaxPosts  BY <1>1, <1>2
<1>. QED  BY <1>1, <1>2, <1>3, HeadTailProperties

\* Whichever source is fetched from, a page that comes is a page of posts.
LEMMA PageComes ==
  ASSUME IInv, FetchBooruPage \/ FetchRedditPage
  PROVE  page' \in Seq(1..MaxPosts) /\ after' \in 0..MaxPosts
<1>1. CASE FetchBooruPage
  BY <1>1, BooruPageFacts, PageAssumption DEF IInv, FetchBooruPage, Received, NoCursor
<1>2. CASE FetchRedditPage
  BY <1>2, RedditPageFacts DEF IInv, FetchRedditPage, Received
<1>. QED  BY <1>1, <1>2

\* The look at a post, in terms of the page.
LEMMA LookFacts ==
  ASSUME TypeOK, LookAtPost \/ LookAtChild
  PROVE  /\ pc = "posts" /\ page # <<>>
         /\ page' = Tail(page) /\ looked' = looked \cup {Head(page)}
         /\ checked' = checked + 1 /\ remaining' = remaining - 1
         /\ UNCHANGED <<request, newest, pageLimit, cursor, after, cancelled, stopped, errors,
                        first, got>>
         /\ impl = "booru" => pc' \in {"posts", "yield"}
         /\ impl = "reddit" => /\ pc' \in {"posts", "yield", "done"}
                               /\ pc' = "posts" => remaining' # 0
BY DEF LookAtPost, LookAtChild, LookedAt, Charge, AfterPost

-----------------------------------------------------------------------------
(* Types and phases *)

LEMMA TypeStep ==
  ASSUME IInv, [Next]_vars
  PROVE  TypeOK' /\ Phase'
<1>. USE PageAssumption DEF NoCursor
<1>. USE DEF IInv
<1>1. CASE RefuseRequest \/ PageFails \/ CancelSeen
  <2>1. pc # "done" /\ YieldError  BY <1>1 DEF RefuseRequest, PageFails, CancelSeen
  <2>. QED  BY <2>1 DEF YieldError, TypeOK, Phase, request, history
<1>2. CASE Begin
  <2>1. Budget \in Nat \ {0} /\ PageSize \in 1..PageLimit  BY BudgetPositive
  <2>. QED  BY <1>2, <2>1 DEF Begin, TypeOK, Phase, request
<1>3. CASE FetchBooruPage \/ FetchRedditPage
  <2>1. page' \in Seq(1..MaxPosts) /\ after' \in 0..MaxPosts  BY <1>3, PageComes
  <2>2. /\ pc = "page" /\ pc' = IF page' = <<>> THEN "done" ELSE "posts"
        /\ UNCHANGED <<request, newest, remaining, pageLimit, cursor, out, cancelled, stopped,
                       errors, history>>
    BY <1>3 DEF FetchBooruPage, FetchRedditPage, Received
  <2>. QED  BY <2>1, <2>2 DEF TypeOK, Phase, request, history
<1>4. CASE LookAtPost \/ LookAtChild
  <2>1. page # <<>>  BY <1>4, LookFacts
  <2>2. pc' \in {"posts", "yield", "done"}  BY <1>4, LookFacts DEF TypeOK
  <2>3. page' \in Seq(1..MaxPosts) /\ looked' \subseteq 1..MaxPosts
    BY <1>4, <2>1, LookFacts, HeadFacts DEF TypeOK
  <2>4. /\ pc = "posts" /\ checked' = checked + 1 /\ remaining' = remaining - 1
        /\ UNCHANGED <<request, newest, pageLimit, cursor, after, cancelled, stopped, errors,
                       first, got>>
    BY <1>4, LookFacts DEF TypeOK
  <2>. QED  BY <2>2, <2>3, <2>4 DEF TypeOK, Phase, request
<1>5. CASE YieldItem
  BY <1>5 DEF YieldItem, AfterPost, TypeOK, Phase, request
<1>6. CASE EndPage \/ EndListing
  <2>1. /\ pc = "posts" /\ page = <<>> /\ pc' \in {"page", "done"}
        /\ cursor' \in Nat /\ (impl = "reddit" => cursor' = after)
        /\ UNCHANGED <<request, newest, remaining, pageLimit, page, out, after, cancelled,
                       stopped, errors, history>>
    BY <1>6 DEF EndPage, EndListing, PageRead, NextPage, TypeOK
  <2>. QED  BY <2>1 DEF TypeOK, Phase, request, history
<1>7. CASE NewPost
  BY <1>7 DEF NewPost, TypeOK, Phase, request, locals, history
<1>8. CASE Cancel
  BY <1>8 DEF Cancel, TypeOK, Phase, request, locals, history
<1>9. CASE UNCHANGED vars
  BY <1>9 DEF vars, TypeOK, Phase, request, locals, history
<1>. QED  BY <1>1, <1>2, <1>3, <1>4, <1>5, <1>6, <1>7, <1>8, <1>9 DEF Next, Iterate

-----------------------------------------------------------------------------
(* The budget *)

LEMMA BudgetStep ==
  ASSUME IInv, [Next]_vars
  PROVE  Budgeted'
<1>. USE PageAssumption
<1>. USE DEF IInv
<1>0. /\ remaining \in Int /\ checked \in Nat /\ pageLimit \in Nat /\ Len(page) \in Nat
      /\ Budget \in Nat \ {0}
  BY BudgetPositive, LenProperties DEF TypeOK
<1>1. CASE RefuseRequest \/ PageFails \/ CancelSeen
  <2>1. pc # "done" /\ YieldError  BY <1>1 DEF RefuseRequest, PageFails, CancelSeen
  <2>. QED  BY <2>1 DEF YieldError, Budgeted, Budget, request, history
<1>2. CASE Begin
  <2>1. PageSize \in 1..PageLimit  BY BudgetPositive
  <2>2. /\ checked' = 0 /\ remaining' = Budget /\ pageLimit' = PageSize /\ page' = <<>>
        /\ Budget' = Budget
    BY <1>2 DEF Begin, Phase, request, Budget
  <2>3. Len(page') = 0  BY <2>2
  <2>. QED  BY <1>0, <2>1, <2>2, <2>3 DEF Budgeted
<1>3. CASE FetchBooruPage
  <2>1. /\ pc = "page" /\ impl = "booru" /\ page' = BooruPage(BuildBooruURL(BooruLimit, cursor))
        /\ UNCHANGED <<impl, lookupCount, remaining, pageLimit, checked>> /\ Budget' = Budget
        /\ pc' # "page"
    BY <1>3 DEF FetchBooruPage, Received, request, history, Budget
  <2>2. Len(page') <= pageLimit /\ page' \in Seq(1..MaxPosts)  BY <2>1, BooruPageFacts
  <2>3. Len(page') \in Nat  BY <2>2
  <2>. QED  BY <1>0, <2>1, <2>2, <2>3 DEF Budgeted
<1>4. CASE FetchRedditPage
  BY <1>4 DEF FetchRedditPage, Received, Budgeted, Budget, request, history
<1>5. CASE LookAtPost \/ LookAtChild
  <2>1. /\ pc = "posts" /\ page # <<>> /\ page' = Tail(page) /\ checked' = checked + 1
        /\ remaining' = remaining - 1
        /\ UNCHANGED <<impl, lookupCount, pageLimit>> /\ Budget' = Budget /\ pc' # "page"
        /\ impl = "reddit" /\ pc' = "posts" => remaining' # 0
    BY <1>5, LookFacts DEF request, Budget, TypeOK
  <2>2. Len(page') = Len(page) - 1  BY <2>1, HeadFacts
  <2>3. impl = "reddit" => remaining > 0  BY <2>1 DEF Budgeted
  <2>. QED  BY <1>0, <2>1, <2>2, <2>3 DEF Budgeted
<1>6. CASE YieldItem
  <2>1. /\ pc = "yield" /\ pc' # "page" /\ (pc' = "posts" => remaining # 0)
        /\ UNCHANGED <<impl, lookupCount, remaining, pageLimit, page, checked>> /\ Budget' = Budget
    BY <1>6 DEF YieldItem, AfterPost, request, Budget
  <2>2. pageLimit # 0  BY <2>1 DEF Phase
  <2>. QED  BY <1>0, <2>1, <2>2 DEF Budgeted
<1>7. CASE EndPage \/ EndListing
  <2>1. /\ pc' # "posts" /\ (pc' = "page" => remaining > 0)
        /\ UNCHANGED <<impl, lookupCount, remaining, pageLimit, page, checked>> /\ Budget' = Budget
    BY <1>7 DEF EndPage, EndListing, PageRead, request, history, Budget
  <2>. QED  BY <1>0, <2>1 DEF Budgeted
<1>8. CASE NewPost
  BY <1>8 DEF NewPost, Budgeted, Budget, request, locals, history
<1>9. CASE Cancel
  BY <1>9 DEF Cancel, Budgeted, Budget, request, locals, history
<1>10. CASE UNCHANGED vars
  BY <1>10 DEF vars, Budgeted, Budget, request, locals, history
<1>. QED  BY <1>1, <1>2, <1>3, <1>4, <1>5, <1>6, <1>7, <1>8, <1>9, <1>10 DEF Next, Iterate

-----------------------------------------------------------------------------
(* No gaps *)

\* Posts are looked at, and pages are left alone, only where the actions say so.
LEMMA CoveredKept ==
  ASSUME Covered, Phase, TypeOK,
         UNCHANGED <<impl, pageLimit, cursor, page, after, first, looked>>,
         newest' \in Int, newest' >= newest,
         pc' \in {pc, "done"} \/ (pc = "yield" /\ pc' = "posts")
  PROVE  Covered'
<1>0. /\ newest \in Int /\ first \in Nat /\ cursor * pageLimit \in Nat
      /\ (cursor + 1) * pageLimit \in Nat
  BY TimesFacts, PageAssumption DEF TypeOK
<1>1. NoGaps' /\ \A p : OnPage(p)' <=> OnPage(p)  BY DEF Covered, NoGaps, OnPage
<1>2. impl = "booru" /\ pc' = "page" =>
        \A p \in 1..first : p > newest' - cursor * pageLimit => p \in looked
  BY <1>0 DEF Covered
<1>3. impl = "booru" /\ pc' \in {"posts", "yield"} =>
        \A p \in 1..first : p > newest' - (cursor + 1) * pageLimit => p \in looked \/ OnPage(p)
  BY <1>0 DEF Covered
<1>. QED  BY <1>1, <1>2, <1>3 DEF Covered, OnPage

\* A page has come: it begins right below what has been looked at.
LEMMA CoveredByPage ==
  ASSUME IInv, FetchBooruPage \/ FetchRedditPage
  PROVE  Covered'
<1>. USE DEF IInv
<1>0. /\ pc = "page" /\ page = <<>> /\ pc' # "page"
      /\ UNCHANGED <<impl, newest, pageLimit, cursor, first, looked>>
      /\ first \in Nat /\ newest \in Int /\ first <= newest /\ cursor \in Nat /\ pageLimit \in Nat
  BY PageAssumption
  DEF FetchBooruPage, FetchRedditPage, Received, request, history, Phase, TypeOK
<1>1. NoGaps'  BY <1>0 DEF Covered, NoGaps
<1>2. CASE FetchBooruPage
  <2>. DEFINE top == newest - cursor * pageLimit
  <2>1. impl = "booru" /\ page' = BooruPage(BuildBooruURL(BooruLimit, cursor))
    BY <1>2 DEF FetchBooruPage, Received
  <2>2. /\ top \in Int
        /\ page' \in Seq(1..MaxPosts)
        /\ \A i \in 1..Len(page') : page'[i] = top - i + 1
        /\ \A p \in Nat \ {0} : p <= top /\ p > top - pageLimit
                                => \E i \in 1..Len(page') : page'[i] = p
    <3>1. TypeOK /\ Phase /\ pc = "page" /\ top = newest - cursor * pageLimit  BY <1>0
    <3>. HIDE DEF IInv, top
    <3>. QED  BY <2>1, <3>1, BooruPageFacts
  <2>3. page' # <<>> => page'[1] = top  BY <2>2
  <2>4. \A p \in 1..first : p > top => p \in looked
    BY <1>0, <2>1 DEF Covered
  <2>5. newest - (cursor + 1) * pageLimit = top - pageLimit
    BY <1>0, TimesFacts
  <2>. HIDE DEF top
  <2>6. \A p \in 1..first :
          p > top - pageLimit => p \in looked \/ \E i \in 1..Len(page') : page'[i] = p
    BY <1>0, <2>2, <2>4
  <2>7. \A i \in 1..Len(page') : page'[i] = page'[1] - i + 1
    BY <2>2, <2>3
  <2>8. \A p \in 1..first : p > newest' - (cursor' + 1) * pageLimit' => p \in looked' \/ OnPage(p)'
    BY <1>0, <2>5, <2>6 DEF OnPage
  <2>9. page' # <<>> => \A p \in 1..first' : p > page'[1] => p \in looked'
    BY <1>0, <2>3, <2>4
  <2>. QED  BY <1>0, <1>1, <2>1, <2>7, <2>8, <2>9 DEF Covered
<1>3. CASE FetchRedditPage
  <2>. DEFINE top == IF cursor = NoCursor THEN newest ELSE cursor - 1
  <2>1. /\ impl = "reddit"
        /\ page' = RedditPage(BuildListingURL(MinOf(PageLimit, remaining), cursor))
        /\ after' = RedditAfter(page')
    BY <1>3 DEF FetchRedditPage, Received
  <2>2. /\ top \in Nat
        /\ page' \in Seq(1..MaxPosts)
        /\ \A i \in 1..Len(page') : page'[i] = top - i + 1
        /\ after' \in Nat
        /\ page' # <<>> => \A p \in Nat :
              p > 0 /\ p <= top /\ p >= after' => \E i \in 1..Len(page') : page'[i] = p
    <3>1. /\ top \in Nat
          /\ page' \in Seq(1..MaxPosts)
          /\ \A i \in 1..Len(page') : page'[i] = top - i + 1
          /\ RedditAfter(page') \in 0..MaxPosts
          /\ page' # <<>> => \A p \in Nat :
                p > 0 /\ p <= top /\ p >= RedditAfter(page') => \E i \in 1..Len(page') : page'[i] = p
      <4>1. top = IF cursor = NoCursor THEN newest ELSE cursor - 1  OBVIOUS
      <4>. HIDE DEF top
      <4>2. top \in Nat /\ page' \in Seq(1..MaxPosts)
        BY <1>0, <2>1, <4>1, RedditPageFacts
      <4>3. \A i \in 1..Len(page') : page'[i] = top - i + 1
        BY <1>0, <2>1, <4>1, RedditPageFacts
      <4>4. RedditAfter(page') \in 0..MaxPosts
        BY <1>0, <2>1, <4>1, RedditPageFacts
      <4>5. page' # <<>> => \A p \in Nat :
                p > 0 /\ p <= top /\ p >= RedditAfter(page') => \E i \in 1..Len(page') : page'[i] = p
        BY <1>0, <2>1, <4>1, RedditPageFacts
      <4>. QED  BY <4>2, <4>3, <4>4, <4>5
    <3>2. after' \in Nat  BY <2>1, <3>1
    <3>. QED  BY <2>1, <3>1, <3>2
  <2>3. page' # <<>> => page'[1] = top
    <3>1. page' \in Seq(1..MaxPosts) /\ top \in Nat  BY <2>2
    <3>2. page' # <<>> => 1 \in 1..Len(page')  BY <3>1
    <3>3. page' # <<>> => page'[1] = top - 1 + 1  BY <2>2, <3>2
    <3>. QED  BY <3>1, <3>3
  <2>4. \A p \in 1..first : p > top => p \in looked
    BY <1>0, <2>1 DEF Covered, NoCursor
  <2>. HIDE DEF top
  <2>5. page' # <<>> =>
          \A p \in 1..first : p >= after' => p \in looked \/ \E i \in 1..Len(page') : page'[i] = p
    BY <1>0, <2>2, <2>4
  <2>6. \A i \in 1..Len(page') : page'[i] = page'[1] - i + 1
    BY <2>2, <2>3
  <2>7. page' # <<>> => \A p \in 1..first' : p >= after' => p \in looked' \/ OnPage(p)'
    BY <1>0, <2>5 DEF OnPage
  <2>8. page' # <<>> => \A p \in 1..first' : p > page'[1] => p \in looked'
    BY <1>0, <2>3, <2>4
  <2>9. pc' = IF page' = <<>> THEN "done" ELSE "posts"
    BY <1>3 DEF FetchRedditPage, Received
  <2>. QED  BY <1>0, <1>1, <2>1, <2>6, <2>7, <2>8, <2>9 DEF Covered
<1>. QED  BY <1>2, <1>3

\* A post moves from the page to those that have been looked at.
LEMMA CoveredByLook ==
  ASSUME IInv, LookAtPost \/ LookAtChild
  PROVE  Covered'
<1>. USE DEF IInv
<1>. DEFINE h == page[1]
            n == Len(page)
<1>0. /\ pc = "posts" /\ page # <<>> /\ page' = Tail(page) /\ pc' # "page"
      /\ UNCHANGED <<impl, newest, pageLimit, cursor, after, first>>
  BY LookFacts DEF request, TypeOK
<1>1. /\ n \in Nat \ {0} /\ h \in 1..MaxPosts
      /\ Len(page') = n - 1
      /\ \A i \in 1..n : page[i] = h - i + 1
      /\ \A i \in 1..n - 1 : page'[i] = page[i + 1]
      /\ looked' = looked \cup {h}
  BY <1>0, LookFacts, HeadFacts DEF Covered
<1>2. \A i \in 1..Len(page') : page'[i] = h - i  BY <1>1
<1>3. page' # <<>> => page'[1] = h - 1
  <2>1. page' \in Seq(1..MaxPosts)  BY <1>0, HeadFacts
  <2>2. page' # <<>> => 1 \in 1..Len(page')  BY <2>1
  <2>. QED  BY <1>1, <1>2, <2>2
<1>4. \A p \in 1..first : p > h => p \in looked  BY <1>0 DEF Covered
<1>5. \A p : OnPage(p) => p \in looked' \/ OnPage(p)'
  <2>. SUFFICES ASSUME NEW p, OnPage(p)
                PROVE  p \in looked' \/ OnPage(p)'
    OBVIOUS
  <2>. PICK i \in 1..n : page[i] = p  BY DEF OnPage
  <2>1. CASE i = 1  BY <1>1, <2>1
  <2>2. CASE i # 1
    <3>1. i - 1 \in 1..n - 1 /\ page'[i - 1] = page[(i - 1) + 1]  BY <1>1, <2>2
    <3>2. (i - 1) + 1 = i  OBVIOUS
    <3>. QED  BY <1>1, <3>1, <3>2 DEF OnPage
  <2>. QED  BY <2>1, <2>2
<1>. HIDE DEF h, n
<1>6. NoGaps'
  <2>. SUFFICES ASSUME NEW old \in looked', NEW p \in 1..first, old < p
                PROVE  p \in looked'
    BY <1>0 DEF NoGaps
  <2>1. CASE old \in looked  BY <1>1, <2>1 DEF Covered, NoGaps
  <2>2. CASE old = h  BY <1>1, <1>4, <2>2
  <2>. QED  BY <1>1, <2>1, <2>2
<1>7. \A i \in 1..Len(page') : page'[i] = page'[1] - i + 1
  <2>1. \A i \in 1..Len(page') : 1 \in 1..Len(page')  BY <1>1
  <2>. QED  BY <1>1, <1>2, <2>1
<1>8. page' # <<>> => \A p \in 1..first' : p > page'[1] => p \in looked'
  BY <1>0, <1>1, <1>3, <1>4 DEF TypeOK
<1>9. /\ impl = "booru" =>
           \A p \in 1..first : p > newest - (cursor + 1) * pageLimit => p \in looked' \/ OnPage(p)'
      /\ impl = "reddit" =>
           \A p \in 1..first : p >= after => p \in looked' \/ OnPage(p)'
  BY <1>0, <1>1, <1>5 DEF Covered
<1>. QED  BY <1>0, <1>6, <1>7, <1>8, <1>9 DEF Covered

LEMMA CoveredStep ==
  ASSUME IInv, [Next]_vars
  PROVE  Covered'
<1>. USE PageAssumption
<1>. USE DEF IInv
<1>1. CASE RefuseRequest \/ PageFails \/ CancelSeen
  <2>1. YieldError  BY <1>1 DEF RefuseRequest, PageFails, CancelSeen
  <2>. QED  BY <2>1, CoveredKept DEF YieldError, TypeOK, request, history
<1>2. CASE Begin
  <2>1. /\ page' = <<>> /\ looked' = {} /\ pc' = "page" /\ cursor' = NoCursor
        /\ newest' = newest /\ first' = newest /\ newest \in Nat /\ pageLimit' \in Nat
    BY <1>2, BudgetPositive DEF Begin, Phase, TypeOK, request
  <2>2. newest' - cursor' * pageLimit' = newest
    <3>1. \A l \in Nat : 0 * l = 0  OBVIOUS
    <3>2. cursor' * pageLimit' = 0  BY <2>1, <3>1 DEF NoCursor
    <3>. QED  BY <2>1, <3>2
  <2>3. Len(page') = 0  BY <2>1
  <2>. QED  BY <2>1, <2>2, <2>3 DEF Covered, NoGaps
<1>3. CASE FetchBooruPage \/ FetchRedditPage
  BY <1>3, CoveredByPage
<1>4. CASE LookAtPost \/ LookAtChild
  BY <1>4, CoveredByLook
<1>5. CASE YieldItem
  BY <1>5, CoveredKept DEF YieldItem, AfterPost, TypeOK, request
<1>6. CASE EndPage \/ EndListing
  <2>1. /\ pc = "posts" /\ page = <<>> /\ pc' \in {"page", "done"}
        /\ UNCHANGED <<impl, newest, pageLimit, page, after, first, looked>>
        /\ impl = "booru" => cursor' = cursor + 1
        /\ impl = "reddit" => cursor' = after
    BY <1>6 DEF EndPage, EndListing, PageRead, NextPage, request, history
  <2>2. \A p : ~OnPage(p)  BY <2>1 DEF OnPage
  <2>3. NoGaps'  BY <2>1 DEF Covered, NoGaps
  <2>4. impl = "booru" =>
          \A p \in 1..first : p > newest - cursor' * pageLimit => p \in looked
    BY <2>1, <2>2 DEF Covered
  <2>5. impl = "reddit" /\ cursor' # NoCursor => \A p \in 1..first : p >= cursor' => p \in looked
    BY <2>1, <2>2 DEF Covered
  <2>. QED  BY <2>1, <2>3, <2>4, <2>5 DEF Covered
<1>7. CASE NewPost
  BY <1>7, CoveredKept DEF NewPost, TypeOK, request, locals, history
<1>8. CASE Cancel
  BY <1>8, CoveredKept DEF Cancel, TypeOK, request, locals, history
<1>9. CASE UNCHANGED vars
  BY <1>9, CoveredKept DEF vars, TypeOK, request, locals, history
<1>. QED  BY <1>1, <1>2, <1>3, <1>4, <1>5, <1>6, <1>7, <1>8, <1>9 DEF Next, Iterate

-----------------------------------------------------------------------------
(* What a post yields *)

\* A set of places has a first, a second, ... up to as many as it has.
LEMMA NthFacts ==
  ASSUME NEW S \in SUBSET Nat, IsFiniteSet(S)
  PROVE  /\ Cardinality(S) \in Nat
         /\ \A i \in 1..Cardinality(S) :
              Nth(S, i) \in S /\ Cardinality({k \in S : k <= Nth(S, i)}) = i
<1>. DEFINE c == Cardinality(S)
            Upto(m) == {k \in S : k <= m}
            rank == [m \in S |-> Cardinality(Upto(m))]
<1>1. c \in Nat  BY FS_CardinalityType
<1>2. ASSUME NEW m \in S
      PROVE  IsFiniteSet(Upto(m)) /\ Cardinality(Upto(m)) \in 1..c
  <2>1. Upto(m) \in SUBSET S /\ Upto(m) # {}  OBVIOUS
  <2>2. IsFiniteSet(Upto(m)) /\ Cardinality(Upto(m)) <= c  BY <2>1, FS_Subset
  <2>3. Cardinality(Upto(m)) \in Nat /\ Cardinality(Upto(m)) # 0
    BY <2>1, <2>2, FS_CardinalityType, FS_EmptySet
  <2>. QED  BY <1>1, <2>2, <2>3
<1>3. ASSUME NEW m \in S, NEW n \in S, m < n
      PROVE  Cardinality(Upto(m)) # Cardinality(Upto(n))
  <2>1. m \in Nat /\ n \in Nat /\ \A k \in S : k \in Nat  OBVIOUS
  <2>2. \A k \in S : k <= m => k <= n  BY <1>3, <2>1
  <2>3. n \in Upto(n) /\ n \notin Upto(m)  BY <1>3, <2>1
  <2>4. Upto(m) \in SUBSET Upto(n)  BY <2>2
  <2>. HIDE DEF Upto
  <2>. QED  BY <1>2, <2>3, <2>4, FS_Subset
<1>4. rank \in [S -> 1..c]  BY <1>2
<1>5. \A m, n \in S : rank[m] = rank[n] => m = n
  <2>. SUFFICES ASSUME NEW m \in S, NEW n \in S, m # n  PROVE rank[m] # rank[n]
    OBVIOUS
  <2>1. m < n \/ n < m  OBVIOUS
  <2>. HIDE DEF Upto
  <2>. QED  BY <1>3, <2>1
<1>6. rank \in Injection(S, 1..c)
  <2>. HIDE DEF rank
  <2>. QED  BY <1>4, <1>5 DEF Injection, IsInjective
<1>7. IsFiniteSet(1..c) /\ Cardinality(1..c) = c  BY <1>1, FS_Interval
<1>8. rank \in Surjection(S, 1..c)
  <2>. HIDE DEF rank, c
  <2>1. Cardinality(S) = Cardinality(1..c)  BY <1>7 DEF c
  <2>. QED  BY <1>6, <1>7, <2>1, FS_Injection
<1>9. ASSUME NEW i \in 1..c  PROVE \E m \in S : Cardinality(Upto(m)) = i
  <2>1. \E m \in S : rank[m] = i
    <3>. HIDE DEF rank
    <3>. QED  BY <1>8 DEF Surjection
  <2>. QED  BY <2>1
<1>10. ASSUME NEW i \in 1..c  PROVE Nth(S, i) \in S /\ Cardinality(Upto(Nth(S, i))) = i
  <2>1. \E m \in S : Cardinality({k \in S : k <= m}) = i  BY <1>9
  <2>. QED  BY <2>1 DEF Nth
<1>. QED  BY <1>1, <1>10

\* A gallery's pictures are all of the same post, and no two of them are the same.
LEMMA GalleryFacts ==
  ASSUME NEW p, NEW post, Len(post.media) \in Nat, NEW nsfw,
         NEW items, items = ChildToAlbumMetadata(p, post, nsfw)
  PROVE  /\ items \in Seq(Range(items)) /\ Len(items) \in Nat /\ DOMAIN items = 1..Len(items)
         /\ \A i \in 1..Len(items) : items[i].post = p
         /\ \A a, b \in 1..Len(items) : items[a].media = items[b].media => a = b
<1>. DEFINE Mime(media) == IF media.mime = "" THEN DetectMime(media.url) ELSE media.mime
            good == {m \in 1..Len(post.media) :
                       post.media[m].valid /\ Mime(post.media[m]) \in ImageTypes}
<1>1. IsFiniteSet(good) /\ good \in SUBSET Nat
  <2>1. good \in SUBSET (1..Len(post.media))  OBVIOUS
  <2>2. IsFiniteSet(1..Len(post.media))
    <3>1. 1 \in Int /\ Len(post.media) \in Int  OBVIOUS
    <3>. QED  BY <3>1, FS_Interval
  <2>. HIDE DEF good
  <2>3. IsFiniteSet(good)  BY <2>1, <2>2, FS_Subset
  <2>4. good \in SUBSET Nat  BY <2>1
  <2>. QED  BY <2>3, <2>4
<1>2. items = IF post.over18 /\ ~nsfw THEN <<>>
              ELSE [i \in 1..Cardinality(good) |->
                      [post |-> p, media |-> Nth(good, i), adult |-> post.over18]]
  BY DEF ChildToAlbumMetadata
<1>. HIDE DEF good
<1>3. /\ Cardinality(good) \in Nat
      /\ \A i \in 1..Cardinality(good) : Cardinality({k \in good : k <= Nth(good, i)}) = i
  BY <1>1, NthFacts
<1>4. CASE items = <<>>  BY <1>4 DEF Range
<1>5. CASE items = [i \in 1..Cardinality(good) |->
                      [post |-> p, media |-> Nth(good, i), adult |-> post.over18]]
  <2>1. DOMAIN items = 1..Cardinality(good)  BY <1>5
  <2>2. \A i \in 1..Cardinality(good) :
           items[i].post = p /\ items[i].media = Nth(good, i) /\ items[i] \in Range(items)
    BY <1>5 DEF Range
  <2>3. items = [i \in 1..Cardinality(good) |-> items[i]]  BY <1>5
  <2>4. items \in Seq(Range(items)) /\ Len(items) = Cardinality(good)
    BY <1>3, <2>2, <2>3
  <2>5. \A a, b \in 1..Cardinality(good) : Nth(good, a) = Nth(good, b) => a = b
    BY <1>3
  <2>. QED  BY <1>3, <2>1, <2>2, <2>4, <2>5
<1>. QED  BY <1>2, <1>4, <1>5

\* What a post yields is of that post, and never the same picture twice.
LEMMA ItemsFacts ==
  ASSUME impl \in {"booru", "reddit"},
         kind \in [1..MaxPosts -> IF impl = "booru" THEN BooruPosts ELSE RedditPosts],
         NEW p \in 1..MaxPosts
  PROVE  /\ Items(p) \in Seq(Range(Items(p))) /\ Len(Items(p)) \in Nat
         /\ DOMAIN Items(p) = 1..Len(Items(p))
         /\ \A i \in 1..Len(Items(p)) : Items(p)[i].post = p
         /\ \A a, b \in 1..Len(Items(p)) : Items(p)[a].media = Items(p)[b].media => a = b
<1>. DEFINE s == Items(p)
            Fine == /\ s \in Seq(Range(s)) /\ Len(s) \in Nat /\ DOMAIN s = 1..Len(s)
                    /\ \A i \in 1..Len(s) : s[i].post = p
                    /\ \A a, b \in 1..Len(s) : s[a].media = s[b].media => a = b
<1>. SUFFICES Fine  OBVIOUS
<1>1. ASSUME NEW adult, s = <<[post |-> p, media |-> 0, adult |-> adult]>>  PROVE Fine
  <2>1. Len(s) = 1 /\ DOMAIN s = 1..1 /\ s[1].post = p  BY <1>1
  <2>2. s[1] \in Range(s)  BY <2>1 DEF Range
  <2>3. s \in Seq(Range(s))  BY <1>1, <2>1, <2>2
  <2>. HIDE DEF s
  <2>. QED  BY <2>1, <2>3
<1>2. CASE s = <<>>
  <2>. HIDE DEF s
  <2>. QED  BY <1>2 DEF Range
<1>3. CASE impl = "booru"
  <2>1. s = PostToImageMetadata(p, kind[p])  BY <1>3 DEF Items
  <2>. HIDE DEF s, Fine
  <2>. QED  BY <1>1, <1>2, <2>1 DEF PostToImageMetadata
<1>4. CASE impl = "reddit" /\ kind[p].gallery
  <2>1. s = ChildToAlbumMetadata(p, kind[p], params.nsfw)  BY <1>4 DEF Items
  <2>2. Len(kind[p].media) \in Nat  BY <1>4, GalleryAssumption
  <2>. HIDE DEF s
  <2>3. s \in Seq(Range(s)) /\ Len(s) \in Nat /\ DOMAIN s = 1..Len(s)
    BY <2>1, <2>2, GalleryFacts
  <2>4. \A i \in 1..Len(s) : s[i].post = p
    BY <2>1, <2>2, GalleryFacts
  <2>5. \A a, b \in 1..Len(s) : s[a].media = s[b].media => a = b
    BY <2>1, <2>2, GalleryFacts
  <2>. QED  BY <2>3, <2>4, <2>5
<1>5. CASE impl = "reddit" /\ ~kind[p].gallery
  <2>1. s = ChildToMetadata(p, kind[p], params.nsfw)  BY <1>5 DEF Items
  <2>. HIDE DEF s, Fine
  <2>. QED  BY <1>1, <1>2, <2>1 DEF ChildToMetadata
<1>. QED  BY <1>3, <1>4, <1>5

\* A request stays what it is, and so does what the posts yield.
LEMMA SameItems ==
  ASSUME UNCHANGED request
  PROVE  /\ \A p : Items(p)' = Items(p)
         /\ \A i : BuildUniqueID(i)' = BuildUniqueID(i)
         /\ Item' = Item /\ impl' = impl /\ kind' = kind
<1>1. impl' = impl /\ kind' = kind /\ params' = params  BY DEF request
<1>2. \A p : Items(p)' = Items(p)  BY <1>1 DEF Items
<1>3. \A i : BuildUniqueID(i)' = BuildUniqueID(i)  BY <1>1 DEF BuildUniqueID
<1>4. Item' = Item  BY <1>2 DEF Item
<1>. QED  BY <1>1, <1>2, <1>3, <1>4

LEMMA RequestStays ==
  ASSUME [Next]_vars
  PROVE  UNCHANGED request
BY DEF Next, Iterate, RefuseRequest, Begin, FetchBooruPage, FetchRedditPage, PageFails, YieldError,
       LookAtPost, LookAtChild, LookedAt, CancelSeen, YieldItem, EndPage, EndListing, PageRead,
       NewPost, Cancel, vars
-----------------------------------------------------------------------------
(* The yield of an item *)

\* Appending puts an element into a sequence, and one that is new keeps it free of doubles.
LEMMA AppendFacts ==
  ASSUME NEW S, NEW s \in Seq(S), NEW e \in S
  PROVE  /\ Append(s, e) \in Seq(S)
         /\ Range(Append(s, e)) = Range(s) \cup {e}
         /\ IsInjective(s) /\ e \notin Range(s) => IsInjective(Append(s, e))
<1>1. /\ Append(s, e) \in Seq(S)
      /\ Len(Append(s, e)) = Len(s) + 1
      /\ \A i \in 1..Len(s) : Append(s, e)[i] = s[i]
      /\ Append(s, e)[Len(s) + 1] = e
  BY AppendProperties
<1>2. /\ Len(s) \in Nat /\ DOMAIN s = 1..Len(s)
      /\ DOMAIN Append(s, e) = 1..(Len(s) + 1)
  BY <1>1, LenProperties
<1>3. Range(Append(s, e)) \subseteq Range(s) \cup {e}  BY <1>1, <1>2 DEF Range
<1>4. e \in Range(Append(s, e))  BY <1>1, <1>2 DEF Range
<1>5. \A i \in 1..Len(s) : s[i] \in Range(Append(s, e))  BY <1>1, <1>2 DEF Range
<1>6. Range(s) \subseteq Range(Append(s, e))  BY <1>2, <1>5 DEF Range
<1>7. ASSUME IsInjective(s), e \notin Range(s)  PROVE IsInjective(Append(s, e))
  BY <1>1, <1>2, <1>7 DEF IsInjective, Range
<1>. QED  BY <1>1, <1>3, <1>4, <1>6, <1>7

\* The first of a sequence and the others.
LEMMA SplitFacts ==
  ASSUME NEW S, NEW s \in Seq(S), s # <<>>
  PROVE  /\ Len(s) \in Nat \ {0} /\ Head(s) = s[1] /\ Head(s) \in S
         /\ Tail(s) \in Seq(S) /\ Len(Tail(s)) = Len(s) - 1
         /\ \A i \in 1..Len(s) - 1 : Tail(s)[i] = s[i + 1]
         /\ Range(s) = {Head(s)} \cup Range(Tail(s))
<1>1. /\ Len(s) \in Nat \ {0} /\ DOMAIN s = 1..Len(s) /\ \A i \in 1..Len(s) : s[i] \in S
  BY LenProperties, EmptySeq
<1>2. Head(s) = s[1] /\ Head(s) \in S  BY <1>1
<1>3. /\ Tail(s) \in Seq(S) /\ Len(Tail(s)) = Len(s) - 1
      /\ \A i \in 1..Len(Tail(s)) : Tail(s)[i] = s[i + 1]
  BY HeadTailProperties
<1>4. DOMAIN Tail(s) = 1..(Len(s) - 1)  BY <1>3, LenProperties
<1>5. Range(Tail(s)) \subseteq Range(s)  BY <1>1, <1>3, <1>4 DEF Range
<1>6. ASSUME NEW i \in 1..Len(s), i # 1  PROVE s[i] \in Range(Tail(s))
  <2>1. i - 1 \in DOMAIN Tail(s) /\ Tail(s)[i - 1] = s[i]  BY <1>1, <1>3, <1>4, <1>6
  <2>. QED  BY <2>1 DEF Range
<1>7. Range(s) \subseteq {Head(s)} \cup Range(Tail(s))  BY <1>1, <1>2, <1>6 DEF Range
<1>8. Head(s) \in Range(s)  BY <1>1, <1>2 DEF Range
<1>. QED  BY <1>1, <1>2, <1>3, <1>5, <1>7, <1>8

\* The consumer has taken an item and goes on, or stops.
LEMMA YieldFacts ==
  ASSUME TypeOK, Handed, YieldItem
  PROVE  /\ pc = "yield" /\ out # <<>> /\ Head(out) \in Item
         /\ got' \in Seq({BuildUniqueID(i) : i \in Item})
         /\ Range(got') = Range(got) \cup {BuildUniqueID(Head(out))}
         /\ IsInjective(got) /\ BuildUniqueID(Head(out)) \notin Range(got) => IsInjective(got')
         /\ IdsOf(out) = {BuildUniqueID(Head(out))} \cup IdsOf(Tail(out))
         /\ Tail(out) \in Seq(Item)
<1>1. pc = "yield" /\ out # <<>> /\ out \in Seq(Item)  BY DEF YieldItem, Handed
<1>2. Head(out) \in Item /\ Tail(out) \in Seq(Item) /\ Range(out) = {Head(out)} \cup Range(Tail(out))
  BY <1>1, SplitFacts
<1>3. IdsOf(out) = {BuildUniqueID(Head(out))} \cup IdsOf(Tail(out))  BY <1>2 DEF IdsOf
<1>4. BuildUniqueID(Head(out)) \in {BuildUniqueID(i) : i \in Item}  BY <1>2
<1>5. got \in Seq({BuildUniqueID(i) : i \in Item}) /\ got' = Append(got, BuildUniqueID(Head(out)))
  BY DEF Handed, YieldItem
<1>6. /\ got' \in Seq({BuildUniqueID(i) : i \in Item})
      /\ Range(got') = Range(got) \cup {BuildUniqueID(Head(out))}
      /\ IsInjective(got) /\ BuildUniqueID(Head(out)) \notin Range(got) => IsInjective(got')
  BY <1>4, <1>5, AppendFacts
<1>. QED  BY <1>1, <1>2, <1>3, <1>6
-----------------------------------------------------------------------------
(* Nothing is left out *)

\* No post means no identifier, one more post means its own.
LEMMA OwedFacts ==
  ASSUME NEW h
  PROVE  /\ looked = {} => Owed = {}
         /\ UNCHANGED request /\ looked' = looked => Owed' = Owed
         /\ UNCHANGED request /\ looked' = looked \cup {h} => Owed' = Owed \cup IdsOf(Items(h))
<1>1. looked = {} => Owed = {}  BY DEF Owed
<1>2. ASSUME UNCHANGED request
      PROVE  Owed' = UNION {IdsOf(Items(p)) : p \in looked'}
  <2>1. \A p : Items(p)' = Items(p)  BY <1>2, SameItems
  <2>2. \A i : BuildUniqueID(i)' = BuildUniqueID(i)  BY <1>2, SameItems
  <2>3. \A p : IdsOf(Items(p))' = IdsOf(Items(p))  BY <2>1, <2>2 DEF IdsOf
  <2>. QED  BY <2>3 DEF Owed
<1>. QED  BY <1>1, <1>2 DEF Owed

\* Steps that look at no post and yield nothing.
LEMMA HandedKept ==
  ASSUME Handed, UNCHANGED <<request, got, out, looked, stopped>>,
         pc' = "yield" <=> pc = "yield", pc' = "start" => pc = "start", stopped => pc' = "done"
  PROVE  Handed'
<1>1. /\ Owed' = Owed /\ Item' = Item /\ impl' = impl /\ kind' = kind
      /\ \A i : BuildUniqueID(i)' = BuildUniqueID(i)
  BY OwedFacts, SameItems
<1>2. IdsOf(out)' = IdsOf(out)  BY <1>1 DEF IdsOf
<1>. QED  BY <1>1, <1>2 DEF Handed

LEMMA HandedStep ==
  ASSUME IInv, Handed, [Next]_vars
  PROVE  Handed'
<1>0. UNCHANGED request  BY RequestStays
<1>00. /\ Item' = Item /\ impl' = impl /\ kind' = kind
       /\ \A i : BuildUniqueID(i)' = BuildUniqueID(i)
  BY <1>0, SameItems
<1>1. CASE RefuseRequest \/ PageFails \/ CancelSeen
  <2>1. /\ pc \in {"start", "page", "posts"} /\ pc' = "done"
        /\ UNCHANGED <<got, out, looked, stopped>>
    BY <1>1 DEF RefuseRequest, PageFails, CancelSeen, YieldError, history
  <2>. QED  BY <1>0, <2>1, HandedKept
<1>2. CASE Begin
  <2>1. pc = "start" /\ pc' = "page" /\ UNCHANGED <<got, out, looked, stopped>>
    BY <1>2 DEF Begin
  <2>2. ~stopped  BY <2>1 DEF Handed
  <2>. QED  BY <1>0, <2>1, <2>2, HandedKept
<1>3. CASE FetchBooruPage \/ FetchRedditPage
  <2>1. pc = "page" /\ pc' \in {"posts", "done"} /\ UNCHANGED <<got, out, looked, stopped>>
    BY <1>3 DEF FetchBooruPage, FetchRedditPage, Received, history
  <2>2. ~stopped  BY <2>1 DEF Handed
  <2>. QED  BY <1>0, <2>1, <2>2, HandedKept
<1>4. CASE LookAtPost \/ LookAtChild
  <2>. DEFINE h == Head(page)
  <2>1. /\ pc = "posts" /\ out' = Items(h) /\ looked' = looked \cup {h}
        /\ got' = got /\ stopped' = stopped
        /\ pc' # "start" /\ (pc' = "yield" <=> Items(h) # <<>>)
    BY <1>4 DEF LookAtPost, LookAtChild, LookedAt, AfterPost
  <2>2. ~stopped /\ out = <<>>  BY <2>1 DEF Handed
  <2>3. h \in 1..MaxPosts  BY <1>4, LookFacts, HeadFacts DEF IInv
  <2>4. Items(h) \in Seq(Item)
    <3>1. Items(h) \in Seq(Range(Items(h)))
      BY <2>3, ItemsFacts DEF IInv, TypeOK, Handed
    <3>2. Range(Items(h)) \subseteq Item  BY <2>3 DEF Item
    <3>. HIDE DEF h
    <3>. QED  BY <3>1, <3>2
  <2>5. IdsOf(out) = {}  BY <2>2 DEF IdsOf, Range
  <2>6. IdsOf(out)' = IdsOf(Items(h))  BY <1>00, <2>1 DEF IdsOf
  <2>7. Owed' = Owed \cup IdsOf(Items(h))  BY <1>0, <2>1, OwedFacts
  <2>8. Range(got) = Owed  BY <2>2, <2>5 DEF Handed
  <2>9. Range(got') \cup IdsOf(out)' = Owed'  BY <2>1, <2>6, <2>7, <2>8
  <2>. HIDE DEF h
  <2>10. /\ (pc' = "yield" <=> out' # <<>>) /\ pc' # "start" /\ ~stopped' /\ out' \in Seq(Item)
    BY <2>1, <2>2, <2>4
  <2>. QED  BY <1>00, <2>1, <2>9, <2>10 DEF Handed
<1>5. CASE YieldItem
  <2>. DEFINE id == BuildUniqueID(Head(out))
  <2>1. /\ pc = "yield" /\ Tail(out) \in Seq(Item) /\ got' \in Seq({BuildUniqueID(i) : i \in Item})
        /\ Range(got') = Range(got) \cup {id}
        /\ IdsOf(out) = {id} \cup IdsOf(Tail(out))
    BY <1>5, YieldFacts DEF IInv
  <2>2. ~stopped  BY <2>1 DEF Handed
  <2>3. looked' = looked  BY <1>5 DEF YieldItem
  <2>4. Owed' = Owed  BY <1>0, <2>3, OwedFacts
  <2>5. Range(got) \cup IdsOf(out) = Owed  BY <2>2 DEF Handed
  <2>. HIDE DEF id
  <2>6. CASE out' = Tail(out) /\ stopped' = stopped
    <3>1. pc' = "yield" <=> out' # <<>>
      BY <1>5, <2>2, <2>6 DEF YieldItem, AfterPost
    <3>2. pc' # "start"  BY <1>5 DEF YieldItem, AfterPost
    <3>3. IdsOf(out)' = IdsOf(Tail(out))  BY <1>00, <2>6 DEF IdsOf
    <3>4. Range(got') \cup IdsOf(out)' = Owed'  BY <2>1, <2>4, <2>5, <3>3
    <3>. QED  BY <1>00, <2>1, <2>2, <2>6, <3>1, <3>2, <3>4 DEF Handed
  <2>7. CASE stopped' = TRUE /\ out' = <<>> /\ pc' = "done"
    <3>1. IdsOf(out)' = {}  BY <2>7 DEF IdsOf, Range
    <3>2. Range(got') \cup IdsOf(out)' \subseteq Owed'  BY <2>1, <2>4, <2>5, <3>1
    <3>3. out' \in Seq(Item)  BY <2>7
    <3>. QED  BY <1>00, <2>1, <2>7, <3>2, <3>3 DEF Handed
  <2>. QED  BY <1>5, <2>6, <2>7 DEF YieldItem
<1>6. CASE EndPage \/ EndListing
  <2>1. pc = "posts" /\ pc' \in {"page", "done"} /\ UNCHANGED <<got, out, looked, stopped>>
    BY <1>6 DEF EndPage, EndListing, PageRead, history
  <2>2. ~stopped  BY <2>1 DEF Handed
  <2>. QED  BY <1>0, <2>1, <2>2, HandedKept
<1>7. CASE NewPost \/ Cancel \/ UNCHANGED vars
  <2>1. UNCHANGED <<pc, got, out, looked, stopped>>
    BY <1>7 DEF NewPost, Cancel, vars, locals, history
  <2>2. stopped => pc' = "done"  BY <2>1 DEF Handed
  <2>. QED  BY <1>0, <2>1, <2>2, HandedKept
<1>. QED  BY <1>1, <1>2, <1>3, <1>4, <1>5, <1>6, <1>7 DEF Next, Iterate

\* The four ways in which a fetch ends: an error, a stop, a spent budget, and a feed that
\* has been read to its end.
LEMMA EndedStep ==
  ASSUME IInv, Handed, Ended, [Next]_vars
  PROVE  Ended'
<1>1. CASE RefuseRequest \/ PageFails \/ CancelSeen
  <2>1. errors' = errors + 1
    BY <1>1 DEF RefuseRequest, PageFails, CancelSeen, YieldError
  <2>2. errors' # 0  BY <2>1 DEF IInv, TypeOK
  <2>. QED  BY <2>2 DEF Ended
<1>2. CASE Begin
  BY <1>2 DEF Begin, Ended
<1>3. CASE FetchBooruPage
  <2>. DEFINE top == newest - cursor * pageLimit
  <2>1. /\ pc = "page" /\ impl = "booru" /\ page' = BooruPage(BuildBooruURL(BooruLimit, cursor))
        /\ pc' = IF page' = <<>> THEN "done" ELSE "posts"
        /\ first' = first /\ looked' = looked
    BY <1>3 DEF FetchBooruPage, Received, history
  <2>2. pageLimit \in Nat /\ pageLimit # 0
    BY <2>1, PageAssumption DEF IInv, TypeOK, Phase
  <2>3. /\ top \in Int
        /\ \A p \in Nat \ {0} : p <= top /\ p > top - pageLimit => \E i \in 1..Len(page') : page'[i] = p
    BY <2>1, BooruPageFacts DEF IInv
  <2>4. \A p \in 1..first : p > top => p \in looked
    BY <2>1 DEF IInv, Covered
  <2>. HIDE DEF top
  <2>5. page' = <<>> => top <= 0
    <3>. SUFFICES ASSUME page' = <<>>, top > 0  PROVE FALSE
      BY <2>3
    <3>1. top \in Nat \ {0} /\ top <= top /\ top > top - pageLimit  BY <2>2, <2>3
    <3>2. PICK i \in 1..Len(page') : page'[i] = top  BY <2>3, <3>1
    <3>3. Len(page') = 0  OBVIOUS
    <3>. QED  BY <3>2, <3>3
  <2>6. pc' = "done" => 1..first \subseteq looked  BY <2>1, <2>3, <2>4, <2>5
  <2>. QED  BY <2>1, <2>6 DEF Ended
<1>4. CASE FetchRedditPage
  <2>. DEFINE top == IF cursor = NoCursor THEN newest ELSE cursor - 1
  <2>1. /\ pc = "page" /\ impl = "reddit"
        /\ page' = RedditPage(BuildListingURL(MinOf(PageLimit, remaining), cursor))
        /\ pc' = IF page' = <<>> THEN "done" ELSE "posts"
        /\ first' = first /\ looked' = looked
    BY <1>4 DEF FetchRedditPage, Received, history
  <2>2. page' = <<>> => top = 0
    <3>1. top = IF cursor = NoCursor THEN newest ELSE cursor - 1  OBVIOUS
    <3>. HIDE DEF top
    <3>2. TypeOK /\ Phase /\ Budgeted  BY DEF IInv
    <3>3. top \in Nat /\ page' \in Seq(1..MaxPosts)
      BY <2>1, <3>1, <3>2, RedditPageFacts
    <3>4. Len(page') = 0 => top = 0
      BY <2>1, <3>1, <3>2, <3>3, RedditPageFacts
    <3>. QED  BY <3>4
  <2>3. first \in 0..newest /\ newest \in Nat /\ cursor \in Nat
    BY PageAssumption DEF IInv, TypeOK
  <2>4. cursor # NoCursor => \A p \in 1..first : p >= cursor => p \in looked
    BY <2>1 DEF IInv, Covered
  <2>5. page' = <<>> => 1..first \subseteq looked
    BY <2>2, <2>3, <2>4 DEF NoCursor
  <2>. QED  BY <2>1, <2>5 DEF Ended
<1>5. CASE LookAtPost \/ LookAtChild
  <2>1. pc' = "done" => remaining' <= 0
    BY <1>5 DEF LookAtPost, LookAtChild, LookedAt, AfterPost
  <2>. QED  BY <2>1 DEF Ended
<1>6. CASE YieldItem
  <2>1. pc' = "done" => stopped' \/ remaining' <= 0
    BY <1>6 DEF YieldItem, AfterPost
  <2>. QED  BY <2>1 DEF Ended
<1>7. CASE EndPage
  <2>1. remaining \in Int /\ remaining' = remaining /\ (pc' = "done" => ~(remaining > 0))
    BY <1>7 DEF EndPage, PageRead, IInv, TypeOK
  <2>. QED  BY <2>1 DEF Ended
<1>8. CASE EndListing
  <2>1. /\ remaining \in Int /\ remaining' = remaining /\ first' = first /\ looked' = looked
        /\ pc = "posts" /\ page = <<>> /\ impl = "reddit"
        /\ pc' = IF after # NoCursor /\ remaining > 0 THEN "page" ELSE "done"
    BY <1>8 DEF EndListing, PageRead, IInv, TypeOK, history
  <2>2. \A p \in 1..first : p >= after => p \in looked
    BY <2>1 DEF IInv, Covered, OnPage
  <2>3. after = NoCursor => 1..first \subseteq looked
    BY <2>2 DEF NoCursor
  <2>. QED  BY <2>1, <2>3 DEF Ended
<1>9. CASE NewPost
  <2>1. pc # "done" /\ pc' = pc  BY <1>9 DEF NewPost, locals
  <2>. QED  BY <2>1 DEF Ended
<1>10. CASE Cancel
  <2>1. pc # "done" /\ pc' = pc  BY <1>10 DEF Cancel, locals
  <2>. QED  BY <2>1 DEF Ended
<1>11. CASE UNCHANGED vars
  BY <1>11 DEF vars, Ended, locals, history
<1>. QED
  BY <1>1, <1>2, <1>3, <1>4, <1>5, <1>6, <1>7, <1>8, <1>9, <1>10, <1>11 DEF Next, Iterate
-----------------------------------------------------------------------------
(* Nothing comes twice *)

\* Once it has begun, a fetch that is steady has been steady.
LEMMA SteadyBefore ==
  ASSUME TypeOK, [Next]_vars, ~Begin, Steady'
  PROVE  Steady
<1>1. newest \in Int /\ first \in Int /\ first <= newest
  BY PageAssumption DEF TypeOK
<1>2. impl' = impl  BY RequestStays DEF request
<1>3. first' = first /\ (newest' = newest \/ newest' = newest + 1)
  BY DEF Next, Iterate, RefuseRequest, Begin, FetchBooruPage, FetchRedditPage, PageFails, YieldError,
         LookAtPost, LookAtChild, LookedAt, CancelSeen, YieldItem, EndPage, EndListing, PageRead,
         NewPost, Cancel, vars, history
<1>. QED  BY <1>1, <1>2, <1>3 DEF Steady

\* Steps that leave the page and the posts looked at alone.
LEMMA BelowKept ==
  ASSUME Below, Phase, Steady' => Steady /\ (newest' = newest \/ impl = "reddit"),
         UNCHANGED <<impl, pageLimit, cursor, page, after, looked>>,
         pc' \in {pc, "done"} \/ (pc = "yield" /\ pc' = "posts")
  PROVE  Below'
<1>1. \A p : OnPage(p)' <=> OnPage(p)  BY DEF OnPage
<1>. QED  BY <1>1 DEF Below, Steady

\* A page that comes goes on below what has been looked at.
LEMMA BelowByPage ==
  ASSUME IInv, Below, FetchBooruPage \/ FetchRedditPage
  PROVE  Below'
<1>. USE DEF IInv
<1>0. /\ pc = "page" /\ pc' # "page"
      /\ UNCHANGED <<impl, newest, first, pageLimit, cursor, looked>>
      /\ newest \in Int /\ cursor \in Nat /\ pageLimit \in Nat /\ looked \subseteq 1..MaxPosts
      /\ MaxPosts \in Nat
  BY PageAssumption
  DEF FetchBooruPage, FetchRedditPage, Received, request, history, TypeOK
<1>1. Steady' <=> Steady  BY <1>0 DEF Steady
<1>. SUFFICES ASSUME Steady
              PROVE  /\ page' # <<>> => \A p \in looked : p > page'[1]
                     /\ impl = "booru" => \A p \in 1..MaxPosts :
                          p \in looked \/ OnPage(p)' => p > newest - (cursor + 1) * pageLimit
                     /\ impl = "reddit" => \A p \in 1..MaxPosts :
                          p \in looked \/ OnPage(p)' => p >= after' \/ pc' = "done"
  BY <1>0, <1>1 DEF Below
<1>2. CASE FetchBooruPage
  <2>. DEFINE top == newest - cursor * pageLimit
  <2>1. impl = "booru" /\ page' = BooruPage(BuildBooruURL(BooruLimit, cursor))
    BY <1>2 DEF FetchBooruPage, Received
  <2>2. /\ top \in Int
        /\ page' \in Seq(1..MaxPosts) /\ Len(page') <= pageLimit
        /\ \A i \in 1..Len(page') : page'[i] = top - i + 1
    BY <1>0, <2>1, BooruPageFacts
  <2>3. page' # <<>> => page'[1] = top  BY <2>2
  <2>4. \A p \in looked : p > top  BY <1>0, <2>1 DEF Below
  <2>5. newest - (cursor + 1) * pageLimit = top - pageLimit
    BY <1>0, TimesFacts
  <2>. HIDE DEF top
  <2>6. \A i \in 1..Len(page') : page'[i] > top - pageLimit
    <3>1. Len(page') \in Nat  BY <2>2
    <3>. QED  BY <1>0, <2>2, <3>1
  <2>7. \A p \in looked : p > top - pageLimit  BY <1>0, <2>2, <2>4
  <2>. QED  BY <2>1, <2>3, <2>4, <2>5, <2>6, <2>7 DEF OnPage
<1>3. CASE FetchRedditPage
  <2>. DEFINE top == IF cursor = NoCursor THEN newest ELSE cursor - 1
  <2>1. /\ impl = "reddit"
        /\ page' = RedditPage(BuildListingURL(MinOf(PageLimit, remaining), cursor))
        /\ after' = RedditAfter(page')
        /\ pc' = IF page' = <<>> THEN "done" ELSE "posts"
    BY <1>3 DEF FetchRedditPage, Received
  <2>2. /\ top \in Nat /\ page' \in Seq(1..MaxPosts)
        /\ after' \in 0..MaxPosts
        /\ \A i \in 1..Len(page') : page'[i] = top - i + 1
        /\ \A i \in 1..Len(page') : page'[i] >= after'
    <3>1. /\ top = IF cursor = NoCursor THEN newest ELSE cursor - 1
          /\ TypeOK /\ Phase /\ Budgeted /\ pc = "page"
      BY <1>0
    <3>. HIDE DEF top, IInv
    <3>2. top \in Nat /\ page' \in Seq(1..MaxPosts)  BY <1>0, <2>1, <3>1, RedditPageFacts
    <3>3. RedditAfter(page') \in 0..MaxPosts  BY <1>0, <2>1, <3>1, RedditPageFacts
    <3>4. \A i \in 1..Len(page') : page'[i] = top - i + 1
      BY <1>0, <2>1, <3>1, RedditPageFacts
    <3>5. \A i \in 1..Len(page') : page'[i] >= RedditAfter(page')
      BY <1>0, <2>1, <3>1, RedditPageFacts
    <3>. QED  BY <2>1, <3>2, <3>3, <3>4, <3>5
  <2>3. page' # <<>> => 1 \in 1..Len(page')  BY <2>2
  <2>4. page' # <<>> => page'[1] = top  BY <2>2, <2>3
  <2>5. \A p \in looked : p > top
    BY <1>0, <2>1, <2>2 DEF Below, NoCursor, TypeOK
  <2>. HIDE DEF top
  <2>6. page' # <<>> => top >= after'  BY <2>2, <2>3, <2>4
  <2>7. page' # <<>> => \A p \in looked : p >= after'  BY <1>0, <2>2, <2>5, <2>6
  <2>8. \A p \in 1..MaxPosts : OnPage(p)' => p >= after'  BY <2>2 DEF OnPage
  <2>. QED  BY <2>1, <2>4, <2>5, <2>7, <2>8
<1>. QED  BY <1>2, <1>3

\* The post that is looked at is the first of those that are left.
LEMMA BelowByLook ==
  ASSUME IInv, Below, LookAtPost \/ LookAtChild
  PROVE  Below'
<1>. USE DEF IInv
<1>. DEFINE h == page[1]
            n == Len(page)
<1>0. /\ pc = "posts" /\ page # <<>> /\ page' = Tail(page) /\ pc' # "page"
      /\ UNCHANGED <<impl, newest, first, pageLimit, cursor, after>>
  BY LookFacts DEF request, TypeOK
<1>1. /\ n \in Nat \ {0} /\ h \in 1..MaxPosts
      /\ Len(page') = n - 1 /\ page' \in Seq(1..MaxPosts)
      /\ \A i \in 1..n : page[i] = h - i + 1
      /\ \A i \in 1..n - 1 : page'[i] = page[i + 1]
      /\ looked' = looked \cup {h} /\ looked \subseteq 1..MaxPosts /\ MaxPosts \in Nat
  BY <1>0, LookFacts, HeadFacts, PageAssumption DEF Covered, TypeOK
<1>2. page' # <<>> => page'[1] = h - 1
  <2>1. page' # <<>> => 1 \in 1..n - 1 /\ 2 \in 1..n  BY <1>1
  <2>. QED  BY <1>1, <2>1
<1>3. OnPage(h)  BY <1>1 DEF OnPage
<1>4. \A p : OnPage(p)' => OnPage(p)
  <2>. SUFFICES ASSUME NEW p, NEW i \in 1..n - 1, page'[i] = p
                PROVE  OnPage(p)
    BY <1>1 DEF OnPage
  <2>1. page[i + 1] = p /\ i + 1 \in 1..n  BY <1>1
  <2>. QED  BY <2>1 DEF OnPage
<1>5. \A p : p \in looked' \/ OnPage(p)' => p \in looked \/ OnPage(p)
  BY <1>1, <1>3, <1>4
<1>6. Steady' <=> Steady  BY <1>0 DEF Steady
<1>. HIDE DEF h, n
<1>7. ASSUME Steady, page' # <<>>  PROVE \A p \in looked' : p > page'[1]
  <2>1. \A p \in looked : p > h  BY <1>0, <1>7 DEF Below, h
  <2>. QED  BY <1>1, <1>2, <1>7, <2>1
<1>8. ASSUME Steady
      PROVE  /\ impl = "booru" => \A p \in 1..MaxPosts :
                  p \in looked' \/ OnPage(p)' => p > newest - (cursor + 1) * pageLimit
             /\ impl = "reddit" => \A p \in 1..MaxPosts :
                  p \in looked' \/ OnPage(p)' => p >= after
  BY <1>0, <1>5, <1>8 DEF Below
<1>. QED  BY <1>0, <1>6, <1>7, <1>8 DEF Below

LEMMA BelowStep ==
  ASSUME IInv, Below, [Next]_vars
  PROVE  Below'
<1>. USE PageAssumption
<1>. USE DEF IInv
<1>1. CASE RefuseRequest \/ PageFails \/ CancelSeen
  <2>1. YieldError  BY <1>1 DEF RefuseRequest, PageFails, CancelSeen
  <2>. QED  BY <2>1, BelowKept DEF YieldError, Steady, request, history
<1>2. CASE Begin
  <2>1. /\ page' = <<>> /\ looked' = {} /\ pc' = "page"
    BY <1>2 DEF Begin, Phase
  <2>. QED  BY <2>1 DEF Below
<1>3. CASE FetchBooruPage \/ FetchRedditPage
  BY <1>3, BelowByPage
<1>4. CASE LookAtPost \/ LookAtChild
  BY <1>4, BelowByLook
<1>5. CASE YieldItem
  BY <1>5, BelowKept DEF YieldItem, AfterPost, Steady, request
<1>6. CASE EndPage \/ EndListing
  <2>1. /\ pc = "posts" /\ page = <<>> /\ pc' \in {"page", "done"}
        /\ UNCHANGED <<impl, newest, first, pageLimit, page, after, looked>>
        /\ impl = "booru" => cursor' = cursor + 1
        /\ impl = "reddit" => cursor' = after /\ (pc' = "page" => after # NoCursor)
        /\ looked \subseteq 1..MaxPosts
    BY <1>6 DEF EndPage, EndListing, PageRead, NextPage, request, history, TypeOK
  <2>2. Steady' <=> Steady  BY <2>1 DEF Steady
  <2>3. ASSUME Steady
        PROVE  /\ impl = "booru" => \A p \in looked : p > newest - cursor' * pageLimit
               /\ impl = "reddit" => \A p \in looked : p >= cursor'
    BY <2>1, <2>3 DEF Below
  <2>. QED  BY <2>1, <2>2, <2>3 DEF Below
<1>7. CASE NewPost
  <2>1. /\ UNCHANGED <<impl, pageLimit, cursor, page, after, looked, pc, first>>
        /\ newest' = newest + 1
    BY <1>7 DEF NewPost, request, locals, history
  <2>2. newest \in Int /\ first \in Int /\ first <= newest  BY DEF TypeOK
  <2>3. Steady' => impl = "reddit"  BY <2>1, <2>2 DEF Steady
  <2>. QED  BY <2>1, <2>3, BelowKept DEF Steady
<1>8. CASE Cancel
  BY <1>8, BelowKept DEF Cancel, Steady, request, locals, history
<1>9. CASE UNCHANGED vars
  BY <1>9, BelowKept DEF vars, Steady, request, locals, history
<1>. QED  BY <1>1, <1>2, <1>3, <1>4, <1>5, <1>6, <1>7, <1>8, <1>9 DEF Next, Iterate

\* Pictures of different posts, and different pictures of a post, have identifiers of
\* their own.
LEMMA IdentifiersDiffer ==
  ASSUME TypeOK, Handed, NEW h \in 1..MaxPosts
  PROVE  /\ \A a, b \in 1..Len(Items(h)) :
              BuildUniqueID(Items(h)[a]) = BuildUniqueID(Items(h)[b]) => a = b
         /\ h \notin looked => Owed \cap IdsOf(Items(h)) = {}
<1>1. \A p \in 1..MaxPosts :
        /\ DOMAIN Items(p) = 1..Len(Items(p))
        /\ \A i \in 1..Len(Items(p)) : Items(p)[i].post = p
        /\ \A a, b \in 1..Len(Items(p)) : Items(p)[a].media = Items(p)[b].media => a = b
  BY ItemsFacts DEF TypeOK, Handed
<1>2. \A i, j : BuildUniqueID(i) = BuildUniqueID(j) => i.post = j.post /\ i.media = j.media
  BY DEF BuildUniqueID
<1>3. \A p \in 1..MaxPosts : \A i \in Range(Items(p)) : i.post = p
  BY <1>1 DEF Range
<1>4. ASSUME h \notin looked, NEW g \in Owed, g \in IdsOf(Items(h))  PROVE FALSE
  <2>1. PICK p \in looked : g \in IdsOf(Items(p))  BY DEF Owed
  <2>2. PICK i \in Range(Items(p)) : g = BuildUniqueID(i)  BY <2>1 DEF IdsOf
  <2>3. PICK j \in Range(Items(h)) : g = BuildUniqueID(j)  BY <1>4 DEF IdsOf
  <2>4. p \in 1..MaxPosts  BY DEF TypeOK
  <2>5. i.post = p /\ j.post = h  BY <1>3, <2>4
  <2>6. i.post = j.post  BY <1>2, <2>2, <2>3
  <2>. QED  BY <1>4, <2>5, <2>6
<1>. QED  BY <1>1, <1>2, <1>4

\* Steps that yield nothing and look at no post.
LEMMA DistinctKept ==
  ASSUME Distinct, UNCHANGED <<request, got, out>>, Steady' => Steady
  PROVE  Distinct'
<1>1. \A i : BuildUniqueID(i)' = BuildUniqueID(i)  BY SameItems
<1>2. IdsOf(out)' = IdsOf(out)  BY <1>1 DEF IdsOf
<1>. QED  BY <1>1, <1>2 DEF Distinct

LEMMA DistinctStep ==
  ASSUME IInv, Handed, Below, Distinct, [Next]_vars
  PROVE  Distinct'
<1>0. UNCHANGED request /\ \A i : BuildUniqueID(i)' = BuildUniqueID(i)
  BY RequestStays, SameItems
<1>1. CASE LookAtPost \/ LookAtChild
  <2>. DEFINE h == Head(page)
  <2>1. /\ pc = "posts" /\ out' = Items(h) /\ got' = got /\ page # <<>> /\ ~Begin
    BY <1>1 DEF LookAtPost, LookAtChild, LookedAt, Begin
  <2>2. h \in 1..MaxPosts /\ h = page[1]  BY <2>1, HeadFacts DEF IInv
  <2>. SUFFICES ASSUME Steady'  PROVE Distinct'
    BY DEF Distinct
  <2>3. Steady  BY <2>1, SteadyBefore DEF IInv
  <2>4. h \notin looked
    <3>1. \A p \in looked : p > h  BY <2>1, <2>2, <2>3 DEF Below
    <3>2. ~(h > h)  BY <2>2
    <3>. QED  BY <3>1, <3>2
  <2>5. Range(got) \subseteq Owed  BY DEF Handed
  <2>6. Range(got) \cap IdsOf(Items(h)) = {}
    BY <2>2, <2>4, <2>5, IdentifiersDiffer DEF IInv
  <2>7. \A a, b \in 1..Len(Items(h)) :
          BuildUniqueID(Items(h)[a]) = BuildUniqueID(Items(h)[b]) => a = b
    BY <2>2, IdentifiersDiffer DEF IInv
  <2>8. IdsOf(out)' = IdsOf(Items(h))  BY <1>0, <2>1 DEF IdsOf
  <2>. HIDE DEF h
  <2>. QED  BY <1>0, <2>1, <2>3, <2>6, <2>7, <2>8 DEF Distinct
<1>2. CASE YieldItem
  <2>. DEFINE id == BuildUniqueID(Head(out))
  <2>1. /\ pc = "yield" /\ out # <<>> /\ Tail(out) \in Seq(Item) /\ out \in Seq(Item) /\ ~Begin
        /\ Range(got') = Range(got) \cup {id}
        /\ IsInjective(got) /\ id \notin Range(got) => IsInjective(got')
        /\ IdsOf(out) = {id} \cup IdsOf(Tail(out))
    BY <1>2, YieldFacts DEF IInv, Handed, Begin
  <2>. SUFFICES ASSUME Steady'  PROVE Distinct'
    BY DEF Distinct
  <2>2. Steady  BY <2>1, SteadyBefore DEF IInv
  <2>3. /\ IsInjective(got) /\ Range(got) \cap IdsOf(out) = {}
        /\ \A a, b \in 1..Len(out) : BuildUniqueID(out[a]) = BuildUniqueID(out[b]) => a = b
    BY <2>2 DEF Distinct
  <2>4. /\ Len(out) \in Nat \ {0} /\ Head(out) = out[1] /\ Len(Tail(out)) = Len(out) - 1
        /\ \A i \in 1..Len(out) - 1 : Tail(out)[i] = out[i + 1]
        /\ DOMAIN Tail(out) = 1..(Len(out) - 1)
    BY <2>1, SplitFacts, LenProperties
  <2>5. IsInjective(got')  BY <2>1, <2>3
  <2>6. id \notin IdsOf(Tail(out))
    <3>. SUFFICES ASSUME id \in IdsOf(Tail(out))  PROVE FALSE
      OBVIOUS
    <3>1. PICK x \in Range(Tail(out)) : id = BuildUniqueID(x)  BY DEF IdsOf
    <3>2. PICK i \in 1..Len(out) - 1 : Tail(out)[i] = x  BY <2>4 DEF Range
    <3>3. i + 1 \in 1..Len(out) /\ 1 \in 1..Len(out) /\ i + 1 # 1 /\ out[i + 1] = x
      BY <2>4, <3>2
    <3>. QED  BY <2>3, <2>4, <3>1, <3>3
  <2>7. \A a, b \in 1..Len(out) - 1 :
          BuildUniqueID(Tail(out)[a]) = BuildUniqueID(Tail(out)[b]) => a = b
    <3>. SUFFICES ASSUME NEW a \in 1..Len(out) - 1, NEW b \in 1..Len(out) - 1,
                         BuildUniqueID(Tail(out)[a]) = BuildUniqueID(Tail(out)[b])
                  PROVE  a = b
      OBVIOUS
    <3>1. /\ a + 1 \in 1..Len(out) /\ b + 1 \in 1..Len(out)
          /\ Tail(out)[a] = out[a + 1] /\ Tail(out)[b] = out[b + 1]
      BY <2>4
    <3>2. a + 1 = b + 1  BY <2>3, <3>1
    <3>. QED  BY <3>2
  <2>8. Range(got') \cap IdsOf(Tail(out)) = {}  BY <2>1, <2>3, <2>6
  <2>. HIDE DEF id
  <2>9. CASE out' = Tail(out)
    <3>1. IdsOf(out)' = IdsOf(Tail(out))  BY <1>0, <2>9 DEF IdsOf
    <3>2. impl' = impl  BY <1>0 DEF request
    <3>3. (\A a, b \in 1..Len(out) : BuildUniqueID(out[a]) = BuildUniqueID(out[b]) => a = b)'
      BY <2>4, <2>7, <2>9, <3>2 DEF BuildUniqueID
    <3>. QED  BY <2>5, <2>8, <3>1, <3>3 DEF Distinct
  <2>10. CASE out' = <<>>
    <3>1. IdsOf(out)' = {} /\ Len(out') = 0  BY <2>10 DEF IdsOf, Range
    <3>. QED  BY <2>5, <3>1 DEF Distinct
  <2>. QED  BY <1>2, <2>9, <2>10 DEF YieldItem
<1>3. CASE Begin
  <2>1. got = <<>> /\ out = <<>>  BY <1>3 DEF Begin, Handed
  <2>2. UNCHANGED <<got, out>>  BY <1>3 DEF Begin
  <2>3. IsInjective(got') /\ Range(got') = {} /\ Len(out') = 0
    BY <2>1, <2>2 DEF IsInjective, Range
  <2>. QED  BY <2>3 DEF Distinct
<1>4. CASE ~Begin /\ UNCHANGED <<got, out>>
  <2>1. Steady' => Steady  BY <1>4, SteadyBefore DEF IInv
  <2>. QED  BY <1>0, <1>4, <2>1, DistinctKept
<1>5. LookAtPost \/ LookAtChild \/ YieldItem \/ UNCHANGED <<got, out>>
  BY DEF Next, Iterate, RefuseRequest, Begin, FetchBooruPage, FetchRedditPage, PageFails, YieldError,
         CancelSeen, EndPage, EndListing, PageRead, NewPost, Cancel, vars, locals, history
<1>. QED  BY <1>1, <1>2, <1>3, <1>4, <1>5

-----------------------------------------------------------------------------
(* Theorems *)

\* The first state.
LEMMA InitIInv == Init => IInv
<1>. SUFFICES ASSUME Init PROVE IInv  OBVIOUS
<1>1. TypeOK
  <2>1. impl \in {"booru", "reddit"} /\ lookupCount \in LookupCounts
        /\ newest \in 0..MaxPosts /\ first = newest
    BY DEF Init
  <2>2. /\ pc = "start" /\ remaining = 0 /\ pageLimit = 0 /\ cursor = 0 /\ after = 0
        /\ page = <<>> /\ looked = {} /\ cancelled = FALSE /\ stopped = FALSE /\ errors = 0
        /\ checked = 0
    BY DEF Init, NoCursor
  <2>3. page \in Seq(1..MaxPosts)  BY <2>2
  <2>4. newest \in 0..MaxPosts /\ first \in 0..newest /\ pageLimit \in 0..PageLimit
    BY <2>1, <2>2, PageAssumption
  <2>5. cancelled \in BOOLEAN /\ stopped \in BOOLEAN  BY <2>2
  <2>6. /\ pc \in {"start", "page", "posts", "yield", "done"} /\ remaining \in Int
        /\ cursor \in Nat /\ after \in Nat /\ looked \subseteq 1..MaxPosts
        /\ errors \in 0..1 /\ checked \in Nat
    BY <2>2
  <2>. QED  BY <2>1, <2>3, <2>4, <2>5, <2>6 DEF TypeOK
<1>2. Phase  BY PageAssumption DEF Init, Phase, NoCursor
<1>3. Budgeted  BY DEF Init, Budgeted
<1>4. Covered  BY DEF Init, Covered, NoGaps
<1>. QED  BY <1>1, <1>2, <1>3, <1>4 DEF IInv

\* The invariant holds in every state of a fetch from either source.
THEOREM IInvHolds == Spec => []IInv
<1>1. IInv /\ [Next]_vars => IInv'
  BY TypeStep, BudgetStep, CoveredStep DEF IInv
<1>. QED  BY InitIInv, <1>1, PTL DEF Spec

\* Everything about what is yielded holds in every state.
LEMMA YieldedHolds == Spec => []Yielded
<1>1. Init => Yielded
  <2>. SUFFICES ASSUME Init  PROVE Yielded
    OBVIOUS
  <2>1. /\ kind \in [1..MaxPosts -> IF impl = "booru" THEN BooruPosts ELSE RedditPosts]
        /\ pc = "start" /\ page = <<>> /\ out = <<>> /\ got = <<>> /\ looked = {} /\ stopped = FALSE
    BY DEF Init
  <2>2. Range(got) = {} /\ IdsOf(out) = {} /\ Owed = {} /\ IsInjective(got) /\ Len(out) = 0
    BY <2>1 DEF Range, IdsOf, Owed, IsInjective
  <2>3. Handed  BY <2>1, <2>2 DEF Handed
  <2>4. Ended /\ Below  BY <2>1 DEF Ended, Below
  <2>5. Distinct  BY <2>2 DEF Distinct
  <2>. QED  BY <2>3, <2>4, <2>5 DEF Yielded
<1>2. IInv /\ Yielded /\ [Next]_vars => Yielded'
  BY HandedStep, EndedStep, BelowStep, DistinctStep DEF Yielded
<1>. QED  BY <1>1, <1>2, IInvHolds, PTL DEF Spec

\* The types (TypeOK) of the request, the locals and the history.
THEOREM TypeCorrect == Spec => []TypeOK
<1>1. IInv => TypeOK  BY DEF IInv
<1>. QED  BY IInvHolds, <1>1, PTL

\* A fetch looks at its budget of posts and no more (BudgetKept), but for less than a
\* page from a booru: the skips of booru.go and reddit.go are charged.
THEOREM BudgetKeptCorrect == Spec => []BudgetKept
<1>1. IInv => BudgetKept
  <2>1. IInv => Len(page) \in Nat /\ pageLimit \in Nat /\ remaining \in Int
    BY LenProperties, PageAssumption DEF IInv, TypeOK
  <2>. QED  BY <2>1 DEF IInv, Budgeted, BudgetKept
<1>. QED  BY IInvHolds, <1>1, PTL

\* No post that was there when the fetch began is jumped over (NoGaps), however many are
\* made between its pages.
THEOREM NoGapsCorrect == Spec => []NoGaps
<1>1. IInv => NoGaps  BY DEF IInv, Covered
<1>. QED  BY IInvHolds, <1>1, PTL

\* Every picture of a post that was looked at is yielded and no other (NothingLeftOut),
\* and a fetch that was not cut short has come to the end of its budget or of the feed.
THEOREM NothingLeftOutCorrect == Spec => []NothingLeftOut
<1>1. Yielded => NothingLeftOut
  <2>. SUFFICES ASSUME Yielded  PROVE NothingLeftOut
    OBVIOUS
  <2>1. Owed = UNION {{BuildUniqueID(i) : i \in Range(Items(p))} : p \in looked}
    BY DEF Owed, IdsOf
  <2>2. ASSUME pc # "yield", ~stopped  PROVE Range(got) = Owed
    <3>1. out = <<>>  BY <2>2 DEF Yielded, Handed
    <3>2. IdsOf(out) = {}  BY <3>1 DEF IdsOf, Range
    <3>. QED  BY <2>2, <3>2 DEF Yielded, Handed
  <2>3. Ended  BY DEF Yielded
  <2>. QED  BY <2>1, <2>2, <2>3 DEF NothingLeftOut, Ended
<1>. QED  BY <1>1, YieldedHolds, PTL

\* No picture comes twice (NoRepeats): from reddit never, from a booru only when posts
\* were made between two of its pages.
THEOREM NoRepeatsCorrect == Spec => []NoRepeats
<1>1. Yielded => NoRepeats  BY DEF Yielded, Distinct, Steady, NoRepeats
<1>. QED  BY <1>1, YieldedHolds, PTL
=============================================================================
