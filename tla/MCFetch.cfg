\* Five posts in pages of two; budgets of one to three posts.
SPECIFICATION FairSpec
CONSTANTS
  MaxPosts = 5
  PageLimit = 2
  DefaultCount <- Counts
  LookupCounts <- Asked
  BooruPosts <- Boorus
  RedditPosts <- Reddits
  BooruParams <- Boards
  RedditParams <- Settings
INVARIANTS
  TypeOK
  BudgetKept
  NoGaps
  NoRepeats
  NothingLeftOut
PROPERTIES
  FetchEnds
\* A fetch that is over does nothing.
CHECK_DEADLOCK FALSE
