\* Lists of up to seven items behind three pages of two, and any chain of tokens.
SPECIFICATION WalksSpec
CONSTANTS
  Items <- MCItems
  Lists <- MCLists
  PageSize = 2
  MaxPages = 3
  Totals = {0, 3, 5, 7, 9}
  MaxChanges = 2
  Tokens = {t1, t2, t3}
  NoToken = NoToken
  MaxTokenPages = 3
INVARIANTS
  FaithfulWalk
  WalkBounded
  NoPageTwice
CHECK_DEADLOCK FALSE
