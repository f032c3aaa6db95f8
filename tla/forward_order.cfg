CONSTANTS
  s1 = s1  s2 = s2  t1 = t1  t2 = t2  i1 = i1  i2 = i2
  alice = alice  carol = carol  bot = bot  x = x  y = y
  NoTarget = NoTarget
  Topics = {t1}
  Series = {s1}
  Issues = {i1}
  Urls = {}
  Hashes <- MCHashes
  PostIds = {1, 2}
  CommentIds = {}
  Retention = 0
  MaxTime = 0
  SaveOutcomes = {TRUE}
  SeriesOf <- SeriesOfI1
  Categories = {0, 7, 8}
  TopicLists <- ListT1
  Drafts <- OneDraft
  Edits = {}
  MaxForum = 2
  Bindings <- BindOne
  BotUsername = bot
  AllowedCategories = {7}
  MaxPosts = 0
  Cap = 0
  MaxCrashes = 0
  MaxLost = 0
SPECIFICATION Spec
INVARIANTS OrderPreserved
