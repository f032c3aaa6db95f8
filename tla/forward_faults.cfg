CONSTANTS
  s1 = s1  s2 = s2  t1 = t1  t2 = t2  i1 = i1  i2 = i2
  alice = alice  carol = carol  bot = bot  x = x  y = y
  NoTarget = NoTarget
  Topics = {t1}
  Series = {s1, s2}
  Issues = {i1, i2}
  Urls = {}
  Hashes <- MCHashes
  PostIds = {1}
  CommentIds = {}
  Retention = 0
  MaxTime = 0
  SaveOutcomes = {TRUE, FALSE}
  SeriesOf <- MCSeriesOf
  Categories = {0, 7}
  TopicLists <- ListT1
  Drafts <- OneDraft
  Edits = {y}
  MaxForum = 1
  Bindings <- BindEither
  BotUsername = bot
  AllowedCategories = {}
  MaxPosts = 0
  Cap = 0
  MaxCrashes = 2
  MaxLost = 1
SPECIFICATION Spec
INVARIANTS TypeOK MarkedIsAccepted DuplicatesBounded
PROPERTIES KeepsPromise
