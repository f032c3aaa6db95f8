CONSTANTS
  s1 = s1  s2 = s2  t1 = t1  t2 = t2  i1 = i1  i2 = i2
  alice = alice  carol = carol  bot = bot  x = x  y = y
  NoTarget = NoTarget
  Topics = {t1, t2}
  Series = {s1}
  Issues = {i1, i2}
  Urls = {}
  Hashes <- MCHashes
  PostIds = {1, 2}
  CommentIds = {}
  Retention = 0
  MaxTime = 0
  SaveOutcomes = {TRUE, FALSE}
  SeriesOf <- OneSeriesOf
  Categories = {0, 7, 8}
  TopicLists <- ListAll
  Drafts <- TwoTopics
  Edits = {}
  MaxForum = 2
  Bindings <- BindBoth
  BotUsername = bot
  AllowedCategories = {7}
  MaxPosts = 2
  Cap = 1
  MaxCrashes = 1
  MaxLost = 1
SPECIFICATION FairSpec
PROPERTIES NoStarvation
