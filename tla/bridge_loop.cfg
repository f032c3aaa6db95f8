CONSTANTS
  s1 = s1  t1 = t1  i1 = i1  u1 = u1
  alice = alice  bot = bot  x = x  m = m  h1 = h1
  NoTarget = NoTarget  Nothing = Nothing  Nobody = Nobody
  Unbound = Unbound  NoUrl = NoUrl  BadURI = BadURI
  Topics = {t1}
  Series = {s1}
  Issues = {i1}
  Urls = {u1}
  Hashes <- MCHashes
  PostIds = {1, 2, 3}
  CommentIds = {1, 2}
  Retention = 0
  MaxTime = 1
  SaveOutcomes = {TRUE, FALSE}
  SeriesOf <- MCSeriesOf
  UrlOf <- MCUrlOf
  Explicit <- MCExplicit
  AllowTitleMatching = FALSE
  Titled = {}
  Categories = {0, 7}
  TopicLists <- MCLists
  BotUsername = bot
  AllowedCategories = {}
  MaxPosts = 0
  Cap = 0
  UserDrafts <- Reply
  MirrorText = m
  MaxUserPosts = 1
  MaxForum = 3
  Natives <- Native
  MaxNotes = 2
  OutboxSize = 2
  MaxCrashes = 1
  MaxLost = 1
  MaxFailed = 2
  MaxFaults = 2
SPECIFICATION Spec
INVARIANTS TypeOK EchoesBounded NoEchoUnprovoked MirrorsStayHome
PROPERTIES BothKeepPromise
