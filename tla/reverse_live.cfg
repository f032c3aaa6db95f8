CONSTANTS
  s1 = s1  s2 = s2  t1 = t1  t2 = t2  u1 = u1  h1 = h1  h2 = h2
  Nothing = Nothing
  Topics = {t1, t2}
  Series = {s1, s2}
  Issues = {}
  Urls = {u1}
  Hashes = {h1, h2}
  PostIds = {}
  CommentIds = {1, 2}
  Retention = 0
  MaxTime = 1
  SaveOutcomes = {TRUE, FALSE}
  Notes <- TwoSeries
  MaxNotes = 2
  OutboxSize = 1
  Forwarded = {}
  Links <- LinkBoth
  MaxCrashes = 0
  MaxLost = 0
SPECIFICATION FairSpec
PROPERTIES NoStarvation
