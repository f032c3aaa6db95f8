CONSTANTS
  s1 = s1  s2 = s2  t1 = t1  t2 = t2  u1 = u1  h1 = h1  h2 = h2
  Nothing = Nothing
  Topics = {t1, t2}
  Series = {s1}
  Issues = {}
  Urls = {u1}
  Hashes = {h1, h2}
  PostIds = {}
  CommentIds = {1, 2}
  Retention = 0
  MaxTime = 0
  SaveOutcomes = {TRUE, FALSE}
  Notes <- Kinds
  MaxNotes = 2
  OutboxSize = 2
  Forwarded = {h1}
  Links <- LinkEither
  MaxCrashes = 1
  MaxLost = 1
SPECIFICATION Spec
INVARIANTS TypeOK UnbindHolds DuplicatesBounded
PROPERTIES KeepsPromise
