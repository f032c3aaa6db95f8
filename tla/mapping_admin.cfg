CONSTANTS
  s1 = s1  t1 = t1  t2 = t2  t3 = t3  i1 = i1  i3 = i3
  u1 = u1  a = a  b = b
  NoUrl = NoUrl  BadURI = BadURI
  Nobody = Nobody  Unbound = Unbound
  Topics = {t1, t2, t3}
  Series = {s1}
  Issues = {i1, i3}
  Urls = {u1}
  Hashes = {}
  PostIds = {}
  CommentIds = {}
  Retention = 0
  MaxTime = 0
  SaveOutcomes = {TRUE, FALSE}
  Handlers = {a, b}
  SeriesOf <- MCSeriesOf
  UrlOf <- MCUrlOf
  Replyable = {i1, i3}
  Configured = {s1}
  Explicit <- ExplicitBad
  AllowTitleMatching = FALSE
  Titled <- NoTitles
  Requests <- AskTwice
  Unbinds = {t1}
  MaxCrashes = 1
SPECIFICATION Spec
INVARIANTS OperatorDecides LinksFollowMappings
SYMMETRY Symmetry
