CONSTANTS
  Hosts = {"graft", "forum", "other", "localhost", "public", "private"}
  Addresses = {"public", "private"}
  Public = {"public"}
  LocalNames = {"localhost"}
  Paths <- MCPaths
  MaxRedirects = 3
  Absent = Absent
  Second = 2
  HashRunes = 4
  Host = "graft"
  Forum = "forum"
  Configs <- PlainOnly
  Series = {"s1"}
  Redirects <- ToHttps
  Contents <- OneContent
  IssueItems <- NoItems
  Titles <- OneContent
  Skews = {0}
  Moments = {0}
  Delays = {0}
  MaxComments = 1
SPECIFICATION Spec
PROPERTIES SuccessIsDelivered
