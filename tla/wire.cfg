CONSTANTS
  Hosts = {"graft", "forum", "other", "localhost", "public", "private"}
  Addresses = {"public", "private"}
  Public = {"public"}
  LocalNames = {"localhost"}
  Paths <- MCPaths
  MaxRedirects = 3
  Absent = Absent
  Second = 2
  HashRunes = 4
  Host = "graft"
  Forum = "forum"
  Configs <- MCConfigs
  Series = {"s1", "s2"}
  Redirects <- MCRedirects
  Contents <- MCContents
  IssueItems <- MCItems
  Titles <- MCTitles
  Skews <- MCSkews
  Moments <- MCMoments
  Delays <- MCDelays
  MaxComments = 2
SPECIFICATION Spec
INVARIANTS TypeOK DialsPublicOnly KeyStaysHome NothingInTheClear HonestIsAccepted EchoRecognised TitlesMatchByWords
PROPERTIES CallsEnd SignedForThisInbox
