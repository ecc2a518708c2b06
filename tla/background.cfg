CONSTANTS
  Chats = {"a", "d"}
  Unaddressed = {"d"}
  GateCap = 2
  QueueCap = 1
  MaxOpens = 3
  MaxNews = 1
  MaxFloods = 1
  MaxWindows = 1
  Files = {"f1", "f2"}
  Uploads = {"u"}
  Names = {"n"}
  NameOf <- MCNameOf
  Attempts = 2
  FeedCap = 2
  MaxRequests = 2
  MaxFaults = 1
  Account = "account"
  Channels = {"channel"}
  MaxPts = 1
  Buffer = 1
  MaxOutages = 2
  Size = 4
  Step = 3
  Percent = 50
  MaxChanges = 2
  People = {"ann", "bob"}
  Here = "here"
  There = "there"
  MaxNotices = 3
  Queries = {"q1", "q2"}
  Blank = "blank"
  Refused = {}
  PageSize = 2
  MaxEdits = 2
  MaxTabs = 1
  MaxReopens = 2
SPECIFICATION MCSpec
CHECK_DEADLOCK FALSE
INVARIANTS FetchingIsOwned ToldTruthfully
PROPERTIES AnswersAreCurrent WorkEnds OutagesHeal
