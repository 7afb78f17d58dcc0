SPECIFICATION ServicesSpec
CONSTANTS
  LimitKeys = {"a", "b", "c"}
  HitLimit = 2
  HitWindow = 2
  MaxBuckets = 2
  MaxNow = 4
  Limiters = {"i1", "i2"}
  Stores = {"memory", "database"}
  Fields = {"title", "home", "head"}
  HeadField = "head"
  Refusing = {"title"}
  PlainValues = {"v"}
  Tidy = "tidy"
  Messy = "messy"
  BadValue = "bad"
  NoHead = "nohead"
  NoRow = "norow"
  Updates = {"u1", "u2"}
  Processes = {"i"}
  MaxSettingsFaults = 1
  MaxSettingsStops = 1
  Pages = {"a", "b", "c"}
  Writes = {1, 2}
  LinksOf <- SomeLinks
  Starts <- SomeStarts
  Out = Out
  MaxMillis = 3
  MaxInFlight = 2
  ReadModes <- SomeReadModes
  PageSize = 2
  FeedTtl = 2
  MaxRevisions = 5
  MaxTime = 5
  ChangeModes <- SomeChangeModes
  WatchedPages = {"g1", "g2"}
  WatchPaths = {"a", "b"}
  WatchUsers = {"u1", "u2"}
  Nowhere = "nowhere"
  Effects = {1, 2, 3}
  WatchModes <- SomeWatchModes
  Criteria = {"x", "y"}
  NoQuery = ""
  HitsOf <- SomeHits
  SearchLimit = 2
  MaxSearches = 4
  SearchModes <- SomeSearchModes
  NavPages <- TreePages
  PathRank <- SomePathRank
  LabelRank <- SomeLabelRank
  NavOrder <- SomeNavOrder
  PinnedPages <- SomePinned
  MaxEntries = 5
  MaxNavSteps = 3
  NavModes <- SomeNavModes
  Databases = {"sqlite", "postgres", "mysql"}
  Repositories <- AllRepositories
  StartsOf <- SomeRows
  Servers = {"s1", "s2"}
  Layouts <- SomeLayouts
  WikiPages = {"p"}
  WikiUsers = {"u"}
  WikiRules = {"r"}
  MaxStarts = 3
  MaxWikiSteps = 2
  CopyOrder <- SomeTables
  Sources <- SomeSources
  Booted <- SomeBooted
  InsertChunk = 2
  TargetDrivers = {"postgres", "mysql"}
  MaxToolRuns = 5
  Previewers = {"v1", "v2"}
  LinkReplies <- SomeReplies
  ChannelFeed = "feed"
  FeedVideos = 3
  MaxVideos = 2
  MaxRedirects = 1
  UnfurlTtl = 1
  LatestTtl = 2
  ChangingTexts = {"feed"}
  MaxPreviewTime = 3
  MaxEditions = 1
  PreviewModes <- SomePreviewModes
INVARIANTS
  KeepersInv
  DriversInv
  BrowserInv
PROPERTY
  AnswersFollowTheWindow
CHECK_DEADLOCK FALSE
