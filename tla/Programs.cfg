SPECIFICATION Spec
CONSTANTS
  Which = {"du", "memo", "chat", "wscat", "middleware", "shortener", "fixtures", "pipelines", "sqlpool", "dupcall", "tparallel", "once"}
  Off = Off
  Roots = {"r", "t"}
  Tree <- MCTree
  MaxOpen = 1
  Getters = {1, 2, 3}
  Keys = {"a", "b"}
  NoGetter = 0
  Conns = {1, 2}
  MaxLines = 1
  MaxMessages = 2
  Requests = {1, 2, 3}
  Loads <- MCLoads
  UserPaths = {"/user/1", "/user/2"}
  Posts = {1, 2, 3}
  Urls = {"u", "v"}
  RandomKeys = {1, 2, 3}
  Bad = "bad"
  FixtureTests = {1, 2}
  Mixes <- MCMixes
  Ports = {1, 2}
  MaxPolls = 1
  Limit = 3
  FetchUrls = {"url1", "url2", "url3"}
  Inputs <- MCInputs
  Feeder <- MCFeeder
  PoolCallers = {1, 2}
  MaxConns = 2
  Ids = {1, 2, 3}
  MaxRows = 1
  DoCallers = {1, 2, 3}
  MaxCalls = 3
  Root = "Run"
  ParallelTests = {"a", "b", "c", "d", "e", "f"}
  Parallel = "P"
  Goroutines = {g1, g2, g3, g4}
  Bodies = {"return", "panic", "reenter"}
  TestFunctions <- AllPrograms
INVARIANTS
  ChannelsSafe
  ResultsRight
  NothingLeft
  CallbacksRight
PROPERTIES
  NoReturnBeforeF
  TestsInOrder
  DoReturns
  ProgramsEnd
CHECK_DEADLOCK FALSE
