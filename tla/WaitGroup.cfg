SPECIFICATION FairSpec
CONSTANTS
  Goroutines = {g1, g2, g3}
  \* Done, Add(1) and the Add(-2) of TestWaitGroupAddMisuse
  Increments = {1}
  Decrements = {1, 2}
  MaxOps = 2
INVARIANTS ChannelsMatchCounter WaitSawZero
PROPERTIES WakesAtZero AddReturns
\* the calls run out, and a Wait may be left with a positive counter
CHECK_DEADLOCK FALSE
