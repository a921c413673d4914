SPECIFICATION FairSpec
CONSTANTS
  Goroutines = {g1, g2, g3}
  Keys = {a, b, c}
  \* the calls of the README's example, with a second one that overlaps {a, b}
  KeySets = {{a, b}, {b, c}, {b}, {c}}
INVARIANTS HoldersDisjoint LockedMeansHeld WaitsForHolders
PROPERTIES CallsReturn CancelReturns
