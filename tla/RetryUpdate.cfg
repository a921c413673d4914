SPECIFICATION FairSpec
CONSTANTS
  Clients = {c1, c2, c3}
  Zero = Zero
  First = First
  MaxLost = 1
  MaxRemovals = 1
INVARIANT AppliedWhenNil
PROPERTIES BuildsOnLatest Returns
