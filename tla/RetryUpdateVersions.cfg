SPECIFICATION Spec
CONSTANTS
  Clients = {c1, c2}
  Zero = Zero
  First = First
  MaxLost = 1
  MaxRemovals = 0
INVARIANT VersionsUnique
