SPECIFICATION FairSpec
CONSTANT
  Goroutines = {g1, g2, g3}
INVARIANTS WriterExcludesAll TokensAccounted
PROPERTIES ImplementsRWLock EverybodyGetsIn
