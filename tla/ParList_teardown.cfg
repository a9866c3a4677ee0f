SPECIFICATION LiveSpec
CONSTANTS
  t1 = t1  t2 = t2
  h1 = h1  h2 = h2  h3 = h3
  n1 = n1  n2 = n2  n3 = n3  n4 = n4
  k1 = k1  k2 = k2
  Null = Null
  Threads <- TwoThreads
  Handles <- ThreeHandles
  Owner <- OwnedTwoOne
  Nodes <- TwoNodes
  Ops <- TeardownOps
  Indices <- FromOne
  Keys = {k1}
  KeyOf <- SameKey
INVARIANTS
  NothingSurvivesDelete
PROPERTIES
  SweepLeavesUsedNodes
  FreedNodesAreUnused
  MutexIsReleased
