SPECIFICATION Spec
CONSTANTS
  t1 = t1  t2 = t2  t3 = t3
  Threads = {t1, t2}
  Nobody = Nobody
  Platforms = {"VXWORKS", "WINDOWS"}
  Waits <- AnyWaits
  Exits <- NoExits
  Epoch = 1000
  Horizon = 48
  MaxDepth = 2
INVARIANTS ReturnsTellOwnership
