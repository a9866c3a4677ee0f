SPECIFICATION SystemSpec
CONSTANTS
  Parts = {"sync"}
  t1 = t1  t2 = t2  t3 = t3
  Threads = {t1, t2, t3}
  Nobody = Nobody
  Platforms = {"LINUX", "VXWORKS", "WINDOWS"}
  Waits <- SafeWaits
  Exits <- OneExits
  Epoch = 1000
  Horizon = 48
  MaxDepth = 2
  h1 = h1  h2 = h2  x1 = x1  x2 = x2
  Handles = {h1, h2}
  Tids = {x1, x2}
  NoTid = NoTid
  ThreadPlatforms = {"LINUX", "VXWORKS"}
  Priorities = {0, 10}
  SelfEnding = TRUE
  c1 = c1  c2 = c2  d1 = d1  d2 = d2
  Clients = {c1, c2}
  Descriptors = {d1, d2}
  NoSocket = NoSocket
  ReadLength = 3
  StreamRoom = 4
  MaxMessages = 3
  u1 = u1  u2 = u2
  Users = {u1, u2}
  NoUser = NoUser
  Programs = {{"mutex", "cond"}, {"rwlock"}, {"sem"}}
  SyncWaits <- ShortAndLong
  Second = 3
  LastMoment = 5
  Value = 1
  MaxTokens = 2
INVARIANTS
  RwAnswersTellHolding
CHECK_DEADLOCK FALSE
