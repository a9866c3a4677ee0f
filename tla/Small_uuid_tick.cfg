SPECIFICATION SmallSpec
CONSTANTS
  t1 = t1  t2 = t2  t3 = t3
  Parts = {"uuid"}
  q1 = q1  q2 = q2
  QueueUsers = {t1, t2}
  Queues = {q1}
  NoQueue = NoQueue
  QueuePlatforms = {"LINUX", "VXWORKS"}
  SendWaits <- AnyWaits
  ReceiveWaits <- AnyWaits
  MaxMsgs = 2
  MaxSends = 4
  SemThreads = {t1, t2, t3}
  SemPlatforms = {"LINUX", "VXWORKS", "WINDOWS"}
  Waits <- SafeWaits
  InitCounts = {0, 1, 3}
  MaxCount = 2
  MaxValue = 4
  p1 = p1  p2 = p2  x1 = x1  x2 = x2  a1 = a1  a2 = a2
  one = one  many = many  others = others
  Spawners = {p1, p2}
  Addresses = {a1, a2}
  TaskIds = {x1, x2}
  Requests = {one, many, others}
  Single = {one}
  Nowhere = Nowhere
  NoRequest = NoRequest
  Resolution = 2
  UUIDS_PER_TICK = 4
  ClockSeqs = 3
  Mishaps = {"none"}
  MaxClock = 6
  MaxIssued = 3
  TimesOfDay <- TimesTold
  LastYear = 2004
  BlockLen = 4
  LengthLen = 2
  WordSize = 64
  MaxMessage = 20
  MaxPiece = 11
  Years = {1970, 2000, 2037}
  Months = {1, 2, 3, 12, 13}
  Days = {1, 28, 29, 30, 31}
  CalendarTimes = {0, 951782399, 2147483640}
  MaxTicks = 2
  Senders = {t1, t2}
  Receiver = t3
  Nil = Nil
  MaxMsgLength = 2
  Spare = 0
  MaxMsgSends = 3
  g4 = g4  g6 = g6  eth0 = eth0  eth1 = eth1  ppp0 = ppp0
  Groups = {g4, g6}
  Groups6 = {g6}
  Sources = {a1, a2}
  Interfaces = {eth0, eth1, ppp0}
  Present = {eth0, eth1}
  Addressed = {eth0}
  DefaultInterface = eth0
  NoName = NoName
  TtlArguments <- SomeTtls
  stack = stack
  ThreadIds = {x1}
  HighestPriority = 2
  PTHREAD_STACK_MIN = 2
  DefaultStack = 4
  PriorityArguments <- SomePriorities
  StackArguments = {1, 4}
  Guards = {1}
  Stacks = {stack}
  NoObject = NoObject
  u1 = u1  u2 = u2
  Callers = {p1, p2}
  Inet4 = {1, 2}
  Inet6 = {6}
  Broadcast = 2
  OtherFamily = 0
  Garbage = 9
  Processes = {p1, p2}
  k1 = k1  k2 = k2  k3 = k3
  KernelQueues = {k1, k2, k3}
  NoKernelQueue = NoKernelQueue
  Capacity = 2
  MaxEvents = 3
  Characters = {10, 65, 97, 98}
  MaxLength = 3
  MessageLength = 2
  PipeRoom = 3
  Tries = 3
  MaxWritten = 3
  Sockfds = {u1, u2}
  NoSockfd = NoSockfd
  RequestLength = 2
  MaxRequests = 2
  e1 = e1  e2 = e2  w1 = w1  w2 = w2
  Editors = {e1, e2}
  Words = {w1, w2}
  Equals = Equals
  CR = CR
  Torn = Torn
  FirstFiles <- SomeFiles
  MaxLines = 3
  MaxEdits = 3
INVARIANTS
  UuidsDiffer
CHECK_DEADLOCK FALSE
