----------------------------- MODULE SystemProofs -----------------------------
(***************************************************************************)
(* Proofs about the wrappers of operating system objects, for any number   *)
(* of threads and objects.  OsMutex: for any recursion depth and waiting   *)
(* times, the answers of mutex_lock tell who owns the mutex, where waiting *)
(* times are used on Linux only and no owner ends on Windows, and they are *)
(* those of a Lock also where owners end.                                  *)
(* ThreadHandle: a handle and its thread belong together.  TcpConnect:     *)
(* nobody is told of a connection that is not there, and an attempt given  *)
(* up is reset.  PthreadSync: what the wrappers answer is held, and a wait *)
(* lasts as long as it was asked to; its mutex is a Lock as well.          *)
(***************************************************************************)
EXTENDS OsMutex, ThreadHandle, TcpConnect, PthreadSync, TLAPS

-----------------------------------------------------------------------------
(* OsMutex.                                                                 *)

(* Where a wait that ran out, or an owner that ended, is told as it is:     *)
(* waiting times on Linux only, owners that end on Linux and VxWorks.       *)
SafeUse ==
  \A p \in Platforms :
    /\ p = "WINDOWS" => Exits[p] = {}
    /\ p # "LINUX" => Waits[p] \subseteq {Forever}

IInv ==
  /\ TypeOK
  /\ ~abandoned
  /\ ~made => owner = Nobody \/ pc[owner] = "gone"
  /\ owner = Nobody <=> count = 0
  /\ \A t \in Threads :
       /\ pc[t] = "wait" => made /\ ask[t].ms \in Waits[platform]
       /\ held[t] = IF owner = t /\ pc[t] # "gone" THEN count ELSE 0

LEMMA InitHolds == Init => IInv
<1> SUFFICES ASSUME Init PROVE IInv
  OBVIOUS
<1>1. ask \in [Threads -> [ms : Nat \cup {Forever}, at : Nat]]
  BY MutexAssumption DEF Init
<1>2. TypeOK
  BY <1>1, MutexAssumption DEF Init, TypeOK
<1> QED BY <1>2, MutexAssumption DEF Init, IInv

(* A thread that asks for the mutex.                                        *)
LEMMA LockKeeps ==
  ASSUME IInv, NEW t \in Threads, NEW ms \in Waits[platform], mutex_lock(t, ms)
  PROVE  IInv'
<1>1. ms \in Nat \cup {Forever}
  BY MutexAssumption DEF IInv, TypeOK
<1>2. TypeOK'
  BY <1>1 DEF IInv, TypeOK, mutex_lock, kernel
<1> QED BY <1>2 DEF IInv, TypeOK, mutex_lock, kernel

LEMMA AcquireKeeps ==
  ASSUME IInv, NEW t \in Threads, Acquire(t)
  PROVE  IInv'
<1>1. /\ owner \in {Nobody, t} /\ owner' = t /\ count' = count + 1 /\ ~abandoned' /\ abandoned' \in BOOLEAN
      /\ pc' = [pc EXCEPT ![t] = "idle"] /\ held' = [held EXCEPT ![t] = held[t] + 1]
      /\ pc[t] = "wait" /\ UNCHANGED <<platform, made, now, ask>>
  BY DEF IInv, Acquire, Free, Return
<1>2. TypeOK'
  BY <1>1 DEF IInv, TypeOK
<1>3. held[t] = count
  <2>1. CASE owner = t
    BY <1>1, <2>1 DEF IInv
  <2>2. CASE owner = Nobody
    BY <2>2, MutexAssumption DEF IInv
  <2> QED BY <1>1, <2>1, <2>2
<1>4. \A u \in Threads \ {t} : held[u] = 0
  BY <1>1, MutexAssumption DEF IInv, TypeOK
<1>5. made
  BY <1>1 DEF IInv
<1>6. \A u \in Threads : held'[u] = IF owner' = u /\ pc'[u] # "gone" THEN count' ELSE 0
  BY <1>1, <1>3, <1>4 DEF IInv, TypeOK
<1>7. owner' = Nobody <=> count' = 0
  BY <1>1, MutexAssumption DEF IInv, TypeOK
<1> QED BY <1>1, <1>2, <1>5, <1>6, <1>7 DEF IInv, TypeOK

(* Only Linux has waiting times, and there the error is passed on.          *)
LEMMA TimeoutKeeps ==
  ASSUME SafeUse, IInv, NEW t \in Threads, Timeout(t)
  PROVE  IInv'
<1>1. platform = "LINUX"
  BY DEF SafeUse, IInv, TypeOK, Timeout, Timed
<1>2. /\ pc' = [pc EXCEPT ![t] = "idle"] /\ held' = [held EXCEPT ![t] = held[t]]
      /\ pc[t] = "wait" /\ UNCHANGED <<platform, made, now, ask, owner, count, abandoned>>
  BY <1>1 DEF Timeout, Return, TimeoutAnswer
<1> QED BY <1>2 DEF IInv, TypeOK

LEMMA UnlockKeeps ==
  ASSUME IInv, NEW t \in Threads, mutex_unlock(t)
  PROVE  IInv'
<1>1. owner = t /\ count = held[t] /\ held[t] > 0 /\ pc[t] = "idle"
  BY DEF IInv, mutex_unlock
<1>2. /\ owner' = (IF count = 1 THEN Nobody ELSE t) /\ count' = count - 1
      /\ held' = [held EXCEPT ![t] = held[t] - 1]
      /\ UNCHANGED <<platform, made, abandoned, now, pc, ask>>
  BY <1>1 DEF mutex_unlock
<1>3. TypeOK'
  BY <1>1, <1>2 DEF IInv, TypeOK
<1>4. \A u \in Threads : held'[u] = IF owner' = u /\ pc'[u] # "gone" THEN count' ELSE 0
  BY <1>1, <1>2, MutexAssumption DEF IInv, TypeOK
<1>5. owner' = Nobody <=> count' = 0
  BY <1>1, <1>2, MutexAssumption DEF IInv, TypeOK
<1>6. made
  BY <1>1, MutexAssumption DEF IInv
<1> QED BY <1>2, <1>3, <1>4, <1>5, <1>6 DEF IInv, TypeOK

(* An owner that ends on Linux or VxWorks keeps the mutex, and nobody is    *)
(* told anything.                                                           *)
LEMMA ExitKeeps ==
  ASSUME SafeUse, IInv, NEW t \in Threads, Exit(t)
  PROVE  IInv'
<1>1. platform # "WINDOWS"
  BY DEF SafeUse, IInv, TypeOK, Exit
<1>2. /\ owner = t /\ pc' = [pc EXCEPT ![t] = "gone"] /\ held' = [held EXCEPT ![t] = 0]
      /\ UNCHANGED <<platform, made, now, ask, owner, count, abandoned>>
  BY <1>1 DEF Exit
<1> QED BY <1>2 DEF IInv, TypeOK

LEMMA StepKeeps ==
  ASSUME SafeUse, IInv, [Next]_vars
  PROVE  IInv'
<1>1. CASE mutex_create
  <2>1. \A t \in Threads : held[t] = 0 /\ pc[t] # "wait"
    BY <1>1, MutexAssumption DEF IInv, TypeOK, mutex_create
  <2> QED BY <1>1, <2>1, MutexAssumption DEF IInv, TypeOK, mutex_create
<1>2. CASE mutex_delete
  <2>1. owner = Nobody \/ pc[owner] = "gone"
    BY <1>2 DEF IInv, TypeOK, mutex_delete
  <2> QED BY <1>2, <2>1 DEF IInv, TypeOK, mutex_delete
<1>3. CASE \E t \in Threads, ms \in Waits[platform] : mutex_lock(t, ms)
  BY <1>3, LockKeeps
<1>4. CASE \E t \in Threads : Acquire(t)
  BY <1>4, AcquireKeeps
<1>5. CASE \E t \in Threads : Timeout(t)
  BY <1>5, TimeoutKeeps
<1>6. CASE \E t \in Threads : mutex_unlock(t)
  BY <1>6, UnlockKeeps
<1>7. CASE \E t \in Threads : Exit(t)
  BY <1>7, ExitKeeps
<1>8. CASE Clock
  BY <1>8 DEF IInv, TypeOK, Clock, kernel, Tick
<1>9. CASE UNCHANGED vars
  BY <1>9 DEF IInv, TypeOK, vars, kernel
<1> QED BY <1>1, <1>2, <1>3, <1>4, <1>5, <1>6, <1>7, <1>8, <1>9 DEF Next

(* What mutex_lock answered is what the kernel did: a thread holds as many  *)
(* locks as it got AII_OKs for, so two threads are never both told AII_OK.  *)
(* With WAIT_FOREVER (as list.c calls it) this needs no other assumption.   *)
THEOREM AnswersTellOwnership ==
  ASSUME SafeUse
  PROVE  Spec => []ReturnsTellOwnership
<1>1. Init => IInv
  BY InitHolds
<1>2. IInv /\ [Next]_vars => IInv'
  BY StepKeeps
<1>3. IInv => ReturnsTellOwnership
  BY DEF IInv, ReturnsTellOwnership
<1> QED BY <1>1, <1>2, <1>3, PTL DEF Spec

-----------------------------------------------------------------------------
(* Lock, and how the two mutexes implement it.                              *)

(* Two threads that have the lock are one: from the guard of Obtain alone.  *)
THEOREM LockIsSafe == Answers!Spec => []Answers!Safe
<1>1. Answers!Init => Answers!Safe
  BY DEF Answers!Init, Answers!Safe
<1>2. Answers!Safe /\ [Answers!Next]_held => Answers!Safe'
  <2> SUFFICES ASSUME Answers!Safe, [Answers!Next]_held PROVE Answers!Safe'
    OBVIOUS
  <2>1. ASSUME NEW t \in Threads, Answers!Obtain(t) PROVE Answers!Safe'
    BY <2>1 DEF Answers!Safe, Answers!Obtain, Answers!Others
  <2>2. ASSUME NEW t \in Threads, Answers!Release(t) PROVE Answers!Safe'
    BY <2>2 DEF Answers!Safe, Answers!Release
  <2>3. ASSUME NEW t \in Threads, Answers!Quit(t) PROVE Answers!Safe'
    BY <2>3 DEF Answers!Safe, Answers!Quit
  <2>4. CASE UNCHANGED held
    BY <2>4 DEF Answers!Safe
  <2> QED BY <2>1, <2>2, <2>3, <2>4 DEF Answers!Next
<1> QED BY <1>1, <1>2, PTL DEF Answers!Spec

(* Waiting times are used on Linux only; owners may end on every platform.  *)
TimedOnLinux == \A p \in Platforms : p # "LINUX" => Waits[p] \subseteq {Forever}

(* A lock that a thread was told it has is the kernel's, which may count    *)
(* more: the one that came with WAIT_ABANDONED was told as an error.        *)
HeldInv ==
  /\ TypeOK
  /\ owner = Nobody <=> count = 0
  /\ \A t \in Threads :
       /\ pc[t] = "wait" => made /\ ask[t].ms \in Waits[platform]
       /\ held[t] > 0 => made /\ owner = t /\ held[t] <= count

LEMMA HeldInitHolds == Init => HeldInv /\ Answers!Init
<1> SUFFICES ASSUME Init PROVE HeldInv /\ Answers!Init
  OBVIOUS
<1>1. TypeOK
  <2>1. ask \in [Threads -> [ms : Nat \cup {Forever}, at : Nat]]
    BY MutexAssumption DEF Init
  <2> QED BY <2>1, MutexAssumption DEF Init, TypeOK
<1> QED BY <1>1, MutexAssumption DEF Init, HeldInv, Answers!Init

LEMMA HeldLock ==
  ASSUME HeldInv, NEW t \in Threads, NEW ms \in Waits[platform], mutex_lock(t, ms)
  PROVE  HeldInv' /\ UNCHANGED held
<1>1. ms \in Nat \cup {Forever}
  BY MutexAssumption DEF HeldInv, TypeOK
<1>2. TypeOK'
  BY <1>1 DEF HeldInv, TypeOK, mutex_lock, kernel
<1> QED BY <1>2 DEF HeldInv, TypeOK, mutex_lock, kernel

(* Granted: nobody else was told.  After an owner that ended it is an error *)
(* and nothing is told.                                                     *)
LEMMA HeldAcquire ==
  ASSUME HeldInv, NEW t \in Threads, Acquire(t)
  PROVE  HeldInv' /\ (Answers!Obtain(t) \/ UNCHANGED held)
<1>1. /\ owner \in {Nobody, t} /\ owner' = t /\ count' = count + 1 /\ abandoned' \in BOOLEAN
      /\ pc' = [pc EXCEPT ![t] = "idle"] /\ pc[t] = "wait"
      /\ UNCHANGED <<platform, made, now, ask>>
  BY DEF Acquire, Free, Return
<1>2. held' = held \/ held' = [held EXCEPT ![t] = held[t] + 1]
  <2>1. CASE abandoned
    BY <2>1 DEF HeldInv, TypeOK, Acquire, Return
  <2>2. CASE ~abandoned
    BY <2>2 DEF Acquire, Return
  <2> QED BY <2>1, <2>2
<1>3. TypeOK'
  <2>1. held' \in [Threads -> Nat]
    BY <1>2 DEF HeldInv, TypeOK
  <2>2. pc' \in [Threads -> {"idle", "wait", "gone"}] /\ count' \in Nat
    BY <1>1 DEF HeldInv, TypeOK
  <2> QED BY <1>1, <2>1, <2>2 DEF HeldInv, TypeOK
<1>4. \A u \in Threads \ {t} : held[u] = 0
  BY <1>1, MutexAssumption DEF HeldInv, TypeOK
<1>5. held[t] <= count /\ made
  BY <1>1, MutexAssumption DEF HeldInv, TypeOK
<1>6. owner' = Nobody <=> count' = 0
  BY <1>1, MutexAssumption DEF HeldInv, TypeOK
<1>7. \A u \in Threads : held'[u] > 0 => owner' = u /\ held'[u] <= count'
  BY <1>1, <1>2, <1>4, <1>5 DEF HeldInv, TypeOK
<1>8. HeldInv'
  BY <1>1, <1>3, <1>5, <1>6, <1>7 DEF HeldInv, TypeOK
<1> QED BY <1>2, <1>4, <1>8 DEF Answers!Obtain, Answers!Others

LEMMA HeldTimeout ==
  ASSUME TimedOnLinux, HeldInv, NEW t \in Threads, Timeout(t)
  PROVE  HeldInv' /\ UNCHANGED held
<1>1. platform = "LINUX"
  BY DEF TimedOnLinux, HeldInv, TypeOK, Timeout, Timed
<1>2. /\ pc' = [pc EXCEPT ![t] = "idle"] /\ held' = [held EXCEPT ![t] = held[t]]
      /\ pc[t] = "wait" /\ UNCHANGED <<platform, made, now, ask, owner, count, abandoned>>
  BY <1>1 DEF Timeout, Return, TimeoutAnswer
<1> QED BY <1>2 DEF HeldInv, TypeOK

LEMMA HeldUnlock ==
  ASSUME HeldInv, NEW t \in Threads, mutex_unlock(t)
  PROVE  HeldInv' /\ Answers!Release(t)
<1>1. owner = t /\ held[t] > 0 /\ held[t] <= count /\ made
  BY DEF HeldInv, mutex_unlock
<1>2. /\ owner' = (IF count = 1 THEN Nobody ELSE t) /\ count' = count - 1
      /\ held' = [held EXCEPT ![t] = held[t] - 1]
      /\ UNCHANGED <<platform, made, abandoned, now, pc, ask>>
  BY <1>1 DEF mutex_unlock
<1>3. TypeOK'
  BY <1>1, <1>2 DEF HeldInv, TypeOK
<1>4. owner' = Nobody <=> count' = 0
  BY <1>1, <1>2, MutexAssumption DEF HeldInv, TypeOK
<1>5. \A u \in Threads : held'[u] > 0 => owner' = u /\ held'[u] <= count'
  BY <1>1, <1>2, MutexAssumption DEF HeldInv, TypeOK
<1>6. HeldInv'
  BY <1>1, <1>2, <1>3, <1>4, <1>5 DEF HeldInv, TypeOK
<1> QED BY <1>1, <1>2, <1>6 DEF Answers!Release

LEMMA HeldExit ==
  ASSUME HeldInv, NEW t \in Threads, Exit(t)
  PROVE  HeldInv' /\ Answers!Quit(t)
<1>1. /\ owner = t /\ pc' = [pc EXCEPT ![t] = "gone"] /\ held' = [held EXCEPT ![t] = 0]
      /\ UNCHANGED <<platform, made, now, ask>>
      /\ \/ owner' = Nobody /\ count' = 0
         \/ UNCHANGED <<owner, count>>
  BY DEF Exit
<1>6. abandoned' \in BOOLEAN
  BY DEF Exit, HeldInv, TypeOK
<1>2. TypeOK'
  <2>1. owner' \in Threads \cup {Nobody} /\ count' \in Nat /\ abandoned' \in BOOLEAN
    BY <1>1, <1>6 DEF HeldInv, TypeOK
  <2> QED BY <1>1, <2>1 DEF HeldInv, TypeOK
<1>3. \A u \in Threads : held'[u] = 0
  BY <1>1 DEF HeldInv, TypeOK
<1>4. owner' = Nobody <=> count' = 0
  BY <1>1 DEF HeldInv
<1>5. HeldInv'
  BY <1>1, <1>2, <1>3, <1>4 DEF HeldInv, TypeOK
<1> QED BY <1>1, <1>5 DEF Answers!Quit

LEMMA HeldStep ==
  ASSUME TimedOnLinux, HeldInv, [Next]_vars
  PROVE  HeldInv' /\ [Answers!Next]_held
<1>1. CASE mutex_create
  <2>1. \A t \in Threads : held[t] = 0 /\ pc[t] # "wait"
    BY <1>1 DEF HeldInv, TypeOK, mutex_create
  <2>2. /\ made' /\ made' \in BOOLEAN /\ owner' = Nobody /\ count' = 0 /\ abandoned' \in BOOLEAN
        /\ UNCHANGED <<platform, now, pc, ask, held>>
    BY <1>1 DEF mutex_create
  <2>3. HeldInv'
    BY <2>1, <2>2 DEF HeldInv, TypeOK
  <2> QED BY <2>2, <2>3
<1>2. CASE mutex_delete
  <2>1. /\ \A t \in Threads : held[t] = 0 /\ pc[t] # "wait"
        /\ made' \in BOOLEAN
        /\ UNCHANGED <<platform, owner, count, abandoned, now, pc, ask, held>>
    BY <1>2 DEF HeldInv, TypeOK, mutex_delete
  <2> QED BY <2>1 DEF HeldInv, TypeOK
<1>3. CASE \E t \in Threads, ms \in Waits[platform] : mutex_lock(t, ms)
  BY <1>3, HeldLock
<1>4. CASE \E t \in Threads : Acquire(t)
  BY <1>4, HeldAcquire DEF Answers!Next
<1>5. CASE \E t \in Threads : Timeout(t)
  BY <1>5, HeldTimeout
<1>6. CASE \E t \in Threads : mutex_unlock(t)
  BY <1>6, HeldUnlock DEF Answers!Next
<1>7. CASE \E t \in Threads : Exit(t)
  BY <1>7, HeldExit DEF Answers!Next
<1>8. CASE Clock
  BY <1>8 DEF HeldInv, TypeOK, Clock, kernel, Tick
<1>9. CASE UNCHANGED vars
  BY <1>9 DEF HeldInv, TypeOK, vars, kernel
<1> QED BY <1>1, <1>2, <1>3, <1>4, <1>5, <1>6, <1>7, <1>8, <1>9 DEF Next

(* The mutex implements Lock for any number of threads and any depth where  *)
(* waiting times are used on Linux only, and whatever owners end: no two    *)
(* threads are told AII_OK before the first has unlocked or is gone.        *)
THEOREM MutexIsLock ==
  ASSUME TimedOnLinux
  PROVE  Spec => ImplementsLock
<1>1. Init => HeldInv /\ Answers!Init
  BY HeldInitHolds
<1>2. HeldInv /\ [Next]_vars => HeldInv' /\ [Answers!Next]_held
  BY HeldStep
<1> QED BY <1>1, <1>2, PTL DEF Spec, ImplementsLock, Answers!Spec

(* So mutual exclusion holds of the answers of mutex_lock as the callers    *)
(* see them, also where an abandoned mutex comes with an error.             *)
THEOREM MutexExcludes ==
  ASSUME TimedOnLinux
  PROVE  Spec => []Answers!Safe
<1> QED BY MutexIsLock, LockIsSafe, PTL DEF ImplementsLock

-----------------------------------------------------------------------------
(* TcpConnect.                                                              *)

States == {"closed", "fresh", "trying", "up", "refused", "listening"}
Places == {"out", "buffer", "return", "connect", "waiting", "nonblock", "start", "select",
           "yes", "no", "connected", "failed", "linger", "abandon"}
Calls == Makers \cup ToServer \cup Attempts

ConnTypeOK ==
  /\ sock \in [Descriptors -> [state : States, blocking : BOOLEAN, linger : BOOLEAN]]
  /\ call \in [Clients -> [at : Places, op : Calls \cup {"none"}, fd : Descriptors \cup {NoSocket}]]
  /\ owned \in [Clients -> SUBSET Descriptors]
  /\ told \subseteq Descriptors
  /\ lost \subseteq Descriptors

(* What a thread inside a call knows of its socket.                         *)
Fits(c) ==
  /\ At(c, "out") <=> call[c].fd = NoSocket
  /\ At(c, "out") => call[c].op = "none"
  /\ ~At(c, "out") =>
       /\ call[c].op \in Calls
       /\ call[c].fd \in owned[c] <=> call[c].op \in Attempts
       /\ call[c].op \in Makers => call[c].at \in {"buffer", "return"}
  /\ call[c].at \in {"linger", "abandon"} => call[c].op \in ToServer
  /\ At(c, "abandon") => sock[call[c].fd].linger
  /\ At(c, "buffer") => State(call[c].fd) = "fresh" /\ call[c].op \in Makers \cup ToServer
  /\ call[c].at \in {"yes", "connected"} => State(call[c].fd) = "up"

ConnInv ==
  /\ ConnTypeOK
  /\ \A c \in Clients : Fits(c)
  /\ DescriptorsAreHeld
  /\ \A d \in lost : \A c \in Clients : ~Knows(c, d)
  /\ AnswerTellsConnection

LEMMA ConnInitHolds == ConnInit => ConnInv
BY ConnectAssumption
DEF ConnInit, ConnInv, ConnTypeOK, Fits, DescriptorsAreHeld, AnswerTellsConnection, Knows,
    At, State, Outside, Closed, States, Places, Calls, Makers, ToServer, Attempts

(* A thread's step on a socket it knows leaves what the others know.        *)
LEMMA OthersFit ==
  ASSUME ConnInv, NEW c \in Clients, NEW d \in Descriptors, Knows(c, d) \/ State(d) = "closed",
         Fits(c)',
         \A e \in Descriptors \ {d} : sock'[e] = sock[e],
         \A b \in Clients \ {c} : call'[b] = call[b] /\ owned'[b] = owned[b]
  PROVE  \A b \in Clients : Fits(b)'
<1> SUFFICES ASSUME NEW b \in Clients \ {c} PROVE Fits(b)'
  OBVIOUS
<1>1. Fits(b) /\ call'[b] = call[b] /\ owned'[b] = owned[b]
  BY DEF ConnInv
<1>2. call[b].fd \in Descriptors => call[b].fd # d
  BY DEF ConnInv, DescriptorsAreHeld, Knows
<1>3. ~At(b, "out") => call[b].fd \in Descriptors /\ sock'[call[b].fd] = sock[call[b].fd]
  BY <1>1, <1>2 DEF ConnInv, ConnTypeOK, Fits
<1> QED BY <1>1, <1>3 DEF Fits, At, State

(* A step after which the same threads know the same sockets.               *)
LEMMA SameKnowledge ==
  ASSUME ConnInv, NEW c \in Clients, NEW d \in Descriptors, Knows(c, d),
         ConnTypeOK', Fits(c)', lost' = lost,
         \A e \in Descriptors \ {d} : sock'[e] = sock[e],
         State(d)' # "closed",
         told' \subseteq told \cup {d}, d \in told' => State(d)' = "up",
         \A b \in Clients \ {c} : call'[b] = call[b] /\ owned'[b] = owned[b],
         \A e \in Descriptors : Knows(c, e)' <=> Knows(c, e)
  PROVE  ConnInv'
<1>1. \A b \in Clients : Fits(b)'
  BY OthersFit
<1>2. \A b \in Clients, e \in Descriptors : Knows(b, e)' <=> Knows(b, e)
  BY DEF Knows
<1>3. State(d) # "closed"
  BY DEF ConnInv, DescriptorsAreHeld
<1>4. \A e \in Descriptors : State(e)' = "closed" <=> State(e) = "closed"
  BY <1>3 DEF State
<1>5. DescriptorsAreHeld'
  BY <1>2, <1>4 DEF ConnInv, DescriptorsAreHeld
<1>6. \A e \in lost' : \A b \in Clients : ~Knows(b, e)'
  BY <1>2 DEF ConnInv, ConnTypeOK
<1>7. AnswerTellsConnection'
  BY DEF ConnInv, ConnTypeOK, AnswerTellsConnection, State
<1> QED BY <1>1, <1>5, <1>6, <1>7 DEF ConnInv

(* In each of these the thread is in a call on a socket it knows.           *)
LEMMA InCall ==
  ASSUME ConnInv, NEW c \in Clients, ~At(c, "out")
  PROVE  /\ call[c].fd \in Descriptors
         /\ Knows(c, call[c].fd)
         /\ State(call[c].fd) # "closed"
         /\ call[c].fd \notin lost
<1>1. call[c].fd \in Descriptors
  BY DEF ConnInv, ConnTypeOK, Fits
<1>2. Knows(c, call[c].fd)
  BY DEF Knows
<1> QED BY <1>1, <1>2 DEF ConnInv, DescriptorsAreHeld

(* A step inside a call, on the socket of the call, that ends where Fits    *)
(* says and tells its caller nothing.                                       *)
LEMMA StepInCall ==
  ASSUME ConnInv, NEW c \in Clients, ~At(c, "out"),
         NEW s \in [state : States \ {"closed"}, blocking : BOOLEAN, linger : BOOLEAN],
         NEW p \in Places,
         sock' = [sock EXCEPT ![call[c].fd] = s],
         \/ p # "out" /\ GoTo(c, p)
         \/ p = "out" /\ call[c].op \in Attempts /\ Leave(c),
         UNCHANGED <<owned, told, lost>>,
         State(call[c].fd) = "up" => s.state = "up",
         p \in {"linger", "abandon"} => call[c].op \in ToServer,
         p = "abandon" => s.linger,
         p # "buffer",
         call[c].op \in Makers => p = "return",
         p \in {"yes", "connected"} => s.state = "up"
  PROVE  ConnInv'
<1> DEFINE d == call[c].fd
<1>1. d \in Descriptors /\ Knows(c, d) /\ State(d) # "closed"
  BY InCall
<1>2. sock'[d] = s /\ \A e \in Descriptors \ {d} : sock'[e] = sock[e]
  BY <1>1 DEF ConnInv, ConnTypeOK
<1>3. \A b \in Clients \ {c} : call'[b] = call[b] /\ owned'[b] = owned[b]
  BY DEF ConnInv, ConnTypeOK, GoTo, Leave
<1>4. CASE p # "out"
  <2>1. call' = [call EXCEPT ![c].at = p] /\ call'[c] = [call[c] EXCEPT !.at = p]
    BY <1>4 DEF GoTo, ConnInv, ConnTypeOK
  <2>2. ConnTypeOK'
    BY <1>1, <2>1 DEF ConnInv, ConnTypeOK
  <2>3. Fits(c)'
    BY <1>1, <1>2, <1>4, <2>1, ConnectAssumption DEF ConnInv, ConnTypeOK, Fits, At, State
  <2>4. \A e \in Descriptors : Knows(c, e)' <=> Knows(c, e)
    BY <2>1 DEF Knows, ConnInv, ConnTypeOK
  <2> QED BY <1>1, <1>2, <1>3, <2>2, <2>3, <2>4, SameKnowledge
          DEF State, ConnInv, AnswerTellsConnection
<1>5. CASE p = "out"
  <2>1. call' = [call EXCEPT ![c] = Outside] /\ call'[c] = Outside /\ call[c].op \in Attempts
    BY <1>5 DEF Leave, ConnInv, ConnTypeOK
  <2>2. ConnTypeOK'
    BY <1>1, <2>1 DEF ConnInv, ConnTypeOK, Outside, Places
  <2>3. Fits(c)'
    BY <2>1 DEF Fits, At, Outside
  <2>4. \A e \in Descriptors : Knows(c, e)' <=> Knows(c, e)
    BY <2>1, ConnectAssumption DEF Knows, ConnInv, Fits, Outside
  <2> QED BY <1>1, <1>2, <1>3, <2>2, <2>3, <2>4, SameKnowledge
          DEF State, ConnInv, AnswerTellsConnection
<1> QED BY <1>4, <1>5

(* A descriptor that its thread forgets by closing it.                      *)
LEMMA ShutKeeps ==
  ASSUME ConnInv, NEW c \in Clients, NEW d \in Descriptors, Knows(c, d), d \notin lost,
         Shut(d), lost' = lost, ConnTypeOK', Fits(c)',
         \A b \in Clients \ {c} : call'[b] = call[b] /\ owned'[b] = owned[b],
         \A e \in Descriptors : Knows(c, e)' <=> Knows(c, e) /\ e # d
  PROVE  ConnInv'
<1>1. sock'[d] = Closed /\ \A e \in Descriptors \ {d} : sock'[e] = sock[e]
  BY DEF Shut, ConnInv, ConnTypeOK
<1>2. \A b \in Clients : Fits(b)'
  BY <1>1, OthersFit
<1>3. \A b \in Clients, e \in Descriptors : Knows(b, e)' <=> Knows(b, e) /\ e # d
  BY DEF Knows, ConnInv, DescriptorsAreHeld
<1>4. State(d)' = "closed" /\ \A e \in Descriptors \ {d} : State(e)' = State(e)
  BY <1>1 DEF State, Closed
<1>5. DescriptorsAreHeld'
  BY <1>3, <1>4 DEF ConnInv, DescriptorsAreHeld
<1>6. \A e \in lost' : \A b \in Clients : ~Knows(b, e)'
  BY <1>3 DEF ConnInv, ConnTypeOK
<1>7. AnswerTellsConnection'
  BY <1>4 DEF ConnInv, ConnTypeOK, AnswerTellsConnection, Shut
<1> QED BY <1>2, <1>5, <1>6, <1>7 DEF ConnInv

(* A descriptor that was closed and that a thread gets to know.             *)
LEMMA OpenKeeps ==
  ASSUME ConnInv, NEW c \in Clients, NEW d \in Descriptors, State(d) = "closed",
         lost' = lost, told' \subseteq told \cup {d}, d \in told' => State(d)' = "up",
         ConnTypeOK', Fits(c)', State(d)' # "closed",
         \A e \in Descriptors \ {d} : sock'[e] = sock[e],
         \A b \in Clients \ {c} : call'[b] = call[b] /\ owned'[b] = owned[b],
         \A e \in Descriptors : Knows(c, e)' <=> Knows(c, e) \/ e = d
  PROVE  ConnInv'
<1>1. \A b \in Clients : Fits(b)'
  BY OthersFit
<1>2. \A b \in Clients, e \in Descriptors : Knows(b, e)' <=> Knows(b, e) \/ (b = c /\ e = d)
  BY DEF Knows
<1>3. \A e \in Descriptors \ {d} : State(e)' = State(e)
  BY DEF State
<1>4. d \notin lost /\ \A b \in Clients : ~Knows(b, d)
  BY DEF ConnInv, DescriptorsAreHeld
<1>5. DescriptorsAreHeld'
  BY <1>2, <1>3, <1>4 DEF ConnInv, DescriptorsAreHeld
<1>6. \A e \in lost' : \A b \in Clients : ~Knows(b, e)'
  BY <1>2, <1>4 DEF ConnInv, ConnTypeOK
<1>7. AnswerTellsConnection'
  BY <1>3 DEF ConnInv, ConnTypeOK, AnswerTellsConnection
<1> QED BY <1>1, <1>5, <1>6, <1>7 DEF ConnInv

LEMMA InCallKeeps ==
  ASSUME ConnInv, NEW c \in Clients,
         \/ SetsockRecvBuf(c) \/ Connect(c) \/ NotConnected(c) \/ NonBlocking(c) \/ Start(c)
         \/ Select(c) \/ Restore(c) \/ TimedOut(c) \/ SetsockLingerOn(c)
  PROVE  ConnInv'
<1> DEFINE d == call[c].fd
           op == call[c].op
           s0 == sock[d]
<1>1. ~At(c, "out")
  BY DEF SetsockRecvBuf, Connect, NotConnected, NonBlocking, Start, Select, Restore, TimedOut,
         SetsockLingerOn, At
<1>2. /\ d \in Descriptors /\ State(d) # "closed" /\ op \in Calls
      /\ s0 \in [state : States \ {"closed"}, blocking : BOOLEAN, linger : BOOLEAN]
  BY <1>1, InCall DEF ConnInv, ConnTypeOK, Fits, State
<1>3. sock = [sock EXCEPT ![d] = s0]
  BY <1>2 DEF ConnInv, ConnTypeOK
<1>4. /\ \A s \in States : [s0 EXCEPT !.state = s] \in [state : States, blocking : BOOLEAN, linger : BOOLEAN]
      /\ \A s : Becomes(d, s) => sock' = [sock EXCEPT ![d] = [s0 EXCEPT !.state = s]]
  BY <1>2 DEF Becomes, ConnInv, ConnTypeOK
<1>5. ASSUME NEW t \in States \ {"closed"}, sock' = [sock EXCEPT ![d] = [s0 EXCEPT !.state = t]],
             State(d) = "up" => t = "up", UNCHANGED <<owned, told, lost>>,
             op \notin Makers, Failed(c)
      PROVE  ConnInv'
  <2>1. CASE op \in ToServer
    BY <1>1, <1>2, <1>5, <2>1, StepInCall DEF Failed, Places, State
  <2>2. CASE op \in Attempts
    BY <1>1, <1>2, <1>5, <2>2, StepInCall DEF Failed, Places, State, Attempts, ToServer
  <2> QED BY <1>2, <1>5, <2>1, <2>2 DEF Calls
<1>6. ASSUME NEW t \in States \ {"closed"}, sock' = [sock EXCEPT ![d] = [s0 EXCEPT !.state = t]],
             State(d) = "up" => t = "up", UNCHANGED <<owned, told, lost>>,
             op \notin Makers, NEW p \in {"connect", "waiting", "nonblock", "start", "select", "no"},
             GoTo(c, p)
      PROVE  ConnInv'
  BY <1>1, <1>2, <1>6, StepInCall DEF Places, State
<1>7. [s0 EXCEPT !.state = State(d)] = s0 /\ State(d) \in States \ {"closed"}
  BY <1>2 DEF State
<1>8. \A p : call[c].at = p /\ p \notin {"buffer", "return"} => op \notin Makers
  BY <1>1 DEF ConnInv, Fits
<1>9. CASE SetsockRecvBuf(c)
  <2>1. op \in Makers \cup ToServer /\ After(op) \in {"return", "connect", "nonblock"}
        /\ (op \in Makers <=> After(op) = "return")
    BY <1>9 DEF SetsockRecvBuf, ConnInv, Fits, At, After, Makers, ToServer
  <2> QED BY <1>1, <1>2, <1>3, <1>9, <2>1, StepInCall DEF SetsockRecvBuf, Places, State
<1>10. CASE Connect(c)
  <2>1. CASE State(d) \in {"fresh", "trying"} /\ Becomes(d, "trying") /\ GoTo(c, "waiting")
    BY <1>4, <1>6, <1>8, <1>10, <2>1 DEF Connect, At, States
  <2>2. CASE State(d) = "up" /\ Failed(c) /\ UNCHANGED sock
    BY <1>3, <1>5, <1>7, <1>8, <1>10, <2>2 DEF Connect, At, States
  <2>3. CASE State(d) = "refused" /\ Becomes(d, "fresh") /\ Failed(c)
    BY <1>4, <1>5, <1>8, <1>10, <2>3 DEF Connect, At, States
  <2> QED BY <1>10, <2>1, <2>2, <2>3 DEF Connect
<1>11. CASE NotConnected(c)
  BY <1>4, <1>5, <1>8, <1>11 DEF NotConnected, At, States
<1>12. CASE NonBlocking(c)
  <2> DEFINE s == [s0 EXCEPT !.blocking = FALSE]
  <2>1. sock' = [sock EXCEPT ![d] = s] /\ s.state = State(d)
        /\ s \in [state : States \ {"closed"}, blocking : BOOLEAN, linger : BOOLEAN]
    BY <1>2, <1>12 DEF NonBlocking, State, ConnInv, ConnTypeOK
  <2> QED BY <1>1, <1>8, <1>12, <2>1, StepInCall DEF NonBlocking, Places, At
<1>13. CASE Start(c)
  <2>1. CASE State(d) = "fresh" /\ Becomes(d, "trying") /\ GoTo(c, "select")
    BY <1>4, <1>6, <1>8, <1>13, <2>1 DEF Start, At, States
  <2>2. CASE State(d) = "fresh" /\ Becomes(d, "up") /\ GoTo(c, "yes")
    <3>1. [s0 EXCEPT !.state = "up"] \in [state : States \ {"closed"}, blocking : BOOLEAN, linger : BOOLEAN]
      BY <1>2 DEF States
    <3> QED BY <1>1, <1>2, <1>4, <1>8, <1>13, <2>2, <3>1, StepInCall DEF Start, At, Places
  <2>3. CASE State(d) \in {"trying", "up"} /\ GoTo(c, "no") /\ UNCHANGED sock
    BY <1>3, <1>6, <1>7, <1>8, <1>13, <2>3 DEF Start, At, States
  <2>4. CASE State(d) \in {"fresh", "refused"} /\ Becomes(d, "fresh") /\ GoTo(c, "no")
    BY <1>4, <1>6, <1>8, <1>13, <2>4 DEF Start, At, States
  <2> QED BY <1>13, <2>1, <2>2, <2>3, <2>4 DEF Start
<1>14. CASE Select(c)
  <2>1. CASE State(d) = "up"
    BY <1>1, <1>2, <1>4, <1>7, <1>8, <1>14, <2>1, StepInCall DEF Select, SoError, At, Places
  <2>2. CASE State(d) # "up"
    BY <1>2, <1>4, <1>6, <1>7, <1>8, <1>14, <2>2 DEF Select, SoError, At, States
  <2> QED BY <2>1, <2>2
<1>15. CASE Restore(c)
  <2> DEFINE s == [s0 EXCEPT !.blocking = TRUE]
  <2>1. sock' = [sock EXCEPT ![d] = s] /\ s.state = State(d)
        /\ s \in [state : States \ {"closed"}, blocking : BOOLEAN, linger : BOOLEAN]
    BY <1>2, <1>15 DEF Restore, State, ConnInv, ConnTypeOK
  <2>2. At(c, "yes") => State(d) = "up"
    BY DEF ConnInv, Fits, At
  <2> QED BY <1>1, <1>8, <1>15, <2>1, <2>2, StepInCall DEF Restore, Places, At
<1>16. CASE TimedOut(c)
  BY <1>3, <1>5, <1>7, <1>8, <1>16 DEF TimedOut, At
<1>17. CASE SetsockLingerOn(c)
  <2> DEFINE s == [s0 EXCEPT !.linger = TRUE]
  <2>1. sock' = [sock EXCEPT ![d] = s] /\ s.state = State(d) /\ s.linger
        /\ s \in [state : States \ {"closed"}, blocking : BOOLEAN, linger : BOOLEAN]
    BY <1>2, <1>17 DEF SetsockLingerOn, State, ConnInv, ConnTypeOK
  <2>2. op \in ToServer
    BY <1>17 DEF SetsockLingerOn, ConnInv, Fits, At
  <2> QED BY <1>1, <1>8, <1>17, <2>1, <2>2, StepInCall DEF SetsockLingerOn, Places, At
<1> QED BY <1>9, <1>10, <1>11, <1>12, <1>13, <1>14, <1>15, <1>16, <1>17

LEMMA SocketKeeps ==
  ASSUME ConnInv, NEW c \in Clients, NEW op \in Makers \cup ToServer, NEW sized \in BOOLEAN,
         Socket(c, op, sized)
  PROVE  ConnInv'
<1>1. PICK d \in Descriptors :
        /\ State(d) = "closed"
        /\ sock' = [sock EXCEPT ![d] = Fresh]
        /\ call' = [call EXCEPT ![c] =
                      [at |-> IF sized THEN "buffer" ELSE After(op), op |-> op, fd |-> d]]
  BY DEF Socket
<1> DEFINE p == IF sized THEN "buffer" ELSE After(op)
<1>2. /\ p \in {"buffer", "return", "connect", "nonblock"}
      /\ op \in Makers => p \in {"buffer", "return"}
  BY DEF After, Makers, ToServer
<1>3. call'[c] = [at |-> p, op |-> op, fd |-> d] /\ sock'[d] = Fresh
  BY <1>1 DEF ConnInv, ConnTypeOK
<1>4. Fresh \in [state : States, blocking : BOOLEAN, linger : BOOLEAN] /\ Fresh.state = "fresh"
  BY DEF Fresh, Closed, States
<1>5. ConnTypeOK'
  BY <1>1, <1>2, <1>4 DEF ConnInv, ConnTypeOK, Socket, Places, Calls
<1>6. At(c, "out") /\ call[c].fd = NoSocket /\ d \notin owned[c]
  BY <1>1 DEF Socket, ConnInv, Fits, DescriptorsAreHeld, Knows
<1>7. Fits(c)'
  BY <1>2, <1>3, <1>4, <1>6, ConnectAssumption
  DEF Fits, At, State, Calls, Socket, Makers, ToServer, Attempts
<1>8. \A e \in Descriptors : Knows(c, e)' <=> Knows(c, e) \/ e = d
  BY <1>3, <1>6, ConnectAssumption DEF Knows, Socket
<1>9. State(d)' = "fresh" /\ \A e \in Descriptors \ {d} : sock'[e] = sock[e]
  BY <1>1, <1>3, <1>4 DEF State, ConnInv, ConnTypeOK
<1>10. d \notin told
  BY <1>1 DEF ConnInv, AnswerTellsConnection
<1>11. \A b \in Clients \ {c} : call'[b] = call[b] /\ owned'[b] = owned[b]
  BY <1>1 DEF Socket, ConnInv, ConnTypeOK
<1> QED BY <1>1, <1>5, <1>7, <1>8, <1>9, <1>10, <1>11, OpenKeeps DEF Socket

LEMMA AcceptKeeps ==
  ASSUME ConnInv, NEW c \in Clients, NEW d \in Descriptors, Accept(c, d)
  PROVE  ConnInv'
<1>1. PICK n \in Descriptors :
        /\ State(n) = "closed"
        /\ sock' = [sock EXCEPT ![n] = [Fresh EXCEPT !.state = "up"]]
        /\ Give(c, n)
        /\ told' = told \cup {n}
  BY DEF Accept
<1>2. /\ [Fresh EXCEPT !.state = "up"] \in [state : States, blocking : BOOLEAN, linger : BOOLEAN]
      /\ [Fresh EXCEPT !.state = "up"].state = "up"
  BY DEF Fresh, Closed, States
<1>3. sock'[n] = [Fresh EXCEPT !.state = "up"] /\ owned'[c] = owned[c] \cup {n}
  BY <1>1 DEF Give, ConnInv, ConnTypeOK
<1>4. ConnTypeOK'
  BY <1>1, <1>2 DEF ConnInv, ConnTypeOK, Accept, Give
<1>5. call' = call /\ At(c, "out")
  BY DEF Accept, Owns
<1>6. Fits(c)'
  BY <1>5 DEF ConnInv, Fits, At
<1>7. \A e \in Descriptors : Knows(c, e)' <=> Knows(c, e) \/ e = n
  BY <1>3, <1>5 DEF Knows
<1>8. State(n)' = "up" /\ \A e \in Descriptors \ {n} : sock'[e] = sock[e]
  BY <1>1, <1>2, <1>3 DEF State, ConnInv, ConnTypeOK
<1>9. \A b \in Clients \ {c} : call'[b] = call[b] /\ owned'[b] = owned[b]
  BY <1>1, <1>5 DEF Give, ConnInv, ConnTypeOK
<1> QED BY <1>1, <1>4, <1>6, <1>7, <1>8, <1>9, OpenKeeps DEF Accept

(* The two ways of closing.                                                 *)
LEMMA GiveUpKeeps ==
  ASSUME ConnInv, NEW c \in Clients, ~At(c, "out"), call[c].op \in ToServer,
         Shut(call[c].fd), Leave(c), UNCHANGED <<owned, lost>>
  PROVE  ConnInv'
<1> DEFINE d == call[c].fd
<1>1. d \in Descriptors /\ Knows(c, d) /\ d \notin lost /\ d \notin owned[c]
  BY InCall DEF ConnInv, Fits, ToServer, Attempts
<1>2. call' = [call EXCEPT ![c] = Outside] /\ call'[c] = Outside
  BY DEF Leave, ConnInv, ConnTypeOK
<1>3. ConnTypeOK'
  BY <1>1, <1>2 DEF ConnInv, ConnTypeOK, Outside, Places, Shut, Closed, States
<1>4. Fits(c)'
  BY <1>2 DEF Fits, At, Outside
<1>5. \A e \in Descriptors : Knows(c, e)' <=> Knows(c, e) /\ e # d
  BY <1>1, <1>2, ConnectAssumption DEF Knows, Outside
<1>6. \A b \in Clients \ {c} : call'[b] = call[b] /\ owned'[b] = owned[b]
  BY <1>2 DEF ConnInv, ConnTypeOK
<1> QED BY <1>1, <1>3, <1>4, <1>5, <1>6, ShutKeeps

LEMMA CloseKeeps ==
  ASSUME ConnInv, NEW c \in Clients, NEW d \in Descriptors, Close(c, d)
  PROVE  ConnInv'
<1>1. At(c, "out") /\ d \in owned[c] /\ Knows(c, d) /\ call' = call /\ lost' = lost /\ Shut(d)
  BY DEF Close, Owns, Knows
<1>2. d \notin lost /\ call[c].fd = NoSocket
  BY <1>1 DEF ConnInv, Fits
<1>3. owned'[c] = owned[c] \ {d} /\ owned' = [owned EXCEPT ![c] = @ \ {d}]
  BY DEF Close, ConnInv, ConnTypeOK
<1>4. ConnTypeOK'
  BY <1>1, <1>3 DEF ConnInv, ConnTypeOK, Shut, Closed, States
<1>5. Fits(c)'
  BY <1>1 DEF ConnInv, Fits, At
<1>6. \A e \in Descriptors : Knows(c, e)' <=> Knows(c, e) /\ e # d
  BY <1>1, <1>2, <1>3, ConnectAssumption DEF Knows
<1>7. \A b \in Clients \ {c} : call'[b] = call[b] /\ owned'[b] = owned[b]
  BY <1>1, <1>3 DEF ConnInv, ConnTypeOK
<1> QED BY <1>1, <1>2, <1>4, <1>5, <1>6, <1>7, ShutKeeps

(* A call that answers with its descriptor.                                 *)
LEMMA AnswerKeeps ==
  ASSUME ConnInv, NEW c \in Clients, ReturnSocket(c) \/ Connected(c) \/ TimedConnected(c)
  PROVE  ConnInv'
<1>1. /\ ~At(c, "out") /\ Give(c, call[c].fd) /\ Leave(c) /\ UNCHANGED <<sock, lost>>
      /\ \/ told' = told
         \/ told' = told \cup {call[c].fd} /\ State(call[c].fd) = "up"
  <2>1. At(c, "connected") => State(call[c].fd) = "up"
    BY DEF ConnInv, Fits, At
  <2> QED BY <2>1 DEF ReturnSocket, Connected, TimedConnected, Succeeded, At
<1>2. PICK d \in Descriptors : d = call[c].fd /\ Knows(c, d) /\ State(d) # "closed"
  BY <1>1, InCall
<1>3. /\ call' = [call EXCEPT ![c] = Outside] /\ call'[c] = Outside
      /\ owned' = [owned EXCEPT ![c] = @ \cup {d}] /\ owned'[c] = owned[c] \cup {d}
  BY <1>1, <1>2 DEF Leave, Give, ConnInv, ConnTypeOK
<1>4. ConnTypeOK'
  BY <1>1, <1>2, <1>3 DEF ConnInv, ConnTypeOK, Outside, Places
<1>5. Fits(c)'
  BY <1>3 DEF Fits, At, Outside
<1>6. \A e \in Descriptors : Knows(c, e)' <=> Knows(c, e)
  BY <1>2, <1>3, ConnectAssumption DEF Knows, Outside
<1>7. \A b \in Clients \ {c} : call'[b] = call[b] /\ owned'[b] = owned[b]
  BY <1>3 DEF ConnInv, ConnTypeOK
<1>8. d \in told' => State(d)' = "up"
  BY <1>1, <1>2 DEF ConnInv, AnswerTellsConnection, State
<1>9. State(d)' # "closed" /\ told' \subseteq told \cup {d}
  BY <1>1, <1>2 DEF State
<1> QED BY <1>1, <1>2, <1>4, <1>5, <1>6, <1>7, <1>8, <1>9, SameKnowledge

(* A descriptor that its thread forgets without closing it.                 *)
LEMMA NoBufferKeeps ==
  ASSUME ConnInv, NEW c \in Clients, NoBuffer(c)
  PROVE  ConnInv'
<1> DEFINE d == call[c].fd
<1>1. ~At(c, "out") /\ UNCHANGED <<sock, owned, told>> /\ lost' = lost \cup {d}
  BY DEF NoBuffer, At
<1>2. d \in Descriptors /\ Knows(c, d) /\ State(d) # "closed" /\ d \notin owned[c]
  BY <1>1, InCall DEF NoBuffer, ConnInv, Fits, Makers, Attempts
<1>3. call' = [call EXCEPT ![c] = Outside] /\ call'[c] = Outside
  BY DEF NoBuffer, Leave, ConnInv, ConnTypeOK
<1>4. ConnTypeOK'
  BY <1>1, <1>2, <1>3 DEF ConnInv, ConnTypeOK, Outside, Places
<1>5. Fits(c)'
  BY <1>3 DEF Fits, At, Outside
<1>6. \A b \in Clients \ {c} : call'[b] = call[b] /\ owned'[b] = owned[b]
  BY <1>1, <1>3 DEF ConnInv, ConnTypeOK
<1>7. \A b \in Clients : Fits(b)'
  BY <1>1, <1>2, <1>5, <1>6, OthersFit
<1>8. \A b \in Clients, e \in Descriptors : Knows(b, e)' <=> Knows(b, e) /\ e # d
  <2>1. \A b \in Clients \ {c} : ~Knows(b, d)
    BY <1>2 DEF ConnInv, DescriptorsAreHeld
  <2>2. \A e \in Descriptors : Knows(c, e)' <=> Knows(c, e) /\ e # d
    BY <1>1, <1>2, <1>3, ConnectAssumption DEF Knows, Outside
  <2>3. \A b \in Clients \ {c}, e \in Descriptors : Knows(b, e)' <=> Knows(b, e)
    BY <1>6 DEF Knows
  <2> QED BY <2>1, <2>2, <2>3
<1>9. DescriptorsAreHeld'
  BY <1>1, <1>2, <1>8 DEF ConnInv, DescriptorsAreHeld, State
<1>10. \A e \in lost' : \A b \in Clients : ~Knows(b, e)'
  BY <1>1, <1>2, <1>8 DEF ConnInv, ConnTypeOK
<1> QED BY <1>1, <1>4, <1>7, <1>9, <1>10 DEF ConnInv, AnswerTellsConnection, State

(* A thread outside the calls, on a descriptor of its own.                  *)
LEMMA HolderKeeps ==
  ASSUME ConnInv, NEW c \in Clients, NEW d \in Descriptors,
         Listen(c, d) \/ SetsockNBlock(c, d) \/ SetsockBlock(c, d)
         \/ \E op \in Attempts : Try(c, op, d)
  PROVE  ConnInv'
<1>1. At(c, "out") /\ d \in owned[c] /\ Knows(c, d) /\ UNCHANGED <<owned, told, lost>>
  BY DEF Listen, SetsockNBlock, SetsockBlock, Try, Owns, Knows
<1>2. State(d) # "closed" /\ call[c].fd = NoSocket
  BY <1>1 DEF ConnInv, DescriptorsAreHeld, Fits
<1>3. CASE \E op \in Attempts : Try(c, op, d)
  <2>1. PICK op \in Attempts :
          call' = [call EXCEPT ![c] =
                    [at |-> IF op = "Connect" THEN "connect" ELSE "nonblock", op |-> op, fd |-> d]]
    BY <1>3 DEF Try
  <2>2. /\ call'[c].op = op /\ call'[c].fd = d /\ call'[c].at \in {"connect", "nonblock"}
        /\ sock' = sock
    BY <1>3, <2>1 DEF Try, ConnInv, ConnTypeOK
  <2>3. ConnTypeOK'
    BY <1>1, <2>1, <2>2 DEF ConnInv, ConnTypeOK, Places, Calls
  <2>4. Fits(c)'
    BY <1>1, <2>2, ConnectAssumption DEF Fits, At, Calls, Makers, Attempts
  <2>5. \A e \in Descriptors : Knows(c, e)' <=> Knows(c, e)
    BY <1>1, <1>2, <2>2, ConnectAssumption DEF Knows
  <2>6. \A b \in Clients \ {c} : call'[b] = call[b] /\ owned'[b] = owned[b]
    BY <1>1, <2>1 DEF ConnInv, ConnTypeOK
  <2>7. d \in told' => State(d)' = "up"
    BY <1>1, <2>2 DEF ConnInv, AnswerTellsConnection, State
  <2> QED BY <1>1, <1>2, <2>2, <2>3, <2>4, <2>5, <2>6, <2>7, SameKnowledge DEF State
<1>4. CASE Listen(c, d) \/ SetsockNBlock(c, d) \/ SetsockBlock(c, d)
  <2>1. PICK s \in [state : States \ {"closed"}, blocking : BOOLEAN, linger : BOOLEAN] :
          /\ sock' = [sock EXCEPT ![d] = s]
          /\ State(d) = "up" => s.state = "up"
    <3> DEFINE s0 == sock[d]
    <3>1. s0 \in [state : States \ {"closed"}, blocking : BOOLEAN, linger : BOOLEAN] /\ State(d) = s0.state
      BY <1>2 DEF ConnInv, ConnTypeOK, State
    <3>2. CASE Listen(c, d)
      <4> DEFINE s == [s0 EXCEPT !.state = "listening"]
      <4>1. sock' = [sock EXCEPT ![d] = s] /\ State(d) # "up"
        BY <3>2 DEF Listen, Becomes, ConnInv, ConnTypeOK
      <4>2. s \in [state : States \ {"closed"}, blocking : BOOLEAN, linger : BOOLEAN]
        BY <3>1 DEF States
      <4> QED BY <4>1, <4>2
    <3>3. CASE SetsockNBlock(c, d)
      <4> DEFINE s == [s0 EXCEPT !.blocking = FALSE]
      <4>1. sock' = [sock EXCEPT ![d] = s] /\ s.state = s0.state
        BY <3>1, <3>3 DEF SetsockNBlock, ConnInv, ConnTypeOK
      <4>2. s \in [state : States \ {"closed"}, blocking : BOOLEAN, linger : BOOLEAN]
        BY <3>1
      <4> QED BY <3>1, <4>1, <4>2
    <3>4. CASE SetsockBlock(c, d)
      <4> DEFINE s == [s0 EXCEPT !.blocking = TRUE]
      <4>1. sock' = [sock EXCEPT ![d] = s] /\ s.state = s0.state
        BY <3>1, <3>4 DEF SetsockBlock, ConnInv, ConnTypeOK
      <4>2. s \in [state : States \ {"closed"}, blocking : BOOLEAN, linger : BOOLEAN]
        BY <3>1
      <4> QED BY <3>1, <4>1, <4>2
    <3> QED BY <1>4, <3>2, <3>3, <3>4
  <2>2. call' = call
    BY <1>4 DEF Listen, SetsockNBlock, SetsockBlock
  <2>3. sock'[d] = s /\ \A e \in Descriptors \ {d} : sock'[e] = sock[e]
    BY <2>1 DEF ConnInv, ConnTypeOK
  <2>4. ConnTypeOK'
    BY <1>1, <2>1, <2>2 DEF ConnInv, ConnTypeOK
  <2>5. Fits(c)'
    BY <1>1, <2>2 DEF ConnInv, Fits, At
  <2>6. d \in told' => State(d)' = "up"
    BY <1>1, <2>1, <2>3 DEF ConnInv, AnswerTellsConnection, State
  <2>7. \A b \in Clients : Knows(b, d)' <=> Knows(b, d)
    BY <1>1, <2>2 DEF Knows
  <2>8. \A e \in Descriptors : Knows(c, e)' <=> Knows(c, e)
    BY <1>1, <2>2 DEF Knows
  <2>9. State(d)' # "closed"
    BY <2>1, <2>3 DEF State
  <2> QED BY <1>1, <2>2, <2>3, <2>4, <2>5, <2>6, <2>8, <2>9, SameKnowledge
<1> QED BY <1>3, <1>4

LEMMA ResolveKeeps ==
  ASSUME ConnInv, NEW d \in Descriptors, Resolve(d)
  PROVE  ConnInv'
<1>1. PICK s \in {"up", "refused"} : Becomes(d, s)
  BY DEF Resolve
<1>2. State(d) = "trying" /\ UNCHANGED <<call, owned, told, lost>>
  BY DEF Resolve
<1>3. /\ State(d)' = s
      /\ \A e \in Descriptors \ {d} : sock'[e] = sock[e]
      /\ \A e \in Descriptors : sock'[e].linger = sock[e].linger
  BY <1>1 DEF Becomes, State, ConnInv, ConnTypeOK
<1>4. ConnTypeOK'
  BY <1>1, <1>2 DEF ConnInv, ConnTypeOK, Becomes, States
<1>5. \A b \in Clients : Fits(b)'
  <2> TAKE b \in Clients
  <2>1. Fits(b) /\ call'[b] = call[b] /\ owned'[b] = owned[b]
        /\ (~At(b, "out") => call[b].fd \in Descriptors)
    BY <1>2 DEF ConnInv, ConnTypeOK, Fits
  <2>2. ~At(b, "out") => sock'[call[b].fd].linger = sock[call[b].fd].linger
    BY <1>3, <2>1
  <2>3. ~At(b, "out") /\ State(call[b].fd) \in {"fresh", "up"} => State(call[b].fd)' = State(call[b].fd)
    BY <1>2, <1>3, <2>1 DEF State
  <2> QED BY <2>1, <2>2, <2>3 DEF Fits, At, State
<1>6. \A b \in Clients, e \in Descriptors : Knows(b, e)' <=> Knows(b, e)
  BY <1>2 DEF Knows
<1>7. \A e \in Descriptors : State(e)' = "closed" <=> State(e) = "closed"
  BY <1>1, <1>2, <1>3 DEF State
<1>8. DescriptorsAreHeld'
  BY <1>2, <1>6, <1>7 DEF ConnInv, DescriptorsAreHeld
<1>9. AnswerTellsConnection'
  BY <1>2, <1>3 DEF ConnInv, ConnTypeOK, AnswerTellsConnection, State
<1>10. \A e \in lost' : \A b \in Clients : ~Knows(b, e)'
  BY <1>2, <1>6 DEF ConnInv, ConnTypeOK
<1> QED BY <1>4, <1>5, <1>8, <1>9, <1>10 DEF ConnInv

LEMMA ConnStep == ConnInv /\ [ConnNext]_connVars => ConnInv'
<1> SUFFICES ASSUME ConnInv, [ConnNext]_connVars PROVE ConnInv'
  OBVIOUS
<1>1. CASE UNCHANGED connVars
  BY <1>1 DEF connVars, ConnInv, ConnTypeOK, Fits, DescriptorsAreHeld, Knows, AnswerTellsConnection,
              At, State
<1>2. ASSUME NEW c \in Clients, NEW op \in Makers \cup ToServer,
             NotMade(c, op) \/ \E sized \in BOOLEAN : Socket(c, op, sized)
      PROVE  ConnInv'
  BY <1>1, <1>2, SocketKeeps DEF NotMade
<1>3. ASSUME NEW c \in Clients,
             \/ SetsockRecvBuf(c) \/ Connect(c) \/ NotConnected(c) \/ NonBlocking(c) \/ Start(c)
             \/ Select(c) \/ Restore(c) \/ TimedOut(c) \/ SetsockLingerOn(c)
      PROVE  ConnInv'
  BY <1>3, InCallKeeps
<1>4. ASSUME NEW c \in Clients, NoBuffer(c)
      PROVE  ConnInv'
  BY <1>4, NoBufferKeeps
<1>5. ASSUME NEW c \in Clients, NoBufferNoConnection(c) \/ Abandon(c)
      PROVE  ConnInv'
  <2>1. ~At(c, "out") /\ call[c].op \in ToServer
    BY <1>5 DEF NoBufferNoConnection, Abandon, ConnInv, Fits, At
  <2>2. Shut(call[c].fd) /\ Leave(c) /\ UNCHANGED <<owned, lost>>
    BY <1>5 DEF NoBufferNoConnection, CloseUnsized, Abandon
  <2> QED BY <2>1, <2>2, GiveUpKeeps
<1>6. ASSUME NEW c \in Clients, ReturnSocket(c) \/ Connected(c) \/ TimedConnected(c)
      PROVE  ConnInv'
  BY <1>6, AnswerKeeps
<1>7. ASSUME NEW c \in Clients, NEW d \in Descriptors,
             \/ Listen(c, d) \/ SetsockNBlock(c, d) \/ SetsockBlock(c, d)
             \/ \E op \in Attempts : Try(c, op, d)
      PROVE  ConnInv'
  BY <1>7, HolderKeeps
<1>8. ASSUME NEW c \in Clients, NEW d \in Descriptors, Accept(c, d) \/ Close(c, d)
      PROVE  ConnInv'
  BY <1>8, AcceptKeeps, CloseKeeps
<1>9. ASSUME NEW d \in Descriptors, Resolve(d)
      PROVE  ConnInv'
  BY <1>9, ResolveKeeps
<1> QED BY <1>1, <1>2, <1>3, <1>4, <1>5, <1>6, <1>7, <1>8, <1>9 DEF ConnNext

(* However many threads and descriptors there are, and whenever the peers   *)
(* answer: nobody is told of a connection that is not there, and an open    *)
(* descriptor is known to one thread or is one that Udp_socket or           *)
(* Tcp_socket forgot.                                                       *)
THEOREM ConnectionsToldTruly == ConnSpec => []ConnectionsAsTold
<1>1. ConnInv => ConnectionsAsTold
  BY DEF ConnInv, ConnectionsAsTold
<1> QED BY <1>1, ConnInitHolds, ConnStep, PTL DEF ConnSpec

(* Only three operations close a socket.                                    *)
LEMMA OpenStays ==
  ASSUME ConnInv, ConnNext, NEW d \in Descriptors, State(d) # "closed", State(d)' = "closed"
  PROVE  \E c \in Clients :
           \/ NoBufferNoConnection(c) /\ d = call[c].fd
           \/ Abandon(c) /\ d = call[c].fd
           \/ Close(c, d)
<1>1. \A e \in Descriptors : sock[e] \in [state : States, blocking : BOOLEAN, linger : BOOLEAN]
  BY DEF ConnInv, ConnTypeOK
<1>2. ASSUME NEW e \in Descriptors, NEW s, Becomes(e, s), s # "closed"
      PROVE  FALSE
  BY <1>1, <1>2 DEF Becomes, State, ConnInv, ConnTypeOK
<1>3. sock' # sock
  BY DEF State
<1>4. ASSUME NEW e \in Descriptors, NEW s, sock' = [sock EXCEPT ![e] = s], s.state # "closed"
      PROVE  FALSE
  BY <1>4 DEF State, ConnInv, ConnTypeOK
<1>5. Fresh.state = "fresh" /\ [Fresh EXCEPT !.state = "up"].state = "up"
  BY DEF Fresh, Closed
<1>6. ASSUME NEW c \in Clients, NEW op \in Makers \cup ToServer,
             NotMade(c, op) \/ \E sized \in BOOLEAN : Socket(c, op, sized)
      PROVE  FALSE
  BY <1>3, <1>4, <1>5, <1>6 DEF NotMade, Socket, connVars
<1>7. ASSUME NEW c \in Clients,
             \/ SetsockRecvBuf(c) \/ NoBuffer(c) \/ ReturnSocket(c) \/ Connected(c)
             \/ TimedConnected(c) \/ TimedOut(c)
             \/ \E op \in Attempts, e \in Descriptors : Try(c, op, e)
      PROVE  FALSE
  BY <1>3, <1>7 DEF SetsockRecvBuf, NoBuffer, ReturnSocket, Connected, TimedConnected, TimedOut,
                    Succeeded, Try
<1>8. ASSUME NEW c \in Clients, Connect(c) \/ NotConnected(c) \/ Start(c) \/ Select(c)
      PROVE  FALSE
  <2>1. call[c].fd \in Descriptors /\ State(call[c].fd) # "closed"
    BY <1>8, InCall DEF Connect, NotConnected, Start, Select, At
  <2>2. \/ sock' = sock
        \/ Becomes(call[c].fd, "trying") \/ Becomes(call[c].fd, "fresh")
        \/ Becomes(call[c].fd, "up") \/ Becomes(call[c].fd, State(call[c].fd))
    BY <1>8 DEF Connect, NotConnected, Start, Select
  <2> QED BY <1>2, <1>3, <2>1, <2>2
<1>9. ASSUME NEW c \in Clients, NonBlocking(c) \/ Restore(c) \/ SetsockLingerOn(c)
      PROVE  FALSE
  <2>1. call[c].fd \in Descriptors
    BY <1>9, InCall DEF NonBlocking, Restore, SetsockLingerOn, At
  <2> QED BY <1>1, <1>9, <2>1
          DEF NonBlocking, Restore, SetsockLingerOn, State, ConnInv, ConnTypeOK
<1>10. ASSUME NEW c \in Clients, NEW e \in Descriptors, SetsockNBlock(c, e) \/ SetsockBlock(c, e)
       PROVE  FALSE
  <2>1. PICK x \in BOOLEAN : sock' = [sock EXCEPT ![e].blocking = x]
    BY <1>10 DEF SetsockNBlock, SetsockBlock
  <2> QED BY <1>1, <2>1 DEF State, ConnInv, ConnTypeOK
<1>11. ASSUME NEW c \in Clients, NEW e \in Descriptors, Listen(c, e) \/ Accept(c, e)
       PROVE  FALSE
  BY <1>2, <1>4, <1>5, <1>11 DEF Listen, Accept
<1>12. ASSUME NEW e \in Descriptors, Resolve(e)
       PROVE  FALSE
  BY <1>2, <1>12 DEF Resolve
<1>13. ASSUME NEW e \in Descriptors, Shut(e)
       PROVE  d = e
  BY <1>13 DEF Shut, State, ConnInv, ConnTypeOK
<1>14. ASSUME NEW c \in Clients, NoBufferNoConnection(c) \/ Abandon(c)
       PROVE  d = call[c].fd
  BY <1>13, <1>14, InCall DEF NoBufferNoConnection, CloseUnsized, Abandon, At
<1>15. ASSUME NEW c \in Clients, NEW e \in Descriptors, Close(c, e)
       PROVE  d = e
  BY <1>13, <1>15 DEF Close
<1> QED BY <1>6, <1>7, <1>8, <1>9, <1>10, <1>11, <1>12, <1>14, <1>15 DEF ConnNext

(* Whoever gives an attempt up has turned lingering off for it, whatever    *)
(* the network and the other threads did since.                             *)
THEOREM AbandonedAttemptsAreReset == ConnSpec => AbandonedIsReset
<1> DEFINE Reset ==
      \A c \in Clients :
        /\ call[c].op \in ToServer
        /\ State(call[c].fd) \in {"trying", "up"}
        /\ sock'[call[c].fd].state = "closed"
        => sock[call[c].fd].linger
<1>1. ConnInv /\ [ConnNext]_connVars => [Reset]_connVars
  <2> SUFFICES ASSUME ConnInv, ConnNext, NEW c \in Clients, call[c].op \in ToServer,
                      State(call[c].fd) \in {"trying", "up"}, sock'[call[c].fd].state = "closed"
               PROVE  sock[call[c].fd].linger
    OBVIOUS
  <2>0. "none" \notin ToServer
    BY DEF ToServer
  <2>1. PICK d \in Descriptors : d = call[c].fd /\ Knows(c, d)
    <3>1. CASE ~At(c, "out")
      BY <3>1, InCall
    <3>2. CASE At(c, "out")
      BY <2>0, <3>2 DEF ConnInv, Fits
    <3> QED BY <3>1, <3>2
  <2>2. PICK b \in Clients :
           \/ NoBufferNoConnection(b) /\ d = call[b].fd
           \/ Abandon(b) /\ d = call[b].fd
           \/ Close(b, d)
    BY <2>1, OpenStays DEF State
  <2>3. Knows(b, d)
    BY <2>2 DEF Knows, Close, Owns
  <2>4. b = c
    BY <2>1, <2>3 DEF ConnInv, DescriptorsAreHeld
  <2>5. ~Close(b, d)
    BY <2>0, <2>4 DEF ConnInv, Fits, Close, Owns
  <2>6. ~NoBufferNoConnection(b)
    BY <2>4 DEF ConnInv, Fits, NoBufferNoConnection
  <2> QED BY <2>1, <2>2, <2>4, <2>5, <2>6 DEF ConnInv, Fits, Abandon
<1> QED BY <1>1, ConnInitHolds, ConnStep, PTL DEF ConnSpec, AbandonedIsReset

-----------------------------------------------------------------------------
(* PthreadSync.                                                             *)

Spots == {"out", "mutex", "cond", "again", "read", "write", "sem"}

WaitTypeOK ==
  /\ spot \in [Users -> Spots]
  /\ until \in [Users -> Nat \cup {Never}] /\ due \in [Users -> Nat \cup {Never}]

HeldTypeOK ==
  /\ clock \in Nat /\ tokens \in Nat
  /\ holder \in Users \cup {NoUser} /\ writing \in Users \cup {NoUser} /\ reading \subseteq Users
  /\ rely \in [Users -> SUBSET {"mutex", "read", "write"}]
  /\ guessed \subseteq Users

SyncTypeOK == WaitTypeOK /\ HeldTypeOK

LEMMA DivMod ==
  ASSUME NEW n \in Nat, NEW s \in Nat, s > 0
  PROVE  /\ n \div s \in Int /\ n % s \in Nat
         /\ n % s < s
         /\ (n \div s) * s + (n % s) = n
<1>1. n \div s \in Int
  OBVIOUS
<1>2. n % s \in Nat /\ n % s < s
  OBVIOUS
<1>3. (n \div s) * s + (n % s) = n
  OBVIOUS
<1> QED BY <1>1, <1>2, <1>3

(* The absolute time of a wait, in ns: not too early, and at most a second  *)
(* late, when the clock fails.                                              *)
LEMMA MomentIsDue ==
  ASSUME SyncTypeOK, NEW ms \in Nat, NEW works \in BOOLEAN
  PROVE  LET m == Moment(getTimespec(ms, works))
         IN m \in Nat /\ clock + ms <= m /\ m <= clock + ms + Second
<1> DEFINE s == Second
           q == clock \div s
           r == clock % s
           n == IF works THEN r + ms ELSE ms
           k == n \div s
           l == n % s
           m == Moment(getTimespec(ms, works))
<1>1. s \in Nat /\ s > 0 /\ clock \in Nat
  BY SyncAssumption DEF SyncTypeOK, WaitTypeOK, HeldTypeOK, Spots
<1>2. q \in Int /\ r \in Nat /\ r < s /\ q * s + r = clock
  BY <1>1, DivMod
<1>3. n \in Nat
  BY <1>2
<1>4. k \in Int /\ l \in Nat /\ k * s + l = n
  BY <1>1, <1>3, DivMod
<1>5. m = IF works THEN (q + k) * s + l ELSE (q + 1 + k) * s + l
  BY DEF Moment, getTimespec, Now, SecondsCarried
<1> HIDE DEF s, q, r, n, k, l, m
<1>6. (q + k) * s = q * s + k * s /\ (q + 1 + k) * s = q * s + s + k * s
  BY <1>1, <1>2, <1>4
<1> DEFINE qs == q * s
           ks == k * s
<1>7. qs \in Int /\ ks \in Int
  BY <1>1, <1>2, <1>4
<1>8. m = IF works THEN qs + ks + l ELSE qs + s + ks + l
  BY <1>5, <1>6
<1>9. qs + r = clock /\ ks + l = n
  BY <1>2, <1>4
<1> HIDE DEF qs, ks
<1>10. CASE works
  BY <1>1, <1>2, <1>3, <1>4, <1>7, <1>8, <1>9, <1>10 DEF n, s, m
<1>11. CASE ~works
  BY <1>1, <1>2, <1>3, <1>4, <1>7, <1>8, <1>9, <1>11 DEF n, s, m
<1> QED BY <1>10, <1>11 DEF m

(* The parts of the invariant: what is held, and how long is waited.        *)
HoldsTold ==
  /\ \A t \in Users : "mutex" \in rely[t] <=> holder = t
  /\ \A t \in Users \ guessed : RwTold(t)

SyncInv == SyncTypeOK /\ HoldsTold /\ DeadlinesAreDue

LEMMA WaitsInTime ==
  ASSUME SyncInv, NEW t \in Users, NEW where \in Spots, NEW ms \in Nat \cup {WAIT_FOREVER},
         Wait(t, where, ms)
  PROVE  WaitTypeOK' /\ DeadlinesAreDue'
<1>1. spot' \in [Users -> Spots]
  BY DEF SyncInv, SyncTypeOK, WaitTypeOK, Wait, Spots, HeldTypeOK
<1>2. CASE ms = WAIT_FOREVER
  BY <1>1, <1>2 DEF SyncInv, SyncTypeOK, WaitTypeOK, Wait, DeadlinesAreDue, HeldTypeOK, Spots
<1>3. CASE ms # WAIT_FOREVER
  <2>1. PICK works \in BOOLEAN : until' = [until EXCEPT ![t] = Moment(getTimespec(ms, works))]
    BY <1>3 DEF Wait
  <2>2. due' = [due EXCEPT ![t] = clock + ms]
    BY <1>3 DEF Wait
  <2> DEFINE m == Moment(getTimespec(ms, works))
  <2>3. m \in Nat /\ clock + ms <= m /\ m <= clock + ms + Second
    BY <1>3, MomentIsDue DEF SyncInv
  <2>4. clock + ms \in Nat
    BY <1>3 DEF SyncInv, SyncTypeOK, WaitTypeOK, HeldTypeOK, Spots
  <2> HIDE DEF m
  <2>5. until' = [until EXCEPT ![t] = m]
    BY <2>1 DEF m
  <2>6. until' \in [Users -> Nat \cup {Never}] /\ due' \in [Users -> Nat \cup {Never}]
    BY <2>2, <2>3, <2>4, <2>5 DEF SyncInv, SyncTypeOK, WaitTypeOK, HeldTypeOK, Spots
  <2>7. until'[t] = m /\ due'[t] = clock + ms
    BY <2>2, <2>5 DEF SyncInv, SyncTypeOK, WaitTypeOK, HeldTypeOK, Spots
  <2>8. \A u \in Users \ {t} : until'[u] = until[u] /\ due'[u] = due[u]
    BY <2>2, <2>5 DEF SyncInv, SyncTypeOK, WaitTypeOK, HeldTypeOK, Spots
  <2> QED BY <1>1, <2>3, <2>6, <2>7, <2>8 DEF SyncInv, DeadlinesAreDue, WaitTypeOK
<1> QED BY <1>2, <1>3

LEMMA OutInTime ==
  ASSUME SyncInv, NEW t \in Users, Out(t)
  PROVE  WaitTypeOK' /\ DeadlinesAreDue'
BY DEF SyncInv, SyncTypeOK, WaitTypeOK, Out, DeadlinesAreDue, Spots, HeldTypeOK

LEMMA StillInTime ==
  ASSUME SyncInv, UNCHANGED <<until, due>>, spot' \in [Users -> Spots]
  PROVE  WaitTypeOK' /\ DeadlinesAreDue'
BY DEF SyncInv, SyncTypeOK, WaitTypeOK, DeadlinesAreDue, HeldTypeOK, Spots

(* The mutex and its condition variable: what a call tells is what it did.  *)
LEMMA MutexTells ==
  ASSUME SyncInv, NEW t \in Users,
         \/ \E ms \in SyncWaits : Pthread_mutex_lock(t, ms) \/ Pthread_cond_timedwait(t, ms)
         \/ MutexGranted(t) \/ Pthread_mutex_unlock(t) \/ Pthread_cond_wait(t) \/ LockedAgain(t)
  PROVE  \/ holder' = holder /\ rely' = rely
         \/ holder = NoUser /\ holder' = t /\ rely' = [rely EXCEPT ![t] = @ \cup {"mutex"}]
         \/ holder = t /\ holder' = NoUser /\ rely' = [rely EXCEPT ![t] = @ \ {"mutex"}]
<1>1. ASSUME NEW ms \in SyncWaits, Pthread_mutex_lock(t, ms), ms = NO_WAIT, holder = NoUser
      PROVE  holder' = t /\ rely' = [rely EXCEPT ![t] = @ \cup {"mutex"}]
  <2>1. {u \in {"mutex"} : Passed(holder = NoUser)} = {"mutex"}
    BY <1>1 DEF Passed
  <2> QED BY <1>1, <2>1 DEF Pthread_mutex_lock
<1>2. ASSUME NEW ms \in SyncWaits, Pthread_mutex_lock(t, ms), ms = NO_WAIT, holder # NoUser
      PROVE  holder' = holder /\ rely' = rely
  <2>1. {u \in {"mutex"} : Passed(holder = NoUser)} = {}
    BY <1>2 DEF Passed
  <2>2. [rely EXCEPT ![t] = @ \cup {}] = rely
    BY DEF SyncInv, SyncTypeOK, WaitTypeOK, HeldTypeOK, Spots
  <2> QED BY <1>2, <2>1, <2>2 DEF Pthread_mutex_lock
<1>3. ASSUME NEW ms \in SyncWaits, Pthread_mutex_lock(t, ms), ms # NO_WAIT
      PROVE  holder' = holder /\ rely' = rely
  BY <1>3 DEF Pthread_mutex_lock
<1> QED BY <1>1, <1>2, <1>3
   DEF Pthread_cond_timedwait, MutexGranted, Pthread_mutex_unlock, Pthread_cond_wait,
       LockedAgain, Relies, Forgoes

LEMMA MutexKeeps ==
  ASSUME SyncInv, NEW t \in Users,
         \/ \E ms \in SyncWaits : Pthread_mutex_lock(t, ms) \/ Pthread_cond_timedwait(t, ms)
         \/ MutexGranted(t) \/ Pthread_mutex_unlock(t) \/ Pthread_cond_wait(t) \/ LockedAgain(t)
  PROVE  SyncInv'
<1>1. UNCHANGED <<clock, writing, reading, tokens, guessed>>
  BY
  DEF Pthread_mutex_lock, Pthread_cond_timedwait, MutexGranted, Pthread_mutex_unlock,
      Pthread_cond_wait, LockedAgain
<1>2. \/ holder' = holder /\ rely' = rely
      \/ holder = NoUser /\ holder' = t /\ rely' = [rely EXCEPT ![t] = @ \cup {"mutex"}]
      \/ holder = t /\ holder' = NoUser /\ rely' = [rely EXCEPT ![t] = @ \ {"mutex"}]
  BY MutexTells
<1>3. WaitTypeOK' /\ DeadlinesAreDue'
  <2>1. SyncWaits \subseteq Nat \cup {WAIT_FOREVER}
    BY SyncAssumption
  <2>2. ASSUME NEW ms \in SyncWaits, Pthread_mutex_lock(t, ms) \/ Pthread_cond_timedwait(t, ms)
        PROVE  WaitTypeOK' /\ DeadlinesAreDue'
    <3>1. UNCHANGED waitingFor \/ Wait(t, "mutex", ms) \/ Wait(t, "cond", ms)
      BY <2>2 DEF Pthread_mutex_lock, Pthread_cond_timedwait
    <3> QED BY <2>1, <3>1, WaitsInTime, StillInTime
       DEF waitingFor, SyncInv, SyncTypeOK, Spots, WaitTypeOK, HeldTypeOK
  <2>3. CASE Pthread_cond_wait(t)
    BY <2>3, WaitsInTime DEF Pthread_cond_wait, Spots
  <2>4. CASE MutexGranted(t) \/ LockedAgain(t)
    BY <2>4, OutInTime DEF MutexGranted, LockedAgain
  <2>5. CASE Pthread_mutex_unlock(t)
    BY <2>5, StillInTime
    DEF Pthread_mutex_unlock, waitingFor, SyncInv, SyncTypeOK, Spots, WaitTypeOK, HeldTypeOK
  <2> QED BY <2>2, <2>3, <2>4, <2>5
<1>4. HeldTypeOK'
  BY <1>1, <1>2 DEF SyncInv, SyncTypeOK, HeldTypeOK, WaitTypeOK, Spots
<1>5. HoldsTold'
  BY <1>1, <1>2, SyncAssumption
  DEF SyncInv, SyncTypeOK, HoldsTold, RwTold, WaitTypeOK, HeldTypeOK, Spots
<1> QED BY <1>3, <1>4, <1>5 DEF SyncInv, SyncTypeOK, WaitTypeOK, HeldTypeOK, Spots

(* The read-write lock, with a time in ms or without.                       *)
LEMMA RwTells ==
  ASSUME SyncInv, NEW t \in Users,
         \/ \E ms \in SyncWaits : Pthread_rwlock_rdlock(t, ms) \/ Pthread_rwlock_wrlock(t, ms)
         \/ RwGranted(t) \/ Pthread_rwlock_unlock(t)
  PROVE  \/ UNCHANGED <<reading, writing, rely, guessed>>
         \/ /\ reading' = reading \cup {t} /\ rely' = [rely EXCEPT ![t] = @ \cup {"read"}]
            /\ UNCHANGED <<writing, guessed>>
         \/ /\ writing = NoUser /\ writing' = t /\ rely' = [rely EXCEPT ![t] = @ \cup {"write"}]
            /\ UNCHANGED <<reading, guessed>>
         \/ /\ \E how \in {"read", "write"} : rely' = [rely EXCEPT ![t] = @ \cup {how}]
            /\ guessed' = guessed \cup {t}
            /\ UNCHANGED <<reading, writing>>
         \/ /\ reading' = reading \ {t} /\ writing' = (IF writing = t THEN NoUser ELSE writing)
            /\ rely' = [rely EXCEPT ![t] = @ \ {"read", "write"}]
            /\ UNCHANGED guessed
<1>1. ASSUME NEW ms \in SyncWaits, Pthread_rwlock_rdlock(t, ms) \/ Pthread_rwlock_wrlock(t, ms),
             ms = NO_WAIT
      PROVE  \/ UNCHANGED <<reading, writing, rely, guessed>>
             \/ /\ reading' = reading \cup {t} /\ rely' = [rely EXCEPT ![t] = @ \cup {"read"}]
                /\ UNCHANGED <<writing, guessed>>
             \/ /\ writing = NoUser /\ writing' = t
                /\ rely' = [rely EXCEPT ![t] = @ \cup {"write"}]
                /\ UNCHANGED <<reading, guessed>>
  <2>1. /\ {u \in {"read"} : Passed(CanRead)} = IF CanRead THEN {"read"} ELSE {}
        /\ {u \in {"write"} : Passed(CanWrite)} = IF CanWrite THEN {"write"} ELSE {}
    BY DEF Passed
  <2>2. [rely EXCEPT ![t] = @ \cup {}] = rely
    BY DEF SyncInv, SyncTypeOK, WaitTypeOK, HeldTypeOK, Spots
  <2>3. CASE Pthread_rwlock_rdlock(t, ms)
    <3>1. /\ reading' = (IF CanRead THEN reading \cup {t} ELSE reading)
          /\ rely' = [rely EXCEPT ![t] = @ \cup (IF CanRead THEN {"read"} ELSE {})]
          /\ UNCHANGED <<writing, guessed>>
      BY <1>1, <2>1, <2>3 DEF Pthread_rwlock_rdlock, NO_WAIT, WAIT_FOREVER
    <3>2. CASE CanRead
      BY <3>1, <3>2
    <3>3. CASE ~CanRead
      BY <2>2, <3>1, <3>3
    <3> QED BY <3>2, <3>3
  <2>4. CASE Pthread_rwlock_wrlock(t, ms)
    <3>1. /\ writing' = (IF CanWrite THEN t ELSE writing)
          /\ rely' = [rely EXCEPT ![t] = @ \cup (IF CanWrite THEN {"write"} ELSE {})]
          /\ UNCHANGED <<reading, guessed>>
      BY <1>1, <2>1, <2>4 DEF Pthread_rwlock_wrlock, NO_WAIT, WAIT_FOREVER
    <3>2. CASE CanWrite
      BY <3>1, <3>2 DEF CanWrite
    <3>3. CASE ~CanWrite
      BY <2>2, <3>1, <3>3
    <3> QED BY <3>2, <3>3
  <2> QED BY <1>1, <2>3, <2>4
<1>2. ASSUME NEW ms \in SyncWaits, Pthread_rwlock_rdlock(t, ms) \/ Pthread_rwlock_wrlock(t, ms),
             ms = WAIT_FOREVER
      PROVE  UNCHANGED <<reading, writing, rely, guessed>>
  BY <1>2 DEF Pthread_rwlock_rdlock, Pthread_rwlock_wrlock, WAIT_FOREVER, NO_WAIT
<1>3. ASSUME NEW ms \in SyncWaits, Pthread_rwlock_rdlock(t, ms) \/ Pthread_rwlock_wrlock(t, ms),
             ms # WAIT_FOREVER, ms # NO_WAIT
      PROVE  /\ \E how \in {"read", "write"} : rely' = [rely EXCEPT ![t] = @ \cup {how}]
             /\ guessed' = guessed \cup {t}
             /\ UNCHANGED <<reading, writing>>
  BY <1>3 DEF Pthread_rwlock_rdlock, Pthread_rwlock_wrlock, NothingDone, Relies
<1>4. CASE RwGranted(t)
  BY <1>4 DEF RwGranted, Relies, CanWrite
<1>5. CASE Pthread_rwlock_unlock(t)
  BY <1>5 DEF Pthread_rwlock_unlock
<1> QED BY <1>1, <1>2, <1>3, <1>4, <1>5

LEMMA RwKeeps ==
  ASSUME SyncInv, NEW t \in Users,
         \/ \E ms \in SyncWaits : Pthread_rwlock_rdlock(t, ms) \/ Pthread_rwlock_wrlock(t, ms)
         \/ RwGranted(t) \/ Pthread_rwlock_unlock(t)
  PROVE  SyncInv'
<1>1. UNCHANGED <<clock, holder, tokens>>
  BY DEF Pthread_rwlock_rdlock, Pthread_rwlock_wrlock, RwGranted, Pthread_rwlock_unlock
<1>2. \/ UNCHANGED <<reading, writing, rely, guessed>>
      \/ /\ reading' = reading \cup {t} /\ rely' = [rely EXCEPT ![t] = @ \cup {"read"}]
         /\ UNCHANGED <<writing, guessed>>
      \/ /\ writing = NoUser /\ writing' = t /\ rely' = [rely EXCEPT ![t] = @ \cup {"write"}]
         /\ UNCHANGED <<reading, guessed>>
      \/ /\ \E how \in {"read", "write"} : rely' = [rely EXCEPT ![t] = @ \cup {how}]
         /\ guessed' = guessed \cup {t}
         /\ UNCHANGED <<reading, writing>>
      \/ /\ reading' = reading \ {t} /\ writing' = (IF writing = t THEN NoUser ELSE writing)
         /\ rely' = [rely EXCEPT ![t] = @ \ {"read", "write"}]
         /\ UNCHANGED guessed
  BY RwTells
<1>3. WaitTypeOK' /\ DeadlinesAreDue'
  <2>1. ASSUME NEW ms \in SyncWaits, Pthread_rwlock_rdlock(t, ms) \/ Pthread_rwlock_wrlock(t, ms)
        PROVE  UNCHANGED waitingFor \/ Wait(t, "read", ms) \/ Wait(t, "write", ms)
    BY <2>1 DEF Pthread_rwlock_rdlock, Pthread_rwlock_wrlock, NothingDone
  <2>2. SyncWaits \subseteq Nat \cup {WAIT_FOREVER}
    BY SyncAssumption
  <2>3. UNCHANGED waitingFor => WaitTypeOK' /\ DeadlinesAreDue'
    BY StillInTime DEF waitingFor, SyncInv, SyncTypeOK, Spots, WaitTypeOK, HeldTypeOK
  <2>4. RwGranted(t) => Out(t)
    BY DEF RwGranted
  <2>5. Pthread_rwlock_unlock(t) => UNCHANGED waitingFor
    BY DEF Pthread_rwlock_unlock
  <2> QED BY <2>1, <2>2, <2>3, <2>4, <2>5, WaitsInTime, OutInTime DEF Spots
<1>4. HeldTypeOK'
  BY <1>1, <1>2 DEF SyncInv, SyncTypeOK, HeldTypeOK, WaitTypeOK, Spots
<1>5. HoldsTold'
  BY <1>1, <1>2, SyncAssumption
  DEF SyncInv, SyncTypeOK, HoldsTold, RwTold, WaitTypeOK, HeldTypeOK, Spots
<1> QED BY <1>3, <1>4, <1>5 DEF SyncInv, SyncTypeOK, WaitTypeOK, HeldTypeOK, Spots

(* What changes nothing that is held.                                       *)
LEMMA NothingHeldKeeps ==
  ASSUME SyncInv, UNCHANGED <<holder, writing, reading, rely, guessed>>,
         clock' \in Nat, tokens' \in Nat, WaitTypeOK', DeadlinesAreDue'
  PROVE  SyncInv'
BY DEF SyncInv, SyncTypeOK, HoldsTold, RwTold, WaitTypeOK, Spots, HeldTypeOK

LEMMA SyncInitHolds == SyncInit => SyncInv
BY SyncAssumption
DEF SyncInit, SyncInv, SyncTypeOK, HoldsTold, RwTold, DeadlinesAreDue, Never,
    WaitTypeOK, HeldTypeOK, Spots

LEMMA SyncStep == SyncInv /\ [SyncNext]_syncVars => SyncInv'
<1> SUFFICES ASSUME SyncInv, [SyncNext]_syncVars PROVE SyncInv'
  OBVIOUS
<1> USE DEF record, object, waitingFor
<1>1. UNCHANGED waitingFor => WaitTypeOK' /\ DeadlinesAreDue'
  BY StillInTime DEF SyncInv, SyncTypeOK, Spots, WaitTypeOK, HeldTypeOK
<1>2. clock \in Nat /\ tokens \in Nat /\ Value \in Nat
  BY SyncAssumption DEF SyncInv, SyncTypeOK, WaitTypeOK, HeldTypeOK, Spots
<1>3. CASE \/ Pthread_mutex_init \/ Pthread_cond_init \/ Pthread_rwlock_init \/ Sem_init
           \/ Pthread_mutex_destroy \/ Pthread_cond_destroy \/ Pthread_rwlock_destroy \/ Sem_destroy
           \/ TimePasses \/ UNCHANGED syncVars
  <2>1. UNCHANGED <<holder, writing, reading, rely, guessed, waitingFor>>
    BY <1>3
    DEF Pthread_mutex_init, Pthread_cond_init, Pthread_rwlock_init, Sem_init,
        Pthread_mutex_destroy, Pthread_cond_destroy, Pthread_rwlock_destroy, Sem_destroy,
        TimePasses, syncVars, Make, Destroy
  <2>2. clock' \in Nat /\ tokens' \in Nat
    BY <1>2, <1>3
    DEF Pthread_mutex_init, Pthread_cond_init, Pthread_rwlock_init, Sem_init,
        Pthread_mutex_destroy, Pthread_cond_destroy, Pthread_rwlock_destroy, Sem_destroy,
        TimePasses, syncVars, Make, Destroy
  <2> QED BY <1>1, <2>1, <2>2, NothingHeldKeeps
<1>4. ASSUME NEW t \in Users,
             \/ \E ms \in SyncWaits : Pthread_mutex_lock(t, ms) \/ Pthread_cond_timedwait(t, ms)
             \/ MutexGranted(t) \/ Pthread_mutex_unlock(t) \/ Pthread_cond_wait(t) \/ LockedAgain(t)
      PROVE  SyncInv'
  BY <1>4, MutexKeeps
<1>5. ASSUME NEW t \in Users,
             \/ \E ms \in SyncWaits : Pthread_rwlock_rdlock(t, ms) \/ Pthread_rwlock_wrlock(t, ms)
             \/ RwGranted(t) \/ Pthread_rwlock_unlock(t)
      PROVE  SyncInv'
  BY <1>5, RwKeeps
<1>6. ASSUME NEW t \in Users, TimeOver(t) \/ Pthread_cond_signal(t) \/ Pthread_cond_broadcast(t)
      PROVE  SyncInv'
  <2>1. UNCHANGED <<clock, tokens, holder, writing, reading, rely, guessed>>
    BY <1>6 DEF TimeOver, Pthread_cond_signal, Pthread_cond_broadcast, Wake
  <2>2. \/ Out(t)
        \/ UNCHANGED <<until, due>> /\ spot' \in [Users -> Spots]
    BY <1>6
    DEF TimeOver, Pthread_cond_signal, Pthread_cond_broadcast, Wake, SyncInv, SyncTypeOK, Spots,
        WaitTypeOK, HeldTypeOK
  <2> QED BY <1>2, <2>1, <2>2, OutInTime, StillInTime, NothingHeldKeeps
<1>7. ASSUME NEW t \in Users,
             \/ \E ms \in SyncWaits : Sem_wait(t, ms)
             \/ Sem_post(t) \/ TokenTaken(t) \/ SignalArrives(t)
      PROVE  SyncInv'
  <2>1. UNCHANGED <<clock, holder, writing, reading, rely, guessed>> /\ tokens' \in Nat
    BY <1>2, <1>7 DEF Sem_wait, Sem_post, TokenTaken, SignalArrives
  <2>2. SyncWaits \subseteq Nat \cup {WAIT_FOREVER}
    BY SyncAssumption
  <2>3. UNCHANGED waitingFor \/ Out(t) \/ \E ms \in SyncWaits : Wait(t, "sem", ms)
    BY <1>7 DEF Sem_wait, Sem_post, TokenTaken, SignalArrives
  <2>4. WaitTypeOK' /\ DeadlinesAreDue'
    BY <1>1, <2>2, <2>3, OutInTime, WaitsInTime DEF Spots
  <2> QED BY <1>2, <2>1, <2>4, NothingHeldKeeps
<1> QED BY <1>3, <1>4, <1>5, <1>6, <1>7 DEF SyncNext

(* For any number of threads, any waiting times and any length of a second: *)
(* what the pthread wrappers answer is held, the mutex also after a wait    *)
(* for a condition, and a wait with a time is not shorter than it.          *)
THEOREM PthreadWaitsKeepTheirWord == SyncSpec => []WaitsKeepTheirWord
<1>1. SyncInv => WaitsKeepTheirWord
  BY DEF SyncInv, HoldsTold, WaitsKeepTheirWord, AnswersTellHolding, MutexTold
<1> QED BY <1>1, SyncInitHolds, SyncStep, PTL DEF SyncSpec

(* The mutex of the pthread wrappers.  Its lock is obtained and given back  *)
(* by the thread that was told, and no other call tells of the mutex.       *)
LEMMA MutexStepIsLock ==
  ASSUME SyncInv, NEW t \in Users,
         \/ holder = NoUser /\ rely' = [rely EXCEPT ![t] = @ \cup {"mutex"}]
         \/ holder = t /\ rely' = [rely EXCEPT ![t] = @ \ {"mutex"}]
  PROVE  MutexAnswers!Next
<1>1. \A u \in Users : "mutex" \in rely[u] <=> holder = u
  BY DEF SyncInv, HoldsTold
<1>2. /\ DOMAIN MutexToldTo = Users /\ DOMAIN MutexToldTo' = Users
      /\ \A u \in Users : MutexToldTo[u] = IF "mutex" \in rely[u] THEN 1 ELSE 0
      /\ \A u \in Users : MutexToldTo'[u] = IF "mutex" \in rely'[u] THEN 1 ELSE 0
      /\ MutexToldTo = [u \in Users |-> MutexToldTo[u]]
      /\ MutexToldTo' = [u \in Users |-> MutexToldTo'[u]]
  BY DEF MutexToldTo
<1>3. CASE holder = NoUser /\ rely' = [rely EXCEPT ![t] = @ \cup {"mutex"}]
  <2>1. rely'[t] = rely[t] \cup {"mutex"} /\ \A u \in Users \ {t} : rely'[u] = rely[u]
    BY <1>3 DEF SyncInv, SyncTypeOK, HeldTypeOK
  <2>2. \A u \in Users : MutexToldTo[u] = 0
    BY <1>1, <1>2, <1>3, SyncAssumption
  <2>3. MutexToldTo'[t] = 1 /\ \A u \in Users \ {t} : MutexToldTo'[u] = MutexToldTo[u]
    BY <1>2, <2>1
  <2>4. MutexToldTo' = [MutexToldTo EXCEPT ![t] = @ + 1]
    BY <1>2, <2>2, <2>3
  <2>5. MutexAnswers!Obtain(t)
    BY <2>2, <2>4 DEF MutexAnswers!Obtain, MutexAnswers!Others
  <2> QED BY <2>5 DEF MutexAnswers!Next
<1>4. CASE holder = t /\ rely' = [rely EXCEPT ![t] = @ \ {"mutex"}]
  <2>1. rely'[t] = rely[t] \ {"mutex"} /\ \A u \in Users \ {t} : rely'[u] = rely[u]
    BY <1>4 DEF SyncInv, SyncTypeOK, HeldTypeOK
  <2>2. MutexToldTo[t] = 1
    BY <1>1, <1>2, <1>4
  <2>3. MutexToldTo'[t] = 0 /\ \A u \in Users \ {t} : MutexToldTo'[u] = MutexToldTo[u]
    BY <1>2, <2>1
  <2>4. MutexToldTo' = [MutexToldTo EXCEPT ![t] = @ - 1]
    BY <1>2, <2>2, <2>3
  <2>5. MutexAnswers!Release(t)
    BY <2>2, <2>4 DEF MutexAnswers!Release
  <2> QED BY <2>5 DEF MutexAnswers!Next
<1> QED BY <1>3, <1>4

LEMMA OtherStepsTellNothing ==
  ASSUME SyncInv, NEW t \in Users,
         \/ UNCHANGED rely
         \/ \E ms \in SyncWaits : Pthread_rwlock_rdlock(t, ms) \/ Pthread_rwlock_wrlock(t, ms)
         \/ RwGranted(t) \/ Pthread_rwlock_unlock(t)
  PROVE  UNCHANGED MutexToldTo
<1>1. \/ UNCHANGED rely
      \/ \E how \in {"read", "write"} : rely' = [rely EXCEPT ![t] = @ \cup {how}]
      \/ rely' = [rely EXCEPT ![t] = @ \ {"read", "write"}]
  BY RwTells
<1>2. \A u \in Users : "mutex" \in rely'[u] <=> "mutex" \in rely[u]
  BY <1>1 DEF SyncInv, SyncTypeOK, HeldTypeOK
<1> QED BY <1>2 DEF MutexToldTo

LEMMA SyncStepIsLock ==
  ASSUME SyncInv, [SyncNext]_syncVars
  PROVE  [MutexAnswers!Next]_MutexToldTo
<1>1. ASSUME UNCHANGED rely
      PROVE  UNCHANGED MutexToldTo
  BY <1>1 DEF MutexToldTo
<1>2. CASE \/ Pthread_mutex_init \/ Pthread_cond_init \/ Pthread_rwlock_init \/ Sem_init
           \/ Pthread_mutex_destroy \/ Pthread_cond_destroy \/ Pthread_rwlock_destroy \/ Sem_destroy
           \/ TimePasses \/ UNCHANGED syncVars
  BY <1>1, <1>2
  DEF Pthread_mutex_init, Pthread_cond_init, Pthread_rwlock_init, Sem_init, Pthread_mutex_destroy,
      Pthread_cond_destroy, Pthread_rwlock_destroy, Sem_destroy, TimePasses, syncVars, Make, Destroy,
      record
<1>3. ASSUME NEW t \in Users,
             \/ \E ms \in SyncWaits : Pthread_mutex_lock(t, ms) \/ Pthread_cond_timedwait(t, ms)
             \/ MutexGranted(t) \/ Pthread_mutex_unlock(t) \/ Pthread_cond_wait(t) \/ LockedAgain(t)
      PROVE  MutexAnswers!Next \/ UNCHANGED MutexToldTo
  BY <1>1, <1>3, MutexTells, MutexStepIsLock
<1>4. ASSUME NEW t \in Users,
             \/ \E ms \in SyncWaits : Pthread_rwlock_rdlock(t, ms) \/ Pthread_rwlock_wrlock(t, ms)
             \/ RwGranted(t) \/ Pthread_rwlock_unlock(t)
      PROVE  UNCHANGED MutexToldTo
  BY <1>4, OtherStepsTellNothing
<1>5. ASSUME NEW t \in Users,
             \/ \E ms \in SyncWaits : Sem_wait(t, ms)
             \/ Sem_post(t) \/ TokenTaken(t) \/ SignalArrives(t) \/ TimeOver(t)
             \/ Pthread_cond_signal(t) \/ Pthread_cond_broadcast(t)
      PROVE  UNCHANGED rely
  BY <1>5
  DEF Sem_wait, Sem_post, TokenTaken, SignalArrives, TimeOver, Pthread_cond_signal,
      Pthread_cond_broadcast, Wake, record
<1> QED BY <1>1, <1>2, <1>3, <1>4, <1>5 DEF SyncNext

(* The mutex of the pthread wrappers implements Lock, with waits for a      *)
(* condition between its calls, for any number of threads and all waiting   *)
(* times: a thread that waits for a condition has given the lock back, and  *)
(* whether it is signalled or its time is over it is told of it again only  *)
(* when it has it.                                                          *)
THEOREM PthreadMutexIsLock == SyncSpec => MutexImplementsLock
<1>1. SyncInit => SyncInv /\ MutexAnswers!Init
  <2>1. SyncInit => MutexAnswers!Init
    BY DEF SyncInit, MutexAnswers!Init, MutexToldTo
  <2> QED BY <2>1, SyncInitHolds
<1>2. SyncInv /\ [SyncNext]_syncVars => [MutexAnswers!Next]_MutexToldTo
  BY SyncStepIsLock
<1> QED BY <1>1, <1>2, SyncStep, PTL DEF SyncSpec, MutexImplementsLock, MutexAnswers!Spec

-----------------------------------------------------------------------------
(* ThreadHandle: where is_created is kept up (not on Windows), a handle and *)
(* its thread belong together until the thread ends without being asked to. *)

(* Windows never sets is_created.                                           *)
HandleUse == ThreadPlatforms \subseteq {"LINUX", "VXWORKS"}

(* The handle leads to its thread unless it is bereft of it, and the thread *)
(* to its handle, which is not bereft.                                      *)
Together ==
  /\ \A h \in Handles : created[h] =>
       /\ h \in initialized
       /\ thread_id[h] \in Tids
       /\ h \notin bereft => Live(thread_id[h]) /\ thread[thread_id[h]].by = h
  /\ \A x \in Tids : Live(x) =>
       /\ created[thread[x].by]
       /\ thread_id[thread[x].by] = x
       /\ thread[x].by \notin bereft

(* Nobody is where threads run until they are cancelled.                    *)
NoneBereft == ~SelfEnding => bereft = {}

HandleInv == ThreadTypeOK /\ Together /\ NoneBereft

-----------------------------------------------------------------------------
(* What the kernel's records are.                                           *)
LEMMA ThreadFields ==
  ASSUME ThreadTypeOK, NEW x \in Tids
  PROVE  /\ Exists(x) => thread[x] \in ThreadRecords
         /\ Live(x) => thread[x] \in ThreadRecords
<1>1. thread[x] \in ThreadRecords \/ thread[x] = NoThread
  BY DEF ThreadTypeOK
<1>2. thread[x] = NoThread => thread[x].state = "none"
  BY DEF NoThread
<1> QED BY <1>1, <1>2 DEF Exists, Live

LEMMA ClampedType ==
  ASSUME ThreadTypeOK, NEW h \in Handles, NEW pri \in Int
  PROVE  Clamped(h, pri) \in Int
<1>1. params[h].policy \in 0..2
  BY DEF ThreadTypeOK, Policies, FCFS_SCHED, OTHER_SCHED, RR_SCHED
<1> QED BY <1>1 DEF Clamped, MinPriority, MaxPriority

LEMMA PreparedType ==
  ASSUME ThreadTypeOK, NEW h \in Handles, NEW req \in Requests
  PROVE  /\ Prepared(h, req) \in [policy : 0..2, priority : Int]
         /\ (IF os = "LINUX" THEN Prepared(h, req).priority ELSE req.priority) \in Int
         /\ req.priority \in Int
         /\ \A pri \in Int : StoredRequest(req, pri) \in [policy : Policies, priority : Int]
<1>1. req.policy \in Policies /\ req.priority \in Int
  BY ThreadAssumption DEF Requests
<1>2. SystemPolicy(req.policy) \in 0..2
  BY <1>1 DEF SystemPolicy, Policies, FCFS_SCHED, OTHER_SCHED, RR_SCHED
<1>3. Clamped(h, req.priority) \in Int
  BY <1>1, ClampedType
<1>4. attr[h] \in [policy : 0..2, priority : Int]
  BY DEF ThreadTypeOK
<1> QED BY <1>1, <1>2, <1>3, <1>4 DEF Prepared, StoredRequest

LEMMA HandleInitHolds == ThreadInit => HandleInv
<1> SUFFICES ASSUME ThreadInit PROVE HandleInv
  OBVIOUS
<1>1. Zero \in [policy : Policies, priority : Int] /\ Zero \in [policy : 0..2, priority : Int]
  BY DEF Zero, Policies, FCFS_SCHED
<1>2. ThreadTypeOK
  BY <1>1 DEF ThreadInit, ThreadTypeOK
<1>3. Together /\ NoneBereft
  BY DEF ThreadInit, Together, NoneBereft, Live, NoThread
<1> QED BY <1>2, <1>3 DEF HandleInv

-----------------------------------------------------------------------------
LEMMA HandleInitKeeps ==
  ASSUME HandleInv, NEW h \in Handles, thread_handle_init(h)
  PROVE  HandleInv'
<1>1. Zero \in [policy : Policies, priority : Int] /\ Zero \in [policy : 0..2, priority : Int]
  BY DEF Zero, Policies, FCFS_SCHED
<1>2. ThreadTypeOK'
  BY <1>1 DEF HandleInv, ThreadTypeOK, thread_handle_init
<1>3. \A x \in Tids : Live(x) => thread[x].by # h /\ thread[x].by \in Handles
  BY ThreadFields DEF HandleInv, thread_handle_init, Exists, Live, ThreadRecords
<1>4. Together' /\ NoneBereft'
  BY <1>3 DEF HandleInv, ThreadTypeOK, Together, NoneBereft, Live, thread_handle_init
<1> QED BY <1>2, <1>4 DEF HandleInv

LEMMA CreateKeeps ==
  ASSUME HandleUse, HandleInv, NEW h \in Handles, NEW req \in Requests, NEW x \in Tids,
         thread_create(h, req, x)
  PROVE  HandleInv'
<1> DEFINE pri == IF os = "LINUX" THEN Prepared(h, req).priority ELSE req.priority
<1>1. pri \in Int /\ Prepared(h, req) \in [policy : 0..2, priority : Int]
      /\ StoredRequest(req, pri) \in [policy : Policies, priority : Int]
  BY PreparedType DEF HandleInv
<1>2. /\ h \in initialized /\ ~created[h] /\ thread[x].state = "none"
      /\ thread' = [thread EXCEPT ![x] = Thread(h, pri)]
      /\ created' = [created EXCEPT ![h] = TRUE]
      /\ thread_id' = [thread_id EXCEPT ![h] = x]
      /\ params' = [params EXCEPT ![h] = StoredRequest(req, pri)]
      /\ attr' = [attr EXCEPT ![h] = Prepared(h, req)]
      /\ UNCHANGED <<os, initialized>> /\ bereft' = bereft \ {h}
  BY DEF thread_create, CanCreate, Exists, SetsCreated, HandleUse, HandleInv, ThreadTypeOK
<1> HIDE DEF pri
<1>3. Thread(h, pri) \in ThreadRecords
  BY <1>1 DEF Thread, ThreadRecords
<1>4. ThreadTypeOK'
  BY <1>1, <1>2, <1>3 DEF HandleInv, ThreadTypeOK
<1>5. Thread(h, pri).by = h /\ Thread(h, pri).state = "run"
  BY DEF Thread
<1>6. /\ thread'[x] = Thread(h, pri) /\ \A y \in Tids \ {x} : thread'[y] = thread[y]
      /\ created'[h] /\ thread_id'[h] = x
      /\ \A g \in Handles \ {h} : created'[g] = created[g] /\ thread_id'[g] = thread_id[g]
  BY <1>2 DEF HandleInv, ThreadTypeOK
<1>7. ASSUME NEW g \in Handles, created'[g]
      PROVE  /\ g \in initialized' /\ thread_id'[g] \in Tids
             /\ g \notin bereft' => Live(thread_id[g])' /\ thread'[thread_id'[g]].by = g
  <2>1. CASE g = h
    BY <2>1, <1>2, <1>5, <1>6 DEF Live
  <2>2. CASE g # h
    <3>1. created[g] /\ thread_id'[g] = thread_id[g] /\ g \in initialized /\ thread_id[g] \in Tids
      BY <2>2, <1>6, <1>7 DEF HandleInv, Together
    <3>2. ASSUME g \notin bereft'
          PROVE  Live(thread_id[g])' /\ thread'[thread_id'[g]].by = g
      <4>1. g \notin bereft
        BY <2>2, <3>2, <1>2
      <4>2. Live(thread_id[g]) /\ thread[thread_id[g]].by = g
        BY <3>1, <4>1 DEF HandleInv, Together
      <4>3. thread'[thread_id[g]] = thread[thread_id[g]]
        BY <4>2, <3>1, <1>2, <1>6 DEF Live
      <4> QED BY <3>1, <4>2, <4>3 DEF Live
    <3> QED BY <3>1, <3>2, <1>2
  <2> QED BY <2>1, <2>2
<1>8. ASSUME NEW y \in Tids, Live(y)'
      PROVE  created'[thread'[y].by] /\ thread_id'[thread'[y].by] = y /\ thread'[y].by \notin bereft'
  <2>1. CASE y = x
    BY <2>1, <1>2, <1>5, <1>6
  <2>2. CASE y # x
    <3>1. thread'[y] = thread[y] /\ Live(y)
      BY <2>2, <1>6, <1>8 DEF Live
    <3>2. /\ thread[y].by \in Handles /\ created[thread[y].by] /\ thread_id[thread[y].by] = y
          /\ thread[y].by \notin bereft
      BY <3>1, ThreadFields DEF HandleInv, Together, ThreadRecords
    <3>3. thread[y].by # h
      BY <3>2, <1>2
    <3> QED BY <3>1, <3>2, <3>3, <1>2, <1>6
  <2> QED BY <2>1, <2>2
<1>9. Together'
  BY <1>7, <1>8 DEF Together
<1>10. NoneBereft'
  BY <1>2 DEF HandleInv, NoneBereft
<1> QED BY <1>4, <1>9, <1>10 DEF HandleInv

(* A call that changes the record of the thread its identifier names.       *)
LEMMA UpdateKeepsOwns ==
  ASSUME HandleInv, NEW h \in Handles, created[h], NEW r \in ThreadRecords,
         r.by = thread[thread_id[h]].by,
         r.state \in {"run", "suspended"} <=> Live(thread_id[h]),
         thread' = [thread EXCEPT ![thread_id[h]] = r],
         UNCHANGED <<initialized, created, thread_id, bereft>>
  PROVE  /\ Together' /\ NoneBereft'
         /\ thread' \in [Tids -> ThreadRecords \cup {NoThread}]
<1>1. thread_id[h] \in Tids
  BY DEF HandleInv, Together
<1>2. \A y \in Tids : thread'[y].by = thread[y].by /\ (Live(y)' <=> Live(y))
  BY <1>1 DEF HandleInv, ThreadTypeOK, Live
<1>3. Together' /\ NoneBereft'
  BY <1>2 DEF HandleInv, Together, NoneBereft
<1> QED BY <1>1, <1>3 DEF HandleInv, ThreadTypeOK

(* A call that ends or cancels the thread its identifier names, and resets  *)
(* the flag.                                                                *)
LEMMA EndKeepsOwns ==
  ASSUME HandleInv, NEW h \in Handles, created[h], Kill(h) \/ KillNobody(h),
         created' = [created EXCEPT ![h] = FALSE],
         \A g \in Handles \ {h} : thread_id'[g] = thread_id[g] /\ (g \in initialized => g \in initialized')
  PROVE  /\ Together' /\ NoneBereft'
         /\ thread' \in [Tids -> ThreadRecords \cup {NoThread}]
         /\ bereft' \subseteq Handles
<1> DEFINE z == thread_id[h]
<1>1. z \in Tids /\ (h \notin bereft => thread[z].by = h)
  BY DEF HandleInv, Together
<1>2. /\ thread'[z].state \notin {"run", "suspended"}
      /\ \A y \in Tids \ {z} : thread'[y] = thread[y]
      /\ thread' \in [Tids -> ThreadRecords \cup {NoThread}]
      /\ bereft' = bereft \cup Losers(h)
  <2>1. CASE KillNobody(h)
    BY <2>1, <1>1 DEF KillNobody, Losers, Live, Exists, HandleInv, ThreadTypeOK
  <2>2. CASE Kill(h) /\ os = "LINUX"
    <3> DEFINE r == [thread[z] EXCEPT !.state = "cancelled"]
    <3>1. thread[z] \in ThreadRecords
      BY <1>1, <2>2, ThreadFields DEF Kill, HandleInv
    <3>2. r \in ThreadRecords /\ r.state = "cancelled"
      BY <3>1 DEF ThreadRecords
    <3>3. thread' = [thread EXCEPT ![z] = r] /\ bereft' = bereft \cup Losers(h)
      BY <1>1, <2>2 DEF Kill
    <3> HIDE DEF r
    <3> QED BY <3>2, <3>3, <1>1 DEF Live, HandleInv, ThreadTypeOK
  <2>3. CASE Kill(h) /\ os # "LINUX"
    <3>1. NoThread.state = "none"
      BY DEF NoThread
    <3>2. thread' = [thread EXCEPT ![z] = NoThread] /\ bereft' = bereft \cup Losers(h)
      BY <2>3 DEF Kill
    <3> QED BY <3>1, <3>2, <1>1 DEF Live, HandleInv, ThreadTypeOK
  <2> QED BY <2>1, <2>2, <2>3
<1>3. Losers(h) \subseteq Handles /\ \A g \in Handles : g \in Losers(h) => Live(z) /\ thread[z].by = g
  BY <1>1, ThreadFields DEF Losers, HandleInv, ThreadRecords
<1>4. \A g \in Handles : created'[g] <=> g # h /\ created[g]
  BY DEF HandleInv, ThreadTypeOK
<1>5. ASSUME NEW g \in Handles, created'[g]
      PROVE  /\ g \in initialized' /\ thread_id'[g] \in Tids
             /\ g \notin bereft' => Live(thread_id[g])' /\ thread'[thread_id'[g]].by = g
  <2>1. g # h /\ created[g] /\ g \in initialized' /\ thread_id'[g] = thread_id[g] /\ thread_id[g] \in Tids
    BY <1>4, <1>5 DEF HandleInv, Together
  <2>2. ASSUME g \notin bereft'
        PROVE  Live(thread_id[g])' /\ thread'[thread_id'[g]].by = g
    <3>1. g \notin bereft /\ g \notin Losers(h)
      BY <2>2, <1>2
    <3>2. Live(thread_id[g]) /\ thread[thread_id[g]].by = g
      BY <2>1, <3>1 DEF HandleInv, Together
    <3>3. thread_id[g] # z
      BY <2>1, <3>1, <3>2 DEF Losers
    <3>4. thread'[thread_id[g]] = thread[thread_id[g]]
      BY <2>1, <3>3, <1>2
    <3> QED BY <2>1, <3>2, <3>4 DEF Live
  <2> QED BY <2>1, <2>2
<1>6. ASSUME NEW y \in Tids, Live(y)'
      PROVE  created'[thread'[y].by] /\ thread_id'[thread'[y].by] = y /\ thread'[y].by \notin bereft'
  <2>1. y # z /\ thread'[y] = thread[y] /\ Live(y)
    BY <1>2, <1>6 DEF Live
  <2>2. /\ thread[y].by \in Handles /\ created[thread[y].by] /\ thread_id[thread[y].by] = y
        /\ thread[y].by \notin bereft
    BY <2>1, ThreadFields DEF HandleInv, Together, ThreadRecords
  <2>3. thread[y].by # h
    BY <2>1, <2>2 DEF z
  <2>4. thread[y].by \notin Losers(h)
    BY <2>1, <2>2, <1>1, <1>3 DEF HandleInv, Together
  <2> QED BY <2>1, <2>2, <2>3, <2>4, <1>2, <1>4
<1>7. Together'
  BY <1>5, <1>6 DEF Together
<1>8. NoneBereft'
  BY <1>1, <1>2 DEF Losers, HandleInv, NoneBereft
<1> QED BY <1>2, <1>3, <1>7, <1>8 DEF HandleInv, ThreadTypeOK

-----------------------------------------------------------------------------
LEMMA ErrorKeeps ==
  ASSUME HandleInv, NEW h \in Handles, CreateError(h)
  PROVE  HandleInv'
<1>1. Zero \in [policy : 0..2, priority : Int]
  BY DEF Zero
<1>2. ThreadTypeOK'
  BY <1>1 DEF HandleInv, ThreadTypeOK, CreateError
<1> QED BY <1>2 DEF HandleInv, Together, NoneBereft, Live, CreateError

LEMMA StateKeeps ==
  ASSUME HandleInv, NEW h \in Handles, NEW from \in {"run", "suspended"},
         NEW to \in {"run", "suspended"}, SetState(h, from, to)
  PROVE  HandleInv'
<1>1. created[h] /\ UNCHANGED <<os, initialized, created, thread_id, params, attr, bereft>>
  BY DEF SetState, CanUse, handle
<1>2. thread_id[h] \in Tids /\ Live(thread_id[h])
  BY <1>1 DEF HandleInv, Together, SetState, Live
<1>3. thread[thread_id[h]] \in ThreadRecords
  BY <1>2, ThreadFields DEF HandleInv
<1> DEFINE r == [thread[thread_id[h]] EXCEPT !.state = to]
<1>4. r \in ThreadRecords /\ r.by = thread[thread_id[h]].by /\ r.state \in {"run", "suspended"}
  BY <1>3 DEF ThreadRecords
<1>5. thread' = [thread EXCEPT ![thread_id[h]] = r]
  BY DEF SetState
<1> HIDE DEF r
<1>6. Together' /\ NoneBereft' /\ thread' \in [Tids -> ThreadRecords \cup {NoThread}]
  BY <1>1, <1>2, <1>4, <1>5, UpdateKeepsOwns
<1> QED BY <1>1, <1>6 DEF HandleInv, ThreadTypeOK

LEMMA PrioritySetKeeps ==
  ASSUME HandleInv, NEW h \in Handles, NEW pri \in Priorities, thread_priority_set(h, pri)
  PROVE  HandleInv'
<1>1. /\ created[h] /\ pri \in Int /\ UNCHANGED <<os, initialized, created, thread_id, bereft>>
      /\ params' = [params EXCEPT ![h].priority = pri]
  BY ThreadAssumption DEF thread_priority_set, CanUse
<1>2. params' \in [Handles -> [policy : Policies, priority : Int]]
  BY <1>1 DEF HandleInv, ThreadTypeOK
<1>3. attr' \in [Handles -> [policy : 0..2, priority : Int]]
  BY <1>1 DEF HandleInv, ThreadTypeOK, thread_priority_set, ApplyPriority
<1>4. Together' /\ NoneBereft' /\ thread' \in [Tids -> ThreadRecords \cup {NoThread}]
  <2>1. CASE os = "LINUX"
    <3>1. UNCHANGED thread
      BY <2>1 DEF thread_priority_set, ApplyPriority
    <3> QED BY <1>1, <3>1 DEF HandleInv, ThreadTypeOK, Together, NoneBereft, Live
  <2>2. CASE os # "LINUX"
    <3>1. thread_id[h] \in Tids /\ Exists(thread_id[h])
      BY <1>1, <2>2 DEF HandleInv, Together, thread_priority_set, ApplyPriority
    <3>2. thread[thread_id[h]] \in ThreadRecords
      BY <3>1, ThreadFields DEF HandleInv
    <3> DEFINE r == [thread[thread_id[h]] EXCEPT !.priority = pri]
    <3>3. /\ r \in ThreadRecords /\ r.by = thread[thread_id[h]].by
          /\ r.state \in {"run", "suspended"} <=> Live(thread_id[h])
      BY <1>1, <3>2 DEF ThreadRecords, Live
    <3>4. thread' = [thread EXCEPT ![thread_id[h]] = r]
      BY <2>2 DEF thread_priority_set, ApplyPriority
    <3> HIDE DEF r
    <3> QED BY <1>1, <3>3, <3>4, UpdateKeepsOwns
  <2> QED BY <2>1, <2>2
<1> QED BY <1>1, <1>2, <1>3, <1>4 DEF HandleInv, ThreadTypeOK

LEMMA PriorityGetKeeps ==
  ASSUME HandleInv, NEW h \in Handles, thread_priority_get(h)
  PROVE  HandleInv'
<1>1. created[h] /\ UNCHANGED <<os, initialized, created, thread_id, attr, thread, bereft>>
  BY DEF thread_priority_get, CanUse
<1>2. (IF os = "LINUX" THEN attr[h].priority ELSE thread[thread_id[h]].priority) \in Int
  <2>1. CASE os = "LINUX"
    BY <2>1 DEF HandleInv, ThreadTypeOK
  <2>2. CASE os # "LINUX"
    <3>1. thread[thread_id[h]] \in ThreadRecords
      BY <1>1, <2>2, ThreadFields DEF HandleInv, Together, thread_priority_get
    <3> QED BY <2>2, <3>1 DEF ThreadRecords
  <2> QED BY <2>1, <2>2
<1>3. params' \in [Handles -> [policy : Policies, priority : Int]]
  BY <1>2 DEF HandleInv, ThreadTypeOK, thread_priority_get
<1> QED BY <1>1, <1>3 DEF HandleInv, ThreadTypeOK, Together, NoneBereft, Live

LEMMA CancelKeeps ==
  ASSUME HandleInv, NEW h \in Handles, thread_cancel(h)
  PROVE  HandleInv'
<1>1. /\ created[h] /\ (Kill(h) \/ KillNobody(h))
      /\ created' = [created EXCEPT ![h] = FALSE]
      /\ UNCHANGED <<os, initialized, thread_id, params, attr>>
  BY DEF thread_cancel, CanUse, CreatedAfterCancel
<1>2. /\ Together' /\ NoneBereft' /\ bereft' \subseteq Handles
      /\ thread' \in [Tids -> ThreadRecords \cup {NoThread}]
  BY <1>1, EndKeepsOwns
<1> QED BY <1>1, <1>2 DEF HandleInv, ThreadTypeOK

LEMMA DestroyKeeps ==
  ASSUME HandleInv, NEW h \in Handles, thread_handle_destroy(h)
  PROVE  HandleInv'
<1>1. /\ created' = [created EXCEPT ![h] = FALSE]
      /\ initialized' = initialized \ {h}
      /\ thread_id' = [thread_id EXCEPT ![h] = NoTid]
      /\ params' = [params EXCEPT ![h] = Zero]
      /\ attr' = [attr EXCEPT ![h] = Zero]
      /\ UNCHANGED os
  BY DEF thread_handle_destroy
<1>2. \A g \in Handles \ {h} : thread_id'[g] = thread_id[g] /\ (g \in initialized => g \in initialized')
  BY <1>1 DEF HandleInv, ThreadTypeOK
<1>3. /\ Together' /\ NoneBereft' /\ bereft' \subseteq Handles
      /\ thread' \in [Tids -> ThreadRecords \cup {NoThread}]
  <2>1. CASE created[h]
    <3>1. Kill(h) \/ KillNobody(h)
      BY <2>1 DEF thread_handle_destroy, CancelFirst
    <3> QED BY <1>1, <1>2, <2>1, <3>1, EndKeepsOwns
  <2>2. CASE ~created[h]
    <3>1. UNCHANGED <<thread, bereft, created>>
      BY <1>1, <2>2 DEF thread_handle_destroy, CancelFirst, HandleInv, ThreadTypeOK
    <3>2. \A x \in Tids : Live(x) => thread[x].by # h /\ thread[x].by \in Handles
      BY <2>2, ThreadFields DEF HandleInv, Together, ThreadRecords
    <3>3. \A g \in Handles : created[g] => g # h
      BY <2>2
    <3> QED BY <1>2, <3>1, <3>2, <3>3 DEF HandleInv, ThreadTypeOK, Together, NoneBereft, Live
  <2> QED BY <2>1, <2>2
<1>4. Zero \in [policy : Policies, priority : Int] /\ Zero \in [policy : 0..2, priority : Int]
  BY DEF Zero, Policies, FCFS_SCHED
<1> QED BY <1>1, <1>3, <1>4 DEF HandleInv, ThreadTypeOK

LEMMA EndCancelledKeeps ==
  ASSUME HandleInv, NEW x \in Tids, EndCancelled(x)
  PROVE  HandleInv'
<1>1. /\ thread[x].state = "cancelled" /\ thread' = [thread EXCEPT ![x] = NoThread]
      /\ UNCHANGED <<os, initialized, created, thread_id, params, attr, bereft>>
  BY DEF EndCancelled, handle
<1>2. NoThread.state = "none"
  BY DEF NoThread
<1>3. ThreadTypeOK'
  BY <1>1 DEF HandleInv, ThreadTypeOK
<1>4. /\ ~Live(x)' /\ ~Live(x)
      /\ \A y \in Tids \ {x} : thread'[y] = thread[y]
  BY <1>1, <1>2 DEF HandleInv, ThreadTypeOK, Live
<1>5. \A y \in Tids : Live(y) \/ Live(y)' => thread'[y] = thread[y]
  BY <1>4
<1>6. \A y \in Tids : Live(y)' <=> Live(y)
  BY <1>4 DEF Live
<1>7. Together' /\ NoneBereft'
  BY <1>1, <1>5, <1>6 DEF HandleInv, Together, NoneBereft
<1> QED BY <1>3, <1>7 DEF HandleInv

LEMMA EndByItselfKeeps ==
  ASSUME HandleInv, NEW x \in Tids, EndByItself(x)
  PROVE  HandleInv'
<1> DEFINE g == thread[x].by
<1>1. /\ Live(x) /\ thread' = [thread EXCEPT ![x] = NoThread]
      /\ bereft' = bereft \cup {g} /\ SelfEnding
      /\ UNCHANGED <<os, initialized, created, thread_id, params, attr>>
  BY DEF EndByItself, handle, Live
<1>2. g \in Handles /\ created[g] /\ thread_id[g] = x
  BY <1>1, ThreadFields DEF HandleInv, Together, ThreadRecords
<1> HIDE DEF g
<1>3. NoThread.state = "none"
  BY DEF NoThread
<1>4. ThreadTypeOK'
  BY <1>1, <1>2 DEF HandleInv, ThreadTypeOK
<1>5. ~Live(x)' /\ \A y \in Tids \ {x} : thread'[y] = thread[y]
  BY <1>1, <1>3 DEF HandleInv, ThreadTypeOK, Live
<1>6. ASSUME NEW f \in Handles, created'[f]
      PROVE  /\ f \in initialized' /\ thread_id'[f] \in Tids
             /\ f \notin bereft' => Live(thread_id[f])' /\ thread'[thread_id'[f]].by = f
  <2>1. f \in initialized' /\ thread_id'[f] = thread_id[f] /\ thread_id[f] \in Tids /\ created[f]
    BY <1>1, <1>6 DEF HandleInv, Together
  <2>2. ASSUME f \notin bereft'
        PROVE  Live(thread_id[f])' /\ thread'[thread_id'[f]].by = f
    <3>1. f \notin bereft /\ f # g
      BY <2>2, <1>1
    <3>2. Live(thread_id[f]) /\ thread[thread_id[f]].by = f
      BY <2>1, <3>1 DEF HandleInv, Together
    <3>3. thread'[thread_id[f]] = thread[thread_id[f]]
      BY <2>1, <3>1, <3>2, <1>5 DEF g
    <3> QED BY <2>1, <3>2, <3>3 DEF Live
  <2> QED BY <2>1, <2>2
<1>7. ASSUME NEW y \in Tids, Live(y)'
      PROVE  created'[thread'[y].by] /\ thread_id'[thread'[y].by] = y /\ thread'[y].by \notin bereft'
  <2>1. y # x /\ thread'[y] = thread[y] /\ Live(y)
    BY <1>5, <1>7 DEF Live
  <2>2. created[thread[y].by] /\ thread_id[thread[y].by] = y /\ thread[y].by \notin bereft
    BY <2>1 DEF HandleInv, Together
  <2> QED BY <2>1, <2>2, <1>1, <1>2
<1>8. Together'
  BY <1>6, <1>7 DEF Together
<1> QED BY <1>1, <1>4, <1>8 DEF HandleInv, NoneBereft

LEMMA HandleStepKeeps ==
  ASSUME HandleUse, HandleInv, [ThreadNext]_threadVars
  PROVE  HandleInv'
<1>1. CASE \E h \in Handles : thread_handle_init(h)
  BY <1>1, HandleInitKeeps
<1>2. CASE \E h \in Handles, req \in Requests, x \in Tids : thread_create(h, req, x)
  BY <1>2, CreateKeeps
<1>3. CASE \E h \in Handles : CreateError(h)
  BY <1>3, ErrorKeeps
<1>4. CASE \E h \in Handles : thread_suspend(h) \/ thread_resume(h)
  BY <1>4, StateKeeps DEF thread_suspend, thread_resume
<1>5. CASE \E h \in Handles, pri \in Priorities : thread_priority_set(h, pri)
  BY <1>5, PrioritySetKeeps
<1>6. CASE \E h \in Handles : thread_priority_get(h)
  BY <1>6, PriorityGetKeeps
<1>7. CASE \E h \in Handles : thread_cancel(h)
  BY <1>7, CancelKeeps
<1>8. CASE \E h \in Handles : thread_handle_destroy(h)
  BY <1>8, DestroyKeeps
<1>9. CASE \E x \in Tids : EndCancelled(x) \/ EndByItself(x)
  BY <1>9, EndCancelledKeeps, EndByItselfKeeps
<1>10. CASE UNCHANGED threadVars
  BY <1>10 DEF threadVars, handle, HandleInv, ThreadTypeOK, Together, NoneBereft, Live
<1> QED BY <1>1, <1>2, <1>3, <1>4, <1>5, <1>6, <1>7, <1>8, <1>9, <1>10 DEF ThreadNext

(* Every handle that says it has a thread has one or is bereft of it, and   *)
(* every thread nobody cancelled has such a handle.                         *)
THEOREM HandlesInductive ==
  ASSUME HandleUse
  PROVE  ThreadSpec => []HandleInv
<1>1. ThreadInit => HandleInv
  BY HandleInitHolds
<1>2. HandleInv /\ [ThreadNext]_threadVars => HandleInv'
  BY HandleStepKeeps
<1> QED BY <1>1, <1>2, PTL DEF ThreadSpec

-----------------------------------------------------------------------------
(* is_created and thread_id tell which thread a handle has: thread.c:119.   *)
THEOREM FlagIsRight ==
  ASSUME HandleUse
  PROVE  ThreadSpec => []FlagTellsThread
<1>1. HandleInv => FlagTellsThread
  <2> SUFFICES ASSUME HandleInv, NEW h \in Handles
               PROVE  ThreadsOf(h) = IF CanUse(h) /\ h \notin bereft THEN {thread_id[h]} ELSE {}
    BY DEF FlagTellsThread
  <2>1. \A x \in ThreadsOf(h) : created[h] /\ x = thread_id[h] /\ h \notin bereft /\ h \in initialized
    BY DEF ThreadsOf, HandleInv, Together
  <2>2. created[h] /\ h \notin bereft => thread_id[h] \in ThreadsOf(h)
    BY DEF ThreadsOf, HandleInv, Together
  <2>3. CASE CanUse(h) /\ h \notin bereft
    BY <2>1, <2>2, <2>3 DEF CanUse
  <2>4. CASE ~(CanUse(h) /\ h \notin bereft)
    BY <2>1, <2>4 DEF CanUse
  <2> QED BY <2>3, <2>4
<1> QED BY <1>1, HandlesInductive, PTL

(* thread_suspend, thread_resume, thread_priority_set, thread_cancel and    *)
(* thread_handle_destroy touch no thread of another handle, unless their    *)
(* own handle was bereft of its thread: thread.c:649.                       *)
THEOREM CallsActOnTheirOwn ==
  ASSUME HandleUse
  PROVE  ThreadSpec => ActsOnOwnThread
<1>1. HandleInv /\ [ThreadNext]_threadVars =>
        [\A h \in Handles : Acts(h) /\ h \notin bereft =>
           \A x \in Tids : thread'[x] # thread[x] => thread[x].by = h]_threadVars
  <2> SUFFICES ASSUME HandleInv, NEW h \in Handles, Acts(h), h \notin bereft,
                      NEW x \in Tids, thread'[x] # thread[x]
               PROVE  thread[x].by = h
    OBVIOUS
  <2>1. created[h] /\ x = thread_id[h]
    <3>1. ASSUME NEW from, NEW to, SetState(h, from, to)
          PROVE  created[h] /\ x = thread_id[h]
      BY <3>1 DEF SetState, CanUse, HandleInv, ThreadTypeOK
    <3>2. ASSUME NEW pri \in Priorities, thread_priority_set(h, pri)
          PROVE  created[h] /\ x = thread_id[h]
      BY <3>2 DEF thread_priority_set, ApplyPriority, CanUse, HandleInv, ThreadTypeOK
    <3>3. ASSUME thread_cancel(h) \/ thread_handle_destroy(h)
          PROVE  created[h] /\ x = thread_id[h]
      <4>1. created[h] /\ (Kill(h) \/ KillNobody(h))
        BY <3>3 DEF thread_cancel, thread_handle_destroy, CanUse, CancelFirst
      <4> QED BY <4>1 DEF Kill, KillNobody, HandleInv, ThreadTypeOK
    <3> QED BY <3>1, <3>2, <3>3 DEF Acts, thread_suspend, thread_resume
  <2> QED BY <2>1 DEF HandleInv, Together
<1> QED BY <1>1, HandlesInductive, PTL DEF ThreadSpec, ActsOnOwnThread

-----------------------------------------------------------------------------
(* The priorities, where there are calls to change a thread's.              *)
PriorityKept ==
  \A h \in Handles : created[h] => thread[thread_id[h]].priority = params[h].priority

LEMMA PriorityStep ==
  ASSUME HandleUse, ThreadPlatforms \subseteq {"VXWORKS"}, ~SelfEnding,
         HandleInv, PriorityKept, [ThreadNext]_threadVars
  PROVE  PriorityKept'
<1>0. bereft = {}
  BY DEF HandleInv, NoneBereft
<1>1. os # "LINUX"
  BY DEF HandleInv, ThreadTypeOK
<1>2. \A h, g \in Handles : created[h] /\ created[g] /\ h # g => thread_id[h] # thread_id[g]
  BY <1>0 DEF HandleInv, Together
<1>3. \A h \in Handles : created[h] =>
        thread_id[h] \in Tids /\ thread[thread_id[h]] \in ThreadRecords /\ Live(thread_id[h])
  BY <1>0, ThreadFields DEF HandleInv, Together
<1>4. ASSUME NEW h \in Handles, thread_handle_init(h)
      PROVE  PriorityKept'
  BY <1>4 DEF thread_handle_init, PriorityKept, HandleInv, ThreadTypeOK
<1>5. ASSUME NEW h \in Handles, NEW req \in Requests, NEW x \in Tids, thread_create(h, req, x)
      PROVE  PriorityKept'
  <2>1. /\ thread[x].state = "none" /\ thread_id' = [thread_id EXCEPT ![h] = x]
        /\ created' = [created EXCEPT ![h] = SetsCreated]
        /\ thread' = [thread EXCEPT ![x] = Thread(h, req.priority)]
        /\ params' = [params EXCEPT ![h] = StoredRequest(req, req.priority)]
    BY <1>1, <1>5 DEF thread_create, Exists
  <2>2. Thread(h, req.priority).priority = StoredRequest(req, req.priority).priority
    BY DEF Thread, StoredRequest
  <2>3. thread'[thread_id'[h]].priority = params'[h].priority
    BY <2>1, <2>2 DEF HandleInv, ThreadTypeOK
  <2>4. ASSUME NEW g \in Handles \ {h}, created[g]
        PROVE  thread'[thread_id'[g]].priority = params'[g].priority
    <3>1. thread_id'[g] = thread_id[g] /\ params'[g] = params[g] /\ thread_id[g] # x
      BY <2>1, <2>4, <1>3 DEF Live, HandleInv, ThreadTypeOK
    <3>2. thread'[thread_id[g]] = thread[thread_id[g]]
      BY <2>1, <2>4, <3>1, <1>3 DEF HandleInv, ThreadTypeOK
    <3> QED BY <2>4, <3>1, <3>2 DEF PriorityKept
  <2>5. \A g \in Handles \ {h} : created'[g] = created[g]
    BY <2>1 DEF HandleInv, ThreadTypeOK
  <2> QED BY <2>3, <2>4, <2>5 DEF PriorityKept
<1>6. ASSUME NEW h \in Handles, CreateError(h)
      PROVE  PriorityKept'
  BY <1>6 DEF CreateError, PriorityKept
<1>7. ASSUME NEW h \in Handles, NEW from, NEW to, SetState(h, from, to)
      PROVE  PriorityKept'
  <2>1. /\ created[h] /\ thread' = [thread EXCEPT ![thread_id[h]].state = to]
        /\ UNCHANGED <<created, thread_id, params>>
    BY <1>7 DEF SetState, CanUse, handle
  <2>2. \A x \in Tids : Live(x) => thread'[x].priority = thread[x].priority
    <3> SUFFICES ASSUME NEW x \in Tids, Live(x)
                 PROVE  thread'[x].priority = thread[x].priority
      OBVIOUS
    <3>1. thread[x] \in ThreadRecords
      BY ThreadFields DEF HandleInv
    <3> QED BY <2>1, <3>1 DEF HandleInv, ThreadTypeOK, ThreadRecords
  <2> QED BY <2>1, <2>2, <1>3 DEF PriorityKept
<1>8. ASSUME NEW h \in Handles, NEW pri \in Priorities, thread_priority_set(h, pri)
      PROVE  PriorityKept'
  <2>1. /\ created[h] /\ thread' = [thread EXCEPT ![thread_id[h]].priority = pri]
        /\ params' = [params EXCEPT ![h].priority = pri]
        /\ UNCHANGED <<created, thread_id>>
    BY <1>1, <1>8 DEF thread_priority_set, CanUse, ApplyPriority
  <2>2. thread'[thread_id[h]].priority = pri /\ params'[h].priority = pri
    BY <2>1, <1>3 DEF HandleInv, ThreadTypeOK, ThreadRecords
  <2>3. ASSUME NEW g \in Handles \ {h}, created[g]
        PROVE  thread'[thread_id[g]] = thread[thread_id[g]] /\ params'[g] = params[g]
    <3>1. thread_id[g] # thread_id[h] /\ thread_id[g] \in Tids
      BY <2>1, <2>3, <1>2, <1>3
    <3> QED BY <2>1, <3>1 DEF HandleInv, ThreadTypeOK
  <2>4. UNCHANGED <<created, thread_id>>
    BY <2>1
  <2> QED BY <2>2, <2>3, <2>4 DEF PriorityKept
<1>9. ASSUME NEW h \in Handles, thread_priority_get(h)
      PROVE  PriorityKept'
  <2>1. /\ params' = [params EXCEPT ![h].priority = thread[thread_id[h]].priority]
        /\ UNCHANGED <<created, thread_id, thread>>
    BY <1>1, <1>9 DEF thread_priority_get
  <2>2. \A g \in Handles : params'[g].priority =
          IF g = h THEN thread[thread_id[h]].priority ELSE params[g].priority
    BY <2>1 DEF HandleInv, ThreadTypeOK
  <2> QED BY <2>1, <2>2 DEF PriorityKept
<1>10. ASSUME NEW h \in Handles, created[h], Kill(h) \/ KillNobody(h),
              created' = [created EXCEPT ![h] = FALSE],
              \A g \in Handles \ {h} : thread_id'[g] = thread_id[g] /\ params'[g] = params[g]
       PROVE  PriorityKept'
  <2>1. ASSUME NEW g \in Handles \ {h}, created[g]
        PROVE  thread'[thread_id[g]] = thread[thread_id[g]]
    <3>1. thread_id[g] # thread_id[h] /\ thread_id[g] \in Tids
      BY <2>1, <1>10, <1>2, <1>3
    <3> QED BY <1>10, <3>1 DEF Kill, KillNobody, HandleInv, ThreadTypeOK
  <2>2. \A g \in Handles : created'[g] => g # h /\ created[g]
    BY <1>10 DEF HandleInv, ThreadTypeOK
  <2> QED BY <1>10, <2>1, <2>2 DEF PriorityKept
<1>11. ASSUME NEW h \in Handles, thread_cancel(h)
       PROVE  PriorityKept'
  BY <1>10, <1>11 DEF thread_cancel, CanUse, CreatedAfterCancel
<1>12. ASSUME NEW h \in Handles, thread_handle_destroy(h)
       PROVE  PriorityKept'
  <2>1. /\ created' = [created EXCEPT ![h] = FALSE]
        /\ \A g \in Handles \ {h} : thread_id'[g] = thread_id[g] /\ params'[g] = params[g]
    BY <1>12 DEF thread_handle_destroy, HandleInv, ThreadTypeOK
  <2>2. CASE created[h]
    BY <1>10, <1>12, <2>1, <2>2 DEF thread_handle_destroy, CancelFirst
  <2>3. CASE ~created[h]
    <3>1. UNCHANGED thread
      BY <1>12, <2>3 DEF thread_handle_destroy, CancelFirst
    <3>2. \A g \in Handles : created'[g] => g # h /\ created[g]
      BY <2>1 DEF HandleInv, ThreadTypeOK
    <3> QED BY <2>1, <3>1, <3>2 DEF PriorityKept
  <2> QED BY <2>2, <2>3
<1>13. ASSUME NEW x \in Tids, EndCancelled(x) \/ EndByItself(x)
       PROVE  PriorityKept'
  <2>1. /\ thread' = [thread EXCEPT ![x] = NoThread] /\ ~Live(x)
        /\ UNCHANGED <<created, thread_id, params>>
    BY <1>13 DEF EndCancelled, EndByItself, Live, handle
  <2>2. \A g \in Handles : created[g] => thread'[thread_id[g]] = thread[thread_id[g]]
    BY <2>1, <1>3 DEF HandleInv, ThreadTypeOK
  <2> QED BY <2>1, <2>2 DEF PriorityKept
<1>14. CASE UNCHANGED threadVars
  BY <1>14 DEF threadVars, handle, PriorityKept
<1> QED
  BY <1>4, <1>5, <1>6, <1>7, <1>8, <1>9, <1>11, <1>12, <1>13, <1>14
  DEF ThreadNext, thread_suspend, thread_resume

(* The priority a handle records is its thread's on VxWorks (thread.c:514),  *)
(* where threads run until they are cancelled: a handle whose thread ended  *)
(* by itself may change the priority of another handle's.                   *)
THEOREM PriorityIsReal ==
  ASSUME HandleUse, ThreadPlatforms \subseteq {"VXWORKS"}, ~SelfEnding
  PROVE  ThreadSpec => []RecordedPriorityIsReal
<1>1. ThreadInit => PriorityKept
  BY DEF ThreadInit, PriorityKept
<1>2. HandleInv /\ PriorityKept /\ [ThreadNext]_threadVars => PriorityKept'
  BY PriorityStep
<1>3. HandleInv /\ PriorityKept => RecordedPriorityIsReal
  BY DEF HandleInv, Together, PriorityKept, RecordedPriorityIsReal, ThreadsOf
<1> QED BY <1>1, <1>2, <1>3, HandlesInductive, PTL DEF ThreadSpec
=============================================================================
