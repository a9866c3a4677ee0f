----------------------------- MODULE TaskProofs ------------------------------
(***************************************************************************)
(* Proofs about the modules of tasks: OsSemaphore, Spawn, PthreadAttr and  *)
(* QueueNames, each for any number of threads or processes.                *)
(***************************************************************************)
EXTENDS OsSemaphore, Spawn, PthreadAttr, QueueNames, SequenceTheorems, TLAPS

-----------------------------------------------------------------------------
(* OsSemaphore: the answers of sem_take and sem_give account for every      *)
(* token, where finite waits are used on Linux only.                        *)

(* Elsewhere a wait that ran out is answered with AII_OK.                   *)
FiniteOnLinux == \A p \in SemPlatforms : p # "LINUX" => Waits[p] \subseteq {"forever"}

TokenInv ==
  /\ SemTypeOK
  /\ AccountsAgree
  /\ \A t \in SemThreads : wait[t] # "none" => made
  /\ \A t \in SemThreads : wait[t] = "finite" => platform = "LINUX"

LEMMA TokenStarts == SemInit => TokenInv
<1> SUFFICES ASSUME SemInit PROVE TokenInv
  OBVIOUS
<1>1. SemTypeOK
  <2>1. made \in BOOLEAN
    BY DEF SemInit
  <2> QED BY <2>1 DEF SemInit, SemTypeOK
<1>2. AccountsAgree
  BY DEF SemInit, AccountsAgree
<1>3. \A t \in SemThreads : wait[t] = "none"
  BY DEF SemInit
<1> QED BY <1>1, <1>2, <1>3 DEF TokenInv

LEMMA TokenStepKeeps ==
  ASSUME FiniteOnLinux, TokenInv, [SemNext]_semVars
  PROVE  TokenInv'
<1>1. ASSUME NEW n \in InitCounts, sem_create(n)
      PROVE  TokenInv'
  BY <1>1, SemaphoreAssumption DEF sem_create, TokenInv, SemTypeOK, AccountsAgree
<1>2. CASE sem_delete
  BY <1>2 DEF sem_delete, TokenInv, SemTypeOK, AccountsAgree
<1>3. CASE sem_give
  <2>1. UNCHANGED <<platform, made, wait>> /\ made
    BY <1>3 DEF sem_give
  <2>2. value' \in Nat /\ told' \in Int /\ value' = told'
    <3>1. CASE Full
      BY <1>3, <3>1 DEF sem_give, GiveAnswer, TokenInv, SemTypeOK, AccountsAgree
    <3>2. CASE ~Full
      BY <1>3, <3>2 DEF sem_give, GiveAnswer, TokenInv, SemTypeOK, AccountsAgree
    <3> QED BY <3>1, <3>2
  <2> QED BY <2>1, <2>2 DEF TokenInv, SemTypeOK, AccountsAgree
<1>4. ASSUME NEW t \in SemThreads, NEW w \in Waits[platform], sem_take(t, w)
      PROVE  TokenInv'
  <2>1. w \in {"forever", "finite"} /\ (w = "finite" => platform = "LINUX")
    BY SemaphoreAssumption DEF FiniteOnLinux, TokenInv, SemTypeOK
  <2> QED BY <1>4, <2>1 DEF sem_take, TokenInv, SemTypeOK, AccountsAgree
<1>5. ASSUME NEW t \in SemThreads, Taken(t)
      PROVE  TokenInv'
  BY <1>5 DEF Taken, Return, TokenInv, SemTypeOK, AccountsAgree
<1>6. ASSUME NEW t \in SemThreads, Timeout(t)
      PROVE  TokenInv'
  BY <1>6 DEF Timeout, TimeoutAnswer, Return, TokenInv, SemTypeOK, AccountsAgree
<1>7. CASE UNCHANGED semVars
  BY <1>7 DEF semVars, TokenInv, SemTypeOK, AccountsAgree
<1> QED BY <1>1, <1>2, <1>3, <1>4, <1>5, <1>6, <1>7 DEF SemNext

(* Every AII_OK of sem_take has a token behind it, and every token given is *)
(* still there or was taken by somebody who knows.                          *)
THEOREM AnswersAccountForTokens ==
  ASSUME FiniteOnLinux
  PROVE  SemSpec => []AccountsAgree
<1>1. TokenInv => AccountsAgree
  BY DEF TokenInv
<1> QED BY <1>1, TokenStarts, TokenStepKeeps, PTL DEF SemSpec

-----------------------------------------------------------------------------
(* Spawn: every block has exactly one owner and every routine gets the      *)
(* arguments its thread was created for, for any addresses and requests.    *)

SpawnTypeOK ==
  /\ place \in [Spawners -> {"out", "attributes", "arguments", "create", "destroy"}]
  /\ request \in [Spawners -> Requests \cup {NoRequest}]
  /\ func \in [Spawners -> Addresses \cup {Nowhere}]
  /\ allocated \subseteq Addresses
  /\ block \in [Addresses -> Requests \cup {NoRequest}]
  /\ stage \in [TaskIds -> {"none", "start", "copied", "running"}]
  /\ arg \in [TaskIds -> Addresses \cup {Nowhere}]
  /\ local \in [TaskIds -> Requests \cup {NoRequest}]
  /\ meant \in [TaskIds -> Requests \cup {NoRequest}]

(* A spawner has a block from malloc to pthread_create, with its request.   *)
SpawnerSound(s) ==
  /\ place[s] \in {"out", "attributes", "arguments"} => func[s] = Nowhere
  /\ place[s] \in {"attributes", "arguments", "create"} => request[s] \in Requests
  /\ place[s] = "create" =>
       IF request[s] \in Single THEN func[s] = Nowhere
       ELSE func[s] \in allocated /\ block[func[s]] = request[s]

(* A thread has a block until it frees it, with what it was created for.    *)
ThreadSound(x) ==
  /\ stage[x] \in {"start", "copied"} => arg[x] \in allocated
  /\ stage[x] = "start" => block[arg[x]] = meant[x]
  /\ stage[x] \in {"copied", "running"} => local[x] = meant[x]

SpawnersApart ==
  \A s, u \in Spawners :
    place[s] = "create" /\ place[u] = "create" /\ func[s] = func[u] /\ func[s] # Nowhere
      => s = u

ThreadsApart ==
  \A x, y \in TaskIds :
    stage[x] \in {"start", "copied"} /\ stage[y] \in {"start", "copied"}
      /\ arg[x] = arg[y] => x = y

BothApart ==
  \A s \in Spawners, x \in TaskIds :
    place[s] = "create" /\ stage[x] \in {"start", "copied"} => func[s] # arg[x]

Owned ==
  \A a \in allocated :
    (\E s \in Spawners : SpawnerOwns(s, a)) \/ (\E x \in TaskIds : ThreadOwns(x, a))

SpawnInv ==
  /\ SpawnTypeOK
  /\ \A s \in Spawners : SpawnerSound(s)
  /\ \A x \in TaskIds : ThreadSound(x)
  /\ SpawnersApart
  /\ ThreadsApart
  /\ BothApart
  /\ Owned

-----------------------------------------------------------------------------
LEMMA SpawnStarts == SpawnInit => SpawnInv
BY DEF SpawnInit, SpawnInv, SpawnTypeOK, SpawnerSound, ThreadSound, SpawnersApart,
       ThreadsApart, BothApart, Owned

(* The steps of a spawner that leave blocks and threads alone.              *)
LEMMA CallerKeeps ==
  ASSUME SpawnInv, NEW s \in Spawners,
         \/ \E r \in Requests : TaskCreate(s, r)
         \/ Pthread_attr_set(s) \/ AttributesFail(s)
         \/ NoBlock(s) \/ NoMemory(s) \/ Pthread_attr_destroy(s)
  PROVE  SpawnInv'
<1>1. UNCHANGED <<allocated, block, stage, arg, local, meant>>
  BY DEF TaskCreate, Pthread_attr_set, AttributesFail, NoBlock, NoMemory,
         Pthread_attr_destroy, memory, thread
<1>2. place[s] # "create"
  BY DEF TaskCreate, Pthread_attr_set, AttributesFail, NoBlock, NoMemory, Pthread_attr_destroy
<1>3. SpawnTypeOK'
  BY <1>1 DEF TaskCreate, Pthread_attr_set, AttributesFail, NoBlock, NoMemory,
         Pthread_attr_destroy, ReturnFrom, SpawnInv, SpawnTypeOK
<1>4. \A u \in Spawners : u # s => /\ place'[u] = place[u] /\ request'[u] = request[u]
                                   /\ func'[u] = func[u]
  BY DEF TaskCreate, Pthread_attr_set, AttributesFail, NoBlock, NoMemory,
         Pthread_attr_destroy, ReturnFrom, SpawnInv, SpawnTypeOK
<1>5. SpawnerSound(s)' /\ (place'[s] = "create" => func'[s] = Nowhere)
  BY <1>1 DEF TaskCreate, Pthread_attr_set, AttributesFail, NoBlock, NoMemory,
         Pthread_attr_destroy, ReturnFrom, SpawnInv, SpawnTypeOK, SpawnerSound
<1>6. \A u \in Spawners : SpawnerSound(u)'
  BY <1>1, <1>4, <1>5 DEF SpawnInv, SpawnerSound
<1>7. \A x \in TaskIds : ThreadSound(x)'
  BY <1>1 DEF SpawnInv, ThreadSound
<1>8. SpawnersApart'
  BY <1>4, <1>5 DEF SpawnInv, SpawnersApart
<1>9. ThreadsApart'
  BY <1>1 DEF SpawnInv, ThreadsApart
<1>10. BothApart'
  <2>1. \A x \in TaskIds : stage[x] \in {"start", "copied"} => arg[x] # Nowhere
    BY SpawnAssumption DEF SpawnInv, ThreadSound, SpawnTypeOK
  <2> QED BY <1>1, <1>4, <1>5, <2>1 DEF SpawnInv, BothApart
<1>11. Owned'
  <2>1. \A a, u \in Spawners : TRUE
    OBVIOUS
  <2>2. \A a \in allocated, u \in Spawners : SpawnerOwns(u, a) => SpawnerOwns(u, a)'
    BY <1>2, <1>4 DEF SpawnerOwns
  <2>3. \A a \in allocated, x \in TaskIds : ThreadOwns(x, a) => ThreadOwns(x, a)'
    BY <1>1 DEF ThreadOwns
  <2> QED BY <1>1, <2>2, <2>3 DEF SpawnInv, Owned
<1> QED BY <1>3, <1>6, <1>7, <1>8, <1>9, <1>10, <1>11 DEF SpawnInv

LEMMA AllocateKeeps ==
  ASSUME SpawnInv, NEW s \in Spawners, Allocate(s)
  PROVE  SpawnInv'
<1>1. PICK a \in Addresses \ allocated :
        /\ func' = [func EXCEPT ![s] = a]
        /\ allocated' = allocated \cup {a}
        /\ block' = [block EXCEPT ![a] = request[s]]
  BY DEF Allocate
<1>2. /\ place[s] = "arguments" /\ request[s] \notin Single
      /\ place' = [place EXCEPT ![s] = "create"]
      /\ UNCHANGED <<request, stage, arg, local, meant>>
  BY DEF Allocate, thread
<1>3. SpawnTypeOK'
  BY <1>1, <1>2 DEF SpawnInv, SpawnTypeOK
<1>4. \A b \in allocated : b # a /\ b \in Addresses /\ block'[b] = block[b] /\ b \in allocated'
  BY <1>1 DEF SpawnInv, SpawnTypeOK
<1>5. \A u \in Spawners : u # s => place'[u] = place[u] /\ func'[u] = func[u]
  BY <1>1, <1>2 DEF SpawnInv, SpawnTypeOK
<1>6. place'[s] = "create" /\ func'[s] = a /\ block'[a] = request[s] /\ a \in allocated'
      /\ request[s] \in Requests /\ a # Nowhere
  BY <1>1, <1>2, SpawnAssumption DEF SpawnInv, SpawnTypeOK, SpawnerSound
<1>7. \A u \in Spawners : SpawnerSound(u)'
  <2> SUFFICES ASSUME NEW u \in Spawners PROVE SpawnerSound(u)'
    OBVIOUS
  <2>1. CASE u = s
    BY <2>1, <1>2, <1>6 DEF SpawnerSound
  <2>2. CASE u # s
    BY <2>2, <1>2, <1>4, <1>5 DEF SpawnInv, SpawnerSound
  <2> QED BY <2>1, <2>2
<1>8. \A x \in TaskIds : ThreadSound(x)'
  BY <1>2, <1>4 DEF SpawnInv, ThreadSound
<1>9. \A u \in Spawners : place[u] = "create" => func[u] # a
  BY <1>1, <1>4, <1>6 DEF SpawnInv, SpawnerSound
<1>10. \A x \in TaskIds : stage[x] \in {"start", "copied"} => arg[x] # a
  BY <1>4 DEF SpawnInv, ThreadSound
<1>11. SpawnersApart'
  BY <1>5, <1>6, <1>9 DEF SpawnInv, SpawnersApart
<1>12. ThreadsApart'
  BY <1>2 DEF SpawnInv, ThreadsApart
<1>13. BothApart'
  BY <1>2, <1>5, <1>6, <1>10 DEF SpawnInv, BothApart
<1>14. Owned'
  <2>1. SpawnerOwns(s, a)'
    BY <1>6 DEF SpawnerOwns
  <2>2. \A b \in allocated, u \in Spawners : SpawnerOwns(u, b) => SpawnerOwns(u, b)'
    BY <1>2, <1>5 DEF SpawnerOwns
  <2>3. \A b \in allocated, x \in TaskIds : ThreadOwns(x, b) => ThreadOwns(x, b)'
    BY <1>2 DEF ThreadOwns
  <2> QED BY <1>1, <2>1, <2>2, <2>3 DEF SpawnInv, Owned
<1> QED BY <1>3, <1>7, <1>8, <1>11, <1>12, <1>13, <1>14 DEF SpawnInv

(* The block changes hands.                                                 *)
LEMMA CreateKeeps ==
  ASSUME SpawnInv, NEW s \in Spawners, Pthread_create(s)
  PROVE  SpawnInv'
<1> DEFINE direct == request[s] \in Single
<1>1. PICK x \in TaskIds :
        /\ stage[x] = "none"
        /\ stage' = [stage EXCEPT ![x] = IF direct THEN "running" ELSE "start"]
        /\ arg' = [arg EXCEPT ![x] = func[s]]
        /\ local' = [local EXCEPT ![x] = IF direct THEN request[s] ELSE NoRequest]
        /\ meant' = [meant EXCEPT ![x] = request[s]]
  BY DEF Pthread_create
<1>2. /\ place[s] = "create" /\ place' = [place EXCEPT ![s] = "destroy"]
      /\ UNCHANGED <<request, func, allocated, block>>
  BY DEF Pthread_create, Created, KeepFunc, memory
<1>3. SpawnTypeOK'
  <2>1. stage' \in [TaskIds -> {"none", "start", "copied", "running"}]
    BY <1>1 DEF SpawnInv, SpawnTypeOK
  <2>2. local' \in [TaskIds -> Requests \cup {NoRequest}]
    BY <1>1 DEF SpawnInv, SpawnTypeOK
  <2> QED BY <1>1, <1>2, <2>1, <2>2 DEF SpawnInv, SpawnTypeOK
<1>4. \A u \in Spawners : u # s => place'[u] = place[u]
  BY <1>2 DEF SpawnInv, SpawnTypeOK
<1>5. place'[s] = "destroy"
  BY <1>2 DEF SpawnInv, SpawnTypeOK
<1>6. \A y \in TaskIds : y # x => /\ stage'[y] = stage[y] /\ arg'[y] = arg[y]
                                  /\ local'[y] = local[y] /\ meant'[y] = meant[y]
  BY <1>1 DEF SpawnInv, SpawnTypeOK
<1>7. /\ arg'[x] = func[s] /\ meant'[x] = request[s]
      /\ direct => stage'[x] = "running" /\ local'[x] = request[s]
      /\ ~direct => stage'[x] = "start"
  BY <1>1 DEF SpawnInv, SpawnTypeOK
<1>8. ~direct => func[s] \in allocated /\ block[func[s]] = request[s] /\ func[s] # Nowhere
  BY <1>2, SpawnAssumption DEF SpawnInv, SpawnerSound, SpawnTypeOK
<1>9. direct => func[s] = Nowhere
  BY <1>2 DEF SpawnInv, SpawnerSound
<1>10. \A u \in Spawners : SpawnerSound(u)'
  BY <1>2, <1>4, <1>5 DEF SpawnInv, SpawnerSound
<1>11. \A y \in TaskIds : ThreadSound(y)'
  <2> SUFFICES ASSUME NEW y \in TaskIds PROVE ThreadSound(y)'
    OBVIOUS
  <2>1. CASE y = x /\ direct
    BY <2>1, <1>7 DEF ThreadSound
  <2>2. CASE y = x /\ ~direct
    BY <2>2, <1>2, <1>7, <1>8 DEF ThreadSound
  <2>3. CASE y # x
    BY <2>3, <1>2, <1>6 DEF SpawnInv, ThreadSound
  <2> QED BY <2>1, <2>2, <2>3
<1>12. SpawnersApart'
  BY <1>2, <1>4, <1>5 DEF SpawnInv, SpawnersApart
<1>13. ThreadsApart'
  <2>1. \A y \in TaskIds : stage[y] \in {"start", "copied"} => arg[y] # func[s]
    BY <1>2 DEF SpawnInv, BothApart
  <2> QED BY <1>6, <1>7, <2>1 DEF SpawnInv, ThreadsApart
<1>14. BothApart'
  <2>1. \A u \in Spawners : u # s /\ place[u] = "create" /\ ~direct => func[u] # func[s]
    BY <1>2, <1>8 DEF SpawnInv, SpawnersApart
  <2> QED BY <1>2, <1>4, <1>5, <1>6, <1>7, <2>1 DEF SpawnInv, BothApart
<1>15. Owned'
  <2> SUFFICES ASSUME NEW a \in allocated
               PROVE  \/ \E u \in Spawners : SpawnerOwns(u, a)'
                      \/ \E y \in TaskIds : ThreadOwns(y, a)'
    BY <1>2 DEF Owned
  <2>1. a # Nowhere
    BY SpawnAssumption DEF SpawnInv, SpawnTypeOK
  <2>2. ASSUME NEW u \in Spawners, SpawnerOwns(u, a)
        PROVE  SpawnerOwns(u, a)' \/ ThreadOwns(x, a)'
    BY <2>1, <2>2, <1>2, <1>4, <1>7, <1>9 DEF SpawnerOwns, ThreadOwns
  <2>3. ASSUME NEW y \in TaskIds, ThreadOwns(y, a)
        PROVE  ThreadOwns(y, a)'
    BY <2>3, <1>1, <1>6 DEF ThreadOwns
  <2> QED BY <2>2, <2>3 DEF SpawnInv, Owned
<1> QED BY <1>3, <1>10, <1>11, <1>12, <1>13, <1>14, <1>15 DEF SpawnInv

LEMMA FailKeeps ==
  ASSUME SpawnInv, NEW s \in Spawners, CreateFails(s)
  PROVE  SpawnInv'
<1>1. /\ place[s] = "create" /\ place' = [place EXCEPT ![s] = "destroy"]
      /\ UNCHANGED <<request, func, stage, arg, local, meant>>
      /\ allocated' = allocated \ {func[s]}
      /\ \A a \in Addresses : a # func[s] => block'[a] = block[a]
  <2>1. CASE func[s] = Nowhere
    <3>1. UNCHANGED <<allocated, block>> /\ func[s] \notin allocated
      BY <2>1, SpawnAssumption DEF CreateFails, NotCreated, FreeFunc, memory, SpawnInv, SpawnTypeOK
    <3> QED BY <3>1 DEF CreateFails, thread
  <2>2. CASE func[s] # Nowhere
    BY <2>2 DEF CreateFails, NotCreated, FreeFunc, Free, thread, SpawnInv, SpawnTypeOK
  <2> QED BY <2>1, <2>2
<1>2. SpawnTypeOK'
  <2>1. block' \in [Addresses -> Requests \cup {NoRequest}]
    BY DEF CreateFails, NotCreated, FreeFunc, Free, memory, SpawnInv, SpawnTypeOK
  <2> QED BY <1>1, <2>1 DEF SpawnInv, SpawnTypeOK
<1>3. /\ \A u \in Spawners : u # s => place'[u] = place[u]
      /\ place'[s] = "destroy"
  BY <1>1 DEF SpawnInv, SpawnTypeOK
<1>4. \A a \in allocated : a \in Addresses /\ a # Nowhere
  BY SpawnAssumption DEF SpawnInv, SpawnTypeOK
<1>5. \A u \in Spawners : SpawnerSound(u)'
  <2> SUFFICES ASSUME NEW u \in Spawners PROVE SpawnerSound(u)'
    OBVIOUS
  <2>1. CASE u = s
    BY <2>1, <1>1, <1>3 DEF SpawnerSound
  <2>2. CASE u # s
    <3>1. place[u] = "create" /\ request[u] \notin Single =>
            func[u] \in allocated /\ func[u] # func[s]
      BY <2>2, <1>1, <1>4 DEF SpawnInv, SpawnerSound, SpawnersApart
    <3> QED BY <2>2, <3>1, <1>1, <1>3, <1>4 DEF SpawnInv, SpawnerSound
  <2> QED BY <2>1, <2>2
<1>6. \A x \in TaskIds : ThreadSound(x)'
  <2>1. \A x \in TaskIds : stage[x] \in {"start", "copied"} => arg[x] # func[s]
    BY <1>1 DEF SpawnInv, BothApart
  <2> QED BY <1>1, <1>4, <2>1 DEF SpawnInv, ThreadSound
<1>7. SpawnersApart' /\ ThreadsApart' /\ BothApart'
  BY <1>1, <1>3 DEF SpawnInv, SpawnersApart, ThreadsApart, BothApart
<1>8. Owned'
  <2>1. \A a \in allocated', u \in Spawners : SpawnerOwns(u, a) => SpawnerOwns(u, a)'
    BY <1>1, <1>3 DEF SpawnerOwns
  <2>2. \A a \in allocated', x \in TaskIds : ThreadOwns(x, a) => ThreadOwns(x, a)'
    BY <1>1 DEF ThreadOwns
  <2>3. allocated' \subseteq allocated
    BY <1>1
  <2> QED BY <2>1, <2>2, <2>3 DEF SpawnInv, Owned
<1> QED BY <1>2, <1>5, <1>6, <1>7, <1>8 DEF SpawnInv

LEMMA CopyKeeps ==
  ASSUME SpawnInv, NEW x \in TaskIds, Copy(x)
  PROVE  SpawnInv'
<1>1. /\ stage[x] = "start"
      /\ UNCHANGED <<place, request, func, allocated, block, arg, meant>>
      /\ stage' = [stage EXCEPT ![x] = "copied"]
      /\ local' = [local EXCEPT ![x] = block[arg[x]]]
  BY DEF Copy, caller, memory
<1>2. block[arg[x]] = meant[x] /\ meant[x] \in Requests \cup {NoRequest}
  BY <1>1 DEF SpawnInv, ThreadSound, SpawnTypeOK
<1>3. SpawnTypeOK'
  BY <1>1, <1>2 DEF SpawnInv, SpawnTypeOK
<1>4. /\ stage'[x] = "copied" /\ local'[x] = meant[x]
      /\ \A y \in TaskIds : y # x => stage'[y] = stage[y] /\ local'[y] = local[y]
  BY <1>1, <1>2 DEF SpawnInv, SpawnTypeOK
<1>5. \A y \in TaskIds : stage[y] \in {"start", "copied"} <=> stage'[y] \in {"start", "copied"}
  BY <1>1, <1>4
<1>6. \A u \in Spawners : SpawnerSound(u)'
  BY <1>1 DEF SpawnInv, SpawnerSound
<1>7. \A y \in TaskIds : ThreadSound(y)'
  <2> SUFFICES ASSUME NEW y \in TaskIds PROVE ThreadSound(y)'
    OBVIOUS
  <2>1. CASE y = x
    BY <2>1, <1>1, <1>4 DEF SpawnInv, ThreadSound
  <2>2. CASE y # x
    BY <2>2, <1>1, <1>4 DEF SpawnInv, ThreadSound
  <2> QED BY <2>1, <2>2
<1>8. SpawnersApart' /\ ThreadsApart' /\ BothApart'
  BY <1>1, <1>5 DEF SpawnInv, SpawnersApart, ThreadsApart, BothApart
<1>9. Owned'
  BY <1>1, <1>5 DEF SpawnInv, Owned, SpawnerOwns, ThreadOwns
<1> QED BY <1>3, <1>6, <1>7, <1>8, <1>9 DEF SpawnInv

LEMMA FreeKeeps ==
  ASSUME SpawnInv, NEW x \in TaskIds, FreeArgument(x)
  PROVE  SpawnInv'
<1>1. /\ stage[x] = "copied"
      /\ UNCHANGED <<place, request, func, arg, local, meant>>
      /\ stage' = [stage EXCEPT ![x] = "running"]
      /\ allocated' = allocated \ {arg[x]}
      /\ block' = [block EXCEPT ![arg[x]] = NoRequest]
  BY DEF FreeArgument, Free, caller
<1>2. SpawnTypeOK'
  BY <1>1 DEF SpawnInv, SpawnTypeOK
<1>3. /\ stage'[x] = "running"
      /\ \A y \in TaskIds : y # x => stage'[y] = stage[y]
      /\ \A a \in allocated : a # arg[x] => a \in allocated' /\ block'[a] = block[a]
  BY <1>1 DEF SpawnInv, SpawnTypeOK
<1>4. \A u \in Spawners : SpawnerSound(u)'
  <2>1. \A u \in Spawners : place[u] = "create" => func[u] # arg[x]
    BY <1>1 DEF SpawnInv, BothApart
  <2> QED BY <1>1, <1>3, <2>1 DEF SpawnInv, SpawnerSound
<1>5. \A y \in TaskIds : ThreadSound(y)'
  <2>1. \A y \in TaskIds : y # x /\ stage[y] \in {"start", "copied"} => arg[y] # arg[x]
    BY <1>1 DEF SpawnInv, ThreadsApart
  <2> SUFFICES ASSUME NEW y \in TaskIds PROVE ThreadSound(y)'
    OBVIOUS
  <2>2. CASE y = x
    BY <2>2, <1>1, <1>3 DEF SpawnInv, ThreadSound
  <2>3. CASE y # x
    BY <2>1, <2>3, <1>1, <1>3 DEF SpawnInv, ThreadSound
  <2> QED BY <2>2, <2>3
<1>6. SpawnersApart' /\ ThreadsApart' /\ BothApart'
  BY <1>1, <1>3 DEF SpawnInv, SpawnersApart, ThreadsApart, BothApart
<1>7. Owned'
  <2>1. allocated' \subseteq allocated /\ arg[x] \notin allocated'
    BY <1>1
  <2>2. \A a \in allocated', u \in Spawners : SpawnerOwns(u, a) => SpawnerOwns(u, a)'
    BY <1>1 DEF SpawnerOwns
  <2>3. \A a \in allocated', y \in TaskIds : ThreadOwns(y, a) => ThreadOwns(y, a)'
    BY <1>1, <1>3, <2>1 DEF ThreadOwns
  <2> QED BY <2>1, <2>2, <2>3 DEF SpawnInv, Owned
<1> QED BY <1>2, <1>4, <1>5, <1>6, <1>7 DEF SpawnInv

LEMMA EndKeeps ==
  ASSUME SpawnInv, NEW x \in TaskIds, TaskEnds(x)
  PROVE  SpawnInv'
<1>1. /\ stage[x] = "running" /\ stage' = [stage EXCEPT ![x] = "none"]
      /\ arg' = [arg EXCEPT ![x] = Nowhere]
      /\ local' = [local EXCEPT ![x] = NoRequest]
      /\ meant' = [meant EXCEPT ![x] = NoRequest]
      /\ UNCHANGED <<place, request, func, allocated, block>>
  BY DEF TaskEnds, caller, memory
<1>2. SpawnTypeOK'
  BY <1>1 DEF SpawnInv, SpawnTypeOK
<1>3. /\ stage'[x] = "none"
      /\ \A y \in TaskIds : y # x => /\ stage'[y] = stage[y] /\ arg'[y] = arg[y]
                                     /\ local'[y] = local[y] /\ meant'[y] = meant[y]
  BY <1>1 DEF SpawnInv, SpawnTypeOK
<1>4. \A u \in Spawners : SpawnerSound(u)'
  BY <1>1 DEF SpawnInv, SpawnerSound
<1>5. \A y \in TaskIds : ThreadSound(y)'
  BY <1>1, <1>3 DEF SpawnInv, ThreadSound
<1>6. SpawnersApart' /\ ThreadsApart' /\ BothApart'
  BY <1>1, <1>3 DEF SpawnInv, SpawnersApart, ThreadsApart, BothApart
<1>7. Owned'
  BY <1>1, <1>3 DEF SpawnInv, Owned, SpawnerOwns, ThreadOwns
<1> QED BY <1>2, <1>4, <1>5, <1>6, <1>7 DEF SpawnInv

LEMMA StutterKeeps ==
  ASSUME SpawnInv, UNCHANGED spawnVars
  PROVE  SpawnInv'
BY DEF spawnVars, caller, memory, thread, SpawnInv, SpawnTypeOK, SpawnerSound, ThreadSound,
       SpawnersApart, ThreadsApart, BothApart, Owned, SpawnerOwns, ThreadOwns

LEMMA SpawnStepKeeps ==
  ASSUME SpawnInv, [SpawnNext]_spawnVars
  PROVE  SpawnInv'
BY CallerKeeps, AllocateKeeps, CreateKeeps, FailKeeps, CopyKeeps, FreeKeeps, EndKeeps,
   StutterKeeps DEF SpawnNext

-----------------------------------------------------------------------------
LEMMA OneOwner == SpawnInv => BlocksHaveOneOwner
<1> SUFFICES ASSUME SpawnInv PROVE BlocksHaveOneOwner
  OBVIOUS
<1>1. \A a \in Addresses : a # Nowhere
  BY SpawnAssumption
<1> QED BY <1>1 DEF SpawnInv, SpawnersApart, ThreadsApart, BothApart, Owned, SpawnerSound,
           ThreadSound, BlocksHaveOneOwner, SpawnerOwns, ThreadOwns

(* No argument block is lost, freed twice or used by two.                   *)
THEOREM NoBlockIsLost == SpawnSpec => []BlocksHaveOneOwner
BY OneOwner, SpawnStarts, SpawnStepKeeps, PTL DEF SpawnSpec

(* Every routine is called with the arguments of its own TaskCreate.        *)
THEOREM RoutinesGetTheirArguments == SpawnSpec => []ArgumentsArrive
<1>1. SpawnInv => ArgumentsArrive
  BY DEF SpawnInv, ThreadSound, ArgumentsArrive
<1> QED BY <1>1, SpawnStarts, SpawnStepKeeps, PTL DEF SpawnSpec

(* The block is neither lost nor shared, and carries its arguments across.  *)
THEOREM ArgumentsStaySafe == SpawnSpec => []ArgumentsAreSafe
BY NoBlockIsLost, RoutinesGetTheirArguments, PTL DEF ArgumentsAreSafe

-----------------------------------------------------------------------------
(* PthreadAttr: the attributes object and the threads created from it.      *)

StackSizes == {n \in Nat : n >= PTHREAD_STACK_MIN}

Attributes ==
  [inherit : {"PTHREAD_INHERIT_SCHED", "PTHREAD_EXPLICIT_SCHED"},
   scope : {"PTHREAD_SCOPE_SYSTEM"}, policy : SchedPolicies, priority : Int,
   detach : {"PTHREAD_CREATE_JOINABLE", "PTHREAD_CREATE_DETACHED"},
   stacksize : StackSizes, guardsize : Guards \cup {0}, stackaddr : Stacks \cup {NoObject}]

Scheduled ==
  [policy : SchedPolicies, priority : Int,
   stacksize : Nat, guardsize : Guards \cup {0}, stackaddr : Stacks \cup {NoObject}]

AttrTypes ==
  /\ attributes # NoObject => attributes \in Attributes
  /\ live \in [ThreadIds -> {"none", "runs", "ended"}]
  /\ runsWith \in [ThreadIds -> Scheduled]
  /\ wanted \in [ThreadIds -> Scheduled]

(* Tasks are never joinable, so that they are gone when they end.           *)
TasksAreDetached ==
  \A x \in tasks : x \in ThreadIds /\ x \in detached /\ live[x] = "runs"

AttrInv ==
  /\ AttrTypes
  /\ ~refused
  /\ TasksAreDetached
  /\ RunsAsWanted

LEMMA UnmadeIs == Unmade \in Scheduled
BY AttrAssumption DEF Unmade, Ordinary, Scheduled, SchedPolicies

LEMMA AttrStarts == AttrInit => AttrInv
BY UnmadeIs DEF AttrInit, AttrInv, AttrTypes, TasksAreDetached, RunsAsWanted

(* The range of a policy, and that of a real-time one.                      *)
LEMMA ScopeOfPolicy ==
  /\ Pthread_get_priorityscope("SCHED_OTHER") = 0 .. 0
  /\ Pthread_get_priorityscope("SCHED_RR") = 1 .. HighestPriority
  /\ \A policy \in SchedPolicies : Pthread_get_priorityscope(policy) \subseteq Nat
BY AttrAssumption
   DEF Pthread_get_priorityscope, Sched_get_priority_min, Sched_get_priority_max, SchedPolicies

LEMMA ScaledIsInScope ==
  ASSUME NEW priority \in Int
  PROVE  Scaled(priority) \in 1 .. HighestPriority
BY ScopeOfPolicy, AttrAssumption DEF Scaled, Sched_get_priority_min

LEMMA AtLeastMinIs ==
  ASSUME NEW n \in Nat
  PROVE  AtLeastMin(n) \in StackSizes
BY AttrAssumption DEF AtLeastMin, StackSizes

(* The attributes of a task: every setter accepts what it is given.         *)
TaskAttributes(priority, stacksize) ==
  [Pthread_attr_init EXCEPT
     !.inherit = "PTHREAD_EXPLICIT_SCHED", !.policy = "SCHED_RR",
     !.detach = "PTHREAD_CREATE_DETACHED", !.priority = Scaled(priority),
     !.stacksize = AtLeastMin(stacksize)]

LEMMA AttrSetAccepts ==
  ASSUME NEW priority \in Int, NEW stacksize \in Nat
  PROVE  AttrSet(priority, stacksize) = Answer(0, TaskAttributes(priority, stacksize))
<1> DEFINE a1 == [Pthread_attr_init EXCEPT !.inherit = "PTHREAD_EXPLICIT_SCHED"]
           a2 == [a1 EXCEPT !.policy = "SCHED_RR"]
           a3 == [a2 EXCEPT !.detach = "PTHREAD_CREATE_DETACHED"]
           a4 == [a3 EXCEPT !.priority = Scaled(priority)]
           a5 == [a4 EXCEPT !.stacksize = AtLeastMin(stacksize)]
<1>1. a3.policy = "SCHED_RR"
  BY DEF Pthread_attr_init
<1>2. Pthread_attr_setschedpriority(a3, priority) = Answer(0, a4)
  BY <1>1, ScaledIsInScope, ScopeOfPolicy DEF Pthread_attr_setschedpriority, Pthread_attr_setschedparam
<1>3. a5 = TaskAttributes(priority, stacksize)
  BY DEF TaskAttributes, Pthread_attr_init
<1> HIDE DEF a1, a2, a3, a4, a5
<1>4. Pthread_attr_setinheritsched(Pthread_attr_init, "PTHREAD_EXPLICIT_SCHED") = Answer(0, a1)
  BY DEF Pthread_attr_setinheritsched, a1
<1>5. Pthread_attr_setscope(a1, "PTHREAD_SCOPE_SYSTEM") = Answer(0, a1)
  BY DEF Pthread_attr_setscope
<1>6. Pthread_attr_setschedpolicy(a1, "SCHED_RR") = Answer(0, a2)
  BY DEF Pthread_attr_setschedpolicy, a2
<1>7. Pthread_attr_setdetachstate(a2, "PTHREAD_CREATE_DETACHED") = Answer(0, a3)
  BY DEF Pthread_attr_setdetachstate, a3
<1>8. Pthread_attr_setstacksize(a4, stacksize) = Answer(0, a5)
  BY DEF Pthread_attr_setstacksize, a5
<1>9. \A a : Answer(0, a).rval = 0 /\ Answer(0, a).attr = a
  BY DEF Answer
<1>10. SetScheduling(Answer(0, a1), priority) = Answer(0, a4)
  BY <1>2, <1>6, <1>7, <1>9 DEF SetScheduling, Then
<1>11. AttrSet(priority, stacksize) = Answer(0, a5)
  BY <1>4, <1>5, <1>8, <1>9, <1>10 DEF AttrSet, Then
<1> QED BY <1>3, <1>11

LEMMA InitAttributes == Pthread_attr_init \in Attributes
BY AttrAssumption DEF Pthread_attr_init, Attributes, SchedPolicies, StackSizes

LEMMA TaskAttributesAre ==
  ASSUME NEW priority \in Int, NEW stacksize \in Nat
  PROVE  LET a == TaskAttributes(priority, stacksize) IN
         /\ a \in Attributes /\ Creatable(a)
         /\ a.detach = "PTHREAD_CREATE_DETACHED"
         /\ Properties(a) = TaskWants(priority, stacksize)
<1> DEFINE a == TaskAttributes(priority, stacksize)
           p == Scaled(priority)
           n == AtLeastMin(stacksize)
<1>1. p \in 1 .. HighestPriority /\ p \in Int /\ n \in StackSizes
  BY ScaledIsInScope, AtLeastMinIs
<1>2. TaskWants(priority, stacksize) =
        [policy |-> "SCHED_RR", priority |-> p, stacksize |-> n, guardsize |-> 0, stackaddr |-> NoObject]
  <2> DEFINE w == TaskWants(priority, stacksize)
  <2>1. w = [Ordinary(n, 0, NoObject) EXCEPT !.policy = "SCHED_RR", !.priority = p]
    BY DEF TaskWants
  <2> HIDE DEF w, n, p
  <2>2. w = [policy |-> w.policy, priority |-> w.priority, stacksize |-> w.stacksize,
             guardsize |-> w.guardsize, stackaddr |-> w.stackaddr]
    BY <2>1 DEF Ordinary
  <2>3. /\ w.policy = "SCHED_RR" /\ w.priority = p /\ w.stacksize = n
        /\ w.guardsize = 0 /\ w.stackaddr = NoObject
    BY <2>1 DEF Ordinary
  <2>4. w = [policy |-> "SCHED_RR", priority |-> p, stacksize |-> n, guardsize |-> 0,
             stackaddr |-> NoObject]
    BY <2>2, <2>3
  <2> QED BY <2>4 DEF w
<1>3. a = [Pthread_attr_init EXCEPT
             !.inherit = "PTHREAD_EXPLICIT_SCHED", !.policy = "SCHED_RR",
             !.detach = "PTHREAD_CREATE_DETACHED", !.priority = p, !.stacksize = n]
  BY DEF TaskAttributes
<1> HIDE DEF a, p, n
<1>4. /\ a = [inherit |-> a.inherit, scope |-> a.scope, policy |-> a.policy, priority |-> a.priority,
              detach |-> a.detach, stacksize |-> a.stacksize, guardsize |-> a.guardsize,
              stackaddr |-> a.stackaddr]
      /\ a.inherit = "PTHREAD_EXPLICIT_SCHED" /\ a.scope = "PTHREAD_SCOPE_SYSTEM"
      /\ a.policy = "SCHED_RR" /\ a.priority = p /\ a.detach = "PTHREAD_CREATE_DETACHED"
      /\ a.stacksize = n /\ a.guardsize = 0 /\ a.stackaddr = NoObject
  BY <1>3 DEF Pthread_attr_init
<1>5. a \in Attributes
  BY <1>1, <1>4 DEF Attributes, SchedPolicies
<1>6. Creatable(a)
  BY <1>1, <1>4, ScopeOfPolicy DEF Creatable
<1>7. Properties(a) = TaskWants(priority, stacksize)
  BY <1>2, <1>4 DEF Properties, Explicit
<1> QED BY <1>4, <1>5, <1>6, <1>7 DEF a

(* A thread of attributes that the system accepts runs as they say.         *)
LEMMA PropertiesAre ==
  ASSUME NEW a \in Attributes, Creatable(a)
  PROVE  /\ Properties(a) \in Scheduled
         /\ Properties(a) = Read(a)
         /\ Properties(a).priority \in Pthread_get_priorityscope(Properties(a).policy)
         /\ Properties(a).stacksize >= PTHREAD_STACK_MIN
<1>1. /\ a.policy \in SchedPolicies /\ a.priority \in Int /\ a.stacksize \in Nat
      /\ a.stacksize >= PTHREAD_STACK_MIN
      /\ a.guardsize \in Guards \cup {0} /\ a.stackaddr \in Stacks \cup {NoObject}
      /\ a.inherit \in {"PTHREAD_INHERIT_SCHED", "PTHREAD_EXPLICIT_SCHED"}
  BY DEF Attributes, StackSizes
<1>2. CASE Explicit(a)
  <2>1. Properties(a) = [policy |-> a.policy, priority |-> a.priority, stacksize |-> a.stacksize,
                         guardsize |-> a.guardsize, stackaddr |-> a.stackaddr]
    BY <1>2 DEF Properties
  <2>2. Read(a) = [Ordinary(a.stacksize, a.guardsize, a.stackaddr) EXCEPT
                     !.policy = a.policy, !.priority = a.priority]
    BY <1>2 DEF Read, Explicit, Pthread_attr_getstacksize, Pthread_attr_getguardsize,
       Pthread_attr_getstackaddr, Pthread_attr_getinheritsched, Pthread_attr_getschedpolicy,
       Pthread_attr_getschedpriority, Pthread_attr_getschedparam
  <2> DEFINE w == Read(a)
  <2>3. w = [Ordinary(a.stacksize, a.guardsize, a.stackaddr) EXCEPT
               !.policy = a.policy, !.priority = a.priority]
    BY <2>2
  <2> HIDE DEF w
  <2>5. w = [policy |-> w.policy, priority |-> w.priority, stacksize |-> w.stacksize,
             guardsize |-> w.guardsize, stackaddr |-> w.stackaddr]
    BY <2>3 DEF Ordinary
  <2>6. /\ w.policy = a.policy /\ w.priority = a.priority /\ w.stacksize = a.stacksize
        /\ w.guardsize = a.guardsize /\ w.stackaddr = a.stackaddr
    BY <2>3 DEF Ordinary
  <2>7. w = [policy |-> a.policy, priority |-> a.priority, stacksize |-> a.stacksize,
             guardsize |-> a.guardsize, stackaddr |-> a.stackaddr]
    BY <2>5, <2>6
  <2>4. Read(a) = Properties(a)
    BY <2>1, <2>7 DEF w
  <2> QED BY <1>1, <1>2, <2>1, <2>4 DEF Creatable, Scheduled
<1>3. CASE ~Explicit(a)
  <2>1. Properties(a) = [policy |-> "SCHED_OTHER", priority |-> 0, stacksize |-> a.stacksize,
                         guardsize |-> a.guardsize, stackaddr |-> a.stackaddr]
    BY <1>3 DEF Properties
  <2>2. Read(a) = Properties(a)
    BY <1>1, <1>3, <2>1 DEF Read, Ordinary, Explicit, Pthread_attr_getstacksize,
       Pthread_attr_getguardsize, Pthread_attr_getstackaddr, Pthread_attr_getinheritsched
  <2> QED BY <1>1, <2>1, <2>2, ScopeOfPolicy DEF Scheduled, SchedPolicies
<1> QED BY <1>2, <1>3

LEMMA MakeThreadKeeps ==
  ASSUME AttrInv, NEW x \in ThreadIds, NEW a \in Attributes, NEW want,
         Creatable(a), want = Properties(a), MakeThread(x, a, want),
         UNCHANGED attributes, ~refused',
         \/ tasks' = tasks \ {x}
         \/ tasks' = tasks \cup {x} /\ a.detach = "PTHREAD_CREATE_DETACHED"
  PROVE  AttrInv'
<1>1. /\ want \in Scheduled
      /\ want.priority \in Pthread_get_priorityscope(want.policy)
      /\ want.stacksize >= PTHREAD_STACK_MIN
  BY PropertiesAre
<1>2. /\ live' = [live EXCEPT ![x] = "runs"]
      /\ runsWith' = [runsWith EXCEPT ![x] = want] /\ wanted' = [wanted EXCEPT ![x] = want]
  BY DEF MakeThread
<1>3. AttrTypes'
  BY <1>1, <1>2 DEF AttrInv, AttrTypes
<1>4. TasksAreDetached'
  BY <1>2 DEF AttrInv, AttrTypes, TasksAreDetached, MakeThread
<1>5. RunsAsWanted'
  BY <1>1, <1>2 DEF AttrInv, AttrTypes, RunsAsWanted, Sched_getparam, Sched_getscheduler
<1> QED BY <1>3, <1>4, <1>5 DEF AttrInv

LEMMA TaskCreateKeeps ==
  ASSUME AttrInv, NEW x \in ThreadIds, CreateThread(x)
  PROVE  AttrInv'
<1>1. attributes \in Attributes /\ Creatable(attributes) /\ Read(attributes) = Properties(attributes)
  BY PropertiesAre DEF CreateThread, AttrInv, AttrTypes
<1> QED BY <1>1, MakeThreadKeeps DEF CreateThread, AttrInv

LEMMA SpawnKeeps ==
  ASSUME AttrInv, NEW x \in ThreadIds, NEW priority \in PriorityArguments,
         NEW stacksize \in StackArguments, pthreadSpawn(x, priority, stacksize)
  PROVE  AttrInv'
<1> DEFINE a == TaskAttributes(priority, stacksize)
           r == AttrSet(priority, stacksize)
<1>1. priority \in Int /\ stacksize \in Nat
  BY AttrAssumption
<1>2. r.rval = 0 /\ r.attr = a
  BY <1>1, AttrSetAccepts DEF Answer
<1>3. /\ a \in Attributes /\ Creatable(a) /\ a.detach = "PTHREAD_CREATE_DETACHED"
      /\ Properties(a) = TaskWants(priority, stacksize)
  BY <1>1, TaskAttributesAre
<1>4. /\ MakeThread(x, a, TaskWants(priority, stacksize))
      /\ tasks' = tasks \cup {x} /\ UNCHANGED <<attributes, refused>>
  BY <1>2, <1>3 DEF pthreadSpawn
<1> HIDE DEF a, r
<1> QED BY <1>3, <1>4, MakeThreadKeeps DEF AttrInv

(* A thread that is no more, or is one that waits to be joined.             *)
LEMMA GoneKeeps ==
  ASSUME AttrInv, NEW x \in ThreadIds, Gone(x)
  PROVE  AttrInv'
<1>1. AttrTypes'
  BY UnmadeIs DEF Gone, AttrInv, AttrTypes
<1>2. TasksAreDetached' /\ ~refused'
  BY DEF Gone, AttrInv, AttrTypes, TasksAreDetached
<1>3. RunsAsWanted'
  BY DEF Gone, AttrInv, AttrTypes, RunsAsWanted, Sched_getparam, Sched_getscheduler
<1> QED BY <1>1, <1>2, <1>3 DEF AttrInv

LEMMA TaskEndKeeps ==
  ASSUME AttrInv, NEW x \in ThreadIds, Pthread_exit(x) \/ CancellationPoint(x)
  PROVE  AttrInv'
<1>1. ThreadEnds(x) /\ live[x] = "runs"
  BY DEF Pthread_exit, CancellationPoint
<1>2. CASE x \in detached
  BY <1>1, <1>2, GoneKeeps DEF ThreadEnds
<1>3. CASE x \notin detached
  <2>1. /\ live' = [live EXCEPT ![x] = "ended"] /\ x \notin tasks
        /\ UNCHANGED <<attributes, detached, pending, runsWith, wanted, tasks, refused>>
    BY <1>1, <1>3 DEF ThreadEnds, AttrInv, TasksAreDetached
  <2>2. AttrTypes' /\ TasksAreDetached'
    BY <2>1 DEF AttrInv, AttrTypes, TasksAreDetached
  <2>3. RunsAsWanted'
    BY <1>1, <2>1 DEF AttrInv, AttrTypes, RunsAsWanted, Sched_getparam, Sched_getscheduler
  <2> QED BY <2>1, <2>2, <2>3 DEF AttrInv
<1> QED BY <1>2, <1>3

LEMMA OtherThreadCallsKeep ==
  ASSUME AttrInv, NEW x \in ThreadIds, Pthread_cancel(x) \/ Pthread_join(x) \/ Pthread_detach(x)
  PROVE  AttrInv'
<1>1. CASE Gone(x)
  BY <1>1, GoneKeeps
<1>2. CASE ~Gone(x)
  <2>1. /\ UNCHANGED <<attributes, live, runsWith, wanted, tasks, refused>>
        /\ detached \subseteq detached'
    BY <1>2 DEF Pthread_cancel, Pthread_join, Pthread_detach
  <2> QED BY <2>1 DEF AttrInv, AttrTypes, TasksAreDetached, RunsAsWanted, Sched_getparam, Sched_getscheduler
<1> QED BY <1>1, <1>2

LEMMA RescheduleKeeps ==
  ASSUME AttrInv, NEW x \in ThreadIds, NEW policy \in SchedPolicies, NEW priority \in PriorityArguments,
         Reschedule(x, policy, priority)
  PROVE  AttrInv'
<1> DEFINE n == [runsWith[x] EXCEPT !.policy = policy, !.priority = priority]
<1>1. /\ live[x] = "runs" /\ priority \in Pthread_get_priorityscope(policy)
      /\ UNCHANGED <<attributes, live, detached, tasks, refused>>
  BY DEF Reschedule
<1>2. runsWith[x] \in Scheduled /\ runsWith[x] = wanted[x] /\ runsWith[x].stacksize >= PTHREAD_STACK_MIN
  BY <1>1 DEF AttrInv, AttrTypes, RunsAsWanted
<1>3. n \in Scheduled /\ n.policy = policy /\ n.priority = priority /\ n.stacksize = runsWith[x].stacksize
  BY <1>2, AttrAssumption DEF Scheduled
<1>4. runsWith' = [runsWith EXCEPT ![x] = n] /\ wanted' = [wanted EXCEPT ![x] = n]
  BY <1>2 DEF Reschedule, AttrInv, AttrTypes
<1> HIDE DEF n
<1>5. AttrTypes' /\ TasksAreDetached'
  BY <1>1, <1>3, <1>4 DEF AttrInv, AttrTypes, TasksAreDetached
<1>6. RunsAsWanted'
  BY <1>1, <1>2, <1>3, <1>4 DEF AttrInv, AttrTypes, RunsAsWanted, Sched_getparam, Sched_getscheduler
<1> QED BY <1>1, <1>5, <1>6 DEF AttrInv

(* The setters, on an object of the application's.                          *)
LEMMA SettersKeep ==
  ASSUME AttrInv, attributes # NoObject, NEW a, attributes' = a, a \in Attributes,
         UNCHANGED <<theThreads, refused>>
  PROVE  AttrInv'
BY DEF AttrInv, AttrTypes, theThreads, TasksAreDetached, RunsAsWanted, Sched_getparam, Sched_getscheduler

LEMMA ApplyKeeps ==
  ASSUME AttrInv,
    \/ \E i \in {"PTHREAD_INHERIT_SCHED", "PTHREAD_EXPLICIT_SCHED"} :
         Apply(LAMBDA a : Pthread_attr_setinheritsched(a, i))
    \/ \E s \in {"PTHREAD_SCOPE_SYSTEM", "PTHREAD_SCOPE_PROCESS"} :
         Apply(LAMBDA a : Pthread_attr_setscope(a, s))
    \/ \E p \in SchedPolicies : Apply(LAMBDA a : Pthread_attr_setschedpolicy(a, p))
    \/ \E d \in {"PTHREAD_CREATE_JOINABLE", "PTHREAD_CREATE_DETACHED"} :
         Apply(LAMBDA a : Pthread_attr_setdetachstate(a, d))
    \/ \E p \in PriorityArguments :
         \/ Apply(LAMBDA a : Pthread_attr_setschedparam(a, p))
         \/ Apply(LAMBDA a : Pthread_attr_setschedpriority(a, p))
    \/ \E n \in StackArguments : Apply(LAMBDA a : Pthread_attr_setstacksize(a, n))
    \/ \E n \in Guards : Apply(LAMBDA a : Pthread_attr_setguardsize(a, n))
    \/ \E s \in Stacks : Apply(LAMBDA a : Pthread_attr_setstackaddr(a, s))
  PROVE  AttrInv'
<1> SUFFICES ASSUME attributes \in Attributes
             PROVE  attributes' \in Attributes /\ attributes # NoObject /\ UNCHANGED <<theThreads, refused>>
  BY SettersKeep DEF Apply, AttrInv, AttrTypes
<1>1. attributes # NoObject /\ UNCHANGED <<theThreads, refused>>
  BY DEF Apply
<1>2. ASSUME NEW i \in {"PTHREAD_INHERIT_SCHED", "PTHREAD_EXPLICIT_SCHED"},
             Apply(LAMBDA a : Pthread_attr_setinheritsched(a, i))
      PROVE  attributes' \in Attributes
  BY <1>2 DEF Apply, Pthread_attr_setinheritsched, Answer, Attributes
<1>3. ASSUME NEW s \in {"PTHREAD_SCOPE_SYSTEM", "PTHREAD_SCOPE_PROCESS"},
             Apply(LAMBDA a : Pthread_attr_setscope(a, s))
      PROVE  attributes' \in Attributes
  BY <1>3 DEF Apply, Pthread_attr_setscope, Answer
<1>4. ASSUME NEW p \in SchedPolicies, Apply(LAMBDA a : Pthread_attr_setschedpolicy(a, p))
      PROVE  attributes' \in Attributes
  BY <1>4 DEF Apply, Pthread_attr_setschedpolicy, Answer, Attributes
<1>5. ASSUME NEW d \in {"PTHREAD_CREATE_JOINABLE", "PTHREAD_CREATE_DETACHED"},
             Apply(LAMBDA a : Pthread_attr_setdetachstate(a, d))
      PROVE  attributes' \in Attributes
  BY <1>5 DEF Apply, Pthread_attr_setdetachstate, Answer, Attributes
<1>6. ASSUME NEW p \in Int, attributes' = Pthread_attr_setschedparam(attributes, p).attr
      PROVE  attributes' \in Attributes
  BY <1>6 DEF Pthread_attr_setschedparam, Answer, Attributes
<1>7. ASSUME NEW p \in PriorityArguments,
             \/ Apply(LAMBDA a : Pthread_attr_setschedparam(a, p))
             \/ Apply(LAMBDA a : Pthread_attr_setschedpriority(a, p))
      PROVE  attributes' \in Attributes
  <2>1. p \in Int /\ Scaled(p) \in Int
    BY ScaledIsInScope, AttrAssumption
  <2> QED BY <1>6, <1>7, <2>1 DEF Apply, Pthread_attr_setschedpriority
<1>8. ASSUME NEW n \in StackArguments, Apply(LAMBDA a : Pthread_attr_setstacksize(a, n))
      PROVE  attributes' \in Attributes
  <2>1. AtLeastMin(n) \in StackSizes
    BY AtLeastMinIs, AttrAssumption
  <2> QED BY <1>8, <2>1 DEF Apply, Pthread_attr_setstacksize, Answer, Attributes
<1>9. ASSUME NEW n \in Guards, Apply(LAMBDA a : Pthread_attr_setguardsize(a, n))
      PROVE  attributes' \in Attributes
  BY <1>9 DEF Apply, Pthread_attr_setguardsize, Answer, Attributes
<1>10. ASSUME NEW s \in Stacks, Apply(LAMBDA a : Pthread_attr_setstackaddr(a, s))
      PROVE  attributes' \in Attributes
  BY <1>10 DEF Apply, Pthread_attr_setstackaddr, Answer, Attributes
<1>11. CASE \E i \in {"PTHREAD_INHERIT_SCHED", "PTHREAD_EXPLICIT_SCHED"} :
              Apply(LAMBDA a : Pthread_attr_setinheritsched(a, i))
  BY <1>1, <1>2, <1>11
<1>12. CASE \E s \in {"PTHREAD_SCOPE_SYSTEM", "PTHREAD_SCOPE_PROCESS"} :
              Apply(LAMBDA a : Pthread_attr_setscope(a, s))
  BY <1>1, <1>3, <1>12
<1>13. CASE \E p \in SchedPolicies : Apply(LAMBDA a : Pthread_attr_setschedpolicy(a, p))
  BY <1>1, <1>4, <1>13
<1>14. CASE \E d \in {"PTHREAD_CREATE_JOINABLE", "PTHREAD_CREATE_DETACHED"} :
              Apply(LAMBDA a : Pthread_attr_setdetachstate(a, d))
  BY <1>1, <1>5, <1>14
<1>15. CASE \E p \in PriorityArguments :
              \/ Apply(LAMBDA a : Pthread_attr_setschedparam(a, p))
              \/ Apply(LAMBDA a : Pthread_attr_setschedpriority(a, p))
  BY <1>1, <1>7, <1>15
<1>16. CASE \E n \in StackArguments : Apply(LAMBDA a : Pthread_attr_setstacksize(a, n))
  BY <1>1, <1>8, <1>16
<1>17. CASE \E n \in Guards : Apply(LAMBDA a : Pthread_attr_setguardsize(a, n))
  BY <1>1, <1>9, <1>17
<1>18. CASE \E s \in Stacks : Apply(LAMBDA a : Pthread_attr_setstackaddr(a, s))
  BY <1>1, <1>10, <1>18
<1> QED BY <1>11, <1>12, <1>13, <1>14, <1>15, <1>16, <1>17, <1>18

LEMMA ObjectKeeps ==
  ASSUME AttrInv, MakeAttributes \/ DestroyAttributes
  PROVE  AttrInv'
<1>1. UNCHANGED <<theThreads, refused>> /\ (attributes' = Pthread_attr_init \/ attributes' = NoObject)
  BY DEF MakeAttributes, DestroyAttributes
<1> QED BY <1>1, InitAttributes
        DEF AttrInv, AttrTypes, theThreads, TasksAreDetached, RunsAsWanted, Sched_getparam, Sched_getscheduler

LEMMA AttrStepKeeps == AttrInv /\ [AttrNext]_attrVars => AttrInv'
<1> SUFFICES ASSUME AttrInv, [AttrNext]_attrVars PROVE AttrInv'
  OBVIOUS
<1>1. CASE UNCHANGED attrVars
  BY <1>1 DEF attrVars, AttrInv, AttrTypes, theThreads, TasksAreDetached, RunsAsWanted, Sched_getparam,
              Sched_getscheduler
<1>2. ASSUME NEW x \in ThreadIds,
             \/ CreateThread(x) \/ Pthread_exit(x) \/ Pthread_cancel(x) \/ CancellationPoint(x)
             \/ Pthread_join(x) \/ Pthread_detach(x)
      PROVE  AttrInv'
  BY <1>2, TaskCreateKeeps, TaskEndKeeps, OtherThreadCallsKeep
<1>3. ASSUME NEW x \in ThreadIds, NEW p \in PriorityArguments,
             Sched_setparam(x, p) \/ \E policy \in SchedPolicies : Sched_setscheduler(x, policy, p)
      PROVE  AttrInv'
  <2>1. runsWith[x].policy \in SchedPolicies
    BY DEF AttrInv, AttrTypes, Scheduled
  <2> QED BY <1>3, <2>1, RescheduleKeeps DEF Sched_setparam, Sched_setscheduler, Sched_getscheduler
<1>4. ASSUME NEW p \in PriorityArguments, NEW n \in StackArguments, NEW x \in ThreadIds,
             pthreadSpawn(x, p, n)
      PROVE  AttrInv'
  BY <1>4, SpawnKeeps
<1> QED BY <1>1, <1>2, <1>3, <1>4, ObjectKeeps, ApplyKeeps DEF AttrNext

(* The system accepts every task, threads run as was asked for, and a task  *)
(* that ended is not verified any more.                                     *)
THEOREM TasksAreAsAsked == AttrSpec => []TasksAsAsked
<1>1. AttrInv => TasksAsAsked
  BY DEF AttrInv, AttrTypes, TasksAreDetached, TasksAsAsked, TasksAreAccepted, TasksLeaveNothing
<1> QED BY <1>1, AttrStarts, AttrStepKeeps, PTL DEF AttrSpec

-----------------------------------------------------------------------------
(* QueueNames: queues that are found by their names.                        *)

NamesTypes ==
  /\ named \in KernelQueues \cup {NoKernelQueue}
  /\ descriptors \in [Processes -> SUBSET KernelQueues]
  /\ msgQId \in [Processes -> KernelQueues \cup {NoKernelQueue}]
  /\ messages \in [KernelQueues -> Seq(Nat)]
  /\ born \in [Processes -> Nat]
  /\ moment \in Nat

(* A handle's queue is held by a descriptor of its process, which MsgQDelete *)
(* leaves open but Mq_close never takes from a handle.                      *)
HandlesAreHeld ==
  \A p \in Processes : msgQId[p] # NoKernelQueue => msgQId[p] \in descriptors[p]

(* What nothing leads to holds nothing, so that the queue of a new name is  *)
(* empty.                                                                   *)
FreedAreEmpty ==
  \A q \in KernelQueues :
    q # named /\ (\A p \in Processes : q \notin descriptors[p]) => messages[q] = <<>>

SentAlready ==
  /\ \A q \in KernelQueues : \A i \in 1 .. Len(messages[q]) : messages[q][i] <= moment
  /\ \A p \in Processes : born[p] <= moment

SentSince ==
  \A p \in Processes : msgQId[p] # NoKernelQueue =>
    \A i \in 1 .. Len(messages[msgQId[p]]) : messages[msgQId[p]][i] > born[p]

NotShared ==
  \A p, r \in Processes : p # r /\ msgQId[p] # NoKernelQueue => msgQId[p] # msgQId[r]

NamesInv == NamesTypes /\ HandlesAreHeld /\ FreedAreEmpty /\ SentAlready /\ SentSince /\ NotShared

LEMMA NamesStarts == NamesInit => NamesInv
<1> SUFFICES ASSUME NamesInit PROVE NamesInv
  OBVIOUS
<1>1. NamesTypes
  BY DEF NamesInit, NamesTypes
<1> QED BY <1>1 DEF NamesInit, NamesInv, HandlesAreHeld, FreedAreEmpty, SentAlready, SentSince, NotShared

(* The kernel frees what a step leaves without a name and a descriptor;     *)
(* nothing else of the queues changes.                                      *)
LEMMA NamesFreeKeeps ==
  ASSUME NamesInv, FreeUnused, UNCHANGED <<born, moment>>,
         named' \in {named, NoKernelQueue},
         descriptors' \in [Processes -> SUBSET KernelQueues],
         msgQId' \in [Processes -> KernelQueues \cup {NoKernelQueue}],
         \A p \in Processes : msgQId'[p] # NoKernelQueue =>
           msgQId'[p] = msgQId[p] /\ msgQId[p] \in descriptors'[p]
  PROVE  NamesInv'
<1>1. \A q \in KernelQueues : messages'[q] = messages[q] \/ messages'[q] = <<>>
  BY DEF FreeUnused
<1>2. messages' \in [KernelQueues -> Seq(Nat)]
  <2>1. \A q \in KernelQueues : messages[q] \in Seq(Nat)
    BY DEF NamesInv, NamesTypes
  <2> QED BY <2>1 DEF FreeUnused
<1>3. NamesTypes'
  BY <1>2 DEF NamesInv, NamesTypes
<1>4. FreedAreEmpty'
  BY DEF FreeUnused, FreedAreEmpty
<1>5. SentAlready'
  BY <1>1 DEF NamesInv, SentAlready
<1>6. SentSince'
  <2> SUFFICES ASSUME NEW p \in Processes, msgQId'[p] # NoKernelQueue,
                      NEW i \in 1 .. Len(messages'[msgQId'[p]])
               PROVE  messages'[msgQId'[p]][i] > born'[p]
    BY DEF SentSince
  <2>1. msgQId'[p] = msgQId[p] /\ msgQId[p] \in KernelQueues
    BY DEF NamesInv, NamesTypes
  <2> QED BY <1>1, <2>1 DEF NamesInv, SentSince
<1>7. NotShared' /\ HandlesAreHeld'
  BY DEF NamesInv, NotShared, HandlesAreHeld
<1> QED BY <1>3, <1>4, <1>5, <1>6, <1>7 DEF NamesInv

LEMMA NamesDeleteKeeps ==
  ASSUME NamesInv, NEW p \in Processes, QueueDelete(p) \/ ProcessEnds(p) \/ Sweep
  PROVE  NamesInv'
<1>1. CASE QueueDelete(p)
  <2>1. FreeUnused /\ UNCHANGED <<born, moment, descriptors>> /\ named' \in {named, NoKernelQueue}
    BY <1>1 DEF QueueDelete, Mq_unlink
  <2>2. msgQId' = [msgQId EXCEPT ![p] = NoKernelQueue]
    BY <1>1 DEF QueueDelete
  <2> QED BY <2>1, <2>2, NamesFreeKeeps DEF NamesInv, NamesTypes, HandlesAreHeld
<1>2. CASE ProcessEnds(p)
  <2>1. FreeUnused /\ UNCHANGED <<born, moment, named>>
    BY <1>2 DEF ProcessEnds
  <2>2. /\ msgQId' = [msgQId EXCEPT ![p] = NoKernelQueue]
        /\ descriptors' = [descriptors EXCEPT ![p] = {}]
    BY <1>2 DEF ProcessEnds
  <2> QED BY <2>1, <2>2, NamesFreeKeeps DEF NamesInv, NamesTypes, HandlesAreHeld
<1>3. CASE Sweep
  <2>1. FreeUnused /\ UNCHANGED <<born, moment, descriptors, msgQId>> /\ named' = NoKernelQueue
    BY <1>3 DEF Sweep, Mq_unlink
  <2> QED BY <2>1, NamesFreeKeeps DEF NamesInv, NamesTypes, HandlesAreHeld
<1> QED BY <1>1, <1>2, <1>3

LEMMA NamesCloseKeeps ==
  ASSUME NamesInv, NEW p \in Processes, NEW q \in KernelQueues, Mq_close(p, q)
  PROVE  NamesInv'
<1>1. /\ q # msgQId[p] /\ FreeUnused /\ UNCHANGED <<born, moment, named, msgQId>>
      /\ descriptors' = [descriptors EXCEPT ![p] = descriptors[p] \ {q}]
  BY DEF Mq_close
<1> QED BY <1>1, NamesFreeKeeps DEF NamesInv, NamesTypes, HandlesAreHeld

(* A new queue is one that nothing led to, and so an empty one.             *)
LEMMA NamesCreateKeeps ==
  ASSUME NamesInv, NEW p \in Processes, QueueCreate(p)
  PROVE  NamesInv'
<1>1. PICK q \in KernelQueues :
        /\ OpenNew(q) /\ Mq_open(p, q)
        /\ msgQId' = [msgQId EXCEPT ![p] = q]
  BY DEF QueueCreate
<1>2. /\ named = NoKernelQueue /\ named' = q
      /\ descriptors' = [descriptors EXCEPT ![p] = descriptors[p] \cup {q}]
      /\ q # named /\ \A r \in Processes : q \notin descriptors[r]
  BY <1>1 DEF OpenNew, Mq_open, Unused, InUse
<1>3. moment' = moment + 1 /\ born' = [born EXCEPT ![p] = moment'] /\ UNCHANGED messages
  BY DEF QueueCreate
<1>4. messages[q] = <<>>
  BY <1>2 DEF NamesInv, FreedAreEmpty
<1>5. NamesTypes'
  BY <1>1, <1>2, <1>3 DEF NamesInv, NamesTypes
<1>6. HandlesAreHeld'
  BY <1>1, <1>2 DEF NamesInv, NamesTypes, HandlesAreHeld
<1>7. FreedAreEmpty'
  BY <1>2, <1>3, NamesAssumption DEF NamesInv, NamesTypes, FreedAreEmpty
<1>8. SentAlready'
  <2>1. \A k \in KernelQueues : \A i \in 1 .. Len(messages'[k]) : messages'[k][i] <= moment'
    <3> SUFFICES ASSUME NEW k \in KernelQueues, NEW i \in 1 .. Len(messages[k])
                 PROVE  messages[k][i] <= moment + 1
      BY <1>3
    <3>1. messages[k][i] \in Nat /\ messages[k][i] <= moment /\ moment \in Nat
      BY DEF NamesInv, NamesTypes, SentAlready
    <3> QED BY <3>1
  <2>2. \A r \in Processes : born'[r] <= moment'
    <3> SUFFICES ASSUME NEW r \in Processes PROVE born'[r] <= moment'
      OBVIOUS
    <3>1. born[r] \in Nat /\ born[r] <= moment /\ moment \in Nat /\ born'[r] \in {born[r], moment'}
      BY <1>3 DEF NamesInv, NamesTypes, SentAlready
    <3> QED BY <1>3, <3>1
  <2> QED BY <2>1, <2>2 DEF SentAlready
<1>9. SentSince'
  <2> SUFFICES ASSUME NEW r \in Processes, msgQId'[r] # NoKernelQueue,
                      NEW i \in 1 .. Len(messages[msgQId'[r]])
               PROVE  messages[msgQId'[r]][i] > born'[r]
    BY <1>3 DEF SentSince
  <2>1. CASE r = p
    BY <1>1, <1>4, <2>1 DEF NamesInv, NamesTypes
  <2>2. CASE r # p
    BY <1>1, <1>3, <2>2 DEF NamesInv, NamesTypes, SentSince
  <2> QED BY <2>1, <2>2
<1>10. NotShared'
  BY <1>1, <1>2, NamesAssumption DEF NamesInv, NamesTypes, HandlesAreHeld, NotShared
<1> QED BY <1>5, <1>6, <1>7, <1>8, <1>9, <1>10 DEF NamesInv

LEMMA NamesOpenKeeps ==
  ASSUME NamesInv, NEW p \in Processes, OpenExisting(p)
  PROVE  NamesInv'
<1>1. /\ UNCHANGED <<named, msgQId, messages, born, moment>> /\ named \in KernelQueues
      /\ descriptors' = [descriptors EXCEPT ![p] = descriptors[p] \cup {named}]
  BY DEF OpenExisting, Mq_open, NamesInv, NamesTypes
<1>2. \A r \in Processes : descriptors[r] \subseteq descriptors'[r]
  BY <1>1 DEF NamesInv, NamesTypes
<1>3. NamesTypes' /\ HandlesAreHeld'
  BY <1>1, <1>2 DEF NamesInv, NamesTypes, HandlesAreHeld
<1>4. FreedAreEmpty'
  BY <1>1, <1>2 DEF NamesInv, FreedAreEmpty
<1>5. SentAlready' /\ SentSince' /\ NotShared'
  BY <1>1 DEF NamesInv, SentAlready, SentSince, NotShared
<1> QED BY <1>3, <1>4, <1>5 DEF NamesInv

(* What is sent comes after every creation so far.                          *)
LEMMA NamesSendKeeps ==
  ASSUME NamesInv, NEW p \in Processes, NEW q \in KernelQueues, Mq_send(p, q)
  PROVE  NamesInv'
<1> DEFINE s == messages[q]
           r == Append(s, moment + 1)
<1>1. /\ moment' = moment + 1 /\ messages' = [messages EXCEPT ![q] = r]
      /\ q \in descriptors[p] /\ UNCHANGED <<named, descriptors, msgQId, born>>
  BY DEF Mq_send
<1>2. s \in Seq(Nat) /\ moment \in Nat /\ messages \in [KernelQueues -> Seq(Nat)]
  BY DEF NamesInv, NamesTypes
<1>3. /\ r \in Seq(Nat) /\ Len(r) = Len(s) + 1
      /\ \A i \in 1 .. Len(s) : r[i] = s[i]
      /\ r[Len(s) + 1] = moment + 1
  BY <1>2, AppendProperties
<1>4. \A i \in 1 .. Len(r) : (i \in 1 .. Len(s) /\ r[i] = s[i]) \/ r[i] = moment + 1
  BY <1>2, <1>3
<1> HIDE DEF s, r
<1>5. messages'[q] = r /\ \A k \in KernelQueues : k # q => messages'[k] = messages[k]
  BY <1>1, <1>2
<1>6. NamesTypes'
  BY <1>1, <1>2, <1>3 DEF NamesInv, NamesTypes
<1>7. FreedAreEmpty'
  BY <1>1, <1>5 DEF NamesInv, FreedAreEmpty
<1>8. SentAlready'
  <2>1. ASSUME NEW k \in KernelQueues, NEW i \in 1 .. Len(messages'[k])
        PROVE  messages'[k][i] <= moment'
    <3>1. \/ messages'[k][i] = moment + 1
          \/ messages'[k][i] = messages[k][i] /\ i \in 1 .. Len(messages[k])
      <4>1. CASE k = q
        <5>1. messages'[k] = r /\ i \in 1 .. Len(r) /\ messages[k] = s
          BY <1>5, <4>1 DEF s
        <5> QED BY <1>4, <5>1
      <4>2. CASE k # q
        BY <1>5, <2>1, <4>2
      <4> QED BY <4>1, <4>2
    <3>2. i \in 1 .. Len(messages[k]) => messages[k][i] \in Nat /\ messages[k][i] <= moment
      BY <1>2, ElementOfSeq DEF NamesInv, SentAlready
    <3> QED BY <1>1, <1>2, <3>1, <3>2
  <2>2. ASSUME NEW k \in Processes PROVE born'[k] <= moment'
    <3>1. born[k] \in Nat /\ born[k] <= moment
      BY DEF NamesInv, NamesTypes, SentAlready
    <3> QED BY <1>1, <1>2, <3>1
  <2> QED BY <2>1, <2>2 DEF SentAlready
<1>9. SentSince'
  <2> SUFFICES ASSUME NEW k \in Processes, msgQId[k] # NoKernelQueue,
                      NEW i \in 1 .. Len(messages'[msgQId[k]])
               PROVE  messages'[msgQId[k]][i] > born[k]
    BY <1>1 DEF SentSince
  <2>1. msgQId[k] \in KernelQueues /\ born[k] \in Nat /\ born[k] <= moment
    BY DEF NamesInv, NamesTypes, SentAlready
  <2>2. \/ messages'[msgQId[k]][i] = moment + 1
        \/ messages'[msgQId[k]][i] = messages[msgQId[k]][i] /\ i \in 1 .. Len(messages[msgQId[k]])
    BY <1>4, <1>5, <2>1 DEF s
  <2>3. i \in 1 .. Len(messages[msgQId[k]]) => messages[msgQId[k]][i] > born[k]
    BY DEF NamesInv, SentSince
  <2> QED BY <1>2, <2>1, <2>2, <2>3
<1>10. HandlesAreHeld' /\ NotShared'
  BY <1>1 DEF NamesInv, HandlesAreHeld, NotShared
<1> QED BY <1>6, <1>7, <1>8, <1>9, <1>10 DEF NamesInv

LEMMA NamesReceiveKeeps ==
  ASSUME NamesInv, NEW p \in Processes, NEW q \in KernelQueues, Mq_receive(p, q)
  PROVE  NamesInv'
<1> DEFINE s == messages[q]
           r == Tail(s)
<1>1. /\ messages' = [messages EXCEPT ![q] = r] /\ Len(s) > 0
      /\ q \in descriptors[p] /\ UNCHANGED <<named, descriptors, msgQId, born, moment>>
  BY DEF Mq_receive, MsgQNumMsgs, Mq_getattr
<1>2. s \in Seq(Nat) /\ messages \in [KernelQueues -> Seq(Nat)]
  BY DEF NamesInv, NamesTypes
<1>3. /\ r \in Seq(Nat) /\ Len(r) = Len(s) - 1
      /\ \A i \in 1 .. Len(r) : r[i] = s[i + 1] /\ i + 1 \in 1 .. Len(s)
  BY <1>1, <1>2, HeadTailProperties
<1> HIDE DEF s, r
<1>4. messages'[q] = r /\ \A k \in KernelQueues : k # q => messages'[k] = messages[k]
  BY <1>1, <1>2
<1>5. \A k \in KernelQueues : \A i \in 1 .. Len(messages'[k]) :
        \E j \in 1 .. Len(messages[k]) : messages'[k][i] = messages[k][j]
  BY <1>3, <1>4 DEF s
<1>6. NamesTypes'
  BY <1>1, <1>2, <1>3 DEF NamesInv, NamesTypes
<1>7. FreedAreEmpty'
  BY <1>1, <1>4 DEF NamesInv, FreedAreEmpty
<1>8. SentAlready'
  BY <1>1, <1>5 DEF NamesInv, SentAlready
<1>9. SentSince'
  <2> SUFFICES ASSUME NEW k \in Processes, msgQId[k] # NoKernelQueue,
                      NEW i \in 1 .. Len(messages'[msgQId[k]])
               PROVE  messages'[msgQId[k]][i] > born[k]
    BY <1>1 DEF SentSince
  <2>1. msgQId[k] \in KernelQueues
    BY DEF NamesInv, NamesTypes
  <2>2. PICK j \in 1 .. Len(messages[msgQId[k]]) : messages'[msgQId[k]][i] = messages[msgQId[k]][j]
    BY <1>5, <2>1
  <2> QED BY <2>2 DEF NamesInv, SentSince
<1>10. HandlesAreHeld' /\ NotShared'
  BY <1>1 DEF NamesInv, HandlesAreHeld, NotShared
<1> QED BY <1>6, <1>7, <1>8, <1>9, <1>10 DEF NamesInv

LEMMA NamesStepKeeps == NamesInv /\ [NamesNext]_namesVars => NamesInv'
<1> SUFFICES ASSUME NamesInv, [NamesNext]_namesVars PROVE NamesInv'
  OBVIOUS
<1>1. CASE UNCHANGED namesVars
  BY <1>1 DEF namesVars, NamesInv, NamesTypes, HandlesAreHeld, FreedAreEmpty, SentAlready, SentSince, NotShared
<1>2. CASE Sweep
  BY <1>2, NamesFreeKeeps DEF Sweep, Mq_unlink, NamesInv, NamesTypes, HandlesAreHeld
<1>3. ASSUME NEW p \in Processes,
             QueueCreate(p) \/ QueueDelete(p) \/ OpenExisting(p) \/ ProcessEnds(p)
      PROVE  NamesInv'
  BY <1>3, NamesCreateKeeps, NamesDeleteKeeps, NamesOpenKeeps
<1>4. ASSUME NEW p \in Processes, NEW q \in KernelQueues,
             Mq_close(p, q) \/ Mq_send(p, q) \/ Mq_receive(p, q)
      PROVE  NamesInv'
  BY <1>4, NamesCloseKeeps, NamesSendKeeps, NamesReceiveKeeps
<1> QED BY <1>1, <1>2, <1>3, <1>4 DEF NamesNext

(* A queue that MsgQCreate answers with is a new one, whatever processes    *)
(* end and start in between.                                                *)
THEOREM NamesAreNew == NamesSpec => []CreatedIsNew
<1>1. NamesInv => CreatedIsNew
  BY DEF NamesInv, NamesTypes, SentSince, NotShared, CreatedIsNew, MsgQNumMsgs, Mq_getattr
<1> QED BY <1>1, NamesStarts, NamesStepKeeps, PTL DEF NamesSpec
==============================================================================
