--------------------------------- MODULE Spawn ---------------------------------
(***************************************************************************)
(* The creation of tasks on Linux: TaskCreate of source/task/task.c,       *)
(* pthreadSpawn and threadWrapper2 of source/pthread/pthread.c, and        *)
(* Pthread_attr_set.  A routine with more than one argument gets them in a *)
(* block that the spawner allocates and the new thread frees.  Spawners,   *)
(* and the threads they create, run at the same time.  malloc, free and    *)
(* pthread_create are external.                                            *)
(***************************************************************************)
EXTENDS Integers

CONSTANTS
  Spawners,
  Addresses,    \* where malloc may put a FUNC_WRAPPER2
  TaskIds,      \* the identifiers of threads, given again when a thread ends
  Requests,     \* the routine and the arguments asked for
  Single,       \* those of them with at most one argument
  Nowhere,      \* AII_NULL
  NoRequest

ASSUME SpawnAssumption ==
  /\ Single \subseteq Requests
  /\ Nowhere \notin Addresses
  /\ NoRequest \notin Requests

VARIABLES
  place,       \* where in pthreadSpawn a spawner is
  request,     \* its arguments
  func,        \* its local func
  attr,        \* its local attr has been initialised and not destroyed
  allocated,   \* the blocks that malloc gave and free did not take back
  block,       \* the FUNC_WRAPPER2 at each address
  stage,       \* how far each thread is: "none", "start", "copied", "running"
  arg,         \* the pointer the wrapper was given
  local,       \* the wrapper's copy, or what the routine was called with
  meant        \* history: the request a thread was created for

caller == <<place, request, func, attr>>
memory == <<allocated, block>>
thread == <<stage, arg, local, meant>>
spawnVars == <<caller, memory, thread>>

SpawnInit ==
  /\ place = [s \in Spawners |-> "out"]
  /\ request = [s \in Spawners |-> NoRequest]
  /\ func = [s \in Spawners |-> Nowhere]
  /\ attr = [s \in Spawners |-> FALSE]
  /\ allocated = {}
  /\ block = [a \in Addresses |-> NoRequest]
  /\ stage = [x \in TaskIds |-> "none"]
  /\ arg = [x \in TaskIds |-> Nowhere]
  /\ local = [x \in TaskIds |-> NoRequest]
  /\ meant = [x \in TaskIds |-> NoRequest]

-----------------------------------------------------------------------------
TaskCreate(s, r) ==
  /\ place[s] = "out"
  /\ place' = [place EXCEPT ![s] = "attributes"]
  /\ request' = [request EXCEPT ![s] = r]
  /\ UNCHANGED <<func, attr, memory, thread>>

(* The locals end with the call; every path has destroyed the attributes.   *)
ReturnFrom(s) ==
  /\ place' = [place EXCEPT ![s] = "out"]
  /\ request' = [request EXCEPT ![s] = NoRequest]
  /\ func' = [func EXCEPT ![s] = Nowhere]
  /\ attr' = [attr EXCEPT ![s] = FALSE]

(* A step of Pthread_attr_set that fails destroys what the first one made.  *)
AttributesFail(s) ==
  /\ place[s] = "attributes"
  /\ ReturnFrom(s)
  /\ UNCHANGED <<memory, thread>>

Pthread_attr_set(s) ==
  /\ place[s] = "attributes"
  /\ attr' = [attr EXCEPT ![s] = TRUE]
  /\ place' = [place EXCEPT ![s] = "arguments"]
  /\ UNCHANGED <<request, func, memory, thread>>

NoBlock(s) ==
  /\ place[s] = "arguments"
  /\ request[s] \in Single
  /\ place' = [place EXCEPT ![s] = "create"]
  /\ UNCHANGED <<request, func, attr, memory, thread>>

Allocate(s) ==
  /\ place[s] = "arguments"
  /\ request[s] \notin Single
  /\ \E a \in Addresses \ allocated :
       /\ func' = [func EXCEPT ![s] = a]
       /\ allocated' = allocated \cup {a}
       /\ block' = [block EXCEPT ![a] = request[s]]
  /\ place' = [place EXCEPT ![s] = "create"]
  /\ UNCHANGED <<request, attr, thread>>

(* ENOMEM.                                                                  *)
NoMemory(s) ==
  /\ place[s] = "arguments"
  /\ request[s] \notin Single
  /\ ReturnFrom(s)
  /\ UNCHANGED <<memory, thread>>

(* What a block holds after free is not defined; nobody wrote it.           *)
Free(a) ==
  /\ allocated' = allocated \ {a}
  /\ block' = [block EXCEPT ![a] = NoRequest]

KeepFunc(s) == UNCHANGED memory
FreeFunc(s) == IF func[s] = Nowhere THEN UNCHANGED memory ELSE Free(func[s])

(* The block goes over to the thread, or is freed here if there is none.    *)
Created(s) == KeepFunc(s)
NotCreated(s) == FreeFunc(s)

(* pthread_create: the new thread starts in the wrapper, or in the routine. *)
Pthread_create(s) ==
  /\ place[s] = "create"
  /\ \E x \in TaskIds :
       /\ stage[x] = "none"
       /\ stage' = [stage EXCEPT ![x] =
                      IF request[s] \in Single THEN "running" ELSE "start"]
       /\ arg' = [arg EXCEPT ![x] = func[s]]
       /\ local' = [local EXCEPT ![x] =
                      IF request[s] \in Single THEN request[s] ELSE NoRequest]
       /\ meant' = [meant EXCEPT ![x] = request[s]]
  /\ Created(s)
  /\ place' = [place EXCEPT ![s] = "destroy"]
  /\ UNCHANGED <<request, func, attr>>

CreateFails(s) ==
  /\ place[s] = "create"
  /\ NotCreated(s)
  /\ place' = [place EXCEPT ![s] = "destroy"]
  /\ UNCHANGED <<request, func, attr, thread>>

Pthread_attr_destroy(s) ==
  /\ place[s] = "destroy"
  /\ ReturnFrom(s)
  /\ UNCHANGED <<memory, thread>>

(* threadWrapper2: the copy, the free, the call.                            *)
Copy(x) ==
  /\ stage[x] = "start"
  /\ local' = [local EXCEPT ![x] = block[arg[x]]]
  /\ stage' = [stage EXCEPT ![x] = "copied"]
  /\ UNCHANGED <<caller, memory, arg, meant>>

FreeArgument(x) ==
  /\ stage[x] = "copied"
  /\ Free(arg[x])
  /\ stage' = [stage EXCEPT ![x] = "running"]
  /\ UNCHANGED <<caller, arg, local, meant>>

TaskEnds(x) ==
  /\ stage[x] = "running"
  /\ stage' = [stage EXCEPT ![x] = "none"]
  /\ arg' = [arg EXCEPT ![x] = Nowhere]
  /\ local' = [local EXCEPT ![x] = NoRequest]
  /\ meant' = [meant EXCEPT ![x] = NoRequest]
  /\ UNCHANGED <<caller, memory>>

SpawnNext ==
  \/ \E s \in Spawners :
       \/ \E r \in Requests : TaskCreate(s, r)
       \/ Pthread_attr_set(s) \/ AttributesFail(s)
       \/ NoBlock(s) \/ Allocate(s) \/ NoMemory(s)
       \/ Pthread_create(s) \/ CreateFails(s)
       \/ Pthread_attr_destroy(s)
  \/ \E x \in TaskIds : Copy(x) \/ FreeArgument(x) \/ TaskEnds(x)

SpawnSpec == SpawnInit /\ [][SpawnNext]_spawnVars

-----------------------------------------------------------------------------
(* A routine is called with the arguments that were given to the TaskCreate *)
(* that created its thread, although blocks are used again and other        *)
(* spawners write theirs meanwhile.                                         *)
ArgumentsArrive == \A x \in TaskIds : stage[x] = "running" => local[x] = meant[x]

(* Every block has exactly one owner, a spawner before it creates or a      *)
(* thread before it frees: none is lost, none is freed twice or used by two.*)
SpawnerOwns(s, a) == place[s] = "create" /\ func[s] = a
ThreadOwns(x, a) == stage[x] \in {"start", "copied"} /\ arg[x] = a

BlocksHaveOneOwner ==
  /\ \A a \in allocated :
       (\E s \in Spawners : SpawnerOwns(s, a)) \/ (\E x \in TaskIds : ThreadOwns(x, a))
  /\ \A a \in Addresses :
       /\ \A s, u \in Spawners : SpawnerOwns(s, a) /\ SpawnerOwns(u, a) => s = u
       /\ \A x, y \in TaskIds : ThreadOwns(x, a) /\ ThreadOwns(y, a) => x = y
       /\ \A s \in Spawners, x \in TaskIds : ~(SpawnerOwns(s, a) /\ ThreadOwns(x, a))
       /\ \A s \in Spawners : SpawnerOwns(s, a) => a \in allocated
       /\ \A x \in TaskIds : ThreadOwns(x, a) => a \in allocated

(* TaskCreate hands its arguments over: the block belongs to one side at    *)
(* every moment, and the routine gets what was put into it.                 *)
ArgumentsAreSafe == BlocksHaveOneOwner /\ ArgumentsArrive
=============================================================================
