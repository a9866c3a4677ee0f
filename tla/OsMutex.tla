------------------------------- MODULE OsMutex -------------------------------
(***************************************************************************)
(* The portable mutex of source/mutex/mutex.c on the three platforms it is *)
(* compiled for.  The kernel objects (pthread_mutex_t, semMCreate,         *)
(* CreateMutex) are external: owner and count are theirs.  What mutex.c    *)
(* adds is the conversion of the waiting time and of the kernel's answer:  *)
(* held[t] is what thread t concludes from the AII_OKs it got.             *)
(*                                                                         *)
(* Callers delete the mutex only when no thread is inside a call or        *)
(* believes to hold it, unlock as often as they were told AII_OK, and on   *)
(* Linux, whose default mutex is not recursive, do not lock it twice.      *)
(***************************************************************************)
EXTENDS Integers, FiniteSets

CONSTANTS
  Threads,
  Nobody,
  Platforms,  \* the platforms to compile for: one of them is chosen at the start
  Waits,      \* Waits[p]: the millisec arguments callers use on platform p
  Exits,      \* Exits[p]: the threads that may terminate holding the mutex
  Epoch,      \* the time at the start, in ms since 1970: later than any wait
  Horizon,    \* bound on the ms that pass
  MaxDepth    \* bound on recursive locking

Forever == -1   \* WAIT_FOREVER
Tick == 16      \* a VxWorks clock tick, in ms: mutex.c divides by 2^4

ASSUME MutexAssumption ==
  /\ Nobody \notin Threads
  /\ Platforms \subseteq {"LINUX", "VXWORKS", "WINDOWS"}
  /\ \A p \in Platforms : Waits[p] \subseteq Nat \cup {Forever} /\ Exits[p] \subseteq Threads
  /\ Epoch \in Nat /\ Horizon \in Nat /\ MaxDepth \in Nat
  /\ \A p \in Platforms : \A ms \in Waits[p] : ms < Epoch

VARIABLES
  platform,
  made,       \* the handle is not AII_NULL
  owner,      \* the owner the kernel knows
  count,      \* how often the owner has locked
  abandoned,  \* the last owner terminated (Windows)
  now,        \* the clock, in ms
  pc,         \* "idle", "wait" inside mutex_lock, or "gone"
  ask,        \* the millisec argument of each thread's mutex_lock, and when it came
  held        \* how many locks each thread was told it has

kernel == <<made, owner, count, abandoned>>
vars == <<platform, kernel, now, pc, ask, held>>

Init ==
  /\ platform \in Platforms
  /\ made = FALSE
  /\ owner = Nobody
  /\ count = 0
  /\ abandoned = FALSE
  /\ now = Epoch
  /\ pc = [t \in Threads |-> "idle"]
  /\ ask = [t \in Threads |-> [ms |-> 0, at |-> Epoch]]
  /\ held = [t \in Threads |-> 0]

-----------------------------------------------------------------------------
mutex_create ==
  /\ ~made
  /\ made' = TRUE
  /\ owner' = Nobody
  /\ count' = 0
  /\ abandoned' = FALSE
  /\ UNCHANGED <<platform, now, pc, ask, held>>

(* pthread_mutex_destroy refuses a locked mutex, and the memory is kept.    *)
mutex_delete ==
  /\ made
  /\ \A t \in Threads : pc[t] # "wait" /\ held[t] = 0
  /\ platform = "LINUX" => owner = Nobody
  /\ made' = FALSE
  /\ UNCHANGED <<platform, owner, count, abandoned, now, pc, ask, held>>

mutex_lock(t, ms) ==
  /\ made
  /\ pc[t] = "idle"
  /\ held[t] < IF platform = "LINUX" THEN 1 ELSE MaxDepth
  /\ pc' = [pc EXCEPT ![t] = "wait"]
  /\ ask' = [ask EXCEPT ![t] = [ms |-> ms, at |-> now]]
  /\ UNCHANGED <<platform, kernel, now, held>>

(* When the kernel gives up: Linux is given the duration as an absolute     *)
(* time, VxWorks the duration in ticks, rounded down but for the first.     *)
Ticks(ms) == IF ms > 0 /\ ms \div Tick = 0 THEN 1 ELSE ms \div Tick
Deadline(t) ==
  CASE platform = "LINUX"   -> ask[t].ms
    [] platform = "VXWORKS" -> ask[t].at + Tick * Ticks(ask[t].ms)
    [] platform = "WINDOWS" -> ask[t].at + ask[t].ms

Free(t) == owner \in {Nobody, t}

Return(t, told) ==
  /\ pc' = [pc EXCEPT ![t] = "idle"]
  /\ held' = [held EXCEPT ![t] = IF told = "AII_OK" THEN @ + 1 ELSE @]
  /\ UNCHANGED <<platform, made, now, ask>>

(* WAIT_ABANDONED, which comes with the ownership, is made an AII_ERROR.    *)
Acquire(t) ==
  /\ pc[t] = "wait"
  /\ Free(t)
  /\ owner' = t
  /\ count' = count + 1
  /\ abandoned' = FALSE
  /\ Return(t, IF abandoned THEN "AII_ERROR" ELSE "AII_OK")

(* The answer to a wait that ran out: ETIMEDOUT is passed on, the result of *)
(* semTake is dropped, and WAIT_TIMEOUT is not WAIT_ABANDONED.              *)
AnswerIgnored == "AII_OK"
TimeoutAnswer == IF platform = "LINUX" THEN "AII_ERROR" ELSE "AII_OK"

TimedOnlyWithZero(t) == ask[t].ms = 0
Timed(t) == ask[t].ms # Forever

Timeout(t) ==
  /\ pc[t] = "wait"
  /\ Timed(t)
  /\ ~Free(t)
  /\ now >= Deadline(t)
  /\ Return(t, TimeoutAnswer)
  /\ UNCHANGED <<owner, count, abandoned>>

(* The kernel refuses to release for a thread that is not the owner.        *)
mutex_unlock(t) ==
  /\ pc[t] = "idle"
  /\ held[t] > 0
  /\ held' = [held EXCEPT ![t] = @ - 1]
  /\ IF owner = t
       THEN /\ owner' = IF count = 1 THEN Nobody ELSE t
            /\ count' = count - 1
       ELSE UNCHANGED <<owner, count>>
  /\ UNCHANGED <<platform, made, abandoned, now, pc, ask>>

(* The owner's thread ends.  Only Windows passes the mutex on.              *)
Exit(t) ==
  /\ t \in Exits[platform]
  /\ pc[t] = "idle"
  /\ owner = t
  /\ pc' = [pc EXCEPT ![t] = "gone"]
  /\ held' = [held EXCEPT ![t] = 0]
  /\ IF platform = "WINDOWS"
       THEN owner' = Nobody /\ count' = 0 /\ abandoned' = TRUE
       ELSE UNCHANGED <<owner, count, abandoned>>
  /\ UNCHANGED <<platform, made, now, ask>>

Clock ==
  /\ now + Tick <= Epoch + Horizon
  /\ now' = now + Tick
  /\ UNCHANGED <<platform, kernel, pc, ask, held>>

Next ==
  \/ mutex_create
  \/ mutex_delete
  \/ \E t \in Threads :
       \/ \E ms \in Waits[platform] : mutex_lock(t, ms)
       \/ Acquire(t)
       \/ Timeout(t)
       \/ mutex_unlock(t)
       \/ Exit(t)
  \/ Clock

Spec == Init /\ [][Next]_vars

(* The kernel ends a wait it can end.                                       *)
FairSpec == Spec /\ \A t \in Threads : WF_vars(Acquire(t) \/ Timeout(t))

-----------------------------------------------------------------------------
(* Properties.                                                              *)

TypeOK ==
  /\ platform \in Platforms
  /\ made \in BOOLEAN
  /\ owner \in Threads \cup {Nobody}
  /\ count \in Nat
  /\ abandoned \in BOOLEAN
  /\ now \in Nat
  /\ pc \in [Threads -> {"idle", "wait", "gone"}]
  /\ ask \in [Threads -> [ms : Nat \cup {Forever}, at : Nat]]
  /\ held \in [Threads -> Nat]

(* "If the function succeeds, it returns AII_OK.  Otherwise, it returns     *)
(* AII_ERROR" (mutex.c:178): the locks a thread was told it has are the     *)
(* locks it has, so that two threads are never told both and no lock is     *)
(* held by a thread that was told it failed.                                *)
ReturnsTellOwnership ==
  \A t \in Threads : pc[t] # "gone" => held[t] = IF owner = t THEN count ELSE 0

(* A lock with a waiting time returns, whatever the owner does.             *)
TimedLocksReturn ==
  \A t \in Threads : pc[t] = "wait" /\ ask[t].ms # Forever ~> pc[t] = "idle"

(* The mutex implements Lock: what AII_OK tells a thread is that it has the *)
(* lock, and no other thread was told so and has not given it back, ended   *)
(* owners included.                                                         *)
Answers == INSTANCE Lock WITH told <- held
ImplementsLock == Answers!Spec
=============================================================================
