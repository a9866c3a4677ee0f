------------------------------ MODULE OsSemaphore ------------------------------
(***************************************************************************)
(* The portable semaphore of source/semaphore/semsync.c.  The kernel's     *)
(* counter (sem_t, semCCreate, CreateSemaphore) is external; semsync.c     *)
(* converts the waiting time and the kernel's answer.                      *)
(*                                                                         *)
(* The semaphore is deleted when nobody waits on it.  Time is abstract: a  *)
(* finite wait that finds no token ends at any moment.                     *)
(***************************************************************************)
EXTENDS Integers

CONSTANTS
  SemThreads,
  SemPlatforms,   \* one of them is chosen at the start
  Waits,       \* Waits[p]: the kinds of millisecond arguments on platform p
  InitCounts,  \* the init_count arguments
  MaxCount,    \* max_count, which only Windows looks at
  MaxValue     \* bound on the counter: no sem_give above it

ASSUME SemaphoreAssumption ==
  /\ SemPlatforms \subseteq {"LINUX", "VXWORKS", "WINDOWS"}
  /\ \A p \in SemPlatforms : Waits[p] \subseteq {"forever", "finite"}
  /\ MaxCount \in Nat /\ MaxValue \in Nat
  /\ InitCounts \subseteq Nat

VARIABLES
  platform,
  made,    \* the handle is not AII_NULL
  value,   \* the kernel's counter
  told,    \* the tokens the callers know of: init_count, the gives that
           \* returned AII_OK, less the takes that did
  wait     \* the wait each thread is in, or "none"

semVars == <<platform, made, value, told, wait>>

SemTypeOK ==
  /\ platform \in SemPlatforms
  /\ made \in BOOLEAN
  /\ value \in Nat
  /\ told \in Int
  /\ wait \in [SemThreads -> {"none", "forever", "finite"}]

SemInit ==
  /\ platform \in SemPlatforms
  /\ made = FALSE
  /\ value = 0
  /\ told = 0
  /\ wait = [t \in SemThreads |-> "none"]

-----------------------------------------------------------------------------
(* CreateSemaphore refuses an initial count above the maximum.              *)
sem_create(n) ==
  /\ ~made
  /\ platform = "WINDOWS" => n <= MaxCount
  /\ made' = TRUE
  /\ value' = n
  /\ told' = n
  /\ UNCHANGED <<platform, wait>>

sem_delete ==
  /\ made
  /\ \A t \in SemThreads : wait[t] = "none"
  /\ made' = FALSE
  /\ UNCHANGED <<platform, value, told, wait>>

sem_take(t, w) ==
  /\ made
  /\ wait[t] = "none"
  /\ wait' = [wait EXCEPT ![t] = w]
  /\ UNCHANGED <<platform, made, value, told>>

Return(t, answer) ==
  /\ wait' = [wait EXCEPT ![t] = "none"]
  /\ told' = IF answer = "AII_OK" THEN told - 1 ELSE told
  /\ UNCHANGED <<platform, made>>

Taken(t) ==
  /\ wait[t] # "none"
  /\ value > 0
  /\ value' = value - 1
  /\ Return(t, "AII_OK")

(* ETIMEDOUT is passed on; the answers of semTake and WAIT_TIMEOUT are not. *)
AnswerIgnored == "AII_OK"
TimeoutAnswer == IF platform = "LINUX" THEN "AII_ERROR" ELSE "AII_OK"

Timeout(t) ==
  /\ wait[t] = "finite"
  /\ value = 0
  /\ Return(t, TimeoutAnswer)
  /\ UNCHANGED value

(* ReleaseSemaphore refuses to count above the maximum, and says so.        *)
Full == platform = "WINDOWS" /\ value >= MaxCount
GiveAnswer == IF Full THEN "AII_ERROR" ELSE "AII_OK"

sem_give ==
  /\ made
  /\ value < MaxValue
  /\ value' = IF Full THEN value ELSE value + 1
  /\ told' = IF GiveAnswer = "AII_OK" THEN told + 1 ELSE told
  /\ UNCHANGED <<platform, made, wait>>

SemNext ==
  \/ \E n \in InitCounts : sem_create(n)
  \/ sem_delete
  \/ sem_give
  \/ \E t \in SemThreads :
       \/ \E w \in Waits[platform] : sem_take(t, w)
       \/ Taken(t)
       \/ Timeout(t)

SemSpec == SemInit /\ [][SemNext]_semVars

-----------------------------------------------------------------------------
(* sem_take and sem_give answer AII_OK exactly when a token went out or in: *)
(* the callers' account agrees with the counter, so that never more threads *)
(* got past sem_take than tokens were given.                                *)
AccountsAgree == made => value = told
=============================================================================
