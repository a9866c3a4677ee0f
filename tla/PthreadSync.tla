------------------------------ MODULE PthreadSync ------------------------------
(***************************************************************************)
(* The synchronisation wrappers of source/pthread/pthreadSync.c on Linux:  *)
(* a mutex with a condition variable, a read-write lock, an unnamed        *)
(* semaphore.  Each call takes a waiting time: NO_WAIT, WAIT_FOREVER or    *)
(* milliseconds, which getTimespec turns into the absolute time that the   *)
(* timed calls of the system want.  The objects themselves are external,   *)
(* and so is the clock; callers keep to POSIX: they unlock what they hold, *)
(* wait for a condition with the mutex locked, and make an object before   *)
(* they use it and destroy it when nobody does.                            *)
(***************************************************************************)
EXTENDS Integers, FiniteSets

CONSTANTS
  Users,       \* threads
  NoUser,
  Programs,    \* the sets of objects that programs use, one of them chosen at the start
  SyncWaits,   \* the wait_ms of callers
  Second,      \* ns in a second; a ms is one of them here
  LastMoment,  \* bound: the time the clock goes up to
  Value,       \* of the semaphore at the start
  MaxTokens    \* bound: its greatest value

NO_WAIT == 0
WAIT_FOREVER == -1
Never == -1

ASSUME SyncAssumption ==
  /\ NoUser \notin Users
  /\ \A p \in Programs : p \subseteq {"mutex", "cond", "rwlock", "sem"}
  /\ SyncWaits \subseteq Nat \cup {WAIT_FOREVER}
  /\ Second \in Nat \ {0, 1} /\ LastMoment \in Nat
  /\ Value \in Nat /\ MaxTokens \in Nat

VARIABLES
  program, \* the objects this program uses
  alive,   \* those that are initialised
  clock,   \* in ns
  holder,  \* of the mutex
  writing, \* holder of the read-write lock for writing
  reading, \* and those for reading
  tokens,  \* the value of the semaphore
  spot,    \* where each thread is: "out", or in which call
  until,   \* the absolute time its call gives up, or Never
  due,     \* history: the time it should
  rely,    \* history: what each thread holds by the answers it got
  guessed  \* history: the threads whose last rwlock call had a time in ms

object == <<holder, writing, reading, tokens>>
waitingFor == <<spot, until, due>>
record == <<rely, guessed>>
syncVars == <<program, alive, clock, object, waitingFor, record>>

SyncInit ==
  /\ program \in Programs
  /\ alive = {}
  /\ clock = 0
  /\ holder = NoUser /\ writing = NoUser /\ reading = {} /\ tokens = 0
  /\ spot = [t \in Users |-> "out"]
  /\ until = [t \in Users |-> Never]
  /\ due = [t \in Users |-> Never]
  /\ rely = [t \in Users |-> {}]
  /\ guessed = {}

-----------------------------------------------------------------------------
(* A struct timespec.  When clock_gettime fails, and also when it is more   *)
(* than thirty seconds ahead of time(), the next whole second of time() is  *)
(* taken: works is FALSE in both cases.                                     *)
Now(works) ==
  IF works
    THEN [tv_sec |-> clock \div Second, tv_nsec |-> clock % Second]
    ELSE [tv_sec |-> clock \div Second + 1, tv_nsec |-> 0]

SecondsCarried(sec, nsec) == sec + nsec \div Second

getTimespec(wait_ms, works) ==
  LET tp == Now(works)
      nsec == tp.tv_nsec + wait_ms
  IN [tv_sec |-> SecondsCarried(tp.tv_sec, nsec), tv_nsec |-> nsec % Second]

Moment(tp) == tp.tv_sec * Second + tp.tv_nsec

(* What a trylock found is the answer.                                      *)
Ignored(got) == TRUE
Passed(got) == got

(* The start of a call that may wait.                                       *)
Wait(t, where, wait_ms) ==
  /\ spot' = [spot EXCEPT ![t] = where]
  /\ IF wait_ms = WAIT_FOREVER
       THEN UNCHANGED <<until, due>>
       ELSE /\ \E works \in BOOLEAN :
                 until' = [until EXCEPT ![t] = Moment(getTimespec(wait_ms, works))]
            /\ due' = [due EXCEPT ![t] = clock + wait_ms]

Out(t) ==
  /\ spot' = [spot EXCEPT ![t] = "out"]
  /\ until' = [until EXCEPT ![t] = Never]
  /\ due' = [due EXCEPT ![t] = Never]

Relies(t, what) == rely' = [rely EXCEPT ![t] = @ \cup {what}]
Forgoes(t, what) == rely' = [rely EXCEPT ![t] = @ \ {what}]
May(t, o) == spot[t] = "out" /\ o \in alive

-----------------------------------------------------------------------------
(* Objects are made and destroyed while nobody uses them.                   *)
Make(o) ==
  /\ o \in program \ alive
  /\ alive' = alive \cup {o}
  /\ UNCHANGED <<program, clock, holder, writing, reading, waitingFor, rely, guessed>>

Destroy(o) ==
  /\ o \in alive
  /\ alive' = alive \ {o}
  /\ UNCHANGED <<program, clock, object, waitingFor, record>>

Pthread_mutex_init == Make("mutex") /\ UNCHANGED tokens
Pthread_cond_init == Make("cond") /\ UNCHANGED tokens
Pthread_rwlock_init == Make("rwlock") /\ UNCHANGED tokens
Sem_init == Make("sem") /\ tokens' = Value

Pthread_mutex_destroy ==
  /\ holder = NoUser /\ \A t \in Users : spot[t] \notin {"mutex", "cond", "again"}
  /\ Destroy("mutex")
Pthread_cond_destroy ==
  /\ \A t \in Users : spot[t] # "cond"
  /\ Destroy("cond")
Pthread_rwlock_destroy ==
  /\ writing = NoUser /\ reading = {} /\ \A t \in Users : spot[t] \notin {"read", "write"}
  /\ Destroy("rwlock")
Sem_destroy ==
  /\ \A t \in Users : spot[t] # "sem"
  /\ Destroy("sem")

-----------------------------------------------------------------------------
Pthread_mutex_lock(t, wait_ms) ==
  /\ May(t, "mutex") /\ holder # t
  /\ IF wait_ms = NO_WAIT
       THEN /\ holder' = (IF holder = NoUser THEN t ELSE holder)
            /\ rely' = [rely EXCEPT ![t] = @ \cup {u \in {"mutex"} : Passed(holder = NoUser)}]
            /\ UNCHANGED waitingFor
       ELSE /\ Wait(t, "mutex", wait_ms)
            /\ UNCHANGED <<holder, rely>>
  /\ UNCHANGED <<program, alive, clock, writing, reading, tokens, guessed>>

MutexGranted(t) ==
  /\ spot[t] = "mutex" /\ holder = NoUser
  /\ holder' = t
  /\ Relies(t, "mutex")
  /\ Out(t)
  /\ UNCHANGED <<program, alive, clock, writing, reading, tokens, guessed>>

Pthread_mutex_unlock(t) ==
  /\ May(t, "mutex") /\ holder = t
  /\ holder' = NoUser
  /\ Forgoes(t, "mutex")
  /\ UNCHANGED <<program, alive, clock, writing, reading, tokens, waitingFor, guessed>>

(* The time is over: ETIMEDOUT, but a wait for a condition locks the mutex  *)
(* again first.                                                             *)
TimeOver(t) ==
  /\ until[t] # Never /\ clock >= until[t]
  /\ IF spot[t] = "cond"
       THEN /\ spot' = [spot EXCEPT ![t] = "again"]
            /\ UNCHANGED <<until, due>>
       ELSE spot[t] # "again" /\ Out(t)
  /\ UNCHANGED <<program, alive, clock, object, record>>

-----------------------------------------------------------------------------
Pthread_cond_wait(t) ==
  /\ May(t, "cond") /\ holder = t
  /\ holder' = NoUser
  /\ Forgoes(t, "mutex")
  /\ Wait(t, "cond", WAIT_FOREVER)
  /\ UNCHANGED <<program, alive, clock, writing, reading, tokens, guessed>>

Pthread_cond_timedwait(t, wait_ms) ==
  /\ May(t, "cond") /\ holder = t
  /\ wait_ms # WAIT_FOREVER
  /\ holder' = NoUser
  /\ Forgoes(t, "mutex")
  /\ Wait(t, "cond", wait_ms)
  /\ UNCHANGED <<program, alive, clock, writing, reading, tokens, guessed>>

Wake(ts) ==
  /\ spot' = [t \in Users |-> IF t \in ts THEN "again" ELSE spot[t]]
  /\ UNCHANGED <<program, alive, clock, object, until, due, record>>

Waiting == {t \in Users : spot[t] = "cond"}

Pthread_cond_signal(t) ==
  /\ May(t, "cond")
  /\ \E u \in Waiting : Wake({u})

Pthread_cond_broadcast(t) ==
  /\ May(t, "cond")
  /\ Wake(Waiting)

(* The mutex is locked again before either of the two waits returns.        *)
LockedAgain(t) ==
  /\ spot[t] = "again" /\ holder = NoUser
  /\ holder' = t
  /\ Relies(t, "mutex")
  /\ Out(t)
  /\ UNCHANGED <<program, alive, clock, writing, reading, tokens, guessed>>

-----------------------------------------------------------------------------
CanRead == writing = NoUser
CanWrite == writing = NoUser /\ reading = {}
Holds(t) == writing = t \/ t \in reading

(* A call with a time in ms takes no branch: 0 is answered at once.         *)
NothingDone(t, how) ==
  /\ guessed' = guessed \cup {t}
  /\ Relies(t, how)
  /\ UNCHANGED <<writing, reading, waitingFor>>

Pthread_rwlock_rdlock(t, wait_ms) ==
  /\ May(t, "rwlock") /\ ~Holds(t) /\ rely[t] \cap {"read", "write"} = {}
  /\ CASE wait_ms = NO_WAIT ->
            /\ reading' = (IF CanRead THEN reading \cup {t} ELSE reading)
            /\ rely' = [rely EXCEPT ![t] = @ \cup {u \in {"read"} : Passed(CanRead)}]
            /\ UNCHANGED <<writing, waitingFor, guessed>>
       [] wait_ms = WAIT_FOREVER ->
            Wait(t, "read", wait_ms) /\ UNCHANGED <<writing, reading, rely, guessed>>
       [] OTHER -> NothingDone(t, "read")
  /\ UNCHANGED <<program, alive, clock, holder, tokens>>

Pthread_rwlock_wrlock(t, wait_ms) ==
  /\ May(t, "rwlock") /\ ~Holds(t) /\ rely[t] \cap {"read", "write"} = {}
  /\ CASE wait_ms = NO_WAIT ->
            /\ writing' = (IF CanWrite THEN t ELSE writing)
            /\ rely' = [rely EXCEPT ![t] = @ \cup {u \in {"write"} : Passed(CanWrite)}]
            /\ UNCHANGED <<reading, waitingFor, guessed>>
       [] wait_ms = WAIT_FOREVER ->
            Wait(t, "write", wait_ms) /\ UNCHANGED <<writing, reading, rely, guessed>>
       [] OTHER -> NothingDone(t, "write")
  /\ UNCHANGED <<program, alive, clock, holder, tokens>>

RwGranted(t) ==
  /\ \/ spot[t] = "read" /\ CanRead /\ reading' = reading \cup {t} /\ UNCHANGED writing
     \/ spot[t] = "write" /\ CanWrite /\ writing' = t /\ UNCHANGED reading
  /\ Relies(t, spot[t])
  /\ Out(t)
  /\ UNCHANGED <<program, alive, clock, holder, tokens, guessed>>

(* An unlock by a thread that does not hold the lock is not defined.        *)
Pthread_rwlock_unlock(t) ==
  /\ May(t, "rwlock") /\ Holds(t)
  /\ reading' = reading \ {t}
  /\ writing' = (IF writing = t THEN NoUser ELSE writing)
  /\ rely' = [rely EXCEPT ![t] = @ \ {"read", "write"}]
  /\ UNCHANGED <<program, alive, clock, holder, tokens, waitingFor, guessed>>

-----------------------------------------------------------------------------
Sem_post(t) ==
  /\ May(t, "sem") /\ tokens < MaxTokens
  /\ tokens' = tokens + 1
  /\ UNCHANGED <<program, alive, clock, holder, writing, reading, waitingFor, rely, guessed>>

Sem_wait(t, wait_ms) ==
  /\ May(t, "sem")
  /\ IF wait_ms = NO_WAIT
       THEN /\ tokens' = (IF tokens > 0 THEN tokens - 1 ELSE 0)
            /\ UNCHANGED waitingFor
       ELSE Wait(t, "sem", wait_ms) /\ UNCHANGED tokens
  /\ UNCHANGED <<program, alive, clock, holder, writing, reading, rely, guessed>>

TokenTaken(t) ==
  /\ spot[t] = "sem" /\ tokens > 0
  /\ tokens' = tokens - 1
  /\ Out(t)
  /\ UNCHANGED <<program, alive, clock, holder, writing, reading, rely, guessed>>

(* A signal handler ran: sem_wait and sem_timedwait answer -1.              *)
SignalArrives(t) ==
  /\ spot[t] = "sem"
  /\ Out(t)
  /\ UNCHANGED <<program, alive, clock, object, record>>

TimePasses ==
  /\ clock < LastMoment
  /\ clock' = clock + 1
  /\ UNCHANGED <<program, alive, object, waitingFor, record>>

SyncNext ==
  \/ Pthread_mutex_init \/ Pthread_cond_init \/ Pthread_rwlock_init \/ Sem_init
  \/ Pthread_mutex_destroy \/ Pthread_cond_destroy \/ Pthread_rwlock_destroy \/ Sem_destroy
  \/ \E t \in Users :
       \/ \E ms \in SyncWaits :
            \/ Pthread_mutex_lock(t, ms) \/ Pthread_cond_timedwait(t, ms)
            \/ Pthread_rwlock_rdlock(t, ms) \/ Pthread_rwlock_wrlock(t, ms)
            \/ Sem_wait(t, ms)
       \/ MutexGranted(t) \/ Pthread_mutex_unlock(t) \/ TimeOver(t)
       \/ Pthread_cond_wait(t) \/ LockedAgain(t)
       \/ Pthread_cond_signal(t) \/ Pthread_cond_broadcast(t)
       \/ RwGranted(t) \/ Pthread_rwlock_unlock(t)
       \/ Sem_post(t) \/ TokenTaken(t) \/ SignalArrives(t)
  \/ TimePasses

SyncSpec == SyncInit /\ [][SyncNext]_syncVars

-----------------------------------------------------------------------------
(* A thread outside the calls holds exactly what their answers told it, the *)
(* mutex also after a wait for a condition, whether signalled or timed out. *)
(* The read-write lock asked for with a time in ms is the exception.        *)
MutexTold(t) == spot[t] = "out" => ("mutex" \in rely[t] <=> holder = t)
RwTold(t) == ("read" \in rely[t] <=> t \in reading) /\ ("write" \in rely[t] <=> writing = t)

AnswersTellHolding ==
  \A t \in Users : MutexTold(t) /\ (t \notin guessed => RwTold(t))

(* "On success zero", and with a wait time "lock read-lock if its write-    *)
(* lock is unlocked, wait util time out if its write-lock is locked"        *)
(* (include/pthread.h:716): the same for every read-write lock call.        *)
RwAnswersTellHolding == \A t \in Users : RwTold(t)

(* A timed call waits the whole time it was given and at most a second more *)
(* (when the clock fails), across the end of a second as within one.        *)
DeadlinesAreDue ==
  \A t \in Users :
    until[t] # Never => due[t] <= until[t] /\ until[t] <= due[t] + Second

(* The pthread wrappers keep their word: what they answer is held, and a    *)
(* wait with a time is no shorter and not much longer than it.              *)
WaitsKeepTheirWord == AnswersTellHolding /\ DeadlinesAreDue

(* The mutex implements Lock as well, and a thread that waits for a         *)
(* condition gives it back and is told nothing until it has it again.       *)
MutexToldTo == [t \in Users |-> IF "mutex" \in rely[t] THEN 1 ELSE 0]
MutexAnswers == INSTANCE Lock WITH Threads <- Users, told <- MutexToldTo
MutexImplementsLock == MutexAnswers!Spec
=============================================================================
