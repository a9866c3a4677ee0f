----------------------------- MODULE ThreadHandle -----------------------------
(***************************************************************************)
(* Thread handles of source/thread/thread.c.  A handle is a structure with *)
(* two flags, the identifier of the thread it created, a copy of the       *)
(* parameters and, on Linux, a pthread_attr_t.  The threads are external:  *)
(* they run, end when they like, and a detached thread's identifier may be *)
(* given to the next one.                                                  *)
(*                                                                         *)
(* A handle is used by one caller at a time, only between its init and its *)
(* destroy, and with parameters of the documented kinds.  No code is told  *)
(* that a thread ended: the history variable bereft keeps it.              *)
(***************************************************************************)
EXTENDS Integers, FiniteSets

CONSTANTS
  Handles,
  Tids,        \* the identifiers the kernel gives to threads
  NoTid,
  ThreadPlatforms,   \* one of them is chosen at the start
  Priorities,  \* the priority arguments
  SelfEnding   \* whether threads also end by themselves

FCFS_SCHED  == 0
OTHER_SCHED == 1
RR_SCHED    == 2
Policies == {FCFS_SCHED, OTHER_SCHED, RR_SCHED}
Requests == [policy : Policies, priority : Priorities]

ASSUME ThreadAssumption ==
  /\ NoTid \notin Tids
  /\ ThreadPlatforms \subseteq {"LINUX", "VXWORKS", "WINDOWS"}
  /\ Priorities \subseteq Int
  /\ SelfEnding \in BOOLEAN

VARIABLES
  os,
  initialized,  \* the handles that exist, with is_initialized = TRUE
  created,      \* is_created
  thread_id,
  params,       \* thread_params: the last successful creation's, set to zero at first
  attr,         \* thread_attr's policy (as the system numbers it) and priority
  thread,       \* the threads of the system, by identifier
  bereft        \* history: the handles whose last thread ended without their asking

handle == <<initialized, created, thread_id, params, attr>>
threadVars == <<os, handle, thread, bereft>>

(* state: "none", "run", "suspended", or "cancelled" but still running;     *)
(* by: the handle that created it; priority: what the scheduler uses.       *)
NoThread == [state |-> "none"]
Thread(h, pri) == [state |-> "run", by |-> h, priority |-> pri]
ThreadRecords == [state : {"run", "suspended", "cancelled"}, by : Handles, priority : Int]
Exists(x) == thread[x].state # "none"
Live(x) == thread[x].state \in {"run", "suspended"}

Zero == [policy |-> 0, priority |-> 0]

ThreadTypeOK ==
  /\ os \in ThreadPlatforms
  /\ initialized \subseteq Handles
  /\ created \in [Handles -> BOOLEAN]
  /\ thread_id \in [Handles -> Tids \cup {NoTid}]
  /\ params \in [Handles -> [policy : Policies, priority : Int]]
  /\ attr \in [Handles -> [policy : 0..2, priority : Int]]
  /\ thread \in [Tids -> ThreadRecords \cup {NoThread}]
  /\ bereft \subseteq Handles

ThreadInit ==
  /\ os \in ThreadPlatforms
  /\ initialized = {}
  /\ created = [h \in Handles |-> FALSE]
  /\ thread_id = [h \in Handles |-> NoTid]
  /\ params = [h \in Handles |-> Zero]
  /\ attr = [h \in Handles |-> Zero]
  /\ thread = [x \in Tids |-> NoThread]
  /\ bereft = {}

-----------------------------------------------------------------------------
(* malloc and memset.  For the model's own sake a destroyed handle's        *)
(* address is used again only when its threads are gone.                    *)
thread_handle_init(h) ==
  /\ h \notin initialized
  /\ \A x \in Tids : Exists(x) => thread[x].by # h
  /\ initialized' = initialized \cup {h}
  /\ created' = [created EXCEPT ![h] = FALSE]
  /\ thread_id' = [thread_id EXCEPT ![h] = NoTid]
  /\ params' = [params EXCEPT ![h] = Zero]
  /\ attr' = [attr EXCEPT ![h] = Zero]
  /\ UNCHANGED <<os, thread, bereft>>

(* Linux's numbers: SCHED_OTHER 0, SCHED_FIFO 1, SCHED_RR 2, and the range  *)
(* sched_get_priority_min / max give for each.                              *)
SystemPolicy(p) ==
  CASE p = FCFS_SCHED -> 1 [] p = OTHER_SCHED -> 0 [] p = RR_SCHED -> 2
MinPriority(sys) == IF sys = 0 THEN 0 ELSE 1
MaxPriority(sys) == IF sys = 0 THEN 0 ELSE 99
InRange(pri, sys) == MinPriority(sys) <= pri /\ pri <= MaxPriority(sys)

(* The range is asked for with the handle's last policy, not converted.     *)
Clamped(h, pri) ==
  LET low == IF pri < MinPriority(params[h].policy) THEN MinPriority(params[h].policy) ELSE pri
  IN IF low > MaxPriority(params[h].policy) THEN MaxPriority(params[h].policy) ELSE low

Prepared(h, req) ==
  [policy   |-> IF os = "LINUX" THEN SystemPolicy(req.policy) ELSE attr[h].policy,
   priority |-> IF os = "LINUX" THEN Clamped(h, req.priority) ELSE attr[h].priority]

(* pthread_attr_setschedparam refuses a priority out of the policy's range. *)
Acceptable(h, req) ==
  os = "LINUX" => InRange(Prepared(h, req).priority, Prepared(h, req).policy)

CanCreate(h) == h \in initialized /\ ~created[h]
SetsCreated == os # "WINDOWS"

StoredRequest(req, pri) == [policy |-> req.policy, priority |-> pri]

thread_create(h, req, x) ==
  LET pri == IF os = "LINUX" THEN Prepared(h, req).priority ELSE req.priority IN
  /\ CanCreate(h)
  /\ Acceptable(h, req)
  /\ ~Exists(x)
  /\ os = "WINDOWS" => \A g \in Handles : thread_id[g] # x
  /\ thread' = [thread EXCEPT ![x] = Thread(h, pri)]
  /\ created' = [created EXCEPT ![h] = SetsCreated]
  /\ thread_id' = [thread_id EXCEPT ![h] = x]
  /\ params' = [params EXCEPT ![h] = StoredRequest(req, pri)]
  /\ attr' = [attr EXCEPT ![h] = Prepared(h, req)]
  /\ bereft' = bereft \ {h}
  /\ UNCHANGED <<os, initialized>>

(* An error: of the attributes, or the system's refusal to start a thread.  *)
(* The attributes are destroyed.                                            *)
CreateError(h) ==
  /\ CanCreate(h)
  /\ attr' = [attr EXCEPT ![h] = Zero]
  /\ UNCHANGED <<os, initialized, created, thread_id, params, thread, bereft>>

-----------------------------------------------------------------------------
CanUse(h) == h \in initialized /\ created[h]

(* taskSuspend, SuspendThread and their opposites; on Linux nothing.        *)
SetState(h, from, to) ==
  /\ CanUse(h)
  /\ os # "LINUX"
  /\ thread[thread_id[h]].state = from
  /\ thread' = [thread EXCEPT ![thread_id[h]].state = to]
  /\ UNCHANGED <<os, handle, bereft>>

thread_suspend(h) == SetState(h, "run", "suspended")
thread_resume(h) == SetState(h, "suspended", "run")

(* On Linux the attributes a later thread would be created with.            *)
ApplyPriority(h, pri) ==
  IF os = "LINUX"
    THEN /\ InRange(pri, attr[h].policy)
         /\ attr' = [attr EXCEPT ![h].priority = pri]
         /\ UNCHANGED thread
    ELSE /\ Exists(thread_id[h])
         /\ thread' = [thread EXCEPT ![thread_id[h]].priority = pri]
         /\ UNCHANGED attr

thread_priority_set(h, pri) ==
  /\ CanUse(h)
  /\ ApplyPriority(h, pri)
  /\ params' = [params EXCEPT ![h].priority = pri]
  /\ UNCHANGED <<os, initialized, created, thread_id, bereft>>

thread_priority_get(h) ==
  /\ CanUse(h)
  /\ os # "LINUX" => Exists(thread_id[h])
  /\ params' = [params EXCEPT ![h].priority = IF os = "LINUX"
                                                THEN attr[h].priority
                                                ELSE thread[thread_id[h]].priority]
  /\ UNCHANGED <<os, initialized, created, thread_id, attr, thread, bereft>>

(* The handle whose thread a call of h ends: it is not told.                *)
Losers(h) == IF Live(thread_id[h]) THEN {thread[thread_id[h]].by} \ {h} ELSE {}

(* taskDelete ends the task; pthread_cancel asks the thread to end.         *)
Kill(h) ==
  /\ Exists(thread_id[h])
  /\ thread' = [thread EXCEPT ![thread_id[h]] =
                  IF os = "LINUX" THEN [@ EXCEPT !.state = "cancelled"] ELSE NoThread]
  /\ bereft' = bereft \cup Losers(h)

(* With an identifier nobody has pthread_cancel may say either.             *)
KillNobody(h) ==
  /\ os = "LINUX"
  /\ ~Exists(thread_id[h])
  /\ UNCHANGED <<thread, bereft>>

KeepsCreated(h) == TRUE
CreatedAfterCancel(h) == FALSE

thread_cancel(h) ==
  /\ CanUse(h)
  /\ Kill(h) \/ KillNobody(h)
  /\ created' = [created EXCEPT ![h] = CreatedAfterCancel(h)]
  /\ UNCHANGED <<os, initialized, thread_id, params, attr>>

(* Cancels first what is_created says is running, and fails if that does.   *)
CancelSkipped(h) == UNCHANGED <<thread, bereft>>
CancelFirst(h) ==
  IF created[h] THEN Kill(h) \/ KillNobody(h) ELSE UNCHANGED <<thread, bereft>>

thread_handle_destroy(h) ==
  /\ h \in initialized
  /\ CancelFirst(h)
  /\ initialized' = initialized \ {h}
  /\ created' = [created EXCEPT ![h] = FALSE]
  /\ thread_id' = [thread_id EXCEPT ![h] = NoTid]
  /\ params' = [params EXCEPT ![h] = Zero]
  /\ attr' = [attr EXCEPT ![h] = Zero]
  /\ UNCHANGED os

-----------------------------------------------------------------------------
(* A cancelled thread ends, or one is at the end of its routine.            *)
EndCancelled(x) ==
  /\ thread[x].state = "cancelled"
  /\ thread' = [thread EXCEPT ![x] = NoThread]
  /\ UNCHANGED <<os, handle, bereft>>

EndByItself(x) ==
  /\ SelfEnding
  /\ thread[x].state = "run"
  /\ thread' = [thread EXCEPT ![x] = NoThread]
  /\ bereft' = bereft \cup {thread[x].by}
  /\ UNCHANGED <<os, handle>>

ThreadNext ==
  \/ \E h \in Handles :
       \/ thread_handle_init(h)
       \/ \E req \in Requests, x \in Tids : thread_create(h, req, x)
       \/ CreateError(h)
       \/ thread_suspend(h) \/ thread_resume(h)
       \/ \E pri \in Priorities : thread_priority_set(h, pri)
       \/ thread_priority_get(h)
       \/ thread_cancel(h)
       \/ thread_handle_destroy(h)
  \/ \E x \in Tids : EndCancelled(x) \/ EndByItself(x)

ThreadSpec == ThreadInit /\ [][ThreadNext]_threadVars

(* Cancelled threads reach a cancellation point.                            *)
ThreadFairSpec == ThreadSpec /\ \A x \in Tids : WF_threadVars(EndCancelled(x))

-----------------------------------------------------------------------------
(* Properties.                                                              *)

(* The threads created through h that nobody has cancelled.                 *)
ThreadsOf(h) == {x \in Tids : Live(x) /\ thread[x].by = h}

(* "The is_created flag will be set to TRUE after the thread is             *)
(* successfully created" (thread.c:119): a handle has one thread, the one   *)
(* its identifier names, exactly when the flag is set and the thread        *)
(* did not end without the handle's asking: by itself, or by a call of a    *)
(* handle that this had happened to.                                        *)
FlagTellsThread ==
  \A h \in Handles :
    ThreadsOf(h) = IF CanUse(h) /\ h \notin bereft THEN {thread_id[h]} ELSE {}

(* A call of the handle that acts on a thread.                              *)
Acts(h) ==
  \/ thread_suspend(h) \/ thread_resume(h)
  \/ \E pri \in Priorities : thread_priority_set(h, pri)
  \/ thread_cancel(h)
  \/ thread_handle_destroy(h)

(* "This function cancels/deletes/terminates a specific thread"             *)
(* (thread.c:649), suspends, resumes or changes it: a call hits no thread   *)
(* of another handle, although identifiers are given out again and threads  *)
(* end by themselves, unless the handle's own thread ended without its      *)
(* asking and it has not created another since.                             *)
ActsOnOwnThread ==
  [][\A h \in Handles : Acts(h) /\ h \notin bereft =>
       \A x \in Tids : thread'[x] # thread[x] => thread[x].by = h]_threadVars

(* "This function destroys a specific thread" (thread.c:720): the thread of *)
(* a destroyed handle is gone in the end.                                   *)
DestroyEndsThread ==
  \A h \in Handles :
    h \notin initialized ~> h \in initialized \/ \A x \in Tids : Exists(x) => thread[x].by # h

(* "This function changes a thread priority when a thread is running"       *)
(* (thread.c:514): the priority the handle records is the thread's.  On     *)
(* Linux the call changes the attributes of threads yet to be created.      *)
RecordedPriorityIsReal ==
  os # "LINUX" =>
  \A h \in Handles : \A x \in ThreadsOf(h) : thread[x].priority = params[h].priority
=============================================================================
