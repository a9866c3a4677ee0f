------------------------------ MODULE PthreadAttr ------------------------------
(***************************************************************************)
(* Thread attributes, and the threads that are made from them:             *)
(* source/pthread/pthreadAttr.c, pthread.c, pthreadSched.c and the tasks   *)
(* of source/task/task.c on Linux.  A setter takes the attributes and      *)
(* gives an answer and the attributes after it.  What the system checks    *)
(* and does with attributes is glibc's and the kernel's, with privileges;  *)
(* memory may be missing.                                                  *)
(*                                                                         *)
(* The system checks a priority against the policy that the attributes     *)
(* have at that moment, so that the order of calls decides which of them   *)
(* are refused.                                                            *)
(***************************************************************************)
EXTENDS Integers

CONSTANTS
  ThreadIds,
  HighestPriority,       \* of the real-time policies
  PTHREAD_STACK_MIN,
  DefaultStack,
  PriorityArguments, \* what callers ask for
  StackArguments,
  Guards,            \* guardsize arguments
  Stacks,            \* stackaddr arguments
  NoObject           \* no stack, no attributes

ASSUME AttrAssumption ==
  /\ HighestPriority \in Nat \ {0}
  /\ PTHREAD_STACK_MIN \in Nat /\ DefaultStack \in Nat /\ DefaultStack >= PTHREAD_STACK_MIN
  /\ PriorityArguments \subseteq Int /\ StackArguments \subseteq Nat
  /\ NoObject \notin Stacks

VARIABLES
  attributes, \* an object of the application's, or NoObject when it is not made
  live,       \* of each thread: "none", "runs" or "ended"
  detached,   \* the threads nobody has to join
  pending,    \* the threads with a cancellation request
  runsWith,   \* the scheduling and the stack each thread has
  wanted,     \* history: those its creator or a Sched_ call asked for
  tasks,      \* history: the threads that pthreadSpawn created
  refused     \* history: pthreadSpawn refused what it was asked

theThreads == <<live, detached, pending, runsWith, wanted, tasks>>
attrVars == <<attributes, theThreads, refused>>

EINVAL == 22
ENOTSUP == 95
ESRCH == 3

SchedPolicies == {"SCHED_OTHER", "SCHED_FIFO", "SCHED_RR"}

(* The first thread's scheduling, and the rest of a thread's properties.    *)
Ordinary(stacksize, guardsize, stackaddr) ==
  [policy |-> "SCHED_OTHER", priority |-> 0,
   stacksize |-> stacksize, guardsize |-> guardsize, stackaddr |-> stackaddr]
Unmade == Ordinary(0, 0, NoObject)

AttrInit ==
  /\ attributes = NoObject
  /\ live = [x \in ThreadIds |-> "none"]
  /\ detached = {} /\ pending = {} /\ tasks = {}
  /\ runsWith = [x \in ThreadIds |-> Unmade]
  /\ wanted = runsWith
  /\ refused = FALSE

-----------------------------------------------------------------------------
Sched_get_priority_min(policy) == IF policy = "SCHED_OTHER" THEN 0 ELSE 1
Sched_get_priority_max(policy) == IF policy = "SCHED_OTHER" THEN 0 ELSE HighestPriority

Pthread_get_priorityscope(policy) ==
  Sched_get_priority_min(policy) .. Sched_get_priority_max(policy)

Pthread_attr_init ==
  [inherit |-> "PTHREAD_INHERIT_SCHED", scope |-> "PTHREAD_SCOPE_SYSTEM",
   policy |-> "SCHED_OTHER", priority |-> 0, detach |-> "PTHREAD_CREATE_JOINABLE",
   stacksize |-> DefaultStack, guardsize |-> 0, stackaddr |-> NoObject]

Answer(rval, a) == [rval |-> rval, attr |-> a]

Pthread_attr_setinheritsched(a, inheritsched) == Answer(0, [a EXCEPT !.inherit = inheritsched])

Pthread_attr_setscope(a, scope) ==
  Answer(IF scope = "PTHREAD_SCOPE_SYSTEM" THEN 0 ELSE ENOTSUP, a)

Pthread_attr_setschedpolicy(a, policy) == Answer(0, [a EXCEPT !.policy = policy])

Pthread_attr_setdetachstate(a, state) == Answer(0, [a EXCEPT !.detach = state])

Pthread_attr_setschedparam(a, priority) ==
  IF priority \in Pthread_get_priorityscope(a.policy)
    THEN Answer(0, [a EXCEPT !.priority = priority])
    ELSE Answer(EINVAL, a)

(* Brought into the range of SCHED_RR, whatever the policy of a.            *)
Scaled(priority) ==
  LET range == Pthread_get_priorityscope("SCHED_RR")
  IN IF priority \in range THEN priority
     ELSE IF priority > HighestPriority THEN HighestPriority ELSE Sched_get_priority_min("SCHED_RR")

Pthread_attr_setschedpriority(a, priority) == Pthread_attr_setschedparam(a, Scaled(priority))

AtLeastMin(stacksize) == IF stacksize < PTHREAD_STACK_MIN THEN PTHREAD_STACK_MIN ELSE stacksize

Pthread_attr_setstacksize(a, stacksize) == Answer(0, [a EXCEPT !.stacksize = AtLeastMin(stacksize)])
Pthread_attr_setguardsize(a, guardsize) == Answer(0, [a EXCEPT !.guardsize = guardsize])
Pthread_attr_setstackaddr(a, stackaddr) == Answer(0, [a EXCEPT !.stackaddr = stackaddr])

-----------------------------------------------------------------------------
(* Pthread_attr_set: a step is taken when the one before it answered 0.     *)
Then(r, Step(_)) == IF r.rval = 0 THEN Step(r.attr) ELSE r

SetPriorityFirst(r, priority) ==
  LET first == Then(r, LAMBDA a : Pthread_attr_setschedpriority(a, priority))
      rr == Then(first, LAMBDA a : Pthread_attr_setschedpolicy(a, "SCHED_RR"))
  IN Then(rr, LAMBDA a : Pthread_attr_setdetachstate(a, "PTHREAD_CREATE_DETACHED"))

SetScheduling(r, priority) ==
  LET rr == Then(r, LAMBDA a : Pthread_attr_setschedpolicy(a, "SCHED_RR"))
      detach == Then(rr, LAMBDA a : Pthread_attr_setdetachstate(a, "PTHREAD_CREATE_DETACHED"))
  IN Then(detach, LAMBDA a : Pthread_attr_setschedpriority(a, priority))

AttrSet(priority, stacksize) ==
  LET explicit == Pthread_attr_setinheritsched(Pthread_attr_init, "PTHREAD_EXPLICIT_SCHED")
      system == Then(explicit, LAMBDA a : Pthread_attr_setscope(a, "PTHREAD_SCOPE_SYSTEM"))
      r == Then(SetScheduling(system, priority),
                LAMBDA a : Pthread_attr_setstacksize(a, stacksize))
  IN IF r.rval = 0 THEN r ELSE Answer(r.rval, NoObject)

-----------------------------------------------------------------------------
(* What the getters answer.                                                 *)
Pthread_attr_getinheritsched(a) == a.inherit
Pthread_attr_getscope(a) == a.scope
Pthread_attr_getschedpolicy(a) == a.policy
Pthread_attr_getschedparam(a) == [sched_priority |-> a.priority]
Pthread_attr_getschedpriority(a) == Pthread_attr_getschedparam(a).sched_priority
Pthread_attr_getdetachstate(a) == a.detach
Pthread_attr_getstacksize(a) == a.stacksize
Pthread_attr_getguardsize(a) == a.guardsize
Pthread_attr_getstackaddr(a) == a.stackaddr

Read(a) ==
  LET own == Ordinary(Pthread_attr_getstacksize(a), Pthread_attr_getguardsize(a),
                      Pthread_attr_getstackaddr(a))
  IN IF Pthread_attr_getinheritsched(a) = "PTHREAD_INHERIT_SCHED" THEN own
     ELSE [own EXCEPT !.policy = Pthread_attr_getschedpolicy(a),
                !.priority = Pthread_attr_getschedpriority(a)]

-----------------------------------------------------------------------------
(* The system makes a thread: its scheduling is that of the attributes, or  *)
(* of the thread that creates it, an ordinary one.                          *)
Explicit(a) == a.inherit = "PTHREAD_EXPLICIT_SCHED"

Properties(a) ==
  [policy |-> IF Explicit(a) THEN a.policy ELSE "SCHED_OTHER",
   priority |-> IF Explicit(a) THEN a.priority ELSE 0,
   stacksize |-> a.stacksize, guardsize |-> a.guardsize, stackaddr |-> a.stackaddr]

Creatable(a) == Explicit(a) => a.priority \in Pthread_get_priorityscope(a.policy)

MakeThread(x, a, want) ==
  /\ live' = [live EXCEPT ![x] = "runs"]
  /\ detached' = IF a.detach = "PTHREAD_CREATE_DETACHED" THEN detached \cup {x} ELSE detached \ {x}
  /\ pending' = pending \ {x}
  /\ runsWith' = [runsWith EXCEPT ![x] = Properties(a)]
  /\ wanted' = [wanted EXCEPT ![x] = want]

CreateThread(x) ==
  /\ attributes # NoObject
  /\ live[x] = "none"
  /\ Creatable(attributes)
  /\ MakeThread(x, attributes, Read(attributes))
  /\ tasks' = tasks \ {x}
  /\ UNCHANGED <<attributes, refused>>

(* A task: what it asks for, and the system's defaults for the rest.        *)
TaskWants(priority, stacksize) ==
  [Ordinary(AtLeastMin(stacksize), 0, NoObject) EXCEPT
     !.policy = "SCHED_RR", !.priority = Scaled(priority)]

pthreadSpawn(x, priority, stacksize) ==
  LET r == AttrSet(priority, stacksize) IN
  /\ live[x] = "none"
  /\ IF r.rval = 0 /\ Creatable(r.attr)
       THEN /\ MakeThread(x, r.attr, TaskWants(priority, stacksize))
            /\ tasks' = tasks \cup {x}
            /\ UNCHANGED <<attributes, refused>>
       ELSE /\ refused' = TRUE
            /\ UNCHANGED <<attributes, theThreads>>

-----------------------------------------------------------------------------
(* The application's own attributes.                                        *)
MakeAttributes ==
  /\ attributes = NoObject
  /\ attributes' = Pthread_attr_init
  /\ UNCHANGED <<theThreads, refused>>

DestroyAttributes ==
  /\ attributes # NoObject
  /\ attributes' = NoObject
  /\ UNCHANGED <<theThreads, refused>>

Apply(Setter(_)) ==
  /\ attributes # NoObject
  /\ attributes' = Setter(attributes).attr
  /\ UNCHANGED <<theThreads, refused>>

-----------------------------------------------------------------------------
(* With its identifier.                                                     *)
Gone(x) ==
  /\ live' = [live EXCEPT ![x] = "none"]
  /\ detached' = detached \ {x} /\ pending' = pending \ {x} /\ tasks' = tasks \ {x}
  /\ runsWith' = [runsWith EXCEPT ![x] = Unmade] /\ wanted' = [wanted EXCEPT ![x] = Unmade]
  /\ UNCHANGED <<attributes, refused>>

ThreadEnds(x) ==
  IF x \in detached THEN Gone(x)
  ELSE /\ live' = [live EXCEPT ![x] = "ended"]
       /\ UNCHANGED <<attributes, detached, pending, runsWith, wanted, tasks, refused>>

Pthread_exit(x) == live[x] = "runs" /\ ThreadEnds(x)

CancellationPoint(x) == live[x] = "runs" /\ x \in pending /\ ThreadEnds(x)

Pthread_cancel(x) ==
  /\ live[x] = "runs"
  /\ pending' = pending \cup {x}
  /\ UNCHANGED <<attributes, live, detached, runsWith, wanted, tasks, refused>>

Pthread_join(x) == live[x] = "ended" /\ Gone(x)

Pthread_detach(x) ==
  \/ live[x] = "ended" /\ Gone(x)
  \/ /\ live[x] = "runs" /\ x \notin detached
     /\ detached' = detached \cup {x}
     /\ UNCHANGED <<attributes, live, pending, runsWith, wanted, tasks, refused>>

pthreadIdVerify(x) == IF live[x] = "none" THEN ESRCH ELSE 0
TaskIdVerify(x) == IF pthreadIdVerify(x) # 0 THEN -1 ELSE 0

Reschedule(x, policy, priority) ==
  /\ live[x] = "runs"
  /\ priority \in Pthread_get_priorityscope(policy)
  /\ runsWith' = [runsWith EXCEPT ![x].policy = policy, ![x].priority = priority]
  /\ wanted' = [wanted EXCEPT ![x].policy = policy, ![x].priority = priority]
  /\ UNCHANGED <<attributes, live, detached, pending, tasks, refused>>

Sched_getscheduler(x) == runsWith[x].policy
Sched_getparam(x) == runsWith[x].priority
Sched_setscheduler(x, policy, priority) == Reschedule(x, policy, priority)
Sched_setparam(x, priority) == Reschedule(x, Sched_getscheduler(x), priority)

-----------------------------------------------------------------------------
AttrNext ==
  \/ MakeAttributes \/ DestroyAttributes
  \/ \E i \in {"PTHREAD_INHERIT_SCHED", "PTHREAD_EXPLICIT_SCHED"} :
       Apply(LAMBDA a : Pthread_attr_setinheritsched(a, i))
  \/ \E s \in {"PTHREAD_SCOPE_SYSTEM", "PTHREAD_SCOPE_PROCESS"} :
       Apply(LAMBDA a : Pthread_attr_setscope(a, s))
  \/ \E p \in SchedPolicies : Apply(LAMBDA a : Pthread_attr_setschedpolicy(a, p))
  \/ \E d \in {"PTHREAD_CREATE_JOINABLE", "PTHREAD_CREATE_DETACHED"} :
       Apply(LAMBDA a : Pthread_attr_setdetachstate(a, d))
  \/ \E p \in PriorityArguments :
       \/ Apply(LAMBDA a : Pthread_attr_setschedparam(a, p))
       \/ Apply(LAMBDA a : Pthread_attr_setschedpriority(a, p))
  \/ \E n \in StackArguments : Apply(LAMBDA a : Pthread_attr_setstacksize(a, n))
  \/ \E n \in Guards : Apply(LAMBDA a : Pthread_attr_setguardsize(a, n))
  \/ \E s \in Stacks : Apply(LAMBDA a : Pthread_attr_setstackaddr(a, s))
  \/ \E p \in PriorityArguments, n \in StackArguments :
       \E x \in ThreadIds : pthreadSpawn(x, p, n)
  \/ \E x \in ThreadIds :
       \/ CreateThread(x) \/ Pthread_exit(x) \/ Pthread_cancel(x) \/ CancellationPoint(x)
       \/ Pthread_join(x) \/ Pthread_detach(x)
       \/ \E p \in PriorityArguments :
            \/ Sched_setparam(x, p)
            \/ \E policy \in SchedPolicies : Sched_setscheduler(x, policy, p)

AttrSpec == AttrInit /\ [][AttrNext]_attrVars

-----------------------------------------------------------------------------
(* The system refuses no task, whatever its priority and stack: the policy  *)
(* is set before the priority is checked against it, and both are brought   *)
(* into range.                                                              *)
TasksAreAccepted == ~refused

(* A thread runs with the scheduling and stack that were asked for.         *)
RunsAsWanted ==
  \A x \in ThreadIds : live[x] # "none" =>
    /\ runsWith[x] = wanted[x]
    /\ Sched_getparam(x) \in Pthread_get_priorityscope(Sched_getscheduler(x))
    /\ runsWith[x].stacksize >= PTHREAD_STACK_MIN

(* Nobody joins a task: it leaves nothing when it ends, and is not verified *)
(* any more.                                                                *)
TasksLeaveNothing ==
  \A x \in tasks : TaskIdVerify(x) = 0 => live[x] = "runs"

TasksAsAsked == TasksAreAccepted /\ RunsAsWanted /\ TasksLeaveNothing
=============================================================================
