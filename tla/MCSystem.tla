------------------------------- MODULE MCSystem -------------------------------
(***************************************************************************)
(* Instances for TLC of the wrappers of operating system objects, side by  *)
(* side: a behaviour is a behaviour of one of them, while the others stay  *)
(* in their initial states.                                                *)
(***************************************************************************)
EXTENDS OsMutex, ThreadHandle, TcpConnect, SocketStream, PthreadSync

CONSTANTS
  t1, t2, t3, h1, h2, x1, x2, c1, c2, d1, d2, u1, u2,
  Parts  \* the components to check: "mutex", "thread", "connect", "stream", "sync"

VARIABLE part

(* Waiting times only where the answer of the kernel is passed on.          *)
SafeWaits ==
  [LINUX |-> {Forever, 0, 40}, VXWORKS |-> {Forever}, WINDOWS |-> {Forever}]

(* Owners end only where the kernel does not pass the mutex on.             *)
OneExits == [LINUX |-> {t1}, VXWORKS |-> {t1}, WINDOWS |-> {}]

(* One that is shorter than a second, one that is a second and some.        *)
ShortAndLong == {WAIT_FOREVER, NO_WAIT, 1, 4}

SystemInit ==
  /\ part \in Parts
  /\ Init /\ ThreadInit /\ ConnInit /\ StreamInit /\ SyncInit
  /\ part # "mutex" => platform = "LINUX"
  /\ part # "thread" => os = "LINUX"
  /\ part # "sync" => program = {"sem"}

SystemNext ==
  /\ UNCHANGED part
  /\ \/ /\ part = "mutex"
        /\ Next
        /\ UNCHANGED <<threadVars, connVars, streamVars, syncVars>>
     \/ /\ part = "thread"
        /\ ThreadNext
        /\ UNCHANGED <<vars, connVars, streamVars, syncVars>>
     \/ /\ part = "connect"
        /\ ConnNext
        /\ UNCHANGED <<vars, threadVars, streamVars, syncVars>>
     \/ /\ part = "stream"
        /\ StreamNext
        /\ UNCHANGED <<vars, threadVars, connVars, syncVars>>
     \/ /\ part = "sync"
        /\ SyncNext
        /\ UNCHANGED <<vars, threadVars, connVars, streamVars>>

systemVars == <<part, vars, threadVars, connVars, streamVars, syncVars>>

(* The kernel ends a wait it can end, and cancelled threads end.            *)
SystemFairness ==
  /\ \A t \in Threads : WF_vars(part = "mutex" /\ (Acquire(t) \/ Timeout(t)))
  /\ \A x \in Tids : WF_threadVars(part = "thread" /\ EndCancelled(x))

SystemSpec == SystemInit /\ [][SystemNext]_systemVars /\ SystemFairness
=============================================================================
