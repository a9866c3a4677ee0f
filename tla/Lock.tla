--------------------------------- MODULE Lock ---------------------------------
(***************************************************************************)
(* What a lock promises to those who use it, without kernel, platforms,    *)
(* waiting times or clock: how often each thread was told that it has the  *)
(* lock and has not given it back.  It is told so only while no other      *)
(* thread was.  OsMutex implements this module, and so does the mutex of   *)
(* PthreadSync, also for threads that wait for a condition.  ParList takes *)
(* it as given for the mutex of a list.                                    *)
(***************************************************************************)
EXTENDS Integers

CONSTANT Threads

VARIABLE told  \* told[t]: the locks thread t was told it has

Init == told = [t \in Threads |-> 0]

Others(t) == Threads \ {t}

Obtain(t) ==
  /\ \A u \in Others(t) : told[u] = 0
  /\ told' = [told EXCEPT ![t] = @ + 1]

Release(t) ==
  /\ told[t] > 0
  /\ told' = [told EXCEPT ![t] = @ - 1]

(* A thread ends with what it was told.                                     *)
Quit(t) == told' = [told EXCEPT ![t] = 0]

Next == \E t \in Threads : Obtain(t) \/ Release(t) \/ Quit(t)

Spec == Init /\ [][Next]_told

(* No two threads have the lock at the same time.                           *)
Safe ==
  /\ told \in [Threads -> Nat]
  /\ \A t, u \in Threads : told[t] > 0 /\ told[u] > 0 => t = u
=============================================================================
