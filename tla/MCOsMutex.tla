------------------------------ MODULE MCOsMutex ------------------------------
(* Instances of OsMutex for TLC.                                            *)
EXTENDS OsMutex

CONSTANTS t1, t2, t3

(* Waiting times only where the answer of the kernel is passed on.          *)
SafeWaits ==
  [LINUX |-> {Forever, 0, 40}, VXWORKS |-> {Forever}, WINDOWS |-> {Forever}]

(* Owners end only where the kernel does not pass the mutex on.             *)
NoExits == [LINUX |-> {}, VXWORKS |-> {}, WINDOWS |-> {}]
OneExits == [LINUX |-> {t1}, VXWORKS |-> {t1}, WINDOWS |-> {}]

AnyWaits ==
  [LINUX |-> {Forever, 0, 40}, VXWORKS |-> {Forever, 0, 8, 40}, WINDOWS |-> {Forever, 0, 40}]
=============================================================================
