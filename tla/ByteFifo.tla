------------------------------- MODULE ByteFifo -------------------------------
(***************************************************************************)
(* What a queue of bytes promises between those who put bytes into it and  *)
(* the one who gets them: a byte is put behind all others while there is   *)
(* room, and the one got is the oldest.  Which bytes there are, who waits  *)
(* for what and how the bytes are kept is not said.  RingQueue implements  *)
(* this module without a lock between the two sides.                       *)
(***************************************************************************)
EXTENDS Integers, Sequences

CONSTANT Capacity  \* the bytes the queue has room for

VARIABLES
  unread,  \* the bytes in the queue, the oldest first
  got      \* the byte got last

Init == unread = <<>>

Put ==
  /\ Len(unread) < Capacity
  /\ Len(unread') = Len(unread) + 1
  /\ \A i \in 1 .. Len(unread) : unread'[i] = unread[i]
  /\ UNCHANGED got

Get ==
  /\ unread # <<>>
  /\ got' = Head(unread)
  /\ unread' = Tail(unread)

Next == Put \/ Get

Spec == Init /\ [][Next]_<<unread, got>>
=============================================================================
