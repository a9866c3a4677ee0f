------------------------------- MODULE RingQueue -------------------------------
(***************************************************************************)
(* The Windows message queue of the earlier library, backup/osi/mgosi.c: a *)
(* ring of bytes, an event that says it may be worth reading and one that  *)
(* says it may be worth writing, and no lock.  Tasks that send do so       *)
(* inside a mutex of the same library, one task receives, and tasks are    *)
(* deleted at any point.  The events, the critical section and the threads *)
(* are the system's.  A byte is in the ring before RearIndex is seen to    *)
(* pass it, as in the x86 builds the file is for.                          *)
(*                                                                         *)
(* The test of the ring and the reset of the event are two steps, so that  *)
(* a wakeup between them is lost and both sides can wait for each other.   *)
(***************************************************************************)
EXTENDS Integers, Sequences

CONSTANTS
  Senders,
  Receiver,
  Nil,
  MaxMsgLength, \* and the length of each message
  Spare,        \* bytes of the queue beyond one message
  MaxMsgSends      \* bound: msg_send calls

ASSUME RingAssumption ==
  /\ Receiver \notin Senders /\ Nil \notin Senders \cup {Receiver}
  /\ MaxMsgLength \in Nat \ {0} /\ Spare \in Nat /\ MaxMsgSends \in Nat

Workers == Senders \cup {Receiver}
MsgLength == MaxMsgLength + Spare + 1  \* of the ring: one byte is never used

VARIABLES
  life,      \* of each task: "none", "run" or "ended"
  where,     \* the place of each task in msg_send or msg_receive
  left,      \* the bytes its call has yet to move
  message,   \* the number of the message each sender sends
  MsgBuffer, HeadIndex, RearIndex,
  signaled,  \* the events that are set, of "ReadEnable" and "WriteEnable"
  section,   \* the task in the critical section
  sends,     \* history: msg_send calls so far
  last,      \* history: the last byte received
  cut        \* history: messages whose sender was deleted while it sent them

theRing == <<MsgBuffer, HeadIndex, RearIndex>>
theTasks == <<life, where, left, message>>
ringVars == <<theTasks, theRing, signaled, section, sends, last, cut>>

NoByte == [msg |-> 0, pos |-> MaxMsgLength]
Byte(s) == [msg |-> message[s], pos |-> MaxMsgLength - left[s] + 1]

msg_queue_create ==
  /\ MsgBuffer = [i \in 0 .. MsgLength - 1 |-> NoByte]
  /\ HeadIndex = 0 /\ RearIndex = 0
  /\ signaled = {"WriteEnable"}

RingInit ==
  /\ msg_queue_create
  /\ life = [t \in Workers |-> "none"]
  /\ where = [t \in Workers |-> "out"]
  /\ left = [t \in Workers |-> 0]
  /\ message = [t \in Workers |-> 0]
  /\ section = Nil
  /\ sends = 0 /\ last = NoByte /\ cut = {}

-----------------------------------------------------------------------------
msg_queue_contain ==
  LET r == RearIndex % MsgLength
      h == HeadIndex % MsgLength
  IN IF r >= h THEN r - h ELSE MsgLength - (h - r)

msg_queue_capacity ==
  LET r == RearIndex % MsgLength
      h == HeadIndex % MsgLength
  IN IF r >= h THEN MsgLength - 1 - (r - h) ELSE (h - r) - 1

is_msg_queue_full == (RearIndex + 1) % MsgLength = HeadIndex % MsgLength

mgIsQEmpty == HeadIndex = RearIndex

-----------------------------------------------------------------------------
Runs(t, place) == life[t] = "run" /\ where[t] = place
Goes(t, place) == where' = [where EXCEPT ![t] = place]

SetEvent(e) == signaled' = signaled \cup {e}
ResetEvent(e) == signaled' = signaled \ {e}

(* A step of t that ends at place and touches an event only.                *)
EventStep(t, place) ==
  /\ Goes(t, place)
  /\ UNCHANGED <<life, left, message, theRing, section, sends, last, cut>>

EnterSection(s) ==
  /\ Runs(s, "out")
  /\ section = Nil
  /\ section' = s
  /\ Goes(s, "inside")
  /\ UNCHANGED <<life, left, message, theRing, signaled, sends, last, cut>>

LeaveSection(s) ==
  /\ Runs(s, "inside")
  /\ section' = Nil
  /\ Goes(s, "out")
  /\ UNCHANGED <<life, left, message, theRing, signaled, sends, last, cut>>

msg_send(s) ==
  /\ Runs(s, "inside")
  /\ sends < MaxMsgSends
  /\ sends' = sends + 1
  /\ message' = [message EXCEPT ![s] = sends + 1]
  /\ left' = [left EXCEPT ![s] = MaxMsgLength]
  /\ Goes(s, "test")
  /\ UNCHANGED <<life, theRing, signaled, section, last, cut>>

(* The test at the head of the loop, for the bytes that are left.           *)
RoomForOne(s) == msg_queue_capacity >= 1
RoomForRest(s) == msg_queue_capacity >= left[s]

TestRoom(s) ==
  /\ Runs(s, "test")
  /\ Goes(s, IF left[s] = 0 THEN "inside" ELSE IF RoomForRest(s) THEN "wrap" ELSE "wake")
  /\ UNCHANGED <<life, left, message, theRing, signaled, section, sends, last, cut>>

SendWakesReader(s) == Runs(s, "wake") /\ SetEvent("ReadEnable") /\ EventStep(s, "reset")
SendResets(s) == Runs(s, "reset") /\ ResetEvent("WriteEnable") /\ EventStep(s, "wait")

SendBlocks(s) ==
  /\ Runs(s, "wait")
  /\ "WriteEnable" \in signaled
  /\ UNCHANGED signaled
  /\ EventStep(s, "test")

SendTimeout(s) ==
  /\ Runs(s, "wait")
  /\ "WriteEnable" \notin signaled
  /\ UNCHANGED signaled
  /\ EventStep(s, "inside")

WrapRear(s) ==
  /\ Runs(s, "wrap")
  /\ RearIndex' = RearIndex % MsgLength
  /\ Goes(s, "store")
  /\ UNCHANGED <<life, left, message, MsgBuffer, HeadIndex, signaled, section, sends, last, cut>>

Store(s) ==
  /\ Runs(s, "store")
  /\ MsgBuffer' = [MsgBuffer EXCEPT ![RearIndex] = Byte(s)]
  /\ RearIndex' = RearIndex + 1
  /\ left' = [left EXCEPT ![s] = @ - 1]
  /\ Goes(s, "signal")
  /\ UNCHANGED <<life, message, HeadIndex, signaled, section, sends, last, cut>>

SendSignals(s) == Runs(s, "signal") /\ SetEvent("ReadEnable") /\ EventStep(s, "test")

-----------------------------------------------------------------------------
msg_receive ==
  /\ Runs(Receiver, "out")
  /\ left' = [left EXCEPT ![Receiver] = MaxMsgLength]
  /\ Goes(Receiver, "test")
  /\ UNCHANGED <<life, message, theRing, signaled, section, sends, last, cut>>

EnoughBytes == msg_queue_contain >= left[Receiver]

TestBytes ==
  /\ Runs(Receiver, "test")
  /\ Goes(Receiver, IF left[Receiver] = 0 THEN "out" ELSE IF EnoughBytes THEN "wrap" ELSE "wake")
  /\ UNCHANGED <<life, left, message, theRing, signaled, section, sends, last, cut>>

ReceiveWakesWriter ==
  Runs(Receiver, "wake") /\ SetEvent("WriteEnable") /\ EventStep(Receiver, "reset")
ReceiveResets ==
  Runs(Receiver, "reset") /\ ResetEvent("ReadEnable") /\ EventStep(Receiver, "wait")

ReceiveBlocks ==
  /\ Runs(Receiver, "wait")
  /\ "ReadEnable" \in signaled
  /\ UNCHANGED signaled
  /\ EventStep(Receiver, "test")

ReceiveTimeout ==
  /\ Runs(Receiver, "wait")
  /\ "ReadEnable" \notin signaled
  /\ UNCHANGED signaled
  /\ EventStep(Receiver, "out")

WrapHead ==
  /\ Runs(Receiver, "wrap")
  /\ HeadIndex' = HeadIndex % MsgLength
  /\ Goes(Receiver, "take")
  /\ UNCHANGED <<life, left, message, MsgBuffer, RearIndex, signaled, section, sends, last, cut>>

Take ==
  /\ Runs(Receiver, "take")
  /\ last' = MsgBuffer[HeadIndex]
  /\ Goes(Receiver, "advance")
  /\ UNCHANGED <<life, left, message, theRing, signaled, section, sends, cut>>

AdvanceHead ==
  /\ Runs(Receiver, "advance")
  /\ HeadIndex' = HeadIndex + 1
  /\ left' = [left EXCEPT ![Receiver] = @ - 1]
  /\ Goes(Receiver, "signal")
  /\ UNCHANGED <<life, message, MsgBuffer, RearIndex, signaled, section, sends, last, cut>>

ReceiveSignals ==
  Runs(Receiver, "signal") /\ SetEvent("WriteEnable") /\ EventStep(Receiver, "test")

-----------------------------------------------------------------------------
task_create(t) ==
  /\ life[t] = "none"
  /\ life' = [life EXCEPT ![t] = "run"]
  /\ UNCHANGED <<where, left, message, theRing, signaled, section, sends, last, cut>>

(* What was begun of a message stays; the critical section is not left.     *)
TaskStops(t) ==
  /\ life' = [life EXCEPT ![t] = "ended"]
  /\ cut' = IF t \in Senders /\ left[t] \in 1 .. MaxMsgLength - 1
              THEN cut \cup {message[t]}
              ELSE cut
  /\ UNCHANGED <<where, left, message, theRing, signaled, section, sends, last>>

(* ExitThread ends the thread that calls, whichever task it names.          *)
task_delete(caller, t) ==
  /\ Runs(caller, "out")
  /\ life[t] # "none"
  /\ TaskStops(caller)

task_delete_force(t) ==
  /\ life[t] = "run"
  /\ TaskStops(t)

RingNext ==
  \/ \E s \in Senders :
       \/ EnterSection(s) \/ LeaveSection(s) \/ msg_send(s) \/ TestRoom(s)
       \/ SendWakesReader(s) \/ SendResets(s) \/ SendBlocks(s) \/ SendTimeout(s)
       \/ WrapRear(s) \/ Store(s) \/ SendSignals(s)
  \/ msg_receive \/ TestBytes
  \/ ReceiveWakesWriter \/ ReceiveResets \/ ReceiveBlocks \/ ReceiveTimeout
  \/ WrapHead \/ Take \/ AdvanceHead \/ ReceiveSignals
  \/ \E t \in Workers :
       \/ task_create(t) \/ task_delete_force(t)
       \/ \E caller \in Workers : task_delete(caller, t)

RingSpec == RingInit /\ [][RingNext]_ringVars

-----------------------------------------------------------------------------
(* The bytes from HeadIndex to RearIndex.                                   *)
Contents == [i \in 1 .. msg_queue_contain |-> MsgBuffer[(HeadIndex + i - 1) % MsgLength]]

(* What was received, as far as it matters, and what is still to come.      *)
Flow == IF where[Receiver] = "advance" THEN Contents ELSE <<last>> \o Contents

(* Messages reach the receiver whole and in one piece, each byte once: no   *)
(* byte is overwritten before it is read, a send that gives up has left     *)
(* nothing in the ring, and two messages do not mix.  Only the deletion of  *)
(* a sender cuts a message short, and then its mutex stays locked.          *)
MessagesStayWhole ==
  /\ \A i \in 1 .. Len(Flow) - 1 :
       LET b == Flow[i]
           next == Flow[i + 1]
       IN IF b.pos < MaxMsgLength /\ next.pos # 1
            THEN next = [b EXCEPT !.pos = @ + 1]
            ELSE next.msg > b.msg /\ next.pos = 1 /\ (b.pos < MaxMsgLength => b.msg \in cut)
  /\ where[Receiver] = "take" /\ cut = {} =>
       Contents[1].pos = MaxMsgLength - left[Receiver] + 1
  /\ msg_queue_contain + msg_queue_capacity = MsgLength - 1
  /\ is_msg_queue_full <=> msg_queue_capacity = 0

(* The ring implements a queue of bytes, each put and got in one step,      *)
(* although no lock is between the two sides, the tests for room and for    *)
(* bytes are made before the steps that rely on them, and tasks are deleted *)
(* at any point.  A byte is got when it is read; its cell is free when      *)
(* HeadIndex has passed it.                                                 *)
Unread == IF where[Receiver] = "advance" THEN Tail(Contents) ELSE Contents
Fifo == INSTANCE ByteFifo WITH Capacity <- MsgLength - 1, unread <- Unread, got <- last
ImplementsByteFifo == Fifo!Spec
=============================================================================
