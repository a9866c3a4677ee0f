------------------------------- MODULE MsgQueue -------------------------------
(***************************************************************************)
(* The message queue of source/MessageQueue/MessageQueue.c: on Linux over  *)
(* the wrappers of source/pthread/mqueue.c and POSIX queues, on VxWorks    *)
(* over msgQLib.  The queues themselves are external; what the library     *)
(* adds on Linux is how a waiting time becomes a call: MsgQSend sets or    *)
(* clears O_NONBLOCK and then sends, and the flag belongs to the open      *)
(* description that every user of the MSG_QUEUE_ID shares.                 *)
(*                                                                         *)
(* Callers use a MSG_QUEUE_ID that was created and not deleted, and delete *)
(* a queue when nobody is on the way into a call; threads blocked on it    *)
(* may be there.  Time is abstract: a timed wait ends at any moment.       *)
(***************************************************************************)
EXTENDS Integers, Sequences, FiniteSets, SequencesExt

CONSTANTS
  QueueUsers,     \* threads
  Queues,         \* the queues the kernel can hold
  NoQueue,        \* AII_NULL
  QueuePlatforms, \* one of them is chosen at the start
  SendWaits,      \* SendWaits[p]: the timeTick arguments of MsgQSend on platform p
  ReceiveWaits,   \* ReceiveWaits[p]: those of MsgQReceive
  MaxMsgs,        \* the queue's capacity
  MaxSends        \* bound on the messages a queue accepts, less the senders waiting

TimeTicks == {"NO_WAIT", "WAIT_FOREVER", "TIMED"}
MSG_PRI_NORMAL == 0
MSG_PRI_URGENT == 1
MsgPriorities == {MSG_PRI_NORMAL, MSG_PRI_URGENT}

ASSUME MsgQueueAssumption ==
  /\ NoQueue \notin Queues
  /\ QueuePlatforms \subseteq {"LINUX", "VXWORKS"}
  /\ \A p \in QueuePlatforms : SendWaits[p] \subseteq TimeTicks /\ ReceiveWaits[p] \subseteq TimeTicks
  /\ MaxMsgs \in Nat \ {0}
  /\ MaxSends \in Nat

VARIABLES
  queueOs,     \* the platform
  queueId,     \* the MSG_QUEUE_ID the threads share, or NoQueue
  open,        \* the kernel queues that exist: named, or with an open description
  content,     \* the messages in each kernel queue, first the next to be received
  nonblock,    \* O_NONBLOCK in the queue's open description
  lastSetting, \* history: the last sender to set or clear the flag, and its waiting time
  accepted,    \* how many messages each queue has accepted
  way,         \* "idle", "call" on the way into the kernel, or "blocked" there
  call         \* the arguments of each thread's call

msgQKernel == <<open, content, nonblock, lastSetting, accepted>>
msgQVars == <<queueOs, queueId, msgQKernel, way, call>>

Args == [op : {"send", "receive"}, q : Queues, wait : TimeTicks, pri : MsgPriorities]
Messages == [pri : MsgPriorities, no : Nat]

NoArg == [op |-> "none"]

NeverSet == [by |-> {}, wait |-> "NEVER"]
Settings == [by : SUBSET QueueUsers, wait : {"NEVER", "NO_WAIT", "WAIT_FOREVER"}]

MsgQTypeOK ==
  /\ queueOs \in QueuePlatforms
  /\ queueId \in Queues \cup {NoQueue}
  /\ open \subseteq Queues
  /\ content \in [Queues -> Seq(Messages)]
  /\ nonblock \in [Queues -> BOOLEAN]
  /\ lastSetting \in [Queues -> Settings]
  /\ accepted \in [Queues -> Nat]
  /\ way \in [QueueUsers -> {"idle", "call", "blocked"}]
  /\ call \in [QueueUsers -> Args \cup {NoArg}]
  /\ \A t \in QueueUsers : way[t] # "idle" => call[t] \in Args

MsgQInit ==
  /\ queueOs \in QueuePlatforms
  /\ queueId = NoQueue
  /\ open = {}
  /\ content = [q \in Queues |-> <<>>]
  /\ nonblock = [q \in Queues |-> FALSE]
  /\ lastSetting = [q \in Queues |-> NeverSet]
  /\ accepted = [q \in Queues |-> 0]
  /\ way = [t \in QueueUsers |-> "idle"]
  /\ call = [t \in QueueUsers |-> NoArg]

-----------------------------------------------------------------------------
MsgQCreate(q) ==
  /\ queueId = NoQueue
  /\ q \notin open
  /\ queueId' = q
  /\ open' = open \cup {q}
  /\ content' = [content EXCEPT ![q] = <<>>]
  /\ nonblock' = [nonblock EXCEPT ![q] = FALSE]
  /\ lastSetting' = [lastSetting EXCEPT ![q] = NeverSet]
  /\ accepted' = [accepted EXCEPT ![q] = 0]
  /\ UNCHANGED <<queueOs, way, call>>

(* mq_unlink takes the name away; the open description, which only mq_close *)
(* would end, keeps the queue.  msgQDelete ends the queue and every wait.   *)
OpenAfterDelete == IF queueOs = "LINUX" THEN open ELSE open \ {queueId}

MsgQDelete ==
  /\ queueId # NoQueue
  /\ \A t \in QueueUsers : way[t] # "call"
  /\ open' = OpenAfterDelete
  /\ queueId' = NoQueue
  /\ IF queueId \in open'
       THEN UNCHANGED <<way, call>>
       ELSE LET woken == {t \in QueueUsers : way[t] = "blocked" /\ call[t].q = queueId} IN
            /\ way' = [t \in QueueUsers |-> IF t \in woken THEN "idle" ELSE way[t]]
            /\ call' = [t \in QueueUsers |-> IF t \in woken THEN NoArg ELSE call[t]]
  /\ UNCHANGED <<queueOs, content, nonblock, lastSetting, accepted>>

-----------------------------------------------------------------------------
Call(t, a) ==
  /\ way[t] = "idle"
  /\ queueId # NoQueue
  /\ way' = [way EXCEPT ![t] = "call"]
  /\ call' = [call EXCEPT ![t] = a]

CallOver(t) ==
  /\ way' = [way EXCEPT ![t] = "idle"]
  /\ call' = [call EXCEPT ![t] = NoArg]
  /\ UNCHANGED <<queueOs, queueId, open, nonblock, lastSetting>>

(* Mq_send's mq_setattr before mq_send: a timed send leaves the flag alone. *)
FlagNeverCleared(wait, old) == old \/ wait = "NO_WAIT"
Flag(wait, old) ==
  CASE wait = "NO_WAIT"      -> TRUE
    [] wait = "WAIT_FOREVER" -> FALSE
    [] wait = "TIMED"        -> old

MsgQSend(t, wait, pri) ==
  /\ Call(t, [op |-> "send", q |-> queueId, wait |-> wait, pri |-> pri])
  /\ accepted[queueId] < MaxSends
  /\ nonblock' = IF queueOs = "LINUX"
                   THEN [nonblock EXCEPT ![queueId] = Flag(wait, @)]
                   ELSE nonblock
  /\ lastSetting' = IF queueOs = "LINUX" /\ wait # "TIMED"
                      THEN [lastSetting EXCEPT ![queueId] = [by |-> {t}, wait |-> wait]]
                      ELSE lastSetting
  /\ UNCHANGED <<queueOs, queueId, open, content, accepted>>

MsgQReceive(t, wait) ==
  /\ Call(t, [op |-> "receive", q |-> queueId, wait |-> wait, pri |-> MSG_PRI_NORMAL])
  /\ UNCHANGED <<queueOs, queueId, msgQKernel>>

-----------------------------------------------------------------------------
(* In the kernel.                                                           *)

Ready(t) ==
  IF call[t].op = "send" THEN Len(content[call[t].q]) < MaxMsgs
                        ELSE content[call[t].q] # <<>>

(* A call that cannot go on at once gives up instead of waiting: mq_send,   *)
(* mq_receive and their timed forms when the flag is set; and Mq_receive    *)
(* turns NO_WAIT into mq_timedreceive until now.                            *)
GivesUp(t) ==
  IF queueOs = "LINUX"
    THEN nonblock[call[t].q] \/ (call[t].op = "receive" /\ call[t].wait = "NO_WAIT")
    ELSE call[t].wait = "NO_WAIT"

(* The priority MsgQSend passes on.                                         *)
PassedAsNormal(t) == MSG_PRI_NORMAL
Passed(t) == call[t].pri

(* Where the kernel puts a message of priority p in s: on Linux behind the  *)
(* last one with a priority as high, on VxWorks to the tail or to the head. *)
Place(s, p) ==
  CASE queueOs = "LINUX"   ->
         {k \in 1..Len(s) + 1 : /\ \A i \in 1..k - 1 : s[i].pri >= p
                                /\ \A i \in k..Len(s) : s[i].pri < p}
    [] queueOs = "VXWORKS" -> {IF p = MSG_PRI_URGENT THEN 1 ELSE Len(s) + 1}

Put(t) ==
  /\ way[t] # "idle"
  /\ call[t].op = "send"
  /\ Ready(t)
  /\ LET q == call[t].q
         m == [pri |-> call[t].pri, no |-> accepted[q] + 1] IN
     /\ \E k \in Place(content[q], Passed(t)) :
          content' = [content EXCEPT ![q] = InsertAt(@, k, m)]
     /\ accepted' = [accepted EXCEPT ![q] = @ + 1]
  /\ CallOver(t)

Get(t) ==
  /\ way[t] # "idle"
  /\ call[t].op = "receive"
  /\ Ready(t)
  /\ content' = [content EXCEPT ![call[t].q] = Tail(@)]
  /\ CallOver(t)
  /\ UNCHANGED accepted

GiveUp(t) ==
  /\ way[t] = "call"
  /\ ~Ready(t)
  /\ GivesUp(t)
  /\ CallOver(t)
  /\ UNCHANGED <<content, accepted>>

Block(t) ==
  /\ way[t] = "call"
  /\ ~Ready(t)
  /\ ~GivesUp(t)
  /\ way' = [way EXCEPT ![t] = "blocked"]
  /\ UNCHANGED <<queueOs, queueId, msgQKernel, call>>

TimeUp(t) ==
  /\ way[t] = "blocked"
  /\ call[t].wait = "TIMED"
  /\ ~Ready(t)
  /\ CallOver(t)
  /\ UNCHANGED <<content, accepted>>

-----------------------------------------------------------------------------
MsgQNext ==
  \/ \E q \in Queues : MsgQCreate(q)
  \/ MsgQDelete
  \/ \E t \in QueueUsers :
       \/ \E wait \in SendWaits[queueOs], pri \in MsgPriorities : MsgQSend(t, wait, pri)
       \/ \E wait \in ReceiveWaits[queueOs] : MsgQReceive(t, wait)
       \/ Put(t) \/ Get(t) \/ GiveUp(t) \/ Block(t) \/ TimeUp(t)

MsgQSpec == MsgQInit /\ [][MsgQNext]_msgQVars

-----------------------------------------------------------------------------
(* Properties.                                                              *)

(* "NO_WAIT, this routine return immediately" (MessageQueue.c:111, 147): no *)
(* call without a waiting time ends up in a kernel wait, whatever the other *)
(* threads do to the shared flag between its mq_setattr and its mq_send.    *)
NoWaitNeverBlocks ==
  \A t \in QueueUsers : way[t] = "blocked" => call[t].wait # "NO_WAIT"

(* NO_WAIT returns at once, and the others block while the queue is full or *)
(* empty (MessageQueue.c:110-112, 146-148), unless the flag stands against  *)
(* the call on Linux: then the last to set it (mqueue.c:105, 121) asked for *)
(* the opposite, after a sender's own setting, so another thread did, and   *)
(* nothing was set for this queue but by the calls on it since its creation.*)
WaitsAsAsked ==
  [][\A t \in QueueUsers :
       LET setter == lastSetting[call[t].q] IN
       /\ Block(t) /\ call[t].wait = "NO_WAIT" =>
            setter.wait = "WAIT_FOREVER" /\ t \notin setter.by
       /\ GiveUp(t) /\ call[t].wait # "NO_WAIT" =>
            /\ setter.wait = "NO_WAIT"
            /\ call[t].op = "send" /\ call[t].wait = "WAIT_FOREVER" => t \notin setter.by]_msgQVars

(* "High priority added before low ones" (MessageQueue.c:29): what is asked *)
(* for as urgent is received before everything normal.                      *)
UrgentFirst ==
  \A q \in Queues : \A i, j \in 1..Len(content[q]) :
    i < j => content[q][i].pri >= content[q][j].pri

(* "add the message to the tail of the queue" (MessageQueue.c:114): normal  *)
(* messages are received as accepted, whoever waited in between.            *)
NormalIsFifo ==
  \A q \in Queues : \A i, j \in 1..Len(content[q]) :
    i < j /\ content[q][i].pri = MSG_PRI_NORMAL /\ content[q][j].pri = MSG_PRI_NORMAL
      => content[q][i].no < content[q][j].no

(* What MsgQSend's two priorities promise on both platforms                 *)
(* (MessageQueue.c:28-29, 113-115).  Among urgent messages it is silent:    *)
(* line 29 asks for fifo, as Linux does, line 115 for the head of the queue,*)
(* as VxWorks does.                                                         *)
MessagesInOrder == UrgentFirst /\ NormalIsFifo
=============================================================================
