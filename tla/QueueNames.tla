------------------------------ MODULE QueueNames ------------------------------
(***************************************************************************)
(* The name of a message queue on Linux, over the lives of the processes   *)
(* that use it: Mq_open, Mq_unlink and Mq_close of source/pthread/mqueue.c *)
(* as MsgQCreate, MsgQDelete and MsgQNumMsgs of MessageQueue.c call them.  *)
(* The kernel's queues, external, outlive a process as long as the name or *)
(* a descriptor leads to them; a process ends at any point, with MsgQDelete *)
(* or without it, and starts again.  Waiting is in MsgQueue.               *)
(***************************************************************************)
EXTENDS Integers, Sequences

CONSTANTS
  Processes,
  KernelQueues,
  NoKernelQueue,
  Capacity,     \* maxMsgs
  MaxEvents     \* bound: creations and sends

ASSUME NamesAssumption ==
  NoKernelQueue \notin KernelQueues /\ Capacity \in Nat /\ MaxEvents \in Nat

VARIABLES
  named,       \* the queue that the name leads to
  descriptors, \* the descriptors of each process, with their queues
  msgQId,      \* its MSG_QUEUE_ID: a queue, or AII_NULL
  messages,    \* in each queue, each the moment it was sent
  born,        \* history: the moment its MsgQCreate answered with the handle
  moment       \* history: creations and sends so far

namesVars == <<named, descriptors, msgQId, messages, born, moment>>

NamesInit ==
  /\ named = NoKernelQueue
  /\ descriptors = [p \in Processes |-> {}]
  /\ msgQId = [p \in Processes |-> NoKernelQueue]
  /\ messages = [q \in KernelQueues |-> << >>]
  /\ born = [p \in Processes |-> 0]
  /\ moment = 0

-----------------------------------------------------------------------------
InUse == {named} \cup UNION {descriptors[p] : p \in Processes}
Unused(q) == q \in KernelQueues \ InUse

(* The kernel frees the queues that nothing leads to any more.              *)
FreeUnused ==
  messages' = [q \in KernelQueues |->
                 IF q = named' \/ \E p \in Processes : q \in descriptors'[p]
                   THEN messages[q] ELSE << >>]

(* Answers with the queue of the name; O_EXCL refuses one that is there.    *)
OpenAny(q) == IF named = NoKernelQueue THEN Unused(q) ELSE q = named
OpenNew(q) == named = NoKernelQueue /\ Unused(q)

Mq_open(p, q) ==
  /\ named' = q
  /\ descriptors' = [descriptors EXCEPT ![p] = @ \cup {q}]

(* MsgQCreate, as far as the name goes.                                     *)
QueueCreate(p) ==
  /\ msgQId[p] = NoKernelQueue
  /\ moment < MaxEvents
  /\ \E q \in KernelQueues :
       /\ OpenNew(q)
       /\ Mq_open(p, q)
       /\ msgQId' = [msgQId EXCEPT ![p] = q]
  /\ moment' = moment + 1
  /\ born' = [born EXCEPT ![p] = moment']
  /\ UNCHANGED messages

Mq_unlink == named # NoKernelQueue /\ named' = NoKernelQueue

(* MsgQDelete frees the MSG_QUEUE_ID and takes the name away; the descriptor *)
(* stays.                                                                   *)
QueueDelete(p) ==
  /\ msgQId[p] # NoKernelQueue
  /\ msgQId' = [msgQId EXCEPT ![p] = NoKernelQueue]
  /\ IF named = NoKernelQueue THEN UNCHANGED named ELSE Mq_unlink
  /\ UNCHANGED descriptors
  /\ FreeUnused
  /\ UNCHANGED <<born, moment>>

(* A process that opens a queue by its name for a descriptor only.          *)
OpenExisting(p) ==
  /\ named # NoKernelQueue
  /\ Mq_open(p, named)
  /\ UNCHANGED <<msgQId, messages, born, moment>>

Mq_close(p, q) ==
  /\ q \in descriptors[p] /\ q # msgQId[p]
  /\ descriptors' = [descriptors EXCEPT ![p] = @ \ {q}]
  /\ UNCHANGED <<named, msgQId, born, moment>>
  /\ FreeUnused

(* A process that starts takes away the name an earlier life left.          *)
Sweep ==
  /\ Mq_unlink
  /\ UNCHANGED descriptors
  /\ FreeUnused
  /\ UNCHANGED <<msgQId, born, moment>>

(* The kernel closes the descriptors; nobody calls MsgQDelete.              *)
ProcessEnds(p) ==
  /\ descriptors' = [descriptors EXCEPT ![p] = {}]
  /\ msgQId' = [msgQId EXCEPT ![p] = NoKernelQueue]
  /\ UNCHANGED <<named, born, moment>>
  /\ FreeUnused

-----------------------------------------------------------------------------
Mq_getattr(q) == [mq_maxmsg |-> Capacity, mq_curmsgs |-> Len(messages[q])]
MsgQNumMsgs(q) == Mq_getattr(q).mq_curmsgs

Mq_send(p, q) ==
  /\ q \in descriptors[p]
  /\ MsgQNumMsgs(q) < Mq_getattr(q).mq_maxmsg
  /\ moment < MaxEvents
  /\ moment' = moment + 1
  /\ messages' = [messages EXCEPT ![q] = Append(@, moment')]
  /\ UNCHANGED <<named, descriptors, msgQId, born>>

Mq_receive(p, q) ==
  /\ q \in descriptors[p]
  /\ MsgQNumMsgs(q) > 0
  /\ messages' = [messages EXCEPT ![q] = Tail(@)]
  /\ UNCHANGED <<named, descriptors, msgQId, born, moment>>

NamesNext ==
  \/ Sweep
  \/ \E p \in Processes :
       \/ QueueCreate(p) \/ QueueDelete(p) \/ OpenExisting(p) \/ ProcessEnds(p)
       \/ \E q \in KernelQueues : Mq_close(p, q) \/ Mq_send(p, q) \/ Mq_receive(p, q)

NamesSpec == NamesInit /\ [][NamesNext]_namesVars

-----------------------------------------------------------------------------
(* A queue that MsgQCreate answers with is a new one: nothing in it was     *)
(* sent before, in an earlier life of the process or by one that still      *)
(* holds the queue of that name, and two creators never share it.           *)
CreatedIsNew ==
  /\ \A p \in Processes : msgQId[p] # NoKernelQueue =>
       \A i \in 1 .. MsgQNumMsgs(msgQId[p]) : messages[msgQId[p]][i] > born[p]
  /\ \A p, r \in Processes : p # r /\ msgQId[p] # NoKernelQueue => msgQId[p] # msgQId[r]
=============================================================================
