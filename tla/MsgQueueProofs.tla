--------------------------- MODULE MsgQueueProofs ----------------------------
(***************************************************************************)
(* Proofs about the two message queues: MsgQueue for any number of threads *)
(* and queues and any capacity, RingQueue for any ring and messages of any *)
(* length, which is also shown to implement ByteFifo.                      *)
(***************************************************************************)
EXTENDS MsgQueue, RingQueue, SequenceTheorems, TLAPS

-----------------------------------------------------------------------------
(* MsgQueue: who can stand behind a flag that is against a call, and the    *)
(* order of the messages, on both platforms and for any waiting times.      *)

(* The flag is what the last setting left.                                  *)
FlagAsSet == \A q \in Queues : nonblock[q] <=> lastSetting[q].wait = "NO_WAIT"

SetsFlag(t) ==
  queueOs = "LINUX" /\ call[t].op = "send" /\ call[t].wait # "TIMED"

(* A call on its way is for the queue that is in use; a sender's setting    *)
(* stands, or another sender's has come after it.                           *)
OnTheWay(t) ==
  way[t] = "call" =>
    /\ call[t].q = queueId
    /\ SetsFlag(t) =>
         /\ lastSetting[queueId].wait # "NEVER"
         /\ t \in lastSetting[queueId].by => lastSetting[queueId].wait = call[t].wait

WaitingModes == FlagAsSet /\ \A t \in QueueUsers : OnTheWay(t)

(* What a queue's content may look like: higher priorities first, numbers   *)
(* up to n, rising among the normal messages.                               *)
KeepsFifo(pri) == pri = MSG_PRI_NORMAL
Sorted(s) == \A i, j \in 1..Len(s) : i < j => s[i].pri >= s[j].pri
UpTo(s, n) == \A i \in 1..Len(s) : s[i].no <= n
Rising(s) ==
  \A i, j \in 1..Len(s) :
    i < j /\ s[i].pri = s[j].pri /\ KeepsFifo(s[i].pri) => s[i].no < s[j].no

Ordered(s, n) == Sorted(s) /\ UpTo(s, n) /\ Rising(s)

MsgQInv ==
  /\ MsgQTypeOK
  /\ WaitingModes
  /\ \A q \in Queues : Ordered(content[q], accepted[q])

-----------------------------------------------------------------------------
(* InsertAt makes room at position k.                                       *)
LEMMA InsertAtProperties ==
  ASSUME NEW S, NEW s \in Seq(S), NEW k \in 1..Len(s) + 1, NEW e \in S
  PROVE  /\ InsertAt(s, k, e) \in Seq(S)
         /\ Len(InsertAt(s, k, e)) = Len(s) + 1
         /\ \A i \in 1..Len(s) + 1 :
              InsertAt(s, k, e)[i] = IF i < k THEN s[i] ELSE IF i = k THEN e ELSE s[i - 1]
<1> DEFINE a == SubSeq(s, 1, k - 1)
           b == SubSeq(s, k, Len(s))
<1>0. Len(s) \in Nat /\ k \in Int
  OBVIOUS
<1>1. a \in Seq(S) /\ Len(a) = k - 1 /\ \A i \in 1..k - 1 : a[i] = s[i]
  BY <1>0
<1>2. b \in Seq(S) /\ Len(b) = Len(s) - k + 1 /\ \A i \in 1..Len(s) - k + 1 : b[i] = s[k + i - 1]
  BY <1>0
<1> DEFINE o == <<e>>
           c == a \o o
<1>3. o \in Seq(S) /\ Len(o) = 1 /\ o[1] = e
  OBVIOUS
<1> HIDE DEF a, b, o
<1>4. /\ c \in Seq(S)
      /\ Len(c) = Len(a) + Len(o)
      /\ \A i \in 1..Len(a) + Len(o) : c[i] = IF i <= Len(a) THEN a[i] ELSE o[i - Len(a)]
  BY <1>1, <1>2, <1>3, ConcatProperties
<1>5. Len(c) = k /\ \A i \in 1..k : c[i] = IF i < k THEN s[i] ELSE e
  BY <1>0, <1>1, <1>3, <1>4
<1> HIDE DEF c
<1>6. /\ c \o b \in Seq(S)
      /\ Len(c \o b) = Len(c) + Len(b)
      /\ \A i \in 1..Len(c) + Len(b) : (c \o b)[i] = IF i <= Len(c) THEN c[i] ELSE b[i - Len(c)]
  <2>1. c \in Seq(S) /\ b \in Seq(S)
    BY <1>2, <1>4
  <2> QED BY <2>1, ConcatProperties
<1>7. InsertAt(s, k, e) = c \o b
  BY DEF InsertAt, a, b, c, o
<1> QED
  BY <1>0, <1>2, <1>5, <1>6, <1>7

LEMMA PutKeepsOrder ==
  ASSUME NEW s \in Seq(Messages), NEW n \in Nat, NEW p \in MsgPriorities,
         NEW k \in Place(s, p), queueOs \in {"LINUX", "VXWORKS"},
         Sorted(s), UpTo(s, n), Rising(s)
  PROVE  LET r == InsertAt(s, k, [pri |-> p, no |-> n + 1]) IN
         /\ r \in Seq(Messages)
         /\ Sorted(r) /\ UpTo(r, n + 1) /\ Rising(r)
<1> DEFINE m == [pri |-> p, no |-> n + 1]
           r == InsertAt(s, k, m)
<1>1. m \in Messages /\ m.pri = p /\ m.no = n + 1
  BY DEF Messages
<1>2. k \in 1..Len(s) + 1 /\ Len(s) \in Nat
  BY DEF Place
<1>3. \A i \in 1..Len(s) : s[i] \in Messages /\ s[i].pri \in {0, 1} /\ s[i].no \in Nat
  <2> TAKE i \in 1..Len(s)
  <2>1. s[i] \in Messages
    BY ElementOfSeq
  <2> QED BY <2>1 DEF Messages, MsgPriorities, MSG_PRI_NORMAL, MSG_PRI_URGENT
<1>4. p \in {0, 1}
  BY DEF MsgPriorities, MSG_PRI_NORMAL, MSG_PRI_URGENT
<1>5. /\ \A i \in 1..k - 1 : s[i].pri >= p
      /\ \A i \in k..Len(s) : s[i].pri <= p
      /\ KeepsFifo(p) => \A i \in k..Len(s) : s[i].pri < p
  <2>1. CASE queueOs = "LINUX"
    <3>1. /\ \A i \in 1..k - 1 : s[i].pri >= p
          /\ \A i \in k..Len(s) : s[i].pri < p
      BY <2>1 DEF Place
    <3> QED BY <3>1, <1>2, <1>3, <1>4
  <2>2. CASE queueOs = "VXWORKS" /\ p = MSG_PRI_URGENT
    <3>1. k = 1
      BY <2>2 DEF Place
    <3>2. ~KeepsFifo(p)
      BY <2>2 DEF KeepsFifo, MSG_PRI_NORMAL, MSG_PRI_URGENT
    <3> QED BY <3>1, <3>2, <2>2, <1>2, <1>3 DEF MSG_PRI_URGENT
  <2>3. CASE queueOs = "VXWORKS" /\ p # MSG_PRI_URGENT
    <3>1. k = Len(s) + 1 /\ p = 0
      BY <2>3, <1>4 DEF Place, MSG_PRI_URGENT
    <3> QED BY <3>1, <1>2, <1>3
  <2> QED BY <2>1, <2>2, <2>3
<1> HIDE DEF m
<1> HIDE DEF r
<1>6. /\ r \in Seq(Messages) /\ Len(r) = Len(s) + 1
      /\ \A i \in 1..Len(s) + 1 : r[i] = IF i < k THEN s[i] ELSE IF i = k THEN m ELSE s[i - 1]
  <2>1. m \in Messages /\ k \in 1..Len(s) + 1
    BY <1>1, <1>2
  <2>2. /\ InsertAt(s, k, m) \in Seq(Messages)
        /\ Len(InsertAt(s, k, m)) = Len(s) + 1
        /\ \A i \in 1..Len(s) + 1 :
             InsertAt(s, k, m)[i] = IF i < k THEN s[i] ELSE IF i = k THEN m ELSE s[i - 1]
    BY <2>1, InsertAtProperties
  <2> QED BY <2>2 DEF r
<1>7. Sorted(r)
  <2> SUFFICES ASSUME NEW i \in 1..Len(r), NEW j \in 1..Len(r), i < j
               PROVE  r[i].pri >= r[j].pri
    BY DEF Sorted
  <2>1. CASE i = k
    <3>1. r[i] = m /\ r[j] = s[j - 1] /\ j - 1 \in k..Len(s)
      BY <2>1, <1>2, <1>6
    <3> QED BY <3>1, <1>1, <1>3, <1>4, <1>5
  <2>2. CASE j = k
    <3>1. r[j] = m /\ r[i] = s[i] /\ i \in 1..k - 1
      BY <2>2, <1>2, <1>6
    <3> QED BY <3>1, <1>1, <1>3, <1>4, <1>5
  <2>3. CASE i # k /\ j # k
    <3> DEFINE x == IF i < k THEN i ELSE i - 1
               y == IF j < k THEN j ELSE j - 1
    <3>1. i \in Int /\ j \in Int /\ k \in Int /\ i \in 1..Len(s) + 1 /\ j \in 1..Len(s) + 1
      BY <1>2, <1>6
    <3>2. x \in 1..Len(s) /\ y \in 1..Len(s) /\ x < y
      BY <2>3, <3>1, <1>2
    <3>3. r[i] = s[x] /\ r[j] = s[y]
      BY <2>3, <3>1, <1>6
    <3> QED BY <3>2, <3>3 DEF Sorted
  <2> QED BY <2>1, <2>2, <2>3
<1>8. UpTo(r, n + 1)
  <2> SUFFICES ASSUME NEW i \in 1..Len(r) PROVE r[i].no <= n + 1
    BY DEF UpTo
  <2>1. CASE i = k
    BY <2>1, <1>1, <1>6
  <2>2. CASE i < k
    <3>1. r[i] = s[i] /\ i \in 1..Len(s)
      BY <2>2, <1>2, <1>6
    <3> QED BY <3>1, <1>3 DEF UpTo
  <2>3. CASE i > k
    <3>1. r[i] = s[i - 1] /\ i - 1 \in 1..Len(s)
      BY <2>3, <1>2, <1>6
    <3> QED BY <3>1, <1>3 DEF UpTo
  <2> QED BY <1>2, <2>1, <2>2, <2>3
<1>9. Rising(r)
  <2> SUFFICES ASSUME NEW i \in 1..Len(r), NEW j \in 1..Len(r),
                      i < j, r[i].pri = r[j].pri, KeepsFifo(r[i].pri)
               PROVE  r[i].no < r[j].no
    BY DEF Rising
  <2>1. CASE i = k
    <3>1. r[i] = m /\ r[j] = s[j - 1] /\ j - 1 \in k..Len(s)
      BY <2>1, <1>2, <1>6
    <3> QED BY <3>1, <1>1, <1>3, <1>4, <1>5
  <2>2. CASE j = k
    <3>1. r[j] = m /\ r[i] = s[i] /\ i \in 1..Len(s)
      BY <2>2, <1>2, <1>6
    <3> QED BY <3>1, <1>1, <1>3 DEF UpTo
  <2>3. CASE i # k /\ j # k
    <3> DEFINE x == IF i < k THEN i ELSE i - 1
               y == IF j < k THEN j ELSE j - 1
    <3>1. i \in Int /\ j \in Int /\ k \in Int /\ i \in 1..Len(s) + 1 /\ j \in 1..Len(s) + 1
      BY <1>2, <1>6
    <3>2. x \in 1..Len(s) /\ y \in 1..Len(s) /\ x < y
      BY <2>3, <3>1, <1>2
    <3>3. r[i] = s[x] /\ r[j] = s[y]
      BY <2>3, <3>1, <1>6
    <3> QED BY <3>2, <3>3 DEF Rising
  <2> QED BY <2>1, <2>2, <2>3
<1> QED
  BY <1>6, <1>7, <1>8, <1>9 DEF r, m

LEMMA TailKeepsOrder ==
  ASSUME NEW s \in Seq(Messages), s # <<>>, NEW n \in Nat
  PROVE  /\ Tail(s) \in Seq(Messages)
         /\ Sorted(s) => Sorted(Tail(s))
         /\ UpTo(s, n) => UpTo(Tail(s), n)
         /\ Rising(s) => Rising(Tail(s))
<1> DEFINE r == Tail(s)
<1>1. /\ r \in Seq(Messages) /\ Len(r) = Len(s) - 1 /\ Len(s) \in Nat
      /\ \A i \in 1..Len(r) : r[i] = s[i + 1]
  BY HeadTailProperties
<1> HIDE DEF r
<1>2. Sorted(s) => Sorted(r)
  BY <1>1 DEF Sorted
<1>3. UpTo(s, n) => UpTo(r, n)
  BY <1>1 DEF UpTo
<1>4. ASSUME Rising(s), NEW i \in 1..Len(r), NEW j \in 1..Len(r),
             i < j, r[i].pri = r[j].pri, KeepsFifo(r[i].pri)
      PROVE  r[i].no < r[j].no
  <2>1. /\ i + 1 \in 1..Len(s) /\ j + 1 \in 1..Len(s) /\ i + 1 < j + 1
        /\ r[i] = s[i + 1] /\ r[j] = s[j + 1]
    BY <1>1, <1>4
  <2> QED BY <2>1, <1>4 DEF Rising
<1>5. Rising(s) => Rising(r)
  BY <1>4 DEF Rising
<1> QED
  BY <1>1, <1>2, <1>3, <1>5 DEF r

LEMMA EmptyIsOrdered ==
  /\ <<>> \in Seq(Messages)
  /\ Sorted(<<>>) /\ UpTo(<<>>, 0) /\ Rising(<<>>)
BY DEF Sorted, UpTo, Rising

(* The next content of a queue is ordered when it is s, and s is ordered.   *)
LEMMA OrderedNext ==
  ASSUME NEW s, NEW n, Ordered(s, n), NEW x, queueOs' = queueOs,
         content'[x] = s, accepted'[x] = n
  PROVE  Ordered(content[x], accepted[x])'
<1>1. Sorted(content[x])' /\ UpTo(content[x], accepted[x])'
  BY DEF Ordered, Sorted, UpTo
<1>2. Rising(content[x])'
  <2>1. \A p : KeepsFifo(p)' <=> KeepsFifo(p)
    BY DEF KeepsFifo
  <2> QED BY <2>1 DEF Ordered, Rising
<1> QED
  BY <1>1, <1>2 DEF Ordered

-----------------------------------------------------------------------------
(* A new queue's flag was set by nobody.                                    *)
LEMMA NeverIsASetting == NeverSet \in Settings
BY DEF NeverSet, Settings

LEMMA MsgQStarts == MsgQInit => MsgQInv
<1> SUFFICES ASSUME MsgQInit PROVE MsgQInv
  OBVIOUS
<1>1. MsgQTypeOK
  BY EmptyIsOrdered, NeverIsASetting DEF MsgQInit, MsgQTypeOK
<1>2. \A q \in Queues : Ordered(content[q], accepted[q])
  BY EmptyIsOrdered DEF MsgQInit, Ordered
<1> QED
  BY <1>1, <1>2 DEF MsgQInit, MsgQInv, WaitingModes, FlagAsSet, OnTheWay, NeverSet

LEMMA CreateKeeps ==
  ASSUME MsgQInv, NEW q \in Queues, MsgQCreate(q)
  PROVE  MsgQInv'
<1>1. MsgQTypeOK'
  BY EmptyIsOrdered, NeverIsASetting DEF MsgQInv, MsgQTypeOK, MsgQCreate
<1>2. \A x \in Queues : Ordered(content[x], accepted[x])'
  <2> TAKE x \in Queues
  <2>1. content'[x] = (IF x = q THEN <<>> ELSE content[x]) /\ queueOs' = queueOs
    BY DEF MsgQInv, MsgQTypeOK, MsgQCreate
  <2>2. accepted'[x] = IF x = q THEN 0 ELSE accepted[x]
    BY DEF MsgQInv, MsgQTypeOK, MsgQCreate
  <2>3. CASE x = q
    <3>1. Ordered(<<>>, 0)
      BY EmptyIsOrdered DEF Ordered
    <3> QED BY <2>1, <2>2, <2>3, <3>1, OrderedNext
  <2>4. CASE x # q
    <3>1. Ordered(content[x], accepted[x])
      BY DEF MsgQInv
    <3> QED BY <2>1, <2>2, <2>4, <3>1, OrderedNext
  <2> QED BY <2>3, <2>4
<1>3. \A t \in QueueUsers : way'[t] # "call"
  BY MsgQueueAssumption DEF MsgQInv, MsgQTypeOK, MsgQCreate, WaitingModes, OnTheWay, Args
<1>4. WaitingModes'
  BY <1>3 DEF MsgQInv, MsgQTypeOK, MsgQCreate, WaitingModes, FlagAsSet, OnTheWay, NeverSet
<1> QED
  BY <1>1, <1>2, <1>4 DEF MsgQInv

(* What is left alone stays ordered.                                        *)
LEMMA SameContent ==
  ASSUME MsgQInv, UNCHANGED <<queueOs, content, accepted>>
  PROVE  \A q \in Queues : Ordered(content[q], accepted[q])'
<1> TAKE q \in Queues
<1>1. Ordered(content[q], accepted[q])
  BY DEF MsgQInv
<1> QED
  BY <1>1, OrderedNext

LEMMA DeleteKeeps ==
  ASSUME MsgQInv, MsgQDelete
  PROVE  MsgQInv'
<1>1. UNCHANGED <<queueOs, content, nonblock, lastSetting, accepted>>
  BY DEF MsgQDelete
<1>2. \A t \in QueueUsers : (way'[t] = way[t] /\ call'[t] = call[t]) \/ way'[t] = "idle"
  BY DEF MsgQInv, MsgQTypeOK, MsgQDelete
<1>3. MsgQTypeOK'
  <2>1. open' \subseteq Queues
    BY DEF MsgQInv, MsgQTypeOK, MsgQDelete, OpenAfterDelete
  <2>2. queueId' \in Queues \cup {NoQueue}
    BY DEF MsgQDelete
  <2>3. way' \in [QueueUsers -> {"idle", "call", "blocked"}]
    BY DEF MsgQInv, MsgQTypeOK, MsgQDelete
  <2>4. call' \in [QueueUsers -> Args \cup {NoArg}]
    BY DEF MsgQInv, MsgQTypeOK, MsgQDelete
  <2> QED BY <1>1, <1>2, <2>1, <2>2, <2>3, <2>4 DEF MsgQInv, MsgQTypeOK
<1>4. WaitingModes'
  <2>1. \A t \in QueueUsers : way'[t] # "call"
    BY <1>2 DEF MsgQDelete
  <2> QED BY <1>1, <2>1 DEF MsgQInv, WaitingModes, FlagAsSet, OnTheWay
<1> QED
  BY <1>1, <1>3, <1>4, SameContent DEF MsgQInv

LEMMA SendKeeps ==
  ASSUME MsgQInv, NEW t \in QueueUsers, NEW wait \in SendWaits[queueOs],
         NEW pri \in MsgPriorities, MsgQSend(t, wait, pri)
  PROVE  MsgQInv'
<1>1. wait \in TimeTicks
  BY MsgQueueAssumption DEF MsgQInv, MsgQTypeOK
<1>2. UNCHANGED <<queueOs, queueId, open, content, accepted>> /\ queueId \in Queues
  BY DEF MsgQSend, Call, MsgQInv, MsgQTypeOK
<1>3. /\ way' = [way EXCEPT ![t] = "call"]
      /\ call' = [call EXCEPT ![t] = [op |-> "send", q |-> queueId, wait |-> wait, pri |-> pri]]
  BY DEF MsgQSend, Call
<1>4. CASE queueOs # "LINUX" \/ wait = "TIMED"
  <2>1. lastSetting' = lastSetting /\ nonblock' = nonblock
    <3>1. nonblock' = nonblock
      BY <1>2, <1>4 DEF MsgQSend, Flag, MsgQInv, MsgQTypeOK
    <3> QED BY <1>4, <3>1 DEF MsgQSend
  <2>2. MsgQTypeOK'
    <3>1. call' \in [QueueUsers -> Args \cup {NoArg}]
           /\ \A u \in QueueUsers : way'[u] # "idle" => call'[u] \in Args
      BY <1>1, <1>2, <1>3 DEF MsgQInv, MsgQTypeOK, Args
    <3> QED BY <1>2, <1>3, <2>1, <3>1 DEF MsgQInv, MsgQTypeOK
  <2>3. WaitingModes'
    BY <1>2, <1>3, <1>4, <2>1 DEF MsgQInv, MsgQTypeOK, WaitingModes, FlagAsSet, OnTheWay, SetsFlag
  <2> QED BY <1>2, <2>2, <2>3, SameContent DEF MsgQInv
<1>5. CASE queueOs = "LINUX" /\ wait # "TIMED"
  <2> DEFINE mine == [by |-> {t}, wait |-> wait]
  <2>1. /\ lastSetting' = [lastSetting EXCEPT ![queueId] = mine]
        /\ nonblock' = [nonblock EXCEPT ![queueId] = (wait = "NO_WAIT")]
    <3>1. lastSetting' = [lastSetting EXCEPT ![queueId] = mine]
      BY <1>5 DEF MsgQSend
    <3>2. Flag(wait, nonblock[queueId]) = (wait = "NO_WAIT")
      BY <1>1, <1>5 DEF Flag, TimeTicks
    <3>3. nonblock' = [nonblock EXCEPT ![queueId] = Flag(wait, nonblock[queueId])]
      BY <1>5 DEF MsgQSend
    <3> QED BY <3>1, <3>2, <3>3
  <2>2. mine \in Settings /\ mine.wait = wait /\ mine.by = {t}
    BY <1>1, <1>5 DEF Settings, TimeTicks
  <2> HIDE DEF mine
  <2>3. MsgQTypeOK'
    <3>1. call' \in [QueueUsers -> Args \cup {NoArg}]
           /\ \A u \in QueueUsers : way'[u] # "idle" => call'[u] \in Args
      BY <1>1, <1>2, <1>3 DEF MsgQInv, MsgQTypeOK, Args
    <3> QED BY <1>2, <1>3, <2>1, <2>2, <3>1 DEF MsgQInv, MsgQTypeOK
  <2>4. FlagAsSet'
    BY <1>2, <2>1, <2>2 DEF MsgQInv, MsgQTypeOK, WaitingModes, FlagAsSet
  <2>5. ASSUME NEW u \in QueueUsers PROVE OnTheWay(u)'
    <3>1. lastSetting'[queueId] = mine /\ queueId' = queueId /\ queueOs' = queueOs
      BY <1>2, <2>1 DEF MsgQInv, MsgQTypeOK
    <3>2. CASE u = t
      BY <1>1, <1>3, <2>2, <3>1, <3>2 DEF OnTheWay, SetsFlag, MsgQInv, MsgQTypeOK, TimeTicks
    <3>3. CASE u # t
      <4>1. way'[u] = way[u] /\ call'[u] = call[u]
        BY <1>3, <3>3 DEF MsgQInv, MsgQTypeOK
      <4>2. OnTheWay(u)
        BY DEF MsgQInv, WaitingModes
      <4> QED BY <1>1, <2>2, <3>1, <3>3, <4>1, <4>2 DEF OnTheWay, SetsFlag, TimeTicks
    <3> QED BY <3>2, <3>3
  <2> QED BY <1>2, <2>3, <2>4, <2>5, SameContent DEF MsgQInv, WaitingModes
<1> QED
  BY <1>4, <1>5

LEMMA ReceiveKeeps ==
  ASSUME MsgQInv, NEW t \in QueueUsers, NEW wait \in ReceiveWaits[queueOs], MsgQReceive(t, wait)
  PROVE  MsgQInv'
<1>1. wait \in TimeTicks
  BY MsgQueueAssumption DEF MsgQInv, MsgQTypeOK
<1>2. UNCHANGED <<queueOs, queueId, msgQKernel>> /\ queueId \in Queues
  BY DEF MsgQReceive, Call, MsgQInv, MsgQTypeOK
<1>3. /\ way' = [way EXCEPT ![t] = "call"]
      /\ call' = [call EXCEPT ![t] = [op |-> "receive", q |-> queueId, wait |-> wait,
                                     pri |-> MSG_PRI_NORMAL]]
  BY DEF MsgQReceive, Call
<1>4. MsgQTypeOK'
  <2>1. call' \in [QueueUsers -> Args \cup {NoArg}]
         /\ \A u \in QueueUsers : way'[u] # "idle" => call'[u] \in Args
    BY <1>1, <1>2, <1>3 DEF MsgQInv, MsgQTypeOK, Args, MsgPriorities
  <2> QED BY <1>2, <1>3, <2>1 DEF MsgQInv, MsgQTypeOK, msgQKernel
<1>5. WaitingModes'
  BY <1>2, <1>3 DEF MsgQInv, MsgQTypeOK, WaitingModes, FlagAsSet, OnTheWay, SetsFlag, msgQKernel
<1> QED
  BY <1>2, <1>4, <1>5, SameContent DEF MsgQInv, msgQKernel

(* A call that ends leaves the other threads' calls alone.                  *)
LEMMA ReturnKeeps ==
  ASSUME MsgQInv, NEW t \in QueueUsers, CallOver(t)
  PROVE  /\ UNCHANGED <<queueOs, queueId, open, nonblock, lastSetting>>
         /\ way' \in [QueueUsers -> {"idle", "call", "blocked"}]
         /\ call' \in [QueueUsers -> Args \cup {NoArg}]
         /\ \A u \in QueueUsers : way'[u] # "idle" => call'[u] \in Args
         /\ WaitingModes'
<1>1. way' = [way EXCEPT ![t] = "idle"] /\ call' = [call EXCEPT ![t] = NoArg]
  BY DEF CallOver
<1>2. UNCHANGED <<queueOs, queueId, open, nonblock, lastSetting>>
  BY DEF CallOver
<1>3. WaitingModes'
  BY <1>1, <1>2 DEF MsgQInv, MsgQTypeOK, WaitingModes, FlagAsSet, OnTheWay, SetsFlag
<1> QED
  BY <1>1, <1>2, <1>3 DEF MsgQInv, MsgQTypeOK

LEMMA PutKeeps ==
  ASSUME MsgQInv, NEW t \in QueueUsers, Put(t)
  PROVE  MsgQInv'
<1>1. PICK q \in Queues, p \in MsgPriorities : q = call[t].q /\ p = call[t].pri
  BY DEF Put, MsgQInv, MsgQTypeOK, Args
<1>2. PICK k \in Place(content[q], p) :
        content' = [content EXCEPT ![q] = InsertAt(content[q], k, [pri |-> p, no |-> accepted[q] + 1])]
  BY <1>1 DEF Put, Passed
<1>3. accepted' = [accepted EXCEPT ![q] = accepted[q] + 1] /\ CallOver(t)
  BY <1>1 DEF Put
<1>4. /\ content[q] \in Seq(Messages) /\ accepted[q] \in Nat
      /\ Ordered(content[q], accepted[q])
      /\ queueOs \in {"LINUX", "VXWORKS"}
  BY MsgQueueAssumption DEF MsgQInv, MsgQTypeOK
<1> DEFINE r == InsertAt(content[q], k, [pri |-> p, no |-> accepted[q] + 1])
<1>5. /\ r \in Seq(Messages) /\ Sorted(r) /\ UpTo(r, accepted[q] + 1)
      /\ Rising(r)
  BY <1>4, PutKeepsOrder DEF Ordered
<1> HIDE DEF r
<1>6. content' = [content EXCEPT ![q] = r]
  BY <1>2 DEF r
<1>7. UNCHANGED <<queueOs, queueId, open, nonblock, lastSetting>>
  BY <1>3, ReturnKeeps
<1>8. ASSUME NEW x \in Queues PROVE Ordered(content[x], accepted[x])'
  <2>1. /\ content'[x] = IF x = q THEN r ELSE content[x]
        /\ accepted'[x] = IF x = q THEN accepted[q] + 1 ELSE accepted[x]
    BY <1>3, <1>6 DEF MsgQInv, MsgQTypeOK
  <2>2. CASE x = q
    <3>1. Ordered(r, accepted[q] + 1)
      BY <1>5 DEF Ordered
    <3> QED BY <1>7, <2>1, <2>2, <3>1, OrderedNext
  <2>3. CASE x # q
    <3>1. Ordered(content[x], accepted[x])
      BY DEF MsgQInv
    <3> QED BY <1>7, <2>1, <2>3, <3>1, OrderedNext
  <2> QED BY <2>2, <2>3
<1>9. MsgQTypeOK'
  BY <1>3, <1>4, <1>5, <1>6, <1>7, ReturnKeeps DEF MsgQInv, MsgQTypeOK
<1> QED
  BY <1>3, <1>8, <1>9, ReturnKeeps DEF MsgQInv

LEMMA GetKeeps ==
  ASSUME MsgQInv, NEW t \in QueueUsers, Get(t)
  PROVE  MsgQInv'
<1>1. PICK q \in Queues : q = call[t].q
  BY DEF Get, MsgQInv, MsgQTypeOK, Args
<1>2. /\ content' = [content EXCEPT ![q] = Tail(content[q])] /\ content[q] # <<>>
      /\ UNCHANGED accepted /\ CallOver(t)
  BY <1>1 DEF Get, Ready
<1>3. /\ content[q] \in Seq(Messages) /\ accepted[q] \in Nat
      /\ Ordered(content[q], accepted[q])
  BY DEF MsgQInv, MsgQTypeOK
<1> DEFINE r == Tail(content[q])
<1>4. /\ r \in Seq(Messages) /\ Sorted(r) /\ UpTo(r, accepted[q])
      /\ Rising(r)
  BY <1>2, <1>3, TailKeepsOrder DEF Ordered
<1>5. content' = [content EXCEPT ![q] = r]
  BY <1>2
<1> HIDE DEF r
<1>6. UNCHANGED <<queueOs, queueId, open, nonblock, lastSetting>>
  BY <1>2, ReturnKeeps
<1>7. ASSUME NEW x \in Queues PROVE Ordered(content[x], accepted[x])'
  <2>1. content'[x] = (IF x = q THEN r ELSE content[x]) /\ accepted'[x] = accepted[x]
    BY <1>2, <1>5 DEF MsgQInv, MsgQTypeOK
  <2>2. CASE x = q
    <3>1. Ordered(r, accepted[q])
      BY <1>4 DEF Ordered
    <3> QED BY <1>6, <2>1, <2>2, <3>1, OrderedNext
  <2>3. CASE x # q
    <3>1. Ordered(content[x], accepted[x])
      BY DEF MsgQInv
    <3> QED BY <1>6, <2>1, <2>3, <3>1, OrderedNext
  <2> QED BY <2>2, <2>3
<1>8. MsgQTypeOK'
  BY <1>2, <1>4, <1>5, <1>6, ReturnKeeps DEF MsgQInv, MsgQTypeOK
<1> QED
  BY <1>2, <1>7, <1>8, ReturnKeeps DEF MsgQInv

(* A call that fails, at once or when its time is up.                       *)
LEMMA FailKeeps ==
  ASSUME MsgQInv, NEW t \in QueueUsers, GiveUp(t) \/ TimeUp(t)
  PROVE  MsgQInv'
<1>1. CallOver(t) /\ UNCHANGED <<content, accepted>>
  BY DEF GiveUp, TimeUp
<1>2. MsgQTypeOK'
  BY <1>1, ReturnKeeps DEF MsgQInv, MsgQTypeOK
<1> QED
  BY <1>1, <1>2, ReturnKeeps, SameContent DEF MsgQInv

LEMMA BlockKeeps ==
  ASSUME MsgQInv, NEW t \in QueueUsers, Block(t)
  PROVE  MsgQInv'
<1>1. way' = [way EXCEPT ![t] = "blocked"] /\ UNCHANGED <<queueOs, queueId, msgQKernel, call>>
  BY DEF Block
<1>2. call[t] \in Args
  BY DEF Block, MsgQInv, MsgQTypeOK
<1>3. MsgQTypeOK'
  BY <1>1, <1>2 DEF MsgQInv, MsgQTypeOK, msgQKernel
<1>4. WaitingModes'
  BY <1>1 DEF MsgQInv, MsgQTypeOK, WaitingModes, FlagAsSet, OnTheWay, SetsFlag, msgQKernel
<1> QED
  BY <1>1, <1>3, <1>4, SameContent DEF MsgQInv, msgQKernel

LEMMA MsgQStepKeeps ==
  ASSUME MsgQInv, [MsgQNext]_msgQVars
  PROVE  MsgQInv'
<1>1. CASE UNCHANGED msgQVars
  <2>1. UNCHANGED <<queueOs, queueId, open, content, nonblock, lastSetting, accepted, way, call>>
    BY <1>1 DEF msgQVars, msgQKernel
  <2>2. MsgQTypeOK'
    BY <2>1 DEF MsgQInv, MsgQTypeOK
  <2>3. WaitingModes'
    BY <2>1 DEF MsgQInv, WaitingModes, FlagAsSet, OnTheWay, SetsFlag
  <2> QED BY <2>1, <2>2, <2>3, SameContent DEF MsgQInv
<1>2. CASE MsgQNext
  BY <1>2, CreateKeeps, DeleteKeeps, SendKeeps, ReceiveKeeps, PutKeeps, GetKeeps,
     FailKeeps, BlockKeeps DEF MsgQNext
<1> QED
  BY <1>1, <1>2

-----------------------------------------------------------------------------
(* The inductive invariant, for any calls of MsgQSend and MsgQReceive       *)
(* (MessageQueue.c:120-169).                                                *)
THEOREM MsgQInductive == MsgQSpec => []MsgQInv
<1>1. MsgQInit => MsgQInv
  BY MsgQStarts
<1>2. MsgQInv /\ [MsgQNext]_msgQVars => MsgQInv'
  BY MsgQStepKeeps
<1> QED
  BY <1>1, <1>2, PTL DEF MsgQSpec

(* A call waits, or does not, as it was asked to (MessageQueue.c:110-112,   *)
(* 146-148), or on Linux another thread's sender asked for the opposite     *)
(* last, after the call's own setting (mqueue.c:105-121): whatever waiting  *)
(* times the callers use.                                                   *)
THEOREM WaitsAreAsAsked == MsgQSpec => WaitsAsAsked
<1> DEFINE Excused(t) ==
      LET setter == lastSetting[call[t].q] IN
      /\ Block(t) /\ call[t].wait = "NO_WAIT" =>
           setter.wait = "WAIT_FOREVER" /\ t \notin setter.by
      /\ GiveUp(t) /\ call[t].wait # "NO_WAIT" =>
           /\ setter.wait = "NO_WAIT"
           /\ call[t].op = "send" /\ call[t].wait = "WAIT_FOREVER" => t \notin setter.by
<1>1. ASSUME MsgQInv, NEW t \in QueueUsers PROVE Excused(t)
  <2> SUFFICES ASSUME Block(t) \/ GiveUp(t) PROVE Excused(t)
    OBVIOUS
  <2>0. OnTheWay(t) /\ FlagAsSet /\ MsgQTypeOK
    <3>1. MsgQTypeOK /\ WaitingModes
      BY <1>1, Zenon DEF MsgQInv
    <3>2. FlagAsSet
      BY <3>1, Zenon DEF WaitingModes
    <3>3. OnTheWay(t)
      BY <3>1, Zenon DEF WaitingModes
    <3> QED BY <3>1, <3>2, <3>3
  <2>1. /\ way[t] = "call" /\ call[t] \in Args /\ call[t].q \in Queues
        /\ call[t].q = queueId /\ OnTheWay(t)
    <3>1. way[t] = "call"
      BY DEF Block, GiveUp
    <3>2. call[t] \in Args /\ call[t].q \in Queues
      BY <2>0, <3>1 DEF MsgQTypeOK, Args
    <3>3. call[t].q = queueId
      BY <2>0, <3>1 DEF OnTheWay
    <3> QED BY <2>0, <3>1, <3>2, <3>3
  <2>2. /\ lastSetting[call[t].q] \in Settings
        /\ nonblock[call[t].q] <=> lastSetting[call[t].q].wait = "NO_WAIT"
    <3>1. lastSetting[call[t].q] \in Settings
      BY <2>0, <2>1 DEF MsgQTypeOK
    <3>2. nonblock[call[t].q] <=> lastSetting[call[t].q].wait = "NO_WAIT"
      BY <2>0, <2>1 DEF FlagAsSet
    <3> QED BY <3>1, <3>2
  <2>3. ASSUME Block(t), call[t].wait = "NO_WAIT"
        PROVE  lastSetting[call[t].q].wait = "WAIT_FOREVER" /\ t \notin lastSetting[call[t].q].by
    <3>1. queueOs = "LINUX" /\ ~nonblock[call[t].q] /\ call[t].op = "send"
      BY <2>1, <2>3 DEF Block, GivesUp, Args
    <3>2. SetsFlag(t)
      BY <2>3, <3>1 DEF SetsFlag
    <3> QED BY <2>1, <2>2, <2>3, <3>1, <3>2 DEF OnTheWay, Settings
  <2>4. ASSUME GiveUp(t), call[t].wait # "NO_WAIT"
        PROVE  /\ lastSetting[call[t].q].wait = "NO_WAIT"
               /\ call[t].op = "send" /\ call[t].wait = "WAIT_FOREVER" => t \notin lastSetting[call[t].q].by
    <3>1. queueOs = "LINUX" /\ nonblock[call[t].q]
      BY <2>4 DEF GiveUp, GivesUp
    <3>2. ASSUME call[t].op = "send", call[t].wait = "WAIT_FOREVER"
          PROVE  t \notin lastSetting[call[t].q].by
      <4>1. SetsFlag(t)
        BY <3>1, <3>2 DEF SetsFlag
      <4> QED BY <2>1, <2>2, <3>1, <3>2, <4>1 DEF OnTheWay
    <3> QED BY <2>2, <3>1, <3>2
  <2> QED BY <2>3, <2>4
<1>2. MsgQInv => [\A t \in QueueUsers : Excused(t)]_msgQVars
  BY <1>1
<1> QED
  BY <1>2, MsgQInductive, PTL DEF MsgQSpec, WaitsAsAsked

(* Urgent messages come before normal ones (MessageQueue.c:29).             *)
THEOREM UrgentIsFirst == MsgQSpec => []UrgentFirst
<1>1. MsgQInv => UrgentFirst
  BY DEF MsgQInv, Ordered, Sorted, UrgentFirst
<1> QED
  BY <1>1, MsgQInductive, PTL

(* Normal messages are in the order of acceptance (MessageQueue.c:29, 114). *)
THEOREM NormalOnesAreFifo == MsgQSpec => []NormalIsFifo
<1>1. MsgQInv => NormalIsFifo
  BY DEF MsgQInv, Ordered, Rising, KeepsFifo, NormalIsFifo
<1> QED
  BY <1>1, MsgQInductive, PTL

(* Both together, as the runs check them.                                   *)
THEOREM OrderIsKept == MsgQSpec => []MessagesInOrder
BY UrgentIsFirst, NormalOnesAreFifo, PTL DEF MessagesInOrder

-----------------------------------------------------------------------------
(* RingQueue: the bytes of a message, from its sender to the receiver.      *)

AByte == [msg : Nat, pos : 1 .. MaxMsgLength]

SendPlaces == {"out", "inside", "test", "wake", "reset", "wait", "wrap", "store", "signal"}
ReceivePlaces == {"out", "test", "wake", "reset", "wait", "wrap", "take", "advance", "signal"}

RingTypes ==
  /\ MsgBuffer \in [0 .. MsgLength - 1 -> AByte]
  /\ HeadIndex \in 0 .. MsgLength /\ RearIndex \in 0 .. MsgLength
  /\ where \in [Workers -> SendPlaces \cup ReceivePlaces]
  /\ \A s \in Senders : where[s] \in SendPlaces
  /\ where[Receiver] \in ReceivePlaces
  /\ left \in [Workers -> 0 .. MaxMsgLength]
  /\ message \in [Workers -> Nat]
  /\ section \in Senders \cup {Nil}
  /\ sends \in Nat
  /\ last \in AByte

(* Where an index that may be one past the end stands in the ring.          *)
Cell(x) == IF x < MsgLength THEN x ELSE x - MsgLength
First == Cell(HeadIndex)
End == Cell(RearIndex)

Held == IF End >= First THEN End - First ELSE MsgLength - (First - End)
Room == MsgLength - 1 - Held

(* Cells whose byte is still to be received.                                *)
Used(j) ==
  IF First <= End THEN First <= j /\ j < End ELSE First <= j \/ j < End

(* Only the task in the section sends.                                      *)
OneSends == \A s \in Senders : where[s] # "out" <=> section = s

(* A message is only begun when all of it fits.                             *)
Begun(s) == left[s] \in 1 .. MaxMsgLength - 1

SendHasRoom ==
  \A s \in Senders :
    /\ where[s] \in {"out", "inside"} => left[s] \in {0, MaxMsgLength}
    /\ where[s] \in {"wake", "reset", "wait"} => left[s] = MaxMsgLength
    /\ where[s] = "test" => left[s] = MaxMsgLength \/ Room >= left[s]
    /\ where[s] \in {"wrap", "store"} => left[s] >= 1 /\ Room >= left[s]
    /\ where[s] = "store" => RearIndex < MsgLength
    /\ where[s] = "signal" => left[s] < MaxMsgLength /\ Room >= left[s]

(* The byte stored last.                                                    *)
Newest == IF Held = 0 THEN last ELSE MsgBuffer[IF End = 0 THEN MsgLength - 1 ELSE End - 1]

Sending == {"test", "wake", "reset", "wait", "wrap", "store"}

NewestIsOfSender ==
  /\ Newest.msg <= sends
  /\ \A s \in Senders :
       /\ message[s] <= sends
       /\ Begun(s) => Newest = [msg |-> message[s], pos |-> MaxMsgLength - left[s]]
       /\ where[s] \in Sending /\ left[s] = MaxMsgLength => Newest.msg < message[s]
  /\ (\A s \in Senders : ~Begun(s)) => Newest.pos = MaxMsgLength

ReceiveHasBytes ==
  LET place == where[Receiver]
      due == left[Receiver]
  IN /\ place = "out" => due \in {0, MaxMsgLength}
     /\ place \in {"wake", "reset", "wait"} => due = MaxMsgLength
     /\ place = "test" => due = MaxMsgLength \/ Held >= due
     /\ place \in {"wrap", "take", "advance"} => due >= 1 /\ Held >= due
     /\ place \in {"take", "advance"} => HeadIndex < MsgLength
     /\ place = "signal" => due < MaxMsgLength /\ Held >= due
     /\ IF place = "advance" THEN last = MsgBuffer[First] /\ last.pos = MaxMsgLength - due + 1
        ELSE last.pos = IF due = MaxMsgLength THEN MaxMsgLength ELSE MaxMsgLength - due

Follows(b, next) ==
  IF b.pos < MaxMsgLength THEN next.msg = b.msg /\ next.pos = b.pos + 1
  ELSE next.msg > b.msg /\ next.pos = 1

(* Each byte in the ring follows the one in the cell before, the first one  *)
(* that which was received last.                                            *)
InOrder ==
  /\ \A j \in 0 .. MsgLength - 1 :
       Used(j) /\ Cell(j + 1) # End => Follows(MsgBuffer[j], MsgBuffer[Cell(j + 1)])
  /\ Held > 0 /\ where[Receiver] # "advance" => Follows(last, MsgBuffer[First])

RingInv ==
  /\ RingTypes
  /\ OneSends
  /\ SendHasRoom
  /\ NewestIsOfSender
  /\ ReceiveHasBytes
  /\ InOrder

LEMMA RingSizes ==
  /\ MaxMsgLength \in Nat \ {0} /\ MsgLength \in Nat /\ MaxMsgLength < MsgLength
  /\ Receiver \notin Senders /\ Nil \notin Senders
BY RingAssumption DEF MsgLength

(* How far apart the two ends of the ring are.                              *)
LEMMA EndsAreIn ==
  ASSUME RingTypes
  PROVE  /\ First \in 0 .. MsgLength - 1 /\ End \in 0 .. MsgLength - 1
         /\ Held \in 0 .. MsgLength - 1 /\ Room \in 0 .. MsgLength - 1
         /\ Held = 0 <=> First = End
BY RingSizes DEF RingTypes, First, End, Cell, Held, Room

LEMMA Modulo ==
  ASSUME NEW n \in Nat \ {0}, NEW x \in 0 .. 2 * n - 1
  PROVE  x % n = IF x < n THEN x ELSE x - n
<1>1. CASE x < n
  BY <1>1
<1>2. CASE x >= n
  BY <1>2
<1> QED BY <1>1, <1>2

LEMMA EndsOfTheCode ==
  ASSUME RingTypes
  PROVE  /\ First = HeadIndex % MsgLength /\ End = RearIndex % MsgLength
         /\ Held = msg_queue_contain /\ Room = msg_queue_capacity
<1>1. ASSUME NEW x \in 0 .. MsgLength PROVE x % MsgLength = Cell(x)
  <2>1. MsgLength \in Nat \ {0} /\ x \in 0 .. 2 * MsgLength - 1
    BY RingSizes
  <2> QED BY <2>1, Modulo DEF Cell
<1>2. First = HeadIndex % MsgLength /\ End = RearIndex % MsgLength
  BY <1>1 DEF RingTypes, First, End
<1>3. First \in Int /\ End \in Int /\ MsgLength \in Int
  BY EndsAreIn, RingSizes
<1> QED BY <1>1, <1>2, <1>3 DEF Held, Room, msg_queue_contain, msg_queue_capacity

LEMMA NewestIs ==
  ASSUME RingTypes
  PROVE  Newest \in AByte
<1>1. (IF End = 0 THEN MsgLength - 1 ELSE End - 1) \in 0 .. MsgLength - 1
  BY EndsAreIn, RingSizes
<1> QED BY <1>1 DEF RingTypes, Newest

LEMMA CellsAreIn ==
  \A j \in 0 .. MsgLength - 1 : Cell(j) = j /\ Cell(j + 1) \in 0 .. MsgLength - 1
BY RingSizes DEF Cell

LEMMA RingStarts == RingInit => RingInv
<1> SUFFICES ASSUME RingInit PROVE RingInv
  OBVIOUS
<1> USE RingSizes
<1>1. NoByte \in AByte
  BY DEF NoByte, AByte
<1>2. RingTypes
  BY <1>1 DEF RingInit, msg_queue_create, RingTypes, Workers, SendPlaces, ReceivePlaces
<1>3. First = 0 /\ End = 0 /\ Held = 0 /\ \A j \in 0 .. MsgLength - 1 : ~Used(j)
  BY DEF RingInit, msg_queue_create, First, End, Cell, Held, Used
<1>4. OneSends /\ SendHasRoom
  BY DEF RingInit, OneSends, SendHasRoom, Workers
<1>5. last = NoByte /\ NoByte.pos = MaxMsgLength /\ NoByte.msg = 0
  BY DEF RingInit, NoByte
<1>6. NewestIsOfSender
  BY <1>3, <1>5 DEF RingInit, NewestIsOfSender, Newest, Begun, Workers, Sending
<1>7. ReceiveHasBytes
  BY <1>5 DEF RingInit, ReceiveHasBytes, Workers
<1>8. InOrder
  BY <1>3 DEF InOrder
<1> QED BY <1>2, <1>4, <1>6, <1>7, <1>8 DEF RingInv

-----------------------------------------------------------------------------
(* Steps that leave the bytes and both ends of the ring.                    *)
LEMMA SameRing ==
  ASSUME RingInv, First' = First, End' = End, UNCHANGED <<MsgBuffer, last>>,
         (where'[Receiver] = "advance") <=> (where[Receiver] = "advance")
  PROVE  Held' = Held /\ Room' = Room /\ Newest' = Newest /\ InOrder'
BY DEF Held, Room, Newest, RingInv, InOrder, Used, Cell, Follows, MsgLength

(* A step of a sender that stores nothing.                                  *)
LEMMA SenderSteps ==
  ASSUME RingInv, NEW s \in Senders, NEW place \in SendPlaces,
         where' = [where EXCEPT ![s] = place],
         section' \in {section, s, Nil}, section' = s <=> place # "out",
         section = Nil \/ section = s,
         First' = First, End' = End, RearIndex' \in 0 .. MsgLength,
         UNCHANGED <<MsgBuffer, HeadIndex, last, sends, message, left>>,
         place \in Sending => where[s] \in Sending \/ left[s] < MaxMsgLength,
         place \in {"out", "inside"} => left[s] \in {0, MaxMsgLength},
         place \in {"wake", "reset", "wait"} => left[s] = MaxMsgLength,
         place = "test" => left[s] = MaxMsgLength \/ Room >= left[s],
         place \in {"wrap", "store"} => left[s] >= 1 /\ Room >= left[s],
         place = "store" => RearIndex' < MsgLength,
         place = "signal" => left[s] < MaxMsgLength /\ Room >= left[s]
  PROVE  RingInv'
<1> USE RingSizes
<1>1. \A t \in Workers : where'[t] = IF t = s THEN place ELSE where[t]
  BY DEF RingInv, RingTypes, Workers
<1>2. where'[Receiver] = where[Receiver]
  BY <1>1 DEF Workers
<1>3. Held' = Held /\ Room' = Room /\ Newest' = Newest /\ InOrder'
  BY <1>2, SameRing
<1>4. RingTypes'
  BY <1>1, <1>2 DEF RingInv, RingTypes, Workers, MsgLength, AByte, SendPlaces, ReceivePlaces
<1>5. OneSends'
  BY <1>1 DEF RingInv, OneSends, Workers
<1>6. \A t \in Senders \ {s} : where[t] = "out" /\ where'[t] = "out"
  BY <1>1 DEF RingInv, OneSends, Workers
<1>7. SendHasRoom'
  BY <1>1, <1>3, <1>6 DEF RingInv, SendHasRoom, Workers, MsgLength
<1>8. NewestIsOfSender'
  BY <1>1, <1>3 DEF RingInv, NewestIsOfSender, Begun, Workers, Sending
<1>9. First' = First /\ ReceiveHasBytes'
  BY <1>2, <1>3 DEF RingInv, ReceiveHasBytes, MsgLength
<1> QED BY <1>3, <1>4, <1>5, <1>7, <1>8, <1>9 DEF RingInv

(* A step of the receiver that takes nothing.                               *)
LEMMA ReceiverSteps ==
  ASSUME RingInv, NEW place \in ReceivePlaces, NEW due \in 0 .. MaxMsgLength,
         where' = [where EXCEPT ![Receiver] = place],
         left' = [left EXCEPT ![Receiver] = due],
         due # left[Receiver] => left[Receiver] = 0 /\ due = MaxMsgLength,
         First' = First, End' = End, HeadIndex' \in 0 .. MsgLength,
         UNCHANGED <<MsgBuffer, RearIndex, last, sends, message, section>>,
         where[Receiver] # "advance", place # "advance",
         place = "out" => due \in {0, MaxMsgLength},
         place \in {"wake", "reset", "wait"} => due = MaxMsgLength,
         place = "test" => due = MaxMsgLength \/ Held >= due,
         place \in {"wrap", "take"} => due >= 1 /\ Held >= due,
         place = "take" => HeadIndex' < MsgLength,
         place = "signal" => due < MaxMsgLength /\ Held >= due
  PROVE  RingInv'
<1> USE RingSizes
<1>1. /\ where'[Receiver] = place /\ left'[Receiver] = due
      /\ \A s \in Senders : where'[s] = where[s] /\ left'[s] = left[s]
  BY DEF RingInv, RingTypes, Workers
<1>3. Held' = Held /\ Room' = Room /\ Newest' = Newest /\ InOrder'
  BY <1>1, SameRing
<1>4. RingTypes'
  BY <1>1 DEF RingInv, RingTypes, Workers, MsgLength, AByte, SendPlaces, ReceivePlaces
<1>5. OneSends'
  BY <1>1 DEF RingInv, OneSends
<1>7. SendHasRoom'
  BY <1>1, <1>3 DEF RingInv, SendHasRoom, MsgLength
<1>8. NewestIsOfSender'
  BY <1>1, <1>3 DEF RingInv, NewestIsOfSender, Begun, Sending
<1>9. ReceiveHasBytes'
  BY <1>1, <1>3 DEF RingInv, ReceiveHasBytes, MsgLength
<1> QED BY <1>3, <1>4, <1>5, <1>7, <1>8, <1>9 DEF RingInv

LEMMA SendStarts ==
  ASSUME RingInv, NEW s \in Senders, msg_send(s)
  PROVE  RingInv'
<1> USE RingSizes
<1>1. /\ where[s] = "inside" /\ section = s /\ sends' = sends + 1
      /\ where' = [where EXCEPT ![s] = "test"] /\ left' = [left EXCEPT ![s] = MaxMsgLength]
      /\ message' = [message EXCEPT ![s] = sends + 1]
      /\ UNCHANGED <<theRing, section, last>>
  BY DEF msg_send, Runs, Goes, RingInv, OneSends
<1>2. /\ where'[s] = "test" /\ left'[s] = MaxMsgLength /\ message'[s] = sends + 1
      /\ \A t \in Workers \ {s} :
           where'[t] = where[t] /\ left'[t] = left[t] /\ message'[t] = message[t]
  BY <1>1 DEF RingInv, RingTypes, Workers
<1>3. where'[Receiver] = where[Receiver] /\ left'[Receiver] = left[Receiver]
  BY <1>2 DEF Workers
<1>4. First' = First /\ End' = End
  BY <1>1 DEF theRing, First, End, Cell, MsgLength
<1>5. Held' = Held /\ Room' = Room /\ Newest' = Newest /\ InOrder'
  BY <1>1, <1>3, <1>4, SameRing DEF theRing
<1>6. RingTypes'
  BY <1>1, <1>2 DEF RingInv, RingTypes, theRing, Workers, MsgLength, AByte, SendPlaces, ReceivePlaces
<1>7. OneSends'
  BY <1>1, <1>2 DEF RingInv, OneSends, Workers
<1>8. SendHasRoom'
  BY <1>1, <1>2, <1>5 DEF RingInv, SendHasRoom, theRing, Workers, MsgLength
<1>9. left[s] \in {0, MaxMsgLength} /\ sends \in Nat /\ Newest.msg <= sends
  BY <1>1 DEF RingInv, SendHasRoom, NewestIsOfSender, RingTypes
<1>10. NewestIsOfSender'
  <2>1. \A t \in Senders : message'[t] <= sends' /\ (Begun(t)' <=> Begun(t))
    BY <1>1, <1>2, <1>9 DEF RingInv, RingTypes, NewestIsOfSender, Begun, Workers
  <2>2. \A t \in Senders \ {s} : where[t] = "out"
    BY <1>1 DEF RingInv, OneSends
  <2>3. Newest.msg \in Int
    BY NewestIs DEF RingInv, AByte
  <2> QED BY <1>1, <1>2, <1>5, <1>9, <2>1, <2>2, <2>3
          DEF RingInv, NewestIsOfSender, Begun, Sending, Workers
<1>11. ReceiveHasBytes'
  BY <1>1, <1>3, <1>4, <1>5 DEF RingInv, ReceiveHasBytes, theRing, MsgLength
<1> QED BY <1>5, <1>6, <1>7, <1>8, <1>10, <1>11 DEF RingInv

LEMMA ByteStored ==
  ASSUME RingInv, NEW s \in Senders, Store(s)
  PROVE  RingInv'
<1> USE RingSizes
<1> DEFINE b == Byte(s)
<1>1. /\ where[s] = "store" /\ section = s
      /\ MsgBuffer' = [MsgBuffer EXCEPT ![RearIndex] = b] /\ RearIndex' = RearIndex + 1
      /\ where' = [where EXCEPT ![s] = "signal"] /\ left' = [left EXCEPT ![s] = @ - 1]
      /\ UNCHANGED <<message, HeadIndex, section, sends, last>>
  BY DEF Store, Runs, Goes, RingInv, OneSends
<1>2. /\ left[s] \in 1 .. MaxMsgLength /\ Room >= left[s] /\ RearIndex < MsgLength
      /\ RearIndex \in 0 .. MsgLength
  BY <1>1 DEF RingInv, RingTypes, SendHasRoom, Workers
<1>3. /\ where'[s] = "signal" /\ left'[s] = left[s] - 1
      /\ \A t \in Workers \ {s} : where'[t] = where[t] /\ left'[t] = left[t]
      /\ where'[Receiver] = where[Receiver] /\ left'[Receiver] = left[Receiver]
  BY <1>1 DEF RingInv, RingTypes, Workers
<1>4. /\ b.msg = message[s] /\ b.pos = MaxMsgLength - left[s] + 1
      /\ b = [msg |-> message[s], pos |-> MaxMsgLength - (left[s] - 1)]
      /\ b \in AByte
  <2>1. message[s] \in Nat /\ MaxMsgLength - left[s] + 1 \in 1 .. MaxMsgLength
    BY <1>2 DEF RingInv, RingTypes, Workers
  <2>2. MaxMsgLength - left[s] + 1 = MaxMsgLength - (left[s] - 1)
    BY <1>2
  <2> QED BY <2>1, <2>2 DEF Byte, AByte
<1> HIDE DEF b
<1>5. /\ First \in 0 .. MsgLength - 1 /\ End \in 0 .. MsgLength - 1 /\ Held \in 0 .. MsgLength - 2
      /\ Room = MsgLength - 1 - Held /\ (Held = 0 <=> First = End)
  BY <1>2, EndsAreIn DEF RingInv, Room
<1>6. End = RearIndex /\ First' = First /\ End' = Cell(End + 1)
  BY <1>1, <1>2 DEF First, End, Cell, MsgLength
<1>7. Held' = Held + 1 /\ Room' = Room - 1
  BY <1>5, <1>6 DEF Held, Room, Cell, MsgLength
<1>8. \A j \in 0 .. MsgLength - 1 : Used(j)' <=> Used(j) \/ j = End
  BY <1>5, <1>6 DEF Used, Cell, Held, MsgLength
<1>9. /\ MsgBuffer'[End] = b
      /\ \A j \in 0 .. MsgLength - 1 : j # End => MsgBuffer'[j] = MsgBuffer[j]
  BY <1>1, <1>5, <1>6 DEF RingInv, RingTypes
<1>10. Newest' = b
  <2>1. End = IF End' = 0 THEN MsgLength - 1 ELSE End' - 1
    BY <1>5, <1>6 DEF Cell
  <2>2. Held' # 0
    BY <1>5, <1>7
  <2> QED BY <1>9, <2>1, <2>2 DEF Newest, MsgLength
<1>11. Follows(Newest, b)
  <2>1. \A t \in Senders \ {s} : ~Begun(t)
    BY <1>1 DEF RingInv, OneSends, SendHasRoom, Begun
  <2>2. CASE Begun(s)
    <3>1. Newest.msg = message[s] /\ Newest.pos = MaxMsgLength - left[s]
      BY <2>2 DEF RingInv, NewestIsOfSender
    <3> QED BY <1>4, <2>2, <3>1 DEF Begun, Follows
  <2>3. CASE ~Begun(s)
    <3>1. left[s] = MaxMsgLength /\ Newest.pos = MaxMsgLength /\ Newest.msg < message[s]
      BY <1>1, <1>2, <2>1, <2>3 DEF RingInv, NewestIsOfSender, Begun, Sending
    <3> QED BY <1>4, <3>1 DEF Follows
  <2> QED BY <2>2, <2>3
<1>12. InOrder'
  <2>1. ASSUME NEW j \in 0 .. MsgLength - 1, Used(j)', Cell(j + 1) # End'
        PROVE  Follows(MsgBuffer'[j], MsgBuffer'[Cell(j + 1)])
    <3>1. Used(j) /\ j # End /\ MsgBuffer'[j] = MsgBuffer[j] /\ Cell(j + 1) \in 0 .. MsgLength - 1
      BY <1>6, <1>8, <1>9, <2>1, CellsAreIn
    <3>2. CASE Cell(j + 1) # End
      BY <1>9, <3>1, <3>2 DEF RingInv, InOrder
    <3>3. CASE Cell(j + 1) = End
      <4>1. j = IF End = 0 THEN MsgLength - 1 ELSE End - 1
        BY <1>5, <3>3 DEF Cell
      <4>2. Held # 0
        BY <1>5, <3>1 DEF Used
      <4>3. MsgBuffer[j] = Newest
        BY <4>1, <4>2 DEF Newest
      <4> QED BY <1>9, <1>11, <3>1, <3>3, <4>3
    <3> QED BY <3>2, <3>3
  <2>2. ASSUME where[Receiver] # "advance" PROVE Follows(last, MsgBuffer'[First])
    <3>1. CASE Held = 0
      BY <1>5, <1>9, <1>11, <3>1 DEF Newest
    <3>2. CASE Held # 0
      <4>1. MsgBuffer'[First] = MsgBuffer[First]
        BY <1>5, <1>9, <3>2
      <4>2. Follows(last, MsgBuffer[First])
        BY <1>5, <2>2, <3>2 DEF RingInv, InOrder
      <4> QED BY <4>1, <4>2
    <3> QED BY <3>1, <3>2
  <2> QED BY <1>1, <1>3, <1>6, <2>1, <2>2 DEF InOrder, Follows, Cell, MsgLength
<1>13. RingTypes'
  <2>1. MsgBuffer' \in [0 .. MsgLength - 1 -> AByte] /\ RearIndex' \in 0 .. MsgLength
    BY <1>1, <1>2, <1>4 DEF RingInv, RingTypes
  <2>2. RingTypes
    BY DEF RingInv
  <2>3. left[s] - 1 \in 0 .. MaxMsgLength
    BY <1>2
  <2>4. left' \in [Workers -> 0 .. MaxMsgLength]
    BY <1>1, <2>2, <2>3 DEF RingTypes
  <2>5. /\ where' \in [Workers -> SendPlaces \cup ReceivePlaces]
        /\ \A t \in Senders : where'[t] \in SendPlaces
        /\ where'[Receiver] \in ReceivePlaces
    BY <1>1, <1>3, <2>2 DEF RingTypes, Workers, SendPlaces
  <2> QED BY <1>1, <2>1, <2>2, <2>4, <2>5 DEF RingTypes
<1>14. OneSends'
  BY <1>1, <1>3 DEF RingInv, OneSends, Workers
<1>15. \A t \in Senders \ {s} : where[t] = "out" /\ where'[t] = "out" /\ left'[t] \in {0, MaxMsgLength}
  BY <1>1, <1>3 DEF RingInv, OneSends, SendHasRoom, Workers
<1>16. SendHasRoom'
  BY <1>2, <1>3, <1>5, <1>7, <1>15 DEF SendHasRoom, MsgLength
<1>17. NewestIsOfSender'
  <2>1. \A t \in Senders : message'[t] <= sends'
    BY <1>1 DEF RingInv, NewestIsOfSender
  <2>2. \A t \in Senders \ {s} : ~Begun(t)'
    BY <1>15 DEF Begun
  <2>3. Begun(s)' <=> left[s] - 1 \in 1 .. MaxMsgLength - 1
    BY <1>3 DEF Begun
  <2>4. message' = message /\ where'[s] \notin Sending
    BY <1>1, <1>3 DEF Sending
  <2>5. \A t \in Senders : Begun(t)' => Newest' = [msg |-> message'[t], pos |-> MaxMsgLength - left'[t]]
    BY <1>3, <1>4, <1>10, <2>2, <2>4
  <2>6. \A t \in Senders : where'[t] \notin Sending
    BY <1>15, <2>4 DEF Sending
  <2>7. (\A t \in Senders : ~Begun(t)') => Newest'.pos = MaxMsgLength
    BY <1>2, <1>4, <1>10, <2>3
  <2> QED BY <1>4, <1>10, <2>1, <2>4, <2>5, <2>6, <2>7 DEF NewestIsOfSender
<1>18. ReceiveHasBytes'
  <2>1. CASE where[Receiver] = "advance"
    <3>2. left[Receiver] \in Int /\ Held >= left[Receiver] /\ left[Receiver] >= 1
      BY <2>1 DEF RingInv, RingTypes, ReceiveHasBytes, Workers
    <3>1. Held # 0 /\ First # End
      BY <1>5, <3>2
    <3> QED BY <1>1, <1>3, <1>5, <1>6, <1>7, <1>9, <2>1, <3>1, <3>2
            DEF RingInv, ReceiveHasBytes, MsgLength
  <2>2. CASE where[Receiver] # "advance"
    <3>1. left[Receiver] \in Int /\ Held' > Held
      BY <1>5, <1>7 DEF RingInv, RingTypes, Workers
    <3> QED BY <1>1, <1>3, <1>5, <1>7, <2>2, <3>1 DEF RingInv, ReceiveHasBytes, MsgLength
  <2> QED BY <2>1, <2>2
<1> QED BY <1>12, <1>13, <1>14, <1>16, <1>17, <1>18 DEF RingInv

LEMMA ByteTaken ==
  ASSUME RingInv, Take
  PROVE  RingInv'
<1> USE RingSizes
<1>1. /\ where[Receiver] = "take" /\ last' = MsgBuffer[HeadIndex]
      /\ where' = [where EXCEPT ![Receiver] = "advance"]
      /\ UNCHANGED <<left, message, theRing, section, sends>>
  BY DEF Take, Runs, Goes
<1>2. /\ left[Receiver] \in 1 .. MaxMsgLength /\ Held >= left[Receiver] /\ HeadIndex < MsgLength
      /\ last.pos = IF left[Receiver] = MaxMsgLength THEN MaxMsgLength ELSE MaxMsgLength - left[Receiver]
  BY <1>1 DEF RingInv, RingTypes, ReceiveHasBytes, Workers
<1>3. First \in 0 .. MsgLength - 1 /\ First = HeadIndex /\ Held \in Nat \ {0}
  BY <1>2, EndsAreIn DEF RingInv, First, Cell
<1>4. Follows(last, MsgBuffer[First])
  BY <1>1, <1>3 DEF RingInv, InOrder
<1>5. MsgBuffer[First].pos = MaxMsgLength - left[Receiver] + 1 /\ MsgBuffer[First] \in AByte
  BY <1>2, <1>3, <1>4 DEF Follows, RingInv, RingTypes
<1>6. /\ where'[Receiver] = "advance"
      /\ \A s \in Senders : where'[s] = where[s]
  BY <1>1 DEF RingInv, RingTypes, Workers
<1>7. First' = First /\ End' = End /\ Held' = Held /\ Room' = Room
  BY <1>1 DEF theRing, First, End, Cell, MsgLength, Held, Room
<1>8. Newest' = Newest
  BY <1>1, <1>3, <1>7 DEF Newest, theRing, MsgLength
<1>9. RingTypes'
  BY <1>1, <1>3, <1>5, <1>6
     DEF RingInv, RingTypes, theRing, Workers, MsgLength, AByte, SendPlaces, ReceivePlaces
<1>10. OneSends' /\ SendHasRoom'
  BY <1>1, <1>6, <1>7 DEF RingInv, OneSends, SendHasRoom, theRing, MsgLength
<1>11. NewestIsOfSender'
  BY <1>1, <1>6, <1>8 DEF RingInv, NewestIsOfSender, Begun, Sending
<1>12. ReceiveHasBytes'
  BY <1>1, <1>2, <1>3, <1>5, <1>6, <1>7 DEF ReceiveHasBytes, theRing, MsgLength
<1>13. InOrder'
  BY <1>1, <1>6, <1>7 DEF RingInv, InOrder, theRing, Used, Cell, Follows, MsgLength
<1> QED BY <1>9, <1>10, <1>11, <1>12, <1>13 DEF RingInv

LEMMA HeadAdvances ==
  ASSUME RingInv, AdvanceHead
  PROVE  RingInv'
<1> USE RingSizes
<1> DEFINE due == left[Receiver]
<1>1. /\ where[Receiver] = "advance" /\ HeadIndex' = HeadIndex + 1
      /\ where' = [where EXCEPT ![Receiver] = "signal"]
      /\ left' = [left EXCEPT ![Receiver] = @ - 1]
      /\ UNCHANGED <<message, MsgBuffer, RearIndex, section, sends, last>>
  BY DEF AdvanceHead, Runs, Goes
<1>2. /\ due \in 1 .. MaxMsgLength /\ Held >= due /\ HeadIndex < MsgLength
      /\ HeadIndex \in 0 .. MsgLength
      /\ last = MsgBuffer[First] /\ last.pos = MaxMsgLength - due + 1
  BY <1>1 DEF RingInv, RingTypes, ReceiveHasBytes, Workers
<1>3. /\ where'[Receiver] = "signal" /\ left'[Receiver] = due - 1
      /\ \A s \in Senders : where'[s] = where[s] /\ left'[s] = left[s]
  BY <1>1 DEF RingInv, RingTypes, Workers
<1> HIDE DEF due
<1>4. /\ First \in 0 .. MsgLength - 1 /\ End \in 0 .. MsgLength - 1 /\ Held \in 1 .. MsgLength - 1
      /\ Room = MsgLength - 1 - Held /\ (Held = 0 <=> First = End)
  BY <1>2, EndsAreIn DEF RingInv, Room
<1>5. First = HeadIndex /\ End' = End /\ First' = Cell(First + 1)
  BY <1>1, <1>2 DEF First, End, Cell, MsgLength
<1>6. Held' = Held - 1 /\ Room' = Room + 1 /\ (Held' = 0 <=> First' = End)
  BY <1>4, <1>5 DEF Held, Room, Cell, MsgLength
<1>7. \A j \in 0 .. MsgLength - 1 : Used(j)' => Used(j)
  BY <1>4, <1>5 DEF Used, Cell, Held, MsgLength
<1>8. Used(First) /\ First' \in 0 .. MsgLength - 1
  BY <1>4, <1>5 DEF Used, Cell
<1>9. Newest' = Newest
  <2>1. CASE Held' = 0
    <3>1. First = IF End = 0 THEN MsgLength - 1 ELSE End - 1
      BY <1>4, <1>5, <1>6, <2>1 DEF Cell
    <3>2. Newest' = last /\ Newest = MsgBuffer[First]
      BY <1>1, <1>4, <2>1, <3>1 DEF Newest
    <3> QED BY <1>2, <3>2
  <2>2. CASE Held' # 0
    BY <1>1, <1>4, <1>5, <2>2 DEF Newest, MsgLength
  <2> QED BY <2>1, <2>2
<1>10. InOrder'
  <2>1. ASSUME NEW j \in 0 .. MsgLength - 1, Used(j)', Cell(j + 1) # End'
        PROVE  Follows(MsgBuffer[j], MsgBuffer[Cell(j + 1)])
    BY <1>5, <1>7, <2>1 DEF RingInv, InOrder
  <2>2. ASSUME Held' > 0 PROVE Follows(last, MsgBuffer[First'])
    <3>1. First' # End
      BY <1>6, <2>2
    <3> QED BY <1>2, <1>4, <1>5, <1>8, <3>1 DEF RingInv, InOrder
  <2> QED BY <1>1, <2>1, <2>2 DEF InOrder, Follows, Cell, MsgLength
<1>11. RingTypes'
  <2>1. HeadIndex' \in 0 .. MsgLength /\ due - 1 \in 0 .. MaxMsgLength
    BY <1>1, <1>2
  <2>2. left' \in [Workers -> 0 .. MaxMsgLength]
    BY <1>1, <2>1 DEF RingInv, RingTypes, due
  <2> QED BY <1>1, <1>3, <2>1, <2>2
          DEF RingInv, RingTypes, Workers, MsgLength, AByte, SendPlaces, ReceivePlaces
<1>12. OneSends'
  BY <1>1, <1>3 DEF RingInv, OneSends
<1>13. SendHasRoom'
  <2>1. \A s \in Senders : left[s] \in Int /\ Room' > Room
    BY <1>4, <1>6 DEF RingInv, RingTypes, Workers
  <2> QED BY <1>1, <1>3, <1>4, <1>6, <2>1 DEF RingInv, SendHasRoom, MsgLength
<1>14. NewestIsOfSender'
  BY <1>1, <1>3, <1>9 DEF RingInv, NewestIsOfSender, Begun, Sending
<1>15. ReceiveHasBytes'
  BY <1>1, <1>2, <1>3, <1>4, <1>6 DEF ReceiveHasBytes, MsgLength
<1> QED BY <1>10, <1>11, <1>12, <1>13, <1>14, <1>15 DEF RingInv

-----------------------------------------------------------------------------
LEMMA SenderKeeps ==
  ASSUME RingInv, NEW s \in Senders,
         \/ EnterSection(s) \/ LeaveSection(s) \/ TestRoom(s)
         \/ SendWakesReader(s) \/ SendResets(s) \/ SendBlocks(s) \/ SendTimeout(s)
         \/ WrapRear(s) \/ SendSignals(s)
  PROVE  RingInv'
<1> USE RingSizes
<1> USE DEF Runs, Goes, EventStep
<1>1. RingTypes /\ SendHasRoom /\ OneSends /\ Room = msg_queue_capacity /\ left[s] \in 0 .. MaxMsgLength
  BY EndsOfTheCode DEF RingInv, RingTypes, Workers
<1>2. First \in 0 .. MsgLength - 1 /\ End \in 0 .. MsgLength - 1 /\ End = RearIndex % MsgLength
  BY <1>1, EndsAreIn, EndsOfTheCode
<1>3. theRing' = theRing => First' = First /\ End' = End /\ RearIndex' \in 0 .. MsgLength
  BY <1>1 DEF theRing, First, End, Cell, MsgLength, RingTypes
<1>4. CASE EnterSection(s)
  BY <1>1, <1>3, <1>4, SenderSteps DEF EnterSection, theRing, SendPlaces, SendHasRoom, Sending
<1>5. CASE LeaveSection(s)
  BY <1>1, <1>3, <1>5, SenderSteps DEF LeaveSection, theRing, SendPlaces, SendHasRoom, Sending, OneSends
<1>6. CASE TestRoom(s)
  <2> DEFINE place == IF left[s] = 0 THEN "inside" ELSE IF RoomForRest(s) THEN "wrap" ELSE "wake"
  <2>1. /\ where[s] = "test" /\ section = s /\ where' = [where EXCEPT ![s] = place]
        /\ UNCHANGED <<life, left, message, theRing, signaled, section, sends, last, cut>>
    BY <1>1, <1>6 DEF TestRoom, OneSends
  <2>2. left[s] = MaxMsgLength \/ Room >= left[s]
    BY <1>1, <2>1 DEF SendHasRoom
  <2>3. CASE left[s] = 0
    <3>1. where' = [where EXCEPT ![s] = "inside"]
      BY <2>1, <2>3
    <3> QED BY <1>3, <2>1, <2>3, <3>1, SenderSteps DEF theRing, SendPlaces, Sending
  <2>4. CASE left[s] # 0 /\ Room >= left[s]
    <3>1. left[s] >= 1 /\ RoomForRest(s)
      BY <1>1, <2>4 DEF RoomForRest
    <3>2. place = "wrap"
      BY <2>4, <3>1
    <3>3. where' = [where EXCEPT ![s] = "wrap"]
      BY <2>1, <3>2
    <3> QED BY <1>3, <2>1, <2>4, <3>1, <3>3, SenderSteps DEF theRing, SendPlaces, Sending
  <2>5. CASE left[s] # 0 /\ ~(Room >= left[s])
    <3>1. where' = [where EXCEPT ![s] = "wake"]
      BY <1>1, <2>1, <2>5 DEF RoomForRest
    <3> QED BY <1>3, <2>1, <2>2, <2>5, <3>1, SenderSteps DEF theRing, SendPlaces, Sending
  <2> QED BY <2>3, <2>4, <2>5
<1>7. CASE SendWakesReader(s)
  BY <1>1, <1>3, <1>7, SenderSteps DEF SendWakesReader, theRing, SendPlaces, SendHasRoom, Sending, OneSends
<1>8. CASE SendResets(s)
  BY <1>1, <1>3, <1>8, SenderSteps DEF SendResets, theRing, SendPlaces, SendHasRoom, Sending, OneSends
<1>9. CASE SendBlocks(s)
  BY <1>1, <1>3, <1>9, SenderSteps DEF SendBlocks, theRing, SendPlaces, SendHasRoom, Sending, OneSends
<1>10. CASE SendTimeout(s)
  BY <1>1, <1>3, <1>10, SenderSteps DEF SendTimeout, theRing, SendPlaces, SendHasRoom, Sending, OneSends
<1>11. CASE WrapRear(s)
  <2>1. First' = First /\ End' = End /\ RearIndex' \in 0 .. MsgLength - 1
    BY <1>2, <1>11 DEF WrapRear, First, End, Cell, MsgLength
  <2>2. /\ where[s] = "wrap" /\ section = s /\ where' = [where EXCEPT ![s] = "store"]
        /\ left[s] >= 1 /\ Room >= left[s]
        /\ UNCHANGED <<MsgBuffer, HeadIndex, last, sends, message, left, section>>
    BY <1>1, <1>11 DEF WrapRear, SendHasRoom, OneSends
  <2>3. RearIndex' \in 0 .. MsgLength /\ RearIndex' < MsgLength
    BY <2>1
  <2> QED BY <2>1, <2>2, <2>3, SenderSteps DEF SendPlaces, Sending
<1>12. CASE SendSignals(s)
  BY <1>1, <1>3, <1>12, SenderSteps DEF SendSignals, theRing, SendPlaces, SendHasRoom, Sending, OneSends
<1> QED BY <1>4, <1>5, <1>6, <1>7, <1>8, <1>9, <1>10, <1>11, <1>12

LEMMA ReceiverKeeps ==
  ASSUME RingInv,
         \/ msg_receive \/ TestBytes
         \/ ReceiveWakesWriter \/ ReceiveResets \/ ReceiveBlocks \/ ReceiveTimeout
         \/ WrapHead \/ ReceiveSignals
  PROVE  RingInv'
<1> USE RingSizes
<1> USE DEF Runs, Goes, EventStep
<1>1. /\ RingTypes /\ ReceiveHasBytes /\ Held = msg_queue_contain
      /\ left[Receiver] \in 0 .. MaxMsgLength
      /\ left' = left => left' = [left EXCEPT ![Receiver] = left[Receiver]]
  BY EndsOfTheCode DEF RingInv, RingTypes, Workers
<1>2. First \in 0 .. MsgLength - 1 /\ End \in 0 .. MsgLength - 1 /\ First = HeadIndex % MsgLength
  BY <1>1, EndsAreIn, EndsOfTheCode
<1>3. theRing' = theRing => First' = First /\ End' = End /\ HeadIndex' \in 0 .. MsgLength
  BY <1>1 DEF theRing, First, End, Cell, MsgLength, RingTypes
<1>4. CASE msg_receive
  <2>1. /\ where[Receiver] = "out" /\ left[Receiver] \in {0, MaxMsgLength}
        /\ where' = [where EXCEPT ![Receiver] = "test"]
        /\ left' = [left EXCEPT ![Receiver] = MaxMsgLength]
        /\ UNCHANGED <<message, theRing, section, sends, last>>
    BY <1>1, <1>4 DEF msg_receive, ReceiveHasBytes
  <2>2. MaxMsgLength \in 0 .. MaxMsgLength
    OBVIOUS
  <2> QED BY <1>3, <2>1, <2>2, ReceiverSteps DEF theRing, ReceivePlaces
<1>5. CASE TestBytes
  <2>1. /\ where[Receiver] = "test" /\ left' = [left EXCEPT ![Receiver] = left[Receiver]]
        /\ where' = [where EXCEPT ![Receiver] =
              IF left[Receiver] = 0 THEN "out" ELSE IF Held >= left[Receiver] THEN "wrap" ELSE "wake"]
        /\ UNCHANGED <<message, theRing, section, sends, last>>
        /\ left[Receiver] = MaxMsgLength \/ Held >= left[Receiver]
    BY <1>1, <1>5 DEF TestBytes, EnoughBytes, ReceiveHasBytes
  <2>3. CASE left[Receiver] = 0
    <3>1. where' = [where EXCEPT ![Receiver] = "out"]
      BY <2>1, <2>3
    <3> QED BY <1>1, <1>3, <2>1, <2>3, <3>1, ReceiverSteps DEF theRing, ReceivePlaces
  <2>4. CASE left[Receiver] # 0 /\ Held >= left[Receiver]
    <3>1. left[Receiver] >= 1
      BY <1>1, <2>4
    <3>2. where' = [where EXCEPT ![Receiver] = "wrap"]
      BY <2>1, <2>4
    <3> QED BY <1>1, <1>3, <2>1, <2>4, <3>1, <3>2, ReceiverSteps DEF theRing, ReceivePlaces
  <2>5. CASE left[Receiver] # 0 /\ ~(Held >= left[Receiver])
    <3>1. where' = [where EXCEPT ![Receiver] = "wake"]
      BY <2>1, <2>5
    <3> QED BY <1>1, <1>3, <2>1, <2>5, <3>1, ReceiverSteps DEF theRing, ReceivePlaces
  <2> QED BY <2>3, <2>4, <2>5
<1>6. CASE ReceiveWakesWriter
  BY <1>1, <1>3, <1>6, ReceiverSteps DEF ReceiveWakesWriter, theRing, ReceivePlaces, ReceiveHasBytes
<1>7. CASE ReceiveResets
  BY <1>1, <1>3, <1>7, ReceiverSteps DEF ReceiveResets, theRing, ReceivePlaces, ReceiveHasBytes
<1>8. CASE ReceiveBlocks
  BY <1>1, <1>3, <1>8, ReceiverSteps DEF ReceiveBlocks, theRing, ReceivePlaces, ReceiveHasBytes
<1>9. CASE ReceiveTimeout
  BY <1>1, <1>3, <1>9, ReceiverSteps DEF ReceiveTimeout, theRing, ReceivePlaces, ReceiveHasBytes
<1>10. CASE WrapHead
  <2>1. First' = First /\ End' = End /\ HeadIndex' \in 0 .. MsgLength - 1
    BY <1>2, <1>10 DEF WrapHead, First, End, Cell, MsgLength
  <2> QED BY <1>1, <1>10, <2>1, ReceiverSteps DEF WrapHead, ReceivePlaces, ReceiveHasBytes
<1>11. CASE ReceiveSignals
  BY <1>1, <1>3, <1>11, ReceiverSteps DEF ReceiveSignals, theRing, ReceivePlaces, ReceiveHasBytes
<1> QED BY <1>4, <1>5, <1>6, <1>7, <1>8, <1>9, <1>10, <1>11

(* Steps that change neither a place nor a byte: a task is created or stops. *)
LEMMA OthersKeep ==
  ASSUME RingInv, UNCHANGED <<where, left, message, theRing, section, sends, last>>
  PROVE  RingInv'
<1>1. First' = First /\ End' = End
  BY DEF theRing, First, End, Cell, MsgLength
<1>2. Held' = Held /\ Room' = Room /\ Newest' = Newest /\ InOrder'
  BY <1>1, SameRing DEF theRing
<1>3. RingTypes' /\ OneSends' /\ SendHasRoom'
  BY <1>2 DEF RingInv, RingTypes, theRing, OneSends, SendHasRoom, Workers, MsgLength, AByte
<1>4. NewestIsOfSender' /\ ReceiveHasBytes'
  BY <1>1, <1>2 DEF RingInv, NewestIsOfSender, ReceiveHasBytes, Begun, theRing, MsgLength
<1> QED BY <1>2, <1>3, <1>4 DEF RingInv

LEMMA RingStepKeeps == RingInv /\ [RingNext]_ringVars => RingInv'
<1> SUFFICES ASSUME RingInv, [RingNext]_ringVars PROVE RingInv'
  OBVIOUS
<1>1. CASE UNCHANGED ringVars
  BY <1>1, OthersKeep DEF ringVars, theTasks, theRing
<1>2. ASSUME NEW s \in Senders,
             \/ EnterSection(s) \/ LeaveSection(s) \/ msg_send(s) \/ TestRoom(s)
             \/ SendWakesReader(s) \/ SendResets(s) \/ SendBlocks(s) \/ SendTimeout(s)
             \/ WrapRear(s) \/ Store(s) \/ SendSignals(s)
      PROVE  RingInv'
  BY <1>2, SenderKeeps, SendStarts, ByteStored
<1>3. ASSUME \/ msg_receive \/ TestBytes
             \/ ReceiveWakesWriter \/ ReceiveResets \/ ReceiveBlocks \/ ReceiveTimeout
             \/ WrapHead \/ Take \/ AdvanceHead \/ ReceiveSignals
      PROVE  RingInv'
  BY <1>3, ReceiverKeeps, ByteTaken, HeadAdvances
<1>4. ASSUME NEW t \in Workers,
             \/ task_create(t) \/ task_delete_force(t)
             \/ \E caller \in Workers : task_delete(caller, t)
      PROVE  RingInv'
  BY <1>4, OthersKeep DEF task_create, task_delete_force, task_delete, TaskStops
<1> QED BY <1>1, <1>2, <1>3, <1>4 DEF RingNext

(* Where the bytes of the ring stand, the oldest first.                     *)
LEMMA ContentsAre ==
  ASSUME RingTypes
  PROVE  /\ Contents \in Seq(AByte) /\ Len(Contents) = Held
         /\ \A i \in 1 .. Held : /\ Contents[i] = MsgBuffer[Cell(First + i - 1)]
                                 /\ Cell(First + i - 1) \in 0 .. MsgLength - 1
<1> USE RingSizes
<1> DEFINE n == msg_queue_contain
           at(i) == (HeadIndex + i - 1) % MsgLength
<1>1. /\ n = Held /\ First \in 0 .. MsgLength - 1 /\ Held \in 0 .. MsgLength - 1
      /\ HeadIndex \in 0 .. MsgLength
  BY EndsAreIn, EndsOfTheCode DEF RingTypes
<1>2. \A i \in 1 .. n : at(i) = Cell(First + i - 1)
  <2> SUFFICES ASSUME NEW i \in 1 .. n PROVE at(i) = Cell(First + i - 1)
    OBVIOUS
  <2> DEFINE x == HeadIndex + i - 1
  <2>1. x \in 0 .. 2 * MsgLength - 1 /\ MsgLength \in Nat \ {0} /\ x = HeadIndex + i - 1
    BY <1>1
  <2>2. at(i) = x % MsgLength
    OBVIOUS
  <2> HIDE DEF x, at
  <2>3. x % MsgLength = IF x < MsgLength THEN x ELSE x - MsgLength
    BY <2>1, Modulo
  <2>4. Cell(First + i - 1) = IF x < MsgLength THEN x ELSE x - MsgLength
    BY <1>1, <2>1 DEF Cell, First
  <2> QED BY <2>2, <2>3, <2>4
<1> HIDE DEF n, at
<1>3. Contents = [i \in 1 .. n |-> MsgBuffer[at(i)]]
  BY DEF Contents, n, at
<1>4. \A i \in 1 .. n : Cell(First + i - 1) \in 0 .. MsgLength - 1
  BY <1>1 DEF Cell
<1>5. \A i \in 1 .. n : MsgBuffer[at(i)] \in AByte /\ at(i) = Cell(First + i - 1)
  BY <1>2, <1>4 DEF RingTypes
<1>6. n \in Nat
  BY <1>1
<1>7. Contents \in Seq(AByte) /\ Len(Contents) = n /\ \A i \in 1 .. n : Contents[i] = MsgBuffer[at(i)]
  BY <1>3, <1>5, <1>6
<1> QED BY <1>1, <1>4, <1>5, <1>7

(* What the invariant says of the bytes one after the other.                *)
LEMMA InvariantSaysWhole == RingInv => MessagesStayWhole
<1> SUFFICES ASSUME RingInv PROVE MessagesStayWhole
  OBVIOUS
<1> USE RingSizes
<1> DEFINE n == msg_queue_contain
<1>1. /\ RingTypes /\ n = Held /\ First = HeadIndex % MsgLength /\ End = RearIndex % MsgLength
      /\ Room = msg_queue_capacity
      /\ First \in 0 .. MsgLength - 1 /\ End \in 0 .. MsgLength - 1 /\ Held \in 0 .. MsgLength - 1
      /\ (Held = 0 <=> First = End) /\ HeadIndex \in 0 .. MsgLength /\ RearIndex \in 0 .. MsgLength
  BY EndsAreIn, EndsOfTheCode DEF RingInv, RingTypes
<1> HIDE DEF n
<1>3. Contents \in Seq(AByte)
  BY <1>1, ContentsAre
<1>4. /\ n \in Nat /\ Len(Contents) = n
      /\ \A i \in 1 .. n : Contents[i] = MsgBuffer[Cell(First + i - 1)]
                          /\ Cell(First + i - 1) \in 0 .. MsgLength - 1
  BY <1>1, ContentsAre
<1>5. \A i \in 1 .. n - 1 : Follows(Contents[i], Contents[i + 1])
  <2> SUFFICES ASSUME NEW i \in 1 .. n - 1 PROVE Follows(Contents[i], Contents[i + 1])
    OBVIOUS
  <2> DEFINE j == Cell(First + i - 1)
  <2>1. j \in 0 .. MsgLength - 1 /\ Used(j) /\ Cell(j + 1) = Cell(First + i) /\ Cell(j + 1) # End
    <3>1. i \in Nat /\ 1 <= i /\ i + 1 <= n
      BY <1>1
    <3>2. j = IF First + i - 1 < MsgLength THEN First + i - 1 ELSE First + i - 1 - MsgLength
      BY <1>1, <3>1 DEF Cell
    <3>3. j \in 0 .. MsgLength - 1 /\ Used(j)
      BY <1>1, <3>1, <3>2 DEF Used, Held
    <3>4. Cell(j + 1) = Cell(First + i) /\ Cell(j + 1) # End
      BY <1>1, <3>1, <3>2 DEF Cell, Held
    <3> QED BY <3>3, <3>4
  <2>2. Contents[i] = MsgBuffer[j] /\ Contents[i + 1] = MsgBuffer[Cell(First + i)]
    <3>1. i \in 1 .. n /\ i + 1 \in 1 .. n /\ First + (i + 1) - 1 = First + i
      BY <1>1
    <3> QED BY <1>4, <3>1
  <2> HIDE DEF j
  <2> QED BY <2>1, <2>2 DEF RingInv, InOrder
<1>6. n > 0 /\ where[Receiver] # "advance" => Follows(last, Contents[1])
  <2>1. n > 0 => Contents[1] = MsgBuffer[First]
    BY <1>1, <1>4 DEF Cell
  <2> QED BY <1>1, <2>1 DEF RingInv, InOrder
<1>7. \A i \in 1 .. Len(Flow) - 1 :
        Follows(Flow[i], Flow[i + 1]) /\ Flow[i] \in AByte /\ Flow[i + 1] \in AByte
  <2>1. Contents \in Seq(AByte) /\ last \in AByte
    BY <1>1, <1>3 DEF RingTypes
  <2>2. CASE where[Receiver] = "advance"
    <3>1. Flow = Contents /\ \A i \in 1 .. n : Contents[i] \in AByte
      BY <1>4, <2>1, <2>2 DEF Flow
    <3>2. \A i \in 1 .. n - 1 : i \in 1 .. n /\ i + 1 \in 1 .. n
      BY <1>4
    <3> QED BY <1>4, <1>5, <3>1, <3>2
  <2>3. CASE where[Receiver] # "advance"
    <3>1. Flow = <<last>> \o Contents
      BY <2>3 DEF Flow
    <3>2. Len(Flow) = n + 1 /\ Flow[1] = last /\ \A i \in 1 .. n : Flow[i + 1] = Contents[i]
      BY <1>4, <2>1, <3>1
    <3>3. \A i \in 2 .. n : Flow[i] = Contents[i - 1]
      BY <1>4, <3>2
    <3>4. \A i \in 1 .. n : Contents[i] \in AByte
      BY <1>4, <2>1
    <3>5. ASSUME NEW i \in 1 .. n
          PROVE  Follows(Flow[i], Flow[i + 1]) /\ Flow[i] \in AByte /\ Flow[i + 1] \in AByte
      <4>1. CASE i = 1
        BY <1>4, <1>6, <2>1, <2>3, <3>2, <3>4, <4>1
      <4>2. CASE i # 1
        <5> DEFINE k == i - 1
        <5>1. k \in 1 .. n - 1 /\ k \in 1 .. n /\ k + 1 = i /\ i \in 2 .. n
          BY <1>4, <4>2
        <5>2. Flow[i] = Contents[k]
          BY <3>3, <5>1
        <5> HIDE DEF k
        <5>3. Follows(Contents[k], Contents[i]) /\ Flow[i + 1] = Contents[i]
          BY <1>5, <3>2, <5>1
        <5> QED BY <3>4, <5>1, <5>2, <5>3
      <4> QED BY <4>1, <4>2
    <3> QED BY <1>4, <3>2, <3>5
  <2> QED BY <2>2, <2>3
<1>8. \A i \in 1 .. Len(Flow) - 1 :
        LET b == Flow[i]
            next == Flow[i + 1]
        IN IF b.pos < MaxMsgLength /\ next.pos # 1
             THEN next = [b EXCEPT !.pos = @ + 1]
             ELSE next.msg > b.msg /\ next.pos = 1 /\ (b.pos < MaxMsgLength => b.msg \in cut)
  <2> SUFFICES ASSUME NEW b \in AByte, NEW next \in AByte, Follows(b, next)
               PROVE  IF b.pos < MaxMsgLength /\ next.pos # 1
                        THEN next = [b EXCEPT !.pos = @ + 1]
                        ELSE next.msg > b.msg /\ next.pos = 1 /\ (b.pos < MaxMsgLength => b.msg \in cut)
    BY <1>7
  <2>1. b.pos \in 1 .. MaxMsgLength
    BY DEF AByte
  <2>2. CASE b.pos < MaxMsgLength
    <3>1. next.msg = b.msg /\ next.pos = b.pos + 1 /\ next.pos # 1
      BY <2>1, <2>2 DEF Follows
    <3>2. next = [msg |-> next.msg, pos |-> next.pos]
      BY DEF AByte
    <3>3. [b EXCEPT !.pos = @ + 1] = [msg |-> b.msg, pos |-> b.pos + 1]
      BY DEF AByte
    <3> QED BY <2>2, <3>1, <3>2, <3>3
  <2>3. CASE ~(b.pos < MaxMsgLength)
    BY <2>3 DEF Follows
  <2> QED BY <2>2, <2>3
<1>9. where[Receiver] = "take" => Contents[1].pos = MaxMsgLength - left[Receiver] + 1
  <2> SUFFICES ASSUME where[Receiver] = "take"
               PROVE  Contents[1].pos = MaxMsgLength - left[Receiver] + 1
    OBVIOUS
  <2>1. /\ left[Receiver] \in 1 .. MaxMsgLength /\ Held >= left[Receiver]
        /\ last.pos = IF left[Receiver] = MaxMsgLength THEN MaxMsgLength ELSE MaxMsgLength - left[Receiver]
    BY DEF RingInv, RingTypes, ReceiveHasBytes, Workers
  <2>2. Follows(last, Contents[1])
    BY <1>1, <1>6, <2>1
  <2> QED BY <2>1, <2>2 DEF Follows
<1>10. msg_queue_contain + msg_queue_capacity = MsgLength - 1
  BY <1>1 DEF n, Room
<1>11. is_msg_queue_full <=> msg_queue_capacity = 0
  <2> DEFINE x == RearIndex + 1
  <2>1. x \in 0 .. 2 * MsgLength - 1 /\ MsgLength \in Nat \ {0} /\ x = RearIndex + 1
    BY <1>1
  <2> HIDE DEF x
  <2>4. x % MsgLength = IF x < MsgLength THEN x ELSE x - MsgLength
    BY <2>1, Modulo
  <2>5. Cell(End + 1) = IF x < MsgLength THEN x ELSE x - MsgLength
    BY <1>1, <2>1 DEF Cell, End
  <2>2. (RearIndex + 1) % MsgLength = Cell(End + 1)
    BY <2>1, <2>4, <2>5
  <2>3. Cell(End + 1) = First <=> Room = 0
    BY <1>1 DEF Cell, Room, Held
  <2> QED BY <1>1, <2>2, <2>3 DEF is_msg_queue_full
<1> QED BY <1>8, <1>9, <1>10, <1>11 DEF MessagesStayWhole

(* The ring of bytes without a lock gives every message whole and in one    *)
(* piece, whenever tasks are deleted.                                       *)
THEOREM MessagesAreWhole == RingSpec => []MessagesStayWhole
<1> QED BY RingStarts, RingStepKeeps, InvariantSaysWhole, PTL DEF RingSpec

-----------------------------------------------------------------------------
(* RingQueue implements ByteFifo.                                           *)

(* The unread ones: without the one the receiver has just read.             *)
Read == IF where[Receiver] = "advance" THEN 1 ELSE 0

UnreadStand ==
  /\ Held - Read \in Nat
  /\ Unread \in Seq(AByte) /\ Len(Unread) = Held - Read
  /\ \A i \in 1 .. Held - Read : Unread[i] = MsgBuffer[Cell(First + Read + i - 1)]

LEMMA UnreadAre == RingInv => UnreadStand
<1> SUFFICES ASSUME RingInv PROVE UnreadStand
  OBVIOUS
<1> USE DEF UnreadStand
<1>1. /\ Contents \in Seq(AByte) /\ Len(Contents) = Held /\ Held \in Nat /\ First \in Int
      /\ \A i \in 1 .. Held : Contents[i] = MsgBuffer[Cell(First + i - 1)]
  BY ContentsAre, EndsAreIn, RingSizes DEF RingInv
<1>2. CASE where[Receiver] = "advance"
  <2>1. Held >= 1
    BY <1>1, <1>2, RingSizes DEF RingInv, RingTypes, ReceiveHasBytes, Workers
  <2>2. Unread = Tail(Contents) /\ Read = 1
    BY <1>2 DEF Unread, Read
  <2>3. /\ Tail(Contents) \in Seq(AByte) /\ Len(Tail(Contents)) = Held - 1
        /\ \A i \in 1 .. Held - 1 : Tail(Contents)[i] = Contents[i + 1]
    BY <1>1, <2>1
  <2>4. \A i \in 1 .. Held - 1 : Contents[i + 1] = MsgBuffer[Cell(First + 1 + i - 1)]
    <3> SUFFICES ASSUME NEW i \in 1 .. Held - 1
                 PROVE  Contents[i + 1] = MsgBuffer[Cell(First + 1 + i - 1)]
      OBVIOUS
    <3>1. i + 1 \in 1 .. Held /\ First + (i + 1) - 1 = First + 1 + i - 1
      BY <1>1
    <3> QED BY <1>1, <3>1
  <2> QED BY <1>1, <2>1, <2>2, <2>3, <2>4
<1>3. CASE where[Receiver] # "advance"
  <2>1. Unread = Contents /\ Read = 0
    BY <1>3 DEF Unread, Read
  <2>2. \A i \in 1 .. Held : First + Read + i - 1 = First + i - 1
    BY <1>1, <2>1
  <2> QED BY <1>1, <2>1, <2>2
<1> QED BY <1>2, <1>3

(* The unread bytes are the same when they stand in the same cells.         *)
LEMMA SameUnread ==
  ASSUME RingInv, RingInv',
         Held' - Read' = Held - Read,
         \A i \in 1 .. Held - Read :
           MsgBuffer'[Cell(First' + Read' + i - 1)] = MsgBuffer[Cell(First + Read + i - 1)]
  PROVE  Unread' = Unread
<1> DEFINE n == Held - Read
<1> USE DEF UnreadStand
<1>0. UnreadStand /\ UnreadStand'
  BY UnreadAre, PTL
<1>1. n \in Nat /\ Unread \in Seq(AByte) /\ Len(Unread) = n
  BY <1>0
<1>2. Unread' \in Seq(AByte) /\ Len(Unread') = n
  BY <1>0 DEF AByte
<1>3. \A i \in 1 .. n : Unread[i] = MsgBuffer[Cell(First + Read + i - 1)]
  BY <1>0
<1>4. \A i \in 1 .. n : Unread'[i] = MsgBuffer'[Cell(First' + Read' + i - 1)]
  BY <1>0 DEF Cell, MsgLength
<1>5. \A i \in 1 .. n : Unread'[i] = Unread[i]
  BY <1>3, <1>4
<1> HIDE DEF n
<1> QED BY <1>1, <1>2, <1>5

(* Steps that leave the bytes and both ends of the ring leave the fifo.     *)
LEMMA RestOfTheRing ==
  ASSUME RingInv, RingInv', First' = First, End' = End, UNCHANGED <<MsgBuffer, last>>,
         (where'[Receiver] = "advance") <=> (where[Receiver] = "advance")
  PROVE  UNCHANGED <<Unread, last>>
<1>1. Held' = Held /\ Read' = Read
  BY DEF Held, Read, MsgLength
<1>2. Unread' = Unread
  BY <1>1, SameUnread
<1> QED BY <1>2

LEMMA StorePuts ==
  ASSUME RingInv, RingInv', NEW s \in Senders, Store(s)
  PROVE  Fifo!Put
<1> USE RingSizes
<1>1. /\ where[s] = "store" /\ RearIndex' = RearIndex + 1
      /\ MsgBuffer' = [MsgBuffer EXCEPT ![RearIndex] = Byte(s)]
      /\ where' = [where EXCEPT ![s] = "signal"]
      /\ UNCHANGED <<HeadIndex, last>>
  BY DEF Store, Runs, Goes
<1>2. left[s] >= 1 /\ left[s] \in Nat /\ Room >= left[s] /\ RearIndex < MsgLength /\ RearIndex \in 0 .. MsgLength
  BY <1>1 DEF RingInv, RingTypes, SendHasRoom, Workers
<1>3. where'[Receiver] = where[Receiver]
  BY <1>1 DEF RingInv, RingTypes, Workers
<1>4. /\ First \in 0 .. MsgLength - 1 /\ End \in 0 .. MsgLength - 1 /\ Held \in 0 .. MsgLength - 2
  BY <1>2, EndsAreIn DEF RingInv, Room
<1>5. End = RearIndex /\ First' = First /\ End' = Cell(End + 1) /\ Read' = Read
  BY <1>1, <1>2, <1>3 DEF First, End, Cell, MsgLength, Read
<1>6. Held' = Held + 1
  BY <1>4, <1>5 DEF Held, Cell, MsgLength
<1>7. \A j \in 0 .. MsgLength - 1 : j # End => MsgBuffer'[j] = MsgBuffer[j]
  BY <1>1, <1>4, <1>5 DEF RingInv, RingTypes
<1>0. UnreadStand /\ UnreadStand'
  BY UnreadAre, PTL
<1> USE DEF UnreadStand
<1> DEFINE n == Held - Read
<1>8. n \in Nat /\ n <= MsgLength - 2 /\ Len(Unread) = n /\ Read \in 0 .. 1
  BY <1>0, <1>4 DEF Read
<1>9. Len(Unread') = n + 1 /\ \A i \in 1 .. n + 1 : Unread'[i] = MsgBuffer'[Cell(First + Read + i - 1)]
  <2>1. /\ Len(Unread') = Held' - Read'
        /\ \A i \in 1 .. Held' - Read' : Unread'[i] = MsgBuffer'[Cell(First' + Read' + i - 1)]
    BY <1>0 DEF Cell, MsgLength
  <2>2. Held' - Read' = n + 1
    BY <1>4, <1>5, <1>6, <1>8
  <2> QED BY <1>5, <2>1, <2>2
<1>10. \A i \in 1 .. n : Unread'[i] = Unread[i]
  <2> SUFFICES ASSUME NEW i \in 1 .. n PROVE Unread'[i] = Unread[i]
    OBVIOUS
  <2>1. Unread[i] = MsgBuffer[Cell(First + Read + i - 1)]
    BY <1>0
  <2>2. i \in 1 .. n + 1
    BY <1>8
  <2>3. Unread'[i] = MsgBuffer'[Cell(First + Read + i - 1)]
    BY <1>9, <2>2
  <2>4. Cell(First + Read + i - 1) \in 0 .. MsgLength - 1 /\ Cell(First + Read + i - 1) # End
    BY <1>4, <1>8 DEF Cell, Held
  <2> QED BY <1>7, <2>1, <2>3, <2>4
<1> HIDE DEF n
<1> QED BY <1>1, <1>8, <1>9, <1>10 DEF Fifo!Put

LEMMA TakeGets ==
  ASSUME RingInv, Take
  PROVE  Fifo!Get
<1>1. /\ where[Receiver] = "take" /\ last' = MsgBuffer[HeadIndex] /\ HeadIndex < MsgLength
      /\ where'[Receiver] = "advance" /\ UNCHANGED theRing /\ Held >= 1
  <2>1. /\ where[Receiver] = "take" /\ last' = MsgBuffer[HeadIndex] /\ UNCHANGED theRing
        /\ where' = [where EXCEPT ![Receiver] = "advance"]
    BY DEF Take, Runs, Goes
  <2>2. HeadIndex < MsgLength /\ left[Receiver] >= 1 /\ Held >= left[Receiver]
    BY <2>1 DEF RingInv, ReceiveHasBytes
  <2>3. left[Receiver] \in Nat /\ Held \in Nat
    BY EndsAreIn, RingSizes DEF RingInv, RingTypes, Workers
  <2>4. where'[Receiver] = "advance"
    BY <2>1 DEF RingInv, RingTypes, Workers
  <2> QED BY <2>1, <2>2, <2>3, <2>4
<1>2. Unread = Contents /\ Unread' = Tail(Contents)
  <2>1. Contents' = Contents
    BY <1>1 DEF theRing, Contents, msg_queue_contain, MsgLength
  <2> QED BY <1>1, <2>1 DEF Unread
<1>3. Contents \in Seq(AByte) /\ Len(Contents) = Held /\ Contents[1] = MsgBuffer[Cell(First + 1 - 1)]
  BY <1>1, ContentsAre, EndsAreIn, RingSizes DEF RingInv
<1>4. Cell(First + 1 - 1) = HeadIndex
  BY <1>1, RingSizes DEF Cell, First, RingInv, RingTypes
<1>5. Contents # <<>> /\ Head(Contents) = Contents[1]
  BY <1>1, <1>3
<1> QED BY <1>1, <1>2, <1>3, <1>4, <1>5 DEF Fifo!Get

LEMMA AdvanceGetsNothing ==
  ASSUME RingInv, RingInv', AdvanceHead
  PROVE  UNCHANGED <<Unread, last>>
<1> USE RingSizes
<1>1. /\ where[Receiver] = "advance" /\ where'[Receiver] = "signal"
      /\ HeadIndex < MsgLength /\ HeadIndex \in 0 .. MsgLength
      /\ HeadIndex' = HeadIndex + 1 /\ Held >= 1
      /\ UNCHANGED <<MsgBuffer, RearIndex, last>>
  <2>1. /\ where[Receiver] = "advance" /\ where' = [where EXCEPT ![Receiver] = "signal"]
        /\ HeadIndex' = HeadIndex + 1 /\ UNCHANGED <<MsgBuffer, RearIndex, last>>
    BY DEF AdvanceHead, Runs, Goes
  <2>2. HeadIndex < MsgLength /\ left[Receiver] >= 1 /\ Held >= left[Receiver]
    BY <2>1 DEF RingInv, ReceiveHasBytes
  <2>3. left[Receiver] \in Nat /\ HeadIndex \in 0 .. MsgLength /\ Held \in Nat
    BY EndsAreIn DEF RingInv, RingTypes, Workers
  <2>4. where'[Receiver] = "signal"
    BY <2>1 DEF RingInv, RingTypes, Workers
  <2> QED BY <2>1, <2>2, <2>3, <2>4
<1>2. First \in 0 .. MsgLength - 1 /\ End \in 0 .. MsgLength - 1 /\ Held \in 1 .. MsgLength - 1
  BY <1>1, EndsAreIn DEF RingInv
<1>3. First = HeadIndex /\ End' = End /\ First' = Cell(First + 1) /\ Read = 1 /\ Read' = 0
  BY <1>1 DEF First, End, Cell, MsgLength, Read
<1>4. Held' = Held - 1
  BY <1>2, <1>3 DEF Held, Cell, MsgLength
<1>5. \A i \in 1 .. Held - Read : Cell(First' + Read' + i - 1) = Cell(First + Read + i - 1)
  BY <1>2, <1>3 DEF Cell
<1>6. Held' - Read' = Held - Read
  BY <1>2, <1>3, <1>4
<1> QED BY <1>1, <1>5, <1>6, SameUnread

LEMMA RingStepIsFifo ==
  ASSUME RingInv, RingInv', [RingNext]_ringVars
  PROVE  [Fifo!Next]_<<Unread, last>>
<1> USE RingSizes
<1>1. UNCHANGED theRing => First' = First /\ End' = End /\ UNCHANGED MsgBuffer
  BY DEF theRing, First, End, Cell, MsgLength
<1>2. CASE UNCHANGED ringVars
  BY <1>1, <1>2, RestOfTheRing DEF ringVars, theTasks
<1>3. ASSUME NEW s \in Senders,
             \/ EnterSection(s) \/ LeaveSection(s) \/ msg_send(s) \/ TestRoom(s)
             \/ SendWakesReader(s) \/ SendResets(s) \/ SendBlocks(s) \/ SendTimeout(s)
             \/ SendSignals(s)
      PROVE  UNCHANGED <<Unread, last>>
  <2>1. UNCHANGED <<theRing, last>> /\ \E place : where' = [where EXCEPT ![s] = place]
    BY <1>3
    DEF EnterSection, LeaveSection, msg_send, TestRoom, SendWakesReader, SendResets, SendBlocks,
        SendTimeout, SendSignals, EventStep, Goes
  <2>2. where'[Receiver] = where[Receiver]
    BY <2>1 DEF RingInv, RingTypes, Workers
  <2> QED BY <1>1, <2>1, <2>2, RestOfTheRing
<1>4. ASSUME NEW s \in Senders, WrapRear(s)
      PROVE  UNCHANGED <<Unread, last>>
  <2>1. /\ RearIndex' = RearIndex % MsgLength /\ UNCHANGED <<MsgBuffer, HeadIndex, last>>
        /\ where' = [where EXCEPT ![s] = "store"]
    BY <1>4 DEF WrapRear, Goes
  <2>2. End = RearIndex % MsgLength /\ End \in 0 .. MsgLength - 1
    BY EndsOfTheCode, EndsAreIn DEF RingInv
  <2>3. First' = First /\ End' = End
    BY <2>1, <2>2 DEF First, End, Cell, MsgLength
  <2>4. where'[Receiver] = where[Receiver]
    BY <2>1 DEF RingInv, RingTypes, Workers
  <2> QED BY <2>1, <2>3, <2>4, RestOfTheRing
<1>5. ASSUME NEW s \in Senders, Store(s)
      PROVE  Fifo!Put
  BY <1>5, StorePuts
<1>6. ASSUME \/ msg_receive \/ TestBytes \/ ReceiveWakesWriter \/ ReceiveResets
             \/ ReceiveBlocks \/ ReceiveTimeout \/ ReceiveSignals
      PROVE  UNCHANGED <<Unread, last>>
  <2>1. UNCHANGED <<theRing, last>> /\ where[Receiver] # "advance" /\ where'[Receiver] # "advance"
    BY <1>6
    DEF msg_receive, TestBytes, ReceiveWakesWriter, ReceiveResets, ReceiveBlocks, ReceiveTimeout,
        ReceiveSignals, EventStep, Runs, Goes, RingInv, RingTypes, Workers
  <2> QED BY <1>1, <2>1, RestOfTheRing
<1>7. ASSUME WrapHead
      PROVE  UNCHANGED <<Unread, last>>
  <2>1. /\ HeadIndex' = HeadIndex % MsgLength /\ UNCHANGED <<MsgBuffer, RearIndex, last>>
        /\ where[Receiver] # "advance" /\ where'[Receiver] # "advance"
    BY <1>7 DEF WrapHead, Runs, Goes, RingInv, RingTypes, Workers
  <2>2. First = HeadIndex % MsgLength /\ First \in 0 .. MsgLength - 1
    BY EndsOfTheCode, EndsAreIn DEF RingInv
  <2>3. First' = First /\ End' = End
    BY <2>1, <2>2 DEF First, End, Cell, MsgLength
  <2> QED BY <2>1, <2>3, RestOfTheRing
<1>8. ASSUME Take PROVE Fifo!Get
  BY <1>8, TakeGets
<1>9. ASSUME AdvanceHead PROVE UNCHANGED <<Unread, last>>
  BY <1>9, AdvanceGetsNothing
<1>10. ASSUME NEW t \in Workers,
              \/ task_create(t) \/ task_delete_force(t)
              \/ \E caller \in Workers : task_delete(caller, t)
       PROVE  UNCHANGED <<Unread, last>>
  <2>1. UNCHANGED <<theRing, last, where>>
    BY <1>10 DEF task_create, task_delete_force, task_delete, TaskStops
  <2> QED BY <1>1, <2>1, RestOfTheRing
<1> QED BY <1>2, <1>3, <1>4, <1>5, <1>6, <1>7, <1>8, <1>9, <1>10 DEF RingNext, Fifo!Next

(* The ring of the earlier library is a queue of bytes for any number of    *)
(* senders, any size and any length of message: a byte is put only where    *)
(* there is room, none is lost, doubled or overtaken between the indices,   *)
(* wherever the two sides stand and whichever task is deleted.              *)
THEOREM RingIsByteFifo == RingSpec => ImplementsByteFifo
<1>1. RingInit => RingInv /\ Fifo!Init
  <2> SUFFICES ASSUME RingInit PROVE RingInv /\ Fifo!Init
    OBVIOUS
  <2>1. RingInv
    BY RingStarts
  <2>2. Unread = <<>>
    <3>1. Held = 0 /\ Read = 0
      BY RingSizes DEF RingInit, msg_queue_create, Held, First, End, Cell, Read, Workers
    <3> QED BY <2>1, <3>1, UnreadAre DEF UnreadStand
  <2> QED BY <2>1, <2>2 DEF Fifo!Init
<1>2. RingInv /\ RingInv' /\ [RingNext]_ringVars => [Fifo!Next]_<<Unread, last>>
  BY RingStepIsFifo
<1> QED BY <1>1, <1>2, RingStepKeeps, PTL DEF RingSpec, ImplementsByteFifo, Fifo!Spec
==============================================================================
