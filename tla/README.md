# TLA+ models of the foundation library

The repository is a C library that gives embedded programs one interface to
three platforms (Linux/pthread, VxWorks, Windows): a parallel-access list, a
mutex, a semaphore, message queues, threads, sockets, time, MD5 and UUIDs.  The
code that is built is under `src/source/`; `src/backup/` holds earlier versions
and tools, `src/include/` copies of the headers and `src/doc/` binary
documents.  Paths below are relative to `src/source/` unless they begin with
`backup/` or `include/`.

## 1. Inventory

| component | state | operations | what is hard | status |
|---|---|---|---|---|
| parallel-access list, `data_structure/list.c` | ring of nodes, `EntryAmount`, two permission counters per node, one mutex; the callers' handles | `Initialize`, `InsertNodeHead`, `InsertNodeHandle`, `FindSW/MW`, `FindNodeNum`, `DeleteNodeSW/MW`, `GetNextNode`, `GetPreviousNode`, `GetPermisssion`, `ReleasePermission`, `DeleteNodes`, `Delete` | the mutex is free while a search compares; a node lives as long as a permission on it does | modelled |
| mutex, `mutex/mutex.c` | a kernel mutex | `mutex_create/delete/lock/unlock` | timeouts, three platforms with three kinds of answer, owners that end | modelled |
| semaphore, `semaphore/semsync.c` | a kernel counter | `sem_create/delete/take/give` | as the mutex | modelled |
| message queue, `MessageQueue/MessageQueue.c` over `pthread/mqueue.c` | a POSIX or VxWorks queue, the `O_NONBLOCK` flag of its open description, its name in the kernel | `MsgQCreate/Delete/Send/Receive/NumMsgs` | the waiting mode goes through a flag all users of the queue share; names outlive processes | modelled; of `mqueue.c` what it uses |
| thread handles, `thread/thread.c` | `is_created`, identifier, parameters, attributes | init, create, suspend, resume, priority set/get, cancel, destroy | a thread that ends while its handle says it runs; reused identifiers | modelled |
| tasks, spawning, attributes, `task/task.c`, `pthread/pthread.c`, `pthreadAttr.c`, `pthreadSched.c` | attributes, argument block of the spawned thread, scheduling of running threads | spawn, cancel, join, detach, verify; one call per attribute | who frees the argument block; a priority is checked against the policy of the moment | Linux modelled |
| pthread synchronisation, `pthread/pthreadSync.c` | the system's mutexes, semaphores, read-write locks, conditions | init, lock, wait, signal, unlock, destroy with a waiting mode | milliseconds become an absolute time; a wait for a condition gives the mutex up and takes it back | modelled |
| connections and transfers, `socket/basicApiWrap.c`, `netIO.c`, `ioctl.c` | descriptors, partial transfers, the mode of a socket | connect with and without a time limit, accept, close, `readn`, `writen` | answers after the time limit, error paths, partial transfers | core modelled |
| addresses and options, `socket/sockaddr.c`, `sockopt.c` | a static text buffer; kernel options | conversions; buffer sizes, reuse | the buffer is shared by all threads | conversions modelled |
| multicast, `socket/mcastApiWrap.c` | the memberships and options of a socket | join, leave, block, sources, ttl, loop | interfaces that some calls name and others do not | modelled but for `mcast.c` |
| time, `time/timeutil.c` | system time | `gregorian2sec`; set and get the time | leap days, a year that begins in March, months from 0 and from 1 | modelled but for the tick rate |
| UUID, `utility/uuid/uuid.c` | node, clock sequence, last time, state file | `uuid_sys_init`, `uuid_create` | two UUIDs within one clock reading, a clock set back, a file lost between two starts | modelled for one thread |
| MD5, `utility/md5/md5.c` | 64-byte block buffer, bit count | `MD5Init/Update/Final` | block boundaries, the two words of the count | buffering modelled |
| earlier library, `backup/osi/` | a byte ring with two events (`mgosi.c`); descriptors and their options (`netApiWrap/`) | send, receive; connect, read, write | no lock around the ring; a lost wakeup; modes changed and restored by a connect | the parts that differ from today's |
| tools, `backup/tool/` | lines with permissions, a file; strings; a connection | edit and save texts, string functions, `atomread/atomwrite` | saving while others edit; bytes moved before an error | modelled but for printing |
| `debug/`, test drivers | none of their own | | | not modelled |

How they interact.  The list calls `mutex_lock(MutexHandle, WAIT_FOREVER)` and
`mutex_unlock` around every critical section; nothing else of `src/source` calls
back into it, and the text tools keep their lines in it.  `MessageQueue.c` calls
`mqueue.c` on Linux and msgQLib on VxWorks.  `TaskCreate` calls `pthreadSpawn`,
which calls the attribute wrappers and `pthread_create`.  The connection calls
set options and modes through `sockopt.c` and `ioctl.c`.  `mutex.c`, `semsync.c`
and `thread.c` go straight to the system, and so do UUID, time and MD5, which
call nothing else of the library.  Callers share a list, a mutex or a queue among
threads; a thread handle, and a node handle of the list, belongs to one caller
at a time.

What makes each of them correct: a list node is used only while it is allocated
and linked, a write permission excludes the others, the counters are the number
of users, the ring is one ring; a thread was told it owns a lock exactly when
it does; no thread passes `sem_take` without a token; a call on a queue waits
when it was asked to wait, urgent messages are received before normal ones and
normal ones in order, and a queue that was created is new; a thread handle leads
to its own thread and to no other; a spawned routine gets its own arguments and the scheduling it was
promised; a caller told of a connection has it, and its messages arrive in step;
no two UUIDs are equal; a date is converted as the calendar counts; a digest is
that of the message, whatever pieces it came in; a text that is saved is the
text.

`PROJECT.json` lists the hazards, each at the line where it bites.

## 2. Modules

| module | models | size |
|---|---|---|
| `ParList` | `list.c`: one action per critical section, or per piece of code between two; loops that run under the mutex take one action per iteration | core |
| `NodeAccess` | what the permissions of the list promise, without ring, counters, mutex or memory; `ParList` implements it | abstract |
| `OsMutex` | `mutex.c` on the three platforms over an external kernel mutex, with a clock | |
| `Lock` | what a lock promises: nobody is told he has it while another was; `OsMutex` and the mutex of `PthreadSync` implement it, and `ParList` takes it as given for the list's mutex | abstract |
| `OsSemaphore` | `semsync.c` on the three platforms over an external counter | |
| `MsgQueue` | `MessageQueue.c` and the `mqueue.c` wrappers over external queues | |
| `QueueNames` | the name of a queue over the lives of the processes that use it | |
| `ThreadHandle` | `thread.c` over external threads | |
| `Spawn` | `TaskCreate`, `pthreadSpawn`, `threadWrapper2` over external `malloc` and threads | |
| `PthreadAttr` | `pthreadAttr.c`, `pthreadSched.c` and the threads made from attributes | |
| `PthreadSync` | `pthreadSync.c`: mutex, condition, read-write lock, semaphore, with a clock in ns | |
| `TcpConnect` | `basicApiWrap.c`: making, connecting, accepting and closing TCP sockets | |
| `SocketStream` | `readn` and `writen` of `netIO.c` on the two ends of a stream | |
| `Sockaddr` | `sockaddr.c` with its static buffer | |
| `Multicast` | `mcastApiWrap.c` over the kernel's memberships and filters | |
| `Uuid` | `uuid.c` over an external clock and file, with restarts | |
| `TimeUtil` | `gregorian2sec` against a walk through the calendar | |
| `SystemClock` | the calls of `timeutil.c` that set and read the clock; extends `TimeUtil` | |
| `Md5` | the buffer and the bit count of `md5.c` | |
| `RingQueue` | the Windows message queue of `backup/osi/mgosi.c` | |
| `ByteFifo` | what a queue of bytes promises; `RingQueue` implements it | abstract |
| `EarlierNet` | a client of `backup/osi/netApiWrap` and its server | |
| `TextEdit` | `backup/tool/text.c` and `configPars.c` | |
| `AtomStream` | `atomread` and `atomwrite` of `backup/tool/tool.c` | |
| `ToolStrings` | the string functions of `tool.c` against what they compute | |
| `MC*` | instances for TLC: names for model values and argument sets | |
| `MCSystem` | besides, five components side by side: a behaviour is a behaviour of one of them, and the others keep their initial states | |
| `MCSmall` | the same for sixteen components with small state spaces | |
| `ParListProofs` | theorems about `ParList` and `NodeAccess` | |
| `SystemProofs` | about `OsMutex`, `Lock`, `TcpConnect`, `PthreadSync`, `ThreadHandle` | |
| `MsgQueueProofs` | about `MsgQueue`, `RingQueue`, `ByteFifo` | |
| `TaskProofs` | about `OsSemaphore`, `Spawn`, `PthreadAttr`, `QueueNames` | |
| `NetProofs` | about `Sockaddr`, `Multicast`, `EarlierNet` | |
| `StreamProofs` | about `SocketStream`, `AtomStream`, `TextEdit` | |
| `UtilityProofs` | about `Uuid`, `TimeUtil`, `SystemClock`, `Md5` | |
| `ToolStringsProofs` | about `ToolStrings` | |

### ParList and the code

`NextNode`, `PreviousNode`, `ReadPermission`, `WritePermission` are the fields of
`LIST_NODE`, indexed by address; `heap` is what `malloc` returned and `free` has
not taken back, so an address may be used again.  `EntriesList` and `EntryAmount`
are the fields of `LIST_HEAD`; `HeadLive` says that the head is allocated.
`Mutex` names the thread inside a loop under the mutex; critical sections
without a loop are one action, and wait for `Mutex = Null`.  `pc`, `cur` and
`call` are a thread's place and locals, `EntryPtr[h]` a handle's node and
`perm[h]` the permission its owner holds through it (the code does not record
it: it is in the caller's hands).

* `Insert`: `Malloc` outside the mutex (malloc, memset), then `LinkFirst`,
  `LinkBefore`, `LinkAfter` or, for a position that is neither, `LinkNowhere`.
* `Find`: `FindStart` pins the first node with a temporary read permission and
  unlocks; the comparison runs without the mutex; `FindNext` moves the pin,
  `FindMatch` turns it into the permission asked for or denies it.
* `DeleteNode`: the same search, then `Unlink` in a second critical section,
  which reads the counters again, then `FreeNode` outside it.
* `FindNodeNum`, `GetNode` (both walks), `Permission`, `DeleteList`
  (`DeleteNodes`, `Delete`, `Initialize`).

The comparator's verdict is not the one the caller expects: line 347 reads
`(CmpFcn(...), UserData) == AII_OK`, so a node matches exactly when `UserData` is
null.  `Matches` is that.  Keywords are therefore kept only for the run `match`.

Not in `ParList`: `CreateHandle` and `DeleteHandle` (they allocate the caller's
handle), `IsEmpty`, `Count`, `GetData`, `GetDataLen` and printing (they change
nothing), and the early returns without effect: a failing `malloc`, a handle that is
empty.  `DeleteNodeMW` searches with a handle on its stack whose entry it never sets
(`list.c:1048`); if that happens to be null, `FindMW` refuses it (line 453) and nothing
is deleted.

Callers are assumed to follow the header's protocol: a handle is used to reach
a node only while a permission is held through it, every permission is released
once, a handle whose permission is held is not overwritten, `Delete` is called
when no other thread is inside.  The assumptions are the guards `Empty`, `Holds`
`SweepStart`'s second conjunct, and the last one of `CanCall`.

### The other modules

`OsMutex`: `owner`, `count`, `abandoned` are the kernel's; `held[t]` is what `t`
concludes from the `AII_OK`s it was given, and `told` of `Lock`.
`Deadline` is the time the kernel is
told to give up, as each branch of `mutex_lock` computes it, `TimeoutAnswer` what
the caller is told then.  `Exit` ends an owner's thread.

`OsSemaphore`: `value` is the kernel's counter, `told` the same counter as the
callers can know it.

`MsgQueue`: a call is two steps, the way into the kernel (`MsgQSend`, which on
Linux sets or clears `O_NONBLOCK` first; `MsgQReceive`) and what the kernel does
with it (`Put`, `Get`, `GiveUp`, `Block`, `TimeUp`).  Between the two any other
thread may change the flag; `lastSetting` is history, the sender that set or cleared
it last.  `Passed` is the priority that `MsgQSend` passes on, `Place` what the kernel
does with it.  `MsgQDelete` unlinks on Linux and ends the queue and every wait on
VxWorks.

`ThreadHandle`: `thread[x]` is the system's thread with identifier `x`; detached
threads give their identifier back when they end, cancelled or by themselves.
`bereft` is history: the handles whose last thread ended without their asking, by
itself or by a call of a handle that this had happened to.  `Prepared`, `Clamped` and
`Acceptable` are the attributes that the Linux branch of `thread_create` builds.

`Spawn`: `place` is a spawner's place in `pthreadSpawn`, `func` and `attr` its
locals; `allocated` and `block` are the heap, as far as it holds
`FUNC_WRAPPER2`s.  A new thread with one argument or none runs its routine at once;
one with more is in `threadWrapper2`, where `Copy` and `FreeArgument` are two
steps.  `meant` is history: the request a thread was created for.

`Uuid`: `whole` and `saved` are the state file, truncated by `BeginInit` and
written by `EndInit`; `IsFirstTime`, `time_last` and `uuids_this_tick` are the
statics of `get_current_time`, which `Stop` resets because they end with the
process.  A UUID is its time and clock sequence.  Calls come in any number within one
reading of the clock, and the clock is set back, or a file lost, at any moment.  What
a repeat is due to is kept in three histories that no code knows: `asked`, whether
UUIDs were given at this reading of the clock and whether the counter still knows of
them; `standing`, whether the clock sequence in use may have been in use at such a
time before; and `over` of a UUID that was counted past the end of its reading.
`mishap`: the clock is set back or the file is lost, not both (a new random
sequence may be one that was used before the clock was set back).  One thread
uses the library: its statics have no lock.

`TimeUtil`: `date` walks through the calendar day by day (`NextDate`, `DaysIn`,
`IsLeap` are the reference), `gregorian2sec` converts each day at some time of
day.  It subtracts two from the month of its argument, and from the year, so that a
structure converted twice without being filled in again gives two answers;
`filled` keeps callers from that.

`Md5`: a byte is named by what it is, and the state of a context is the sequence
of blocks given to `MD5Transform`.  The word of the bit count is small enough to
carry.  An `inputLen` within 63 of 2^32 would wrap the sum `i + 63` at line 108
and is left out.

`QueueNames`: `named` is what the one name leads to, `descriptors` what each
process has open.  `ProcessEnds`, an action at any point, closes them as the system
does, and without `MsgQDelete` the name stays.  `born` and the moment each
message was sent make "new" a property of histories.

`PthreadAttr`: a setter maps attributes to an answer and attributes, so that the
sequences of calls in `pthreadSpawn` and in `pthread_create` are compositions of
setters, in the order of the code; `wanted` is what was asked for.

`PthreadSync`: a program uses one of the sets in `Programs`.  A call that waits is
two or more steps: `Wait` computes the absolute time (`getTimespec`, with a clock
that may fail), `MutexGranted`, `RwGranted`, `TokenTaken`, `LockedAgain` or
`TimeOver` end it.  `rely[t]` is what `t` concludes from its answers, `due[t]` when
the wait should end.  A read-write lock asked for with a time in milliseconds
runs into no branch of the code (`NothingDone`).

`TcpConnect`: `sock` is the kernel's; `call[c]` the place of thread `c` in one of
six functions, which share the actions of the pieces they share.  `Resolve` is the
network's answer, at any time after `connect()` began, also when the caller has
returned.  `told` and `lost` are history: the descriptors somebody was told are
connected, and those that nobody was told of.

`SocketStream`, `AtomStream`: `select`, `read` and `write` move some of what they were
asked, at every step; a time that runs out, a signal, a failure of the connection
and its end are alternatives of the step.  A byte is its number in the stream.

`Sockaddr`: `sock_ntop` and the copy to the caller are two steps, with the static
buffer `str` between them, and nothing keeps two callers from being there at once: a
data race, so that what such a call is given is any text.  `beside` is history: the
calls that another one was beside.

`Multicast`: a call resolves its interface as the code does and changes the
kernel's `member`; `answered` is what a caller may conclude from the answers 0.

`SystemClock`: a calendar time is set by one pair of calls and read by any other
while seconds pass; `intended` is history, the time that was set and ran on in the
fields of a date (`SecondLater`).  `convertTime`, which `setNormalTime` calls, is in no file of
the repository; it is taken for the inverse of `gmtime` and external.

`RingQueue`: a byte is written and the index moved in one step, `where` is a
task's place between them; `task_delete` and `task_delete_force` end a task
anywhere.  `msg_send` takes no lock: that senders take turns (`EnterSection`) is
assumed of them.  `Unread` is the ring as a sequence, as `ByteFifo` sees it: a byte is
got when the receiver reads it, and its cell is free when `HeadIndex` has passed.
`EarlierNet`: `given` is what the client was told and asked for by descriptor.
`TextEdit`: the list is
taken by its `list.h`, with the permissions it grants; a line that is replaced in
place is `Torn` between the two steps of the replacement; a save writes a line at
a time.  `ToolStrings` has no
behaviour but the choice of two strings: each of its functions is the code's loop
as a recursive function of the loop's variables.

## 3. Runs

| run | what it asks | bounds |
|---|---|---|
| `parallel` | two threads insert, search, delete, walk and take permissions: `CountersMatchUsers`, `WriteIsExclusive`, `UsedNodesAreLinked`, `RingIsWhole`; and the refinement of `NodeAccess` | 2 threads, 1 handle each, 3 nodes |
| `teardown` | the same with `DeleteNodes`, `Delete`, `Initialize`: `FreedNodesAreUnused`, `NothingSurvivesDelete`, `SweepLeavesUsedNodes`, and `MutexIsReleased`: every loop under the mutex ends | 2 threads, 3 handles, 2 nodes |
| `sequential` | one caller with every routine, `FindNodeNum` included: types and counters | 1 thread, 2 handles, 3 nodes, indices 1 and 2 |
| `system` | five components side by side, with liveness: | |
| | mutex: `ReturnsTellOwnership` on three platforms; `TimedLocksReturn`, whatever the owner does; `ImplementsLock`, the refinement of `Lock` | 3 threads, depth 2, waits of 0 and 40 ms on Linux, 48 ms of time |
| | thread handles: `FlagTellsThread`, `ActsOnOwnThread`, `DestroyEndsThread` | 2 handles, 2 identifiers, priorities 0 and 10, Linux and VxWorks, threads that end by themselves at any moment |
| | connections: `ConnectionsAsTold`, `AbandonedIsReset` | 2 threads, 2 descriptors |
| | streams: `StreamIsRead` | messages of 3 bytes, room for 4, 3 messages |
| | pthread synchronisation: `WaitsKeepTheirWord` | 2 threads, a second of 3 ms, waits of 0, 1, 4 ms and for ever, a clock up to 5, up to 2 tokens |
| `parts` | sixteen small components side by side: | |
| | `WaitsAsAsked`: only another thread's setting of the shared flag turns a wait round; `MessagesInOrder`: urgent before normal, normal in order; over deletion and creation | 2 threads, Linux and VxWorks, any waiting times, a queue of 2 messages, 4 accepted per life of the queue |
| | `AccountsAgree`: the answers account for every token of a semaphore, on three platforms | 3 threads, initial counts 0, 1 and 3, a maximum of 2 (so that Windows refuses), counter up to 4 |
| | `ArgumentsAreSafe`: arguments arrive, blocks have one owner | 2 spawners, 2 identifiers, 2 addresses, a request without and two with a block |
| | `TasksAsAsked`: tasks are accepted, run as asked, leave nothing | 1 thread at a time besides the creator, priorities below, in and above a range up to 1, stacks below and above the minimum |
| | `RepeatsExplained`: a UUID is given twice for three reasons only, over restarts and mishaps | clock 0 and 2 in a step of 2 units, 3 UUIDs per tick, 2 clock sequences, 2 UUIDs |
| | `SecondsSinceEpoch`: dates become the right seconds | every day from 1970 to 2004, at its last second |
| | `ClockReadsAsSet` | years 1970, 2000, 2037, months and days in and out of range, 2 seconds after each setting |
| | `DigestOfMessage`: MD5 digests the padded message | blocks of 4 bytes with 2 for the length, words of 64 values, messages up to 20 bytes in pieces up to 11 |
| | `CreatedIsNew`: a created queue is new | 2 processes, 3 kernel queues, 2 messages each, 3 creations and sends |
| | `AddressesReadBack` | 2 callers, also beside each other, two IPv4 addresses (one of them the broadcast), one IPv6, one of no family, a text that is none |
| | `MulticastAsTold` | a group of each family, 2 sources, 3 interfaces: the default one, one without an address, one that is absent |
| | `MessagesStayWhole` | 2 senders, messages of 2 bytes, a ring with room for one, 3 sends, deletion anywhere |
| | `EarlierAsPromised` | 2 descriptors, requests of 2 bytes, 2 on a connection, options before the first request, on one socket at a time |
| | `TextIsKept` | 2 editors, 3 lines, 3 calls, files with two lines and with an empty one |
| | `AtomReadsWhole` | messages of 2 bytes, room for 3, 3 tries, 3 messages |
| | `StringsAsTold` | every pair of strings up to 3 characters of 4 (a newline, a letter in both cases, another letter) |
| `sweep` | violated: `DeleteNodes` on four nodes breaks the ring | 1 thread, 4 nodes |
| `match` | violated: a deletion takes a node with another keyword | 1 thread, 2 nodes, 2 keywords |
| `mutex_timeout` | violated: a lock that timed out says `AII_OK` on VxWorks and Windows | 2 threads |
| `queue_nowait` | violated: a `NO_WAIT` sender blocks | 2 threads |
| `uuid_tick` | violated: two calls within one reading of the clock, after the first reading, give one UUID | clock 0 to 6, 3 UUIDs, without mishaps |
| `findstr` | violated: `findstr` does not find a string in the middle of the text | strings up to 3 characters |
| `rwlock` | violated: a read-write lock asked for with a time in milliseconds is answered 0 and not held | as `system` |

The bounds, and why they are enough.  Two threads and three nodes are the smallest
list on which a search, a deletion and an insertion can meet at a node that is
first, in the middle and last, with an address that is free again; a third node is
needed for a ring whose two neighbours differ.  `teardown` has two nodes but three
handles, so that one thread can hold two permissions while the other sweeps; the
heap is exhausted and refilled.  In it the insertions and the walks are cut to one
of each kind.  `FindNodeNum` runs with one thread only because it does not keep its
own permission straight (below).  Three threads are an owner, a waiter and one that
comes between them, for the mutex and the semaphore.  Two threads on a message queue
are a caller and the one that changes the flag while it is on its way or waits; the
proofs are for any number.  A queue of two messages is the smallest in which order
exists, and is at its limits most of the time.  Two identifiers for two handles make
every identifier one that has been used by the other handle. Two spawners and two
addresses let a block be freed by one thread and filled again by the other spawner
while the first thread starts.  The UUID clock has two readings, a start and a UUID
in either order and the clock set back from one to the other; two UUIDs are a pair
that could be equal, and two units in a reading with three per tick let one be
counted past its end.  Each of the three reasons of `RepeatsExplained` occurs:
without any one of them the run fails.  The proof has no bound. The dates end in
2004, past the leap year 2000, which a rule of centuries alone would miss, and the
one after it; the proof has no last year.  Messages of up to five blocks in pieces
of up to nearly three put every boundary inside, at the end and just behind a piece,
and the bit count carries twice.

Two descriptors are one in use and one that was closed and is given out again while
another thread's call is under way.  A second of three nanoseconds, with waits of
one and of four, makes a wait end in the same second, in the next and in the one
after it.  A room of four bytes for messages of three leaves the stream full and
empty at every offset.  A ring with room for one message is full and empty at every
offset too, and of three messages the third meets the bytes of one that was cut off.
Two processes, three kernel queues and three creations and sends let a queue be
unlinked while it is held, made again under its name, and found by a process that
started again.  Three lines and three calls are a save, an insertion before its
place and a replacement at its place.  One thread identifier is enough for the
attributes: every thread is made from an object of its own or from the
application's, and the identifier is used again.

### Fairness

`LiveSpec` of the list is weakly fair to the iterations of a loop under the
mutex: they wait for nothing, so the scheduler runs them.  Nothing is assumed
of callers.  `SystemFairness` says that the kernel ends a wait it can end (a mutex
that is free, a time that is over) and that a cancelled thread reaches a
cancellation point (`EndCancelled`; a routine need not end).  The other modules have
no liveness property: their calls wait for other callers, for a peer or for a clock,
and nothing in the code makes those come.

`CHECK_DEADLOCK FALSE` is given where the system may stop: in `system` a thread
may be blocked for ever on a mutex whose owner is gone, and in `parts` on an empty
queue or a semaphore that nobody gives; a calendar and a clock end.  The list is
checked for deadlock.

## 4. What is proved

Every safety property of the passing runs is a theorem, for
any number of threads and any value of the other constants under the named
assumptions of the modules.  The argument is the same everywhere: an invariant
that holds at the start, that every action keeps, one lemma per action, and that
implies the property.  What follows says what each invariant adds to its
property, and why.  `SafeUse` in some of the modules names the uses that the
violation runs, or section 5, show to be unsafe; where none is mentioned there is
none.

**ParListProofs**: all the routines of the list.  The properties of the runs are
not inductive alone: a thread about to unlink knows its node is still linked only
because its write permission is one of the counted ones, the counters are right
only if no two threads are about to link one node, and the ring stays a ring only
if the neighbours that are joined are linked.

* `ListInv` joins the types, `Control` (where a thread can be and with which
  arguments), `DetachedApart`, `UsedNodesAreLinked`, `RingIsWhole`,
  `CountersMatchUsers` and `WriteIsExclusive`.  `IsRing` says that a set with the
  first node and closed under `NextNode` is the whole list, which needs no
  recursion; `LinkExtendsRing` and `JoinKeepsRing` are the two facts about rings, and
  `CountUsers`, `FollowsCounts`, `CountersFollow` those about counters as
  cardinalities.
* `SweepSound` is about the loop of `DeleteNodes`.  `SweptUpTo` says that a set `V` is
  what the loop has behind it: nodes in use, from the first one on, closed under
  `NextNode` but for the current node.  At the last node the closure makes `V` the
  rest of the ring, so that "the first node is left" is decided on the whole list.
* `DeleteAlone`: `Delete` has the list for itself, and frees the head when the heap is
  empty.

`SafeUse` says of every step that it does not run into one of three defects
(`Spared`): `FindNodeNum` decides without the mutex whether it went round, and may
decide wrongly; a sweep that passes over a used node after it freed one joins
the ring through `PreviousNodePtr`, which it freed; a sweep reads `NextNode` of the
node it has freed, which `malloc` may have handed out.  `CarefulUse` is a way to
keep clear of all three that callers can follow (no `FindNodeNum`; `DeleteNodes` and
`Delete` when no node is in use), and `CarefulIsSafe` proves it enough.

`Refinement` is the step simulation of `NodeAccess`.  `AccessOf` reads a user's access
from the state, `Gets` says that one user's access changes and no other's,
`Compatibility` draws the grants that exclude each other from the counters, and
`AbstractObtain`, `AbstractMove`, `AbstractPass`, `AbstractEnd`, `AbstractAdd`,
`AbstractRemove` and `AbstractSweep` are the abstract steps; then one lemma per kind
of concrete step.

Theorems: `Inductive`, `Typing`, `CountersMatch`, `WritersAlone`, `NoUseAfterFree`,
`RingStaysWhole`, `FreedUnused`, `NothingSurvives`, `SweepsLeaveUsed`, `Refinement`,
`CarefulIsSafe`.

**SystemProofs**, mutex (`SafeUse`: waiting times on Linux only, no owner ends on
Windows).  `AnswersTellOwnership`: `held` and the kernel's `owner` and `count` agree; an
owner that ended on Linux or VxWorks keeps the mutex, deleted or not, and nobody
is told anything.

`MutexIsLock` needs less: waiting times on Linux only (`TimedOnLinux`), and owners may
end on Windows too, where the next one to get the mutex is answered `AII_ERROR`.
`held` and the kernel's count then differ, and `HeldInv` says only what remains: a
mutex that somebody was told he has is the kernel's, which may count more.  Every
step is then one of `Lock` or leaves `held` alone.  `MutexExcludes` draws mutual
exclusion of the answers from it, by `LockIsSafe`.  `PthreadMutexIsLock` is the
same refinement for the mutex of `pthreadSync.c`, where it says that a thread in
`pthread_cond_wait` has given the mutex back and is told nothing until it has it
again; it rests on `HoldsTold` below.

**SystemProofs**, connections.  `ConnInv` adds to
`ConnectionsAsTold` what a thread in each place of a call knows of its socket
(`Fits`): that it is its own, that the place after a successful answer has a
socket that is up, and that the place before a close has its lingering off.
`OthersFit` is the argument why no other thread disturbs this: a step touches a
socket its thread knows or a closed one, and no two threads know one.
`SameKnowledge`, `OpenKeeps` and `ShutKeeps` then carry the invariant over the steps
that leave, add and remove what a thread knows.  Theorems:
`ConnectionsToldTruly`, `AbandonedAttemptsAreReset`; the latter rests on
`OpenStays`, that only three operations close a socket.

**SystemProofs**, pthread synchronisation.  `HoldsTold`: at every
place, not only outside the calls, the mutex is relied on by its holder and by
nobody else, and the same of the read-write lock for threads that never asked
for it with a time.  `MomentIsDue` is the arithmetic of `getTimespec`: whatever the
length of a second, its absolute time is not before the one asked for, and at
most a second later.  Theorems: `PthreadWaitsKeepTheirWord`, `PthreadMutexIsLock`.

**MsgQueueProofs**, message queue, with any waiting times on both platforms.
`MsgQInv` adds that the shared flag is what `lastSetting` says, that a queue whose flag
nobody set has it clear, that a sender on its way either was the last to set it or
another one was, and that every queue is `Ordered`: urgent ones first, the numbers of
normal ones rising, and no number above the number accepted.  Theorems:
`MsgQInductive`, `WaitsAreAsAsked`, `UrgentIsFirst`, `NormalOnesAreFifo`, `OrderIsKept`.

**MsgQueueProofs**, ring of bytes.  The ring has two ends that two tasks move without
a lock.  `SendHasRoom` and `ReceiveHasBytes` say, at each place, how many cells a sender
may still fill and a receiver still take: the other side only adds to them,
which is why a test made before a step is still true at the step.  `InOrder`
says that each byte follows the one in the cell before, and the first the one
received last; `NewestIsOfSender` that the one stored last is of the sender in the
section, so that the next one follows it too.  The indices are taken modulo the
length by `Cell`, since the code moves them over the end in a step of its own.
Theorem: `MessagesAreWhole`.

`RingIsByteFifo` is the refinement of `ByteFifo`.  `UnreadAre` is where its bytes are:
from the first cell that was not read, up to the end.  Three kinds of step then
matter: the sender's store puts a byte behind the others
(`StorePuts`), the receiver's read gets the oldest (`TakeGets`), and its move of its
index gets none (`AdvanceGetsNothing`); every other step moves no unread byte
(`SameUnread`).  A sender may overwrite nothing unread because the cell it writes is
behind the last one and the ring is kept one short of full.

**SystemProofs**, thread handles (`HandleUse`: Linux and VxWorks; threads end by
themselves at any moment).  `Together`: a handle with `is_created` that is not `bereft`
leads to a live thread it created, every live thread back to its handle, and no
bereft handle has a live thread.  Theorems: `HandlesInductive`, `FlagIsRight`,
`CallsActOnTheirOwn`, and `PriorityIsReal` (VxWorks, threads that run until they are
cancelled; no run checks it), which needs the further invariant `PriorityKept`.

**TaskProofs**, semaphore (`FiniteOnLinux`: finite waits on Linux only).  `TokenInv`:
the kernel's counter is the one the callers can know.  Theorem:
`AnswersAccountForTokens`.

**TaskProofs**, spawning.  `SpawnInv` says what a
spawner's and a thread's pointer holds at each place (`SpawnerSound`,
`ThreadSound`), that no two of them hold one block (`SpawnersApart`,
`ThreadsApart`, `BothApart`) and that somebody holds every allocated one
(`Owned`); a block in use holds the request of its owner, which is why the
arguments arrive.  Theorems: `NoBlockIsLost`, `RoutinesGetTheirArguments`,
`ArgumentsStaySafe`.

**TaskProofs**, attributes.  `TaskAttributes` is what the chain of setters in `TaskCreate`
makes of any priority and stack size: each setter accepts what the one before
left (`ScaledIsInScope`, `AtLeastMinIs`), so that the system accepts the whole.
Theorem: `TasksAreAsAsked`.

**TaskProofs**, queue names.  `FreedAreEmpty`: what nothing leads to holds nothing, so
that the kernel's next queue is empty; `HandlesAreHeld`: a handle's queue is held
by a descriptor of its process, also after its name is gone, so that it is not
taken for another; `NotShared` and `SentSince` are the property from a handle's
side.  Theorem: `NamesAreNew`.

**NetProofs**.  Addresses: while a caller is about to copy and no other was beside it,
the static buffer is what its own `sock_ntop` wrote, whatever earlier calls left there;
`TextsAreOfTheirAddresses`.  Multicast: what was answered `Fits` the
membership, and as long as no source was named of one that takes all, all were
answered to be heard, which is when its mode may change; `MulticastIsAsTold`.
Earlier library: `OnTheWay` adds up the bytes of a request and its answer, in the
peer, on the wire and in the hands of the caller, against what is due;
`MadeFits` and `UsedFits` are what a call at each place knows of its
descriptor; `EarlierIsAsPromised`.

**StreamProofs**.  Streams: the bytes received, those of the wire and those not yet sent
are one run of numbers (`RunFrom`, `InStep`), until the first error;
`StreamReadWhole`, and `AtomReadWhole`, where what `atomread` has in its buffer is
between the messages delivered and the pipe.  Texts: a line held for writing is
held by one call alone, or kept for ever by `replace_kw` (`WritersAreAlone`);
a torn line is held for writing (`TornIsHeld`), so that a save, which reads under
a read permission, never meets one; the permissions are the calls at the line
and the kept ones; a save is at a line of the text and has written no more than
it had when it began (`SaverFits`).  A start, with any file, reads it to
`FreshText`.  `TextStaysKept`.

**UtilityProofs**, UUIDs, for any number of calls in a reading and either mishap at any
moment.  `Behind` says of a clock sequence what its UUIDs, but those counted past the
end of their reading, have to do with the clock: they are of earlier readings or of
this one, and `asked` and the counter know of the latter.  `Generations`, while the
state file is kept: the clock sequences given are the random one and its
increments, the file and the library hold the last of them, and it is `Behind` while
its `standing` is its own.  `Forward`, while the clock only goes on: the UUIDs of every
sequence are behind the clock, so that a lost file does no harm.  Theorem:
`RepeatsAreExplained`.

**UtilityProofs**, calendar and clock.  `CountsSeconds`, for every day without a last
year: the day number of the formula and the days walked differ by nothing
on the first day, and a step to the next day adds one to both, by cases on
the end of a month and of a year (`NextDateIsOneMore`).  `ClockIsRead`, for times
between 1970 and 2099 (`TimesAssumption`): a date determines its number of seconds
and, with `OneDate` and `OneTime`, the number determines the date (`OneMoment`); the year
and month that `gmtime_r` finds exist (`YearIs`, `MonthIs`) and give the number back
(`ShownIs`); and `LaterIs`: a second later, over a minute, a midnight, a month or
a year, is one more.  So `ClockInv` has only to follow the seconds.

**UtilityProofs**, MD5.  An open context `Holds` the message so far: the blocks
transformed are its whole blocks, the buffer the rest, the two words the number
of its bits.  `MD5Update` is the lemma `UpdateHolds`, from five about where bytes
go (`FewBytes`, `FirstBlock`, `InputBlocks`, `LastBytes`, `ManyBytes`) and `CountCarries`, that
the sum wrapped exactly when it is less than what was added.  `ZerosToFill` is the
padding.  `DigestIsOfMessage` then says which blocks a digest is made of, for any
length of blocks, words and messages and pieces of up to `WordSize - BlockLen` bytes;
beyond it `i + 63` wraps, and the assumption says so.  The loop over the
blocks is one function of the block's number in the model, not an induction.

**ToolStringsProofs**.  `StringsDoAsTold`, for strings of any length: it is an invariant of
a model with two states, and all of its difficulty is in what the loops compute.
The induction theorem of the library takes a predicate as a parameter, which no
prover here can instantiate; `NatSetInduction` says the same of a set, from the fact
that the naturals are well founded.  With it `LoopDefined` shows that a loop with a
measure that falls (`IsLoop`) has the function its equation describes, and
`LoopRule` is the rule for invariants of such a loop.  Each routine is then one use of
the two: `SearchFinds` for those that look for a character or an ending,
`ComparedAt` with `StrcmplowAgrees` and `StrcmpnAgrees` for the comparisons, which have
the sign of the first difference of the lowered strings or of their prefixes,
`StrmatchLast`, `ByteSums` and `LineRead`.

Only model-checked, because it is out of the prover's reach: the liveness properties
(`MutexIsReleased`, `TimedLocksReturn`, `DestroyEndsThread`).  Not proved either: anything
about the uses that `SafeUse` (of the list and of the mutex) leaves out, where the code
breaks the property, and the
properties of the violation runs for the parts of the code that keep them.

## 5. Where the code differs from what is written about it

Seven differences are runs of their own (`sweep`, `match`, `mutex_timeout`,
`queue_nowait`, `uuid_tick`, `rwlock`, `findstr`; see `findings` in `PROJECT.json`).  Others
were met while modelling; the models contain the code's behaviour, and the
passing runs leave it out by the value of a constant or by a condition of the
property:

* `list.c:652`: `FindNodeNum` with index 0, documented as allowed at line 574,
  always fails and keeps its temporary read permission, so that the first node
  cannot be deleted any more.  Set `Indices <- FromZero` in
  `ParList_sequential.cfg`.  The test that decides it is made without the mutex,
  so with a second thread that changes the first node it can go either way.
* `mutex.c:201`: on Linux the waiting time is handed to
  `pthread_mutex_timedlock` as an absolute time: every timed lock of a held mutex
  fails at once (`Deadline`).
* `mutex.c:246`: on Windows the thread that is given an abandoned mutex is told
  `AII_ERROR`.  Let a thread be in `Exits["WINDOWS"]`: `ReturnsTellOwnership` fails, while
  `ImplementsLock` still holds (`MutexIsLock`).
* `mqueue.c:168`: a `WAIT_FOREVER` receiver fails on an empty queue after anybody
  sent with `NO_WAIT` (the second conjunct of `WaitsAsAsked` says when).
* `MessageQueue.c:91`: on Linux `MsgQDelete` never closes the descriptor; the
  queue stays, with what is in it, until the process ends.  `MsgQDelete` also
  unlinks the name whoever's queue it leads to by then (`QueueDelete` of
  `QueueNames`).
* `MessageQueue.c:115` says that an urgent message is added "to the head of the queue",
  line 29 that messages are sorted by priority and fifo.  VxWorks follows the first, the
  last urgent message is the first received; Linux, where the priority is passed on to
  `mq_send` (`mqueue.c:112`), the second.  `MessagesInOrder` says what both agree on and
  is silent on the order among urgent messages.
* `thread.c:688`: threads are created detached and `is_created` is not reset when
  they end, so `thread_cancel`, documented at line 649 to cancel "a specific
  thread", may hit a thread of another handle that was given the identifier, and so
  may suspend, resume, priority and destroy.  It happens in `System_system.cfg`, to
  `bereft` handles: without `h \notin bereft` `ActsOnOwnThread` fails.
* `uuid.c:188`, `uuid.c:88`: besides the repeats of run `uuid_tick`, a UUID is given again
  when the clock was set back while the library was up, or set back and passed again
  before the next start, and when all clock sequences were used.
* `uuid.c:72`: a state file that is too short is opened again without being
  closed: one descriptor is lost.  Open files are not modelled.
* `thread.c:318`: on Windows `is_created` is never set.  Add `WINDOWS` to
  `Platforms` (and a third identifier).
* `thread.c:550`: on Linux `thread_priority_set` changes the attributes object
  and the record, not the running thread: `RecordedPriorityIsReal` excepts Linux.
* `thread.c:227`: the first thread of a handle with a real-time policy has its
  priority cut to 0, the range of `SCHED_OTHER`, and is refused (`Acceptable`).
* `mqueue.c:105`: after `MsgQSend` with `NO_WAIT` the queue's descriptor stays
  non-blocking for everybody (`Flag`).
* `sockaddr.c:92`: `Sock_ntop` copies from a buffer that another thread's call may
  have overwritten: without `~beside[c]` `AddressesReadBack` fails.  An address of no
  known family is answered 0, with a text that says so.
* `sockaddr.c`: `Sock_pton_v4` answers -1 for 255.255.255.255, as for a text that is
  no address; `AddressesReadBack` excepts it.
* `basicApiWrap.c:279`: `Udp_socket` and `Tcp_socket` return without closing when
  the buffer size is refused: `DescriptorsAreHeld` counts these as `lost`.
* `basicApiWrap.c:224`: `ConnectWithTimeout` after an attempt that timed out answers
  with an error (`EALREADY`, `EISCONN`) although the connection may be there, and
  leaves a socket blocking that was not (`Restore`).
* `netIO.c:47`: a timeout or a signal in the middle of `readn` drops the bytes read
  so far, and the next `readn` begins in the middle of a message.  `StreamIsRead` and
  `AtomReadsWhole` speak of the time before the first error.
* `ioctl.c:28`: `GetsockNReadBytes` answers 0 for an empty datagram as for none, so
  that a reader who waits for a length never takes it (not modelled: it hands its
  argument to the kernel).
* `mcastApiWrap.c:450`: `Mcast_leave` and the calls for sources name no interface and
  miss a membership that was joined on another than the default one.
* `pthreadAttr.c`: attributes whose setters all answered 0 can be refused by
  `pthread_create`; `Pthread_attr_setstackaddr` is documented with the lowest
  address, the system takes the highest.  `Pthread_self` returns an `int`.
* `timeutil.c`: `set_systime` fills a local variable and sets nothing;
  `setNormalTime` checks upper bounds only and calls `convertTime`, which is nowhere
  in the repository; `set_systime_sec` has no return value on success.
* `backup/tool/text.c`: `read_text` turns the order of the lines round and stops at the
  first empty one; `replace_kw` keeps its write permission and drops what `realloc`
  returned; `text_save` truncates the file first and answers `AII_OK` when a line
  was refused (`TextIsKept` speaks of saves that no line was refused to); a
  replaced line ends with a carriage return; `insert_line` frees a pointer twice
  after an error.  `configPars.c`: `get_config_value` cannot succeed, and keeps a
  permission each time (`kept`).
* `backup/tool/tool.c`: `strmatch` says it answers with the first match (line 333) and
  answers with the last; `StringsAsTold` asks for a match only.  `findstr` says it finds
  "a matched string from a original string" (line 111) and finds endings only, which is
  run `findstr`; `configPars.c:126` and `text.c:518` call it to find a word in a line.
* `backup/osi/mgosi.c:329`: the reader resets an event that the writer may just
  have set; both can then wait for each other.  `MessagesStayWhole` is about what
  arrives, not that it does.
* `backup/osi/netApiWrap`: `Udp_socket` loses its descriptor when the size is refused
  (`dropped`); a delay of 0 in `connectWithTimeout` means five seconds.

## 6. Not modelled, and plan

Not modelled: formatting and printing (`debug.c`, the test drivers, the getters of
the list that print), wrappers that hand their arguments to one system call
and keep no state (`sockopt.c`, `ioctl.c` and the datagram calls of
`basicApiWrap.c` among them), the MD5 compression function, the 32-bit form of
`gregorian2sec` (no compiler with an 8-byte `UINT64_T` selects it), the tick rate
and `TaskSleep`, `Mq_notify` and `Mq_setattr`, the VxWorks and Windows branches of
`task.c`, `source/socket/mcast.c` (a test program that does not compile as C), and
the files of `src/backup` and `src/include` that are copies of current ones:
`backup/osi/pthreadWrap` and `backup/osi/netApiWrap/mcastApiWrap.c` differ from
`src/source` in their `#ifdef`s, comments and exports.  The wire, the kernel and
the C library are external: modelled as far as the code uses them.

Left to do: `Uuid` with two threads on the statics that have no lock.
