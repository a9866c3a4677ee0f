------------------------------- MODULE ParList -------------------------------
(***************************************************************************)
(* The parallel-access list of source/data_structure/list.c.               *)
(*                                                                         *)
(* The list is a ring of LIST_NODEs hanging from a LIST_HEAD.  One mutex   *)
(* protects the ring and, in every node, two counters: ReadPermission and  *)
(* WritePermission.  A caller that obtains a node through a handle owns a  *)
(* permission on it until it calls ReleasePermission; a search holds a     *)
(* temporary read permission on the node it is comparing, so that the node *)
(* survives while the mutex is not held.  A node with a permission must    *)
(* not be freed.                                                           *)
(*                                                                         *)
(* One action is one critical section, or one piece of code that runs      *)
(* between two of them.  The two kinds of loop that run under the mutex    *)
(* (GetNextNode / GetPreviousNode, DeleteNodes) take one action per        *)
(* iteration, with Mutex holding the thread's name.                        *)
(*                                                                         *)
(* Callers are assumed to follow the documented protocol: they use a node  *)
(* handle only while they hold a permission on its node, release every     *)
(* permission once, do not overwrite a handle whose permission they still  *)
(* hold, and call Delete when no other thread is inside the list.          *)
(***************************************************************************)
EXTENDS Integers, FiniteSets

CONSTANTS
  Threads,   \* the threads that call the list
  Handles,   \* the node handles the callers created with CreateHandle
  Owner,     \* Owner[h] is the only thread that uses handle h
  Nodes,     \* the addresses malloc can return for a LIST_NODE (bounds the heap)
  Null,      \* AII_NULL
  Ops,       \* the routines the callers use
  Indices,   \* the IndexNum arguments given to FindNodeNum
  Keys,      \* the keywords callers search for
  KeyOf      \* KeyOf[n] is the keyword in the data mounted on node n

AllOps == {"InsertNodeHead", "InsertNodeHandle", "FindSW", "DeleteNodeSW",
           "FindNodeNum", "GetNextNode", "GetPreviousNode", "GetPermisssion",
           "DeleteNodes", "Delete", "Initialize"}

ASSUME ThreadsAssumption ==
  /\ IsFiniteSet(Threads)
  /\ IsFiniteSet(Handles)
  /\ IsFiniteSet(Nodes)
  /\ Threads \cap Handles = {}
  /\ Null \notin Threads \cup Handles \cup Nodes

ASSUME ArgumentsAssumption ==
  /\ Owner \in [Handles -> Threads]
  /\ Ops \subseteq AllOps
  /\ Indices \subseteq Nat
  /\ KeyOf \in [Nodes -> Keys]

VARIABLES
  HeadLive,        \* the LIST_HEAD is allocated and its mutex exists
  Mutex,           \* the thread inside a loop under MutexHandle, or Null
  EntriesList,     \* LIST_HEAD.EntriesList
  EntryAmount,     \* LIST_HEAD.EntryAmount
  NextNode,        \* LIST_NODE.NextNode, one per address
  PreviousNode,    \* LIST_NODE.PreviousNode
  ReadPermission,  \* LIST_NODE.ReadPermission
  WritePermission, \* LIST_NODE.WritePermission
  heap,            \* the addresses that are allocated
  pc,              \* where each thread is
  cur,             \* CurrentNodePtr (or NextNodePtr, InsertionNodePtr) of each thread
  call,            \* the arguments and other locals of each thread's routine
  EntryPtr,        \* DS_HANDLE_ENTRY.EntryPtr of each handle
  perm             \* the permission the owner holds through the handle

ring  == <<EntriesList, EntryAmount, NextNode, PreviousNode>>
perms == <<ReadPermission, WritePermission>>
local == <<pc, cur, call>>
hands == <<EntryPtr, perm>>
vars  == <<HeadLive, Mutex, ring, perms, heap, local, hands>>

-----------------------------------------------------------------------------
(* Types.                                                                   *)

Tags   == {"READ", "WRITE"}
Places == {"BEFORE", "AFTER", "OTHER"}

Labels == {"idle", "insert", "compare", "unlink", "free", "hop", "wrapped",
           "found", "walk", "sweep", "reread", "swept"}

(* opt: UserData is AII_NULL (searches), or SkipTag = 1 (GetNextNode).      *)
(* prv: PreviousNodePtr of DeleteNodes, or the node where a walk stops.     *)
Calls == [op : AllOps \cup {"none"}, h : Handles \cup {Null},
          tag : Tags \cup Places \cup {"none"}, opt : BOOLEAN, idx : Nat,
          key : Keys \cup {Null}, prv : Nodes \cup {Null}, lst : Nodes \cup {Null}]

NoCall == [op |-> "none", h |-> Null, tag |-> "none", opt |-> FALSE, idx |-> 0,
           key |-> Null, prv |-> Null, lst |-> Null]

TypeOK ==
  /\ HeadLive \in BOOLEAN
  /\ Mutex \in Threads \cup {Null}
  /\ EntriesList \in Nodes \cup {Null}
  /\ EntryAmount \in Int
  /\ NextNode \in [Nodes -> Nodes \cup {Null}]
  /\ PreviousNode \in [Nodes -> Nodes \cup {Null}]
  /\ ReadPermission \in [Nodes -> Int]
  /\ WritePermission \in [Nodes -> Int]
  /\ heap \subseteq Nodes
  /\ pc \in [Threads -> Labels]
  /\ cur \in [Threads -> Nodes \cup {Null}]
  /\ call \in [Threads -> Calls]
  /\ EntryPtr \in [Handles -> Nodes \cup {Null}]
  /\ perm \in [Handles -> Tags \cup {"none"}]

(* Initialize has run: an empty list, and callers with empty handles.       *)
Init ==
  /\ HeadLive = TRUE
  /\ Mutex = Null
  /\ EntriesList = Null
  /\ EntryAmount = 0
  /\ NextNode = [n \in Nodes |-> Null]
  /\ PreviousNode = [n \in Nodes |-> Null]
  /\ ReadPermission = [n \in Nodes |-> 0]
  /\ WritePermission = [n \in Nodes |-> 0]
  /\ heap = {}
  /\ pc = [t \in Threads |-> "idle"]
  /\ cur = [t \in Threads |-> Null]
  /\ call = [t \in Threads |-> NoCall]
  /\ EntryPtr = [h \in Handles |-> Null]
  /\ perm = [h \in Handles |-> "none"]

-----------------------------------------------------------------------------
(* Control of a thread, and the mutex.  Every routine refuses a handle that *)
(* is empty and changes nothing then; that no call starts while Delete runs *)
(* is what the callers promise.                                             *)

CanCall(t, op) ==
  /\ op \in Ops
  /\ HeadLive
  /\ pc[t] = "idle"
  /\ \A u \in Threads : call[u].op # "Delete"

Unlocked == Mutex = Null

Enter(t, label, c, n) ==
  /\ pc' = [pc EXCEPT ![t] = label]
  /\ call' = [call EXCEPT ![t] = c]
  /\ cur' = [cur EXCEPT ![t] = n]

Return(t) == Enter(t, "idle", NoCall, Null)

Goto(t, label) ==
  /\ pc' = [pc EXCEPT ![t] = label]
  /\ UNCHANGED <<cur, call>>

(* A handle its owner may overwrite, or may use to reach a node.            *)
Empty(t, h) == h \in Handles /\ Owner[h] = t /\ perm[h] = "none"
Holds(t, h) == h \in Handles /\ Owner[h] = t /\ perm[h] # "none"

SetHandle(h, n, tag) ==
  /\ EntryPtr' = [EntryPtr EXCEPT ![h] = n]
  /\ perm' = [perm EXCEPT ![h] = tag]

(* The switch on PermissionTag: r and w are the node's two counters.        *)
DeniedIgnoringReaders(r, w, tag) == w > 0
Denied(r, w, tag) ==
  CASE tag = "READ"  -> w > 0
    [] tag = "WRITE" -> r > 0 \/ w > 0

(* The node's counters become r and w, plus the permission asked for.       *)
SetPermission(n, r, w, tag) ==
  /\ ReadPermission' = [ReadPermission EXCEPT ![n] = IF tag = "READ" THEN r + 1 ELSE r]
  /\ WritePermission' = [WritePermission EXCEPT ![n] = IF tag = "WRITE" THEN w + 1 ELSE w]

-----------------------------------------------------------------------------
(* InsertNodeHead and InsertNodeHandle: malloc and memset, then link.       *)

Malloc(t, n, op, h, place) ==
  /\ CanCall(t, op)
  /\ n \notin heap
  /\ heap' = heap \cup {n}
  /\ NextNode' = [NextNode EXCEPT ![n] = Null]
  /\ PreviousNode' = [PreviousNode EXCEPT ![n] = Null]
  /\ ReadPermission' = [ReadPermission EXCEPT ![n] = 0]
  /\ WritePermission' = [WritePermission EXCEPT ![n] = 0]
  /\ Enter(t, "insert", [NoCall EXCEPT !.op = op, !.h = h, !.tag = place], n)
  /\ UNCHANGED <<HeadLive, Mutex, EntriesList, EntryAmount, hands>>

(* x goes between the neighbours p and q.                                   *)
LinkForgettingPrevious(x, p, q) ==
  /\ NextNode' = [NextNode EXCEPT ![p] = x, ![x] = q]
  /\ PreviousNode' = [PreviousNode EXCEPT ![x] = p]

Link(x, p, q) ==
  /\ NextNode' = [NextNode EXCEPT ![p] = x, ![x] = q]
  /\ PreviousNode' = [PreviousNode EXCEPT ![q] = x, ![x] = p]

LinkFirst(t) ==
  /\ pc[t] = "insert"
  /\ call[t].op = "InsertNodeHead"
  /\ Unlocked
  /\ EntriesList' = cur[t]
  /\ EntryAmount' = EntryAmount + 1
  /\ IF EntriesList = Null
       THEN /\ NextNode' = [NextNode EXCEPT ![cur[t]] = cur[t]]
            /\ PreviousNode' = [PreviousNode EXCEPT ![cur[t]] = cur[t]]
       ELSE Link(cur[t], PreviousNode[EntriesList], EntriesList)
  /\ Return(t)
  /\ UNCHANGED <<HeadLive, Mutex, perms, heap, hands>>

LinkBefore(t) ==
  LET node == EntryPtr[call[t].h] IN
  /\ pc[t] = "insert"
  /\ call[t].tag = "BEFORE"
  /\ Unlocked
  /\ EntriesList' = IF node = EntriesList THEN cur[t] ELSE EntriesList
  /\ EntryAmount' = EntryAmount + 1
  /\ Link(cur[t], PreviousNode[node], node)
  /\ Return(t)
  /\ UNCHANGED <<HeadLive, Mutex, perms, heap, hands>>

LinkAfter(t) ==
  LET node == EntryPtr[call[t].h] IN
  /\ pc[t] = "insert"
  /\ call[t].tag = "AFTER"
  /\ Unlocked
  /\ EntryAmount' = EntryAmount + 1
  /\ Link(cur[t], node, NextNode[node])
  /\ Return(t)
  /\ UNCHANGED <<HeadLive, Mutex, EntriesList, perms, heap, hands>>

(* An InsertPosition that is neither: the new node is freed again.          *)
LinkNowhere(t) ==
  /\ pc[t] = "insert"
  /\ call[t].tag = "OTHER"
  /\ Unlocked
  /\ heap' = heap \ {cur[t]}
  /\ Return(t)
  /\ UNCHANGED <<HeadLive, Mutex, ring, perms, hands>>

Insert(t) ==
  \/ \E n \in Nodes : Malloc(t, n, "InsertNodeHead", Null, "none")
  \/ \E n \in Nodes, h \in Handles, place \in Places :
       Holds(t, h) /\ Malloc(t, n, "InsertNodeHandle", h, place)
  \/ LinkFirst(t)
  \/ LinkBefore(t)
  \/ LinkAfter(t)
  \/ LinkNowhere(t)

-----------------------------------------------------------------------------
(* FindSW and FindMW, and DeleteNodeSW / DeleteNodeMW, which start with     *)
(* them.  The early returns change nothing: an empty list, malloc failure,  *)
(* in FindMW a node handle that is empty, and so in DeleteNodeMW whenever   *)
(* the entry of its own uninitialised handle happens to be null.            *)

Pin(n) == ReadPermission' = [ReadPermission EXCEPT ![n] = @ + 1]

FindStart(t, op, h, tag, opt, key) ==
  /\ CanCall(t, op)
  /\ Unlocked
  /\ EntriesList # Null
  /\ Pin(EntriesList)
  /\ Enter(t, "compare", [NoCall EXCEPT !.op = op, !.h = h, !.tag = tag,
                                        !.opt = opt, !.key = key], EntriesList)
  /\ UNCHANGED <<HeadLive, Mutex, ring, WritePermission, heap, hands>>

(* "(CmpFcn(data, KeyWord), UserData) == AII_OK": the comma drops the       *)
(* comparator's result, what is compared with AII_OK is the UserData.       *)
Matches(t) == call[t].opt

(* The match hands over the node: the temporary permission is released and  *)
(* the one asked for regained, unless the counters refuse it.               *)
RegainedUnchecked(t) == call[t].tag
Regained(t) ==
  IF Denied(ReadPermission[cur[t]] - 1, WritePermission[cur[t]], call[t].tag)
    THEN "none"
    ELSE call[t].tag

Regain(t) ==
  SetPermission(cur[t], ReadPermission[cur[t]] - 1, WritePermission[cur[t]], Regained(t))

(* A search that is denied still makes the handle point to the node.        *)
FindMatch(t) ==
  /\ pc[t] = "compare"
  /\ call[t].op = "FindSW"
  /\ Matches(t)
  /\ Unlocked
  /\ Regain(t)
  /\ SetHandle(call[t].h, cur[t], Regained(t))
  /\ Return(t)
  /\ UNCHANGED <<HeadLive, Mutex, ring, heap>>

(* The next node, with the temporary permission moved on to it.             *)
MovePinUnreleased(from, to) == ReadPermission' = [ReadPermission EXCEPT ![to] = @ + 1]
MovePin(from, to) ==
  ReadPermission' = [n \in Nodes |-> ReadPermission[n] - (IF n = from THEN 1 ELSE 0)
                                                       + (IF n = to THEN 1 ELSE 0)]

(* Null stands for no node to pin: the search is back at the first node.    *)
Following(t) == IF NextNode[cur[t]] = EntriesList THEN Null ELSE NextNode[cur[t]]

FindNext(t) ==
  /\ pc[t] = "compare"
  /\ ~Matches(t)
  /\ Unlocked
  /\ NextNode[cur[t]] # Null
  /\ MovePin(cur[t], Following(t))
  /\ IF Following(t) = Null
       THEN Return(t)
       ELSE Enter(t, "compare", call[t], Following(t))
  /\ UNCHANGED <<HeadLive, Mutex, ring, WritePermission, heap, hands>>

Find(t) ==
  \/ \E h \in Handles, tag \in Tags, opt \in BOOLEAN, key \in Keys :
       Empty(t, h) /\ FindStart(t, "FindSW", h, tag, opt, key)
  \/ FindMatch(t)
  \/ FindNext(t)

-----------------------------------------------------------------------------
(* DeleteNodeSW and DeleteNodeMW: the search asks for a write permission in *)
(* a handle on the stack; the mutex is free between it and the unlinking.   *)

DeleteMatch(t) ==
  /\ pc[t] = "compare"
  /\ call[t].op = "DeleteNodeSW"
  /\ Matches(t)
  /\ Unlocked
  /\ Regain(t)
  /\ IF Regained(t) = "none" THEN Return(t) ELSE Goto(t, "unlink")
  /\ UNCHANGED <<HeadLive, Mutex, ring, heap, hands>>

StillWritten(n) == WritePermission'[n] > 0
StillUsed(n) == ReadPermission[n] > 0 \/ WritePermission'[n] > 0

(* The neighbours of n are joined.                                          *)
JoinForwardOnly(n) ==
  /\ NextNode' = [NextNode EXCEPT ![PreviousNode[n]] = NextNode[n]]
  /\ UNCHANGED PreviousNode
Join(n) ==
  /\ NextNode' = [NextNode EXCEPT ![PreviousNode[n]] = NextNode[n]]
  /\ PreviousNode' = [PreviousNode EXCEPT ![NextNode[n]] = PreviousNode[n]]

Unlink(t) ==
  /\ pc[t] = "unlink"
  /\ Unlocked
  /\ WritePermission' = [WritePermission EXCEPT ![cur[t]] = @ - 1]
  /\ IF StillUsed(cur[t])
       THEN Return(t) /\ UNCHANGED ring
       ELSE /\ EntriesList' = CASE cur[t] # EntriesList -> EntriesList
                                [] cur[t] = EntriesList /\ NextNode[cur[t]] = cur[t] -> Null
                                [] OTHER -> NextNode[cur[t]]
            /\ Join(cur[t])
            /\ EntryAmount' = EntryAmount - 1
            /\ Goto(t, "free")
  /\ UNCHANGED <<HeadLive, Mutex, ReadPermission, heap, hands>>

FreeNode(t) ==
  /\ pc[t] = "free"
  /\ heap' = heap \ {cur[t]}
  /\ Return(t)
  /\ UNCHANGED <<HeadLive, Mutex, ring, perms, hands>>

DeleteNode(t) ==
  \/ \E opt \in BOOLEAN, key \in Keys : FindStart(t, "DeleteNodeSW", Null, "WRITE", opt, key)
  \/ DeleteMatch(t)
  \/ Unlink(t)
  \/ FreeNode(t)

-----------------------------------------------------------------------------
(* FindNodeNum: IndexNum hops with the temporary permission, then a test    *)
(* against EntriesList that is made without the mutex.  A handle that has   *)
(* never pointed to a node is refused.                                      *)

NumStart(t, h, tag, idx) ==
  /\ CanCall(t, "FindNodeNum")
  /\ Empty(t, h)
  /\ EntryPtr[h] # Null
  /\ Unlocked
  /\ EntriesList # Null
  /\ Pin(EntriesList)
  /\ Enter(t, "hop", [NoCall EXCEPT !.op = "FindNodeNum", !.h = h, !.tag = tag,
                                    !.idx = idx], EntriesList)
  /\ UNCHANGED <<HeadLive, Mutex, ring, WritePermission, heap, hands>>

HopsLeftOffByOne(t) == call[t].idx >= 0
HopsLeft(t) == call[t].idx > 0

NumHop(t) ==
  /\ pc[t] = "hop"
  /\ HopsLeft(t)
  /\ Unlocked
  /\ NextNode[cur[t]] # Null
  /\ MovePin(cur[t], Following(t))
  /\ Enter(t, IF Following(t) = Null THEN "wrapped" ELSE "hop",
           [call[t] EXCEPT !.idx = @ - 1], NextNode[cur[t]])
  /\ UNCHANGED <<HeadLive, Mutex, ring, WritePermission, heap, hands>>

(* "if (CurrentNodePtr == list->EntriesList) return AII_ERROR" gives no      *)
(* permission back, whichever way the loop was left.                        *)
NumTest(t) ==
  /\ pc[t] = "wrapped" \/ (pc[t] = "hop" /\ ~HopsLeft(t))
  /\ IF cur[t] = EntriesList THEN Return(t) ELSE Goto(t, "found")
  /\ UNCHANGED <<HeadLive, Mutex, ring, perms, heap, hands>>

NumFound(t) ==
  /\ pc[t] = "found"
  /\ Unlocked
  /\ Regain(t)
  /\ SetHandle(call[t].h, cur[t], Regained(t))
  /\ Return(t)
  /\ UNCHANGED <<HeadLive, Mutex, ring, heap>>

FindNodeNum(t) ==
  \/ \E h \in Handles, tag \in Tags, idx \in Indices : NumStart(t, h, tag, idx)
  \/ NumHop(t)
  \/ NumTest(t)
  \/ NumFound(t)

-----------------------------------------------------------------------------
(* GetNextNode and GetPreviousNode: a loop under the mutex from the node    *)
(* after the current one, back to the current one at most.                  *)

Step(op, n) == IF op = "GetNextNode" THEN NextNode[n] ELSE PreviousNode[n]

(* from is the CurrentHandle: a node handle, or Null for the list's own.    *)
WalkStart(t, op, from, h, tag, skip) ==
  LET node == IF from = Null THEN EntriesList ELSE EntryPtr[from] IN
  /\ CanCall(t, op)
  /\ from = Null \/ Holds(t, from)
  /\ Empty(t, h)
  /\ Unlocked
  /\ EntriesList # Null
  /\ Mutex' = t
  /\ Enter(t, "walk", [NoCall EXCEPT !.op = op, !.h = h, !.tag = tag,
                                     !.opt = skip, !.prv = node],
           IF from = Null THEN node ELSE Step(op, node))
  /\ UNCHANGED <<HeadLive, ring, perms, heap, hands>>

WalkDenied(t) ==
  \/ WritePermission[cur[t]] # 0
  \/ call[t].tag = "WRITE" /\ ReadPermission[cur[t]] # 0

WalkGrant(t) ==
  /\ pc[t] = "walk"
  /\ ~WalkDenied(t)
  /\ SetPermission(cur[t], ReadPermission[cur[t]], WritePermission[cur[t]], call[t].tag)
  /\ SetHandle(call[t].h, cur[t], call[t].tag)
  /\ Mutex' = Null
  /\ Return(t)
  /\ UNCHANGED <<HeadLive, ring, heap>>

(* Denied: without SkipTag, or once around the ring, the call fails.        *)
WalkEndsOnlyDenied(t) == ~call[t].opt
WalkEnds(t) == ~call[t].opt \/ Step(call[t].op, cur[t]) = call[t].prv

WalkFail(t) ==
  /\ pc[t] = "walk"
  /\ WalkDenied(t)
  /\ WalkEnds(t)
  /\ Mutex' = Null
  /\ Return(t)
  /\ UNCHANGED <<HeadLive, ring, perms, heap, hands>>

WalkSkip(t) ==
  /\ pc[t] = "walk"
  /\ WalkDenied(t)
  /\ ~WalkEnds(t)
  /\ Enter(t, "walk", call[t], Step(call[t].op, cur[t]))
  /\ UNCHANGED <<HeadLive, Mutex, ring, perms, heap, hands>>

Walk(t) == WalkGrant(t) \/ WalkFail(t) \/ WalkSkip(t)

GetNode(t) ==
  \/ \E op \in {"GetNextNode", "GetPreviousNode"}, from \in Handles \cup {Null},
        h \in Handles, tag \in Tags, skip \in BOOLEAN :
       WalkStart(t, op, from, h, tag, skip)
  \/ Walk(t)

-----------------------------------------------------------------------------
(* GetPermisssion, on a copy (HandleCpy) of a handle the caller holds, and  *)
(* ReleasePermission.                                                       *)

GetPermisssion(t, from, h, tag) ==
  LET n == EntryPtr[from]
      granted == IF Denied(ReadPermission[n], WritePermission[n], tag) THEN "none" ELSE tag
  IN
  /\ CanCall(t, "GetPermisssion")
  /\ Holds(t, from)
  /\ Empty(t, h)
  /\ Unlocked
  /\ SetPermission(n, ReadPermission[n], WritePermission[n], granted)
  /\ SetHandle(h, n, granted)
  /\ UNCHANGED <<HeadLive, Mutex, ring, heap, local>>

(* One count less, but never below zero.                                    *)
Release(t, h) ==
  LET n == EntryPtr[h]
      Less(count) == IF count > 0 THEN count - 1 ELSE count
  IN
  /\ pc[t] = "idle"
  /\ HeadLive
  /\ Holds(t, h)
  /\ Unlocked
  /\ ReadPermission' = [ReadPermission EXCEPT ![n] = IF perm[h] = "READ" THEN Less(@) ELSE @]
  /\ WritePermission' = [WritePermission EXCEPT ![n] = IF perm[h] = "WRITE" THEN Less(@) ELSE @]
  /\ perm' = [perm EXCEPT ![h] = "none"]
  /\ UNCHANGED <<HeadLive, Mutex, ring, heap, local, EntryPtr>>

Permission(t) ==
  \/ \E from, h \in Handles, tag \in Tags : GetPermisssion(t, from, h, tag)
  \/ \E h \in Handles : Release(t, h)

-----------------------------------------------------------------------------
(* DeleteNodes: one pass under the mutex that frees the nodes without a     *)
(* permission.  Delete: DeleteNodes, then the head if no node is left.      *)

InUseByWriter(n) == WritePermission[n] > 0
InUseOffByOne(n) == ReadPermission[n] >= 0 \/ WritePermission[n] > 0
InUse(n) == ReadPermission[n] > 0 \/ WritePermission[n] > 0

SweepStart(t, op) ==
  /\ CanCall(t, op)
  /\ op = "Delete" => \A u \in Threads : pc[u] = "idle"
  /\ Unlocked
  /\ IF EntriesList = Null \/ EntryAmount <= 0
       THEN /\ op = "Delete" /\ EntryAmount = 0
            /\ Enter(t, "swept", [NoCall EXCEPT !.op = op], Null)
            /\ UNCHANGED Mutex
       ELSE /\ Enter(t, "sweep", [NoCall EXCEPT !.op = op, !.prv = EntriesList,
                                                !.lst = PreviousNode[EntriesList]],
                     EntriesList)
            /\ Mutex' = t
  /\ UNCHANGED <<HeadLive, ring, perms, heap, hands>>

(* After the last node DeleteNodes unlocks and returns the nodes left.      *)
SweepDoneUncounted(t) ==
  /\ Mutex' = Null
  /\ IF call[t].op = "Delete" THEN Goto(t, "swept") ELSE Return(t)
SweepDone(t) ==
  /\ Mutex' = Null
  /\ IF call[t].op = "Delete" /\ EntryAmount' = 0 THEN Goto(t, "swept") ELSE Return(t)

SweepLast(t) ==
  LET n == cur[t] IN
  /\ pc[t] = "sweep"
  /\ n # Null
  /\ n = call[t].lst
  /\ IF ReadPermission[n] # 0 \/ WritePermission[n] # 0
       THEN UNCHANGED <<ring, heap>>
       ELSE /\ IF NextNode[n] = n
                 THEN EntriesList' = Null /\ UNCHANGED <<NextNode, PreviousNode>>
                 ELSE Join(n) /\ UNCHANGED EntriesList
            /\ heap' = heap \ {n}
            /\ EntryAmount' = EntryAmount - 1
  /\ SweepDone(t)
  /\ UNCHANGED <<HeadLive, perms, hands>>

Sweeping(t) == pc[t] = "sweep" /\ cur[t] \notin {call[t].lst, Null}

SweepSkip(t) ==
  /\ Sweeping(t)
  /\ InUse(cur[t])
  /\ Enter(t, "sweep", [call[t] EXCEPT !.prv = cur[t]], NextNode[cur[t]])
  /\ UNCHANGED <<HeadLive, Mutex, ring, perms, heap, hands>>

SweepFirst(t) ==
  LET n == cur[t] IN
  /\ Sweeping(t)
  /\ ~InUse(n)
  /\ n = EntriesList
  /\ EntriesList' = NextNode[n]
  /\ Join(n)
  /\ heap' = heap \ {n}
  /\ EntryAmount' = EntryAmount - 1
  /\ Enter(t, "sweep", [call[t] EXCEPT !.prv = NextNode[n]], NextNode[n])
  /\ UNCHANGED <<HeadLive, Mutex, perms, hands>>

Bypass(n, p) ==
  /\ NextNode' = [NextNode EXCEPT ![p] = NextNode[n]]
  /\ PreviousNode' = [PreviousNode EXCEPT ![NextNode[n]] = p]

(* Any other node is unlinked from PreviousNodePtr and freed ...            *)
SweepMiddle(t) ==
  LET n == cur[t] IN
  /\ Sweeping(t)
  /\ ~InUse(n)
  /\ n # EntriesList
  /\ Bypass(n, call[t].prv)
  /\ heap' = heap \ {n}
  /\ EntryAmount' = EntryAmount - 1
  /\ Goto(t, "reread")
  /\ UNCHANGED <<HeadLive, Mutex, EntriesList, perms, hands>>

(* ... and then becomes PreviousNodePtr, its NextNode read from the freed   *)
(* memory: the old value, or AII_NULL if another thread has malloc'ed and   *)
(* cleared it since, which ends in a fault (cur = Null, no step is left).   *)
SweepReread(t) ==
  /\ pc[t] = "reread"
  /\ Enter(t, "sweep", [call[t] EXCEPT !.prv = cur[t]], NextNode[cur[t]])
  /\ UNCHANGED <<HeadLive, Mutex, ring, perms, heap, hands>>

Sweep(t) ==
  SweepLast(t) \/ SweepSkip(t) \/ SweepFirst(t) \/ SweepMiddle(t) \/ SweepReread(t)

FreeHead(t) ==
  /\ pc[t] = "swept"
  /\ HeadLive' = FALSE
  /\ Return(t)
  /\ UNCHANGED <<Mutex, ring, perms, heap, hands>>

Initialize(t) ==
  /\ "Initialize" \in Ops
  /\ pc[t] = "idle"
  /\ ~HeadLive
  /\ HeadLive' = TRUE
  /\ Mutex' = Null
  /\ EntriesList' = Null
  /\ EntryAmount' = 0
  /\ UNCHANGED <<NextNode, PreviousNode, perms, heap, local, hands>>

DeleteList(t) ==
  \/ \E op \in {"DeleteNodes", "Delete"} : SweepStart(t, op)
  \/ Sweep(t)
  \/ FreeHead(t)
  \/ Initialize(t)

-----------------------------------------------------------------------------
Next ==
  \E t \in Threads :
    Insert(t) \/ Find(t) \/ DeleteNode(t) \/ FindNodeNum(t)
              \/ GetNode(t) \/ Permission(t) \/ DeleteList(t)

Spec == Init /\ [][Next]_vars

(* A thread inside a loop under the mutex waits for nobody: it goes on.     *)
Fairness == \A t \in Threads : WF_vars(Walk(t) \/ Sweep(t))

LiveSpec == Spec /\ Fairness

-----------------------------------------------------------------------------
(* Properties.                                                              *)

(* The nodes in the list: those allocated, less the ones a thread has yet   *)
(* to link or has already unlinked.                                         *)
Detached == {cur[t] : t \in {u \in Threads : pc[u] \in {"insert", "free"}}}
Linked == IF HeadLive THEN heap \ Detached ELSE {}

Visits(t, n) == pc[t] \in {"compare", "hop", "found"} /\ cur[t] = n
Deletes(t, n) == pc[t] = "unlink" /\ cur[t] = n
HandleOn(h, n, tag) == perm[h] = tag /\ EntryPtr[h] = n

Visitors(n)   == {t \in Threads : Visits(t, n)}
ReadGrants(n) == {h \in Handles : HandleOn(h, n, "READ")}
Writers(n)    == {h \in Handles : HandleOn(h, n, "WRITE")} \cup {t \in Threads : Deletes(t, n)}
Readers(n)    == Visitors(n) \cup ReadGrants(n)

(* The counters of a node in the list say exactly who uses it: as many      *)
(* reads as there are searches on it and read handles, as many writes as    *)
(* there are write handles and deletions.  A lost decrement makes the node  *)
(* undeletable, a lost increment frees it under its user.                   *)
CountersMatchUsers ==
  \A n \in Linked :
    /\ ReadPermission[n] = Cardinality(Readers(n))
    /\ WritePermission[n] = Cardinality(Writers(n))

(* Whoever was granted the write permission of a node shares it with no     *)
(* other owner of a permission (temporary permissions of searches excepted, *)
(* which FindSW takes whatever WritePermission says).                       *)
WriteIsExclusive ==
  \A n \in Nodes :
    Writers(n) # {} => ReadGrants(n) = {} /\ \A a, b \in Writers(n) : a = b

(* Memory stays allocated, and linked, as long as a thread is going to use  *)
(* it: a node that is compared, hopped from, granted or walked over, and    *)
(* the position of an insertion.                                            *)
UsedNodesAreLinked ==
  /\ \A t \in Threads :
       /\ pc[t] \in {"compare", "hop", "found", "unlink", "walk", "sweep"} => cur[t] \in Linked
       /\ pc[t] = "walk" => call[t].prv \in Linked
       /\ pc[t] \in {"insert", "free"} => cur[t] \in heap
  /\ \A h \in Handles : perm[h] # "none" => EntryPtr[h] \in Linked

(* first, nx and pv describe one doubly linked ring of exactly the nodes L: *)
(* nx and pv are inverse, and a set with the first node and the successor   *)
(* of each of its members is all of L, so that there is no second loop.     *)
IsRing(L, first, nx, pv) ==
  /\ first \in L
  /\ \A n \in L : nx[n] \in L /\ pv[n] \in L /\ pv[nx[n]] = n /\ nx[pv[n]] = n
  /\ \A S \in SUBSET L : first \in S /\ (\A n \in S : nx[n] \in S) => S = L

(* Between two critical sections the list is one doubly linked ring of      *)
(* exactly the allocated nodes, and EntryAmount counts them.                *)
RingIsWhole ==
  /\ IF Linked = {}
       THEN HeadLive => EntriesList = Null
       ELSE IsRing(Linked, EntriesList, NextNode, PreviousNode)
  /\ HeadLive => EntryAmount = Cardinality(Linked)

(* Delete frees the head only when no node is allocated and no permission   *)
(* is held: nothing of a deleted list is leaked or reachable.               *)
NothingSurvivesDelete ==
  ~HeadLive => heap = {} /\ \A h \in Handles : perm[h] = "none"

(* DeleteNodes unlocks a list in which every node left has a permission     *)
(* (list.c:1119, "Delete all the free nodes of the list").                  *)
SweepLeavesUsedNodes ==
  [][\A t \in Threads : SweepLast(t) => 
      \A n \in Linked' : Readers(n) \cup Writers(n) # {}]_vars

(* A node leaves the heap only when nobody uses it: no search on it, no     *)
(* handle with a permission on it (the deleting thread's own gone too).     *)
FreedNodesAreUnused ==
  [][\A n \in heap \ heap' : Readers(n) = {} /\ Writers(n) = {}]_vars

(* A loop under the mutex ends, so the mutex is released.                   *)
MutexIsReleased == \A t \in Threads : Mutex = t ~> Mutex # t

(* The list implements the permissions of NodeAccess: threads inside a       *)
(* search visit, threads between DeleteNodeSW's search and its unlinking    *)
(* write, handles have the permission their owner holds through them.       *)
UserAccess(u) ==
  CASE u \in Threads /\ Visits(u, cur[u])  -> [kind |-> "VISIT", node |-> cur[u]]
    [] u \in Threads /\ Deletes(u, cur[u]) -> [kind |-> "WRITE", node |-> cur[u]]
    [] u \in Handles /\ perm[u] # "none"   -> [kind |-> perm[u], node |-> EntryPtr[u]]
    [] OTHER                               -> [kind |-> "none", node |-> Null]

Permissions == INSTANCE NodeAccess WITH
  Users   <- Threads \cup Handles,
  members <- Linked,
  access  <- [u \in Threads \cup Handles |-> UserAccess(u)]

ImplementsNodeAccess == Permissions!Spec

(* FindSW "Find a specific node with single keyword match" (list.c:256):    *)
(* the node that a deletion is about to unlink has the keyword asked for.   *)
DeletesMatchingNode ==
  \A t \in Threads : pc[t] = "unlink" => KeyOf[cur[t]] = call[t].key
=============================================================================
