---------------------------- MODULE ParListProofs ----------------------------
(***************************************************************************)
(* Proofs about ParList: for every number of threads, handles and nodes,   *)
(* and for every routine, the list stays one ring, the counters match the  *)
(* users, no node is freed under a user, a deleted list leaves nothing     *)
(* behind, and the list implements NodeAccess.  The theorems assume of a   *)
(* behaviour that no step of it runs into one of the three defects the     *)
(* runs show (Spared); callers who keep away from FindNodeNum, and sweep   *)
(* only lists without users, meet none of them (CarefulIsSafe).            *)
(***************************************************************************)
EXTENDS ParList, FiniteSetTheorems, TLAPS

-----------------------------------------------------------------------------
(* Rings.                                                                   *)

(* nx1 and pv1 are nx and pv with x linked before q.                        *)
Linking(x, q, nx, pv, nx1, pv1) ==
  /\ nx1 = [nx EXCEPT ![pv[q]] = x, ![x] = q]
  /\ pv1 = [pv EXCEPT ![q] = x, ![x] = pv[q]]

(* nx1 and pv1 are nx and pv with the neighbours of c joined.               *)
Joining(c, nx, pv, nx1, pv1) ==
  /\ nx1 = [nx EXCEPT ![pv[c]] = nx[c]]
  /\ pv1 = [pv EXCEPT ![nx[c]] = pv[c]]

(* A node linked between two neighbours extends the ring, whether the first *)
(* node stays or the new one becomes it (the node before the old first).    *)
LEMMA LinkExtendsRing ==
  ASSUME NEW L, NEW first, NEW x, NEW q \in L,
         NEW nx \in [Nodes -> Nodes \cup {Null}],
         NEW pv \in [Nodes -> Nodes \cup {Null}],
         L \subseteq Nodes, x \in Nodes, x \notin L,
         IsRing(L, first, nx, pv),
         NEW nx1, NEW pv1, Linking(x, q, nx, pv, nx1, pv1),
         NEW f, f = first \/ (q = first /\ f = x)
  PROVE  IsRing(L \cup {x}, f, nx1, pv1)
<1> DEFINE p == pv[q]
           M == L \cup {x}
<1>1. p \in L /\ nx[p] = q /\ q # x /\ p # x
  BY DEF IsRing
<1>2. /\ nx1 \in [Nodes -> Nodes \cup {Null}] /\ pv1 \in [Nodes -> Nodes \cup {Null}]
      /\ nx1[x] = q /\ nx1[p] = x /\ pv1[q] = x /\ pv1[x] = p
      /\ \A n \in L \ {p} : nx1[n] = nx[n]
      /\ \A n \in L \ {q} : pv1[n] = pv[n]
  BY <1>1 DEF Linking
<1>3. \A n \in M : nx1[n] \in M /\ pv1[n] \in M /\ pv1[nx1[n]] = n /\ nx1[pv1[n]] = n
  <2> SUFFICES ASSUME NEW n \in M
               PROVE  nx1[n] \in M /\ pv1[n] \in M /\ pv1[nx1[n]] = n /\ nx1[pv1[n]] = n
    OBVIOUS
  <2>1. CASE n = x
    BY <2>1, <1>1, <1>2
  <2>2. CASE n \in L
    <3>1. nx[n] \in L /\ pv[n] \in L /\ pv[nx[n]] = n /\ nx[pv[n]] = n
      BY <2>2 DEF IsRing
    <3>2. nx1[n] \in M /\ pv1[nx1[n]] = n
      BY <3>1, <2>2, <1>1, <1>2
    <3>3. pv1[n] \in M /\ nx1[pv1[n]] = n
      BY <3>1, <2>2, <1>1, <1>2
    <3> QED BY <3>2, <3>3
  <2> QED BY <2>1, <2>2
<1>4. ASSUME NEW S \in SUBSET M, f \in S, \A n \in S : nx1[n] \in S
      PROVE  S = M
  <2>1. first \in S \ {x}
    BY <1>4, <1>1, <1>2 DEF IsRing
  <2>2. \A n \in S \ {x} : nx[n] \in S \ {x}
    <3> SUFFICES ASSUME NEW n \in S \ {x}
                 PROVE  nx[n] \in S \ {x}
      OBVIOUS
    <3>1. nx[n] \in L
      BY DEF IsRing
    <3>2. CASE n = p
      BY <3>2, <1>1, <1>2, <1>4
    <3>3. CASE n # p
      BY <3>1, <3>3, <1>2, <1>4
    <3> QED BY <3>2, <3>3
  <2>3. S \ {x} = L
    BY <2>1, <2>2 DEF IsRing
  <2>4. x \in S
    BY <2>3, <1>1, <1>2, <1>4
  <2> QED BY <2>3, <2>4
<1>5. f \in M
  BY DEF IsRing
<1> QED BY <1>3, <1>4, <1>5 DEF IsRing

(* Joining the neighbours of a node leaves a ring of the others; if it was  *)
(* the first node, its successor becomes it.                                *)
LEMMA JoinKeepsRing ==
  ASSUME NEW L, NEW first, NEW c \in L,
         NEW nx \in [Nodes -> Nodes \cup {Null}],
         NEW pv \in [Nodes -> Nodes \cup {Null}],
         L \subseteq Nodes,
         IsRing(L, first, nx, pv),
         nx[c] # c,
         NEW nx1, NEW pv1, Joining(c, nx, pv, nx1, pv1),
         NEW f, f = IF c = first THEN nx[c] ELSE first
  PROVE  IsRing(L \ {c}, f, nx1, pv1)
<1> DEFINE p == pv[c]
           q == nx[c]
           M == L \ {c}
<1>1. p \in M /\ q \in M /\ nx[p] = c /\ pv[q] = c
  BY DEF IsRing
<1>2. /\ nx1[p] = q /\ pv1[q] = p
      /\ \A n \in L \ {p} : nx1[n] = nx[n]
      /\ \A n \in L \ {q} : pv1[n] = pv[n]
  BY <1>1 DEF Joining
<1>3. \A n \in M : nx1[n] \in M /\ pv1[n] \in M /\ pv1[nx1[n]] = n /\ nx1[pv1[n]] = n
  <2> SUFFICES ASSUME NEW n \in M
               PROVE  nx1[n] \in M /\ pv1[n] \in M /\ pv1[nx1[n]] = n /\ nx1[pv1[n]] = n
    OBVIOUS
  <2>1. nx[n] \in L /\ pv[n] \in L /\ pv[nx[n]] = n /\ nx[pv[n]] = n
    BY DEF IsRing
  <2>2. nx1[n] \in M /\ pv1[nx1[n]] = n
    BY <2>1, <1>1, <1>2
  <2>3. pv1[n] \in M /\ nx1[pv1[n]] = n
    BY <2>1, <1>1, <1>2
  <2> QED BY <2>2, <2>3
<1>4. f \in M
  BY <1>1 DEF IsRing
<1>5. ASSUME NEW S \in SUBSET M, f \in S, \A n \in S : nx1[n] \in S
      PROVE  S = M
  <2>1. CASE c = first \/ p \in S
    <3>1. q \in S
      BY <2>1, <1>2, <1>5
    <3>2. \A n \in S \cup {c} : nx[n] \in S \cup {c}
      BY <3>1, <1>1, <1>2, <1>5
    <3>3. first \in S \cup {c}
      BY <1>5
    <3>4. S \cup {c} = L
      <4> DEFINE U == S \cup {c}
      <4>1. U \in SUBSET L /\ first \in U /\ \A n \in U : nx[n] \in U
        BY <3>2, <3>3
      <4> HIDE DEF U
      <4>2. U = L
        BY <4>1 DEF IsRing
      <4> QED BY <4>2 DEF U
    <3> QED BY <3>4
  <2>2. CASE c # first /\ p \notin S
    <3>1. \A n \in S : nx[n] \in S
      BY <2>2, <1>2, <1>5
    <3>2. S = L
      BY <2>2, <3>1, <1>5 DEF IsRing
    <3> QED BY <3>2
  <2> QED BY <2>1, <2>2
<1> QED BY <1>3, <1>4, <1>5 DEF IsRing

(* A node that is its own successor is the whole ring.                      *)
LEMMA SelfLoopIsWholeRing ==
  ASSUME NEW L, NEW first, NEW nx, NEW pv, IsRing(L, first, nx, pv), NEW c \in L, nx[c] = c
  PROVE  L = {c}
<1>1. CASE c = first
  <2>1. {first} \in SUBSET L /\ \A n \in {first} : nx[n] \in {first}
    BY <1>1
  <2> QED BY <1>1, <2>1 DEF IsRing
<1>2. CASE c # first
  <2> DEFINE S == L \ {c}
  <2>1. S \in SUBSET L /\ first \in S /\ \A n \in S : nx[n] \in S
    BY <1>2 DEF IsRing
  <2>2. S = L
    <3> HIDE DEF S
    <3> QED BY <2>1 DEF IsRing
  <2> QED BY <2>2
<1> QED BY <1>1, <1>2

-----------------------------------------------------------------------------
(* Control: where a thread can be, and with which arguments.                *)

Control ==
  \A t \in Threads :
    /\ Mutex = t <=> pc[t] \in {"walk", "sweep", "reread"}
    /\ pc[t] = "insert" =>
         \/ call[t].op = "InsertNodeHead" /\ call[t].tag = "none"
         \/ call[t].op = "InsertNodeHandle" /\ call[t].tag \in Places /\ Holds(t, call[t].h)
    /\ pc[t] = "compare" =>
         \/ call[t].op = "FindSW" /\ call[t].tag \in Tags /\ Empty(t, call[t].h)
         \/ call[t].op = "DeleteNodeSW" /\ call[t].tag = "WRITE"
    /\ pc[t] \in {"hop", "found"} =>
         call[t].op = "FindNodeNum" /\ call[t].tag \in Tags /\ Empty(t, call[t].h)
    /\ pc[t] = "walk" =>
         /\ call[t].op \in {"GetNextNode", "GetPreviousNode"}
         /\ call[t].tag \in Tags
         /\ Empty(t, call[t].h)
    /\ pc[t] \in {"sweep", "reread"} => call[t].op \in {"DeleteNodes", "Delete"}

-----------------------------------------------------------------------------
(* The inductive invariant.                                                 *)

(* No two threads are about to link, or to free, the same node, and a node  *)
(* about to be linked has no permission.                                    *)
DetachedApart ==
  /\ \A t, u \in Threads :
       pc[t] \in {"insert", "free"} /\ pc[u] \in {"insert", "free"} /\ cur[t] = cur[u] => t = u
  /\ \A t \in Threads :
       pc[t] = "insert" => ReadPermission[cur[t]] = 0 /\ WritePermission[cur[t]] = 0

ListInv ==
  /\ TypeOK
  /\ Control
  /\ DetachedApart
  /\ UsedNodesAreLinked
  /\ RingIsWhole
  /\ CountersMatchUsers
  /\ WriteIsExclusive

Used(n) == ReadPermission[n] # 0 \/ WritePermission[n] # 0

(* A sweep that has come to c saw, from the first node on, used nodes only: *)
(* V is what it has behind it.  Node lst is still the last.                 *)
SweptUpTo(t, c) ==
  /\ c \in Linked
  /\ call[t].lst = PreviousNode[EntriesList]
  /\ \E V \in SUBSET Linked :
       /\ \A n \in V : Used(n) /\ NextNode[n] \in V \cup {c}
       /\ EntriesList \in V \/ c = EntriesList

(* PreviousNodePtr, if it is still a node of the list, is the one before.   *)
(* The node a sweep has just freed leads to where the sweep goes on, until  *)
(* malloc hands it out again.                                               *)
SweepSound ==
  \A t \in Threads :
    /\ pc[t] = "sweep" =>
         /\ SweptUpTo(t, cur[t])
         /\ call[t].prv \in Linked /\ cur[t] # EntriesList => call[t].prv = PreviousNode[cur[t]]
    /\ pc[t] = "reread" =>
         /\ cur[t] \in Nodes \ Linked
         /\ cur[t] \notin heap => SweptUpTo(t, NextNode[cur[t]])
         /\ \A u \in Threads : pc[u] = "free" => cur[u] # cur[t]

(* Delete has the list for itself, and frees the head of an empty one.      *)
DeleteAlone ==
  /\ \A t \in Threads :
       /\ call[t].op = "Delete" =>
            /\ pc[t] \in {"sweep", "reread", "swept"}
            /\ \A u \in Threads \ {t} : pc[u] = "idle"
       /\ pc[t] = "swept" => call[t].op = "Delete" /\ HeadLive /\ heap = {}
  /\ ~HeadLive => heap = {} /\ \A t \in Threads : pc[t] = "idle"

IInv == ListInv /\ SweepSound /\ DeleteAlone

(* The number of users after one comes, goes, or is replaced by another.    *)
LEMMA CountUsers ==
  ASSUME NEW S, IsFiniteSet(S)
  PROVE  /\ Cardinality(S) \in Nat
         /\ Cardinality(S) = 0 => S = {}
         /\ \A u : u \notin S => Cardinality(S \cup {u}) = Cardinality(S) + 1
         /\ \A u : u \in S => Cardinality(S \ {u}) = Cardinality(S) - 1
         /\ \A u, v : u \in S /\ v \notin S => Cardinality((S \ {u}) \cup {v}) = Cardinality(S)
<1>1. Cardinality(S) \in Nat /\ (Cardinality(S) = 0 => S = {})
  BY FS_CardinalityType, FS_EmptySet
<1>2. \A u : u \notin S => Cardinality(S \cup {u}) = Cardinality(S) + 1
  BY FS_AddElement
<1>3. \A u : u \in S => Cardinality(S \ {u}) = Cardinality(S) - 1
  BY FS_RemoveElement
<1>4. ASSUME NEW u \in S, NEW v, v \notin S
      PROVE  Cardinality((S \ {u}) \cup {v}) = Cardinality(S)
  <2>1. IsFiniteSet(S \ {u}) /\ Cardinality(S \ {u}) = Cardinality(S) - 1
    BY FS_RemoveElement
  <2>2. Cardinality((S \ {u}) \cup {v}) = Cardinality(S \ {u}) + 1
    BY <1>4, <2>1, FS_AddElement
  <2> QED BY <1>1, <2>1, <2>2
<1> QED BY <1>1, <1>2, <1>3, <1>4

LEMMA UsersFinite ==
  \A n : IsFiniteSet(Readers(n)) /\ IsFiniteSet(Writers(n))
<1> SUFFICES ASSUME NEW n PROVE IsFiniteSet(Readers(n)) /\ IsFiniteSet(Writers(n))
  OBVIOUS
<1>1. IsFiniteSet(Threads \cup Handles)
  BY ThreadsAssumption, FS_Union
<1>2. Readers(n) \in SUBSET (Threads \cup Handles) /\ Writers(n) \in SUBSET (Threads \cup Handles)
  BY DEF Readers, Writers, Visitors, ReadGrants
<1> QED BY <1>1, <1>2, FS_Subset

(* A counter r1 and its users S1 after a step that changed both alike.      *)
Follows(S, r, S1, r1) ==
  \/ S1 = S /\ r1 = r
  \/ \E u : u \notin S /\ S1 = S \cup {u} /\ r1 = r + 1
  \/ \E u : u \in S /\ S1 = S \ {u} /\ r1 = r - 1
  \/ \E u, v : u \in S /\ v \notin S /\ S1 = (S \ {u}) \cup {v} /\ r1 = r

LEMMA FollowsCounts ==
  ASSUME NEW S, IsFiniteSet(S), NEW r, r = Cardinality(S), NEW S1, NEW r1, Follows(S, r, S1, r1)
  PROVE  r1 = Cardinality(S1)
<1>1. CASE S1 = S /\ r1 = r
  BY <1>1
<1>2. CASE \E u : u \notin S /\ S1 = S \cup {u} /\ r1 = r + 1
  BY <1>2, CountUsers
<1>3. CASE \E u : u \in S /\ S1 = S \ {u} /\ r1 = r - 1
  BY <1>3, CountUsers
<1>4. CASE \E u, v : u \in S /\ v \notin S /\ S1 = (S \ {u}) \cup {v} /\ r1 = r
  BY <1>4, CountUsers
<1> QED BY <1>1, <1>2, <1>3, <1>4 DEF Follows

LEMMA CountersFollow ==
  ASSUME \A n \in Linked' : ReadPermission[n] = Cardinality(Readers(n))
                            /\ WritePermission[n] = Cardinality(Writers(n)),
         \A n \in Linked' : Follows(Readers(n), ReadPermission[n], Readers(n)', ReadPermission'[n]),
         \A n \in Linked' : Follows(Writers(n), WritePermission[n], Writers(n)', WritePermission'[n])
  PROVE  CountersMatchUsers'
<1> SUFFICES ASSUME NEW n \in Linked'
             PROVE  /\ ReadPermission'[n] = Cardinality(Readers(n)')
                    /\ WritePermission'[n] = Cardinality(Writers(n)')
  BY DEF CountersMatchUsers
<1>1. ReadPermission'[n] = Cardinality(Readers(n)')
  BY UsersFinite, FollowsCounts
<1>2. WritePermission'[n] = Cardinality(Writers(n)')
  BY UsersFinite, FollowsCounts
<1> QED BY <1>1, <1>2

(* A step that leaves the ring of the listed nodes alone.                   *)
LEMMA RingFrame ==
  ASSUME RingIsWhole, UNCHANGED <<HeadLive, EntriesList, EntryAmount>>, Linked' = Linked,
         \A n \in Linked : NextNode'[n] = NextNode[n] /\ PreviousNode'[n] = PreviousNode[n]
  PROVE  RingIsWhole'
<1>1. CASE Linked = {}
  BY <1>1 DEF RingIsWhole
<1>2. CASE Linked # {}
  <2>1. IsRing(Linked, EntriesList, NextNode, PreviousNode)
    BY <1>2 DEF RingIsWhole
  <2>2. IsRing(Linked, EntriesList, NextNode', PreviousNode')
    BY <2>1 DEF IsRing
  <2> QED BY <2>2, <1>2 DEF RingIsWhole
<1> QED BY <1>1, <1>2

-----------------------------------------------------------------------------
(* Every step keeps the invariant.                                          *)

LEMMA DetachedNotLinked ==
  ASSUME ListInv, HeadLive, NEW u \in Threads, pc[u] \in {"insert", "free"}
  PROVE  cur[u] \notin Linked /\ cur[u] \in Nodes /\ cur[u] \in heap
BY DEF ListInv, TypeOK, UsedNodesAreLinked, Linked, Detached

(* A search of either kind begins with a visit of the first node.           *)
LEMMA VisitStartKeeps ==
  ASSUME ListInv, HeadLive, NEW t \in Threads, pc[t] = "idle", Unlocked, EntriesList # Null,
         NEW l, NEW c \in Calls,
         \/ l = "compare" /\ c.op = "FindSW" /\ c.tag \in Tags /\ Empty(t, c.h)
         \/ l = "compare" /\ c.op = "DeleteNodeSW" /\ c.tag = "WRITE"
         \/ l = "hop" /\ c.op = "FindNodeNum" /\ c.tag \in Tags /\ Empty(t, c.h),
         Pin(EntriesList), Enter(t, l, c, EntriesList),
         UNCHANGED <<HeadLive, Mutex, ring, WritePermission, heap, hands>>
  PROVE  ListInv'
<1> DEFINE e == EntriesList
<1>0. /\ e \in Linked /\ e \in Nodes
      /\ Mutex = Null
  BY DEF ListInv, RingIsWhole, IsRing, Unlocked, Control, TypeOK
<1>1. TypeOK'
  <2>1. call' \in [Threads -> Calls]
    BY DEF ListInv, TypeOK, Enter
  <2> QED
    BY <1>0, <2>1 DEF ListInv, TypeOK, Pin, Enter, ring, hands, Labels
<1>2. Control'
  BY <1>0 DEF ListInv, TypeOK, Control, Pin, Enter, NoCall, ring, hands, Empty, Holds
<1>3. Linked' = Linked /\ DetachedApart'
  <2>1. Linked' = Linked
    BY <1>0 DEF ListInv, TypeOK, Linked, Detached, Enter
  <2>2. DetachedApart'
    BY <1>0, DetachedNotLinked DEF ListInv, TypeOK, DetachedApart, Enter, Pin
  <2> QED BY <2>1, <2>2
<1>4. UsedNodesAreLinked'
  BY <1>0, <1>3 DEF ListInv, TypeOK, UsedNodesAreLinked, Enter, ring, hands, NoCall
<1>5. RingIsWhole'
  BY <1>3, RingFrame DEF ListInv, ring
<1>6. CountersMatchUsers'
  <2>1. \A n \in Linked : Writers(n)' = Writers(n)
    BY <1>0 DEF ListInv, TypeOK, Writers, HandleOn, Deletes, Enter, ring, hands
  <2>2. \A n \in Linked : Readers(n)' = IF n = e THEN Readers(n) \cup {t} ELSE Readers(n)
    BY <1>0 DEF ListInv, TypeOK, Readers, Visitors, ReadGrants, HandleOn, Visits, Enter, ring, hands
  <2>3. \A n \in Linked : t \notin Readers(n)
    BY <1>0, ThreadsAssumption DEF Readers, Visitors, ReadGrants, Visits
  <2>4. \A n \in Linked : ReadPermission'[n] = IF n = e THEN ReadPermission[n] + 1 ELSE ReadPermission[n]
    BY <1>0 DEF ListInv, TypeOK, Linked, Pin
  <2>5. \A n \in Linked : Follows(Readers(n), ReadPermission[n], Readers(n)', ReadPermission'[n])
    BY <2>2, <2>3, <2>4 DEF Follows
  <2>6. \A n \in Linked : Follows(Writers(n), WritePermission[n], Writers(n)', WritePermission'[n])
    BY <2>1 DEF Follows
  <2> QED BY <1>3, <2>5, <2>6, CountersFollow DEF ListInv, CountersMatchUsers
<1>7. WriteIsExclusive'
  BY <1>0 DEF ListInv, TypeOK, WriteIsExclusive, Writers, ReadGrants, HandleOn, Deletes, Enter, ring, hands
<1> QED BY <1>1, <1>2, <1>3, <1>4, <1>5, <1>6, <1>7 DEF ListInv

LEMMA StartKeeps ==
  ASSUME ListInv, NEW t \in Threads,
         \/ \E h \in Handles, tag \in Tags, opt \in BOOLEAN, key \in Keys :
              Empty(t, h) /\ FindStart(t, "FindSW", h, tag, opt, key)
         \/ \E opt \in BOOLEAN, key \in Keys :
              FindStart(t, "DeleteNodeSW", Null, "WRITE", opt, key)
         \/ \E h \in Handles, tag \in Tags, idx \in Indices : NumStart(t, h, tag, idx)
  PROVE  ListInv'
<1>1. ASSUME NEW h \in Handles, NEW tag \in Tags, NEW opt \in BOOLEAN, NEW key \in Keys,
             Empty(t, h) /\ FindStart(t, "FindSW", h, tag, opt, key)
      PROVE  ListInv'
  <2> DEFINE c == [NoCall EXCEPT !.op = "FindSW", !.h = h, !.tag = tag, !.opt = opt, !.key = key]
  <2>1. c \in Calls /\ c.op = "FindSW" /\ c.tag = tag /\ c.h = h
    BY DEF NoCall, Calls, AllOps, Tags
  <2>2. Enter(t, "compare", c, EntriesList)
    BY <1>1 DEF FindStart
  <2> HIDE DEF c
  <2> QED BY <1>1, <2>1, <2>2, VisitStartKeeps DEF FindStart, CanCall
<1>2. ASSUME NEW opt \in BOOLEAN, NEW key \in Keys,
             FindStart(t, "DeleteNodeSW", Null, "WRITE", opt, key)
      PROVE  ListInv'
  <2> DEFINE c == [NoCall EXCEPT !.op = "DeleteNodeSW", !.h = Null, !.tag = "WRITE", !.opt = opt,
                                 !.key = key]
  <2>1. c \in Calls /\ c.op = "DeleteNodeSW" /\ c.tag = "WRITE"
    BY DEF NoCall, Calls, AllOps, Tags
  <2>2. Enter(t, "compare", c, EntriesList)
    BY <1>2 DEF FindStart
  <2> HIDE DEF c
  <2> QED BY <1>2, <2>1, <2>2, VisitStartKeeps DEF FindStart, CanCall
<1>3. ASSUME NEW h \in Handles, NEW tag \in Tags, NEW idx \in Indices, NumStart(t, h, tag, idx)
      PROVE  ListInv'
  <2> DEFINE c == [NoCall EXCEPT !.op = "FindNodeNum", !.h = h, !.tag = tag, !.idx = idx]
  <2>1. c \in Calls /\ c.op = "FindNodeNum" /\ c.tag = tag /\ c.h = h
    BY ArgumentsAssumption DEF NoCall, Calls, AllOps, Tags
  <2>2. Enter(t, "hop", c, EntriesList)
    BY <1>3 DEF NumStart
  <2> HIDE DEF c
  <2> QED BY <1>3, <2>1, <2>2, VisitStartKeeps DEF NumStart, CanCall
<1> QED BY <1>1, <1>2, <1>3

LEMMA MallocKeeps ==
  ASSUME ListInv, HeadLive, NEW t \in Threads, NEW x \in Nodes, NEW op, NEW h, NEW place,
         Malloc(t, x, op, h, place),
         \/ op = "InsertNodeHead" /\ h = Null /\ place = "none"
         \/ op = "InsertNodeHandle" /\ h \in Handles /\ place \in Places /\ Holds(t, h)
  PROVE  ListInv'
<1>0. /\ x \notin heap /\ x \notin Linked
      /\ pc[t] = "idle" /\ HeadLive
  BY DEF ListInv, Malloc, CanCall, Control, Linked
<1>1. TypeOK'
  <2>1. [NoCall EXCEPT !.op = op, !.h = h, !.tag = place] \in Calls
    BY DEF NoCall, Calls, AllOps, Places
  <2>2. call' \in [Threads -> Calls]
    BY <2>1 DEF ListInv, TypeOK, Malloc, Enter
  <2> QED
    BY <1>0, <2>2 DEF ListInv, TypeOK, Malloc, Enter, hands, Labels
<1>2. Control'
  BY <1>0 DEF ListInv, TypeOK, Control, Malloc, Enter, NoCall, hands, Empty, Holds
<1>3. Linked' = Linked /\ DetachedApart'
  <2>1. Linked' = Linked
    BY <1>0 DEF ListInv, TypeOK, Linked, Detached, Malloc, Enter
  <2>2. DetachedApart'
    BY <1>0, DetachedNotLinked DEF ListInv, TypeOK, DetachedApart, Malloc, Enter
  <2> QED BY <2>1, <2>2
<1>4. UsedNodesAreLinked'
  BY <1>0, <1>3 DEF ListInv, TypeOK, UsedNodesAreLinked, Malloc, Enter, hands, NoCall
<1>5. RingIsWhole'
  <2>1. \A n \in Linked : NextNode'[n] = NextNode[n] /\ PreviousNode'[n] = PreviousNode[n]
    BY <1>0 DEF ListInv, TypeOK, Malloc, Linked
  <2> QED BY <1>3, <2>1, RingFrame DEF ListInv, Malloc
<1>6. CountersMatchUsers'
  <2>1. \A n \in Linked : Writers(n)' = Writers(n)
    BY <1>0 DEF ListInv, TypeOK, Writers, HandleOn, Deletes, Malloc, Enter, hands
  <2>2. \A n \in Linked : Readers(n)' = Readers(n)
    BY <1>0 DEF ListInv, TypeOK, Readers, Visitors, ReadGrants, HandleOn, Visits, Malloc, Enter, hands
  <2>3. \A n \in Linked : ReadPermission'[n] = ReadPermission[n] /\ WritePermission'[n] = WritePermission[n]
    BY <1>0 DEF ListInv, TypeOK, Linked, Malloc
  <2> QED BY <1>3, <2>1, <2>2, <2>3, CountersFollow DEF ListInv, CountersMatchUsers, Follows
<1>7. WriteIsExclusive'
  BY <1>0 DEF ListInv, TypeOK, WriteIsExclusive, Writers, ReadGrants, HandleOn, Deletes, Malloc, Enter, hands
<1> QED BY <1>1, <1>2, <1>3, <1>4, <1>5, <1>6, <1>7 DEF ListInv

(* The three insertions: q is the node the new one goes before.             *)
LEMMA LinkKeeps ==
  ASSUME ListInv, HeadLive, NEW t \in Threads, LinkFirst(t) \/ LinkBefore(t) \/ LinkAfter(t)
  PROVE  ListInv'
<1> DEFINE x == cur[t]
<1>0. /\ pc[t] = "insert" /\ Mutex = Null /\ HeadLive
      /\ x \in Nodes /\ x \in heap /\ x \notin Linked
      /\ pc' = [pc EXCEPT ![t] = "idle"] /\ cur' = [cur EXCEPT ![t] = Null]
      /\ call' = [call EXCEPT ![t] = NoCall]
      /\ EntryAmount' = EntryAmount + 1
      /\ UNCHANGED <<HeadLive, Mutex, perms, heap, hands>>
  BY DetachedNotLinked DEF ListInv, Control, LinkFirst, LinkBefore, LinkAfter, Return, Enter, Unlocked
<1>1. TypeOK'
  <2>1. NoCall \in Calls
    BY DEF NoCall, Calls
  <2>2. call' \in [Threads -> Calls]
    BY <1>0, <2>1 DEF ListInv, TypeOK
  <2>3. /\ NextNode' \in [Nodes -> Nodes \cup {Null}] /\ PreviousNode' \in [Nodes -> Nodes \cup {Null}]
        /\ EntriesList' \in Nodes \cup {Null}
    <3>1. \A h \in Handles : perm[h] # "none" =>
            /\ EntryPtr[h] \in Nodes /\ NextNode[EntryPtr[h]] \in Nodes
            /\ PreviousNode[EntryPtr[h]] \in Nodes
      BY DEF ListInv, UsedNodesAreLinked, RingIsWhole, IsRing, Linked, TypeOK
    <3>2. EntriesList # Null => PreviousNode[EntriesList] \in Nodes
      BY <1>0 DEF ListInv, UsedNodesAreLinked, RingIsWhole, IsRing, Linked, TypeOK
    <3>3. call[t].op = "InsertNodeHead" \/ Holds(t, call[t].h)
      BY <1>0 DEF ListInv, Control
    <3>4. CASE LinkFirst(t)
      BY <1>0, <3>2, <3>4 DEF ListInv, TypeOK, LinkFirst, Link
    <3>5. CASE LinkBefore(t)
      BY <1>0, <3>1, <3>3, <3>5 DEF ListInv, TypeOK, LinkBefore, Link, Holds, Control
    <3>6. CASE LinkAfter(t)
      BY <1>0, <3>1, <3>3, <3>6 DEF ListInv, TypeOK, LinkAfter, Link, Holds, Control
    <3> QED BY <3>4, <3>5, <3>6
  <2> QED
    BY <1>0, <2>2, <2>3 DEF ListInv, TypeOK, perms, hands, Labels
<1>2. Control'
  BY <1>0 DEF ListInv, TypeOK, Control, NoCall, hands, Empty, Holds
<1>3. Linked' = Linked \cup {x} /\ DetachedApart'
  <2>1. Linked' = Linked \cup {x}
    BY <1>0 DEF ListInv, TypeOK, Linked, Detached, DetachedApart
  <2>2. DetachedApart'
    BY <1>0 DEF ListInv, TypeOK, DetachedApart, perms
  <2> QED BY <2>1, <2>2
<1>4. UsedNodesAreLinked'
  BY <1>0, <1>3 DEF ListInv, TypeOK, UsedNodesAreLinked, hands, NoCall
<1>5. RingIsWhole'
  <2>0. IsFiniteSet(Linked)
    BY ThreadsAssumption, FS_Subset DEF ListInv, TypeOK, Linked
  <2>1. EntryAmount' = Cardinality(Linked')
    BY <1>0, <1>3, <2>0, CountUsers DEF ListInv, RingIsWhole
  <2>2. IsRing(Linked', EntriesList', NextNode', PreviousNode')
    <3>1. CASE Linked = {}
      <4>1. LinkFirst(t) /\ EntriesList = Null
        BY <1>0, <3>1 DEF ListInv, RingIsWhole, UsedNodesAreLinked, LinkBefore, LinkAfter, Control, Holds
      <4>2. EntriesList' = x /\ NextNode'[x] = x /\ PreviousNode'[x] = x
        BY <1>0, <4>1 DEF ListInv, TypeOK, LinkFirst
      <4> QED BY <1>3, <3>1, <4>2 DEF IsRing
    <3>2. CASE Linked # {}
      <4>1. IsRing(Linked, EntriesList, NextNode, PreviousNode) /\ EntriesList # Null
        BY <3>2, ThreadsAssumption DEF ListInv, TypeOK, RingIsWhole, IsRing, Linked
      <4>2. \E q \in Linked :
              /\ Linking(x, q, NextNode, PreviousNode, NextNode', PreviousNode')
              /\ EntriesList' = EntriesList \/ (q = EntriesList /\ EntriesList' = x)
        <5>1. CASE LinkFirst(t)
          BY <4>1, <5>1 DEF LinkFirst, Link, IsRing, Linking
        <5>2. CASE LinkBefore(t)
          <6> DEFINE q == EntryPtr[call[t].h]
          <6>1. q \in Linked
            BY <1>0, <5>2 DEF ListInv, Control, Holds, UsedNodesAreLinked, LinkBefore
          <6> QED BY <6>1, <5>2 DEF LinkBefore, Link, Linking
        <5>3. CASE LinkAfter(t)
          <6> DEFINE p == EntryPtr[call[t].h]
                     q == NextNode[p]
          <6>1. p \in Linked
            BY <1>0, <5>3 DEF ListInv, Control, Holds, UsedNodesAreLinked, LinkAfter
          <6>2. q \in Linked /\ PreviousNode[q] = p
            BY <6>1, <4>1 DEF IsRing
          <6>3. /\ NextNode' = [NextNode EXCEPT ![p] = x, ![x] = q]
                /\ PreviousNode' = [PreviousNode EXCEPT ![q] = x, ![x] = p]
                /\ EntriesList' = EntriesList
            BY <5>3 DEF LinkAfter, Link
          <6> QED BY <6>2, <6>3 DEF Linking
        <5> QED BY <5>1, <5>2, <5>3
      <4>3. Linked \subseteq Nodes
        BY DEF ListInv, TypeOK, Linked
      <4>4. NextNode \in [Nodes -> Nodes \cup {Null}] /\ PreviousNode \in [Nodes -> Nodes \cup {Null}]
        BY DEF ListInv, TypeOK
      <4>5. PICK q \in Linked :
              /\ Linking(x, q, NextNode, PreviousNode, NextNode', PreviousNode')
              /\ EntriesList' = EntriesList \/ (q = EntriesList /\ EntriesList' = x)
        BY <4>2
      <4>6. x \in Nodes /\ x \notin Linked
        BY <1>0
      <4>7. IsRing(Linked \cup {x}, EntriesList', NextNode', PreviousNode')
        BY <4>1, <4>3, <4>4, <4>5, <4>6, LinkExtendsRing
      <4> QED BY <1>3, <4>7
    <3> QED BY <3>1, <3>2
  <2> QED BY <1>3, <2>1, <2>2 DEF RingIsWhole
<1>6. CountersMatchUsers'
  <2>1. Writers(x) = {} /\ Readers(x) = {}
    BY <1>0 DEF ListInv, UsedNodesAreLinked, Readers, Writers, Visitors, ReadGrants, HandleOn, Visits, Deletes, Tags
  <2>2. ReadPermission[x] = 0 /\ WritePermission[x] = 0
    BY <1>0 DEF ListInv, DetachedApart
  <2>3. \A n \in Nodes : Writers(n)' = Writers(n) /\ Readers(n)' = Readers(n)
    BY <1>0 DEF ListInv, TypeOK, Readers, Writers, Visitors, ReadGrants, HandleOn, Visits, Deletes, hands
  <2>4. \A n \in Linked' : ReadPermission[n] = Cardinality(Readers(n))
                            /\ WritePermission[n] = Cardinality(Writers(n))
    BY <1>3, <2>1, <2>2, FS_EmptySet DEF ListInv, CountersMatchUsers
  <2>5. Linked' \subseteq Nodes
    BY <1>1 DEF TypeOK, Linked
  <2> QED BY <1>0, <2>3, <2>4, <2>5, CountersFollow DEF Follows, perms
<1>7. WriteIsExclusive'
  BY <1>0 DEF ListInv, TypeOK, WriteIsExclusive, Writers, ReadGrants, HandleOn, Deletes, hands
<1> QED BY <1>1, <1>2, <1>3, <1>4, <1>5, <1>6, <1>7 DEF ListInv

(* A detached node is freed: by FreeNode, or by an insertion to nowhere.    *)
LEMMA FreeKeeps ==
  ASSUME ListInv, HeadLive, NEW t \in Threads, LinkNowhere(t) \/ FreeNode(t)
  PROVE  ListInv'
<1> DEFINE x == cur[t]
<1>0. /\ (pc[t] \in {"insert", "free"} /\ Mutex = Null) \/ pc[t] = "free"
      /\ x \in Nodes /\ x \in heap /\ x \notin Linked
      /\ pc' = [pc EXCEPT ![t] = "idle"] /\ cur' = [cur EXCEPT ![t] = Null]
      /\ call' = [call EXCEPT ![t] = NoCall]
      /\ heap' = heap \ {x}
      /\ UNCHANGED <<HeadLive, Mutex, ring, perms, hands>>
  BY DetachedNotLinked DEF ListInv, Control, LinkNowhere, FreeNode, Return, Enter, Unlocked
<1>a. pc[t] \in {"insert", "free"}
  BY <1>0
<1>1. TypeOK'
  <2>1. NoCall \in Calls
    BY DEF NoCall, Calls
  <2> QED BY <1>0, <2>1 DEF ListInv, TypeOK, ring, perms, hands, Labels
<1>2. Control'
  BY <1>0, <1>a DEF ListInv, TypeOK, Control, NoCall, hands, Empty, Holds
<1>3. Linked' = Linked /\ DetachedApart'
  <2>1. Detached' = Detached \ {x}
    BY <1>0, <1>a DEF ListInv, TypeOK, Detached, DetachedApart
  <2>2. Linked' = Linked
    BY <1>0, <2>1 DEF Linked
  <2>3. DetachedApart'
    BY <1>0, <1>a DEF ListInv, TypeOK, DetachedApart, perms
  <2> QED BY <2>2, <2>3
<1>4. UsedNodesAreLinked'
  BY <1>0, <1>a, <1>3 DEF ListInv, TypeOK, UsedNodesAreLinked, DetachedApart, hands, NoCall
<1>5. RingIsWhole'
  BY <1>0, <1>3, RingFrame DEF ListInv, ring
<1>6. CountersMatchUsers'
  <2>1. \A n \in Nodes : Writers(n)' = Writers(n) /\ Readers(n)' = Readers(n)
    BY <1>0, <1>a DEF ListInv, TypeOK, Readers, Writers, Visitors, ReadGrants, HandleOn, Visits, Deletes, hands
  <2> QED BY <1>0, <1>3, <2>1, CountersFollow DEF ListInv, TypeOK, CountersMatchUsers, Follows, perms, Linked
<1>7. WriteIsExclusive'
  BY <1>0, <1>a DEF ListInv, TypeOK, WriteIsExclusive, Writers, ReadGrants, HandleOn, Deletes, hands
<1> QED BY <1>1, <1>2, <1>3, <1>4, <1>5, <1>6, <1>7 DEF ListInv

(* A search goes on: the visit moves to the next node, or ends where the    *)
(* ring does.                                                               *)
LEMMA NextKeeps ==
  ASSUME ListInv, HeadLive, NEW t \in Threads, FindNext(t) \/ NumHop(t)
  PROVE  ListInv'
<1> DEFINE c == cur[t]
           m == NextNode[c]
           last == m = EntriesList
<1>0. /\ pc[t] \in {"compare", "hop"} /\ Mutex = Null
      /\ c \in Linked /\ c \in Nodes /\ m \in Linked /\ m \in Nodes
      /\ EntriesList # Null
      /\ UNCHANGED <<HeadLive, Mutex, ring, WritePermission, heap, hands>>
  <2>1. /\ pc[t] \in {"compare", "hop"} /\ Mutex = Null
        /\ UNCHANGED <<HeadLive, Mutex, ring, WritePermission, heap, hands>>
    BY DEF FindNext, NumHop, Unlocked
  <2>2. c \in Linked /\ Linked \subseteq Nodes
    BY <2>1 DEF ListInv, TypeOK, UsedNodesAreLinked, Linked
  <2>3. m \in Linked /\ EntriesList \in Linked
    BY <2>2 DEF ListInv, RingIsWhole, IsRing
  <2> QED BY <2>1, <2>2, <2>3, ThreadsAssumption
<1>a. PICK l \in {"idle", "wrapped"}, x \in Nodes \cup {Null}, k \in Calls :
        /\ pc' = [pc EXCEPT ![t] = IF last THEN l ELSE pc[t]]
        /\ cur' = [cur EXCEPT ![t] = IF last THEN x ELSE m]
        /\ call' = [call EXCEPT ![t] = k]
        /\ ~last => k.op = call[t].op /\ k.tag = call[t].tag /\ k.h = call[t].h
        /\ MovePin(c, Following(t))
  <2>1. Following(t) = (IF last THEN Null ELSE m) /\ (Following(t) = Null <=> last)
    BY <1>0, ThreadsAssumption DEF Following
  <2>2. CASE FindNext(t)
    <3>1. NoCall \in Calls /\ call[t] \in Calls
      BY DEF NoCall, Calls, ListInv, TypeOK
    <3> QED BY <1>0, <2>1, <2>2, <3>1 DEF FindNext, Return, Enter
  <2>3. CASE NumHop(t)
    <3> DEFINE k == [call[t] EXCEPT !.idx = @ - 1]
    <3>1. k \in Calls /\ k.op = call[t].op /\ k.tag = call[t].tag /\ k.h = call[t].h
      BY <2>3 DEF Calls, ListInv, TypeOK, NumHop, HopsLeft
    <3>2. /\ pc' = [pc EXCEPT ![t] = IF last THEN "wrapped" ELSE pc[t]]
          /\ cur' = [cur EXCEPT ![t] = IF last THEN m ELSE m]
          /\ call' = [call EXCEPT ![t] = k]
          /\ MovePin(c, Following(t))
      BY <2>1, <2>3 DEF NumHop, Enter
    <3> HIDE DEF k
    <3> QED BY <1>0, <3>1, <3>2
  <2> QED BY <2>2, <2>3
<1>b. /\ \A n \in Nodes : ReadPermission'[n] = ReadPermission[n] - (IF n = c THEN 1 ELSE 0)
                                                + (IF ~last /\ n = m THEN 1 ELSE 0)
      /\ ReadPermission' \in [Nodes -> Int]
  <2>1. \A n \in Nodes : n = Following(t) <=> (~last /\ n = m)
    BY <1>0, ThreadsAssumption DEF Following
  <2> QED BY <1>a, <2>1 DEF MovePin, ListInv, TypeOK
<1>c. last \/ m # c
  <2> SUFFICES ASSUME m = c, ~last PROVE FALSE
    OBVIOUS
  <2>1. IsRing(Linked, EntriesList, NextNode, PreviousNode)
    BY <1>0 DEF ListInv, RingIsWhole
  <2>2. Linked = {c}
    BY <1>0, <2>1, SelfLoopIsWholeRing
  <2> QED BY <2>1, <2>2 DEF IsRing
<1>1. TypeOK'
  <2>1. call' \in [Threads -> Calls]
    BY <1>a DEF ListInv, TypeOK
  <2>2. pc' \in [Threads -> Labels] /\ cur' \in [Threads -> Nodes \cup {Null}]
    BY <1>0, <1>a DEF ListInv, TypeOK, Labels
  <2> QED BY <1>0, <1>b, <2>1, <2>2 DEF ListInv, TypeOK, ring, hands
<1>2. Control'
  BY <1>0, <1>a, <1>b DEF ListInv, TypeOK, Control, NoCall, hands, Empty, Holds
<1>3. Linked' = Linked /\ DetachedApart'
  <2>1. Linked' = Linked
    BY <1>0, <1>a, <1>b DEF ListInv, TypeOK, Linked, Detached
  <2>2. DetachedApart'
    BY <1>0, <1>a, <1>b, DetachedNotLinked DEF ListInv, TypeOK, DetachedApart
  <2> QED BY <2>1, <2>2
<1>4. UsedNodesAreLinked'
  BY <1>0, <1>a, <1>b, <1>3 DEF ListInv, TypeOK, UsedNodesAreLinked, hands, NoCall
<1>5. RingIsWhole'
  BY <1>0, <1>3, RingFrame DEF ListInv, ring
<1>6. CountersMatchUsers'
  <2>1. \A n \in Nodes : Writers(n)' = Writers(n)
    BY <1>0, <1>a, <1>b DEF ListInv, TypeOK, Writers, HandleOn, Deletes, hands
  <2>2. \A n \in Nodes : Readers(n)' = CASE n = c -> IF m = c /\ ~last THEN Readers(n) ELSE Readers(n) \ {t}
                                          [] n = m /\ n # c -> IF last THEN Readers(n) ELSE Readers(n) \cup {t}
                                          [] OTHER -> Readers(n)
    BY <1>0, <1>a, <1>b, ThreadsAssumption DEF ListInv, TypeOK, Readers, Visitors, ReadGrants, HandleOn, Visits, hands
  <2>3. \A n \in Nodes : t \in Readers(n) <=> n = c
    BY <1>0, ThreadsAssumption DEF Readers, Visitors, ReadGrants, Visits
  <2>4. \A n \in Nodes : Follows(Readers(n), ReadPermission[n], Readers(n)', ReadPermission'[n])
    BY <1>0, <1>a, <1>b, <1>c, <2>2, <2>3 DEF Follows, ListInv, TypeOK
  <2> QED BY <1>0, <1>3, <2>1, <2>4, CountersFollow DEF ListInv, TypeOK, CountersMatchUsers, Follows, Linked
<1>7. WriteIsExclusive'
  BY <1>0, <1>a, <1>b DEF ListInv, TypeOK, WriteIsExclusive, Writers, ReadGrants, HandleOn, Deletes, hands
<1> QED BY <1>1, <1>2, <1>3, <1>4, <1>5, <1>6, <1>7 DEF ListInv

(* What a counter that lets a user in says of the users already there.      *)
LEMMA CountersTell ==
  ASSUME ListInv, HeadLive, NEW n \in Linked
  PROVE  /\ ~(WritePermission[n] > 0) => Writers(n) = {}
         /\ ~(ReadPermission[n] > 0) => Readers(n) = {}
         /\ \A u \in Readers(n) : ~(ReadPermission[n] - 1 > 0) => Readers(n) = {u}
<1>1. /\ ReadPermission[n] = Cardinality(Readers(n)) /\ WritePermission[n] = Cardinality(Writers(n))
      /\ IsFiniteSet(Readers(n)) /\ IsFiniteSet(Writers(n))
  BY UsersFinite DEF ListInv, CountersMatchUsers
<1>2. Cardinality(Readers(n)) \in Nat /\ Cardinality(Writers(n)) \in Nat
  BY <1>1, FS_CardinalityType
<1>3. ~(WritePermission[n] > 0) => Writers(n) = {}
  BY <1>1, <1>2, FS_EmptySet
<1>4. ~(ReadPermission[n] > 0) => Readers(n) = {}
  BY <1>1, <1>2, FS_EmptySet
<1>5. ASSUME NEW u \in Readers(n), ~(ReadPermission[n] - 1 > 0)
      PROVE  Readers(n) = {u}
  <2>1. IsFiniteSet(Readers(n) \ {u}) /\ Cardinality(Readers(n) \ {u}) = Cardinality(Readers(n)) - 1
    BY <1>1, FS_RemoveElement
  <2>2. Cardinality(Readers(n) \ {u}) = 0
    BY <1>1, <1>2, <1>5, <2>1, FS_CardinalityType
  <2>3. Readers(n) \ {u} = {}
    BY <2>1, <2>2, FS_EmptySet
  <2> QED BY <2>3
<1> QED BY <1>3, <1>4, <1>5

LEMMA MatchKeeps ==
  ASSUME ListInv, HeadLive, NEW t \in Threads, FindMatch(t) \/ NumFound(t)
  PROVE  ListInv'
<1> DEFINE c == cur[t]
           h == call[t].h
           g == Regained(t)
<1>0. /\ pc[t] \in {"compare", "found"} /\ Mutex = Null /\ HeadLive
      /\ c \in Linked /\ c \in Nodes
      /\ h \in Handles /\ Owner[h] = t /\ perm[h] = "none"
      /\ UNCHANGED <<HeadLive, Mutex, ring, heap>>
      /\ pc' = [pc EXCEPT ![t] = "idle"] /\ cur' = [cur EXCEPT ![t] = Null]
      /\ call' = [call EXCEPT ![t] = NoCall]
      /\ EntryPtr' = [EntryPtr EXCEPT ![h] = c] /\ perm' = [perm EXCEPT ![h] = g]
  BY DEF ListInv, TypeOK, Control, UsedNodesAreLinked, Linked, FindMatch, NumFound, Unlocked, Empty, Return, Enter, SetHandle
<1>b. /\ g \in {"none", "READ", "WRITE"}
      /\ g = "READ" => ~(WritePermission[c] > 0)
      /\ g = "WRITE" => ~(WritePermission[c] > 0) /\ ~(ReadPermission[c] - 1 > 0)
  BY <1>0 DEF ListInv, Control, FindMatch, NumFound, Regained, Denied, Tags
<1>c. /\ ReadPermission' = [ReadPermission EXCEPT ![c] = IF g = "READ" THEN ReadPermission[c] - 1 + 1
                                                                     ELSE ReadPermission[c] - 1]
      /\ WritePermission' = [WritePermission EXCEPT ![c] = IF g = "WRITE" THEN WritePermission[c] + 1
                                                                        ELSE WritePermission[c]]
  BY DEF FindMatch, NumFound, Regain, SetPermission
<1>d. t \in Readers(c) /\ t \notin Handles
  BY <1>0, ThreadsAssumption DEF Readers, Visitors, Visits
<1>e. /\ g \in {"READ", "WRITE"} => Writers(c) = {}
      /\ g = "WRITE" => Readers(c) = {t}
  BY <1>0, <1>b, <1>d, CountersTell
<1>1. TypeOK'
  <2>1. NoCall \in Calls
    BY DEF NoCall, Calls
  <2> HIDE DEF g
  <2> QED BY <1>0, <1>b, <1>c, <2>1 DEF ListInv, TypeOK, ring, Labels, Tags
<1>2. Control'
  BY <1>0 DEF ListInv, TypeOK, Control, NoCall, Empty, Holds
<1>3. Linked' = Linked /\ DetachedApart'
  <2>1. Linked' = Linked
    BY <1>0 DEF ListInv, TypeOK, Linked, Detached
  <2>2. DetachedApart'
    <3> HIDE DEF g
    <3> QED BY <1>0, <1>c, DetachedNotLinked DEF ListInv, TypeOK, DetachedApart
  <2> QED BY <2>1, <2>2
<1>4. UsedNodesAreLinked'
  BY <1>0, <1>3 DEF ListInv, TypeOK, UsedNodesAreLinked, NoCall
<1>5. RingIsWhole'
  BY <1>0, <1>3, RingFrame DEF ListInv, ring
<1>6. CountersMatchUsers'
  <2> HIDE DEF g
  <2>1. \A n \in Nodes : Writers(n)' = IF n = c /\ g = "WRITE" THEN Writers(n) \cup {h} ELSE Writers(n)
    BY <1>0, <1>d DEF ListInv, TypeOK, Writers, HandleOn, Deletes
  <2>2. \A n \in Nodes : Readers(n)' = IF n # c THEN Readers(n)
                                       ELSE IF g = "READ" THEN (Readers(n) \ {t}) \cup {h}
                                       ELSE Readers(n) \ {t}
    BY <1>0, <1>d, ThreadsAssumption DEF ListInv, TypeOK, Readers, Visitors, ReadGrants, HandleOn, Visits
  <2>3. \A n \in Nodes : h \notin Readers(n) /\ h \notin Writers(n)
    BY <1>0, ThreadsAssumption DEF Readers, Writers, Visitors, ReadGrants, HandleOn
  <2>4. \A n \in Nodes : Follows(Readers(n), ReadPermission[n], Readers(n)', ReadPermission'[n])
    BY <1>0, <1>c, <1>d, <2>2, <2>3 DEF Follows, ListInv, TypeOK
  <2>5. \A n \in Nodes : Follows(Writers(n), WritePermission[n], Writers(n)', WritePermission'[n])
    BY <1>0, <1>c, <1>d, <2>1, <2>3 DEF Follows, ListInv, TypeOK
  <2> QED BY <1>3, <2>4, <2>5, CountersFollow DEF ListInv, TypeOK, CountersMatchUsers, Linked
<1>7. WriteIsExclusive'
  <2> HIDE DEF g
  <2>1. \A n \in Nodes : Writers(n)' = IF n = c /\ g = "WRITE" THEN Writers(n) \cup {h} ELSE Writers(n)
    BY <1>0, <1>d DEF ListInv, TypeOK, Writers, HandleOn, Deletes
  <2>2. \A n \in Nodes : ReadGrants(n)' = IF n = c /\ g = "READ" THEN ReadGrants(n) \cup {h} ELSE ReadGrants(n)
    BY <1>0 DEF ListInv, TypeOK, ReadGrants, HandleOn
  <2>3. g = "WRITE" => ReadGrants(c) = {}
    BY <1>d, <1>e, ThreadsAssumption DEF Readers, ReadGrants
  <2> QED BY <1>b, <1>e, <2>1, <2>2, <2>3 DEF ListInv, WriteIsExclusive
<1> QED BY <1>1, <1>2, <1>3, <1>4, <1>5, <1>6, <1>7 DEF ListInv

LEMMA DeleteMatchKeeps ==
  ASSUME ListInv, HeadLive, NEW t \in Threads, DeleteMatch(t)
  PROVE  ListInv'
<1> DEFINE c == cur[t]
           denied == Regained(t) = "none"
<1>0. /\ pc[t] = "compare" /\ Mutex = Null /\ HeadLive
      /\ c \in Linked /\ c \in Nodes
      /\ UNCHANGED <<HeadLive, Mutex, ring, heap, hands>>
      /\ pc' = [pc EXCEPT ![t] = IF denied THEN "idle" ELSE "unlink"]
      /\ cur' = [cur EXCEPT ![t] = IF denied THEN Null ELSE c]
      /\ call' = [call EXCEPT ![t] = IF denied THEN NoCall ELSE call[t]]
  <2>1. denied \/ ~denied
    OBVIOUS
  <2> QED
    BY <2>1 DEF ListInv, TypeOK, Control, UsedNodesAreLinked, Linked, DeleteMatch, Unlocked, Return, Enter, Goto
<1>b. /\ ReadPermission' = [ReadPermission EXCEPT ![c] = ReadPermission[c] - 1]
      /\ WritePermission' = [WritePermission EXCEPT ![c] = IF denied THEN WritePermission[c]
                                                                    ELSE WritePermission[c] + 1]
      /\ ~denied => ~(WritePermission[c] > 0) /\ ~(ReadPermission[c] - 1 > 0)
  BY <1>0 DEF ListInv, Control, DeleteMatch, Regain, Regained, SetPermission, Denied, Tags
<1>d. t \in Readers(c) /\ t \notin Handles
  BY <1>0, ThreadsAssumption DEF Readers, Visitors, Visits
<1>e. ~denied => Writers(c) = {} /\ Readers(c) = {t}
  BY <1>0, <1>b, <1>d, CountersTell
<1> HIDE DEF denied
<1>1. TypeOK'
  <2>1. NoCall \in Calls /\ call[t] \in Calls
    BY DEF NoCall, Calls, ListInv, TypeOK
  <2> QED BY <1>0, <1>b, <2>1 DEF ListInv, TypeOK, ring, hands, Labels, Tags
<1>2. Control'
  BY <1>0 DEF ListInv, TypeOK, Control, NoCall, Empty, Holds, hands
<1>3. Linked' = Linked /\ DetachedApart'
  <2>1. Linked' = Linked
    BY <1>0 DEF ListInv, TypeOK, Linked, Detached
  <2>2. DetachedApart'
    BY <1>0, <1>b, DetachedNotLinked DEF ListInv, TypeOK, DetachedApart
  <2> QED BY <2>1, <2>2
<1>4. UsedNodesAreLinked'
  BY <1>0, <1>3 DEF ListInv, TypeOK, UsedNodesAreLinked, NoCall, hands
<1>5. RingIsWhole'
  BY <1>0, <1>3, RingFrame DEF ListInv, ring
<1>6. \A n \in Nodes : Writers(n)' = IF n = c /\ ~denied THEN Writers(n) \cup {t} ELSE Writers(n)
  BY <1>0, <1>d DEF ListInv, TypeOK, Writers, HandleOn, Deletes, hands
<1>7. CountersMatchUsers'
  <2>2. \A n \in Nodes : Readers(n)' = IF n = c THEN Readers(n) \ {t} ELSE Readers(n)
    BY <1>0, <1>d, ThreadsAssumption DEF ListInv, TypeOK, Readers, Visitors, ReadGrants, HandleOn, Visits, hands
  <2>3. \A n \in Nodes : t \notin Writers(n)
    BY <1>0, <1>d DEF Writers, Deletes
  <2>4. \A n \in Nodes : Follows(Readers(n), ReadPermission[n], Readers(n)', ReadPermission'[n])
    BY <1>0, <1>b, <1>d, <2>2 DEF Follows, ListInv, TypeOK
  <2>5. \A n \in Nodes : Follows(Writers(n), WritePermission[n], Writers(n)', WritePermission'[n])
    BY <1>0, <1>b, <1>6, <2>3 DEF Follows, ListInv, TypeOK
  <2> QED BY <1>3, <2>4, <2>5, CountersFollow DEF ListInv, TypeOK, CountersMatchUsers, Linked
<1>8. WriteIsExclusive'
  <2>1. \A n \in Nodes : ReadGrants(n)' = ReadGrants(n)
    BY <1>0 DEF ReadGrants, HandleOn, hands
  <2>2. ~denied => ReadGrants(c) = {}
    BY <1>d, <1>e DEF Readers, ReadGrants
  <2> QED BY <1>e, <1>6, <2>1, <2>2 DEF ListInv, WriteIsExclusive
<1> QED BY <1>1, <1>2, <1>3, <1>4, <1>5, <1>7, <1>8 DEF ListInv

LEMMA UnlinkKeeps ==
  ASSUME ListInv, HeadLive, NEW t \in Threads, Unlink(t)
  PROVE  ListInv'
<1> DEFINE c == cur[t]
           used == ReadPermission[c] > 0 \/ WritePermission[c] - 1 > 0
<1>0. /\ pc[t] = "unlink" /\ Mutex = Null /\ HeadLive
      /\ c \in Linked /\ c \in Nodes /\ c \in heap
      /\ UNCHANGED <<HeadLive, Mutex, ReadPermission, heap, hands>>
      /\ WritePermission' = [WritePermission EXCEPT ![c] = WritePermission[c] - 1]
      /\ StillUsed(c) <=> used
  BY DEF ListInv, TypeOK, Control, UsedNodesAreLinked, Linked, Unlink, Unlocked, StillUsed
<1>b. t \in Writers(c) /\ t \notin Handles /\ \A n \in Nodes \ {c} : t \notin Writers(n)
  BY <1>0, ThreadsAssumption DEF Writers, Deletes
<1>c. ASSUME ~used PROVE Readers(c) = {} /\ Writers(c) = {t}
  <2>1. Readers(c) = {}
    BY <1>0, <1>c, CountersTell
  <2>2. Writers(c) = {t}
    BY <1>0, <1>b DEF ListInv, WriteIsExclusive
  <2> QED BY <2>1, <2>2
<1>d. IsRing(Linked, EntriesList, NextNode, PreviousNode)
  BY <1>0 DEF ListInv, RingIsWhole
<1>e. IF used
        THEN /\ UNCHANGED ring
             /\ pc' = [pc EXCEPT ![t] = "idle"] /\ cur' = [cur EXCEPT ![t] = Null]
             /\ call' = [call EXCEPT ![t] = NoCall]
        ELSE /\ EntriesList' = CASE c # EntriesList -> EntriesList
                                 [] c = EntriesList /\ NextNode[c] = c -> Null
                                 [] OTHER -> NextNode[c]
             /\ Join(c)
             /\ EntryAmount' = EntryAmount - 1
             /\ pc' = [pc EXCEPT ![t] = "free"] /\ UNCHANGED <<cur, call>>
  BY <1>0 DEF Unlink, Return, Enter, Goto
<1> HIDE DEF used
<1>1. TypeOK'
  <2>1. NoCall \in Calls
    BY DEF NoCall, Calls
  <2>2. NextNode[c] \in Nodes /\ PreviousNode[c] \in Nodes
    BY <1>0, <1>d DEF IsRing, Linked, ListInv, TypeOK
  <2>3. /\ NextNode' \in [Nodes -> Nodes \cup {Null}] /\ PreviousNode' \in [Nodes -> Nodes \cup {Null}]
        /\ EntriesList' \in Nodes \cup {Null} /\ EntryAmount' \in Int
    BY <1>e, <2>2 DEF ListInv, TypeOK, Join, ring
  <2>4. pc' \in [Threads -> Labels] /\ cur' \in [Threads -> Nodes \cup {Null}] /\ call' \in [Threads -> Calls]
    BY <1>e, <2>1 DEF ListInv, TypeOK, Labels
  <2>5. WritePermission' \in [Nodes -> Int]
    BY <1>0 DEF ListInv, TypeOK
  <2>6. /\ HeadLive' \in BOOLEAN /\ Mutex' \in Threads \cup {Null} /\ ReadPermission' \in [Nodes -> Int]
        /\ heap' \subseteq Nodes /\ EntryPtr' \in [Handles -> Nodes \cup {Null}]
        /\ perm' \in [Handles -> Tags \cup {"none"}]
    BY <1>0 DEF ListInv, TypeOK, hands
  <2> QED BY <2>3, <2>4, <2>5, <2>6 DEF TypeOK
<1>2. Control'
  BY <1>0, <1>e DEF ListInv, TypeOK, Control, NoCall, Empty, Holds, hands
<1>3. Linked' = IF used THEN Linked ELSE Linked \ {c}
  <2>1. CASE used
    BY <1>0, <1>e, <2>1 DEF ListInv, TypeOK, Linked, Detached
  <2>2. CASE ~used
    <3>1. Detached' = Detached \cup {c}
      BY <1>0, <1>e, <2>2 DEF ListInv, TypeOK, Detached
    <3> QED BY <1>0, <2>2, <3>1 DEF Linked
  <2> QED BY <2>1, <2>2
<1>4. DetachedApart'
  BY <1>0, <1>e, DetachedNotLinked DEF ListInv, TypeOK, DetachedApart
<1>5. UsedNodesAreLinked'
  <2>1. CASE used
    BY <1>0, <1>e, <1>3, <2>1 DEF ListInv, TypeOK, UsedNodesAreLinked, NoCall, hands
  <2>2. CASE ~used
    <3>1. \A h \in Handles : perm[h] # "none" => EntryPtr[h] # c
      BY <1>b, <1>c, <2>2 DEF ListInv, TypeOK, Tags, Readers, ReadGrants, Writers, HandleOn
    <3>2. \A u \in Threads \ {t} : pc[u] \in {"compare", "hop", "found", "unlink"} => cur[u] # c
      BY <1>c, <2>2 DEF Readers, Visitors, Visits, Writers, Deletes
    <3>3. \A u \in Threads : pc[u] \notin {"walk", "sweep"}
      BY <1>0, ThreadsAssumption DEF ListInv, Control
    <3> QED BY <1>0, <1>e, <1>3, <2>2, <3>1, <3>2, <3>3 DEF ListInv, TypeOK, UsedNodesAreLinked, hands
  <2> QED BY <2>1, <2>2
<1>6. RingIsWhole'
  <2>1. CASE used
    BY <1>0, <1>e, <1>3, <2>1, RingFrame DEF ListInv, ring
  <2>2. CASE ~used
    <3>0. IsFiniteSet(Linked)
      BY ThreadsAssumption, FS_Subset DEF ListInv, TypeOK, Linked
    <3>1. EntryAmount' = Cardinality(Linked')
      BY <1>0, <1>3, <1>e, <2>2, <3>0, CountUsers DEF ListInv, RingIsWhole
    <3>2. CASE NextNode[c] = c
      <4>1. Linked = {c}
        BY <1>0, <1>d, <3>2, SelfLoopIsWholeRing
      <4>2. Linked' = {} /\ EntriesList' = Null
        BY <1>d, <1>e, <1>3, <2>2, <3>2, <4>1 DEF IsRing
      <4> QED BY <3>1, <4>2 DEF RingIsWhole
    <3>3. CASE NextNode[c] # c
      <4>1. Joining(c, NextNode, PreviousNode, NextNode', PreviousNode')
        BY <1>e, <2>2 DEF Join, Joining
      <4>2. EntriesList' = IF c = EntriesList THEN NextNode[c] ELSE EntriesList
        BY <1>e, <2>2, <3>3
      <4>3. /\ Linked \subseteq Nodes
            /\ NextNode \in [Nodes -> Nodes \cup {Null}]
            /\ PreviousNode \in [Nodes -> Nodes \cup {Null}]
        BY DEF ListInv, TypeOK, Linked
      <4>4. IsRing(Linked \ {c}, EntriesList', NextNode', PreviousNode')
        BY <1>0, <1>d, <3>3, <4>1, <4>2, <4>3, JoinKeepsRing
      <4>5. Linked' # {}
        BY <4>4, <1>3, <2>2 DEF IsRing
      <4> QED BY <1>3, <2>2, <3>1, <4>4, <4>5 DEF RingIsWhole
    <3> QED BY <3>2, <3>3
  <2> QED BY <2>1, <2>2
<1>7. /\ \A n \in Nodes : Writers(n)' = IF n = c THEN Writers(n) \ {t} ELSE Writers(n)
      /\ \A n \in Nodes : Readers(n)' = Readers(n) /\ ReadGrants(n)' = ReadGrants(n)
  BY <1>0, <1>e, <1>b DEF ListInv, TypeOK, Readers, Visitors, ReadGrants, Visits, Writers, HandleOn, Deletes, hands
<1>8. CountersMatchUsers'
  <2>1. \A n \in Nodes : Follows(Readers(n), ReadPermission[n], Readers(n)', ReadPermission'[n])
    BY <1>0, <1>7 DEF Follows
  <2>2. \A n \in Nodes : Follows(Writers(n), WritePermission[n], Writers(n)', WritePermission'[n])
    BY <1>0, <1>b, <1>7 DEF Follows, ListInv, TypeOK
  <2>3. Linked' \subseteq Linked /\ Linked \subseteq Nodes
    BY <1>3 DEF ListInv, TypeOK, Linked
  <2> QED BY <2>1, <2>2, <2>3, CountersFollow DEF ListInv, CountersMatchUsers
<1>9. WriteIsExclusive'
  BY <1>7 DEF ListInv, WriteIsExclusive
<1> QED BY <1>1, <1>2, <1>4, <1>5, <1>6, <1>8, <1>9 DEF ListInv

(* GetNextNode and GetPreviousNode go from a linked node to a linked node.  *)
LEMMA StepStaysLinked ==
  ASSUME ListInv, HeadLive, NEW n \in Linked, NEW op
  PROVE  Step(op, n) \in Linked
BY DEF ListInv, RingIsWhole, IsRing, Step

LEMMA WalkStartKeeps ==
  ASSUME ListInv, HeadLive, NEW t \in Threads, NEW op \in {"GetNextNode", "GetPreviousNode"},
         NEW from \in Handles \cup {Null}, NEW h \in Handles, NEW tag \in Tags, NEW skip \in BOOLEAN,
         WalkStart(t, op, from, h, tag, skip)
  PROVE  ListInv'
<1> DEFINE node == IF from = Null THEN EntriesList ELSE EntryPtr[from]
           m == IF from = Null THEN node ELSE Step(op, node)
           c == [NoCall EXCEPT !.op = op, !.h = h, !.tag = tag, !.opt = skip, !.prv = node]
<1>0. /\ pc[t] = "idle" /\ Mutex = Null /\ HeadLive /\ Empty(t, h)
      /\ node \in Linked /\ m \in Linked /\ node \in Nodes /\ m \in Nodes
      /\ Mutex' = t
      /\ UNCHANGED <<HeadLive, ring, perms, heap, hands>>
      /\ pc' = [pc EXCEPT ![t] = "walk"] /\ cur' = [cur EXCEPT ![t] = m]
      /\ call' = [call EXCEPT ![t] = c]
  <2>1. /\ pc[t] = "idle" /\ Mutex = Null /\ HeadLive /\ Empty(t, h)
        /\ UNCHANGED <<HeadLive, ring, perms, heap, hands>> /\ Mutex' = t
        /\ EntriesList # Null /\ (from = Null \/ Holds(t, from))
    BY DEF WalkStart, CanCall, Unlocked
  <2>2. node \in Linked
    <3>1. CASE from = Null
      BY <2>1, <3>1 DEF ListInv, RingIsWhole, IsRing
    <3>2. CASE from # Null
      BY <2>1, <3>2 DEF Holds, ListInv, UsedNodesAreLinked
    <3> QED BY <3>1, <3>2
  <2>3. m \in Linked
    BY <2>2, StepStaysLinked
  <2>4. Linked \subseteq Nodes
    BY DEF Linked, ListInv, TypeOK
  <2> QED BY <2>1, <2>2, <2>3, <2>4 DEF WalkStart, Enter
<1>1. TypeOK'
  <2>1. c \in Calls
    BY <1>0 DEF NoCall, Calls, AllOps, Tags
  <2> HIDE DEF c, m, node
  <2>2. call' \in [Threads -> Calls]
    BY <1>0, <2>1 DEF ListInv, TypeOK
  <2> QED BY <1>0, <2>2 DEF ListInv, TypeOK, ring, perms, hands, Labels
<1>2. c.op = op /\ c.h = h /\ c.tag = tag /\ c.prv = node
  BY DEF NoCall
<1> HIDE DEF c, m, node
<1>3. Control'
  BY <1>0, <1>2, ThreadsAssumption DEF ListInv, TypeOK, Control, hands, Empty, Holds
<1>4. Linked' = Linked /\ DetachedApart'
  <2>1. Linked' = Linked
    BY <1>0 DEF ListInv, TypeOK, Linked, Detached
  <2>2. DetachedApart'
    BY <1>0, DetachedNotLinked DEF ListInv, TypeOK, DetachedApart, perms
  <2> QED BY <2>1, <2>2
<1>5. UsedNodesAreLinked'
  BY <1>0, <1>2, <1>4 DEF ListInv, TypeOK, UsedNodesAreLinked, hands
<1>6. RingIsWhole'
  BY <1>0, <1>4, RingFrame DEF ListInv, ring
<1>7. \A n \in Nodes : Writers(n)' = Writers(n) /\ Readers(n)' = Readers(n) /\ ReadGrants(n)' = ReadGrants(n)
  BY <1>0 DEF ListInv, TypeOK, Readers, Writers, Visitors, ReadGrants, HandleOn, Visits, Deletes, hands
<1>8. CountersMatchUsers'
  BY <1>0, <1>4, <1>7, CountersFollow DEF ListInv, TypeOK, CountersMatchUsers, Follows, perms, Linked
<1>9. WriteIsExclusive'
  BY <1>7 DEF ListInv, WriteIsExclusive
<1> QED BY <1>1, <1>3, <1>4, <1>5, <1>6, <1>8, <1>9 DEF ListInv

(* A walk goes on to the next node, or gives up.                            *)
LEMMA WalkOnKeeps ==
  ASSUME ListInv, HeadLive, NEW t \in Threads, WalkFail(t) \/ WalkSkip(t)
  PROVE  ListInv'
<1> DEFINE m == Step(call[t].op, cur[t])
<1>0. /\ pc[t] = "walk" /\ Mutex = t /\ HeadLive
      /\ cur[t] \in Linked /\ m \in Linked /\ m \in Nodes
      /\ UNCHANGED <<HeadLive, ring, perms, heap, hands>>
      /\ \/ /\ Mutex' = Null
            /\ pc' = [pc EXCEPT ![t] = "idle"] /\ cur' = [cur EXCEPT ![t] = Null]
            /\ call' = [call EXCEPT ![t] = NoCall]
         \/ /\ Mutex' = Mutex
            /\ pc' = [pc EXCEPT ![t] = "walk"] /\ cur' = [cur EXCEPT ![t] = m]
            /\ call' = [call EXCEPT ![t] = call[t]]
  <2>1. pc[t] = "walk"
    BY DEF WalkFail, WalkSkip
  <2>2. cur[t] \in Linked /\ m \in Linked /\ m \in Nodes
    BY <2>1, StepStaysLinked DEF ListInv, UsedNodesAreLinked, TypeOK, Linked
  <2>3. Mutex = t /\ HeadLive
    BY <2>1 DEF ListInv, Control
  <2> QED BY <2>1, <2>2, <2>3 DEF WalkFail, WalkSkip, Return, Enter
<1> HIDE DEF m
<1>1. TypeOK'
  <2>1. NoCall \in Calls /\ call[t] \in Calls
    BY DEF NoCall, Calls, ListInv, TypeOK
  <2>2. call' \in [Threads -> Calls]
    BY <1>0, <2>1 DEF ListInv, TypeOK
  <2> QED BY <1>0, <2>2 DEF ListInv, TypeOK, ring, perms, hands, Labels
<1>2. Control'
  BY <1>0, ThreadsAssumption DEF ListInv, TypeOK, Control, NoCall, hands, Empty, Holds
<1>3. Linked' = Linked /\ DetachedApart'
  <2>1. Linked' = Linked
    BY <1>0 DEF ListInv, TypeOK, Linked, Detached
  <2>2. DetachedApart'
    BY <1>0, DetachedNotLinked DEF ListInv, TypeOK, DetachedApart, perms
  <2> QED BY <2>1, <2>2
<1>4. UsedNodesAreLinked'
  BY <1>0, <1>3 DEF ListInv, TypeOK, UsedNodesAreLinked, hands, NoCall
<1>5. RingIsWhole'
  BY <1>0, <1>3, RingFrame DEF ListInv, ring
<1>6. \A n \in Nodes : Writers(n)' = Writers(n) /\ Readers(n)' = Readers(n) /\ ReadGrants(n)' = ReadGrants(n)
  BY <1>0 DEF ListInv, TypeOK, Readers, Writers, Visitors, ReadGrants, HandleOn, Visits, Deletes, hands
<1>7. CountersMatchUsers'
  BY <1>0, <1>3, <1>6, CountersFollow DEF ListInv, TypeOK, CountersMatchUsers, Follows, perms, Linked
<1>8. WriteIsExclusive'
  BY <1>6 DEF ListInv, WriteIsExclusive
<1> QED BY <1>1, <1>2, <1>3, <1>4, <1>5, <1>7, <1>8 DEF ListInv

(* An empty handle h gets the permission g on the linked node c, when the   *)
(* counters of c let it; thread t, which was idle or walked, is idle after. *)
LEMMA GrantKeeps ==
  ASSUME ListInv, HeadLive, NEW t \in Threads, pc[t] \in {"idle", "walk"},
         NEW h \in Handles, Empty(t, h), NEW c \in Linked, NEW g \in Tags \cup {"none"},
         g = "READ" => ~(WritePermission[c] > 0),
         g = "WRITE" => ~(WritePermission[c] > 0) /\ ~(ReadPermission[c] > 0),
         SetPermission(c, ReadPermission[c], WritePermission[c], g),
         SetHandle(h, c, g),
         Mutex' = IF pc[t] = "walk" THEN Null ELSE Mutex,
         UNCHANGED <<HeadLive, ring, heap>>,
         pc' = [pc EXCEPT ![t] = "idle"],
         \/ UNCHANGED <<cur, call>>
         \/ cur' = [cur EXCEPT ![t] = Null] /\ call' = [call EXCEPT ![t] = NoCall]
  PROVE  ListInv'
<1>0. /\ c \in Nodes /\ HeadLive
      /\ Owner[h] = t /\ perm[h] = "none"
      /\ EntryPtr' = [EntryPtr EXCEPT ![h] = c] /\ perm' = [perm EXCEPT ![h] = g]
      /\ ReadPermission' = [ReadPermission EXCEPT ![c] = IF g = "READ" THEN ReadPermission[c] + 1
                                                                     ELSE ReadPermission[c]]
      /\ WritePermission' = [WritePermission EXCEPT ![c] = IF g = "WRITE" THEN WritePermission[c] + 1
                                                                        ELSE WritePermission[c]]
  BY DEF ListInv, TypeOK, Control, Linked, Empty, SetPermission, SetHandle
<1>b. /\ g \in Tags => Writers(c) = {}
      /\ g = "WRITE" => Readers(c) = {}
  BY CountersTell DEF Tags
<1>1. TypeOK'
  <2>1. NoCall \in Calls
    BY DEF NoCall, Calls
  <2>2. call' \in [Threads -> Calls] /\ cur' \in [Threads -> Nodes \cup {Null}]
    BY <2>1 DEF ListInv, TypeOK
  <2>3. ReadPermission' \in [Nodes -> Int] /\ WritePermission' \in [Nodes -> Int]
    BY <1>0 DEF ListInv, TypeOK
  <2> QED BY <1>0, <2>2, <2>3 DEF ListInv, TypeOK, ring, Labels
<1>2. Control'
  BY <1>0, ThreadsAssumption DEF ListInv, TypeOK, Control, NoCall, Empty, Holds
<1>3. Linked' = Linked /\ DetachedApart'
  <2>1. Linked' = Linked
    BY <1>0 DEF ListInv, TypeOK, Linked, Detached
  <2>2. DetachedApart'
    BY <1>0, DetachedNotLinked DEF ListInv, TypeOK, DetachedApart
  <2> QED BY <2>1, <2>2
<1>4. UsedNodesAreLinked'
  BY <1>0, <1>3 DEF ListInv, TypeOK, UsedNodesAreLinked, NoCall
<1>5. RingIsWhole'
  BY <1>0, <1>3, RingFrame DEF ListInv, ring
<1>6. \A n \in Nodes :
        /\ Writers(n)' = IF n = c /\ g = "WRITE" THEN Writers(n) \cup {h} ELSE Writers(n)
        /\ Readers(n)' = IF n = c /\ g = "READ" THEN Readers(n) \cup {h} ELSE Readers(n)
        /\ ReadGrants(n)' = IF n = c /\ g = "READ" THEN ReadGrants(n) \cup {h} ELSE ReadGrants(n)
  BY <1>0 DEF ListInv, TypeOK, Writers, Readers, Visitors, Visits, ReadGrants, HandleOn, Deletes
<1>7. CountersMatchUsers'
  <2>1. \A n \in Nodes : h \notin Readers(n) /\ h \notin Writers(n)
    BY <1>0, ThreadsAssumption DEF Readers, Writers, Visitors, ReadGrants, HandleOn
  <2>2. \A n \in Nodes : Follows(Readers(n), ReadPermission[n], Readers(n)', ReadPermission'[n])
    BY <1>0, <1>6, <2>1 DEF Follows, ListInv, TypeOK
  <2>3. \A n \in Nodes : Follows(Writers(n), WritePermission[n], Writers(n)', WritePermission'[n])
    BY <1>0, <1>6, <2>1 DEF Follows, ListInv, TypeOK
  <2> QED BY <1>3, <2>2, <2>3, CountersFollow DEF ListInv, TypeOK, CountersMatchUsers, Linked
<1>8. WriteIsExclusive'
  <2>1. g = "WRITE" => ReadGrants(c) = {}
    BY <1>b DEF Readers
  <2> QED BY <1>b, <1>6, <2>1 DEF ListInv, WriteIsExclusive, Tags
<1> QED BY <1>1, <1>2, <1>3, <1>4, <1>5, <1>7, <1>8 DEF ListInv

LEMMA WalkGrantKeeps ==
  ASSUME ListInv, HeadLive, NEW t \in Threads, WalkGrant(t)
  PROVE  ListInv'
<1> DEFINE h == call[t].h
           g == call[t].tag
           c == cur[t]
<1>1. /\ pc[t] = "walk" /\ g \in Tags /\ Empty(t, h) /\ h \in Handles /\ c \in Linked
  BY DEF WalkGrant, ListInv, Control, UsedNodesAreLinked, Empty
<1>2. /\ g = "READ" => ~(WritePermission[c] > 0)
      /\ g = "WRITE" => ~(WritePermission[c] > 0) /\ ~(ReadPermission[c] > 0)
  BY <1>1 DEF WalkGrant, WalkDenied, ListInv, TypeOK, Linked
<1>3. /\ SetPermission(c, ReadPermission[c], WritePermission[c], g) /\ SetHandle(h, c, g)
      /\ Mutex' = Null /\ UNCHANGED <<HeadLive, ring, heap>>
      /\ pc' = [pc EXCEPT ![t] = "idle"]
      /\ cur' = [cur EXCEPT ![t] = Null] /\ call' = [call EXCEPT ![t] = NoCall]
  BY DEF WalkGrant, Return, Enter
<1> HIDE DEF h, g, c
<1> QED BY <1>1, <1>2, <1>3, GrantKeeps

LEMMA GetPermisssionKeeps ==
  ASSUME ListInv, HeadLive, NEW t \in Threads, NEW from \in Handles, NEW h \in Handles, NEW tag \in Tags,
         GetPermisssion(t, from, h, tag)
  PROVE  ListInv'
<1> DEFINE c == EntryPtr[from]
           g == IF Denied(ReadPermission[c], WritePermission[c], tag) THEN "none" ELSE tag
<1>1. /\ pc[t] = "idle" /\ Empty(t, h) /\ c \in Linked
  BY DEF GetPermisssion, CanCall, Holds, ListInv, UsedNodesAreLinked
<1>2. /\ g \in Tags \cup {"none"}
      /\ g = "READ" => ~(WritePermission[c] > 0)
      /\ g = "WRITE" => ~(WritePermission[c] > 0) /\ ~(ReadPermission[c] > 0)
  BY DEF Denied, Tags
<1>3. /\ SetPermission(c, ReadPermission[c], WritePermission[c], g) /\ SetHandle(h, c, g)
      /\ UNCHANGED <<HeadLive, Mutex, ring, heap, cur, call>>
      /\ pc' = [pc EXCEPT ![t] = "idle"]
  BY <1>1 DEF GetPermisssion, local, ListInv, TypeOK
<1> HIDE DEF g, c
<1> QED BY <1>1, <1>2, <1>3, GrantKeeps

LEMMA ReleaseKeeps ==
  ASSUME ListInv, HeadLive, NEW t \in Threads, NEW h \in Handles, Release(t, h)
  PROVE  ListInv'
<1> DEFINE c == EntryPtr[h]
           g == perm[h]
<1>0. /\ pc[t] = "idle" /\ HeadLive /\ Mutex = Null
      /\ c \in Linked /\ c \in Nodes /\ g \in Tags /\ Owner[h] = t
      /\ perm' = [perm EXCEPT ![h] = "none"]
      /\ UNCHANGED <<HeadLive, Mutex, ring, heap, local, EntryPtr>>
  BY DEF Release, Holds, Unlocked, ListInv, UsedNodesAreLinked, TypeOK, Linked
<1>a. /\ h \notin Threads
      /\ h \in Readers(c) <=> g = "READ"
      /\ h \in Writers(c) <=> g = "WRITE"
      /\ \A n \in Nodes \ {c} : h \notin Readers(n) /\ h \notin Writers(n)
  BY <1>0, ThreadsAssumption DEF Readers, Writers, Visitors, ReadGrants, HandleOn, Tags
<1>b. /\ ReadPermission' = [ReadPermission EXCEPT ![c] = IF g = "READ" THEN ReadPermission[c] - 1
                                                                     ELSE ReadPermission[c]]
      /\ WritePermission' = [WritePermission EXCEPT ![c] = IF g = "WRITE" THEN WritePermission[c] - 1
                                                                        ELSE WritePermission[c]]
  <2>1. g = "READ" => ReadPermission[c] > 0
    BY <1>0, <1>a, CountersTell
  <2>2. g = "WRITE" => WritePermission[c] > 0
    BY <1>0, <1>a, CountersTell
  <2> QED BY <1>0, <2>1, <2>2 DEF Release
<1> HIDE DEF g
<1>1. TypeOK'
  <2>1. ReadPermission' \in [Nodes -> Int] /\ WritePermission' \in [Nodes -> Int]
    BY <1>0, <1>b DEF ListInv, TypeOK
  <2> QED BY <1>0, <2>1 DEF ListInv, TypeOK, ring, local
<1>2. Control'
  <2>1. \A u \in Threads : pc[u] = "insert" => Owner[call[u].h] = u \/ call[u].op = "InsertNodeHead"
    BY DEF ListInv, Control, Holds
  <2> QED BY <1>0, <2>1 DEF ListInv, TypeOK, Control, Empty, Holds, local
<1>3. Linked' = Linked /\ DetachedApart'
  <2>1. Linked' = Linked
    BY <1>0 DEF Linked, Detached, local
  <2>2. DetachedApart'
    BY <1>0, <1>b, DetachedNotLinked DEF ListInv, TypeOK, DetachedApart, local
  <2> QED BY <2>1, <2>2
<1>4. UsedNodesAreLinked'
  BY <1>0, <1>3 DEF ListInv, TypeOK, UsedNodesAreLinked, local
<1>5. RingIsWhole'
  BY <1>0, <1>3, RingFrame DEF ListInv, ring
<1>6. \A n \in Nodes :
        /\ Writers(n)' = IF n = c /\ g = "WRITE" THEN Writers(n) \ {h} ELSE Writers(n)
        /\ Readers(n)' = IF n = c /\ g = "READ" THEN Readers(n) \ {h} ELSE Readers(n)
        /\ ReadGrants(n)' = IF n = c /\ g = "READ" THEN ReadGrants(n) \ {h} ELSE ReadGrants(n)
  BY <1>0, <1>a DEF g, ListInv, TypeOK, Writers, Readers, Visitors, Visits, ReadGrants, HandleOn, Deletes, local, Tags
<1>7. CountersMatchUsers'
  <2>1. \A n \in Nodes : Follows(Readers(n), ReadPermission[n], Readers(n)', ReadPermission'[n])
    BY <1>0, <1>a, <1>b, <1>6 DEF Follows, ListInv, TypeOK
  <2>2. \A n \in Nodes : Follows(Writers(n), WritePermission[n], Writers(n)', WritePermission'[n])
    BY <1>0, <1>a, <1>b, <1>6 DEF Follows, ListInv, TypeOK
  <2> QED BY <1>3, <2>1, <2>2, CountersFollow DEF ListInv, TypeOK, CountersMatchUsers, Linked
<1>8. WriteIsExclusive'
  BY <1>6 DEF ListInv, WriteIsExclusive
<1> QED BY <1>1, <1>2, <1>3, <1>4, <1>5, <1>7, <1>8 DEF ListInv

(* Thread t, which uses no node, goes to another place of the code.         *)
LEMMA GoesKeeps ==
  ASSUME ListInv, NEW t \in Threads, pc[t] \in {"idle", "wrapped", "sweep", "reread"},
         NEW l \in {"idle", "sweep", "swept"}, NEW x \in Nodes \cup {Null}, NEW k \in Calls,
         pc' = [pc EXCEPT ![t] = l], cur' = [cur EXCEPT ![t] = x], call' = [call EXCEPT ![t] = k],
         l = "sweep" => x \in Linked /\ k.op \in {"DeleteNodes", "Delete"},
         Mutex' \in Threads \cup {Null},
         \A u \in Threads : Mutex' = u <=> pc'[u] \in {"walk", "sweep", "reread"},
         UNCHANGED <<HeadLive, ring, perms, heap, hands>>
  PROVE  ListInv' /\ Linked' = Linked
<1>1. TypeOK'
  BY DEF ListInv, TypeOK, ring, perms, hands, Labels
<1>2. Control'
  BY DEF ListInv, TypeOK, Control, hands, Empty, Holds
<1>3. Linked' = Linked
  <2>1. Detached' = Detached
    BY DEF ListInv, TypeOK, Detached
  <2> QED BY <2>1 DEF Linked
<1>4. DetachedApart'
  BY DEF ListInv, TypeOK, DetachedApart, perms
<1>5. UsedNodesAreLinked'
  BY <1>3 DEF ListInv, TypeOK, UsedNodesAreLinked, hands
<1>6. RingIsWhole'
  BY <1>3, RingFrame DEF ListInv, ring
<1>7. \A n \in Nodes : Writers(n)' = Writers(n) /\ Readers(n)' = Readers(n)
                       /\ ReadGrants(n)' = ReadGrants(n)
  BY DEF ListInv, TypeOK, Readers, Writers, Visitors, ReadGrants, HandleOn, Visits, Deletes, hands
<1>8. CountersMatchUsers'
  BY <1>3, <1>7, CountersFollow
     DEF ListInv, TypeOK, CountersMatchUsers, Follows, perms, Linked
<1>9. WriteIsExclusive'
  BY <1>7 DEF ListInv, WriteIsExclusive
<1> QED BY <1>1, <1>2, <1>3, <1>4, <1>5, <1>6, <1>8, <1>9 DEF ListInv

(* Nobody uses a node without a permission.                                 *)
LEMMA UnusedNode ==
  ASSUME ListInv, NEW n \in Linked
  PROVE  /\ ReadPermission[n] = 0 <=> Readers(n) = {}
         /\ WritePermission[n] = 0 <=> Writers(n) = {}
         /\ Used(n) <=> InUse(n)
<1>1. /\ ReadPermission[n] = Cardinality(Readers(n)) /\ WritePermission[n] = Cardinality(Writers(n))
      /\ IsFiniteSet(Readers(n)) /\ IsFiniteSet(Writers(n))
  BY UsersFinite DEF ListInv, CountersMatchUsers
<1>2. ReadPermission[n] \in Nat /\ WritePermission[n] \in Nat
  BY <1>1, FS_CardinalityType
<1>3. /\ ReadPermission[n] = 0 <=> Readers(n) = {}
      /\ WritePermission[n] = 0 <=> Writers(n) = {}
  BY <1>1, FS_EmptySet
<1> QED BY <1>2, <1>3 DEF Used, InUse

(* Thread t, inside a sweep, frees the node n.                              *)
LEMMA SweptKeeps ==
  ASSUME ListInv, HeadLive, NEW t \in Threads, pc[t] = "sweep", NEW n \in Linked, ~Used(n),
         heap' = heap \ {n}, EntryAmount' = EntryAmount - 1,
         IF NextNode[n] = n
           THEN EntriesList' = Null /\ UNCHANGED <<NextNode, PreviousNode>>
           ELSE /\ Joining(n, NextNode, PreviousNode, NextNode', PreviousNode')
                /\ EntriesList' = IF n = EntriesList THEN NextNode[n] ELSE EntriesList,
         NEW l \in {"idle", "sweep", "reread", "swept"}, NEW x \in Nodes \cup {Null}, NEW k \in Calls,
         pc' = [pc EXCEPT ![t] = l], cur' = [cur EXCEPT ![t] = x], call' = [call EXCEPT ![t] = k],
         l = "sweep" => x \in Linked \ {n},
         l \in {"sweep", "reread"} => k.op = call[t].op,
         Mutex' \in Threads \cup {Null},
         \A u \in Threads : Mutex' = u <=> pc'[u] \in {"walk", "sweep", "reread"},
         cur[t] = n,
         UNCHANGED <<HeadLive, perms, hands>>
  PROVE  ListInv' /\ Linked' = Linked \ {n}
<1>1. IsRing(Linked, EntriesList, NextNode, PreviousNode) /\ n \in Nodes
  BY DEF ListInv, RingIsWhole, TypeOK, Linked
<1>2. NextNode[n] \in Nodes /\ PreviousNode[n] \in Nodes
  BY <1>1 DEF IsRing, Linked, ListInv, TypeOK
<1>3. TypeOK'
  <2>1. NextNode' \in [Nodes -> Nodes \cup {Null}] /\ PreviousNode' \in [Nodes -> Nodes \cup {Null}]
    BY <1>2 DEF ListInv, TypeOK, Joining
  <2>2. EntriesList' \in Nodes \cup {Null}
    BY <1>2 DEF ListInv, TypeOK
  <2> QED BY <2>1, <2>2 DEF ListInv, TypeOK, perms, hands, Labels
<1>4. Control'
  BY DEF ListInv, TypeOK, Control, hands, Empty, Holds
<1>5. Linked' = Linked \ {n}
  <2>1. Detached' = Detached
    BY DEF ListInv, TypeOK, Detached
  <2> QED BY <2>1 DEF Linked
<1>6. DetachedApart'
  BY DEF ListInv, TypeOK, DetachedApart, perms
<1>7. Readers(n) = {} /\ Writers(n) = {}
  BY UnusedNode DEF Used
<1>8. UsedNodesAreLinked'
  <2>1. \A h \in Handles : perm[h] # "none" => EntryPtr[h] # n
    BY <1>7 DEF ListInv, TypeOK, Tags, Readers, ReadGrants, Writers, HandleOn
  <2>2. \A u \in Threads : pc[u] \in {"compare", "hop", "found", "unlink"} => cur[u] # n
    BY <1>7 DEF Readers, Visitors, Visits, Writers, Deletes
  <2>3. \A u \in Threads \ {t} : pc[u] \notin {"walk", "sweep"}
    BY DEF ListInv, Control
  <2>4. \A u \in Threads : pc[u] \in {"insert", "free"} => cur[u] # n
    BY DetachedNotLinked
  <2> QED BY <1>5, <2>1, <2>2, <2>3, <2>4 DEF ListInv, TypeOK, UsedNodesAreLinked, hands
<1>9. RingIsWhole'
  <2>1. IsFiniteSet(Linked)
    BY ThreadsAssumption, FS_Subset DEF ListInv, TypeOK, Linked
  <2>2. EntryAmount' = Cardinality(Linked')
    BY <1>5, <2>1, CountUsers DEF ListInv, RingIsWhole
  <2>3. CASE NextNode[n] = n
    <3>1. Linked = {n}
      BY <1>1, <2>3, SelfLoopIsWholeRing
    <3>2. Linked' = {} /\ EntriesList' = Null
      BY <1>5, <2>3, <3>1
    <3> QED BY <2>2, <3>2 DEF RingIsWhole
  <2>4. CASE NextNode[n] # n
    <3>1. /\ Linked \subseteq Nodes
          /\ NextNode \in [Nodes -> Nodes \cup {Null}]
          /\ PreviousNode \in [Nodes -> Nodes \cup {Null}]
      BY DEF ListInv, TypeOK, Linked
    <3>2. IsRing(Linked \ {n}, EntriesList', NextNode', PreviousNode')
      BY <1>1, <2>4, <3>1, JoinKeepsRing
    <3>3. Linked' # {}
      BY <1>5, <3>2 DEF IsRing
    <3> QED BY <1>5, <2>2, <3>2, <3>3 DEF RingIsWhole
  <2> QED BY <2>3, <2>4
<1>10. \A m \in Nodes : Writers(m)' = Writers(m) /\ Readers(m)' = Readers(m)
                        /\ ReadGrants(m)' = ReadGrants(m)
  BY DEF ListInv, TypeOK, Readers, Writers, Visitors, ReadGrants, HandleOn, Visits, Deletes, hands
<1>11. CountersMatchUsers'
  BY <1>5, <1>10, CountersFollow
     DEF ListInv, TypeOK, CountersMatchUsers, Follows, perms, Linked
<1>12. WriteIsExclusive'
  BY <1>10 DEF ListInv, WriteIsExclusive
<1> QED BY <1>3, <1>4, <1>5, <1>6, <1>8, <1>9, <1>11, <1>12 DEF ListInv

(* What the theorems ask of a step: the test of FindNodeNum, made without   *)
(* the mutex, tells whether the loop went round; a sweep has not freed the  *)
(* node it calls PreviousNodePtr; and nobody was handed the node out of     *)
(* whose freed memory it reads on.                                          *)
Spared(t) ==
  /\ NumTest(t) => (pc[t] = "wrapped" <=> cur[t] = EntriesList)
  /\ SweepMiddle(t) => call[t].prv \in Linked
  /\ SweepReread(t) => cur[t] \notin heap

(* FindNodeNum found its node, or went round.                               *)
LEMMA NumTestKeeps ==
  ASSUME ListInv, NEW t \in Threads, NumTest(t), Spared(t)
  PROVE  ListInv' /\ Linked' = Linked
<1>1. CASE pc[t] = "wrapped"
  <2>1. Return(t) /\ UNCHANGED <<HeadLive, Mutex, ring, perms, heap, hands>>
    BY <1>1 DEF NumTest, Spared
  <2>2. NoCall \in Calls
    BY DEF NoCall, Calls
  <2>3. \A u \in Threads : Mutex' = u <=> pc'[u] \in {"walk", "sweep", "reread"}
    BY <1>1, <2>1 DEF ListInv, TypeOK, Control, Return, Enter
  <2> QED BY <1>1, <2>1, <2>2, <2>3, GoesKeeps DEF Return, Enter, ListInv, TypeOK
<1>2. CASE pc[t] # "wrapped"
  <2>1. /\ pc[t] = "hop" /\ pc' = [pc EXCEPT ![t] = "found"]
        /\ UNCHANGED <<HeadLive, Mutex, ring, perms, heap, hands, cur, call>>
    BY <1>2 DEF NumTest, Spared, Goto
  <2>2. TypeOK' /\ Control'
    BY <2>1 DEF ListInv, TypeOK, Control, ring, perms, hands, Labels, Empty, Holds
  <2>3. Linked' = Linked
    <3>1. Detached' = Detached
      BY <2>1 DEF ListInv, TypeOK, Detached
    <3> QED BY <2>1, <3>1 DEF Linked
  <2>4. DetachedApart' /\ UsedNodesAreLinked'
    BY <2>1, <2>3 DEF ListInv, TypeOK, DetachedApart, UsedNodesAreLinked, perms, hands
  <2>5. RingIsWhole'
    BY <2>1, <2>3, RingFrame DEF ListInv, ring
  <2>6. \A n \in Nodes : Writers(n)' = Writers(n) /\ Readers(n)' = Readers(n)
                         /\ ReadGrants(n)' = ReadGrants(n)
    BY <2>1 DEF ListInv, TypeOK, Readers, Writers, Visitors, ReadGrants, HandleOn, Visits, Deletes, hands
  <2>7. CountersMatchUsers'
    BY <2>1, <2>3, <2>6, CountersFollow
       DEF ListInv, TypeOK, CountersMatchUsers, Follows, perms, Linked
  <2>8. WriteIsExclusive'
    BY <2>6 DEF ListInv, WriteIsExclusive
  <2> QED BY <2>2, <2>3, <2>4, <2>5, <2>7, <2>8 DEF ListInv
<1> QED BY <1>1, <1>2

-----------------------------------------------------------------------------
(* Sweeps and the deletion of the list.                                     *)

(* A step that needs the mutex free, or held by a walk, meets no sweep.     *)
LEMMA NoSweepAround ==
  ASSUME IInv, NEW t \in Threads, Mutex = Null \/ pc[t] = "walk",
         NEW l, pc' = [pc EXCEPT ![t] = l], l \notin {"sweep", "reread"}
  PROVE  SweepSound'
<1>1. \A u \in Threads : pc'[u] \notin {"sweep", "reread"}
  BY ThreadsAssumption DEF IInv, ListInv, TypeOK, Control
<1> QED BY <1>1 DEF SweepSound

(* A step of a call other than Delete, or the start of one.                 *)
LEMMA NoDeleteAround ==
  ASSUME IInv, NEW t \in Threads, HeadLive, HeadLive',
         \/ pc[t] \notin {"idle", "sweep", "reread", "swept"}
         \/ \A u \in Threads : call[u].op # "Delete",
         NEW l, pc' = [pc EXCEPT ![t] = l], l # "swept",
         NEW k, call' = [call EXCEPT ![t] = k], k.op # "Delete"
  PROVE  DeleteAlone'
<1>1. \A u \in Threads : call[u].op # "Delete" /\ pc[u] # "swept"
  BY DEF IInv, DeleteAlone
<1>2. \A u \in Threads : call'[u].op # "Delete" /\ pc'[u] # "swept"
  BY <1>1 DEF IInv, ListInv, TypeOK
<1> QED BY <1>2 DEF DeleteAlone

(* What a sweep knows stays true while other threads allocate nodes or free *)
(* the detached ones: c is where it goes on.                                *)
LEMMA SweptStays ==
  ASSUME IInv, NEW s \in Threads, NEW c, SweptUpTo(s, c),
         Linked' = Linked, UNCHANGED EntriesList, call'[s] = call[s],
         \A n \in Linked : /\ NextNode'[n] = NextNode[n] /\ PreviousNode'[n] = PreviousNode[n]
                           /\ ReadPermission'[n] = ReadPermission[n]
                           /\ WritePermission'[n] = WritePermission[n]
  PROVE  /\ call'[s].lst = PreviousNode'[EntriesList']
         /\ \E V \in SUBSET Linked' :
              /\ \A n \in V : (ReadPermission'[n] # 0 \/ WritePermission'[n] # 0)
                              /\ NextNode'[n] \in V \cup {c}
              /\ EntriesList' \in V \/ c = EntriesList'
<1>1. EntriesList \in Linked
  BY DEF SweptUpTo, IInv, ListInv, RingIsWhole, IsRing
<1>2. PICK V \in SUBSET Linked : /\ \A n \in V : Used(n) /\ NextNode[n] \in V \cup {c}
                                 /\ EntriesList \in V \/ c = EntriesList
  BY DEF SweptUpTo
<1>3. \A n \in V : (ReadPermission'[n] # 0 \/ WritePermission'[n] # 0) /\ NextNode'[n] \in V \cup {c}
  BY <1>2 DEF Used
<1>4. call'[s].lst = PreviousNode'[EntriesList']
  BY <1>1 DEF SweptUpTo
<1>5. EntriesList' \in V \/ c = EntriesList'
  BY <1>2
<1>6. V \in SUBSET Linked'
  OBVIOUS
<1> QED BY <1>3, <1>4, <1>5, <1>6

LEMMA AroundSweepKeeps ==
  ASSUME IInv, NEW t \in Threads, pc[t] \in {"idle", "free", "hop", "wrapped"},
         NEW l \in {"idle", "insert", "found"}, pc' = [pc EXCEPT ![t] = l],
         \A u \in Threads \ {t} : cur'[u] = cur[u] /\ call'[u] = call[u],
         Linked' = Linked, UNCHANGED EntriesList,
         \A n \in Linked : /\ NextNode'[n] = NextNode[n] /\ PreviousNode'[n] = PreviousNode[n]
                           /\ ReadPermission'[n] = ReadPermission[n]
                           /\ WritePermission'[n] = WritePermission[n],
         \/ UNCHANGED <<heap, NextNode>>
         \/ pc[t] = "free" /\ heap' = heap \ {cur[t]} /\ UNCHANGED NextNode
         \/ \E x \in Nodes : heap' = heap \cup {x} /\ \A n \in Nodes \ {x} : NextNode'[n] = NextNode[n]
  PROVE  SweepSound'
<1> SUFFICES ASSUME NEW s \in Threads, pc'[s] \in {"sweep", "reread"}
             PROVE  /\ pc'[s] = "sweep" =>
                         /\ SweptUpTo(s, cur[s])'
                         /\ call'[s].prv \in Linked' /\ cur'[s] # EntriesList'
                            => call'[s].prv = PreviousNode'[cur'[s]]
                    /\ pc'[s] = "reread" =>
                         /\ cur'[s] \in Nodes \ Linked'
                         /\ cur'[s] \notin heap' => SweptUpTo(s, NextNode[cur[s]])'
                         /\ \A u \in Threads : pc'[u] = "free" => cur'[u] # cur'[s]
  BY DEF SweepSound
<1>2. s # t /\ pc[s] = pc'[s] /\ cur'[s] = cur[s] /\ call'[s] = call[s]
  BY DEF IInv, ListInv, TypeOK
<1>3. CASE pc[s] = "sweep"
  <2>1. SweptUpTo(s, cur[s])
    BY <1>3 DEF IInv, SweepSound
  <2>2. SweptUpTo(s, cur[s])'
    BY <1>2, <2>1, SweptStays DEF SweptUpTo, Used
  <2> QED BY <1>2, <1>3, <2>1, <2>2 DEF IInv, SweepSound, SweptUpTo
<1>4. CASE pc[s] = "reread"
  <2>1. /\ cur[s] \in Nodes \ Linked
        /\ cur[s] \notin heap => SweptUpTo(s, NextNode[cur[s]])
        /\ \A u \in Threads : pc[u] = "free" => cur[u] # cur[s]
    BY <1>4 DEF IInv, SweepSound
  <2>2. \A u \in Threads : pc'[u] = "free" => cur'[u] # cur'[s]
    BY <1>2, <2>1 DEF IInv, ListInv, TypeOK
  <2>3. ASSUME cur'[s] \notin heap' PROVE SweptUpTo(s, NextNode[cur[s]])'
    <3>1. cur[s] \notin heap /\ NextNode'[cur[s]] = NextNode[cur[s]]
      BY <1>2, <2>1, <2>3
    <3> QED BY <1>2, <2>1, <3>1, SweptStays DEF SweptUpTo, Used
  <2> QED BY <1>2, <1>4, <2>1, <2>2, <2>3
<1> QED BY <1>2, <1>3, <1>4

(* A sweep begins, or Delete finds an empty list.                           *)
LEMMA SweepStartKeeps ==
  ASSUME IInv, NEW t \in Threads, NEW op \in {"DeleteNodes", "Delete"}, SweepStart(t, op)
  PROVE  IInv' /\ Linked' = Linked
<1>1. /\ pc[t] = "idle" /\ HeadLive /\ Mutex = Null
      /\ \A u \in Threads : call[u].op # "Delete"
      /\ op = "Delete" => \A u \in Threads : pc[u] = "idle"
      /\ UNCHANGED <<HeadLive, ring, perms, heap, hands>>
  BY DEF SweepStart, CanCall, Unlocked
<1>2. /\ EntryAmount = Cardinality(Linked) /\ IsFiniteSet(Linked)
      /\ Linked # {} => IsRing(Linked, EntriesList, NextNode, PreviousNode)
      /\ Linked = {} => EntriesList = Null
      /\ \A u \in Threads : pc[u] \notin {"walk", "sweep", "reread"}
  BY <1>1, ThreadsAssumption, FS_Subset DEF IInv, ListInv, TypeOK, Linked, RingIsWhole, Control
<1>3. CASE EntriesList = Null \/ EntryAmount <= 0
  <2> DEFINE k == [NoCall EXCEPT !.op = op]
  <2>1. /\ op = "Delete" /\ EntryAmount = 0 /\ UNCHANGED Mutex
        /\ pc' = [pc EXCEPT ![t] = "swept"] /\ cur' = [cur EXCEPT ![t] = Null]
        /\ call' = [call EXCEPT ![t] = k]
    BY <1>3 DEF SweepStart, Enter
  <2>2. k \in Calls /\ k.op = op
    BY DEF NoCall, Calls, AllOps
  <2> HIDE DEF k
  <2>3. \A u \in Threads : Mutex' = u <=> pc'[u] \in {"walk", "sweep", "reread"}
    BY <1>1, <1>2, <2>1, ThreadsAssumption DEF IInv, ListInv, TypeOK
  <2>4. ListInv' /\ Linked' = Linked
    BY <1>1, <2>1, <2>2, <2>3, GoesKeeps DEF IInv, ListInv, TypeOK
  <2>5. heap = {}
    <3>1. Linked = {}
      BY <1>2, <2>1, FS_EmptySet
    <3>2. Detached = {}
      BY <1>1, <2>1 DEF Detached
    <3> QED BY <1>1, <3>1, <3>2 DEF Linked
  <2>6. SweepSound'
    BY <1>2, <2>1 DEF SweepSound, IInv, ListInv, TypeOK
  <2>7. DeleteAlone'
    BY <1>1, <2>1, <2>2, <2>5 DEF DeleteAlone, IInv, ListInv, TypeOK
  <2> QED BY <2>4, <2>6, <2>7 DEF IInv
<1>4. CASE ~(EntriesList = Null \/ EntryAmount <= 0)
  <2> DEFINE e == EntriesList
             k == [NoCall EXCEPT !.op = op, !.prv = EntriesList, !.lst = PreviousNode[EntriesList]]
  <2>1. /\ Mutex' = t
        /\ pc' = [pc EXCEPT ![t] = "sweep"] /\ cur' = [cur EXCEPT ![t] = e]
        /\ call' = [call EXCEPT ![t] = k]
    BY <1>4 DEF SweepStart, Enter
  <2>2. e \in Linked /\ e \in Nodes
    BY <1>2, <1>4 DEF IsRing, Linked, IInv, ListInv, TypeOK
  <2>3. k \in Calls /\ k.op = op /\ k.lst = PreviousNode[e]
    BY <2>2 DEF NoCall, Calls, AllOps, IInv, ListInv, TypeOK
  <2> HIDE DEF k
  <2>4. \A u \in Threads : Mutex' = u <=> pc'[u] \in {"walk", "sweep", "reread"}
    BY <1>2, <2>1 DEF IInv, ListInv, TypeOK
  <2>5. ListInv' /\ Linked' = Linked
    BY <1>1, <2>1, <2>2, <2>3, <2>4, GoesKeeps DEF IInv, ListInv, TypeOK
  <2>6. /\ pc'[t] = "sweep" /\ cur'[t] = e /\ call'[t] = k
        /\ \A u \in Threads \ {t} : pc'[u] = pc[u] /\ call'[u] = call[u]
    BY <2>1 DEF IInv, ListInv, TypeOK
  <2>7. SweptUpTo(t, cur[t])'
    <3>1. {} \in SUBSET Linked'
      OBVIOUS
    <3> QED BY <1>1, <2>2, <2>3, <2>5, <2>6, <3>1 DEF SweptUpTo, ring
  <2>8. SweepSound'
    BY <1>1, <1>2, <2>6, <2>7 DEF SweepSound, ring
  <2>9. DeleteAlone'
    BY <1>1, <2>3, <2>6, <2>1 DEF DeleteAlone, IInv
  <2> QED BY <2>5, <2>8, <2>9 DEF IInv
<1> QED BY <1>3, <1>4

(* In a sweep or a reread only t is, and a step of it that stays in the     *)
(* call, or returns, leaves Delete alone.                                   *)
LEMMA SweepAlone ==
  ASSUME IInv, NEW t \in Threads, pc[t] \in {"sweep", "reread"}, HeadLive' = HeadLive,
         \A u \in Threads \ {t} : pc'[u] = pc[u] /\ call'[u] = call[u] /\ cur'[u] = cur[u],
         \/ pc'[t] \in {"sweep", "reread"} /\ call'[t].op = call[t].op
         \/ pc'[t] = "swept" /\ call'[t].op = "Delete" /\ call[t].op = "Delete" /\ heap' = {}
         \/ pc'[t] = "idle" /\ call'[t].op # "Delete"
  PROVE  /\ HeadLive /\ Mutex = t
         /\ \A u \in Threads \ {t} : pc'[u] \notin {"walk", "sweep", "reread"}
         /\ DeleteAlone'
<1>1. HeadLive /\ Mutex = t
  BY DEF IInv, DeleteAlone, ListInv, Control
<1>2. \A u \in Threads \ {t} : pc'[u] \notin {"walk", "sweep", "reread"}
  BY <1>1 DEF IInv, ListInv, Control
<1>3. \A u \in Threads \ {t} : pc[u] # "swept" /\ call[u].op # "Delete"
  BY DEF IInv, DeleteAlone
<1>4. DeleteAlone'
  BY <1>1, <1>3 DEF IInv, DeleteAlone
<1> QED BY <1>1, <1>2, <1>4

LEMMA SweepSkipKeeps ==
  ASSUME IInv, NEW t \in Threads, SweepSkip(t)
  PROVE  IInv' /\ Linked' = Linked
<1> DEFINE n == cur[t]
           m == NextNode[n]
           k == [call[t] EXCEPT !.prv = n]
<1>1. /\ pc[t] = "sweep" /\ InUse(n)
      /\ pc' = [pc EXCEPT ![t] = "sweep"] /\ cur' = [cur EXCEPT ![t] = m]
      /\ call' = [call EXCEPT ![t] = k]
      /\ UNCHANGED <<HeadLive, Mutex, ring, perms, heap, hands>>
  BY DEF SweepSkip, Sweeping, Enter
<1>2. SweptUpTo(t, n)
  BY <1>1 DEF IInv, SweepSound
<1>3. /\ n \in Linked /\ n \in Nodes /\ m \in Linked /\ m \in Nodes /\ PreviousNode[m] = n
  BY <1>2 DEF SweptUpTo, IInv, ListInv, TypeOK, RingIsWhole, IsRing, Linked
<1>4. k \in Calls /\ k.op = call[t].op /\ k.prv = n /\ k.lst = call[t].lst
  <2>1. call[t] \in Calls
    BY DEF IInv, ListInv, TypeOK
  <2> QED BY <2>1, <1>3 DEF Calls
<1>5. Used(n)
  BY <1>3, UnusedNode, <1>1 DEF IInv
<1>6. PICK V \in SUBSET Linked : /\ \A v \in V : Used(v) /\ NextNode[v] \in V \cup {n}
                                 /\ EntriesList \in V \/ n = EntriesList
  BY <1>2 DEF SweptUpTo
<1> HIDE DEF n, m, k
<1>7. /\ pc'[t] = "sweep" /\ call'[t] = k /\ cur'[t] = m /\ Mutex = t
      /\ \A u \in Threads \ {t} : pc'[u] \notin {"walk", "sweep", "reread"}
      /\ DeleteAlone'
  <2>1. /\ pc'[t] = "sweep" /\ call'[t] = k /\ cur'[t] = m /\ HeadLive' = HeadLive
        /\ \A u \in Threads \ {t} : pc'[u] = pc[u] /\ call'[u] = call[u] /\ cur'[u] = cur[u]
    BY <1>1 DEF IInv, ListInv, TypeOK
  <2> QED BY <1>1, <1>4, <2>1, SweepAlone
<1>8. ListInv' /\ Linked' = Linked
  BY <1>1, <1>3, <1>4, <1>7, GoesKeeps DEF IInv, ListInv, TypeOK, Control
<1>9. SweptUpTo(t, cur[t])'
  <2>1. V \cup {n} \in SUBSET Linked'
    BY <1>3, <1>8
  <2>2. \A v \in V \cup {n} : (ReadPermission'[v] # 0 \/ WritePermission'[v] # 0)
                              /\ NextNode'[v] \in (V \cup {n}) \cup {m}
    BY <1>1, <1>5, <1>6 DEF Used, ring, perms, m
  <2>3. EntriesList' \in V \cup {n} /\ call'[t].lst = PreviousNode'[EntriesList'] /\ m \in Linked'
    BY <1>1, <1>2, <1>3, <1>4, <1>6, <1>7, <1>8 DEF ring, SweptUpTo
  <2> QED BY <1>7, <2>1, <2>2, <2>3 DEF SweptUpTo, Used
<1>10. call'[t].prv = PreviousNode'[cur'[t]]
  BY <1>1, <1>3, <1>4, <1>7 DEF ring
<1>11. SweepSound'
  BY <1>7, <1>9, <1>10 DEF SweepSound
<1> QED BY <1>7, <1>8, <1>11 DEF IInv

LEMMA SweepFirstKeeps ==
  ASSUME IInv, NEW t \in Threads, SweepFirst(t)
  PROVE  IInv' /\ Linked' = Linked \ {cur[t]} /\ ~Used(cur[t]) /\ cur[t] \in Linked
<1> DEFINE n == cur[t]
           m == NextNode[n]
           k == [call[t] EXCEPT !.prv = m]
<1>1. /\ pc[t] = "sweep" /\ ~InUse(n) /\ n = EntriesList /\ n # call[t].lst
      /\ EntriesList' = m /\ Join(n) /\ heap' = heap \ {n} /\ EntryAmount' = EntryAmount - 1
      /\ pc' = [pc EXCEPT ![t] = "sweep"] /\ cur' = [cur EXCEPT ![t] = m]
      /\ call' = [call EXCEPT ![t] = k]
      /\ UNCHANGED <<HeadLive, Mutex, perms, hands>>
  BY DEF SweepFirst, Sweeping, Enter
<1>2. SweptUpTo(t, n)
  BY <1>1 DEF IInv, SweepSound
<1>3. /\ n \in Linked /\ n \in Nodes /\ m \in Linked /\ m \in Nodes
      /\ PreviousNode[m] = n /\ NextNode[PreviousNode[n]] = n
      /\ PreviousNode[n] = call[t].lst /\ PreviousNode[n] \in Nodes
  BY <1>1, <1>2 DEF SweptUpTo, IInv, ListInv, TypeOK, RingIsWhole, IsRing, Linked
<1>4. n # m
  BY <1>1, <1>3
<1>5. k \in Calls /\ k.op = call[t].op /\ k.prv = m /\ k.lst = call[t].lst
  BY <1>3 DEF IInv, ListInv, TypeOK, Calls
<1>6. ~Used(n)
  BY <1>3, UnusedNode, <1>1 DEF IInv
<1>a. Joining(n, NextNode, PreviousNode, NextNode', PreviousNode')
  BY <1>1 DEF Join, Joining
<1>b. PreviousNode'[m] = PreviousNode[n]
  BY <1>3, <1>a DEF Joining, IInv, ListInv, TypeOK
<1> HIDE DEF m, k
<1>7. /\ pc'[t] = "sweep" /\ call'[t] = k /\ cur'[t] = m /\ Mutex = t /\ HeadLive
      /\ \A u \in Threads \ {t} : pc'[u] \notin {"walk", "sweep", "reread"}
      /\ DeleteAlone'
  <2>1. /\ pc'[t] = "sweep" /\ call'[t] = k /\ cur'[t] = m /\ HeadLive' = HeadLive
        /\ \A u \in Threads \ {t} : pc'[u] = pc[u] /\ call'[u] = call[u] /\ cur'[u] = cur[u]
    BY <1>1 DEF IInv, ListInv, TypeOK
  <2> QED BY <1>1, <1>5, <2>1, SweepAlone
<1>8. Mutex' \in Threads \cup {Null}
      /\ \A u \in Threads : Mutex' = u <=> pc'[u] \in {"walk", "sweep", "reread"}
  BY <1>1, <1>7
<1>9. ListInv' /\ Linked' = Linked \ {n}
  <2>1. EntriesList' = IF n = EntriesList THEN NextNode[n] ELSE EntriesList
    BY <1>1 DEF m
  <2>2. NextNode[n] # n
    BY <1>4 DEF m
  <2> QED BY <1>1, <1>3, <1>4, <1>5, <1>6, <1>7, <1>8, <1>a, <2>1, <2>2, SweptKeeps DEF IInv
<1>10. SweptUpTo(t, cur[t])'
  <2>1. {} \in SUBSET Linked'
    OBVIOUS
  <2>2. m \in Linked' /\ call'[t].lst = PreviousNode'[EntriesList'] /\ m = EntriesList'
    BY <1>1, <1>3, <1>4, <1>5, <1>7, <1>9, <1>b
  <2> QED BY <1>7, <2>1, <2>2 DEF SweptUpTo
<1>11. SweepSound'
  BY <1>1, <1>7, <1>10 DEF SweepSound
<1> QED BY <1>3, <1>6, <1>7, <1>9, <1>11 DEF IInv

LEMMA SweepMiddleKeeps ==
  ASSUME IInv, NEW t \in Threads, SweepMiddle(t), Spared(t)
  PROVE  IInv' /\ Linked' = Linked \ {cur[t]} /\ ~Used(cur[t]) /\ cur[t] \in Linked
<1> DEFINE n == cur[t]
           m == NextNode[n]
           p == call[t].prv
<1>1. /\ pc[t] = "sweep" /\ ~InUse(n) /\ n # EntriesList /\ n # call[t].lst
      /\ Bypass(n, p) /\ heap' = heap \ {n} /\ EntryAmount' = EntryAmount - 1
      /\ pc' = [pc EXCEPT ![t] = "reread"] /\ UNCHANGED <<cur, call>>
      /\ UNCHANGED <<HeadLive, Mutex, EntriesList, perms, hands>>
      /\ p \in Linked
  BY DEF SweepMiddle, Sweeping, Goto, Spared
<1>2. SweptUpTo(t, n) /\ p = PreviousNode[n]
  BY <1>1 DEF IInv, SweepSound
<1>3. /\ n \in Linked /\ n \in Nodes /\ m \in Linked /\ m \in Nodes /\ p \in Nodes
      /\ PreviousNode[m] = n /\ NextNode[p] = n /\ EntriesList \in Linked
      /\ IsRing(Linked, EntriesList, NextNode, PreviousNode)
  BY <1>1, <1>2 DEF SweptUpTo, IInv, ListInv, TypeOK, RingIsWhole, IsRing, Linked
<1>4. n # m
  BY <1>1, <1>3, SelfLoopIsWholeRing
<1>5. p # n /\ m # EntriesList
  BY <1>1, <1>2, <1>3, <1>4 DEF SweptUpTo
<1>6. ~Used(n)
  BY <1>3, UnusedNode, <1>1 DEF IInv
<1>7. PICK V \in SUBSET Linked : /\ \A v \in V : Used(v) /\ NextNode[v] \in V \cup {n}
                                 /\ EntriesList \in V \/ n = EntriesList
  BY <1>2 DEF SweptUpTo
<1>8. /\ pc'[t] = "reread" /\ call'[t] = call[t] /\ cur'[t] = n /\ Mutex = t /\ HeadLive
      /\ \A u \in Threads \ {t} : pc'[u] = pc[u] /\ cur'[u] = cur[u]
                                  /\ pc'[u] \notin {"walk", "sweep", "reread"}
      /\ DeleteAlone'
      /\ cur' = [cur EXCEPT ![t] = n] /\ call' = [call EXCEPT ![t] = call[t]]
      /\ call[t] \in Calls
  <2>1. cur' = [cur EXCEPT ![t] = n] /\ call' = [call EXCEPT ![t] = call[t]] /\ call[t] \in Calls
    BY <1>1 DEF IInv, ListInv, TypeOK
  <2>2. /\ pc'[t] = "reread" /\ call'[t] = call[t] /\ cur'[t] = n /\ HeadLive' = HeadLive
        /\ \A u \in Threads \ {t} : pc'[u] = pc[u] /\ call'[u] = call[u] /\ cur'[u] = cur[u]
    BY <1>1 DEF IInv, ListInv, TypeOK
  <2> QED BY <1>1, <2>1, <2>2, SweepAlone
<1>9. Joining(n, NextNode, PreviousNode, NextNode', PreviousNode')
  BY <1>1, <1>2 DEF Bypass, Joining
<1>10. /\ NextNode'[p] = m /\ PreviousNode'[m] = p
       /\ \A v \in Nodes \ {p} : NextNode'[v] = NextNode[v]
       /\ \A v \in Nodes \ {m} : PreviousNode'[v] = PreviousNode[v]
  BY <1>2, <1>3, <1>9 DEF Joining, IInv, ListInv, TypeOK
<1>11. ListInv' /\ Linked' = Linked \ {n}
  <2>1. \A u \in Threads : Mutex' = u <=> pc'[u] \in {"walk", "sweep", "reread"}
    BY <1>1, <1>8
  <2>2. NextNode[n] # n /\ (EntriesList' = IF n = EntriesList THEN NextNode[n] ELSE EntriesList)
    BY <1>1, <1>4
  <2>3. Mutex' \in Threads \cup {Null}
    BY <1>1, <1>8
  <2>4. cur[t] = n /\ n \in Nodes \cup {Null}
    BY <1>3
  <2>5. PICK k \in Calls : k = call[t]
    BY <1>8
  <2>6. /\ pc' = [pc EXCEPT ![t] = "reread"] /\ cur' = [cur EXCEPT ![t] = n]
        /\ call' = [call EXCEPT ![t] = k] /\ k.op = call[t].op
        /\ heap' = heap \ {n} /\ EntryAmount' = EntryAmount - 1
        /\ UNCHANGED <<HeadLive, perms, hands>>
    BY <1>1, <1>8, <2>5
  <2>7. IF NextNode[n] = n
          THEN EntriesList' = Null /\ UNCHANGED <<NextNode, PreviousNode>>
          ELSE /\ Joining(n, NextNode, PreviousNode, NextNode', PreviousNode')
               /\ EntriesList' = IF n = EntriesList THEN NextNode[n] ELSE EntriesList
    BY <1>9, <2>2
  <2>8. ListInv /\ HeadLive /\ pc[t] = "sweep" /\ n \in Linked /\ ~Used(n)
    BY <1>1, <1>3, <1>6, <1>8 DEF IInv
  <2> HIDE DEF n
  <2> QED BY <2>1, <2>3, <2>4, <2>6, <2>7, <2>8, SweptKeeps
<1>12. SweptUpTo(t, NextNode[cur[t]])'
  <2>1. V \in SUBSET Linked'
    BY <1>6, <1>7, <1>11
  <2>2. \A v \in V : (ReadPermission'[v] # 0 \/ WritePermission'[v] # 0) /\ NextNode'[v] \in V \cup {m}
    <3> SUFFICES ASSUME NEW v \in V
                 PROVE  (ReadPermission'[v] # 0 \/ WritePermission'[v] # 0) /\ NextNode'[v] \in V \cup {m}
      OBVIOUS
    <3>1. v \in Linked /\ v \in Nodes /\ NextNode[v] \in V \cup {n} /\ Used(v)
      BY <1>7 DEF IInv, ListInv, TypeOK, Linked
    <3>2. CASE v = p
      BY <1>1, <1>10, <3>1, <3>2 DEF Used, perms
    <3>3. CASE v # p
      <4>1. NextNode[v] # n
        BY <1>2, <1>3, <3>1, <3>3 DEF IsRing
      <4> QED BY <1>1, <1>10, <3>1, <3>3, <4>1 DEF Used, perms
    <3> QED BY <3>2, <3>3
  <2>3. /\ m \in Linked' /\ EntriesList' \in V /\ NextNode'[n] = m
        /\ call'[t].lst = PreviousNode'[EntriesList']
    <3>1. EntriesList \in Nodes
      BY <1>3 DEF IInv, ListInv, TypeOK, Linked
    <3> QED BY <1>1, <1>2, <1>3, <1>4, <1>5, <1>7, <1>8, <1>10, <1>11, <3>1 DEF SweptUpTo
  <2> HIDE DEF m, n
  <2> QED BY <1>8, <2>1, <2>2, <2>3 DEF SweptUpTo, Used
<1>13. \A u \in Threads : pc'[u] = "free" => cur'[u] # n
  BY <1>3, <1>8, DetachedNotLinked DEF IInv
<1>14. SweepSound'
  <2>1. cur'[t] \in Nodes \ Linked'
    BY <1>3, <1>8, <1>11
  <2> HIDE DEF n
  <2> QED BY <1>8, <1>12, <1>13, <2>1 DEF SweepSound
<1> QED BY <1>3, <1>6, <1>8, <1>11, <1>14 DEF IInv

LEMMA SweepRereadKeeps ==
  ASSUME IInv, NEW t \in Threads, SweepReread(t), Spared(t)
  PROVE  IInv' /\ Linked' = Linked
<1> DEFINE n == cur[t]
           m == NextNode[n]
           k == [call[t] EXCEPT !.prv = n]
<1>1. /\ pc[t] = "reread" /\ n \notin heap
      /\ pc' = [pc EXCEPT ![t] = "sweep"] /\ cur' = [cur EXCEPT ![t] = m]
      /\ call' = [call EXCEPT ![t] = k]
      /\ UNCHANGED <<HeadLive, Mutex, ring, perms, heap, hands>>
  BY DEF SweepReread, Enter, Spared
<1>2. SweptUpTo(t, m) /\ n \in Nodes \ Linked
  BY <1>1 DEF IInv, SweepSound
<1>3. m \in Linked /\ m \in Nodes
  BY <1>2 DEF SweptUpTo, IInv, ListInv, TypeOK, Linked
<1>4. k \in Calls /\ k.op = call[t].op /\ k.prv = n /\ k.lst = call[t].lst
  BY <1>2 DEF IInv, ListInv, TypeOK, Calls
<1>5. PICK V \in SUBSET Linked : /\ \A v \in V : Used(v) /\ NextNode[v] \in V \cup {m}
                                 /\ EntriesList \in V \/ m = EntriesList
  BY <1>2 DEF SweptUpTo
<1> HIDE DEF n, m, k
<1>6. /\ pc'[t] = "sweep" /\ call'[t] = k /\ cur'[t] = m /\ HeadLive' = HeadLive
      /\ \A u \in Threads \ {t} : pc'[u] = pc[u] /\ call'[u] = call[u] /\ cur'[u] = cur[u]
  BY <1>1 DEF IInv, ListInv, TypeOK
<1>7. /\ Mutex = t
      /\ \A u \in Threads \ {t} : pc'[u] \notin {"walk", "sweep", "reread"}
      /\ DeleteAlone'
  BY <1>1, <1>4, <1>6, SweepAlone
<1>8. ListInv' /\ Linked' = Linked
  BY <1>1, <1>3, <1>4, <1>6, <1>7, GoesKeeps DEF IInv, ListInv, TypeOK, Control
<1>9. SweptUpTo(t, cur[t])'
  <2>1. \A v \in V : (ReadPermission'[v] # 0 \/ WritePermission'[v] # 0) /\ NextNode'[v] \in V \cup {m}
    BY <1>1, <1>5 DEF Used, ring, perms
  <2>2. /\ EntriesList' \in V \/ m = EntriesList'
        /\ call'[t].lst = PreviousNode'[EntriesList'] /\ m \in Linked' /\ V \in SUBSET Linked'
    BY <1>1, <1>2, <1>3, <1>4, <1>5, <1>6, <1>8 DEF ring, SweptUpTo
  <2> QED BY <1>6, <2>1, <2>2 DEF SweptUpTo, Used
<1>10. call'[t].prv \notin Linked'
  BY <1>2, <1>4, <1>6, <1>8
<1>11. SweepSound'
  BY <1>6, <1>7, <1>9, <1>10 DEF SweepSound
<1> QED BY <1>7, <1>8, <1>11 DEF IInv

(* When the sweep is at the last node, all the nodes before it are used.    *)
LEMMA SweepLastLeaves ==
  ASSUME IInv, NEW t \in Threads, pc[t] = "sweep", cur[t] = call[t].lst
  PROVE  /\ cur[t] \in Linked
         /\ \A v \in Linked \ {cur[t]} : Used(v)
         /\ IsRing(Linked, EntriesList, NextNode, PreviousNode)
         /\ cur[t] = PreviousNode[EntriesList]
<1> DEFINE n == cur[t]
<1>1. SweptUpTo(t, n)
  BY DEF IInv, SweepSound
<1>2. n \in Linked /\ n = PreviousNode[EntriesList] /\ IsRing(Linked, EntriesList, NextNode, PreviousNode)
  BY <1>1 DEF SweptUpTo, IInv, ListInv, RingIsWhole
<1>3. NextNode[n] = EntriesList
  BY <1>2 DEF IsRing
<1>4. PICK V \in SUBSET Linked : /\ \A v \in V : Used(v) /\ NextNode[v] \in V \cup {n}
                                 /\ EntriesList \in V \/ n = EntriesList
  BY <1>1 DEF SweptUpTo
<1> DEFINE W == V \cup {n}
<1>5. W \in SUBSET Linked /\ EntriesList \in W /\ \A v \in W : NextNode[v] \in W
  BY <1>2, <1>3, <1>4
<1>6. W = Linked
  <2> HIDE DEF W
  <2> QED BY <1>2, <1>5 DEF IsRing
<1> QED BY <1>2, <1>4, <1>6

LEMMA SweepLastKeeps ==
  ASSUME IInv, NEW t \in Threads, SweepLast(t)
  PROVE  /\ IInv'
         /\ \/ Linked' = Linked /\ UNCHANGED heap
            \/ /\ Linked' = Linked \ {cur[t]} /\ heap' = heap \ {cur[t]}
               /\ ~Used(cur[t]) /\ cur[t] \in Linked
         /\ \A v \in Linked' : Used(v) /\ Readers(v) \cup Writers(v) # {}
<1> DEFINE n == cur[t]
<1>1. /\ pc[t] = "sweep" /\ n = call[t].lst /\ Mutex' = Null
      /\ UNCHANGED <<HeadLive, perms, hands>>
  BY DEF SweepLast, SweepDone
<1>2. /\ n \in Linked /\ n \in Nodes
      /\ \A v \in Linked \ {n} : Used(v)
      /\ IsRing(Linked, EntriesList, NextNode, PreviousNode)
      /\ n = PreviousNode[EntriesList]
  BY <1>1, SweepLastLeaves DEF IInv, ListInv, TypeOK, Linked
<1>3. /\ IsFiniteSet(Linked) /\ EntryAmount = Cardinality(Linked) /\ EntryAmount # 0
      /\ HeadLive /\ Mutex = t /\ call[t] \in Calls
  <2>1. IsFiniteSet(Linked) /\ HeadLive /\ Mutex = t /\ call[t] \in Calls
    BY <1>1, ThreadsAssumption, FS_Subset DEF IInv, ListInv, TypeOK, Linked, DeleteAlone, Control
  <2>2. EntryAmount = Cardinality(Linked)
    BY <2>1 DEF IInv, ListInv, RingIsWhole
  <2> QED BY <1>2, <2>1, <2>2, FS_EmptySet
<1>4. NoCall \in Calls /\ NoCall.op = "none"
  BY DEF NoCall, Calls, AllOps
<1>5. \A v \in Linked : Used(v) => Readers(v) \cup Writers(v) # {}
  BY UnusedNode DEF IInv, Used
<1>6. CASE Used(n)
  <2>1. /\ UNCHANGED <<ring, heap>> /\ UNCHANGED EntryAmount
        /\ pc' = [pc EXCEPT ![t] = "idle"] /\ cur' = [cur EXCEPT ![t] = Null]
        /\ call' = [call EXCEPT ![t] = NoCall]
    BY <1>3, <1>6 DEF SweepLast, SweepDone, Return, Enter, Used, ring
  <2>2. /\ pc'[t] = "idle" /\ call'[t] = NoCall /\ HeadLive' = HeadLive
        /\ \A u \in Threads \ {t} : pc'[u] = pc[u] /\ call'[u] = call[u] /\ cur'[u] = cur[u]
    BY <1>1, <2>1 DEF IInv, ListInv, TypeOK
  <2>3. /\ \A u \in Threads \ {t} : pc'[u] \notin {"walk", "sweep", "reread"}
        /\ DeleteAlone'
    BY <1>1, <1>4, <2>2, SweepAlone
  <2>4. \A u \in Threads : Mutex' = u <=> pc'[u] \in {"walk", "sweep", "reread"}
    BY <1>1, <2>2, <2>3, ThreadsAssumption
  <2>5. ListInv' /\ Linked' = Linked
    BY <1>1, <1>4, <2>1, <2>4, GoesKeeps DEF IInv
  <2>6. SweepSound'
    BY <2>2, <2>3 DEF SweepSound
  <2> QED BY <1>2, <1>5, <1>6, <2>1, <2>3, <2>5, <2>6 DEF IInv
<1>7. CASE ~Used(n)
  <2> DEFINE swept == call[t].op = "Delete" /\ EntryAmount' = 0
             l == IF swept THEN "swept" ELSE "idle"
             k == IF swept THEN call[t] ELSE NoCall
             x == IF swept THEN n ELSE Null
  <2>1. /\ heap' = heap \ {n} /\ EntryAmount' = EntryAmount - 1
        /\ IF NextNode[n] = n
             THEN EntriesList' = Null /\ UNCHANGED <<NextNode, PreviousNode>>
             ELSE Join(n) /\ UNCHANGED EntriesList
    BY <1>7 DEF SweepLast, Used
  <2>2. pc' = [pc EXCEPT ![t] = l] /\ cur' = [cur EXCEPT ![t] = x] /\ call' = [call EXCEPT ![t] = k]
    BY DEF SweepLast, SweepDone, Return, Enter, Goto, IInv, ListInv, TypeOK
  <2>3. IF NextNode[n] = n
          THEN EntriesList' = Null /\ UNCHANGED <<NextNode, PreviousNode>>
          ELSE /\ Joining(n, NextNode, PreviousNode, NextNode', PreviousNode')
               /\ EntriesList' = IF n = EntriesList THEN NextNode[n] ELSE EntriesList
    <3>1. NextNode[n] # n => n # EntriesList
      BY <1>2 DEF IsRing
    <3> QED BY <2>1, <3>1 DEF Join, Joining
  <2>4. /\ k \in Calls /\ x \in Nodes \cup {Null} /\ l \in {"idle", "swept"}
        /\ swept => k.op = "Delete" /\ call[t].op = "Delete" /\ l = "swept"
        /\ ~swept => k.op # "Delete" /\ l = "idle"
    BY <1>2, <1>3, <1>4
  <2>5. swept => heap' = {}
    <3> SUFFICES ASSUME swept PROVE heap' = {}
      OBVIOUS
    <3>1. Cardinality(Linked \ {n}) = 0 /\ IsFiniteSet(Linked \ {n})
      BY <1>2, <1>3, <2>1, FS_RemoveElement
    <3>2. Linked \ {n} = {}
      BY <3>1, FS_EmptySet
    <3>3. Detached = {}
      BY <1>1 DEF IInv, DeleteAlone, Detached
    <3> QED BY <1>3, <2>1, <3>2, <3>3 DEF Linked
  <2> HIDE DEF swept, l, k, x
  <2>6. /\ pc'[t] = l /\ call'[t] = k /\ HeadLive' = HeadLive
        /\ \A u \in Threads \ {t} : pc'[u] = pc[u] /\ call'[u] = call[u] /\ cur'[u] = cur[u]
    BY <1>1, <2>2 DEF IInv, ListInv, TypeOK
  <2>7. /\ \A u \in Threads \ {t} : pc'[u] \notin {"walk", "sweep", "reread"}
        /\ DeleteAlone'
    BY <1>1, <2>4, <2>5, <2>6, SweepAlone
  <2>8. \A u \in Threads : Mutex' = u <=> pc'[u] \in {"walk", "sweep", "reread"}
    BY <1>1, <2>4, <2>6, <2>7, ThreadsAssumption
  <2>9. ListInv' /\ Linked' = Linked \ {n}
    <3>1. ListInv /\ HeadLive /\ pc[t] = "sweep" /\ n \in Linked /\ cur[t] = n /\ Mutex' \in Threads \cup {Null}
      BY <1>1, <1>2, <1>3 DEF IInv
    <3>2. UNCHANGED <<HeadLive, perms, hands>>
      BY <1>1
    <3>3. heap' = heap \ {n} /\ EntryAmount' = EntryAmount - 1
      BY <2>1
    <3>4. l \in {"idle", "sweep", "reread", "swept"} /\ l \notin {"sweep", "reread"}
      BY <2>4
    <3> HIDE DEF n
    <3> QED BY <1>7, <2>2, <2>3, <2>4, <2>8, <3>1, <3>2, <3>3, <3>4, SweptKeeps
  <2>10. SweepSound'
    BY <2>4, <2>6, <2>7 DEF SweepSound
  <2> QED BY <1>2, <1>5, <1>7, <2>1, <2>7, <2>9, <2>10 DEF IInv
<1> QED BY <1>6, <1>7

(* Delete frees the head of an empty list, on which nobody has a permission,*)
(* and Initialize makes a new one.                                          *)
LEMMA HeadKeeps ==
  ASSUME IInv, NEW t \in Threads, FreeHead(t) \/ Initialize(t)
  PROVE  IInv' /\ Linked = {} /\ Linked' = {} /\ UNCHANGED <<heap, hands>>
         /\ \A u \in Threads : pc[u] \in {"idle", "swept"} /\ pc'[u] = "idle"
<1>1. /\ heap = {} /\ UNCHANGED <<heap, NextNode, PreviousNode, perms, hands>>
      /\ \A u \in Threads : pc[u] \in {"idle", "swept"}
      /\ Linked = {}
  BY DEF IInv, DeleteAlone, FreeHead, Initialize, Linked, ring
<1>2. \A h \in Handles : perm[h] = "none"
  BY <1>1 DEF IInv, ListInv, UsedNodesAreLinked
<1>3. /\ \A u \in Threads : pc'[u] = "idle" /\ call'[u].op # "Delete"
      /\ Mutex' \in Threads \cup {Null}
      /\ \A u \in Threads : Mutex' # u
  <2>1. CASE FreeHead(t)
    <3>1. /\ pc[t] = "swept" /\ call[t].op = "Delete"
          /\ \A u \in Threads \ {t} : pc[u] = "idle" /\ call[u].op # "Delete"
      BY <2>1 DEF FreeHead, IInv, DeleteAlone
    <3>2. \A u \in Threads : Mutex # u
      BY <1>1 DEF IInv, ListInv, Control
    <3> QED BY <2>1, <3>1, <3>2 DEF FreeHead, Return, Enter, NoCall, IInv, ListInv, TypeOK
  <2>2. CASE Initialize(t)
    BY <2>2, ThreadsAssumption DEF Initialize, local, IInv, DeleteAlone
  <2> QED BY <2>1, <2>2
<1>4. TypeOK'
  <2>1. NoCall \in Calls
    BY DEF NoCall, Calls, AllOps
  <2>2. CASE FreeHead(t)
    BY <1>1, <1>3, <2>1, <2>2 DEF FreeHead, Return, Enter, ring, perms, hands, Labels, IInv, ListInv, TypeOK
  <2>3. CASE Initialize(t)
    BY <1>1, <2>3 DEF Initialize, perms, local, hands, IInv, ListInv, TypeOK
  <2> QED BY <2>2, <2>3
<1>5. Linked' = {}
  BY <1>1 DEF Linked
<1>6. Control' /\ DetachedApart' /\ SweepSound' /\ UsedNodesAreLinked'
  BY <1>1, <1>2, <1>3 DEF Control, DetachedApart, SweepSound, UsedNodesAreLinked, hands
<1>7. DeleteAlone'
  BY <1>1, <1>3 DEF DeleteAlone
<1>8. RingIsWhole'
  <2>1. CASE FreeHead(t)
    BY <1>5, <2>1 DEF FreeHead, RingIsWhole
  <2>2. CASE Initialize(t)
    BY <1>5, <2>2, FS_EmptySet DEF Initialize, RingIsWhole
  <2> QED BY <2>1, <2>2
<1>9. CountersMatchUsers' /\ WriteIsExclusive'
  BY <1>1, <1>2, <1>3, <1>5 DEF CountersMatchUsers, WriteIsExclusive, Writers, HandleOn, Deletes, hands
<1> QED BY <1>1, <1>3, <1>4, <1>5, <1>6, <1>7, <1>8, <1>9 DEF IInv, ListInv

-----------------------------------------------------------------------------
(* The other steps.                                                         *)

(* A step under the mutex, of a call other than Delete.                     *)
LEMMA LockedKeeps ==
  ASSUME IInv, HeadLive, HeadLive', NEW t \in Threads, ListInv',
         Mutex = Null \/ pc[t] = "walk",
         NEW l \in {"idle", "compare", "unlink", "free", "hop", "wrapped", "walk"},
         pc' = [pc EXCEPT ![t] = l],
         NEW k, call' = [call EXCEPT ![t] = k], k.op # "Delete",
         pc[t] # "swept",
         pc[t] = "idle" => \A u \in Threads : call[u].op # "Delete"
  PROVE  IInv'
<1>1. pc[t] \notin {"sweep", "reread"}
  BY ThreadsAssumption DEF IInv, ListInv, Control
<1>2. SweepSound'
  BY NoSweepAround
<1>3. DeleteAlone'
  BY <1>1, NoDeleteAround
<1> QED BY <1>2, <1>3 DEF IInv

(* The places from which such a step starts and where it leads.             *)
LockedStep(t) ==
  \/ LinkFirst(t) \/ LinkBefore(t) \/ LinkAfter(t) \/ LinkNowhere(t)
  \/ \E h \in Handles, tag \in Tags, opt \in BOOLEAN, key \in Keys :
       Empty(t, h) /\ FindStart(t, "FindSW", h, tag, opt, key)
  \/ FindMatch(t) \/ FindNext(t)
  \/ \E opt \in BOOLEAN, key \in Keys : FindStart(t, "DeleteNodeSW", Null, "WRITE", opt, key)
  \/ DeleteMatch(t) \/ Unlink(t)
  \/ \E h \in Handles, tag \in Tags, idx \in Indices : NumStart(t, h, tag, idx)
  \/ NumHop(t) \/ NumFound(t)
  \/ \E op \in {"GetNextNode", "GetPreviousNode"}, from \in Handles \cup {Null},
        h \in Handles, tag \in Tags, skip \in BOOLEAN :
       WalkStart(t, op, from, h, tag, skip)
  \/ WalkGrant(t) \/ WalkFail(t) \/ WalkSkip(t)
  \/ \E from, h \in Handles, tag \in Tags : GetPermisssion(t, from, h, tag)
  \/ \E h \in Handles : Release(t, h)

(* A permission is released only while no list is being deleted: the sweep  *)
(* has the mutex, and a swept list has no node.                             *)
LEMMA ReleaseMeetsNoDelete ==
  ASSUME IInv, NEW t \in Threads, NEW h \in Handles, Release(t, h)
  PROVE  \A u \in Threads : call[u].op # "Delete"
<1> SUFFICES ASSUME NEW u \in Threads, call[u].op = "Delete" PROVE FALSE
  OBVIOUS
<1>1. pc[u] \in {"sweep", "reread", "swept"}
  BY DEF IInv, DeleteAlone
<1>2. CASE pc[u] \in {"sweep", "reread"}
  BY <1>2, ThreadsAssumption DEF Release, Unlocked, IInv, ListInv, Control
<1>3. CASE pc[u] = "swept"
  <2>1. Linked = {} /\ EntryPtr[h] \in Linked
    BY <1>3 DEF Release, Holds, Linked, IInv, DeleteAlone, ListInv, UsedNodesAreLinked
  <2> QED BY <2>1
<1> QED BY <1>1, <1>2, <1>3

LEMMA LockedStepControl ==
  ASSUME IInv, NEW t \in Threads, LockedStep(t)
  PROVE  /\ HeadLive /\ HeadLive' = HeadLive
         /\ Mutex = Null \/ pc[t] = "walk"
         /\ pc[t] \in {"idle", "insert", "compare", "unlink", "hop", "found", "walk"}
         /\ pc[t] = "idle" => \A u \in Threads : call[u].op # "Delete"
         /\ \E l \in {"idle", "compare", "unlink", "free", "hop", "wrapped", "walk"} :
              pc' = [pc EXCEPT ![t] = l]
         /\ \E k : call' = [call EXCEPT ![t] = k] /\ k.op # "Delete"
<1>0. /\ pc = [pc EXCEPT ![t] = pc[t]] /\ call = [call EXCEPT ![t] = call[t]]
      /\ pc[t] # "idle" => HeadLive
      /\ pc[t] \notin {"sweep", "reread", "swept"} => call[t].op # "Delete"
      /\ NoCall.op = "none"
  BY DEF IInv, ListInv, TypeOK, DeleteAlone, NoCall
<1>1. CASE LinkFirst(t) \/ LinkBefore(t) \/ LinkAfter(t) \/ LinkNowhere(t)
  BY <1>0, <1>1 DEF LinkFirst, LinkBefore, LinkAfter, LinkNowhere, Unlocked, Return, Enter
<1>2. CASE \/ \E h \in Handles, tag \in Tags, opt \in BOOLEAN, key \in Keys :
                Empty(t, h) /\ FindStart(t, "FindSW", h, tag, opt, key)
           \/ \E opt \in BOOLEAN, key \in Keys : FindStart(t, "DeleteNodeSW", Null, "WRITE", opt, key)
  <2>1. PICK op, h, tag, opt, key :
          op \in {"FindSW", "DeleteNodeSW"} /\ FindStart(t, op, h, tag, opt, key)
    BY <1>2
  <2> DEFINE k == [NoCall EXCEPT !.op = op, !.h = h, !.tag = tag, !.opt = opt, !.key = key]
  <2>2. /\ pc[t] = "idle" /\ HeadLive /\ UNCHANGED HeadLive /\ Mutex = Null
        /\ \A u \in Threads : call[u].op # "Delete"
        /\ pc' = [pc EXCEPT ![t] = "compare"] /\ call' = [call EXCEPT ![t] = k]
    BY <2>1 DEF FindStart, CanCall, Unlocked, Enter
  <2>3. k.op # "Delete"
    BY <2>1 DEF NoCall
  <2> HIDE DEF k
  <2> QED BY <2>2, <2>3
<1>3. CASE FindMatch(t) \/ NumFound(t)
  BY <1>0, <1>3 DEF FindMatch, NumFound, Unlocked, Return, Enter
<1>4. CASE FindNext(t)
  BY <1>0, <1>4 DEF FindNext, Unlocked, Return, Enter
<1>5. CASE DeleteMatch(t) \/ Unlink(t)
  BY <1>0, <1>5 DEF DeleteMatch, Unlink, Unlocked, Return, Enter, Goto
<1>6. CASE \E h \in Handles, tag \in Tags, idx \in Indices : NumStart(t, h, tag, idx)
  <2>1. PICK h \in Handles, tag \in Tags, idx \in Indices : NumStart(t, h, tag, idx)
    BY <1>6
  <2> DEFINE k == [NoCall EXCEPT !.op = "FindNodeNum", !.h = h, !.tag = tag, !.idx = idx]
  <2>2. /\ pc[t] = "idle" /\ HeadLive /\ UNCHANGED HeadLive /\ Mutex = Null
        /\ \A u \in Threads : call[u].op # "Delete"
        /\ pc' = [pc EXCEPT ![t] = "hop"] /\ call' = [call EXCEPT ![t] = k]
    BY <2>1 DEF NumStart, CanCall, Unlocked, Enter
  <2>3. k.op # "Delete"
    BY DEF NoCall
  <2> HIDE DEF k
  <2> QED BY <2>2, <2>3
<1>7. CASE NumHop(t)
  <2> DEFINE k == [call[t] EXCEPT !.idx = @ - 1]
  <2>1. /\ pc[t] = "hop" /\ Mutex = Null /\ UNCHANGED HeadLive /\ call' = [call EXCEPT ![t] = k]
        /\ \E l \in {"hop", "wrapped"} : pc' = [pc EXCEPT ![t] = l]
    BY <1>7 DEF NumHop, Unlocked, Enter
  <2>2. k.op = call[t].op
    BY DEF IInv, ListInv, TypeOK, Calls
  <2> HIDE DEF k
  <2> QED BY <1>0, <2>1, <2>2
<1>8. CASE \E op \in {"GetNextNode", "GetPreviousNode"}, from \in Handles \cup {Null},
              h \in Handles, tag \in Tags, skip \in BOOLEAN : WalkStart(t, op, from, h, tag, skip)
  <2>1. PICK op \in {"GetNextNode", "GetPreviousNode"}, from \in Handles \cup {Null},
             h \in Handles, tag \in Tags, skip \in BOOLEAN : WalkStart(t, op, from, h, tag, skip)
    BY <1>8
  <2> DEFINE node == IF from = Null THEN EntriesList ELSE EntryPtr[from]
             k == [NoCall EXCEPT !.op = op, !.h = h, !.tag = tag, !.opt = skip, !.prv = node]
  <2>2. /\ pc[t] = "idle" /\ HeadLive /\ UNCHANGED HeadLive /\ Mutex = Null
        /\ \A u \in Threads : call[u].op # "Delete"
        /\ pc' = [pc EXCEPT ![t] = "walk"] /\ call' = [call EXCEPT ![t] = k]
    BY <2>1 DEF WalkStart, CanCall, Unlocked, Enter
  <2>3. k.op # "Delete"
    BY DEF NoCall
  <2> HIDE DEF k
  <2> QED BY <2>2, <2>3
<1>9. CASE WalkGrant(t) \/ WalkFail(t) \/ WalkSkip(t)
  BY <1>0, <1>9 DEF WalkGrant, WalkFail, WalkSkip, Return, Enter
<1>10. CASE \E from, h \in Handles, tag \in Tags : GetPermisssion(t, from, h, tag)
  BY <1>0, <1>10 DEF GetPermisssion, CanCall, Unlocked, local
<1>11. CASE \E h \in Handles : Release(t, h)
  BY <1>0, <1>11, ReleaseMeetsNoDelete DEF Release, Unlocked, local
<1> QED BY <1>1, <1>2, <1>3, <1>4, <1>5, <1>6, <1>7, <1>8, <1>9, <1>10, <1>11 DEF LockedStep

LEMMA LockedStepKeeps ==
  ASSUME IInv, NEW t \in Threads, LockedStep(t)
  PROVE  IInv'
<1>1. ListInv /\ HeadLive
  BY LockedStepControl DEF IInv
<1>2. ListInv'
  <2>1. CASE LinkFirst(t) \/ LinkBefore(t) \/ LinkAfter(t) \/ LinkNowhere(t)
    BY <1>1, <2>1, LinkKeeps, FreeKeeps
  <2>2. CASE \/ \E h \in Handles, tag \in Tags, opt \in BOOLEAN, key \in Keys :
                  Empty(t, h) /\ FindStart(t, "FindSW", h, tag, opt, key)
             \/ \E opt \in BOOLEAN, key \in Keys :
                  FindStart(t, "DeleteNodeSW", Null, "WRITE", opt, key)
             \/ \E h \in Handles, tag \in Tags, idx \in Indices : NumStart(t, h, tag, idx)
    BY <1>1, <2>2, StartKeeps
  <2>3. CASE FindMatch(t) \/ NumFound(t) \/ FindNext(t) \/ NumHop(t) \/ DeleteMatch(t) \/ Unlink(t)
    BY <1>1, <2>3, MatchKeeps, NextKeeps, DeleteMatchKeeps, UnlinkKeeps
  <2>4. CASE \E op \in {"GetNextNode", "GetPreviousNode"}, from \in Handles \cup {Null},
                h \in Handles, tag \in Tags, skip \in BOOLEAN : WalkStart(t, op, from, h, tag, skip)
    BY <1>1, <2>4, WalkStartKeeps
  <2>5. CASE WalkGrant(t) \/ WalkFail(t) \/ WalkSkip(t)
    BY <1>1, <2>5, WalkGrantKeeps, WalkOnKeeps
  <2>6. CASE \/ \E from, h \in Handles, tag \in Tags : GetPermisssion(t, from, h, tag)
             \/ \E h \in Handles : Release(t, h)
    BY <1>1, <2>6, GetPermisssionKeeps, ReleaseKeeps
  <2> QED BY <2>1, <2>2, <2>3, <2>4, <2>5, <2>6 DEF LockedStep
<1>3. PICK l \in {"idle", "compare", "unlink", "free", "hop", "wrapped", "walk"} :
        pc' = [pc EXCEPT ![t] = l]
  BY LockedStepControl
<1>4. PICK k : call' = [call EXCEPT ![t] = k] /\ k.op # "Delete"
  BY LockedStepControl
<1>5. /\ HeadLive' /\ (Mutex = Null \/ pc[t] = "walk") /\ pc[t] # "swept"
      /\ pc[t] = "idle" => \A u \in Threads : call[u].op # "Delete"
  BY LockedStepControl
<1> QED BY <1>1, <1>2, <1>3, <1>4, <1>5, LockedKeeps

(* Steps that need no mutex, and so also run around a sweep: malloc, free   *)
(* and the test of FindNodeNum.                                             *)
LEMMA MallocStepKeeps ==
  ASSUME IInv, NEW t \in Threads, NEW x \in Nodes, NEW op, NEW h, NEW place,
         Malloc(t, x, op, h, place),
         \/ op = "InsertNodeHead" /\ h = Null /\ place = "none"
         \/ op = "InsertNodeHandle" /\ h \in Handles /\ place \in Places /\ Holds(t, h)
  PROVE  IInv' /\ Linked' = Linked
<1> DEFINE k == [NoCall EXCEPT !.op = op, !.h = h, !.tag = place]
<1>1. /\ pc[t] = "idle" /\ HeadLive /\ \A u \in Threads : call[u].op # "Delete"
      /\ x \notin heap /\ heap' = heap \cup {x} /\ UNCHANGED <<HeadLive, EntriesList>>
      /\ NextNode' = [NextNode EXCEPT ![x] = Null] /\ PreviousNode' = [PreviousNode EXCEPT ![x] = Null]
      /\ ReadPermission' = [ReadPermission EXCEPT ![x] = 0]
      /\ WritePermission' = [WritePermission EXCEPT ![x] = 0]
      /\ pc' = [pc EXCEPT ![t] = "insert"] /\ cur' = [cur EXCEPT ![t] = x]
      /\ call' = [call EXCEPT ![t] = k]
  BY DEF Malloc, CanCall, Enter
<1>2. ListInv'
  BY <1>1, MallocKeeps DEF IInv
<1>3. k.op # "Delete"
  BY DEF NoCall
<1> HIDE DEF k
<1>4. Linked' = Linked
  <2>1. Detached' = Detached \cup {x}
    BY <1>1 DEF IInv, ListInv, TypeOK, Detached
  <2>2. x \notin Detached
    BY <1>1 DEF IInv, ListInv, UsedNodesAreLinked, Detached
  <2> QED BY <1>1, <2>1, <2>2 DEF Linked
<1>5. \A n \in Linked : /\ NextNode'[n] = NextNode[n] /\ PreviousNode'[n] = PreviousNode[n]
                        /\ ReadPermission'[n] = ReadPermission[n]
                        /\ WritePermission'[n] = WritePermission[n]
  BY <1>1 DEF Linked, IInv, ListInv, TypeOK
<1>6. SweepSound'
  <2>1. \A u \in Threads \ {t} : cur'[u] = cur[u] /\ call'[u] = call[u]
    BY <1>1 DEF IInv, ListInv, TypeOK
  <2>2. heap' = heap \cup {x} /\ \A n \in Nodes \ {x} : NextNode'[n] = NextNode[n]
    BY <1>1 DEF IInv, ListInv, TypeOK
  <2> QED BY <1>1, <1>4, <1>5, <2>1, <2>2, AroundSweepKeeps
<1>7. DeleteAlone'
  BY <1>1, <1>3, NoDeleteAround
<1> QED BY <1>2, <1>4, <1>6, <1>7 DEF IInv

LEMMA FreeStepKeeps ==
  ASSUME IInv, NEW t \in Threads, FreeNode(t)
  PROVE  IInv' /\ Linked' = Linked
<1>1. /\ pc[t] = "free" /\ HeadLive /\ heap' = heap \ {cur[t]}
      /\ UNCHANGED <<HeadLive, Mutex, ring, perms, hands>>
      /\ pc' = [pc EXCEPT ![t] = "idle"] /\ cur' = [cur EXCEPT ![t] = Null]
      /\ call' = [call EXCEPT ![t] = NoCall]
  BY DEF FreeNode, Return, Enter, IInv, DeleteAlone
<1>2. ListInv'
  BY <1>1, FreeKeeps DEF IInv
<1>3. Linked' = Linked
  <2>1. Detached' = Detached \ {cur[t]} /\ cur[t] \in Detached
    BY <1>1 DEF IInv, ListInv, TypeOK, Detached, DetachedApart
  <2> QED BY <1>1, <2>1 DEF Linked
<1>4. SweepSound'
  <2>1. \A u \in Threads \ {t} : cur'[u] = cur[u] /\ call'[u] = call[u]
    BY <1>1 DEF IInv, ListInv, TypeOK
  <2>2. UNCHANGED EntriesList /\ UNCHANGED NextNode
        /\ \A n \in Linked : /\ NextNode'[n] = NextNode[n] /\ PreviousNode'[n] = PreviousNode[n]
                             /\ ReadPermission'[n] = ReadPermission[n]
                             /\ WritePermission'[n] = WritePermission[n]
    BY <1>1 DEF ring, perms
  <2> QED BY <1>1, <1>3, <2>1, <2>2, AroundSweepKeeps
<1>5. DeleteAlone'
  <2>1. NoCall.op # "Delete"
    BY DEF NoCall
  <2> QED BY <1>1, <2>1, NoDeleteAround
<1> QED BY <1>2, <1>3, <1>4, <1>5 DEF IInv

LEMMA NumTestStepKeeps ==
  ASSUME IInv, NEW t \in Threads, NumTest(t), Spared(t)
  PROVE  IInv' /\ Linked' = Linked
<1>1. ListInv' /\ Linked' = Linked
  BY NumTestKeeps DEF IInv
<1>2. /\ pc[t] \in {"hop", "wrapped"} /\ HeadLive /\ call[t].op # "Delete"
      /\ UNCHANGED <<HeadLive, Mutex, ring, perms, heap, hands>>
      /\ call = [call EXCEPT ![t] = call[t]]
  BY DEF NumTest, IInv, DeleteAlone, ListInv, TypeOK
<1>3. PICK l \in {"idle", "found"} : pc' = [pc EXCEPT ![t] = l]
  BY DEF NumTest, Return, Goto, Enter
<1>4. PICK k : call' = [call EXCEPT ![t] = k] /\ k.op # "Delete"
  BY <1>2 DEF NumTest, Return, Goto, Enter, NoCall
<1>5. \A u \in Threads \ {t} : cur'[u] = cur[u] /\ call'[u] = call[u]
  BY DEF NumTest, Return, Goto, Enter, IInv, ListInv, TypeOK
<1>6. SweepSound'
  <2>1. UNCHANGED <<heap, NextNode>> /\ UNCHANGED EntriesList
        /\ \A n \in Linked : /\ NextNode'[n] = NextNode[n] /\ PreviousNode'[n] = PreviousNode[n]
                             /\ ReadPermission'[n] = ReadPermission[n]
                             /\ WritePermission'[n] = WritePermission[n]
    BY <1>2 DEF ring, perms
  <2> QED BY <1>1, <1>2, <1>3, <1>5, <2>1, AroundSweepKeeps
<1>7. DeleteAlone'
  BY <1>2, <1>3, <1>4, NoDeleteAround
<1> QED BY <1>1, <1>6, <1>7 DEF IInv

(* Init and stuttering.                                                     *)
LEMMA InitHolds == Init => IInv
<1> SUFFICES ASSUME Init PROVE IInv
  OBVIOUS
<1>1. TypeOK
  <2>1. NoCall \in Calls
    BY DEF NoCall, Calls
  <2> QED BY <2>1 DEF Init, TypeOK, Labels
<1>2. Linked = {}
  BY DEF Init, Linked, Detached
<1>3. Control /\ DetachedApart /\ SweepSound
  BY ThreadsAssumption DEF Init, Control, DetachedApart, SweepSound
<1>4. UsedNodesAreLinked
  BY DEF Init, UsedNodesAreLinked
<1>5. RingIsWhole
  BY <1>2, FS_EmptySet DEF Init, RingIsWhole
<1>6. CountersMatchUsers
  BY <1>2 DEF CountersMatchUsers
<1>7. WriteIsExclusive
  BY DEF Init, WriteIsExclusive, Writers, HandleOn, Deletes
<1>8. DeleteAlone
  BY DEF Init, DeleteAlone, NoCall
<1> QED BY <1>1, <1>3, <1>4, <1>5, <1>6, <1>7, <1>8 DEF IInv, ListInv

LEMMA StutterKeeps ==
  ASSUME IInv, UNCHANGED vars
  PROVE  IInv' /\ Linked' = Linked
<1>1. /\ TypeOK' /\ Control' /\ DetachedApart' /\ Linked' = Linked
  BY DEF IInv, ListInv, vars, ring, perms, local, hands, TypeOK, Control, Empty, Holds, DetachedApart, Linked, Detached
<1>2. UsedNodesAreLinked' /\ RingIsWhole'
  BY <1>1 DEF IInv, ListInv, vars, ring, perms, local, hands, UsedNodesAreLinked, RingIsWhole
<1>3. \A n : Writers(n)' = Writers(n) /\ Readers(n)' = Readers(n) /\ ReadGrants(n)' = ReadGrants(n)
  BY DEF vars, local, hands, Writers, Readers, Visitors, ReadGrants, Visits, Deletes, HandleOn
<1>4. CountersMatchUsers' /\ WriteIsExclusive'
  BY <1>1, <1>3 DEF IInv, ListInv, vars, perms, CountersMatchUsers, WriteIsExclusive
<1>5. SweepSound' /\ DeleteAlone'
  BY <1>1 DEF IInv, vars, ring, perms, local, hands, SweepSound, SweptUpTo, Used, DeleteAlone
<1> QED BY <1>1, <1>2, <1>4, <1>5 DEF IInv, ListInv

(* Every step is one of these.                                              *)
AllocStep(t) ==
  \/ \E n \in Nodes : Malloc(t, n, "InsertNodeHead", Null, "none")
  \/ \E n \in Nodes, h \in Handles, place \in Places :
       Holds(t, h) /\ Malloc(t, n, "InsertNodeHandle", h, place)

LEMMA StepCases ==
  ASSUME Next
  PROVE  \E t \in Threads :
           \/ LockedStep(t) \/ AllocStep(t) \/ FreeNode(t) \/ NumTest(t)
           \/ \E op \in {"DeleteNodes", "Delete"} : SweepStart(t, op)
           \/ Sweep(t) \/ FreeHead(t) \/ Initialize(t)
BY DEF Next, Insert, Find, DeleteNode, FindNodeNum, GetNode, Walk, Permission, DeleteList,
       LockedStep, AllocStep

LEMMA StepKeeps ==
  ASSUME IInv, NEW t \in Threads, Spared(t),
         \/ LockedStep(t) \/ AllocStep(t) \/ FreeNode(t) \/ NumTest(t)
         \/ \E op \in {"DeleteNodes", "Delete"} : SweepStart(t, op)
         \/ Sweep(t) \/ FreeHead(t) \/ Initialize(t)
  PROVE  IInv'
<1>1. CASE LockedStep(t)
  BY <1>1, LockedStepKeeps
<1>2. CASE AllocStep(t)
  BY <1>2, MallocStepKeeps DEF AllocStep
<1>3. CASE FreeNode(t) \/ NumTest(t)
  BY <1>3, FreeStepKeeps, NumTestStepKeeps
<1>4. CASE \E op \in {"DeleteNodes", "Delete"} : SweepStart(t, op)
  BY <1>4, SweepStartKeeps
<1>5. CASE Sweep(t)
  BY <1>5, SweepLastKeeps, SweepSkipKeeps, SweepFirstKeeps, SweepMiddleKeeps, SweepRereadKeeps
     DEF Sweep
<1>6. CASE FreeHead(t) \/ Initialize(t)
  BY <1>6, HeadKeeps
<1> QED BY <1>1, <1>2, <1>3, <1>4, <1>5, <1>6

LEMMA UnusedHasNoUsers ==
  ASSUME ListInv, NEW n \in Nodes
  PROVE  /\ n \notin Linked => Readers(n) = {} /\ Writers(n) = {}
         /\ n \in Linked /\ ~Used(n) => Readers(n) = {} /\ Writers(n) = {}
<1>1. n \notin Linked => Readers(n) = {} /\ Writers(n) = {}
  BY DEF ListInv, UsedNodesAreLinked, Readers, Writers, Visitors, ReadGrants, HandleOn,
         Visits, Deletes, Tags
<1> QED BY <1>1, UnusedNode DEF Used

-----------------------------------------------------------------------------
(* What the theorems ask of the callers.                                    *)

(* No step runs into a defect of FindNodeNum or DeleteNodes.                *)
SafeUse == [][\A t \in Threads : Spared(t)]_vars

(* A way for callers to keep clear of those defects: they do not call       *)
(* FindNodeNum, and call DeleteNodes and Delete when no node is in use.     *)
Careful(t) ==
  /\ \A h \in Handles, tag \in Tags, idx \in Indices : ~NumStart(t, h, tag, idx)
  /\ \A op \in {"DeleteNodes", "Delete"} : SweepStart(t, op) => \A n \in Linked : ~InUse(n)

CarefulUse == [][\A t \in Threads : Careful(t)]_vars

(* Then no thread is inside FindNodeNum, and a sweep is always at the first *)
(* node of a list without users.                                            *)
Calm ==
  \A t \in Threads :
    /\ pc[t] \notin {"hop", "wrapped", "found", "reread"}
    /\ pc[t] = "sweep" => cur[t] = EntriesList /\ \A n \in Linked : ~Used(n)

LEMMA CalmSpares ==
  ASSUME Calm
  PROVE  \A t \in Threads : Spared(t)
BY DEF Calm, Spared, NumTest, SweepMiddle, Sweeping, SweepReread

LEMMA CalmStays ==
  ASSUME IInv, Calm, NEW t \in Threads, Careful(t),
         \/ LockedStep(t) \/ AllocStep(t) \/ FreeNode(t) \/ NumTest(t)
         \/ \E op \in {"DeleteNodes", "Delete"} : SweepStart(t, op)
         \/ Sweep(t) \/ FreeHead(t) \/ Initialize(t)
  PROVE  Calm'
<1>0. Spared(t)
  BY CalmSpares
<1>1. CASE LockedStep(t)
  <2>1. \A u \in Threads : pc[u] # "sweep"
    BY <1>1, LockedStepControl, ThreadsAssumption DEF IInv, ListInv, Control
  <2>2. pc[t] \notin {"hop", "found"} /\ \A h \in Handles, tag \in Tags, idx \in Indices : ~NumStart(t, h, tag, idx)
    BY DEF Calm, Careful
  <2>3. \E l \in {"idle", "compare", "unlink", "free", "walk"} : pc' = [pc EXCEPT ![t] = l]
    <3>1. \/ LinkFirst(t) \/ LinkBefore(t) \/ LinkAfter(t) \/ LinkNowhere(t)
          \/ FindMatch(t) \/ FindNext(t) \/ DeleteMatch(t) \/ Unlink(t)
          \/ \E op, h, tag, opt, key : FindStart(t, op, h, tag, opt, key)
          \/ \E op, from, h, tag, skip : WalkStart(t, op, from, h, tag, skip)
          \/ WalkGrant(t) \/ WalkFail(t) \/ WalkSkip(t)
          \/ \E from, h, tag : GetPermisssion(t, from, h, tag)
          \/ \E h : Release(t, h)
      BY <1>1, <2>2 DEF LockedStep, NumHop, NumFound
    <3>2. CASE \/ LinkFirst(t) \/ LinkBefore(t) \/ LinkAfter(t) \/ LinkNowhere(t)
               \/ FindMatch(t) \/ FindNext(t) \/ DeleteMatch(t) \/ Unlink(t)
               \/ WalkGrant(t) \/ WalkFail(t) \/ WalkSkip(t)
      BY <3>2 DEF LinkFirst, LinkBefore, LinkAfter, LinkNowhere, FindMatch, FindNext, DeleteMatch,
         Unlink, WalkGrant, WalkFail, WalkSkip, Return, Enter, Goto, IInv, ListInv, TypeOK
    <3>3. CASE \/ \E op, h, tag, opt, key : FindStart(t, op, h, tag, opt, key)
               \/ \E op, from, h, tag, skip : WalkStart(t, op, from, h, tag, skip)
      BY <3>3 DEF FindStart, WalkStart, Enter
    <3>4. CASE \/ \E from, h, tag : GetPermisssion(t, from, h, tag)
               \/ \E h : Release(t, h)
      BY <3>4 DEF GetPermisssion, CanCall, Release, local, IInv, ListInv, TypeOK
    <3> QED BY <3>1, <3>2, <3>3, <3>4
  <2> QED BY <2>1, <2>3 DEF Calm, IInv, ListInv, TypeOK
<1>2. CASE AllocStep(t) \/ FreeNode(t)
  <2>1. Linked' = Linked
    BY <1>2, MallocStepKeeps, FreeStepKeeps DEF AllocStep
  <2>2. /\ UNCHANGED EntriesList
        /\ \A n \in Linked : ReadPermission'[n] = ReadPermission[n] /\ WritePermission'[n] = WritePermission[n]
        /\ \E l, x : l \in {"idle", "insert"} /\ pc' = [pc EXCEPT ![t] = l] /\ cur' = [cur EXCEPT ![t] = x]
    <3>1. CASE AllocStep(t)
      <4>1. PICK x, op, h, place : x \in Nodes /\ Malloc(t, x, op, h, place)
        BY <3>1 DEF AllocStep
      <4>2. x \notin Linked /\ Linked \subseteq Nodes
        BY <4>1 DEF Malloc, Linked, IInv, ListInv, TypeOK
      <4> QED BY <4>1, <4>2 DEF Malloc, Enter, IInv, ListInv, TypeOK
    <3>2. CASE FreeNode(t)
      BY <3>2 DEF FreeNode, Return, Enter, ring, perms
    <3> QED BY <1>2, <3>1, <3>2
  <2> QED BY <2>1, <2>2 DEF Calm, Used, IInv, ListInv, TypeOK
<1>3. CASE NumTest(t)
  BY <1>3 DEF NumTest, Calm
<1>4. CASE \E op \in {"DeleteNodes", "Delete"} : SweepStart(t, op)
  <2>1. PICK op \in {"DeleteNodes", "Delete"} : SweepStart(t, op)
    BY <1>4
  <2>2. Linked' = Linked /\ \A n \in Linked : ~Used(n)
    BY <2>1, SweepStartKeeps, UnusedNode DEF Careful, IInv
  <2>3. UNCHANGED EntriesList /\ UNCHANGED perms /\ \A u \in Threads : pc[u] # "sweep"
    BY <2>1, ThreadsAssumption DEF SweepStart, ring, Unlocked, IInv, ListInv, Control
  <2>4. \/ pc' = [pc EXCEPT ![t] = "swept"]
        \/ pc' = [pc EXCEPT ![t] = "sweep"] /\ cur' = [cur EXCEPT ![t] = EntriesList]
    BY <2>1 DEF SweepStart, Enter
  <2> QED BY <2>2, <2>3, <2>4 DEF Calm, Used, perms, IInv, ListInv, TypeOK
<1>5. CASE Sweep(t)
  <2>1. /\ pc[t] = "sweep" /\ cur[t] = EntriesList
        /\ \A n \in Linked : ~Used(n)
        /\ cur[t] \in Linked
        /\ \A u \in Threads \ {t} : pc[u] # "sweep"
    BY <1>5 DEF Sweep, SweepLast, SweepSkip, SweepFirst, SweepMiddle, SweepReread, Sweeping, Calm,
       IInv, ListInv, Control, UsedNodesAreLinked
  <2>2. CASE SweepFirst(t)
    <3>1. Linked' \subseteq Linked /\ UNCHANGED perms
      BY <2>2, SweepFirstKeeps DEF SweepFirst
    <3>2. /\ EntriesList' = NextNode[cur[t]]
          /\ pc' = [pc EXCEPT ![t] = "sweep"] /\ cur' = [cur EXCEPT ![t] = NextNode[cur[t]]]
      BY <2>2 DEF SweepFirst, Enter
    <3> QED BY <2>1, <3>1, <3>2 DEF Calm, Used, perms, IInv, ListInv, TypeOK
  <2>3. CASE SweepLast(t)
    <3>1. \E l \in {"idle", "swept"} : pc' = [pc EXCEPT ![t] = l]
      BY <2>3 DEF SweepLast, SweepDone, Return, Enter, Goto
    <3> QED BY <2>1, <3>1 DEF Calm, IInv, ListInv, TypeOK
  <2>4. ~SweepSkip(t) /\ ~SweepMiddle(t) /\ ~SweepReread(t)
    BY <2>1, UnusedNode DEF SweepSkip, SweepMiddle, SweepReread, IInv
  <2> QED BY <1>5, <2>2, <2>3, <2>4 DEF Sweep
<1>6. CASE FreeHead(t) \/ Initialize(t)
  BY <1>6, HeadKeeps DEF Calm
<1> QED BY <1>1, <1>2, <1>3, <1>4, <1>5, <1>6

-----------------------------------------------------------------------------
(* NodeAccess: a step of the list is a step of the permissions, or none.    *)

Users == Threads \cup Handles
NoAcc == [kind |-> "none", node |-> Null]

(* Only user u's access changes, and becomes a.                             *)
Gets(u, a) ==
  /\ Linked' = Linked
  /\ \A v \in Users : UserAccess(v)' = IF v = u THEN a ELSE UserAccess(v)

LEMMA AccessOf ==
  /\ \A t \in Threads : UserAccess(t) =
       IF pc[t] \in {"compare", "hop", "found"} THEN [kind |-> "VISIT", node |-> cur[t]]
       ELSE IF pc[t] = "unlink" THEN [kind |-> "WRITE", node |-> cur[t]] ELSE NoAcc
  /\ \A h \in Handles : UserAccess(h) =
       IF perm[h] # "none" THEN [kind |-> perm[h], node |-> EntryPtr[h]] ELSE NoAcc
BY ThreadsAssumption DEF UserAccess, Visits, Deletes, NoAcc

LEMMA AccessOfNext ==
  /\ \A t \in Threads : UserAccess(t)' =
       IF pc'[t] \in {"compare", "hop", "found"} THEN [kind |-> "VISIT", node |-> cur'[t]]
       ELSE IF pc'[t] = "unlink" THEN [kind |-> "WRITE", node |-> cur'[t]] ELSE NoAcc
  /\ \A h \in Handles : UserAccess(h)' =
       IF perm'[h] # "none" THEN [kind |-> perm'[h], node |-> EntryPtr'[h]] ELSE NoAcc
BY ThreadsAssumption DEF UserAccess, Visits, Deletes, NoAcc

LEMMA AbstractEnd ==
  ASSUME NEW u \in Users, UserAccess(u) # NoAcc, Gets(u, NoAcc)
  PROVE  Permissions!Next
<1>1. Permissions!End(u)
  BY DEF Permissions!End, Permissions!NoAccess, Gets, NoAcc, Users
<1> QED BY <1>1 DEF Permissions!Next, Users

(* A user with access to a node is one of those its counters count.         *)
LEMMA UserOf ==
  ASSUME ListInv, HeadLive, NEW n \in Linked, NEW u \in Users, UserAccess(u).node = n
  PROVE  IF UserAccess(u).kind = "WRITE" THEN u \in Writers(n) ELSE u \in Readers(n)
<1>1. n # Null /\ n \in Nodes
  BY ThreadsAssumption DEF ListInv, TypeOK, Linked
<1>2. CASE u \in Threads
  BY <1>1, <1>2, AccessOf DEF Writers, Readers, Visitors, Visits, Deletes, ListInv, Control, NoAcc
<1>3. CASE u \in Handles
  BY <1>1, <1>3, AccessOf DEF Writers, Readers, ReadGrants, HandleOn, ListInv, TypeOK, Tags, NoAcc
<1> QED BY <1>2, <1>3 DEF Users

(* What Compatible asks, in terms of the sets that the counters count.      *)
LEMMA Compatibility ==
  ASSUME ListInv, HeadLive, NEW k \in {"VISIT", "READ", "WRITE"}, NEW n \in Linked, NEW gone \in Users,
         k = "READ" => Writers(n) = {},
         k = "WRITE" => Writers(n) = {} /\ Readers(n) \subseteq {gone}
  PROVE  Permissions!Compatible(k, n, gone)
<1>1. \A u \in Users \ {gone} : UserAccess(u).node = n =>
        CASE k = "VISIT" -> TRUE
          [] k = "READ"  -> UserAccess(u).kind # "WRITE"
          [] k = "WRITE" -> FALSE
  BY UserOf
<1> QED BY <1>1 DEF Permissions!Compatible, Users

LEMMA AbstractObtain ==
  ASSUME ListInv, HeadLive, NEW u \in Users, NEW n \in Linked, NEW k \in {"VISIT", "READ", "WRITE"},
         UserAccess(u) = NoAcc, Gets(u, [kind |-> k, node |-> n]),
         k = "READ" => Writers(n) = {},
         k = "WRITE" => Writers(n) = {} /\ Readers(n) = {}
  PROVE  Permissions!Next
<1>1. Permissions!Compatible(k, n, u)
  BY Compatibility
<1>2. Permissions!Obtain(u, n, k)
  BY <1>1 DEF Permissions!Obtain, Permissions!NoAccess, Permissions!Access, Gets, NoAcc, Users
<1>3. n \in Nodes
  BY DEF ListInv, TypeOK, Linked
<1> QED BY <1>2, <1>3 DEF Permissions!Next, Users, Permissions!Kinds

LEMMA AbstractMove ==
  ASSUME ListInv, HeadLive, NEW u \in Users, NEW n \in Linked,
         UserAccess(u).kind = "VISIT", Gets(u, [kind |-> "VISIT", node |-> n])
  PROVE  Permissions!Next
<1>1. Permissions!Move(u, n)
  BY DEF Permissions!Move, Permissions!Access, Gets, Users
<1>2. n \in Nodes
  BY DEF ListInv, TypeOK, Linked
<1> QED BY <1>1, <1>2 DEF Permissions!Next, Users

LEMMA AbstractPass ==
  ASSUME ListInv, HeadLive, NEW u \in Users, NEW v \in Users, NEW n \in Linked, NEW k \in {"READ", "WRITE"},
         UserAccess(u) = [kind |-> "VISIT", node |-> n],
         v = u \/ UserAccess(v) = NoAcc,
         Linked' = Linked,
         \A w \in Users : UserAccess(w)' = IF w = v THEN [kind |-> k, node |-> n]
                                           ELSE IF w = u THEN NoAcc ELSE UserAccess(w),
         Writers(n) = {},
         k = "WRITE" => Readers(n) \subseteq {u}
  PROVE  Permissions!Next
<1>1. Permissions!Compatible(k, n, u)
  BY Compatibility
<1>2. Permissions!Pass(u, v, k)
  <2> DEFINE acc == [w \in Threads \cup Handles |-> UserAccess(w)]
  <2>1. acc[u].kind = "VISIT" /\ acc[u].node = n /\ (v = u \/ acc[v] = NoAcc)
    BY DEF Users
  <2>2. acc' = [[acc EXCEPT ![u] = NoAcc] EXCEPT ![v] = [kind |-> k, node |-> n]]
    BY DEF Users
  <2> HIDE DEF acc
  <2>3. Permissions!Compatible(k, acc[u].node, u)
    BY <1>1, <2>1
  <2> QED
    BY <2>1, <2>2, <2>3
       DEF acc, Permissions!Pass, Permissions!NoAccess, Permissions!Access, NoAcc
<1> QED BY <1>2 DEF Permissions!Next, Users

LEMMA AbstractAdd ==
  ASSUME NEW x \in Nodes, x \notin Linked, Linked' = Linked \cup {x},
         \A v \in Users : UserAccess(v)' = UserAccess(v)
  PROVE  Permissions!Next
<1>1. Permissions!Add(x)
  BY DEF Permissions!Add, Users
<1> QED BY <1>1 DEF Permissions!Next

LEMMA AbstractRemove ==
  ASSUME ListInv, HeadLive, NEW n \in Linked, NEW gone \in Users,
         UserAccess(gone) = [kind |-> "WRITE", node |-> n],
         Linked' = Linked \ {n},
         Readers(n) = {}, Writers(n) = {gone},
         \A v \in Users : UserAccess(v)' = IF v = gone THEN NoAcc ELSE UserAccess(v)
  PROVE  Permissions!Next
<1>1. \A u \in Users \ {gone} : UserAccess(u).node # n
  BY UserOf
<1>2. n \in Nodes
  BY DEF ListInv, TypeOK, Linked
<1>3. Permissions!Remove(n)
  <2> DEFINE acc == [w \in Threads \cup Handles |-> UserAccess(w)]
  <2>1. acc[gone].kind = "WRITE" /\ acc[gone].node = n
    BY DEF Users
  <2>2. acc' = [acc EXCEPT ![gone] = NoAcc]
    BY DEF Users
  <2>3. \A u \in Users \ {gone} : acc[u].node # n
    BY <1>1 DEF Users
  <2> HIDE DEF acc
  <2> QED
    BY <2>1, <2>2, <2>3 DEF acc, Permissions!Remove, Permissions!NoAccess, NoAcc, Users
<1> QED BY <1>2, <1>3 DEF Permissions!Next

LEMMA QuietStep ==
  ASSUME Linked' = Linked, \A v \in Users : UserAccess(v)' = UserAccess(v)
  PROVE  UNCHANGED Permissions!vars
BY DEF Permissions!vars, Users

(* Permissions do not change while a node is allocated or freed, or while   *)
(* a walk goes on.                                                          *)
LEMMA QuietSteps ==
  ASSUME ListInv, HeadLive, NEW t \in Threads,
         \/ \E n, op, h, place : n \in Nodes /\ Malloc(t, n, op, h, place)
         \/ LinkNowhere(t) \/ FreeNode(t)
         \/ \E op, from, h, tag, skip : WalkStart(t, op, from, h, tag, skip)
         \/ WalkFail(t) \/ WalkSkip(t)
  PROVE  UNCHANGED Permissions!vars
<1>1. Linked' = Linked
  <2>1. CASE \E n, op, h, place : n \in Nodes /\ Malloc(t, n, op, h, place)
    <3>1. PICK x, op, h, place : x \in Nodes /\ Malloc(t, x, op, h, place)
      BY <2>1
    <3>2. /\ x \notin heap /\ heap' = heap \cup {x} /\ UNCHANGED HeadLive
          /\ pc[t] = "idle" /\ pc' = [pc EXCEPT ![t] = "insert"] /\ cur' = [cur EXCEPT ![t] = x]
      BY <3>1 DEF Malloc, Enter, CanCall
    <3>3. Detached' = Detached \cup {x}
      BY <3>2 DEF ListInv, TypeOK, Detached
    <3>4. x \notin Detached
      BY <3>2 DEF ListInv, UsedNodesAreLinked, Detached
    <3> QED BY <3>2, <3>3, <3>4 DEF Linked
  <2>2. CASE LinkNowhere(t) \/ FreeNode(t)
    <3>1. /\ pc[t] \in {"insert", "free"} /\ pc' = [pc EXCEPT ![t] = "idle"]
          /\ cur' = [cur EXCEPT ![t] = Null]
      BY <2>2 DEF LinkNowhere, FreeNode, Return, Enter
    <3>2. Detached' = Detached \ {cur[t]} /\ cur[t] \in Detached
      BY <3>1 DEF ListInv, TypeOK, Detached, DetachedApart
    <3> QED BY <2>2, <3>2 DEF Linked, LinkNowhere, FreeNode
  <2>3. CASE \E op, from, h, tag, skip : WalkStart(t, op, from, h, tag, skip)
    <3>1. PICK op, from, h, tag, skip : WalkStart(t, op, from, h, tag, skip)
      BY <2>3
    <3>2. /\ pc[t] = "idle" /\ UNCHANGED <<HeadLive, heap>>
          /\ pc' = [pc EXCEPT ![t] = "walk"] /\ \A u \in Threads \ {t} : cur'[u] = cur[u]
      BY <3>1 DEF WalkStart, CanCall, Enter, ListInv, TypeOK
    <3>3. Detached' = Detached
      BY <3>2 DEF ListInv, TypeOK, Detached
    <3> QED BY <3>2, <3>3 DEF Linked
  <2>4. CASE WalkFail(t) \/ WalkSkip(t)
    <3>1. /\ pc[t] = "walk" /\ UNCHANGED <<HeadLive, heap>> /\ pc'[t] \in {"idle", "walk"}
          /\ \A u \in Threads \ {t} : cur'[u] = cur[u] /\ pc'[u] = pc[u]
      BY <2>4 DEF WalkFail, WalkSkip, Return, Enter, ListInv, TypeOK
    <3>2. Detached' = Detached
      BY <3>1 DEF ListInv, TypeOK, Detached
    <3> QED BY <3>1, <3>2 DEF Linked
  <2> QED BY <2>1, <2>2, <2>3, <2>4
<1>2. /\ UNCHANGED hands
      /\ pc'[t] \in {"idle", "insert", "walk"} /\ pc[t] \in {"idle", "insert", "free", "walk"}
      /\ \A u \in Threads \ {t} : pc'[u] = pc[u] /\ cur'[u] = cur[u]
  <2>1. CASE \E n, op, h, place : n \in Nodes /\ Malloc(t, n, op, h, place)
    BY <2>1 DEF Malloc, CanCall, Enter, ListInv, TypeOK
  <2>2. CASE LinkNowhere(t) \/ FreeNode(t)
    BY <2>2 DEF LinkNowhere, FreeNode, Return, Enter, ListInv, TypeOK
  <2>3. CASE \E op, from, h, tag, skip : WalkStart(t, op, from, h, tag, skip)
    BY <2>3 DEF WalkStart, CanCall, Enter, ListInv, TypeOK
  <2>4. CASE WalkFail(t) \/ WalkSkip(t)
    BY <2>4 DEF WalkFail, WalkSkip, Return, Enter, ListInv, TypeOK
  <2> QED BY <2>1, <2>2, <2>3, <2>4
<1>3. \A v \in Users : UserAccess(v)' = UserAccess(v)
  BY <1>2, AccessOf, AccessOfNext DEF Users, hands, ListInv, TypeOK
<1> QED BY <1>1, <1>3, QuietStep

(* An insertion adds its node.                                              *)
LEMMA LinkSteps ==
  ASSUME ListInv, HeadLive, NEW t \in Threads, LinkFirst(t) \/ LinkBefore(t) \/ LinkAfter(t)
  PROVE  Permissions!Next
<1> DEFINE x == cur[t]
<1>1. /\ pc[t] = "insert" /\ HeadLive
      /\ x \in Nodes /\ x \in heap /\ x \notin Linked
      /\ pc' = [pc EXCEPT ![t] = "idle"] /\ cur' = [cur EXCEPT ![t] = Null]
      /\ UNCHANGED <<HeadLive, heap, hands>>
  BY DetachedNotLinked DEF ListInv, Control, LinkFirst, LinkBefore, LinkAfter, Return, Enter
<1>2. Linked' = Linked \cup {x}
  BY <1>1 DEF ListInv, TypeOK, Linked, Detached, DetachedApart
<1>3. \A v \in Users : UserAccess(v)' = UserAccess(v)
  BY <1>1, AccessOf, AccessOfNext DEF Users, hands, ListInv, TypeOK
<1> QED BY <1>1, <1>2, <1>3, AbstractAdd

(* A search begins with a visit of the first node.                          *)
LEMMA FindStartSteps ==
  ASSUME ListInv, HeadLive, NEW t \in Threads,
         \/ \E op, h, tag, opt, key : FindStart(t, op, h, tag, opt, key)
         \/ \E h, tag, idx : NumStart(t, h, tag, idx)
  PROVE  Permissions!Next
<1> DEFINE e == EntriesList
<1>1. PICK l \in {"compare", "hop"} :
         /\ e # Null /\ pc[t] = "idle"
         /\ pc' = [pc EXCEPT ![t] = l] /\ cur' = [cur EXCEPT ![t] = e]
         /\ UNCHANGED <<HeadLive, heap, hands>>
  BY DEF FindStart, NumStart, CanCall, Enter
<1>2. e \in Linked
  BY <1>1 DEF ListInv, RingIsWhole, IsRing
<1>3. Linked' = Linked
  BY <1>1 DEF ListInv, TypeOK, Linked, Detached
<1>4. \A v \in Users : UserAccess(v)' = IF v = t THEN [kind |-> "VISIT", node |-> e] ELSE UserAccess(v)
  BY <1>1, ThreadsAssumption, AccessOf, AccessOfNext DEF Users, hands, ListInv, TypeOK
<1>5. UserAccess(t) = NoAcc
  BY <1>1, AccessOf
<1> QED BY <1>1, <1>2, <1>3, <1>4, <1>5, AbstractObtain DEF Gets, Users

(* A search goes on with a visit of the next node, or ends: FindNodeNum     *)
(* too, although it has its test of the first node still to make.           *)
LEMMA FindNextSteps ==
  ASSUME ListInv, HeadLive, NEW t \in Threads, FindNext(t) \/ NumHop(t)
  PROVE  Permissions!Next
<1> DEFINE c == cur[t]
           m == Following(t)
<1>1. /\ pc[t] \in {"compare", "hop"} /\ UNCHANGED <<HeadLive, heap, hands>>
      /\ m = Null \/ m \in Linked
  BY DEF ListInv, UsedNodesAreLinked, RingIsWhole, IsRing, FindNext, NumHop, Following
<1>2. UserAccess(t) = [kind |-> "VISIT", node |-> c] /\ UserAccess(t) # NoAcc
  BY <1>1, AccessOf DEF NoAcc
<1>3. CASE m = Null
  <2>1. PICK l, x : l \in {"idle", "wrapped"} /\ pc' = [pc EXCEPT ![t] = l] /\ cur' = [cur EXCEPT ![t] = x]
    BY <1>3 DEF FindNext, NumHop, Return, Enter
  <2>2. Linked' = Linked
    BY <1>1, <2>1 DEF ListInv, TypeOK, Linked, Detached
  <2>3. \A v \in Users : UserAccess(v)' = IF v = t THEN NoAcc ELSE UserAccess(v)
    BY <1>1, <2>1, ThreadsAssumption, AccessOf, AccessOfNext DEF Users, hands, ListInv, TypeOK
  <2> QED BY <1>2, <2>2, <2>3, AbstractEnd DEF Gets, Users
<1>4. CASE m # Null
  <2>1. PICK l \in {"compare", "hop"} : pc' = [pc EXCEPT ![t] = l] /\ cur' = [cur EXCEPT ![t] = m]
    BY <1>4 DEF FindNext, NumHop, Following, Enter
  <2>2. Linked' = Linked
    BY <1>1, <2>1 DEF ListInv, TypeOK, Linked, Detached
  <2>3. \A v \in Users : UserAccess(v)' = IF v = t THEN [kind |-> "VISIT", node |-> m] ELSE UserAccess(v)
    BY <1>1, <2>1, ThreadsAssumption, AccessOf, AccessOfNext DEF Users, hands, ListInv, TypeOK
  <2> HIDE DEF m
  <2> QED BY <1>1, <1>2, <1>4, <2>2, <2>3, AbstractMove DEF Gets, Users
<1> QED BY <1>3, <1>4

(* A search that matches hands its node over, to a handle or to the         *)
(* deletion, or is denied and ends.                                         *)
LEMMA MatchSteps ==
  ASSUME ListInv, HeadLive, NEW t \in Threads, FindMatch(t) \/ NumFound(t) \/ DeleteMatch(t)
  PROVE  Permissions!Next
<1> DEFINE c == cur[t]
           g == Regained(t)
<1>1. /\ pc[t] \in {"compare", "found"} /\ c \in Linked /\ UNCHANGED <<HeadLive, heap>>
      /\ cur \in [Threads -> Nodes \cup {Null}] /\ pc \in [Threads -> Labels]
  BY DEF ListInv, TypeOK, UsedNodesAreLinked, FindMatch, NumFound, DeleteMatch
<1>2. UserAccess(t) = [kind |-> "VISIT", node |-> c] /\ UserAccess(t) # NoAcc
  BY <1>1, AccessOf DEF NoAcc
<1>3. /\ g \in {"none", "READ", "WRITE"}
      /\ g = "READ" => ~(WritePermission[c] > 0)
      /\ g = "WRITE" => ~(WritePermission[c] > 0) /\ ~(ReadPermission[c] - 1 > 0)
  BY <1>1 DEF ListInv, Control, FindMatch, NumFound, DeleteMatch, Regained, Denied, Tags
<1>4. t \in Readers(c)
  BY <1>1, ThreadsAssumption DEF Readers, Visitors, Visits
<1>5. /\ g \in {"READ", "WRITE"} => Writers(c) = {}
      /\ g = "WRITE" => Readers(c) \subseteq {t}
  BY <1>1, <1>3, <1>4, CountersTell
<1>6. CASE FindMatch(t) \/ NumFound(t)
  <2> DEFINE h == call[t].h
  <2>1. /\ h \in Handles /\ perm[h] = "none"
        /\ pc' = [pc EXCEPT ![t] = "idle"] /\ cur' = [cur EXCEPT ![t] = Null]
        /\ EntryPtr' = [EntryPtr EXCEPT ![h] = c] /\ perm' = [perm EXCEPT ![h] = g]
    BY <1>6 DEF ListInv, Control, FindMatch, NumFound, Empty, Return, Enter, SetHandle
  <2>2. UserAccess(h) = NoAcc /\ h \in Users /\ h # t
    BY <2>1, AccessOf, ThreadsAssumption DEF Users
  <2>3. Linked' = Linked
    BY <1>1, <2>1 DEF Linked, Detached
  <2> HIDE DEF g, h
  <2>4. \A w \in Users : UserAccess(w)' = IF w = h /\ g # "none" THEN [kind |-> g, node |-> c]
                                          ELSE IF w = t THEN NoAcc ELSE UserAccess(w)
    BY <1>1, <2>1, <2>2, ThreadsAssumption, AccessOf, AccessOfNext DEF Users, ListInv, TypeOK
  <2>5. CASE g = "none"
    BY <1>2, <2>3, <2>4, <2>5, AbstractEnd DEF Gets, Users
  <2>6. CASE g \in {"READ", "WRITE"}
    BY <1>1, <1>2, <1>5, <2>2, <2>3, <2>4, <2>6, AbstractPass DEF Users
  <2> QED BY <1>3, <2>5, <2>6
<1>7. CASE DeleteMatch(t)
  <2>1. /\ g \in {"none", "WRITE"}
        /\ IF g = "none" THEN pc' = [pc EXCEPT ![t] = "idle"] /\ cur' = [cur EXCEPT ![t] = Null]
                         ELSE pc' = [pc EXCEPT ![t] = "unlink"] /\ cur' = cur
        /\ UNCHANGED hands
    BY <1>7 DEF ListInv, Control, DeleteMatch, Regained, Return, Enter, Goto
  <2>3. Linked' = Linked
    BY <1>1, <2>1 DEF Linked, Detached
  <2> HIDE DEF g
  <2>4. \A w \in Users : UserAccess(w)' = IF w # t THEN UserAccess(w)
                                          ELSE IF g = "none" THEN NoAcc
                                          ELSE [kind |-> g, node |-> c]
    BY <1>1, <2>1, ThreadsAssumption, AccessOf, AccessOfNext DEF Users, hands, ListInv, TypeOK
  <2>5. CASE g = "none"
    BY <1>2, <2>3, <2>4, <2>5, AbstractEnd DEF Gets, Users
  <2>6. CASE g = "WRITE"
    BY <1>1, <1>2, <1>5, <2>3, <2>4, <2>6, AbstractPass DEF Users
  <2> QED BY <2>1, <2>5, <2>6
<1> QED BY <1>6, <1>7

(* A deletion removes its node, or gives it up because others use it.       *)
LEMMA UnlinkSteps ==
  ASSUME ListInv, HeadLive, NEW t \in Threads, Unlink(t)
  PROVE  Permissions!Next
<1> DEFINE c == cur[t]
           used == ReadPermission[c] > 0 \/ WritePermission[c] - 1 > 0
<1>1. /\ pc[t] = "unlink" /\ c \in Linked /\ c \in Nodes /\ c \in heap
      /\ UNCHANGED <<HeadLive, heap, hands>>
      /\ StillUsed(c) <=> used
  BY DEF ListInv, TypeOK, UsedNodesAreLinked, Linked, Unlink, StillUsed
<1>2. UserAccess(t) = [kind |-> "WRITE", node |-> c] /\ UserAccess(t) # NoAcc /\ t \in Users
  BY <1>1, AccessOf DEF NoAcc, Users
<1>3. ASSUME ~used PROVE Readers(c) = {} /\ Writers(c) = {t}
  <2>1. Readers(c) = {}
    BY <1>1, <1>3, CountersTell
  <2>2. Writers(c) = {t}
    BY <1>1, ThreadsAssumption DEF Writers, Deletes, ListInv, WriteIsExclusive
  <2> QED BY <2>1, <2>2
<1>4. IF used
        THEN pc' = [pc EXCEPT ![t] = "idle"] /\ cur' = [cur EXCEPT ![t] = Null]
        ELSE pc' = [pc EXCEPT ![t] = "free"] /\ UNCHANGED cur
  BY <1>1 DEF Unlink, Return, Enter, Goto
<1> HIDE DEF used
<1>5. \A w \in Users : UserAccess(w)' = IF w = t THEN NoAcc ELSE UserAccess(w)
  BY <1>1, <1>4, ThreadsAssumption, AccessOf, AccessOfNext DEF Users, hands, ListInv, TypeOK
<1>6. CASE used
  <2>1. Linked' = Linked
    <3>1. Detached' = Detached
      BY <1>1, <1>4, <1>6 DEF ListInv, TypeOK, Detached
    <3> QED BY <1>1, <3>1 DEF Linked
  <2> QED BY <1>2, <1>5, <2>1, AbstractEnd DEF Gets
<1>7. CASE ~used
  <2>1. Detached' = Detached \cup {c}
    BY <1>1, <1>4, <1>7 DEF ListInv, TypeOK, Detached
  <2>2. Linked' = Linked \ {c}
    BY <1>1, <2>1 DEF Linked
  <2> QED BY <1>1, <1>2, <1>3, <1>5, <1>7, <2>2, AbstractRemove
<1> QED BY <1>6, <1>7

(* A grant through a handle, or one that is refused.                        *)
LEMMA GrantSteps ==
  ASSUME ListInv, HeadLive, NEW t \in Threads, pc[t] \in {"idle", "walk"},
         NEW h \in Handles, perm[h] = "none", NEW c \in Linked, NEW g \in Tags \cup {"none"},
         g = "READ" => ~(WritePermission[c] > 0),
         g = "WRITE" => ~(WritePermission[c] > 0) /\ ~(ReadPermission[c] > 0),
         SetHandle(h, c, g),
         UNCHANGED <<HeadLive, heap>>,
         pc' = [pc EXCEPT ![t] = "idle"],
         \A u \in Threads \ {t} : cur'[u] = cur[u]
  PROVE  Permissions!Next \/ UNCHANGED Permissions!vars
<1>1. Linked' = Linked
  <2>1. Detached' = Detached
    BY DEF ListInv, TypeOK, Detached
  <2> QED BY <2>1 DEF Linked
<1>2. \A w \in Users : UserAccess(w)' = IF w = h /\ g # "none" THEN [kind |-> g, node |-> c]
                                        ELSE UserAccess(w)
  BY ThreadsAssumption, AccessOf, AccessOfNext DEF Users, SetHandle, ListInv, TypeOK
<1>3. UserAccess(h) = NoAcc /\ h \in Users
  BY AccessOf DEF Users
<1>4. CASE g = "none"
  BY <1>1, <1>2, <1>4, QuietStep
<1>5. CASE g \in Tags
  <2>1. Writers(c) = {} /\ (g = "WRITE" => Readers(c) = {})
    BY <1>5, CountersTell DEF Tags
  <2> QED BY <1>1, <1>2, <1>3, <1>5, <2>1, AbstractObtain DEF Gets, Tags
<1> QED BY <1>4, <1>5

LEMMA GrantingSteps ==
  ASSUME ListInv, HeadLive, NEW t \in Threads,
         WalkGrant(t) \/ \E from, h \in Handles, tag \in Tags : GetPermisssion(t, from, h, tag)
  PROVE  Permissions!Next \/ UNCHANGED Permissions!vars
<1>1. CASE WalkGrant(t)
  <2> DEFINE h == call[t].h
             g == call[t].tag
             c == cur[t]
  <2>1. pc[t] = "walk" /\ g \in Tags /\ perm[h] = "none" /\ h \in Handles /\ c \in Linked
    BY <1>1 DEF WalkGrant, ListInv, Control, UsedNodesAreLinked, Empty
  <2>2. /\ g = "READ" => ~(WritePermission[c] > 0)
        /\ g = "WRITE" => ~(WritePermission[c] > 0) /\ ~(ReadPermission[c] > 0)
    BY <1>1, <2>1 DEF WalkGrant, WalkDenied, ListInv, TypeOK, Linked
  <2>3. /\ SetHandle(h, c, g) /\ UNCHANGED <<HeadLive, heap>>
        /\ pc' = [pc EXCEPT ![t] = "idle"] /\ \A u \in Threads \ {t} : cur'[u] = cur[u]
    BY <1>1 DEF WalkGrant, Return, Enter, ListInv, TypeOK
  <2> HIDE DEF h, g, c
  <2> QED BY <2>1, <2>2, <2>3, GrantSteps
<1>2. CASE \E from, h \in Handles, tag \in Tags : GetPermisssion(t, from, h, tag)
  <2>1. PICK from \in Handles, h \in Handles, tag \in Tags : GetPermisssion(t, from, h, tag)
    BY <1>2
  <2> DEFINE c == EntryPtr[from]
             g == IF Denied(ReadPermission[c], WritePermission[c], tag) THEN "none" ELSE tag
  <2>2. pc[t] = "idle" /\ perm[h] = "none" /\ c \in Linked
    BY <2>1 DEF GetPermisssion, CanCall, Holds, Empty, ListInv, UsedNodesAreLinked
  <2>3. /\ g \in Tags \cup {"none"}
        /\ g = "READ" => ~(WritePermission[c] > 0)
        /\ g = "WRITE" => ~(WritePermission[c] > 0) /\ ~(ReadPermission[c] > 0)
    BY DEF Denied, Tags
  <2>4. /\ SetHandle(h, c, g) /\ UNCHANGED <<HeadLive, heap, cur>>
        /\ pc' = [pc EXCEPT ![t] = "idle"]
    BY <2>1, <2>2 DEF GetPermisssion, local, ListInv, TypeOK
  <2> HIDE DEF g, c
  <2> QED BY <2>2, <2>3, <2>4, GrantSteps
<1> QED BY <1>1, <1>2

LEMMA ReleaseSteps ==
  ASSUME ListInv, HeadLive, NEW t \in Threads, NEW h \in Handles, Release(t, h)
  PROVE  Permissions!Next
<1>1. /\ perm[h] # "none" /\ perm' = [perm EXCEPT ![h] = "none"]
      /\ UNCHANGED <<HeadLive, heap, local, EntryPtr>>
  BY DEF Release, Holds
<1>2. Linked' = Linked
  BY <1>1 DEF Linked, Detached, local
<1>3. UserAccess(h) # NoAcc /\ h \in Users
  BY <1>1, AccessOf DEF NoAcc, Users
<1>4. \A w \in Users : UserAccess(w)' = IF w = h THEN NoAcc ELSE UserAccess(w)
  BY <1>1, ThreadsAssumption, AccessOf, AccessOfNext DEF Users, local, ListInv, TypeOK
<1> QED BY <1>2, <1>3, <1>4, AbstractEnd DEF Gets

(* A sweep removes a node that nobody has access to.                        *)
LEMMA AbstractSweep ==
  ASSUME ListInv, NEW t \in Threads, NEW n \in Linked, ~Used(n),
         Linked' = Linked \ {n},
         \A v \in Users : UserAccess(v)' = UserAccess(v)
  PROVE  Permissions!Next
<1>1. Readers(n) = {} /\ Writers(n) = {} /\ n \in Nodes /\ HeadLive
  BY UnusedHasNoUsers DEF ListInv, TypeOK, Linked
<1>2. \A u \in Users : UserAccess(u).node # n
  BY <1>1, UserOf
<1>3. Permissions!Remove(n)
  <2> DEFINE acc == [w \in Threads \cup Handles |-> UserAccess(w)]
  <2>1. acc' = acc /\ \A u \in Users : acc[u].node # n
    BY <1>2 DEF Users
  <2>2. t \in Users
    BY DEF Users
  <2> HIDE DEF acc
  <2> QED BY <2>1, <2>2 DEF acc, Permissions!Remove, Users
<1> QED BY <1>1, <1>3 DEF Permissions!Next

(* A thread that uses no node goes on to another place where it uses none.  *)
LEMMA QuietGo ==
  ASSUME ListInv, NEW t \in Threads, UNCHANGED hands,
         pc[t] \notin {"compare", "hop", "found", "unlink"},
         NEW l, l \notin {"compare", "hop", "unlink"}, pc' = [pc EXCEPT ![t] = l],
         l # "found",
         NEW x, cur' = [cur EXCEPT ![t] = x]
  PROVE  \A v \in Users : UserAccess(v)' = UserAccess(v)
<1>1. \A u \in Threads \ {t} : pc'[u] = pc[u] /\ cur'[u] = cur[u]
  BY DEF ListInv, TypeOK
<1>2. pc'[t] = l
  BY DEF ListInv, TypeOK
<1>3. \A v \in Threads : UserAccess(v)' = UserAccess(v)
  BY <1>1, <1>2, AccessOf, AccessOfNext
<1>4. \A v \in Handles : UserAccess(v)' = UserAccess(v)
  BY AccessOf, AccessOfNext DEF hands
<1> QED BY <1>3, <1>4 DEF Users

(* FindNodeNum goes from its last hop to the node found, or, its visit gone *)
(* already, fails.                                                          *)
LEMMA NumTestSteps ==
  ASSUME IInv, NEW t \in Threads, NumTest(t), Spared(t)
  PROVE  UNCHANGED Permissions!vars
<1>1. Linked' = Linked
  BY NumTestKeeps DEF IInv
<1>2. UNCHANGED hands
  BY DEF NumTest
<1>3. CASE pc[t] = "wrapped"
  <2>1. pc' = [pc EXCEPT ![t] = "idle"] /\ cur' = [cur EXCEPT ![t] = Null]
    BY <1>3 DEF NumTest, Spared, Return, Enter
  <2> QED BY <1>1, <1>2, <1>3, <2>1, QuietGo, QuietStep DEF IInv
<1>4. CASE pc[t] = "hop"
  <2>1. pc' = [pc EXCEPT ![t] = "found"] /\ UNCHANGED cur
    BY <1>4 DEF NumTest, Spared, Goto
  <2>2. \A v \in Users : UserAccess(v)' = UserAccess(v)
    BY <1>2, <1>4, <2>1, AccessOf, AccessOfNext DEF Users, hands, IInv, ListInv, TypeOK
  <2> QED BY <1>1, <2>2, QuietStep
<1> QED BY <1>3, <1>4 DEF NumTest

LEMMA SweepSteps ==
  ASSUME IInv, NEW t \in Threads, Spared(t),
         Sweep(t) \/ \E op \in {"DeleteNodes", "Delete"} : SweepStart(t, op)
  PROVE  Permissions!Next \/ UNCHANGED Permissions!vars
<1>1. \A v \in Users : UserAccess(v)' = UserAccess(v)
  <2>1. UNCHANGED hands /\ pc[t] \in {"idle", "sweep", "reread"}
    BY DEF Sweep, SweepLast, SweepSkip, SweepFirst, SweepMiddle, SweepReread, Sweeping, SweepStart,
           CanCall
  <2>2. \E l, x :
          /\ l \in {"idle", "sweep", "reread", "swept"}
          /\ pc' = [pc EXCEPT ![t] = l] /\ cur' = [cur EXCEPT ![t] = x]
    <3>1. cur = [cur EXCEPT ![t] = cur[t]]
      BY DEF IInv, ListInv, TypeOK
    <3> QED
      BY <3>1 DEF Sweep, SweepLast, SweepDone, SweepSkip, SweepFirst, SweepMiddle, SweepReread,
             SweepStart, Return, Goto, Enter
  <2> QED BY <2>1, <2>2, QuietGo DEF IInv
<1>2. \/ Linked' = Linked
      \/ Linked' = Linked \ {cur[t]} /\ ~Used(cur[t]) /\ cur[t] \in Linked
  BY SweepStartKeeps, SweepLastKeeps, SweepSkipKeeps, SweepFirstKeeps, SweepMiddleKeeps,
     SweepRereadKeeps DEF Sweep
<1> QED BY <1>1, <1>2, QuietStep, AbstractSweep DEF IInv

LEMMA HeadSteps ==
  ASSUME IInv, NEW t \in Threads, FreeHead(t) \/ Initialize(t)
  PROVE  UNCHANGED Permissions!vars
<1>1. \A v \in Users : UserAccess(v)' = UserAccess(v)
  BY HeadKeeps, AccessOf, AccessOfNext DEF Users, hands
<1> QED BY <1>1, HeadKeeps, QuietStep

LEMMA StepImplements ==
  ASSUME IInv, NEW t \in Threads, Spared(t),
         \/ LockedStep(t) \/ AllocStep(t) \/ FreeNode(t) \/ NumTest(t)
         \/ \E op \in {"DeleteNodes", "Delete"} : SweepStart(t, op)
         \/ Sweep(t) \/ FreeHead(t) \/ Initialize(t)
  PROVE  Permissions!Next \/ UNCHANGED Permissions!vars
<1>1. CASE AllocStep(t) \/ FreeNode(t)
  <2>1. HeadLive
    BY <1>1 DEF AllocStep, Malloc, CanCall, FreeNode, IInv, DeleteAlone
  <2> QED BY <1>1, <2>1, QuietSteps DEF AllocStep, IInv
<1>2. CASE LockedStep(t)
  <2>0. ListInv /\ HeadLive
    BY <1>2, LockedStepControl DEF IInv
  <2>1. CASE LinkNowhere(t) \/ WalkFail(t) \/ WalkSkip(t)
    BY <2>0, <2>1, QuietSteps
  <2>2. CASE \E op \in {"GetNextNode", "GetPreviousNode"}, from \in Handles \cup {Null},
                h \in Handles, tag \in Tags, skip \in BOOLEAN :
               WalkStart(t, op, from, h, tag, skip)
    BY <2>0, <2>2, QuietSteps
  <2>3. CASE \/ \E h \in Handles, tag \in Tags, opt \in BOOLEAN, key \in Keys :
                  Empty(t, h) /\ FindStart(t, "FindSW", h, tag, opt, key)
             \/ \E opt \in BOOLEAN, key \in Keys :
                  FindStart(t, "DeleteNodeSW", Null, "WRITE", opt, key)
             \/ \E h \in Handles, tag \in Tags, idx \in Indices : NumStart(t, h, tag, idx)
    BY <2>0, <2>3, FindStartSteps
  <2>4. CASE \/ WalkGrant(t)
             \/ \E from, h \in Handles, tag \in Tags : GetPermisssion(t, from, h, tag)
    BY <2>0, <2>4, GrantingSteps
  <2> QED
    BY <1>2, <2>0, <2>1, <2>2, <2>3, <2>4, LinkSteps, FindNextSteps, MatchSteps, UnlinkSteps,
       ReleaseSteps DEF LockedStep
<1>3. CASE NumTest(t)
  BY <1>3, NumTestSteps
<1>4. CASE Sweep(t) \/ \E op \in {"DeleteNodes", "Delete"} : SweepStart(t, op)
  BY <1>4, SweepSteps
<1>5. CASE FreeHead(t) \/ Initialize(t)
  BY <1>5, HeadSteps
<1> QED BY <1>1, <1>2, <1>3, <1>4, <1>5

-----------------------------------------------------------------------------
(* The theorems.                                                            *)

(* The invariant holds in every reachable state, for every number of        *)
(* threads, handles and nodes.                                              *)
THEOREM Inductive == Spec /\ SafeUse => []IInv
<1>1. Init => IInv
  BY InitHolds
<1>2. IInv /\ [Next]_vars /\ [\A t \in Threads : Spared(t)]_vars => IInv'
  BY StepCases, StepKeeps, StutterKeeps
<1> QED BY <1>1, <1>2, PTL DEF Spec, SafeUse

(* Every variable keeps its type: list.c never leaves NextNode,             *)
(* PreviousNode or a handle with anything but an address or AII_NULL.       *)
THEOREM Typing == Spec /\ SafeUse => []TypeOK
<1>1. IInv => TypeOK
  BY DEF IInv, ListInv
<1> QED BY <1>1, Inductive, PTL

(* The counters of a linked node count its searches, handles and deletions: *)
(* no sequence of searches, grants and releases, of any number of threads,  *)
(* loses an increment or a decrement.                                       *)
THEOREM CountersMatch == Spec /\ SafeUse => []CountersMatchUsers
<1>1. IInv => CountersMatchUsers
  BY DEF IInv, ListInv
<1> QED BY <1>1, Inductive, PTL

(* A node with a granted write permission has no other granted permission.  *)
THEOREM WritersAlone == Spec /\ SafeUse => []WriteIsExclusive
<1>1. IInv => WriteIsExclusive
  BY DEF IInv, ListInv
<1> QED BY <1>1, Inductive, PTL

(* What a thread is going to dereference under the mutex is linked, so a    *)
(* node is never freed, nor unlinked, between the critical sections of a    *)
(* search, an insertion or a walk, nor by a sweep that runs in between.     *)
THEOREM NoUseAfterFree == Spec /\ SafeUse => []UsedNodesAreLinked
<1>1. IInv => UsedNodesAreLinked
  BY DEF IInv, ListInv
<1> QED BY <1>1, Inductive, PTL

(* Insertions, deletions and sweeps in any order, of any number of nodes,   *)
(* leave one doubly linked ring of exactly the linked nodes, counted by     *)
(* EntryAmount.                                                             *)
THEOREM RingStaysWhole == Spec /\ SafeUse => []RingIsWhole
<1>1. IInv => RingIsWhole
  BY DEF IInv, ListInv
<1> QED BY <1>1, Inductive, PTL

(* Delete frees the head only once every node is gone and no permission is  *)
(* held, whatever the other threads did before.                             *)
THEOREM NothingSurvives == Spec /\ SafeUse => []NothingSurvivesDelete
<1>1. IInv => NothingSurvivesDelete
  BY DEF IInv, DeleteAlone, ListInv, UsedNodesAreLinked, Linked, NothingSurvivesDelete
<1> QED BY <1>1, Inductive, PTL

(* When DeleteNodes unlocks the list, every node left has a user.           *)
THEOREM SweepsLeaveUsed == Spec /\ SafeUse => SweepLeavesUsedNodes
<1>1. IInv => [\A t \in Threads : SweepLast(t) => \A n \in Linked' : Readers(n) \cup Writers(n) # {}]_vars
  BY SweepLastKeeps
<1> QED BY <1>1, Inductive, PTL DEF SweepLeavesUsedNodes

(* Whoever frees a node, the deletion of one node, of all the free nodes or *)
(* of the list, or an insertion that has to undo its malloc, it has no user.*)
THEOREM FreedUnused == Spec /\ SafeUse => FreedNodesAreUnused
<1>1. ASSUME IInv, NEW t \in Threads, Spared(t), NEW n \in heap \ heap',
             \/ LockedStep(t) \/ AllocStep(t) \/ FreeNode(t) \/ NumTest(t)
             \/ \E op \in {"DeleteNodes", "Delete"} : SweepStart(t, op)
             \/ Sweep(t) \/ FreeHead(t) \/ Initialize(t)
      PROVE  Readers(n) = {} /\ Writers(n) = {}
  <2>1. n \in Nodes
    BY <1>1 DEF IInv, ListInv, TypeOK
  <2>2. CASE LockedStep(t) \/ AllocStep(t) \/ FreeNode(t) \/ NumTest(t)
    <3>1. LinkNowhere(t) \/ FreeNode(t)
      BY <1>1, <2>2 DEF LockedStep, AllocStep, Malloc, LinkFirst, LinkBefore, LinkAfter, FindStart,
           FindMatch, FindNext, DeleteMatch, Unlink, NumStart, NumHop, NumTest, NumFound, WalkStart,
           WalkGrant, WalkFail, WalkSkip, GetPermisssion, Release
    <3>2. n = cur[t] /\ pc[t] \in {"insert", "free"}
      BY <1>1, <3>1 DEF LinkNowhere, FreeNode
    <3>3. n \notin Linked
      BY <1>1, <3>2, DetachedNotLinked DEF IInv, DeleteAlone
    <3> QED BY <1>1, <2>1, <3>3, UnusedHasNoUsers DEF IInv
  <2>3. CASE \E op \in {"DeleteNodes", "Delete"} : SweepStart(t, op)
    BY <1>1, <2>3 DEF SweepStart
  <2>4. CASE Sweep(t)
    <3>1. n = cur[t] /\ cur[t] \in Linked /\ ~Used(cur[t])
      BY <1>1, <2>4, SweepLastKeeps, SweepFirstKeeps, SweepMiddleKeeps
         DEF Sweep, SweepSkip, SweepReread, SweepFirst, SweepMiddle
    <3> QED BY <1>1, <2>1, <3>1, UnusedHasNoUsers DEF IInv
  <2>5. CASE FreeHead(t) \/ Initialize(t)
    BY <1>1, <2>5 DEF FreeHead, Initialize
  <2> QED BY <1>1, <2>2, <2>3, <2>4, <2>5
<1>2. ASSUME IInv, [Next]_vars, [\A t \in Threads : Spared(t)]_vars
      PROVE  [\A n \in heap \ heap' : Readers(n) = {} /\ Writers(n) = {}]_vars
  <2>1. CASE UNCHANGED vars
    BY <2>1
  <2>2. CASE Next /\ \A t \in Threads : Spared(t)
    BY <1>1, <1>2, <2>2, StepCases
  <2> QED BY <1>2, <2>1, <2>2
<1> QED BY <1>2, Inductive, PTL DEF Spec, SafeUse, FreedNodesAreUnused

(* Callers who do so meet none of the defects: everything above holds for   *)
(* them without an assumption about what happens inside the list.           *)
THEOREM CarefulIsSafe == Spec /\ CarefulUse => SafeUse
<1>1. Init => IInv /\ Calm
  <2>1. Init => Calm
    BY DEF Init, Calm
  <2> QED BY <2>1, InitHolds
<1>2. IInv /\ Calm /\ [Next]_vars /\ [\A t \in Threads : Careful(t)]_vars => (IInv /\ Calm)'
  <2> SUFFICES ASSUME IInv, Calm, [Next]_vars, [\A t \in Threads : Careful(t)]_vars
               PROVE  IInv' /\ Calm'
    OBVIOUS
  <2>1. CASE Next /\ \A t \in Threads : Careful(t)
    <3>1. PICK t \in Threads :
             \/ LockedStep(t) \/ AllocStep(t) \/ FreeNode(t) \/ NumTest(t)
             \/ \E op \in {"DeleteNodes", "Delete"} : SweepStart(t, op)
             \/ Sweep(t) \/ FreeHead(t) \/ Initialize(t)
      BY <2>1, StepCases
    <3>2. Calm'
      BY <2>1, <3>1, CalmStays
    <3>3. IInv'
      BY <3>1, CalmSpares, StepKeeps
    <3> QED BY <3>2, <3>3
  <2>2. CASE UNCHANGED vars
    <3>1. IInv' /\ Linked' = Linked
      BY <2>2, StutterKeeps
    <3>2. Calm'
      BY <2>2, <3>1 DEF Calm, Used, vars, ring, perms, local
    <3> QED BY <3>1, <3>2
  <2> QED BY <2>1, <2>2
<1>3. Calm => [\A t \in Threads : Spared(t)]_vars
  BY CalmSpares
<1> QED BY <1>1, <1>2, <1>3, PTL DEF Spec, CarefulUse, SafeUse

(* The list implements the permissions of NodeAccess: seen through them, a  *)
(* critical section of list.c is one abstract step or none, for any number  *)
(* of threads, handles and nodes and every routine of the list.             *)
THEOREM Refinement == Spec /\ SafeUse => ImplementsNodeAccess
<1>1. Init => Permissions!Init
  <2> SUFFICES ASSUME Init PROVE Permissions!Init
    OBVIOUS
  <2>1. Linked = {}
    BY DEF Init, Linked, Detached
  <2>2. \A u \in Users : UserAccess(u) = NoAcc
    BY AccessOf DEF Init, Users
  <2> QED BY <2>1, <2>2 DEF Permissions!Init, Permissions!NoAccess, NoAcc, Users
<1>2. IInv /\ [Next]_vars /\ [\A t \in Threads : Spared(t)]_vars
        => [Permissions!Next]_(Permissions!vars)
  <2> SUFFICES ASSUME IInv, [Next]_vars, [\A t \in Threads : Spared(t)]_vars
               PROVE  Permissions!Next \/ UNCHANGED Permissions!vars
    OBVIOUS
  <2>1. CASE Next /\ \A t \in Threads : Spared(t)
    BY <2>1, StepCases, StepImplements
  <2>2. CASE UNCHANGED vars
    <3>1. Linked' = Linked
      BY <2>2 DEF vars, local, Linked, Detached
    <3>2. \A w \in Users : UserAccess(w)' = UserAccess(w)
      BY <2>2, AccessOf, AccessOfNext DEF vars, local, hands, Users
    <3> QED BY <3>1, <3>2, QuietStep
  <2> QED BY <2>1, <2>2
<1> QED BY <1>1, <1>2, Inductive, PTL DEF Spec, SafeUse, ImplementsNodeAccess, Permissions!Spec
=============================================================================
