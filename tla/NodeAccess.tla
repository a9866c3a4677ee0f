------------------------------ MODULE NodeAccess ------------------------------
(***************************************************************************)
(* What the permissions of source/data_structure/list.c promise, without   *)
(* ring, mutex, counters or memory: a set of nodes, and for each user      *)
(* (a handle, or a thread inside a search or a deletion) the one node it   *)
(* has access to and the kind of access.  ParList implements this module.  *)
(***************************************************************************)
CONSTANTS Users, Nodes, Null

Kinds == {"VISIT", "READ", "WRITE"}

VARIABLES
  members,   \* the nodes in the list
  access     \* access[u]: what user u may do, and to which node

vars == <<members, access>>

NoAccess == [kind |-> "none", node |-> Null]
Access(k, n) == [kind |-> k, node |-> n]

TypeOK ==
  /\ members \subseteq Nodes
  /\ access \in [Users -> [kind : Kinds \cup {"none"}, node : Nodes \cup {Null}]]

Init == members = {} /\ access = [u \in Users |-> NoAccess]

(* A visit is always possible, a read next to reads and visits, a write     *)
(* next to nobody.  Gone is the user that gives its access up for it.       *)
Compatible(k, n, gone) ==
  \A u \in Users \ {gone} : access[u].node = n =>
    CASE k = "VISIT" -> TRUE
      [] k = "READ"  -> access[u].kind # "WRITE"
      [] k = "WRITE" -> FALSE

Add(n) ==
  /\ n \notin members
  /\ members' = members \cup {n}
  /\ UNCHANGED access

Obtain(u, n, k) ==
  /\ access[u] = NoAccess
  /\ n \in members
  /\ Compatible(k, n, u)
  /\ access' = [access EXCEPT ![u] = Access(k, n)]
  /\ UNCHANGED members

End(u) ==
  /\ access[u] # NoAccess
  /\ access' = [access EXCEPT ![u] = NoAccess]
  /\ UNCHANGED members

(* A search goes on to another node.                                        *)
Move(u, n) ==
  /\ access[u].kind = "VISIT"
  /\ n \in members
  /\ access' = [access EXCEPT ![u] = Access("VISIT", n)]
  /\ UNCHANGED members

(* A search ends: the node it visited is handed to v, which may be u.       *)
Pass(u, v, k) ==
  LET n == access[u].node IN
  /\ access[u].kind = "VISIT"
  /\ v = u \/ access[v] = NoAccess
  /\ Compatible(k, n, u)
  /\ access' = [[access EXCEPT ![u] = NoAccess] EXCEPT ![v] = Access(k, n)]
  /\ UNCHANGED members

(* A node goes when nobody, or only the writer that deletes it, is on it.   *)
Remove(n) ==
  \E gone \in Users :
    /\ n \in members
    /\ access[gone].node = n => access[gone].kind = "WRITE"
    /\ \A u \in Users \ {gone} : access[u].node # n
    /\ members' = members \ {n}
    /\ access' = IF access[gone].node = n
                   THEN [access EXCEPT ![gone] = NoAccess]
                   ELSE access

Next ==
  \/ \E n \in Nodes : Add(n) \/ Remove(n)
  \/ \E u \in Users : End(u)
  \/ \E u \in Users, n \in Nodes : Move(u, n) \/ (\E k \in Kinds : Obtain(u, n, k))
  \/ \E u, v \in Users, k \in {"READ", "WRITE"} : Pass(u, v, k)

Spec == Init /\ [][Next]_vars

(* Nobody has access to a node that is not in the list, and a writer shares *)
(* its node with visits only.                                               *)
Safe ==
  /\ \A u \in Users : access[u].kind # "none" => access[u].node \in members
  /\ \A u, v \in Users :
       /\ u # v
       /\ access[u].kind = "WRITE"
       /\ access[v].node = access[u].node
       => access[v].kind = "VISIT"
=============================================================================
