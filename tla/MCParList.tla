------------------------------ MODULE MCParList ------------------------------
(* Small instances of ParList for TLC.                                      *)
EXTENDS ParList, TLC

CONSTANTS t1, t2, h1, h2, h3, n1, n2, n3, n4, k1, k2

OneThread     == {t1}
TwoThreads    == {t1, t2}
OneHandleEach == {h1, h2}
ThreeHandles  == {h1, h2, h3}

OwnedByT1  == (h1 :> t1 @@ h2 :> t1)
OwnedByOne == (h1 :> t1 @@ h2 :> t2)
OwnedTwoOne == (h1 :> t1 @@ h2 :> t1 @@ h3 :> t2)

TwoNodes   == {n1, n2}
ThreeNodes == {n1, n2, n3}
FourNodes  == {n1, n2, n3, n4}

SameKey  == [n \in Nodes |-> k1]
TwoKeys  == [n \in Nodes |-> IF n = n1 THEN k1 ELSE k2]

EveryOp == AllOps
(* Without FindNodeNum and the routines built on DeleteNodes.               *)
ParallelOps == AllOps \ {"FindNodeNum", "DeleteNodes", "Delete", "Initialize"}
(* With Delete; the two insertions and the two walks behave alike on a list *)
(* of two nodes, so one of each is enough.                                  *)
TeardownOps == AllOps \ {"FindNodeNum", "InsertNodeHandle", "GetPreviousNode"}

FromZero == {0, 1}
FromOne  == {1, 2}

NodeSymmetry == Permutations(Nodes)
=============================================================================
