-------------------------------- MODULE MCSmall --------------------------------
(***************************************************************************)
(* Instances for TLC of the components with small state spaces, side by    *)
(* side: a behaviour is a behaviour of one of them, while the others stay  *)
(* in an initial state.                                                    *)
(***************************************************************************)
EXTENDS MsgQueue, OsSemaphore, Spawn, Uuid, SystemClock, Md5, RingQueue, Multicast, PthreadAttr,
        Sockaddr, QueueNames, ToolStrings, AtomStream,
        EarlierNet, TextEdit

CONSTANTS
  t1, t2, t3, p1, p2, q1, q2, x1, x2, a1, a2, one, many, others,
  g4, g6, eth0, eth1, ppp0, stack, u1, u2, k1, k2, k3, e1, e2, w1, w2,
  Parts  \* the components to check

VARIABLE part

(* Finite waits only where the kernel's answer is passed on.                *)
SafeWaits ==
  [LINUX |-> {"forever", "finite"}, VXWORKS |-> {"forever"}, WINDOWS |-> {"forever"}]

AnyWaits == [LINUX |-> TimeTicks, VXWORKS |-> TimeTicks]

LastSecond == [hour |-> 23, minute |-> 59, second |-> 59]
TimesTold == {LastSecond}

(* In range, below it and above it.                                         *)
SomeTtls == {-1, 0, 5, 257}
SomePriorities == {-1, 1, 300}

(* An empty line ends what is read.                                         *)
TwoLines == << <<w1>>, <<w2>> >>
SomeFiles == {TwoLines, << <<w1, Equals>>, << >>, <<w2>> >>}

smallVars ==
  <<msgQVars, semVars, spawnVars, uuidVars, timeVars, md5Vars, clockVars, ringVars, multicastVars,
    attrVars, sockaddrVars, namesVars, stringVars, atomVars, earlierVars, textVars>>

SmallInit ==
  /\ part \in Parts
  /\ MsgQInit /\ SemInit /\ SpawnInit /\ UuidInit /\ TimeInit /\ Md5Init /\ ClockInit /\ RingInit
  /\ MulticastInit /\ AttrInit /\ SockaddrInit /\ NamesInit /\ StringsInit
  /\ AtomInit /\ EarlierInit /\ TextInit
  /\ part # "queue" => queueOs = "LINUX"
  /\ part # "semaphore" => platform = "LINUX"
  /\ part # "uuid" => mishap = CHOOSE m \in Mishaps : TRUE
  /\ part # "time" => date_time = Filled(date, LastSecond)
  /\ part # "text" => savedFile = TwoLines
  /\ part # "multicast" => family = "AF_INET" /\ offers = "group_req"

(* The component takes its steps; the others stay.                          *)
SmallNext ==
  /\ UNCHANGED part
  /\ IF part = "queue" THEN MsgQNext ELSE UNCHANGED msgQVars
  /\ IF part = "semaphore" THEN SemNext ELSE UNCHANGED semVars
  /\ IF part = "spawn" THEN SpawnNext ELSE UNCHANGED spawnVars
  /\ IF part = "uuid" THEN UuidNext ELSE UNCHANGED uuidVars
  /\ IF part = "time" THEN TimeNext ELSE UNCHANGED timeVars
  /\ IF part = "md5" THEN Md5Next ELSE UNCHANGED md5Vars
  /\ IF part = "clock" THEN ClockNext ELSE UNCHANGED clockVars
  /\ IF part = "ring" THEN RingNext ELSE UNCHANGED ringVars
  /\ IF part = "multicast" THEN MulticastNext ELSE UNCHANGED multicastVars
  /\ IF part = "attributes" THEN AttrNext ELSE UNCHANGED attrVars
  /\ IF part = "sockaddr" THEN SockaddrNext ELSE UNCHANGED sockaddrVars
  /\ IF part = "names" THEN NamesNext ELSE UNCHANGED namesVars
  /\ IF part = "strings" THEN StringsNext ELSE UNCHANGED stringVars
  /\ IF part = "atoms" THEN AtomNext ELSE UNCHANGED atomVars
  /\ IF part = "earlier" THEN EarlierNext ELSE UNCHANGED earlierVars
  /\ IF part = "text" THEN TextNext ELSE UNCHANGED textVars

SmallSpec == SmallInit /\ [][SmallNext]_<<part, smallVars>>
=============================================================================
