------------------------------- MODULE Multicast -------------------------------
(***************************************************************************)
(* Group membership and multicast options of one UDP socket:               *)
(* source/socket/mcastApiWrap.c, and of its earlier version in             *)
(* backup/osi/netApiWrap the calls that the later one no longer exports.   *)
(* Every call ends in one setsockopt, chosen by address family, with the   *)
(* interface found from an index or a name; the groups, source filters and *)
(* options behind it are the kernel's (Linux).  A call that answers -1     *)
(* changes nothing and is a stuttering step.                               *)
(*                                                                         *)
(* A join names an interface.  Mcast_leave and the calls for sources never *)
(* do, so that they reach the membership on the default interface only.    *)
(***************************************************************************)
EXTENDS Integers

CONSTANTS
  Groups,           \* group addresses
  Groups6,          \* those of family AF_INET6
  Sources,
  Interfaces,       \* the interfaces that callers name
  Present,          \* those the system has
  Addressed,        \* those with an IPv4 address
  DefaultInterface, \* the one the kernel chooses
  NoName,           \* no name
  TtlArguments      \* val of Mcast_set_ttl

ASSUME MulticastAssumption ==
  /\ Groups6 \subseteq Groups
  /\ DefaultInterface \in Addressed /\ Addressed \subseteq Present /\ Present \subseteq Interfaces
  /\ NoName \notin Interfaces
  /\ TtlArguments \subseteq Int

VARIABLES
  family,   \* of the socket
  offers,   \* what the system offers: "group_req" or only "ip_mreq"
  member,   \* the kernel's memberships, by group and interface
  answered, \* history: whether the answers say that a source is heard
  loop, ttl, output, \* IP_MULTICAST_LOOP, IP_MULTICAST_TTL, IP_MULTICAST_IF
  lastSet   \* history: the arguments of the last calls that set the first two

socketOptions == <<loop, ttl, output, lastSet>>
multicastVars == <<family, offers, member, answered, socketOptions>>

NotIn == [mode |-> "none", sources |-> {}, listed |-> FALSE]
Memberships == Groups \X Present

MulticastInit ==
  /\ family \in {"AF_INET", "AF_INET6"}
  /\ offers \in {"group_req", "ip_mreq"}
  /\ member = [p \in Memberships |-> NotIn]
  /\ answered = [p \in Memberships |-> [src \in Sources |-> "no"]]
  /\ loop = 1 /\ ttl = 1 /\ output = DefaultInterface
  /\ lastSet = [loop |-> 1, ttl |-> 1]

-----------------------------------------------------------------------------
(* The kernel, linux/net/ipv4/igmp.c.                                       *)
Joined(p) == member[p].mode # "none"

AddMembership(p, mode) == ~Joined(p) /\ member' = [member EXCEPT ![p] = [NotIn EXCEPT !.mode = mode]]

DropMembership(p) == Joined(p) /\ member' = [member EXCEPT ![p] = NotIn]

(* The mode of a filter changes only before it has had a source.            *)
AllowsMode(m, mode) == m.mode = mode \/ (m.mode # "none" /\ ~m.listed)

(* Adds a source to a list: of those heard, or of those not.                *)
With(m, mode, src) ==
  [mode |-> mode, sources |-> m.sources \cup {src}, listed |-> TRUE]
AddSource(p, m, mode, src) ==
  /\ AllowsMode(m, mode)
  /\ src \notin m.sources
  /\ member' = [member EXCEPT ![p] = With(m, mode, src)]

RemoveSource(p, mode, src) ==
  LET m == member[p] IN
  /\ m.mode = mode
  /\ src \in m.sources
  /\ member' = [member EXCEPT ![p] =
                  IF mode = "INCLUDE" /\ m.sources = {src}
                    THEN NotIn
                    ELSE [m EXCEPT !.sources = @ \ {src}]]

Heard(p) ==
  CASE member[p].mode = "none" -> {}
    [] member[p].mode = "INCLUDE" -> member[p].sources
    [] member[p].mode = "EXCLUDE" -> Sources \ member[p].sources

-----------------------------------------------------------------------------
Level == [AF_INET |-> 0, AF_INET6 |-> -1]   \* compiled without IPV6
family_to_level(f) == Level[f]
Family_to_level(g) == family_to_level(IF g \in Groups6 THEN "AF_INET6" ELSE "AF_INET")

sockfd_to_family == family
Sockfd_to_family == sockfd_to_family

TellAll(p, answer) == answered' = [answered EXCEPT ![p] = [src \in Sources |-> answer]]
Tell(p, src, answer) == answered' = [answered EXCEPT ![p][src] = answer]

(* The first source of a membership for all: what of the others is not said. *)
TellJoined(p, src) ==
  answered' = [answered EXCEPT ![p] =
             [s \in Sources |-> IF s = src THEN "yes"
                                ELSE IF \A other \in Sources : answered[p][other] = "yes" THEN "?"
                                ELSE answered[p][s]]]

-----------------------------------------------------------------------------
(* The index before the name, and neither for the kernel's choice.          *)
RequestedInterface(ifname, ifindex) ==
  IF ifindex # NoName THEN ifindex ELSE IF ifname # NoName THEN ifname ELSE DefaultInterface

(* A struct ip_mreq has an address for the interface.                       *)
Usable(i) == i \in IF offers = "group_req" THEN Present ELSE Addressed

Mcast_join(g, ifname, ifindex) ==
  LET i == RequestedInterface(ifname, ifindex) IN
  /\ Family_to_level(g) = 0
  /\ Usable(i)
  /\ AddMembership(<<g, i>>, "EXCLUDE")
  /\ TellAll(<<g, i>>, "yes")
  /\ UNCHANGED <<family, offers, socketOptions>>

(* The kernel joins if need be, and adds the source.                        *)
JoinedFor(p) == IF Joined(p) THEN member[p] ELSE [NotIn EXCEPT !.mode = "INCLUDE"]

Mcast_join_source_group(src, g, ifname, ifindex) ==
  LET i == RequestedInterface(ifname, ifindex) IN
  /\ Family_to_level(g) = 0
  /\ Usable(i)
  /\ AddSource(<<g, i>>, JoinedFor(<<g, i>>), "INCLUDE", src)
  /\ TellJoined(<<g, i>>, src)
  /\ UNCHANGED <<family, offers, socketOptions>>

Mcast_block_source(src, g) ==
  LET p == <<g, DefaultInterface>> IN
  /\ Family_to_level(g) = 0
  /\ Joined(p)
  /\ AddSource(p, member[p], "EXCLUDE", src)
  /\ Tell(p, src, "no")
  /\ UNCHANGED <<family, offers, socketOptions>>

Mcast_unblock_source(src, g) ==
  LET p == <<g, DefaultInterface>> IN
  /\ Family_to_level(g) = 0
  /\ RemoveSource(p, "EXCLUDE", src)
  /\ Tell(p, src, "yes")
  /\ UNCHANGED <<family, offers, socketOptions>>

LeaveFirst(g) == <<g, CHOOSE i \in Present : Joined(<<g, i>>) \/ \A j \in Present : ~Joined(<<g, j>>)>>
LeaveDefault(g) == <<g, DefaultInterface>>

Mcast_leave(g) ==
  /\ Family_to_level(g) = 0
  /\ DropMembership(LeaveDefault(g))
  /\ TellAll(<<g, DefaultInterface>>, "no")
  /\ UNCHANGED <<family, offers, socketOptions>>

Mcast_leave_source_group(src, g) ==
  LET p == <<g, DefaultInterface>> IN
  /\ Family_to_level(g) = 0
  /\ RemoveSource(p, "INCLUDE", src)
  /\ Tell(p, src, "no")
  /\ UNCHANGED <<family, offers, socketOptions>>

-----------------------------------------------------------------------------
(* The calls that pass a struct ip_mreq or ip_mreq_source of the caller's,  *)
(* with the address of an interface.                                        *)
Mcast_add_member(p) ==
  /\ AddMembership(p, "EXCLUDE")
  /\ TellAll(p, "yes")
  /\ UNCHANGED <<family, offers, socketOptions>>

Mcast_drop_member(p) ==
  /\ DropMembership(p)
  /\ TellAll(p, "no")
  /\ UNCHANGED <<family, offers, socketOptions>>

Mcast_block_source_mreq(p, src) ==
  /\ Joined(p)
  /\ AddSource(p, member[p], "EXCLUDE", src)
  /\ Tell(p, src, "no")
  /\ UNCHANGED <<family, offers, socketOptions>>

Mcast_unlbock_source(p, src) ==
  /\ RemoveSource(p, "EXCLUDE", src)
  /\ Tell(p, src, "yes")
  /\ UNCHANGED <<family, offers, socketOptions>>

Mcast_add_source_member(p, src) ==
  /\ AddSource(p, JoinedFor(p), "INCLUDE", src)
  /\ TellJoined(p, src)
  /\ UNCHANGED <<family, offers, socketOptions>>

Mcast_drop_source_member(p, src) ==
  /\ RemoveSource(p, "INCLUDE", src)
  /\ Tell(p, src, "no")
  /\ UNCHANGED <<family, offers, socketOptions>>

-----------------------------------------------------------------------------
(* Options.  The kernel takes a char or an int; -1 is the default TTL.      *)
UChar(val) == val % 256

SetLoop(onoff, flag) ==
  /\ loop' = IF flag = 0 THEN 0 ELSE 1
  /\ lastSet' = [lastSet EXCEPT !.loop = onoff]
  /\ UNCHANGED <<family, offers, member, answered, ttl, output>>

SetTtl(val, passed) ==
  /\ passed \in -1 .. 255
  /\ ttl' = IF passed = -1 THEN 1 ELSE passed
  /\ lastSet' = [lastSet EXCEPT !.ttl = val]
  /\ UNCHANGED <<family, offers, member, answered, loop, output>>

Output(i) ==
  /\ i \in Addressed
  /\ output' = i
  /\ UNCHANGED <<family, offers, member, answered, loop, ttl, lastSet>>

Mcast_set_loop(onoff) == SetLoop(onoff, onoff)
Mcast_set_ttl(val) == SetTtl(val, val)
Mcast_set_if(i) == Output(i)

mcast_set_loop(onoff) == Sockfd_to_family = "AF_INET" /\ SetLoop(onoff, UChar(onoff))
mcast_set_ttl(val) == Sockfd_to_family = "AF_INET" /\ SetTtl(val, UChar(val))
mcast_set_if(ifname, ifindex) ==
  Sockfd_to_family = "AF_INET" /\ Output(RequestedInterface(ifname, ifindex))

mcast_get_loop == IF Sockfd_to_family = "AF_INET" THEN loop ELSE -1
mcast_get_ttl == IF Sockfd_to_family = "AF_INET" THEN ttl ELSE -1
mcast_get_if == -1   \* not written

MulticastNext ==
  \/ \E g \in Groups :
       \/ \E name, index \in Interfaces \cup {NoName} :
            \/ Mcast_join(g, name, index)
            \/ \E src \in Sources : Mcast_join_source_group(src, g, name, index)
       \/ Mcast_leave(g)
       \/ \E src \in Sources :
            \/ Mcast_block_source(src, g) \/ Mcast_unblock_source(src, g)
            \/ Mcast_leave_source_group(src, g)
  \/ \E p \in (Groups \ Groups6) \X Addressed :
       \/ Mcast_add_member(p) \/ Mcast_drop_member(p)
       \/ \E src \in Sources :
            \/ Mcast_block_source_mreq(p, src) \/ Mcast_unlbock_source(p, src)
            \/ Mcast_add_source_member(p, src) \/ Mcast_drop_source_member(p, src)
  \/ \E onoff \in {0, 1, 2, 256} : Mcast_set_loop(onoff) \/ mcast_set_loop(onoff)
  \/ \E val \in TtlArguments : Mcast_set_ttl(val) \/ mcast_set_ttl(val)
  \/ \E i \in Addressed : Mcast_set_if(i)
  \/ \E name, index \in Interfaces \cup {NoName} : mcast_set_if(name, index)

MulticastSpec == MulticastInit /\ [][MulticastNext]_multicastVars

-----------------------------------------------------------------------------
(* A source is heard through an interface exactly as the answers say,       *)
(* whatever joins, leaves, blocks and unblocks came before and by which     *)
(* interface they asked for the group.                                      *)
HearsAsTold ==
  \A p \in Memberships : \A src \in Sources :
    /\ answered[p][src] = "yes" => src \in Heard(p)
    /\ answered[p][src] = "no" => src \notin Heard(p)

(* An argument in the range of an option is what is read back, through the  *)
(* conversions to a char and back.                                          *)
OptionsReadBack ==
  /\ lastSet.loop \in {0, 1} /\ mcast_get_loop # -1 => mcast_get_loop = lastSet.loop
  /\ lastSet.ttl \in 0 .. 255 /\ mcast_get_ttl # -1 => mcast_get_ttl = lastSet.ttl

(* What the answers of the calls say of the socket is so.                   *)
MulticastAsTold == HearsAsTold /\ OptionsReadBack
=============================================================================
