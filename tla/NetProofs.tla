------------------------------ MODULE NetProofs ------------------------------
(***************************************************************************)
(* Proofs about the sockets but for streams: Sockaddr, Multicast and       *)
(* EarlierNet, each for any number of sockets, callers, sources and bytes. *)
(***************************************************************************)
EXTENDS Sockaddr, Multicast, EarlierNet, SequenceTheorems, TLAPS

-----------------------------------------------------------------------------
(* Sockaddr: the static buffer of Sock_ntop.                                *)

(* What the static buffer holds is for any caller about to copy it that     *)
(* nobody was beside, and the text such a caller got is that of its address.*)
AddressInv ==
  /\ reached \in [Callers -> {"out", "copy", "copy_v4"}]
  /\ beside \in [Callers -> BOOLEAN]
  /\ DOMAIN sa = Callers /\ DOMAIN ptr = Callers /\ DOMAIN ipStr = Callers
  /\ DOMAIN number = Callers /\ DOMAIN answer0 = Callers
  /\ \A c \in Callers :
       /\ reached[c] # "out" => number[c] = OtherFamily /\ sa[c] \in Inet4 \cup Inet6 \cup {OtherFamily}
       /\ ~beside[c] =>
            /\ reached[c] # "out" => str = Converted(sa[c]) /\ ptr[c] = TextStart(sa[c])
            /\ reached[c] = "out" /\ answer0[c] => ipStr[c] = <<sa[c]>>
            /\ number[c] \in {OtherFamily, sa[c], -1}
            /\ number[c] = -1 /\ sa[c] \in Inet4 => sa[c] = Broadcast

LEMMA AddressStarts == SockaddrInit => AddressInv
BY SockaddrAssumption DEF SockaddrInit, AddressInv

LEMMA OneIsASeq ==
  ASSUME NEW S, NEW a \in S
  PROVE  <<a>> \in Seq(S) /\ Len(<<a>>) = 1 /\ <<a>>[1] = a
OBVIOUS

LEMMA SuffixOfTwo ==
  ASSUME NEW b, NEW a
  PROVE  SubSeq(<<b>> \o <<a>>, 2, Len(<<b>> \o <<a>>)) = <<a>>
<1> DEFINE S == {a, b}
           t == <<b>> \o <<a>>
           r == SubSeq(t, 2, 2)
<1>1. /\ <<b>> \in Seq(S) /\ Len(<<b>>) = 1
      /\ <<a>> \in Seq(S) /\ Len(<<a>>) = 1 /\ <<a>>[1] = a
  BY OneIsASeq
<1>2. t \in Seq(S) /\ Len(t) = 2 /\ t[2] = a
  <2>1. /\ t \in Seq(S) /\ Len(t) = Len(<<b>>) + Len(<<a>>)
        /\ \A i \in 1 .. Len(<<b>>) + Len(<<a>>) :
             t[i] = IF i <= Len(<<b>>) THEN <<b>>[i] ELSE <<a>>[i - Len(<<b>>)]
    BY <1>1, ConcatProperties
  <2>2. 2 \in 1 .. Len(<<b>>) + Len(<<a>>) /\ ~(2 <= Len(<<b>>)) /\ 2 - Len(<<b>>) = 1
    BY <1>1
  <2> QED BY <1>1, <2>1, <2>2
<1> HIDE DEF t
<1>3. \A i \in 2 .. 2 : t[i] \in S
  BY <1>2
<1>4. /\ r \in Seq(S) /\ Len(r) = (IF 2 <= 2 THEN 2 - 2 + 1 ELSE 0)
      /\ \A i \in 1 .. 2 - 2 + 1 : r[i] = t[2 + i - 1]
  BY <1>3, SubSeqProperties
<1>5. Len(r) = 1 /\ r[1] = a
  BY <1>2, <1>4
<1> HIDE DEF r
<1>6. r = <<a>>
  BY <1>1, <1>4, <1>5, SeqEqual
<1> QED BY <1>2, <1>6 DEF r, t

(* What is copied from where the text begins is the address, without the    *)
(* bracket.                                                                 *)
LEMMA TextFromStart ==
  ASSUME NEW a, a \in Inet4 \cup Inet6 \cup {OtherFamily}
  PROVE  SubSeq(Converted(a), TextStart(a), Len(Converted(a))) = <<a>>
<1>1. CASE Family(a) = "AF_INET6"
  <2>1. Converted(a) = <<Bracket>> \o <<a>> /\ TextStart(a) = 2
    BY <1>1 DEF Converted, TextStart, Inet_ntop, inet_ntop
  <2> QED BY <2>1, SuffixOfTwo
<1>2. CASE Family(a) # "AF_INET6"
  <2>1. Converted(a) = <<a>> /\ TextStart(a) = 1
    BY <1>2 DEF Converted, TextStart, Inet_ntop, inet_ntop, UnknownText, Family
  <2>2. <<a>> \in Seq({a}) /\ Len(<<a>>) = 1
    BY OneIsASeq
  <2> QED BY <2>1, <2>2, SubSeqFull
<1> QED BY <1>1, <1>2

(* The number of a text is the address it was made from, or -1.             *)
LEMMA NumberOfText ==
  ASSUME NEW a, NEW fam, NEW n, n = sock_pton(<<a>>, fam)
  PROVE  /\ n \in {a, -1}
         /\ fam = Family(a) /\ a \in Inet4 => n = a
BY DEF sock_pton, Inet_pton, inet_pton, Family

LEMMA NtopKeeps ==
  ASSUME AddressInv, NEW c \in Callers, NEW a \in Inet4 \cup Inet6 \cup {OtherFamily},
         NEW next \in {"copy", "copy_v4"}, sock_ntop(c, a, next)
  PROVE  AddressInv'
<1>1. \A d \in Callers \ {c} : ~beside'[d] => reached[d] = "out" /\ ~beside[d]
  BY DEF sock_ntop, Inside
<1>2. beside' \in [Callers -> BOOLEAN]
  BY DEF sock_ntop, AddressInv
<1> QED BY <1>1, <1>2, SockaddrAssumption DEF sock_ntop, AddressInv

LEMMA CopyKeeps ==
  ASSUME AddressInv, NEW c \in Callers, Sock_ntop(c) \/ Sock_ntop_v4(c)
  PROVE  AddressInv'
<1> USE DEF Sock_ntop, Sock_ntop_v4
<1>1. PICK text : /\ ipStr' = [ipStr EXCEPT ![c] = text]
                  /\ ~beside[c] => text = <<sa[c]>>
  <2>1. PICK text : /\ text \in {SubSeq(str, ptr[c], Len(str))}
                                  \cup (IF beside[c] THEN {<<Garbage>>} ELSE {})
                    /\ ipStr' = [ipStr EXCEPT ![c] = text]
    BY DEF CopyText
  <2>2. ASSUME ~beside[c] PROVE text = <<sa[c]>>
    <3>1. text = SubSeq(str, ptr[c], Len(str))
      BY <2>1, <2>2
    <3>2. str = Converted(sa[c]) /\ ptr[c] = TextStart(sa[c])
          /\ sa[c] \in Inet4 \cup Inet6 \cup {OtherFamily}
      BY <2>2 DEF AddressInv
    <3>3. SubSeq(Converted(sa[c]), TextStart(sa[c]), Len(Converted(sa[c]))) = <<sa[c]>>
      BY <3>2, TextFromStart
    <3> QED BY <3>1, <3>2, <3>3
  <2> QED BY <2>1, <2>2
<1> QED BY <1>1 DEF CopyText, AddressInv

LEMMA NumberKeeps ==
  ASSUME AddressInv, NEW c \in Callers, Sock_pton(c) \/ Sock_pton_v4(c)
  PROVE  AddressInv'
<1>1. reached[c] = "out" /\ (~beside[c] => ipStr[c] = <<sa[c]>>)
  BY DEF Sock_pton, Sock_pton_v4, TakeNumber, AddressInv
<1>2. \E n : /\ TakeNumber(c, n)
             /\ ~beside[c] => n \in {sa[c], -1} /\ (n = -1 /\ sa[c] \in Inet4 => sa[c] = Broadcast)
  <2>1. CASE Sock_pton(c)
    BY <1>1, <2>1, NumberOfText, SockaddrAssumption DEF Sock_pton
  <2>2. CASE Sock_pton_v4(c)
    <3> DEFINE m == sock_pton(<<sa[c]>>, "AF_INET")
    <3>1. m \in {sa[c], -1} /\ (sa[c] \in Inet4 => m = sa[c])
      BY NumberOfText DEF Family
    <3> HIDE DEF m
    <3>2. AsInt(m) \in {sa[c], -1} /\ (AsInt(m) = -1 /\ sa[c] \in Inet4 => sa[c] = Broadcast)
      BY <3>1, SockaddrAssumption DEF AsInt
    <3> QED BY <1>1, <2>2, <3>2 DEF Sock_pton_v4, m
  <2> QED BY <2>1, <2>2
<1> QED BY <1>1, <1>2 DEF TakeNumber, AddressInv

LEMMA EditKeeps ==
  ASSUME AddressInv, NEW c \in Callers, Edit(c)
  PROVE  AddressInv'
BY SockaddrAssumption DEF Edit, AddressInv

LEMMA AddressStepKeeps ==
  ASSUME AddressInv, [SockaddrNext]_sockaddrVars
  PROVE  AddressInv'
<1>1. CASE UNCHANGED sockaddrVars
  BY <1>1 DEF sockaddrVars, AddressInv
<1>2. CASE SockaddrNext
  <2>1. PICK c \in Callers :
          \/ \E a \in Inet4 \cup Inet6 \cup {OtherFamily} : sock_ntop(c, a, "copy")
          \/ \E a \in Inet4 : sock_ntop(c, a, "copy_v4")
          \/ Sock_ntop(c) \/ Sock_ntop_v4(c) \/ Edit(c) \/ Sock_pton(c) \/ Sock_pton_v4(c)
    BY <1>2 DEF SockaddrNext
  <2> QED BY <2>1, NtopKeeps, CopyKeeps, NumberKeeps, EditKeeps
<1> QED BY <1>1, <1>2

(* The text of a call of Sock_ntop that nobody was beside is that of its    *)
(* address, and Sock_pton gives the address for the text: no leftover of    *)
(* earlier calls in the static buffer comes into it (sockaddr.c:90-171).    *)
THEOREM TextsAreOfTheirAddresses == SockaddrSpec => []AddressesReadBack
<1>1. AddressInv => AddressesReadBack
  BY DEF AddressInv, AddressesReadBack, UnknownText
<1> QED BY <1>1, AddressStarts, AddressStepKeeps, PTL DEF SockaddrSpec

-----------------------------------------------------------------------------
(* Multicast: memberships, their sources and the options of a socket.       *)

MemberTypes == [mode : {"none", "INCLUDE", "EXCLUDE"}, sources : SUBSET Sources, listed : BOOLEAN]
AnswerTypes == [Sources -> {"yes", "no", "?"}]

(* The sources that a membership lets through.                              *)
Lets(m, src) ==
  \/ m.mode = "INCLUDE" /\ src \in m.sources
  \/ m.mode = "EXCLUDE" /\ src \notin m.sources

(* What has been answered about a membership fits it.  As long as no source *)
(* was named of one for all, all of them were answered to be heard: only    *)
(* then may its mode change.                                                *)
Fits(m, a) ==
  /\ m \in MemberTypes /\ a \in AnswerTypes
  /\ m.mode = "none" => m.sources = {}
  /\ m.mode = "INCLUDE" => m.listed
  /\ m.mode = "EXCLUDE" /\ ~m.listed => m.sources = {} /\ \A src \in Sources : a[src] = "yes"
  /\ \A src \in Sources :
       /\ a[src] = "yes" => Lets(m, src)
       /\ a[src] = "no" => ~Lets(m, src)

MembersInv ==
  /\ member \in [Memberships -> MemberTypes]
  /\ answered \in [Memberships -> AnswerTypes]
  /\ \A p \in Memberships : Fits(member[p], answered[p])

OptionsInv ==
  /\ lastSet.loop \in {0, 1} => loop = lastSet.loop
  /\ lastSet.ttl \in 0 .. 255 => ttl = lastSet.ttl
  /\ DOMAIN lastSet = {"loop", "ttl"}

LEMMA MulticastStarts == MulticastInit => MembersInv /\ OptionsInv
<1> SUFFICES ASSUME MulticastInit PROVE MembersInv /\ OptionsInv
  OBVIOUS
<1>1. NotIn \in MemberTypes
  BY DEF NotIn, MemberTypes
<1>2. [src \in Sources |-> "no"] \in AnswerTypes
  BY DEF AnswerTypes
<1>3. Fits(NotIn, [src \in Sources |-> "no"])
  BY <1>1, <1>2 DEF Fits, NotIn, Lets
<1> QED BY <1>1, <1>2, <1>3 DEF MulticastInit, MembersInv, OptionsInv

(* A step that changes one membership and what was answered of it.          *)
LEMMA MemberChanges ==
  ASSUME MembersInv, NEW p \in Memberships, NEW m, NEW a, Fits(m, a),
         member' = [member EXCEPT ![p] = m], answered' = [answered EXCEPT ![p] = a]
  PROVE  MembersInv'
BY DEF MembersInv, Fits

-----------------------------------------------------------------------------
(* What the kernel does fits what the wrappers answer.                      *)
Every(answer) == [src \in Sources |-> answer]

LEMMA NotInIs ==
  NotIn \in MemberTypes /\ NotIn.mode = "none" /\ NotIn.sources = {} /\ ~NotIn.listed
BY DEF NotIn, MemberTypes

LEMMA FitsJoined == Fits([NotIn EXCEPT !.mode = "EXCLUDE"], Every("yes"))
<1> DEFINE m == [NotIn EXCEPT !.mode = "EXCLUDE"]
<1>1. m \in MemberTypes /\ m.mode = "EXCLUDE" /\ m.sources = {} /\ ~m.listed
  BY NotInIs DEF MemberTypes
<1>2. Every("yes") \in AnswerTypes
  BY DEF AnswerTypes, Every
<1> HIDE DEF m
<1>3. Fits(m, Every("yes"))
  BY <1>1, <1>2 DEF Fits, Lets, Every
<1> QED BY <1>3 DEF m

LEMMA FitsNotIn == Fits(NotIn, Every("no"))
<1>1. NotIn \in MemberTypes /\ Every("no") \in AnswerTypes
  BY DEF NotIn, MemberTypes, AnswerTypes, Every
<1> QED BY <1>1 DEF Fits, Lets, Every, NotIn

(* The first source of a membership, or one more.                           *)
LEMMA FitsWithSource ==
  ASSUME NEW m, NEW a, Fits(m, a), NEW src \in Sources, src \notin m.sources,
         m.mode = "none" \/ AllowsMode(m, "INCLUDE")
  PROVE  Fits(With(m, "INCLUDE", src),
              [s \in Sources |-> IF s = src THEN "yes"
                                 ELSE IF \A other \in Sources : a[other] = "yes" THEN "?"
                                 ELSE a[s]])
<1> DEFINE n == With(m, "INCLUDE", src)
           b == [s \in Sources |-> IF s = src THEN "yes"
                                 ELSE IF \A other \in Sources : a[other] = "yes" THEN "?"
                                 ELSE a[s]]
<1>1. n.mode = "INCLUDE" /\ n.sources = m.sources \cup {src} /\ n.listed
  BY DEF With
<1>2. n \in MemberTypes
  BY DEF With, Fits, MemberTypes
<1>3. b \in AnswerTypes
  BY DEF Fits, AnswerTypes
<1>4. ASSUME NEW s \in Sources
      PROVE  (b[s] = "yes" => Lets(n, s)) /\ (b[s] = "no" => ~Lets(n, s))
  <2>1. CASE s = src
    BY <1>1, <2>1 DEF Lets
  <2>2. CASE s # src /\ \A other \in Sources : a[other] = "yes"
    BY <2>2
  <2>3. CASE s # src /\ ~\A other \in Sources : a[other] = "yes"
    <3>1. b[s] = a[s]
      BY <2>3
    <3>2. s \in n.sources <=> s \in m.sources
      BY <1>1, <2>3
    <3>3. m.mode = "INCLUDE" \/ m.mode = "none"
      BY <2>3 DEF AllowsMode, Fits, MemberTypes
    <3> QED BY <1>1, <3>1, <3>2, <3>3 DEF Fits, Lets
  <2> QED BY <2>1, <2>2, <2>3
<1> HIDE DEF n, b
<1>5. Fits(n, b)
  BY <1>1, <1>2, <1>3, <1>4 DEF Fits
<1> QED BY <1>5 DEF n, b

LEMMA FitsBlocked ==
  ASSUME NEW m, NEW a, Fits(m, a), NEW src \in Sources, AllowsMode(m, "EXCLUDE")
  PROVE  Fits(With(m, "EXCLUDE", src), [a EXCEPT ![src] = "no"])
<1> DEFINE n == With(m, "EXCLUDE", src)
           b == [a EXCEPT ![src] = "no"]
<1>1. n.mode = "EXCLUDE" /\ n.sources = m.sources \cup {src} /\ n.listed
  BY DEF With
<1>2. n \in MemberTypes
  BY DEF With, Fits, MemberTypes
<1>3. b \in AnswerTypes /\ b[src] = "no" /\ \A s \in Sources : s # src => b[s] = a[s]
  BY DEF Fits, AnswerTypes
<1>4. m.mode = "EXCLUDE"
  BY DEF AllowsMode, Fits, MemberTypes
<1> HIDE DEF n, b
<1>5. Fits(n, b)
  BY <1>1, <1>2, <1>3, <1>4 DEF Fits, Lets
<1> QED BY <1>5 DEF n, b

(* The list of a membership without one of its sources.                     *)
Without(m, src) == [m EXCEPT !.sources = @ \ {src}]

LEMMA FitsUnblocked ==
  ASSUME NEW m, NEW a, Fits(m, a), NEW src \in Sources, m.mode = "EXCLUDE", src \in m.sources
  PROVE  Fits(Without(m, src), [a EXCEPT ![src] = "yes"])
<1> DEFINE n == Without(m, src)
           b == [a EXCEPT ![src] = "yes"]
<1>1. n \in MemberTypes /\ n.mode = m.mode /\ n.sources = m.sources \ {src} /\ n.listed = m.listed
  BY DEF Without, Fits, MemberTypes
<1>2. b \in AnswerTypes /\ b[src] = "yes" /\ \A s \in Sources : s # src => b[s] = a[s]
  BY DEF Fits, AnswerTypes
<1> HIDE DEF n, b
<1>3. Fits(n, b)
  BY <1>1, <1>2 DEF Fits, Lets
<1> QED BY <1>3 DEF n, b

LEMMA FitsLeft ==
  ASSUME NEW m, NEW a, Fits(m, a), NEW src \in Sources, m.mode = "INCLUDE", src \in m.sources
  PROVE  Fits(IF m.sources = {src} THEN NotIn ELSE Without(m, src), [a EXCEPT ![src] = "no"])
<1> DEFINE n == Without(m, src)
           b == [a EXCEPT ![src] = "no"]
<1>1. n \in MemberTypes /\ n.mode = m.mode /\ n.sources = m.sources \ {src} /\ n.listed = m.listed
  BY DEF Without, Fits, MemberTypes
<1>2. b \in AnswerTypes /\ b[src] = "no" /\ \A s \in Sources : s # src => b[s] = a[s]
  BY DEF Fits, AnswerTypes
<1> HIDE DEF n, b
<1>3. Fits(n, b)
  BY <1>1, <1>2 DEF Fits, Lets
<1>4. ASSUME m.sources = {src} PROVE Fits(NotIn, b)
  <2>1. NotIn \in MemberTypes /\ NotIn.mode = "none" /\ NotIn.sources = {}
    BY DEF NotIn, MemberTypes
  <2> QED BY <1>2, <1>4, <2>1 DEF Fits, Lets
<1> QED BY <1>3, <1>4 DEF n, b

-----------------------------------------------------------------------------
(* The steps of the kernel with the answers that the wrappers give.         *)
LEMMA JoinKeeps ==
  ASSUME MembersInv, NEW p \in Memberships, AddMembership(p, "EXCLUDE"), TellAll(p, "yes")
  PROVE  MembersInv'
BY FitsJoined, MemberChanges DEF AddMembership, TellAll, Every

LEMMA LeaveKeeps ==
  ASSUME MembersInv, NEW p \in Memberships, DropMembership(p), TellAll(p, "no")
  PROVE  MembersInv'
BY FitsNotIn, MemberChanges DEF DropMembership, TellAll, Every

LEMMA JoinSourceKeeps ==
  ASSUME MembersInv, NEW p \in Memberships, NEW src \in Sources,
         AddSource(p, JoinedFor(p), "INCLUDE", src), TellJoined(p, src)
  PROVE  MembersInv'
<1> DEFINE m == JoinedFor(p)
           a == answered[p]
           b == [s \in Sources |-> IF s = src THEN "yes"
                                   ELSE IF \A other \in Sources : a[other] = "yes" THEN "?"
                                   ELSE a[s]]
<1>1. Fits(member[p], a)
  BY DEF MembersInv
<1>2. With(m, "INCLUDE", src) = With(member[p], "INCLUDE", src) /\ src \notin member[p].sources
      /\ (member[p].mode = "none" \/ AllowsMode(member[p], "INCLUDE"))
  <2>1. CASE Joined(p)
    BY <2>1 DEF JoinedFor, AddSource
  <2>2. CASE ~Joined(p)
    <3>1. member[p].mode = "none" /\ member[p].sources = {} /\ m.sources = {}
      BY <1>1, <2>2 DEF Joined, Fits, JoinedFor, NotIn
    <3> QED BY <3>1 DEF With
  <2> QED BY <2>1, <2>2
<1>3. Fits(With(member[p], "INCLUDE", src), b)
  BY <1>1, <1>2, FitsWithSource
<1>4. member' = [member EXCEPT ![p] = With(member[p], "INCLUDE", src)]
  BY <1>2 DEF AddSource
<1>5. answered' = [answered EXCEPT ![p] = b]
  BY DEF TellJoined
<1> HIDE DEF b
<1> QED BY <1>3, <1>4, <1>5, MemberChanges

LEMMA TellIsExcept ==
  ASSUME MembersInv, NEW p \in Memberships, NEW src, NEW answer, Tell(p, src, answer)
  PROVE  answered' = [answered EXCEPT ![p] = [answered[p] EXCEPT ![src] = answer]]
BY DEF Tell, MembersInv

LEMMA BlockKeeps ==
  ASSUME MembersInv, NEW p \in Memberships, NEW src \in Sources,
         AddSource(p, member[p], "EXCLUDE", src), Tell(p, src, "no")
  PROVE  MembersInv'
<1>1. Fits(With(member[p], "EXCLUDE", src), [answered[p] EXCEPT ![src] = "no"])
  BY FitsBlocked DEF MembersInv, AddSource
<1>2. member' = [member EXCEPT ![p] = With(member[p], "EXCLUDE", src)]
  BY DEF AddSource
<1>3. answered' = [answered EXCEPT ![p] = [answered[p] EXCEPT ![src] = "no"]]
  BY TellIsExcept
<1> QED BY <1>1, <1>2, <1>3, MemberChanges

LEMMA UnblockKeeps ==
  ASSUME MembersInv, NEW p \in Memberships, NEW src \in Sources,
         RemoveSource(p, "EXCLUDE", src), Tell(p, src, "yes")
  PROVE  MembersInv'
<1>1. Fits(Without(member[p], src), [answered[p] EXCEPT ![src] = "yes"])
  BY FitsUnblocked DEF MembersInv, RemoveSource
<1>2. member' = [member EXCEPT ![p] = Without(member[p], src)]
  BY DEF RemoveSource, Without
<1>3. answered' = [answered EXCEPT ![p] = [answered[p] EXCEPT ![src] = "yes"]]
  BY TellIsExcept
<1> QED BY <1>1, <1>2, <1>3, MemberChanges

LEMMA LeaveSourceKeeps ==
  ASSUME MembersInv, NEW p \in Memberships, NEW src \in Sources,
         RemoveSource(p, "INCLUDE", src), Tell(p, src, "no")
  PROVE  MembersInv'
<1> DEFINE n == IF member[p].sources = {src} THEN NotIn ELSE Without(member[p], src)
<1>1. Fits(n, [answered[p] EXCEPT ![src] = "no"])
  BY FitsLeft DEF MembersInv, RemoveSource
<1>2. member' = [member EXCEPT ![p] = n]
  BY DEF RemoveSource, Without
<1> HIDE DEF n
<1>3. answered' = [answered EXCEPT ![p] = [answered[p] EXCEPT ![src] = "no"]]
  BY TellIsExcept
<1> QED BY <1>1, <1>2, <1>3, MemberChanges

-----------------------------------------------------------------------------
(* Every call is one of those steps, on a membership the socket may have,   *)
(* or sets an option.                                                       *)
SourceStep(p, src) ==
  \/ AddSource(p, JoinedFor(p), "INCLUDE", src) /\ TellJoined(p, src)
  \/ AddSource(p, member[p], "EXCLUDE", src) /\ Tell(p, src, "no")
  \/ RemoveSource(p, "EXCLUDE", src) /\ Tell(p, src, "yes")
  \/ RemoveSource(p, "INCLUDE", src) /\ Tell(p, src, "no")

MemberStep(p) ==
  \/ AddMembership(p, "EXCLUDE") /\ TellAll(p, "yes")
  \/ DropMembership(p) /\ TellAll(p, "no")
  \/ \E src \in Sources : SourceStep(p, src)

LEMMA MemberStepKeeps ==
  ASSUME MembersInv, NEW p \in Memberships, MemberStep(p)
  PROVE  MembersInv'
BY JoinKeeps, LeaveKeeps, JoinSourceKeeps, BlockKeeps, UnblockKeeps, LeaveSourceKeeps
   DEF MemberStep, SourceStep

OptionStep ==
  \/ \E onoff : Mcast_set_loop(onoff) \/ mcast_set_loop(onoff)
  \/ \E val \in TtlArguments : Mcast_set_ttl(val) \/ mcast_set_ttl(val)
  \/ \E i : Mcast_set_if(i)
  \/ \E name, index : mcast_set_if(name, index)

LEMMA StepIsOne ==
  ASSUME MulticastNext
  PROVE  \/ /\ UNCHANGED socketOptions
            /\ \E p \in Memberships : MemberStep(p)
         \/ OptionStep /\ UNCHANGED <<member, answered>>
<1>1. ASSUME NEW g \in Groups, NEW name, NEW index,
             \/ Mcast_join(g, name, index)
             \/ \E src \in Sources : Mcast_join_source_group(src, g, name, index)
      PROVE  UNCHANGED socketOptions /\ \E p \in Memberships : MemberStep(p)
  <2> DEFINE i == RequestedInterface(name, index)
  <2>1. i \in Present /\ UNCHANGED socketOptions
    BY <1>1, MulticastAssumption DEF Mcast_join, Mcast_join_source_group, Usable
  <2> HIDE DEF i
  <2>2. <<g, i>> \in Memberships
    BY <2>1 DEF Memberships
  <2>3. MemberStep(<<g, i>>)
    BY <1>1 DEF Mcast_join, Mcast_join_source_group, MemberStep, SourceStep, i
  <2> QED BY <2>1, <2>2, <2>3
<1>2. ASSUME NEW g \in Groups,
             \/ Mcast_leave(g)
             \/ \E src \in Sources :
                  \/ Mcast_block_source(src, g) \/ Mcast_unblock_source(src, g)
                  \/ Mcast_leave_source_group(src, g)
      PROVE  UNCHANGED socketOptions /\ \E p \in Memberships : MemberStep(p)
  <2>1. <<g, DefaultInterface>> \in Memberships
    BY MulticastAssumption DEF Memberships
  <2>2. UNCHANGED socketOptions
    BY <1>2 DEF Mcast_leave, Mcast_block_source, Mcast_unblock_source, Mcast_leave_source_group
  <2>3. MemberStep(<<g, DefaultInterface>>)
    BY <1>2 DEF Mcast_leave, LeaveDefault, Mcast_block_source, Mcast_unblock_source,
                Mcast_leave_source_group, MemberStep, SourceStep
  <2> QED BY <2>1, <2>2, <2>3
<1>3. ASSUME NEW p \in (Groups \ Groups6) \X Addressed,
             \/ Mcast_add_member(p) \/ Mcast_drop_member(p)
             \/ \E src \in Sources :
                  \/ Mcast_block_source_mreq(p, src) \/ Mcast_unlbock_source(p, src)
                  \/ Mcast_add_source_member(p, src) \/ Mcast_drop_source_member(p, src)
      PROVE  UNCHANGED socketOptions /\ \E r \in Memberships : MemberStep(r)
  <2>1. p \in Memberships
    BY MulticastAssumption DEF Memberships
  <2>2. UNCHANGED socketOptions
    BY <1>3 DEF Mcast_add_member, Mcast_drop_member, Mcast_block_source_mreq, Mcast_unlbock_source,
                Mcast_add_source_member, Mcast_drop_source_member
  <2>3. MemberStep(p)
    BY <1>3 DEF Mcast_add_member, Mcast_drop_member, Mcast_block_source_mreq, Mcast_unlbock_source,
                Mcast_add_source_member, Mcast_drop_source_member, MemberStep, SourceStep
  <2> QED BY <2>1, <2>2, <2>3
<1>4. OptionStep => UNCHANGED <<member, answered>>
  BY DEF OptionStep, Mcast_set_loop, mcast_set_loop, Mcast_set_ttl, mcast_set_ttl, SetLoop, SetTtl,
         Mcast_set_if, mcast_set_if, Output
<1>5. \/ \E g \in Groups :
           \/ \E name, index : \/ Mcast_join(g, name, index)
                               \/ \E src \in Sources : Mcast_join_source_group(src, g, name, index)
           \/ Mcast_leave(g)
           \/ \E src \in Sources :
                \/ Mcast_block_source(src, g) \/ Mcast_unblock_source(src, g)
                \/ Mcast_leave_source_group(src, g)
      \/ \E p \in (Groups \ Groups6) \X Addressed :
           \/ Mcast_add_member(p) \/ Mcast_drop_member(p)
           \/ \E src \in Sources :
                \/ Mcast_block_source_mreq(p, src) \/ Mcast_unlbock_source(p, src)
                \/ Mcast_add_source_member(p, src) \/ Mcast_drop_source_member(p, src)
      \/ OptionStep
  BY Zenon DEF MulticastNext, OptionStep
<1> QED BY <1>1, <1>2, <1>3, <1>4, <1>5

(* The conversion to a char and back keeps the arguments in range.          *)
LEMMA OptionStepKeeps ==
  ASSUME OptionsInv, OptionStep
  PROVE  OptionsInv'
<1>1. ASSUME NEW onoff, Mcast_set_loop(onoff) \/ mcast_set_loop(onoff)
      PROVE  OptionsInv'
  <2>1. PICK flag : SetLoop(onoff, flag) /\ flag \in {onoff, UChar(onoff)}
    BY <1>1 DEF Mcast_set_loop, mcast_set_loop
  <2>2. onoff \in {0, 1} => flag = onoff
    BY <2>1 DEF UChar
  <2> QED BY <2>1, <2>2 DEF SetLoop, OptionsInv
<1>2. ASSUME NEW val \in TtlArguments, Mcast_set_ttl(val) \/ mcast_set_ttl(val)
      PROVE  OptionsInv'
  <2>1. PICK passed : SetTtl(val, passed) /\ passed \in {val, UChar(val)}
    BY <1>2 DEF Mcast_set_ttl, mcast_set_ttl
  <2>2. val \in 0 .. 255 => passed = val
    BY <2>1 DEF UChar
  <2> QED BY <2>1, <2>2 DEF SetTtl, OptionsInv
<1>3. ASSUME (\E i : Mcast_set_if(i)) \/ \E name, index : mcast_set_if(name, index)
      PROVE  OptionsInv'
  BY <1>3 DEF Mcast_set_if, mcast_set_if, Output, OptionsInv
<1> QED BY <1>1, <1>2, <1>3 DEF OptionStep

LEMMA MulticastStepKeeps ==
  MembersInv /\ OptionsInv /\ [MulticastNext]_multicastVars => MembersInv' /\ OptionsInv'
<1> SUFFICES ASSUME MembersInv, OptionsInv, [MulticastNext]_multicastVars PROVE MembersInv' /\ OptionsInv'
  OBVIOUS
<1>1. CASE UNCHANGED <<member, answered>> /\ OptionStep
  BY <1>1, OptionStepKeeps DEF MembersInv
<1>2. CASE UNCHANGED socketOptions /\ \E p \in Memberships : MemberStep(p)
  BY <1>2, MemberStepKeeps DEF socketOptions, OptionsInv
<1>3. CASE UNCHANGED multicastVars
  BY <1>3 DEF multicastVars, socketOptions, MembersInv, OptionsInv
<1> QED BY <1>1, <1>2, <1>3, StepIsOne

(* A source is heard as the answers say, and an option in range is read     *)
(* back as it was set.                                                      *)
THEOREM MulticastIsAsTold == MulticastSpec => []MulticastAsTold
<1>1. MembersInv => HearsAsTold
  <2> SUFFICES ASSUME MembersInv, NEW p \in Memberships, NEW src \in Sources
               PROVE  /\ answered[p][src] = "yes" => src \in Heard(p)
                      /\ answered[p][src] = "no" => src \notin Heard(p)
    BY DEF HearsAsTold
  <2>1. Fits(member[p], answered[p])
    BY DEF MembersInv
  <2>2. src \in Heard(p) <=> Lets(member[p], src)
    <3>1. member[p].mode \in {"none", "INCLUDE", "EXCLUDE"}
      BY <2>1 DEF Fits, MemberTypes
    <3>2. CASE member[p].mode = "none"
      BY <3>2 DEF Heard, Lets
    <3>3. CASE member[p].mode = "INCLUDE"
      BY <3>3 DEF Heard, Lets
    <3>4. CASE member[p].mode = "EXCLUDE"
      BY <3>4 DEF Heard, Lets
    <3> QED BY <3>1, <3>2, <3>3, <3>4
  <2> QED BY <2>1, <2>2 DEF Fits
<1>2. OptionsInv => OptionsReadBack
  BY DEF OptionsInv, OptionsReadBack, mcast_get_loop, mcast_get_ttl
<1> QED BY <1>1, <1>2, MulticastStarts, MulticastStepKeeps, PTL DEF MulticastSpec, MulticastAsTold

-----------------------------------------------------------------------------
(* EarlierNet: connections of the earlier library.                          *)

States == {"closed", "new", "trying", "up", "refused", "ended"}
Options == {"SO_RCVBUF", "SO_SNDBUF", "SO_LINGER", "SO_REUSEADDR"}

(* The places of a call that makes a socket, and of one that uses one.      *)
Making == {"size", "made", "connect", "blocked", "limit", "start", "select", "well", "ill",
           "connected", "failed", "abandon"}
Using == {"send", "wait", "receive", "back"}

Endpoints ==
  [state : States, blocking : BOOLEAN, options : SUBSET Options,
   request : Seq(Nat), answer : Seq(Nat)]

Givens ==
  [kind : {"datagram", "stream"}, options : SUBSET Options, blocking : BOOLEAN,
   count : Nat, due : Nat, failed : BOOLEAN]

Askers ==
  [at : {"out"} \cup Making \cup Using, op : UdpMaker \cup TcpMakers \cup {"none", "writen", "readn", "Recv"},
   fd : Sockfds \cup {NoSockfd}, nleft : Nat, ptr : Seq(Nat)]

EarlierTypes ==
  /\ endpoint \in [Sockfds -> Endpoints]
  /\ asker \in Askers
  /\ DOMAIN given \subseteq Sockfds /\ given \in [DOMAIN given -> Givens]

(* What is on the way in a socket, and what its reader has taken of it or   *)
(* its writer has still to send, is no more than what is due, and bears the *)
(* number of the last request.                                              *)
AllAre(n, bytes) == \A i \in 1 .. Len(bytes) : bytes[i] = n

InHand(d) ==
  IF asker.at \in Using /\ d = d0
    THEN Len(asker.ptr) + (IF asker.at = "send" THEN asker.nleft ELSE 0)
    ELSE 0

OnTheWay(d) ==
  /\ AllAre(given[d].count, endpoint[d].request)
  /\ AllAre(given[d].count, endpoint[d].answer)
  /\ Len(endpoint[d].request) + Len(endpoint[d].answer) + InHand(d) <= given[d].due

GivenFits(d) ==
  /\ given[d].kind = "stream" => Peer(d) \in {"up", "ended"}
  /\ Peer(d) # "closed"
  /\ endpoint[d].blocking = given[d].blocking
  /\ endpoint[d].options = given[d].options /\ "SO_LINGER" \notin given[d].options

(* The socket that a call is making.                                        *)
MadeFits ==
  asker.at \in Making =>
    /\ d0 \in Sockfds \ DOMAIN given
    /\ asker.op \in UdpMaker \cup TcpMakers
    /\ asker.ptr = << >> /\ endpoint[d0].request = << >> /\ endpoint[d0].answer = << >>
    /\ Peer(d0) # "closed"
    /\ asker.at = "size" => asker.nleft > 0
    /\ asker.at = "connected" => Peer(d0) \in {"up", "ended"}
    /\ asker.at = "well" => Peer(d0) \in {"up", "ended"}
    /\ asker.at \in {"size", "made", "connect", "blocked", "limit", "connected"} => endpoint[d0].blocking
    /\ asker.at \notin {"abandon"} =>
         endpoint[d0].options = IF asker.at # "size" /\ asker.nleft > 0 THEN {"SO_RCVBUF"} ELSE {}

UsedFits ==
  asker.at \in Using =>
    /\ d0 \in DOMAIN given /\ given[d0].kind = "stream"
    /\ AllAre(given[d0].count, asker.ptr)

EarlierInv ==
  /\ EarlierTypes
  /\ asker.at = "out" => asker = Resting
  /\ \A d \in DOMAIN given : GivenFits(d) /\ OnTheWay(d)
  /\ \A d \in Sockfds \ DOMAIN given : Peer(d) # "closed" =>
       (asker.at \in Making /\ d = d0) \/ d \in dropped
  /\ MadeFits
  /\ UsedFits

(* A step leaves the sockets of all descriptors but one.                    *)
Alone(x) ==
  /\ endpoint' \in [Sockfds -> Endpoints]
  /\ \A e \in Sockfds \ {x} : endpoint'[e] = endpoint[e]

LEMMA NewIs ==
  /\ New \in Endpoints /\ None \in Endpoints
  /\ New.state = "new" /\ New.blocking = TRUE /\ New.options = {}
  /\ New.request = << >> /\ New.answer = << >>
  /\ None.state = "closed" /\ None.blocking = TRUE /\ None.options = {}
  /\ None.request = << >> /\ None.answer = << >>
<1>1. << >> \in Seq(Nat)
  OBVIOUS
<1>2. None \in Endpoints
  BY <1>1 DEF None, Endpoints, States
<1>3. New \in Endpoints
  BY <1>2 DEF New, Endpoints, States
<1> QED BY <1>2, <1>3 DEF New, None

LEMMA RestingIs ==
  /\ Resting \in Askers
  /\ Resting.at = "out" /\ Resting.fd = NoSockfd /\ Resting.ptr = << >> /\ Resting.nleft = 0
<1>1. << >> \in Seq(Nat)
  OBVIOUS
<1> QED BY <1>1 DEF Resting, Askers

LEMMA EarlierStarts == EarlierInit => EarlierInv
<1> SUFFICES ASSUME EarlierInit PROVE EarlierInv
  OBVIOUS
<1>1. given = << >> /\ DOMAIN given = {}
  BY DEF EarlierInit
<1>2. given \in [DOMAIN given -> Givens]
  BY <1>1
<1>3. EarlierTypes
  BY <1>1, <1>2, NewIs, RestingIs DEF EarlierInit, EarlierTypes
<1>4. asker.at = "out" /\ asker = Resting /\ asker.at \notin Making \cup Using
  BY RestingIs DEF EarlierInit, Making, Using
<1>5. \A d \in Sockfds : Peer(d) = "closed"
  BY NewIs DEF EarlierInit, Peer
<1> QED BY <1>1, <1>3, <1>4, <1>5 DEF EarlierInv, MadeFits, UsedFits

-----------------------------------------------------------------------------
(* Changes of one socket.                                                   *)
LEMMA Replaced ==
  ASSUME EarlierTypes, NEW x \in Sockfds, NEW r \in Endpoints, endpoint' = [endpoint EXCEPT ![x] = r]
  PROVE  Alone(x) /\ endpoint'[x] = r
BY DEF EarlierTypes, Alone

LEMMA StateChanges ==
  ASSUME EarlierTypes, NEW x \in Sockfds, NEW t \in States,
         endpoint' = [endpoint EXCEPT ![x].state = t]
  PROVE  /\ Alone(x) /\ endpoint'[x].state = t
         /\ endpoint'[x].blocking = endpoint[x].blocking /\ endpoint'[x].options = endpoint[x].options
         /\ endpoint'[x].request = endpoint[x].request /\ endpoint'[x].answer = endpoint[x].answer
<1> DEFINE p == endpoint[x]
           r == [p EXCEPT !.state = t]
<1>1. p \in Endpoints
  BY DEF EarlierTypes
<1>2. endpoint' = [endpoint EXCEPT ![x] = r]
  OBVIOUS
<1> HIDE DEF p
<1>3. /\ r \in Endpoints /\ r.state = t /\ r.blocking = p.blocking /\ r.options = p.options
      /\ r.request = p.request /\ r.answer = p.answer
  BY <1>1 DEF Endpoints
<1> HIDE DEF r
<1> QED BY <1>2, <1>3, Replaced DEF p

LEMMA ModeChanges ==
  ASSUME EarlierTypes, NEW x \in Sockfds, NEW b \in BOOLEAN,
         endpoint' = [endpoint EXCEPT ![x].blocking = b]
  PROVE  /\ Alone(x) /\ endpoint'[x].blocking = b
         /\ endpoint'[x].state = endpoint[x].state /\ endpoint'[x].options = endpoint[x].options
         /\ endpoint'[x].request = endpoint[x].request /\ endpoint'[x].answer = endpoint[x].answer
<1> DEFINE p == endpoint[x]
           r == [p EXCEPT !.blocking = b]
<1>1. p \in Endpoints
  BY DEF EarlierTypes
<1>2. endpoint' = [endpoint EXCEPT ![x] = r]
  OBVIOUS
<1> HIDE DEF p
<1>3. /\ r \in Endpoints /\ r.blocking = b /\ r.state = p.state /\ r.options = p.options
      /\ r.request = p.request /\ r.answer = p.answer
  BY <1>1 DEF Endpoints
<1> HIDE DEF r
<1> QED BY <1>2, <1>3, Replaced DEF p

LEMMA OptionsChange ==
  ASSUME EarlierTypes, NEW x \in Sockfds, NEW optname \in Options, SetOptionOn(x, optname)
  PROVE  /\ Alone(x) /\ endpoint'[x].options = endpoint[x].options \cup {optname}
         /\ endpoint'[x].state = endpoint[x].state /\ endpoint'[x].blocking = endpoint[x].blocking
         /\ endpoint'[x].request = endpoint[x].request /\ endpoint'[x].answer = endpoint[x].answer
<1> DEFINE p == endpoint[x]
           o == p.options \cup {optname}
           r == [p EXCEPT !.options = o]
<1>1. p \in Endpoints
  BY DEF EarlierTypes
<1>2. endpoint' = [endpoint EXCEPT ![x] = r]
  BY DEF SetOptionOn
<1> HIDE DEF p
<1>3. o \in SUBSET Options
  BY <1>1 DEF Endpoints
<1> HIDE DEF o
<1>4. /\ r \in Endpoints /\ r.options = o /\ r.state = p.state /\ r.blocking = p.blocking
      /\ r.request = p.request /\ r.answer = p.answer
  BY <1>1, <1>3 DEF Endpoints
<1> HIDE DEF r
<1> QED BY <1>2, <1>4, Replaced DEF p, o

LEMMA BytesChange ==
  ASSUME EarlierTypes, NEW x \in Sockfds, NEW q \in Seq(Nat), NEW a \in Seq(Nat),
         \/ endpoint' = [endpoint EXCEPT ![x].request = q, ![x].answer = a]
         \/ endpoint' = [endpoint EXCEPT ![x].request = q] /\ a = endpoint[x].answer
         \/ endpoint' = [endpoint EXCEPT ![x].answer = a] /\ q = endpoint[x].request
  PROVE  /\ Alone(x) /\ endpoint'[x].request = q /\ endpoint'[x].answer = a
         /\ endpoint'[x].state = endpoint[x].state /\ endpoint'[x].blocking = endpoint[x].blocking
         /\ endpoint'[x].options = endpoint[x].options
<1> DEFINE p == endpoint[x]
<1>1. p \in Endpoints
  BY DEF EarlierTypes
<1>2. ASSUME NEW r, endpoint' = [endpoint EXCEPT ![x] = r],
             \/ r = [p EXCEPT !.request = q, !.answer = a]
             \/ r = [p EXCEPT !.request = q] /\ a = p.answer
             \/ r = [p EXCEPT !.answer = a] /\ q = p.request
      PROVE  /\ Alone(x) /\ endpoint'[x].request = q /\ endpoint'[x].answer = a
             /\ endpoint'[x].state = p.state /\ endpoint'[x].blocking = p.blocking
             /\ endpoint'[x].options = p.options
  <2> HIDE DEF p
  <2>1. CASE r = [p EXCEPT !.request = q, !.answer = a]
    <3>1. r \in Endpoints /\ r.options = p.options /\ r.state = p.state /\ r.blocking = p.blocking
          /\ r.request = q /\ r.answer = a
      BY <1>1, <2>1 DEF Endpoints
    <3> QED BY <1>2, <3>1, Replaced
  <2>2. CASE r = [p EXCEPT !.request = q] /\ a = p.answer
    <3>1. r \in Endpoints /\ r.options = p.options /\ r.state = p.state /\ r.blocking = p.blocking
          /\ r.request = q /\ r.answer = a
      BY <1>1, <2>2 DEF Endpoints
    <3> QED BY <1>2, <3>1, Replaced
  <2>3. CASE r = [p EXCEPT !.answer = a] /\ q = p.request
    <3>1. r \in Endpoints /\ r.options = p.options /\ r.state = p.state /\ r.blocking = p.blocking
          /\ r.request = q /\ r.answer = a
      BY <1>1, <2>3 DEF Endpoints
    <3> QED BY <1>2, <3>1, Replaced
  <2> QED BY <1>2, <2>1, <2>2, <2>3
<1>3. CASE endpoint' = [endpoint EXCEPT ![x].request = q, ![x].answer = a]
  <2>1. endpoint' = [endpoint EXCEPT ![x] = [p EXCEPT !.request = q, !.answer = a]]
    BY <1>3 DEF EarlierTypes
  <2> QED BY <1>2, <2>1
<1>4. CASE endpoint' = [endpoint EXCEPT ![x].request = q] /\ a = endpoint[x].answer
  <2>1. endpoint' = [endpoint EXCEPT ![x] = [p EXCEPT !.request = q]]
    BY <1>4
  <2> QED BY <1>2, <1>4, <2>1
<1>5. CASE endpoint' = [endpoint EXCEPT ![x].answer = a] /\ q = endpoint[x].request
  <2>1. endpoint' = [endpoint EXCEPT ![x] = [p EXCEPT !.answer = a]]
    BY <1>5
  <2> QED BY <1>2, <1>5, <2>1
<1> QED BY <1>3, <1>4, <1>5

(* Bytes that bear one number, together, in part and new ones.              *)
LEMMA BytesTogether ==
  ASSUME NEW n, NEW s \in Seq(Nat), NEW t \in Seq(Nat), AllAre(n, s), AllAre(n, t)
  PROVE  s \o t \in Seq(Nat) /\ Len(s \o t) = Len(s) + Len(t) /\ AllAre(n, s \o t)
<1>1. /\ s \o t \in Seq(Nat) /\ Len(s \o t) = Len(s) + Len(t)
      /\ \A i \in 1 .. Len(s) + Len(t) : (s \o t)[i] = IF i <= Len(s) THEN s[i] ELSE t[i - Len(s)]
  BY ConcatProperties
<1>2. ASSUME NEW i \in 1 .. Len(s \o t) PROVE (s \o t)[i] = n
  <2>1. i \in 1 .. Len(s) + Len(t) /\ i \in Nat /\ Len(s) \in Nat
    BY <1>1, <1>2
  <2>2. CASE i <= Len(s)
    <3>1. i \in 1 .. Len(s) /\ (s \o t)[i] = s[i]
      BY <1>1, <2>1, <2>2
    <3> QED BY <3>1 DEF AllAre
  <2>3. CASE ~(i <= Len(s))
    <3>1. i - Len(s) \in 1 .. Len(t)
      BY <2>1, <2>3
    <3> QED BY <1>1, <2>1, <2>3, <3>1 DEF AllAre
  <2> QED BY <2>2, <2>3
<1> QED BY <1>1, <1>2 DEF AllAre

LEMMA BytesInParts ==
  ASSUME NEW n, NEW s \in Seq(Nat), NEW k \in 0 .. Len(s), AllAre(n, s)
  PROVE  /\ SubSeq(s, 1, k) \in Seq(Nat) /\ Len(SubSeq(s, 1, k)) = k /\ AllAre(n, SubSeq(s, 1, k))
         /\ SubSeq(s, k + 1, Len(s)) \in Seq(Nat) /\ Len(SubSeq(s, k + 1, Len(s))) = Len(s) - k
         /\ AllAre(n, SubSeq(s, k + 1, Len(s)))
<1> DEFINE u == SubSeq(s, 1, k)
           r == SubSeq(s, k + 1, Len(s))
<1>1. u \in Seq(Nat) /\ Len(u) = k /\ \A i \in 1 .. k : u[i] = s[i]
  OBVIOUS
<1>2. r \in Seq(Nat) /\ Len(r) = Len(s) - k /\ \A i \in 1 .. Len(r) : r[i] = s[k + i]
  <2>1. Len(r) = Len(s) - k
    OBVIOUS
  <2>2. r \in Seq(Nat)
    OBVIOUS
  <2>3. \A i \in 1 .. Len(s) - k : r[i] = s[k + i]
    OBVIOUS
  <2> QED BY <2>1, <2>2, <2>3
<1> HIDE DEF u, r
<1>3. AllAre(n, u) /\ AllAre(n, r)
  <2>1. k \in Nat /\ Len(s) \in Nat /\ k <= Len(s)
    OBVIOUS
  <2>2. \A i \in 1 .. k : i \in 1 .. Len(s)
    BY <2>1
  <2>3. \A i \in 1 .. Len(r) : k + i \in 1 .. Len(s)
    BY <1>2, <2>1
  <2>4. \A i \in 1 .. Len(s) : s[i] = n
    BY DEF AllAre
  <2> QED BY <1>1, <1>2, <2>2, <2>3, <2>4 DEF AllAre
<1> QED BY <1>1, <1>2, <1>3 DEF u, r

LEMMA BytesNew ==
  ASSUME NEW n \in Nat, NEW k \in Nat, NEW s, s = [i \in 1 .. k |-> n]
  PROVE  s \in Seq(Nat) /\ Len(s) = k /\ AllAre(n, s)
BY DEF AllAre

LEMMA BytesOf ==
  ASSUME NEW d \in DOMAIN given, EarlierInv
  PROVE  /\ d \in Sockfds /\ endpoint[d] \in Endpoints /\ given[d] \in Givens
         /\ endpoint[d].request \in Seq(Nat) /\ endpoint[d].answer \in Seq(Nat)
         /\ Len(endpoint[d].request) \in Nat /\ Len(endpoint[d].answer) \in Nat
         /\ given[d].count \in Nat /\ given[d].due \in Nat
         /\ GivenFits(d) /\ OnTheWay(d)
<1>1. d \in Sockfds /\ endpoint[d] \in Endpoints /\ given[d] \in Givens
  BY DEF EarlierInv, EarlierTypes
<1>2. endpoint[d].request \in Seq(Nat) /\ endpoint[d].answer \in Seq(Nat)
  BY <1>1 DEF Endpoints
<1>3. Len(endpoint[d].request) \in Nat /\ Len(endpoint[d].answer) \in Nat
  BY <1>2
<1>4. given[d].count \in Nat /\ given[d].due \in Nat
  BY <1>1 DEF Givens
<1> QED BY <1>1, <1>2, <1>3, <1>4 DEF EarlierInv

LEMMA HandIs ==
  ASSUME EarlierInv
  PROVE  asker \in Askers /\ asker.ptr \in Seq(Nat) /\ Len(asker.ptr) \in Nat /\ asker.nleft \in Nat
<1>1. asker \in Askers
  BY DEF EarlierInv, EarlierTypes
<1>2. asker.ptr \in Seq(Nat) /\ asker.nleft \in Nat
  BY <1>1 DEF Askers
<1> QED BY <1>1, <1>2

-----------------------------------------------------------------------------
(* The call that makes a socket goes on, or ends without one.               *)
LEMMA MakingKeeps ==
  ASSUME EarlierInv, UNCHANGED given, NEW x \in Sockfds \ DOMAIN given, Alone(x), asker' \in Askers,
         asker.at = "out" \/ (asker.at \in Making /\ x = d0),
         \/ asker' = Resting /\ (endpoint'[x].state = "closed" \/ x \in dropped')
         \/ asker'.at \in Making /\ asker'.fd = x /\ MadeFits',
         dropped \subseteq dropped'
  PROVE  EarlierInv'
<1>1. asker.at \notin Using /\ asker'.at \notin Using /\ (asker'.at = "out" => asker' = Resting)
  BY RestingIs DEF Making, Using
<1>2. EarlierTypes'
  BY DEF EarlierInv, EarlierTypes, Alone
<1>3. ASSUME NEW d \in DOMAIN given PROVE GivenFits(d)' /\ OnTheWay(d)'
  <2>1. endpoint'[d] = endpoint[d] /\ GivenFits(d) /\ OnTheWay(d)
    BY DEF EarlierInv, EarlierTypes, Alone
  <2>2. InHand(d) = 0 /\ InHand(d)' = 0
    BY <1>1 DEF InHand
  <2>3. GivenFits(d)'
    BY <2>1 DEF GivenFits, Peer
  <2>4. OnTheWay(d)'
    BY <2>1, <2>2 DEF OnTheWay, AllAre
  <2> QED BY <2>3, <2>4
<1>4. ASSUME NEW d \in Sockfds \ DOMAIN given', Peer(d)' # "closed"
      PROVE  (asker'.at \in Making /\ d = d0') \/ d \in dropped'
  <2>1. CASE d = x
    BY <1>4, <2>1 DEF Peer, d0
  <2>2. CASE d # x
    BY <1>4, <2>2 DEF EarlierInv, Alone, Peer, Making
  <2> QED BY <2>1, <2>2
<1>5. MadeFits' /\ UsedFits'
  BY <1>1, RestingIs DEF MadeFits, UsedFits, Making
<1> QED BY <1>1, <1>2, <1>3, <1>4, <1>5 DEF EarlierInv

(* A step of the client on a descriptor it was given.                       *)
LEMMA GivenKeeps ==
  ASSUME EarlierInv, NEW x \in DOMAIN given, Alone(x), asker' \in Askers, UNCHANGED dropped,
         given' \in [DOMAIN given -> Givens],
         \A e \in DOMAIN given \ {x} : given'[e] = given[e],
         asker.at = "out" \/ (asker.at \in Using /\ x = d0),
         \/ asker' = Resting
         \/ /\ asker'.at \in Using /\ asker'.fd = x /\ given'[x].kind = "stream"
            /\ AllAre(given'[x].count, asker'.ptr),
         GivenFits(x)', OnTheWay(x)'
  PROVE  EarlierInv'
<1>1. asker.at \notin Making /\ asker'.at \notin Making /\ (asker'.at = "out" => asker' = Resting)
  BY RestingIs DEF Making, Using
<1>2. DOMAIN given' = DOMAIN given
  OBVIOUS
<1>3. EarlierTypes'
  BY <1>2 DEF EarlierInv, EarlierTypes, Alone
<1>4. ASSUME NEW d \in DOMAIN given, d # x PROVE GivenFits(d)' /\ OnTheWay(d)'
  <2>1. endpoint'[d] = endpoint[d] /\ given'[d] = given[d] /\ GivenFits(d) /\ OnTheWay(d)
    BY <1>4 DEF EarlierInv, EarlierTypes, Alone
  <2>2. InHand(d) = 0 /\ InHand(d)' = 0
    BY <1>4, RestingIs DEF InHand, d0, Using
  <2> QED BY <2>1, <2>2 DEF GivenFits, OnTheWay, Peer, AllAre
<1>5. ASSUME NEW d \in Sockfds \ DOMAIN given', Peer(d)' # "closed"
      PROVE  d \in dropped'
  BY <1>1, <1>2, <1>5 DEF EarlierInv, Alone, Peer
<1>6. MadeFits' /\ UsedFits'
  BY <1>1, <1>2, RestingIs DEF MadeFits, UsedFits, d0, Using
<1> QED BY <1>1, <1>2, <1>3, <1>4, <1>5, <1>6 DEF EarlierInv

(* A step of the system or the server on a socket that stays open or closed. *)
LEMMA PeerKeeps ==
  ASSUME EarlierInv, NEW x \in Sockfds, Alone(x), UNCHANGED <<asker, given, dropped>>,
         Peer(x)' # "closed" => Peer(x) # "closed",
         x \in DOMAIN given => GivenFits(x)' /\ OnTheWay(x)', MadeFits'
  PROVE  EarlierInv'
<1>1. EarlierTypes'
  BY DEF EarlierInv, EarlierTypes, Alone
<1>2. ASSUME NEW d \in DOMAIN given, d # x PROVE GivenFits(d)' /\ OnTheWay(d)'
  <2>1. endpoint'[d] = endpoint[d] /\ GivenFits(d) /\ OnTheWay(d)
    BY <1>2 DEF EarlierInv, EarlierTypes, Alone
  <2> QED BY <2>1 DEF GivenFits, OnTheWay, Peer, AllAre, InHand, d0
<1>3. ASSUME NEW d \in Sockfds \ DOMAIN given', Peer(d)' # "closed"
      PROVE  (asker'.at \in Making /\ d = d0') \/ d \in dropped'
  BY <1>3 DEF EarlierInv, Alone, Peer, d0
<1>4. UsedFits'
  BY DEF EarlierInv, UsedFits, d0, AllAre
<1> QED BY <1>1, <1>2, <1>3, <1>4 DEF EarlierInv

-----------------------------------------------------------------------------
(* What holds of the socket a call is making.                               *)
LEMMA MadeIs ==
  ASSUME EarlierInv, asker.at \in Making
  PROVE  /\ d0 \in Sockfds \ DOMAIN given /\ d0 = asker.fd
         /\ asker \in Askers /\ EarlierTypes /\ MadeFits
         /\ endpoint[d0].options \subseteq Options
BY DEF EarlierInv, EarlierTypes, MadeFits, d0, Endpoints

(* A place of the call, with the rest of it as it was.                      *)
LEMMA ProceedIs ==
  ASSUME asker \in Askers, NEW where \in {"out"} \cup Making \cup Using, Proceed(where)
  PROVE  /\ asker' \in Askers /\ asker'.at = where /\ asker'.fd = asker.fd /\ asker'.op = asker.op
         /\ asker'.nleft = asker.nleft /\ asker'.ptr = asker.ptr
BY DEF Askers, Proceed

LEMMA OntoIs ==
  ASSUME NEW op \in UdpMaker \cup TcpMakers
  PROVE  Onto(op) \in {"made", "connect", "limit"}
BY DEF Onto, UdpMaker, TcpMakers

LEMMA SocketKeeps ==
  ASSUME EarlierInv, NEW op \in UdpMaker \cup TcpMakers, NEW bufsize \in {0, 1}, Socket(op, bufsize)
  PROVE  EarlierInv'
<1> DEFINE at == IF bufsize > 0 THEN "size" ELSE Onto(op)
<1>1. PICK d \in Sockfds :
        /\ Peer(d) = "closed" /\ endpoint' = [endpoint EXCEPT ![d] = New]
        /\ asker' = [Resting EXCEPT !.at = at, !.op = op, !.fd = d, !.nleft = bufsize]
  BY DEF Socket
<1>2. asker.at = "out" /\ UNCHANGED <<given, dropped>>
  BY DEF Socket, Stands
<1>3. d \notin DOMAIN given
  BY <1>1 DEF EarlierInv, GivenFits
<1>4. Alone(d) /\ endpoint'[d] = New
  BY <1>1, NewIs, Replaced DEF EarlierInv
<1>5. at \in {"size", "made", "connect", "limit"} /\ (at = "size" <=> bufsize > 0)
  BY OntoIs
<1> HIDE DEF at
<1>6. /\ asker'.at = at /\ asker'.op = op /\ asker'.fd = d /\ asker'.nleft = bufsize
      /\ asker'.ptr = << >>
  BY <1>1, RestingIs DEF Askers
<1>7. asker' \in Askers
  <2>1. at \in {"out"} \cup Making \cup Using /\ bufsize \in Nat
    BY <1>5 DEF Making
  <2>2. Resting \in Askers
    BY RestingIs
  <2>3. op \in UdpMaker \cup TcpMakers \cup {"none", "writen", "readn", "Recv"}
    OBVIOUS
  <2> QED BY <1>1, <2>1, <2>2, <2>3 DEF Askers
<1>8. at \in Making
  BY <1>5 DEF Making
<1>9. MadeFits'
  BY <1>2, <1>3, <1>4, <1>5, <1>6, <1>7, NewIs DEF MadeFits, d0, Peer
<1> QED BY <1>2, <1>3, <1>4, <1>6, <1>7, <1>8, <1>9, MakingKeeps

LEMMA BufferKeeps ==
  ASSUME EarlierInv, BufferSet \/ BufferRefused
  PROVE  EarlierInv'
<1>1. asker.at = "size" /\ asker.at \in Making /\ UNCHANGED given
  BY DEF BufferSet, BufferRefused, Stands, Making
<1>2. CASE BufferSet
  <2>1. Onto(asker.op) \in {"made", "connect", "limit"}
    BY <1>1, OntoIs DEF EarlierInv, MadeFits
  <2>2. Onto(asker.op) \in Making
    BY <2>1 DEF Making
  <2>3. Proceed(Onto(asker.op)) /\ SetOptionOn(d0, "SO_RCVBUF") /\ UNCHANGED <<given, dropped>>
    BY <1>2 DEF BufferSet, Sockopt_set_recvBuf
  <2>4. /\ Alone(d0) /\ endpoint'[d0].options = endpoint[d0].options \cup {"SO_RCVBUF"}
        /\ endpoint'[d0].state = endpoint[d0].state /\ endpoint'[d0].blocking = endpoint[d0].blocking
        /\ endpoint'[d0].request = endpoint[d0].request /\ endpoint'[d0].answer = endpoint[d0].answer
    BY <1>1, <2>3, MadeIs, OptionsChange DEF Options
  <2>5. /\ asker' \in Askers /\ asker'.at = Onto(asker.op) /\ asker'.fd = asker.fd
        /\ asker'.op = asker.op /\ asker'.nleft = asker.nleft /\ asker'.ptr = asker.ptr
    BY <1>1, <2>2, <2>3, MadeIs, ProceedIs
  <2>6. asker.nleft > 0
    BY <1>1, MadeIs DEF MadeFits
  <2>7. MadeFits'
    BY <1>1, <2>1, <2>3, <2>4, <2>5, <2>6, MadeIs DEF MadeFits, d0, Peer
  <2> QED BY <1>1, <2>2, <2>3, <2>4, <2>5, <2>7, MadeIs, MakingKeeps
<1>3. CASE BufferRefused
  <2>1. asker' = Resting /\ dropped \subseteq dropped'
    BY <1>3 DEF BufferRefused, Answered, LeaveOpen, CloseAgain
  <2>2. Alone(d0) /\ (endpoint'[d0].state = "closed" \/ d0 \in dropped')
    <3>1. CASE LeaveOpen
      BY <1>1, <3>1, MadeIs DEF LeaveOpen, Alone, EarlierTypes
    <3>2. CASE CloseAgain
      BY <1>1, <3>2, MadeIs, NewIs, Replaced DEF CloseAgain, Close
    <3> QED BY <1>3, <3>1, <3>2 DEF BufferRefused
  <2> QED BY <1>1, <2>1, <2>2, MadeIs, RestingIs, MakingKeeps
<1> QED BY <1>2, <1>3

(* The call goes on to another place, with its socket in the state and mode *)
(* that belong there.                                                       *)
LEMMA PlaceKeeps ==
  ASSUME EarlierInv, asker.at \in Making, UNCHANGED <<given, dropped>>,
         NEW place \in Making \ {"size"}, Proceed(place),
         asker.at \notin {"size", "abandon"} \/ place = "abandon",
         Alone(d0), endpoint'[d0].state # "closed",
         endpoint'[d0].request = endpoint[d0].request, endpoint'[d0].answer = endpoint[d0].answer,
         place # "abandon" => endpoint'[d0].options = endpoint[d0].options,
         place \in {"connected", "well"} => endpoint'[d0].state \in {"up", "ended"},
         place \in {"made", "connect", "blocked", "limit", "connected"} => endpoint'[d0].blocking
  PROVE  EarlierInv'
<1>1. /\ asker' \in Askers /\ asker'.at = place /\ asker'.fd = asker.fd /\ asker'.op = asker.op
      /\ asker'.nleft = asker.nleft /\ asker'.ptr = asker.ptr
  BY MadeIs, ProceedIs
<1>2. MadeFits'
  BY <1>1, MadeIs DEF MadeFits, d0, Peer
<1> QED BY <1>1, <1>2, MadeIs, MakingKeeps

LEMMA ConnectKeeps ==
  ASSUME EarlierInv, ConnectBlocking \/ Unblocked \/ Limited \/ ConnectStarts \/ SelectEnds
  PROVE  EarlierInv'
<1>1. /\ asker.at \in {"connect", "blocked", "limit", "start", "select"} /\ asker.at \in Making
      /\ UNCHANGED <<given, dropped>>
  BY DEF ConnectBlocking, Unblocked, Limited, ConnectStarts, SelectEnds, Stands, Making
<1>2. MadeFits /\ EarlierTypes /\ d0 \in Sockfds /\ Peer(d0) # "closed" /\ endpoint[d0].state # "closed"
  BY <1>1, MadeIs DEF MadeFits, Peer
<1>3. UNCHANGED endpoint => Alone(d0)
  BY <1>2 DEF Alone, EarlierTypes
<1>4. CASE ConnectBlocking
  <2>1. /\ asker.at = "connect" /\ Proceed("blocked")
        /\ endpoint' = [endpoint EXCEPT ![d0].state = "trying"]
    BY <1>4 DEF ConnectBlocking, Stands
  <2>2. endpoint[d0].blocking
    BY <1>1, <1>2, <2>1 DEF MadeFits
  <2>3. /\ Alone(d0) /\ endpoint'[d0].state = "trying"
        /\ endpoint'[d0].blocking = endpoint[d0].blocking
        /\ endpoint'[d0].options = endpoint[d0].options
        /\ endpoint'[d0].request = endpoint[d0].request /\ endpoint'[d0].answer = endpoint[d0].answer
    BY <1>2, <2>1, StateChanges DEF States
  <2>4. endpoint'[d0].blocking
    BY <2>2, <2>3
  <2> QED BY <1>1, <2>1, <2>3, <2>4, PlaceKeeps DEF Making
<1>5. CASE Unblocked
  <2>1. /\ asker.at = "blocked" /\ UNCHANGED endpoint
        /\ \/ Peer(d0) = "up" /\ Proceed("connected")
           \/ Proceed("failed")
    BY <1>5 DEF Unblocked, Stands
  <2>2. endpoint[d0].blocking
    BY <1>1, <1>2, <2>1 DEF MadeFits
  <2> QED BY <1>1, <1>2, <1>3, <2>1, <2>2, PlaceKeeps DEF Making, Peer
<1>6. CASE Limited
  <2>1. /\ asker.at = "limit" /\ Proceed("start")
        /\ endpoint' = [endpoint EXCEPT ![d0].blocking = FALSE]
    BY <1>6 DEF Limited, Stands, Sock_noBlock
  <2> QED BY <1>1, <1>2, <2>1, ModeChanges, PlaceKeeps DEF Making
<1>7. CASE ConnectStarts
  <2>1. /\ asker.at = "start"
        /\ \/ /\ endpoint' = [endpoint EXCEPT ![d0].state = "trying"] /\ Proceed("select")
           \/ /\ endpoint' = [endpoint EXCEPT ![d0].state = "up"] /\ Proceed("well")
           \/ UNCHANGED endpoint /\ Proceed("ill")
    BY <1>7 DEF ConnectStarts, Stands
  <2>2. CASE endpoint' = [endpoint EXCEPT ![d0].state = "trying"] /\ Proceed("select")
    BY <1>1, <1>2, <2>1, <2>2, StateChanges, PlaceKeeps DEF States, Making
  <2>3. CASE endpoint' = [endpoint EXCEPT ![d0].state = "up"] /\ Proceed("well")
    BY <1>1, <1>2, <2>1, <2>3, StateChanges, PlaceKeeps DEF States, Making
  <2>4. CASE UNCHANGED endpoint /\ Proceed("ill")
    BY <1>1, <1>2, <1>3, <2>1, <2>4, PlaceKeeps DEF Making
  <2> QED BY <2>1, <2>2, <2>3, <2>4
<1>8. CASE SelectEnds
  <2>1. /\ asker.at = "select" /\ UNCHANGED endpoint
        /\ \/ Peer(d0) = "up" /\ Proceed("well")
           \/ Proceed("ill")
    BY <1>8 DEF SelectEnds, Stands
  <2> QED BY <1>1, <1>2, <1>3, <2>1, PlaceKeeps DEF Making, Peer
<1> QED BY <1>4, <1>5, <1>6, <1>7, <1>8

LEMMA ConnectEndsKeeps ==
  ASSUME EarlierInv, connectWithTimeout \/ ConnectFails \/ Abandon
  PROVE  EarlierInv'
<1>1. /\ asker.at \in {"well", "ill", "failed", "abandon"} /\ asker.at \in Making
      /\ UNCHANGED <<given, dropped>>
  BY DEF connectWithTimeout, ConnectFails, Abandon, Stands, Making
<1>2. MadeFits /\ EarlierTypes /\ d0 \in Sockfds /\ Peer(d0) # "closed" /\ endpoint[d0].state # "closed"
  BY <1>1, MadeIs DEF MadeFits, Peer
<1>3. CASE connectWithTimeout
  <2>1. /\ endpoint' = [endpoint EXCEPT ![d0].blocking = TRUE]
        /\ \/ asker.at = "well" /\ Proceed("connected")
           \/ asker.at = "ill" /\ Proceed("failed")
    BY <1>3 DEF connectWithTimeout, Stands, BlocksAgain, Sock_block
  <2>2. asker.at = "well" => endpoint[d0].state \in {"up", "ended"}
    BY <1>1, <1>2 DEF MadeFits, Peer
  <2>3. /\ Alone(d0) /\ endpoint'[d0].state = endpoint[d0].state /\ endpoint'[d0].blocking
        /\ endpoint'[d0].options = endpoint[d0].options
        /\ endpoint'[d0].request = endpoint[d0].request /\ endpoint'[d0].answer = endpoint[d0].answer
    BY <1>2, <2>1, ModeChanges
  <2> QED BY <1>1, <1>2, <2>1, <2>2, <2>3, PlaceKeeps DEF Making
<1>4. CASE ConnectFails
  <2>1. /\ asker.at = "failed" /\ SetOptionOn(d0, "SO_LINGER") /\ Proceed("abandon")
    BY <1>4 DEF ConnectFails, Stands, Sockopt_set_lingerOn
  <2> QED BY <1>1, <1>2, <2>1, OptionsChange, PlaceKeeps DEF Making, Options
<1>5. CASE Abandon
  <2>1. endpoint' = [endpoint EXCEPT ![d0] = None] /\ asker' = Resting
    BY <1>5 DEF Abandon, Close, Answered
  <2> QED BY <1>1, <1>2, <2>1, MadeIs, NewIs, RestingIs, Replaced, MakingKeeps
<1> QED BY <1>3, <1>4, <1>5

(* A socket that is made is given to the client.                            *)
LEMMA HandedKeeps ==
  ASSUME EarlierInv, Udp_socket \/ Tcp_connect
  PROVE  EarlierInv'
<1>0. PICK d : d = d0
  OBVIOUS
<1> DEFINE asked == IF asker.nleft > 0 THEN {"SO_RCVBUF"} ELSE {}
<1>1. PICK kind \in {"datagram", "stream"} :
        /\ Handed(d, asker.nleft > 0, kind) /\ asker' = Resting /\ UNCHANGED <<endpoint, dropped>>
        /\ kind = "stream" => asker.at = "connected"
        /\ asker.at \in {"made", "connected"}
  BY <1>0 DEF Udp_socket, Tcp_connect, Answered, Stands
<1>2. asker.at \in Making /\ d \in Sockfds \ DOMAIN given /\ EarlierTypes /\ MadeFits
  BY <1>0, <1>1, MadeIs DEF Making
<1>3. /\ endpoint[d].request = << >> /\ endpoint[d].answer = << >> /\ endpoint[d].state # "closed"
      /\ endpoint[d].blocking /\ endpoint[d].options = asked
      /\ kind = "stream" => endpoint[d].state \in {"up", "ended"}
  BY <1>0, <1>1, <1>2 DEF MadeFits, Peer
<1> DEFINE g == [kind |-> kind, options |-> asked, blocking |-> TRUE, count |-> 0, due |-> 0,
                 failed |-> FALSE]
<1>4. given' = [e \in DOMAIN given \cup {d} |-> IF e # d THEN given[e] ELSE g]
  BY <1>1 DEF Handed
<1>5. asked \in SUBSET Options /\ "SO_LINGER" \notin asked
  BY DEF Options
<1> HIDE DEF asked
<1>6. /\ g \in Givens /\ g.kind = kind /\ g.options = asked /\ g.blocking = TRUE
      /\ g.count = 0 /\ g.due = 0
  BY <1>5 DEF Givens
<1> HIDE DEF g
<1>7. /\ DOMAIN given' = DOMAIN given \cup {d} /\ given'[d] = g
      /\ \A e \in DOMAIN given : given'[e] = given[e]
  BY <1>2, <1>4
<1>8. EarlierTypes'
  BY <1>1, <1>2, <1>4, <1>6, <1>7, RestingIs DEF EarlierTypes
<1>9. asker.at \notin Using /\ asker'.at \notin Using \cup Making
  BY <1>1, RestingIs DEF Using, Making
<1>10. ASSUME NEW e \in DOMAIN given PROVE GivenFits(e)' /\ OnTheWay(e)'
  <2>1. given'[e] = given[e] /\ GivenFits(e) /\ OnTheWay(e)
    BY <1>7 DEF EarlierInv
  <2>2. InHand(e) = 0 /\ InHand(e)' = 0
    BY <1>9 DEF InHand
  <2>3. GivenFits(e)'
    BY <1>1, <2>1 DEF GivenFits, Peer
  <2>4. OnTheWay(e)'
    BY <1>1, <2>1, <2>2 DEF OnTheWay, AllAre
  <2> QED BY <2>3, <2>4
<1>11. GivenFits(d)'
  BY <1>1, <1>3, <1>5, <1>6, <1>7 DEF GivenFits, Peer
<1>12. OnTheWay(d)'
  <2>1. InHand(d)' = 0
    BY <1>9 DEF InHand
  <2>2. Len(<< >>) = 0
    OBVIOUS
  <2> QED BY <1>1, <1>3, <1>6, <1>7, <2>1, <2>2 DEF OnTheWay, AllAre
<1>13. ASSUME NEW e \in Sockfds \ DOMAIN given', Peer(e)' # "closed" PROVE e \in dropped'
  BY <1>0, <1>1, <1>7, <1>13 DEF EarlierInv, Peer
<1>14. MadeFits' /\ UsedFits'
  BY <1>9 DEF MadeFits, UsedFits
<1> QED BY <1>1, <1>7, <1>8, <1>10, <1>11, <1>12, <1>13, <1>14 DEF EarlierInv

-----------------------------------------------------------------------------
(* The record of a descriptor changes in one place.                         *)
LEMMA GivenChanges ==
  ASSUME EarlierInv, NEW x \in DOMAIN given, NEW g \in Givens, given' = [given EXCEPT ![x] = g]
  PROVE  /\ given' \in [DOMAIN given -> Givens] /\ given'[x] = g
         /\ \A e \in DOMAIN given \ {x} : given'[e] = given[e]
BY DEF EarlierInv, EarlierTypes

(* What the client asks for on a descriptor is what is done to the socket.   *)
LEMMA OptionKeeps ==
  ASSUME EarlierInv, NEW d \in DOMAIN given, asker.at = "out", UNCHANGED <<asker, dropped>>,
         NEW optname \in Options \ {"SO_LINGER"}, SetOptionOn(d, optname), Asks(d, optname)
  PROVE  EarlierInv'
<1> DEFINE g == given[d]
           o == g.options \cup {optname}
           n == [g EXCEPT !.options = o]
<1>1. /\ d \in Sockfds /\ g \in Givens /\ GivenFits(d) /\ OnTheWay(d)
      /\ asker' = Resting /\ asker' \in Askers /\ InHand(d) = 0 /\ InHand(d)' = 0
  BY BytesOf, RestingIs DEF EarlierInv, InHand, Using
<1>2. /\ Alone(d) /\ endpoint'[d].options = endpoint[d].options \cup {optname}
      /\ endpoint'[d].state = endpoint[d].state /\ endpoint'[d].blocking = endpoint[d].blocking
      /\ endpoint'[d].request = endpoint[d].request /\ endpoint'[d].answer = endpoint[d].answer
  BY <1>1, OptionsChange DEF EarlierInv
<1>3. given' = [given EXCEPT ![d] = n]
  BY DEF Asks
<1> HIDE DEF g
<1>4. o \in SUBSET Options
  BY <1>1 DEF Givens
<1> HIDE DEF o
<1>5. /\ n \in Givens /\ n.options = o /\ n.kind = g.kind /\ n.blocking = g.blocking
      /\ n.count = g.count /\ n.due = g.due
  BY <1>1, <1>4 DEF Givens
<1> HIDE DEF n
<1>6. /\ given' \in [DOMAIN given -> Givens] /\ given'[d] = n
      /\ \A e \in DOMAIN given \ {d} : given'[e] = given[e]
  BY <1>3, <1>5, GivenChanges
<1>7. GivenFits(d)'
  BY <1>1, <1>2, <1>5, <1>6 DEF GivenFits, Peer, g, o
<1>8. OnTheWay(d)'
  BY <1>1, <1>2, <1>5, <1>6 DEF OnTheWay, AllAre, g
<1> QED BY <1>1, <1>2, <1>6, <1>7, <1>8, GivenKeeps

LEMMA ModeKeeps ==
  ASSUME EarlierInv, NEW d \in DOMAIN given, asker.at = "out", UNCHANGED <<asker, dropped>>,
         NEW b \in BOOLEAN, endpoint' = [endpoint EXCEPT ![d].blocking = b],
         given' = [given EXCEPT ![d].blocking = b]
  PROVE  EarlierInv'
<1> DEFINE g == given[d]
           n == [g EXCEPT !.blocking = b]
<1>1. /\ d \in Sockfds /\ g \in Givens /\ GivenFits(d) /\ OnTheWay(d)
      /\ asker' = Resting /\ asker' \in Askers /\ InHand(d) = 0 /\ InHand(d)' = 0
  BY BytesOf, RestingIs DEF EarlierInv, InHand, Using
<1>2. /\ Alone(d) /\ endpoint'[d].blocking = b
      /\ endpoint'[d].state = endpoint[d].state /\ endpoint'[d].options = endpoint[d].options
      /\ endpoint'[d].request = endpoint[d].request /\ endpoint'[d].answer = endpoint[d].answer
  BY <1>1, ModeChanges DEF EarlierInv
<1>3. given' = [given EXCEPT ![d] = n]
  OBVIOUS
<1> HIDE DEF g
<1>5. /\ n \in Givens /\ n.options = g.options /\ n.kind = g.kind /\ n.blocking = b
      /\ n.count = g.count /\ n.due = g.due
  BY <1>1 DEF Givens
<1> HIDE DEF n
<1>6. /\ given' \in [DOMAIN given -> Givens] /\ given'[d] = n
      /\ \A e \in DOMAIN given \ {d} : given'[e] = given[e]
  BY <1>3, <1>5, GivenChanges
<1>7. GivenFits(d)'
  BY <1>1, <1>2, <1>5, <1>6 DEF GivenFits, Peer, g
<1>8. OnTheWay(d)'
  <2>1. given'[d].count = given[d].count /\ given'[d].due = given[d].due
    BY <1>5, <1>6 DEF g
  <2>2. endpoint'[d].request = endpoint[d].request /\ endpoint'[d].answer = endpoint[d].answer
    BY <1>2
  <2>3. InHand(d)' = InHand(d) /\ OnTheWay(d)
    BY <1>1
  <2> QED BY <2>1, <2>2, <2>3 DEF OnTheWay, AllAre
<1> QED BY <1>1, <1>2, <1>6, <1>7, <1>8, GivenKeeps

LEMMA SetOptionKeeps ==
  ASSUME EarlierInv, NEW d \in Sockfds, SetOption(d)
  PROVE  EarlierInv'
<1>1. d \in DOMAIN given /\ asker.at = "out" /\ UNCHANGED <<asker, dropped>>
  BY DEF SetOption, Holds, Stands
<1>2. CASE \E optname \in Options \ {"SO_LINGER"} : SetOptionOn(d, optname) /\ Asks(d, optname)
  BY <1>1, <1>2, OptionKeeps
<1>3. CASE \E b \in BOOLEAN : /\ endpoint' = [endpoint EXCEPT ![d].blocking = b]
                             /\ given' = [given EXCEPT ![d].blocking = b]
  BY <1>1, <1>3, ModeKeeps
<1>4. CASE Sockopt_set_recvBuf(d) /\ Asks(d, "SO_RCVBUF")
  BY <1>2, <1>4 DEF Sockopt_set_recvBuf, Options
<1>5. CASE Sockopt_set_sendBuf(d) /\ Asks(d, "SO_SNDBUF")
  BY <1>2, <1>5 DEF Sockopt_set_sendBuf, Options
<1>6. CASE Sockopt_set_reuse(d) /\ Asks(d, "SO_REUSEADDR")
  BY <1>2, <1>6 DEF Sockopt_set_reuse, Options
<1>7. CASE Sock_noBlock(d) /\ given' = [given EXCEPT ![d].blocking = FALSE]
  BY <1>3, <1>7 DEF Sock_noBlock
<1>8. CASE Sock_block(d) /\ given' = [given EXCEPT ![d].blocking = TRUE]
  BY <1>3, <1>8 DEF Sock_block
<1> QED BY <1>4, <1>5, <1>6, <1>7, <1>8 DEF SetOption

LEMMA ShutdownKeeps ==
  ASSUME EarlierInv, NEW x \in Sockfds, Shutdown(x)
  PROVE  EarlierInv'
<1>1. /\ x \in DOMAIN given /\ asker.at = "out" /\ asker = Resting /\ asker' = Resting
      /\ UNCHANGED <<asker, dropped>> /\ endpoint' = [endpoint EXCEPT ![x] = None]
      /\ given' = [e \in DOMAIN given \ {x} |-> given[e]]
  BY DEF Shutdown, Holds, Stands, Close, Forget, EarlierInv
<1>2. Alone(x) /\ endpoint'[x].state = "closed"
  BY <1>1, NewIs, Replaced DEF EarlierInv
<1>3. DOMAIN given' = DOMAIN given \ {x} /\ \A e \in DOMAIN given' : given'[e] = given[e]
  BY <1>1
<1>4. EarlierTypes'
  BY <1>1, <1>2, <1>3, RestingIs DEF EarlierInv, EarlierTypes, Alone
<1>5. asker.at \notin Making \cup Using
  BY <1>1 DEF Making, Using
<1>6. ASSUME NEW e \in DOMAIN given' PROVE GivenFits(e)' /\ OnTheWay(e)'
  <2>1. given'[e] = given[e] /\ endpoint'[e] = endpoint[e] /\ GivenFits(e) /\ OnTheWay(e)
    BY <1>2, <1>3 DEF EarlierInv, EarlierTypes, Alone
  <2>2. InHand(e) = 0 /\ InHand(e)' = 0
    BY <1>1, <1>5 DEF InHand
  <2>3. GivenFits(e)'
    BY <2>1 DEF GivenFits, Peer
  <2>4. OnTheWay(e)'
    BY <2>1, <2>2 DEF OnTheWay, AllAre
  <2> QED BY <2>3, <2>4
<1>7. ASSUME NEW e \in Sockfds \ DOMAIN given', Peer(e)' # "closed" PROVE e \in dropped'
  <2>1. e # x /\ Peer(e) # "closed" /\ e \notin DOMAIN given
    BY <1>2, <1>3, <1>7 DEF Peer, Alone
  <2> QED BY <1>1, <1>5, <2>1 DEF EarlierInv
<1>8. MadeFits' /\ UsedFits'
  BY <1>1, <1>5 DEF MadeFits, UsedFits
<1> QED BY <1>1, <1>4, <1>6, <1>7, <1>8 DEF EarlierInv

(* The client begins to write, when nothing is due any more, or to read.    *)
LEMMA BeginsKeeps ==
  ASSUME EarlierInv, NEW d \in Sockfds, writen(d) \/ readn(d) \/ RecvReady(d)
  PROVE  EarlierInv'
<1> DEFINE g == given[d]
<1>1. /\ d \in DOMAIN given /\ asker.at = "out" /\ g.kind = "stream" /\ UNCHANGED <<endpoint, dropped>>
  BY DEF writen, readn, RecvReady, Stream, Holds, Stands
<1>2. /\ d \in Sockfds /\ g \in Givens /\ GivenFits(d) /\ OnTheWay(d)
      /\ endpoint[d].request \in Seq(Nat) /\ endpoint[d].answer \in Seq(Nat)
      /\ Len(endpoint[d].request) \in Nat /\ Len(endpoint[d].answer) \in Nat
      /\ g.count \in Nat /\ g.due \in Nat
  BY <1>1, BytesOf
<1>3. InHand(d) = 0 /\ Alone(d)
  BY <1>1 DEF InHand, Using, Alone, EarlierInv, EarlierTypes
<1>4. << >> \in Seq(Nat) /\ Len(<< >>) = 0 /\ \A n : AllAre(n, << >>)
  BY DEF AllAre
<1>5. RequestLength \in Nat \ {0}
  BY EarlierNetAssumption
<1>6. CASE writen(d)
  <2> DEFINE c == g.count + 1
             n == [g EXCEPT !.count = c, !.due = RequestLength]
  <2>1. /\ asker' = [at |-> "send", op |-> "writen", fd |-> d, nleft |-> RequestLength, ptr |-> << >>]
        /\ given' = [given EXCEPT ![d] = n] /\ g.due = 0
    BY <1>6 DEF writen
  <2> HIDE DEF g
  <2>9. c \in Nat
    BY <1>2
  <2> HIDE DEF c
  <2>2. /\ n \in Givens /\ n.options = g.options /\ n.kind = g.kind /\ n.blocking = g.blocking
        /\ n.count = c /\ n.due = RequestLength
    BY <1>2, <1>5, <2>9 DEF Givens
  <2> HIDE DEF n
  <2>3. /\ given' \in [DOMAIN given -> Givens] /\ given'[d] = n
        /\ \A e \in DOMAIN given \ {d} : given'[e] = given[e]
    BY <1>1, <2>1, <2>2, GivenChanges
  <2>4. /\ asker' \in Askers /\ asker'.at = "send" /\ asker'.fd = d /\ asker'.ptr = << >>
        /\ asker'.nleft = RequestLength
    BY <1>4, <1>5, <2>1 DEF Askers, Using
  <2>5. Len(endpoint[d].request) = 0 /\ Len(endpoint[d].answer) = 0
    <3> DEFINE q == Len(endpoint[d].request)
               a == Len(endpoint[d].answer)
    <3>1. q + a + InHand(d) <= g.due /\ q \in Nat /\ a \in Nat
      BY <1>2 DEF OnTheWay, g
    <3>2. InHand(d) = 0 /\ g.due = 0
      BY <1>3, <2>1
    <3> HIDE DEF q, a
    <3>3. q = 0 /\ a = 0
      BY <3>1, <3>2
    <3> QED BY <3>3 DEF q, a
  <2>6. GivenFits(d)'
    BY <1>1, <1>2, <2>2, <2>3 DEF GivenFits, Peer, g
  <2>7. InHand(d)' = RequestLength
    BY <1>4, <1>5, <2>4 DEF InHand, d0, Using
  <2>8. OnTheWay(d)'
    BY <1>1, <1>5, <2>2, <2>3, <2>5, <2>7 DEF OnTheWay, AllAre
  <2> QED BY <1>1, <1>3, <1>4, <2>2, <2>3, <2>4, <2>6, <2>8, GivenKeeps DEF Using, g
<1>7. CASE readn(d) \/ RecvReady(d)
  <2>1. /\ UNCHANGED given
        /\ asker' \in Askers /\ asker'.at \in {"wait", "receive"} /\ asker'.fd = d /\ asker'.ptr = << >>
    <3>1. CASE readn(d)
      BY <1>2, <1>4, <3>1 DEF readn, Askers, Using
    <3>2. CASE RecvReady(d)
      BY <1>2, <1>4, <3>2 DEF RecvReady, ioctl_sockBuf_datas, Askers, Using
    <3> QED BY <1>7, <3>1, <3>2
  <2>2. GivenFits(d)'
    BY <1>1, <1>2, <2>1 DEF GivenFits, Peer
  <2>3. InHand(d)' = 0
    BY <1>4, <2>1 DEF InHand
  <2>4. OnTheWay(d)'
    BY <1>1, <1>2, <1>3, <2>1, <2>3 DEF OnTheWay, AllAre
  <2>5. given' \in [DOMAIN given -> Givens]
    BY <2>1 DEF EarlierInv, EarlierTypes
  <2> QED BY <1>1, <1>3, <1>4, <2>1, <2>2, <2>4, <2>5, GivenKeeps DEF Using
<1> QED BY <1>6, <1>7

-----------------------------------------------------------------------------
(* What holds of the connection a call writes to or reads from.             *)
LEMMA UsedIs ==
  ASSUME EarlierInv, asker.at \in Using, NEW d, d = d0
  PROVE  /\ d \in DOMAIN given /\ d \in Sockfds /\ d = asker.fd /\ given[d].kind = "stream"
         /\ AllAre(given[d].count, asker.ptr)
BY DEF EarlierInv, EarlierTypes, UsedFits, d0

LEMMA WayIs ==
  ASSUME NEW d, NEW q, NEW a, NEW h, endpoint'[d].request = q, endpoint'[d].answer = a, InHand(d)' = h,
         AllAre(given'[d].count, q), AllAre(given'[d].count, a), Len(q) + Len(a) + h <= given'[d].due
  PROVE  OnTheWay(d)'
BY DEF OnTheWay

LEMMA WayWas ==
  ASSUME NEW d, OnTheWay(d)
  PROVE  /\ AllAre(given[d].count, endpoint[d].request) /\ AllAre(given[d].count, endpoint[d].answer)
         /\ Len(endpoint[d].request) + Len(endpoint[d].answer) + InHand(d) <= given[d].due
BY DEF OnTheWay

LEMMA SendPartKeeps ==
  ASSUME EarlierInv, SendPart
  PROVE  EarlierInv'
<1>1. asker.at = "send" /\ asker.at \in Using /\ UNCHANGED <<given, dropped>>
  BY DEF SendPart, Stands, Using
<1>2. PICK d : d = d0
  OBVIOUS
<1>3. PICK nwritten \in 1 .. asker.nleft :
        /\ endpoint' = [endpoint EXCEPT ![d].request = @ \o [i \in 1 .. nwritten |-> given[d].count]]
        /\ asker' = IF asker.nleft - nwritten = 0 THEN Resting
                    ELSE [asker EXCEPT !.nleft = asker.nleft - nwritten]
  BY <1>2 DEF SendPart, Moved
<1>4. /\ d \in DOMAIN given /\ d \in Sockfds /\ d = asker.fd /\ given[d].kind = "stream"
      /\ GivenFits(d) /\ OnTheWay(d) /\ EarlierTypes /\ given[d].count \in Nat /\ given[d].due \in Nat
      /\ AllAre(given[d].count, asker.ptr)
  BY <1>1, <1>2, UsedIs, BytesOf DEF EarlierInv
<1>5. /\ endpoint[d].request \in Seq(Nat) /\ endpoint[d].answer \in Seq(Nat)
      /\ Len(endpoint[d].request) \in Nat /\ Len(endpoint[d].answer) \in Nat
      /\ asker \in Askers /\ Len(asker.ptr) \in Nat /\ asker.nleft \in Nat
  BY <1>4, BytesOf, HandIs
<1> DEFINE new == [i \in 1 .. nwritten |-> given[d].count]
           q == endpoint[d].request \o new
           left == asker.nleft - nwritten
<1>6. new \in Seq(Nat) /\ Len(new) = nwritten /\ AllAre(given[d].count, new) /\ left \in Nat
  BY <1>4, <1>5, BytesNew
<1>7. endpoint' = [endpoint EXCEPT ![d].request = q]
  BY <1>3
<1> HIDE DEF new
<1>8. q \in Seq(Nat) /\ Len(q) = Len(endpoint[d].request) + nwritten /\ AllAre(given[d].count, q)
  <2> DEFINE n == given[d].count
             s == endpoint[d].request
  <2>1. AllAre(n, s) /\ AllAre(n, new)
    BY <1>4, <1>6, WayWas
  <2>2. s \in Seq(Nat) /\ new \in Seq(Nat) /\ Len(new) = nwritten
    BY <1>5, <1>6
  <2> HIDE DEF n, s
  <2>3. s \o new \in Seq(Nat) /\ Len(s \o new) = Len(s) + Len(new) /\ AllAre(n, s \o new)
    BY <2>1, <2>2, BytesTogether
  <2> QED BY <2>2, <2>3 DEF n, s
<1> HIDE DEF q
<1>9. /\ Alone(d) /\ endpoint'[d].request = q /\ endpoint'[d].answer = endpoint[d].answer
      /\ endpoint'[d].state = endpoint[d].state /\ endpoint'[d].blocking = endpoint[d].blocking
      /\ endpoint'[d].options = endpoint[d].options
  BY <1>4, <1>5, <1>7, <1>8, BytesChange
<1>10. CASE left = 0
  <2>1. asker' = Resting /\ InHand(d)' = 0
    BY <1>3, <1>10, RestingIs DEF InHand, Using
  <2>2. InHand(d) = Len(asker.ptr) + asker.nleft
    BY <1>1, <1>2 DEF InHand
  <2>3. Len(q) + Len(endpoint[d].answer) + 0 <= given[d].due
    <3> DEFINE m == Len(endpoint[d].request)
               n == Len(endpoint[d].answer)
               p == Len(asker.ptr)
               k == Len(q)
    <3>1. /\ m + n + (p + asker.nleft) <= given[d].due /\ k = m + nwritten /\ asker.nleft = nwritten
          /\ m \in Nat /\ n \in Nat /\ p \in Nat /\ nwritten \in Nat /\ given[d].due \in Nat
      <4>1. m + n + (p + asker.nleft) <= given[d].due
        BY <1>4, <2>2, WayWas
      <4>2. asker.nleft = nwritten
        BY <1>3, <1>5, <1>10
      <4>3. k = m + nwritten /\ m \in Nat /\ n \in Nat /\ p \in Nat /\ given[d].due \in Nat
        BY <1>4, <1>5, <1>8
      <4>4. nwritten \in Nat
        BY <1>5
      <4> HIDE DEF m, n, p, k
      <4> QED BY <4>1, <4>2, <4>3, <4>4
    <3> HIDE DEF m, n, p, k
    <3>2. k + n + 0 <= given[d].due
      BY <3>1
    <3> QED BY <3>2 DEF k, n
  <2>4. OnTheWay(d)'
    BY <1>1, <1>4, <1>8, <1>9, <2>1, <2>3, WayIs, WayWas
  <2>5. GivenFits(d)'
    BY <1>1, <1>4, <1>9 DEF GivenFits, Peer
  <2> QED BY <1>1, <1>2, <1>4, <1>9, <2>1, <2>4, <2>5, RestingIs, GivenKeeps DEF EarlierTypes
<1>11. CASE left # 0
  <2>1. asker' = [asker EXCEPT !.nleft = left]
    BY <1>3, <1>11
  <2> HIDE DEF left
  <2>2. /\ asker' \in Askers /\ asker'.at = "send" /\ asker'.fd = d /\ asker'.ptr = asker.ptr
        /\ asker'.nleft = left
    BY <1>1, <1>4, <1>5, <1>6, <2>1 DEF Askers
  <2>3. InHand(d) = Len(asker.ptr) + asker.nleft /\ InHand(d)' = Len(asker.ptr) + left
    BY <1>1, <1>2, <2>2 DEF InHand, Using, d0
  <2>4. Len(q) + Len(endpoint[d].answer) + (Len(asker.ptr) + left) <= given[d].due
    <3> DEFINE m == Len(endpoint[d].request)
               n == Len(endpoint[d].answer)
               p == Len(asker.ptr)
               k == Len(q)
    <3>1. /\ m + n + (p + asker.nleft) <= given[d].due /\ k = m + nwritten /\ left = asker.nleft - nwritten
          /\ m \in Nat /\ n \in Nat /\ p \in Nat /\ nwritten \in Nat /\ given[d].due \in Nat
          /\ asker.nleft \in Nat
      <4>1. m + n + (p + asker.nleft) <= given[d].due
        BY <1>4, <2>3, WayWas
      <4>2. k = m + nwritten /\ m \in Nat /\ n \in Nat /\ p \in Nat /\ given[d].due \in Nat
        BY <1>4, <1>5, <1>8
      <4>3. nwritten \in Nat /\ left = asker.nleft - nwritten /\ asker.nleft \in Nat
        BY <1>5 DEF left
      <4> HIDE DEF m, n, p, k
      <4> QED BY <4>1, <4>2, <4>3
    <3> HIDE DEF m, n, p, k
    <3>2. k + n + (p + left) <= given[d].due
      BY <3>1
    <3> QED BY <3>2 DEF k, n, p
  <2>5. OnTheWay(d)'
    BY <1>1, <1>4, <1>8, <1>9, <2>3, <2>4, WayIs, WayWas
  <2>6. GivenFits(d)'
    BY <1>1, <1>4, <1>9 DEF GivenFits, Peer
  <2> QED BY <1>1, <1>2, <1>4, <1>9, <2>2, <2>5, <2>6, GivenKeeps DEF EarlierTypes, Using
<1> QED BY <1>10, <1>11

(* A step of a call that takes no byte and leaves its buffer.               *)
LEMMA PauseKeeps ==
  ASSUME EarlierInv, Select \/ Interrupted
  PROVE  EarlierInv'
<1>1. PICK place \in {"wait", "receive"} :
        /\ asker.at \in {"wait", "receive"} /\ Proceed(place) /\ UNCHANGED <<endpoint, given, dropped>>
  BY DEF Select, Interrupted, Stands
<1>2. PICK d : d = d0
  OBVIOUS
<1>3. /\ d \in DOMAIN given /\ d \in Sockfds /\ d = asker.fd /\ given[d].kind = "stream"
      /\ GivenFits(d) /\ OnTheWay(d) /\ EarlierTypes /\ AllAre(given[d].count, asker.ptr)
      /\ asker.at \in Using
  BY <1>1, <1>2, UsedIs, BytesOf DEF EarlierInv, Using
<1>4. /\ asker' \in Askers /\ asker'.at = place /\ asker'.fd = d /\ asker'.ptr = asker.ptr
      /\ place \in Using
  BY <1>1, <1>3, ProceedIs DEF EarlierTypes, Using
<1>5. InHand(d)' = InHand(d)
  BY <1>1, <1>2, <1>3, <1>4 DEF InHand, d0
<1>6. GivenFits(d)'
  BY <1>1, <1>3 DEF GivenFits, Peer
<1>7. OnTheWay(d)'
  BY <1>1, <1>3, <1>5 DEF OnTheWay, AllAre
<1>8. Alone(d)
  BY <1>1, <1>3 DEF Alone, EarlierTypes
<1>9. AllAre(given'[d].count, asker'.ptr) /\ given'[d].kind = "stream"
  BY <1>1, <1>3, <1>4
<1> QED BY <1>1, <1>2, <1>3, <1>4, <1>6, <1>7, <1>8, <1>9, GivenKeeps DEF EarlierTypes

LEMMA ReceivePartKeeps ==
  ASSUME EarlierInv, ReceivePart
  PROVE  EarlierInv'
<1>1. asker.at = "receive" /\ asker.at \in Using /\ UNCHANGED <<given, dropped>>
  BY DEF ReceivePart, Stands, Using
<1>2. PICK d : d = d0
  OBVIOUS
<1>4. /\ d \in DOMAIN given /\ d \in Sockfds /\ d = asker.fd /\ given[d].kind = "stream"
      /\ GivenFits(d) /\ OnTheWay(d) /\ EarlierTypes /\ given[d].count \in Nat /\ given[d].due \in Nat
      /\ AllAre(given[d].count, asker.ptr)
  BY <1>1, <1>2, UsedIs, BytesOf DEF EarlierInv
<1>5. /\ endpoint[d].request \in Seq(Nat) /\ endpoint[d].answer \in Seq(Nat)
      /\ Len(endpoint[d].request) \in Nat /\ Len(endpoint[d].answer) \in Nat
      /\ asker \in Askers /\ asker.ptr \in Seq(Nat) /\ Len(asker.ptr) \in Nat /\ asker.nleft \in Nat
  BY <1>4, BytesOf, HandIs
<1> DEFINE answer == endpoint[d].answer
<1>6. ASSUME NEW k \in 0 .. Len(answer), k <= asker.nleft, NEW a \in Seq(Nat),
             Alone(d), endpoint'[d].request = endpoint[d].request, endpoint'[d].answer = a,
             Len(a) = Len(answer) - k, AllAre(given[d].count, a),
             endpoint'[d].state = endpoint[d].state, endpoint'[d].blocking = endpoint[d].blocking,
             endpoint'[d].options = endpoint[d].options,
             NEW bytes \in Seq(Nat), Len(bytes) = k, AllAre(given[d].count, bytes), RecvTakes(bytes)
      PROVE  EarlierInv'
  <2> DEFINE left == asker.nleft - k
             got == asker.ptr \o bytes
             place == IF left > 0 /\ bytes # << >> /\ asker.op = "readn" THEN "wait" ELSE "back"
  <2>1. left \in Nat /\ place \in {"wait", "back"}
    BY <1>5, <1>6
  <2>2. asker' = [asker EXCEPT !.at = place, !.nleft = left, !.ptr = got]
    BY <1>6 DEF RecvTakes
  <2>3. got \in Seq(Nat) /\ Len(got) = Len(asker.ptr) + k /\ AllAre(given[d].count, got)
    <3>1. bytes \in Seq(Nat) /\ Len(bytes) = k /\ AllAre(given[d].count, bytes)
      BY <1>6
    <3> DEFINE n == given[d].count
               s == asker.ptr
    <3>2. s \in Seq(Nat) /\ AllAre(n, s) /\ AllAre(n, bytes)
      BY <1>4, <1>5, <3>1
    <3> HIDE DEF n, s
    <3>3. s \o bytes \in Seq(Nat) /\ Len(s \o bytes) = Len(s) + Len(bytes) /\ AllAre(n, s \o bytes)
      BY <3>1, <3>2, BytesTogether
    <3> QED BY <3>1, <3>3 DEF n, s
  <2> HIDE DEF left, got, place
  <2>4. place \in {"out"} \cup Making \cup Using
    BY <2>1 DEF Using
  <2>5. /\ asker' \in Askers /\ asker'.at = place /\ asker'.fd = d /\ asker'.ptr = got
    BY <1>4, <1>5, <2>1, <2>2, <2>3, <2>4 DEF Askers
  <2>6. InHand(d) = Len(asker.ptr) /\ InHand(d)' = Len(got)
    <3>1. InHand(d) = Len(asker.ptr) + 0
      BY <1>1, <1>2 DEF InHand
    <3>2. InHand(d)' = Len(got) + 0
      BY <2>1, <2>5 DEF InHand, d0, Using
    <3>3. Len(got) \in Nat
      BY <2>3
    <3> QED BY <1>5, <3>1, <3>2, <3>3
  <2>7. Len(endpoint[d].request) + Len(a) + Len(got) <= given[d].due
    <3> DEFINE m == Len(endpoint[d].request)
               n == Len(answer)
               p == Len(asker.ptr)
               l == Len(a)
               h == Len(got)
    <3>1. /\ m + n + p <= given[d].due /\ h = p + k /\ l = n - k
          /\ m \in Nat /\ n \in Nat /\ p \in Nat /\ k \in 0 .. n /\ given[d].due \in Nat
      BY <1>4, <1>5, <1>6, <2>3, <2>6, WayWas
    <3> HIDE DEF m, n, p, l, h
    <3>2. m + l + h <= given[d].due
      BY <3>1
    <3> QED BY <3>2 DEF m, l, h
  <2>8. OnTheWay(d)'
    <3>1. /\ endpoint'[d].request = endpoint[d].request /\ endpoint'[d].answer = a
          /\ AllAre(given[d].count, a)
      BY <1>6
    <3> QED BY <1>1, <1>4, <2>6, <2>7, <3>1, WayIs, WayWas
  <2>9. GivenFits(d)'
    BY <1>1, <1>4, <1>6 DEF GivenFits, Peer
  <2>10. AllAre(given'[d].count, asker'.ptr) /\ given'[d].kind = "stream" /\ asker'.at \in Using
    BY <1>1, <1>4, <2>1, <2>3, <2>5 DEF Using
  <2>11. given' \in [DOMAIN given -> Givens]
    BY <1>1, <1>4 DEF EarlierTypes
  <2> QED BY <1>1, <1>2, <1>4, <1>6, <2>5, <2>8, <2>9, <2>10, <2>11, GivenKeeps
<1>7. CASE \E nread \in 1 .. asker.nleft :
             /\ nread <= Len(endpoint[d0].answer)
             /\ endpoint' = [endpoint EXCEPT ![d0].answer = SubSeq(@, nread + 1, Len(@))]
             /\ RecvTakes(SubSeq(endpoint[d0].answer, 1, nread))
  <2>1. PICK k \in 1 .. asker.nleft :
             /\ k <= Len(answer) /\ endpoint' = [endpoint EXCEPT ![d].answer = SubSeq(answer, k + 1, Len(answer))]
             /\ RecvTakes(SubSeq(answer, 1, k))
    BY <1>2, <1>7
  <2> DEFINE a == SubSeq(answer, k + 1, Len(answer))
             bytes == SubSeq(answer, 1, k)
  <2>2. k \in 0 .. Len(answer) /\ k <= asker.nleft
    BY <1>5, <2>1
  <2>3. /\ bytes \in Seq(Nat) /\ Len(bytes) = k /\ AllAre(given[d].count, bytes)
        /\ a \in Seq(Nat) /\ Len(a) = Len(answer) - k /\ AllAre(given[d].count, a)
    BY <1>4, <1>5, <2>2, BytesInParts DEF OnTheWay
  <2>4. endpoint' = [endpoint EXCEPT ![d].answer = a] /\ RecvTakes(bytes)
    BY <2>1
  <2> HIDE DEF a, bytes
  <2>5. /\ Alone(d) /\ endpoint'[d].request = endpoint[d].request /\ endpoint'[d].answer = a
        /\ endpoint'[d].state = endpoint[d].state /\ endpoint'[d].blocking = endpoint[d].blocking
        /\ endpoint'[d].options = endpoint[d].options
    BY <1>4, <1>5, <2>3, <2>4, BytesChange
  <2> QED BY <1>6, <2>2, <2>3, <2>4, <2>5
<1>8. CASE Ended(d0) /\ RecvTakes(<< >>) /\ UNCHANGED endpoint
  <2>1. << >> \in Seq(Nat) /\ Len(<< >>) = 0 /\ AllAre(given[d].count, << >>)
    BY DEF AllAre
  <2>2. Alone(d) /\ Len(answer) = Len(answer) - 0 /\ 0 \in 0 .. Len(answer) /\ 0 <= asker.nleft
    BY <1>4, <1>5, <1>8 DEF Alone, EarlierTypes
  <2>3. AllAre(given[d].count, answer)
    BY <1>4 DEF OnTheWay
  <2> QED BY <1>5, <1>6, <1>8, <2>1, <2>2, <2>3
<1> QED BY <1>7, <1>8 DEF ReceivePart

(* A call that fails leaves the client less to wait for.                    *)
LEMMA FailsKeeps ==
  ASSUME EarlierInv, Fails
  PROVE  EarlierInv'
<1>1. /\ asker.at \in Using /\ UNCHANGED <<endpoint, dropped>> /\ asker' = Resting
  BY DEF Fails, Using, Answered
<1>2. PICK d : d = d0
  OBVIOUS
<1>3. /\ d \in DOMAIN given /\ d \in Sockfds /\ d = asker.fd /\ given[d] \in Givens
      /\ GivenFits(d) /\ OnTheWay(d) /\ EarlierTypes /\ given[d].due \in Nat
      /\ Len(endpoint[d].request) \in Nat /\ Len(endpoint[d].answer) \in Nat
  BY <1>1, <1>2, UsedIs, BytesOf DEF EarlierInv
<1> DEFINE g == given[d]
           n == [g EXCEPT !.failed = TRUE]
<1>4. given' = [given EXCEPT ![d] = n]
  BY <1>2 DEF Fails
<1>5. /\ n \in Givens /\ n.options = g.options /\ n.kind = g.kind /\ n.blocking = g.blocking
      /\ n.count = g.count /\ n.due = g.due
  <2> HIDE DEF g
  <2>1. g \in Givens
    BY <1>3 DEF g
  <2> QED BY <2>1 DEF Givens
<1> HIDE DEF n
<1>6. /\ given' \in [DOMAIN given -> Givens] /\ given'[d] = n
      /\ \A e \in DOMAIN given \ {d} : given'[e] = given[e]
  BY <1>3, <1>4, <1>5, GivenChanges
<1>7. GivenFits(d)'
  BY <1>1, <1>3, <1>5, <1>6 DEF GivenFits, Peer
<1>8. OnTheWay(d)'
  <2>1. InHand(d)' = 0
    BY <1>1, RestingIs DEF InHand, Using
  <2>2. InHand(d) \in Nat
    BY <1>1, HandIs DEF InHand
  <2> DEFINE q == Len(endpoint[d].request)
             a == Len(endpoint[d].answer)
             h == InHand(d)
  <2>3. q + a + h <= given[d].due /\ q \in Nat /\ a \in Nat /\ h \in Nat /\ given[d].due \in Nat
    BY <1>3, <2>2, WayWas
  <2> HIDE DEF q, a, h
  <2>4. q + a + 0 <= given[d].due
    BY <2>3
  <2>5. Len(endpoint[d].request) + Len(endpoint[d].answer) + 0 <= given'[d].due /\ given'[d].count = given[d].count
    BY <1>5, <1>6, <2>4 DEF q, a
  <2> QED BY <1>1, <1>3, <2>1, <2>5, WayIs, WayWas
<1>9. Alone(d)
  BY <1>1, <1>3 DEF Alone, EarlierTypes
<1> QED BY <1>1, <1>2, <1>3, <1>6, <1>7, <1>8, <1>9, RestingIs, GivenKeeps

(* What the client took is no longer due.                                   *)
LEMMA BackKeeps ==
  ASSUME EarlierInv, BackToClient
  PROVE  EarlierInv'
<1>1. /\ asker.at = "back" /\ asker.at \in Using /\ UNCHANGED <<endpoint, dropped>> /\ asker' = Resting
  BY DEF BackToClient, Using, Answered, Stands
<1>2. PICK d : d = d0
  OBVIOUS
<1>3. /\ d \in DOMAIN given /\ d \in Sockfds /\ d = asker.fd /\ given[d] \in Givens
      /\ GivenFits(d) /\ OnTheWay(d) /\ EarlierTypes /\ given[d].due \in Nat
      /\ Len(endpoint[d].request) \in Nat /\ Len(endpoint[d].answer) \in Nat /\ Len(asker.ptr) \in Nat
  BY <1>1, <1>2, UsedIs, BytesOf, HandIs DEF EarlierInv
<1> DEFINE g == given[d]
           due == g.due - Len(asker.ptr)
           n == [g EXCEPT !.due = due]
<1>4. given' = [given EXCEPT ![d] = n]
  BY <1>2 DEF BackToClient
<1>5. due \in Nat /\ Len(endpoint[d].request) + Len(endpoint[d].answer) + 0 <= due
  <2> DEFINE q == Len(endpoint[d].request)
             a == Len(endpoint[d].answer)
             h == Len(asker.ptr)
  <2>1. InHand(d) = h + 0
    BY <1>1, <1>2 DEF InHand
  <2>2. q + a + (h + 0) <= g.due /\ q \in Nat /\ a \in Nat /\ h \in Nat /\ g.due \in Nat
    BY <1>3, <2>1, WayWas
  <2> HIDE DEF q, a, h, g
  <2>3. g.due - h \in Nat /\ q + a + 0 <= g.due - h
    BY <2>2
  <2> QED BY <2>3 DEF q, a, h
<1> HIDE DEF due
<1>6. /\ n \in Givens /\ n.options = g.options /\ n.kind = g.kind /\ n.blocking = g.blocking
      /\ n.count = g.count /\ n.due = due
  <2> HIDE DEF g
  <2>1. g \in Givens
    BY <1>3 DEF g
  <2> QED BY <1>5, <2>1 DEF Givens
<1> HIDE DEF n
<1>7. /\ given' \in [DOMAIN given -> Givens] /\ given'[d] = n
      /\ \A e \in DOMAIN given \ {d} : given'[e] = given[e]
  BY <1>3, <1>4, <1>6, GivenChanges
<1>8. GivenFits(d)'
  BY <1>1, <1>3, <1>6, <1>7 DEF GivenFits, Peer
<1>9. OnTheWay(d)'
  <2>1. InHand(d)' = 0
    BY <1>1, RestingIs DEF InHand, Using
  <2>2. Len(endpoint[d].request) + Len(endpoint[d].answer) + 0 <= given'[d].due /\ given'[d].count = given[d].count
    BY <1>5, <1>6, <1>7
  <2> QED BY <1>1, <1>3, <2>1, <2>2, WayIs, WayWas
<1>10. Alone(d)
  BY <1>1, <1>3 DEF Alone, EarlierTypes
<1> QED BY <1>1, <1>2, <1>3, <1>7, <1>8, <1>9, <1>10, RestingIs, GivenKeeps

-----------------------------------------------------------------------------
(* The system ends an attempt to connect; the server ends a connection.     *)
LEMMA StateKeeps ==
  ASSUME EarlierInv, NEW d \in Sockfds, Arrives(d) \/ ServerEnds(d)
  PROVE  EarlierInv'
<1>1. PICK s \in {"up", "refused", "ended"} :
        /\ endpoint' = [endpoint EXCEPT ![d].state = s] /\ UNCHANGED <<asker, given, dropped>>
        /\ Peer(d) = "trying" \/ (Peer(d) = "up" /\ s = "ended")
  BY DEF Arrives, ServerEnds
<1>2. /\ Alone(d) /\ endpoint'[d].state = s
      /\ endpoint'[d].blocking = endpoint[d].blocking /\ endpoint'[d].options = endpoint[d].options
      /\ endpoint'[d].request = endpoint[d].request /\ endpoint'[d].answer = endpoint[d].answer
  BY <1>1, StateChanges DEF EarlierInv, States
<1>3. ASSUME d \in DOMAIN given PROVE GivenFits(d)' /\ OnTheWay(d)'
  <2>1. GivenFits(d) /\ OnTheWay(d)
    BY <1>3 DEF EarlierInv
  <2>2. GivenFits(d)'
    BY <1>1, <1>2, <2>1 DEF GivenFits, Peer
  <2>3. OnTheWay(d)'
    BY <1>1, <1>2, <2>1 DEF OnTheWay, AllAre, InHand, d0
  <2> QED BY <2>2, <2>3
<1>4. MadeFits'
  <2>1. CASE d = d0
    BY <1>1, <1>2, <2>1 DEF EarlierInv, MadeFits, Peer, d0
  <2>2. CASE d # d0
    <3>1. asker.at \in Making => endpoint'[d0] = endpoint[d0]
      BY <1>2, <2>2 DEF EarlierInv, MadeFits, Alone
    <3> QED BY <1>1, <3>1 DEF EarlierInv, MadeFits, Peer, d0
  <2> QED BY <2>1, <2>2
<1>5. Peer(d) # "closed"
  BY <1>1
<1> QED BY <1>1, <1>2, <1>3, <1>4, <1>5, PeerKeeps

(* The server answers a request with as many bytes.                         *)
LEMMA AnswersKeeps ==
  ASSUME EarlierInv, NEW d \in Sockfds, ServerAnswers(d)
  PROVE  EarlierInv'
<1> DEFINE in == endpoint[d].request
           rest == SubSeq(in, RequestLength + 1, Len(in))
           begin == SubSeq(in, 1, RequestLength)
           a == endpoint[d].answer \o begin
<1>1. /\ Peer(d) = "up" /\ Len(in) >= RequestLength /\ UNCHANGED <<asker, given, dropped>>
      /\ endpoint' = [endpoint EXCEPT ![d].request = rest,
                       ![d].answer = endpoint[d].answer \o [i \in 1 .. RequestLength |-> in[i]]]
  BY DEF ServerAnswers
<1>2. EarlierTypes /\ RequestLength \in Nat \ {0}
  BY EarlierNetAssumption DEF EarlierInv
<1>3. endpoint[d] \in Endpoints
  BY <1>2 DEF EarlierTypes
<1>4. /\ in \in Seq(Nat) /\ endpoint[d].answer \in Seq(Nat)
  BY <1>3 DEF Endpoints
<1>5. /\ Len(in) \in Nat /\ Len(endpoint[d].answer) \in Nat /\ RequestLength \in 0 .. Len(in)
  BY <1>1, <1>2, <1>4
<1>6. [i \in 1 .. RequestLength |-> in[i]] = begin
  <2> HIDE DEF in
  <2> QED BY <1>2, <1>4, <1>5
<1>7. /\ rest \in Seq(Nat) /\ Len(rest) = Len(in) - RequestLength
      /\ begin \in Seq(Nat) /\ Len(begin) = RequestLength
  <2> HIDE DEF in
  <2> QED BY <1>2, <1>4, <1>5
<1>8. a \in Seq(Nat) /\ Len(a) = Len(endpoint[d].answer) + RequestLength
  BY <1>4, <1>7, ConcatProperties
<1>9. endpoint' = [endpoint EXCEPT ![d].request = rest, ![d].answer = a]
  BY <1>1, <1>6
<1>10. ASSUME d \in DOMAIN given
       PROVE  AllAre(given[d].count, rest) /\ AllAre(given[d].count, a)
  <2>1. AllAre(given[d].count, in) /\ AllAre(given[d].count, endpoint[d].answer)
    BY <1>10, BytesOf, WayWas
  <2>2. AllAre(given[d].count, begin) /\ AllAre(given[d].count, rest)
    BY <1>4, <1>5, <2>1, BytesInParts
  <2> QED BY <1>4, <1>7, <2>1, <2>2, BytesTogether
<1> HIDE DEF rest, a
<1>11. /\ Alone(d) /\ endpoint'[d].request = rest /\ endpoint'[d].answer = a
       /\ endpoint'[d].state = endpoint[d].state /\ endpoint'[d].blocking = endpoint[d].blocking
       /\ endpoint'[d].options = endpoint[d].options
  BY <1>2, <1>7, <1>8, <1>9, BytesChange
<1>12. ASSUME d \in DOMAIN given PROVE GivenFits(d)' /\ OnTheWay(d)'
  <2>1. GivenFits(d) /\ OnTheWay(d) /\ given[d].due \in Nat
    BY <1>12, BytesOf DEF EarlierInv
  <2>2. GivenFits(d)'
    BY <1>1, <1>11, <2>1 DEF GivenFits, Peer
  <2>3. InHand(d)' = InHand(d)
    BY <1>1 DEF InHand, d0
  <2>4. Len(rest) + Len(a) + InHand(d) <= given[d].due
    <3> DEFINE m == Len(in)
               n == Len(endpoint[d].answer)
    <3>1. m + n + InHand(d) <= given[d].due /\ Len(rest) = m - RequestLength /\ Len(a) = n + RequestLength
          /\ m \in Nat /\ n \in Nat /\ RequestLength \in Nat
      BY <1>2, <1>5, <1>7, <1>8, <2>1, WayWas
    <3> HIDE DEF m, n
    <3>2. Len(rest) + Len(a) = m + n
      BY <3>1
    <3> QED BY <3>1, <3>2
  <2>5. OnTheWay(d)'
    BY <1>1, <1>10, <1>11, <1>12, <2>3, <2>4, WayIs
  <2> QED BY <2>2, <2>5
<1>13. MadeFits'
  <2>1. asker.at \in Making => d # d0 /\ d0 \in Sockfds
    <3>1. SUFFICES ASSUME asker.at \in Making PROVE d # d0 /\ d0 \in Sockfds
      OBVIOUS
    <3>2. endpoint[d0].request = << >> /\ d0 \in Sockfds
      BY <3>1 DEF EarlierInv, MadeFits
    <3>3. ASSUME d = d0 PROVE FALSE
      <4>1. in = << >>
        BY <3>2, <3>3
      <4>2. Len(in) = 0
        BY <4>1
      <4> HIDE DEF in
      <4> QED BY <1>1, <1>2, <4>2
    <3> QED BY <3>2, <3>3
  <2>2. asker.at \in Making => endpoint'[d0] = endpoint[d0]
    BY <1>11, <2>1 DEF Alone
  <2> QED BY <1>1, <2>2 DEF EarlierInv, MadeFits, Peer, d0
<1> QED BY <1>1, <1>11, <1>12, <1>13, PeerKeeps DEF Peer

-----------------------------------------------------------------------------
LEMMA EarlierStepKeeps == EarlierInv /\ [EarlierNext]_earlierVars => EarlierInv'
<1> SUFFICES ASSUME EarlierInv, [EarlierNext]_earlierVars PROVE EarlierInv'
  OBVIOUS
<1>1. CASE UNCHANGED earlierVars
  <2>1. UNCHANGED <<endpoint, asker, given, dropped>>
    BY <1>1 DEF earlierVars
  <2>2. EarlierTypes' /\ MadeFits' /\ UsedFits'
    BY <2>1 DEF EarlierInv, EarlierTypes, MadeFits, UsedFits, Peer, d0, AllAre
  <2>3. \A d \in DOMAIN given' : GivenFits(d)' /\ OnTheWay(d)'
    BY <2>1 DEF EarlierInv, GivenFits, OnTheWay, Peer, d0, AllAre, InHand
  <2> QED BY <2>1, <2>2, <2>3 DEF EarlierInv, Peer, d0
<1>2. ASSUME NEW op \in UdpMaker \cup TcpMakers, NEW bufsize \in {0, 1}, Socket(op, bufsize)
      PROVE  EarlierInv'
  BY <1>2, SocketKeeps
<1>3. CASE BufferSet \/ BufferRefused
  BY <1>3, BufferKeeps
<1>4. CASE Udp_socket \/ Tcp_connect
  BY <1>4, HandedKeeps
<1>5. CASE ConnectBlocking \/ Unblocked \/ Limited \/ ConnectStarts \/ SelectEnds
  BY <1>5, ConnectKeeps
<1>6. CASE connectWithTimeout \/ ConnectFails \/ Abandon
  BY <1>6, ConnectEndsKeeps
<1>7. CASE SendPart
  BY <1>7, SendPartKeeps
<1>8. CASE Fails
  BY <1>8, FailsKeeps
<1>9. CASE Select \/ Interrupted
  BY <1>9, PauseKeeps
<1>10. CASE ReceivePart
  BY <1>10, ReceivePartKeeps
<1>11. CASE BackToClient
  BY <1>11, BackKeeps
<1>12. ASSUME NEW d \in Sockfds,
              \/ SetOption(d) \/ Shutdown(d) \/ writen(d) \/ readn(d) \/ RecvReady(d)
              \/ Arrives(d) \/ ServerAnswers(d) \/ ServerEnds(d)
       PROVE  EarlierInv'
  BY <1>12, SetOptionKeeps, ShutdownKeeps, BeginsKeeps, StateKeeps, AnswersKeeps
<1> QED BY <1>1, <1>2, <1>3, <1>4, <1>5, <1>6, <1>7, <1>8, <1>9, <1>10, <1>11, <1>12 DEF EarlierNext

LEMMA EarlierInvSaysPromised == EarlierInv => EarlierAsPromised
<1> SUFFICES ASSUME EarlierInv PROVE EarlierAsPromised
  OBVIOUS
<1>1. AnswerFitsRequest
  <2> SUFFICES ASSUME NEW d, d = d0, d \in DOMAIN given
               PROVE  /\ Len(asker.ptr) <= given[d].due
                      /\ \A i \in 1 .. Len(asker.ptr) : asker.ptr[i] = given[d].count
    BY DEF AnswerFitsRequest
  <2>1. asker.at \in Using
    <3>1. asker \in Askers /\ asker.at \in {"out"} \cup Making \cup Using
      BY HandIs DEF Askers
    <3>2. asker.at # "out"
      BY RestingIs, EarlierNetAssumption DEF EarlierInv, EarlierTypes, d0
    <3>3. asker.at \notin Making
      BY DEF EarlierInv, MadeFits
    <3> QED BY <3>1, <3>2, <3>3
  <2>2. AllAre(given[d].count, asker.ptr)
    BY <2>1, UsedIs
  <2>3. /\ given[d].due \in Nat /\ Len(asker.ptr) \in Nat /\ OnTheWay(d) /\ asker.nleft \in Nat
        /\ Len(endpoint[d].request) \in Nat /\ Len(endpoint[d].answer) \in Nat
    BY BytesOf, HandIs
  <2> DEFINE q == Len(endpoint[d].request)
             a == Len(endpoint[d].answer)
             p == Len(asker.ptr)
  <2>4. PICK more \in Nat : InHand(d) = p + more
    BY <2>1, <2>3 DEF InHand
  <2>5. q + a + (p + more) <= given[d].due /\ q \in Nat /\ a \in Nat /\ p \in Nat /\ given[d].due \in Nat
    BY <2>3, <2>4, WayWas
  <2> HIDE DEF q, a, p
  <2>6. p <= given[d].due
    BY <2>5
  <2> QED BY <2>2, <2>6 DEF AllAre, p
<1>2. SocketsAsAsked
  BY DEF SocketsAsAsked, EarlierInv, GivenFits, Sockopt_get_recvBuf, Sockopt_get_sendBuf, OptionIsOn
<1> QED BY <1>1, <1>2 DEF EarlierAsPromised

(* The sockets of the earlier client are what it asked for, and what it     *)
(* reads on each is the answer to its last request, in whatever pieces.     *)
THEOREM EarlierIsAsPromised == EarlierSpec => []EarlierAsPromised
<1>1. EarlierInit => EarlierInv
  BY EarlierStarts
<1>2. EarlierInv /\ [EarlierNext]_earlierVars => EarlierInv'
  BY EarlierStepKeeps
<1>3. EarlierInv => EarlierAsPromised
  BY EarlierInvSaysPromised
<1> QED BY <1>1, <1>2, <1>3, PTL DEF EarlierSpec
==============================================================================
