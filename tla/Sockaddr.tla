------------------------------- MODULE Sockaddr -------------------------------
(***************************************************************************)
(* Addresses as text and as numbers: source/socket/sockaddr.c on Linux.    *)
(* sock_ntop writes its text into a static buffer that all threads share,  *)
(* and Sock_ntop copies it to the caller afterwards.  A text is the        *)
(* address it was made from; inet_ntop and inet_pton are the C library's.  *)
(***************************************************************************)
EXTENDS Integers, Sequences

CONSTANTS
  Callers,
  Inet4, Inet6,   \* addresses
  Broadcast,      \* the one of Inet4 whose number is -1
  OtherFamily,    \* what has neither family
  Garbage         \* a text that is no address

ASSUME SockaddrAssumption ==
  /\ Broadcast \in Inet4 /\ Inet4 \cap Inet6 = {}
  /\ OtherFamily \notin Inet4 \cup Inet6 /\ Garbage \notin Inet4 \cup Inet6
  /\ -1 \notin Inet4 \cup Inet6 \cup {OtherFamily}

VARIABLES
  reached,  \* of each caller: "out", or after sock_ntop "copy" or "copy_v4"
  sa,       \* the address it asks about
  str,      \* the static buffer
  ptr,      \* where in it the caller's text begins
  ipStr,    \* the text each caller was given last
  number,   \* the address or the -1 that Sock_pton gave it for that text
  answer0,  \* history: the answer was 0
  beside    \* history: another caller was in sock_ntop or copying during the call

sockaddrVars == <<reached, sa, str, ptr, ipStr, number, answer0, beside>>

Family(a) ==
  IF a \in Inet4 THEN "AF_INET" ELSE IF a \in Inet6 THEN "AF_INET6" ELSE "other"

SockaddrInit ==
  /\ reached = [c \in Callers |-> "out"]
  /\ sa = [c \in Callers |-> OtherFamily]
  /\ str = << >>
  /\ ptr = [c \in Callers |-> 1]
  /\ ipStr = [c \in Callers |-> << >>]
  /\ number = [c \in Callers |-> OtherFamily]
  /\ answer0 = [c \in Callers |-> FALSE]
  /\ beside = [c \in Callers |-> FALSE]

-----------------------------------------------------------------------------
(* The library's: the text of an address in a buffer, and back.             *)
inet_ntop(a) == <<a>>
inet_pton(family, text) ==
  IF Len(text) = 1 /\ Family(text[1]) = family THEN text[1] ELSE -1

Inet_pton(family, text) == inet_pton(family, text)
Inet_ntop(a) == inet_ntop(a)

-----------------------------------------------------------------------------
(* The buffer and where the text begins: after a bracket that is not shown. *)
UnknownText == <<OtherFamily>>
Bracket == -2

Converted(a) ==
  CASE Family(a) = "AF_INET" -> Inet_ntop(a)
    [] Family(a) = "AF_INET6" -> <<Bracket>> \o Inet_ntop(a)
    [] OTHER -> UnknownText
FromBracket(a) == 1
TextStart(a) == IF Family(a) = "AF_INET6" THEN 2 ELSE 1

(* Those who are about to copy what the call writes over.                   *)
Inside(c) == {other \in Callers \ {c} : reached[other] # "out"}

sock_ntop(c, a, next) ==
  /\ reached[c] = "out"
  /\ str' = Converted(a)
  /\ ptr' = [ptr EXCEPT ![c] = TextStart(a)]
  /\ sa' = [sa EXCEPT ![c] = a]
  /\ reached' = [reached EXCEPT ![c] = next]
  /\ answer0' = [answer0 EXCEPT ![c] = FALSE]
  /\ number' = [number EXCEPT ![c] = OtherFamily]
  /\ beside' = [d \in Callers |->
                 IF d = c THEN Inside(c) # {} ELSE beside[d] \/ d \in Inside(c)]
  /\ UNCHANGED ipStr

(* What two callers write and copy at once can be any mixture.              *)
CopyText(c) ==
  /\ \E text \in {SubSeq(str, ptr[c], Len(str))} \cup (IF beside[c] THEN {<<Garbage>>} ELSE {}) :
       ipStr' = [ipStr EXCEPT ![c] = text]
  /\ answer0' = [answer0 EXCEPT ![c] = TRUE]
  /\ reached' = [reached EXCEPT ![c] = "out"]
  /\ UNCHANGED <<sa, str, ptr, number, beside>>

Sock_ntop(c) == reached[c] = "copy" /\ CopyText(c)
Sock_ntop_v4(c) == reached[c] = "copy_v4" /\ CopyText(c)

sock_pton(text, family) ==
  IF family \in {"AF_INET", "AF_INET6"} THEN Inet_pton(family, text) ELSE -1

TakeNumber(c, n) ==
  /\ reached[c] = "out" /\ answer0[c]
  /\ number' = [number EXCEPT ![c] = n]
  /\ UNCHANGED <<reached, sa, str, ptr, ipStr, answer0, beside>>

(* The caller fills in the family of the address it expects.                *)
Sock_pton(c) == TakeNumber(c, sock_pton(ipStr[c], Family(sa[c])))

(* The number itself: that of Broadcast is -1.                              *)
AsInt(a) == IF a = Broadcast THEN -1 ELSE a
Sock_pton_v4(c) == TakeNumber(c, AsInt(sock_pton(ipStr[c], "AF_INET")))

(* A text from elsewhere.                                                   *)
Edit(c) ==
  /\ reached[c] = "out"
  /\ ipStr' = [ipStr EXCEPT ![c] = <<Garbage>>]
  /\ sa' = [sa EXCEPT ![c] = Garbage]
  /\ number' = [number EXCEPT ![c] = OtherFamily]
  /\ answer0' = [answer0 EXCEPT ![c] = TRUE]
  /\ beside' = [beside EXCEPT ![c] = FALSE]
  /\ UNCHANGED <<reached, str, ptr>>

SockaddrNext ==
  \E c \in Callers :
    \/ \E a \in Inet4 \cup Inet6 \cup {OtherFamily} : sock_ntop(c, a, "copy")
    \/ \E a \in Inet4 : sock_ntop(c, a, "copy_v4")
    \/ Sock_ntop(c) \/ Sock_ntop_v4(c) \/ Edit(c)
    \/ Sock_pton(c) \/ Sock_pton_v4(c)

SockaddrSpec == SockaddrInit /\ [][SockaddrNext]_sockaddrVars

-----------------------------------------------------------------------------
(* A caller that nobody was beside in sock_ntop and the copying after it    *)
(* gets its address back for the text, and -1 only for the one whose number *)
(* that is: whatever earlier callers, of either family or beside each       *)
(* other, left in the static buffer (sockaddr.c:92).  An address of no      *)
(* known family is answered 0 as well, with a text that says so.            *)
AddressesReadBack ==
  \A c \in Callers :
    ~beside[c] =>
      /\ reached[c] = "out" /\ answer0[c] /\ sa[c] # Garbage =>
           ipStr[c] = IF sa[c] = OtherFamily THEN UnknownText ELSE <<sa[c]>>
      /\ number[c] \in {OtherFamily, sa[c], -1}
      /\ number[c] = -1 /\ sa[c] \in Inet4 => sa[c] = Broadcast
=============================================================================
