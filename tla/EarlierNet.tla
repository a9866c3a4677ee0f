------------------------------ MODULE EarlierNet ------------------------------
(***************************************************************************)
(* A client of the earlier network library, backup/osi/netApiWrap: it      *)
(* makes TCP connections with and without a time limit (tcpApiWrap.c),     *)
(* sets options (sockopt.c, ioctl.c), and on each connection writes        *)
(* requests and reads the answers (netIO.c).  The server answers each      *)
(* request once, at any time, also after the client stopped waiting.  The  *)
(* kernel's sockets and the server are external.                           *)
(***************************************************************************)
EXTENDS Integers, Sequences

CONSTANTS
  Sockfds,
  NoSockfd,      \* -1 in the place of a descriptor
  RequestLength, \* bytes of a request, and of its answer
  MaxRequests    \* bound: requests on one connection

ASSUME EarlierNetAssumption ==
  /\ NoSockfd \notin Sockfds
  /\ RequestLength \in Nat \ {0} /\ MaxRequests \in Nat

VARIABLES
  endpoint, \* the kernel's socket behind each descriptor
  asker,    \* the call the client is in
  given,    \* what the client was given and asked for: a partial function of the descriptors
  dropped   \* history: descriptors that a call left open and did not answer with

earlierVars == <<endpoint, asker, given, dropped>>

UdpMaker == {"Udp_socket"}
TcpMakers == {"Tcp_connect", "Tcp_connect_nb"}

None == [state |-> "closed", blocking |-> TRUE, options |-> {},
         request |-> << >>, answer |-> << >>]
New == [None EXCEPT !.state = "new"]
Resting == [at |-> "out", op |-> "none", fd |-> NoSockfd, nleft |-> 0, ptr |-> << >>]

EarlierInit ==
  /\ endpoint = [d \in Sockfds |-> None]
  /\ asker = Resting
  /\ given = << >>
  /\ dropped = {}

-----------------------------------------------------------------------------
d0 == asker.fd
Stands(where) == asker.at = where
Proceed(where) == asker' = [asker EXCEPT !.at = where]
Answered == asker' = Resting
Peer(d) == endpoint[d].state

(* Of a buffer, whether the caller's size is in force.                      *)
SetOptionOn(d, optname) == endpoint' = [endpoint EXCEPT ![d].options = @ \cup {optname}]
OptionIsOn(d, optname) == optname \in endpoint[d].options

Sockopt_set_recvBuf(d) == SetOptionOn(d, "SO_RCVBUF")
Sockopt_get_recvBuf(d) == OptionIsOn(d, "SO_RCVBUF")
Sockopt_set_sendBuf(d) == SetOptionOn(d, "SO_SNDBUF")
Sockopt_get_sendBuf(d) == OptionIsOn(d, "SO_SNDBUF")
Sockopt_set_lingerOn(d) == SetOptionOn(d, "SO_LINGER")
Sockopt_set_reuse(d) == SetOptionOn(d, "SO_REUSEADDR")
Sock_noBlock(d) == endpoint' = [endpoint EXCEPT ![d].blocking = FALSE]
Sock_block(d) == endpoint' = [endpoint EXCEPT ![d].blocking = TRUE]

Close(d) == endpoint' = [endpoint EXCEPT ![d] = None]

(* The client's record of a descriptor: its failures and what is due on it. *)
Handed(d, sized, kind) ==
  given' = [e \in DOMAIN given \cup {d} |->
              IF e # d THEN given[e]
              ELSE [kind |-> kind, options |-> IF sized THEN {"SO_RCVBUF"} ELSE {},
                    blocking |-> TRUE, count |-> 0, due |-> 0, failed |-> FALSE]]
Forget(d) == given' = [e \in DOMAIN given \ {d} |-> given[e]]

-----------------------------------------------------------------------------
(* Socket(); an address or a port of 0, or no descriptor, ends the call with *)
(* nothing done.                                                            *)
Onto(op) == CASE op = "Udp_socket" -> "made" [] op = "Tcp_connect" -> "connect"
              [] op = "Tcp_connect_nb" -> "limit"

Socket(op, bufsize) ==
  /\ Stands("out")
  /\ \E d \in Sockfds :
       /\ Peer(d) = "closed"
       /\ endpoint' = [endpoint EXCEPT ![d] = New]
       /\ asker' = [Resting EXCEPT !.at = IF bufsize > 0 THEN "size" ELSE Onto(op),
                                   !.op = op, !.fd = d, !.nleft = bufsize]
  /\ UNCHANGED <<given, dropped>>

BufferSet ==
  /\ Stands("size")
  /\ Sockopt_set_recvBuf(d0)
  /\ Proceed(Onto(asker.op))
  /\ UNCHANGED <<given, dropped>>

(* Udp_socket does not close what it made.                                  *)
LeaveOpen == UNCHANGED endpoint /\ dropped' = dropped \cup {d0}
CloseAgain == Close(d0) /\ UNCHANGED dropped

BufferRefused ==
  /\ Stands("size")
  /\ IF asker.op \in UdpMaker THEN LeaveOpen ELSE CloseAgain
  /\ Answered
  /\ UNCHANGED given

Udp_socket ==
  /\ Stands("made")
  /\ Handed(d0, asker.nleft > 0, "datagram")
  /\ Answered
  /\ UNCHANGED <<endpoint, dropped>>

(* connect() on a new blocking socket.                                      *)
ConnectBlocking ==
  /\ Stands("connect")
  /\ endpoint' = [endpoint EXCEPT ![d0].state = "trying"]
  /\ Proceed("blocked")
  /\ UNCHANGED <<given, dropped>>

Unblocked ==
  /\ Stands("blocked")
  /\ Peer(d0) \in {"up", "refused"}
  /\ Proceed(IF Peer(d0) = "up" THEN "connected" ELSE "failed")
  /\ UNCHANGED <<endpoint, given, dropped>>

(* connectWithTimeout, in its steps.                                        *)
Limited ==
  /\ Stands("limit")
  /\ Sock_noBlock(d0)
  /\ Proceed("start")
  /\ UNCHANGED <<given, dropped>>

ConnectStarts ==
  /\ Stands("start")
  /\ \/ /\ endpoint' = [endpoint EXCEPT ![d0].state = "trying"]   \* EINPROGRESS
        /\ Proceed("select")
     \/ /\ endpoint' = [endpoint EXCEPT ![d0].state = "up"]
        /\ Proceed("well")
     \/ /\ UNCHANGED endpoint                                     \* another errno
        /\ Proceed("ill")
  /\ UNCHANGED <<given, dropped>>

(* The descriptor can be written when the attempt is over; until then only  *)
(* the waiting time, five seconds for a delay of 0, or a signal ends it.    *)
(* SO_ERROR tells which; getsockopt does not fail for a socket that is open.*)
SelectEnds ==
  /\ Stands("select")
  /\ Proceed(IF Peer(d0) = "up" THEN "well" ELSE "ill")
  /\ UNCHANGED <<endpoint, given, dropped>>

StaysAsItIs(d) == UNCHANGED endpoint
BlocksAgain(d) == Sock_block(d)

connectWithTimeout ==
  /\ Stands("well") \/ Stands("ill")
  /\ BlocksAgain(d0)
  /\ Proceed(IF Stands("well") THEN "connected" ELSE "failed")
  /\ UNCHANGED <<given, dropped>>

Tcp_connect ==
  /\ Stands("connected")
  /\ Handed(d0, asker.nleft > 0, "stream")
  /\ Answered
  /\ UNCHANGED <<endpoint, dropped>>

ConnectFails ==
  /\ Stands("failed")
  /\ Sockopt_set_lingerOn(d0)
  /\ Proceed("abandon")
  /\ UNCHANGED <<given, dropped>>

Abandon ==
  /\ Stands("abandon")
  /\ Close(d0)
  /\ Answered
  /\ UNCHANGED <<given, dropped>>

-----------------------------------------------------------------------------
Holds(d) == Stands("out") /\ d \in DOMAIN given

Asks(d, optname) == given' = [given EXCEPT ![d].options = @ \cup {optname}]

(* Bound: options are set before the first request, on one socket at a time. *)
SetOption(d) ==
  /\ Holds(d) /\ given[d].count = 0
  /\ \A e \in DOMAIN given \ {d} : given[e].options \subseteq {"SO_RCVBUF"}
  /\ \/ Sockopt_set_recvBuf(d) /\ Asks(d, "SO_RCVBUF")
     \/ Sockopt_set_sendBuf(d) /\ Asks(d, "SO_SNDBUF")
     \/ Sockopt_set_reuse(d) /\ Asks(d, "SO_REUSEADDR")
     \/ Sock_noBlock(d) /\ given' = [given EXCEPT ![d].blocking = FALSE]
     \/ Sock_block(d) /\ given' = [given EXCEPT ![d].blocking = TRUE]
  /\ UNCHANGED <<asker, dropped>>

Shutdown(d) ==
  /\ Holds(d)
  /\ Close(d)
  /\ Forget(d)
  /\ UNCHANGED <<asker, dropped>>

(* A client does not go on with a connection on which a call failed.        *)
Stream(d) == Holds(d) /\ given[d].kind = "stream" /\ ~given[d].failed

(* The client sends a request when nothing is due any more.  Bound: on one   *)
(* of its connections.                                                      *)
writen(d) ==
  /\ Stream(d)
  /\ \A e \in DOMAIN given \ {d} : given[e].count = 0
  /\ given[d].due = 0 /\ given[d].count < MaxRequests
  /\ asker' = [at |-> "send", op |-> "writen", fd |-> d, nleft |-> RequestLength, ptr |-> << >>]
  /\ given' = [given EXCEPT ![d].count = @ + 1, ![d].due = RequestLength]
  /\ UNCHANGED <<endpoint, dropped>>

Moved(nwritten) == nwritten

(* A signal sends nothing.                                                  *)
SendPart ==
  /\ Stands("send")
  /\ \E nwritten \in 1 .. asker.nleft :
       /\ endpoint' = [endpoint EXCEPT ![d0].request =
                         @ \o [i \in 1 .. nwritten |-> given[d0].count]]
       /\ LET nleft == asker.nleft - Moved(nwritten)
          IN asker' = IF nleft = 0 THEN Resting ELSE [asker EXCEPT !.nleft = nleft]
  /\ Len(endpoint'[d0].request) <= MaxRequests * RequestLength
  /\ UNCHANGED <<given, dropped>>

(* AII_ERROR of writen, of readn and of Recv: an error of the system, five  *)
(* seconds without a byte, a full or an empty socket that is not blocking.  *)
Fails ==
  /\ asker.at \in {"send", "wait", "receive"}
  /\ given' = [given EXCEPT ![d0].failed = TRUE]
  /\ Answered
  /\ UNCHANGED <<endpoint, dropped>>

readn(d) ==
  /\ Stream(d)
  /\ given[d].due > 0
  /\ asker' = [at |-> "wait", op |-> "readn", fd |-> d, nleft |-> given[d].due, ptr |-> << >>]
  /\ UNCHANGED <<endpoint, given, dropped>>

(* Recv, which a client may call for as many bytes as are there.            *)
ioctl_sockBuf_datas(d) == Len(endpoint[d].answer)
RecvReady(d) ==
  /\ Stream(d)
  /\ given[d].due > 0 /\ ioctl_sockBuf_datas(d) > 0
  /\ asker' = [at |-> "receive", op |-> "Recv", fd |-> d, ptr |-> << >>,
               nleft |-> IF ioctl_sockBuf_datas(d) < given[d].due
                           THEN ioctl_sockBuf_datas(d) ELSE given[d].due]
  /\ UNCHANGED <<endpoint, given, dropped>>

Ended(d) == Peer(d) = "ended" /\ endpoint[d].answer = << >>

Select ==
  /\ Stands("wait")
  /\ endpoint[d0].answer # << >> \/ Ended(d0)
  /\ Proceed("receive")
  /\ UNCHANGED <<endpoint, given, dropped>>

(* What recv puts at ptr; another round of readn, or back to the client.    *)
RecvTakes(bytes) ==
  LET nleft == asker.nleft - Len(bytes) IN
  asker' = [asker EXCEPT
    !.at = IF nleft > 0 /\ bytes # << >> /\ asker.op = "readn" THEN "wait" ELSE "back",
    !.nleft = nleft, !.ptr = @ \o bytes]

ReceivePart ==
  /\ Stands("receive")
  /\ \/ \E nread \in 1 .. asker.nleft :
          /\ nread <= Len(endpoint[d0].answer)
          /\ endpoint' = [endpoint EXCEPT ![d0].answer = SubSeq(@, nread + 1, Len(@))]
          /\ RecvTakes(SubSeq(endpoint[d0].answer, 1, nread))
     \/ /\ Ended(d0)
        /\ RecvTakes(<< >>)
        /\ UNCHANGED endpoint
  /\ UNCHANGED <<given, dropped>>

(* EINTR in readn counts as nothing read.                                   *)
Interrupted ==
  /\ Stands("receive") /\ asker.op = "readn"
  /\ Proceed("wait")
  /\ UNCHANGED <<endpoint, given, dropped>>

(* The bytes of the answer that are still due.                              *)
BackToClient ==
  /\ Stands("back")
  /\ given' = [given EXCEPT ![d0].due = @ - Len(asker.ptr)]
  /\ Answered
  /\ UNCHANGED <<endpoint, dropped>>

-----------------------------------------------------------------------------
Arrives(d) ==
  /\ Peer(d) = "trying"
  /\ \E s \in {"up", "refused"} : endpoint' = [endpoint EXCEPT ![d].state = s]
  /\ UNCHANGED <<asker, given, dropped>>

(* To each request the server reads, an answer that bears its number.       *)
ServerAnswers(d) ==
  /\ Peer(d) = "up"
  /\ LET in == endpoint[d].request IN
       /\ Len(in) >= RequestLength
       /\ endpoint' = [endpoint EXCEPT
            ![d].request = SubSeq(in, RequestLength + 1, Len(in)),
            ![d].answer = @ \o [i \in 1 .. RequestLength |-> in[i]]]
  /\ UNCHANGED <<asker, given, dropped>>

ServerEnds(d) ==
  /\ Peer(d) = "up"
  /\ endpoint' = [endpoint EXCEPT ![d].state = "ended"]
  /\ UNCHANGED <<asker, given, dropped>>

EarlierNext ==
  \/ \E op \in UdpMaker \cup TcpMakers, bufsize \in {0, 1} : Socket(op, bufsize)
  \/ BufferSet \/ BufferRefused \/ Udp_socket
  \/ ConnectBlocking \/ Unblocked
  \/ Limited \/ ConnectStarts \/ SelectEnds \/ connectWithTimeout
  \/ Tcp_connect \/ ConnectFails \/ Abandon
  \/ SendPart \/ Fails \/ Select \/ ReceivePart \/ Interrupted \/ BackToClient
  \/ \E d \in Sockfds :
       \/ SetOption(d) \/ Shutdown(d) \/ writen(d) \/ readn(d) \/ RecvReady(d)
       \/ Arrives(d) \/ ServerAnswers(d) \/ ServerEnds(d)

EarlierSpec == EarlierInit /\ [][EarlierNext]_earlierVars

-----------------------------------------------------------------------------
(* What a reader takes on a connection is the answer to the request it sent *)
(* last on that connection, byte for byte, however the system cut requests  *)
(* and answers into pieces and whatever connections the descriptor had      *)
(* before.                                                                  *)
AnswerFitsRequest ==
  d0 \in DOMAIN given =>
    /\ Len(asker.ptr) <= given[d0].due
    /\ \A i \in 1 .. Len(asker.ptr) : asker.ptr[i] = given[d0].count

(* A descriptor that the client was given is open, is connected if that was *)
(* promised, and has the options and the mode that the client asked for,    *)
(* also after a connect that needed another mode; every other open one is   *)
(* in the call that made it, or was left open by Udp_socket.                *)
SocketsAsAsked ==
  \A d \in Sockfds :
    IF d \in DOMAIN given
      THEN /\ given[d].kind = "stream" => Peer(d) \in {"up", "ended"}
           /\ Peer(d) # "closed"
           /\ endpoint[d].blocking = given[d].blocking
           /\ Sockopt_get_recvBuf(d) = ("SO_RCVBUF" \in given[d].options)
           /\ Sockopt_get_sendBuf(d) = ("SO_SNDBUF" \in given[d].options)
           /\ ~OptionIsOn(d, "SO_LINGER")
      ELSE Peer(d) # "closed" => d = d0 \/ d \in dropped

(* The earlier client's sockets and answers are what it asked for.          *)
EarlierAsPromised == AnswerFitsRequest /\ SocketsAsAsked
=============================================================================
