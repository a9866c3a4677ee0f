------------------------------ MODULE TcpConnect ------------------------------
(***************************************************************************)
(* Sockets and TCP connections: source/socket/basicApiWrap.c with the      *)
(* options and modes it sets (sockopt.c, ioctl.c).  Threads make sockets,  *)
(* connect them with and without a time limit, accept and close; the peer  *)
(* and the network decide at any time what becomes of an attempt, also of  *)
(* one whose caller has given up.  The kernel's sockets are external.      *)
(***************************************************************************)
EXTENDS Integers

CONSTANTS
  Clients,
  Descriptors,
  NoSocket      \* the answer -1 of a function that answers with a descriptor

ASSUME ConnectAssumption == NoSocket \notin Descriptors

VARIABLES
  sock,     \* the kernel's socket behind each descriptor
  call,     \* the call each thread is in
  owned,     \* the descriptors each thread was given and has not closed
  told,     \* history: open descriptors whose holder was told they are connected
  lost      \* history: open descriptors that no thread was told of

connVars == <<sock, call, owned, told, lost>>

Makers == {"Udp_socket", "Tcp_socket"}
ToServer == {"Tcp_connectToServer", "Tcp_timedconnectToServer"}
Attempts == {"Connect", "ConnectWithTimeout"}

Closed == [state |-> "closed", blocking |-> TRUE, linger |-> FALSE]
Fresh == [Closed EXCEPT !.state = "fresh"]
Outside == [at |-> "out", op |-> "none", fd |-> NoSocket]

ConnInit ==
  /\ sock = [d \in Descriptors |-> Closed]
  /\ call = [c \in Clients |-> Outside]
  /\ owned = [c \in Clients |-> {}]
  /\ told = {}
  /\ lost = {}

-----------------------------------------------------------------------------
State(d) == sock[d].state
Becomes(d, s) == sock' = [sock EXCEPT ![d].state = s]
At(c, where) == call[c].at = where
GoTo(c, where) == call' = [call EXCEPT ![c].at = where]

Leave(c) == call' = [call EXCEPT ![c] = Outside]

(* A descriptor that the caller did not have before becomes its own.        *)
Give(c, d) == owned' = [owned EXCEPT ![c] = @ \cup {d}]

Shut(d) ==
  /\ sock' = [sock EXCEPT ![d] = Closed]
  /\ told' = told \ {d}

-----------------------------------------------------------------------------
(* socket(), the start of four functions; where they go on, with a buffer   *)
(* size to set or without.                                                  *)
After(op) == CASE op \in Makers -> "return"
               [] op = "Tcp_connectToServer" -> "connect"
               [] op = "Tcp_timedconnectToServer" -> "nonblock"

Socket(c, op, sized) ==
  /\ At(c, "out")
  /\ \E d \in Descriptors :
       /\ State(d) = "closed"
       /\ sock' = [sock EXCEPT ![d] = Fresh]
       /\ call' = [call EXCEPT ![c] =
                     [at |-> IF sized THEN "buffer" ELSE After(op), op |-> op, fd |-> d]]
  /\ UNCHANGED <<owned, told, lost>>

(* No descriptor left, or an address or a port of zero.                     *)
NotMade(c, op) ==
  /\ At(c, "out")
  /\ UNCHANGED connVars

SetsockRecvBuf(c) ==
  /\ At(c, "buffer")
  /\ GoTo(c, After(call[c].op))
  /\ UNCHANGED <<sock, owned, told, lost>>

ReturnSocket(c) ==
  /\ At(c, "return")
  /\ Give(c, call[c].fd)
  /\ Leave(c)
  /\ UNCHANGED <<sock, told, lost>>

(* The kernel refuses the size: Udp_socket and Tcp_socket return.           *)
NoBuffer(c) ==
  /\ At(c, "buffer")
  /\ call[c].op \in Makers
  /\ lost' = lost \cup {call[c].fd}
  /\ Leave(c)
  /\ UNCHANGED <<sock, owned, told>>

(* The two that connect close the socket first.                             *)
CloseUnsized(d) == Shut(d)

NoBufferNoConnection(c) ==
  /\ At(c, "buffer")
  /\ call[c].op \in ToServer
  /\ CloseUnsized(call[c].fd)
  /\ Leave(c)
  /\ UNCHANGED <<owned, lost>>

(* A failed tcp_connect or tcp_timedconnect closes its socket.              *)
SetsockLingerOn(c) ==
  /\ At(c, "linger")
  /\ sock' = [sock EXCEPT ![call[c].fd].linger = TRUE]
  /\ GoTo(c, "abandon")
  /\ UNCHANGED <<owned, told, lost>>

Abandon(c) ==
  /\ At(c, "abandon")
  /\ Shut(call[c].fd)
  /\ Leave(c)
  /\ UNCHANGED <<owned, lost>>

FailedAtOnce(c) == IF call[c].op \in ToServer THEN GoTo(c, "abandon") ELSE Leave(c)
Failed(c) == IF call[c].op \in ToServer THEN GoTo(c, "linger") ELSE Leave(c)

Succeeded(c) ==
  /\ Give(c, call[c].fd)
  /\ told' = told \cup {call[c].fd}
  /\ Leave(c)
  /\ UNCHANGED <<sock, lost>>

-----------------------------------------------------------------------------
(* Connect and ConnectWithTimeout on a descriptor the thread holds, perhaps *)
(* again after an attempt that failed.                                      *)
Try(c, op, d) ==
  /\ At(c, "out")
  /\ d \in owned[c]
  /\ State(d) # "listening"
  /\ call' = [call EXCEPT ![c] =
                [at |-> IF op = "Connect" THEN "connect" ELSE "nonblock", op |-> op, fd |-> d]]
  /\ UNCHANGED <<sock, owned, told, lost>>

(* connect() on a socket, most often a blocking one.                        *)
Connect(c) ==
  /\ At(c, "connect")
  /\ \/ /\ State(call[c].fd) \in {"fresh", "trying"}
        /\ Becomes(call[c].fd, "trying")
        /\ GoTo(c, "waiting")
     \/ /\ State(call[c].fd) = "up"             \* EISCONN
        /\ Failed(c)
        /\ UNCHANGED sock
     \/ /\ State(call[c].fd) = "refused"
        /\ Becomes(call[c].fd, "fresh")
        /\ Failed(c)
  /\ UNCHANGED <<owned, told, lost>>

Connected(c) ==
  /\ At(c, "waiting")
  /\ State(call[c].fd) = "up"
  /\ Succeeded(c)

(* The peer's no, a signal, or no waiting in a socket that is not blocking. *)
NotConnected(c) ==
  /\ At(c, "waiting")
  /\ State(call[c].fd) \in {"trying", "refused"}
  /\ Becomes(call[c].fd, IF State(call[c].fd) = "refused" THEN "fresh" ELSE "trying")
  /\ Failed(c)
  /\ UNCHANGED <<owned, told, lost>>

(* ConnectWithTimeout: FIONBIO, connect, select, SO_ERROR, FIONBIO.         *)
NonBlocking(c) ==
  /\ At(c, "nonblock")
  /\ sock' = [sock EXCEPT ![call[c].fd].blocking = FALSE]
  /\ GoTo(c, "start")
  /\ UNCHANGED <<owned, told, lost>>

Start(c) ==
  /\ At(c, "start")
  /\ \/ /\ State(call[c].fd) = "fresh"          \* EINPROGRESS
        /\ Becomes(call[c].fd, "trying")
        /\ GoTo(c, "select")
     \/ /\ State(call[c].fd) = "fresh"          \* at once
        /\ Becomes(call[c].fd, "up")
        /\ GoTo(c, "yes")
     \/ /\ State(call[c].fd) \in {"trying", "up"}  \* EALREADY, EISCONN
        /\ GoTo(c, "no")
        /\ UNCHANGED sock
     \/ /\ State(call[c].fd) \in {"fresh", "refused"}
        /\ Becomes(call[c].fd, "fresh")
        /\ GoTo(c, "no")
  /\ UNCHANGED <<owned, told, lost>>

(* A socket is writable when the attempt is over, whatever its result.      *)
WritableIsUp(s) == IF s = "trying" THEN "no" ELSE "yes"
SoError(s) == IF s = "up" THEN "yes" ELSE "no"

(* Also when the time is over or a signal comes.                            *)
Select(c) ==
  LET s == State(call[c].fd) IN
  /\ At(c, "select")
  /\ GoTo(c, SoError(s))
  /\ Becomes(call[c].fd, IF s = "refused" THEN "fresh" ELSE s)
  /\ UNCHANGED <<owned, told, lost>>

Restore(c) ==
  /\ At(c, "yes") \/ At(c, "no")
  /\ sock' = [sock EXCEPT ![call[c].fd].blocking = TRUE]
  /\ GoTo(c, IF At(c, "yes") THEN "connected" ELSE "failed")
  /\ UNCHANGED <<owned, told, lost>>

TimedConnected(c) == At(c, "connected") /\ Succeeded(c)

TimedOut(c) ==
  /\ At(c, "failed")
  /\ Failed(c)
  /\ UNCHANGED <<sock, owned, told, lost>>

-----------------------------------------------------------------------------
Owns(c, d) == At(c, "out") /\ d \in owned[c]

Listen(c, d) ==
  /\ Owns(c, d) /\ State(d) \in {"fresh", "listening"}
  /\ Becomes(d, "listening")
  /\ UNCHANGED <<call, owned, told, lost>>

Accept(c, d) ==
  /\ Owns(c, d) /\ State(d) = "listening"
  /\ \E new \in Descriptors :
       /\ State(new) = "closed"
       /\ sock' = [sock EXCEPT ![new] = [Fresh EXCEPT !.state = "up"]]
       /\ Give(c, new)
       /\ told' = told \cup {new}
  /\ UNCHANGED <<call, lost>>

SetsockNBlock(c, d) ==
  /\ Owns(c, d)
  /\ sock' = [sock EXCEPT ![d].blocking = FALSE]
  /\ UNCHANGED <<call, owned, told, lost>>

SetsockBlock(c, d) ==
  /\ Owns(c, d)
  /\ sock' = [sock EXCEPT ![d].blocking = TRUE]
  /\ UNCHANGED <<call, owned, told, lost>>

Close(c, d) ==
  /\ Owns(c, d)
  /\ owned' = [owned EXCEPT ![c] = @ \ {d}]
  /\ Shut(d)
  /\ UNCHANGED <<call, lost>>

(* The network's answer to an attempt.                                      *)
Resolve(d) ==
  /\ State(d) = "trying"
  /\ \E s \in {"up", "refused"} : Becomes(d, s)
  /\ UNCHANGED <<call, owned, told, lost>>

ConnNext ==
  \/ \E c \in Clients :
       \/ \E op \in Makers \cup ToServer :
            NotMade(c, op) \/ \E sized \in BOOLEAN : Socket(c, op, sized)
       \/ SetsockRecvBuf(c) \/ NoBuffer(c) \/ NoBufferNoConnection(c) \/ ReturnSocket(c)
       \/ \E op \in Attempts, d \in Descriptors : Try(c, op, d)
       \/ Connect(c) \/ Connected(c) \/ NotConnected(c)
       \/ NonBlocking(c) \/ Start(c) \/ Select(c) \/ Restore(c)
       \/ TimedConnected(c) \/ TimedOut(c)
       \/ SetsockLingerOn(c) \/ Abandon(c)
       \/ \E d \in Descriptors :
            \/ Listen(c, d) \/ Accept(c, d) \/ Close(c, d)
            \/ SetsockNBlock(c, d) \/ SetsockBlock(c, d)
  \/ \E d \in Descriptors : Resolve(d)

ConnSpec == ConnInit /\ [][ConnNext]_connVars

-----------------------------------------------------------------------------
(* Every open descriptor is known to exactly one thread, which holds it or  *)
(* is in the call that made it; but Udp_socket and Tcp_socket return without *)
(* closing when the buffer size is refused, and forget the descriptor.      *)
Knows(c, d) == d \in owned[c] \/ call[c].fd = d
DescriptorsAreHeld ==
  \A d \in Descriptors :
    /\ State(d) # "closed" => d \in lost \/ \E c \in Clients : Knows(c, d)
    /\ State(d) = "closed" => d \notin lost /\ \A c \in Clients : ~Knows(c, d)
    /\ \A b, c \in Clients : Knows(b, d) /\ Knows(c, d) => b = c

(* A thread that was told its connection is made has it, however late the   *)
(* peer answers and whatever the attempts before it did.                    *)
AnswerTellsConnection == \A d \in told : State(d) = "up"

(* An attempt that its caller gives up is closed with lingering off, so     *)
(* that a peer whose answer comes after the waiting time sees a reset and   *)
(* not the orderly end of a connection that nobody used.                    *)
AbandonedIsReset ==
  [][\A c \in Clients :
       /\ call[c].op \in ToServer
       /\ State(call[c].fd) \in {"trying", "up"}
       /\ sock'[call[c].fd].state = "closed"
       => sock[call[c].fd].linger]_connVars

(* Nobody is told of a connection that is not there, and no descriptor is   *)
(* held by two threads, by none, or after it was closed.                    *)
ConnectionsAsTold == DescriptorsAreHeld /\ AnswerTellsConnection
=============================================================================
