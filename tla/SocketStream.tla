----------------------------- MODULE SocketStream -----------------------------
(***************************************************************************)
(* readn and writen of source/socket/netIO.c on the two ends of one stream *)
(* connection.  The writer sends messages of a fixed length, one writen    *)
(* each, and the reader takes them with one readn each, as a protocol with *)
(* a fixed header does.  Both loop over system calls that move some bytes  *)
(* of what they were asked; waiting times end, signals interrupt, the      *)
(* connection fails, the writer closes.  The stream itself is external.    *)
(***************************************************************************)
EXTENDS Integers, Sequences

CONSTANTS
  ReadLength,  \* of a message; the n of every call
  StreamRoom,  \* bytes that fit between the two ends
  MaxMessages  \* bound: the messages a writer sends

ASSUME StreamAssumption ==
  /\ ReadLength \in Nat \ {0}
  /\ StreamRoom \in Nat \ {0}
  /\ MaxMessages \in Nat

VARIABLES
  wire,     \* the bytes between the ends, each the number it has in what the writer means to send
  finished, \* the writer's end is closed
  reader,   \* readn: where it is and how many bytes are left
  vptr,     \* what the reader's buffer holds of this call
  writer,   \* writen, likewise
  composed, \* history: bytes of the messages written so far, the one in writen included
  answered, \* history: bytes that readn has answered with
  failed    \* history: a readn or a writen has answered AII_ERROR

streamVars == <<wire, finished, reader, vptr, writer, composed, answered, failed>>

Idle == [at |-> "out", nleft |-> 0]

StreamInit ==
  /\ wire = <<>> /\ finished = FALSE
  /\ reader = Idle /\ vptr = <<>>
  /\ writer = Idle
  /\ composed = 0 /\ answered = 0
  /\ failed = FALSE

-----------------------------------------------------------------------------
theWriter == <<finished, writer, composed>>
theReader == <<reader, vptr, answered>>

readn ==
  /\ reader.at = "out"
  /\ reader' = [at |-> "select", nleft |-> ReadLength]
  /\ vptr' = <<>>
  /\ UNCHANGED <<wire, theWriter, answered, failed>>

(* select waits until there is something, or the end, to read.              *)
Readable == wire # <<>> \/ finished
SelectRead ==
  /\ reader.at = "select"
  /\ Readable
  /\ reader' = [reader EXCEPT !.at = "recv"]
  /\ UNCHANGED <<wire, theWriter, vptr, answered, failed>>

(* Five seconds without any, a signal, or a recv that fails: AII_ERROR,     *)
(* and the bytes read so far are not reported.                              *)
ReadFails ==
  /\ reader.at \in {"select", "recv"}
  /\ reader' = Idle
  /\ vptr' = <<>>
  /\ failed' = TRUE
  /\ UNCHANGED <<wire, theWriter, answered>>

(* A signal during recv counts as nothing read.                             *)
AfterSignal == "select"

Interrupted ==
  /\ reader.at = "recv"
  /\ reader' = [reader EXCEPT !.at = AfterSignal]
  /\ UNCHANGED <<wire, theWriter, vptr, answered, failed>>

(* The n - nleft that readn answers; the loop ends with none left, or at    *)
(* the end of the stream.                                                   *)
ReadAnswer(nleft) ==
  /\ reader' = Idle
  /\ vptr' = <<>>
  /\ answered' = answered + ReadLength - nleft

WholeRequest == ReadLength
RestOfRequest == reader.nleft

Receive ==
  /\ reader.at = "recv"
  /\ \E nread \in 1 .. RestOfRequest :
       /\ nread <= Len(wire)
       /\ wire' = SubSeq(wire, nread + 1, Len(wire))
       /\ vptr' = vptr \o SubSeq(wire, 1, nread)
       /\ reader' = [at |-> IF reader.nleft - nread > 0 THEN "select" ELSE "done",
                     nleft |-> reader.nleft - nread]
  /\ UNCHANGED <<theWriter, answered, failed>>

EndOfStream ==
  /\ reader.at = "recv"
  /\ finished /\ wire = <<>>
  /\ reader' = [reader EXCEPT !.at = "done"]
  /\ UNCHANGED <<wire, theWriter, vptr, answered, failed>>

ReturnRead ==
  /\ reader.at = "done"
  /\ ReadAnswer(reader.nleft)
  /\ UNCHANGED <<wire, theWriter, failed>>

-----------------------------------------------------------------------------
writen ==
  /\ writer.at = "out"
  /\ ~finished
  /\ composed < MaxMessages * ReadLength
  /\ writer' = [at |-> "send", nleft |-> ReadLength]
  /\ composed' = composed + ReadLength
  /\ UNCHANGED <<wire, finished, theReader, failed>>

(* The number of the byte before the one that ptr stands at.                *)
FromStart == composed - ReadLength
Sent == composed - writer.nleft

(* send takes what fits, at least one byte.                                 *)
SendSome ==
  /\ writer.at = "send"
  /\ \E nwritten \in 1 .. writer.nleft :
       /\ Len(wire) + nwritten <= StreamRoom
       /\ wire' = wire \o [i \in 1 .. nwritten |-> Sent + i]
       /\ writer' = IF nwritten = writer.nleft
                      THEN Idle
                      ELSE [writer EXCEPT !.nleft = @ - nwritten]
  /\ UNCHANGED <<finished, composed, theReader, failed>>

(* The connection fails; or the stream is full and SetsockNBlock was called. *)
SendFails ==
  /\ writer.at = "send"
  /\ writer' = Idle
  /\ failed' = TRUE
  /\ UNCHANGED <<wire, finished, composed, theReader>>

CloseStream ==
  /\ writer.at = "out" /\ ~finished
  /\ finished' = TRUE
  /\ UNCHANGED <<wire, writer, composed, theReader, failed>>

StreamNext ==
  \/ readn \/ SelectRead \/ ReadFails \/ Interrupted \/ Receive \/ EndOfStream \/ ReturnRead
  \/ writen \/ SendSome \/ SendFails \/ CloseStream

StreamSpec == StreamInit /\ [][StreamNext]_streamVars

-----------------------------------------------------------------------------
(* As long as no call has answered AII_ERROR, every readn is given the next *)
(* bytes of what was written, in order, none twice and none left out,       *)
(* however the system calls cut the stream into pieces; and never more than *)
(* its buffer has room for.                                                 *)
StreamInStep ==
  /\ Len(vptr) <= ReadLength
  /\ ~failed => \A i \in 1 .. Len(vptr) : vptr[i] = answered + i

(* A readn answers fewer bytes than it was asked only at the end of the     *)
(* stream, and the bytes that writen answered for are then all read.        *)
ShortOnlyAtEnd ==
  reader.at = "done" /\ reader.nleft > 0 =>
    /\ finished /\ wire = <<>>
    /\ ~failed => answered + Len(vptr) = composed

(* readn gives its callers the whole stream, in step and up to its end.     *)
StreamIsRead == StreamInStep /\ ShortOnlyAtEnd
=============================================================================
