------------------------------ MODULE AtomStream ------------------------------
(***************************************************************************)
(* atomread and atomwrite of backup/tool/tool.c on the two ends of a       *)
(* connection that TCPLinkToServer made, all on Linux.  Each of them calls *)
(* select at most 60 times, a second each, and moves what it can; signals  *)
(* and seconds without a byte use up a try.  A message has MessageLength   *)
(* bytes, and a byte is its number in what the writer means to send.       *)
(***************************************************************************)
EXTENDS Integers, Sequences

CONSTANTS
  MessageLength,
  PipeRoom,       \* bytes between the two ends
  Tries,          \* 60 in the code
  MaxWritten      \* bound: messages begun

ASSUME AtomAssumption ==
  MessageLength \in Nat \ {0} /\ PipeRoom \in Nat \ {0} /\ Tries \in Nat /\ MaxWritten \in Nat

VARIABLES
  link,      \* "none", "made", "bound" or "up": TCPLinkToServer's socket
  pipe,      \* the bytes between the ends
  atomwriter, atomreader,  \* each call: how many bytes remain and tries are left
  buf,       \* the reader's buffer
  begun,     \* history: messages begun
  complete,  \* history: the messages that atomread answered AII_OK for
  broken     \* history: a call has answered AII_ERROR

atomVars == <<link, pipe, atomwriter, atomreader, buf, begun, complete, broken>>

NoCall == [remlen |-> 0, count |-> 0, busy |-> FALSE]
NewCall == [remlen |-> MessageLength, count |-> Tries, busy |-> TRUE]

AtomInit ==
  /\ link = "none"
  /\ pipe = << >> /\ buf = << >>
  /\ atomwriter = NoCall /\ atomreader = NoCall
  /\ begun = 0 /\ complete = << >> /\ broken = FALSE

-----------------------------------------------------------------------------
(* TCPLinkToServer: the socket, which goes on without its buffer size if    *)
(* that is refused, a port of its own and the connection.                   *)
MakeSocket == link = "none" /\ link' = "made"
BindAny == link = "made" /\ link' = "bound"
ConnectIt == link = "bound" /\ link' = "up"
LinkFails == link \in {"made", "bound"} /\ link' = "none"

TCPLinkToServer ==
  /\ MakeSocket \/ BindAny \/ ConnectIt \/ LinkFails
  /\ UNCHANGED <<pipe, atomwriter, atomreader, buf, begun, complete, broken>>

-----------------------------------------------------------------------------
Calls(call) == link = "up" /\ call.busy
Continues(call) == call.remlen > 0 /\ call.count > 0

atomwrite ==
  /\ link = "up" /\ ~atomwriter.busy /\ begun < MaxWritten
  /\ atomwriter' = NewCall
  /\ begun' = begun + 1
  /\ UNCHANGED <<link, pipe, atomreader, buf, complete, broken>>

(* select with nothing to say, for a second or until a signal.              *)
WriteWaits ==
  /\ Calls(atomwriter) /\ Continues(atomwriter)
  /\ atomwriter' = [atomwriter EXCEPT !.count = @ - 1]
  /\ UNCHANGED <<link, pipe, atomreader, buf, begun, complete, broken>>

(* The number of the byte before the one at buf + wlen.                     *)
Written == begun * MessageLength - atomwriter.remlen

WriteSome ==
  /\ Calls(atomwriter) /\ Continues(atomwriter)
  /\ \E ret \in 1 .. atomwriter.remlen :
       /\ Len(pipe) + ret <= PipeRoom
       /\ pipe' = pipe \o [i \in 1 .. ret |-> Written + i]
       /\ atomwriter' = [atomwriter EXCEPT !.remlen = @ - ret, !.count = @ - 1]
  /\ UNCHANGED <<link, atomreader, buf, begun, complete, broken>>

(* AII_OK if nothing remains, AII_ERROR if the tries are used up.           *)
WriteReturns ==
  /\ Calls(atomwriter) /\ ~Continues(atomwriter)
  /\ atomwriter' = NoCall
  /\ broken' = (broken \/ atomwriter.remlen > 0)
  /\ UNCHANGED <<link, pipe, atomreader, buf, begun, complete>>

AtomWriteFails ==
  /\ Calls(atomwriter) /\ Continues(atomwriter)
  /\ atomwriter' = NoCall
  /\ broken' = TRUE
  /\ UNCHANGED <<link, pipe, atomreader, buf, begun, complete>>

-----------------------------------------------------------------------------
atomread ==
  /\ link = "up" /\ ~atomreader.busy
  /\ atomreader' = NewCall
  /\ buf' = << >>
  /\ UNCHANGED <<link, pipe, atomwriter, begun, complete, broken>>

ReadWaits ==
  /\ Calls(atomreader) /\ Continues(atomreader)
  /\ atomreader' = [atomreader EXCEPT !.count = @ - 1]
  /\ UNCHANGED <<link, pipe, atomwriter, buf, begun, complete, broken>>

ReadSome ==
  /\ Calls(atomreader) /\ Continues(atomreader)
  /\ \E ret \in 1 .. atomreader.remlen :
       /\ ret <= Len(pipe)
       /\ buf' = buf \o SubSeq(pipe, 1, ret)
       /\ pipe' = SubSeq(pipe, ret + 1, Len(pipe))
       /\ atomreader' = [atomreader EXCEPT !.remlen = @ - ret, !.count = @ - 1]
  /\ UNCHANGED <<link, atomwriter, begun, complete, broken>>

OkAfterTries(call) == call.count = 0 \/ call.remlen = 0
AnswersOk(call) == call.remlen = 0
ReadReturns ==
  /\ Calls(atomreader) /\ ~Continues(atomreader)
  /\ IF AnswersOk(atomreader)
       THEN complete' = Append(complete, buf) /\ UNCHANGED broken
       ELSE broken' = TRUE /\ UNCHANGED complete
  /\ atomreader' = NoCall /\ buf' = << >>
  /\ UNCHANGED <<link, pipe, atomwriter, begun>>

(* The end of the stream and errors, with some bytes taken already.         *)
AtomReadFails ==
  /\ Calls(atomreader) /\ Continues(atomreader)
  /\ atomreader' = NoCall /\ buf' = << >>
  /\ broken' = TRUE
  /\ UNCHANGED <<link, pipe, atomwriter, begun, complete>>

AtomNext ==
  \/ TCPLinkToServer
  \/ atomwrite \/ WriteWaits \/ WriteSome \/ WriteReturns \/ AtomWriteFails
  \/ atomread \/ ReadWaits \/ ReadSome \/ ReadReturns \/ AtomReadFails

AtomSpec == AtomInit /\ [][AtomNext]_atomVars

-----------------------------------------------------------------------------
AtomMessage(k) == [i \in 1 .. MessageLength |-> (k - 1) * MessageLength + i]

(* Until a call answers AII_ERROR, the messages that atomread answers       *)
(* AII_OK for are those written, whole and in order; after that the two     *)
(* ends may be out of step, because bytes were moved before the error.      *)
AtomReadsWhole ==
  /\ ~broken => \A k \in DOMAIN complete : complete[k] = AtomMessage(k)
  /\ \A k \in DOMAIN complete : Len(complete[k]) = MessageLength
=============================================================================
