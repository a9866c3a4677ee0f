---------------------------- MODULE StreamProofs -----------------------------
(***************************************************************************)
(* Proofs about what is read and written back in pieces: the two pairs of  *)
(* loops that move bytes over a connection, readn and writen               *)
(* (SocketStream), atomread and atomwrite (AtomStream), for messages,      *)
(* pipes and numbers of tries of any size, and the texts that are saved    *)
(* line by line (TextEdit), for any number of threads, words and lines.    *)
(***************************************************************************)
EXTENDS SocketStream, AtomStream, TextEdit, SequenceTheorems, FiniteSetTheorems, TLAPS

(* SocketStream and AtomStream: what a reader is given is the next of what  *)
(* was written.                                                             *)

(* Bytes that follow the one with number b.                                 *)
RunFrom(b, s) == \A i \in 1 .. Len(s) : s[i] = b + i

(* Bytes that move from one sequence to the end of the one before it.       *)
LEMMA BytesMove ==
  ASSUME NEW s \in Seq(Nat), NEW t \in Seq(Nat), NEW k \in 1 .. Len(t)
  PROVE  /\ s \o SubSeq(t, 1, k) \in Seq(Nat) /\ SubSeq(t, k + 1, Len(t)) \in Seq(Nat)
         /\ Len(s \o SubSeq(t, 1, k)) = Len(s) + k /\ Len(SubSeq(t, k + 1, Len(t))) = Len(t) - k
         /\ \A b \in Nat : RunFrom(b, s) /\ RunFrom(b + Len(s), t) =>
              RunFrom(b, s \o SubSeq(t, 1, k)) /\ RunFrom(b + Len(s) + k, SubSeq(t, k + 1, Len(t)))
<1> DEFINE u == SubSeq(t, 1, k)
           r == SubSeq(t, k + 1, Len(t))
<1>1. u \in Seq(Nat) /\ Len(u) = k /\ \A i \in 1 .. k : u[i] = t[i]
  OBVIOUS
<1>2. r \in Seq(Nat) /\ Len(r) = Len(t) - k /\ \A i \in 1 .. Len(r) : r[i] = t[k + i]
  OBVIOUS
<1> HIDE DEF u, r
<1>3. /\ s \o u \in Seq(Nat) /\ Len(s \o u) = Len(s) + k
      /\ \A i \in 1 .. Len(s) + k : (s \o u)[i] = IF i <= Len(s) THEN s[i] ELSE u[i - Len(s)]
  <2>1. u \in Seq(Nat) /\ Len(u) = k
    BY <1>1
  <2> QED BY <2>1, ConcatProperties
<1>4. ASSUME NEW b \in Nat, RunFrom(b, s), RunFrom(b + Len(s), t)
      PROVE  RunFrom(b, s \o u) /\ RunFrom(b + Len(s) + k, r)
  <2>1. ASSUME NEW i \in 1 .. Len(s \o u) PROVE (s \o u)[i] = b + i
    <3>1. i \in 1 .. Len(s) + k /\ i \in Nat /\ Len(s) \in Nat
      BY <1>3, <2>1
    <3>2. CASE i <= Len(s)
      BY <1>3, <1>4, <3>1, <3>2 DEF RunFrom
    <3>3. CASE ~(i <= Len(s))
      <4>1. i - Len(s) \in 1 .. k /\ i - Len(s) \in 1 .. Len(t)
        BY <3>1, <3>3
      <4>2. (s \o u)[i] = t[i - Len(s)]
        BY <1>1, <1>3, <3>1, <3>3, <4>1
      <4> QED BY <1>4, <3>1, <4>1, <4>2 DEF RunFrom
    <3> QED BY <3>2, <3>3
  <2>2. ASSUME NEW i \in 1 .. Len(r) PROVE r[i] = b + Len(s) + k + i
    BY <1>2, <1>4, <2>2 DEF RunFrom
  <2> QED BY <2>1, <2>2 DEF RunFrom
<1> QED BY <1>1, <1>2, <1>3, <1>4 DEF u, r

(* The next bytes at the end of a sequence.                                 *)
LEMMA BytesFollow ==
  ASSUME NEW t \in Seq(Nat), NEW n \in Nat, NEW e \in Nat
  PROVE  LET r == t \o [i \in 1 .. n |-> e + i] IN
         /\ r \in Seq(Nat) /\ Len(r) = Len(t) + n
         /\ \A b \in Nat : RunFrom(b, t) /\ e = b + Len(t) => RunFrom(b, r)
<1> DEFINE u == [i \in 1 .. n |-> e + i]
<1>1. u \in Seq(Nat) /\ Len(u) = n /\ \A i \in 1 .. n : u[i] = e + i
  OBVIOUS
<1> HIDE DEF u
<1>2. /\ t \o u \in Seq(Nat) /\ Len(t \o u) = Len(t) + n
      /\ \A i \in 1 .. Len(t) + n : (t \o u)[i] = IF i <= Len(t) THEN t[i] ELSE u[i - Len(t)]
  <2>1. u \in Seq(Nat) /\ Len(u) = n
    BY <1>1
  <2> QED BY <2>1, ConcatProperties
<1>3. ASSUME NEW b \in Nat, RunFrom(b, t), e = b + Len(t), NEW i \in 1 .. Len(t \o u)
      PROVE  (t \o u)[i] = b + i
  BY <1>1, <1>2, <1>3 DEF RunFrom
<1> QED BY <1>2, <1>3 DEF u, RunFrom

-----------------------------------------------------------------------------
(* SocketStream.                                                            *)

(* What the reader has of this call, and then what is on its way, are the   *)
(* next bytes after those answered, up to the last one sent.                *)
InStep ==
  /\ RunFrom(answered, vptr)
  /\ RunFrom(answered + Len(vptr), wire)
  /\ answered + Len(vptr) + Len(wire) = Sent

StreamTypes ==
  /\ wire \in Seq(Nat) /\ vptr \in Seq(Nat)
  /\ composed \in Nat /\ answered \in Nat
  /\ reader \in [at : {"out", "select", "recv", "done"}, nleft : 0 .. ReadLength]
  /\ writer \in [at : {"out", "send"}, nleft : 0 .. ReadLength]

StreamInv ==
  /\ StreamTypes
  /\ writer.nleft <= composed
  /\ writer.at = "out" <=> writer.nleft = 0
  /\ finished => writer.at = "out"
  /\ reader.at = "out" => vptr = <<>>
  /\ reader.at # "out" => Len(vptr) + reader.nleft = ReadLength
  /\ reader.at \in {"select", "recv"} => reader.nleft > 0
  /\ reader.at = "done" /\ reader.nleft > 0 => finished /\ wire = <<>>
  /\ ~failed => InStep

LEMMA StreamStarts == StreamInit => StreamInv
BY StreamAssumption DEF StreamInit, StreamInv, StreamTypes, Idle, InStep, Sent, RunFrom

LEMMA StreamReadKeeps ==
  ASSUME StreamInv, readn \/ SelectRead \/ ReadFails \/ Interrupted \/ EndOfStream
  PROVE  StreamInv'
<1>1. CASE readn
  BY <1>1, StreamAssumption DEF StreamInv, StreamTypes, readn, theWriter, InStep, Sent
<1>2. CASE SelectRead
  BY <1>2, StreamAssumption DEF StreamInv, StreamTypes, SelectRead, theWriter, InStep, Sent
<1>3. CASE ReadFails
  BY <1>3, StreamAssumption DEF StreamInv, StreamTypes, ReadFails, theWriter, Idle
<1>4. CASE Interrupted
  BY <1>4, StreamAssumption DEF StreamInv, StreamTypes, Interrupted, AfterSignal, theWriter, InStep, Sent
<1>5. CASE EndOfStream
  BY <1>5, StreamAssumption DEF StreamInv, StreamTypes, EndOfStream, theWriter, InStep, Sent
<1> QED BY <1>1, <1>2, <1>3, <1>4, <1>5

(* A recv moves bytes from the wire to the buffer.                          *)
LEMMA StreamReceiveKeeps ==
  ASSUME StreamInv, Receive
  PROVE  StreamInv'
<1>1. PICK nread \in 1 .. reader.nleft :
        /\ nread <= Len(wire)
        /\ wire' = SubSeq(wire, nread + 1, Len(wire))
        /\ vptr' = vptr \o SubSeq(wire, 1, nread)
        /\ reader' = [at |-> IF reader.nleft - nread > 0 THEN "select" ELSE "done",
                      nleft |-> reader.nleft - nread]
  BY DEF Receive, RestOfRequest
<1>2. /\ wire \in Seq(Nat) /\ vptr \in Seq(Nat) /\ reader.nleft \in 0 .. ReadLength
      /\ answered \in Nat /\ reader.at = "recv"
      /\ UNCHANGED <<finished, writer, composed, answered, failed>>
  BY DEF StreamInv, StreamTypes, Receive, theWriter
<1>3. nread \in 1 .. Len(wire)
  BY <1>1, <1>2, StreamAssumption
<1>4. /\ vptr' \in Seq(Nat) /\ wire' \in Seq(Nat)
      /\ Len(vptr') = Len(vptr) + nread /\ Len(wire') = Len(wire) - nread
      /\ InStep => RunFrom(answered, vptr') /\ RunFrom(answered + Len(vptr) + nread, wire')
  BY <1>1, <1>2, <1>3, BytesMove DEF InStep
<1>5. ~failed => InStep'
  <2> SUFFICES ASSUME InStep PROVE InStep'
    BY <1>2 DEF StreamInv
  <2>1. RunFrom(answered', vptr') /\ RunFrom(answered' + Len(vptr'), wire')
    BY <1>2, <1>4
  <2>2. Sent' = Sent
    BY <1>2 DEF Sent
  <2>3. answered' + Len(vptr') + Len(wire') = Sent'
    BY <1>2, <1>3, <1>4, <2>2 DEF InStep
  <2> QED BY <2>1, <2>3 DEF InStep
<1>6. reader' \in [at : {"out", "select", "recv", "done"}, nleft : 0 .. ReadLength]
  BY <1>1, <1>2, StreamAssumption
<1>7. /\ Len(vptr') + reader'.nleft = ReadLength
      /\ reader'.at \in {"select", "done"} /\ (reader'.at = "select" <=> reader'.nleft > 0)
  <2>1. Len(vptr) + reader.nleft = ReadLength /\ Len(vptr) \in Nat
    BY <1>2 DEF StreamInv
  <2>2. /\ reader'.nleft = reader.nleft - nread
        /\ reader'.at = IF reader.nleft - nread > 0 THEN "select" ELSE "done"
    BY <1>1
  <2> HIDE DEF StreamInv
  <2> QED BY <1>2, <1>4, <2>1, <2>2, StreamAssumption
<1>8. StreamTypes'
  BY <1>2, <1>4, <1>6 DEF StreamInv, StreamTypes
<1> QED BY <1>2, <1>5, <1>7, <1>8 DEF StreamInv

(* The bytes answered are behind those to come.                             *)
LEMMA StreamReturnKeeps ==
  ASSUME StreamInv, ReturnRead
  PROVE  StreamInv'
<1>1. /\ reader' = [at |-> "out", nleft |-> 0] /\ vptr' = <<>>
      /\ reader.at = "done" /\ answered' = answered + ReadLength - reader.nleft
      /\ UNCHANGED <<wire, finished, writer, composed, failed>>
  BY DEF ReturnRead, ReadAnswer, Idle, theWriter
<1>2. answered' = answered + Len(vptr) /\ answered' \in Nat
  <2>1. answered \in Nat /\ vptr \in Seq(Nat) /\ reader.nleft \in 0 .. ReadLength
    BY DEF StreamInv, StreamTypes
  <2>2. Len(vptr) + reader.nleft = ReadLength
    BY <1>1 DEF StreamInv
  <2> DEFINE n == Len(vptr)
  <2>3. n \in Nat
    BY <2>1
  <2>4. answered' = answered + ReadLength - reader.nleft
    BY <1>1
  <2> HIDE DEF n, StreamInv
  <2>5. answered' = answered + n /\ answered' \in Nat
    BY <2>1, <2>2, <2>3, <2>4, StreamAssumption DEF n
  <2> QED BY <2>5 DEF n
<1>3. ~failed => InStep'
  <2> SUFFICES ASSUME InStep PROVE InStep'
    BY <1>1 DEF StreamInv
  <2>1. RunFrom(answered', vptr')
    BY <1>1 DEF RunFrom
  <2>2. RunFrom(answered' + Len(vptr'), wire')
    BY <1>1, <1>2 DEF InStep
  <2>3. answered' + Len(vptr') + Len(wire') = Sent'
    BY <1>1, <1>2 DEF InStep, Sent
  <2> QED BY <2>1, <2>2, <2>3 DEF InStep
<1> QED BY <1>1, <1>2, <1>3, StreamAssumption DEF StreamInv, StreamTypes

LEMMA StreamSendKeeps ==
  ASSUME StreamInv, SendSome
  PROVE  StreamInv'
<1>1. PICK nwritten \in 1 .. writer.nleft :
        /\ wire' = wire \o [i \in 1 .. nwritten |-> Sent + i]
        /\ writer' = IF nwritten = writer.nleft THEN Idle ELSE [writer EXCEPT !.nleft = @ - nwritten]
  BY DEF SendSome
<1>2. /\ wire \in Seq(Nat) /\ vptr \in Seq(Nat) /\ answered \in Nat
      /\ writer.nleft \in 0 .. ReadLength /\ nwritten \in Nat /\ writer.at = "send" /\ ~finished
      /\ UNCHANGED <<finished, composed, reader, vptr, answered, failed>>
  BY <1>1, StreamAssumption DEF StreamInv, StreamTypes, SendSome, theReader
<1>3. Sent \in Nat
  BY StreamAssumption DEF StreamInv, StreamTypes, Sent
<1>4. /\ writer' \in [at : {"out", "send"}, nleft : 0 .. ReadLength]
      /\ writer'.nleft = writer.nleft - nwritten
      /\ writer'.at = "out" <=> writer'.nleft = 0
  <2>1. CASE nwritten = writer.nleft
    BY <1>1, <1>2, <2>1, StreamAssumption DEF Idle
  <2>2. CASE nwritten # writer.nleft
    <3>1. writer' = [writer EXCEPT !.nleft = writer.nleft - nwritten]
      BY <1>1, <2>2
    <3>2. writer \in [at : {"out", "send"}, nleft : 0 .. ReadLength]
      BY DEF StreamInv, StreamTypes
    <3>3. writer.nleft - nwritten \in 0 .. ReadLength /\ writer.nleft - nwritten # 0
      BY <1>1, <1>2, <2>2, StreamAssumption
    <3> QED BY <1>2, <3>1, <3>2, <3>3
  <2> QED BY <2>1, <2>2
<1>5. Sent' = Sent + nwritten
  BY <1>2, <1>4, StreamAssumption DEF StreamInv, StreamTypes, Sent
<1>6. /\ wire' \in Seq(Nat) /\ Len(wire') = Len(wire) + nwritten
      /\ \A b \in Nat : RunFrom(b, wire) /\ Sent = b + Len(wire) => RunFrom(b, wire')
  BY <1>1, <1>2, <1>3, BytesFollow
<1>7. ~failed => InStep'
  <2> SUFFICES ASSUME InStep PROVE InStep'
    BY <1>2 DEF StreamInv
  <2>1. RunFrom(answered', vptr')
    BY <1>2 DEF InStep
  <2>2. RunFrom(answered' + Len(vptr'), wire')
    BY <1>2, <1>6 DEF InStep
  <2>3. answered' + Len(vptr') + Len(wire') = Sent'
    BY <1>2, <1>5, <1>6 DEF InStep
  <2> QED BY <2>1, <2>2, <2>3 DEF InStep
<1>8. StreamTypes'
  BY <1>2, <1>4, <1>6 DEF StreamInv, StreamTypes
<1> QED BY <1>2, <1>4, <1>7, <1>8, StreamAssumption DEF StreamInv, StreamTypes

LEMMA StreamWriteKeeps ==
  ASSUME StreamInv, writen \/ SendFails \/ CloseStream
  PROVE  StreamInv'
<1>1. CASE writen
  BY <1>1, StreamAssumption DEF StreamInv, StreamTypes, writen, theReader, InStep, Sent
<1>2. CASE SendFails
  BY <1>2, StreamAssumption DEF StreamInv, StreamTypes, SendFails, theReader, Idle
<1>3. CASE CloseStream
  BY <1>3, StreamAssumption DEF StreamInv, StreamTypes, CloseStream, theReader, InStep, Sent
<1> QED BY <1>1, <1>2, <1>3

LEMMA StreamStepKeeps == StreamInv /\ [StreamNext]_streamVars => StreamInv'
<1> SUFFICES ASSUME StreamInv, [StreamNext]_streamVars PROVE StreamInv'
  OBVIOUS
<1>1. CASE UNCHANGED streamVars
  BY <1>1 DEF streamVars, StreamInv, StreamTypes, InStep, Sent
<1>2. CASE StreamNext
  BY <1>2, StreamReadKeeps, StreamReceiveKeeps, StreamReturnKeeps, StreamSendKeeps, StreamWriteKeeps
     DEF StreamNext
<1> QED BY <1>1, <1>2

LEMMA StreamInvSuffices == StreamInv => StreamIsRead
<1> SUFFICES ASSUME StreamInv PROVE StreamIsRead
  OBVIOUS
<1>1. StreamInStep
  BY StreamAssumption DEF StreamInv, StreamTypes, InStep, StreamInStep, RunFrom
<1>2. ShortOnlyAtEnd
  BY StreamAssumption DEF StreamInv, StreamTypes, InStep, Sent, ShortOnlyAtEnd
<1> QED BY <1>1, <1>2 DEF StreamIsRead

(* As long as no call has answered AII_ERROR, the readn calls answer with  *)
(* the bytes of the writen calls, in order, and only the end of the stream  *)
(* makes one answer with fewer than it was asked for.                       *)
THEOREM StreamReadWhole == StreamSpec => []StreamIsRead
BY StreamStarts, StreamStepKeeps, StreamInvSuffices, PTL DEF StreamSpec
-----------------------------------------------------------------------------
(* AtomStream.                                                              *)

AtomCalls == [remlen : 0 .. MessageLength, count : Nat, busy : BOOLEAN]

AtomTypes ==
  /\ pipe \in Seq(Nat) /\ buf \in Seq(Nat)
  /\ complete \in Seq(Seq(Nat))
  /\ begun \in Nat
  /\ atomwriter \in AtomCalls /\ atomreader \in AtomCalls

(* The number of bytes in the messages that atomread answered AII_OK for.   *)
Delivered == Len(complete) * MessageLength

AtomInStep ==
  /\ RunFrom(Delivered, buf)
  /\ RunFrom(Delivered + Len(buf), pipe)
  /\ Delivered + Len(buf) + Len(pipe) = Written
  /\ \A k \in 1 .. Len(complete) : complete[k] = AtomMessage(k)

AtomInv ==
  /\ AtomTypes
  /\ atomwriter.remlen <= begun * MessageLength
  /\ ~atomwriter.busy => atomwriter.remlen = 0
  /\ ~atomreader.busy => buf = <<>>
  /\ atomreader.busy => Len(buf) + atomreader.remlen = MessageLength
  /\ \A k \in 1 .. Len(complete) : Len(complete[k]) = MessageLength
  /\ ~broken => AtomInStep

LEMMA AtomCallKinds ==
  /\ NoCall \in AtomCalls /\ ~NoCall.busy /\ NoCall.remlen = 0
  /\ NewCall \in AtomCalls /\ NewCall.busy /\ NewCall.remlen = MessageLength
BY AtomAssumption DEF NoCall, NewCall, AtomCalls

LEMMA AtomStarts == AtomInit => AtomInv
<1> SUFFICES ASSUME AtomInit PROVE AtomInv
  OBVIOUS
<1>1. AtomTypes
  BY AtomCallKinds DEF AtomInit, AtomTypes
<1>2. AtomInStep
  BY AtomCallKinds, AtomAssumption DEF AtomInit, AtomInStep, Delivered, Written, RunFrom
<1> QED BY <1>1, <1>2, AtomCallKinds, AtomAssumption DEF AtomInit, AtomInv

(* A call that gives up a try and does nothing else.                        *)
LEMMA AtomTry ==
  ASSUME NEW call \in AtomCalls, call.count > 0
  PROVE  LET next == [call EXCEPT !.count = @ - 1] IN
         next \in AtomCalls /\ next.remlen = call.remlen /\ next.busy = call.busy
BY DEF AtomCalls

LEMMA AtomMoves ==
  ASSUME NEW call \in AtomCalls, call.count > 0, NEW ret \in 1 .. call.remlen
  PROVE  LET next == [call EXCEPT !.remlen = @ - ret, !.count = @ - 1] IN
         next \in AtomCalls /\ next.remlen = call.remlen - ret /\ next.busy = call.busy
<1> DEFINE left == call.remlen - ret
           tries == call.count - 1
<1>1. left \in 0 .. MessageLength /\ tries \in Nat
  BY AtomAssumption DEF AtomCalls
<1> HIDE DEF left, tries
<1>2. LET next == [call EXCEPT !.remlen = left, !.count = tries] IN
      next \in AtomCalls /\ next.remlen = left /\ next.busy = call.busy
  BY <1>1 DEF AtomCalls
<1> QED BY <1>2 DEF left, tries

LEMMA AtomWriteBeginsKeeps ==
  ASSUME AtomInv, atomwrite
  PROVE  AtomInv'
<1>1. /\ atomwriter' = NewCall /\ begun' = begun + 1 /\ ~atomwriter.busy
      /\ UNCHANGED <<pipe, atomreader, buf, complete, broken>>
  BY DEF atomwrite
<1>2. begun \in Nat /\ MessageLength \in Nat /\ atomwriter.remlen = 0
  BY <1>1, AtomAssumption DEF AtomInv, AtomTypes
<1>3. (begun + 1) * MessageLength = begun * MessageLength + MessageLength /\ begun * MessageLength \in Nat
  BY <1>2
<1>4. Written' = Written
  BY <1>1, <1>2, <1>3, AtomCallKinds DEF Written
<1>5. AtomTypes'
  BY <1>1, <1>2, AtomCallKinds DEF AtomInv, AtomTypes
<1>6. ~broken => AtomInStep'
  BY <1>1, <1>4 DEF AtomInv, AtomInStep, Delivered
<1>7. atomwriter'.remlen <= begun' * MessageLength
  BY <1>1, <1>2, <1>3, AtomCallKinds
<1> QED BY <1>1, <1>5, <1>6, <1>7, AtomCallKinds DEF AtomInv

(* Tries that move nothing, and the end of a writer's call.                 *)
LEMMA AtomWaitKeeps ==
  ASSUME AtomInv, WriteWaits \/ ReadWaits
  PROVE  AtomInv'
<1>1. CASE WriteWaits
  <2>1. /\ atomwriter' \in AtomCalls /\ atomwriter'.remlen = atomwriter.remlen
        /\ atomwriter'.busy = atomwriter.busy
        /\ UNCHANGED <<pipe, atomreader, buf, begun, complete, broken>>
    BY <1>1, AtomTry DEF WriteWaits, Continues, AtomInv, AtomTypes
  <2>2. Written' = Written
    BY <2>1 DEF Written
  <2> QED BY <2>1, <2>2 DEF AtomInv, AtomTypes, AtomInStep, Delivered
<1>2. CASE ReadWaits
  <2>1. /\ atomreader' \in AtomCalls /\ atomreader'.remlen = atomreader.remlen
        /\ atomreader'.busy = atomreader.busy
        /\ UNCHANGED <<pipe, atomwriter, buf, begun, complete, broken>>
    BY <1>2, AtomTry DEF ReadWaits, Continues, AtomInv, AtomTypes
  <2>2. Written' = Written
    BY <2>1 DEF Written
  <2> QED BY <2>1, <2>2 DEF AtomInv, AtomTypes, AtomInStep, Delivered
<1> QED BY <1>1, <1>2

LEMMA AtomWriteEndsKeeps ==
  ASSUME AtomInv, WriteReturns \/ AtomWriteFails
  PROVE  AtomInv'
<1>1. /\ atomwriter' = NoCall /\ (~broken' => ~broken /\ ~(atomwriter.remlen > 0))
      /\ UNCHANGED <<pipe, atomreader, buf, begun, complete>>
  BY DEF WriteReturns, AtomWriteFails
<1>2. atomwriter.remlen \in Nat /\ begun * MessageLength \in Nat
  BY AtomAssumption DEF AtomInv, AtomTypes, AtomCalls
<1>3. ~broken' => AtomInStep'
  <2> SUFFICES ASSUME ~broken' PROVE AtomInStep'
    OBVIOUS
  <2>1. Written' = Written
    BY <1>1, <1>2, AtomCallKinds DEF Written
  <2> QED BY <1>1, <2>1 DEF AtomInv, AtomInStep, Delivered
<1>4. AtomTypes'
  BY <1>1, AtomCallKinds DEF AtomInv, AtomTypes
<1> QED BY <1>1, <1>2, <1>3, <1>4, AtomCallKinds DEF AtomInv

LEMMA AtomWriteSomeKeeps ==
  ASSUME AtomInv, WriteSome
  PROVE  AtomInv'
<1>1. PICK ret \in 1 .. atomwriter.remlen :
        /\ pipe' = pipe \o [i \in 1 .. ret |-> Written + i]
        /\ atomwriter' = [atomwriter EXCEPT !.remlen = @ - ret, !.count = @ - 1]
  BY DEF WriteSome
<1>2. /\ atomwriter \in AtomCalls /\ atomwriter.count > 0 /\ atomwriter.busy
      /\ UNCHANGED <<atomreader, buf, begun, complete, broken>>
  BY DEF WriteSome, Calls, Continues, AtomInv, AtomTypes
<1>3. /\ atomwriter' \in AtomCalls /\ atomwriter'.remlen = atomwriter.remlen - ret
      /\ atomwriter'.busy = atomwriter.busy
  BY <1>1, <1>2, AtomMoves
<1>4. atomwriter.remlen \in Nat /\ begun * MessageLength \in Nat /\ ret \in Nat
  BY <1>1, <1>2, AtomAssumption DEF AtomInv, AtomTypes, AtomCalls
<1>5. Written \in Nat /\ Written' = Written + ret
  BY <1>2, <1>3, <1>4 DEF Written, AtomInv
<1>6. /\ pipe' \in Seq(Nat) /\ Len(pipe') = Len(pipe) + ret
      /\ \A b \in Nat : RunFrom(b, pipe) /\ Written = b + Len(pipe) => RunFrom(b, pipe')
  BY <1>1, <1>4, <1>5, BytesFollow DEF AtomInv, AtomTypes
<1>7. ~broken => AtomInStep'
  <2> SUFFICES ASSUME AtomInStep PROVE AtomInStep'
    BY DEF AtomInv
  <2>1. Delivered' = Delivered /\ Delivered \in Nat /\ Len(buf) \in Nat /\ Len(pipe) \in Nat
    BY <1>2, AtomAssumption DEF Delivered, AtomInv, AtomTypes
  <2>2. RunFrom(Delivered' + Len(buf'), pipe')
    BY <1>2, <1>6, <2>1 DEF AtomInStep
  <2>3. Delivered' + Len(buf') + Len(pipe') = Written'
    <3>1. Delivered + Len(buf) + Len(pipe) = Written
      BY DEF AtomInStep
    <3>2. Delivered' + Len(buf') + Len(pipe') = Delivered + Len(buf) + (Len(pipe) + ret)
      BY <1>2, <1>6, <2>1
    <3> QED BY <1>4, <1>5, <2>1, <3>1, <3>2
  <2> QED BY <1>2, <2>1, <2>2, <2>3 DEF AtomInStep
<1>8. AtomTypes'
  BY <1>2, <1>3, <1>6 DEF AtomInv, AtomTypes
<1>9. atomwriter'.remlen <= begun' * MessageLength
  BY <1>1, <1>2, <1>3, <1>4 DEF AtomInv
<1> QED BY <1>2, <1>3, <1>7, <1>8, <1>9 DEF AtomInv

LEMMA AtomReadBeginsKeeps ==
  ASSUME AtomInv, atomread
  PROVE  AtomInv'
<1>1. /\ atomreader' = NewCall /\ buf' = << >> /\ buf = << >>
      /\ UNCHANGED <<pipe, atomwriter, begun, complete, broken>>
  BY DEF atomread, AtomInv
<1>2. Written' = Written
  BY <1>1 DEF Written
<1> QED BY <1>1, <1>2, AtomCallKinds, AtomAssumption DEF AtomInv, AtomTypes, AtomInStep, Delivered

LEMMA AtomReadSomeKeeps ==
  ASSUME AtomInv, ReadSome
  PROVE  AtomInv'
<1>1. PICK ret \in 1 .. atomreader.remlen :
        /\ ret <= Len(pipe)
        /\ buf' = buf \o SubSeq(pipe, 1, ret)
        /\ pipe' = SubSeq(pipe, ret + 1, Len(pipe))
        /\ atomreader' = [atomreader EXCEPT !.remlen = @ - ret, !.count = @ - 1]
  BY DEF ReadSome
<1>2. /\ atomreader \in AtomCalls /\ atomreader.count > 0 /\ atomreader.busy
      /\ UNCHANGED <<atomwriter, begun, complete, broken>>
  BY DEF ReadSome, Calls, Continues, AtomInv, AtomTypes
<1>3. /\ atomreader' \in AtomCalls /\ atomreader'.remlen = atomreader.remlen - ret
      /\ atomreader'.busy = atomreader.busy
  BY <1>1, <1>2, AtomMoves
<1>4. ret \in 1 .. Len(pipe) /\ pipe \in Seq(Nat) /\ buf \in Seq(Nat) /\ atomreader.remlen \in Nat
  BY <1>1, <1>2 DEF AtomInv, AtomTypes, AtomCalls
<1>5. Delivered' = Delivered /\ Delivered \in Nat
  BY <1>2, AtomAssumption DEF Delivered, AtomInv, AtomTypes
<1>6. /\ buf' \in Seq(Nat) /\ pipe' \in Seq(Nat)
      /\ Len(buf') = Len(buf) + ret /\ Len(pipe') = Len(pipe) - ret
      /\ AtomInStep => RunFrom(Delivered, buf') /\ RunFrom(Delivered + Len(buf) + ret, pipe')
  BY <1>1, <1>4, <1>5, BytesMove DEF AtomInStep
<1>7. ~broken => AtomInStep'
  <2> SUFFICES ASSUME AtomInStep PROVE AtomInStep'
    BY DEF AtomInv
  <2>1. RunFrom(Delivered' + Len(buf'), pipe')
    BY <1>4, <1>5, <1>6
  <2>2. Delivered' + Len(buf') + Len(pipe') = Written'
    BY <1>2, <1>4, <1>5, <1>6 DEF AtomInStep, Written
  <2> QED BY <1>2, <1>5, <1>6, <2>1, <2>2 DEF AtomInStep
<1>8. AtomTypes'
  BY <1>2, <1>3, <1>6 DEF AtomInv, AtomTypes
<1>9. Len(buf') + atomreader'.remlen = MessageLength
  <2>1. Len(buf) + atomreader.remlen = MessageLength /\ Len(buf) \in Nat
    BY <1>2, <1>4 DEF AtomInv
  <2>2. ret \in Nat /\ Len(buf') = Len(buf) + ret /\ atomreader'.remlen = atomreader.remlen - ret
    BY <1>3, <1>4, <1>6
  <2> QED BY <1>4, <2>1, <2>2
<1> QED BY <1>2, <1>3, <1>7, <1>8, <1>9 DEF AtomInv

LEMMA AtomReadFailsKeeps ==
  ASSUME AtomInv, AtomReadFails
  PROVE  AtomInv'
BY AtomCallKinds DEF AtomReadFails, AtomInv, AtomTypes

(* A buffer that is full of the bytes after the messages before is the next *)
(* message.                                                                 *)
LEMMA AtomReturnsKeeps ==
  ASSUME AtomInv, ReadReturns
  PROVE  AtomInv'
<1>1. atomreader' = NoCall /\ buf' = << >> /\ UNCHANGED <<pipe, atomwriter, begun>> /\ atomreader.busy
  BY DEF ReadReturns, Calls
<1>2. CASE ~AnswersOk(atomreader)
  <2>1. broken' /\ UNCHANGED complete
    BY <1>2 DEF ReadReturns
  <2> QED BY <1>1, <2>1, AtomCallKinds DEF AtomInv, AtomTypes
<1>3. CASE AnswersOk(atomreader)
  <2>1. complete' = Append(complete, buf) /\ UNCHANGED broken
    BY <1>3 DEF ReadReturns
  <2>2. buf \in Seq(Nat) /\ Len(buf) = MessageLength /\ complete \in Seq(Seq(Nat)) /\ MessageLength \in Nat
    BY <1>1, <1>3, AtomAssumption DEF AnswersOk, AtomInv, AtomTypes
  <2>3. /\ complete' \in Seq(Seq(Nat)) /\ Len(complete') = Len(complete) + 1
        /\ \A k \in 1 .. Len(complete) : complete'[k] = complete[k]
        /\ complete'[Len(complete) + 1] = buf
        /\ Len(complete) \in Nat
    BY <2>1, <2>2, AppendProperties
  <2>4. Delivered' = Delivered + MessageLength /\ Delivered \in Nat
    <3> DEFINE n == Len(complete)
               m == Len(complete')
    <3>1. n \in Nat /\ m = n + 1
      BY <2>3
    <3> HIDE DEF n, m
    <3>2. m * MessageLength = n * MessageLength + MessageLength /\ n * MessageLength \in Nat
      BY <2>2, <3>1
    <3> QED BY <3>2 DEF Delivered, n, m
  <2>5. \A k \in 1 .. Len(complete') : Len(complete'[k]) = MessageLength
    <3>1. \A k \in 1 .. Len(complete) : Len(complete[k]) = MessageLength
      BY DEF AtomInv
    <3>2. \A k \in 1 .. Len(complete') : k \in 1 .. Len(complete) \/ k = Len(complete) + 1
      BY <2>3
    <3> QED BY <2>2, <2>3, <3>1, <3>2
  <2>6. ~broken => AtomInStep'
    <3> SUFFICES ASSUME AtomInStep PROVE AtomInStep'
      BY DEF AtomInv
    <3>1. RunFrom(Delivered', buf')
      BY <1>1 DEF RunFrom
    <3>2. Delivered' + Len(buf') = Delivered + Len(buf)
      BY <1>1, <2>2, <2>4
    <3>3. RunFrom(Delivered' + Len(buf'), pipe')
      BY <1>1, <3>2 DEF AtomInStep
    <3>4. Delivered' + Len(buf') + Len(pipe') = Written'
      BY <1>1, <3>2 DEF AtomInStep, Written
    <3>5. buf = AtomMessage(Len(complete) + 1)
      <4> DEFINE m == AtomMessage(Len(complete) + 1)
      <4>1. ((Len(complete) + 1) - 1) * MessageLength = Delivered
        BY <2>3 DEF Delivered
      <4>2. m = [i \in 1 .. MessageLength |-> Delivered + i]
        BY <4>1 DEF AtomMessage
      <4>3. m \in Seq(Nat) /\ Len(m) = MessageLength /\ \A i \in 1 .. MessageLength : m[i] = Delivered + i
        BY <2>2, <2>4, <4>2
      <4>4. \A i \in 1 .. Len(buf) : buf[i] = Delivered + i
        BY DEF AtomInStep, RunFrom
      <4> HIDE DEF m
      <4>5. buf = m
        BY <2>2, <4>3, <4>4, SeqEqual
      <4> QED BY <4>5 DEF m
    <3>6. \A k \in 1 .. Len(complete') : complete'[k] = AtomMessage(k)
      <4>1. \A k \in 1 .. Len(complete) : complete[k] = AtomMessage(k)
        BY DEF AtomInStep
      <4>2. \A k \in 1 .. Len(complete') : k \in 1 .. Len(complete) \/ k = Len(complete) + 1
        BY <2>3
      <4> QED BY <2>3, <3>5, <4>1, <4>2
    <3> QED BY <3>1, <3>3, <3>4, <3>6 DEF AtomInStep, AtomMessage
  <2>7. AtomTypes'
    BY <1>1, <2>3, AtomCallKinds DEF AtomInv, AtomTypes
  <2> QED BY <1>1, <2>1, <2>5, <2>6, <2>7, AtomCallKinds DEF AtomInv
<1> QED BY <1>2, <1>3

LEMMA AtomStepKeeps == AtomInv /\ [AtomNext]_atomVars => AtomInv'
<1> SUFFICES ASSUME AtomInv, [AtomNext]_atomVars PROVE AtomInv'
  OBVIOUS
<1>1. CASE UNCHANGED atomVars \/ TCPLinkToServer
  <2>1. UNCHANGED <<pipe, atomwriter, atomreader, buf, begun, complete, broken>>
    BY <1>1 DEF atomVars, TCPLinkToServer
  <2> QED BY <2>1 DEF AtomInv, AtomTypes, AtomInStep, Delivered, Written
<1>2. CASE AtomNext /\ ~TCPLinkToServer
  BY <1>2, AtomWriteBeginsKeeps, AtomWaitKeeps, AtomWriteEndsKeeps, AtomWriteSomeKeeps,
     AtomReadBeginsKeeps, AtomReadSomeKeeps, AtomReadFailsKeeps, AtomReturnsKeeps DEF AtomNext
<1> QED BY <1>1, <1>2

LEMMA AtomInvSuffices == AtomInv => AtomReadsWhole
<1>1. complete \in Seq(Seq(Nat)) => DOMAIN complete = 1 .. Len(complete)
  OBVIOUS
<1> QED BY <1>1 DEF AtomInv, AtomTypes, AtomInStep, AtomReadsWhole

(* The messages that atomread answers AII_OK for have their length, and     *)
(* until a call fails they are those written, whole and in order.           *)
THEOREM AtomReadWhole == AtomSpec => []AtomReadsWhole
BY AtomStarts, AtomStepKeeps, AtomInvSuffices, PTL DEF AtomSpec

-----------------------------------------------------------------------------
(* TextEdit: what is saved while other threads change lines, and the        *)
(* permissions of the lines.                                                *)

Tags == {READ, WRITE}
CleanLines == Seq(Words \cup {Equals, CR})
AnyLines == Seq(Words \cup {Equals, CR, Torn})
Replacing == {"replace_line", "replace_kw"}

EditorTypes ==
  [at : {"out", "found", "write", "inserted", "save"}, op : {"none", "insert", "config"} \cup Replacing,
   node : 0 .. MaxLines, tag : {"none"} \cup Tags, new : CleanLines, posi : {0, 1}]

TextTypes ==
  /\ savedFile \in Seq(CleanLines) /\ Len(savedFile) <= MaxLines
  /\ text \in Seq(1 .. Len(text)) /\ Len(text) <= MaxLines
  /\ lineStr \in [Nodes -> AnyLines]
  /\ permission \in [Nodes -> [Tags -> Int]] /\ kept \in [Nodes -> [Tags -> Nat]]
  /\ editor \in [Editors -> EditorTypes]
  /\ toSave \in Nat

(* A call is at a line, with the permission that its kind asks for.         *)
EditorFits(e) ==
  /\ Where(e) = "out" => editor[e] = NotEditing
  /\ Where(e) \in {"found", "write", "inserted"} => Node(e) \in Nodes
  /\ Where(e) \in {"found", "write", "inserted"} =>
       \/ editor[e].op \in Replacing /\ editor[e].tag = WRITE
       \/ editor[e].op \in {"insert", "config"} /\ editor[e].tag = READ /\ Where(e) # "write"

(* The one call that saves is at a line of the text, and writes no more     *)
(* lines than the text had.                                                 *)
SaverFits(e) ==
  /\ Where(e) = "save" =>
       /\ editor[e].op = "none" /\ editor[e].tag = READ
       /\ Node(e) = 0 \/ \E i \in DOMAIN text : text[i] = Node(e)
       /\ Len(savedFile) <= toSave /\ toSave <= Len(text)
       /\ \A d \in Editors \ {e} : Where(d) # "save"

AtLine(k, tag) == {e \in Editors : Node(e) = k /\ editor[e].tag = tag}

(* Nobody shares the write permission of a line with a call, and none gets  *)
(* it again that replace_kw has kept.                                       *)
WritersAreAlone ==
  \A k \in Nodes : \A e \in AtLine(k, WRITE) :
    kept[k][WRITE] = 0 /\ AtLine(k, WRITE) \subseteq {e}

(* A torn line is held for writing, by the call that writes it or for ever. *)
TornIsHeld ==
  \A k \in Nodes :
    \/ lineStr[k] \in CleanLines
    \/ kept[k][WRITE] > 0
    \/ \E e \in AtLine(k, WRITE) : Where(e) = "write"

TextInv ==
  /\ TextTypes
  /\ \A e \in Editors : EditorFits(e) /\ SaverFits(e)
  /\ (\A e \in Editors : Where(e) # "save") => toSave \in {0, Len(savedFile)}
  /\ LinesAreReleased
  /\ WritersAreAlone
  /\ TornIsHeld

-----------------------------------------------------------------------------
LEMMA LinesAre ==
  /\ << >> \in CleanLines
  /\ \A w, v \in Words \cup {Equals, CR} : <<w>> \in CleanLines /\ <<w, v>> \in CleanLines
  /\ CleanLines \subseteq AnyLines /\ <<Torn>> \in AnyLines
  /\ \A l, m \in CleanLines : l \o m \in CleanLines /\ Front(l) \in CleanLines
<1>1. \A w, v \in Words \cup {Equals, CR} : <<w>> \in CleanLines /\ <<w, v>> \in CleanLines
  BY DEF CleanLines
<1>2. CleanLines \subseteq AnyLines
  BY DEF CleanLines, AnyLines
<1>3. \A l, m \in CleanLines : l \o m \in CleanLines
  BY DEF CleanLines
<1>4. ASSUME NEW l \in CleanLines PROVE Front(l) \in CleanLines
  <2>1. l \in Seq(Words \cup {Equals, CR}) /\ Len(l) \in Nat
    BY DEF CleanLines
  <2>2. \A i \in 1 .. Len(l) - 1 : l[i] \in Words \cup {Equals, CR}
    BY <2>1, ElementOfSeq
  <2> QED BY <2>1, <2>2, SubSeqProperties DEF Front, CleanLines
<1>5. << >> \in CleanLines /\ <<Torn>> \in AnyLines
  BY DEF CleanLines, AnyLines
<1> QED BY <1>1, <1>2, <1>3, <1>4, <1>5

LEMMA NotEditingIs ==
  /\ NotEditing \in EditorTypes /\ NotEditing.at = "out" /\ NotEditing.node = 0
  /\ NotEditing.tag = "none"
<1>1. << >> \in CleanLines /\ 0 \in 0 .. MaxLines
  BY LinesAre, TextAssumption
<1> QED BY <1>1 DEF NotEditing, EditorTypes

LEMMA TagsAre == READ \in Tags /\ WRITE \in Tags /\ READ # WRITE /\ "none" \notin Tags
BY DEF Tags, READ, WRITE

(* One count of one line changes.                                           *)
LEMMA OneChanges ==
  ASSUME NEW p, NEW S \in SUBSET Int, p \in [Nodes -> [Tags -> S]],
         NEW k \in Nodes, NEW t \in Tags, NEW x \in S, NEW q, q = [p EXCEPT ![k][t] = x]
  PROVE  /\ q \in [Nodes -> [Tags -> S]]
         /\ \A n \in Nodes, u \in Tags : q[n][u] = IF n = k /\ u = t THEN x ELSE p[n][u]
OBVIOUS

LEMMA AtLineIsFinite ==
  ASSUME NEW k, NEW t
  PROVE  IsFiniteSet(AtLine(k, t)) /\ Cardinality(AtLine(k, t)) \in Nat
BY TextAssumption, FS_Subset, FS_CardinalityType DEF AtLine

(* Nobody has a permission that would not be granted.                       *)
LEMMA GrantedIsFree ==
  ASSUME TextInv, NEW k \in Nodes, permission[k][WRITE] = 0
  PROVE  kept[k][WRITE] = 0 /\ AtLine(k, WRITE) = {} /\ lineStr[k] \in CleanLines
<1>1. permission[k][WRITE] = kept[k][WRITE] + Cardinality(AtLine(k, WRITE))
  BY DEF TextInv, LinesAreReleased, AtLine
<1>2. kept[k][WRITE] \in Nat
  BY TagsAre DEF TextInv, TextTypes
<1>3. IsFiniteSet(AtLine(k, WRITE)) /\ Cardinality(AtLine(k, WRITE)) \in Nat
  BY AtLineIsFinite
<1>4. kept[k][WRITE] = 0 /\ Cardinality(AtLine(k, WRITE)) = 0
  BY <1>1, <1>2, <1>3
<1>5. AtLine(k, WRITE) = {}
  BY <1>3, <1>4, FS_EmptySet
<1> QED BY <1>4, <1>5 DEF TextInv, TornIsHeld

-----------------------------------------------------------------------------
(* The call of one thread changes.                                          *)
LEMMA OneMoves ==
  ASSUME TextTypes, NEW e \in Editors, NEW r \in EditorTypes, editor' = [editor EXCEPT ![e] = r]
  PROVE  /\ editor' \in [Editors -> EditorTypes] /\ editor'[e] = r
         /\ \A d \in Editors \ {e} : editor'[d] = editor[d]
         /\ \A k \in Nodes, t \in Tags :
              AtLine(k, t)' = IF r.node = k /\ r.tag = t THEN AtLine(k, t) \cup {e}
                              ELSE AtLine(k, t) \ {e}
<1>1. /\ editor' \in [Editors -> EditorTypes] /\ editor'[e] = r
      /\ \A d \in Editors \ {e} : editor'[d] = editor[d]
  BY DEF TextTypes
<1>2. ASSUME NEW k \in Nodes, NEW t \in Tags
      PROVE  AtLine(k, t)' = IF r.node = k /\ r.tag = t THEN AtLine(k, t) \cup {e}
                             ELSE AtLine(k, t) \ {e}
  BY <1>1 DEF AtLine, Node
<1> QED BY <1>1, <1>2

LEMMA CountsMove ==
  ASSUME TextInv, NEW e \in Editors, NEW r \in EditorTypes, editor' = [editor EXCEPT ![e] = r],
         permission' \in [Nodes -> [Tags -> Int]], kept' \in [Nodes -> [Tags -> Nat]],
         \A k \in Nodes, t \in Tags :
           permission'[k][t] - kept'[k][t] =
             permission[k][t] - kept[k][t]
               + ((IF r.node = k /\ r.tag = t THEN 1 ELSE 0)
                  - (IF Node(e) = k /\ editor[e].tag = t THEN 1 ELSE 0))
  PROVE  LinesAreReleased'
<1> SUFFICES ASSUME NEW k \in Nodes, NEW t \in Tags
             PROVE  permission'[k][t] = kept'[k][t] + Cardinality(AtLine(k, t)')
  BY DEF LinesAreReleased, AtLine, Tags
<1>0. \A n \in Nodes, u \in Tags :
        AtLine(n, u)' = IF r.node = n /\ r.tag = u THEN AtLine(n, u) \cup {e} ELSE AtLine(n, u) \ {e}
  BY OneMoves DEF TextInv
<1> DEFINE old == AtLine(k, t)
           new == AtLine(k, t)'
           b == r.node = k /\ r.tag = t
           a == Node(e) = k /\ editor[e].tag = t
<1>1. new = IF b THEN old \cup {e} ELSE old \ {e}
  BY <1>0
<1>2. e \in old <=> a
  BY DEF AtLine
<1>3. IsFiniteSet(old) /\ Cardinality(old) \in Nat
  BY AtLineIsFinite
<1>4. permission[k][t] = kept[k][t] + Cardinality(old)
  BY DEF TextInv, LinesAreReleased, AtLine, Tags
<1>5. /\ permission[k][t] \in Int /\ kept[k][t] \in Int
      /\ permission'[k][t] \in Int /\ kept'[k][t] \in Int
  BY DEF TextInv, TextTypes
<1>6. permission'[k][t] - kept'[k][t] = permission[k][t] - kept[k][t] + ((IF b THEN 1 ELSE 0) - (IF a THEN 1 ELSE 0))
  OBVIOUS
<1> HIDE DEF old, new, a, b
<1>7. Cardinality(new) = Cardinality(old) + ((IF b THEN 1 ELSE 0) - (IF a THEN 1 ELSE 0))
  <2>1. CASE b
    <3>1. Cardinality(new) = IF e \in old THEN Cardinality(old) ELSE Cardinality(old) + 1
      BY <1>1, <1>3, <2>1, FS_AddElement
    <3> QED BY <1>2, <1>3, <2>1, <3>1
  <2>2. CASE ~b
    <3>1. Cardinality(new) = IF e \in old THEN Cardinality(old) - 1 ELSE Cardinality(old)
      BY <1>1, <1>3, <2>2, FS_RemoveElement
    <3> QED BY <1>2, <1>3, <2>2, <3>1
  <2> QED BY <2>1, <2>2
<1>8. (IF a THEN 1 ELSE 0) \in Int /\ (IF b THEN 1 ELSE 0) \in Int
  OBVIOUS
<1> QED BY <1>3, <1>4, <1>5, <1>6, <1>7, <1>8 DEF new

LEMMA AloneMoves ==
  ASSUME TextInv, NEW e \in Editors, NEW r \in EditorTypes, editor' = [editor EXCEPT ![e] = r],
         \/ r.tag # WRITE \/ r.node = 0
         \/ r.node = Node(e) /\ editor[e].tag = WRITE
         \/ r.node \in Nodes /\ permission[r.node][WRITE] = 0,
         \A k \in Nodes : \/ kept'[k][WRITE] = kept[k][WRITE]
                          \/ k = Node(e) /\ editor[e].tag = WRITE /\ r.node # k
  PROVE  WritersAreAlone'
<1> SUFFICES ASSUME NEW k \in Nodes, NEW d \in AtLine(k, WRITE)'
             PROVE  kept'[k][WRITE] = 0 /\ AtLine(k, WRITE)' \subseteq {d}
  BY DEF WritersAreAlone
<1>1. AtLine(k, WRITE)' = IF r.node = k /\ r.tag = WRITE THEN AtLine(k, WRITE) \cup {e}
                          ELSE AtLine(k, WRITE) \ {e}
  <2>1. editor'[e] = r /\ \A f \in Editors \ {e} : editor'[f] = editor[f]
    BY OneMoves DEF TextInv
  <2> QED BY <2>1 DEF AtLine, Node
<1>2. e \in AtLine(k, WRITE) <=> Node(e) = k /\ editor[e].tag = WRITE
  BY DEF AtLine
<1>3. \A f \in AtLine(k, WRITE) : kept[k][WRITE] = 0 /\ AtLine(k, WRITE) \subseteq {f}
  BY DEF TextInv, WritersAreAlone
<1>4. 0 \notin Nodes
  BY DEF Nodes
<1>5. CASE r.node = k /\ r.tag = WRITE
  <2>1. CASE e \in AtLine(k, WRITE)
    BY <1>1, <1>2, <1>3, <1>5, <2>1
  <2>2. CASE e \notin AtLine(k, WRITE)
    <3>1. permission[k][WRITE] = 0
      BY <1>2, <1>4, <1>5, <2>2
    <3>2. AtLine(k, WRITE) = {} /\ kept[k][WRITE] = 0
      BY <3>1, GrantedIsFree
    <3> QED BY <1>1, <1>2, <1>5, <2>2, <3>2
  <2> QED BY <2>1, <2>2
<1>6. CASE ~(r.node = k /\ r.tag = WRITE)
  BY <1>1, <1>2, <1>3, <1>6
<1> QED BY <1>5, <1>6

LEMMA SaversMove ==
  ASSUME TextInv, NEW e \in Editors, NEW r \in EditorTypes, editor' = [editor EXCEPT ![e] = r],
         Where(e) # "save", r.at # "save", UNCHANGED <<savedFile, toSave>>,
         text' \in Seq(1 .. Len(text')), Len(text) <= Len(text'),
         \A i \in DOMAIN text : \E j \in DOMAIN text' : text'[j] = text[i]
  PROVE  /\ \A d \in Editors : SaverFits(d)'
         /\ (\A d \in Editors : Where(d)' # "save") => toSave' \in {0, Len(savedFile')}
<1>1. editor'[e] = r /\ \A d \in Editors \ {e} : editor'[d] = editor[d]
  BY OneMoves DEF TextInv
<1>2. Len(text) \in Nat /\ Len(text') \in Nat /\ toSave \in Nat
  BY DEF TextInv, TextTypes
<1>3. ASSUME NEW d \in Editors, Where(d)' = "save" PROVE SaverFits(d)'
  <2>1. d # e /\ editor'[d] = editor[d] /\ SaverFits(d) /\ Where(d) = "save"
    BY <1>1, <1>3 DEF Where, TextInv
  <2>2. \A f \in Editors \ {d} : Where(f)' # "save"
    BY <1>1, <2>1 DEF SaverFits, Where
  <2>3. Node(d) = 0 \/ \E j \in DOMAIN text' : text'[j] = Node(d)
    BY <2>1 DEF SaverFits
  <2>4. Len(savedFile) <= toSave /\ toSave <= Len(text')
    BY <1>2, <2>1 DEF SaverFits
  <2> QED BY <2>1, <2>2, <2>3, <2>4 DEF SaverFits, Node
<1>4. \A d \in Editors : SaverFits(d)'
  <2>1. \A d \in Editors : Where(d)' # "save" => SaverFits(d)'
    BY DEF SaverFits
  <2> QED BY <1>3, <2>1
<1>5. (\A d \in Editors : Where(d)' # "save") => \A d \in Editors : Where(d) # "save"
  BY <1>1 DEF Where
<1> QED BY <1>4, <1>5 DEF TextInv

(* A step of a call that does not save.                                     *)
LEMMA EditKeeps ==
  ASSUME TextInv, NEW e \in Editors, NEW r \in EditorTypes, editor' = [editor EXCEPT ![e] = r],
         Where(e) # "save", r.at # "save", UNCHANGED <<savedFile, toSave>>,
         text' \in Seq(1 .. Len(text')), Len(text') <= MaxLines, Len(text) <= Len(text'),
         \A i \in DOMAIN text : \E j \in DOMAIN text' : text'[j] = text[i],
         lineStr' \in [Nodes -> AnyLines],
         permission' \in [Nodes -> [Tags -> Int]], kept' \in [Nodes -> [Tags -> Nat]],
         EditorFits(e)', LinesAreReleased', WritersAreAlone', TornIsHeld'
  PROVE  TextInv'
<1>1. /\ editor' \in [Editors -> EditorTypes] /\ editor'[e] = r
      /\ \A d \in Editors \ {e} : editor'[d] = editor[d]
  BY OneMoves DEF TextInv
<1>2. TextTypes'
  BY <1>1 DEF TextInv, TextTypes
<1>3. \A d \in Editors : EditorFits(d)'
  BY <1>1 DEF TextInv, EditorFits, Where, Node
<1>4. /\ \A d \in Editors : SaverFits(d)'
      /\ (\A d \in Editors : Where(d)' # "save") => toSave' \in {0, Len(savedFile')}
  BY SaversMove
<1> QED BY <1>2, <1>3, <1>4 DEF TextInv

(* A torn line stays held, or becomes so.                                   *)
LEMMA TornMoves ==
  ASSUME TextInv, NEW e \in Editors, NEW r \in EditorTypes, editor' = [editor EXCEPT ![e] = r],
         \A n \in Nodes : kept'[n][WRITE] \in Nat /\ kept'[n][WRITE] >= kept[n][WRITE],
         \A n \in Nodes :
           \/ lineStr'[n] \in CleanLines
           \/ kept'[n][WRITE] > 0
           \/ r.node = n /\ r.tag = WRITE /\ r.at = "write"
           \/ lineStr'[n] = lineStr[n] /\ (n # Node(e) \/ Where(e) # "write")
  PROVE  TornIsHeld'
<1> SUFFICES ASSUME NEW k \in Nodes, lineStr'[k] \notin CleanLines
             PROVE  kept'[k][WRITE] > 0 \/ \E d \in AtLine(k, WRITE)' : Where(d)' = "write"
  BY DEF TornIsHeld
<1>1. editor'[e] = r /\ \A d \in Editors \ {e} : editor'[d] = editor[d]
  BY OneMoves DEF TextInv
<1>2. CASE r.node = k /\ r.tag = WRITE /\ r.at = "write"
  BY <1>1, <1>2 DEF AtLine, Where, Node
<1>3. CASE lineStr'[k] = lineStr[k] /\ (k # Node(e) \/ Where(e) # "write")
  <2>1. kept[k][WRITE] > 0 \/ \E d \in AtLine(k, WRITE) : Where(d) = "write"
    BY <1>3 DEF TextInv, TornIsHeld
  <2>2. CASE kept[k][WRITE] > 0
    <3>1. kept[k][WRITE] \in Nat
      BY TagsAre DEF TextInv, TextTypes
    <3>2. kept'[k][WRITE] \in Nat /\ kept'[k][WRITE] >= kept[k][WRITE]
      OBVIOUS
    <3> QED BY <2>2, <3>1, <3>2
  <2>3. ASSUME NEW d \in AtLine(k, WRITE), Where(d) = "write"
        PROVE  d \in AtLine(k, WRITE)' /\ Where(d)' = "write"
    <3>1. d \in Editors /\ d # e
      BY <1>3, <2>3 DEF AtLine
    <3>2. editor'[d] = editor[d]
      BY <1>1, <3>1
    <3> QED BY <2>3, <3>1, <3>2 DEF AtLine, Where, Node
  <2> QED BY <2>1, <2>2, <2>3
<1> QED BY <1>2, <1>3

LEMMA EditHere ==
  ASSUME TextInv, NEW e \in Editors, NEW r \in EditorTypes, editor' = [editor EXCEPT ![e] = r],
         Where(e) # "save", r.at # "save", UNCHANGED <<savedFile, toSave, text>>,
         lineStr' \in [Nodes -> AnyLines],
         permission' \in [Nodes -> [Tags -> Int]], kept' \in [Nodes -> [Tags -> Nat]],
         EditorFits(e)', LinesAreReleased', WritersAreAlone', TornIsHeld'
  PROVE  TextInv'
<1>1. /\ text' \in Seq(1 .. Len(text')) /\ Len(text') <= MaxLines /\ Len(text) <= Len(text')
      /\ \A i \in DOMAIN text : \E j \in DOMAIN text' : text'[j] = text[i]
  BY DEF TextInv, TextTypes
<1> QED BY <1>1, EditKeeps

LEMMA SameTextKeeps ==
  ASSUME TextInv, UNCHANGED <<savedFile, text, lineStr, permission, editor, kept, toSave>>
  PROVE  TextInv'
<1>1. TextTypes' /\ LinesAreReleased' /\ WritersAreAlone' /\ TornIsHeld'
  <2>1. TextTypes'
    BY DEF TextInv, TextTypes
  <2>2. LinesAreReleased'
    BY DEF TextInv, LinesAreReleased, Node
  <2>4. WritersAreAlone'
    BY DEF TextInv, WritersAreAlone, AtLine, Node
  <2>5. TornIsHeld'
    BY DEF TextInv, TornIsHeld, AtLine, Node, Where
  <2> QED BY <2>1, <2>2, <2>4, <2>5
<1>2. \A e \in Editors : EditorFits(e)' /\ SaverFits(e)'
  BY DEF TextInv, EditorFits, SaverFits, Node, Where
<1> QED BY <1>1, <1>2 DEF TextInv, Where

-----------------------------------------------------------------------------
(* The steps of the calls that read, replace and insert.                    *)
LEMMA FindKeeps ==
  ASSUME TextInv, NEW e \in Editors, NEW op \in Replacing \cup {"insert", "config"}, NEW k \in Nodes,
         NEW tag \in Tags, op \in Replacing <=> tag = WRITE, NEW new \in CleanLines,
         NEW posi \in {0, 1}, Find(e, op, k, tag, new, posi)
  PROVE  TextInv'
<1>1. Where(e) = "out" /\ UNCHANGED <<savedFile, text, lineStr, kept, toSave>>
  BY DEF Find
<1>2. editor[e] = NotEditing
  BY <1>1 DEF TextInv, EditorFits
<1>3. CASE UNCHANGED <<permission, editor>>
  BY <1>1, <1>3, SameTextKeeps
<1>4. CASE ~UNCHANGED <<permission, editor>>
  <2> DEFINE r == [at |-> "found", op |-> op, node |-> k, tag |-> tag, new |-> new, posi |-> posi]
             x == permission[k][tag] + 1
  <2>1. /\ Grants(k, tag) /\ permission' = [permission EXCEPT ![k][tag] = x]
        /\ editor' = [editor EXCEPT ![e] = r]
    BY <1>4 DEF Find, GetPermission
  <2>2. k \in 0 .. MaxLines
    BY DEF Nodes
  <2>3. /\ r \in EditorTypes /\ r.at = "found" /\ r.node = k /\ r.tag = tag /\ r.op = op
    BY <2>2 DEF EditorTypes, Replacing
  <2> HIDE DEF r
  <2>4. permission[k][tag] \in Int /\ x \in Int
    BY DEF TextInv, TextTypes
  <2>5. permission \in [Nodes -> [Tags -> Int]] /\ kept \in [Nodes -> [Tags -> Nat]]
    BY DEF TextInv, TextTypes
  <2> HIDE DEF x
  <2>6. /\ permission' \in [Nodes -> [Tags -> Int]]
        /\ \A n \in Nodes, u \in Tags :
             permission'[n][u] = IF n = k /\ u = tag THEN x ELSE permission[n][u]
    BY <2>1, <2>4, <2>5, OneChanges
  <2>7. LinesAreReleased'
    <3>1. Node(e) = 0 /\ 0 \notin Nodes
      BY <1>2, NotEditingIs DEF Node, Nodes
    <3>2. ASSUME NEW n \in Nodes, NEW u \in Tags
          PROVE  permission'[n][u] - kept'[n][u] =
                   permission[n][u] - kept[n][u]
                     + ((IF r.node = n /\ r.tag = u THEN 1 ELSE 0)
                        - (IF Node(e) = n /\ editor[e].tag = u THEN 1 ELSE 0))
      <4>1. permission[n][u] \in Int /\ kept[n][u] \in Int /\ kept'[n][u] = kept[n][u]
        BY <1>1, <2>5
      <4>2. (IF Node(e) = n /\ editor[e].tag = u THEN 1 ELSE 0) = 0
        BY <3>1
      <4>3. (IF r.node = n /\ r.tag = u THEN 1 ELSE 0) = IF n = k /\ u = tag THEN 1 ELSE 0
        BY <2>3
      <4>4. permission'[n][u] = IF n = k /\ u = tag THEN permission[n][u] + 1 ELSE permission[n][u]
        BY <2>6 DEF x
      <4> QED BY <4>1, <4>2, <4>3, <4>4
    <3>3. kept' \in [Nodes -> [Tags -> Nat]]
      BY <1>1, <2>5
    <3>4. r \in EditorTypes /\ editor' = [editor EXCEPT ![e] = r]
      BY <2>1, <2>3
    <3>5. permission' \in [Nodes -> [Tags -> Int]]
      BY <2>6
    <3> QED BY <3>2, <3>3, <3>4, <3>5, CountsMove
  <2>8. WritersAreAlone'
    <3>1. tag = WRITE => permission[k][WRITE] = 0
      BY <2>1 DEF Grants
    <3> QED BY <1>1, <2>1, <2>3, <3>1, AloneMoves
  <2>9. TornIsHeld'
    <3>1. \A n \in Nodes : kept'[n][WRITE] \in Nat /\ kept'[n][WRITE] >= kept[n][WRITE]
      BY <1>1, <2>5, TagsAre
    <3>2. \A n \in Nodes : lineStr'[n] = lineStr[n] /\ Where(e) # "write"
      BY <1>1
    <3>3. r \in EditorTypes /\ editor' = [editor EXCEPT ![e] = r]
      BY <2>1, <2>3
    <3> QED BY <3>1, <3>2, <3>3, TornMoves
  <2>10. EditorFits(e)'
    <3>1. editor'[e] = r
      BY <2>1, <2>3, OneMoves DEF TextInv
    <3>2. (op \in Replacing /\ tag = WRITE) \/ (op \in {"insert", "config"} /\ tag = READ)
      BY DEF Tags
    <3> QED BY <2>3, <3>1, <3>2 DEF EditorFits, Where, Node
  <2>11. lineStr' \in [Nodes -> AnyLines] /\ kept' \in [Nodes -> [Tags -> Nat]]
    BY <1>1 DEF TextInv, TextTypes
  <2> QED BY <1>1, <2>1, <2>3, <2>6, <2>7, <2>8, <2>9, <2>10, <2>11, EditHere
<1> QED BY <1>3, <1>4

LEMMA TextIs ==
  ASSUME TextTypes
  PROVE  /\ Len(text) \in Nat /\ DOMAIN text = 1 .. Len(text) /\ Len(text) <= MaxLines
         /\ \A i \in 1 .. Len(text) : text[i] \in 1 .. Len(text) /\ text[i] \in Nodes
<1>1. text \in Seq(1 .. Len(text)) /\ Len(text) <= MaxLines
  BY DEF TextTypes
<1>2. Len(text) \in Nat /\ DOMAIN text = 1 .. Len(text)
  BY <1>1
<1>3. \A i \in 1 .. Len(text) : text[i] \in 1 .. Len(text)
  BY <1>1, ElementOfSeq
<1>4. MaxLines \in Nat /\ 1 .. Len(text) \subseteq Nodes
  BY <1>1, <1>2, TextAssumption DEF Nodes
<1> QED BY <1>1, <1>2, <1>3, <1>4

LEMMA FindsByNumber ==
  ASSUME TextInv, NEW e \in Editors, NEW w \in Words, NEW n \in 1 .. MaxLines,
         replace_line_num(e, n, w)
  PROVE  TextInv'
<1>1. PICK k \in Nodes : Find(e, "replace_line", k, WRITE, <<w, CR>>, 0)
  BY TextIs DEF TextInv, replace_line_num, find_line_num, ReplaceTag
<1>2. <<w, CR>> \in CleanLines
  BY LinesAre
<1> QED BY <1>1, <1>2, TagsAre, FindKeeps DEF Replacing

LEMMA FindsByWord ==
  ASSUME TextInv, NEW e \in Editors, NEW w \in Words, NEW keyword \in Words, NEW posi \in {0, 1},
         \/ replace_kw(e, keyword, w) \/ modify_config(e, keyword, w)
         \/ insert_line(e, w, w, posi) \/ get_config_value(e, w)
  PROVE  TextInv'
<1>1. \A i \in DOMAIN text : text[i] \in Nodes
  BY TextIs DEF TextInv
<1>2. /\ <<w, CR>> \in CleanLines /\ <<w>> \in CleanLines /\ << >> \in CleanLines
      /\ <<keyword, Equals, w>> \o <<CR>> \in CleanLines
  <2>1. <<keyword, Equals, w>> \in CleanLines
    BY DEF CleanLines
  <2> QED BY <2>1, LinesAre
<1>3. ASSUME NEW op \in Replacing \cup {"insert", "config"}, NEW tag \in Tags, NEW new \in CleanLines,
             op \in Replacing <=> tag = WRITE, NEW p \in {0, 1}, NEW word,
             find_keyword(e, op, word, tag, new, p)
      PROVE  TextInv'
  <2>1. PICK k \in Nodes : Find(e, op, k, tag, new, p)
    BY <1>1, <1>3 DEF find_keyword
  <2> QED BY <1>3, <2>1, FindKeeps
<1>4. CASE replace_kw(e, keyword, w)
  <2>1. find_keyword(e, "replace_kw", keyword, WRITE, <<w>>, 0)
    BY <1>4 DEF replace_kw, ReplaceTag
  <2> QED BY <1>2, <1>3, <2>1, TagsAre DEF Replacing
<1>5. CASE modify_config(e, keyword, w)
  <2>1. find_keyword(e, "replace_line", keyword, WRITE, <<keyword, Equals, w>> \o <<CR>>, 0)
    BY <1>5 DEF modify_config, replace_line_kw, ReplaceTag
  <2> QED BY <1>2, <1>3, <2>1, TagsAre DEF Replacing
<1>6. CASE insert_line(e, w, w, posi)
  <2>1. find_keyword(e, "insert", w, READ, <<w, CR>>, posi)
    BY <1>6 DEF insert_line
  <2> QED BY <1>2, <1>3, <2>1, TagsAre DEF Replacing
<1>7. CASE get_config_value(e, w)
  <2>1. find_keyword(e, "config", w, READ, << >>, 0)
    BY <1>7 DEF get_config_value
  <2> QED BY <1>2, <1>3, <2>1, TagsAre DEF Replacing
<1> QED BY <1>4, <1>5, <1>6, <1>7

(* What holds of a call at its line.                                        *)
LEMMA EditorIs ==
  ASSUME TextInv, NEW e \in Editors, Where(e) \in {"found", "write", "inserted"}
  PROVE  /\ editor[e] \in EditorTypes /\ Node(e) \in Nodes /\ editor[e].tag \in Tags
         /\ editor[e].new \in CleanLines /\ EditorFits(e)
         /\ editor[e].op \in Replacing => editor[e].tag = WRITE
         /\ editor[e].op \in {"insert", "config"} => editor[e].tag = READ
<1>1. editor[e] \in EditorTypes /\ EditorFits(e)
  BY DEF TextInv, TextTypes
<1>2. editor[e].new \in CleanLines
  BY <1>1 DEF EditorTypes
<1> QED BY <1>1, <1>2, TagsAre DEF EditorFits, Replacing

(* The line of a call that may write it is whole until it begins.           *)
LEMMA LineIsWhole ==
  ASSUME TextInv, NEW e \in Editors, Where(e) = "found", editor[e].op \in Replacing
  PROVE  lineStr[Node(e)] \in CleanLines
<1> DEFINE k == Node(e)
<1>1. k \in Nodes /\ e \in AtLine(k, WRITE)
  BY EditorIs DEF AtLine
<1>2. kept[k][WRITE] = 0 /\ AtLine(k, WRITE) \subseteq {e}
  BY <1>1 DEF TextInv, WritersAreAlone
<1> QED BY <1>1, <1>2 DEF TextInv, TornIsHeld

(* A step that stays at the line: the permissions do not change.            *)
LEMMA StayKeeps ==
  ASSUME TextInv, NEW e \in Editors, NEW r \in EditorTypes, editor' = [editor EXCEPT ![e] = r],
         r.node = Node(e), r.tag = editor[e].tag, r.at \in {"write", "inserted"},
         Where(e) \in {"found", "write", "inserted"},
         \/ editor[e].op \in Replacing /\ r.op \in Replacing
         \/ editor[e].op \in {"insert", "config"} /\ r.op \in {"insert", "config"} /\ r.at # "write",
         UNCHANGED <<savedFile, toSave, permission, kept>>,
         text' \in Seq(1 .. Len(text')), Len(text') <= MaxLines, Len(text) <= Len(text'),
         \A i \in DOMAIN text : \E j \in DOMAIN text' : text'[j] = text[i],
         lineStr' \in [Nodes -> AnyLines],
         \A n \in Nodes :
           \/ lineStr'[n] \in CleanLines
           \/ r.node = n /\ r.tag = WRITE /\ r.at = "write"
           \/ lineStr'[n] = lineStr[n] /\ (n # Node(e) \/ Where(e) # "write")
  PROVE  TextInv'
<1>1. permission' \in [Nodes -> [Tags -> Int]] /\ kept' \in [Nodes -> [Tags -> Nat]]
  BY DEF TextInv, TextTypes
<1>2. LinesAreReleased'
  <2>1. ASSUME NEW n \in Nodes, NEW u \in Tags
        PROVE  permission'[n][u] - kept'[n][u] =
                 permission[n][u] - kept[n][u]
                   + ((IF r.node = n /\ r.tag = u THEN 1 ELSE 0)
                      - (IF Node(e) = n /\ editor[e].tag = u THEN 1 ELSE 0))
    <3>1. permission[n][u] \in Int /\ kept[n][u] \in Int
      BY DEF TextInv, TextTypes
    <3> QED BY <3>1
  <2> QED BY <1>1, <2>1, CountsMove
<1>3. WritersAreAlone'
  BY AloneMoves
<1>4. TornIsHeld'
  <2>1. \A n \in Nodes : kept'[n][WRITE] \in Nat /\ kept'[n][WRITE] >= kept[n][WRITE]
    BY TagsAre DEF TextInv, TextTypes
  <2> QED BY <2>1, TornMoves
<1>5. EditorFits(e)'
  <2>1. editor'[e] = r
    BY OneMoves DEF TextInv
  <2>2. /\ Node(e) \in Nodes
        /\ editor[e].op \in Replacing => editor[e].tag = WRITE
        /\ editor[e].op \in {"insert", "config"} => editor[e].tag = READ
    BY EditorIs
  <2> QED BY <2>1, <2>2 DEF EditorFits, Where, Node
<1> QED BY <1>1, <1>2, <1>3, <1>4, <1>5, EditKeeps

LEMMA WriteBeginsKeeps ==
  ASSUME TextInv, NEW e \in Editors, WriteBegins(e)
  PROVE  TextInv'
<1> DEFINE k == Node(e)
           l == IF editor[e].op = "replace_kw" THEN Front(lineStr[k]) \o editor[e].new ELSE editor[e].new
           r == [editor[e] EXCEPT !.at = "write", !.new = l]
<1>1. /\ Where(e) = "found" /\ editor[e].op \in Replacing
      /\ lineStr' = [lineStr EXCEPT ![k] = <<Torn>>]
      /\ UNCHANGED <<savedFile, text, permission, kept, toSave>>
      /\ editor' = [editor EXCEPT ![e].at = "write", ![e].new = l]
  BY DEF WriteBegins, Replacing
<1>2. /\ editor[e] \in EditorTypes /\ k \in Nodes /\ editor[e].new \in CleanLines /\ editor[e].tag = WRITE
  BY <1>1, EditorIs
<1>3. l \in CleanLines
  <2>1. Front(lineStr[k]) \in CleanLines
    BY <1>1, LineIsWhole, LinesAre
  <2> QED BY <1>2, <2>1, LinesAre
<1> HIDE DEF l
<1>4. editor' = [editor EXCEPT ![e] = r]
  BY <1>1 DEF TextInv, TextTypes
<1>5. r \in EditorTypes /\ r.at = "write" /\ r.node = k /\ r.tag = WRITE /\ r.op = editor[e].op
  <2> DEFINE p == editor[e]
  <2>1. p \in EditorTypes
    BY <1>2
  <2>2. /\ [p EXCEPT !.at = "write", !.new = l] \in EditorTypes
        /\ [p EXCEPT !.at = "write", !.new = l].at = "write"
        /\ [p EXCEPT !.at = "write", !.new = l].node = p.node
        /\ [p EXCEPT !.at = "write", !.new = l].tag = p.tag
        /\ [p EXCEPT !.at = "write", !.new = l].op = p.op
    <3> HIDE DEF p
    <3> QED BY <1>3, <2>1 DEF EditorTypes
  <2> QED BY <1>2, <2>2 DEF Node
<1> HIDE DEF r
<1>6. /\ lineStr' \in [Nodes -> AnyLines]
      /\ \A n \in Nodes : n # k => lineStr'[n] = lineStr[n]
  BY <1>1, <1>2, LinesAre DEF TextInv, TextTypes
<1>7. /\ text' \in Seq(1 .. Len(text')) /\ Len(text') <= MaxLines /\ Len(text) <= Len(text')
      /\ \A i \in DOMAIN text : \E j \in DOMAIN text' : text'[j] = text[i]
  BY <1>1, TextIs DEF TextInv, TextTypes
<1>8. \A n \in Nodes :
        \/ lineStr'[n] \in CleanLines
        \/ r.node = n /\ r.tag = WRITE /\ r.at = "write"
        \/ lineStr'[n] = lineStr[n] /\ (n # Node(e) \/ Where(e) # "write")
  BY <1>5, <1>6
<1>9. /\ r.node = Node(e) /\ r.tag = editor[e].tag /\ r.at \in {"write", "inserted"}
      /\ Where(e) \in {"found", "write", "inserted"}
      /\ Where(e) # "save" /\ r.at # "save"
      /\ editor[e].op \in Replacing /\ r.op \in Replacing
      /\ r \in EditorTypes /\ editor' = [editor EXCEPT ![e] = r]
  BY <1>1, <1>2, <1>4, <1>5
<1>10. UNCHANGED <<savedFile, toSave, permission, kept>>
  BY <1>1
<1>11. lineStr' \in [Nodes -> AnyLines]
  BY <1>6
<1> HIDE DEF k
<1> QED BY <1>7, <1>8, <1>9, <1>10, <1>11, StayKeeps

(* A line comes into the text, and all others stay in it.                   *)
LEMMA InsertIs ==
  ASSUME NEW s, NEW n \in Nat, s \in Seq(1 .. n), Len(s) = n, NEW i \in 1 .. n + 1
  PROVE  /\ InsertAt(s, i, n + 1) \in Seq(1 .. n + 1) /\ Len(InsertAt(s, i, n + 1)) = n + 1
         /\ \A j \in 1 .. n : \E m \in 1 .. n + 1 : InsertAt(s, i, n + 1)[m] = s[j]
<1> DEFINE a == SubSeq(s, 1, i - 1)
           b == SubSeq(s, i, n)
           x == <<n + 1>>
           t == (a \o x) \o b
<1>1. InsertAt(s, i, n + 1) = t
  BY DEF InsertAt
<1>2. s \in Seq(1 .. n + 1) /\ Len(s) = n
  <2>1. \A j \in 1 .. n : s[j] \in 1 .. n + 1
    BY ElementOfSeq
  <2> QED BY <2>1
<1>3. a \in Seq(1 .. n + 1) /\ Len(a) = i - 1 /\ \A j \in 1 .. i - 1 : a[j] = s[j]
  BY <1>2
<1>4. b \in Seq(1 .. n + 1) /\ Len(b) = n - i + 1 /\ \A j \in 1 .. n - i + 1 : b[j] = s[i + j - 1]
  BY <1>2
<1>5. x \in Seq(1 .. n + 1) /\ Len(x) = 1
  OBVIOUS
<1> HIDE DEF a, b, x
<1>6. /\ a \o x \in Seq(1 .. n + 1) /\ Len(a \o x) = i
      /\ \A j \in 1 .. i - 1 : (a \o x)[j] = a[j]
  <2>1. /\ a \o x \in Seq(1 .. n + 1) /\ Len(a \o x) = Len(a) + Len(x)
        /\ \A j \in 1 .. Len(a) + Len(x) : (a \o x)[j] = IF j <= Len(a) THEN a[j] ELSE x[j - Len(a)]
    BY <1>3, <1>5, ConcatProperties
  <2>2. Len(a) + Len(x) = i
    BY <1>3, <1>5
  <2>3. ASSUME NEW j \in 1 .. i - 1 PROVE (a \o x)[j] = a[j]
    BY <1>3, <2>1, <2>2
  <2> QED BY <2>1, <2>2, <2>3
<1> DEFINE c == a \o x
<1> HIDE DEF c
<1>7. /\ c \o b \in Seq(1 .. n + 1) /\ Len(c \o b) = n + 1
      /\ \A j \in 1 .. i - 1 : (c \o b)[j] = s[j]
      /\ \A j \in i .. n : (c \o b)[j + 1] = s[j]
  <2>1. c \in Seq(1 .. n + 1) /\ Len(c) = i /\ \A j \in 1 .. i - 1 : c[j] = s[j]
    BY <1>3, <1>6 DEF c
  <2>2. /\ c \o b \in Seq(1 .. n + 1) /\ Len(c \o b) = Len(c) + Len(b)
        /\ \A j \in 1 .. Len(c) + Len(b) : (c \o b)[j] = IF j <= Len(c) THEN c[j] ELSE b[j - Len(c)]
    BY <1>4, <2>1, ConcatProperties
  <2>3. Len(c) + Len(b) = n + 1
    BY <1>4, <2>1
  <2>4. \A j \in 1 .. i - 1 : (c \o b)[j] = s[j]
    BY <2>1, <2>2, <2>3
  <2>5. ASSUME NEW j \in i .. n PROVE (c \o b)[j + 1] = s[j]
    <3>1. j + 1 \in 1 .. n + 1 /\ ~(j + 1 <= i) /\ j + 1 - i \in 1 .. n - i + 1 /\ i + (j + 1 - i) - 1 = j
      <4> HIDE DEF c
      <4> QED OBVIOUS
    <3>2. (c \o b)[j + 1] = b[j + 1 - i]
      <4>1. \A m \in 1 .. n + 1 : (c \o b)[m] = IF m <= i THEN c[m] ELSE b[m - i]
        BY <2>1, <2>2, <2>3
      <4> DEFINE d == c \o b
      <4>2. \A m \in 1 .. n + 1 : d[m] = IF m <= i THEN c[m] ELSE b[m - i]
        BY <4>1
      <4> HIDE DEF c, d
      <4>3. d[j + 1] = b[j + 1 - i]
        BY <3>1, <4>2
      <4> QED BY <4>3 DEF d
    <3> QED BY <1>4, <3>1, <3>2
  <2> QED BY <2>2, <2>3, <2>4, <2>5
<1>8. ASSUME NEW j \in 1 .. n PROVE \E m \in 1 .. n + 1 : (c \o b)[m] = s[j]
  <2>1. CASE j < i
    <3>1. j \in 1 .. i - 1 /\ j \in 1 .. n + 1
      BY <2>1
    <3> QED BY <1>7, <3>1
  <2>2. CASE ~(j < i)
    <3>1. j \in i .. n /\ j + 1 \in 1 .. n + 1
      BY <2>2
    <3> QED BY <1>7, <3>1
  <2> QED BY <2>1, <2>2
<1> QED BY <1>1, <1>7, <1>8 DEF c

LEMMA LineInsertedKeeps ==
  ASSUME TextInv, NEW e \in Editors, LineInserted(e)
  PROVE  TextInv'
<1> DEFINE n == Len(text)
           r == [editor[e] EXCEPT !.at = "inserted"]
<1>1. /\ Where(e) = "found" /\ editor[e].op = "insert" /\ n < MaxLines
      /\ lineStr' = [lineStr EXCEPT ![n + 1] = editor[e].new]
      /\ UNCHANGED <<savedFile, permission, kept, toSave>>
      /\ editor' = [editor EXCEPT ![e] = r]
  BY DEF LineInserted, ToStep
<1>2. /\ editor[e] \in EditorTypes /\ editor[e].new \in CleanLines /\ editor[e].tag = READ
  BY <1>1, EditorIs
<1>3. /\ text \in Seq(1 .. n) /\ n \in Nat /\ DOMAIN text = 1 .. n
  BY TextIs DEF TextInv, TextTypes
<1>4. PICK i \in 1 .. n : text' = InsertAt(text, i + editor[e].posi, n + 1)
  BY <1>3 DEF LineInserted
<1>5. i + editor[e].posi \in 1 .. n + 1
  <2>1. editor[e].posi \in {0, 1}
    BY <1>2 DEF EditorTypes
  <2> HIDE DEF n
  <2> QED BY <1>3, <2>1
<1>6. /\ text' \in Seq(1 .. n + 1) /\ Len(text') = n + 1
      /\ \A j \in 1 .. n : \E m \in 1 .. n + 1 : text'[m] = text[j]
  <2> DEFINE p == i + editor[e].posi
  <2>1. p \in 1 .. n + 1 /\ text' = InsertAt(text, p, n + 1) /\ n = Len(text)
    BY <1>4, <1>5
  <2> HIDE DEF n, p
  <2> QED BY <1>3, <2>1, InsertIs
<1>7. /\ text' \in Seq(1 .. Len(text')) /\ Len(text') <= MaxLines /\ Len(text) <= Len(text')
      /\ \A j \in DOMAIN text : \E m \in DOMAIN text' : text'[m] = text[j]
  <2>1. DOMAIN text' = 1 .. n + 1
    BY <1>6
  <2>2. n + 1 <= MaxLines /\ n <= n + 1
    BY <1>1, <1>3, TextAssumption
  <2> QED BY <1>3, <1>6, <2>1, <2>2
<1>8. r \in EditorTypes /\ r.at = "inserted" /\ r.node = Node(e) /\ r.tag = READ /\ r.op = "insert"
  <2> DEFINE p == editor[e]
  <2>1. p \in EditorTypes
    BY <1>2
  <2>2. /\ [p EXCEPT !.at = "inserted"] \in EditorTypes
        /\ [p EXCEPT !.at = "inserted"].at = "inserted"
        /\ [p EXCEPT !.at = "inserted"].node = p.node
        /\ [p EXCEPT !.at = "inserted"].tag = p.tag
        /\ [p EXCEPT !.at = "inserted"].op = p.op
    <3> HIDE DEF p
    <3> QED BY <2>1 DEF EditorTypes
  <2> QED BY <1>1, <1>2, <2>2 DEF Node
<1> HIDE DEF r
<1>9. n + 1 \in Nodes
  BY <1>1, <1>3, TextAssumption DEF Nodes
<1> HIDE DEF n
<1>10. /\ lineStr' \in [Nodes -> AnyLines]
       /\ \A m \in Nodes : lineStr'[m] \in CleanLines \/ lineStr'[m] = lineStr[m]
  BY <1>1, <1>2, <1>9, LinesAre DEF TextInv, TextTypes
<1>11. \A m \in Nodes :
        \/ lineStr'[m] \in CleanLines
        \/ r.node = m /\ r.tag = WRITE /\ r.at = "write"
        \/ lineStr'[m] = lineStr[m] /\ (m # Node(e) \/ Where(e) # "write")
  BY <1>1, <1>10
<1> QED BY <1>1, <1>2, <1>7, <1>8, <1>10, <1>11, StayKeeps

-----------------------------------------------------------------------------
(* A call leaves its line and releases its permission, or keeps it.         *)
LEMMA LeaveKeeps ==
  ASSUME TextInv, NEW e \in Editors, Where(e) \in {"found", "write", "inserted"}, CallEnds(e),
         UNCHANGED <<savedFile, text, toSave>>,
         \/ ReleasePermission(Node(e), editor[e].tag) /\ UNCHANGED kept
         \/ KeepPermission(Node(e), editor[e].tag) /\ UNCHANGED permission,
         lineStr' \in [Nodes -> AnyLines],
         \A n \in Nodes :
           \/ lineStr'[n] \in CleanLines
           \/ kept'[n][WRITE] > 0
           \/ lineStr'[n] = lineStr[n] /\ (n # Node(e) \/ Where(e) # "write")
  PROVE  TextInv'
<1> DEFINE r == NotEditing
<1>1. /\ r \in EditorTypes /\ r.at = "out" /\ r.node = 0 /\ r.tag = "none"
      /\ editor' = [editor EXCEPT ![e] = r]
  BY NotEditingIs DEF CallEnds
<1>2. PICK k \in Nodes, t \in Tags : k = Node(e) /\ t = editor[e].tag
  BY EditorIs
<1>3. /\ permission \in [Nodes -> [Tags -> Int]] /\ kept \in [Nodes -> [Tags -> Nat]]
      /\ permission[k][t] \in Int /\ kept[k][t] \in Nat
  BY DEF TextInv, TextTypes
<1>4. /\ permission' \in [Nodes -> [Tags -> Int]] /\ kept' \in [Nodes -> [Tags -> Nat]]
      /\ \A n \in Nodes, u \in Tags :
           /\ permission'[n][u] - kept'[n][u] =
                permission[n][u] - kept[n][u] - (IF n = k /\ u = t THEN 1 ELSE 0)
           /\ kept'[n][u] = kept[n][u] \/ (n = k /\ u = t /\ kept'[n][u] = kept[n][u] + 1)
  <2>1. CASE ReleasePermission(Node(e), editor[e].tag) /\ UNCHANGED kept
    <3> DEFINE x == permission[k][t] - 1
    <3>1. permission' = [permission EXCEPT ![k][t] = x] /\ x \in Int
      BY <1>2, <1>3, <2>1 DEF ReleasePermission
    <3> HIDE DEF x
    <3>2. /\ permission' \in [Nodes -> [Tags -> Int]]
          /\ \A n \in Nodes, u \in Tags : permission'[n][u] = IF n = k /\ u = t THEN x ELSE permission[n][u]
      BY <1>3, <3>1, OneChanges
    <3>3. ASSUME NEW n \in Nodes, NEW u \in Tags
          PROVE  /\ permission'[n][u] - kept'[n][u] =
                      permission[n][u] - kept[n][u] - (IF n = k /\ u = t THEN 1 ELSE 0)
                 /\ kept'[n][u] = kept[n][u]
      <4>1. permission[n][u] \in Int /\ kept[n][u] \in Int /\ kept'[n][u] = kept[n][u]
        BY <1>3, <2>1
      <4>2. permission'[n][u] = IF n = k /\ u = t THEN permission[n][u] - 1 ELSE permission[n][u]
        BY <3>2 DEF x
      <4> QED BY <4>1, <4>2
    <3> QED BY <1>3, <2>1, <3>2, <3>3
  <2>2. CASE KeepPermission(Node(e), editor[e].tag) /\ UNCHANGED permission
    <3> DEFINE x == kept[k][t] + 1
    <3>1. kept' = [kept EXCEPT ![k][t] = x] /\ x \in Nat
      BY <1>2, <1>3, <2>2 DEF KeepPermission
    <3> HIDE DEF x
    <3>2. /\ kept' \in [Nodes -> [Tags -> Nat]]
          /\ \A n \in Nodes, u \in Tags : kept'[n][u] = IF n = k /\ u = t THEN x ELSE kept[n][u]
      BY <1>3, <3>1, OneChanges
    <3>3. ASSUME NEW n \in Nodes, NEW u \in Tags
          PROVE  /\ permission'[n][u] - kept'[n][u] =
                      permission[n][u] - kept[n][u] - (IF n = k /\ u = t THEN 1 ELSE 0)
                 /\ kept'[n][u] = kept[n][u] \/ (n = k /\ u = t /\ kept'[n][u] = kept[n][u] + 1)
      <4>1. permission[n][u] \in Int /\ kept[n][u] \in Int /\ permission'[n][u] = permission[n][u]
        BY <1>3, <2>2
      <4>2. kept'[n][u] = IF n = k /\ u = t THEN kept[n][u] + 1 ELSE kept[n][u]
        BY <3>2 DEF x
      <4> QED BY <4>1, <4>2
    <3> QED BY <1>3, <2>2, <3>2, <3>3
  <2> QED BY <2>1, <2>2
<1> HIDE DEF r
<1>5. 0 \notin Nodes
  BY DEF Nodes
<1>6. LinesAreReleased'
  <2>1. ASSUME NEW n \in Nodes, NEW u \in Tags
        PROVE  permission'[n][u] - kept'[n][u] =
                 permission[n][u] - kept[n][u]
                   + ((IF r.node = n /\ r.tag = u THEN 1 ELSE 0)
                      - (IF Node(e) = n /\ editor[e].tag = u THEN 1 ELSE 0))
    <3>1. permission[n][u] \in Int /\ kept[n][u] \in Int
      BY <1>3
    <3>2. (IF r.node = n /\ r.tag = u THEN 1 ELSE 0) = 0
      BY <1>1, <1>5
    <3>3. (IF Node(e) = n /\ editor[e].tag = u THEN 1 ELSE 0) = IF n = k /\ u = t THEN 1 ELSE 0
      BY <1>2
    <3>4. permission'[n][u] - kept'[n][u] =
            permission[n][u] - kept[n][u] - (IF n = k /\ u = t THEN 1 ELSE 0)
      BY <1>4
    <3> QED BY <3>1, <3>2, <3>3, <3>4
  <2>2. permission' \in [Nodes -> [Tags -> Int]] /\ kept' \in [Nodes -> [Tags -> Nat]]
    BY <1>4
  <2>3. r \in EditorTypes /\ editor' = [editor EXCEPT ![e] = r]
    BY <1>1
  <2> QED BY <2>1, <2>2, <2>3, CountsMove
<1>7. WritersAreAlone'
  <2>1. \A n \in Nodes : \/ kept'[n][WRITE] = kept[n][WRITE]
                         \/ n = Node(e) /\ editor[e].tag = WRITE /\ r.node # n
    BY <1>1, <1>2, <1>4, <1>5, TagsAre
  <2>2. r.tag # WRITE \/ r.node = 0
    BY <1>1
  <2>3. r \in EditorTypes /\ editor' = [editor EXCEPT ![e] = r]
    BY <1>1
  <2> QED BY <2>1, <2>2, <2>3, AloneMoves
<1>8. TornIsHeld'
  <2>1. ASSUME NEW n \in Nodes PROVE kept'[n][WRITE] \in Nat /\ kept'[n][WRITE] >= kept[n][WRITE]
    <3>1. kept[n][WRITE] \in Nat /\ kept'[n][WRITE] \in Nat
      BY <1>3, <1>4, TagsAre
    <3>2. kept'[n][WRITE] = kept[n][WRITE] \/ kept'[n][WRITE] = kept[n][WRITE] + 1
      BY <1>4, TagsAre
    <3> QED BY <3>1, <3>2
  <2> QED BY <1>1, <2>1, TornMoves
<1>9. EditorFits(e)'
  <2>1. editor'[e] = NotEditing
    BY <1>1, OneMoves DEF TextInv, r
  <2> QED BY <2>1, NotEditingIs DEF EditorFits, Where
<1>10. Where(e) # "save" /\ r.at # "save"
  BY <1>1
<1> QED BY <1>1, <1>4, <1>6, <1>7, <1>8, <1>9, <1>10, EditHere

LEMMA LineReplacedKeeps ==
  ASSUME TextInv, NEW e \in Editors, LineReplaced(e)
  PROVE  TextInv'
<1>1. /\ Where(e) = "write" /\ lineStr' = [lineStr EXCEPT ![Node(e)] = editor[e].new]
      /\ ReleasePermission(Node(e), editor[e].tag) /\ CallEnds(e)
      /\ UNCHANGED <<savedFile, text, kept, toSave>>
  BY DEF LineReplaced
<1>2. editor[e].new \in CleanLines /\ Node(e) \in Nodes
  BY <1>1, EditorIs
<1>3. lineStr \in [Nodes -> AnyLines] /\ CleanLines \subseteq AnyLines
  BY LinesAre DEF TextInv, TextTypes
<1>4. /\ lineStr' \in [Nodes -> AnyLines]
      /\ \A n \in Nodes : \/ lineStr'[n] \in CleanLines
                          \/ lineStr'[n] = lineStr[n] /\ n # Node(e)
  BY <1>1, <1>2, <1>3
<1> QED BY <1>1, <1>4, LeaveKeeps

LEMMA KeywordReplacedKeeps ==
  ASSUME TextInv, NEW e \in Editors, KeywordReplaced(e)
  PROVE  TextInv'
<1>1. /\ Where(e) = "write" /\ editor[e].op = "replace_kw"
      /\ KeepPermission(Node(e), editor[e].tag) /\ CallEnds(e)
      /\ UNCHANGED <<savedFile, text, permission, toSave>>
  BY DEF KeywordReplaced
<1>2. /\ editor[e].new \in CleanLines /\ Node(e) \in Nodes /\ editor[e].tag = WRITE
  BY <1>1, EditorIs DEF Replacing
<1>3. PICK l \in {editor[e].new, <<Torn>>} : lineStr' = [lineStr EXCEPT ![Node(e)] = l]
  BY DEF KeywordReplaced
<1>4. lineStr \in [Nodes -> AnyLines] /\ l \in AnyLines
  BY <1>2, LinesAre DEF TextInv, TextTypes
<1>5. lineStr' \in [Nodes -> AnyLines] /\ \A n \in Nodes : n # Node(e) => lineStr'[n] = lineStr[n]
  BY <1>2, <1>3, <1>4
<1>6. kept'[Node(e)][WRITE] > 0
  <2>1. kept \in [Nodes -> [Tags -> Nat]] /\ kept[Node(e)][WRITE] \in Nat
    BY <1>2, TagsAre DEF TextInv, TextTypes
  <2>2. kept'[Node(e)][WRITE] = kept[Node(e)][WRITE] + 1
    BY <1>1, <1>2, <2>1, TagsAre DEF KeepPermission
  <2> QED BY <2>1, <2>2
<1>7. \A n \in Nodes :
        \/ lineStr'[n] \in CleanLines
        \/ kept'[n][WRITE] > 0
        \/ lineStr'[n] = lineStr[n] /\ (n # Node(e) \/ Where(e) # "write")
  BY <1>5, <1>6
<1> QED BY <1>1, <1>5, <1>7, LeaveKeeps

LEMMA LeaversKeep ==
  ASSUME TextInv, NEW e \in Editors, InsertEnds(e) \/ ConfigNotRead(e)
  PROVE  TextInv'
<1>1. /\ Where(e) \in {"found", "inserted"} /\ editor[e].op \in {"insert", "config"} /\ CallEnds(e)
      /\ UNCHANGED <<savedFile, text, lineStr, toSave>>
      /\ \/ ReleasePermission(Node(e), READ) /\ UNCHANGED kept
         \/ KeepPermission(Node(e), READ) /\ UNCHANGED permission
  BY DEF InsertEnds, ConfigNotRead
<1>2. editor[e].tag = READ
  BY <1>1, EditorIs
<1>3. lineStr' \in [Nodes -> AnyLines]
  BY <1>1 DEF TextInv, TextTypes
<1>4. \A n \in Nodes : lineStr'[n] = lineStr[n] /\ Where(e) # "write"
  BY <1>1
<1> QED BY <1>1, <1>2, <1>3, <1>4, LeaveKeeps

-----------------------------------------------------------------------------
(* A step of the call that saves.                                           *)
LEMMA SaverKeeps ==
  ASSUME TextInv, NEW e \in Editors, NEW r \in EditorTypes, editor' = [editor EXCEPT ![e] = r],
         Where(e) \in {"out", "save"}, \A d \in Editors \ {e} : Where(d) # "save",
         UNCHANGED <<text, lineStr, kept>>,
         savedFile' \in Seq(CleanLines), Len(savedFile') <= MaxLines, toSave' \in Nat,
         r = NotEditing \/ (r.at = "save" /\ r.tag = READ),
         SaverFits(e)', r.at # "save" => toSave' \in {0, Len(savedFile')},
         permission' \in [Nodes -> [Tags -> Int]],
         \A n \in Nodes, u \in Tags :
           permission'[n][u] =
             permission[n][u] + ((IF r.node = n /\ r.tag = u THEN 1 ELSE 0)
                                 - (IF Node(e) = n /\ editor[e].tag = u THEN 1 ELSE 0))
  PROVE  TextInv'
<1>1. /\ editor' \in [Editors -> EditorTypes] /\ editor'[e] = r
      /\ \A d \in Editors \ {e} : editor'[d] = editor[d]
  BY OneMoves DEF TextInv
<1>2. TextTypes'
  BY <1>1 DEF TextInv, TextTypes
<1>3. ASSUME NEW d \in Editors PROVE EditorFits(d)' /\ SaverFits(d)'
  <2>1. CASE d = e
    <3>1. r = NotEditing \/ r.at = "save"
      OBVIOUS
    <3>2. EditorFits(e)'
      BY <1>1, <3>1, NotEditingIs DEF EditorFits, Where
    <3> QED BY <2>1, <3>2
  <2>2. CASE d # e
    <3>1. editor'[d] = editor[d] /\ Where(d)' = Where(d) /\ Where(d)' # "save" /\ EditorFits(d)
      BY <1>1, <2>2 DEF Where, TextInv
    <3> QED BY <3>1 DEF EditorFits, SaverFits, Where, Node
  <2> QED BY <2>1, <2>2
<1>4. (\A d \in Editors : Where(d)' # "save") => toSave' \in {0, Len(savedFile')}
  BY <1>1 DEF Where
<1>5. LinesAreReleased'
  <2>1. kept' \in [Nodes -> [Tags -> Nat]]
    BY DEF TextInv, TextTypes
  <2>2. ASSUME NEW n \in Nodes, NEW u \in Tags
        PROVE  permission'[n][u] - kept'[n][u] =
                 permission[n][u] - kept[n][u]
                   + ((IF r.node = n /\ r.tag = u THEN 1 ELSE 0)
                      - (IF Node(e) = n /\ editor[e].tag = u THEN 1 ELSE 0))
    <3>1. permission[n][u] \in Int /\ kept[n][u] \in Int /\ kept'[n][u] = kept[n][u]
      BY DEF TextInv, TextTypes
    <3>2. permission'[n][u] =
             permission[n][u] + ((IF r.node = n /\ r.tag = u THEN 1 ELSE 0)
                                 - (IF Node(e) = n /\ editor[e].tag = u THEN 1 ELSE 0))
      OBVIOUS
    <3> QED BY <3>1, <3>2
  <2> QED BY <2>1, <2>2, CountsMove
<1>6. WritersAreAlone'
  <2>1. r.tag # WRITE
    BY NotEditingIs DEF READ, WRITE
  <2>2. \A n \in Nodes : kept'[n][WRITE] = kept[n][WRITE]
    OBVIOUS
  <2> QED BY <2>1, <2>2, AloneMoves
<1>7. TornIsHeld'
  <2>1. \A n \in Nodes : kept'[n][WRITE] \in Nat /\ kept'[n][WRITE] >= kept[n][WRITE]
    BY TagsAre DEF TextInv, TextTypes
  <2>2. \A n \in Nodes : lineStr'[n] = lineStr[n] /\ Where(e) # "write"
    OBVIOUS
  <2> QED BY <2>1, <2>2, TornMoves
<1> QED BY <1>2, <1>3, <1>4, <1>5, <1>6, <1>7 DEF TextInv

(* Who saves is at a line of the text, or before the first.                 *)
LEMMA SaverIs ==
  ASSUME TextInv, NEW e \in Editors, Where(e) = "save"
  PROVE  /\ editor[e] \in EditorTypes /\ editor[e].tag = READ
         /\ Node(e) = 0 \/ (Node(e) \in Nodes /\ \E i \in 1 .. Len(text) : text[i] = Node(e))
         /\ Len(savedFile) \in Nat /\ toSave \in Nat
         /\ Len(savedFile) <= toSave /\ toSave <= Len(text)
         /\ \A d \in Editors \ {e} : Where(d) # "save"
<1>1. TextTypes /\ SaverFits(e)
  BY DEF TextInv
<1>2. editor[e] \in EditorTypes /\ Len(savedFile) \in Nat /\ toSave \in Nat
  BY <1>1 DEF TextTypes
<1>3. /\ Len(text) \in Nat /\ DOMAIN text = 1 .. Len(text)
      /\ \A i \in 1 .. Len(text) : text[i] \in Nodes
  BY <1>1, TextIs
<1> QED BY <1>1, <1>2, <1>3 DEF SaverFits

LEMMA SaveBeginsKeeps ==
  ASSUME TextInv, NEW e \in Editors, text_save(e)
  PROVE  TextInv'
<1> DEFINE r == [NotEditing EXCEPT !.at = "save", !.tag = READ]
<1>1. /\ Where(e) = "out" /\ \A d \in Editors : Where(d) # "save"
      /\ savedFile' = << >> /\ toSave' = Len(text) /\ editor' = [editor EXCEPT ![e] = r]
      /\ UNCHANGED <<text, lineStr, permission, kept>>
  BY DEF text_save
<1>2. /\ r \in EditorTypes /\ r.at = "save" /\ r.tag = READ /\ r.node = 0 /\ r.op = "none"
  BY NotEditingIs, TagsAre DEF EditorTypes, NotEditing
<1> HIDE DEF r
<1>3. Node(e) = 0 /\ 0 \notin Nodes
  BY <1>1, NotEditingIs DEF TextInv, EditorFits, Node, Nodes
<1>4. /\ Len(text) \in Nat /\ MaxLines \in Nat
  BY TextIs, TextAssumption DEF TextInv
<1>5. savedFile' \in Seq(CleanLines) /\ Len(savedFile') = 0
  BY <1>1
<1>6. SaverFits(e)'
  <2>1. editor'[e] = r /\ \A d \in Editors \ {e} : editor'[d] = editor[d]
    BY <1>1, <1>2, OneMoves DEF TextInv
  <2> QED BY <1>1, <1>2, <1>4, <1>5, <2>1 DEF SaverFits, Where, Node
<1>7. permission' \in [Nodes -> [Tags -> Int]]
  BY <1>1 DEF TextInv, TextTypes
<1>8. ASSUME NEW n \in Nodes, NEW u \in Tags
      PROVE  permission'[n][u] =
               permission[n][u] + ((IF r.node = n /\ r.tag = u THEN 1 ELSE 0)
                                   - (IF Node(e) = n /\ editor[e].tag = u THEN 1 ELSE 0))
  <2>1. permission'[n][u] = permission[n][u] /\ permission'[n][u] \in Int
    BY <1>1, <1>7
  <2> QED BY <1>2, <1>3, <2>1
<1>9. Len(savedFile') <= MaxLines /\ toSave' \in Nat
  BY <1>1, <1>4, <1>5
<1> QED BY <1>1, <1>2, <1>5, <1>6, <1>7, <1>8, <1>9, SaverKeeps

LEMMA Modulo == \A i, n \in Nat : n > 0 => i % n \in 0 .. n - 1
OBVIOUS

LEMMA NextIsOfText ==
  ASSUME TextTypes, Len(text) > 0, NEW k, k = 0 \/ \E i \in 1 .. Len(text) : text[i] = k
  PROVE  /\ NextNode(k) \in Nodes /\ \E i \in DOMAIN text : text[i] = NextNode(k)
<1>1. /\ Len(text) \in Nat /\ DOMAIN text = 1 .. Len(text)
      /\ \A i \in 1 .. Len(text) : text[i] \in Nodes
  BY TextIs
<1>2. CASE k = 0
  BY <1>1, <1>2 DEF NextNode
<1>3. CASE k # 0
  <2> DEFINE i == CHOOSE j \in DOMAIN text : text[j] = k
             n == Len(text)
  <2>1. i \in DOMAIN text
    BY <1>1, <1>3
  <2>2. NextNode(k) = text[(i % n) + 1]
    BY <1>3 DEF NextNode
  <2> HIDE DEF i, n
  <2>3. i \in Nat /\ n \in Nat /\ n > 0 /\ DOMAIN text = 1 .. n
    BY <1>1, <2>1 DEF n
  <2>4. i % n \in 0 .. n - 1
    BY <2>3, Modulo
  <2>5. (i % n) + 1 \in 1 .. n
    BY <2>3, <2>4
  <2> QED BY <1>1, <2>2, <2>3, <2>5 DEF n
<1> QED BY <1>2, <1>3

LEMMA SaveLineKeeps ==
  ASSUME TextInv, NEW e \in Editors, SaveLine(e)
  PROVE  TextInv'
<1> DEFINE k == NextNode(Node(e))
           r == [editor[e] EXCEPT !.node = k]
<1>1. /\ Where(e) = "save" /\ Len(savedFile) < toSave
      /\ permission[k][WRITE] = 0
      /\ savedFile' = Append(savedFile, lineStr[k])
      /\ editor' = [editor EXCEPT ![e].node = k]
      /\ UNCHANGED <<text, lineStr, kept, toSave>>
  BY DEF SaveLine, Grants
<1>2. /\ permission' = [n \in Nodes |->
             [permission[n] EXCEPT ![READ] = @ + (IF n = k THEN 1 ELSE 0)
                                               - (IF n = Node(e) THEN 1 ELSE 0)]]
  BY DEF SaveLine
<1>3. /\ editor[e] \in EditorTypes /\ editor[e].tag = READ
      /\ Node(e) = 0 \/ (Node(e) \in Nodes /\ \E i \in 1 .. Len(text) : text[i] = Node(e))
      /\ Len(savedFile) \in Nat /\ toSave \in Nat
      /\ Len(savedFile) <= toSave /\ toSave <= Len(text)
      /\ \A d \in Editors \ {e} : Where(d) # "save"
  BY <1>1, SaverIs
<1>4. Len(text) > 0 /\ Len(text) <= MaxLines /\ Len(text) \in Nat /\ MaxLines \in Nat
  BY <1>1, <1>3, TextIs, TextAssumption DEF TextInv
<1>5. k \in Nodes /\ \E i \in DOMAIN text : text[i] = k
  BY <1>3, <1>4, NextIsOfText DEF TextInv
<1> HIDE DEF k
<1>6. lineStr[k] \in CleanLines
  BY <1>1, <1>5, GrantedIsFree
<1>7. editor' = [editor EXCEPT ![e] = r]
  BY <1>1 DEF TextInv, TextTypes
<1>8. r \in EditorTypes /\ r.at = "save" /\ r.node = k /\ r.tag = READ /\ r.op = "none"
  <2> DEFINE p == editor[e]
  <2>1. p \in EditorTypes /\ p.at = "save" /\ p.tag = READ /\ p.op = "none" /\ k \in 0 .. MaxLines
    BY <1>1, <1>3, <1>4, <1>5 DEF Where, Nodes, TextInv, SaverFits
  <2>2. /\ [p EXCEPT !.node = k] \in EditorTypes /\ [p EXCEPT !.node = k].at = p.at
        /\ [p EXCEPT !.node = k].node = k /\ [p EXCEPT !.node = k].tag = p.tag
        /\ [p EXCEPT !.node = k].op = p.op
    <3> HIDE DEF p
    <3> QED BY <2>1 DEF EditorTypes
  <2> QED BY <2>1, <2>2
<1> HIDE DEF r
<1>9. savedFile' \in Seq(CleanLines) /\ Len(savedFile') = Len(savedFile) + 1
  <2>1. savedFile \in Seq(CleanLines)
    BY DEF TextInv, TextTypes
  <2> QED BY <1>1, <1>6, <2>1
<1>10. Len(savedFile') <= MaxLines /\ Len(savedFile') <= toSave /\ toSave' \in Nat
  BY <1>1, <1>3, <1>4, <1>9
<1>11. SaverFits(e)'
  <2>1. editor'[e] = r /\ \A d \in Editors \ {e} : editor'[d] = editor[d]
    BY <1>7, <1>8, OneMoves DEF TextInv
  <2> QED BY <1>1, <1>3, <1>5, <1>8, <1>10, <2>1 DEF SaverFits, Where, Node
<1>12. permission' \in [Nodes -> [Tags -> Int]] /\
       \A n \in Nodes, u \in Tags :
             permission'[n][u] =
               permission[n][u] + ((IF r.node = n /\ r.tag = u THEN 1 ELSE 0)
                                   - (IF Node(e) = n /\ editor[e].tag = u THEN 1 ELSE 0))
  <2> DEFINE d(n) == (IF n = k THEN 1 ELSE 0) - (IF n = Node(e) THEN 1 ELSE 0)
  <2>1. ASSUME NEW n \in Nodes
        PROVE  /\ permission'[n] \in [Tags -> Int]
               /\ permission'[n][READ] = permission[n][READ] + d(n)
               /\ permission'[n][WRITE] = permission[n][WRITE]
    <3>1. permission[n] \in [Tags -> Int] /\ permission[n][READ] \in Int
      BY TagsAre DEF TextInv, TextTypes
    <3>2. permission'[n] = [permission[n] EXCEPT ![READ] = @ + (IF n = k THEN 1 ELSE 0)
                                                             - (IF n = Node(e) THEN 1 ELSE 0)]
      BY <1>2
    <3>3. permission[n][READ] + (IF n = k THEN 1 ELSE 0) - (IF n = Node(e) THEN 1 ELSE 0)
            = permission[n][READ] + d(n) /\ permission[n][READ] + d(n) \in Int
      BY <3>1
    <3>4. permission'[n] = [permission[n] EXCEPT ![READ] = permission[n][READ] + d(n)]
      BY <3>2, <3>3
    <3> HIDE DEF d
    <3> QED BY <3>1, <3>3, <3>4, TagsAre
  <2>2. ASSUME NEW n \in Nodes, NEW u \in Tags
        PROVE  permission'[n][u] =
               permission[n][u] + ((IF r.node = n /\ r.tag = u THEN 1 ELSE 0)
                                   - (IF Node(e) = n /\ editor[e].tag = u THEN 1 ELSE 0))
    <3>1. permission[n][u] \in Int
      BY DEF TextInv, TextTypes
    <3>2. CASE u = READ
      <4>1. (IF r.node = n /\ r.tag = u THEN 1 ELSE 0) - (IF Node(e) = n /\ editor[e].tag = u THEN 1 ELSE 0) = d(n)
        BY <1>3, <1>8, <3>2
      <4> QED BY <2>1, <3>2, <4>1
    <3>3. CASE u # READ
      <4>1. u = WRITE
        BY <3>3 DEF Tags
      <4> QED BY <1>3, <1>8, <2>1, <3>1, <3>3, <4>1
    <3> QED BY <3>2, <3>3
  <2>3. permission' \in [Nodes -> [Tags -> Int]]
    BY <1>2, <2>1
  <2> QED BY <2>2, <2>3
<1>13. Where(e) \in {"out", "save"} /\ UNCHANGED <<text, lineStr, kept>>
  BY <1>1
<1> QED BY <1>3, <1>7, <1>8, <1>9, <1>10, <1>11, <1>12, <1>13, SaverKeeps

LEMMA SaveEndsKeeps ==
  ASSUME TextInv, NEW e \in Editors, SaveEnds(e)
  PROVE  TextInv'
<1> DEFINE r == NotEditing
<1>1. /\ Where(e) = "save" /\ SaveReleases(e)
      /\ editor' = [editor EXCEPT ![e] = r]
      /\ UNCHANGED <<savedFile, text, lineStr, kept>>
      /\ (Len(savedFile) >= toSave /\ toSave' = toSave) \/ toSave' = 0
  BY DEF SaveEnds, CallEnds
<1>2. r \in EditorTypes /\ r.at = "out" /\ r.node = 0
  BY NotEditingIs
<1> HIDE DEF r
<1>3. /\ editor[e] \in EditorTypes /\ editor[e].tag = READ
      /\ Node(e) = 0 \/ Node(e) \in Nodes
      /\ Len(savedFile) \in Nat /\ toSave \in Nat
      /\ Len(savedFile) <= toSave
      /\ \A d \in Editors \ {e} : Where(d) # "save"
  BY <1>1, SaverIs
<1>4. toSave' \in Nat /\ toSave' \in {0, Len(savedFile')}
  BY <1>1, <1>3
<1>5. SaverFits(e)'
  <2>1. editor'[e] = r
    BY <1>1, <1>2, OneMoves DEF TextInv
  <2> QED BY <1>2, <2>1 DEF SaverFits, Where
<1>6. 0 \notin Nodes /\ permission \in [Nodes -> [Tags -> Int]]
  BY DEF Nodes, TextInv, TextTypes
<1>7. /\ permission' \in [Nodes -> [Tags -> Int]]
      /\ \A n \in Nodes, u \in Tags :
           permission'[n][u] = permission[n][u] - (IF Node(e) = n /\ editor[e].tag = u THEN 1 ELSE 0)
  <2>1. CASE Node(e) = 0
    <3>1. permission' = permission
      BY <1>1, <2>1 DEF SaveReleases
    <3>2. \A n \in Nodes, u \in Tags : permission[n][u] \in Int /\ ~(Node(e) = n /\ editor[e].tag = u)
      BY <1>6, <2>1
    <3> QED BY <1>6, <3>1, <3>2
  <2>2. CASE Node(e) # 0
    <3> DEFINE x == permission[Node(e)][READ] - 1
    <3>1. Node(e) \in Nodes /\ permission[Node(e)][READ] \in Int
      BY <1>3, <1>6, <2>2, TagsAre
    <3>2. permission' = [permission EXCEPT ![Node(e)][READ] = x] /\ x \in Int
      BY <1>1, <1>6, <2>2, <3>1, TagsAre DEF SaveReleases, ReleasePermission
    <3> HIDE DEF x
    <3>3. /\ permission' \in [Nodes -> [Tags -> Int]]
          /\ \A n \in Nodes, u \in Tags : permission'[n][u] = IF n = Node(e) /\ u = READ THEN x ELSE permission[n][u]
      BY <1>6, <3>1, <3>2, OneChanges, TagsAre
    <3>4. ASSUME NEW n \in Nodes, NEW u \in Tags
          PROVE  permission'[n][u] = permission[n][u] - (IF Node(e) = n /\ editor[e].tag = u THEN 1 ELSE 0)
      <4>1. permission[n][u] \in Int
        BY <1>6
      <4>2. permission'[n][u] = IF n = Node(e) /\ u = READ THEN permission[n][u] - 1 ELSE permission[n][u]
        BY <3>3 DEF x
      <4> QED BY <1>3, <4>1, <4>2
    <3> QED BY <3>3, <3>4
  <2> QED BY <2>1, <2>2
<1>8. ASSUME NEW n \in Nodes, NEW u \in Tags
      PROVE  permission'[n][u] =
               permission[n][u] + ((IF r.node = n /\ r.tag = u THEN 1 ELSE 0)
                                   - (IF Node(e) = n /\ editor[e].tag = u THEN 1 ELSE 0))
  <2>1. (IF r.node = n /\ r.tag = u THEN 1 ELSE 0) = 0
    BY <1>2, <1>6
  <2>2. permission[n][u] \in Int
    BY <1>6
  <2> QED BY <1>7, <2>1, <2>2
<1>9. savedFile' \in Seq(CleanLines) /\ Len(savedFile') <= MaxLines
  BY <1>1 DEF TextInv, TextTypes
<1>10. Where(e) \in {"out", "save"} /\ UNCHANGED <<text, lineStr, kept>> /\ r = NotEditing
  BY <1>1 DEF r
<1>11. /\ r \in EditorTypes /\ editor' = [editor EXCEPT ![e] = r]
       /\ \A d \in Editors \ {e} : Where(d) # "save"
       /\ permission' \in [Nodes -> [Tags -> Int]]
  BY <1>1, <1>2, <1>3, <1>7
<1>12. /\ UNCHANGED <<text, lineStr, kept>> /\ toSave' \in Nat
       /\ r.at # "save" => toSave' \in {0, Len(savedFile')}
       /\ r = NotEditing \/ (r.at = "save" /\ r.tag = READ)
  BY <1>4, <1>10
<1>13. Where(e) \in {"out", "save"}
  BY <1>10
<1> QED BY <1>5, <1>8, <1>9, <1>11, <1>12, <1>13, SaverKeeps

-----------------------------------------------------------------------------
(* A program starts with the lines of the file and nobody at them.          *)
FreshText ==
  /\ savedFile \in Seq(CleanLines) /\ Len(savedFile) <= MaxLines
  /\ text = read_text(savedFile).text /\ lineStr = read_text(savedFile).lineStr
  /\ permission = NoPermissions /\ kept = NoPermissions
  /\ editor = [e \in Editors |-> NotEditing]
  /\ toSave = Len(savedFile)

LEMMA ReadIs ==
  ASSUME NEW f \in Seq(CleanLines), Len(f) <= MaxLines
  PROVE  /\ read_text(f).text \in Seq(1 .. Len(read_text(f).text))
         /\ Len(read_text(f).text) <= MaxLines
         /\ read_text(f).lineStr \in [Nodes -> CleanLines]
<1> DEFINE n == LinesRead(f)
           D == {i \in DOMAIN f : \A j \in 1 .. i : f[j] # << >>}
<1>1. n \in 0 .. Len(f)
  <2>1. Len(f) \in Nat /\ DOMAIN f = 1 .. Len(f) /\ D \subseteq 1 .. Len(f)
    OBVIOUS
  <2>2. IsFiniteSet(1 .. Len(f)) /\ Cardinality(1 .. Len(f)) = Len(f)
    BY <2>1, FS_Interval
  <2>3. IsFiniteSet(D) /\ Cardinality(D) <= Len(f) /\ Cardinality(D) \in Nat
    BY <2>1, <2>2, FS_Subset, FS_CardinalityType
  <2>4. n = Cardinality(D)
    BY DEF LinesRead
  <2> QED BY <2>1, <2>3, <2>4
<1>2. /\ read_text(f).text = [i \in 1 .. n |-> n + 1 - i]
      /\ read_text(f).lineStr = [k \in Nodes |-> IF k <= n THEN f[k] ELSE << >>]
  BY DEF read_text
<1> HIDE DEF n, D
<1>3. Len(f) \in Nat /\ n \in Nat /\ n <= Len(f) /\ DOMAIN f = 1 .. Len(f)
  BY <1>1
<1>4. /\ [i \in 1 .. n |-> n + 1 - i] \in Seq(1 .. n) /\ Len([i \in 1 .. n |-> n + 1 - i]) = n
  BY <1>3
<1>5. \A k \in Nodes : k <= n => f[k] \in CleanLines
  <2> SUFFICES ASSUME NEW k \in Nodes, k <= n PROVE f[k] \in CleanLines
    OBVIOUS
  <2>1. k \in 1 .. Len(f)
    BY <1>3 DEF Nodes
  <2> QED BY <2>1, ElementOfSeq
<1>6. [k \in Nodes |-> IF k <= n THEN f[k] ELSE << >>] \in [Nodes -> CleanLines]
  BY <1>5, LinesAre
<1>7. n <= MaxLines
  BY <1>3, TextAssumption
<1> QED BY <1>2, <1>4, <1>6, <1>7

LEMMA FreshIs == FreshText => TextInv
<1> SUFFICES ASSUME FreshText PROVE TextInv
  OBVIOUS
<1>1. /\ savedFile \in Seq(CleanLines) /\ Len(savedFile) <= MaxLines /\ toSave = Len(savedFile)
      /\ text \in Seq(1 .. Len(text)) /\ Len(text) <= MaxLines /\ lineStr \in [Nodes -> CleanLines]
  BY ReadIs DEF FreshText
<1>2. /\ permission = NoPermissions /\ kept = NoPermissions
      /\ \A e \in Editors : editor[e] = NotEditing
      /\ editor \in [Editors -> EditorTypes]
  BY NotEditingIs DEF FreshText
<1>3. /\ NoPermissions \in [Nodes -> [Tags -> Nat]] /\ NoPermissions \in [Nodes -> [Tags -> Int]]
      /\ \A n \in Nodes, u \in Tags : NoPermissions[n][u] = 0
  BY DEF NoPermissions, NoneHeld, Tags
<1>4. lineStr \in [Nodes -> AnyLines]
  BY <1>1, LinesAre
<1>5. toSave \in Nat
  BY <1>1
<1>6. TextTypes
  BY <1>1, <1>2, <1>3, <1>4, <1>5 DEF TextTypes
<1>7. ASSUME NEW e \in Editors PROVE EditorFits(e) /\ SaverFits(e)
  BY <1>2, NotEditingIs DEF EditorFits, SaverFits, Where
<1>8. \A n \in Nodes, u \in Tags : AtLine(n, u) = {}
  BY <1>2, NotEditingIs DEF AtLine, Node, Nodes
<1>9. LinesAreReleased
  <2>1. ASSUME NEW n \in Nodes, NEW u \in Tags
        PROVE  permission[n][u] = kept[n][u] + Cardinality(AtLine(n, u))
    <3>1. permission[n][u] = 0 /\ kept[n][u] = 0
      BY <1>2, <1>3
    <3>2. Cardinality(AtLine(n, u)) = 0
      BY <1>8, FS_EmptySet
    <3> QED BY <3>1, <3>2
  <2> QED BY <2>1 DEF LinesAreReleased, AtLine, Tags
<1>10. WritersAreAlone /\ TornIsHeld
  BY <1>1, <1>8, TagsAre DEF WritersAreAlone, TornIsHeld
<1> QED BY <1>1, <1>6, <1>7, <1>9, <1>10 DEF TextInv

LEMMA TextStarts == TextInit => TextInv
<1> SUFFICES ASSUME TextInit PROVE FreshText
  BY FreshIs
<1>1. savedFile \in Seq(CleanLines) /\ Len(savedFile) <= MaxLines
  BY TextAssumption DEF TextInit, CleanLines
<1> QED BY <1>1 DEF TextInit, FreshText

LEMMA RemainsAreClean ==
  ASSUME TextTypes, NEW f \in Remains
  PROVE  f \in Seq(CleanLines) /\ Len(f) <= MaxLines
<1> DEFINE s == savedFile
<1>1. s \in Seq(CleanLines) /\ Len(s) <= MaxLines /\ Len(s) \in Nat /\ DOMAIN s = 1 .. Len(s)
  BY DEF TextTypes
<1>2. MaxLines \in Nat
  BY TextAssumption
<1>3. \/ f = s
      \/ \E n \in 0 .. Len(s) : f = SubSeq(s, 1, n)
      \/ \E n \in {i - 1 : i \in DOMAIN s} : f = SubSeq(s, 1, n) \o << Front(s[n + 1]) >>
  BY DEF Remains
<1> HIDE DEF s
<1>4. ASSUME NEW n \in 0 .. Len(s)
      PROVE  SubSeq(s, 1, n) \in Seq(CleanLines) /\ Len(SubSeq(s, 1, n)) = n
  BY <1>1
<1>5. ASSUME NEW n \in 0 .. Len(s), f = SubSeq(s, 1, n)
      PROVE  f \in Seq(CleanLines) /\ Len(f) <= MaxLines
  BY <1>1, <1>2, <1>4, <1>5
<1>6. ASSUME NEW i \in 1 .. Len(s), f = SubSeq(s, 1, i - 1) \o << Front(s[i - 1 + 1]) >>
      PROVE  f \in Seq(CleanLines) /\ Len(f) <= MaxLines
  <2> DEFINE a == SubSeq(s, 1, i - 1)
             l == Front(s[i])
  <2>1. i - 1 \in 0 .. Len(s) /\ i - 1 + 1 = i
    BY <1>1
  <2>2. f = a \o <<l>>
    BY <1>6, <2>1
  <2>3. a \in Seq(CleanLines) /\ Len(a) = i - 1
    BY <1>4, <2>1
  <2>4. s[i] \in CleanLines
    BY <1>1, ElementOfSeq
  <2>5. l \in CleanLines
    BY <2>4, LinesAre
  <2> HIDE DEF a, l
  <2>6. f \in Seq(CleanLines) /\ Len(f) = i
    BY <1>1, <2>2, <2>3, <2>5
  <2> QED BY <1>1, <1>2, <2>6
<1> QED BY <1>1, <1>3, <1>5, <1>6

LEMMA RestartsKeeps ==
  ASSUME TextInv, Restarts
  PROVE  FreshText'
<1>1. savedFile' \in Seq(CleanLines) /\ Len(savedFile') <= MaxLines
  BY RemainsAreClean DEF TextInv, Restarts
<1> QED BY <1>1 DEF Restarts, FreshText

LEMMA TextStepKeeps == TextInv /\ [TextNext]_textVars => TextInv' \/ FreshText'
<1> SUFFICES ASSUME TextInv, [TextNext]_textVars PROVE TextInv' \/ FreshText'
  OBVIOUS
<1>1. CASE UNCHANGED textVars
  BY <1>1, SameTextKeeps DEF textVars
<1>2. CASE Restarts
  BY <1>2, RestartsKeeps
<1>3. ASSUME NEW e \in Editors, NEW w \in Words,
             \/ \E n \in 1 .. MaxLines : replace_line_num(e, n, w)
             \/ \E keyword \in Words : replace_kw(e, keyword, w) \/ modify_config(e, keyword, w)
             \/ \E posi \in {0, 1} : insert_line(e, w, w, posi)
             \/ get_config_value(e, w)
      PROVE  TextInv'
  <2>1. CASE \E n \in 1 .. MaxLines : replace_line_num(e, n, w)
    <3>1. PICK n \in 1 .. MaxLines : replace_line_num(e, n, w)
      BY <2>1
    <3> QED BY <3>1, FindsByNumber
  <2>2. CASE \E keyword \in Words : replace_kw(e, keyword, w) \/ modify_config(e, keyword, w)
    <3>1. PICK keyword \in Words : replace_kw(e, keyword, w) \/ modify_config(e, keyword, w)
      BY <2>2
    <3> QED BY <3>1, FindsByWord
  <2>3. CASE \E posi \in {0, 1} : insert_line(e, w, w, posi)
    <3>1. PICK posi \in {0, 1} : insert_line(e, w, w, posi)
      BY <2>3
    <3> QED BY <3>1, FindsByWord
  <2>4. CASE get_config_value(e, w)
    <3>1. 0 \in {0, 1}
      OBVIOUS
    <3> QED BY <2>4, <3>1, FindsByWord
  <2> QED BY <1>3, <2>1, <2>2, <2>3, <2>4
<1>4. ASSUME NEW e \in Editors,
             \/ WriteBegins(e) \/ LineReplaced(e) \/ KeywordReplaced(e)
             \/ LineInserted(e) \/ InsertEnds(e) \/ ConfigNotRead(e)
             \/ text_save(e) \/ SaveLine(e) \/ SaveEnds(e)
      PROVE  TextInv'
  BY <1>4, WriteBeginsKeeps, LineReplacedKeeps, KeywordReplacedKeeps, LineInsertedKeeps, LeaversKeep,
     SaveBeginsKeeps, SaveLineKeeps, SaveEndsKeeps
<1> QED BY <1>1, <1>2, <1>3, <1>4 DEF TextNext

(* What is saved is the text, line by line, and every permission of a line *)
(* is that of a call at it or one that was kept: text_save and the calls   *)
(* that change lines meanwhile (text.c), for every number of threads and   *)
(* lines.                                                                   *)
THEOREM TextStaysKept == TextSpec => []TextIsKept
<1>1. TextInv => TextIsKept
  <2> SUFFICES ASSUME TextInv PROVE TextIsKept
    OBVIOUS
  <2>1. savedFile \in Seq(CleanLines)
    BY DEF TextInv, TextTypes
  <2>2. ASSUME NEW i \in DOMAIN savedFile, NEW j \in DOMAIN savedFile[i] PROVE savedFile[i][j] # Torn
    <3>1. savedFile[i] \in Seq(Words \cup {Equals, CR})
      BY <2>1, ElementOfSeq DEF CleanLines
    <3>2. savedFile[i][j] \in Words \cup {Equals, CR}
      BY <3>1, ElementOfSeq
    <3> QED BY <3>2, TextAssumption
  <2> QED BY <2>2 DEF TextInv, TextIsKept, SavesAreWhole
<1>2. FreshText' => TextInv'
  BY FreshIs, PTL
<1>3. TextInv /\ [TextNext]_textVars => TextInv'
  BY <1>2, TextStepKeeps
<1> QED BY <1>1, <1>3, TextStarts, PTL DEF TextSpec
==============================================================================
