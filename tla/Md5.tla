---------------------------------- MODULE Md5 ----------------------------------
(***************************************************************************)
(* The buffering of source/utility/md5/md5.c: MD5Init, MD5Update with any  *)
(* pieces of a message, and MD5Final.  The compression of a block is not   *)
(* computed: the state of a context is the sequence of the blocks that     *)
(* were given to MD5Transform, which determines the digest.  A byte is     *)
(* named by what it is: the n-th byte of the message, a byte of PADDING,   *)
(* or a byte of the encoded length.                                        *)
(***************************************************************************)
EXTENDS Integers, Sequences

CONSTANTS
  BlockLen,     \* 64
  LengthLen,    \* 8, the bytes of the encoded length
  WordSize,     \* 2^32, the number of values of a UINT32_T
  MaxMessage,   \* bound on the bytes of a message
  MaxPiece      \* bound on inputLen; from WordSize - BlockLen on, its sum with i would wrap

ASSUME Md5Assumption ==
  /\ BlockLen \in Nat \ {0}
  /\ LengthLen \in 1 .. BlockLen - 1
  /\ WordSize \in Nat \ {0} /\ WordSize % (8 * BlockLen) = 0
  /\ MaxMessage \in Nat /\ MaxPiece \in Nat /\ MaxPiece <= WordSize - BlockLen

VARIABLES
  context,  \* the MD5_CTX
  fed,      \* the bytes of the message given so far
  digest,   \* the blocks that determine the digest
  phase     \* "none", "open" or "final"

md5Vars == <<context, fed, digest, phase>>

Message(first, n) == [k \in 1 .. n |-> <<"message", first + k>>]
Zeros(n) == [k \in 1 .. n |-> <<"padding", 0>>]
PADDING(n) == [k \in 1 .. n |-> <<"padding", IF k = 1 THEN 128 ELSE 0>>]
Encode(low, high) == [k \in 1 .. LengthLen |-> <<"length", k, low, high>>]

(* What the buffer holds before it is written; MD5Final leaves zeros.       *)
Empty == [count0 |-> 0, count1 |-> 0, buffer |-> Zeros(BlockLen), state |-> <<>>]

-----------------------------------------------------------------------------
MD5Transform(state, blocks) == state \o blocks

MD5_memcpy(buffer, index, bytes) ==
  [k \in 1 .. BlockLen |->
     IF index < k /\ k <= index + Len(bytes) THEN bytes[k - index] ELSE buffer[k]]

(* count += inputLen << 3, in two words.                                    *)
BitsLow(inputLen) == (8 * inputLen) % WordSize
NoCarry(low, inputLen) == 0
Carry(low, inputLen) == IF low < BitsLow(inputLen) THEN 1 ELSE 0
CountLow(c, inputLen) == (c.count0 + BitsLow(inputLen)) % WordSize
CountHigh(c, inputLen) ==
  (c.count1 + Carry(CountLow(c, inputLen), inputLen)
            + (8 * inputLen) \div WordSize) % WordSize

Index(c) == (c.count0 \div 8) % BlockLen

(* The blocks transformed from the input itself, from offset i on.          *)
WholeBlocks(input, i) ==
  [b \in 1 .. (Len(input) - i) \div BlockLen |->
     SubSeq(input, i + (b - 1) * BlockLen + 1, i + b * BlockLen)]

MD5Update(c, input) ==
  LET index == Index(c)
      partLen == BlockLen - index
      counted == [c EXCEPT !.count0 = CountLow(c, Len(input)),
                           !.count1 = CountHigh(c, Len(input))]
      first == MD5_memcpy(c.buffer, index, SubSeq(input, 1, partLen))
      blocks == WholeBlocks(input, partLen)
      i == partLen + BlockLen * Len(blocks)
  IN  IF Len(input) >= partLen
      THEN [counted EXCEPT
              !.state = MD5Transform(c.state, <<first>> \o blocks),
              !.buffer = MD5_memcpy(first, 0, SubSeq(input, i + 1, Len(input)))]
      ELSE [counted EXCEPT !.buffer = MD5_memcpy(c.buffer, index, input)]

PadLen(index) ==
  IF index < BlockLen - LengthLen THEN BlockLen - LengthLen - index
  ELSE 2 * BlockLen - LengthLen - index

Finished(c) ==
  MD5Update(MD5Update(c, PADDING(PadLen(Index(c)))), Encode(c.count0, c.count1))

-----------------------------------------------------------------------------
Md5Init ==
  /\ context = Empty
  /\ fed = 0
  /\ digest = <<>>
  /\ phase = "none"

MD5Init ==
  /\ phase # "open"
  /\ context' = [context EXCEPT !.count0 = 0, !.count1 = 0, !.state = <<>>]
  /\ fed' = 0
  /\ digest' = <<>>
  /\ phase' = "open"

Update(inputLen) ==
  /\ phase = "open"
  /\ fed + inputLen <= MaxMessage
  /\ context' = MD5Update(context, Message(fed, inputLen))
  /\ fed' = fed + inputLen
  /\ UNCHANGED <<digest, phase>>

MD5Final ==
  /\ phase = "open"
  /\ digest' = Finished(context).state
  /\ context' = Empty
  /\ phase' = "final"
  /\ UNCHANGED fed

Md5Next ==
  \/ MD5Init
  \/ \E inputLen \in 0 .. MaxPiece : Update(inputLen)
  \/ MD5Final

Md5Spec == Md5Init /\ [][Md5Next]_md5Vars

-----------------------------------------------------------------------------
(* RFC 1321's padding: one byte 128, the fewest zeros that fill the last    *)
(* block, and the number of bits of the message in two words.               *)
PaddedMessage(n) ==
  LET zeros == (-(n + 1 + LengthLen)) % BlockLen
  IN  Message(0, n) \o <<<<"padding", 128>>>> \o Zeros(zeros)
        \o Encode((8 * n) % WordSize, ((8 * n) \div WordSize) % WordSize)

(* The digest is that of the padded message, block by block, in whatever    *)
(* pieces the message was given to MD5Update.                               *)
DigestOfMessage ==
  phase = "final" =>
    /\ Len(PaddedMessage(fed)) = BlockLen * Len(digest)
    /\ \A b \in DOMAIN digest :
         digest[b] = SubSeq(PaddedMessage(fed), (b - 1) * BlockLen + 1, b * BlockLen)
=============================================================================
