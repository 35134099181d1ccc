------------------------------- MODULE Digest --------------------------------
(***************************************************************************)
(* The pure functions behind Sec-WebSocket-Accept: SHA-1 as ws.hpp feeds   *)
(* and pads it, base64Encode and wsAcceptKey; and the padding of the       *)
(* SHA-256 of codec.hpp, which does the same work in one pass.             *)
(*                                                                         *)
(* The rounds of both compression functions are left out: the state h is   *)
(* the sequence of blocks it was computed from, and Compress is any        *)
(* function from such sequences to bytes.                                  *)
(***************************************************************************)
EXTENDS Integers, Sequences, SequencesExt

CONSTANTS
  BlockLen,     \* bytes of a block, 64
  LengthLen,    \* bytes of the length at the end of the last block, 8
  Compress(_),  \* the hash of a sequence of blocks
  GUID          \* the text that is appended to a key

ASSUME BlockAssumption ==
  LengthLen \in Nat \ {0} /\ BlockLen \in Nat /\ LengthLen < BlockLen

\* A byte of data[] that was never written.
Junk == -1

\* The length in bits, big-endian.
LengthBytes(bits) == [k \in 1..LengthLen |-> (bits \div 256 ^ (LengthLen - k)) % 256]

-----------------------------------------------------------------------------
(* detail::SHA1                                                            *)

SHA1 == [h       |-> <<>>, bitlen |-> 0,
         data    |-> [k \in 0..BlockLen - 1 |-> Junk], datalen |-> 0]

transform(s) == [s EXCEPT !.h = Append(@, [k \in 1..BlockLen |-> s.data[k - 1]])]

\* data[datalen++] = b
Push(s, b) == [s EXCEPT !.data[s.datalen] = b, !.datalen = @ + 1]

update(s, msg) ==
  FoldLeft(LAMBDA t, b :
             LET u == Push(t, b) IN
             IF u.datalen = BlockLen
             THEN [transform(u) EXCEPT !.bitlen = @ + 8 * BlockLen, !.datalen = 0]
             ELSE u,
           s, msg)

\* while (datalen < end) data[datalen++] = 0
ZeroTo(s, end) ==
  [s EXCEPT !.data = [k \in DOMAIN @ |-> IF k \in s.datalen..end - 1 THEN 0 ELSE @[k]],
            !.datalen = end]

\* Mutation: a block with exactly the room for the length is not used.
NoRoomOffByOne(n) == n >= BlockLen - LengthLen

\* The length no longer fits behind n bytes.
NoRoom(n) == n > BlockLen - LengthLen

final(s) ==
  LET totalBits == s.bitlen + 8 * s.datalen
      marked == Push(s, 128)
      opened == IF NoRoom(marked.datalen)
                THEN [transform(ZeroTo(marked, BlockLen)) EXCEPT !.datalen = 0]
                ELSE marked
      filled == ZeroTo(opened, BlockLen - LengthLen)
      closed == [filled EXCEPT !.data = [k \in DOMAIN @ |->
                   IF k < BlockLen - LengthLen THEN @[k]
                   ELSE LengthBytes(totalBits)[k - (BlockLen - LengthLen) + 1]]]
  IN  transform(closed).h

-----------------------------------------------------------------------------
(* detail::sha256: the message is padded as a whole, then cut into blocks. *)

sha256(msg) ==
  LET zeros == CHOOSE n \in 0..BlockLen - 1 :
                 (Len(msg) + 1 + n) % BlockLen = BlockLen - LengthLen
      padded == msg \o <<128>> \o [k \in 1..zeros |-> 0] \o LengthBytes(8 * Len(msg))
  IN  [b \in 1..Len(padded) \div BlockLen |->
         SubSeq(padded, (b - 1) * BlockLen + 1, b * BlockLen)]

-----------------------------------------------------------------------------
(* Base64.                                                                 *)

\* table[]: the characters by their ASCII codes.
table(n) == CASE n < 26 -> 65 + n [] n \in 26..51 -> 71 + n [] n \in 52..61 -> n - 4
              [] n = 62 -> 43 [] n = 63 -> 47
PAD == 61

\* Mutation: the last group is padded as if it had no second byte.
base64GroupShort(data, i) ==
  LET At(k) == IF k < Len(data) THEN data[k + 1] ELSE 0
      n == At(i) * 65536 + At(i + 1) * 256 + At(i + 2)
  IN  <<table(n \div 262144), table((n \div 4096) % 64),
        IF i + 2 < Len(data) THEN table((n \div 64) % 64) ELSE PAD,
        IF i + 2 < Len(data) THEN table(n % 64) ELSE PAD>>

\* The four characters for the bytes from index i on.
base64Group(data, i) ==
  LET At(k) == IF k < Len(data) THEN data[k + 1] ELSE 0
      n == At(i) * 65536 + At(i + 1) * 256 + At(i + 2)
  IN  <<table(n \div 262144), table((n \div 4096) % 64),
        IF i + 1 < Len(data) THEN table((n \div 64) % 64) ELSE PAD,
        IF i + 2 < Len(data) THEN table(n % 64) ELSE PAD>>

base64Encode(data) ==
  [k \in 1..4 * ((Len(data) + 2) \div 3) |->
     base64Group(data, 3 * ((k - 1) \div 4))[((k - 1) % 4) + 1]]

wsAcceptKey(key) == base64Encode(Compress(final(update(SHA1, key \o GUID))))
=============================================================================
