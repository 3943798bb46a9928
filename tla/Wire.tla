-------------------------------- MODULE Wire --------------------------------
(***************************************************************************)
(* The wire primitives of lang/go/codec/wire.go, on a buffer s of bytes    *)
(* and an offset at, counted from 0 as the slice data[at:] is.  Widths are *)
(* constants, so that small ones can be checked: the code has Base = 2^7,  *)
(* Word = 2^64, MaxVarintLen = 10, Width8 = 8 and Width4 = 4.              *)
(***************************************************************************)
EXTENDS Integers, Sequences

CONSTANTS
  Base,          (* A byte below Base ends a varint.                       *)
  Word,          (* Varints are read modulo Word.                          *)
  MaxVarintLen,
  Width8,        (* The bytes of a fixed64 ...                             *)
  Width4         (* ... and of a fixed32.                                  *)

ASSUME WireAssumption ==
  /\ {Base, Word, MaxVarintLen, Width8, Width4} \subseteq Nat \ {0}
  /\ Base % 8 = 0

Byte == 0 .. 2 * Base - 1

(* How many bytes are left from offset at.                                 *)
Left(s, at) == Len(s) - at

(* The varint at offset at takes n bytes: the first that does not continue *)
(* is the n-th.                                                            *)
EndsAfter(s, at, n) ==
  n <= Left(s, at) /\ s[at + n] < Base /\ \A k \in 1 .. n - 1 : s[at + k] >= Base

(* DecodeVarint: the bytes it consumes, -1 when the varint is malformed.   *)
VarintLen(s, at) ==
  IF \E n \in 1 .. MaxVarintLen : EndsAfter(s, at, n)
  THEN CHOOSE n \in 1 .. MaxVarintLen : EndsAfter(s, at, n)
  ELSE -1

(* What the last k of the bytes that end at stop are worth, seven bits of  *)
(* each, the lowest first.                                                 *)
Worth(s, stop, n) ==
  LET Low[k \in 0 .. n] ==
        IF k = 0 THEN 0 ELSE (s[stop + 1 - k] % Base) + Base * Low[k - 1]
  IN  Low

(* ... and the value, whose high bits fall off the word; 0 for none.       *)
VarintValue(s, at) ==
  LET n == VarintLen(s, at)
  IN  IF n < 0 THEN 0 ELSE Worth(s, at + n, n)[n] % Word

(* EncodeVarint, for a uint64.                                             *)
EncodeVarint[x \in 0 .. Word - 1] ==
  IF x < Base THEN <<x>> ELSE <<Base + (x % Base)>> \o EncodeVarint[x \div Base]

(* What seven bits each of k bytes can tell apart; ten are enough for a    *)
(* word.                                                                   *)
Power[k \in 0 .. MaxVarintLen] == IF k = 0 THEN 1 ELSE Base * Power[k - 1]

ASSUME LengthAssumption == Word <= Power[MaxVarintLen]

(* SizeVarint: one byte for every seven bits.                              *)
SizeVarint(x) ==
  CHOOSE n \in 1 .. MaxVarintLen : x < Power[n] /\ (n > 1 => x >= Power[n - 1])

(* The integer that a word stands for: int64(u), or int32(u).              *)
Signed(u, word) == IF u < word \div 2 THEN u ELSE u - word

(* ZigzagEncode and ZigzagDecode, on integers of word values: the bits of  *)
(* a negative number, shifted left, come out inverted.                     *)
Zigzag(v, word)   == IF v >= 0 THEN (2 * v) % word ELSE word - 1 - ((2 * v) % word)
Unzigzag(u)       == IF u % 2 = 0 THEN u \div 2 ELSE -1 - (u \div 2)

FieldNum(tag) == tag \div 8
WireType(tag) == tag % 8

(* Mutant: the length of the body is not compared with what is left.       *)
SkipUnbounded(s, at, wt) ==
  CASE wt = 0 -> VarintLen(s, at)
    [] wt = 1 -> IF Left(s, at) < Width8 THEN -1 ELSE Width8
    [] wt = 2 -> IF VarintLen(s, at) < 0 THEN -1
                 ELSE VarintLen(s, at) + VarintValue(s, at)
    [] wt = 5 -> IF Left(s, at) < Width4 THEN -1 ELSE Width4
    [] OTHER  -> -1

(* SkipField: the bytes of a field of wire type wt after its tag, -1 for   *)
(* any of its errors.                                                      *)
SkipField(s, at, wt) ==
  CASE wt = 0 -> VarintLen(s, at)
    [] wt = 1 -> IF Left(s, at) < Width8 THEN -1 ELSE Width8
    [] wt = 2 -> LET n == VarintLen(s, at)
                 IN  IF n < 0 \/ Left(s, at + n) < VarintValue(s, at) THEN -1
                     ELSE n + VarintValue(s, at)
    [] wt = 5 -> IF Left(s, at) < Width4 THEN -1 ELSE Width4
    [] OTHER  -> -1
=============================================================================
