----------------------------- MODULE WellKnown -----------------------------
(***************************************************************************)
(* lang/go/codec/wkt.go: the bodies of a Timestamp and of a Duration.  A   *)
(* time.Time is a number of nanoseconds since the Unix epoch, and so is a  *)
(* Duration; Second = 10^9 in the code, and Word4 = 2^32.                  *)
(***************************************************************************)
EXTENDS Wire

CONSTANTS
  Word4,     (* The nanoseconds of a body are an int32, modulo Word4.      *)
  Second,    (* Nanoseconds of a second.                                   *)
  ZeroTime   (* time.Time{}, the first instant of the year 1.              *)

ASSUME WellKnownAssumption ==
  /\ Word4 \in Nat /\ Second \in Nat \ {0} /\ 2 * Second <= Word4 /\ Word4 <= Word
  /\ ZeroTime \in Int /\ ZeroTime < 0 /\ ZeroTime % Second = 0
  /\ Base > 16   (* The tags 0x08 and 0x10 are single bytes.               *)

(* encodeTSBody, and sizeTSBody.  Negative numbers are taken as words.     *)
TSBody(secs, nanos) ==
  (IF secs = 0 THEN <<>> ELSE <<8>> \o EncodeVarint[secs % Word])
  \o (IF nanos = 0 THEN <<>> ELSE <<16>> \o EncodeVarint[nanos % Word])

SizeTSBody(secs, nanos) ==
  (IF secs = 0 THEN 0 ELSE 1 + SizeVarint(secs % Word))
  + (IF nanos = 0 THEN 0 ELSE 1 + SizeVarint(nanos % Word))

(* Unix and Nanosecond round down, ...                                     *)
EncodeTimestamp(t) == IF t = ZeroTime THEN <<>> ELSE TSBody(t \div Second, t % Second)
SizeTimestamp(t)   == IF t = ZeroTime THEN 0 ELSE SizeTSBody(t \div Second, t % Second)

(* ... the quotient and the remainder of Durations towards zero.           *)
Truncated(d)      == IF d >= 0 THEN d \div Second ELSE -((-d) \div Second)
EncodeDuration(d) == TSBody(Truncated(d), d - Truncated(d) * Second)
SizeDuration(d)   == SizeTSBody(Truncated(d), d - Truncated(d) * Second)

(* DecodeTimestamp and DecodeDuration, for the last value of each varint.  *)
DecodeTimestamp(secs, nanos) ==
  IF secs = 0 /\ nanos % Word4 = 0 THEN ZeroTime
  ELSE Signed(secs, Word) * Second + Signed(nanos % Word4, Word4)

DecodeDuration(secs, nanos) ==
  Signed((Signed(secs, Word) * Second + Signed(nanos % Word4, Word4)) % Word, Word)
=============================================================================
