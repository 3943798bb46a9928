------------------------------- MODULE Proto -------------------------------
(***************************************************************************)
(* Bytes as proto3 reads them: the reference that Decoder and Encoder are  *)
(* compared with.  Nothing here is a definition of the code's.             *)
(***************************************************************************)
EXTENDS Wire, SequencesExt

(* s[from:to], with offsets that count from 0.                             *)
Cut(s, from, to) == SubSeq(s, from + 1, to)

(* The record at offset p of s: its field (f), the number and the wire     *)
(* type its tag says (num, wt), and where what follows the tag begins and  *)
(* ends.  A malformed one is the rest of s, as a record of field -1.       *)
RecordAt(s, p) ==
  LET t   == VarintLen(s, p)
      tag == VarintValue(s, p)
      n   == IF t < 0 THEN -1 ELSE SkipField(s, p + t, WireType(tag))
      num == FieldNum(tag)
  IN  [f    |-> IF n < 0 THEN -1 ELSE num,
       num  |-> num,
       wt   |-> WireType(tag),
       from |-> IF n < 0 THEN p ELSE p + t,
       to   |-> IF n < 0 THEN Len(s) ELSE p + t + n]

Record == [f : Int, num : Nat, wt : 0 .. 7, from : Nat, to : Nat]

(* The records of s, one behind the other.                                 *)
Records(s) ==
  LET From[p \in 0 .. Len(s)] ==
        IF p = Len(s) THEN <<>>
        ELSE LET r == RecordAt(s, p) IN <<r>> \o From[r.to]
  IN  From[0]

(* The value of a varint record, and where the body of one with a length   *)
(* begins.                                                                 *)
ValueOf(s, r)  == VarintValue(s, r.from)
BodyFrom(s, r) == r.from + VarintLen(s, r.from)
BodyOf(s, r)   == Cut(s, BodyFrom(s, r), r.to)

(* The varints of s from each offset on, one behind the other, up to a     *)
(* malformed one; and whether there is none: each byte of a varint begins  *)
(* a shorter one.                                                          *)
VarintsFrom(s) ==
  LET From[p \in 0 .. Len(s)] ==
        IF VarintLen(s, p) < 0 THEN <<>>
        ELSE <<VarintValue(s, p)>> \o From[p + VarintLen(s, p)]
  IN  From

VarintsOf(s)   == VarintsFrom(s)[0]
OnlyVarints(s) == \A p \in 0 .. Len(s) - 1 : VarintLen(s, p) > 0

(* s in pieces of w bytes, from each offset on.                            *)
PiecesFrom(s, w) ==
  LET From[p \in 0 .. Len(s)] ==
        IF Left(s, p) < w THEN <<>> ELSE <<Cut(s, p, p + w)>> \o From[p + w]
  IN  From

Pieces(s, w) == PiecesFrom(s, w)[0]

(* What a record holds: its field, its wire type, and the value of it, a   *)
(* number, the body, or the bytes of a fixed width.                        *)
Content(s, r) ==
  [f |-> r.f, wt |-> r.wt,
   val |-> CASE r.f = -1 -> <<>>
             [] r.f # -1 /\ r.wt = 0 -> ValueOf(s, r)
             [] r.f # -1 /\ r.wt = 2 -> BodyOf(s, r)
             [] OTHER -> Cut(s, r.from, r.to)]

ContentsOf(s, rs) == [k \in DOMAIN rs |-> Content(s, rs[k])]
Contents(s)       == ContentsOf(s, Records(s))

(* The values that a field of wire type wt has among the contents cs.      *)
Values(cs, f, wt) ==
  FlattenSeq([k \in DOMAIN cs |-> IF cs[k].f = f /\ cs[k].wt = wt THEN <<cs[k].val>> ELSE <<>>])
=============================================================================
