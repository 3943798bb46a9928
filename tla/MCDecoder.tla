----------------------------- MODULE MCDecoder -----------------------------
(***************************************************************************)
(* A schema with a field of each kind, with the tags that a record of it   *)
(* begins with:                                                            *)
(*   1 repeated varint 8/10     2 repeated fixed64 17/18   3 messages 26   *)
(*   4 string 34                5, 11-13 maps              6 digest 50     *)
(*   7 Timestamp 58             8 repeated fixed32 69/66   9 varint 72     *)
(*   10 Duration 82             14 bytes 114               15 fixed32 125  *)
(* where the maps go from int64 to string in 5 (tag 42), from string to    *)
(* fixed32 in 11 (90), from fixed64 to bytes in 12 (98) and from bool to   *)
(* int32 in 13 (106).                                                      *)
(* Field 0 is not in the schema.  A word has 8 bits, so that the second    *)
(* and last byte of a varint overflows it, as the tenth does in the code.  *)
(***************************************************************************)
EXTENDS Decoder

NegZeroTime == -400

MCMapKinds ==
  5 :> <<"int64", "string">> @@ 11 :> <<"string", "fixed32">>
  @@ 12 :> <<"fixed64", "bytes">> @@ 13 :> <<"bool", "int32">>

(* Scalars: repeated ones, packed and not, wrong wire types, malformed     *)
(* varints, unknown fields.                                                *)
Scalars == BoundedSeq({8, 10, 72, 0, 1, 2, 130}, 4)
           \cup BoundedSeq({17, 18, 69, 66, 72, 1, 2}, 4)

(* Messages and strings, behind a scalar, inside one another.              *)
Wrap(tag, s) == <<tag, Len(s)>> \o s
Bodies   == BoundedSeq({26, 34, 0, 1, 2}, 4)
Messages ==
  LET Once == {Wrap(26, s) : s \in Bodies}
  IN  Bodies \cup {<<72, 1>> \o s : s \in Once}
      \cup {Wrap(26, <<72, 1>> \o s) : s \in Once} \cup {s \o <<72, 1>> : s \in Once}

(* Entries of a map, and bodies of times, before a scalar.                 *)
Entries ==
  LET Of5 == {Wrap(42, s) : s \in BoundedSeq({8, 10, 16, 18, 0, 1, 2, 130}, 3)}
      Typed == {Wrap(90, s) : s \in BoundedSeq({10, 21, 0, 1}, 4)}
               \cup {Wrap(98, s) : s \in BoundedSeq({9, 18, 0, 1, 2}, 4) \cup [1 .. 5 -> {9, 18, 1}]}
               \cup {Wrap(106, s) : s \in BoundedSeq({8, 16, 1, 17, 2}, 4)}
      Times == BoundedSeq({8, 16, 18, 0, 1, 130}, 3) \cup [1 .. 4 -> {8, 16, 1}]
      Of7 == {Wrap(t, s) : t \in {58, 82}, s \in Times}
      Short == {Wrap(42, s) : s \in BoundedSeq({8, 18, 0, 1}, 2)}
  IN  {s \o <<72, 1>> : s \in Of5 \cup Typed \cup Of7}
      \cup {s \o t : s \in Short, t \in Short}
      \cup {Wrap(42, s) : s \in [1 .. 5 -> {8, 18, 1, 2}]}

(* Digests of two bytes, bytes of any length and single fixed32.           *)
Digests == BoundedSeq({50, 1, 2, 3}, 5) \cup BoundedSeq({114, 125, 122, 1, 2}, 4)

AllInputs == Scalars \cup Messages \cup Entries \cup Digests
=============================================================================
