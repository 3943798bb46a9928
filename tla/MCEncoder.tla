----------------------------- MODULE MCEncoder -----------------------------
(***************************************************************************)
(* One field of each shape.  A byte holds 5 bits of a varint instead of 7: *)
(* the fields 1 to 3 have tags of one byte, the others of two, and a       *)
(* string of 32 bytes has a prefix of two.                                 *)
(***************************************************************************)
EXTENDS Encoder

CONSTANT Mixed   (* The fields outside the oneof of the last message type.        *)

NegZeroTime == -400

Long  == [j \in 1 .. Base |-> 1]
NoKid == [val |-> 0, opt |-> Nil]
KidSamples == {[val |-> v, opt |-> o] : v \in {0, 40}, o \in {Nil, 0}}

(* The values a field of each shape may hold, the default apart.           *)
Scalars(f) ==
  CASE f \in Sint   -> {-1, 1, 127, -128, 16}
    [] f \in Fixed8 -> {1, 64, 255}
    [] f \in Fixed4 -> {1, 63}
    [] OTHER        -> {1, 32, 255}

MapSamples(f) ==
  CASE f \in Names -> {0 :> <<>>, (40 :> <<3>>) @@ (2 :> <<>>)}
    [] f \in Flags -> {1 :> 5, (1 :> 0) @@ (0 :> 7)}
    [] OTHER       -> {0 :> 1, (33 :> 0) @@ (2 :> 32) @@ (3 :> 5)}

Samples(f) ==
  CASE f \in Text        -> {<<3, 33>>, Long}
    [] f \in Digest      -> {<<0, 9>>}
    [] f \in Texts       -> {<<<<>>>>, <<<<5, 34>>, <<7, 7>>>>}
    [] f \in Num         -> Scalars(f)
    [] f \in Opt         -> {0} \cup Scalars(f)
    [] f \in Packed      -> {<<0>>, SetToSeq(Scalars(f))}
    [] f \in Maps        -> MapSamples(f)
    [] f \in Stamp       -> [ns : {NegZeroTime, 0, 4, 6, -1, 508}, zone : {"UTC", "local"}] \ {NoTime}
    [] f \in Span        -> {1, 4, -1, 127, -128}
    [] f \in Ptr \cup Inl -> KidSamples
    [] f \in Elem        -> {<<NoKid>>, <<[val |-> 40, opt |-> 0], Nil, NoKid>>}

(* A message type for each field outside the oneof, one for the oneof, and *)
(* one with several fields, any branch or none.                            *)
Typed(fs, f, v, k) ==
  [kind |-> k, at |-> [g \in fs |-> IF g = f THEN v ELSE ZeroOf(g)]]

Some(f) == CHOOSE v \in Samples(f) : f \in Ptr \cup Inl => v.val # 0

Several(k) == [kind |-> k, at |-> [f \in Mixed \cup Branch |-> Some(f)]]

BranchSamples(f) == Samples(f) \cup (IF f \in Ptr THEN {} ELSE {ZeroOf(f)})

SampleMessages ==
  {Nil} \cup {Several(k) : k \in Branch \cup {None}}
  \cup UNION {{Typed({f}, f, v, None) : v \in Samples(f) \cup {ZeroOf(f)}} : f \in Field \ Branch}
  \cup UNION {{Typed(Branch, f, v, f) : v \in BranchSamples(f)} : f \in Branch}

Symmetric == Permutations(Callers)
=============================================================================
