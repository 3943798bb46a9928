--------------------------- MODULE EncoderProofs ---------------------------
(***************************************************************************)
(* What holds of concurrent MarshalCodec and MarshalToCodec for every      *)
(* number of goroutines, schema, message and buffer: the two passes agree  *)
(* byte for byte, so that the unchecked writes stay in the buffer and fill *)
(* it exactly; all calls for a message yield the same bytes; and proto3    *)
(* reads these bytes back as the message.                                  *)
(*                                                                         *)
(* The last is the longest.  A field is written as records (Told), and so  *)
(* is a message (MessageSpelt); SpeltContents of WireProofs reads them.    *)
(***************************************************************************)
EXTENDS Encoder, WireProofs, SequenceTheorems, FiniteSetTheorems

-----------------------------------------------------------------------------
(* Sums, and concatenations.                                               *)
Sums(s, g) ==
  /\ g \in [0 .. Len(s) -> Nat] /\ g[0] = 0
  /\ \A k \in 1 .. Len(s) : g[k] = g[k - 1] + s[k]

LEMMA TotalDef ==
  ASSUME NEW s \in Seq(Nat)
  PROVE  \E g : Sums(s, g) /\ Total(s) = g[Len(s)]
<1>. DEFINE z == Len(s)
            F == [k \in 1 .. z |-> [v \in Nat |-> v + s[k]]]
            Sum[k \in 0 .. Len(s)] == IF k = 0 THEN 0 ELSE Sum[k - 1] + s[k]
<1>1. z \in Nat /\ \A k \in 1 .. z : s[k] \in Nat
  OBVIOUS
<1>. HIDE DEF z
<1>2. F \in [1 .. z -> [Nat -> Nat]]
  BY <1>1
<1>3. PICK g \in [0 .. z -> Nat] : Recursion(g, 0, F, z)
  <2>. HIDE DEF F
  <2>. QED BY <1>1, <1>2, RecursionExists
<1>4. g[0] = 0 /\ \A k \in 1 .. z : g[k] = g[k - 1] + s[k]
  <2>1. ASSUME NEW k \in 1 .. z
        PROVE  g[k] = g[k - 1] + s[k]
    <3>1. k - 1 \in 0 .. z
      BY <1>1
    <3>2. g[k] = F[k][g[k - 1]] /\ g[k - 1] \in Nat
      <4>. HIDE DEF F
      <4>. QED BY <3>1, <1>3 DEF Recursion
    <3>. QED BY <3>2
  <2>. QED BY <1>3, <2>1 DEF Recursion
<1>5. g = [k \in 0 .. z |-> IF k = 0 THEN 0 ELSE g[k - 1] + s[k]]
  <2>1. \A k \in 0 .. z : g[k] = IF k = 0 THEN 0 ELSE g[k - 1] + s[k]
    BY <1>1, <1>4
  <2>2. g = [k \in 0 .. z |-> g[k]]
    OBVIOUS
  <2>. QED BY <2>1, <2>2, Zenon
<1>6. Sum = [k \in 0 .. z |-> IF k = 0 THEN 0 ELSE Sum[k - 1] + s[k]]
  BY <1>5 DEF z
<1>7. Total(s) = Sum[z]
  BY DEF Total, z
<1>. HIDE DEF Sum
<1>8. Sum[0] = 0 /\ \A k \in 1 .. z : Sum[k] = Sum[k - 1] + s[k]
  <2>1. \A k \in 0 .. z : Sum[k] = IF k = 0 THEN 0 ELSE Sum[k - 1] + s[k]
    BY <1>6, Zenon
  <2>2. 0 \in 0 .. z /\ \A k \in 1 .. z : k \in 0 .. z /\ k # 0
    BY <1>1
  <2>. QED BY <2>1, <2>2, Zenon
<1>. DEFINE S == {k \in 0 .. z : Sum[k] = g[k]}
<1>9. 0 \in S
  BY <1>1, <1>4, <1>8
<1>10. ASSUME NEW k \in 0 .. z - 1, k \in S
       PROVE  k + 1 \in S
  <2>1. k + 1 \in 1 .. z /\ (k + 1) - 1 = k /\ k + 1 \in 0 .. z
    BY <1>1
  <2>2. Sum[k + 1] = Sum[k] + s[k + 1] /\ g[k + 1] = g[k] + s[k + 1]
    BY <2>1, <1>4, <1>8
  <2>. QED BY <2>1, <2>2, <1>10
<1>11. 0 .. z \subseteq S
  <2>. HIDE DEF S
  <2>. QED BY <1>1, <1>9, <1>10, UpwardInduction
<1>12. Total(s) = g[z]
  BY <1>1, <1>7, <1>11
<1>. QED BY <1>4, <1>12 DEF Sums, z

(* The sum of a longer sequence.                                           *)
LEMMA TotalOfMore ==
  ASSUME NEW s \in Seq(Nat), NEW t \in Seq(Nat), Len(t) = Len(s) + 1,
         \A k \in 1 .. Len(s) : t[k] = s[k]
  PROVE  Total(s) \in Nat /\ Total(t) = Total(s) + t[Len(t)]
<1>. DEFINE z == Len(s)
<1>1. z \in Nat /\ Len(t) = z + 1
  OBVIOUS
<1>2. PICK g : Sums(s, g) /\ Total(s) = g[z]
  BY TotalDef
<1>3. PICK h : Sums(t, h) /\ Total(t) = h[z + 1]
  BY TotalDef
<1>. HIDE DEF z
<1>4. g \in [0 .. z -> Nat] /\ g[0] = 0 /\ \A k \in 1 .. z : g[k] = g[k - 1] + s[k]
  BY <1>2 DEF Sums, z
<1>5. h \in [0 .. z + 1 -> Nat] /\ h[0] = 0 /\ \A k \in 1 .. z + 1 : h[k] = h[k - 1] + t[k]
  BY <1>3, <1>1 DEF Sums
<1>. DEFINE S == {k \in 0 .. z : g[k] = h[k]}
<1>6. 0 \in S
  BY <1>1, <1>4, <1>5
<1>7. ASSUME NEW k \in 0 .. z - 1, k \in S
      PROVE  k + 1 \in S
  <2>1. k + 1 \in 1 .. z /\ k + 1 \in 1 .. z + 1 /\ (k + 1) - 1 = k /\ k + 1 \in 0 .. z
    BY <1>1
  <2>2. g[k + 1] = g[k] + s[k + 1] /\ h[k + 1] = h[k] + t[k + 1] /\ t[k + 1] = s[k + 1]
    BY <2>1, <1>4, <1>5 DEF z
  <2>. QED BY <2>1, <2>2, <1>7
<1>8. 0 .. z \subseteq S
  <2>. HIDE DEF S
  <2>. QED BY <1>1, <1>6, <1>7, UpwardInduction
<1>9. z + 1 \in 1 .. z + 1 /\ (z + 1) - 1 = z /\ z \in 0 .. z
  BY <1>1
<1>10. h[z + 1] = h[z] + t[z + 1] /\ h[z] = g[z] /\ g[z] \in Nat
  BY <1>4, <1>5, <1>8, <1>9
<1>. QED BY <1>1, <1>2, <1>3, <1>10

LEMMA TotalIsNat ==
  ASSUME NEW s \in Seq(Nat)
  PROVE  Total(s) \in Nat /\ (Len(s) = 0 => Total(s) = 0)
<1>1. PICK g : Sums(s, g) /\ Total(s) = g[Len(s)]
  BY TotalDef
<1>2. Len(s) \in 0 .. Len(s)
  OBVIOUS
<1>. QED BY <1>1, <1>2 DEF Sums

(* bytes are what the size pass has counted.                               *)
Fits(bytes, sz) == bytes \in Seq(Byte) /\ sz = Len(bytes)

(* Parts that fit, fit together.                                           *)
LEMMA PartsFit ==
  ASSUME NEW ss, NEW s, NEW z \in Nat, ss = [j \in 1 .. z |-> ss[j]], s = [j \in 1 .. z |-> s[j]],
         \A j \in 1 .. z : Fits(ss[j], s[j])
  PROVE  Fits(FlattenSeq(ss), Total(s))
<1>1. ss \in Seq(Seq(Byte)) /\ Len(ss) = z
  <2>1. \A j \in 1 .. z : ss[j] \in Seq(Byte)
    BY DEF Fits
  <2>. QED BY <2>1
<1>2. s \in Seq(Nat) /\ Len(s) = z
  <2>1. ASSUME NEW j \in 1 .. z
        PROVE  s[j] \in Nat
    <3>1. ss[j] \in Seq(Byte) /\ s[j] = Len(ss[j])
      BY DEF Fits
    <3>. QED BY <3>1
  <2>. QED BY <2>1
<1>3. PICK g : Sums(s, g) /\ Total(s) = g[z]
  BY <1>2, TotalDef
<1>4. PICK h : Chains(Byte, ss, h) /\ FlattenSeq(ss) = h[z]
  BY <1>1, FlattenDef
<1>5. g \in [0 .. z -> Nat] /\ g[0] = 0 /\ \A k \in 1 .. z : g[k] = g[k - 1] + s[k]
  BY <1>2, <1>3 DEF Sums
<1>6. h \in [0 .. z -> Seq(Byte)] /\ h[0] = <<>> /\ \A k \in 1 .. z : h[k] = h[k - 1] \o ss[k]
  BY <1>1, <1>4 DEF Chains
<1>. DEFINE S == {k \in 0 .. z : g[k] = Len(h[k])}
<1>7. 0 \in S
  BY <1>5, <1>6
<1>8. ASSUME NEW k \in 0 .. z - 1, k \in S
      PROVE  k + 1 \in S
  <2>1. k + 1 \in 1 .. z /\ (k + 1) - 1 = k /\ k + 1 \in 0 .. z /\ k \in 0 .. z
    OBVIOUS
  <2>2. g[k + 1] = g[k] + s[k + 1] /\ h[k + 1] = h[k] \o ss[k + 1]
    BY <2>1, <1>5, <1>6
  <2>3. ss[k + 1] \in Seq(Byte) /\ s[k + 1] = Len(ss[k + 1]) /\ h[k] \in Seq(Byte)
    BY <2>1, <1>6 DEF Fits
  <2>4. \A u, v \in Seq(Byte) : Len(u \o v) = Len(u) + Len(v)
    OBVIOUS
  <2>5. Len(h[k + 1]) = g[k + 1]
    BY <2>2, <2>3, <2>4, <1>8
  <2>. QED BY <2>1, <2>5
<1>9. 0 .. z \subseteq S
  <2>. HIDE DEF S
  <2>. QED BY <1>7, <1>8, UpwardInduction
<1>10. z \in 0 .. z
  OBVIOUS
<1>. QED BY <1>3, <1>4, <1>6, <1>9, <1>10 DEF Fits

-----------------------------------------------------------------------------
(* Sorting: every place of Ascending(S) is taken by an element of S.       *)
Below(S, x) == {y \in S : y < x}

LEMMA AscendingIs ==
  ASSUME NEW S \in SUBSET Int, IsFiniteSet(S)
  PROVE  /\ Cardinality(S) \in Nat
         /\ DOMAIN Ascending(S) = 1 .. Cardinality(S)
         /\ Ascending(S) \in Seq(S) /\ Len(Ascending(S)) = Cardinality(S)
         /\ \A x \in S : \E j \in 1 .. Cardinality(S) : Ascending(S)[j] = x
         /\ \A i, j \in 1 .. Cardinality(S) : Ascending(S)[i] = Ascending(S)[j] => i = j
<1>. DEFINE c == Cardinality(S)
            rank == [x \in S |-> Cardinality(Below(S, x))]
<1>1. c \in Nat
  BY FS_CardinalityType
<1>2. ASSUME NEW x \in S
      PROVE  /\ IsFiniteSet(Below(S, x)) /\ Cardinality(Below(S, x)) \in Nat
             /\ Cardinality(Below(S, x)) <= c - 1
             /\ Cardinality(Below(S, x) \cup {x}) = Cardinality(Below(S, x)) + 1
  <2>1. Below(S, x) \in SUBSET S /\ x \notin Below(S, x) /\ Below(S, x) \cup {x} \in SUBSET S
    BY DEF Below
  <2>2. IsFiniteSet(Below(S, x)) /\ Cardinality(Below(S, x)) \in Nat
    BY <2>1, FS_Subset, FS_CardinalityType
  <2>3. Cardinality(Below(S, x) \cup {x}) = Cardinality(Below(S, x)) + 1
    BY <2>1, <2>2, FS_AddElement
  <2>4. Cardinality(Below(S, x) \cup {x}) <= c
    BY <2>1, FS_Subset
  <2>. QED BY <2>2, <2>3, <2>4, <1>1
<1>3. rank \in [S -> 0 .. c - 1]
  <2>1. ASSUME NEW x \in S
        PROVE  Cardinality(Below(S, x)) \in 0 .. c - 1
    <3>. DEFINE k == Cardinality(Below(S, x))
    <3>1. k \in Nat /\ k <= c - 1
      BY <1>2
    <3>. HIDE DEF c, k
    <3>2. k \in 0 .. c - 1
      BY <1>1, <3>1
    <3>. QED BY <3>2 DEF k
  <2>. QED BY <2>1, Zenon
<1>4. ASSUME NEW x \in S, NEW y \in S, x < y
      PROVE  rank[x] < rank[y]
  <2>1. Below(S, x) \cup {x} \in SUBSET Below(S, y)
    <3>1. \A u \in S : u \in Int
      OBVIOUS
    <3>2. \A u \in S : u < x => u < y
      BY <1>4, <3>1
    <3>. QED BY <1>4, <3>2, Zenon DEF Below
  <2>2. Cardinality(Below(S, x) \cup {x}) <= Cardinality(Below(S, y))
    BY <2>1, <1>2, FS_Subset
  <2>3. rank[x] = Cardinality(Below(S, x)) /\ rank[y] = Cardinality(Below(S, y))
    OBVIOUS
  <2>. DEFINE j == Cardinality(Below(S, x))
              k == Cardinality(Below(S, y))
  <2>4. j \in Nat /\ k \in Nat /\ j + 1 <= k
    BY <2>2, <1>2
  <2>. HIDE DEF rank, j, k
  <2>5. j < k
    BY <2>4
  <2>. QED BY <2>3, <2>5 DEF j, k
<1>5. rank \in Injection(S, 0 .. c - 1)
  <2>. HIDE DEF rank
  <2>1. \A x, y \in S : rank[x] = rank[y] => x = y
    <3>1. ASSUME NEW x \in S, NEW y \in S, rank[x] = rank[y]
          PROVE  x = y
      <4>1. x \in Int /\ y \in Int /\ rank[x] \in Int /\ rank[y] \in Int
        BY <1>3
      <4>2. ~(x < y) /\ ~(y < x)
        BY <1>4, <3>1, <4>1
      <4>. QED BY <4>1, <4>2
    <3>. QED BY <3>1
  <2>. QED BY <2>1, <1>3 DEF Injection, IsInjective
<1>6. IsFiniteSet(0 .. c - 1) /\ Cardinality(0 .. c - 1) = c
  <2>1. 0 \in Int /\ c - 1 \in Int /\ (IF 0 > c - 1 THEN 0 ELSE (c - 1) - 0 + 1) = c
    BY <1>1
  <2>. HIDE DEF c
  <2>. QED BY <2>1, FS_Interval
<1>7. rank \in Surjection(S, 0 .. c - 1)
  <2>. HIDE DEF rank
  <2>. QED BY <1>5, <1>6, FS_Injection
<1>8. ASSUME NEW j \in 1 .. c
      PROVE  \E x \in S : Cardinality({y \in S : y < x}) = j - 1
  <2>1. j - 1 \in 0 .. c - 1
    BY <1>1
  <2>2. PICK x \in S : rank[x] = j - 1
    <3>. HIDE DEF rank
    <3>. QED BY <2>1, <1>7 DEF Surjection
  <2>3. Cardinality({y \in S : y < x}) = j - 1
    BY <2>2 DEF Below
  <2>. QED BY <2>3, Zenon
<1>9. ASSUME NEW j \in 1 .. c
      PROVE  /\ (CHOOSE x \in S : Cardinality({y \in S : y < x}) = j - 1) \in S
             /\ Cardinality({y \in S : y < (CHOOSE x \in S : Cardinality({u \in S : u < x}) = j - 1)}) = j - 1
  BY <1>8, Zenon
<1>. DEFINE q == Ascending(S)
<1>10. q \in [1 .. c -> S] /\ \A j \in 1 .. c : Cardinality(Below(S, q[j])) = j - 1
  <2>1. q \in [1 .. c -> S]
    BY <1>9, Zenon DEF Ascending
  <2>2. ASSUME NEW j \in 1 .. c
        PROVE  Cardinality(Below(S, q[j])) = j - 1
    <3>1. q[j] = CHOOSE x \in S : Cardinality({y \in S : y < x}) = j - 1
      BY Zenon DEF Ascending
    <3>. HIDE DEF q
    <3>. QED BY <1>9, <3>1, Zenon DEF Below
  <2>. QED BY <2>1, <2>2
<1>. HIDE DEF q
<1>11. q \in Seq(S) /\ Len(q) = c /\ DOMAIN q = 1 .. c
  <2>. HIDE DEF c
  <2>. QED BY <1>1, <1>10
<1>12. ASSUME NEW j \in 1 .. c
       PROVE  q[j] \in S /\ rank[q[j]] = j - 1
  <2>1. q[j] \in S
    BY <1>10
  <2>. QED BY <1>10, <2>1
<1>. HIDE DEF rank
<1>13. ASSUME NEW x \in S
       PROVE  \E j \in 1 .. c : q[j] = x
  <2>. DEFINE j == rank[x] + 1
  <2>1. j \in 1 .. c /\ j - 1 = rank[x]
    <3>1. rank[x] \in 0 .. c - 1
      BY <1>3
    <3>. HIDE DEF c
    <3>. QED BY <1>1, <3>1
  <2>. HIDE DEF j
  <2>2. rank[q[j]] = rank[x] /\ q[j] \in S
    BY <1>12, <2>1
  <2>3. q[j] = x
    BY <1>5, <2>2 DEF Injection, IsInjective
  <2>. QED BY <2>1, <2>3
<1>14. ASSUME NEW i \in 1 .. c, NEW j \in 1 .. c, q[i] = q[j]
       PROVE  i = j
  <2>1. i - 1 = j - 1
    BY <1>12, <1>14
  <2>. HIDE DEF c
  <2>. QED BY <1>1, <2>1
<1>. QED BY <1>1, <1>11, <1>13, <1>14 DEF q

-----------------------------------------------------------------------------
LEMMA OneKind ==
  /\ Text \cap (Digest \cup Texts \cup Num \cup Opt \cup Packed \cup Maps
                \cup Stamp \cup Span \cup Ptr \cup Inl \cup Elem) = {}
  /\ Digest \cap (Texts \cup Num \cup Opt \cup Packed \cup Maps
                  \cup Stamp \cup Span \cup Ptr \cup Inl \cup Elem) = {}
  /\ Texts \cap (Num \cup Opt \cup Packed \cup Maps
                 \cup Stamp \cup Span \cup Ptr \cup Inl \cup Elem) = {}
  /\ Num \cap (Opt \cup Packed \cup Maps \cup Stamp \cup Span \cup Ptr \cup Inl \cup Elem) = {}
  /\ Opt \cap (Packed \cup Maps \cup Stamp \cup Span \cup Ptr \cup Inl \cup Elem) = {}
  /\ Packed \cap (Maps \cup Stamp \cup Span \cup Ptr \cup Inl \cup Elem) = {}
  /\ Maps \cap (Stamp \cup Span \cup Ptr \cup Inl \cup Elem) = {}
  /\ Stamp \cap (Span \cup Ptr \cup Inl \cup Elem) = {}
  /\ Span \cap (Ptr \cup Inl \cup Elem) = {}
  /\ Ptr \cap (Inl \cup Elem) = {} /\ Inl \cap Elem = {}
<1>. DEFINE kinds == <<Text, Digest, Texts, Num, Opt, Packed, Maps, Stamp, Span, Ptr, Inl, Elem>>
<1>1. DOMAIN kinds = 1 .. 12
  OBVIOUS
<1>2. \A j, k \in 1 .. 12 : j # k => kinds[j] \cap kinds[k] = {}
  BY <1>1, EncoderAssumption
<1>3. /\ kinds[1] = Text /\ kinds[2] = Digest /\ kinds[3] = Texts /\ kinds[4] = Num
      /\ kinds[5] = Opt /\ kinds[6] = Packed /\ kinds[7] = Maps /\ kinds[8] = Stamp
      /\ kinds[9] = Span /\ kinds[10] = Ptr /\ kinds[11] = Inl /\ kinds[12] = Elem
  OBVIOUS
<1>. HIDE DEF kinds
<1>4. \A k \in {2, 3, 4, 5, 6, 7, 8, 9, 10, 11, 12} : kinds[1] \cap kinds[k] = {}
  BY <1>2
<1>5. \A k \in {3, 4, 5, 6, 7, 8, 9, 10, 11, 12} : kinds[2] \cap kinds[k] = {}
  BY <1>2
<1>6. \A k \in {4, 5, 6, 7, 8, 9, 10, 11, 12} : kinds[3] \cap kinds[k] = {}
  BY <1>2
<1>7. \A k \in {5, 6, 7, 8, 9, 10, 11, 12} : kinds[4] \cap kinds[k] = {}
  BY <1>2
<1>8. \A k \in {6, 7, 8, 9, 10, 11, 12} : kinds[5] \cap kinds[k] = {}
  BY <1>2
<1>9. \A k \in {7, 8, 9, 10, 11, 12} : kinds[6] \cap kinds[k] = {}
  BY <1>2
<1>10. \A k \in {8, 9, 10, 11, 12} : kinds[7] \cap kinds[k] = {}
  BY <1>2
<1>11. \A k \in {9, 10, 11, 12} : kinds[8] \cap kinds[k] = {}
  BY <1>2
<1>12. \A k \in {10, 11, 12} : kinds[9] \cap kinds[k] = {}
  BY <1>2
<1>13. \A k \in {11, 12} : kinds[10] \cap kinds[k] = {}
  BY <1>2
<1>14. \A k \in {12} : kinds[11] \cap kinds[k] = {}
  BY <1>2
<1>. QED BY <1>3, <1>4, <1>5, <1>6, <1>7, <1>8, <1>9, <1>10, <1>11, <1>12, <1>13, <1>14

-----------------------------------------------------------------------------
(* The two passes agree on the parts of a field.                           *)
LEMMA EmptyFits == Fits(<<>>, 0)
BY DEF Fits

LEMMA JoinFits ==
  ASSUME NEW a, NEW x, Fits(a, x), NEW b, NEW y, Fits(b, y)
  PROVE  Fits(a \o b, x + y) /\ x \in Nat /\ y \in Nat
BY DEF Fits

LEMMA MaxIs == MaxVarintLen \in Nat /\ MaxVarintLen >= 1
BY WireAssumption

LEMMA VarintFits ==
  ASSUME NEW x \in 0 .. Word - 1
  PROVE  Fits(EncodeVarint[x], SizeVarint(x)) /\ SizeVarint(x) \in 1 .. MaxVarintLen
BY SizeIsLength, EncodesAVarint DEF Takes, IsVarint, Fits

LEMMA TagFits ==
  ASSUME NEW f \in Field \cup {1, 2}, NEW wt \in 0 .. 7
  PROVE  Fits(Tag(f, wt), TagSize(f)) /\ TagSize(f) \in 1 .. MaxVarintLen
<1>1. f \in Nat /\ 8 * f + 7 < Word
  BY EncoderAssumption
<1>2. 8 * f + wt \in 0 .. Word - 1
  BY <1>1, Widths
<1>3. SizeVarint(8 * f) = SizeVarint(8 * f + wt)
  BY <1>1, WireTypeIsFree
<1>. QED BY <1>2, <1>3, VarintFits DEF Tag, TagSize

LEMMA LenDelFits ==
  ASSUME NEW f \in Field \cup {1, 2}, NEW sz \in 0 .. Word - 1, NEW body, Fits(body, sz)
  PROVE  /\ Fits(LenDel(f, sz, body), LenDelSize(f, sz))
         /\ LenDelSize(f, sz) \in 0 .. 2 * MaxVarintLen + sz
<1>1. Fits(Tag(f, 2), TagSize(f)) /\ TagSize(f) \in 1 .. MaxVarintLen
  BY TagFits
<1>2. Fits(EncodeVarint[sz], SizeVarint(sz)) /\ SizeVarint(sz) \in 1 .. MaxVarintLen
  BY VarintFits
<1>3. Fits(Tag(f, 2) \o EncodeVarint[sz], TagSize(f) + SizeVarint(sz))
  BY <1>1, <1>2, JoinFits
<1>4. Fits((Tag(f, 2) \o EncodeVarint[sz]) \o body, (TagSize(f) + SizeVarint(sz)) + sz)
  BY <1>3, JoinFits
<1>. QED BY <1>1, <1>2, <1>4, MaxIs, Widths DEF LenDel, LenDelSize

LEMMA VarintFieldFits ==
  ASSUME NEW f \in Field \cup {1, 2}, NEW x \in 0 .. Word - 1
  PROVE  Fits(VarintField(f, x), VarintSize(f, x)) /\ VarintSize(f, x) \in 1 .. 2 * MaxVarintLen
<1>1. Fits(Tag(f, 0), TagSize(f)) /\ TagSize(f) \in 1 .. MaxVarintLen
  BY TagFits
<1>2. Fits(EncodeVarint[x], SizeVarint(x)) /\ SizeVarint(x) \in 1 .. MaxVarintLen
  BY VarintFits
<1>3. Fits(Tag(f, 0) \o EncodeVarint[x], TagSize(f) + SizeVarint(x))
  BY <1>1, <1>2, JoinFits
<1>. QED BY <1>1, <1>2, <1>3, MaxIs DEF VarintField, VarintSize

LEMMA LittleEndianDef ==
  ASSUME NEW x \in Int, NEW w \in Nat
  PROVE  \E g \in [0 .. w -> Int] :
           /\ g[0] = x /\ \A j \in 1 .. w : g[j] = g[j - 1] \div (2 * Base)
           /\ LittleEndian(x, w) = [j \in 1 .. w |-> g[j - 1] % (2 * Base)]
<1>. DEFINE High[j \in 0 .. w] == IF j = 0 THEN x ELSE High[j - 1] \div (2 * Base)
            F == [j \in 1 .. w |-> [v \in Int |-> v \div (2 * Base)]]
            q == LittleEndian(x, w)
<1>1. 2 * Base \in Nat /\ \A v \in Int : v \div (2 * Base) \in Int /\ v % (2 * Base) \in Byte
  BY Widths DEF Byte
<1>2. F \in [1 .. w -> [Int -> Int]]
  BY <1>1
<1>3. PICK g \in [0 .. w -> Int] : Recursion(g, x, F, w)
  <2>. HIDE DEF F
  <2>. QED BY <1>2, RecursionExists
<1>4. ASSUME NEW j \in 1 .. w
      PROVE  g[j] = g[j - 1] \div (2 * Base)
  <2>1. j - 1 \in 0 .. w
    OBVIOUS
  <2>2. g[j] = F[j][g[j - 1]] /\ g[j - 1] \in Int
    <3>. HIDE DEF F
    <3>. QED BY <2>1, <1>3 DEF Recursion
  <2>. QED BY <2>2
<1>5. g = [j \in 0 .. w |-> IF j = 0 THEN x ELSE g[j - 1] \div (2 * Base)]
  <2>1. ASSUME NEW j \in 0 .. w
        PROVE  g[j] = IF j = 0 THEN x ELSE g[j - 1] \div (2 * Base)
    <3>1. CASE j = 0
      BY <3>1, <1>3 DEF Recursion
    <3>2. CASE j # 0
      <4>1. j \in 1 .. w
        BY <3>2
      <4>. QED BY <3>2, <4>1, <1>4, Zenon
    <3>. QED BY <3>1, <3>2
  <2>2. g = [j \in 0 .. w |-> g[j]]
    OBVIOUS
  <2>. QED BY <2>1, <2>2, Zenon
<1>6. High = [j \in 0 .. w |-> IF j = 0 THEN x ELSE High[j - 1] \div (2 * Base)]
  BY <1>5
<1>7. q = [j \in 1 .. w |-> High[j - 1] % (2 * Base)]
  BY DEF LittleEndian
<1>. HIDE DEF High, q
<1>. DEFINE S == {j \in 0 .. w : High[j] = g[j]}
<1>8. \A j \in 0 .. w : High[j] = IF j = 0 THEN x ELSE High[j - 1] \div (2 * Base)
  BY <1>6, Zenon
<1>9. 0 \in S
  <2>1. 0 \in 0 .. w
    OBVIOUS
  <2>2. High[0] = x
    BY <2>1, <1>8
  <2>3. g[0] = x
    BY <1>3 DEF Recursion
  <2>. QED BY <2>1, <2>2, <2>3
<1>10. ASSUME NEW j \in 0 .. w - 1, j \in S
       PROVE  j + 1 \in S
  <2>1. j + 1 \in 0 .. w /\ j + 1 # 0 /\ (j + 1) - 1 = j /\ j + 1 \in 1 .. w
    OBVIOUS
  <2>2. High[j + 1] = High[j] \div (2 * Base)
    BY <2>1, <1>8
  <2>3. g[j + 1] = g[j] \div (2 * Base)
    BY <2>1, <1>4
  <2>. QED BY <2>1, <2>2, <2>3, <1>10
<1>11. 0 .. w \subseteq S
  <2>. HIDE DEF S
  <2>. QED BY <1>9, <1>10, UpwardInduction
<1>12. q = [j \in 1 .. w |-> g[j - 1] % (2 * Base)]
  <2>1. \A j \in 1 .. w : j - 1 \in 0 .. w
    OBVIOUS
  <2>2. \A j \in 1 .. w : High[j - 1] = g[j - 1]
    BY <2>1, <1>11
  <2>. QED BY <1>7, <2>2
<1>13. g[0] = x
  BY <1>3 DEF Recursion
<1>. QED BY <1>4, <1>12, <1>13 DEF q

LEMMA LittleEndianFits ==
  ASSUME NEW x \in Int, NEW w \in Nat
  PROVE  Fits(LittleEndian(x, w), w)
<1>. DEFINE q == LittleEndian(x, w)
<1>1. PICK g \in [0 .. w -> Int] : q = [j \in 1 .. w |-> g[j - 1] % (2 * Base)]
  BY LittleEndianDef
<1>2. ASSUME NEW j \in 1 .. w
      PROVE  g[j - 1] % (2 * Base) \in Byte
  <2>1. j - 1 \in 0 .. w
    OBVIOUS
  <2>2. g[j - 1] \in Int
    BY <2>1
  <2>. QED BY <2>2, Widths DEF Byte
<1>. HIDE DEF q
<1>3. q \in [1 .. w -> Byte]
  BY <1>1, <1>2, Zenon
<1>4. q \in Seq(Byte) /\ Len(q) = w
  BY <1>3
<1>. QED BY <1>4 DEF Fits, q

LEMMA ZigzagIsAWord ==
  ASSUME NEW v \in -(Word \div 2) .. (Word \div 2) - 1
  PROVE  Zigzag(v, Word) \in 0 .. Word - 1
<1>1. v \in Int /\ (2 * v) % Word \in 0 .. Word - 1
  BY Widths
<1>. QED BY <1>1, Widths DEF Zigzag

LEMMA ScalarFits ==
  ASSUME NEW f \in Num \cup Opt \cup Packed, NEW x \in Scalar(f)
  PROVE  Fits(ScalarBytes(f, x), ScalarSize(f, x))
<1>1. Sint \cap Fixed8 = {} /\ Sint \cap Fixed4 = {} /\ Fixed8 \cap Fixed4 = {}
  BY EncoderAssumption
<1>2. CASE f \in Fixed8
  <2>1. x \in Int
    BY <1>1, <1>2, Widths DEF Scalar
  <2>. QED BY <1>1, <1>2, <2>1, LittleEndianFits, Widths DEF ScalarBytes, ScalarSize
<1>3. CASE f \in Fixed4
  <2>1. x \in Int
    BY <1>1, <1>3, Widths DEF Scalar
  <2>. QED BY <1>1, <1>3, <2>1, LittleEndianFits, Widths DEF ScalarBytes, ScalarSize
<1>4. CASE f \in Sint
  <2>1. Zigzag(x, Word) \in 0 .. Word - 1
    <3>1. x \in Signs
      BY <1>1, <1>4 DEF Scalar
    <3>. QED BY <3>1, ZigzagIsAWord DEF Signs
  <2>. QED BY <1>1, <1>4, <2>1, VarintFits DEF ScalarBytes, ScalarSize
<1>5. CASE f \notin Fixed8 \cup Fixed4 \cup Sint
  <2>1. x \in 0 .. Word - 1
    BY <1>5 DEF Scalar
  <2>. QED BY <1>5, <2>1, VarintFits DEF ScalarBytes, ScalarSize
<1>. QED BY <1>2, <1>3, <1>4, <1>5

LEMMA KidFits ==
  ASSUME NEW k \in Kids
  PROVE  Fits(KidBytes(k), KidSize(k)) /\ KidSize(k) \in 0 .. Word - 1
<1>0. k # Nil /\ 4 * MaxVarintLen < Word
  BY EncoderAssumption, Widths DEF Room
<1>1. k.val \in 0 .. Word - 1 /\ (k.opt # Nil => k.opt \in 0 .. Word - 1)
  BY DEF Kids
<1>. DEFINE a == IF k.val = 0 THEN <<>> ELSE VarintField(1, k.val)
            x == IF k.val = 0 THEN 0 ELSE VarintSize(1, k.val)
            b == IF k.opt = Nil THEN <<>> ELSE VarintField(2, k.opt)
            y == IF k.opt = Nil THEN 0 ELSE VarintSize(2, k.opt)
<1>2. Fits(a, x) /\ x \in 0 .. 2 * MaxVarintLen
  <2>1. CASE k.val = 0
    BY <2>1, EmptyFits, MaxIs
  <2>2. CASE ~(k.val = 0)
    <3>1. /\ Fits(VarintField(1, k.val), VarintSize(1, k.val))
          /\ VarintSize(1, k.val) \in 1 .. 2 * MaxVarintLen
      BY <2>2, <1>1, VarintFieldFits
    <3>. QED BY <2>2, <3>1, MaxIs
  <2>. QED BY <2>1, <2>2
<1>3. Fits(b, y) /\ y \in 0 .. 2 * MaxVarintLen
  <2>1. CASE k.opt = Nil
    BY <2>1, EmptyFits, MaxIs
  <2>2. CASE ~(k.opt = Nil)
    <3>1. /\ Fits(VarintField(2, k.opt), VarintSize(2, k.opt))
          /\ VarintSize(2, k.opt) \in 1 .. 2 * MaxVarintLen
      BY <2>2, <1>1, VarintFieldFits
    <3>. QED BY <2>2, <3>1, MaxIs
  <2>. QED BY <2>1, <2>2
<1>4. KidBytes(k) = a \o b /\ KidSize(k) = x + y
  BY <1>0 DEF KidBytes, KidSize
<1>. HIDE DEF a, b, x, y
<1>5. Fits(a \o b, x + y)
  BY <1>2, <1>3, JoinFits
<1>. QED BY <1>0, <1>2, <1>3, <1>4, <1>5, MaxIs, Widths

LEMMA BodyFits ==
  ASSUME NEW secs \in Int, NEW nanos \in Int
  PROVE  /\ Fits(TSBody(secs, nanos), SizeTSBody(secs, nanos))
         /\ SizeTSBody(secs, nanos) \in 0 .. Word - 1
<1>0. 4 * MaxVarintLen < Word
  BY EncoderAssumption, Widths DEF Room
<1>1. secs % Word \in 0 .. Word - 1 /\ nanos % Word \in 0 .. Word - 1
  BY Widths
<1>2. Fits(<<8>>, 1) /\ Fits(<<16>>, 1)
  <2>1. 8 \in Byte /\ 16 \in Byte
    BY WellKnownAssumption, Widths DEF Byte
  <2>. QED BY <2>1 DEF Fits
<1>3. ASSUME NEW u \in 0 .. Word - 1, NEW t, Fits(t, 1)
      PROVE  /\ Fits(t \o EncodeVarint[u], 1 + SizeVarint(u))
             /\ 1 + SizeVarint(u) \in 0 .. 1 + MaxVarintLen
  <2>1. Fits(EncodeVarint[u], SizeVarint(u)) /\ SizeVarint(u) \in 1 .. MaxVarintLen
    BY VarintFits
  <2>. QED BY <1>3, <2>1, JoinFits, MaxIs
<1>. DEFINE a == IF secs = 0 THEN <<>> ELSE <<8>> \o EncodeVarint[secs % Word]
            x == IF secs = 0 THEN 0 ELSE 1 + SizeVarint(secs % Word)
            b == IF nanos = 0 THEN <<>> ELSE <<16>> \o EncodeVarint[nanos % Word]
            y == IF nanos = 0 THEN 0 ELSE 1 + SizeVarint(nanos % Word)
<1>4. Fits(a, x) /\ x \in 0 .. 1 + MaxVarintLen
  BY <1>1, <1>2, <1>3, EmptyFits, MaxIs
<1>5. Fits(b, y) /\ y \in 0 .. 1 + MaxVarintLen
  BY <1>1, <1>2, <1>3, EmptyFits, MaxIs
<1>6. TSBody(secs, nanos) = a \o b /\ SizeTSBody(secs, nanos) = x + y
  BY Zenon DEF TSBody, SizeTSBody
<1>. HIDE DEF a, b, x, y
<1>7. Fits(a \o b, x + y)
  BY <1>4, <1>5, JoinFits
<1>. QED BY <1>0, <1>4, <1>5, <1>6, <1>7, MaxIs, Widths

LEMMA TimesFit ==
  ASSUME NEW t \in Int
  PROVE  /\ Fits(EncodeTimestamp(t), SizeTimestamp(t)) /\ SizeTimestamp(t) \in 0 .. Word - 1
         /\ Fits(EncodeDuration(t), SizeDuration(t)) /\ SizeDuration(t) \in 0 .. Word - 1
<1>1. Second \in Nat /\ Second > 0
  BY WellKnownAssumption
<1>2. t \div Second \in Int /\ t % Second \in Int /\ (-t) \div Second \in Int
  BY <1>1
<1>3. Truncated(t) \in Int
  BY <1>2 DEF Truncated
<1>. DEFINE r == t - Truncated(t) * Second
<1>4. r \in Int
  BY <1>1, <1>3
<1>. HIDE DEF r
<1>5. Fits(TSBody(Truncated(t), r), SizeTSBody(Truncated(t), r))
      /\ SizeTSBody(Truncated(t), r) \in 0 .. Word - 1
  BY <1>3, <1>4, BodyFits
<1>6. /\ Fits(TSBody(t \div Second, t % Second), SizeTSBody(t \div Second, t % Second))
      /\ SizeTSBody(t \div Second, t % Second) \in 0 .. Word - 1
  BY <1>2, BodyFits
<1>7. Fits(EncodeDuration(t), SizeDuration(t)) /\ SizeDuration(t) \in 0 .. Word - 1
  BY <1>5, Zenon DEF EncodeDuration, SizeDuration, r
<1>8. Fits(EncodeTimestamp(t), SizeTimestamp(t)) /\ SizeTimestamp(t) \in 0 .. Word - 1
  <2>1. CASE t = ZeroTime
    BY <2>1, EmptyFits, Widths DEF EncodeTimestamp, SizeTimestamp
  <2>2. CASE t # ZeroTime
    BY <2>2, <1>6, Zenon DEF EncodeTimestamp, SizeTimestamp
  <2>. QED BY <2>1, <2>2
<1>. QED BY <1>7, <1>8

LEMMA ShortFits ==
  ASSUME NEW x \in Short
  PROVE  /\ Fits(x, Len(x)) /\ Len(x) \in 0 .. Word - 1
         /\ Len(x) \in Nat /\ Len(x) + Room < Word
<1>1. x \in Seq(Byte) /\ Len(x) + Room < Word /\ Len(x) \in Nat
  BY DEF Short
<1>2. Len(x) \in 0 .. Word - 1
  BY <1>1, MaxIs, Widths DEF Room
<1>. QED BY <1>1, <1>2 DEF Fits

LEMMA EntryFits ==
  ASSUME NEW f \in Maps, NEW k \in 0 .. Word - 1, NEW v, f \in Names => v \in Short,
         f \notin Names => v \in 0 .. Word - 1
  PROVE  /\ Fits(VarintField(1, k) \o ValueBytes(f, v), EntrySize(f, k, v))
         /\ EntrySize(f, k, v) \in 0 .. Word - 1
<1>1. Fits(VarintField(1, k), VarintSize(1, k)) /\ VarintSize(1, k) \in 1 .. 2 * MaxVarintLen
  BY VarintFieldFits
<1>2. Room < Word /\ Room = 4 * MaxVarintLen + Width8 /\ Doubles \cap Names = {}
  BY EncoderAssumption DEF Room
<1>3. /\ Fits(ValueBytes(f, v), ValueSize(f, v)) /\ ValueSize(f, v) \in Nat
      /\ 2 * MaxVarintLen + ValueSize(f, v) < Word
  <2>1. CASE f \in Doubles
    <3>1. v \in 0 .. Word - 1 /\ v \div 2 \in Int
      BY <1>2, <2>1, Widths
    <3>2. Fits(Tag(2, 1), TagSize(2)) /\ TagSize(2) \in 1 .. MaxVarintLen
      BY TagFits
    <3>3. Fits(LittleEndian(v \div 2, Width8), Width8)
      BY <3>1, LittleEndianFits, Widths
    <3>4. Fits(Tag(2, 1) \o LittleEndian(v \div 2, Width8), TagSize(2) + Width8)
      BY <3>2, <3>3, JoinFits
    <3>5. /\ ValueBytes(f, v) = Tag(2, 1) \o LittleEndian(v \div 2, Width8)
          /\ ValueSize(f, v) = TagSize(2) + Width8
      BY <1>2, <2>1 DEF ValueBytes, ValueSize
    <3>. QED BY <1>2, <3>2, <3>4, <3>5, MaxIs, Widths
  <2>2. CASE f \in Names
    <3>1. v \in Short
      BY <2>2
    <3>2. /\ Fits(v, Len(v)) /\ Len(v) \in 0 .. Word - 1
          /\ Len(v) \in Nat /\ Len(v) + Room < Word
      BY <3>1, ShortFits
    <3>3. /\ Fits(LenDel(2, Len(v), v), LenDelSize(2, Len(v)))
          /\ LenDelSize(2, Len(v)) \in 0 .. 2 * MaxVarintLen + Len(v)
      BY <3>2, LenDelFits
    <3>4. ValueBytes(f, v) = LenDel(2, Len(v), v) /\ ValueSize(f, v) = LenDelSize(2, Len(v))
      BY <1>2, <2>2 DEF ValueBytes, ValueSize
    <3>. QED BY <1>2, <3>2, <3>3, <3>4, MaxIs, Widths
  <2>3. CASE f \notin Doubles \cup Names
    <3>1. Fits(VarintField(2, v), VarintSize(2, v)) /\ VarintSize(2, v) \in 1 .. 2 * MaxVarintLen
      BY <2>3, VarintFieldFits
    <3>2. ValueBytes(f, v) = VarintField(2, v) /\ ValueSize(f, v) = VarintSize(2, v)
      BY <2>3 DEF ValueBytes, ValueSize
    <3>. QED BY <1>2, <3>1, <3>2, MaxIs, Widths
  <2>. QED BY <2>1, <2>2, <2>3
<1>4. Fits(VarintField(1, k) \o ValueBytes(f, v), VarintSize(1, k) + ValueSize(f, v))
  BY <1>1, <1>3, JoinFits
<1>. QED BY <1>1, <1>3, <1>4, MaxIs, Widths DEF EntrySize

-----------------------------------------------------------------------------
(* A value of the field that may be written: no pointer that is nil, no    *)
(* packed body that a word cannot count.                                   *)
Proper(f, v) ==
  /\ f \in Field /\ IsValue(f, v)
  /\ f \in Opt \cup Ptr => v # Nil
  /\ f \in Packed => PackedPrefix(f, v) < Word

FieldOK(f, v, ks) == Fits(FieldBytes(f, v, ks), FieldSize(f, v))

LEMMA TextOK ==
  ASSUME NEW f \in Text \cup Digest, NEW v, Proper(f, v), NEW ks
  PROVE  FieldOK(f, v, ks)
<1>1. f \in Field /\ v \in Short /\ (f \in Digest => Len(v) = FixedLen)
  BY OneKind DEF Proper, IsValue
<1>3. Len(v) \in 0 .. Word - 1 /\ Fits(v, Len(v))
  BY <1>1, ShortFits
<1>4. Fits(LenDel(f, Len(v), v), LenDelSize(f, Len(v)))
  BY <1>1, <1>3, LenDelFits
<1>5. FieldBytes(f, v, ks) = LenDel(f, Len(v), v) /\ FieldSize(f, v) = LenDelSize(f, Len(v))
  BY <1>1, OneKind DEF FieldBytes, FieldSize
<1>. QED BY <1>4, <1>5 DEF FieldOK

LEMMA TextsOK ==
  ASSUME NEW f \in Texts, NEW v, Proper(f, v), NEW ks
  PROVE  FieldOK(f, v, ks)
<1>1. f \in Field /\ v \in Seq(Short)
  BY OneKind DEF Proper, IsValue
<1>. DEFINE ss == [j \in DOMAIN v |-> LenDel(f, Len(v[j]), v[j])]
            s  == [j \in DOMAIN v |-> LenDelSize(f, Len(v[j]))]
            z  == Len(v)
<1>2. z \in Nat /\ DOMAIN v = 1 .. z
  BY <1>1
<1>3. ASSUME NEW j \in 1 .. z
      PROVE  Fits(ss[j], s[j])
  <2>1. v[j] \in Short
    BY <1>1
  <2>3. Len(v[j]) \in 0 .. Word - 1 /\ Fits(v[j], Len(v[j]))
    BY <2>1, ShortFits
  <2>4. Fits(LenDel(f, Len(v[j]), v[j]), LenDelSize(f, Len(v[j])))
    BY <1>1, <2>3, LenDelFits
  <2>. QED BY <2>4, <1>2
<1>4. FieldBytes(f, v, ks) = FlattenSeq(ss) /\ FieldSize(f, v) = Total(s)
  BY OneKind DEF FieldBytes, FieldSize, SumOver, Joined
<1>5. ss = [j \in 1 .. z |-> ss[j]] /\ s = [j \in 1 .. z |-> s[j]]
  BY <1>2
<1>. HIDE DEF ss, s, z
<1>6. Fits(FlattenSeq(ss), Total(s))
  BY <1>2, <1>3, <1>5, PartsFit
<1>. QED BY <1>4, <1>6 DEF FieldOK

LEMMA ScalarOK ==
  ASSUME NEW f \in Num \cup Opt, NEW v, Proper(f, v), NEW ks
  PROVE  FieldOK(f, v, ks)
<1>1. f \in Field /\ v \in Scalar(f)
  BY OneKind DEF Proper, IsValue
<1>2. ScalarType(f) \in 0 .. 7
  BY DEF ScalarType
<1>3. Fits(Tag(f, ScalarType(f)), TagSize(f))
  BY <1>1, <1>2, TagFits
<1>4. Fits(ScalarBytes(f, v), ScalarSize(f, v))
  BY <1>1, ScalarFits
<1>5. Fits(Tag(f, ScalarType(f)) \o ScalarBytes(f, v), TagSize(f) + ScalarSize(f, v))
  BY <1>3, <1>4, JoinFits
<1>6. /\ FieldBytes(f, v, ks) = Tag(f, ScalarType(f)) \o ScalarBytes(f, v)
      /\ FieldSize(f, v) = TagSize(f) + ScalarSize(f, v)
  BY OneKind DEF FieldBytes, FieldSize
<1>. QED BY <1>5, <1>6 DEF FieldOK

(* The body of a packed field.                                             *)
PackedBody(f, v) == FlattenSeq([j \in DOMAIN v |-> ScalarBytes(f, v[j])])

LEMMA PackedFits ==
  ASSUME NEW f \in Packed, NEW v, Proper(f, v)
  PROVE  Fits(PackedBody(f, v), PackedPrefix(f, v)) /\ PackedPrefix(f, v) \in 0 .. Word - 1
<1>. DEFINE ss == [j \in DOMAIN v |-> ScalarBytes(f, v[j])]
            s  == [j \in DOMAIN v |-> ScalarSize(f, v[j])]
            z  == Len(v)
<1>1. v \in Seq(Scalar(f))
  BY OneKind DEF Proper, IsValue
<1>2. z \in Nat /\ DOMAIN v = 1 .. z
  BY <1>1
<1>3. ASSUME NEW j \in 1 .. z
      PROVE  Fits(ss[j], s[j])
  <2>1. v[j] \in Scalar(f)
    BY <1>1
  <2>2. Fits(ScalarBytes(f, v[j]), ScalarSize(f, v[j]))
    BY <2>1, ScalarFits
  <2>. QED BY <2>2, <1>2
<1>4. PackedPrefix(f, v) = Total(s) /\ PackedPrefix(f, v) < Word
  BY DEF Proper, PackedPrefix, SumOver
<1>5. ss = [j \in 1 .. z |-> ss[j]] /\ s = [j \in 1 .. z |-> s[j]]
  BY <1>2
<1>6. PackedBody(f, v) = FlattenSeq(ss)
  BY DEF PackedBody
<1>. HIDE DEF ss, s, z
<1>7. Fits(FlattenSeq(ss), Total(s))
  BY <1>2, <1>3, <1>5, PartsFit
<1>8. Total(s) \in 0 .. Word - 1
  BY <1>4, <1>7, Widths DEF Fits
<1>. QED BY <1>4, <1>6, <1>7, <1>8

LEMMA PackedOK ==
  ASSUME NEW f \in Packed, NEW v, Proper(f, v), NEW ks
  PROVE  FieldOK(f, v, ks)
<1>1. f \in Field
  BY DEF Proper
<1>2. /\ FieldBytes(f, v, ks) = LenDel(f, PackedPrefix(f, v), PackedBody(f, v))
      /\ FieldSize(f, v) = LenDelSize(f, PackedPrefix(f, v))
  BY OneKind DEF FieldBytes, FieldSize, PackedBody, PackedPrefix, Joined
<1>3. Fits(LenDel(f, PackedPrefix(f, v), PackedBody(f, v)), LenDelSize(f, PackedPrefix(f, v)))
  BY <1>1, PackedFits, LenDelFits
<1>. QED BY <1>2, <1>3 DEF FieldOK

LEMMA KeysAreFinite ==
  ASSUME NEW f \in Maps, NEW v, IsValue(f, v)
  PROVE  DOMAIN v \in SUBSET (0 .. Word - 1) /\ DOMAIN v \in SUBSET Int /\ IsFiniteSet(DOMAIN v)
<1>1. DOMAIN v \subseteq (IF f \in Flags THEN {0, 1} ELSE 0 .. Word - 1)
  BY OneKind DEF IsValue, IsMap
<1>2. {0, 1} \subseteq 0 .. Word - 1
  BY EncoderAssumption, MaxIs, Widths DEF Room
<1>3. DOMAIN v \in SUBSET (0 .. Word - 1)
  BY <1>1, <1>2
<1>4. IsFiniteSet(0 .. Word - 1)
  BY FS_Interval, Widths
<1>. QED BY <1>3, <1>4, FS_Subset, Widths

LEMMA MapOK ==
  ASSUME NEW f \in Maps, NEW v, Proper(f, v), NEW ks, ToSet(ks) = DOMAIN v
  PROVE  FieldOK(f, v, ks)
<1>. DEFINE o  == Ascending(DOMAIN v)
            z  == Cardinality(DOMAIN v)
            Body(k) == VarintField(1, k) \o ValueBytes(f, v[k])
            ss == [j \in DOMAIN o |-> LenDel(f, EntrySize(f, o[j], v[o[j]]), Body(o[j]))]
            s  == [j \in DOMAIN o |-> LenDelSize(f, EntrySize(f, o[j], v[o[j]]))]
<1>0. f \in Field /\ IsValue(f, v)
  BY DEF Proper
<1>1. DOMAIN v \in SUBSET (0 .. Word - 1) /\ DOMAIN v \in SUBSET Int /\ IsFiniteSet(DOMAIN v)
  BY <1>0, KeysAreFinite
<1>2. z \in Nat /\ DOMAIN o = 1 .. z /\ o \in Seq(DOMAIN v) /\ Len(o) = z
  BY <1>1, AscendingIs
<1>3. ASSUME NEW j \in 1 .. z
      PROVE  Fits(ss[j], s[j])
  <2>. DEFINE k == o[j]
              u == v[k]
  <2>. HIDE DEF o, z
  <2>1. k \in DOMAIN v
    BY <1>2
  <2>. HIDE DEF k
  <2>2. /\ k \in 0 .. Word - 1
        /\ f \in Names => u \in Short
        /\ f \notin Names => u \in 0 .. Word - 1
    BY <1>0, <1>1, <2>1, OneKind DEF IsValue, IsMap
  <2>. HIDE DEF u
  <2>3. /\ Fits(VarintField(1, k) \o ValueBytes(f, u), EntrySize(f, k, u))
        /\ EntrySize(f, k, u) \in 0 .. Word - 1
    BY <2>2, EntryFits
  <2>4. /\ Fits(LenDel(f, EntrySize(f, k, u), VarintField(1, k) \o ValueBytes(f, u)),
                LenDelSize(f, EntrySize(f, k, u)))
    BY <1>0, <2>3, LenDelFits
  <2>5. /\ ss[j] = LenDel(f, EntrySize(f, k, u), VarintField(1, k) \o ValueBytes(f, u))
        /\ s[j] = LenDelSize(f, EntrySize(f, k, u))
    BY <1>2 DEF k, u
  <2>. QED BY <2>4, <2>5
<1>4. FieldBytes(f, v, ks) = FlattenSeq(ss) /\ FieldSize(f, v) = Total(s)
  BY OneKind DEF FieldBytes, FieldSize, SumOver, Joined, KeyOrder
<1>5. ss = [j \in 1 .. z |-> ss[j]] /\ s = [j \in 1 .. z |-> s[j]]
  <2>. HIDE DEF o, z
  <2>. QED BY <1>2
<1>. HIDE DEF ss, s, z
<1>6. Fits(FlattenSeq(ss), Total(s))
  BY <1>2, <1>3, <1>5, PartsFit
<1>. QED BY <1>4, <1>6 DEF FieldOK

LEMMA TimeOK ==
  ASSUME NEW f \in Stamp \cup Span, NEW v, Proper(f, v), NEW ks
  PROVE  FieldOK(f, v, ks)
<1>1. CASE f \in Stamp
  <2>1. f \in Field /\ v.ns \in Int
    BY <1>1, OneKind DEF Proper, IsValue
  <2>2. Fits(EncodeTimestamp(v.ns), SizeTimestamp(v.ns)) /\ SizeTimestamp(v.ns) \in 0 .. Word - 1
    BY <2>1, TimesFit
  <2>3. Fits(LenDel(f, SizeTimestamp(v.ns), EncodeTimestamp(v.ns)),
             LenDelSize(f, SizeTimestamp(v.ns)))
    BY <2>1, <2>2, LenDelFits
  <2>4. /\ FieldBytes(f, v, ks) = LenDel(f, SizeTimestamp(v.ns), EncodeTimestamp(v.ns))
        /\ FieldSize(f, v) = LenDelSize(f, SizeTimestamp(v.ns))
    BY <1>1, OneKind DEF FieldBytes, FieldSize
  <2>. QED BY <2>3, <2>4 DEF FieldOK
<1>2. CASE f \in Span
  <2>1. f \in Field /\ v \in Int
    <3>1. f \in Field /\ v \in Signs
      BY <1>2, OneKind DEF Proper, IsValue
    <3>. QED BY <3>1 DEF Signs
  <2>2. Fits(EncodeDuration(v), SizeDuration(v)) /\ SizeDuration(v) \in 0 .. Word - 1
    BY <2>1, TimesFit
  <2>3. Fits(LenDel(f, SizeDuration(v), EncodeDuration(v)), LenDelSize(f, SizeDuration(v)))
    BY <2>1, <2>2, LenDelFits
  <2>4. /\ FieldBytes(f, v, ks) = LenDel(f, SizeDuration(v), EncodeDuration(v))
        /\ FieldSize(f, v) = LenDelSize(f, SizeDuration(v))
    BY <1>2, OneKind DEF FieldBytes, FieldSize
  <2>. QED BY <2>3, <2>4 DEF FieldOK
<1>. QED BY <1>1, <1>2

LEMMA MessageOK ==
  ASSUME NEW f \in Ptr \cup Inl, NEW v, Proper(f, v), NEW ks
  PROVE  FieldOK(f, v, ks)
<1>1. f \in Field /\ v \in Kids
  BY OneKind DEF Proper, IsValue
<1>2. Fits(LenDel(f, KidSize(v), KidBytes(v)), LenDelSize(f, KidSize(v)))
  BY <1>1, KidFits, LenDelFits
<1>3. /\ FieldBytes(f, v, ks) = LenDel(f, KidSize(v), KidBytes(v))
      /\ FieldSize(f, v) = LenDelSize(f, KidSize(v))
  BY OneKind DEF FieldBytes, FieldSize
<1>. QED BY <1>2, <1>3 DEF FieldOK

LEMMA ElementsOK ==
  ASSUME NEW f \in Elem, NEW v, Proper(f, v), NEW ks
  PROVE  FieldOK(f, v, ks)
<1>. DEFINE ss == [j \in DOMAIN v |->
                      IF v[j] = Nil THEN <<>> ELSE LenDel(f, KidSize(v[j]), KidBytes(v[j]))]
            s  == [j \in DOMAIN v |-> IF v[j] = Nil THEN 0 ELSE LenDelSize(f, KidSize(v[j]))]
            z  == Len(v)
<1>1. f \in Field /\ v \in Seq(Kids \cup {Nil})
  BY OneKind DEF Proper, IsValue
<1>2. z \in Nat /\ DOMAIN v = 1 .. z
  BY <1>1
<1>3. ASSUME NEW j \in 1 .. z
      PROVE  Fits(ss[j], s[j])
  <2>. DEFINE k == v[j]
  <2>1. k \in Kids \cup {Nil}
    BY <1>1
  <2>2. /\ ss[j] = IF k = Nil THEN <<>> ELSE LenDel(f, KidSize(k), KidBytes(k))
        /\ s[j] = IF k = Nil THEN 0 ELSE LenDelSize(f, KidSize(k))
    BY <1>2
  <2>. HIDE DEF k, ss, s
  <2>3. CASE k = Nil
    BY <2>2, <2>3, EmptyFits
  <2>4. CASE k # Nil
    <3>1. Fits(KidBytes(k), KidSize(k)) /\ KidSize(k) \in 0 .. Word - 1
      BY <2>1, <2>4, KidFits
    <3>2. Fits(LenDel(f, KidSize(k), KidBytes(k)), LenDelSize(f, KidSize(k)))
      BY <1>1, <3>1, LenDelFits
    <3>. QED BY <2>2, <2>4, <3>2
  <2>. QED BY <2>3, <2>4
<1>4. FieldBytes(f, v, ks) = FlattenSeq(ss) /\ FieldSize(f, v) = Total(s)
  BY OneKind DEF FieldBytes, FieldSize, SumOver, Joined
<1>5. ss = [j \in 1 .. z |-> ss[j]] /\ s = [j \in 1 .. z |-> s[j]]
  <2>1. DOMAIN ss = 1 .. z /\ DOMAIN s = 1 .. z
    BY <1>2
  <2>2. ss = [j \in DOMAIN ss |-> ss[j]] /\ s = [j \in DOMAIN s |-> s[j]]
    OBVIOUS
  <2>. HIDE DEF ss, s, z
  <2>. QED BY <2>1, <2>2, Zenon
<1>. HIDE DEF ss, s, z
<1>6. Fits(FlattenSeq(ss), Total(s))
  BY <1>2, <1>3, <1>5, PartsFit
<1>. QED BY <1>4, <1>6 DEF FieldOK

(* The size that SizeCodec counts for a field is the number of the bytes   *)
(* that MarshalCodecInternal writes for it, whatever the field holds and   *)
(* in whatever order range visits a map: what makes writes without bounds  *)
(* safe (gen_size.go and gen_marshal.go, which repeat each other).         *)
THEOREM PassesAgree ==
  ASSUME NEW f, NEW v, Proper(f, v), NEW ks, f \in Maps => ToSet(ks) = DOMAIN v
  PROVE  Fits(FieldBytes(f, v, ks), FieldSize(f, v))
<1>1. f \in Field
  BY DEF Proper
<1>2. FieldOK(f, v, ks)
  BY <1>1, TextOK, TextsOK, ScalarOK, PackedOK, MapOK, TimeOK, MessageOK, ElementsOK DEF Field
<1>. QED BY <1>2 DEF FieldOK

-----------------------------------------------------------------------------
(* What a pass goes through for a message m: its fields, what each counts, *)
(* and the bytes of each, for a range over maps in any order.              *)
Plan(m) ==
  Ascending(DOMAIN m.at \ Branch) \o (IF m.kind = None THEN <<>> ELSE <<m.kind>>)

Cost(m, f)  == IF f \in Branch \/ Sizes(f, m.at[f]) THEN FieldSize(f, m.at[f]) ELSE 0
AnyOrder(m, f) == [k \in DOMAIN m.at[f] |-> k]
Image(m, f) ==
  IF f \in Branch \/ Writes(f, m.at[f]) THEN FieldBytes(f, m.at[f], AnyOrder(m, f)) ELSE <<>>

LEMMA PlanIs == Order = Plan(msg) /\ \A f : SizeOf(f) = Cost(msg, f)
BY Zenon DEF Order, Plan, Declared, SizeOf, Cost, Value

LEMMA SameKeysSameBytes ==
  ASSUME NEW f \in Field, NEW v, NEW ks, NEW js, f \in Maps => ToSet(ks) = ToSet(js)
  PROVE  FieldBytes(f, v, ks) = FieldBytes(f, v, js)
<1>1. CASE f \in Maps
  <2>1. KeyOrder(f, ks) = KeyOrder(f, js)
    BY <1>1, Zenon DEF KeyOrder
  <2>. HIDE DEF KeyOrder
  <2>. QED BY <1>1, <2>1, OneKind DEF FieldBytes
<1>2. CASE f \in Text
  BY <1>2, OneKind DEF FieldBytes, Joined
<1>3. CASE f \in Digest
  BY <1>3, OneKind DEF FieldBytes, Joined
<1>4. CASE f \in Texts
  BY <1>4, OneKind DEF FieldBytes, Joined
<1>5. CASE f \in Num \cup Opt
  BY <1>5, OneKind DEF FieldBytes, Joined
<1>6. CASE f \in Packed
  BY <1>6, OneKind DEF FieldBytes, Joined
<1>7. CASE f \in Stamp \cup Span
  BY <1>7, OneKind DEF FieldBytes, Joined
<1>8. CASE f \in Ptr \cup Inl
  BY <1>8, OneKind DEF FieldBytes, Joined
<1>9. CASE f \in Elem
  BY <1>9, OneKind DEF FieldBytes, Joined
<1>. QED BY <1>1, <1>2, <1>3, <1>4, <1>5, <1>6, <1>7, <1>8, <1>9 DEF Field

LEMMA RangeVisitsAll ==
  ASSUME NEW f \in Maps, NEW v, IsValue(f, v), NEW ks \in SetToSeqs(DOMAIN v)
  PROVE  ToSet(ks) = DOMAIN v
<1>. DEFINE S == DOMAIN v
            c == Cardinality(S)
<1>1. IsFiniteSet(S)
  BY KeysAreFinite
<1>2. ks \in [1 .. c -> S] /\ \A i, j \in 1 .. c : i # j => ks[i] # ks[j]
  BY Zenon DEF SetToSeqs
<1>3. ks \in Injection(1 .. c, S)
  <2>. HIDE DEF c, S
  <2>. QED BY <1>2 DEF Injection, IsInjective
<1>4. c \in Nat
  BY <1>1, FS_CardinalityType
<1>5. IsFiniteSet(1 .. c) /\ Cardinality(1 .. c) = c
  <2>1. 1 \in Int /\ c \in Int /\ (IF 1 > c THEN 0 ELSE c - 1 + 1) = c
    BY <1>4
  <2>. HIDE DEF c
  <2>. QED BY <2>1, FS_Interval
<1>6. ks \in Surjection(1 .. c, S)
  <2>. HIDE DEF S
  <2>. QED BY <1>1, <1>3, <1>5, FS_Injection
<1>. HIDE DEF c, S
<1>7. ks \in [1 .. c -> S] /\ \A y \in S : \E x \in 1 .. c : ks[x] = y
  BY <1>6 DEF Surjection
<1>8. ToSet(ks) = S
  BY <1>7 DEF ToSet
<1>. QED BY <1>8 DEF S

(* Every field of the plan fits.                                           *)
LEMMA PlanFits ==
  ASSUME NEW m \in Messages \ {Nil}
  PROVE  /\ Plan(m) \in Seq(DOMAIN m.at)
         /\ Len(Plan(m)) \in 0 .. Cardinality(Field) + 1
         /\ Cardinality(Field) \in Nat
         /\ \A k \in 1 .. Len(Plan(m)) :
              /\ Plan(m)[k] \in Field /\ IsValue(Plan(m)[k], m.at[Plan(m)[k]])
              /\ Fits(Image(m, Plan(m)[k]), Cost(m, Plan(m)[k]))
<1>. DEFINE S == DOMAIN m.at \ Branch
            tail == IF m.kind = None THEN <<>> ELSE <<m.kind>>
<1>1. /\ DOMAIN m.at \subseteq Field /\ m.kind \in {None} \cup (Branch \cap DOMAIN m.at)
      /\ \A f \in DOMAIN m.at : IsValue(f, m.at[f])
      /\ m.kind \in Ptr => m.at[m.kind] # Nil
  BY MessagesAssumption DEF IsMessage
<1>2. ASSUME NEW f \in Packed \cap DOMAIN m.at
      PROVE  PackedPrefix(f, m.at[f]) < Word
  BY MessagesAssumption DEF PackedPrefix
<1>3. IsFiniteSet(Field) /\ Field \in SUBSET Int /\ Cardinality(Field) \in Nat
  BY EncoderAssumption, FS_CardinalityType
<1>4. S \in SUBSET Field
  BY <1>1
<1>5. /\ IsFiniteSet(S) /\ Cardinality(S) <= Cardinality(Field) /\ Cardinality(S) \in Nat
      /\ S \in SUBSET Int
  <2>. HIDE DEF S
  <2>. QED BY <1>3, <1>4, FS_Subset, FS_CardinalityType
<1>6. Ascending(S) \in Seq(S) /\ Len(Ascending(S)) = Cardinality(S)
  <2>. HIDE DEF S
  <2>. QED BY <1>5, AscendingIs
<1>7. Ascending(S) \in Seq(DOMAIN m.at)
  <2>. DEFINE q == Ascending(S)
  <2>1. q \in Seq(S) /\ S \subseteq DOMAIN m.at
    BY <1>6
  <2>. HIDE DEF q, S
  <2>2. q \in Seq(DOMAIN m.at)
    BY <2>1
  <2>. QED BY <2>2 DEF q
<1>8. tail \in Seq(DOMAIN m.at) /\ Len(tail) \in 0 .. 1
  <2>1. CASE m.kind = None
    BY <2>1
  <2>2. CASE m.kind # None
    <3>1. m.kind \in DOMAIN m.at
      BY <1>1, <2>2
    <3>2. tail = <<m.kind>>
      BY <2>2
    <3>3. ASSUME NEW T, NEW x \in T
          PROVE  <<x>> \in Seq(T) /\ Len(<<x>>) = 1
      OBVIOUS
    <3>. HIDE DEF tail
    <3>4. tail \in Seq(DOMAIN m.at) /\ Len(tail) = 1
      BY <3>1, <3>2, <3>3, Zenon
    <3>. QED BY <3>4
  <2>. QED BY <2>1, <2>2
<1>9. Plan(m) = Ascending(S) \o tail
  BY DEF Plan
<1>. DEFINE q == Ascending(S)
<1>10. /\ Plan(m) \in Seq(DOMAIN m.at)
       /\ Len(Plan(m)) = Len(q) + Len(tail)
       /\ \A k \in 1 .. Len(q) + Len(tail) :
            Plan(m)[k] = IF k <= Len(q) THEN q[k] ELSE tail[k - Len(q)]
  <2>. HIDE DEF q, tail
  <2>1. q \in Seq(DOMAIN m.at) /\ tail \in Seq(DOMAIN m.at) /\ Plan(m) = q \o tail
    BY <1>7, <1>8, <1>9 DEF q
  <2>. QED BY <2>1, ConcatProperties
<1>11. ASSUME NEW f \in S
       PROVE  Fits(Image(m, f), Cost(m, f))
  <2>1. f \in DOMAIN m.at /\ f \notin Branch /\ f \in Field /\ IsValue(f, m.at[f])
    BY <1>1
  <2>. DEFINE v == m.at[f]
              js == AnyOrder(m, f)
  <2>2. CASE Sizes(f, v)
    <3>1. v # ZeroOf(f) /\ Writes(f, v)
      BY <2>2, Zenon DEF Sizes, Writes
    <3>2. f \in Opt \cup Ptr => ZeroOf(f) = Nil
      BY OneKind DEF ZeroOf
    <3>3. Proper(f, v)
      BY <2>1, <3>1, <3>2, <1>2 DEF Proper
    <3>4. ToSet(js) = DOMAIN v
      BY DEF ToSet, AnyOrder
    <3>5. Fits(FieldBytes(f, v, js), FieldSize(f, v))
      BY <3>3, <3>4, PassesAgree
    <3>. QED BY <2>2, <3>1, <3>5, Zenon DEF Image, Cost
  <2>3. CASE ~Sizes(f, v)
    <3>1. ~Writes(f, v)
      BY <2>3, Zenon DEF Sizes, Writes
    <3>. QED BY <2>1, <2>3, <3>1, EmptyFits, Zenon DEF Image, Cost
  <2>. QED BY <2>2, <2>3
<1>12. ASSUME m.kind # None
       PROVE  Fits(Image(m, m.kind), Cost(m, m.kind))
  <2>. DEFINE f == m.kind
              v == m.at[f]
              js == AnyOrder(m, f)
  <2>1. f \in DOMAIN m.at /\ f \in Branch /\ f \in Field /\ IsValue(f, v) /\ (f \in Ptr => v # Nil)
    BY <1>1, <1>12
  <2>2. f \notin Opt
    BY <2>1, EncoderAssumption, OneKind
  <2>3. Proper(f, v)
    BY <2>1, <2>2, <1>2 DEF Proper
  <2>4. ToSet(js) = DOMAIN v
    BY DEF ToSet, AnyOrder
  <2>5. Fits(FieldBytes(f, v, js), FieldSize(f, v))
    BY <2>3, <2>4, PassesAgree
  <2>. QED BY <2>1, <2>5, Zenon DEF Image, Cost
<1>13. ASSUME NEW k \in 1 .. Len(Plan(m))
       PROVE  /\ Plan(m)[k] \in Field /\ IsValue(Plan(m)[k], m.at[Plan(m)[k]])
              /\ Fits(Image(m, Plan(m)[k]), Cost(m, Plan(m)[k]))
  <2>1. Plan(m)[k] \in DOMAIN m.at
    BY <1>10
  <2>2. Fits(Image(m, Plan(m)[k]), Cost(m, Plan(m)[k]))
    <3>1. CASE k <= Len(q)
      <4>1. q \in Seq(S)
        BY <1>6
      <4>. HIDE DEF q, tail, S
      <4>2. k \in 1 .. Len(q)
        BY <3>1, <4>1
      <4>3. q[k] \in S /\ Plan(m)[k] = q[k]
        BY <3>1, <4>1, <4>2, <1>10
      <4>. QED BY <4>3, <1>11
    <3>2. CASE ~(k <= Len(q))
      <4>1. Len(q) \in Nat /\ Len(tail) \in 0 .. 1
        BY <1>6, <1>5, <1>8
      <4>. HIDE DEF q
      <4>2. Len(tail) = 1 /\ k - Len(q) = 1
        BY <3>2, <4>1, <1>10
      <4>3. m.kind # None /\ tail[1] = m.kind
        BY <4>2
      <4>. HIDE DEF tail
      <4>4. Plan(m)[k] = m.kind
        BY <3>2, <4>2, <4>3, <1>10
      <4>. QED BY <4>3, <4>4, <1>12
    <3>. QED BY <3>1, <3>2
  <2>. QED BY <2>1, <2>2, <1>1
<1>14. Len(Plan(m)) \in 0 .. Cardinality(Field) + 1
  <2>. HIDE DEF S, tail
  <2>. QED BY <1>3, <1>5, <1>6, <1>8, <1>10
<1>. QED BY <1>3, <1>10, <1>13, <1>14

-----------------------------------------------------------------------------
(* What the first k fields of the plan for m take, and their bytes.        *)
SizeTo(m, k)  == Total([j \in 1 .. k |-> Cost(m, Plan(m)[j])])
BytesTo(m, k) == FlattenSeq([j \in 1 .. k |-> Image(m, Plan(m)[j])])

LEMMA PrefixFits ==
  ASSUME NEW m \in Messages \ {Nil}, NEW k \in 0 .. Len(Plan(m))
  PROVE  Fits(BytesTo(m, k), SizeTo(m, k)) /\ SizeTo(m, k) \in Nat
<1>. DEFINE ss == [j \in 1 .. k |-> Image(m, Plan(m)[j])]
            s  == [j \in 1 .. k |-> Cost(m, Plan(m)[j])]
<1>1. Len(Plan(m)) \in Nat /\ k \in Nat
  BY PlanFits
<1>2. ASSUME NEW j \in 1 .. k
      PROVE  Fits(ss[j], s[j])
  <2>1. j \in 1 .. Len(Plan(m))
    BY <1>1
  <2>2. Fits(Image(m, Plan(m)[j]), Cost(m, Plan(m)[j]))
    BY <2>1, PlanFits
  <2>. QED BY <2>2
<1>3. ss = [j \in 1 .. k |-> ss[j]] /\ s = [j \in 1 .. k |-> s[j]]
  OBVIOUS
<1>4. BytesTo(m, k) = FlattenSeq(ss) /\ SizeTo(m, k) = Total(s)
  BY Zenon DEF BytesTo, SizeTo
<1>. HIDE DEF ss, s
<1>5. Fits(FlattenSeq(ss), Total(s))
  BY <1>1, <1>2, <1>3, PartsFit
<1>. QED BY <1>4, <1>5 DEF Fits

LEMMA PrefixStart ==
  ASSUME NEW m
  PROVE  SizeTo(m, 0) = 0 /\ BytesTo(m, 0) = <<>>
<1>. DEFINE ss == [j \in 1 .. 0 |-> Image(m, Plan(m)[j])]
            s  == [j \in 1 .. 0 |-> Cost(m, Plan(m)[j])]
<1>1. ss \in Seq(Seq(Byte)) /\ Len(ss) = 0 /\ s \in Seq(Nat) /\ Len(s) = 0
  OBVIOUS
<1>2. BytesTo(m, 0) = FlattenSeq(ss) /\ SizeTo(m, 0) = Total(s)
  BY Zenon DEF BytesTo, SizeTo
<1>. HIDE DEF ss, s
<1>. QED BY <1>1, <1>2, TotalIsNat, FlattenIsSeq

LEMMA PrefixStep ==
  ASSUME NEW m \in Messages \ {Nil}, NEW k \in 1 .. Len(Plan(m))
  PROVE  /\ SizeTo(m, k) = SizeTo(m, k - 1) + Cost(m, Plan(m)[k])
         /\ BytesTo(m, k) = BytesTo(m, k - 1) \o Image(m, Plan(m)[k])
         /\ Fits(Image(m, Plan(m)[k]), Cost(m, Plan(m)[k])) /\ Cost(m, Plan(m)[k]) \in Nat
<1>. DEFINE i  == k - 1
            ss == [j \in 1 .. i |-> Image(m, Plan(m)[j])]
            tt == [j \in 1 .. k |-> Image(m, Plan(m)[j])]
            s  == [j \in 1 .. i |-> Cost(m, Plan(m)[j])]
            t  == [j \in 1 .. k |-> Cost(m, Plan(m)[j])]
<1>1. Len(Plan(m)) \in Nat /\ k \in Nat /\ i \in Nat /\ k = i + 1
  BY PlanFits
<1>. HIDE DEF i
<1>2. ASSUME NEW j \in 1 .. Len(Plan(m))
      PROVE  /\ Fits(Image(m, Plan(m)[j]), Cost(m, Plan(m)[j]))
             /\ Image(m, Plan(m)[j]) \in Seq(Byte) /\ Cost(m, Plan(m)[j]) \in Nat
  <2>1. Fits(Image(m, Plan(m)[j]), Cost(m, Plan(m)[j]))
    BY PlanFits
  <2>. QED BY <2>1 DEF Fits
<1>3. \A j \in 1 .. k : j \in 1 .. Len(Plan(m))
  BY <1>1
<1>4. ss \in Seq(Seq(Byte)) /\ Len(ss) = i /\ s \in Seq(Nat) /\ Len(s) = i
  <2>1. \A j \in 1 .. i : Image(m, Plan(m)[j]) \in Seq(Byte) /\ Cost(m, Plan(m)[j]) \in Nat
    BY <1>1, <1>2, <1>3
  <2>. QED BY <1>1, <2>1
<1>5. tt \in Seq(Seq(Byte)) /\ Len(tt) = k /\ t \in Seq(Nat) /\ Len(t) = k
  <2>1. \A j \in 1 .. k : Image(m, Plan(m)[j]) \in Seq(Byte) /\ Cost(m, Plan(m)[j]) \in Nat
    BY <1>2, <1>3
  <2>. QED BY <1>1, <2>1
<1>6. (\A j \in 1 .. i : tt[j] = ss[j]) /\ (\A j \in 1 .. i : t[j] = s[j])
  BY <1>1
<1>7. tt[k] = Image(m, Plan(m)[k]) /\ t[k] = Cost(m, Plan(m)[k])
  BY <1>1
<1>8. /\ BytesTo(m, i) = FlattenSeq(ss) /\ SizeTo(m, i) = Total(s)
      /\ BytesTo(m, k) = FlattenSeq(tt) /\ SizeTo(m, k) = Total(t)
  BY Zenon DEF BytesTo, SizeTo
<1>. HIDE DEF ss, tt, s, t
<1>9. FlattenSeq(tt) = FlattenSeq(ss) \o tt[k]
  BY <1>1, <1>4, <1>5, <1>6, FlattenOfMore
<1>10. Total(t) = Total(s) + t[k]
  BY <1>1, <1>4, <1>5, <1>6, TotalOfMore
<1>11. SizeTo(m, k) = SizeTo(m, i) + Cost(m, Plan(m)[k])
  BY <1>7, <1>8, <1>10
<1>12. BytesTo(m, k) = BytesTo(m, i) \o Image(m, Plan(m)[k])
  BY <1>7, <1>8, <1>9, Zenon
<1>. QED BY <1>2, <1>11, <1>12 DEF i

LEMMA PrefixGrows ==
  ASSUME NEW m \in Messages \ {Nil}, NEW k \in 0 .. Len(Plan(m))
  PROVE  SizeTo(m, k) <= SizeTo(m, Len(Plan(m)))
<1>. DEFINE z == Len(Plan(m))
            S == {b \in 0 .. z : \A a \in 0 .. b : SizeTo(m, a) <= SizeTo(m, b)}
<1>1. z \in Nat /\ \A a \in 0 .. z : SizeTo(m, a) \in Nat
  BY PlanFits, PrefixFits
<1>2. \A a \in 1 .. z : SizeTo(m, a) >= SizeTo(m, a - 1)
  <2>1. ASSUME NEW a \in 1 .. z
        PROVE  SizeTo(m, a) >= SizeTo(m, a - 1)
    <3>1. SizeTo(m, a) = SizeTo(m, a - 1) + Cost(m, Plan(m)[a]) /\ Cost(m, Plan(m)[a]) \in Nat
      BY PrefixStep
    <3>2. SizeTo(m, a - 1) \in Nat
      BY <1>1
    <3>. QED BY <3>1, <3>2
  <2>. QED BY <2>1
<1>. HIDE DEF z
<1>3. 0 \in S
  BY <1>1
<1>4. ASSUME NEW b \in 0 .. z - 1, b \in S
      PROVE  b + 1 \in S
  <2>1. b + 1 \in 0 .. z /\ b + 1 \in 1 .. z /\ (b + 1) - 1 = b /\ b \in 0 .. z
    BY <1>1
  <2>2. SizeTo(m, b + 1) >= SizeTo(m, b) /\ SizeTo(m, b) \in Nat /\ SizeTo(m, b + 1) \in Nat
    BY <1>1, <1>2, <2>1
  <2>3. ASSUME NEW a \in 0 .. b + 1
        PROVE  SizeTo(m, a) <= SizeTo(m, b + 1)
    <3>1. CASE a = b + 1
      BY <3>1, <2>2
    <3>2. CASE a # b + 1
      <4>1. a \in 0 .. b /\ a \in 0 .. z
        BY <3>2, <1>1
      <4>2. SizeTo(m, a) <= SizeTo(m, b) /\ SizeTo(m, a) \in Nat
        BY <4>1, <1>1, <1>4
      <4>. QED BY <2>2, <4>2
    <3>. QED BY <3>1, <3>2
  <2>. QED BY <2>1, <2>3
<1>5. 0 .. z \subseteq S
  <2>. HIDE DEF S
  <2>. QED BY <1>1, <1>3, <1>4, UpwardInduction
<1>. QED BY <1>1, <1>5 DEF z

-----------------------------------------------------------------------------
(* The inductive invariant: how far each call has come.                    *)
Fields == Len(Plan(msg))

CallOK(p) ==
  /\ pc[p] \in {"idle", "size", "write", "done", "short"}
  /\ n[p] \in 0 .. Len(buf[p])
  /\ \A j \in n[p] + 1 .. Len(buf[p]) : buf[p][j] = Unwritten
  /\ pc[p] \in {"idle", "size", "short"} => n[p] = 0
  /\ pc[p] = "idle" => at[p] = 1 /\ size[p] = 0
  /\ pc[p] \in {"size", "write"} => msg # Nil /\ at[p] \in 1 .. Fields + 1
  /\ pc[p] = "size" => size[p] = SizeTo(msg, at[p] - 1)
  /\ pc[p] = "write" =>
       /\ size[p] = SizeTo(msg, Fields) /\ size[p] <= Len(buf[p])
       /\ n[p] = SizeTo(msg, at[p] - 1)
       /\ \A j \in 1 .. n[p] : buf[p][j] = BytesTo(msg, at[p] - 1)[j]
  /\ pc[p] = "done" => n[p] = size[p]
  /\ pc[p] = "done" /\ msg = Nil => n[p] = 0
  /\ pc[p] = "done" /\ msg # Nil =>
       /\ n[p] = SizeTo(msg, Fields)
       /\ \A j \in 1 .. n[p] : buf[p][j] = BytesTo(msg, Fields)[j]

Inv ==
  /\ msg  \in Messages
  /\ pc   \in [Callers -> {"idle", "size", "write", "done", "short", "overrun"}]
  /\ at   \in [Callers -> 1 .. Cardinality(Field) + 2]
  /\ size \in [Callers -> Nat]
  /\ own  \in [Callers -> BOOLEAN]
  /\ buf  \in [Callers -> Seq(Byte \cup {Unwritten})]
  /\ n    \in [Callers -> Nat]
  /\ \A p \in Callers : CallOK(p)

LEMMA InvAtInit == Init => Inv
<1>. SUFFICES ASSUME Init PROVE Inv
  OBVIOUS
<1>1. 1 \in 1 .. Cardinality(Field) + 2
  <2>1. Cardinality(Field) \in Nat
    BY EncoderAssumption, FS_CardinalityType
  <2>. QED BY <2>1
<1>2. ASSUME NEW p \in Callers
      PROVE  CallOK(p)
  BY DEF Init, CallOK
<1>. QED BY <1>1, <1>2 DEF Init, Inv

(* A call is untouched by the steps of the others.                         *)
Untouched(p) ==
  msg' = msg /\ pc'[p] = pc[p] /\ at'[p] = at[p] /\ size'[p] = size[p]
  /\ buf'[p] = buf[p] /\ n'[p] = n[p]

LEMMA OthersOK ==
  ASSUME NEW p, Untouched(p), CallOK(p)
  PROVE  CallOK(p)'
BY DEF Untouched, CallOK, Fields

LEMMA AssignKeeps == Inv /\ Assign => Inv'
<1>. SUFFICES ASSUME Inv, Assign PROVE Inv'
  OBVIOUS
<1>1. 1 \in 1 .. Cardinality(Field) + 2
  <2>1. Cardinality(Field) \in Nat
    BY EncoderAssumption, FS_CardinalityType
  <2>. QED BY <2>1
<1>2. ASSUME NEW p \in Callers
      PROVE  CallOK(p)'
  BY DEF Assign, CallOK
<1>. QED BY <1>1, <1>2 DEF Assign, Inv

LEMMA EmptyIs ==
  ASSUME NEW k \in Nat
  PROVE  /\ Empty(k) \in Seq(Byte \cup {Unwritten}) /\ Len(Empty(k)) = k
         /\ \A j \in 1 .. k : Empty(k)[j] = Unwritten
BY DEF Empty

LEMMA EnterKeeps ==
  ASSUME Inv, NEW p \in Callers, NEW mine \in BOOLEAN, NEW given \in Seq(Byte \cup {Unwritten}),
         \A j \in 1 .. Len(given) : given[j] = Unwritten, Enter(p, mine, given)
  PROVE  Inv'
<1>1. msg' = msg /\ at' = at /\ size' = size /\ n' = n /\ pc[p] = "idle"
  BY DEF Enter
<1>2. CallOK(p) /\ at[p] = 1 /\ size[p] = 0 /\ n[p] = 0
  BY <1>1 DEF Inv, CallOK
<1>3. /\ pc' = [pc EXCEPT ![p] = IF msg = Nil THEN "done" ELSE "size"]
      /\ own' = [own EXCEPT ![p] = mine] /\ buf' = [buf EXCEPT ![p] = given]
  BY DEF Enter
<1>4. /\ pc' \in [Callers -> {"idle", "size", "write", "done", "short", "overrun"}]
      /\ own' \in [Callers -> BOOLEAN] /\ buf' \in [Callers -> Seq(Byte \cup {Unwritten})]
      /\ pc'[p] = (IF msg = Nil THEN "done" ELSE "size") /\ buf'[p] = given
  BY <1>3 DEF Inv
<1>5. CallOK(p)'
  <2>1. Len(given) \in Nat
    OBVIOUS
  <2>2. CASE msg = Nil
    <3>1. pc'[p] = "done"
      BY <2>2, <1>4
    <3>. QED BY <2>1, <2>2, <3>1, <1>1, <1>2, <1>4 DEF CallOK
  <2>3. CASE msg # Nil
    <3>1. pc'[p] = "size"
      BY <2>3, <1>4
    <3>2. Len(Plan(msg)) \in Nat /\ SizeTo(msg, 0) = 0
      BY <2>3, PlanFits, PrefixStart DEF Inv
    <3>3. msg' # Nil /\ at'[p] = 1 /\ 1 - 1 = 0 /\ at'[p] \in 1 .. Fields' + 1
      BY <2>3, <3>2, <1>1, <1>2 DEF Fields
    <3>4. size'[p] = SizeTo(msg', at'[p] - 1)
      BY <3>2, <3>3, <1>1, <1>2
    <3>. QED BY <2>1, <3>1, <3>3, <3>4, <1>1, <1>2, <1>4 DEF CallOK
  <2>. QED BY <2>2, <2>3
<1>6. ASSUME NEW q \in Callers, q # p
      PROVE  CallOK(q)'
  <2>1. Untouched(q)
    BY <1>1, <1>3, <1>6 DEF Inv, Untouched
  <2>. QED BY <2>1, OthersOK DEF Inv
<1>. QED BY <1>1, <1>4, <1>5, <1>6 DEF Inv

LEMMA SizeFieldKeeps ==
  ASSUME Inv, NEW p \in Callers, SizeField(p)
  PROVE  Inv'
<1>1. /\ msg' = msg /\ pc' = pc /\ own' = own /\ buf' = buf /\ n' = n
      /\ pc[p] = "size" /\ at[p] <= Len(Order)
      /\ size' = [size EXCEPT ![p] = @ + SizeOf(Order[at[p]])]
      /\ at' = [at EXCEPT ![p] = @ + 1]
  BY DEF SizeField
<1>2. CallOK(p) /\ msg \in Messages \ {Nil}
  BY <1>1 DEF Inv, CallOK
<1>. DEFINE k == at[p]
            z == Len(Plan(msg))
<1>3. z \in 0 .. Cardinality(Field) + 1 /\ Cardinality(Field) \in Nat
  BY <1>2, PlanFits
<1>4. k \in 1 .. z /\ n[p] = 0 /\ size[p] = SizeTo(msg, k - 1)
  BY <1>1, <1>2, <1>3, PlanIs DEF CallOK, Fields
<1>5. /\ SizeTo(msg, k) = SizeTo(msg, k - 1) + Cost(msg, Plan(msg)[k])
      /\ Cost(msg, Plan(msg)[k]) \in Nat
  BY <1>2, <1>4, PrefixStep
<1>6. SizeTo(msg, k) \in Nat
  <2>1. k \in 0 .. z
    BY <1>3, <1>4
  <2>. QED BY <1>2, <2>1, PrefixFits
<1>7. SizeOf(Order[k]) = Cost(msg, Plan(msg)[k])
  BY PlanIs, Zenon
<1>. HIDE DEF k, z
<1>8. size'[p] = SizeTo(msg, k) /\ at'[p] = k + 1
  BY <1>1, <1>4, <1>5, <1>7 DEF Inv, k
<1>9. size' \in [Callers -> Nat]
  <2>1. size[p] + SizeOf(Order[k]) \in Nat
    BY <1>4, <1>5, <1>6, <1>7
  <2>. QED BY <1>1, <2>1 DEF Inv, k
<1>10. at' \in [Callers -> 1 .. Cardinality(Field) + 2]
  <2>1. k + 1 \in 1 .. Cardinality(Field) + 2
    BY <1>3, <1>4
  <2>. QED BY <1>1, <2>1 DEF Inv, k
<1>11. CallOK(p)'
  <2>1. at'[p] - 1 = k /\ at'[p] \in 1 .. z + 1
    BY <1>3, <1>4, <1>8
  <2>2. Fields' = z
    BY <1>1 DEF Fields, z
  <2>3. size'[p] = SizeTo(msg', at'[p] - 1)
    BY <1>1, <1>8, <2>1
  <2>4. msg' # Nil /\ pc'[p] = "size" /\ n'[p] = 0
    BY <1>1, <1>2, <1>4
  <2>. QED BY <2>1, <2>2, <2>3, <2>4, <1>1, <1>2 DEF CallOK
<1>12. ASSUME NEW q \in Callers, q # p
       PROVE  CallOK(q)'
  <2>1. Untouched(q)
    BY <1>1, <1>12 DEF Inv, Untouched
  <2>. QED BY <2>1, OthersOK DEF Inv
<1>. QED BY <1>1, <1>9, <1>10, <1>11, <1>12 DEF Inv

LEMMA SizedKeeps ==
  ASSUME Inv, NEW p \in Callers, Sized(p)
  PROVE  Inv'
<1>1. /\ msg' = msg /\ size' = size /\ own' = own /\ n' = n
      /\ pc[p] = "size" /\ at[p] > Len(Order)
      /\ at' = [at EXCEPT ![p] = 1]
  BY DEF Sized
<1>2. CallOK(p) /\ msg \in Messages \ {Nil}
  BY <1>1 DEF Inv, CallOK
<1>. DEFINE z == Len(Plan(msg))
<1>3. z \in 0 .. Cardinality(Field) + 1 /\ Cardinality(Field) \in Nat
  BY <1>2, PlanFits
<1>4. at[p] = z + 1 /\ n[p] = 0 /\ size[p] = SizeTo(msg, at[p] - 1) /\ z = (z + 1) - 1
  BY <1>1, <1>2, <1>3, PlanIs DEF CallOK, Fields
<1>5. size[p] = SizeTo(msg, z) /\ size[p] \in Nat
  BY <1>4 DEF Inv
<1>6. SizeTo(msg, 0) = 0
  BY PrefixStart
<1>. HIDE DEF z
<1>7. at' \in [Callers -> 1 .. Cardinality(Field) + 2] /\ at'[p] = 1 /\ 1 - 1 = 0
  BY <1>1, <1>3 DEF Inv
<1>8. Fields' = z /\ msg' # Nil /\ 1 \in 1 .. z + 1 /\ n'[p] = 0 /\ size'[p] = SizeTo(msg', z)
  BY <1>1, <1>2, <1>3, <1>4, <1>5 DEF Fields, z
<1>9. \A j \in 1 .. Len(buf[p]) : buf[p][j] = Unwritten
  BY <1>2, <1>4 DEF CallOK
<1>10. Len(buf[p]) \in Nat
  BY DEF Inv
<1>11. /\ pc' \in [Callers -> {"idle", "size", "write", "done", "short", "overrun"}]
       /\ buf' \in [Callers -> Seq(Byte \cup {Unwritten})]
       /\ \A q \in Callers \ {p} : pc'[q] = pc[q] /\ buf'[q] = buf[q]
       /\ CallOK(p)'
  <2>1. CASE own[p]
    <3>1. buf' = buf /\ pc' = [pc EXCEPT ![p] = IF Accepts(p) THEN "write" ELSE "short"]
      BY <2>1 DEF Sized
    <3>2. CASE Accepts(p)
      <4>1. pc' = [pc EXCEPT ![p] = "write"]
        BY <3>1, <3>2
      <4>2. pc'[p] = "write" /\ size[p] <= Len(buf[p])
        BY <4>1, <3>2, <1>5, <1>10 DEF Inv, Accepts
      <4>3. CallOK(p)'
        BY <4>2, <3>1, <1>1, <1>6, <1>7, <1>8, <1>9, <1>10 DEF CallOK
      <4>. QED BY <3>1, <4>1, <4>3 DEF Inv
    <3>3. CASE ~Accepts(p)
      <4>1. pc' = [pc EXCEPT ![p] = "short"]
        BY <3>1, <3>3
      <4>2. pc'[p] = "short"
        BY <4>1 DEF Inv
      <4>3. CallOK(p)'
        BY <4>2, <3>1, <1>1, <1>6, <1>7, <1>8, <1>9, <1>10 DEF CallOK
      <4>. QED BY <3>1, <4>1, <4>3 DEF Inv
    <3>. QED BY <3>2, <3>3
  <2>2. CASE ~own[p]
    <3>1. /\ pc' = [pc EXCEPT ![p] = IF size[p] = 0 THEN "done" ELSE "write"]
          /\ buf' = [buf EXCEPT ![p] = Empty(size[p])]
      BY <2>2 DEF Sized
    <3>2. /\ Empty(size[p]) \in Seq(Byte \cup {Unwritten}) /\ Len(Empty(size[p])) = size[p]
          /\ \A j \in 1 .. size[p] : Empty(size[p])[j] = Unwritten
      BY <1>5, EmptyIs
    <3>3. buf'[p] = Empty(size[p]) /\ buf' \in [Callers -> Seq(Byte \cup {Unwritten})]
      BY <3>1, <3>2 DEF Inv
    <3>4. CASE size[p] = 0
      <4>1. pc' = [pc EXCEPT ![p] = "done"]
        BY <3>1, <3>4
      <4>2. pc'[p] = "done"
        BY <4>1 DEF Inv
      <4>3. CallOK(p)'
        BY <4>2, <3>2, <3>3, <3>4, <1>1, <1>5, <1>8 DEF CallOK
      <4>. QED BY <3>1, <3>3, <4>1, <4>3 DEF Inv
    <3>5. CASE size[p] # 0
      <4>1. pc' = [pc EXCEPT ![p] = "write"]
        BY <3>1, <3>5
      <4>2. pc'[p] = "write"
        BY <4>1 DEF Inv
      <4>3. CallOK(p)'
        BY <4>2, <3>2, <3>3, <1>1, <1>5, <1>6, <1>7, <1>8 DEF CallOK
      <4>. QED BY <3>1, <3>3, <4>1, <4>3 DEF Inv
    <3>. QED BY <3>4, <3>5
  <2>. QED BY <2>1, <2>2
<1>12. ASSUME NEW q \in Callers, q # p
       PROVE  CallOK(q)'
  <2>1. at'[q] = at[q]
    BY <1>1, <1>12 DEF Inv
  <2>2. Untouched(q)
    BY <1>1, <1>11, <1>12, <2>1 DEF Untouched
  <2>. QED BY <2>2, OthersOK DEF Inv
<1>. QED BY <1>1, <1>7, <1>11, <1>12 DEF Inv

(* Writing a part behind what is written.                                  *)
LEMMA PutIs ==
  ASSUME NEW b \in Seq(Byte \cup {Unwritten}), NEW o \in Nat, NEW e \in Seq(Byte),
         o + Len(e) <= Len(b), NEW w \in Seq(Byte), Len(w) = o,
         \A j \in 1 .. o : b[j] = w[j],
         \A j \in o + 1 .. Len(b) : b[j] = Unwritten
  PROVE  /\ Put(b, o, e) \in Seq(Byte \cup {Unwritten}) /\ Len(Put(b, o, e)) = Len(b)
         /\ \A j \in 1 .. o + Len(e) : Put(b, o, e)[j] = (w \o e)[j]
         /\ \A j \in o + Len(e) + 1 .. Len(b) : Put(b, o, e)[j] = Unwritten
<1>. DEFINE c == Put(b, o, e)
            z == Len(b)
            y == Len(e)
<1>1. z \in Nat /\ y \in Nat /\ DOMAIN b = 1 .. z /\ DOMAIN e = 1 .. y /\ o + y <= z
  OBVIOUS
<1>. HIDE DEF z, y
<1>2. c = [j \in 1 .. z |-> IF j - o \in 1 .. y THEN e[j - o] ELSE b[j]]
  BY <1>1 DEF Put
<1>3. \A j \in 1 .. y : e[j] \in Byte
  BY DEF y
<1>4. \A j \in 1 .. z : b[j] \in Byte \cup {Unwritten}
  BY DEF z
<1>. HIDE DEF c
<1>5. \A j \in 1 .. z : c[j] = IF j - o \in 1 .. y THEN e[j - o] ELSE b[j]
  BY <1>2
<1>6. c \in Seq(Byte \cup {Unwritten}) /\ Len(c) = z
  <2>1. \A j \in 1 .. z : c[j] \in Byte \cup {Unwritten}
    BY <1>3, <1>4, <1>5
  <2>2. c = [j \in 1 .. z |-> c[j]]
    BY <1>2
  <2>. QED BY <1>1, <2>1, <2>2
<1>7. ASSUME NEW j \in 1 .. o + y
      PROVE  c[j] = (w \o e)[j]
  <2>1. (w \o e)[j] = IF j <= o THEN w[j] ELSE e[j - o]
    BY ConcatProperties, <1>1 DEF y
  <2>2. j \in 1 .. z
    BY <1>1
  <2>3. CASE j <= o
    <3>1. j - o \notin 1 .. y /\ j \in 1 .. o
      BY <2>3
    <3>. QED BY <1>5, <2>1, <2>2, <2>3, <3>1
  <2>4. CASE ~(j <= o)
    <3>1. j - o \in 1 .. y
      BY <2>4, <1>1
    <3>. QED BY <1>5, <2>1, <2>2, <2>4, <3>1
  <2>. QED BY <2>3, <2>4
<1>8. ASSUME NEW j \in o + y + 1 .. z
      PROVE  c[j] = Unwritten
  <2>1. j \in 1 .. z /\ j - o \notin 1 .. y /\ j \in o + 1 .. z
    BY <1>1
  <2>. QED BY <1>5, <2>1 DEF z
<1>. QED BY <1>6, <1>7, <1>8 DEF c, y, z

LEMMA WriteFieldKeeps ==
  ASSUME Inv, NEW p \in Callers, WriteField(p)
  PROVE  Inv'
<1>1. /\ msg' = msg /\ size' = size /\ own' = own
      /\ pc[p] = "write" /\ at[p] <= Len(Order)
  BY DEF WriteField
<1>2. CallOK(p) /\ msg \in Messages \ {Nil}
  BY <1>1 DEF Inv, CallOK
<1>. DEFINE k == at[p]
            z == Len(Plan(msg))
            f == Plan(msg)[k]
            e == Image(msg, f)
            w == BytesTo(msg, k - 1)
            b == buf[p]
            o == n[p]
<1>3. z \in 0 .. Cardinality(Field) + 1 /\ Cardinality(Field) \in Nat
  BY <1>2, PlanFits
<1>4. /\ k \in 1 .. z /\ size[p] = SizeTo(msg, z) /\ size[p] <= Len(b)
      /\ o = SizeTo(msg, k - 1) /\ \A j \in 1 .. o : b[j] = w[j]
      /\ \A j \in o + 1 .. Len(b) : b[j] = Unwritten
  BY <1>1, <1>2, <1>3, PlanIs DEF CallOK, Fields
<1>5. b \in Seq(Byte \cup {Unwritten}) /\ Len(b) \in Nat /\ o \in Nat
  BY DEF Inv
<1>6. /\ SizeTo(msg, k) = SizeTo(msg, k - 1) + Cost(msg, f)
      /\ BytesTo(msg, k) = w \o e
      /\ e \in Seq(Byte) /\ Len(e) = Cost(msg, f) /\ Len(e) \in Nat
  BY <1>2, <1>4, PrefixStep DEF Fits
<1>7. w \in Seq(Byte) /\ Len(w) = o
  <2>1. k - 1 \in 0 .. z
    BY <1>3, <1>4
  <2>2. Fits(BytesTo(msg, k - 1), SizeTo(msg, k - 1))
    BY <1>2, <2>1, PrefixFits
  <2>. QED BY <1>4, <2>2 DEF Fits
<1>8. o + Len(e) = SizeTo(msg, k) /\ o + Len(e) <= Len(b)
  <2>1. k \in 0 .. z
    BY <1>3, <1>4
  <2>2. SizeTo(msg, k) <= SizeTo(msg, z) /\ SizeTo(msg, k) \in Nat
    BY <1>2, <2>1, PrefixGrows, PrefixFits
  <2>. HIDE DEF k, z, f, e, w, b, o
  <2>3. size[p] \in Nat
    BY DEF Inv
  <2>. QED BY <1>4, <1>5, <1>6, <2>2, <2>3
<1>9. ASSUME NEW ks \in Ranges(f)
      PROVE  BytesOf(f, ks) = e
  <2>1. f \in Field /\ IsValue(f, msg.at[f])
    BY <1>2, <1>4, PlanFits
  <2>2. f \in Maps => ToSet(ks) = ToSet(AnyOrder(msg, f))
    <3>1. SUFFICES ASSUME f \in Maps PROVE ToSet(ks) = ToSet(AnyOrder(msg, f))
      OBVIOUS
    <3>. HIDE DEF f
    <3>2. ks \in SetToSeqs(DOMAIN msg.at[f])
      BY <3>1, Zenon DEF Ranges, Value
    <3>3. ToSet(ks) = DOMAIN msg.at[f]
      BY <2>1, <3>1, <3>2, RangeVisitsAll
    <3>4. ToSet(AnyOrder(msg, f)) = DOMAIN msg.at[f]
      BY DEF AnyOrder, ToSet
    <3>. QED BY <3>3, <3>4
  <2>. HIDE DEF f
  <2>3. FieldBytes(f, msg.at[f], ks) = FieldBytes(f, msg.at[f], AnyOrder(msg, f))
    BY <2>1, <2>2, SameKeysSameBytes
  <2>. QED BY <2>3, Zenon DEF BytesOf, Value, Image
<1>10. Order[k] = f
  BY PlanIs, Zenon
<1>11. PICK ks \in Ranges(f) :
         LET bytes == BytesOf(f, ks)
         IN  IF o + Len(bytes) > Len(b)
             THEN pc' = [pc EXCEPT ![p] = "overrun"] /\ UNCHANGED <<at, buf, n>>
             ELSE /\ buf' = [buf EXCEPT ![p] = Put(@, o, bytes)]
                  /\ n'   = [n EXCEPT ![p] = @ + Len(bytes)]
                  /\ at'  = [at EXCEPT ![p] = @ + 1]
                  /\ UNCHANGED pc
  BY <1>10, Zenon DEF WriteField
<1>12. BytesOf(f, ks) = e
  BY <1>9
<1>13. ~(o + Len(e) > Len(b))
  BY <1>5, <1>6, <1>8
<1>14. /\ buf' = [buf EXCEPT ![p] = Put(buf[p], o, e)]
       /\ n'   = [n EXCEPT ![p] = n[p] + Len(e)]
       /\ at'  = [at EXCEPT ![p] = at[p] + 1]
       /\ pc' = pc
  <2>. HIDE DEF e, f, o, b
  <2>. QED BY <1>11, <1>12, <1>13
<1>15. /\ Put(b, o, e) \in Seq(Byte \cup {Unwritten}) /\ Len(Put(b, o, e)) = Len(b)
       /\ \A j \in 1 .. o + Len(e) : Put(b, o, e)[j] = (w \o e)[j]
       /\ \A j \in o + Len(e) + 1 .. Len(b) : Put(b, o, e)[j] = Unwritten
  <2>. HIDE DEF e, w, b, o, z, f, k
  <2>1. /\ b \in Seq(Byte \cup {Unwritten}) /\ o \in Nat /\ e \in Seq(Byte)
        /\ o + Len(e) <= Len(b) /\ w \in Seq(Byte) /\ Len(w) = o
    BY <1>5, <1>6, <1>7, <1>8
  <2>2. \A j \in 1 .. o : b[j] = w[j]
    BY <1>4
  <2>3. \A j \in o + 1 .. Len(b) : b[j] = Unwritten
    BY <1>4
  <2>. QED BY <2>1, <2>2, <2>3, PutIs
<1>16. /\ buf'[p] = Put(b, o, e) /\ buf' \in [Callers -> Seq(Byte \cup {Unwritten})]
       /\ n'[p] = o + Len(e) /\ n' \in [Callers -> Nat]
  <2>. HIDE DEF e, w
  <2>. QED BY <1>5, <1>6, <1>14, <1>15 DEF Inv
<1>17. at'[p] = k + 1 /\ at' \in [Callers -> 1 .. Cardinality(Field) + 2]
  <2>1. k + 1 \in 1 .. Cardinality(Field) + 2
    BY <1>3, <1>4
  <2>. QED BY <1>14, <2>1 DEF Inv
<1>. HIDE DEF z, f, e, w, b, o
<1>18. k \in 1 .. z /\ z \in Nat /\ k \in Int
  BY <1>3, <1>4
<1>. HIDE DEF k
<1>19. CallOK(p)'
  <2>1. at'[p] - 1 = k /\ at'[p] \in 1 .. z + 1
    BY <1>17, <1>18
  <2>2. Fields' = z
    BY <1>1 DEF Fields, z
  <2>3. /\ size'[p] = SizeTo(msg', z) /\ size'[p] <= Len(buf'[p])
        /\ n'[p] = SizeTo(msg', at'[p] - 1)
    BY <1>1, <1>4, <1>8, <1>15, <1>16, <2>1
  <2>4. \A j \in 1 .. n'[p] : buf'[p][j] = BytesTo(msg', at'[p] - 1)[j]
    BY <1>1, <1>6, <1>15, <1>16, <2>1
  <2>5. /\ n'[p] \in 0 .. Len(buf'[p])
        /\ \A j \in n'[p] + 1 .. Len(buf'[p]) : buf'[p][j] = Unwritten
    BY <1>5, <1>6, <1>8, <1>15, <1>16
  <2>6. msg' # Nil /\ pc'[p] = "write"
    BY <1>1, <1>2, <1>14
  <2>. QED BY <2>1, <2>2, <2>3, <2>4, <2>5, <2>6 DEF CallOK
<1>20. ASSUME NEW q \in Callers, q # p
       PROVE  CallOK(q)'
  <2>1. Untouched(q)
    BY <1>1, <1>14, <1>20 DEF Inv, Untouched
  <2>. QED BY <2>1, OthersOK DEF Inv
<1>. QED BY <1>1, <1>14, <1>16, <1>17, <1>19, <1>20 DEF Inv

LEMMA WrittenKeeps ==
  ASSUME Inv, NEW p \in Callers, Written(p)
  PROVE  Inv'
<1>1. /\ msg' = msg /\ at' = at /\ size' = size /\ own' = own /\ buf' = buf /\ n' = n
      /\ pc[p] = "write" /\ at[p] > Len(Order) /\ pc' = [pc EXCEPT ![p] = "done"]
  BY DEF Written
<1>2. CallOK(p) /\ msg \in Messages \ {Nil}
  BY <1>1 DEF Inv, CallOK
<1>3. /\ Len(Plan(msg)) \in Nat /\ at[p] = Len(Plan(msg)) + 1
      /\ at[p] - 1 = Len(Plan(msg))
  BY <1>1, <1>2, PlanFits, PlanIs DEF CallOK, Fields
<1>4. /\ pc' \in [Callers -> {"idle", "size", "write", "done", "short", "overrun"}]
      /\ pc'[p] = "done"
  BY <1>1 DEF Inv
<1>5. Fields' = Len(Plan(msg)) /\ Fields = Len(Plan(msg))
  BY <1>1 DEF Fields
<1>6. /\ n[p] \in 0 .. Len(buf[p]) /\ \A j \in n[p] + 1 .. Len(buf[p]) : buf[p][j] = Unwritten
      /\ size[p] = SizeTo(msg, Len(Plan(msg))) /\ n[p] = SizeTo(msg, Len(Plan(msg)))
      /\ \A j \in 1 .. n[p] : buf[p][j] = BytesTo(msg, Len(Plan(msg)))[j]
  BY <1>1, <1>2, <1>3, <1>5 DEF CallOK
<1>7. CallOK(p)'
  BY <1>1, <1>2, <1>4, <1>5, <1>6 DEF CallOK
<1>8. ASSUME NEW q \in Callers, q # p
      PROVE  CallOK(q)'
  <2>1. Untouched(q)
    BY <1>1, <1>8 DEF Inv, Untouched
  <2>. QED BY <2>1, OthersOK DEF Inv
<1>. QED BY <1>1, <1>4, <1>7, <1>8 DEF Inv

LEMMA InvAlways == Spec => []Inv
<1>1. Init => Inv
  BY InvAtInit
<1>2. Inv /\ [Next]_vars => Inv'
  <2>. SUFFICES ASSUME Inv, [Next]_vars PROVE Inv'
    OBVIOUS
  <2>1. CASE Assign
    BY <2>1, AssignKeeps
  <2>2. ASSUME NEW p \in Callers, Enter(p, FALSE, <<>>)
        PROVE  Inv'
    <3>1. <<>> \in Seq(Byte \cup {Unwritten}) /\ \A j \in 1 .. Len(<<>>) : <<>>[j] = Unwritten
      OBVIOUS
    <3>. QED BY <2>2, <3>1, EnterKeeps
  <2>3. ASSUME NEW p \in Callers, NEW k \in Buffers, Enter(p, TRUE, Empty(k))
        PROVE  Inv'
    <3>1. k \in Nat
      BY EncoderAssumption
    <3>. QED BY <2>3, <3>1, EmptyIs, EnterKeeps
  <2>4. ASSUME NEW p \in Callers, SizeField(p)
        PROVE  Inv'
    BY <2>4, SizeFieldKeeps
  <2>5. ASSUME NEW p \in Callers, Sized(p)
        PROVE  Inv'
    BY <2>5, SizedKeeps
  <2>6. ASSUME NEW p \in Callers, WriteField(p)
        PROVE  Inv'
    BY <2>6, WriteFieldKeeps
  <2>7. ASSUME NEW p \in Callers, Written(p)
        PROVE  Inv'
    BY <2>7, WrittenKeeps
  <2>8. CASE UNCHANGED vars
    <3>1. ASSUME NEW q \in Callers
          PROVE  CallOK(q)'
      <4>1. Untouched(q)
        BY <2>8 DEF vars, Untouched
      <4>. QED BY <4>1, OthersOK DEF Inv
    <3>. QED BY <2>8, <3>1 DEF vars, Inv
  <2>. QED BY <2>1, <2>2, <2>3, <2>4, <2>5, <2>6, <2>7, <2>8, Zenon DEF Next
<1>. QED BY <1>1, <1>2, PTL DEF Spec

-----------------------------------------------------------------------------
(* A buffer holds bytes and what was there before, and the write offset    *)
(* stays inside of it, in any number of concurrent calls.                  *)
THEOREM TypeCorrect == Spec => []TypeOK
<1>1. Inv => TypeOK
  <2>. SUFFICES ASSUME Inv, NEW p \in Callers
                PROVE  /\ n[p] \in 0 .. Len(buf[p])
                       /\ \A j \in DOMAIN buf[p] : buf[p][j] \in Byte \cup {Unwritten}
    BY DEF Inv, TypeOK
  <2>1. buf[p] \in Seq(Byte \cup {Unwritten}) /\ n[p] \in 0 .. Len(buf[p])
    BY DEF Inv, CallOK
  <2>2. \A j \in DOMAIN buf[p] : buf[p][j] \in Byte \cup {Unwritten}
    BY <2>1
  <2>. QED BY <2>1, <2>2
<1>. QED BY <1>1, InvAlways, PTL

(* The write pass never leaves its buffer, and it ends where the size pass *)
(* has said (REQ-001 and 008): the code generated for MarshalCodec needs   *)
(* no bounds of its own.                                                   *)
THEOREM NeverOverruns == Spec => []FitsExactly
<1>1. Inv => FitsExactly
  BY DEF Inv, CallOK, FitsExactly
<1>. QED BY <1>1, InvAlways, PTL

(* A buffer that is too short stays as it was, and one that is too long    *)
(* does so behind the message (REQ-054).                                   *)
THEOREM LeavesTheRest == Spec => []WritesOnlyTheMessage
<1>1. Inv => WritesOnlyTheMessage
  <2>. SUFFICES ASSUME Inv, NEW p \in Callers
                PROVE  /\ \A j \in n[p] + 1 .. Len(buf[p]) : buf[p][j] = Unwritten
                       /\ pc[p] # "size" /\ Len(buf[p]) < size[p] => n[p] = 0
    BY DEF WritesOnlyTheMessage
  <2>1. CallOK(p) /\ Len(buf[p]) \in Nat /\ size[p] \in Nat
    BY DEF Inv
  <2>2. pc[p] # "size" /\ Len(buf[p]) < size[p] => n[p] = 0
    BY <2>1 DEF CallOK
  <2>. QED BY <2>1, <2>2 DEF CallOK
<1>. QED BY <1>1, InvAlways, PTL

(* All calls for a message yield the same bytes, whatever orders they have *)
(* visited its maps in and however they were interleaved (REQ-026).        *)
THEOREM SameBytes == Spec => []Deterministic
<1>1. Inv => Deterministic
  <2>. SUFFICES ASSUME Inv, NEW p \in Callers, NEW q \in Callers, pc[p] = "done", pc[q] = "done"
                PROVE  Output(p) = Output(q)
    BY DEF Deterministic
  <2>. DEFINE o == n[p]
              a == buf[p]
              b == buf[q]
  <2>1. CallOK(p) /\ CallOK(q)
    BY DEF Inv
  <2>2. /\ a \in Seq(Byte \cup {Unwritten}) /\ b \in Seq(Byte \cup {Unwritten})
        /\ o \in 0 .. Len(a) /\ n[q] = o /\ o \in 0 .. Len(b)
        /\ \A j \in 1 .. o : a[j] = b[j]
    <3>1. CASE msg = Nil
      BY <3>1, <2>1 DEF Inv, CallOK
    <3>2. CASE msg # Nil
      BY <3>2, <2>1 DEF Inv, CallOK
    <3>. QED BY <3>1, <3>2
  <2>. HIDE DEF o, a, b
  <2>3. SubSeq(a, 1, o) = SubSeq(b, 1, o)
    <3>1. \A j \in 1 .. o : a[j] \in Byte \cup {Unwritten} /\ b[j] \in Byte \cup {Unwritten}
      BY <2>2
    <3>2. SubSeq(a, 1, o) = [j \in 1 .. o |-> a[j]] /\ SubSeq(b, 1, o) = [j \in 1 .. o |-> b[j]]
      BY <2>2
    <3>3. [j \in 1 .. o |-> a[j]] = [j \in 1 .. o |-> b[j]]
      BY <2>2
    <3>. QED BY <3>2, <3>3
  <2>. QED BY <2>2, <2>3 DEF Output, o, a, b
<1>. QED BY <1>1, InvAlways, PTL

-----------------------------------------------------------------------------
(* Numbers in a fixed width.                                               *)
LEMMA Divides ==
  ASSUME NEW r \in Nat, r > 0, NEW x \in Nat
  PROVE  x \div r \in Nat /\ x % r \in Nat /\ x % r < r /\ x = r * (x \div r) + (x % r)
BY Z3

LEMMA ReachDef ==
  /\ \A k \in 0 .. Width8 + Width4 : Reach[k] \in Nat
  /\ Reach[0] = 1 /\ \A k \in 1 .. Width8 + Width4 : Reach[k] = 2 * Base * Reach[k - 1]
<1>. DEFINE w == Width8 + Width4
            F == [k \in 1 .. w |-> [v \in Nat |-> 2 * Base * v]]
<1>1. w \in Nat /\ \A v \in Nat : 2 * Base * v \in Nat
  BY Widths
<1>. HIDE DEF w
<1>2. F \in [1 .. w -> [Nat -> Nat]]
  BY <1>1
<1>3. PICK g \in [0 .. w -> Nat] : Recursion(g, 1, F, w)
  <2>. HIDE DEF F
  <2>. QED BY <1>1, <1>2, RecursionExists
<1>4. g[0] = 1 /\ \A k \in 1 .. w : g[k] = 2 * Base * g[k - 1]
  <2>1. ASSUME NEW k \in 1 .. w
        PROVE  g[k] = 2 * Base * g[k - 1]
    <3>0. k - 1 \in 0 .. w
      BY <1>1
    <3>1. g[k] = F[k][g[k - 1]] /\ g[k - 1] \in Nat
      <4>. HIDE DEF F
      <4>. QED BY <3>0, <1>3 DEF Recursion
    <3>2. F[k][g[k - 1]] = 2 * Base * g[k - 1]
      BY <3>1
    <3>. QED BY <3>1, <3>2
  <2>. QED BY <1>3, <2>1 DEF Recursion
<1>5. g = [k \in 0 .. w |-> IF k = 0 THEN 1 ELSE 2 * Base * g[k - 1]]
  <2>1. \A k \in 0 .. w : g[k] = IF k = 0 THEN 1 ELSE 2 * Base * g[k - 1]
    BY <1>1, <1>4
  <2>2. g = [k \in 0 .. w |-> g[k]]
    OBVIOUS
  <2>. QED BY <2>1, <2>2, Zenon
<1>6. Reach = [k \in 0 .. w |-> IF k = 0 THEN 1 ELSE 2 * Base * Reach[k - 1]]
  BY <1>5 DEF Reach, w
<1>. DEFINE S == {k \in 0 .. w : Reach[k] \in Nat}
<1>7. Reach[0] = 1 /\ \A k \in 1 .. w : Reach[k] = 2 * Base * Reach[k - 1]
  <2>1. \A k \in 0 .. w : Reach[k] = IF k = 0 THEN 1 ELSE 2 * Base * Reach[k - 1]
    BY <1>6, Zenon
  <2>2. 0 \in 0 .. w /\ \A k \in 1 .. w : k \in 0 .. w /\ k # 0
    BY <1>1
  <2>. QED BY <2>1, <2>2, Zenon
<1>8. 0 \in S
  <2>1. w \in Nat
    BY <1>1
  <2>2. 0 \in 0 .. w
    BY <2>1
  <2>. QED BY <2>2, <1>7
<1>9. ASSUME NEW k \in 0 .. w - 1, k \in S
      PROVE  k + 1 \in S
  <2>1. k + 1 \in 1 .. w /\ (k + 1) - 1 = k /\ k + 1 \in 0 .. w
    BY <1>1
  <2>2. Reach[k + 1] = 2 * Base * Reach[k]
    BY <2>1, <1>7
  <2>3. Reach[k + 1] \in Nat
    BY <2>2, <1>1, <1>9
  <2>. QED BY <2>1, <2>3
<1>10. 0 .. w \subseteq S
  <2>. HIDE DEF S
  <2>. QED BY <1>1, <1>8, <1>9, UpwardInduction
<1>. QED BY <1>7, <1>10 DEF w

LEMMA NumberDef ==
  ASSUME NEW b \in Seq(Byte)
  PROVE  \E h \in [0 .. Len(b) -> Nat] :
           /\ h[0] = 0 /\ \A j \in 1 .. Len(b) : h[j] = b[Len(b) + 1 - j] + 2 * Base * h[j - 1]
           /\ NumberOf(b) = h[Len(b)]
<1>. DEFINE w == Len(b)
            High[j \in 0 .. w] == IF j = 0 THEN 0 ELSE b[w + 1 - j] + 2 * Base * High[j - 1]
            F == [j \in 1 .. w |-> [v \in Nat |-> b[w + 1 - j] + 2 * Base * v]]
<1>1. w \in Nat /\ \A j \in 1 .. w : b[j] \in Byte
  OBVIOUS
<1>2. ASSUME NEW j \in 1 .. w, NEW v \in Nat
      PROVE  b[w + 1 - j] + 2 * Base * v \in Nat
  <2>. HIDE DEF w
  <2>1. w + 1 - j \in 1 .. w
    BY <1>1
  <2>2. b[w + 1 - j] \in Nat /\ 2 * Base * v \in Nat
    BY <1>1, <2>1, Widths DEF Byte
  <2>. QED BY <2>2
<1>. HIDE DEF w
<1>3. F \in [1 .. w -> [Nat -> Nat]]
  BY <1>2
<1>4. PICK h \in [0 .. w -> Nat] : Recursion(h, 0, F, w)
  <2>. HIDE DEF F
  <2>. QED BY <1>1, <1>3, RecursionExists
<1>5. ASSUME NEW j \in 1 .. w
      PROVE  h[j] = b[w + 1 - j] + 2 * Base * h[j - 1]
  <2>1. j - 1 \in 0 .. w
    BY <1>1
  <2>2. h[j] = F[j][h[j - 1]] /\ h[j - 1] \in Nat
    <3>. HIDE DEF F
    <3>. QED BY <2>1, <1>4 DEF Recursion
  <2>. QED BY <2>2
<1>6. h[0] = 0
  BY <1>4 DEF Recursion
<1>7. h = [j \in 0 .. w |-> IF j = 0 THEN 0 ELSE b[w + 1 - j] + 2 * Base * h[j - 1]]
  <2>1. ASSUME NEW j \in 0 .. w
        PROVE  h[j] = IF j = 0 THEN 0 ELSE b[w + 1 - j] + 2 * Base * h[j - 1]
    <3>1. CASE j = 0
      BY <3>1, <1>6
    <3>2. CASE j # 0
      <4>1. j \in 1 .. w
        BY <1>1, <3>2
      <4>. QED BY <3>2, <4>1, <1>5, Zenon
    <3>. QED BY <3>1, <3>2
  <2>2. h = [j \in 0 .. w |-> h[j]]
    OBVIOUS
  <2>. QED BY <2>1, <2>2, Zenon
<1>8. High = [j \in 0 .. w |-> IF j = 0 THEN 0 ELSE b[w + 1 - j] + 2 * Base * High[j - 1]]
  BY <1>7
<1>9. NumberOf(b) = High[w]
  BY DEF NumberOf, w
<1>. HIDE DEF High
<1>. DEFINE S == {j \in 0 .. w : High[j] = h[j]}
<1>10. \A j \in 0 .. w : High[j] = IF j = 0 THEN 0 ELSE b[w + 1 - j] + 2 * Base * High[j - 1]
  BY <1>8, Zenon
<1>11. 0 \in S
  BY <1>1, <1>6, <1>10
<1>12. ASSUME NEW j \in 0 .. w - 1, j \in S
       PROVE  j + 1 \in S
  <2>1. j + 1 \in 0 .. w /\ j + 1 # 0 /\ (j + 1) - 1 = j /\ j + 1 \in 1 .. w
    BY <1>1
  <2>2. High[j + 1] = b[w + 1 - (j + 1)] + 2 * Base * High[j]
    BY <2>1, <1>10
  <2>3. h[j + 1] = b[w + 1 - (j + 1)] + 2 * Base * h[j]
    BY <2>1, <1>5
  <2>. QED BY <2>1, <2>2, <2>3, <1>12
<1>13. 0 .. w \subseteq S
  <2>. HIDE DEF S
  <2>. QED BY <1>1, <1>11, <1>12, UpwardInduction
<1>14. NumberOf(b) = h[w]
  BY <1>1, <1>9, <1>13
<1>. QED BY <1>5, <1>6, <1>14 DEF w

(* A number that a width can tell apart is read back.                      *)
LEMMA NumberRoundTrip ==
  ASSUME NEW w \in 0 .. Width8 + Width4, NEW x \in Nat, x < Reach[w]
  PROVE  /\ LittleEndian(x, w) \in Seq(Byte) /\ Len(LittleEndian(x, w)) = w
         /\ NumberOf(LittleEndian(x, w)) = x
<1>. DEFINE b == LittleEndian(x, w)
            r == 2 * Base
<1>1. w \in Nat /\ r \in Nat /\ r > 0 /\ Width8 + Width4 \in Nat
  BY Widths
<1>. HIDE DEF r
<1>2. b \in Seq(Byte) /\ Len(b) = w
  BY <1>1, LittleEndianFits DEF Fits
<1>3. PICK g \in [0 .. w -> Int] :
        /\ g[0] = x /\ \A j \in 1 .. w : g[j] = g[j - 1] \div r
        /\ b = [j \in 1 .. w |-> g[j - 1] % r]
  <2>1. x \in Int
    OBVIOUS
  <2>. QED BY <1>1, <2>1, LittleEndianDef DEF r, b
<1>. HIDE DEF b
<1>4. PICK h \in [0 .. w -> Nat] :
        /\ h[0] = 0 /\ \A j \in 1 .. w : h[j] = b[w + 1 - j] + r * h[j - 1]
        /\ NumberOf(b) = h[w]
  <2>1. \E h \in [0 .. Len(b) -> Nat] :
           /\ h[0] = 0 /\ \A j \in 1 .. Len(b) : h[j] = b[Len(b) + 1 - j] + 2 * Base * h[j - 1]
           /\ NumberOf(b) = h[Len(b)]
    BY <1>2, NumberDef
  <2>2. \A u : 2 * Base * u = r * u
    BY DEF r
  <2>. QED BY <1>2, <2>1 DEF r
<1>5. /\ \A k \in 0 .. w : Reach[k] \in Nat
      /\ Reach[0] = 1 /\ \A k \in 1 .. w : Reach[k] = r * Reach[k - 1]
  <2>1. \A k \in 0 .. w : k \in 0 .. Width8 + Width4
    BY <1>1
  <2>2. \A k \in 1 .. w : k \in 1 .. Width8 + Width4
    BY <1>1
  <2>. QED BY <2>1, <2>2, ReachDef DEF r
<1>6. ASSUME NEW u \in Nat
      PROVE  u \div r \in Nat /\ u = r * (u \div r) + (u % r) /\ u % r \in Nat
  BY <1>1, Divides, Zenon
<1>7. ASSUME NEW u \in Nat, NEW t \in Nat, u < r * t
      PROVE  u \div r < t
  <2>1. u \div r \in Nat /\ u = r * (u \div r) + (u % r) /\ u % r \in Nat
    BY <1>6
  <2>. DEFINE d == u \div r
              e == u % r
  <2>. HIDE DEF d, e
  <2>2. d \in Nat /\ e \in Nat /\ u = r * d + e
    BY <2>1, Zenon DEF d, e
  <2>3. CASE d >= t
    <3>1. r * d >= r * t
      BY <1>1, <2>2, <2>3
    <3>2. r * d \in Nat /\ r * t \in Nat
      BY <1>1, <2>2
    <3>. QED BY <1>7, <2>2, <3>1, <3>2
  <2>4. CASE ~(d >= t)
    BY <2>2, <2>4 DEF d
  <2>. QED BY <2>3, <2>4
<1>. DEFINE S == {j \in 0 .. w : g[j] \in Nat /\ g[j] < Reach[w - j]}
            R == {j \in 0 .. w : h[j] = g[w - j]}
<1>8. 0 .. w \subseteq S
  <2>1. 0 \in S
    <3>1. w - 0 = w
      BY <1>1
    <3>. QED BY <1>1, <1>3, <3>1
  <2>2. ASSUME NEW j \in 0 .. w - 1, j \in S
        PROVE  j + 1 \in S
    <3>1. j + 1 \in 1 .. w /\ (j + 1) - 1 = j /\ w - j \in 1 .. w /\ (w - j) - 1 = w - (j + 1) /\ w - (j + 1) \in 0 .. w
      BY <1>1
    <3>2. g[j + 1] = g[j] \div r /\ Reach[w - j] = r * Reach[w - (j + 1)] /\ Reach[w - (j + 1)] \in Nat
      <4>1. g[j + 1] = g[j] \div r
        BY <1>3, <3>1
      <4>2. Reach[w - j] = r * Reach[(w - j) - 1]
        BY <1>5, <3>1
      <4>. QED BY <1>5, <3>1, <4>1, <4>2
    <3>3. g[j] \in Nat /\ g[j] < r * Reach[w - (j + 1)]
      BY <2>2, <3>2
    <3>4. g[j] \div r \in Nat /\ g[j] \div r < Reach[w - (j + 1)]
      BY <3>2, <3>3, <1>6, <1>7
    <3>. QED BY <3>1, <3>2, <3>4
  <2>. HIDE DEF S
  <2>. QED BY <1>1, <2>1, <2>2, UpwardInduction
<1>9. g[w] = 0 /\ \A j \in 0 .. w : g[j] \in Nat
  <2>1. w \in 0 .. w /\ w - w = 0
    BY <1>1
  <2>2. g[w] \in Nat /\ g[w] < Reach[w - w]
    BY <2>1, <1>8
  <2>. QED BY <2>1, <2>2, <1>5, <1>8
<1>10. 0 .. w \subseteq R
  <2>1. 0 \in R
    <3>1. w - 0 = w
      BY <1>1
    <3>. QED BY <1>1, <1>4, <1>9, <3>1
  <2>2. ASSUME NEW j \in 0 .. w - 1, j \in R
        PROVE  j + 1 \in R
    <3>. DEFINE k == w - j
    <3>1. j + 1 \in 1 .. w /\ (j + 1) - 1 = j /\ k \in 1 .. w /\ k - 1 = w - (j + 1) /\ w + 1 - (j + 1) = k /\ k - 1 \in 0 .. w
      BY <1>1
    <3>. HIDE DEF k
    <3>2. h[j + 1] = b[w + 1 - (j + 1)] + r * h[(j + 1) - 1]
      BY <1>4, <3>1
    <3>3. h[j + 1] = b[k] + r * h[j]
      BY <3>1, <3>2
    <3>4. b[k] = g[k - 1] % r /\ g[k] = g[k - 1] \div r
      BY <1>3, <3>1
    <3>5. h[j] = g[k]
      BY <2>2 DEF k
    <3>6. g[k - 1] \in Nat
      BY <1>9, <3>1
    <3>7. h[j + 1] = (g[k - 1] % r) + r * (g[k - 1] \div r)
      BY <3>3, <3>4, <3>5
    <3>. DEFINE u == g[k - 1]
                d == u \div r
                e == u % r
    <3>. HIDE DEF u, d, e
    <3>8. d \in Nat /\ e \in Nat /\ u = r * d + e /\ h[j + 1] = e + r * d
      <4>1. u \in Nat
        BY <3>6 DEF u
      <4>2. u \div r \in Nat /\ u = r * (u \div r) + (u % r) /\ u % r \in Nat
        BY <1>6, <4>1
      <4>3. h[j + 1] = (u % r) + r * (u \div r)
        BY <3>7 DEF u
      <4>. QED BY <4>2, <4>3, Zenon DEF d, e
    <3>9. h[j + 1] = u
      <4>1. r * d \in Nat
        BY <1>1, <3>8
      <4>. QED BY <3>8, <4>1
    <3>. QED BY <3>1, <3>9 DEF u
  <2>. HIDE DEF R
  <2>. QED BY <1>1, <2>1, <2>2, UpwardInduction
<1>11. h[w] = x
  <2>1. w \in 0 .. w /\ w - w = 0
    BY <1>1
  <2>2. h[w] = g[w - w]
    BY <2>1, <1>10
  <2>. QED BY <2>1, <2>2, <1>3
<1>. QED BY <1>2, <1>4, <1>11 DEF b

-----------------------------------------------------------------------------
(* Every field is records, and they are read back.                         *)
Sent(f, wt, x) == [f |-> f, wt |-> wt, val |-> x]

LEMMA SentIs ==
  ASSUME NEW f \in Field \cup {1, 2}, NEW x
  PROVE  /\ f \in Nat /\ 8 * f + 7 < Word
         /\ x \in 0 .. Word - 1 => Sent(f, 0, x) \in Sendable /\ VarintField(f, x) = Form(Sent(f, 0, x))
         /\ x \in Seq(Byte) /\ Len(x) = Width8 =>
              Sent(f, 1, x) \in Sendable /\ Tag(f, 1) \o x = Form(Sent(f, 1, x))
         /\ x \in Seq(Byte) /\ Len(x) = Width4 =>
              Sent(f, 5, x) \in Sendable /\ Tag(f, 5) \o x = Form(Sent(f, 5, x))
         /\ x \in Seq(Byte) /\ Len(x) < Word =>
              Sent(f, 2, x) \in Sendable /\ LenDel(f, Len(x), x) = Form(Sent(f, 2, x))
<1>1. f \in Nat /\ 8 * f + 7 < Word
  BY EncoderAssumption
<1>2. ASSUME NEW wt \in {0, 1, 2, 5}
      PROVE  /\ Sent(f, wt, x).f = f /\ Sent(f, wt, x).wt = wt /\ Sent(f, wt, x).val = x
             /\ x \in Nat \cup Seq(Byte) => Sent(f, wt, x) \in [f : Nat, wt : {0, 1, 2, 5}, val : Nat \cup Seq(Byte)]
  BY <1>1 DEF Sent
<1>3. ASSUME x \in 0 .. Word - 1
      PROVE  Sent(f, 0, x) \in Sendable /\ VarintField(f, x) = Form(Sent(f, 0, x))
  <2>. DEFINE c == Sent(f, 0, x)
  <2>1. c.f = f /\ c.wt = 0 /\ c.val = x
    BY <1>2
  <2>2. c \in [f : Nat, wt : {0, 1, 2, 5}, val : Nat \cup Seq(Byte)]
    <3>1. x \in Nat \cup Seq(Byte) /\ 0 \in {0, 1, 2, 5}
      BY <1>3, Widths
    <3>. QED BY <1>2, <3>1
  <2>. HIDE DEF c
  <2>3. c \in Sendable
    BY <1>1, <1>3, <2>1, <2>2 DEF Sendable
  <2>4. Form(c) = EncodeVarint[8 * f + 0] \o AfterTag(c) /\ AfterTag(c) = EncodeVarint[x]
    BY <2>1 DEF Form, AfterTag
  <2>. QED BY <2>3, <2>4, Zenon DEF VarintField, Tag, c
<1>4. ASSUME x \in Seq(Byte), Len(x) = Width8
      PROVE  Sent(f, 1, x) \in Sendable /\ Tag(f, 1) \o x = Form(Sent(f, 1, x))
  <2>. DEFINE c == Sent(f, 1, x)
  <2>1. c.f = f /\ c.wt = 1 /\ c.val = x
    BY <1>2
  <2>2. c \in [f : Nat, wt : {0, 1, 2, 5}, val : Nat \cup Seq(Byte)]
    <3>1. x \in Nat \cup Seq(Byte) /\ 1 \in {0, 1, 2, 5}
      BY <1>4, Widths
    <3>. QED BY <1>2, <3>1
  <2>. HIDE DEF c
  <2>3. c \in Sendable
    BY <1>1, <1>4, <2>1, <2>2 DEF Sendable
  <2>4. Form(c) = EncodeVarint[8 * f + 1] \o AfterTag(c) /\ AfterTag(c) = x
    BY <2>1 DEF Form, AfterTag
  <2>. QED BY <2>3, <2>4, Zenon DEF Tag, c
<1>5. ASSUME x \in Seq(Byte), Len(x) = Width4
      PROVE  Sent(f, 5, x) \in Sendable /\ Tag(f, 5) \o x = Form(Sent(f, 5, x))
  <2>. DEFINE c == Sent(f, 5, x)
  <2>1. c.f = f /\ c.wt = 5 /\ c.val = x
    BY <1>2
  <2>2. c \in [f : Nat, wt : {0, 1, 2, 5}, val : Nat \cup Seq(Byte)]
    <3>1. x \in Nat \cup Seq(Byte) /\ 5 \in {0, 1, 2, 5}
      BY <1>5, Widths
    <3>. QED BY <1>2, <3>1
  <2>. HIDE DEF c
  <2>3. c \in Sendable
    BY <1>1, <1>5, <2>1, <2>2 DEF Sendable
  <2>4. Form(c) = EncodeVarint[8 * f + 5] \o AfterTag(c) /\ AfterTag(c) = x
    BY <2>1 DEF Form, AfterTag
  <2>. QED BY <2>3, <2>4, Zenon DEF Tag, c
<1>6. ASSUME x \in Seq(Byte), Len(x) < Word
      PROVE  Sent(f, 2, x) \in Sendable /\ LenDel(f, Len(x), x) = Form(Sent(f, 2, x))
  <2>. DEFINE c == Sent(f, 2, x)
  <2>1. c.f = f /\ c.wt = 2 /\ c.val = x
    BY <1>2
  <2>2. c \in [f : Nat, wt : {0, 1, 2, 5}, val : Nat \cup Seq(Byte)]
    <3>1. x \in Nat \cup Seq(Byte) /\ 2 \in {0, 1, 2, 5}
      BY <1>6, Widths
    <3>. QED BY <1>2, <3>1
  <2>. HIDE DEF c
  <2>3. c \in Sendable
    BY <1>1, <1>6, <2>1, <2>2 DEF Sendable
  <2>4. Form(c) = EncodeVarint[8 * f + 2] \o AfterTag(c) /\ AfterTag(c) = EncodeVarint[Len(x)] \o x
    BY <2>1 DEF Form, AfterTag
  <2>5. EncodeVarint[8 * f + 2] \in Seq(Byte) /\ EncodeVarint[Len(x)] \in Seq(Byte)
    <3>1. 8 * f + 2 \in 0 .. Word - 1 /\ Len(x) \in 0 .. Word - 1
      BY <1>1, <1>6, Widths
    <3>. QED BY <3>1, VarintIsBytes
  <2>. DEFINE a == EncodeVarint[8 * f + 2]
              b == EncodeVarint[Len(x)]
  <2>6. LenDel(f, Len(x), x) = (a \o b) \o x
    BY Zenon DEF LenDel, Tag
  <2>. HIDE DEF a, b
  <2>7. (a \o b) \o x = a \o (b \o x)
    <3>1. \A u, v, y \in Seq(Byte) : (u \o v) \o y = u \o (v \o y)
      OBVIOUS
    <3>. QED BY <1>6, <2>5, <3>1 DEF a, b
  <2>. QED BY <2>3, <2>4, <2>6, <2>7, Zenon DEF a, b, c
<1>. QED BY <1>1, <1>3, <1>4, <1>5, <1>6

(* Scalars, as the record of one holds them.                               *)
Wide(f)         == f \in Fixed8 \cup Fixed4
ScalarRaw(f, x) ==
  IF f \in Fixed8 THEN LittleEndian(x, Width8)
  ELSE IF f \in Fixed4 THEN LittleEndian(x, Width4)
  ELSE IF f \in Sint THEN Zigzag(x, Word) ELSE x

LEMMA HalfWord ==
  ASSUME NEW w \in Nat, w > 0, w % 2 = 0
  PROVE  w \div 2 \in Nat \ {0} /\ w = 2 * (w \div 2)
OBVIOUS

LEMMA ScalarIs ==
  ASSUME NEW f \in Num \cup Opt \cup Packed, NEW x \in Scalar(f)
  PROVE  /\ ScalarRead(f, ScalarRaw(f, x)) = x
         /\ f \in Fixed8 => /\ ScalarRaw(f, x) \in Seq(Byte) /\ Len(ScalarRaw(f, x)) = Width8
                            /\ ScalarBytes(f, x) = ScalarRaw(f, x)
         /\ f \in Fixed4 => /\ ScalarRaw(f, x) \in Seq(Byte) /\ Len(ScalarRaw(f, x)) = Width4
                            /\ ScalarBytes(f, x) = ScalarRaw(f, x)
         /\ ~Wide(f) => /\ ScalarRaw(f, x) \in 0 .. Word - 1
                        /\ ScalarBytes(f, x) = EncodeVarint[ScalarRaw(f, x)]
<1>1. Sint \cap Fixed8 = {} /\ Sint \cap Fixed4 = {} /\ Fixed8 \cap Fixed4 = {}
  BY EncoderAssumption
<1>2. CASE f \in Fixed8
  <2>1. x \in 0 .. Word - 1
    BY <1>1, <1>2 DEF Scalar
  <2>2. x \in Nat /\ x < Reach[Width8] /\ Width8 \in 0 .. Width8 + Width4
    <3>1. Reach[Width8] \in Nat /\ Width8 \in 0 .. Width8 + Width4
      BY ReachDef, Widths
    <3>. QED BY <2>1, <3>1, WidthsAssumption, Widths
  <2>. DEFINE b == LittleEndian(x, Width8)
  <2>3. b \in Seq(Byte) /\ Len(b) = Width8 /\ NumberOf(b) = x
    BY <2>2, NumberRoundTrip
  <2>4. ScalarRaw(f, x) = b
    BY <1>2 DEF ScalarRaw
  <2>. HIDE DEF b
  <2>5. ScalarRead(f, b) = NumberOf(b)
    BY <1>1, <1>2 DEF ScalarRead
  <2>6. ScalarBytes(f, x) = b
    BY <1>1, <1>2 DEF ScalarBytes, b
  <2>. QED BY <1>1, <1>2, <2>3, <2>4, <2>5, <2>6 DEF Wide
<1>3. CASE f \in Fixed4
  <2>1. x \in 0 .. Word4 - 1
    BY <1>1, <1>3 DEF Scalar
  <2>2. x \in Nat /\ x < Reach[Width4] /\ Width4 \in 0 .. Width8 + Width4
    <3>1. Reach[Width4] \in Nat /\ Width4 \in 0 .. Width8 + Width4
      BY ReachDef, Widths
    <3>. QED BY <2>1, <3>1, WidthsAssumption, WellKnownAssumption
  <2>. DEFINE b == LittleEndian(x, Width4)
  <2>3. b \in Seq(Byte) /\ Len(b) = Width4 /\ NumberOf(b) = x
    BY <2>2, NumberRoundTrip
  <2>4. ScalarRaw(f, x) = b
    BY <1>1, <1>3 DEF ScalarRaw
  <2>. HIDE DEF b
  <2>5. ScalarRead(f, b) = NumberOf(b)
    BY <1>1, <1>3 DEF ScalarRead
  <2>6. ScalarBytes(f, x) = b
    BY <1>1, <1>3 DEF ScalarBytes, b
  <2>. QED BY <1>1, <1>3, <2>3, <2>4, <2>5, <2>6 DEF Wide
<1>4. CASE f \in Sint
  <2>1. x \in Signs
    BY <1>1, <1>4 DEF Scalar
  <2>. DEFINE h == Word \div 2
              u == Zigzag(x, Word)
  <2>2. h \in Nat \ {0} /\ Word = 2 * h
    BY HalfWord, WidthsAssumption, Widths
  <2>3. x \in -h .. h - 1
    BY <2>1 DEF Signs
  <2>. HIDE DEF h
  <2>4. u \in 0 .. Word - 1 /\ Unzigzag(u) = x
    <3>1. Zigzag(x, 2 * h) \in 0 .. 2 * h - 1 /\ Unzigzag(Zigzag(x, 2 * h)) = x
      BY <2>2, <2>3, ZigzagRoundTrip
    <3>. QED BY <2>2, <3>1
  <2>5. ScalarRaw(f, x) = u
    BY <1>1, <1>4 DEF ScalarRaw
  <2>. HIDE DEF u
  <2>6. ScalarRead(f, u) = Unzigzag(u)
    BY <1>1, <1>4 DEF ScalarRead
  <2>7. ScalarBytes(f, x) = EncodeVarint[u]
    BY <1>1, <1>4 DEF ScalarBytes, u
  <2>. QED BY <1>1, <1>4, <2>4, <2>5, <2>6, <2>7 DEF Wide
<1>5. CASE f \notin Fixed8 \cup Fixed4 \cup Sint
  <2>1. x \in 0 .. Word - 1
    BY <1>5 DEF Scalar
  <2>2. ScalarRaw(f, x) = x /\ ScalarRead(f, x) = x /\ ScalarBytes(f, x) = EncodeVarint[x]
    BY <1>5 DEF ScalarRaw, ScalarRead, ScalarBytes
  <2>. QED BY <1>5, <2>1, <2>2
<1>. QED BY <1>2, <1>3, <1>4, <1>5

LEMMA ScalarSent ==
  ASSUME NEW f \in Num \cup Opt, NEW x \in Scalar(f)
  PROVE  /\ Sent(f, ScalarType(f), ScalarRaw(f, x)) \in Sendable
         /\ Tag(f, ScalarType(f)) \o ScalarBytes(f, x) = Form(Sent(f, ScalarType(f), ScalarRaw(f, x)))
         /\ ScalarRead(f, ScalarRaw(f, x)) = x
<1>1. f \in Field \cup {1, 2} /\ Fixed8 \cap Fixed4 = {}
  BY EncoderAssumption DEF Field
<1>. DEFINE r == ScalarRaw(f, x)
<1>2. /\ ScalarRead(f, r) = x
      /\ f \in Fixed8 => r \in Seq(Byte) /\ Len(r) = Width8 /\ ScalarBytes(f, x) = r
      /\ f \in Fixed4 => r \in Seq(Byte) /\ Len(r) = Width4 /\ ScalarBytes(f, x) = r
      /\ ~Wide(f) => r \in 0 .. Word - 1 /\ ScalarBytes(f, x) = EncodeVarint[r]
  BY ScalarIs
<1>. HIDE DEF r
<1>3. CASE f \in Fixed8
  <2>1. ScalarType(f) = 1
    BY <1>3 DEF ScalarType
  <2>. QED BY <1>1, <1>2, <1>3, <2>1, SentIs DEF r
<1>4. CASE f \in Fixed4
  <2>1. ScalarType(f) = 5
    BY <1>1, <1>4 DEF ScalarType
  <2>. QED BY <1>1, <1>2, <1>4, <2>1, SentIs DEF r
<1>5. CASE ~Wide(f)
  <2>1. ScalarType(f) = 0
    BY <1>5 DEF ScalarType, Wide
  <2>2. Sent(f, 0, r) \in Sendable /\ VarintField(f, r) = Form(Sent(f, 0, r))
    BY <1>1, <1>2, <1>5, SentIs
  <2>3. VarintField(f, r) = Tag(f, 0) \o ScalarBytes(f, x)
    BY <1>2, <1>5, Zenon DEF VarintField
  <2>. QED BY <1>2, <2>1, <2>2, <2>3 DEF r
<1>. QED BY <1>3, <1>4, <1>5 DEF Wide

-----------------------------------------------------------------------------
(* The scalars of a packed body are read back.                             *)
LEMMA PackedCopies ==
  ASSUME NEW f \in Packed, NEW v \in Seq(Scalar(f)), NEW ss, ss = [j \in DOMAIN v |-> ScalarBytes(f, v[j])]
  PROVE  FlattenSeq(ss) \in Seq(Byte) /\ PackedRead(f, FlattenSeq(ss)) = v
<1>. DEFINE z == Len(v)
            w == IF f \in Fixed8 THEN Width8 ELSE IF f \in Fixed4 THEN Width4 ELSE 0
            raws == [j \in 1 .. z |-> ScalarRaw(f, v[j])]
            s == FlattenSeq(ss)
<1>0. /\ Width8 \in Nat /\ Width8 > 0 /\ Width4 \in Nat /\ Width4 > 0
      /\ Sint \cap Fixed8 = {} /\ Sint \cap Fixed4 = {} /\ Fixed8 \cap Fixed4 = {}
  BY Widths, EncoderAssumption
<1>1. z \in Nat /\ DOMAIN v = 1 .. z /\ \A j \in 1 .. z : v[j] \in Scalar(f)
  OBVIOUS
<1>2. ASSUME NEW j \in 1 .. z
      PROVE  /\ ScalarRead(f, ScalarRaw(f, v[j])) = v[j]
             /\ f \in Fixed8 => /\ ScalarRaw(f, v[j]) \in Seq(Byte) /\ Len(ScalarRaw(f, v[j])) = Width8
                                /\ ScalarBytes(f, v[j]) = ScalarRaw(f, v[j])
             /\ f \in Fixed4 => /\ ScalarRaw(f, v[j]) \in Seq(Byte) /\ Len(ScalarRaw(f, v[j])) = Width4
                                /\ ScalarBytes(f, v[j]) = ScalarRaw(f, v[j])
             /\ ~Wide(f) => /\ ScalarRaw(f, v[j]) \in 0 .. Word - 1
                            /\ ScalarBytes(f, v[j]) = EncodeVarint[ScalarRaw(f, v[j])]
  <2>1. v[j] \in Scalar(f)
    BY <1>1
  <2>. QED BY <2>1, ScalarIs
<1>3. ASSUME NEW j \in 1 .. z
      PROVE  ScalarBytes(f, v[j]) \in Seq(Byte) /\ ScalarRaw(f, v[j]) \in Holdable
  <2>1. CASE f \in Fixed8 \cup Fixed4
    BY <1>2, <2>1 DEF Holdable
  <2>2. CASE ~Wide(f)
    <3>1. ScalarRaw(f, v[j]) \in Nat
      BY <1>2, <2>2, Widths
    <3>2. EncodeVarint[ScalarRaw(f, v[j])] \in Seq(Byte)
      BY <1>2, <2>2, VarintIsBytes
    <3>. QED BY <1>2, <2>2, <3>1, <3>2 DEF Holdable
  <2>. QED BY <2>1, <2>2 DEF Wide
<1>. HIDE DEF z
<1>4. ss \in Seq(Seq(Byte)) /\ Len(ss) = z /\ \A j \in 1 .. z : ss[j] = ScalarBytes(f, v[j])
  <2>1. ss = [j \in 1 .. z |-> ScalarBytes(f, v[j])]
    BY <1>1
  <2>2. ss \in [1 .. z -> Seq(Byte)]
    BY <1>3, <2>1
  <2>. QED BY <1>1, <2>1, <2>2
<1>5. raws \in Seq(Holdable) /\ Len(raws) = z /\ \A j \in 1 .. z : raws[j] = ScalarRaw(f, v[j])
  BY <1>1, <1>3
<1>6. s \in Seq(Byte)
  BY <1>4, FlattenIsSeq
<1>. HIDE DEF raws, s
<1>7. w \in Nat
  BY <1>0
<1>8. ASSUME NEW j \in 1 .. z, NEW p \in Nat, HeldAt(s, p, ss[j])
      PROVE  Len(ss[j]) > 0 /\ ItemLen(s, w, p) = Len(ss[j]) /\ ItemAt(s, w, p) = raws[j]
  <2>1. HeldAt(s, p, ScalarBytes(f, v[j])) /\ ss[j] = ScalarBytes(f, v[j]) /\ raws[j] = ScalarRaw(f, v[j])
    BY <1>4, <1>5, <1>8
  <2>2. ASSUME NEW b \in Seq(Byte), NEW u \in Nat, u > 0, w = u, Len(b) = u, HeldAt(s, p, b)
        PROVE  ItemLen(s, w, p) = Len(b) /\ ItemAt(s, w, p) = b
    <3>1. Left(s, p) >= u
      <4>1. p + Len(b) <= Len(s) /\ Len(s) \in Nat
        BY <1>6, <2>2 DEF HeldAt
      <4>. QED BY <2>2, <4>1 DEF Left
    <3>2. Cut(s, p, p + Len(b)) = b
      BY <1>6, <2>2, HeldIsCut
    <3>3. Left(s, p) \in Int
      BY <1>6 DEF Left
    <3>. HIDE DEF w
    <3>. QED BY <2>2, <3>1, <3>2, <3>3 DEF ItemLen, ItemAt
  <2>3. CASE f \in Fixed8
    <3>1. w = Width8
      BY <2>3
    <3>. HIDE DEF w
    <3>. QED BY <1>0, <1>2, <2>1, <2>2, <2>3, <3>1
  <2>4. CASE f \in Fixed4
    <3>1. w = Width4
      BY <1>0, <2>4
    <3>. HIDE DEF w
    <3>. QED BY <1>0, <1>2, <2>1, <2>2, <2>4, <3>1
  <2>5. CASE ~Wide(f)
    <3>1. w = 0
      BY <2>5 DEF Wide
    <3>. HIDE DEF w
    <3>. DEFINE x == ScalarRaw(f, v[j])
    <3>2. x \in 0 .. Word - 1 /\ ss[j] = EncodeVarint[x] /\ raws[j] = x
      BY <1>2, <2>1, <2>5
    <3>. HIDE DEF x
    <3>3. VarintLen(s, p) = Len(EncodeVarint[x]) /\ VarintValue(s, p) = x
      BY <1>6, <1>8, <3>2, VarintRoundTrip
    <3>4. Len(EncodeVarint[x]) > 0
      BY <3>2, VarintIsBytes
    <3>. QED BY <3>1, <3>2, <3>3, <3>4 DEF ItemLen, ItemAt
  <2>. QED BY <2>3, <2>4, <2>5 DEF Wide
<1>9. ItemsFrom(s, w)[0] = raws
  <2>. HIDE DEF w
  <2>1. s = FlattenSeq(ss)
    BY DEF s
  <2>2. Len(raws) = Len(ss)
    BY <1>4, <1>5
  <2>3. ItemsIn(s, w, ss, raws)
    BY <1>4, <1>8 DEF ItemsIn
  <2>. QED BY <1>4, <1>5, <1>7, <2>1, <2>2, <2>3, ItemsRead
<1>10. Parts(f, s) = ItemsFrom(s, w)[0]
  <2>1. CASE f \in Fixed8
    BY <1>0, <2>1 DEF Parts, ItemsFrom, Pieces
  <2>2. CASE f \in Fixed4
    BY <1>0, <2>2 DEF Parts, ItemsFrom, Pieces
  <2>3. CASE ~Wide(f)
    BY <1>0, <2>3 DEF Parts, ItemsFrom, VarintsOf, Wide
  <2>. QED BY <2>1, <2>2, <2>3 DEF Wide
<1>11. PackedRead(f, s) = v
  <2>1. PackedRead(f, s) = ScalarsRead(f, raws)
    BY <1>9, <1>10, Zenon DEF PackedRead
  <2>2. DOMAIN raws = 1 .. z
    BY <1>1, <1>5
  <2>3. ScalarsRead(f, raws) = [j \in 1 .. z |-> ScalarRead(f, raws[j])]
    BY <2>2 DEF ScalarsRead
  <2>4. \A j \in 1 .. z : ScalarRead(f, raws[j]) = v[j]
    BY <1>2, <1>5
  <2>5. v = [j \in 1 .. z |-> v[j]]
    BY <1>1
  <2>. QED BY <2>1, <2>3, <2>4, <2>5
<1>. QED BY <1>6, <1>11 DEF s

-----------------------------------------------------------------------------
(* Bodies of two records.                                                  *)
LEMMA LastOfOne == \A x, dft : LastOf(<<x>>, dft) = x /\ LastOf(<<>>, dft) = dft
<1>1. ASSUME NEW x, NEW dft
      PROVE  LastOf(<<x>>, dft) = x /\ LastOf(<<>>, dft) = dft
  BY DEF LastOf
<1>. QED BY <1>1

LEMMA FormNotEmpty == \A c \in Sendable : Form(c) # <<>>
<1>1. ASSUME NEW c \in Sendable, Form(c) = <<>>
      PROVE  FALSE
  <2>1. Len(Form(c)) >= 1
    BY FormIs
  <2>2. Len(<<>>) = 0
    OBVIOUS
  <2>. QED BY <1>1, <2>1, <2>2
<1>. QED BY <1>1

LEMMA LastShown ==
  \A i, c, dft : LastOf(Shown(i, c), dft) = IF i = <<>> THEN dft ELSE c.val
<1>1. ASSUME NEW i, NEW c, NEW dft
      PROVE  LastOf(Shown(i, c), dft) = IF i = <<>> THEN dft ELSE c.val
  <2>1. CASE i = <<>>
    BY <2>1, LastOfOne DEF Shown
  <2>2. CASE i # <<>>
    BY <2>2, LastOfOne DEF Shown
  <2>. QED BY <2>1, <2>2
<1>. QED BY <1>1

LEMMA PairCopies ==
  \A a, b \in {0, 1, 2, 5} : \A x, y :
    Sent(1, a, x) \in Sendable /\ Sent(2, b, y) \in Sendable =>
      \A i \in MaybeForm(Sent(1, a, x)), j \in MaybeForm(Sent(2, b, y)) :
        /\ In(i \o j, 1, a) = Shown(i, Sent(1, a, x))
        /\ In(i \o j, 2, b) = Shown(j, Sent(2, b, y))
<1>1. ASSUME NEW a \in {0, 1, 2, 5}, NEW b \in {0, 1, 2, 5}, NEW x, NEW y,
             Sent(1, a, x) \in Sendable, Sent(2, b, y) \in Sendable,
             NEW i \in MaybeForm(Sent(1, a, x)), NEW j \in MaybeForm(Sent(2, b, y))
      PROVE  /\ In(i \o j, 1, a) = Shown(i, Sent(1, a, x))
             /\ In(i \o j, 2, b) = Shown(j, Sent(2, b, y))
  <2>. DEFINE c == Sent(1, a, x)
              d == Sent(2, b, y)
  <2>1. c.f = 1 /\ c.wt = a /\ d.f = 2 /\ d.wt = b
    BY DEF Sent
  <2>2. c \in Sendable /\ d \in Sendable /\ i \in MaybeForm(c) /\ j \in MaybeForm(d)
    BY <1>1
  <2>. HIDE DEF c, d
  <2>3. /\ Values(Contents(i \o j), 1, c.wt) = Shown(i, c)
        /\ Values(Contents(i \o j), 2, d.wt) = Shown(j, d)
    BY <2>1, <2>2, PairReads
  <2>4. In(i \o j, 1, a) = Shown(i, c) /\ In(i \o j, 2, b) = Shown(j, d)
    BY <2>1, <2>3 DEF In
  <2>. QED BY <2>4 DEF c, d
<1>. QED BY <1>1

(* The last of each.                                                       *)
LEMMA PairLast ==
  \A a, b \in {0, 1, 2, 5} : \A x, y :
    Sent(1, a, x) \in Sendable /\ Sent(2, b, y) \in Sendable =>
      \A i \in MaybeForm(Sent(1, a, x)), j \in MaybeForm(Sent(2, b, y)) : \A dft :
        /\ LastOf(In(i \o j, 1, a), dft) = IF i = <<>> THEN dft ELSE x
        /\ LastOf(In(i \o j, 2, b), dft) = IF j = <<>> THEN dft ELSE y
<1>1. ASSUME NEW a \in {0, 1, 2, 5}, NEW b \in {0, 1, 2, 5}, NEW x, NEW y,
             Sent(1, a, x) \in Sendable, Sent(2, b, y) \in Sendable,
             NEW i \in MaybeForm(Sent(1, a, x)), NEW j \in MaybeForm(Sent(2, b, y)), NEW dft
      PROVE  /\ LastOf(In(i \o j, 1, a), dft) = IF i = <<>> THEN dft ELSE x
             /\ LastOf(In(i \o j, 2, b), dft) = IF j = <<>> THEN dft ELSE y
  <2>1. /\ In(i \o j, 1, a) = Shown(i, Sent(1, a, x))
        /\ In(i \o j, 2, b) = Shown(j, Sent(2, b, y))
    BY <1>1, PairCopies
  <2>2. Sent(1, a, x).val = x /\ Sent(2, b, y).val = y
    BY DEF Sent
  <2>3. /\ LastOf(In(i \o j, 1, a), dft) = IF i = <<>> THEN dft ELSE Sent(1, a, x).val
        /\ LastOf(In(i \o j, 2, b), dft) = IF j = <<>> THEN dft ELSE Sent(2, b, y).val
    <3>1. /\ LastOf(Shown(i, Sent(1, a, x)), dft) = IF i = <<>> THEN dft ELSE Sent(1, a, x).val
          /\ LastOf(Shown(j, Sent(2, b, y)), dft) = IF j = <<>> THEN dft ELSE Sent(2, b, y).val
      BY LastShown
    <3>. QED BY <2>1, <3>1
  <2>. QED BY <2>2, <2>3
<1>. QED BY <1>1

LEMMA KidCopies ==
  ASSUME NEW k \in Kids
  PROVE  KidRead(KidBytes(k)) = k
<1>. DEFINE y == IF k.opt = Nil THEN 0 ELSE k.opt
            s == KidBytes(k)
<1>1. /\ k.val \in 0 .. Word - 1 /\ y \in 0 .. Word - 1 /\ k = [val |-> k.val, opt |-> k.opt]
  BY Widths DEF Kids
<1>2. /\ Sent(1, 0, k.val) \in Sendable /\ VarintField(1, k.val) = Form(Sent(1, 0, k.val))
      /\ Sent(2, 0, y) \in Sendable /\ VarintField(2, y) = Form(Sent(2, 0, y))
  <2>. HIDE DEF y
  <2>. QED BY <1>1, SentIs
<1>. DEFINE p == IF k.val = 0 THEN <<>> ELSE Form(Sent(1, 0, k.val))
            q == IF k.opt = Nil THEN <<>> ELSE Form(Sent(2, 0, y))
<1>3. s = p \o q
  <2>1. CASE k.opt = Nil
    BY <1>2, <2>1 DEF KidBytes
  <2>2. CASE k.opt # Nil
    BY <1>2, <2>2 DEF KidBytes
  <2>. QED BY <2>1, <2>2
<1>4. /\ p \in MaybeForm(Sent(1, 0, k.val)) /\ q \in MaybeForm(Sent(2, 0, y)) /\ 0 \in {0, 1, 2, 5}
      /\ (p = <<>> <=> k.val = 0) /\ (q = <<>> <=> k.opt = Nil)
  <2>. HIDE DEF y
  <2>1. Form(Sent(1, 0, k.val)) # <<>> /\ Form(Sent(2, 0, y)) # <<>>
    BY <1>2, FormNotEmpty
  <2>. QED BY <2>1 DEF MaybeForm
<1>. HIDE DEF y, s, p, q
<1>5. ASSUME NEW dft
      PROVE  /\ LastOf(In(s, 1, 0), dft) = IF p = <<>> THEN dft ELSE k.val
             /\ LastOf(In(s, 2, 0), dft) = IF q = <<>> THEN dft ELSE y
  BY <1>2, <1>3, <1>4, PairLast
<1>6. LastOf(In(s, 1, 0), 0) = k.val
  BY <1>4, <1>5
<1>7. LastOf(In(s, 2, 0), Nil) = k.opt
  BY <1>4, <1>5 DEF y
<1>8. KidRead(s) = [val |-> k.val, opt |-> k.opt]
  BY <1>6, <1>7, Zenon DEF KidRead
<1>. QED BY <1>1, <1>8 DEF s

LEMMA EntryCopies ==
  ASSUME NEW f \in Maps, NEW k \in 0 .. Word - 1, NEW v, f \in Names => v \in Short,
         f \notin Names => v \in 0 .. Word - 1, f \in Doubles => v % 2 = 0,
         NEW s, s = VarintField(1, k) \o ValueBytes(f, v)
  PROVE  EntryKey(s) = k /\ EntryVal(f, s) = v
<1>. DEFINE wt == IF f \in Doubles THEN 1 ELSE IF f \in Names THEN 2 ELSE 0
            y  == IF f \in Doubles THEN LittleEndian(v \div 2, Width8) ELSE v
<1>0. Doubles \cap Names = {} /\ wt \in {0, 1, 2, 5} /\ 0 \in {0, 1, 2, 5}
  BY EncoderAssumption
<1>1. Sent(1, 0, k) \in Sendable /\ VarintField(1, k) = Form(Sent(1, 0, k))
  BY SentIs
<1>2. /\ Sent(2, wt, y) \in Sendable /\ ValueBytes(f, v) = Form(Sent(2, wt, y))
      /\ f \in Doubles => NumberOf(y) = v \div 2
  <2>1. CASE f \in Doubles
    <3>1. v \in 0 .. Word - 1
      BY <1>0, <2>1
    <3>2. v \div 2 \in Nat /\ v \div 2 < Reach[Width8] /\ Width8 \in 0 .. Width8 + Width4
      <4>1. Reach[Width8] \in Nat /\ Width8 \in 0 .. Width8 + Width4
        BY ReachDef, Widths
      <4>2. v \div 2 \in Nat /\ v \div 2 <= v
        BY <3>1, Widths
      <4>. QED BY <3>1, <4>1, <4>2, WidthsAssumption, Widths
    <3>. DEFINE u == LittleEndian(v \div 2, Width8)
    <3>3. u \in Seq(Byte) /\ Len(u) = Width8 /\ NumberOf(u) = v \div 2
      BY <3>2, NumberRoundTrip
    <3>4. ValueBytes(f, v) = Tag(2, 1) \o u
      BY <1>0, <2>1 DEF ValueBytes
    <3>5. y = u /\ wt = 1
      BY <2>1
    <3>. HIDE DEF u, y, wt
    <3>6. Sent(2, 1, u) \in Sendable /\ Tag(2, 1) \o u = Form(Sent(2, 1, u))
      BY <3>3, SentIs
    <3>. QED BY <3>3, <3>4, <3>5, <3>6
  <2>2. CASE f \in Names
    <3>1. v \in Seq(Byte) /\ Len(v) < Word
      <4>1. Fits(v, Len(v)) /\ Len(v) \in 0 .. Word - 1
        BY <2>2, ShortFits
      <4>. QED BY <4>1, Widths DEF Fits
    <3>2. y = v /\ wt = 2 /\ f \notin Doubles
      BY <1>0, <2>2
    <3>3. Sent(2, 2, v) \in Sendable /\ LenDel(2, Len(v), v) = Form(Sent(2, 2, v))
      BY <3>1, SentIs
    <3>4. ValueBytes(f, v) = LenDel(2, Len(v), v)
      BY <2>2, <3>2 DEF ValueBytes
    <3>. QED BY <3>2, <3>3, <3>4
  <2>3. CASE f \notin Doubles \cup Names
    <3>1. y = v /\ wt = 0
      BY <2>3
    <3>2. Sent(2, 0, v) \in Sendable /\ VarintField(2, v) = Form(Sent(2, 0, v))
      BY <2>3, SentIs
    <3>3. ValueBytes(f, v) = VarintField(2, v)
      BY <2>3 DEF ValueBytes
    <3>. QED BY <2>3, <3>1, <3>2, <3>3
  <2>. QED BY <2>1, <2>2, <2>3
<1>. HIDE DEF wt, y
<1>. DEFINE p == Form(Sent(1, 0, k))
            q == Form(Sent(2, wt, y))
<1>3. /\ p \in MaybeForm(Sent(1, 0, k)) /\ q \in MaybeForm(Sent(2, wt, y)) /\ s = p \o q
      /\ p # <<>> /\ q # <<>>
  BY <1>1, <1>2, FormNotEmpty DEF MaybeForm
<1>. HIDE DEF p, q
<1>4. /\ \A dft : LastOf(In(s, 1, 0), dft) = k
      /\ \A dft : LastOf(In(s, 2, wt), dft) = y
  <2>1. ASSUME NEW dft
        PROVE  /\ LastOf(In(s, 1, 0), dft) = IF p = <<>> THEN dft ELSE k
               /\ LastOf(In(s, 2, wt), dft) = IF q = <<>> THEN dft ELSE y
    <3>1. Sent(1, 0, k) \in Sendable /\ Sent(2, wt, y) \in Sendable /\ wt \in {0, 1, 2, 5} /\ 0 \in {0, 1, 2, 5}
      BY <1>0, <1>1, <1>2
    <3>2. p \in MaybeForm(Sent(1, 0, k)) /\ q \in MaybeForm(Sent(2, wt, y)) /\ s = p \o q
      BY <1>3
    <3>3. /\ LastOf(In(p \o q, 1, 0), dft) = IF p = <<>> THEN dft ELSE k
          /\ LastOf(In(p \o q, 2, wt), dft) = IF q = <<>> THEN dft ELSE y
      BY <3>1, <3>2, PairLast
    <3>. QED BY <3>2, <3>3
  <2>. QED BY <1>3, <2>1
<1>5. EntryKey(s) = k
  BY <1>4 DEF EntryKey
<1>6. EntryVal(f, s) = v
  <2>1. CASE f \in Doubles
    <3>1. EntryVal(f, s) = 2 * NumberOf(LastOf(In(s, 2, 1), <<>>)) /\ wt = 1
      BY <1>0, <2>1 DEF EntryVal, wt
    <3>2. LastOf(In(s, 2, 1), <<>>) = y
      BY <1>4, <3>1
    <3>3. EntryVal(f, s) = 2 * (v \div 2)
      BY <1>2, <2>1, <3>1, <3>2
    <3>4. v \in 0 .. Word - 1 /\ v % 2 = 0
      BY <1>0, <2>1
    <3>. QED BY <3>3, <3>4, Widths
  <2>2. CASE f \in Names
    BY <1>0, <1>4, <2>2 DEF EntryVal, wt, y
  <2>3. CASE f \notin Doubles \cup Names
    BY <1>0, <1>4, <2>3 DEF EntryVal, wt, y
  <2>. QED BY <2>1, <2>2, <2>3
<1>. QED BY <1>5, <1>6

-----------------------------------------------------------------------------
(* Times.  Words stand for the numbers that they were taken from.          *)
LEMMA ModIs ==
  ASSUME NEW w \in Nat, w > 0, NEW q \in Int, NEW r \in 0 .. w - 1
  PROVE  (w * q + r) % w = r /\ (w * q + r) \div w = q
<1>. DEFINE x == w * q + r
<1>1. x \in Int
  OBVIOUS
<1>. DEFINE a == x \div w
            b == x % w
<1>2. a \in Int /\ b \in Int /\ 0 <= b /\ b < w /\ x = w * a + b
  BY <1>1, Z3
<1>. HIDE DEF a, b
<1>3. w * a + b = w * q + r
  BY <1>2
<1>4. ~(a < q)
  <2>1. ASSUME a < q PROVE FALSE
    <3>1. w * (a + 1) <= w * q
      BY <1>2, <2>1, Z3
    <3>2. w * (a + 1) = w * a + w
      BY <1>2, Z3
    <3>3. w * a \in Int /\ w * q \in Int
      BY <1>2
    <3>. QED BY <1>2, <1>3, <3>1, <3>2, <3>3
  <2>. QED BY <2>1
<1>5. ~(q < a)
  <2>1. ASSUME q < a PROVE FALSE
    <3>1. w * (q + 1) <= w * a
      BY <1>2, <2>1, Z3
    <3>2. w * (q + 1) = w * q + w
      BY Z3
    <3>3. w * a \in Int /\ w * q \in Int
      BY <1>2
    <3>. QED BY <1>2, <1>3, <3>1, <3>2, <3>3
  <2>. QED BY <2>1
<1>6. a = q
  BY <1>2, <1>4, <1>5
<1>7. b = r
  <2>1. w * q \in Int
    OBVIOUS
  <2>. QED BY <1>2, <1>3, <1>6, <2>1
<1>. QED BY <1>6, <1>7 DEF a, b

LEMMA ModSmall ==
  ASSUME NEW w \in Nat, w > 0, NEW x \in -w .. w - 1
  PROVE  x % w = IF x >= 0 THEN x ELSE x + w
<1>1. CASE x >= 0
  <2>1. x \in 0 .. w - 1 /\ w * 0 + x = x /\ 0 \in Int
    BY <1>1
  <2>2. (w * 0 + x) % w = x
    BY <2>1, ModIs
  <2>. QED BY <1>1, <2>1, <2>2
<1>2. CASE x < 0
  <2>1. x + w \in 0 .. w - 1 /\ w * (-1) + (x + w) = x /\ -1 \in Int
    BY <1>2
  <2>2. (w * (-1) + (x + w)) % w = x + w
    BY <2>1, ModIs
  <2>. QED BY <1>2, <2>1, <2>2
<1>. QED BY <1>1, <1>2

LEMMA SignedOf ==
  ASSUME NEW h \in Nat \ {0}, NEW v \in -h .. h - 1
  PROVE  Signed(v % (2 * h), 2 * h) = v /\ (v % (2 * h) = 0 => v = 0)
<1>1. 2 * h \in Nat /\ 2 * h > 0 /\ v \in -(2 * h) .. (2 * h) - 1 /\ v \in Int
  OBVIOUS
<1>2. v % (2 * h) = IF v >= 0 THEN v ELSE v + 2 * h
  BY <1>1, ModSmall
<1>3. (2 * h) \div 2 = h
  OBVIOUS
<1>. DEFINE u == v % (2 * h)
<1>. HIDE DEF u
<1>4. u = IF v >= 0 THEN v ELSE v + 2 * h
  BY <1>2 DEF u
<1>5. Signed(u, 2 * h) = v /\ (u = 0 => v = 0)
  BY <1>3, <1>4 DEF Signed
<1>. QED BY <1>5 DEF u

LEMMA SecondsSigned ==
  ASSUME NEW v \in Signs
  PROVE  Signed(v % Word, Word) = v /\ (v % Word = 0 => v = 0)
<1>. DEFINE h == Word \div 2
<1>1. h \in Nat \ {0} /\ Word = 2 * h
  BY HalfWord, WidthsAssumption, Widths
<1>2. v \in -h .. h - 1
  BY DEF Signs
<1>. HIDE DEF h
<1>3. Signed(v % (2 * h), 2 * h) = v /\ (v % (2 * h) = 0 => v = 0)
  BY <1>1, <1>2, SignedOf
<1>. QED BY <1>1, <1>3, Zenon

(* Nanoseconds, of which a second has fewer than an int32 can tell.        *)
LEMMA NanosSigned ==
  ASSUME NEW r \in Int, -Second < r, r < Second
  PROVE  /\ Signed((r % Word) % Word4, Word4) = r
         /\ ((r % Word) % Word4 = 0) <=> (r = 0)
<1>1. /\ Second \in Nat /\ Second > 0 /\ Word4 \in Nat /\ 2 * Second <= Word4 /\ Word4 <= Word
      /\ Word \in Nat /\ Word > 0 /\ Word4 > 0
  BY WellKnownAssumption, Widths
<1>2. r \in -Word .. Word - 1 /\ r \in -Word4 .. Word4 - 1
  BY <1>1
<1>3. r % Word = IF r >= 0 THEN r ELSE r + Word
  BY <1>1, <1>2, ModSmall
<1>4. (r % Word) % Word4 = IF r >= 0 THEN r ELSE r + Word4
  <2>1. CASE r >= 0
    <3>1. r % Word4 = r
      BY <1>1, <1>2, <2>1, ModSmall
    <3>. QED BY <1>3, <2>1, <3>1
  <2>2. CASE ~(r >= 0)
    <3>. DEFINE q == Word \div Word4
    <3>1. q \in Int /\ Word = Word4 * q
      <4>1. q \in Nat /\ Word % Word4 \in Nat /\ Word = Word4 * q + (Word % Word4)
        BY <1>1, Divides
      <4>2. Word % Word4 = 0
        BY WidthsAssumption
      <4>3. Word4 * q \in Int
        BY <1>1, <4>1
      <4>. HIDE DEF q
      <4>. QED BY <4>1, <4>2, <4>3
    <3>. HIDE DEF q
    <3>2. q - 1 \in Int /\ r + Word4 \in 0 .. Word4 - 1
      BY <1>1, <1>2, <2>2, <3>1
    <3>3. (Word4 * (q - 1) + (r + Word4)) % Word4 = r + Word4
      BY <1>1, <3>2, ModIs
    <3>4. Word4 * (q - 1) = Word4 * q - Word4
      BY <1>1, <3>1, Z3
    <3>5. Word4 * (q - 1) + (r + Word4) = r + Word
      BY <1>1, <3>1, <3>4
    <3>6. r % Word = r + Word
      BY <1>3, <2>2
    <3>. QED BY <2>2, <3>3, <3>5, <3>6
  <2>. QED BY <2>1, <2>2
<1>. DEFINE u == (r % Word) % Word4
            h == Word4 \div 2
<1>. HIDE DEF u
<1>5. u = IF r >= 0 THEN r ELSE r + Word4
  BY <1>4 DEF u
<1>6. h \in Nat /\ Word4 - 1 <= 2 * h /\ 2 * h <= Word4
  BY <1>1
<1>7. u < h <=> r >= 0
  <2>. HIDE DEF h
  <2>. QED BY <1>1, <1>5, <1>6
<1>8. Signed(u, Word4) = r /\ (u = 0 <=> r = 0)
  BY <1>1, <1>5, <1>7 DEF Signed
<1>. QED BY <1>8 DEF u

(* The body of a time holds its seconds and its nanoseconds, as words.     *)
LEMMA BodyRead ==
  ASSUME NEW secs \in Int, NEW nanos \in Int, NEW b, b = TSBody(secs, nanos)
  PROVE  /\ LastOf(In(b, 1, 0), 0) = secs % Word
         /\ LastOf(In(b, 2, 0), 0) = nanos % Word
<1>. DEFINE x == secs % Word
            y == nanos % Word
            p == IF secs = 0 THEN <<>> ELSE Form(Sent(1, 0, x))
            q == IF nanos = 0 THEN <<>> ELSE Form(Sent(2, 0, y))
<1>1. /\ x \in 0 .. Word - 1 /\ y \in 0 .. Word - 1
      /\ (secs = 0 => x = 0) /\ (nanos = 0 => y = 0)
  BY Widths
<1>. HIDE DEF x, y
<1>2. Tag(1, 0) = <<8>> /\ Tag(2, 0) = <<16>>
  <2>1. 8 \in 0 .. Word - 1 /\ 16 \in 0 .. Word - 1 /\ 8 < Base /\ 16 < Base
    BY EncoderAssumption, WellKnownAssumption, Widths
  <2>2. EncodeVarint[8] = <<8>> /\ EncodeVarint[16] = <<16>>
    BY <2>1, OneByte
  <2>3. 8 * 1 + 0 = 8 /\ 8 * 2 + 0 = 16
    OBVIOUS
  <2>. QED BY <2>2, <2>3 DEF Tag
<1>3. /\ Sent(1, 0, x) \in Sendable /\ VarintField(1, x) = Form(Sent(1, 0, x))
      /\ Sent(2, 0, y) \in Sendable /\ VarintField(2, y) = Form(Sent(2, 0, y))
  BY <1>1, SentIs
<1>4. VarintField(1, x) = <<8>> \o EncodeVarint[x] /\ VarintField(2, y) = <<16>> \o EncodeVarint[y]
  BY <1>2, Zenon DEF VarintField
<1>5. b = p \o q
  <2>1. b = (IF secs = 0 THEN <<>> ELSE <<8>> \o EncodeVarint[x])
            \o (IF nanos = 0 THEN <<>> ELSE <<16>> \o EncodeVarint[y])
    BY Zenon DEF TSBody, x, y
  <2>. QED BY <1>3, <1>4, <2>1
<1>6. /\ p \in MaybeForm(Sent(1, 0, x)) /\ q \in MaybeForm(Sent(2, 0, y)) /\ 0 \in {0, 1, 2, 5}
      /\ (p = <<>> <=> secs = 0) /\ (q = <<>> <=> nanos = 0)
  <2>1. Form(Sent(1, 0, x)) # <<>> /\ Form(Sent(2, 0, y)) # <<>>
    BY <1>3, FormNotEmpty
  <2>. QED BY <2>1 DEF MaybeForm
<1>. HIDE DEF p, q
<1>7. /\ LastOf(In(b, 1, 0), 0) = IF p = <<>> THEN 0 ELSE x
      /\ LastOf(In(b, 2, 0), 0) = IF q = <<>> THEN 0 ELSE y
  BY <1>3, <1>5, <1>6, PairLast
<1>8. LastOf(In(b, 1, 0), 0) = x /\ LastOf(In(b, 2, 0), 0) = y
  BY <1>1, <1>6, <1>7
<1>. QED BY <1>8 DEF x, y

LEMMA TimeCopies ==
  ASSUME NEW t \in Int, t \div Second \in Signs
  PROVE  TimeRead(EncodeTimestamp(t)) = [ns |-> IF t = 0 THEN ZeroTime ELSE t, zone |-> "UTC"]
<1>. DEFINE a == t \div Second
            c == t % Second
            b == EncodeTimestamp(t)
            x == LastOf(In(b, 1, 0), 0)
            y == LastOf(In(b, 2, 0), 0)
<1>1. Second \in Nat /\ Second > 0 /\ ZeroTime \in Int /\ ZeroTime < 0
  BY WellKnownAssumption
<1>2. a \in Int /\ c \in 0 .. Second - 1 /\ t = Second * a + c
  BY <1>1, Z3
<1>3. a \in Signs
  OBVIOUS
<1>4. TSBody(0, 0) = <<>>
  <2>1. <<>> \o <<>> = <<>>
    OBVIOUS
  <2>. QED BY <2>1 DEF TSBody
<1>5. b = IF t = ZeroTime THEN TSBody(0, 0) ELSE TSBody(a, c)
  BY <1>4, Zenon DEF EncodeTimestamp
<1>. HIDE DEF a, c, b
<1>6. CASE t = ZeroTime
  <2>1. b = TSBody(0, 0) /\ 0 \in Int
    BY <1>5, <1>6
  <2>2. x = 0 % Word /\ y = 0 % Word
    BY <2>1, BodyRead
  <2>3. 0 % Word = 0 /\ 0 % Word4 = 0
    BY Widths, WellKnownAssumption
  <2>4. x = 0 /\ y = 0
    BY <2>2, <2>3
  <2>. HIDE DEF x, y
  <2>5. DecodeTimestamp(x, y) = ZeroTime
    BY <2>3, <2>4 DEF DecodeTimestamp
  <2>6. TimeRead(b) = [ns |-> DecodeTimestamp(x, y), zone |-> "UTC"]
    BY Zenon DEF TimeRead, x, y
  <2>. QED BY <1>1, <1>6, <2>5, <2>6 DEF b
<1>7. CASE t # ZeroTime
  <2>1. b = TSBody(a, c) /\ c \in Int
    BY <1>1, <1>2, <1>5, <1>7
  <2>2. x = a % Word /\ y = c % Word
    BY <1>2, <2>1, BodyRead
  <2>. HIDE DEF x, y
  <2>3. Signed(x, Word) = a /\ (x = 0 <=> a = 0)
    <3>1. Signed(a % Word, Word) = a /\ (a % Word = 0 => a = 0)
      BY <1>3, SecondsSigned
    <3>2. 0 % Word = 0
      BY Widths
    <3>. QED BY <2>2, <3>1, <3>2
  <2>4. Signed(y % Word4, Word4) = c /\ (y % Word4 = 0 <=> c = 0)
    <3>1. c \in Int /\ -Second < c /\ c < Second
      BY <1>1, <1>2
    <3>2. Signed((c % Word) % Word4, Word4) = c /\ ((c % Word) % Word4 = 0 <=> c = 0)
      BY <3>1, NanosSigned
    <3>. QED BY <2>2, <3>2, Zenon
  <2>5. a * Second + c = t
    BY <1>1, <1>2, Z3
  <2>6. a = 0 /\ c = 0 <=> t = 0
    <3>1. a = 0 /\ c = 0 => t = 0
      BY <1>1, <1>2
    <3>2. t = 0 => a = 0 /\ c = 0
      BY <1>1, <1>2 DEF a, c
    <3>. QED BY <3>1, <3>2
  <2>7. DecodeTimestamp(x, y) = IF a = 0 /\ c = 0 THEN ZeroTime ELSE a * Second + c
    BY <2>3, <2>4, Zenon DEF DecodeTimestamp
  <2>8. DecodeTimestamp(x, y) = IF t = 0 THEN ZeroTime ELSE t
    BY <2>5, <2>6, <2>7
  <2>9. TimeRead(b) = [ns |-> DecodeTimestamp(x, y), zone |-> "UTC"]
    BY Zenon DEF TimeRead, x, y
  <2>. QED BY <2>8, <2>9 DEF b
<1>. QED BY <1>6, <1>7

LEMMA SpanCopies ==
  ASSUME NEW d \in Signs
  PROVE  SpanRead(EncodeDuration(d)) = d
<1>. DEFINE a == Truncated(d)
            c == d - a * Second
            b == EncodeDuration(d)
            x == LastOf(In(b, 1, 0), 0)
            y == LastOf(In(b, 2, 0), 0)
            h == Word \div 2
<1>1. Second \in Nat /\ Second > 0
  BY WellKnownAssumption
<1>2. h \in Nat /\ d \in Int /\ d \in -h .. h - 1
  BY Widths DEF Signs
<1>. HIDE DEF h
<1>3. a \in Int /\ a \in -h .. h - 1 /\ c \in Int /\ -Second < c /\ c < Second
  <2>1. CASE d >= 0
    <3>. DEFINE k == d \div Second
    <3>1. k \in Int /\ 0 <= d - Second * k /\ d - Second * k < Second
      BY <1>1, <1>2, Z3
    <3>2. a = k
      BY <2>1 DEF Truncated
    <3>. HIDE DEF k, a
    <3>3. 0 <= k /\ k <= d
      BY <1>1, <1>2, <2>1, <3>1, Z3
    <3>4. c \in Int /\ c = d - Second * k
      BY <1>1, <1>2, <3>1, <3>2
    <3>. HIDE DEF c
    <3>5. 0 <= c /\ c < Second
      BY <3>1, <3>4
    <3>. QED BY <1>1, <1>2, <3>1, <3>2, <3>3, <3>4, <3>5
  <2>2. CASE ~(d >= 0)
    <3>. DEFINE e == -d
                k == e \div Second
    <3>0. e \in Int /\ e > 0
      BY <1>2, <2>2
    <3>. HIDE DEF e
    <3>1. k \in Int /\ 0 <= e - Second * k /\ e - Second * k < Second
      BY <1>1, <3>0, Z3
    <3>2. a = -k
      BY <2>2 DEF Truncated, e
    <3>. HIDE DEF k, a
    <3>3. 0 <= k /\ k <= e
      BY <1>1, <3>0, <3>1, Z3
    <3>4. c \in Int /\ c = -(e - Second * k)
      <4>1. (-k) * Second = -(Second * k)
        BY <1>1, <3>1, Z3
      <4>2. Second * k \in Int /\ d = -e
        BY <1>1, <1>2, <3>1 DEF e
      <4>3. c = d - (-k) * Second
        BY <3>2
      <4>. HIDE DEF c
      <4>. QED BY <3>0, <4>1, <4>2, <4>3
    <3>5. e - Second * k \in Int
      BY <1>1, <3>0, <3>1
    <3>. HIDE DEF c
    <3>6. -Second < c /\ c <= 0
      BY <1>1, <3>1, <3>4, <3>5
    <3>7. a \in -h .. h - 1 /\ a \in Int
      BY <1>2, <3>0, <3>1, <3>2, <3>3 DEF e
    <3>. QED BY <1>1, <3>4, <3>6, <3>7
  <2>. QED BY <2>1, <2>2
<1>4. a \in Signs
  BY <1>3 DEF Signs, h
<1>5. b = TSBody(a, c)
  BY Zenon DEF EncodeDuration
<1>6. a * Second + c = d
  <2>1. a * Second \in Int
    BY <1>1, <1>3
  <2>. HIDE DEF a
  <2>. QED BY <1>2, <2>1
<1>. HIDE DEF a, c, b
<1>7. x = a % Word /\ y = c % Word
  BY <1>3, <1>5, BodyRead
<1>. HIDE DEF x, y
<1>8. Signed(x, Word) = a
  BY <1>4, <1>7, SecondsSigned
<1>9. Signed(y % Word4, Word4) = c
  <2>1. Signed((c % Word) % Word4, Word4) = c
    BY <1>3, NanosSigned
  <2>. QED BY <1>7, <2>1, Zenon
<1>10. DecodeDuration(x, y) = Signed((a * Second + c) % Word, Word)
  BY <1>8, <1>9, Zenon DEF DecodeDuration
<1>11. DecodeDuration(x, y) = Signed(d % Word, Word)
  BY <1>6, <1>10, Zenon
<1>12. Signed(d % Word, Word) = d
  BY SecondsSigned
<1>13. SpanRead(b) = DecodeDuration(x, y)
  BY Zenon DEF SpanRead, x, y
<1>. QED BY <1>11, <1>12, <1>13, Zenon DEF b

-----------------------------------------------------------------------------
(* What a field is read back as.                                           *)
KidRaws   == [k \in Kids \cup {Nil} |-> IF k = Nil THEN <<>> ELSE <<KidBytes(k)>>]
KidsThere == [k \in Kids \cup {Nil} |-> IF k = Nil THEN <<>> ELSE <<k>>]

Back(f, v) ==
  CASE f \in Stamp -> [ns |-> IF v.ns = 0 THEN ZeroTime ELSE v.ns, zone |-> "UTC"]
    [] f \in Elem  -> Mapped(v, KidsThere)
    [] OTHER       -> v

(* The values of the records that a field is written as.                   *)
EntryOf(f, v, k) == VarintField(1, k) \o ValueBytes(f, v[k])

RawsOf(f, v) ==
  CASE f \in Text \cup Digest -> <<v>>
    [] f \in Texts  -> v
    [] f \in Num \cup Opt -> <<ScalarRaw(f, v)>>
    [] f \in Packed -> <<PackedBody(f, v)>>
    [] f \in Maps   -> [j \in DOMAIN Ascending(DOMAIN v) |-> EntryOf(f, v, Ascending(DOMAIN v)[j])]
    [] f \in Stamp  -> <<EncodeTimestamp(v.ns)>>
    [] f \in Span   -> <<EncodeDuration(v)>>
    [] f \in Ptr \cup Inl -> <<KidBytes(v)>>
    [] f \in Elem   -> Mapped(v, KidRaws)

Fitting(f)    == {x \in Holdable : Sent(f, WireOf(f), x) \in Sendable}
Recs(f, raws) == [j \in DOMAIN raws |-> Sent(f, WireOf(f), raws[j])]

Told(f, v, ks) ==
  /\ RawsOf(f, v) \in Seq(Fitting(f))
  /\ FieldBytes(f, v, ks) = Spelt(Recs(f, RawsOf(f, v)))
  /\ ValueRead(f, RawsOf(f, v)) = Back(f, v)
  /\ f \in Branch => Len(RawsOf(f, v)) = 1

LEMMA RecsAre ==
  ASSUME NEW f, NEW raws \in Seq(Fitting(f))
  PROVE  /\ Recs(f, raws) \in Seq(Sendable) /\ Len(Recs(f, raws)) = Len(raws)
         /\ \A j \in 1 .. Len(raws) : Recs(f, raws)[j] = Sent(f, WireOf(f), raws[j])
         /\ Spelt(Recs(f, raws)) = FlattenSeq([j \in DOMAIN raws |-> Form(Sent(f, WireOf(f), raws[j]))])
<1>. DEFINE z == Len(raws)
            cs == Recs(f, raws)
<1>1. z \in Nat /\ DOMAIN raws = 1 .. z /\ \A j \in 1 .. z : raws[j] \in Fitting(f)
  OBVIOUS
<1>2. cs = [j \in 1 .. z |-> Sent(f, WireOf(f), raws[j])]
  BY <1>1 DEF Recs
<1>3. \A j \in 1 .. z : Sent(f, WireOf(f), raws[j]) \in Sendable
  BY <1>1 DEF Fitting
<1>. HIDE DEF cs, z
<1>4. cs \in Seq(Sendable) /\ Len(cs) = z /\ DOMAIN cs = 1 .. z
  BY <1>1, <1>2, <1>3
<1>5. \A j \in 1 .. z : cs[j] = Sent(f, WireOf(f), raws[j])
  BY <1>2
<1>6. \A j \in 1 .. z : Forms[cs[j]] = Form(Sent(f, WireOf(f), raws[j]))
  BY <1>3, <1>5, FormsAre
<1>7. Images(cs, Forms) = [j \in DOMAIN raws |-> Form(Sent(f, WireOf(f), raws[j]))]
  BY <1>1, <1>4, <1>6 DEF Images
<1>8. Spelt(cs) = FlattenSeq([j \in DOMAIN raws |-> Form(Sent(f, WireOf(f), raws[j]))])
  BY <1>7, Zenon DEF Spelt, Mapped
<1>. QED BY <1>4, <1>5, <1>8 DEF cs, z

LEMMA OneRec ==
  ASSUME NEW f, NEW x \in Fitting(f)
  PROVE  /\ <<x>> \in Seq(Fitting(f)) /\ Len(<<x>>) = 1
         /\ Spelt(Recs(f, <<x>>)) = Form(Sent(f, WireOf(f), x))
<1>. DEFINE c == Sent(f, WireOf(f), x)
<1>1. Recs(f, <<x>>) = <<c>>
  BY DEF Recs
<1>2. c \in Sendable
  BY DEF Fitting
<1>. HIDE DEF c
<1>3. Mapped(<<c>>, Forms) = Forms[c] /\ Forms[c] = Form(c)
  BY <1>2, FormsAre, MappedOne
<1>. QED BY <1>1, <1>3 DEF Spelt, c

(* Records with a length.                                                  *)
LEMMA BodyFitting ==
  ASSUME NEW f \in Field, f \notin Num \cup Opt, NEW x, NEW z, Fits(x, z), z < Word
  PROVE  x \in Fitting(f) /\ LenDel(f, z, x) = Form(Sent(f, WireOf(f), x))
<1>1. x \in Seq(Byte) /\ Len(x) < Word /\ z = Len(x)
  BY DEF Fits
<1>2. Sent(f, 2, x) \in Sendable /\ LenDel(f, Len(x), x) = Form(Sent(f, 2, x))
  BY <1>1, SentIs
<1>3. WireOf(f) = 2
  BY DEF WireOf
<1>. QED BY <1>1, <1>2, <1>3 DEF Fitting, Holdable

LEMMA BodyTold ==
  ASSUME NEW f \in Field, f \notin Num \cup Opt, NEW v, NEW ks, NEW x, NEW z, Fits(x, z), z < Word,
         FieldBytes(f, v, ks) = LenDel(f, z, x), RawsOf(f, v) = <<x>>,
         ValueRead(f, <<x>>) = Back(f, v)
  PROVE  Told(f, v, ks)
<1>1. x \in Fitting(f) /\ LenDel(f, z, x) = Form(Sent(f, WireOf(f), x))
  BY BodyFitting
<1>2. /\ <<x>> \in Seq(Fitting(f)) /\ Len(<<x>>) = 1
      /\ Spelt(Recs(f, <<x>>)) = Form(Sent(f, WireOf(f), x))
  BY <1>1, OneRec
<1>. QED BY <1>1, <1>2 DEF Told

LEMMA TextTold ==
  ASSUME NEW f \in Text \cup Digest, NEW v, Proper(f, v), NEW ks
  PROVE  Told(f, v, ks)
<1>1. f \in Field /\ v \in Short /\ (f \in Digest => Len(v) = FixedLen) /\ f \notin Num \cup Opt
  BY OneKind DEF Proper, IsValue
<1>2. Fits(v, Len(v)) /\ Len(v) \in 0 .. Word - 1
  BY <1>1, ShortFits
<1>3. Len(v) < Word
  BY <1>2, Widths
<1>4. FieldBytes(f, v, ks) = LenDel(f, Len(v), v)
  BY <1>1, OneKind DEF FieldBytes
<1>5. RawsOf(f, v) = <<v>> /\ Back(f, v) = v
  BY OneKind DEF RawsOf, Back
<1>6. ValueRead(f, <<v>>) = v
  <2>1. ValueRead(f, <<v>>) = LastOf(<<v>>, ZeroOf(f))
    BY OneKind DEF ValueRead
  <2>. QED BY <2>1, LastOfOne
<1>. QED BY <1>1, <1>2, <1>3, <1>4, <1>5, <1>6, BodyTold

LEMMA TimeTold ==
  ASSUME NEW f \in Stamp \cup Span, NEW v, Proper(f, v), NEW ks
  PROVE  Told(f, v, ks)
<1>1. f \in Field /\ f \notin Num \cup Opt
  BY OneKind DEF Proper
<1>2. CASE f \in Stamp
  <2>. DEFINE x == EncodeTimestamp(v.ns)
              z == SizeTimestamp(v.ns)
  <2>1. v.ns \in Int /\ v.ns \div Second \in Signs
    BY <1>2, OneKind DEF Proper, IsValue
  <2>2. Fits(x, z) /\ z \in 0 .. Word - 1
    BY <2>1, TimesFit
  <2>3. FieldBytes(f, v, ks) = LenDel(f, z, x)
    BY <1>2, OneKind DEF FieldBytes
  <2>4. TimeRead(x) = [ns |-> IF v.ns = 0 THEN ZeroTime ELSE v.ns, zone |-> "UTC"]
    BY <2>1, TimeCopies
  <2>5. RawsOf(f, v) = <<x>>
    BY <1>2, OneKind DEF RawsOf
  <2>6. Back(f, v) = [ns |-> IF v.ns = 0 THEN ZeroTime ELSE v.ns, zone |-> "UTC"]
    BY <1>2, OneKind DEF Back
  <2>. HIDE DEF x, z
  <2>7. ValueRead(f, <<x>>) = TimeRead(x)
    <3>1. ValueRead(f, <<x>>) = IF <<x>> = <<>> THEN NoTime ELSE TimeRead(LastOf(<<x>>, <<>>))
      BY <1>2, OneKind DEF ValueRead
    <3>2. <<x>> # <<>>
      OBVIOUS
    <3>. QED BY <3>1, <3>2, LastOfOne
  <2>8. z < Word
    BY <2>2, Widths
  <2>. QED BY <1>1, <2>2, <2>3, <2>4, <2>5, <2>6, <2>7, <2>8, BodyTold
<1>3. CASE f \in Span
  <2>. DEFINE x == EncodeDuration(v)
              z == SizeDuration(v)
  <2>1. v \in Signs /\ v \in Int
    <3>1. v \in Signs
      BY <1>3, OneKind DEF Proper, IsValue
    <3>. QED BY <3>1 DEF Signs
  <2>2. Fits(x, z) /\ z \in 0 .. Word - 1
    BY <2>1, TimesFit
  <2>3. FieldBytes(f, v, ks) = LenDel(f, z, x)
    BY <1>3, OneKind DEF FieldBytes
  <2>4. SpanRead(x) = v
    BY <2>1, SpanCopies
  <2>5. RawsOf(f, v) = <<x>> /\ Back(f, v) = v
    BY <1>3, OneKind DEF RawsOf, Back
  <2>. HIDE DEF x, z
  <2>6. ValueRead(f, <<x>>) = SpanRead(x)
    <3>1. ValueRead(f, <<x>>) = SpanRead(LastOf(<<x>>, <<>>))
      BY <1>3, OneKind DEF ValueRead
    <3>. QED BY <3>1, LastOfOne
  <2>7. z < Word
    BY <2>2, Widths
  <2>. QED BY <1>1, <2>2, <2>3, <2>4, <2>5, <2>6, <2>7, BodyTold
<1>. QED BY <1>2, <1>3

LEMMA MessageTold ==
  ASSUME NEW f \in Ptr \cup Inl, NEW v, Proper(f, v), NEW ks
  PROVE  Told(f, v, ks)
<1>. DEFINE x == KidBytes(v)
            z == KidSize(v)
<1>1. f \in Field /\ v \in Kids /\ f \notin Num \cup Opt
  BY OneKind DEF Proper, IsValue
<1>2. Fits(x, z) /\ z \in 0 .. Word - 1 /\ KidRead(x) = v
  BY <1>1, KidFits, KidCopies
<1>3. FieldBytes(f, v, ks) = LenDel(f, z, x)
  BY OneKind DEF FieldBytes
<1>4. RawsOf(f, v) = <<x>> /\ Back(f, v) = v
  BY OneKind DEF RawsOf, Back
<1>. HIDE DEF x, z
<1>5. ValueRead(f, <<x>>) = KidRead(x)
  <2>1. <<x>> # <<>> /\ LastOf(<<x>>, <<>>) = x
    BY LastOfOne
  <2>2. CASE f \in Ptr
    <3>1. ValueRead(f, <<x>>) = IF <<x>> = <<>> THEN Nil ELSE KidRead(LastOf(<<x>>, <<>>))
      BY <2>2, OneKind DEF ValueRead
    <3>. QED BY <2>1, <3>1
  <2>3. CASE f \in Inl
    <3>1. ValueRead(f, <<x>>) = KidRead(LastOf(<<x>>, <<>>))
      BY <2>3, OneKind DEF ValueRead
    <3>. QED BY <2>1, <3>1
  <2>. QED BY <2>2, <2>3
<1>6. z < Word
  BY <1>2, Widths
<1>. QED BY <1>1, <1>2, <1>3, <1>4, <1>5, <1>6, BodyTold

LEMMA ScalarTold ==
  ASSUME NEW f \in Num \cup Opt, NEW v, Proper(f, v), NEW ks
  PROVE  Told(f, v, ks)
<1>. DEFINE x == ScalarRaw(f, v)
            c == Sent(f, WireOf(f), x)
<1>1. f \in Field /\ v \in Scalar(f) /\ WireOf(f) = ScalarType(f)
  BY OneKind DEF Proper, IsValue, WireOf
<1>2. /\ c \in Sendable /\ ScalarRead(f, x) = v
      /\ Tag(f, ScalarType(f)) \o ScalarBytes(f, v) = Form(c)
  <2>. HIDE DEF x, c
  <2>1. /\ Sent(f, ScalarType(f), x) \in Sendable /\ ScalarRead(f, x) = v
        /\ Tag(f, ScalarType(f)) \o ScalarBytes(f, v) = Form(Sent(f, ScalarType(f), x))
    BY <1>1, ScalarSent DEF x
  <2>2. c = Sent(f, ScalarType(f), x)
    BY <1>1 DEF c
  <2>. QED BY <2>1, <2>2
<1>3. FieldBytes(f, v, ks) = Tag(f, ScalarType(f)) \o ScalarBytes(f, v)
  BY OneKind DEF FieldBytes
<1>4. RawsOf(f, v) = <<x>> /\ Back(f, v) = v
  BY OneKind DEF RawsOf, Back
<1>5. c.val = x
  BY DEF Sent
<1>. HIDE DEF x
<1>6. x \in Fitting(f)
  <2>1. c \in Sendable /\ c.val = x
    BY <1>2, <1>5
  <2>2. x \in Holdable
    <3>. HIDE DEF c
    <3>. QED BY <2>1 DEF Sendable, Holdable
  <2>. QED BY <2>1, <2>2 DEF Fitting
<1>7. ValueRead(f, <<x>>) = ScalarRead(f, x)
  <2>1. <<x>> # <<>> /\ LastOf(<<x>>, 0) = x
    BY LastOfOne
  <2>2. ValueRead(f, <<x>>) = IF <<x>> = <<>> THEN ZeroOf(f) ELSE ScalarRead(f, LastOf(<<x>>, 0))
    BY OneKind DEF ValueRead
  <2>. QED BY <2>1, <2>2
<1>8. /\ <<x>> \in Seq(Fitting(f)) /\ Len(<<x>>) = 1
      /\ Spelt(Recs(f, <<x>>)) = Form(c)
  BY <1>6, OneRec
<1>. QED BY <1>2, <1>3, <1>4, <1>7, <1>8 DEF Told

LEMMA PackedTold ==
  ASSUME NEW f \in Packed, NEW v, Proper(f, v), NEW ks
  PROVE  Told(f, v, ks)
<1>. DEFINE x == PackedBody(f, v)
            z == PackedPrefix(f, v)
<1>1. f \in Field /\ v \in Seq(Scalar(f)) /\ f \notin Num \cup Opt
  BY OneKind DEF Proper, IsValue
<1>2. Fits(x, z) /\ z \in 0 .. Word - 1
  BY PackedFits
<1>3. PackedRead(f, x) = v
  <2>. DEFINE ss == [j \in DOMAIN v |-> ScalarBytes(f, v[j])]
  <2>1. x = FlattenSeq(ss)
    BY DEF PackedBody
  <2>2. ss = [j \in DOMAIN v |-> ScalarBytes(f, v[j])]
    OBVIOUS
  <2>. HIDE DEF ss
  <2>3. PackedRead(f, FlattenSeq(ss)) = v
    BY <1>1, <2>2, PackedCopies
  <2>. QED BY <2>1, <2>3
<1>4. FieldBytes(f, v, ks) = LenDel(f, z, x)
  BY OneKind DEF FieldBytes, PackedBody, Joined
<1>5. RawsOf(f, v) = <<x>> /\ Back(f, v) = v
  BY OneKind DEF RawsOf, Back
<1>. HIDE DEF x, z
<1>6. ValueRead(f, <<x>>) = v
  <2>. DEFINE ss == [j \in DOMAIN <<x>> |-> PackedRead(f, <<x>>[j])]
  <2>1. ValueRead(f, <<x>>) = FlattenSeq(ss)
    BY OneKind DEF ValueRead, Joined
  <2>2. ss = <<v>>
    <3>1. DOMAIN <<x>> = 1 .. 1 /\ <<x>>[1] = x
      OBVIOUS
    <3>2. ss = [j \in 1 .. 1 |-> v]
      BY <1>3, <3>1
    <3>. QED BY <3>2
  <2>. HIDE DEF ss
  <2>3. ss \in Seq(Seq(Scalar(f))) /\ Len(ss) = 1 /\ ss[1] = v
    BY <1>1, <2>2
  <2>4. FlattenSeq(ss) = IF 1 \in 1 .. Len(ss) THEN ss[1] ELSE <<>>
    <3>1. \A k \in 1 .. Len(ss) : k # 1 => ss[k] = <<>>
      BY <2>3
    <3>. QED BY <2>3, <3>1, FlattenOne
  <2>. QED BY <2>1, <2>3, <2>4
<1>7. z < Word
  BY <1>2, Widths
<1>. QED BY <1>1, <1>2, <1>4, <1>5, <1>6, <1>7, BodyTold

LEMMA TextsTold ==
  ASSUME NEW f \in Texts, NEW v, Proper(f, v), NEW ks
  PROVE  Told(f, v, ks)
<1>. DEFINE z == Len(v)
<1>1. f \in Field /\ v \in Seq(Short) /\ f \notin Num \cup Opt /\ f \notin Branch
  BY OneKind, EncoderAssumption DEF Proper, IsValue
<1>2. z \in Nat /\ DOMAIN v = 1 .. z
  BY <1>1
<1>3. ASSUME NEW j \in 1 .. z
      PROVE  /\ v[j] \in Fitting(f)
             /\ LenDel(f, Len(v[j]), v[j]) = Form(Sent(f, WireOf(f), v[j]))
  <2>1. v[j] \in Short
    BY <1>1
  <2>2. Fits(v[j], Len(v[j])) /\ Len(v[j]) \in 0 .. Word - 1
    BY <2>1, ShortFits
  <2>3. Len(v[j]) < Word
    BY <2>2, Widths
  <2>. QED BY <1>1, <2>2, <2>3, BodyFitting
<1>4. v \in Seq(Fitting(f))
  <2>1. v \in [1 .. z -> Fitting(f)]
    BY <1>1, <1>2, <1>3
  <2>. HIDE DEF z
  <2>. QED BY <1>2, <2>1
<1>5. RawsOf(f, v) = v /\ Back(f, v) = v /\ ValueRead(f, v) = v
  BY OneKind DEF RawsOf, Back, ValueRead
<1>6. FieldBytes(f, v, ks) = FlattenSeq([j \in DOMAIN v |-> LenDel(f, Len(v[j]), v[j])])
  BY OneKind DEF FieldBytes, Joined
<1>7. [j \in DOMAIN v |-> LenDel(f, Len(v[j]), v[j])]
      = [j \in DOMAIN v |-> Form(Sent(f, WireOf(f), v[j]))]
  BY <1>2, <1>3
<1>8. FieldBytes(f, v, ks) = Spelt(Recs(f, v))
  <2>1. Spelt(Recs(f, v)) = FlattenSeq([j \in DOMAIN v |-> Form(Sent(f, WireOf(f), v[j]))])
    BY <1>4, RecsAre
  <2>. QED BY <1>6, <1>7, <2>1, Zenon
<1>. QED BY <1>1, <1>4, <1>5, <1>8 DEF Told

(* A nil element is left out of the records, and of what is read back.     *)
LEMMA ElementsTold ==
  ASSUME NEW f \in Elem, NEW v, Proper(f, v), NEW ks
  PROVE  Told(f, v, ks)
<1>. DEFINE S    == Kids \cup {Nil}
            T    == {KidBytes(k) : k \in Kids}
            raws == Mapped(v, KidRaws)
            rec  == [x \in T |-> Form(Sent(f, WireOf(f), x))]
            kid  == [x \in T |-> KidRead(x)]
            G    == Each(T, kid)
            L    == [k \in S |-> IF k = Nil THEN <<>> ELSE LenDel(f, KidSize(k), KidBytes(k))]
<1>1. f \in Field /\ v \in Seq(S) /\ f \notin Num \cup Opt /\ f \notin Branch /\ Nil \notin Kids
  BY OneKind, EncoderAssumption DEF Proper, IsValue
<1>2. ASSUME NEW k \in Kids
      PROVE  /\ KidBytes(k) \in Fitting(f) /\ KidRead(KidBytes(k)) = k
             /\ LenDel(f, KidSize(k), KidBytes(k)) = Form(Sent(f, WireOf(f), KidBytes(k)))
             /\ Form(Sent(f, WireOf(f), KidBytes(k))) \in Seq(Byte)
  <2>1. Fits(KidBytes(k), KidSize(k)) /\ KidSize(k) \in 0 .. Word - 1
    BY KidFits
  <2>2. KidSize(k) < Word
    BY <2>1, Widths
  <2>3. /\ KidBytes(k) \in Fitting(f)
        /\ LenDel(f, KidSize(k), KidBytes(k)) = Form(Sent(f, WireOf(f), KidBytes(k)))
    BY <1>1, <2>1, <2>2, BodyFitting
  <2>4. Sent(f, WireOf(f), KidBytes(k)) \in Sendable
    BY <2>3 DEF Fitting
  <2>5. Form(Sent(f, WireOf(f), KidBytes(k))) \in Seq(Byte)
    BY <2>4, FormIs
  <2>. QED BY <2>3, <2>5, KidCopies
<1>3. /\ KidRaws \in Lists(S, T) /\ KidsThere \in Lists(S, Kids)
      /\ \A k \in Kids : KidRaws[k] = <<KidBytes(k)>> /\ KidsThere[k] = <<k>>
      /\ KidRaws[Nil] = <<>> /\ KidsThere[Nil] = <<>>
  <2>1. ASSUME NEW k \in S
        PROVE  /\ (IF k = Nil THEN <<>> ELSE <<KidBytes(k)>>) \in Seq(T)
               /\ (IF k = Nil THEN <<>> ELSE <<k>>) \in Seq(Kids)
    <3>1. CASE k = Nil
      BY <3>1
    <3>2. CASE k # Nil
      <4>1. k \in Kids /\ KidBytes(k) \in T
        BY <3>2
      <4>. HIDE DEF T
      <4>. QED BY <3>2, <4>1
    <3>. QED BY <3>1, <3>2
  <2>2. KidRaws \in Lists(S, T) /\ KidsThere \in Lists(S, Kids)
    <3>. HIDE DEF T
    <3>. QED BY <2>1 DEF KidRaws, KidsThere, Lists
  <2>. QED BY <1>1, <2>2 DEF KidRaws, KidsThere
<1>4. L \in Lists(S, Byte) /\ L[Nil] = <<>> /\ \A k \in Kids : L[k] = Form(Sent(f, WireOf(f), KidBytes(k)))
  BY <1>1, <1>2 DEF Lists
<1>5. ASSUME NEW k \in Kids
      PROVE  KidBytes(k) \in T
  OBVIOUS
<1>6. ASSUME NEW x \in T
      PROVE  x \in Fitting(f) /\ rec[x] \in Seq(Byte) /\ kid[x] \in Kids
  BY <1>2
<1>7. \A k \in Kids : rec[KidBytes(k)] = Form(Sent(f, WireOf(f), KidBytes(k))) /\ kid[KidBytes(k)] = k
  BY <1>2, <1>5
<1>8. rec \in Lists(T, Byte) /\ kid \in [T -> Kids]
  BY <1>6 DEF Lists
<1>9. raws \in Seq(T)
  BY <1>1, <1>3, ImagesAre
<1>10. /\ G \in Lists(T, Kids) /\ \A k \in Kids : G[KidBytes(k)] = <<k>>
      /\ [j \in DOMAIN raws |-> kid[raws[j]]] = Mapped(raws, G)
  <2>. HIDE DEF T, kid, raws
  <2>1. /\ Each(T, kid) \in Lists(T, Kids) /\ \A x \in T : Each(T, kid)[x] = <<kid[x]>>
        /\ [j \in DOMAIN raws |-> kid[raws[j]]] = Mapped(raws, Each(T, kid))
    BY <1>8, <1>9, MappedEach
  <2>. QED BY <1>5, <1>7, <2>1
<1>11. raws \in Seq(Fitting(f))
  <2>. HIDE DEF raws, T
  <2>1. T \subseteq Fitting(f)
    BY <1>6
  <2>. QED BY <1>9, <2>1
<1>12. Mapped(raws, rec) = Mapped(v, L)
  <2>. HIDE DEF rec, L, S, T
  <2>1. ASSUME NEW k \in S
        PROVE  Mapped(KidRaws[k], rec) = L[k]
    <3>1. CASE k = Nil
      BY <1>3, <1>4, <1>8, <3>1, MappedOne
    <3>2. CASE k # Nil
      <4>1. k \in Kids
        BY <3>2 DEF S
      <4>. DEFINE x == KidBytes(k)
      <4>2. x \in T /\ KidRaws[k] = <<x>> /\ rec[x] = L[k]
        BY <1>3, <1>4, <1>5, <1>7, <4>1
      <4>. HIDE DEF x
      <4>3. Mapped(<<x>>, rec) = rec[x]
        BY <1>8, <4>2, MappedOne
      <4>. QED BY <4>2, <4>3
    <3>. QED BY <3>1, <3>2
  <2>. QED BY <1>1, <1>3, <1>4, <1>8, <2>1, MappedTwice
<1>13. Mapped(raws, G) = Mapped(v, KidsThere)
  <2>. HIDE DEF G, S, T
  <2>1. ASSUME NEW k \in S
        PROVE  Mapped(KidRaws[k], G) = KidsThere[k]
    <3>1. CASE k = Nil
      BY <1>3, <1>10, <3>1, MappedOne
    <3>2. CASE k # Nil
      <4>1. k \in Kids
        BY <3>2 DEF S
      <4>. DEFINE x == KidBytes(k)
      <4>2. x \in T /\ KidRaws[k] = <<x>> /\ G[x] = KidsThere[k]
        BY <1>3, <1>5, <1>10, <4>1
      <4>. HIDE DEF x
      <4>3. Mapped(<<x>>, G) = G[x]
        BY <1>10, <4>2, MappedOne
      <4>. QED BY <4>2, <4>3
    <3>. QED BY <3>1, <3>2
  <2>. QED BY <1>1, <1>3, <1>10, <2>1, MappedTwice
<1>14. FieldBytes(f, v, ks) = Mapped(v, L)
  <2>1. FieldBytes(f, v, ks)
        = FlattenSeq([j \in DOMAIN v |-> IF v[j] = Nil THEN <<>> ELSE LenDel(f, KidSize(v[j]), KidBytes(v[j]))])
    BY OneKind DEF FieldBytes, Joined
  <2>2. \A j \in DOMAIN v : v[j] \in S
    BY <1>1
  <2>3. [j \in DOMAIN v |-> IF v[j] = Nil THEN <<>> ELSE LenDel(f, KidSize(v[j]), KidBytes(v[j]))]
        = Images(v, L)
    BY <2>2 DEF Images
  <2>. QED BY <2>1, <2>3, Zenon DEF Mapped
<1>15. Spelt(Recs(f, raws)) = Mapped(raws, rec)
  <2>1. Spelt(Recs(f, raws)) = FlattenSeq([j \in DOMAIN raws |-> Form(Sent(f, WireOf(f), raws[j]))])
    BY <1>11, RecsAre
  <2>. HIDE DEF raws, T
  <2>2. \A j \in DOMAIN raws : raws[j] \in T
    BY <1>9
  <2>3. [j \in DOMAIN raws |-> Form(Sent(f, WireOf(f), raws[j]))] = Images(raws, rec)
    BY <2>2 DEF Images
  <2>. QED BY <2>1, <2>3, Zenon DEF Mapped
<1>16. RawsOf(f, v) = raws /\ Back(f, v) = Mapped(v, KidsThere)
  BY OneKind DEF RawsOf, Back
<1>17. ValueRead(f, raws) = Mapped(v, KidsThere)
  <2>1. ValueRead(f, raws) = [j \in DOMAIN raws |-> KidRead(raws[j])]
    <3>. HIDE DEF raws
    <3>. QED BY OneKind DEF ValueRead
  <2>. HIDE DEF raws
  <2>2. \A j \in DOMAIN raws : raws[j] \in T
    <3>. HIDE DEF T
    <3>. QED BY <1>9
  <2>3. [j \in DOMAIN raws |-> KidRead(raws[j])] = [j \in DOMAIN raws |-> kid[raws[j]]]
    <3>. HIDE DEF T
    <3>. QED BY <2>2
  <2>. QED BY <1>10, <1>13, <2>1, <2>3, Zenon
<1>. HIDE DEF raws
<1>. QED BY <1>1, <1>11, <1>12, <1>14, <1>15, <1>16, <1>17 DEF Told

(* The doubles of a map are whole numbers: its values count halves.        *)
WholeDoubles(f, v) == f \in Doubles => \A k \in DOMAIN v : v[k] % 2 = 0

(* What the value of an entry is.                                          *)
Entered(f, v) ==
  /\ IF f \in Names THEN v \in Short ELSE v \in 0 .. Word - 1
  /\ f \in Doubles => v % 2 = 0

LEMMA EntryCopied ==
  \A f \in Maps, k \in 0 .. Word - 1 : \A v :
    Entered(f, v) => LET s == VarintField(1, k) \o ValueBytes(f, v)
                     IN  EntryKey(s) = k /\ EntryVal(f, s) = v
<1>. SUFFICES ASSUME NEW f \in Maps, NEW k \in 0 .. Word - 1, NEW v, Entered(f, v)
              PROVE  LET s == VarintField(1, k) \o ValueBytes(f, v)
                     IN  EntryKey(s) = k /\ EntryVal(f, s) = v
  OBVIOUS
<1>. DEFINE s == VarintField(1, k) \o ValueBytes(f, v)
<1>1. /\ f \in Names => v \in Short
      /\ f \notin Names => v \in 0 .. Word - 1
      /\ f \in Doubles => v % 2 = 0
  BY DEF Entered
<1>2. EntryKey(s) = k /\ EntryVal(f, s) = v
  BY <1>1, EntryCopies
<1>. QED BY <1>2

LEMMA EntryTold ==
  ASSUME NEW f \in Maps, NEW v, Proper(f, v), WholeDoubles(f, v), NEW k \in DOMAIN v
  PROVE  /\ EntryOf(f, v, k) \in Fitting(f)
         /\ LenDel(f, EntrySize(f, k, v[k]), EntryOf(f, v, k)) = Form(Sent(f, WireOf(f), EntryOf(f, v, k)))
         /\ EntryKey(EntryOf(f, v, k)) = k /\ EntryVal(f, EntryOf(f, v, k)) = v[k]
<1>. DEFINE u == v[k]
            x == EntryOf(f, v, k)
            z == EntrySize(f, k, u)
<1>1. f \in Field /\ IsValue(f, v) /\ f \notin Num \cup Opt
  BY OneKind DEF Proper
<1>2. k \in 0 .. Word - 1
  BY <1>1, KeysAreFinite
<1>3. (f \in Names => u \in Short) /\ (f \notin Names => u \in 0 .. Word - 1)
  BY <1>1, OneKind DEF IsValue, IsMap
<1>4. f \in Doubles => u % 2 = 0
  BY DEF WholeDoubles
<1>5. x = VarintField(1, k) \o ValueBytes(f, u)
  BY DEF EntryOf
<1>. HIDE DEF u, x, z
<1>6. Fits(x, z) /\ z \in 0 .. Word - 1
  BY <1>2, <1>3, <1>5, EntryFits DEF z
<1>7. EntryKey(x) = k /\ EntryVal(f, x) = u
  <2>1. Entered(f, u)
    BY <1>3, <1>4 DEF Entered
  <2>. QED BY <1>2, <1>5, <2>1, EntryCopied
<1>8. z < Word
  BY <1>6, Widths
<1>9. x \in Fitting(f) /\ LenDel(f, z, x) = Form(Sent(f, WireOf(f), x))
  BY <1>1, <1>6, <1>8, BodyFitting
<1>. QED BY <1>7, <1>9 DEF x, u, z

LEMMA MapTold ==
  ASSUME NEW f \in Maps, NEW v, Proper(f, v), WholeDoubles(f, v), NEW ks, ToSet(ks) = DOMAIN v
  PROVE  Told(f, v, ks)
<1>. DEFINE S    == DOMAIN v
            o    == Ascending(S)
            z    == Cardinality(S)
            raws == [j \in DOMAIN o |-> EntryOf(f, v, o[j])]
<1>1. f \in Field /\ IsValue(f, v) /\ f \notin Branch
  BY OneKind, EncoderAssumption DEF Proper
<1>2. v = [k \in S |-> v[k]]
  BY <1>1, OneKind DEF IsValue, IsMap
<1>3. S \in SUBSET Int /\ IsFiniteSet(S)
  BY <1>1, KeysAreFinite
<1>4. /\ z \in Nat /\ DOMAIN o = 1 .. z /\ \A j \in 1 .. z : o[j] \in S
      /\ \A k \in S : \E j \in 1 .. z : o[j] = k
      /\ \A i, j \in 1 .. z : o[i] = o[j] => i = j
  <2>. HIDE DEF S
  <2>1. /\ z \in Nat /\ DOMAIN o = 1 .. z /\ o \in Seq(S) /\ Len(o) = z
        /\ \A k \in S : \E j \in 1 .. z : o[j] = k
        /\ \A i, j \in 1 .. z : o[i] = o[j] => i = j
    BY <1>3, AscendingIs
  <2>. HIDE DEF o, z
  <2>2. \A j \in 1 .. z : o[j] \in S
    BY <2>1
  <2>. QED BY <2>1, <2>2
<1>5. FieldBytes(f, v, ks)
      = FlattenSeq([j \in DOMAIN o |-> LenDel(f, EntrySize(f, o[j], v[o[j]]), EntryOf(f, v, o[j]))])
  BY OneKind DEF FieldBytes, Joined, KeyOrder, EntryOf
<1>6. RawsOf(f, v) = raws /\ Back(f, v) = v
  BY OneKind DEF RawsOf, Back
<1>7. ASSUME NEW k \in S
      PROVE  /\ EntryOf(f, v, k) \in Fitting(f)
             /\ LenDel(f, EntrySize(f, k, v[k]), EntryOf(f, v, k)) = Form(Sent(f, WireOf(f), EntryOf(f, v, k)))
             /\ EntryKey(EntryOf(f, v, k)) = k /\ EntryVal(f, EntryOf(f, v, k)) = v[k]
  BY EntryTold
<1>. HIDE DEF S, o, z, raws
<1>8. /\ raws = [j \in 1 .. z |-> EntryOf(f, v, o[j])] /\ DOMAIN raws = 1 .. z
      /\ \A j \in 1 .. z : raws[j] = EntryOf(f, v, o[j])
  BY <1>4 DEF raws
<1>9. ASSUME NEW j \in 1 .. z
      PROVE  /\ raws[j] \in Fitting(f) /\ EntryKey(raws[j]) = o[j] /\ EntryVal(f, raws[j]) = v[o[j]]
             /\ LenDel(f, EntrySize(f, o[j], v[o[j]]), EntryOf(f, v, o[j])) = Form(Sent(f, WireOf(f), raws[j]))
  <2>1. o[j] \in S /\ raws[j] = EntryOf(f, v, o[j])
    BY <1>4, <1>8
  <2>. QED BY <1>7, <2>1
<1>10. raws \in Seq(Fitting(f))
  <2>1. raws \in [1 .. z -> Fitting(f)]
    BY <1>8, <1>9
  <2>. QED BY <1>4, <2>1
<1>11. FieldBytes(f, v, ks) = Spelt(Recs(f, raws))
  <2>1. [j \in DOMAIN o |-> LenDel(f, EntrySize(f, o[j], v[o[j]]), EntryOf(f, v, o[j]))]
        = [j \in DOMAIN raws |-> Form(Sent(f, WireOf(f), raws[j]))]
    BY <1>4, <1>8, <1>9
  <2>2. Spelt(Recs(f, raws)) = FlattenSeq([j \in DOMAIN raws |-> Form(Sent(f, WireOf(f), raws[j]))])
    BY <1>10, RecsAre
  <2>. QED BY <1>5, <2>1, <2>2, Zenon
<1>12. {EntryKey(b) : b \in ToSet(raws)} = S
  <2>1. ToSet(raws) = {raws[j] : j \in 1 .. z}
    BY <1>8 DEF ToSet
  <2>. QED BY <1>4, <1>9, <2>1
<1>13. ASSUME NEW k \in S
       PROVE  EntryVal(f, raws[LastWith(k, raws)]) = v[k]
  <2>1. PICK i \in 1 .. z : o[i] = k
    BY <1>4
  <2>2. \A j \in 1 .. z : EntryKey(raws[j]) = k <=> j = i
    BY <1>4, <1>9, <2>1
  <2>3. {j \in DOMAIN raws : EntryKey(raws[j]) = k} = {i}
    BY <1>8, <2>2
  <2>4. LastWith(k, raws) = Max({i})
    BY <2>3, Zenon DEF LastWith
  <2>5. Max({i}) = i
    <3>1. i \in Int /\ i >= i
      BY <1>4
    <3>2. \A x \in {i} : x = i
      OBVIOUS
    <3>3. \E x \in {i} : \A y \in {i} : x >= y
      BY <3>1
    <3>4. (CHOOSE x \in {i} : \A y \in {i} : x >= y) \in {i}
      BY <3>3, Zenon
    <3>5. Max({i}) \in {i}
      BY <3>4, Zenon DEF Max
    <3>. QED BY <3>5
  <2>. QED BY <1>9, <2>1, <2>4, <2>5
<1>14. ValueRead(f, raws) = v
  <2>1. ValueRead(f, raws)
        = [k \in {EntryKey(b) : b \in ToSet(raws)} |-> EntryVal(f, raws[LastWith(k, raws)])]
    BY OneKind DEF ValueRead
  <2>2. ValueRead(f, raws) = [k \in S |-> EntryVal(f, raws[LastWith(k, raws)])]
    BY <1>12, <2>1, Zenon
  <2>3. [k \in S |-> EntryVal(f, raws[LastWith(k, raws)])] = [k \in S |-> v[k]]
    BY <1>13, Zenon
  <2>. QED BY <1>2, <2>2, <2>3, Zenon
<1>. QED BY <1>1, <1>6, <1>10, <1>11, <1>14 DEF Told

(* A field is written as records that are read back as its value.          *)
LEMMA FieldTold ==
  ASSUME NEW f, NEW v, Proper(f, v), WholeDoubles(f, v), NEW ks, f \in Maps => ToSet(ks) = DOMAIN v
  PROVE  Told(f, v, ks)
<1>1. f \in Field
  BY DEF Proper
<1>. QED BY <1>1, TextTold, TextsTold, ScalarTold, PackedTold, MapTold, TimeTold, MessageTold,
            ElementsTold DEF Field

(* Nothing is read back as a nested message of nothing.                    *)
LEMMA NothingRead ==
  /\ FlattenSeq(<<>>) = <<>>
  /\ KidRead(<<>>) = [val |-> 0, opt |-> Nil]
<1>1. FlattenSeq(<<>>) = <<>>
  <2>1. <<>> \in Seq(Seq(Nat)) /\ Len(<<>>) = 0
    OBVIOUS
  <2>. QED BY <2>1, FlattenIsSeq
<1>2. In(<<>>, 1, 0) = <<>> /\ In(<<>>, 2, 0) = <<>>
  <2>1. <<>> \in Seq(Sendable) /\ Spelt(<<>>) = <<>>
    BY FormsAre, MappedOne DEF Spelt
  <2>2. Contents(<<>>) = <<>>
    BY <2>1, SpeltContents
  <2>3. ASSUME NEW i, NEW wt
        PROVE  Values(<<>>, i, wt) = <<>>
    <3>1. Values(<<>>, i, wt) = Mapped(<<>>, Picks(i, wt)) /\ Picks(i, wt) \in Lists(Sendable, Holdable)
      BY <2>1, ValuesAre
    <3>. QED BY <3>1, MappedOne
  <2>. QED BY <2>2, <2>3 DEF In
<1>3. \A dft : LastOf(<<>>, dft) = dft
  BY LastOfOne
<1>. QED BY <1>1, <1>2, <1>3, Zenon DEF KidRead

(* No record of a field is its default.                                    *)
LEMMA NothingTold ==
  ASSUME NEW f \in Field
  PROVE  ValueRead(f, <<>>) = ZeroOf(f)
<1>1. \A dft : LastOf(<<>>, dft) = dft
  BY LastOfOne
<1>2. FlattenSeq(<<>>) = <<>> /\ KidRead(<<>>) = [val |-> 0, opt |-> Nil]
  BY NothingRead
<1>4. CASE f \in Text \cup Digest
  <2>1. ValueRead(f, <<>>) = LastOf(<<>>, ZeroOf(f))
    BY <1>4, OneKind DEF ValueRead
  <2>. QED BY <1>1, <2>1
<1>5. CASE f \in Texts
  BY <1>5, OneKind DEF ValueRead, ZeroOf
<1>6. CASE f \in Num \cup Opt
  <2>1. ValueRead(f, <<>>) = IF <<>> = <<>> THEN ZeroOf(f) ELSE ScalarRead(f, LastOf(<<>>, 0))
    BY <1>6, OneKind DEF ValueRead
  <2>. QED BY <2>1
<1>7. CASE f \in Packed
  <2>1. ValueRead(f, <<>>) = FlattenSeq([j \in DOMAIN <<>> |-> PackedRead(f, <<>>[j])])
    BY <1>7, OneKind DEF ValueRead, Joined
  <2>2. [j \in DOMAIN <<>> |-> PackedRead(f, <<>>[j])] = <<>>
    OBVIOUS
  <2>3. ZeroOf(f) = <<>>
    BY <1>7, OneKind DEF ZeroOf
  <2>. QED BY <1>2, <2>1, <2>2, <2>3, Zenon
<1>8. CASE f \in Maps
  <2>1. ValueRead(f, <<>>)
        = [k \in {EntryKey(b) : b \in ToSet(<<>>)} |-> EntryVal(f, <<>>[LastWith(k, <<>>)])]
    BY <1>8, OneKind DEF ValueRead
  <2>2. {EntryKey(b) : b \in ToSet(<<>>)} = {}
    BY DEF ToSet
  <2>3. ValueRead(f, <<>>) = [k \in {} |-> EntryVal(f, <<>>[LastWith(k, <<>>)])]
    BY <2>1, <2>2, Zenon
  <2>4. [k \in {} |-> EntryVal(f, <<>>[LastWith(k, <<>>)])] = [k \in {} |-> 0]
    OBVIOUS
  <2>5. ZeroOf(f) = [k \in {} |-> 0]
    BY <1>8, OneKind DEF ZeroOf
  <2>. QED BY <2>3, <2>4, <2>5, Zenon
<1>9. CASE f \in Stamp
  <2>1. ValueRead(f, <<>>) = IF <<>> = <<>> THEN NoTime ELSE TimeRead(LastOf(<<>>, <<>>))
    BY <1>9, OneKind DEF ValueRead
  <2>2. ZeroOf(f) = NoTime
    BY <1>9, OneKind DEF ZeroOf
  <2>. QED BY <2>1, <2>2
<1>10. CASE f \in Span
  <2>1. ValueRead(f, <<>>) = SpanRead(LastOf(<<>>, <<>>))
    BY <1>10, OneKind DEF ValueRead
  <2>2. EncodeDuration(0) = <<>> /\ 0 \in Signs
    <3>1. Second \in Nat /\ Second > 0
      BY WellKnownAssumption
    <3>2. Truncated(0) = 0
      BY <3>1 DEF Truncated
    <3>3. 0 - 0 * Second = 0 /\ <<>> \o <<>> = <<>>
      BY <3>1
    <3>4. EncodeDuration(0) = TSBody(0, 0)
      BY <3>2, <3>3, Zenon DEF EncodeDuration
    <3>5. TSBody(0, 0) = <<>>
      BY <3>3 DEF TSBody
    <3>6. 0 \in Signs
      <4>1. Word \div 2 \in Nat \ {0}
        BY HalfWord, WidthsAssumption, Widths
      <4>. QED BY <4>1 DEF Signs
    <3>. QED BY <3>4, <3>5, <3>6
  <2>3. SpanRead(<<>>) = 0
    BY <2>2, SpanCopies
  <2>4. ZeroOf(f) = 0
    BY <1>10, OneKind DEF ZeroOf
  <2>. QED BY <1>1, <2>1, <2>3, <2>4
<1>11. CASE f \in Ptr
  <2>1. ValueRead(f, <<>>) = IF <<>> = <<>> THEN Nil ELSE KidRead(LastOf(<<>>, <<>>))
    BY <1>11, OneKind DEF ValueRead
  <2>2. ZeroOf(f) = Nil
    BY <1>11, OneKind DEF ZeroOf
  <2>. QED BY <2>1, <2>2
<1>12. CASE f \in Inl
  <2>1. ValueRead(f, <<>>) = KidRead(LastOf(<<>>, <<>>))
    BY <1>12, OneKind DEF ValueRead
  <2>2. KidRead(<<>>) = [val |-> 0, opt |-> Nil]
    BY <1>2
  <2>3. ZeroOf(f) = [val |-> 0, opt |-> Nil]
    BY <1>12, OneKind DEF ZeroOf
  <2>. QED BY <1>1, <2>1, <2>2, <2>3
<1>13. CASE f \in Elem
  <2>1. ValueRead(f, <<>>) = [j \in DOMAIN <<>> |-> KidRead(<<>>[j])]
    BY <1>13, OneKind DEF ValueRead
  <2>2. [j \in DOMAIN <<>> |-> KidRead(<<>>[j])] = <<>>
    OBVIOUS
  <2>3. ZeroOf(f) = <<>>
    BY <1>13, OneKind DEF ZeroOf
  <2>. QED BY <2>1, <2>2, <2>3
<1>. QED BY <1>4, <1>5, <1>6, <1>7, <1>8, <1>9, <1>10, <1>11, <1>12, <1>13 DEF Field

-----------------------------------------------------------------------------
(* The records of a field are found among those of all fields.             *)
BranchPicks == [c \in Sendable |-> IF c.f \in Branch THEN <<c.f>> ELSE <<>>]

LEMMA BranchesAre ==
  /\ BranchPicks \in Lists(Sendable, Nat)
  /\ \A c \in Sendable : BranchPicks[c] = IF c.f \in Branch THEN <<c.f>> ELSE <<>>
  /\ \A cs \in Seq(Sendable) : Branches(cs) = Mapped(cs, BranchPicks)
<1>1. ASSUME NEW c \in Sendable
      PROVE  (IF c.f \in Branch THEN <<c.f>> ELSE <<>>) \in Seq(Nat)
  <2>1. c.f \in Nat
    BY DEF Sendable
  <2>. QED BY <2>1
<1>2. /\ BranchPicks \in Lists(Sendable, Nat)
      /\ \A c \in Sendable : BranchPicks[c] = IF c.f \in Branch THEN <<c.f>> ELSE <<>>
  BY <1>1 DEF BranchPicks, Lists
<1>3. ASSUME NEW cs \in Seq(Sendable)
      PROVE  Branches(cs) = Mapped(cs, BranchPicks)
  <2>1. ASSUME NEW k \in DOMAIN cs
        PROVE  BranchPicks[cs[k]] = IF cs[k].f \in Branch THEN <<cs[k].f>> ELSE <<>>
    <3>1. cs[k] \in Sendable
      OBVIOUS
    <3>. QED BY <1>2, <3>1
  <2>2. [k \in DOMAIN cs |-> IF cs[k].f \in Branch THEN <<cs[k].f>> ELSE <<>>]
        = [k \in DOMAIN cs |-> BranchPicks[cs[k]]]
    BY <2>1
  <2>. QED BY <2>2, Zenon DEF Branches, Mapped, Images
<1>. QED BY <1>2, <1>3

LEMMA RecsPicked ==
  \A f, g : \A raws \in Seq(Fitting(g)) :
    /\ g = f => Mapped(Recs(g, raws), Picks(f, WireOf(f))) = raws
    /\ g # f => Mapped(Recs(g, raws), Picks(f, WireOf(f))) = <<>>
    /\ g \notin Branch => Mapped(Recs(g, raws), BranchPicks) = <<>>
    /\ g \in Branch /\ Len(raws) = 1 => Mapped(Recs(g, raws), BranchPicks) = <<g>>
<1>. SUFFICES ASSUME NEW f, NEW g, NEW raws \in Seq(Fitting(g))
              PROVE  /\ g = f => Mapped(Recs(g, raws), Picks(f, WireOf(f))) = raws
                     /\ g # f => Mapped(Recs(g, raws), Picks(f, WireOf(f))) = <<>>
                     /\ g \notin Branch => Mapped(Recs(g, raws), BranchPicks) = <<>>
                     /\ g \in Branch /\ Len(raws) = 1 => Mapped(Recs(g, raws), BranchPicks) = <<g>>
  OBVIOUS
<1>. DEFINE cs == Recs(g, raws)
            z  == Len(raws)
            P  == Picks(f, WireOf(f))
            a  == Images(cs, P)
            b  == Images(cs, BranchPicks)
<1>1. z \in Nat /\ DOMAIN raws = 1 .. z
  OBVIOUS
<1>2. cs \in Seq(Sendable) /\ Len(cs) = z /\ \A j \in 1 .. z : cs[j] = Sent(g, WireOf(g), raws[j])
  BY RecsAre
<1>3. \A j \in 1 .. z : cs[j] \in Sendable /\ cs[j].f = g /\ cs[j].wt = WireOf(g) /\ cs[j].val = raws[j]
  <2>. HIDE DEF cs, z
  <2>1. ASSUME NEW j \in 1 .. z
        PROVE  cs[j] \in Sendable /\ cs[j].f = g /\ cs[j].wt = WireOf(g) /\ cs[j].val = raws[j]
    <3>1. cs[j] = Sent(g, WireOf(g), raws[j])
      BY <1>2
    <3>2. cs[j] \in Sendable
      BY <1>2
    <3>. QED BY <3>1, <3>2 DEF Sent
  <2>. QED BY <2>1
<1>4. /\ P \in Lists(Sendable, Holdable)
      /\ \A c \in Sendable : P[c] = IF c.f = f /\ c.wt = WireOf(f) THEN <<c.val>> ELSE <<>>
  BY ValuesAre
<1>. HIDE DEF cs, P, z
<1>5. a \in Seq(Seq(Holdable)) /\ Len(a) = z /\ \A j \in 1 .. z : a[j] = P[cs[j]]
  BY <1>2, <1>4, ImagesAre
<1>6. b \in Seq(Seq(Nat)) /\ Len(b) = z /\ \A j \in 1 .. z : b[j] = BranchPicks[cs[j]]
  BY <1>2, BranchesAre, ImagesAre
<1>7. Mapped(cs, P) = FlattenSeq(a) /\ Mapped(cs, BranchPicks) = FlattenSeq(b)
  BY Zenon DEF Mapped
<1>. HIDE DEF a, b
<1>8. ASSUME g = f
      PROVE  Mapped(cs, P) = raws
  <2>1. \A j \in 1 .. z : a[j] = <<raws[j]>>
    BY <1>3, <1>4, <1>5, <1>8
  <2>2. DOMAIN a = 1 .. z /\ a = [j \in 1 .. z |-> a[j]]
    BY <1>5
  <2>3. a = [j \in DOMAIN raws |-> <<raws[j]>>]
    BY <1>1, <2>1, <2>2
  <2>4. FlattenSeq([j \in DOMAIN raws |-> <<raws[j]>>]) = raws
    BY FlattenSingles
  <2>. QED BY <1>7, <2>3, <2>4, Zenon
<1>9. ASSUME g # f
      PROVE  Mapped(cs, P) = <<>>
  <2>1. \A j \in 1 .. z : a[j] = <<>>
    BY <1>3, <1>4, <1>5, <1>9
  <2>2. 0 \in Nat /\ 0 \notin 1 .. Len(a) /\ \A j \in 1 .. Len(a) : j # 0 => a[j] = <<>>
    BY <1>5, <2>1
  <2>3. FlattenSeq(a) = IF 0 \in 1 .. Len(a) THEN a[0] ELSE <<>>
    BY <1>5, <2>2, FlattenOne
  <2>. QED BY <1>7, <2>2, <2>3
<1>10. ASSUME g \notin Branch
       PROVE  Mapped(cs, BranchPicks) = <<>>
  <2>1. \A j \in 1 .. z : b[j] = <<>>
    BY <1>3, <1>6, <1>10, BranchesAre
  <2>2. 0 \in Nat /\ 0 \notin 1 .. Len(b) /\ \A j \in 1 .. Len(b) : j # 0 => b[j] = <<>>
    BY <1>6, <2>1
  <2>3. FlattenSeq(b) = IF 0 \in 1 .. Len(b) THEN b[0] ELSE <<>>
    BY <1>6, <2>2, FlattenOne
  <2>. QED BY <1>7, <2>2, <2>3
<1>11. ASSUME g \in Branch, z = 1
       PROVE  Mapped(cs, BranchPicks) = <<g>>
  <2>1. 1 \in 1 .. z
    BY <1>11
  <2>2. b[1] = <<g>>
    <3>1. cs[1] \in Sendable /\ cs[1].f = g /\ b[1] = BranchPicks[cs[1]]
      BY <1>3, <1>6, <2>1
    <3>2. BranchPicks[cs[1]] = IF cs[1].f \in Branch THEN <<cs[1].f>> ELSE <<>>
      BY <3>1, BranchesAre
    <3>. QED BY <1>11, <3>1, <3>2
  <2>3. 1 \in Nat /\ 1 \in 1 .. Len(b) /\ \A j \in 1 .. Len(b) : j # 1 => b[j] = <<>>
    BY <1>6, <1>11
  <2>4. FlattenSeq(b) = IF 1 \in 1 .. Len(b) THEN b[1] ELSE <<>>
    BY <1>6, <2>3, FlattenOne
  <2>. QED BY <1>7, <2>2, <2>3, <2>4
<1>. QED BY <1>8, <1>9, <1>10, <1>11 DEF cs, P, z

(* When one list alone has elements that are not mapped to nothing.        *)
LEMMA PartMapped ==
  ASSUME NEW T, NEW G \in Lists(Sendable, T), NEW css \in Seq(Seq(Sendable)), NEW i \in Nat,
         \A j \in 1 .. Len(css) : j # i => Mapped(css[j], G) = <<>>
  PROVE  /\ i \in 1 .. Len(css) => Mapped(FlattenSeq(css), G) = Mapped(css[i], G)
         /\ i \notin 1 .. Len(css) => Mapped(FlattenSeq(css), G) = <<>>
<1>. DEFINE ss == PartsMapped(css, G)
<1>1. /\ ss \in Seq(Seq(T)) /\ Len(ss) = Len(css)
      /\ \A j \in 1 .. Len(css) : ss[j] = Mapped(css[j], G)
      /\ Mapped(FlattenSeq(css), G) = FlattenSeq(ss)
  BY MappedParts
<1>. HIDE DEF ss
<1>2. \A j \in 1 .. Len(ss) : j # i => ss[j] = <<>>
  BY <1>1
<1>3. FlattenSeq(ss) = IF i \in 1 .. Len(ss) THEN ss[i] ELSE <<>>
  BY <1>1, <1>2, FlattenOne
<1>. QED BY <1>1, <1>3

(* A list of records for each of different fields.                         *)
Listed(fs, css, rawss) ==
  /\ css \in Seq(Seq(Sendable))
  /\ \A j \in 1 .. Len(css) : rawss[j] \in Seq(Fitting(fs[j])) /\ css[j] = Recs(fs[j], rawss[j])
  /\ \A i, j \in 1 .. Len(css) : fs[i] = fs[j] => i = j

LEMMA PartsPicked ==
  ASSUME NEW fs, NEW css, NEW rawss, Listed(fs, css, rawss), NEW z, z = Len(css)
  PROVE  /\ \A i \in 1 .. z : Values(FlattenSeq(css), fs[i], WireOf(fs[i])) = rawss[i]
         /\ \A f : (\A i \in 1 .. z : fs[i] # f) => Values(FlattenSeq(css), f, WireOf(f)) = <<>>
<1>. SUFFICES ASSUME NEW f
              PROVE  /\ \A i \in 1 .. z : fs[i] = f => Values(FlattenSeq(css), f, WireOf(f)) = rawss[i]
                     /\ (\A i \in 1 .. z : fs[i] # f) => Values(FlattenSeq(css), f, WireOf(f)) = <<>>
  BY Zenon
<1>0. /\ css \in Seq(Seq(Sendable)) /\ Len(css) = z /\ z \in Nat
      /\ \A i, j \in 1 .. z : fs[i] = fs[j] => i = j
      /\ \A j \in 1 .. z : rawss[j] \in Seq(Fitting(fs[j])) /\ css[j] = Recs(fs[j], rawss[j])
  BY DEF Listed
<1>. DEFINE P  == Picks(f, WireOf(f))
            V  == Values(FlattenSeq(css), f, WireOf(f))
<1>1. P \in Lists(Sendable, Holdable)
  BY ValuesAre
<1>2. V = Mapped(FlattenSeq(css), P)
  <2>1. FlattenSeq(css) \in Seq(Sendable)
    BY <1>0, FlattenIsSeq
  <2>. QED BY <2>1, ValuesAre
<1>3. \A j \in 1 .. z : /\ fs[j] = f => Mapped(css[j], P) = rawss[j]
                        /\ fs[j] # f => Mapped(css[j], P) = <<>>
  <2>1. ASSUME NEW j \in 1 .. z
        PROVE  /\ fs[j] = f => Mapped(css[j], P) = rawss[j]
               /\ fs[j] # f => Mapped(css[j], P) = <<>>
    <3>1. rawss[j] \in Seq(Fitting(fs[j])) /\ css[j] = Recs(fs[j], rawss[j])
      BY <1>0
    <3>. DEFINE g == fs[j]
                u == rawss[j]
    <3>. HIDE DEF g, u
    <3>2. u \in Seq(Fitting(g))
      BY <3>1 DEF g, u
    <3>3. /\ g = f => Mapped(Recs(g, u), Picks(f, WireOf(f))) = u
          /\ g # f => Mapped(Recs(g, u), Picks(f, WireOf(f))) = <<>>
      BY <3>2, RecsPicked
    <3>. QED BY <3>1, <3>3, Zenon DEF g, u
  <2>. QED BY <2>1
<1>. HIDE DEF P, V
<1>5. ASSUME NEW i \in 1 .. z, fs[i] = f
      PROVE  V = rawss[i]
  <2>1. \A j \in 1 .. Len(css) : j # i => Mapped(css[j], P) = <<>>
    BY <1>0, <1>3, <1>5
  <2>2. i \in Nat /\ i \in 1 .. Len(css) /\ Mapped(css[i], P) = rawss[i]
    BY <1>0, <1>3, <1>5
  <2>3. Mapped(FlattenSeq(css), P) = Mapped(css[i], P)
    BY <1>0, <1>1, <2>1, <2>2, PartMapped
  <2>. QED BY <1>2, <2>2, <2>3
<1>6. ASSUME \A i \in 1 .. z : fs[i] # f
      PROVE  V = <<>>
  <2>1. 0 \in Nat /\ 0 \notin 1 .. Len(css) /\ \A j \in 1 .. Len(css) : j # 0 => Mapped(css[j], P) = <<>>
    BY <1>0, <1>3, <1>6
  <2>2. Mapped(FlattenSeq(css), P) = <<>>
    BY <1>0, <1>1, <2>1, PartMapped
  <2>. QED BY <1>2, <2>2
<1>. QED BY <1>5, <1>6 DEF V

LEMMA PartsBranch ==
  ASSUME NEW fs, NEW z \in Nat, NEW css \in Seq(Seq(Sendable)), Len(css) = z, NEW rawss,
         \A i, j \in 1 .. z : fs[i] \in Branch /\ fs[j] \in Branch => i = j,
         \A j \in 1 .. z : rawss[j] \in Seq(Fitting(fs[j])) /\ css[j] = Recs(fs[j], rawss[j]),
         \A j \in 1 .. z : fs[j] \in Branch => Len(rawss[j]) = 1
  PROVE  /\ \A i \in 1 .. z : fs[i] \in Branch => Branches(FlattenSeq(css)) = <<fs[i]>>
         /\ (\A i \in 1 .. z : fs[i] \notin Branch) => Branches(FlattenSeq(css)) = <<>>
<1>. DEFINE P  == BranchPicks
            V  == Branches(FlattenSeq(css))
<1>1. P \in Lists(Sendable, Nat)
  BY BranchesAre
<1>2. V = Mapped(FlattenSeq(css), P)
  <2>1. FlattenSeq(css) \in Seq(Sendable)
    BY FlattenIsSeq
  <2>. QED BY <2>1, BranchesAre
<1>3. \A j \in 1 .. z : /\ fs[j] \in Branch => Mapped(css[j], P) = <<fs[j]>>
                        /\ fs[j] \notin Branch => Mapped(css[j], P) = <<>>
  <2>1. ASSUME NEW j \in 1 .. z
        PROVE  /\ fs[j] \in Branch => Mapped(css[j], P) = <<fs[j]>>
               /\ fs[j] \notin Branch => Mapped(css[j], P) = <<>>
    <3>1. rawss[j] \in Seq(Fitting(fs[j])) /\ css[j] = Recs(fs[j], rawss[j])
          /\ (fs[j] \in Branch => Len(rawss[j]) = 1)
      OBVIOUS
    <3>. DEFINE g == fs[j]
                u == rawss[j]
    <3>. HIDE DEF g, u
    <3>2. u \in Seq(Fitting(g))
      BY <3>1 DEF g, u
    <3>3. /\ g \notin Branch => Mapped(Recs(g, u), BranchPicks) = <<>>
          /\ g \in Branch /\ Len(u) = 1 => Mapped(Recs(g, u), BranchPicks) = <<g>>
      BY <3>2, RecsPicked
    <3>. QED BY <3>1, <3>3, Zenon DEF g, u
  <2>. QED BY <2>1
<1>. HIDE DEF P, V
<1>5. ASSUME NEW i \in 1 .. z, fs[i] \in Branch
      PROVE  V = <<fs[i]>>
  <2>1. \A j \in 1 .. Len(css) : j # i => Mapped(css[j], P) = <<>>
    BY <1>3, <1>5
  <2>2. i \in Nat /\ i \in 1 .. Len(css) /\ Mapped(css[i], P) = <<fs[i]>>
    BY <1>3, <1>5
  <2>3. Mapped(FlattenSeq(css), P) = Mapped(css[i], P)
    BY <1>1, <2>1, <2>2, PartMapped
  <2>. QED BY <1>2, <2>2, <2>3
<1>6. ASSUME \A i \in 1 .. z : fs[i] \notin Branch
      PROVE  V = <<>>
  <2>1. 0 \in Nat /\ 0 \notin 1 .. Len(css) /\ \A j \in 1 .. Len(css) : j # 0 => Mapped(css[j], P) = <<>>
    BY <1>3, <1>6
  <2>2. Mapped(FlattenSeq(css), P) = <<>>
    BY <1>1, <2>1, PartMapped
  <2>. QED BY <1>2, <2>2
<1>. QED BY <1>5, <1>6 DEF V

-----------------------------------------------------------------------------
(* The fields of the plan are different ones, all that may be written.     *)
LEMMA PlanOf ==
  ASSUME NEW m \in Messages \ {Nil}
  PROVE  /\ \A i, j \in 1 .. Len(Plan(m)) : Plan(m)[i] = Plan(m)[j] => i = j
         /\ \A i \in 1 .. Len(Plan(m)) : Plan(m)[i] \in Branch => Plan(m)[i] = m.kind /\ m.kind # None
         /\ m.kind # None => \E i \in 1 .. Len(Plan(m)) : Plan(m)[i] = m.kind
         /\ \A f \in DOMAIN m.at \ Branch : \E i \in 1 .. Len(Plan(m)) : Plan(m)[i] = f
<1>. DEFINE S    == DOMAIN m.at \ Branch
            q    == Ascending(S)
            c    == Cardinality(S)
            last == IF m.kind = None THEN <<>> ELSE <<m.kind>>
            z    == Len(last)
            fs   == Plan(m)
<1>1. DOMAIN m.at \subseteq Field /\ m.kind \in {None} \cup (Branch \cap DOMAIN m.at)
  BY MessagesAssumption DEF IsMessage
<1>2. IsFiniteSet(S) /\ S \in SUBSET Int /\ S \subseteq Field
  <2>1. IsFiniteSet(Field) /\ Field \in SUBSET Int /\ S \in SUBSET Field
    BY <1>1, EncoderAssumption
  <2>. HIDE DEF S
  <2>. QED BY <2>1, FS_Subset
<1>3. /\ c \in Nat /\ q \in Seq(S) /\ Len(q) = c
      /\ \A x \in S : \E j \in 1 .. c : q[j] = x
      /\ \A i, j \in 1 .. c : q[i] = q[j] => i = j
  <2>. HIDE DEF S
  <2>. QED BY <1>2, AscendingIs
<1>4. last \in Seq({m.kind}) /\ z \in {0, 1} /\ (m.kind = None <=> z = 0) /\ (z = 1 => last[1] = m.kind)
  <2>1. CASE m.kind = None
    BY <2>1
  <2>2. CASE m.kind # None
    <3>1. last = <<m.kind>>
      BY <2>2
    <3>. HIDE DEF last
    <3>2. last \in Seq({m.kind}) /\ z = 1 /\ last[1] = m.kind
      BY <3>1
    <3>. QED BY <2>2, <3>2
  <2>. QED BY <2>1, <2>2
<1>5. fs = q \o last
  BY Zenon DEF Plan
<1>6. \A x \in S : x \in Field /\ x \notin Branch
  BY <1>2
<1>. HIDE DEF S, q, c, last, z, fs
<1>7. /\ Len(fs) = c + z
      /\ \A i \in 1 .. c + z : fs[i] = IF i <= c THEN q[i] ELSE last[i - c]
  <2>1. q \in Seq(S \cup {m.kind}) /\ last \in Seq(S \cup {m.kind}) /\ Len(q) = c /\ Len(last) = z
    BY <1>3, <1>4 DEF z
  <2>. QED BY <1>5, <2>1, ConcatProperties
<1>8. \A i \in 1 .. c : i \in 1 .. Len(fs) /\ fs[i] = q[i] /\ fs[i] \in S
  BY <1>3, <1>4, <1>7
<1>9. ASSUME NEW i \in 1 .. Len(fs), i \notin 1 .. c
      PROVE  i = c + 1 /\ z = 1 /\ fs[i] = m.kind /\ m.kind # None /\ m.kind \in Branch
  <2>1. i = c + 1 /\ z = 1
    BY <1>3, <1>4, <1>7, <1>9
  <2>2. ~(i <= c) /\ i - c = 1 /\ i \in 1 .. c + z
    BY <1>3, <2>1
  <2>3. fs[i] = last[1]
    BY <1>7, <2>2
  <2>. QED BY <1>1, <1>4, <2>1, <2>3
<1>10. ASSUME NEW i \in 1 .. Len(fs), NEW j \in 1 .. Len(fs), fs[i] = fs[j]
       PROVE  i = j
  <2>1. CASE i \in 1 .. c /\ j \in 1 .. c
    BY <1>3, <1>8, <1>10, <2>1
  <2>2. CASE i \in 1 .. c /\ j \notin 1 .. c
    BY <1>6, <1>8, <1>9, <1>10, <2>2
  <2>3. CASE i \notin 1 .. c /\ j \in 1 .. c
    BY <1>6, <1>8, <1>9, <1>10, <2>3
  <2>4. CASE i \notin 1 .. c /\ j \notin 1 .. c
    BY <1>9, <2>4
  <2>. QED BY <2>1, <2>2, <2>3, <2>4
<1>11. ASSUME NEW i \in 1 .. Len(fs), fs[i] \in Branch
       PROVE  fs[i] = m.kind /\ m.kind # None
  BY <1>6, <1>8, <1>9, <1>11
<1>12. ASSUME m.kind # None
       PROVE  \E i \in 1 .. Len(fs) : fs[i] = m.kind
  <2>1. z = 1 /\ c + 1 \in 1 .. Len(fs) /\ c + 1 \notin 1 .. c
    BY <1>3, <1>4, <1>7, <1>12
  <2>. QED BY <1>9, <2>1
<1>13. ASSUME NEW f \in S
       PROVE  \E i \in 1 .. Len(fs) : fs[i] = f
  <2>1. PICK i \in 1 .. c : q[i] = f
    BY <1>3
  <2>. QED BY <1>8, <2>1
<1>. QED BY <1>10, <1>11, <1>12, <1>13 DEF fs, S

-----------------------------------------------------------------------------
(* What is carried of a field, and the values of its records.              *)
CarriedOf(m, f) ==
  LET v == m.at[f]
  IN  IF f \in Branch \ {m.kind} THEN ZeroOf(f)
      ELSE CASE f \in Stamp         -> [ns |-> IF v.ns = 0 THEN ZeroTime ELSE v.ns, zone |-> "UTC"]
             [] f \in Ptr \ Branch  -> IF KidSize(v) = 0 THEN Nil ELSE v
             [] f \in Elem          -> Joined(v, LAMBDA k : IF k = Nil THEN <<>> ELSE <<k>>)
             [] OTHER               -> v

RawsIn(m, f) == IF f \in Branch \/ Writes(f, m.at[f]) THEN RawsOf(f, m.at[f]) ELSE <<>>

LEMMA KidSizes ==
  /\ KidSize(Nil) = 0
  /\ \A k \in Kids : KidSize(k) \in Nat /\ (KidSize(k) = 0 => k = [val |-> 0, opt |-> Nil])
<1>1. KidSize(Nil) = 0
  BY DEF KidSize
<1>2. ASSUME NEW k \in Kids
      PROVE  KidSize(k) \in Nat /\ (KidSize(k) = 0 => k = [val |-> 0, opt |-> Nil])
  <2>1. Fits(KidBytes(k), KidSize(k)) /\ KidRead(KidBytes(k)) = k
    BY KidFits, KidCopies
  <2>2. KidBytes(k) \in Seq(Byte) /\ KidSize(k) = Len(KidBytes(k))
    BY <2>1 DEF Fits
  <2>3. KidSize(k) = 0 => KidBytes(k) = <<>>
    <3>1. \A b \in Seq(Byte) : Len(b) = 0 => b = <<>>
      OBVIOUS
    <3>. QED BY <2>2, <3>1
  <2>. QED BY <2>1, <2>2, <2>3, NothingRead
<1>. QED BY <1>1, <1>2

LEMMA WrittenCarried ==
  ASSUME NEW m, NEW f \in Field, f \in Branch => f = m.kind, IsValue(f, m.at[f]),
         f \in Branch \/ Writes(f, m.at[f])
  PROVE  Back(f, m.at[f]) = CarriedOf(m, f)
<1>. DEFINE v == m.at[f]
<1>1. f \notin Branch \ {m.kind}
  OBVIOUS
<1>2. CASE f \in Stamp
  BY <1>1, <1>2, OneKind DEF Back, CarriedOf
<1>3. CASE f \in Ptr \ Branch
  <2>1. KidSize(v) > 0
    BY <1>3, Zenon DEF Writes
  <2>2. Back(f, v) = v
    BY <1>3, OneKind DEF Back
  <2>3. CarriedOf(m, f) = IF KidSize(v) = 0 THEN Nil ELSE v
    BY <1>1, <1>3, OneKind DEF CarriedOf
  <2>. QED BY <2>1, <2>2, <2>3
<1>4. CASE f \in Elem
  <2>1. Back(f, v) = Mapped(v, KidsThere)
    BY <1>4, OneKind DEF Back
  <2>2. CarriedOf(m, f) = FlattenSeq([j \in DOMAIN v |-> IF v[j] = Nil THEN <<>> ELSE <<v[j]>>])
    BY <1>1, <1>4, OneKind DEF CarriedOf, Joined
  <2>3. v \in Seq(Kids \cup {Nil})
    BY <1>4, OneKind DEF IsValue
  <2>. HIDE DEF v
  <2>4. [j \in DOMAIN v |-> IF v[j] = Nil THEN <<>> ELSE <<v[j]>>] = Images(v, KidsThere)
    BY <2>3 DEF Images, KidsThere
  <2>. QED BY <2>1, <2>2, <2>4, Zenon DEF Mapped, v
<1>5. CASE f \notin Stamp \cup Elem /\ f \notin Ptr \ Branch
  BY <1>1, <1>5 DEF Back, CarriedOf
<1>. QED BY <1>2, <1>3, <1>4, <1>5

LEMMA DefaultCarried ==
  ASSUME NEW m, NEW f \in Field, f \notin Branch, IsValue(f, m.at[f]), ~Writes(f, m.at[f])
  PROVE  CarriedOf(m, f) = ZeroOf(f)
<1>. DEFINE v == m.at[f]
<1>1. f \notin Branch \ {m.kind}
  OBVIOUS
<1>2. v = ZeroOf(f) \/ (f \in Ptr \cup Inl /\ ~(KidSize(v) > 0))
  BY Zenon DEF Writes
<1>3. CASE f \in Stamp
  <2>1. v = NoTime
    BY <1>2, <1>3, OneKind DEF ZeroOf
  <2>2. v.ns = ZeroTime /\ ZeroTime # 0
    BY <2>1, WellKnownAssumption DEF NoTime
  <2>3. CarriedOf(m, f) = [ns |-> ZeroTime, zone |-> "UTC"]
    BY <1>1, <1>3, <2>2, OneKind DEF CarriedOf
  <2>4. ZeroOf(f) = NoTime
    BY <1>3, OneKind DEF ZeroOf
  <2>. QED BY <2>3, <2>4 DEF NoTime
<1>4. CASE f \in Ptr
  <2>1. v \in Kids \cup {Nil} /\ ZeroOf(f) = Nil
    BY <1>4, OneKind DEF IsValue, ZeroOf
  <2>2. KidSize(v) = 0
    BY <1>2, <2>1, KidSizes
  <2>3. CarriedOf(m, f) = IF KidSize(v) = 0 THEN Nil ELSE v
    BY <1>1, <1>4, OneKind DEF CarriedOf
  <2>. QED BY <2>1, <2>2, <2>3
<1>5. CASE f \in Inl
  <2>1. v \in Kids /\ ZeroOf(f) = [val |-> 0, opt |-> Nil]
    BY <1>5, OneKind DEF IsValue, ZeroOf
  <2>2. v = ZeroOf(f)
    BY <1>2, <2>1, KidSizes
  <2>3. CarriedOf(m, f) = v
    BY <1>1, <1>5, OneKind DEF CarriedOf
  <2>. QED BY <2>2, <2>3
<1>6. CASE f \in Elem
  <2>1. v = <<>> /\ ZeroOf(f) = <<>>
    BY <1>2, <1>6, OneKind DEF ZeroOf
  <2>2. CarriedOf(m, f) = FlattenSeq([j \in DOMAIN v |-> IF v[j] = Nil THEN <<>> ELSE <<v[j]>>])
    BY <1>1, <1>6, OneKind DEF CarriedOf, Joined
  <2>. HIDE DEF v
  <2>3. [j \in DOMAIN v |-> IF v[j] = Nil THEN <<>> ELSE <<v[j]>>] = <<>>
    BY <2>1
  <2>. QED BY <2>1, <2>2, <2>3, NothingRead, Zenon
<1>7. CASE f \notin Stamp \cup Ptr \cup Inl \cup Elem
  BY <1>1, <1>2, <1>7 DEF CarriedOf
<1>. QED BY <1>3, <1>4, <1>5, <1>6, <1>7

-----------------------------------------------------------------------------
(* A double is sent without its fraction (the run EncoderDoubles).         *)
WholeNumbers == \A m \in Messages \ {Nil} : \A f \in Doubles \cap DOMAIN m.at : WholeDoubles(f, m.at[f])

LEMMA FieldCarried ==
  ASSUME WholeNumbers, NEW m \in Messages \ {Nil}, NEW f \in DOMAIN m.at,
         f \in Branch => f = m.kind /\ m.kind # None
  PROVE  /\ RawsIn(m, f) \in Seq(Fitting(f))
         /\ Image(m, f) = Spelt(Recs(f, RawsIn(m, f)))
         /\ ValueRead(f, RawsIn(m, f)) = CarriedOf(m, f)
         /\ f \in Branch => Len(RawsIn(m, f)) = 1
<1>. DEFINE v  == m.at[f]
            js == AnyOrder(m, f)
<1>1. f \in Field /\ IsValue(f, v) /\ (f \in Branch /\ f \in Ptr => v # Nil)
  BY MessagesAssumption DEF IsMessage
<1>2. ASSUME NEW g \in Packed \cap DOMAIN m.at
      PROVE  PackedPrefix(g, m.at[g]) < Word
  BY MessagesAssumption DEF PackedPrefix
<1>3. CASE f \in Branch \/ Writes(f, v)
  <2>1. f \in Opt \cup Ptr => v # Nil
    <3>1. CASE f \in Branch
      BY <1>1, <3>1, EncoderAssumption, OneKind
    <3>2. CASE f \notin Branch
      <4>1. v # ZeroOf(f)
        BY <1>3, <3>2, Zenon DEF Writes
      <4>. QED BY <4>1, OneKind DEF ZeroOf
    <3>. QED BY <3>1, <3>2
  <2>2. Proper(f, v)
    BY <1>1, <1>2, <2>1 DEF Proper
  <2>3. WholeDoubles(f, v)
    <3>1. f \notin Doubles => WholeDoubles(f, v)
      BY DEF WholeDoubles
    <3>. QED BY <3>1 DEF WholeNumbers
  <2>4. ToSet(js) = DOMAIN v
    BY DEF ToSet, AnyOrder
  <2>5. Told(f, v, js)
    BY <2>2, <2>3, <2>4, FieldTold
  <2>6. RawsIn(m, f) = RawsOf(f, v) /\ Image(m, f) = FieldBytes(f, v, js)
    BY <1>3, Zenon DEF RawsIn, Image
  <2>7. Back(f, v) = CarriedOf(m, f)
    BY <1>1, <1>3, WrittenCarried
  <2>. HIDE DEF v, js
  <2>. QED BY <2>5, <2>6, <2>7 DEF Told
<1>4. CASE f \notin Branch /\ ~Writes(f, v)
  <2>1. RawsIn(m, f) = <<>> /\ Image(m, f) = <<>>
    BY <1>4, Zenon DEF RawsIn, Image
  <2>2. Recs(f, <<>>) = <<>> /\ <<>> \in Seq(Fitting(f))
    BY DEF Recs
  <2>3. Spelt(<<>>) = <<>>
    BY FormsAre, MappedOne DEF Spelt
  <2>4. CarriedOf(m, f) = ZeroOf(f)
    BY <1>1, <1>4, DefaultCarried
  <2>. QED BY <1>1, <1>4, <2>1, <2>2, <2>3, <2>4, NothingTold
<1>. QED BY <1>3, <1>4

(* Whatever the message is, its bytes are those of records that are read   *)
(* back as what is carried of it.                                          *)
Copies(m, cs) ==
  /\ \A k \in DOMAIN cs : cs[k].f \in DOMAIN m.at
  /\ LastOf(Branches(cs), None) = m.kind
  /\ \A f \in DOMAIN m.at : ValueRead(f, Values(cs, f, WireOf(f))) = CarriedOf(m, f)

LEMMA MessageSpelt ==
  ASSUME WholeNumbers, NEW m \in Messages \ {Nil}
  PROVE  \E cs \in Seq(Sendable) : BytesTo(m, Len(Plan(m))) = Spelt(cs) /\ Copies(m, cs)
<1>. DEFINE fs    == Plan(m)
            z     == Len(fs)
            rawss == [j \in 1 .. z |-> RawsIn(m, fs[j])]
            css   == [j \in 1 .. z |-> Recs(fs[j], rawss[j])]
            cs    == FlattenSeq(css)
            T     == {c \in Sendable : c.f \in DOMAIN m.at}
<1>1. fs \in Seq(DOMAIN m.at) /\ z \in Nat
  BY PlanFits
<1>2. /\ \A i, j \in 1 .. z : fs[i] = fs[j] => i = j
      /\ \A i \in 1 .. z : fs[i] \in Branch => fs[i] = m.kind /\ m.kind # None
      /\ m.kind # None => \E i \in 1 .. z : fs[i] = m.kind
      /\ \A f \in DOMAIN m.at \ Branch : \E i \in 1 .. z : fs[i] = f
  BY PlanOf
<1>3. m.kind # None => m.kind \in Branch
  BY MessagesAssumption DEF IsMessage
<1>4. BytesTo(m, z) = FlattenSeq([j \in 1 .. z |-> Image(m, fs[j])])
  BY Zenon DEF BytesTo
<1>. HIDE DEF fs, z
<1>5. \A j \in 1 .. z : fs[j] \in DOMAIN m.at
  BY <1>1 DEF z
<1>6. ASSUME NEW j \in 1 .. z
      PROVE  /\ RawsIn(m, fs[j]) \in Seq(Fitting(fs[j]))
             /\ Image(m, fs[j]) = Spelt(Recs(fs[j], RawsIn(m, fs[j])))
             /\ ValueRead(fs[j], RawsIn(m, fs[j])) = CarriedOf(m, fs[j])
             /\ fs[j] \in Branch => Len(RawsIn(m, fs[j])) = 1
  BY <1>2, <1>5, FieldCarried
<1>7. \A j \in 1 .. z : rawss[j] = RawsIn(m, fs[j])
  OBVIOUS
<1>8. /\ css = [j \in 1 .. z |-> Recs(fs[j], rawss[j])]
      /\ \A j \in 1 .. z : css[j] = Recs(fs[j], rawss[j])
  OBVIOUS
<1>. HIDE DEF rawss, css
<1>9. ASSUME NEW j \in 1 .. z
      PROVE  /\ css[j] \in Seq(Sendable) /\ css[j] \in Seq(T) /\ rawss[j] \in Seq(Fitting(fs[j]))
             /\ Mapped(css[j], Forms) = Image(m, fs[j])
  <2>. DEFINE g == fs[j]
              u == rawss[j]
  <2>1. u \in Seq(Fitting(g)) /\ g \in DOMAIN m.at /\ css[j] = Recs(g, u)
    BY <1>5, <1>6, <1>7, <1>8
  <2>2. Image(m, g) = Mapped(Recs(g, u), Forms)
    BY <1>6, <1>7, Zenon DEF Spelt
  <2>. HIDE DEF g, u
  <2>3. /\ Recs(g, u) \in Seq(Sendable) /\ Len(u) \in Nat /\ Len(Recs(g, u)) = Len(u)
        /\ \A k \in 1 .. Len(u) : Recs(g, u)[k] = Sent(g, WireOf(g), u[k])
    <3>1. Len(u) \in Nat
      BY <2>1
    <3>2. u \in Seq(Fitting(g))
      BY <2>1
    <3>. QED BY <3>1, <3>2, RecsAre
  <2>. DEFINE r == Recs(g, u)
  <2>. HIDE DEF r
  <2>4. \A k \in 1 .. Len(r) : r[k] \in T
    <3>1. ASSUME NEW k \in 1 .. Len(r)
          PROVE  r[k] \in T
      <4>1. r[k] \in Sendable /\ r[k] = Sent(g, WireOf(g), u[k])
        BY <2>3 DEF r
      <4>2. r[k].f = g
        BY <4>1 DEF Sent
      <4>. QED BY <2>1, <4>1, <4>2
    <3>. QED BY <3>1
  <2>5. r \in Seq(T)
    <3>. HIDE DEF T
    <3>1. r \in Seq(Sendable)
      BY <2>3 DEF r
    <3>. QED BY <2>4, <3>1
  <2>. QED BY <2>1, <2>2, <2>3, <2>5 DEF g, u, r
<1>10. css \in Seq(Seq(Sendable)) /\ Len(css) = z /\ css \in Seq(Seq(T))
  <2>. HIDE DEF T
  <2>1. css \in [1 .. z -> Seq(Sendable)] /\ css \in [1 .. z -> Seq(T)]
    BY <1>8, <1>9
  <2>. QED BY <1>1, <2>1 DEF z
<1>. HIDE DEF T
<1>11. cs \in Seq(Sendable) /\ cs \in Seq(T)
  BY <1>10, FlattenIsSeq
<1>12. BytesTo(m, z) = Spelt(cs)
  <2>1. Forms \in Lists(Sendable, Byte)
    BY FormsAre
  <2>2. Mapped(cs, Forms) = FlattenSeq(PartsMapped(css, Forms))
    BY <1>10, <2>1, MappedParts
  <2>3. DOMAIN css = 1 .. z
    BY <1>10
  <2>4. PartsMapped(css, Forms) = [j \in 1 .. z |-> Image(m, fs[j])]
    BY <1>9, <2>3 DEF PartsMapped
  <2>. QED BY <1>4, <2>2, <2>4, Zenon DEF Spelt
<1>13. \A k \in DOMAIN cs : cs[k].f \in DOMAIN m.at
  <2>. HIDE DEF cs
  <2>1. \A k \in DOMAIN cs : cs[k] \in T
    BY <1>11
  <2>. QED BY <2>1 DEF T
<1>14. /\ \A i \in 1 .. z : Values(cs, fs[i], WireOf(fs[i])) = rawss[i]
       /\ \A f : (\A i \in 1 .. z : fs[i] # f) => Values(cs, f, WireOf(f)) = <<>>
  <2>1. \A j \in 1 .. z : rawss[j] \in Seq(Fitting(fs[j])) /\ css[j] = Recs(fs[j], rawss[j])
    BY <1>8, <1>9
  <2>2. Listed(fs, css, rawss) /\ z = Len(css)
    BY <1>2, <1>10, <2>1 DEF Listed
  <2>. QED BY <2>2, PartsPicked
<1>15. /\ \A i \in 1 .. z : fs[i] \in Branch => Branches(cs) = <<fs[i]>>
       /\ (\A i \in 1 .. z : fs[i] \notin Branch) => Branches(cs) = <<>>
  <2>1. \A j \in 1 .. z : rawss[j] \in Seq(Fitting(fs[j])) /\ css[j] = Recs(fs[j], rawss[j])
    BY <1>8, <1>9
  <2>2. z \in Nat
    BY <1>1 DEF z
  <2>3. \A j \in 1 .. z : fs[j] \in Branch => Len(rawss[j]) = 1
    BY <1>6, <1>7
  <2>4. \A i, j \in 1 .. z : fs[i] \in Branch /\ fs[j] \in Branch => i = j
    BY <1>2
  <2>. QED BY <1>10, <2>1, <2>2, <2>3, <2>4, PartsBranch
<1>. HIDE DEF cs
<1>16. LastOf(Branches(cs), None) = m.kind
  <2>1. LastOf(<<>>, None) = None /\ LastOf(<<m.kind>>, None) = m.kind
    BY LastOfOne
  <2>2. CASE m.kind = None
    <3>1. Branches(cs) = <<>>
      BY <1>2, <1>15, <2>2
    <3>. QED BY <2>1, <2>2, <3>1
  <2>3. CASE m.kind # None
    <3>1. PICK i \in 1 .. z : fs[i] = m.kind
      BY <1>2, <2>3
    <3>2. Branches(cs) = <<m.kind>>
      BY <1>3, <1>15, <2>3, <3>1
    <3>. QED BY <2>1, <3>2
  <2>. QED BY <2>2, <2>3
<1>17. ASSUME NEW f \in DOMAIN m.at
       PROVE  ValueRead(f, Values(cs, f, WireOf(f))) = CarriedOf(m, f)
  <2>1. CASE \E i \in 1 .. z : fs[i] = f
    <3>1. PICK i \in 1 .. z : fs[i] = f
      BY <2>1
    <3>2. Values(cs, f, WireOf(f)) = RawsIn(m, f)
      BY <1>7, <1>14, <3>1
    <3>3. ValueRead(f, RawsIn(m, f)) = CarriedOf(m, f)
      BY <1>6, <3>1
    <3>. QED BY <3>2, <3>3
  <2>2. CASE \A i \in 1 .. z : fs[i] # f
    <3>1. f \in Branch \ {m.kind}
      <4>1. f \in Branch
        BY <1>2, <2>2
      <4>2. m.kind = None => f # m.kind
        BY MessagesAssumption, EncoderAssumption DEF IsMessage
      <4>. QED BY <1>2, <2>2, <4>1, <4>2
    <3>2. CarriedOf(m, f) = ZeroOf(f)
      BY <3>1 DEF CarriedOf
    <3>3. Values(cs, f, WireOf(f)) = <<>> /\ f \in Field
      BY <1>14, <2>2, MessagesAssumption DEF IsMessage
    <3>. QED BY <3>2, <3>3, NothingTold
  <2>. QED BY <2>1, <2>2
<1>18. Copies(m, cs)
  BY <1>13, <1>16, <1>17 DEF Copies
<1>. QED BY <1>11, <1>12, <1>18 DEF z, fs

-----------------------------------------------------------------------------
LEMMA CarriedIs ==
  ASSUME NEW m \in Messages \ {Nil}
  PROVE  Carried(m) = [kind |-> m.kind, at |-> [f \in DOMAIN m.at |-> CarriedOf(m, f)]]
<1>1. m = [kind |-> m.kind, at |-> m.at]
  BY MessagesAssumption DEF IsMessage
<1>2. Carried(m) = [m EXCEPT !.at = [f \in DOMAIN m.at |-> CarriedOf(m, f)]]
  BY Zenon DEF Carried, CarriedOf
<1>. DEFINE e == [f \in DOMAIN m.at |-> CarriedOf(m, f)]
            k == m.kind
            a == m.at
<1>. HIDE DEF e, k, a
<1>3. [m EXCEPT !.at = e] = [kind |-> k, at |-> e]
  <2>1. m = [kind |-> k, at |-> a]
    BY <1>1 DEF k, a
  <2>. QED BY <2>1
<1>. QED BY <1>2, <1>3 DEF e, k

LEMMA CopiesRead ==
  ASSUME msg \in Messages \ {Nil}, NEW cs, Copies(msg, cs)
  PROVE  IsCopy(cs)
<1>1. Read(cs) = [kind |-> msg.kind, at |-> [f \in DOMAIN msg.at |-> CarriedOf(msg, f)]]
  <2>1. [f \in DOMAIN msg.at |-> ValueRead(f, Values(cs, f, WireOf(f)))]
        = [f \in DOMAIN msg.at |-> CarriedOf(msg, f)]
    BY DEF Copies
  <2>2. LastOf(Branches(cs), None) = msg.kind
    BY DEF Copies
  <2>. QED BY <2>1, <2>2, Zenon DEF Read
<1>2. Carried(msg) = [kind |-> msg.kind, at |-> [f \in DOMAIN msg.at |-> CarriedOf(msg, f)]]
  BY CarriedIs
<1>3. \A k \in DOMAIN cs : cs[k].f \in DOMAIN msg.at
  BY DEF Copies
<1>. QED BY <1>1, <1>2, <1>3, Zenon DEF IsCopy

(* The bytes of a call are proto3 for its message: the records in them are *)
(* those of its fields, framed by the prefixes of the size pass, and every *)
(* field is read back, presence and the branch of the oneof included       *)
(* (REQ-080), for every schema and message without fractions in a map      *)
(* (the run EncoderDoubles).                                               *)
THEOREM ReadsBack ==
  ASSUME WholeNumbers
  PROVE  Spec => []RoundTrips
<1>1. Inv => RoundTrips
  <2>. SUFFICES ASSUME Inv, NEW p \in Callers, pc[p] = "done", msg # Nil
                PROVE  IsCopy(Contents(Output(p)))
    BY DEF RoundTrips
  <2>. DEFINE o == n[p]
              a == buf[p]
              w == BytesTo(msg, Fields)
  <2>1. CallOK(p) /\ msg \in Messages \ {Nil}
    BY DEF Inv
  <2>2. a \in Seq(Byte \cup {Unwritten}) /\ o \in 0 .. Len(a) /\ o = SizeTo(msg, Fields)
        /\ \A j \in 1 .. o : a[j] = w[j]
    BY <2>1 DEF Inv, CallOK
  <2>3. w \in Seq(Byte) /\ Len(w) = o
    <3>1. Fields \in 0 .. Len(Plan(msg)) /\ Fields = Len(Plan(msg))
      BY <2>1, PlanFits DEF Fields
    <3>2. Fits(BytesTo(msg, Fields), SizeTo(msg, Fields))
      BY <2>1, <3>1, PrefixFits
    <3>. QED BY <2>2, <3>2 DEF Fits
  <2>. HIDE DEF o, a, w
  <2>4. SubSeq(a, 1, o) = w
    <3>1. SubSeq(a, 1, o) = [j \in 1 .. o |-> a[j]]
      BY <2>2
    <3>2. w = [j \in 1 .. o |-> w[j]]
      BY <2>3
    <3>3. [j \in 1 .. o |-> a[j]] = [j \in 1 .. o |-> w[j]]
      BY <2>2
    <3>. QED BY <3>1, <3>2, <3>3
  <2>5. Output(p) = w
    BY <2>4 DEF Output, o, a
  <2>6. PICK cs \in Seq(Sendable) : w = Spelt(cs) /\ Copies(msg, cs)
    BY <2>1, MessageSpelt DEF w, Fields
  <2>7. Contents(Output(p)) = cs
    BY <2>5, <2>6, SpeltContents
  <2>. QED BY <2>1, <2>6, <2>7, CopiesRead
<1>. QED BY <1>1, InvAlways, PTL
=============================================================================
