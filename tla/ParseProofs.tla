---------------------------- MODULE ParseProofs ----------------------------
(***************************************************************************)
(* The decoder against proto3's reading of the input (Meaning in Decoder), *)
(* for every schema and every input: a message the decoder returns holds   *)
(* what proto3 reads, and what it returns an error for proto3 rejects.     *)
(***************************************************************************)
EXTENDS DecoderProofs

-----------------------------------------------------------------------------
(* The elements of a packed body b of field f, from an offset on.          *)
Taking(f, b, p) ==
  IF f \in Packed THEN VarintLen(b, p) ELSE IF Left(b, p) < Width(f) THEN -1 ELSE Width(f)
Element(f, b, p) == IF f \in Packed THEN VarintValue(b, p) ELSE Cut(b, p, p + Width(f))
Rest(f, b) == IF f \in Packed THEN VarintsFrom(b) ELSE PiecesFrom(b, Width(f))

LEMMA ElementFits ==
  ASSUME NEW f, NEW b \in Seq(Byte), NEW p \in 0 .. Len(b)
  PROVE  Taking(f, b, p) = -1 \/ Taking(f, b, p) \in 1 .. Left(b, p)
BY VarintStaysInside, Widths DEF Taking, Width, Left

LEMMA RestDef ==
  ASSUME NEW f, NEW b \in Seq(Byte), NEW p \in 0 .. Len(b)
  PROVE  /\ IsSeq(Rest(f, b)[p])
         /\ Taking(f, b, p) < 0 => Rest(f, b)[p] = <<>>
         /\ Taking(f, b, p) > 0 => Rest(f, b)[p] = <<Element(f, b, p)>> \o Rest(f, b)[p + Taking(f, b, p)]
<1>. DEFINE w == IF f \in Packed THEN 0 ELSE Width(f)
<1>1. w \in Nat /\ (w = 0 <=> f \in Packed)
  BY Widths DEF Width
<1>2. Taking(f, b, p) = ItemLen(b, w, p) /\ Element(f, b, p) = ItemAt(b, w, p) /\ Rest(f, b) = ItemsFrom(b, w)
  BY <1>1 DEF Taking, Element, Rest, ItemLen, ItemAt, ItemsFrom
<1>. HIDE DEF w
<1>. QED BY <1>1, <1>2, ItemsDef

(* What a field holds after each number of records.                        *)
HoldsNext(rs, items, f, H, n) ==
  IF n = 0 THEN <<>> ELSE IF rs[n].f = f THEN Holds(f, H[n - 1], items[n]) ELSE H[n - 1]

LEMMA HoldingsExist ==
  ASSUME NEW rs, Len(rs) \in Nat, NEW items, NEW f
  PROVE  \E H : H = [n \in 0 .. Len(rs) |-> HoldsNext(rs, items, f, H, n)]
<1>. DEFINE N == Len(rs)
            FirstHeld(n, H) == H = [k \in 0 .. n |-> HoldsNext(rs, items, f, H, k)]
            S == {n \in 0 .. N : \E H : FirstHeld(n, H)}
<1>1. N \in Nat
  OBVIOUS
<1>. HIDE DEF N
<1>2. 0 \in S
  <2>. DEFINE Z == [k \in 0 .. 0 |-> <<>>]
  <2>1. Z = [k \in 0 .. 0 |-> HoldsNext(rs, items, f, Z, k)]
    BY DEF HoldsNext
  <2>. HIDE DEF Z
  <2>2. \E H : FirstHeld(0, H)
    BY <2>1, Zenon
  <2>3. 0 \in 0 .. N
    BY <1>1
  <2>. HIDE DEF UpTo
  <2>. QED BY <2>2, <2>3, Zenon
<1>3. ASSUME NEW n \in 0 .. N - 1, n \in S
      PROVE  n + 1 \in S
  <2>1. PICK H : FirstHeld(n, H)
    BY <1>3
  <2>2. H = [k \in 0 .. n |-> HoldsNext(rs, items, f, H, k)]
    BY <2>1
  <2>. DEFINE G == [k \in 0 .. n + 1 |-> IF k <= n THEN H[k] ELSE HoldsNext(rs, items, f, H, k)]
  <2>3. n \in Nat /\ n + 1 \in 0 .. N
    BY <1>1
  <2>4. \A k \in 0 .. n : G[k] = H[k]
    BY <2>3
  <2>5. ASSUME NEW k \in 0 .. n + 1
        PROVE  G[k] = HoldsNext(rs, items, f, G, k)
    <3>1. k # 0 => k - 1 \in 0 .. n /\ G[k - 1] = H[k - 1]
      BY <2>3, <2>4
    <3>2. G[k] = HoldsNext(rs, items, f, H, k)
      <4>1. CASE k <= n
        <5>1. k \in 0 .. n /\ G[k] = H[k]
          BY <2>3, <2>4, <4>1
        <5>. HIDE DEF G
        <5>. QED BY <2>2, <5>1
      <4>2. CASE ~(k <= n)
        BY <4>2
      <4>. QED BY <4>1, <4>2
    <3>. HIDE DEF G
    <3>. QED BY <3>1, <3>2 DEF HoldsNext
  <2>6. G = [k \in 0 .. n + 1 |-> G[k]]
    OBVIOUS
  <2>. HIDE DEF G
  <2>7. G = [k \in 0 .. n + 1 |-> HoldsNext(rs, items, f, G, k)]
    BY <2>5, <2>6
  <2>8. \E F : FirstHeld(n + 1, F)
    BY <2>7, Zenon
  <2>. HIDE DEF UpTo
  <2>. QED BY <2>3, <2>8, Zenon
<1>. HIDE DEF S
<1>4. N \in S
  <2>1. 0 .. N \subseteq S
    BY <1>1, <1>2, <1>3, UpwardInduction
  <2>. QED BY <1>1, <2>1
<1>. QED BY <1>4 DEF S, N

LEMMA HeldDef ==
  ASSUME NEW rs, Len(rs) \in Nat, NEW items, NEW f, NEW n \in 0 .. Len(rs)
  PROVE  Held(rs, items, f)[n] = HoldsNext(rs, items, f, Held(rs, items, f), n)
<1>. DEFINE H[k \in 0 .. Len(rs)] ==
              IF k = 0 THEN <<>>
              ELSE IF rs[k].f = f THEN Holds(f, H[k - 1], items[k]) ELSE H[k - 1]
<1>1. PICK F : F = [k \in 0 .. Len(rs) |-> HoldsNext(rs, items, f, F, k)]
  BY HoldingsExist
<1>4. F = [k \in 0 .. Len(rs) |->
             IF k = 0 THEN <<>>
             ELSE IF rs[k].f = f THEN Holds(f, F[k - 1], items[k]) ELSE F[k - 1]]
  BY <1>1, Zenon DEF HoldsNext
<1>2. H = [k \in 0 .. Len(rs) |->
             IF k = 0 THEN <<>>
             ELSE IF rs[k].f = f THEN Holds(f, H[k - 1], items[k]) ELSE H[k - 1]]
  BY <1>4
<1>3. Held(rs, items, f) = H
  BY DEF Held
<1>. HIDE DEF H
<1>. QED BY <1>2, <1>3 DEF HoldsNext

-----------------------------------------------------------------------------
(* The body of a record that has one.                                      *)
LEMMA BodyCut ==
  ASSUME NEW s \in Seq(Byte), NEW p \in 0 .. Len(s) - 1, RecordAt(s, p).f # -1, RecordAt(s, p).wt = 2
  PROVE  LET r == RecordAt(s, p)
         IN  /\ VarintLen(s, p) > 0 /\ Fits(s, p) /\ r.f = FieldNum(TagAt(s, p)) /\ WireType(TagAt(s, p)) = 2
             /\ r.from = After(s, p)
             /\ BodyFrom(s, r) = Body(s, p) /\ r.to = BodyEnd(s, p)
             /\ Body(s, p) \in p + 2 .. Len(s) /\ BodyEnd(s, p) \in Body(s, p) .. Len(s)
             /\ BodyOf(s, r) = Cut(s, Body(s, p), BodyEnd(s, p))
             /\ BodyOf(s, r) \in Seq(Byte) /\ Len(BodyOf(s, r)) = BodyEnd(s, p) - Body(s, p)
<1>. DEFINE r    == RecordAt(s, p)
            from == Body(s, p)
            to   == BodyEnd(s, p)
<1>1. /\ VarintLen(s, p) > 0 /\ r.f = FieldNum(TagAt(s, p)) /\ r.from = After(s, p)
      /\ WireType(TagAt(s, p)) = 2 /\ Fits(s, p) /\ r.to = to
  BY GoodRecord, GoodEnd
<1>2. p \in 0 .. Len(s) /\ Len(s) \in Nat
  OBVIOUS
<1>3. After(s, p) \in p + 1 .. Len(s) /\ from \in After(s, p) + 1 .. Len(s) /\ to \in from .. Len(s)
  BY <1>1, <1>2, TagInside
<1>4. from \in p + 2 .. Len(s) /\ from \in 0 .. Len(s)
  BY <1>2, <1>3
<1>5. BodyFrom(s, r) = from
  BY <1>1 DEF BodyFrom, Body, After
<1>. HIDE DEF r, from, to
<1>6. BodyOf(s, r) = Cut(s, from, to)
  BY <1>1, <1>5 DEF BodyOf
<1>7. Cut(s, from, to) \in Seq(Byte) /\ Len(Cut(s, from, to)) = to - from
  BY <1>3, <1>4, CutFacts
<1>. QED BY <1>1, <1>3, <1>4, <1>5, <1>6, <1>7 DEF r, from, to

(* Every record is at an offset.                                           *)
LEMMA RecordSomewhere ==
  ASSUME NEW s \in Seq(Byte), NEW k \in 1 .. Len(Records(s))
  PROVE  \E p \in 0 .. Len(s) - 1 : Records(s)[k] = RecordAt(s, p) /\ p = Pos(s, k - 1)
<1>. DEFINE n == k - 1
<1>1. Len(Records(s)) \in Nat
  <2>1. 0 \in 0 .. 0 /\ IsSeq(Records(s))
    BY RecordsChain DEF Chain
  <2>. QED BY <2>1, SeqFacts
<1>2. n \in 0 .. Len(Records(s)) /\ n < Len(Records(s)) /\ n + 1 = k
  BY <1>1
<1>. HIDE DEF n
<1>3. Pos(s, n) \in 0 .. Len(s) - 1 /\ Records(s)[n + 1] = RecordAt(s, Pos(s, n))
  BY <1>2, NextRecord
<1>. QED BY <1>2, <1>3 DEF n

LEMMA RecordsAre ==
  ASSUME NEW s \in Seq(Byte)
  PROVE  /\ Len(Records(s)) \in Nat /\ DOMAIN Records(s) = 1 .. Len(Records(s))
         /\ ToSet(Records(s)) = {Records(s)[k] : k \in 1 .. Len(Records(s))}
<1>1. IsSeq(Records(s))
  BY RecordsChain DEF Chain
<1>. QED BY <1>1, SeqFacts DEF ToSet

LEMMA ChildrenShorter ==
  ASSUME NEW s \in Seq(Byte), NEW b \in Children(s)
  PROVE  b \in Seq(Byte) /\ Len(b) < Len(s)
<1>1. PICK r \in ToSet(Records(s)) : IsNested(r) /\ b = BodyOf(s, r)
  BY DEF Children
<1>2. PICK k \in 1 .. Len(Records(s)) : r = Records(s)[k]
  BY <1>1, RecordsAre
<1>3. PICK p \in 0 .. Len(s) - 1 : r = RecordAt(s, p)
  BY <1>2, RecordSomewhere
<1>4. r.f # -1 /\ r.wt = 2
  BY <1>1, KnownKinds DEF IsNested
<1>5. /\ Body(s, p) \in p + 2 .. Len(s) /\ BodyEnd(s, p) \in Body(s, p) .. Len(s)
      /\ b \in Seq(Byte) /\ Len(b) = BodyEnd(s, p) - Body(s, p)
  BY <1>1, <1>3, <1>4, BodyCut
<1>. QED BY <1>5

-----------------------------------------------------------------------------
(* The meaning of a message is what its definition says: the function that *)
(* the definition speaks of exists, for messages of up to any length, and  *)
(* there is one only.                                                      *)
ReadBy(M, s) == Reading(s, [b \in Children(s) |-> M[b]])
Shorter(n)   == {s \in Seq(Byte) : Len(s) < n}
Reads(M, n)  == M = [s \in Shorter(n) |-> ReadBy(M, s)]

LEMMA SameChildren ==
  ASSUME NEW M, NEW N, NEW s, \A b \in Children(s) : M[b] = N[b]
  PROVE  ReadBy(M, s) = ReadBy(N, s)
<1>1. [b \in Children(s) |-> M[b]] = [b \in Children(s) |-> N[b]]
  OBVIOUS
<1>. QED BY <1>1 DEF ReadBy

LEMMA OneReading ==
  ASSUME NEW m \in Nat, NEW n \in Nat, NEW M, Reads(M, m), NEW N, Reads(N, n)
  PROVE  \A s \in Shorter(m) \cap Shorter(n) : M[s] = N[s]
<1>. DEFINE S == {k \in Nat : \A s \in Shorter(m) \cap Shorter(n) : Len(s) = k => M[s] = N[s]}
<1>1. ASSUME NEW k \in Nat, \A j \in 0 .. k - 1 : j \in S
      PROVE  k \in S
  <2>. SUFFICES ASSUME NEW s \in Shorter(m) \cap Shorter(n), Len(s) = k
                PROVE  M[s] = N[s]
    OBVIOUS
  <2>1. ASSUME NEW b \in Children(s)
        PROVE  M[b] = N[b]
    <3>1. b \in Seq(Byte) /\ Len(b) < Len(s) /\ Len(b) \in Nat
      BY ChildrenShorter DEF Shorter
    <3>2. b \in Shorter(m) \cap Shorter(n) /\ Len(b) \in 0 .. k - 1
      BY <3>1 DEF Shorter
    <3>. QED BY <1>1, <3>2
  <2>2. ReadBy(M, s) = ReadBy(N, s)
    BY <2>1, SameChildren
  <2>. QED BY <2>2 DEF Reads
<1>. HIDE DEF S
<1>2. Nat \subseteq S
  BY <1>1, StrongInduction
<1>3. ASSUME NEW s \in Shorter(m) \cap Shorter(n)
      PROVE  M[s] = N[s]
  <2>1. Len(s) \in Nat
    BY DEF Shorter
  <2>. QED BY <1>2, <2>1 DEF S
<1>. QED BY <1>3

LEMMA ReadingsExist == \A n \in Nat : \E M : Reads(M, n)
<1>. DEFINE S == {n \in Nat : \E M : Reads(M, n)}
<1>1. ASSUME NEW n \in Nat, \A k \in 0 .. n - 1 : k \in S
      PROVE  n \in S
  <2>1. CASE n = 0
    <3>1. Shorter(0) = {}
      BY DEF Shorter
    <3>. DEFINE Z == [s \in {} |-> {}]
    <3>2. Z = [s \in Shorter(0) |-> ReadBy(Z, s)]
      BY <3>1
    <3>. HIDE DEF Z
    <3>3. Reads(Z, 0)
      BY <3>2 DEF Reads
    <3>. QED BY <2>1, <3>3
  <2>2. CASE n # 0
    <3>. DEFINE k == n - 1
    <3>1. k \in 0 .. n - 1 /\ k \in Nat /\ n = k + 1
      BY <2>2
    <3>. HIDE DEF k
    <3>2. PICK M : Reads(M, k)
      BY <1>1, <3>1
    <3>. DEFINE N == [s \in Shorter(n) |-> ReadBy(M, s)]
    <3>3. ASSUME NEW s \in Shorter(n)
          PROVE  N[s] = ReadBy(N, s)
      <4>1. ASSUME NEW b \in Children(s)
            PROVE  M[b] = N[b]
        <5>1. b \in Seq(Byte) /\ Len(b) < Len(s) /\ Len(b) \in Nat
          BY ChildrenShorter DEF Shorter
        <5>2. b \in Shorter(n) /\ b \in Shorter(k)
          BY <3>1, <5>1 DEF Shorter
        <5>3. M[b] = ReadBy(M, b)
          BY <3>2, <5>2 DEF Reads
        <5>. QED BY <5>2, <5>3
      <4>2. N[s] = ReadBy(M, s)
        OBVIOUS
      <4>. HIDE DEF N
      <4>3. ReadBy(M, s) = ReadBy(N, s)
        BY <4>1, SameChildren
      <4>. QED BY <4>2, <4>3
    <3>4. N = [s \in Shorter(n) |-> N[s]]
      OBVIOUS
    <3>. HIDE DEF N
    <3>5. Reads(N, n)
      BY <3>3, <3>4 DEF Reads
    <3>. QED BY <3>5
  <2>. QED BY <2>1, <2>2
<1>. HIDE DEF S
<1>2. Nat \subseteq S
  BY <1>1, StrongInduction
<1>. QED BY <1>2 DEF S

LEMMA MeaningDef ==
  ASSUME NEW s \in Seq(Byte)
  PROVE  Meaning[s] = Reading(s, [b \in Children(s) |-> Meaning[b]])
<1>. DEFINE R(n) == CHOOSE M : Reads(M, n)
            G == [t \in Seq(Byte) |-> R(Len(t) + 1)[t]]
<1>1. \A n \in Nat : Reads(R(n), n)
  BY ReadingsExist
<1>. HIDE DEF R
<1>2. ASSUME NEW t \in Seq(Byte)
      PROVE  G[t] = ReadBy(G, t)
  <2>. DEFINE n == Len(t) + 1
  <2>1. n \in Nat /\ t \in Shorter(n)
    BY DEF Shorter
  <2>2. G[t] = ReadBy(R(n), t)
    <3>1. G[t] = R(n)[t] /\ Reads(R(n), n)
      BY <1>1, <2>1
    <3>. HIDE DEF G, n
    <3>. QED BY <2>1, <3>1 DEF Reads
  <2>3. ASSUME NEW b \in Children(t)
        PROVE  R(n)[b] = G[b]
    <3>. DEFINE k == Len(b) + 1
    <3>1. b \in Seq(Byte) /\ Len(b) < Len(t) /\ Len(b) \in Nat
      BY ChildrenShorter
    <3>2. b \in Shorter(n) \cap Shorter(k) /\ k \in Nat
      BY <3>1 DEF Shorter
    <3>3. G[b] = R(k)[b]
      BY <3>1
    <3>. HIDE DEF G, n, k
    <3>. QED BY <1>1, <2>1, <3>2, <3>3, OneReading
  <2>. HIDE DEF G, n
  <2>. QED BY <2>2, <2>3, SameChildren
<1>3. G = [t \in Seq(Byte) |-> G[t]]
  OBVIOUS
<1>. HIDE DEF G
<1>4. G = [t \in Seq(Byte) |-> ReadBy(G, t)]
  BY <1>2, <1>3
<1>5. G = [t \in Seq(Byte) |-> Reading(t, [b \in Children(t) |-> G[b]])]
  BY <1>4, Zenon DEF ReadBy
<1>6. Meaning = [t \in Seq(Byte) |-> Reading(t, [b \in Children(t) |-> Meaning[b]])]
  BY <1>5, Zenon DEF Meaning
<1>. QED BY <1>6

-----------------------------------------------------------------------------
(* A varint ends once, ...                                                 *)
LEMMA VarintEnds ==
  ASSUME NEW s \in Seq(Byte), NEW p \in 0 .. Len(s), NEW n \in 1 .. MaxVarintLen, EndsAfter(s, p, n)
  PROVE  VarintLen(s, p) = n
<1>1. \A k \in 1 .. n : s[p + k] \in Nat
  BY Widths DEF EndsAfter, Left, Byte
<1>2. ASSUME NEW m \in 1 .. MaxVarintLen, EndsAfter(s, p, m)
      PROVE  m = n
  <2>1. \A k \in 1 .. m : s[p + k] \in Nat
    BY <1>2, Widths DEF EndsAfter, Left, Byte
  <2>2. /\ s[p + n] < Base /\ \A k \in 1 .. n - 1 : s[p + k] >= Base
        /\ s[p + m] < Base /\ \A k \in 1 .. m - 1 : s[p + k] >= Base
    BY <1>2 DEF EndsAfter
  <2>3. m \in Nat /\ n \in Nat /\ m >= 1 /\ n >= 1
    BY Widths
  <2>4. CASE m < n
    <3>1. m \in 1 .. n - 1 /\ m \in 1 .. n
      BY <2>3, <2>4
    <3>. QED BY <1>1, <2>2, <3>1, Widths
  <2>5. CASE n < m
    <3>1. n \in 1 .. m - 1 /\ n \in 1 .. m
      BY <2>3, <2>5
    <3>. QED BY <2>1, <2>2, <3>1, Widths
  <2>. QED BY <2>3, <2>4, <2>5
<1>. QED BY <1>2, Zenon DEF VarintLen

LEMMA VarintIs ==
  ASSUME NEW s \in Seq(Byte), NEW p \in 0 .. Len(s), VarintLen(s, p) > 0
  PROVE  VarintLen(s, p) \in 1 .. MaxVarintLen /\ EndsAfter(s, p, VarintLen(s, p))
<1>1. VarintLen(s, p) # -1
  OBVIOUS
<1>. QED BY <1>1, Zenon DEF VarintLen

(* ... and each of its bytes begins a shorter one.                         *)
LEMMA ShorterVarints ==
  ASSUME NEW s \in Seq(Byte), NEW p \in 0 .. Len(s), VarintLen(s, p) > 0, NEW k \in p .. After(s, p) - 1
  PROVE  VarintLen(s, k) > 0
<1>. DEFINE n == VarintLen(s, p)
            m == p + n - k
<1>1. n \in 1 .. MaxVarintLen /\ EndsAfter(s, p, n) /\ k \in p .. p + n - 1
  BY VarintIs DEF After
<1>. HIDE DEF n
<1>2. m \in 1 .. MaxVarintLen /\ m <= n /\ k + m = p + n /\ n \in Nat /\ p + n <= Len(s) /\ k \in 0 .. Len(s)
  BY <1>1, Widths DEF EndsAfter, Left
<1>3. ASSUME NEW j \in 1 .. m - 1
      PROVE  s[k + j] >= Base
  <2>. DEFINE h == k + j - p
  <2>1. h \in 1 .. n - 1 /\ p + h = k + j
    BY <1>1, <1>2
  <2>. HIDE DEF h
  <2>2. s[p + h] >= Base
    BY <1>1, <2>1 DEF EndsAfter
  <2>. QED BY <2>1, <2>2
<1>4. s[k + m] < Base /\ m <= Left(s, k)
  BY <1>1, <1>2 DEF EndsAfter, Left
<1>5. EndsAfter(s, k, m)
  BY <1>3, <1>4 DEF EndsAfter
<1>6. VarintLen(s, k) = m
  <2>. HIDE DEF m
  <2>. QED BY <1>2, <1>5, VarintEnds
<1>. QED BY <1>2, <1>6

(* The same bytes are worth the same.                                      *)
LEMMA SameWorth ==
  ASSUME NEW s, NEW t, NEW a \in Nat, NEW b \in Nat, NEW n \in Nat,
         \A k \in 1 .. n : s[a + k] = t[b + k]
  PROVE  Worth(s, a + n, n)[n] = Worth(t, b + n, n)[n]
<1>. DEFINE W == Worth(s, a + n, n)
            V == Worth(t, b + n, n)
            S == {k \in 0 .. n : W[k] = V[k]}
<1>1. \A k \in 0 .. n : /\ W[k] = IF k = 0 THEN 0 ELSE (s[a + n + 1 - k] % Base) + Base * W[k - 1]
                        /\ V[k] = IF k = 0 THEN 0 ELSE (t[b + n + 1 - k] % Base) + Base * V[k - 1]
  BY WorthDef DEF Digit
<1>. HIDE DEF W, V
<1>2. 0 \in S
  BY <1>1
<1>3. ASSUME NEW k \in 0 .. n - 1, k \in S
      PROVE  k + 1 \in S
  <2>. DEFINE j == n - k
  <2>1. j \in 1 .. n /\ a + n + 1 - (k + 1) = a + j /\ b + n + 1 - (k + 1) = b + j
    BY <1>3
  <2>2. k + 1 \in 0 .. n /\ k + 1 # 0 /\ (k + 1) - 1 = k
    BY <1>3
  <2>. HIDE DEF j
  <2>3. s[a + j] = t[b + j]
    BY <2>1
  <2>4. /\ W[k + 1] = (s[a + n + 1 - (k + 1)] % Base) + Base * W[(k + 1) - 1]
        /\ V[k + 1] = (t[b + n + 1 - (k + 1)] % Base) + Base * V[(k + 1) - 1]
    BY <1>1, <2>2, Zenon
  <2>5. W[k + 1] = V[k + 1]
    BY <1>3, <2>1, <2>2, <2>3, <2>4
  <2>. QED BY <2>2, <2>5
<1>. HIDE DEF S
<1>4. n \in S
  <2>1. 0 .. n \subseteq S
    BY <1>2, <1>3, UpwardInduction
  <2>. QED BY <2>1
<1>. QED BY <1>4 DEF S, W, V

(* A varint of a piece of s is one of s, and the other way around if it    *)
(* ends inside of the piece.                                               *)
LEMMA VarintOfCut ==
  ASSUME NEW s \in Seq(Byte), NEW from \in 0 .. Len(s), NEW to \in from .. Len(s),
         NEW q \in 0 .. to - from,
         \/ VarintLen(Cut(s, from, to), q) > 0
         \/ VarintLen(s, from + q) > 0 /\ After(s, from + q) <= to
  PROVE  /\ VarintLen(s, from + q) > 0
         /\ VarintLen(Cut(s, from, to), q) = VarintLen(s, from + q)
         /\ VarintValue(Cut(s, from, to), q) = VarintValue(s, from + q)
<1>. DEFINE b == Cut(s, from, to)
            p == from + q
<1>1. b \in Seq(Byte) /\ Len(b) = to - from /\ \A k \in 1 .. to - from : b[k] = s[from + k]
  BY CutFacts
<1>2. p \in 0 .. Len(s) /\ p \in Nat /\ p = from + q
  OBVIOUS
<1>. HIDE DEF b, p
<1>3. q \in 0 .. Len(b)
  BY <1>1
<1>4. ASSUME NEW n \in 1 .. MaxVarintLen, EndsAfter(b, q, n) \/ (EndsAfter(s, p, n) /\ p + n <= to)
      PROVE  EndsAfter(s, p, n) /\ EndsAfter(b, q, n) /\ \A k \in 1 .. n : b[q + k] = s[p + k]
  <2>1. n \in Nat /\ n >= 1 /\ q + n <= to - from
    BY <1>1, <1>2, <1>4, Widths DEF EndsAfter, Left
  <2>2. ASSUME NEW k \in 1 .. n
        PROVE  b[q + k] = s[p + k]
    <3>. DEFINE h == q + k
    <3>1. h \in 1 .. to - from /\ from + h = p + k
      BY <1>2, <2>1
    <3>. HIDE DEF h
    <3>2. b[h] = s[from + h]
      BY <1>1, <3>1
    <3>. QED BY <3>1, <3>2 DEF h
  <2>3. \A k \in 1 .. n - 1 : b[q + k] = s[p + k]
    <3>1. \A k \in 1 .. n - 1 : k \in 1 .. n
      BY <2>1
    <3>. QED BY <2>2, <3>1, Zenon
  <2>4. b[q + n] = s[p + n]
    <3>1. n \in 1 .. n
      BY <2>1
    <3>. QED BY <2>2, <3>1
  <2>5. n <= Left(b, q) /\ n <= Left(s, p)
    BY <1>1, <1>2, <2>1 DEF Left
  <2>. QED BY <1>4, <2>2, <2>3, <2>4, <2>5 DEF EndsAfter
<1>5. \E n \in 1 .. MaxVarintLen : EndsAfter(b, q, n) \/ (EndsAfter(s, p, n) /\ p + n <= to)
  <2>1. CASE VarintLen(b, q) > 0
    BY <1>1, <1>3, <2>1, VarintIs
  <2>2. CASE VarintLen(s, p) > 0 /\ After(s, p) <= to
    BY <1>2, <2>2, VarintIs DEF After
  <2>. QED BY <2>1, <2>2 DEF b, p
<1>6. PICK n \in 1 .. MaxVarintLen : EndsAfter(b, q, n) \/ (EndsAfter(s, p, n) /\ p + n <= to)
  BY <1>5
<1>7. EndsAfter(s, p, n) /\ EndsAfter(b, q, n) /\ \A k \in 1 .. n : b[q + k] = s[p + k]
  BY <1>4, <1>6
<1>8. VarintLen(b, q) = n
  BY <1>1, <1>3, <1>7, VarintEnds
<1>9. VarintLen(s, p) = n
  BY <1>2, <1>7, VarintEnds
<1>10. n \in Nat /\ n > 0 /\ ~(n < 0)
  BY Widths
<1>11. VarintValue(b, q) = VarintValue(s, p)
  <2>1. /\ VarintValue(b, q) = Worth(b, q + n, n)[n] % Word
        /\ VarintValue(s, p) = Worth(s, p + n, n)[n] % Word
    BY <1>8, <1>9, <1>10 DEF VarintValue
  <2>2. Worth(b, q + n, n)[n] = Worth(s, p + n, n)[n]
    <3>1. q \in Nat
      BY <1>3
    <3>2. p \in Nat /\ n \in Nat /\ \A k \in 1 .. n : b[q + k] = s[p + k]
      BY <1>2, <1>7, <1>10
    <3>. HIDE DEF b, p
    <3>. QED BY <3>1, <3>2, SameWorth
  <2>. QED BY <2>1, <2>2
<1>. QED BY <1>8, <1>9, <1>10, <1>11 DEF b, p

(* What is read of the rest of s is read of s.                             *)
LEMMA VarintOfRest ==
  ASSUME NEW s \in Seq(Byte), NEW a \in 0 .. Len(s), NEW q \in 0 .. Len(s) - a
  PROVE  LET t == Cut(s, a, Len(s))
         IN  /\ VarintLen(t, q) = VarintLen(s, a + q) /\ VarintValue(t, q) = VarintValue(s, a + q)
             /\ Left(t, q) = Left(s, a + q)
<1>. DEFINE t == Cut(s, a, Len(s))
            p == a + q
<1>1. t \in Seq(Byte) /\ Len(t) = Len(s) - a
  <2>1. Len(s) \in a .. Len(s)
    OBVIOUS
  <2>. QED BY <2>1, CutFacts
<1>2. p \in 0 .. Len(s) /\ q \in 0 .. Len(t) /\ p = a + q
  BY <1>1
<1>. HIDE DEF p
<1>3. Left(t, q) = Left(s, p)
  BY <1>1, <1>2 DEF Left
<1>4. /\ VarintLen(t, q) = -1 \/ VarintLen(t, q) > 0
      /\ VarintLen(s, p) = -1 \/ (VarintLen(s, p) > 0 /\ After(s, p) <= Len(s))
  <2>. HIDE DEF t
  <2>1. VarintLen(t, q) = -1 \/ VarintLen(t, q) \in 1 .. Left(t, q)
    BY <1>1, <1>2, VarintStaysInside
  <2>2. VarintLen(s, p) = -1 \/ VarintLen(s, p) \in 1 .. Left(s, p)
    BY <1>1, <1>2, VarintStaysInside
  <2>3. VarintLen(s, p) > 0 => After(s, p) <= Len(s)
    BY <1>2, <2>2 DEF After, Left
  <2>. QED BY <1>1, <2>1, <2>2, <2>3 DEF Left
<1>5. CASE VarintLen(t, q) = -1 /\ VarintLen(s, p) = -1
  BY <1>3, <1>5 DEF VarintValue, p
<1>6. CASE VarintLen(t, q) > 0 \/ (VarintLen(s, p) > 0 /\ After(s, p) <= Len(s))
  <2>1. Len(s) \in a .. Len(s) /\ q \in 0 .. Len(s) - a
    OBVIOUS
  <2>2. VarintLen(t, q) = VarintLen(s, p) /\ VarintValue(t, q) = VarintValue(s, p)
    BY <1>6, <2>1, VarintOfCut DEF p
  <2>. QED BY <1>3, <2>2 DEF p
<1>. QED BY <1>4, <1>5, <1>6

LEMMA ArmOfRest ==
  ASSUME NEW s \in Seq(Byte), NEW a \in 0 .. Len(s), NEW q \in 0 .. Len(s) - a,
         VarintLen(s, a + q) > 0, NEW t, t = Cut(s, a, Len(s))
  PROVE  /\ VarintLen(t, q) > 0 /\ TagAt(t, q) = TagAt(s, a + q) /\ After(s, a + q) = a + After(t, q)
         /\ HasOperand(t, q) <=> HasOperand(s, a + q)
         /\ Operand(t, q) = Operand(s, a + q) /\ Body(s, a + q) = a + Body(t, q)
         /\ BodyEnd(s, a + q) = a + BodyEnd(t, q)
         /\ Fits(t, q) <=> Fits(s, a + q)
         /\ \A wt : SkipField(t, After(t, q), wt) = SkipField(s, After(s, a + q), wt)
<1>. DEFINE p == a + q
            x == After(t, q)
            y == After(s, p)
            z == VarintLen(t, x)
<1>1. t \in Seq(Byte) /\ Len(t) = Len(s) - a
  <2>1. Len(s) \in a .. Len(s)
    OBVIOUS
  <2>. QED BY <2>1, CutFacts
<1>2. p \in 0 .. Len(s) /\ q \in 0 .. Len(t) /\ p = a + q /\ a \in Nat
  BY <1>1
<1>3. VarintLen(t, q) = VarintLen(s, p) /\ VarintValue(t, q) = VarintValue(s, p)
  BY VarintOfRest
<1>. HIDE DEF p
<1>4. y \in p + 1 .. Len(s)
  BY <1>2, TagInside DEF p
<1>5. y = a + x /\ x \in 0 .. Len(s) - a
  <2>1. VarintLen(t, q) \in Int
    BY <1>1, <1>2, VarintStaysInside
  <2>. QED BY <1>1, <1>2, <1>3, <1>4, <2>1 DEF After
<1>. HIDE DEF x, y
<1>6. VarintLen(t, x) = VarintLen(s, y) /\ VarintValue(t, x) = VarintValue(s, y) /\ Left(t, x) = Left(s, y)
  BY <1>5, VarintOfRest
<1>7. z \in Int /\ VarintValue(t, x) \in Nat /\ (z > 0 => z \in 1 .. Left(t, x))
  <2>1. x \in 0 .. Len(t)
    BY <1>1, <1>5
  <2>. QED BY <1>1, <2>1, VarintStaysInside, ValueIsAWord, Widths
<1>. HIDE DEF z
<1>8. y + z = a + (x + z)
  BY <1>5, <1>7, <1>2
<1>9. Body(t, q) = x + z /\ Body(s, p) = y + z
  BY <1>6 DEF Body, After, x, y, z
<1>10. Left(t, x + z) = Left(s, y + z)
  BY <1>1, <1>2, <1>5, <1>7, <1>8 DEF Left
<1>11. /\ HasOperand(t, q) <=> HasOperand(s, p)
       /\ Operand(t, q) = Operand(s, p) /\ Operand(t, q) \in Nat
  BY <1>6, <1>7 DEF HasOperand, Operand, x, y
<1>12. BodyEnd(s, p) = a + BodyEnd(t, q)
  BY <1>2, <1>5, <1>7, <1>8, <1>9, <1>11 DEF BodyEnd
<1>13. Fits(t, q) <=> Fits(s, p)
  BY <1>9, <1>10, <1>11 DEF Fits
<1>14. ASSUME NEW wt
       PROVE  SkipField(t, x, wt) = SkipField(s, y, wt)
  <2>. DEFINE v == VarintValue(t, x)
              e == Left(t, x)
              f == Left(t, x + z)
  <2>1. VarintLen(t, x) = z /\ VarintLen(s, y) = z /\ VarintValue(t, x) = v /\ VarintValue(s, y) = v
        /\ Left(t, x) = e /\ Left(s, y) = e /\ Left(t, x + z) = f /\ Left(s, y + z) = f
    BY <1>6, <1>10 DEF z
  <2>. HIDE DEF v, e, f
  <2>2. SkipField(t, x, wt) = CASE wt = 0 -> z
             [] wt = 1 -> IF e < Width8 THEN -1 ELSE Width8
             [] wt = 2 -> IF z < 0 \/ f < v THEN -1 ELSE z + v
             [] wt = 5 -> IF e < Width4 THEN -1 ELSE Width4
             [] OTHER  -> -1
    BY <2>1, Zenon DEF SkipField
  <2>3. SkipField(s, y, wt) = CASE wt = 0 -> z
             [] wt = 1 -> IF e < Width8 THEN -1 ELSE Width8
             [] wt = 2 -> IF z < 0 \/ f < v THEN -1 ELSE z + v
             [] wt = 5 -> IF e < Width4 THEN -1 ELSE Width4
             [] OTHER  -> -1
    BY <2>1, Zenon DEF SkipField
  <2>. QED BY <2>2, <2>3, Zenon
<1>. QED BY <1>3, <1>5, <1>8, <1>9, <1>11, <1>12, <1>13, <1>14 DEF TagAt, p, x, y

-----------------------------------------------------------------------------
(* The last record of a number, among one record more.                     *)
Numbered(rs, n, num) == {0} \cup {k \in 1 .. n : rs[k].f = num}

LEMMA LastIs ==
  ASSUME NEW rs, NEW n \in Nat, NEW num, NEW k \in Numbered(rs, n, num), \A j \in Numbered(rs, n, num) : k >= j
  PROVE  LastOf(rs, n, num) = k
<1>1. Numbered(rs, n, num) \subseteq Nat
  BY DEF Numbered
<1>2. \A x, y \in Numbered(rs, n, num) : x >= y /\ y >= x => x = y
  BY <1>1
<1>3. LastOf(rs, n, num) = CHOOSE x \in Numbered(rs, n, num) : \A j \in Numbered(rs, n, num) : x >= j
  BY DEF LastOf, Max, Numbered
<1>. QED BY <1>2, <1>3, Zenon

LEMMA LastExists ==
  ASSUME NEW rs, NEW n \in Nat, NEW num
  PROVE  LastOf(rs, n, num) \in Numbered(rs, n, num)
         /\ \A j \in Numbered(rs, n, num) : LastOf(rs, n, num) >= j
<1>. DEFINE S == {m \in 0 .. n : \E k \in Numbered(rs, m, num) : \A j \in Numbered(rs, m, num) : k >= j}
<1>1. 0 \in S
  <2>1. Numbered(rs, 0, num) = {0}
    BY DEF Numbered
  <2>. QED BY <2>1
<1>2. ASSUME NEW m \in 0 .. n - 1, m \in S
      PROVE  m + 1 \in S
  <2>1. PICK k \in Numbered(rs, m, num) : \A j \in Numbered(rs, m, num) : k >= j
    BY <1>2
  <2>2. CASE rs[m + 1].f = num
    <3>1. m + 1 \in Numbered(rs, m + 1, num) /\ \A j \in Numbered(rs, m + 1, num) : m + 1 >= j
      BY <2>2 DEF Numbered
    <3>. QED BY <3>1
  <2>3. CASE rs[m + 1].f # num
    <3>1. Numbered(rs, m + 1, num) = Numbered(rs, m, num)
      BY <2>3 DEF Numbered
    <3>. QED BY <2>1, <3>1
  <2>. QED BY <2>2, <2>3
<1>. HIDE DEF S
<1>3. n \in S
  <2>1. 0 .. n \subseteq S
    BY <1>1, <1>2, UpwardInduction
  <2>. QED BY <2>1
<1>. QED BY <1>3, LastIs DEF S

LEMMA LastOfNext ==
  ASSUME NEW rs, NEW n \in Nat, NEW num
  PROVE  /\ LastOf(rs, 0, num) = 0
         /\ LastOf(rs, n + 1, num) = IF rs[n + 1].f = num THEN n + 1 ELSE LastOf(rs, n, num)
<1>1. LastOf(rs, 0, num) = 0
  <2>1. 0 \in Numbered(rs, 0, num) /\ \A j \in Numbered(rs, 0, num) : 0 >= j
    BY DEF Numbered
  <2>. QED BY <2>1, LastIs
<1>2. CASE rs[n + 1].f = num
  <2>1. n + 1 \in Numbered(rs, n + 1, num) /\ \A j \in Numbered(rs, n + 1, num) : n + 1 >= j
    BY <1>2 DEF Numbered
  <2>2. n + 1 \in Nat
    OBVIOUS
  <2>. QED BY <1>1, <1>2, <2>1, <2>2, LastIs
<1>3. CASE rs[n + 1].f # num
  <2>1. Numbered(rs, n + 1, num) = Numbered(rs, n, num)
    BY <1>3 DEF Numbered
  <2>2. LastOf(rs, n + 1, num) = LastOf(rs, n, num)
    BY <2>1 DEF LastOf, Numbered
  <2>. QED BY <1>1, <1>3, <2>2
<1>. QED BY <1>2, <1>3

(* What an entry says after one record more.                               *)
LEMMA EntryStarts ==
  ASSUME NEW f, NEW b, NEW num
  PROVE  EntryLast(f, b, 0, num) = Default(Kind(f, num))
<1>1. LastOf(Records(b), 0, num) = 0
  <2>1. 0 \in Nat
    OBVIOUS
  <2>. QED BY <2>1, LastOfNext
<1>. QED BY <1>1 DEF EntryLast

LEMMA EntryGoesOn ==
  ASSUME NEW f, NEW b, NEW n \in Nat, NEW num
  PROVE  LET r == Records(b)[n + 1]
         IN  EntryLast(f, b, n + 1, num) = IF r.f = num THEN Says(Kind(f, num), b, r) ELSE EntryLast(f, b, n, num)
<1>1. n + 1 # 0
  OBVIOUS
<1>2. LastOf(Records(b), n + 1, num) =
        IF Records(b)[n + 1].f = num THEN n + 1 ELSE LastOf(Records(b), n, num)
  BY LastOfNext
<1>3. CASE Records(b)[n + 1].f = num
  BY <1>1, <1>2, <1>3 DEF EntryLast
<1>4. CASE Records(b)[n + 1].f # num
  BY <1>2, <1>4 DEF EntryLast
<1>. QED BY <1>3, <1>4

-----------------------------------------------------------------------------
(* What a message is to proto3: whether its packed bodies are whole and its*)
(* entries typed, whether it is well-formed; whether a record of it is; and*)
(* what its first n records leave in field f.                              *)
Regular(s)    == Meaning[s].regular
Accepted(s)   == Meaning[s].ok
Fine(s, r)    == Good(s, r) /\ (IsNested(r) => Accepted(BodyOf(s, r)))
Inners(s)     == [b \in Children(s) |-> Meaning[b]]
ItemsOf(s)    == [k \in DOMAIN Records(s) |-> Items(s, Records(s)[k], Inners(s))]
HeldOf(s, n, f) == Held(Records(s), ItemsOf(s), f)[n]

LEMMA Understood ==
  ASSUME NEW s \in Seq(Byte)
  PROVE  /\ Accepted(s) <=> \A k \in 1 .. Len(Records(s)) : Fine(s, Records(s)[k])
         /\ Regular(s) <=> \A k \in 1 .. Len(Records(s)) :
                             /\ Whole(s, Records(s)[k])
                             /\ IsEntry(Records(s)[k]) => EntryTyped(Records(s)[k].f, BodyOf(s, Records(s)[k]))
                             /\ IsNested(Records(s)[k]) => Regular(BodyOf(s, Records(s)[k]))
         /\ Accepted(s) => Meaning[s].out = [f \in Known |-> HeldOf(s, Len(Records(s)), f)]
<1>. DEFINE rs == Records(s)
            N  == Len(rs)
            items == [n \in DOMAIN rs |-> Items(s, rs[n], Inners(s))]
            ok == \A r \in ToSet(rs) : Good(s, r) /\ (IsNested(r) => Inners(s)[BodyOf(s, r)].ok)
            reg == \A r \in ToSet(rs) :
                     /\ Whole(s, r)
                     /\ IsEntry(r)  => EntryTyped(r.f, BodyOf(s, r))
                     /\ IsNested(r) => Inners(s)[BodyOf(s, r)].regular
            out == [f \in Known |-> Held(rs, items, f)[Len(rs)]]
<1>1. Meaning[s] = [ok |-> ok, regular |-> reg, out |-> IF ok THEN out ELSE <<>>]
  BY MeaningDef, Zenon DEF Reading, Inners
<1>2. items = ItemsOf(s)
  BY DEF ItemsOf
<1>3. \A r \in ToSet(rs) : IsNested(r) => Inners(s)[BodyOf(s, r)] = Meaning[BodyOf(s, r)]
  BY DEF Inners, Children
<1>4. ToSet(rs) = {rs[k] : k \in 1 .. N}
  BY RecordsAre
<1>. HIDE DEF rs, N, items
<1>5. ok <=> \A k \in 1 .. N : Fine(s, rs[k])
  BY <1>3, <1>4 DEF Fine, Accepted
<1>6. reg <=> \A k \in 1 .. N : /\ Whole(s, rs[k])
                                /\ IsEntry(rs[k]) => EntryTyped(rs[k].f, BodyOf(s, rs[k]))
                                /\ IsNested(rs[k]) => Regular(BodyOf(s, rs[k]))
  BY <1>3, <1>4 DEF Regular
<1>7. out = [f \in Known |-> HeldOf(s, N, f)]
  BY <1>2 DEF HeldOf, rs, N
<1>. HIDE DEF ok, reg, out
<1>8. (Accepted(s) <=> ok) /\ (Regular(s) <=> reg) /\ (ok => Meaning[s].out = out)
  BY <1>1 DEF Accepted, Regular
<1>9. Accepted(s) <=> \A k \in 1 .. N : Fine(s, rs[k])
  BY <1>5, <1>8
<1>10. Regular(s) <=> \A k \in 1 .. N : /\ Whole(s, rs[k])
                                        /\ IsEntry(rs[k]) => EntryTyped(rs[k].f, BodyOf(s, rs[k]))
                                        /\ IsNested(rs[k]) => Regular(BodyOf(s, rs[k]))
  BY <1>6, <1>8
<1>11. Accepted(s) => Meaning[s].out = [f \in Known |-> HeldOf(s, N, f)]
  BY <1>7, <1>8
<1>. QED BY <1>9, <1>10, <1>11 DEF rs, N

LEMMA HeldStarts ==
  ASSUME NEW s \in Seq(Byte), NEW f
  PROVE  HeldOf(s, 0, f) = <<>>
<1>1. Len(Records(s)) \in Nat /\ 0 \in 0 .. Len(Records(s))
  BY RecordsAre
<1>. QED BY <1>1, HeldDef DEF HeldOf, HoldsNext

LEMMA HeldGoesOn ==
  ASSUME NEW s \in Seq(Byte), NEW n \in Nat, n < Len(Records(s)), NEW f
  PROVE  HeldOf(s, n + 1, f) = IF Records(s)[n + 1].f = f
                               THEN Holds(f, HeldOf(s, n, f), Items(s, Records(s)[n + 1], Inners(s)))
                               ELSE HeldOf(s, n, f)
<1>1. /\ Len(Records(s)) \in Nat /\ n + 1 \in 0 .. Len(Records(s)) /\ n + 1 # 0 /\ (n + 1) - 1 = n
      /\ n + 1 \in DOMAIN Records(s)
  BY RecordsAre
<1>2. ItemsOf(s)[n + 1] = Items(s, Records(s)[n + 1], Inners(s))
  BY <1>1 DEF ItemsOf
<1>. DEFINE m == n + 1
            H == Held(Records(s), ItemsOf(s), f)
<1>3. H[m] = HoldsNext(Records(s), ItemsOf(s), f, H, m)
  <2>. HIDE DEF m
  <2>. QED BY <1>1, HeldDef DEF m
<1>. HIDE DEF H
<1>4. H[m] = IF Records(s)[m].f = f THEN Holds(f, H[n], ItemsOf(s)[m]) ELSE H[n]
  BY <1>1, <1>3 DEF HoldsNext
<1>. QED BY <1>2, <1>4 DEF H, HeldOf

-----------------------------------------------------------------------------
(* The inductive invariant: a call c has taken the first n records of its  *)
(* slice, all well-formed, and holds what they say.                        *)
IsFields(out)  == out = [g \in Known |-> out[g]] /\ \A g \in Known \ Map : IsSeq(out[g])
Holding(c, n)  == IsFields(c.out) /\ \A g \in Known : c.out[g] = HeldOf(c.data, n, g)
Taken(c, n)    == n \in 0 .. Len(Records(c.data)) /\ \A k \in 1 .. n : Fine(c.data, Records(c.data)[k])
Between(c)     == \E n \in Nat : Taken(c, n) /\ c.i = Pos(c.data, n) /\ Holding(c, n)

(* It is inside of the body of the next one, of field f, that ends at to.  *)
InBody(c, n, f, to) ==
  /\ Taken(c, n) /\ n < Len(Records(c.data))
  /\ LET r == Records(c.data)[n + 1]
     IN  r.f = f /\ r.wt = 2 /\ r.to = to /\ BodyFrom(c.data, r) <= c.i

(* The numbers of a run that were stored, and those that are left.         *)
InRun(c, n, f, to) ==
  LET r == Records(c.data)[n + 1]
      b == BodyOf(c.data, r)
      q == c.i - BodyFrom(c.data, r)
  IN  /\ InBody(c, n, f, to)
      /\ IsFields(c.out) /\ \A g \in Known \ {f} : c.out[g] = HeldOf(c.data, n, g)
      /\ HeldOf(c.data, n, f) \o Rest(f, b)[0] = c.out[f] \o Rest(f, b)[q]
      /\ f \in Packed => \A p \in 0 .. q - 1 : VarintLen(b, p) > 0

(* The records of an entry that were read.                                 *)
InEntry(c, n, m, f, to, key, value) ==
  LET r == Records(c.data)[n + 1]
      b == BodyOf(c.data, r)
  IN  /\ InBody(c, n, f, to) /\ Holding(c, n)
      /\ m \in 0 .. Len(Records(b)) /\ c.i = BodyFrom(c.data, r) + Pos(b, m)
      /\ \A k \in 1 .. m : Records(b)[k].f # -1
      /\ key = EntryLast(f, b, m, 1) /\ value = EntryLast(f, b, m, 2)

(* A call that waits is inside of the record that its message is from.     *)
Nests(k) ==
  LET c == stack[k].call
  IN  \E n \in Nat : /\ InBody(c, n, stack[k].f, c.i + Len(Inner(k).data)) /\ Holding(c, n)
                     /\ Inner(k).data = BodyOf(c.data, Records(c.data)[n + 1])

Nested ==
  /\ Inner(0).data = input
  /\ Regular(input) =>
       /\ \A k \in 0 .. Len(stack) : /\ Regular(Inner(k).data)
                                     /\ Accepted(input) => Accepted(Inner(k).data)
       /\ \A k \in DOMAIN stack : Nests(k)

Reached ==
  Regular(input) =>
    /\ pc \in {"prescan", "main"} => Between(top)
    /\ pc = "run"   => \E n \in Nat : InRun(top, n, field, end)
    /\ pc = "entry" => \E n, m \in Nat : InEntry(top, n, m, field, end, mk, mv)
    /\ pc = "err"   => ~Accepted(input)
    /\ pc = "ok"    => Accepted(input) /\ top.out = Meaning[input].out

MInv == Nested /\ Reached

-----------------------------------------------------------------------------
(* What is said of a call is said of its slice and of what it holds.       *)
LEMMA SameBetween ==
  ASSUME NEW c, NEW d, d.data = c.data, d.i = c.i, d.out = c.out, Between(c)
  PROVE  Between(d)
BY DEF Between, Taken, Holding

(* One record more, in one step or at the end of a loop.                   *)
LEMMA TakesOneMore ==
  ASSUME NEW c, NEW d, c.data \in Seq(Byte), d.data = c.data, NEW n \in Nat,
         Taken(c, n), n < Len(Records(c.data)), Fine(c.data, Records(c.data)[n + 1]),
         d.i = Records(c.data)[n + 1].to, IsFields(d.out),
         \A g \in Known :
           d.out[g] = IF Records(c.data)[n + 1].f = g
                      THEN Holds(g, HeldOf(c.data, n, g), Items(c.data, Records(c.data)[n + 1], Inners(c.data)))
                      ELSE HeldOf(c.data, n, g)
  PROVE  Between(d)
<1>1. Len(Records(c.data)) \in Nat
  BY RecordsAre
<1>2. n + 1 \in 0 .. Len(Records(c.data)) /\ n + 1 # 0 /\ n + 1 \in Nat
  BY <1>1
<1>3. \A k \in 1 .. n + 1 : Fine(c.data, Records(c.data)[k])
  <2>1. \A k \in 1 .. n + 1 : k \in 1 .. n \/ k = n + 1
    OBVIOUS
  <2>. QED BY <2>1 DEF Taken
<1>4. \A g \in Known : d.out[g] = HeldOf(c.data, n + 1, g)
  BY HeldGoesOn
<1>5. d.i = Pos(c.data, n + 1)
  BY <1>2 DEF Pos
<1>6. Taken(d, n + 1) /\ Holding(d, n + 1)
  BY <1>2, <1>3, <1>4 DEF Taken, Holding
<1>. QED BY <1>2, <1>5, <1>6 DEF Between

LEMMA NewBetween ==
  ASSUME NEW s \in Seq(Byte), NEW offset, NEW nils, NEW c, c = Frame(s, offset, nils)
  PROVE  Between(c)
<1>1. c.data = s /\ c.i = 0 /\ c.out = [f \in Known |-> <<>>]
  BY DEF Frame
<1>2. IsSeq(<<>>)
  <2>1. <<>> \in Seq({})
    OBVIOUS
  <2>. QED BY <2>1 DEF IsSeq
<1>3. IsFields(c.out)
  BY <1>1, <1>2 DEF IsFields
<1>4. Holding(c, 0)
  BY <1>1, <1>3, HeldStarts DEF Holding
<1>5. Taken(c, 0) /\ Pos(s, 0) = 0
  BY <1>1, RecordsAre DEF Taken, Pos
<1>. QED BY <1>1, <1>4, <1>5 DEF Between

(* What is stored is what the field holds after one item more.             *)
LEMMA StoredHolds ==
  ASSUME NEW out, IsFields(out), NEW f \in Known \ Map, NEW x
  PROVE  /\ IsFields(Stored(out, f, x))
         /\ \A g \in Known : Stored(out, f, x)[g] = IF g = f THEN Holds(f, out[f], <<x>>) ELSE out[g]
<1>. DEFINE before == IF f \in Repeated THEN out[f] ELSE <<>>
            new    == Stored(out, f, x)
<1>1. DOMAIN out = Known /\ IsSeq(out[f])
  BY DEF IsFields
<1>2. IsSeq(before)
  <2>1. <<>> \in Seq({})
    OBVIOUS
  <2>. QED BY <1>1, <2>1 DEF IsSeq
<1>. HIDE DEF before
<1>3. Append(before, x) = before \o <<x>> /\ IsSeq(Append(before, x))
  <2>1. IsSeq(<<x>>)
    <3>1. <<x>> \in Seq({x})
      OBVIOUS
    <3>. QED BY <3>1 DEF IsSeq
  <2>2. Append(before, x) = before \o <<x>>
    BY <1>2, Joins
  <2>3. IsSeq(before \o <<x>>)
    BY <1>2, <2>1, Joins
  <2>. QED BY <2>2, <2>3
<1>4. new = [out EXCEPT ![f] = Append(before, x)]
  BY <1>1 DEF Stored, before
<1>5. DOMAIN new = Known /\ \A g \in Known : new[g] = IF g = f THEN Append(before, x) ELSE out[g]
  BY <1>1, <1>4
<1>6. new = [g \in Known |-> new[g]]
  BY <1>1, <1>4
<1>. HIDE DEF new
<1>7. Holds(f, out[f], <<x>>) = before \o <<x>>
  BY DEF Holds, before
<1>8. \A g \in Known \ Map : IsSeq(new[g])
  BY <1>3, <1>5 DEF IsFields
<1>. QED BY <1>3, <1>5, <1>6, <1>7, <1>8 DEF IsFields, new

-----------------------------------------------------------------------------
(* The calls that wait wait on.                                            *)
LEMMA StillNested ==
  ASSUME Nested, UNCHANGED <<input, stack>>, top'.data = top.data
  PROVE  Nested'
<1>1. \A k : Inner(k)'.data = Inner(k).data
  BY DEF Inner
<1>2. \A k : Nests(k)' <=> Nests(k)
  <2>. SUFFICES ASSUME NEW k PROVE Nests(k)' <=> Nests(k)
    OBVIOUS
  <2>1. Inner(k)'.data = Inner(k).data /\ stack' = stack
    BY <1>1
  <2>. QED BY <2>1 DEF Nests
<1>. QED BY <1>1, <1>2 DEF Nested

LEMMA Facts ==
  ASSUME Inv, MInv
  PROVE  /\ data \in Seq(Byte) /\ l = Len(data) /\ l \in Nat /\ i \in 0 .. l /\ i \in Nat
         /\ top.data = data /\ top.i = i /\ input \in Seq(Byte)
         /\ Regular(input) => Regular(data) /\ (Accepted(input) => Accepted(data))
         /\ \A k \in 1 .. Len(Records(data)) : Regular(input) =>
              /\ Whole(data, Records(data)[k])
              /\ IsEntry(Records(data)[k]) => EntryTyped(Records(data)[k].f, BodyOf(data, Records(data)[k]))
              /\ IsNested(Records(data)[k]) => Regular(BodyOf(data, Records(data)[k]))
         /\ Regular(input) /\ Accepted(input) => \A k \in 1 .. Len(Records(data)) : Fine(data, Records(data)[k])
<1>1. /\ data \in Seq(Byte) /\ l = Len(data) /\ l \in Nat /\ i \in 0 .. l /\ i \in Nat
      /\ top.data = data /\ top.i = i /\ input \in Seq(Byte)
  BY DataFacts DEF data, i, Inv
<1>2. Len(stack) \in 0 .. Len(stack) /\ Inner(Len(stack)) = top
  BY SeqFacts DEF Inv, StackOK, Inner
<1>3. Regular(input) => Regular(data) /\ (Accepted(input) => Accepted(data))
  BY <1>1, <1>2 DEF MInv, Nested
<1>. QED BY <1>1, <1>3, Understood

(* The main loop is about to read record n + 1.                            *)
LEMMA MainBetween ==
  ASSUME Inv, MInv, Regular(input), pc = "main", i < l
  PROVE  \E n \in Nat : /\ Taken(top, n) /\ Holding(top, n) /\ n < Len(Records(data)) /\ n + 1 \in 1 .. Len(Records(data))
                        /\ i = Pos(data, n) /\ Records(data)[n + 1] = RecordAt(data, i)
<1>1. PICK n \in Nat : Taken(top, n) /\ i = Pos(data, n) /\ Holding(top, n)
  BY DEF MInv, Reached, Between, data, i
<1>2. n \in 0 .. Len(Records(data)) /\ Len(Records(data)) \in Nat
  BY <1>1, Facts, RecordsAre DEF Taken
<1>3. n < Len(Records(data))
  BY <1>1, <1>2, Facts, NextRecord
<1>4. Records(data)[n + 1] = RecordAt(data, i)
  BY <1>1, <1>2, <1>3, Facts, NextRecord
<1>5. n + 1 \in 1 .. Len(Records(data))
  BY <1>2, <1>3
<1>. QED BY <1>1, <1>3, <1>4, <1>5

(* An error is one when the record is not well-formed.                     *)
LEMMA Refuses ==
  ASSUME Inv, MInv, Fails,
         Regular(input) => \E k \in 1 .. Len(Records(data)) : ~Fine(data, Records(data)[k])
  PROVE  MInv'
<1>1. UNCHANGED <<input, top, stack>> /\ pc' = "err"
  BY DEF Fails
<1>2. Regular(input) => ~Accepted(input)
  BY Facts
<1>3. Nested'
  BY <1>1, StillNested DEF MInv
<1>4. Regular(input)' = Regular(input) /\ Accepted(input)' = Accepted(input)
  BY <1>1 DEF Regular, Accepted
<1>. QED BY <1>1, <1>2, <1>3, <1>4 DEF MInv, Reached

LEMMA MainRefuses ==
  ASSUME Inv, MInv, pc = "main", i < l, Fails, ~Good(data, RecordAt(data, i))
  PROVE  MInv'
<1>1. ASSUME Regular(input)
      PROVE  \E k \in 1 .. Len(Records(data)) : ~Fine(data, Records(data)[k])
  <2>1. PICK n \in Nat : n + 1 \in 1 .. Len(Records(data)) /\ Records(data)[n + 1] = RecordAt(data, i)
    BY <1>1, MainBetween
  <2>. QED BY <2>1 DEF Fine
<1>. QED BY <1>1, Refuses

(* The record at the cursor is taken in one step.                          *)
LEMMA MainTakes ==
  ASSUME Inv, MInv, pc = "main", i < l, pc' = "main", UNCHANGED <<input, stack>>,
         NEW r, r = RecordAt(data, i), Good(data, r), ~IsNested(r),
         top'.data = data, top'.i = r.to,
         IsFields(top.out) =>
           /\ IsFields(top'.out)
           /\ \A g \in Known : top'.out[g] = IF r.f = g THEN Holds(g, top.out[g], Items(data, r, Inners(data)))
                                             ELSE top.out[g]
  PROVE  MInv'
<1>1. Nested'
  BY Facts, StillNested DEF MInv
<1>2. ASSUME Regular(input)
      PROVE  Between(top')
  <2>1. PICK n \in Nat : /\ Taken(top, n) /\ Holding(top, n) /\ n < Len(Records(data))
                         /\ Records(data)[n + 1] = RecordAt(data, i)
    BY <1>2, MainBetween
  <2>2. top.data = data /\ top.data \in Seq(Byte) /\ top'.data = top.data
    BY Facts
  <2>3. Fine(top.data, Records(top.data)[n + 1]) /\ Records(top.data)[n + 1] = r
    BY <2>1, <2>2 DEF Fine
  <2>4. IsFields(top'.out)
    BY <2>1 DEF Holding
  <2>5. \A g \in Known : top'.out[g] = IF r.f = g THEN Holds(g, HeldOf(data, n, g), Items(data, r, Inners(data)))
                                       ELSE HeldOf(data, n, g)
    BY <2>1, <2>2 DEF Holding
  <2>6. /\ top'.i = Records(top.data)[n + 1].to
        /\ \A g \in Known :
             top'.out[g] = IF Records(top.data)[n + 1].f = g
                           THEN Holds(g, HeldOf(top.data, n, g), Items(top.data, Records(top.data)[n + 1], Inners(top.data)))
                           ELSE HeldOf(top.data, n, g)
    BY <2>2, <2>3, <2>5, Zenon
  <2>7. Taken(top, n) /\ n < Len(Records(top.data))
    BY <2>1, <2>2
  <2>. DEFINE d == top'
  <2>. HIDE DEF d
  <2>8. Between(d)
    BY <2>2, <2>3, <2>4, <2>6, <2>7, TakesOneMore, SMTT(30) DEF d
  <2>. QED BY <2>8 DEF d
<1>3. Regular(input)' = Regular(input)
  BY DEF Regular
<1>4. Reached'
  BY <1>2, <1>3 DEF Reached, Between, Taken, Holding
<1>. QED BY <1>1, <1>4 DEF MInv

LEMMA MainStores ==
  ASSUME Inv, MInv, pc = "main", i < l, NEW f \in Known \ Map, NEW to \in 0 .. l, NEW x, Stores(to, f, x),
         NEW r, r = RecordAt(data, i), Good(data, r), ~IsNested(r), r.f = f, r.to = to,
         Items(data, r, Inners(data)) = <<x>>
  PROVE  MInv'
<1>1. pc' = "main" /\ UNCHANGED <<input, stack>>
  BY DEF Stores
<1>2. top'.data = data /\ top'.i = to /\ top'.out = Stored(top.out, f, x)
  BY StoresInside DEF data, i
<1>3. ASSUME IsFields(top.out)
      PROVE  /\ IsFields(top'.out)
             /\ \A g \in Known : top'.out[g] = IF r.f = g THEN Holds(g, top.out[g], <<x>>) ELSE top.out[g]
  BY <1>2, <1>3, StoredHolds
<1>. QED BY <1>1, <1>2, <1>3, MainTakes

(* The record at the cursor, as the arms see it.                           *)
LEMMA ArmRecord ==
  ASSUME NEW s \in Seq(Byte), NEW p \in 0 .. Len(s) - 1
  PROVE  LET r  == RecordAt(s, p)
             wt == WireType(TagAt(s, p))
             q  == After(s, p)
         IN  /\ r.f # -1 => VarintLen(s, p) > 0 /\ r.f = FieldNum(TagAt(s, p)) /\ r.wt = wt /\ r.from = q
             /\ VarintLen(s, p) > 0 =>
                  /\ wt = 0 => (r.f # -1 <=> HasOperand(s, p)) /\ (r.f # -1 => r.to = Body(s, p))
                  /\ wt = 1 => (r.f # -1 <=> Left(s, q) >= Width8) /\ (r.f # -1 => r.to = q + Width8)
                  /\ wt = 2 => (r.f # -1 <=> Fits(s, p)) /\ (r.f # -1 => r.to = BodyEnd(s, p))
                  /\ wt = 5 => (r.f # -1 <=> Left(s, q) >= Width4) /\ (r.f # -1 => r.to = q + Width4)
                  /\ r.f # -1 <=> SkipField(s, q, wt) > 0
                  /\ r.f # -1 => r.to = q + SkipField(s, q, wt) /\ wt \in {0, 1, 2, 5}
             /\ WireType(TagAt(s, p)) \in 0 .. 7 /\ FieldNum(TagAt(s, p)) \in Nat
             /\ r.num = FieldNum(TagAt(s, p)) /\ r.wt = wt
<1>. DEFINE r  == RecordAt(s, p)
            wt == WireType(TagAt(s, p))
            q  == After(s, p)
            n  == SkipField(s, q, wt)
<1>1. /\ VarintLen(s, p) > 0 /\ n > 0 => r.f = FieldNum(TagAt(s, p)) /\ r.wt = wt /\ r.from = q /\ r.to = q + n /\ r.f # -1
      /\ r.f # -1 => VarintLen(s, p) > 0 /\ n > 0
  BY GoodRecord
<1>2. VarintLen(s, p) > 0 =>
        /\ wt = 0 => (n > 0 <=> HasOperand(s, p)) /\ q + n = Body(s, p)
        /\ wt = 1 => (n > 0 <=> Left(s, q) >= Width8) /\ (n > 0 => n = Width8)
        /\ wt = 2 => (n > 0 <=> Fits(s, p)) /\ (n > 0 => q + n = BodyEnd(s, p))
        /\ wt = 5 => (n > 0 <=> Left(s, q) >= Width4) /\ (n > 0 => n = Width4)
        /\ wt \notin {0, 1, 2, 5} => ~(n > 0)
  BY GoodEnd
<1>3. WireType(TagAt(s, p)) \in 0 .. 7 /\ FieldNum(TagAt(s, p)) \in Nat
  <2>1. TagAt(s, p) \in Nat
    <3>1. p \in 0 .. Len(s)
      OBVIOUS
    <3>. QED BY <3>1, ValueIsAWord, Widths DEF TagAt
  <2>2. \A x \in Nat : x % 8 \in 0 .. 7 /\ x \div 8 \in Nat
    BY Z3
  <2>. QED BY <2>1, <2>2 DEF WireType, FieldNum
<1>4. r.num = FieldNum(TagAt(s, p)) /\ r.wt = wt
  BY DEF RecordAt, TagAt
<1>. HIDE DEF r, wt, q, n
<1>5. VarintLen(s, p) > 0 =>
        /\ wt = 0 => (r.f # -1 <=> HasOperand(s, p)) /\ (r.f # -1 => r.to = Body(s, p))
        /\ wt = 1 => (r.f # -1 <=> Left(s, q) >= Width8) /\ (r.f # -1 => r.to = q + Width8)
        /\ wt = 2 => (r.f # -1 <=> Fits(s, p)) /\ (r.f # -1 => r.to = BodyEnd(s, p))
        /\ wt = 5 => (r.f # -1 <=> Left(s, q) >= Width4) /\ (r.f # -1 => r.to = q + Width4)
        /\ r.f # -1 <=> n > 0
        /\ r.f # -1 => r.to = q + n /\ wt \in {0, 1, 2, 5}
  BY <1>1, <1>2
<1>. QED BY <1>1, <1>3, <1>4, <1>5 DEF r, wt, q, n

-----------------------------------------------------------------------------
(* The cases of the schema exclude each other.                             *)
LEMMA DigestsAreBytes == Digest \subseteq Bytes
BY DecoderAssumption

LEMMA WireTypesAre ==
  ASSUME NEW f
  PROVE  /\ f \in Packed => WireTypes(f) = {0, 2}
         /\ f \in Fixed8 => WireTypes(f) = IF f \in Repeated THEN {1, 2} ELSE {1}
         /\ f \in Fixed4 => WireTypes(f) = IF f \in Repeated THEN {5, 2} ELSE {5}
         /\ f \in Num => WireTypes(f) = {0}
         /\ f \notin Packed \cup Fixed \cup Num => WireTypes(f) = {2}
<1>. DEFINE W8 == IF f \in Repeated THEN {1, 2} ELSE {1}
            W4 == IF f \in Repeated THEN {5, 2} ELSE {5}
<1>1. /\ f \in Packed => f \notin Fixed8 \cup Fixed4 \cup Num
      /\ f \in Fixed8 => f \notin Packed \cup Fixed4 \cup Num
      /\ f \in Fixed4 => f \notin Packed \cup Fixed8 \cup Num
      /\ f \in Num => f \notin Packed \cup Fixed8 \cup Fixed4
  BY OneKind DEF Fixed
<1>2. WireTypes(f) = CASE f \in Packed -> {0, 2} [] f \in Fixed8 -> W8 [] f \in Fixed4 -> W4
                       [] f \in Num    -> {0}    [] OTHER        -> {2}
  BY DEF WireTypes
<1>. HIDE DEF W8, W4
<1>3. CASE f \in Packed
  BY <1>1, <1>2, <1>3 DEF Fixed
<1>4. CASE f \in Fixed8
  BY <1>1, <1>2, <1>4 DEF Fixed, W8
<1>5. CASE f \in Fixed4
  BY <1>1, <1>2, <1>5 DEF Fixed, W4
<1>6. CASE f \in Num
  BY <1>1, <1>2, <1>6 DEF Fixed
<1>7. CASE f \notin Packed \cup Fixed8 \cup Fixed4 \cup Num
  BY <1>2, <1>7 DEF Fixed
<1>. QED BY <1>3, <1>4, <1>5, <1>6, <1>7

LEMMA ItemsAre ==
  ASSUME NEW s, NEW r, NEW inner
  PROVE  /\ r.f \in Packed \cup Num /\ r.wt = 0 => Items(s, r, inner) = <<ValueOf(s, r)>>
         /\ r.f \in Packed /\ r.wt = 2 => Items(s, r, inner) = VarintsOf(BodyOf(s, r))
         /\ r.f \in Fixed /\ r.wt # 2 => Items(s, r, inner) = <<Cut(s, r.from, r.to)>>
         /\ r.f \in Fixed /\ r.wt = 2 => Items(s, r, inner) = Pieces(BodyOf(s, r), Width(r.f))
         /\ r.f \in Text \cup Bytes => Items(s, r, inner) = <<BodyOf(s, r)>>
         /\ IsEntry(r) => Items(s, r, inner) = EntryMeaning(r.f, BodyOf(s, r))
         /\ r.f \in Msg => Items(s, r, inner) = <<inner[BodyOf(s, r)].out>>
<1>. DEFINE f == r.f
            A == f \in Packed \cup Num /\ r.wt = 0
            B == f \in Packed /\ r.wt = 2
            C == f \in Fixed /\ r.wt # 2
            D == f \in Fixed /\ r.wt = 2
            E == f \in Text \cup Bytes
            F == IsEntry(r)
            G == f \in Msg
<1>1. /\ A => ~B /\ ~C /\ ~D /\ ~E /\ ~F /\ ~G
      /\ B => ~C /\ ~D /\ ~E /\ ~F /\ ~G
      /\ C => ~D /\ ~E /\ ~F /\ ~G
      /\ D => ~E /\ ~F /\ ~G
      /\ E => ~F /\ ~G
      /\ F => ~G
  BY OneKind DEF IsEntry
<1>2. Items(s, r, inner) = CASE A -> <<ValueOf(s, r)>>
                             [] B -> VarintsOf(BodyOf(s, r))
                             [] C -> <<Cut(s, r.from, r.to)>>
                             [] D -> Pieces(BodyOf(s, r), Width(r.f))
                             [] E -> <<BodyOf(s, r)>>
                             [] F -> EntryMeaning(r.f, BodyOf(s, r))
                             [] G -> <<inner[BodyOf(s, r)].out>>
  BY DEF Items
<1>. HIDE DEF A, B, C, D, E, F, G
<1>3. /\ A => Items(s, r, inner) = <<ValueOf(s, r)>>
      /\ B => Items(s, r, inner) = VarintsOf(BodyOf(s, r))
      /\ C => Items(s, r, inner) = <<Cut(s, r.from, r.to)>>
      /\ D => Items(s, r, inner) = Pieces(BodyOf(s, r), Width(r.f))
      /\ E => Items(s, r, inner) = <<BodyOf(s, r)>>
      /\ F => Items(s, r, inner) = EntryMeaning(r.f, BodyOf(s, r))
      /\ G => Items(s, r, inner) = <<inner[BodyOf(s, r)].out>>
  BY <1>1, <1>2
<1>. QED BY <1>3 DEF A, B, C, D, E, F, G

-----------------------------------------------------------------------------
(* The main loop and what is well-formed agree on each record: an error... *)
LEMMA BadTagReads == Inv /\ MInv /\ BadTag => MInv'
<1>. SUFFICES ASSUME Inv, MInv, BadTag PROVE MInv'
  OBVIOUS
<1>1. pc = "main" /\ i < l /\ VarintLen(data, i) < 0 /\ Fails
  BY DEF BadTag
<1>2. i \in 0 .. Len(data) - 1 /\ data \in Seq(Byte) /\ VarintLen(data, i) \in Int
  BY <1>1, Facts, VarintStaysInside
<1>3. RecordAt(data, i).f = -1
  BY <1>1, <1>2, ArmRecord
<1>. QED BY <1>1, <1>3, MainRefuses DEF Good

LEMMA UnknownReads == Inv /\ MInv /\ Unknown => MInv'
<1>. SUFFICES ASSUME Inv, MInv, Unknown PROVE MInv'
  OBVIOUS
<1>. DEFINE n == SkipField(data, After(data, i), Wt)
            r == RecordAt(data, i)
<1>1. /\ pc = "main" /\ i < l /\ VarintLen(data, i) > 0 /\ FieldNum(TagAt(data, i)) \notin Known
      /\ \/ n < 0 /\ Fails
         \/ n > 0 /\ Moves(After(data, i) + n) /\ UNCHANGED <<input, pc, stack, field, end, mk, mv>>
  BY DEF Unknown
<1>2. i \in 0 .. Len(data) - 1 /\ i \in 0 .. Len(data) /\ data \in Seq(Byte) /\ l = Len(data)
  BY <1>1, Facts
<1>3. n \in Int
  <2>1. After(data, i) \in 0 .. Len(data) /\ Wt \in 0 .. 7
    BY <1>1, <1>2, TagInside DEF Wt
  <2>2. n = -1 \/ n \in 1 .. Left(data, After(data, i))
    BY <1>2, <2>1, SkipStaysInside
  <2>. HIDE DEF n
  <2>. QED BY <1>2, <2>1, <2>2 DEF Left
<1>4. /\ r.f # -1 <=> n > 0
      /\ r.f # -1 => r.f = FieldNum(TagAt(data, i)) /\ r.to = After(data, i) + n
  BY <1>1, <1>2, ArmRecord DEF Wt
<1>5. r.to \in i + 1 .. Len(data)
  BY <1>2, RecordInside
<1>. HIDE DEF n, r
<1>6. CASE n < 0 /\ Fails
  <2>1. ~Good(data, r)
    BY <1>3, <1>4, <1>6 DEF Good
  <2>. QED BY <1>1, <1>6, <2>1, MainRefuses DEF r
<1>7. CASE n > 0 /\ Moves(After(data, i) + n) /\ UNCHANGED <<input, pc, stack, field, end, mk, mv>>
  <2>1. r.f \notin Known /\ r.f # -1 /\ r.to = After(data, i) + n
    BY <1>1, <1>4, <1>7
  <2>2. Good(data, r) /\ ~IsNested(r)
    BY <2>1, KnownKinds, DigestsAreBytes DEF Good, IsNested, IsEntry, Known
  <2>. DEFINE to == r.to
  <2>3. to \in 0 .. l /\ Moves(to)
    BY <1>2, <1>5, <1>7, <2>1
  <2>. HIDE DEF to
  <2>4. top'.data = data /\ top'.i = to /\ top'.out = top.out
    BY <1>7, <2>3, MovesInside DEF data, i
  <2>5. \A g \in Known : r.f # g
    BY <2>1
  <2>6. pc' = "main" /\ UNCHANGED <<input, stack>>
    BY <1>1, <1>7
  <2>. QED BY <1>1, <2>2, <2>4, <2>5, <2>6, MainTakes DEF r, to
<1>. QED BY <1>1, <1>6, <1>7

LEMMA ArmFacts ==
  ASSUME Inv, MInv, NEW f \in Known, Arm(f)
  PROVE  LET r == RecordAt(data, i)
             q == After(data, i)
         IN  /\ pc = "main" /\ i < l /\ i \in 0 .. Len(data) - 1 /\ i \in 0 .. Len(data) /\ VarintLen(data, i) > 0
             /\ data \in Seq(Byte) /\ l = Len(data) /\ f # -1 /\ q \in i + 1 .. l
             /\ r.f # -1 => r.f = f /\ r.from = q
             /\ r.wt = Wt
             /\ Wt = 0 => (r.f # -1 <=> HasOperand(data, i)) /\ (r.f # -1 => r.to = Body(data, i))
             /\ Wt = 1 => (r.f # -1 <=> Left(data, q) >= Width8) /\ (r.f # -1 => r.to = q + Width8)
             /\ Wt = 2 => (r.f # -1 <=> Fits(data, i)) /\ (r.f # -1 => r.to = BodyEnd(data, i))
             /\ Wt = 5 => (r.f # -1 <=> Left(data, q) >= Width4) /\ (r.f # -1 => r.to = q + Width4)
             /\ r.to \in 0 .. l
<1>1. pc = "main" /\ i < l /\ VarintLen(data, i) > 0 /\ FieldNum(TagAt(data, i)) = f
  BY DEF Arm
<1>2. i \in 0 .. Len(data) - 1 /\ i \in 0 .. Len(data) /\ data \in Seq(Byte) /\ l = Len(data)
  BY <1>1, Facts
<1>3. f # -1 /\ After(data, i) \in i + 1 .. l
  BY <1>1, <1>2, KnownKinds, TagInside
<1>4. RecordAt(data, i).to \in 0 .. l
  <2>1. RecordAt(data, i).to \in i + 1 .. Len(data)
    BY <1>2, RecordInside
  <2>. QED BY <1>2, <2>1
<1>5. Wt = WireType(TagAt(data, i))
  BY DEF Wt
<1>. QED BY <1>1, <1>2, <1>3, <1>4, <1>5, ArmRecord

LEMMA RefusesReads ==
  ASSUME Inv, MInv, NEW f \in Known, Arm(f), WrongWireType(f) \/ BadBody(f)
  PROVE  MInv'
<1>. DEFINE r == RecordAt(data, i)
<1>1. /\ pc = "main" /\ i < l /\ (r.f # -1 => r.f = f) /\ r.wt = Wt
      /\ Wt = 2 => (r.f # -1 <=> Fits(data, i))
      /\ data \in Seq(Byte) /\ i \in 0 .. Len(data) - 1
  BY ArmFacts
<1>2. Fails
  BY DEF WrongWireType, BadBody
<1>3. ASSUME Good(data, r)
      PROVE  FALSE
  <2>1. r.f # -1 /\ r.f = f /\ Wt \in WireTypes(f)
    BY <1>1, <1>3 DEF Good
  <2>2. Wt = 2 /\ Fits(data, i) /\ f \in Digest /\ Operand(data, i) # FixedLen
    BY <1>1, <2>1 DEF WrongWireType, BadBody
  <2>3. /\ Body(data, i) \in Nat /\ BodyEnd(data, i) \in Nat
        /\ Len(BodyOf(data, r)) = BodyEnd(data, i) - Body(data, i) /\ Operand(data, i) \in Nat
    <3>1. /\ Body(data, i) \in i + 2 .. Len(data) /\ BodyEnd(data, i) \in Body(data, i) .. Len(data)
          /\ Len(BodyOf(data, r)) = BodyEnd(data, i) - Body(data, i) /\ VarintLen(data, i) > 0
      BY <1>1, <2>1, <2>2, BodyCut
    <3>2. Operand(data, i) \in Nat
      <4>1. i \in 0 .. Len(data) /\ HasOperand(data, i)
        BY <1>1, <2>2 DEF Fits
      <4>. QED BY <1>1, <3>1, <4>1, TagInside
    <3>. QED BY <1>1, <3>1, <3>2
  <2>4. BodyEnd(data, i) = Body(data, i) + Operand(data, i)
    BY DEF BodyEnd
  <2>5. Len(BodyOf(data, r)) = FixedLen
    BY <1>3, <2>1, <2>2 DEF Good
  <2>. QED BY <2>2, <2>3, <2>4, <2>5
<1>. QED BY <1>1, <1>2, <1>3, MainRefuses

(* ... or a value.                                                         *)
LEMMA VarintReads ==
  ASSUME Inv, MInv, NEW f \in Known, Arm(f), Varint(f)
  PROVE  MInv'
<1>. DEFINE r == RecordAt(data, i)
<1>1. /\ pc = "main" /\ i < l /\ (r.f # -1 => r.f = f /\ r.from = After(data, i)) /\ r.wt = Wt
      /\ Wt = 0 => (r.f # -1 <=> HasOperand(data, i)) /\ (r.f # -1 => r.to = Body(data, i))
      /\ data \in Seq(Byte) /\ i \in 0 .. Len(data) - 1 /\ f # -1 /\ r.to \in 0 .. l
  BY ArmFacts
<1>2. Wt = 0 /\ Wt \in WireTypes(f)
  BY DEF Varint
<1>3. f \in Packed \cup Num
  <2>1. f \in Fixed => f \in Fixed8 \/ f \in Fixed4
    BY DEF Fixed
  <2>2. f \in Fixed => 0 \notin WireTypes(f)
    BY <2>1, WireTypesAre
  <2>. QED BY <1>2, <2>2, WireTypesAre
<1>. HIDE DEF r
<1>4. CASE ~HasOperand(data, i) /\ Fails
  <2>1. ~Good(data, r)
    BY <1>1, <1>2, <1>4 DEF Good
  <2>. QED BY <1>1, <1>4, <2>1, MainRefuses DEF r
<1>5. CASE HasOperand(data, i) /\ Stores(Body(data, i), f, Operand(data, i))
  <2>1. r.f = f /\ r.from = After(data, i) /\ r.wt = 0 /\ r.to = Body(data, i)
    BY <1>1, <1>2, <1>5
  <2>2. f \notin Map /\ f \notin Msg /\ f \notin Bytes
    BY <1>3, OneKind
  <2>3. Good(data, r) /\ ~IsNested(r)
    BY <1>1, <1>2, <2>1, <2>2, DigestsAreBytes DEF Good, IsNested, IsEntry
  <2>4. Items(data, r, Inners(data)) = <<Operand(data, i)>>
    <3>1. ValueOf(data, r) = Operand(data, i)
      BY <2>1 DEF ValueOf, Operand
    <3>. QED BY <1>3, <2>1, <3>1, ItemsAre
  <2>. QED BY <1>1, <1>5, <2>1, <2>2, <2>3, <2>4, MainStores DEF r
<1>. QED BY <1>4, <1>5 DEF Varint

LEMMA FixedReads ==
  ASSUME Inv, MInv, NEW f \in Known, Arm(f), FixedWidth(f)
  PROVE  MInv'
<1>. DEFINE r  == RecordAt(data, i)
            q  == After(data, i)
            to == q + Width(f)
<1>1. /\ pc = "main" /\ i < l /\ (r.f # -1 => r.f = f /\ r.from = q) /\ r.wt = Wt
      /\ Wt = 1 => (r.f # -1 <=> Left(data, q) >= Width8) /\ (r.f # -1 => r.to = q + Width8)
      /\ Wt = 5 => (r.f # -1 <=> Left(data, q) >= Width4) /\ (r.f # -1 => r.to = q + Width4)
      /\ data \in Seq(Byte) /\ f # -1 /\ r.to \in 0 .. l /\ l = Len(data) /\ q \in i + 1 .. l /\ i \in 0 .. Len(data)
  BY ArmFacts
<1>2. /\ f \in Fixed /\ Wt \in WireTypes(f) \ {2}
      /\ \/ to > l /\ Fails
         \/ to <= l /\ Stores(to, f, Cut(data, to - Width(f), to))
  BY DEF FixedWidth
<1>3. Wt \in {1, 5} /\ Wt = IF f \in Fixed8 THEN 1 ELSE 5
  <2>1. f \in Fixed8 => WireTypes(f) \ {2} = {1}
    BY WireTypesAre
  <2>2. f \in Fixed4 => WireTypes(f) \ {2} = {5}
    BY WireTypesAre
  <2>. QED BY <1>2, <2>1, <2>2 DEF Fixed
<1>4. Width(f) \in Nat /\ Width(f) = IF f \in Fixed8 THEN Width8 ELSE Width4
  BY Widths DEF Width
<1>5. (to <= l <=> Left(data, q) >= Width(f)) /\ to - Width(f) = q
  BY <1>1, <1>4 DEF Left
<1>6. (r.f # -1 <=> to <= l) /\ (r.f # -1 => r.to = to)
  BY <1>1, <1>3, <1>4, <1>5
<1>7. to \in Int /\ l \in Int
  BY <1>1, <1>4
<1>. HIDE DEF r, to
<1>8. CASE to > l /\ Fails
  <2>1. ~Good(data, r)
    BY <1>6, <1>7, <1>8 DEF Good
  <2>. QED BY <1>1, <1>8, <2>1, MainRefuses DEF r
<1>9. CASE to <= l /\ Stores(to, f, Cut(data, to - Width(f), to))
  <2>1. r.f = f /\ r.from = q /\ r.wt # 2 /\ r.to = to
    BY <1>1, <1>3, <1>6, <1>9
  <2>2. f \notin Map /\ f \notin Msg /\ f \notin Bytes /\ f \notin Packed
    BY <1>2, OneKind
  <2>3. Good(data, r) /\ ~IsNested(r)
    BY <1>1, <1>2, <2>1, <2>2, DigestsAreBytes DEF Good, IsNested, IsEntry
  <2>4. Items(data, r, Inners(data)) = <<Cut(data, to - Width(f), to)>>
    BY <1>2, <1>5, <2>1, ItemsAre
  <2>. QED BY <1>1, <1>9, <2>1, <2>2, <2>3, <2>4, MainStores DEF r
<1>. QED BY <1>2, <1>8, <1>9

(* What is cut from the slab is cut from the slice.                        *)
LEMMA SlabCut ==
  ASSUME Inv, NeedsSlab, NEW from \in 0 .. l, NEW to \in from .. l
  PROVE  Slab(from, to) = Cut(data, from, to)
<1>. DEFINE a == top.off
            b == top.off + l
<1>1. /\ input \in Seq(Byte) /\ top.off \in Nat /\ top.off + l <= Len(input) /\ l = Len(data) /\ l \in Nat
      /\ data = Cut(input, a, b)
  BY DataFacts DEF Inv, IsCall, l, data
<1>2. a \in 0 .. Len(input) /\ b \in a .. Len(input) /\ b - a = l
  BY <1>1
<1>3. slab = input
  BY DEF slab
<1>. HIDE DEF a, b
<1>4. Cut(Cut(input, a, b), from, to) = Cut(input, a + from, a + to)
  BY <1>1, <1>2, CutOfCut
<1>. QED BY <1>1, <1>3, <1>4 DEF Slab, a

LEMMA TextReads ==
  ASSUME Inv, MInv, NEW f \in Known, Arm(f), TextField(f) \/ BytesField(f)
  PROVE  MInv'
<1>. DEFINE r    == RecordAt(data, i)
            from == Body(data, i)
            to   == BodyEnd(data, i)
<1>1. /\ pc = "main" /\ i < l /\ (r.f # -1 => r.f = f) /\ r.wt = Wt
      /\ Wt = 2 => (r.f # -1 <=> Fits(data, i)) /\ (r.f # -1 => r.to = to)
      /\ data \in Seq(Byte) /\ f # -1 /\ r.to \in 0 .. l /\ l = Len(data) /\ i \in 0 .. Len(data) - 1
      /\ i \in 0 .. Len(data) /\ VarintLen(data, i) > 0
  BY ArmFacts
<1>2. f \in Text \cup Bytes /\ Wt = 2 /\ Fits(data, i)
  BY DEF TextField, BytesField
<1>3. r.f = f /\ r.wt = 2 /\ r.to = to /\ r.f # -1
  BY <1>1, <1>2
<1>4. /\ from \in i + 2 .. Len(data) /\ to \in from .. Len(data)
      /\ BodyOf(data, r) = Cut(data, from, to) /\ Len(BodyOf(data, r)) = to - from
  BY <1>1, <1>3, BodyCut
<1>5. Operand(data, i) \in Nat /\ to = from + Operand(data, i)
  BY <1>1, <1>2, TagInside DEF Fits, BodyEnd
<1>. HIDE DEF r, from, to
<1>6. Len(BodyOf(data, r)) = Operand(data, i)
  BY <1>1, <1>4, <1>5
<1>7. f \notin Map /\ f \notin Msg /\ f \notin Packed \cup Fixed \cup Num /\ f \notin Map \cup Stamp \cup Span
  BY <1>2, OneKind
<1>8. f \in Digest => Operand(data, i) = FixedLen
  <2>1. Text \cap Bytes = {}
    <3>. DEFINE kinds == <<Packed, Fixed8, Fixed4, Num, Text, Bytes, Msg, Map, Stamp, Span>>
    <3>1. DOMAIN kinds = 1 .. 10 /\ kinds[5] = Text /\ kinds[6] = Bytes
      OBVIOUS
    <3>2. \A j, k \in DOMAIN kinds : j # k => kinds[j] \cap kinds[k] = {}
      BY DecoderAssumption
    <3>. HIDE DEF kinds
    <3>. QED BY <3>1, <3>2
  <2>2. TextField(f) => f \notin Digest
    BY <2>1, DigestsAreBytes DEF TextField
  <2>. QED BY <2>2 DEF BytesField
<1>9. Good(data, r) /\ ~IsNested(r)
  <2>1. WireTypes(f) = {2}
    BY <1>7, WireTypesAre
  <2>. QED BY <1>3, <1>6, <1>7, <1>8, <2>1 DEF Good, IsNested, IsEntry
<1>10. Stores(to, f, Cut(data, from, to))
  <2>1. CASE TextField(f)
    <3>1. Stores(to, f, Slab(from, to)) /\ NeedsSlab
      BY <2>1 DEF TextField, NeedsSlab, from, to
    <3>2. from \in 0 .. l /\ to \in from .. l
      BY <1>1, <1>4
    <3>3. Slab(from, to) = Cut(data, from, to)
      BY <3>1, <3>2, SlabCut
    <3>. QED BY <3>1, <3>3
  <2>2. CASE BytesField(f)
    BY <2>2 DEF BytesField, from, to
  <2>. QED BY <2>1, <2>2
<1>11. Items(data, r, Inners(data)) = <<Cut(data, from, to)>>
  BY <1>2, <1>3, <1>4, ItemsAre
<1>12. to \in 0 .. l
  BY <1>1, <1>3
<1>. QED BY <1>1, <1>3, <1>7, <1>9, <1>10, <1>11, <1>12, MainStores DEF r

-----------------------------------------------------------------------------
(* The body that a call is inside of.                                      *)
IsBody(c, n, f, to) ==
  LET r    == Records(c.data)[n + 1]
      b    == BodyOf(c.data, r)
      from == BodyFrom(c.data, r)
  IN  /\ n + 1 \in 1 .. Len(Records(c.data)) /\ n < Len(Records(c.data)) /\ Taken(c, n)
      /\ r.f = f /\ r.f # -1 /\ r.wt = 2 /\ r.to = to
      /\ from \in 0 .. Len(c.data) /\ to \in from .. Len(c.data) /\ from <= c.i
      /\ b \in Seq(Byte) /\ b = Cut(c.data, from, to) /\ Len(b) = to - from

LEMMA InBodyFacts ==
  ASSUME NEW c, c.data \in Seq(Byte), NEW n \in Nat, NEW f \in Known, NEW to, InBody(c, n, f, to)
  PROVE  IsBody(c, n, f, to)
<1>. DEFINE s == c.data
            p == Pos(s, n)
            r == Records(s)[n + 1]
<1>1. n \in 0 .. Len(Records(s)) /\ n < Len(Records(s)) /\ Len(Records(s)) \in Nat /\ Taken(c, n)
  BY RecordsAre DEF InBody, Taken
<1>2. p \in 0 .. Len(s) - 1 /\ r = RecordAt(s, p)
  BY <1>1, NextRecord
<1>3. r.f = f /\ r.f # -1 /\ r.wt = 2 /\ r.to = to /\ BodyFrom(s, r) <= c.i
  BY KnownKinds DEF InBody
<1>. HIDE DEF p, r
<1>4. /\ BodyFrom(s, r) = Body(s, p) /\ to = BodyEnd(s, p)
      /\ Body(s, p) \in p + 2 .. Len(s) /\ BodyEnd(s, p) \in Body(s, p) .. Len(s)
      /\ BodyOf(s, r) = Cut(s, Body(s, p), BodyEnd(s, p))
      /\ BodyOf(s, r) \in Seq(Byte) /\ Len(BodyOf(s, r)) = BodyEnd(s, p) - Body(s, p)
  BY <1>2, <1>3, BodyCut
<1>5. n + 1 \in 1 .. Len(Records(s))
  BY <1>1
<1>6. Body(s, p) \in 0 .. Len(s)
  BY <1>2, <1>4
<1>. QED BY <1>1, <1>3, <1>4, <1>5, <1>6 DEF r, IsBody

(* A record with a body is entered.                                        *)
LEMMA EntersBody ==
  ASSUME NEW c, NEW d, c.data \in Seq(Byte), d.data = c.data, NEW n \in Nat, Taken(c, n), n < Len(Records(c.data)),
         NEW p \in 0 .. Len(c.data) - 1, Records(c.data)[n + 1] = RecordAt(c.data, p),
         RecordAt(c.data, p).f # -1, RecordAt(c.data, p).wt = 2, d.i = Body(c.data, p)
  PROVE  /\ InBody(d, n, RecordAt(c.data, p).f, BodyEnd(c.data, p))
         /\ BodyFrom(c.data, Records(c.data)[n + 1]) = d.i
<1>1. /\ BodyFrom(c.data, RecordAt(c.data, p)) = Body(c.data, p) /\ RecordAt(c.data, p).to = BodyEnd(c.data, p)
      /\ Body(c.data, p) \in p + 2 .. Len(c.data)
  BY BodyCut
<1>2. Taken(d, n)
  BY DEF Taken
<1>. QED BY <1>1, <1>2 DEF InBody

LEMMA EnterRunReads ==
  ASSUME Inv, MInv, NEW f \in Known, Arm(f), EnterRun(f)
  PROVE  MInv'
<1>. DEFINE r == RecordAt(data, i)
<1>1. /\ pc = "main" /\ i < l /\ (r.f # -1 => r.f = f) /\ r.wt = Wt
      /\ Wt = 2 => (r.f # -1 <=> Fits(data, i))
      /\ data \in Seq(Byte) /\ l = Len(data) /\ i \in 0 .. Len(data) - 1 /\ i \in 0 .. Len(data)
      /\ VarintLen(data, i) > 0 /\ f # -1
  BY ArmFacts
<1>2. /\ f \in Listed /\ Wt = 2 /\ Fits(data, i)
      /\ pc' = "run" /\ field' = f /\ Moves(Body(data, i)) /\ end' = BodyEnd(data, i)
      /\ UNCHANGED <<input, stack>>
  BY DEF EnterRun, Loop
<1>3. Body(data, i) \in 0 .. l
  BY <1>1, <1>2, TagInside DEF Fits
<1>4. top'.data = data /\ top'.i = Body(data, i) /\ top'.out = top.out
  BY <1>2, <1>3, MovesInside DEF data, i
<1>5. Nested'
  BY <1>2, <1>4, StillNested, Facts DEF MInv
<1>6. r.f = f /\ r.f # -1 /\ r.wt = 2
  BY <1>1, <1>2
<1>. HIDE DEF r
<1>7. ASSUME Regular(input)
      PROVE  \E n \in Nat : InRun(top', n, field', end')
  <2>1. PICK n \in Nat : /\ Taken(top, n) /\ Holding(top, n) /\ n < Len(Records(data))
                         /\ Records(data)[n + 1] = RecordAt(data, i)
    BY <1>1, <1>7, MainBetween
  <2>2. top.data = data
    BY Facts
  <2>3. InBody(top', n, f, BodyEnd(data, i)) /\ BodyFrom(data, Records(data)[n + 1]) = top'.i
    BY <1>1, <1>4, <1>6, <2>1, <2>2, EntersBody DEF r
  <2>4. top'.i - BodyFrom(data, Records(data)[n + 1]) = 0
    BY <1>3, <1>4, <2>3
  <2>5. /\ IsFields(top'.out) /\ \A g \in Known \ {f} : top'.out[g] = HeldOf(data, n, g)
        /\ top'.out[f] = HeldOf(data, n, f)
    BY <1>4, <2>1, <2>2 DEF Holding
  <2>6. \A p \in 0 .. 0 - 1 : FALSE
    OBVIOUS
  <2>7. InRun(top', n, f, BodyEnd(data, i))
    BY <1>4, <2>3, <2>4, <2>5, <2>6 DEF InRun
  <2>. QED BY <1>2, <2>7
<1>8. Regular(input)' = Regular(input)
  BY <1>2 DEF Regular
<1>9. Reached'
  BY <1>2, <1>7, <1>8 DEF Reached
<1>. QED BY <1>5, <1>9 DEF MInv

(* Where a run is.                                                         *)
LEMMA RunFacts ==
  ASSUME Inv, RInv, MInv, Regular(input), pc = "run"
  PROVE  \E n \in Nat :
           LET r    == Records(data)[n + 1]
               b    == BodyOf(data, r)
               from == BodyFrom(data, r)
               q    == i - from
           IN  /\ InRun(top, n, field, end) /\ Taken(top, n)
               /\ n + 1 \in 1 .. Len(Records(data)) /\ n < Len(Records(data))
               /\ r.f = field /\ r.f # -1 /\ r.wt = 2 /\ r.to = end
               /\ from \in 0 .. Len(data) /\ end \in from .. Len(data)
               /\ b \in Seq(Byte) /\ b = Cut(data, from, end) /\ Len(b) = end - from
               /\ i <= end /\ q \in 0 .. Len(b) /\ i = from + q
               /\ field \in Packed => i = end \/ data[end] < Base
<1>1. PICK n \in Nat : InRun(top, n, field, end)
  BY DEF MInv, Reached
<1>2. data \in Seq(Byte) /\ l = Len(data) /\ i \in 0 .. l /\ top.data = data /\ top.i = i
  BY Facts
<1>3. field \in Known /\ InBody(top, n, field, end)
  BY <1>1, KnownKinds DEF InRun, Inv, LoopOK
<1>. DEFINE r    == Records(data)[n + 1]
            b    == BodyOf(data, r)
            from == BodyFrom(data, r)
<1>4. /\ n + 1 \in 1 .. Len(Records(data)) /\ n < Len(Records(data)) /\ Taken(top, n)
      /\ r.f = field /\ r.f # -1 /\ r.wt = 2 /\ r.to = end
      /\ from \in 0 .. Len(data) /\ end \in from .. Len(data) /\ from <= i
      /\ b \in Seq(Byte) /\ b = Cut(data, from, end) /\ Len(b) = end - from
  <2>1. IsBody(top, n, field, end)
    BY <1>2, <1>3, InBodyFacts
  <2>. QED BY <1>2, <2>1 DEF IsBody
<1>. HIDE DEF r, b, from
<1>5. Sound(data, i)
  <2>1. DOMAIN Records(data) = 1 .. Len(Records(data))
    BY <1>2, RecordsAre
  <2>. QED BY <2>1, Facts DEF Sound
<1>6. i <= end /\ (field \in Packed => i = end \/ data[end] < Base)
  BY <1>2, <1>5 DEF RInv, RunLeft
<1>7. i - from \in 0 .. Len(b) /\ i = from + (i - from)
  BY <1>2, <1>4, <1>6
<1>. QED BY <1>1, <1>4, <1>6, <1>7 DEF r, b, from

LEMMA JoinsOne ==
  ASSUME NEW s, IsSeq(s), NEW t, IsSeq(t), NEW x
  PROVE  (s \o <<x>>) \o t = s \o (<<x>> \o t)
<1>1. PICK S : s \in Seq(S)
  BY DEF IsSeq
<1>2. PICK T : t \in Seq(T)
  BY DEF IsSeq
<1>. DEFINE U == S \cup T \cup {x}
<1>3. s \in Seq(U) /\ t \in Seq(U) /\ <<x>> \in Seq(U)
  BY <1>1, <1>2
<1>. HIDE DEF U
<1>. QED BY <1>3

(* One number more.                                                        *)
LEMMA RunStep ==
  ASSUME NEW c, NEW d, c.data \in Seq(Byte), d.data = c.data, NEW n \in Nat, NEW f \in Listed, NEW to,
         InRun(c, n, f, to), c.i \in Nat,
         NEW r, r = Records(c.data)[n + 1], NEW b \in Seq(Byte), b = BodyOf(c.data, r),
         NEW q \in 0 .. Len(b), BodyFrom(c.data, r) \in Nat, c.i = BodyFrom(c.data, r) + q,
         Taking(f, b, q) > 0,
         d.i = c.i + Taking(f, b, q), d.out = Stored(c.out, f, Element(f, b, q)),
         f \in Packed => \A p \in q .. q + Taking(f, b, q) - 1 : VarintLen(b, p) > 0
  PROVE  InRun(d, n, f, to)
<1>. DEFINE t    == Taking(f, b, q)
            x    == Element(f, b, q)
            from == BodyFrom(c.data, r)
            old  == c.out[f]
<1>1. f \in Known \ Map /\ f \in Repeated
  BY KnownKinds, OneKind, DecoderAssumption
<1>2. t \in 1 .. Left(b, q)
  BY ElementFits
<1>. HIDE DEF t, x
<1>3. t \in Nat /\ q + t \in 0 .. Len(b)
  BY <1>2 DEF Left
<1>4. c.i - from = q /\ d.i - from = q + t
  <2>. HIDE DEF from
  <2>1. d.i = c.i + t
    BY DEF t
  <2>. QED BY <1>3, <2>1 DEF from
<1>5. /\ InBody(c, n, f, to)
      /\ IsFields(c.out) /\ \A g \in Known \ {f} : c.out[g] = HeldOf(c.data, n, g)
      /\ HeldOf(c.data, n, f) \o Rest(f, b)[0] = old \o Rest(f, b)[q]
      /\ f \in Packed => \A p \in 0 .. q - 1 : VarintLen(b, p) > 0
  BY <1>4 DEF InRun
<1>6. /\ IsFields(d.out)
      /\ \A g \in Known : d.out[g] = IF g = f THEN Holds(f, old, <<x>>) ELSE c.out[g]
  <2>. DEFINE out == c.out
  <2>1. d.out = Stored(out, f, x)
    BY DEF x
  <2>2. IsFields(out) /\ old = out[f]
    BY <1>5
  <2>. HIDE DEF out, old
  <2>3. /\ IsFields(Stored(out, f, x))
        /\ \A g \in Known : Stored(out, f, x)[g] = IF g = f THEN Holds(f, out[f], <<x>>) ELSE out[g]
    BY <1>1, <2>2, StoredHolds
  <2>4. \A g \in Known : d.out[g] = IF g = f THEN Holds(f, old, <<x>>) ELSE out[g]
    BY <2>1, <2>2, <2>3
  <2>. QED BY <2>1, <2>3, <2>4 DEF out
<1>7. d.out[f] = old \o <<x>>
  BY <1>1, <1>6 DEF Holds
<1>8. Rest(f, b)[q] = <<x>> \o Rest(f, b)[q + t] /\ IsSeq(Rest(f, b)[q + t])
  <2>1. Rest(f, b)[q] = <<x>> \o Rest(f, b)[q + t]
    BY RestDef DEF t, x
  <2>2. IsSeq(Rest(f, b)[q + t])
    BY <1>3, RestDef
  <2>. QED BY <2>1, <2>2
<1>9. IsSeq(old)
  BY <1>1, <1>5 DEF IsFields
<1>10. d.out[f] \o Rest(f, b)[q + t] = old \o Rest(f, b)[q]
  <2>. DEFINE rest == Rest(f, b)[q + t]
  <2>1. IsSeq(rest)
    BY <1>8
  <2>2. Rest(f, b)[q] = <<x>> \o rest /\ d.out[f] = old \o <<x>>
    BY <1>7, <1>8
  <2>. HIDE DEF old, rest
  <2>3. (old \o <<x>>) \o rest = old \o (<<x>> \o rest)
    BY <1>9, <2>1, JoinsOne
  <2>. QED BY <2>2, <2>3 DEF rest
<1>11. f \in Packed => \A p \in 0 .. (q + t) - 1 : VarintLen(b, p) > 0
  <2>1. \A p \in 0 .. (q + t) - 1 : p \in 0 .. q - 1 \/ p \in q .. q + t - 1
    BY <1>3
  <2>. QED BY <1>5, <2>1 DEF t
<1>12. InBody(d, n, f, to)
  <2>1. d.i >= c.i /\ c.i >= from
    BY <1>3, <1>4 DEF t
  <2>2. from <= d.i
    <3>. HIDE DEF from
    <3>. QED BY <1>3, <1>4, <2>1 DEF from, t
  <2>. QED BY <1>5, <2>2 DEF InBody, Taken
<1>13. \A g \in Known \ {f} : d.out[g] = HeldOf(c.data, n, g)
  BY <1>5, <1>6
<1>14. HeldOf(c.data, n, f) \o Rest(f, b)[0] = d.out[f] \o Rest(f, b)[q + t]
  BY <1>5, <1>10
<1>. HIDE DEF from, old
<1>. QED BY <1>4, <1>6, <1>11, <1>12, <1>13, <1>14 DEF InRun, from

-----------------------------------------------------------------------------
(* A number of a run is read.                                              *)
LEMMA RunStores ==
  ASSUME Inv, RInv, MInv, pc = "run", field \in Listed, NEW to \in 0 .. l, NEW x, Stores(to, field, x),
         Regular(input) =>
           \A n \in Nat :
             LET r == Records(data)[n + 1]
                 b == BodyOf(data, r)
                 q == i - BodyFrom(data, r)
             IN  /\ BodyFrom(data, r) \in 0 .. Len(data) /\ end \in BodyFrom(data, r) .. Len(data)
                 /\ b \in Seq(Byte) /\ b = Cut(data, BodyFrom(data, r), end) /\ Len(b) = end - BodyFrom(data, r)
                 /\ q \in 0 .. Len(b) /\ i = BodyFrom(data, r) + q
                 => /\ Taking(field, b, q) > 0 /\ to = i + Taking(field, b, q) /\ x = Element(field, b, q)
                    /\ field \in Packed => \A p \in q .. q + Taking(field, b, q) - 1 : VarintLen(b, p) > 0
  PROVE  MInv'
<1>1. pc' = "run" /\ UNCHANGED <<input, stack, field, end>>
  BY DEF Stores
<1>2. top'.data = data /\ top'.i = to /\ top'.out = Stored(top.out, field, x)
  BY StoresInside DEF data, i
<1>3. Nested'
  BY <1>1, <1>2, Facts, StillNested DEF MInv
<1>4. ASSUME Regular(input)
      PROVE  \E n \in Nat : InRun(top', n, field, end)
  <2>. DEFINE R(n) == Records(data)[n + 1]
              B(n) == BodyOf(data, R(n))
              A(n) == BodyFrom(data, R(n))
              Q(n) == i - A(n)
  <2>1. PICK n \in Nat :
           /\ InRun(top, n, field, end)
           /\ A(n) \in 0 .. Len(data) /\ end \in A(n) .. Len(data)
           /\ B(n) \in Seq(Byte) /\ B(n) = Cut(data, A(n), end) /\ Len(B(n)) = end - A(n)
           /\ Q(n) \in 0 .. Len(B(n)) /\ i = A(n) + Q(n)
    BY <1>4, RunFacts
  <2>2. /\ Taking(field, B(n), Q(n)) > 0 /\ to = i + Taking(field, B(n), Q(n)) /\ x = Element(field, B(n), Q(n))
        /\ field \in Packed => \A p \in Q(n) .. Q(n) + Taking(field, B(n), Q(n)) - 1 : VarintLen(B(n), p) > 0
    BY <1>4, <2>1
  <2>. DEFINE r == R(n)
              b == B(n)
              a == A(n)
              q == Q(n)
  <2>3. /\ InRun(top, n, field, end) /\ r = Records(top.data)[n + 1] /\ b = BodyOf(top.data, r)
        /\ a = BodyFrom(top.data, r) /\ top.i = a + q /\ b \in Seq(Byte) /\ q \in 0 .. Len(b) /\ a \in Nat
        /\ top.i \in Nat /\ top.data \in Seq(Byte) /\ top'.data = top.data /\ top.i = i
    BY <1>2, <2>1, Facts
  <2>4. /\ Taking(field, b, q) > 0 /\ to = i + Taking(field, b, q) /\ x = Element(field, b, q)
        /\ field \in Packed => \A p \in q .. q + Taking(field, b, q) - 1 : VarintLen(b, p) > 0
    BY <2>2
  <2>. HIDE DEF r, b, a, q
  <2>5. top'.i = top.i + Taking(field, b, q) /\ top'.out = Stored(top.out, field, Element(field, b, q))
    BY <1>2, <2>3, <2>4
  <2>6. InRun(top', n, field, end)
    BY <2>3, <2>4, <2>5, RunStep
  <2>. QED BY <2>6
<1>5. Regular(input)' = Regular(input)
  BY <1>1 DEF Regular
<1>6. Reached'
  BY <1>1, <1>4, <1>5 DEF Reached
<1>. QED BY <1>3, <1>6 DEF MInv

LEMMA VarintRunReads == Inv /\ RInv /\ MInv /\ VarintRun => MInv'
<1>. SUFFICES ASSUME Inv, RInv, MInv, VarintRun PROVE MInv'
  OBVIOUS
<1>1. pc = "run" /\ field \in Packed /\ i < end
  BY DEF VarintRun, RunGoesOn
<1>2. data \in Seq(Byte) /\ l = Len(data) /\ i \in 0 .. Len(data) /\ end \in Nat /\ i \in Nat /\ field # -1
  BY <1>1, Facts, KnownKinds DEF Inv, LoopOK
<1>3. CASE VarintLen(data, i) < 0 /\ Fails
  <2>1. ASSUME Regular(input)
        PROVE  \E k \in 1 .. Len(Records(data)) : ~Fine(data, Records(data)[k])
    <3>. DEFINE R(n) == Records(data)[n + 1]
                B(n) == BodyOf(data, R(n))
                A(n) == BodyFrom(data, R(n))
                Q(n) == i - A(n)
    <3>1. PICK n \in Nat :
             /\ n + 1 \in 1 .. Len(Records(data)) /\ R(n).f = field /\ R(n).wt = 2
             /\ A(n) \in 0 .. Len(data) /\ end \in A(n) .. Len(data)
             /\ B(n) = Cut(data, A(n), end) /\ Len(B(n)) = end - A(n)
             /\ Q(n) \in 0 .. Len(B(n)) /\ i = A(n) + Q(n)
      BY <1>1, <2>1, RunFacts
    <3>. DEFINE b == B(n)
                a == A(n)
                q == Q(n)
    <3>2. /\ a \in 0 .. Len(data) /\ end \in a .. Len(data) /\ b = Cut(data, a, end) /\ Len(b) = end - a
          /\ q \in 0 .. end - a /\ i = a + q
      BY <3>1
    <3>. HIDE DEF b, a, q
    <3>3. q \in 0 .. Len(b) - 1
      BY <1>1, <3>2
    <3>4. ~(VarintLen(b, q) > 0)
      <4>1. VarintLen(b, q) > 0 => VarintLen(data, a + q) > 0
        BY <1>2, <3>2, VarintOfCut
      <4>. QED BY <1>2, <1>3, <3>2, <4>1, VarintStaysInside
    <3>5. ~OnlyVarints(b)
      BY <3>3, <3>4 DEF OnlyVarints
    <3>6. ~Fine(data, R(n))
      BY <1>1, <3>1, <3>5 DEF Fine, Good, b
    <3>. QED BY <3>1, <3>6
  <2>. QED BY <1>3, <2>1, Refuses
<1>4. CASE VarintLen(data, i) > 0 /\ Stores(After(data, i), field, TagAt(data, i))
  <2>. DEFINE to == After(data, i)
  <2>1. to \in 0 .. l
    BY <1>2, <1>4, TagInside
  <2>2. ASSUME Regular(input), NEW n \in Nat
        PROVE  LET r == Records(data)[n + 1]
                   b == BodyOf(data, r)
                   q == i - BodyFrom(data, r)
               IN  /\ BodyFrom(data, r) \in 0 .. Len(data) /\ end \in BodyFrom(data, r) .. Len(data)
                   /\ b \in Seq(Byte) /\ b = Cut(data, BodyFrom(data, r), end) /\ Len(b) = end - BodyFrom(data, r)
                   /\ q \in 0 .. Len(b) /\ i = BodyFrom(data, r) + q
                   => /\ Taking(field, b, q) > 0 /\ to = i + Taking(field, b, q) /\ TagAt(data, i) = Element(field, b, q)
                      /\ field \in Packed => \A p \in q .. q + Taking(field, b, q) - 1 : VarintLen(b, p) > 0
    <3>. DEFINE r == Records(data)[n + 1]
                b == BodyOf(data, r)
                a == BodyFrom(data, r)
                q == i - a
    <3>. HIDE DEF r, b, a, q
    <3>. SUFFICES ASSUME a \in 0 .. Len(data), end \in a .. Len(data), b \in Seq(Byte), b = Cut(data, a, end),
                         Len(b) = end - a, q \in 0 .. Len(b), i = a + q
                  PROVE  /\ Taking(field, b, q) > 0 /\ to = i + Taking(field, b, q) /\ TagAt(data, i) = Element(field, b, q)
                         /\ field \in Packed => \A p \in q .. q + Taking(field, b, q) - 1 : VarintLen(b, p) > 0
      BY DEF r, b, a, q
    <3>1. data[end] < Base
      <4>1. i = end \/ data[end] < Base
        BY <1>1, <2>2, RunFacts
      <4>. QED BY <1>1, <1>2, <4>1
    <3>2. to <= end
      <4>1. end \in i + 1 .. Len(data)
        BY <1>1, <1>2
      <4>. QED BY <1>2, <1>4, <3>1, <4>1, EndsBefore
    <3>3. VarintLen(b, q) = VarintLen(data, i) /\ VarintValue(b, q) = VarintValue(data, i)
      <4>1. q \in 0 .. end - a /\ VarintLen(data, a + q) > 0 /\ After(data, a + q) <= end
        BY <1>4, <3>2
      <4>2. VarintLen(b, q) = VarintLen(data, a + q) /\ VarintValue(b, q) = VarintValue(data, a + q)
        BY <1>2, <4>1, VarintOfCut
      <4>. QED BY <4>2
    <3>4. Taking(field, b, q) = VarintLen(b, q) /\ Element(field, b, q) = VarintValue(b, q)
      BY <1>1 DEF Taking, Element
    <3>5. \A p \in q .. After(b, q) - 1 : VarintLen(b, p) > 0
      BY <1>4, <3>3, ShorterVarints
    <3>6. Taking(field, b, q) > 0 /\ TagAt(data, i) = Element(field, b, q)
      BY <1>4, <3>3, <3>4 DEF TagAt
    <3>7. After(b, q) = q + Taking(field, b, q) /\ to = i + Taking(field, b, q)
      BY <3>3, <3>4 DEF After
    <3>. DEFINE t == Taking(field, b, q)
    <3>8. ASSUME NEW p \in q .. q + t - 1
          PROVE  VarintLen(b, p) > 0
      <4>1. t \in Int /\ After(b, q) = q + t
        BY <1>2, <3>3, <3>4, <3>7, VarintStaysInside
      <4>. HIDE DEF t
      <4>2. q \in Int /\ p \in q .. q + t - 1
        BY <3>8
      <4>3. p \in q .. After(b, q) - 1
        BY <4>1, <4>2
      <4>. QED BY <3>5, <4>3
    <3>. HIDE DEF to
    <3>. QED BY <3>6, <3>7, <3>8, Zenon
  <2>. HIDE DEF to
  <2>3. Stores(to, field, TagAt(data, i)) /\ field \in Listed
    BY <1>1, <1>4 DEF to, Listed
  <2>. QED BY <1>1, <2>1, <2>2, <2>3, RunStores
<1>. QED BY <1>3, <1>4 DEF VarintRun

LEMMA FixedRunReads == Inv /\ RInv /\ MInv /\ FixedRun => MInv'
<1>. SUFFICES ASSUME Inv, RInv, MInv, FixedRun PROVE MInv'
  OBVIOUS
<1>. DEFINE w  == Width(field)
            to == i + w
<1>1. pc = "run" /\ field \in Fixed /\ field \notin Packed /\ to <= end /\ Stores(to, field, Cut(data, i, to))
  BY OneKind DEF FixedRun, RunGoesOn
<1>2. /\ data \in Seq(Byte) /\ l = Len(data) /\ l \in Nat /\ i \in 0 .. Len(data) /\ end \in 0 .. l /\ i \in Nat
      /\ w \in Nat /\ w > 0
  BY <1>1, Facts, Widths DEF Inv, LoopOK, Width
<1>3. to \in 0 .. l
  BY <1>1, <1>2
<1>4. ASSUME NEW n \in Nat
      PROVE  LET r == Records(data)[n + 1]
                 b == BodyOf(data, r)
                 q == i - BodyFrom(data, r)
             IN  /\ BodyFrom(data, r) \in 0 .. Len(data) /\ end \in BodyFrom(data, r) .. Len(data)
                 /\ b \in Seq(Byte) /\ b = Cut(data, BodyFrom(data, r), end) /\ Len(b) = end - BodyFrom(data, r)
                 /\ q \in 0 .. Len(b) /\ i = BodyFrom(data, r) + q
                 => /\ Taking(field, b, q) > 0 /\ to = i + Taking(field, b, q) /\ Cut(data, i, to) = Element(field, b, q)
                    /\ field \in Packed => \A p \in q .. q + Taking(field, b, q) - 1 : VarintLen(b, p) > 0
  <2>. DEFINE r == Records(data)[n + 1]
              b == BodyOf(data, r)
              a == BodyFrom(data, r)
              q == i - a
  <2>. HIDE DEF r, b, a, q, w
  <2>. SUFFICES ASSUME a \in 0 .. Len(data), end \in a .. Len(data), b \in Seq(Byte), b = Cut(data, a, end),
                       Len(b) = end - a, q \in 0 .. Len(b), i = a + q
                PROVE  /\ Taking(field, b, q) > 0 /\ to = i + Taking(field, b, q) /\ Cut(data, i, to) = Element(field, b, q)
                       /\ field \in Packed => \A p \in q .. q + Taking(field, b, q) - 1 : VarintLen(b, p) > 0
    BY DEF r, b, a, q
  <2>1. Left(b, q) >= w /\ q + w \in q .. end - a
    BY <1>1, <1>2 DEF Left
  <2>2. Taking(field, b, q) = w /\ Element(field, b, q) = Cut(b, q, q + w)
    <3>1. ~(Left(b, q) < w)
      BY <1>2, <2>1 DEF Left
    <3>. QED BY <1>1, <3>1 DEF Taking, Element, w
  <2>3. Cut(b, q, q + w) = Cut(data, a + q, a + (q + w))
    BY <1>2, <2>1, CutOfCut
  <2>4. a + (q + w) = to
    BY <1>2
  <2>. QED BY <1>1, <1>2, <2>2, <2>3, <2>4
<1>5. field \in Listed
  BY <1>1 DEF Inv, LoopOK
<1>. HIDE DEF to
<1>. QED BY <1>1, <1>3, <1>4, <1>5, RunStores

-----------------------------------------------------------------------------
(* At the end of a run its record is taken.                                *)
LEMMA RunTaken ==
  ASSUME NEW c, NEW d, c.data \in Seq(Byte), d.data = c.data, d.i = c.i, d.out = c.out,
         NEW n \in Nat, NEW f \in Listed, InRun(c, n, f, c.i),
         NEW r, r = Records(c.data)[n + 1], NEW b \in Seq(Byte), b = BodyOf(c.data, r),
         c.i - BodyFrom(c.data, r) = Len(b)
  PROVE  Between(d)
<1>. DEFINE q   == Len(b)
            old == c.out[f]
            new == HeldOf(c.data, n, f)
<1>1. /\ f \in Known \ Map /\ f \in Repeated /\ f # -1
      /\ f \notin Msg /\ f \notin Bytes /\ f \notin Map \cup Stamp \cup Span /\ f \notin Num
  BY KnownKinds, OneKind, DecoderAssumption
<1>2. /\ InBody(c, n, f, c.i) /\ Taken(c, n) /\ n < Len(Records(c.data)) /\ r.f = f /\ r.wt = 2 /\ r.to = c.i
      /\ IsFields(c.out) /\ \A g \in Known \ {f} : c.out[g] = HeldOf(c.data, n, g)
      /\ HeldOf(c.data, n, f) \o Rest(f, b)[0] = old \o Rest(f, b)[q]
      /\ f \in Packed => \A p \in 0 .. q - 1 : VarintLen(b, p) > 0
  BY DEF InRun, InBody
<1>3. q \in 0 .. Len(b)
  OBVIOUS
<1>4. Rest(f, b)[q] = <<>>
  <2>1. Left(b, q) = 0
    BY DEF Left
  <2>2. Taking(f, b, q) < 0
    BY <1>3, <2>1, ElementFits
  <2>. QED BY <1>3, <2>2, RestDef
<1>5. old = new \o Rest(f, b)[0]
  <2>1. IsSeq(old) /\ IsSeq(old)
    BY <1>1, <1>2 DEF IsFields
  <2>. HIDE DEF old
  <2>2. old \o <<>> = old
    BY <2>1, Joins
  <2>. QED BY <1>2, <1>4, <2>2
<1>6. Items(c.data, r, Inners(c.data)) = Rest(f, b)[0]
  <2>1. CASE f \in Packed
    <3>1. Items(c.data, r, Inners(c.data)) = VarintsOf(b)
      BY <1>2, <2>1, ItemsAre
    <3>. QED BY <2>1, <3>1 DEF Rest, VarintsOf
  <2>2. CASE f \in Fixed /\ f \notin Packed
    <3>1. Items(c.data, r, Inners(c.data)) = Pieces(b, Width(f))
      BY <1>2, <2>2, ItemsAre
    <3>. QED BY <2>2, <3>1 DEF Rest, Pieces
  <2>. QED BY <2>1, <2>2, KnownKinds
<1>7. Fine(c.data, r)
  <2>1. 2 \in WireTypes(f)
    <3>1. f \in Packed \/ f \in Fixed8 \/ f \in Fixed4
      BY KnownKinds DEF Fixed
    <3>. QED BY <1>1, <3>1, WireTypesAre
  <2>2. f \in Packed => OnlyVarints(b)
    BY <1>2 DEF OnlyVarints
  <2>. QED BY <1>1, <1>2, <2>1, <2>2, DigestsAreBytes DEF Fine, Good, IsEntry, IsNested
<1>8. \A g \in Known :
        d.out[g] = IF r.f = g THEN Holds(g, HeldOf(c.data, n, g), Items(c.data, r, Inners(c.data)))
                   ELSE HeldOf(c.data, n, g)
  <2>1. Holds(f, new, Rest(f, b)[0]) = new \o Rest(f, b)[0]
    BY <1>1 DEF Holds
  <2>. QED BY <1>2, <1>5, <1>6, <2>1
<1>. QED BY <1>2, <1>7, <1>8, TakesOneMore

LEMMA LeaveRunReads == Inv /\ RInv /\ MInv /\ LeaveRun => MInv'
<1>. SUFFICES ASSUME Inv, RInv, MInv, LeaveRun PROVE MInv'
  OBVIOUS
<1>1. pc = "run" /\ ~RunGoesOn /\ pc' = "main" /\ UNCHANGED <<input, stack, top>>
  BY DEF LeaveRun, LoopEnds
<1>2. Nested'
  BY <1>1, StillNested DEF MInv
<1>3. ASSUME Regular(input)
      PROVE  Between(top')
  <2>1. Sound(data, i) /\ data \in Seq(Byte)
    <3>1. data \in Seq(Byte) /\ \A k \in 1 .. Len(Records(data)) : Whole(data, Records(data)[k])
      BY <1>3, Facts
    <3>2. DOMAIN Records(data) = 1 .. Len(Records(data))
      BY <3>1, RecordsAre
    <3>. QED BY <3>1, <3>2 DEF Sound
  <2>2. i = end /\ top.data = data /\ top.i = i /\ field \in Listed
    BY <1>1, <2>1, RunIsOver, Facts DEF Inv, LoopOK
  <2>. DEFINE R(n) == Records(data)[n + 1]
              B(n) == BodyOf(data, R(n))
              A(n) == BodyFrom(data, R(n))
  <2>3. PICK n \in Nat :
           /\ InRun(top, n, field, end)
           /\ B(n) \in Seq(Byte) /\ Len(B(n)) = end - A(n)
    BY <1>1, <1>3, RunFacts
  <2>. DEFINE r == R(n)
              b == B(n)
  <2>4. /\ InRun(top, n, field, top.i) /\ r = Records(top.data)[n + 1] /\ b \in Seq(Byte) /\ b = BodyOf(top.data, r)
        /\ top.i - BodyFrom(top.data, r) = Len(b) /\ top.data \in Seq(Byte)
    BY <2>1, <2>2, <2>3
  <2>. HIDE DEF r, b
  <2>. QED BY <1>1, <2>2, <2>4, RunTaken
<1>4. Regular(input)' = Regular(input)
  BY <1>1 DEF Regular
<1>5. Reached'
  <2>1. Regular(input) => Between(top)'
    BY <1>3 DEF Between, Taken, Holding
  <2>. QED BY <1>1, <1>4, <2>1 DEF Reached
<1>. QED BY <1>2, <1>5 DEF MInv

-----------------------------------------------------------------------------
(* An entry is entered.                                                    *)
LEMMA EnterEntryReads ==
  ASSUME Inv, MInv, NEW f \in Known, Arm(f), EnterEntry(f)
  PROVE  MInv'
<1>. DEFINE r == RecordAt(data, i)
<1>1. /\ pc = "main" /\ i < l /\ (r.f # -1 => r.f = f) /\ r.wt = Wt
      /\ Wt = 2 => (r.f # -1 <=> Fits(data, i))
      /\ data \in Seq(Byte) /\ l = Len(data) /\ i \in 0 .. Len(data) - 1 /\ i \in 0 .. Len(data)
      /\ VarintLen(data, i) > 0 /\ f # -1
  BY ArmFacts
<1>2. /\ f \in Map \cup Stamp \cup Span /\ Wt = 2 /\ Fits(data, i)
      /\ pc' = "entry" /\ field' = f /\ Moves(Body(data, i)) /\ end' = BodyEnd(data, i)
      /\ UNCHANGED <<input, stack>> /\ mk' = Default(Kind(f, 1)) /\ mv' = Default(Kind(f, 2))
  BY DEF EnterEntry, Loop
<1>3. Body(data, i) \in 0 .. l
  BY <1>1, <1>2, TagInside DEF Fits
<1>4. top'.data = data /\ top'.i = Body(data, i) /\ top'.out = top.out
  BY <1>2, <1>3, MovesInside DEF data, i
<1>5. Nested'
  BY <1>2, <1>4, StillNested, Facts DEF MInv
<1>6. r.f = f /\ r.f # -1 /\ r.wt = 2
  BY <1>1, <1>2
<1>. HIDE DEF r
<1>7. ASSUME Regular(input)
      PROVE  \E n, m \in Nat : InEntry(top', n, m, field', end', mk', mv')
  <2>1. PICK n \in Nat : /\ Taken(top, n) /\ Holding(top, n) /\ n < Len(Records(data))
                         /\ Records(data)[n + 1] = RecordAt(data, i)
    BY <1>1, <1>7, MainBetween
  <2>2. top.data = data
    BY Facts
  <2>3. InBody(top', n, f, BodyEnd(data, i)) /\ BodyFrom(data, Records(data)[n + 1]) = top'.i
    BY <1>1, <1>4, <1>6, <2>1, <2>2, EntersBody DEF r
  <2>. DEFINE b == BodyOf(data, Records(data)[n + 1])
  <2>4. b \in Seq(Byte)
    BY <1>1, <1>6, <2>1, BodyCut DEF r
  <2>. HIDE DEF b
  <2>5. 0 \in 0 .. Len(Records(b)) /\ Pos(b, 0) = 0
    BY <2>4, RecordsAre DEF Pos
  <2>6. top'.i = BodyFrom(data, Records(data)[n + 1]) + Pos(b, 0)
    BY <1>3, <1>4, <2>3, <2>5
  <2>7. mk' = EntryLast(f, b, 0, 1) /\ mv' = EntryLast(f, b, 0, 2)
    BY <1>2, EntryStarts
  <2>8. Holding(top', n)
    BY <1>4, <2>1, <2>2 DEF Holding
  <2>9. \A k \in 1 .. 0 : Records(b)[k].f # -1
    OBVIOUS
  <2>10. InEntry(top', n, 0, f, BodyEnd(data, i), mk', mv')
    BY <1>4, <2>3, <2>5, <2>6, <2>7, <2>8, <2>9 DEF InEntry, b
  <2>. QED BY <1>2, <2>10
<1>8. Regular(input)' = Regular(input)
  BY <1>2 DEF Regular
<1>9. Reached'
  BY <1>2, <1>7, <1>8 DEF Reached
<1>. QED BY <1>5, <1>9 DEF MInv

-----------------------------------------------------------------------------
(* Where the loop over an entry is: q bytes behind the begin, at from, of  *)
(* its body b, of which m records were read.                               *)
EntryIs(n, m, b, from, q) ==
  LET r == Records(data)[n + 1]
  IN  /\ InEntry(top, n, m, field, end, mk, mv)
      /\ n + 1 \in 1 .. Len(Records(data)) /\ n < Len(Records(data)) /\ Taken(top, n)
      /\ r.f = field /\ r.wt = 2 /\ r.to = end /\ b = BodyOf(data, r) /\ from = BodyFrom(data, r)
      /\ b \in Seq(Byte) /\ b = Cut(EntryData, from, end) /\ b = Cut(data, from, end)
      /\ from \in 0 .. end /\ Len(b) = end - from
      /\ m \in 0 .. Len(Records(b)) /\ q = Pos(b, m) /\ q \in 0 .. Len(b) /\ i = from + q
      /\ EntryTyped(field, b)

LEMMA PosInside ==
  ASSUME NEW s \in Seq(Byte), NEW n \in 0 .. Len(Records(s))
  PROVE  /\ Pos(s, n) \in 0 .. Len(s)
         /\ n = Len(Records(s)) <=> Pos(s, n) = Len(s)
<1>1. Len(Records(s)) \in Nat /\ Len(s) \in Nat
  BY RecordsAre
<1>2. n < Len(Records(s)) => Pos(s, n) \in 0 .. Len(s) - 1
  BY NextRecord
<1>3. n = Len(Records(s)) => Pos(s, n) = Len(s)
  BY NextRecord
<1>. QED BY <1>1, <1>2, <1>3

LEMMA EntryAt ==
  ASSUME Inv, MInv, Regular(input), pc = "entry"
  PROVE  \E n, m \in Nat : \E b, from, q : EntryIs(n, m, b, from, q)
<1>1. PICK n, m \in Nat : InEntry(top, n, m, field, end, mk, mv)
  BY DEF MInv, Reached
<1>2. /\ data \in Seq(Byte) /\ l = Len(data) /\ i \in 0 .. l /\ top.data = data /\ top.i = i
      /\ field \in Map \cup Stamp \cup Span /\ field \in Known
  BY Facts, KnownKinds DEF Inv, LoopOK
<1>3. EntryData \in Seq(Byte) /\ Len(EntryData) = end /\ end \in 0 .. l /\ i \in 0 .. end
      /\ EntryData = Cut(data, 0, end)
  BY EntryFacts
<1>. DEFINE r    == Records(data)[n + 1]
            b    == BodyOf(data, r)
            from == BodyFrom(data, r)
            q    == Pos(b, m)
<1>4. InBody(top, n, field, end) /\ top.data \in Seq(Byte) /\ n \in Nat /\ field \in Known /\ top.data = data
      /\ top.i = i
  BY <1>1, <1>2 DEF InEntry
<1>5. /\ n + 1 \in 1 .. Len(Records(data)) /\ n < Len(Records(data)) /\ Taken(top, n)
      /\ r.f = field /\ r.f # -1 /\ r.wt = 2 /\ r.to = end
      /\ from \in 0 .. Len(data) /\ end \in from .. Len(data) /\ from <= i
      /\ b \in Seq(Byte) /\ b = Cut(data, from, end) /\ Len(b) = end - from
  <2>1. IsBody(top, n, field, end)
    BY <1>4, InBodyFacts
  <2>. QED BY <1>4, <2>1 DEF IsBody
<1>6. EntryTyped(field, b)
  <2>1. IsEntry(r)
    BY <1>2, <1>5 DEF IsEntry
  <2>. QED BY <1>5, <2>1, Facts
<1>7. m \in 0 .. Len(Records(b)) /\ i = from + q
  BY <1>1, <1>2 DEF InEntry
<1>. HIDE DEF r, b, from, q
<1>8. q \in 0 .. Len(b)
  BY <1>5, <1>7, PosInside DEF q
<1>9. b = Cut(EntryData, from, end)
  <2>1. 0 \in 0 .. Len(data) /\ end \in 0 .. Len(data) /\ from \in 0 .. end - 0 /\ end \in from .. end - 0
    BY <1>2, <1>3, <1>5
  <2>2. Cut(Cut(data, 0, end), from, end) = Cut(data, 0 + from, 0 + end)
    BY <1>2, <2>1, CutOfCut
  <2>3. 0 + from = from /\ 0 + end = end
    BY <2>1
  <2>. QED BY <1>3, <1>5, <2>2, <2>3
<1>10. from \in 0 .. end
  BY <1>3, <1>5
<1>11. EntryIs(n, m, b, from, q)
  BY <1>1, <1>5, <1>6, <1>7, <1>8, <1>9, <1>10 DEF EntryIs, r, b, from, q
<1>. QED BY <1>11

(* A tag that a walk over the rest t of s sees, at q of t and p of s: the  *)
(* arms of both walks see the same one, and the bytes behind it alike.     *)
SameTag(t, q, s, p, a) ==
  /\ TagAt(t, q) = TagAt(s, p) /\ After(s, p) = a + After(t, q)
  /\ \A w : SkipField(t, After(t, q), w) = SkipField(s, After(s, p), w)

LEMMA TagOfRest ==
  ASSUME NEW s \in Seq(Byte), NEW a \in 0 .. Len(s), NEW q \in 0 .. Len(s) - a, NEW p, p = a + q,
         VarintLen(s, p) > 0, NEW t, t = Cut(s, a, Len(s))
  PROVE  SameTag(t, q, s, p, a)
BY ArmOfRest DEF SameTag

(* The kinds of an entry, and what emitScalarRead makes of the record at q *)
(* of the rest t of s: what the record says.                               *)
LEMMA KindsAre ==
  ASSUME NEW f, NEW num \in {1, 2}
  PROVE  Kind(f, num) \in ScalarKind /\ (Kind(f, num) = "string" => NeedsSlab)
<1>1. CASE f \in Map
  <2>1. MapKinds[f] \in (ScalarKind \ {"bytes"}) \X ScalarKind
    BY <1>1, DecoderAssumption
  <2>2. MapKinds[f][1] \in ScalarKind /\ MapKinds[f][2] \in ScalarKind
    BY <2>1
  <2>3. Kind(f, num) = MapKinds[f][num]
    BY <1>1 DEF Kind
  <2>. QED BY <1>1, <2>2, <2>3 DEF NeedsSlab
<1>2. CASE f \notin Map
  BY <1>2 DEF Kind, ScalarKind
<1>. QED BY <1>1, <1>2

LEMMA ScalarRecord ==
  ASSUME NEW s \in Seq(Byte), NEW a \in 0 .. Len(s), NEW t, t = Cut(s, a, Len(s)),
         NEW q \in 0 .. Len(t) - 1, VarintLen(s, a + q) > 0,
         NEW kind \in ScalarKind, RecordAt(t, q).wt = EntryWt(kind)
  PROVE  LET e == RecordAt(t, q)
             p == a + q
         IN  /\ e.f # -1 <=> Readable(kind, s, p)
             /\ e.f # -1 =>
                  /\ ReadTo(kind, s, p) = a + e.to
                  /\ kind # "string" => Says(kind, t, e) = Scalar(kind, s, p)
                  /\ kind = "string" => Says(kind, t, e) = Cut(s, Body(s, p), BodyEnd(s, p))
<1>. DEFINE e == RecordAt(t, q)
            p == a + q
            x == After(t, q)
<1>1. t \in Seq(Byte) /\ Len(t) = Len(s) - a /\ Len(s) \in a .. Len(s)
  <2>1. Len(s) \in a .. Len(s)
    OBVIOUS
  <2>. QED BY <2>1, CutFacts
<1>2. q \in 0 .. Len(t) /\ q \in 0 .. Len(s) - a
  BY <1>1
<1>3. /\ VarintLen(t, q) > 0 /\ TagAt(t, q) = TagAt(s, p) /\ After(s, p) = a + x
      /\ HasOperand(t, q) <=> HasOperand(s, p)
      /\ Operand(t, q) = Operand(s, p) /\ Body(s, p) = a + Body(t, q)
      /\ BodyEnd(s, p) = a + BodyEnd(t, q)
      /\ Fits(t, q) <=> Fits(s, p)
  BY <1>2, ArmOfRest
<1>4. x \in q + 1 .. Len(t) /\ e.to \in q + 1 .. Len(t)
  BY <1>1, <1>2, <1>3, TagInside, RecordInside
<1>5. Left(t, x) = Left(s, After(s, p)) /\ Left(t, x) = Len(t) - x
  BY <1>1, <1>2, <1>3, <1>4 DEF Left
<1>6. /\ e.f # -1 => e.from = x
      /\ e.wt = 0 => (e.f # -1 <=> HasOperand(t, q)) /\ (e.f # -1 => e.to = Body(t, q))
      /\ e.wt = 1 => (e.f # -1 <=> Left(t, x) >= Width8) /\ (e.f # -1 => e.to = x + Width8)
      /\ e.wt = 2 => (e.f # -1 <=> Fits(t, q)) /\ (e.f # -1 => e.to = BodyEnd(t, q))
      /\ e.wt = 5 => (e.f # -1 <=> Left(t, x) >= Width4) /\ (e.f # -1 => e.to = x + Width4)
  BY <1>1, <1>3, ArmRecord
<1>7. e.wt = EntryWt(kind)
  OBVIOUS
<1>8. Operand(t, q) = VarintValue(t, x)
  BY DEF Operand
<1>9. ASSUME e.f # -1, e.wt = 2
      PROVE  BodyOf(t, e) = Cut(s, Body(s, p), BodyEnd(s, p))
  <2>. DEFINE y == Body(t, q)
              z == BodyEnd(t, q)
  <2>1. y \in q + 2 .. Len(t) /\ z \in y .. Len(t) /\ BodyOf(t, e) = Cut(t, y, z)
    BY <1>1, <1>9, BodyCut
  <2>2. Body(s, p) = a + y /\ BodyEnd(s, p) = a + z
    BY <1>3
  <2>. HIDE DEF y, z
  <2>3. y \in 0 .. Len(s) - a /\ z \in y .. Len(s) - a
    BY <1>1, <2>1
  <2>4. Cut(t, y, z) = Cut(s, a + y, a + z)
    BY <1>1, <2>3, CutOfCut
  <2>. QED BY <2>1, <2>2, <2>4
<1>. HIDE DEF e, p, x
<1>10. CASE kind \in {"int64", "int32", "bool"}
  <2>1. EntryWt(kind) = 0 /\ kind # "string"
    BY <1>10 DEF EntryWt
  <2>2. /\ Readable(kind, s, p) <=> HasOperand(s, p)
        /\ ReadTo(kind, s, p) = Body(s, p)
        /\ Scalar(kind, s, p) = Narrow(kind, Operand(s, p))
        /\ Says(kind, t, e) = Narrow(kind, VarintValue(t, e.from))
    BY <1>10, <2>1 DEF Readable, ReadTo, Scalar, Says, ValueOf
  <2>. QED BY <1>3, <1>6, <1>7, <1>8, <2>1, <2>2 DEF e, p
<1>11. CASE kind \in {"fixed64", "fixed32"}
  <2>. DEFINE w == SizeOf(kind)
              y == After(s, p)
  <2>1. EntryWt(kind) = (IF kind = "fixed64" THEN 1 ELSE 5) /\ kind # "string"
    BY <1>11 DEF EntryWt
  <2>2. w = (IF kind = "fixed64" THEN Width8 ELSE Width4) /\ w \in Nat
    BY Widths DEF SizeOf
  <2>3. /\ Readable(kind, s, p) <=> Left(s, y) >= w
        /\ ReadTo(kind, s, p) = y + w
    BY <1>11 DEF Readable, ReadTo
  <2>4. Scalar(kind, s, p) = Cut(s, y, ReadTo(kind, s, p))
    BY <1>11 DEF Scalar
  <2>5. Says(kind, t, e) = Cut(t, e.from, e.to)
    BY <1>11, <2>1 DEF Says
  <2>. HIDE DEF w, y
  <2>6. (e.f # -1 <=> Left(t, x) >= w) /\ (e.f # -1 => e.to = x + w)
    BY <1>6, <1>7, <2>1, <2>2
  <2>7. y = a + x
    BY <1>3 DEF y
  <2>8. e.f # -1 <=> Readable(kind, s, p)
    BY <1>5, <2>3, <2>6 DEF y
  <2>9. ASSUME e.f # -1
        PROVE  y + w = a + e.to /\ Cut(t, x, e.to) = Cut(s, y, y + w)
    <3>1. e.to = x + w
      BY <2>6, <2>9
    <3>2. x \in 0 .. Len(s) - a /\ e.to \in x .. Len(s) - a
      BY <1>1, <1>2, <1>4, <2>2, <3>1
    <3>3. Cut(t, x, e.to) = Cut(s, a + x, a + e.to)
      BY <1>1, <3>2, CutOfCut
    <3>4. y + w = a + e.to
      BY <1>2, <1>4, <2>2, <2>7, <3>1
    <3>. QED BY <2>7, <3>3, <3>4
  <2>. QED BY <1>6, <2>1, <2>3, <2>4, <2>5, <2>8, <2>9 DEF e, p
<1>12. CASE kind \in {"string", "bytes"}
  <2>1. EntryWt(kind) = 2
    BY <1>12 DEF EntryWt
  <2>2. /\ Readable(kind, s, p) <=> Fits(s, p)
        /\ ReadTo(kind, s, p) = BodyEnd(s, p)
        /\ kind # "string" => Scalar(kind, s, p) = Cut(s, Body(s, p), BodyEnd(s, p))
        /\ Says(kind, t, e) = BodyOf(t, e)
    BY <1>12, <2>1 DEF Readable, ReadTo, Scalar, Says
  <2>. QED BY <1>3, <1>6, <1>7, <1>9, <2>1, <2>2 DEF e, p
<1>. QED BY <1>10, <1>11, <1>12 DEF ScalarKind

(* The record of the entry that is read next, as the arms see it.          *)
LEMMA EntryRecord ==
  ASSUME Inv, pc = "entry", i < end, NEW n \in Nat, NEW m \in Nat, NEW b, NEW from, NEW q,
         EntryIs(n, m, b, from, q), NEW e, e = RecordAt(b, q)
  PROVE  LET s    == EntryData
             tag  == TagAt(s, i)
             num  == FieldNum(tag)
             kind == Kind(field, num)
             n2   == SkipField(s, After(s, i), WireType(tag))
         IN  /\ m + 1 \in 1 .. Len(Records(b)) /\ Records(b)[m + 1] = e
             /\ e.f # -1 => VarintLen(s, i) > 0 /\ e.f = num
             /\ VarintLen(s, i) > 0 =>
                  /\ num \in {1, 2} =>
                       /\ e.f # -1 <=> Readable(kind, s, i)
                       /\ e.f # -1 => Says(kind, b, e) = Scalar(kind, s, i) /\ ReadTo(kind, s, i) = from + e.to
                  /\ num \notin {1, 2} =>
                       /\ e.f # -1 <=> n2 > 0
                       /\ e.f # -1 => After(s, i) + n2 = from + e.to
<1>. DEFINE s   == EntryData
            tag == TagAt(s, i)
            num == FieldNum(tag)
            kind == Kind(field, num)
            n2  == SkipField(s, After(s, i), WireType(tag))
            wt  == WireType(TagAt(b, q))
<1>1. /\ b \in Seq(Byte) /\ b = Cut(s, from, end) /\ b = Cut(data, from, end)
      /\ from \in 0 .. end /\ Len(b) = end - from
      /\ m \in 0 .. Len(Records(b)) /\ q = Pos(b, m) /\ q \in 0 .. Len(b) /\ i = from + q
      /\ EntryTyped(field, b)
  BY DEF EntryIs
<1>2. s \in Seq(Byte) /\ Len(s) = end /\ end \in 0 .. l /\ i \in 0 .. end /\ data \in Seq(Byte) /\ l = Len(data)
      /\ s = Cut(data, 0, end)
  BY EntryFacts, DataFacts
<1>. HIDE DEF s
<1>3. q \in 0 .. Len(b) - 1 /\ q # Len(b)
  BY <1>1, <1>2
<1>4. m < Len(Records(b)) /\ m + 1 \in 1 .. Len(Records(b)) /\ Records(b)[m + 1] = e
  <2>1. Len(Records(b)) \in Nat
    BY <1>1, RecordsAre
  <2>2. m # Len(Records(b))
    BY <1>1, <1>3, PosInside
  <2>3. m < Len(Records(b))
    BY <1>1, <2>1, <2>2
  <2>. QED BY <1>1, <2>1, <2>3, NextRecord
<1>5. e.num \in {1, 2} => e.wt = EntryWt(Kind(field, e.num))
  <2>1. e \in ToSet(Records(b))
    BY <1>1, <1>4, RecordsAre
  <2>. QED BY <1>1, <2>1 DEF EntryTyped
<1>6. /\ e.f # -1 => VarintLen(b, q) > 0 /\ e.f = FieldNum(TagAt(b, q)) /\ e.wt = wt /\ e.from = After(b, q)
      /\ VarintLen(b, q) > 0 =>
           /\ e.f # -1 <=> SkipField(b, After(b, q), wt) > 0
           /\ e.f # -1 => e.to = After(b, q) + SkipField(b, After(b, q), wt)
      /\ e.num = FieldNum(TagAt(b, q)) /\ e.wt = wt
  BY <1>1, <1>3, ArmRecord
<1>7. VarintLen(b, q) = VarintLen(s, i) /\ from \in 0 .. Len(s) /\ q \in 0 .. Len(s) - from
  <2>1. from \in 0 .. Len(s) /\ q \in 0 .. Len(s) - from /\ b = Cut(s, from, Len(s))
    BY <1>1, <1>2
  <2>. QED BY <1>1, <1>2, <2>1, VarintOfRest
<1>8. VarintLen(s, i) > 0 =>
        /\ TagAt(b, q) = tag /\ After(s, i) = from + After(b, q)
        /\ SkipField(b, After(b, q), wt) = SkipField(s, After(s, i), wt)
  <2>1. s \in Seq(Byte) /\ from \in 0 .. Len(s) /\ q \in 0 .. Len(s) - from /\ i = from + q
        /\ b = Cut(s, from, Len(s))
    BY <1>1, <1>2, <1>7
  <2>2. ASSUME VarintLen(s, i) > 0
        PROVE  SameTag(b, q, s, i, from)
    BY <2>1, <2>2, TagOfRest
  <2>. QED BY <2>2 DEF SameTag
<1>. HIDE DEF wt, tag, n2, kind
<1>10. VarintLen(s, i) > 0 => e.num = num /\ wt = WireType(tag)
  BY <1>6, <1>8 DEF wt
<1>. HIDE DEF num
<1>11. ASSUME VarintLen(s, i) > 0, num \in {1, 2}
       PROVE  /\ e.f # -1 <=> Readable(kind, s, i)
              /\ e.f # -1 => Says(kind, b, e) = Scalar(kind, s, i) /\ ReadTo(kind, s, i) = from + e.to
  <2>1. kind \in ScalarKind /\ (kind = "string" => NeedsSlab)
    BY <1>11, KindsAre DEF kind
  <2>2. RecordAt(b, q).wt = EntryWt(kind)
    BY <1>5, <1>10, <1>11 DEF kind
  <2>3. b = Cut(s, from, Len(s)) /\ q \in 0 .. Len(b) - 1 /\ VarintLen(s, from + q) > 0 /\ i = from + q
    BY <1>1, <1>2, <1>3, <1>11
  <2>4. /\ e.f # -1 <=> Readable(kind, s, i)
        /\ e.f # -1 =>
             /\ ReadTo(kind, s, i) = from + e.to
             /\ kind # "string" => Says(kind, b, e) = Scalar(kind, s, i)
             /\ kind = "string" => Says(kind, b, e) = Cut(s, Body(s, i), BodyEnd(s, i))
    BY <1>2, <1>7, <2>1, <2>2, <2>3, ScalarRecord
  <2>5. ASSUME e.f # -1, kind = "string"
        PROVE  Cut(s, Body(s, i), BodyEnd(s, i)) = Scalar(kind, s, i)
    <3>. DEFINE x == Body(s, i)
                y == BodyEnd(s, i)
    <3>1. Fits(s, i) /\ Scalar(kind, s, i) = Slab(x, y) /\ NeedsSlab
      BY <2>1, <2>4, <2>5 DEF Readable, Scalar
    <3>2. i \in 0 .. Len(s)
      BY <1>2
    <3>3. After(s, i) \in i + 1 .. Len(s) /\ x \in After(s, i) + 1 .. Len(s) /\ y \in x .. Len(s)
      BY <1>2, <1>11, <3>1, <3>2, TagInside
    <3>. HIDE DEF x, y
    <3>4. x \in 0 .. end /\ y \in x .. end
      BY <1>2, <3>2, <3>3
    <3>5. x \in 0 .. l /\ y \in x .. l /\ x \in 0 .. end - 0 /\ y \in x .. end - 0
          /\ 0 \in 0 .. Len(data) /\ end \in 0 .. Len(data)
      BY <1>2, <3>4
    <3>6. Slab(x, y) = Cut(data, x, y)
      BY <3>1, <3>5, SlabCut
    <3>7. Cut(Cut(data, 0, end), x, y) = Cut(data, 0 + x, 0 + y)
      BY <1>2, <3>5, CutOfCut
    <3>8. 0 + x = x /\ 0 + y = y
      BY <3>4
    <3>. QED BY <1>2, <3>1, <3>6, <3>7, <3>8 DEF x, y
  <2>. QED BY <2>4, <2>5
<1>13. ASSUME VarintLen(s, i) > 0
       PROVE  /\ e.f # -1 <=> n2 > 0
              /\ e.f # -1 => After(s, i) + n2 = from + e.to
  <2>1. n2 = SkipField(b, After(b, q), wt)
    BY <1>8, <1>10, <1>13 DEF n2
  <2>2. e.f # -1 <=> n2 > 0
    BY <1>6, <1>7, <1>13, <2>1
  <2>3. ASSUME e.f # -1
        PROVE  After(s, i) + n2 = from + e.to
    <3>. DEFINE x == After(b, q)
    <3>1. e.to = x + n2 /\ After(s, i) = from + x
      BY <1>6, <1>7, <1>8, <1>13, <2>1, <2>3
    <3>2. e.to \in Int /\ from \in Int /\ x \in Int
      <4>1. e.to \in q + 1 .. Len(b)
        BY <1>1, <1>3, RecordInside
      <4>2. x \in q + 1 .. Len(b)
        BY <1>1, <1>7, <1>13, TagInside
      <4>. HIDE DEF x
      <4>. QED BY <1>1, <4>1, <4>2
    <3>3. n2 \in Int
      <4>1. n2 = -1 \/ n2 \in 1 .. Left(s, After(s, i))
        <5>1. After(s, i) \in 0 .. Len(s) /\ WireType(tag) \in 0 .. 7
          <6>1. i \in 0 .. Len(s)
            BY <1>2
          <6>2. After(s, i) \in i + 1 .. Len(s) /\ WireType(tag) \in 0 .. 7
            BY <1>2, <1>13, <6>1, TagInside DEF tag
          <6>. QED BY <6>1, <6>2
        <5>. QED BY <1>2, <5>1, SkipStaysInside DEF n2
      <4>. QED BY <4>1
    <3>. HIDE DEF x
    <3>. QED BY <3>1, <3>2, <3>3
  <2>. QED BY <2>2, <2>3
<1>14. e.f # -1 => VarintLen(s, i) > 0 /\ e.f = num
  BY <1>6, <1>7, <1>8 DEF num, tag
<1>. QED BY <1>4, <1>11, <1>13, <1>14 DEF s, tag, num, n2, kind

-----------------------------------------------------------------------------
(* One record more of an entry.                                            *)
LEMMA EntryStep ==
  ASSUME Inv, MInv, pc = "entry", i < end, NEW to \in 0 .. end, EntryReads(to),
         Regular(input) =>
           \A n, m \in Nat : \A b, from, q :
             EntryIs(n, m, b, from, q) =>
               LET e == Records(b)[m + 1]
               IN  /\ m + 1 \in 1 .. Len(Records(b)) /\ e.f # -1 /\ to = from + e.to
                   /\ mk' = IF e.f = 1 THEN Says(Kind(field, 1), b, e) ELSE mk
                   /\ mv' = IF e.f = 2 THEN Says(Kind(field, 2), b, e) ELSE mv
  PROVE  MInv'
<1>1. pc' = "entry" /\ UNCHANGED <<input, stack, field, end>>
  BY DEF EntryReads
<1>2. top'.data = top.data /\ top'.i = to /\ top'.out = top.out /\ top.data = data /\ data \in Seq(Byte) /\ top.i = i
  <2>1. top'.i = i'
    BY DEF i
  <2>. QED BY <2>1, EntryReadsKeeps, Facts
<1>3. Nested'
  BY <1>1, <1>2, StillNested DEF MInv
<1>4. ASSUME Regular(input)
      PROVE  \E n, m \in Nat : InEntry(top', n, m, field, end, mk', mv')
  <2>1. PICK n, m \in Nat : \E b, from, q : EntryIs(n, m, b, from, q)
    BY <1>4, EntryAt
  <2>2. PICK b, from, q : EntryIs(n, m, b, from, q)
    BY <2>1
  <2>. DEFINE e == Records(b)[m + 1]
              r == Records(data)[n + 1]
              k == m + 1
  <2>3. /\ k \in 1 .. Len(Records(b)) /\ e.f # -1 /\ to = from + e.to
        /\ mk' = IF e.f = 1 THEN Says(Kind(field, 1), b, e) ELSE mk
        /\ mv' = IF e.f = 2 THEN Says(Kind(field, 2), b, e) ELSE mv
    BY <1>4, <2>2
  <2>4. /\ InEntry(top, n, m, field, end, mk, mv) /\ b = BodyOf(data, r) /\ from = BodyFrom(data, r)
        /\ b \in Seq(Byte) /\ from \in 0 .. end
    BY <2>2 DEF EntryIs
  <2>5. /\ InBody(top, n, field, end) /\ Holding(top, n) /\ \A j \in 1 .. m : Records(b)[j].f # -1
        /\ mk = EntryLast(field, b, m, 1) /\ mv = EntryLast(field, b, m, 2)
    BY <1>2, <2>4 DEF InEntry
  <2>6. mk' = EntryLast(field, b, k, 1) /\ mv' = EntryLast(field, b, k, 2)
    BY <2>3, <2>5, EntryGoesOn
  <2>7. k \in 0 .. Len(Records(b)) /\ Pos(b, k) = e.to /\ Pos(b, k) \in 0 .. Len(b)
    <3>1. k \in 0 .. Len(Records(b)) /\ k # 0
      BY <2>3
    <3>2. Pos(b, k) = e.to
      BY <3>1 DEF Pos
    <3>. HIDE DEF k, e
    <3>. QED BY <2>4, <3>1, <3>2, PosInside
  <2>8. to = from + Pos(b, k) /\ from <= to
    <3>1. from \in Int /\ Pos(b, k) \in Nat
      BY <2>4, <2>7
    <3>. QED BY <2>3, <2>7, <3>1
  <2>9. \A j \in 1 .. k : Records(b)[j].f # -1
    <3>1. \A j \in 1 .. k : j \in 1 .. m \/ j = k
      OBVIOUS
    <3>. QED BY <2>3, <2>5, <3>1
  <2>10. InBody(top', n, field, end) /\ Holding(top', n)
    <3>1. Holding(top', n)
      BY <1>2, <2>5 DEF Holding
    <3>2. BodyFrom(top.data, Records(top.data)[n + 1]) = from
      BY <1>2, <2>4
    <3>. QED BY <1>2, <2>5, <2>8, <3>1, <3>2 DEF InBody, Taken
  <2>. HIDE DEF k, e
  <2>11. InEntry(top', n, k, field, end, mk', mv')
    BY <1>2, <2>4, <2>6, <2>7, <2>8, <2>9, <2>10 DEF InEntry
  <2>. QED BY <2>11 DEF k
<1>5. Regular(input)' = Regular(input)
  BY <1>1 DEF Regular
<1>6. Reached'
  BY <1>1, <1>4, <1>5 DEF Reached
<1>. QED BY <1>3, <1>6 DEF MInv

LEMMA EntryScalarReads == Inv /\ MInv /\ (EntryKey \/ EntryValue) => MInv'
<1>. SUFFICES ASSUME Inv, MInv, EntryKey \/ EntryValue PROVE MInv'
  OBVIOUS
<1>. DEFINE s    == EntryData
            num  == FieldNum(TagAt(s, i))
            kind == Kind(field, num)
            to   == ReadTo(kind, s, i)
<1>1. /\ pc = "entry" /\ i < end /\ VarintLen(s, i) > 0 /\ Readable(kind, s, i) /\ EntryReads(to)
      /\ \/ num = 1 /\ mk' = Scalar(kind, s, i) /\ mv' = mv
         \/ num = 2 /\ mv' = Scalar(kind, s, i) /\ mk' = mk
  BY DEF EntryKey, EntryValue, EntryTag
<1>2. s \in Seq(Byte) /\ Len(s) = end /\ end \in 0 .. l /\ i \in 0 .. end
  BY <1>1, EntryFacts
<1>3. to \in 0 .. end
  <2>1. i \in 0 .. Len(s) /\ i < Len(s)
    BY <1>1, <1>2
  <2>2. to \in i .. Len(s)
    BY <1>1, <1>2, <2>1, ScalarInside
  <2>. HIDE DEF to
  <2>. QED BY <1>2, <2>2
<1>4. ASSUME NEW n \in Nat, NEW m \in Nat, NEW b, NEW from, NEW q, EntryIs(n, m, b, from, q)
      PROVE  LET e == Records(b)[m + 1]
             IN  /\ m + 1 \in 1 .. Len(Records(b)) /\ e.f # -1 /\ to = from + e.to
                 /\ mk' = IF e.f = 1 THEN Says(Kind(field, 1), b, e) ELSE mk
                 /\ mv' = IF e.f = 2 THEN Says(Kind(field, 2), b, e) ELSE mv
  <2>. DEFINE e == RecordAt(b, q)
  <2>1. /\ m + 1 \in 1 .. Len(Records(b)) /\ Records(b)[m + 1] = e
        /\ e.f # -1 => e.f = num
        /\ num \in {1, 2} =>
             /\ e.f # -1 <=> Readable(kind, s, i)
             /\ e.f # -1 => Says(kind, b, e) = Scalar(kind, s, i) /\ to = from + e.to
    BY <1>1, <1>4, EntryRecord
  <2>. HIDE DEF e, s, to, num
  <2>. QED BY <1>1, <2>1
<1>. HIDE DEF to
<1>. QED BY <1>1, <1>3, <1>4, EntryStep

LEMMA EntryUnknownReads == Inv /\ MInv /\ EntryUnknown => MInv'
<1>. SUFFICES ASSUME Inv, MInv, EntryUnknown PROVE MInv'
  OBVIOUS
<1>. DEFINE s   == EntryData
            num == FieldNum(TagAt(s, i))
            n2  == SkipField(s, After(s, i), WireType(TagAt(s, i)))
            to  == After(s, i) + n2
<1>1. /\ pc = "entry" /\ i < end /\ VarintLen(s, i) > 0 /\ num \notin {1, 2}
      /\ n2 > 0 /\ EntryReads(to) /\ mk' = mk /\ mv' = mv
  BY DEF EntryUnknown
<1>2. s \in Seq(Byte) /\ Len(s) = end /\ end \in 0 .. l /\ i \in 0 .. end
  BY <1>1, EntryFacts
<1>3. to \in 0 .. end
  <2>1. i \in 0 .. Len(s)
    BY <1>2
  <2>2. After(s, i) \in i + 1 .. Len(s) /\ WireType(TagAt(s, i)) \in 0 .. 7
    BY <1>1, <1>2, <2>1, TagInside
  <2>3. After(s, i) \in 0 .. Len(s)
    BY <2>1, <2>2
  <2>4. n2 = -1 \/ n2 \in 1 .. Left(s, After(s, i))
    BY <1>2, <2>2, <2>3, SkipStaysInside
  <2>. HIDE DEF n2
  <2>. QED BY <1>1, <1>2, <2>3, <2>4 DEF Left
<1>4. ASSUME NEW n \in Nat, NEW m \in Nat, NEW b, NEW from, NEW q, EntryIs(n, m, b, from, q)
      PROVE  LET e == Records(b)[m + 1]
             IN  /\ m + 1 \in 1 .. Len(Records(b)) /\ e.f # -1 /\ to = from + e.to
                 /\ mk' = IF e.f = 1 THEN Says(Kind(field, 1), b, e) ELSE mk
                 /\ mv' = IF e.f = 2 THEN Says(Kind(field, 2), b, e) ELSE mv
  <2>. DEFINE e == RecordAt(b, q)
  <2>1. /\ m + 1 \in 1 .. Len(Records(b)) /\ Records(b)[m + 1] = e
        /\ e.f # -1 => e.f = num
        /\ e.f # -1 <=> n2 > 0
        /\ e.f # -1 => to = from + e.to
    BY <1>1, <1>4, EntryRecord
  <2>. HIDE DEF e, s, num, to, n2
  <2>. QED BY <1>1, <2>1
<1>. HIDE DEF to
<1>. QED BY <1>1, <1>3, <1>4, EntryStep

-----------------------------------------------------------------------------
(* An entry that is not well-formed.                                       *)
LEMMA EntryFailsReads == Inv /\ MInv /\ EntryFails => MInv'
<1>. SUFFICES ASSUME Inv, MInv, EntryFails PROVE MInv'
  OBVIOUS
<1>. DEFINE s   == EntryData
            num == FieldNum(TagAt(s, i))
            n2  == SkipField(s, After(s, i), WireType(TagAt(s, i)))
<1>1. /\ pc = "entry" /\ i < end /\ Fails
      /\ \/ VarintLen(s, i) < 0
         \/ num \in {1, 2} /\ ~Readable(Kind(field, num), s, i)
         \/ num \notin {1, 2} /\ n2 < 0
  BY DEF EntryFails
<1>2. s \in Seq(Byte) /\ Len(s) = end /\ end \in 0 .. l /\ i \in 0 .. end
  BY <1>1, EntryFacts
<1>3. VarintLen(s, i) < 0 => ~(VarintLen(s, i) > 0)
  <2>1. VarintLen(s, i) = -1 \/ VarintLen(s, i) \in 1 .. Left(s, i)
    BY <1>2, VarintStaysInside
  <2>. QED BY <2>1
<1>4. VarintLen(s, i) > 0 => n2 \in Int
  <2>. SUFFICES ASSUME VarintLen(s, i) > 0 PROVE n2 \in Int
    OBVIOUS
  <2>1. i \in 0 .. Len(s)
    BY <1>2
  <2>2. After(s, i) \in i + 1 .. Len(s) /\ WireType(TagAt(s, i)) \in 0 .. 7
    BY <1>2, <2>1, TagInside
  <2>3. After(s, i) \in 0 .. Len(s)
    BY <2>1, <2>2
  <2>4. n2 = -1 \/ n2 \in 1 .. Left(s, After(s, i))
    BY <1>2, <2>2, <2>3, SkipStaysInside
  <2>. QED BY <2>4
<1>6. field \in Map \cup Stamp \cup Span
  BY <1>1 DEF Inv, LoopOK
<1>7. ASSUME Regular(input)
      PROVE  \E k \in 1 .. Len(Records(data)) : ~Fine(data, Records(data)[k])
  <2>1. PICK n, m \in Nat : \E b, from, q : EntryIs(n, m, b, from, q)
    BY <1>1, <1>7, EntryAt
  <2>2. PICK b, from, q : EntryIs(n, m, b, from, q)
    BY <2>1
  <2>. DEFINE e == RecordAt(b, q)
              r == Records(data)[n + 1]
  <2>3. /\ m + 1 \in 1 .. Len(Records(b)) /\ Records(b)[m + 1] = e
        /\ e.f # -1 => VarintLen(s, i) > 0
        /\ VarintLen(s, i) > 0 =>
             /\ num \in {1, 2} => (e.f # -1 <=> Readable(Kind(field, num), s, i))
             /\ num \notin {1, 2} => (e.f # -1 <=> n2 > 0)
    BY <1>1, <2>2, EntryRecord
  <2>4. n + 1 \in 1 .. Len(Records(data)) /\ r.f = field /\ r.wt = 2 /\ b = BodyOf(data, r) /\ b \in Seq(Byte)
    BY <2>2 DEF EntryIs
  <2>. HIDE DEF e, r, s, num, n2
  <2>5. e.f = -1
    <3>1. CASE ~(VarintLen(s, i) > 0)
      BY <2>3, <3>1
    <3>2. CASE VarintLen(s, i) > 0 /\ num \in {1, 2} /\ ~Readable(Kind(field, num), s, i)
      BY <2>3, <3>2
    <3>4. CASE VarintLen(s, i) > 0 /\ num \notin {1, 2} /\ n2 < 0
      <4>1. ~(n2 > 0)
        BY <1>4, <3>4
      <4>. QED BY <2>3, <3>4, <4>1
    <3>5. VarintLen(s, i) < 0 => ~(VarintLen(s, i) > 0)
      BY <1>3
    <3>. QED BY <1>1, <3>1, <3>2, <3>4, <3>5
  <2>6. e \in ToSet(Records(b))
    BY <2>3, <2>4, RecordsAre
  <2>7. ~Framed(b)
    BY <2>5, <2>6 DEF Framed
  <2>8. ~Fine(data, r)
    BY <1>6, <2>4, <2>7 DEF Fine, Good, IsEntry
  <2>. QED BY <2>4, <2>8 DEF r
<1>. QED BY <1>1, <1>7, Refuses

(* At the end of an entry its record is taken.                             *)
LEMMA LeaveEntryReads == Inv /\ MInv /\ LeaveEntry => MInv'
<1>. SUFFICES ASSUME Inv, MInv, LeaveEntry PROVE MInv'
  OBVIOUS
<1>. DEFINE x == IF field \in Map THEN (mk :> mv) @@ top.out[field] ELSE <<Time(field, mk, mv)>>
<1>1. pc = "entry" /\ i >= end /\ pc' = "main" /\ UNCHANGED <<input, stack>>
  BY DEF LeaveEntry, LoopEnds
<1>2. top'.data = top.data /\ top'.i = top.i /\ top'.out = [top.out EXCEPT ![field] = x]
  BY LeaveEntryFacts
<1>3. /\ data \in Seq(Byte) /\ top.data = data /\ top.i = i /\ i = end /\ end \in Nat
      /\ field \in Map \cup Stamp \cup Span
  <2>1. i \in 0 .. end /\ end \in 0 .. l
    BY <1>1, EntryFacts
  <2>. QED BY <1>1, <2>1, Facts DEF Inv, LoopOK
<1>4. Nested'
  BY <1>1, <1>2, StillNested DEF MInv
<1>5. /\ field \in Known /\ field # -1 /\ field \notin Packed \cup Fixed \cup Num /\ field \notin Bytes /\ field \notin Msg
      /\ field \notin Map => field \notin Repeated
  <2>1. field \in Known /\ field # -1
    BY <1>3, KnownKinds
  <2>2. field \notin Packed \cup Fixed \cup Num /\ field \notin Bytes /\ field \notin Msg
    BY <1>3, OneKind
  <2>3. Repeated \subseteq Known \ (Num \cup Stamp \cup Span)
    BY DecoderAssumption
  <2>. QED BY <1>3, <2>1, <2>2, <2>3
<1>. HIDE DEF x
<1>6. ASSUME Regular(input)
      PROVE  Between(top')
  <2>1. PICK n, m \in Nat : \E b, from, q : EntryIs(n, m, b, from, q)
    BY <1>1, <1>6, EntryAt
  <2>2. PICK b, from, q : EntryIs(n, m, b, from, q)
    BY <2>1
  <2>. DEFINE r   == Records(data)[n + 1]
              old == HeldOf(data, n, field)
              items == EntryMeaning(field, b)
  <2>3. /\ r.f = field /\ r.wt = 2 /\ r.to = end /\ b = BodyOf(data, r) /\ b \in Seq(Byte) /\ n < Len(Records(data))
        /\ Taken(top, n) /\ InEntry(top, n, m, field, end, mk, mv)
        /\ m \in 0 .. Len(Records(b)) /\ q = Pos(b, m) /\ i = from + q /\ from \in 0 .. end /\ Len(b) = end - from
        /\ q \in 0 .. Len(b)
    BY <2>2 DEF EntryIs
  <2>4. /\ Holding(top, n) /\ \A k \in 1 .. m : Records(b)[k].f # -1
        /\ mk = EntryLast(field, b, m, 1) /\ mv = EntryLast(field, b, m, 2)
    BY <1>3, <2>3 DEF InEntry
  <2>5. m = Len(Records(b))
    <3>1. q = Len(b)
      <4>1. /\ i = end /\ end \in Nat /\ i = from + q /\ from \in 0 .. end /\ Len(b) = end - from
            /\ q \in 0 .. Len(b)
        BY <1>3, <2>3
      <4>2. from \in Int /\ end \in Int
        BY <4>1
      <4>3. end - from \in Int /\ q \in 0 .. end - from
        BY <4>1, <4>2
      <4>4. q \in Int
        BY <4>3
      <4>5. end = from + q
        BY <4>1
      <4>6. q = end - from
        BY <4>2, <4>4, <4>5
      <4>. QED BY <4>1, <4>6
    <3>. QED BY <2>3, <3>1, PosInside
  <2>6. Framed(b)
    BY <2>3, <2>4, <2>5, RecordsAre DEF Framed
  <2>7. items = IF field \in Map THEN mk :> mv ELSE <<Time(field, mk, mv)>>
    BY <2>4, <2>5 DEF EntryMeaning, EntryOf
  <2>8. IsEntry(r) /\ Items(data, r, Inners(data)) = items
    <3>1. IsEntry(r)
      BY <1>3, <2>3 DEF IsEntry
    <3>. QED BY <2>3, <3>1, ItemsAre
  <2>. HIDE DEF r, items
  <2>9. Fine(data, r)
    <3>1. WireTypes(field) = {2}
      BY <1>5, WireTypesAre
    <3>. QED BY <1>5, <2>3, <2>6, <3>1, DigestsAreBytes DEF Fine, Good, IsNested
  <2>10. top.out[field] = old /\ IsFields(top.out) /\ \A g \in Known : top.out[g] = HeldOf(data, n, g)
    BY <1>3, <1>5, <2>4 DEF Holding
  <2>11. DOMAIN top.out = Known
    BY <2>10 DEF IsFields
  <2>12. top'.out = [g \in Known |-> top'.out[g]] /\ top'.out[field] = x /\ \A g \in Known \ {field} : top'.out[g] = top.out[g]
    BY <1>2, <1>5, <2>11
  <2>13. x = Holds(field, old, items)
    <3>1. CASE field \in Map
      BY <2>7, <2>10, <3>1 DEF x, Holds
    <3>2. CASE field \notin Map
      <4>1. <<>> \o <<Time(field, mk, mv)>> = <<Time(field, mk, mv)>>
        <5>. DEFINE t == Time(field, mk, mv)
        <5>1. <<t>> \in Seq({t})
          OBVIOUS
        <5>. HIDE DEF t
        <5>2. <<>> \o <<t>> = <<t>>
          BY <5>1
        <5>. QED BY <5>2 DEF t
      <4>. QED BY <1>5, <2>7, <3>2, <4>1 DEF x, Holds
    <3>. QED BY <3>1, <3>2
  <2>14. IsFields(top'.out)
    <3>1. field \notin Map => IsSeq(x)
      <4>. SUFFICES ASSUME field \notin Map PROVE IsSeq(x)
        OBVIOUS
      <4>. DEFINE t == Time(field, mk, mv)
      <4>1. x = <<t>>
        BY DEF x
      <4>. HIDE DEF t
      <4>2. <<t>> \in Seq({t})
        OBVIOUS
      <4>. QED BY <4>1, <4>2 DEF IsSeq
    <3>2. \A g \in Known \ Map : IsSeq(top'.out[g])
      BY <2>10, <2>12, <3>1 DEF IsFields
    <3>. QED BY <2>12, <3>2 DEF IsFields
  <2>15. \A g \in Known :
           top'.out[g] = IF r.f = g THEN Holds(g, HeldOf(data, n, g), Items(data, r, Inners(data)))
                         ELSE HeldOf(data, n, g)
    BY <2>3, <2>8, <2>10, <2>12, <2>13
  <2>16. top'.i = r.to
    BY <1>2, <1>3, <2>3
  <2>17. /\ top.data \in Seq(Byte) /\ top'.data = top.data /\ n < Len(Records(top.data))
         /\ r = Records(top.data)[n + 1] /\ Fine(top.data, r) /\ Taken(top, n)
    BY <1>2, <1>3, <2>3, <2>9 DEF r
  <2>18. \A g \in Known :
           top'.out[g] = IF r.f = g THEN Holds(g, HeldOf(top.data, n, g), Items(top.data, r, Inners(top.data)))
                         ELSE HeldOf(top.data, n, g)
    BY <1>3, <2>15
  <2>. HIDE DEF r
  <2>. QED BY <2>14, <2>16, <2>17, <2>18, TakesOneMore
<1>7. Regular(input)' = Regular(input)
  BY <1>1 DEF Regular
<1>8. Reached'
  <2>1. Regular(input) => Between(top)'
    BY <1>6 DEF Between, Taken, Holding
  <2>. QED BY <1>1, <1>7, <2>1 DEF Reached
<1>. QED BY <1>4, <1>8 DEF MInv

-----------------------------------------------------------------------------
(* A call that is at the end of its slice holds what that means.           *)
LEMMA AllTaken ==
  ASSUME NEW c, c.data \in Seq(Byte), Between(c), c.i = Len(c.data)
  PROVE  Accepted(c.data) /\ c.out = Meaning[c.data].out
<1>. DEFINE N == Len(Records(c.data))
<1>1. PICK n \in Nat : Taken(c, n) /\ c.i = Pos(c.data, n) /\ Holding(c, n)
  BY DEF Between
<1>2. n = N
  <2>1. n \in 0 .. N
    BY <1>1 DEF Taken
  <2>. QED BY <1>1, <2>1, PosInside
<1>3. \A k \in 1 .. N : Fine(c.data, Records(c.data)[k])
  BY <1>1, <1>2 DEF Taken
<1>4. Accepted(c.data) /\ Meaning[c.data].out = [f \in Known |-> HeldOf(c.data, N, f)]
  BY <1>3, Understood
<1>5. c.out = [f \in Known |-> c.out[f]] /\ \A f \in Known : c.out[f] = HeldOf(c.data, N, f)
  BY <1>1, <1>2 DEF Holding, IsFields
<1>. HIDE DEF N
<1>6. c.out = [f \in Known |-> HeldOf(c.data, N, f)]
  BY <1>5
<1>. QED BY <1>4, <1>6

(* A nested message is entered ...                                         *)
LEMMA EnterReads ==
  ASSUME Inv, MInv, NEW f \in Known, Arm(f), Enter(f)
  PROVE  MInv'
<1>. DEFINE r    == RecordAt(data, i)
            m    == Len(stack)
            call == [top EXCEPT !.i = Body(data, i)]
            from == Body(data, i)
            to   == BodyEnd(data, i)
            b    == Cut(data, from, to)
<1>1. /\ pc = "main" /\ i < l /\ (r.f # -1 => r.f = f) /\ r.wt = Wt
      /\ Wt = 2 => (r.f # -1 <=> Fits(data, i))
      /\ data \in Seq(Byte) /\ l = Len(data) /\ i \in 0 .. Len(data) - 1
      /\ f # -1
  BY ArmFacts
<1>2. f \in Msg /\ Wt = 2 /\ Fits(data, i) /\ input' = input
  BY DEF Enter
<1>3. r.f = f /\ r.f # -1 /\ r.wt = 2 /\ IsNested(r)
  BY <1>1, <1>2 DEF IsNested
<1>4. /\ m \in Nat /\ DOMAIN stack = 1 .. m
      /\ Len(stack') = m + 1 /\ DOMAIN stack' = 1 .. m + 1
      /\ stack'[m + 1].f = f /\ stack'[m + 1].call = call
      /\ \A k : k = m + 1 => Inner(k)' = top'
      /\ call.data = top.data /\ call.out = top.out /\ call.i = from
      /\ \A k \in 1 .. m : stack'[k] = stack[k] /\ Inner(k)'.data = Inner(k).data
  BY EnterStack
<1>5. /\ from \in i .. l /\ to \in from .. l /\ Len(b) = to - from /\ b \in Seq(Byte)
      /\ \E nils \in SUBSET Elems : top' = Frame(b, top.off + from, nils) /\ pc' = Start(nils)
  BY EnterSlice
<1>6. BodyOf(data, r) = b
  BY <1>1, <1>3, BodyCut
<1>. HIDE DEF r, m, call, from, to, b
<1>7. top'.data = b /\ Between(top') /\ pc' \in {"prescan", "main"}
  <2>1. PICK nils \in SUBSET Elems : top' = Frame(b, top.off + from, nils) /\ pc' = Start(nils)
    BY <1>5
  <2>2. top'.data = b
    BY <2>1 DEF Frame
  <2>3. Between(top')
    BY <1>5, <2>1, NewBetween
  <2>. QED BY <2>1, <2>2, <2>3 DEF Start
<1>8. Inner(0)'.data = Inner(0).data
  <2>1. CASE m = 0
    <3>1. Inner(0) = top /\ Inner(0)' = call
      BY <1>4, <2>1 DEF Inner, m
    <3>. QED BY <1>4, <3>1
  <2>2. CASE m # 0
    <3>1. m + 1 # 0 /\ 0 + 1 \in 1 .. m
      BY <1>4, <2>2
    <3>2. Inner(0) = stack[0 + 1].call /\ Inner(0)' = stack'[0 + 1].call
      BY <1>4, <2>2, <3>1 DEF Inner, m
    <3>. QED BY <1>4, <3>1, <3>2
  <2>. QED BY <2>1, <2>2
<1>9. \A k \in 0 .. m : Inner(k)'.data = Inner(k).data
  <2>1. \A k \in 0 .. m : k = 0 \/ k \in 1 .. m
    BY <1>4
  <2>. QED BY <1>4, <1>8, <2>1
<1>10. Regular(input)' = Regular(input) /\ Accepted(input)' = Accepted(input)
  BY <1>2 DEF Regular, Accepted
<1>11. ASSUME Regular(input)
       PROVE  /\ \A k \in 0 .. m + 1 : /\ Regular(Inner(k)'.data)
                                       /\ Accepted(input) => Accepted(Inner(k)'.data)
              /\ \A k \in 1 .. m + 1 : Nests(k)'
  <2>1. PICK n \in Nat : /\ Taken(top, n) /\ Holding(top, n) /\ n < Len(Records(data))
                         /\ n + 1 \in 1 .. Len(Records(data)) /\ Records(data)[n + 1] = r
    BY <1>1, <1>11, MainBetween DEF r
  <2>2. Regular(b) /\ (Accepted(input) => Accepted(b))
    <3>1. IsNested(Records(data)[n + 1]) => Regular(BodyOf(data, Records(data)[n + 1]))
      BY <1>11, <2>1, Facts
    <3>2. Accepted(input) => Fine(data, Records(data)[n + 1])
      BY <1>11, <2>1, Facts
    <3>. QED BY <1>3, <1>6, <2>1, <3>1, <3>2 DEF Fine
  <2>3. \A k \in 0 .. m : Regular(Inner(k).data) /\ (Accepted(input) => Accepted(Inner(k).data))
    BY <1>11 DEF MInv, Nested, m
  <2>4. ASSUME NEW k \in 0 .. m + 1
        PROVE  Regular(Inner(k)'.data) /\ (Accepted(input) => Accepted(Inner(k)'.data))
    <3>1. CASE k \in 0 .. m
      BY <1>9, <2>3, <3>1
    <3>2. CASE k = m + 1
      BY <1>4, <1>7, <2>2, <3>2
    <3>. QED BY <1>4, <3>1, <3>2
  <2>5. ASSUME NEW k \in 1 .. m
        PROVE  Nests(k)'
    <3>1. Nests(k)
      BY <1>4, <1>11 DEF MInv, Nested
    <3>2. stack'[k] = stack[k] /\ Inner(k)'.data = Inner(k).data
      BY <1>4
    <3>. QED BY <3>1, <3>2 DEF Nests
  <2>6. ASSUME NEW k, k = m + 1
        PROVE  Nests(k)'
    <3>1. top.data = data
      BY Facts
    <3>2. InBody(call, n, f, to)
      BY <1>1, <1>3, <1>4, <2>1, <3>1, EntersBody DEF r, from, to, Taken
    <3>3. to = from + Len(b)
      BY <1>5
    <3>4. Inner(k)'.data = b /\ stack'[k].f = f /\ stack'[k].call = call
      BY <1>4, <1>7, <2>6
    <3>5. InBody(call, n, f, call.i + Len(b)) /\ Holding(call, n) /\ b = BodyOf(call.data, Records(call.data)[n + 1])
      BY <1>4, <1>6, <2>1, <3>1, <3>2, <3>3 DEF Holding
    <3>. QED BY <3>4, <3>5 DEF Nests
  <2>7. \A k \in 1 .. m + 1 : k \in 1 .. m \/ k = m + 1
    BY <1>4
  <2>. QED BY <2>4, <2>5, <2>6, <2>7
<1>12. Nested'
  <2>1. Inner(0).data = input
    BY DEF MInv, Nested
  <2>. QED BY <1>2, <1>4, <1>8, <1>10, <1>11, <2>1 DEF Nested
<1>13. Reached'
  <2>1. Between(top)'
    BY <1>7 DEF Between, Taken, Holding
  <2>. QED BY <1>7, <2>1 DEF Reached
<1>. QED BY <1>12, <1>13 DEF MInv

-----------------------------------------------------------------------------
(* ... and taken by its caller.                                            *)
LEMMA MessageTaken ==
  ASSUME NEW c, NEW d, c.data \in Seq(Byte), d.data = c.data, NEW n \in Nat, NEW f \in Msg, NEW s \in Seq(Byte),
         InBody(c, n, f, c.i + Len(s)), Holding(c, n), s = BodyOf(c.data, Records(c.data)[n + 1]),
         Accepted(s), d.i = c.i + Len(s), d.out = Stored(c.out, f, Meaning[s].out)
  PROVE  Between(d)
<1>. DEFINE r == Records(c.data)[n + 1]
            x == Meaning[s].out
<1>1. /\ f \in Known \ Map /\ f # -1 /\ f \notin Packed \cup Fixed \cup Num /\ f \notin Bytes
      /\ f \notin Map \cup Stamp \cup Span
  BY KnownKinds, OneKind
<1>2. /\ Taken(c, n) /\ n < Len(Records(c.data)) /\ r.f = f /\ r.wt = 2 /\ r.to = c.i + Len(s)
      /\ IsFields(c.out) /\ \A g \in Known : c.out[g] = HeldOf(c.data, n, g)
  BY DEF InBody, Holding
<1>3. IsNested(r) /\ s \in Children(c.data)
  <2>1. n + 1 \in 1 .. Len(Records(c.data))
    <3>1. Len(Records(c.data)) \in Nat
      BY RecordsAre
    <3>. QED BY <1>2, <3>1
  <2>2. r \in ToSet(Records(c.data))
    BY <2>1, RecordsAre
  <2>. QED BY <1>2, <2>2 DEF IsNested, Children
<1>4. Fine(c.data, r)
  <2>1. WireTypes(f) = {2}
    BY <1>1, WireTypesAre
  <2>. QED BY <1>1, <1>2, <2>1, DigestsAreBytes DEF Fine, Good, IsEntry
<1>5. Items(c.data, r, Inners(c.data)) = <<x>>
  <2>1. Items(c.data, r, Inners(c.data)) = <<Inners(c.data)[BodyOf(c.data, r)].out>>
    BY <1>2, ItemsAre
  <2>2. Inners(c.data)[s] = Meaning[s]
    BY <1>3 DEF Inners
  <2>. QED BY <2>1, <2>2
<1>. HIDE DEF r, x
<1>6. /\ IsFields(d.out)
      /\ \A g \in Known : d.out[g] = IF g = f THEN Holds(f, c.out[f], <<x>>) ELSE c.out[g]
  <2>. DEFINE out == c.out
  <2>1. d.out = Stored(out, f, x) /\ IsFields(out)
    BY <1>2 DEF x
  <2>. HIDE DEF out
  <2>2. /\ IsFields(Stored(out, f, x))
        /\ \A g \in Known : Stored(out, f, x)[g] = IF g = f THEN Holds(f, out[f], <<x>>) ELSE out[g]
    BY <1>1, <2>1, StoredHolds
  <2>3. \A g \in Known : d.out[g] = IF g = f THEN Holds(f, out[f], <<x>>) ELSE out[g]
    BY <2>1, <2>2
  <2>. QED BY <2>1, <2>2, <2>3 DEF out
<1>7. \A g \in Known :
        d.out[g] = IF r.f = g THEN Holds(g, HeldOf(c.data, n, g), Items(c.data, r, Inners(c.data)))
                   ELSE HeldOf(c.data, n, g)
  BY <1>2, <1>5, <1>6
<1>. QED BY <1>2, <1>4, <1>6, <1>7, TakesOneMore DEF r

LEMMA ReturnReads == Inv /\ MInv /\ Return => MInv'
<1>. SUFFICES ASSUME Inv, MInv, Return PROVE MInv'
  OBVIOUS
<1>. DEFINE m == Len(stack)
            c == stack[m].call
<1>1. pc = "main" /\ i >= l /\ stack # <<>> /\ pc' = "main" /\ input' = input
  BY DEF Return
<1>2. /\ m \in Nat /\ m >= 1 /\ DOMAIN stack = 1 .. m
      /\ Len(stack') = m - 1 /\ DOMAIN stack' = 1 .. m - 1
      /\ stack[m].f \in Msg /\ IsCall(c) /\ Inner(m) = top
      /\ top'.data = c.data
      /\ top'.out = Stored(c.out, stack[m].f, top.out) /\ top'.i = c.i + l
      /\ \A k \in 1 .. m - 1 : stack'[k] = stack[k] /\ Inner(k)'.data = Inner(k).data
  BY ReturnFacts
<1>3. data \in Seq(Byte) /\ l = Len(data) /\ top.data = data /\ top.i = i /\ i = l /\ c.data \in Seq(Byte)
  BY <1>1, <1>2, Facts DEF IsCall
<1>4. Inner(0)'.data = Inner(0).data
  <2>1. CASE m = 1
    <3>1. Inner(0)' = top' /\ Inner(0) = c
      BY <1>2, <2>1 DEF Inner
    <3>. QED BY <1>2, <3>1
  <2>2. CASE m # 1
    <3>1. 0 # m /\ 0 # m - 1 /\ 0 + 1 \in 1 .. m - 1
      BY <1>2, <2>2
    <3>2. Inner(0) = stack[0 + 1].call /\ Inner(0)' = stack'[0 + 1].call
      BY <1>2, <3>1 DEF Inner
    <3>. QED BY <1>2, <3>1, <3>2
  <2>. QED BY <2>1, <2>2
<1>. HIDE DEF m, c
<1>5. \A k \in 0 .. m - 1 : Inner(k)'.data = Inner(k).data
  <2>1. \A k \in 0 .. m - 1 : k = 0 \/ k \in 1 .. m - 1
    BY <1>2
  <2>. QED BY <1>2, <1>4, <2>1
<1>6. Regular(input)' = Regular(input) /\ Accepted(input)' = Accepted(input)
  BY <1>1 DEF Regular, Accepted
<1>7. Nested'
  <2>1. Inner(0).data = input
    BY DEF MInv, Nested
  <2>2. ASSUME Regular(input), NEW k \in 0 .. m - 1
        PROVE  Regular(Inner(k)'.data) /\ (Accepted(input) => Accepted(Inner(k)'.data))
    <3>1. k \in 0 .. m
      BY <1>2
    <3>2. Regular(Inner(k).data) /\ (Accepted(input) => Accepted(Inner(k).data))
      BY <2>2, <3>1 DEF MInv, Nested, m
    <3>. QED BY <1>5, <3>2
  <2>3. ASSUME Regular(input), NEW k \in 1 .. m - 1
        PROVE  Nests(k)'
    <3>1. k \in 1 .. m
      BY <1>2
    <3>2. Nests(k)
      BY <1>2, <2>3, <3>1 DEF MInv, Nested
    <3>3. stack'[k] = stack[k] /\ Inner(k)'.data = Inner(k).data
      BY <1>2
    <3>. QED BY <3>2, <3>3 DEF Nests
  <2>. QED BY <1>1, <1>2, <1>4, <1>6, <2>1, <2>2, <2>3 DEF Nested
<1>8. ASSUME Regular(input)
      PROVE  Between(top')
  <2>1. Nests(m)
    BY <1>2, <1>8 DEF MInv, Nested
  <2>. DEFINE f == stack[m].f
  <2>2. PICK n \in Nat : /\ InBody(c, n, f, c.i + Len(data)) /\ Holding(c, n)
                         /\ data = BodyOf(c.data, Records(c.data)[n + 1])
    BY <1>2, <1>3, <2>1 DEF Nests, c
  <2>3. Between(top) /\ top.i = Len(top.data)
    BY <1>1, <1>3, <1>8 DEF MInv, Reached
  <2>4. Accepted(data) /\ top.out = Meaning[data].out
    BY <1>3, <2>3, AllTaken
  <2>. HIDE DEF f
  <2>5. f \in Msg /\ top'.out = Stored(c.out, f, Meaning[data].out) /\ top'.i = c.i + Len(data)
    BY <1>2, <1>3, <2>4 DEF f
  <2>. QED BY <1>2, <1>3, <2>2, <2>4, <2>5, MessageTaken
<1>9. Reached'
  <2>1. Regular(input) => Between(top)'
    BY <1>8 DEF Between, Taken, Holding
  <2>. QED BY <1>1, <1>6, <2>1 DEF Reached
<1>. QED BY <1>7, <1>9 DEF MInv

-----------------------------------------------------------------------------
(* The other steps.                                                        *)
LEMMA PrescanReads == Inv /\ MInv /\ (PrescanStep \/ PrescanEnd) => MInv'
<1>. SUFFICES ASSUME Inv, MInv, PrescanStep \/ PrescanEnd PROVE MInv'
  OBVIOUS
<1>1. pc = "prescan" /\ pc' \in {"prescan", "main"} /\ UNCHANGED <<input, stack>>
  BY DEF PrescanStep, PrescanEnd
<1>2. top'.data = top.data /\ top'.i = top.i /\ top'.out = top.out
  BY PrescanFacts DEF PrescanEnd
<1>3. Nested'
  BY <1>1, <1>2, StillNested DEF MInv
<1>4. Regular(input) => Between(top')
  BY <1>1, <1>2, SameBetween DEF MInv, Reached
<1>5. Regular(input)' = Regular(input)
  BY <1>1 DEF Regular
<1>6. Reached'
  <2>1. Regular(input) => Between(top)'
    BY <1>4 DEF Between, Taken, Holding
  <2>. QED BY <1>1, <1>5, <2>1 DEF Reached
<1>. QED BY <1>3, <1>6 DEF MInv

LEMMA FinishReads == Inv /\ MInv /\ Finish => MInv'
<1>. SUFFICES ASSUME Inv, MInv, Finish PROVE MInv'
  OBVIOUS
<1>1. pc = "main" /\ i >= l /\ stack = <<>> /\ pc' = "ok" /\ UNCHANGED <<input, stack, top>>
  BY DEF Finish
<1>2. data \in Seq(Byte) /\ l = Len(data) /\ top.data = data /\ top.i = i /\ i = l
  BY <1>1, Facts
<1>3. Nested'
  BY <1>1, StillNested DEF MInv
<1>4. data = input
  <2>1. Inner(0) = top
    BY <1>1 DEF Inner
  <2>. QED BY <1>2, <2>1 DEF MInv, Nested
<1>5. ASSUME Regular(input)
      PROVE  Accepted(input) /\ top.out = Meaning[input].out
  <2>1. Between(top) /\ top.data \in Seq(Byte) /\ top.i = Len(top.data)
    BY <1>1, <1>2, <1>5 DEF MInv, Reached
  <2>. QED BY <1>2, <1>4, <2>1, AllTaken
<1>6. Regular(input)' = Regular(input) /\ Accepted(input)' = Accepted(input)
  BY <1>1 DEF Regular, Accepted
<1>7. Reached'
  BY <1>1, <1>5, <1>6 DEF Reached
<1>. QED BY <1>3, <1>7 DEF MInv

LEMMA InitReads == Inv /\ Init => MInv
<1>. SUFFICES ASSUME Inv, Init PROVE MInv
  OBVIOUS
<1>1. /\ stack = <<>> /\ input \in Seq(Byte)
      /\ \E nils \in SUBSET Elems : top = Frame(input, 0, nils) /\ pc = Start(nils)
  BY DEF Init, Inv
<1>2. PICK nils \in SUBSET Elems : top = Frame(input, 0, nils) /\ pc = Start(nils)
  BY <1>1
<1>3. Between(top) /\ top.data = input
  BY <1>1, <1>2, NewBetween DEF Frame
<1>4. pc \in {"prescan", "main"}
  BY <1>2 DEF Start
<1>5. Reached
  BY <1>3, <1>4 DEF Reached
<1>6. Nested
  <2>1. Len(stack) = 0 /\ DOMAIN stack = {}
    BY <1>1
  <2>2. Inner(0) = top /\ \A k \in 0 .. Len(stack) : k = 0
    BY <2>1 DEF Inner
  <2>. QED BY <1>3, <2>1, <2>2 DEF Nested
<1>. QED BY <1>5, <1>6 DEF MInv

LEMMA NextReads == Inv /\ RInv /\ MInv /\ [Next]_vars => MInv'
<1>. SUFFICES ASSUME Inv, RInv, MInv, [Next]_vars PROVE MInv'
  OBVIOUS
<1>1. CASE PrescanStep \/ PrescanEnd
  BY <1>1, PrescanReads
<1>2. CASE BadTag \/ Unknown
  BY <1>2, BadTagReads, UnknownReads
<1>3. ASSUME NEW f \in Known, ReadField(f)
      PROVE  MInv'
  <2>1. Arm(f)
    BY <1>3 DEF ReadField
  <2>2. CASE WrongWireType(f) \/ BadBody(f)
    BY <2>1, <2>2, RefusesReads
  <2>3. CASE Varint(f)
    BY <2>1, <2>3, VarintReads
  <2>4. CASE FixedWidth(f)
    BY <2>1, <2>4, FixedReads
  <2>5. CASE TextField(f) \/ BytesField(f)
    BY <2>1, <2>5, TextReads
  <2>6. CASE EnterRun(f)
    BY <2>1, <2>6, EnterRunReads
  <2>7. CASE EnterEntry(f)
    BY <2>1, <2>7, EnterEntryReads
  <2>8. CASE Enter(f)
    BY <2>1, <2>8, EnterReads
  <2>. QED BY <1>3, <2>2, <2>3, <2>4, <2>5, <2>6, <2>7, <2>8 DEF ReadField
<1>4. CASE VarintRun \/ FixedRun \/ LeaveRun
  BY <1>4, VarintRunReads, FixedRunReads, LeaveRunReads
<1>5. CASE EntryFails \/ EntryKey \/ EntryValue \/ EntryUnknown \/ LeaveEntry
  BY <1>5, EntryFailsReads, EntryScalarReads, EntryUnknownReads, LeaveEntryReads
<1>6. CASE Return
  BY <1>6, ReturnReads
<1>7. CASE Finish
  BY <1>7, FinishReads
<1>8. CASE UNCHANGED vars
  <2>1. UNCHANGED <<input, pc, top, stack, field, end, mk, mv>>
    BY <1>8 DEF vars
  <2>2. Nested'
    BY <2>1, StillNested DEF MInv
  <2>3. Reached'
    BY <2>1 DEF MInv, Reached, Regular, Accepted, Between, InRun, InEntry, InBody, Taken, Holding
  <2>. QED BY <2>2, <2>3 DEF MInv
<1>. QED BY <1>1, <1>2, <1>3, <1>4, <1>5, <1>6, <1>7, <1>8 DEF Next

LEMMA InvParse == MInv => DecodeIsParse
BY DEF MInv, Reached, DecodeIsParse, Regular, Accepted

(* UnmarshalCodec accepts the inputs that are proto3 for the type, rejects *)
(* all others, and decodes each field to what its records say.             *)
THEOREM ParsesInput == Spec => []DecodeIsParse
<1>1. Init => Inv /\ RInv /\ MInv
  BY InitInv, InitRecords, InitReads
<1>2. Inv /\ RInv /\ MInv /\ [Next]_vars => (Inv /\ RInv /\ MInv)'
  BY NextInv, NextRecords, NextReads
<1>. QED BY <1>1, <1>2, InvParse, PTL DEF Spec

=============================================================================
