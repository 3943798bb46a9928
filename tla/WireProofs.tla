----------------------------- MODULE WireProofs -----------------------------
(***************************************************************************)
(* The wire primitives for every width, so for the ones of the code: what  *)
(* EncodeVarint writes DecodeVarint reads back, anywhere in a buffer;      *)
(* ZigzagDecode undoes ZigzagEncode; SkipField stays inside the buffer.    *)
(* And what Proto reads: the records of a buffer one behind the other, and *)
(* of bytes that were put together from records, or from the elements of a *)
(* packed body, these.                                                     *)
(*                                                                         *)
(* Both directions are recursive functions.  Induction goes by the least   *)
(* counterexample: a set of numbers that is not empty has a least element, *)
(* and below that one the claim holds.                                     *)
(***************************************************************************)
EXTENDS Proto, Induction, SequenceTheorems

LEMMA Widths ==
  /\ Base \in Nat /\ Base >= 8 /\ Word \in Nat /\ Word > 0
  /\ MaxVarintLen \in Nat /\ Width8 \in Nat /\ Width4 \in Nat /\ Width8 > 0 /\ Width4 > 0
<1>1. Base \in Nat \ {0} /\ Base % 8 = 0
  BY WireAssumption
<1>2. Base >= 8
  BY <1>1
<1>. QED BY <1>1, <1>2, WireAssumption

LEMMA DivSmaller ==
  ASSUME NEW x \in Nat, x >= Base
  PROVE  x \div Base \in Nat /\ x \div Base < x
<1>1. x \div Base \in Int /\ Base * (x \div Base) <= x /\ x < Base * (x \div Base + 1)
  BY Widths, Z3
<1>. DEFINE q == x \div Base
<1>. HIDE DEF q
<1>2. q \in Int /\ Base * q <= x /\ x < Base * (q + 1)
  BY <1>1 DEF q
<1>3. q >= 0
  BY <1>2, Widths, Z3
<1>4. q < x
  BY <1>2, <1>3, Widths, Z3
<1>. QED BY <1>2, <1>3, <1>4 DEF q

LEMMA DivMod ==
  ASSUME NEW x \in Nat
  PROVE  /\ x \div Base \in Nat
         /\ x % Base \in 0 .. Base - 1
         /\ x = (x % Base) + Base * (x \div Base)
         /\ (Base + (x % Base)) % Base = x % Base
BY Widths, Z3

-----------------------------------------------------------------------------
(* EncodeVarint[x] is its definition's right-hand side: the function that  *)
(* the definition speaks of exists, up to any bound.                       *)
Encoding(g, x) == IF x < Base THEN <<x>> ELSE <<Base + (x % Base)>> \o g[x \div Base]
UpTo(n, g) == g = [x \in 0 .. n |-> Encoding(g, x)]

LEMMA EncodersExist == \A n \in Nat : \E g : UpTo(n, g)
<1>. DEFINE T == {n \in Nat : ~ \E g : UpTo(n, g)}
<1>1. ASSUME T # {}
      PROVE  FALSE
  <2>1. PICK n \in T : \A y \in T : n <= y
    BY <1>1, Least
  <2>2. n \in Nat /\ ~ \E g : UpTo(n, g)
    BY <2>1
  <2>3. CASE n = 0
    <3>. DEFINE g == [x \in 0 .. 0 |-> <<0>>]
    <3>1. Encoding(g, 0) = <<0>>
      BY Widths DEF Encoding
    <3>2. UpTo(0, g)
      <4>1. \A x \in 0 .. 0 : x = 0
        OBVIOUS
      <4>. QED BY <3>1, <4>1 DEF UpTo
    <3>. QED BY <3>2, <2>2, <2>3
  <2>4. CASE n > 0
    <3>1. n - 1 \in Nat /\ n - 1 \notin T
      BY <2>1, <2>2, <2>4
    <3>2. PICK h : UpTo(n - 1, h)
      BY <3>1
    <3>. DEFINE g == [x \in 0 .. n |-> IF x < n THEN h[x] ELSE Encoding(h, n)]
    <3>3. ASSUME NEW x \in 0 .. n
          PROVE  g[x] = Encoding(g, x)
      <4>1. g[x] = Encoding(h, x)
        <5>1. CASE x = n
          BY <5>1, <2>2
        <5>2. CASE x # n
          <6>1. x \in 0 .. n - 1 /\ x < n
            BY <5>2, <2>2
          <6>2. h[x] = Encoding(h, x)
            BY <3>2, <6>1, Zenon DEF UpTo
          <6>. QED BY <6>1, <6>2
        <5>. QED BY <5>1, <5>2
      <4>2. CASE x < Base
        BY <4>1, <4>2 DEF Encoding
      <4>3. CASE ~(x < Base)
        <5>1. x \in Nat /\ x >= Base
          BY <4>3, Widths, <2>2
        <5>2. x \div Base \in Nat /\ x \div Base < x
          BY <5>1, DivSmaller
        <5>. DEFINE q == x \div Base
        <5>. HIDE DEF q
        <5>3. q \in 0 .. n /\ q < n
          BY <5>2, <2>2 DEF q
        <5>4. g[q] = h[q]
          BY <5>3
        <5>5. Encoding(g, x) = Encoding(h, x)
          <6>. HIDE DEF g
          <6>1. Encoding(g, x) = <<Base + (x % Base)>> \o g[q]
            BY <4>3, Zenon DEF Encoding, q
          <6>2. Encoding(h, x) = <<Base + (x % Base)>> \o h[q]
            BY <4>3, Zenon DEF Encoding, q
          <6>. QED BY <5>4, <6>1, <6>2
        <5>. QED BY <4>1, <5>5
      <4>. QED BY <4>2, <4>3
    <3>4. UpTo(n, g)
      <4>. HIDE DEF g
      <4>1. \A x \in 0 .. n : g[x] = Encoding(g, x)
        BY <3>3
      <4>2. g = [x \in 0 .. n |-> g[x]]
        BY DEF g
      <4>. QED BY <4>1, <4>2, Zenon DEF UpTo
    <3>. QED BY <3>4, <2>2
  <2>. QED BY <2>2, <2>3, <2>4
<1>. QED BY <1>1

LEMMA EncodeVarintDef ==
  \A x \in 0 .. Word - 1 : EncodeVarint[x] = Encoding(EncodeVarint, x)
<1>1. Word - 1 \in Nat
  BY Widths
<1>2. PICK g : UpTo(Word - 1, g)
  BY <1>1, EncodersExist
<1>3. g = [x \in 0 .. Word - 1 |->
             IF x < Base THEN <<x>> ELSE <<Base + (x % Base)>> \o g[x \div Base]]
  BY <1>2 DEF UpTo, Encoding
<1>4. EncodeVarint = [x \in 0 .. Word - 1 |->
         IF x < Base THEN <<x>> ELSE <<Base + (x % Base)>> \o EncodeVarint[x \div Base]]
  BY <1>3 DEF EncodeVarint
<1>. QED BY <1>4, Zenon DEF Encoding

(* What EncodeVarint returns: bytes that continue, and one that ends.      *)
IsVarint(e) ==
  /\ e \in Seq(Byte) /\ Len(e) >= 1
  /\ e[Len(e)] < Base
  /\ \A k \in 1 .. Len(e) - 1 : e[k] >= Base

LEMMA OneByte ==
  ASSUME NEW x \in 0 .. Word - 1, x < Base
  PROVE  EncodeVarint[x] = <<x>>
BY EncodeVarintDef DEF Encoding

LEMMA ManyBytes ==
  ASSUME NEW x \in 0 .. Word - 1, ~(x < Base)
  PROVE  /\ x \div Base \in 0 .. Word - 1 /\ x \div Base < x
         /\ EncodeVarint[x] = <<Base + (x % Base)>> \o EncodeVarint[x \div Base]
<1>1. x \in Nat /\ x >= Base
  BY Widths
<1>2. x \div Base \in Nat /\ x \div Base < x
  BY <1>1, DivSmaller
<1>3. x \div Base \in 0 .. Word - 1
  <2>. DEFINE q == x \div Base
  <2>1. q \in Nat /\ q < x
    BY <1>2
  <2>. HIDE DEF q
  <2>2. q \in 0 .. Word - 1
    BY <2>1, Widths
  <2>. QED BY <2>2 DEF q
<1>. QED BY <1>2, <1>3, EncodeVarintDef DEF Encoding

LEMMA EncodesAVarint == \A x \in 0 .. Word - 1 : IsVarint(EncodeVarint[x])
<1>. DEFINE T == {x \in 0 .. Word - 1 : ~IsVarint(EncodeVarint[x])}
<1>1. ASSUME T # {}
      PROVE  FALSE
  <2>0. T \in SUBSET Nat
    BY Widths
  <2>. HIDE DEF T
  <2>1. PICK x \in T : \A y \in T : x <= y
    BY <1>1, <2>0, Least
  <2>. USE DEF T
  <2>2. x \in 0 .. Word - 1 /\ x \in Nat /\ ~IsVarint(EncodeVarint[x])
    BY <2>1, Widths
  <2>3. CASE x < Base
    <3>1. x \in Byte
      BY <2>2, <2>3, Widths DEF Byte
    <3>2. IsVarint(<<x>>)
      BY <2>3, <3>1 DEF IsVarint
    <3>. QED BY <2>2, <2>3, <3>2, OneByte
  <2>4. CASE ~(x < Base)
    <3>. DEFINE q == x \div Base
                b == Base + (x % Base)
    <3>1. q \in 0 .. Word - 1 /\ q < x /\ EncodeVarint[x] = <<b>> \o EncodeVarint[q]
      BY <2>2, <2>4, ManyBytes
    <3>2. b \in Byte /\ b >= Base
      <4>. DEFINE r == x % Base
      <4>1. r \in 0 .. Base - 1
        BY <2>2, DivMod
      <4>. HIDE DEF r
      <4>2. Base + r \in Byte /\ Base + r >= Base
        BY <4>1, Widths DEF Byte
      <4>. QED BY <4>2 DEF r
    <3>. HIDE DEF q, b
    <3>3. IsVarint(EncodeVarint[q])
      BY <2>1, <2>2, <3>1, Widths
    <3>4. ASSUME NEW e, IsVarint(e)
          PROVE  IsVarint(<<b>> \o e)
      <4>. DEFINE f == <<b>> \o e
      <4>1. e \in Seq(Byte) /\ Len(e) \in Nat /\ Len(e) >= 1
        BY <3>4 DEF IsVarint
      <4>2. f \in Seq(Byte) /\ Len(f) = Len(e) + 1
        <5>1. <<b>> \in Seq(Byte) /\ Len(<<b>>) = 1
          BY <3>2
        <5>. QED BY <4>1, <5>1
      <4>3. f[1] = b /\ \A k \in 1 .. Len(e) : f[k + 1] = e[k]
        BY <4>1
      <4>4. f[Len(f)] < Base
        BY <4>1, <4>2, <4>3, <3>4 DEF IsVarint
      <4>5. ASSUME NEW k \in 1 .. Len(f) - 1
            PROVE  f[k] >= Base
        <5>1. CASE k = 1
          BY <5>1, <4>3, <3>2
        <5>2. CASE k # 1
          <6>1. k - 1 \in 1 .. Len(e) - 1 /\ k = (k - 1) + 1
            BY <5>2, <4>1, <4>2
          <6>2. f[k] = e[k - 1]
            BY <6>1, <4>1, <4>3
          <6>. QED BY <6>1, <6>2, <3>4 DEF IsVarint
        <5>. QED BY <5>1, <5>2
      <4>. HIDE DEF f
      <4>6. IsVarint(f)
        BY <4>1, <4>2, <4>4, <4>5 DEF IsVarint
      <4>. QED BY <4>6 DEF f
    <3>. QED BY <2>2, <3>1, <3>3, <3>4
  <2>. QED BY <2>3, <2>4
<1>. QED BY <1>1

-----------------------------------------------------------------------------
LEMMA PowerDef ==
  /\ Power \in [0 .. MaxVarintLen -> Nat]
  /\ Power[0] = 1
  /\ \A k \in 1 .. MaxVarintLen : Power[k] = Base * Power[k - 1]
<1>. DEFINE F == [k \in 1 .. MaxVarintLen |-> [v \in Nat |-> Base * v]]
<1>1. F \in [1 .. MaxVarintLen -> [Nat -> Nat]]
  <2>1. \A v \in Nat : Base * v \in Nat
    BY Widths
  <2>. QED BY <2>1
<1>2. MaxVarintLen \in Nat
  BY Widths
<1>3. PICK g \in [0 .. MaxVarintLen -> Nat] : Recursion(g, 1, F, MaxVarintLen)
  <2>. HIDE DEF F
  <2>. QED BY <1>1, <1>2, RecursionExists
<1>4. g[0] = 1 /\ \A k \in 1 .. MaxVarintLen : g[k] = Base * g[k - 1]
  <2>1. ASSUME NEW k \in 1 .. MaxVarintLen
        PROVE  g[k] = Base * g[k - 1]
    <3>0. k - 1 \in 0 .. MaxVarintLen
      BY <1>2
    <3>1. g[k] = F[k][g[k - 1]] /\ g[k - 1] \in Nat
      <4>. HIDE DEF F
      <4>. QED BY <3>0, <1>3 DEF Recursion
    <3>2. F[k][g[k - 1]] = Base * g[k - 1]
      BY <3>1
    <3>. QED BY <3>1, <3>2
  <2>. QED BY <1>3, <2>1 DEF Recursion
<1>5. g = [k \in 0 .. MaxVarintLen |-> IF k = 0 THEN 1 ELSE Base * g[k - 1]]
  <2>1. \A k \in 0 .. MaxVarintLen : g[k] = IF k = 0 THEN 1 ELSE Base * g[k - 1]
    BY <1>2, <1>4
  <2>2. g = [k \in 0 .. MaxVarintLen |-> g[k]]
    OBVIOUS
  <2>. QED BY <2>1, <2>2, Zenon
<1>6. Power = [k \in 0 .. MaxVarintLen |-> IF k = 0 THEN 1 ELSE Base * Power[k - 1]]
  BY <1>5 DEF Power
<1>. DEFINE S == {k \in 0 .. MaxVarintLen : Power[k] \in Nat}
<1>7. Power[0] = 1 /\ \A k \in 1 .. MaxVarintLen : Power[k] = Base * Power[k - 1]
  <2>1. \A k \in 0 .. MaxVarintLen : Power[k] = IF k = 0 THEN 1 ELSE Base * Power[k - 1]
    BY <1>6, Zenon
  <2>2. 0 \in 0 .. MaxVarintLen /\ \A k \in 1 .. MaxVarintLen : k \in 0 .. MaxVarintLen /\ k # 0
    BY <1>2
  <2>. QED BY <2>1, <2>2, Zenon
<1>8. 0 \in S
  BY <1>2, <1>7
<1>9. ASSUME NEW k \in 0 .. MaxVarintLen - 1, k \in S
      PROVE  k + 1 \in S
  <2>1. k + 1 \in 1 .. MaxVarintLen /\ (k + 1) - 1 = k
    BY <1>2
  <2>2. Power[k + 1] = Base * Power[k]
    BY <2>1, <1>7
  <2>3. \A v \in Nat : Base * v \in Nat
    BY Widths
  <2>4. Power[k + 1] \in Nat
    BY <2>2, <2>3, <1>9
  <2>5. k + 1 \in 0 .. MaxVarintLen
    BY <1>2
  <2>. QED BY <2>4, <2>5
<1>10. 0 .. MaxVarintLen \subseteq S
  <2>. HIDE DEF S
  <2>. QED BY <1>2, <1>8, <1>9, UpwardInduction
<1>11. Power = [k \in 0 .. MaxVarintLen |-> Power[k]]
  BY <1>6
<1>. QED BY <1>7, <1>10, <1>11

LEMMA PowerRises ==
  \A b \in 0 .. MaxVarintLen : \A a \in 0 .. b : Power[a] <= Power[b]
<1>. DEFINE S == {b \in 0 .. MaxVarintLen : \A a \in 0 .. b : Power[a] <= Power[b]}
<1>1. 0 \in S
  BY Widths, PowerDef
<1>2. ASSUME NEW b \in 0 .. MaxVarintLen - 1, b \in S
      PROVE  b + 1 \in S
  <2>1. b + 1 \in 1 .. MaxVarintLen /\ (b + 1) - 1 = b /\ b \in 0 .. MaxVarintLen
    BY Widths
  <2>2. Power[b + 1] = Base * Power[b] /\ Power[b] \in Nat /\ Power[b + 1] \in Nat
    BY <2>1, PowerDef
  <2>3. \A v \in Nat : v <= Base * v
    BY Widths
  <2>4. Power[b] <= Power[b + 1]
    BY <2>2, <2>3
  <2>5. ASSUME NEW a \in 0 .. b + 1
        PROVE  Power[a] <= Power[b + 1]
    <3>1. CASE a = b + 1
      BY <3>1, <2>2
    <3>2. CASE a # b + 1
      <4>1. a \in 0 .. b /\ a \in 0 .. MaxVarintLen
        BY <3>2, Widths
      <4>2. Power[a] <= Power[b] /\ Power[a] \in Nat
        BY <4>1, <1>2, PowerDef
      <4>. QED BY <4>2, <2>2, <2>4
    <3>. QED BY <3>1, <3>2
  <2>. QED BY <2>1, <2>5
<1>. HIDE DEF S
<1>3. 0 .. MaxVarintLen \subseteq S
  BY <1>1, <1>2, Widths, UpwardInduction
<1>. QED BY <1>3 DEF S

(* x takes k groups of seven bits.                                         *)
Takes(x, k) == k \in 1 .. MaxVarintLen /\ x < Power[k] /\ (k > 1 => x >= Power[k - 1])

LEMMA TakesOne ==
  ASSUME NEW x \in Nat, NEW j, NEW k, Takes(x, j), Takes(x, k)
  PROVE  j = k
<1>1. /\ j \in 1 .. MaxVarintLen /\ x < Power[j] /\ (j > 1 => x >= Power[j - 1])
      /\ k \in 1 .. MaxVarintLen /\ x < Power[k] /\ (k > 1 => x >= Power[k - 1])
  BY DEF Takes
<1>2. ASSUME NEW a \in 1 .. MaxVarintLen, NEW b \in 1 .. MaxVarintLen, a < b,
             x < Power[a], x >= Power[b - 1]
      PROVE  FALSE
  <2>1. b - 1 \in 0 .. MaxVarintLen /\ a \in 0 .. b - 1 /\ a \in 0 .. MaxVarintLen
    BY <1>2, Widths
  <2>2. Power[a] <= Power[b - 1] /\ Power[a] \in Nat /\ Power[b - 1] \in Nat
    BY <2>1, PowerRises, PowerDef
  <2>. QED BY <1>2, <2>2
<1>3. ~(j < k) /\ ~(k < j)
  BY <1>1, <1>2, Widths
<1>. QED BY <1>1, <1>3, Widths

LEMMA SizeVarintIs ==
  ASSUME NEW x \in Nat, NEW k, Takes(x, k)
  PROVE  SizeVarint(x) = k
<1>1. k \in 1 .. MaxVarintLen /\ (x < Power[k] /\ (k > 1 => x >= Power[k - 1]))
  BY DEF Takes
<1>2. \A j \in 1 .. MaxVarintLen : (x < Power[j] /\ (j > 1 => x >= Power[j - 1])) => j = k
  BY TakesOne DEF Takes
<1>. QED BY <1>1, <1>2, Zenon DEF SizeVarint

(* EncodeVarint writes as many bytes as SizeVarint has promised, and never *)
(* more than binary.MaxVarintLen64: the two are written independently of   *)
(* each other (wire.go's loop, and its count of the bits).                 *)
THEOREM SizeIsLength ==
  \A x \in 0 .. Word - 1 :
    /\ SizeVarint(x) = Len(EncodeVarint[x])
    /\ Takes(x, Len(EncodeVarint[x]))
<1>. DEFINE S == {x \in Nat : x < Word => Takes(x, Len(EncodeVarint[x]))}
<1>1. ASSUME NEW x \in Nat, \A y \in 0 .. x - 1 : y \in S
      PROVE  x \in S
  <2>. SUFFICES ASSUME x < Word PROVE Takes(x, Len(EncodeVarint[x]))
    OBVIOUS
  <2>1. x \in 0 .. Word - 1
    BY Widths
  <2>2. 1 \in 1 .. MaxVarintLen /\ Power[1] = Base
    <3>1. MaxVarintLen >= 1
      BY WireAssumption
    <3>2. 1 \in 1 .. MaxVarintLen /\ 1 - 1 = 0
      BY <3>1, Widths
    <3>3. Power[1] = Base * Power[0] /\ Power[0] = 1
      BY <3>2, PowerDef
    <3>. QED BY <3>2, <3>3, Widths
  <2>3. CASE x < Base
    <3>1. Len(EncodeVarint[x]) = 1
      BY <2>1, <2>3, OneByte
    <3>. QED BY <2>2, <2>3, <3>1 DEF Takes
  <2>4. CASE ~(x < Base)
    <3>. DEFINE q == x \div Base
                z == Len(EncodeVarint[q])
    <3>1. q \in 0 .. Word - 1 /\ q < x /\ EncodeVarint[x] = <<Base + (x % Base)>> \o EncodeVarint[q]
      BY <2>1, <2>4, ManyBytes
    <3>2. Base * q <= x /\ x < Base * (q + 1) /\ x >= Base
      <4>1. x % Base \in 0 .. Base - 1 /\ x = (x % Base) + Base * q
        BY DivMod
      <4>. HIDE DEF q
      <4>2. Base * (q + 1) = Base * q + Base
        BY <3>1, Widths
      <4>. QED BY <4>1, <4>2, <2>4, <3>1, Widths
    <3>3. Len(EncodeVarint[x]) = z + 1
      <4>1. EncodeVarint[q] \in Seq(Byte)
        BY <3>1, EncodesAVarint DEF IsVarint
      <4>. QED BY <3>1, <4>1
    <3>4. Takes(q, z)
      <4>1. q \in 0 .. x - 1
        BY <3>1, Widths
      <4>. QED BY <4>1, <3>1, <1>1, Widths
    <3>. HIDE DEF q, z
    <3>5. /\ z \in 1 .. MaxVarintLen /\ q < Power[z] /\ (z > 1 => q >= Power[z - 1])
          /\ z \in Nat /\ z - 1 \in 0 .. MaxVarintLen /\ z \in 0 .. MaxVarintLen
      BY <3>4, Widths DEF Takes
    <3>6. /\ Power[z] \in Nat /\ Power[z] = Base * Power[z - 1] /\ Power[z - 1] \in Nat
      BY <3>5, PowerDef
    <3>7. x >= Power[z]
      <4>1. CASE z = 1
        BY <4>1, <2>2, <3>2
      <4>2. CASE z > 1
        <5>1. \A u, v \in Nat : u >= v => Base * u >= Base * v
          BY Widths
        <5>2. Base * q >= Base * Power[z - 1]
          BY <4>2, <5>1, <3>1, <3>5, <3>6
        <5>. QED BY <5>2, <3>1, <3>2, <3>6, Widths
      <4>. QED BY <4>1, <4>2, <3>5
    <3>8. z < MaxVarintLen
      <4>. SUFFICES ASSUME z = MaxVarintLen PROVE FALSE
        BY <3>5, Widths
      <4>. QED BY <3>6, <3>7, <2>1, LengthAssumption, Widths
    <3>9. z + 1 \in 1 .. MaxVarintLen /\ (z + 1) - 1 = z /\ z + 1 > 1
      BY <3>5, <3>8, Widths
    <3>10. Power[z + 1] = Base * Power[z] /\ Power[z + 1] \in Nat
      <4>1. z + 1 \in 0 .. MaxVarintLen
        BY <3>9, Widths
      <4>. QED BY <3>9, <4>1, PowerDef
    <3>11. x < Power[z + 1]
      <4>1. \A u, v \in Nat : u + 1 <= v => Base * (u + 1) <= Base * v
        BY Widths
      <4>2. q + 1 <= Power[z]
        BY <3>1, <3>5, <3>6
      <4>3. Base * (q + 1) <= Base * Power[z]
        BY <4>1, <4>2, <3>1, <3>6
      <4>. QED BY <4>3, <3>1, <3>2, <3>10, Widths
    <3>. QED BY <3>3, <3>7, <3>9, <3>11 DEF Takes
  <2>. QED BY <2>3, <2>4
<1>. HIDE DEF S
<1>2. Nat \subseteq S
  BY <1>1, StrongInduction
<1>3. ASSUME NEW x \in 0 .. Word - 1
      PROVE  SizeVarint(x) = Len(EncodeVarint[x]) /\ Takes(x, Len(EncodeVarint[x]))
  <2>1. x \in Nat /\ x < Word
    BY Widths
  <2>2. Takes(x, Len(EncodeVarint[x]))
    BY <1>2, <2>1 DEF S
  <2>. QED BY <2>1, <2>2, SizeVarintIs
<1>. QED BY <1>3

(* The low three bits of a tag, its wire type, never take another byte.    *)
LEMMA WireTypeIsFree ==
  ASSUME NEW x \in Nat, NEW wt \in 0 .. 7, 8 * x + 7 < Word
  PROVE  SizeVarint(8 * x) = SizeVarint(8 * x + wt)
<1>1. 8 * x \in 0 .. Word - 1 /\ 8 * x \in Nat /\ 8 * x + wt \in Nat
  BY Widths
<1>. DEFINE k == Len(EncodeVarint[8 * x])
<1>2. Takes(8 * x, k) /\ SizeVarint(8 * x) = k
  BY <1>1, SizeIsLength
<1>. HIDE DEF k
<1>3. k \in 1 .. MaxVarintLen /\ 8 * x < Power[k] /\ (k > 1 => 8 * x >= Power[k - 1])
  BY <1>2 DEF Takes
<1>4. k - 1 \in 0 .. MaxVarintLen /\ k \in 0 .. MaxVarintLen
  BY <1>3, Widths
<1>5. PICK b \in Nat : Base = 8 * b
  <2>1. Base = 8 * (Base \div 8) /\ Base \div 8 \in Nat
    BY Widths, WireAssumption
  <2>. QED BY <2>1
<1>6. PICK c \in Nat : Power[k] = 8 * c
  <2>1. Power[k] = (8 * b) * Power[k - 1] /\ Power[k - 1] \in Nat
    BY <1>3, <1>4, <1>5, PowerDef
  <2>2. \A v \in Nat : (8 * b) * v = 8 * (b * v) /\ b * v \in Nat
    BY <1>5, Z3
  <2>3. Power[k] = 8 * (b * Power[k - 1]) /\ b * Power[k - 1] \in Nat
    BY <2>1, <2>2
  <2>. QED BY <2>3
<1>7. 8 * x + wt < Power[k]
  BY <1>3, <1>6
<1>8. k > 1 => 8 * x + wt >= Power[k - 1]
  BY <1>3, <1>4, PowerDef
<1>9. Takes(8 * x + wt, k)
  BY <1>3, <1>7, <1>8 DEF Takes
<1>. QED BY <1>1, <1>2, <1>9, SizeVarintIs

-----------------------------------------------------------------------------
(* The bytes e are those of s from offset at on.                           *)
HeldAt(s, at, e) == at + Len(e) <= Len(s) /\ \A k \in 1 .. Len(e) : s[at + k] = e[k]

(* DecodeVarint finds the last byte of a varint, and no other.             *)
LEMMA FindsTheEnd ==
  ASSUME NEW s \in Seq(Byte), NEW at \in Nat, NEW e, IsVarint(e), HeldAt(s, at, e),
         Len(e) <= MaxVarintLen
  PROVE  VarintLen(s, at) = Len(e)
<1>. DEFINE z == Len(e)
<1>1. z \in Nat /\ z >= 1 /\ z \in 1 .. MaxVarintLen /\ Len(s) \in Nat
  BY Widths DEF IsVarint
<1>2. /\ at + z <= Len(s) /\ s[at + z] < Base
      /\ \A k \in 1 .. z - 1 : s[at + k] >= Base
  <2>1. at + z <= Len(s) /\ \A k \in 1 .. z : s[at + k] = e[k]
    BY DEF HeldAt
  <2>2. e[z] < Base /\ \A k \in 1 .. z - 1 : e[k] >= Base
    BY DEF IsVarint
  <2>. HIDE DEF z
  <2>3. z \in 1 .. z /\ \A k \in 1 .. z - 1 : k \in 1 .. z
    BY <1>1
  <2>. QED BY <2>1, <2>2, <2>3
<1>3. \A k \in 1 .. z : s[at + k] \in Nat /\ Base \in Nat
  <2>1. \A k \in 1 .. z : s[at + k] \in Byte
    BY <1>1, <1>2
  <2>. QED BY <2>1, Widths DEF Byte
<1>. HIDE DEF z
<1>4. EndsAfter(s, at, z)
  BY <1>1, <1>2 DEF EndsAfter, Left
<1>5. ASSUME NEW n \in 1 .. MaxVarintLen, EndsAfter(s, at, n)
      PROVE  n = z
  <2>1. n \in Nat /\ n >= 1 /\ s[at + n] < Base /\ \A k \in 1 .. n - 1 : s[at + k] >= Base
    BY <1>5, Widths DEF EndsAfter
  <2>2. CASE n < z
    <3>1. n \in 1 .. z - 1 /\ n \in 1 .. z
      BY <1>1, <2>1, <2>2
    <3>2. s[at + n] >= Base /\ s[at + n] \in Nat /\ Base \in Nat
      BY <1>2, <1>3, <3>1
    <3>. QED BY <2>1, <3>2
  <2>3. CASE z < n
    <3>1. z \in 1 .. n - 1 /\ z \in 1 .. z
      BY <1>1, <2>1, <2>3
    <3>2. s[at + z] >= Base /\ s[at + z] \in Nat /\ Base \in Nat
      BY <2>1, <1>3, <3>1
    <3>. QED BY <1>2, <3>2
  <2>. QED BY <1>1, <2>1, <2>2, <2>3
<1>6. VarintLen(s, at) = z
  BY <1>1, <1>4, <1>5, Zenon DEF VarintLen
<1>. QED BY <1>6 DEF z

(* The sum that DecodeVarint forms, as a recursive function: the last k    *)
(* bytes before stop.                                                      *)
Digit(s, stop, g, k) == IF k = 0 THEN 0 ELSE (s[stop + 1 - k] % Base) + Base * g[k - 1]

LEMMA SumsExist ==
  ASSUME NEW s, NEW stop
  PROVE  \A n \in Nat : \E g : g = [k \in 0 .. n |-> Digit(s, stop, g, k)]
<1>. DEFINE Sum(n, g) == g = [k \in 0 .. n |-> Digit(s, stop, g, k)]
            T == {n \in Nat : ~ \E g : Sum(n, g)}
<1>1. ASSUME T # {}
      PROVE  FALSE
  <2>1. PICK n \in T : \A y \in T : n <= y
    BY <1>1, Least
  <2>2. n \in Nat /\ ~ \E g : Sum(n, g)
    BY <2>1
  <2>3. CASE n = 0
    <3>. DEFINE g == [k \in 0 .. 0 |-> 0]
    <3>1. \A k \in 0 .. 0 : Digit(s, stop, g, k) = 0
      BY DEF Digit
    <3>2. Sum(0, g)
      BY <3>1
    <3>. QED BY <3>2, <2>2, <2>3
  <2>4. CASE n > 0
    <3>1. n - 1 \in Nat /\ n - 1 \notin T
      BY <2>1, <2>2, <2>4
    <3>2. PICK h : Sum(n - 1, h)
      BY <3>1
    <3>. DEFINE g == [k \in 0 .. n |-> IF k < n THEN h[k] ELSE Digit(s, stop, h, n)]
    <3>3. ASSUME NEW k \in 0 .. n
          PROVE  g[k] = Digit(s, stop, g, k)
      <4>1. g[k] = Digit(s, stop, h, k)
        <5>1. CASE k = n
          BY <5>1, <2>2
        <5>2. CASE k # n
          <6>1. k \in 0 .. n - 1 /\ k < n
            BY <5>2, <2>2
          <6>2. h[k] = Digit(s, stop, h, k)
            BY <3>2, <6>1, Zenon
          <6>. QED BY <6>1, <6>2
        <5>. QED BY <5>1, <5>2
      <4>2. k # 0 => g[k - 1] = h[k - 1]
        BY <2>2
      <4>3. Digit(s, stop, g, k) = Digit(s, stop, h, k)
        <5>. HIDE DEF g
        <5>. QED BY <4>2, Zenon DEF Digit
      <4>. QED BY <4>1, <4>3
    <3>4. Sum(n, g)
      <4>. HIDE DEF g
      <4>1. \A k \in 0 .. n : g[k] = Digit(s, stop, g, k)
        BY <3>3
      <4>2. g = [k \in 0 .. n |-> g[k]]
        BY DEF g
      <4>. QED BY <4>1, <4>2, Zenon
    <3>. QED BY <3>4, <2>2
  <2>. QED BY <2>2, <2>3, <2>4
<1>. QED BY <1>1

LEMMA WorthDef ==
  ASSUME NEW s, NEW stop, NEW n \in Nat
  PROVE  \A k \in 0 .. n : Worth(s, stop, n)[k] = Digit(s, stop, Worth(s, stop, n), k)
<1>. DEFINE Low[k \in 0 .. n] ==
              IF k = 0 THEN 0 ELSE (s[stop + 1 - k] % Base) + Base * Low[k - 1]
<1>1. PICK g : g = [k \in 0 .. n |-> Digit(s, stop, g, k)]
  BY SumsExist
<1>2. g = [k \in 0 .. n |-> IF k = 0 THEN 0 ELSE (s[stop + 1 - k] % Base) + Base * g[k - 1]]
  BY <1>1 DEF Digit
<1>3. Low = [k \in 0 .. n |-> IF k = 0 THEN 0 ELSE (s[stop + 1 - k] % Base) + Base * Low[k - 1]]
  BY <1>2
<1>4. Worth(s, stop, n) = Low
  BY DEF Worth
<1>. HIDE DEF Low
<1>. QED BY <1>3, <1>4, Zenon DEF Digit

(* The encoding of x ends at stop, and has at most n bytes.                *)
EndsAt(s, stop, n, x) ==
  LET z == Len(EncodeVarint[x])
  IN  /\ z <= n /\ z <= stop
      /\ \A k \in 1 .. z : s[stop - z + k] = EncodeVarint[x][k]

(* The bytes of an encoding add up to the number that was encoded.         *)
LEMMA WorthOfEncoding ==
  ASSUME NEW s, NEW stop \in Nat, NEW n \in Nat
  PROVE  \A x \in 0 .. Word - 1 :
           EndsAt(s, stop, n, x) => Worth(s, stop, n)[Len(EncodeVarint[x])] = x
<1>. DEFINE W == Worth(s, stop, n)
            Wrong(x) == EndsAt(s, stop, n, x) /\ W[Len(EncodeVarint[x])] # x
            T == {x \in 0 .. Word - 1 : Wrong(x)}
<1>1. \A k \in 0 .. n : W[k] = IF k = 0 THEN 0 ELSE (s[stop + 1 - k] % Base) + Base * W[k - 1]
  BY WorthDef DEF Digit
<1>. HIDE DEF W
<1>2. ASSUME T # {}
      PROVE  FALSE
  <2>. HIDE DEF Wrong
  <2>0. T \in SUBSET Nat
    BY Widths
  <2>. HIDE DEF T
  <2>1. PICK x \in T : \A y \in T : x <= y
    BY <1>2, <2>0, Least
  <2>2. x \in 0 .. Word - 1 /\ x \in Nat /\ Wrong(x)
    BY <2>1, <2>0 DEF T
  <2>3. CASE x < Base
    <3>1. EncodeVarint[x] = <<x>>
      BY <2>2, <2>3, OneByte
    <3>2. Len(<<x>>) = 1 /\ <<x>>[1] = x
      OBVIOUS
    <3>3. 1 <= n /\ s[stop] = x /\ W[1] # x
      BY <2>2, <3>1, <3>2 DEF Wrong, EndsAt
    <3>4. W[1] = (s[stop] % Base) + Base * W[0] /\ W[0] = 0
      BY <1>1, <3>3
    <3>5. x % Base = x
      BY <2>2, <2>3, Widths
    <3>. QED BY <2>2, <3>3, <3>4, <3>5, Widths
  <2>4. CASE ~(x < Base)
    <3>. DEFINE q == x \div Base
                r == x % Base
                e == EncodeVarint[q]
                z == Len(e)
    <3>1. q \in 0 .. Word - 1 /\ q < x /\ EncodeVarint[x] = <<Base + r>> \o e
      BY <2>2, <2>4, ManyBytes
    <3>2. e \in Seq(Byte) /\ z \in Nat /\ z >= 1
      BY <3>1, EncodesAVarint DEF IsVarint
    <3>3. r \in 0 .. Base - 1 /\ x = r + Base * q /\ (Base + r) % Base = r
      BY <2>2, DivMod
    <3>. HIDE DEF q, r, e
    <3>4. /\ Len(EncodeVarint[x]) = z + 1
          /\ EncodeVarint[x][1] = Base + r
          /\ \A k \in 1 .. z : EncodeVarint[x][k + 1] = e[k]
      BY <3>1, <3>2
    <3>. HIDE DEF z
    <3>5. /\ z + 1 <= n /\ z + 1 <= stop /\ W[z + 1] # x
          /\ \A k \in 1 .. z + 1 : s[stop - (z + 1) + k] = EncodeVarint[x][k]
      BY <2>2, <3>4 DEF Wrong, EndsAt
    <3>6. s[stop + 1 - (z + 1)] = Base + r
      <4>1. 1 \in 1 .. z + 1 /\ stop - (z + 1) + 1 = stop + 1 - (z + 1)
        BY <3>2
      <4>. QED BY <4>1, <3>4, <3>5
    <3>7. ASSUME NEW k \in 1 .. z
          PROVE  s[stop - z + k] = e[k]
      <4>1. k + 1 \in 1 .. z + 1 /\ stop - (z + 1) + (k + 1) = stop - z + k
        BY <3>2
      <4>2. s[stop - (z + 1) + (k + 1)] = EncodeVarint[x][k + 1]
        BY <4>1, <3>5
      <4>3. EncodeVarint[x][k + 1] = e[k]
        BY <3>4
      <4>. QED BY <4>1, <4>2, <4>3
    <3>8. q \notin T
      <4>1. q \in Nat /\ ~(x <= q)
        BY <2>2, <3>1, Widths
      <4>. QED BY <2>1, <4>1
    <3>9. EndsAt(s, stop, n, q)
      <4>1. z <= n /\ z <= stop
        BY <3>2, <3>5
      <4>. QED BY <4>1, <3>7 DEF EndsAt, e, z
    <3>10. W[z] = q
      BY <3>1, <3>8, <3>9, Zenon DEF T, Wrong, e, z
    <3>. DEFINE k == z + 1
    <3>11. k \in 0 .. n /\ k # 0 /\ k - 1 = z /\ k = z + 1
      BY <3>2, <3>5
    <3>. HIDE DEF k
    <3>12. W[k] = (s[stop + 1 - k] % Base) + Base * W[k - 1]
      BY <1>1, <3>11, Zenon
    <3>13. s[stop + 1 - k] = Base + r /\ W[k - 1] = q /\ W[k] # x
      BY <3>5, <3>6, <3>10, <3>11
    <3>14. W[k] = ((Base + r) % Base) + Base * q
      BY <3>12, <3>13, Zenon
    <3>. QED BY <3>3, <3>13, <3>14
  <2>. QED BY <2>2, <2>3, <2>4
<1>. QED BY <1>2 DEF W

(* What EncodeVarint writes at any offset of any buffer, DecodeVarint reads*)
(* back from there, and consumes exactly (codec.md REQ-080 for varints).   *)
THEOREM VarintRoundTrip ==
  ASSUME NEW s \in Seq(Byte), NEW at \in Nat, NEW x \in 0 .. Word - 1,
         HeldAt(s, at, EncodeVarint[x])
  PROVE  VarintLen(s, at) = Len(EncodeVarint[x]) /\ VarintValue(s, at) = x
<1>. DEFINE e == EncodeVarint[x]
            z == Len(e)
<1>1. IsVarint(e) /\ z \in Nat /\ z >= 1
  BY EncodesAVarint DEF IsVarint
<1>2. VarintLen(s, at) = z
  <2>1. z <= MaxVarintLen
    BY SizeIsLength, Widths DEF Takes
  <2>. QED BY <1>1, <2>1, FindsTheEnd
<1>3. \A k \in 1 .. z : s[at + k] = e[k]
  BY DEF HeldAt
<1>. DEFINE stop == at + z
<1>4. stop \in Nat /\ z <= stop /\ stop - z = at
  BY <1>1
<1>5. \A k \in 1 .. z : s[stop - z + k] = e[k]
  BY <1>3, <1>4
<1>6. Worth(s, stop, z)[z] = x
  <2>1. EndsAt(s, stop, z, x)
    BY <1>1, <1>4, <1>5 DEF EndsAt
  <2>. HIDE DEF stop
  <2>. QED BY <1>1, <1>4, <2>1, WorthOfEncoding
<1>7. x % Word = x
  BY Widths
<1>8. VarintValue(s, at) = Worth(s, at + z, z)[z] % Word
  BY <1>1, <1>2 DEF VarintValue
<1>. QED BY <1>2, <1>6, <1>7, <1>8
-----------------------------------------------------------------------------
(* ZigzagEncode gives a word, and ZigzagDecode gives the number back, for  *)
(* every number of an even width, the negative ones and the least included *)
(* (wire.go's four functions, codec.md REQ-080 for sint32 and sint64).     *)
THEOREM ZigzagRoundTrip ==
  ASSUME NEW half \in Nat \ {0}, NEW v \in - half .. half - 1
  PROVE  Zigzag(v, 2 * half) \in 0 .. 2 * half - 1 /\ Unzigzag(Zigzag(v, 2 * half)) = v
<1>. DEFINE w == 2 * half
<1>1. CASE v >= 0
  <2>1. 2 * v \in 0 .. w - 1 /\ (2 * v) % w = 2 * v
    BY <1>1
  <2>2. Zigzag(v, w) = 2 * v
    BY <1>1, <2>1 DEF Zigzag
  <2>3. (2 * v) % 2 = 0 /\ (2 * v) \div 2 = v
    BY <1>1
  <2>. HIDE DEF w
  <2>4. Unzigzag(Zigzag(v, w)) = v
    BY <2>2, <2>3 DEF Unzigzag
  <2>. QED BY <2>1, <2>2, <2>4 DEF w
<1>2. CASE v < 0
  <2>1. (2 * v) % w = 2 * v + w
    <3>1. 2 * v + w \in 0 .. w - 1
      BY <1>2
    <3>. QED BY <3>1, Z3
  <2>. DEFINE u == -1 - 2 * v
  <2>2. Zigzag(v, w) = u
    BY <1>2, <2>1 DEF Zigzag
  <2>3. u \in 0 .. w - 1 /\ u % 2 = 1 /\ u \div 2 = -1 - v
    BY <1>2
  <2>. HIDE DEF w, u
  <2>4. Unzigzag(Zigzag(v, w)) = v
    BY <2>2, <2>3 DEF Unzigzag
  <2>. QED BY <2>2, <2>3, <2>4 DEF w
<1>. QED BY <1>1, <1>2

-----------------------------------------------------------------------------
(* DecodeVarint consumes bytes that are there, or none.                    *)
LEMMA VarintStaysInside ==
  ASSUME NEW s \in Seq(Byte), NEW at \in 0 .. Len(s)
  PROVE  VarintLen(s, at) = -1 \/ VarintLen(s, at) \in 1 .. Left(s, at)
<1>1. CASE \E n \in 1 .. MaxVarintLen : EndsAfter(s, at, n)
  <2>. DEFINE N == CHOOSE n \in 1 .. MaxVarintLen : EndsAfter(s, at, n)
  <2>1. N \in 1 .. MaxVarintLen /\ EndsAfter(s, at, N)
    BY <1>1, Zenon
  <2>2. VarintLen(s, at) = N
    BY <1>1, Zenon DEF VarintLen
  <2>. HIDE DEF N
  <2>3. N \in 1 .. Left(s, at)
    BY <2>1, Widths DEF EndsAfter, Left
  <2>. QED BY <2>2, <2>3
<1>2. CASE ~ \E n \in 1 .. MaxVarintLen : EndsAfter(s, at, n)
  BY <1>2, Zenon DEF VarintLen
<1>. QED BY <1>1, <1>2

LEMMA WorthIsNat ==
  ASSUME NEW s \in Seq(Byte), NEW stop \in 0 .. Len(s), NEW n \in 0 .. stop
  PROVE  \A k \in 0 .. n : Worth(s, stop, n)[k] \in Nat
<1>. DEFINE W == Worth(s, stop, n)
            T == {k \in 0 .. n : W[k] \notin Nat}
<1>1. \A k \in 0 .. n : W[k] = IF k = 0 THEN 0 ELSE (s[stop + 1 - k] % Base) + Base * W[k - 1]
  BY WorthDef DEF Digit
<1>. HIDE DEF W
<1>2. ASSUME T # {}
      PROVE  FALSE
  <2>1. PICK k \in T : \A y \in T : k <= y
    <3>1. T \in SUBSET Nat
      OBVIOUS
    <3>. HIDE DEF T
    <3>. QED BY <1>2, <3>1, Least
  <2>2. k \in 0 .. n /\ k # 0 /\ W[k] \notin Nat
    BY <2>1, <1>1
  <2>3. k - 1 \in 0 .. n /\ k - 1 \notin T
    BY <2>1, <2>2
  <2>4. W[k - 1] \in Nat
    BY <2>3
  <2>5. s[stop + 1 - k] % Base \in Nat
    <3>1. s[stop + 1 - k] \in Byte
      BY <2>2
    <3>. QED BY <3>1, Widths DEF Byte
  <2>6. W[k] = (s[stop + 1 - k] % Base) + Base * W[k - 1]
    BY <1>1, <2>2, Zenon
  <2>7. \A a, b \in Nat : a + Base * b \in Nat
    BY Widths
  <2>. QED BY <2>2, <2>4, <2>5, <2>6, <2>7
<1>. QED BY <1>2 DEF W

LEMMA ValueIsAWord ==
  ASSUME NEW s \in Seq(Byte), NEW at \in 0 .. Len(s)
  PROVE  VarintValue(s, at) \in 0 .. Word - 1
<1>. DEFINE n == VarintLen(s, at)
<1>1. CASE n < 0
  BY <1>1, Widths DEF VarintValue
<1>2. CASE ~(n < 0)
  <2>1. n \in 1 .. Left(s, at)
    BY <1>2, VarintStaysInside
  <2>2. at + n \in 0 .. Len(s) /\ n \in 0 .. at + n
    BY <2>1 DEF Left
  <2>. HIDE DEF n
  <2>3. Worth(s, at + n, n)[n] \in Nat
    BY <2>2, WorthIsNat
  <2>4. VarintValue(s, at) = Worth(s, at + n, n)[n] % Word
    BY <1>2, Zenon DEF VarintValue, n
  <2>. DEFINE v == Worth(s, at + n, n)[n]
  <2>. HIDE DEF v
  <2>5. v \in Nat
    BY <2>3 DEF v
  <2>6. v % Word \in 0 .. Word - 1
    BY <2>5, Widths
  <2>. QED BY <2>4, <2>6 DEF v
<1>. QED BY <1>1, <1>2

(* SkipField returns an error, or a number of bytes that are left in the   *)
(* buffer, at least one, so that a loop over fields comes to its end: no   *)
(* tag, and no length read from the wire, however large, takes the cursor  *)
(* of a decoder past the end (wire.go's bounds checks).                    *)
THEOREM SkipStaysInside ==
  ASSUME NEW s \in Seq(Byte), NEW at \in 0 .. Len(s), NEW wt \in 0 .. 7
  PROVE  SkipField(s, at, wt) = -1 \/ SkipField(s, at, wt) \in 1 .. Left(s, at)
<1>. DEFINE n == VarintLen(s, at)
            v == VarintValue(s, at)
<1>1. Left(s, at) \in Nat
  BY DEF Left
<1>2. n = -1 \/ n \in 1 .. Left(s, at)
  BY VarintStaysInside
<1>3. v \in Nat
  BY ValueIsAWord, Widths
<1>4. n \in 1 .. Left(s, at) => Left(s, at + n) = Left(s, at) - n
  BY DEF Left
<1>5. SkipField(s, at, wt) \in
        {-1, n} \cup (IF Left(s, at) < Width8 THEN {} ELSE {Width8})
                \cup (IF Left(s, at) < Width4 THEN {} ELSE {Width4})
                \cup (IF n < 0 \/ Left(s, at + n) < v THEN {} ELSE {n + v})
  <2>1. CASE wt = 0
    BY <2>1 DEF SkipField
  <2>2. CASE wt = 1
    BY <2>2 DEF SkipField
  <2>3. CASE wt = 2
    BY <2>3 DEF SkipField
  <2>4. CASE wt = 5
    BY <2>4 DEF SkipField
  <2>5. CASE wt \in {3, 4, 6, 7}
    BY <2>5 DEF SkipField
  <2>. QED BY <2>1, <2>2, <2>3, <2>4, <2>5
<1>. HIDE DEF n, v
<1>. QED BY <1>1, <1>2, <1>3, <1>4, <1>5, Widths
-----------------------------------------------------------------------------
(* Sequences, and pieces of one.                                           *)
IsSeq(s) == \E S : s \in Seq(S)

LEMMA SeqFacts ==
  ASSUME NEW s, IsSeq(s)
  PROVE  Len(s) \in Nat /\ DOMAIN s = 1 .. Len(s)
BY DEF IsSeq

LEMMA Joins ==
  ASSUME NEW s, IsSeq(s), NEW t, IsSeq(t)
  PROVE  /\ IsSeq(s \o t) /\ s \o <<>> = s /\ <<>> \o s = s
         /\ \A x : IsSeq(<<x>>) /\ Append(s, x) = s \o <<x>> /\ (s \o <<x>>) \o t = s \o (<<x>> \o t)
<1>1. PICK S : s \in Seq(S)
  BY DEF IsSeq
<1>2. PICK T : t \in Seq(T)
  BY DEF IsSeq
<1>. DEFINE U == S \cup T
<1>3. s \in Seq(U) /\ t \in Seq(U)
  BY <1>1, <1>2
<1>4. s \o t \in Seq(U) /\ s \o <<>> = s /\ <<>> \o s = s
  BY <1>3
<1>5. ASSUME NEW x
      PROVE  IsSeq(<<x>>) /\ Append(s, x) = s \o <<x>> /\ (s \o <<x>>) \o t = s \o (<<x>> \o t)
  <2>. DEFINE V == U \cup {x}
  <2>1. s \in Seq(V) /\ t \in Seq(V) /\ <<x>> \in Seq(V) /\ x \in V
    BY <1>3
  <2>. HIDE DEF V
  <2>2. Append(s, x) = s \o <<x>>
    BY <2>1
  <2>3. (s \o <<x>>) \o t = s \o (<<x>> \o t)
    BY <2>1
  <2>. QED BY <2>1, <2>2, <2>3 DEF IsSeq
<1>. QED BY <1>4, <1>5 DEF IsSeq

LEMMA CutFacts ==
  ASSUME NEW s \in Seq(Byte), NEW from \in 0 .. Len(s), NEW to \in from .. Len(s)
  PROVE  /\ Cut(s, from, to) \in Seq(Byte) /\ Len(Cut(s, from, to)) = to - from
         /\ \A k \in 1 .. to - from : Cut(s, from, to)[k] = s[from + k]
<1>1. from + 1 \in Int /\ to \in Int /\ \A k \in from + 1 .. to : s[k] \in Byte
  OBVIOUS
<1>2. /\ SubSeq(s, from + 1, to) \in Seq(Byte)
      /\ Len(SubSeq(s, from + 1, to)) = IF from + 1 <= to THEN to - (from + 1) + 1 ELSE 0
      /\ \A k \in 1 .. to - (from + 1) + 1 : SubSeq(s, from + 1, to)[k] = s[from + 1 + k - 1]
  BY <1>1, SubSeqProperties
<1>. QED BY <1>2 DEF Cut

-----------------------------------------------------------------------------
(* The records of a buffer.  A walk through 0 .. N that only goes up,      *)
(* and what it gathers.                                                    *)
IsWalk(F, N, g, h) == F = [p \in 0 .. N |-> IF p = N THEN <<>> ELSE g[p] \o F[h[p]]]

LEMMA WalkExists ==
  ASSUME NEW N \in Nat, NEW g, NEW h, \A p \in 0 .. N - 1 : h[p] \in p + 1 .. N
  PROVE  \E F : IsWalk(F, N, g, h)
<1>. DEFINE Walk(F, k) == F = [p \in N - k .. N |-> IF p = N THEN <<>> ELSE g[p] \o F[h[p]]]
            S == {k \in 0 .. N : \E F : Walk(F, k)}
<1>1. 0 \in S
  <2>. DEFINE Z == [p \in N .. N |-> <<>>]
  <2>1. Z = [p \in N - 0 .. N |-> IF p = N THEN <<>> ELSE g[p] \o Z[h[p]]]
    OBVIOUS
  <2>. HIDE DEF Z
  <2>2. \E F : Walk(F, 0)
    BY <2>1, Zenon
  <2>3. 0 \in 0 .. N
    OBVIOUS
  <2>. HIDE DEF Walk
  <2>. QED BY <2>2, <2>3, Zenon
<1>2. ASSUME NEW k \in 0 .. N - 1, k \in S
      PROVE  k + 1 \in S
  <2>1. PICK F : Walk(F, k)
    BY <1>2
  <2>. DEFINE m == N - (k + 1)
              G == [p \in m .. N |-> IF p = m THEN g[p] \o F[h[p]] ELSE F[p]]
  <2>2. m \in 0 .. N - 1 /\ N - k = m + 1 /\ m + 1 \in Nat /\ m # N
    OBVIOUS
  <2>3. F = [p \in m + 1 .. N |-> IF p = N THEN <<>> ELSE g[p] \o F[h[p]]]
    BY <2>1, <2>2
  <2>. HIDE DEF m
  <2>4. \A p \in m + 1 .. N : G[p] = F[p]
    BY <2>2
  <2>5. ASSUME NEW p \in m .. N
        PROVE  G[p] = IF p = N THEN <<>> ELSE g[p] \o G[h[p]]
    <3>1. CASE p = m
      <4>1. h[p] \in m + 1 .. N
        BY <2>2, <3>1
      <4>2. G[p] = g[p] \o F[h[p]]
        BY <2>2, <3>1
      <4>3. G[h[p]] = F[h[p]]
        BY <2>4, <4>1
      <4>. HIDE DEF G
      <4>. QED BY <2>2, <3>1, <4>2, <4>3
    <3>2. CASE p = N
      <4>1. G[p] = F[p] /\ F[p] = <<>>
        BY <2>2, <2>3, <2>4, <3>2
      <4>. QED BY <3>2, <4>1
    <3>3. CASE p # m /\ p # N
      <4>1. p \in m + 1 .. N /\ p \in 0 .. N - 1
        BY <2>2, <3>3
      <4>2. h[p] \in m + 1 .. N
        BY <2>2, <4>1
      <4>3. G[p] = F[p] /\ G[h[p]] = F[h[p]]
        BY <2>4, <4>1, <4>2
      <4>4. F[p] = g[p] \o F[h[p]]
        BY <2>3, <3>3, <4>1
      <4>. HIDE DEF G
      <4>. QED BY <3>3, <4>3, <4>4
    <3>. QED BY <3>1, <3>2, <3>3
  <2>6. G = [p \in m .. N |-> G[p]]
    OBVIOUS
  <2>. HIDE DEF G
  <2>7. G = [p \in m .. N |-> IF p = N THEN <<>> ELSE g[p] \o G[h[p]]]
    BY <2>5, <2>6
  <2>8. \E Z : Z = [p \in m .. N |-> IF p = N THEN <<>> ELSE g[p] \o Z[h[p]]]
    BY <2>7, Zenon
  <2>9. \E Z : Walk(Z, k + 1)
    BY <2>8 DEF m
  <2>10. k + 1 \in 0 .. N
    OBVIOUS
  <2>. HIDE DEF Walk
  <2>. QED BY <2>9, <2>10, Zenon
<1>. HIDE DEF S
<1>3. 0 .. N \subseteq S
  BY <1>1, <1>2, UpwardInduction
<1>4. N \in S
  BY <1>3
<1>5. PICK F : Walk(F, N)
  BY <1>4 DEF S
<1>6. N - N = 0
  OBVIOUS
<1>. QED BY <1>5, <1>6 DEF IsWalk

(* What a walk gathers is a sequence.                                      *)
LEMMA WalkGathers ==
  ASSUME NEW N \in Nat, NEW g, NEW h, \A p \in 0 .. N - 1 : h[p] \in p + 1 .. N /\ IsSeq(g[p]),
         NEW F, IsWalk(F, N, g, h)
  PROVE  \A p \in 0 .. N : IsSeq(F[p])
<1>. DEFINE S == {k \in Nat : k <= N => IsSeq(F[N - k])}
<1>1. ASSUME NEW k \in Nat, \A j \in 0 .. k - 1 : j \in S
      PROVE  k \in S
  <2>. SUFFICES ASSUME k <= N PROVE IsSeq(F[N - k])
    OBVIOUS
  <2>. DEFINE p == N - k
  <2>1. p \in 0 .. N /\ F[p] = IF p = N THEN <<>> ELSE g[p] \o F[h[p]]
    BY DEF IsWalk
  <2>2. CASE k = 0
    <3>1. F[p] = <<>> /\ <<>> \in Seq({})
      BY <2>1, <2>2
    <3>. QED BY <3>1 DEF IsSeq
  <2>3. CASE k # 0
    <3>. DEFINE j == N - h[p]
    <3>1. h[p] \in p + 1 .. N /\ IsSeq(g[p]) /\ p # N
      BY <2>1, <2>3
    <3>2. j \in 0 .. k - 1 /\ j <= N /\ N - j = h[p]
      BY <2>1, <3>1
    <3>3. IsSeq(F[h[p]])
      <4>1. j \in S
        BY <1>1, <3>2
      <4>. HIDE DEF j
      <4>. QED BY <3>2, <4>1
    <3>. QED BY <2>1, <3>1, <3>3, Joins
  <2>. QED BY <2>2, <2>3
<1>. HIDE DEF S
<1>2. \A k \in Nat : k \in S
  BY <1>1, StrongInduction
<1>3. ASSUME NEW p \in 0 .. N
      PROVE  IsSeq(F[p])
  <2>1. N - p \in Nat /\ N - p <= N /\ N - (N - p) = p
    OBVIOUS
  <2>. QED BY <1>2, <2>1 DEF S
<1>. QED BY <1>3

(* A record begins behind the one before it, and ends inside the buffer.   *)
LEMMA RecordInside ==
  ASSUME NEW s \in Seq(Byte), NEW p \in 0 .. Len(s) - 1
  PROVE  /\ RecordAt(s, p).to \in p + 1 .. Len(s)
         /\ RecordAt(s, p).from \in Nat
         /\ RecordAt(s, p).f # -1 => RecordAt(s, p).f \in Nat /\ VarintLen(s, p) > 0
<1>. DEFINE t == VarintLen(s, p)
            w == WireType(VarintValue(s, p))
            n == IF t < 0 THEN -1 ELSE SkipField(s, p + t, w)
            m == FieldNum(VarintValue(s, p))
<1>0. p \in 0 .. Len(s)
  OBVIOUS
<1>1. t = -1 \/ t \in 1 .. Left(s, p)
  BY <1>0, VarintStaysInside
<1>2. t # -1 => p + t \in 0 .. Len(s) /\ t \in Nat
  BY <1>1 DEF Left
<1>3. VarintValue(s, p) \in Nat
  BY <1>0, ValueIsAWord, Widths
<1>4. \A x \in Nat : x % 8 \in 0 .. 7 /\ x \div 8 \in Nat
  BY Z3
<1>5. w \in 0 .. 7 /\ m \in Nat
  BY <1>3, <1>4 DEF WireType, FieldNum
<1>. HIDE DEF w, t, m
<1>6. n = -1 \/ (n \in 1 .. Left(s, p + t) /\ t # -1)
  <2>1. CASE t = -1
    BY <2>1
  <2>2. CASE t # -1
    <3>. DEFINE a == p + t
    <3>1. a \in 0 .. Len(s) /\ ~(t < 0)
      BY <1>2, <2>2
    <3>. HIDE DEF a
    <3>2. SkipField(s, a, w) = -1 \/ SkipField(s, a, w) \in 1 .. Left(s, a)
      BY <1>5, <3>1, SkipStaysInside
    <3>. QED BY <2>2, <3>1, <3>2 DEF a
  <2>. QED BY <2>1, <2>2
<1>7. RecordAt(s, p) = [f |-> IF n < 0 THEN -1 ELSE m, num |-> m, wt |-> w,
                        from |-> IF n < 0 THEN p ELSE p + t, to |-> IF n < 0 THEN Len(s) ELSE p + t + n]
  BY DEF RecordAt, t, w, m
<1>. HIDE DEF n
<1>8. CASE n = -1
  BY <1>7, <1>8
<1>9. CASE n # -1
  BY <1>1, <1>2, <1>5, <1>6, <1>7, <1>9 DEF Left, t
<1>. QED BY <1>8, <1>9

(* The records from offset p on, one behind the other up to the end.       *)
Chain(s, p, q) ==
  /\ IsSeq(q)
  /\ IF q = <<>> THEN p = Len(s) ELSE q[Len(q)].to = Len(s)
  /\ \A n \in 1 .. Len(q) : LET from == IF n = 1 THEN p ELSE q[n - 1].to
                            IN  from \in 0 .. Len(s) - 1 /\ q[n] = RecordAt(s, from)

LEMMA ChainGrows ==
  ASSUME NEW s \in Seq(Byte), NEW p \in 0 .. Len(s) - 1, NEW q, Chain(s, RecordAt(s, p).to, q)
  PROVE  Chain(s, p, <<RecordAt(s, p)>> \o q)
<1>. DEFINE r == RecordAt(s, p)
            e == <<r>> \o q
<1>1. PICK S : q \in Seq(S)
  BY DEF Chain, IsSeq
<1>. DEFINE T == S \cup {r}
<1>2. q \in Seq(T) /\ <<r>> \in Seq(T) /\ Len(q) \in Nat
  BY <1>1
<1>. HIDE DEF T, r
<1>3. /\ e \in Seq(T) /\ Len(e) = Len(q) + 1 /\ e[1] = r
      /\ \A k \in 1 .. Len(q) : e[k + 1] = q[k]
  BY <1>2
<1>. HIDE DEF e
<1>4. e # <<>>
  BY <1>2, <1>3
<1>5. e[Len(e)].to = Len(s)
  <2>1. CASE q = <<>>
    BY <1>2, <1>3, <2>1 DEF Chain, r
  <2>2. CASE q # <<>>
    <3>1. Len(q) >= 1
      BY <1>1, <2>2
    <3>. QED BY <1>2, <1>3, <2>2, <3>1 DEF Chain
  <2>. QED BY <2>1, <2>2
<1>6. ASSUME NEW n \in 1 .. Len(e)
      PROVE  LET from == IF n = 1 THEN p ELSE e[n - 1].to
             IN  from \in 0 .. Len(s) - 1 /\ e[n] = RecordAt(s, from)
  <2>1. CASE n = 1
    BY <1>3, <2>1 DEF r
  <2>2. CASE n # 1
    <3>. DEFINE k == n - 1
    <3>1. k \in 1 .. Len(q) /\ n = k + 1 /\ e[n] = q[k]
      BY <1>2, <1>3, <2>2
    <3>. HIDE DEF k
    <3>2. e[n - 1] = IF k = 1 THEN r ELSE q[k - 1]
      <4>1. CASE k = 1
        BY <1>3, <3>1, <4>1
      <4>2. CASE k # 1
        <5>1. k - 1 \in 1 .. Len(q) /\ n - 1 = (k - 1) + 1
          BY <3>1, <4>2
        <5>. QED BY <1>3, <4>2, <5>1
      <4>. QED BY <4>1, <4>2
    <3>3. LET from == IF k = 1 THEN r.to ELSE q[k - 1].to
          IN  from \in 0 .. Len(s) - 1 /\ q[k] = RecordAt(s, from)
      BY <3>1 DEF Chain, r
    <3>. QED BY <2>2, <3>1, <3>2, <3>3
  <2>. QED BY <2>1, <2>2
<1>7. Chain(s, p, e)
  BY <1>3, <1>4, <1>5, <1>6 DEF Chain, IsSeq
<1>. QED BY <1>7 DEF e, r

LEMMA RecordsChain == ASSUME NEW s \in Seq(Byte) PROVE Chain(s, 0, Records(s))
<1>. DEFINE N == Len(s)
            g == [p \in 0 .. N - 1 |-> <<RecordAt(s, p)>>]
            h == [p \in 0 .. N - 1 |-> RecordAt(s, p).to]
            From[p \in 0 .. N] == IF p = N THEN <<>>
                                  ELSE LET r == RecordAt(s, p) IN <<r>> \o From[r.to]
<1>0. N \in Nat
  OBVIOUS
<1>1. \A p \in 0 .. N - 1 : h[p] \in p + 1 .. N
  BY RecordInside
<1>2. PICK F : IsWalk(F, N, g, h)
  <2>1. N \in Nat /\ \A p \in 0 .. N - 1 : h[p] \in p + 1 .. N
    BY <1>0, <1>1
  <2>. HIDE DEF g, h, N
  <2>. QED BY <2>1, WalkExists
<1>3. F = [p \in 0 .. N |-> IF p = N THEN <<>>
                            ELSE LET r == RecordAt(s, p) IN <<r>> \o F[r.to]]
  <2>1. ASSUME NEW p \in 0 .. N, p # N
        PROVE  g[p] = <<RecordAt(s, p)>> /\ h[p] = RecordAt(s, p).to
    BY <1>0, <2>1
  <2>. HIDE DEF g, h, N
  <2>. QED BY <1>2, <2>1 DEF IsWalk
<1>4. From = [p \in 0 .. N |-> IF p = N THEN <<>>
                               ELSE LET r == RecordAt(s, p) IN <<r>> \o From[r.to]]
  BY <1>3
<1>5. Records(s) = From[0]
  BY DEF Records
<1>. HIDE DEF From
<1>. DEFINE S == {k \in Nat : k <= N => Chain(s, N - k, From[N - k])}
<1>6. ASSUME NEW k \in Nat, \A j \in 0 .. k - 1 : j \in S
      PROVE  k \in S
  <2>. SUFFICES ASSUME k <= N PROVE Chain(s, N - k, From[N - k])
    OBVIOUS
  <2>. DEFINE p == N - k
  <2>1. p \in 0 .. N
    OBVIOUS
  <2>2. CASE k = 0
    <3>1. p = N /\ From[p] = <<>>
      BY <1>4, <2>1, <2>2
    <3>2. <<>> \in Seq({}) /\ Len(<<>>) = 0
      OBVIOUS
    <3>. HIDE DEF p
    <3>. QED BY <3>1, <3>2 DEF Chain, IsSeq, p
  <2>3. CASE k # 0
    <3>. DEFINE r == RecordAt(s, p)
                j == N - r.to
    <3>1. p \in 0 .. Len(s) - 1
      BY <2>1, <2>3
    <3>2. r.to \in p + 1 .. N
      BY <3>1, RecordInside
    <3>3. j \in 0 .. k - 1 /\ j <= N /\ N - j = r.to
      BY <2>1, <3>2
    <3>. HIDE DEF r
    <3>4. Chain(s, r.to, From[r.to])
      <4>1. j \in S
        BY <1>6, <3>3
      <4>. HIDE DEF j
      <4>. QED BY <3>3, <4>1
    <3>5. From[p] = <<r>> \o From[r.to]
      <4>1. From[p] = IF p = N THEN <<>>
                      ELSE LET x == RecordAt(s, p) IN <<x>> \o From[x.to]
        BY <1>4, <2>1
      <4>2. p # N
        BY <2>3
      <4>. HIDE DEF p, N
      <4>. QED BY <4>1, <4>2 DEF r
    <3>. HIDE DEF p
    <3>6. Chain(s, p, <<r>> \o From[r.to])
      BY <3>1, <3>4, ChainGrows DEF r
    <3>. QED BY <3>5, <3>6 DEF p
  <2>. QED BY <2>2, <2>3
<1>. HIDE DEF S
<1>7. N \in S
  BY <1>0, <1>6, StrongInduction
<1>8. Chain(s, N - N, From[N - N]) /\ N - N = 0
  BY <1>7 DEF S
<1>. QED BY <1>5, <1>8

(* Where the first n records of s end.                                     *)
Pos(s, n) == IF n = 0 THEN 0 ELSE Records(s)[n].to

LEMMA NextRecord ==
  ASSUME NEW s \in Seq(Byte), NEW n \in 0 .. Len(Records(s))
  PROVE  /\ Len(Records(s)) \in Nat /\ DOMAIN Records(s) = 1 .. Len(Records(s))
         /\ n < Len(Records(s)) => Pos(s, n) \in 0 .. Len(s) - 1 /\ Records(s)[n + 1] = RecordAt(s, Pos(s, n))
         /\ n = Len(Records(s)) => Pos(s, n) = Len(s)
<1>. DEFINE q == Records(s)
<1>1. Chain(s, 0, q)
  BY RecordsChain
<1>2. Len(q) \in Nat /\ DOMAIN q = 1 .. Len(q)
  BY <1>1, SeqFacts DEF Chain
<1>. HIDE DEF q
<1>3. n = Len(q) => (IF n = 0 THEN 0 ELSE q[n].to) = Len(s)
  <2>1. q = <<>> <=> Len(q) = 0
    BY <1>1 DEF Chain, IsSeq
  <2>. QED BY <1>1, <1>2, <2>1 DEF Chain
<1>4. ASSUME n < Len(q)
      PROVE  LET p == IF n = 0 THEN 0 ELSE q[n].to
             IN  p \in 0 .. Len(s) - 1 /\ q[n + 1] = RecordAt(s, p)
  <2>1. n + 1 \in 1 .. Len(q) /\ (n + 1) - 1 = n /\ (n + 1 = 1 <=> n = 0)
    BY <1>2, <1>4 DEF q
  <2>2. LET p == IF n + 1 = 1 THEN 0 ELSE q[(n + 1) - 1].to
        IN  p \in 0 .. Len(s) - 1 /\ q[n + 1] = RecordAt(s, p)
    BY <1>1, <2>1 DEF Chain
  <2>. QED BY <2>1, <2>2
<1>. QED BY <1>2, <1>3, <1>4 DEF Pos, q

-----------------------------------------------------------------------------
(* The elements of a packed body b, of w bytes each or, when w = 0,        *)
(* varints, from an offset on.                                             *)
ItemLen(b, w, p) == IF w = 0 THEN VarintLen(b, p) ELSE IF Left(b, p) < w THEN -1 ELSE w
ItemAt(b, w, p)  == IF w = 0 THEN VarintValue(b, p) ELSE Cut(b, p, p + w)
ItemsFrom(b, w)      == IF w = 0 THEN VarintsFrom(b) ELSE PiecesFrom(b, w)

LEMMA ItemFits ==
  ASSUME NEW w \in Nat, NEW b \in Seq(Byte), NEW p \in 0 .. Len(b)
  PROVE  ItemLen(b, w, p) = -1 \/ ItemLen(b, w, p) \in 1 .. Left(b, p)
BY VarintStaysInside DEF ItemLen, Left

LEMMA ItemsDef ==
  ASSUME NEW w \in Nat, NEW b \in Seq(Byte), NEW p \in 0 .. Len(b)
  PROVE  /\ IsSeq(ItemsFrom(b, w)[p])
         /\ ItemLen(b, w, p) < 0 => ItemsFrom(b, w)[p] = <<>>
         /\ ItemLen(b, w, p) > 0 => ItemsFrom(b, w)[p] = <<ItemAt(b, w, p)>> \o ItemsFrom(b, w)[p + ItemLen(b, w, p)]
<1>. DEFINE N == Len(b)
            g == [q \in 0 .. N - 1 |-> IF ItemLen(b, w, q) < 0 THEN <<>> ELSE <<ItemAt(b, w, q)>>]
            h == [q \in 0 .. N - 1 |-> IF ItemLen(b, w, q) < 0 THEN N ELSE q + ItemLen(b, w, q)]
            Step(F, q) == IF ItemLen(b, w, q) < 0 THEN <<>> ELSE <<ItemAt(b, w, q)>> \o F[q + ItemLen(b, w, q)]
<1>1. N \in Nat /\ \A q \in 0 .. N : ItemLen(b, w, q) = -1 \/ ItemLen(b, w, q) \in 1 .. N - q
  BY ItemFits DEF Left
<1>. HIDE DEF N
<1>2. ASSUME NEW q \in 0 .. N - 1
      PROVE  h[q] \in q + 1 .. N /\ IsSeq(g[q])
  <2>1. IsSeq(<<>>) /\ IsSeq(<<ItemAt(b, w, q)>>)
    <3>1. <<>> \in Seq({}) /\ <<ItemAt(b, w, q)>> \in Seq({ItemAt(b, w, q)})
      OBVIOUS
    <3>. QED BY <3>1 DEF IsSeq
  <2>. QED BY <1>1, <2>1
<1>3. ASSUME NEW G, G[N] = <<>>, NEW q \in 0 .. N
      PROVE  Step(G, q) = IF q = N THEN <<>> ELSE g[q] \o G[h[q]]
  <2>1. CASE q = N
    BY <1>1, <2>1
  <2>2. CASE q # N /\ ItemLen(b, w, q) < 0
    <3>1. q \in 0 .. N - 1
      BY <1>1, <2>2
    <3>2. g[q] = <<>> /\ h[q] = N /\ <<>> \o <<>> = <<>>
      BY <2>2, <3>1
    <3>. QED BY <1>3, <2>2, <3>2
  <2>3. CASE q # N /\ ~(ItemLen(b, w, q) < 0)
    <3>1. q \in 0 .. N - 1
      BY <1>1, <2>3
    <3>2. g[q] = <<ItemAt(b, w, q)>> /\ h[q] = q + ItemLen(b, w, q)
      BY <2>3, <3>1
    <3>. QED BY <2>3, <3>2
  <2>. QED BY <2>1, <2>2, <2>3
<1>. HIDE DEF g, h
<1>4. PICK F : IsWalk(F, N, g, h)
  BY <1>1, <1>2, WalkExists
<1>5. F = [q \in 0 .. N |-> Step(F, q)]
  <2>1. F[N] = <<>>
    BY <1>1, <1>4 DEF IsWalk
  <2>2. F = [q \in 0 .. N |-> IF q = N THEN <<>> ELSE g[q] \o F[h[q]]]
    BY <1>4 DEF IsWalk
  <2>. HIDE DEF Step
  <2>. QED BY <1>3, <2>1, <2>2
<1>. DEFINE R == ItemsFrom(b, w)
<1>6. R = [q \in 0 .. N |-> Step(R, q)]
  <2>1. CASE w = 0
    <3>1. \A G, q : Step(G, q) = IF VarintLen(b, q) < 0 THEN <<>>
                                 ELSE <<VarintValue(b, q)>> \o G[q + VarintLen(b, q)]
      BY <2>1 DEF ItemLen, ItemAt
    <3>2. F = [q \in 0 .. Len(b) |-> IF VarintLen(b, q) < 0 THEN <<>>
                                   ELSE <<VarintValue(b, q)>> \o F[q + VarintLen(b, q)]]
      <4>. HIDE DEF Step
      <4>. QED BY <1>5, <3>1 DEF N
    <3>. DEFINE From[q \in 0 .. Len(b)] == IF VarintLen(b, q) < 0 THEN <<>>
                                           ELSE <<VarintValue(b, q)>> \o From[q + VarintLen(b, q)]
    <3>3. From = [q \in 0 .. Len(b) |-> IF VarintLen(b, q) < 0 THEN <<>>
                                      ELSE <<VarintValue(b, q)>> \o From[q + VarintLen(b, q)]]
      BY <3>2
    <3>4. R = From
      BY <2>1 DEF ItemsFrom, VarintsFrom
    <3>. HIDE DEF From, Step, R
    <3>. QED BY <3>1, <3>3, <3>4 DEF N
  <2>2. CASE w # 0
    <3>1. \A q \in 0 .. N : \A G : Step(G, q) = IF Left(b, q) < w THEN <<>>
                                                ELSE <<Cut(b, q, q + w)>> \o G[q + w]
      BY <2>2, Widths DEF ItemLen, ItemAt
    <3>2. F = [q \in 0 .. Len(b) |-> IF Left(b, q) < w THEN <<>>
                                   ELSE <<Cut(b, q, q + w)>> \o F[q + w]]
      <4>. HIDE DEF Step
      <4>. QED BY <1>5, <3>1 DEF N
    <3>. DEFINE From[q \in 0 .. Len(b)] == IF Left(b, q) < w THEN <<>>
                                           ELSE <<Cut(b, q, q + w)>> \o From[q + w]
    <3>3. From = [q \in 0 .. Len(b) |-> IF Left(b, q) < w THEN <<>>
                                      ELSE <<Cut(b, q, q + w)>> \o From[q + w]]
      BY <3>2
    <3>4. R = From
      BY <2>2 DEF ItemsFrom, PiecesFrom
    <3>. HIDE DEF From, Step, R
    <3>. QED BY <3>1, <3>3, <3>4 DEF N
  <2>. QED BY <2>1, <2>2
<1>. HIDE DEF R
<1>7. \A q \in 0 .. N : R[q] = Step(R, q)
  BY <1>6
<1>8. R[N] = <<>>
  <2>1. N \in 0 .. N /\ ItemLen(b, w, N) < 0
    BY <1>1
  <2>. QED BY <1>7, <2>1
<1>9. IsWalk(R, N, g, h)
  <2>1. \A q \in 0 .. N : Step(R, q) = IF q = N THEN <<>> ELSE g[q] \o R[h[q]]
    BY <1>3, <1>8
  <2>. HIDE DEF Step
  <2>. QED BY <1>6, <2>1 DEF IsWalk
<1>10. \A q \in 0 .. N : IsSeq(R[q])
  BY <1>1, <1>2, <1>9, WalkGathers
<1>11. p \in 0 .. N
  BY DEF N
<1>12. R[p] = Step(R, p) /\ IsSeq(R[p])
  BY <1>7, <1>10, <1>11
<1>13. ItemLen(b, w, p) > 0 => ~(ItemLen(b, w, p) < 0)
  BY <1>1, <1>11
<1>. QED BY <1>12, <1>13 DEF R

-----------------------------------------------------------------------------
(* Concatenations.                                                         *)
Chains(T, ss, h) ==
  /\ h \in [0 .. Len(ss) -> Seq(T)] /\ h[0] = <<>>
  /\ \A k \in 1 .. Len(ss) : h[k] = h[k - 1] \o ss[k]

LEMMA FlattenDef ==
  ASSUME NEW T, NEW ss \in Seq(Seq(T))
  PROVE  \E h : Chains(T, ss, h) /\ FlattenSeq(ss) = h[Len(ss)]
<1>. DEFINE z == Len(ss)
            F == [k \in 1 .. z |-> [v \in Seq(T) |-> v \o ss[k]]]
            Flat[k \in 1 .. Len(ss)] == IF k = 1 THEN ss[k] ELSE Flat[k - 1] \o ss[k]
<1>1. z \in Nat /\ \A k \in 1 .. z : ss[k] \in Seq(T)
  OBVIOUS
<1>2. z = 0 => ss = <<>>
  OBVIOUS
<1>. HIDE DEF z
<1>3. F \in [1 .. z -> [Seq(T) -> Seq(T)]]
  <2>1. \A u, v \in Seq(T) : u \o v \in Seq(T)
    OBVIOUS
  <2>. QED BY <1>1, <2>1
<1>4. PICK g \in [0 .. z -> Seq(T)] : Recursion(g, <<>>, F, z)
  <2>1. <<>> \in Seq(T)
    OBVIOUS
  <2>. HIDE DEF F
  <2>. QED BY <1>1, <1>3, <2>1, RecursionExists
<1>5. g[0] = <<>> /\ \A k \in 1 .. z : g[k] = g[k - 1] \o ss[k]
  <2>1. ASSUME NEW k \in 1 .. z
        PROVE  g[k] = g[k - 1] \o ss[k]
    <3>1. k - 1 \in 0 .. z
      BY <1>1
    <3>2. g[k] = F[k][g[k - 1]] /\ g[k - 1] \in Seq(T)
      <4>. HIDE DEF F
      <4>. QED BY <3>1, <1>4 DEF Recursion
    <3>. QED BY <3>2
  <2>. QED BY <1>4, <2>1 DEF Recursion
<1>6. \A k \in 1 .. z : k = 1 => g[k] = ss[k]
  <2>1. ASSUME NEW k \in 1 .. z, k = 1
        PROVE  g[k] = ss[k]
    <3>1. k - 1 = 0
      BY <2>1
    <3>2. g[k] = g[k - 1] \o ss[k]
      BY <1>5, Zenon
    <3>3. g[k] = g[0] \o ss[k]
      BY <3>1, <3>2, Zenon
    <3>4. \A u \in Seq(T) : <<>> \o u = u
      OBVIOUS
    <3>. QED BY <1>1, <1>5, <3>3, <3>4
  <2>. QED BY <2>1
<1>. DEFINE f == [k \in 1 .. z |-> g[k]]
<1>7. f = [k \in 1 .. z |-> IF k = 1 THEN ss[k] ELSE f[k - 1] \o ss[k]]
  <2>1. ASSUME NEW k \in 1 .. z
        PROVE  f[k] = IF k = 1 THEN ss[k] ELSE f[k - 1] \o ss[k]
    <3>1. CASE k = 1
      BY <3>1, <1>6
    <3>2. CASE k # 1
      <4>1. k - 1 \in 1 .. z
        BY <3>2, <1>1
      <4>2. f[k] = g[k] /\ f[k - 1] = g[k - 1]
        BY <4>1
      <4>. HIDE DEF f
      <4>. QED BY <3>2, <4>2, <1>5
    <3>. QED BY <3>1, <3>2
  <2>2. f = [k \in 1 .. z |-> f[k]]
    OBVIOUS
  <2>. HIDE DEF f
  <2>. QED BY <2>1, <2>2, Zenon
<1>8. Flat = [k \in 1 .. z |-> IF k = 1 THEN ss[k] ELSE Flat[k - 1] \o ss[k]]
  <2>. HIDE DEF f
  <2>. QED BY <1>7 DEF z
<1>9. FlattenSeq(ss) = IF z = 0 THEN ss ELSE Flat[z]
  BY DEF FlattenSeq, z
<1>. HIDE DEF Flat, f
<1>. DEFINE S == {k \in 0 .. z : k > 0 => Flat[k] = g[k]}
<1>10. 0 \in S
  BY <1>1
<1>11. ASSUME NEW k \in 0 .. z - 1, k \in S
       PROVE  k + 1 \in S
  <2>1. k + 1 \in 1 .. z /\ (k + 1) - 1 = k /\ k + 1 \in 0 .. z
    BY <1>1
  <2>2. Flat[k + 1] = IF k + 1 = 1 THEN ss[k + 1] ELSE Flat[(k + 1) - 1] \o ss[k + 1]
    BY <2>1, <1>8, Zenon
  <2>3. CASE k = 0
    <3>1. g[k + 1] = ss[k + 1]
      BY <1>6, <2>1, <2>3
    <3>. QED BY <2>1, <2>2, <2>3, <3>1
  <2>4. CASE k > 0
    <3>1. g[k + 1] = g[k] \o ss[k + 1]
      BY <2>1, <1>5
    <3>2. k + 1 # 1 /\ Flat[k] = g[k]
      BY <2>4, <1>11
    <3>3. Flat[k + 1] = g[k + 1]
      BY <2>1, <2>2, <3>1, <3>2
    <3>. QED BY <2>1, <3>3
  <2>. QED BY <2>3, <2>4
<1>12. 0 .. z \subseteq S
  <2>. HIDE DEF S
  <2>. QED BY <1>1, <1>10, <1>11, UpwardInduction
<1>13. FlattenSeq(ss) = g[z]
  <2>1. CASE z = 0
    BY <2>1, <1>2, <1>5, <1>9
  <2>2. CASE z # 0
    BY <2>2, <1>1, <1>9, <1>12
  <2>. QED BY <2>1, <2>2
<1>. QED BY <1>5, <1>13 DEF Chains, z

(* The concatenation of a longer sequence.                                 *)
LEMMA FlattenOfMore ==
  ASSUME NEW T, NEW ss \in Seq(Seq(T)), NEW tt \in Seq(Seq(T)), Len(tt) = Len(ss) + 1,
         \A k \in 1 .. Len(ss) : tt[k] = ss[k]
  PROVE  FlattenSeq(ss) \in Seq(T) /\ FlattenSeq(tt) = FlattenSeq(ss) \o tt[Len(tt)]
<1>. DEFINE z == Len(ss)
<1>1. z \in Nat /\ Len(tt) = z + 1
  OBVIOUS
<1>2. PICK g : Chains(T, ss, g) /\ FlattenSeq(ss) = g[z]
  BY FlattenDef
<1>3. PICK h : Chains(T, tt, h) /\ FlattenSeq(tt) = h[z + 1]
  BY FlattenDef
<1>. HIDE DEF z
<1>4. g \in [0 .. z -> Seq(T)] /\ g[0] = <<>> /\ \A k \in 1 .. z : g[k] = g[k - 1] \o ss[k]
  BY <1>2 DEF Chains, z
<1>5. /\ h \in [0 .. z + 1 -> Seq(T)] /\ h[0] = <<>>
      /\ \A k \in 1 .. z + 1 : h[k] = h[k - 1] \o tt[k]
  BY <1>3, <1>1 DEF Chains
<1>. DEFINE S == {k \in 0 .. z : g[k] = h[k]}
<1>6. 0 \in S
  BY <1>1, <1>4, <1>5
<1>7. ASSUME NEW k \in 0 .. z - 1, k \in S
      PROVE  k + 1 \in S
  <2>1. k + 1 \in 1 .. z /\ k + 1 \in 1 .. z + 1 /\ (k + 1) - 1 = k /\ k + 1 \in 0 .. z
    BY <1>1
  <2>2. g[k + 1] = g[k] \o ss[k + 1] /\ h[k + 1] = h[k] \o tt[k + 1]
    BY <2>1, <1>4, <1>5
  <2>3. tt[k + 1] = ss[k + 1] /\ g[k] = h[k]
    BY <2>1, <1>7 DEF z
  <2>4. g[k + 1] = h[k + 1]
    BY <2>2, <2>3, Zenon
  <2>. QED BY <2>1, <2>4
<1>8. 0 .. z \subseteq S
  <2>. HIDE DEF S
  <2>. QED BY <1>1, <1>6, <1>7, UpwardInduction
<1>9. z + 1 \in 1 .. z + 1 /\ (z + 1) - 1 = z /\ z \in 0 .. z
  BY <1>1
<1>10. h[z + 1] = h[z] \o tt[z + 1]
  BY <1>5, <1>9
<1>11. h[z] = g[z] /\ g[z] \in Seq(T)
  BY <1>4, <1>8, <1>9
<1>. QED BY <1>1, <1>2, <1>3, <1>10, <1>11

LEMMA FlattenIsSeq ==
  ASSUME NEW T, NEW ss \in Seq(Seq(T))
  PROVE  FlattenSeq(ss) \in Seq(T) /\ (Len(ss) = 0 => FlattenSeq(ss) = <<>>)
<1>1. PICK h : Chains(T, ss, h) /\ FlattenSeq(ss) = h[Len(ss)]
  BY FlattenDef
<1>2. Len(ss) \in 0 .. Len(ss)
  OBVIOUS
<1>. QED BY <1>1, <1>2 DEF Chains

LEMMA FlattenJoin ==
  ASSUME NEW T, NEW ss \in Seq(Seq(T)), NEW tt \in Seq(Seq(T))
  PROVE  FlattenSeq(ss \o tt) = FlattenSeq(ss) \o FlattenSeq(tt)
<1>. DEFINE a == Len(ss)
            b == Len(tt)
            uu == ss \o tt
<1>1. /\ a \in Nat /\ b \in Nat /\ uu \in Seq(Seq(T)) /\ Len(uu) = a + b
      /\ (\A k \in 1 .. a : uu[k] = ss[k]) /\ \A k \in 1 .. b : uu[a + k] = tt[k]
  OBVIOUS
<1>2. PICK g : Chains(T, ss, g) /\ FlattenSeq(ss) = g[a]
  BY FlattenDef
<1>3. PICK h : Chains(T, tt, h) /\ FlattenSeq(tt) = h[b]
  BY FlattenDef
<1>. HIDE DEF uu
<1>4. PICK i : Chains(T, uu, i) /\ FlattenSeq(uu) = i[a + b]
  BY <1>1, FlattenDef
<1>. HIDE DEF a, b
<1>5. g \in [0 .. a -> Seq(T)] /\ g[0] = <<>> /\ \A k \in 1 .. a : g[k] = g[k - 1] \o ss[k]
  BY <1>2 DEF Chains, a
<1>6. h \in [0 .. b -> Seq(T)] /\ h[0] = <<>> /\ \A k \in 1 .. b : h[k] = h[k - 1] \o tt[k]
  BY <1>3 DEF Chains, b
<1>7. i \in [0 .. a + b -> Seq(T)] /\ i[0] = <<>> /\ \A k \in 1 .. a + b : i[k] = i[k - 1] \o uu[k]
  BY <1>1, <1>4 DEF Chains
<1>. DEFINE S == {k \in 0 .. a : i[k] = g[k]}
            R == {k \in 0 .. b : i[a + k] = g[a] \o h[k]}
<1>8. 0 .. a \subseteq S
  <2>1. 0 \in S
    BY <1>1, <1>5, <1>7
  <2>2. ASSUME NEW k \in 0 .. a - 1, k \in S
        PROVE  k + 1 \in S
    <3>1. k + 1 \in 1 .. a /\ k + 1 \in 1 .. a + b /\ (k + 1) - 1 = k /\ k + 1 \in 0 .. a
      BY <1>1
    <3>2. g[k + 1] = g[k] \o ss[k + 1] /\ i[k + 1] = i[k] \o uu[k + 1] /\ uu[k + 1] = ss[k + 1]
      BY <1>1, <1>5, <1>7, <3>1
    <3>3. i[k + 1] = g[k + 1]
      BY <2>2, <3>2, Zenon
    <3>. QED BY <3>1, <3>3
  <2>. HIDE DEF S
  <2>. QED BY <1>1, <2>1, <2>2, UpwardInduction
<1>9. 0 .. b \subseteq R
  <2>1. 0 \in R
    <3>1. a \in 0 .. a /\ a + 0 = a /\ 0 \in 0 .. b
      BY <1>1
    <3>2. i[a] = g[a] /\ g[a] \in Seq(T)
      BY <1>5, <1>8, <3>1
    <3>3. g[a] \o <<>> = g[a]
      BY <3>2
    <3>. QED BY <1>6, <3>1, <3>2, <3>3
  <2>2. ASSUME NEW k \in 0 .. b - 1, k \in R
        PROVE  k + 1 \in R
    <3>1. /\ k + 1 \in 1 .. b /\ a + (k + 1) \in 1 .. a + b /\ (k + 1) - 1 = k /\ k + 1 \in 0 .. b
          /\ a + (k + 1) - 1 = a + k /\ k \in 0 .. b /\ a \in 0 .. a
      BY <1>1
    <3>2. h[k + 1] = h[k] \o tt[k + 1]
      BY <1>6, <3>1
    <3>8. uu[a + (k + 1)] = tt[k + 1]
      BY <1>1, <3>1
    <3>3. i[a + (k + 1)] = i[a + k] \o uu[a + (k + 1)]
      <4>. DEFINE m == a + (k + 1)
      <4>1. m \in 1 .. a + b /\ m - 1 = a + k
        BY <3>1
      <4>. HIDE DEF m
      <4>2. i[m] = i[m - 1] \o uu[m]
        BY <1>7, <4>1
      <4>. QED BY <4>1, <4>2, Zenon DEF m
    <3>4. i[a + (k + 1)] = (g[a] \o h[k]) \o tt[k + 1]
      BY <2>2, <3>3, <3>8, Zenon
    <3>5. g[a] \in Seq(T) /\ h[k] \in Seq(T)
      BY <1>5, <1>6, <3>1
    <3>10. tt[k + 1] \in Seq(T)
      BY <3>1 DEF b
    <3>11. \A x, y, u \in Seq(T) : (x \o y) \o u = x \o (y \o u)
      OBVIOUS
    <3>6. (g[a] \o h[k]) \o tt[k + 1] = g[a] \o (h[k] \o tt[k + 1])
      BY <3>5, <3>10, <3>11
    <3>7. i[a + (k + 1)] = g[a] \o h[k + 1]
      BY <3>2, <3>4, <3>6, Zenon
    <3>. QED BY <3>1, <3>7
  <2>. HIDE DEF R
  <2>. QED BY <1>1, <2>1, <2>2, UpwardInduction
<1>10. b \in 0 .. b
  BY <1>1
<1>. QED BY <1>2, <1>3, <1>4, <1>9, <1>10 DEF uu

(* One part that is not empty.                                             *)
LEMMA FlattenOne ==
  ASSUME NEW T, NEW ss \in Seq(Seq(T)), NEW z \in Nat,
         \A k \in 1 .. Len(ss) : k # z => ss[k] = <<>>
  PROVE  FlattenSeq(ss) = IF z \in 1 .. Len(ss) THEN ss[z] ELSE <<>>
<1>. DEFINE n == Len(ss)
            At(k) == IF z \in 1 .. k THEN ss[z] ELSE <<>>
<1>1. n \in Nat /\ \A k \in 1 .. n : ss[k] \in Seq(T)
  OBVIOUS
<1>2. PICK h : Chains(T, ss, h) /\ FlattenSeq(ss) = h[n]
  BY FlattenDef
<1>. HIDE DEF n
<1>3. h[0] = <<>> /\ \A k \in 1 .. n : h[k] = h[k - 1] \o ss[k]
  BY <1>2 DEF Chains, n
<1>. DEFINE S == {k \in 0 .. n : h[k] = At(k)}
<1>4. 0 \in S
  BY <1>1, <1>3
<1>5. ASSUME NEW k \in 0 .. n - 1, k \in S
      PROVE  k + 1 \in S
  <2>1. k + 1 \in 1 .. n /\ (k + 1) - 1 = k /\ k + 1 \in 0 .. n
    BY <1>1
  <2>2. h[k + 1] = h[k] \o ss[k + 1] /\ h[k] = At(k) /\ ss[k + 1] \in Seq(T)
    BY <1>1, <1>3, <1>5, <2>1
  <2>3. CASE k + 1 = z
    <3>1. At(k) = <<>> /\ At(k + 1) = ss[k + 1]
      BY <2>1, <2>3
    <3>2. <<>> \o ss[k + 1] = ss[k + 1]
      BY <2>2
    <3>. QED BY <2>1, <2>2, <3>1, <3>2
  <2>4. CASE k + 1 # z
    <3>1. ss[k + 1] = <<>> /\ At(k + 1) = At(k)
      BY <2>1, <2>4 DEF n
    <3>2. At(k) \in Seq(T)
      <4>1. z \in 1 .. k => z \in 1 .. n
        BY <1>1, <2>1
      <4>. QED BY <1>1, <4>1
    <3>. HIDE DEF At
    <3>3. At(k) \o <<>> = At(k)
      BY <3>2
    <3>. QED BY <2>1, <2>2, <3>1, <3>3
  <2>. QED BY <2>3, <2>4
<1>6. 0 .. n \subseteq S
  <2>. HIDE DEF S
  <2>. QED BY <1>1, <1>4, <1>5, UpwardInduction
<1>7. h[n] = At(n)
  BY <1>1, <1>6
<1>. QED BY <1>2, <1>7 DEF n

(* One element in each part.                                               *)
LEMMA FlattenSingles ==
  ASSUME NEW T, NEW v \in Seq(T)
  PROVE  FlattenSeq([k \in DOMAIN v |-> <<v[k]>>]) = v
<1>. DEFINE n == Len(v)
            ss == [k \in DOMAIN v |-> <<v[k]>>]
            At(k) == [j \in 1 .. k |-> v[j]]
<1>1. n \in Nat /\ DOMAIN v = 1 .. n /\ \A k \in 1 .. n : v[k] \in T
  OBVIOUS
<1>2. ss \in Seq(Seq(T)) /\ Len(ss) = n /\ \A k \in 1 .. n : ss[k] = <<v[k]>>
  <2>1. \A k \in 1 .. n : <<v[k]>> \in Seq(T)
    BY <1>1
  <2>2. ss = [k \in 1 .. n |-> <<v[k]>>]
    BY <1>1
  <2>. HIDE DEF ss, n
  <2>. QED BY <1>1, <2>1, <2>2
<1>. HIDE DEF ss
<1>3. PICK h : Chains(T, ss, h) /\ FlattenSeq(ss) = h[n]
  BY <1>2, FlattenDef
<1>. HIDE DEF n
<1>4. h[0] = <<>> /\ \A k \in 1 .. n : h[k] = h[k - 1] \o ss[k]
  BY <1>2, <1>3 DEF Chains
<1>. DEFINE S == {k \in 0 .. n : h[k] = At(k)}
<1>5. 0 \in S
  <2>1. At(0) = <<>>
    OBVIOUS
  <2>. QED BY <1>1, <1>4, <2>1
<1>6. ASSUME NEW k \in 0 .. n - 1, k \in S
      PROVE  k + 1 \in S
  <2>1. k + 1 \in 1 .. n /\ (k + 1) - 1 = k /\ k + 1 \in 0 .. n /\ k \in Nat
    BY <1>1
  <2>2. h[k + 1] = At(k) \o <<v[k + 1]>>
    BY <1>2, <1>4, <1>6, <2>1
  <2>3. At(k) \in Seq(T) /\ Len(At(k)) = k /\ v[k + 1] \in T
    BY <1>1, <2>1
  <2>4. At(k) \o <<v[k + 1]>> = At(k + 1)
    <3>. DEFINE x == At(k)
                y == <<v[k + 1]>>
                c == x \o y
    <3>1. x \in Seq(T) /\ y \in Seq(T) /\ Len(x) = k /\ Len(y) = 1 /\ y[1] = v[k + 1]
      BY <2>3
    <3>2. \A j \in 1 .. k : x[j] = v[j]
      OBVIOUS
    <3>. HIDE DEF x, y
    <3>7. /\ c \in Seq(T) /\ Len(c) = Len(x) + Len(y)
          /\ \A j \in 1 .. Len(x) + Len(y) : c[j] = IF j <= Len(x) THEN x[j] ELSE y[j - Len(x)]
      BY <3>1, ConcatProperties
    <3>3. /\ c \in Seq(T) /\ Len(c) = k + 1
          /\ (\A j \in 1 .. k : c[j] = x[j]) /\ c[k + 1] = y[1]
      BY <2>1, <3>1, <3>7
    <3>. HIDE DEF c
    <3>4. \A j \in 1 .. k + 1 : c[j] = v[j]
      BY <2>1, <3>1, <3>2, <3>3
    <3>5. c = [j \in 1 .. k + 1 |-> c[j]]
      BY <2>1, <3>3
    <3>6. c = At(k + 1)
      BY <3>4, <3>5
    <3>. QED BY <3>6 DEF c, x, y
  <2>5. h[k + 1] = At(k + 1)
    BY <2>2, <2>4, Zenon
  <2>. QED BY <2>1, <2>5
<1>7. 0 .. n \subseteq S
  <2>. HIDE DEF S
  <2>. QED BY <1>1, <1>5, <1>6, UpwardInduction
<1>8. h[n] = At(n)
  BY <1>1, <1>7
<1>9. At(n) = v
  BY <1>1
<1>. QED BY <1>3, <1>8, <1>9 DEF ss

(* One behind the other, what G gives for each of cs.                      *)
Lists(S, T)   == [S -> Seq(T)]
Images(cs, G) == [k \in DOMAIN cs |-> G[cs[k]]]
Mapped(cs, G) == FlattenSeq(Images(cs, G))

LEMMA ImagesAre ==
  ASSUME NEW S, NEW T, NEW G \in Lists(S, T), NEW cs \in Seq(S)
  PROVE  /\ Images(cs, G) \in Seq(Seq(T)) /\ Len(Images(cs, G)) = Len(cs)
         /\ \A k \in 1 .. Len(cs) : Images(cs, G)[k] = G[cs[k]]
         /\ Mapped(cs, G) \in Seq(T)
<1>. DEFINE n == Len(cs)
            ss == Images(cs, G)
<1>1. n \in Nat /\ DOMAIN cs = 1 .. n /\ \A k \in 1 .. n : cs[k] \in S
  OBVIOUS
<1>2. ASSUME NEW k \in 1 .. n PROVE G[cs[k]] \in Seq(T)
  <2>1. cs[k] \in S
    BY <1>1
  <2>. QED BY <2>1 DEF Lists
<1>3. ss = [k \in 1 .. n |-> G[cs[k]]]
  BY <1>1 DEF Images
<1>. HIDE DEF ss, n
<1>4. ss \in [1 .. n -> Seq(T)]
  BY <1>2, <1>3
<1>5. ss \in Seq(Seq(T)) /\ Len(ss) = n
  BY <1>1, <1>4
<1>6. FlattenSeq(ss) \in Seq(T)
  BY <1>5, FlattenIsSeq
<1>. QED BY <1>3, <1>5, <1>6 DEF Mapped, ss, n

LEMMA MappedOne ==
  ASSUME NEW S, NEW T, NEW G \in Lists(S, T)
  PROVE  Mapped(<<>>, G) = <<>> /\ \A c \in S : Mapped(<<c>>, G) = G[c]
<1>1. ASSUME NEW c \in S
      PROVE  Mapped(<<c>>, G) = G[c]
  <2>. DEFINE e  == <<c>>
              ss == Images(e, G)
  <2>1. e \in Seq(S) /\ Len(e) = 1 /\ e[1] = c /\ 1 \in 1 .. 1
    OBVIOUS
  <2>. HIDE DEF e
  <2>2. ss \in Seq(Seq(T)) /\ Len(ss) = 1 /\ ss[1] = G[c]
    BY <2>1, ImagesAre
  <2>. HIDE DEF ss
  <2>4. 1 \in Nat /\ \A k \in 1 .. Len(ss) : k # 1 => ss[k] = <<>>
    BY <2>2
  <2>5. FlattenSeq(ss) = IF 1 \in 1 .. Len(ss) THEN ss[1] ELSE <<>>
    BY <2>2, <2>4, FlattenOne
  <2>6. FlattenSeq(ss) = G[c]
    BY <2>1, <2>2, <2>5
  <2>. QED BY <2>6 DEF Mapped, ss, e
<1>2. Mapped(<<>>, G) = <<>>
  <2>. DEFINE e  == <<>>
              ss == Images(e, G)
  <2>1. e \in Seq(S) /\ Len(e) = 0
    OBVIOUS
  <2>. HIDE DEF e
  <2>2. ss \in Seq(Seq(T)) /\ Len(ss) = 0
    <3>1. e \in Seq(S) => Images(e, G) \in Seq(Seq(T)) /\ Len(Images(e, G)) = Len(e)
      BY ImagesAre
    <3>. QED BY <2>1, <3>1
  <2>. HIDE DEF ss
  <2>3. FlattenSeq(ss) = <<>>
    BY <2>2, FlattenIsSeq
  <2>. QED BY <2>3 DEF Mapped, ss, e
<1>. QED BY <1>1, <1>2

LEMMA MappedJoin ==
  ASSUME NEW S, NEW T, NEW G \in Lists(S, T), NEW cs \in Seq(S), NEW ds \in Seq(S)
  PROVE  Mapped(cs \o ds, G) = Mapped(cs, G) \o Mapped(ds, G)
<1>. DEFINE es == cs \o ds
            a  == Images(cs, G)
            b  == Images(ds, G)
            u  == Images(es, G)
            c  == a \o b
            n  == Len(cs)
            m  == Len(ds)
<1>0. n \in Nat /\ m \in Nat
  OBVIOUS
<1>1. a \in Seq(Seq(T)) /\ Len(a) = n /\ \A k \in 1 .. n : a[k] = G[cs[k]]
  BY ImagesAre
<1>2. b \in Seq(Seq(T)) /\ Len(b) = m /\ \A k \in 1 .. m : b[k] = G[ds[k]]
  BY ImagesAre
<1>3. /\ es \in Seq(S) /\ Len(es) = n + m
      /\ \A k \in 1 .. n + m : es[k] = IF k <= n THEN cs[k] ELSE ds[k - n]
  BY ConcatProperties
<1>. HIDE DEF es
<1>4. u \in Seq(Seq(T)) /\ Len(u) = Len(es) /\ \A k \in 1 .. Len(es) : u[k] = G[es[k]]
  <2>1. /\ Images(es, G) \in Seq(Seq(T)) /\ Len(Images(es, G)) = Len(es)
        /\ \A k \in 1 .. Len(es) : Images(es, G)[k] = G[es[k]]
    <3>1. es \in Seq(S)
      BY <1>3
    <3>. QED BY <3>1, ImagesAre
  <2>. QED BY <2>1
<1>. HIDE DEF a, b, u, n, m
<1>5. /\ c \in Seq(Seq(T)) /\ Len(c) = n + m
      /\ \A k \in 1 .. n + m : c[k] = IF k <= n THEN a[k] ELSE b[k - n]
  BY <1>1, <1>2, ConcatProperties
<1>. HIDE DEF c
<1>6. ASSUME NEW k \in 1 .. n + m
      PROVE  u[k] = c[k]
  <2>0. u[k] = G[es[k]]
    BY <1>3, <1>4
  <2>1. CASE k <= n
    <3>1. k \in 1 .. n
      BY <1>0, <2>1
    <3>2. es[k] = cs[k] /\ c[k] = a[k] /\ a[k] = G[cs[k]]
      BY <1>1, <1>3, <1>5, <2>1, <3>1
    <3>. QED BY <2>0, <3>2, Zenon
  <2>2. CASE ~(k <= n)
    <3>1. k - n \in 1 .. m
      BY <1>0, <2>2
    <3>2. es[k] = ds[k - n] /\ c[k] = b[k - n] /\ b[k - n] = G[ds[k - n]]
      BY <1>2, <1>3, <1>5, <2>2, <3>1
    <3>. QED BY <2>0, <3>2, Zenon
  <2>. QED BY <2>1, <2>2
<1>7. u = c
  <2>1. u = [k \in 1 .. n + m |-> u[k]] /\ c = [k \in 1 .. n + m |-> c[k]]
    BY <1>3, <1>4, <1>5
  <2>. QED BY <1>6, <2>1
<1>8. FlattenSeq(u) = FlattenSeq(a) \o FlattenSeq(b)
  BY <1>1, <1>2, <1>7, FlattenJoin DEF c
<1>. QED BY <1>8, Zenon DEF Mapped, u, a, b, es

PartsMapped(css, G) == [j \in DOMAIN css |-> Mapped(css[j], G)]

LEMMA MappedParts ==
  ASSUME NEW S, NEW T, NEW G \in Lists(S, T), NEW css \in Seq(Seq(S))
  PROVE  /\ FlattenSeq(css) \in Seq(S)
         /\ PartsMapped(css, G) \in Seq(Seq(T)) /\ Len(PartsMapped(css, G)) = Len(css)
         /\ \A k \in 1 .. Len(css) : PartsMapped(css, G)[k] = Mapped(css[k], G)
         /\ Mapped(FlattenSeq(css), G) = FlattenSeq(PartsMapped(css, G))
<1>. DEFINE n == Len(css)
            ss == PartsMapped(css, G)
<1>1. n \in Nat /\ DOMAIN css = 1 .. n /\ \A k \in 1 .. n : css[k] \in Seq(S)
  OBVIOUS
<1>2. ss \in Seq(Seq(T)) /\ Len(ss) = n /\ \A k \in 1 .. n : ss[k] = Mapped(css[k], G)
  <2>1. ASSUME NEW k \in 1 .. n PROVE Mapped(css[k], G) \in Seq(T)
    <3>. DEFINE e == css[k]
    <3>1. e \in Seq(S)
      BY <1>1
    <3>. HIDE DEF e
    <3>2. Mapped(e, G) \in Seq(T)
      BY <3>1, ImagesAre
    <3>. QED BY <3>2 DEF e
  <2>2. ss = [j \in 1 .. n |-> Mapped(css[j], G)]
    BY <1>1 DEF PartsMapped
  <2>. HIDE DEF ss, n
  <2>3. ss \in [1 .. n -> Seq(T)]
    BY <2>1, <2>2
  <2>4. ss \in Seq(Seq(T)) /\ Len(ss) = n
    BY <1>1, <2>3
  <2>. QED BY <1>1, <2>2, <2>4
<1>. HIDE DEF ss
<1>3. PICK h : Chains(S, css, h) /\ FlattenSeq(css) = h[n]
  BY FlattenDef
<1>4. PICK g : Chains(T, ss, g) /\ FlattenSeq(ss) = g[n]
  BY <1>2, FlattenDef
<1>. HIDE DEF n
<1>5. h \in [0 .. n -> Seq(S)] /\ h[0] = <<>> /\ \A k \in 1 .. n : h[k] = h[k - 1] \o css[k]
  BY <1>3 DEF Chains, n
<1>6. g[0] = <<>> /\ \A k \in 1 .. n : g[k] = g[k - 1] \o ss[k]
  BY <1>2, <1>4 DEF Chains
<1>. DEFINE R == {k \in 0 .. n : Mapped(h[k], G) = g[k]}
<1>7. 0 \in R
  BY <1>1, <1>5, <1>6, MappedOne
<1>8. ASSUME NEW k \in 0 .. n - 1, k \in R
      PROVE  k + 1 \in R
  <2>1. k + 1 \in 1 .. n /\ (k + 1) - 1 = k /\ k + 1 \in 0 .. n /\ k \in 0 .. n
    BY <1>1
  <2>2. h[k + 1] = h[k] \o css[k + 1] /\ g[k + 1] = g[k] \o ss[k + 1]
    BY <1>5, <1>6, <2>1
  <2>. DEFINE x == h[k]
              y == css[k + 1]
  <2>3. x \in Seq(S) /\ y \in Seq(S)
    BY <1>1, <1>5, <2>1
  <2>. HIDE DEF x, y
  <2>4. Mapped(x \o y, G) = Mapped(x, G) \o Mapped(y, G)
    BY <2>3, MappedJoin
  <2>5. ss[k + 1] = Mapped(y, G) /\ Mapped(x, G) = g[k]
    BY <1>2, <1>8, <2>1 DEF x, y
  <2>6. Mapped(h[k + 1], G) = g[k + 1]
    BY <2>2, <2>4, <2>5, Zenon DEF x, y
  <2>. QED BY <2>1, <2>6
<1>9. 0 .. n \subseteq R
  <2>. HIDE DEF R
  <2>. QED BY <1>1, <1>7, <1>8, UpwardInduction
<1>10. n \in 0 .. n
  BY <1>1
<1>11. Mapped(h[n], G) = g[n] /\ h[n] \in Seq(S)
  BY <1>5, <1>9, <1>10
<1>. QED BY <1>2, <1>3, <1>4, <1>11 DEF ss, n

(* Mapping twice, and the images of single elements.                       *)
LEMMA MappedTwice ==
  ASSUME NEW S, NEW T, NEW U, NEW G \in Lists(S, T), NEW H \in Lists(T, U), NEW K \in Lists(S, U),
         \A x \in S : Mapped(G[x], H) = K[x], NEW v \in Seq(S)
  PROVE  Mapped(Mapped(v, G), H) = Mapped(v, K)
<1>. DEFINE z   == Len(v)
            css == Images(v, G)
            ss  == PartsMapped(css, H)
<1>1. z \in Nat /\ DOMAIN v = 1 .. z /\ \A j \in 1 .. z : v[j] \in S
  OBVIOUS
<1>2. css \in Seq(Seq(T)) /\ Len(css) = z /\ \A j \in 1 .. z : css[j] = G[v[j]]
  BY ImagesAre
<1>. HIDE DEF css
<1>3. /\ ss \in Seq(Seq(U)) /\ Len(ss) = z /\ \A j \in 1 .. z : ss[j] = Mapped(css[j], H)
      /\ Mapped(FlattenSeq(css), H) = FlattenSeq(ss)
  BY <1>2, MappedParts
<1>. HIDE DEF ss, z
<1>4. ASSUME NEW j \in 1 .. z
      PROVE  ss[j] = K[v[j]]
  <2>1. v[j] \in S /\ ss[j] = Mapped(css[j], H) /\ css[j] = G[v[j]]
    BY <1>1, <1>2, <1>3
  <2>. QED BY <2>1
<1>5. ss = Images(v, K)
  <2>1. ss = [j \in 1 .. z |-> ss[j]]
    BY <1>3
  <2>. QED BY <1>1, <1>4, <2>1 DEF Images
<1>. QED BY <1>3, <1>5, Zenon DEF Mapped, css

Each(S, h) == [x \in S |-> <<h[x]>>]

LEMMA MappedEach ==
  ASSUME NEW S, NEW T, NEW h \in [S -> T], NEW v \in Seq(S)
  PROVE  /\ Each(S, h) \in Lists(S, T) /\ \A x \in S : Each(S, h)[x] = <<h[x]>>
         /\ [j \in DOMAIN v |-> h[v[j]]] = Mapped(v, Each(S, h))
<1>. DEFINE u == [j \in DOMAIN v |-> h[v[j]]]
            z == Len(v)
<1>1. z \in Nat /\ DOMAIN v = 1 .. z /\ \A j \in 1 .. z : v[j] \in S
  OBVIOUS
<1>2. u = [j \in 1 .. z |-> h[v[j]]] /\ \A j \in 1 .. z : h[v[j]] \in T
  BY <1>1
<1>. HIDE DEF u, z
<1>3. u \in Seq(T) /\ DOMAIN u = 1 .. z
  BY <1>1, <1>2
<1>4. FlattenSeq([j \in DOMAIN u |-> <<u[j]>>]) = u
  BY <1>3, FlattenSingles
<1>5. ASSUME NEW j \in 1 .. z
      PROVE  Each(S, h)[v[j]] = <<u[j]>>
  BY <1>1, <1>2 DEF Each
<1>6. [j \in DOMAIN u |-> <<u[j]>>] = Images(v, Each(S, h))
  BY <1>1, <1>3, <1>5 DEF Images
<1>7. u = Mapped(v, Each(S, h))
  BY <1>4, <1>6, Zenon DEF Mapped
<1>8. \A x \in S : Each(S, h)[x] = <<h[x]>> /\ <<h[x]>> \in Seq(T)
  BY DEF Each
<1>9. Each(S, h) \in Lists(S, T)
  <2>1. Each(S, h) = [x \in S |-> <<h[x]>>]
    BY DEF Each
  <2>. QED BY <1>8, <2>1 DEF Lists
<1>. QED BY <1>7, <1>8, <1>9 DEF u

-----------------------------------------------------------------------------
(* What a record can hold, and the bytes of one that holds it.             *)
Sendable ==
  {c \in [f : Nat, wt : {0, 1, 2, 5}, val : Nat \cup Seq(Byte)] :
     /\ 8 * c.f + 7 < Word
     /\ IF c.wt = 0 THEN c.val \in 0 .. Word - 1 ELSE c.val \in Seq(Byte)
     /\ c.wt = 1 => Len(c.val) = Width8
     /\ c.wt = 5 => Len(c.val) = Width4
     /\ c.wt = 2 => Len(c.val) < Word}

AfterTag(c) ==
  IF c.wt = 0 THEN EncodeVarint[c.val]
  ELSE IF c.wt = 2 THEN EncodeVarint[Len(c.val)] \o c.val ELSE c.val

Form(c) == EncodeVarint[8 * c.f + c.wt] \o AfterTag(c)

LEMMA VarintIsBytes ==
  ASSUME NEW x \in 0 .. Word - 1
  PROVE  EncodeVarint[x] \in Seq(Byte) /\ Len(EncodeVarint[x]) \in Nat /\ Len(EncodeVarint[x]) >= 1
BY EncodesAVarint DEF IsVarint

LEMMA HeldParts ==
  ASSUME NEW s \in Seq(Byte), NEW p \in Nat, NEW a \in Seq(Byte), NEW b \in Seq(Byte), HeldAt(s, p, a \o b)
  PROVE  HeldAt(s, p, a) /\ HeldAt(s, p + Len(a), b)
<1>. DEFINE c == a \o b
            n == Len(a)
            m == Len(b)
<1>1. /\ n \in Nat /\ m \in Nat /\ Len(c) = n + m
      /\ \A k \in 1 .. n + m : c[k] = IF k <= n THEN a[k] ELSE b[k - n]
  BY ConcatProperties
<1>2. p + Len(c) <= Len(s) /\ \A k \in 1 .. Len(c) : s[p + k] = c[k]
  BY DEF HeldAt
<1>3. Len(s) \in Nat
  OBVIOUS
<1>. HIDE DEF c, n, m
<1>4. p + n <= Len(s) /\ (p + n) + m <= Len(s)
  BY <1>1, <1>2, <1>3
<1>5. ASSUME NEW k \in 1 .. n
      PROVE  s[p + k] = a[k]
  <2>1. k \in 1 .. n + m /\ k <= n
    BY <1>1
  <2>. QED BY <1>1, <1>2, <2>1
<1>6. ASSUME NEW k \in 1 .. m
      PROVE  s[(p + n) + k] = b[k]
  <2>1. n + k \in 1 .. n + m /\ ~(n + k <= n) /\ (n + k) - n = k /\ p + (n + k) = (p + n) + k
    BY <1>1
  <2>2. s[p + (n + k)] = c[n + k] /\ c[n + k] = b[(n + k) - n]
    BY <1>1, <1>2, <2>1
  <2>. QED BY <2>1, <2>2
<1>. QED BY <1>4, <1>5, <1>6 DEF HeldAt, n, m

LEMMA HeldIsCut ==
  ASSUME NEW s \in Seq(Byte), NEW p \in Nat, NEW b \in Seq(Byte), HeldAt(s, p, b)
  PROVE  Cut(s, p, p + Len(b)) = b
<1>. DEFINE m == Len(b)
            c == Cut(s, p, p + m)
<1>1. m \in Nat /\ p + m <= Len(s) /\ (\A k \in 1 .. m : s[p + k] = b[k]) /\ Len(s) \in Nat
  BY DEF HeldAt
<1>2. b = [k \in 1 .. m |-> b[k]]
  OBVIOUS
<1>3. p \in 0 .. Len(s) /\ p + m \in p .. Len(s) /\ (p + m) - p = m
  BY <1>1
<1>. HIDE DEF m
<1>. DEFINE q == p + m
<1>. HIDE DEF q
<1>4. /\ Cut(s, p, q) \in Seq(Byte) /\ Len(Cut(s, p, q)) = q - p
      /\ \A k \in 1 .. q - p : Cut(s, p, q)[k] = s[p + k]
  <2>1. p \in 0 .. Len(s) /\ q \in p .. Len(s)
    BY <1>3 DEF q
  <2>. QED BY <2>1, CutFacts
<1>5. c \in Seq(Byte) /\ Len(c) = m /\ \A k \in 1 .. m : c[k] = s[p + k]
  BY <1>3, <1>4 DEF q
<1>. HIDE DEF c
<1>6. c = [k \in 1 .. m |-> c[k]]
  BY <1>5
<1>7. c = b
  BY <1>1, <1>2, <1>5, <1>6
<1>. QED BY <1>7 DEF c, m

LEMMA FormIs ==
  ASSUME NEW c \in Sendable
  PROVE  /\ 8 * c.f + c.wt \in 0 .. Word - 1
         /\ AfterTag(c) \in Seq(Byte) /\ Form(c) \in Seq(Byte)
         /\ Len(Form(c)) = Len(EncodeVarint[8 * c.f + c.wt]) + Len(AfterTag(c))
         /\ Len(Form(c)) \in Nat /\ Len(Form(c)) >= 1
<1>1. /\ c.f \in Nat /\ c.wt \in {0, 1, 2, 5} /\ 8 * c.f + 7 < Word
      /\ c.wt = 0 => c.val \in 0 .. Word - 1
      /\ c.wt # 0 => c.val \in Seq(Byte)
      /\ c.wt = 2 => Len(c.val) < Word
  BY DEF Sendable
<1>2. 8 * c.f + c.wt \in 0 .. Word - 1
  BY <1>1, Widths
<1>. DEFINE a == EncodeVarint[8 * c.f + c.wt]
            b == AfterTag(c)
<1>3. a \in Seq(Byte) /\ Len(a) \in Nat /\ Len(a) >= 1
  BY <1>2, VarintIsBytes
<1>4. b \in Seq(Byte)
  <2>1. CASE c.wt = 0
    BY <1>1, <2>1, VarintIsBytes DEF AfterTag
  <2>2. CASE c.wt = 2
    <3>1. c.val \in Seq(Byte) /\ Len(c.val) \in 0 .. Word - 1
      BY <1>1, <2>2, Widths
    <3>2. EncodeVarint[Len(c.val)] \in Seq(Byte)
      BY <3>1, VarintIsBytes
    <3>3. b = EncodeVarint[Len(c.val)] \o c.val
      BY <2>2 DEF AfterTag
    <3>. QED BY <3>1, <3>2, <3>3
  <2>3. CASE c.wt # 0 /\ c.wt # 2
    BY <1>1, <2>3 DEF AfterTag
  <2>. QED BY <2>1, <2>2, <2>3
<1>5. Form(c) = a \o b
  BY DEF Form
<1>. HIDE DEF a, b
<1>6. a \o b \in Seq(Byte) /\ Len(a \o b) = Len(a) + Len(b) /\ Len(b) \in Nat
  BY <1>3, <1>4
<1>. QED BY <1>2, <1>3, <1>4, <1>5, <1>6 DEF a, b

(* Wherever the bytes of a record are, that record is read there.          *)
LEMMA FormRead ==
  ASSUME NEW s \in Seq(Byte), NEW p \in Nat, NEW c \in Sendable, HeldAt(s, p, Form(c))
  PROVE  /\ RecordAt(s, p).to = p + Len(Form(c))
         /\ Content(s, RecordAt(s, p)) = c
<1>. DEFINE tag == 8 * c.f + c.wt
            a == EncodeVarint[tag]
            b == AfterTag(c)
            t == Len(a)
            q == p + t
            r == RecordAt(s, p)
<1>1. /\ c.f \in Nat /\ c.wt \in {0, 1, 2, 5} /\ 8 * c.f + 7 < Word
      /\ c.wt = 0 => c.val \in 0 .. Word - 1
      /\ c.wt # 0 => c.val \in Seq(Byte)
      /\ c.wt = 1 => Len(c.val) = Width8
      /\ c.wt = 5 => Len(c.val) = Width4
      /\ c.wt = 2 => Len(c.val) < Word
      /\ c = [f |-> c.f, wt |-> c.wt, val |-> c.val]
  BY DEF Sendable
<1>2. tag \in 0 .. Word - 1 /\ b \in Seq(Byte) /\ Form(c) = a \o b
      /\ Len(Form(c)) = t + Len(b)
  BY FormIs DEF Form
<1>3. a \in Seq(Byte) /\ t \in Nat /\ t >= 1 /\ q \in Nat
  BY <1>2, VarintIsBytes
<1>4. FieldNum(tag) = c.f /\ WireType(tag) = c.wt
  <2>1. \A x \in Nat, y \in 0 .. 7 : (8 * x + y) \div 8 = x /\ (8 * x + y) % 8 = y
    BY Z3
  <2>2. c.wt \in 0 .. 7
    BY <1>1
  <2>. QED BY <1>1, <2>1, <2>2 DEF FieldNum, WireType
<1>. HIDE DEF tag
<1>5. HeldAt(s, p, a) /\ HeldAt(s, q, b)
  <2>. HIDE DEF a, b
  <2>. QED BY <1>2, <1>3, HeldParts
<1>6. VarintLen(s, p) = t /\ VarintValue(s, p) = tag
  BY <1>2, <1>5, VarintRoundTrip
<1>. HIDE DEF a, t, b, q
<1>. DEFINE m == SkipField(s, q, c.wt)
<1>7. r = [f   |-> IF m < 0 THEN -1 ELSE c.f, num |-> c.f, wt |-> c.wt,
           from |-> IF m < 0 THEN p ELSE q, to |-> IF m < 0 THEN Len(s) ELSE q + m]
  BY <1>3, <1>4, <1>6 DEF RecordAt, q
<1>. HIDE DEF r
<1>8. q + Len(b) <= Len(s) /\ Len(b) \in Nat /\ Len(s) \in Nat
  BY <1>2, <1>5 DEF HeldAt
<1>9. c.f # -1
  BY <1>1
<1>10. ASSUME m = Len(b)
       PROVE  /\ r.f = c.f /\ r.wt = c.wt /\ r.from = q /\ r.to = q + Len(b)
              /\ r.to = p + Len(Form(c))
  <2>1. ~(m < 0)
    BY <1>8, <1>10
  <2>2. r.f = c.f /\ r.wt = c.wt /\ r.from = q /\ r.to = q + m
    BY <1>7, <2>1
  <2>. HIDE DEF m
  <2>. QED BY <1>2, <1>3, <1>8, <1>10, <2>2 DEF q
<1>11. CASE c.wt = 0
  <2>1. b = EncodeVarint[c.val] /\ c.val \in 0 .. Word - 1
    BY <1>1, <1>11 DEF b, AfterTag
  <2>2. VarintLen(s, q) = Len(b) /\ VarintValue(s, q) = c.val
    BY <1>3, <1>5, <2>1, VarintRoundTrip
  <2>3. m = Len(b)
    BY <1>11, <2>2 DEF SkipField
  <2>. HIDE DEF m
  <2>4. r.f = c.f /\ r.wt = c.wt /\ r.from = q /\ r.to = p + Len(Form(c))
    BY <1>10, <2>3
  <2>5. Content(s, r) = [f |-> c.f, wt |-> c.wt, val |-> c.val]
    BY <1>9, <1>11, <2>2, <2>4 DEF Content, ValueOf
  <2>. QED BY <1>1, <2>4, <2>5 DEF r
<1>12. CASE c.wt = 2
  <2>. DEFINE z == Len(c.val)
              e == EncodeVarint[z]
              v == c.val
  <2>1. b = e \o v /\ v \in Seq(Byte) /\ z \in 0 .. Word - 1 /\ z \in Nat
    BY <1>1, <1>12, Widths DEF b, AfterTag
  <2>2. e \in Seq(Byte) /\ Len(e) \in Nat
    BY <2>1, VarintIsBytes
  <2>3. HeldAt(s, q, e) /\ HeldAt(s, q + Len(e), v)
    <3>1. HeldAt(s, q, e \o v)
      BY <1>5, <2>1
    <3>. HIDE DEF e, v
    <3>. QED BY <1>3, <2>1, <2>2, <3>1, HeldParts
  <2>4. VarintLen(s, q) = Len(e) /\ VarintValue(s, q) = z
    BY <1>3, <2>1, <2>3, VarintRoundTrip
  <2>5. Len(b) = Len(e) + z
    <3>. HIDE DEF e
    <3>. QED BY <2>1, <2>2
  <2>6. m = Len(b)
    <3>1. ~(Len(e) < 0) /\ ~(Left(s, q + Len(e)) < z)
      <4>. HIDE DEF e, z
      <4>. QED BY <1>3, <1>8, <2>1, <2>2, <2>5 DEF Left
    <3>. HIDE DEF e, z
    <3>. QED BY <1>12, <2>4, <2>5, <3>1 DEF SkipField
  <2>. HIDE DEF m
  <2>7. r.f = c.f /\ r.wt = c.wt /\ r.from = q /\ r.to = q + Len(b) /\ r.to = p + Len(Form(c))
    BY <1>10, <2>6
  <2>8. BodyOf(s, r) = v
    <3>. DEFINE o == q + Len(e)
    <3>1. BodyOf(s, r) = Cut(s, o, r.to)
      BY <2>4, <2>7 DEF BodyOf, BodyFrom
    <3>. HIDE DEF e
    <3>. DEFINE to == r.to
    <3>4. to = q + Len(b) /\ Len(v) = z
      BY <2>7
    <3>. HIDE DEF v, z, to
    <3>2. o \in Nat /\ to = o + Len(v)
      BY <1>3, <2>1, <2>2, <2>5, <3>4
    <3>. HIDE DEF o
    <3>3. HeldAt(s, o, v)
      BY <2>3 DEF o
    <3>. QED BY <2>1, <3>1, <3>2, <3>3, HeldIsCut DEF to
  <2>9. Content(s, r) = [f |-> c.f, wt |-> c.wt, val |-> c.val]
    BY <1>9, <1>12, <2>7, <2>8 DEF Content
  <2>. QED BY <1>1, <2>7, <2>9 DEF r
<1>13. CASE c.wt \in {1, 5}
  <2>1. b = c.val /\ c.val \in Seq(Byte) /\ Len(b) = IF c.wt = 1 THEN Width8 ELSE Width4
    BY <1>1, <1>13 DEF b, AfterTag
  <2>2. m = Len(b)
    <3>1. ~(Left(s, q) < Len(b))
      BY <1>3, <1>8 DEF Left
    <3>. QED BY <1>13, <2>1, <3>1 DEF SkipField
  <2>. HIDE DEF m
  <2>3. r.f = c.f /\ r.wt = c.wt /\ r.from = q /\ r.to = q + Len(b) /\ r.to = p + Len(Form(c))
    BY <1>10, <2>2
  <2>4. Cut(s, q, q + Len(b)) = b
    BY <1>2, <1>3, <1>5, HeldIsCut
  <2>5. Content(s, r) = [f |-> c.f, wt |-> c.wt, val |-> c.val]
    BY <1>9, <1>13, <2>1, <2>3, <2>4 DEF Content
  <2>. QED BY <1>1, <2>3, <2>5 DEF r
<1>. QED BY <1>1, <1>11, <1>12, <1>13

LEMMA HeldMore ==
  ASSUME NEW s \in Seq(Byte), NEW x \in Seq(Byte)
  PROVE  /\ HeldAt(s \o x, Len(s), x)
         /\ \A p \in Nat, b \in Seq(Byte) : HeldAt(s, p, b) => HeldAt(s \o x, p, b)
<1>. DEFINE c == s \o x
            n == Len(s)
            m == Len(x)
<1>1. /\ n \in Nat /\ m \in Nat /\ Len(c) = n + m
      /\ \A k \in 1 .. n + m : c[k] = IF k <= n THEN s[k] ELSE x[k - n]
  BY ConcatProperties
<1>. HIDE DEF c, n, m
<1>2. HeldAt(c, n, x)
  <2>1. ASSUME NEW k \in 1 .. m PROVE c[n + k] = x[k]
    <3>1. n + k \in 1 .. n + m /\ ~(n + k <= n) /\ (n + k) - n = k
      BY <1>1
    <3>2. c[n + k] = x[(n + k) - n]
      BY <1>1, <3>1
    <3>. QED BY <3>1, <3>2
  <2>. QED BY <1>1, <2>1 DEF HeldAt, m
<1>3. ASSUME NEW p \in Nat, NEW b \in Seq(Byte), HeldAt(s, p, b)
      PROVE  HeldAt(c, p, b)
  <2>1. p + Len(b) <= n /\ (\A k \in 1 .. Len(b) : s[p + k] = b[k]) /\ Len(b) \in Nat
    BY <1>3 DEF HeldAt, n
  <2>2. p + Len(b) <= Len(c)
    BY <1>1, <2>1
  <2>3. ASSUME NEW k \in 1 .. Len(b) PROVE c[p + k] = b[k]
    <3>1. p + k \in 1 .. n + m /\ p + k <= n
      BY <1>1, <2>1
    <3>. QED BY <1>1, <2>1, <3>1
  <2>. QED BY <2>2, <2>3 DEF HeldAt
<1>. QED BY <1>2, <1>3 DEF c, n

(* Where each of the parts of a concatenation is.                          *)
Places(s, ss, off) ==
  /\ off \in [0 .. Len(ss) -> Nat] /\ off[0] = 0 /\ off[Len(ss)] = Len(s)
  /\ \A k \in 1 .. Len(ss) : off[k] = off[k - 1] + Len(ss[k]) /\ HeldAt(s, off[k - 1], ss[k])

LEMMA PartsHavePlaces ==
  ASSUME NEW ss \in Seq(Seq(Byte))
  PROVE  FlattenSeq(ss) \in Seq(Byte) /\ \E off : Places(FlattenSeq(ss), ss, off)
<1>. DEFINE n == Len(ss)
<1>1. n \in Nat /\ \A k \in 1 .. n : ss[k] \in Seq(Byte)
  OBVIOUS
<1>2. PICK h : Chains(Byte, ss, h) /\ FlattenSeq(ss) = h[n]
  BY FlattenDef
<1>. HIDE DEF n
<1>3. h \in [0 .. n -> Seq(Byte)] /\ h[0] = <<>> /\ \A k \in 1 .. n : h[k] = h[k - 1] \o ss[k]
  BY <1>2 DEF Chains, n
<1>. DEFINE off == [k \in 0 .. n |-> Len(h[k])]
<1>4. /\ off \in [0 .. n -> Nat] /\ off[0] = 0 /\ off[n] = Len(h[n])
      /\ \A k \in 0 .. n : off[k] = Len(h[k])
  BY <1>1, <1>3
<1>. HIDE DEF off
<1>5. ASSUME NEW k \in 1 .. n
      PROVE  /\ h[k - 1] \in Seq(Byte) /\ ss[k] \in Seq(Byte) /\ h[k] = h[k - 1] \o ss[k]
             /\ off[k] = off[k - 1] + Len(ss[k]) /\ off[k - 1] = Len(h[k - 1]) /\ off[k - 1] \in Nat
  <2>1. k - 1 \in 0 .. n /\ k \in 0 .. n
    BY <1>1
  <2>. DEFINE x == h[k - 1]
              y == ss[k]
  <2>2. x \in Seq(Byte) /\ y \in Seq(Byte) /\ h[k] = x \o y
    BY <1>1, <1>3, <2>1
  <2>3. off[k] = Len(h[k]) /\ off[k - 1] = Len(x)
    BY <1>4, <2>1
  <2>. HIDE DEF x, y
  <2>4. Len(x \o y) = Len(x) + Len(y) /\ Len(x) \in Nat
    BY <2>2
  <2>. QED BY <2>2, <2>3, <2>4 DEF x, y
<1>. DEFINE S == {j \in 0 .. n : \A k \in 1 .. j : HeldAt(h[j], off[k - 1], ss[k])}
<1>6. 0 \in S
  BY <1>1
<1>7. ASSUME NEW j \in 0 .. n - 1, j \in S
      PROVE  j + 1 \in S
  <2>1. j + 1 \in 1 .. n /\ j + 1 \in 0 .. n /\ (j + 1) - 1 = j
    BY <1>1
  <2>. DEFINE x == h[j]
              y == ss[j + 1]
  <2>2. x \in Seq(Byte) /\ y \in Seq(Byte) /\ h[j + 1] = x \o y /\ off[j] = Len(x)
    BY <1>5, <2>1
  <2>. HIDE DEF x, y
  <2>3. ASSUME NEW k \in 1 .. j + 1
        PROVE  HeldAt(x \o y, off[k - 1], ss[k])
    <3>1. CASE k = j + 1
      <4>1. HeldAt(x \o y, Len(x), y)
        BY <2>2, HeldMore
      <4>. QED BY <2>1, <2>2, <3>1, <4>1 DEF y
    <3>2. CASE k # j + 1
      <4>1. k \in 1 .. j /\ k \in 1 .. n
        BY <1>1, <2>1, <3>2
      <4>2. HeldAt(x, off[k - 1], ss[k])
        BY <1>7, <4>1 DEF x
      <4>3. off[k - 1] \in Nat /\ ss[k] \in Seq(Byte)
        BY <1>5, <4>1
      <4>. QED BY <2>2, <4>2, <4>3, HeldMore
    <3>. QED BY <3>1, <3>2
  <2>. QED BY <2>1, <2>2, <2>3
<1>8. 0 .. n \subseteq S
  <2>. HIDE DEF S
  <2>. QED BY <1>1, <1>6, <1>7, UpwardInduction
<1>9. \A k \in 1 .. n : HeldAt(h[n], off[k - 1], ss[k])
  BY <1>1, <1>8
<1>10. Places(h[n], ss, off)
  BY <1>4, <1>5, <1>9 DEF Places, n
<1>11. h[n] \in Seq(Byte)
  BY <1>1, <1>3
<1>. QED BY <1>2, <1>10, <1>11

Forms     == [c \in Sendable |-> Form(c)]
Spelt(cs) == Mapped(cs, Forms)

LEMMA FormsAre == Forms \in Lists(Sendable, Byte) /\ \A c \in Sendable : Forms[c] = Form(c)
BY FormIs DEF Forms, Lists

(* The records of bytes that were put together from records are these.     *)
LEMMA SpeltContents ==
  ASSUME NEW cs \in Seq(Sendable)
  PROVE  Spelt(cs) \in Seq(Byte) /\ Contents(Spelt(cs)) = cs
<1>. DEFINE n  == Len(cs)
            ss == Images(cs, Forms)
            s  == Spelt(cs)
            rs == Records(s)
<1>1. n \in Nat /\ DOMAIN cs = 1 .. n /\ \A k \in 1 .. n : cs[k] \in Sendable
  OBVIOUS
<1>2. ss \in Seq(Seq(Byte)) /\ Len(ss) = n /\ \A k \in 1 .. n : ss[k] = Forms[cs[k]]
  BY FormsAre, ImagesAre
<1>3. s = FlattenSeq(ss)
  BY Zenon DEF Spelt, Mapped
<1>. HIDE DEF ss, s, n
<1>4. s \in Seq(Byte) /\ \E off : Places(s, ss, off)
  BY <1>2, <1>3, PartsHavePlaces
<1>5. PICK off : Places(s, ss, off)
  BY <1>4
<1>6. /\ off \in [0 .. n -> Nat] /\ off[0] = 0 /\ off[n] = Len(s)
      /\ \A k \in 1 .. n : off[k] = off[k - 1] + Len(ss[k]) /\ HeldAt(s, off[k - 1], ss[k])
  BY <1>2, <1>5 DEF Places
<1>7. ASSUME NEW k \in 1 .. n
      PROVE  /\ off[k - 1] \in Nat /\ off[k] \in Nat /\ off[k] > off[k - 1]
             /\ RecordAt(s, off[k - 1]).to = off[k] /\ Content(s, RecordAt(s, off[k - 1])) = cs[k]
  <2>. DEFINE c == cs[k]
              o == off[k - 1]
  <2>1. k - 1 \in 0 .. n /\ k \in 0 .. n
    BY <1>1
  <2>2. c \in Sendable /\ ss[k] = Form(c) /\ o \in Nat /\ off[k] \in Nat
    BY <1>1, <1>2, <1>6, <2>1, FormsAre
  <2>3. off[k] = o + Len(Form(c)) /\ HeldAt(s, o, Form(c))
    BY <1>6, <2>2
  <2>. HIDE DEF c, o
  <2>4. Len(Form(c)) \in Nat /\ Len(Form(c)) >= 1
    BY <2>2, FormIs
  <2>5. RecordAt(s, o).to = o + Len(Form(c)) /\ Content(s, RecordAt(s, o)) = c
    BY <1>4, <2>2, <2>3, FormRead
  <2>. QED BY <2>2, <2>3, <2>4, <2>5 DEF c, o
<1>. DEFINE S == {j \in 0 .. n : /\ j <= Len(rs) /\ Pos(s, j) = off[j]
                                 /\ \A k \in 1 .. j : Content(s, rs[k]) = cs[k]}
<1>8. Len(rs) \in Nat /\ DOMAIN rs = 1 .. Len(rs)
  <2>1. 0 \in 0 .. Len(Records(s)) => Len(Records(s)) \in Nat /\ DOMAIN Records(s) = 1 .. Len(Records(s))
    BY <1>4, NextRecord
  <2>2. IsSeq(rs)
    BY <1>4, RecordsChain DEF Chain
  <2>. HIDE DEF rs
  <2>. QED BY <2>2, SeqFacts
<1>9. 0 \in S
  <2>1. Pos(s, 0) = 0
    BY DEF Pos
  <2>. HIDE DEF rs
  <2>. QED BY <1>1, <1>6, <1>8, <2>1
<1>. HIDE DEF rs
<1>10. ASSUME NEW j \in 0 .. n - 1, j \in S
       PROVE  j + 1 \in S
  <2>1. j + 1 \in 1 .. n /\ j + 1 \in 0 .. n /\ (j + 1) - 1 = j /\ j \in 0 .. Len(rs) /\ j \in Nat
    BY <1>1, <1>8, <1>10
  <2>2. /\ off[j] \in Nat /\ off[j + 1] > off[j] /\ off[j + 1] \in Nat
        /\ RecordAt(s, off[j]).to = off[j + 1] /\ Content(s, RecordAt(s, off[j])) = cs[j + 1]
    BY <1>7, <2>1
  <2>3. off[j + 1] <= Len(s) /\ Len(s) \in Nat
    <3>1. HeldAt(s, off[(j + 1) - 1], ss[j + 1]) /\ off[j + 1] = off[(j + 1) - 1] + Len(ss[j + 1])
      BY <1>6, <2>1
    <3>. QED BY <1>4, <2>1, <3>1 DEF HeldAt
  <2>4. j < Len(rs) /\ rs[j + 1] = RecordAt(s, off[j])
    <3>1. Pos(s, j) = off[j]
      BY <1>10
    <3>2. /\ j < Len(rs) => rs[j + 1] = RecordAt(s, Pos(s, j))
          /\ j = Len(rs) => Pos(s, j) = Len(s)
      BY <1>4, <2>1, NextRecord DEF rs
    <3>3. j # Len(rs)
      BY <2>2, <2>3, <3>1, <3>2
    <3>4. j < Len(rs)
      <4>1. \A N \in Nat : j \in 0 .. N /\ j # N => j < N
        OBVIOUS
      <4>. QED BY <1>8, <2>1, <3>3, <4>1
    <3>. QED BY <3>1, <3>2, <3>4
  <2>5. j + 1 <= Len(rs)
    BY <1>8, <2>1, <2>4
  <2>6. Pos(s, j + 1) = off[j + 1]
    <3>1. Pos(s, j + 1) = rs[j + 1].to
      BY <2>1 DEF Pos, rs
    <3>. QED BY <2>2, <2>4, <3>1
  <2>7. ASSUME NEW k \in 1 .. j + 1
        PROVE  Content(s, rs[k]) = cs[k]
    <3>1. CASE k = j + 1
      BY <2>2, <2>4, <3>1
    <3>2. CASE k # j + 1
      <4>1. k \in 1 .. j
        BY <2>1, <3>2
      <4>. QED BY <1>10, <4>1
    <3>. QED BY <3>1, <3>2
  <2>. QED BY <2>1, <2>5, <2>6, <2>7
<1>11. 0 .. n \subseteq S
  <2>. HIDE DEF S
  <2>. QED BY <1>1, <1>9, <1>10, UpwardInduction
<1>12. n <= Len(rs) /\ Pos(s, n) = Len(s) /\ \A k \in 1 .. n : Content(s, rs[k]) = cs[k]
  BY <1>1, <1>6, <1>11
<1>13. Len(rs) = n
  <2>1. n \in 0 .. Len(rs)
    BY <1>1, <1>8, <1>12
  <2>2. n < Len(rs) => Pos(s, n) \in 0 .. Len(s) - 1
    BY <1>4, <2>1, NextRecord DEF rs
  <2>3. Len(s) \in Nat
    BY <1>4
  <2>4. ~(n < Len(rs))
    BY <1>12, <2>2, <2>3
  <2>5. \A N \in Nat : n <= N /\ ~(n < N) => N = n
    BY <1>1
  <2>. QED BY <1>8, <1>12, <2>4, <2>5
<1>14. Contents(s) = [k \in 1 .. n |-> Content(s, rs[k])]
  BY <1>8, <1>13 DEF Contents, ContentsOf, rs
<1>15. cs = [k \in 1 .. n |-> cs[k]]
  BY DEF n
<1>16. Contents(s) = cs
  BY <1>12, <1>14, <1>15
<1>. QED BY <1>4, <1>16 DEF s

(* What a field has among contents, as it is gathered.                     *)
Holdable     == Nat \cup Seq(Byte)
Picks(f, wt) == [c \in Sendable |-> IF c.f = f /\ c.wt = wt THEN <<c.val>> ELSE <<>>]

LEMMA ValuesAre ==
  ASSUME NEW f, NEW wt
  PROVE  /\ Picks(f, wt) \in Lists(Sendable, Holdable)
         /\ \A c \in Sendable : Picks(f, wt)[c] = IF c.f = f /\ c.wt = wt THEN <<c.val>> ELSE <<>>
         /\ \A cs \in Seq(Sendable) : Values(cs, f, wt) = Mapped(cs, Picks(f, wt))
<1>1. ASSUME NEW c \in Sendable
      PROVE  (IF c.f = f /\ c.wt = wt THEN <<c.val>> ELSE <<>>) \in Seq(Holdable)
  <2>1. c.val \in Holdable
    BY DEF Sendable, Holdable
  <2>. QED BY <2>1
<1>2. /\ Picks(f, wt) \in Lists(Sendable, Holdable)
      /\ \A c \in Sendable : Picks(f, wt)[c] = IF c.f = f /\ c.wt = wt THEN <<c.val>> ELSE <<>>
  BY <1>1 DEF Picks, Lists
<1>3. ASSUME NEW cs \in Seq(Sendable)
      PROVE  Values(cs, f, wt) = Mapped(cs, Picks(f, wt))
  <2>1. ASSUME NEW k \in DOMAIN cs
        PROVE  Picks(f, wt)[cs[k]] = IF cs[k].f = f /\ cs[k].wt = wt THEN <<cs[k].val>> ELSE <<>>
    <3>1. cs[k] \in Sendable
      OBVIOUS
    <3>. QED BY <1>2, <3>1
  <2>2. [k \in DOMAIN cs |-> IF cs[k].f = f /\ cs[k].wt = wt THEN <<cs[k].val>> ELSE <<>>]
        = [k \in DOMAIN cs |-> Picks(f, wt)[cs[k]]]
    BY <2>1
  <2>. QED BY <2>2, Zenon DEF Values, Mapped, Images
<1>. QED BY <1>2, <1>3

(* A body of two optional records.                                         *)
MaybeForm(c) == {<<>>, Form(c)}
Shown(i, c)  == IF i = <<>> THEN <<>> ELSE <<c.val>>

LEMMA PairReads ==
  \A c, d \in Sendable : \A i \in MaybeForm(c), j \in MaybeForm(d) :
    c.f = 1 /\ d.f = 2 => /\ Values(Contents(i \o j), 1, c.wt) = Shown(i, c)
                         /\ Values(Contents(i \o j), 2, d.wt) = Shown(j, d)
<1>. SUFFICES ASSUME NEW c \in Sendable, c.f = 1, NEW d \in Sendable, d.f = 2,
                     NEW i \in MaybeForm(c), NEW j \in MaybeForm(d)
              PROVE  /\ Values(Contents(i \o j), 1, c.wt) = Shown(i, c)
                     /\ Values(Contents(i \o j), 2, d.wt) = Shown(j, d)
  OBVIOUS
<1>. DEFINE s == i \o j
<1>. DEFINE x == IF i # <<>> THEN <<c>> ELSE <<>>
            y == IF j # <<>> THEN <<d>> ELSE <<>>
<1>1. x \in Seq(Sendable) /\ y \in Seq(Sendable)
  OBVIOUS
<1>2. ASSUME NEW T, NEW G \in Lists(Sendable, T)
      PROVE  /\ Mapped(x, G) = IF i # <<>> THEN G[c] ELSE <<>>
             /\ Mapped(y, G) = IF j # <<>> THEN G[d] ELSE <<>>
  BY MappedOne
<1>. HIDE DEF x, y
<1>3. Spelt(x) = i /\ Spelt(y) = j
  <2>1. /\ Spelt(x) = IF i # <<>> THEN Form(c) ELSE <<>>
        /\ Spelt(y) = IF j # <<>> THEN Form(d) ELSE <<>>
    BY <1>2, FormsAre DEF Spelt
  <2>. QED BY <2>1 DEF MaybeForm
<1>4. Spelt(x \o y) = Spelt(x) \o Spelt(y)
  BY <1>1, FormsAre, MappedJoin DEF Spelt
<1>5. s = Spelt(x \o y)
  BY <1>3, <1>4
<1>. DEFINE z == x \o y
<1>6. z \in Seq(Sendable)
  BY <1>1
<1>7. Contents(s) = z
  <2>. HIDE DEF z, s
  <2>1. Contents(Spelt(z)) = z
    BY <1>6, SpeltContents
  <2>. QED BY <1>5, <2>1 DEF z
<1>8. ASSUME NEW f, NEW wt
      PROVE  Values(z, f, wt) = Mapped(x, Picks(f, wt)) \o Mapped(y, Picks(f, wt))
  <2>1. Picks(f, wt) \in Lists(Sendable, Holdable)
    BY ValuesAre
  <2>2. Values(z, f, wt) = Mapped(z, Picks(f, wt))
    <3>. HIDE DEF z
    <3>. QED BY <1>6, ValuesAre
  <2>3. Mapped(x \o y, Picks(f, wt)) = Mapped(x, Picks(f, wt)) \o Mapped(y, Picks(f, wt))
    BY <1>1, <2>1, MappedJoin
  <2>. QED BY <2>2, <2>3
<1>. HIDE DEF z
<1>9. ASSUME NEW f, NEW wt
      PROVE  /\ Mapped(x, Picks(f, wt)) = IF i # <<>> THEN Picks(f, wt)[c] ELSE <<>>
             /\ Mapped(y, Picks(f, wt)) = IF j # <<>> THEN Picks(f, wt)[d] ELSE <<>>
  BY <1>2, ValuesAre
<1>10. Mapped(x, Picks(1, c.wt)) = (IF i # <<>> THEN <<c.val>> ELSE <<>>) /\ Mapped(y, Picks(1, c.wt)) = <<>>
  <2>1. \A e \in Sendable : Picks(1, c.wt)[e] = IF e.f = 1 /\ e.wt = c.wt THEN <<e.val>> ELSE <<>>
    BY ValuesAre
  <2>. DEFINE P == Picks(1, c.wt)
  <2>. HIDE DEF P
  <2>3. P[c] = (IF c.f = 1 /\ c.wt = c.wt THEN <<c.val>> ELSE <<>>) /\ P[d] = IF d.f = 1 /\ d.wt = c.wt THEN <<d.val>> ELSE <<>>
    BY <2>1 DEF P
  <2>2. Picks(1, c.wt)[c] = <<c.val>> /\ Picks(1, c.wt)[d] = <<>>
    BY <2>3 DEF P
  <2>. QED BY <1>9, <2>2
<1>11. Mapped(x, Picks(2, d.wt)) = <<>> /\ Mapped(y, Picks(2, d.wt)) = IF j # <<>> THEN <<d.val>> ELSE <<>>
  <2>1. \A e \in Sendable : Picks(2, d.wt)[e] = IF e.f = 2 /\ e.wt = d.wt THEN <<e.val>> ELSE <<>>
    BY ValuesAre
  <2>. DEFINE P == Picks(2, d.wt)
  <2>. HIDE DEF P
  <2>3. P[c] = (IF c.f = 2 /\ c.wt = d.wt THEN <<c.val>> ELSE <<>>) /\ P[d] = IF d.f = 2 /\ d.wt = d.wt THEN <<d.val>> ELSE <<>>
    BY <2>1 DEF P
  <2>2. Picks(2, d.wt)[c] = <<>> /\ Picks(2, d.wt)[d] = <<d.val>>
    BY <2>3 DEF P
  <2>. QED BY <1>9, <2>2
<1>12. \A v : <<v>> \o <<>> = <<v>> /\ <<>> \o <<v>> = <<v>> /\ <<>> \o <<>> = <<>>
  <2>1. ASSUME NEW v PROVE <<v>> \o <<>> = <<v>> /\ <<>> \o <<v>> = <<v>> /\ <<>> \o <<>> = <<>>
    <3>1. <<v>> \in Seq({v}) /\ <<>> \in Seq({v})
      OBVIOUS
    <3>. QED BY <3>1
  <2>. QED BY <2>1
<1>13. Values(z, 1, c.wt) = IF i # <<>> THEN <<c.val>> ELSE <<>>
  BY <1>8, <1>10, <1>12
<1>14. Values(z, 2, d.wt) = IF j # <<>> THEN <<d.val>> ELSE <<>>
  BY <1>8, <1>11, <1>12
<1>15. /\ (IF i # <<>> THEN <<c.val>> ELSE <<>>) = Shown(i, c)
       /\ (IF j # <<>> THEN <<d.val>> ELSE <<>>) = Shown(j, d)
  BY DEF Shown
<1>. QED BY <1>7, <1>13, <1>14, <1>15

(* The elements of a packed body are read one after the other.             *)
ItemsIn(s, w, ss, v) ==
  \A k \in 1 .. Len(ss), p \in Nat :
    HeldAt(s, p, ss[k]) => /\ Len(ss[k]) > 0 /\ ItemLen(s, w, p) = Len(ss[k])
                           /\ ItemAt(s, w, p) = v[k]

LEMMA ItemsRead ==
  ASSUME NEW ss \in Seq(Seq(Byte)), NEW w \in Nat, NEW V, NEW v \in Seq(V), Len(v) = Len(ss),
         NEW s, s = FlattenSeq(ss), ItemsIn(s, w, ss, v)
  PROVE  ItemsFrom(s, w)[0] = v
<1>. DEFINE n == Len(ss)
            F == ItemsFrom(s, w)
            Ending(j) == [k \in 1 .. j |-> v[n - j + k]]
<1>1. n \in Nat /\ \A k \in 1 .. n : v[k] \in V
  OBVIOUS
<1>2. s \in Seq(Byte) /\ \E off : Places(s, ss, off)
  BY PartsHavePlaces
<1>3. PICK off : Places(s, ss, off)
  BY <1>2
<1>4. /\ off \in [0 .. n -> Nat] /\ off[0] = 0 /\ off[n] = Len(s)
      /\ \A k \in 1 .. n : off[k] = off[k - 1] + Len(ss[k]) /\ HeldAt(s, off[k - 1], ss[k])
  BY <1>3 DEF Places
<1>. HIDE DEF n, F
<1>. DEFINE S == {j \in 0 .. n : F[off[n - j]] = Ending(j)}
<1>5. 0 \in S
  <2>1. Len(s) \in 0 .. Len(s) /\ Left(s, Len(s)) = 0
    BY <1>2 DEF Left
  <2>2. ItemLen(s, w, Len(s)) < 0
    BY <1>2, <2>1, ItemFits
  <2>3. F[Len(s)] = <<>>
    BY <1>2, <2>1, <2>2, ItemsDef DEF F
  <2>4. n - 0 = n /\ 0 \in 0 .. n /\ Ending(0) = <<>>
    BY <1>1
  <2>. QED BY <1>4, <2>3, <2>4
<1>6. ASSUME NEW j \in 0 .. n - 1, j \in S
      PROVE  j + 1 \in S
  <2>. DEFINE m == n - j
              p == off[m - 1]
  <2>1. m \in 1 .. n /\ m - 1 \in 0 .. n /\ m \in 0 .. n /\ n - (j + 1) = m - 1 /\ j + 1 \in 0 .. n
    BY <1>1
  <2>2. p \in Nat /\ off[m] = p + Len(ss[m]) /\ HeldAt(s, p, ss[m]) /\ off[m] \in Nat
    BY <1>4, <2>1
  <2>3. F[off[m]] = Ending(j)
    BY <1>6
  <2>. HIDE DEF m, p
  <2>4. Len(ss[m]) > 0 /\ ItemLen(s, w, p) = Len(ss[m]) /\ ItemAt(s, w, p) = v[m]
    BY <2>1, <2>2 DEF n, ItemsIn
  <2>5. p \in 0 .. Len(s)
    <3>1. p + Len(ss[m]) <= Len(s) /\ Len(ss[m]) \in Nat /\ Len(s) \in Nat
      BY <1>2, <2>1, <2>2 DEF HeldAt, n
    <3>. QED BY <2>2, <3>1
  <2>6. F[p] = <<v[m]>> \o F[off[m]]
    <3>1. ItemLen(s, w, p) > 0 /\ p + ItemLen(s, w, p) = off[m]
      BY <2>2, <2>4
    <3>2. F[p] = <<ItemAt(s, w, p)>> \o F[p + ItemLen(s, w, p)]
      BY <1>2, <2>5, <3>1, ItemsDef DEF F
    <3>. QED BY <2>4, <3>1, <3>2
  <2>7. <<v[m]>> \o Ending(j) = Ending(j + 1)
    <3>. DEFINE x == <<v[m]>>
                y == Ending(j)
                c == x \o y
    <3>1. \A k \in 1 .. j : n - j + k \in 1 .. n
      BY <1>1
    <3>2. x \in Seq(V) /\ y \in Seq(V) /\ Len(x) = 1 /\ Len(y) = j /\ x[1] = v[m]
      BY <1>1, <2>1, <3>1
    <3>3. \A k \in 1 .. j : y[k] = v[n - j + k]
      OBVIOUS
    <3>. HIDE DEF x, y
    <3>4. /\ c \in Seq(V) /\ Len(c) = 1 + j
          /\ \A k \in 1 .. 1 + j : c[k] = IF k <= 1 THEN x[k] ELSE y[k - 1]
      <4>1. /\ c \in Seq(V) /\ Len(c) = Len(x) + Len(y)
            /\ \A k \in 1 .. Len(x) + Len(y) : c[k] = IF k <= Len(x) THEN x[k] ELSE y[k - Len(x)]
        <5>1. x \in Seq(V) /\ y \in Seq(V)
          BY <3>2
        <5>. QED BY <5>1, ConcatProperties
      <4>. HIDE DEF c
      <4>. QED BY <3>2, <4>1
    <3>. HIDE DEF c
    <3>5. ASSUME NEW k \in 1 .. j + 1
          PROVE  c[k] = v[n - (j + 1) + k]
      <4>1. CASE k = 1
        <5>1. n - (j + 1) + k = m /\ k \in 1 .. 1 + j
          BY <1>1, <2>1, <4>1 DEF m
        <5>. QED BY <3>2, <3>4, <4>1, <5>1
      <4>2. CASE k # 1
        <5>1. k - 1 \in 1 .. j /\ n - j + (k - 1) = n - (j + 1) + k /\ k \in 1 .. 1 + j /\ ~(k <= 1)
          BY <1>1, <4>2
        <5>2. c[k] = y[k - 1] /\ y[k - 1] = v[n - j + (k - 1)]
          BY <3>3, <3>4, <5>1
        <5>. QED BY <5>1, <5>2
      <4>. QED BY <4>1, <4>2
    <3>6. c = [k \in 1 .. j + 1 |-> c[k]]
      BY <1>1, <3>4
    <3>7. c = Ending(j + 1)
      BY <3>5, <3>6
    <3>. QED BY <3>7 DEF c, x, y
  <2>8. F[p] = Ending(j + 1)
    BY <2>3, <2>6, <2>7, Zenon
  <2>. QED BY <2>1, <2>8 DEF p
<1>7. 0 .. n \subseteq S
  <2>. HIDE DEF S
  <2>. QED BY <1>1, <1>5, <1>6, UpwardInduction
<1>8. F[off[n - n]] = Ending(n) /\ n - n = 0
  <2>1. n \in 0 .. n /\ n - n = 0
    BY <1>1
  <2>2. n \in S
    <3>. HIDE DEF S
    <3>. QED BY <1>7, <2>1
  <2>3. F[off[n - n]] = Ending(n)
    <3>. HIDE DEF Ending
    <3>. QED BY <2>2
  <2>. QED BY <2>1, <2>3
<1>9. Ending(n) = v
  <2>1. v = [k \in 1 .. n |-> v[k]]
    BY DEF n
  <2>2. \A k \in 1 .. n : n - n + k = k
    BY <1>1
  <2>. QED BY <2>1, <2>2
<1>. QED BY <1>4, <1>8, <1>9 DEF F
=============================================================================
