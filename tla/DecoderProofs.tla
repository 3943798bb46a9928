--------------------------- MODULE DecoderProofs ---------------------------
(***************************************************************************)
(* What holds of one UnmarshalCodec on every input, for every schema: no   *)
(* cursor leaves its slice, no string its slab, at any depth; the main     *)
(* loop goes on where a record ends; the pre-scan counts what is decoded.  *)
(***************************************************************************)
EXTENDS Decoder, WireProofs, SequenceTheorems, FiniteSetTheorems

(* A call of UnmarshalCodecInternal: its cursors are inside of its slice,  *)
(* and that is the piece of the input that its offset says.                *)
IsCall(c) ==
  /\ DOMAIN c = {"data", "off", "cold", "pi", "counts", "i", "out"}
  /\ c.data \in Seq(Byte) /\ c.off \in Nat /\ c.cold \subseteq Elems
  /\ c.pi \in 0 .. Len(c.data) /\ c.i \in 0 .. Len(c.data)
  /\ DOMAIN c.counts = Elems /\ DOMAIN c.out = Known
  /\ c.off + Len(c.data) <= Len(input)
  /\ c.data = Cut(input, c.off, c.off + Len(c.data))

(* The field loops are over a field of theirs, and end inside the slice.   *)
LoopOK ==
  /\ pc \in {"prescan", "main", "run", "entry", "ok", "err"}
  /\ field \in Known \cup {0} /\ end \in 0 .. l
  /\ pc = "run" => field \in Listed
  /\ pc = "entry" => field \in Map \cup Stamp \cup Span /\ i <= end
  /\ pc \in {"prescan", "main"} => end = 0

(* The call that the k-th of the stack waits for.                          *)
Inner(k) == IF k = Len(stack) THEN top ELSE stack[k + 1].call

StackOK ==
  /\ IsSeq(stack)
  /\ \A k \in DOMAIN stack :
       /\ stack[k].f \in Msg /\ IsCall(stack[k].call)
       /\ stack[k].call.i + Len(Inner(k).data) <= Len(stack[k].call.data)

Inv == input \in Seq(Byte) /\ IsCall(top) /\ LoopOK /\ StackOK

-----------------------------------------------------------------------------
LEMMA KnownKinds ==
  /\ Packed \cup Fixed \subseteq Known /\ Map \cup Stamp \cup Span \subseteq Known
  /\ Msg \subseteq Known /\ Elems \subseteq Msg /\ Known \subseteq Nat \ {0}
  /\ Listed \subseteq (Packed \cup Fixed) \cap Repeated
BY DecoderAssumption DEF Known, Fixed, Elems, Listed

LEMMA OneKind ==
  /\ Packed \cap Fixed = {} /\ Packed \cap Num = {} /\ Fixed8 \cap Fixed4 = {}
  /\ Msg \cap (Packed \cup Fixed \cup Num \cup Text \cup Bytes \cup Map \cup Stamp \cup Span) = {}
  /\ (Map \cup Stamp \cup Span) \cap (Packed \cup Fixed \cup Num \cup Text \cup Bytes) = {}
  /\ (Text \cup Bytes) \cap (Packed \cup Fixed \cup Num) = {} /\ Fixed \cap Num = {}
<1>. DEFINE kinds == <<Packed, Fixed8, Fixed4, Num, Text, Bytes, Msg, Map, Stamp, Span>>
<1>1. DOMAIN kinds = 1 .. 10
  OBVIOUS
<1>2. \A j, k \in 1 .. 10 : j # k => kinds[j] \cap kinds[k] = {}
  BY <1>1, DecoderAssumption
<1>3. /\ kinds[1] = Packed /\ kinds[2] = Fixed8 /\ kinds[3] = Fixed4 /\ kinds[4] = Num
      /\ kinds[5] = Text /\ kinds[6] = Bytes /\ kinds[7] = Msg /\ kinds[8] = Map
      /\ kinds[9] = Stamp /\ kinds[10] = Span
  OBVIOUS
<1>. HIDE DEF kinds
<1>. QED BY <1>2, <1>3 DEF Fixed

LEMMA Pushed ==
  ASSUME NEW s, IsSeq(s), NEW e
  PROVE  /\ IsSeq(Append(s, e)) /\ Len(Append(s, e)) = Len(s) + 1
         /\ \A k \in 1 .. Len(s) : Append(s, e)[k] = s[k]
         /\ Append(s, e)[Len(s) + 1] = e
<1>1. PICK S : s \in Seq(S)
  BY DEF IsSeq
<1>. DEFINE T == S \cup {e}
<1>2. s \in Seq(T) /\ e \in T
  BY <1>1
<1>. HIDE DEF T
<1>. QED BY <1>2, AppendProperties DEF IsSeq

LEMMA Popped ==
  ASSUME NEW s, IsSeq(s), s # <<>>
  PROVE  /\ IsSeq(Front(s)) /\ Len(Front(s)) = Len(s) - 1 /\ Len(s) >= 1
         /\ \A k \in 1 .. Len(s) - 1 : Front(s)[k] = s[k]
         /\ Last(s) = s[Len(s)]
<1>1. PICK S : s \in Seq(S)
  BY DEF IsSeq
<1>2. Len(s) \in Nat /\ Len(s) >= 1 /\ Len(s) - 1 \in Int /\ 1 \in Int
  BY <1>1
<1>3. \A k \in 1 .. Len(s) - 1 : s[k] \in S
  BY <1>1, <1>2
<1>. DEFINE n == Len(s) - 1
            t == SubSeq(s, 1, n)
<1>5. Front(s) = t /\ Last(s) = s[Len(s)]
  BY DEF Front, Last
<1>8. n \in Nat /\ n = Len(s) - 1
  BY <1>2
<1>. HIDE DEF n
<1>4. /\ t \in Seq(S)
      /\ Len(t) = IF 1 <= n THEN n - 1 + 1 ELSE 0
      /\ \A k \in 1 .. n - 1 + 1 : t[k] = s[1 + k - 1]
  BY <1>3, <1>8, SubSeqProperties
<1>. HIDE DEF t
<1>6. t \in Seq(S) /\ Len(t) = Len(s) - 1
  BY <1>4, <1>8
<1>7. ASSUME NEW k \in 1 .. Len(s) - 1
      PROVE  t[k] = s[k]
  <2>1. k \in 1 .. n - 1 + 1 /\ 1 + k - 1 = k
    BY <1>8
  <2>2. t[k] = s[1 + k - 1]
    BY <1>4, <2>1
  <2>. QED BY <2>1, <2>2
<1>. QED BY <1>2, <1>5, <1>6, <1>7 DEF IsSeq

(* A piece of a piece.                                                     *)
LEMMA CutOfCut ==
  ASSUME NEW s \in Seq(Byte), NEW from \in 0 .. Len(s), NEW to \in from .. Len(s),
         NEW a \in 0 .. to - from, NEW b \in a .. to - from
  PROVE  Cut(Cut(s, from, to), a, b) = Cut(s, from + a, from + b)
<1>. DEFINE t == Cut(s, from, to)
            u == Cut(t, a, b)
            c == from + a
            d == from + b
            v == Cut(s, c, d)
<1>1. t \in Seq(Byte) /\ Len(t) = to - from /\ \A k \in 1 .. to - from : t[k] = s[from + k]
  BY CutFacts
<1>. HIDE DEF t
<1>2. a \in 0 .. Len(t) /\ b \in a .. Len(t)
  BY <1>1
<1>3. u \in Seq(Byte) /\ Len(u) = b - a /\ \A k \in 1 .. b - a : u[k] = t[a + k]
  BY <1>1, <1>2, CutFacts
<1>4. c \in 0 .. Len(s) /\ d \in c .. Len(s) /\ d - c = b - a /\ c = from + a
  OBVIOUS
<1>. HIDE DEF c, d
<1>5. v \in Seq(Byte) /\ Len(v) = d - c /\ \A k \in 1 .. d - c : v[k] = s[c + k]
  BY <1>4, CutFacts
<1>6. ASSUME NEW k \in 1 .. b - a
      PROVE  u[k] = v[k]
  <2>1. u[k] = t[a + k] /\ a + k \in 1 .. to - from
    BY <1>3
  <2>2. t[a + k] = s[from + (a + k)]
    BY <1>1, <2>1
  <2>3. v[k] = s[c + k] /\ c + k = from + (a + k)
    BY <1>4, <1>5
  <2>. QED BY <2>1, <2>2, <2>3
<1>. HIDE DEF u, v
<1>7. Len(u) = Len(v)
  BY <1>3, <1>4, <1>5
<1>8. \A k \in 1 .. Len(u) : u[k] = v[k]
  BY <1>3, <1>6
<1>9. u = v
  BY <1>3, <1>5, <1>7, <1>8, SeqEqual
<1>. QED BY <1>9 DEF u, v, t, c, d

(* What the arms read lies inside the slice.                               *)
LEMMA TagInside ==
  ASSUME NEW s \in Seq(Byte), NEW p \in 0 .. Len(s), VarintLen(s, p) > 0
  PROVE  /\ After(s, p) \in p + 1 .. Len(s)
         /\ TagAt(s, p) \in Nat /\ WireType(TagAt(s, p)) \in 0 .. 7 /\ FieldNum(TagAt(s, p)) \in Nat
         /\ HasOperand(s, p) => Body(s, p) \in After(s, p) + 1 .. Len(s) /\ Operand(s, p) \in Nat
         /\ Fits(s, p) => HasOperand(s, p) /\ BodyEnd(s, p) \in Body(s, p) .. Len(s)
<1>1. VarintLen(s, p) \in 1 .. Left(s, p)
  BY VarintStaysInside
<1>2. After(s, p) \in p + 1 .. Len(s)
  BY <1>1 DEF After, Left
<1>3. TagAt(s, p) \in Nat
  BY ValueIsAWord, Widths DEF TagAt
<1>4. \A x \in Nat : x % 8 \in 0 .. 7 /\ x \div 8 \in Nat
  BY Z3
<1>5. ASSUME HasOperand(s, p)
      PROVE  Body(s, p) \in After(s, p) + 1 .. Len(s) /\ Operand(s, p) \in Nat
  <2>. DEFINE q == After(s, p)
  <2>1. q \in 0 .. Len(s) /\ VarintLen(s, q) > 0
    BY <1>2, <1>5 DEF HasOperand
  <2>. HIDE DEF q
  <2>2. VarintLen(s, q) \in 1 .. Left(s, q)
    BY <2>1, VarintStaysInside
  <2>3. After(s, q) \in q + 1 .. Len(s)
    BY <2>1, <2>2 DEF After, Left
  <2>4. VarintValue(s, q) \in Nat
    BY <2>1, ValueIsAWord, Widths
  <2>. QED BY <2>3, <2>4 DEF Body, Operand, q
<1>6. ASSUME Fits(s, p)
      PROVE  HasOperand(s, p) /\ BodyEnd(s, p) \in Body(s, p) .. Len(s)
  BY <1>2, <1>5, <1>6 DEF Fits, BodyEnd, Left
<1>. QED BY <1>2, <1>3, <1>4, <1>5, <1>6 DEF WireType, FieldNum

LEMMA PrescanMoves ==
  ASSUME NEW s \in Seq(Byte), NEW p \in 0 .. Len(s), VarintLen(s, p) > 0
  PROVE  PrescanNext(s, p) \in p + 1 .. Len(s)
<1>. DEFINE q == After(s, p)
<1>1. q \in p + 1 .. Len(s)
  BY TagInside
<1>2. /\ HasOperand(s, p) => Body(s, p) \in p + 1 .. Len(s)
      /\ Fits(s, p) => BodyEnd(s, p) \in p + 1 .. Len(s)
  BY TagInside
<1>3. /\ Left(s, q) >= Width8 => q + Width8 \in p + 1 .. Len(s)
      /\ Left(s, q) >= Width4 => q + Width4 \in p + 1 .. Len(s)
  BY <1>1, Widths DEF Left
<1>. HIDE DEF q
<1>. QED BY <1>1, <1>2, <1>3, Zenon DEF PrescanNext, q

(* Where a step of the loops stays in its call.                            *)
LEMMA StaysInCall ==
  ASSUME Inv, UNCHANGED <<input, stack>>, IsCall(top), IsCall(top)', top'.data = top.data, LoopOK'
  PROVE  Inv'
<1>1. \A k : Len(Inner(k)'.data) = Len(Inner(k).data)
  BY DEF Inner
<1>. QED BY <1>1 DEF Inv, StackOK, IsCall

LEMMA InitInv == Init => Inv
<1>. SUFFICES ASSUME Init PROVE Inv
  OBVIOUS
<1>1. input \in Seq(Byte) /\ 0 \in Nat
  BY DecoderAssumption DEF Init
<1>2. PICK nils \in SUBSET Elems : top = Frame(input, 0, nils) /\ pc = Start(nils)
  BY DEF Init
<1>3. Cut(input, 0, Len(input)) = input
  BY <1>1 DEF Cut
<1>4. IsCall(top)
  BY <1>1, <1>2, <1>3 DEF IsCall, Frame
<1>5. LoopOK
  BY <1>1, <1>2 DEF LoopOK, Init, Start, l, data, Frame
<1>6. StackOK
  BY DEF StackOK, Init, IsSeq
<1>. QED BY <1>1, <1>4, <1>5, <1>6 DEF Inv

-----------------------------------------------------------------------------
(* The frame of a call is kept when its cursors and what it stored change. *)
LEMMA SameFrame ==
  ASSUME IsCall(top), input' = input, DOMAIN top' = DOMAIN top,
         top'.data = top.data, top'.off = top.off, top'.cold = top.cold,
         top'.pi \in 0 .. l, top'.i \in 0 .. l,
         DOMAIN top'.counts = Elems, DOMAIN top'.out = Known
  PROVE  IsCall(top)' /\ l' = l
BY DEF IsCall, l, data

LEMMA FailsKeeps == Inv /\ Fails => Inv'
<1>. SUFFICES ASSUME Inv, Fails PROVE Inv'
  OBVIOUS
<1>1. UNCHANGED <<input, top, stack, field, end>> /\ pc' = "err"
  BY DEF Fails
<1>2. IsCall(top)' /\ top'.data = top.data /\ l' = l
  BY <1>1 DEF Inv, IsCall, l, data
<1>3. LoopOK'
  BY <1>1, <1>2 DEF Inv, LoopOK
<1>. QED BY <1>1, <1>2, <1>3, StaysInCall DEF Inv

(* The cursor moves.                                                       *)
LEMMA MovesInside ==
  ASSUME Inv, input' = input, NEW to \in 0 .. l, Moves(to)
  PROVE  /\ IsCall(top)' /\ l' = l /\ i' = to /\ top'.data = top.data /\ top'.out = top.out
         /\ top'.counts = top.counts /\ top'.cold = top.cold
<1>1. DOMAIN top = {"data", "off", "cold", "pi", "counts", "i", "out"}
  BY DEF Inv, IsCall
<1>2. top' = [top EXCEPT !.i = to]
  BY DEF Moves
<1>3. /\ DOMAIN top' = DOMAIN top /\ top'.data = top.data /\ top'.off = top.off
      /\ top'.cold = top.cold /\ top'.pi = top.pi /\ top'.counts = top.counts
      /\ top'.out = top.out /\ top'.i = to
  BY <1>1, <1>2
<1>. QED BY <1>3, SameFrame DEF Inv, IsCall, l, data, i

LEMMA StoresInside ==
  ASSUME Inv, NEW to \in 0 .. l, NEW f, NEW x, Stores(to, f, x)
  PROVE  /\ IsCall(top)' /\ l' = l /\ i' = to /\ top'.data = top.data
         /\ top'.out = Stored(top.out, f, x) /\ top'.counts = top.counts /\ top'.cold = top.cold
<1>1. DOMAIN top = {"data", "off", "cold", "pi", "counts", "i", "out"}
  BY DEF Inv, IsCall
<1>2. top' = [top EXCEPT !.i = to, !.out = Stored(top.out, f, x)] /\ input' = input
  BY <1>1 DEF Stores
<1>3. /\ DOMAIN top' = DOMAIN top /\ top'.data = top.data /\ top'.off = top.off
      /\ top'.cold = top.cold /\ top'.pi = top.pi /\ top'.counts = top.counts
      /\ top'.out = Stored(top.out, f, x) /\ top'.i = to
  BY <1>1, <1>2
<1>4. DOMAIN Stored(top.out, f, x) = DOMAIN top.out
  BY DEF Stored
<1>. QED BY <1>2, <1>3, <1>4, SameFrame DEF Inv, IsCall, l, data, i

(* A field of one value.                                                   *)
LEMMA StoresKeeps ==
  ASSUME Inv, pc = "main" \/ (pc = "run" /\ field \in Listed),
         NEW to \in 0 .. l, NEW f, NEW x, Stores(to, f, x)
  PROVE  Inv'
<1>1. IsCall(top)' /\ l' = l /\ top'.data = top.data
  BY StoresInside
<1>2. UNCHANGED <<input, pc, stack, field, end>>
  BY DEF Stores
<1>3. LoopOK'
  BY <1>1, <1>2 DEF Inv, LoopOK
<1>. QED BY <1>1, <1>2, <1>3, StaysInCall DEF Inv

LEMMA DataFacts ==
  ASSUME Inv
  PROVE  data \in Seq(Byte) /\ l = Len(data) /\ l \in Nat /\ i \in 0 .. l /\ top.pi \in 0 .. l
BY DEF Inv, IsCall, data, l, i

(* A field loop begins, behind the length of the body.                     *)
LEMMA LoopKeeps ==
  ASSUME Inv, pc = "main", i < l, VarintLen(data, i) > 0, Fits(data, i), NEW kind, NEW f, Loop(kind, f),
         \/ kind = "run" /\ f \in Listed
         \/ kind = "entry" /\ f \in Map \cup Stamp \cup Span
  PROVE  Inv'
<1>1. /\ Body(data, i) \in 0 .. l /\ BodyEnd(data, i) \in Body(data, i) .. l
  BY DataFacts, TagInside
<1>2. /\ pc' = kind /\ field' = f /\ Moves(Body(data, i)) /\ end' = BodyEnd(data, i)
      /\ UNCHANGED <<input, stack>>
  BY DEF Loop
<1>3. IsCall(top)' /\ l' = l /\ i' = Body(data, i) /\ top'.data = top.data
  BY <1>1, <1>2, MovesInside
<1>4. LoopOK'
  BY <1>1, <1>2, <1>3, KnownKinds DEF LoopOK
<1>. QED BY <1>2, <1>3, <1>4, StaysInCall DEF Inv

LEMMA MainKeeps ==
  ASSUME Inv, NEW f \in Known, ReadField(f), ~Enter(f)
  PROVE  Inv'
<1>1. pc = "main" /\ i < l /\ VarintLen(data, i) > 0
  BY DEF ReadField, Arm
<1>2. /\ After(data, i) \in 0 .. l
      /\ HasOperand(data, i) => Body(data, i) \in 0 .. l
      /\ Fits(data, i) => BodyEnd(data, i) \in 0 .. l
  BY <1>1, DataFacts, TagInside
<1>3. CASE WrongWireType(f) \/ BadBody(f)
  BY <1>3, FailsKeeps DEF WrongWireType, BadBody
<1>4. CASE Varint(f)
  BY <1>1, <1>2, <1>4, FailsKeeps, StoresKeeps DEF Varint
<1>5. CASE FixedWidth(f)
  <2>. DEFINE to == After(data, i) + Width(f)
  <2>1. Width(f) \in Nat
    BY Widths DEF Width
  <2>2. \/ to > l /\ Fails
        \/ to <= l /\ Stores(to, f, Cut(data, to - Width(f), to))
    BY <1>5 DEF FixedWidth
  <2>3. to <= l => to \in 0 .. l
    BY <1>2, <2>1, DataFacts
  <2>. HIDE DEF to
  <2>. QED BY <1>1, <2>2, <2>3, FailsKeeps, StoresKeeps
<1>6. CASE TextField(f) \/ BytesField(f)
  BY <1>1, <1>2, <1>6, StoresKeeps DEF TextField, BytesField
<1>7. CASE EnterRun(f) \/ EnterEntry(f)
  BY <1>1, <1>7, LoopKeeps DEF EnterRun, EnterEntry
<1>. QED BY <1>3, <1>4, <1>5, <1>6, <1>7 DEF ReadField

(* A call for a nested message: the caller waits on top of the stack, ...  *)
LEMMA EnterStack ==
  ASSUME Inv, NEW f, Enter(f)
  PROVE  LET m    == Len(stack)
             call == [top EXCEPT !.i = Body(data, i)]
         IN  /\ m \in Nat /\ DOMAIN stack = 1 .. m
             /\ IsSeq(stack') /\ Len(stack') = m + 1 /\ DOMAIN stack' = 1 .. m + 1
             /\ stack'[m + 1].f = f /\ stack'[m + 1].call = call
             /\ \A k : k = m + 1 => Inner(k)' = top'
             /\ DOMAIN call = DOMAIN top /\ call.data = top.data /\ call.off = top.off
             /\ call.cold = top.cold /\ call.pi = top.pi /\ call.counts = top.counts
             /\ call.out = top.out /\ call.i = Body(data, i)
             /\ \A k \in 1 .. m : stack'[k] = stack[k] /\ Inner(k)'.data = Inner(k).data
<1>. DEFINE m    == Len(stack)
            from == Body(data, i)
            call == [top EXCEPT !.i = from]
<1>1. IsSeq(stack) /\ m \in Nat /\ DOMAIN stack = 1 .. m
  BY SeqFacts DEF Inv, StackOK
<1>2. stack' = Append(stack, [f |-> f, call |-> call])
  BY DEF Enter
<1>. HIDE DEF from
<1>3. /\ DOMAIN call = DOMAIN top /\ call.data = top.data /\ call.off = top.off
      /\ call.cold = top.cold /\ call.pi = top.pi /\ call.counts = top.counts
      /\ call.out = top.out /\ call.i = from
  BY DEF Inv, IsCall
<1>. HIDE DEF call
<1>4. /\ IsSeq(stack') /\ Len(stack') = m + 1
      /\ \A k \in 1 .. m : stack'[k] = stack[k]
      /\ stack'[m + 1] = [f |-> f, call |-> call]
  BY <1>1, <1>2, Pushed
<1>5. stack'[m + 1].f = f /\ stack'[m + 1].call = call
  BY <1>4
<1>. HIDE DEF m
<1>6. DOMAIN stack' = 1 .. m + 1
  BY <1>4, SeqFacts
<1>7. \A k : k = m + 1 => Inner(k)' = top'
  BY <1>4 DEF Inner
<1>8. ASSUME NEW k \in 1 .. m
      PROVE  Inner(k)'.data = Inner(k).data
  <2>1. /\ Inner(k)' = IF k = m + 1 THEN top' ELSE stack'[k + 1].call
        /\ Inner(k)  = IF k = m THEN top ELSE stack[k + 1].call
    BY <1>4 DEF Inner, m
  <2>2. CASE k = m
    BY <1>1, <1>3, <1>5, <2>1, <2>2
  <2>3. CASE k # m
    <3>1. k + 1 \in 1 .. m /\ stack'[k + 1] = stack[k + 1] /\ k # m + 1
      BY <1>1, <1>4, <2>3
    <3>. QED BY <2>1, <2>3, <3>1
  <2>. QED BY <2>2, <2>3
<1>. QED BY <1>1, <1>3, <1>4, <1>5, <1>6, <1>7, <1>8 DEF m, call, from

(* ... and the slice is a piece of the caller's, hence of the input.       *)
LEMMA EnterSlice ==
  ASSUME Inv, NEW f, Arm(f), Enter(f)
  PROVE  LET from == Body(data, i)
             to   == BodyEnd(data, i)
         IN  /\ from \in i .. l /\ to \in from .. l /\ Fits(data, i) /\ f \in Msg
             /\ Len(Cut(data, from, to)) = to - from /\ Cut(data, from, to) \in Seq(Byte)
             /\ \E nils \in SUBSET Elems :
                  top' = Frame(Cut(data, from, to), top.off + from, nils) /\ pc' = Start(nils)
<1>. DEFINE from == Body(data, i)
            to   == BodyEnd(data, i)
<1>1. i < l /\ VarintLen(data, i) > 0 /\ f \in Msg /\ Fits(data, i)
  BY DEF Arm, Enter
<1>2. \E nils \in SUBSET Elems : top' = Frame(Cut(data, from, to), top.off + from, nils) /\ pc' = Start(nils)
  BY DEF Enter, Colds, OffsetInSlab
<1>3. from \in 0 .. l /\ from \in i .. l /\ to \in from .. l
  BY <1>1, DataFacts, TagInside
<1>. HIDE DEF from, to
<1>4. Cut(data, from, to) \in Seq(Byte) /\ Len(Cut(data, from, to)) = to - from
  BY <1>3, DataFacts, CutFacts
<1>. QED BY <1>1, <1>2, <1>3, <1>4 DEF from, to

LEMMA EnterKeeps ==
  ASSUME Inv, NEW f \in Known, Arm(f), Enter(f)
  PROVE  Inv'
<1>. DEFINE from == Body(data, i)
            to   == BodyEnd(data, i)
            m    == Len(stack)
            call == [top EXCEPT !.i = from]
<1>1. pc = "main" /\ UNCHANGED <<input, field, end>>
  BY DEF Arm, Enter
<1>2. PICK nils \in SUBSET Elems : top' = Frame(Cut(data, from, to), top.off + from, nils) /\ pc' = Start(nils)
  BY EnterSlice
<1>3. /\ from \in i .. l /\ to \in from .. l /\ f \in Msg
      /\ Cut(data, from, to) \in Seq(Byte) /\ Len(Cut(data, from, to)) = to - from
  BY EnterSlice
<1>4. /\ m \in Nat /\ DOMAIN stack = 1 .. m
      /\ IsSeq(stack') /\ Len(stack') = m + 1 /\ DOMAIN stack' = 1 .. m + 1
      /\ stack'[m + 1].f = f /\ stack'[m + 1].call = call
      /\ \A k : k = m + 1 => Inner(k)' = top'
      /\ DOMAIN call = DOMAIN top /\ call.data = top.data /\ call.off = top.off
      /\ call.cold = top.cold /\ call.pi = top.pi /\ call.counts = top.counts
      /\ call.out = top.out /\ call.i = from
      /\ \A k \in 1 .. m : stack'[k] = stack[k] /\ Inner(k)'.data = Inner(k).data
  BY EnterStack
<1>. HIDE DEF from, to, m, call
<1>5. /\ DOMAIN top = {"data", "off", "cold", "pi", "counts", "i", "out"}
      /\ top.data \in Seq(Byte) /\ top.off \in Nat /\ top.off + l <= Len(input) /\ input \in Seq(Byte)
      /\ top.data = Cut(input, top.off, top.off + l)
      /\ from \in 0 .. l
  BY <1>3, DataFacts DEF Inv, IsCall, l, data
<1>6. Cut(data, from, to) = Cut(input, top.off + from, top.off + to)
  <2>. DEFINE a == top.off
              b == top.off + l
  <2>1. a \in 0 .. Len(input) /\ b \in a .. Len(input) /\ b - a = l
    BY <1>5, DataFacts
  <2>. HIDE DEF a, b
  <2>2. Cut(Cut(input, a, b), from, to) = Cut(input, a + from, a + to)
    BY <1>3, <1>5, <2>1, CutOfCut
  <2>. QED BY <1>5, <2>2 DEF a, b, data
<1>7. IsCall(top)'
  <2>1. /\ top'.data = Cut(data, from, to) /\ top'.off = top.off + from /\ top'.cold = nils
        /\ top'.pi = 0 /\ top'.i = 0 /\ DOMAIN top'.counts = Elems /\ DOMAIN top'.out = Known
        /\ DOMAIN top' = {"data", "off", "cold", "pi", "counts", "i", "out"}
    BY <1>2 DEF Frame
  <2>2. top.off + from \in Nat /\ (top.off + from) + (to - from) = top.off + to
        /\ top.off + to <= Len(input) /\ to - from \in Nat
    BY <1>3, <1>5, DataFacts
  <2>. QED BY <1>1, <1>3, <1>6, <2>1, <2>2 DEF IsCall
<1>8. LoopOK'
  <2>1. pc' \in {"prescan", "main"} /\ end' = 0 /\ l' \in Nat
    BY <1>1, <1>2, <1>7 DEF Start, Inv, LoopOK, IsCall, l, data
  <2>. QED BY <1>1, <2>1 DEF LoopOK, Inv
<1>9. IsCall(call)
  BY <1>4, <1>5 DEF Inv, IsCall, l, data
<1>10. call.i + Len(top'.data) <= Len(call.data)
  <2>1. top'.data = Cut(data, from, to)
    BY <1>2 DEF Frame
  <2>. QED BY <1>3, <1>4, <1>5, <2>1, DataFacts DEF l, data
<1>11. ASSUME NEW k \in 1 .. m + 1
       PROVE  /\ stack'[k].f \in Msg /\ IsCall(stack'[k].call)
              /\ stack'[k].call.i + Len(Inner(k)'.data) <= Len(stack'[k].call.data)
  <2>1. CASE k = m + 1
    BY <1>3, <1>4, <1>9, <1>10, <2>1
  <2>2. CASE k # m + 1
    <3>1. k \in 1 .. m
      BY <1>4, <2>2
    <3>. QED BY <1>4, <3>1 DEF Inv, StackOK
  <2>. QED BY <2>1, <2>2
<1>12. StackOK'
  BY <1>1, <1>4, <1>11 DEF StackOK, IsCall
<1>. QED BY <1>1, <1>5, <1>7, <1>8, <1>12 DEF Inv

(* The return: the caller goes on behind the slice it handed down.         *)
LEMMA ReturnFacts ==
  ASSUME Inv, Return
  PROVE  LET m == Len(stack)
             c == stack[m].call
         IN  /\ m \in Nat /\ m >= 1 /\ DOMAIN stack = 1 .. m
             /\ IsSeq(stack') /\ Len(stack') = m - 1 /\ DOMAIN stack' = 1 .. m - 1
             /\ stack[m].f \in Msg /\ IsCall(c) /\ c.i + l <= Len(c.data) /\ Inner(m) = top
             /\ DOMAIN top' = DOMAIN c /\ top'.data = c.data /\ top'.off = c.off
             /\ top'.cold = c.cold /\ top'.pi = c.pi /\ top'.counts = c.counts
             /\ top'.out = Stored(c.out, stack[m].f, top.out) /\ top'.i = c.i + l
             /\ \A k \in 1 .. m - 1 : stack'[k] = stack[k] /\ Inner(k)'.data = Inner(k).data
<1>. DEFINE m == Len(stack)
            c == stack[m].call
<1>1. /\ stack # <<>> /\ stack' = Front(stack)
      /\ top' = [Last(stack).call EXCEPT !.i = @ + l, !.out = Stored(@, Last(stack).f, top.out)]
  BY DEF Return
<1>2. /\ IsSeq(stack) /\ IsSeq(stack') /\ m \in Nat /\ m >= 1 /\ Len(stack') = m - 1
      /\ \A k \in 1 .. m - 1 : stack'[k] = stack[k]
      /\ Last(stack) = stack[m] /\ DOMAIN stack = 1 .. m /\ DOMAIN stack' = 1 .. m - 1
  BY <1>1, Popped, SeqFacts DEF Inv, StackOK
<1>3. stack[m].f \in Msg /\ IsCall(c) /\ c.i + l <= Len(c.data) /\ Inner(m) = top
  <2>1. m \in DOMAIN stack /\ Inner(m) = top
    BY <1>2 DEF Inner
  <2>. QED BY <2>1 DEF Inv, StackOK, l, data
<1>4. /\ DOMAIN top' = DOMAIN c /\ top'.data = c.data /\ top'.off = c.off
      /\ top'.cold = c.cold /\ top'.pi = c.pi /\ top'.counts = c.counts
      /\ top'.out = Stored(c.out, stack[m].f, top.out) /\ top'.i = c.i + l
  <2>1. top' = [c EXCEPT !.i = c.i + l, !.out = Stored(c.out, stack[m].f, top.out)]
    BY <1>1, <1>2, <1>3 DEF IsCall
  <2>. HIDE DEF c
  <2>. QED BY <1>3, <2>1 DEF IsCall
<1>. HIDE DEF c
<1>5. ASSUME NEW k \in 1 .. m - 1
      PROVE  Inner(k)'.data = Inner(k).data
  <2>1. CASE k = m - 1
    BY <1>2, <1>4, <2>1 DEF Inner, c
  <2>2. CASE k # m - 1
    <3>1. k + 1 \in 1 .. m - 1 /\ stack'[k + 1] = stack[k + 1] /\ k # m
      BY <1>2, <2>2
    <3>. QED BY <1>2, <2>2, <3>1 DEF Inner
  <2>. QED BY <2>1, <2>2
<1>. QED BY <1>2, <1>3, <1>4, <1>5 DEF c, m

LEMMA ReturnKeeps == Inv /\ Return => Inv'
<1>. SUFFICES ASSUME Inv, Return PROVE Inv'
  OBVIOUS
<1>. DEFINE m == Len(stack)
            c == stack[m].call
<1>1. pc = "main" /\ UNCHANGED <<input, pc, field, end>>
  BY DEF Return
<1>2. /\ m \in Nat /\ m >= 1 /\ DOMAIN stack = 1 .. m
      /\ IsSeq(stack') /\ Len(stack') = m - 1 /\ DOMAIN stack' = 1 .. m - 1
      /\ stack[m].f \in Msg /\ IsCall(c) /\ c.i + l <= Len(c.data) /\ Inner(m) = top
      /\ DOMAIN top' = DOMAIN c /\ top'.data = c.data /\ top'.off = c.off
      /\ top'.cold = c.cold /\ top'.pi = c.pi /\ top'.counts = c.counts
      /\ top'.out = Stored(c.out, stack[m].f, top.out) /\ top'.i = c.i + l
      /\ \A k \in 1 .. m - 1 : stack'[k] = stack[k] /\ Inner(k)'.data = Inner(k).data
  BY ReturnFacts
<1>. HIDE DEF c, m
<1>3. IsCall(top)'
  <2>1. DOMAIN Stored(c.out, stack[m].f, top.out) = DOMAIN c.out
    BY DEF Stored
  <2>2. c.i + l \in 0 .. Len(c.data)
    BY <1>2, DataFacts DEF IsCall
  <2>. QED BY <1>1, <1>2, <2>1, <2>2 DEF IsCall
<1>4. LoopOK'
  <2>1. l' \in Nat
    BY <1>3 DEF IsCall, l, data
  <2>. QED BY <1>1, <2>1 DEF LoopOK, Inv
<1>5. ASSUME NEW k \in 1 .. m - 1
      PROVE  /\ stack'[k].f \in Msg /\ IsCall(stack'[k].call)
             /\ stack'[k].call.i + Len(Inner(k)'.data) <= Len(stack'[k].call.data)
  <2>1. k \in DOMAIN stack
    BY <1>2
  <2>. QED BY <1>2, <2>1 DEF Inv, StackOK
<1>6. StackOK'
  BY <1>1, <1>2, <1>5 DEF StackOK, IsCall
<1>. QED BY <1>1, <1>3, <1>4, <1>6 DEF Inv

(* The loop over an entry: it reads data[:end], so it ends at end.         *)
LEMMA EntryFacts ==
  ASSUME Inv, pc = "entry"
  PROVE  /\ EntryData \in Seq(Byte) /\ Len(EntryData) = end /\ end \in 0 .. l /\ i \in 0 .. end
         /\ EntryData = Cut(data, 0, end)
<1>1. end \in 0 .. l /\ i <= end
  BY DEF Inv, LoopOK
<1>2. EntryData = Cut(data, 0, end)
  BY DEF EntryData, Cut
<1>. DEFINE t == Cut(data, 0, end)
<1>3. t \in Seq(Byte) /\ Len(t) = end - 0
  <2>1. 0 \in 0 .. Len(data) /\ end \in 0 .. Len(data) /\ data \in Seq(Byte)
    BY <1>1, DataFacts
  <2>. QED BY <2>1, CutFacts
<1>. HIDE DEF t
<1>4. Len(t) = end
  BY <1>1, <1>3, DataFacts
<1>. QED BY <1>1, <1>2, <1>3, <1>4, DataFacts DEF t

LEMMA EntryReadsKeeps ==
  ASSUME Inv, pc = "entry", NEW to \in 0 .. end, EntryReads(to)
  PROVE  Inv' /\ i' = to /\ top'.data = top.data /\ top'.out = top.out /\ l' = l
<1>1. UNCHANGED <<input, pc, stack, field, end>> /\ Moves(to)
  BY DEF EntryReads
<1>2. to \in 0 .. l /\ to <= end
  BY EntryFacts, DataFacts
<1>3. IsCall(top)' /\ l' = l /\ i' = to /\ top'.data = top.data /\ top'.out = top.out
  BY <1>1, <1>2, MovesInside
<1>4. LoopOK'
  BY <1>1, <1>2, <1>3 DEF Inv, LoopOK
<1>. QED BY <1>1, <1>3, <1>4, StaysInCall DEF Inv

(* A scalar of an entry that finds what it needs ends inside of it.        *)
LEMMA ScalarInside ==
  ASSUME NEW s \in Seq(Byte), NEW p \in 0 .. Len(s), p < Len(s), VarintLen(s, p) > 0,
         NEW kind, Readable(kind, s, p)
  PROVE  ReadTo(kind, s, p) \in p .. Len(s)
<1>1. /\ After(s, p) \in 0 .. Len(s) /\ After(s, p) >= p
      /\ HasOperand(s, p) => Body(s, p) \in 0 .. Len(s) /\ Body(s, p) >= p
      /\ Fits(s, p) => BodyEnd(s, p) \in 0 .. Len(s) /\ BodyEnd(s, p) >= p
  BY TagInside
<1>2. SizeOf(kind) \in Nat
  BY Widths DEF SizeOf
<1>3. CASE kind \in {"int64", "int32", "bool"}
  BY <1>1, <1>3 DEF Readable, ReadTo
<1>4. CASE kind \in {"fixed64", "fixed32"}
  <2>1. Left(s, After(s, p)) >= SizeOf(kind) /\ ReadTo(kind, s, p) = After(s, p) + SizeOf(kind)
    BY <1>4 DEF Readable, ReadTo
  <2>. QED BY <1>1, <1>2, <2>1 DEF Left
<1>5. CASE kind \notin {"int64", "int32", "bool", "fixed64", "fixed32"}
  BY <1>1, <1>5 DEF Readable, ReadTo
<1>. QED BY <1>3, <1>4, <1>5

LEMMA EntryKeeps ==
  ASSUME Inv, EntryKey \/ EntryValue \/ EntryUnknown
  PROVE  /\ \E to \in 0 .. end : to >= i /\ EntryReads(to)
         /\ pc = "entry"
<1>. DEFINE s == EntryData
<1>1. /\ pc = "entry" /\ i < end /\ VarintLen(s, i) > 0
  BY DEF EntryKey, EntryValue, EntryUnknown, EntryTag
<1>2. s \in Seq(Byte) /\ Len(s) = end /\ i \in 0 .. Len(s) /\ end \in Nat
  BY <1>1, EntryFacts, DataFacts
<1>. HIDE DEF s
<1>3. /\ After(s, i) \in 0 .. end /\ After(s, i) >= i
      /\ WireType(TagAt(s, i)) \in 0 .. 7
      /\ HasOperand(s, i) => Body(s, i) \in 0 .. end /\ Body(s, i) >= i
      /\ Fits(s, i) => BodyEnd(s, i) \in 0 .. end /\ BodyEnd(s, i) >= i
  BY <1>1, <1>2, TagInside
<1>4. CASE EntryKey \/ EntryValue
  <2>1. PICK kind : Readable(kind, s, i) /\ EntryReads(ReadTo(kind, s, i))
    BY <1>4 DEF EntryKey, EntryValue, s
  <2>. DEFINE to == ReadTo(kind, s, i)
  <2>2. to \in i .. Len(s)
    BY <1>1, <1>2, <2>1, ScalarInside
  <2>. HIDE DEF to
  <2>3. to \in 0 .. end /\ to >= i /\ EntryReads(to)
    BY <1>2, <2>1, <2>2 DEF to
  <2>. QED BY <1>1, <2>3
<1>6. CASE EntryUnknown
  <2>. DEFINE n == SkipField(s, After(s, i), WireType(TagAt(s, i)))
  <2>1. n > 0 /\ EntryReads(After(s, i) + n)
    BY <1>6 DEF EntryUnknown, s
  <2>2. n = -1 \/ n \in 1 .. Left(s, After(s, i))
    BY <1>2, <1>3, SkipStaysInside
  <2>. HIDE DEF n
  <2>. DEFINE to == After(s, i) + n
  <2>3. to \in 0 .. end /\ to >= i /\ EntryReads(to)
    BY <1>2, <1>3, <2>1, <2>2 DEF Left
  <2>. HIDE DEF to
  <2>. QED BY <1>1, <2>3
<1>. QED BY <1>1, <1>4, <1>6

(* A loop is left: the call's cursor stays where it is.                    *)
LEMMA LeaveKeeps ==
  ASSUME Inv, UNCHANGED <<input, stack>>, IsCall(top)', top'.data = top.data,
         LoopEnds \/ (pc' \in {"main", "ok"} /\ UNCHANGED <<field, end>> /\ pc \in {"main", "prescan"})
  PROVE  Inv'
<1>1. pc' \in {"main", "ok"} /\ field' \in {0, field} /\ end' = 0
  BY DEF Inv, LoopOK, LoopEnds
<1>2. l' \in Nat
  BY DEF IsCall, l, data
<1>3. LoopOK'
  BY <1>1, <1>2 DEF LoopOK, Inv
<1>. QED BY <1>3, StaysInCall DEF Inv

LEMMA LeaveEntryFacts ==
  ASSUME Inv, LeaveEntry
  PROVE  /\ IsCall(top)' /\ top'.data = top.data /\ top'.i = top.i /\ top'.counts = top.counts
         /\ top'.cold = top.cold /\ \A f \in Known : f # field => top'.out[f] = top.out[f]
         /\ top'.out = [top.out EXCEPT ![field] =
              IF field \in Map THEN (mk :> mv) @@ top.out[field] ELSE <<Time(field, mk, mv)>>]
<1>. DEFINE x == IF field \in Map THEN (mk :> mv) @@ top.out[field] ELSE <<Time(field, mk, mv)>>
<1>1. DOMAIN top = {"data", "off", "cold", "pi", "counts", "i", "out"} /\ DOMAIN top.out = Known
  BY DEF Inv, IsCall
<1>2. top' = [top EXCEPT !.out = [top.out EXCEPT ![field] = x]] /\ input' = input
  BY <1>1 DEF LeaveEntry, LoopEnds
<1>. HIDE DEF x
<1>3. /\ DOMAIN top' = DOMAIN top /\ top'.data = top.data /\ top'.off = top.off
      /\ top'.cold = top.cold /\ top'.pi = top.pi /\ top'.counts = top.counts
      /\ top'.out = [top.out EXCEPT ![field] = x] /\ top'.i = top.i
  BY <1>1, <1>2
<1>4. IsCall(top)'
  BY <1>1, <1>2, <1>3, SameFrame DEF Inv, IsCall, l, data
<1>. QED BY <1>1, <1>3, <1>4 DEF x

LEMMA PrescanFacts ==
  ASSUME Inv, PrescanStep
  PROVE  /\ IsCall(top)' /\ top'.data = top.data /\ top'.i = top.i /\ top'.out = top.out
         /\ top'.cold = top.cold
         /\ top'.pi = PrescanNext(data, top.pi) /\ top'.pi \in top.pi + 1 .. l
         /\ top'.counts = [f \in Elems |->
              IF WireType(TagAt(data, top.pi)) = 2 /\ Fits(data, top.pi)
                 /\ FieldNum(TagAt(data, top.pi)) = f
              THEN top.counts[f] + 1 ELSE top.counts[f]]
<1>. DEFINE to == PrescanNext(data, top.pi)
            cs == [f \in Elems |->
                    IF WireType(TagAt(data, top.pi)) = 2 /\ Fits(data, top.pi)
                       /\ FieldNum(TagAt(data, top.pi)) = f
                    THEN top.counts[f] + 1 ELSE top.counts[f]]
<1>1. DOMAIN top = {"data", "off", "cold", "pi", "counts", "i", "out"}
  BY DEF Inv, IsCall
<1>2. top' = [top EXCEPT !.pi = to, !.counts = cs] /\ input' = input
  BY <1>1 DEF PrescanStep
<1>3. to \in top.pi + 1 .. l
  BY DataFacts, PrescanMoves DEF PrescanStep
<1>4. DOMAIN cs = Elems
  OBVIOUS
<1>. HIDE DEF to, cs
<1>5. /\ DOMAIN top' = DOMAIN top /\ top'.data = top.data /\ top'.off = top.off
      /\ top'.cold = top.cold /\ top'.pi = to /\ top'.counts = cs
      /\ top'.out = top.out /\ top'.i = top.i
  BY <1>1, <1>2
<1>6. top'.pi \in 0 .. l
  BY <1>3, <1>5, DataFacts
<1>7. IsCall(top)'
  BY <1>1, <1>2, <1>4, <1>5, <1>6, SameFrame DEF Inv, IsCall, l, data
<1>. QED BY <1>3, <1>5, <1>7 DEF to, cs

LEMMA NextInv == Inv /\ [Next]_vars => Inv'
<1>. SUFFICES ASSUME Inv, [Next]_vars PROVE Inv'
  OBVIOUS
<1>1. CASE PrescanStep
  <2>1. UNCHANGED <<input, pc, stack, field, end>> /\ pc = "prescan"
    BY <1>1 DEF PrescanStep
  <2>2. IsCall(top)' /\ top'.data = top.data /\ l' = l /\ i' = i
    BY <1>1, PrescanFacts DEF l, data, i
  <2>3. LoopOK'
    BY <2>1, <2>2 DEF Inv, LoopOK
  <2>. QED BY <2>1, <2>2, <2>3, StaysInCall DEF Inv
<1>2. CASE PrescanEnd \/ Finish
  <2>1. UNCHANGED <<input, top, stack, field, end>> /\ pc' \in {"main", "ok"} /\ pc \in {"main", "prescan"}
    BY <1>2 DEF PrescanEnd, Finish
  <2>2. IsCall(top)'
    BY <2>1 DEF Inv, IsCall
  <2>. QED BY <2>1, <2>2, LeaveKeeps
<1>3. CASE BadTag \/ EntryFails
  BY <1>3, FailsKeeps DEF BadTag, EntryFails
<1>4. CASE Unknown
  <2>. DEFINE n == SkipField(data, After(data, i), Wt)
  <2>1. /\ pc = "main" /\ i < l /\ VarintLen(data, i) > 0
        /\ \/ n < 0 /\ Fails
           \/ n > 0 /\ Moves(After(data, i) + n) /\ UNCHANGED <<input, pc, stack, field, end, mk, mv>>
    BY <1>4 DEF Unknown
  <2>2. After(data, i) \in 0 .. l /\ Wt \in 0 .. 7
    BY <2>1, DataFacts, TagInside DEF Wt
  <2>3. n = -1 \/ n \in 1 .. Left(data, After(data, i))
    BY <2>2, DataFacts, SkipStaysInside
  <2>. HIDE DEF n
  <2>4. n > 0 => After(data, i) + n \in 0 .. l
    BY <2>2, <2>3, DataFacts DEF Left
  <2>5. CASE n > 0 /\ Moves(After(data, i) + n) /\ UNCHANGED <<input, pc, stack, field, end, mk, mv>>
    <3>1. IsCall(top)' /\ l' = l /\ top'.data = top.data
      BY <2>4, <2>5, MovesInside
    <3>2. LoopOK'
      BY <2>1, <2>5, <3>1 DEF Inv, LoopOK
    <3>. QED BY <2>5, <3>1, <3>2, StaysInCall DEF Inv
  <2>. QED BY <2>1, <2>5, FailsKeeps
<1>5. ASSUME NEW f \in Known, ReadField(f)
      PROVE  Inv'
  <2>1. CASE Enter(f)
    BY <1>5, <2>1, EnterKeeps DEF ReadField
  <2>. QED BY <1>5, <2>1, MainKeeps
<1>6. CASE VarintRun
  <2>1. pc = "run" /\ field \in Packed /\ field \in Listed /\ i < end
    BY <1>6 DEF VarintRun, RunGoesOn, Listed
  <2>2. VarintLen(data, i) > 0 => After(data, i) \in 0 .. l
    BY DataFacts, TagInside
  <2>. QED BY <1>6, <2>1, <2>2, FailsKeeps, StoresKeeps DEF VarintRun
<1>7. CASE FixedRun
  <2>1. CASE field \in Packed
    BY <1>7, <2>1, OneKind DEF FixedRun
  <2>2. CASE field \notin Packed
    <3>1. pc = "run" /\ field \in Listed /\ i + Width(field) <= end /\ end \in 0 .. l
      BY <1>7, <2>2 DEF FixedRun, RunGoesOn, Inv, LoopOK
    <3>2. i + Width(field) \in 0 .. l
      BY <3>1, DataFacts, Widths DEF Width
    <3>. QED BY <1>7, <3>1, <3>2, StoresKeeps DEF FixedRun
  <2>. QED BY <2>1, <2>2
<1>8. CASE LeaveRun
  <2>1. UNCHANGED <<input, top, stack>> /\ LoopEnds
    BY <1>8 DEF LeaveRun, LoopEnds
  <2>2. IsCall(top)'
    BY <2>1 DEF Inv, IsCall
  <2>. QED BY <2>1, <2>2, LeaveKeeps
<1>9. CASE EntryKey \/ EntryValue \/ EntryUnknown
  BY <1>9, EntryKeeps, EntryReadsKeeps
<1>10. CASE LeaveEntry
  <2>1. UNCHANGED <<input, stack>> /\ LoopEnds
    BY <1>10 DEF LeaveEntry, LoopEnds
  <2>. QED BY <1>10, <2>1, LeaveEntryFacts, LeaveKeeps
<1>11. CASE Return
  BY <1>11, ReturnKeeps
<1>12. CASE UNCHANGED vars
  <2>1. UNCHANGED <<input, pc, top, stack, field, end>>
    BY <1>12 DEF vars
  <2>2. IsCall(top)' /\ l' = l /\ i' = i
    BY <2>1 DEF Inv, IsCall, l, data, i
  <2>3. LoopOK'
    BY <2>1, <2>2 DEF Inv, LoopOK
  <2>. QED BY <2>1, <2>2, <2>3, StaysInCall DEF Inv
<1>. QED BY <1>1, <1>2, <1>3, <1>4, <1>5, <1>6, <1>7, <1>8, <1>9, <1>10, <1>11, <1>12 DEF Next

LEMMA InvTypeOK == Inv => TypeOK
<1>. SUFFICES ASSUME Inv PROVE TypeOK
  OBVIOUS
<1>1. \A c \in Calls : IsCall(c)
  BY DEF Calls, Inv, StackOK
<1>. QED BY <1>1 DEF TypeOK, Inv, IsCall, LoopOK, StackOK

LEMMA InvSlab == Inv => SlabHolds
<1>. SUFFICES ASSUME Inv PROVE SlabHolds
  OBVIOUS
<1>1. \A c \in Calls : IsCall(c)
  BY DEF Calls, Inv, StackOK
<1>2. NeedsSlab => slab = input
  BY DEF slab
<1>. QED BY <1>1, <1>2 DEF SlabHolds, Inv, IsCall, StackOK, Inner

(* On every input, and for every schema, the cursors of every call are     *)
(* inside of the call's slice, and so is the end of a run or an entry: no  *)
(* index of the generated code is out of range.                            *)
THEOREM TypeCorrect == Spec => []TypeOK
<1>. QED BY InitInv, NextInv, InvTypeOK, PTL DEF Spec

(* On every input, at every depth, the offset that is handed down is that  *)
(* of the slice in the slab: strings are cut from the bytes of the message.*)
THEOREM SlabInStep == Spec => []SlabHolds
<1>. QED BY InitInv, NextInv, InvSlab, PTL DEF Spec

-----------------------------------------------------------------------------
(* The records before an offset are whole; a call c took the first n of    *)
(* its slice, and holds a message for each of those with one.              *)
Sound(s, p) == \A j \in DOMAIN Records(s) : Records(s)[j].from <= p => Whole(s, Records(s)[j])

Kids(s, n, f) == {k \in 1 .. n : Records(s)[k].f = f /\ Records(s)[k].wt = 2}

Done(c, n) ==
  /\ n \in 0 .. Len(Records(c.data))
  /\ \A k \in 1 .. n : Records(c.data)[k].f # -1
  /\ \A f \in Elems : IsSeq(c.out[f]) /\ Len(c.out[f]) = Cardinality(Kids(c.data, n, f))

(* It is between two records, or inside of one of field f that ends at to. *)
AtRecord(c) == Sound(c.data, c.i) => \E n \in Nat : Done(c, n) /\ c.i = Pos(c.data, n)

InRecord(c, f, to) ==
  Sound(c.data, c.i) =>
    \E n \in Nat : /\ Done(c, n) /\ n < Len(Records(c.data))
                   /\ Records(c.data)[n + 1].f = f /\ Records(c.data)[n + 1].wt = 2
                   /\ Records(c.data)[n + 1].to = to

(* What is left of a run can be read to its end.                           *)
RunLeft(c, f, to) ==
  Sound(c.data, c.i) =>
    /\ c.i <= to
    /\ IF f \in Packed THEN c.i = to \/ c.data[to] < Base ELSE (to - c.i) % Width(f) = 0

(* The pre-scan counts the messages, and has counted them all.             *)
AllGood(s) == \A k \in DOMAIN Records(s) : Records(s)[k].f # -1

Counted(c, n) == \A f \in Elems : c.counts[f] = Cardinality(Kids(c.data, n, f))

Scanning(c) ==
  AllGood(c.data) => \E n \in 0 .. Len(Records(c.data)) : c.pi = Pos(c.data, n) /\ Counted(c, n)

Scanned(c) == c.cold # {} /\ AllGood(c.data) => Counted(c, Len(Records(c.data)))

Waits(k) == InRecord(stack[k].call, stack[k].f, stack[k].call.i + Len(Inner(k).data))

RInv ==
  /\ pc \in {"prescan", "main"} => AtRecord(top)
  /\ pc \in {"run", "entry"} => InRecord(top, field, end)
  /\ pc = "run" => RunLeft(top, field, end)
  /\ pc = "prescan" => Scanning(top)
  /\ pc # "prescan" => Scanned(top)
  /\ \A k \in DOMAIN stack : Waits(k) /\ Scanned(stack[k].call)

-----------------------------------------------------------------------------
(* The record at an offset, when it is not malformed.                      *)
LEMMA GoodRecord ==
  ASSUME NEW s \in Seq(Byte), NEW p \in 0 .. Len(s) - 1
  PROVE  LET r  == RecordAt(s, p)
             wt == WireType(TagAt(s, p))
             q  == After(s, p)
             n  == SkipField(s, q, wt)
         IN  /\ VarintLen(s, p) > 0 /\ n > 0 =>
                  r.f = FieldNum(TagAt(s, p)) /\ r.wt = wt /\ r.from = q /\ r.to = q + n /\ r.f # -1
             /\ r.f # -1 => VarintLen(s, p) > 0 /\ n > 0
<1>. DEFINE t  == VarintLen(s, p)
            wt == WireType(TagAt(s, p))
            a  == p + t
            n  == SkipField(s, a, wt)
            m  == FieldNum(TagAt(s, p))
<1>0. p \in 0 .. Len(s) /\ p \in Nat
  OBVIOUS
<1>1. t = -1 \/ t \in 1 .. Left(s, p)
  BY <1>0, VarintStaysInside
<1>2. t > 0 => a \in 0 .. Len(s) /\ wt \in 0 .. 7 /\ m \in Nat /\ m # -1
  BY <1>0, <1>1, TagInside DEF After
<1>3. t > 0 => n = -1 \/ n \in 1 .. Left(s, a)
  <2>. SUFFICES ASSUME t > 0 PROVE n = -1 \/ n \in 1 .. Left(s, a)
    OBVIOUS
  <2>1. a \in 0 .. Len(s) /\ wt \in 0 .. 7
    BY <1>2
  <2>. HIDE DEF a, wt
  <2>. QED BY <2>1, SkipStaysInside
<1>4. RecordAt(s, p) =
        LET x == IF t < 0 THEN -1 ELSE n
        IN  [f |-> IF x < 0 THEN -1 ELSE m, num |-> m, wt |-> wt,
             from |-> IF x < 0 THEN p ELSE a, to |-> IF x < 0 THEN Len(s) ELSE a + x]
  BY DEF RecordAt, TagAt
<1>5. After(s, p) = a
  BY DEF After
<1>. HIDE DEF n, m, wt, a, t
<1>6. CASE t > 0 /\ n > 0
  <2>1. RecordAt(s, p) = [f |-> m, num |-> m, wt |-> wt, from |-> a, to |-> a + n]
    BY <1>1, <1>3, <1>4, <1>6
  <2>. QED BY <1>2, <1>5, <1>6, <2>1 DEF m, wt, n, t
<1>7. CASE ~(t > 0 /\ n > 0)
  <2>1. RecordAt(s, p).f = -1
    BY <1>1, <1>3, <1>4, <1>7
  <2>. QED BY <1>5, <1>7, <2>1 DEF m, wt, n, t
<1>. QED BY <1>6, <1>7

(* ... and where each arm of the loops finds its end.                      *)
LEMMA GoodEnd ==
  ASSUME NEW s \in Seq(Byte), NEW p \in 0 .. Len(s) - 1, VarintLen(s, p) > 0
  PROVE  LET q  == After(s, p)
             wt == WireType(TagAt(s, p))
             n  == SkipField(s, q, wt)
         IN  /\ wt = 0 => (n > 0 <=> HasOperand(s, p)) /\ q + n = Body(s, p)
             /\ wt = 1 => (n > 0 <=> Left(s, q) >= Width8) /\ (n > 0 => n = Width8)
             /\ wt = 2 => (n > 0 <=> Fits(s, p)) /\ (n > 0 => q + n = BodyEnd(s, p))
             /\ wt = 5 => (n > 0 <=> Left(s, q) >= Width4) /\ (n > 0 => n = Width4)
             /\ wt \notin {0, 1, 2, 5} => ~(n > 0)
<1>. DEFINE q  == After(s, p)
            wt == WireType(TagAt(s, p))
            n  == SkipField(s, q, wt)
            z  == VarintLen(s, q)
            v  == VarintValue(s, q)
<1>1. q \in 0 .. Len(s) /\ wt \in 0 .. 7
  BY TagInside
<1>. HIDE DEF q, wt
<1>2. /\ z = -1 \/ z \in 1 .. Left(s, q)
      /\ v \in Nat
  BY <1>1, VarintStaysInside, ValueIsAWord, Widths
<1>3. /\ HasOperand(s, p) <=> z > 0
      /\ Body(s, p) = q + z /\ BodyEnd(s, p) = (q + z) + v
      /\ Fits(s, p) <=> z > 0 /\ v <= Len(s) - (q + z)
  BY DEF HasOperand, Body, BodyEnd, Fits, Operand, After, Left, q
<1>4. Left(s, q) = Len(s) - q /\ Left(s, q + z) = Len(s) - (q + z)
  BY DEF Left
<1>. HIDE DEF z, v
<1>5. /\ wt = 0 => n = z
      /\ wt = 1 => n = IF Left(s, q) < Width8 THEN -1 ELSE Width8
      /\ wt = 2 => n = IF z < 0 \/ Left(s, q + z) < v THEN -1 ELSE z + v
      /\ wt = 5 => n = IF Left(s, q) < Width4 THEN -1 ELSE Width4
      /\ wt \notin {0, 1, 2, 5} => n = -1
  BY <1>1 DEF SkipField, z, v
<1>. HIDE DEF n
<1>6. /\ wt = 0 => (n > 0 <=> HasOperand(s, p)) /\ q + n = Body(s, p)
      /\ wt = 1 => (n > 0 <=> Left(s, q) >= Width8) /\ (n > 0 => n = Width8)
      /\ wt = 5 => (n > 0 <=> Left(s, q) >= Width4) /\ (n > 0 => n = Width4)
      /\ wt \notin {0, 1, 2, 5} => ~(n > 0)
  BY <1>1, <1>2, <1>3, <1>4, <1>5, Widths
<1>7. ASSUME wt = 2
      PROVE  (n > 0 <=> Fits(s, p)) /\ (n > 0 => q + n = BodyEnd(s, p))
  BY <1>1, <1>2, <1>3, <1>4, <1>5, <1>7
<1>. QED BY <1>6, <1>7 DEF n, wt, q

LEMMA SoundBefore ==
  ASSUME NEW s \in Seq(Byte), NEW p \in Nat, NEW q \in p .. Len(s), Sound(s, q)
  PROVE  Sound(s, p)
<1>. SUFFICES ASSUME NEW j \in DOMAIN Records(s), Records(s)[j].from <= p
              PROVE  Records(s)[j].from <= q
  BY DEF Sound
<1>1. j - 1 \in 0 .. Len(Records(s)) /\ j - 1 < Len(Records(s)) /\ (j - 1) + 1 = j
  BY NextRecord
<1>. DEFINE k == j - 1
<1>. HIDE DEF k
<1>2. Pos(s, k) \in 0 .. Len(s) - 1 /\ Records(s)[k + 1] = RecordAt(s, Pos(s, k))
  BY <1>1, NextRecord DEF k
<1>3. RecordAt(s, Pos(s, k)).from \in Nat
  BY <1>2, RecordInside
<1>. QED BY <1>1, <1>2, <1>3 DEF k

(* One record more.                                                        *)
LEMMA KidsFinite ==
  ASSUME NEW s, NEW n \in Nat, NEW f
  PROVE  IsFiniteSet(Kids(s, n, f)) /\ Cardinality(Kids(s, n, f)) \in Nat
<1>1. IsFiniteSet(1 .. n)
  BY FS_Interval
<1>2. Kids(s, n, f) \subseteq 1 .. n
  BY DEF Kids
<1>. QED BY <1>1, <1>2, FS_Subset, FS_CardinalityType

LEMMA OneMore ==
  ASSUME NEW s, NEW n \in Nat, NEW f
  PROVE  Cardinality(Kids(s, n + 1, f)) =
           Cardinality(Kids(s, n, f)) + IF Records(s)[n + 1].f = f /\ Records(s)[n + 1].wt = 2 THEN 1 ELSE 0
<1>1. CASE Records(s)[n + 1].f = f /\ Records(s)[n + 1].wt = 2
  <2>1. Kids(s, n + 1, f) = Kids(s, n, f) \cup {n + 1} /\ n + 1 \notin Kids(s, n, f)
    BY <1>1 DEF Kids
  <2>. QED BY <1>1, <2>1, KidsFinite, FS_AddElement
<1>2. CASE ~(Records(s)[n + 1].f = f /\ Records(s)[n + 1].wt = 2)
  <2>1. Kids(s, n + 1, f) = Kids(s, n, f)
    BY <1>2 DEF Kids
  <2>. QED BY <1>2, <2>1, KidsFinite
<1>. QED BY <1>1, <1>2

LEMMA OneMoreDone ==
  ASSUME NEW c, NEW d, c.data \in Seq(Byte), d.data = c.data,
         NEW n \in Nat, n < Len(Records(c.data)), Done(c, n), Records(c.data)[n + 1].f # -1,
         \A f \in Elems :
           IF Records(c.data)[n + 1].f = f /\ Records(c.data)[n + 1].wt = 2
           THEN IsSeq(d.out[f]) /\ Len(d.out[f]) = Len(c.out[f]) + 1
           ELSE d.out[f] = c.out[f]
  PROVE  Done(d, n + 1) /\ Pos(d.data, n + 1) = Records(c.data)[n + 1].to
<1>. DEFINE rs == Records(c.data)
<1>0. Len(rs) \in Nat
  BY NextRecord DEF Done
<1>1. n + 1 \in 0 .. Len(rs) /\ n + 1 # 0
  BY <1>0
<1>2. \A k \in 1 .. n + 1 : rs[k].f # -1
  BY DEF Done
<1>3. ASSUME NEW f \in Elems
      PROVE  IsSeq(d.out[f]) /\ Len(d.out[f]) = Cardinality(Kids(c.data, n + 1, f))
  <2>1. IsSeq(c.out[f]) /\ Len(c.out[f]) = Cardinality(Kids(c.data, n, f))
    BY DEF Done
  <2>2. Cardinality(Kids(c.data, n, f)) \in Nat
    BY KidsFinite
  <2>. DEFINE many == Cardinality(Kids(c.data, n, f))
              more == Cardinality(Kids(c.data, n + 1, f))
  <2>3. CASE Records(c.data)[n + 1].f = f /\ Records(c.data)[n + 1].wt = 2
    <3>1. more = many + 1
      BY <2>3, OneMore
    <3>2. IsSeq(d.out[f]) /\ Len(d.out[f]) = Len(c.out[f]) + 1
      BY <2>3
    <3>. QED BY <2>1, <3>1, <3>2
  <2>4. CASE ~(Records(c.data)[n + 1].f = f /\ Records(c.data)[n + 1].wt = 2)
    <3>1. more = many + 0
      BY <2>4, OneMore
    <3>2. d.out[f] = c.out[f]
      BY <2>4
    <3>. QED BY <2>1, <2>2, <3>1, <3>2
  <2>. QED BY <2>3, <2>4
<1>. QED BY <1>1, <1>2, <1>3 DEF Done, Pos

-----------------------------------------------------------------------------
(* The calls that wait are not concerned by what the running one does.     *)
LEMMA StillWaiting ==
  ASSUME RInv, UNCHANGED stack, top'.data = top.data
  PROVE  (\A k \in DOMAIN stack : Waits(k) /\ Scanned(stack[k].call))'
<1>1. \A k : Inner(k)'.data = Inner(k).data
  BY DEF Inner
<1>2. \A k : Waits(k)' <=> Waits(k)
  BY <1>1 DEF Waits
<1>. QED BY <1>2 DEF RInv

LEMMA StillScanned ==
  ASSUME NEW c, NEW d, d.data = c.data, d.cold = c.cold, d.counts = c.counts, Scanned(c)
  PROVE  Scanned(d)
BY DEF Scanned, Counted

LEMMA SameDone ==
  ASSUME NEW c, NEW d, d.data = c.data, \A f \in Elems : d.out[f] = c.out[f], NEW n, Done(c, n)
  PROVE  Done(d, n)
BY DEF Done

LEMMA MainAt ==
  ASSUME Inv, RInv, pc = "main", i < l, Sound(data, i)
  PROVE  \E n \in Nat : /\ Done(top, n) /\ n < Len(Records(data)) /\ i = Pos(data, n)
                        /\ Records(data)[n + 1] = RecordAt(data, i)
<1>1. PICK n \in Nat : Done(top, n) /\ i = Pos(data, n)
  BY DEF RInv, AtRecord, data, i
<1>2. n \in 0 .. Len(Records(data)) /\ data \in Seq(Byte) /\ l = Len(data)
  BY <1>1, DataFacts DEF Done, data
<1>3. n < Len(Records(data))
  BY <1>1, <1>2, NextRecord, DataFacts
<1>4. Records(data)[n + 1] = RecordAt(data, i)
  BY <1>1, <1>2, <1>3, NextRecord
<1>. QED BY <1>1, <1>3, <1>4

(* From one record to the next in one step.                                *)
LEMMA Onward ==
  ASSUME Inv, RInv, pc = "main", i < l, pc' = "main", UNCHANGED stack,
         top'.data = data, top'.cold = top.cold, top'.counts = top.counts,
         top'.i = RecordAt(data, i).to, RecordAt(data, i).f \notin Elems \cup {-1},
         \A f \in Elems : top'.out[f] = top.out[f]
  PROVE  RInv'
<1>1. data \in Seq(Byte) /\ i \in 0 .. l - 1 /\ l = Len(data) /\ top.data = data /\ top.i = i
  BY DataFacts DEF data, i
<1>2. top'.i \in i + 1 .. l
  BY <1>1, RecordInside
<1>3. ASSUME Sound(top'.data, top'.i)
      PROVE  \E n \in Nat : Done(top', n) /\ top'.i = Pos(top'.data, n)
  <2>1. Sound(data, i)
    BY <1>1, <1>2, <1>3, SoundBefore
  <2>2. PICK n \in Nat : /\ Done(top, n) /\ n < Len(Records(data)) /\ i = Pos(data, n)
                         /\ Records(data)[n + 1] = RecordAt(data, i)
    BY <2>1, MainAt
  <2>3. /\ top.data \in Seq(Byte) /\ top'.data = top.data /\ n < Len(Records(top.data))
        /\ Records(top.data)[n + 1].f # -1
        /\ \A f \in Elems : Records(top.data)[n + 1].f # f /\ top'.out[f] = top.out[f]
    BY <1>1, <2>2
  <2>4. Done(top', n + 1) /\ Pos(top'.data, n + 1) = Records(top.data)[n + 1].to
    BY <2>2, <2>3, OneMoreDone
  <2>. QED BY <1>1, <2>2, <2>4
<1>4. AtRecord(top')
  BY <1>3 DEF AtRecord
<1>5. Scanned(top')
  BY <1>1, StillScanned DEF RInv
<1>. QED BY <1>1, <1>4, <1>5, StillWaiting DEF RInv

(* Into a record, ...                                                      *)
LEMMA Inside ==
  ASSUME Inv, RInv, pc = "main", i < l, RecordAt(data, i).f # -1, RecordAt(data, i).wt = 2,
         NEW c, c.data = data, c.i \in i .. l, \A f \in Elems : c.out[f] = top.out[f],
         NEW to, to = RecordAt(data, i).to
  PROVE  InRecord(c, RecordAt(data, i).f, to)
<1>1. data \in Seq(Byte) /\ i \in Nat /\ l = Len(data) /\ top.data = data
  BY DataFacts DEF data
<1>. SUFFICES ASSUME Sound(c.data, c.i)
              PROVE  \E n \in Nat : /\ Done(c, n) /\ n < Len(Records(c.data))
                                    /\ Records(c.data)[n + 1].f = RecordAt(data, i).f
                                    /\ Records(c.data)[n + 1].wt = 2
                                    /\ Records(c.data)[n + 1].to = to
  BY DEF InRecord
<1>2. Sound(data, i)
  BY <1>1, SoundBefore
<1>3. PICK n \in Nat : /\ Done(top, n) /\ n < Len(Records(data)) /\ i = Pos(data, n)
                       /\ Records(data)[n + 1] = RecordAt(data, i)
  BY <1>2, MainAt
<1>4. Done(c, n)
  BY <1>1, <1>3, SameDone
<1>. QED BY <1>3, <1>4

(* ... on in it, ...                                                       *)
LEMMA Within ==
  ASSUME NEW c, NEW d, c.data \in Seq(Byte), d.data = c.data, c.i \in Nat, d.i \in c.i .. Len(c.data),
         \A f \in Elems : d.out[f] = c.out[f], NEW f, NEW to, InRecord(c, f, to)
  PROVE  InRecord(d, f, to)
<1>1. Sound(d.data, d.i) => Sound(c.data, c.i)
  BY SoundBefore
<1>. QED BY <1>1, SameDone DEF InRecord

(* ... and out of it, at its end: its message, if it has one, was stored.  *)
LEMMA Outward ==
  ASSUME NEW c, NEW d, c.data \in Seq(Byte), d.data = c.data, c.i \in Nat, d.i \in c.i .. Len(c.data),
         NEW f \in Known, NEW to, InRecord(c, f, to), Sound(d.data, d.i) => d.i = to,
         \A g \in Elems : IF g = f THEN IsSeq(c.out[g]) =>
                                          IsSeq(d.out[g]) /\ Len(d.out[g]) = Len(c.out[g]) + 1
                          ELSE d.out[g] = c.out[g]
  PROVE  AtRecord(d)
<1>. SUFFICES ASSUME Sound(d.data, d.i)
              PROVE  \E n \in Nat : Done(d, n) /\ d.i = Pos(d.data, n)
  BY DEF AtRecord
<1>1. Sound(c.data, c.i)
  BY SoundBefore
<1>2. PICK n \in Nat : /\ Done(c, n) /\ n < Len(Records(c.data))
                       /\ Records(c.data)[n + 1].f = f /\ Records(c.data)[n + 1].wt = 2
                       /\ Records(c.data)[n + 1].to = to
  BY <1>1 DEF InRecord
<1>3. f # -1
  BY KnownKinds
<1>4. \A g \in Elems : IsSeq(c.out[g])
  BY <1>2 DEF Done
<1>5. Done(d, n + 1) /\ Pos(d.data, n + 1) = to
  BY <1>2, <1>3, <1>4, OneMoreDone
<1>. QED BY <1>5

-----------------------------------------------------------------------------
(* A call begins before the first record.                                  *)
LEMMA NewCall ==
  ASSUME NEW s \in Seq(Byte), NEW offset, NEW nils \in SUBSET Elems,
         NEW c, c = Frame(s, offset, nils)
  PROVE  AtRecord(c) /\ Scanning(c) /\ (Start(nils) # "prescan" => Scanned(c))
<1>1. /\ c.data = s /\ c.i = 0 /\ c.pi = 0 /\ c.cold = nils
      /\ \A f \in Elems : c.out[f] = <<>> /\ c.counts[f] = 0
  BY KnownKinds DEF Frame
<1>2. Len(Records(s)) \in Nat /\ Pos(s, 0) = 0
  <2>1. DOMAIN Records(s) = 1 .. Len(Records(s)) /\ IsSeq(Records(s))
    BY RecordsChain, SeqFacts DEF Chain
  <2>. QED BY <2>1, SeqFacts DEF Pos
<1>3. ASSUME NEW f
      PROVE  Cardinality(Kids(s, 0, f)) = 0
  <2>1. Kids(s, 0, f) = {}
    BY DEF Kids
  <2>. QED BY <2>1, FS_EmptySet
<1>4. IsSeq(<<>>) /\ Len(<<>>) = 0
  <2>1. <<>> \in Seq({})
    OBVIOUS
  <2>. QED BY <2>1 DEF IsSeq
<1>5. Done(c, 0)
  BY <1>1, <1>2, <1>3, <1>4 DEF Done
<1>6. AtRecord(c)
  BY <1>1, <1>2, <1>5 DEF AtRecord
<1>7. Scanning(c)
  <2>1. Counted(c, 0) /\ 0 \in 0 .. Len(Records(c.data))
    BY <1>1, <1>2, <1>3 DEF Counted
  <2>. QED BY <1>1, <1>2, <2>1 DEF Scanning
<1>8. Start(nils) # "prescan" => Scanned(c)
  BY <1>1 DEF Start, Scanned
<1>. QED BY <1>6, <1>7, <1>8

LEMMA InitRecords == Inv /\ Init => RInv
<1>. SUFFICES ASSUME Inv, Init PROVE RInv
  OBVIOUS
<1>1. PICK nils \in SUBSET Elems : top = Frame(input, 0, nils) /\ pc = Start(nils)
  BY DEF Init
<1>2. stack = <<>>
  BY DEF Init
<1>3. AtRecord(top) /\ Scanning(top) /\ (pc # "prescan" => Scanned(top))
  BY <1>1, NewCall DEF Inv, IsCall
<1>. QED BY <1>1, <1>2, <1>3 DEF RInv, Start

-----------------------------------------------------------------------------
(* The arms of the main loop that end where they began: in the loop.       *)
LEMMA StoresOnward ==
  ASSUME Inv, RInv, pc = "main", i < l, NEW f \in Known \ Elems, NEW x,
         NEW to \in 0 .. l, Stores(to, f, x),
         to = RecordAt(data, i).to, RecordAt(data, i).f = f
  PROVE  RInv'
<1>1. DOMAIN top.out = Known
  BY DEF Inv, IsCall
<1>2. /\ top'.data = data /\ top'.cold = top.cold /\ top'.counts = top.counts /\ top'.i = to
      /\ top'.out = Stored(top.out, f, x)
  BY StoresInside DEF data, i
<1>3. \A g \in Elems : top'.out[g] = top.out[g]
  BY <1>1, <1>2, KnownKinds DEF Stored
<1>4. pc' = "main" /\ UNCHANGED stack
  BY DEF Stores
<1>5. f # -1
  BY KnownKinds
<1>. QED BY <1>2, <1>3, <1>4, <1>5, Onward

LEMMA FailsRecords == Inv /\ RInv /\ pc # "prescan" /\ Fails => RInv'
<1>. SUFFICES ASSUME Inv, RInv, pc # "prescan", Fails PROVE RInv'
  OBVIOUS
<1>1. pc' = "err" /\ UNCHANGED <<top, stack>>
  BY DEF Fails
<1>2. Scanned(top') /\ top'.data = top.data
  BY <1>1 DEF RInv
<1>. QED BY <1>1, <1>2, StillWaiting DEF RInv

(* A run is entered where it can be read to its end.                       *)
LEMMA RunAt ==
  ASSUME Inv, pc = "main", i < l, VarintLen(data, i) > 0, WireType(TagAt(data, i)) = 2, Fits(data, i),
         NEW f \in Listed, FieldNum(TagAt(data, i)) = f, Sound(data, Body(data, i)),
         NEW n \in Nat, n < Len(Records(data)), Records(data)[n + 1] = RecordAt(data, i)
  PROVE  LET from == Body(data, i)
             to   == BodyEnd(data, i)
         IN  IF f \in Packed THEN from = to \/ data[to] < Base ELSE (to - from) % Width(f) = 0
<1>. DEFINE r    == RecordAt(data, i)
            from == Body(data, i)
            to   == BodyEnd(data, i)
            q    == After(data, i)
            b    == Cut(data, from, to)
<1>1. data \in Seq(Byte) /\ i \in 0 .. Len(data) - 1 /\ i \in 0 .. Len(data)
  BY DataFacts
<1>2. /\ q \in i + 1 .. Len(data) /\ from \in q + 1 .. Len(data) /\ to \in from .. Len(data)
  BY <1>1, TagInside
<1>3. /\ r.f = f /\ r.wt = 2 /\ r.from = q /\ r.to = to
  BY <1>1, GoodRecord, GoodEnd
<1>. HIDE DEF r
<1>4. n + 1 \in DOMAIN Records(data)
  <2>1. DOMAIN Records(data) = 1 .. Len(Records(data)) /\ IsSeq(Records(data))
    BY <1>1, RecordsChain, SeqFacts DEF Chain
  <2>. QED BY <2>1, SeqFacts
<1>5. Whole(data, r)
  BY <1>2, <1>3, <1>4 DEF Sound, r
<1>6. BodyOf(data, r) = b
  BY <1>3 DEF BodyOf, BodyFrom, Body, After, q
<1>7. IF f \in Packed THEN b = <<>> \/ Last(b) < Base ELSE Len(b) % Width(f) = 0
  BY <1>3, <1>5, <1>6 DEF Whole
<1>. HIDE DEF from, to, q
<1>8. b \in Seq(Byte) /\ Len(b) = to - from /\ \A k \in 1 .. to - from : b[k] = data[from + k]
  <2>1. from \in 0 .. Len(data)
    BY <1>1, <1>2
  <2>. QED BY <1>1, <1>2, <2>1, CutFacts
<1>. HIDE DEF b
<1>9. CASE f \in Packed
  <2>1. CASE b = <<>>
    BY <1>2, <1>8, <1>9, <2>1 DEF from, to
  <2>2. CASE b # <<>>
    <3>1. Len(b) \in 1 .. to - from /\ from + Len(b) = to
      BY <1>2, <1>8, <2>2
    <3>2. Last(b) = data[to]
      BY <1>8, <3>1 DEF Last
    <3>. QED BY <1>7, <1>9, <2>2, <3>2 DEF to
  <2>. QED BY <2>1, <2>2
<1>10. CASE f \notin Packed
  BY <1>7, <1>8, <1>10 DEF from, to
<1>. QED BY <1>9, <1>10

LEMMA LoopRecords ==
  ASSUME Inv, RInv, pc = "main", i < l, VarintLen(data, i) > 0, WireType(TagAt(data, i)) = 2,
         Fits(data, i), NEW kind, NEW f, FieldNum(TagAt(data, i)) = f, Loop(kind, f),
         \/ kind = "run" /\ f \in Listed
         \/ kind = "entry" /\ f \in Map \cup Stamp \cup Span
  PROVE  RInv'
<1>. DEFINE from == Body(data, i)
            to   == BodyEnd(data, i)
            r    == RecordAt(data, i)
<1>1. data \in Seq(Byte) /\ i \in 0 .. Len(data) - 1 /\ i \in 0 .. Len(data) /\ l = Len(data) /\ data = top.data
  BY DataFacts DEF data
<1>2. from \in i .. l /\ to \in from .. l /\ from \in 0 .. l /\ from \in Nat
  BY <1>1, TagInside
<1>3. r.f = f /\ r.wt = 2 /\ r.to = to /\ r.f # -1
  BY <1>1, GoodRecord, GoodEnd
<1>4. pc' = kind /\ field' = f /\ Moves(from) /\ end' = to /\ UNCHANGED <<input, stack>>
  BY DEF Loop
<1>5. top'.i = from /\ top'.data = data /\ top'.out = top.out /\ top'.counts = top.counts /\ top'.cold = top.cold
  BY <1>1, <1>2, <1>4, MovesInside DEF i
<1>. HIDE DEF r, from, to
<1>6. InRecord(top', f, to)
  BY <1>2, <1>3, <1>5, Inside DEF r
<1>7. kind = "run" => RunLeft(top', f, to)
  <2>. SUFFICES ASSUME kind = "run", Sound(data, from)
                PROVE  from <= to /\ IF f \in Packed THEN from = to \/ data[to] < Base
                                     ELSE (to - from) % Width(f) = 0
    BY <1>5 DEF RunLeft
  <2>1. Sound(data, i)
    BY <1>1, <1>2, SoundBefore
  <2>2. PICK n \in Nat : n < Len(Records(data)) /\ Records(data)[n + 1] = RecordAt(data, i)
    BY <2>1, MainAt
  <2>3. f \in Listed
    OBVIOUS
  <2>4. IF f \in Packed THEN from = to \/ data[to] < Base ELSE (to - from) % Width(f) = 0
    BY <2>2, <2>3, RunAt DEF from, to
  <2>. QED BY <1>2, <2>4
<1>8. Scanned(top')
  BY <1>1, <1>5, StillScanned DEF RInv
<1>. QED BY <1>1, <1>4, <1>5, <1>6, <1>7, <1>8, StillWaiting DEF RInv

LEMMA MainRecords ==
  ASSUME Inv, RInv, NEW f \in Known, ReadField(f), ~Enter(f)
  PROVE  RInv'
<1>. DEFINE r == RecordAt(data, i)
            q == After(data, i)
<1>1. pc = "main" /\ i < l /\ VarintLen(data, i) > 0 /\ FieldNum(TagAt(data, i)) = f
  BY DEF ReadField, Arm
<1>2. data \in Seq(Byte) /\ i \in 0 .. Len(data) - 1 /\ i \in 0 .. Len(data) /\ l = Len(data)
  BY <1>1, DataFacts
<1>3. /\ q \in i + 1 .. l
      /\ HasOperand(data, i) => Body(data, i) \in 0 .. l
      /\ Fits(data, i) => BodyEnd(data, i) \in 0 .. l
  BY <1>1, <1>2, TagInside
<1>4. /\ Wt = 0 /\ HasOperand(data, i)       => r.f = f /\ r.to = Body(data, i)
      /\ Wt = 1 /\ Left(data, q) >= Width8   => r.f = f /\ r.to = q + Width8
      /\ Wt = 2 /\ Fits(data, i)             => r.f = f /\ r.to = BodyEnd(data, i)
      /\ Wt = 5 /\ Left(data, q) >= Width4   => r.f = f /\ r.to = q + Width4
  BY <1>1, <1>2, GoodRecord, GoodEnd DEF Wt
<1>5. Wt = WireType(TagAt(data, i))
  BY DEF Wt
<1>. HIDE DEF r, q
<1>6. CASE WrongWireType(f) \/ BadBody(f)
  BY <1>1, <1>6, FailsRecords DEF WrongWireType, BadBody
<1>7. CASE Varint(f)
  <2>1. Wt = 0 /\ Wt \in WireTypes(f)
    BY <1>7 DEF Varint
  <2>2. f \notin Elems
    BY <2>1, OneKind DEF WireTypes, Elems, Fixed
  <2>3. CASE Fails
    BY <1>1, <2>3, FailsRecords
  <2>4. CASE HasOperand(data, i) /\ Stores(Body(data, i), f, Operand(data, i))
    BY <1>1, <1>3, <1>4, <2>1, <2>2, <2>4, StoresOnward DEF r
  <2>. QED BY <1>7, <2>3, <2>4 DEF Varint
<1>8. CASE FixedWidth(f)
  <2>. DEFINE to == q + Width(f)
  <2>1. /\ f \in Fixed /\ Wt \in WireTypes(f) \ {2}
        /\ \/ to > l /\ Fails
           \/ to <= l /\ Stores(to, f, Cut(data, to - Width(f), to))
    BY <1>8 DEF FixedWidth, q
  <2>2. f \notin Elems
    BY <2>1, OneKind DEF Elems
  <2>3. CASE Fails
    BY <1>1, <2>3, FailsRecords
  <2>4. CASE to <= l /\ Stores(to, f, Cut(data, to - Width(f), to))
    <3>1. Wt = IF f \in Fixed8 THEN 1 ELSE 5
      BY <2>1, OneKind DEF WireTypes, Fixed
    <3>2. to \in 0 .. l /\ Left(data, q) >= Width(f) /\ Width(f) = IF f \in Fixed8 THEN Width8 ELSE Width4
      BY <1>2, <1>3, <2>4, Widths DEF Left, Width
    <3>3. r.f = f /\ r.to = to
      BY <1>4, <3>1, <3>2
    <3>. HIDE DEF to
    <3>. QED BY <1>1, <2>2, <2>4, <3>2, <3>3, StoresOnward DEF r
  <2>. QED BY <2>1, <2>3, <2>4
<1>9. CASE TextField(f) \/ BytesField(f)
  <2>1. /\ f \in Text \cup Bytes /\ Wt = 2 /\ Fits(data, i)
        /\ \E x : Stores(BodyEnd(data, i), f, x)
    BY <1>9 DEF TextField, BytesField
  <2>2. f \notin Elems
    BY <2>1, OneKind DEF Elems
  <2>. QED BY <1>1, <1>3, <1>4, <2>1, <2>2, StoresOnward DEF r
<1>10. CASE EnterRun(f) \/ EnterEntry(f)
  <2>1. /\ Wt = 2 /\ Fits(data, i)
        /\ \/ f \in Listed /\ Loop("run", f)
           \/ f \in Map \cup Stamp \cup Span /\ Loop("entry", f)
    BY <1>10 DEF EnterRun, EnterEntry
  <2>. QED BY <1>1, <1>5, <2>1, LoopRecords
<1>. QED BY <1>6, <1>7, <1>8, <1>9, <1>10 DEF ReadField

LEMMA UnknownRecords == Inv /\ RInv /\ Unknown => RInv'
<1>. SUFFICES ASSUME Inv, RInv, Unknown PROVE RInv'
  OBVIOUS
<1>. DEFINE n  == SkipField(data, After(data, i), Wt)
            to == After(data, i) + n
<1>1. /\ pc = "main" /\ i < l /\ VarintLen(data, i) > 0 /\ FieldNum(TagAt(data, i)) \notin Known
      /\ \/ n < 0 /\ Fails
         \/ n > 0 /\ Moves(to) /\ UNCHANGED <<input, pc, stack, field, end, mk, mv>>
  BY DEF Unknown
<1>2. data \in Seq(Byte) /\ i \in 0 .. Len(data) - 1 /\ i \in 0 .. Len(data) /\ l = Len(data)
  BY <1>1, DataFacts
<1>3. After(data, i) \in 0 .. l /\ Wt \in 0 .. 7
  BY <1>1, <1>2, TagInside DEF Wt
<1>4. n = -1 \/ n \in 1 .. Left(data, After(data, i))
  BY <1>2, <1>3, SkipStaysInside
<1>5. n > 0 => /\ RecordAt(data, i).f = FieldNum(TagAt(data, i)) /\ RecordAt(data, i).f # -1
               /\ RecordAt(data, i).to = to
  BY <1>1, <1>2, GoodRecord DEF Wt
<1>. HIDE DEF n
<1>6. CASE Fails
  BY <1>1, <1>6, FailsRecords
<1>7. CASE n > 0 /\ Moves(to) /\ UNCHANGED <<input, pc, stack, field, end, mk, mv>>
  <2>1. to \in 0 .. l
    BY <1>2, <1>3, <1>4, <1>7 DEF Left
  <2>. HIDE DEF to
  <2>2. /\ top'.data = data /\ top'.cold = top.cold /\ top'.counts = top.counts /\ top'.i = to
        /\ top'.out = top.out
    BY <1>7, <2>1, MovesInside DEF data, i
  <2>3. RecordAt(data, i).f \notin Elems \cup {-1}
    BY <1>1, <1>5, <1>7, KnownKinds
  <2>. QED BY <1>1, <1>5, <1>7, <2>2, <2>3, Onward
<1>. QED BY <1>1, <1>6, <1>7

LEMMA EnterRecords ==
  ASSUME Inv, RInv, NEW f \in Known, Arm(f), Enter(f)
  PROVE  RInv'
<1>. DEFINE from == Body(data, i)
            to   == BodyEnd(data, i)
            m    == Len(stack)
            call == [top EXCEPT !.i = from]
<1>1. pc = "main" /\ i < l /\ VarintLen(data, i) > 0 /\ FieldNum(TagAt(data, i)) = f /\ Wt = 2
  BY DEF Arm, Enter
<1>2. PICK nils \in SUBSET Elems : top' = Frame(Cut(data, from, to), top.off + from, nils) /\ pc' = Start(nils)
  BY EnterSlice
<1>3. /\ from \in i .. l /\ to \in from .. l /\ Fits(data, i)
      /\ Cut(data, from, to) \in Seq(Byte) /\ Len(Cut(data, from, to)) = to - from
  BY EnterSlice
<1>4. /\ m \in Nat /\ DOMAIN stack = 1 .. m
      /\ DOMAIN stack' = 1 .. m + 1
      /\ stack'[m + 1].f = f /\ stack'[m + 1].call = call
      /\ \A k : k = m + 1 => Inner(k)' = top'
      /\ call.data = top.data /\ call.cold = top.cold /\ call.counts = top.counts
      /\ call.out = top.out /\ call.i = from
      /\ \A k \in 1 .. m : stack'[k] = stack[k] /\ Inner(k)'.data = Inner(k).data
  BY EnterStack
<1>5. /\ data \in Seq(Byte) /\ i \in 0 .. Len(data) - 1 /\ i \in 0 .. Len(data) /\ l = Len(data)
      /\ data = top.data
  BY <1>1, DataFacts DEF data
<1>6. RecordAt(data, i).f = f /\ RecordAt(data, i).wt = 2 /\ RecordAt(data, i).to = to /\ f # -1
  <2>1. f # -1
    BY KnownKinds
  <2>. QED BY <1>1, <1>3, <1>5, <2>1, GoodRecord, GoodEnd DEF Wt
<1>. HIDE DEF from, to, m, call
<1>7. InRecord(call, f, to)
  BY <1>1, <1>3, <1>4, <1>5, <1>6, Inside
<1>8. AtRecord(top') /\ Scanning(top') /\ (pc' # "prescan" => Scanned(top'))
  BY <1>2, <1>3, NewCall
<1>9. ASSUME NEW k \in 1 .. m + 1
      PROVE  Waits(k)' /\ Scanned(stack'[k].call)
  <2>1. CASE k = m + 1
    <3>1. top'.data = Cut(data, from, to)
      BY <1>2 DEF Frame
    <3>2. call.i + Len(Inner(k)'.data) = to
      <4>1. Inner(k)' = top'
        BY <1>4, <2>1
      <4>2. Len(Inner(k)'.data) = to - from
        BY <1>3, <3>1, <4>1
      <4>. QED BY <1>3, <1>4, <1>5, <4>2
    <3>3. Waits(k)' <=> InRecord(stack'[k].call, stack'[k].f, stack'[k].call.i + Len(Inner(k)'.data))
      BY DEF Waits
    <3>4. Waits(k)'
      BY <1>4, <1>7, <2>1, <3>2, <3>3
    <3>5. Scanned(call)
      BY <1>1, <1>4, StillScanned DEF RInv
    <3>. QED BY <1>4, <2>1, <3>4, <3>5
  <2>2. CASE k # m + 1
    <3>1. k \in 1 .. m /\ stack'[k] = stack[k] /\ Inner(k)'.data = Inner(k).data
      BY <1>4, <2>2
    <3>2. Waits(k)' <=> Waits(k)
      BY <3>1 DEF Waits
    <3>. QED BY <1>4, <3>1, <3>2 DEF RInv
  <2>. QED BY <2>1, <2>2
<1>10. pc' \in {"prescan", "main"}
  BY <1>2 DEF Start
<1>. QED BY <1>4, <1>8, <1>9, <1>10 DEF RInv

LEMMA ReturnRecords == Inv /\ RInv /\ Return => RInv'
<1>. SUFFICES ASSUME Inv, RInv, Return PROVE RInv'
  OBVIOUS
<1>. DEFINE m == Len(stack)
            c == stack[m].call
            f == stack[m].f
<1>1. pc = "main" /\ pc' = "main"
  BY DEF Return
<1>2. /\ m \in Nat /\ m >= 1 /\ DOMAIN stack = 1 .. m /\ DOMAIN stack' = 1 .. m - 1
      /\ f \in Msg /\ IsCall(c) /\ c.i + l <= Len(c.data) /\ Inner(m) = top
      /\ top'.data = c.data /\ top'.cold = c.cold /\ top'.counts = c.counts
      /\ top'.out = Stored(c.out, f, top.out) /\ top'.i = c.i + l
      /\ \A k \in 1 .. m - 1 : stack'[k] = stack[k] /\ Inner(k)'.data = Inner(k).data
  BY ReturnFacts
<1>3. InRecord(c, f, c.i + l) /\ Scanned(c)
  <2>1. m \in DOMAIN stack
    BY <1>2
  <2>. QED BY <1>2, <2>1 DEF RInv, Waits, l, data
<1>. HIDE DEF m, c, f
<1>4. c.data \in Seq(Byte) /\ c.i \in Nat /\ top'.i \in c.i .. Len(c.data) /\ DOMAIN c.out = Known
  BY <1>2, DataFacts DEF IsCall
<1>5. f \in Known
  BY <1>2, KnownKinds
<1>6. ASSUME NEW g \in Elems
      PROVE  IF g = f THEN IsSeq(c.out[g]) => IsSeq(top'.out[g]) /\ Len(top'.out[g]) = Len(c.out[g]) + 1
             ELSE top'.out[g] = c.out[g]
  <2>1. g \in Known /\ g \in Repeated
    BY KnownKinds DEF Elems
  <2>2. CASE g = f
    <3>1. top'.out[g] = Append(c.out[g], top.out)
      BY <1>2, <1>4, <2>1, <2>2 DEF Stored
    <3>. QED BY <2>2, <3>1, Pushed
  <2>3. CASE g # f
    BY <1>2, <1>4, <2>1, <2>3 DEF Stored
  <2>. QED BY <2>2, <2>3
<1>7. AtRecord(top')
  BY <1>2, <1>3, <1>4, <1>5, <1>6, Outward
<1>8. Scanned(top')
  BY <1>2, <1>3, StillScanned
<1>9. ASSUME NEW k \in 1 .. m - 1
      PROVE  Waits(k)' /\ Scanned(stack'[k].call)
  <2>1. stack'[k] = stack[k] /\ Inner(k)'.data = Inner(k).data /\ k \in DOMAIN stack
    BY <1>2
  <2>2. Waits(k)' <=> Waits(k)
    BY <2>1 DEF Waits
  <2>. QED BY <2>1, <2>2 DEF RInv
<1>. QED BY <1>1, <1>2, <1>7, <1>8, <1>9 DEF RInv

-----------------------------------------------------------------------------
(* The runs of packed fields: a varint does not go on behind an end that   *)
(* ends one, and a number of fixed width not behind a whole number of them.*)
LEMMA EndsBefore ==
  ASSUME NEW s \in Seq(Byte), NEW p \in 0 .. Len(s), NEW e \in p + 1 .. Len(s), s[e] < Base,
         VarintLen(s, p) > 0
  PROVE  After(s, p) <= e
<1>. DEFINE t == VarintLen(s, p)
<1>1. t \in 1 .. MaxVarintLen /\ EndsAfter(s, p, t)
  <2>1. \E n \in 1 .. MaxVarintLen : EndsAfter(s, p, n)
    BY DEF VarintLen
  <2>2. t = CHOOSE n \in 1 .. MaxVarintLen : EndsAfter(s, p, n)
    BY <2>1 DEF VarintLen
  <2>. HIDE DEF t
  <2>. QED BY <2>1, <2>2, Zenon
<1>. HIDE DEF t
<1>2. \A k \in 1 .. t - 1 : s[p + k] >= Base
  BY <1>1 DEF EndsAfter
<1>3. ASSUME p + t > e
      PROVE  FALSE
  <2>. DEFINE k == e - p
  <2>1. k \in 1 .. t - 1 /\ p + k = e
    BY <1>1, <1>3, Widths
  <2>. HIDE DEF k
  <2>2. s[e] >= Base
    BY <1>2, <2>1
  <2>. QED BY <2>2, Widths DEF Byte
<1>. QED BY <1>1, <1>3, Widths DEF After, t

LEMMA Multiples ==
  ASSUME NEW w \in Nat, w > 0, NEW x \in Nat, x % w = 0
  PROVE  /\ x >= w => (x - w) % w = 0
         /\ x < w  => x = 0
<1>1. x = w * (x \div w) /\ x \div w \in Nat
  BY Z3
<1>. DEFINE q == x \div w
<1>. HIDE DEF q
<1>2. x = w * q /\ q \in Nat
  BY <1>1 DEF q
<1>3. x < w => x = 0
  BY Z3
<1>4. ASSUME x >= w
      PROVE  (x - w) % w = 0
  <2>1. q - 1 \in Nat /\ x - w = w * (q - 1)
    BY <1>2, <1>4, Z3
  <2>2. \A y \in Nat : (w * y) % w = 0
    BY Z3
  <2>. QED BY <2>1, <2>2
<1>. QED BY <1>3, <1>4

(* A run goes on.                                                          *)
LEMMA RunRecords ==
  ASSUME Inv, RInv, pc = "run", NEW to \in i .. l, NEW x, Stores(to, field, x),
         Sound(data, i) => to <= end
                           /\ IF field \in Packed THEN to = end \/ data[end] < Base
                              ELSE (end - to) % Width(field) = 0
  PROVE  RInv'
<1>1. /\ data \in Seq(Byte) /\ i \in Nat /\ l = Len(data) /\ data = top.data /\ top.i = i /\ to \in 0 .. l
      /\ DOMAIN top.out = Known
  BY DataFacts DEF data, i, Inv, IsCall
<1>2. field \notin Elems
  BY OneKind, KnownKinds DEF Inv, LoopOK, Elems
<1>3. /\ top'.data = data /\ top'.cold = top.cold /\ top'.counts = top.counts /\ top'.i = to
      /\ top'.out = Stored(top.out, field, x)
  BY <1>1, StoresInside DEF i
<1>4. \A g \in Elems : top'.out[g] = top.out[g]
  BY <1>1, <1>2, <1>3, KnownKinds DEF Stored
<1>5. pc' = "run" /\ UNCHANGED <<stack, field, end>>
  BY DEF Stores
<1>6. InRecord(top', field, end)
  BY <1>1, <1>3, <1>4, Within DEF RInv
<1>7. RunLeft(top', field, end)
  <2>1. Sound(data, to) => Sound(data, i)
    BY <1>1, SoundBefore
  <2>. QED BY <1>3, <2>1 DEF RunLeft
<1>8. Scanned(top')
  BY <1>1, <1>3, StillScanned DEF RInv
<1>. QED BY <1>1, <1>3, <1>5, <1>6, <1>7, <1>8, StillWaiting DEF RInv

LEMMA RunsRecords == Inv /\ RInv /\ (VarintRun \/ FixedRun) => RInv'
<1>. SUFFICES ASSUME Inv, RInv, VarintRun \/ FixedRun PROVE RInv'
  OBVIOUS
<1>1. data \in Seq(Byte) /\ i \in 0 .. l /\ l = Len(data) /\ top.data = data /\ top.i = i /\ end \in 0 .. l
  BY DataFacts DEF data, i, Inv, LoopOK
<1>2. pc = "run"
  BY DEF VarintRun, FixedRun
<1>3. Sound(data, i) =>
        i <= end /\ IF field \in Packed THEN i = end \/ data[end] < Base ELSE (end - i) % Width(field) = 0
  BY <1>1, <1>2 DEF RInv, RunLeft
<1>4. CASE VarintRun
  <2>1. field \in Packed /\ i < end
    BY <1>4 DEF VarintRun, RunGoesOn
  <2>2. CASE Fails
    BY <1>2, <2>2, FailsRecords
  <2>3. CASE VarintLen(data, i) > 0 /\ Stores(After(data, i), field, TagAt(data, i))
    <3>1. After(data, i) \in i .. l
      BY <1>1, <2>3, TagInside
    <3>2. Sound(data, i) => After(data, i) <= end /\ data[end] < Base
      BY <1>1, <1>3, <2>1, <2>3, EndsBefore
    <3>. QED BY <1>2, <2>1, <2>3, <3>1, <3>2, RunRecords
  <2>. QED BY <1>4, <2>2, <2>3 DEF VarintRun
<1>5. CASE FixedRun
  <2>. DEFINE w  == Width(field)
              to == i + w
  <2>1. field \in Fixed /\ field \notin Packed /\ to <= end
    BY <1>5, OneKind DEF FixedRun, RunGoesOn
  <2>2. w \in Nat /\ w > 0
    BY Widths DEF Width
  <2>3. \E x : Stores(to, field, x)
    BY <1>5 DEF FixedRun
  <2>. HIDE DEF w
  <2>4. to \in i .. l /\ end - to = (end - i) - w /\ end - i \in Nat /\ end - i >= w
    BY <1>1, <2>1, <2>2
  <2>5. Sound(data, i) => (end - i) % w = 0
    BY <1>3, <2>1 DEF w
  <2>6. Sound(data, i) => (end - to) % w = 0
    BY <2>2, <2>4, <2>5, Multiples
  <2>. HIDE DEF to
  <2>. QED BY <1>2, <2>1, <2>3, <2>4, <2>6, RunRecords DEF w
<1>. QED BY <1>4, <1>5

LEMMA RunIsOver ==
  ASSUME Inv, RInv, pc = "run", ~RunGoesOn, Sound(data, i)
  PROVE  i = end
<1>1. /\ data \in Seq(Byte) /\ i \in 0 .. l /\ l = Len(data) /\ top.data = data /\ top.i = i
      /\ end \in 0 .. l /\ field \in Listed
  BY DataFacts DEF data, i, Inv, LoopOK
<1>2. i <= end /\ IF field \in Packed THEN TRUE ELSE (end - i) % Width(field) = 0
  BY <1>1 DEF RInv, RunLeft
<1>3. CASE field \in Packed
  BY <1>1, <1>2, <1>3 DEF RunGoesOn
<1>4. CASE field \notin Packed
  <2>. DEFINE w == Width(field)
              x == end - i
  <2>1. w \in Nat /\ w > 0
    BY Widths DEF Width
  <2>2. x \in Nat /\ x % w = 0 /\ x < w
    BY <1>1, <1>2, <1>4, <2>1 DEF RunGoesOn
  <2>. HIDE DEF w, x
  <2>3. x = 0
    BY <2>1, <2>2, Multiples
  <2>. QED BY <1>1, <2>3 DEF x
<1>. QED BY <1>3, <1>4

LEMMA LeaveRunRecords == Inv /\ RInv /\ LeaveRun => RInv'
<1>. SUFFICES ASSUME Inv, RInv, LeaveRun PROVE RInv'
  OBVIOUS
<1>1. pc = "run" /\ pc' = "main" /\ UNCHANGED <<top, stack>> /\ ~RunGoesOn
  BY DEF LeaveRun, LoopEnds
<1>2. /\ data \in Seq(Byte) /\ i \in 0 .. l /\ l = Len(data) /\ top.data = data /\ top.i = i
      /\ end \in 0 .. l /\ field \in Listed
  BY <1>1, DataFacts DEF data, i, Inv, LoopOK
<1>3. Sound(data, i) => i = end
  BY <1>1, RunIsOver
<1>4. field \in Known /\ field \notin Elems
  BY <1>2, OneKind, KnownKinds DEF Elems
<1>5. InRecord(top, field, end)
  BY <1>1 DEF RInv
<1>6. AtRecord(top')
  <2>1. top'.data = top.data /\ top'.i \in top.i .. Len(top.data) /\ top.i \in Nat
    BY <1>1, <1>2
  <2>2. Sound(top'.data, top'.i) => top'.i = end
    BY <1>1, <1>2, <1>3
  <2>3. \A g \in Elems : g # field /\ top'.out[g] = top.out[g]
    BY <1>1, <1>4
  <2>. QED BY <1>2, <1>4, <1>5, <2>1, <2>2, <2>3, Outward
<1>7. Scanned(top') /\ top'.data = top.data
  BY <1>1 DEF RInv
<1>. QED BY <1>1, <1>6, <1>7, StillWaiting DEF RInv

-----------------------------------------------------------------------------
(* The loop over an entry stays in its record, and ends where that does.   *)
LEMMA EntriesRecords ==
  ASSUME Inv, RInv, EntryKey \/ EntryValue \/ EntryUnknown
  PROVE  RInv'
<1>1. PICK to \in 0 .. end : to >= i /\ EntryReads(to)
  BY EntryKeeps
<1>2. pc = "entry" /\ pc' = "entry" /\ UNCHANGED <<input, stack, field, end>> /\ Moves(to)
  BY <1>1, EntryKeeps DEF EntryReads
<1>3. data \in Seq(Byte) /\ i \in 0 .. l /\ l = Len(data) /\ top.data = data /\ top.i = i /\ end \in 0 .. l
  BY <1>2, DataFacts DEF data, i, Inv, LoopOK
<1>4. to \in 0 .. l /\ to \in i .. l
  BY <1>1, <1>3
<1>5. /\ top'.data = data /\ top'.cold = top.cold /\ top'.counts = top.counts /\ top'.i = to
      /\ top'.out = top.out
  BY <1>2, <1>3, <1>4, MovesInside DEF i
<1>6. InRecord(top, field, end)
  BY <1>2 DEF RInv
<1>7. InRecord(top', field, end)
  BY <1>3, <1>4, <1>5, <1>6, Within
<1>8. Scanned(top')
  BY <1>2, <1>3, <1>5, StillScanned DEF RInv
<1>. QED BY <1>2, <1>3, <1>5, <1>7, <1>8, StillWaiting DEF RInv

LEMMA LeaveEntryRecords == Inv /\ RInv /\ LeaveEntry => RInv'
<1>. SUFFICES ASSUME Inv, RInv, LeaveEntry PROVE RInv'
  OBVIOUS
<1>1. pc = "entry" /\ pc' = "main" /\ UNCHANGED stack /\ i >= end
  BY DEF LeaveEntry, LoopEnds
<1>2. /\ data \in Seq(Byte) /\ i \in 0 .. l /\ l = Len(data) /\ top.data = data /\ top.i = i
      /\ end \in 0 .. l /\ i <= end /\ field \in Map \cup Stamp \cup Span
  BY <1>1, DataFacts DEF data, i, Inv, LoopOK
<1>3. /\ top'.data = top.data /\ top'.i = top.i /\ top'.counts = top.counts
      /\ top'.cold = top.cold /\ \A f \in Known : f # field => top'.out[f] = top.out[f]
  BY LeaveEntryFacts
<1>4. field \in Known /\ field \notin Elems /\ Elems \subseteq Known
  BY <1>2, OneKind, KnownKinds DEF Elems
<1>5. InRecord(top, field, end)
  BY <1>1 DEF RInv
<1>6. AtRecord(top')
  <2>1. top'.i \in top.i .. Len(top.data) /\ top.i \in Nat /\ top'.i = end
    BY <1>1, <1>2, <1>3
  <2>2. \A g \in Elems : g # field /\ top'.out[g] = top.out[g]
    BY <1>3, <1>4
  <2>. QED BY <1>2, <1>3, <1>4, <1>5, <2>1, <2>2, Outward
<1>7. Scanned(top')
  BY <1>1, <1>3, StillScanned DEF RInv
<1>. QED BY <1>1, <1>3, <1>6, <1>7, StillWaiting DEF RInv

-----------------------------------------------------------------------------
(* The pre-scan walks from record to record, if none is malformed.         *)
LEMMA PrescanAtRecord ==
  ASSUME NEW s \in Seq(Byte), NEW p \in 0 .. Len(s) - 1, RecordAt(s, p).f # -1
  PROVE  /\ VarintLen(s, p) > 0
         /\ PrescanNext(s, p) = RecordAt(s, p).to
         /\ RecordAt(s, p).f = FieldNum(TagAt(s, p)) /\ RecordAt(s, p).wt = WireType(TagAt(s, p))
         /\ RecordAt(s, p).wt = 2 => Fits(s, p)
<1>. DEFINE q  == After(s, p)
            wt == WireType(TagAt(s, p))
            n  == SkipField(s, q, wt)
            r  == RecordAt(s, p)
<1>1. /\ VarintLen(s, p) > 0 /\ n > 0
      /\ r.f = FieldNum(TagAt(s, p)) /\ r.wt = wt /\ r.to = q + n
  BY GoodRecord
<1>2. /\ wt = 0 => HasOperand(s, p) /\ q + n = Body(s, p)
      /\ wt = 1 => Left(s, q) >= Width8 /\ n = Width8
      /\ wt = 2 => Fits(s, p) /\ q + n = BodyEnd(s, p)
      /\ wt = 5 => Left(s, q) >= Width4 /\ n = Width4
      /\ wt \in {0, 1, 2, 5}
  BY <1>1, GoodEnd
<1>. HIDE DEF n, r
<1>3. PrescanNext(s, p) = q + n
  <2>. DEFINE e == q + n
  <2>. HIDE DEF e
  <2>1. /\ PrescanNext(s, p) = CASE wt = 0 /\ HasOperand(s, p)            -> Body(s, p)
             [] wt = 1 /\ Left(s, q) >= Width8               -> q + Width8
             [] wt = 2 /\ Fits(s, p)                         -> BodyEnd(s, p)
             [] wt = 2 /\ HasOperand(s, p) /\ ~Fits(s, p)    -> Body(s, p)
             [] wt = 5 /\ Left(s, q) >= Width4               -> q + Width4
             [] OTHER                                        -> q
    BY DEF PrescanNext
  <2>. HIDE DEF wt, q
  <2>2. CASE wt = 0
    BY <1>2, <2>1, <2>2
  <2>3. CASE wt = 1
    BY <1>2, <2>1, <2>3
  <2>4. CASE wt = 2
    BY <1>2, <2>1, <2>4
  <2>5. CASE wt = 5
    BY <1>2, <2>1, <2>5
  <2>. QED BY <1>2, <2>2, <2>3, <2>4, <2>5
<1>. QED BY <1>1, <1>2, <1>3 DEF r

LEMMA PrescanRecords == Inv /\ RInv /\ PrescanStep => RInv'
<1>. SUFFICES ASSUME Inv, RInv, PrescanStep PROVE RInv'
  OBVIOUS
<1>. DEFINE p == top.pi
<1>1. pc = "prescan" /\ pc' = "prescan" /\ UNCHANGED stack /\ p < l /\ p \in 0 .. l
  BY DataFacts DEF PrescanStep
<1>2. data \in Seq(Byte) /\ l = Len(data) /\ top.data = data /\ p \in 0 .. Len(data) - 1
  BY <1>1, DataFacts DEF data
<1>3. /\ top'.data = top.data /\ top'.i = top.i /\ top'.out = top.out /\ top'.cold = top.cold
      /\ top'.pi = PrescanNext(data, p)
      /\ top'.counts = [f \in Elems |->
           IF WireType(TagAt(data, p)) = 2 /\ Fits(data, p) /\ FieldNum(TagAt(data, p)) = f
           THEN top.counts[f] + 1 ELSE top.counts[f]]
  BY PrescanFacts
<1>. HIDE DEF p
<1>4. AtRecord(top')
  <2>1. AtRecord(top)
    BY <1>1 DEF RInv
  <2>. QED BY <1>3, <2>1, SameDone DEF AtRecord
<1>5. ASSUME AllGood(top'.data)
      PROVE  \E n \in 0 .. Len(Records(top'.data)) : top'.pi = Pos(top'.data, n) /\ Counted(top', n)
  <2>1. PICK n \in 0 .. Len(Records(data)) : p = Pos(data, n) /\ Counted(top, n)
    BY <1>1, <1>2, <1>3, <1>5 DEF RInv, Scanning, p
  <2>. DEFINE r == RecordAt(data, p)
  <2>2. /\ Len(Records(data)) \in Nat /\ DOMAIN Records(data) = 1 .. Len(Records(data))
        /\ n < Len(Records(data)) /\ Records(data)[n + 1] = r
    BY <1>2, <2>1, NextRecord
  <2>3. n \in Nat /\ n + 1 \in 0 .. Len(Records(data)) /\ n + 1 \in DOMAIN Records(data) /\ n + 1 # 0
    BY <2>2
  <2>4. r.f # -1
    BY <1>2, <1>3, <1>5, <2>2, <2>3 DEF AllGood
  <2>5. /\ PrescanNext(data, p) = r.to /\ r.f = FieldNum(TagAt(data, p))
        /\ r.wt = WireType(TagAt(data, p)) /\ (r.wt = 2 => Fits(data, p))
    BY <1>2, <2>4, PrescanAtRecord
  <2>. HIDE DEF r
  <2>6. top'.pi = Pos(data, n + 1)
    BY <1>3, <2>2, <2>3, <2>5 DEF Pos
  <2>7. ASSUME NEW f \in Elems
        PROVE  top'.counts[f] = Cardinality(Kids(data, n + 1, f))
    <3>1. top'.counts[f] = top.counts[f] + IF r.f = f /\ r.wt = 2 THEN 1 ELSE 0
      <4>1. top.counts[f] \in Nat
        BY <1>2, <2>1, <2>3, KidsFinite DEF Counted
      <4>. QED BY <1>3, <2>5, <4>1
    <3>2. top.counts[f] = Cardinality(Kids(data, n, f))
      BY <1>2, <2>1 DEF Counted
    <3>. QED BY <2>2, <2>3, <3>1, <3>2, OneMore
  <2>. QED BY <1>2, <1>3, <2>3, <2>6, <2>7 DEF Counted
<1>6. Scanning(top')
  BY <1>5 DEF Scanning
<1>. QED BY <1>1, <1>3, <1>4, <1>6, StillWaiting DEF RInv

LEMMA PrescanEndRecords == Inv /\ RInv /\ PrescanEnd => RInv'
<1>. SUFFICES ASSUME Inv, RInv, PrescanEnd PROVE RInv'
  OBVIOUS
<1>1. /\ pc = "prescan" /\ pc' = "main" /\ UNCHANGED <<top, stack>>
      /\ top.pi >= l \/ VarintLen(data, top.pi) < 0
  BY DEF PrescanEnd
<1>2. data \in Seq(Byte) /\ l = Len(data) /\ top.data = data /\ top.pi \in 0 .. l
  BY DataFacts DEF data
<1>3. ASSUME AllGood(data)
      PROVE  Counted(top, Len(Records(data)))
  <2>1. PICK n \in 0 .. Len(Records(data)) : top.pi = Pos(data, n) /\ Counted(top, n)
    BY <1>1, <1>2, <1>3 DEF RInv, Scanning
  <2>2. Len(Records(data)) \in Nat /\ DOMAIN Records(data) = 1 .. Len(Records(data))
    BY <1>2, <2>1, NextRecord
  <2>3. ASSUME n < Len(Records(data))
        PROVE  FALSE
    <3>1. top.pi \in 0 .. Len(data) - 1 /\ Records(data)[n + 1] = RecordAt(data, top.pi)
      BY <1>2, <2>1, <2>3, NextRecord
    <3>2. RecordAt(data, top.pi).f # -1
      BY <1>3, <2>2, <2>3, <3>1 DEF AllGood
    <3>3. VarintLen(data, top.pi) > 0
      BY <1>2, <3>1, <3>2, PrescanAtRecord
    <3>4. VarintLen(data, top.pi) < 0
      BY <1>1, <1>2, <3>1
    <3>5. VarintLen(data, top.pi) \in Int
      BY <1>2, VarintStaysInside
    <3>. QED BY <3>3, <3>4, <3>5
  <2>4. n = Len(Records(data))
    <3>. DEFINE z == Len(Records(data))
    <3>1. z \in Nat /\ n \in 0 .. z /\ ~(n < z)
      BY <2>2, <2>3
    <3>. HIDE DEF z
    <3>2. n = z
      BY <3>1
    <3>. QED BY <3>2 DEF z
  <2>. QED BY <2>1, <2>4
<1>4. Scanned(top') /\ AtRecord(top') /\ top'.data = top.data
  BY <1>1, <1>2, <1>3 DEF Scanned, RInv
<1>. QED BY <1>1, <1>4, StillWaiting DEF RInv

LEMMA NextRecords == Inv /\ RInv /\ [Next]_vars => RInv'
<1>. SUFFICES ASSUME Inv, RInv, [Next]_vars PROVE RInv'
  OBVIOUS
<1>1. CASE PrescanStep \/ PrescanEnd
  BY <1>1, PrescanRecords, PrescanEndRecords
<1>2. CASE BadTag \/ EntryFails
  BY <1>2, FailsRecords DEF BadTag, EntryFails
<1>3. CASE Unknown
  BY <1>3, UnknownRecords
<1>4. ASSUME NEW f \in Known, ReadField(f)
      PROVE  RInv'
  <2>1. CASE Enter(f)
    BY <1>4, <2>1, EnterRecords DEF ReadField
  <2>. QED BY <1>4, <2>1, MainRecords
<1>5. CASE VarintRun \/ FixedRun \/ LeaveRun
  BY <1>5, RunsRecords, LeaveRunRecords
<1>6. CASE EntryKey \/ EntryValue \/ EntryUnknown
  BY <1>6, EntriesRecords
<1>7. CASE LeaveEntry
  BY <1>7, LeaveEntryRecords
<1>8. CASE Return
  BY <1>8, ReturnRecords
<1>9. CASE Finish \/ UNCHANGED vars
  <2>1. UNCHANGED <<top, stack, field, end>> /\ (pc' = pc \/ (pc = "main" /\ pc' = "ok"))
    BY <1>9 DEF Finish, vars
  <2>2. top'.data = top.data
    BY <2>1
  <2>. QED BY <2>1, <2>2, StillWaiting DEF RInv
<1>. QED BY <1>1, <1>2, <1>3, <1>4, <1>5, <1>6, <1>7, <1>8, <1>9 DEF Next

LEMMA InvCursor == Inv /\ RInv => CursorOnRecord
<1>. SUFFICES ASSUME Inv, RInv, pc = "main",
                     \A j \in {j \in DOMAIN Records(data) : Records(data)[j].from <= i} :
                       Whole(data, Records(data)[j])
              PROVE  i = 0 \/ \E j \in DOMAIN Records(data) : Records(data)[j].to = i
  BY DEF CursorOnRecord
<1>1. Sound(data, i)
  BY DEF Sound
<1>2. PICK n \in Nat : Done(top, n) /\ i = Pos(data, n)
  BY <1>1 DEF RInv, AtRecord, data, i
<1>3. n \in 0 .. Len(Records(data)) /\ DOMAIN Records(data) = 1 .. Len(Records(data))
  BY <1>2, DataFacts, NextRecord DEF Done, data
<1>. QED BY <1>2, <1>3 DEF Pos

LEMMA InvPrescan == Inv /\ RInv => PrescanExact
<1>. SUFFICES ASSUME Inv, RInv, pc = "main", i >= l,
                     \A j \in DOMAIN Records(data) : Whole(data, Records(data)[j]),
                     NEW f \in top.cold
              PROVE  top.counts[f] = Len(top.out[f])
  BY DEF PrescanExact
<1>1. Sound(data, i)
  BY DEF Sound
<1>2. PICK n \in Nat : Done(top, n) /\ i = Pos(data, n)
  BY <1>1 DEF RInv, AtRecord, data, i
<1>3. n \in 0 .. Len(Records(data)) /\ top.data = data /\ f \in Elems
  BY <1>2 DEF Done, data, Inv, IsCall
<1>4. n = Len(Records(data)) /\ DOMAIN Records(data) = 1 .. n
  BY <1>2, <1>3, DataFacts, NextRecord
<1>5. AllGood(data)
  BY <1>2, <1>3, <1>4 DEF Done, AllGood
<1>6. Counted(top, n)
  BY <1>3, <1>4, <1>5 DEF RInv, Scanned
<1>. QED BY <1>2, <1>3, <1>6 DEF Done, Counted

(* On every input, for every schema: as long as no packed body is cut, the *)
(* main loop of each call goes on where SkipField would have ended the     *)
(* record, whichever arm read it.                                          *)
THEOREM OnRecords == Spec => []CursorOnRecord
<1>1. Init => Inv /\ RInv
  BY InitInv, InitRecords
<1>2. (Inv /\ RInv) /\ [Next]_vars => (Inv /\ RInv)'
  BY NextInv, NextRecords
<1>3. Inv /\ RInv => CursorOnRecord
  BY InvCursor
<1>. QED BY <1>1, <1>2, <1>3, PTL DEF Spec

(* ... and when it is through, the pre-scan had counted the messages that  *)
(* it appended to each slice that was nil.                                 *)
THEOREM CountsExact == Spec => []PrescanExact
<1>1. Init => Inv /\ RInv
  BY InitInv, InitRecords
<1>2. (Inv /\ RInv) /\ [Next]_vars => (Inv /\ RInv)'
  BY NextInv, NextRecords
<1>3. Inv /\ RInv => PrescanExact
  BY InvPrescan
<1>. QED BY <1>1, <1>2, <1>3, PTL DEF Spec
=============================================================================
