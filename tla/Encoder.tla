------------------------------ MODULE Encoder ------------------------------
(***************************************************************************)
(* MarshalCodec and MarshalToCodec of one message, called by several       *)
(* goroutines at once, as the concurrency contract of the codec package    *)
(* allows.  A call makes two passes: SizeCodec adds up what the fields     *)
(* take, MarshalCodecInternal writes them into a buffer of that size and   *)
(* checks no bound.  A step is one field of one pass; the oneof comes last.*)
(***************************************************************************)
EXTENDS Proto, WellKnown, FiniteSetsExt

CONSTANTS
  Callers,   (* The goroutines.                                            *)
  Text,      (* The numbers of the string and bytes fields,                *)
  Digest,    (* of the bytes fields of a fixed length,                     *)
  Texts,     (* of the repeated ones of either kind,                       *)
  Num,       (* of the scalars,                                            *)
  Opt,       (* of the proto3 optional scalars,                            *)
  Packed,    (* of the repeated scalars,                                   *)
  Maps,      (* of the maps with varint keys,                              *)
  Stamp,     (* of the Timestamps,                                         *)
  Span,      (* of the Durations,                                          *)
  Ptr,       (* of the singular messages held as *T,                       *)
  Inl,       (* of those held by value,                                    *)
  Elem,      (* of the repeated messages held as []*T.                     *)
  Sint,      (* The scalars of these that are zigzag varints, ...          *)
  Fixed8,    (* ... fixed64 ...                                            *)
  Fixed4,    (* ... or fixed32; the others are plain varints.              *)
  Doubles,   (* The maps whose values are doubles, ...                     *)
  Names,     (* ... or strings; those of the others are varints.           *)
  Flags,     (* The maps with bool keys.                                   *)
  Branch,    (* The fields that are branches of the oneof.                 *)
  None,      (* The discriminator of a oneof that is not set.              *)
  Nil,       (* A nil pointer.                                             *)
  FixedLen,  (* The length of the fields of Digest.                        *)
  Messages,  (* The messages to encode; Nil is a nil receiver.             *)
  Buffers    (* The lengths of the buffers that MarshalToCodec is given.   *)

Field == Text \cup Digest \cup Texts \cup Num \cup Opt \cup Packed \cup Maps
         \cup Stamp \cup Span \cup Ptr \cup Inl \cup Elem

(* The values that a field can hold, as their types in Go have it; seconds *)
(* are an int64.  No string is so long that a word could not count it,     *)
(* with the rest of an entry of a map.                                     *)
Room   == 4 * MaxVarintLen + Width8
Short  == {x \in Seq(Byte) : Len(x) + Room < Word}
Kids   == [val : 0 .. Word - 1, opt : (0 .. Word - 1) \cup {Nil}]
Signs  == -(Word \div 2) .. (Word \div 2) - 1

Scalar(f) ==
  CASE f \in Sint   -> Signs
    [] f \in Fixed4 -> 0 .. Word4 - 1
    [] OTHER        -> 0 .. Word - 1

IsMap(f, v) ==
  /\ v = [k \in DOMAIN v |-> v[k]]
  /\ DOMAIN v \subseteq (IF f \in Flags THEN {0, 1} ELSE 0 .. Word - 1)
  /\ \A k \in DOMAIN v : v[k] \in IF f \in Names THEN Short ELSE 0 .. Word - 1

IsValue(f, v) ==
  CASE f \in Text   -> v \in Short
    [] f \in Digest -> v \in Short /\ Len(v) = FixedLen
    [] f \in Texts  -> v \in Seq(Short)
    [] f \in Num    -> v \in Scalar(f)
    [] f \in Opt    -> v \in Scalar(f) \cup {Nil}
    [] f \in Packed -> v \in Seq(Scalar(f))
    [] f \in Maps   -> IsMap(f, v)
    [] f \in Stamp  -> v.ns \in Int /\ v.ns \div Second \in Signs
    [] f \in Span   -> v \in Signs
    [] f \in Ptr    -> v \in Kids \cup {Nil}
    [] f \in Inl    -> v \in Kids
    [] f \in Elem   -> v \in Seq(Kids \cup {Nil})

(* A discriminator names a branch of the type, and no nil pointer: the     *)
(* run ReceiverNilBranch is about one that does.                           *)
IsMessage(m) ==
  /\ m = [kind |-> m.kind, at |-> m.at]
  /\ DOMAIN m.at \subseteq Field /\ m.kind \in {None} \cup (Branch \cap DOMAIN m.at)
  /\ \A f \in DOMAIN m.at : IsValue(f, m.at[f])
  /\ m.kind \in Ptr => m.at[m.kind] # Nil

(* The scalars, without their tags, and the sum and the concatenation over *)
(* a sequence of them.                                                     *)
ScalarSize(f, x) ==
  CASE f \in Fixed8 -> Width8
    [] f \in Fixed4 -> Width4
    [] f \in Sint   -> SizeVarint(Zigzag(x, Word))
    [] OTHER        -> SizeVarint(x)

Total(s) ==
  LET Sum[k \in 0 .. Len(s)] == IF k = 0 THEN 0 ELSE Sum[k - 1] + s[k] IN Sum[Len(s)]

SumOver(s, Size(_)) == Total([j \in DOMAIN s |-> Size(s[j])])
Joined(s, Bytes(_)) == FlattenSeq([j \in DOMAIN s |-> Bytes(s[j])])

ASSUME EncoderAssumption ==
  /\ LET kinds == <<Text, Digest, Texts, Num, Opt, Packed, Maps, Stamp, Span, Ptr, Inl, Elem>>
     IN  \A j, k \in DOMAIN kinds : j # k => kinds[j] \cap kinds[k] = {}
  /\ IsFiniteSet(Field) /\ Field \subseteq Nat \ {0}
  /\ \A f \in Field \cup {1, 2} : 8 * f + 7 < Word
  /\ Branch \subseteq Text \cup Digest \cup Num \cup Stamp \cup Span \cup Ptr \cup Inl
  /\ Sint \cup Fixed8 \cup Fixed4 \subseteq Num \cup Opt \cup Packed
  /\ Sint \cap Fixed8 = {} /\ Sint \cap Fixed4 = {} /\ Fixed8 \cap Fixed4 = {}
  /\ Doubles \cup Names \cup Flags \subseteq Maps /\ Doubles \cap Names = {}
  /\ None \notin Field
  /\ Nil \notin Int /\ Nil \notin Kids
  /\ FixedLen \in Nat \ {0} /\ Room < Word /\ FixedLen + Room < Word
  /\ Buffers \subseteq Nat

(* What w bytes can tell apart: a fixed64 any word, a fixed32 any uint32.  *)
Reach[w \in 0 .. Width8 + Width4] == IF w = 0 THEN 1 ELSE 2 * Base * Reach[w - 1]

ASSUME WidthsAssumption ==
  /\ Word <= Reach[Width8] /\ Word4 <= Reach[Width4]
  /\ Word % 2 = 0 /\ Word % Word4 = 0

ASSUME MessagesAssumption ==
  \A m \in Messages \ {Nil} :
    /\ IsMessage(m)
    /\ \A f \in Packed \cap DOMAIN m.at : SumOver(m.at[f], LAMBDA x : ScalarSize(f, x)) < Word

VARIABLES
  msg,   (* The receiver: the value of each field that its type has (at),  *)
         (* and the discriminator (kind).                                  *)
  pc,    (* "idle", "size", "write", "done", "short" (ErrBufferTooShort),  *)
         (* or "overrun": a write behind the end of the buffer.            *)
  at,    (* The place in Order of the field that a pass has reached.       *)
  size,  (* What SizeCodec has added up.                                   *)
  own,   (* Is the buffer the caller's (MarshalToCodec)?                   *)
  buf,
  n      (* The write offset.                                              *)

vars == <<msg, pc, at, size, own, buf, n>>

-----------------------------------------------------------------------------
(* Mutant: a tag is always one byte.                                       *)
TagOneByte(f, wt) == <<8 * f + wt>>

Tag(f, wt) == EncodeVarint[8 * f + wt]
TagSize(f) == SizeVarint(8 * f)

(* A length-delimited field whose body the size pass takes for sz bytes.   *)
LenDel(f, sz, body) == Tag(f, 2) \o EncodeVarint[sz] \o body
LenDelSize(f, sz)   == TagSize(f) + SizeVarint(sz) + sz

(* A number in w bytes, the lowest first.                                  *)
LittleEndian(x, w) ==
  LET High[j \in 0 .. w] == IF j = 0 THEN x ELSE High[j - 1] \div (2 * Base)
  IN  [j \in 1 .. w |-> High[j - 1] % (2 * Base)]

(* Scalars.                                                                *)
ScalarType(f) == IF f \in Fixed8 THEN 1 ELSE IF f \in Fixed4 THEN 5 ELSE 0

ScalarBytes(f, x) ==
  CASE f \in Fixed8 -> LittleEndian(x, Width8)
    [] f \in Fixed4 -> LittleEndian(x, Width4)
    [] f \in Sint   -> EncodeVarint[Zigzag(x, Word)]
    [] OTHER        -> EncodeVarint[x]

(* The nested type: a varint 1 and an optional varint 2.                   *)
VarintField(f, x) == Tag(f, 0) \o EncodeVarint[x]
VarintSize(f, x)  == TagSize(f) + SizeVarint(x)

KidSize(k) ==
  (IF k = Nil \/ k.val = 0 THEN 0 ELSE VarintSize(1, k.val))
  + (IF k = Nil \/ k.opt = Nil THEN 0 ELSE VarintSize(2, k.opt))

KidBytes(k) ==
  (IF k.val = 0 THEN <<>> ELSE VarintField(1, k.val))
  \o (IF k.opt = Nil THEN <<>> ELSE VarintField(2, k.opt))

(* Map values.  A double goes through uint64(v), which drops its fraction; *)
(* the model counts doubles in halves.                                     *)
ValueBytes(f, v) ==
  CASE f \in Doubles -> Tag(2, 1) \o LittleEndian(v \div 2, Width8)
    [] f \in Names   -> LenDel(2, Len(v), v)
    [] OTHER         -> VarintField(2, v)

ValueSize(f, v) ==
  CASE f \in Doubles -> TagSize(2) + Width8
    [] f \in Names   -> LenDelSize(2, Len(v))
    [] OTHER         -> VarintSize(2, v)

EntrySize(f, k, v) == VarintSize(1, k) + ValueSize(f, v)

(* The default of a field, which is not written.  (time.Time{} is in UTC.) *)
NoTime == [ns |-> ZeroTime, zone |-> "UTC"]

ZeroOf(f) ==
  CASE f \in Text \cup Texts \cup Packed \cup Elem -> <<>>
    [] f \in Digest     -> [j \in 1 .. FixedLen |-> 0]
    [] f \in Num \cup Span -> 0
    [] f \in Opt \cup Ptr -> Nil
    [] f \in Maps       -> [k \in {} |-> 0]
    [] f \in Stamp      -> NoTime
    [] f \in Inl        -> [val |-> 0, opt |-> Nil]

(* The presence guards of the two passes.  A *T of no bytes is absent.     *)
(* Mutant: the size pass counts every *T that is not nil.                  *)
SizesNotNil(f, v) == v # ZeroOf(f)

Sizes(f, v)  == v # ZeroOf(f) /\ (f \in Ptr \cup Inl => KidSize(v) > 0)
Writes(f, v) == v # ZeroOf(f) /\ (f \in Ptr \cup Inl => KidSize(v) > 0)

(* The numbers of a finite set, the smallest first.                        *)
Ascending(S) ==
  [j \in 1 .. Cardinality(S) |-> CHOOSE x \in S : Cardinality({y \in S : y < x}) = j - 1]

(* What a field adds to the size, its guard left aside.  (The sum over a   *)
(* map is the same in whatever order range visits the keys.)               *)
FieldSize(f, v) ==
  CASE f \in Text       -> LenDelSize(f, Len(v))
    [] f \in Digest     -> LenDelSize(f, FixedLen)
    [] f \in Texts      -> SumOver(v, LAMBDA x : LenDelSize(f, Len(x)))
    [] f \in Num \cup Opt -> TagSize(f) + ScalarSize(f, v)
    [] f \in Packed     -> LenDelSize(f, SumOver(v, LAMBDA x : ScalarSize(f, x)))
    [] f \in Maps       -> SumOver(Ascending(DOMAIN v), LAMBDA k : LenDelSize(f, EntrySize(f, k, v[k])))
    [] f \in Stamp      -> LenDelSize(f, SizeTimestamp(v.ns))
    [] f \in Span       -> LenDelSize(f, SizeDuration(v))
    [] f \in Ptr \cup Inl -> LenDelSize(f, KidSize(v))
    [] f \in Elem       -> SumOver(v, LAMBDA k : IF k = Nil THEN 0 ELSE LenDelSize(f, KidSize(k)))

(* Mutant: the prefix of a packed field is the number of its elements.     *)
PackedCount(f, v) == Len(v)

(* The prefix of a packed field, added up a second time by the write pass. *)
PackedPrefix(f, v) == SumOver(v, LAMBDA x : ScalarSize(f, x))

(* Mutant: the keys are visited as range yields them.                      *)
KeysUnsorted(f, ks) == ks

(* slices.Sort, before the entries of a map are written; the keys false    *)
(* and true, 0 and 1 on the wire, are looked up one after the other.       *)
KeyOrder(f, ks) == Ascending(ToSet(ks))

(* The bytes of a field; ks are the keys of a map in the order of range.   *)
FieldBytes(f, v, ks) ==
  CASE f \in Text       -> LenDel(f, Len(v), v)
    [] f \in Digest     -> LenDel(f, FixedLen, v)
    [] f \in Texts      -> Joined(v, LAMBDA x : LenDel(f, Len(x), x))
    [] f \in Num \cup Opt -> Tag(f, ScalarType(f)) \o ScalarBytes(f, v)
    [] f \in Packed     -> LenDel(f, PackedPrefix(f, v), Joined(v, LAMBDA x : ScalarBytes(f, x)))
    [] f \in Maps       -> Joined(KeyOrder(f, ks), LAMBDA k :
                             LenDel(f, EntrySize(f, k, v[k]), VarintField(1, k) \o ValueBytes(f, v[k])))
    [] f \in Stamp      -> LenDel(f, SizeTimestamp(v.ns), EncodeTimestamp(v.ns))
    [] f \in Span       -> LenDel(f, SizeDuration(v), EncodeDuration(v))
    [] f \in Ptr \cup Inl -> LenDel(f, KidSize(v), KidBytes(v))
    [] f \in Elem       -> Joined(v, LAMBDA k :
                             IF k = Nil THEN <<>> ELSE LenDel(f, KidSize(k), KidBytes(k)))

-----------------------------------------------------------------------------
(* The fields outside the oneof, declared in the order of their numbers,   *)
(* and then the branch that the discriminator names, which is written      *)
(* whatever its value is.                                                  *)
Declared == Ascending(DOMAIN msg.at \ Branch)
Order    == Declared \o (IF msg.kind = None THEN <<>> ELSE <<msg.kind>>)

Value(f) == msg.at[f]

(* The orders in which range may visit the keys of a map.                  *)
Ranges(f) == IF f \in Maps THEN SetToSeqs(DOMAIN Value(f)) ELSE {<<>>}

SizeOf(f)       == IF f \in Branch \/ Sizes(f, Value(f)) THEN FieldSize(f, Value(f)) ELSE 0
BytesOf(f, ks)  == IF f \in Branch \/ Writes(f, Value(f)) THEN FieldBytes(f, Value(f), ks) ELSE <<>>

Unwritten == -1
Empty(k)  == [j \in 1 .. k |-> Unwritten]

(* The buffer b after the bytes were written from offset o on.             *)
Put(b, o, bytes) ==
  [j \in DOMAIN b |-> IF j - o \in DOMAIN bytes THEN bytes[j - o] ELSE b[j]]

Init ==
  /\ msg \in Messages
  /\ pc   = [p \in Callers |-> "idle"]
  /\ at   = [p \in Callers |-> 1]
  /\ size = [p \in Callers |-> 0]
  /\ own  = [p \in Callers |-> FALSE]
  /\ buf  = [p \in Callers |-> <<>>]
  /\ n    = [p \in Callers |-> 0]

InCall(p) == pc[p] \in {"size", "write"}

(* A goroutine enters MarshalCodec, or MarshalToCodec with a buffer.  Both *)
(* return at once on a nil receiver.                                       *)
Enter(p, mine, given) ==
  /\ pc[p] = "idle"
  /\ pc'  = [pc EXCEPT ![p] = IF msg = Nil THEN "done" ELSE "size"]
  /\ own' = [own EXCEPT ![p] = mine]
  /\ buf' = [buf EXCEPT ![p] = given]
  /\ UNCHANGED <<msg, at, size, n>>

SizeField(p) ==
  /\ pc[p] = "size" /\ at[p] <= Len(Order)
  /\ size' = [size EXCEPT ![p] = @ + SizeOf(Order[at[p]])]
  /\ at'   = [at EXCEPT ![p] = @ + 1]
  /\ UNCHANGED <<msg, pc, own, buf, n>>

(* Mutant: MarshalToCodec takes any buffer that is not empty.              *)
AcceptsAny(p) == buf[p] # <<>> \/ size[p] = 0

Accepts(p) == Len(buf[p]) >= size[p]

(* Between the passes: MarshalCodec returns nil for a message of no bytes  *)
(* and else allocates; MarshalToCodec looks at the length of its buffer.   *)
Sized(p) ==
  /\ pc[p] = "size" /\ at[p] > Len(Order)
  /\ at' = [at EXCEPT ![p] = 1]
  /\ IF own[p]
     THEN /\ pc' = [pc EXCEPT ![p] = IF Accepts(p) THEN "write" ELSE "short"]
          /\ UNCHANGED buf
     ELSE /\ pc'  = [pc EXCEPT ![p] = IF size[p] = 0 THEN "done" ELSE "write"]
          /\ buf' = [buf EXCEPT ![p] = Empty(size[p])]
  /\ UNCHANGED <<msg, size, own, n>>

WriteField(p) ==
  /\ pc[p] = "write" /\ at[p] <= Len(Order)
  /\ \E ks \in Ranges(Order[at[p]]) :
       LET bytes == BytesOf(Order[at[p]], ks)
       IN  IF n[p] + Len(bytes) > Len(buf[p])
           THEN pc' = [pc EXCEPT ![p] = "overrun"] /\ UNCHANGED <<at, buf, n>>
           ELSE /\ buf' = [buf EXCEPT ![p] = Put(@, n[p], bytes)]
                /\ n'   = [n EXCEPT ![p] = @ + Len(bytes)]
                /\ at'  = [at EXCEPT ![p] = @ + 1]
                /\ UNCHANGED pc
  /\ UNCHANGED <<msg, size, own>>

Written(p) ==
  /\ pc[p] = "write" /\ at[p] > Len(Order)
  /\ pc' = [pc EXCEPT ![p] = "done"]
  /\ UNCHANGED <<msg, at, size, own, buf, n>>

(* The owner changes the message.  The contract lets no call be in flight; *)
(* the results of earlier calls are dropped.                               *)
Assign ==
  /\ \A p \in Callers : ~InCall(p)
  /\ \E p \in Callers : pc[p] # "idle"
  /\ msg' \in Messages
  /\ pc'   = [p \in Callers |-> "idle"]
  /\ at'   = [p \in Callers |-> 1]
  /\ size' = [p \in Callers |-> 0]
  /\ own'  = [p \in Callers |-> FALSE]
  /\ buf'  = [p \in Callers |-> <<>>]
  /\ n'    = [p \in Callers |-> 0]

Next ==
  \/ Assign
  \/ \E p \in Callers :
       \/ Enter(p, FALSE, <<>>)
       \/ \E k \in Buffers : Enter(p, TRUE, Empty(k))
       \/ SizeField(p) \/ Sized(p) \/ WriteField(p) \/ Written(p)

Spec == Init /\ [][Next]_vars

-----------------------------------------------------------------------------
TypeOK ==
  /\ msg  \in Messages
  /\ pc   \in [Callers -> {"idle", "size", "write", "done", "short", "overrun"}]
  /\ at   \in [Callers -> 1 .. Cardinality(Field) + 2]
  /\ size \in [Callers -> Nat]
  /\ own  \in [Callers -> BOOLEAN]
  /\ \A p \in Callers :
       /\ n[p] \in 0 .. Len(buf[p])
       /\ \A j \in DOMAIN buf[p] : buf[p][j] \in Byte \cup {Unwritten}

(* The two passes agree: the write pass, which checks no bound, never      *)
(* leaves the buffer and ends exactly at the size (codec.md REQ-001 and    *)
(* 008; MarshalCodec has no error to return, gen_marshal.go:16-22).        *)
FitsExactly ==
  \A p \in Callers : pc[p] # "overrun" /\ (pc[p] = "done" => n[p] = size[p])

(* MarshalToCodec writes nothing into a buffer that is too short, and      *)
(* nothing behind the message in one that is longer (REQ-054).             *)
WritesOnlyTheMessage ==
  \A p \in Callers :
    /\ \A j \in n[p] + 1 .. Len(buf[p]) : buf[p][j] = Unwritten
    /\ pc[p] # "size" /\ Len(buf[p]) < size[p] => n[p] = 0

Output(p) == SubSeq(buf[p], 1, n[p])

(* Two calls for the same message yield the same bytes, in whatever order  *)
(* each of them ranged over the maps (REQ-026).                            *)
Deterministic ==
  \A p, q \in Callers : pc[p] = "done" /\ pc[q] = "done" => Output(p) = Output(q)

(* The reading of an output, as proto3 has it: from the values that a      *)
(* field has in it, one after the other.                                   *)
NumberOf(bytes) ==
  LET High[j \in 0 .. Len(bytes)] ==
        IF j = 0 THEN 0 ELSE bytes[Len(bytes) + 1 - j] + 2 * Base * High[j - 1]
  IN  High[Len(bytes)]

LastOf(vs, dft) == IF vs = <<>> THEN dft ELSE vs[Len(vs)]
In(b, num, wt)  == Values(Contents(b), num, wt)

ScalarRead(f, x) ==
  CASE f \in Fixed8 \cup Fixed4 -> NumberOf(x)
    [] f \in Sint -> Unzigzag(x)
    [] OTHER      -> x

Parts(f, b) ==
  CASE f \in Fixed8 -> Pieces(b, Width8)
    [] f \in Fixed4 -> Pieces(b, Width4)
    [] OTHER        -> VarintsOf(b)

ScalarsRead(f, xs) == [j \in DOMAIN xs |-> ScalarRead(f, xs[j])]
PackedRead(f, b)   == ScalarsRead(f, Parts(f, b))

KidRead(b)  == [val |-> LastOf(In(b, 1, 0), 0), opt |-> LastOf(In(b, 2, 0), Nil)]
TimeRead(b) == [ns |-> DecodeTimestamp(LastOf(In(b, 1, 0), 0), LastOf(In(b, 2, 0), 0)), zone |-> "UTC"]
SpanRead(b) == DecodeDuration(LastOf(In(b, 1, 0), 0), LastOf(In(b, 2, 0), 0))

EntryKey(b)    == LastOf(In(b, 1, 0), 0)
EntryVal(f, b) ==
  CASE f \in Doubles -> 2 * NumberOf(LastOf(In(b, 2, 1), <<>>))
    [] f \in Names   -> LastOf(In(b, 2, 2), <<>>)
    [] OTHER         -> LastOf(In(b, 2, 0), 0)

LastWith(k, vs) == Max({j \in DOMAIN vs : EntryKey(vs[j]) = k})

ValueRead(f, vs) ==
  CASE f \in Text \cup Digest -> LastOf(vs, ZeroOf(f))
    [] f \in Texts  -> vs
    [] f \in Num \cup Opt -> IF vs = <<>> THEN ZeroOf(f) ELSE ScalarRead(f, LastOf(vs, 0))
    [] f \in Packed -> Joined(vs, LAMBDA b : PackedRead(f, b))
    [] f \in Maps   -> [k \in {EntryKey(b) : b \in ToSet(vs)} |-> EntryVal(f, vs[LastWith(k, vs)])]
    [] f \in Stamp  -> IF vs = <<>> THEN NoTime ELSE TimeRead(LastOf(vs, <<>>))
    [] f \in Span   -> SpanRead(LastOf(vs, <<>>))
    [] f \in Ptr    -> IF vs = <<>> THEN Nil ELSE KidRead(LastOf(vs, <<>>))
    [] f \in Inl    -> KidRead(LastOf(vs, <<>>))
    [] f \in Elem   -> [j \in DOMAIN vs |-> KidRead(vs[j])]

WireOf(f)    == IF f \in Num \cup Opt THEN ScalarType(f) ELSE 2
Branches(cs) == FlattenSeq([k \in DOMAIN cs |-> IF cs[k].f \in Branch THEN <<cs[k].f>> ELSE <<>>])

Read(cs) ==
  [kind |-> LastOf(Branches(cs), None),
   at   |-> [f \in DOMAIN msg.at |-> ValueRead(f, Values(cs, f, WireOf(f)))]]

(* What of a message proto3 can carry: not an empty *T, which is absent    *)
(* (gen_marshal.go:127-130), a nil element of a []*T, or a branch that the *)
(* discriminator does not name; and of a time the instant, the Unix epoch  *)
(* not told from time.Time{} (wkt.go:77-80), but not the zone.             *)
Carried(m) ==
  [m EXCEPT !.at = [f \in DOMAIN m.at |->
     LET v == m.at[f]
     IN  IF f \in Branch \ {m.kind} THEN ZeroOf(f)
         ELSE CASE f \in Stamp         -> [ns |-> IF v.ns = 0 THEN ZeroTime ELSE v.ns, zone |-> "UTC"]
                [] f \in Ptr \ Branch  -> IF KidSize(v) = 0 THEN Nil ELSE v
                [] f \in Elem          -> Joined(v, LAMBDA k : IF k = Nil THEN <<>> ELSE <<k>>)
                [] OTHER               -> v]]

(* The bytes are proto3 for the message: the prefixes frame their bodies,  *)
(* there are no records but of its fields, and every field that is set is  *)
(* read back, presence and the discriminator included (REQ-080;            *)
(* docs/generators/go.md:205-216).                                         *)
IsCopy(cs) == (\A k \in DOMAIN cs : cs[k].f \in DOMAIN msg.at) /\ Read(cs) = Carried(msg)

RoundTrips ==
  \A p \in Callers : pc[p] = "done" /\ msg # Nil => IsCopy(Contents(Output(p)))
=============================================================================
