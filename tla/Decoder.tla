------------------------------ MODULE Decoder ------------------------------
(***************************************************************************)
(* One call of UnmarshalCodec on bytes, for a message type whose nested    *)
(* fields are of its own type: the capacity pre-scan, the main loop with   *)
(* its case arms, the runs of packed fields, the loops over the entries of *)
(* maps and over the bodies of well-known types, and the call of           *)
(* UnmarshalCodecInternal for a nested message, on a slice of the input.   *)
(* A step is one turn of a loop, a call or a return.                       *)
(***************************************************************************)
EXTENDS Proto, WellKnown, TLC

CONSTANTS
  Packed,    (* Numbers of the repeated varint fields,                     *)
  Fixed8,    (* of the fixed64 fields,                                     *)
  Fixed4,    (* of the fixed32 fields,                                     *)
  Num,       (* of the varint scalars,                                     *)
  Text,      (* of the strings,                                            *)
  Bytes,     (* of the bytes fields,                                       *)
  Msg,       (* of the nested messages,                                    *)
  Map,       (* of the maps,                                               *)
  Stamp,     (* of the Timestamps,                                         *)
  Span,      (* of the Durations.                                          *)
  Repeated,  (* The repeated ones, of any of these.                        *)
  MapKinds,  (* The kinds of the key and the value of each map.            *)
  Digest,    (* The bytes fields of a fixed length ...                     *)
  FixedLen,  (* ... and that length.                                       *)
  Inputs     (* The inputs.                                                *)

Fixed  == Fixed8 \cup Fixed4
Listed == Packed \cup (Fixed \cap Repeated)
Elems  == Msg \cap Repeated
Known  == Packed \cup Fixed \cup Num \cup Text \cup Bytes \cup Msg \cup Map
          \cup Stamp \cup Span

(* What the key and the value of a map can be; an enum or an unsigned 32-  *)
(* bit number is of kind int32, and a float or a double of a fixed one.    *)
ScalarKind == {"int64", "int32", "bool", "fixed64", "fixed32", "string", "bytes"}

(* A field has one kind.  (The arm of a well-known type assigns a time, so *)
(* that of a repeated one would not compile.)                              *)
ASSUME DecoderAssumption ==
  /\ LET kinds == <<Packed, Fixed8, Fixed4, Num, Text, Bytes, Msg, Map, Stamp, Span>>
     IN  \A j, k \in DOMAIN kinds : j # k => kinds[j] \cap kinds[k] = {}
  /\ Known \subseteq Nat \ {0}
  /\ Packed \subseteq Repeated /\ Digest \subseteq Bytes
  /\ Repeated \subseteq Known \ (Num \cup Stamp \cup Span)
  /\ MapKinds \in [Map -> (ScalarKind \ {"bytes"}) \X ScalarKind]
  /\ FixedLen \in Nat \ {0}
  /\ Inputs \subseteq Seq(Byte)

VARIABLES
  input,   (* What UnmarshalCodec was given.                               *)
  pc,      (* "prescan", "main", "run", "entry", "ok" or "err".            *)
  top,     (* The running call of UnmarshalCodecInternal: its slice (data) *)
           (* and the offset of that in the slab (off), the repeated       *)
           (* message fields whose slice is nil (cold), the cursor of the  *)
           (* pre-scan and preCount_N (pi, counts), the cursor (i), and    *)
           (* what was stored in each field (out).                         *)
  stack,   (* The calls it is nested in, each with the field it is reading.*)
  field,   (* The field whose run or entry is being read ...               *)
  end,     (* ... where that ends ...                                      *)
  mk, mv   (* ... and the key and the value of the entry.                  *)

vars == <<input, pc, top, stack, field, end, mk, mv>>

Frame(bytes, offset, nils) ==
  [data |-> bytes, off |-> offset, cold |-> nils, pi |-> 0,
   counts |-> [f \in Elems |-> 0], i |-> 0, out |-> [f \in Known |-> <<>>]]

Start(nils) == IF nils = {} THEN "main" ELSE "prescan"

(* messageNeedsSlab, and the slab: the input as a string.                  *)
NeedsSlab ==
  \/ Text \cup Msg # {}
  \/ \E f \in Map : "string" \in {MapKinds[f][1], MapKinds[f][2]}
slab      == IF NeedsSlab THEN input ELSE <<>>

data == top.data
i    == top.i
l    == Len(data)

Slab(from, to) == Cut(slab, top.off + from, top.off + to)

Init ==
  /\ input \in Inputs
  /\ \E nils \in SUBSET Elems : top = Frame(input, 0, nils) /\ pc = Start(nils)
  /\ stack = <<>> /\ field = 0 /\ end = 0 /\ mk = 0 /\ mv = <<>>

-----------------------------------------------------------------------------
(* The tag at offset p of s, the varint behind it, which is the value of a *)
(* varint field or the length of a body, and the body.                     *)
After(s, p)   == p + VarintLen(s, p)
TagAt(s, p)   == VarintValue(s, p)
Body(s, p)    == After(s, After(s, p))
Operand(s, p) == VarintValue(s, After(s, p))
BodyEnd(s, p) == Body(s, p) + Operand(s, p)
HasOperand(s, p)  == VarintLen(s, After(s, p)) > 0
Fits(s, p)    == HasOperand(s, p) /\ Operand(s, p) <= Left(s, Body(s, p))

(* The pre-scan.  A break on malformed content leaves the switch, not the  *)
(* loop, so the walk goes on behind what it could read.                    *)
(* Mutant: the tag is consumed only together with a field body.            *)
PrescanStuck(s, p) ==
  LET wt == WireType(TagAt(s, p)) IN
  IF wt \in {0, 1, 2, 5} /\ SkipField(s, After(s, p), wt) > 0
  THEN After(s, p) + SkipField(s, After(s, p), wt)
  ELSE p

(* Mutant: the walk steps into the bodies.                                 *)
PrescanInside(s, p) ==
  LET wt == WireType(TagAt(s, p)) IN
  CASE wt = 0 /\ HasOperand(s, p)                  -> Body(s, p)
    [] wt = 1 /\ Left(s, After(s, p)) >= Width8    -> After(s, p) + Width8
    [] wt = 2 /\ HasOperand(s, p)                  -> Body(s, p)
    [] wt = 5 /\ Left(s, After(s, p)) >= Width4    -> After(s, p) + Width4
    [] OTHER                                       -> After(s, p)

PrescanNext(s, p) ==
  LET wt == WireType(TagAt(s, p)) IN
  CASE wt = 0 /\ HasOperand(s, p)                  -> Body(s, p)
    [] wt = 1 /\ Left(s, After(s, p)) >= Width8    -> After(s, p) + Width8
    [] wt = 2 /\ Fits(s, p)                        -> BodyEnd(s, p)
    [] wt = 2 /\ HasOperand(s, p) /\ ~Fits(s, p)   -> Body(s, p)
    [] wt = 5 /\ Left(s, After(s, p)) >= Width4    -> After(s, p) + Width4
    [] OTHER                                       -> After(s, p)

PrescanStep ==
  /\ pc = "prescan" /\ top.pi < l /\ VarintLen(data, top.pi) > 0
  /\ top' = [top EXCEPT
       !.pi = PrescanNext(data, @),
       !.counts = [f \in Elems |->
         IF WireType(TagAt(data, top.pi)) = 2 /\ Fits(data, top.pi)
            /\ FieldNum(TagAt(data, top.pi)) = f
         THEN @[f] + 1 ELSE @[f]]]
  /\ UNCHANGED <<input, pc, stack, field, end, mk, mv>>

PrescanEnd ==
  /\ pc = "prescan" /\ (top.pi >= l \/ VarintLen(data, top.pi) < 0)
  /\ pc' = "main"
  /\ UNCHANGED <<input, top, stack, field, end, mk, mv>>

-----------------------------------------------------------------------------
(* The main loop.  An error ends the whole decode, however deep it is.     *)
Fails == pc' = "err" /\ UNCHANGED <<input, top, stack, field, end, mk, mv>>

Stored(out, f, x) == [out EXCEPT ![f] = Append(IF f \in Repeated THEN @ ELSE <<>>, x)]

Moves(to) == top' = [top EXCEPT !.i = to]

Stores(to, f, x) ==
  /\ top' = [top EXCEPT !.i = to, !.out = Stored(@, f, x)]
  /\ UNCHANGED <<input, pc, stack, field, end, mk, mv>>

(* The field loops, over a run or an entry, begin and end.                 *)
Loop(kind, f) ==
  /\ pc' = kind /\ field' = f
  /\ Moves(Body(data, i)) /\ end' = BodyEnd(data, i)
  /\ UNCHANGED <<input, stack>>

LoopEnds == pc' = "main" /\ field' = 0 /\ end' = 0 /\ UNCHANGED <<input, stack>>

BadTag == pc = "main" /\ i < l /\ VarintLen(data, i) < 0 /\ Fails

(* The arm for field f is entered, and its wire type.                      *)
Arm(f) == pc = "main" /\ i < l /\ VarintLen(data, i) > 0 /\ FieldNum(TagAt(data, i)) = f
Wt     == WireType(TagAt(data, i))

(* The wire types the arm takes, and what it does.                         *)
WireTypes(f) ==
  CASE f \in Packed -> {0, 2}
    [] f \in Fixed8 -> IF f \in Repeated THEN {1, 2} ELSE {1}
    [] f \in Fixed4 -> IF f \in Repeated THEN {5, 2} ELSE {5}
    [] f \in Num    -> {0}
    [] OTHER        -> {2}

WrongWireType(f) == Wt \notin WireTypes(f) /\ Fails

(* A body whose length is malformed, or too much for what is left; for a   *)
(* field of a fixed length, also one of another length.                    *)
BadBody(f) ==
  /\ Wt = 2 /\ Wt \in WireTypes(f)
  /\ \/ ~Fits(data, i)
     \/ f \in Digest /\ Operand(data, i) # FixedLen
  /\ Fails

Varint(f) ==
  /\ Wt = 0 /\ Wt \in WireTypes(f)
  /\ \/ ~HasOperand(data, i) /\ Fails
     \/ HasOperand(data, i) /\ Stores(Body(data, i), f, Operand(data, i))

(* The number of fixed width is of no interest: its bytes stand for it.    *)
Width(f) == IF f \in Fixed8 THEN Width8 ELSE Width4

FixedWidth(f) ==
  /\ f \in Fixed /\ Wt \in WireTypes(f) \ {2}
  /\ LET to == After(data, i) + Width(f)
     IN  \/ to > l /\ Fails
         \/ to <= l /\ Stores(to, f, Cut(data, to - Width(f), to))

(* A string is a piece of the slab, and bytes are copied from the slice.   *)
TextField(f) ==
  /\ f \in Text /\ Wt = 2 /\ Fits(data, i)
  /\ Stores(BodyEnd(data, i), f, Slab(Body(data, i), BodyEnd(data, i)))

BytesField(f) ==
  /\ f \in Bytes /\ Wt = 2 /\ Fits(data, i)
  /\ f \in Digest => Operand(data, i) = FixedLen
  /\ Stores(BodyEnd(data, i), f, Cut(data, Body(data, i), BodyEnd(data, i)))

(* A repeated scalar, packed: its body is left to the steps of a run.      *)
EnterRun(f) ==
  /\ f \in Listed /\ Wt = 2 /\ Fits(data, i)
  /\ Loop("run", f) /\ UNCHANGED <<mk, mv>>

(* Mutant: a number that ends where the body does is left unread.          *)
RunStopsEarly == IF field \in Packed THEN i < end ELSE i + Width(field) < end

RunGoesOn == IF field \in Packed THEN i < end ELSE i + Width(field) <= end

(* The elements are read from the rest of the slice, not of the body.      *)
VarintRun ==
  /\ pc = "run" /\ field \in Packed /\ RunGoesOn
  /\ \/ VarintLen(data, i) < 0 /\ Fails
     \/ VarintLen(data, i) > 0 /\ Stores(After(data, i), field, TagAt(data, i))

FixedRun ==
  /\ pc = "run" /\ field \in Fixed /\ RunGoesOn
  /\ Stores(i + Width(field), field, Cut(data, i, i + Width(field)))

(* The cursor stays where the run left it.                                 *)
LeaveRun ==
  /\ pc = "run" /\ ~RunGoesOn
  /\ LoopEnds /\ UNCHANGED <<top, mk, mv>>

-----------------------------------------------------------------------------
(* The loop over the entry of a map: a key in field 1, a value in field 2, *)
(* each with its default before.  DecodeTimestamp and DecodeDuration loop  *)
(* over a body in the same way, with the seconds in 1 and the nanoseconds, *)
(* a varint, in 2.  None of these arms looks at the wire type of its tag.  *)
Kind(f, num) == IF f \in Map THEN MapKinds[f][num] ELSE "int64"
SizeOf(kind) == IF kind = "fixed64" THEN Width8 ELSE Width4

Default(kind) ==
  CASE kind \in {"int64", "int32", "bool"} -> 0
    [] kind \in {"fixed64", "fixed32"}     -> [k \in 1 .. SizeOf(kind) |-> 0]
    [] OTHER                               -> <<>>

EnterEntry(f) ==
  /\ f \in Map \cup Stamp \cup Span /\ Wt = 2 /\ Fits(data, i)
  /\ Loop("entry", f) /\ mk' = Default(Kind(f, 1)) /\ mv' = Default(Kind(f, 2))

(* Mutant: the entry is read from the rest of the slice.                   *)
EntryUnbounded == data

(* What the entry is read from: data[:entryEnd].                           *)
EntryData == SubSeq(data, 1, end)

EntryTag(num) == pc = "entry" /\ i < end /\ VarintLen(EntryData, i) > 0
                 /\ FieldNum(TagAt(EntryData, i)) = num

(* emitScalarRead for one kind, behind the tag at p of the entry s: whether*)
(* it finds all it needs, what it reads, and where it leaves the cursor.   *)
(* The Go type of a number of 32 bits, or a bool, holds less than a varint.*)
Narrow(kind, v) ==
  CASE kind = "bool" -> IF v = 0 THEN 0 ELSE 1 [] kind = "int32" -> v % Word4 [] OTHER -> v

Readable(kind, s, p) ==
  CASE kind \in {"int64", "int32", "bool"} -> HasOperand(s, p)
    [] kind \in {"fixed64", "fixed32"}     -> Left(s, After(s, p)) >= SizeOf(kind)
    [] OTHER                               -> Fits(s, p)

ReadTo(kind, s, p) ==
  CASE kind \in {"int64", "int32", "bool"} -> Body(s, p)
    [] kind \in {"fixed64", "fixed32"}     -> After(s, p) + SizeOf(kind)
    [] OTHER                               -> BodyEnd(s, p)

Scalar(kind, s, p) ==
  CASE kind \in {"int64", "int32", "bool"} -> Narrow(kind, Operand(s, p))
    [] kind \in {"fixed64", "fixed32"}     -> Cut(s, After(s, p), ReadTo(kind, s, p))
    [] kind = "string"                     -> Slab(Body(s, p), BodyEnd(s, p))
    [] OTHER                               -> Cut(s, Body(s, p), BodyEnd(s, p))

EntryReads(to) ==
  Moves(to) /\ UNCHANGED <<input, pc, stack, field, end>>

EntryFails ==
  /\ pc = "entry" /\ i < end
  /\ LET s == EntryData
         n == FieldNum(TagAt(s, i))
     IN  \/ VarintLen(s, i) < 0
         \/ n \in {1, 2} /\ ~Readable(Kind(field, n), s, i)
         \/ n \notin {1, 2} /\ SkipField(s, After(s, i), WireType(TagAt(s, i))) < 0
  /\ Fails

EntryKey ==
  /\ EntryTag(1) /\ Readable(Kind(field, 1), EntryData, i)
  /\ mk' = Scalar(Kind(field, 1), EntryData, i) /\ UNCHANGED mv
  /\ EntryReads(ReadTo(Kind(field, 1), EntryData, i))

EntryValue ==
  /\ EntryTag(2) /\ Readable(Kind(field, 2), EntryData, i)
  /\ mv' = Scalar(Kind(field, 2), EntryData, i) /\ UNCHANGED mk
  /\ EntryReads(ReadTo(Kind(field, 2), EntryData, i))

EntryUnknown ==
  /\ pc = "entry" /\ i < end /\ VarintLen(EntryData, i) > 0
  /\ FieldNum(TagAt(EntryData, i)) \notin {1, 2}
  /\ LET n == SkipField(EntryData, After(EntryData, i), WireType(TagAt(EntryData, i)))
     IN  n > 0 /\ EntryReads(After(EntryData, i) + n)
  /\ UNCHANGED <<mk, mv>>

(* The result of DecodeTimestamp or DecodeDuration.                        *)
Time(f, secs, nanos) ==
  IF f \in Stamp THEN DecodeTimestamp(secs, nanos) ELSE DecodeDuration(secs, nanos)

(* A map takes the entry, over an earlier one with the same key; a         *)
(* well-known type is assigned.                                            *)
LeaveEntry ==
  /\ pc = "entry" /\ i >= end
  /\ top' = [top EXCEPT !.out[field] =
       IF field \in Map THEN (mk :> mv) @@ @ ELSE <<Time(field, mk, mv)>>]
  /\ mk' = 0 /\ mv' = <<>>
  /\ LoopEnds

-----------------------------------------------------------------------------
(* The call for a nested message, on a slice of the caller's, with the     *)
(* offset of that in the slab.  A new message has no slice yet, one that   *)
(* is taken from a slice that is not nil may have been used before.        *)
(* Mutant: the offset is the one in the caller's slice.                    *)
OffsetInSlice(at) == at

OffsetInSlab(at) == top.off + at

Colds(f) == IF f \in top.cold THEN {Elems} ELSE SUBSET Elems

Enter(f) ==
  /\ f \in Msg /\ Wt = 2 /\ Fits(data, i)
  /\ stack' = Append(stack, [f |-> f, call |-> [top EXCEPT !.i = Body(data, i)]])
  /\ \E nils \in Colds(f) :
       /\ top' = Frame(Cut(data, Body(data, i), BodyEnd(data, i)),
                       OffsetInSlab(Body(data, i)), nils)
       /\ pc' = Start(nils)
  /\ UNCHANGED <<input, field, end, mk, mv>>

Return ==
  /\ pc = "main" /\ i >= l /\ stack # <<>>
  /\ LET caller == Last(stack)
     IN  top' = [caller.call EXCEPT !.i = @ + l, !.out = Stored(@, caller.f, top.out)]
  /\ stack' = Front(stack)
  /\ UNCHANGED <<input, pc, field, end, mk, mv>>

Finish ==
  /\ pc = "main" /\ i >= l /\ stack = <<>>
  /\ pc' = "ok"
  /\ UNCHANGED <<input, top, stack, field, end, mk, mv>>

Unknown ==
  /\ pc = "main" /\ i < l /\ VarintLen(data, i) > 0
  /\ FieldNum(TagAt(data, i)) \notin Known
  /\ LET n == SkipField(data, After(data, i), Wt)
     IN  \/ n < 0 /\ Fails
         \/ n > 0 /\ Moves(After(data, i) + n) /\ UNCHANGED <<input, pc, stack, field, end, mk, mv>>

ReadField(f) ==
  /\ Arm(f)
  /\ \/ WrongWireType(f) \/ BadBody(f) \/ Varint(f) \/ FixedWidth(f) \/ TextField(f)
     \/ BytesField(f) \/ EnterRun(f) \/ EnterEntry(f) \/ Enter(f)

Next ==
  \/ PrescanStep \/ PrescanEnd
  \/ BadTag \/ Unknown \/ \E f \in Known : ReadField(f)
  \/ VarintRun \/ FixedRun \/ LeaveRun
  \/ EntryFails \/ EntryKey \/ EntryValue \/ EntryUnknown \/ LeaveEntry
  \/ Return \/ Finish

(* The loops run in one goroutine and wait for nothing.                    *)
Spec == Init /\ [][Next]_vars /\ WF_vars(Next)

-----------------------------------------------------------------------------
(* The input as proto3 reads it.  A packed body is whole when no element   *)
(* is cut off by its end; an entry is typed when its key and its value     *)
(* have the wire types of the schema.                                      *)
Whole(s, r) ==
  r.f \in Listed /\ r.wt = 2 =>
    LET b == BodyOf(s, r)
    IN  IF r.f \in Packed THEN b = <<>> \/ Last(b) < Base ELSE Len(b) % Width(r.f) = 0

EntryWt(kind) ==
  CASE kind \in {"int64", "int32", "bool"} -> 0
    [] kind = "fixed64" -> 1 [] kind = "fixed32" -> 5 [] OTHER -> 2

EntryTyped(f, b) ==
  \A r \in ToSet(Records(b)) : r.num \in {1, 2} => r.wt = EntryWt(Kind(f, r.num))

Framed(s) == \A r \in ToSet(Records(s)) : r.f # -1

(* The last of the first n records rs that has number num, 0 for none; what*)
(* a record says of a scalar of some kind; the key (1) or the value (2)    *)
(* that the first n records of b leave, the default if there is none; and  *)
(* what the entry of a map, or the body of a well-known type, says.        *)
LastOf(rs, n, num) == Max({0} \cup {k \in 1 .. n : rs[k].f = num})

Says(kind, b, r) ==
  CASE EntryWt(kind) = 0      -> Narrow(kind, ValueOf(b, r))
    [] EntryWt(kind) \in {1, 5} -> Cut(b, r.from, r.to)
    [] OTHER                  -> BodyOf(b, r)

EntryLast(f, b, n, num) ==
  LET k == LastOf(Records(b), n, num)
  IN  IF k = 0 THEN Default(Kind(f, num)) ELSE Says(Kind(f, num), b, Records(b)[k])

EntryOf(f, key, value) == IF f \in Map THEN key :> value ELSE <<Time(f, key, value)>>

EntryMeaning(f, b) ==
  EntryOf(f, EntryLast(f, b, Len(Records(b)), 1), EntryLast(f, b, Len(Records(b)), 2))

(* The parts of the reference: which records hold a message or an entry,   *)
(* whether a record is sound, and the items it adds to its field; inner is *)
(* the meaning of the nested messages.                                     *)
IsNested(r) == r.f \in Msg /\ r.wt = 2
IsEntry(r)  == r.f \in Map \cup Stamp \cup Span /\ r.wt = 2

Good(s, r) ==
  /\ r.f # -1
  /\ r.f \in Known => r.wt \in WireTypes(r.f)
  /\ r.f \in Digest => Len(BodyOf(s, r)) = FixedLen
  /\ r.f \in Packed /\ r.wt = 2 => OnlyVarints(BodyOf(s, r))
  /\ IsEntry(r) => Framed(BodyOf(s, r))

Items(s, r, inner) ==
  CASE r.f \in Packed \cup Num /\ r.wt = 0 -> <<ValueOf(s, r)>>
    [] r.f \in Packed /\ r.wt = 2          -> VarintsOf(BodyOf(s, r))
    [] r.f \in Fixed /\ r.wt # 2           -> <<Cut(s, r.from, r.to)>>
    [] r.f \in Fixed /\ r.wt = 2           -> Pieces(BodyOf(s, r), Width(r.f))
    [] r.f \in Text \cup Bytes             -> <<BodyOf(s, r)>>
    [] IsEntry(r)                          -> EntryMeaning(r.f, BodyOf(s, r))
    [] r.f \in Msg                         -> <<inner[BodyOf(s, r)].out>>

(* What field f holds after items more: the last value of each key, all    *)
(* items, or the last one; and after each number of the records rs.        *)
Holds(f, held, items) ==
  IF f \in Map THEN items @@ held
  ELSE (IF f \in Repeated THEN held ELSE <<>>) \o items

Held(rs, items, f) ==
  LET H[n \in 0 .. Len(rs)] ==
        IF n = 0 THEN <<>>
        ELSE IF rs[n].f = f THEN Holds(f, H[n - 1], items[n]) ELSE H[n - 1]
  IN  H

(* Is a message s well-formed (ok), are its packed bodies whole and its    *)
(* entries typed (regular), and what does each of its fields hold (out)?   *)
Reading(s, inner) ==
  LET rs    == Records(s)
      items == [n \in DOMAIN rs |-> Items(s, rs[n], inner)]
      ok    == \A r \in ToSet(rs) : Good(s, r) /\ (IsNested(r) => inner[BodyOf(s, r)].ok)
  IN  [ok      |-> ok,
       regular |-> \A r \in ToSet(rs) :
                     /\ Whole(s, r)
                     /\ IsEntry(r)  => EntryTyped(r.f, BodyOf(s, r))
                     /\ IsNested(r) => inner[BodyOf(s, r)].regular,
       out     |-> IF ok THEN [f \in Known |-> Held(rs, items, f)[Len(rs)]] ELSE <<>>]

Children(s) == {BodyOf(s, r) : r \in {r \in ToSet(Records(s)) : IsNested(r)}}

Meaning[s \in Seq(Byte)] == Reading(s, [b \in Children(s) |-> Meaning[b]])

Calls == {top} \cup {stack[k].call : k \in DOMAIN stack}

TypeOK ==
  /\ input \in Seq(Byte)
  /\ pc \in {"prescan", "main", "run", "entry", "ok", "err"}
  /\ \A c \in Calls :
       /\ c.data \in Seq(Byte) /\ c.off \in Nat /\ c.cold \subseteq Elems
       /\ c.pi \in 0 .. Len(c.data) /\ c.i \in 0 .. Len(c.data)
       /\ DOMAIN c.out = Known
  /\ \A k \in DOMAIN stack : stack[k].f \in Msg
  /\ field \in Known \cup {0} /\ end \in 0 .. l

(* UnmarshalCodec accepts the inputs that are records of the right wire    *)
(* types, rejects all others, and decodes each field to its occurrences in *)
(* order, at every depth, packed or not, whatever unknown fields lie       *)
(* between them (REQ-004, REQ-010, REQ-051 to 057, REQ-093), for inputs    *)
(* without a packed body that is cut inside an element or an entry whose   *)
(* key or value has the wrong wire type.                                   *)
DecodeIsParse ==
  pc \in {"ok", "err"} =>
    \A m \in {Meaning[input]} : m.regular =>
      IF m.ok THEN pc = "ok" /\ top.out = m.out ELSE pc = "err"

(* Whatever the arms read, an entry of the wrong wire types included, the  *)
(* main loop goes on where SkipField would have ended the record, unless a *)
(* packed body was cut: no field is taken for another's payload.           *)
CursorOnRecord ==
  LET rs == Records(data)
      begun == {j \in DOMAIN rs : rs[j].from <= i}
  IN  pc = "main" /\ (\A j \in begun : Whole(data, rs[j])) =>
        i = 0 \/ \E j \in DOMAIN rs : rs[j].to = i

(* A nil slice is made with the capacity it turns out to need (REQ-090).   *)
PrescanExact ==
  pc = "main" /\ i >= l /\ (\A j \in DOMAIN Records(data) : Whole(data, Records(data)[j])) =>
    \A f \in top.cold : top.counts[f] = Len(top.out[f])

(* A message's offset in the slab is that of its slice in the input, at    *)
(* every depth, so a string is made of the bytes the message holds and no  *)
(* index is out of the slab (REQ-089); a slice lies inside its caller's.   *)
SlabHolds ==
  /\ NeedsSlab => \A c \in Calls : c.data = Cut(slab, c.off, c.off + Len(c.data))
  /\ \A k \in DOMAIN stack :
       LET inner == IF k = Len(stack) THEN top ELSE stack[k + 1].call
       IN  stack[k].call.i + Len(inner.data) <= Len(stack[k].call.data)

(* The loops end and the calls return, on every input (REQ-092).           *)
Terminates == <>(pc \in {"ok", "err"})

(* A varint that the end of its packed field cuts off is malformed, and a  *)
(* malformed varint in any field is an error (codec.md:77, REQ-051).       *)
CutVarintIsRejected ==
  pc = "ok" => \A j \in DOMAIN Records(input) : Whole(input, Records(input)[j])
=============================================================================
