------------------------------ MODULE Receiver ------------------------------
(***************************************************************************)
(* The life of one receiver of a generated message type: UnmarshalCodec    *)
(* into whatever earlier calls left behind, ResetCodec between, MarshalCodec*)
(* of the result.  What makes it hard is reuse: the code keeps *T slots,   *)
(* slice backing arrays and the element objects in their spare capacity,   *)
(* and must never let an earlier message show through a later one.         *)
(*                                                                         *)
(* A step of the decode is one occurrence of a field on the wire, that is, *)
(* one turn of the main loop of UnmarshalCodecInternal.  The fields of the *)
(* message type are given by constants, one set for each way the generator *)
(* represents a field in Go.                                               *)
(***************************************************************************)
EXTENDS Nested, Naturals, Sequences

CONSTANTS
  Plain,        (* Scalars, strings, bytes, well-known types, by value.    *)
  Rep,          (* Repeated scalars.                                       *)
  Maps,         (* Map fields.                                             *)
  Keys,         (* The keys of map entries.                                *)
  Opt,          (* proto3 optional scalars, held as *T.                    *)
  Ptr,          (* Singular messages held as *T (use_pointer = true).      *)
  Inl,          (* Singular messages held by value (use_pointer = false).  *)
  Elem,         (* Repeated messages.                                      *)
  PointerElem,  (* Those of them that are []*T; the others are []T.        *)
  Branch,       (* The branches of the oneof.                              *)
  None,         (* The discriminator of a oneof that is not set.           *)
  Wide,         (* The fields whose proto number is above 63.              *)
  ResetBetween, (* Does the caller call ResetCodec before every decode?    *)
  MaxWire,      (* Bound: field occurrences in one input.                  *)
  MaxSlack      (* Bound: spare slots one allocation of a slice brings.    *)

ASSUME FieldAssumption ==
  /\ PointerElem \subseteq Elem
  /\ Branch \subseteq Plain \cup Ptr \cup Inl
  /\ None \notin Plain \cup Ptr \cup Inl
  /\ ResetBetween \in BOOLEAN
  /\ MaxWire \in Nat /\ MaxSlack \in Nat

ASSUME DistinctFields ==
  /\ Plain \cap (Rep \cup Maps \cup Opt \cup Ptr \cup Inl \cup Elem) = {}
  /\ Rep \cap (Maps \cup Opt \cup Ptr \cup Inl \cup Elem) = {}
  /\ Maps \cap (Opt \cup Ptr \cup Inl \cup Elem) = {}
  /\ Opt \cap (Ptr \cup Inl \cup Elem) = {}
  /\ Ptr \cap (Inl \cup Elem) = {}
  /\ Inl \cap Elem = {}

VARIABLES
  status,  (* What the last call did, or "decoding" inside UnmarshalCodec. *)
  plain, rep, maps, opt, ptr, inl,
  live,    (* The elements of each repeated message field: s[0:len(s)].    *)
  spare,   (* The slots behind them: s[len(s):cap(s)].                     *)
  kind,    (* The discriminator of the oneof.                              *)
  seen,    (* The fields decoded by this call; the code's seenOptional is  *)
           (* its part in Poolable.                                        *)
  fed,     (* How many occurrences this call has read ...                  *)
  last     (* ... and the last of them, a field and what it held.          *)

fields == <<plain, rep, maps, opt, ptr, inl, live, spare, kind>>
vars   == <<status, fields, seen, fed, last>>

Field == Plain \cup Rep \cup Maps \cup Opt \cup Ptr \cup Inl \cup Elem

(* What the wire can hold; <<>> stands for a field the schema has not.     *)
Occurrence ==
  {<<>>} \cup ((Plain \cup Rep \cup Opt) \X Val)
         \cup (Maps \X (Keys \X Val)) \cup ((Ptr \cup Inl \cup Elem) \X Payloads)

(* The fields whose heap slot the decoder reuses, and whether it does: one *)
(* number above 63 turns pooling off for the whole message.                *)
Poolable == Opt \cup Ptr

(* Mutant: the field-number check is inverted.                             *)
PoolingInverted == Poolable # {} /\ Poolable \subseteq Wide

PoolingEnabled == Poolable # {} /\ Poolable \cap Wide = {}

(* A slot nobody has used: nil in a []*T, a zero T in a []T.               *)
Hole(f) == IF f \in PointerElem THEN Nil ELSE NewKid
Holes(f, n) == [i \in 1 .. n |-> Hole(f)]

TypeOK ==
  /\ status \in {"new", "decoding", "ok", "failed", "reset"}
  /\ plain \in [Plain -> Val]
  /\ rep   \in [Rep -> Seq(Val)]
  /\ maps  \in [Maps -> [Keys -> Val \cup {Nil}]]
  /\ opt   \in [Opt -> Val \cup {Nil}]
  /\ ptr   \in [Ptr -> Kid \cup {Nil}]
  /\ inl   \in [Inl -> Kid]
  /\ live  \in [Elem -> Seq(Kid)]
  /\ spare \in [Elem -> Seq(Kid \cup {Nil})]
  /\ kind  \in Branch \cup {None}
  /\ seen  \subseteq Field
  /\ fed   \in 0 .. MaxWire
  /\ last  \in Occurrence

Init ==
  /\ status = "new"
  /\ plain = [f \in Plain |-> Zero]
  /\ rep   = [f \in Rep |-> <<>>]
  /\ maps  = [f \in Maps |-> [k \in Keys |-> Nil]]
  /\ opt   = [f \in Opt |-> Nil]
  /\ ptr   = [f \in Ptr |-> Nil]
  /\ inl   = [f \in Inl |-> NewKid]
  /\ live  = [f \in Elem |-> <<>>]
  /\ spare = [f \in Elem |-> <<>>]
  /\ kind  = None
  /\ seen  = {}
  /\ fed   = 0
  /\ last  = <<>>

-----------------------------------------------------------------------------
(* Mutant: maps are not cleared.                                           *)
ResetForgetsMaps ==
  /\ plain' = [f \in Plain |-> Zero]
  /\ rep'   = [f \in Rep |-> <<>>]
  /\ maps'  = maps
  /\ inl'   = [f \in Inl |-> ResetKid(inl[f])]
  /\ live'  = [f \in Elem |-> <<>>]

(* generateFieldReset, for the kinds of field that ResetCodec and the      *)
(* prologue of UnmarshalCodecInternal treat alike.                         *)
ResetByValue ==
  /\ plain' = [f \in Plain |-> Zero]
  /\ rep'   = [f \in Rep |-> <<>>]
  /\ maps'  = [f \in Maps |-> [k \in Keys |-> Nil]]
  /\ inl'   = [f \in Inl |-> ResetKid(inl[f])]
  /\ live'  = [f \in Elem |-> <<>>]

(* Mutants: s = s[:0] without the ResetCodec of the elements; with it, but *)
(* losing the capacity behind the last element; and s = nil.               *)
RewoundDirty(f)   == live[f] \o spare[f]
RewoundClipped(f) == [i \in DOMAIN live[f] |-> ResetKid(live[f][i])]
RewoundToNil(f)   == <<>>

(* s = s[:0], after a ResetCodec of every element: the elements become     *)
(* spare slots, in front of those that already were.                       *)
Rewound(f) == [i \in DOMAIN live[f] |-> ResetKid(live[f][i])] \o spare[f]

(* A *T that is not nil is emptied in place and stays.                     *)
ResetPtr == [f \in Ptr |-> IF ptr[f] = Nil THEN Nil ELSE ResetKid(ptr[f])]

(* The capacity pre-scan: a slice that is nil, and whose field the scan    *)
(* counted n times, gets an array of n unused slots.                       *)
Presized(f, n) == IF Rewound(f) = <<>> THEN Holes(f, n) ELSE Rewound(f)

(* The prologue of UnmarshalCodec.  The discriminator is not reset here.   *)
Begin ==
  /\ status # "decoding"
  /\ ResetBetween => status \in {"new", "reset"}
  /\ status' = "decoding"
  /\ ResetByValue
  /\ opt' = IF PoolingEnabled THEN opt ELSE [f \in Opt |-> Nil]
  /\ ptr' = IF PoolingEnabled THEN ptr ELSE ResetPtr
  /\ \E n \in [Elem -> 0 .. MaxSlack] :
       spare' = [f \in Elem |-> Presized(f, n[f])]
  /\ seen' = {}
  /\ fed'  = 0
  /\ last' = <<>>
  /\ UNCHANGED kind

(* Mutants: the discriminator is written for fields outside the oneof, and *)
(* only for scalars; the bitmap is not written for messages.               *)
SettlesAnyKind(f, x, ok) ==
  /\ status = "decoding"
  /\ fed < MaxWire
  /\ fed'    = fed + 1
  /\ last'   = <<f, x>>
  /\ status' = IF ok THEN status ELSE "failed"
  /\ seen'   = IF ok THEN seen \cup {f} ELSE seen
  /\ kind'   = IF ok THEN f ELSE kind

SettlesScalarKind(f, x, ok) ==
  /\ status = "decoding"
  /\ fed < MaxWire
  /\ fed'    = fed + 1
  /\ last'   = <<f, x>>
  /\ status' = IF ok THEN status ELSE "failed"
  /\ seen'   = IF ok THEN seen \cup {f} ELSE seen
  /\ kind'   = IF ok /\ f \in Branch \cap Plain THEN f ELSE kind

SettlesUnmarked(f, x, ok) ==
  /\ status = "decoding"
  /\ fed < MaxWire
  /\ fed'    = fed + 1
  /\ last'   = <<f, x>>
  /\ status' = IF ok THEN status ELSE "failed"
  /\ seen'   = IF ok /\ f \notin Ptr THEN seen \cup {f} ELSE seen
  /\ kind'   = IF ok /\ f \in Branch THEN f ELSE kind

(* The end of a case arm for f that has read x.  The discriminator is      *)
(* written last, and neither it nor the bitmap is reached when the arm     *)
(* returns an error.                                                       *)
Settles(f, x, ok) ==
  /\ status = "decoding"
  /\ fed < MaxWire
  /\ fed'    = fed + 1
  /\ last'   = <<f, x>>
  /\ status' = IF ok THEN status ELSE "failed"
  /\ seen'   = IF ok THEN seen \cup {f} ELSE seen
  /\ kind'   = IF ok /\ f \in Branch THEN f ELSE kind

PlainField(f, v) ==
  /\ Settles(f, v, TRUE)
  /\ plain' = [plain EXCEPT ![f] = v]
  /\ UNCHANGED <<rep, maps, opt, ptr, inl, live, spare>>

(* A packed run of values is as many of these steps.                       *)
RepeatedField(f, v) ==
  /\ Settles(f, v, TRUE)
  /\ rep' = [rep EXCEPT ![f] = Append(@, v)]
  /\ UNCHANGED <<plain, maps, opt, ptr, inl, live, spare>>

MapField(f, k, v) ==
  /\ Settles(f, <<k, v>>, TRUE)
  /\ maps' = [maps EXCEPT ![f][k] = v]
  /\ UNCHANGED <<plain, rep, opt, ptr, inl, live, spare>>

(* Writes through the pooled slot, or through a new one.                   *)
OptionalField(f, v) ==
  /\ Settles(f, v, TRUE)
  /\ opt' = [opt EXCEPT ![f] = v]
  /\ UNCHANGED <<plain, rep, maps, ptr, inl, live, spare>>

(* The object a *T decodes into: the one in the slot, or new(T).           *)
InSlot(k) == IF k = Nil THEN NewKid ELSE k

MessageField(f, p) ==
  /\ Settles(f, p, p.ok)
  /\ ptr' = [ptr EXCEPT ![f] = DecodeKid(InSlot(@), p)]
  /\ UNCHANGED <<plain, rep, maps, opt, inl, live, spare>>

InlineField(f, p) ==
  /\ Settles(f, p, p.ok)
  /\ inl' = [inl EXCEPT ![f] = DecodeKid(@, p)]
  /\ UNCHANGED <<plain, rep, maps, opt, ptr, live, spare>>

(* Cursor reuse: the slice is extended over its first spare slot while it  *)
(* has one; append, which brings slack of its own, when it has none.       *)
ReuseSlot(f, p) ==
  /\ spare[f] # <<>>
  /\ live'  = [live EXCEPT ![f] = Append(@, DecodeKid(InSlot(Head(spare[f])), p))]
  /\ spare' = [spare EXCEPT ![f] = Tail(@)]

GrowSlice(f, p) ==
  /\ spare[f] = <<>>
  /\ live' = [live EXCEPT ![f] = Append(@, DecodeKid(NewKid, p))]
  /\ \E n \in 0 .. MaxSlack : spare' = [spare EXCEPT ![f] = Holes(f, n)]

ElementField(f, p) ==
  /\ Settles(f, p, p.ok)
  /\ ReuseSlot(f, p) \/ GrowSlice(f, p)
  /\ UNCHANGED <<plain, rep, maps, opt, ptr, inl>>

(* SkipField passes over a field number the schema does not have.          *)
UnknownField ==
  /\ status = "decoding"
  /\ fed < MaxWire
  /\ fed'  = fed + 1
  /\ last' = <<>>
  /\ UNCHANGED <<status, fields, seen>>

(* An error that is found before the arm has written anything: the tag, the*)
(* wire type, a length or a varint.                                        *)
Malformed ==
  /\ status = "decoding"
  /\ status' = "failed"
  /\ UNCHANGED <<fields, seen, fed, last>>

(* Mutant: the nil-out pass covers the optionals only.                     *)
FinishOptionals ==
  /\ status = "decoding"
  /\ status' = "ok"
  /\ opt' = [f \in Opt |-> IF PoolingEnabled /\ f \notin seen THEN Nil ELSE opt[f]]
  /\ UNCHANGED <<ptr, plain, rep, maps, inl, live, spare, kind, seen, fed, last>>

(* The end of the input, and the nil-out pass over the bitmap.             *)
Finish ==
  /\ status = "decoding"
  /\ status' = "ok"
  /\ opt' = [f \in Opt |-> IF PoolingEnabled /\ f \notin seen THEN Nil ELSE opt[f]]
  /\ ptr' = [f \in Ptr |-> IF PoolingEnabled /\ f \notin seen THEN Nil ELSE ptr[f]]
  /\ UNCHANGED <<plain, rep, maps, inl, live, spare, kind, seen, fed, last>>

(* Mutant: ResetCodec leaves the discriminator to the fields.              *)
ResetKeepsKind ==
  /\ status # "decoding"
  /\ status' = "reset"
  /\ ResetByValue
  /\ opt'   = [f \in Opt |-> Nil]
  /\ ptr'   = ResetPtr
  /\ spare' = [f \in Elem |-> Rewound(f)]
  /\ seen'  = {}
  /\ fed'   = 0
  /\ last'  = <<>>
  /\ UNCHANGED kind

ResetCodec ==
  /\ status # "decoding"
  /\ status' = "reset"
  /\ ResetByValue
  /\ opt'   = [f \in Opt |-> Nil]
  /\ ptr'   = ResetPtr
  /\ spare' = [f \in Elem |-> Rewound(f)]
  /\ kind'  = None
  /\ seen'  = {}
  /\ fed'   = 0
  /\ last'  = <<>>

Next ==
  \/ Begin \/ UnknownField \/ Malformed \/ Finish \/ ResetCodec
  \/ \E f \in Plain, v \in Val : PlainField(f, v)
  \/ \E f \in Rep, v \in Val : RepeatedField(f, v)
  \/ \E f \in Maps, k \in Keys, v \in Val : MapField(f, k, v)
  \/ \E f \in Opt, v \in Val : OptionalField(f, v)
  \/ \E f \in Ptr, p \in Payloads : MessageField(f, p)
  \/ \E f \in Inl, p \in Payloads : InlineField(f, p)
  \/ \E f \in Elem, p \in Payloads : ElementField(f, p)

Spec == Init /\ [][Next]_vars

-----------------------------------------------------------------------------
(* MarshalCodec, as the content it would write.  A branch is written only  *)
(* under its discriminator.  While a decode runs, a pooled slot that it    *)
(* has not reached still holds the previous message and does not count.    *)
Shown(f)   == f \in Branch => kind = f
Current(f) == status = "decoding" /\ PoolingEnabled => f \in seen

PlainOnWire == [f \in Plain |-> IF Shown(f) THEN plain[f] ELSE Zero]
OptOnWire   == [f \in Opt |-> IF Current(f) THEN opt[f] ELSE Nil]
MsgOnWire   == [f \in Ptr |-> IF Shown(f) /\ Current(f) /\ ptr[f] # Nil
                              THEN KidOnWire(ptr[f]) ELSE NoBytes]
InlOnWire   == [f \in Inl |-> IF Shown(f) THEN KidOnWire(inl[f]) ELSE NoBytes]
ElemsOnWire == [f \in Elem |-> [i \in DOMAIN live[f] |-> KidOnWire(live[f][i])]]

(* The branch switch dereferences the selected *T without a nil check.     *)
MarshalPanics == kind \in Ptr /\ ptr[kind] = Nil

Fresh == INSTANCE FreshDecode
           WITH plain <- PlainOnWire, opt <- OptOnWire, msg <- MsgOnWire,
                inl <- InlOnWire, elems <- ElemsOnWire

(* Whatever a receiver held before, all fields of UnmarshalCodec's input,  *)
(* and nothing else, are what MarshalCodec writes after it: pooled slots,  *)
(* reused elements and kept capacity never show (codec.md REQ-004, REQ-081,*)
(* REQ-085 to 088), and ResetCodec leaves a message of no bytes (REQ-082). *)
DecodesAsFresh == Fresh!Spec

(* When DecodesAsFresh holds.  The decoder never clears a discriminator:   *)
(* the message's own oneof needs the caller's ResetCodec, and a nested *T  *)
(* or T must not have a oneof that an earlier occurrence can leave set.    *)
NestedOneofFree == Ptr \cup Inl = {} \/ \A p \in Payloads : p.arm = Nil
Disciplined     == NestedOneofFree /\ (ResetBetween \/ Branch = {})

(* A slot behind the end of a slice is blank, so the element that takes it *)
(* over starts as a new one would, its discriminator included, although    *)
(* UnmarshalCodecInternal of the element does not reset that.              *)
SpareIsBlank ==
  \A f \in Elem : \A i \in DOMAIN spare[f] : spare[f][i] \in {Hole(f), NewKid}

(* No call gives back the capacity of a slice: resets are s[:0], and a     *)
(* slice that grows keeps its slots (REQ-086 to 088).                      *)
CapacityNeverShrinks ==
  [][\A f \in Elem :
       Len(live[f]) + Len(spare[f]) <= Len(live'[f]) + Len(spare'[f])]_vars

(* After a decode, a *T field that was not on the wire is nil, although    *)
(* its slot survived the prologue (gen_unmarshal.go:210-212).              *)
AbsentIsNil ==
  status = "ok" =>
    /\ \A f \in Opt \ seen : opt[f] = Nil
    /\ \A f \in Ptr \ seen : ptr[f] = Nil

(* After a decode the discriminator names a branch that was on the wire.   *)
KindFollowsWire == status = "ok" => kind \in seen \cup {None}

(* A receiver that no call is writing can be marshalled: the discriminator *)
(* never selects a *T branch that a nil-out pass has taken away.           *)
MarshalIsSafe == status # "decoding" => ~MarshalPanics
=============================================================================
