--------------------------- MODULE ReceiverProofs ---------------------------
(***************************************************************************)
(* Proofs about Receiver and WarmPath, for every message type (field       *)
(* sets), every set of nested bodies and every bound.                      *)
(***************************************************************************)
EXTENDS WarmPath, SequenceTheorems, FiniteSetTheorems, TLAPS

(* The nested object: what the operators of Nested return.                 *)
LEMMA NewKidType == NewKid \in Kid
BY ValAssumption DEF NewKid, Kid

(* ResetCodec of a nested object leaves the zero value.                    *)
LEMMA ResetKidIsNew ==
  ASSUME NEW k \in Kid
  PROVE  ResetKid(k) = NewKid
<1>1. DOMAIN k = {"val", "opt", "arm", "kind"}
  BY DEF Kid
<1>2. /\ DOMAIN ResetKid(k) = {"val", "opt", "arm", "kind"}
      /\ ResetKid(k) = [x \in DOMAIN k |-> ResetKid(k)[x]]
  BY <1>1 DEF ResetKid
<1>3. /\ ResetKid(k).val = Zero /\ ResetKid(k).opt = Nil
      /\ ResetKid(k).arm = Zero /\ ResetKid(k).kind = FALSE
  BY <1>1 DEF ResetKid
<1> QED
  BY <1>1, <1>2, <1>3 DEF NewKid

(* A decode into an object leaves an object of its type.                   *)
LEMMA DecodeKidType ==
  ASSUME NEW k \in Kid, NEW p \in Payloads
  PROVE  DecodeKid(k, p) \in Kid
BY ValAssumption, PayloadAssumption DEF DecodeKid, ValueOrZero, Kid, Payload

LEMMA InSlotType ==
  ASSUME NEW k \in Kid \cup {Nil}
  PROVE  InSlot(k) \in Kid
BY NewKidType DEF InSlot

(* Unused slots are slots.                                                 *)
LEMMA HolesType ==
  ASSUME NEW f \in Elem, NEW n \in Nat
  PROVE  /\ Holes(f, n) \in Seq(Kid \cup {Nil})
         /\ \A i \in DOMAIN Holes(f, n) : Holes(f, n)[i] = Hole(f)
<1>1. Hole(f) \in Kid \cup {Nil}
  BY NewKidType DEF Hole
<1>2. DOMAIN Holes(f, n) = 1 .. n
  BY DEF Holes
<1>3. \A i \in 1 .. n : Holes(f, n)[i] = Hole(f)
  BY DEF Holes
<1>4. Holes(f, n) \in [1 .. n -> Kid \cup {Nil}]
  BY <1>1 DEF Holes
<1>5. Holes(f, n) \in Seq(Kid \cup {Nil})
  BY <1>4
<1> QED
  BY <1>2, <1>3, <1>5

(* Rewinding a slice turns its elements into blank spare slots and keeps   *)
(* the ones behind them.                                                   *)
LEMMA RewoundType ==
  ASSUME TypeOK, SpareIsBlank, NEW f \in Elem
  PROVE  /\ Rewound(f) \in Seq(Kid \cup {Nil})
         /\ \A i \in DOMAIN Rewound(f) : Rewound(f)[i] \in {Hole(f), NewKid}
         /\ Len(Rewound(f)) = Len(live[f]) + Len(spare[f])
<1> DEFINE front == [i \in DOMAIN live[f] |-> ResetKid(live[f][i])]
<1>1. live[f] \in Seq(Kid) /\ spare[f] \in Seq(Kid \cup {Nil})
  BY DEF TypeOK
<1>2. DOMAIN front = 1 .. Len(live[f]) /\ Len(live[f]) \in Nat
  BY <1>1
<1>3. \A i \in DOMAIN front : front[i] = NewKid
  BY <1>1, ResetKidIsNew, ElementOfSeq
<1>4. front \in [1 .. Len(live[f]) -> Kid \cup {Nil}]
  BY <1>2, <1>3, NewKidType
<1>5. front \in Seq(Kid \cup {Nil}) /\ Len(front) = Len(live[f])
  BY <1>2, <1>4
<1> HIDE DEF front
<1>6. Rewound(f) = front \o spare[f]
  BY DEF Rewound, front
<1>7. Rewound(f) \in Seq(Kid \cup {Nil})
  BY <1>1, <1>5, <1>6, ConcatProperties
<1>8. Len(Rewound(f)) = Len(front) + Len(spare[f])
  BY <1>1, <1>5, <1>6, ConcatProperties
<1>9. ASSUME NEW i \in DOMAIN Rewound(f)
      PROVE  Rewound(f)[i] \in {Hole(f), NewKid}
  <2>1. /\ Len(front) \in Nat /\ Len(spare[f]) \in Nat
        /\ i \in 1 .. Len(front) + Len(spare[f])
    <3>1. DOMAIN Rewound(f) = 1 .. Len(Rewound(f))
      BY <1>7, LenProperties
    <3> QED BY <3>1, <1>1, <1>5, <1>8, <1>9, LenProperties
  <2>2. CASE i <= Len(front)
    <3>1. Rewound(f)[i] = front[i] /\ i \in DOMAIN front
      BY <2>1, <2>2, <1>1, <1>2, <1>5, <1>6, ConcatProperties
    <3> QED BY <3>1, <1>3
  <2>3. CASE i > Len(front)
    <3> DEFINE j == i - Len(front)
    <3>1. j \in 1 .. Len(spare[f]) /\ j \in DOMAIN spare[f]
      BY <2>1, <2>3, <1>1
    <3>2. Rewound(f)[i] = spare[f][j]
      BY <2>1, <2>3, <1>1, <1>5, <1>6, ConcatProperties
    <3> QED BY <3>1, <3>2 DEF SpareIsBlank
  <2> QED BY <2>1, <2>2, <2>3
<1> QED BY <1>5, <1>7, <1>8, <1>9

-----------------------------------------------------------------------------
(***************************************************************************)
(* The invariant of the reuse machinery.  Blank spare slots are what makes *)
(* an element that is taken over equal to a new one; to stay blank they    *)
(* need the types, and the prologue's ResetCodec of every live element.    *)
(***************************************************************************)
Slots == TypeOK /\ SpareIsBlank

(* A receiver that was never used holds nothing.                           *)
LEMMA InitSlots == Init => Slots
<1> SUFFICES ASSUME Init PROVE Slots
  OBVIOUS
<1>1. TypeOK
  BY NewKidType, ValAssumption, FieldAssumption DEF Init, TypeOK, Occurrence
<1>2. SpareIsBlank
  BY DEF Init, SpareIsBlank
<1> QED BY <1>1, <1>2 DEF Slots

(* The part of the reset that ResetCodec and the prologue share.           *)
LEMMA ResetByValueType ==
  ASSUME TypeOK, ResetByValue
  PROVE  /\ plain' \in [Plain -> Val] /\ rep' \in [Rep -> Seq(Val)]
         /\ maps' \in [Maps -> [Keys -> Val \cup {Nil}]]
         /\ inl' = [f \in Inl |-> NewKid] /\ inl' \in [Inl -> Kid]
         /\ live' \in [Elem -> Seq(Kid)]
<1>1. inl' = [f \in Inl |-> NewKid]
  BY ResetKidIsNew DEF ResetByValue, TypeOK
<1> QED
  BY <1>1, NewKidType, ValAssumption DEF ResetByValue

(* A *T keeps its slot through a reset, and its slot is blank after it.    *)
LEMMA ResetPtrType ==
  ASSUME TypeOK
  PROVE  /\ ResetPtr \in [Ptr -> Kid \cup {Nil}]
         /\ \A f \in Ptr : ResetPtr[f] \in {Nil, NewKid}
<1>1. \A f \in Ptr : ResetPtr[f] \in {Nil, NewKid}
  BY ResetKidIsNew DEF ResetPtr, TypeOK
<1>2. ResetPtr = [f \in Ptr |-> ResetPtr[f]]
  BY DEF ResetPtr
<1> QED BY <1>1, <1>2, NewKidType

(* The spare slots after a rewind, with or without the pre-scan's array.   *)
LEMMA PresizedType ==
  ASSUME Slots, NEW f \in Elem, NEW n \in 0 .. MaxSlack
  PROVE  /\ Presized(f, n) \in Seq(Kid \cup {Nil})
         /\ \A i \in DOMAIN Presized(f, n) : Presized(f, n)[i] \in {Hole(f), NewKid}
<1>1. n \in Nat
  BY FieldAssumption
<1> QED
  BY <1>1, HolesType, RewoundType DEF Slots, Presized

LEMMA BeginSlots ==
  ASSUME Slots, Begin
  PROVE  Slots'
<1> USE DEF Slots
<1>1. PICK n \in [Elem -> 0 .. MaxSlack] :
        spare' = [f \in Elem |-> Presized(f, n[f])]
  BY DEF Begin
<1>2. \A f \in Elem : n[f] \in 0 .. MaxSlack
  OBVIOUS
<1>3. spare' \in [Elem -> Seq(Kid \cup {Nil})]
  BY <1>1, <1>2, PresizedType
<1>4. SpareIsBlank'
  BY <1>1, <1>2, PresizedType DEF SpareIsBlank, Hole
<1>5. ptr' \in [Ptr -> Kid \cup {Nil}] /\ opt' \in [Opt -> Val \cup {Nil}]
  BY ResetPtrType DEF Begin, TypeOK
<1>6. ResetByValue
  BY DEF Begin
<1>7. /\ status' = "decoding" /\ kind' \in Branch \cup {None}
      /\ seen' = {} /\ fed' \in 0 .. MaxWire /\ last' \in Occurrence
  BY FieldAssumption DEF Begin, TypeOK, Occurrence
<1>9. TypeOK'
  BY <1>3, <1>5, <1>6, <1>7, ResetByValueType DEF TypeOK
<1> QED BY <1>4, <1>9

LEMMA ResetCodecSlots ==
  ASSUME Slots, ResetCodec
  PROVE  Slots'
<1> USE DEF Slots
<1>1. spare' = [f \in Elem |-> Rewound(f)]
  BY DEF ResetCodec
<1>2. spare' \in [Elem -> Seq(Kid \cup {Nil})]
  BY <1>1, RewoundType
<1>3. SpareIsBlank'
  BY <1>1, RewoundType DEF SpareIsBlank, Hole
<1>4. ptr' \in [Ptr -> Kid \cup {Nil}] /\ opt' \in [Opt -> Val \cup {Nil}]
  BY ResetPtrType DEF ResetCodec
<1>5. ResetByValue
  BY DEF ResetCodec
<1>6. /\ status' = "reset" /\ kind' = None /\ seen' = {} /\ fed' \in 0 .. MaxWire
      /\ last' \in Occurrence
  BY FieldAssumption DEF ResetCodec, Occurrence
<1>7. TypeOK'
  BY <1>2, <1>4, <1>5, <1>6, ResetByValueType DEF TypeOK
<1> QED BY <1>3, <1>7

(* What every case arm does besides its field.                             *)
LEMMA SettlesType ==
  ASSUME TypeOK, NEW f \in Field, NEW x, <<f, x>> \in Occurrence,
         NEW ok \in BOOLEAN, Settles(f, x, ok)
  PROVE  /\ status' \in {"decoding", "failed"}
         /\ kind' \in Branch \cup {None}
         /\ seen' \subseteq Field
         /\ fed' \in 0 .. MaxWire
         /\ last' \in Occurrence
BY FieldAssumption DEF TypeOK, Settles

LEMMA ScalarSlots ==
  ASSUME Slots, NEW v \in Val, NEW f,
         \/ f \in Plain /\ PlainField(f, v)
         \/ f \in Rep /\ RepeatedField(f, v)
         \/ f \in Maps /\ \E k \in Keys : MapField(f, k, v)
         \/ f \in Opt /\ OptionalField(f, v)
  PROVE  Slots'
<1> USE DEF Slots
<1>1. PICK x : f \in Field /\ <<f, x>> \in Occurrence /\ Settles(f, x, TRUE)
  <2>1. CASE f \in Maps /\ \E k \in Keys : MapField(f, k, v)
    <3>1. PICK k \in Keys : MapField(f, k, v)
      BY <2>1
    <3> QED BY <2>1, <3>1 DEF Field, Occurrence, MapField
  <2>2. CASE f \in Plain \cup Rep \cup Opt /\ Settles(f, v, TRUE)
    BY <2>2 DEF Field, Occurrence
  <2> QED BY <2>1, <2>2 DEF PlainField, RepeatedField, OptionalField
<1>2. UNCHANGED <<ptr, inl, live, spare>>
  BY DEF PlainField, RepeatedField, MapField, OptionalField
<1>3. SpareIsBlank'
  BY <1>2 DEF SpareIsBlank, Hole
<1>4. /\ plain' \in [Plain -> Val] /\ rep' \in [Rep -> Seq(Val)]
      /\ maps' \in [Maps -> [Keys -> Val \cup {Nil}]]
      /\ opt' \in [Opt -> Val \cup {Nil}]
  <2>1. CASE f \in Plain /\ PlainField(f, v)
    BY <2>1 DEF PlainField, TypeOK
  <2>2. CASE f \in Rep /\ RepeatedField(f, v)
    BY <2>2 DEF RepeatedField, TypeOK
  <2>3. CASE f \in Maps /\ \E k \in Keys : MapField(f, k, v)
    BY <2>3 DEF MapField, TypeOK
  <2>4. CASE f \in Opt /\ OptionalField(f, v)
    BY <2>4 DEF OptionalField, TypeOK
  <2> QED BY <2>1, <2>2, <2>3, <2>4
<1>5. TypeOK'
  BY <1>1, <1>2, <1>4, SettlesType DEF TypeOK
<1> QED BY <1>3, <1>5

LEMMA SingularMessageSlots ==
  ASSUME Slots, NEW p \in Payloads, NEW f,
         \/ f \in Ptr /\ MessageField(f, p)
         \/ f \in Inl /\ InlineField(f, p)
  PROVE  Slots'
<1> USE DEF Slots
<1>1. /\ f \in Field /\ <<f, p>> \in Occurrence
      /\ p.ok \in BOOLEAN /\ Settles(f, p, p.ok)
  BY PayloadAssumption DEF Field, Occurrence, Payload, MessageField, InlineField
<1>2. UNCHANGED <<plain, rep, maps, opt, live, spare>>
  BY DEF MessageField, InlineField
<1>3. SpareIsBlank'
  BY <1>2 DEF SpareIsBlank, Hole
<1>4. ptr' \in [Ptr -> Kid \cup {Nil}] /\ inl' \in [Inl -> Kid]
  <2>1. CASE f \in Ptr /\ MessageField(f, p)
    <3>1. DecodeKid(InSlot(ptr[f]), p) \in Kid
      BY <2>1, InSlotType, DecodeKidType DEF TypeOK
    <3> QED BY <2>1, <3>1 DEF MessageField, TypeOK
  <2>2. CASE f \in Inl /\ InlineField(f, p)
    <3>1. DecodeKid(inl[f], p) \in Kid
      BY <2>2, DecodeKidType DEF TypeOK
    <3> QED BY <2>2, <3>1 DEF InlineField, TypeOK
  <2> QED BY <2>1, <2>2
<1>5. TypeOK'
  BY <1>1, <1>2, <1>4, SettlesType DEF TypeOK
<1> QED BY <1>3, <1>5

(* The slot an element decodes into, its slice after it, and what is left. *)
LEMMA ElementSlots ==
  ASSUME Slots, NEW p \in Payloads, NEW f \in Elem, ElementField(f, p)
  PROVE  Slots'
<1> USE DEF Slots
<1>1. /\ f \in Field /\ <<f, p>> \in Occurrence
      /\ p.ok \in BOOLEAN /\ Settles(f, p, p.ok)
  BY PayloadAssumption DEF Field, Occurrence, Payload, ElementField
<1>2. UNCHANGED <<plain, rep, maps, opt, ptr, inl>>
  BY DEF ElementField
<1>3. live[f] \in Seq(Kid) /\ spare[f] \in Seq(Kid \cup {Nil})
  BY DEF TypeOK
<1>4. CASE ReuseSlot(f, p)
  <2>1. spare[f] # <<>>
    BY <1>4 DEF ReuseSlot
  <2>2. /\ Head(spare[f]) \in Kid \cup {Nil}
        /\ Tail(spare[f]) \in Seq(Kid \cup {Nil})
        /\ Len(Tail(spare[f])) = Len(spare[f]) - 1
        /\ \A i \in 1 .. Len(Tail(spare[f])) : Tail(spare[f])[i] = spare[f][i + 1]
    BY <1>3, <2>1, HeadTailProperties
  <2>3. DecodeKid(InSlot(Head(spare[f])), p) \in Kid
    BY <2>2, InSlotType, DecodeKidType
  <2>4. live' \in [Elem -> Seq(Kid)] /\ spare' \in [Elem -> Seq(Kid \cup {Nil})]
    BY <1>3, <1>4, <2>2, <2>3 DEF ReuseSlot, TypeOK
  <2>5. \A i \in DOMAIN Tail(spare[f]) : Tail(spare[f])[i] \in {Hole(f), NewKid}
    <3>1. ASSUME NEW i \in DOMAIN Tail(spare[f])
          PROVE  Tail(spare[f])[i] = spare[f][i + 1] /\ i + 1 \in DOMAIN spare[f]
      BY <1>3, <2>2, LenProperties
    <3> QED BY <3>1 DEF SpareIsBlank
  <2>6. \A g \in Elem : spare'[g] = IF g = f THEN Tail(spare[f]) ELSE spare[g]
    BY <1>4 DEF ReuseSlot, TypeOK
  <2>7. SpareIsBlank'
    BY <2>5, <2>6 DEF SpareIsBlank, Hole
  <2>8. TypeOK'
    BY <1>1, <1>2, <2>4, SettlesType DEF TypeOK
  <2> QED BY <2>7, <2>8
<1>5. CASE GrowSlice(f, p)
  <2>1. PICK n \in 0 .. MaxSlack : spare' = [spare EXCEPT ![f] = Holes(f, n)]
    BY <1>5 DEF GrowSlice
  <2>2. /\ Holes(f, n) \in Seq(Kid \cup {Nil})
        /\ \A i \in DOMAIN Holes(f, n) : Holes(f, n)[i] = Hole(f)
    BY FieldAssumption, HolesType
  <2>3. DecodeKid(NewKid, p) \in Kid
    BY NewKidType, DecodeKidType
  <2>4. live' \in [Elem -> Seq(Kid)] /\ spare' \in [Elem -> Seq(Kid \cup {Nil})]
    <3>1. live' = [live EXCEPT ![f] = Append(live[f], DecodeKid(NewKid, p))]
      BY <1>5 DEF GrowSlice
    <3>2. Append(live[f], DecodeKid(NewKid, p)) \in Seq(Kid)
      BY <1>3, <2>3, AppendProperties
    <3>3. live' \in [Elem -> Seq(Kid)]
      BY <3>1, <3>2 DEF TypeOK
    <3>4. spare' \in [Elem -> Seq(Kid \cup {Nil})]
      BY <2>1, <2>2 DEF TypeOK
    <3> QED BY <3>3, <3>4
  <2>5. \A g \in Elem : spare'[g] = IF g = f THEN Holes(f, n) ELSE spare[g]
    BY <2>1 DEF TypeOK
  <2>6. SpareIsBlank'
    BY <2>2, <2>5 DEF SpareIsBlank, Hole
  <2>7. TypeOK'
    BY <1>1, <1>2, <2>4, SettlesType DEF TypeOK
  <2> QED BY <2>6, <2>7
<1> QED BY <1>4, <1>5 DEF ElementField

LEMMA FinishSlots ==
  ASSUME Slots, Finish
  PROVE  Slots'
BY DEF Slots, Finish, TypeOK, SpareIsBlank, Hole

LEMMA QuietSlots ==
  ASSUME Slots, UnknownField \/ Malformed \/ UNCHANGED vars
  PROVE  Slots'
<1>1. UNCHANGED fields
  BY DEF UnknownField, Malformed, vars
<1>2. SpareIsBlank'
  BY <1>1 DEF Slots, SpareIsBlank, Hole, fields
<1>3. /\ status' \in {"new", "decoding", "ok", "failed", "reset"}
      /\ seen' \subseteq Field /\ fed' \in 0 .. MaxWire
      /\ last' \in Occurrence
  BY FieldAssumption DEF Slots, UnknownField, Malformed, vars, TypeOK, Occurrence
<1>4. TypeOK'
  BY <1>1, <1>3 DEF Slots, TypeOK, fields
<1> QED BY <1>2, <1>4 DEF Slots

LEMMA NextSlots == Slots /\ [Next]_vars => Slots'
<1> SUFFICES ASSUME Slots, [Next]_vars PROVE Slots'
  OBVIOUS
<1>1. CASE Begin
  BY <1>1, BeginSlots
<1>2. CASE ResetCodec
  BY <1>2, ResetCodecSlots
<1>3. CASE Finish
  BY <1>3, FinishSlots
<1>4. CASE UnknownField \/ Malformed \/ UNCHANGED vars
  BY <1>4, QuietSlots
<1>5. CASE \/ \E f \in Plain, v \in Val : PlainField(f, v)
           \/ \E f \in Rep, v \in Val : RepeatedField(f, v)
           \/ \E f \in Maps, k \in Keys, v \in Val : MapField(f, k, v)
           \/ \E f \in Opt, v \in Val : OptionalField(f, v)
  BY <1>5, ScalarSlots
<1>6. CASE \/ \E f \in Ptr, p \in Payloads : MessageField(f, p)
           \/ \E f \in Inl, p \in Payloads : InlineField(f, p)
  BY <1>6, SingularMessageSlots
<1>7. CASE \E f \in Elem, p \in Payloads : ElementField(f, p)
  BY <1>7, ElementSlots
<1> QED
  BY <1>1, <1>2, <1>3, <1>4, <1>5, <1>6, <1>7 DEF Next

(* The types, and the blank spare slots, for every message type, with and  *)
(* without ResetCodec between decodes, and across decodes that fail.       *)
THEOREM SlotsInvariant == Spec => []Slots
BY InitSlots, NextSlots, PTL DEF Spec

(* The type invariant of Receiver.                                         *)
THEOREM TypeCorrect == Spec => []TypeOK
<1>1. Slots => TypeOK
  BY DEF Slots
<1> QED BY <1>1, SlotsInvariant, PTL

(* No element that a repeated message field takes from its spare capacity  *)
(* carries anything over from an earlier message.                          *)
THEOREM SpareAlwaysBlank == Spec => []SpareIsBlank
<1>1. Slots => SpareIsBlank
  BY DEF Slots
<1> QED BY <1>1, SlotsInvariant, PTL

-----------------------------------------------------------------------------
(* The nil-out pass covers every slot the prologue left alone.             *)
LEMMA InitAbsent == Init => AbsentIsNil
BY DEF Init, AbsentIsNil

LEMMA NextAbsent ==
  ASSUME PoolingEnabled, AbsentIsNil, [Next]_vars
  PROVE  AbsentIsNil'
<1>1. CASE Finish
  BY <1>1 DEF Finish, AbsentIsNil
<1>2. CASE UNCHANGED vars
  BY <1>2 DEF vars, fields, AbsentIsNil
<1>3. CASE Begin \/ ResetCodec \/ Malformed
  BY <1>3 DEF Begin, ResetCodec, Malformed, AbsentIsNil
<1>4. ASSUME status = "decoding", status' \in {status, "failed"}
      PROVE  AbsentIsNil'
  BY <1>4 DEF AbsentIsNil
<1> QED
  BY <1>1, <1>2, <1>3, <1>4
     DEF Next, UnknownField, PlainField, RepeatedField, MapField, OptionalField,
         MessageField, InlineField, ElementField, Settles

(* With pooling, a decode that succeeds leaves no *T of an earlier message:*)
(* every field that was not on the wire is nil (gen_unmarshal.go:209-220). *)
THEOREM PooledAbsentIsNil ==
  ASSUME PoolingEnabled
  PROVE  Spec => []AbsentIsNil
<1>1. AbsentIsNil /\ [Next]_vars => AbsentIsNil'
  BY NextAbsent
<1> QED BY <1>1, InitAbsent, PTL DEF Spec

-----------------------------------------------------------------------------
(* Where a discriminator comes from when every decode follows a ResetCodec:*)
(* from an arm of this very decode, which also filled the branch's slot.   *)
KindWasRead ==
  /\ status \in {"new", "reset"} => kind = None
  /\ kind \in seen \cup {None}
  /\ \A f \in Ptr \cap seen : ptr[f] # Nil

KindInv == Slots /\ KindWasRead

LEMMA InitKind == Init => KindInv
BY InitSlots DEF Init, KindInv, KindWasRead

(* An arm of the main loop, by what it does to the *T slots.               *)
LEMMA ArmKind ==
  ASSUME KindInv, NEW f, NEW x, NEW ok \in BOOLEAN, Settles(f, x, ok),
         \A g \in Ptr : (g # f => ptr'[g] = ptr[g]) /\ (g = f => ptr'[g] # Nil)
  PROVE  KindWasRead'
<1>1. status = "decoding" /\ status' \in {"decoding", "failed"}
  BY DEF Settles
<1>2. kind' \in seen' \cup {None}
  BY DEF Settles, KindInv, KindWasRead
<1>3. ASSUME NEW g \in Ptr \cap seen'
      PROVE  ptr'[g] # Nil
  BY DEF Settles, KindInv, KindWasRead
<1> QED BY <1>1, <1>2, <1>3 DEF KindWasRead

LEMMA NextKind ==
  ASSUME ResetBetween, KindInv, [Next]_vars
  PROVE  KindInv'
<1>1. Slots' /\ TypeOK
  BY NextSlots DEF KindInv, Slots
<1> SUFFICES KindWasRead'
  BY <1>1 DEF KindInv
<1>2. CASE Begin
  BY <1>2 DEF Begin, KindInv, KindWasRead
<1>3. CASE ResetCodec
  BY <1>3 DEF ResetCodec, KindWasRead
<1>4. CASE Finish
  BY <1>4 DEF Finish, KindInv, KindWasRead
<1>5. CASE Malformed \/ UnknownField \/ UNCHANGED vars
  BY <1>5 DEF Malformed, UnknownField, vars, fields, KindInv, KindWasRead
<1>6. CASE \E f \in Ptr, p \in Payloads : MessageField(f, p)
  <2>1. PICK f \in Ptr, p \in Payloads : MessageField(f, p)
    BY <1>6
  <2>2. p.ok \in BOOLEAN
    BY PayloadAssumption DEF Payload
  <2>3. InSlot(ptr[f]) \in Kid
    BY <1>1, InSlotType DEF TypeOK
  <2>4. DecodeKid(InSlot(ptr[f]), p) # Nil
    BY <2>3, DecodeKidType, NilAssumption
  <2>5. \A g \in Ptr : (g # f => ptr'[g] = ptr[g]) /\ (g = f => ptr'[g] # Nil)
    BY <1>1, <2>1, <2>4 DEF MessageField, TypeOK
  <2>6. Settles(f, p, p.ok)
    BY <2>1 DEF MessageField
  <2> QED BY <2>2, <2>5, <2>6, ArmKind
<1>7. ASSUME NEW f \in Field \ Ptr, NEW x, NEW ok \in BOOLEAN, Settles(f, x, ok),
             ptr' = ptr
      PROVE  KindWasRead'
  <2>1. \A g \in Ptr : g # f /\ ptr'[g] = ptr[g]
    BY <1>7
  <2> QED BY <1>7, <2>1, ArmKind
<1>8. ASSUME NEW f, NEW v,
             \/ f \in Plain /\ PlainField(f, v)
             \/ f \in Rep /\ RepeatedField(f, v)
             \/ f \in Maps /\ \E k \in Keys : MapField(f, k, v)
             \/ f \in Opt /\ OptionalField(f, v)
      PROVE  KindWasRead'
  <2>1. f \in Field \ Ptr
    BY <1>8, DistinctFields DEF Field
  <2>2. ptr' = ptr /\ \E x : Settles(f, x, TRUE)
    BY <1>8 DEF PlainField, RepeatedField, MapField, OptionalField
  <2> QED BY <1>7, <2>1, <2>2
<1>9. ASSUME NEW f, NEW p \in Payloads,
             \/ f \in Inl /\ InlineField(f, p)
             \/ f \in Elem /\ ElementField(f, p)
      PROVE  KindWasRead'
  <2>1. f \in Field \ Ptr /\ p.ok \in BOOLEAN
    BY <1>9, DistinctFields, PayloadAssumption DEF Field, Payload
  <2>2. Settles(f, p, p.ok) /\ ptr' = ptr
    BY <1>9 DEF InlineField, ElementField
  <2> QED BY <1>7, <2>1, <2>2
<1> QED BY <1>2, <1>3, <1>4, <1>5, <1>6, <1>8, <1>9 DEF Next

LEMMA KindInvariant ==
  ASSUME ResetBetween
  PROVE  Spec => []KindInv
<1>1. KindInv /\ [Next]_vars => KindInv'
  BY NextKind
<1> QED BY <1>1, InitKind, PTL DEF Spec

(* For a caller that resets before each decode, the discriminator never    *)
(* names a branch the last input did not have (gen_unmarshal.go:195-197).  *)
THEOREM ResetKindFollowsWire ==
  ASSUME ResetBetween
  PROVE  Spec => []KindFollowsWire
<1>1. KindInv => KindFollowsWire
  BY DEF KindInv, KindWasRead, KindFollowsWire
<1> QED BY <1>1, KindInvariant, PTL

(* For such a caller, MarshalCodec never dereferences a nil *T branch      *)
(* (gen_oneof.go:87-98), not even after a decode that failed.              *)
THEOREM ResetMarshalIsSafe ==
  ASSUME ResetBetween
  PROVE  Spec => []MarshalIsSafe
<1>1. KindInv => MarshalIsSafe
  BY FieldAssumption DEF KindInv, KindWasRead, MarshalIsSafe, MarshalPanics
<1> QED BY <1>1, KindInvariant, PTL

-----------------------------------------------------------------------------
(* The room of a slice: its elements and the slots behind them.            *)
Room(f) == Len(live[f]) + Len(spare[f])

(* What one more element means for the room: it takes a slot, or there was *)
(* none.                                                                   *)
LEMMA Balance ==
  \A a, b \in Nat : \A c, d : c = a + 1 /\ d = b - 1 => a + b <= c + d
  OBVIOUS

LEMMA Growth ==
  \A a, d \in Nat : \A b, c : c = a + 1 /\ b = 0 => a + b <= c + d
  OBVIOUS

(* A slice that was emptied has all its room as spare slots, or an array.  *)
LEMMA RewindKeepsRoom ==
  ASSUME Slots, NEW f \in Elem, live'[f] = <<>>,
         \/ spare'[f] = Rewound(f)
         \/ \E n \in 0 .. MaxSlack : spare'[f] = Presized(f, n)
  PROVE  Room(f) <= Room(f)'
<1>1. /\ live[f] \in Seq(Kid) /\ spare[f] \in Seq(Kid \cup {Nil})
      /\ Len(Rewound(f)) = Room(f) /\ Rewound(f) \in Seq(Kid \cup {Nil})
  BY RewoundType DEF Slots, TypeOK, Room
<1>2. Room(f)' = Len(spare'[f])
  <2>1. Len(spare'[f]) \in Nat
    BY <1>1, PresizedType, LenProperties
  <2> QED BY <2>1 DEF Room
<1>3. CASE spare'[f] = Rewound(f)
  BY <1>1, <1>2, <1>3, LenProperties
<1>4. CASE \E n \in 0 .. MaxSlack : spare'[f] = Presized(f, n) /\ Rewound(f) = <<>>
  <2>1. Room(f) = 0 /\ Len(spare'[f]) \in Nat
    BY <1>1, <1>4, PresizedType, LenProperties
  <2> QED BY <1>2, <2>1
<1> QED BY <1>3, <1>4 DEF Presized

LEMMA ElementKeepsRoom ==
  ASSUME Slots, NEW f \in Elem, NEW p \in Payloads, ElementField(f, p),
         NEW g \in Elem
  PROVE  Room(g) <= Room(g)'
<1>1. \A h \in Elem : live[h] \in Seq(Kid) /\ spare[h] \in Seq(Kid \cup {Nil})
  BY DEF Slots, TypeOK
<1>2. Len(live[g]) \in Nat /\ Len(spare[g]) \in Nat
  BY <1>1, LenProperties
<1>3. CASE g # f
  <2>1. live'[g] = live[g] /\ spare'[g] = spare[g]
    BY <1>3 DEF ElementField, ReuseSlot, GrowSlice, Slots, TypeOK
  <2> QED BY <1>2, <2>1 DEF Room
<1>4. CASE g = f /\ ReuseSlot(f, p)
  <2>1. PICK k \in Kid : live'[g] = Append(live[g], k)
    <3>1. spare[f] # <<>> /\ Head(spare[f]) \in Kid \cup {Nil}
      BY <1>1, <1>4, HeadTailProperties DEF ReuseSlot
    <3>2. DecodeKid(InSlot(Head(spare[f])), p) \in Kid
      BY <3>1, InSlotType, DecodeKidType
    <3> QED BY <1>4, <3>2 DEF ReuseSlot, Slots, TypeOK
  <2>2. spare[g] # <<>> /\ spare'[g] = Tail(spare[g])
    BY <1>4 DEF ReuseSlot, Slots, TypeOK
  <2>3. Len(live'[g]) = Len(live[g]) + 1
    BY <1>1, <2>1, AppendProperties
  <2>4. Len(spare'[g]) = Len(spare[g]) - 1
    BY <1>1, <2>2, HeadTailProperties
  <2> QED BY <1>2, <2>3, <2>4, Balance DEF Room
<1>5. CASE g = f /\ GrowSlice(f, p)
  <2>1. Len(live'[g]) = Len(live[g]) + 1
    <3>1. DecodeKid(NewKid, p) \in Kid
      BY NewKidType, DecodeKidType
    <3>2. live'[g] = Append(live[g], DecodeKid(NewKid, p))
      BY <1>5 DEF GrowSlice, Slots, TypeOK
    <3> QED BY <1>1, <3>1, <3>2, AppendProperties
  <2>2. Len(spare[g]) = 0
    BY <1>5 DEF GrowSlice
  <2>3. Len(spare'[g]) \in Nat
    <3>1. PICK n \in 0 .. MaxSlack : spare'[g] = Holes(f, n)
      BY <1>5 DEF GrowSlice, Slots, TypeOK
    <3> QED BY <3>1, FieldAssumption, HolesType, LenProperties
  <2> QED BY <1>2, <2>1, <2>2, <2>3, Growth DEF Room
<1> QED BY <1>3, <1>4, <1>5 DEF ElementField

LEMMA NextKeepsRoom ==
  ASSUME Slots, [Next]_vars
  PROVE  \A f \in Elem : Room(f) <= Room(f)'
<1>1. SUFFICES ASSUME NEW f \in Elem PROVE Room(f) <= Room(f)'
  OBVIOUS
<1>2. CASE Begin
  <2>1. live'[f] = <<>> /\ \E n \in 0 .. MaxSlack : spare'[f] = Presized(f, n)
    BY <1>2 DEF Begin, ResetByValue
  <2> QED BY <2>1, RewindKeepsRoom
<1>3. CASE ResetCodec
  <2>1. live'[f] = <<>> /\ spare'[f] = Rewound(f)
    BY <1>3 DEF ResetCodec, ResetByValue
  <2> QED BY <2>1, RewindKeepsRoom
<1>4. CASE \E g \in Elem, p \in Payloads : ElementField(g, p)
  BY <1>4, ElementKeepsRoom
<1>5. CASE UNCHANGED <<live, spare>>
  <2>1. Len(live[f]) \in Nat /\ Len(spare[f]) \in Nat
    BY LenProperties DEF Slots, TypeOK
  <2> QED BY <1>5, <2>1 DEF Room
<1> QED
  BY <1>2, <1>3, <1>4, <1>5
     DEF Next, UnknownField, Malformed, Finish, PlainField, RepeatedField, MapField,
         OptionalField, MessageField, InlineField, vars, fields

(* Decodes and resets never give back the room of a slice: gen_reset.go:73 *)
(* and the cursor of gen_unmarshal.go:607-630 keep it.                     *)
THEOREM RoomIsKept == Spec => CapacityNeverShrinks
<1>1. Slots /\ [Next]_vars =>
        [\A f \in Elem :
           Len(live[f]) + Len(spare[f]) <= Len(live'[f]) + Len(spare'[f])]_vars
  BY NextKeepsRoom DEF Room
<1> QED BY <1>1, SlotsInvariant, PTL DEF Spec, CapacityNeverShrinks
-----------------------------------------------------------------------------
(* Receiver implements FreshDecode: every step of the reusing decoder is a *)
(* step of a decoder that has no past, or changes nothing one could see.   *)

(* A discriminator nobody cleared is one nobody could have set.            *)
NestedUnset ==
  NestedOneofFree =>
    /\ \A f \in Ptr : ptr[f] # Nil => ~ptr[f].kind
    /\ \A f \in Inl : ~inl[f].kind

IdleUnset == status \in {"new", "reset"} => kind = None

RefInv == Slots /\ NestedUnset /\ IdleUnset

-----------------------------------------------------------------------------
(* A nested object and its wire form.                                      *)
LEMMA NewKidWire == /\ KidOnWire(NewKid) = NoBytes
                    /\ NewKid.kind = FALSE
BY DEF KidOnWire, NewKid, NoBytes

LEMMA KidOnWireType ==
  ASSUME NEW k \in Kid
  PROVE  KidOnWire(k) \in OnWire
BY DEF KidOnWire, Kid, OnWire

(* A complete decode into an object whose oneof is not set says what the   *)
(* input says, and nothing of what the object held.                        *)
LEMMA DecodeKidWire ==
  ASSUME NEW k \in Kid, ~k.kind, NEW p \in Payloads, p.ok
  PROVE  KidOnWire(DecodeKid(k, p)) = Meaning(p)
<1>1. p \in Payload
  BY PayloadAssumption
<1>2. /\ DecodeKid(k, p).val = ValueOrZero(p.val)
      /\ DecodeKid(k, p).opt = p.opt
      /\ DecodeKid(k, p).arm = ValueOrZero(p.arm)
      /\ DecodeKid(k, p).kind <=> p.arm # Nil
  BY DEF DecodeKid, Kid
<1>3. (IF DecodeKid(k, p).kind THEN DecodeKid(k, p).arm ELSE Nil) = p.arm
  BY <1>2 DEF ValueOrZero
<1> QED BY <1>2, <1>3 DEF KidOnWire, Meaning

(* The wire form of a slice, element by element.                           *)
WireOf(s) == [i \in DOMAIN s |-> KidOnWire(s[i])]

LEMMA WireOfType ==
  ASSUME NEW s \in Seq(Kid)
  PROVE  WireOf(s) \in Seq(OnWire) /\ Len(WireOf(s)) = Len(s)
<1>1. DOMAIN s = 1 .. Len(s) /\ Len(s) \in Nat
  BY LenProperties
<1>2. WireOf(s) \in [1 .. Len(s) -> OnWire]
  BY <1>1, ElementOfSeq, KidOnWireType DEF WireOf
<1> QED BY <1>1, <1>2

LEMMA WireOfAppend ==
  ASSUME NEW s \in Seq(Kid), NEW k \in Kid
  PROVE  WireOf(Append(s, k)) = Append(WireOf(s), KidOnWire(k))
<1> DEFINE t == Append(s, k)
           w == WireOf(s)
           u == Append(w, KidOnWire(k))
<1>1. /\ t \in Seq(Kid) /\ Len(t) = Len(s) + 1 /\ Len(s) \in Nat
      /\ \A i \in 1 .. Len(s) : t[i] = s[i]
      /\ t[Len(s) + 1] = k
  BY AppendProperties, LenProperties
<1>2. w \in Seq(OnWire) /\ Len(w) = Len(s) /\ KidOnWire(k) \in OnWire
  BY WireOfType, KidOnWireType
<1> HIDE DEF w
<1>3. /\ u \in Seq(OnWire) /\ Len(u) = Len(s) + 1
      /\ \A i \in 1 .. Len(s) : u[i] = w[i]
      /\ u[Len(s) + 1] = KidOnWire(k)
  BY <1>2, AppendProperties
<1> HIDE DEF t, u
<1>4. WireOf(t) \in Seq(OnWire) /\ Len(WireOf(t)) = Len(s) + 1
  BY <1>1, WireOfType
<1>5. ASSUME NEW i \in 1 .. Len(s) + 1
      PROVE  WireOf(t)[i] = u[i]
  <2>1. WireOf(t)[i] = KidOnWire(t[i])
    BY <1>1, LenProperties DEF WireOf
  <2>2. CASE i \in 1 .. Len(s)
    <3>1. w[i] = KidOnWire(s[i])
      BY <2>2, LenProperties DEF w, WireOf
    <3> QED BY <1>1, <1>3, <2>1, <2>2, <3>1
  <2>3. CASE i = Len(s) + 1
    BY <1>1, <1>3, <2>1, <2>3
  <2> QED BY <1>1, <2>2, <2>3
<1>6. WireOf(t) = u
  BY <1>1, <1>3, <1>4, <1>5, SeqEqual
<1> QED BY <1>6 DEF t, u, w

-----------------------------------------------------------------------------
(* NestedUnset and IdleUnset are kept by every step.                       *)
LEMMA InitRef == Init => RefInv
BY InitSlots, NewKidWire DEF Init, RefInv, NestedUnset, IdleUnset

LEMMA DecodeKeepsUnset ==
  ASSUME NestedOneofFree, Ptr \cup Inl # {}, NEW k \in Kid, ~k.kind, NEW p \in Payloads
  PROVE  ~DecodeKid(k, p).kind
<1>1. p.arm = Nil
  BY DEF NestedOneofFree
<1> QED BY <1>1 DEF DecodeKid

LEMMA NextRef == RefInv /\ [Next]_vars => RefInv'
<1> SUFFICES ASSUME RefInv, [Next]_vars PROVE RefInv'
  OBVIOUS
<1>1. Slots /\ Slots' /\ TypeOK
  BY NextSlots DEF RefInv, Slots
<1>2. IdleUnset'
  BY FieldAssumption
     DEF RefInv, IdleUnset, Next, vars, fields, Begin, UnknownField, Malformed, Finish,
         ResetCodec, PlainField, RepeatedField, MapField, OptionalField, MessageField,
         InlineField, ElementField, Settles
<1>3. ASSUME NestedOneofFree
      PROVE  /\ \A f \in Ptr : ptr'[f] # Nil => ~ptr'[f].kind
             /\ \A f \in Inl : ~inl'[f].kind
  <2>1. /\ \A f \in Ptr : ptr[f] # Nil => ~ptr[f].kind
        /\ \A f \in Inl : ~inl[f].kind
    BY <1>3 DEF RefInv, NestedUnset
  <2>2. CASE UNCHANGED <<ptr, inl>>
    BY <2>1, <2>2
  <2>3. CASE Begin \/ ResetCodec
    <3>1. inl' = [f \in Inl |-> NewKid] /\ (ptr' = ptr \/ ptr' = ResetPtr)
      BY <1>1, <2>3, ResetByValueType DEF Begin, ResetCodec
    <3> QED BY <1>1, <2>1, <3>1, ResetPtrType, NewKidWire
  <2>4. CASE Finish
    BY <2>1, <2>4 DEF Finish
  <2>5. CASE \E f \in Ptr, p \in Payloads : MessageField(f, p)
    <3>1. PICK f \in Ptr, p \in Payloads : MessageField(f, p)
      BY <2>5
    <3>2. /\ ptr' = [ptr EXCEPT ![f] = DecodeKid(InSlot(ptr[f]), p)]
          /\ inl' = inl
      BY <3>1 DEF MessageField
    <3>3. InSlot(ptr[f]) \in Kid /\ ~InSlot(ptr[f]).kind
      BY <1>1, <2>1, InSlotType, NewKidWire DEF InSlot, TypeOK
    <3>4. ~DecodeKid(InSlot(ptr[f]), p).kind
      BY <1>3, <3>3, DecodeKeepsUnset
    <3> QED BY <1>1, <2>1, <3>2, <3>4 DEF TypeOK
  <2>6. CASE \E f \in Inl, p \in Payloads : InlineField(f, p)
    <3>1. PICK f \in Inl, p \in Payloads : InlineField(f, p)
      BY <2>6
    <3>2. /\ inl' = [inl EXCEPT ![f] = DecodeKid(inl[f], p)]
          /\ ptr' = ptr
      BY <3>1 DEF InlineField
    <3>3. ~DecodeKid(inl[f], p).kind
      BY <1>1, <1>3, <2>1, DecodeKeepsUnset DEF TypeOK
    <3> QED BY <1>1, <2>1, <3>2, <3>3 DEF TypeOK
  <2> QED
    BY <2>2, <2>3, <2>4, <2>5, <2>6
       DEF Next, vars, fields, UnknownField, Malformed, PlainField, RepeatedField,
           MapField, OptionalField, ElementField
<1> QED BY <1>1, <1>2, <1>3 DEF RefInv, NestedUnset

THEOREM RefInvariant == Spec => []RefInv
BY InitRef, NextRef, PTL DEF Spec

-----------------------------------------------------------------------------
(* The steps of Receiver as steps of FreshDecode.                          *)

(* The nested type is the same in the two specifications.                  *)
LEMMA SameNested ==
  /\ Fresh!NoBytes = NoBytes /\ Fresh!OnWire = OnWire
  /\ \A p : Fresh!Meaning(p) = Meaning(p)
BY DEF Fresh!NoBytes, NoBytes, Fresh!OnWire, OnWire, Fresh!Meaning, Meaning,
       Fresh!ValueOrZero, ValueOrZero

(* What is visible of a receiver that has just been emptied.               *)
LEMMA InitFresh == Init => Fresh!Init
<1> SUFFICES ASSUME Init PROVE Fresh!Init
  OBVIOUS
<1>1. /\ PlainOnWire = [f \in Plain |-> Zero]
      /\ OptOnWire = [f \in Opt |-> Nil]
      /\ MsgOnWire = [f \in Ptr |-> NoBytes]
      /\ InlOnWire = [f \in Inl |-> NoBytes]
  BY NewKidWire DEF Init, PlainOnWire, OptOnWire, MsgOnWire, InlOnWire
<1>2. ElemsOnWire = [f \in Elem |-> <<>>]
  BY DEF Init, ElemsOnWire
<1> QED BY <1>1, <1>2, SameNested DEF Init, Fresh!Init, Fresh!Empty, Fresh!NothingRead

(* The prologue empties what can be seen, although it keeps pooled slots.  *)
LEMMA BeginFresh ==
  ASSUME RefInv, Disciplined, Begin
  PROVE  Fresh!Start
<1>1. /\ plain' = [f \in Plain |-> Zero] /\ rep' = [f \in Rep |-> <<>>]
      /\ maps' = [f \in Maps |-> [k \in Keys |-> Nil]]
      /\ live' = [f \in Elem |-> <<>>]
      /\ inl' = [f \in Inl |-> NewKid]
  BY ResetByValueType DEF Begin, ResetByValue, RefInv, Slots
<1>2. kind' = None
  BY DEF Begin, Disciplined, RefInv, IdleUnset, Slots, TypeOK
<1>3. /\ status # "decoding" /\ status' = "decoding" /\ seen' = {}
      /\ Fresh!NothingRead'
  BY DEF Begin, Fresh!NothingRead
<1>4. PlainOnWire' = [f \in Plain |-> Zero]
  BY <1>1 DEF PlainOnWire
<1>5. OptOnWire' = [f \in Opt |-> Nil]
  BY <1>3 DEF Begin, OptOnWire, Current
<1>6. MsgOnWire' = [f \in Ptr |-> NoBytes]
  <2>1. CASE PoolingEnabled
    BY <1>3, <2>1 DEF MsgOnWire, Current
  <2>2. CASE ~PoolingEnabled
    <3>1. \A f \in Ptr : ptr'[f] \in {Nil, NewKid}
      BY <2>2, ResetPtrType DEF Begin, RefInv, Slots
    <3> QED BY <3>1, NewKidWire DEF MsgOnWire
  <2> QED BY <2>1, <2>2
<1>7. InlOnWire' = [f \in Inl |-> NoBytes]
  BY <1>1, NewKidWire DEF InlOnWire
<1>8. ElemsOnWire' = [f \in Elem |-> <<>>]
  BY <1>1 DEF ElemsOnWire
<1> QED
  BY <1>1, <1>2, <1>3, <1>4, <1>5, <1>6, <1>7, <1>8, SameNested DEF Fresh!Start, Fresh!Empty

LEMMA ResetCodecFresh ==
  ASSUME RefInv, ResetCodec
  PROVE  Fresh!Reset
<1>1. /\ plain' = [f \in Plain |-> Zero] /\ rep' = [f \in Rep |-> <<>>]
      /\ maps' = [f \in Maps |-> [k \in Keys |-> Nil]]
      /\ live' = [f \in Elem |-> <<>>]
      /\ inl' = [f \in Inl |-> NewKid]
  BY ResetByValueType DEF ResetCodec, ResetByValue, RefInv, Slots
<1>2. /\ kind' = None /\ status # "decoding" /\ status' = "reset"
      /\ Fresh!NothingRead'
  BY DEF ResetCodec, Fresh!NothingRead
<1>3. PlainOnWire' = [f \in Plain |-> Zero]
  BY <1>1 DEF PlainOnWire
<1>4. OptOnWire' = [f \in Opt |-> Nil]
  BY DEF ResetCodec, OptOnWire
<1>5. MsgOnWire' = [f \in Ptr |-> NoBytes]
  <2>1. \A f \in Ptr : ptr'[f] \in {Nil, NewKid}
    BY ResetPtrType DEF ResetCodec, RefInv, Slots
  <2> QED BY <2>1, NewKidWire DEF MsgOnWire
<1>6. InlOnWire' = [f \in Inl |-> NoBytes]
  BY <1>1, NewKidWire DEF InlOnWire
<1>7. ElemsOnWire' = [f \in Elem |-> <<>>]
  BY <1>1 DEF ElemsOnWire
<1> QED
  BY <1>1, <1>2, <1>3, <1>4, <1>5, <1>6, <1>7, SameNested DEF Fresh!Reset, Fresh!Empty

(* The nil-out pass takes away exactly the slots that did not count.       *)
LEMMA FinishFresh ==
  ASSUME RefInv, Finish
  PROVE  Fresh!Finish
<1>1. OptOnWire' = OptOnWire
  BY DEF Finish, OptOnWire, Current
<1>2. MsgOnWire' = MsgOnWire
  BY DEF Finish, MsgOnWire, Current, Shown
<1>3. PlainOnWire' = PlainOnWire /\ InlOnWire' = InlOnWire /\ ElemsOnWire' = ElemsOnWire
  BY DEF Finish, PlainOnWire, InlOnWire, ElemsOnWire, Shown
<1> QED BY <1>1, <1>2, <1>3 DEF Finish, Fresh!Finish, Fresh!content

-----------------------------------------------------------------------------
(* One occurrence of a field: what it makes visible, and what it hides.    *)
LEMMA Visible ==
  ASSUME TypeOK, NEW f, NEW x, Settles(f, x, TRUE), NEW g
  PROVE  /\ Shown(g)' <=> IF f \in Branch /\ g \in Branch THEN g = f ELSE Shown(g)
         /\ Current(g)' <=> Current(g) \/ g = f
BY DEF Settles, Shown, Current

LEMMA Reads ==
  ASSUME NEW f, NEW x, Settles(f, x, TRUE)
  PROVE  Fresh!Takes(f, x)
BY DEF Settles, Fresh!Takes

(* The fields an occurrence of f does not write, under the oneof rule.     *)
LEMMA OthersKept ==
  ASSUME TypeOK, NEW f, NEW x, Settles(f, x, TRUE)
  PROVE  /\ f \notin Plain /\ plain' = plain => PlainOnWire' = Fresh!PlainBefore(f)
         /\ f \notin Ptr /\ ptr' = ptr => MsgOnWire' = Fresh!MsgBefore(f)
         /\ f \notin Inl /\ inl' = inl => InlOnWire' = Fresh!InlBefore(f)
         /\ f \notin Opt /\ opt' = opt => OptOnWire' = OptOnWire
         /\ live' = live => ElemsOnWire' = ElemsOnWire
<1>1. ASSUME f \notin Plain, plain' = plain
      PROVE  PlainOnWire' = Fresh!PlainBefore(f)
  BY <1>1, Visible DEF PlainOnWire, Fresh!PlainBefore, Fresh!Ousted
<1>2. ASSUME f \notin Ptr, ptr' = ptr
      PROVE  MsgOnWire' = Fresh!MsgBefore(f)
  BY <1>2, Visible, SameNested DEF MsgOnWire, Fresh!MsgBefore, Fresh!Ousted
<1>3. ASSUME f \notin Inl, inl' = inl
      PROVE  InlOnWire' = Fresh!InlBefore(f)
  BY <1>3, Visible, SameNested DEF InlOnWire, Fresh!InlBefore, Fresh!Ousted
<1>4. ASSUME f \notin Opt, opt' = opt
      PROVE  OptOnWire' = OptOnWire
  BY <1>4, Visible DEF OptOnWire
<1>5. ASSUME live' = live
      PROVE  ElemsOnWire' = ElemsOnWire
  BY <1>5 DEF ElemsOnWire
<1> QED BY <1>1, <1>2, <1>3, <1>4, <1>5

(* An occurrence of a field outside the oneof hides nothing.               *)
LEMMA NoneOusted ==
  ASSUME NEW f, f \notin Branch
  PROVE  /\ Fresh!PlainBefore(f) = PlainOnWire
         /\ Fresh!MsgBefore(f) = MsgOnWire
         /\ Fresh!InlBefore(f) = InlOnWire
BY DEF Fresh!PlainBefore, Fresh!MsgBefore, Fresh!InlBefore, Fresh!Ousted,
       PlainOnWire, MsgOnWire, InlOnWire

LEMMA PlainFresh ==
  ASSUME RefInv, NEW f \in Plain, NEW v \in Val, PlainField(f, v)
  PROVE  Fresh!TakePlain(f, v)
<1>1. /\ Settles(f, v, TRUE) /\ plain' = [plain EXCEPT ![f] = v]
      /\ UNCHANGED <<rep, maps, opt, ptr, inl, live, spare>> /\ TypeOK
  BY DEF PlainField, RefInv, Slots
<1>2. /\ MsgOnWire' = Fresh!MsgBefore(f) /\ InlOnWire' = Fresh!InlBefore(f)
      /\ OptOnWire' = OptOnWire /\ ElemsOnWire' = ElemsOnWire
  BY <1>1, OthersKept, DistinctFields
<1>3. ASSUME NEW g \in Plain
      PROVE  PlainOnWire'[g] = [Fresh!PlainBefore(f) EXCEPT ![f] = v][g]
  BY <1>1, Visible DEF PlainOnWire, Fresh!PlainBefore, Fresh!Ousted, TypeOK, Shown
<1>4. PlainOnWire' = [Fresh!PlainBefore(f) EXCEPT ![f] = v]
  BY <1>3 DEF PlainOnWire, Fresh!PlainBefore
<1> QED BY <1>1, <1>2, <1>4, Reads DEF Fresh!TakePlain

LEMMA UnbranchedFresh ==
  ASSUME RefInv, NEW v \in Val, NEW f,
         \/ f \in Rep /\ RepeatedField(f, v)
         \/ f \in Maps /\ \E k \in Keys : MapField(f, k, v)
         \/ f \in Opt /\ OptionalField(f, v)
  PROVE  \/ f \in Rep /\ Fresh!TakeRepeated(f, v)
         \/ f \in Maps /\ \E k \in Keys : Fresh!TakeEntry(f, k, v)
         \/ f \in Opt /\ Fresh!TakeOptional(f, v)
<1>1. (\E x : Settles(f, x, TRUE)) /\ TypeOK
  BY DEF RepeatedField, MapField, OptionalField, RefInv, Slots
<1>2. f \notin Branch /\ f \notin Plain /\ f \notin Ptr /\ f \notin Inl
  BY FieldAssumption, DistinctFields
<1>3. UNCHANGED <<plain, ptr, inl, live>>
  BY DEF RepeatedField, MapField, OptionalField
<1>4. /\ PlainOnWire' = PlainOnWire /\ MsgOnWire' = MsgOnWire
      /\ InlOnWire' = InlOnWire /\ ElemsOnWire' = ElemsOnWire
  BY <1>1, <1>2, <1>3, OthersKept, NoneOusted
<1>5. CASE f \in Rep /\ RepeatedField(f, v)
  <2>1. OptOnWire' = OptOnWire
    BY <1>1, <1>5, OthersKept, DistinctFields DEF RepeatedField
  <2>2. Fresh!Takes(f, v)
    BY <1>5, Reads DEF RepeatedField
  <2> QED BY <1>4, <1>5, <2>1, <2>2 DEF RepeatedField, Fresh!TakeRepeated
<1>6. CASE f \in Maps /\ \E k \in Keys : MapField(f, k, v)
  <2>1. OptOnWire' = OptOnWire
    BY <1>1, <1>6, OthersKept, DistinctFields DEF MapField
  <2>2. PICK k \in Keys : MapField(f, k, v)
    BY <1>6
  <2>3. Fresh!Takes(f, <<k, v>>)
    BY <2>2, Reads DEF MapField
  <2> QED BY <1>4, <1>6, <2>1, <2>2, <2>3 DEF MapField, Fresh!TakeEntry
<1>7. CASE f \in Opt /\ OptionalField(f, v)
  <2>1. opt' = [opt EXCEPT ![f] = v] /\ UNCHANGED <<rep, maps>>
    BY <1>7 DEF OptionalField
  <2>2. ASSUME NEW g \in Opt
        PROVE  OptOnWire'[g] = [OptOnWire EXCEPT ![f] = v][g]
    BY <1>1, <1>7, <2>1, Visible DEF OptOnWire, TypeOK
  <2>3. OptOnWire' = [OptOnWire EXCEPT ![f] = v]
    BY <2>2 DEF OptOnWire
  <2>4. Fresh!Takes(f, v)
    BY <1>7, Reads DEF OptionalField
  <2> QED BY <1>4, <1>7, <2>1, <2>3, <2>4 DEF Fresh!TakeOptional
<1> QED BY <1>5, <1>6, <1>7

(* A complete nested decode, by pointer or by value.                       *)
LEMMA MessageFresh ==
  ASSUME RefInv, NestedOneofFree, NEW p \in Payloads, p.ok,
         NEW f \in Ptr, MessageField(f, p)
  PROVE  Fresh!TakeMessage(f, p)
<1>1. /\ Settles(f, p, TRUE) /\ TypeOK
      /\ ptr' = [ptr EXCEPT ![f] = DecodeKid(InSlot(ptr[f]), p)]
      /\ UNCHANGED <<plain, rep, maps, opt, inl, live, spare>>
  BY DEF MessageField, RefInv, Slots
<1>2. /\ PlainOnWire' = Fresh!PlainBefore(f) /\ InlOnWire' = Fresh!InlBefore(f)
      /\ OptOnWire' = OptOnWire /\ ElemsOnWire' = ElemsOnWire
  BY <1>1, OthersKept, DistinctFields
<1>3. InSlot(ptr[f]) \in Kid /\ ~InSlot(ptr[f]).kind
  BY <1>1, InSlotType, NewKidWire DEF InSlot, TypeOK, RefInv, NestedUnset
<1>4. /\ KidOnWire(ptr'[f]) = Meaning(p) /\ ptr'[f] # Nil
      /\ \A g \in Ptr : g # f => ptr'[g] = ptr[g]
  <2>1. ptr'[f] = DecodeKid(InSlot(ptr[f]), p)
    BY <1>1 DEF TypeOK
  <2>2. DecodeKid(InSlot(ptr[f]), p) # Nil
    BY <1>3, DecodeKidType, NilAssumption
  <2> QED BY <1>1, <1>3, <2>1, <2>2, DecodeKidWire DEF TypeOK
<1>5. ASSUME NEW g \in Ptr
      PROVE  MsgOnWire'[g] = [Fresh!MsgBefore(f) EXCEPT ![f] = Meaning(p)][g]
  <2>1. CASE g = f
    BY <1>1, <1>4, <2>1, Visible DEF MsgOnWire, Fresh!MsgBefore, Shown
  <2>2. CASE g # f
    <3>1. ptr'[g] = ptr[g] /\ (Current(g)' <=> Current(g))
      BY <1>1, <1>4, <2>2, Visible
    <3>2. Shown(g)' <=> Shown(g) /\ ~Fresh!Ousted(f, g)
      BY <1>1, <2>2, Visible DEF Fresh!Ousted, Shown
    <3>3. MsgOnWire'[g] = IF Fresh!Ousted(f, g) THEN NoBytes ELSE MsgOnWire[g]
      BY <3>1, <3>2 DEF MsgOnWire
    <3> QED BY <2>2, <3>3, SameNested DEF Fresh!MsgBefore
  <2> QED BY <2>1, <2>2
<1>6. MsgOnWire' = [Fresh!MsgBefore(f) EXCEPT ![f] = Fresh!Meaning(p)]
  BY <1>5, SameNested DEF MsgOnWire, Fresh!MsgBefore
<1> QED BY <1>1, <1>2, <1>6, Reads DEF Fresh!TakeMessage

LEMMA InlineFresh ==
  ASSUME RefInv, NestedOneofFree, NEW p \in Payloads, p.ok,
         NEW f \in Inl, InlineField(f, p)
  PROVE  Fresh!TakeInline(f, p)
<1>1. /\ Settles(f, p, TRUE) /\ TypeOK
      /\ inl' = [inl EXCEPT ![f] = DecodeKid(inl[f], p)]
      /\ UNCHANGED <<plain, rep, maps, opt, ptr, live, spare>>
  BY DEF InlineField, RefInv, Slots
<1>2. /\ PlainOnWire' = Fresh!PlainBefore(f) /\ MsgOnWire' = Fresh!MsgBefore(f)
      /\ OptOnWire' = OptOnWire /\ ElemsOnWire' = ElemsOnWire
  BY <1>1, OthersKept, DistinctFields
<1>3. inl[f] \in Kid /\ ~inl[f].kind
  BY <1>1 DEF TypeOK, RefInv, NestedUnset
<1>4. /\ KidOnWire(inl'[f]) = Meaning(p)
      /\ \A g \in Inl : g # f => inl'[g] = inl[g]
  <2>1. inl'[f] = DecodeKid(inl[f], p)
    BY <1>1 DEF TypeOK
  <2> QED BY <1>1, <1>3, <2>1, DecodeKidWire DEF TypeOK
<1>5. ASSUME NEW g \in Inl
      PROVE  InlOnWire'[g] = [Fresh!InlBefore(f) EXCEPT ![f] = Meaning(p)][g]
  <2>1. CASE g = f
    BY <1>1, <1>4, <2>1, Visible DEF InlOnWire, Fresh!InlBefore, Shown
  <2>2. CASE g # f
    <3>1. inl'[g] = inl[g]
      BY <1>4, <2>2
    <3>2. Shown(g)' <=> Shown(g) /\ ~Fresh!Ousted(f, g)
      BY <1>1, <2>2, Visible DEF Fresh!Ousted, Shown
    <3>3. InlOnWire'[g] = IF Fresh!Ousted(f, g) THEN NoBytes ELSE InlOnWire[g]
      BY <3>1, <3>2 DEF InlOnWire
    <3> QED BY <2>2, <3>3, SameNested DEF Fresh!InlBefore
  <2> QED BY <2>1, <2>2
<1>6. InlOnWire' = [Fresh!InlBefore(f) EXCEPT ![f] = Fresh!Meaning(p)]
  BY <1>5, SameNested DEF InlOnWire, Fresh!InlBefore
<1> QED BY <1>1, <1>2, <1>6, Reads DEF Fresh!TakeInline

(* An element, decoded into a reused slot or a new one: a slot is blank,   *)
(* so nothing of its last occupant is left, nor its discriminator.         *)
LEMMA ElementFresh ==
  ASSUME RefInv, NEW p \in Payloads, p.ok, NEW f \in Elem, ElementField(f, p)
  PROVE  Fresh!TakeElement(f, p)
<1>1. /\ Settles(f, p, TRUE) /\ TypeOK /\ SpareIsBlank
      /\ UNCHANGED <<plain, rep, maps, opt, ptr, inl>>
  BY DEF ElementField, RefInv, Slots
<1>2. f \notin Branch /\ f \notin Plain /\ f \notin Ptr /\ f \notin Inl /\ f \notin Opt
  BY FieldAssumption, DistinctFields
<1>3. /\ PlainOnWire' = PlainOnWire /\ MsgOnWire' = MsgOnWire
      /\ InlOnWire' = InlOnWire /\ OptOnWire' = OptOnWire
  BY <1>1, <1>2, OthersKept, NoneOusted
<1>4. PICK k \in Kid : ~k.kind /\ live' = [live EXCEPT ![f] = Append(live[f], DecodeKid(k, p))]
  <2>1. CASE ReuseSlot(f, p)
    <3>1. Head(spare[f]) \in {Hole(f), NewKid}
      <4>1. spare[f] \in Seq(Kid \cup {Nil}) /\ spare[f] # <<>>
        BY <1>1, <2>1 DEF TypeOK, ReuseSlot
      <4>2. 1 \in DOMAIN spare[f] /\ Head(spare[f]) = spare[f][1]
        BY <4>1
      <4> QED BY <1>1, <4>2 DEF SpareIsBlank
    <3>2. InSlot(Head(spare[f])) = NewKid
      BY <3>1 DEF InSlot, Hole
    <3> QED BY <2>1, <3>2, NewKidType, NewKidWire DEF ReuseSlot
  <2>2. CASE GrowSlice(f, p)
    BY <2>2, NewKidType, NewKidWire DEF GrowSlice
  <2> QED BY <2>1, <2>2 DEF ElementField
<1>5. live[f] \in Seq(Kid) /\ DecodeKid(k, p) \in Kid
  BY <1>1, <1>4, DecodeKidType DEF TypeOK
<1>6. ASSUME NEW g \in Elem
      PROVE  ElemsOnWire'[g] = [ElemsOnWire EXCEPT ![f] = Append(@, Meaning(p))][g]
  <2>1. ElemsOnWire[g] = WireOf(live[g]) /\ ElemsOnWire'[g] = WireOf(live'[g])
    BY DEF ElemsOnWire, WireOf
  <2>2. CASE g = f
    <3>1. live'[g] = Append(live[f], DecodeKid(k, p))
      BY <1>1, <1>4, <2>2 DEF TypeOK
    <3>2. WireOf(live'[g]) = Append(WireOf(live[f]), Meaning(p))
      BY <1>4, <1>5, <3>1, WireOfAppend, DecodeKidWire
    <3> QED BY <2>1, <2>2, <3>2 DEF ElemsOnWire
  <2>3. CASE g # f
    <3>1. live'[g] = live[g]
      BY <1>1, <1>4, <2>3 DEF TypeOK
    <3> QED BY <2>1, <2>3, <3>1 DEF ElemsOnWire
  <2> QED BY <2>2, <2>3
<1>7. ElemsOnWire' = [ElemsOnWire EXCEPT ![f] = Append(@, Fresh!Meaning(p))]
  BY <1>6, SameNested DEF ElemsOnWire
<1> QED BY <1>1, <1>3, <1>7, Reads DEF Fresh!TakeElement

(* A decode that returns an error may leave any content, and no other.     *)
LEMMA ContentType == Slots => Fresh!AnyContent
<1> SUFFICES ASSUME Slots PROVE Fresh!AnyContent
  OBVIOUS
<1>1. TypeOK /\ NoBytes \in OnWire
  BY ValAssumption DEF Slots, NoBytes, OnWire
<1>2. PlainOnWire \in [Plain -> Val] /\ OptOnWire \in [Opt -> Val \cup {Nil}]
  BY <1>1, ValAssumption DEF TypeOK, PlainOnWire, OptOnWire
<1>3. MsgOnWire \in [Ptr -> OnWire] /\ InlOnWire \in [Inl -> OnWire]
  BY <1>1, KidOnWireType DEF TypeOK, MsgOnWire, InlOnWire
<1>4. ElemsOnWire \in [Elem -> Seq(OnWire)]
  <2>1. ASSUME NEW f \in Elem
        PROVE  WireOf(live[f]) \in Seq(OnWire)
    BY <1>1, WireOfType DEF TypeOK
  <2>2. ElemsOnWire = [f \in Elem |-> WireOf(live[f])]
    BY DEF ElemsOnWire, WireOf
  <2> QED BY <2>1, <2>2
<1> QED BY <1>1, <1>2, <1>3, <1>4, SameNested DEF Fresh!AnyContent, TypeOK

LEMMA FailFresh ==
  ASSUME RefInv', status = "decoding", status' = "failed",
         fed' \in {fed, fed + 1},
         \/ last' = last
         \/ \E f \in Ptr \cup Inl \cup Elem, p \in Payloads : last' = <<f, p>>
  PROVE  Fresh!Fail
<1>1. Fresh!AnyContent'
  BY ContentType, PTL DEF RefInv
<1> QED BY <1>1 DEF Fresh!Fail

LEMMA SkipFresh ==
  ASSUME UNCHANGED <<status, fields, seen>>
  PROVE  UNCHANGED <<status, Fresh!content>>
<1>1. \A f : (Shown(f)' <=> Shown(f)) /\ (Current(f)' <=> Current(f))
  BY DEF fields, Shown, Current
<1>2. PlainOnWire' = PlainOnWire /\ InlOnWire' = InlOnWire /\ ElemsOnWire' = ElemsOnWire
  BY <1>1 DEF fields, PlainOnWire, InlOnWire, ElemsOnWire
<1>3. OptOnWire' = OptOnWire /\ MsgOnWire' = MsgOnWire
  BY <1>1 DEF fields, OptOnWire, MsgOnWire
<1> QED BY <1>2, <1>3 DEF fields, Fresh!content

(* A field occurrence is the same occurrence for the two decoders, or the  *)
(* end of the decode in an error.                                          *)
LEMMA FieldFresh ==
  ASSUME RefInv, RefInv', NestedOneofFree,
         \/ \E f \in Plain, v \in Val : PlainField(f, v)
         \/ \E f \in Rep, v \in Val : RepeatedField(f, v)
         \/ \E f \in Maps, k \in Keys, v \in Val : MapField(f, k, v)
         \/ \E f \in Opt, v \in Val : OptionalField(f, v)
         \/ \E f \in Ptr, p \in Payloads : MessageField(f, p)
         \/ \E f \in Inl, p \in Payloads : InlineField(f, p)
         \/ \E f \in Elem, p \in Payloads : ElementField(f, p)
  PROVE  Fresh!Next
<1>1. CASE \E f \in Plain, v \in Val : PlainField(f, v)
  BY <1>1, PlainFresh DEF Fresh!Next
<1>2. CASE \E f \in Rep, v \in Val : RepeatedField(f, v)
  <2>1. PICK f \in Rep, v \in Val : RepeatedField(f, v)
    BY <1>2
  <2>2. Fresh!TakeRepeated(f, v)
    BY <2>1, UnbranchedFresh, DistinctFields
  <2> QED BY <2>2 DEF Fresh!Next
<1>3. CASE \E f \in Maps, k \in Keys, v \in Val : MapField(f, k, v)
  <2>1. PICK f \in Maps, v \in Val : \E k \in Keys : MapField(f, k, v)
    BY <1>3
  <2>2. \E k \in Keys : Fresh!TakeEntry(f, k, v)
    BY <2>1, UnbranchedFresh, DistinctFields
  <2> QED BY <2>2 DEF Fresh!Next
<1>4. CASE \E f \in Opt, v \in Val : OptionalField(f, v)
  <2>1. PICK f \in Opt, v \in Val : OptionalField(f, v)
    BY <1>4
  <2>2. Fresh!TakeOptional(f, v)
    BY <2>1, UnbranchedFresh, DistinctFields
  <2> QED BY <2>2 DEF Fresh!Next
<1>5. CASE \E f \in Ptr, p \in Payloads : MessageField(f, p)
  <2>1. PICK f \in Ptr, p \in Payloads : MessageField(f, p)
    BY <1>5
  <2>2. CASE p.ok
    BY <2>1, <2>2, MessageFresh DEF Fresh!Next
  <2>3. CASE ~p.ok
    <3>1. /\ status = "decoding" /\ status' = "failed"
          /\ fed' = fed + 1 /\ last' = <<f, p>>
      BY <2>1, <2>3 DEF MessageField, Settles
    <3> QED BY <3>1, FailFresh DEF Fresh!Next
  <2> QED BY <2>2, <2>3
<1>6. CASE \E f \in Inl, p \in Payloads : InlineField(f, p)
  <2>1. PICK f \in Inl, p \in Payloads : InlineField(f, p)
    BY <1>6
  <2>2. CASE p.ok
    BY <2>1, <2>2, InlineFresh DEF Fresh!Next
  <2>3. CASE ~p.ok
    <3>1. /\ status = "decoding" /\ status' = "failed"
          /\ fed' = fed + 1 /\ last' = <<f, p>>
      BY <2>1, <2>3 DEF InlineField, Settles
    <3> QED BY <3>1, FailFresh DEF Fresh!Next
  <2> QED BY <2>2, <2>3
<1>7. CASE \E f \in Elem, p \in Payloads : ElementField(f, p)
  <2>1. PICK f \in Elem, p \in Payloads : ElementField(f, p)
    BY <1>7
  <2>2. CASE p.ok
    BY <2>1, <2>2, ElementFresh DEF Fresh!Next
  <2>3. CASE ~p.ok
    <3>1. /\ status = "decoding" /\ status' = "failed"
          /\ fed' = fed + 1 /\ last' = <<f, p>>
      BY <2>1, <2>3 DEF ElementField, Settles
    <3> QED BY <3>1, FailFresh DEF Fresh!Next
  <2> QED BY <2>2, <2>3
<1> QED BY <1>1, <1>2, <1>3, <1>4, <1>5, <1>6, <1>7

LEMMA NextFresh ==
  ASSUME RefInv, RefInv', Disciplined, [Next]_vars
  PROVE  [Fresh!Next]_Fresh!vars
<1>1. CASE Begin
  BY <1>1, BeginFresh DEF Fresh!Next
<1>2. CASE UnknownField
  BY <1>2, SkipFresh DEF UnknownField, Fresh!PassUnknown, Fresh!Next
<1>6. CASE UNCHANGED vars
  BY <1>6, SkipFresh DEF vars, Fresh!vars
<1>3. CASE Malformed
  BY <1>3, FailFresh DEF Malformed, Fresh!Next
<1>4. CASE Finish
  BY <1>4, FinishFresh DEF Fresh!Next
<1>5. CASE ResetCodec
  BY <1>5, ResetCodecFresh DEF Fresh!Next
<1> QED BY <1>1, <1>2, <1>3, <1>4, <1>5, <1>6, FieldFresh DEF Next, Disciplined

(* For every schema, every wire input and every history of one receiver:   *)
(* under Disciplined, what UnmarshalCodec leaves is what it would leave in *)
(* a new message, so reuse of slots, elements and capacity cannot be seen, *)
(* and no occurrence that was read is left out.                            *)
THEOREM ReuseIsInvisible ==
  ASSUME Disciplined
  PROVE  Spec => DecodesAsFresh
<1>1. Init => Fresh!Init
  BY InitFresh
<1>2. RefInv /\ RefInv' /\ [Next]_vars => [Fresh!Next]_Fresh!vars
  BY NextFresh
<1> QED BY <1>1, <1>2, RefInvariant, PTL DEF Spec, DecodesAsFresh, Fresh!Spec

-----------------------------------------------------------------------------
(***************************************************************************)
(* What the second of two decodes of one input allocates, for every        *)
(* message type, every input and every bound.                              *)
(***************************************************************************)

(* How many entries of s are in P, and whether b begins with s.            *)
Tally(s, P)  == Cardinality({j \in DOMAIN s : s[j] \in P})
Within(s, b) == Len(s) <= Len(b) /\ \A j \in 1 .. Len(s) : s[j] = b[j]

Of(f) == {f} \X Payloads
Dear  == {r \in (Inl \cup Elem) \X Payloads : r[2].opt # Nil}

(* No singular message twice, as in NoDuplicates.                          *)
Once(s) ==
  \A j, k \in DOMAIN s : s[j][1] = s[k][1] /\ s[j][1] \in Ptr \cup Inl => j = k

(* The pooled slots that the entries of s ask for are there.               *)
Filled(s) ==
  \A j \in DOMAIN s :
    /\ s[j][1] \in Opt => opt[s[j][1]] # Nil
    /\ s[j][1] \in Ptr => /\ ptr[s[j][1]] # Nil
                          /\ Once(s) => ptr[s[j][1]].opt = s[j][2].opt

(* The occurrences of the fields that the schema has.                      *)
Entries == Occurrence \ {<<>>}

(* What the receiver holds of the input it has read.                       *)
Read ==
  /\ input \in Seq(Entries) /\ before \in Seq(Entries) \cup {Nil}
  /\ status \in {"decoding", "ok"} =>
       /\ seen = {input[j][1] : j \in DOMAIN input}
       /\ \A f \in Elem : Len(live[f]) = Tally(input, Of(f))
       /\ Filled(input)
  /\ status = "decoding" => \A f \in Inl \ seen : inl[f] = NewKid

(* The elements of f that are to come find objects of earlier ones, blank. *)
ToCome(f)  == Tally(before, Of(f)) - Len(live[f])
Stocked(f) == /\ ToCome(f) <= Len(spare[f])
              /\ \A i \in 1 .. ToCome(f) : spare[f][i] = NewKid

(* As long as a decode reads what the one before it has read.              *)
Again == /\ status \in {"decoding", "ok"}
         /\ before # Nil /\ Once(before) /\ Within(input, before)

Warm ==
  Again => /\ allocs = Tally(input, Dear)
           /\ status = "decoding" => Filled(before) /\ \A f \in Elem : Stocked(f)

WInv == Slots /\ Read /\ Warm

-----------------------------------------------------------------------------
(* Sequences.                                                              *)
LEMMA PartIsFinite ==
  ASSUME NEW z \in Nat, NEW A, A \subseteq 1 .. z
  PROVE  IsFiniteSet(A) /\ Cardinality(A) \in 0 .. z
<1>1. IsFiniteSet(1 .. z) /\ Cardinality(1 .. z) = z
  BY FS_Interval
<1>2. IsFiniteSet(A) /\ Cardinality(A) <= z
  BY <1>1, FS_Subset
<1>. QED BY <1>2, FS_CardinalityType

LEMMA Appended ==
  ASSUME NEW S, NEW s \in Seq(S), NEW e \in S
  PROVE  /\ Append(s, e) \in Seq(S) /\ Len(s) \in Nat /\ DOMAIN s = 1 .. Len(s)
         /\ DOMAIN Append(s, e) = 1 .. Len(s) + 1 /\ Len(Append(s, e)) = Len(s) + 1
         /\ \A j \in 1 .. Len(s) : Append(s, e)[j] = s[j]
         /\ Append(s, e)[Len(s) + 1] = e
BY AppendProperties, LenProperties

LEMMA TallyIsNat ==
  ASSUME NEW S, NEW s \in Seq(S), NEW P
  PROVE  Tally(s, P) \in 0 .. Len(s)
<1>1. Len(s) \in Nat /\ DOMAIN s = 1 .. Len(s)
  BY LenProperties
<1>2. {j \in DOMAIN s : s[j] \in P} \subseteq 1 .. Len(s)
  BY <1>1
<1>. QED BY <1>1, <1>2, PartIsFinite DEF Tally

LEMMA TallyAppend ==
  ASSUME NEW S, NEW s \in Seq(S), NEW e \in S, NEW P
  PROVE  Tally(Append(s, e), P) = Tally(s, P) + IF e \in P THEN 1 ELSE 0
<1>. DEFINE t == Append(s, e)
            A == {j \in DOMAIN s : s[j] \in P}
            B == {j \in DOMAIN t : t[j] \in P}
            z == Len(s) + 1
<1>1. /\ Len(s) \in Nat /\ DOMAIN s = 1 .. Len(s) /\ DOMAIN t = 1 .. z
      /\ \A j \in 1 .. Len(s) : t[j] = s[j]
  BY Appended
<1>2. t[z] = e
  BY Appended
<1>3. B = IF e \in P THEN A \cup {z} ELSE A
  <2>. HIDE DEF t
  <2>. QED BY <1>1, <1>2
<1>4. z \notin A
  BY <1>1
<1>5. A \subseteq 1 .. Len(s)
  BY <1>1
<1>6. IsFiniteSet(A)
  <2>. HIDE DEF A
  <2>. QED BY <1>1, <1>5, PartIsFinite
<1>. HIDE DEF A, B, z, t
<1>7. Cardinality(A) \in Nat /\ Cardinality(A \cup {z}) = Cardinality(A) + 1
  BY <1>4, <1>6, FS_AddElement, FS_CardinalityType
<1>8. Cardinality(B) = Cardinality(A) + IF e \in P THEN 1 ELSE 0
  BY <1>3, <1>7
<1>. QED BY <1>8 DEF Tally, A, B, t

LEMMA TallyWithin ==
  ASSUME NEW S, NEW s \in Seq(S), NEW b \in Seq(S), Within(s, b), NEW P
  PROVE  Tally(s, P) <= Tally(b, P)
<1>. DEFINE A == {j \in DOMAIN s : s[j] \in P}
            B == {j \in DOMAIN b : b[j] \in P}
<1>1. /\ Len(s) \in Nat /\ DOMAIN s = 1 .. Len(s)
      /\ Len(b) \in Nat /\ DOMAIN b = 1 .. Len(b)
  BY LenProperties
<1>2. A \subseteq B /\ B \subseteq 1 .. Len(b)
  BY <1>1 DEF Within
<1>3. IsFiniteSet(B)
  <2>. HIDE DEF B
  <2>. QED BY <1>1, <1>2, PartIsFinite
<1>. HIDE DEF A, B
<1>4. Cardinality(A) <= Cardinality(B)
  BY <1>2, <1>3, FS_Subset
<1>. QED BY <1>4 DEF Tally, A, B

LEMMA WithinAppend ==
  ASSUME NEW S, NEW s \in Seq(S), NEW b \in Seq(S), NEW e \in S, Within(Append(s, e), b)
  PROVE  Within(s, b) /\ Len(s) + 1 \in DOMAIN b /\ b[Len(s) + 1] = e
<1>1. /\ Len(b) \in Nat /\ DOMAIN b = 1 .. Len(b)
      /\ Len(s) \in Nat /\ Len(Append(s, e)) = Len(s) + 1
      /\ \A j \in 1 .. Len(s) : Append(s, e)[j] = s[j]
      /\ Append(s, e)[Len(s) + 1] = e
  BY Appended, LenProperties
<1>2. Len(s) + 1 <= Len(b) /\ \A j \in 1 .. Len(s) + 1 : Append(s, e)[j] = b[j]
  BY <1>1 DEF Within
<1>3. \A j \in 1 .. Len(s) : s[j] = b[j]
  BY <1>1, <1>2
<1>4. b[Len(s) + 1] = e
  BY <1>1, <1>2
<1>. QED BY <1>1, <1>2, <1>3, <1>4 DEF Within

LEMMA OnceAppend ==
  ASSUME NEW S, NEW s \in Seq(S), NEW e \in S, Once(Append(s, e))
  PROVE  Once(s) /\ (e[1] \in Ptr \cup Inl => \A j \in DOMAIN s : s[j][1] # e[1])
<1>1. /\ Len(s) \in Nat /\ DOMAIN s = 1 .. Len(s) /\ DOMAIN Append(s, e) = 1 .. Len(s) + 1
      /\ \A j \in 1 .. Len(s) : Append(s, e)[j] = s[j]
      /\ Append(s, e)[Len(s) + 1] = e
  BY Appended
<1>2. Once(s)
  BY <1>1 DEF Once
<1>3. ASSUME e[1] \in Ptr \cup Inl, NEW j \in DOMAIN s, s[j][1] = e[1]
      PROVE  FALSE
  <2>1. j \in DOMAIN Append(s, e) /\ Len(s) + 1 \in DOMAIN Append(s, e) /\ j # Len(s) + 1
    BY <1>1
  <2>. QED BY <1>1, <1>3, <2>1 DEF Once
<1>. QED BY <1>2, <1>3

-----------------------------------------------------------------------------
(* What one arm does, as far as the next decode depends on it.             *)
Arm(f, x, ok) ==
  /\ Settles(f, x, ok) /\ input' = Append(input, <<f, x>>) /\ before' = before
  /\ \A g \in Opt : IF g = f THEN opt'[g] # Nil ELSE opt'[g] = opt[g]
  /\ \A g \in Ptr : IF g = f THEN ptr'[g] # Nil /\ (ok => ptr'[g].opt = x.opt)
                             ELSE ptr'[g] = ptr[g]
  /\ \A g \in Inl \ {f} : inl'[g] = inl[g]
  /\ \A g \in Elem : IF g = f THEN /\ Len(live'[g]) = Len(live[g]) + 1
                                   /\ spare[g] # <<>> => spare'[g] = Tail(spare[g])
                              ELSE live'[g] = live[g] /\ spare'[g] = spare[g]

(* An occurrence that an arm reads.                                        *)
Entry(f, x) == /\ f \in Field /\ <<f, x>> \in Entries
               /\ f \in Ptr \cup Inl \cup Elem => x \in Payloads

LEMMA ArmRead ==
  ASSUME WInv, NEW f, NEW x, Entry(f, x), NEW ok \in BOOLEAN, Arm(f, x, ok)
  PROVE  Read'
<1>. DEFINE e == <<f, x>>
            z == Len(input)
<1>1. input \in Seq(Entries) /\ e \in Entries
  BY DEF WInv, Read, Entry
<1>2. /\ input' \in Seq(Entries) /\ z \in Nat /\ DOMAIN input = 1 .. z
      /\ DOMAIN input' = 1 .. z + 1
      /\ \A j \in 1 .. z : input'[j] = input[j]
      /\ input'[z + 1] = e
  BY <1>1, Appended DEF Arm
<1>3. before' \in Seq(Entries) \cup {Nil}
  BY DEF WInv, Read, Arm
<1>4. e[1] = f /\ e[2] = x
  OBVIOUS
<1>5. status = "decoding" /\ status' \in {"decoding", "failed"}
      /\ (status' = "decoding" => ok)
  BY DEF Arm, Settles
<1>6. ASSUME status' = "decoding"
      PROVE  /\ seen' = {input'[j][1] : j \in DOMAIN input'}
             /\ \A g \in Elem : Len(live'[g]) = Tally(input', Of(g))
             /\ Filled(input)'
             /\ \A g \in Inl \ seen' : inl'[g] = NewKid
  <2>1. ok /\ seen' = seen \cup {f}
    BY <1>5, <1>6 DEF Arm, Settles
  <2>2. /\ seen = {input[j][1] : j \in DOMAIN input}
        /\ \A g \in Elem : Len(live[g]) = Tally(input, Of(g))
        /\ Filled(input)
        /\ \A g \in Inl \ seen : inl[g] = NewKid
    BY <1>5 DEF WInv, Read
  <2>3. seen' = {input'[j][1] : j \in DOMAIN input'}
    <3>. HIDE DEF e, z
    <3>. QED BY <2>1, <2>2, <1>2, <1>4
  <2>4. ASSUME NEW g \in Elem
        PROVE  Len(live'[g]) = Tally(input', Of(g))
    <3>1. Tally(input', Of(g)) = Tally(input, Of(g)) + IF e \in Of(g) THEN 1 ELSE 0
      BY <1>1, TallyAppend DEF Arm
    <3>2. e \in Of(g) <=> f = g
      BY DEF Of, Entry
    <3>3. Tally(input, Of(g)) \in Nat
      BY <1>1, <1>2, TallyIsNat
    <3>4. CASE g = f
      <4>1. Len(live'[g]) = Len(live[g]) + 1
        BY <3>4 DEF Arm
      <4>. QED BY <2>2, <3>1, <3>2, <3>4, <4>1
    <3>5. CASE g # f
      <4>1. live'[g] = live[g] /\ e \notin Of(g)
        BY <3>2, <3>5 DEF Arm
      <4>2. Tally(input', Of(g)) = Tally(input, Of(g))
        BY <3>1, <3>3, <4>1
      <4>. QED BY <2>2, <4>1, <4>2
    <3>. QED BY <3>4, <3>5
  <2>5. ASSUME NEW j \in DOMAIN input'
        PROVE  /\ input'[j][1] \in Opt => opt'[input'[j][1]] # Nil
               /\ input'[j][1] \in Ptr =>
                    /\ ptr'[input'[j][1]] # Nil
                    /\ Once(input') => ptr'[input'[j][1]].opt = input'[j][2].opt
    <3>1. CASE j = z + 1
      BY <1>2, <1>4, <2>1, <3>1 DEF Arm
    <3>2. CASE j \in 1 .. z
      <4>. DEFINE g == input[j][1]
      <4>1. input'[j] = input[j] /\ j \in DOMAIN input
        BY <1>2, <3>2
      <4>2. /\ g \in Opt => opt[g] # Nil
            /\ g \in Ptr => /\ ptr[g] # Nil
                            /\ Once(input) => ptr[g].opt = input[j][2].opt
        BY <2>2, <4>1 DEF Filled
      <4>. HIDE DEF g
      <4>3. g \in Opt => opt'[g] # Nil
        BY <4>2 DEF Arm
      <4>4. g \in Ptr => ptr'[g] # Nil
        BY <4>2 DEF Arm
      <4>5. ASSUME g \in Ptr, Once(input')
            PROVE  ptr'[g].opt = input[j][2].opt
        <5>1. Once(Append(input, e))
          BY <4>5 DEF Arm
        <5>2. Once(input) /\ (f \in Ptr \cup Inl => input[j][1] # f)
          <6>. HIDE DEF e
          <6>. QED BY <1>1, <1>4, <5>1, <4>1, OnceAppend
        <5>3. g # f
          BY <5>2, <4>5 DEF g
        <5>. QED BY <5>2, <5>3, <4>2, <4>5 DEF Arm
      <4>. QED BY <4>1, <4>3, <4>4, <4>5 DEF g
    <3>. QED BY <1>2, <3>1, <3>2
  <2>6. Filled(input)'
    BY <2>5 DEF Filled, Once
  <2>7. \A g \in Inl \ seen' : inl'[g] = NewKid
    BY <2>1, <2>2 DEF Arm
  <2>. QED BY <2>3, <2>4, <2>6, <2>7
<1>. QED BY <1>2, <1>3, <1>5, <1>6 DEF Read

(* When the next decode reads what the last has read, an arm reads the     *)
(* entry that is due.                                                      *)
LEMMA Expected ==
  ASSUME WInv, NEW f, NEW x, Entry(f, x), NEW ok \in BOOLEAN, Arm(f, x, ok), Again',
         status' = "decoding"
  PROVE  /\ Again /\ ok /\ allocs = Tally(input, Dear)
         /\ Filled(before) /\ \A g \in Elem : Stocked(g)
         /\ before \in Seq(Entries) /\ Once(before)
         /\ Len(input) + 1 \in DOMAIN before /\ before[Len(input) + 1] = <<f, x>>
         /\ f \in Ptr \cup Inl => f \notin seen
         /\ f \in Elem => Tally(before, Of(f)) > Len(live[f])
<1>. DEFINE e == <<f, x>>
<1>1. status = "decoding" /\ ok
  BY DEF Arm, Settles
<1>2. /\ input \in Seq(Entries) /\ e \in Entries
      /\ before \in Seq(Entries)
      /\ Once(before) /\ Within(Append(input, e), before) /\ before # Nil
  BY DEF WInv, Read, Entry, Arm, Again, Once
<1>3. Within(input, before) /\ Len(input) + 1 \in DOMAIN before /\ before[Len(input) + 1] = e
  <2>. HIDE DEF e
  <2>. QED BY <1>2, WithinAppend
<1>4. Again
  BY <1>1, <1>2, <1>3 DEF Again
<1>5. /\ allocs = Tally(input, Dear)
      /\ Filled(before) /\ \A g \in Elem : Stocked(g)
  BY <1>1, <1>4 DEF WInv, Warm
<1>6. ASSUME f \in Ptr \cup Inl, f \in seen
      PROVE  FALSE
  <2>1. PICK j \in DOMAIN input : input[j][1] = f
    BY <1>1, <1>6 DEF WInv, Read
  <2>2. /\ Len(input) \in Nat /\ DOMAIN input = 1 .. Len(input)
        /\ Len(before) \in Nat /\ DOMAIN before = 1 .. Len(before)
    BY <1>2, LenProperties
  <2>3. j \in DOMAIN before /\ before[j][1] = f /\ j # Len(input) + 1
    BY <1>3, <2>1, <2>2 DEF Within
  <2>4. before[Len(input) + 1][1] = f
    BY <1>3
  <2>. QED BY <1>2, <1>3, <1>6, <2>3, <2>4 DEF Once
<1>7. ASSUME f \in Elem
      PROVE  Tally(before, Of(f)) > Len(live[f])
  <2>1. Tally(Append(input, e), Of(f)) <= Tally(before, Of(f))
    BY <1>2, Appended, TallyWithin
  <2>2. Tally(Append(input, e), Of(f)) = Tally(input, Of(f)) + IF e \in Of(f) THEN 1 ELSE 0
    BY <1>2, TallyAppend
  <2>3. e \in Of(f)
    BY <1>7 DEF Of, Entry
  <2>4. Len(live[f]) = Tally(input, Of(f))
    BY <1>1, <1>7 DEF WInv, Read
  <2>5. Tally(input, Of(f)) \in Nat /\ Tally(before, Of(f)) \in Nat
    BY <1>2, TallyIsNat, LenProperties
  <2>. QED BY <2>1, <2>2, <2>3, <2>4, <2>5
<1>. QED BY <1>1, <1>2, <1>3, <1>4, <1>5, <1>6, <1>7

LEMMA ArmWarm ==
  ASSUME WInv, NEW f, NEW x, Entry(f, x), NEW ok \in BOOLEAN, Arm(f, x, ok),
         Again' /\ status' = "decoding"
           => allocs' = allocs + IF <<f, x>> \in Dear THEN 1 ELSE 0
  PROVE  Warm'
<1>. DEFINE e == <<f, x>>
<1>1. status' \in {"decoding", "failed"}
  BY DEF Arm, Settles
<1>. SUFFICES ASSUME Again', status' = "decoding"
             PROVE  /\ allocs' = Tally(input', Dear)
                    /\ Filled(before)' /\ \A g \in Elem : Stocked(g)'
  BY <1>1 DEF Warm, Again
<1>2. /\ ok /\ allocs = Tally(input, Dear)
      /\ Filled(before) /\ \A g \in Elem : Stocked(g)
      /\ before \in Seq(Entries) /\ Once(before)
      /\ Len(input) + 1 \in DOMAIN before /\ before[Len(input) + 1] = e
      /\ f \in Elem => Tally(before, Of(f)) > Len(live[f])
  BY Expected
<1>3. allocs' = Tally(input', Dear)
  <2>1. input \in Seq(Entries) /\ e \in Entries /\ input' = Append(input, e)
    BY DEF WInv, Read, Entry, Arm
  <2>2. Tally(Append(input, e), Dear) = Tally(input, Dear) + IF e \in Dear THEN 1 ELSE 0
    BY <2>1, TallyAppend
  <2>. QED BY <1>2, <2>1, <2>2
<1>4. ASSUME NEW j \in DOMAIN before
      PROVE  /\ before[j][1] \in Opt => opt'[before[j][1]] # Nil
             /\ before[j][1] \in Ptr => /\ ptr'[before[j][1]] # Nil
                                        /\ ptr'[before[j][1]].opt = before[j][2].opt
  <2>. DEFINE g == before[j][1]
  <2>1. /\ g \in Opt => opt[g] # Nil
        /\ g \in Ptr => ptr[g] # Nil /\ ptr[g].opt = before[j][2].opt
    BY <1>2 DEF Filled
  <2>2. g = f /\ g \in Ptr => j = Len(input) + 1
    <3>1. before[Len(input) + 1][1] = f
      BY <1>2
    <3>. QED BY <1>2, <3>1 DEF Once
  <2>3. g = f /\ g \in Ptr => before[j][2] = x
    BY <1>2, <2>2
  <2>. HIDE DEF g
  <2>4. /\ g \in Opt => opt'[g] # Nil
        /\ g \in Ptr => ptr'[g] # Nil /\ ptr'[g].opt = before[j][2].opt
    BY <1>2, <2>1, <2>3 DEF Arm
  <2>. QED BY <2>4 DEF g
<1>5. Filled(before)'
  BY <1>4 DEF Filled, Once, Arm
<1>6. ASSUME NEW g \in Elem
      PROVE  Stocked(g)'
  <2>. DEFINE t == Tally(before, Of(g))
  <2>1. /\ Tally(before, Of(g))' = t /\ Stocked(g)
        /\ spare[g] \in Seq(Kid \cup {Nil}) /\ live[g] \in Seq(Kid)
    BY <1>2 DEF Arm, WInv, Slots, TypeOK, Tally, Of
  <2>2. t \in Nat /\ Len(live[g]) \in Nat /\ Len(spare[g]) \in Nat
    BY <1>2, <2>1, TallyIsNat, LenProperties
  <2>3. CASE g # f
    <3>1. live'[g] = live[g] /\ spare'[g] = spare[g]
      BY <2>3 DEF Arm
    <3>. QED BY <2>1, <3>1 DEF Stocked, ToCome
  <2>4. CASE g = f
    <3>1. t > Len(live[g]) /\ Len(live'[g]) = Len(live[g]) + 1
      BY <1>2, <2>4 DEF Arm
    <3>2. t - Len(live[g]) <= Len(spare[g])
          /\ \A i \in 1 .. t - Len(live[g]) : spare[g][i] = NewKid
      BY <2>1 DEF Stocked, ToCome
    <3>3. spare[g] # <<>>
      BY <2>2, <3>1, <3>2
    <3>4. spare'[g] = Tail(spare[g])
      BY <2>4, <3>3 DEF Arm
    <3>5. /\ Len(spare'[g]) = Len(spare[g]) - 1
          /\ \A i \in 1 .. Len(spare[g]) - 1 : spare'[g][i] = spare[g][i + 1]
      BY <2>1, <3>3, <3>4, HeadTailProperties
    <3>6. t - Len(live'[g]) <= Len(spare'[g])
      BY <2>2, <3>1, <3>2, <3>5
    <3>7. ASSUME NEW i \in 1 .. t - Len(live'[g])
          PROVE  spare'[g][i] = NewKid
      <4>1. i + 1 \in 1 .. t - Len(live[g]) /\ i \in 1 .. Len(spare[g]) - 1
        BY <2>2, <3>1, <3>2
      <4>. QED BY <3>2, <3>5, <4>1
    <3>8. ToCome(g)' = t - Len(live'[g])
      BY <2>1 DEF ToCome
    <3>. QED BY <3>6, <3>7, <3>8 DEF Stocked
  <2>. QED BY <2>3, <2>4
<1>. QED BY <1>3, <1>5, <1>6

-----------------------------------------------------------------------------
(* The arms, one by one.                                                   *)
LEMMA PlainKeeps ==
  ASSUME WInv, NEW f \in Plain, NEW v \in Val, PlainField(f, v), Costs(0)
  PROVE  Read' /\ Warm'
<1>1. Entry(f, v) /\ <<f, v>> \notin Dear
  BY DistinctFields DEF Entry, Entries, Field, Occurrence, Dear
<1>2. Arm(f, v, TRUE)
  BY DistinctFields DEF PlainField, Costs, Settles, Arm
<1>3. allocs' = allocs + IF <<f, v>> \in Dear THEN 1 ELSE 0
  BY <1>1 DEF Costs
<1>. QED BY <1>1, <1>2, <1>3, ArmRead, ArmWarm

LEMMA OptionalKeeps ==
  ASSUME WInv, Poolable \cap Wide = {},
         NEW f \in Opt, NEW v \in Val, OptionalField(f, v), Costs(OptionalAllocs(f))
  PROVE  Read' /\ Warm'
<1>1. Entry(f, v) /\ <<f, v>> \notin Dear
  BY DistinctFields DEF Entry, Entries, Field, Occurrence, Dear
<1>2. /\ Settles(f, v, TRUE) /\ input' = Append(input, <<f, v>>) /\ before' = before
      /\ UNCHANGED <<ptr, inl, live, spare>> /\ opt' = [opt EXCEPT ![f] = v]
      /\ allocs' = allocs + OptionalAllocs(f)
  BY DEF OptionalField, Costs, Settles
<1>3. Arm(f, v, TRUE)
  <2>1. \A g \in Opt : IF g = f THEN opt'[g] # Nil ELSE opt'[g] = opt[g]
    BY <1>2, ValAssumption DEF WInv, Slots, TypeOK
  <2>. QED BY <1>2, <2>1, DistinctFields DEF Arm
<1>4. ASSUME Again', status' = "decoding"
      PROVE  allocs' = allocs + IF <<f, v>> \in Dear THEN 1 ELSE 0
  <2>1. Filled(before) /\ Len(input) + 1 \in DOMAIN before /\ before[Len(input) + 1] = <<f, v>>
    BY <1>1, <1>3, <1>4, Expected
  <2>2. opt[f] # Nil
    BY <2>1 DEF Filled
  <2>3. OptionalAllocs(f) = 0
    BY <2>2 DEF OptionalAllocs, PoolingEnabled, Poolable
  <2>. QED BY <1>1, <1>2, <2>3
<1>. QED BY <1>1, <1>3, <1>4, ArmRead, ArmWarm

LEMMA MessageKeeps ==
  ASSUME WInv, NEW f \in Ptr, NEW p \in Payloads,
         MessageField(f, p), Costs(SlotAllocs(ptr[f], p))
  PROVE  Read' /\ Warm'
<1>1. Entry(f, p) /\ <<f, p>> \notin Dear /\ p.ok \in BOOLEAN
  BY DistinctFields, PayloadAssumption DEF Entry, Entries, Field, Occurrence, Dear, Payload
<1>2. /\ Settles(f, p, p.ok) /\ input' = Append(input, <<f, p>>) /\ before' = before
      /\ UNCHANGED <<opt, inl, live, spare>>
      /\ ptr' = [ptr EXCEPT ![f] = DecodeKid(InSlot(ptr[f]), p)]
      /\ allocs' = allocs + SlotAllocs(ptr[f], p)
  BY DEF MessageField, Costs, Settles
<1>3. Arm(f, p, p.ok)
  <2>1. ptr[f] \in Kid \cup {Nil} /\ ptr'[f] = DecodeKid(InSlot(ptr[f]), p)
    BY <1>2 DEF WInv, Slots, TypeOK
  <2>2. ptr'[f] # Nil
    BY <2>1, InSlotType, DecodeKidType, NilAssumption
  <2>3. p.ok => ptr'[f].opt = p.opt
    BY <2>1 DEF DecodeKid
  <2>4. \A g \in Ptr : g # f => ptr'[g] = ptr[g]
    BY <1>2 DEF WInv, Slots, TypeOK
  <2>. QED BY <1>2, <2>2, <2>3, <2>4, DistinctFields DEF Arm
<1>4. ASSUME Again', status' = "decoding"
      PROVE  allocs' = allocs + IF <<f, p>> \in Dear THEN 1 ELSE 0
  <2>1. /\ Filled(before) /\ Once(before) /\ Len(input) + 1 \in DOMAIN before
        /\ before[Len(input) + 1] = <<f, p>>
    BY <1>1, <1>3, <1>4, Expected
  <2>2. ptr[f] # Nil /\ ptr[f].opt = p.opt
    BY <2>1 DEF Filled
  <2>3. SlotAllocs(ptr[f], p) = 0
    BY <2>2 DEF SlotAllocs, KidAllocs
  <2>. QED BY <1>1, <1>2, <2>3
<1>. QED BY <1>1, <1>3, <1>4, ArmRead, ArmWarm

LEMMA InlineKeeps ==
  ASSUME WInv, NEW f \in Inl, NEW p \in Payloads,
         InlineField(f, p), Costs(KidAllocs(inl[f], p))
  PROVE  Read' /\ Warm'
<1>1. /\ Entry(f, p) /\ p.ok \in BOOLEAN
      /\ <<f, p>> \in Dear <=> p.opt # Nil
  BY DistinctFields, PayloadAssumption DEF Entry, Entries, Field, Occurrence, Dear, Payload
<1>2. /\ Settles(f, p, p.ok) /\ input' = Append(input, <<f, p>>) /\ before' = before
      /\ UNCHANGED <<opt, ptr, live, spare>>
      /\ inl' = [inl EXCEPT ![f] = DecodeKid(inl[f], p)]
      /\ allocs' = allocs + KidAllocs(inl[f], p)
  BY DEF InlineField, Costs, Settles
<1>3. Arm(f, p, p.ok)
  <2>1. \A g \in Inl \ {f} : inl'[g] = inl[g]
    BY <1>2 DEF WInv, Slots, TypeOK
  <2>. QED BY <1>2, <2>1, DistinctFields DEF Arm
<1>4. ASSUME Again', status' = "decoding"
      PROVE  allocs' = allocs + IF <<f, p>> \in Dear THEN 1 ELSE 0
  <2>1. f \notin seen
    BY <1>1, <1>3, <1>4, Expected
  <2>2. inl[f] = NewKid
    BY <1>2, <2>1 DEF Settles, WInv, Read
  <2>3. KidAllocs(inl[f], p) = IF <<f, p>> \in Dear THEN 1 ELSE 0
    BY <1>1, <2>2 DEF KidAllocs, NewKid
  <2>. QED BY <1>2, <2>3
<1>. QED BY <1>1, <1>3, <1>4, ArmRead, ArmWarm

LEMMA ElementKeeps ==
  ASSUME WInv, NEW f \in Elem, NEW p \in Payloads,
         ElementField(f, p), Costs(ElementAllocs(f, p))
  PROVE  Read' /\ Warm'
<1>1. /\ Entry(f, p) /\ p.ok \in BOOLEAN
      /\ <<f, p>> \in Dear <=> p.opt # Nil
  BY DistinctFields, PayloadAssumption DEF Entry, Entries, Field, Occurrence, Dear, Payload
<1>2. /\ Settles(f, p, p.ok) /\ input' = Append(input, <<f, p>>) /\ before' = before
      /\ UNCHANGED <<opt, ptr, inl>>
      /\ ReuseSlot(f, p) \/ GrowSlice(f, p)
      /\ allocs' = allocs + ElementAllocs(f, p)
  BY DEF ElementField, Costs, Settles
<1>3. /\ live \in [Elem -> Seq(Kid)] /\ spare \in [Elem -> Seq(Kid \cup {Nil})]
      /\ live[f] \in Seq(Kid) /\ spare[f] \in Seq(Kid \cup {Nil})
  BY DEF WInv, Slots, TypeOK
<1>4. /\ \E k : live'[f] = Append(live[f], k)
      /\ spare[f] # <<>> => spare'[f] = Tail(spare[f])
      /\ \A g \in Elem \ {f} : live'[g] = live[g] /\ spare'[g] = spare[g]
  BY <1>2, <1>3 DEF ReuseSlot, GrowSlice
<1>5. Arm(f, p, p.ok)
  <2>1. Len(live'[f]) = Len(live[f]) + 1
    BY <1>3, <1>4
  <2>. QED BY <1>2, <1>4, <2>1, DistinctFields DEF Arm
<1>6. ASSUME Again', status' = "decoding"
      PROVE  allocs' = allocs + IF <<f, p>> \in Dear THEN 1 ELSE 0
  <2>1. Stocked(f) /\ Tally(before, Of(f)) > Len(live[f]) /\ before \in Seq(Entries)
    BY <1>1, <1>5, <1>6, Expected
  <2>2. Tally(before, Of(f)) \in Nat /\ Len(live[f]) \in Nat /\ Len(spare[f]) \in Nat
    BY <1>3, <2>1, TallyIsNat, LenProperties
  <2>3. 1 \in 1 .. ToCome(f) /\ ToCome(f) <= Len(spare[f])
    BY <2>1, <2>2 DEF Stocked, ToCome
  <2>4. spare[f] # <<>> /\ Head(spare[f]) = NewKid
    <3>1. spare[f][1] = NewKid
      BY <2>1, <2>3 DEF Stocked
    <3>2. spare[f] # <<>>
      BY <2>2, <2>3 DEF ToCome
    <3>. QED BY <1>3, <3>1, <3>2, HeadTailProperties
  <2>5. NewKid # Nil
    BY NewKidType, NilAssumption
  <2>6. ElementAllocs(f, p) = IF p.opt # Nil THEN 1 ELSE 0
    BY <2>4, <2>5 DEF ElementAllocs, SlotAllocs, KidAllocs, NewKid
  <2>. QED BY <1>1, <1>2, <2>6
<1>. QED BY <1>1, <1>5, <1>6, ArmRead, ArmWarm

-----------------------------------------------------------------------------
(* The calls around the arms.                                              *)
LEMMA TallyOfNone ==
  ASSUME NEW P
  PROVE  Tally(<<>>, P) = 0
<1>1. {j \in DOMAIN <<>> : <<>>[j] \in P} = {}
  OBVIOUS
<1>. QED BY <1>1, FS_EmptySet DEF Tally

(* After a rewind, the elements that there were are blank slots in front.  *)
LEMMA RewoundFront ==
  ASSUME Slots, NEW f \in Elem, NEW i \in 1 .. Len(live[f])
  PROVE  Rewound(f)[i] = NewKid /\ Len(live[f]) <= Len(Rewound(f)) /\ Rewound(f) # <<>>
<1>. DEFINE front == [j \in DOMAIN live[f] |-> ResetKid(live[f][j])]
<1>1. /\ live[f] \in Seq(Kid) /\ spare[f] \in Seq(Kid \cup {Nil})
      /\ Len(live[f]) \in Nat /\ DOMAIN live[f] = 1 .. Len(live[f]) /\ Len(spare[f]) \in Nat
  BY LenProperties DEF Slots, TypeOK
<1>2. \A j \in DOMAIN live[f] : front[j] = NewKid
  BY <1>1, ResetKidIsNew, ElementOfSeq
<1>3. front \in Seq(Kid) /\ Len(front) = Len(live[f])
  <2>1. front \in [1 .. Len(live[f]) -> Kid]
    BY <1>1, <1>2, NewKidType
  <2>2. DOMAIN front = 1 .. Len(live[f])
    BY <1>1
  <2>. HIDE DEF front
  <2>. QED BY <1>1, <2>1, <2>2
<1>. HIDE DEF front
<1>4. Rewound(f)[i] = front[i]
  <2>1. Rewound(f) = front \o spare[f]
    BY DEF Rewound, front
  <2>2. front \in Seq(Kid \cup {Nil})
    BY <1>3
  <2>. QED BY <1>1, <1>3, <2>1, <2>2, ConcatProperties
<1>5. Len(Rewound(f)) = Len(live[f]) + Len(spare[f])
  BY RewoundType DEF Slots
<1>. DEFINE r == Rewound(f)
<1>6. Len(live[f]) <= Len(r) /\ Len(r) # 0
  <2>. DEFINE a == Len(live[f])
              b == Len(spare[f])
  <2>1. a \in Nat /\ b \in Nat /\ i \in 1 .. a /\ Len(r) = a + b
    BY <1>1, <1>5
  <2>. HIDE DEF a, b, r
  <2>2. a <= a + b /\ a + b # 0
    BY <2>1
  <2>. QED BY <2>1, <2>2 DEF a
<1>. HIDE DEF r
<1>7. r # <<>>
  BY <1>6
<1>8. front[i] = NewKid
  BY <1>1, <1>2
<1>. QED BY <1>4, <1>6, <1>7, <1>8 DEF r

LEMMA WarmInitHolds == WarmInit => WInv
<1>. SUFFICES ASSUME WarmInit PROVE WInv
  OBVIOUS
<1>1. Slots
  BY InitSlots DEF WarmInit
<1>2. Read
  BY DEF WarmInit, Init, Read
<1>3. Warm
  BY DEF WarmInit, Warm, Again
<1>. QED BY <1>1, <1>2, <1>3 DEF WInv

LEMMA BeginKeeps ==
  ASSUME WInv, Poolable \cap Wide = {}, WarmBegin
  PROVE  Read' /\ Warm'
<1>1. /\ status' = "decoding" /\ seen' = {} /\ input' = <<>> /\ allocs' = 0
      /\ before' = IF status = "ok" THEN input ELSE Nil
      /\ live' = [f \in Elem |-> <<>>] /\ ResetByValue
  BY DEF WarmBegin, Begin, ResetByValue
<1>2. Read'
  <2>1. input' \in Seq(Entries) /\ before' \in Seq(Entries) \cup {Nil}
    BY <1>1 DEF WInv, Read
  <2>2. DOMAIN input' = {}
    BY <1>1
  <2>3. \A f \in Elem : Len(live'[f]) = Tally(input', Of(f))
    BY <1>1, TallyOfNone
  <2>4. \A f \in Inl : inl'[f] = NewKid
    BY <1>1, ResetByValueType DEF WInv, Slots
  <2>. QED BY <1>1, <2>1, <2>2, <2>3, <2>4 DEF Read, Filled
<1>3. ASSUME Again'
      PROVE  /\ allocs' = Tally(input', Dear)
             /\ Filled(before)' /\ \A f \in Elem : Stocked(f)'
  <2>1. before' = input /\ status = "ok" /\ Once(input)
    BY <1>1, <1>3 DEF Again, Once
  <2>2. /\ Filled(input) /\ input \in Seq(Entries)
        /\ \A f \in Elem : Len(live[f]) = Tally(input, Of(f))
    BY <2>1 DEF WInv, Read
  <2>3. allocs' = Tally(input', Dear)
    BY <1>1, TallyOfNone
  <2>4. /\ \A f \in Opt : opt'[f] = opt[f]
        /\ \A f \in Ptr : ptr'[f] = ptr[f]
    BY DEF WarmBegin, Begin, PoolingEnabled, Poolable
  <2>5. Filled(before)'
    <3>. SUFFICES ASSUME NEW j \in DOMAIN input
                 PROVE  /\ input[j][1] \in Opt => opt'[input[j][1]] # Nil
                        /\ input[j][1] \in Ptr => /\ ptr'[input[j][1]] # Nil
                                                  /\ ptr'[input[j][1]].opt = input[j][2].opt
      BY <2>1 DEF Filled, Once
    <3>. QED BY <2>1, <2>2, <2>4 DEF Filled
  <2>6. ASSUME NEW f \in Elem
        PROVE  Stocked(f)'
    <3>1. Len(live[f]) \in Nat
      BY LenProperties DEF WInv, Slots, TypeOK
    <3>2. ToCome(f)' = Len(live[f])
      <4>1. live'[f] = <<>>
        BY <1>1
      <4>2. Tally(before', Of(f)) = Len(live[f])
        BY <2>1, <2>2
      <4>3. Tally(before, Of(f))' = Tally(before', Of(f))
        BY DEF Tally, Of
      <4>. QED BY <3>1, <4>1, <4>2, <4>3 DEF ToCome
    <3>3. PICK z \in 0 .. MaxSlack : spare'[f] = Presized(f, z)
      BY DEF WarmBegin, Begin
    <3>4. CASE Len(live[f]) = 0
      <4>1. Presized(f, z) \in Seq(Kid \cup {Nil})
        BY PresizedType DEF WInv
      <4>2. Len(spare'[f]) >= 0
        BY <3>3, <4>1, LenProperties
      <4>. QED BY <3>2, <3>4, <4>2 DEF Stocked
    <3>5. CASE Len(live[f]) > 0
      <4>1. \A i \in 1 .. Len(live[f]) :
              /\ Rewound(f)[i] = NewKid
              /\ Len(live[f]) <= Len(Rewound(f)) /\ Rewound(f) # <<>>
        BY RewoundFront DEF WInv
      <4>2. 1 \in 1 .. Len(live[f])
        BY <3>1, <3>5
      <4>3. spare'[f] = Rewound(f)
        BY <3>3, <4>1, <4>2 DEF Presized
      <4>. QED BY <3>2, <4>1, <4>2, <4>3 DEF Stocked
    <3>. QED BY <3>1, <3>4, <3>5
  <2>. QED BY <2>3, <2>5, <2>6
<1>4. Warm'
  BY <1>3 DEF Warm
<1>. QED BY <1>2, <1>4

LEMMA FinishKeeps ==
  ASSUME WInv, Finish, UNCHANGED <<allocs, input, before>>
  PROVE  Read' /\ Warm'
<1>1. /\ status = "decoding" /\ status' = "ok" /\ UNCHANGED <<live, seen>>
      /\ \A f \in Opt \cap seen : opt'[f] = opt[f]
      /\ \A f \in Ptr \cap seen : ptr'[f] = ptr[f]
  BY DEF Finish
<1>2. /\ input \in Seq(Entries) /\ before \in Seq(Entries) \cup {Nil}
      /\ seen = {input[j][1] : j \in DOMAIN input}
      /\ \A f \in Elem : Len(live[f]) = Tally(input, Of(f))
      /\ Filled(input)
  BY <1>1 DEF WInv, Read
<1>3. Filled(input)'
  <2>1. \A j \in DOMAIN input : input[j][1] \in seen
    BY <1>2
  <2>. QED BY <1>1, <1>2, <2>1 DEF Filled, Once
<1>4. Read'
  BY <1>1, <1>2, <1>3 DEF Read, Tally, Of
<1>5. Again' => Again
  BY <1>1 DEF Again, Once, Within
<1>6. Warm'
  BY <1>1, <1>5 DEF WInv, Warm, Tally, Dear
<1>. QED BY <1>4, <1>6

LEMMA QuietKeeps ==
  ASSUME WInv, UnknownField \/ Malformed \/ ResetCodec \/ UNCHANGED vars,
         UNCHANGED <<allocs, input, before>>
  PROVE  Read' /\ Warm'
<1>1. input \in Seq(Entries) /\ before \in Seq(Entries) \cup {Nil}
  BY DEF WInv, Read
<1>2. CASE status' \in {"failed", "reset"}
  BY <1>1, <1>2 DEF Read, Warm, Again
<1>3. CASE UNCHANGED <<status, fields, seen>>
  <2>1. /\ status' = status /\ seen' = seen /\ opt' = opt /\ ptr' = ptr /\ inl' = inl
        /\ live' = live /\ spare' = spare
    BY <1>3 DEF fields
  <2>2. Read'
    BY <2>1 DEF WInv, Read, Filled, Once, Tally, Of
  <2>3. Again' => Again
    BY <2>1 DEF Again, Once, Within
  <2>4. Warm'
    BY <2>1, <2>3 DEF WInv, Warm, Tally, Dear, Filled, Once, Stocked, ToCome, Of
  <2>. QED BY <2>2, <2>4
<1>. QED BY <1>2, <1>3 DEF UnknownField, Malformed, ResetCodec, vars

-----------------------------------------------------------------------------
LEMMA WarmStep == [WarmNext]_warmVars => [Next]_vars
<1>1. WarmNext => Next
  BY DEF WarmNext, WarmBegin, Next
<1>. QED BY <1>1 DEF warmVars, vars

LEMMA WarmNextKeeps ==
  ASSUME WInv, Poolable \cap Wide = {}, [WarmNext]_warmVars
  PROVE  WInv'
<1>1. Slots'
  BY WarmStep, NextSlots DEF WInv
<1>. SUFFICES Read' /\ Warm'
  BY <1>1 DEF WInv
<1>2. CASE WarmBegin
  BY <1>2, BeginKeeps
<1>3. CASE Finish /\ UNCHANGED <<allocs, input, before>>
  BY <1>3, FinishKeeps
<1>4. CASE /\ UnknownField \/ Malformed \/ ResetCodec
           /\ UNCHANGED <<allocs, input, before>>
  BY <1>4, QuietKeeps
<1>5. CASE UNCHANGED warmVars
  BY <1>5, QuietKeeps DEF warmVars
<1>6. CASE \E f \in Plain, v \in Val : PlainField(f, v) /\ Costs(0)
  BY <1>6, PlainKeeps
<1>7. CASE \E f \in Opt, v \in Val : OptionalField(f, v) /\ Costs(OptionalAllocs(f))
  BY <1>7, OptionalKeeps
<1>8. CASE \E f \in Ptr, p \in Payloads : MessageField(f, p) /\ Costs(SlotAllocs(ptr[f], p))
  BY <1>8, MessageKeeps
<1>9. CASE \E f \in Inl, p \in Payloads : InlineField(f, p) /\ Costs(KidAllocs(inl[f], p))
  BY <1>9, InlineKeeps
<1>10. CASE \E f \in Elem, p \in Payloads : ElementField(f, p) /\ Costs(ElementAllocs(f, p))
  BY <1>10, ElementKeeps
<1>. QED BY <1>2, <1>3, <1>4, <1>5, <1>6, <1>7, <1>8, <1>9, <1>10 DEF WarmNext

LEMMA WInvCounts == WInv => WarmDecodeAllocatesUnpooled
<1>. SUFFICES ASSUME WInv, status = "ok", input = before, NoDuplicates
             PROVE  allocs = Cardinality(Unpooled)
  BY DEF WarmDecodeAllocatesUnpooled
<1>1. input \in Seq(Entries)
  BY DEF WInv, Read
<1>2. before # Nil
  BY <1>1, InputAssumption DEF Entries
<1>3. Once(before) /\ Within(input, before)
  <2>1. Len(input) \in Nat
    BY <1>1, LenProperties
  <2>. QED BY <2>1 DEF NoDuplicates, Once, Within
<1>4. allocs = Tally(input, Dear)
  BY <1>2, <1>3 DEF WInv, Warm, Again
<1>5. ASSUME NEW r \in Entries
      PROVE  r[1] \in Inl \cup Elem /\ r[2].opt # Nil <=> r \in Dear
  BY DistinctFields DEF Entries, Occurrence, Dear
<1>6. \A j \in DOMAIN input : input[j] \in Entries
  BY <1>1, ElementOfSeq
<1>7. Unpooled = {j \in DOMAIN input : input[j] \in Dear}
  BY <1>5, <1>6 DEF Unpooled
<1>. QED BY <1>4, <1>7 DEF Tally

(* The second of two decodes of one input, with no call in between, makes  *)
(* an object for each optional set in an element or in a message held by   *)
(* value, and nothing else, for every message type that is pooled or has   *)
(* nothing to pool (codec.md REQ-085 to 088).                              *)
THEOREM WarmDecodesReuse ==
  ASSUME Poolable \cap Wide = {}
  PROVE  WarmSpec => []WarmDecodeAllocatesUnpooled
<1>1. WInv /\ [WarmNext]_warmVars => WInv'
  BY WarmNextKeeps
<1>. QED BY <1>1, WarmInitHolds, WInvCounts, PTL DEF WarmSpec

(* Counting changes nothing of what the receiver does, so that all that is *)
(* proved of Receiver holds of it here.                                    *)
LEMMA WarmIsReceiver == WarmSpec => Spec
<1>1. WarmInit => Init
  BY DEF WarmInit
<1>. QED BY <1>1, WarmStep, PTL DEF WarmSpec, Spec

=============================================================================
