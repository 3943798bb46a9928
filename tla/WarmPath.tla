------------------------------ MODULE WarmPath ------------------------------
(***************************************************************************)
(* The heap allocations of Receiver's decodes: new(T) for a *T or for the  *)
(* element of a []*T, the slot of a proto3 optional, here or in a nested   *)
(* message, and the arrays append makes.  The array the pre-scan makes for *)
(* a nil slice, and the string slab, are not counted.                      *)
(***************************************************************************)
EXTENDS Receiver, FiniteSets

VARIABLES
  allocs,  (* Allocations of the running decode, or of the last one.       *)
  input,   (* The field occurrences it has read, in order.                 *)
  before   (* The input of the call before it, or Nil when that was not a  *)
           (* decode that succeeded.                                       *)

(* The pointer Nil is no sequence.                                         *)
ASSUME InputAssumption == Nil \notin Seq(Occurrence)

warmVars == <<vars, allocs, input, before>>

KidAllocs(k, p)  == IF p.opt # Nil /\ k.opt = Nil THEN 1 ELSE 0
SlotAllocs(k, p) == IF k = Nil THEN 1 + KidAllocs(NewKid, p) ELSE KidAllocs(k, p)

OptionalAllocs(f) == IF PoolingEnabled /\ opt[f] # Nil THEN 0 ELSE 1

ElementAllocs(f, p) ==
  IF spare[f] # <<>>
  THEN SlotAllocs(Head(spare[f]), p)
  ELSE 1 + (IF f \in PointerElem THEN 1 ELSE 0) + KidAllocs(NewKid, p)

Costs(n) ==
  /\ allocs' = allocs + n
  /\ input'  = Append(input, last')
  /\ UNCHANGED before

WarmInit == Init /\ allocs = 0 /\ input = <<>> /\ before = Nil

WarmBegin ==
  /\ Begin
  /\ allocs' = 0
  /\ input'  = <<>>
  /\ before' = IF status = "ok" THEN input ELSE Nil

WarmNext ==
  \/ WarmBegin
  \/ /\ UnknownField \/ Malformed \/ Finish \/ ResetCodec
     /\ UNCHANGED <<allocs, input, before>>
  \/ \E f \in Plain, v \in Val : PlainField(f, v) /\ Costs(0)
  \/ \E f \in Opt, v \in Val :
       OptionalField(f, v) /\ Costs(OptionalAllocs(f))
  \/ \E f \in Ptr, p \in Payloads :
       MessageField(f, p) /\ Costs(SlotAllocs(ptr[f], p))
  \/ \E f \in Inl, p \in Payloads :
       InlineField(f, p) /\ Costs(KidAllocs(inl[f], p))
  \/ \E f \in Elem, p \in Payloads :
       ElementField(f, p) /\ Costs(ElementAllocs(f, p))

WarmSpec == WarmInit /\ [][WarmNext]_warmVars

(* A nested message that occurs twice in one input gives up, at the end of *)
(* the first, the optional slot that only the first had used.              *)
NoDuplicates ==
  \A i, j \in DOMAIN input :
    input[i][1] = input[j][1] /\ input[i][1] \in Ptr \cup Inl => i = j

(* The optionals that the decoded input sets in the elements of repeated   *)
(* messages, and in messages held by value.                                *)
Unpooled ==
  {i \in DOMAIN input : input[i][1] \in Inl \cup Elem /\ input[i][2].opt # Nil}

(* A receiver that decodes the same input twice in a row, with no call in  *)
(* between, has every slot it needs the second time (codec.md REQ-085 to   *)
(* 088, go.md:256-261), but for one object for each of these optionals,    *)
(* whose slots the reset of the prologue has given up.                     *)
WarmDecodeAllocatesUnpooled ==
  status = "ok" /\ input = before /\ NoDuplicates => allocs = Cardinality(Unpooled)
=============================================================================
