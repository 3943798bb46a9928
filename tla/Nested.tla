------------------------------- MODULE Nested -------------------------------
(***************************************************************************)
(* One nested message object, as the generated methods of its own type see *)
(* it when they run inside the methods of a parent.  The type has one      *)
(* field of each kind the parent can leave behind in it: a plain scalar    *)
(* (val), a proto3 optional held as *T (opt) and a oneof with one branch   *)
(* (arm) and its Go-only discriminator (kind).                             *)
(*                                                                         *)
(* The bytes of a nested field are abstracted to what its decode loop      *)
(* leaves: the last value of each field that occurs, Nil for a field that  *)
(* does not, and whether the loop ran to the end (ok) or returned an error *)
(* after those fields.                                                     *)
(***************************************************************************)

CONSTANTS
  Val,       (* The values of a scalar field.                              *)
  Zero,      (* The proto3 default, which is never put on the wire.        *)
  Nil,       (* The nil pointer; in a payload, a field that is not there.  *)
  Payloads   (* The nested bodies the environment sends.                   *)

Payload ==
  [val : Val \cup {Nil}, opt : Val \cup {Nil}, arm : Val \cup {Nil}, ok : BOOLEAN]

ASSUME ValAssumption     == Zero \in Val /\ Nil \notin Val
ASSUME PayloadAssumption == Payloads \subseteq Payload

Kid == [val : Val, opt : Val \cup {Nil}, arm : Val, kind : BOOLEAN]

ASSUME NilAssumption == Nil \notin Kid

(* new(T), or the zero value of an element appended to a []T.              *)
NewKid == [val |-> Zero, opt |-> Nil, arm |-> Zero, kind |-> FALSE]

(* Mutant: the nested ResetCodec forgets the discriminator.                *)
ResetKidKeepsKind(k) ==
  [k EXCEPT !.val = Zero, !.opt = Nil, !.arm = Zero]

(* ResetCodec of the nested type: fields and discriminator.                *)
ResetKid(k) ==
  [k EXCEPT !.val = Zero, !.opt = Nil, !.arm = Zero, !.kind = FALSE]

ValueOrZero(v) == IF v = Nil THEN Zero ELSE v

(* Mutant: no nil-out pass over the bitmap of the nested type.             *)
DecodeKidKeepsOpt(k, p) ==
  [val  |-> ValueOrZero(p.val),
   opt  |-> IF p.opt # Nil THEN p.opt ELSE k.opt,
   arm  |-> ValueOrZero(p.arm),
   kind |-> k.kind \/ p.arm # Nil]

(* UnmarshalCodecInternal of the nested type into the object k: the        *)
(* prologue zeroes val and arm, skips the pooled opt and does not touch    *)
(* the discriminator; the nil-out pass at the end is not reached on error. *)
DecodeKid(k, p) ==
  [val  |-> ValueOrZero(p.val),
   opt  |-> IF p.ok \/ p.opt # Nil THEN p.opt ELSE k.opt,
   arm  |-> ValueOrZero(p.arm),
   kind |-> k.kind \/ p.arm # Nil]

(* What MarshalCodecInternal writes for k: the branch only under its       *)
(* discriminator, and then even when it holds the default.                 *)
KidOnWire(k) ==
  [val |-> k.val, opt |-> k.opt, arm |-> IF k.kind THEN k.arm ELSE Nil]

OnWire == [val : Val, opt : Val \cup {Nil}, arm : Val \cup {Nil}]

(* The nested message that writes no byte.                                 *)
NoBytes == [val |-> Zero, opt |-> Nil, arm |-> Nil]

(* What the body p says to a reader that has no past.                      *)
Meaning(p) == [val |-> ValueOrZero(p.val), opt |-> p.opt, arm |-> p.arm]
=============================================================================
