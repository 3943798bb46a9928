----------------------------- MODULE FreshDecode -----------------------------
(***************************************************************************)
(* What the codec interface promises of one receiver, whatever the         *)
(* receiver went through before: UnmarshalCodec reads the fields of the    *)
(* wire into an empty message, none left out, ResetCodec empties it, and a *)
(* decode that returns an error leaves any content behind.  The state is   *)
(* the message as MarshalCodec would write it, with no heap slots, spare   *)
(* capacity or bitmap, and how far the input has been read.  Singular      *)
(* fields take the last occurrence, repeated fields all of them in order,  *)
(* and a oneof holds the branch that occurred last.                        *)
(***************************************************************************)
EXTENDS Nested, Naturals, Sequences

CONSTANTS
  Plain,   (* Scalar, string, bytes and well-known-type fields, by value.  *)
  Rep,     (* Repeated scalar fields.                                      *)
  Maps,    (* Map fields.                                                  *)
  Keys,    (* The keys of the map entries.                                 *)
  Opt,     (* proto3 optional scalars, held as *T.                         *)
  Ptr,     (* Singular messages held as *T.                                *)
  Inl,     (* Singular messages held by value.                             *)
  Elem,    (* Repeated messages.                                           *)
  Branch,  (* The fields that are branches of the message's oneof.         *)
  None     (* The zero discriminator.                                      *)

VARIABLES
  status,  (* "new", "decoding", "ok", "failed" or "reset".                *)
  plain, rep, maps, opt, msg, inl, elems,
  kind,    (* The branch that is set, or None.                             *)
  fed,     (* How many field occurrences the decode has read ...           *)
  last     (* ... and the last of them, or <<>> for an unknown field.      *)

content == <<plain, rep, maps, opt, msg, inl, elems, kind>>
vars    == <<status, content, fed, last>>

Empty ==
  /\ plain = [f \in Plain |-> Zero]
  /\ rep   = [f \in Rep |-> <<>>]
  /\ maps  = [f \in Maps |-> [k \in Keys |-> Nil]]
  /\ opt   = [f \in Opt |-> Nil]
  /\ msg   = [f \in Ptr |-> NoBytes]
  /\ inl   = [f \in Inl |-> NoBytes]
  /\ elems = [f \in Elem |-> <<>>]
  /\ kind  = None

AnyContent ==
  /\ plain \in [Plain -> Val]
  /\ rep   \in [Rep -> Seq(Val)]
  /\ maps  \in [Maps -> [Keys -> Val \cup {Nil}]]
  /\ opt   \in [Opt -> Val \cup {Nil}]
  /\ msg   \in [Ptr -> OnWire]
  /\ inl   \in [Inl -> OnWire]
  /\ elems \in [Elem -> Seq(OnWire)]
  /\ kind  \in Branch \cup {None}

NothingRead == fed = 0 /\ last = <<>>

Init == status = "new" /\ Empty /\ NothingRead

Start ==
  /\ status # "decoding"
  /\ status' = "decoding"
  /\ Empty' /\ NothingRead'

(* Reading a branch of the oneof empties the other branches.               *)
Ousted(f, g)    == f \in Branch /\ g \in Branch
PlainBefore(f)  == [g \in Plain |-> IF Ousted(f, g) THEN Zero ELSE plain[g]]
MsgBefore(f)    == [g \in Ptr |-> IF Ousted(f, g) THEN NoBytes ELSE msg[g]]
InlBefore(f)    == [g \in Inl |-> IF Ousted(f, g) THEN NoBytes ELSE inl[g]]
Takes(f, x)     == /\ status = "decoding"
                   /\ kind' = IF f \in Branch THEN f ELSE kind
                   /\ fed' = fed + 1 /\ last' = <<f, x>>
                   /\ UNCHANGED status

TakePlain(f, v) ==
  /\ Takes(f, v)
  /\ plain' = [PlainBefore(f) EXCEPT ![f] = v]
  /\ msg' = MsgBefore(f) /\ inl' = InlBefore(f)
  /\ UNCHANGED <<rep, maps, opt, elems>>

TakeRepeated(f, v) ==
  /\ Takes(f, v)
  /\ rep' = [rep EXCEPT ![f] = Append(@, v)]
  /\ UNCHANGED <<plain, maps, opt, msg, inl, elems>>

TakeEntry(f, k, v) ==
  /\ Takes(f, <<k, v>>)
  /\ maps' = [maps EXCEPT ![f][k] = v]
  /\ UNCHANGED <<plain, rep, opt, msg, inl, elems>>

TakeOptional(f, v) ==
  /\ Takes(f, v)
  /\ opt' = [opt EXCEPT ![f] = v]
  /\ UNCHANGED <<plain, rep, maps, msg, inl, elems>>

TakeMessage(f, p) ==
  /\ Takes(f, p)
  /\ msg' = [MsgBefore(f) EXCEPT ![f] = Meaning(p)]
  /\ plain' = PlainBefore(f) /\ inl' = InlBefore(f)
  /\ UNCHANGED <<rep, maps, opt, elems>>

TakeInline(f, p) ==
  /\ Takes(f, p)
  /\ inl' = [InlBefore(f) EXCEPT ![f] = Meaning(p)]
  /\ plain' = PlainBefore(f) /\ msg' = MsgBefore(f)
  /\ UNCHANGED <<rep, maps, opt, elems>>

TakeElement(f, p) ==
  /\ Takes(f, p)
  /\ elems' = [elems EXCEPT ![f] = Append(@, Meaning(p))]
  /\ UNCHANGED <<plain, rep, maps, opt, msg, inl>>

PassUnknown ==
  /\ status = "decoding"
  /\ fed' = fed + 1 /\ last' = <<>>
  /\ UNCHANGED <<status, content>>

Finish ==
  /\ status = "decoding"
  /\ status' = "ok"
  /\ UNCHANGED <<content, fed, last>>

Fail ==
  /\ status = "decoding"
  /\ status' = "failed"
  /\ AnyContent'
  /\ fed' \in {fed, fed + 1}
  /\ last' = last \/ \E f \in Ptr \cup Inl \cup Elem, p \in Payloads : last' = <<f, p>>

Reset ==
  /\ status # "decoding"
  /\ status' = "reset"
  /\ Empty' /\ NothingRead'

Next ==
  \/ Start \/ PassUnknown \/ Finish \/ Fail \/ Reset
  \/ \E f \in Plain, v \in Val : TakePlain(f, v)
  \/ \E f \in Rep, v \in Val : TakeRepeated(f, v)
  \/ \E f \in Maps, k \in Keys, v \in Val : TakeEntry(f, k, v)
  \/ \E f \in Opt, v \in Val : TakeOptional(f, v)
  \/ \E f \in Ptr, p \in Payloads : TakeMessage(f, p)
  \/ \E f \in Inl, p \in Payloads : TakeInline(f, p)
  \/ \E f \in Elem, p \in Payloads : TakeElement(f, p)

Spec == Init /\ [][Next]_vars
=============================================================================
