----------------------------- MODULE MCReceiver -----------------------------
(***************************************************************************)
(* Values for the constants of Receiver.  A configuration gives the field  *)
(* sets of one message type and picks one of the sets of nested bodies.    *)
(***************************************************************************)
EXTENDS Receiver

CONSTANT one   \* a scalar that is not the default

BothVal == {Zero, one}

(* Bodies of a nested type without a oneof: an empty one, one that sets    *)
(* everything, one that sets the optional to the default, and one that     *)
(* breaks off after its first field.                                       *)
PlainBodies ==
  {[val |-> Nil, opt |-> Nil,  arm |-> Nil, ok |-> TRUE],
   [val |-> one, opt |-> one,  arm |-> Nil, ok |-> TRUE],
   [val |-> Nil, opt |-> Zero, arm |-> Nil, ok |-> TRUE],
   [val |-> one, opt |-> Nil,  arm |-> Nil, ok |-> FALSE]}

(* Bodies of a nested type with a oneof: its branch set to the default, to *)
(* another value, not there at all, and there before an error.             *)
OneofBodies ==
  {[val |-> Nil, opt |-> Nil, arm |-> Zero, ok |-> TRUE],
   [val |-> Nil, opt |-> one, arm |-> one,  ok |-> TRUE],
   [val |-> one, opt |-> Nil, arm |-> Nil,  ok |-> TRUE],
   [val |-> Nil, opt |-> one, arm |-> one,  ok |-> FALSE]}

(* Bodies with an optional, without one, and with one before an error.     *)
WarmBodies ==
  {[val |-> Nil, opt |-> one, arm |-> Nil, ok |-> TRUE],
   [val |-> one, opt |-> Nil, arm |-> Nil, ok |-> TRUE],
   [val |-> Nil, opt |-> one, arm |-> Nil, ok |-> FALSE]}
=============================================================================
