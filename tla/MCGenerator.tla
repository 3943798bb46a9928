---------------------------- MODULE MCGenerator ----------------------------
(* Requests of one or two files: Main, which is generated, with a message  *)
(* of two fields, and a second message; and a file it may import.  Both    *)
(* have messages declared inside messages, annotated or not.               *)
EXTENDS Generator

Opts(num, wt, val) == <<[num |-> num, wt |-> wt, val |-> val]>>
TypeT      == Opts("type", "bytes", "T")
Foreign    == Opts("foreign", "varint", 1)
Group      == Opts("foreign", "group", 0)
Cast(p, v) == Opts("cast", "bytes", [pkg |-> p, valid |-> v])
Size(n)    == Opts("fixed_len", "varint", n)
UseP(n)    == Foreign \o Opts("use_pointer", "varint", n)
Config(n, d) == Opts("oneof", "bytes", [name |-> n, disc |-> d, cast |-> "Kind"])

Field(num, kind, card, ref, raw) ==
  [num |-> num, kind |-> kind, card |-> card, ref |-> ref, raw |-> raw, key |-> "", value |-> ""]
Map(num, key, value, ref) ==
  [num |-> num, kind |-> "message", card |-> "map", ref |-> ref, raw |-> <<>>,
   key |-> key, value |-> value]

Refs(num, names) ==
  {Field(num, "message", card, r, raw) : card \in {"one", "list"}, r \in names,
                                         raw \in {<<>>, UseP(0), UseP(1)}}

Scalars(num) ==
  {Field(num, k, "one", "", <<>>) : k \in {"varint", "fixed64", "string"}}
    \cup {Field(num, "message", "one", t, <<>>) : t \in {Timestamp, Duration}}
    \cup {Field(num, "bytes", "one", "", r) : r \in {Size(0), Size(3), Cast("", FALSE)}}
    \cup {Field(num, "enum", "one", "", r) : r \in {Cast("dep", TRUE), Cast("other", TRUE), Size(3)}}
    \cup {Field(num, "message", "one", "B", Cast("", TRUE)),
          Map(num, "string", "varint", ""), Map(num, "varint", "message", "C")}

FirstFields ==
  {Field(1, "varint", "one", "", <<>>), Field(1, "message", "list", "B", <<>>)}
    \cup Scalars(1) \cup Refs(1, {"A", "C"})
    \cup {Field(1, "message", "one", r, <<>>) : r \in {"A.I", "A.J", "B.I"}}
SecondFields ==
  {Field(64, "message", "one", "A", UseP(0)), Field(64, "message", "list", "A", <<>>),
   Field(63, "message", "one", "B", <<>>), Field(2, "message", "one", "C", <<>>)}

(* Field 1 in a oneof with its (codec.oneof), or two, or one that is wrong,*)
(* or none; or optional, in the oneof protoc makes up for it.              *)
Real1 == [name |-> "kind", synthetic |-> FALSE, branches |-> {1}]
Made1 == [name |-> "_f", synthetic |-> TRUE, branches |-> {1}]

Shapes ==
  {[oneofs |-> {}, raw |-> TypeT], [oneofs |-> {}, raw |-> Group \o TypeT],
   [oneofs |-> {Made1}, raw |-> TypeT], [oneofs |-> {Real1}, raw |-> TypeT],
   [oneofs |-> {Real1}, raw |-> TypeT \o Config("kind", "Kind")],
   [oneofs |-> {Real1}, raw |-> TypeT \o Config("kind", "")],
   [oneofs |-> {Real1}, raw |-> TypeT \o Config("kind", "Kind") \o Config("kind", "K2")]}

Fits(shape, x) ==
  /\ shape.oneofs # {} => x.card = "one"
  /\ Made1 \in shape.oneofs => x.raw = <<>>

Mains == {[name |-> "A", raw |-> s.raw, oneofs |-> s.oneofs, fields |-> <<x, y>>] :
            <<s, x, y>> \in {t \in Shapes \X FirstFields \X SecondFields : Fits(t[1], t[2])}}
Other(raw, x) == [name |-> "C", raw |-> raw, oneofs |-> {}, fields |-> <<x>>]
Others ==
  {Other(TypeT, Field(1, "string", "one", "", <<>>)),
   Other(Foreign, Field(1, "string", "one", "", <<>>)),
   Other(TypeT, Field(1, "message", "one", "A", UseP(0)))}

Import(raw, x) == [name |-> "B", raw |-> raw, oneofs |-> {}, fields |-> <<x>>]
Imported ==
  {Import(TypeT, Field(1, "string", "one", "", <<>>)),
   Import(<<>>, Field(1, "string", "one", "", <<>>)),
   Import(TypeT, Field(1, "bytes", "one", "", Size(0)))}

Inside(name, raw) == [name |-> name, raw |-> raw]

MCRequests ==
  {<<[name |-> "dep.proto", generate |-> g, alias |-> "dep", deps |-> {},
      msgs |-> <<b>>, inner |-> {Inside("B.I", TypeT)}],
     [name |-> "main.proto", generate |-> TRUE, alias |-> "main", deps |-> {"dep.proto"},
      msgs |-> <<a, c>>, inner |-> {Inside("A.I", TypeT), Inside("A.J", Foreign)}]>> :
     g \in BOOLEAN, a \in Mains, b \in Imported, c \in Others}
=============================================================================
