----------------------------- MODULE Generator -----------------------------
(***************************************************************************)
(* protoc-gen-codec-go over one plugin request: GenerateAll visits the     *)
(* files in order, GenerateFile analyses the annotated messages of a file, *)
(* field by field, and only when all of them are accepted emits the Go     *)
(* file.  An option is a record of the raw unknown bytes of an Options     *)
(* message; a Go file is, per message, the decisions its methods embody.   *)
(***************************************************************************)
EXTENDS Naturals, Sequences, FiniteSets

CONSTANTS
  Requests,             (* The requests: each a sequence of files, with the*)
                        (* messages at top level (msgs), and, by name and  *)
                        (* options, those declared inside others (inner).  *)
  Timestamp, Duration,  (* The names of the two well-known types.          *)
  None                  (* The oneof of a field that is in none.           *)

(* What protoc has checked: an optional or a branch of a oneof is neither  *)
(* repeated nor a map.                                                     *)
ASSUME RequestAssumption ==
  \A r \in Requests :
    /\ r \in Seq({r[i] : i \in DOMAIN r})
    /\ \A i \in DOMAIN r : r[i].msgs \in Seq({r[i].msgs[j] : j \in DOMAIN r[i].msgs})
    /\ \A i \in DOMAIN r : \A j \in DOMAIN r[i].msgs :
         LET m == r[i].msgs[j]
         IN  /\ m.fields \in Seq({m.fields[k] : k \in DOMAIN m.fields})
             /\ \A k \in DOMAIN m.fields : \A o \in m.oneofs :
                  m.fields[k].num \in o.branches => m.fields[k].card = "one"

(* ... and that names and numbers are unique where they must be.           *)
ASSUME NamesAssumption ==
  \A r \in Requests :
    /\ \A i, k \in DOMAIN r : \A j \in DOMAIN r[i].msgs, l \in DOMAIN r[k].msgs :
         r[i].msgs[j].name = r[k].msgs[l].name => i = k /\ j = l
    /\ \A i \in DOMAIN r : \A j \in DOMAIN r[i].msgs :
         LET m == r[i].msgs[j]
         IN  /\ \A k, l \in DOMAIN m.fields : m.fields[k].num = m.fields[l].num => k = l
             /\ \A o, p \in m.oneofs :
                  o = p \/ (o.name # p.name /\ o.branches \cap p.branches = {})
             /\ \A o \in m.oneofs : o.name # None /\ o.synthetic \in BOOLEAN

VARIABLES
  request,  (* plugin.Files.                                               *)
  file,     (* The file GenerateAll is at ...                              *)
  msg,      (* ... the message of it that GenerateFile is at ...           *)
  at,       (* ... and the field AnalyzeMessage is at; 0 before the first. *)
  fields,   (* The FieldInfos of the message so far.                       *)
  infos,    (* The MessageInfos of the file so far.                        *)
  outcome,  (* What became of each file.                                   *)
  output,   (* The content of each generated file, <<>> for none.          *)
  firstErr  (* The file whose error GenerateAll returns, 0 for none.       *)

vars == <<request, file, msg, at, fields, infos, outcome, output, firstErr>>

File    == request[file]
Message == File.msgs[msg]

-----------------------------------------------------------------------------
(* The option of that number and wire type: a set of one value, or empty.  *)
(* The scan skips options of other numbers and types, and a group ends it. *)
Reaches(raw, i) == \A j \in 1 .. i - 1 : raw[j].wt # "group"

Option(raw, num, wt) ==
  LET hits == {i \in DOMAIN raw : raw[i].num = num /\ raw[i].wt = wt}
  IN  {raw[i].val : i \in {i \in hits : Reaches(raw, i) /\ \A j \in hits : i <= j}}

Type(m)       == Option(m.raw, "type", "bytes") \ {""}
GoCast(x)     == Option(x.raw, "cast", "bytes")
FixedLen(x)   == Option(x.raw, "fixed_len", "varint")
UsePointer(x) == {v # 0 : v \in Option(x.raw, "use_pointer", "varint")}

Configs(m) ==
  {i \in DOMAIN m.raw : m.raw[i].num = "oneof" /\ m.raw[i].wt = "bytes" /\ Reaches(m.raw, i)}

-----------------------------------------------------------------------------
(* The messages that GenerateFile comes to, and those it does not, which a *)
(* field may refer to all the same.                                        *)
TopLevel  == UNION {{request[i].msgs[j] : j \in DOMAIN request[i].msgs} : i \in DOMAIN request}
Inner     == UNION {request[i].inner : i \in DOMAIN request}
Annotated == {m.name : m \in {m \in TopLevel \cup Inner : Type(m) # {}}}
Real(o)   == ~o.synthetic

(* What AnalyzeMessage rejects before it looks at the fields.              *)
HeaderFails(m) ==
  \/ \E i \in Configs(m) : "" \in {m.raw[i].val.name, m.raw[i].val.disc, m.raw[i].val.cast}
  \/ \E i, j \in Configs(m) : i # j /\ m.raw[i].val.name = m.raw[j].val.name
  \/ \E o \in m.oneofs : Real(o) /\ \A i \in Configs(m) : m.raw[i].val.name # o.name

WellKnown(x) == x.kind = "message" /\ x.card # "map" /\ x.ref \in {Timestamp, Duration}
IsMessage(x) == x.kind = "message" /\ x.card # "map" /\ x.ref \notin {Timestamp, Duration}

(* Mutant: self-references are not looked for.                             *)
NeverSelfRef(x, m) == FALSE

SelfRef(x, m) == IsMessage(x) /\ x.ref = m.name

(* resolveCast: a cast to pkg.T needs an import whose package is pkg.      *)
Resolves(c, f) ==
  c.pkg # "" => \E i \in DOMAIN request : request[i].name \in f.deps /\ request[i].alias = c.pkg

(* Mutant: messages without (codec.type) may be referred to.               *)
FailsLenient(x, m, f) ==
  \/ SelfRef(x, m) /\ FALSE \in UsePointer(x)
  \/ \E n \in FixedLen(x) : n = 0 \/ x.kind # "bytes"
  \/ \E c \in GoCast(x) : ~c.valid \/ x.kind = "message" \/ ~Resolves(c, f)

(* What analyzeField rejects.  A map is of message kind; its value type is *)
(* looked at as a field of its own, which has no options.                  *)
FieldFails(x, m, f) ==
  \/ IsMessage(x) /\ x.ref \notin Annotated
  \/ x.card = "map" /\ x.value = "message" /\ x.ref \notin Annotated \cup {Timestamp, Duration}
  \/ SelfRef(x, m) /\ FALSE \in UsePointer(x)
  \/ \E n \in FixedLen(x) : n = 0 \/ x.kind # "bytes"
  \/ \E c \in GoCast(x) : ~c.valid \/ x.kind = "message" \/ ~Resolves(c, f)

Pointer(x, m) ==
  /\ IsMessage(x)
  /\ \/ SelfRef(x, m)
     \/ IF UsePointer(x) = {} THEN x.card # "list" ELSE TRUE \in UsePointer(x)

InOneof(x, m, synthetic) == {o \in m.oneofs : o.synthetic = synthetic /\ x.num \in o.branches}

FieldInfo(x, m) ==
  [num      |-> x.num,
   repeated |-> x.card = "list",
   map      |-> x.card = "map",
   wkt      |-> WellKnown(x),
   message  |-> IsMessage(x),
   pointer  |-> Pointer(x, m),
   ref      |-> x.ref,
   text     |-> "string" \in {x.kind, x.key, x.value},
   optional |-> InOneof(x, m, TRUE) # {},
   oneof    |-> IF InOneof(x, m, FALSE) = {} THEN None
                ELSE (CHOOSE o \in InOneof(x, m, FALSE) : TRUE).name]

-----------------------------------------------------------------------------
(* The emitters, on the set s of a message's FieldInfos.                   *)
Numbers(s) == {x.num : x \in s}

(* Mutant: repeated []*T fields take part in pointer pooling.              *)
PoolableRepeated(x) ==
  \/ x.message /\ x.pointer
  \/ ~x.repeated /\ x.optional /\ ~x.message

Poolable(x) ==
  /\ ~x.repeated
  /\ (x.message /\ x.pointer) \/ (x.optional /\ ~x.message)

Pooling(s) ==
  LET pool == Numbers({x \in s : Poolable(x)})
  IN  pool # {} /\ \A n \in pool : n <= 63

(* Mutant: a message with no string of its own gets no slab.               *)
OwnSlab(s) == \E x \in s : x.text

NeedsSlab(s) == \E x \in s : x.text \/ x.message

(* Mutant: the loop of MarshalCodecInternal does not skip the branches.    *)
LoopOverAll(s) == Numbers(s)

Loop(s) == Numbers({x \in s : x.oneof = None})
Cases(m, s) == {<<o.name, n>> : o \in {o \in m.oneofs : Real(o)}, n \in Numbers(s)}
                 \cap UNION {{<<o.name, n>> : n \in o.branches} : o \in m.oneofs}

(* The case arm of a field: which emitter generateFieldUnmarshal picks.    *)
Arm(x) ==
  IF x.wkt THEN "wkt"
  ELSE IF x.map THEN "map"
  ELSE IF x.repeated THEN "repeated"
  ELSE IF x.message THEN "message"
  ELSE IF x.optional THEN "presence" ELSE "scalar"

(* The arms that set the field's bit of seenOptional.                      *)
Marks(x) == Arm(x) = "presence" \/ (Arm(x) = "message" /\ x.pointer)

GoFile(info) ==
  LET s == info.fields
  IN  [name     |-> info.msg.name,
       loop     |-> Loop(s),
       cases    |-> Cases(info.msg, s),
       kept     |-> IF Pooling(s) THEN Numbers({x \in s : Poolable(x)}) ELSE {},
       marked   |-> IF Pooling(s) THEN Numbers({x \in s : Marks(x)}) ELSE {},
       slab     |-> NeedsSlab(s),
       fields   |-> s]

-----------------------------------------------------------------------------
TypeOK ==
  /\ file \in 1 .. Len(request) + 1
  /\ file <= Len(request) => /\ msg \in 1 .. Len(File.msgs) + 1
                             /\ msg <= Len(File.msgs) => at \in 0 .. Len(Message.fields) + 1
  /\ Len(infos) < msg
  /\ outcome \in [DOMAIN request -> {"pending", "skipped", "empty", "emitted", "failed"}]
  /\ firstErr \in 0 .. Len(request)

Init ==
  /\ request \in Requests
  /\ file = 1 /\ msg = 1 /\ at = 0
  /\ fields = {} /\ infos = <<>>
  /\ outcome = [i \in DOMAIN request |-> "pending"]
  /\ output  = [i \in DOMAIN request |-> <<>>]
  /\ firstErr = 0

(* Mutant: the messages of a file that failed are still there for the next.*)
LeaveKeepsInfos(what) ==
  /\ outcome' = [outcome EXCEPT ![file] = what]
  /\ file' = file + 1
  /\ msg' = 1 /\ at' = 0 /\ fields' = {}
  /\ UNCHANGED <<request, infos>>

(* GenerateAll is done with the file.                                      *)
Leave(what) ==
  /\ outcome' = [outcome EXCEPT ![file] = what]
  /\ file' = file + 1
  /\ msg' = 1 /\ at' = 0 /\ fields' = {} /\ infos' = <<>>
  /\ UNCHANGED request

InFile    == file <= Len(request) /\ File.generate
InMessage == InFile /\ msg <= Len(File.msgs)

(* A file that is only imported.                                           *)
SkipFile ==
  /\ file <= Len(request) /\ ~File.generate
  /\ Leave("skipped")
  /\ UNCHANGED <<output, firstErr>>

SkipMessage ==
  /\ InMessage /\ at = 0 /\ Type(Message) = {}
  /\ msg' = msg + 1
  /\ UNCHANGED <<request, file, at, fields, infos, outcome, output, firstErr>>

AnalyzeMessage ==
  /\ InMessage /\ at = 0 /\ Type(Message) # {} /\ ~HeaderFails(Message)
  /\ at' = 1 /\ fields' = {}
  /\ UNCHANGED <<request, file, msg, infos, outcome, output, firstErr>>

AnalyzeField ==
  /\ InMessage /\ at \in DOMAIN Message.fields
  /\ ~FieldFails(Message.fields[at], Message, File)
  /\ at' = at + 1
  /\ fields' = fields \cup {FieldInfo(Message.fields[at], Message)}
  /\ UNCHANGED <<request, file, msg, infos, outcome, output, firstErr>>

EndMessage ==
  /\ InMessage /\ at = Len(Message.fields) + 1
  /\ infos' = Append(infos, [msg |-> Message, fields |-> fields])
  /\ msg' = msg + 1 /\ at' = 0
  /\ UNCHANGED <<request, file, fields, outcome, output, firstErr>>

Rejects ==
  \/ at = 0 /\ Type(Message) # {} /\ HeaderFails(Message)
  \/ at \in DOMAIN Message.fields /\ FieldFails(Message.fields[at], Message, File)

(* Mutants: the first error ends the loop over the files; an error ends the*)
(* message only.                                                           *)
FailAll ==
  /\ InMessage /\ Rejects
  /\ outcome' = [outcome EXCEPT ![file] = "failed"]
  /\ file' = Len(request) + 1
  /\ msg' = 1 /\ at' = 0 /\ fields' = {} /\ infos' = <<>>
  /\ firstErr' = IF firstErr = 0 THEN file ELSE firstErr
  /\ UNCHANGED <<request, output>>

FailMessage ==
  /\ InMessage /\ Rejects
  /\ msg' = msg + 1 /\ at' = 0 /\ fields' = {}
  /\ firstErr' = IF firstErr = 0 THEN file ELSE firstErr
  /\ UNCHANGED <<request, file, infos, outcome, output>>

(* One error ends the file; the other files are generated all the same.    *)
Fail ==
  /\ InMessage /\ Rejects
  /\ Leave("failed")
  /\ firstErr' = IF firstErr = 0 THEN file ELSE firstErr
  /\ UNCHANGED output

NothingToEmit ==
  /\ InFile /\ msg = Len(File.msgs) + 1 /\ infos = <<>>
  /\ Leave("empty")
  /\ UNCHANGED <<output, firstErr>>

EmitGoFile ==
  /\ InFile /\ msg = Len(File.msgs) + 1 /\ infos # <<>>
  /\ output' = [output EXCEPT ![file] = [i \in DOMAIN infos |-> GoFile(infos[i])]]
  /\ Leave("emitted")
  /\ UNCHANGED firstErr

Next ==
  \/ SkipFile \/ SkipMessage \/ AnalyzeMessage \/ AnalyzeField \/ EndMessage
  \/ Fail \/ NothingToEmit \/ EmitGoFile

Spec == Init /\ [][Next]_vars /\ WF_vars(Next)

(* protogen's answer to protoc: no file at all once an error was recorded. *)
Done     == file > Len(request)
Response == IF firstErr = 0 THEN {i \in DOMAIN output : output[i] # <<>>} ELSE {}

-----------------------------------------------------------------------------
Emitted == UNION {{output[i][j] : j \in DOMAIN output[i]} : i \in DOMAIN output}

(* GenerateAll comes to the end, and one file's error does not keep it     *)
(* from the others (plugin.go:31-43).                                      *)
EveryFileSettles == <>(\A i \in DOMAIN request : outcome[i] # "pending")

(* A message of f that analysis rejects.                                  *)
Bad(f, m) == Type(m) # {} /\ (HeaderFails(m) \/ \E i \in DOMAIN m.fields : FieldFails(m.fields[i], m, f))

(* The places of the annotated messages among the first n of f, in order,  *)
(* as the places of the elements of s.                                     *)
Picks(f, n, s) ==
  {p \in [DOMAIN s -> 1 .. n] :
     /\ \A j, k \in DOMAIN s : j < k => p[j] < p[k]
     /\ {p[j] : j \in DOMAIN s} = {j \in 1 .. n : Type(f.msgs[j]) # {}}}

(* A file is generated whole or not at all: with the methods of every      *)
(* annotated message at top level when it has none to reject, or no file.  *)
FilesAreWhole ==
  Done => \A i \in DOMAIN request :
    LET f == request[i]
    IN  /\ outcome[i] = "emitted" =>
             \E p \in Picks(f, Len(f.msgs), output[i]) :
               \A j \in DOMAIN output[i] : output[i][j].name = f.msgs[p[j]].name
        /\ outcome[i] = "failed" <=>
             f.generate /\ \E j \in DOMAIN f.msgs : Bad(f, f.msgs[j])
        /\ outcome[i] # "emitted" => output[i] = <<>>

(* The messages whose methods the answer calls, and whether these exist: in*)
(* the answer, or in a file that was left out of this request on purpose.  *)
Called ==
  {x.ref : x \in {x \in UNION {UNION {output[i][j].fields : j \in DOMAIN output[i]} : i \in Response} :
                    x.message}}

HasMethods(name) ==
  \E i \in DOMAIN request : \E j \in DOMAIN request[i].msgs :
    /\ request[i].msgs[j].name = name /\ Type(request[i].msgs[j]) # {}
    /\ request[i].generate =>
         i \in Response /\ \E k \in DOMAIN output[i] : output[i][k].name = name

(* "For each proto message annotated with codec.type, the generator emits" *)
(* its methods (go.md:9), so that those which the answer calls on another  *)
(* message are there.                                                      *)
CallsResolve == Done => \A name \in Called : HasMethods(name)

(* The only calls without a target are those on an annotated message that  *)
(* is declared inside another: however files fail, are left out or refer to*)
(* one another, a call on a message at top level has one.                  *)
DanglingCallsAreInner ==
  Done => \A name \in Called :
    HasMethods(name) \/ \E m \in Inner : m.name = name /\ Type(m) # {}

(* MarshalCodecInternal writes a field in one place: in its loop, or in the*)
(* switch of its oneof, and a proto3 optional is not taken for a oneof.    *)
WrittenOnce ==
  \A g \in Emitted : \A n \in Numbers(g.fields) :
    IF n \in g.loop THEN \A c \in g.cases : c[2] # n
    ELSE Cardinality({c \in g.cases : c[2] = n}) = 1

(* The three places that must agree for pooling to be sound: the fields the*)
(* prologue does not reset and the last pass sets to nil are those whose   *)
(* arm sets a bit of the uint64 seenOptional, and are pointers in Go.  An  *)
(* optional Timestamp is outside of this: it is a time.Time that the last  *)
(* pass sets to nil (gen_unmarshal.go:90 does not look at WellKnown).      *)
PooledIsMarked ==
  \A g \in Emitted :
    (\A x \in g.fields : ~(x.optional /\ x.wkt)) =>
      /\ g.kept = g.marked
      /\ \A n \in g.kept : n <= 63 /\ \E x \in g.fields : x.num = n /\ (x.pointer \/ x.optional)

(* A generated type is finite unless the schema asked for it not to be: a  *)
(* field of the message's own type is a pointer, and on a cycle of structs *)
(* held by value, of any length, each field says use_pointer = false       *)
(* (analysis.go:122-125).                                                  *)
ByValue(m, r) ==
  \E g \in Emitted : g.name = m /\ \E x \in g.fields :
    x.message /\ ~x.pointer /\ ~x.repeated /\ x.ref = r
Asked(m, r) ==
  \E s \in TopLevel : s.name = m /\ \E i \in DOMAIN s.fields :
    s.fields[i].ref = r /\ FALSE \in UsePointer(s.fields[i])

Holds(m) ==
  LET step(s)  == s \cup {h.name : h \in {h \in Emitted : \E a \in s : ByValue(a, h.name)}}
      within[n \in 0 .. Cardinality(TopLevel)] == IF n = 0 THEN {m} ELSE step(within[n - 1])
  IN  within[Cardinality(TopLevel)]

ValueCyclesAreAskedFor ==
  \A g \in Emitted :
    /\ \A x \in g.fields : x.message /\ x.ref = g.name => x.pointer
    /\ \A h \in Emitted :
         ByValue(g.name, h.name) /\ g.name \in Holds(h.name) => Asked(g.name, h.name)

(* Wherever a string is read, at whatever depth below the message that the *)
(* caller decodes, it is cut from a slab that was made (gen_unmarshal.go:  *)
(* 53-59): UnmarshalCodec passes "" only where no string can be below.     *)
Below(m) ==
  LET step(s) == s \cup {x.ref : x \in UNION {{y \in g.fields : y.message} : g \in {g \in Emitted : g.name \in s}}}
      reach[n \in 0 .. Cardinality(TopLevel)] == IF n = 0 THEN {m} ELSE step(reach[n - 1])
  IN  reach[Cardinality(TopLevel)]

StringsHaveSlab ==
  \A g \in Emitted :
    (\E h \in Emitted : h.name \in Below(g.name) /\ \E x \in h.fields : x.text) => g.slab
=============================================================================
