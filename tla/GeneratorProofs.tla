-------------------------- MODULE GeneratorProofs --------------------------
(***************************************************************************)
(* What holds of every request: each file is generated whole or not at all *)
(* and a call on a message at top level has a target; of every Go file: a  *)
(* field is written in one place, the three places that pool pointers      *)
(* agree, a string has a slab, and the types are finite unless the schema  *)
(* asked otherwise.                                                        *)
(***************************************************************************)
EXTENDS Generator, FiniteSetTheorems, Induction

(* The FieldInfos of m, its MessageInfo, and all of these of r[i].         *)
InfoSet(m)    == {FieldInfo(m.fields[k], m) : k \in DOMAIN m.fields}
InfoOf(m)     == [msg |-> m, fields |-> InfoSet(m)]
InfosOf(r, i) == {InfoOf(r[i].msgs[j]) : j \in DOMAIN r[i].msgs}
GoFiles(r)    == UNION {{GoFile(info) : info \in InfosOf(r, i)} : i \in DOMAIN r}

(* The fields of the message it is at, up to the one it is at.             *)
MessageBegun ==
  /\ InMessage /\ Type(Message) # {} /\ ~HeaderFails(Message)
  /\ fields = {FieldInfo(Message.fields[k], Message) : k \in 1 .. at - 1}
  /\ \A k \in 1 .. at - 1 : ~FieldFails(Message.fields[k], Message, File)

(* The messages of the file it is at, up to the one it is at: none was to  *)
(* be rejected, and the annotated ones are gathered whole and in order.    *)
FileBegun ==
  /\ msg \in 1 .. Len(File.msgs) + 1
  /\ msg <= Len(File.msgs) => at \in 0 .. Len(Message.fields) + 1
  /\ at # 0 => MessageBegun
  /\ infos \in Seq(InfosOf(request, file)) /\ Len(infos) < msg
  /\ \A j \in 1 .. msg - 1 : ~Bad(File, File.msgs[j])
  /\ \E p \in Picks(File, msg - 1, infos) :
       \A j \in DOMAIN infos : infos[j] = InfoOf(File.msgs[p[j]])

(* What becomes of a file, and what is emitted for it.                     *)
Outcome(f) ==
  IF ~f.generate THEN "skipped"
  ELSE IF \E j \in DOMAIN f.msgs : Bad(f, f.msgs[j]) THEN "failed"
  ELSE IF \A j \in DOMAIN f.msgs : Type(f.msgs[j]) = {} THEN "empty"
  ELSE "emitted"

Settled(i) ==
  /\ outcome[i] = Outcome(request[i])
  /\ IF outcome[i] = "emitted"
     THEN \E p \in Picks(request[i], Len(request[i].msgs), output[i]) :
            \A j \in DOMAIN output[i] : output[i][j] = GoFile(InfoOf(request[i].msgs[p[j]]))
     ELSE output[i] = <<>>

IInv ==
  /\ request \in Requests
  /\ file \in 1 .. Len(request) + 1 /\ msg \in Nat /\ Len(infos) < msg
  /\ outcome \in [DOMAIN request -> {"pending", "skipped", "empty", "emitted", "failed"}]
  /\ output \in [DOMAIN request -> Seq(GoFiles(request))]
  /\ firstErr \in 0 .. Len(request)
  /\ file <= Len(request) => FileBegun
  /\ \A i \in DOMAIN request :
       IF i < file THEN Settled(i) ELSE outcome[i] = "pending" /\ output[i] = <<>>
  /\ firstErr = 0 => \A i \in DOMAIN request : outcome[i] # "failed"

-----------------------------------------------------------------------------
(* What is read from the request does not change while it does not.        *)
LEMMA SameRequest ==
  ASSUME request' = request, NEW x, NEW m, NEW f
  PROVE  /\ FieldFails(x, m, f)' <=> FieldFails(x, m, f)
         /\ Bad(f, m)' <=> Bad(f, m)
<1>1. Annotated' = Annotated
  BY DEF Annotated, TopLevel, Inner
<1>2. \A c, g : Resolves(c, g)' <=> Resolves(c, g)
  BY DEF Resolves
<1>3. \A y : FieldFails(y, m, f)' <=> FieldFails(y, m, f)
  BY <1>1, <1>2 DEF FieldFails
<1>. QED BY <1>3 DEF Bad

LEMMA SameSettled ==
  ASSUME request' = request, NEW i, outcome'[i] = outcome[i], output'[i] = output[i], Settled(i)
  PROVE  Settled(i)'
<1>1. Outcome(request[i])' = Outcome(request[i])
  BY SameRequest DEF Outcome
<1>. QED BY <1>1 DEF Settled

(* The sequences of a request.                                             *)
IsSeq(s) == Len(s) \in Nat /\ DOMAIN s = 1 .. Len(s)

LEMMA RequestShape ==
  ASSUME NEW r \in Requests
  PROVE  /\ IsSeq(r)
         /\ \A i \in DOMAIN r : /\ IsSeq(r[i].msgs)
                                /\ \A j \in DOMAIN r[i].msgs : IsSeq(r[i].msgs[j].fields)
<1>1. \A s, S : s \in Seq(S) => IsSeq(s)
  BY DEF IsSeq
<1>2. IsSeq(r)
  BY <1>1, RequestAssumption
<1>3. ASSUME NEW i \in DOMAIN r
      PROVE  IsSeq(r[i].msgs)
  BY <1>1, RequestAssumption
<1>4. ASSUME NEW i \in DOMAIN r, NEW j \in DOMAIN r[i].msgs
      PROVE  IsSeq(r[i].msgs[j].fields)
  BY <1>1, RequestAssumption
<1>. QED BY <1>2, <1>3, <1>4

LEMMA FileInRequest ==
  ASSUME IInv, file <= Len(request)
  PROVE  file \in DOMAIN request /\ FileBegun /\ IsSeq(request) /\ IsSeq(File.msgs)
<1>1. IsSeq(request) /\ file \in DOMAIN request
  BY RequestShape DEF IInv, IsSeq
<1>. QED BY <1>1, RequestShape DEF IInv, File

LEMMA MessageInFile ==
  ASSUME IInv, InMessage
  PROVE  msg \in DOMAIN File.msgs /\ IsSeq(Message.fields)
<1>1. file \in DOMAIN request /\ msg \in DOMAIN File.msgs
  BY FileInRequest DEF FileBegun, InMessage, InFile, IsSeq
<1>. QED BY <1>1, RequestShape DEF IInv, Message, File

(* Where a file begins.                                                    *)
AtStart == request \in Requests /\ file \in DOMAIN request /\ msg = 1 /\ at = 0 /\ infos = <<>>

LEMMA FileBegins == AtStart => FileBegun
<1>. SUFFICES ASSUME AtStart PROVE FileBegun
  OBVIOUS
<1>. USE DEF AtStart
<1>1. IsSeq(File.msgs)
  BY RequestShape DEF File
<1>2. ASSUME msg <= Len(File.msgs)
      PROVE  at \in 0 .. Len(Message.fields) + 1
  <2>1. 1 \in DOMAIN File.msgs
    BY <1>1, <1>2 DEF IsSeq
  <2>2. IsSeq(Message.fields)
    BY <2>1, RequestShape DEF Message, File
  <2>. QED BY <2>2 DEF IsSeq
<1>3. infos \in Picks(File, msg - 1, infos)
  <2>1. <<>> \in [DOMAIN <<>> -> 1 .. 0] /\ DOMAIN <<>> = {}
    OBVIOUS
  <2>. QED BY <2>1 DEF Picks
<1>4. msg \in 1 .. Len(File.msgs) + 1 /\ Len(infos) < msg /\ infos \in Seq(InfosOf(request, file))
  BY <1>1 DEF IsSeq
<1>. QED BY <1>2, <1>3, <1>4 DEF FileBegun

LEMMA InitIInv == Init => IInv
<1>. SUFFICES ASSUME Init PROVE IInv
  OBVIOUS
<1>1. IsSeq(request)
  BY RequestShape DEF Init
<1>2. output \in [DOMAIN request -> Seq(GoFiles(request))]
  BY DEF Init
<1>3. file <= Len(request) => FileBegun
  BY <1>1, FileBegins DEF AtStart, Init, IsSeq
<1>. QED BY <1>1, <1>2, <1>3 DEF IInv, Init, IsSeq

LEMMA LeaveKeeps ==
  ASSUME IInv, file <= Len(request), NEW what, Leave(what), what = Outcome(File),
         NEW files \in Seq(GoFiles(request)), output' = [output EXCEPT ![file] = files],
         IF what = "emitted"
         THEN \E p \in Picks(File, Len(File.msgs), files) :
                \A j \in DOMAIN files : files[j] = GoFile(InfoOf(File.msgs[p[j]]))
         ELSE files = <<>>,
         firstErr' \in 0 .. Len(request), firstErr' = 0 => firstErr = 0 /\ what # "failed"
  PROVE  IInv'
<1>1. /\ file \in DOMAIN request /\ IsSeq(request)
      /\ request \in Requests /\ file \in 1 .. Len(request) + 1
  BY FileInRequest DEF IInv
<1>2. /\ request' = request /\ file' = file + 1 /\ msg' = 1 /\ at' = 0 /\ infos' = <<>>
      /\ outcome' = [outcome EXCEPT ![file] = what]
  BY DEF Leave
<1>3. file' <= Len(request') => FileBegun'
  <2>1. file' <= Len(request') => AtStart'
    BY <1>1, <1>2 DEF AtStart, IsSeq
  <2>2. AtStart' => FileBegun'
    BY FileBegins, PTL
  <2>. QED BY <2>1, <2>2
<1>4. ASSUME NEW i \in DOMAIN request
      PROVE  IF i < file' THEN Settled(i)' ELSE outcome'[i] = "pending" /\ output'[i] = <<>>
  <2>1. CASE i = file
    <3>1. Outcome(request[i])' = Outcome(request[i])
      BY <1>2, SameRequest DEF Outcome
    <3>2. outcome'[i] = what /\ output'[i] = files /\ request'[i] = File
      BY <1>1, <1>2, <2>1 DEF IInv, File
    <3>3. Settled(i)'
      BY <1>2, <2>1, <3>1, <3>2 DEF Settled, File
    <3>. QED BY <1>1, <1>2, <2>1, <3>3 DEF IsSeq
  <2>2. CASE i # file
    <3>1. outcome'[i] = outcome[i] /\ output'[i] = output[i]
      BY <1>2, <2>2 DEF IInv
    <3>2. i < file' <=> i < file
      BY <1>1, <1>2, <2>2 DEF IsSeq
    <3>. QED BY <1>2, <3>1, <3>2, SameSettled DEF IInv
  <2>. QED BY <2>1, <2>2
<1>5. outcome' \in [DOMAIN request' -> {"pending", "skipped", "empty", "emitted", "failed"}]
  BY <1>2 DEF IInv, Outcome
<1>6. output' \in [DOMAIN request' -> Seq(GoFiles(request'))]
  BY <1>2 DEF IInv
<1>7. firstErr' = 0 => \A i \in DOMAIN request' : outcome'[i] # "failed"
  BY <1>2 DEF IInv
<1>8. file' \in 1 .. Len(request') + 1 /\ msg' \in Nat /\ Len(infos') < msg'
  BY <1>1, <1>2 DEF IsSeq
<1>. QED BY <1>1, <1>2, <1>3, <1>4, <1>5, <1>6, <1>7, <1>8 DEF IInv

(* A sequence that grows by one, and places that may be anywhere further.  *)
LEMMA Grown ==
  ASSUME NEW S, NEW s \in Seq(S), NEW e \in S
  PROVE  /\ Append(s, e) \in Seq(S) /\ Len(Append(s, e)) = Len(s) + 1
         /\ DOMAIN Append(s, e) = DOMAIN s \cup {Len(s) + 1}
         /\ Len(s) + 1 \notin DOMAIN s
         /\ \A j \in DOMAIN s : Append(s, e)[j] = s[j]
         /\ Append(s, e)[Len(s) + 1] = e
<1>1. Len(s) \in Nat /\ DOMAIN s = 1 .. Len(s)
  OBVIOUS
<1>2. Append(s, e) \in Seq(S) /\ Len(Append(s, e)) = Len(s) + 1
  OBVIOUS
<1>3. DOMAIN Append(s, e) = 1 .. Len(s) + 1
  BY <1>1, <1>2
<1>4. \A j \in DOMAIN s : Append(s, e)[j] = s[j]
  OBVIOUS
<1>. QED BY <1>1, <1>2, <1>3, <1>4

LEMMA Widened ==
  ASSUME NEW D, NEW n \in Nat, NEW p \in [D -> 1 .. n - 1]
  PROVE  p \in [D -> 1 .. n]
<1>1. 1 .. n - 1 \subseteq 1 .. n
  OBVIOUS
<1>. QED BY <1>1

(* A message that is done with: accepted, and gathered if it is annotated. *)
LEMMA MessageDone ==
  ASSUME IInv, InMessage, UNCHANGED <<request, file, outcome, output, firstErr>>,
         msg' = msg + 1, at' = 0, ~Bad(File, Message),
         IF Type(Message) = {} THEN infos' = infos ELSE infos' = Append(infos, InfoOf(Message))
  PROVE  IInv'
<1>1. /\ file \in DOMAIN request /\ FileBegun /\ IsSeq(File.msgs) /\ File' = File
      /\ msg \in DOMAIN File.msgs /\ Message = File.msgs[msg]
  BY FileInRequest, MessageInFile DEF InMessage, InFile, File, Message
<1>2. PICK p \in Picks(File, msg - 1, infos) :
        \A j \in DOMAIN infos : infos[j] = InfoOf(File.msgs[p[j]])
  BY <1>1 DEF FileBegun
<1>. DEFINE q == [j \in DOMAIN infos' |-> IF j \in DOMAIN infos THEN p[j] ELSE msg]
            annotated(n) == {j \in 1 .. n : Type(File.msgs[j]) # {}}
<1>3. /\ infos \in Seq(InfosOf(request, file)) /\ DOMAIN infos = 1 .. Len(infos) /\ Len(infos) \in Nat
      /\ Len(infos) < msg /\ msg \in Nat /\ msg >= 1
  BY <1>1 DEF FileBegun, IsSeq
<1>4. /\ p \in [DOMAIN infos -> 1 .. msg - 1]
      /\ \A j, k \in DOMAIN infos : j < k => p[j] < p[k]
      /\ {p[j] : j \in DOMAIN infos} = annotated(msg - 1)
  BY <1>2 DEF Picks
<1>5. /\ infos' \in Seq(InfosOf(request, file)) /\ Len(infos') < msg'
      /\ \A j \in DOMAIN infos' : infos'[j] = InfoOf(File.msgs[q[j]])
      /\ q \in [DOMAIN infos' -> 1 .. msg]
      /\ \A j, k \in DOMAIN infos' : j < k => q[j] < q[k]
      /\ {q[j] : j \in DOMAIN infos'} = annotated(msg)
  <2>1. CASE Type(Message) = {}
    <3>1. infos' = infos /\ q = p
      BY <1>4, <2>1
    <3>2. annotated(msg) = annotated(msg - 1)
      BY <1>1, <1>3, <2>1
    <3>. HIDE DEF q, annotated
    <3>3. q \in [DOMAIN infos' -> 1 .. msg]
      <4>1. p \in [DOMAIN infos -> 1 .. msg]
        BY <1>3, <1>4, Widened
      <4>. QED BY <3>1, <4>1
    <3>4. infos' \in Seq(InfosOf(request, file)) /\ Len(infos') < msg'
      <4>1. Len(infos') = Len(infos) /\ msg' = msg + 1
        BY <3>1
      <4>2. Len(infos') < msg'
        BY <1>3, <4>1
      <4>. QED BY <1>3, <3>1, <4>2
    <3>. QED BY <1>2, <1>4, <3>1, <3>2, <3>3, <3>4
  <2>2. CASE Type(Message) # {}
    <3>1. InfoOf(Message) \in InfosOf(request, file)
      BY <1>1 DEF InfosOf, File
    <3>2. /\ infos' \in Seq(InfosOf(request, file)) /\ Len(infos') = Len(infos) + 1
          /\ DOMAIN infos' = DOMAIN infos \cup {Len(infos) + 1}
          /\ Len(infos) + 1 \notin DOMAIN infos
          /\ \A j \in DOMAIN infos : infos'[j] = infos[j]
          /\ infos'[Len(infos) + 1] = InfoOf(File.msgs[msg])
      <4>. DEFINE info == InfoOf(Message)
      <4>1. info \in InfosOf(request, file) /\ infos' = Append(infos, info)
        BY <2>2, <3>1
      <4>2. info = InfoOf(File.msgs[msg])
        BY <1>1
      <4>. HIDE DEF info
      <4>. DEFINE S == InfosOf(request, file)
      <4>3. infos \in Seq(S) /\ info \in S
        BY <1>3, <4>1
      <4>. HIDE DEF S
      <4>4. /\ Append(infos, info) \in Seq(S) /\ Len(Append(infos, info)) = Len(infos) + 1
            /\ DOMAIN Append(infos, info) = DOMAIN infos \cup {Len(infos) + 1}
            /\ Len(infos) + 1 \notin DOMAIN infos
            /\ \A j \in DOMAIN infos : Append(infos, info)[j] = infos[j]
            /\ Append(infos, info)[Len(infos) + 1] = info
        BY <4>3, Grown
      <4>. QED BY <4>1, <4>2, <4>4 DEF S
    <3>3. annotated(msg) = annotated(msg - 1) \cup {msg}
      <4>1. Type(File.msgs[msg]) # {}
        BY <1>1, <2>2
      <4>2. 1 .. msg = (1 .. msg - 1) \cup {msg}
        BY <1>3
      <4>. QED BY <4>1, <4>2, Zenon
    <3>4. q[Len(infos) + 1] = msg /\ \A j \in DOMAIN infos : q[j] = p[j] /\ q[j] \in 1 .. msg - 1
      BY <1>4, <3>2
    <3>5. q \in [DOMAIN infos' -> 1 .. msg]
      BY <1>3, <1>4
    <3>. HIDE DEF annotated, q
    <3>6. {q[j] : j \in DOMAIN infos'} = {q[j] : j \in DOMAIN infos} \cup {q[Len(infos) + 1]}
      BY <3>2
    <3>7. {q[j] : j \in DOMAIN infos} = {p[j] : j \in DOMAIN infos}
      BY <3>4
    <3>8. ASSUME NEW j \in DOMAIN infos', NEW k \in DOMAIN infos', j < k
          PROVE  q[j] < q[k]
      BY <1>3, <1>4, <3>2, <3>4, <3>8
    <3>9. \A j \in DOMAIN infos' : infos'[j] = InfoOf(File.msgs[q[j]])
      BY <1>2, <3>2, <3>4
    <3>. QED BY <1>3, <1>4, <3>2, <3>3, <3>4, <3>5, <3>6, <3>7, <3>8, <3>9
  <2>. QED BY <2>1, <2>2
<1>6. q \in Picks(File, msg' - 1, infos')
  <2>1. msg' - 1 = msg
    BY <1>3
  <2>. HIDE DEF q
  <2>. QED BY <1>1, <1>5, <2>1 DEF Picks
<1>7. \A j \in 1 .. msg' - 1 : ~Bad(File, File.msgs[j])'
  <2>1. \A j \in 1 .. msg : ~Bad(File, File.msgs[j])
    BY <1>1, <1>3 DEF FileBegun
  <2>2. msg' - 1 = msg
    BY <1>3
  <2>3. \A j : Bad(File, File.msgs[j])' <=> Bad(File, File.msgs[j])
    BY <1>1, SameRequest
  <2>. QED BY <2>1, <2>2, <2>3
<1>8. FileBegun'
  <2>1. \E r \in Picks(File, msg - 1, infos)' :
          \A j \in DOMAIN infos' : infos'[j] = InfoOf(File'.msgs[r[j]])
    <3>. HIDE DEF q
    <3>. QED BY <1>1, <1>5, <1>6
  <2>2. msg' \in 1 .. Len(File.msgs) + 1
    BY <1>1, <1>3 DEF IsSeq
  <2>3. msg' <= Len(File.msgs) => at' \in 0 .. Len(Message'.fields) + 1
    <3>1. ASSUME msg' <= Len(File.msgs)
          PROVE  IsSeq(Message'.fields)
      <4>1. msg' \in DOMAIN File.msgs
        BY <1>1, <1>3, <3>1 DEF IsSeq
      <4>. QED BY <1>1, <4>1, RequestShape DEF IInv, Message, File
    <3>. QED BY <3>1 DEF IsSeq
  <2>. QED BY <1>1, <1>5, <1>7, <2>1, <2>2, <2>3 DEF FileBegun
<1>. QED BY <1>8, SameSettled DEF IInv

(* The message it is at, looked at up to some field.                       *)
LEMMA FieldDone ==
  ASSUME IInv, InMessage, UNCHANGED <<request, file, msg, infos, outcome, output, firstErr>>,
         at' \in 0 .. Len(Message.fields) + 1, Type(Message) # {}, ~HeaderFails(Message),
         fields' = {FieldInfo(Message.fields[k], Message) : k \in 1 .. at' - 1},
         \A k \in 1 .. at' - 1 : ~FieldFails(Message.fields[k], Message, File)
  PROVE  IInv'
<1>1. FileBegun /\ File' = File /\ Message' = Message
  BY FileInRequest DEF InMessage, InFile, File, Message
<1>2. MessageBegun'
  <2>1. \A k \in 1 .. at' - 1 : ~FieldFails(Message.fields[k], Message, File)'
    BY <1>1, SameRequest
  <2>. QED BY <1>1, <2>1 DEF MessageBegun, InMessage, InFile
<1>3. FileBegun'
  <2>1. \A j \in 1 .. msg - 1 : ~Bad(File, File.msgs[j])'
    BY <1>1, SameRequest DEF FileBegun
  <2>. QED BY <1>1, <1>2, <2>1 DEF FileBegun
<1>. QED BY <1>3, SameSettled DEF IInv

(* A file that is done with: its first msg - 1 messages are all of them.   *)
LEMMA FileGathered ==
  ASSUME IInv, InFile, msg = Len(File.msgs) + 1
  PROVE  /\ \A j \in DOMAIN File.msgs : ~Bad(File, File.msgs[j])
         /\ infos = <<>> <=> \A j \in DOMAIN File.msgs : Type(File.msgs[j]) = {}
         /\ infos \in Seq(InfosOf(request, file))
         /\ \E p \in Picks(File, Len(File.msgs), infos) :
              \A j \in DOMAIN infos : infos[j] = InfoOf(File.msgs[p[j]])
<1>1. FileBegun /\ IsSeq(File.msgs) /\ msg - 1 = Len(File.msgs) /\ DOMAIN File.msgs = 1 .. msg - 1
  BY FileInRequest DEF InFile, IsSeq
<1>2. PICK p \in Picks(File, Len(File.msgs), infos) :
        \A j \in DOMAIN infos : infos[j] = InfoOf(File.msgs[p[j]])
  BY <1>1 DEF FileBegun
<1>3. infos = <<>> <=> DOMAIN infos = {}
  <2>1. infos \in Seq(InfosOf(request, file))
    BY <1>1 DEF FileBegun
  <2>. QED BY <2>1
<1>4. {p[j] : j \in DOMAIN infos} = {j \in DOMAIN File.msgs : Type(File.msgs[j]) # {}}
  BY <1>1 DEF Picks
<1>5. infos = <<>> <=> \A j \in DOMAIN File.msgs : Type(File.msgs[j]) = {}
  <2>1. DOMAIN infos = {} <=> {p[j] : j \in DOMAIN infos} = {}
    OBVIOUS
  <2>. QED BY <1>3, <1>4, <2>1
<1>6. \A j \in DOMAIN File.msgs : ~Bad(File, File.msgs[j])
  BY <1>1 DEF FileBegun
<1>. QED BY <1>1, <1>2, <1>5, <1>6 DEF FileBegun

LEMMA NextIInv == IInv /\ [Next]_vars => IInv'
<1>. SUFFICES ASSUME IInv, [Next]_vars PROVE IInv'
  OBVIOUS
<1>1. CASE SkipFile
  <2>1. /\ file <= Len(request) /\ file \in DOMAIN request /\ Leave("skipped")
        /\ output' = output /\ firstErr' = firstErr /\ request' = request
    BY <1>1, FileInRequest DEF SkipFile, Leave
  <2>2. Outcome(File) = "skipped"
    BY <1>1 DEF Outcome, SkipFile
  <2>3. output' = [output EXCEPT ![file] = <<>>]
    BY <2>1 DEF IInv
  <2>5. <<>> \in Seq(GoFiles(request))
    OBVIOUS
  <2>6. firstErr' \in 0 .. Len(request)
    BY <2>1 DEF IInv
  <2>. QED BY <2>1, <2>2, <2>3, <2>5, <2>6, LeaveKeeps
<1>2. CASE SkipMessage
  <2>. QED BY <1>2, MessageDone DEF SkipMessage, Bad
<1>3. CASE AnalyzeMessage
  <2>. QED BY <1>3, FieldDone, MessageInFile DEF AnalyzeMessage, IsSeq
<1>4. CASE AnalyzeField
  <2>1. /\ InMessage /\ at \in DOMAIN Message.fields /\ IsSeq(Message.fields) /\ FileBegun
        /\ at \in Nat /\ at >= 1
    BY <1>4, MessageInFile, FileInRequest DEF AnalyzeField, InMessage, InFile, IsSeq
  <2>2. MessageBegun
    BY <2>1 DEF FileBegun
  <2>3. 1 .. at' - 1 = (1 .. at - 1) \cup {at} /\ at' \in 0 .. Len(Message.fields) + 1
    BY <1>4, <2>1 DEF AnalyzeField, IsSeq
  <2>4. fields' = {FieldInfo(Message.fields[k], Message) : k \in 1 .. at' - 1}
    BY <1>4, <2>2, <2>3 DEF AnalyzeField, MessageBegun
  <2>5. \A k \in 1 .. at' - 1 : ~FieldFails(Message.fields[k], Message, File)
    BY <1>4, <2>2, <2>3 DEF AnalyzeField, MessageBegun
  <2>. QED BY <1>4, <2>1, <2>2, <2>3, <2>4, <2>5, FieldDone DEF AnalyzeField, MessageBegun
<1>5. CASE EndMessage
  <2>1. /\ InMessage /\ at = Len(Message.fields) + 1 /\ IsSeq(Message.fields) /\ FileBegun
    BY <1>5, MessageInFile, FileInRequest DEF EndMessage, InMessage, InFile
  <2>2. MessageBegun /\ 1 .. at - 1 = DOMAIN Message.fields
    BY <2>1 DEF FileBegun, IsSeq
  <2>3. ~Bad(File, Message)
    BY <2>2 DEF MessageBegun, Bad
  <2>4. infos' = Append(infos, InfoOf(Message)) /\ Type(Message) # {}
    BY <1>5, <2>2 DEF EndMessage, MessageBegun, InfoOf, InfoSet
  <2>. QED BY <1>5, <2>1, <2>3, <2>4, MessageDone DEF EndMessage
<1>6. CASE Fail
  <2>1. /\ file <= Len(request) /\ file \in DOMAIN request /\ Leave("failed") /\ InMessage
        /\ output' = output /\ request' = request /\ FileBegun /\ IsSeq(request)
        /\ msg \in DOMAIN File.msgs
    BY <1>6, FileInRequest, MessageInFile DEF Fail, Leave, InMessage, InFile
  <2>2. Bad(File, Message)
    <3>1. CASE at = 0 /\ Type(Message) # {} /\ HeaderFails(Message)
      BY <3>1 DEF Bad
    <3>2. CASE at \in DOMAIN Message.fields /\ FieldFails(Message.fields[at], Message, File)
      <4>1. at # 0
        BY <2>1, <3>2, MessageInFile DEF IsSeq
      <4>. QED BY <2>1, <3>2, <4>1 DEF FileBegun, MessageBegun, Bad
    <3>. QED BY <1>6, <3>1, <3>2 DEF Fail, Rejects
  <2>3. Outcome(File) = "failed"
    BY <2>1, <2>2 DEF Outcome, InMessage, InFile, Message
  <2>4. output' = [output EXCEPT ![file] = <<>>]
    BY <2>1 DEF IInv
  <2>6. <<>> \in Seq(GoFiles(request))
    OBVIOUS
  <2>7. firstErr' \in 0 .. Len(request) /\ firstErr' # 0
    BY <1>6, <2>1 DEF IInv, Fail, IsSeq
  <2>. QED BY <2>1, <2>3, <2>4, <2>6, <2>7, LeaveKeeps
<1>7. CASE NothingToEmit
  <2>1. /\ file <= Len(request) /\ file \in DOMAIN request /\ Leave("empty") /\ InFile
        /\ output' = output /\ request' = request /\ firstErr' = firstErr
    BY <1>7, FileInRequest DEF NothingToEmit, Leave, InFile
  <2>2. Outcome(File) = "empty"
    BY <1>7, <2>1, FileGathered DEF Outcome, InFile, NothingToEmit
  <2>3. output' = [output EXCEPT ![file] = <<>>]
    BY <2>1 DEF IInv
  <2>5. <<>> \in Seq(GoFiles(request))
    OBVIOUS
  <2>6. firstErr' \in 0 .. Len(request)
    BY <2>1 DEF IInv
  <2>. QED BY <2>1, <2>2, <2>3, <2>5, <2>6, LeaveKeeps
<1>8. CASE EmitGoFile
  <2>. DEFINE files == [i \in DOMAIN infos |-> GoFile(infos[i])]
  <2>1. /\ file <= Len(request) /\ file \in DOMAIN request /\ Leave("emitted") /\ InFile
        /\ output' = [output EXCEPT ![file] = files] /\ request' = request /\ firstErr' = firstErr
    BY <1>8, FileInRequest DEF EmitGoFile, Leave, InFile
  <2>2. PICK p \in Picks(File, Len(File.msgs), infos) :
          \A j \in DOMAIN infos : infos[j] = InfoOf(File.msgs[p[j]])
    BY <1>8, <2>1, FileGathered DEF EmitGoFile
  <2>3. infos \in Seq(InfosOf(request, file)) /\ Outcome(File) = "emitted"
    BY <1>8, <2>1, FileGathered DEF Outcome, InFile, EmitGoFile
  <2>4. files \in Seq(GoFiles(request))
    <3>1. \A j \in DOMAIN infos : GoFile(infos[j]) \in GoFiles(request)
      BY <2>1, <2>3 DEF GoFiles
    <3>2. DOMAIN infos = 1 .. Len(infos) /\ Len(infos) \in Nat
      BY <2>3
    <3>. QED BY <3>1, <3>2
  <2>5. /\ DOMAIN files = DOMAIN infos
        /\ p \in Picks(File, Len(File.msgs), files)
        /\ \A j \in DOMAIN files : files[j] = GoFile(InfoOf(File.msgs[p[j]]))
    BY <2>2 DEF Picks
  <2>6. firstErr' \in 0 .. Len(request)
    BY <2>1 DEF IInv
  <2>. HIDE DEF files
  <2>. QED BY <2>1, <2>3, <2>4, <2>5, <2>6, LeaveKeeps
<1>9. CASE UNCHANGED vars
  <2>1. /\ UNCHANGED <<request, file, msg, at, fields, infos, outcome, output, firstErr>>
        /\ UNCHANGED <<File, Message, InMessage>>
    BY <1>9 DEF vars, File, Message, InMessage, InFile
  <2>2. MessageBegun' <=> MessageBegun
    BY <2>1, SameRequest DEF MessageBegun
  <2>3. FileBegun' <=> FileBegun
    BY <2>1, <2>2, SameRequest DEF FileBegun
  <2>. QED BY <2>1, <2>3, SameSettled DEF IInv
<1>. QED BY <1>1, <1>2, <1>3, <1>4, <1>5, <1>6, <1>7, <1>8, <1>9 DEF Next

(* The request is worked off file by file, message by message, as IInv    *)
(* says, whatever the request.                                             *)
THEOREM Inductive == Spec => []IInv
<1>. QED BY InitIInv, NextIInv, PTL DEF Spec

-----------------------------------------------------------------------------
LEMMA IInvTypeOK == IInv => TypeOK
<1>. SUFFICES ASSUME IInv PROVE TypeOK
  OBVIOUS
<1>. QED BY DEF IInv, FileBegun, TypeOK

LEMMA AllSettled ==
  ASSUME IInv, Done, NEW i \in DOMAIN request
  PROVE  Settled(i) /\ IsSeq(request[i].msgs)
<1>1. IsSeq(request) /\ IsSeq(request[i].msgs)
  BY RequestShape DEF IInv
<1>2. i < file
  BY <1>1 DEF IInv, Done, IsSeq
<1>. QED BY <1>1, <1>2 DEF IInv

LEMMA IInvWhole == IInv => FilesAreWhole
<1>. SUFFICES ASSUME IInv, Done, NEW i \in DOMAIN request
              PROVE  LET f == request[i]
                     IN  /\ outcome[i] = "emitted" =>
                              \E p \in Picks(f, Len(f.msgs), output[i]) :
                                \A j \in DOMAIN output[i] : output[i][j].name = f.msgs[p[j]].name
                         /\ outcome[i] = "failed" <=>
                              f.generate /\ \E j \in DOMAIN f.msgs : Bad(f, f.msgs[j])
                         /\ outcome[i] # "emitted" => output[i] = <<>>
  BY DEF FilesAreWhole
<1>1. Settled(i)
  BY AllSettled
<1>2. \A m : GoFile(InfoOf(m)).name = m.name
  BY DEF GoFile, InfoOf
<1>3. outcome[i] = "failed" <=>
        request[i].generate /\ \E j \in DOMAIN request[i].msgs : Bad(request[i], request[i].msgs[j])
  BY <1>1 DEF Settled, Outcome
<1>4. outcome[i] # "emitted" => output[i] = <<>>
  BY <1>1 DEF Settled
<1>5. ASSUME outcome[i] = "emitted"
      PROVE  \E p \in Picks(request[i], Len(request[i].msgs), output[i]) :
               \A j \in DOMAIN output[i] : output[i][j].name = request[i].msgs[p[j]].name
  <2>1. PICK p \in Picks(request[i], Len(request[i].msgs), output[i]) :
          \A j \in DOMAIN output[i] : output[i][j] = GoFile(InfoOf(request[i].msgs[p[j]]))
    BY <1>1, <1>5 DEF Settled
  <2>. QED BY <1>2, <2>1
<1>. QED BY <1>3, <1>4, <1>5

(* What is in the answer was emitted, for a message with nothing to reject.*)
LEMMA Answered ==
  ASSUME IInv, Done, NEW i \in Response, NEW j \in DOMAIN output[i]
  PROVE  \E l \in DOMAIN request[i].msgs :
           LET m == request[i].msgs[l]
           IN  i \in DOMAIN request /\ firstErr = 0 /\ output[i][j] = GoFile(InfoOf(m))
               /\ \A k \in DOMAIN m.fields : ~FieldFails(m.fields[k], m, request[i])
<1>1. i \in DOMAIN request /\ output[i] # <<>> /\ firstErr = 0
  BY DEF Response, IInv
<1>2. Settled(i) /\ IsSeq(request[i].msgs)
  BY <1>1, AllSettled
<1>3. outcome[i] = "emitted" /\ Outcome(request[i]) = "emitted"
  BY <1>1, <1>2 DEF Settled
<1>4. PICK p \in Picks(request[i], Len(request[i].msgs), output[i]) :
        \A n \in DOMAIN output[i] : output[i][n] = GoFile(InfoOf(request[i].msgs[p[n]]))
  BY <1>2, <1>3 DEF Settled
<1>5. p[j] \in DOMAIN request[i].msgs /\ Type(request[i].msgs[p[j]]) # {}
  BY <1>2 DEF Picks, IsSeq
<1>6. ~Bad(request[i], request[i].msgs[p[j]])
  BY <1>3, <1>5 DEF Outcome
<1>. QED BY <1>1, <1>4, <1>5, <1>6 DEF Bad

LEMMA IInvCalls == IInv => DanglingCallsAreInner
<1>. SUFFICES ASSUME IInv, Done, NEW name \in Called, ~\E m \in Inner : m.name = name /\ Type(m) # {}
              PROVE  HasMethods(name)
  BY DEF DanglingCallsAreInner
<1>0. PICK i \in Response : \E j \in DOMAIN output[i] :
        \E x \in output[i][j].fields : x.message /\ x.ref = name
  BY DEF Called
<1>10. PICK j \in DOMAIN output[i] : \E x \in output[i][j].fields : x.message /\ x.ref = name
  BY <1>0
<1>11. PICK x \in output[i][j].fields : x.message /\ x.ref = name
  BY <1>10
<1>1. PICK l \in DOMAIN request[i].msgs :
        LET m == request[i].msgs[l]
        IN  i \in DOMAIN request /\ firstErr = 0 /\ output[i][j] = GoFile(InfoOf(m))
            /\ \A k \in DOMAIN m.fields : ~FieldFails(m.fields[k], m, request[i])
  BY Answered
<1>2. x \in InfoSet(request[i].msgs[l])
  BY <1>1 DEF GoFile, InfoOf
<1>3. PICK n \in DOMAIN request[i].msgs[l].fields :
        x = FieldInfo(request[i].msgs[l].fields[n], request[i].msgs[l])
  BY <1>2 DEF InfoSet
<1>4. x.ref \in Annotated
  BY <1>1, <1>3, <1>11 DEF FieldInfo, FieldFails
<1>5. PICK k \in DOMAIN request : \E m \in DOMAIN request[k].msgs :
        request[k].msgs[m].name = x.ref /\ Type(request[k].msgs[m]) # {}
  BY <1>4, <1>11 DEF Annotated, TopLevel
<1>6. PICK m \in DOMAIN request[k].msgs :
        request[k].msgs[m].name = x.ref /\ Type(request[k].msgs[m]) # {}
  BY <1>5
<1>7. ASSUME request[k].generate
      PROVE  k \in Response /\ \E q \in DOMAIN output[k] : output[k][q].name = x.ref
  <2>1. Settled(k) /\ IsSeq(request[k].msgs)
    BY AllSettled
  <2>2. outcome[k] = "emitted"
    <3>1. outcome[k] # "failed"
      BY <1>1 DEF IInv
    <3>. QED BY <1>6, <1>7, <2>1, <3>1 DEF Settled, Outcome
  <2>3. PICK p \in Picks(request[k], Len(request[k].msgs), output[k]) :
          \A n2 \in DOMAIN output[k] : output[k][n2] = GoFile(InfoOf(request[k].msgs[p[n2]]))
    BY <2>1, <2>2 DEF Settled
  <2>4. m \in {p[q] : q \in DOMAIN output[k]}
    BY <1>6, <2>1, <2>3 DEF Picks, IsSeq
  <2>5. PICK q \in DOMAIN output[k] : p[q] = m
    BY <2>4
  <2>6. output[k][q].name = x.ref
    <3>1. output[k][q] = GoFile(InfoOf(request[k].msgs[m]))
      BY <2>3, <2>5
    <3>2. GoFile(InfoOf(request[k].msgs[m])).name = request[k].msgs[m].name
      BY DEF GoFile, InfoOf
    <3>. QED BY <1>6, <3>1, <3>2
  <2>7. k \in DOMAIN output /\ output[k] # <<>>
    BY <2>5 DEF IInv
  <2>. QED BY <1>1, <2>5, <2>6, <2>7 DEF Response
<1>. QED BY <1>6, <1>7, <1>11 DEF HasMethods

-----------------------------------------------------------------------------
(* Every emitted set of methods is that of a message of the request ...    *)
LEMMA Origin ==
  ASSUME IInv, NEW g \in Emitted
  PROVE  \E i \in DOMAIN request : \E j \in DOMAIN request[i].msgs :
           g = GoFile(InfoOf(request[i].msgs[j]))
<1>1. PICK i \in DOMAIN output : \E j \in DOMAIN output[i] : g = output[i][j]
  BY DEF Emitted
<1>2. output[i] \in Seq(GoFiles(request))
  BY <1>1 DEF IInv
<1>3. g \in GoFiles(request)
  BY <1>1, <1>2
<1>. QED BY <1>3 DEF GoFiles, InfosOf

(* ... and of one only.                                                    *)
LEMMA OneByName ==
  ASSUME IInv, NEW g \in Emitted, NEW h \in Emitted, g.name = h.name
  PROVE  g = h
<1>1. PICK i \in DOMAIN request : \E j \in DOMAIN request[i].msgs :
        g = GoFile(InfoOf(request[i].msgs[j]))
  BY Origin
<1>2. PICK j \in DOMAIN request[i].msgs : g = GoFile(InfoOf(request[i].msgs[j]))
  BY <1>1
<1>3. PICK k \in DOMAIN request : \E l \in DOMAIN request[k].msgs :
        h = GoFile(InfoOf(request[k].msgs[l]))
  BY Origin
<1>4. PICK l \in DOMAIN request[k].msgs : h = GoFile(InfoOf(request[k].msgs[l]))
  BY <1>3
<1>5. request[i].msgs[j].name = request[k].msgs[l].name
  BY <1>2, <1>4 DEF GoFile, InfoOf
<1>6. i = k /\ j = l
  BY <1>5, NamesAssumption DEF IInv
<1>. QED BY <1>2, <1>4, <1>6

(* The oneof of a FieldInfo is that of its only real oneof.                *)
LEMMA OneofOfField ==
  ASSUME IInv, NEW i \in DOMAIN request, NEW j \in DOMAIN request[i].msgs,
         NEW k \in DOMAIN request[i].msgs[j].fields
  PROVE  LET m    == request[i].msgs[j]
             x    == FieldInfo(m.fields[k], m)
             mine == {o \in m.oneofs : Real(o) /\ x.num \in o.branches}
         IN  /\ mine = {} <=> x.oneof = None
             /\ \A o, p \in mine : o = p
<1>. DEFINE m    == request[i].msgs[j]
            y    == m.fields[k]
            mine == {o \in m.oneofs : Real(o) /\ y.num \in o.branches}
<1>1. /\ \A o, p \in m.oneofs : o = p \/ (o.name # p.name /\ o.branches \cap p.branches = {})
      /\ \A o \in m.oneofs : o.name # None /\ o.synthetic \in BOOLEAN
  BY NamesAssumption DEF IInv
<1>2. mine = InOneof(y, m, FALSE)
  BY <1>1 DEF InOneof, Real
<1>3. FieldInfo(y, m).num = y.num
  BY DEF FieldInfo
<1>4. FieldInfo(y, m).oneof = IF mine = {} THEN None ELSE (CHOOSE o \in mine : TRUE).name
  <2>1. FieldInfo(y, m).oneof = IF InOneof(y, m, FALSE) = {} THEN None
                                ELSE (CHOOSE o \in InOneof(y, m, FALSE) : TRUE).name
    BY DEF FieldInfo
  <2>. HIDE DEF mine
  <2>. QED BY <1>2, <2>1
<1>5. mine = {} <=> FieldInfo(y, m).oneof = None
  <2>1. CASE mine = {}
    BY <1>4, <2>1
  <2>2. CASE mine # {}
    <3>. DEFINE o == CHOOSE o \in mine : TRUE
    <3>1. o \in mine
      BY <2>2
    <3>2. o \in m.oneofs
      BY <3>1
    <3>. QED BY <1>1, <1>4, <2>2, <3>2
  <2>. QED BY <2>1, <2>2
<1>6. \A o, p \in mine : o = p
  BY <1>1
<1>. QED BY <1>3, <1>5, <1>6

LEMMA IInvWrittenOnce == IInv => WrittenOnce
<1>. SUFFICES ASSUME IInv, NEW g \in Emitted, NEW n \in Numbers(g.fields)
              PROVE  IF n \in g.loop THEN \A c \in g.cases : c[2] # n
                     ELSE Cardinality({c \in g.cases : c[2] = n}) = 1
  BY DEF WrittenOnce
<1>1. PICK i \in DOMAIN request : \E j \in DOMAIN request[i].msgs :
        g = GoFile(InfoOf(request[i].msgs[j]))
  BY Origin
<1>2. PICK j \in DOMAIN request[i].msgs : g = GoFile(InfoOf(request[i].msgs[j]))
  BY <1>1
<1>. DEFINE m    == request[i].msgs[j]
            mine == {o \in m.oneofs : Real(o) /\ n \in o.branches}
<1>3. g.fields = InfoSet(m) /\ g.loop = Loop(InfoSet(m)) /\ g.cases = Cases(m, InfoSet(m))
  BY <1>2 DEF GoFile, InfoOf
<1>4. ASSUME NEW k \in DOMAIN m.fields, FieldInfo(m.fields[k], m).num = n
      PROVE  /\ mine = {} <=> FieldInfo(m.fields[k], m).oneof = None
             /\ \A o, p \in mine : o = p
  BY <1>4, OneofOfField
<1>5. PICK x \in InfoSet(m) : x.num = n
  BY <1>3 DEF Numbers
<1>6. PICK k \in DOMAIN m.fields : x = FieldInfo(m.fields[k], m)
  BY DEF InfoSet
<1>7. n \in g.loop <=> mine = {}
  <2>1. ASSUME n \in g.loop
        PROVE  mine = {}
    <3>1. PICK y \in InfoSet(m) : y.num = n /\ y.oneof = None
      BY <1>3, <2>1 DEF Loop, Numbers
    <3>. QED BY <1>4, <3>1 DEF InfoSet
  <2>2. ASSUME mine = {}
        PROVE  n \in g.loop
    BY <1>3, <1>4, <1>5, <1>6, <2>2 DEF Loop, Numbers
  <2>. QED BY <2>1, <2>2
<1>8. {c \in g.cases : c[2] = n} = {<<o.name, n>> : o \in mine}
  <2>1. ASSUME NEW c \in g.cases, c[2] = n
        PROVE  \E o \in mine : c = <<o.name, n>>
    <3>1. PICK o \in {o \in m.oneofs : Real(o)}, l \in Numbers(InfoSet(m)) : c = <<o.name, l>>
      BY <1>3 DEF Cases
    <3>2. PICK p \in m.oneofs : \E b \in p.branches : c = <<p.name, b>>
      BY <1>3 DEF Cases
    <3>3. o.name = p.name /\ n \in p.branches /\ l = n
      BY <2>1, <3>1, <3>2
    <3>4. o = p
      BY <3>3, NamesAssumption DEF IInv
    <3>. QED BY <3>1, <3>3, <3>4
  <2>2. ASSUME NEW o \in mine
        PROVE  <<o.name, n>> \in g.cases
    <3>1. <<o.name, n>> \in {<<p.name, l>> : p \in {p \in m.oneofs : Real(p)}, l \in Numbers(InfoSet(m))}
      BY <1>5 DEF Numbers
    <3>2. <<o.name, n>> \in UNION {{<<p.name, l>> : l \in p.branches} : p \in m.oneofs}
      OBVIOUS
    <3>. QED BY <1>3, <3>1, <3>2 DEF Cases
  <2>. QED BY <2>1, <2>2
<1>9. CASE mine = {}
  BY <1>7, <1>8, <1>9
<1>10. CASE mine # {}
  <2>1. PICK o \in mine : TRUE
    BY <1>10
  <2>2. mine = {o}
    BY <1>4, <1>5, <1>6, <2>1
  <2>3. {c \in g.cases : c[2] = n} = {<<o.name, n>>}
    BY <1>8, <2>2
  <2>4. Cardinality({<<o.name, n>>}) = 1
    BY FS_Singleton
  <2>. QED BY <1>7, <1>10, <2>3, <2>4
<1>. QED BY <1>9, <1>10

LEMMA FiniteRequest == IInv => IsFiniteSet(TopLevel)
<1>. SUFFICES ASSUME IInv PROVE IsFiniteSet(TopLevel)
  OBVIOUS
<1>. DEFINE Msgs(i) == {request[i].msgs[j] : j \in DOMAIN request[i].msgs}
<1>1. \A n \in Nat : IsFiniteSet(1 .. n)
  BY FS_Interval
<1>2. ASSUME NEW i \in DOMAIN request
      PROVE  IsFiniteSet(Msgs(i))
  <2>1. IsFiniteSet(DOMAIN request[i].msgs)
    BY <1>1, RequestShape DEF IInv, IsSeq
  <2>. DEFINE f == [j \in DOMAIN request[i].msgs |-> request[i].msgs[j]]
  <2>2. f \in Surjection(DOMAIN request[i].msgs, Msgs(i))
    BY DEF Surjection
  <2>. QED BY <2>1, <2>2, FS_Surjection
<1>3. IsFiniteSet({Msgs(i) : i \in DOMAIN request})
  <2>1. IsFiniteSet(DOMAIN request)
    BY <1>1, RequestShape DEF IInv, IsSeq
  <2>. DEFINE f == [i \in DOMAIN request |-> Msgs(i)]
  <2>2. f \in Surjection(DOMAIN request, {Msgs(i) : i \in DOMAIN request})
    BY DEF Surjection
  <2>. QED BY <2>1, <2>2, FS_Surjection
<1>. HIDE DEF Msgs
<1>4. IsFiniteSet(UNION {Msgs(i) : i \in DOMAIN request})
  BY <1>2, <1>3, FS_UNION
<1>. QED BY <1>4 DEF TopLevel, Msgs

(* Below a message that refers to no other there is only itself.           *)
LEMMA NothingBelow ==
  ASSUME IInv, NEW g \in Emitted, \A x \in g.fields : ~x.message
  PROVE  Below(g.name) = {g.name}
<1>. DEFINE N       == Cardinality(TopLevel)
            step(s) == s \cup {x.ref : x \in UNION {{y \in h.fields : y.message} :
                                                    h \in {h \in Emitted : h.name \in s}}}
            reach   == CHOOSE r : r = [n \in 0 .. N |-> IF n = 0 THEN {g.name} ELSE step(r[n - 1])]
            still   == [n \in 0 .. N |-> {g.name}]
<1>1. N \in Nat
  BY FiniteRequest, FS_CardinalityType
<1>2. step({g.name}) = {g.name}
  BY OneByName
<1>. HIDE DEF step, N
<1>3. still = [n \in 0 .. N |-> IF n = 0 THEN {g.name} ELSE step(still[n - 1])]
  <2>1. ASSUME NEW n \in 0 .. N
        PROVE  {g.name} = IF n = 0 THEN {g.name} ELSE step(still[n - 1])
    <3>1. CASE n = 0
      BY <3>1
    <3>2. CASE n # 0
      <4>1. n - 1 \in 0 .. N
        BY <1>1, <3>2
      <4>2. still[n - 1] = {g.name}
        BY <4>1
      <4>. QED BY <1>2, <3>2, <4>2
    <3>. QED BY <3>1, <3>2
  <2>. QED BY <2>1
<1>. HIDE DEF still
<1>4. reach = [n \in 0 .. N |-> IF n = 0 THEN {g.name} ELSE step(reach[n - 1])]
  BY <1>3
<1>5. Below(g.name) = reach[N]
  BY DEF Below, step, N
<1>. HIDE DEF reach
<1>. DEFINE S == {n \in 0 .. N : reach[n] = {g.name}}
<1>6. 0 \in S
  BY <1>1, <1>4
<1>7. ASSUME NEW n \in 0 .. N - 1, n \in S
      PROVE  n + 1 \in S
  <2>1. n + 1 \in 0 .. N /\ n + 1 # 0 /\ (n + 1) - 1 = n /\ reach[n] = {g.name}
    BY <1>1, <1>7
  <2>2. reach[n + 1] = step(reach[n])
    BY <1>4, <2>1
  <2>. QED BY <1>2, <2>1, <2>2
<1>8. 0 .. N \subseteq S
  <2>. HIDE DEF S
  <2>. QED BY <1>1, <1>6, <1>7, UpwardInduction
<1>. QED BY <1>1, <1>5, <1>8

LEMMA IInvSlab == IInv => StringsHaveSlab
<1>. SUFFICES ASSUME IInv, NEW g \in Emitted,
                     NEW h \in Emitted, h.name \in Below(g.name), NEW x \in h.fields, x.text
              PROVE  g.slab
  BY DEF StringsHaveSlab
<1>1. PICK i \in DOMAIN request : \E j \in DOMAIN request[i].msgs :
        g = GoFile(InfoOf(request[i].msgs[j]))
  BY Origin
<1>2. g.slab = NeedsSlab(g.fields)
  BY <1>1 DEF GoFile
<1>3. CASE \E y \in g.fields : y.message
  BY <1>2, <1>3 DEF NeedsSlab
<1>4. CASE \A y \in g.fields : ~y.message
  <2>1. h.name = g.name
    BY <1>4, NothingBelow
  <2>2. h = g
    BY <2>1, OneByName
  <2>. QED BY <1>2, <2>2 DEF NeedsSlab
<1>. QED BY <1>3, <1>4

(* ... so a field it holds by value is not of its own type, and the schema *)
(* has asked for it.                                                       *)
LEMMA ByValueIsAskedFor ==
  ASSUME IInv, NEW a, NEW b, ByValue(a, b)
  PROVE  a # b /\ Asked(a, b)
<1>1. PICK g \in Emitted : g.name = a /\ \E x \in g.fields :
             x.message /\ ~x.pointer /\ ~x.repeated /\ x.ref = b
  BY DEF ByValue
<1>2. PICK i \in DOMAIN request : \E j \in DOMAIN request[i].msgs :
        g = GoFile(InfoOf(request[i].msgs[j]))
  BY Origin
<1>3. PICK j \in DOMAIN request[i].msgs : g = GoFile(InfoOf(request[i].msgs[j]))
  BY <1>2
<1>. DEFINE m == request[i].msgs[j]
<1>4. g.name = m.name /\ g.fields = InfoSet(m)
  BY <1>3 DEF GoFile, InfoOf
<1>5. PICK k \in DOMAIN m.fields :
        LET x == FieldInfo(m.fields[k], m)
        IN  x.message /\ ~x.pointer /\ ~x.repeated /\ x.ref = b
  BY <1>1, <1>4 DEF InfoSet
<1>. DEFINE y == m.fields[k]
<1>6. IsMessage(y) /\ ~Pointer(y, m) /\ y.card # "list" /\ y.ref = b
  BY <1>5 DEF FieldInfo
<1>7. ~SelfRef(y, m) /\ UsePointer(y) # {} /\ TRUE \notin UsePointer(y)
  BY <1>6 DEF Pointer
<1>8. a # b
  BY <1>1, <1>4, <1>6, <1>7 DEF SelfRef
<1>9. FALSE \in UsePointer(y)
  BY <1>7 DEF UsePointer
<1>10. m \in TopLevel /\ m.name = a
  BY <1>1, <1>4 DEF TopLevel
<1>. QED BY <1>6, <1>8, <1>9, <1>10 DEF Asked

LEMMA OwnTypeIsPointer ==
  ASSUME IInv, NEW g \in Emitted, NEW x \in g.fields, x.message, x.ref = g.name
  PROVE  x.pointer
<1>1. PICK i \in DOMAIN request : \E j \in DOMAIN request[i].msgs :
        g = GoFile(InfoOf(request[i].msgs[j]))
  BY Origin
<1>2. PICK j \in DOMAIN request[i].msgs : g = GoFile(InfoOf(request[i].msgs[j]))
  BY <1>1
<1>. DEFINE m == request[i].msgs[j]
<1>3. g.name = m.name /\ g.fields = InfoSet(m)
  BY <1>2 DEF GoFile, InfoOf
<1>4. PICK k \in DOMAIN m.fields : x = FieldInfo(m.fields[k], m)
  BY <1>2, <1>3 DEF InfoSet
<1>5. IsMessage(m.fields[k]) /\ m.fields[k].ref = m.name
  BY <1>3, <1>4 DEF FieldInfo
<1>6. Pointer(m.fields[k], m)
  BY <1>5 DEF Pointer, SelfRef
<1>. QED BY <1>4, <1>6 DEF FieldInfo

(* protoc's rule on optionals makes the two conditions on a field the same.*)
LEMMA PoolableMarks ==
  ASSUME IInv, NEW i \in DOMAIN request, NEW j \in DOMAIN request[i].msgs,
         NEW x \in InfoSet(request[i].msgs[j]), ~(x.optional /\ x.wkt)
  PROVE  /\ Poolable(x) <=> Marks(x)
         /\ Poolable(x) => x.pointer \/ x.optional
<1>. DEFINE m == request[i].msgs[j]
<1>1. PICK k \in DOMAIN m.fields : x = FieldInfo(m.fields[k], m)
  BY DEF InfoSet
<1>. DEFINE y == m.fields[k]
<1>2. /\ x.repeated = (y.card = "list") /\ x.map = (y.card = "map")
      /\ x.wkt = WellKnown(y) /\ x.message = IsMessage(y) /\ x.pointer = Pointer(y, m)
      /\ x.optional = (InOneof(y, m, TRUE) # {})
  BY <1>1 DEF FieldInfo
<1>3. x.optional => y.card = "one"
  BY <1>2, RequestAssumption DEF IInv, InOneof
<1>4. x.message => ~x.wkt /\ ~x.map
  BY <1>2 DEF WellKnown, IsMessage
<1>5. x.optional => ~x.repeated /\ ~x.map
  BY <1>2, <1>3
<1>6. x.wkt \in BOOLEAN /\ x.message \in BOOLEAN
  BY <1>2 DEF WellKnown, IsMessage
<1>. QED BY <1>4, <1>5, <1>6 DEF Poolable, Marks, Arm

LEMMA IInvPooled == IInv => PooledIsMarked
<1>. SUFFICES ASSUME IInv, NEW g \in Emitted, \A x \in g.fields : ~(x.optional /\ x.wkt)
              PROVE  /\ g.kept = g.marked
                     /\ \A n \in g.kept : n <= 63 /\ \E x \in g.fields :
                                              x.num = n /\ (x.pointer \/ x.optional)
  BY DEF PooledIsMarked
<1>1. PICK i \in DOMAIN request : \E j \in DOMAIN request[i].msgs :
        g = GoFile(InfoOf(request[i].msgs[j]))
  BY Origin
<1>2. PICK j \in DOMAIN request[i].msgs : g = GoFile(InfoOf(request[i].msgs[j]))
  BY <1>1
<1>. DEFINE s == InfoSet(request[i].msgs[j])
<1>3. /\ g.fields = s
      /\ g.kept = IF Pooling(s) THEN Numbers({x \in s : Poolable(x)}) ELSE {}
      /\ g.marked = IF Pooling(s) THEN Numbers({x \in s : Marks(x)}) ELSE {}
  BY <1>2 DEF GoFile, InfoOf
<1>. HIDE DEF s
<1>4. \A x \in s : (Poolable(x) <=> Marks(x)) /\ (Poolable(x) => x.pointer \/ x.optional)
  BY <1>3, PoolableMarks DEF s
<1>5. {x \in s : Poolable(x)} = {x \in s : Marks(x)}
  BY <1>4
<1>6. ASSUME NEW n \in g.kept
      PROVE  n <= 63 /\ \E x \in g.fields : x.num = n /\ (x.pointer \/ x.optional)
  BY <1>3, <1>4 DEF Pooling, Numbers
<1>. QED BY <1>3, <1>5, <1>6

LEMMA IInvCycles == IInv => ValueCyclesAreAskedFor
BY ByValueIsAskedFor, OwnTypeIsPointer DEF ValueCyclesAreAskedFor

-----------------------------------------------------------------------------
(* The driver's place in the request, and what it has gathered, are such   *)
(* as analysis and GenerateFile can have them.                             *)
THEOREM TypeCorrect == Spec => []TypeOK
<1>. QED BY Inductive, IInvTypeOK, PTL

(* For every request, a file with a message to reject yields no Go file,   *)
(* and any other yields the methods of each annotated message, in order.   *)
THEOREM AllOrNothing == Spec => []FilesAreWhole
<1>. QED BY Inductive, IInvWhole, PTL

(* For every request, the methods that an answer calls exist, but for those*)
(* of a message that is declared inside another.                           *)
THEOREM TopLevelCallsHaveTargets == Spec => []DanglingCallsAreInner
<1>. QED BY Inductive, IInvCalls, PTL

(* For every schema, MarshalCodecInternal writes a field in one place.     *)
THEOREM MarshalOnce == Spec => []WrittenOnce
<1>. QED BY Inductive, IInvWrittenOnce, PTL

(* For every schema, UnmarshalCodec makes the slab that a string below it, *)
(* at whatever depth, is cut from.                                         *)
THEOREM SlabWhereNeeded == Spec => []StringsHaveSlab
<1>. QED BY Inductive, IInvSlab, PTL

(* For every schema, the Go types are finite unless it asked otherwise.    *)
THEOREM TypesAreFinite == Spec => []ValueCyclesAreAskedFor
<1>. QED BY Inductive, IInvCycles, PTL

(* For every schema, reset, decode and nil-out pass pool the same fields.  *)
THEOREM PoolingAgrees == Spec => []PooledIsMarked
<1>. QED BY Inductive, IInvPooled, PTL
=============================================================================
