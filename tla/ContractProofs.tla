--------------------------- MODULE ContractProofs ---------------------------
(***************************************************************************)
(* What the benchmark gate lets pass, and what it rejects, for every       *)
(* ceiling, any number of iterations and any interleaving with the other   *)
(* goroutines of the process.                                              *)
(***************************************************************************)
EXTENDS Contract, TLAPS

(* Before its first Loop the gate has measured nothing.                    *)
Unstarted ==
  IF started THEN phase # "setup"
  ELSE phase \in {"setup", "ended"} /\ iterations = 0 /\ own = 0 /\ since = 0 /\ spent = 0 /\ totalLat = 0

AllocsMeasured ==
  /\ preMem + own <= mallocs
  /\ started /\ ~late /\ allocsMax # None => preMem + since = mallocs

LatencyMeasured ==
  ~late /\ latencyMax # None =>
    totalLat + (IF phase = "body" THEN clock - iterStart ELSE 0) = spent

Judged ==
  /\ phase # "ended" => verdict = "none"
  /\ verdict \in {"pass", "allocs"} => iterations # 0
  /\ verdict = "pass" => ~Exceeds(AllocsPerOp, allocsMax)
  /\ verdict = "allocs" => Exceeds(AllocsPerOp, allocsMax) /\ started

IInv == TypeOK /\ iterations = ran /\ Unstarted /\ AllocsMeasured /\ LatencyMeasured /\ Judged

-----------------------------------------------------------------------------
(* The floor of a quotient bounds the dividend from both sides.            *)
LEMMA FloorBounds ==
  ASSUME NEW a \in Nat, NEW n \in Nat, n # 0, NEW m \in Nat
  PROVE  /\ ~(a \div n > m) => a < (m + 1) * n
         /\ a \div n > m => a >= (m + 1) * n
<1>1. n \in Nat \ {0}
  OBVIOUS
<1>2. /\ a \div n \in Int
      /\ n * (a \div n) <= a
      /\ a < n * (a \div n + 1)
  BY <1>1, Z3
<1>3. \A q \in Int : ~(q > m) => n * (q + 1) <= (m + 1) * n
  BY <1>1, Z3
<1>4. \A q \in Int : q > m => n * q >= (m + 1) * n
  BY <1>1, Z3
<1>. QED BY <1>1, <1>2, <1>3, <1>4

LEMMA InitIInv == Init => IInv
<1>. SUFFICES ASSUME Init PROVE IInv
  OBVIOUS
<1>. USE ContractAssumption DEF Init
<1>1. TypeOK /\ iterations = ran
  <2>1. phase \in {"setup", "loopFn", "body", "over", "ended"}
    OBVIOUS
  <2>2. allocsMax \in Ceilings \cup {None} /\ latencyMax \in Ceilings \cup {None}
    OBVIOUS
  <2>3. started \in BOOLEAN /\ late \in BOOLEAN
    OBVIOUS
  <2>4. /\ iterations \in Nat /\ totalLat \in Nat /\ spent \in Nat /\ ran \in Nat
        /\ iterStart \in Nat /\ iterStart <= clock /\ clock \in Nat
    OBVIOUS
  <2>5. /\ preMem \in Nat /\ mallocs \in Nat /\ own \in Nat /\ since \in Nat
        /\ verdict \in {"none", "noop", "pass", "allocs", "latency"}
    OBVIOUS
  <2>. QED BY <2>1, <2>2, <2>3, <2>4, <2>5 DEF TypeOK
<1>2. Unstarted /\ AllocsMeasured /\ LatencyMeasured /\ Judged
  BY DEF Unstarted, AllocsMeasured, LatencyMeasured, Judged
<1>. QED BY <1>1, <1>2 DEF IInv

LEMMA NextIInv == IInv /\ [Next]_vars => IInv'
<1>. SUFFICES ASSUME IInv, [Next]_vars PROVE IInv'
  OBVIOUS
<1>. USE ContractAssumption DEF IInv
<1>1. ASSUME NEW n \in Ceilings, AllocsMax(n)
      PROVE  IInv'
  BY <1>1 DEF AllocsMax, Declaring, TypeOK, Unstarted, AllocsMeasured, LatencyMeasured,
    Judged, meter, truth
<1>2. ASSUME NEW n \in Ceilings, LatencyMax(n)
      PROVE  IInv'
  BY <1>2 DEF LatencyMax, Declaring, TypeOK, Unstarted, AllocsMeasured, LatencyMeasured,
    Judged, meter, truth
<1>3. CASE LoopBegin
  BY <1>3 DEF LoopBegin, Baseline, Elapsed, TypeOK, Unstarted, AllocsMeasured,
    LatencyMeasured, Judged, config, truth
<1>4. ASSUME NEW b \in BOOLEAN, LoopEnd(b)
      PROVE  IInv'
  BY <1>4 DEF LoopEnd, TypeOK, Unstarted, AllocsMeasured, LatencyMeasured, Judged, config
<1>5. ASSUME NEW b \in BOOLEAN, Malloc(b)
      PROVE  IInv'
  BY <1>5 DEF Malloc, TypeOK, Unstarted, AllocsMeasured, LatencyMeasured, Judged, config, meter
<1>6. CASE Tick
  BY <1>6 DEF Tick, TypeOK, Unstarted, AllocsMeasured, LatencyMeasured, Judged, config, meter
<1>7. CASE End
  <2>1. TypeOK' /\ (iterations = ran)' /\ Unstarted' /\ AllocsMeasured' /\ LatencyMeasured'
    BY <1>7 DEF End, Verdict, TypeOK, Unstarted, AllocsMeasured, LatencyMeasured, config, meter, truth
  <2>2. Judged'
    <3>1. Verdict = "pass" => iterations # 0 /\ ~Exceeds(AllocsPerOp, allocsMax)
      BY DEF Verdict
    <3>2. Verdict = "allocs" => iterations # 0 /\ Exceeds(AllocsPerOp, allocsMax)
      BY DEF Verdict
    <3>3. started \/ iterations = 0
      BY DEF Unstarted
    <3>. QED BY <1>7, <3>1, <3>2, <3>3 DEF End, Judged, Exceeds, AllocsPerOp, config, meter
  <2>. QED BY <2>1, <2>2
<1>8. CASE UNCHANGED vars
  BY <1>8 DEF vars, config, meter, truth, TypeOK, Unstarted, AllocsMeasured, LatencyMeasured,
    Judged, Exceeds, AllocsPerOp
<1>. QED BY <1>1, <1>2, <1>3, <1>4, <1>5, <1>6, <1>7, <1>8 DEF Next

(* The lemmas say what End's divisions let through.                        *)
LEMMA IInvBoundsAllocs == IInv => PassBoundsAllocs
<1>. SUFFICES ASSUME IInv, verdict = "pass", allocsMax # None
              PROVE  own < (allocsMax + 1) * ran
  BY DEF PassBoundsAllocs
<1>1. /\ mallocs - preMem \in Nat /\ own <= mallocs - preMem /\ own \in Nat
      /\ iterations \in Nat /\ iterations # 0 /\ iterations = ran
      /\ allocsMax \in Nat
  BY ContractAssumption DEF IInv, TypeOK, AllocsMeasured, Judged
<1>2. ~((mallocs - preMem) \div iterations > allocsMax)
  BY DEF IInv, Judged, Exceeds, AllocsPerOp
<1>3. mallocs - preMem < (allocsMax + 1) * ran
  BY <1>1, <1>2, FloorBounds
<1>. DEFINE bound == (allocsMax + 1) * ran
<1>4. bound \in Int
  BY <1>1
<1>5. mallocs - preMem < bound
  BY <1>3
<1>. HIDE DEF bound
<1>6. own < bound
  BY <1>1, <1>4, <1>5
<1>. QED BY <1>6 DEF bound

LEMMA IInvAlarms == IInv => AlarmIsReal
<1>. SUFFICES ASSUME IInv, verdict = "allocs", ~late
              PROVE  since >= (allocsMax + 1) * ran
  BY DEF AlarmIsReal
<1>1. allocsMax # None /\ started /\ (mallocs - preMem) \div iterations > allocsMax
  BY DEF IInv, Judged, Exceeds, AllocsPerOp
<1>2. /\ mallocs - preMem \in Nat /\ mallocs - preMem = since
      /\ iterations \in Nat /\ iterations # 0 /\ iterations = ran
      /\ allocsMax \in Nat
  BY <1>1, ContractAssumption DEF IInv, TypeOK, AllocsMeasured, Judged
<1>. QED BY <1>1, <1>2, FloorBounds

LEMMA IInvLatency == IInv => LatencyIsOfBodies
BY DEF IInv, LatencyIsOfBodies, LatencyMeasured, Judged, TypeOK

(* Whatever the order of setters, iterations and End, the gate's counters  *)
(* are numbers and its clock reading is not of the future.                 *)
THEOREM TypeCorrect == Spec => []TypeOK
<1>1. IInv => TypeOK
  BY DEF IInv
<1>. QED BY InitIInv, NextIInv, <1>1, PTL DEF Spec

(* A pass bounds the allocations of the body; see PassBoundsAllocs.        *)
THEOREM GateBoundsAllocs == Spec => []PassBoundsAllocs
<1>. QED BY InitIInv, NextIInv, IInvBoundsAllocs, PTL DEF Spec

(* An alarm is about allocations made since the loop began.                *)
THEOREM GateAlarmIsReal == Spec => []AlarmIsReal
<1>. QED BY InitIInv, NextIInv, IInvAlarms, PTL DEF Spec

(* The latency the gate averages is that of the bodies.                    *)
THEOREM GateLatencyIsOfBodies == Spec => []LatencyIsOfBodies
<1>. QED BY InitIInv, NextIInv, IInvLatency, PTL DEF Spec
=============================================================================
