------------------------------ MODULE Contract ------------------------------
(***************************************************************************)
(* codectest.Contract, the allocation and latency gate of the benchmarks:  *)
(* the setters, `for c.Loop() { body }`, c.End.  It measures a process in  *)
(* which other goroutines run: the count of mallocs is the process's.      *)
(* Loop is two steps, for b.Loop runs, and time passes, inside it.         *)
(***************************************************************************)
EXTENDS Integers

CONSTANTS
  Ceilings,   (* The ceilings a benchmark may declare.                     *)
  None,       (* A ceiling that is not declared.                           *)
  Start,      (* The mallocs and the clock of the process at the beginning.*)
  MaxRuns,    (* Bound: iterations of the loop.                            *)
  MaxMallocs, (* Bound: mallocs of the process.                            *)
  MaxClock    (* Bound: the clock.                                         *)

ASSUME ContractAssumption ==
  /\ Ceilings \subseteq Nat /\ None \notin Nat
  /\ Start \in Nat /\ MaxRuns \in Nat /\ MaxMallocs \in Nat /\ MaxClock \in Nat

VARIABLES
  phase,       (* Where the benchmark function is.                         *)
  allocsMax, latencyMax,
  started, iterations, iterStart, totalLat, preMem,
  verdict,     (* What End did.                                            *)
  mallocs, clock,
  late,        (* Was a ceiling declared after the first Loop?             *)
  ran,         (* The times the body has run,                              *)
  own,         (* the mallocs it made,                                     *)
  since,       (* the mallocs of the process since the first Loop,         *)
  spent        (* and the time it took.                                    *)

config == <<allocsMax, latencyMax>>
meter  == <<started, iterations, iterStart, totalLat, preMem>>
truth  == <<ran, own, since, spent>>
vars   == <<phase, config, meter, verdict, mallocs, clock, late, truth>>

TypeOK ==
  /\ phase \in {"setup", "loopFn", "body", "over", "ended"}
  /\ allocsMax \in Ceilings \cup {None} /\ latencyMax \in Ceilings \cup {None}
  /\ started \in BOOLEAN /\ late \in BOOLEAN
  /\ iterations \in Nat /\ totalLat \in Nat /\ spent \in Nat /\ ran \in Nat
  /\ iterStart \in Nat /\ iterStart <= clock /\ clock \in Nat
  /\ preMem \in Nat /\ mallocs \in Nat /\ own \in Nat /\ since \in Nat
  /\ verdict \in {"none", "noop", "pass", "allocs", "latency"}

Init ==
  /\ phase = "setup" /\ verdict = "none"
  /\ allocsMax = None /\ latencyMax = None /\ late = FALSE
  /\ started = FALSE /\ iterations = 0 /\ iterStart = 0 /\ totalLat = 0 /\ preMem = 0
  /\ mallocs = Start /\ clock = Start
  /\ ran = 0 /\ own = 0 /\ since = 0 /\ spent = 0

Declaring == phase \in {"setup", "body"}

AllocsMax(n) ==
  /\ Declaring
  /\ allocsMax' = n
  /\ late' = (late \/ started)
  /\ UNCHANGED <<phase, latencyMax, meter, verdict, mallocs, clock, truth>>

LatencyMax(n) ==
  /\ Declaring
  /\ latencyMax' = n
  /\ late' = (late \/ started)
  /\ UNCHANGED <<phase, allocsMax, meter, verdict, mallocs, clock, truth>>

(* Mutant: the baseline is never read.                                     *)
BaselineForgotten == preMem

Baseline == IF ~started /\ allocsMax # None THEN mallocs ELSE preMem

(* Mutant: the subtraction is the wrong way round.                         *)
ElapsedSwapped == iterStart - clock

Elapsed == clock - iterStart

(* Loop up to its call of b.Loop.                                          *)
LoopBegin ==
  /\ phase \in {"setup", "body"}
  /\ phase' = "loopFn"
  /\ totalLat' = IF started /\ latencyMax # None THEN totalLat + Elapsed ELSE totalLat
  /\ preMem' = Baseline
  /\ started' = TRUE
  /\ UNCHANGED <<config, iterations, iterStart, verdict, mallocs, clock, late, truth>>

(* Mutants: the last call of Loop is counted as well; the clock is not read*)
(* again for each iteration.                                               *)
CountsTheLast(next) ==
  /\ phase = "loopFn"
  /\ next => ran < MaxRuns
  /\ phase' = IF next THEN "body" ELSE "over"
  /\ iterations' = iterations + 1
  /\ iterStart' = IF next /\ latencyMax # None THEN clock ELSE iterStart
  /\ ran' = IF next THEN ran + 1 ELSE ran
  /\ UNCHANGED <<config, started, totalLat, preMem, verdict, mallocs, clock, late, own, since, spent>>

StartsOnce(next) ==
  /\ phase = "loopFn"
  /\ next => ran < MaxRuns
  /\ phase' = IF next THEN "body" ELSE "over"
  /\ iterations' = IF next THEN iterations + 1 ELSE iterations
  /\ iterStart' = IF next /\ latencyMax # None /\ iterStart = 0 THEN clock ELSE iterStart
  /\ ran' = IF next THEN ran + 1 ELSE ran
  /\ UNCHANGED <<config, started, totalLat, preMem, verdict, mallocs, clock, late, own, since, spent>>

(* b.Loop returns, and the rest of Loop.                                   *)
LoopEnd(next) ==
  /\ phase = "loopFn"
  /\ next => ran < MaxRuns
  /\ phase' = IF next THEN "body" ELSE "over"
  /\ iterations' = IF next THEN iterations + 1 ELSE iterations
  /\ iterStart' = IF next /\ latencyMax # None THEN clock ELSE iterStart
  /\ ran' = IF next THEN ran + 1 ELSE ran
  /\ UNCHANGED <<config, started, totalLat, preMem, verdict, mallocs, clock, late, own, since, spent>>

(* A malloc, of the body or of another goroutine, or of testing itself.    *)
Malloc(body) ==
  /\ mallocs < MaxMallocs /\ phase # "ended"
  /\ body => phase = "body"
  /\ mallocs' = mallocs + 1
  /\ own' = IF body THEN own + 1 ELSE own
  /\ since' = IF started THEN since + 1 ELSE since
  /\ UNCHANGED <<phase, config, meter, verdict, clock, late, ran, spent>>

Tick ==
  /\ clock < MaxClock /\ phase # "ended"
  /\ clock' = clock + 1
  /\ spent' = IF phase = "body" THEN spent + 1 ELSE spent
  /\ UNCHANGED <<phase, config, meter, verdict, mallocs, late, ran, own, since>>

(* The uint64 division, and time.Duration(meanNs), both cut the fraction.  *)
AllocsPerOp == (mallocs - preMem) \div iterations
Mean        == totalLat \div iterations

Exceeds(x, ceiling) == ceiling # None /\ x > ceiling

Verdict ==
  IF iterations = 0 THEN "noop"
  ELSE IF Exceeds(AllocsPerOp, allocsMax) THEN "allocs"
  ELSE IF Exceeds(Mean, latencyMax) THEN "latency" ELSE "pass"

End ==
  /\ phase \in {"setup", "over"}
  /\ phase' = "ended"
  /\ verdict' = Verdict
  /\ UNCHANGED <<config, meter, mallocs, clock, late, truth>>

Next ==
  \/ \E n \in Ceilings : AllocsMax(n) \/ LatencyMax(n)
  \/ LoopBegin \/ End \/ Tick
  \/ \E b \in BOOLEAN : LoopEnd(b) \/ Malloc(b)

Spec == Init /\ [][Next]_vars

-----------------------------------------------------------------------------
(* A benchmark that passes AllocsMax(n) made, in its body, fewer than n + 1*)
(* allocations a time on average, whenever it declared the ceiling and     *)
(* whatever else the process did.  It is not promised n: with n = 0, as in *)
(* "forbids any heap allocation in the measured loop body" (contract.go:   *)
(* 81-82), up to ran - 1 allocations pass.                                 *)
PassBoundsAllocs ==
  verdict = "pass" /\ allocsMax # None => own < (allocsMax + 1) * ran

(* A benchmark fails on allocations only when the process made that many   *)
(* since its first Loop, if the ceiling was declared before the loop as in *)
(* the usage of contract.go:14-24: what was allocated before is not counted.*)
AlarmIsReal ==
  verdict = "allocs" /\ ~late => since >= (allocsMax + 1) * ran

(* The mean latency is over the bodies, all of them and nothing else: not  *)
(* what b.Loop and its bookkeeping take (contract.go:88-89).               *)
LatencyIsOfBodies ==
  verdict # "none" /\ latencyMax # None /\ ~late => totalLat = spent
=============================================================================
