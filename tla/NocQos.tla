------------------------------- MODULE NocQos -------------------------------
(***************************************************************************)
(* Quality of service of mini-noc-design (noc_qos.c): the shares of the    *)
(* virtual channels, the deficit round-robin arbiter and the token bucket; *)
(* and the traffic generator with the simulator's loop around it           *)
(* (noc_perf.c).  Weights, deficits and tokens are counted in tenths, the  *)
(* injection rate in millionths and the hot-spot's share in thousandths,   *)
(* as finely as the code draws its numbers.                                *)
(***************************************************************************)
EXTENDS Integers, Sequences, FiniteSets
QosSets == INSTANCE FiniteSetsExt
QosLists == INSTANCE SequencesExt

CONSTANTS
  Classes,      \* 0 .. num_classes - 1
  Weightings,   \* functions from Classes to weights, in tenths
  MaxVc,        \* NOC_MAX_VC
  Rates,        \* tokens a cycle brings, in tenths
  Bursts,       \* burst_size, in tenths
  MaxTurns,     \* bound: arbitrations, refills
  Generators,   \* [pattern, side, length, rate, hot, hotNode, seed] of the generators set up
  MaxSimCycles  \* bound: cycles simulated

VARIABLES
  weights, deficit, current, waits,           \* waits: history, turns a class was passed over
  rate, burst, tokens, allowed, blocked, refills,      \* refills: history
  turns,
  shares,                                     \* class_vc_count, and the channels asked for
  gen,                                        \* a generator with packets, flits; or none yet
  sim                                         \* the simulator: [cycle, maxCycles]

qosVars == <<weights, deficit, current, waits, rate, burst, tokens, allowed, blocked, refills, turns, shares>>
trafficVars == <<gen, sim>>

Quantum == 10
NumClasses == Cardinality(Classes)
-----------------------------------------------------------------------------
(* noc_qos_vc_allocator_init: shares by weight, rounded down but at least  *)
(* one; the rest to class 0; then the channels are dealt out in order      *)
(* until NOC_MAX_VC is reached.  Before is what the classes before c have. *)
Before(count, c) ==
  LET sum[n \in 0 .. c] == IF n = 0 THEN 0 ELSE sum[n - 1] + count[n - 1]
  IN sum[c]

Portion(w, numVcs) ==
  LET part(c) == (numVcs * w[c]) \div Before(w, NumClasses)
  IN [c \in Classes |-> IF w[c] = 0 THEN 0 ELSE IF part(c) < 1 THEN 1 ELSE part(c)]

Share(w, numVcs) ==
  LET given == Before(Portion(w, numVcs), NumClasses)
  IN [c \in Classes |->
        Portion(w, numVcs)[c] + (IF c = 0 /\ given < numVcs THEN numVcs - given ELSE 0)]

VcsOf(count, c) == {v \in 0 .. MaxVc - 1 : Before(count, c) <= v /\ v < Before(count, c) + count[c]}
Admit(count, c) == count[c] > 0

Configure(numVcs) ==
  /\ turns = 0 /\ turns' = MaxTurns
  /\ shares' = [vcs |-> numVcs, count |-> Share(weights, numVcs)]
  /\ UNCHANGED <<weights, deficit, current, waits, rate, burst, tokens, allowed, blocked, refills>>
-----------------------------------------------------------------------------
(* noc_wrr_select: the classes from current on get their weight, up to the *)
(* first that asks and has a quantum; when none has, all get theirs again. *)
InTurn(i) == (current + i) % NumClasses
DeficitOf(i) == deficit[InTurn(i)] + weights[InTurn(i)]
Ready(requests) ==
  {i \in 0 .. NumClasses - 1 : InTurn(i) \in requests /\ DeficitOf(i) >= Quantum}

NextTurnSame(c) == c          \* faulty: the class served goes first again
NextTurn(c) == (c + 1) % NumClasses

Select(requests) ==
  /\ turns < MaxTurns /\ turns' = turns + 1
  /\ \/ \E i \in Ready(requests) :
          LET served == InTurn(i)
              seen == {InTurn(j) : j \in 0 .. i}
          IN /\ \A j \in Ready(requests) : i <= j
             /\ deficit' = [c \in Classes |->
                  deficit[c] + (IF c \in seen THEN weights[c] ELSE 0)
                             - (IF c = served THEN Quantum ELSE 0)]
             /\ current' = NextTurn(served)
             /\ waits' = [c \in Classes |->
                  IF c \in requests /\ c # served THEN waits[c] + 1 ELSE 0]
     \/ /\ Ready(requests) = {}
        /\ deficit' = [c \in Classes |-> deficit[c] + 2 * weights[c]]
        /\ waits' = [c \in Classes |-> IF c \in requests THEN waits[c] + 1 ELSE 0]
        /\ UNCHANGED current
  /\ UNCHANGED <<weights, rate, burst, tokens, allowed, blocked, refills, shares>>

(* noc_rate_limiter_allow and noc_rate_limiter_refill *)
Allow ==
  /\ turns < MaxTurns /\ turns' = turns + 1
  /\ tokens' = IF tokens >= 10 THEN tokens - 10 ELSE tokens
  /\ allowed' = IF tokens >= 10 THEN allowed + 1 ELSE allowed
  /\ blocked' = IF tokens >= 10 THEN blocked ELSE blocked + 1
  /\ UNCHANGED <<weights, deficit, current, waits, rate, burst, refills, shares>>

Refilled(t) == IF t + rate > burst THEN burst ELSE t + rate

Refill ==
  /\ turns < MaxTurns /\ turns' = turns + 1
  /\ tokens' = Refilled(tokens)
  /\ refills' = refills + 1
  /\ UNCHANGED <<weights, deficit, current, waits, rate, burst, allowed, blocked, shares>>
-----------------------------------------------------------------------------
(* The generator's random numbers: (1103515245 * seed + 12345) modulo 2^31, *)
(* with the multiplier cut in two, so that no product leaves the range of   *)
(* TLC's integers for seeds below 2^15.                                     *)
Random(seed) ==
  LET low == 20077 * seed + 12345
      high == (((16838 * seed) % 2^15) + (low \div 2^16)) % 2^15
  IN high * 2^16 + (low % 2^16)

Clamp(v, k) == IF v < 0 THEN 0 ELSE IF v >= k THEN k - 1 ELSE v
NotSelf(d, s, n) == IF d = s THEN (d + 1) % n ELSE d
Bits(n) == QosSets!Min({b \in 0 .. n : 2^b > n - 1})
Mirror(s, bits) == QosSets!MapThenSumSet(LAMBDA b : ((s \div 2^b) % 2) * 2^((bits - 1) - b), 0 .. bits - 1)
And(a, b, bits) ==
  QosSets!MapThenSumSet(LAMBDA j : ((a \div 2^j) % 2) * ((b \div 2^j) % 2) * 2^j, 0 .. bits - 1)

Transpose(s, k) == Clamp(s % k, k) * k + Clamp(s \div k, k)
Drawn(rand, s, n) == NotSelf(rand % n, s, n)
Offsets == <<<<1, 0>>, <<-1, 0>>, <<0, 1>>, <<0, -1>>>>

(* Where node s sends.  The seed is fixed and its own for every node, so    *)
(* that a node sends to one destination for good, in the drawn patterns     *)
(* too.                                                                     *)
Dest(g, s) ==
  LET k == g.side
      n == k * k
      x == s % k
      y == s \div k
      rand == Random(g.seed + s)
      step == Offsets[(rand % 4) + 1]
  IN CASE g.pattern = "TRANSPOSE" -> Transpose(s, k)
       [] g.pattern = "BIT_REVERSE" -> NotSelf(And(Mirror(s, Bits(n)), n - 1, Bits(n)), s, n)
       [] g.pattern = "BIT_COMPLEMENT" -> NotSelf(And(2^Bits(n) - 1 - s, n - 1, Bits(n)), s, n)
       [] g.pattern = "TORNADO" -> y * k + (((x + k \div 2) - 1) % k)
       [] g.pattern = "NEIGHBOR" -> Clamp(y + step[2], k) * k + Clamp(x + step[1], k)
       [] g.pattern = "HOTSPOT" -> IF rand % 1000 < g.hot THEN g.hotNode ELSE Drawn(rand, s, n)
       [] g.pattern = "SHUFFLE" -> NotSelf((2 * s) % n, s, n)
       [] OTHER -> Drawn(rand, s, n)   \* uniform, and custom, which is the same

(* A cycle asks every node in turn; the seed moves on with the packets.     *)
Asked(g, node) ==
  IF Random(g.seed + g.packets + node) % 1000000 < g.rate
  THEN [g EXCEPT !.packets = @ + 1, !.flits = @ + g.length] ELSE g

GenCycle(g) == QosLists!FoldLeft(Asked, g, [i \in 1 .. g.side * g.side |-> i - 1])
Injected(g) == GenCycle(g).packets - g.packets

(* The simulator is set up once, and then run for so many cycles at a time. *)
(* Routers are given no route and the packets counted are never injected,   *)
(* so that the routers stay empty, and running them changes nothing.        *)
NoGenerator == [pattern |-> "NONE"]
SimulatorInit(g) ==
  /\ gen = NoGenerator
  /\ gen' = [pattern |-> g.pattern, side |-> g.side, length |-> g.length, rate |-> g.rate, hot |-> g.hot,
             hotNode |-> g.hotNode, seed |-> g.seed, packets |-> 0, flits |-> 0]
  /\ sim' = [cycle |-> 0, maxCycles |-> 0]

AfterCycles(g, cycles) == QosLists!FoldLeft(LAMBDA h, c : GenCycle(h), g, [c \in 1 .. cycles |-> c])
SimulatorRun(cycles) ==
  /\ gen # NoGenerator /\ sim.cycle + cycles <= MaxSimCycles
  /\ gen' = AfterCycles(gen, cycles)
  /\ sim' = [cycle |-> sim.cycle + cycles, maxCycles |-> sim.cycle + cycles]

SimulatorDestroy == gen # NoGenerator /\ gen' = NoGenerator /\ sim' = [cycle |-> 0, maxCycles |-> 0]
-----------------------------------------------------------------------------
(* Estimates, as fractions <<numerator, denominator>>.  The share of the    *)
(* hot spot is in tenths.                                                   *)
JainFairness(xs) ==
  LET sum == QosLists!FoldLeft(LAMBDA s, x : s + x, 0, xs)
      squares == QosLists!FoldLeft(LAMBDA s, x : s + x * x, 0, xs)
  IN IF squares = 0 THEN <<0, 1>> ELSE <<sum * sum, Len(xs) * squares>>

HotspotThroughput(base, tenths, nodes) ==
  IF nodes <= 1 \/ tenths < 0 THEN <<base, 1>>
  ELSE IF tenths >= 10 THEN <<base, nodes>> ELSE <<20 * base, 20 + tenths * (nodes - 1)>>
-----------------------------------------------------------------------------
InitQos ==
  /\ weights \in Weightings /\ deficit = [c \in Classes |-> 0] /\ current = 0
  /\ waits = [c \in Classes |-> 0]
  /\ rate \in Rates /\ burst \in Bursts /\ tokens = burst /\ allowed = 0 /\ blocked = 0 /\ refills = 0
  /\ turns = 0 /\ shares = [vcs |-> 0, count |-> [c \in Classes |-> 0]]
InitTraffic == gen = NoGenerator /\ sim = [cycle |-> 0, maxCycles |-> 0]

QosStep ==
  \/ Allow \/ Refill
  \/ \E requests \in SUBSET Classes : Select(requests)
  \/ \E numVcs \in NumClasses .. MaxVc : Configure(numVcs)

(* What the network is given: classes numbered from 0, each with a weight.  *)
QosAssumption ==
  /\ NumClasses \in Nat \ {0} /\ Classes = 0 .. NumClasses - 1 /\ MaxVc \in Nat
  /\ Weightings \subseteq [Classes -> Nat \ {0}] /\ Rates \subseteq Nat /\ Bursts \subseteq Nat

QosSpec == InitQos /\ [][QosStep]_qosVars

TrafficStep ==
  \/ \E g \in Generators : SimulatorInit(g)
  \/ \E cycles \in 0 .. 2 : SimulatorRun(cycles)
  \/ SimulatorDestroy
-----------------------------------------------------------------------------
(* No class starves: one that keeps asking is passed over at most as often *)
(* as it takes every class to go once for each visit its weight needs to   *)
(* make up a quantum.                                                      *)
Visits(c) == (Quantum + weights[c] - 1) \div weights[c]
NoClassStarves == \A c \in Classes : waits[c] < NumClasses * Visits(c)

(* What a limiter lets through is covered by what it was given: never more *)
(* than the first bucket and the refills, and never more than one bucket   *)
(* beyond the rate.                                                        *)
BudgetKept ==
  /\ tokens \in 0 .. burst
  /\ 10 * allowed + tokens <= burst + rate * refills

(* A class that admission accepts has a channel of its own, and no channel *)
(* belongs to two, as long as the shares fit into NOC_MAX_VC.              *)
SharesHeld ==
  LET count == shares.count
  IN shares.vcs > 0 /\ Before(count, NumClasses) <= MaxVc =>
       /\ \A c \in Classes : Admit(count, c) <=> VcsOf(count, c) # {}
       /\ \A c, d \in Classes : c # d => VcsOf(count, c) \cap VcsOf(count, d) = {}
       /\ Before(count, NumClasses) >= shares.vcs

(* Every destination is a node.  Transpose and tornado give every node one  *)
(* source, the bit complement and the bit reversal do when the nodes are a  *)
(* power of two and no node is its own image; and no node sends to itself   *)
(* unless the pattern's formula has a fixed point.                          *)
TrafficSpread ==
  gen # NoGenerator =>
    LET all == 0 .. gen.side * gen.side - 1
        to == [s \in all |-> Dest(gen, s)]
        once == \A s, t \in all : s # t => to[s] # to[t]
    IN /\ \A s \in all : to[s] \in all
       /\ gen.pattern \in {"TRANSPOSE", "TORNADO"} => once
       /\ gen.pattern = "BIT_COMPLEMENT" /\ gen.side \in {2, 4, 8} => once
       /\ gen.pattern \in {"BIT_REVERSE", "BIT_COMPLEMENT", "SHUFFLE", "UNIFORM", "CUSTOM"} =>
            \A s \in all : to[s] # s
       /\ gen.pattern = "HOTSPOT" => \A s \in all : to[s] = s => s = gen.hotNode

(* Flits are what the packets amount to, and the run over one cycle after   *)
(* another is the run over all of them.  A generator that injects nothing   *)
(* in a cycle never injects again, because nothing else moves its seed.     *)
RunsAddUp ==
  gen # NoGenerator =>
    /\ gen.flits = gen.length * gen.packets
    /\ gen.packets <= sim.cycle * gen.side * gen.side
    /\ AfterCycles([gen EXCEPT !.packets = 0, !.flits = 0], sim.cycle) = gen
    /\ Injected(gen) = 0 => AfterCycles(gen, 3) = gen

(* The index lies between 1/n and 1, and is 1 only when all get the same;   *)
(* the throughput falls, and never rises, with the share of the hot spot,   *)
(* down to one node's part of it.                                           *)
AtMost(a, b) == a[1] * b[2] <= b[1] * a[2]
EstimatesSound ==
  gen = NoGenerator =>
    /\ \A xs \in [1 .. 3 -> 0 .. 3] :
         LET j == JainFairness(xs) IN
         (\E i \in 1 .. 3 : xs[i] > 0) =>
            /\ AtMost(<<1, 3>>, j) /\ AtMost(j, <<1, 1>>)
            /\ AtMost(<<1, 1>>, j) <=> \A i \in 1 .. 3 : xs[i] = xs[1]
    /\ \A n \in 2 .. 5, h \in 0 .. 9 :
         /\ AtMost(HotspotThroughput(6, h + 1, n), HotspotThroughput(6, h, n))
         /\ AtMost(<<6, n>>, HotspotThroughput(6, h, n))

TrafficSound == TrafficSpread /\ RunsAddUp /\ EstimatesSound

(* No class of the network waits for good, no limiter lets through more    *)
(* than it was given, and every class that is let in has channels.         *)
QosSound == NoClassStarves /\ BudgetKept /\ SharesHeld
=============================================================================
