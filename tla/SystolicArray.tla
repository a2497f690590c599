---------------------------- MODULE SystolicArray ----------------------------
(***************************************************************************)
(* The systolic array of the accelerator (systolic_array.c) and the        *)
(* pipelined processing element (pe_microarch.c).                          *)
(*                                                                         *)
(* The array steps all its elements in one scan, row by row, and hands     *)
(* values on to neighbours the same scan has still to visit.  Calls that   *)
(* step it many times (run_cycles, run_to_completion, matmul) are a job    *)
(* whose steps are single cycles.  Values are small integers.              *)
(***************************************************************************)
EXTENDS Integers, Sequences, FiniteSets
Seqs == INSTANCE SequencesExt

CONSTANTS
  Rows, Cols,         \* config.rows, config.cols
  Depth,              \* config.pipeline_depth, the depth of a tile
  Limit,              \* cycles after which run_to_completion gives up
  Flows,              \* the dataflows tried
  Strides,            \* by which the values of operands grow
  Products,           \* the products tried, as <<m, n, k>>
  MaxCalls            \* bound on the calls made

VARIABLES
  pe, flow, done, cycle, macs,    \* systolic_array_t
  job,                \* the call under way
  mats,               \* the operands and the result of a multiplication
  calls,
  unit, act, loads    \* one processing element, its activation, inputs loaded

arrayVars == <<pe, flow, done, cycle, macs, job, mats, calls>>
unitVars == <<unit, act, loads>>

Cells == 0 .. (Rows * Cols - 1)
RowOf(i) == i \div Cols
ColOf(i) == i % Cols
At(r, c) == r * Cols + c
EmptyCell == [w |-> 0, x |-> 0, acc |-> 0, wv |-> FALSE, xv |-> FALSE]
Ready(p) == p.wv /\ p.xv

SystolicAssumption ==
  /\ Rows \in Nat \ {0} /\ Cols \in Nat \ {0} /\ Depth \in Nat \ {0} /\ Strides \subseteq Int
  /\ Products \subseteq (Nat \ {0}) \X (Nat \ {0}) \X (Nat \ {0})

NoJob == [kind |-> "none", left |-> 0, idle |-> 0, at |-> <<0, 0, 0>>, tile |-> <<1, 1, 1>>, whole |-> TRUE, first |-> TRUE]
NoMats == [m |-> 0, n |-> 0, k |-> 0, a |-> <<>>, b |-> <<>>, c |-> <<>>]

ArrayInit ==
  /\ pe = [i \in Cells |-> EmptyCell] /\ flow \in Flows /\ done = FALSE
  /\ cycle = 0 /\ macs = 0 /\ job = NoJob /\ mats = NoMats /\ calls = 0
-----------------------------------------------------------------------------
(* One cycle (sa_step): where an element hands its weight, its input and   *)
(* its sum.                                                                *)
Right(i) == IF ColOf(i) + 1 < Cols THEN {i + 1} ELSE {}
Below(i) == IF RowOf(i) + 1 < Rows THEN {i + Cols} ELSE {}
WeightTo(i) == CASE flow = "OS" -> Right(i) [] flow \in {"RS", "IS"} -> Below(i) [] OTHER -> {}
InputTo(i) == CASE flow = "OS" -> Below(i) [] flow \in {"WS", "RS"} -> Right(i) [] OTHER -> {}
SumTo(i) == CASE flow = "WS" -> Below(i) [] flow = "IS" -> Right(i) [] OTHER -> {}

Visit(s, i) ==
  LET p == s.pe[i]
      sum == p.acc + p.w * p.x
      Handed(q, j) ==
        [w |-> IF j \in WeightTo(i) THEN p.w ELSE q.w, wv |-> q.wv \/ j \in WeightTo(i),
         x |-> IF j \in InputTo(i) THEN p.x ELSE q.x, xv |-> q.xv \/ j \in InputTo(i),
         acc |-> IF j \in SumTo(i) THEN q.acc + sum ELSE q.acc]
      own == [s.pe EXCEPT ![i].acc = sum]
      east == IF Right(i) = {} THEN own ELSE [own EXCEPT ![i + 1] = Handed(@, i + 1)]
      south == IF Below(i) = {} THEN east ELSE [east EXCEPT ![i + Cols] = Handed(@, i + Cols)]
  IN IF ~Ready(p) THEN s ELSE [pe |-> south, macs |-> s.macs + 1]

Scan == [i \in 1 .. Rows * Cols |-> i - 1]
Stepped ==
  LET after[n \in 0 .. Rows * Cols] ==
        IF n = 0 THEN [pe |-> pe, macs |-> 0] ELSE LET s == after[n - 1] IN Visit(s, Scan[n])
  IN after[Rows * Cols]

Step ==
  IF done THEN UNCHANGED <<pe, cycle, macs>>
  ELSE /\ cycle' = cycle + 1 /\ pe' = Stepped.pe /\ macs' = macs + Stepped.macs

(* Loads by the caller; cells past the array are skipped. *)
Within(r, c) == {i \in Cells : RowOf(i) < r /\ ColOf(i) < c}
Calling(j) == job.kind = "none" /\ calls < MaxCalls /\ calls' = calls + 1 /\ job' = j

LoadWeights(r, c, v) ==
  /\ Calling(NoJob)
  /\ pe' = [i \in Cells |-> IF i \in Within(r, c) THEN [pe[i] EXCEPT !.w = v[i], !.wv = TRUE] ELSE pe[i]]
  /\ UNCHANGED <<flow, done, cycle, macs, mats>>

LoadInputs(r, c, v) ==
  /\ Calling(NoJob)
  /\ pe' = [i \in Cells |-> IF i \in Within(r, c) THEN [pe[i] EXCEPT !.x = v[i], !.xv = TRUE] ELSE pe[i]]
  /\ UNCHANGED <<flow, done, cycle, macs, mats>>

SaReset ==
  /\ Calling(NoJob)
  /\ pe' = [i \in Cells |-> EmptyCell] /\ done' = FALSE /\ cycle' = 0 /\ macs' = 0
  /\ UNCHANGED <<flow, mats>>

RunCycles(n) ==
  /\ Calling([NoJob EXCEPT !.kind = "cycles", !.left = n])
  /\ UNCHANGED <<pe, flow, done, cycle, macs, mats>>
CyclesStep ==
  /\ job.kind = "cycles" /\ Step
  /\ job' = IF job.left = 1 THEN NoJob ELSE [job EXCEPT !.left = @ - 1]
  /\ UNCHANGED <<flow, done, mats, calls>>

(* sa_run_to_completion, also at the end of the three sa_map functions: a  *)
(* step while some element is ready, three idle cycles and it is over.     *)
RunToCompletion ==
  /\ Calling([NoJob EXCEPT !.kind = "completion"]) /\ UNCHANGED <<pe, flow, done, cycle, macs, mats>>
AnyReady == \E i \in Cells : Ready(pe[i])
OverLimit == cycle' > Limit
CompletionStep ==
  /\ job.kind = "completion"
  /\ IF AnyReady THEN Step ELSE cycle' = cycle + 1 /\ UNCHANGED <<pe, macs>>
  /\ LET idle == IF AnyReady THEN 0 ELSE job.idle + 1
     IN IF idle = 3 \/ OverLimit THEN job' = NoJob /\ done' = TRUE
        ELSE job' = [job EXCEPT !.idle = idle] /\ UNCHANGED done
  /\ UNCHANGED <<flow, mats, calls>>
-----------------------------------------------------------------------------
(* C = A x B by tiles (sa_matmul with the array's own tile sizes,          *)
(* sa_matmul_tiled with given ones).                                       *)
Matrices(m, n) == {[e \in (0 .. m - 1) \X (0 .. n - 1) |-> 1 + s * (2 * e[1] + e[2])] : s \in Strides}

StartMatmul(m, n, k, tile, whole) ==
  /\ Calling([NoJob EXCEPT !.kind = "tile", !.tile = tile, !.whole = whole])
  /\ \E a \in Matrices(m, k), b \in Matrices(k, n) :
       mats' = [m |-> m, n |-> n, k |-> k, a |-> a, b |-> b,
                c |-> [e \in (0 .. m - 1) \X (0 .. n - 1) |-> 0]]
  /\ UNCHANGED <<pe, flow, done, cycle, macs>>
Matmul(m, n, k) == StartMatmul(m, n, k, <<Rows, Cols, Depth>>, TRUE)
MatmulTiled(m, n, k, tile) == StartMatmul(m, n, k, tile, FALSE)

Least(a, b) == IF a < b THEN a ELSE b
Deep == Least(job.tile[3], mats.k - job.at[3])

(* The cells that get a weight, an input, and those whose sum is read. *)
Wide == Least(job.tile[2], mats.n - job.at[2])
High == Least(job.tile[1], mats.m - job.at[1])
LoadTile ==
  /\ job.kind = "tile"
  /\ LET Cell(i) ==
           LET r == RowOf(i)
               c == ColOf(i)
               weighted == r < Deep /\ c < Wide
               fed == r < High /\ c < Deep
           IN [w |-> IF weighted THEN mats.b[<<job.at[3] + r, job.at[2] + c>>] ELSE pe[i].w,
               x |-> IF fed THEN mats.a[<<job.at[1] + r, job.at[3] + c>>] ELSE pe[i].x,
               acc |-> pe[i].acc, wv |-> pe[i].wv \/ weighted, xv |-> pe[i].xv \/ fed]
     IN pe' = [i \in Cells |-> Cell(i)]
  /\ job' = [job EXCEPT !.kind = "multiply", !.left = Rows + Cols + (IF job.whole THEN job.tile[3] ELSE Deep)]
  /\ UNCHANGED <<flow, done, cycle, macs, mats, calls>>

MultiplyStep ==
  /\ job.kind = "multiply" /\ job.left > 0 /\ Step
  /\ job' = [job EXCEPT !.left = @ - 1] /\ UNCHANGED <<flow, done, mats, calls>>

(* The sums of the tile are read and cleared, every operand is marked invalid. *)
\* faulty: the weights stay marked valid
ClearedWeightsStay(p, read) == [p EXCEPT !.acc = IF read THEN 0 ELSE @, !.xv = FALSE]
Cleared(p, read) == [p EXCEPT !.acc = IF read THEN 0 ELSE @, !.wv = FALSE, !.xv = FALSE]
NextTile ==
  LET k == job.at[3] + job.tile[3]
      n == job.at[2] + job.tile[2]
      m == job.at[1] + job.tile[1]
      to == IF k < mats.k THEN <<job.at[1], job.at[2], k>>
            ELSE IF n < mats.n THEN <<job.at[1], n, 0>> ELSE <<m, 0, 0>>
  IN IF to[1] >= mats.m THEN NoJob ELSE [job EXCEPT !.kind = "tile", !.at = to, !.first = FALSE]

ReadTile ==
  /\ job.kind = "multiply" /\ job.left = 0
  /\ LET Read == Within(High, Wide)
     IN /\ mats' = [mats EXCEPT !.c = [e \in DOMAIN mats.c |->
              LET r == e[1] - job.at[1]
                  c == e[2] - job.at[2]
              IN IF r \in 0 .. (Rows - 1) /\ c \in 0 .. (Cols - 1) /\ At(r, c) \in Read
                 THEN mats.c[e] + pe[At(r, c)].acc ELSE mats.c[e]]]
        /\ pe' = [i \in Cells |-> Cleared(pe[i], i \in Read)]
  /\ job' = NextTile /\ UNCHANGED <<flow, done, cycle, macs, calls>>

ArrayCall ==
  \/ \E v \in {[i \in Cells |-> 1 + s * i] : s \in Strides}, r \in 1 .. Rows : LoadWeights(r, Cols, v) \/ LoadInputs(r, 1, v)
  \/ SaReset \/ RunCycles(2) \/ RunToCompletion
  \/ \E p \in Products : Matmul(p[1], p[2], p[3]) \/ MatmulTiled(p[1], p[2], p[3], <<1, Cols, 1>>)
ArrayWork == CyclesStep \/ CompletionStep \/ LoadTile \/ MultiplyStep \/ ReadTile
ArrayStep == (ArrayCall \/ ArrayWork) /\ UNCHANGED unitVars
ArraySpec == ArrayInit /\ [][ArrayCall \/ ArrayWork]_arrayVars
-----------------------------------------------------------------------------
(* The processing element (pe_cycle): a stage lasts its latency.  owed     *)
(* says that the input has not been accumulated yet (history).  Inputs,    *)
(* sums and outputs count quarters; outputs are 4-bit integers.            *)
Idle == [stage |-> "idle", at |-> 0, w |-> 0, x |-> 0, acc |-> 0, out |-> 0, wr |-> FALSE, xr |-> FALSE, owed |-> FALSE]
UnitInit == unit = Idle /\ act \in {"none", "relu"} /\ loads = 0

Latency(s) == IF s \in {"multiply", "accumulate"} THEN 2 ELSE 1
To(s) == [unit EXCEPT !.stage = s, !.at = 0]
Activated(v) == IF act = "relu" /\ v < 0 THEN 0 ELSE v

(* pe_convert_precision to a 4-bit integer: round, then clamp. *)
Rounded(v) == IF v >= 0 THEN (v + 2) \div 4 ELSE -((2 - v) \div 4)
Clamped(v) == IF v < -8 THEN -8 ELSE IF v > 7 THEN 7 ELSE v

Loadable == unit.stage \in {"idle", "weight_ld", "input_ld", "done"}
LoadedWeight(u, w) == [u EXCEPT !.w = w, !.wr = TRUE, !.stage = "weight_ld", !.at = 0]
(* Zero gating: a zero only takes the readiness away. *)
LoadedInput(u, x) ==
  IF x = 0 THEN [u EXCEPT !.xr = FALSE]
  ELSE [u EXCEPT !.x = x, !.xr = TRUE, !.stage = "input_ld", !.at = 0, !.owed = TRUE]

(* Callers load while nothing is computed, and both operands in "done":    *)
(* a weight alone there would meet the old input again.                    *)
LoadPair(w, x) ==
  /\ Loadable /\ loads < MaxCalls /\ loads' = loads + 1
  /\ unit' = LoadedInput(LoadedWeight(unit, w), x) /\ UNCHANGED act
LoadOne(w, x) ==
  /\ Loadable /\ unit.stage # "done" /\ loads < MaxCalls /\ loads' = loads + 1
  /\ unit' \in {LoadedWeight(unit, w), LoadedInput(unit, x)} /\ UNCHANGED act
SetAccum(v) ==
  /\ Loadable /\ loads < MaxCalls /\ loads' = loads + 1 /\ unit' = [unit EXCEPT !.acc = v] /\ UNCHANGED act

FinishedUnit(u) == [u EXCEPT !.xr = FALSE, !.wr = FALSE, !.stage = "idle", !.at = 0]
PeCycle ==
  /\ unit' = LET last == unit.at + 1 >= Latency(unit.stage) IN
       CASE unit.stage = "idle" -> IF unit.wr /\ unit.xr THEN To("multiply") ELSE [unit EXCEPT !.at = 1]
         [] unit.stage = "done" -> FinishedUnit(unit)
         [] unit.stage \notin {"idle", "done"} /\ ~last -> [unit EXCEPT !.at = @ + 1]
         [] unit.stage \in {"weight_ld", "input_ld"} /\ last -> To("idle")
         [] unit.stage = "multiply" /\ last -> To("accumulate")
         [] unit.stage = "accumulate" /\ last ->
              [To("activate") EXCEPT !.acc = unit.acc + unit.w * unit.x, !.owed = FALSE]
         [] unit.stage = "activate" /\ last -> [To("output_st") EXCEPT !.out = 4 * Clamped(Rounded(Activated(unit.acc)))]
         [] unit.stage = "output_st" /\ last -> To("done")
  /\ UNCHANGED <<act, loads>>

(* pe_flush_pipeline before the product is added: later it would add the   *)
(* product again.                                                          *)
PeFlush ==
  /\ unit.stage \in {"multiply", "accumulate"}
  /\ LET sum == unit.acc + unit.w * unit.x
     IN unit' = [unit EXCEPT !.acc = sum, !.out = Activated(sum), !.stage = "done", !.wr = FALSE, !.xr = FALSE, !.owed = FALSE]
  /\ UNCHANGED <<act, loads>>

UnitCall == (\E w \in {-3, 2}, x \in {0, 3, 10} : LoadPair(w, x) \/ LoadOne(w, x)) \/ SetAccum(5) \/ PeFlush
UnitStep == (UnitCall \/ PeCycle) /\ UNCHANGED arrayVars
UnitSpec == UnitInit /\ [][UnitCall \/ PeCycle]_unitVars
-----------------------------------------------------------------------------
(* In a cycle every element that is ready at its end has multiplied        *)
(* exactly once, whatever the dataflow: what the scan hands on, it also    *)
(* uses in the same cycle.                                                 *)
OneProductEach(s) == s.macs = Cardinality({i \in Cells : Ready(s.pe[i])})

(* Weight-stationary: a row works on one input, that of its first valid    *)
(* element, and a sum takes the sums above it of the same cycle along.     *)
First(i) ==
  LET fed == {j \in Cells : RowOf(j) = RowOf(i) /\ j <= i /\ pe[j].xv /\ \A h \in j .. i : pe[h].wv}
  IN IF fed = {} THEN -1 ELSE CHOOSE j \in fed : \A h \in fed : j <= h
Own(i) == IF First(i) < 0 THEN 0 ELSE pe[i].w * pe[First(i)].x
Above(s, i) == IF RowOf(i) = 0 \/ First(i - Cols) < 0 THEN 0 ELSE s.pe[i - Cols].acc
RowsBroadcast(s) ==
  flow = "WS" => \A i \in Cells : s.pe[i].acc = pe[i].acc + Above(s, i) + Own(i)

(* From the second tile on an array multiplies the operands of the tile    *)
(* only: nothing of the tile before is still marked valid.                 *)
TilesApart == job.kind = "tile" /\ ~job.first => \A i \in Cells : ~pe[i].wv /\ ~pe[i].xv

(* Every dataflow, run, completion and tiling together. *)
SystolicSound == TilesApart /\ (done \/ LET s == Stepped IN OneProductEach(s) /\ RowsBroadcast(s))

(* An input is accumulated at most once, and what is put out is the        *)
(* nearest number of the output type to the activated sum.                 *)
UsedOnce == unit.stage \in {"multiply", "accumulate"} => unit.owed
Outputs == {4 * v : v \in -8 .. 7}
Gap(v) == IF v > Activated(unit.acc) THEN v - Activated(unit.acc) ELSE Activated(unit.acc) - v
NearestOutput == unit.stage = "output_st" => unit.out \in Outputs /\ \A v \in Outputs : Gap(unit.out) <= Gap(v)
PeSound == UsedOnce /\ NearestOutput

(* MatmulExact: "Computes C = A x B" (systolic_array.c:276), once a       *)
(* multiplication has ended.                                               *)
Product(e) == Seqs!FoldLeft(LAMBDA s, k : s + mats.a[<<e[1], k - 1>>] * mats.b[<<k - 1, e[2]>>], 0, [i \in 1 .. mats.k |-> i])
MatmulExact == job.kind = "none" /\ mats # NoMats => \A e \in DOMAIN mats.c : mats.c[e] = Product(e)
=============================================================================
