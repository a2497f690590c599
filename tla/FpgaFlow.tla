------------------------------ MODULE FpgaFlow ------------------------------
(***************************************************************************)
(* The FPGA flow from a gate network to a configuration file: technology   *)
(* mapping (techmap_fpga.c), the driver that runs the passes (fpga_flow.c),*)
(* the ring of pads (io_planning.c) and the bit stream (bitstream_gen.c).  *)
(* What packing, placement, routing and timing do inside is modelled in    *)
(* FpgaFabric and FpgaRouting; here a pass leaves the counts that the next *)
(* one reads.                                                              *)
(*                                                                         *)
(* A truth table is the set of the input vectors it is one for.  A frame's *)
(* words are one value, and the CRC of a file tells all contents apart.    *)
(***************************************************************************)
EXTENDS Naturals, Integers, Sequences, FiniteSets
LOCAL INSTANCE SequencesExt
LOCAL INSTANCE FiniteSetsExt

CONSTANTS
    K,             \* inputs of a LUT
    GateTypes,     \* gate types a network may use
    MaxGates,      \* FPGA_MAX_BOOL_NODES
    Tiles,         \* CLBs of the fabric
    ClbLuts,       \* LUTs one CLB takes
    TopPads,       \* pads_per_side[RING_TOP]
    MaxPads,       \* FPGA_MAX_PADS
    MaxBanks,      \* FPGA_MAX_BANKS
    MaxFrames,     \* FPGA_MAX_FRAMES
    PeriodHops,    \* clock period, in hops of the LUT chain that timing builds
    Reruns         \* bound: whole flows, and stages called by hand

VARIABLES
    gates,      \* bn->nodes: [type, ins, refs, pi, po]
    level,      \* levels, -1 while unreached
    lutMap,     \* entries: [node, ins, table, depth]
    cofactors,  \* the last Shannon expansion: [func, k, var, c0, c1]
    stage,      \* flow->stage
    driver,     \* the stage flow_run_all comes to next, or "no"
    success,    \* flow->success
    tilesUsed,  \* tiles whose CLB is used
    totals,     \* total_luts, total_clbs, blocks placed
    pads, banks,
    frames,     \* bit stream, <<>> before there is one
    made,       \* flow->bitstream is there
    file,       \* what a written file holds: [count, crc, data]; count -1 for no file
    runs        \* flows and stages started

netVars  == <<gates, level, lutMap, cofactors>>
fileVars == <<frames, made, file>>
flowVars == <<netVars, stage, driver, success, tilesUsed, totals, pads, banks, fileVars, runs>>

-----------------------------------------------------------------------------
(* The gate network.                                                       *)
AddGate(type, pi) ==
    /\ stage = "INPUT" /\ driver = "no" /\ lutMap = <<>> /\ level = <<>>
    /\ Len(gates) < MaxGates
    /\ gates' = Append(gates, [type |-> type, ins |-> <<>>, refs |-> 0, pi |-> pi, po |-> FALSE])
    /\ UNCHANGED <<level, lutMap, cofactors, stage, driver, success, tilesUsed, totals, pads, banks,
                   fileVars, runs>>

(* bool_network_add_edge, inputs filled in order; a gate may name itself.   *)
AddInput(from, to) ==
    /\ stage = "INPUT" /\ driver = "no" /\ lutMap = <<>> /\ level = <<>>
    /\ ~gates[to].pi /\ to = Len(gates)
    /\ Len(gates[to].ins) < 2
    /\ gates' = [[gates EXCEPT ![to].ins = Append(@, from)] EXCEPT ![from].refs = @ + 1]
    /\ UNCHANGED <<level, lutMap, cofactors, stage, driver, success, tilesUsed, totals, pads, banks,
                   fileVars, runs>>

SetOutput(n) ==
    /\ stage = "INPUT" /\ driver = "no" /\ lutMap = <<>> /\ level = <<>>
    /\ ~gates[n].po /\ ~gates[n].pi /\ n = Len(gates)
    /\ gates' = [gates EXCEPT ![n].po = TRUE]
    /\ UNCHANGED <<level, lutMap, cofactors, stage, driver, success, tilesUsed, totals, pads, banks,
                   fileVars, runs>>

(* The design the flow makes up when there is none: here one full adder of  *)
(* the four that flow_create_example_adder chains.                          *)
ExampleAdder ==
    LET Pi(r) == [type |-> "BUF", ins |-> <<>>, refs |-> r, pi |-> TRUE, po |-> FALSE]
        G(t, in, r, out) == [type |-> t, ins |-> in, refs |-> r, pi |-> FALSE, po |-> out]
    IN <<Pi(3), Pi(3), Pi(3), G("XOR", <<1, 2>>, 1, FALSE), G("XOR", <<4, 3>>, 0, TRUE),
         G("NAND", <<1, 2>>, 1, FALSE), G("NAND", <<1, 3>>, 1, FALSE), G("NAND", <<2, 3>>, 1, FALSE),
         G("NAND", <<6, 7, 8>>, 0, TRUE)>>

(* bool_network_levelize: gates on or behind a loop stay unreached.         *)
RECURSIVE Levels(_, _)
Levels(gs, lv) ==
    LET ready == {n \in DOMAIN gs : lv[n] = -1 /\ \A i \in Range(gs[n].ins) : lv[i] # -1}
    IN IF ready = {} THEN lv
       ELSE Levels(gs, [n \in DOMAIN gs |->
                          IF n \in ready THEN Max({-1} \cup {lv[i] : i \in Range(gs[n].ins)}) + 1
                          ELSE lv[n]])
Levelize(gs) == Levels(gs, [n \in DOMAIN gs |-> -1])

Gate(type, a, b, c) ==
    CASE type = "AND"  -> a * b = 1
      [] type = "OR"   -> a + b > 0
      [] type = "NOT"  -> a = 0
      [] type = "XOR"  -> a # b
      [] type = "NAND" -> a * b = 0
      [] type = "NOR"  -> a + b = 0
      [] type = "XNOR" -> a = b
      [] type = "BUF"  -> a = 1
      [] type = "MUX"  -> IF b = 1 THEN c # 0 ELSE a = 1

(* cut_truth_table: the gate at the root over its first two inputs (three   *)
(* of a multiplexer); an input that occurs twice takes the later bit.       *)
TruthTable(gs, root, ins) ==
    LET Bit(pat, i) ==
            LET at == {j \in DOMAIN ins : ins[j] = i}
            IN IF at = {} THEN -1 ELSE (pat \div 2^(Max(at) - 1)) % 2
        own == gs[root].ins
        B(pat) == IF Len(own) > 1 THEN Bit(pat, own[2]) ELSE 0
        C(pat) == IF Len(own) > 2 THEN Bit(pat, own[3]) ELSE 0
    IN {pat \in 0..2^Len(ins)-1 : own # <<>> /\ Gate(gs[root].type, Bit(pat, own[1]), B(pat), C(pat))}

(* flowmap_label: a gate's label is the greatest of its inputs', one more   *)
(* when at least K of them have it.                                         *)
RECURSIVE LabelFrom(_, _, _, _)
LabelFrom(gs, lv, labels, at) ==
    IF at = Len(gs) THEN labels
    ELSE LabelFrom(gs, lv,
          [n \in DOMAIN gs |->
             IF lv[n] # at \/ labels[n] >= 0 THEN labels[n]
             ELSE LET top == Max({0} \cup {labels[i] : i \in Range(gs[n].ins)})
                      many == Cardinality({j \in DOMAIN gs[n].ins : labels[gs[n].ins[j]] = top})
                  IN IF gs[n].ins # <<>> /\ many >= K THEN top + 1 ELSE top],
          at + 1)
Labels(gs, lv) == LabelFrom(gs, lv, [n \in DOMAIN gs |-> IF gs[n].pi THEN 0 ELSE -1], 0)

\* faulty
NeedsLutInside(gs, lv, labels, n) ==
    gs[n].refs > 1 \/ lv[n] = 0 \/ (n > 1 /\ labels[n] > labels[n-1])

(* A gate gets a LUT: an output, one with several readers, one of level 0,  *)
(* or one whose label is above that of the gate numbered just before it.    *)
NeedsLut(gs, lv, labels, n) ==
    \/ gs[n].po
    \/ gs[n].refs > 1
    \/ lv[n] = 0
    \/ n > 1 /\ labels[n] > labels[n-1]

Entry(gs, labels, n) ==
    LET ins == SubSeq(gs[n].ins, 1, IF Len(gs[n].ins) < K THEN Len(gs[n].ins) ELSE K)
    IN [node |-> n, ins |-> ins, table |-> TruthTable(gs, n, ins), depth |-> labels[n]]

(* flowmap_generate: deepest level first, gates of a level in order.        *)
FlowMap(gs, lv) ==
    LET labels == Labels(gs, lv)
        chosen == {n \in DOMAIN gs : lv[n] >= 0 /\ NeedsLut(gs, lv, labels, n)}
        order == SetToSortSeq(chosen, LAMBDA m, n : lv[m] > lv[n] \/ (lv[m] = lv[n] /\ m < n))
    IN [k \in DOMAIN order |-> Entry(gs, labels, order[k])]

(* dagmap_area_mapping: if the first entry has room, the second one takes   *)
(* its node as one more input and the first is dropped.                     *)
DagMap(map) ==
    IF Len(map) > 1 /\ Len(map[1].ins) + 1 <= K
    THEN [Tail(map) EXCEPT ![1].ins = Append(@, map[1].node)]
    ELSE map

(* cut_enumerate: the gate's own inputs, and for each further input that is *)
(* a gate the cut that takes that gate in, if it is not too wide.           *)
CutsOf(gs, n) ==
    {gs[n].ins} \cup
    {SelectSeq([j \in DOMAIN gs[n].ins |-> IF j = c THEN 0 ELSE gs[n].ins[j]], LAMBDA x : x # 0)
        \o gs[gs[n].ins[c]].ins :
        c \in {d \in 2..Len(gs[n].ins) :
                 /\ ~gs[gs[n].ins[d]].pi
                 /\ Len(gs[n].ins) - 1 + Len(gs[gs[n].ins[d]].ins) <= K}}

MapArea ==
    /\ stage = "INPUT" /\ driver = "no" /\ level = <<>> /\ gates # <<>>
    /\ level' = Levelize(gates)
    /\ lutMap' = DagMap(FlowMap(gates, level'))
    /\ UNCHANGED <<gates, cofactors, stage, driver, success, tilesUsed, totals, pads, banks, fileVars,
                   runs>>

(* shannon_decompose: each vector loses bit v and has the bits above it     *)
(* moved down, but the bits that were there are kept as well.               *)
Bits(i, k) == {b \in 0..k-1 : (i \div 2^b) % 2 = 1}
Number(bits) == MapThenSumSet(LAMBDA b : 2^b, bits)
Without(i, k, v) ==
    Number(((Bits(i, k) \ {v}) \cup {b - 1 : b \in {c \in Bits(i, k) : c > v}}) \cap 0..k-2)

Shannon(func, k, v) ==
    /\ stage = "INPUT" /\ driver = "no" /\ gates = <<>> /\ cofactors.k = 0
    /\ cofactors' = [func |-> func, k |-> k, var |-> v,
                     c0 |-> {Without(i, k, v) : i \in {j \in func : v \notin Bits(j, k)}},
                     c1 |-> {Without(i, k, v) : i \in {j \in func : v \in Bits(j, k)}}]
    /\ UNCHANGED <<gates, level, lutMap, stage, driver, success, tilesUsed, totals, pads, banks,
                   fileVars, runs>>

-----------------------------------------------------------------------------
(* The driver.  A stage may be called by hand, or is next in flow_run_all.  *)
StageOrder == <<"SYNTHESIS", "TECHMAP", "PACKING", "PLACEMENT", "ROUTING", "TIMING", "BITSTREAM",
                "PROGRAMMING">>
After(s) == LET i == CHOOSE j \in DOMAIN StageOrder : StageOrder[j] = s
            IN IF i = Len(StageOrder) THEN "end" ELSE StageOrder[i + 1]

RunAll ==
    /\ driver = "no" /\ runs < Reruns
    /\ driver' = "SYNTHESIS"
    /\ runs' = runs + 1
    /\ UNCHANGED <<netVars, stage, success, tilesUsed, totals, pads, banks, fileVars>>

(* A call of the stage named s, by hand or by the driver, that returns ok.  *)
Called(s, ok) ==
    /\ \/ driver = s /\ runs' = runs
       \/ driver = "no" /\ runs < Reruns /\ runs' = runs + 1
    /\ driver' = IF driver = "no" THEN "no" ELSE IF ok THEN After(s) ELSE "no"
    /\ stage' = IF ok THEN s ELSE IF driver = "no" THEN stage ELSE "ERROR"

RunSynthesis ==
    /\ gates' = IF gates = <<>> THEN ExampleAdder ELSE gates
    /\ level' = Levelize(gates')
    /\ Called("SYNTHESIS", TRUE)
    /\ UNCHANGED <<lutMap, cofactors, success, tilesUsed, totals, pads, banks, fileVars>>

RunTechmap ==
    /\ gates # <<>>
    /\ level' = Levelize(gates)
    /\ lutMap' = FlowMap(gates, level')
    /\ Called("TECHMAP", lutMap' # <<>>)
    /\ totals' = IF lutMap' # <<>> THEN [totals EXCEPT !.luts = Len(lutMap')] ELSE totals
    /\ UNCHANGED <<gates, cofactors, success, tilesUsed, pads, banks, fileVars>>

Smaller(a, b) == IF a < b THEN a ELSE b
Larger(a, b) == IF a < b THEN b ELSE a

(* Only LUTs are exported, so CLBs are filled one after another; the tiles  *)
(* of an earlier, larger design stay used.                                  *)
RunPacking ==
    LET n == Smaller((Len(lutMap) + ClbLuts - 1) \div ClbLuts, Tiles) IN
    /\ Called("PACKING", lutMap # <<>>)
    /\ tilesUsed' = Larger(tilesUsed, n)
    /\ totals' = IF lutMap = <<>> THEN totals
                 ELSE [totals EXCEPT !.clbs = n, !.luts = Smaller(Len(lutMap), Tiles * ClbLuts)]
    /\ UNCHANGED <<netVars, success, pads, banks, fileVars>>

RunPlacement ==
    /\ tilesUsed > 0
    /\ Called("PLACEMENT", TRUE)
    /\ totals' = [totals EXCEPT !.blocks = tilesUsed]
    /\ UNCHANGED <<netVars, success, tilesUsed, pads, banks, fileVars>>

(* The resource graph is built anew; the driver's net list is empty.        *)
RunRouting ==
    /\ Called("ROUTING", TRUE)
    /\ UNCHANGED <<netVars, success, tilesUsed, totals, pads, banks, fileVars>>

(* The timing graph is a chain of at most sixteen LUTs: one slack for all.  *)
RunTiming ==
    /\ Called("TIMING", TRUE)
    /\ success' = (Smaller(Len(lutMap), 16) - 1 <= PeriodHops)
    /\ UNCHANGED <<netVars, tilesUsed, totals, pads, banks, fileVars>>

FrameOf(t) == [col |-> t - 1, row |-> 0, words |-> 0]

RunBitstream ==
    /\ Called("BITSTREAM", TRUE)
    /\ made' = TRUE
    /\ frames' = [t \in 1..Smaller(tilesUsed, MaxFrames) |-> FrameOf(t)]
    /\ UNCHANGED <<netVars, success, tilesUsed, totals, pads, banks, file>>

(* io_plan_full_ring adds to whatever ring there is.                        *)
Signal == [type |-> "BIDIR", net |-> 0, bank |-> 0]
Supply(t) == [type |-> t, net |-> 0, bank |-> 0]

PowerPads(signals) ==
    LET Root(n) == CHOOSE r \in 0..n : r * r >= n /\ (r = 0 \/ (r - 1) * (r - 1) < n)
        half == (Root(signals) + 1) \div 2
    IN IF signals <= 0 \/ half < 2 THEN 2 ELSE half

RunIoPlanning ==
    LET new == Smaller(4, TopPads)
        signals == Cardinality({i \in DOMAIN pads : pads[i].type = "BIDIR"})
                     + Smaller(new, MaxPads - Len(pads))
        pairs == FlattenSeq([i \in 1..PowerPads(signals) \div 2 |->
                               <<Supply("POWER"), Supply("GROUND")>>])
        wanted == pads \o [i \in 1..new |-> Signal] \o pairs
    IN /\ Called("PROGRAMMING", TRUE)
       /\ pads' = SubSeq(wanted, 1, Smaller(Len(wanted), MaxPads))
       /\ banks' = IF Len(banks) < MaxBanks THEN Append(banks, <<>>) ELSE banks
       /\ UNCHANGED <<netVars, success, tilesUsed, totals, fileVars>>

(* The end of flow_run_all: complete, and a success whatever timing said.   *)
Complete ==
    /\ driver = "end"
    /\ driver' = "no" /\ stage' = "COMPLETE" /\ success' = TRUE
    /\ UNCHANGED <<netVars, tilesUsed, totals, pads, banks, fileVars, runs>>

-----------------------------------------------------------------------------
(* Pads.                                                                   *)

(* io_ring_assign_bank appends to the bank's list each time it is called.   *)
AssignBank(p, b) ==
    /\ driver = "no" /\ p \in DOMAIN pads /\ b \in DOMAIN banks
    /\ Len(banks[b]) < 2
    /\ pads' = [pads EXCEPT ![p].bank = b]
    /\ banks' = [banks EXCEPT ![b] = Append(@, p)]
    /\ UNCHANGED <<netVars, stage, driver, success, tilesUsed, totals, fileVars, runs>>

(* io_assign_pins, for a net whose source lies in column x: the nearest     *)
(* free signal pad; a pad of the i-th place lies at location i.             *)
Free == {i \in DOMAIN pads : pads[i].type = "BIDIR" /\ pads[i].net = 0}
Distance(i, x) == LET at == (i - 1) % TopPads IN IF at > x THEN at - x ELSE x - at

AssignPin(net, x) ==
    /\ driver = "no"
    /\ \E i \in Free :
         /\ \A j \in Free : Distance(i, x) < Distance(j, x) \/ (Distance(i, x) = Distance(j, x) /\ i <= j)
         /\ pads' = [pads EXCEPT ![i].net = net]
    /\ UNCHANGED <<netVars, stage, driver, success, tilesUsed, totals, banks, fileVars, runs>>

-----------------------------------------------------------------------------
(* The bit stream.                                                         *)

Words(fs) == [i \in DOMAIN fs |-> fs[i].words]

(* bitstream_generate_partial replaces all frames by the region's.          *)
PartialFrames(x, w) ==
    /\ made /\ driver = "no"
    /\ frames' = [i \in 1..Smaller(Smaller(w, Tiles - x), MaxFrames) |->
                    [col |-> x + i - 1, row |-> 0, words |-> K]]
    /\ UNCHANGED <<netVars, stage, driver, success, tilesUsed, totals, pads, banks, made, file, runs>>

SetFrameWord(i, v) ==
    /\ made /\ driver = "no" /\ i \in DOMAIN frames /\ file.count < 0
    /\ frames' = [frames EXCEPT ![i].words = v]
    /\ UNCHANGED <<netVars, stage, driver, success, tilesUsed, totals, pads, banks, made, file, runs>>

WriteFile ==
    /\ made /\ driver = "no" /\ file.count < 0
    /\ file' = [count |-> Len(frames), crc |-> Words(frames), data |-> Words(frames)]
    /\ UNCHANGED <<netVars, stage, driver, success, tilesUsed, totals, pads, banks, frames, made, runs>>

(* A stored file may come back with a word changed.                        *)
DamageFile(i, v) ==
    /\ file.count >= 0 /\ i \in 1..file.count
    /\ file' = [file EXCEPT !.data[i] = v]
    /\ UNCHANGED <<netVars, stage, driver, success, tilesUsed, totals, pads, banks, frames, made, runs>>

(* bitstream_read_file and bitstream_validate: frames have no address any   *)
(* more; an empty stream is not valid.                                      *)
ReadBack == [i \in 1..file.count |-> [col |-> 0, row |-> 0, words |-> file.data[i]]]
Validates == file.count > 0 /\ Words(ReadBack) = file.crc

(* The frame address register.                                             *)
EncodeFar(a) == a.block * 2^23 + a.top * 2^22 + a.row * 2^19 + a.col * 2^7 + a.minor
DecodeFar(f) == [block |-> (f \div 2^23) % 8, top |-> (f \div 2^22) % 2, row |-> (f \div 2^19) % 8,
                 col |-> (f \div 2^7) % 512, minor |-> f % 128]

-----------------------------------------------------------------------------
FlowInit ==
    /\ gates = <<>> /\ level = <<>> /\ lutMap = <<>>
    /\ cofactors = [func |-> {}, k |-> 0, var |-> 0, c0 |-> {}, c1 |-> {}]
    /\ stage = "INPUT" /\ driver = "no" /\ success = FALSE /\ tilesUsed = 0
    /\ totals = [luts |-> 0, clbs |-> 0, blocks |-> 0]
    /\ pads = <<>> /\ banks = <<>> /\ frames = <<>> /\ made = FALSE /\ file = [count |-> -1, crc |-> <<>>, data |-> <<>>] /\ runs = 0

Stage ==
    \/ RunSynthesis \/ RunTechmap \/ RunPacking \/ RunPlacement \/ RunRouting
    \/ RunTiming \/ RunBitstream \/ RunIoPlanning

(* Mapping a network of the user's, inputs named in order.                  *)
MapNext ==
    \/ \E t \in GateTypes : gates # <<>> /\ AddGate(t, FALSE)
    \/ Len(gates) < 2 /\ cofactors.k = 0 /\ AddGate("BUF", TRUE)
    \/ \E a, b \in DOMAIN gates : (\A i \in Range(gates[b].ins) : i <= a) /\ AddInput(a, b)
    \/ \E n \in DOMAIN gates : SetOutput(n)
    \/ MapArea
    \/ stage = "INPUT" /\ RunTechmap
    \/ \E k \in 2..3 : \E func \in SUBSET (0..2^k-1), v \in 0..k-1 : Shannon(func, k, v)

(* Whole flows and stages by hand, over an empty network or one gate that is *)
(* its own input, and the pads and the bit stream after them.                *)
DriveNext ==
    \/ gates = <<>> /\ AddGate("XOR", FALSE)
    \/ gates # <<>> /\ gates[1].ins = <<>> /\ AddInput(1, 1)
    \/ RunAll \/ Stage \/ Complete
    \/ \E p \in DOMAIN pads \cap {2} : AssignBank(p, 1)
    \/ \E x \in {0, 2} : LET used == Cardinality({i \in DOMAIN pads : pads[i].net # 0})
                         IN used < 2 /\ AssignPin(used + 1, x)
    \/ PartialFrames(1, 2)
    \/ SetFrameWord(1, 7) \/ DamageFile(1, 9)
    \/ WriteFile

(* Mapping is sound: levels and labels never fall along a connection, every *)
(* reached output has a LUT, a cut takes in each input or what it depends   *)
(* on, entries run from the deepest level up, and the                        *)
(* table of a gate with at most two inputs computes the gate.               *)
MappingSound ==
    (lutMap # <<>> /\ stage = "TECHMAP") =>
        LET labels == Labels(gates, level)
            mapped == {lutMap[k].node : k \in DOMAIN lutMap}
            Value(e, j, pat) == (pat \div 2^(j - 1)) % 2
        IN /\ \A n \in DOMAIN gates : \A i \in Range(gates[n].ins) :
                 level[n] >= 0 => 0 <= level[i] /\ level[i] < level[n] /\ labels[i] <= labels[n]
           /\ \A n \in DOMAIN gates : gates[n].po /\ level[n] >= 0 => n \in mapped
           /\ \A n \in DOMAIN gates : \A cut \in CutsOf(gates, n) :
                 (Len(cut) <= K \/ cut = gates[n].ins) /\ \A i \in Range(gates[n].ins) :
                    i \in Range(cut) \/ Range(gates[i].ins) \subseteq Range(cut)
           /\ \A k \in 2..Len(lutMap) : level[lutMap[k].node] <= level[lutMap[k-1].node]
           /\ \A k \in DOMAIN lutMap :
                 LET e == lutMap[k] IN
                 /\ Len(e.ins) <= K
                 /\ Len(gates[e.node].ins) \in 1..2 /\ e.ins[1] # e.ins[Len(e.ins)] =>
                      \A pat \in 0..3 :
                        LET v(i) == Value(e, Min({j \in DOMAIN e.ins : e.ins[j] = i}), pat)
                            own == gates[e.node].ins
                        IN pat \in e.table <=> Gate(gates[e.node].type, v(own[1]),
                                                   IF Len(own) = 2 THEN v(own[2]) ELSE 0, 0)

(* The flow keeps its books: a complete flow has placed and framed every     *)
(* used tile, has a stage in error only when nothing could be mapped, no two *)
(* nets share a pad, a bank's list names pads of that or of a later bank,    *)
(* and a file validates exactly when it comes back as it was written.        *)
FlowConsistent ==
    /\ stage = "COMPLETE" /\ frames # <<>> /\ (\A i \in DOMAIN frames : frames[i].words = 0) /\ runs = 1 =>
          /\ Len(frames) = Smaller(tilesUsed, MaxFrames) /\ totals.blocks = tilesUsed
          /\ totals.clbs = tilesUsed
          /\ totals.luts = Smaller(Len(lutMap), Tiles * ClbLuts)
    /\ stage = "ERROR" => lutMap = <<>>
    /\ \A i, j \in DOMAIN pads : i # j /\ pads[i].net # 0 => pads[i].net # pads[j].net
    /\ \A i \in DOMAIN pads : pads[i].bank # 0 => i \in Range(banks[pads[i].bank])
    /\ file.count >= 0 => (Validates <=> file.count > 0 /\ file.data = file.crc)
    /\ \A i \in DOMAIN frames :
          LET a == [block |-> 0, top |-> 0, row |-> frames[i].row, col |-> frames[i].col, minor |-> 0]
          IN DecodeFar(EncodeFar(a)) = a

(* CofactorsExact: the two functions of an expansion are the function with   *)
(* the split variable at zero and at one (techmap_fpga.c:140), when it is    *)
(* the highest one: below it, the bits above stay where they were as well.   *)
CofactorsExact ==
    LET Lift(j, bit) == Number({b \in Bits(j, cofactors.k) : b < cofactors.var}
                               \cup {b + 1 : b \in {c \in Bits(j, cofactors.k) : c >= cofactors.var}}
                               \cup bit)
    IN cofactors.k > 0 /\ cofactors.var = cofactors.k - 1 =>
         \A j \in 0..2^(cofactors.k-1)-1 :
             /\ j \in cofactors.c0 <=> Lift(j, {}) \in cofactors.func
             /\ j \in cofactors.c1 <=> Lift(j, {cofactors.var}) \in cofactors.func

=============================================================================
