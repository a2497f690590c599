----------------------------- MODULE FpgaFabric -----------------------------
(***************************************************************************)
(* The fabric of mini-fpga-dev and the two passes that fill it: packing    *)
(* atoms into the slices of a grid of CLBs (clb_pack.c over fpga_arch.c)   *)
(* and placing blocks on the grid by annealing, by a quadratic solution or *)
(* by dividing them between devices (place_fpga.c).                        *)
(*                                                                         *)
(* A slice keeps counts, not atoms, as in the code.  Affinity and the      *)
(* weight lambda of an atom are small integers, attraction is ten times    *)
(* the code's.  The acceptance of a worse swap by the annealer is a free   *)
(* choice (a random number against exp(-delta/T)); the quadratic solver's  *)
(* averages stay between the positions they start from, and the model      *)
(* chooses any cell there.                                                 *)
(***************************************************************************)
EXTENDS Naturals, Integers, Sequences, FiniteSets
LOCAL INSTANCE SequencesExt
LOCAL INSTANCE FiniteSetsExt

CONSTANTS
    GridW, GridH,      \* grid_width, grid_height
    NumSlices,         \* FPGA_CLB_NUM_SLICES
    SliceLuts,         \* FPGA_SLICE_NUM_LUTS
    SliceFfs,          \* FPGA_SLICE_NUM_FFS
    LutK,              \* lut_size
    AtomShapes,        \* the atoms a netlist may contain
    MaxAtoms,          \* FPGA_MAX_ATOMS
    PlaceNets,         \* nets of the placement: records of source and sinks
    NetWeight,         \* criticality weight of a net in timing-driven placement
    MaxBlocks,         \* FPGA_MAX_PLACE_BLOCKS
    MaxMoves           \* bound: swaps tried by one annealing

VARIABLES
    atoms,       \* nl->atoms
    clbs,        \* CLBs taken, in the order clb_count gives them
    packed,      \* packed[]
    packing,     \* which packer is running, or "no"
    packStats,   \* totals the packer counts, and its result
    blocks,      \* p->blocks
    annealing,   \* "no", or the cost function that is being annealed
    cost,        \* current_cost while annealing, then p->cost
    moves,       \* total_moves
    origin       \* the blocks as the annealer found them

packVars  == <<atoms, clbs, packed, packing, packStats>>
placeVars == <<blocks, annealing, cost, moves, origin>>
fabricVars == <<packVars, placeVars>>

GridCells == GridW * GridH
Sum(f, S) == FoldSet(LAMBDA x, acc : acc + f[x], 0, S)

-----------------------------------------------------------------------------
(* Slices, look-up tables and switch boxes (fpga_arch.c).                  *)

EmptyClb == [s \in 1..NumSlices |-> [luts |-> 0, ffs |-> 0]]

(* The mask of a table is the set of the input vectors whose bit is one.   *)
LutSetBit(mask, vector, value) ==
    IF value THEN mask \cup {vector} ELSE mask \ {vector}

LutIndex(k, inputs) == MapThenSumSet(LAMBDA i : IF inputs[i] THEN 2^i ELSE 0, 0..k-1)

LutEval(mask, k, inputs) == LutIndex(k, inputs) \in mask
LutEvalPacked(mask, k, word) == (word % 2^k) \in mask

SwitchBox(w, pattern, limit) ==
    [i \in 0..(IF w < limit THEN w ELSE limit) - 1 |->
        CASE pattern = "disjoint"  -> i
          [] pattern = "wilton"    -> w - 1 - i
          [] pattern = "universal" -> (i + 1) % w]

(* A table answers the same through both of its interfaces, a bit that is set  *)
(* changes no other, and every switch pattern is a permutation of the tracks.  *)
TablesAgree ==
    /\ \A mask \in SUBSET (0..3), v, word \in 0..3, inputs \in [0..1 -> BOOLEAN] :
          /\ LutEval(mask, 2, inputs) <=> LutEvalPacked(mask, 2, LutIndex(2, inputs))
          /\ LutEvalPacked(LutSetBit(mask, v, TRUE), 2, word) <=> word = v \/ word \in mask
          /\ LutEvalPacked(LutSetBit(mask, v, FALSE), 2, word) <=> word # v /\ word \in mask
    /\ \A w \in 1..5, p \in {"disjoint", "wilton", "universal"} :
          Range(SwitchBox(w, p, 8)) = 0..w-1

-----------------------------------------------------------------------------
(* Packing (clb_pack.c).                                                   *)

(* atom_netlist_add_atom and the setters of one atom.                      *)
AddAtom(shape) ==
    /\ packing = "no" /\ packed = {} /\ clbs = <<>>
    /\ Len(atoms) < MaxAtoms
    /\ atoms' = Append(atoms, shape)
    /\ UNCHANGED <<clbs, packed, packing, packStats, placeVars>>

(* compute_attraction: nets shared with the seed, pin by pin, and affinity. *)
SharedNets(a, seed) ==
    (IF a.out = seed.out /\ a.out >= 0 THEN 1 ELSE 0)
    + Cardinality({i \in DOMAIN a.ins : a.ins[i] >= 0 /\ a.ins[i] = seed.out})
    + Cardinality({ij \in (DOMAIN a.ins) \X (DOMAIN seed.ins) :
                      a.ins[ij[1]] >= 0 /\ a.ins[ij[1]] = seed.ins[ij[2]]})

Attraction(a, seed, lambda) ==
    10 * SharedNets(a, seed) + (IF a.affinity > 0 THEN lambda * a.affinity ELSE 0)

(* atom_fits_in_slice: nothing ever sets carry.used, so a carry always fits. *)
FitsInSlice(a, slice) ==
    \/ a.type = "lut" /\ slice.luts < SliceLuts
    \/ a.type = "ff" /\ slice.ffs < SliceFfs
    \/ a.type = "carry"

FitsInClb(a, clb) == \E s \in DOMAIN clb : FitsInSlice(a, clb[s])

FirstSlice(a, clb) == Min({s \in DOMAIN clb : FitsInSlice(a, clb[s])})

Logic == {i \in DOMAIN atoms : atoms[i].type \in {"lut", "ff"}}

(* The unpacked LUT or flip-flop of greatest affinity, the first of equals. *)
Seeds ==
    LET left == Logic \ packed IN
    {i \in left : \A j \in left : \/ atoms[j].affinity < atoms[i].affinity
                                  \/ atoms[j].affinity = atoms[i].affinity /\ i <= j}

(* One atom goes into one slice of the CLB; as says what it is counted as. *)
Put(st, i, s, as) ==
    [clb |-> CASE as = "lut" -> [st.clb EXCEPT ![s].luts = @ + 1]
               [] as = "ff"  -> [st.clb EXCEPT ![s].ffs = @ + 1]
               [] OTHER      -> st.clb,
     packed |-> st.packed \cup {i},
     here |-> st.here + 1]

(* One round of attraction: the fitting atom that wants most to be with the seed. *)
Attract(st, seed, lambda) ==
    LET fits == {i \in DOMAIN atoms \ st.packed : FitsInClb(atoms[i], st.clb)}
        Pull(i) == Attraction(atoms[i], atoms[seed], lambda)
        best == {i \in fits : \A j \in fits : Pull(j) < Pull(i) \/ (Pull(j) = Pull(i) /\ i <= j)}
    IN IF best = {} THEN st
       ELSE LET i == Min(best)
            IN Put(st, i, FirstSlice(atoms[i], st.clb), atoms[i].type)

Rounds == [n \in 1..NumSlices * SliceLuts |-> n]

(* clb_pack_timing_driven; clb_pack_greedy is lambda = 0. *)
StartPacking(how) ==
    /\ packing = "no" /\ packed = {} /\ clbs = <<>> /\ atoms # <<>>
    /\ packing' = how
    /\ UNCHANGED <<atoms, clbs, packed, packStats, placeVars>>

Counted(st) ==
    [clbs |-> Len(clbs) + 1,
     luts |-> packStats.luts + Sum([s \in DOMAIN st.clb |-> st.clb[s].luts], DOMAIN st.clb),
     ffs  |-> packStats.ffs + Sum([s \in DOMAIN st.clb |-> st.clb[s].ffs], DOMAIN st.clb)]

PackAround(lambda) ==
    /\ \E seed \in Seeds :
         LET seeded == Put([clb |-> EmptyClb, packed |-> packed, here |-> 0], seed, 1,
                           atoms[seed].type)
             full == FoldLeft(LAMBDA st, n : Attract(st, seed, lambda), seeded, Rounds)
         IN /\ Len(clbs) < GridCells
            /\ clbs' = Append(clbs, full.clb)
            /\ packed' = full.packed
            /\ packStats' = Counted(full)
    /\ UNCHANGED <<atoms, packing, placeVars>>

(* clb_pack_fracturable: from the first unpacked LUT or flip-flop on, in    *)
(* order, at most eight; whatever is no LUT is counted as a flip-flop.      *)
FractureInto(st, i) ==
    IF i \in st.packed \/ st.here = 2 * SliceLuts \/ ~FitsInClb(atoms[i], st.clb) THEN st
    ELSE Put(st, i, FirstSlice(atoms[i], st.clb), IF atoms[i].type = "lut" THEN "lut" ELSE "ff")

PackFractured ==
    /\ Logic \ packed # {}
    /\ Len(clbs) < GridCells
    /\ LET first == Min(Logic \ packed)
           full == FoldLeft(FractureInto, [clb |-> EmptyClb, packed |-> packed, here |-> 0],
                            [n \in 1..Len(atoms) - first + 1 |-> n + first - 1])
       IN /\ clbs' = Append(clbs, full.clb)
          /\ packed' = full.packed
          /\ packStats' = Counted(full)
    /\ UNCHANGED <<atoms, packing, placeVars>>

PackCluster ==
    \/ packing = "timing" /\ PackAround(10)
    \/ packing = "greedy" /\ PackAround(0)
    \/ packing = "fracturable" /\ PackFractured

(* No seed is left, or no CLB.  The result stays in packStats. *)
EndPacking ==
    /\ packing \in {"timing", "greedy", "fracturable"}
    /\ Logic \subseteq packed \/ Len(clbs) = GridCells
    /\ packing' = IF packing = "fracturable" THEN "fractured" ELSE "packed"
    /\ UNCHANGED <<atoms, clbs, packed, packStats, placeVars>>

(* pack_stats_compute: the totals again, read off the tiles. *)
StatsOfFabric ==
    [clbs |-> Len(clbs),
     luts |-> Sum([c \in DOMAIN clbs |-> Sum([s \in DOMAIN clbs[c] |-> clbs[c][s].luts], DOMAIN clbs[c])],
                  DOMAIN clbs),
     ffs  |-> Sum([c \in DOMAIN clbs |-> Sum([s \in DOMAIN clbs[c] |-> clbs[c][s].ffs], DOMAIN clbs[c])],
                  DOMAIN clbs)]

(* Packing is exact: no slice holds more than it has room for (but for the     *)
(* carries that fracturing counts as flip-flops), the totals are the tiles' and *)
(* the packed atoms', nothing is left out while a CLB is free, and the tables'  *)
(* two interfaces agree.                                                       *)
PackingExact ==
    LET OfType(t) == Cardinality({i \in packed : atoms[i].type = t})
        asFfs == IF packing \in {"fracturable", "fractured"} THEN OfType("carry") ELSE 0
    IN /\ \A c \in DOMAIN clbs : \A s \in DOMAIN clbs[c] :
             /\ clbs[c][s].luts <= SliceLuts
             /\ clbs[c][s].ffs <= SliceFfs + asFfs
       /\ packStats = StatsOfFabric
       /\ packStats.luts = OfType("lut")
       /\ packStats.ffs = OfType("ff") + asFfs
       /\ Len(atoms) = 1 => TablesAgree
       /\ packing \in {"packed", "fractured"} => Logic \subseteq packed \/ Len(clbs) = GridCells

-----------------------------------------------------------------------------
(* Placement (place_fpga.c).                                               *)

(* placement_add_block: row by row, however many rows that takes. *)
AddBlock ==
    /\ annealing = "no" /\ moves = 0
    /\ Len(blocks) < MaxBlocks
    /\ blocks' = Append(blocks, [x |-> Len(blocks) % GridW, y |-> Len(blocks) \div GridW,
                                 sub |-> 0, fixed |-> FALSE])
    /\ UNCHANGED <<annealing, cost, moves, origin, packVars>>

FixBlock(b, x, y) ==
    /\ annealing = "no" /\ moves = 0
    /\ b \in DOMAIN blocks
    /\ blocks' = [blocks EXCEPT ![b].x = x, ![b].y = y, ![b].fixed = TRUE]
    /\ UNCHANGED <<annealing, cost, moves, origin, packVars>>

(* placement_net_bbox: pins that are no block are left out; a net without a  *)
(* pin keeps the inverted box it starts with and has a negative length.      *)
NetLength(bs, net) ==
    LET pins == ({net.source} \cup net.sinks) \cap DOMAIN bs
        xs == {bs[b].x : b \in pins}
        ys == {bs[b].y : b \in pins}
    IN Max(xs \cup {0}) - Min(xs \cup {GridW}) + Max(ys \cup {0}) - Min(ys \cup {GridH})

Hpwl(bs) == MapThenSumSet(LAMBDA net : NetLength(bs, net), PlaceNets)
WeightedLength(bs) == MapThenSumSet(LAMBDA net : NetWeight[net] * NetLength(bs, net), PlaceNets)
CostOf(how, bs) == IF how = "timing" THEN WeightedLength(bs) ELSE Hpwl(bs)

(* place_simulated_annealing and place_timing_driven. *)
StartAnnealing(how) ==
    /\ annealing = "no" /\ moves = 0 /\ blocks # <<>>
    /\ annealing' = how
    /\ cost' = CostOf(how, blocks)
    /\ origin' = blocks
    /\ UNCHANGED <<blocks, moves, packVars>>

Swapped(bs, a, b) ==
    [bs EXCEPT ![a].x = bs[b].x, ![a].y = bs[b].y, ![b].x = bs[a].x, ![b].y = bs[a].y]

\* faulty
SwapNotUndone(a, b) ==
    /\ annealing \in {"length", "timing"} /\ moves < MaxMoves
    /\ a # b /\ ~blocks[a].fixed /\ ~blocks[b].fixed
    /\ LET new == Swapped(blocks, a, b)
           newCost == CostOf(annealing, new)
       IN blocks' = new /\ (cost' = newCost \/ (newCost > cost /\ UNCHANGED cost))
    /\ moves' = moves + 1
    /\ UNCHANGED <<annealing, origin, packVars>>

(* A swap that does not cost more is taken; any other is taken or undone.  *)
AnnealSwap(a, b) ==
    /\ annealing \in {"length", "timing"} /\ moves < MaxMoves
    /\ a # b /\ ~blocks[a].fixed /\ ~blocks[b].fixed
    /\ LET new == Swapped(blocks, a, b)
           newCost == CostOf(annealing, new)
       IN \/ blocks' = new /\ cost' = newCost
          \/ newCost > cost /\ UNCHANGED <<blocks, cost>>
    /\ moves' = moves + 1
    /\ UNCHANGED <<annealing, origin, packVars>>

EndAnnealing ==
    /\ annealing \in {"length", "timing"}
    /\ annealing' = "placed"
    /\ UNCHANGED <<blocks, cost, moves, origin, packVars>>

(* place_quadratic: connected movable blocks end up between the positions   *)
(* the blocks had, every block, a fixed one too, inside the grid.           *)
Connected(b) ==
    \E net \in PlaceNets : \E s \in net.sinks :
        \/ net.source = b /\ s \in DOMAIN blocks
        \/ s = b /\ net.source \in DOMAIN blocks

Clamp(v, top) == IF v < 0 THEN 0 ELSE IF v >= top THEN top - 1 ELSE v

Xs == {blocks[b].x : b \in DOMAIN blocks}
Ys == {blocks[b].y : b \in DOMAIN blocks}
Span(S) == Min(S)..Max(S)

PlaceQuadratic ==
    /\ annealing = "no" /\ moves = 0 /\ blocks # <<>>
    /\ \E to \in [DOMAIN blocks -> Span(Xs) \X Span(Ys)] :
         /\ \A b \in DOMAIN blocks : blocks[b].fixed \/ ~Connected(b) =>
                to[b] = <<blocks[b].x, blocks[b].y>>
         /\ blocks' = [b \in DOMAIN blocks |-> [blocks[b] EXCEPT !.x = Clamp(to[b][1], GridW),
                                                                 !.y = Clamp(to[b][2], GridH)]]
    /\ cost' = Hpwl(blocks')
    /\ origin' = blocks'
    /\ annealing' = "placed"
    /\ UNCHANGED <<moves, packVars>>

(* place_partition_multi_fpga: round robin, and the nets that are cut. *)
Partition(n) ==
    /\ annealing = "no" /\ moves = 0 /\ blocks # <<>>
    /\ blocks' = [b \in DOMAIN blocks |-> [blocks[b] EXCEPT !.sub = (b - 1) % n]]
    /\ cost' = Cardinality({net \in PlaceNets :
                  LET from == IF net.source \in DOMAIN blocks THEN blocks'[net.source].sub ELSE -1
                  IN \E s \in net.sinks \cap DOMAIN blocks : blocks'[s].sub # from})
    /\ annealing' = "divided"
    /\ origin' = blocks'
    /\ UNCHANGED <<moves, packVars>>

(* placement_is_legal *)
Legal(bs) ==
    \A a, b \in DOMAIN bs :
        a # b => <<bs[a].x, bs[a].y, bs[a].sub>> # <<bs[b].x, bs[b].y, bs[b].sub>>

(* Annealing only permutes the movable blocks over their positions: it moves *)
(* no fixed block, makes no overlap, and after any run of taken and undone   *)
(* swaps the cost it carries is the cost of the placement it left.           *)
PlacementKept ==
    LET Cells(bs) == [b \in DOMAIN bs |-> <<bs[b].x, bs[b].y>>]
        At(bs, c) == {b \in DOMAIN bs : <<bs[b].x, bs[b].y>> = c}
    IN annealing \in {"length", "timing", "placed"} =>
        /\ \A b \in DOMAIN blocks : blocks[b].fixed => blocks[b] = origin[b]
        /\ \A b \in DOMAIN blocks :
              LET c == Cells(blocks)[b] IN Cardinality(At(blocks, c)) = Cardinality(At(origin, c))
        /\ Legal(origin) => Legal(blocks)
        /\ annealing # "placed" => cost = CostOf(annealing, blocks)

-----------------------------------------------------------------------------
FabricInit ==
    /\ atoms = <<>> /\ clbs = <<>> /\ packed = {} /\ packing = "no"
    /\ packStats = [clbs |-> 0, luts |-> 0, ffs |-> 0]
    /\ blocks = <<>> /\ annealing = "no" /\ cost = 0 /\ moves = 0 /\ origin = <<>>

PackNext ==
    \/ \E shape \in AtomShapes : AddAtom(shape)
    \/ \E how \in {"timing", "greedy", "fracturable"} : StartPacking(how)
    \/ PackCluster
    \/ EndPacking

PlaceNext ==
    \/ AddBlock
    \/ \E b \in DOMAIN blocks, x \in 0..GridW-1, y \in 0..GridH-1 : FixBlock(b, x, y)
    \/ \E how \in {"length", "timing"} : StartAnnealing(how)
    \/ \E a, b \in DOMAIN blocks : AnnealSwap(a, b)
    \/ EndAnnealing
    \/ PlaceQuadratic
    \/ \E n \in 2..3 : Partition(n)

=============================================================================
