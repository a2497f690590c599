------------------------------- MODULE ChipFlow -------------------------------
(***************************************************************************)
(* The chip flows: logic synthesis (logic_synth.c) with technology mapping *)
(* (tech_map.c) under the flow driver (eda_flow.c), and the stages on the  *)
(* way to sign-off (rtl_to_gds.c).  Placement, routing and timing of the   *)
(* flow driver are external: what it calls is not defined in the           *)
(* repository.  A file is the sequence of its tokens.                      *)
(***************************************************************************)
EXTENDS Integers, Sequences, FiniteSets
LOCAL INSTANCE SequencesExt

CONSTANTS
    SynthTypes, InputLists, \* types and inputs of the gates a caller adds
    MaxNetGates,            \* MAX_GATES
    MaxLibCells,            \* bound: cells of the library
    Literals,               \* literals of a minterm (var_count)
    MaxTerms,               \* MAX_IMPLICANTS
    MaxRounds,              \* 20 rounds of reduction
    NumStages,              \* ASIC_STAGE_COUNT; the last stage is sign-off
    MaxCheckpoints,         \* MAX_CHECKPOINTS
    MaxEcoOps,              \* MAX_ECO_OPS
    Names,                  \* names of cells and nets, negative numbers below -1
    Garbage,                \* what the stack held where eco_flow_load counts
    MaxSpares, SpareColumns,\* spare cells, and how many fit into a row
    EcoSpots                \* coordinates a spare cell is wanted at

VARIABLES
    net,      \* gates of [type, ins, out]; the i-th drives wire i - 1
    library,  \* the type of every cell
    driver,   \* [stage, success, matches, area]
    terms,    \* minterms of [lits, dc], a literal 0, 1 or -1 for either
    reduced,  \* the table that Quine-McCluskey left
    stages,   \* [done, checkpoints] of every stage
    file,     \* tokens of the checkpoint file
    eco,      \* eco_flow_t: [ops, count, next, counters, garbled]
    spares,   \* spare_cell_array_t: [at, used] of every spare cell
    ecoFile   \* [counters, tokens] of the file of changes

synthesisVars == <<net, library, driver>>
termVars == <<terms, reduced>>
stageVars == <<stages, file>>
ecoVars == <<eco, spares, ecoFile>>
-----------------------------------------------------------------------------
(* step(...step(step(start, 1), 2)..., n)                                   *)
Iterate(step(_, _), start, n) ==
    LET after[i \in 0..n] == IF i = 0 THEN start ELSE LET before == after[i - 1] IN step(before, i)
    IN after[n]
Joined(part(_), n) == Iterate(LAMBDA all, i : all \o part(i), <<>>, n)

(* Logic networks.                                                          *)
Added(gates, type, ins) ==
    IF Len(gates) < MaxNetGates THEN Append(gates, [type |-> type, ins |-> ins, out |-> Len(gates)]) ELSE gates

(* faulty: the second inverter keeps its type *)
StrippedType(gates, i) ==
    LET g == gates[i]
        undone == {j \in (i + 1)..Len(gates) :
                     g.type = "NOT" /\ gates[j].type = "NOT" /\ gates[j].ins = <<g.out>>}
    IN [j \in DOMAIN gates |->
          IF j \in undone THEN [gates[j] EXCEPT !.ins = g.ins]
          ELSE IF j = i /\ g.type \in {"AND", "OR"} /\ Len(g.ins) = 1 THEN [g EXCEPT !.type = "BUF"]
          ELSE gates[j]]

(* Later inverters of an inverter's output become buffers of its input, and *)
(* a one-input conjunction or disjunction a buffer.                         *)
Stripped(gates, i) ==
    LET g == gates[i]
        undone == {j \in (i + 1)..Len(gates) :
                     g.type = "NOT" /\ gates[j].type = "NOT" /\ gates[j].ins = <<g.out>>}
    IN [j \in DOMAIN gates |->
          IF j \in undone THEN [gates[j] EXCEPT !.type = "BUF", !.ins = g.ins]
          ELSE IF j = i /\ g.type \in {"AND", "OR"} /\ Len(g.ins) = 1 THEN [g EXCEPT !.type = "BUF"]
          ELSE gates[j]]

Optimized(gates) == Iterate(Stripped, gates, Len(gates))

(* Folding takes wires 0 and 1 for the constants, whatever drives them.     *)
Constant(g, wire) == [g EXCEPT !.type = "BUF", !.ins = <<wire>>]
FoldedGate(g) ==
    LET wires == {g.ins[k] : k \in DOMAIN g.ins} IN
    CASE g.type = "AND" /\ 0 \in wires -> Constant(g, 0)
      [] g.type = "AND" /\ wires = {1} -> Constant(g, 1)
      [] g.type = "OR" /\ 1 \in wires -> Constant(g, 1)
      [] OTHER -> g
Folded(gates) == [i \in DOMAIN gates |-> FoldedGate(gates[i])]

(* A conjunction of three or four is split in two: the new gate takes the   *)
(* first half, the old one the new wire and the next input; the rest falls  *)
(* away.  When the table is full the last gate's wire is taken.             *)
Split(gates, i) ==
    LET g == gates[i]  half == Len(g.ins) \div 2  more == Added(gates, "AND", SubSeq(g.ins, 1, half)) IN
    IF g.type = "AND" /\ Len(g.ins) >= 3
    THEN [more EXCEPT ![i].ins = <<more[Len(more)].out, g.ins[half + 1]>>] ELSE gates
Factored(gates) == Iterate(Split, gates, Len(gates))

(* Matches, for every gate the cells of its type in library order; of       *)
(* these the first covers the gate.                                         *)
Matches(gates, lib) ==
    Joined(LAMBDA i : SelectSeq([c \in DOMAIN lib |-> <<i, c>>], LAMBDA m : lib[m[2]] = gates[i].type),
           Len(gates))
CoveredGates(matches) == {m[1] : m \in {matches[i] : i \in DOMAIN matches}}
-----------------------------------------------------------------------------
(* The flow driver.                                                         *)
AddGate(type, ins) ==
    /\ driver.stage = "SYNTH" /\ driver.matches = <<>> /\ Len(net) < MaxNetGates
    /\ net' = Added(net, type, ins) /\ UNCHANGED <<library, driver>>

AddCell(type) ==
    /\ Len(library) < MaxLibCells /\ net = <<>>   \* the library first, to keep the runs short
    /\ library' = Append(library, type) /\ UNCHANGED <<net, driver>>

RunSynthesis ==
    /\ net' = Factored(Folded(Optimized(net)))
    /\ driver' = [driver EXCEPT !.stage = "SYNTH"] /\ UNCHANGED library

(* Mapping starts its totals anew; every cell has area 1 here.              *)
RunTechmap ==
    /\ LET matches == Matches(net, library) IN
       driver' = [driver EXCEPT !.stage = "TECHMAP", !.matches = matches,
                                !.area = Cardinality(CoveredGates(matches))]
    /\ UNCHANGED <<net, library>>

(* The report covers once more, on top of the totals.                       *)
TechmapReport ==
    /\ driver.stage = "TECHMAP" /\ driver.area <= Len(net)
    /\ driver' = [driver EXCEPT !.area = @ + Cardinality(CoveredGates(driver.matches))]
    /\ UNCHANGED <<net, library>>

(* Each stage runs only when the one before succeeded; placement and        *)
(* routing always do, and timing answers what it finds.                     *)
RunAll(meets) ==
    /\ driver.stage # "DONE"
    /\ LET gates == Factored(Folded(Optimized(net)))  matches == Matches(gates, library) IN
       /\ net' = gates
       /\ driver' = [stage |-> "DONE", success |-> matches # <<>> /\ meets, matches |-> matches,
                     area |-> Cardinality(CoveredGates(matches))]
    /\ UNCHANGED library

SynthesisNext ==
    \/ \E type \in SynthTypes, ins \in InputLists : (type = "NOT" => Len(ins) = 1) /\ AddGate(type, ins)
    \/ \E type \in SynthTypes \ {"OR"} : AddCell(type)   \* a library that lacks a type
    \/ RunSynthesis \/ RunTechmap \/ TechmapReport
    \/ \E meets \in BOOLEAN : RunAll(meets)
-----------------------------------------------------------------------------
(* Minterms.                                                                *)
AddTerm(lits, dc) ==
    /\ reduced = <<>> /\ Len(terms) < MaxTerms
    /\ terms' = Append(terms, [lits |-> lits, dc |-> dc]) /\ UNCHANGED reduced

(* Two terms merge when they differ in one literal; a dash in either ends   *)
(* the comparison, so that a merged term never merges again.                *)
Mergeable(s, t) ==
    /\ \A k \in 1..Literals : s.lits[k] # -1 /\ t.lits[k] # -1
    /\ Cardinality({k \in 1..Literals : s.lits[k] # t.lits[k]}) = 1

Merged(s, t) ==
    [lits |-> [k \in 1..Literals |-> IF s.lits[k] # t.lits[k] THEN -1 ELSE s.lits[k]], dc |-> s.dc /\ t.dc]

Reduce(table) ==
    LET indices == [i \in DOMAIN table |-> i]
        used == {i \in DOMAIN table : \E j \in DOMAIN table : j # i /\ Mergeable(table[i], table[j])}
        Later(i) == SelectSeq(indices, LAMBDA j : j > i /\ Mergeable(table[i], table[j]))
        MergedWith(i) == LET js == Later(i) IN [x \in DOMAIN js |-> Merged(table[i], table[js[x]])]
        kept == SelectSeq(indices, LAMBDA i : i \notin used)
    IN Joined(MergedWith, Len(table)) \o [x \in DOMAIN kept |-> table[kept[x]]]

(* So many rounds, fewer when one term is left.                             *)
QuineMcCluskey(table) ==
    Iterate(LAMBDA t, round : IF Len(t) > 1 THEN Reduce(t) ELSE t, table, MaxRounds)

Minimise ==
    /\ reduced = <<>> /\ terms # <<>>
    /\ reduced' = QuineMcCluskey(terms) /\ UNCHANGED terms

(* A term is selected when nothing but itself is compatible with it.        *)
Compatible(s, t) == \A k \in 1..Literals : s.lits[k] = -1 \/ t.lits[k] = -1 \/ s.lits[k] = t.lits[k]
EssentialPrimes(table) ==
    {i \in DOMAIN table : ~table[i].dc /\ \A j \in DOMAIN table : Compatible(table[i], table[j]) => j = i}

Minterms == [1..Literals -> {0, 1}]
ValueOf(lits) == Iterate(LAMBDA v, k : 2 * v + lits[k], 0, Literals)

TermNext ==
    \/ \E lits \in Minterms, dc \in BOOLEAN :
         /\ terms # <<>> => ValueOf(lits) > ValueOf(terms[Len(terms)].lits)
         /\ AddTerm(lits, dc)
    \/ Minimise
-----------------------------------------------------------------------------
(* The stages.  They are completed in any order, checks passed or not.      *)
SignoffStage == NumStages - 1
AdvanceStage(s) == stages' = [stages EXCEPT ![s].done = 1] /\ UNCHANGED file
AddCheckpoint(s, status) ==
    /\ Len(stages[s].checkpoints) < MaxCheckpoints
    /\ stages' = [stages EXCEPT ![s].checkpoints = Append(@, status)] /\ UNCHANGED file

(* Tokens are words and numbers; values of checkpoints are whole numbers.   *)
Word == [word |-> TRUE, value |-> 0]
Number(n) == [word |-> FALSE, value |-> n]
CheckpointLine(id, status) == <<Word, Number(id), Word, Number(status), Number(1), Number(1)>>
StageLines(st, s) ==
    <<Word, Number(s), Number(st[s].done)>>
        \o Joined(LAMBDA i : CheckpointLine(i - 1, st[s].checkpoints[i]), Len(st[s].checkpoints))
Written(st) ==
    <<Word, Number(2), Number(1)>> \o Joined(LAMBDA s : StageLines(st, s - 1), NumStages)

(* One fscanf of a word and two numbers: it stops at what does not fit and  *)
(* what it did not read keeps its value.                                    *)
Scanned(reading) ==
    LET tokens == reading.tokens
        fits(k) == Len(tokens) >= k /\ ~tokens[k].word
        n == IF tokens = <<>> THEN 0 ELSE IF ~fits(2) THEN 1 ELSE IF ~fits(3) THEN 2 ELSE 3
    IN [tokens |-> SubSeq(tokens, n + 1, Len(tokens)),
        index |-> IF n >= 2 THEN tokens[2].value ELSE reading.index,
        done |-> IF n = 3 THEN tokens[3].value ELSE reading.done]

LineRead(r, s) ==
    LET next == Scanned(r.reading) IN
    [reading |-> next, stages |-> [r.stages EXCEPT ![next.index] = [done |-> next.done, checkpoints |-> <<>>]]]

(* As many lines are read as there are stages, checkpoints among them or    *)
(* not.  Every number in the file is small enough to be a stage here.       *)
ReadBack(st, tokens) ==
    Iterate(LineRead, [reading |-> Scanned([tokens |-> tokens, index |-> 0, done |-> 0]), stages |-> st], NumStages).stages

WriteCheckpoints == file' = Written(stages) /\ UNCHANGED stages
ReadCheckpoints == file # <<>> /\ stages' = ReadBack(stages, file) /\ UNCHANGED file

IsSignedOff(st) == st[SignoffStage].done # 0
VerifyStage(st, s) == IF st[s].done = 0 THEN -1 ELSE Len(SelectSeq(st[s].checkpoints, LAMBDA c : c = 1))

StageNext ==
    \/ \E s \in DOMAIN stages : AdvanceStage(s) \/ \E status \in {0, 1} : AddCheckpoint(s, status)
    \/ WriteCheckpoints \/ ReadCheckpoints
-----------------------------------------------------------------------------
(* Engineering changes.  A name is a negative number, so that a number in a *)
(* file is seen to be none but may be taken for a name; Empty is the empty  *)
(* string, which prints as nothing.  No verification fails, so that the     *)
(* iteration stays 0.                                                       *)
Empty == -100
OpTag == -1
PENDING == 0
APPLIED == 1
VERIFIED == 2
REVERTED == 4
Kind == [ADD |-> 0, REMOVE |-> 1, RECONNECT |-> 2, CHANGE |-> 3, INSERT |-> 4, TIE_HIGH |-> 7, TIE_LOW |-> 8]
BlankOp == [id |-> 0, kind |-> Kind.ADD, cell |-> Empty, from |-> Empty, to |-> Empty, state |-> PENDING]
NoCounts == [added |-> 0, removed |-> 0, nets |-> 0, buffers |-> 0]

Push(kind, cell, from, to, counts) ==
    /\ eco.count < MaxEcoOps
    /\ eco' = [eco EXCEPT !.ops[eco.count + 1] = [id |-> eco.next, kind |-> kind, cell |-> cell, from |-> from, to |-> to, state |-> PENDING],
                          !.count = @ + 1, !.next = @ + 1, !.counters = counts]
    /\ UNCHANGED <<spares, ecoFile>>

(* An operation taken back stays counted; a stronger cell counts as one     *)
(* removed and one added; tying a pin and a route in metal only count as    *)
(* nothing.                                                                 *)
EcoAddCell(cell) == Push(Kind.ADD, cell, Empty, Empty, [eco.counters EXCEPT !.added = @ + 1])
EcoRemoveCell(cell) == Push(Kind.REMOVE, cell, Empty, Empty, [eco.counters EXCEPT !.removed = @ + 1])
EcoReconnect(from, to, cell) == Push(Kind.RECONNECT, cell, from, to, [eco.counters EXCEPT !.nets = @ + 1])
EcoInsertBuffer(netName) == Push(Kind.INSERT, netName, Empty, Empty, [eco.counters EXCEPT !.buffers = @ + 1])
EcoChangeDrive(cell) == Push(Kind.CHANGE, cell, Empty, Empty, [eco.counters EXCEPT !.added = @ + 1, !.removed = @ + 1])
EcoTiePin(cell, high) == Push(IF high THEN Kind.TIE_HIGH ELSE Kind.TIE_LOW, cell, Empty, Empty, eco.counters)
EcoMetalRoute(cell) == Push(Kind.RECONNECT, cell, Empty, Empty, eco.counters)

Stepped(e, old, new) ==
    [e EXCEPT !.ops = [i \in DOMAIN e.ops |-> IF i <= e.count /\ e.ops[i].state = old THEN [e.ops[i] EXCEPT !.state = new] ELSE e.ops[i]]]
EcoApply == eco' = Stepped(eco, PENDING, APPLIED) /\ UNCHANGED <<spares, ecoFile>>
EcoVerify == eco' = Stepped(eco, APPLIED, VERIFIED) /\ UNCHANGED <<spares, ecoFile>>
EcoRevert(i) ==
    /\ i <= eco.count /\ eco.ops[i].state # REVERTED
    /\ eco' = [eco EXCEPT !.ops[i].state = REVERTED] /\ UNCHANGED <<spares, ecoFile>>
EcoSignoff(e) == \A i \in 1..e.count : e.ops[i].state \in {VERIFIED, REVERTED}

(* The file of changes, and how it is read: eight items an operation, from  *)
(* whatever line, until one is missing or no number; the fields read till   *)
(* then are overwritten.                                                    *)
EcoLine(op) == <<OpTag, op.id, op.kind>> \o SelectSeq(<<op.cell, op.from, op.to>>, LAMBDA n : n # Empty) \o <<op.state, 0>>
EcoSaved(e) == [counters |-> e.counters, tokens |-> Joined(LAMBDA i : EcoLine(e.ops[i]), e.count)]
EcoSave == ecoFile = <<>> /\ ecoFile' = EcoSaved(eco) /\ UNCHANGED <<eco, spares>>

Matched(tokens) ==
    LET Fails(k) == k > Len(tokens) \/ (k \in {2, 3, 7, 8} /\ tokens[k] < 0)
    IN (CHOOSE k \in 1..9 : (k = 9 \/ Fails(k)) /\ \A j \in 1..(k - 1) : ~Fails(j)) - 1
Overwritten(op, t, m) ==
    LET Field(k, old) == IF m >= k THEN t[k] ELSE old IN
    [id |-> Field(2, op.id), kind |-> Field(3, op.kind), cell |-> Field(4, op.cell),
     from |-> Field(5, op.from), to |-> Field(6, op.to), state |-> Field(7, op.state)]
ReadOp(run, i) ==
    LET m == Matched(run.tokens) IN
    IF ~run.open THEN run
    ELSE [ops |-> [run.ops EXCEPT ![i] = Overwritten(@, run.tokens, m)], read |-> IF m = 8 THEN i ELSE run.read,
          open |-> m = 8, tokens |-> IF m = 8 THEN SubSeq(run.tokens, 9, Len(run.tokens)) ELSE <<>>]
(* Operations are counted from what the stack held.  Bounds of this model:  *)
(* the count stays within the table, and a file is written once.            *)
EcoLoaded(e, f, garbage) ==
    LET run == Iterate(ReadOp, [ops |-> e.ops, read |-> 0, open |-> TRUE, tokens |-> f.tokens], MaxEcoOps)
    IN [ops |-> run.ops, count |-> garbage + run.read, next |-> garbage + run.read, counters |-> f.counters,
        garbled |-> e.garbled \/ garbage # 0]
EcoLoad ==
    \E garbage \in Garbage :
        /\ ecoFile # <<>>
        /\ EcoLoaded(eco, ecoFile, garbage).count <= MaxEcoOps
        /\ eco' = EcoLoaded(eco, ecoFile, garbage) /\ UNCHANGED <<spares, ecoFile>>

(* Spare cells: placed in rows, the nearest free one is taken.              *)
SparePlace(n) ==
    /\ spares' = [i \in 1..n |-> [at |-> <<(i - 1) % SpareColumns, (i - 1) \div SpareColumns>>, used |-> FALSE]]
    /\ UNCHANGED <<eco, ecoFile>>
Apart(p, q) == (p[1] - q[1]) * (p[1] - q[1]) + (p[2] - q[2]) * (p[2] - q[2])
SpareAllocate(at) ==
    LET free == {i \in DOMAIN spares : ~spares[i].used}
        Before(i, j) == Apart(spares[i].at, at) < Apart(spares[j].at, at) \/ (Apart(spares[i].at, at) = Apart(spares[j].at, at) /\ i <= j)
    IN /\ free # {} /\ UNCHANGED <<eco, ecoFile>>
       /\ spares' = [spares EXCEPT ![CHOOSE i \in free : \A j \in free : Before(i, j)].used = TRUE]
SpareRelease(i) == spares[i].used /\ spares' = [spares EXCEPT ![i].used = FALSE] /\ UNCHANGED <<eco, ecoFile>>

(* Bound of this model: most operations only start a change.                *)
EcoNext ==
    \/ \E cell \in Names : EcoReconnect(cell, cell, cell) \/ EcoChangeDrive(cell)
    \/ /\ eco.count = 0 /\ ecoFile = <<>>
       /\ \E cell \in Names : \/ EcoAddCell(cell) \/ EcoRemoveCell(cell) \/ EcoInsertBuffer(cell) \/ EcoMetalRoute(cell)
                              \/ \E high \in BOOLEAN : EcoTiePin(cell, high)
    \/ EcoApply \/ EcoVerify \/ EcoSave \/ EcoLoad
    \/ \E i \in DOMAIN eco.ops : EcoRevert(i)
SpareNext ==
    \/ \E n \in 1..MaxSpares : SparePlace(n)
    \/ \E at \in EcoSpots \X EcoSpots : SpareAllocate(at)
    \/ \E i \in DOMAIN spares : SpareRelease(i)
-----------------------------------------------------------------------------
ChipInit ==
    /\ net = <<>> /\ library = <<>>
    /\ driver = [stage |-> "SYNTH", success |-> TRUE, matches |-> <<>>, area |-> 0]
    /\ terms = <<>> /\ reduced = <<>>
    /\ stages = [s \in 0..(NumStages - 1) |-> [done |-> 0, checkpoints |-> <<>>]] /\ file = <<>>
    /\ eco = [ops |-> [i \in 1..MaxEcoOps |-> BlankOp], count |-> 0, next |-> 0, counters |-> NoCounts, garbled |-> FALSE]
    /\ spares = <<>> /\ ecoFile = <<>>
-----------------------------------------------------------------------------
(* What every wire of an acyclic network carries, given those that no gate  *)
(* drives; fixed are the wires whose gate is not asked.                     *)
Acyclic(gates) ==
    \A i \in DOMAIN gates : \A k \in DOMAIN gates[i].ins :
        gates[i].ins[k] < gates[i].out \/ gates[i].ins[k] >= Len(gates)
Gate(type, vs) ==
    CASE type = "NOT" -> ~vs[1]
      [] type = "BUF" -> vs[1]
      [] type = "AND" -> \A k \in DOMAIN vs : vs[k]
      [] type = "OR" -> \E k \in DOMAIN vs : vs[k]
Carried(gates, env, fixed) ==
    LET v[w \in 0..MaxNetGates] ==
          IF w \in fixed \/ w >= Len(gates) THEN env[w]
          ELSE Gate(gates[w + 1].type, [k \in DOMAIN gates[w + 1].ins |-> v[gates[w + 1].ins[k]]])
    IN [w \in 0..MaxNetGates |-> v[w]]

(* Optimisation changes no wire of an acyclic network, and folding none     *)
(* once wires 0 and 1 are the constants (that the two read these wires      *)
(* differently is why the flow as a whole keeps no function); a gate is     *)
(* covered when the library has its type, and success needs one.            *)
SynthesisSound ==
    /\ Acyclic(net) /\ driver.matches = <<>> /\ library = <<>> =>
         \A lit \in SUBSET (Len(net)..MaxNetGates) :
           LET env == [w \in 0..MaxNetGates |-> w \in lit]
               tied == [env EXCEPT ![0] = FALSE, ![1] = TRUE]
           IN /\ Carried(Optimized(net), env, {}) = Carried(net, env, {})
              /\ Carried(Folded(net), tied, {0, 1}) = Carried(net, tied, {0, 1})
    /\ driver.stage # "SYNTH" => 
         /\ CoveredGates(driver.matches) \subseteq {i \in DOMAIN net : \E c \in DOMAIN library : library[c] = net[i].type}
         /\ driver.area >= Cardinality(CoveredGates(driver.matches))
    /\ driver.stage = "DONE" /\ driver.success => CoveredGates(driver.matches) # {}

(* The reduced table covers what the terms were and nothing else, a         *)
(* required minterm by a cube that is not free; a selected cube has a       *)
(* required minterm that no other covers.                                   *)
Covers(cube, m) == \A k \in 1..Literals : cube.lits[k] = -1 \/ cube.lits[k] = m[k]
TermsSound ==
    reduced # <<>> =>
      LET listed == {terms[i].lits : i \in DOMAIN terms}
          required == {terms[i].lits : i \in {j \in DOMAIN terms : ~terms[j].dc}}
      IN /\ {m \in Minterms : \E i \in DOMAIN reduced : Covers(reduced[i], m)} = listed
         /\ \A m \in required : \E i \in DOMAIN reduced : ~reduced[i].dc /\ Covers(reduced[i], m)
         /\ \A i \in EssentialPrimes(reduced) : \E m \in required :
               {j \in DOMAIN reduced : Covers(reduced[j], m)} = {i}

(* A file without checkpoints, or with those of the last stage only, reads  *)
(* back with every stage as complete as it was written, and the design as   *)
(* signed off; the failed checkpoints themselves are forgotten.             *)
StagesKept ==
    (\A s \in 0..(NumStages - 2) : stages[s].checkpoints = <<>>) =>
        LET read == ReadBack(stages, Written(stages)) IN
        /\ \A s \in DOMAIN stages : VerifyStage(read, s) = IF VerifyStage(stages, s) < 0 THEN -1 ELSE 0
        /\ IsSignedOff(read) = IsSignedOff(stages)

(* Applying and verifying signs a change off, whatever was taken back.  As   *)
(* long as no load counted from garbage, operations have the numbers of      *)
(* their places and each is counted, and reading back what was saved keeps   *)
(* the counters and the operations up to the first that misses a name, so    *)
(* that sign-off may come of it but is never lost; spare cells stand apart.  *)
ChangesKept ==
    LET done == Stepped(Stepped(eco, PENDING, APPLIED), APPLIED, VERIFIED)
        back == EcoLoaded(eco, EcoSaved(eco), 0)
        Named(op) == op.cell # Empty /\ op.from # Empty /\ op.to # Empty
        OfKind(kinds) == Cardinality({i \in 1..eco.count : eco.ops[i].kind \in kinds})
    IN /\ EcoSignoff(done)
       /\ ~eco.garbled =>
            /\ eco.next = eco.count /\ \A i \in 1..eco.count : eco.ops[i].id = i - 1
            /\ eco.counters.added >= OfKind({Kind.ADD, Kind.CHANGE}) /\ eco.counters.removed >= OfKind({Kind.REMOVE, Kind.CHANGE})
            /\ back.counters = eco.counters /\ (EcoSignoff(eco) => EcoSignoff(back))
            /\ \A i \in 1..back.count : i <= eco.count /\ Named(eco.ops[i]) /\ back.ops[i] = eco.ops[i]
            /\ back.count < eco.count => ~Named(eco.ops[back.count + 1])
       /\ \A i, j \in DOMAIN spares : i # j => spares[i].at # spares[j].at
=============================================================================
