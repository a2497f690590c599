------------------------------- MODULE EdaTools -------------------------------
(***************************************************************************)
(* The second tool chain of mini-eda-tools: synthesis of a gate netlist    *)
(* (synthesis.c), timing analysis of it (static_timing.c), placement and   *)
(* routing (place_route.c).                                                *)
(*                                                                         *)
(* Gates, nodes and cells are numbered from 0; the i-th of a sequence is   *)
(* number i - 1.  Areas and delays are in tenths, lengths on the die in    *)
(* steps of 0.2 um, lengths of wires in steps of the metal pitch.          *)
(***************************************************************************)
EXTENDS Integers, Sequences, FiniteSets
LOCAL INSTANCE SequencesExt
LOCAL INSTANCE FiniteSetsExt

CONSTANTS
  MaxNetlist,         \* bound of this model: gates a caller adds
  NetlistTypes,       \* types of these gates
  FirstTypes,         \* types of the first
  SynthParams,        \* parameters of synthesis: [area, fanout, gating], or NoParams
  NoParams,           \* the NULL pointer
  Far,                \* 1e12: the time before every arrival and after every deadline
  Clocks,             \* constraints: [late, early, period], or NoParams
  MaxAnalyses,        \* bound of this model: analyses of a graph
  DieW, DieH,         \* the die, and the sites it is made of
  SiteW, SiteH,
  CellSizes,          \* <<width, height>> of every cell
  Spots,              \* coordinates that global placement and fixing come to
  NetEnds,            \* <<from, to, weight>> of the nets
  MaxPlaceNets,
  MaxVias             \* bound of this model: vias of a net, updates of a map

VARIABLES
  netlist,    \* netlist_t: gates
  synthesis,  \* synth_result_t, with the number of gates synthesis was given
  graph,      \* timing_graph_t: nodes, arcs, num_pi
  analysis,   \* sta_result_t, with the number of analyses
  placement,  \* place_instance_t: cells, nets
  placed,     \* place_result_t: total_hpwl
  routes,     \* route_result_t: nets, total_wirelength, num_vias
  congestion  \* congestion_map_t: density of every grid cell, in tenths

netlistVars == <<netlist, synthesis, graph, analysis>>
placementVars == <<placement, placed, routes, congestion>>
toolVars == <<netlistVars, placementVars>>

Nothing == <<>>
Over(n) == [i \in 1 .. n |-> i]
Total(f(_), n) == MapThenSumSet(f, 1 .. n)
Ceil(a, b) == (a + b - 1) \div b
-----------------------------------------------------------------------------
(* The library that syn_load_tech_lib fills in; what synthesis does not read *)
(* (pins, delays, capacitances, threshold) is left out.                      *)
Cell(type, area, leak) == [type |-> type, area |-> area, leak |-> leak]
TechLib ==
  << Cell("INV", 6, 12), Cell("INV", 10, 18), Cell("INV", 18, 25),
     Cell("BUF", 8, 14), Cell("NAND", 9, 16), Cell("NAND", 14, 22),
     Cell("NOR", 10, 18), Cell("AND", 12, 20), Cell("OR", 12, 20),
     Cell("XOR", 20, 30), Cell("MUX", 22, 32), Cell("DFF", 35, 50),
     Cell("DFF", 50, 70), Cell("DLAT", 28, 45), Cell("AOI21", 15, 25),
     Cell("CLKGATE", 18, 28), Cell("FADD", 30, 40), Cell("TIEHI", 2, 1) >>

(* The first of the smallest cells of a type whose area is at most total /  *)
(* share, or -1.                                                            *)
FindCell(type, total, share) ==
  LET fit == {c \in DOMAIN TechLib : TechLib[c].type = type /\ TechLib[c].area * share <= total} IN
  IF fit = {} THEN -1
  ELSE (CHOOSE c \in fit : \A d \in fit : TechLib[c].area < TechLib[d].area \/ (TechLib[c].area = TechLib[d].area /\ c <= d)) - 1

NewGate(type) ==
  [type |-> type, ins |-> <<>>, outs |-> <<>>, pi |-> FALSE, po |-> FALSE, seq |-> FALSE, clock |-> FALSE, mapped |-> -1]

AddGate(type) == Len(netlist) < MaxNetlist /\ netlist' = Append(netlist, NewGate(type))

(* syn_connect: callers take the ports of either gate in order.             *)
Port(list, port, value) == IF port = Len(list) THEN Append(list, value) ELSE [list EXCEPT ![port + 1] = value]
Connect(src, srcPort, dst, dstPort) ==
  netlist' = [[netlist EXCEPT ![src + 1].outs = Port(@, srcPort, dst)] EXCEPT ![dst + 1].ins = Port(@, dstPort, src)]

SetPi(g) == netlist' = [netlist EXCEPT ![g + 1].pi = TRUE]
SetPo(g) == netlist' = [netlist EXCEPT ![g + 1].po = TRUE]
SetClock(g) == netlist' = [netlist EXCEPT ![g + 1].clock = TRUE, ![g + 1].seq = TRUE]

(* What was driven by gate g is now driven by src, but at the gate kept.    *)
(* The lists of outputs stay as they are.                                   *)
Redriven(ins, g, src) == FoldLeft(LAMBDA all, w : Append(all, IF w = g THEN src ELSE w), <<>>, ins)
Rewired(gates, g, src, kept) ==
  LET Gate(j) == IF j = kept THEN gates[j] ELSE [gates[j] EXCEPT !.ins = Redriven(@, g, src)] IN
  FoldLeft(LAMBDA all, j : Append(all, Gate(j)), <<>>, Over(Len(gates)))

(* The sinks of a buffer take its input, those of the second of two         *)
(* inverters the input of the first; a pair of inverters counts as a change *)
(* every time.                                                              *)
Shortened(run, i) ==
  LET g == run.gates[i]
      sinks == {j \in DOMAIN run.gates \ {i} : \E k \in DOMAIN run.gates[j].ins : run.gates[j].ins[k] = i - 1}
      driver == IF g.ins = <<>> THEN NewGate("NONE") ELSE run.gates[g.ins[1] + 1]
  IN CASE g.type = "BUF" /\ g.ins # <<>> /\ sinks # {} ->
            [gates |-> Rewired(run.gates, i - 1, g.ins[1], i), changed |-> TRUE]
       [] g.type = "INV" /\ driver.type = "INV" /\ driver.ins # <<>> ->
            [gates |-> Rewired(run.gates, i - 1, driver.ins[1], 0), changed |-> TRUE]
       [] OTHER -> run

Pass(gates) == FoldLeft(Shortened, [gates |-> gates, changed |-> FALSE], Over(Len(gates)))
BooleanOptimize(gates) ==
  FoldLeft(LAMBDA run, iter : IF run.changed THEN Pass(run.gates) ELSE run, [gates |-> gates, changed |-> TRUE], Over(10)).gates

(* A gate that no cell fits is mapped to cell 0, an inverter.               *)
TechMap(gates, p) ==
  LET Fitting(g) == IF p = NoParams THEN FindCell(g.type, 10000, 1) ELSE FindCell(g.type, p.area, Len(gates) + 1) IN
  [i \in DOMAIN gates |->
     IF gates[i].pi \/ gates[i].po THEN gates[i]
     ELSE [gates[i] EXCEPT !.mapped = IF Fitting(gates[i]) = -1 THEN 0 ELSE Fitting(gates[i])]]

(* Three passes that add gates and connect none of them.                    *)
Adding(gates, type, number) ==
  FoldLeft(LAMBDA all, i : all \o [b \in 1 .. number[i] |-> NewGate(type)], gates, Over(Len(gates)))
FanoutRepair(gates, max) ==
  Adding(gates, "BUF", [i \in DOMAIN gates |-> IF Len(gates[i].outs) > max THEN Ceil(Len(gates[i].outs), max) ELSE 0])
ClockGating(gates) == Adding(gates, "CLKGATE", [i \in DOMAIN gates |-> IF gates[i].type = "DFF" THEN 1 ELSE 0])
DecomposeAig(gates) == Adding(gates, "AND", [i \in DOMAIN gates |-> IF Len(gates[i].ins) > 2 THEN 1 ELSE 0])

AreaRecovery(gates) ==
  [i \in DOMAIN gates |-> IF gates[i].type = "INV" /\ i < Len(gates)
                          THEN [gates[i] EXCEPT !.mapped = FindCell("INV", 10, 1)] ELSE gates[i]]

EstimateArea(gates) == Total(LAMBDA i : IF gates[i].mapped >= 0 THEN TechLib[gates[i].mapped + 1].area ELSE 0, Len(gates))
Leakage(gates) == Total(LAMBDA i : IF gates[i].mapped >= 0 THEN TechLib[gates[i].mapped + 1].leak ELSE 0, Len(gates))
CountCells(gates) == Cardinality({i \in DOMAIN gates : ~gates[i].pi /\ ~gates[i].po})

(* Constant propagation and the removal of dead gates, which come last,     *)
(* look at every gate and change none.                                      *)
Synthesized(gates, p) ==
  LET mapped == TechMap(DecomposeAig(BooleanOptimize(BooleanOptimize(gates))), p)
      repaired == IF p # NoParams /\ p.fanout > 0 THEN FanoutRepair(mapped, p.fanout) ELSE mapped
      gated == IF p # NoParams /\ p.gating THEN ClockGating(repaired) ELSE repaired
  IN AreaRecovery(gated)

Synthesize(p) ==
  \E final \in {Synthesized(netlist, p)} :
    /\ netlist # <<>> /\ synthesis = Nothing
    /\ netlist' = final
    /\ synthesis' = [given |-> netlist, area |-> EstimateArea(final), leakage |-> Leakage(final), cells |-> CountCells(final),
                     nets |-> Total(LAMBDA i : Len(final[i].ins), Len(final)), params |-> p]
-----------------------------------------------------------------------------
(* Timing analysis.  Rising and falling edges are always given the same     *)
(* times; nothing marks a node as an output, so that flip-flops are the only *)
(* endpoints; and a flip-flop passes times on like every other gate.        *)
ArcsInto(gates, i) == [k \in DOMAIN gates[i].ins |-> [from |-> gates[i].ins[k], to |-> i - 1, delay |-> 250]]

BuildGraph(gates) ==
  [nodes |-> [i \in DOMAIN gates |->
                [flop |-> gates[i].type = "DFF", latch |-> gates[i].type = "DLAT", port |-> gates[i].pi \/ gates[i].po,
                 fanin |-> Len(gates[i].ins),
                 fanout |-> Total(LAMBDA j : Len(SelectSeq(gates[j].ins, LAMBDA s : s = i - 1)), Len(gates)),
                 arrival |-> -Far, required |-> Far, slack |-> 0]],
   arcs |-> FoldLeft(LAMBDA all, i : all \o ArcsInto(gates, i), <<>>, Over(Len(gates))),
   inputs |-> Cardinality({i \in DOMAIN gates : gates[i].pi})]

(* Without a cell a gate takes 50 ps, without a model a wire 5.             *)
DelayCalc(g) == [g EXCEPT !.arcs = [a \in DOMAIN @ |-> [@[a] EXCEPT !.delay = 500 + 50]]]

Started(g, n) == g.nodes[n].port /\ g.inputs > 0 /\ g.nodes[n].fanout > 0
Later(nodes, a, late) ==
  LET t == nodes[a.from + 1].arrival + (a.delay * late) \div 10 IN
  IF t > nodes[a.to + 1].arrival THEN [nodes EXCEPT ![a.to + 1].arrival = t] ELSE nodes
ForwardPropagate(g, late) ==
  LET start == [n \in DOMAIN g.nodes |-> IF Started(g, n) THEN [g.nodes[n] EXCEPT !.arrival = 0] ELSE g.nodes[n]]
      Once(nodes, pass) == FoldLeft(LAMBDA ns, a : Later(ns, a, late), nodes, g.arcs)
  IN [g EXCEPT !.nodes = FoldLeft(Once, start, Over(3))]

Ends(g, n) == g.nodes[n].flop /\ g.nodes[n].fanin = 1
Earlier(nodes, a, early) ==
  LET t == nodes[a.to + 1].required - (a.delay * early) \div 10 IN
  IF t < nodes[a.from + 1].required THEN [nodes EXCEPT ![a.from + 1].required = t] ELSE nodes
BackwardPropagate(g, period, early) ==
  LET end == [n \in DOMAIN g.nodes |-> IF Ends(g, n) THEN [g.nodes[n] EXCEPT !.required = period] ELSE g.nodes[n]]
      Once(nodes, pass) == FoldLeft(LAMBDA ns, a : Earlier(ns, a, early), nodes, g.arcs)
  IN [g EXCEPT !.nodes = FoldLeft(Once, end, Over(3))]

CalcSlack(g) ==
  [g EXCEPT !.nodes = [n \in DOMAIN @ |-> [@[n] EXCEPT !.slack = g.nodes[n].required - g.nodes[n].arrival]]]

(* The node of the least slack; none when no slack is below Far.            *)
CriticalNode(nodes) ==
  LET tight == {n \in DOMAIN nodes : nodes[n].slack < Far} IN
  IF tight = {} THEN 0
  ELSE CHOOSE n \in tight : \A m \in tight : nodes[n].slack < nodes[m].slack \/ (nodes[n].slack = nodes[m].slack /\ n <= m)

(* What is called the worst slack is first the least and then the greatest. *)
Summary(nodes) ==
  LET flops == {n \in DOMAIN nodes : nodes[n].flop}
      violated == Cardinality({n \in flops : nodes[n].slack < 0})
      critical == CriticalNode(nodes)
  IN [endpoints |-> Cardinality(flops), violated |-> violated, endNode |-> critical - 1,
      setup |-> IF critical = 0 THEN Far ELSE nodes[critical].slack,
      tns |-> Total(LAMBDA n : IF nodes[n].slack < 0 THEN nodes[n].slack ELSE 0, Len(nodes)),
      wns |-> IF violated = 0 THEN 0 ELSE Max({nodes[n].slack : n \in DOMAIN nodes})]

Underated == [late |-> 10, early |-> 10, period |-> 10000]
Analyzed(g, clock) ==
  LET c == IF clock = NoParams THEN Underated ELSE clock
      forward == ForwardPropagate(DelayCalc(g), c.late)
  IN CalcSlack(BackwardPropagate(forward, c.period, c.early))

CreateGraph ==
  /\ netlist # <<>> /\ synthesis = Nothing /\ graph = Nothing
  /\ graph' = BuildGraph(netlist) /\ UNCHANGED <<netlist, synthesis, analysis>>

(* Times of an earlier analysis stay: arrivals grow only, deadlines shrink. *)
RunAnalysis(clock) ==
  /\ graph # Nothing /\ analysis.count < MaxAnalyses
  /\ graph' = Analyzed(graph, clock)
  /\ analysis' = [count |-> analysis.count + 1, clock |-> clock, summary |-> Summary(graph'.nodes)]
  /\ UNCHANGED <<netlist, synthesis>>
-----------------------------------------------------------------------------
(* Placement.                                                               *)
Hpwl(p) ==
  LET Span(n) == LET a == p.cells[p.nets[n].src + 1]  b == p.cells[p.nets[n].dst + 1] IN
                 (Max({a.x, b.x}) - Min({a.x, b.x}) + Max({a.y, b.y}) - Min({a.y, b.y})) * p.nets[n].weight
  IN Total(Span, Len(p.nets))

BlankCell == [w |-> 0, h |-> 0, x |-> 0, y |-> 0, fixed |-> FALSE]
AddPlaceCell(id) ==
  placement' = [placement EXCEPT !.cells[id + 1].w = CellSizes[id + 1][1], !.cells[id + 1].h = CellSizes[id + 1][2]]
AddPlaceNet(ends) ==
  /\ Len(placement.nets) < MaxPlaceNets
  /\ placement' = [placement EXCEPT !.nets = Append(@, [src |-> ends[1], dst |-> ends[2], weight |-> ends[3]])]
SetFixedCell(id, x, y) ==
  placement' = [placement EXCEPT !.cells[id + 1].x = x, !.cells[id + 1].y = y, !.cells[id + 1].fixed = TRUE]

(* place_spread: back onto the die, fixed or not.                           *)
Inside(at, size, edge) ==
  LET low == IF at < 0 THEN 0 ELSE at IN IF low + size > edge THEN edge - size ELSE low
Spread(cells) ==
  [i \in DOMAIN cells |-> [cells[i] EXCEPT !.x = Inside(@, cells[i].w, DieW), !.y = Inside(@, cells[i].h, DieH)]]

(* The quadratic and the force-directed placer compute real coordinates for *)
(* every cell that is not fixed, here any of the spots; each round ends on  *)
(* the die.                                                                 *)
GlobalPlace ==
  \E xs, ys \in [DOMAIN placement.cells -> Spots] :
    LET moved == [i \in DOMAIN placement.cells |->
                    IF placement.cells[i].fixed THEN placement.cells[i]
                    ELSE [placement.cells[i] EXCEPT !.x = xs[i], !.y = ys[i]]]
    IN /\ placement' = [placement EXCEPT !.cells = Spread(moved)]
       /\ placed' = Hpwl(placement')

(* One round of annealing swaps two cells; when the length grows and chance *)
(* does not help, they are put back.  A round that draws a fixed cell is    *)
(* none.                                                                    *)
Swapped(p, a, b) ==
  [p EXCEPT !.cells[a].x = p.cells[b].x, !.cells[a].y = p.cells[b].y,
            !.cells[b].x = p.cells[a].x, !.cells[b].y = p.cells[a].y]
AnnealRound ==
  \E a, b \in DOMAIN placement.cells, lucky \in BOOLEAN :
    LET swapped == Swapped(placement, a, b)  accepted == Hpwl(swapped) < Hpwl(placement) \/ lucky IN
    /\ ~placement.cells[a].fixed /\ ~placement.cells[b].fixed
    /\ placement' = IF accepted THEN swapped ELSE Swapped(swapped, a, b)
    /\ placed' = IF accepted THEN Hpwl(swapped) ELSE Hpwl(placement)

(* pr_legalize: rows from the left, 0.2 um apart, as high as three sites,   *)
(* whatever is fixed there and however many rows the die has.               *)
Seated(run, i) ==
  LET c == run.cells[i]  full == run.x + c.w > DieW
      x == IF full THEN 0 ELSE run.x  row == IF full THEN run.row + 1 ELSE run.row
  IN IF c.fixed THEN run
     ELSE [cells |-> [run.cells EXCEPT ![i].x = x, ![i].y = row * SiteH * 3], x |-> x + c.w + 1, row |-> row]
Legalized(cells) == FoldLeft(Seated, [cells |-> cells, x |-> 0, row |-> 0], Over(Len(cells))).cells
Legalize == placement' = [placement EXCEPT !.cells = Legalized(@)] /\ UNCHANGED placed

(* pr_detailed_place: one cell after the other to the first of the best of  *)
(* the nine places around it that are on the die, occupied or not.          *)
Settled(p, i) ==
  LET c == p.cells[i]
      At(d) == [p EXCEPT !.cells[i].x = c.x + d[1] * SiteW, !.cells[i].y = c.y + d[2] * SiteH]
      OnDie(q) == /\ q.cells[i].x >= 0 /\ q.cells[i].y >= 0
                  /\ q.cells[i].x + c.w <= DieW /\ q.cells[i].y + c.h <= DieH
      Before(d, e) == d[1] < e[1] \/ (d[1] = e[1] /\ d[2] <= e[2])
      moves == {d \in (-1 .. 1) \X (-1 .. 1) : OnDie(At(d))}
      best == Min({Hpwl(At(d)) : d \in moves})
  IN IF c.fixed \/ moves = {} THEN p
     ELSE At(CHOOSE d \in moves : Hpwl(At(d)) = best /\ \A e \in moves : Hpwl(At(e)) = best => Before(d, e))
Detailed(p) == FoldLeft(Settled, p, Over(Len(p.cells)))
DetailedPlace == placement' = Detailed(placement) /\ placed' = Hpwl(placement')
-----------------------------------------------------------------------------
(* Routing: a straight walk between the sites of two cells, of at most 100  *)
(* steps, remembered by the site in the middle.                             *)
GridX == DieW \div SiteW
GridY == DieH \div SiteH
(* division of C: toward zero                                               *)
Quotient(a, b) == IF a >= 0 THEN a \div b ELSE -((-a) \div b)
Site(cell) == <<Quotient(cell.x, SiteW), Quotient(cell.y, SiteH)>>
Distance(s, d) == Max({s[1], d[1]}) - Min({s[1], d[1]}) + Max({s[2], d[2]}) - Min({s[2], d[2]})
MazeExpand(s, d) == Min({100, Distance(s, d)})

MazeRoutes ==
  LET Routed(n) ==
        LET s == Site(placement.cells[placement.nets[n].src + 1])  d == Site(placement.cells[placement.nets[n].dst + 1]) IN
        [segments |-> {<<Quotient(s[1] + d[1], 2), Quotient(s[2] + d[2], 2)>>}, length |-> MazeExpand(s, d), vias |-> 1]
      nets == [n \in DOMAIN placement.nets |-> Routed(n)]
  IN [nets |-> nets, length |-> Total(LAMBDA n : nets[n].length, Len(nets)), vias |-> Len(nets)]

RouteMaze == routes' = MazeRoutes /\ UNCHANGED congestion

(* A via more for every net, not for their sum.                             *)
DetailRoute ==
  /\ \A n \in DOMAIN routes.nets : routes.nets[n].vias < MaxVias
  /\ routes' = [routes EXCEPT !.nets = [n \in DOMAIN @ |-> [@[n] EXCEPT !.vias = @ + 1]]] /\ UNCHANGED congestion

(* Every iteration frees all routes and routes anew.                        *)
RipupReroute(iterations) ==
  routes' = (IF iterations > 0 THEN MazeRoutes ELSE routes) /\ UNCHANGED congestion

(* Two fixed segments of 10 um; the length is added to what there was, the  *)
(* vias of the net stay.                                                    *)
RouteSingleNet(n) ==
  /\ routes.nets # <<>> /\ routes.length < 100 * MaxVias
  /\ routes' = [routes EXCEPT !.nets[n].segments = {<<0, 0>>, <<1, 1>>}, !.nets[n].length = 100, !.length = @ + 100]
  /\ UNCHANGED congestion

AddRedundantVia(n) ==
  /\ routes.nets[n].vias < MaxVias
  /\ routes' = [routes EXCEPT !.nets[n].vias = @ + 1, !.vias = @ + 1] /\ UNCHANGED congestion

CheckAntenna(n) == routes.nets[n].length < 1000
CountDrc == Cardinality({n \in DOMAIN routes.nets : routes.nets[n].segments = {}})

(* Every segment on the grid makes its place denser, in every update again. *)
Crossing(place) == Cardinality({n \in DOMAIN routes.nets : place \in routes.nets[n].segments})
UpdateCongestion ==
  /\ \A place \in DOMAIN congestion : congestion[place] + Crossing(place) <= MaxVias
  /\ congestion' = [place \in DOMAIN congestion |-> congestion[place] + Crossing(place)] /\ UNCHANGED routes
QueryCongestion(x, y) == IF <<x, y>> \in DOMAIN congestion THEN congestion[<<x, y>>] ELSE -10
-----------------------------------------------------------------------------
ToolsInit ==
  /\ netlist = <<>> /\ synthesis = Nothing /\ graph = Nothing
  /\ analysis = [count |-> 0, clock |-> NoParams, summary |-> Nothing]
  /\ placement = [cells |-> [i \in DOMAIN CellSizes |-> BlankCell], nets |-> <<>>] /\ placed = 0
  /\ routes = [nets |-> <<>>, length |-> 0, vias |-> 0]
  /\ congestion = [place \in (0 .. GridX - 1) \X (0 .. GridY - 1) |-> 0]

(* A gate is wired before the next is added, its drivers in order, with      *)
(* flip-flops in loops; the first may be an input or a clock, the last an    *)
(* output.                                                                   *)
Pins(type) == IF type = "AND" THEN 3 ELSE 1
Sources(type, g) == IF type = "DFF" THEN 0 .. g ELSE 0 .. g - 1
Build ==
  /\ synthesis = Nothing /\ graph = Nothing /\ UNCHANGED <<synthesis, graph, analysis>>
  /\ \/ /\ Len(netlist) > 1 => netlist[Len(netlist)].ins # <<>>
        /\ \E type \in IF netlist = <<>> THEN FirstTypes ELSE NetlistTypes : AddGate(type)
     \/ LET g == Len(netlist) - 1  gate == netlist[g + 1] IN
        /\ netlist # <<>> /\ Len(gate.ins) < Pins(gate.type)
        /\ \E src \in {s \in Sources(gate.type, g) : \A k \in DOMAIN gate.ins : gate.ins[k] <= s} :
             Connect(src, Len(netlist[src + 1].outs), g, Len(gate.ins))
     \/ Len(netlist) = 1 /\ ~netlist[1].pi /\ ~netlist[1].clock /\ (SetPi(0) \/ SetClock(0))
     \/ Len(netlist) = MaxNetlist /\ SetPo(MaxNetlist - 1)

NetlistNext ==
  \/ Build
  \/ \E p \in SynthParams \cup {NoParams} : Synthesize(p) /\ UNCHANGED <<graph, analysis>>
  \/ CreateGraph
  \/ \E clock \in Clocks \cup {NoParams} : RunAnalysis(clock)

(* Cells come first; placement ends when the first nets are routed.          *)
Described == \A i \in DOMAIN placement.cells : placement.cells[i].w > 0
PlaceNext ==
  \/ /\ ~Described /\ UNCHANGED <<placed, routes, congestion>>
     /\ \E id \in 0 .. Len(CellSizes) - 1 : placement.cells[id + 1].w = 0 /\ AddPlaceCell(id)
  \/ /\ Described /\ routes.nets = <<>> /\ UNCHANGED <<routes, congestion>>
     /\ \/ UNCHANGED placed /\ \E ends \in NetEnds : AddPlaceNet(ends)
        \/ UNCHANGED placed /\ \E x, y \in Spots : SetFixedCell(0, x, y)
        \/ GlobalPlace \/ AnnealRound \/ Legalize \/ DetailedPlace
  \/ /\ Described /\ UNCHANGED <<placement, placed>>
     /\ \/ RouteMaze \/ DetailRoute \/ UpdateCongestion
        \/ \E iterations \in {0, 1} : RipupReroute(iterations)
        \/ \E n \in DOMAIN routes.nets : RouteSingleNet(n) \/ AddRedundantVia(n)
-----------------------------------------------------------------------------
(* What gates in order drive, given those that no gate drives.              *)
InOrder(gates) == \A i \in DOMAIN gates : \A k \in DOMAIN gates[i].ins : gates[i].ins[k] < i - 1
Driven(gates, env) ==
  LET v[w \in 0 .. Len(gates) - 1] ==
        LET g == gates[w + 1] IN
        CASE g.ins = <<>> \/ g.type = "DFF" -> env[w]
          [] g.type = "INV" -> ~v[g.ins[1]]
          [] g.type = "BUF" -> v[g.ins[1]]
          [] OTHER -> \A k \in DOMAIN g.ins : v[g.ins[k]]
  IN [w \in 0 .. Len(gates) - 1 |-> v[w]]

(* SynthesisKept: the optimiser changes what no gate drives; synthesis      *)
(* keeps the given gates with their types, connects nothing to those it     *)
(* adds, and maps every gate it was given to the smallest cell of its type  *)
(* that fits; a gate that none fits, and none else, is mapped to cell 0     *)
(* beside inverters; cells added after mapping are in neither area nor      *)
(* leakage.                                                                 *)
SynthesisKept ==
  /\ synthesis = Nothing /\ InOrder(netlist) =>
       \A high \in SUBSET (0 .. Len(netlist) - 1) :
         LET env == [w \in 0 .. Len(netlist) - 1 |-> w \in high] IN
         Driven(BooleanOptimize(netlist), env) = Driven(netlist, env)
  /\ synthesis # Nothing =>
       LET old == 1 .. Len(synthesis.given)
           wide == {i \in old : Len(synthesis.given[i].ins) > 2}
           share == Cardinality(old) + Cardinality(wide) + 1 IN
       /\ \A i \in old : netlist[i].type = synthesis.given[i].type /\ netlist[i].outs = synthesis.given[i].outs
       /\ \A i \in DOMAIN netlist \ old : netlist[i].ins = <<>>
       /\ \A i, j \in DOMAIN netlist : \A k \in DOMAIN netlist[i].ins : netlist[i].ins[k] = j - 1 => j \in old
       /\ \A i \in old : LET g == netlist[i] IN
            /\ g.mapped > 0 => TechLib[g.mapped + 1].type = g.type
            /\ g.mapped = 0 /\ g.type # "INV" => synthesis.params # NoParams /\ FindCell(g.type, synthesis.params.area, share) = -1
       /\ synthesis.cells = Len(netlist) - Cardinality({i \in old : netlist[i].pi \/ netlist[i].po})
       /\ synthesis.area = Total(LAMBDA i : IF netlist[i].mapped < 0 THEN 0 ELSE TechLib[netlist[i].mapped + 1].area, Len(netlist))

(* TimingKept: in a netlist whose gates come in order, arrivals are the     *)
(* longest paths from the ports and deadlines the shortest from the         *)
(* flip-flops (paths of up to three arcs); a second analysis never makes an *)
(* arrival earlier or a deadline later.  The sum counts the negative slacks, *)
(* and the slack called the worst is no less than any other.                *)
TimingKept ==
  analysis.count > 0 /\ InOrder(netlist) =>
    LET c == IF analysis.clock = NoParams THEN Underated ELSE analysis.clock
        nodes == graph.nodes
        Into(n) == {a \in 1 .. Len(graph.arcs) : graph.arcs[a].to = n - 1}
        From(n) == {a \in 1 .. Len(graph.arcs) : graph.arcs[a].from = n - 1}
        longest[n \in DOMAIN nodes] ==
          Max({IF Started(graph, n) THEN 0 ELSE -Far} \cup {longest[graph.arcs[a].from + 1] + 55 * c.late : a \in Into(n)})
        shortest[n \in DOMAIN nodes] ==
          Min({IF Ends(graph, n) THEN c.period ELSE Far} \cup {shortest[graph.arcs[a].to + 1] - 55 * c.early : a \in From(n)})
        s == analysis.summary
    IN /\ \A n \in DOMAIN nodes : /\ nodes[n].arrival >= longest[n]
                                  /\ analysis.count = 1 => nodes[n].arrival = longest[n] /\ nodes[n].required = shortest[n]
                                  /\ nodes[n].slack = nodes[n].required - nodes[n].arrival
       /\ s.violated > 0 => s.tns < 0 /\ \A n \in DOMAIN nodes : s.setup <= nodes[n].slack /\ nodes[n].slack <= s.wns
       /\ (s.violated = 0 => s.wns = 0) /\ s.violated <= s.endpoints

(* PlacementLegal: spreading brings every cell that fits onto the die;      *)
(* legalising leaves no two movable cells on top of each other when rows    *)
(* are high enough; detailed placement makes no net longer and leaves cells *)
(* on the die there, and fixed cells where they are; and the length that    *)
(* annealing reports is that of the placement it leaves.                    *)
PlacementLegal ==
  LET cells == placement.cells
      OnDie(c) == c.x >= 0 /\ c.y >= 0 /\ c.x + c.w <= DieW /\ c.y + c.h <= DieH
      Apart(a, b) == a.x + a.w <= b.x \/ b.x + b.w <= a.x \/ a.y + a.h <= b.y \/ b.y + b.h <= a.y
      legal == Legalized(cells)  settled == Detailed(placement)
  IN Described =>
     /\ \A i \in DOMAIN cells : cells[i].w <= DieW /\ cells[i].h <= DieH => OnDie(Spread(cells)[i])
     /\ \A i, j \in DOMAIN cells :
          i # j /\ ~cells[i].fixed /\ ~cells[j].fixed /\ cells[i].h <= 3 * SiteH /\ cells[j].h <= 3 * SiteH =>
            Apart(legal[i], legal[j])
     /\ (\A i \in DOMAIN cells : OnDie(cells[i])) =>
          Hpwl(settled) <= Hpwl(placement) /\ \A i \in DOMAIN cells : OnDie(settled.cells[i])
     /\ \A i \in DOMAIN cells : cells[i].fixed => settled.cells[i] = cells[i] /\ legal[i] = cells[i]

(* RoutesAddUp: a net is as long as its ends are apart; the sum of lengths  *)
(* never falls below that of the nets, that of vias never above; no route   *)
(* is long enough to fail the antenna check, or without a segment.          *)
RoutesAddUp ==
  LET nets == routes.nets IN
  /\ routes.length >= Total(LAMBDA n : nets[n].length, Len(nets))
  /\ routes.vias <= Total(LAMBDA n : nets[n].vias, Len(nets))
  /\ \A n \in DOMAIN nets : CheckAntenna(n) /\ QueryCongestion(-1, 0) < 0
  /\ CountDrc = 0
  /\ \A n \in DOMAIN nets : LET ends == placement.nets[n] IN
       nets[n].length \in {100, Distance(Site(placement.cells[ends.src + 1]), Site(placement.cells[ends.dst + 1]))}
=============================================================================
