----------------------------- MODULE FpgaRouting -----------------------------
(***************************************************************************)
(* Routing over the resource graph of an FPGA (routing_fabric.c) and the   *)
(* timing graph of the routed design (timing_fpga.c).                      *)
(*                                                                         *)
(* Lee's router searches breadth first along edges in both directions; the *)
(* A* router follows edges forward and takes its next node from a binary   *)
(* heap whose removal compares the children with the entry that was just   *)
(* taken.  The negotiation loop routes each net once, on its first sink,   *)
(* and raises its factor while some node is overused.  Delays and periods  *)
(* are small integers.                                                     *)
(***************************************************************************)
EXTENDS Naturals, Integers, Sequences, FiniteSets
LOCAL INSTANCE SequencesExt
LOCAL INSTANCE FiniteSetsExt
LOCAL INSTANCE TLC

CONSTANTS
    RrW,              \* width of the grid the wires lie on
    MaxWires,         \* bound: nodes of the resource graph
    MaxSwitches,      \* bound: its edges
    MaxNets,          \* bound: nets to route
    MaxIterations,    \* max_iterations of the negotiation
    MaxPins,          \* bound: nodes of the timing graph
    MaxArcs,          \* bound: its edges
    Delays,           \* delays an edge may have
    Periods           \* clock periods; the first domain is the default

VARIABLES
    wires,       \* num_nodes; node n lies at ((n-1) % RrW, (n-1) \div RrW)
    outs, ins,   \* out_edges and in_edges of every node
    occupancy,   \* nets that pass each node
    trails,      \* per net: [from, to, path], path empty while unrouted
    rounds,      \* iterations of the negotiation, -1 before and -2 after it
    search,      \* the last single search: router, ends, path, cost
    arcs,        \* timing edges: [from, to, delay, skip]
    domains,     \* clock domain of each timing node
    arrival, required,
    sta          \* what the last analysis returned

routeVars  == <<wires, outs, ins, occupancy, trails, rounds, search>>
timingVars == <<arcs, domains, arrival, required, sta>>
routingVars == <<routeVars, timingVars>>

Nodes == 1..wires

-----------------------------------------------------------------------------
(* The resource graph.                                                     *)

AddNode ==
    /\ rounds = -1 /\ trails = <<>>
    /\ wires < MaxWires
    /\ wires' = wires + 1
    /\ outs' = Append(outs, <<>>)
    /\ ins' = Append(ins, <<>>)
    /\ occupancy' = Append(occupancy, 0)
    /\ UNCHANGED <<trails, rounds, search, timingVars>>

Edges == FoldSet(LAMBDA n, acc : acc + Len(outs[n]), 0, Nodes)

AddEdge(from, to) ==
    /\ rounds = -1 /\ trails = <<>> /\ search.router = "none"
    /\ Edges < MaxSwitches
    /\ outs' = [outs EXCEPT ![from] = Append(@, to)]
    /\ ins' = [ins EXCEPT ![to] = Append(@, from)]
    /\ UNCHANGED <<wires, occupancy, trails, rounds, search, timingVars>>

(* rr_graph_is_connected: one edge or two, forward only. *)
NearlyConnected(a, b) ==
    b \in Range(outs[a]) \/ \E m \in Range(outs[a]) : b \in Range(outs[m])

-----------------------------------------------------------------------------
(* Lee's router: the queue, and for every labelled node the one it was     *)
(* labelled from (0 for the source).                                       *)
RECURSIVE Wave(_, _, _)
Wave(queue, prev, sink) ==
    IF queue = <<>> \/ Head(queue) = sink THEN prev
    ELSE LET u == Head(queue)
             Label(st, v) == IF v \in DOMAIN st.prev THEN st
                             ELSE [queue |-> Append(st.queue, v), prev |-> st.prev @@ (v :> u)]
             next == FoldLeft(Label, [queue |-> Tail(queue), prev |-> prev], outs[u] \o ins[u])
         IN Wave(next.queue, next.prev, sink)

RECURSIVE Backtrace(_, _)
Backtrace(prev, n) == IF prev[n] = 0 THEN <<n>> ELSE Append(Backtrace(prev, prev[n]), n)

RouteMazeBfs(from, to) ==
    LET prev == Wave(<<from>>, from :> 0, to)
    IN IF to \in DOMAIN prev THEN Backtrace(prev, to) ELSE <<>>

-----------------------------------------------------------------------------
(* The A* router.  An entry of the heap is <<node, cost>>.                  *)
Abs(n) == IF n < 0 THEN -n ELSE n
Column(n) == (n - 1) % RrW
Row(n) == (n - 1) \div RrW
Manhattan(a, b) == Abs(Column(a) - Column(b)) + Abs(Row(a) - Row(b))

RECURSIVE SiftUp(_, _, _)
SiftUp(heap, i, entry) ==
    IF i = 1 \/ heap[i \div 2][2] <= entry[2] THEN [heap EXCEPT ![i] = entry]
    ELSE SiftUp([heap EXCEPT ![i] = heap[i \div 2]], i \div 2, entry)

HeapPush(heap, entry) == SiftUp(Append(heap, entry), Len(heap) + 1, entry)

RECURSIVE Sink(_, _, _)
Sink(heap, i, last) ==
    LET lower == {c \in {2 * i, 2 * i + 1} : c <= Len(heap) /\ heap[c][2] < heap[i][2]}
        least == {c \in lower : \A d \in lower : \/ heap[c][2] < heap[d][2]
                                                 \/ heap[c][2] = heap[d][2] /\ c <= d}
    IN IF lower = {} THEN (IF i <= Len(heap) THEN [heap EXCEPT ![i] = last] ELSE heap)
       ELSE LET c == Min(least) IN Sink([heap EXCEPT ![i] = heap[c]], c, last)

HeapPop(heap) == Sink(Front(heap), 1, Last(heap))

(* A hop costs one, or next to nothing against the distance when the delay *)
(* of a wire is the cost.                                                  *)
Estimate(from, to, byDelay) == Manhattan(from, to) * (IF byDelay THEN 1000 ELSE 1)

RECURSIVE AStar(_, _, _)
AStar(st, sink, byDelay) ==
    IF st.heap = <<>> \/ sink \in st.visited THEN st
    ELSE LET u == Head(st.heap)[1]
             popped == [st EXCEPT !.heap = HeapPop(@)]
             Relax(s, v) ==
                LET g == s.g[u] + 1 IN
                IF v \in s.visited \/ (v \in DOMAIN s.g /\ g >= s.g[v]) THEN s
                ELSE [s EXCEPT !.g = (v :> g) @@ @,
                               !.prev = (v :> u) @@ @,
                               !.heap = HeapPush(@, <<v, g + Estimate(v, sink, byDelay)>>)]
         IN IF u \in st.visited THEN AStar(popped, sink, byDelay)
            ELSE IF u = sink THEN [popped EXCEPT !.visited = @ \cup {u}]
            ELSE AStar(FoldLeft(Relax, [popped EXCEPT !.visited = @ \cup {u}], outs[u]),
                       sink, byDelay)

RouteAStar(from, to, byDelay) ==
    LET st == AStar([heap |-> <<<<from, Estimate(from, to, byDelay)>>>>, visited |-> {},
                     g |-> from :> 0, prev |-> from :> 0], to, byDelay)
    IN IF to \in st.visited THEN [path |-> Backtrace(st.prev, to), cost |-> st.g[to]]
       ELSE [path |-> <<>>, cost |-> 0]

(* One search on its own: route_maze_bfs, route_astar, or the two searches  *)
(* of route_with_redundancy, which gives back the occupancy it borrowed.    *)
Search(router, from, to) ==
    /\ rounds = -1 /\ trails = <<>> /\ search.router = "none"
    /\ search' =
         CASE router = "maze" ->
                LET p == RouteMazeBfs(from, to)
                IN [router |-> router, from |-> from, to |-> to, path |-> p, cost |-> Len(p) - 1]
           [] router = "backup" ->
                LET p == RouteMazeBfs(from, to)
                IN [router |-> router, from |-> from, to |-> to, path |-> p, cost |-> Len(p) - 1]
           [] OTHER ->
                LET r == RouteAStar(from, to, router = "delay")
                IN [router |-> router, from |-> from, to |-> to, path |-> r.path, cost |-> r.cost]
    /\ UNCHANGED <<wires, outs, ins, occupancy, trails, rounds, timingVars>>

-----------------------------------------------------------------------------
(* Negotiation.                                                            *)
AddNet(from, to) ==
    /\ rounds = -1 /\ search.router = "none"
    /\ Len(trails) < MaxNets
    /\ trails' = Append(trails, [from |-> from, to |-> to, path |-> <<>>])
    /\ UNCHANGED <<wires, outs, ins, occupancy, rounds, search, timingVars>>

IsCongested == \E n \in Nodes : occupancy[n] > 1

(* route_net_pathfinder; a net that has a path is passed over. *)
RouteNet(st, n) ==
    LET path == RouteMazeBfs(st.trails[n].from, st.trails[n].to) IN
    IF st.trails[n].path # <<>> \/ path = <<>> THEN st
    ELSE [trails |-> [st.trails EXCEPT ![n].path = path],
          occupancy |-> [m \in Nodes |-> st.occupancy[m]
                            + Cardinality({i \in DOMAIN path : path[i] = m})]]

(* One turn of route_pathfinder's loop: all nets, then either no node is    *)
(* overused and the loop ends, or the factors grow and it goes on.  Nothing *)
(* sets times_overused, so no history builds up.                            *)
Negotiate ==
    /\ trails # <<>> /\ rounds # -2
    /\ rounds < MaxIterations
    /\ LET st == FoldLeft(RouteNet, [trails |-> trails, occupancy |-> occupancy],
                          [n \in DOMAIN trails |-> n])
       IN /\ trails' = st.trails
          /\ occupancy' = st.occupancy
    /\ rounds' = IF \E n \in Nodes : occupancy'[n] > 1
                 THEN (IF rounds = -1 THEN 1 ELSE rounds + 1) ELSE -2
    /\ UNCHANGED <<wires, outs, ins, search, timingVars>>

(* Every path the routers give is real: it runs from the source to the sink *)
(* along edges (forward ones only for A-star), visits no node twice and costs   *)
(* what they say; Lee's paths are shortest and exist whenever any does; and *)
(* a node's occupancy is the number of routed nets that pass it.            *)
RoutesReal ==
    LET Beside(n) == Range(outs[n]) \cup Range(ins[n])
        Reach[k \in 0..MaxWires] ==
            [n \in Nodes |-> IF k = 0 THEN {n} ELSE UNION {Beside(m) : m \in Reach[k-1][n]}
                                                     \cup Reach[k-1][n]]
        Chain(p, a, b, Step(_)) ==
            /\ p[1] = a /\ p[Len(p)] = b
            /\ \A i \in 1..Len(p)-1 : p[i+1] \in Step(p[i])
            /\ \A i, j \in DOMAIN p : p[i] = p[j] => i = j
        Shortest(p, a, b) ==
            IF p = <<>> THEN b \notin Reach[MaxWires][a]
            ELSE Chain(p, a, b, Beside) /\ (Len(p) > 1 => b \notin Reach[Len(p)-2][a])
        Forward(n) == Range(outs[n])
    IN /\ \A t \in Range(trails) : t.path # <<>> \/ rounds # -1 => Shortest(t.path, t.from, t.to)
       /\ search.router \in {"maze", "backup"} => Shortest(search.path, search.from, search.to)
       /\ search.router \in {"hops", "delay"} /\ search.path # <<>> =>
             /\ Chain(search.path, search.from, search.to, Forward)
             /\ search.cost = Len(search.path) - 1
             /\ search.cost \in 1..2 => NearlyConnected(search.from, search.to)
       /\ \A n \in Nodes : occupancy[n] = Cardinality({t \in DOMAIN trails : n \in Range(trails[t].path)})
       /\ rounds = -2 => ~IsCongested

-----------------------------------------------------------------------------
(* Static timing.                                                          *)
Pins == DOMAIN domains
Never == 1000

AddPin(domain) ==
    /\ arcs = <<>> /\ sta = "none"
    /\ Len(domains) < MaxPins
    /\ domains' = Append(domains, domain)
    /\ arrival' = Append(arrival, 0)
    /\ required' = Append(required, Never)
    /\ UNCHANGED <<arcs, sta, routeVars>>

AddArc(from, to, delay, skip) ==
    /\ Len(arcs) < MaxArcs
    /\ arcs' = Append(arcs, [from |-> from, to |-> to, delay |-> delay, skip |-> skip])
    /\ sta' = "none"
    /\ UNCHANGED <<domains, arrival, required, routeVars>>

FanIn(n)  == {e \in DOMAIN arcs : arcs[e].to = n}
FanOut(n) == {e \in DOMAIN arcs : arcs[e].from = n}

(* timing_get_clock_period: an unknown domain has the default. *)
Period(d) == IF d \in DOMAIN Periods THEN Periods[d] ELSE Periods[1]

\* faulty
Latest(time, e) == time[arcs[e].from] + arcs[e].delay

(* A pass over the graph in dependence order: pins with no arc left to wait *)
(* for are taken in turn and every arc that is not skipped is followed once; *)
(* a skipped arc is never counted down, so its pin is not reached.           *)
Later(time, e) ==
    LET at == time[arcs[e].from] + arcs[e].delay IN IF at > time[arcs[e].to] THEN at ELSE time[arcs[e].to]
Earlier(time, e) ==
    LET by == time[arcs[e].to] - arcs[e].delay IN IF by < time[arcs[e].from] THEN by ELSE time[arcs[e].from]

RECURSIVE Propagate(_, _)
Propagate(st, forward) ==
    IF st.queue = <<>> THEN st
    ELSE LET u == Head(st.queue)
             Follow(s, e) ==
                LET v == IF forward THEN arcs[e].to ELSE arcs[e].from IN
                IF arcs[e].skip THEN s
                ELSE [s EXCEPT !.time[v] = IF forward THEN Later(s.time, e) ELSE Earlier(s.time, e),
                               !.left[v] = @ - 1,
                               !.queue = IF s.left[v] = 1 THEN Append(@, v) ELSE @]
             along == SetToSortSeq(IF forward THEN FanOut(u) ELSE FanIn(u), <)
         IN Propagate(FoldLeft(Follow, [st EXCEPT !.queue = Tail(@), !.done = @ \cup {u}], along),
                      forward)

Started(left, time) ==
    [queue |-> SetToSortSeq({n \in Pins : left[n] = 0}, <), left |-> left, time |-> time, done |-> {}]

(* sta_compute_arrival: what an earlier analysis left is the starting value *)
(* of every pin but the inputs.                                             *)
ComputeArrival ==
    LET left == [n \in Pins |-> Cardinality(FanIn(n))]
    IN Propagate(Started(left, [n \in Pins |-> IF left[n] = 0 THEN 0 ELSE arrival[n]]), TRUE)

ComputeRequired ==
    LET left == [n \in Pins |-> Cardinality(FanOut(n))]
    IN Propagate(Started(left, [n \in Pins |-> IF left[n] = 0 THEN Period(domains[n]) ELSE Never]), FALSE)

(* sta_analyze: it gives up when some pin was not reached going forward; the *)
(* arrivals found by then stay.                                              *)
Analyze ==
    /\ domains # <<>> /\ sta = "none"
    /\ LET forward == ComputeArrival
           whole == forward.done = Pins
       IN /\ arrival' = forward.time
          /\ required' = IF whole THEN ComputeRequired.time ELSE required
          /\ sta' = IF whole THEN "ok" ELSE "failed"
    /\ UNCHANGED <<arcs, domains, routeVars>>

Slack(n) == required[n] - arrival[n]
WorstSlack == Min({Slack(n) : n \in Pins})
Violations == Cardinality({n \in Pins : Slack(n) < 0})
CriticalDelay == Max({arrival[n] : n \in Pins})

(* sta_critical_path: back from the latest pin, each time to the source that *)
(* arrives last, while that is later than the start.                         *)
RECURSIVE TraceBack(_)
TraceBack(n) ==
    LET froms == {arcs[e].from : e \in FanIn(n)}
        latest == {u \in froms : \A w \in froms : arrival[w] <= arrival[u]}
    IN IF latest = {} \/ arrival[Min(latest)] = 0 THEN <<n>>
       ELSE Append(TraceBack(Min(latest)), n)

CriticalPath == TraceBack(Min({n \in Pins : arrival[n] = CriticalDelay}))

(* A finished analysis is exact: arrivals are longest paths, required times  *)
(* the tightest, the worst slack of all pins is the worst at an output, and  *)
(* the critical path climbs strictly.                                        *)
TimingExact ==
    sta = "ok" =>
        /\ \A n \in Pins :
              /\ arrival[n] = Max({0} \cup {arrival[arcs[e].from] + arcs[e].delay : e \in FanIn(n)})
              /\ required[n] = Min({required[arcs[e].to] - arcs[e].delay : e \in FanOut(n)}
                                   \cup (IF FanOut(n) = {} THEN {Period(domains[n])} ELSE {}))
        /\ WorstSlack = Min({Period(domains[n]) - arrival[n] : n \in {m \in Pins : FanOut(m) = {}}})
        /\ Violations = 0 <=> \A n \in Pins : FanOut(n) = {} => arrival[n] <= Period(domains[n])
        /\ \A i \in 1..Len(CriticalPath)-1 : arrival[CriticalPath[i]] < arrival[CriticalPath[i+1]]

-----------------------------------------------------------------------------
RoutingInit ==
    /\ wires = 0 /\ outs = <<>> /\ ins = <<>> /\ occupancy = <<>>
    /\ trails = <<>> /\ rounds = -1
    /\ search = [router |-> "none", from |-> 0, to |-> 0, path |-> <<>>, cost |-> 0]
    /\ arcs = <<>> /\ domains = <<>> /\ arrival = <<>> /\ required = <<>> /\ sta = "none"

(* Edges and arcs are put in by increasing ends: their order is only a matter *)
(* of which of several equal answers a search finds first.                    *)
RouteNext ==
    \/ AddNode
    \/ \E a, b \in Nodes :
         /\ wires = MaxWires /\ a # b
         /\ \A c, d \in Nodes : d \in Range(outs[c]) => c < a \/ (c = a /\ d < b)
         /\ AddEdge(a, b)
    \/ \E a, b \in Nodes : a # b /\ AddNet(a, b)
    \/ \E r \in {"maze", "backup", "hops", "delay"}, a, b \in Nodes : Search(r, a, b)
    \/ Negotiate

TimingNext ==
    \/ \E d \in 2..Len(Periods) + 1 : AddPin(d)
    \/ \E a, b \in Pins, d \in Delays, skip \in BOOLEAN :
         /\ skip => d = Min(Delays)
         /\ arcs # <<>> => a > Last(arcs).from \/ (a = Last(arcs).from /\ b >= Last(arcs).to)
         /\ AddArc(a, b, d, skip)
    \/ Analyze

=============================================================================
