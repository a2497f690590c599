------------------------------ MODULE NocGraphs ------------------------------
(***************************************************************************)
(* The network graphs of mini-noc-design: the topologies that can be built *)
(* (noc_topology.c), the distances and paths computed on them, and the     *)
(* checks of noc_deadlock.c on dependency and wait-for graphs.             *)
(*                                                                         *)
(* A node keeps one link per direction, -1 for none; the edges are kept    *)
(* apart.  The two do not agree: a mesh has its edges both ways and its    *)
(* links only east and south, a torus has edges one way around and links   *)
(* both, the root of a tree has one link down.  Distances are computed on  *)
(* the edges, paths on the links.  Parallel edges count once here.         *)
(***************************************************************************)
EXTENDS Integers, Sequences, FiniteSets
LOCAL INSTANCE SequencesExt
LOCAL INSTANCE FiniteSetsExt
LOCAL INSTANCE Functions

CONSTANTS
  Shapes,       \* the topologies built: records [type, k, n]
  MaxHops,      \* NOC_PATH_MAX_HOPS
  Channels,     \* the channels of the graphs that are checked: 0 .. n - 1
  VcIds         \* the vc_id a channel of a router may have

VARIABLES
  topo,         \* the topology at work: type, k, size, links, edges
  task,         \* "pairs", "dijkstra", "xy", "sort", "wait" or "done"
  round,        \* the loop counter of the task
  dist,         \* all_pairs_shortest: the matrix; dijkstra: from the source
  prev, visited,
  ends,         \* <<source, destination>>
  path,         \* the path found
  graph,        \* the graph checked, as a set of pairs
  verdict       \* what the check answered

graphVars == <<topo, task, round, dist, prev, visited, ends, path, graph, verdict>>

Directions == {"LOCAL", "EAST", "WEST", "SOUTH", "NORTH", "UP", "DOWN"}
Far == 999999                             \* the code's infinity
NoLinks == [d \in Directions |-> -1]
NodesOf(t) == 0 .. t.size - 1
X(v, k) == v % k
Y(v, k) == v \div k
-----------------------------------------------------------------------------
(* The builders. *)
Both(pairs) == pairs \cup {<<p[2], p[1]>> : p \in pairs}

Mesh(k) ==
  LET right(v) == IF X(v, k) < k - 1 THEN v + 1 ELSE -1
      below(v) == IF Y(v, k) < k - 1 THEN v + k ELSE -1
      all == 0 .. k * k - 1
  IN [type |-> "MESH", k |-> k, size |-> k * k,
      links |-> [v \in all |-> [NoLinks EXCEPT !.LOCAL = v, !.EAST = right(v), !.SOUTH = below(v)]],
      edges |-> Both({<<v, right(v)>> : v \in {u \in all : right(u) >= 0}}
                     \cup {<<v, below(v)>> : v \in {u \in all : below(u) >= 0}})]

Torus(k) ==
  LET at(x, y) == (y % k) * k + (x % k)
      all == 0 .. k * k - 1
      turn(v, dx, dy) == at(X(v, k) + dx + k, Y(v, k) + dy + k)
  IN [type |-> "TORUS", k |-> k, size |-> k * k,
      links |-> [v \in all |-> [NoLinks EXCEPT
                   !.LOCAL = v, !.EAST = turn(v, 1, 0), !.WEST = turn(v, -1, 0),
                   !.SOUTH = turn(v, 0, 1), !.NORTH = turn(v, 0, -1)]],
      edges |-> {<<v, turn(v, 1, 0)>> : v \in all} \cup {<<v, turn(v, 0, 1)>> : v \in all}
                \cup {<<v, turn(v, -1, 0)>> : v \in {u \in all : X(u, k) = 0}}
                \cup {<<v, turn(v, 0, -1)>> : v \in {u \in all : Y(u, k) = 0}}]

Ring(n) ==
  LET all == 0 .. n - 1
  IN [type |-> "RING", k |-> n, size |-> n,
      links |-> [v \in all |-> [NoLinks EXCEPT !.LOCAL = v, !.EAST = (v + 1) % n,
                                              !.WEST = ((v - 1) + n) % n]],
      edges |-> Both({<<v, (v + 1) % n>> : v \in all})]

(* Level l begins after the k^0 + ... + k^(l-1) nodes above it; node i of  *)
(* a level hangs from node i % (width above), and only the last child of a *)
(* parent stays in its DOWN link.                                          *)
LevelStart(k, l) == SumSet({k^j : j \in 0 .. l - 1})
LevelOf(k, v) == CHOOSE l \in 0 .. v : LevelStart(k, l) <= v /\ v < LevelStart(k, l + 1)
Parent(k, v) ==
  LET l == LevelOf(k, v) IN LevelStart(k, l - 1) + ((v - LevelStart(k, l)) % k^(l - 1))

Tree(k, levels) ==
  LET all == 0 .. LevelStart(k, levels) - 1
      kids(v) == {c \in all \ {0} : Parent(k, c) = v}
  IN [type |-> "TREE", k |-> k, size |-> LevelStart(k, levels),
      links |-> [v \in all |-> [NoLinks EXCEPT !.LOCAL = v, !.UP = IF v = 0 THEN -1 ELSE Parent(k, v),
                                              !.DOWN = IF kids(v) = {} THEN -1 ELSE Max(kids(v))]],
      edges |-> Both({<<v, Parent(k, v)>> : v \in all \ {0}})]

(* i ^ (1 << s), by what it does to bit s; beyond the width of the stage   *)
(* when k has no such bit.                                                 *)
FlipBit(i, s) == IF (i \div 2^s) % 2 = 0 THEN i + 2^s ELSE i - 2^s

Butterfly(k, stages) ==
  LET all == 0 .. k * (stages + 1) - 1
      stage(v) == v \div k
      straight(v) == v + k
      cross(v) == (stage(v) + 1) * k + FlipBit(v % k, stage(v))
      inner == {v \in all : stage(v) < stages}
  IN [type |-> "BUTTERFLY", k |-> k, size |-> k * (stages + 1),
      links |-> [v \in all |-> [NoLinks EXCEPT !.LOCAL = v,
                   !.EAST = IF v \in inner THEN straight(v) ELSE -1,
                   !.SOUTH = IF v \in inner THEN cross(v) ELSE -1]],
      edges |-> Both({<<v, straight(v)>> : v \in inner} \cup {<<v, cross(v)>> : v \in inner})]

Build(s) ==
  CASE s.type = "MESH" -> Mesh(s.k)
    [] s.type = "TORUS" -> Torus(s.k)
    [] s.type = "RING" -> Ring(s.k)
    [] s.type = "TREE" -> Tree(s.k, s.n)
    [] s.type = "BUTTERFLY" -> Butterfly(s.k, s.n)

(* noc_topo_validate: no edge leaves the graph. *)
Valid(t) == \A e \in t.edges : e[1] \in NodesOf(t) /\ e[2] \in NodesOf(t)

AreNeighbours(t, a, b) ==
  a \in NodesOf(t) /\ b \in NodesOf(t) /\ \E d \in Directions : t.links[a][d] = b

Gap(a, b) == IF a < b THEN b - a ELSE a - b
ManhattanDist(t, a, b) ==
  LET dx == Gap(X(a, t.k), X(b, t.k))
      dy == Gap(Y(a, t.k), Y(b, t.k))
      wrap(g) == IF t.type = "TORUS" /\ t.k - g < g THEN t.k - g ELSE g
  IN wrap(dx) + wrap(dy)
-----------------------------------------------------------------------------
(* noc_topo_all_pairs_shortest: one round of Floyd and Warshall per        *)
(* intermediate node; the rows and columns of a round change in place, but *)
(* never those of the node itself.  The last round marks what is out of    *)
(* reach.                                                                  *)
FirstDistances(t) ==
  [i \in NodesOf(t) |-> [j \in NodesOf(t) |->
     IF i = j THEN 0 ELSE IF <<i, j>> \in t.edges THEN 1 ELSE Far]]

RelaxedNoReturn(t, d, k) ==   \* faulty: only from the lower to the higher node
  [i \in NodesOf(t) |-> [j \in NodesOf(t) |->
     IF i < j /\ d[i][k] < Far /\ d[k][j] < Far /\ d[i][k] + d[k][j] < d[i][j]
     THEN d[i][k] + d[k][j] ELSE d[i][j]]]

Relaxed(t, d, k) ==
  [i \in NodesOf(t) |-> [j \in NodesOf(t) |->
     IF d[i][k] < Far /\ d[k][j] < Far /\ d[i][k] + d[k][j] < d[i][j]
     THEN d[i][k] + d[k][j] ELSE d[i][j]]]

AllPairs ==
  /\ task = "pairs"
  /\ IF round < topo.size
     THEN dist' = Relaxed(topo, dist, round) /\ UNCHANGED task
     ELSE /\ dist' = [i \in NodesOf(topo) |-> [j \in NodesOf(topo) |->
                        IF dist[i][j] >= Far THEN -1 ELSE dist[i][j]]]
          /\ task' = "done"
  /\ round' = round + 1
  /\ verdict' = "pairs"
  /\ UNCHANGED <<topo, prev, visited, ends, path, graph>>

CrossingPairs(t) ==
  Cardinality({e \in t.edges : (e[1] < t.size \div 2) # (e[2] < t.size \div 2)}) \div 2

(* noc_topo_diameter, noc_topo_bisection_width: what is read off.          *)
Diameter(t, d) == Max({0} \cup {d[p[1]][p[2]] : p \in NodesOf(t) \X NodesOf(t)})

BisectionWidth(t) ==
  CASE t.type = "MESH" -> t.k
    [] t.type = "TORUS" -> 2 * t.k
    [] t.type = "RING" -> 2
    [] OTHER -> CrossingPairs(t)
-----------------------------------------------------------------------------
(* noc_topo_find_path_dijkstra: each round settles the nearest node that   *)
(* is not yet settled, the lowest of them; then the predecessors give the  *)
(* path, whose ports are read off the coordinates.                         *)
NoPath == [valid |-> FALSE, hops |-> <<>>]

PortTo(t, a, b) ==
  LET d == <<X(b, t.k) - X(a, t.k), Y(b, t.k) - Y(a, t.k)>>
  IN CASE d = <<1, 0>> -> "EAST" [] d = <<-1, 0>> -> "WEST"
       [] d = <<0, 1>> -> "SOUTH" [] d = <<0, -1>> -> "NORTH" [] OTHER -> "LOCAL"

HopList(t, nodes) == [i \in 1 .. Len(nodes) - 1 |->
                        [node |-> nodes[i], port |-> PortTo(t, nodes[i], nodes[i + 1])]]

Back(pre, src, dst) ==        \* the nodes from dst back to src, at most MaxHops of them
  LET more(nodes) == IF pre[Last(nodes)] \in {src, -1} THEN nodes ELSE Append(nodes, pre[Last(nodes)])
  IN FoldLeft(LAMBDA nodes, n : more(nodes), <<dst>>, [n \in 1 .. MaxHops - 1 |-> n])

Rebuilt(t, pre, src, dst) ==
  IF pre[dst] < 0 THEN NoPath
  ELSE [valid |-> TRUE, hops |-> HopList(t, <<src>> \o Reverse(Back(pre, src, dst)))]

Open == {v \in NodesOf(topo) : v \notin visited /\ dist[v] < Far}
Nearest == CHOOSE v \in Open :
             \A w \in Open : dist[v] < dist[w] \/ (dist[v] = dist[w] /\ v <= w)

Settle ==
  /\ task = "dijkstra" /\ round < topo.size /\ Open # {} /\ Nearest # ends[2]
  /\ LET u == Nearest
         better == {v \in NodesOf(topo) \ (visited \cup {u}) :
                      AreNeighbours(topo, u, v) /\ dist[u] + 1 < dist[v]}
     IN /\ dist' = [v \in NodesOf(topo) |-> IF v \in better THEN dist[u] + 1 ELSE dist[v]]
        /\ prev' = [v \in NodesOf(topo) |-> IF v \in better THEN u ELSE prev[v]]
        /\ visited' = visited \cup {u}
  /\ round' = round + 1
  /\ UNCHANGED <<topo, task, ends, path, graph, verdict>>

Found ==
  /\ task = "dijkstra"
  /\ IF round = topo.size \/ Open = {} THEN TRUE ELSE Nearest = ends[2]
  /\ path' = Rebuilt(topo, prev, ends[1], ends[2])
  /\ task' = "done" /\ verdict' = "dijkstra"
  /\ UNCHANGED <<topo, round, dist, prev, visited, ends, graph>>

(* noc_topo_find_path_xy: one hop per step; a missing link ends the path.  *)
XyPort(t, cur, dst) ==
  CASE X(cur, t.k) < X(dst, t.k) -> "EAST" [] X(cur, t.k) > X(dst, t.k) -> "WEST"
    [] Y(cur, t.k) < Y(dst, t.k) -> "SOUTH" [] Y(cur, t.k) > Y(dst, t.k) -> "NORTH"
    [] OTHER -> "LOCAL"

XyHop ==
  /\ task = "xy" /\ prev # ends[2] /\ Len(path.hops) < MaxHops
  /\ topo.links[prev][XyPort(topo, prev, ends[2])] >= 0
  /\ path' = [path EXCEPT !.hops = Append(@, [node |-> prev, port |-> XyPort(topo, prev, ends[2])])]
  /\ prev' = topo.links[prev][XyPort(topo, prev, ends[2])]
  /\ UNCHANGED <<topo, task, round, dist, visited, ends, graph, verdict>>

XyEnd ==
  /\ task = "xy"
  /\ \/ prev = ends[2] \/ Len(path.hops) >= MaxHops
     \/ topo.links[prev][XyPort(topo, prev, ends[2])] < 0
  /\ path' = [path EXCEPT !.valid = (prev = ends[2])]
  /\ task' = "done" /\ verdict' = "xy"
  /\ UNCHANGED <<topo, round, dist, prev, visited, ends, graph>>

(* noc_path_livelock_free: a path may only come back to a node by a hop    *)
(* that does not lead away from the destination.                           *)
LivelockFree(t, p, dst) ==
  p.valid /\ \A i \in 1 .. Len(p.hops) :
    /\ p.hops[i].node \in NodesOf(t)
    /\ (\E j \in 1 .. i - 1 : p.hops[j].node = p.hops[i].node)
         => ManhattanDist(t, p.hops[i].node, dst) <= ManhattanDist(t, p.hops[i - 1].node, dst)
-----------------------------------------------------------------------------
(* noc_cdg_topological_sort: Kahn's algorithm with its queue, which is the *)
(* sorted list itself.                                                     *)
InDegree(g, v) == Cardinality({u \in Channels : <<u, v>> \in g})

(* The neighbours whose last incoming edge comes from the first n of seq.  *)
Freed(g, seq, n) ==
  LET taken == {seq[i] : i \in 1 .. n - 1}
  IN {v \in Channels : /\ <<seq[n], v>> \in g
                       /\ {u \in Channels : <<u, v>> \in g} \subseteq taken \cup {seq[n]}}

InOrder(S) == SetToSortSeq(S, LAMBDA a, b : a < b)

Sorted(g) ==
  LET dequeue(seq, n) == IF n > Len(seq) THEN seq ELSE seq \o InOrder(Freed(g, seq, n))
  IN FoldLeft(dequeue, InOrder({v \in Channels : InDegree(g, v) = 0}),
              [n \in 1 .. Cardinality(Channels) |-> n])

TopologicalSort ==
  /\ task = "sort"
  /\ path' = Sorted(graph)
  /\ verdict' = IF Len(Sorted(graph)) = Cardinality(Channels) THEN "numbered" ELSE "cyclic"
  /\ task' = "done"
  /\ UNCHANGED <<topo, round, dist, prev, visited, ends, graph>>

(* noc_wfg_build: channel i waits for every channel whose vc_id is the     *)
(* output_vc it was given.  vcs[i]: waiting, wants (-1 for none), id.      *)
WaitGraph(vcs) ==
  {e \in Channels \X Channels : e[1] # e[2] /\ vcs[e[1]].waiting /\ vcs[e[1]].wants = vcs[e[2]].id}

(* wfg_dfs: path is the chain of grey nodes, prev the number of the next   *)
(* neighbour each of them looks at, visited the black ones.                *)
Dfs ==
  /\ task = "wait" /\ verdict = "none"
  /\ IF path = <<>>
     THEN /\ Channels \ visited # {}
          /\ path' = <<Min(Channels \ visited)>>
          /\ prev' = [prev EXCEPT ![Min(Channels \ visited)] = 0]
          /\ UNCHANGED <<visited, verdict, task>>
     ELSE LET u == Last(path)
              v == prev[u]
          IN IF v \notin Channels
             THEN /\ visited' = visited \cup {u}
                  /\ path' = Front(path)
                  /\ UNCHANGED <<prev, verdict, task>>
             ELSE IF <<u, v>> \notin graph \/ v \in visited
             THEN prev' = [prev EXCEPT ![u] = v + 1] /\ UNCHANGED <<path, visited, verdict, task>>
             ELSE IF v \in Range(path)
             THEN /\ verdict' = "cycle" /\ task' = "done"
                  /\ path' = SubSeq(path, CHOOSE i \in 1 .. Len(path) : path[i] = v, Len(path))
                  /\ UNCHANGED <<prev, visited>>
             ELSE /\ path' = Append(path, v)
                  /\ prev' = [prev EXCEPT ![u] = v + 1, ![v] = 0]
                  /\ UNCHANGED <<visited, verdict, task>>
  /\ UNCHANGED <<topo, round, dist, ends, graph>>

DfsEnd ==
  /\ task = "wait" /\ path = <<>> /\ visited = Channels
  /\ verdict' = "no cycle" /\ task' = "done"
  /\ UNCHANGED <<topo, round, dist, prev, visited, ends, path, graph>>
-----------------------------------------------------------------------------
Blank ==
  /\ topo = Mesh(2) /\ task = "done" /\ round = 0 /\ dist = <<>> /\ prev = <<>>
  /\ visited = {} /\ ends = <<0, 0>> /\ path = <<>> /\ graph = {} /\ verdict = "none"

InitPairs ==
  /\ topo \in {Build(s) : s \in Shapes} /\ task = "pairs" /\ dist = FirstDistances(topo)
  /\ round = 0 /\ prev = <<>> /\ visited = {} /\ ends = <<0, 0>> /\ path = <<>>
  /\ graph = {} /\ verdict = "none"

InitPath ==
  /\ topo \in {Build(s) : s \in Shapes}
  /\ ends \in {e \in NodesOf(topo) \X NodesOf(topo) : e[1] # e[2]}
  /\ \/ /\ task = "dijkstra" /\ path = NoPath
        /\ dist = [v \in NodesOf(topo) |-> IF v = ends[1] THEN 0 ELSE Far]
        /\ prev = [v \in NodesOf(topo) |-> -1]
     \/ task = "xy" /\ topo.type = "MESH" /\ path = NoPath /\ dist = <<>> /\ prev = ends[1]
  /\ round = 0 /\ visited = {} /\ graph = {} /\ verdict = "none"

InitCheck ==
  /\ topo = Mesh(2) /\ round = 0 /\ dist = <<>> /\ ends = <<0, 0>> /\ path = <<>> /\ visited = {}
  /\ verdict = "none"
  /\ \/ task = "sort" /\ graph \in SUBSET {e \in Channels \X Channels : e[1] # e[2]} /\ prev = <<>>
     \/ /\ task = "wait" /\ prev = [v \in Channels |-> 0]
        /\ \E vcs \in [Channels -> [waiting : BOOLEAN, wants : VcIds \cup {-1}, id : VcIds]] :
             graph = WaitGraph(vcs)

GraphStep == AllPairs \/ Settle \/ Found \/ XyHop \/ XyEnd \/ TopologicalSort \/ Dfs \/ DfsEnd
-----------------------------------------------------------------------------
(* Reference: the nodes that n steps of a relation lead to. *)
Layer(rel, S) == S \cup {e[2] : e \in {p \in rel : p[1] \in S}}
Ball(rel, src, n) == FoldLeft(LAMBDA S, i : Layer(rel, S), {src}, [i \in 1 .. n |-> i])
Steps(rel, all, u, v) ==
  LET within == {n \in 0 .. Cardinality(all) : v \in Ball(rel, u, n)}
  IN IF within = {} THEN -1 ELSE Min(within)

LinkRel(t) == {p \in NodesOf(t) \X NodesOf(t) : p[1] # p[2] /\ AreNeighbours(t, p[1], p[2])}

(* The matrix holds, for every pair of nodes of every topology, the least  *)
(* number of edges from one to the other, and -1 where there is no way.    *)
(* The diameter read off it is the textbook one, the width given for a     *)
(* mesh is what the general count finds, and validation refuses just the   *)
(* butterflies whose last stages have no node to cross to.                 *)
DistancesExact ==
  task = "done" /\ verdict = "pairs" =>
    /\ \A u, v \in NodesOf(topo) : dist[u][v] = Steps(topo.edges, NodesOf(topo), u, v)
    /\ Diameter(topo, dist) =
         CASE topo.type = "MESH" -> 2 * (topo.k - 1)
           [] topo.type = "RING" -> topo.k \div 2
           [] OTHER -> Diameter(topo, dist)
    /\ topo.type = "MESH" /\ topo.k % 2 = 0 => BisectionWidth(topo) = CrossingPairs(topo)
    /\ Valid(topo) <=> ~(topo.type = "BUTTERFLY" /\ 2^(topo.size \div topo.k - 1) > topo.k)

(* A path given out as valid can be followed: it starts at the source,     *)
(* every hop is a link, the last one ends at the destination, it is as     *)
(* short as the links allow and passes the livelock check; on a mesh its   *)
(* ports are the links taken.  Dijkstra gives up only where there is no    *)
(* way at all.                                                             *)
PathsReal ==
  task = "done" /\ verdict \in {"dijkstra", "xy"} =>
    LET least == Steps(LinkRel(topo), NodesOf(topo), ends[1], ends[2])
        next(i) == IF i = Len(path.hops) THEN ends[2] ELSE path.hops[i + 1].node
    IN /\ path.valid => /\ path.hops[1].node = ends[1] /\ Len(path.hops) = least
                        /\ \A i \in 1 .. Len(path.hops) :
                             /\ AreNeighbours(topo, path.hops[i].node, next(i))
                             /\ topo.type = "MESH" =>
                                  topo.links[path.hops[i].node][path.hops[i].port] = next(i)
                        /\ LivelockFree(topo, path, ends[2])
       /\ ~path.valid /\ verdict = "dijkstra" => least = -1

Reaches(g, u, v) ==
  \E w \in Channels : <<u, w>> \in g /\ v \in Ball(g, w, Cardinality(Channels))

(* The two cycle checks are exact: a numbering is found just when no       *)
(* channel depends on itself through others, and then it goes up along     *)
(* every dependency; a wait-for cycle is reported just when there is one,  *)
(* and the channels reported do wait for each other in that order.         *)
CyclesFound ==
  /\ verdict = "numbered" =>
       \A e \in graph : \E i, j \in 1 .. Len(path) : path[i] = e[1] /\ path[j] = e[2] /\ i < j
  /\ verdict \in {"numbered", "no cycle"} => \A v \in Channels : ~Reaches(graph, v, v)
  /\ verdict = "cyclic" => \E v \in Channels : Reaches(graph, v, v)
  /\ verdict = "cycle" =>
       \A i \in 1 .. Len(path) : <<path[i], path[(i % Len(path)) + 1]>> \in graph
=============================================================================
