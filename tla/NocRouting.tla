------------------------------ MODULE NocRouting ------------------------------
(***************************************************************************)
(* The routing algorithms of mini-noc-design (noc_routing.c) on a square   *)
(* mesh, a packet that travels by them, and the channel dependency graph   *)
(* that is built to show that they cannot deadlock.                        *)
(*                                                                         *)
(* All the deterministic algorithms are priority lists: the first          *)
(* direction on the list that brings the packet nearer.  (The exceptions   *)
(* in noc_route_odd_even ask for a column the tests before them rule out,  *)
(* and its list is the same in even and odd columns but for EAST, which is *)
(* never needed together with WEST.)                                       *)
(***************************************************************************)
EXTENDS Integers, FiniteSets

CONSTANTS
  MeshSize,     \* mesh_size
  Algos,        \* the algorithms in use
  Loads,        \* congestion values a router may report, all below INT32_MAX
  TableSize     \* channels the dependency matrix has room for (256)

Algorithms == {"XY", "YX", "WEST_FIRST", "NORTH_LAST", "NEGATIVE_FIRST",
               "ODD_EVEN", "ADAPTIVE", "RANDOMIZED"}

ASSUME RoutingAssumption ==
  /\ MeshSize \in Nat \ {0} /\ Algos \subseteq Algorithms
  /\ Loads \subseteq Int /\ TableSize \in Nat

Coords == 0 .. MeshSize - 1
Nodes == Coords \X Coords                 \* <<x, y>>; south is y + 1
Directions == {"EAST", "WEST", "SOUTH", "NORTH"}

VARIABLES algo, src, dst,                 \* the packet's route
          at, last, hops                  \* where it is, how it came there

vars == <<algo, src, dst, at, last, hops>>
-----------------------------------------------------------------------------
(* The directions that reduce the distance (need_east ... need_north).     *)
NeedsAlways(c, d) ==          \* faulty: goes on past the destination's column
  {dir \in Directions : CASE dir = "EAST" -> c[1] <= d[1] [] dir = "WEST" -> c[1] > d[1]
                          [] dir = "SOUTH" -> c[2] < d[2] [] dir = "NORTH" -> c[2] > d[2]}

NeedsBoth(c, d) ==            \* faulty: stops as soon as one coordinate agrees
  IF c[1] = d[1] \/ c[2] = d[2] THEN {}
  ELSE {IF c[1] < d[1] THEN "EAST" ELSE "WEST", IF c[2] < d[2] THEN "SOUTH" ELSE "NORTH"}

Needs(c, d) ==
  {dir \in Directions : CASE dir = "EAST" -> c[1] < d[1] [] dir = "WEST" -> c[1] > d[1]
                          [] dir = "SOUTH" -> c[2] < d[2] [] dir = "NORTH" -> c[2] > d[2]}

(* The place of a direction on an algorithm's list. *)
RankXFirst(a, dir) ==         \* faulty: every algorithm goes along its row first
  CASE dir = "EAST" -> 1 [] dir = "WEST" -> 2 [] dir = "SOUTH" -> 3 [] dir = "NORTH" -> 4

Rank(a, dir) ==
  CASE a = "YX" ->
         (CASE dir = "SOUTH" -> 1 [] dir = "NORTH" -> 2 [] dir = "EAST" -> 3 [] dir = "WEST" -> 4)
    [] a = "WEST_FIRST" ->
         (CASE dir = "WEST" -> 1 [] dir = "EAST" -> 2 [] dir = "SOUTH" -> 3 [] dir = "NORTH" -> 4)
    [] a = "NEGATIVE_FIRST" ->
         (CASE dir = "WEST" -> 1 [] dir = "NORTH" -> 2 [] dir = "EAST" -> 3 [] dir = "SOUTH" -> 4)
    [] OTHER ->
         (CASE dir = "EAST" -> 1 [] dir = "WEST" -> 2 [] dir = "SOUTH" -> 3 [] dir = "NORTH" -> 4)

First(a, needed) == {dir \in needed : \A e \in needed : Rank(a, dir) <= Rank(a, e)}

(* noc_route_adaptive with the loads the router sees: the less loaded of   *)
(* the needed directions, the horizontal one on a tie.                     *)
LessLoaded(load, needed) ==
  {dir \in needed : \A e \in needed :
      \/ load[dir] < load[e]
      \/ load[dir] = load[e] /\ Rank("XY", dir) <= Rank("XY", e)}

(* The directions a router may send a packet in: adaptive routing depends  *)
(* on the loads of the moment, randomised routing on one random bit.       *)
Options(a, c, d) ==
  CASE a = "ADAPTIVE" -> UNION {LessLoaded(load, Needs(c, d)) : load \in [Directions -> Loads]}
    [] a = "RANDOMIZED" -> Needs(c, d)
    [] OTHER -> First(a, Needs(c, d))

Neighbour(c, dir) ==
  CASE dir = "EAST" -> <<c[1] + 1, c[2]>> [] dir = "WEST" -> <<c[1] - 1, c[2]>>
    [] dir = "SOUTH" -> <<c[1], c[2] + 1>> [] dir = "NORTH" -> <<c[1], c[2] - 1>>
-----------------------------------------------------------------------------
(* noc_cdg_build.  noc_routing_dispatch gives adaptive routing no loads    *)
(* and the randomised one the seed 42, whose bit says "X first": both      *)
(* become XY.  The tables hold the pairs of channels a packet can take one *)
(* after the other; since no route looks at its source, every node where   *)
(* a packet can be is the source of one that goes the same way.            *)
Dispatch(a, c, d) == First(IF a \in {"ADAPTIVE", "RANDOMIZED"} THEN "XY" ELSE a, Needs(c, d))

ChannelNumber(c, dir) ==
  (c[2] * MeshSize + c[1]) * 4
    + (CASE dir = "EAST" -> 0 [] dir = "WEST" -> 1 [] dir = "SOUTH" -> 2 [] dir = "NORTH" -> 3)

(* Does using the channel turn of dir's far end depend on channel dir of c? *)
Depends(a, c, dir, turn) ==
  /\ ChannelNumber(c, dir) < TableSize /\ ChannelNumber(Neighbour(c, dir), turn) < TableSize
  /\ \E d \in Nodes : dir \in Dispatch(a, c, d) /\ turn \in Dispatch(a, Neighbour(c, dir), d)

(* The turns that noc_turn_prohibited reports, as <<from, to>> headings.   *)
Reversals == {<<"EAST", "WEST">>, <<"WEST", "EAST">>, <<"NORTH", "SOUTH">>, <<"SOUTH", "NORTH">>}
Prohibited(a) ==
  Reversals \cup
  CASE a = "WEST_FIRST" -> {<<"SOUTH", "WEST">>, <<"NORTH", "WEST">>}
    [] a = "NORTH_LAST" -> {<<"NORTH", "EAST">>, <<"NORTH", "WEST">>}
    [] a = "NEGATIVE_FIRST" -> {<<"EAST", "NORTH">>, <<"SOUTH", "WEST">>}
    [] OTHER -> {}
-----------------------------------------------------------------------------
Init ==
  /\ algo \in Algos /\ src \in Nodes /\ dst \in Nodes
  /\ at = src /\ last = "LOCAL" /\ hops = 0

(* One router: LOCAL once the packet is there, otherwise on to a neighbour. *)
Hop ==
  \E dir \in Options(algo, at, dst) :
    /\ at' = Neighbour(at, dir)
    /\ last' = dir
    /\ hops' = hops + 1
    /\ UNCHANGED <<algo, src, dst>>

Spec == Init /\ [][Hop]_vars /\ WF_vars(Hop)
-----------------------------------------------------------------------------
TypeOK ==
  /\ algo \in Algos /\ src \in Nodes /\ dst \in Nodes
  /\ at \in Nodes                \* so no route leaves the mesh
  /\ last \in Directions \cup {"LOCAL"} /\ hops \in Nat

Gap(a, b) == IF a < b THEN b - a ELSE a - b
Distance(c, d) == Gap(c[1], d[1]) + Gap(c[2], d[2])

(* Every algorithm is minimal: whatever the loads and the random bits, the *)
(* hops taken and the distance left always add up to the distance of the   *)
(* whole way (noc_routing.c: "reduce the Manhattan distance").             *)
Minimal == hops + Distance(at, dst) = Distance(src, dst)

(* No route makes a turn its own turn table prohibits. *)
TurnsAllowed ==
  [][\A dir \in Directions : at' = Neighbour(at, dir) => <<last, dir>> \notin Prohibited(algo)]_vars

(* Every packet arrives. *)
Arrives == <>(at = dst)

(* A numbering of the channels, after Dally and Seitz.                     *)
Along(c, dir) ==
  CASE dir = "EAST" -> c[1] [] dir = "WEST" -> MeshSize - c[1]
    [] dir = "SOUTH" -> c[2] [] dir = "NORTH" -> MeshSize - c[2]

Number(a, c, dir) ==
  IF a = "NEGATIVE_FIRST"
  THEN IF dir \in {"WEST", "NORTH"} THEN 0 - c[1] - c[2] ELSE c[1] + c[2]
  ELSE IF dir \in (IF a = "YX" THEN {"EAST", "WEST"} ELSE {"SOUTH", "NORTH"})
       THEN 2 * MeshSize + Along(c, dir) ELSE Along(c, dir)

(* The dependency graph of every algorithm has a numbering that goes up    *)
(* along every dependency, so no set of packets can wait for each other in *)
(* a circle (noc_deadlock.h: "If every routing path visits channels in     *)
(* strictly increasing order, the routing algorithm is deadlock-free").    *)
DeadlockFree ==
  \A c \in Nodes, dir, turn \in Directions :
    Depends(algo, c, dir, turn) => Number(algo, c, dir) < Number(algo, Neighbour(c, dir), turn)

(* A packet arrives, inside the mesh and without a turn its algorithm      *)
(* prohibits.                                                              *)
ArrivesInTurn == Arrives /\ TurnsAllowed /\ []TypeOK
=============================================================================
