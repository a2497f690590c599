-------------------------- MODULE NocControl_proofs --------------------------
(***************************************************************************)
(* The control side of mini-noc-design and the links between chips.  For   *)
(* every mesh size: every routing algorithm is minimal and stays in the    *)
(* mesh, and the channel dependency graph of every algorithm has a         *)
(* strictly increasing numbering, so that routing cannot deadlock.  For    *)
(* every number of classes and all weights: the arbiter of NocQos starves  *)
(* nobody and every class has channels of its own.  For every link,        *)
(* physical layer, module of dies and partition: the invariants of DieLink. *)
(***************************************************************************)
EXTENDS NocRouting, NocQos, DieLink, FiniteSetTheorems, SequenceTheorems, WellFoundedInduction, TLAPS

(* A packet is only ever sent in a direction it needs. *)
LEMMA OptionsNeeded ==
  ASSUME NEW a, NEW c, NEW d
  PROVE  Options(a, c, d) \subseteq Needs(c, d)
BY DEF Options, First, LessLoaded

(* Such a hop stays in the mesh and brings the packet one step nearer. *)
LEMMA HopNearer ==
  ASSUME NEW c \in Nodes, NEW d \in Nodes, NEW dir \in Needs(c, d)
  PROVE  /\ Neighbour(c, dir) \in Nodes
         /\ Distance(Neighbour(c, dir), d) = Distance(c, d) - 1
<1> USE RoutingAssumption
<1>1. PICK x, y \in Coords : c = <<x, y>>
  BY DEF Nodes
<1>2. PICK u, v \in Coords : d = <<u, v>>
  BY DEF Nodes
<1>3. dir \in Directions
  BY DEF Needs
<1>4. CASE dir = "EAST"
  <2>1. x < u /\ Neighbour(c, dir) = <<x + 1, y>>
    BY <1>1, <1>2, <1>4 DEF Needs, Neighbour
  <2> QED BY <1>1, <1>2, <2>1 DEF Nodes, Coords, Distance, Gap
<1>5. CASE dir = "WEST"
  <2>1. x > u /\ Neighbour(c, dir) = <<x - 1, y>>
    BY <1>1, <1>2, <1>5 DEF Needs, Neighbour
  <2> QED BY <1>1, <1>2, <2>1 DEF Nodes, Coords, Distance, Gap
<1>6. CASE dir = "SOUTH"
  <2>1. y < v /\ Neighbour(c, dir) = <<x, y + 1>>
    BY <1>1, <1>2, <1>6 DEF Needs, Neighbour
  <2> QED BY <1>1, <1>2, <2>1 DEF Nodes, Coords, Distance, Gap
<1>7. CASE dir = "NORTH"
  <2>1. y > v /\ Neighbour(c, dir) = <<x, y - 1>>
    BY <1>1, <1>2, <1>7 DEF Needs, Neighbour
  <2> QED BY <1>1, <1>2, <2>1 DEF Nodes, Coords, Distance, Gap
<1> QED BY <1>3, <1>4, <1>5, <1>6, <1>7 DEF Directions

(* For every mesh, every algorithm, all loads and random bits: routes stay *)
(* in the mesh and are minimal.                                            *)
THEOREM RoutesMinimal == Spec => [](TypeOK /\ Minimal)
<1> USE RoutingAssumption
<1> DEFINE Inv == TypeOK /\ Minimal
<1>1. Init => Inv
  <2> SUFFICES ASSUME Init PROVE Inv
    OBVIOUS
  <2>1. at = src /\ hops = 0 /\ src \in Nodes /\ dst \in Nodes
    BY DEF Init
  <2>2. Distance(src, dst) \in Nat
    BY <2>1 DEF Nodes, Coords, Distance, Gap
  <2> QED BY <2>1, <2>2 DEF Init, TypeOK, Minimal
<1>2. Inv /\ [Hop]_vars => Inv'
  <2> SUFFICES ASSUME Inv, [Hop]_vars PROVE Inv'
    OBVIOUS
  <2>1. CASE Hop
    <3>1. PICK dir \in Options(algo, at, dst) :
            at' = Neighbour(at, dir) /\ last' = dir /\ hops' = hops + 1
            /\ UNCHANGED <<algo, src, dst>>
      BY <2>1 DEF Hop
    <3>2. dir \in Needs(at, dst) /\ dir \in Directions
      BY <3>1, OptionsNeeded DEF Needs
    <3>3. at' \in Nodes /\ Distance(at', dst) = Distance(at, dst) - 1
      BY <3>1, <3>2, HopNearer DEF TypeOK
    <3>4. Distance(at, dst) \in Nat /\ hops \in Nat
      BY DEF TypeOK, Nodes, Coords, Distance, Gap
    <3> QED BY <3>1, <3>2, <3>3, <3>4 DEF TypeOK, Minimal
  <2>2. CASE UNCHANGED vars
    BY <2>2 DEF vars, TypeOK, Minimal
  <2> QED BY <2>1, <2>2
<1> QED BY <1>1, <1>2, PTL DEF Spec
-----------------------------------------------------------------------------
(* The ranks that decide whether an algorithm turns at all. *)
LEMMA Ranks ==
  ASSUME NEW b \in Algorithms \ {"YX", "NEGATIVE_FIRST"}
  PROVE  /\ Rank("YX", "SOUTH") = 1 /\ Rank("YX", "NORTH") = 2
         /\ Rank("YX", "EAST") = 3 /\ Rank("YX", "WEST") = 4
         /\ Rank("NEGATIVE_FIRST", "WEST") = 1 /\ Rank("NEGATIVE_FIRST", "NORTH") = 2
         /\ Rank("NEGATIVE_FIRST", "EAST") = 3 /\ Rank("NEGATIVE_FIRST", "SOUTH") = 4
         /\ Rank(b, "EAST") \in {1, 2} /\ Rank(b, "WEST") \in {1, 2}
         /\ Rank(b, "SOUTH") = 3 /\ Rank(b, "NORTH") = 4
<1>1. CASE b = "WEST_FIRST"
  BY <1>1 DEF Rank
<1>2. CASE b # "WEST_FIRST"
  BY <1>2 DEF Rank
<1> QED BY <1>1, <1>2 DEF Rank

(* The numbers themselves, for the three kinds of algorithms. *)
LEMMA Numbers ==
  ASSUME NEW p \in Int, NEW q \in Int,
         NEW a \in Algorithms \ {"YX", "NEGATIVE_FIRST"}
  PROVE  /\ Number("NEGATIVE_FIRST", <<p, q>>, "EAST") = p + q
         /\ Number("NEGATIVE_FIRST", <<p, q>>, "SOUTH") = p + q
         /\ Number("NEGATIVE_FIRST", <<p, q>>, "WEST") = 0 - p - q
         /\ Number("NEGATIVE_FIRST", <<p, q>>, "NORTH") = 0 - p - q
         /\ Number("YX", <<p, q>>, "EAST") = 2 * MeshSize + p
         /\ Number("YX", <<p, q>>, "WEST") = 2 * MeshSize + (MeshSize - p)
         /\ Number("YX", <<p, q>>, "SOUTH") = q
         /\ Number("YX", <<p, q>>, "NORTH") = MeshSize - q
         /\ Number(a, <<p, q>>, "EAST") = p
         /\ Number(a, <<p, q>>, "WEST") = MeshSize - p
         /\ Number(a, <<p, q>>, "SOUTH") = 2 * MeshSize + q
         /\ Number(a, <<p, q>>, "NORTH") = 2 * MeshSize + (MeshSize - q)
BY DEF Number, Along

(* One dependency goes up in the numbering of its algorithm. *)
LEMMA NumberGoesUp ==
  ASSUME NEW a \in Algorithms, NEW c \in Nodes, NEW d \in Nodes,
         NEW dir \in Dispatch(a, c, d), NEW turn \in Dispatch(a, Neighbour(c, dir), d)
  PROVE  Number(a, c, dir) < Number(a, Neighbour(c, dir), turn)
<1> USE RoutingAssumption
<1> DEFINE b == IF a \in {"ADAPTIVE", "RANDOMIZED"} THEN "XY" ELSE a
<1>1. PICK x, y \in Coords : c = <<x, y>>
  BY DEF Nodes
<1>2. PICK u, v \in Coords : d = <<u, v>>
  BY DEF Nodes
<1>3. x \in Int /\ y \in Int /\ u \in Int /\ v \in Int /\ 0 <= x /\ x < MeshSize
      /\ 0 <= y /\ y < MeshSize /\ 0 <= u /\ 0 <= v /\ MeshSize \in Int
  BY DEF Coords
<1>4. /\ dir \in Needs(c, d) /\ turn \in Needs(Neighbour(c, dir), d)
      /\ \A e \in Needs(c, d) : Rank(b, dir) <= Rank(b, e)
      /\ \A e \in Needs(Neighbour(c, dir), d) : Rank(b, turn) <= Rank(b, e)
  BY DEF Dispatch, First
<1>b. /\ a = "YX" => b = "YX"
      /\ a = "NEGATIVE_FIRST" => b = "NEGATIVE_FIRST"
      /\ a \notin {"YX", "NEGATIVE_FIRST"} => b \in Algorithms \ {"YX", "NEGATIVE_FIRST"}
  BY DEF Algorithms
<1>x. "XY" \in Algorithms \ {"YX", "NEGATIVE_FIRST"}
  BY DEF Algorithms
<1> HIDE DEF b
<1>5. dir \in Directions /\ turn \in Directions
  BY <1>4 DEF Needs
<1>6. CASE dir = "EAST"
  <2>1. Neighbour(c, dir) = <<x + 1, y>> /\ x < u
    BY <1>1, <1>2, <1>4, <1>6 DEF Neighbour, Needs
  <2>2. CASE turn = "EAST"
    BY <1>1, <1>3, <1>6, <2>1, <2>2 DEF Number, Along
  <2>3. CASE turn = "WEST"
    BY <1>2, <1>3, <1>4, <2>1, <2>3 DEF Needs
  <2>4. CASE turn = "SOUTH"
    <3>0. turn \in Needs(c, d)
      BY <1>1, <1>2, <1>4, <2>1, <2>4 DEF Needs, Directions
    <3>1. Rank(b, dir) <= Rank(b, turn)
      BY <3>0, <1>4
    <3>2. CASE a = "YX"
      BY <1>1, <1>3, <1>6, <2>1, <2>4, <3>1, <3>2, <1>b, Ranks, Numbers, <1>x
    <3>3. CASE a = "NEGATIVE_FIRST"
      BY <1>1, <1>3, <1>6, <2>1, <2>4, <3>1, <3>3, <1>b, Ranks, Numbers, <1>x
    <3>4. CASE a \notin {"YX", "NEGATIVE_FIRST"}
      <4>1. b \in Algorithms \ {"YX", "NEGATIVE_FIRST"}
        BY <3>4, <1>b
      <4> QED BY <1>1, <1>3, <1>6, <2>1, <2>4, <3>1, <3>4, <4>1, Ranks, Numbers
    <3> QED BY <3>2, <3>3, <3>4
  <2>5. CASE turn = "NORTH"
    <3>0. turn \in Needs(c, d)
      BY <1>1, <1>2, <1>4, <2>1, <2>5 DEF Needs, Directions
    <3>1. Rank(b, dir) <= Rank(b, turn)
      BY <3>0, <1>4
    <3>2. CASE a = "YX"
      BY <1>1, <1>3, <1>6, <2>1, <2>5, <3>1, <3>2, <1>b, Ranks, Numbers, <1>x
    <3>3. CASE a = "NEGATIVE_FIRST"
      BY <1>1, <1>3, <1>6, <2>1, <2>5, <3>1, <3>3, <1>b, Ranks, Numbers, <1>x
    <3>4. CASE a \notin {"YX", "NEGATIVE_FIRST"}
      <4>1. b \in Algorithms \ {"YX", "NEGATIVE_FIRST"}
        BY <3>4, <1>b
      <4> QED BY <1>1, <1>3, <1>6, <2>1, <2>5, <3>1, <3>4, <4>1, Ranks, Numbers
    <3> QED BY <3>2, <3>3, <3>4
  <2> QED BY <1>5, <2>2, <2>3, <2>4, <2>5 DEF Directions
<1>7. CASE dir = "WEST"
  <2>1. Neighbour(c, dir) = <<x - 1, y>> /\ x > u
    BY <1>1, <1>2, <1>4, <1>7 DEF Neighbour, Needs
  <2>2. CASE turn = "WEST"
    BY <1>1, <1>3, <1>7, <2>1, <2>2 DEF Number, Along
  <2>3. CASE turn = "EAST"
    BY <1>2, <1>3, <1>4, <2>1, <2>3 DEF Needs
  <2>4. CASE turn = "SOUTH"
    <3>0. turn \in Needs(c, d)
      BY <1>1, <1>2, <1>4, <2>1, <2>4 DEF Needs, Directions
    <3>1. Rank(b, dir) <= Rank(b, turn)
      BY <3>0, <1>4
    <3>2. CASE a = "YX"
      BY <1>1, <1>3, <1>7, <2>1, <2>4, <3>1, <3>2, <1>b, Ranks, Numbers, <1>x
    <3>3. CASE a = "NEGATIVE_FIRST"
      BY <1>1, <1>3, <1>7, <2>1, <2>4, <3>1, <3>3, <1>b, Ranks, Numbers, <1>x
    <3>4. CASE a \notin {"YX", "NEGATIVE_FIRST"}
      <4>1. b \in Algorithms \ {"YX", "NEGATIVE_FIRST"}
        BY <3>4, <1>b
      <4> QED BY <1>1, <1>3, <1>7, <2>1, <2>4, <3>1, <3>4, <4>1, Ranks, Numbers
    <3> QED BY <3>2, <3>3, <3>4
  <2>5. CASE turn = "NORTH"
    <3>0. turn \in Needs(c, d)
      BY <1>1, <1>2, <1>4, <2>1, <2>5 DEF Needs, Directions
    <3>1. Rank(b, dir) <= Rank(b, turn)
      BY <3>0, <1>4
    <3>2. CASE a = "YX"
      BY <1>1, <1>3, <1>7, <2>1, <2>5, <3>1, <3>2, <1>b, Ranks, Numbers, <1>x
    <3>3. CASE a = "NEGATIVE_FIRST"
      BY <1>1, <1>3, <1>7, <2>1, <2>5, <3>1, <3>3, <1>b, Ranks, Numbers, <1>x
    <3>4. CASE a \notin {"YX", "NEGATIVE_FIRST"}
      <4>1. b \in Algorithms \ {"YX", "NEGATIVE_FIRST"}
        BY <3>4, <1>b
      <4> QED BY <1>1, <1>3, <1>7, <2>1, <2>5, <3>1, <3>4, <4>1, Ranks, Numbers
    <3> QED BY <3>2, <3>3, <3>4
  <2> QED BY <1>5, <2>2, <2>3, <2>4, <2>5 DEF Directions
<1>8. CASE dir = "SOUTH"
  <2>1. Neighbour(c, dir) = <<x, y + 1>> /\ y < v
    BY <1>1, <1>2, <1>4, <1>8 DEF Neighbour, Needs
  <2>2. CASE turn = "SOUTH"
    BY <1>1, <1>3, <1>8, <2>1, <2>2 DEF Number, Along
  <2>3. CASE turn = "NORTH"
    BY <1>2, <1>3, <1>4, <2>1, <2>3 DEF Needs
  <2>4. CASE turn = "EAST"
    <3>0. turn \in Needs(c, d)
      BY <1>1, <1>2, <1>4, <2>1, <2>4 DEF Needs, Directions
    <3>1. Rank(b, dir) <= Rank(b, turn)
      BY <3>0, <1>4
    <3>2. CASE a = "YX"
      BY <1>1, <1>3, <1>8, <2>1, <2>4, <3>1, <3>2, <1>b, Ranks, Numbers, <1>x
    <3>3. CASE a = "NEGATIVE_FIRST"
      BY <1>1, <1>3, <1>8, <2>1, <2>4, <3>1, <3>3, <1>b, Ranks, Numbers, <1>x
    <3>4. CASE a \notin {"YX", "NEGATIVE_FIRST"}
      <4>1. b \in Algorithms \ {"YX", "NEGATIVE_FIRST"}
        BY <3>4, <1>b
      <4> QED BY <1>1, <1>3, <1>8, <2>1, <2>4, <3>1, <3>4, <4>1, Ranks, Numbers
    <3> QED BY <3>2, <3>3, <3>4
  <2>5. CASE turn = "WEST"
    <3>0. turn \in Needs(c, d)
      BY <1>1, <1>2, <1>4, <2>1, <2>5 DEF Needs, Directions
    <3>1. Rank(b, dir) <= Rank(b, turn)
      BY <3>0, <1>4
    <3>2. CASE a = "YX"
      BY <1>1, <1>3, <1>8, <2>1, <2>5, <3>1, <3>2, <1>b, Ranks, Numbers, <1>x
    <3>3. CASE a = "NEGATIVE_FIRST"
      BY <1>1, <1>3, <1>8, <2>1, <2>5, <3>1, <3>3, <1>b, Ranks, Numbers, <1>x
    <3>4. CASE a \notin {"YX", "NEGATIVE_FIRST"}
      <4>1. b \in Algorithms \ {"YX", "NEGATIVE_FIRST"}
        BY <3>4, <1>b
      <4> QED BY <1>1, <1>3, <1>8, <2>1, <2>5, <3>1, <3>4, <4>1, Ranks, Numbers
    <3> QED BY <3>2, <3>3, <3>4
  <2> QED BY <1>5, <2>2, <2>3, <2>4, <2>5 DEF Directions
<1>9. CASE dir = "NORTH"
  <2>1. Neighbour(c, dir) = <<x, y - 1>> /\ y > v
    BY <1>1, <1>2, <1>4, <1>9 DEF Neighbour, Needs
  <2>2. CASE turn = "NORTH"
    BY <1>1, <1>3, <1>9, <2>1, <2>2 DEF Number, Along
  <2>3. CASE turn = "SOUTH"
    BY <1>2, <1>3, <1>4, <2>1, <2>3 DEF Needs
  <2>4. CASE turn = "EAST"
    <3>0. turn \in Needs(c, d)
      BY <1>1, <1>2, <1>4, <2>1, <2>4 DEF Needs, Directions
    <3>1. Rank(b, dir) <= Rank(b, turn)
      BY <3>0, <1>4
    <3>2. CASE a = "YX"
      BY <1>1, <1>3, <1>9, <2>1, <2>4, <3>1, <3>2, <1>b, Ranks, Numbers, <1>x
    <3>3. CASE a = "NEGATIVE_FIRST"
      BY <1>1, <1>3, <1>9, <2>1, <2>4, <3>1, <3>3, <1>b, Ranks, Numbers, <1>x
    <3>4. CASE a \notin {"YX", "NEGATIVE_FIRST"}
      <4>1. b \in Algorithms \ {"YX", "NEGATIVE_FIRST"}
        BY <3>4, <1>b
      <4> QED BY <1>1, <1>3, <1>9, <2>1, <2>4, <3>1, <3>4, <4>1, Ranks, Numbers
    <3> QED BY <3>2, <3>3, <3>4
  <2>5. CASE turn = "WEST"
    <3>0. turn \in Needs(c, d)
      BY <1>1, <1>2, <1>4, <2>1, <2>5 DEF Needs, Directions
    <3>1. Rank(b, dir) <= Rank(b, turn)
      BY <3>0, <1>4
    <3>2. CASE a = "YX"
      BY <1>1, <1>3, <1>9, <2>1, <2>5, <3>1, <3>2, <1>b, Ranks, Numbers, <1>x
    <3>3. CASE a = "NEGATIVE_FIRST"
      BY <1>1, <1>3, <1>9, <2>1, <2>5, <3>1, <3>3, <1>b, Ranks, Numbers, <1>x
    <3>4. CASE a \notin {"YX", "NEGATIVE_FIRST"}
      <4>1. b \in Algorithms \ {"YX", "NEGATIVE_FIRST"}
        BY <3>4, <1>b
      <4> QED BY <1>1, <1>3, <1>9, <2>1, <2>5, <3>1, <3>4, <4>1, Ranks, Numbers
    <3> QED BY <3>2, <3>3, <3>4
  <2> QED BY <1>5, <2>2, <2>3, <2>4, <2>5 DEF Directions
<1> QED BY <1>5, <1>6, <1>7, <1>8, <1>9 DEF Directions

(* For every mesh, every algorithm and every table size, the dependency    *)
(* graph has a numbering that goes up along its edges.                     *)
THEOREM GraphNumbered == Spec => []DeadlockFree
<1>1. ASSUME NEW a \in Algorithms, NEW c \in Nodes, NEW dir \in Directions,
             NEW turn \in Directions, Depends(a, c, dir, turn)
      PROVE  Number(a, c, dir) < Number(a, Neighbour(c, dir), turn)
  <2>1. PICK d \in Nodes : dir \in Dispatch(a, c, d) /\ turn \in Dispatch(a, Neighbour(c, dir), d)
    BY <1>1 DEF Depends
  <2> QED BY <2>1, NumberGoesUp
<1>2. TypeOK => DeadlockFree
  BY <1>1, RoutingAssumption DEF TypeOK, DeadlockFree
<1>3. Spec => []TypeOK
  BY RoutesMinimal, PTL
<1> QED BY <1>2, <1>3, PTL
-----------------------------------------------------------------------------
(* Quality of service.                                                       *)
(* How many classes the arbiter asks before class c.                         *)
Ahead(start, c) == IF c >= start THEN c - start ELSE c - start + NumClasses

(* A class that waits has been asked so often that its deficit shows it: k   *)
(* times its weight for k rounds.  And it never needs more rounds than make  *)
(* up a quantum.                                                             *)
WaitBound(c) ==
  /\ \E k \in Nat : k * weights[c] <= deficit[c] /\ waits[c] + Ahead(current, c) < NumClasses * (1 + k)
  /\ waits[c] + Ahead(current, c) < NumClasses * Visits(c)

ArbiterInv ==
  /\ weights \in [Classes -> Nat \ {0}] /\ deficit \in [Classes -> Nat] /\ waits \in [Classes -> Nat]
  /\ current \in Classes
  /\ \A c \in Classes : WaitBound(c)

LimiterInv ==
  /\ rate \in Nat /\ burst \in Nat /\ allowed \in Nat /\ refills \in Nat
  /\ BudgetKept

LEMMA RingSum ==
  ASSUME NEW m \in Nat \ {0}, NEW a \in 0 .. 2 * m - 1
  PROVE  (a < m => a % m = a) /\ (a >= m => a % m = a - m)
<1> DEFINE q == a \div m
           r == a % m
<1>1. r \in 0 .. m - 1 /\ a = (m * q) + r /\ q \in Int
  OBVIOUS
<1> HIDE DEF q, r
<1>2. CASE q <= -1
  <2>1. m * q <= - m
    BY <1>2, <1>1
  <2> QED BY <1>1, <2>1
<1>3. CASE q >= 2
  <2>1. m * q >= 2 * m
    BY <1>3, <1>1
  <2> QED BY <1>1, <2>1
<1>4. CASE q = 0
  BY <1>1, <1>4 DEF r
<1>5. CASE q = 1
  BY <1>1, <1>5 DEF r
<1> QED BY <1>1, <1>2, <1>3, <1>4, <1>5

LEMMA EnoughVisits ==
  ASSUME NEW c, weights[c] \in Nat \ {0}
  PROVE  Visits(c) \in Nat \ {0} /\ Visits(c) * weights[c] >= Quantum
<1> DEFINE w == weights[c]
           a == Quantum + w - 1
           q == a \div w
           r == a % w
<1>1. a \in Nat /\ w \in Nat \ {0} /\ a = 10 + w - 1
  BY DEF Quantum
<1> HIDE DEF a, w
<1>2. r \in 0 .. w - 1 /\ a = (w * q) + r /\ q \in Int
  BY <1>1
<1>3. Visits(c) = q
  BY DEF Visits, a, w
<1> HIDE DEF q, r
<1>4. w * q >= 10
  BY <1>1, <1>2
<1>5. ASSUME q <= 0 PROVE FALSE
  <2>1. w * q <= 0
    BY <1>1, <1>2, <1>5
  <2> QED BY <1>1, <1>2, <1>4, <2>1
<1>6. q * w = w * q
  BY <1>1, <1>2
<1> QED BY <1>2, <1>3, <1>4, <1>5, <1>6 DEF Quantum, w

(* One more round: who has been asked k times and still lacks a quantum      *)
(* needs at least two more visits, so a round of waiting is within bounds.   *)
LEMMA OneMoreRound ==
  ASSUME NEW n \in Nat \ {0}, NEW w \in Nat \ {0}, NEW v \in Nat, v * w >= 10, NEW k \in Nat, NEW d \in Nat,
         k * w <= d, d + w < 10, NEW x \in Nat, x < n * (1 + k)
  PROVE  /\ x + n < n * v /\ x + n < n * (1 + (k + 1))
         /\ (k + 1) * w <= d + w
<1>1. (k + 1) * w = k * w + w
  OBVIOUS
<1>2. k + 1 < v
  <2> SUFFICES ASSUME v <= k + 1 PROVE FALSE
    OBVIOUS
  <2>1. v * w <= (k + 1) * w
    <3>1. PICK j \in Nat : k + 1 = v + j
      <4>1. (k + 1) - v \in Nat /\ k + 1 = v + ((k + 1) - v)
        OBVIOUS
      <4> QED BY <4>1
    <3>2. (v + j) * w = v * w + j * w /\ j * w \in Nat
      OBVIOUS
    <3> QED BY <3>1, <3>2
  <2> QED BY <1>1, <2>1
<1>3. n * (1 + (k + 1)) = n * (1 + k) + n
  OBVIOUS
<1>4. n * (1 + (k + 1)) <= n * v
  <2>1. PICK j \in Nat : v = (1 + (k + 1)) + j
    <3>1. v - (k + 2) \in Nat /\ v = (1 + (k + 1)) + (v - (k + 2))
      BY <1>2
    <3> QED BY <3>1
  <2>2. n * ((1 + (k + 1)) + j) = n * (1 + (k + 1)) + n * j /\ n * j \in Nat
    OBVIOUS
  <2> QED BY <2>1, <2>2
<1>5. n * (1 + k) \in Int /\ n * v \in Int
  OBVIOUS
<1> DEFINE a == n * (1 + k)
           b == n * v
           e == n * (1 + (k + 1))
<1>6. x < a /\ e = a + n /\ e <= b /\ a \in Int /\ b \in Int
  BY <1>3, <1>4, <1>5
<1> HIDE DEF a, b, e
<1>7. x + n < b /\ x + n < e
  BY <1>6
<1> QED BY <1>1, <1>7 DEF a, b, e

(* The class that is i places behind current, and the place it is ahead.     *)
LEMMA TurnOf ==
  ASSUME QosAssumption, current \in Classes, NEW i \in 0 .. NumClasses - 1
  PROVE  InTurn(i) \in Classes /\ Ahead(current, InTurn(i)) = i
<1>1. PICK n \in Nat \ {0} : n = NumClasses /\ Classes = 0 .. n - 1
  BY DEF QosAssumption
<1> DEFINE a == current + i
<1>2. a \in 0 .. 2 * n - 1 /\ current \in 0 .. n - 1 /\ i \in 0 .. n - 1
  BY <1>1
<1> HIDE DEF a
<1>3. (a < n => a % n = a) /\ (a >= n => a % n = a - n)
  BY <1>1, <1>2, RingSum
<1>4. InTurn(i) = a % n /\ a = current + i
  BY <1>1 DEF InTurn, a
<1>5. (a < n => InTurn(i) = current + i) /\ (a >= n => InTurn(i) = current + i - n)
  BY <1>1, <1>2, <1>3, <1>4
<1>6. InTurn(i) \in 0 .. n - 1
  BY <1>1, <1>2, <1>4, <1>5
<1>7. Ahead(current, InTurn(i)) = i
  BY <1>1, <1>2, <1>4, <1>5 DEF Ahead
<1> QED BY <1>1, <1>6, <1>7

LEMMA AheadOf ==
  ASSUME QosAssumption, current \in Classes, NEW c \in Classes
  PROVE  Ahead(current, c) \in 0 .. NumClasses - 1 /\ InTurn(Ahead(current, c)) = c
<1>1. PICK n \in Nat \ {0} : n = NumClasses /\ Classes = 0 .. n - 1
  BY DEF QosAssumption
<1>2. Ahead(current, c) \in 0 .. n - 1
  BY <1>1 DEF Ahead
<1> DEFINE a == current + Ahead(current, c)
<1>3. a \in 0 .. 2 * n - 1
  BY <1>1, <1>2
<1>4. (a >= n <=> ~ (c >= current)) /\ (c >= current => a = c) /\ (~ (c >= current) => a = c + n)
  BY <1>1 DEF Ahead
<1> HIDE DEF a
<1>5. (a < n => a % n = a) /\ (a >= n => a % n = a - n)
  BY <1>1, <1>3, RingSum
<1>6. InTurn(Ahead(current, c)) = a % n
  BY <1>1 DEF InTurn, a
<1>7. a % n = c
  BY <1>1, <1>3, <1>4, <1>5
<1> QED BY <1>1, <1>2, <1>6, <1>7

(* When class s has gone, the others are nearer by the places up to s, or    *)
(* have just been asked and are a round away.                                *)
LEMMA AheadAfter ==
  ASSUME QosAssumption, current \in Classes, NEW s \in Classes, current' = NextTurn(s), NEW c \in Classes, c # s
  PROVE  /\ current' \in Classes
         /\ Ahead(current, c) > Ahead(current, s) => Ahead(current', c) = Ahead(current, c) - Ahead(current, s) - 1
         /\ ~ (Ahead(current, c) > Ahead(current, s)) =>
              /\ Ahead(current, c) < Ahead(current, s)
              /\ Ahead(current', c) = Ahead(current, c) - Ahead(current, s) - 1 + NumClasses
<1>1. PICK n \in Nat \ {0} : n = NumClasses /\ Classes = 0 .. n - 1
  BY DEF QosAssumption
<1>2. PICK t : t = s + 1
  OBVIOUS
<1>3. t \in 1 .. n /\ t \in 0 .. 2 * n - 1
  BY <1>1, <1>2
<1>4. (t < n => t % n = t) /\ (t >= n => t % n = t - n)
  BY <1>1, <1>3, RingSum
<1>5. current' = t % n
  BY <1>1, <1>2 DEF NextTurn
<1>6. (t < n => current' = s + 1) /\ (t = n => current' = 0)
  BY <1>1, <1>2, <1>3, <1>4, <1>5
<1>7. current' \in 0 .. n - 1
  BY <1>1, <1>2, <1>3, <1>6
<1>8. PICK u, v, x : u = Ahead(current, c) /\ v = Ahead(current, s) /\ x = Ahead(current', c)
  OBVIOUS
<1>9. /\ (c >= current => u = c - current) /\ (~ (c >= current) => u = c - current + n)
      /\ (s >= current => v = s - current) /\ (~ (s >= current) => v = s - current + n)
      /\ (c >= current' => x = c - current') /\ (~ (c >= current') => x = c - current' + n)
  BY <1>1, <1>8 DEF Ahead
<1>10. /\ c \in Int /\ s \in Int /\ n \in Int /\ current \in Int /\ current' \in Int
       /\ 0 <= c /\ c < n /\ 0 <= s /\ s < n /\ 0 <= current /\ current < n /\ c # s
  BY <1>1, <1>7
<1>11. (s + 1 < n => current' = s + 1) /\ (s + 1 = n => current' = 0)
  BY <1>2, <1>6
<1>12. (u > v => x = u - v - 1) /\ (~ (u > v) => u < v /\ x = u - v - 1 + n)
  <2>1. CASE c >= current /\ s >= current
    BY <1>9, <1>10, <1>11, <2>1
  <2>2. CASE c >= current /\ ~ (s >= current)
    BY <1>9, <1>10, <1>11, <2>2
  <2>3. CASE ~ (c >= current) /\ s >= current
    BY <1>9, <1>10, <1>11, <2>3
  <2>4. CASE ~ (c >= current) /\ ~ (s >= current)
    BY <1>9, <1>10, <1>11, <2>4
  <2> QED BY <2>1, <2>2, <2>3, <2>4
<1> QED BY <1>1, <1>7, <1>8, <1>12

LEMMA ServeKeeps ==
  ASSUME QosAssumption, ArbiterInv, NEW requests \in SUBSET Classes, NEW i \in Ready(requests),
         \A j \in Ready(requests) : i <= j,
         deficit' = [c \in Classes |-> deficit[c] + (IF c \in {InTurn(j) : j \in 0 .. i} THEN weights[c] ELSE 0)
                                                  - (IF c = InTurn(i) THEN Quantum ELSE 0)],
         current' = NextTurn(InTurn(i)),
         waits' = [c \in Classes |-> IF c \in requests /\ c # InTurn(i) THEN waits[c] + 1 ELSE 0],
         weights' = weights
  PROVE  ArbiterInv'
<1>1. PICK n \in Nat \ {0} : n = NumClasses /\ Classes = 0 .. n - 1
  BY DEF QosAssumption
<1>2. /\ weights \in [Classes -> Nat \ {0}] /\ deficit \in [Classes -> Nat] /\ waits \in [Classes -> Nat]
      /\ current \in Classes
  BY DEF ArbiterInv
<1>3. i \in 0 .. n - 1 /\ InTurn(i) \in requests /\ DeficitOf(i) >= Quantum
  BY <1>1 DEF Ready
<1>4. PICK s : s = InTurn(i)
  OBVIOUS
<1>5. s \in Classes /\ Ahead(current, s) = i /\ s \in requests /\ deficit[s] + weights[s] >= 10
  BY <1>1, <1>2, <1>3, <1>4, TurnOf DEF DeficitOf, Quantum
<1>6. current' = NextTurn(s)
  BY <1>4
<1>7. ASSUME NEW c \in Classes
      PROVE  c \in {InTurn(j) : j \in 0 .. i} <=> Ahead(current, c) <= i
  <2>1. Ahead(current, c) \in 0 .. n - 1 /\ InTurn(Ahead(current, c)) = c
    BY <1>1, <1>2, AheadOf
  <2>2. \A j \in 0 .. i : Ahead(current, InTurn(j)) = j
    BY <1>1, <1>2, <1>3, TurnOf
  <2> QED BY <1>3, <2>1, <2>2
<1>8. \A c \in Classes : deficit'[c] = deficit[c] + (IF Ahead(current, c) <= i THEN weights[c] ELSE 0) - (IF c = s THEN 10 ELSE 0)
  BY <1>4, <1>7 DEF Quantum
<1>9. deficit' \in [Classes -> Nat]
  <2>1. \A c \in Classes : deficit'[c] \in Nat
    BY <1>2, <1>5, <1>8
  <2> QED BY <2>1
<1>10. waits' \in [Classes -> Nat]
  BY <1>2
<1>11. current' \in Classes
  <2>1. PICK t : t = s + 1
    OBVIOUS
  <2>2. t \in 1 .. n /\ t \in 0 .. 2 * n - 1
    BY <1>1, <1>5, <2>1
  <2>3. (t < n => t % n = t) /\ (t >= n => t % n = t - n)
    BY <1>1, <2>2, RingSum
  <2>4. current' = t % n
    BY <1>1, <1>6, <2>1 DEF NextTurn
  <2> QED BY <1>1, <2>2, <2>3, <2>4
<1>12. ASSUME NEW c \in Classes PROVE WaitBound(c)'
  <2>1. PICK w, d, z, v : w = weights[c] /\ d = deficit[c] /\ z = waits[c] /\ v = Visits(c)
    OBVIOUS
  <2>2. PICK u : u = Ahead(current, c)
    OBVIOUS
  <2>3. PICK x : x = Ahead(current, c)'
    OBVIOUS
  <2>4. w \in Nat \ {0} /\ d \in Nat /\ z \in Nat /\ v \in Nat \ {0} /\ v * w >= 10 /\ u \in 0 .. n - 1
    BY <1>1, <1>2, <2>1, <2>2, EnoughVisits, AheadOf DEF Quantum
  <2>5. x \in 0 .. n - 1
    BY <1>1, <1>11, <2>3 DEF Ahead
  <2>6. Visits(c)' = v /\ weights'[c] = w
    BY <2>1 DEF Visits
  <2>7. PICK k \in Nat : k * w <= d /\ z + u < n * (1 + k)
    BY <1>1, <2>1, <2>2 DEF ArbiterInv, WaitBound
  <2>8. z + u < n * v
    BY <1>1, <2>1, <2>2 DEF ArbiterInv, WaitBound
  <2>9. SUFFICES /\ \E l \in Nat : l * w <= deficit'[c] /\ waits'[c] + x < n * (1 + l)
                 /\ waits'[c] + x < n * v
    BY <1>1, <2>3, <2>6 DEF WaitBound
  <2>10. CASE waits'[c] = 0
    <3>1. x < n * (1 + 0) /\ 0 * w <= deficit'[c]
      BY <1>9, <2>4, <2>5
    <3>2. n <= n * v
      <4>1. PICK j \in Nat : v = 1 + j
        <5>1. v - 1 \in Nat /\ v = 1 + (v - 1)
          BY <2>4
        <5> QED BY <5>1
      <4>2. n * (1 + j) = n + n * j /\ n * j \in Nat
        OBVIOUS
      <4> QED BY <4>1, <4>2
    <3>3. n * v \in Int /\ x \in Int /\ n \in Int
      BY <2>4, <2>5
    <3>4. waits'[c] + x < n * v
      BY <2>5, <2>10, <3>2, <3>3
    <3>5. waits'[c] + x < n * (1 + 0)
      BY <2>5, <2>10, <3>1
    <3> QED BY <3>1, <3>4, <3>5
  <2>11. CASE c \in requests /\ c # s
    <3>1. waits'[c] = z + 1
      BY <1>4, <2>1, <2>11
    <3>2. CASE u > i
      <4>1. x = u - i - 1
        BY <1>2, <1>5, <1>6, <2>2, <2>3, <2>11, <3>2, AheadAfter DEF Ahead
      <4>2. deficit'[c] = d
        BY <1>2, <1>3, <1>8, <2>1, <2>2, <2>4, <2>11, <3>2
      <4>3. z + 1 + x <= z + u
        BY <1>3, <2>4, <4>1
      <4>4. n * (1 + k) \in Int /\ n * v \in Int /\ z + 1 + x \in Int /\ z + u \in Int
        BY <2>4, <2>5
      <4> QED BY <2>7, <2>8, <3>1, <4>2, <4>3, <4>4
    <3>3. CASE ~ (u > i)
      <4>1. u < i /\ x = u - i - 1 + n
        <5>1. /\ Ahead(current, c) < Ahead(current, s)
              /\ Ahead(current', c) = Ahead(current, c) - Ahead(current, s) - 1 + NumClasses
          BY <1>2, <1>5, <1>6, <2>2, <2>11, <3>3, AheadAfter
        <5>2. Ahead(current', c) = x
          BY <2>3 DEF Ahead
        <5> QED BY <1>1, <1>5, <2>2, <5>1, <5>2
      <4>2. deficit'[c] = d + w
        BY <1>2, <1>3, <1>8, <2>1, <2>2, <2>4, <2>11, <3>3
      <4>3. d + w < 10
        <5>1. u \in 0 .. n - 1 /\ InTurn(u) = c /\ u \notin Ready(requests)
          <6>1. InTurn(u) = c /\ u \in 0 .. n - 1
            BY <1>1, <1>2, <2>2, AheadOf
          <6>2. ~ (i <= u)
            BY <1>3, <2>4, <4>1
          <6> QED BY <6>1, <6>2
        <5>2. ~ (DeficitOf(u) >= Quantum)
          BY <1>1, <2>11, <5>1 DEF Ready
        <5> QED BY <2>1, <2>4, <5>1, <5>2 DEF DeficitOf, Quantum
      <4>4. /\ (z + u) + n < n * v /\ (z + u) + n < n * (1 + (k + 1))
            /\ (k + 1) * w <= d + w
        BY <2>4, <2>7, <4>3, OneMoreRound
      <4>5. z + 1 + x <= (z + u) + n
        BY <1>3, <2>4, <4>1
      <4>6. n * (1 + (k + 1)) \in Int /\ n * v \in Int /\ z + 1 + x \in Int /\ (z + u) + n \in Int
        BY <2>4, <2>5
      <4>7. z + 1 + x < n * v /\ z + 1 + x < n * (1 + (k + 1)) /\ k + 1 \in Nat
        BY <4>4, <4>5, <4>6
      <4> QED BY <3>1, <4>2, <4>4, <4>7
    <3> QED BY <3>2, <3>3
  <2> QED BY <1>4, <2>10, <2>11
<1> QED BY <1>2, <1>9, <1>10, <1>11, <1>12 DEF ArbiterInv

LEMMA GatherKeeps ==
  ASSUME QosAssumption, ArbiterInv, NEW requests \in SUBSET Classes, Ready(requests) = {},
         deficit' = [c \in Classes |-> deficit[c] + 2 * weights[c]],
         waits' = [c \in Classes |-> IF c \in requests THEN waits[c] + 1 ELSE 0],
         current' = current, weights' = weights
  PROVE  ArbiterInv'
<1>1. PICK n \in Nat \ {0} : n = NumClasses /\ Classes = 0 .. n - 1
  BY DEF QosAssumption
<1>2. /\ weights \in [Classes -> Nat \ {0}] /\ deficit \in [Classes -> Nat] /\ waits \in [Classes -> Nat]
      /\ current \in Classes
  BY DEF ArbiterInv
<1>3. deficit' \in [Classes -> Nat] /\ waits' \in [Classes -> Nat]
  BY <1>2
<1>4. ASSUME NEW c \in Classes PROVE WaitBound(c)'
  <2>1. PICK w, d, z, v : w = weights[c] /\ d = deficit[c] /\ z = waits[c] /\ v = Visits(c)
    OBVIOUS
  <2>2. PICK u : u = Ahead(current, c)
    OBVIOUS
  <2>3. w \in Nat \ {0} /\ d \in Nat /\ z \in Nat /\ v \in Nat \ {0} /\ v * w >= 10 /\ u \in 0 .. n - 1
    BY <1>1, <1>2, <2>1, <2>2, EnoughVisits, AheadOf DEF Quantum
  <2>4. Visits(c)' = v /\ weights'[c] = w /\ Ahead(current, c)' = u
    BY <2>1, <2>2 DEF Visits, Ahead
  <2>5. PICK k \in Nat : k * w <= d /\ z + u < n * (1 + k)
    BY <1>1, <2>1, <2>2 DEF ArbiterInv, WaitBound
  <2>6. z + u < n * v
    BY <1>1, <2>1, <2>2 DEF ArbiterInv, WaitBound
  <2>7. deficit'[c] = d + 2 * w
    BY <2>1
  <2>8. SUFFICES /\ \E l \in Nat : l * w <= d + 2 * w /\ waits'[c] + u < n * (1 + l)
                 /\ waits'[c] + u < n * v
    BY <1>1, <2>4, <2>7 DEF WaitBound
  <2>9. CASE c \notin requests
    <3>1. waits'[c] = 0
      BY <2>9
    <3>2. n * (1 + k) \in Int /\ n * v \in Int
      BY <2>3
    <3>3. u < n * (1 + k) /\ u < n * v
      BY <2>3, <2>5, <2>6, <3>2
    <3>4. k * w <= d + 2 * w
      BY <2>3, <2>5
    <3> QED BY <2>3, <3>1, <3>3, <3>4
  <2>10. CASE c \in requests
    <3>1. waits'[c] = z + 1
      BY <2>1, <2>10
    <3>2. d + w < 10
      <4>1. u \in 0 .. n - 1 /\ InTurn(u) = c
        BY <1>1, <1>2, <2>2, AheadOf
      <4>2. ~ (DeficitOf(u) >= Quantum)
        BY <1>1, <2>10, <4>1 DEF Ready
      <4> QED BY <2>1, <2>3, <4>1, <4>2 DEF DeficitOf, Quantum
    <3>3. /\ (z + u) + n < n * v /\ (z + u) + n < n * (1 + (k + 1))
          /\ (k + 1) * w <= d + w
      BY <2>3, <2>5, <3>2, OneMoreRound
    <3>4. n * (1 + (k + 1)) \in Int /\ n * v \in Int /\ (k + 1) * w \in Int /\ k + 1 \in Nat
      BY <2>3
    <3>5. z + 1 + u < n * v /\ z + 1 + u < n * (1 + (k + 1)) /\ (k + 1) * w <= d + 2 * w
      BY <2>3, <3>3, <3>4
    <3> QED BY <3>1, <3>4, <3>5
  <2> QED BY <2>9, <2>10
<1> QED BY <1>2, <1>3, <1>4 DEF ArbiterInv

LEMMA ArbiterKept ==
  ASSUME QosAssumption, ArbiterInv, UNCHANGED <<weights, deficit, current, waits>>
  PROVE  ArbiterInv'
<1>1. \A c : Ahead(current, c)' = Ahead(current, c) /\ Visits(c)' = Visits(c)
  BY DEF Ahead, Visits
<1>2. \A c : WaitBound(c)' <=> WaitBound(c)
  BY <1>1 DEF WaitBound
<1> QED BY <1>2 DEF ArbiterInv

LEMMA LimiterStep ==
  ASSUME LimiterInv, Allow \/ Refill \/ UNCHANGED <<rate, burst, tokens, allowed, refills>>
  PROVE  LimiterInv'
<1>1. /\ rate \in Nat /\ burst \in Nat /\ allowed \in Nat /\ refills \in Nat
      /\ tokens \in 0 .. burst /\ 10 * allowed + tokens <= burst + rate * refills
  BY DEF LimiterInv, BudgetKept
<1>2. CASE Allow
  <2>1. rate' = rate /\ burst' = burst /\ refills' = refills
        /\ (tokens >= 10 => tokens' = tokens - 10 /\ allowed' = allowed + 1)
        /\ (~ (tokens >= 10) => tokens' = tokens /\ allowed' = allowed)
    BY <1>2 DEF Allow
  <2>2. rate * refills \in Int
    BY <1>1
  <2> QED BY <1>1, <2>1, <2>2 DEF LimiterInv, BudgetKept
<1>3. CASE Refill
  <2>1. rate' = rate /\ burst' = burst /\ refills' = refills + 1 /\ allowed' = allowed
        /\ (tokens + rate > burst => tokens' = burst) /\ (~ (tokens + rate > burst) => tokens' = tokens + rate)
    BY <1>3 DEF Refill, Refilled
  <2>2. rate * (refills + 1) = rate * refills + rate /\ rate * refills \in Int
    BY <1>1
  <2>3. tokens' \in 0 .. burst /\ tokens' <= tokens + rate
    BY <1>1, <2>1
  <2>4. PICK p : p = rate * refills
    OBVIOUS
  <2>5. p \in Int /\ 10 * allowed + tokens <= burst + p
    BY <1>1, <2>2, <2>4
  <2>6. 10 * allowed + tokens' <= burst + (p + rate)
    <3>1. allowed \in Int /\ tokens \in Int /\ burst \in Int /\ rate \in Int /\ tokens' \in Int /\ tokens' <= tokens + rate
      BY <1>1, <2>3
    <3>2. PICK g : g = 10 * allowed
      OBVIOUS
    <3>3. g \in Int /\ p \in Int /\ g + tokens <= burst + p
      BY <2>5, <3>1, <3>2
    <3>4. PICK t, u, b, r : t = tokens /\ u = tokens' /\ b = burst /\ r = rate
      OBVIOUS
    <3>5. /\ t \in Int /\ u \in Int /\ b \in Int /\ r \in Int /\ g \in Int /\ p \in Int
          /\ g + t <= b + p /\ u <= t + r
      BY <3>1, <3>3, <3>4
    <3>6. g + u <= b + (p + r)
      BY <3>5
    <3>7. g + tokens' <= burst + (p + rate)
      BY <3>4, <3>6
    <3> QED BY <3>2, <3>7
  <2>7. rate' * refills' = p + rate
    BY <2>1, <2>2, <2>4
  <2>8. 10 * allowed' + tokens' <= burst' + rate' * refills'
    BY <2>1, <2>6, <2>7
  <2>9. tokens' \in 0 .. burst' /\ refills' \in Nat
    BY <1>1, <2>1, <2>3
  <2> QED BY <1>1, <2>1, <2>8, <2>9 DEF LimiterInv, BudgetKept
<1>4. CASE UNCHANGED <<rate, burst, tokens, allowed, refills>>
  BY <1>1, <1>4 DEF LimiterInv, BudgetKept
<1> QED BY <1>2, <1>3, <1>4

LEMMA QosStart == QosAssumption /\ InitQos => ArbiterInv /\ LimiterInv
<1> SUFFICES ASSUME QosAssumption, InitQos PROVE ArbiterInv /\ LimiterInv
  OBVIOUS
<1>1. PICK n \in Nat \ {0} : n = NumClasses /\ Classes = 0 .. n - 1
  BY DEF QosAssumption
<1>2. /\ weights \in [Classes -> Nat \ {0}] /\ deficit = [c \in Classes |-> 0] /\ waits = [c \in Classes |-> 0]
      /\ current = 0 /\ current \in Classes
  BY <1>1 DEF InitQos, QosAssumption
<1>3. ASSUME NEW c \in Classes PROVE WaitBound(c)
  <2>1. PICK v, u : v = Visits(c) /\ u = Ahead(current, c)
    OBVIOUS
  <2>2. v \in Nat \ {0} /\ u \in 0 .. n - 1 /\ weights[c] \in Nat
    BY <1>1, <1>2, <2>1, EnoughVisits, AheadOf
  <2>3. 0 * weights[c] <= deficit[c] /\ waits[c] + u < n * (1 + 0)
    BY <1>2, <2>2
  <2>4. n <= n * v
    <3>1. PICK j \in Nat : v = 1 + j
      <4>1. v - 1 \in Nat /\ v = 1 + (v - 1)
        BY <2>2
      <4> QED BY <4>1
    <3>2. n * (1 + j) = n + n * j /\ n * j \in Nat
      OBVIOUS
    <3> QED BY <3>1, <3>2
  <2>5. n * v \in Int
    BY <2>2
  <2>6. waits[c] + u < n * v
    BY <1>2, <2>2, <2>4, <2>5
  <2> QED BY <1>1, <2>1, <2>3, <2>6 DEF WaitBound
<1>4. ArbiterInv
  BY <1>2, <1>3 DEF ArbiterInv
<1>5. LimiterInv
  <2>1. rate \in Nat /\ burst \in Nat /\ tokens = burst /\ allowed = 0 /\ refills = 0
    BY DEF InitQos, QosAssumption
  <2>2. rate * 0 = 0
    BY <2>1
  <2> QED BY <2>1, <2>2 DEF LimiterInv, BudgetKept
<1> QED BY <1>4, <1>5

LEMMA QosKeeps == QosAssumption /\ ArbiterInv /\ LimiterInv /\ [QosStep]_qosVars => ArbiterInv' /\ LimiterInv'
<1> SUFFICES ASSUME QosAssumption, ArbiterInv, LimiterInv, [QosStep]_qosVars PROVE ArbiterInv' /\ LimiterInv'
  OBVIOUS
<1>1. ASSUME NEW requests \in SUBSET Classes, Select(requests) PROVE ArbiterInv' /\ LimiterInv'
  <2>1. UNCHANGED <<rate, burst, tokens, allowed, refills>> /\ weights' = weights
    BY <1>1 DEF Select
  <2>2. CASE Ready(requests) = {} /\ current' = current
             /\ deficit' = [c \in Classes |-> deficit[c] + 2 * weights[c]]
             /\ waits' = [c \in Classes |-> IF c \in requests THEN waits[c] + 1 ELSE 0]
    BY <2>1, <2>2, GatherKeeps, LimiterStep
  <2>3. ASSUME NEW i \in Ready(requests), \A j \in Ready(requests) : i <= j,
               deficit' = [c \in Classes |-> deficit[c] + (IF c \in {InTurn(j) : j \in 0 .. i} THEN weights[c] ELSE 0)
                                                        - (IF c = InTurn(i) THEN Quantum ELSE 0)],
               current' = NextTurn(InTurn(i)),
               waits' = [c \in Classes |-> IF c \in requests /\ c # InTurn(i) THEN waits[c] + 1 ELSE 0]
        PROVE  ArbiterInv' /\ LimiterInv'
    <3>1. ArbiterInv'
      BY <2>1, <2>3, ServeKeeps
    <3> QED BY <2>1, <3>1, LimiterStep
  <2> QED BY <1>1, <2>2, <2>3 DEF Select
<1>2. CASE Allow \/ Refill \/ (\E numVcs \in NumClasses .. MaxVc : Configure(numVcs)) \/ UNCHANGED qosVars
  <2>1. UNCHANGED <<weights, deficit, current, waits>>
    BY <1>2 DEF Allow, Refill, Configure, qosVars
  <2>2. Allow \/ Refill \/ UNCHANGED <<rate, burst, tokens, allowed, refills>>
    BY <1>2 DEF Configure, qosVars
  <2> QED BY <2>1, <2>2, ArbiterKept, LimiterStep
<1> QED BY <1>1, <1>2 DEF QosStep

LEMMA QosInvImplies == QosAssumption /\ ArbiterInv /\ LimiterInv => NoClassStarves /\ BudgetKept
<1> SUFFICES ASSUME QosAssumption, ArbiterInv PROVE NoClassStarves
  BY DEF LimiterInv
<1>1. ASSUME NEW c \in Classes PROVE waits[c] < NumClasses * Visits(c)
  <2>1. PICK n \in Nat \ {0} : n = NumClasses
    BY DEF QosAssumption
  <2>2. PICK v, u : v = Visits(c) /\ u = Ahead(current, c)
    OBVIOUS
  <2>3. v \in Nat /\ u \in 0 .. n - 1 /\ waits[c] \in Nat
    BY <2>1, <2>2, EnoughVisits, AheadOf DEF ArbiterInv
  <2>4. waits[c] + u < n * v /\ n * v \in Int
    BY <2>1, <2>2, <2>3 DEF ArbiterInv, WaitBound
  <2>5. waits[c] < n * v
    BY <2>3, <2>4
  <2> QED BY <2>1, <2>2, <2>5
<1> QED BY <1>1 DEF NoClassStarves

-----------------------------------------------------------------------------
(* The die-to-die link.                                                      *)
Lane == [skew : Int, locked : BOOLEAN]

LinkInv ==
  /\ DOMAIN link = {"state", "lanes", "sent", "recv", "crcErrors", "retries"}
  /\ link.lanes \in Seq(Lane) /\ link.recv \in Nat /\ link.crcErrors \in Nat
  /\ flips \in SUBSET FlitBits /\ IsFiniteSet(flips) /\ Cardinality(flips) <= MaxFlips
  /\ delivered \in Seq({{}})
  /\ FlitsSound

LEMMA LinkStarts == DieAssumption /\ DieInit => LinkInv
<1> SUFFICES ASSUME DieAssumption, DieInit PROVE LinkInv
  OBVIOUS
<1>1. PICK n \in Nat : link = NewLink(n)
  BY DEF DieInit, DieAssumption
<1>2. PICK m \in Nat : m = IF n > MaxLinkLanes THEN MaxLinkLanes ELSE n
  BY DEF DieAssumption
<1>3. PICK lanes : lanes = [i \in 1 .. m |-> [skew |-> 0, locked |-> FALSE]]
  OBVIOUS
<1>4. link = [state |-> "DOWN", sent |-> 0, recv |-> 0, crcErrors |-> 0, retries |-> 0, lanes |-> lanes]
  BY <1>1, <1>2, <1>3 DEF NewLink
<1>5. lanes \in Seq(Lane)
  BY <1>3 DEF Lane
<1>6. flips = {} /\ delivered = <<>>
  BY DEF DieInit
<1>7. IsFiniteSet(flips) /\ Cardinality(flips) = 0
  BY <1>6, FS_EmptySet
<1>8. Len(delivered) = 0 /\ delivered \in Seq({{}})
  BY <1>6
<1> QED BY <1>4, <1>5, <1>6, <1>7, <1>8 DEF LinkInv, FlitsSound, DieAssumption

(* Every set of a few bits is what a row of that many turns over.            *)
LEMMA FewAreListed ==
  ASSUME NEW F, IsFiniteSet(F), F # {}, NEW n \in Nat, Cardinality(F) <= n
  PROVE  \E w \in [1 .. n -> F] : F = {w[i] : i \in 1 .. n}
<1>1. PICK m \in Nat : m = Cardinality(F)
  BY FS_CardinalityType
<1>2. PICK f \in Bijection(1 .. m, F) : TRUE
  BY <1>1, FS_CardinalityType DEF ExistsBijection
<1>3. f \in [1 .. m -> F] /\ \A y \in F : \E i \in 1 .. m : f[i] = y
  BY <1>2 DEF Bijection, Injection, Surjection
<1>4. PICK x \in F : TRUE
  OBVIOUS
<1> DEFINE w == [i \in 1 .. n |-> IF i <= m THEN f[i] ELSE x]
<1>5. w \in [1 .. n -> F]
  BY <1>1, <1>3
<1>6. ASSUME NEW y \in F PROVE \E i \in 1 .. n : w[i] = y
  <2>1. PICK i \in 1 .. m : f[i] = y
    BY <1>3
  <2>2. i \in 1 .. n /\ w[i] = y
    BY <1>1, <2>1
  <2> QED BY <2>2
<1> HIDE DEF w
<1>7. F = {w[i] : i \in 1 .. n}
  BY <1>5, <1>6
<1> QED BY <1>5, <1>7

(* After training the state says whether all lanes could be trained.         *)
LEMMA Trained ==
  ASSUME DieAssumption, LinkInv, NEW l, l = Train(link)
  PROVE  /\ DOMAIN l = DOMAIN link /\ l.lanes \in Seq(Lane)
         /\ l.recv = link.recv /\ l.crcErrors = link.crcErrors /\ l.retries = link.retries
         /\ l.state = IF Len(l.lanes) < TooMany THEN "ACTIVE" ELSE "ERROR"
<1>1. PICK n \in Nat : n = Len(link.lanes)
  BY LenProperties DEF LinkInv
<1>2. PICK good : good = {i \in 1 .. n : Abs(TrainedSkew(i, n)) < MaxSkew}
  OBVIOUS
<1>3. PICK lanes : lanes = [i \in 1 .. n |-> IF i \in good THEN [skew |-> TrainedSkew(i, n), locked |-> TRUE] ELSE link.lanes[i]]
  OBVIOUS
<1>4. PICK state : state = IF good = 1 .. n THEN "ACTIVE" ELSE "ERROR"
  OBVIOUS
<1>5. l = [link EXCEPT !.lanes = lanes, !.state = state]
  BY <1>1, <1>2, <1>3, <1>4 DEF Train
<1>6. lanes \in Seq(Lane) /\ Len(lanes) = n
  <2>1. ASSUME NEW i \in 1 .. n PROVE lanes[i] \in Lane
    <3>1. link.lanes[i] \in Lane
      BY <1>1, ElementOfSeq DEF LinkInv
    <3>2. TrainedSkew(i, n) \in Int
      BY DEF TrainedSkew
    <3> QED BY <1>3, <3>1, <3>2 DEF Lane
  <2>2. lanes \in [1 .. n -> Lane]
    BY <1>3, <2>1
  <2>3. PICK S : S = Lane
    OBVIOUS
  <2>4. lanes \in [1 .. n -> S]
    BY <2>2, <2>3
  <2>5. lanes \in Seq(S) /\ Len(lanes) = n
    BY <2>4
  <2> QED BY <2>3, <2>5
<1>7. good = 1 .. n <=> n < TooMany
  <2>1. PICK h \in Nat : h = n \div 2
    OBVIOUS
  <2>2. n = 2 * h \/ n = 2 * h + 1
    BY <2>1
  <2>3. PICK c \in Nat : c = (MaxSkew + 4) \div 5
    BY DEF DieAssumption
  <2>4. 5 * h < MaxSkew <=> h < c
    BY <2>3 DEF DieAssumption
  <2>5. n < TooMany <=> h < c
    BY <2>2, <2>3 DEF TooMany
  <2>6. ASSUME NEW i \in 1 .. n PROVE Abs(TrainedSkew(i, n)) <= 5 * h /\ Abs(TrainedSkew(i, n)) \in Int
    <3>1. TrainedSkew(i, n) = 5 * ((i - 1) - h)
      BY <2>1 DEF TrainedSkew
    <3> QED BY <2>2, <3>1 DEF Abs
  <2>7. n > 0 => 1 \in 1 .. n /\ Abs(TrainedSkew(1, n)) = 5 * h
    BY <2>1 DEF TrainedSkew, Abs
  <2>8. n = 0 => h < c
    BY <2>2, <2>3 DEF DieAssumption
  <2>9. CASE h < c
    BY <1>2, <2>4, <2>5, <2>6, <2>9 DEF DieAssumption
  <2>10. CASE ~(h < c)
    BY <1>2, <2>4, <2>5, <2>7, <2>8, <2>10 DEF DieAssumption
  <2> QED BY <2>9, <2>10
<1> QED BY <1>4, <1>5, <1>6, <1>7 DEF LinkInv

LEMMA LinkKeeps ==
  ASSUME DieAssumption, CrcDetects, LinkInv, [LinkNext]_linkVars
  PROVE  LinkInv'
<1>1. /\ DOMAIN link = {"state", "lanes", "sent", "recv", "crcErrors", "retries"}
      /\ link.lanes \in Seq(Lane) /\ link.recv \in Nat /\ link.crcErrors \in Nat
      /\ Len(link.lanes) \in Nat
      /\ flips \in SUBSET FlitBits /\ IsFiniteSet(flips) /\ Cardinality(flips) <= MaxFlips
      /\ delivered \in Seq({{}}) /\ Len(delivered) \in Nat
  BY LenProperties DEF LinkInv
<1>2. CASE UNCHANGED linkVars
  BY <1>2 DEF linkVars, LinkInv, FlitsSound
<1>3. CASE LinkTrain \/ Recovery
  <2>1. link' = Train(link) /\ UNCHANGED <<flips, delivered>>
    BY <1>3 DEF LinkTrain, Recovery
  <2>2. PICK l : l = Train(link)
    OBVIOUS
  <2>3. /\ DOMAIN l = DOMAIN link /\ l.lanes \in Seq(Lane)
        /\ l.recv = link.recv /\ l.crcErrors = link.crcErrors /\ l.retries = link.retries
        /\ l.state = IF Len(l.lanes) < TooMany THEN "ACTIVE" ELSE "ERROR"
    BY <2>2, Trained
  <2>4. link' = l /\ Len(l.lanes) \in Nat /\ TooMany \in Int
    BY <2>1, <2>2, <2>3, LenProperties DEF TooMany, DieAssumption
  <2> QED BY <1>1, <2>1, <2>3, <2>4 DEF LinkInv, FlitsSound
<1>4. ASSUME NEW lanes \in Seq(Lane), Len(lanes) = Len(link.lanes), link' = [link EXCEPT !.lanes = lanes],
             UNCHANGED <<flips, delivered>>
      PROVE  LinkInv'
  BY <1>1, <1>4 DEF LinkInv, FlitsSound
<1>5. ASSUME NEW i \in DOMAIN link.lanes
      PROVE  link.lanes[i] \in Lane /\ link.lanes[i].skew \in Int /\ link.lanes[i].locked \in BOOLEAN
             /\ link.lanes[1].skew \in Int
  <2>1. i \in 1 .. Len(link.lanes) /\ 1 \in 1 .. Len(link.lanes)
    BY <1>1, LenProperties
  <2>2. link.lanes[i] \in Lane /\ link.lanes[1] \in Lane
    BY <1>1, <2>1, ElementOfSeq
  <2> QED BY <2>2 DEF Lane
<1>6. CASE PhyInit
  <2>1. PICK lanes : lanes = [i \in DOMAIN link.lanes |-> [link.lanes[i] EXCEPT !.locked = FALSE]]
    OBVIOUS
  <2>2. \A i \in DOMAIN link.lanes : [link.lanes[i] EXCEPT !.locked = FALSE] \in Lane
    BY <1>5 DEF Lane
  <2>3. DOMAIN link.lanes = 1 .. Len(link.lanes)
    BY <1>1, LenProperties
  <2>4. lanes \in Seq(Lane) /\ Len(lanes) = Len(link.lanes)
    BY <1>1, <2>1, <2>2, <2>3
  <2> QED BY <1>4, <1>6, <2>1, <2>4 DEF PhyInit
<1>7. CASE LaneDeskew
  <2>1. PICK lanes : lanes = [i \in DOMAIN link.lanes |->
           IF i = 1 THEN link.lanes[1]
           ELSE [link.lanes[i] EXCEPT !.skew = Near(@, link.lanes[1].skew, DeskewLimit)]]
    OBVIOUS
  <2>2. ASSUME NEW i \in DOMAIN link.lanes PROVE lanes[i] \in Lane
    <3>1. PICK x \in Int : x = Near(link.lanes[i].skew, link.lanes[1].skew, DeskewLimit)
      BY <1>5 DEF Near, DeskewLimit
    <3>2. lanes[i] = IF i = 1 THEN link.lanes[i] ELSE [link.lanes[i] EXCEPT !.skew = x]
      BY <2>1, <3>1
    <3>3. [link.lanes[i] EXCEPT !.skew = x] \in Lane
      BY <1>5, <3>1 DEF Lane
    <3> QED BY <1>5, <3>2, <3>3
  <2>3. DOMAIN link.lanes = 1 .. Len(link.lanes)
    BY <1>1, LenProperties
  <2>4. lanes \in Seq(Lane) /\ Len(lanes) = Len(link.lanes)
    BY <1>1, <2>1, <2>2, <2>3
  <2> QED BY <1>4, <1>7, <2>1, <2>4 DEF LaneDeskew
<1>8. CASE LinkReset
  <2>1. PICK n \in Nat : n = Len(link.lanes)
    BY <1>1
  <2>2. PICK m \in Nat : m = IF n > MaxLinkLanes THEN MaxLinkLanes ELSE n
    BY DEF DieAssumption
  <2>3. PICK lanes : lanes = [i \in 1 .. m |-> [skew |-> 0, locked |-> FALSE]]
    OBVIOUS
  <2>4. link' = [state |-> "DOWN", sent |-> 0, recv |-> 0, crcErrors |-> 0, retries |-> 0, lanes |-> lanes]
    BY <1>8, <2>1, <2>2, <2>3 DEF LinkReset, NewLink
  <2>5. lanes \in Seq(Lane)
    BY <2>3 DEF Lane
  <2>6. flips' = {} /\ delivered' = <<>>
    BY <1>8 DEF LinkReset
  <2>7. IsFiniteSet(flips') /\ Cardinality(flips') = 0
    BY <2>6, FS_EmptySet
  <2>8. Len(delivered') = 0 /\ delivered' \in Seq({{}})
    BY <2>6
  <2> QED BY <2>4, <2>5, <2>6, <2>7, <2>8 DEF LinkInv, FlitsSound, DieAssumption
<1>9. CASE SendFlit
  <2>1. link' = [link EXCEPT !.sent = @ + 1] /\ UNCHANGED <<flips, delivered>>
    BY <1>9 DEF SendFlit
  <2> QED BY <1>1, <2>1 DEF LinkInv, FlitsSound
<1>10. ASSUME NEW position \in FlitBits, Disturb(position) PROVE LinkInv'
  <2>1. flips' = flips \cup {position} /\ UNCHANGED <<link, delivered>> /\ position \notin flips
        /\ Cardinality(flips) < MaxFlips
    BY <1>10 DEF Disturb
  <2>2. IsFiniteSet(flips') /\ Cardinality(flips') = Cardinality(flips) + 1 /\ Cardinality(flips) \in Nat
    BY <1>1, <2>1, FS_AddElement, FS_CardinalityType
  <2>3. Cardinality(flips') <= MaxFlips
    BY <2>1, <2>2 DEF DieAssumption
  <2>4. flips' \in SUBSET FlitBits
    BY <1>1, <2>1
  <2> QED BY <1>1, <2>1, <2>2, <2>3, <2>4 DEF LinkInv, FlitsSound
<1>11. CASE RecvFlit
  <2>1. PICK good \in BOOLEAN : good = Verify(Flipped(Pack(Payload), flips))
    BY DEF Verify
  <2>2. good => flips = {}
    <3> SUFFICES ASSUME flips # {} PROVE ~good
      OBVIOUS
    <3>0. PICK F : F = flips /\ F # {} /\ IsFiniteSet(F) /\ Cardinality(F) <= MaxFlips
      BY <1>1
    <3>1. PICK w \in [1 .. MaxFlips -> F] : F = {w[i] : i \in 1 .. MaxFlips}
      BY <3>0, FewAreListed DEF DieAssumption
    <3>2. w \in [1 .. MaxFlips -> FlitBits]
      BY <1>1, <3>0
    <3>3. {w[i] : i \in 1 .. MaxFlips} # {} => ~Verify(Flipped(Pack(Payload), {w[i] : i \in 1 .. MaxFlips}))
      BY <3>2 DEF CrcDetects
    <3> QED BY <2>1, <3>0, <3>1, <3>3
  <2>3. flips' = {} /\ IsFiniteSet(flips') /\ Cardinality(flips') = 0
    BY <1>11, FS_EmptySet DEF RecvFlit
  <2>4. CASE good
    <3>1. link' = [link EXCEPT !.recv = @ + 1] /\ delivered' = Append(delivered, {})
      BY <1>11, <2>1, <2>2, <2>4 DEF RecvFlit
    <3>2. delivered' \in Seq({{}}) /\ Len(delivered') = Len(delivered) + 1
      BY <1>1, <3>1
    <3>3. \A i \in DOMAIN delivered' : delivered'[i] = {}
      BY <3>2, ElementOfSeq, LenProperties
    <3>4. PICK r \in Nat : r = link.recv + 1
      BY <1>1
    <3>5. link' = [link EXCEPT !.recv = r]
      BY <3>1, <3>4
    <3>6. FlitsSound'
      BY <1>1, <3>2, <3>3, <3>4, <3>5 DEF LinkInv, FlitsSound
    <3> QED BY <1>1, <2>3, <3>2, <3>4, <3>5, <3>6 DEF LinkInv, DieAssumption
  <2>5. CASE ~good
    <3>1. PICK a, b, c : a = link.recv + 1 /\ b = link.crcErrors + 1 /\ c = link.retries + 1
      OBVIOUS
    <3>2. link' = [link EXCEPT !.recv = a, !.crcErrors = b, !.retries = c, !.state = "RECOVERY"] /\ delivered' = delivered
      BY <1>11, <2>1, <2>5, <3>1 DEF RecvFlit
    <3>3. a \in Nat /\ b \in Nat /\ b > 0 /\ c = b /\ a = Len(delivered) + b
      BY <1>1, <3>1 DEF LinkInv, FlitsSound
    <3> QED BY <1>1, <2>3, <3>2, <3>3 DEF LinkInv, FlitsSound, DieAssumption
  <2> QED BY <2>4, <2>5
<1> QED BY <1>2, <1>3, <1>6, <1>7, <1>8, <1>9, <1>10, <1>11 DEF LinkNext
-----------------------------------------------------------------------------
(* The physical layer.                                                       *)
PhyLane == [skew : Int, eye : BOOLEAN, deskewed : BOOLEAN, margin : {100, 150}]

PhyInv ==
  /\ DOMAIN phy = {"lanes", "tolerance", "emphasis", "txTrained", "rxTrained", "bits", "errors"}
  /\ phy.lanes \in [1 .. PhyLanes -> PhyLane] /\ phy.tolerance \in Nat
  /\ phy.txTrained \in BOOLEAN /\ phy.rxTrained \in BOOLEAN
  /\ PhySound

(* The setting in the middle has the greatest margin.                        *)
LEMMA BestIs ==
  ASSUME NEW margin \in {100, 150}, NEW emphasis
  PROVE  BestSetting(margin, emphasis).margin = 150
<1> DEFINE Tops(d) == \A other \in Settings : MarginOf(other) <= MarginOf(d)
           db == CHOOSE d \in Settings : Tops(d)
<1>1. 0 \in Settings /\ MarginOf(0) = 150 /\ Tops(0)
  BY DEF Settings, MarginOf, Abs
<1>2. \A d \in Settings : Tops(d) => d = 0
  BY DEF Settings, MarginOf, Abs
<1>3. db = 0
  BY <1>1, <1>2
<1>4. BestSetting(margin, emphasis) =
        IF MarginOf(db) > margin THEN [margin |-> MarginOf(db), emphasis |-> Clamped(emphasis + db)]
        ELSE [margin |-> margin, emphasis |-> emphasis]
  BY DEF BestSetting
<1> HIDE DEF db
<1> QED BY <1>1, <1>3, <1>4

LEMMA SelfTestClean == ASSUME NEW taps, NEW n \in Nat PROVE ErrorsIn(taps, Generate(taps, DefaultSeed, n)) = 0
<1>1. PICK received : received = Pattern(taps, DefaultSeed, n)
  OBVIOUS
<1>2. Generate(taps, DefaultSeed, n) = received
  BY <1>1 DEF Generate, DefaultSeed
<1> DEFINE reg == CHOOSE f : f = [i \in 0 .. n |-> IF i = 0 THEN DefaultSeed ELSE Advance(f[i - 1], taps)]
<1>3. received = [i \in 1 .. n |-> 0 \in reg[i - 1]]
  BY <1>1, Zenon DEF Pattern
<1> HIDE DEF reg
<1>4. Len(received) = n
  BY <1>3
<1>5. {i \in DOMAIN received : received[i] # received[i]} = {}
  OBVIOUS
<1>6. ErrorsIn(taps, received) = Cardinality({i \in DOMAIN received : received[i] # received[i]})
  BY <1>1, <1>4 DEF ErrorsIn
<1> QED BY <1>2, <1>5, <1>6, FS_EmptySet

LEMMA PhyStarts == DieAssumption /\ DieInit => PhyInv
<1> SUFFICES ASSUME DieAssumption, DieInit PROVE PhyInv
  OBVIOUS
<1>1. PICK t \in Nat : phy = NewPhy(t)
  BY DEF DieInit, DieAssumption
<1>2. PICK lanes : lanes = [i \in 1 .. PhyLanes |-> [skew |-> 5 * (i - 1 - 8), eye |-> FALSE, deskewed |-> FALSE, margin |-> 100]]
  OBVIOUS
<1>3. phy = [lanes |-> lanes, tolerance |-> t, emphasis |-> 3, txTrained |-> FALSE, rxTrained |-> FALSE,
             bits |-> 0, errors |-> 0]
  BY <1>1, <1>2 DEF NewPhy
<1>4. lanes \in [1 .. PhyLanes -> PhyLane]
  BY <1>2 DEF PhyLane, DieAssumption
<1>5. training = {}
  BY DEF DieInit
<1>6. \A i \in 1 .. PhyLanes : lanes[i].deskewed = FALSE /\ lanes[i].margin = 100
  BY <1>2
<1> QED BY <1>3, <1>4, <1>5, <1>6 DEF PhyInv, PhySound

LEMMA LaneDeskewed ==
  ASSUME NEW l \in PhyLane, NEW x \in Int
  PROVE  LET m == [l EXCEPT !.deskewed = TRUE, !.skew = x]
         IN  m \in PhyLane /\ m.skew = x /\ m.eye = l.eye /\ m.margin = l.margin
<1>1. PICK m : m = [l EXCEPT !.deskewed = TRUE]
  OBVIOUS
<1>2. m \in PhyLane /\ m.eye = l.eye /\ m.margin = l.margin
  BY <1>1 DEF PhyLane
<1>3. [m EXCEPT !.skew = x] \in PhyLane /\ [m EXCEPT !.skew = x].skew = x
      /\ [m EXCEPT !.skew = x].eye = m.eye /\ [m EXCEPT !.skew = x].margin = m.margin
  BY <1>2 DEF PhyLane
<1> QED BY <1>1, <1>2, <1>3

LEMMA PhyKeeps ==
  ASSUME DieAssumption, PhyInv, [PhyNext]_phyVars
  PROVE  PhyInv'
<1>1. /\ DOMAIN phy = {"lanes", "tolerance", "emphasis", "txTrained", "rxTrained", "bits", "errors"}
      /\ phy.lanes \in [1 .. PhyLanes -> PhyLane] /\ phy.tolerance \in Nat
      /\ phy.txTrained \in BOOLEAN /\ phy.rxTrained \in BOOLEAN /\ PhySound
      /\ \A i \in 1 .. PhyLanes : 1 \in 1 .. PhyLanes
  BY DEF PhyInv, DieAssumption
<1>2. CASE UNCHANGED phyVars
  BY <1>2 DEF phyVars, PhyInv, PhySound, CdrLock
<1>3. ASSUME NEW db, TxConfig(db) PROVE PhyInv'
  <2>1. phy' = [phy EXCEPT !.emphasis = db] /\ UNCHANGED training
    BY <1>3 DEF TxConfig
  <2> QED BY <1>1, <2>1 DEF PhyInv, PhySound, CdrLock
<1>4. ASSUME NEW good \in SUBSET (1 .. PhyLanes), TrainingSequence(good) PROVE PhyInv'
  <2>1. PICK lanes : lanes = [i \in 1 .. PhyLanes |-> IF i \in good THEN [phy.lanes[i] EXCEPT !.eye = TRUE] ELSE phy.lanes[i]]
    OBVIOUS
  <2>2. PICK trained \in BOOLEAN : trained <=> good = 1 .. PhyLanes
    OBVIOUS
  <2>3. phy' = [phy EXCEPT !.lanes = lanes, !.txTrained = trained] /\ training' = good
    BY <1>4, <2>1, <2>2 DEF TrainingSequence
  <2>4. ASSUME NEW i \in 1 .. PhyLanes
        PROVE  /\ lanes[i] \in PhyLane /\ lanes[i].skew = phy.lanes[i].skew /\ lanes[i].margin = phy.lanes[i].margin
               /\ lanes[i].deskewed = phy.lanes[i].deskewed /\ (i \in good => lanes[i].eye = TRUE)
    <3>1. PICK l \in PhyLane : l = phy.lanes[i]
      BY <1>1
    <3>2. lanes[i] = IF i \in good THEN [l EXCEPT !.eye = TRUE] ELSE l
      BY <2>1, <3>1
    <3>3. [l EXCEPT !.eye = TRUE] \in PhyLane
      BY DEF PhyLane
    <3> QED BY <3>1, <3>2, <3>3 DEF PhyLane
  <2>5. lanes \in [1 .. PhyLanes -> PhyLane]
    BY <2>1, <2>4
  <2>6. phy'.lanes = lanes /\ phy'.txTrained = trained /\ phy'.rxTrained = phy.rxTrained
        /\ phy'.tolerance = phy.tolerance /\ phy'.errors = phy.errors /\ DOMAIN phy' = DOMAIN phy
    BY <1>1, <2>3
  <2>7. \A i \in 1 .. PhyLanes : lanes[i].deskewed => Abs(lanes[i].skew - lanes[1].skew) <= phy.tolerance
    BY <1>1, <2>4 DEF PhySound
  <2>8. (phy.txTrained => training = 1 .. PhyLanes /\ CdrLock)'
    BY <2>2, <2>3, <2>4, <2>6 DEF CdrLock
  <2>9. PhySound'
    <3>1. \A i \in 1 .. PhyLanes : phy'.rxTrained <=> phy'.lanes[i].margin = 150
      <4> TAKE i \in 1 .. PhyLanes
      <4>1. PICK m : m = phy.lanes[i].margin
        OBVIOUS
      <4>2. PICK r \in BOOLEAN : r = phy.rxTrained
        BY <1>1
      <4>3. phy.rxTrained <=> phy.lanes[i].margin = 150
        BY <1>1, Zenon DEF PhySound
      <4>4. r <=> m = 150
        BY <4>1, <4>2, <4>3, Zenon
      <4>5. phy'.lanes[i].margin = m
        BY <2>4, <2>6, <4>1, Zenon
      <4>6. phy'.rxTrained = r
        BY <2>6, <4>2, Zenon
      <4>7. phy'.lanes[i].margin = 150 <=> m = 150
        BY <4>5, Zenon
      <4>8. phy'.rxTrained <=> r
        BY <4>6
      <4> QED BY <4>4, <4>7, <4>8, Zenon
    <3>2. training' \subseteq {i \in 1 .. PhyLanes : phy'.lanes[i].eye}
      BY <2>3, <2>4, <2>6
    <3> QED BY <1>1, <2>6, <2>7, <2>8, <3>1, <3>2 DEF PhySound
  <2> QED BY <1>1, <2>5, <2>6, <2>9 DEF PhyInv
<1>5. CASE DeskewLanes
  <2>1. PICK lanes : lanes = Deskewed(phy.lanes, phy.tolerance)
    OBVIOUS
  <2>2. phy' = [phy EXCEPT !.lanes = lanes] /\ training' = training
    BY <1>5, <2>1 DEF DeskewLanes
  <2>3. ASSUME NEW i \in 1 .. PhyLanes
        PROVE  /\ lanes[i] \in PhyLane /\ lanes[i].eye = phy.lanes[i].eye /\ lanes[i].margin = phy.lanes[i].margin
               /\ lanes[1].skew = phy.lanes[1].skew
               /\ Abs(lanes[i].skew - lanes[1].skew) <= phy.tolerance
    <3>1. PICK l \in PhyLane, h \in PhyLane : l = phy.lanes[i] /\ h = phy.lanes[1]
      BY <1>1
    <3>2. PICK t \in Nat : t = phy.tolerance
      BY <1>1
    <3>3. PICK x \in Int : x = Near(l.skew, h.skew, t) /\ x - h.skew <= t /\ h.skew - x <= t
      BY DEF Near, PhyLane
    <3>4. lanes[i] = [l EXCEPT !.deskewed = TRUE, !.skew = x]
      BY <1>1, <2>1, <3>1, <3>2, <3>3 DEF Deskewed
    <3>5. Near(h.skew, h.skew, t) = h.skew /\ h.skew \in Int
      BY DEF Near, PhyLane
    <3>6. lanes[1] = [h EXCEPT !.deskewed = TRUE, !.skew = h.skew]
      BY <1>1, <2>1, <3>1, <3>2, <3>5 DEF Deskewed
    <3>7. lanes[i] \in PhyLane /\ lanes[i].skew = x /\ lanes[i].eye = l.eye /\ lanes[i].margin = l.margin
      <4>1. LET m == [l EXCEPT !.deskewed = TRUE, !.skew = x]
            IN  m \in PhyLane /\ m.skew = x /\ m.eye = l.eye /\ m.margin = l.margin
        BY LaneDeskewed, Zenon
      <4> QED BY <3>4, <4>1, Zenon
    <3>8. lanes[1].skew = h.skew
      <4>1. PICK y \in Int : y = h.skew
        BY <3>5
      <4>2. LET m == [h EXCEPT !.deskewed = TRUE, !.skew = y]
            IN  m \in PhyLane /\ m.skew = y /\ m.eye = h.eye /\ m.margin = h.margin
        BY LaneDeskewed, Zenon
      <4> QED BY <3>6, <4>1, <4>2, Zenon
    <3> QED BY <3>1, <3>2, <3>3, <3>5, <3>7, <3>8 DEF Abs
  <2>4. lanes \in [1 .. PhyLanes -> PhyLane]
    BY <1>1, <2>1, <2>3 DEF Deskewed
  <2>5. phy'.lanes = lanes /\ phy'.txTrained = phy.txTrained /\ phy'.rxTrained = phy.rxTrained
        /\ phy'.tolerance = phy.tolerance /\ phy'.errors = phy.errors /\ DOMAIN phy' = DOMAIN phy
    BY <1>1, <2>2
  <2>6. (phy.txTrained => training = 1 .. PhyLanes /\ CdrLock)'
    BY <1>1, <2>2, <2>3, <2>5 DEF CdrLock, PhySound
  <2>7. PhySound'
    BY <1>1, <2>2, <2>3, <2>5, <2>6 DEF PhySound
  <2> QED BY <1>1, <2>4, <2>5, <2>7 DEF PhyInv
<1>6. CASE EqualizationTrain
  <2>1. PICK left, lanes :
          /\ lanes = [i \in 1 .. PhyLanes |-> [phy.lanes[i] EXCEPT !.margin = BestSetting(@, left[i - 1]).margin]]
          /\ phy' = [phy EXCEPT !.lanes = lanes, !.emphasis = left[PhyLanes], !.rxTrained = TRUE]
          /\ training' = training
    BY <1>6 DEF EqualizationTrain
  <2>2. ASSUME NEW i \in 1 .. PhyLanes
        PROVE  /\ lanes[i] \in PhyLane /\ lanes[i].margin = 150 /\ lanes[i].skew = phy.lanes[i].skew
               /\ lanes[i].eye = phy.lanes[i].eye /\ lanes[i].deskewed = phy.lanes[i].deskewed
    <3>1. PICK l \in PhyLane : l = phy.lanes[i]
      BY <1>1
    <3>2. l.margin \in {100, 150}
      BY DEF PhyLane
    <3>3. PICK e : e = left[i - 1]
      OBVIOUS
    <3>4. BestSetting(l.margin, e).margin = 150
      BY <3>2, BestIs
    <3>5. lanes[i] = [l EXCEPT !.margin = 150]
      BY <2>1, <3>1, <3>3, <3>4
    <3> QED BY <3>1, <3>5 DEF PhyLane
  <2>3. lanes \in [1 .. PhyLanes -> PhyLane]
    BY <2>1, <2>2
  <2>4. phy'.lanes = lanes /\ phy'.txTrained = phy.txTrained /\ phy'.rxTrained = TRUE
        /\ phy'.tolerance = phy.tolerance /\ phy'.errors = phy.errors /\ DOMAIN phy' = DOMAIN phy
    BY <1>1, <2>1
  <2>5. \A i \in 1 .. PhyLanes : lanes[i].deskewed => Abs(lanes[i].skew - lanes[1].skew) <= phy.tolerance
    BY <1>1, <2>2 DEF PhySound
  <2>6. (phy.txTrained => training = 1 .. PhyLanes /\ CdrLock)'
    BY <1>1, <2>1, <2>2, <2>4 DEF CdrLock, PhySound
  <2>7. PhySound'
    <3>1. \A i \in 1 .. PhyLanes : phy'.rxTrained <=> phy'.lanes[i].margin = 150
      <4>1. \A i \in 1 .. PhyLanes : lanes[i].margin = 150
        BY <2>2
      <4>2. phy'.lanes = lanes /\ phy'.rxTrained
        BY <2>4
      <4>3. \A i \in 1 .. PhyLanes : phy'.lanes[i].margin = 150
        BY <4>1, <4>2
      <4> QED BY <4>2, <4>3
    <3>2. training' \subseteq {i \in 1 .. PhyLanes : phy'.lanes[i].eye}
      <4>1. training \subseteq {i \in 1 .. PhyLanes : phy.lanes[i].eye}
        BY <1>1 DEF PhySound
      <4> QED BY <4>1, <2>1, <2>2, <2>4
    <3>3. phy'.errors = 0
      BY <1>1, <2>4 DEF PhySound
    <3>4. \A i \in 1 .. PhyLanes : phy'.lanes[i].deskewed => Abs(phy'.lanes[i].skew - phy'.lanes[1].skew) <= phy'.tolerance
      BY <2>4, <2>5, Zenon
    <3> QED BY <2>6, <3>1, <3>2, <3>3, <3>4, Zenon DEF PhySound
  <2> QED BY <1>1, <2>3, <2>4, <2>7 DEF PhyInv
<1>7. ASSUME NEW tap, NEW bits \in {8, 24}, SelfTest({tap}, bits) PROVE PhyInv'
  <2>1. PICK n \in Nat : n = bits \div 8 + 1
    OBVIOUS
  <2>2. PICK b : phy' = [phy EXCEPT !.errors = ErrorsIn({tap}, Generate({tap}, DefaultSeed, n)), !.bits = b]
    BY <1>7, <2>1 DEF SelfTest
  <2>3. phy' = [phy EXCEPT !.errors = 0, !.bits = b] /\ training' = training
    BY <1>7, <2>2, SelfTestClean DEF SelfTest
  <2> QED BY <1>1, <2>3 DEF PhyInv, PhySound, CdrLock
<1> QED BY <1>2, <1>3, <1>4, <1>5, <1>6, <1>7 DEF PhyNext

(* Where the checksum tells a spoilt payload from the right one, a flit that *)
(* was disturbed is never handed over, all that arrive are counted once, a   *)
(* link whose outer lanes are too skewed never gets active, and the flags of *)
(* the physical layer say what its lanes are.                                *)
THEOREM LinkIsSound == DieAssumption /\ CrcDetects => (DieSpec => []LinkSound)
<1> SUFFICES ASSUME DieAssumption, CrcDetects PROVE DieSpec => []LinkSound
  OBVIOUS
<1>1. DieInit => LinkInv /\ PhyInv
  BY LinkStarts, PhyStarts
<1>2. LinkInv /\ [LinkNext]_linkVars => LinkInv'
  BY LinkKeeps
<1>3. PhyInv /\ [PhyNext]_phyVars => PhyInv'
  BY PhyKeeps
<1>4. LinkInv /\ PhyInv => LinkSound
  BY DEF LinkInv, PhyInv, LinkSound
<1> QED BY <1>1, <1>2, <1>3, <1>4, PTL DEF DieSpec

-----------------------------------------------------------------------------
(* A set of numbers that is not empty has a least one.                       *)
LEMMA LeastElement ==
  ASSUME NEW T \in SUBSET Nat, T # {}
  PROVE  \E m \in T : \A k \in T : m <= k
<1> DEFINE R == {ss \in Nat \X Nat : ss[1] < ss[2]}
<1>1. IsWellFoundedOn(R, Nat)
  BY NatLessThanWellFounded DEF OpToRel
<1> HIDE DEF R
<1>2. PICK m \in T : \A k \in T : ~ (<<k, m>> \in R)
  BY <1>1, WFMin
<1>3. ASSUME NEW k \in T PROVE m <= k
  <2>1. ~ (<<k, m>> \in R)
    BY <1>2
  <2>2. k \in Nat /\ m \in Nat
    OBVIOUS
  <2> QED BY <2>1, <2>2 DEF R
<1> QED BY <1>3

(* What holds of 0 and of every successor holds of every number.             *)
LEMMA Climb ==
  ASSUME NEW T \in SUBSET Nat, 0 \in T, \A n \in T : n + 1 \in T
  PROVE  \A n \in Nat : n \in T
<1> SUFFICES ASSUME Nat \ T # {} PROVE FALSE
  OBVIOUS
<1>1. PICK m \in Nat \ T : \A k \in Nat \ T : m <= k
  BY LeastElement
<1>2. m # 0 /\ m - 1 \in Nat
  BY <1>1
<1>3. m - 1 \in T
  BY <1>1, <1>2
<1>4. (m - 1) + 1 \in T
  BY <1>3
<1> QED BY <1>1, <1>4

-----------------------------------------------------------------------------
(* Before adds one number at a time: sums f up to c of count.                *)
Tallied(f, n, count) == IF n = 0 THEN 0 ELSE f[n - 1] + count[n - 1]
Tallies(f, c, count) == f = [n \in 0 .. c |-> Tallied(f, n, count)]
AddsUp(f, c, count) == f[0] = 0 /\ \A n \in 1 .. c : f[n] = f[n - 1] + count[n - 1]

LEMMA TalliesExist ==
  ASSUME NEW count
  PROVE  \A c \in Nat : \E f : Tallies(f, c, count)
<1> DEFINE T == {c \in Nat : \E f : Tallies(f, c, count)}
<1>1. 0 \in T
  <2> DEFINE f == [n \in 0 .. 0 |-> 0]
  <2>1. Tallies(f, 0, count)
    BY DEF Tallied, Tallies
  <2> QED BY <2>1
<1>2. ASSUME NEW c \in T PROVE c + 1 \in T
  <2>1. PICK g : Tallies(g, c, count)
    OBVIOUS
  <2>2. c \in Nat
    OBVIOUS
  <2> DEFINE f == [n \in 0 .. c + 1 |-> IF n = c + 1 THEN Tallied(g, c + 1, count) ELSE g[n]]
  <2>3. \A n \in 0 .. c : g[n] = Tallied(g, n, count)
    BY <2>1, Zenon DEF Tallies
  <2>4. ASSUME NEW n \in 0 .. c + 1 PROVE f[n] = Tallied(f, n, count)
    <3>1. f[n] = Tallied(g, n, count)
      <4>1. CASE n = c + 1
        BY <4>1
      <4>2. CASE n # c + 1
        <5>1. n \in 0 .. c
          BY <2>2, <4>2
        <5> QED BY <2>3, <4>2, <5>1
      <4> QED BY <4>1, <4>2
    <3>2. CASE n = 0
      BY <3>1, <3>2 DEF Tallied
    <3>3. CASE n # 0
      <4>1. n - 1 \in 0 .. c + 1 /\ n - 1 # c + 1
        BY <2>2, <3>3
      <4>2. f[n - 1] = g[n - 1]
        BY <4>1
      <4> QED BY <3>1, <3>3, <4>2 DEF Tallied
    <3> QED BY <3>2, <3>3
  <2>5. Tallies(f, c + 1, count)
    BY <2>4 DEF Tallies
  <2>6. \E h : Tallies(h, c + 1, count)
    BY <2>5
  <2> QED BY <2>2, <2>6
<1> HIDE DEF T
<1>3. \A c \in Nat : c \in T
  <2>1. T \in SUBSET Nat
    BY DEF T
  <2> QED BY <1>1, <1>2, <2>1, Climb
<1> QED BY <1>3 DEF T

LEMMA BeforeUnfolds ==
  ASSUME NEW count, NEW c \in Nat
  PROVE  \E f : Before(count, c) = f[c] /\ AddsUp(f, c, count)
<1> DEFINE g == CHOOSE h : Tallies(h, c, count)
<1>1. \E h : Tallies(h, c, count)
  BY TalliesExist
<1>2. g = [n \in 0 .. c |-> Tallied(g, n, count)]
  BY <1>1, Zenon DEF Tallies
<1>3. Before(count, c) = g[c]
  BY Zenon DEF Before, Tallied, Tallies
<1> HIDE DEF g
<1>4. \A n \in 0 .. c : g[n] = Tallied(g, n, count)
  BY <1>2, Zenon
<1>5. g[0] = 0
  BY <1>4 DEF Tallied
<1>6. ASSUME NEW n \in 1 .. c PROVE g[n] = g[n - 1] + count[n - 1]
  <2>1. n \in 0 .. c /\ n # 0
    OBVIOUS
  <2> QED BY <1>4, <2>1 DEF Tallied
<1> QED BY <1>3, <1>5, <1>6 DEF AddsUp

LEMMA TalliesAgree ==
  ASSUME NEW count, NEW f, NEW g, NEW c \in Nat, NEW d \in Nat, d <= c, AddsUp(f, c, count), AddsUp(g, d, count)
  PROVE  \A k \in 0 .. d : f[k] = g[k]
<1> DEFINE T == {k \in Nat : k <= d => f[k] = g[k]}
<1>1. 0 \in T
  BY DEF AddsUp
<1>2. ASSUME NEW k \in T PROVE k + 1 \in T
  <2> SUFFICES ASSUME k + 1 <= d PROVE f[k + 1] = g[k + 1]
    OBVIOUS
  <2>1. k + 1 \in 1 .. d /\ k + 1 \in 1 .. c /\ (k + 1) - 1 = k
    OBVIOUS
  <2>2. f[k] = g[k]
    OBVIOUS
  <2>3. f[k + 1] = f[k] + count[k]
    BY <2>1 DEF AddsUp
  <2>4. g[k + 1] = g[k] + count[k]
    BY <2>1 DEF AddsUp
  <2> QED BY <2>2, <2>3, <2>4
<1> HIDE DEF T
<1>3. \A k \in Nat : k \in T
  <2>1. T \in SUBSET Nat
    BY DEF T
  <2> QED BY <1>1, <1>2, <2>1, Climb
<1> QED BY <1>3 DEF T

LEMMA BeforeNext ==
  ASSUME NEW count, NEW c \in Nat
  PROVE  Before(count, 0) = 0 /\ Before(count, c + 1) = Before(count, c) + count[c]
<1>1. Before(count, 0) = 0
  BY BeforeUnfolds DEF AddsUp
<1>2. PICK f : Before(count, c + 1) = f[c + 1] /\ AddsUp(f, c + 1, count)
  BY BeforeUnfolds
<1>3. PICK g : Before(count, c) = g[c] /\ AddsUp(g, c, count)
  BY BeforeUnfolds
<1>4. f[c] = g[c]
  <2>1. c + 1 \in Nat /\ c <= c + 1 /\ c \in 0 .. c
    OBVIOUS
  <2>2. \A k \in 0 .. c : f[k] = g[k]
    BY <1>2, <1>3, <2>1, TalliesAgree
  <2> QED BY <2>1, <2>2
<1>5. f[c + 1] = f[c] + count[c]
  <2>1. c + 1 \in 1 .. c + 1 /\ (c + 1) - 1 = c
    OBVIOUS
  <2> QED BY <1>2, <2>1 DEF AddsUp
<1> QED BY <1>1, <1>2, <1>3, <1>4, <1>5

(* Where nothing is less than none, the sums only grow.                      *)
LEMMA BeforeGrows ==
  ASSUME NEW n \in Nat, NEW count, \A c \in 0 .. n - 1 : count[c] \in Nat
  PROVE  \A d \in 0 .. n : \A c \in 0 .. d : Before(count, c) \in Nat /\ Before(count, c) <= Before(count, d)
<1> DEFINE Grown(d) == \A c \in 0 .. d : Before(count, c) \in Nat /\ Before(count, c) <= Before(count, d)
           T == {d \in Nat : d <= n => Grown(d)}
<1>1. 0 \in T
  <2>1. Before(count, 0) = 0
    BY BeforeNext
  <2>2. \A c \in 0 .. 0 : c = 0
    OBVIOUS
  <2> QED BY <2>1, <2>2
<1>2. ASSUME NEW d \in T PROVE d + 1 \in T
  <2> SUFFICES ASSUME d + 1 <= n PROVE Grown(d + 1)
    OBVIOUS
  <2>1. Grown(d) /\ d \in Nat /\ d \in 0 .. n - 1
    OBVIOUS
  <2>2. Before(count, d + 1) = Before(count, d) + count[d] /\ count[d] \in Nat
    BY <2>1, BeforeNext
  <2>3. Before(count, d) \in Nat
    BY <2>1
  <2>4. Before(count, d + 1) \in Nat /\ Before(count, d) <= Before(count, d + 1)
    BY <2>2, <2>3
  <2>5. ASSUME NEW c \in 0 .. d + 1 PROVE Before(count, c) \in Nat /\ Before(count, c) <= Before(count, d + 1)
    <3>1. CASE c = d + 1
      BY <2>4, <3>1
    <3>2. CASE c # d + 1
      <4>1. c \in 0 .. d
        BY <2>1, <3>2
      <4>2. Before(count, c) \in Nat /\ Before(count, c) <= Before(count, d)
        BY <2>1, <4>1
      <4> QED BY <2>3, <2>4, <4>2
    <3> QED BY <3>1, <3>2
  <2> QED BY <2>5
<1> HIDE DEF T
<1>3. \A d \in Nat : d \in T
  <2>1. T \in SUBSET Nat
    BY DEF T
  <2> QED BY <1>1, <1>2, <2>1, Climb
<1> QED BY <1>3 DEF T

(* What the first is given beyond its own counts once.                       *)
LEMMA BeforeRaised ==
  ASSUME NEW n \in Nat, NEW more \in Nat, NEW count, NEW raised, \A c \in 0 .. n : count[c] \in Nat,
         raised[0] = count[0] + more, \A c \in 1 .. n : raised[c] = count[c]
  PROVE  Before(raised, n + 1) = Before(count, n + 1) + more
<1> DEFINE T == {d \in Nat : d <= n => Before(raised, d + 1) = Before(count, d + 1) + more}
<1>0. \A d \in 0 .. n + 1 : Before(count, d) \in Nat
  <2>1. n + 1 \in Nat /\ (n + 1) - 1 = n
    OBVIOUS
  <2>2. \A c \in 0 .. (n + 1) - 1 : count[c] \in Nat
    BY <2>1
  <2>3. \A d \in 0 .. n + 1 : \A c \in 0 .. d : Before(count, c) \in Nat /\ Before(count, c) <= Before(count, d)
    BY <2>1, <2>2, BeforeGrows
  <2> QED BY <2>3
<1>1. 0 \in T
  <2>1. Before(raised, 0) = 0 /\ Before(raised, 0 + 1) = Before(raised, 0) + raised[0]
    BY BeforeNext
  <2>2. Before(count, 0) = 0 /\ Before(count, 0 + 1) = Before(count, 0) + count[0]
    BY BeforeNext
  <2>3. count[0] \in Nat
    OBVIOUS
  <2> QED BY <2>1, <2>2, <2>3
<1>2. ASSUME NEW d \in T PROVE d + 1 \in T
  <2> SUFFICES ASSUME d + 1 <= n PROVE Before(raised, (d + 1) + 1) = Before(count, (d + 1) + 1) + more
    OBVIOUS
  <2>1. Before(raised, d + 1) = Before(count, d + 1) + more /\ d + 1 \in Nat /\ d + 1 \in 1 .. n
    OBVIOUS
  <2>2. Before(raised, (d + 1) + 1) = Before(raised, d + 1) + raised[d + 1]
    BY <2>1, BeforeNext
  <2>3. Before(count, (d + 1) + 1) = Before(count, d + 1) + count[d + 1]
    BY <2>1, BeforeNext
  <2>4. raised[d + 1] = count[d + 1] /\ count[d + 1] \in Nat /\ Before(count, d + 1) \in Nat
    BY <1>0, <2>1
  <2> QED BY <2>1, <2>2, <2>3, <2>4
<1> HIDE DEF T
<1>3. \A d \in Nat : d \in T
  <2>1. T \in SUBSET Nat
    BY DEF T
  <2> QED BY <1>1, <1>2, <2>1, Climb
<1> QED BY <1>3 DEF T

(* The channels of the classes: everyone has some, and there are enough.     *)
LEMMA PortionsGiven ==
  ASSUME QosAssumption, NEW w \in [Classes -> Nat \ {0}], NEW numVcs \in Nat
  PROVE  Portion(w, numVcs) \in [Classes -> Nat \ {0}]
<1>1. PICK n \in Nat \ {0} : n = NumClasses /\ Classes = 0 .. n - 1
  BY DEF QosAssumption
<1>2. \A c \in 0 .. n - 1 : w[c] \in Nat
  BY <1>1
<1>3. Before(w, 0) = 0 /\ Before(w, 0 + 1) = Before(w, 0) + w[0]
  BY BeforeNext
<1>4. \A d \in 0 .. n : \A c \in 0 .. d : Before(w, c) \in Nat /\ Before(w, c) <= Before(w, d)
  BY <1>2, BeforeGrows
<1>5. Before(w, 1) \in Nat \ {0}
  BY <1>1, <1>3
<1>6. 1 \in 0 .. n /\ n \in 0 .. n
  OBVIOUS
<1>7. PICK total \in Nat \ {0} : total = Before(w, NumClasses)
  <2>1. Before(w, n) \in Nat /\ Before(w, 1) <= Before(w, n)
    BY <1>4, <1>6
  <2> QED BY <2>1, <1>1, <1>5
<1>8. ASSUME NEW c \in Classes PROVE Portion(w, numVcs)[c] \in Nat \ {0}
  <2>1. PICK x \in Nat \ {0} : x = w[c]
    OBVIOUS
  <2>2. PICK y \in Nat : y = numVcs * x
    OBVIOUS
  <2>3. y \div total \in Nat
    OBVIOUS
  <2>4. Portion(w, numVcs)[c] = IF y \div total < 1 THEN 1 ELSE y \div total
    BY <1>7, <2>1, <2>2 DEF Portion
  <2> QED BY <2>3, <2>4
<1>9. DOMAIN Portion(w, numVcs) = Classes /\ Portion(w, numVcs) = [c \in Classes |-> Portion(w, numVcs)[c]]
  BY DEF Portion
<1> QED BY <1>8, <1>9

LEMMA SharesGiven ==
  ASSUME QosAssumption, NEW w \in [Classes -> Nat \ {0}], NEW numVcs \in Nat,
         NEW count, count = Share(w, numVcs)
  PROVE  /\ \A c \in Classes : count[c] \in Nat \ {0}
         /\ Before(count, NumClasses) \in Nat /\ numVcs <= Before(count, NumClasses)
<1>1. PICK n \in Nat \ {0} : n = NumClasses /\ Classes = 0 .. n - 1
  BY DEF QosAssumption
<1>2. PICK p \in [Classes -> Nat \ {0}] : p = Portion(w, numVcs)
  BY PortionsGiven
<1>3. \A c \in 0 .. n - 1 : p[c] \in Nat
  BY <1>1
<1>4. PICK given \in Nat : given = Before(p, n)
  <2>1. \A d \in 0 .. n : \A c \in 0 .. d : Before(p, c) \in Nat /\ Before(p, c) <= Before(p, d)
    BY <1>3, BeforeGrows
  <2>2. n \in 0 .. n
    OBVIOUS
  <2> QED BY <2>1, <2>2
<1>5. PICK more \in Nat : more = (IF given < numVcs THEN numVcs - given ELSE 0)
  OBVIOUS
<1>6. \A c \in Classes : count[c] = p[c] + (IF c = 0 THEN more ELSE 0)
  BY <1>1, <1>2, <1>4, <1>5 DEF Share
<1>7. \A c \in Classes : count[c] \in Nat \ {0}
  <2> TAKE c \in Classes
  <2>1. p[c] \in Nat \ {0}
    OBVIOUS
  <2> QED BY <1>6, <2>1
<1>8. Before(count, n) = given + more
  <2>1. PICK m \in Nat : n = m + 1 /\ m = n - 1
    OBVIOUS
  <2>2. \A c \in 0 .. m : p[c] \in Nat
    BY <1>3, <2>1
  <2>3. count[0] = p[0] + more /\ \A c \in 1 .. m : count[c] = p[c]
    <3>1. 0 \in Classes
      BY <1>1
    <3>2. ASSUME NEW c \in 1 .. m PROVE count[c] = p[c]
      <4>1. c \in Classes /\ c # 0 /\ p[c] \in Nat
        BY <1>1, <2>1
      <4> QED BY <4>1, <1>6
    <3> QED BY <1>6, <3>1, <3>2
  <2>4. Before(count, m + 1) = Before(p, m + 1) + more
    BY <2>2, <2>3, BeforeRaised
  <2> QED BY <1>4, <2>1, <2>4
<1> QED BY <1>1, <1>5, <1>7, <1>8

(* Intervals laid end to end are disjoint.                                   *)
LEMMA SharesApart ==
  ASSUME QosAssumption, NEW count, \A c \in Classes : count[c] \in Nat \ {0},
         Before(count, NumClasses) <= MaxVc
  PROVE  /\ \A c \in Classes : Admit(count, c) <=> VcsOf(count, c) # {}
         /\ \A c, d \in Classes : c # d => VcsOf(count, c) \cap VcsOf(count, d) = {}
<1>1. PICK n \in Nat \ {0} : n = NumClasses /\ Classes = 0 .. n - 1
  BY DEF QosAssumption
<1>2. \A d \in 0 .. n : \A c \in 0 .. d : Before(count, c) \in Nat /\ Before(count, c) <= Before(count, d)
  <2>1. \A c \in 0 .. n - 1 : count[c] \in Nat
    BY <1>1
  <2> QED BY <2>1, BeforeGrows
<1>3. MaxVc \in Nat
  BY DEF QosAssumption
<1>4. ASSUME NEW c \in Classes
      PROVE  /\ c \in Nat /\ c + 1 \in 0 .. n /\ Before(count, c) \in Nat /\ Before(count, c + 1) \in Nat
             /\ Before(count, c + 1) = Before(count, c) + count[c] /\ Before(count, c + 1) <= MaxVc
  <2>1. c \in Nat /\ c + 1 \in 0 .. n /\ c \in 0 .. c + 1 /\ n \in 0 .. n /\ c + 1 \in 0 .. c + 1
    BY <1>1
  <2>2. Before(count, c) \in Nat /\ Before(count, c + 1) \in Nat
    BY <1>2, <2>1
  <2>3. Before(count, n) \in Nat /\ Before(count, c + 1) <= Before(count, n)
    BY <1>2, <2>1
  <2>4. Before(count, c + 1) = Before(count, c) + count[c]
    BY <2>1, BeforeNext
  <2> QED BY <1>1, <1>3, <2>1, <2>2, <2>3, <2>4
<1>5. ASSUME NEW c \in Classes PROVE Admit(count, c) /\ VcsOf(count, c) # {}
  <2>1. count[c] \in Nat \ {0} /\ Before(count, c) \in Nat /\ Before(count, c) + count[c] <= MaxVc
    BY <1>4
  <2>2. Before(count, c) \in 0 .. MaxVc - 1
    BY <1>3, <2>1
  <2>3. Before(count, c) \in VcsOf(count, c)
    BY <2>1, <2>2 DEF VcsOf
  <2> QED BY <2>1, <2>3 DEF Admit
<1>6. ASSUME NEW c \in Classes, NEW d \in Classes, c < d PROVE VcsOf(count, c) \cap VcsOf(count, d) = {}
  <2>1. d \in 0 .. n /\ c + 1 \in 0 .. d
    BY <1>1, <1>6
  <2>2. Before(count, c) + count[c] <= Before(count, d)
    BY <1>2, <1>4, <2>1
  <2>3. ASSUME NEW v \in VcsOf(count, c), v \in VcsOf(count, d) PROVE FALSE
    <3>1. v \in Int /\ v < Before(count, c) + count[c] /\ Before(count, d) <= v
      BY <2>3 DEF VcsOf
    <3>2. Before(count, c) \in Nat /\ Before(count, d) \in Nat /\ count[c] \in Nat
      BY <1>4
    <3> QED BY <2>2, <3>1, <3>2
  <2> QED BY <2>3
<1>7. ASSUME NEW c \in Classes, NEW d \in Classes, c # d PROVE VcsOf(count, c) \cap VcsOf(count, d) = {}
  <2>1. c < d \/ d < c
    BY <1>4, <1>7
  <2>2. CASE c < d
    BY <1>6, <2>2
  <2>3. CASE d < c
    BY <1>6, <2>3
  <2> QED BY <2>1, <2>2, <2>3
<1> QED BY <1>5, <1>7

(* The shares are those of the weights, from Configure on.                   *)
SharesInv ==
  /\ weights \in [Classes -> Nat \ {0}]
  /\ shares.vcs \in Nat /\ (shares.vcs > 0 => shares.count = Share(weights, shares.vcs))

LEMMA SharesStart == QosAssumption /\ InitQos => SharesInv
BY DEF InitQos, SharesInv, QosAssumption

LEMMA SharesKept == QosAssumption /\ SharesInv /\ [QosStep]_qosVars => SharesInv'
<1> SUFFICES ASSUME QosAssumption, SharesInv, [QosStep]_qosVars PROVE SharesInv'
  OBVIOUS
<1>1. ASSUME NEW numVcs \in NumClasses .. MaxVc, Configure(numVcs) PROVE SharesInv'
  <2>1. numVcs \in Nat
    BY DEF QosAssumption
  <2>2. shares' = [vcs |-> numVcs, count |-> Share(weights, numVcs)] /\ weights' = weights
    BY <1>1 DEF Configure
  <2>3. shares'.vcs = numVcs /\ shares'.count = Share(weights, numVcs)
    BY <2>2
  <2> QED BY <2>1, <2>2, <2>3 DEF SharesInv
<1>2. CASE (weights' = weights) /\ (shares' = shares)
  BY <1>2 DEF SharesInv
<1>3. (weights' = weights /\ shares' = shares) \/ \E numVcs \in NumClasses .. MaxVc : Configure(numVcs)
  BY DEF QosStep, qosVars, Allow, Refill, Select
<1> QED BY <1>1, <1>2, <1>3

LEMMA SharesImplied == QosAssumption /\ SharesInv => SharesHeld
<1> SUFFICES ASSUME QosAssumption, SharesInv, shares.vcs > 0, Before(shares.count, NumClasses) <= MaxVc
             PROVE  SharesHeld
  BY DEF SharesHeld
<1>1. PICK count : count = shares.count
  OBVIOUS
<1>2. /\ \A c \in Classes : count[c] \in Nat \ {0}
      /\ Before(count, NumClasses) \in Nat /\ shares.vcs <= Before(count, NumClasses)
  BY <1>1, SharesGiven DEF SharesInv
<1>3. /\ \A c \in Classes : Admit(count, c) <=> VcsOf(count, c) # {}
      /\ \A c, d \in Classes : c # d => VcsOf(count, c) \cap VcsOf(count, d) = {}
  BY <1>1, <1>2, SharesApart
<1>4. Before(count, NumClasses) >= shares.vcs
  BY <1>2 DEF SharesInv
<1> QED BY <1>1, <1>3, <1>4 DEF SharesHeld

(* For every number of classes, all positive weights, every sequence of      *)
(* requests and every number of channels: a class that keeps asking is       *)
(* passed over less often than there are classes, times the visits that make *)
(* up a quantum; for every rate and burst, what the limiter lets through is  *)
(* covered; and every class has channels of its own.                         *)
THEOREM QosIsSound == QosAssumption => (QosSpec => []QosSound)
<1> SUFFICES ASSUME QosAssumption PROVE QosSpec => []QosSound
  OBVIOUS
<1>1. InitQos => ArbiterInv /\ LimiterInv /\ SharesInv
  BY QosStart, SharesStart
<1>2. ArbiterInv /\ LimiterInv /\ SharesInv /\ [QosStep]_qosVars => ArbiterInv' /\ LimiterInv' /\ SharesInv'
  BY QosKeeps, SharesKept
<1>3. ArbiterInv /\ LimiterInv /\ SharesInv => QosSound
  BY QosInvImplies, SharesImplied DEF QosSound
<1> QED BY <1>1, <1>2, <1>3, PTL DEF QosSpec

-----------------------------------------------------------------------------
(* Modules of dies.                                                          *)
Macro == [die : Int, macro : Int, width : Int]

(* A module: macros by their place, routes by their two ends.                *)
Place == Nat \X Nat
PlacesIn(D) == UNION {{<<d, p>> : p \in DOMAIN D[d]} : d \in DOMAIN D}
Side(r, x) == r[(x + 1) \div 2][IF x % 2 = 1 THEN 1 ELSE 2]
OnceIn(r, m) == \E x \in 1 .. 2 * Len(r) : Side(r, x) = m /\ \A y \in 1 .. 2 * Len(r) : Side(r, y) = m => y = x
PointsIn(D, m, to) == D[m[1]][m[2]].die = to[1] /\ D[m[1]][m[2]].macro = to[2]
EndIn(r, m) == \E i \in 1 .. Len(r) : r[i][1] = m \/ r[i][2] = m

(* Macros are connected exactly when they are ends of routes, and two that   *)
(* are ends of one route only point at each other.                           *)
PairedIn(D, r) ==
  \A i \in 1 .. Len(r) :
    OnceIn(r, r[i][1]) /\ OnceIn(r, r[i][2]) => PointsIn(D, r[i][1], r[i][2]) /\ PointsIn(D, r[i][2], r[i][1])
JoinedIn(D, r) ==
  /\ D \in Seq(Seq(Macro)) /\ r \in Seq(Place \X Place)
  /\ \A i \in 1 .. Len(r) : r[i][1] \in PlacesIn(D) /\ r[i][2] \in PlacesIn(D)
  /\ \A m \in PlacesIn(D) : D[m[1]][m[2]].die # None <=> EndIn(r, m)
  /\ PairedIn(D, r)

LEMMA DiesAt ==
  ASSUME NEW s \in Seq(Seq(Macro))
  PROVE  /\ Len(s) \in Nat /\ DOMAIN s = 1 .. Len(s)
         /\ \A x \in DOMAIN s :
              /\ s[x] \in Seq(Macro) /\ Len(s[x]) \in Nat /\ DOMAIN s[x] = 1 .. Len(s[x])
              /\ \A y \in DOMAIN s[x] : s[x][y] \in Macro
<1>1. Len(s) \in Nat /\ DOMAIN s = 1 .. Len(s)
  BY LenProperties
<1>2. ASSUME NEW x \in DOMAIN s PROVE s[x] \in Seq(Macro)
  BY <1>1, ElementOfSeq
<1>3. ASSUME NEW x \in DOMAIN s PROVE Len(s[x]) \in Nat /\ DOMAIN s[x] = 1 .. Len(s[x])
  BY <1>2, LenProperties
<1>4. ASSUME NEW x \in DOMAIN s, NEW y \in DOMAIN s[x] PROVE s[x][y] \in Macro
  BY <1>2, <1>3, ElementOfSeq
<1> QED BY <1>1, <1>2, <1>3, <1>4

LEMMA PlacesAre ==
  ASSUME NEW D
  PROVE  /\ \A d, p : <<d, p>> \in PlacesIn(D) <=> d \in DOMAIN D /\ p \in DOMAIN D[d]
         /\ \A m \in PlacesIn(D) : m = <<m[1], m[2]>> /\ m[1] \in DOMAIN D /\ m[2] \in DOMAIN D[m[1]]
<1>1. ASSUME NEW m \in PlacesIn(D) PROVE m = <<m[1], m[2]>> /\ m[1] \in DOMAIN D /\ m[2] \in DOMAIN D[m[1]]
  <2>1. PICK d, p : m = <<d, p>> /\ d \in DOMAIN D /\ p \in DOMAIN D[d]
    BY DEF PlacesIn
  <2> QED BY <2>1
<1>2. ASSUME NEW d, NEW p PROVE <<d, p>> \in PlacesIn(D) <=> d \in DOMAIN D /\ p \in DOMAIN D[d]
  BY DEF PlacesIn
<1> QED BY <1>1, <1>2

LEMMA PutAt ==
  ASSUME NEW S, NEW s \in Seq(S), NEW i \in 1 .. Len(s), NEW u \in S, NEW t, t = [s EXCEPT ![i] = u]
  PROVE  t \in Seq(S)
<1>1. [s EXCEPT ![i] = u] \in Seq(S)
  BY ExceptSeq
<1> QED BY <1>1

(* Writing one entry of one macro.                                           *)
LEMMA DieWritten ==
  ASSUME NEW s \in Seq(Seq(Macro)), NEW d \in DOMAIN s, NEW p \in DOMAIN s[d], NEW n \in Int, NEW t,
         t = [s EXCEPT ![d][p].die = n]
  PROVE  /\ t \in Seq(Seq(Macro)) /\ DOMAIN t = DOMAIN s
         /\ \A x \in DOMAIN s : DOMAIN t[x] = DOMAIN s[x]
         /\ t[d][p] = [s[d][p] EXCEPT !.die = n]
         /\ \A x \in DOMAIN s : \A y \in DOMAIN s[x] : x # d \/ y # p => t[x][y] = s[x][y]
<1>1. PICK r \in Seq(Macro) : r = s[d] /\ p \in DOMAIN r /\ DOMAIN r = 1 .. Len(r)
  BY DiesAt
<1>2. PICK m \in Macro : m = r[p]
  BY <1>1, DiesAt
<1>3. PICK k : k = [m EXCEPT !.die = n]
  OBVIOUS
<1>4. k \in Macro
  BY <1>3 DEF Macro
<1>5. PICK u : u = [r EXCEPT ![p] = k]
  OBVIOUS
<1>6. u \in Seq(Macro) /\ DOMAIN u = DOMAIN r /\ u[p] = k /\ \A y \in DOMAIN r : y # p => u[y] = r[y]
  BY <1>1, <1>4, <1>5
<1>7. t = [s EXCEPT ![d] = u]
  BY <1>1, <1>2, <1>3, <1>5
<1>8. DOMAIN s = 1 .. Len(s)
  BY DiesAt
<1>9. t \in Seq(Seq(Macro)) /\ DOMAIN t = DOMAIN s /\ t[d] = u /\ \A x \in DOMAIN s : x # d => t[x] = s[x]
  <2> PICK S : S = Seq(Macro)
    OBVIOUS
  <2>1. s \in Seq(S) /\ d \in 1 .. Len(s) /\ u \in S
    BY <1>6, <1>8
  <2>2. t \in Seq(S)
    BY <2>1, <1>7, PutAt
  <2> QED BY <2>2, <1>7
<1> QED BY <1>1, <1>2, <1>3, <1>6, <1>9

LEMMA MacroWritten ==
  ASSUME NEW s \in Seq(Seq(Macro)), NEW d \in DOMAIN s, NEW p \in DOMAIN s[d], NEW n \in Int, NEW t,
         t = [s EXCEPT ![d][p].macro = n]
  PROVE  /\ t \in Seq(Seq(Macro)) /\ DOMAIN t = DOMAIN s
         /\ \A x \in DOMAIN s : DOMAIN t[x] = DOMAIN s[x]
         /\ t[d][p] = [s[d][p] EXCEPT !.macro = n]
         /\ \A x \in DOMAIN s : \A y \in DOMAIN s[x] : x # d \/ y # p => t[x][y] = s[x][y]
<1>1. PICK r \in Seq(Macro) : r = s[d] /\ p \in DOMAIN r /\ DOMAIN r = 1 .. Len(r)
  BY DiesAt
<1>2. PICK m \in Macro : m = r[p]
  BY <1>1, DiesAt
<1>3. PICK k : k = [m EXCEPT !.macro = n]
  OBVIOUS
<1>4. k \in Macro
  BY <1>3 DEF Macro
<1>5. PICK u : u = [r EXCEPT ![p] = k]
  OBVIOUS
<1>6. u \in Seq(Macro) /\ DOMAIN u = DOMAIN r /\ u[p] = k /\ \A y \in DOMAIN r : y # p => u[y] = r[y]
  BY <1>1, <1>4, <1>5
<1>7. t = [s EXCEPT ![d] = u]
  BY <1>1, <1>2, <1>3, <1>5
<1>8. DOMAIN s = 1 .. Len(s)
  BY DiesAt
<1>9. t \in Seq(Seq(Macro)) /\ DOMAIN t = DOMAIN s /\ t[d] = u /\ \A x \in DOMAIN s : x # d => t[x] = s[x]
  <2> PICK S : S = Seq(Macro)
    OBVIOUS
  <2>1. s \in Seq(S) /\ d \in 1 .. Len(s) /\ u \in S
    BY <1>6, <1>8
  <2>2. t \in Seq(S)
    BY <2>1, <1>7, PutAt
  <2> QED BY <2>2, <1>7
<1> QED BY <1>1, <1>2, <1>3, <1>6, <1>9

(* Two joined macros point at each other and the others stay.                *)
LEMMA JoinedIs ==
  ASSUME dies \in Seq(Seq(Macro)), NEW d \in DOMAIN dies, NEW p \in DOMAIN dies[d],
         NEW e \in DOMAIN dies, NEW q \in DOMAIN dies[e], NEW t, t = Joined(d, p, e, q)
  PROVE  /\ t \in Seq(Seq(Macro)) /\ DOMAIN t = DOMAIN dies
         /\ \A x \in DOMAIN dies : DOMAIN t[x] = DOMAIN dies[x]
         /\ t[e][q].die = d /\ t[e][q].macro = p
         /\ <<d, p>> # <<e, q>> => t[d][p].die = e /\ t[d][p].macro = q
         /\ \A x \in DOMAIN dies : \A y \in DOMAIN dies[x] :
              <<x, y>> # <<d, p>> /\ <<x, y>> # <<e, q>> => t[x][y] = dies[x][y]
<1> DEFINE Like(s, u) == u \in Seq(Seq(Macro)) /\ DOMAIN u = DOMAIN s /\ \A x \in DOMAIN s : DOMAIN u[x] = DOMAIN s[x]
           Elsewhere(s, u, a, b) == \A x \in DOMAIN s : \A y \in DOMAIN s[x] : x # a \/ y # b => u[x][y] = s[x][y]
<1>0. PICK s : s = dies
  OBVIOUS
<1>1. d \in Int /\ p \in Int /\ e \in Int /\ q \in Int
  BY DiesAt
<1>2. PICK s1 : s1 = [s EXCEPT ![d][p].die = e]
  OBVIOUS
<1>3. Like(s, s1) /\ Elsewhere(s, s1, d, p) /\ s1[d][p] = [s[d][p] EXCEPT !.die = e]
  BY <1>0, <1>1, <1>2, DieWritten
<1>4. PICK s2 : s2 = [s1 EXCEPT ![d][p].macro = q]
  OBVIOUS
<1>5. Like(s1, s2) /\ Elsewhere(s1, s2, d, p) /\ s2[d][p] = [s1[d][p] EXCEPT !.macro = q]
  BY <1>0, <1>1, <1>3, <1>4, MacroWritten
<1>6. PICK s3 : s3 = [s2 EXCEPT ![e][q].die = d]
  OBVIOUS
<1>7. Like(s2, s3) /\ Elsewhere(s2, s3, e, q) /\ s3[e][q] = [s2[e][q] EXCEPT !.die = d]
  <2>1. s2 \in Seq(Seq(Macro)) /\ e \in DOMAIN s2 /\ q \in DOMAIN s2[e]
    BY <1>0, <1>3, <1>5
  <2> QED BY <2>1, <1>1, <1>6, DieWritten
<1>8. PICK s4 : s4 = [s3 EXCEPT ![e][q].macro = p]
  OBVIOUS
<1>9. Like(s3, s4) /\ Elsewhere(s3, s4, e, q) /\ s4[e][q] = [s3[e][q] EXCEPT !.macro = p]
  <2>1. s3 \in Seq(Seq(Macro)) /\ e \in DOMAIN s3 /\ q \in DOMAIN s3[e]
    BY <1>0, <1>3, <1>5, <1>7
  <2> QED BY <2>1, <1>1, <1>8, MacroWritten
<1>10. t = s4
  BY <1>0, <1>2, <1>4, <1>6, <1>8 DEF Joined
<1>11. s[d][p] \in Macro /\ s2[d][p] \in Macro /\ s2[e][q] \in Macro
  BY <1>0, <1>3, <1>5, DiesAt
<1>12. s2[d][p].die = e /\ s2[d][p].macro = q
  BY <1>3, <1>5, <1>11 DEF Macro
<1>13. s4[e][q].die = d /\ s4[e][q].macro = p
  BY <1>7, <1>9, <1>11 DEF Macro
<1>14. Like(dies, t)
  BY <1>0, <1>3, <1>5, <1>7, <1>9, <1>10
<1>15. t[e][q].die = d /\ t[e][q].macro = p
  BY <1>10, <1>13
<1>16. <<d, p>> # <<e, q>> => t[d][p].die = e /\ t[d][p].macro = q
  <2> SUFFICES ASSUME d # e \/ p # q PROVE t[d][p] = s2[d][p]
    BY <1>12
  <2>1. d \in DOMAIN s2 /\ p \in DOMAIN s2[d] /\ d \in DOMAIN s3 /\ p \in DOMAIN s3[d]
    BY <1>0, <1>3, <1>5, <1>7
  <2> QED BY <2>1, <1>7, <1>9, <1>10
<1>17. ASSUME NEW x \in DOMAIN dies, NEW y \in DOMAIN dies[x], x # d \/ y # p, x # e \/ y # q
       PROVE  t[x][y] = dies[x][y]
  <2>1. /\ x \in DOMAIN s1 /\ y \in DOMAIN s1[x] /\ x \in DOMAIN s2 /\ y \in DOMAIN s2[x]
        /\ x \in DOMAIN s3 /\ y \in DOMAIN s3[x]
    BY <1>0, <1>3, <1>5, <1>7
  <2>2. s1[x][y] = s[x][y] /\ s2[x][y] = s1[x][y]
    BY <2>1, <1>0, <1>3, <1>5, <1>17
  <2>3. s3[x][y] = s2[x][y] /\ s4[x][y] = s3[x][y]
    BY <2>1, <1>7, <1>9, <1>17
  <2> QED BY <2>2, <2>3, <1>0, <1>10
<1> QED BY <1>14, <1>15, <1>16, <1>17

(* One more route: its ends are the last two.                                *)
LongerBy(r, a, b, c, t) ==
  /\ t \in Seq(Place \X Place) /\ Len(t) = Len(r) + 1 /\ Len(r) \in Nat
  /\ \A i \in 1 .. Len(r) : t[i] = r[i]
  /\ t[Len(t)] = c
  /\ \A x \in 1 .. 2 * Len(r) : Side(t, x) = Side(r, x)
  /\ Side(t, 2 * Len(t) - 1) = a /\ Side(t, 2 * Len(t)) = b

LEMMA SidesGrow ==
  ASSUME NEW r \in Seq(Place \X Place), NEW a \in Place, NEW b \in Place, NEW c, c = <<a, b>>,
         NEW t, t = Append(r, c)
  PROVE  LongerBy(r, a, b, c, t)
<1>1. c \in Place \X Place /\ c[1] = a /\ c[2] = b
  OBVIOUS
<1>2. PICK P : P = Place \X Place
  OBVIOUS
<1>3. t = Append(r, c) /\ r \in Seq(P) /\ c \in P
  BY <1>1, <1>2
<1>4. Len(r) \in Nat
  BY <1>3, LenProperties
<1>5. t \in Seq(P) /\ Len(t) = Len(r) + 1 /\ (\A i \in 1 .. Len(r) : t[i] = r[i]) /\ t[Len(r) + 1] = c
  BY <1>3, AppendProperties
<1>6. ASSUME NEW x \in 1 .. 2 * Len(r) PROVE Side(t, x) = Side(r, x)
  <2>1. (x + 1) \div 2 \in 1 .. Len(r)
    BY <1>4
  <2> QED BY <2>1, <1>5 DEF Side
<1>7. PICK n \in Nat : n = Len(t)
  BY <1>4, <1>5
<1>8. (2 * n) \div 2 = n /\ (2 * n + 1) \div 2 = n /\ (2 * n) % 2 = 0 /\ (2 * n - 1) % 2 = 1 /\ 2 * n - 1 + 1 = 2 * n
  BY <1>7
<1>9. t[n] = c
  BY <1>5, <1>7
<1>10. Side(t, 2 * n - 1) = a
  BY <1>1, <1>8, <1>9 DEF Side
<1>11. Side(t, 2 * n) = b
  BY <1>1, <1>8, <1>9 DEF Side
<1>12. t[Len(t)] = c
  BY <1>7, <1>9
<1> QED BY <1>2, <1>4, <1>5, <1>6, <1>7, <1>10, <1>11, <1>12 DEF LongerBy

LEMMA SidesAre ==
  ASSUME NEW r, Len(r) \in Nat
  PROVE  /\ \A i \in 1 .. Len(r) : /\ 2 * i - 1 \in 1 .. 2 * Len(r) /\ Side(r, 2 * i - 1) = r[i][1]
                                   /\ 2 * i \in 1 .. 2 * Len(r) /\ Side(r, 2 * i) = r[i][2]
         /\ \A x \in 1 .. 2 * Len(r) : \E i \in 1 .. Len(r) : Side(r, x) = r[i][1] \/ Side(r, x) = r[i][2]
<1>1. ASSUME NEW i \in 1 .. Len(r)
      PROVE  /\ 2 * i - 1 \in 1 .. 2 * Len(r) /\ Side(r, 2 * i - 1) = r[i][1]
             /\ 2 * i \in 1 .. 2 * Len(r) /\ Side(r, 2 * i) = r[i][2]
  <2>1. (2 * i - 1 + 1) \div 2 = i /\ (2 * i + 1) \div 2 = i /\ (2 * i) % 2 = 0 /\ (2 * i - 1) % 2 = 1
    OBVIOUS
  <2>2. Side(r, 2 * i - 1) = r[i][1]
    BY <2>1 DEF Side
  <2>3. Side(r, 2 * i) = r[i][2]
    BY <2>1 DEF Side
  <2> QED BY <2>2, <2>3
<1>2. ASSUME NEW x \in 1 .. 2 * Len(r)
      PROVE  \E i \in 1 .. Len(r) : Side(r, x) = r[i][1] \/ Side(r, x) = r[i][2]
  <2>1. (x + 1) \div 2 \in 1 .. Len(r)
    OBVIOUS
  <2> QED BY <2>1 DEF Side
<1> QED BY <1>1, <1>2

LEMMA OnceMeans ==
  ASSUME NEW r, Len(r) \in Nat, NEW E, NEW m,
         DOMAIN E = 1 .. 2 * Len(r), \A x \in 1 .. 2 * Len(r) : E[x] = Side(r, x)
  PROVE  Cardinality({x \in DOMAIN E : E[x] = m}) = 1 <=> OnceIn(r, m)
<1> DEFINE S == {x \in DOMAIN E : E[x] = m}
<1>2. IsFiniteSet(S)
  <2>1. IsFiniteSet(1 .. 2 * Len(r)) /\ S \subseteq 1 .. 2 * Len(r)
    BY FS_Interval
  <2> QED BY <2>1, FS_Subset
<1>3. \A x : x \in S <=> x \in 1 .. 2 * Len(r) /\ Side(r, x) = m
  OBVIOUS
<1> HIDE DEF S
<1>4. Cardinality(S) = 1 <=> \E x : S = {x}
  BY <1>2, FS_Singleton
<1>5. ASSUME OnceIn(r, m) PROVE \E x : S = {x}
  <2>1. PICK x \in S : \A y \in S : y = x
    BY <1>3, <1>5 DEF OnceIn
  <2>2. S = {x}
    BY <2>1
  <2> QED BY <2>2
<1>6. ASSUME NEW x, S = {x} PROVE OnceIn(r, m)
  <2>1. x \in S /\ \A y \in S : y = x
    BY <1>6
  <2>2. x \in 1 .. 2 * Len(r) /\ Side(r, x) = m
    BY <1>3, <2>1
  <2>3. \A y \in 1 .. 2 * Len(r) : Side(r, y) = m => y = x
    BY <1>3, <2>1
  <2> QED BY <2>2, <2>3 DEF OnceIn
<1>7. Cardinality(S) = 1 <=> OnceIn(r, m)
  BY <1>4, <1>5, <1>6
<1> QED BY <1>7 DEF S

(* The steps. *)
Fresh(w) == [die |-> None, macro |-> None, width |-> w]

(* A new die, or a new macro, leaves what there was, and nobody knows it.    *)
LEMMA MoreMacros ==
  ASSUME NEW D, NEW r, JoinedIn(D, r), NEW t \in Seq(Seq(Macro)), PlacesIn(D) \subseteq PlacesIn(t),
         \A m \in PlacesIn(D) : t[m[1]][m[2]] = D[m[1]][m[2]],
         \A m \in PlacesIn(t) \ PlacesIn(D) : t[m[1]][m[2]].die = None
  PROVE  JoinedIn(t, r)
<1>1. Len(r) \in Nat
  BY LenProperties DEF JoinedIn
<1>2. \A i \in 1 .. Len(r) : r[i][1] \in PlacesIn(t) /\ r[i][2] \in PlacesIn(t)
  BY DEF JoinedIn
<1>3. ASSUME NEW m \in PlacesIn(t) PROVE t[m[1]][m[2]].die # None <=> EndIn(r, m)
  <2>1. CASE m \in PlacesIn(D)
    BY <2>1 DEF JoinedIn
  <2>2. CASE m \notin PlacesIn(D)
    <3>1. ~EndIn(r, m)
      BY <2>2 DEF JoinedIn, EndIn
    <3> QED BY <2>2, <3>1
  <2> QED BY <2>1, <2>2
<1>4. PairedIn(t, r)
  <2> SUFFICES ASSUME NEW i \in 1 .. Len(r), OnceIn(r, r[i][1]), OnceIn(r, r[i][2])
               PROVE  PointsIn(t, r[i][1], r[i][2]) /\ PointsIn(t, r[i][2], r[i][1])
    BY DEF PairedIn
  <2>1. r[i][1] \in PlacesIn(D) /\ r[i][2] \in PlacesIn(D)
    BY DEF JoinedIn
  <2>2. PointsIn(D, r[i][1], r[i][2]) /\ PointsIn(D, r[i][2], r[i][1])
    BY DEF JoinedIn, PairedIn
  <2> QED BY <2>1, <2>2 DEF PointsIn
<1> QED BY <1>2, <1>3, <1>4 DEF JoinedIn

LEMMA DieAdded ==
  ASSUME JoinedIn(dies, routes), AddDie
  PROVE  JoinedIn(dies', routes')
<1>1. PICK D \in Seq(Seq(Macro)) : D = dies
  BY DEF JoinedIn
<1>2. PICK S : S = Seq(Macro)
  OBVIOUS
<1>3. PICK t : t = Append(D, <<>>)
  OBVIOUS
<1>4. <<>> \in S /\ D \in Seq(S) /\ Len(D) \in Nat
  BY <1>2, LenProperties
<1>5. t \in Seq(S) /\ Len(t) = Len(D) + 1 /\ (\A x \in 1 .. Len(D) : t[x] = D[x]) /\ t[Len(D) + 1] = <<>>
  BY <1>3, <1>4, AppendProperties
<1>6. DOMAIN t = 1 .. Len(D) + 1 /\ DOMAIN D = 1 .. Len(D)
  BY <1>4, <1>5, LenProperties
<1>7. PlacesIn(t) = PlacesIn(D)
  BY <1>4, <1>5, <1>6 DEF PlacesIn
<1>8. \A m \in PlacesIn(D) : t[m[1]][m[2]] = D[m[1]][m[2]]
  BY <1>5, <1>6, PlacesAre
<1>9. JoinedIn(t, routes)
  BY <1>1, <1>2, <1>5, <1>7, <1>8, MoreMacros
<1> QED BY <1>1, <1>3, <1>9 DEF AddDie

LEMMA MacroAdded ==
  ASSUME JoinedIn(dies, routes), NEW d \in DOMAIN dies, NEW w \in Int, AddPhy(d, w)
  PROVE  JoinedIn(dies', routes')
<1>1. PICK D \in Seq(Seq(Macro)) : D = dies
  BY DEF JoinedIn
<1>2. PICK S : S = Seq(Macro)
  OBVIOUS
<1>3. PICK k : k = Fresh(w)
  OBVIOUS
<1>4. k \in Macro /\ k.die = None
  BY <1>3 DEF Fresh, Macro, None
<1>5. PICK s \in Seq(Macro) : s = D[d]
  BY <1>1, DiesAt
<1>6. PICK u : u = Append(s, k)
  OBVIOUS
<1>7. /\ u \in Seq(Macro) /\ Len(u) = Len(s) + 1 /\ (\A y \in 1 .. Len(s) : u[y] = s[y])
      /\ u[Len(s) + 1] = k /\ Len(s) \in Nat
  BY <1>4, <1>6, AppendProperties, LenProperties
<1>8. DOMAIN u = 1 .. Len(s) + 1 /\ DOMAIN s = 1 .. Len(s)
  BY <1>7, LenProperties
<1>9. PICK t : t = [D EXCEPT ![d] = u]
  OBVIOUS
<1>10. DOMAIN D = 1 .. Len(D) /\ D \in Seq(S)
  BY <1>2, LenProperties
<1>11. t \in Seq(S)
  BY <1>1, <1>2, <1>7, <1>9, <1>10, PutAt
<1>12. DOMAIN t = DOMAIN D /\ t[d] = u /\ \A x \in DOMAIN D : x # d => t[x] = D[x]
  BY <1>1, <1>9
<1>13. PlacesIn(D) \subseteq PlacesIn(t)
  BY <1>1, <1>5, <1>7, <1>8, <1>12 DEF PlacesIn
<1>14. ASSUME NEW m \in PlacesIn(D) PROVE t[m[1]][m[2]] = D[m[1]][m[2]]
  <2>1. m[1] \in DOMAIN D /\ m[2] \in DOMAIN D[m[1]]
    BY PlacesAre
  <2>2. CASE m[1] = d
    <3>1. m[2] \in 1 .. Len(s) /\ D[m[1]] = s /\ t[m[1]] = u
      BY <2>1, <2>2, <1>5, <1>8, <1>12
    <3> QED BY <3>1, <1>7
  <2>3. CASE m[1] # d
    BY <2>1, <2>3, <1>12
  <2> QED BY <2>2, <2>3
<1>15. ASSUME NEW m \in PlacesIn(t) \ PlacesIn(D) PROVE t[m[1]][m[2]].die = None
  <2>1. m = <<m[1], m[2]>> /\ m[1] \in DOMAIN t /\ m[2] \in DOMAIN t[m[1]]
    BY PlacesAre
  <2>2. ~(m[1] \in DOMAIN D /\ m[2] \in DOMAIN D[m[1]])
    BY <2>1, PlacesAre
  <2>3. m[1] = d /\ m[2] = Len(s) + 1
    BY <2>1, <2>2, <1>5, <1>7, <1>8, <1>12
  <2> QED BY <2>3, <1>4, <1>7, <1>12
<1>16. JoinedIn(t, routes)
  BY <1>1, <1>2, <1>11, <1>13, <1>14, <1>15, MoreMacros
<1>17. dies' = t /\ routes' = routes
  BY <1>1, <1>3, <1>5, <1>6, <1>9 DEF AddPhy, Fresh
<1> QED BY <1>16, <1>17

LEMMA PhysConnected ==
  ASSUME JoinedIn(dies, routes), NEW d, NEW p, NEW e, NEW q, ConnectPhys(d, p, e, q)
  PROVE  JoinedIn(dies', routes')
<1>1. /\ d \in DOMAIN dies /\ e \in DOMAIN dies /\ p \in DOMAIN dies[d] /\ q \in DOMAIN dies[e]
      /\ dies \in Seq(Seq(Macro)) /\ routes \in Seq(Place \X Place)
  BY DEF ConnectPhys, JoinedIn
<1>2. d \in Nat \ {0} /\ p \in Nat \ {0} /\ e \in Nat \ {0} /\ q \in Nat \ {0}
  BY <1>1, DiesAt
<1>3. PICK D : D = dies
  OBVIOUS
<1>4. PICK t : t = Joined(d, p, e, q)
  OBVIOUS
<1>5. /\ t \in Seq(Seq(Macro)) /\ DOMAIN t = DOMAIN D
      /\ \A x \in DOMAIN D : DOMAIN t[x] = DOMAIN D[x]
      /\ t[e][q].die = d /\ t[e][q].macro = p
      /\ <<d, p>> # <<e, q>> => t[d][p].die = e /\ t[d][p].macro = q
      /\ \A x \in DOMAIN D : \A y \in DOMAIN D[x] : <<x, y>> # <<d, p>> /\ <<x, y>> # <<e, q>> => t[x][y] = D[x][y]
  BY <1>1, <1>3, <1>4, JoinedIs
<1>6. PICK a \in Place : a = <<d, p>>
  BY <1>2 DEF Place
<1>7. PICK b \in Place : b = <<e, q>>
  BY <1>2 DEF Place
<1>8. a \in PlacesIn(D) /\ b \in PlacesIn(D) /\ a[1] = d /\ a[2] = p /\ b[1] = e /\ b[2] = q
  BY <1>1, <1>3, <1>6, <1>7, PlacesAre
<1>9. PlacesIn(t) = PlacesIn(D)
  BY <1>5 DEF PlacesIn
<1>10. ASSUME NEW m \in PlacesIn(D), m # a, m # b PROVE t[m[1]][m[2]] = D[m[1]][m[2]]
  <2>1. m = <<m[1], m[2]>> /\ m[1] \in DOMAIN D /\ m[2] \in DOMAIN D[m[1]]
    BY PlacesAre
  <2>2. <<m[1], m[2]>> # <<d, p>> /\ <<m[1], m[2]>> # <<e, q>>
    BY <2>1, <1>6, <1>7, <1>10
  <2> QED BY <2>1, <2>2, <1>5
<1>11. t[b[1]][b[2]].die = a[1] /\ t[b[1]][b[2]].macro = a[2]
  BY <1>5, <1>8
<1>12. a # b => t[a[1]][a[2]].die = b[1] /\ t[a[1]][a[2]].macro = b[2]
  BY <1>5, <1>6, <1>7, <1>8
<1>13. t[a[1]][a[2]].die # None /\ t[b[1]][b[2]].die # None
  <2>1. t[a[1]][a[2]].die \in Nat \ {0} /\ t[b[1]][b[2]].die \in Nat \ {0}
    BY <1>2, <1>8, <1>11, <1>12
  <2> QED BY <2>1 DEF None
<1>14. PICK r \in Seq(Place \X Place) : r = routes
  BY <1>1
<1>15. PICK c : c = <<a, b>>
  OBVIOUS
<1>15a. PICK s : s = Append(r, c)
  OBVIOUS
<1>16. /\ s \in Seq(Place \X Place) /\ Len(s) = Len(r) + 1 /\ Len(r) \in Nat
       /\ \A i \in 1 .. Len(r) : s[i] = r[i]
       /\ s[Len(s)] = c
       /\ \A x \in 1 .. 2 * Len(r) : Side(s, x) = Side(r, x)
       /\ Side(s, 2 * Len(s) - 1) = a /\ Side(s, 2 * Len(s)) = b
  <2>1. LongerBy(r, a, b, c, s)
    BY <1>15, <1>15a, SidesGrow, Zenon
  <2> QED BY <2>1 DEF LongerBy
<1>17. s[Len(s)][1] = a /\ s[Len(s)][2] = b
  BY <1>15, <1>16
<1>18. ASSUME NEW i \in 1 .. Len(s) PROVE s[i][1] \in PlacesIn(t) /\ s[i][2] \in PlacesIn(t)
  <2>1. CASE i = Len(s)
    BY <2>1, <1>8, <1>9, <1>17
  <2>2. CASE i # Len(s)
    <3>1. i \in 1 .. Len(r) /\ s[i] = r[i]
      BY <2>2, <1>16
    <3>2. r[i][1] \in PlacesIn(D) /\ r[i][2] \in PlacesIn(D)
      BY <3>1, <1>3, <1>14 DEF JoinedIn
    <3> QED BY <3>1, <3>2, <1>9
  <2> QED BY <2>1, <2>2
<1>19. ASSUME NEW m PROVE EndIn(s, m) <=> EndIn(r, m) \/ m = a \/ m = b
  <2>1. Len(s) \in 1 .. Len(s)
    BY <1>16
  <2>2. ASSUME NEW i \in 1 .. Len(r) PROVE i \in 1 .. Len(s) /\ s[i] = r[i]
    BY <1>16
  <2>3. ASSUME NEW i \in 1 .. Len(s), i # Len(s) PROVE i \in 1 .. Len(r) /\ s[i] = r[i]
    BY <1>16, <2>3
  <2>4. EndIn(r, m) => EndIn(s, m)
    BY <2>2 DEF EndIn
  <2>5. m = a \/ m = b => EndIn(s, m)
    BY <2>1, <1>17 DEF EndIn
  <2>6. EndIn(s, m) => EndIn(r, m) \/ m = a \/ m = b
    BY <2>3, <1>17 DEF EndIn
  <2> QED BY <2>4, <2>5, <2>6
<1>20. ASSUME NEW m \in PlacesIn(t) PROVE t[m[1]][m[2]].die # None <=> EndIn(s, m)
  <2>1. CASE m = a \/ m = b
    BY <2>1, <1>13, <1>19
  <2>2. CASE m # a /\ m # b
    <3>1. t[m[1]][m[2]] = D[m[1]][m[2]]
      BY <2>2, <1>9, <1>10
    <3>2. D[m[1]][m[2]].die # None <=> EndIn(r, m)
      BY <1>3, <1>9, <1>14 DEF JoinedIn
    <3> QED BY <2>2, <3>1, <3>2, <1>19
  <2> QED BY <2>1, <2>2
<1>21. PICK n \in Nat : n = Len(s) /\ n = Len(r) + 1
  BY <1>16
<1>22. ASSUME NEW m, OnceIn(s, m), EndIn(r, m) PROVE OnceIn(r, m) /\ m # a /\ m # b
  <2>1. PICK x \in 1 .. 2 * Len(r) : Side(r, x) = m
    <3>1. PICK i \in 1 .. Len(r) : r[i][1] = m \/ r[i][2] = m
      BY <1>22 DEF EndIn
    <3>2. \A j \in 1 .. Len(r) : /\ 2 * j - 1 \in 1 .. 2 * Len(r) /\ Side(r, 2 * j - 1) = r[j][1]
                                 /\ 2 * j \in 1 .. 2 * Len(r) /\ Side(r, 2 * j) = r[j][2]
      BY <1>16, SidesAre
    <3> QED BY <3>1, <3>2
  <2>2. x \in 1 .. 2 * Len(s) /\ Side(s, x) = m
    BY <2>1, <1>16
  <2>3. \A y \in 1 .. 2 * Len(s) : Side(s, y) = m => y = x
    BY <2>2, <1>22 DEF OnceIn
  <2>4. 2 * n - 1 \in 1 .. 2 * Len(s) /\ 2 * n \in 1 .. 2 * Len(s) /\ 2 * n - 1 # x /\ 2 * n # x
    BY <2>1, <1>16, <1>21
  <2>5. m # a /\ m # b
    BY <2>3, <2>4, <1>16, <1>21
  <2>6. \A y \in 1 .. 2 * Len(r) : Side(r, y) = m => y = x
    <3> SUFFICES ASSUME NEW y \in 1 .. 2 * Len(r), Side(r, y) = m PROVE y = x
      OBVIOUS
    <3>1. y \in 1 .. 2 * Len(s) /\ Side(s, y) = m
      BY <1>16
    <3> QED BY <3>1, <2>3
  <2> QED BY <2>1, <2>5, <2>6 DEF OnceIn
<1>23. ASSUME OnceIn(s, a), OnceIn(s, b) PROVE a # b
  <2>1. 2 * n - 1 \in 1 .. 2 * Len(s) /\ 2 * n \in 1 .. 2 * Len(s) /\ 2 * n - 1 # 2 * n
    BY <1>16, <1>21
  <2>2. Side(s, 2 * n - 1) = a /\ Side(s, 2 * n) = b
    BY <1>16, <1>21
  <2> QED BY <2>1, <2>2, <1>23 DEF OnceIn
<1>24. PairedIn(t, s)
  <2> SUFFICES ASSUME NEW i \in 1 .. Len(s), OnceIn(s, s[i][1]), OnceIn(s, s[i][2])
               PROVE  PointsIn(t, s[i][1], s[i][2]) /\ PointsIn(t, s[i][2], s[i][1])
    BY DEF PairedIn
  <2>1. CASE i = Len(s)
    BY <2>1, <1>11, <1>12, <1>17, <1>23 DEF PointsIn
  <2>2. CASE i # Len(s)
    <3>1. i \in 1 .. Len(r) /\ s[i] = r[i]
      BY <2>2, <1>16
    <3>2. EndIn(r, r[i][1]) /\ EndIn(r, r[i][2])
      BY <3>1 DEF EndIn
    <3>3. PICK m : m = r[i][1] /\ OnceIn(s, m) /\ EndIn(r, m)
      BY <3>1, <3>2
    <3>4. PICK o : o = r[i][2] /\ OnceIn(s, o) /\ EndIn(r, o)
      BY <3>1, <3>2
    <3>5. OnceIn(r, m) /\ OnceIn(r, o) /\ m # a /\ m # b /\ o # a /\ o # b
      BY <3>3, <3>4, <1>22
    <3>6. PointsIn(D, m, o) /\ PointsIn(D, o, m) /\ m \in PlacesIn(D) /\ o \in PlacesIn(D)
      BY <3>1, <3>3, <3>4, <3>5, <1>3, <1>14 DEF JoinedIn, PairedIn
    <3>7. PointsIn(t, m, o) /\ PointsIn(t, o, m)
      BY <3>5, <3>6, <1>10 DEF PointsIn
    <3> QED BY <3>1, <3>3, <3>4, <3>7
  <2> QED BY <2>1, <2>2
<1>25. JoinedIn(t, s)
  BY <1>5, <1>16, <1>18, <1>20, <1>24 DEF JoinedIn
<1> QED BY <1>4, <1>6, <1>7, <1>14, <1>15, <1>15a, <1>25 DEF ConnectPhys

LEMMA MinIs ==
  ASSUME NEW S \in SUBSET Nat, S # {}
  PROVE  Sets!Min(S) \in S
<1>1. PICK m \in S : \A k \in S : m <= k
  BY LeastElement
<1> QED BY <1>1 DEF Sets!Min

LEMMA MacrosAreJoined ==
  ASSUME JoinedIn(dies, routes)
  PROVE  MacrosJoined
<1>1. PICK D \in Seq(Seq(Macro)) : D = dies
  BY DEF JoinedIn
<1>2. PICK r \in Seq(Place \X Place) : r = routes
  BY DEF JoinedIn
<1>3. Len(r) \in Nat /\ DOMAIN r = 1 .. Len(r)
  BY LenProperties
<1>4. PICK E : E = Ends
  OBVIOUS
<1>5. E = [x \in 1 .. (2 * Len(r)) |-> r[(x + 1) \div 2][IF x % 2 = 1 THEN 1 ELSE 2]]
  BY <1>2, <1>4 DEF Ends
<1>6. DOMAIN E = 1 .. 2 * Len(r) /\ \A x \in 1 .. 2 * Len(r) : E[x] = Side(r, x)
  BY <1>5 DEF Side
<1>7. ASSUME NEW m PROVE Once(m) <=> OnceIn(r, m)
  <2>1. Cardinality({x \in DOMAIN E : E[x] = m}) = 1 <=> OnceIn(r, m)
    BY <1>3, <1>6, OnceMeans
  <2> QED BY <2>1, <1>4, Zenon DEF Once
<1>8. ASSUME NEW i \in DOMAIN routes, Once(routes[i][1]), Once(routes[i][2])
      PROVE  PointsAt(routes[i][1], routes[i][2]) /\ PointsAt(routes[i][2], routes[i][1])
  <2>1. i \in 1 .. Len(r) /\ OnceIn(r, r[i][1]) /\ OnceIn(r, r[i][2])
    BY <1>2, <1>3, <1>7, <1>8
  <2>2. PointsIn(D, r[i][1], r[i][2]) /\ PointsIn(D, r[i][2], r[i][1])
    BY <2>1, <1>1, <1>2 DEF JoinedIn, PairedIn
  <2> QED BY <2>2, <1>1, <1>2 DEF PointsIn, PointsAt
<1>9. ASSUME NEW m PROVE EndIn(r, m) <=> \E x \in DOMAIN E : E[x] = m
  <2>1. /\ \A i \in 1 .. Len(r) : /\ 2 * i - 1 \in 1 .. 2 * Len(r) /\ Side(r, 2 * i - 1) = r[i][1]
                                  /\ 2 * i \in 1 .. 2 * Len(r) /\ Side(r, 2 * i) = r[i][2]
        /\ \A x \in 1 .. 2 * Len(r) : \E i \in 1 .. Len(r) : Side(r, x) = r[i][1] \/ Side(r, x) = r[i][2]
    BY <1>3, SidesAre
  <2>2. ASSUME EndIn(r, m) PROVE \E x \in DOMAIN E : E[x] = m
    <3>1. PICK i \in 1 .. Len(r) : r[i][1] = m \/ r[i][2] = m
      BY <2>2 DEF EndIn
    <3>2. 2 * i - 1 \in DOMAIN E /\ E[2 * i - 1] = r[i][1]
      BY <2>1, <1>6
    <3>3. 2 * i \in DOMAIN E /\ E[2 * i] = r[i][2]
      BY <2>1, <1>6
    <3> QED BY <3>1, <3>2, <3>3
  <2>3. ASSUME NEW x \in DOMAIN E, E[x] = m PROVE EndIn(r, m)
    <3>1. x \in 1 .. 2 * Len(r) /\ Side(r, x) = m
      BY <2>3, <1>6
    <3>2. PICK i \in 1 .. Len(r) : Side(r, x) = r[i][1] \/ Side(r, x) = r[i][2]
      BY <3>1, <2>1
    <3> QED BY <3>1, <3>2 DEF EndIn
  <2> QED BY <2>2, <2>3
<1>10. \A m \in PlacesIn(D) : D[m[1]][m[2]].die # None <=> EndIn(r, m)
  BY <1>1, <1>2 DEF JoinedIn
<1>11. \A m : EndIn(r, m) => m \in PlacesIn(D)
  BY <1>1, <1>2 DEF JoinedIn, EndIn
<1>12. Macros = PlacesIn(D)
  BY <1>1 DEF Macros, PlacesIn
<1>13. {m \in Macros : m[2] \in Connected(m[1])} = {E[x] : x \in DOMAIN E}
  <2>1. ASSUME NEW m \in Macros PROVE m[2] \in Connected(m[1]) <=> EndIn(r, m)
    <3>1. m[2] \in DOMAIN dies[m[1]]
      BY <1>1, <1>12, PlacesAre
    <3>2. m[2] \in Connected(m[1]) <=> D[m[1]][m[2]].die # None
      BY <3>1, <1>1 DEF Connected
    <3> QED BY <3>2, <1>10, <1>12
  <2> QED BY <2>1, <1>9, <1>11, <1>12
<1>14. TotalBandwidth = Bandwidth({Ends[i] : i \in DOMAIN Ends})
  BY <1>4, <1>13 DEF TotalBandwidth
<1>15. ASSUME NEW d \in DOMAIN dies
       PROVE  Connected(d) # {} <=> \E x \in DOMAIN E : E[x][1] = d
  <2>1. ASSUME Connected(d) # {} PROVE \E x \in DOMAIN E : E[x][1] = d
    <3>1. PICK p \in DOMAIN D[d] : D[d][p].die # None
      BY <2>1, <1>1 DEF Connected
    <3>2. PICK m : m = <<d, p>>
      OBVIOUS
    <3>3. m \in PlacesIn(D) /\ m[1] = d /\ m[2] = p
      BY <3>1, <3>2, <1>1, PlacesAre
    <3>4. PICK x \in DOMAIN E : E[x] = m
      BY <3>1, <3>3, <1>9, <1>10
    <3> QED BY <3>3, <3>4
  <2>2. ASSUME NEW x \in DOMAIN E, E[x][1] = d PROVE Connected(d) # {}
    <3>1. PICK m : m = E[x]
      OBVIOUS
    <3>2. m \in PlacesIn(D) /\ D[m[1]][m[2]].die # None
      BY <3>1, <1>9, <1>10, <1>11
    <3>3. m[1] = d /\ m[2] \in DOMAIN D[d]
      BY <2>2, <3>1, <3>2, PlacesAre
    <3> QED BY <3>2, <3>3, <1>1 DEF Connected
  <2> QED BY <2>1, <2>2
<1>16. ValidateConnectivity = 0 <=>
         dies # <<>> /\ (Len(dies) = 1 \/ \A d \in DOMAIN dies : \E i \in DOMAIN Ends : Ends[i][1] = d)
  <2>1. PICK lonely : lonely = {d \in DOMAIN dies : Connected(d) = {}}
    OBVIOUS
  <2>2. lonely = {} <=> \A d \in DOMAIN dies : \E i \in DOMAIN Ends : Ends[i][1] = d
    BY <2>1, <1>4, <1>15
  <2>3. Len(dies) \in Nat /\ DOMAIN dies = 1 .. Len(dies) /\ (dies # <<>> => Len(dies) \in Nat \ {0})
    BY <1>1, LenProperties, EmptySeq
  <2>4. ASSUME lonely # {} PROVE Sets!Min(lonely) \in Nat
    <3>1. lonely \in SUBSET Nat
      BY <2>1, <2>3
    <3> QED BY <2>4, <3>1, MinIs
  <2>5. ValidateConnectivity =
          IF dies = <<>> THEN 1
          ELSE IF lonely # {} /\ Len(dies) > 1 THEN 99 + Sets!Min(lonely) ELSE 0
    BY <2>1 DEF ValidateConnectivity
  <2>6. dies = <<>> => ValidateConnectivity # 0
    BY <2>5
  <2>7. ASSUME dies # <<>>, lonely # {}, Len(dies) > 1 PROVE ValidateConnectivity # 0
    <3>1. PICK k \in Nat : k = Sets!Min(lonely)
      BY <2>4, <2>7
    <3>2. ValidateConnectivity = 99 + k
      BY <2>5, <2>7, <3>1
    <3> QED BY <3>2
  <2>8. dies # <<>> /\ lonely = {} => ValidateConnectivity = 0
    BY <2>5
  <2>9. dies # <<>> /\ Len(dies) = 1 => ValidateConnectivity = 0
    BY <2>5
  <2>10. dies # <<>> => Len(dies) = 1 \/ Len(dies) > 1
    BY <2>3
  <2>12. ValidateConnectivity = 0 <=> dies # <<>> /\ (Len(dies) = 1 \/ lonely = {})
    BY <2>6, <2>7, <2>8, <2>9, <2>10, Zenon
  <2> QED BY <2>2, <2>12, Zenon
<1> QED BY <1>8, <1>14, <1>16 DEF MacrosJoined

-----------------------------------------------------------------------------
(* The partitioner.  The areas while the first n blocks are placed, and the  *)
(* area of partition p among the first n blocks.                             *)
Filled(f, n) ==
  IF n = 0 THEN [p \in 1 .. plan.count |-> 0]
  ELSE [f[n - 1] EXCEPT ![Emptiest(f[n - 1])] = @ + plan.blocks[n].area]
Summed(B, p, f, n) ==
  IF n = 0 THEN 0 ELSE f[n - 1] + (IF B[n].partition = p THEN B[n].area ELSE 0)

LEMMA AreasExist == \A k \in Nat : \E f : f = [n \in 0 .. k |-> Filled(f, n)]
<1> DEFINE T == {k \in Nat : \E f : f = [n \in 0 .. k |-> Filled(f, n)]}
<1>1. 0 \in T
  <2> DEFINE f == [n \in 0 .. 0 |-> [p \in 1 .. plan.count |-> 0]]
  <2>1. f = [n \in 0 .. 0 |-> Filled(f, n)]
    BY DEF Filled
  <2> QED BY <2>1
<1>2. ASSUME NEW k \in T PROVE k + 1 \in T
  <2>1. PICK g : g = [n \in 0 .. k |-> Filled(g, n)]
    OBVIOUS
  <2>2. k \in Nat
    OBVIOUS
  <2> DEFINE f == [n \in 0 .. k + 1 |-> IF n = k + 1 THEN Filled(g, k + 1) ELSE g[n]]
  <2>3. \A n \in 0 .. k : g[n] = Filled(g, n)
    BY <2>1, Zenon
  <2>4. ASSUME NEW n \in 0 .. k + 1 PROVE f[n] = Filled(f, n)
    <3>1. f[n] = Filled(g, n)
      <4>1. CASE n = k + 1
        BY <4>1
      <4>2. CASE n # k + 1
        <5>1. n \in 0 .. k
          BY <2>2, <4>2
        <5> QED BY <2>3, <4>2, <5>1
      <4> QED BY <4>1, <4>2
    <3>2. CASE n = 0
      BY <3>1, <3>2 DEF Filled
    <3>3. CASE n # 0
      <4>1. n - 1 \in 0 .. k + 1 /\ n - 1 # k + 1
        BY <2>2, <3>3
      <4>2. f[n - 1] = g[n - 1]
        BY <4>1
      <4> QED BY <3>1, <3>3, <4>2 DEF Filled
    <3> QED BY <3>2, <3>3
  <2>5. f = [n \in 0 .. k + 1 |-> Filled(f, n)]
    BY <2>4
  <2>6. \E h : h = [n \in 0 .. k + 1 |-> Filled(h, n)]
    BY <2>5
  <2> QED BY <2>2, <2>6
<1>3. T \in SUBSET Nat
  OBVIOUS
<1> HIDE DEF T
<1>4. \A k \in Nat : k \in T
  BY <1>1, <1>2, <1>3, Climb
<1> QED BY <1>4 DEF T

LEMMA SumsExist == ASSUME NEW B, NEW p PROVE \A k \in Nat : \E f : f = [n \in 0 .. k |-> Summed(B, p, f, n)]
<1> DEFINE T == {k \in Nat : \E f : f = [n \in 0 .. k |-> Summed(B, p, f, n)]}
<1>1. 0 \in T
  <2> DEFINE f == [n \in 0 .. 0 |-> 0]
  <2>1. f = [n \in 0 .. 0 |-> Summed(B, p, f, n)]
    BY DEF Summed
  <2> QED BY <2>1
<1>2. ASSUME NEW k \in T PROVE k + 1 \in T
  <2>1. PICK g : g = [n \in 0 .. k |-> Summed(B, p, g, n)]
    OBVIOUS
  <2>2. k \in Nat
    OBVIOUS
  <2> DEFINE f == [n \in 0 .. k + 1 |-> IF n = k + 1 THEN Summed(B, p, g, k + 1) ELSE g[n]]
  <2>3. \A n \in 0 .. k : g[n] = Summed(B, p, g, n)
    BY <2>1, Zenon
  <2>4. ASSUME NEW n \in 0 .. k + 1 PROVE f[n] = Summed(B, p, f, n)
    <3>1. f[n] = Summed(B, p, g, n)
      <4>1. CASE n = k + 1
        BY <4>1
      <4>2. CASE n # k + 1
        <5>1. n \in 0 .. k
          BY <2>2, <4>2
        <5> QED BY <2>3, <4>2, <5>1
      <4> QED BY <4>1, <4>2
    <3>2. CASE n = 0
      BY <3>1, <3>2 DEF Summed
    <3>3. CASE n # 0
      <4>1. n - 1 \in 0 .. k + 1 /\ n - 1 # k + 1
        BY <2>2, <3>3
      <4>2. f[n - 1] = g[n - 1]
        BY <4>1
      <4> QED BY <3>1, <3>3, <4>2 DEF Summed
    <3> QED BY <3>2, <3>3
  <2>5. f = [n \in 0 .. k + 1 |-> Summed(B, p, f, n)]
    BY <2>4
  <2>6. \E h : h = [n \in 0 .. k + 1 |-> Summed(B, p, h, n)]
    BY <2>5
  <2> QED BY <2>2, <2>6
<1>3. T \in SUBSET Nat
  OBVIOUS
<1> HIDE DEF T
<1>4. \A k \in Nat : k \in T
  BY <1>1, <1>2, <1>3, Climb
<1> QED BY <1>4 DEF T

LEMMA AreaUnfolds ==
  ASSUME NEW B, NEW p, Len(B) \in Nat
  PROVE  \E g : /\ AreaOf(B, p) = g[Len(B)] /\ g[0] = 0
                /\ \A n \in 1 .. Len(B) : g[n] = g[n - 1] + (IF B[n].partition = p THEN B[n].area ELSE 0)
<1> DEFINE g == CHOOSE h : h = [n \in 0 .. Len(B) |-> Summed(B, p, h, n)]
<1>1. \E h : h = [n \in 0 .. Len(B) |-> Summed(B, p, h, n)]
  BY SumsExist
<1>2. g = [n \in 0 .. Len(B) |-> Summed(B, p, g, n)]
  BY <1>1, Zenon
<1>3. AreaOf(B, p) = g[Len(B)]
  BY Zenon DEF AreaOf, Summed
<1> HIDE DEF g
<1>4. \A n \in 0 .. Len(B) : g[n] = Summed(B, p, g, n)
  BY <1>2, Zenon
<1>5. g[0] = 0
  BY <1>4 DEF Summed
<1>6. \A n \in 1 .. Len(B) : g[n] = g[n - 1] + (IF B[n].partition = p THEN B[n].area ELSE 0)
  BY <1>4 DEF Summed
<1> QED BY <1>3, <1>5, <1>6

LEMMA EmptiestIs ==
  ASSUME plan.count \in Nat \ {0}, NEW a \in [1 .. plan.count -> Nat]
  PROVE  Emptiest(a) \in 1 .. plan.count /\ \A q \in 1 .. plan.count : a[Emptiest(a)] <= a[q]
<1>1. PICK c \in Nat \ {0} : c = plan.count
  OBVIOUS
<1> DEFINE V == {a[p] : p \in 1 .. c}
<1>2. V \in SUBSET Nat /\ a[1] \in V
  BY <1>1
<1>3. PICK m \in V : \A k \in V : m <= k
  BY <1>2, LeastElement
<1> DEFINE W == {p \in 1 .. c : a[p] = m}
<1>4. W \in SUBSET Nat /\ W # {}
  BY <1>3
<1>5. PICK p \in W : \A k \in W : p <= k
  BY <1>4, LeastElement
<1>6. \A q \in 1 .. c : a[p] < a[q] \/ (a[p] = a[q] /\ p <= q)
  <2> SUFFICES ASSUME NEW q \in 1 .. c PROVE a[p] < a[q] \/ (a[p] = a[q] /\ p <= q)
    OBVIOUS
  <2>1. a[p] = m /\ m <= a[q] /\ a[q] \in Nat /\ m \in Nat
    BY <1>1, <1>2, <1>3
  <2>2. a[q] = m => p <= q
    BY <1>5
  <2> QED BY <2>1, <2>2
<1>7. Emptiest(a) \in 1 .. c /\ \A q \in 1 .. c : a[Emptiest(a)] < a[q] \/ (a[Emptiest(a)] = a[q] /\ Emptiest(a) <= q)
  BY <1>1, <1>6 DEF Emptiest
<1>8. PICK e \in 1 .. c : e = Emptiest(a)
  BY <1>7
<1> QED BY <1>1, <1>7, <1>8

(* No two partitions ever differ by more than the largest block so far.      *)
Within(a, c, A) == a \in [1 .. c -> Nat] /\ \A p, q \in 1 .. c : \E x \in A : a[p] - a[q] <= x

(* f has the areas, w those of the blocks, e the places the blocks go to.    *)
StartsEmpty(f, c) == f[0] = [p \in 1 .. c |-> 0]
FillsUp(f, w, n) == \A k \in 1 .. n : f[k] = [f[k - 1] EXCEPT ![Emptiest(f[k - 1])] = @ + w[k]]
Placed(f, e, n) == \A k \in 1 .. n : e[k] = Emptiest(f[k - 1])
AreWithin(f, c, A, n) == \A k \in 0 .. n : Within(f[k], c, A)
Counts(g, e, w, p, n) == g[0] = 0 /\ \A k \in 1 .. n : g[k] = g[k - 1] + (IF e[k] = p THEN w[k] ELSE 0)

LEMMA NoneApart ==
  ASSUME NEW c \in Nat, NEW A, 0 \in A, NEW a, a = [p \in 1 .. c |-> 0]
  PROVE  Within(a, c, A)
<1>1. a \in [1 .. c -> Nat] /\ \A p, q \in 1 .. c : a[p] - a[q] <= 0
  OBVIOUS
<1> QED BY <1>1 DEF Within

LEMMA OneMoreBlock ==
  ASSUME NEW c \in Nat, NEW A \in SUBSET Nat, NEW b, Within(b, c, A), NEW x \in A, NEW e \in 1 .. c,
         \A q \in 1 .. c : b[e] <= b[q], NEW d, d = [b EXCEPT ![e] = @ + x]
  PROVE  Within(d, c, A)
<1>0. b \in [1 .. c -> Nat]
  BY DEF Within
<1>1. x \in Nat
  OBVIOUS
<1>2. d \in [1 .. c -> Nat] /\ d[e] = b[e] + x /\ \A q \in 1 .. c : q # e => d[q] = b[q]
  BY <1>0, <1>1
<1>3. ASSUME NEW p \in 1 .. c, NEW q \in 1 .. c PROVE \E a \in A : d[p] - d[q] <= a
  <2>1. PICK bp \in Nat, bq \in Nat, be \in Nat : bp = b[p] /\ bq = b[q] /\ be = b[e]
    BY <1>0
  <2>2. be <= bq
    BY <2>1
  <2>3. CASE p = e
    <3>1. d[p] = be + x /\ d[q] = IF q = e THEN be + x ELSE bq
      BY <1>2, <2>1, <2>3
    <3>2. d[p] - d[q] <= x
      BY <1>1, <2>1, <2>2, <3>1
    <3> QED BY <3>2
  <2>4. CASE p # e
    <3>1. d[p] = bp /\ d[q] = IF q = e THEN bq + x ELSE bq
      BY <1>2, <2>1, <2>4
    <3>2. PICK a \in A : bp - bq <= a
      BY <2>1 DEF Within
    <3>3. a \in Nat
      OBVIOUS
    <3>4. d[p] - d[q] <= a
      BY <1>1, <2>1, <3>1, <3>2, <3>3
    <3> QED BY <3>4
  <2> QED BY <2>3, <2>4
<1> QED BY <1>2, <1>3 DEF Within

LEMMA AreasSpread ==
  ASSUME NEW c \in Nat \ {0}, plan.count = c, NEW n \in Nat, NEW A \in SUBSET Nat, 0 \in A,
         NEW w, \A k \in 1 .. n : w[k] \in A, NEW f, StartsEmpty(f, c), FillsUp(f, w, n)
  PROVE  AreWithin(f, c, A, n)
<1> DEFINE T == {k \in Nat : k <= n => Within(f[k], c, A)}
<1>1. 0 \in T
  <2>1. Within(f[0], c, A)
    BY NoneApart DEF StartsEmpty
  <2> QED BY <2>1
<1>2. ASSUME NEW k \in T PROVE k + 1 \in T
  <2> SUFFICES ASSUME k + 1 <= n PROVE Within(f[k + 1], c, A)
    OBVIOUS
  <2>1. PICK b : b = f[k]
    OBVIOUS
  <2>2. Within(b, c, A)
    BY <2>1
  <2>3. PICK x : x = w[k + 1]
    OBVIOUS
  <2>4. k + 1 \in 1 .. n /\ k + 1 - 1 = k
    OBVIOUS
  <2>5. PICK e : e = Emptiest(b)
    OBVIOUS
  <2>6. e \in 1 .. c /\ \A q \in 1 .. c : b[e] <= b[q]
    BY <2>2, <2>5, EmptiestIs DEF Within
  <2>7. PICK d : d = f[k + 1]
    OBVIOUS
  <2>8. d = [b EXCEPT ![e] = @ + x]
    BY <2>1, <2>3, <2>4, <2>5, <2>7 DEF FillsUp
  <2>9. x \in A
    BY <2>3, <2>4
  <2>10. Within(d, c, A)
    BY <2>2, <2>6, <2>8, <2>9, OneMoreBlock
  <2> QED BY <2>7, <2>10
<1>3. T \in SUBSET Nat
  OBVIOUS
<1> HIDE DEF T
<1>4. \A k \in Nat : k \in T
  BY <1>1, <1>2, <1>3, Climb
<1> QED BY <1>4 DEF T, AreWithin

(* What a partition has got is the area of the blocks placed into it.        *)
LEMMA SumsAreAreas ==
  ASSUME NEW c \in Nat, NEW n \in Nat, NEW A \in SUBSET Nat, NEW w, \A k \in 1 .. n : w[k] \in A,
         NEW f, AreWithin(f, c, A, n), StartsEmpty(f, c), FillsUp(f, w, n),
         NEW e, Placed(f, e, n), \A k \in 1 .. n : e[k] \in 1 .. c,
         NEW p \in 1 .. c, NEW g, Counts(g, e, w, p, n)
  PROVE  g[n] = f[n][p]
<1> DEFINE T == {k \in Nat : k <= n => g[k] = f[k][p]}
<1>1. 0 \in T
  <2>1. f[0][p] = 0
    BY DEF StartsEmpty
  <2> QED BY <2>1 DEF Counts
<1>2. ASSUME NEW k \in T PROVE k + 1 \in T
  <2> SUFFICES ASSUME k + 1 <= n PROVE g[k + 1] = f[k + 1][p]
    OBVIOUS
  <2>1. k + 1 \in 1 .. n /\ k + 1 - 1 = k /\ k \in 0 .. n
    OBVIOUS
  <2>2. PICK b \in [1 .. c -> Nat] : b = f[k]
    BY <2>1 DEF AreWithin, Within
  <2>3. g[k] = b[p]
    BY <2>1, <2>2
  <2>4. PICK q \in 1 .. c : q = e[k + 1]
    BY <2>1
  <2>5. PICK x \in Nat : x = w[k + 1]
    BY <2>1
  <2>6. PICK d : d = f[k + 1]
    OBVIOUS
  <2>7. d = [b EXCEPT ![q] = @ + x]
    <3>1. PICK j \in 1 .. n : j = k + 1 /\ j - 1 = k
      BY <2>1
    <3>2. f[j] = [f[j - 1] EXCEPT ![Emptiest(f[j - 1])] = @ + w[j]] /\ e[j] = Emptiest(f[j - 1])
      BY Zenon DEF FillsUp, Placed
    <3>3. f[j] = [b EXCEPT ![q] = @ + w[j]]
      BY <3>1, <3>2, <2>2, <2>4, Zenon
    <3> QED BY <3>1, <3>3, <2>5, <2>6, Zenon
  <2>8. PICK y : y = g[k + 1]
    OBVIOUS
  <2>9. y = b[p] + (IF q = p THEN x ELSE 0)
    BY <2>1, <2>3, <2>4, <2>5, <2>8 DEF Counts
  <2>10. y = d[p]
    BY <2>7, <2>9
  <2> QED BY <2>6, <2>8, <2>10
<1>3. T \in SUBSET Nat
  OBVIOUS
<1> HIDE DEF T
<1>4. \A k \in Nat : k \in T
  BY <1>1, <1>2, <1>3, Climb
<1> QED BY <1>4 DEF T

PlanParts == {"blocks", "count", "spread"}
Block == [area : Nat, partition : Nat]
PlanInv ==
  /\ DOMAIN plan = PlanParts
  /\ plan.blocks \in Seq(Block) /\ plan.count \in Nat \ {0}
  /\ Balanced

LEMMA Partitioned ==
  ASSUME PlanInv, Partition
  PROVE  PlanInv'
<1>1. PICK B \in Seq(Block) : B = plan.blocks
  BY DEF PlanInv
<1>2. PICK n \in Nat : n = Len(B)
  BY LenProperties
<1>3. PICK c \in Nat \ {0} : c = plan.count
  BY DEF PlanInv
<1>4. DOMAIN B = 1 .. n /\ \A k \in 1 .. n : B[k] \in Block
  BY <1>2, LenProperties, ElementOfSeq
<1> DEFINE f == CHOOSE h : h = [k \in 0 .. Len(plan.blocks) |-> Filled(h, k)]
<1>5. \E h : h = [k \in 0 .. Len(plan.blocks) |-> Filled(h, k)]
  BY <1>1, <1>2, AreasExist
<1>6. f = [k \in 0 .. Len(plan.blocks) |-> Filled(f, k)]
  BY <1>5, Zenon
<1>7. plan' = [plan EXCEPT
         !.blocks = [k \in DOMAIN plan.blocks |-> [plan.blocks[k] EXCEPT !.partition = Emptiest(f[k - 1])]],
         !.spread = TRUE]
  BY Zenon DEF Partition, Filled
<1> HIDE DEF f
<1>8. \A k \in 0 .. n : f[k] = Filled(f, k)
  BY <1>1, <1>2, <1>6, Zenon
<1>9. StartsEmpty(f, c)
  <2>1. f[0] = Filled(f, 0)
    BY <1>2, <1>8
  <2> QED BY <2>1, <1>3, Zenon DEF Filled, StartsEmpty
<1> DEFINE w == [k \in 1 .. n |-> B[k].area]
           e == [k \in 1 .. n |-> Emptiest(f[k - 1])]
           A == {0} \cup {B[i].area : i \in 1 .. n}
<1>10. A \in SUBSET Nat /\ 0 \in A /\ \A k \in 1 .. n : w[k] \in A /\ w[k] = B[k].area /\ e[k] = Emptiest(f[k - 1])
  BY <1>4 DEF Block
<1> HIDE DEF w, e, A
<1>11. FillsUp(f, w, n)
  <2> SUFFICES ASSUME NEW k \in 1 .. n PROVE f[k] = [f[k - 1] EXCEPT ![Emptiest(f[k - 1])] = @ + w[k]]
    BY Zenon DEF FillsUp
  <2>1. k \in 0 .. n /\ k # 0
    OBVIOUS
  <2>2. f[k] = [f[k - 1] EXCEPT ![Emptiest(f[k - 1])] = @ + plan.blocks[k].area]
    BY <2>1, <1>8, Zenon DEF Filled
  <2> QED BY <2>2, <1>1, <1>10, Zenon
<1>12. AreWithin(f, c, A, n)
  <2>1. \A k \in 1 .. n : w[k] \in A
    BY <1>10
  <2> QED BY <2>1, <1>3, <1>9, <1>10, <1>11, AreasSpread
<1>13. \A k \in 1 .. n : e[k] \in 1 .. c
  <2> SUFFICES ASSUME NEW k \in 1 .. n PROVE e[k] \in 1 .. c
    OBVIOUS
  <2>1. k - 1 \in 0 .. n
    OBVIOUS
  <2>2. PICK b \in [1 .. c -> Nat] : b = f[k - 1]
    BY <2>1, <1>12 DEF AreWithin, Within
  <2>3. Emptiest(b) \in 1 .. c
    BY <1>3, EmptiestIs
  <2> QED BY <2>2, <2>3, <1>10
<1>14. Placed(f, e, n)
  BY <1>10 DEF Placed
<1>15. PICK C : C = [k \in 1 .. n |-> [B[k] EXCEPT !.partition = e[k]]]
  OBVIOUS
<1>16. \A k \in 1 .. n : C[k] \in Block /\ C[k].area = w[k] /\ C[k].partition = e[k]
  BY <1>4, <1>10, <1>13, <1>15 DEF Block
<1>17. C \in Seq(Block) /\ Len(C) = n /\ DOMAIN C = 1 .. n
  <2>1. C \in [1 .. n -> Block]
    BY <1>15, <1>16
  <2>2. PICK S : S = Block
    OBVIOUS
  <2>3. C \in [1 .. n -> S]
    BY <2>1, <2>2
  <2>4. C \in Seq(S) /\ Len(C) = n /\ DOMAIN C = 1 .. n
    BY <2>3
  <2> QED BY <2>2, <2>4
<1>18. [k \in DOMAIN plan.blocks |-> [plan.blocks[k] EXCEPT !.partition = Emptiest(f[k - 1])]] = C
  BY <1>1, <1>4, <1>10, <1>15
<1>19. plan' = [plan EXCEPT !.blocks = C, !.spread = TRUE]
  BY <1>7, <1>18, Zenon
<1>20. DOMAIN plan' = PlanParts /\ plan'.blocks = C /\ plan'.count = c
  BY <1>3, <1>19 DEF PlanInv, PlanParts
<1>21. {0} \cup {C[i].area : i \in DOMAIN C} = A
  <2>1. \A k \in 1 .. n : C[k].area = B[k].area
    BY <1>10, <1>16
  <2>2. DOMAIN C = 1 .. n
    BY <1>17
  <2>3. {C[i].area : i \in DOMAIN C} = {B[i].area : i \in 1 .. n}
    BY <2>1, <2>2
  <2> QED BY <2>3 DEF A
<1>22. ASSUME NEW p \in 1 .. c PROVE AreaOf(C, p) = f[n][p]
  <2>1. PICK g : /\ AreaOf(C, p) = g[Len(C)] /\ g[0] = 0
                 /\ \A k \in 1 .. Len(C) : g[k] = g[k - 1] + (IF C[k].partition = p THEN C[k].area ELSE 0)
    BY <1>17, AreaUnfolds
  <2>2. Counts(g, e, w, p, n)
    <3> SUFFICES ASSUME NEW k \in 1 .. n PROVE g[k] = g[k - 1] + (IF e[k] = p THEN w[k] ELSE 0)
      BY <2>1 DEF Counts
    <3>1. C[k].partition = e[k] /\ C[k].area = w[k]
      BY <1>16
    <3>2. g[k] = g[k - 1] + (IF C[k].partition = p THEN C[k].area ELSE 0)
      BY <2>1, <1>17
    <3> QED BY <3>1, <3>2
  <2>3. g[n] = f[n][p]
    <3>1. PICK a \in SUBSET Nat : a = A
      BY <1>10
    <3>2. PICK cc \in Nat : cc = c
      OBVIOUS
    <3>3. \A k \in 1 .. n : w[k] \in a
      BY <1>10, <3>1
    <3>4. AreWithin(f, cc, a, n) /\ StartsEmpty(f, cc) /\ \A k \in 1 .. n : e[k] \in 1 .. cc
      BY <3>1, <3>2, <1>9, <1>12, <1>13, Zenon
    <3>5. p \in 1 .. cc
      BY <3>2
    <3> QED BY <3>3, <3>4, <3>5, <2>2, <1>11, <1>14, SumsAreAreas
  <2> QED BY <2>1, <2>3, <1>17
<1>23. ASSUME NEW p \in 1 .. c, NEW q \in 1 .. c
       PROVE  \E a \in {0} \cup {C[i].area : i \in DOMAIN C} : AreaOf(C, p) - AreaOf(C, q) <= a
  <2>1. Within(f[n], c, A)
    BY <1>12 DEF AreWithin
  <2> QED BY <2>1, <1>21, <1>22 DEF Within
<1>24. Balanced'
  BY <1>20, <1>23 DEF Balanced
<1> QED BY <1>17, <1>20, <1>24 DEF PlanInv

LEMMA PlanStarts == DieAssumption /\ DieInit => PlanInv
<1> SUFFICES ASSUME DieAssumption, DieInit PROVE PlanInv
  OBVIOUS
<1>1. PICK c \in Partitions : plan = [blocks |-> <<>>, count |-> c, spread |-> FALSE]
  BY DEF DieInit
<1> QED BY <1>1 DEF DieAssumption, PlanInv, PlanParts, Balanced

LEMMA PlanKeeps == DieAssumption /\ PlanInv /\ [PartitionNext]_plan => PlanInv'
<1> SUFFICES ASSUME DieAssumption, PlanInv, [PartitionNext]_plan PROVE PlanInv'
  OBVIOUS
<1>1. CASE plan' = plan
  BY <1>1 DEF PlanInv, Balanced
<1>2. ASSUME NEW area \in Areas, AddDesignBlock(area) PROVE PlanInv'
  <2>1. PICK B : B = Append(plan.blocks, [area |-> area, partition |-> 1])
    OBVIOUS
  <2>2. B \in Seq(Block)
    <3>1. [area |-> area, partition |-> 1] \in Block
      BY DEF DieAssumption, Block
    <3> QED BY <2>1, <3>1, AppendProperties DEF PlanInv
  <2>3. plan' = [plan EXCEPT !.blocks = B, !.spread = FALSE]
    BY <1>2, <2>1 DEF AddDesignBlock
  <2>4. DOMAIN plan' = PlanParts /\ plan'.blocks = B /\ plan'.count = plan.count /\ plan'.spread = FALSE
    BY <2>3 DEF PlanInv, PlanParts
  <2> QED BY <2>2, <2>4 DEF PlanInv, Balanced
<1>3. CASE Partition
  BY <1>3, Partitioned
<1> QED BY <1>1, <1>2, <1>3 DEF PartitionNext

-----------------------------------------------------------------------------
LEMMA ModuleStarts == DieInit => JoinedIn(dies, routes)
<1> SUFFICES ASSUME DieInit PROVE JoinedIn(dies, routes)
  OBVIOUS
<1>1. PICK D : D = dies /\ D = <<>>
  BY DEF DieInit
<1>2. PICK r : r = routes /\ r = <<>>
  BY DEF DieInit
<1>3. D \in Seq(Seq(Macro)) /\ DOMAIN D = {} /\ r \in Seq(Place \X Place) /\ 1 .. Len(r) = {}
  BY <1>1, <1>2
<1>4. PlacesIn(D) = {}
  BY <1>3 DEF PlacesIn
<1>5. JoinedIn(D, r)
  BY <1>3, <1>4 DEF JoinedIn, PairedIn
<1> QED BY <1>1, <1>2, <1>5

LEMMA ModuleKeeps == JoinedIn(dies, routes) /\ [ModuleNext]_moduleVars => JoinedIn(dies', routes')
<1> SUFFICES ASSUME JoinedIn(dies, routes), [ModuleNext]_moduleVars PROVE JoinedIn(dies', routes')
  OBVIOUS
<1>1. CASE UNCHANGED moduleVars
  BY <1>1 DEF moduleVars
<1>2. CASE AddDie
  BY <1>2, DieAdded
<1>3. ASSUME NEW d \in DOMAIN dies, NEW width \in {1, 4}, AddPhy(d, width) PROVE JoinedIn(dies', routes')
  BY <1>3, MacroAdded
<1>4. ASSUME NEW d, NEW e, NEW p, NEW q, ConnectPhys(d, p, e, q) PROVE JoinedIn(dies', routes')
  BY <1>4, PhysConnected
<1> QED BY <1>1, <1>2, <1>3, <1>4 DEF ModuleNext

(* Two macros that were joined once point at each other, a module of dies    *)
(* validates exactly when each of its dies is an end of a route, the width   *)
(* of a module is that of its routes' ends, and the greedy partitioner never *)
(* leaves two partitions further apart than the largest block.               *)
THEOREM ModuleIsSound == DieAssumption => (DieSpec => []ModuleSound)
<1> SUFFICES ASSUME DieAssumption PROVE DieSpec => []ModuleSound
  OBVIOUS
<1> DEFINE Inv == JoinedIn(dies, routes)
<1>1. DieInit => Inv /\ PlanInv
  BY ModuleStarts, PlanStarts
<1>2. Inv /\ [ModuleNext]_moduleVars => Inv'
  BY ModuleKeeps
<1>3. PlanInv /\ [PartitionNext]_plan => PlanInv'
  BY PlanKeeps
<1>4. Inv /\ PlanInv => ModuleSound
  BY MacrosAreJoined DEF PlanInv, ModuleSound
<1> HIDE DEF Inv
<1> QED BY <1>1, <1>2, <1>3, <1>4, PTL DEF DieSpec
=============================================================================
