------------------------------ MODULE Hls_proofs ------------------------------
(***************************************************************************)
(* Proofs about high-level synthesis, for every graph, delay, latency asked   *)
(* for and number of registers and states: the schedules keep the dependences, *)
(* values that share a register do not live together, the controller runs the  *)
(* schedule, and the windows of the pipelined graph hold.  And about what is    *)
(* done around it: loops keep their work, banks their array, and the tables of   *)
(* channels and directives agree.                                            *)
(***************************************************************************)
EXTENDS MCHls, FiniteSetTheorems, SequenceTheorems, WellFoundedInduction, TLAPS

(* A set of numbers that has one has a least one.                            *)
LEMMA LeastElement ==
  ASSUME NEW T \in SUBSET Nat, T # {}
  PROVE  \E m \in T : \A k \in T : m <= k
<1> DEFINE R == {ss \in Nat \X Nat : ss[1] < ss[2]}
<1>1. IsWellFoundedOn(R, Nat)
  BY NatLessThanWellFounded DEF OpToRel
<1> HIDE DEF R
<1>2. PICK m \in T : \A k \in T : ~ (<<k, m>> \in R)
  BY <1>1, WFMin
<1>3. ASSUME NEW k \in T PROVE m <= k
  <2>1. ~ (<<k, m>> \in R)
    BY <1>2
  <2>2. k \in Nat /\ m \in Nat
    OBVIOUS
  <2> QED BY <2>1, <2>2 DEF R
<1> QED BY <1>3

(* What holds of 0 and of every successor holds of every number.             *)
LEMMA Climb ==
  ASSUME NEW T \in SUBSET Nat, 0 \in T, \A n \in T : n + 1 \in T
  PROVE  \A n \in Nat : n \in T
<1> SUFFICES ASSUME Nat \ T # {} PROVE FALSE
  OBVIOUS
<1>1. PICK m \in Nat \ T : \A k \in Nat \ T : m <= k
  BY LeastElement
<1>2. m # 0 /\ m - 1 \in Nat
  BY <1>1
<1>3. m - 1 \in T
  BY <1>1, <1>2
<1>4. (m - 1) + 1 \in T
  BY <1>3
<1> QED BY <1>1, <1>4
-----------------------------------------------------------------------------
(* A loop is its last round.                                                 *)
Round(f, k, start, step) == IF k = 0 THEN start ELSE step[k][f[k - 1]]
Rounds(f, n, start, step) == f = [k \in 0 .. n |-> Round(f, k, start, step)]

LEMMA RoundsExist ==
  ASSUME NEW start, NEW step
  PROVE  \A n \in Nat : \E f : Rounds(f, n, start, step)
<1> DEFINE T == {n \in Nat : \E f : Rounds(f, n, start, step)}
<1>1. 0 \in T
  <2> DEFINE f == [k \in 0 .. 0 |-> start]
  <2>1. Rounds(f, 0, start, step)
    BY DEF Round, Rounds
  <2> QED BY <2>1
<1>2. ASSUME NEW n \in T PROVE n + 1 \in T
  <2>1. PICK g : Rounds(g, n, start, step)
    OBVIOUS
  <2>2. n \in Nat
    OBVIOUS
  <2> DEFINE f == [k \in 0 .. n + 1 |-> IF k = n + 1 THEN Round(g, n + 1, start, step) ELSE g[k]]
  <2>3. \A k \in 0 .. n : g[k] = Round(g, k, start, step)
    BY <2>1, Zenon DEF Rounds
  <2>4. ASSUME NEW k \in 0 .. n + 1 PROVE f[k] = Round(f, k, start, step)
    <3>1. f[k] = Round(g, k, start, step)
      <4>1. CASE k = n + 1
        BY <4>1
      <4>2. CASE k # n + 1
        <5>1. k \in 0 .. n
          BY <2>2, <4>2
        <5> QED BY <2>3, <4>2, <5>1
      <4> QED BY <4>1, <4>2
    <3>2. CASE k = 0
      BY <3>1, <3>2 DEF Round
    <3>3. CASE k # 0
      <4>1. k - 1 \in 0 .. n + 1 /\ k - 1 # n + 1
        BY <2>2, <3>3
      <4>2. f[k - 1] = g[k - 1]
        BY <4>1
      <4> QED BY <3>1, <3>3, <4>2 DEF Round
    <3> QED BY <3>2, <3>3
  <2>5. Rounds(f, n + 1, start, step)
    BY <2>4 DEF Rounds
  <2>6. \E h : Rounds(h, n + 1, start, step)
    BY <2>5
  <2> QED BY <2>2, <2>6
<1> HIDE DEF T
<1>3. \A n \in Nat : n \in T
  <2>1. T \in SUBSET Nat
    BY DEF T
  <2> QED BY <1>1, <1>2, <2>1, Climb
<1> QED BY <1>3 DEF T

(* When what is true after a round makes the next thing true after the next    *)
(* one, the last thing is true of the loop's result.                         *)
LEMMA LoopKeeps ==
  ASSUME NEW n \in Nat, NEW start, NEW step, NEW S,
         start \in S[0], \A k \in 1 .. n : \A x \in S[k - 1] : step[k][x] \in S[k]
  PROVE  Loop(n, start, step) \in S[n]
<1> DEFINE g == CHOOSE h : Rounds(h, n, start, step)
<1>1. \E h : Rounds(h, n, start, step)
  BY RoundsExist
<1>2. g = [k \in 0 .. n |-> Round(g, k, start, step)]
  BY <1>1, Zenon DEF Rounds
<1>3. Loop(n, start, step) = g[n]
  BY Zenon DEF Loop, Round, Rounds
<1> HIDE DEF g
<1>4. \A k \in 0 .. n : g[k] = Round(g, k, start, step)
  BY <1>2, Zenon
<1> DEFINE T == {k \in Nat : k <= n => g[k] \in S[k]}
<1>5. 0 \in T
  BY <1>4 DEF Round
<1>6. ASSUME NEW k \in T PROVE k + 1 \in T
  <2> SUFFICES ASSUME k + 1 <= n PROVE g[k + 1] \in S[k + 1]
    OBVIOUS
  <2>1. k + 1 \in 1 .. n /\ k + 1 \in 0 .. n /\ (k + 1) - 1 = k /\ k + 1 # 0
    OBVIOUS
  <2>2. g[k] \in S[k]
    OBVIOUS
  <2>3. g[k + 1] = step[k + 1][g[k]]
    BY <1>4, <2>1 DEF Round
  <2> QED BY <2>1, <2>2, <2>3
<1> HIDE DEF T
<1>7. \A k \in Nat : k \in T
  <2>1. T \in SUBSET Nat
    BY DEF T
  <2> QED BY <1>5, <1>6, <2>1, Climb
<1> QED BY <1>3, <1>7 DEF T
-----------------------------------------------------------------------------
(* The schedulers that follow the edges.                                     *)
EdgeType == [from : Nodes, to : Nodes, delay : 0 .. MaxDelay]
GraphType ==
  /\ ops \in Seq(OpsUsed \cup {"LOAD"}) /\ Len(ops) \in Nat /\ DOMAIN ops = Nodes
  /\ edges \in Seq(EdgeType)

EdgeMet(t, e) == t[e.from] + Latency(e.from) + e.delay <= t[e.to]
EndOf(back, e) == IF back THEN e.from ELSE e.to
Grown(back, t, r) == \A i \in Nodes : IF back THEN r[i] <= t[i] ELSE r[i] >= t[i]

LEMMA EdgeAt ==
  ASSUME HlsAssumption, GraphType
  PROVE  /\ Len(edges) \in Nat /\ DOMAIN edges = 1 .. Len(edges)
         /\ \A k \in 1 .. Len(edges) : /\ edges[k].from \in Nodes /\ edges[k].to \in Nodes /\ edges[k].delay \in Nat
                                       /\ edges[k] = [from |-> edges[k].from, to |-> edges[k].to, delay |-> edges[k].delay]
<1>1. Len(edges) \in Nat /\ DOMAIN edges = 1 .. Len(edges)
      /\ \A k \in 1 .. Len(edges) : edges[k] \in EdgeType
  BY ElementOfSeq, LenProperties DEF GraphType
<1>2. \A d \in 0 .. MaxDelay : d \in Nat
  BY DEF HlsAssumption
<1> QED BY <1>1, <1>2 DEF EdgeType

(* An edge that is relaxed is met; only its end moves, and only one way.       *)
LEMMA RelaxedIs ==
  ASSUME HlsAssumption, GraphType, NEW t \in Times, NEW back \in BOOLEAN, NEW k \in 1 .. Len(edges)
  PROVE  LET e == edges[k]
             r == Relaxed(back, t, e)
         IN  /\ r \in Times /\ Grown(back, t, r)
             /\ \A i \in Nodes : i # EndOf(back, e) => r[i] = t[i]
             /\ EdgeMet(t, e) => r = t
             /\ e.from # e.to => EdgeMet(r, e)
<1> DEFINE e == edges[k]
           r == Relaxed(back, t, e)
<1>1. e.from \in Nodes /\ e.to \in Nodes /\ e.delay \in Nat
  BY EdgeAt
<1>2. Latency(e.from) \in Nat
  BY DEF Latency
<1>3. t[e.from] \in Int /\ t[e.to] \in Int /\ \A i \in Nodes : t[i] \in Int
  BY <1>1 DEF Times
<1> DEFINE i == EndOf(back, e)
           new == IF back THEN t[e.to] - Latency(e.from) - e.delay ELSE t[e.from] + Latency(e.from) + e.delay
<1> HIDE DEF e
<1>4. i \in Nodes /\ new \in Int
  BY <1>1, <1>2, <1>3 DEF EndOf
<1>5. \/ r = t /\ EdgeMet(t, e)
      \/ r = [t EXCEPT ![i] = new] /\ ~EdgeMet(t, e) /\ (IF back THEN new < t[i] ELSE new > t[i])
  <2> DEFINE lat == Latency(e.from)
  <2> HIDE DEF lat
  <2>1. CASE back
    <3>1. r = IF t[e.to] - lat - e.delay < t[e.from] THEN [t EXCEPT ![e.from] = t[e.to] - lat - e.delay] ELSE t
      BY <2>1 DEF Relaxed, Backward, lat
    <3>2. i = e.from /\ new = t[e.to] - lat - e.delay
      BY <2>1 DEF EndOf, lat
    <3>3. EdgeMet(t, e) <=> t[e.from] + lat + e.delay <= t[e.to]
      BY DEF EdgeMet, lat
    <3>4. lat \in Nat
      BY <1>2 DEF lat
    <3> HIDE DEF r, new, i
    <3> QED BY <1>1, <1>3, <2>1, <3>1, <3>2, <3>3, <3>4
  <2>2. CASE ~back
    <3>1. r = IF t[e.from] + lat + e.delay > t[e.to] THEN [t EXCEPT ![e.to] = t[e.from] + lat + e.delay] ELSE t
      BY <2>2 DEF Relaxed, Forward, lat
    <3>2. i = e.to /\ new = t[e.from] + lat + e.delay
      BY <2>2 DEF EndOf, lat
    <3>3. EdgeMet(t, e) <=> t[e.from] + lat + e.delay <= t[e.to]
      BY DEF EdgeMet, lat
    <3>4. lat \in Nat
      BY <1>2 DEF lat
    <3> HIDE DEF r, new, i
    <3> QED BY <1>1, <1>3, <2>2, <3>1, <3>2, <3>3, <3>4
  <2> QED BY <2>1, <2>2
<1> HIDE DEF r, new
<1>6. CASE r = t /\ EdgeMet(t, e)
  BY <1>3, <1>6 DEF r, e, Grown
<1>7. CASE r = [t EXCEPT ![i] = new] /\ ~EdgeMet(t, e) /\ (IF back THEN new < t[i] ELSE new > t[i])
  <2>1. r \in Times /\ \A j \in Nodes : r[j] = IF j = i THEN new ELSE t[j]
    BY <1>4, <1>7 DEF Times
  <2>2. Grown(back, t, r)
    BY <1>3, <1>4, <1>7, <2>1 DEF Grown
  <2>3. e.from # e.to => EdgeMet(r, e)
    <3> DEFINE lat == Latency(e.from)
    <3>1. lat \in Nat
      BY <1>2
    <3>2. EdgeMet(r, e) <=> r[e.from] + lat + e.delay <= r[e.to]
      BY DEF EdgeMet
    <3>3. new = (IF back THEN t[e.to] - lat - e.delay ELSE t[e.from] + lat + e.delay)
      BY DEF new
    <3>4. i = (IF back THEN e.from ELSE e.to)
      BY DEF EndOf
    <3> HIDE DEF lat, i
    <3>5. ASSUME back, e.from # e.to PROVE EdgeMet(r, e)
      <4>1. r[e.from] = t[e.to] - lat - e.delay /\ r[e.to] = t[e.to]
        BY <1>1, <2>1, <3>3, <3>4, <3>5
      <4> QED BY <1>1, <1>3, <3>1, <3>2, <4>1
    <3>6. ASSUME ~back, e.from # e.to PROVE EdgeMet(r, e)
      <4>1. r[e.to] = t[e.from] + lat + e.delay /\ r[e.from] = t[e.from]
        BY <1>1, <2>1, <3>3, <3>4, <3>6
      <4> QED BY <1>1, <1>3, <3>1, <3>2, <4>1
    <3> QED BY <3>5, <3>6
  <2> QED BY <1>7, <2>1, <2>2, <2>3 DEF r, e
<1> QED BY <1>5, <1>6, <1>7

LEMMA PassTypes ==
  ASSUME HlsAssumption, GraphType, NEW t \in Times, NEW back \in BOOLEAN
  PROVE  Pass(back, t) \in Times /\ Grown(back, t, Pass(back, t))
<1> DEFINE S == [k \in 0 .. Len(edges) |-> {u \in Times : Grown(back, t, u)}]
           step == [k \in 1 .. Len(edges) |-> [u \in Times |-> Relaxed(back, u, edges[k])]]
<1>0. Len(edges) \in Nat
  BY EdgeAt
<1>1. t \in S[0]
  BY <1>0 DEF Grown, Times
<1>2. ASSUME NEW k \in 1 .. Len(edges), NEW u \in S[k - 1] PROVE step[k][u] \in S[k]
  <2>1. k - 1 \in 0 .. Len(edges) /\ k \in 0 .. Len(edges)
    BY <1>0
  <2>2. u \in Times /\ Grown(back, t, u)
    BY <2>1
  <2>3. step[k][u] = Relaxed(back, u, edges[k])
    BY <2>2
  <2>4. Relaxed(back, u, edges[k]) \in Times /\ Grown(back, u, Relaxed(back, u, edges[k]))
    BY <2>2, RelaxedIs
  <2>5. \A i \in Nodes : t[i] \in Int /\ u[i] \in Int /\ Relaxed(back, u, edges[k])[i] \in Int
    BY <2>2, <2>4 DEF Times
  <2>6. Grown(back, t, Relaxed(back, u, edges[k]))
    BY <2>2, <2>4, <2>5 DEF Grown
  <2> QED BY <2>1, <2>3, <2>4, <2>6
<1>3. Pass(back, t) = Loop(Len(edges), t, step)
  BY DEF Pass
<1> HIDE DEF step
<1>4. \A k \in 1 .. Len(edges) : \A u \in S[k - 1] : step[k][u] \in S[k]
  BY <1>2
<1>5. S[Len(edges)] = {u \in Times : Grown(back, t, u)}
  BY <1>0
<1> HIDE DEF S
<1>6. Loop(Len(edges), t, step) \in S[Len(edges)]
  BY <1>0, <1>1, <1>4, LoopKeeps
<1> QED BY <1>3, <1>5, <1>6

LEMMA PassesTypes ==
  ASSUME HlsAssumption, GraphType, NEW start \in Times, NEW back \in BOOLEAN
  PROVE  Passes(back, start) \in Times /\ Grown(back, start, Passes(back, start))
<1> DEFINE n == 2 * Len(ops)
           S == [k \in 0 .. n |-> {u \in Times : Grown(back, start, u)}]
           step == [k \in 1 .. n |-> [u \in Times |-> Pass(back, u)]]
<1>0. n \in Nat
  BY DEF GraphType
<1>1. start \in S[0]
  BY <1>0 DEF Grown, Times
<1> HIDE DEF n
<1>2. ASSUME NEW k \in 1 .. n, NEW u \in S[k - 1] PROVE step[k][u] \in S[k]
  <2>1. k - 1 \in 0 .. n /\ k \in 0 .. n
    BY <1>0
  <2>2. u \in Times /\ Grown(back, start, u)
    BY <2>1
  <2>3. step[k][u] = Pass(back, u)
    BY <2>2
  <2>4. Pass(back, u) \in Times /\ Grown(back, u, Pass(back, u))
    BY <2>2, PassTypes
  <2>5. \A i \in Nodes : start[i] \in Int /\ u[i] \in Int /\ Pass(back, u)[i] \in Int
    BY <2>2, <2>4 DEF Times
  <2>6. Grown(back, start, Pass(back, u))
    BY <2>2, <2>4, <2>5 DEF Grown
  <2> QED BY <2>1, <2>3, <2>4, <2>6
<1>3. Passes(back, start) = Loop(n, start, step)
  BY DEF Passes, n
<1> HIDE DEF step
<1>4. \A k \in 1 .. n : \A u \in S[k - 1] : step[k][u] \in S[k]
  BY <1>2
<1>5. S[n] = {u \in Times : Grown(back, start, u)}
  BY <1>0
<1> HIDE DEF S
<1>6. Loop(n, start, step) \in S[n]
  BY <1>0, <1>1, <1>4, LoopKeeps
<1> QED BY <1>3, <1>5, <1>6

(* The levels of an acyclic graph, counted from where the passes start.       *)
Ranked(rank) ==
  /\ rank \in [Nodes -> 1 .. Len(ops)]
  /\ \A k \in 1 .. Len(edges) : rank[edges[k].from] < rank[edges[k].to]
Level(back, rank, i) == IF back THEN Len(ops) + 1 - rank[i] ELSE rank[i]
SourceOf(back, e) == IF back THEN e.to ELSE e.from
Settled(back, rank, m, t) ==
  \A k \in 1 .. Len(edges) : Level(back, rank, EndOf(back, edges[k])) <= m => EdgeMet(t, edges[k])

LEMMA LevelAt ==
  ASSUME HlsAssumption, GraphType, NEW rank, Ranked(rank), NEW back \in BOOLEAN, NEW k \in 1 .. Len(edges)
  PROVE  LET e == edges[k]
         IN  /\ e.from # e.to /\ EndOf(back, e) \in Nodes /\ SourceOf(back, e) \in Nodes
             /\ SourceOf(back, e) # EndOf(back, e)
             /\ Level(back, rank, EndOf(back, e)) \in 1 .. Len(ops)
             /\ Level(back, rank, SourceOf(back, e)) \in Int
             /\ Level(back, rank, SourceOf(back, e)) < Level(back, rank, EndOf(back, e))
<1> DEFINE e == edges[k]
<1>1. e.from \in Nodes /\ e.to \in Nodes
  BY EdgeAt
<1>2. rank[e.from] < rank[e.to] /\ rank[e.from] \in 1 .. Len(ops) /\ rank[e.to] \in 1 .. Len(ops)
  BY <1>1 DEF Ranked
<1>3. Len(ops) \in Nat
  BY DEF GraphType
<1> HIDE DEF e
<1>4. CASE back
  BY <1>1, <1>2, <1>3, <1>4 DEF EndOf, SourceOf, Level, e
<1>5. CASE ~back
  BY <1>1, <1>2, <1>3, <1>5 DEF EndOf, SourceOf, Level, e
<1> QED BY <1>4, <1>5

(* Where all edges up to a level are met, relaxing an edge undoes none that    *)
(* is met up to the next level.                                              *)
LEMMA RelaxedKeeps ==
  ASSUME HlsAssumption, GraphType, NEW rank, Ranked(rank), NEW back \in BOOLEAN, NEW m \in Nat,
         NEW t \in Times, Settled(back, rank, m, t), NEW k \in 1 .. Len(edges), NEW j \in 1 .. Len(edges),
         Level(back, rank, EndOf(back, edges[j])) <= m + 1, EdgeMet(t, edges[j])
  PROVE  EdgeMet(Relaxed(back, t, edges[k]), edges[j])
<1> DEFINE r == Relaxed(back, t, edges[k])
           a == EndOf(back, edges[j])
           b == SourceOf(back, edges[j])
<1>1. /\ r \in Times /\ Grown(back, t, r)
      /\ \A i \in Nodes : i # EndOf(back, edges[k]) => r[i] = t[i]
      /\ EdgeMet(t, edges[k]) => r = t
  BY RelaxedIs
<1>2. CASE Level(back, rank, EndOf(back, edges[k])) <= m
  BY <1>1, <1>2 DEF Settled
<1>3. CASE ~(Level(back, rank, EndOf(back, edges[k])) <= m)
  <2>1. /\ a \in Nodes /\ b \in Nodes /\ a # b
        /\ Level(back, rank, a) \in Int /\ Level(back, rank, b) \in Int
        /\ Level(back, rank, b) < Level(back, rank, a)
    BY LevelAt
  <2>2. EndOf(back, edges[k]) # b
    BY <1>3, <2>1
  <2>3. r[b] = t[b] /\ (IF back THEN r[a] <= t[a] ELSE r[a] >= t[a])
    BY <1>1, <2>1, <2>2 DEF Grown
  <2>4. edges[j].from \in Nodes /\ edges[j].to \in Nodes /\ edges[j].delay \in Nat
    BY EdgeAt
  <2> DEFINE lat == Latency(edges[j].from)
             d == edges[j].delay
  <2>5. lat \in Nat
    BY DEF Latency
  <2>6. r[a] \in Int /\ t[a] \in Int /\ t[b] \in Int
    BY <1>1, <2>1 DEF Times
  <2> HIDE DEF r
  <2>7. CASE back
    <3>1. a = edges[j].from /\ b = edges[j].to
      BY <2>7 DEF EndOf, SourceOf
    <3>2. t[a] + lat + d <= t[b]
      BY <3>1 DEF EdgeMet
    <3> HIDE DEF a, b, lat, d
    <3>3. r[a] + lat + d <= r[b]
      <4>1. r[a] <= t[a] /\ r[b] = t[b] /\ d \in Nat
        BY <2>3, <2>4, <2>6, <2>7 DEF d
      <4> QED BY <2>5, <2>6, <3>2, <4>1
    <3> QED BY <3>1, <3>3 DEF EdgeMet, r, lat, d
  <2>8. CASE ~back
    <3>1. a = edges[j].to /\ b = edges[j].from
      BY <2>8 DEF EndOf, SourceOf
    <3>2. t[b] + lat + d <= t[a]
      BY <3>1 DEF EdgeMet
    <3> HIDE DEF a, b, lat, d
    <3>3. r[b] + lat + d <= r[a]
      <4>1. t[a] <= r[a] /\ r[b] = t[b] /\ d \in Nat
        BY <2>3, <2>4, <2>6, <2>8 DEF d
      <4> QED BY <2>5, <2>6, <3>2, <4>1
    <3> QED BY <3>1, <3>3 DEF EdgeMet, r, lat, d
  <2> QED BY <2>7, <2>8
<1> QED BY <1>2, <1>3

(* A pass settles one more level.                                            *)
LEMMA PassSettles ==
  ASSUME HlsAssumption, GraphType, NEW rank, Ranked(rank), NEW back \in BOOLEAN, NEW m \in Nat,
         NEW t \in Times, Settled(back, rank, m, t)
  PROVE  Settled(back, rank, m + 1, Pass(back, t))
<1> DEFINE Kept(k, u) ==
             /\ Settled(back, rank, m, u)
             /\ \A j \in 1 .. k : Level(back, rank, EndOf(back, edges[j])) <= m + 1 => EdgeMet(u, edges[j])
           S == [k \in 0 .. Len(edges) |-> {u \in Times : Kept(k, u)}]
           step == [k \in 1 .. Len(edges) |-> [u \in Times |-> Relaxed(back, u, edges[k])]]
<1>0. Len(edges) \in Nat
  BY EdgeAt
<1>1. t \in S[0]
  BY <1>0
<1>2. ASSUME NEW k \in 1 .. Len(edges), NEW u \in S[k - 1] PROVE step[k][u] \in S[k]
  <2>1. k - 1 \in 0 .. Len(edges) /\ k \in 0 .. Len(edges) /\ k \in Nat
    BY <1>0
  <2>2. u \in Times /\ Kept(k - 1, u)
    BY <2>1
  <2> DEFINE r == Relaxed(back, u, edges[k])
  <2>3. step[k][u] = r
    BY <2>2
  <2>4. r \in Times /\ EdgeMet(r, edges[k])
    BY <2>2, RelaxedIs, LevelAt
  <2>5. \A j \in 1 .. Len(edges) :
          Level(back, rank, EndOf(back, edges[j])) <= m + 1 /\ EdgeMet(u, edges[j]) => EdgeMet(r, edges[j])
    BY <2>2, RelaxedKeeps
  <2> HIDE DEF r
  <2>6. Settled(back, rank, m, r)
    <3> SUFFICES ASSUME NEW j \in 1 .. Len(edges), Level(back, rank, EndOf(back, edges[j])) <= m
                 PROVE  EdgeMet(r, edges[j])
      BY DEF Settled
    <3>1. Level(back, rank, EndOf(back, edges[j])) \in Int
      BY LevelAt
    <3>2. Level(back, rank, EndOf(back, edges[j])) <= m + 1
      BY <3>1
    <3>3. EdgeMet(u, edges[j])
      BY <2>2 DEF Settled
    <3> QED BY <2>5, <3>2, <3>3
  <2>7. ASSUME NEW j \in 1 .. k, Level(back, rank, EndOf(back, edges[j])) <= m + 1 PROVE EdgeMet(r, edges[j])
    <3>1. j = k \/ (j \in 1 .. (k - 1) /\ j \in 1 .. Len(edges))
      BY <1>0
    <3>2. CASE j \in 1 .. (k - 1) /\ j \in 1 .. Len(edges)
      BY <2>2, <2>5, <2>7, <3>2
    <3> QED BY <2>4, <3>1, <3>2
  <2> QED BY <2>1, <2>3, <2>4, <2>6, <2>7
<1>3. Pass(back, t) = Loop(Len(edges), t, step)
  BY DEF Pass
<1> HIDE DEF step
<1>4. \A k \in 1 .. Len(edges) : \A u \in S[k - 1] : step[k][u] \in S[k]
  BY <1>2
<1>5. S[Len(edges)] = {u \in Times : Kept(Len(edges), u)}
  BY <1>0
<1> HIDE DEF S
<1>6. Loop(Len(edges), t, step) \in S[Len(edges)]
  BY <1>0, <1>1, <1>4, LoopKeeps
<1>7. Kept(Len(edges), Pass(back, t))
  BY <1>3, <1>5, <1>6
<1> QED BY <1>7 DEF Settled

(* As many passes as there are levels meet every edge.                        *)
LEMMA PassesMeet ==
  ASSUME HlsAssumption, GraphType, NEW rank, Ranked(rank), NEW back \in BOOLEAN, NEW start \in Times
  PROVE  \A k \in 1 .. Len(edges) : EdgeMet(Passes(back, start), edges[k])
<1> DEFINE n == 2 * Len(ops)
           S == [k \in 0 .. n |-> {u \in Times : Settled(back, rank, k, u)}]
           step == [k \in 1 .. n |-> [u \in Times |-> Pass(back, u)]]
<1>0. n \in Nat /\ Len(ops) \in Nat /\ Len(ops) <= n
  BY DEF GraphType
<1> HIDE DEF n
<1>1. start \in S[0]
  <2>1. Settled(back, rank, 0, start)
    BY LevelAt DEF Settled
  <2> QED BY <1>0, <2>1
<1>2. ASSUME NEW k \in 1 .. n, NEW u \in S[k - 1] PROVE step[k][u] \in S[k]
  <2>1. k - 1 \in 0 .. n /\ k \in 0 .. n /\ k - 1 \in Nat /\ (k - 1) + 1 = k
    BY <1>0
  <2>2. u \in Times /\ Settled(back, rank, k - 1, u)
    BY <2>1
  <2>3. step[k][u] = Pass(back, u)
    BY <2>2
  <2>4. Pass(back, u) \in Times
    BY <2>2, PassTypes
  <2>5. Settled(back, rank, k, Pass(back, u))
    BY <2>1, <2>2, PassSettles
  <2> QED BY <2>1, <2>3, <2>4, <2>5
<1>3. Passes(back, start) = Loop(n, start, step)
  BY DEF Passes, n
<1> HIDE DEF step
<1>4. \A k \in 1 .. n : \A u \in S[k - 1] : step[k][u] \in S[k]
  BY <1>2
<1>5. S[n] = {u \in Times : Settled(back, rank, n, u)}
  BY <1>0
<1> HIDE DEF S
<1>6. Loop(n, start, step) \in S[n]
  BY <1>0, <1>1, <1>4, LoopKeeps
<1>7. Settled(back, rank, n, Passes(back, start))
  BY <1>3, <1>5, <1>6
<1> SUFFICES ASSUME NEW k \in 1 .. Len(edges) PROVE EdgeMet(Passes(back, start), edges[k])
  OBVIOUS
<1>8. Level(back, rank, EndOf(back, edges[k])) \in 1 .. Len(ops)
  BY LevelAt
<1>9. Level(back, rank, EndOf(back, edges[k])) <= n
  BY <1>0, <1>8
<1> QED BY <1>7, <1>9 DEF Settled

LEMMA AcyclicRanked == ASSUME HlsAssumption, GraphType, Acyclic PROVE \E rank : Ranked(rank)
BY EdgeAt DEF Acyclic, Ranked

LEMMA AsapIs ==
  ASSUME HlsAssumption, GraphType
  PROVE  /\ Asap \in [Nodes -> Nat]
         /\ Acyclic => \A k \in 1 .. Len(edges) : EdgeMet(Asap, edges[k])
<1> DEFINE zeros == [i \in Nodes |-> 0]
<1>1. zeros \in Times
  BY DEF Times
<1>2. Asap = Passes(FALSE, zeros)
  BY DEF Asap
<1>3. \A i \in Nodes : zeros[i] = 0
  OBVIOUS
<1> HIDE DEF zeros
<1>4. Asap \in Times /\ Grown(FALSE, zeros, Asap)
  BY <1>1, <1>2, PassesTypes
<1>5. Asap \in [Nodes -> Nat]
  <2>1. \A i \in Nodes : Asap[i] \in Int /\ Asap[i] >= 0
    BY <1>3, <1>4 DEF Grown, Times
  <2>2. \A i \in Nodes : Asap[i] \in Nat
    BY <2>1
  <2> QED BY <1>4, <2>2 DEF Times
<1>6. ASSUME Acyclic PROVE \A k \in 1 .. Len(edges) : EdgeMet(Asap, edges[k])
  <2>1. PICK rank : Ranked(rank)
    BY <1>6, AcyclicRanked
  <2> QED BY <1>1, <1>2, <2>1, PassesMeet
<1> QED BY <1>5, <1>6

(* The later of two schedules that keep the dependences keeps them.           *)
LEMMA LatestIs ==
  ASSUME HlsAssumption, GraphType, NEW limit \in Int
  PROVE  /\ Latest(limit) \in [Nodes -> Nat]
         /\ Acyclic => \A k \in 1 .. Len(edges) : EdgeMet(Latest(limit), edges[k])
<1> DEFINE limits == [i \in Nodes |-> limit]
           early == Asap
           late == Alap(limit)
<1>1. limits \in Times
  BY DEF Times
<1>2. late = Passes(TRUE, limits)
  BY DEF Alap
<1> HIDE DEF limits, early, late
<1>3. late \in Times
  BY <1>1, <1>2, PassesTypes
<1>4. early \in [Nodes -> Nat]
  BY AsapIs DEF early
<1>5. Latest(limit) = [i \in Nodes |-> IF late[i] > early[i] THEN late[i] ELSE early[i]]
  BY DEF Latest, Later, early, late
<1>6. \A i \in Nodes : late[i] \in Int /\ early[i] \in Nat
  BY <1>3, <1>4 DEF Times
<1>7. \A i \in Nodes : /\ Latest(limit)[i] \in Nat /\ Latest(limit)[i] >= late[i] /\ Latest(limit)[i] >= early[i]
                       /\ Latest(limit)[i] = late[i] \/ Latest(limit)[i] = early[i]
  BY <1>5, <1>6
<1>8. Latest(limit) \in [Nodes -> Nat]
  BY <1>5, <1>7
<1>9. ASSUME Acyclic, NEW k \in 1 .. Len(edges) PROVE EdgeMet(Latest(limit), edges[k])
  <2>1. PICK rank : Ranked(rank)
    BY <1>9, AcyclicRanked
  <2> DEFINE a == edges[k].from
             b == edges[k].to
             d == edges[k].delay
             lat == Latency(a)
             t == Latest(limit)
  <2>2. EdgeMet(early, edges[k]) /\ EdgeMet(late, edges[k])
    BY <1>1, <1>2, <1>9, <2>1, AsapIs, PassesMeet DEF early
  <2>3. early[a] + lat + d <= early[b] /\ late[a] + lat + d <= late[b]
    BY <2>2 DEF EdgeMet
  <2>4. a \in Nodes /\ b \in Nodes /\ d \in Nat
    BY EdgeAt
  <2>5. lat \in Nat
    BY DEF Latency
  <2> HIDE DEF a, b, d, lat, t
  <2>6. t[a] + lat + d <= t[b]
    <3>1. early[a] \in Int /\ early[b] \in Int /\ late[a] \in Int /\ late[b] \in Int /\ t[b] \in Int
      BY <1>6, <1>7, <2>4 DEF t
    <3>2. t[b] >= early[b] /\ t[b] >= late[b] /\ (t[a] = late[a] \/ t[a] = early[a])
      BY <1>7, <2>4 DEF t
    <3>3. d \in Int /\ lat \in Int
      BY <2>4, <2>5
    <3> HIDE DEF t, d
    <3>4. CASE t[a] = late[a]
      <4>1. late[a] + lat + d <= late[b]
        BY <2>3
      <4> QED BY <3>1, <3>2, <3>3, <3>4, <4>1
    <3>5. CASE t[a] = early[a]
      <4>1. early[a] + lat + d <= early[b]
        BY <2>3
      <4> QED BY <3>1, <3>2, <3>3, <3>5, <4>1
    <3> QED BY <3>2, <3>4, <3>5
  <2> QED BY <2>6 DEF EdgeMet, t, lat, a, b, d
<1> QED BY <1>8, <1>9

LEMMA MinIs ==
  ASSUME NEW T \in SUBSET Nat, T # {}
  PROVE  Sets!Min(T) \in T /\ \A x \in T : Sets!Min(T) <= x
<1>1. \E x \in T : \A y \in T : x <= y
  BY LeastElement
<1> QED BY <1>1, Zenon DEF Sets!Min

(* Of finitely many cycles some is the least loaded one.                      *)
LEMMA BalancedIs ==
  ASSUME HlsAssumption, GraphType, NEW limit \in Int
  PROVE  Balanced(limit) \in [Nodes -> Nat]
<1> DEFINE n == Len(ops)
           early == Asap
           S == [k \in 0 .. n |-> [Nodes -> Nat]]
           step == [i \in Nodes |-> [t \in Times |->
                     IF Choices(early, i, limit) = {} THEN t
                     ELSE [t EXCEPT ![i] = Sets!Min(Lightest(early, i, limit, t))]]]
<1>0. n \in Nat /\ Nodes = 1 .. n
  BY DEF GraphType, Nodes
<1>1. early \in [Nodes -> Nat]
  BY AsapIs
<1> HIDE DEF early, n
<1>2. ASSUME NEW k \in 1 .. n, NEW t \in S[k - 1] PROVE step[k][t] \in S[k]
  <2>1. k - 1 \in 0 .. n /\ k \in 0 .. n /\ k \in Nodes
    BY <1>0
  <2>2. t \in [Nodes -> Nat] /\ t \in Times
    BY <2>1 DEF Times
  <2> DEFINE C == Choices(early, k, limit)
             load(c) == Cardinality({j \in 1 .. (k - 1) : t[j] = c})
             L == Lightest(early, k, limit, t)
  <2>3. step[k][t] = IF C = {} THEN t ELSE [t EXCEPT ![k] = Sets!Min(L)]
    BY <2>1, <2>2
  <2>4. CASE C = {}
    BY <2>1, <2>2, <2>3, <2>4
  <2>5. CASE C # {}
    <3>1. C \in SUBSET Nat
      <4>1. early[k] \in Nat
        BY <1>1, <2>1
      <4> QED BY <4>1 DEF Choices
    <3>2. \A c \in C : load(c) \in Nat
      <4> SUFFICES ASSUME NEW c \in C PROVE load(c) \in Nat
        OBVIOUS
      <4>1. IsFiniteSet(1 .. (k - 1))
        BY <1>0, FS_Interval
      <4>2. IsFiniteSet({j \in 1 .. (k - 1) : t[j] = c})
        BY <4>1, FS_Subset
      <4> QED BY <4>2, FS_CardinalityType
    <3>3. L = {c \in C : \A d \in C : load(c) <= load(d)}
      BY DEF Lightest
    <3> HIDE DEF C, load, L
    <3> DEFINE loads == {load(c) : c \in C}
    <3>4. PICK m \in loads : \A x \in loads : m <= x
      <4>1. loads \in SUBSET Nat /\ loads # {}
        BY <2>5, <3>2
      <4> QED BY <4>1, LeastElement
    <3>5. L # {} /\ L \in SUBSET Nat
      <4>1. PICK c \in C : m = load(c)
        OBVIOUS
      <4>2. \A d \in C : load(c) <= load(d)
        BY <3>4, <4>1
      <4> QED BY <3>1, <3>3, <4>2
    <3>6. Sets!Min(L) \in Nat
      BY <3>5, MinIs
    <3>7. [t EXCEPT ![k] = Sets!Min(L)] \in [Nodes -> Nat]
      BY <2>1, <2>2, <3>6
    <3> QED BY <2>1, <2>3, <2>5, <3>7
  <2> QED BY <2>4, <2>5
<1>3. Balanced(limit) = Loop(n, early, step)
  BY DEF Balanced, early, n
<1> HIDE DEF step
<1>4. \A k \in 1 .. n : \A t \in S[k - 1] : step[k][t] \in S[k]
  BY <1>2
<1>5. early \in S[0] /\ S[n] = [Nodes -> Nat]
  BY <1>0, <1>1
<1> HIDE DEF S
<1>6. Loop(n, early, step) \in S[n]
  BY <1>0, <1>4, <1>5, LoopKeeps
<1> QED BY <1>3, <1>5, <1>6

LEMMA ListIs == ListScheduled = Asap
BY DEF ListScheduled
-----------------------------------------------------------------------------
(* The binder.  Finitely many numbers have a greatest one.                   *)
LEMMA Greatest ==
  ASSUME NEW T \in SUBSET Nat, T # {}, IsFiniteSet(T)
  PROVE  \E m \in T : \A x \in T : x <= m
<1> DEFINE HasTop(X) == \E m \in X : \A x \in X : x <= m
           D == {n \in Nat : \A X \in SUBSET Nat : IsFiniteSet(X) /\ Cardinality(X) = n /\ X # {} => HasTop(X)}
<1>1. 0 \in D
  BY FS_EmptySet
<1>2. ASSUME NEW n \in D PROVE n + 1 \in D
  <2> SUFFICES ASSUME NEW X \in SUBSET Nat, IsFiniteSet(X), Cardinality(X) = n + 1, X # {} PROVE HasTop(X)
    OBVIOUS
  <2>1. PICK x \in X : TRUE
    OBVIOUS
  <2>2. IsFiniteSet(X \ {x}) /\ Cardinality(X \ {x}) = n
    <3>1. IsFiniteSet(X \ {x}) /\ Cardinality(X \ {x}) = Cardinality(X) - 1
      BY FS_RemoveElement
    <3>2. n \in Nat
      OBVIOUS
    <3> QED BY <3>1, <3>2
  <2>3. CASE X \ {x} = {}
    <3>1. x \in Nat /\ \A y \in X : y = x
      BY <2>3
    <3> QED BY <3>1
  <2>4. CASE X \ {x} # {}
    <3>1. HasTop(X \ {x})
      BY <2>2, <2>4
    <3>2. PICK m \in X \ {x} : \A y \in X \ {x} : y <= m
      BY <3>1
    <3>3. m \in X /\ m \in Nat /\ x \in Nat /\ \A y \in X : y = x \/ y <= m
      BY <3>2
    <3>4. CASE x <= m
      BY <3>3, <3>4
    <3>5. CASE ~(x <= m)
      <4>1. \A y \in X : y <= x
        BY <3>3, <3>5
      <4> QED BY <4>1
    <3> QED BY <3>4, <3>5
  <2> QED BY <2>3, <2>4
<1> HIDE DEF HasTop
<1>3. \A n \in Nat : n \in D
  <2>1. D \in SUBSET Nat
    OBVIOUS
  <2> HIDE DEF D
  <2> QED BY <1>1, <1>2, <2>1, Climb
<1>4. Cardinality(T) \in D
  BY <1>3, FS_CardinalityType
<1> QED BY <1>4 DEF HasTop

LEMMA MaxIs ==
  ASSUME NEW T \in SUBSET Nat, T # {}, IsFiniteSet(T)
  PROVE  Sets!Max(T) \in T /\ \A x \in T : x <= Sets!Max(T)
<1>1. \E x \in T : \A y \in T : x >= y
  BY Greatest
<1>2. Sets!Max(T) \in T /\ \A y \in T : Sets!Max(T) >= y
  BY <1>1, Zenon DEF Sets!Max
<1> QED BY <1>2

LEMMA ImageIs ==
  ASSUME NEW X, IsFiniteSet(X), NEW f
  PROVE  IsFiniteSet({f[x] : x \in X}) /\ Cardinality({f[x] : x \in X}) <= Cardinality(X)
<1> DEFINE T == {f[x] : x \in X}
           g == [x \in X |-> f[x]]
<1>1. g \in Surjection(X, T)
  BY DEF Surjection
<1> QED BY <1>1, FS_Surjection

(* The greatest of a number and of what a function gives for some of a set.    *)
TopOf(f, J, a) == Sets!Max({a} \cup {f[j] : j \in J})

LEMMA MaxAmong ==
  ASSUME NEW X, IsFiniteSet(X), NEW f \in [X -> Nat], NEW J \in SUBSET X, NEW a \in Nat
  PROVE  /\ TopOf(f, J, a) \in Nat /\ TopOf(f, J, a) >= a /\ \A j \in J : TopOf(f, J, a) >= f[j]
         /\ TopOf(f, J, a) = a \/ \E j \in J : TopOf(f, J, a) = f[j]
<1> DEFINE T == {a} \cup {f[j] : j \in J}
<1>1. IsFiniteSet(J)
  BY FS_Subset
<1>2. IsFiniteSet({f[j] : j \in J}) /\ IsFiniteSet({a})
  <2>1. IsFiniteSet({f[j] : j \in J})
    BY <1>1, ImageIs, Zenon
  <2> QED BY <2>1, FS_Singleton
<1>3. IsFiniteSet(T)
  BY <1>2, FS_Union
<1>4. T \in SUBSET Nat /\ T # {}
  OBVIOUS
<1>5. Sets!Max(T) \in T /\ \A x \in T : x <= Sets!Max(T)
  BY <1>3, <1>4, MaxIs
<1> QED BY <1>5 DEF TopOf

LEMMA NodesFinite == GraphType => IsFiniteSet(Nodes)
BY FS_Interval DEF GraphType, Nodes

(* Lifetimes: the binder's from the start of the operation, the allocator's    *)
(* from its result, which may be a cycle after the binder's last use.          *)
Timed == cycle \in [Nodes -> Nat]

LEMMA LivesAre ==
  ASSUME HlsAssumption, GraphType, Timed, NEW i \in Nodes
  PROVE  /\ FirstUse(i) \in Nat /\ LastUse(i) \in Nat /\ FirstUse(i) < LastUse(i)
         /\ Born(i) \in Nat /\ FirstUse(i) < Born(i)
         /\ Dies(i) \in Nat /\ Dies(i) <= LastUse(i) + 1
<1> DEFINE J == Consumers(i)
<1>1. J \in SUBSET Nodes
  BY EdgeAt DEF Consumers
<1>2. cycle[i] \in Nat /\ cycle[i] + 1 \in Nat
  BY DEF Timed
<1>3. /\ LastUse(i) \in Nat /\ LastUse(i) >= cycle[i] + 1 /\ \A j \in J : LastUse(i) >= cycle[j]
  <2> DEFINE b == cycle[i] + 1
             m == TopOf(cycle, J, b)
  <2>1. IsFiniteSet(Nodes) /\ cycle \in [Nodes -> Nat] /\ b \in Nat
    BY <1>2, NodesFinite DEF Timed
  <2>2. LastUse(i) = m
    BY DEF LastUse, TopOf
  <2> HIDE DEF J, b
  <2>3. m \in Nat /\ m >= b /\ \A j \in J : m >= cycle[j]
    BY <1>1, <2>1, MaxAmong
  <2> HIDE DEF m
  <2> QED BY <2>2, <2>3 DEF b
<1>4. Latency(i) \in {1, 2}
  BY DEF Latency
<1>5. Born(i) \in Nat /\ cycle[i] + 1 <= Born(i) /\ Born(i) <= cycle[i] + 2
  BY <1>2, <1>4 DEF Born
<1>6. Dies(i) \in Nat /\ (Dies(i) = Born(i) \/ \E j \in J : Dies(i) = cycle[j])
  <2>1. IsFiniteSet(Nodes) /\ cycle \in [Nodes -> Nat] /\ Born(i) \in Nat
    BY <1>5, NodesFinite DEF Timed
  <2> DEFINE b == Born(i)
             m == TopOf(cycle, J, b)
  <2>2. Dies(i) = m
    BY DEF Dies, TopOf
  <2> HIDE DEF J, b
  <2>3. b \in Nat
    BY <2>1 DEF b
  <2>4. m \in Nat /\ (m = b \/ \E j \in J : m = cycle[j])
    BY <1>1, <2>1, <2>3, MaxAmong
  <2> HIDE DEF m
  <2> QED BY <2>2, <2>4 DEF b
<1> HIDE DEF J
<1>7. Dies(i) <= LastUse(i) + 1
  BY <1>2, <1>3, <1>5, <1>6
<1> QED BY <1>2, <1>3, <1>5, <1>6, <1>7 DEF FirstUse

LEMMA LatencyCovers ==
  ASSUME HlsAssumption, GraphType, Timed
  PROVE  TotalLatency \in Nat /\ \A i \in Nodes : cycle[i] <= TotalLatency
<1> DEFINE f == [i \in Nodes |-> cycle[i] + Latency(i)]
<1>1. \A i \in Nodes : cycle[i] \in Nat /\ Latency(i) \in {1, 2}
  BY DEF Latency, Timed
<1>2. f \in [Nodes -> Nat]
  BY <1>1
<1>3. {cycle[i] + Latency(i) : i \in Nodes} \cup {0} = {0} \cup {f[i] : i \in Nodes}
  OBVIOUS
<1>4. TotalLatency = TopOf(f, Nodes, 0)
  BY <1>3 DEF TotalLatency, TopOf
<1>5. TotalLatency \in Nat /\ \A i \in Nodes : TotalLatency >= f[i]
  <2> HIDE DEF f
  <2> QED BY <1>2, <1>4, MaxAmong, NodesFinite
<1>6. \A i \in Nodes : f[i] = cycle[i] + Latency(i)
  OBVIOUS
<1> HIDE DEF f
<1> QED BY <1>1, <1>5, <1>6

(* The exchange sort keeps a permutation of the nodes, and each round puts one *)
(* more of them in its place.                                                *)
Permutes(o) ==
  /\ o \in Orders
  /\ \A i \in Nodes : \E k \in Nodes : o[k] = i
  /\ \A p, q \in Nodes : o[p] = o[q] => p = q
Placed(o, m) == \A p, q \in Nodes : p <= m /\ p <= q => cycle[o[p]] <= cycle[o[q]]
Leads(o, a, b) == \A q \in Nodes : a <= q /\ q <= b => cycle[o[a]] <= cycle[o[q]]

LEMMA ExchangedIs ==
  ASSUME GraphType, Timed, NEW o, Permutes(o), NEW a \in Nodes, NEW b \in Nodes, a < b
  PROVE  LET x == Exchanged(o, a, b)
         IN  /\ Permutes(x)
             /\ Placed(o, a - 1) => Placed(x, a - 1)
             /\ Leads(o, a, b - 1) => Leads(x, a, b)
<1> DEFINE x == Exchanged(o, a, b)
<1>1. o \in [Nodes -> Nodes] /\ (\A i \in Nodes : o[i] \in Nodes /\ cycle[o[i]] \in Nat)
  BY DEF Permutes, Orders, Timed
<1>2. Nodes \in SUBSET Nat
  BY DEF Nodes
<1>3. CASE ~(cycle[o[a]] > cycle[o[b]])
  <2>1. x = o
    BY <1>3 DEF Exchanged, FirstUse
  <2>2. cycle[o[a]] <= cycle[o[b]]
    BY <1>1, <1>3
  <2>3. ASSUME Leads(o, a, b - 1) PROVE Leads(o, a, b)
    <3> SUFFICES ASSUME NEW q \in Nodes, a <= q, q <= b PROVE cycle[o[a]] <= cycle[o[q]]
      BY DEF Leads
    <3>1. q = b \/ q <= b - 1
      BY <1>2
    <3> QED BY <2>2, <2>3, <3>1 DEF Leads
  <2> QED BY <2>1, <2>3
<1>4. CASE cycle[o[a]] > cycle[o[b]]
  <2>1. x = [o EXCEPT ![a] = o[b], ![b] = o[a]]
    BY <1>4 DEF Exchanged, FirstUse
  <2>2. x \in [Nodes -> Nodes] /\ \A i \in Nodes : x[i] = IF i = a THEN o[b] ELSE IF i = b THEN o[a] ELSE o[i]
    BY <1>1, <2>1
  <2> HIDE DEF x
  <2>3. Permutes(x)
    <3>1. ASSUME NEW i \in Nodes PROVE \E k \in Nodes : x[k] = i
      <4>1. PICK k \in Nodes : o[k] = i
        BY DEF Permutes
      <4>2. CASE k = a
        BY <2>2, <4>1, <4>2
      <4>3. CASE k = b
        BY <2>2, <4>1, <4>3
      <4>4. CASE k # a /\ k # b
        BY <2>2, <4>1, <4>4
      <4> QED BY <4>2, <4>3, <4>4
    <3>2. ASSUME NEW p \in Nodes, NEW q \in Nodes, x[p] = x[q] PROVE p = q
      <4>1. \A i, j \in Nodes : o[i] = o[j] => i = j
        BY DEF Permutes
      <4> QED BY <2>2, <3>2, <4>1
    <3> QED BY <2>2, <3>1, <3>2 DEF Permutes, Orders
  <2>4. ASSUME Placed(o, a - 1) PROVE Placed(x, a - 1)
    <3> SUFFICES ASSUME NEW p \in Nodes, NEW q \in Nodes, p <= a - 1, p <= q PROVE cycle[x[p]] <= cycle[x[q]]
      BY DEF Placed
    <3>1. p # a /\ p # b /\ p <= a /\ p <= b
      BY <1>2
    <3>2. x[p] = o[p]
      BY <2>2, <3>1
    <3>3. PICK s \in Nodes : x[q] = o[s] /\ p <= s
      BY <2>2, <3>1
    <3> QED BY <2>4, <3>2, <3>3 DEF Placed
  <2>5. ASSUME Leads(o, a, b - 1) PROVE Leads(x, a, b)
    <3> SUFFICES ASSUME NEW q \in Nodes, a <= q, q <= b PROVE cycle[x[a]] <= cycle[x[q]]
      BY DEF Leads
    <3>1. x[a] = o[b] /\ cycle[o[b]] < cycle[o[a]]
      BY <1>1, <1>4, <2>2
    <3>2. CASE q = a
      BY <1>1, <3>1, <3>2
    <3>3. CASE q = b
      <4>1. x[q] = o[a]
        BY <2>2, <3>3
      <4> QED BY <1>1, <3>1, <4>1
    <3>4. CASE q # a /\ q # b
      <4>1. x[q] = o[q] /\ q <= b - 1
        BY <1>2, <2>2, <3>4
      <4>2. cycle[o[a]] <= cycle[o[q]]
        BY <2>5, <4>1 DEF Leads
      <4>3. cycle[o[a]] \in Nat /\ cycle[o[b]] \in Nat /\ cycle[o[q]] \in Nat
        BY <1>1
      <4> QED BY <3>1, <4>1, <4>2, <4>3
    <3> QED BY <3>2, <3>3, <3>4
  <2> QED BY <2>3, <2>4, <2>5 DEF x
<1> QED BY <1>3, <1>4

LEMMA SiftedIs ==
  ASSUME GraphType, Timed, NEW a \in Nodes, NEW o, Permutes(o), Placed(o, a - 1)
  PROVE  Permutes(Sifted(o, a)) /\ Placed(Sifted(o, a), a)
<1> DEFINE n == Len(ops) - a
           Kept(d, u) == Permutes(u) /\ Placed(u, a - 1) /\ Leads(u, a, a + d)
           S == [d \in 0 .. n |-> {u \in Orders : Kept(d, u)}]
           step == [d \in 1 .. n |-> [u \in Orders |-> Exchanged(u, a, a + d)]]
<1>0. n \in Nat /\ a \in Nat /\ Nodes = 1 .. (a + n) /\ Len(ops) = a + n
  BY DEF GraphType, Nodes
<1> HIDE DEF n
<1>a. \A u : Permutes(u) => u \in Orders
  BY DEF Permutes
<1>1. o \in S[0]
  <2>1. o \in [Nodes -> Nodes] /\ cycle[o[a]] \in Nat
    BY DEF Permutes, Orders, Timed
  <2>2. Leads(o, a, a + 0)
    <3>1. \A q \in Nodes : a <= q /\ q <= a + 0 => q = a
      BY <1>0
    <3> QED BY <2>1, <3>1 DEF Leads
  <2> QED BY <1>0, <1>a, <2>2
<1>2. ASSUME NEW d \in 1 .. n, NEW u \in S[d - 1] PROVE step[d][u] \in S[d]
  <2>1. /\ d - 1 \in 0 .. n /\ d \in 0 .. n /\ a + d \in Nodes /\ a < a + d
        /\ a + (d - 1) = (a + d) - 1
    BY <1>0
  <2>2. u \in Orders /\ Kept(d - 1, u)
    BY <2>1
  <2>3. step[d][u] = Exchanged(u, a, a + d)
    BY <2>2
  <2>4. Kept(d, Exchanged(u, a, a + d))
    BY <2>1, <2>2, ExchangedIs
  <2> QED BY <1>a, <2>1, <2>3, <2>4
<1>3. Sifted(o, a) = Loop(n, o, step)
  BY DEF Sifted, n
<1> HIDE DEF step
<1>4. \A d \in 1 .. n : \A u \in S[d - 1] : step[d][u] \in S[d]
  BY <1>2
<1>5. S[n] = {u \in Orders : Kept(n, u)}
  BY <1>0
<1> HIDE DEF S
<1>6. Loop(n, o, step) \in S[n]
  BY <1>0, <1>1, <1>4, LoopKeeps
<1> DEFINE x == Sifted(o, a)
<1>7. Kept(n, x)
  BY <1>3, <1>5, <1>6
<1> HIDE DEF x
<1>8. Placed(x, a)
  <2> SUFFICES ASSUME NEW p \in Nodes, NEW q \in Nodes, p <= a, p <= q PROVE cycle[x[p]] <= cycle[x[q]]
    BY DEF Placed
  <2>1. p = a \/ p <= a - 1
    BY <1>0
  <2>2. q <= a + n
    BY <1>0
  <2> QED BY <1>7, <2>1, <2>2 DEF Placed, Leads
<1> QED BY <1>7, <1>8 DEF x

LEMMA SortedIs ==
  ASSUME GraphType, Timed
  PROVE  Permutes(Sorted) /\ \A p, q \in Nodes : p <= q => cycle[Sorted[p]] <= cycle[Sorted[q]]
<1> DEFINE n == Len(ops)
           start == [i \in Nodes |-> i]
           S == [a \in 0 .. n |-> {o \in Orders : Permutes(o) /\ Placed(o, a)}]
           step == [a \in Nodes |-> [o \in Orders |-> Sifted(o, a)]]
<1>0. n \in Nat /\ Nodes = 1 .. n
  BY DEF GraphType, Nodes
<1>a. \A u : Permutes(u) => u \in Orders
  BY DEF Permutes
<1>1. start \in S[0]
  <2>1. Permutes(start)
    BY DEF Permutes, Orders
  <2>2. \A p \in Nodes : ~(p <= 0)
    BY <1>0
  <2>3. Placed(start, 0)
    BY <2>2 DEF Placed
  <2> QED BY <1>0, <1>a, <2>1, <2>3
<1> HIDE DEF n
<1>2. ASSUME NEW a \in 1 .. n, NEW o \in S[a - 1] PROVE step[a][o] \in S[a]
  <2>1. a - 1 \in 0 .. n /\ a \in 0 .. n /\ a \in Nodes
    BY <1>0
  <2>2. o \in Orders /\ Permutes(o) /\ Placed(o, a - 1)
    BY <2>1
  <2>3. step[a][o] = Sifted(o, a)
    BY <2>1, <2>2
  <2>4. Permutes(Sifted(o, a)) /\ Placed(Sifted(o, a), a)
    BY <2>1, <2>2, SiftedIs
  <2> QED BY <1>a, <2>1, <2>3, <2>4
<1>3. Sorted = Loop(n, start, step)
  BY DEF Sorted, n
<1> HIDE DEF step
<1>4. \A a \in 1 .. n : \A o \in S[a - 1] : step[a][o] \in S[a]
  BY <1>2
<1>5. S[n] = {o \in Orders : Permutes(o) /\ Placed(o, n)}
  BY <1>0
<1> HIDE DEF S, start
<1>6. Loop(n, start, step) \in S[n]
  BY <1>0, <1>1, <1>4, LoopKeeps
<1>7. Permutes(Sorted) /\ Placed(Sorted, n)
  BY <1>3, <1>5, <1>6
<1>8. \A p \in Nodes : p <= n
  BY <1>0
<1> QED BY <1>7, <1>8 DEF Placed

(* Left edge.  After k values: a value that has a register has been looked at, *)
(* values of one register are never alive together, every register up to the   *)
(* last is in use, some cycle has as many values alive as registers are used,  *)
(* and a value that went without one found them all in use.                    *)
Alive(c) == {j \in Nodes : HasValue(j) /\ FirstUse(j) <= c /\ c <= LastUse(j)}
Apart(r) == \A i, j \in Nodes : i # j /\ r[i] = r[j] /\ r[i] # 0 => ~Overlap(i, j)
Filled(r) == \A g \in 1 .. Used(r) : \E j \in Nodes : r[j] = g
Crowded(r) == Used(r) = 0 \/ \E i \in Nodes : Used(r) <= Cardinality(Alive(cycle[i]))
SeenOnly(o, k, r) == \A i \in Nodes : r[i] # 0 => HasValue(i) /\ \E p \in 1 .. k : o[p] = i
Refused(o, k, r) == \A p \in 1 .. k : HasValue(o[p]) /\ r[o[p]] = 0 => Used(r) = MaxRegs
BoundInv(o, k, r) ==
  r \in Bindings /\ Apart(r) /\ Filled(r) /\ Crowded(r) /\ SeenOnly(o, k, r) /\ Refused(o, k, r)

LEMMA UsedIs ==
  ASSUME HlsAssumption, GraphType, NEW r \in Bindings
  PROVE  /\ Used(r) \in 0 .. MaxRegs /\ \A j \in Nodes : r[j] <= Used(r)
         /\ Used(r) = 0 \/ \E j \in Nodes : r[j] = Used(r)
<1>1. \A j \in Nodes : r[j] \in 0 .. MaxRegs /\ r[j] \in Nat
  BY DEF Bindings, HlsAssumption
<1>2. r \in [Nodes -> Nat]
  BY <1>1 DEF Bindings
<1>3. {r[j] : j \in Nodes} \cup {0} = {0} \cup {r[j] : j \in Nodes}
  OBVIOUS
<1>4. Used(r) = TopOf(r, Nodes, 0)
  BY <1>3 DEF Used, TopOf
<1>5. /\ Used(r) \in Nat /\ \A j \in Nodes : Used(r) >= r[j]
      /\ Used(r) = 0 \/ \E j \in Nodes : Used(r) = r[j]
  <2> DEFINE m == TopOf(r, Nodes, 0)
  <2>1. m \in Nat /\ m >= 0 /\ (\A j \in Nodes : m >= r[j]) /\ (m = 0 \/ \E j \in Nodes : m = r[j])
    <3>1. IsFiniteSet(Nodes) /\ Nodes \in SUBSET Nodes /\ 0 \in Nat
      BY NodesFinite
    <3> QED BY <1>2, <3>1, MaxAmong
  <2> HIDE DEF m
  <2> QED BY <1>4, <2>1 DEF m
<1> QED BY <1>1, <1>5 DEF HlsAssumption

(* Used is the only number like that.                                        *)
LEMMA UsedWhen ==
  ASSUME HlsAssumption, GraphType, NEW r \in Bindings, NEW u \in Nat,
         \A j \in Nodes : r[j] <= u, u = 0 \/ \E j \in Nodes : r[j] = u
  PROVE  Used(r) = u
<1>1. /\ Used(r) \in Nat /\ \A j \in Nodes : r[j] <= Used(r)
      /\ Used(r) = 0 \/ \E j \in Nodes : r[j] = Used(r)
  BY UsedIs
<1>2. u <= Used(r)
  BY <1>1
<1>3. Used(r) <= u
  BY <1>1
<1> QED BY <1>1, <1>2, <1>3

LEMMA AliveIs == ASSUME GraphType, NEW c PROVE IsFiniteSet(Alive(c)) /\ Cardinality(Alive(c)) \in Nat
<1>1. IsFiniteSet(Nodes)
  BY FS_Interval DEF GraphType, Nodes
<1>2. IsFiniteSet(Alive(c))
  BY <1>1, FS_Subset DEF Alive
<1> QED BY <1>2, FS_CardinalityType

(* The value looked at next shares a register that is free.                   *)
LEMMA SharesFree ==
  ASSUME HlsAssumption, GraphType, NEW o \in Orders, NEW k \in Nat, k + 1 \in Nodes, NEW r, BoundInv(o, k, r),
         NEW i \in Nodes, HasValue(i), r[i] = 0, o[k + 1] = i, FreeFor(r, i) # {}
  PROVE  BoundInv(o, k + 1, [r EXCEPT ![i] = Sets!Min(FreeFor(r, i))])
<1> DEFINE g == Sets!Min(FreeFor(r, i))
           x == [r EXCEPT ![i] = g]
<1>1. r \in Bindings /\ Used(r) \in 0 .. MaxRegs /\ MaxRegs \in Nat
  BY UsedIs DEF BoundInv, HlsAssumption
<1>2. FreeFor(r, i) \in SUBSET Nat
  BY <1>1 DEF FreeFor
<1>3. g \in FreeFor(r, i)
  BY <1>2, MinIs
<1>4. g \in 1 .. Used(r) /\ g # 0 /\ g \in 0 .. MaxRegs /\ \A j \in Nodes : r[j] = g => ~Overlap(i, j)
  BY <1>1, <1>3 DEF FreeFor
<1> HIDE DEF g
<1>5. x \in Bindings /\ \A j \in Nodes : x[j] = IF j = i THEN g ELSE r[j]
  BY <1>1, <1>4 DEF Bindings
<1> HIDE DEF x
<1>6. Used(x) = Used(r)
  <2>1. \A j \in Nodes : r[j] <= Used(r)
    BY <1>1, UsedIs
  <2>2. \A j \in Nodes : x[j] <= Used(r)
    BY <1>1, <1>4, <1>5, <2>1
  <2>3. \E j \in Nodes : x[j] = Used(r)
    <3>1. PICK j \in Nodes : r[j] = Used(r)
      BY <1>1, <1>4, UsedIs
    <3>2. j # i
      BY <1>1, <1>4, <3>1
    <3> QED BY <1>5, <3>1, <3>2
  <2> QED BY <1>1, <1>5, <2>2, <2>3, UsedWhen
<1>7. Apart(x)
  <2> SUFFICES ASSUME NEW a \in Nodes, NEW b \in Nodes, a # b, x[a] = x[b], x[a] # 0 PROVE ~Overlap(a, b)
    BY DEF Apart
  <2>1. CASE a = i
    BY <1>4, <1>5, <2>1
  <2>2. CASE b = i
    <3>1. ~Overlap(i, a)
      BY <1>4, <1>5, <2>2
    <3> QED BY <2>2, <3>1 DEF Overlap
  <2>3. CASE a # i /\ b # i
    BY <1>5, <2>3 DEF BoundInv, Apart
  <2> QED BY <2>1, <2>2, <2>3
<1>8. Filled(x)
  <2> SUFFICES ASSUME NEW h \in 1 .. Used(r) PROVE \E j \in Nodes : x[j] = h
    BY <1>6 DEF Filled
  <2>1. PICK j \in Nodes : r[j] = h
    BY DEF BoundInv, Filled
  <2>2. j # i
    BY <1>1, <2>1
  <2> QED BY <1>5, <2>1, <2>2
<1>9. Crowded(x)
  BY <1>6 DEF BoundInv, Crowded
<1>10. SeenOnly(o, k + 1, x)
  <2> SUFFICES ASSUME NEW j \in Nodes, x[j] # 0 PROVE HasValue(j) /\ \E p \in 1 .. (k + 1) : o[p] = j
    BY DEF SeenOnly
  <2>1. CASE j = i
    BY <2>1
  <2>2. CASE j # i
    <3>1. HasValue(j) /\ \E p \in 1 .. k : o[p] = j
      BY <1>5, <2>2 DEF BoundInv, SeenOnly
    <3> QED BY <3>1
  <2> QED BY <2>1, <2>2
<1>11. Refused(o, k + 1, x)
  <2> SUFFICES ASSUME NEW p \in 1 .. (k + 1), HasValue(o[p]), x[o[p]] = 0, Used(r) # MaxRegs PROVE FALSE
    BY <1>6 DEF Refused
  <2>1. CASE p = k + 1
    BY <1>4, <1>5, <2>1
  <2>2. CASE p # k + 1
    <3>1. p \in 1 .. k
      BY <2>2
    <3>2. o[p] # i
      BY <1>4, <1>5
    <3>3. o[p] \in Nodes
      <4>1. p \in Nodes
        BY DEF Nodes, GraphType
      <4> QED BY <4>1 DEF Orders
    <3>4. r[o[p]] = x[o[p]]
      BY <1>5, <3>2, <3>3
    <3> QED BY <3>1, <3>4 DEF BoundInv, Refused
  <2> QED BY <2>1, <2>2
<1> QED BY <1>5, <1>7, <1>8, <1>9, <1>10, <1>11 DEF BoundInv, x, g

(* When none is free every register has a value that is alive with the new     *)
(* one, and was looked at before it: all of them are alive when it starts.     *)
LEMMA TakesNew ==
  ASSUME HlsAssumption, GraphType, Timed, NEW o \in Orders, NEW k \in Nat, k + 1 \in Nodes, NEW r, BoundInv(o, k, r),
         NEW i \in Nodes, HasValue(i), r[i] = 0, o[k + 1] = i, FreeFor(r, i) = {}, Used(r) < MaxRegs,
         \A p, q \in Nodes : p <= q => cycle[o[p]] <= cycle[o[q]]
  PROVE  BoundInv(o, k + 1, [r EXCEPT ![i] = Used(r) + 1])
<1> DEFINE u == Used(r)
           x == [r EXCEPT ![i] = u + 1]
<1>1. r \in Bindings /\ u \in Nat /\ u + 1 \in 0 .. MaxRegs /\ MaxRegs \in Nat /\ \A j \in Nodes : r[j] <= u
  BY UsedIs DEF BoundInv, HlsAssumption
<1>2. \A j \in Nodes : r[j] \in Nat
  BY <1>1 DEF Bindings
<1>3. x \in Bindings /\ \A j \in Nodes : x[j] = IF j = i THEN u + 1 ELSE r[j]
  BY <1>1 DEF Bindings
<1> HIDE DEF x, u
<1>4. Used(x) = u + 1
  <2>1. \A j \in Nodes : x[j] <= u + 1
    BY <1>1, <1>2, <1>3
  <2>2. x[i] = u + 1 /\ u + 1 \in Nat
    BY <1>1, <1>3
  <2> QED BY <1>3, <2>1, <2>2, UsedWhen
<1>5. Apart(x)
  <2> SUFFICES ASSUME NEW a \in Nodes, NEW b \in Nodes, a # b, x[a] = x[b], x[a] # 0 PROVE ~Overlap(a, b)
    BY DEF Apart
  <2>1. a # i /\ b # i
    BY <1>1, <1>2, <1>3
  <2> QED BY <1>3, <2>1 DEF BoundInv, Apart
<1>6. Filled(x)
  <2> SUFFICES ASSUME NEW h \in 1 .. (u + 1) PROVE \E j \in Nodes : x[j] = h
    BY <1>4 DEF Filled
  <2>1. CASE h = u + 1
    BY <1>3, <2>1
  <2>2. CASE h # u + 1
    <3>1. h \in 1 .. u
      BY <1>1, <2>2
    <3>2. PICK j \in Nodes : r[j] = h
      BY <3>1 DEF BoundInv, Filled, u
    <3>3. j # i
      BY <3>1, <3>2
    <3> QED BY <1>3, <3>2, <3>3
  <2> QED BY <2>1, <2>2
<1>7. Crowded(x)
  <2> DEFINE A == Alive(cycle[i])
  <2>1. i \in A
    BY LivesAre DEF Alive, FirstUse
  <2>2. ASSUME NEW h \in 1 .. u PROVE \E j \in A : x[j] = h
    <3>1. PICK j \in Nodes : r[j] = h /\ Overlap(i, j)
      <4>1. h \notin FreeFor(r, i)
        OBVIOUS
      <4> QED BY <4>1 DEF FreeFor, u
    <3>2. j # i /\ r[j] # 0
      BY <3>1
    <3>3. HasValue(j) /\ \E p \in 1 .. k : o[p] = j
      BY <3>2 DEF BoundInv, SeenOnly
    <3>4. PICK p \in 1 .. k : o[p] = j
      BY <3>3
    <3>5. p \in Nodes /\ p <= k + 1
      BY DEF Nodes, GraphType
    <3>6. cycle[j] <= cycle[i]
      BY <3>4, <3>5
    <3>7. cycle[i] <= LastUse(j)
      <4>1. PICK c \in FirstUse(i) .. LastUse(i) : c \in FirstUse(j) .. LastUse(j)
        BY <3>1 DEF Overlap
      <4>2. FirstUse(i) \in Nat /\ LastUse(i) \in Nat /\ FirstUse(j) \in Nat /\ LastUse(j) \in Nat
        BY LivesAre
      <4> QED BY <4>1, <4>2 DEF FirstUse
    <3> QED BY <1>3, <3>1, <3>2, <3>3, <3>6, <3>7 DEF Alive, FirstUse
  <2>3. \A h \in 1 .. (u + 1) : h \in {x[j] : j \in A}
    <3> SUFFICES ASSUME NEW h \in 1 .. (u + 1) PROVE \E j \in A : x[j] = h
      OBVIOUS
    <3>1. CASE h = u + 1
      BY <1>3, <2>1, <3>1
    <3>2. CASE h # u + 1
      BY <1>1, <2>2, <3>2
    <3> QED BY <3>1, <3>2
  <2>4. IsFiniteSet(A) /\ Cardinality(A) \in Nat
    BY AliveIs
  <2> DEFINE R == {x[j] : j \in A}
  <2> HIDE DEF A
  <2>5. IsFiniteSet(R) /\ Cardinality(R) <= Cardinality(A)
    BY <2>4, ImageIs, Zenon
  <2>6. 1 .. (u + 1) \in SUBSET R
    BY <2>3
  <2> HIDE DEF R
  <2>7. Cardinality(1 .. (u + 1)) <= Cardinality(R) /\ Cardinality(R) \in Nat
    BY <2>5, <2>6, FS_Subset, FS_CardinalityType
  <2>8. Cardinality(1 .. (u + 1)) = u + 1
    BY <1>1, FS_Interval
  <2>9. u + 1 <= Cardinality(A)
    BY <1>1, <2>4, <2>5, <2>7, <2>8
  <2> QED BY <1>4, <2>9 DEF Crowded, A
<1>8. SeenOnly(o, k + 1, x)
  <2> SUFFICES ASSUME NEW j \in Nodes, x[j] # 0 PROVE HasValue(j) /\ \E p \in 1 .. (k + 1) : o[p] = j
    BY DEF SeenOnly
  <2>1. CASE j = i
    BY <2>1
  <2>2. CASE j # i
    <3>1. HasValue(j) /\ \E p \in 1 .. k : o[p] = j
      BY <1>3, <2>2 DEF BoundInv, SeenOnly
    <3> QED BY <3>1
  <2> QED BY <2>1, <2>2
<1>9. Refused(o, k + 1, x)
  <2> SUFFICES ASSUME NEW p \in 1 .. (k + 1), HasValue(o[p]), x[o[p]] = 0 PROVE FALSE
    BY DEF Refused
  <2>1. o[p] \in Nodes
    <3>1. p \in Nodes
      BY DEF Nodes, GraphType
    <3> QED BY <3>1 DEF Orders
  <2>2. o[p] # i
    BY <1>1, <1>3
  <2>3. p \in 1 .. k /\ r[o[p]] = 0
    BY <1>3, <2>1, <2>2
  <2>4. u = MaxRegs
    BY <2>3 DEF BoundInv, Refused, u
  <2> QED BY <1>1, <2>4
<1> QED BY <1>3, <1>5, <1>6, <1>7, <1>8, <1>9 DEF BoundInv, x, u

LEMMA BoundKeeps ==
  ASSUME HlsAssumption, GraphType, Timed, NEW o, Permutes(o), \A p, q \in Nodes : p <= q => cycle[o[p]] <= cycle[o[q]],
         NEW k \in Nat, k + 1 \in Nodes, NEW r, BoundInv(o, k, r)
  PROVE  BoundInv(o, k + 1, Bound(r, o[k + 1]))
<1> DEFINE i == o[k + 1]
<1>1. o \in Orders /\ i \in Nodes
  BY DEF Permutes, Orders
<1> HIDE DEF i
<1>2. r[i] = 0
  <2> SUFFICES ASSUME r[i] # 0 PROVE FALSE
    OBVIOUS
  <2>1. PICK p \in 1 .. k : o[p] = i
    BY <1>1 DEF BoundInv, SeenOnly
  <2>2. p \in Nodes /\ p # k + 1
    BY DEF Nodes, GraphType
  <2> QED BY <2>1, <2>2 DEF Permutes, i
<1>3. ASSUME ~HasValue(i) \/ Used(r) = MaxRegs PROVE BoundInv(o, k + 1, r)
  <2>1. SeenOnly(o, k + 1, r)
    BY DEF BoundInv, SeenOnly
  <2>2. Refused(o, k + 1, r)
    <3> SUFFICES ASSUME NEW p \in 1 .. (k + 1), HasValue(o[p]), r[o[p]] = 0, Used(r) # MaxRegs PROVE FALSE
      BY DEF Refused
    <3>1. p # k + 1
      BY <1>3 DEF i
    <3>2. p \in 1 .. k
      BY <3>1
    <3> QED BY <3>2 DEF BoundInv, Refused
  <2> QED BY <2>1, <2>2 DEF BoundInv
<1>4. CASE ~HasValue(i)
  BY <1>3, <1>4 DEF Bound, i
<1>5. CASE HasValue(i) /\ FreeFor(r, i) # {}
  <2>1. Bound(r, i) = [r EXCEPT ![i] = Sets!Min(FreeFor(r, i))]
    BY <1>5 DEF Bound
  <2>2. BoundInv(o, k + 1, [r EXCEPT ![i] = Sets!Min(FreeFor(r, i))])
    BY <1>1, <1>2, <1>5, SharesFree DEF i
  <2> QED BY <2>1, <2>2 DEF i
<1>6. CASE HasValue(i) /\ FreeFor(r, i) = {} /\ Used(r) < MaxRegs
  <2>1. Bound(r, i) = [r EXCEPT ![i] = Used(r) + 1]
    BY <1>6 DEF Bound
  <2>2. BoundInv(o, k + 1, [r EXCEPT ![i] = Used(r) + 1])
    BY <1>1, <1>2, <1>6, TakesNew DEF i
  <2> QED BY <2>1, <2>2 DEF i
<1>7. CASE HasValue(i) /\ FreeFor(r, i) = {} /\ ~(Used(r) < MaxRegs)
  <2>1. Bound(r, i) = r
    BY <1>7 DEF Bound
  <2>2. Used(r) = MaxRegs
    BY <1>7, UsedIs DEF BoundInv, HlsAssumption
  <2> QED BY <1>3, <2>1, <2>2 DEF i
<1> QED BY <1>4, <1>5, <1>6, <1>7

LEMMA LeftEdgeIs ==
  ASSUME HlsAssumption, GraphType, Timed
  PROVE  BoundInv(Sorted, Len(ops), LeftEdge)
<1> DEFINE n == Len(ops)
           o == Sorted
           start == [i \in Nodes |-> 0]
           S == [k \in 0 .. n |-> {r \in Bindings : BoundInv(o, k, r)}]
           step == [k \in Nodes |-> [r \in Bindings |-> Bound(r, o[k])]]
<1>0. n \in Nat /\ Nodes = 1 .. n
  BY DEF GraphType, Nodes
<1>1. Permutes(o) /\ \A p, q \in Nodes : p <= q => cycle[o[p]] <= cycle[o[q]]
  BY SortedIs
<1> HIDE DEF n, o
<1>a. \A k, r : BoundInv(o, k, r) => r \in Bindings
  BY DEF BoundInv
<1>2. start \in S[0]
  <2>1. start \in Bindings /\ \A j \in Nodes : start[j] = 0
    BY DEF Bindings, HlsAssumption
  <2> HIDE DEF start
  <2>2. Used(start) = 0
    BY <2>1, UsedWhen
  <2>3. BoundInv(o, 0, start)
    BY <2>1, <2>2 DEF BoundInv, Apart, Filled, Crowded, SeenOnly, Refused
  <2> QED BY <1>0, <1>a, <2>3
<1>3. ASSUME NEW k \in 1 .. n, NEW r \in S[k - 1] PROVE step[k][r] \in S[k]
  <2>1. k - 1 \in 0 .. n /\ k \in 0 .. n /\ k \in Nodes /\ k - 1 \in Nat /\ (k - 1) + 1 = k
    BY <1>0
  <2>2. r \in Bindings /\ BoundInv(o, k - 1, r)
    BY <2>1
  <2>3. step[k][r] = Bound(r, o[k])
    BY <2>1, <2>2
  <2>4. BoundInv(o, k, Bound(r, o[k]))
    BY <1>1, <2>1, <2>2, BoundKeeps
  <2> QED BY <1>a, <2>1, <2>3, <2>4
<1>4. LeftEdge = Loop(n, start, step)
  BY DEF LeftEdge, n, o
<1> HIDE DEF step
<1>5. \A k \in 1 .. n : \A r \in S[k - 1] : step[k][r] \in S[k]
  BY <1>3
<1>6. S[n] = {r \in Bindings : BoundInv(o, n, r)}
  BY <1>0
<1> HIDE DEF S, start
<1>7. Loop(n, start, step) \in S[n]
  BY <1>0, <1>2, <1>5, LoopKeeps
<1> QED BY <1>4, <1>6, <1>7 DEF n, o

ValuedNodes == {i \in Nodes : HasValue(i)}
RegsUsed(r) == {r[i] : i \in ValuedNodes} \ {0}
AliveAt(c) == {j \in ValuedNodes : FirstUse(j) <= c /\ c <= LastUse(j)}
Loads == {Cardinality(AliveAt(c)) : c \in 0 .. TotalLatency}
Separate(r) ==
  \A i, j \in ValuedNodes : i # j /\ r[i] = r[j] /\ r[i] # 0 /\ LastUse(i) < Horizon => Dies(i) < Born(j) \/ Dies(j) < Born(i)
Few(r) == Cardinality(RegsUsed(r)) <= Sets!Max(Loads \cup {0})
Full(r) == (\E i \in ValuedNodes : r[i] = 0) => Cardinality(RegsUsed(r)) = MaxRegs

LEMMA SharedMeans == RegistersShared <=> (regs # <<>> => Separate(regs) /\ Few(regs) /\ Full(regs))
BY DEF RegistersShared, ValuedNodes, RegsUsed, AliveAt, Loads, Separate, Few, Full

LEMMA SameLives ==
  ASSUME UNCHANGED <<ops, edges, cycle>>
  PROVE  /\ Nodes' = Nodes /\ TotalLatency' = TotalLatency
         /\ \A i : /\ HasValue(i)' = HasValue(i) /\ FirstUse(i)' = FirstUse(i) /\ LastUse(i)' = LastUse(i)
                   /\ Born(i)' = Born(i) /\ Dies(i)' = Dies(i)
<1>1. Nodes' = Nodes
  BY DEF Nodes
<1>2. ASSUME NEW i PROVE Latency(i)' = Latency(i) /\ Consumers(i)' = Consumers(i)
  BY DEF Latency, Consumers
<1>3. TotalLatency' = TotalLatency
  BY <1>1, <1>2 DEF TotalLatency
<1>4. ASSUME NEW i
      PROVE  /\ HasValue(i)' = HasValue(i) /\ FirstUse(i)' = FirstUse(i) /\ LastUse(i)' = LastUse(i)
             /\ Born(i)' = Born(i) /\ Dies(i)' = Dies(i)
  BY <1>2 DEF HasValue, FirstUse, LastUse, Born, Dies
<1> QED BY <1>1, <1>3, <1>4

LEMMA SameShared ==
  ASSUME UNCHANGED <<ops, edges, cycle>>, NEW r, Separate(r), Few(r), Full(r)
  PROVE  (Separate(r) /\ Few(r) /\ Full(r))'
<1>1. ValuedNodes' = ValuedNodes
  BY SameLives DEF ValuedNodes
<1>2. RegsUsed(r)' = RegsUsed(r)
  BY <1>1 DEF RegsUsed
<1>3. Loads' = Loads
  BY <1>1, SameLives DEF Loads, AliveAt
<1>4. Separate(r)'
  BY <1>1, SameLives DEF Separate
<1>5. Few(r)'
  BY <1>2, <1>3 DEF Few
<1>6. Full(r)'
  BY <1>1, <1>2 DEF Full
<1> QED BY <1>4, <1>5, <1>6

(* What left edge gives is what RegistersShared asks for.                    *)
LEMMA SharedIs ==
  ASSUME HlsAssumption, GraphType, Timed, NEW o, Permutes(o), NEW r, BoundInv(o, Len(ops), r)
  PROVE  Separate(r) /\ Few(r) /\ Full(r)
<1> DEFINE u == Used(r)
<1>1. r \in Bindings /\ u \in Nat /\ (\A j \in Nodes : r[j] \in Nat /\ r[j] <= u)
  BY UsedIs DEF BoundInv, Bindings, HlsAssumption
<1>2. RegsUsed(r) = 1 .. u
  <2>1. ASSUME NEW g \in RegsUsed(r) PROVE g \in 1 .. u
    BY <1>1 DEF RegsUsed, ValuedNodes
  <2>2. ASSUME NEW g \in 1 .. u PROVE g \in RegsUsed(r)
    <3>1. PICK j \in Nodes : r[j] = g
      BY DEF BoundInv, Filled
    <3>2. r[j] # 0
      BY <1>1, <3>1
    <3>3. HasValue(j)
      BY <3>2 DEF BoundInv, SeenOnly
    <3> QED BY <3>1, <3>2, <3>3 DEF RegsUsed, ValuedNodes
  <2> QED BY <2>1, <2>2
<1>3. Cardinality(RegsUsed(r)) = u
  BY <1>1, <1>2, FS_Interval
<1> HIDE DEF u
<1>4. Separate(r)
  <2> SUFFICES ASSUME NEW i \in ValuedNodes, NEW j \in ValuedNodes, i # j, r[i] = r[j], r[i] # 0, LastUse(i) < Horizon
               PROVE  Dies(i) < Born(j) \/ Dies(j) < Born(i)
    BY DEF Separate
  <2>1. i \in Nodes /\ j \in Nodes
    BY DEF ValuedNodes
  <2>2. ~Overlap(i, j)
    BY <2>1 DEF BoundInv, Apart
  <2>3. /\ FirstUse(i) \in Nat /\ LastUse(i) \in Nat /\ FirstUse(i) < LastUse(i)
        /\ Born(i) \in Nat /\ FirstUse(i) < Born(i) /\ Dies(i) \in Nat /\ Dies(i) <= LastUse(i) + 1
    BY <2>1, LivesAre
  <2>4. /\ FirstUse(j) \in Nat /\ LastUse(j) \in Nat /\ FirstUse(j) < LastUse(j)
        /\ Born(j) \in Nat /\ FirstUse(j) < Born(j) /\ Dies(j) \in Nat /\ Dies(j) <= LastUse(j) + 1
    BY <2>1, LivesAre
  <2>5. Horizon \in Nat
    BY DEF HlsAssumption
  <2>6. LastUse(i) < FirstUse(j) \/ LastUse(j) < FirstUse(i)
    <3> SUFFICES ASSUME FirstUse(j) <= LastUse(i), FirstUse(i) <= LastUse(j) PROVE FALSE
      BY <2>3, <2>4
    <3> DEFINE c == IF FirstUse(i) <= FirstUse(j) THEN FirstUse(j) ELSE FirstUse(i)
    <3>1. c \in FirstUse(i) .. LastUse(i) /\ c \in FirstUse(j) .. LastUse(j) /\ c < Horizon
      BY <2>3, <2>4, <2>5
    <3> QED BY <2>2, <3>1 DEF Overlap
  <2> QED BY <2>3, <2>4, <2>6
<1>5. Few(r)
  <2>1. TotalLatency \in Nat /\ \A i \in Nodes : cycle[i] <= TotalLatency
    BY LatencyCovers
  <2>2. \A c : AliveAt(c) = Alive(c)
    BY DEF AliveAt, Alive, ValuedNodes
  <2>3. \A c : Cardinality(AliveAt(c)) \in Nat
    BY <2>2, AliveIs
  <2> DEFINE T == Loads \cup {0}
  <2>4. T \in SUBSET Nat /\ T # {}
    BY <2>3 DEF Loads
  <2>5. IsFiniteSet(T)
    <3> DEFINE f == [c \in 0 .. TotalLatency |-> Cardinality(AliveAt(c))]
               R == {f[c] : c \in 0 .. TotalLatency}
    <3>1. Loads = R
      BY DEF Loads
    <3>2. IsFiniteSet(0 .. TotalLatency)
      BY <2>1, FS_Interval
    <3> HIDE DEF f
    <3>3. IsFiniteSet(R)
      BY <3>2, ImageIs, Zenon
    <3> QED BY <3>1, <3>3, FS_AddElement
  <2> HIDE DEF T
  <2>6. Sets!Max(T) \in Nat /\ \A x \in T : x <= Sets!Max(T)
    BY <2>4, <2>5, MaxIs
  <2>7. u <= Sets!Max(T)
    <3>1. CASE u = 0
      BY <2>6, <3>1
    <3>2. CASE u # 0
      <4>1. PICK i \in Nodes : u <= Cardinality(Alive(cycle[i]))
        BY <3>2 DEF BoundInv, Crowded, u
      <4>2. cycle[i] \in 0 .. TotalLatency
        BY <2>1 DEF Timed
      <4>3. Cardinality(AliveAt(cycle[i])) \in T
        BY <4>2 DEF T, Loads
      <4>4. Cardinality(Alive(cycle[i])) \in T /\ Cardinality(Alive(cycle[i])) \in Nat
        BY <2>2, <2>3, <4>3
      <4> QED BY <1>1, <2>6, <4>1, <4>4
    <3> QED BY <3>1, <3>2
  <2> QED BY <1>3, <2>7 DEF Few, T
<1>6. Full(r)
  <2> SUFFICES ASSUME NEW i \in ValuedNodes, r[i] = 0 PROVE u = MaxRegs
    BY <1>3 DEF Full
  <2>1. i \in Nodes /\ HasValue(i)
    BY DEF ValuedNodes
  <2>2. PICK p \in Nodes : o[p] = i
    BY <2>1 DEF Permutes
  <2>3. p \in 1 .. Len(ops)
    BY DEF Nodes
  <2> QED BY <2>1, <2>2, <2>3 DEF BoundInv, Refused, u
<1> QED BY <1>4, <1>5, <1>6
-----------------------------------------------------------------------------
(* The controller.                                                           *)
LEMMA FunctionSeq ==
  ASSUME NEW n \in Nat, NEW T, NEW f \in [1 .. n -> T]
  PROVE  f \in Seq(T) /\ Len(f) = n /\ DOMAIN f = 1 .. n
<1>1. f \in Seq(T)
  BY SeqDef
<1>2. Len(f) \in Nat /\ DOMAIN f = 1 .. Len(f) /\ DOMAIN f = 1 .. n
  BY <1>1, LenProperties
<1> QED BY <1>1, <1>2

StepsOf(m, k) == Loop(k, 0, [j \in 1 .. k |-> [s \in 0 .. (Len(m.states) - 1) |-> m.states[s + 1].next]])
Runs(m) ==
  LET n == Len(m.states)
  IN  m.ok =>
        /\ \A i \in Nodes : i \in m.states[StepsOf(m, cycle[i]) + 1].operations
        /\ \A i \in Nodes : Cardinality({s \in 1 .. n : i \in m.states[s].operations}) = 1
        /\ \A s \in 1 .. n : /\ m.states[s].next \in 0 .. (n - 1)
                             /\ m.states[s].alt # -1 => m.states[s].alt \in (s - 1) .. (n - 1)
                             /\ s < n => m.states[s].next > s - 1 /\ m.states[s].alt # s - 1

LEMMA RunsMeans == ControllerRunsSchedule <=> Runs(fsm)
BY DEF ControllerRunsSchedule, Runs, After, StepsOf

LEMMA SameRuns == ASSUME UNCHANGED <<ops, cycle>>, NEW m, Runs(m) PROVE Runs(m)'
BY DEF Runs, StepsOf, Nodes

(* The states of a controller whose generation succeeded.                    *)
LEMMA ChainIs ==
  ASSUME HlsAssumption, GraphType, Timed, Generated.ok
  PROVE  LET n == Len(Generated.states)
         IN  /\ n \in Nat \ {0} /\ \A i \in Nodes : cycle[i] \in 0 .. (n - 1)
             /\ \A s \in 1 .. n : LET st == Generated.states[s] IN
                  /\ st.operations = {i \in Nodes : cycle[i] = s - 1}
                  /\ st.next = IF s = n THEN n - 1 ELSE s
                  /\ st.alt = -1 \/ st.alt = SkipTo(s - 1, n)
<1> DEFINE n == 1 + Sets!Max({cycle[i] : i \in Nodes} \cup {0})
           base == [Chain(n) EXCEPT ![n].next = n - 1]
<1>1. n \in Nat /\ n # 0 /\ \A i \in Nodes : cycle[i] \in 0 .. (n - 1)
  <2> DEFINE top == TopOf(cycle, Nodes, 0)
  <2>1. top \in Nat /\ \A i \in Nodes : top >= cycle[i]
    BY MaxAmong, NodesFinite DEF Timed
  <2>2. {cycle[i] : i \in Nodes} \cup {0} = {0} \cup {cycle[i] : i \in Nodes}
    OBVIOUS
  <2>3. n = 1 + top
    BY <2>2 DEF TopOf
  <2>4. \A i \in Nodes : cycle[i] \in Nat
    BY DEF Timed
  <2> HIDE DEF top, n
  <2> QED BY <2>1, <2>3, <2>4
<1>2. Generated = [ok |-> TRUE, states |-> Branches(base)]
  BY DEF Generated
<1> HIDE DEF n
<1>3. /\ DOMAIN base = 1 .. n
      /\ \A s \in 1 .. n : base[s] = [operations |-> {i \in Nodes : cycle[i] = s - 1},
                                      next |-> IF s = n THEN n - 1 ELSE s, alt |-> -1]
  BY <1>1 DEF Chain
<1> HIDE DEF base
<1>4. Len(base) = n
  <2>1. base \in [1 .. n -> {base[s] : s \in 1 .. n}]
    BY <1>3 DEF base, Chain
  <2> QED BY <1>1, <2>1, FunctionSeq
<1> DEFINE splits(s) == n < MaxStates - 1 /\ \E i \in Nodes : ops[i] = "CMP" /\ cycle[i] = s - 1
           states == [s \in 1 .. n |-> IF splits(s) THEN [base[s] EXCEPT !.alt = SkipTo(s - 1, n)] ELSE base[s]]
<1>5. Generated.states = states
  BY <1>2, <1>4 DEF Branches
<1> HIDE DEF splits
<1>6. Len(states) = n
  <2>1. states \in [1 .. n -> {states[s] : s \in 1 .. n}]
    OBVIOUS
  <2> HIDE DEF states
  <2> QED BY <1>1, <2>1, FunctionSeq
<1>7. ASSUME NEW s \in 1 .. n
      PROVE  /\ states[s].operations = {i \in Nodes : cycle[i] = s - 1}
             /\ states[s].next = IF s = n THEN n - 1 ELSE s
             /\ states[s].alt = -1 \/ states[s].alt = SkipTo(s - 1, n)
  <2>1. states[s] = IF splits(s) THEN [base[s] EXCEPT !.alt = SkipTo(s - 1, n)] ELSE base[s]
    OBVIOUS
  <2> HIDE DEF states
  <2> QED BY <1>3, <2>1
<1> HIDE DEF states
<1> QED BY <1>1, <1>5, <1>6, <1>7

(* From the start the controller is after k steps in the state of cycle k.     *)
LEMMA GeneratedRuns ==
  ASSUME HlsAssumption, GraphType, Timed
  PROVE  Runs(Generated)
<1> SUFFICES ASSUME Generated.ok PROVE Runs(Generated)
  BY DEF Runs
<1> DEFINE m == Generated
           n == Len(m.states)
<1>1. /\ n \in Nat \ {0} /\ \A i \in Nodes : cycle[i] \in 0 .. (n - 1)
      /\ \A s \in 1 .. n : /\ m.states[s].operations = {i \in Nodes : cycle[i] = s - 1}
                           /\ m.states[s].next = IF s = n THEN n - 1 ELSE s
                           /\ m.states[s].alt = -1 \/ m.states[s].alt = SkipTo(s - 1, n)
  BY ChainIs
<1> HIDE DEF m
<1>2. ASSUME NEW k \in 0 .. (n - 1) PROVE StepsOf(m, k) = k
  <2> DEFINE S == [j \in 0 .. k |-> {j}]
             step == [j \in 1 .. k |-> [s \in 0 .. (Len(m.states) - 1) |-> m.states[s + 1].next]]
  <2>1. 0 \in S[0] /\ k \in Nat /\ S[k] = {k}
    OBVIOUS
  <2>2. ASSUME NEW j \in 1 .. k, NEW s \in S[j - 1] PROVE step[j][s] \in S[j]
    <3>1. s = j - 1 /\ s \in 0 .. (n - 1) /\ s + 1 = j /\ j \in 1 .. n /\ j # n
      BY <1>1
    <3>2. step[j][s] = m.states[j].next
      BY <3>1
    <3>3. m.states[j].next = j
      BY <1>1, <3>1
    <3> QED BY <3>2, <3>3
  <2>3. StepsOf(m, k) = Loop(k, 0, step)
    BY DEF StepsOf
  <2> HIDE DEF step
  <2>4. \A j \in 1 .. k : \A s \in S[j - 1] : step[j][s] \in S[j]
    BY <2>2
  <2> HIDE DEF S
  <2>5. Loop(k, 0, step) \in S[k]
    BY <2>1, <2>4, LoopKeeps
  <2> QED BY <2>1, <2>3, <2>5
<1>3. ASSUME NEW i \in Nodes PROVE i \in m.states[StepsOf(m, cycle[i]) + 1].operations
  <2>1. StepsOf(m, cycle[i]) = cycle[i]
    BY <1>1, <1>2
  <2>2. cycle[i] + 1 \in 1 .. n /\ (cycle[i] + 1) - 1 = cycle[i]
    BY <1>1
  <2> QED BY <1>1, <2>1, <2>2
<1>4. ASSUME NEW i \in Nodes PROVE Cardinality({s \in 1 .. n : i \in m.states[s].operations}) = 1
  <2> DEFINE X == {s \in 1 .. n : i \in m.states[s].operations}
  <2>1. cycle[i] + 1 \in 1 .. n /\ cycle[i] \in Nat
    BY <1>1
  <2>2. ASSUME NEW s \in 1 .. n PROVE i \in m.states[s].operations <=> s = cycle[i] + 1
    BY <1>1, <2>1
  <2>3. X = {cycle[i] + 1}
    BY <2>1, <2>2
  <2> HIDE DEF X
  <2> QED BY <2>3, FS_Singleton DEF X
<1>5. ASSUME NEW s \in 1 .. n
      PROVE  /\ m.states[s].next \in 0 .. (n - 1)
             /\ m.states[s].alt # -1 => m.states[s].alt \in (s - 1) .. (n - 1)
             /\ s < n => m.states[s].next > s - 1 /\ m.states[s].alt # s - 1
  <2>1. /\ m.states[s].next = IF s = n THEN n - 1 ELSE s
        /\ m.states[s].alt = -1 \/ m.states[s].alt = SkipTo(s - 1, n)
    BY <1>1
  <2>2. SkipTo(s - 1, n) = IF s + 1 >= n THEN n - 1 ELSE s + 1
    BY <1>1 DEF SkipTo
  <2> HIDE DEF n
  <2> QED BY <1>1, <2>1, <2>2
<1> QED BY <1>3, <1>4, <1>5 DEF Runs, m
-----------------------------------------------------------------------------
(* The core: its graph is complete before anything is derived from it.         *)
CoreInv ==
  /\ GraphType
  /\ planner # "none" => Timed
  /\ planner = "none" => regs = <<>> /\ fsm = NoFsm /\ units = NoUnits
  /\ units # NoUnits \/ regs # <<>> \/ fsm # NoFsm => planner # "none"
  /\ DependencesKept /\ RegistersShared /\ ControllerRunsSchedule

LEMMA CoreStarts == HlsAssumption /\ CoreInit => CoreInv
<1> SUFFICES ASSUME HlsAssumption, CoreInit PROVE CoreInv
  OBVIOUS
<1>1. GraphType
  BY EmptySeq DEF CoreInit, GraphType, Nodes
<1>2. DependencesKept /\ RegistersShared /\ ControllerRunsSchedule
  BY DEF CoreInit, DependencesKept, RegistersShared, ControllerRunsSchedule, NoFsm
<1> QED BY <1>1, <1>2 DEF CoreInit, CoreInv

(* Every scheduler that follows the edges keeps them.                        *)
LEMMA PlannedKeeps ==
  ASSUME HlsAssumption, CoreInv, NEW by, NEW cycles \in [Nodes -> Nat], Planned(by, cycles), by # "none",
         by \in {"asap", "alap", "list"} /\ Acyclic => \A k \in 1 .. Len(edges) : EdgeMet(cycles, edges[k])
  PROVE  CoreInv'
<1>1. UNCHANGED <<ops, edges>> /\ cycle' = cycles /\ planner' = by
      /\ regs' = <<>> /\ fsm' = NoFsm /\ units' = NoUnits
  BY DEF Planned, Unplanned, graph
<1>2. GraphType'
  BY <1>1 DEF CoreInv, GraphType, EdgeType, Nodes
<1>3. Timed'
  BY <1>1 DEF Timed, Nodes
<1>4. DependencesKept'
  <2>1. Acyclic' = Acyclic
    BY <1>1 DEF Acyclic, Nodes
  <2>2. Len(edges) \in Nat /\ DOMAIN edges = 1 .. Len(edges)
    BY EdgeAt DEF CoreInv
  <2>3. \A i : Latency(i)' = Latency(i)
    BY <1>1 DEF Latency
  <2> QED BY <1>1, <2>1, <2>2, <2>3 DEF DependencesKept, EdgeMet
<1>5. RegistersShared' /\ ControllerRunsSchedule'
  BY <1>1 DEF RegistersShared, ControllerRunsSchedule, NoFsm
<1> QED BY <1>1, <1>2, <1>3, <1>4, <1>5 DEF CoreInv

LEMMA OpsAre ==
  ASSUME NEW s \in Seq(OpsUsed \cup {"LOAD"})
  PROVE  Len(s) \in Nat /\ DOMAIN s = 1 .. Len(s)
BY LenProperties

LEMMA CoreKeeps ==
  ASSUME HlsAssumption, CoreInv, [CoreNext]_coreVars
  PROVE  CoreInv'
<1>g. GraphType /\ Len(ops) \in Nat
  BY DEF CoreInv, GraphType
<1>1. ASSUME NEW op \in OpsUsed, AddNode(op) PROVE CoreInv'
  <2>1. ops' = Append(ops, op) /\ edges' = <<>> /\ planner' = "none"
        /\ regs' = <<>> /\ fsm' = NoFsm /\ units' = NoUnits
    BY <1>1 DEF AddNode, CoreInv
  <2>2. ops' \in Seq(OpsUsed \cup {"LOAD"})
    BY <1>g, <2>1, AppendProperties DEF GraphType
  <2>3. GraphType'
    BY <2>1, <2>2, OpsAre, EmptySeq DEF GraphType, Nodes
  <2> QED BY <2>1, <2>3 DEF CoreInv, DependencesKept, RegistersShared, ControllerRunsSchedule, NoFsm
<1>2. ASSUME NEW i \in Nodes, NEW j \in Nodes, NEW d \in 0 .. MaxDelay, AddEdge(i, j, d) PROVE CoreInv'
  <2> DEFINE e == [from |-> i, to |-> j, delay |-> d]
  <2>1. ops' = ops /\ edges' = Append(edges, e) /\ planner' = "none"
        /\ regs' = <<>> /\ fsm' = NoFsm /\ units' = NoUnits
    BY <1>2 DEF AddEdge, CoreInv
  <2>2. edges' \in Seq(EdgeType)
    <3>1. e \in EdgeType
      BY DEF EdgeType
    <3> HIDE DEF e
    <3> QED BY <1>g, <2>1, <3>1, AppendProperties DEF GraphType
  <2>3. EdgeType' = EdgeType /\ Nodes' = Nodes
    BY <2>1 DEF EdgeType, Nodes
  <2>4. GraphType'
    BY <1>g, <2>1, <2>2, <2>3 DEF GraphType
  <2> QED BY <2>1, <2>4 DEF CoreInv, DependencesKept, RegistersShared, ControllerRunsSchedule, NoFsm
<1>3. ASSUME NEW named \in BOOLEAN, BuildFromC(named) PROVE CoreInv'
  <2>1. ops' = (IF named THEN <<"LOAD">> ELSE <<>>) /\ edges' = <<>> /\ planner' = "none"
        /\ regs' = <<>> /\ fsm' = NoFsm /\ units' = NoUnits
    BY <1>3 DEF BuildFromC, Unplanned
  <2>2. ops' \in Seq(OpsUsed \cup {"LOAD"})
    <3>1. <<"LOAD">> \in Seq(OpsUsed \cup {"LOAD"})
      OBVIOUS
    <3>2. <<>> \in Seq(OpsUsed \cup {"LOAD"})
      BY EmptySeq
    <3> QED BY <2>1, <3>1, <3>2
  <2>3. GraphType'
    BY <2>1, <2>2, OpsAre, EmptySeq DEF GraphType, Nodes
  <2> QED BY <2>1, <2>3 DEF CoreInv, DependencesKept, RegistersShared, ControllerRunsSchedule, NoFsm
<1>4. ASSUME SchedAsap \/ SchedList PROVE CoreInv'
  <2>1. PICK by \in {"asap", "list"} : Planned(by, Asap)
    BY <1>4, ListIs DEF SchedAsap, SchedList
  <2>2. Asap \in [Nodes -> Nat] /\ (Acyclic => \A k \in 1 .. Len(edges) : EdgeMet(Asap, edges[k]))
    BY <1>g, AsapIs
  <2> QED BY <2>1, <2>2, PlannedKeeps
<1>5. ASSUME NEW n \in 1 .. MaxLatency, SchedAlap(n) PROVE CoreInv'
  <2>1. Latest(n) \in [Nodes -> Nat] /\ (Acyclic => \A k \in 1 .. Len(edges) : EdgeMet(Latest(n), edges[k]))
    BY <1>g, LatestIs
  <2> QED BY <1>5, <2>1, PlannedKeeps DEF SchedAlap
<1>6. ASSUME NEW n \in 1 .. MaxLatency, SchedForceDirected(n) PROVE CoreInv'
  <2>1. Balanced(n) \in [Nodes -> Nat]
    BY <1>g, BalancedIs
  <2> QED BY <1>6, <2>1, PlannedKeeps DEF SchedForceDirected
<1>7. ASSUME UNCHANGED <<ops, edges, cycle, planner>>, planner # "none",
             RegistersShared', ControllerRunsSchedule'
      PROVE  CoreInv'
  <2>1. GraphType'
    BY <1>g, <1>7 DEF GraphType, EdgeType, Nodes
  <2>2. Timed'
    BY <1>7 DEF Timed, Nodes, CoreInv
  <2>3. DependencesKept'
    <3>1. Acyclic' = Acyclic /\ \A i : Latency(i)' = Latency(i)
      BY <1>7 DEF Acyclic, Latency, Nodes
    <3> QED BY <1>7, <3>1 DEF DependencesKept, CoreInv
  <2> QED BY <1>7, <2>1, <2>2, <2>3 DEF CoreInv
<1>8. ASSUME UNCHANGED <<ops, edges, cycle, regs>>, RegistersShared PROVE RegistersShared'
  <2> SUFFICES ASSUME regs # <<>> PROVE (Separate(regs) /\ Few(regs) /\ Full(regs))'
    BY <1>8 DEF RegistersShared, ValuedNodes, RegsUsed, AliveAt, Loads, Separate, Few, Full
  <2>1. PICK r : r = regs
    OBVIOUS
  <2>2. Separate(r) /\ Few(r) /\ Full(r)
    BY <1>8, <2>1, SharedMeans
  <2>3. (Separate(r) /\ Few(r) /\ Full(r))'
    BY <1>8, <2>2, SameShared
  <2>4. regs' = r
    BY <1>8, <2>1
  <2> QED BY <2>3, <2>4 DEF Separate, Few, Full, RegsUsed
<1>9. ASSUME UNCHANGED <<ops, cycle, fsm>>, ControllerRunsSchedule PROVE ControllerRunsSchedule'
  <2>1. PICK m : m = fsm
    OBVIOUS
  <2>2. Runs(m)
    BY <1>9, <2>1, RunsMeans
  <2>3. Runs(m)'
    BY <1>9, <2>2, SameRuns
  <2>4. fsm' = m
    BY <1>9, <2>1
  <2> QED BY <2>3, <2>4 DEF ControllerRunsSchedule, Runs, After, StepsOf
<1>10. ASSUME AllocGreedy PROVE CoreInv'
  BY <1>7, <1>8, <1>9, <1>10 DEF AllocGreedy, graph, schedule, CoreInv
<1>11. ASSUME BindRegisters PROVE CoreInv'
  <2>1. planner # "none" /\ Timed /\ UNCHANGED <<ops, edges, cycle, planner, fsm>> /\ regs' = LeftEdge
    BY <1>11 DEF BindRegisters, CoreInv, graph, schedule
  <2>2. PICK r : r = LeftEdge
    OBVIOUS
  <2>3. Separate(r) /\ Few(r) /\ Full(r)
    <3>1. BoundInv(Sorted, Len(ops), LeftEdge) /\ Permutes(Sorted)
      BY <1>g, <2>1, LeftEdgeIs, SortedIs
    <3> QED BY <1>g, <2>1, <2>2, <3>1, SharedIs
  <2>4. (Separate(r) /\ Few(r) /\ Full(r))'
    BY <2>1, <2>3, SameShared
  <2>5. regs' = r
    BY <2>1, <2>2
  <2>6. (Separate(regs) /\ Few(regs) /\ Full(regs))'
    BY <2>4, <2>5 DEF Separate, Few, Full, RegsUsed
  <2>7. RegistersShared'
    BY <2>6 DEF RegistersShared, ValuedNodes, RegsUsed, AliveAt, Loads, Separate, Few, Full
  <2> QED BY <1>7, <1>9, <2>1, <2>7 DEF CoreInv
<1>12. ASSUME FsmdGenerate PROVE CoreInv'
  <2>1. planner # "none" /\ Timed /\ UNCHANGED <<ops, edges, cycle, planner, regs>> /\ fsm' = Generated
    BY <1>12 DEF FsmdGenerate, CoreInv, graph, schedule
  <2>2. PICK m : m = Generated
    OBVIOUS
  <2>3. Runs(m)
    BY <1>g, <2>1, <2>2, GeneratedRuns
  <2>4. Runs(m)'
    BY <2>1, <2>3, SameRuns
  <2>5. fsm' = m
    BY <2>1, <2>2
  <2>6. ControllerRunsSchedule'
    BY <2>4, <2>5 DEF ControllerRunsSchedule, Runs, After, StepsOf
  <2> QED BY <1>7, <1>8, <2>1, <2>6 DEF CoreInv
<1>13. ASSUME UNCHANGED coreVars PROVE CoreInv'
  <2>1. UNCHANGED <<ops, edges, asap, cycle, planner, regs, rows, units, fsm>>
    BY <1>13 DEF coreVars, graph, schedule
  <2>2. CASE planner # "none"
    BY <1>7, <1>8, <1>9, <2>1, <2>2 DEF CoreInv
  <2>3. CASE planner = "none"
    <3>1. GraphType'
      BY <1>g, <2>1 DEF GraphType, EdgeType, Nodes
    <3> QED BY <2>1, <2>3, <3>1 DEF CoreInv, DependencesKept, RegistersShared, ControllerRunsSchedule, NoFsm
  <2> QED BY <2>2, <2>3
<1> QED BY <1>1, <1>2, <1>3, <1>4, <1>5, <1>6, <1>10, <1>11, <1>12, <1>13 DEF CoreNext
-----------------------------------------------------------------------------
(* The pipelined graph.                                                      *)
PortType(ports) == ports \in Seq(Seq(PNodes)) /\ Len(ports) = Len(pnodes)
PipeType ==
  /\ pnodes \in Seq({"ADD", "MUL"}) /\ Len(pnodes) \in Nat
  /\ PortType(pinputs) /\ PortType(poutputs)
PipeKept(t) == \A e \in Noted : t[e[1]] + PLatency(e[1]) <= t[e[2]]

LEMMA PortsAre ==
  ASSUME PipeType, NEW i \in PNodes
  PROVE  Inputs(i) \in SUBSET PNodes /\ Outputs(i) \in SUBSET PNodes
<1>1. ASSUME NEW ports, PortType(ports) PROVE Lists!Range(ports[i]) \in SUBSET PNodes
  <2>1. i \in 1 .. Len(ports)
    BY <1>1 DEF PortType, PNodes
  <2>2. ports[i] \in Seq(PNodes)
    BY <1>1, <2>1, ElementOfSeq DEF PortType
  <2>3. \A k \in DOMAIN ports[i] : ports[i][k] \in PNodes
    BY <2>2, LenProperties, ElementOfSeq
  <2> QED BY <2>3 DEF Lists!Range
<1> QED BY <1>1 DEF PipeType, Inputs, Outputs

LEMMA PNodesAre ==
  ASSUME PipeType
  PROVE  IsFiniteSet(PNodes) /\ PNodes \in SUBSET Nat /\ \A i \in PNodes : PLatency(i) \in {1, 3}
BY FS_Interval DEF PipeType, PNodes, PLatency

(* A node is ready when its inputs are, and the graph is done when its nodes are. *)
LEMMA ReadyIs ==
  ASSUME PipeType, NEW t \in PTimes, NEW i \in PNodes
  PROVE  Ready(t, i) \in Nat /\ \A j \in Inputs(i) : t[j] + PLatency(j) <= Ready(t, i)
<1> DEFINE f == [j \in PNodes |-> t[j] + PLatency(j)]
           J == Inputs(i)
           m == TopOf(f, J, 0)
<1>1. \A j \in PNodes : t[j] \in Nat /\ PLatency(j) \in Nat
  BY PNodesAre DEF PTimes
<1>2. f \in [PNodes -> Nat]
  BY <1>1
<1>3. J \in SUBSET PNodes /\ IsFiniteSet(PNodes)
  BY PortsAre, PNodesAre
<1>4. {t[j] + PLatency(j) : j \in Inputs(i)} \cup {0} = {0} \cup {f[j] : j \in J}
  BY <1>3
<1>5. Ready(t, i) = m
  BY <1>4 DEF Ready, TopOf
<1>6. \A j \in J : f[j] = t[j] + PLatency(j)
  BY <1>3
<1> HIDE DEF f, J
<1>7. m \in Nat /\ \A j \in J : m >= f[j]
  BY <1>2, <1>3, MaxAmong
<1> HIDE DEF m
<1>8. \A j \in J : t[j] + PLatency(j) \in Nat
  BY <1>1, <1>3
<1>9. \A j \in J : t[j] + PLatency(j) <= Ready(t, i)
  BY <1>5, <1>6, <1>7, <1>8
<1> QED BY <1>5, <1>7, <1>9 DEF J

LEMMA TotalIs ==
  ASSUME PipeType, NEW t \in PTimes
  PROVE  PipeTotal(t) \in Nat /\ \A i \in PNodes : t[i] + PLatency(i) <= PipeTotal(t)
<1> DEFINE f == [j \in PNodes |-> t[j] + PLatency(j)]
           m == TopOf(f, PNodes, 0)
<1>1. \A j \in PNodes : t[j] \in Nat /\ PLatency(j) \in Nat
  BY PNodesAre DEF PTimes
<1>2. f \in [PNodes -> Nat]
  BY <1>1
<1>3. {t[i] + PLatency(i) : i \in PNodes} \cup {0} = {0} \cup {f[j] : j \in PNodes}
  OBVIOUS
<1>4. PipeTotal(t) = m
  BY <1>3 DEF PipeTotal, TopOf
<1>5. \A j \in PNodes : f[j] = t[j] + PLatency(j)
  OBVIOUS
<1>6. IsFiniteSet(PNodes)
  BY PNodesAre
<1> HIDE DEF f
<1>7. m \in Nat /\ \A j \in PNodes : m >= f[j]
  BY <1>2, <1>6, MaxAmong
<1> HIDE DEF m
<1> QED BY <1>1, <1>4, <1>5, <1>7

(* One pass in the order of the nodes is enough when the edges follow it.      *)
LEMMA PipeAsapIs ==
  ASSUME PipeType, NEW start \in PTimes
  PROVE  PipeAsap(start) \in PTimes /\ (Topological => PipeKept(PipeAsap(start)))
<1> DEFINE n == Len(pnodes)
           Kept(k, u) == Topological => \A e \in Noted : e[2] <= k => u[e[1]] + PLatency(e[1]) <= u[e[2]]
           S == [k \in 0 .. n |-> {u \in PTimes : Kept(k, u)}]
           step == [i \in PNodes |-> [u \in PTimes |-> [u EXCEPT ![i] = Ready(u, i)]]]
<1>0. n \in Nat /\ PNodes = 1 .. n
  BY DEF PipeType, PNodes
<1>a. \A e \in Noted : e[1] \in PNodes /\ e[2] \in PNodes /\ e[1] \in Inputs(e[2])
  BY DEF Noted
<1>b. Topological => \A e \in Noted : e[1] < e[2]
  BY <1>a DEF Topological
<1>1. start \in S[0]
  <2>1. \A e \in Noted : ~(e[2] <= 0)
    BY <1>0, <1>a
  <2> QED BY <1>0, <2>1
<1> HIDE DEF n
<1>2. ASSUME NEW k \in 1 .. n, NEW u \in S[k - 1] PROVE step[k][u] \in S[k]
  <2>1. k - 1 \in 0 .. n /\ k \in 0 .. n /\ k \in PNodes
    BY <1>0
  <2>2. u \in PTimes /\ Kept(k - 1, u)
    BY <2>1
  <2> DEFINE r == [u EXCEPT ![k] = Ready(u, k)]
  <2>3. step[k][u] = r
    BY <2>1, <2>2
  <2>4. Ready(u, k) \in Nat /\ \A j \in Inputs(k) : u[j] + PLatency(j) <= Ready(u, k)
    BY <2>1, <2>2, ReadyIs
  <2>5. r \in PTimes /\ \A j \in PNodes : r[j] = IF j = k THEN Ready(u, k) ELSE u[j]
    BY <2>1, <2>2, <2>4 DEF PTimes
  <2> HIDE DEF r
  <2>6. Kept(k, r)
    <3> SUFFICES ASSUME Topological, NEW e \in Noted, e[2] <= k PROVE r[e[1]] + PLatency(e[1]) <= r[e[2]]
      OBVIOUS
    <3>1. e[1] \in PNodes /\ e[2] \in PNodes /\ e[1] \in Inputs(e[2]) /\ e[1] < e[2]
      BY <1>a, <1>b
    <3>2. e[1] # k /\ r[e[1]] = u[e[1]]
      BY <1>0, <2>5, <3>1
    <3>3. CASE e[2] = k
      BY <2>4, <2>5, <3>1, <3>2, <3>3
    <3>4. CASE e[2] # k
      <4>1. e[2] <= k - 1 /\ r[e[2]] = u[e[2]]
        BY <1>0, <2>5, <3>1, <3>4
      <4> QED BY <2>2, <3>2, <4>1
    <3> QED BY <3>3, <3>4
  <2> QED BY <2>1, <2>3, <2>5, <2>6
<1>3. PipeAsap(start) = Loop(n, start, step)
  BY DEF PipeAsap, n
<1> HIDE DEF step
<1>4. \A k \in 1 .. n : \A u \in S[k - 1] : step[k][u] \in S[k]
  BY <1>2
<1>5. S[n] = {u \in PTimes : Kept(n, u)}
  BY <1>0
<1> HIDE DEF S
<1>6. Loop(n, start, step) \in S[n]
  BY <1>0, <1>1, <1>4, LoopKeeps
<1>7. PipeAsap(start) \in PTimes /\ Kept(n, PipeAsap(start))
  BY <1>3, <1>5, <1>6
<1>8. \A e \in Noted : e[2] <= n
  BY <1>0, <1>a
<1> QED BY <1>7, <1>8 DEF PipeKept

(* The latest schedule: not before the earliest one, and from node m on every   *)
(* node ends before the limit and before its consumers start.                  *)
Fits(early, limit, m, t) ==
  \A i \in PNodes :
    /\ early[i] <= t[i]
    /\ i >= m => /\ t[i] + PLatency(i) <= limit
                 /\ \A j \in Outputs(i) : t[i] + PLatency(i) <= t[j]
Early(early, limit) ==
  early \in PTimes /\ Topological /\ PipeKept(early) /\ \A i \in PNodes : early[i] + PLatency(i) <= limit

LEMMA PulledFits ==
  ASSUME PipeType, NEW limit \in Nat, NEW early, Early(early, limit), NEW t \in PTimes, NEW i \in PNodes,
         Fits(early, limit, i + 1, t)
  PROVE  /\ Pulled(t, i, limit) \in Nat
         /\ Fits(early, limit, i, [t EXCEPT ![i] = Pulled(t, i, limit)])
<1> DEFINE T == {t[j] : j \in Outputs(i)} \cup {limit}
           bound == Sets!Min(T)
           lat == PLatency(i)
           new == IF bound >= lat THEN bound - lat ELSE 0
           p == Pulled(t, i, limit)
           r == [t EXCEPT ![i] = p]
<1>1. Outputs(i) \in SUBSET PNodes
  BY PortsAre
<1>2. \A j \in PNodes : t[j] \in Nat /\ early[j] \in Nat /\ early[j] <= t[j] /\ PLatency(j) \in Nat
  BY PNodesAre DEF PTimes, Early, Fits
<1>3. bound \in T /\ \A x \in T : bound <= x
  <2>1. T \in SUBSET Nat /\ T # {}
    BY <1>1, <1>2
  <2> QED BY <2>1, MinIs
<1>4. bound \in Nat /\ bound <= limit /\ \A j \in Outputs(i) : bound <= t[j]
  BY <1>1, <1>2, <1>3
<1>5. p = IF new < t[i] THEN new ELSE t[i]
  BY DEF Pulled
<1>6. \A j \in Outputs(i) : i < j /\ early[i] + lat <= early[j]
  <2> SUFFICES ASSUME NEW j \in Outputs(i) PROVE i < j /\ early[i] + lat <= early[j]
    OBVIOUS
  <2>1. j \in PNodes /\ i < j /\ <<i, j>> \in Noted
    BY <1>1 DEF Early, Topological
  <2>2. early[<<i, j>>[1]] + PLatency(<<i, j>>[1]) <= early[<<i, j>>[2]]
    BY <2>1 DEF Early, PipeKept
  <2> QED BY <2>1, <2>2
<1>7. early[i] + lat <= bound
  <2>1. \A x \in T : early[i] + lat <= x
    <3> SUFFICES ASSUME NEW x \in T PROVE early[i] + lat <= x
      OBVIOUS
    <3>1. CASE x = limit
      BY <3>1 DEF Early
    <3>2. ASSUME NEW j \in Outputs(i), x = t[j] PROVE early[i] + lat <= x
      <4>1. early[i] + lat <= early[j] /\ early[j] <= t[j] /\ j \in PNodes
        BY <1>1, <1>2, <1>6
      <4> HIDE DEF T
      <4> QED BY <1>2, <3>2, <4>1
    <3> QED BY <3>1, <3>2
  <2> QED BY <1>3, <2>1
<1>8. lat \in Nat /\ early[i] \in Nat /\ t[i] \in Nat /\ early[i] <= t[i]
  BY <1>2
<1> HIDE DEF T, bound, lat
<1>9. p \in Nat /\ early[i] <= p /\ p + lat <= bound
  <2>1. new \in Nat /\ early[i] <= new /\ new + lat <= bound
    BY <1>4, <1>7, <1>8
  <2> HIDE DEF new, p
  <2> QED BY <1>4, <1>5, <1>8, <2>1
<1> HIDE DEF p
<1>10. \A j \in PNodes : r[j] = IF j = i THEN p ELSE t[j]
  BY DEF PTimes
<1> HIDE DEF r
<1>11. ASSUME NEW a \in PNodes
       PROVE  /\ early[a] <= r[a]
              /\ a >= i => /\ r[a] + PLatency(a) <= limit
                           /\ \A j \in Outputs(a) : r[a] + PLatency(a) <= r[j]
  <2>0. i \in Nat /\ a \in Nat
    BY PNodesAre
  <2>1. CASE a = i
    <3>1. r[a] = p /\ PLatency(a) = lat
      BY <1>10, <2>1 DEF lat
    <3>2. p + lat <= limit
      BY <1>4, <1>8, <1>9
    <3>3. ASSUME NEW j \in Outputs(a) PROVE p + lat <= r[j]
      <4>1. j \in Outputs(i) /\ j \in PNodes /\ j # i
        BY <1>1, <1>6, <2>0, <2>1
      <4>2. r[j] = t[j] /\ bound <= t[j] /\ t[j] \in Nat
        BY <1>2, <1>4, <1>10, <4>1
      <4> QED BY <1>4, <1>8, <1>9, <4>2
    <3> QED BY <1>9, <2>1, <3>1, <3>2, <3>3
  <2>2. CASE a # i
    <3>1. r[a] = t[a]
      BY <1>10, <2>2
    <3>2. early[a] <= t[a] /\ (a >= i + 1 => /\ t[a] + PLatency(a) <= limit
                                             /\ \A j \in Outputs(a) : t[a] + PLatency(a) <= t[j])
      BY DEF Fits
    <3>3. ASSUME a >= i, NEW j \in Outputs(a) PROVE r[j] = t[j]
      <4>1. j \in PNodes /\ a < j
        BY PortsAre DEF Early, Topological
      <4>2. j # i
        BY <2>0, <3>3, <4>1, PNodesAre
      <4> QED BY <1>10, <4>1, <4>2
    <3>4. a >= i => a >= i + 1
      BY <2>0, <2>2
    <3> QED BY <3>1, <3>2, <3>3, <3>4
  <2> QED BY <2>1, <2>2
<1> QED BY <1>9, <1>11 DEF Fits, r, p

LEMMA PipeBackFits ==
  ASSUME PipeType, NEW limit \in Nat, NEW early, Early(early, limit), NEW t \in PTimes,
         \A i \in PNodes : early[i] <= t[i]
  PROVE  PipeBack(limit, t) \in PTimes /\ Fits(early, limit, 1, PipeBack(limit, t))
<1> DEFINE n == Len(pnodes)
           S == [k \in 0 .. n |-> {u \in PTimes : Fits(early, limit, n + 1 - k, u)}]
           step == [k \in PNodes |-> [u \in PTimes |-> [u EXCEPT ![n + 1 - k] = Pulled(u, n + 1 - k, limit)]]]
<1>0. n \in Nat /\ PNodes = 1 .. n
  BY DEF PipeType, PNodes
<1> HIDE DEF n
<1>1. t \in S[0]
  <2>1. \A i \in PNodes : ~(i >= n + 1)
    BY <1>0
  <2>2. n + 1 - 0 = n + 1
    BY <1>0
  <2>3. Fits(early, limit, n + 1 - 0, t)
    BY <2>1, <2>2 DEF Fits
  <2> QED BY <1>0, <2>3
<1>2. ASSUME NEW k \in 1 .. n, NEW u \in S[k - 1] PROVE step[k][u] \in S[k]
  <2> DEFINE i == n + 1 - k
  <2>1. /\ k - 1 \in 0 .. n /\ k \in 0 .. n /\ k \in PNodes
        /\ i \in PNodes /\ n + 1 - (k - 1) = i + 1
    BY <1>0
  <2>2. u \in PTimes /\ Fits(early, limit, i + 1, u)
    <3>1. u \in PTimes /\ Fits(early, limit, n + 1 - (k - 1), u)
      BY <2>1
    <3> QED BY <2>1, <3>1
  <2>3. step[k][u] = [u EXCEPT ![i] = Pulled(u, i, limit)]
    BY <2>1, <2>2
  <2> HIDE DEF step, i
  <2>4. Pulled(u, i, limit) \in Nat /\ Fits(early, limit, i, [u EXCEPT ![i] = Pulled(u, i, limit)])
    BY <2>1, <2>2, PulledFits
  <2>5. [u EXCEPT ![i] = Pulled(u, i, limit)] \in PTimes
    BY <2>1, <2>2, <2>4 DEF PTimes
  <2> QED BY <2>1, <2>3, <2>4, <2>5 DEF i
<1>3. PipeBack(limit, t) = Loop(n, t, step)
  BY DEF PipeBack, n
<1> HIDE DEF step
<1>4. \A k \in 1 .. n : \A u \in S[k - 1] : step[k][u] \in S[k]
  BY <1>2
<1>5. S[n] = {u \in PTimes : Fits(early, limit, 1, u)}
  <2>1. n + 1 - n = 1 /\ n \in 0 .. n
    BY <1>0
  <2> QED BY <2>1
<1> HIDE DEF S
<1>6. Loop(n, t, step) \in S[n]
  BY <1>0, <1>1, <1>4, LoopKeeps
<1> QED BY <1>3, <1>5, <1>6

LEMMA PipeAlapFits ==
  ASSUME PipeType, NEW limit \in Nat, NEW early, Early(early, limit)
  PROVE  PipeAlap(limit) \in PTimes /\ Fits(early, limit, 1, PipeAlap(limit))
<1> DEFINE n == Sweeps(limit)
           start == [i \in PNodes |-> limit]
           Kept(k, u) == (\A i \in PNodes : early[i] <= u[i]) /\ (k >= 1 => Fits(early, limit, 1, u))
           S == [k \in 0 .. n |-> {u \in PTimes : Kept(k, u)}]
           step == [k \in 1 .. n |-> [t \in PTimes |-> PipeBack(limit, t)]]
<1>0. n \in Nat /\ n >= 1
  <2>1. Len(pnodes) \in Nat
    BY DEF PipeType
  <2>2. Len(pnodes) * limit \in Nat
    BY <2>1
  <2> QED BY <2>2 DEF Sweeps
<1> HIDE DEF n
<1>1. start \in S[0]
  <2>1. start \in PTimes
    BY DEF PTimes
  <2>2. \A i \in PNodes : early[i] <= start[i]
    <3> SUFFICES ASSUME NEW i \in PNodes PROVE early[i] <= limit
      OBVIOUS
    <3>1. early[i] \in Nat /\ PLatency(i) \in {1, 3} /\ early[i] + PLatency(i) <= limit
      BY PNodesAre DEF Early, PTimes
    <3> QED BY <3>1
  <2> HIDE DEF start
  <2> QED BY <1>0, <2>1, <2>2
<1> HIDE DEF start
<1>2. ASSUME NEW k \in 1 .. n, NEW u \in S[k - 1] PROVE step[k][u] \in S[k]
  <2>1. k - 1 \in 0 .. n /\ k \in 0 .. n
    BY <1>0
  <2>2. u \in PTimes /\ \A i \in PNodes : early[i] <= u[i]
    BY <2>1
  <2>3. step[k][u] = PipeBack(limit, u)
    BY <2>2
  <2>4. PipeBack(limit, u) \in PTimes /\ Fits(early, limit, 1, PipeBack(limit, u))
    BY <2>2, PipeBackFits
  <2>5. \A i \in PNodes : early[i] <= PipeBack(limit, u)[i]
    BY <2>4 DEF Fits
  <2> QED BY <2>1, <2>3, <2>4, <2>5
<1>3. PipeAlap(limit) = Loop(n, start, step)
  BY DEF PipeAlap, n, start
<1> HIDE DEF step
<1>4. \A k \in 1 .. n : \A u \in S[k - 1] : step[k][u] \in S[k]
  BY <1>2
<1>5. S[n] = {u \in PTimes : Kept(n, u)}
  BY <1>0
<1> HIDE DEF S
<1>6. Loop(n, start, step) \in S[n]
  BY <1>0, <1>1, <1>4, LoopKeeps
<1> QED BY <1>0, <1>3, <1>5, <1>6

(* What stands of the graph is the same while its nodes and ports stay.        *)
LEMMA SameGraph ==
  ASSUME UNCHANGED <<pnodes, pinputs, poutputs>>
  PROVE  /\ PNodes' = PNodes /\ PTimes' = PTimes /\ PipeType' = PipeType
         /\ Noted' = Noted /\ Topological' = Topological
         /\ \A i : PLatency(i)' = PLatency(i)
<1>1. PNodes' = PNodes /\ PTimes' = PTimes
  BY DEF PNodes, PTimes
<1>2. \A i : Inputs(i)' = Inputs(i) /\ Outputs(i)' = Outputs(i) /\ PLatency(i)' = PLatency(i)
  BY DEF Inputs, Outputs, PLatency
<1>3. Noted' = Noted
  BY <1>1, <1>2 DEF Noted
<1>4. Topological' = Topological
  BY <1>1, <1>2, <1>3 DEF Topological
<1>5. PipeType' = PipeType
  BY <1>1 DEF PipeType, PortType
<1> QED BY <1>1, <1>2, <1>3, <1>4, <1>5

PipeInv ==
  /\ PipeType
  /\ pasap \in Seq(Nat) /\ Len(pasap) = Len(pnodes)
  /\ planned_ = "asap" /\ Topological => PipeKept(pasap)
  /\ WindowsHold

LEMMA PipeStarts == TransformInit => PipeInv
<1> SUFFICES ASSUME TransformInit PROVE PipeInv
  OBVIOUS
<1>1. pnodes = <<>> /\ pinputs = <<>> /\ poutputs = <<>> /\ pasap = <<>> /\ planned_ = "none"
  BY DEF TransformInit
<1>2. PipeType
  BY <1>1, EmptySeq DEF PipeType, PortType
<1>3. pasap \in Seq(Nat) /\ Len(pasap) = Len(pnodes)
  BY <1>1, EmptySeq
<1> QED BY <1>1, <1>2, <1>3 DEF PipeInv, WindowsHold

LEMMA TimesAre ==
  ASSUME PipeType, NEW t
  PROVE  t \in PTimes <=> t \in Seq(Nat) /\ Len(t) = Len(pnodes)
<1>1. ASSUME t \in PTimes PROVE t \in Seq(Nat) /\ Len(t) = Len(pnodes)
  <2>1. t \in [1 .. Len(pnodes) -> Nat]
    BY <1>1 DEF PTimes, PNodes
  <2> QED BY <2>1, FunctionSeq DEF PipeType
<1>2. ASSUME t \in Seq(Nat), Len(t) = Len(pnodes) PROVE t \in PTimes
  BY <1>2, LenProperties DEF PTimes, PNodes
<1> QED BY <1>1, <1>2

LEMMA EmptyPorts ==
  ASSUME NEW A, NEW B, NEW ports \in Seq(Seq(A)), \A i \in 1 .. Len(ports) : ports[i] = <<>>
  PROVE  Append(ports, <<>>) \in Seq(Seq(B)) /\ Len(Append(ports, <<>>)) = Len(ports) + 1
<1>1. Len(ports) \in Nat /\ DOMAIN ports = 1 .. Len(ports) /\ ports \in [1 .. Len(ports) -> Seq(A)]
  BY LenProperties
<1>2. <<>> \in Seq(B)
  BY EmptySeq
<1>3. ports \in [1 .. Len(ports) -> Seq(B)]
  BY <1>1, <1>2
<1>4. ports \in Seq(Seq(B))
  BY <1>1, <1>3, FunctionSeq
<1> QED BY <1>2, <1>4, AppendProperties

LEMMA PortIs ==
  ASSUME PipeType, NEW ports, PortType(ports), NEW i \in PNodes, NEW j \in PNodes
  PROVE  PortType(Port(ports, i, j))
<1>1. i \in 1 .. Len(ports) /\ ports \in Seq(Seq(PNodes)) /\ Len(ports) = Len(pnodes)
  BY DEF PortType, PNodes
<1>2. ports[i] \in Seq(PNodes)
  BY <1>1, ElementOfSeq
<1>3. Append(ports[i], j) \in Seq(PNodes)
  BY <1>2, AppendProperties
<1> DEFINE r == [ports EXCEPT ![i] = Append(ports[i], j)]
<1>4. r \in Seq(Seq(PNodes)) /\ Len(r) = Len(ports)
  BY <1>1, <1>3, ExceptSeq
<1>5. Port(ports, i, j) \in {ports, r}
  BY DEF Port
<1> HIDE DEF r
<1> QED BY <1>1, <1>4, <1>5 DEF PortType

LEMMA PipeKeeps ==
  ASSUME PipeInv, [PipeNext]_pipeVars
  PROVE  PipeInv'
<1>g. PipeType /\ pasap \in PTimes
  BY TimesAre DEF PipeInv
<1>1. ASSUME NEW op \in {"ADD", "MUL"}, AddPipeNode(op) PROVE PipeInv'
  <2>1. /\ planned_' = "none" /\ pnodes' = Append(pnodes, op) /\ pasap' = Append(pasap, 0)
        /\ pinputs' = Append(pinputs, <<>>) /\ poutputs' = Append(poutputs, <<>>)
        /\ \A i \in 1 .. Len(pnodes) : pinputs[i] = <<>> /\ poutputs[i] = <<>>
    BY <1>1 DEF AddPipeNode, PNodes
  <2>2. pnodes' \in Seq({"ADD", "MUL"}) /\ Len(pnodes') = Len(pnodes) + 1 /\ Len(pnodes) \in Nat
    BY <1>g, <2>1, AppendProperties DEF PipeType
  <2>3. pasap' \in Seq(Nat) /\ Len(pasap') = Len(pnodes) + 1
    BY <2>1, AppendProperties DEF PipeInv
  <2>4. pinputs' \in Seq(Seq(PNodes')) /\ Len(pinputs') = Len(pnodes) + 1
    BY <1>g, <2>1, EmptyPorts DEF PipeType, PortType
  <2>5. poutputs' \in Seq(Seq(PNodes')) /\ Len(poutputs') = Len(pnodes) + 1
    BY <1>g, <2>1, EmptyPorts DEF PipeType, PortType
  <2>6. PipeType'
    BY <2>2, <2>4, <2>5 DEF PipeType, PortType
  <2> QED BY <2>1, <2>2, <2>3, <2>6 DEF PipeInv, WindowsHold
<1>2. ASSUME NEW i \in PNodes, NEW j \in PNodes, AddPipeEdge(i, j) PROVE PipeInv'
  <2>1. /\ planned_' = "none" /\ UNCHANGED <<pnodes, pasap>>
        /\ poutputs' = Port(poutputs, i, j) /\ pinputs' = Port(pinputs, j, i)
    BY <1>2 DEF AddPipeEdge
  <2>2. PortType(Port(poutputs, i, j)) /\ PortType(Port(pinputs, j, i))
    BY <1>g, PortIs DEF PipeType
  <2>3. PipeType'
    BY <1>g, <2>1, <2>2 DEF PipeType, PortType, PNodes
  <2> QED BY <2>1, <2>3 DEF PipeInv, WindowsHold
<1>3. ASSUME PipeScheduleAsap PROVE PipeInv'
  <2>1. UNCHANGED <<pnodes, pinputs, poutputs>> /\ pasap' = PipeAsap(pasap) /\ planned_' = "asap"
    BY <1>3 DEF PipeScheduleAsap
  <2>2. PICK t : t = PipeAsap(pasap)
    OBVIOUS
  <2>3. t \in PTimes /\ (Topological => PipeKept(t))
    BY <1>g, <2>2, PipeAsapIs
  <2>4. pasap' \in Seq(Nat) /\ Len(pasap') = Len(pnodes')
    BY <1>g, <2>1, <2>2, <2>3, TimesAre
  <2>5. Topological' => PipeKept(t)'
    BY <2>1, <2>3, SameGraph DEF PipeKept
  <2>6. (Topological => PipeKept(pasap))'
    BY <2>1, <2>2, <2>5 DEF PipeKept
  <2>7. PipeType'
    BY <1>g, <2>1, SameGraph
  <2> QED BY <2>1, <2>4, <2>6, <2>7 DEF PipeInv, WindowsHold
<1>4. ASSUME NEW n \in 1 .. MaxCycles, PipeScheduleAlap(n) PROVE PipeInv'
  <2>1. /\ UNCHANGED <<pnodes, pinputs, poutputs, pasap>> /\ palap' = PipeAlap(n)
        /\ planned_ = "asap" /\ planned_' \in {"window", "short"}
        /\ planned_' = "window" => n >= PipeTotal(pasap)
    BY <1>4 DEF PipeScheduleAlap
  <2>2. PICK t : t = PipeAlap(n)
    OBVIOUS
  <2>3. ASSUME planned_' = "window", Topological
        PROVE  /\ \A i \in PNodes : pasap[i] <= t[i]
               /\ \A e \in Noted : /\ pasap[e[1]] + PLatency(e[1]) <= pasap[e[2]]
                                   /\ t[e[1]] + PLatency(e[1]) <= t[e[2]]
    <3>1. PipeKept(pasap)
      BY <2>1, <2>3 DEF PipeInv
    <3>2. n \in Nat /\ n >= PipeTotal(pasap)
      BY <2>1, <2>3
    <3>3. \A i \in PNodes : pasap[i] + PLatency(i) <= n
      <4> SUFFICES ASSUME NEW i \in PNodes PROVE pasap[i] + PLatency(i) <= n
        OBVIOUS
      <4>1. PipeTotal(pasap) \in Nat /\ pasap[i] + PLatency(i) <= PipeTotal(pasap)
        BY <1>g, TotalIs
      <4>2. pasap[i] \in Nat /\ PLatency(i) \in {1, 3}
        BY <1>g, PNodesAre DEF PTimes
      <4> QED BY <3>2, <4>1, <4>2
    <3>4. Early(pasap, n)
      BY <1>g, <2>3, <3>1, <3>3 DEF Early
    <3>5. t \in PTimes /\ Fits(pasap, n, 1, t)
      BY <1>g, <2>2, <3>2, <3>4, PipeAlapFits
    <3>6. \A i \in PNodes : i >= 1
      BY <1>g DEF PipeType, PNodes
    <3>7. \A i \in PNodes : pasap[i] <= t[i] /\ \A j \in Outputs(i) : t[i] + PLatency(i) <= t[j]
      BY <3>5, <3>6 DEF Fits
    <3>8. \A e \in Noted : e[1] \in PNodes /\ e[2] \in Outputs(e[1])
      BY DEF Noted
    <3> QED BY <3>1, <3>7, <3>8 DEF PipeKept
  <2>4. WindowsHold'
    BY <2>1, <2>2, <2>3, SameGraph DEF WindowsHold
  <2> QED BY <1>g, <2>1, <2>4, SameGraph DEF PipeInv
<1>5. ASSUME NEW n \in 0 .. 1, PipeScheduleList(n) PROVE PipeInv'
  <2>1. UNCHANGED <<pnodes, pinputs, poutputs, pasap>> /\ planned_' = "list"
    BY <1>5 DEF PipeScheduleList
  <2> QED BY <1>g, <2>1, SameGraph DEF PipeInv, WindowsHold
<1>6. ASSUME UNCHANGED pipeVars PROVE PipeInv'
  <2>1. UNCHANGED <<pnodes, pinputs, poutputs, pasap, palap, planned_>>
    BY <1>6 DEF pipeVars
  <2>2. WindowsHold'
    BY <2>1, SameGraph DEF WindowsHold, PipeInv
  <2> QED BY <1>g, <2>1, <2>2, SameGraph DEF PipeInv, PipeKept
<1> QED BY <1>1, <1>2, <1>3, <1>4, <1>5, <1>6 DEF PipeNext
-----------------------------------------------------------------------------
(* A loop of one more round is that round after the others.                  *)
LEMMA LoopSteps ==
  ASSUME NEW n \in Nat, NEW start, NEW step
  PROVE  /\ Loop(0, start, step) = start
         /\ Loop(n + 1, start, step) = step[n + 1][Loop(n, start, step)]
<1>1. Loop(0, start, step) = start
  <2> DEFINE S == [k \in 0 .. 0 |-> {start}]
  <2>1. start \in S[0] /\ \A k \in 1 .. 0 : \A x \in S[k - 1] : step[k][x] \in S[k]
    OBVIOUS
  <2> HIDE DEF S
  <2>2. Loop(0, start, step) \in S[0]
    BY <2>1, LoopKeeps
  <2> QED BY <2>2 DEF S
<1>2. PICK f : Rounds(f, n + 1, start, step)
  BY RoundsExist, n + 1 \in Nat
<1>3. f = [k \in 0 .. n + 1 |-> Round(f, k, start, step)]
  BY <1>2, Zenon DEF Rounds
<1>4. \A k \in 0 .. n + 1 : f[k] = Round(f, k, start, step)
  BY <1>3, Zenon
<1>5. f[0] = start /\ \A k \in 1 .. n + 1 : f[k] = step[k][f[k - 1]]
  <2>1. 0 \in 0 .. n + 1 /\ \A k \in 1 .. n + 1 : k \in 0 .. n + 1 /\ k # 0
    OBVIOUS
  <2> QED BY <1>4, <2>1, Zenon DEF Round
<1>6. ASSUME NEW m \in {n, n + 1} PROVE Loop(m, start, step) = f[m]
  <2> DEFINE S == [k \in 0 .. m |-> {f[k]}]
  <2>1. m \in Nat /\ start \in S[0]
    BY <1>5
  <2>2. ASSUME NEW k \in 1 .. m, NEW x \in S[k - 1] PROVE step[k][x] \in S[k]
    <3>1. k - 1 \in 0 .. m /\ k \in 0 .. m /\ k \in 1 .. n + 1
      BY <2>1
    <3>2. x = f[k - 1]
      BY <3>1
    <3>3. step[k][x] = f[k]
      BY <1>5, <3>1, <3>2
    <3> QED BY <3>1, <3>3
  <2>3. m \in 0 .. m
    BY <2>1
  <2> HIDE DEF S
  <2>4. Loop(m, start, step) \in S[m]
    BY <2>1, <2>2, LoopKeeps
  <2> QED BY <2>3, <2>4 DEF S
<1>7. n + 1 \in 1 .. n + 1 /\ (n + 1) - 1 = n
  OBVIOUS
<1>8. Loop(n + 1, start, step) = f[n + 1] /\ Loop(n, start, step) = f[n]
  BY <1>6
<1> QED BY <1>1, <1>5, <1>7, <1>8
-----------------------------------------------------------------------------
(* Loops: while the one change to a loop is a partial unrolling, its trips     *)
(* times its factor are those the source asked for.                          *)
NestType ==
  [parent : Nat, trip : Nat, factor : Nat, unrolled : {"NONE", "PARTIAL", "COMPLETE"}, flattened : BOOLEAN,
   ii : Nat, pipelined : BOOLEAN, made : Nat, changes : Nat]
LoopKept(l) ==
  /\ l.changes = 0 => l.trip = l.made /\ l.unrolled = "NONE"
  /\ l.changes = 1 /\ l.unrolled = "PARTIAL" => l.trip * l.factor = l.made
  /\ l.pipelined => l.ii > 0
KeptLoops == {l \in NestType : LoopKept(l)}
LoopInv == loops \in Seq(KeptLoops)

LEMMA LoopAt ==
  ASSUME NEW ls \in Seq(KeptLoops)
  PROVE  /\ Len(ls) \in Nat /\ DOMAIN ls = 1 .. Len(ls) /\ ls \in Nests
         /\ \A i \in DOMAIN ls : ls[i] \in KeptLoops /\ ls[i] \in NestType /\ LoopKept(ls[i])
<1>1. Len(ls) \in Nat /\ DOMAIN ls = 1 .. Len(ls) /\ \A i \in 1 .. Len(ls) : ls[i] \in KeptLoops
  BY ElementOfSeq, LenProperties
<1>2. \A l \in KeptLoops : l \in NestType /\ LoopKept(l)
  BY DEF KeptLoops
<1>3. ls \in Seq(NestType)
  <2>1. ls \in [1 .. Len(ls) -> NestType]
    BY <1>1, <1>2
  <2> QED BY <1>1, <2>1
<1> QED BY <1>1, <1>2, <1>3 DEF Nests, NestType

(* A loop of the nest may be put in another's place.                         *)
LEMMA LoopPut ==
  ASSUME NEW ls \in Seq(KeptLoops), NEW i \in DOMAIN ls, NEW l \in KeptLoops
  PROVE  [ls EXCEPT ![i] = l] \in Seq(KeptLoops)
<1>1. Len(ls) \in Nat /\ DOMAIN ls = 1 .. Len(ls) /\ ls \in [1 .. Len(ls) -> KeptLoops]
  <2>1. Len(ls) \in Nat /\ DOMAIN ls = 1 .. Len(ls) /\ \A k \in 1 .. Len(ls) : ls[k] \in KeptLoops
    BY ElementOfSeq, LenProperties
  <2> QED BY <2>1
<1>2. [ls EXCEPT ![i] = l] \in [1 .. Len(ls) -> KeptLoops]
  BY <1>1
<1> QED BY <1>1, <1>2

LEMMA AgainIs ==
  ASSUME NEW n \in Nat
  PROVE  Again(n) \in {1, 2} /\ (Again(n) = 1 => n = 0)
<1>1. Sets!Min({n + 1, 2}) \in {n + 1, 2} /\ \A x \in {n + 1, 2} : Sets!Min({n + 1, 2}) <= x
  BY MinIs, {n + 1, 2} \in SUBSET Nat
<1> QED BY <1>1 DEF Again

(* A factor that divides the trips leaves as many as there are copies.         *)
LEMMA Divided ==
  ASSUME NEW t \in Nat, NEW f \in Nat, f >= 2, t % f = 0
  PROVE  t \div f \in Nat /\ (t \div f) * f = t
<1>1. t \div f \in Nat
  OBVIOUS
<1>2. (t \div f) * f = t
  OBVIOUS
<1> QED BY <1>1, <1>2

LEMMA PairKeeps ==
  ASSUME NEW ls \in Seq(KeptLoops), NEW inner \in DOMAIN ls, NEW outer
  PROVE  FlattenPair(ls, outer, inner) \in Seq(KeptLoops) /\ DOMAIN FlattenPair(ls, outer, inner) = DOMAIN ls
<1> DEFINE r == FlattenPair(ls, outer, inner)
<1>1. CASE ls[inner].unrolled # "NONE"
  BY <1>1 DEF FlattenPair
<1>2. CASE ls[inner].unrolled = "NONE"
  <2> DEFINE l == ls[inner]
             flat == [l EXCEPT !.flattened = TRUE]
             mid == [ls EXCEPT ![inner] = flat]
  <2>1. flat \in KeptLoops /\ flat.trip = l.trip
    <3>1. l \in NestType /\ LoopKept(l)
      BY LoopAt
    <3>2. flat \in NestType
      BY <3>1 DEF NestType
    <3>3. /\ flat.changes = l.changes /\ flat.trip = l.trip /\ flat.made = l.made /\ flat.unrolled = l.unrolled
          /\ flat.factor = l.factor /\ flat.pipelined = l.pipelined /\ flat.ii = l.ii
      BY <3>1 DEF NestType
    <3> QED BY <3>1, <3>2, <3>3 DEF KeptLoops, LoopKept
  <2>2. mid \in Seq(KeptLoops) /\ DOMAIN mid = DOMAIN ls
    BY <2>1, LoopPut
  <2> DEFINE o == mid[outer]
             out == [o EXCEPT !.trip = IF o.trip > 0 /\ l.trip > 0 THEN o.trip * l.trip ELSE o.trip,
                              !.changes = Again(o.changes)]
  <2>3. r = [mid EXCEPT ![outer] = out]
    BY <1>2, <2>1, <2>2 DEF FlattenPair
  <2>4. CASE outer \notin DOMAIN ls
    <3>1. r = mid
      BY <2>2, <2>3, <2>4
    <3> QED BY <2>2, <3>1
  <2>5. CASE outer \in DOMAIN ls
    <3>1. o \in NestType /\ LoopKept(o) /\ l \in NestType
      BY <2>2, <2>5, LoopAt
    <3> HIDE DEF o, l
    <3>2. Again(o.changes) \in {1, 2} /\ (Again(o.changes) = 1 => o.changes = 0)
      BY <3>1, AgainIs DEF NestType
    <3>3. out.trip \in Nat
      <4>1. o.trip \in Nat /\ l.trip \in Nat
        BY <3>1 DEF NestType
      <4>2. o.trip * l.trip \in Nat
        BY <4>1
      <4>3. out.trip = IF o.trip > 0 /\ l.trip > 0 THEN o.trip * l.trip ELSE o.trip
        BY <3>1 DEF NestType
      <4> QED BY <4>1, <4>2, <4>3
    <3>4. out \in NestType
      <4> DEFINE t == IF o.trip > 0 /\ l.trip > 0 THEN o.trip * l.trip ELSE o.trip
                 c == Again(o.changes)
      <4>1. t \in Nat /\ c \in Nat
        BY <3>1, <3>2, <3>3 DEF NestType
      <4> HIDE DEF t, c
      <4>2. [o EXCEPT !.trip = t, !.changes = c] \in NestType
        BY <3>1, <4>1 DEF NestType
      <4> QED BY <4>2 DEF t, c
    <3>5. /\ out.changes = Again(o.changes) /\ out.unrolled = o.unrolled /\ out.pipelined = o.pipelined /\ out.ii = o.ii
      BY <3>1 DEF NestType
    <3>6. LoopKept(out)
      BY <3>1, <3>2, <3>5 DEF LoopKept
    <3>7. out \in KeptLoops
      BY <3>4, <3>6 DEF KeptLoops
    <3>8. r \in Seq(KeptLoops)
      BY <2>2, <2>3, <2>5, <3>7, LoopPut
    <3> QED BY <2>2, <2>3, <3>8
  <2> QED BY <2>4, <2>5
<1> QED BY <1>1, <1>2

LEMMA FlattenKeeps ==
  ASSUME LoopInv, Flatten
  PROVE  LoopInv'
<1> DEFINE n == Len(loops)
           step == [i \in DOMAIN loops |-> [ls \in Nests |->
                     IF ls[i].parent = 0 THEN ls ELSE FlattenPair(ls, ls[i].parent, i)]]
           S == [k \in 0 .. n |-> {ls \in Seq(KeptLoops) : DOMAIN ls = DOMAIN loops}]
<1>1. loops' = Loop(n, loops, step)
  BY DEF Flatten
<1>2. n \in Nat /\ DOMAIN loops = 1 .. n /\ loops \in S[0]
  BY LoopAt DEF LoopInv
<1>3. ASSUME NEW k \in 1 .. n, NEW x \in S[k - 1] PROVE step[k][x] \in S[k]
  <2>1. k \in DOMAIN loops /\ k - 1 \in 0 .. n /\ k \in 0 .. n
    BY <1>2
  <2>2. x \in Seq(KeptLoops) /\ DOMAIN x = DOMAIN loops
    BY <2>1
  <2>3. x \in Nests
    BY <2>2, LoopAt
  <2>4. step[k][x] = IF x[k].parent = 0 THEN x ELSE FlattenPair(x, x[k].parent, k)
    BY <2>1, <2>3
  <2>5. FlattenPair(x, x[k].parent, k) \in Seq(KeptLoops) /\ DOMAIN FlattenPair(x, x[k].parent, k) = DOMAIN loops
    BY <2>1, <2>2, PairKeeps
  <2> HIDE DEF step
  <2> QED BY <2>1, <2>2, <2>4, <2>5
<1> HIDE DEF step, n
<1>4. n \in 0 .. n
  BY <1>2
<1>5. Loop(n, loops, step) \in S[n]
  <2> HIDE DEF S
  <2> QED BY <1>2, <1>3, LoopKeeps
<1> QED BY <1>1, <1>4, <1>5 DEF LoopInv

LEMMA NestKeeps ==
  ASSUME TransformAssumption, LoopInv, [LoopNext]_loops
  PROVE  LoopInv'
<1>0. /\ DOMAIN loops = 1 .. Len(loops) /\ Len(loops) \in Nat
      /\ \A i \in DOMAIN loops : loops[i] \in NestType /\ LoopKept(loops[i])
  BY LoopAt DEF LoopInv
<1>1. ASSUME NEW i \in DOMAIN loops, NEW l \in NestType, LoopKept(l), loops' = [loops EXCEPT ![i] = l] PROVE LoopInv'
  BY <1>1, LoopPut DEF KeptLoops, LoopInv
<1>2. ASSUME NEW p \in 0 .. Len(loops), NEW t \in Trips, AddLoop(p, t) PROVE LoopInv'
  <2> DEFINE l == [parent |-> p, trip |-> t, factor |-> 0, unrolled |-> "NONE", flattened |-> FALSE,
                   ii |-> 0, pipelined |-> FALSE, made |-> t, changes |-> 0]
  <2>1. l \in KeptLoops
    <3>1. t \in Nat /\ p \in Nat
      BY <1>0 DEF TransformAssumption
    <3>2. l \in NestType
      BY <3>1 DEF NestType
    <3> QED BY <3>2 DEF KeptLoops, LoopKept
  <2>2. loops' = Append(loops, l)
    BY <1>2 DEF AddLoop
  <2> QED BY <2>1, <2>2, AppendProperties DEF LoopInv
<1>3. ASSUME NEW i \in DOMAIN loops, UnrollComplete(i) PROVE LoopInv'
  <2> DEFINE o == loops[i]
             c == Again(o.changes)
             l == [o EXCEPT !.factor = 1, !.unrolled = "COMPLETE", !.trip = 0, !.changes = c]
  <2>1. o \in NestType /\ LoopKept(o)
    BY <1>0
  <2>2. loops' = [loops EXCEPT ![i] = l]
    BY <1>3 DEF UnrollComplete
  <2>3. c \in {1, 2}
    BY <2>1, AgainIs DEF NestType
  <2>n. c \in Nat
    BY <2>3
  <2> HIDE DEF o, c
  <2>4. l \in NestType
    BY <2>1, <2>n DEF NestType
  <2>5. l.changes = c /\ l.unrolled = "COMPLETE" /\ l.pipelined = o.pipelined /\ l.ii = o.ii
    BY <2>1 DEF NestType
  <2>6. LoopKept(l)
    BY <2>1, <2>3, <2>5 DEF LoopKept
  <2> QED BY <1>1, <2>2, <2>4, <2>6
<1>4. ASSUME NEW i \in DOMAIN loops, NEW f \in Factors, UnrollPartial(i, f) PROVE LoopInv'
  <2> DEFINE o == loops[i]
             c == Again(o.changes)
             t == o.trip \div f
             l == [o EXCEPT !.factor = f, !.unrolled = "PARTIAL", !.trip = t, !.changes = c]
  <2>1. o \in NestType /\ LoopKept(o)
    BY <1>0
  <2>2. loops' = [loops EXCEPT ![i] = l] /\ f >= 2 /\ UnrollIsLegal(o, f)
    BY <1>4 DEF UnrollPartial
  <2>3. c \in {1, 2} /\ (c = 1 => o.changes = 0)
    BY <2>1, AgainIs DEF NestType
  <2>4. t \in Nat /\ t * f = o.trip /\ f \in Nat
    <3>1. o.trip \in Nat /\ f \in Nat
      BY <2>1 DEF NestType, TransformAssumption
    <3>2. o.trip % f = 0
      <4>1. CASE o.trip > 0
        BY <2>2, <4>1 DEF UnrollIsLegal
      <4>2. CASE o.trip = 0
        BY <2>2, <3>1, <4>2
      <4> QED BY <3>1, <4>1, <4>2
    <3> QED BY <2>2, <3>1, <3>2, Divided
  <2>n. c \in Nat /\ f \in Nat /\ t \in Nat
    BY <2>3, <2>4
  <2> HIDE DEF o, c, t
  <2>5. l \in NestType
    BY <2>1, <2>n DEF NestType
  <2>6. /\ l.changes = c /\ l.unrolled = "PARTIAL" /\ l.pipelined = o.pipelined /\ l.ii = o.ii
        /\ l.trip = t /\ l.factor = f /\ l.made = o.made
    BY <2>1 DEF NestType
  <2>7. c = 1 => t * f = o.made
    BY <2>1, <2>3, <2>4 DEF LoopKept
  <2>8. LoopKept(l)
    <3>1. l.changes = 1 => l.trip * l.factor = l.made
      BY <2>6, <2>7
    <3>2. l.changes # 0
      BY <2>3, <2>6
    <3>3. l.pipelined => l.ii > 0
      BY <2>1, <2>6 DEF LoopKept
    <3> QED BY <3>1, <3>2, <3>3 DEF LoopKept
  <2> HIDE DEF l
  <2> QED BY <1>1, <2>2, <2>5, <2>8
<1>5. ASSUME NEW i \in DOMAIN loops, SetIi(i, 2) PROVE LoopInv'
  <2> DEFINE o == loops[i]
             l == [o EXCEPT !.ii = 2, !.pipelined = TRUE]
  <2>1. o \in NestType /\ LoopKept(o)
    BY <1>0
  <2>2. loops' = [loops EXCEPT ![i] = l]
    BY <1>5 DEF SetIi
  <2> HIDE DEF o
  <2>3. l \in NestType
    BY <2>1 DEF NestType
  <2>4. LoopKept(l)
    BY <2>1 DEF LoopKept, NestType
  <2> QED BY <1>1, <2>2, <2>3, <2>4
<1>6. ASSUME NEW i \in DOMAIN loops, NEW on \in BOOLEAN, Rewind(i, on) PROVE LoopInv'
  <2> DEFINE o == loops[i]
             ii == IF on /\ o.ii = 0 THEN 1 ELSE o.ii
             l == [o EXCEPT !.pipelined = on, !.ii = ii]
  <2>1. o \in NestType /\ LoopKept(o)
    BY <1>0
  <2>2. loops' = [loops EXCEPT ![i] = l]
    BY <1>6 DEF Rewind
  <2>3. ii \in Nat /\ (on => ii > 0)
    BY <2>1 DEF NestType
  <2> HIDE DEF o, ii
  <2>4. l \in NestType
    BY <2>1, <2>3 DEF NestType
  <2>5. /\ l.changes = o.changes /\ l.unrolled = o.unrolled /\ l.pipelined = on /\ l.ii = ii
        /\ l.trip = o.trip /\ l.factor = o.factor /\ l.made = o.made
    BY <2>1 DEF NestType
  <2>6. LoopKept(l)
    BY <2>1, <2>3, <2>5 DEF LoopKept
  <2> HIDE DEF l
  <2> QED BY <1>1, <2>2, <2>4, <2>6
<1>7. ASSUME NEW i \in DOMAIN loops, NEW j \in DOMAIN loops, Merge(i, j) PROVE LoopInv'
  <2> DEFINE o == loops[j]
             l == [o EXCEPT !.flattened = TRUE]
  <2>1. o \in NestType /\ LoopKept(o)
    BY <1>0
  <2>2. loops' = [loops EXCEPT ![j] = l]
    BY <1>7 DEF Merge
  <2> HIDE DEF o
  <2>3. l \in NestType
    BY <2>1 DEF NestType
  <2>4. /\ l.changes = o.changes /\ l.unrolled = o.unrolled /\ l.pipelined = o.pipelined /\ l.ii = o.ii
        /\ l.trip = o.trip /\ l.factor = o.factor /\ l.made = o.made
    BY <2>1 DEF NestType
  <2>5. LoopKept(l)
    BY <2>1, <2>4 DEF LoopKept
  <2> HIDE DEF l
  <2> QED BY <1>1, <2>2, <2>3, <2>5
<1>8. ASSUME UNCHANGED loops PROVE LoopInv'
  BY <1>8 DEF LoopInv
<1> QED BY <1>2, <1>3, <1>4, <1>5, <1>6, <1>7, <1>8, FlattenKeeps DEF LoopNext

LEMMA NestMeans == LoopInv => WorkKept
BY LoopAt DEF LoopInv, LoopKept, WorkKept
-----------------------------------------------------------------------------
(* Products over the dimensions, one dimension after the other.               *)
Upto(n, f) == Loop(n, 1, [d \in Dims |-> [m \in Nat |-> m * f[d]]])

LEMMA ProductIs == \A f : Product(f) = Upto(NumDims, f)
BY DEF Product, Upto

LEMMA UptoSteps ==
  ASSUME NEW n \in Nat, n + 1 \in Dims, NEW f, Upto(n, f) \in Nat
  PROVE  Upto(n + 1, f) = Upto(n, f) * f[n + 1]
<1> DEFINE step == [d \in Dims |-> [m \in Nat |-> m * f[d]]]
<1>1. Loop(n + 1, 1, step) = step[n + 1][Loop(n, 1, step)]
  BY LoopSteps
<1>2. Loop(n, 1, step) = Upto(n, f) /\ Loop(n + 1, 1, step) = Upto(n + 1, f)
  BY DEF Upto
<1>3. step[n + 1][Upto(n, f)] = Upto(n, f) * f[n + 1]
  OBVIOUS
<1> HIDE DEF step
<1> QED BY <1>1, <1>2, <1>3

LEMMA UptoType ==
  ASSUME TransformAssumption, NEW f \in [Dims -> Nat]
  PROVE  Upto(0, f) = 1 /\ \A n \in 0 .. NumDims : Upto(n, f) \in Nat
<1>1. Upto(0, f) = 1
  <2> DEFINE step == [d \in Dims |-> [m \in Nat |-> m * f[d]]]
  <2> HIDE DEF step
  <2>1. Loop(0, 1, step) = 1
    BY LoopSteps, 0 \in Nat
  <2> QED BY <2>1 DEF Upto, step
<1> DEFINE T == {n \in Nat : n <= NumDims => Upto(n, f) \in Nat}
<1>2. ASSUME NEW n \in T PROVE n + 1 \in T
  <2> SUFFICES ASSUME n + 1 <= NumDims PROVE Upto(n + 1, f) \in Nat
    OBVIOUS
  <2>1. NumDims \in Nat /\ n \in Nat
    BY DEF TransformAssumption
  <2>2. n + 1 \in Dims /\ Upto(n, f) \in Nat
    BY <2>1 DEF Dims
  <2>3. f[n + 1] \in Nat
    BY <2>2
  <2>4. Upto(n + 1, f) = Upto(n, f) * f[n + 1]
    BY <2>1, <2>2, UptoSteps
  <2> QED BY <2>2, <2>3, <2>4
<1>3. 0 \in T
  BY <1>1
<1> HIDE DEF T
<1>4. \A n \in Nat : n \in T
  <2>1. T \in SUBSET Nat
    BY DEF T
  <2> QED BY <1>2, <1>3, <2>1, Climb
<1>5. NumDims \in Nat
  BY DEF TransformAssumption
<1> QED BY <1>1, <1>4, <1>5 DEF T

(* The product of products is the product of the two.                        *)
LEMMA UptoSplits ==
  ASSUME TransformAssumption, NEW f \in [Dims -> Nat], NEW g \in [Dims -> Nat], NEW q \in [Dims -> Nat],
         \A d \in Dims : f[d] = g[d] * q[d]
  PROVE  Product(f) = Product(g) * Product(q)
<1>0. NumDims \in Nat
  BY DEF TransformAssumption
<1> DEFINE T == {n \in Nat : n <= NumDims => Upto(n, f) = Upto(n, g) * Upto(n, q)}
<1>1. 0 \in T
  BY UptoType
<1>2. ASSUME NEW n \in T PROVE n + 1 \in T
  <2> SUFFICES ASSUME n + 1 <= NumDims PROVE Upto(n + 1, f) = Upto(n + 1, g) * Upto(n + 1, q)
    OBVIOUS
  <2>1. n \in Nat /\ n \in 0 .. NumDims /\ n + 1 \in Dims
    BY <1>0 DEF Dims
  <2> DEFINE a == Upto(n, g)
             b == Upto(n, q)
             c == g[n + 1]
             e == q[n + 1]
  <2>2. Upto(n, f) \in Nat /\ a \in Nat /\ b \in Nat
    BY <2>1, UptoType
  <2>3. c \in Nat /\ e \in Nat /\ f[n + 1] = c * e
    BY <2>1
  <2>4. Upto(n, f) = a * b
    BY <1>2, <2>1
  <2>5. /\ Upto(n + 1, f) = Upto(n, f) * f[n + 1]
        /\ Upto(n + 1, g) = a * c
        /\ Upto(n + 1, q) = b * e
    BY <2>1, <2>2, UptoSteps
  <2> HIDE DEF a, b, c, e
  <2>6. (a * b) * (c * e) = (a * c) * (b * e)
    BY <2>2, <2>3
  <2> QED BY <2>3, <2>4, <2>5, <2>6
<1> HIDE DEF T
<1>3. \A n \in Nat : n \in T
  <2>1. T \in SUBSET Nat
    BY DEF T
  <2> QED BY <1>1, <1>2, <2>1, Climb
<1>4. Upto(NumDims, f) = Upto(NumDims, g) * Upto(NumDims, q)
  BY <1>0, <1>3 DEF T
<1> QED BY <1>4, ProductIs

(* With one factor the product is that, with none it is 1.                    *)
LEMMA UptoOne ==
  ASSUME TransformAssumption, NEW b \in Nat, NEW d
  PROVE  Product([e \in Dims |-> IF e = d THEN b ELSE 1]) = IF d \in Dims THEN b ELSE 1
<1>0. NumDims \in Nat
  BY DEF TransformAssumption
<1> DEFINE q == [e \in Dims |-> IF e = d THEN b ELSE 1]
           T == {n \in Nat : n <= NumDims => Upto(n, q) = IF d \in 1 .. n THEN b ELSE 1}
<1>t. q \in [Dims -> Nat]
  OBVIOUS
<1>1. 0 \in T
  BY <1>t, UptoType
<1>2. ASSUME NEW n \in T PROVE n + 1 \in T
  <2> SUFFICES ASSUME n + 1 <= NumDims PROVE Upto(n + 1, q) = IF d \in 1 .. n + 1 THEN b ELSE 1
    OBVIOUS
  <2>1. n \in Nat /\ n \in 0 .. NumDims /\ n + 1 \in Dims
    BY <1>0 DEF Dims
  <2>2. Upto(n, q) = IF d \in 1 .. n THEN b ELSE 1
    BY <1>2, <2>1
  <2>3. q[n + 1] = IF d = n + 1 THEN b ELSE 1
    BY <2>1
  <2>4. Upto(n + 1, q) = Upto(n, q) * q[n + 1]
    <3> HIDE DEF q
    <3>1. Upto(n, q) \in Nat
      BY <1>t, <2>1, UptoType
    <3> QED BY <2>1, <3>1, UptoSteps
  <2>5. d \in 1 .. n + 1 <=> d \in 1 .. n \/ d = n + 1
    BY <2>1
  <2>6. d \in 1 .. n => d # n + 1
    BY <2>1
  <2> HIDE DEF q
  <2> QED BY <2>2, <2>3, <2>4, <2>5, <2>6
<1> HIDE DEF T, q
<1>3. \A n \in Nat : n \in T
  <2>1. T \in SUBSET Nat
    BY DEF T
  <2> QED BY <1>1, <1>2, <2>1, Climb
<1>4. Upto(NumDims, q) = IF d \in Dims THEN b ELSE 1
  BY <1>0, <1>3 DEF Dims, T
<1> QED BY <1>4, ProductIs DEF q
-----------------------------------------------------------------------------
(* The array: until a dimension is partitioned twice or sized anew, the banks  *)
(* are the product of the factors, and its elements that of the sizes.         *)
DimType == [size : Nat, part : {"NONE", "BLOCK", "CYCLIC", "COMPLETE"}, factor : Nat]
Split(dm) == [d \in Dims |-> IF dm[d].part = "NONE" THEN 1 ELSE dm[d].factor]
Extent(dm) == [d \in Dims |-> IF dm[d].size > 0 THEN dm[d].size ELSE 1]
Fitting(dim) ==
  /\ dim.part = "COMPLETE" => dim.factor = dim.size
  /\ dim.part = "BLOCK" => dim.factor >= 2 /\ dim.size % dim.factor = 0
ArrayType ==
  /\ dims \in [Dims -> DimType] /\ numBanks \in Nat /\ numPorts \in Nat \ {0} /\ total \in Nat /\ remade \in BOOLEAN
  /\ answer \in [accesses : Seq(Nat), banks : Nat, conflict : BOOLEAN]
ArrayKept ==
  /\ total # 0 => total = Product(Extent(dims))
  /\ ~remade => numBanks = Product(Split(dims)) /\ \A d \in Dims : Fitting(dims[d])
AnswerKept == ~answer.conflict => Len(answer.accesses) <= answer.banks
ArrayInv == ArrayType /\ ArrayKept /\ AnswerKept

LEMMA SplitIs ==
  ASSUME NEW dm \in [Dims -> DimType]
  PROVE  Split(dm) \in [Dims -> Nat] /\ Extent(dm) \in [Dims -> Nat]
<1>1. \A d \in Dims : dm[d] \in DimType
  OBVIOUS
<1>2. \A d \in Dims : dm[d].size \in Nat /\ dm[d].factor \in Nat
  BY <1>1 DEF DimType
<1> QED BY <1>2 DEF Extent, Split

LEMMA ProductType ==
  ASSUME TransformAssumption, NEW f \in [Dims -> Nat]
  PROVE  Product(f) \in Nat
<1>1. NumDims \in 0 .. NumDims
  BY DEF TransformAssumption
<1> QED BY <1>1, ProductIs, UptoType

LEMMA ArrayMeans ==
  ASSUME TransformAssumption, ArrayInv
  PROVE  BanksCoverArray
<1>0. dims \in [Dims -> DimType] /\ numBanks \in Nat /\ numPorts \in Nat /\ numPorts >= 1 /\ total \in Nat
      /\ Len(answer.accesses) \in Nat
  BY LenProperties DEF ArrayInv, ArrayType
<1>1. ASSUME ~remade, total > 0, \A d \in Dims : dims[d].size > 0 /\ dims[d].part # "CYCLIC"
      PROVE  BankDepth * numBanks = total
  <2> DEFINE q == [d \in Dims |-> IF dims[d].part = "NONE" THEN dims[d].size
                                  ELSE IF dims[d].part = "COMPLETE" THEN 1 ELSE dims[d].size \div dims[d].factor]
             e == Extent(dims)
             b == Split(dims)
  <2>1. \A d \in Dims : q[d] \in Nat /\ e[d] = b[d] * q[d]
    <3> SUFFICES ASSUME NEW d \in Dims PROVE q[d] \in Nat /\ e[d] = b[d] * q[d]
      OBVIOUS
    <3> DEFINE dim == dims[d]
    <3>1. dim \in DimType /\ Fitting(dim) /\ dim.size > 0 /\ dim.part # "CYCLIC"
      BY <1>0, <1>1 DEF ArrayInv, ArrayKept
    <3>2. /\ e[d] = dim.size /\ b[d] = IF dim.part = "NONE" THEN 1 ELSE dim.factor
          /\ q[d] = IF dim.part = "NONE" THEN dim.size ELSE IF dim.part = "COMPLETE" THEN 1 ELSE dim.size \div dim.factor
      BY <1>1 DEF Extent, Split
    <3> HIDE DEF dim, e, b, q
    <3>3. dim.size \in Nat /\ dim.factor \in Nat /\ dim.part \in {"NONE", "BLOCK", "COMPLETE"}
      BY <3>1 DEF DimType
    <3>4. CASE dim.part = "NONE"
      BY <3>2, <3>3, <3>4
    <3>5. CASE dim.part = "COMPLETE"
      BY <3>1, <3>2, <3>3, <3>5 DEF Fitting
    <3>6. CASE dim.part = "BLOCK"
      <4>1. dim.factor >= 2 /\ dim.size % dim.factor = 0
        BY <3>1, <3>6 DEF Fitting
      <4>2. dim.size \div dim.factor \in Nat /\ (dim.size \div dim.factor) * dim.factor = dim.size
        BY <3>3, <4>1, Divided
      <4>3. q[d] = dim.size \div dim.factor /\ b[d] = dim.factor
        BY <3>2, <3>6
      <4> QED BY <3>2, <3>3, <4>2, <4>3
    <3> QED BY <3>3, <3>4, <3>5, <3>6
  <2>2. e \in [Dims -> Nat] /\ b \in [Dims -> Nat]
    BY <1>0, SplitIs
  <2>3. q \in [Dims -> Nat]
    <3>1. \A d \in Dims : q[d] \in Nat
      BY <2>1
    <3> QED BY <3>1
  <2>4. total = Product(e) /\ numBanks = Product(b)
    BY <1>1, <1>0 DEF ArrayInv, ArrayKept
  <2> HIDE DEF e, b, q
  <2>5. Product(e) = Product(b) * Product(q)
    BY <2>1, <2>2, <2>3, UptoSplits
  <2>6. Product(q) \in Nat
    BY <2>3, ProductType
  <2> DEFINE k == Product(q)
  <2> HIDE DEF k
  <2>7. k \in Nat /\ total = numBanks * k
    BY <2>4, <2>5, <2>6 DEF k
  <2>8. numBanks # 0
    BY <1>0, <1>1, <2>7
  <2>9. (numBanks * k) \div numBanks = k
    BY <1>0, <2>7, <2>8
  <2>10. BankDepth = k
    BY <2>7, <2>8, <2>9 DEF BankDepth
  <2> QED BY <1>0, <2>7, <2>10
<1>2. ASSUME ~answer.conflict, numBanks = answer.banks
      PROVE  CanAccessParallel(Len(answer.accesses))
  <2>1. Len(answer.accesses) <= numBanks
    BY <1>2 DEF AnswerKept, ArrayInv
  <2>2. numBanks <= numBanks * numPorts
    BY <1>0
  <2>3. numBanks * numPorts \in Nat
    BY <1>0
  <2> QED BY <1>0, <2>1, <2>2, <2>3 DEF CanAccessParallel
<1> QED BY <1>1, <1>2 DEF BanksCoverArray

LEMMA ArrayStarts == ASSUME TransformAssumption, TransformInit PROVE ArrayInv
<1>1. /\ dims = [d \in Dims |-> [size |-> 0, part |-> "NONE", factor |-> 0]]
      /\ numBanks = 1 /\ numPorts = 1 /\ total = 0 /\ remade = FALSE
      /\ answer = [accesses |-> <<>>, banks |-> 1, conflict |-> FALSE]
  BY DEF TransformInit
<1>2. ArrayType
  <2>1. dims \in [Dims -> DimType]
    BY <1>1 DEF DimType
  <2>2. answer \in [accesses : Seq(Nat), banks : Nat, conflict : BOOLEAN]
    <3>1. <<>> \in Seq(Nat)
      BY EmptySeq
    <3> QED BY <1>1, <3>1
  <2>3. numBanks \in Nat /\ numPorts \in Nat \ {0} /\ total \in Nat
    BY <1>1
  <2>4. remade \in BOOLEAN
    BY <1>1, Zenon
  <2> QED BY <2>4, <2>1, <2>2, <2>3 DEF ArrayType
<1>3. Product(Split(dims)) = 1
  <2> DEFINE q == [e \in Dims |-> IF e = 0 THEN 1 ELSE 1]
  <2>1. Split(dims) = q
    BY <1>1 DEF Split
  <2>2. Product(q) = 1
    <3>1. Product(q) = IF 0 \in Dims THEN 1 ELSE 1
      BY UptoOne, 1 \in Nat
    <3> QED BY <3>1
  <2> HIDE DEF q
  <2> QED BY <2>1, <2>2
<1>4. \A d \in Dims : Fitting(dims[d])
  BY <1>1 DEF Fitting
<1>5. AnswerKept
  BY <1>1 DEF AnswerKept
<1> QED BY <1>1, <1>2, <1>3, <1>4, <1>5 DEF ArrayInv, ArrayKept

LEMMA ArrayKeeps ==
  ASSUME TransformAssumption, ArrayInv, [ArrayNext]_arrayVars
  PROVE  ArrayInv'
<1>0. ArrayType /\ ArrayKept /\ AnswerKept /\ dims \in [Dims -> DimType]
  BY DEF ArrayInv, ArrayType
<1>1. ASSUME NEW d \in Dims, NEW size \in Sizes, SetDim(d, size) PROVE ArrayInv'
  <2> DEFINE new == [size |-> size, part |-> "NONE", factor |-> 1]
  <2>1. /\ dims' = [dims EXCEPT ![d] = new]
        /\ total' = Product([e \in Dims |-> IF dims'[e].size > 0 THEN dims'[e].size ELSE 1])
        /\ remade' = (remade \/ dims[d].part # "NONE")
        /\ UNCHANGED <<numBanks, numPorts, answer>>
    BY <1>1 DEF SetDim
  <2>2. new \in DimType
    <3>1. size \in Nat
      BY DEF TransformAssumption
    <3> QED BY <3>1 DEF DimType
  <2>3. dims' \in [Dims -> DimType]
    BY <1>0, <2>1, <2>2
  <2>4. total' = Product(Extent(dims')) /\ total' \in Nat
    <3>1. total' = Product(Extent(dims'))
      BY <2>1 DEF Extent
    <3>2. Extent(dims') \in [Dims -> Nat]
      BY <2>3, SplitIs
    <3> QED BY <3>1, <3>2, ProductType
  <2>5. remade' \in BOOLEAN /\ UNCHANGED numBanks /\ UNCHANGED numPorts /\ UNCHANGED answer
    BY <2>1
  <2>6. ArrayType'
    BY <1>0, <2>3, <2>4, <2>5 DEF ArrayType
  <2>7. ASSUME ~remade' PROVE numBanks' = Product(Split(dims')) /\ \A e \in Dims : Fitting(dims'[e])
    <3>1. ~remade /\ dims[d].part = "NONE"
      BY <1>0, <2>1, <2>7 DEF ArrayType
    <3>2. \A e \in Dims : dims'[e] = IF e = d THEN new ELSE dims[e]
      BY <1>0, <2>1
    <3>3. \A e \in Dims : Split(dims')[e] = Split(dims)[e]
      BY <3>1, <3>2 DEF Split
    <3>4. Split(dims') = Split(dims)
      BY <3>3 DEF Split
    <3>5. numBanks = Product(Split(dims)) /\ \A e \in Dims : Fitting(dims[e])
      BY <1>0, <3>1 DEF ArrayKept
    <3>6. Fitting(new)
      BY DEF Fitting
    <3> QED BY <2>5, <3>2, <3>4, <3>5, <3>6
  <2>8. AnswerKept'
    BY <1>0, <2>5 DEF AnswerKept
  <2> QED BY <2>4, <2>6, <2>7, <2>8 DEF ArrayInv, ArrayKept
<1>2. ASSUME NEW d \in Dims, NEW scheme \in {"BLOCK", "CYCLIC", "COMPLETE"}, NEW factor \in Factors, Partition(d, scheme, factor)
      PROVE  ArrayInv'
  <2> DEFINE by == IF scheme = "COMPLETE" THEN dims[d].size ELSE factor
             new == [dims[d] EXCEPT !.part = scheme, !.factor = by]
  <2>1. /\ scheme # "COMPLETE" => factor >= 2 /\ Divides(scheme, dims[d].size, factor)
        /\ dims' = [dims EXCEPT ![d] = new]
        /\ numBanks' = numBanks * by
        /\ remade' = (remade \/ dims[d].part # "NONE" \/ dims[d].size = 0)
        /\ UNCHANGED <<numPorts, total, answer>>
    BY <1>2 DEF Partition
  <2>2. dims[d] \in DimType
    BY <1>0
  <2>3. by \in Nat
    BY <2>2 DEF DimType, TransformAssumption
  <2>4. /\ new \in DimType /\ new.size = dims[d].size /\ new.part = scheme /\ new.factor = by
    <3> HIDE DEF by
    <3> QED BY <2>2, <2>3 DEF DimType
  <2>5. by = IF scheme = "COMPLETE" THEN dims[d].size ELSE factor
    OBVIOUS
  <2> HIDE DEF by, new
  <2>6. dims' \in [Dims -> DimType] /\ \A e \in Dims : dims'[e] = IF e = d THEN new ELSE dims[e]
    BY <1>0, <2>1, <2>4
  <2>7. numBanks \in Nat /\ numBanks * by \in Nat
    BY <1>0, <2>3 DEF ArrayType
  <2>8. ArrayType'
    BY <1>0, <2>1, <2>6, <2>7 DEF ArrayType
  <2>9. Extent(dims') = Extent(dims)
    <3>1. \A e \in Dims : dims'[e].size = dims[e].size
      BY <2>4, <2>6
    <3> QED BY <3>1 DEF Extent
  <2>10. ASSUME ~remade' PROVE numBanks' = Product(Split(dims')) /\ \A e \in Dims : Fitting(dims'[e])
    <3>1. ~remade /\ dims[d].part = "NONE"
      BY <1>0, <2>1, <2>10 DEF ArrayType
    <3>2. numBanks = Product(Split(dims)) /\ \A e \in Dims : Fitting(dims[e])
      BY <1>0, <3>1 DEF ArrayKept
    <3>3. Fitting(new)
      <4>1. CASE scheme = "COMPLETE"
        BY <2>4, <2>5, <4>1 DEF Fitting
      <4>2. CASE scheme = "BLOCK"
        BY <2>1, <2>4, <2>5, <4>2 DEF Divides, Fitting
      <4>3. CASE scheme = "CYCLIC"
        BY <2>4, <4>3 DEF Fitting
      <4> QED BY <4>1, <4>2, <4>3
    <3> DEFINE q == [e \in Dims |-> IF e = d THEN by ELSE 1]
               f == Split(dims')
               g == Split(dims)
    <3>4. f \in [Dims -> Nat] /\ g \in [Dims -> Nat] /\ q \in [Dims -> Nat]
      BY <1>0, <2>3, <2>6, SplitIs
    <3>5. Product(q) = by
      <4>1. Product(q) = IF d \in Dims THEN by ELSE 1
        BY <2>3, UptoOne
      <4> QED BY <4>1
    <3>6. \A e \in Dims : f[e] = g[e] * q[e]
      <4> SUFFICES ASSUME NEW e \in Dims PROVE f[e] = g[e] * q[e]
        OBVIOUS
      <4>0. f[e] \in Nat /\ g[e] \in Nat
        BY <3>4
      <4>1. CASE e = d
        <5>1. f[e] = by /\ g[e] = 1 /\ q[e] = by
          BY <2>4, <2>6, <3>1, <4>1 DEF Split
        <5> QED BY <2>3, <5>1
      <4>2. CASE e # d
        <5>1. f[e] = g[e] /\ q[e] = 1
          BY <2>6, <4>2 DEF Split
        <5> QED BY <4>0, <5>1
      <4> QED BY <4>1, <4>2
    <3> HIDE DEF q, f, g
    <3>7. Product(f) = Product(g) * Product(q)
      BY <3>4, <3>6, UptoSplits
    <3> QED BY <2>1, <2>6, <3>2, <3>3, <3>5, <3>7 DEF f, g
  <2>11. AnswerKept'
    BY <1>0, <2>1 DEF AnswerKept
  <2>12. ArrayKept'
    BY <1>0, <2>1, <2>9, <2>10 DEF ArrayKept
  <2> QED BY <2>8, <2>11, <2>12 DEF ArrayInv
<1>3. ASSUME NEW n \in 1 .. MaxBanks, BankAssign(n) PROVE ArrayInv'
  <2>1. numBanks' = n /\ remade' = TRUE /\ UNCHANGED <<dims, numPorts, total, answer>> /\ n \in Nat
    BY <1>3 DEF BankAssign
  <2>2. ArrayType' /\ AnswerKept'
    BY <1>0, <2>1 DEF AnswerKept, ArrayType
  <2> QED BY <1>0, <2>1, <2>2 DEF ArrayInv, ArrayKept
<1>4. ASSUME SetPorts(2) PROVE ArrayInv'
  <2>1. numPorts' = 2 /\ UNCHANGED <<dims, numBanks, total, answer, remade>>
    BY <1>4 DEF SetPorts
  <2>2. ArrayType' /\ AnswerKept'
    BY <1>0, <2>1 DEF AnswerKept, ArrayType
  <2> QED BY <1>0, <2>1, <2>2 DEF ArrayInv, ArrayKept
<1>5. ASSUME NEW acc \in Accesses, Detect(acc) PROVE ArrayInv'
  <2> DEFINE conflict == Len(acc) > numBanks \/ SeenTwice(acc)
  <2>1. /\ answer' = [accesses |-> acc, banks |-> numBanks, conflict |-> conflict]
        /\ UNCHANGED <<dims, numBanks, numPorts, total, remade>>
    BY <1>5 DEF Detect
  <2>2. acc \in Seq(Nat) /\ Len(acc) \in Nat /\ numBanks \in Nat
    BY <1>0, LenProperties DEF ArrayType, TransformAssumption
  <2>3. conflict \in BOOLEAN /\ (~conflict => Len(acc) <= numBanks)
    BY <2>2
  <2> HIDE DEF conflict
  <2>4. ArrayType' /\ AnswerKept'
    BY <1>0, <2>1, <2>2, <2>3 DEF AnswerKept, ArrayType
  <2> QED BY <1>0, <2>1, <2>4 DEF ArrayInv, ArrayKept
<1>6. ASSUME UNCHANGED arrayVars PROVE ArrayInv'
  BY <1>0, <1>6 DEF AnswerKept, ArrayInv, ArrayKept, ArrayType, arrayVars
<1> QED BY <1>1, <1>2, <1>3, <1>4, <1>5, <1>6 DEF ArrayNext
-----------------------------------------------------------------------------
(* Tasks and channels: unless a task had no port left, every connection that   *)
(* a channel counts is held by a task.                                        *)
TaskType == [state : {"IDLE", "RUNNING", "STALLED", "DONE"}, ins : Seq(Nat), outs : Seq(Nat)]
ChannelType == [type : {"FIFO", "STREAM"}, producers : Nat, consumers : Nat, full : BOOLEAN, empty : BOOLEAN]
Writes(i, c) == c \in Lists!Range(tasks[i].outs)
Reads(i, c) == c \in Lists!Range(tasks[i].ins)
Held(c) ==
  /\ channels[c].producers > 0 => \E i \in DOMAIN tasks : Writes(i, c)
  /\ channels[c].consumers > 0 => \E i \in DOMAIN tasks : Reads(i, c)
TaskInv ==
  /\ tasks \in Seq(TaskType) /\ channels \in Seq(ChannelType) /\ refused \in BOOLEAN /\ verified \in BOOLEAN
  /\ ~refused => \A c \in DOMAIN channels : Held(c)
  /\ verified => \A c \in DOMAIN channels : channels[c].producers > 0 /\ channels[c].consumers > 0

LEMMA TasksAre ==
  ASSUME TaskInv
  PROVE  /\ Len(tasks) \in Nat /\ DOMAIN tasks = 1 .. Len(tasks) /\ tasks \in [DOMAIN tasks -> TaskType]
         /\ Len(channels) \in Nat /\ DOMAIN channels = 1 .. Len(channels) /\ channels \in [DOMAIN channels -> ChannelType]
<1>1. Len(tasks) \in Nat /\ DOMAIN tasks = 1 .. Len(tasks) /\ \A k \in 1 .. Len(tasks) : tasks[k] \in TaskType
  BY ElementOfSeq, LenProperties DEF TaskInv
<1>2. Len(channels) \in Nat /\ DOMAIN channels = 1 .. Len(channels) /\ \A k \in 1 .. Len(channels) : channels[k] \in ChannelType
  BY ElementOfSeq, LenProperties DEF TaskInv
<1>3. tasks \in [DOMAIN tasks -> TaskType]
  <2>1. tasks \in Seq(TaskType)
    BY DEF TaskInv
  <2> QED BY <1>1, <2>1
<1>4. channels \in [DOMAIN channels -> ChannelType]
  <2>1. channels \in Seq(ChannelType)
    BY DEF TaskInv
  <2> QED BY <1>2, <2>1
<1> QED BY <1>1, <1>2, <1>3, <1>4

LEMMA PortOfIs ==
  ASSUME NEW ports \in Seq(Nat), NEW c \in Nat
  PROVE  /\ PortOf(ports, c) \in Seq(Nat)
         /\ \A e : e \in Lists!Range(ports) => e \in Lists!Range(PortOf(ports, c))
         /\ Len(ports) < MaxPorts => c \in Lists!Range(PortOf(ports, c))
<1> DEFINE r == Append(ports, c)
<1>1. Len(ports) \in Nat /\ DOMAIN ports = 1 .. Len(ports)
  BY LenProperties
<1>2. /\ r \in Seq(Nat) /\ Len(r) = Len(ports) + 1 /\ r[Len(ports) + 1] = c
      /\ \A k \in 1 .. Len(ports) : r[k] = ports[k]
  BY AppendProperties
<1>3. DOMAIN r = 1 .. Len(ports) + 1
  BY <1>2, LenProperties
<1> HIDE DEF r
<1>4. c \in Lists!Range(r)
  <2>1. Len(ports) + 1 \in DOMAIN r
    BY <1>1, <1>3
  <2> QED BY <1>2, <2>1, Zenon DEF Lists!Range
<1>5. ASSUME NEW e \in Lists!Range(ports) PROVE e \in Lists!Range(r)
  <2>1. PICK k \in 1 .. Len(ports) : e = ports[k]
    BY <1>1, Zenon DEF Lists!Range
  <2>2. k \in DOMAIN r
    BY <1>1, <1>3
  <2>3. e = r[k]
    BY <1>2, <2>1
  <2> QED BY <2>2, <2>3, Zenon DEF Lists!Range
<1>6. PortOf(ports, c) = IF Len(ports) < MaxPorts THEN r ELSE ports
  BY DEF PortOf, r
<1> QED BY <1>2, <1>4, <1>5, <1>6


LEMMA TaskStarts == TransformInit => TaskInv
<1> SUFFICES ASSUME TransformInit PROVE TaskInv
  OBVIOUS
<1>1. tasks = <<>> /\ channels = <<>> /\ refused = FALSE /\ verified = FALSE
  BY DEF TransformInit
<1>2. tasks \in Seq(TaskType) /\ channels \in Seq(ChannelType)
  BY <1>1, EmptySeq
<1>3. DOMAIN channels = {}
  BY <1>1
<1> QED BY <1>1, <1>2, <1>3 DEF TaskInv

LEMMA TaskMeans ==
  ASSUME TaskInv, verified, ~refused
  PROVE  \A c \in DOMAIN channels : \E i, j \in DOMAIN tasks : c \in Lists!Range(tasks[i].outs) /\ c \in Lists!Range(tasks[j].ins)
BY DEF Held, Reads, TaskInv, Writes

(* Unless the channels change, only the ports the tasks hold matter.           *)
LEMMA TasksMove ==
  ASSUME TaskInv, UNCHANGED <<channels, refused, verified>>, tasks' \in Seq(TaskType), DOMAIN tasks \subseteq DOMAIN tasks',
         \A i \in DOMAIN tasks : tasks'[i].outs = tasks[i].outs /\ tasks'[i].ins = tasks[i].ins
  PROVE  TaskInv'
<1>1. ASSUME NEW c \in DOMAIN channels, Held(c) PROVE Held(c)'
  BY <1>1 DEF Held, Reads, Writes
<1> QED BY <1>1 DEF TaskInv

(* Unless their connections change, channels may.                             *)
LEMMA ChannelMoves ==
  ASSUME TaskInv, UNCHANGED <<tasks, refused, verified>>, NEW c \in DOMAIN channels, NEW ch \in ChannelType,
         channels' = [channels EXCEPT ![c] = ch],
         ch.producers = channels[c].producers, ch.consumers = channels[c].consumers
  PROVE  TaskInv'
<1>1. Len(channels) \in Nat /\ DOMAIN channels = 1 .. Len(channels) /\ channels \in [DOMAIN channels -> ChannelType]
  BY TasksAre
<1>2. channels' \in [1 .. Len(channels) -> ChannelType]
  BY <1>1
<1>3. channels' \in Seq(ChannelType) /\ DOMAIN channels' = DOMAIN channels
  BY <1>1, <1>2
<1>4. \A d \in DOMAIN channels : channels'[d].producers = channels[d].producers /\ channels'[d].consumers = channels[d].consumers
  BY <1>1
<1>5. ASSUME NEW d \in DOMAIN channels, Held(d) PROVE Held(d)'
  BY <1>4, <1>5 DEF Held, Reads, Writes
<1> QED BY <1>3, <1>4, <1>5 DEF TaskInv

LEMMA ConnectKeeps ==
  ASSUME TaskInv, NEW p \in DOMAIN tasks, NEW q \in DOMAIN tasks, NEW c \in DOMAIN channels, Connect(p, c, q),
         MaxPorts \in Nat
  PROVE  TaskInv'
<1>0. /\ Len(tasks) \in Nat /\ DOMAIN tasks = 1 .. Len(tasks) /\ tasks \in [DOMAIN tasks -> TaskType]
      /\ Len(channels) \in Nat /\ DOMAIN channels = 1 .. Len(channels) /\ channels \in [DOMAIN channels -> ChannelType]
  BY TasksAre
<1>1. /\ ~verified /\ UNCHANGED verified
      /\ tasks' = IF p = q THEN [tasks EXCEPT ![p].outs = PortOf(@, c), ![p].ins = PortOf(@, c)]
                  ELSE [tasks EXCEPT ![p].outs = PortOf(@, c), ![q].ins = PortOf(@, c)]
      /\ channels' = [channels EXCEPT ![c].producers = @ + 1, ![c].consumers = @ + 1]
      /\ refused' = (refused \/ Len(tasks[p].outs) >= MaxPorts \/ Len(tasks[q].ins) >= MaxPorts)
  BY Zenon DEF Connect
<1>2. \A i \in DOMAIN tasks : tasks[i] \in TaskType /\ tasks[i].outs \in Seq(Nat) /\ tasks[i].ins \in Seq(Nat)
  BY <1>0 DEF TaskType
<1> DEFINE outs(i) == IF i = p THEN PortOf(tasks[i].outs, c) ELSE tasks[i].outs
           ins(i) == IF i = q THEN PortOf(tasks[i].ins, c) ELSE tasks[i].ins
           put(i) == [tasks[i] EXCEPT !.outs = outs(i), !.ins = ins(i)]
<1>3. c \in Nat
  BY <1>0
<1>4. \A i \in DOMAIN tasks : outs(i) \in Seq(Nat) /\ ins(i) \in Seq(Nat)
  BY <1>2, <1>3, PortOfIs
<1>5. DOMAIN tasks' = DOMAIN tasks /\ \A i \in DOMAIN tasks : tasks'[i] = put(i)
  <2>1. DOMAIN tasks' = DOMAIN tasks
    BY <1>0, <1>1
  <2>2. ASSUME NEW i \in DOMAIN tasks PROVE tasks'[i] = put(i)
    <3>1. tasks[i] \in TaskType
      BY <1>0
    <3>2. CASE p = q
      BY <1>0, <1>1, <3>1, <3>2 DEF TaskType
    <3>3. CASE p # q
      <4>1. tasks' = [tasks EXCEPT ![p].outs = PortOf(@, c), ![q].ins = PortOf(@, c)]
        BY <1>1, <3>3
      <4>2. CASE i = p
        <5>1. tasks'[i] = [tasks[i] EXCEPT !.outs = PortOf(tasks[i].outs, c)]
          BY <1>0, <3>3, <4>1, <4>2
        <5> QED BY <3>1, <3>3, <4>2, <5>1 DEF TaskType
      <4>3. CASE i = q
        <5>1. tasks'[i] = [tasks[i] EXCEPT !.ins = PortOf(tasks[i].ins, c)]
          BY <1>0, <3>3, <4>1, <4>3
        <5> QED BY <3>1, <3>3, <4>3, <5>1 DEF TaskType
      <4>4. CASE i # p /\ i # q
        <5>1. tasks'[i] = tasks[i]
          BY <1>0, <4>1, <4>4
        <5> QED BY <3>1, <4>4, <5>1 DEF TaskType
      <4> QED BY <4>2, <4>3, <4>4
    <3> QED BY <3>2, <3>3
  <2> QED BY <2>1, <2>2
<1> HIDE DEF outs, ins
<1>6. \A i \in DOMAIN tasks : put(i) \in TaskType /\ put(i).outs = outs(i) /\ put(i).ins = ins(i)
  BY <1>2, <1>4 DEF TaskType
<1> HIDE DEF put
<1>7. tasks' \in Seq(TaskType)
  <2>1. tasks' \in [1 .. Len(tasks) -> TaskType]
    <3>1. tasks' = [i \in DOMAIN tasks |-> tasks'[i]]
      BY <1>0, <1>1
    <3> QED BY <1>0, <1>5, <1>6, <3>1
  <2> QED BY <1>0, <2>1
<1> DEFINE ch == [channels[c] EXCEPT !.producers = @ + 1, !.consumers = @ + 1]
<1>8. channels' = [channels EXCEPT ![c] = ch]
  BY <1>0, <1>1
<1>9. ch \in ChannelType
  <2> DEFINE o == channels[c]
             np == o.producers + 1
             nc == o.consumers + 1
  <2>1. o \in ChannelType
    BY <1>0
  <2>2. np \in Nat /\ nc \in Nat
    BY <2>1 DEF ChannelType
  <2> HIDE DEF o, np, nc
  <2>3. [o EXCEPT !.producers = np, !.consumers = nc] \in ChannelType
    BY <2>1, <2>2 DEF ChannelType
  <2> QED BY <2>3 DEF nc, np, o
<1> HIDE DEF ch
<1>10. DOMAIN channels' = DOMAIN channels /\ channels' \in Seq(ChannelType)
       /\ \A d \in DOMAIN channels : d # c => channels'[d] = channels[d]
  <2>1. channels' \in [1 .. Len(channels) -> ChannelType]
    BY <1>0, <1>8, <1>9
  <2> QED BY <1>0, <1>8, <2>1
<1>11. ASSUME ~refused' PROVE \A d \in DOMAIN channels : Held(d)'
  <2>1. ~refused /\ ~(Len(tasks[p].outs) >= MaxPorts) /\ ~(Len(tasks[q].ins) >= MaxPorts)
    BY <1>1, <1>11
  <2>2. Len(tasks[p].outs) < MaxPorts /\ Len(tasks[q].ins) < MaxPorts
    <3>1. Len(tasks[p].outs) \in Nat /\ Len(tasks[q].ins) \in Nat
      BY <1>2, LenProperties
    <3> QED BY <2>1, <3>1
  <2>3. \A i \in DOMAIN tasks : \A e : (Writes(i, e) => Writes(i, e)') /\ (Reads(i, e) => Reads(i, e)')
    <3> SUFFICES ASSUME NEW i \in DOMAIN tasks, NEW e PROVE (Writes(i, e) => Writes(i, e)') /\ (Reads(i, e) => Reads(i, e)')
      OBVIOUS
    <3>1. tasks'[i].outs = outs(i) /\ tasks'[i].ins = ins(i)
      BY <1>5, <1>6
    <3>2. e \in Lists!Range(tasks[i].outs) => e \in Lists!Range(outs(i))
      BY <1>2, <1>3, PortOfIs DEF outs
    <3>3. e \in Lists!Range(tasks[i].ins) => e \in Lists!Range(ins(i))
      BY <1>2, <1>3, PortOfIs DEF ins
    <3> QED BY <3>1, <3>2, <3>3 DEF Reads, Writes
  <2>4. Writes(p, c)' /\ Reads(q, c)'
    <3>1. c \in Lists!Range(outs(p)) /\ c \in Lists!Range(ins(q))
      BY <1>2, <1>3, <2>2, PortOfIs DEF ins, outs
    <3>2. tasks'[p].outs = outs(p) /\ tasks'[q].ins = ins(q)
      BY <1>5, <1>6
    <3> QED BY <3>1, <3>2 DEF Reads, Writes
  <2>5. \A d \in DOMAIN channels : Held(d)
    BY <2>1 DEF TaskInv
  <2> SUFFICES ASSUME NEW d \in DOMAIN channels PROVE Held(d)'
    OBVIOUS
  <2>6. CASE d = c
    BY <1>5, <2>4, <2>6 DEF Held
  <2>7. CASE d # c
    BY <1>5, <1>10, <2>3, <2>5, <2>7 DEF Held
  <2> QED BY <2>6, <2>7
<1>12. refused' \in BOOLEAN
  BY <1>1
<1>13. verified' \in BOOLEAN /\ ~verified'
  BY <1>1 DEF TaskInv
<1> QED BY <1>7, <1>10, <1>11, <1>12, <1>13 DEF TaskInv

LEMMA TaskKeeps ==
  ASSUME TransformAssumption, TaskInv, [TaskNext]_taskVars
  PROVE  TaskInv'
<1>0. /\ Len(tasks) \in Nat /\ DOMAIN tasks = 1 .. Len(tasks) /\ tasks \in [DOMAIN tasks -> TaskType]
      /\ Len(channels) \in Nat /\ DOMAIN channels = 1 .. Len(channels) /\ channels \in [DOMAIN channels -> ChannelType]
  BY TasksAre
<1>1. ASSUME AddTask PROVE TaskInv'
  <2> DEFINE new == [state |-> "IDLE", ins |-> <<>>, outs |-> <<>>]
  <2>1. tasks' = Append(tasks, new) /\ UNCHANGED <<channels, refused, verified>>
    BY <1>1 DEF AddTask
  <2>2. new \in TaskType
    BY EmptySeq DEF TaskType
  <2> HIDE DEF new
  <2>3. tasks \in Seq(TaskType)
    BY DEF TaskInv
  <2>4. /\ tasks' \in Seq(TaskType) /\ Len(tasks') = Len(tasks) + 1
        /\ \A i \in 1 .. Len(tasks) : tasks'[i] = tasks[i]
    BY <2>1, <2>2, <2>3, AppendProperties
  <2>5. DOMAIN tasks \subseteq DOMAIN tasks'
    BY <1>0, <2>4, LenProperties
  <2> QED BY <1>0, <2>1, <2>4, <2>5, TasksMove
<1>2. ASSUME AddChannel PROVE TaskInv'
  <2> DEFINE new == [type |-> "FIFO", producers |-> 0, consumers |-> 0, full |-> FALSE, empty |-> TRUE]
  <2>1. channels' = Append(channels, new) /\ verified' = FALSE /\ UNCHANGED <<tasks, refused>>
    BY <1>2 DEF AddChannel
  <2>2. new \in ChannelType /\ new.producers = 0 /\ new.consumers = 0
    BY DEF ChannelType
  <2> HIDE DEF new
  <2>3. channels \in Seq(ChannelType)
    BY DEF TaskInv
  <2>4. /\ channels' \in Seq(ChannelType) /\ Len(channels') = Len(channels) + 1 /\ channels'[Len(channels) + 1] = new
        /\ \A c \in 1 .. Len(channels) : channels'[c] = channels[c]
    BY <2>1, <2>2, <2>3, AppendProperties
  <2>5. DOMAIN channels' = 1 .. Len(channels) + 1
    BY <2>4, LenProperties
  <2>6. ASSUME ~refused' PROVE \A c \in DOMAIN channels' : Held(c)'
    <3> SUFFICES ASSUME NEW c \in DOMAIN channels' PROVE Held(c)'
      OBVIOUS
    <3>1. CASE c = Len(channels) + 1
      BY <2>2, <2>4, <3>1 DEF Held
    <3>2. CASE c # Len(channels) + 1
      <4>1. c \in DOMAIN channels /\ channels'[c] = channels[c]
        BY <1>0, <2>4, <2>5, <3>2
      <4>2. Held(c)
        BY <2>1, <2>6, <4>1 DEF TaskInv
      <4> QED BY <2>1, <4>1, <4>2 DEF Held, Reads, Writes
    <3> QED BY <3>1, <3>2
  <2> QED BY <2>1, <2>4, <2>6 DEF TaskInv
<1>3. ASSUME Verify PROVE TaskInv'
  <2>1. /\ verified' = (\A c \in DOMAIN channels : channels[c].producers > 0 /\ channels[c].consumers > 0)
        /\ UNCHANGED <<tasks, channels, refused>>
    BY <1>3 DEF Verify
  <2>2. \A c : Held(c) => Held(c)'
    BY <2>1 DEF Held, Reads, Writes
  <2>3. verified' \in BOOLEAN
    BY <2>1
  <2> QED BY <2>1, <2>2, <2>3 DEF TaskInv
<1>4. ASSUME NEW p \in DOMAIN tasks, NEW q \in DOMAIN tasks, NEW c \in DOMAIN channels, Connect(p, c, q) PROVE TaskInv'
  BY <1>4, ConnectKeeps DEF TransformAssumption
<1>5. ASSUME NEW c \in DOMAIN channels, StreamCreate(c) \/ StreamWrite(c) \/ StreamRead(c) PROVE TaskInv'
  <2> DEFINE old == channels[c]
  <2>1. old \in ChannelType
    BY <1>0
  <2>2. UNCHANGED <<tasks, refused, verified>>
    BY <1>5 DEF StreamCreate, StreamRead, StreamWrite
  <2>3. CASE StreamCreate(c)
    <3> DEFINE ch == [old EXCEPT !.type = "STREAM", !.full = FALSE, !.empty = TRUE]
    <3>1. channels' = [channels EXCEPT ![c] = ch]
      BY <2>3 DEF StreamCreate
    <3>2. ch \in ChannelType /\ ch.producers = old.producers /\ ch.consumers = old.consumers
      <4> HIDE DEF old
      <4> QED BY <2>1 DEF ChannelType
    <3> HIDE DEF ch
    <3> QED BY <2>2, <3>1, <3>2, ChannelMoves
  <2>4. CASE StreamWrite(c)
    <3> DEFINE ch == [old EXCEPT !.empty = FALSE]
    <3>1. channels' = [channels EXCEPT ![c] = ch]
      BY <2>4 DEF StreamWrite
    <3>2. ch \in ChannelType /\ ch.producers = old.producers /\ ch.consumers = old.consumers
      <4> HIDE DEF old
      <4> QED BY <2>1 DEF ChannelType
    <3> HIDE DEF ch
    <3> QED BY <2>2, <3>1, <3>2, ChannelMoves
  <2>5. CASE StreamRead(c)
    <3> DEFINE ch == [old EXCEPT !.full = FALSE]
    <3>1. channels' = [channels EXCEPT ![c] = ch]
      BY <2>5 DEF StreamRead
    <3>2. ch \in ChannelType /\ ch.producers = old.producers /\ ch.consumers = old.consumers
      <4> HIDE DEF old
      <4> QED BY <2>1 DEF ChannelType
    <3> HIDE DEF ch
    <3> QED BY <2>2, <3>1, <3>2, ChannelMoves
  <2> QED BY <1>5, <2>3, <2>4, <2>5
<1>6. ASSUME NEW i \in DOMAIN tasks, NEW to \in {"RUNNING", "STALLED", "DONE"}, TaskMove(i, to) PROVE TaskInv'
  <2>1. tasks' = [tasks EXCEPT ![i].state = to] /\ UNCHANGED <<channels, refused, verified>>
    BY <1>6 DEF TaskMove
  <2> DEFINE new == [tasks[i] EXCEPT !.state = to]
  <2>2. new \in TaskType /\ new.outs = tasks[i].outs /\ new.ins = tasks[i].ins
    <3>1. tasks[i] \in TaskType
      BY <1>0
    <3> QED BY <3>1 DEF TaskType
  <2>3. tasks' = [tasks EXCEPT ![i] = new]
    BY <2>1
  <2> HIDE DEF new
  <2>4. tasks' \in [1 .. Len(tasks) -> TaskType]
    BY <1>0, <2>2, <2>3
  <2>5. tasks' \in Seq(TaskType) /\ DOMAIN tasks' = DOMAIN tasks
    BY <1>0, <2>4
  <2>6. \A k \in DOMAIN tasks : tasks'[k].outs = tasks[k].outs /\ tasks'[k].ins = tasks[k].ins
    BY <1>0, <2>2, <2>3
  <2> QED BY <2>1, <2>5, <2>6, TasksMove
<1>7. ASSUME UNCHANGED taskVars PROVE TaskInv'
  <2>1. UNCHANGED <<tasks, channels, refused, verified>>
    BY <1>7 DEF taskVars
  <2> QED BY <2>1 DEF Held, Reads, TaskInv, Writes
<1> QED BY <1>1, <1>2, <1>3, <1>4, <1>5, <1>6, <1>7 DEF TaskNext
-----------------------------------------------------------------------------
(* Directives: while no table was full, an interface's bundle has its port.     *)
DirectiveType == [port : PortNames, type : Kinds, bundle : Nat, depth : Nat]
BundleType == [ports : Seq(PortNames), type : Kinds]
InBundle(bs, f) ==
  f.bundle # 0 =>
    f.bundle \in DOMAIN bs /\ f.port \in Lists!Range(bs[f.bundle].ports) /\ f.type = bs[f.bundle].type
AllIn(bs, is) == \A k \in DOMAIN is : InBundle(bs, is[k])
PragmaInv ==
  /\ interfaces \in Seq(DirectiveType) /\ bundles \in Seq(BundleType) /\ dropped \in BOOLEAN
  /\ ~dropped => Len(interfaces) <= MaxInterfaces /\ AllIn(bundles, interfaces)

LEMMA DirectivesAre ==
  ASSUME NEW is \in Seq(DirectiveType)
  PROVE  /\ Len(is) \in Nat /\ DOMAIN is = 1 .. Len(is) /\ is \in Directives
         /\ \A k \in DOMAIN is : is[k] \in DirectiveType
<1>1. Len(is) \in Nat /\ DOMAIN is = 1 .. Len(is) /\ \A k \in 1 .. Len(is) : is[k] \in DirectiveType
  BY ElementOfSeq, LenProperties
<1> QED BY <1>1 DEF DirectiveType, Directives

Listed(is, r, p, kind, b) ==
  /\ Len(r) = Len(is) + 1 /\ \A k \in 1 .. Len(is) : r[k] = is[k]
  /\ r[Len(is) + 1].port = p /\ r[Len(is) + 1].type = kind /\ r[Len(is) + 1].bundle = b

(* What the caller sets next goes to the last entry, which is the new one when  *)
(* there was room.                                                          *)
LEMMA LastIs ==
  ASSUME TransformAssumption, NEW is \in Seq(DirectiveType), NEW p \in PortNames, NEW kind \in Kinds,
         NEW field \in {"bundle", "depth"}, NEW x \in Nat
  PROVE  /\ OnLast(SetInterface(is, p, kind), field, x) \in Seq(DirectiveType)
         /\ Len(is) < MaxInterfaces =>
              Listed(is, OnLast(SetInterface(is, p, kind), field, x), p, kind, IF field = "bundle" THEN x ELSE 0)
<1> DEFINE new == [port |-> p, type |-> kind, bundle |-> 0, depth |-> 0]
           s == SetInterface(is, p, kind)
           r == OnLast(s, field, x)
<1>1. new \in DirectiveType /\ new.port = p /\ new.type = kind /\ new.bundle = 0
  BY DEF DirectiveType
<1>2. s = IF Len(is) < MaxInterfaces THEN Append(is, new) ELSE is
  BY DEF SetInterface
<1> HIDE DEF new, s
<1>3. /\ Append(is, new) \in Seq(DirectiveType) /\ Len(Append(is, new)) = Len(is) + 1
      /\ Append(is, new)[Len(is) + 1] = new /\ \A k \in 1 .. Len(is) : Append(is, new)[k] = is[k]
  BY <1>1, AppendProperties
<1>4. s \in Seq(DirectiveType)
  BY <1>2, <1>3
<1>5. CASE s = <<>>
  <2>1. r = s
    BY <1>5 DEF OnLast
  <2>2. ~(Len(is) < MaxInterfaces)
    BY <1>2, <1>3, <1>5, EmptySeq, DirectivesAre
  <2> QED BY <1>4, <2>1, <2>2 DEF s
<1>6. CASE s # <<>>
  <2> DEFINE n == Len(s)
             old == s[n]
             e == [old EXCEPT ![field] = x]
  <2>1. n \in Nat /\ n # 0 /\ n \in 1 .. n
    BY <1>4, <1>6, EmptySeq
  <2>2. old \in DirectiveType
    BY <1>4, <2>1, DirectivesAre
  <2>3. r = [s EXCEPT ![n] = e]
    BY <1>6 DEF OnLast
  <2> HIDE DEF n, old, r
  <2>4. e \in DirectiveType /\ e.port = old.port /\ e.type = old.type /\ e.bundle = IF field = "bundle" THEN x ELSE old.bundle
    <3>1. CASE field = "bundle"
      BY <2>2, <3>1 DEF DirectiveType
    <3>2. CASE field = "depth"
      BY <2>2, <3>2 DEF DirectiveType
    <3> QED BY <3>1, <3>2
  <2> HIDE DEF e
  <2>5. r \in Seq(DirectiveType) /\ Len(r) = n /\ \A k \in 1 .. n : r[k] = IF k = n THEN e ELSE s[k]
    BY <1>4, <2>1, <2>3, <2>4, ExceptSeq DEF n
  <2>6. ASSUME Len(is) < MaxInterfaces
        PROVE  Listed(is, r, p, kind, IF field = "bundle" THEN x ELSE 0)
    <3>1. n = Len(is) + 1 /\ old = new /\ \A k \in 1 .. Len(is) : s[k] = is[k]
      BY <1>2, <1>3, <2>6 DEF n, old
    <3>2. Len(is) \in Nat
      BY DirectivesAre
    <3>3. r[n] = e
      BY <2>1, <2>5
    <3>4. \A k \in 1 .. Len(is) : r[k] = is[k]
      BY <2>5, <3>1, <3>2
    <3> QED BY <1>1, <2>4, <2>5, <3>1, <3>3, <3>4 DEF Listed
  <2> QED BY <2>5, <2>6 DEF r, s
<1> QED BY <1>5, <1>6

LEMMA InterfaceKeeps ==
  ASSUME TransformAssumption, PragmaInv, NEW p \in {"a", "b"}, NEW kind \in Kinds, Interface(p, kind, 1)
  PROVE  PragmaInv'
<1> DEFINE r == OnLast(SetInterface(interfaces, p, kind), "depth", 1)
<1>1. interfaces' = r /\ dropped' = (dropped \/ Len(interfaces) = MaxInterfaces) /\ UNCHANGED bundles
  BY DEF Interface
<1>2. interfaces \in Seq(DirectiveType) /\ p \in PortNames /\ kind \in Kinds
  BY DEF PortNames, PragmaInv
<1>3. r \in Seq(DirectiveType) /\ (Len(interfaces) < MaxInterfaces => Listed(interfaces, r, p, kind, 0))
  <2>1. (IF "depth" = "bundle" THEN 1 ELSE 0) = 0
    OBVIOUS
  <2> QED BY <1>2, <2>1, LastIs
<1> HIDE DEF r
<1>4. ASSUME ~dropped' PROVE Len(r) <= MaxInterfaces /\ AllIn(bundles, r)
  <2>1. ~dropped /\ Len(interfaces) # MaxInterfaces
    BY <1>1, <1>4
  <2>2. Len(interfaces) \in Nat /\ DOMAIN interfaces = 1 .. Len(interfaces) /\ MaxInterfaces \in Nat
    BY <1>2, DirectivesAre DEF TransformAssumption
  <2>3. Len(interfaces) <= MaxInterfaces /\ AllIn(bundles, interfaces)
    BY <2>1 DEF PragmaInv
  <2>4. Len(interfaces) < MaxInterfaces
    <3>1. Len(interfaces) # MaxInterfaces /\ Len(interfaces) <= MaxInterfaces
      BY <2>1, <2>3, Zenon
    <3>2. Len(interfaces) \in Nat /\ MaxInterfaces \in Nat
      BY <2>2, Zenon
    <3> QED BY <3>1, <3>2
  <2>5. /\ Len(r) = Len(interfaces) + 1 /\ \A k \in 1 .. Len(interfaces) : r[k] = interfaces[k]
        /\ r[Len(interfaces) + 1].bundle = 0
    BY <1>3, <2>4 DEF Listed
  <2>6. DOMAIN r = 1 .. Len(interfaces) + 1
    BY <1>3, <2>5, DirectivesAre
  <2>7. ASSUME NEW k \in DOMAIN r PROVE InBundle(bundles, r[k])
    <3>1. CASE k = Len(interfaces) + 1
      BY <2>5, <3>1 DEF InBundle
    <3>2. CASE k # Len(interfaces) + 1
      <4>1. k \in DOMAIN interfaces /\ r[k] = interfaces[k]
        BY <2>2, <2>5, <2>6, <3>2
      <4> QED BY <2>3, <4>1 DEF AllIn
    <3> QED BY <3>1, <3>2
  <2>8. Len(r) <= MaxInterfaces
    BY <2>2, <2>4, <2>5
  <2> QED BY <2>7, <2>8 DEF AllIn
<1>5. dropped' \in BOOLEAN
  BY <1>1
<1>6. bundles' \in Seq(BundleType) /\ bundles' = bundles
  BY <1>1 DEF PragmaInv
<1> QED BY <1>1, <1>3, <1>4, <1>5, <1>6 DEF PragmaInv

LEMMA BundleKeeps ==
  ASSUME TransformAssumption, PragmaInv, NEW ports \in Seq(PortNames), Bundle(ports, "AXIS")
  PROVE  PragmaInv'
<1> DEFINE b == Len(bundles) + 1
           n == Len(ports)
           m == Len(interfaces)
           new == [ports |-> BundlePorts(ports), type |-> "AXIS"]
           step == [k \in DOMAIN ports |-> [is \in Directives |->
                     OnLast(SetInterface(is, ports[k], "AXIS"), "bundle", b)]]
           Room == m + n <= MaxInterfaces
           Added(is, k) ==
             /\ Len(is) = m + k /\ \A j \in 1 .. m : is[j] = interfaces[j]
             /\ \A j \in 1 .. k : is[m + j].port = ports[j] /\ is[m + j].type = "AXIS" /\ is[m + j].bundle = b
           S == [k \in 0 .. n |-> {is \in Seq(DirectiveType) : Room => Added(is, k)}]
<1>1. /\ bundles' = Append(bundles, new)
      /\ interfaces' = Loop(n, interfaces, step)
      /\ dropped' = (dropped \/ m + n > MaxInterfaces \/ n > MaxPorts)
  BY Zenon DEF Bundle
<1>2. /\ interfaces \in Seq(DirectiveType) /\ bundles \in Seq(BundleType)
      /\ m \in Nat /\ DOMAIN interfaces = 1 .. m /\ n \in Nat /\ DOMAIN ports = 1 .. n
      /\ Len(bundles) \in Nat /\ b \in Nat /\ b # 0 /\ MaxInterfaces \in Nat /\ MaxPorts \in Nat
      /\ \A k \in 1 .. n : ports[k] \in PortNames
  <2>1. interfaces \in Seq(DirectiveType) /\ bundles \in Seq(BundleType)
    BY DEF PragmaInv
  <2>2. m \in Nat /\ DOMAIN interfaces = 1 .. m /\ n \in Nat /\ DOMAIN ports = 1 .. n /\ Len(bundles) \in Nat
    BY <2>1, LenProperties
  <2> QED BY <2>1, <2>2, ElementOfSeq DEF TransformAssumption
<1> HIDE DEF b, n, m
<1>3. interfaces \in S[0]
  <2>1. Len(interfaces) = m + 0
    BY <1>2 DEF m
  <2> QED BY <1>2, <2>1
<1>4. ASSUME NEW k \in 1 .. n, NEW x \in S[k - 1] PROVE step[k][x] \in S[k]
  <2>1. k - 1 \in 0 .. n /\ k \in 0 .. n /\ k \in DOMAIN ports /\ ports[k] \in PortNames /\ k \in Nat
    BY <1>2
  <2>2. x \in Seq(DirectiveType) /\ (Room => Added(x, k - 1))
    BY <2>1
  <2> DEFINE r == OnLast(SetInterface(x, ports[k], "AXIS"), "bundle", b)
  <2>3. step[k][x] = r
    <3>1. x \in Directives
      BY <2>2, DirectivesAre
    <3> QED BY <2>1, <3>1
  <2>4. /\ r \in Seq(DirectiveType)
        /\ Len(x) < MaxInterfaces => Listed(x, r, ports[k], "AXIS", b)
    <3>1. (IF "bundle" = "bundle" THEN b ELSE 0) = b /\ "AXIS" \in Kinds
      BY DEF Kinds
    <3> QED BY <1>2, <2>1, <2>2, <3>1, LastIs
  <2> HIDE DEF r, step
  <2>5. ASSUME Room PROVE Added(r, k)
    <3>1. /\ Len(x) = m + (k - 1) /\ \A j \in 1 .. m : x[j] = interfaces[j]
          /\ \A j \in 1 .. (k - 1) : x[m + j].port = ports[j] /\ x[m + j].type = "AXIS" /\ x[m + j].bundle = b
      BY <2>2, <2>5
    <3>2. Len(x) < MaxInterfaces /\ Len(x) + 1 = m + k
      BY <1>2, <2>1, <2>5, <3>1
    <3>3. Len(r) = m + k /\ \A j \in 1 .. Len(x) : r[j] = x[j]
      BY <2>4, <3>2 DEF Listed
    <3>4. r[m + k].port = ports[k] /\ r[m + k].type = "AXIS" /\ r[m + k].bundle = b
      BY <2>4, <3>2 DEF Listed
    <3>5. \A j \in 1 .. m : j \in 1 .. Len(x)
      BY <1>2, <2>1, <3>1
    <3>6. \A j \in 1 .. (k - 1) : m + j \in 1 .. Len(x)
      BY <1>2, <2>1, <3>1
    <3>7. \A j \in 1 .. k : j = k \/ j \in 1 .. (k - 1)
      BY <2>1
    <3>8. ASSUME NEW j \in 1 .. k PROVE r[m + j].port = ports[j] /\ r[m + j].type = "AXIS" /\ r[m + j].bundle = b
      <4>1. CASE j = k
        BY <3>4, <4>1
      <4>2. CASE j \in 1 .. (k - 1)
        BY <3>1, <3>3, <3>6, <4>2
      <4> QED BY <3>7, <4>1, <4>2
    <3> QED BY <3>1, <3>3, <3>5, <3>8
  <2> QED BY <2>1, <2>3, <2>4, <2>5
<1>5. interfaces' \in Seq(DirectiveType) /\ (Room => Added(interfaces', n))
  <2>1. n \in 0 .. n
    BY <1>2
  <2> HIDE DEF S, step
  <2>2. Loop(n, interfaces, step) \in S[n]
    BY <1>2, <1>3, <1>4, LoopKeeps
  <2> QED BY <1>1, <2>1, <2>2 DEF S
<1> HIDE DEF S, step, Room, Added
<1>6. new \in BundleType /\ (n <= MaxPorts => new.ports = ports) /\ new.type = "AXIS"
  <2>1. Sets!Min({n, MaxPorts}) \in {n, MaxPorts} /\ \A x \in {n, MaxPorts} : Sets!Min({n, MaxPorts}) <= x
    BY <1>2, MinIs, {n, MaxPorts} \in SUBSET Nat
  <2> DEFINE k == Sets!Min({n, MaxPorts})
  <2>2. k \in Nat /\ k <= n /\ (n <= MaxPorts => k = n)
    BY <1>2, <2>1
  <2>3. BundlePorts(ports) = SubSeq(ports, 1, k)
    BY DEF BundlePorts, n
  <2> HIDE DEF k
  <2>4. \A j \in 1 .. k : ports[j] \in PortNames
    BY <1>2, <2>2
  <2>5. SubSeq(ports, 1, k) = [j \in 1 .. k |-> ports[j]]
    BY <1>2, <2>2
  <2>6. SubSeq(ports, 1, k) \in Seq(PortNames)
    BY <2>2, <2>4, <2>5, FunctionSeq
  <2>7. n <= MaxPorts => SubSeq(ports, 1, k) = ports
    BY <1>2, <2>2, <2>5
  <2>8. "AXIS" \in Kinds
    BY DEF Kinds
  <2> QED BY <2>3, <2>6, <2>7, <2>8 DEF BundleType
<1> HIDE DEF new
<1>7. /\ bundles' \in Seq(BundleType) /\ bundles'[b] = new /\ DOMAIN bundles' = 1 .. b /\ DOMAIN bundles = 1 .. Len(bundles)
      /\ \A k \in DOMAIN bundles : bundles'[k] = bundles[k] /\ k \in DOMAIN bundles'
  <2>1. /\ bundles' \in Seq(BundleType) /\ Len(bundles') = Len(bundles) + 1 /\ bundles'[Len(bundles) + 1] = new
        /\ \A k \in 1 .. Len(bundles) : bundles'[k] = bundles[k]
    BY <1>1, <1>2, <1>6, AppendProperties
  <2>2. DOMAIN bundles' = 1 .. Len(bundles') /\ DOMAIN bundles = 1 .. Len(bundles)
    BY <1>2, <2>1, LenProperties
  <2> QED BY <1>2, <2>1, <2>2 DEF b
<1>8. ASSUME ~dropped' PROVE Len(interfaces') <= MaxInterfaces /\ AllIn(bundles', interfaces')
  <2>1. ~dropped /\ ~(m + n > MaxInterfaces) /\ ~(n > MaxPorts)
    BY <1>1, <1>8, Zenon
  <2>2. Room /\ n <= MaxPorts
    BY <1>2, <2>1 DEF Room
  <2>3. /\ Len(interfaces') = m + n /\ \A j \in 1 .. m : interfaces'[j] = interfaces[j]
        /\ \A j \in 1 .. n : interfaces'[m + j].port = ports[j] /\ interfaces'[m + j].type = "AXIS" /\ interfaces'[m + j].bundle = b
    BY <1>5, <2>2 DEF Added
  <2>4. \A k \in DOMAIN interfaces : InBundle(bundles, interfaces[k])
    BY <2>1 DEF AllIn, PragmaInv
  <2>5. DOMAIN interfaces' = 1 .. m + n
    BY <1>5, <2>3, LenProperties
  <2>6. \A f : InBundle(bundles, f) => InBundle(bundles', f)
    BY <1>7 DEF InBundle
  <2>7. ASSUME NEW k \in DOMAIN interfaces' PROVE InBundle(bundles', interfaces'[k])
    <3>1. CASE k \in 1 .. m
      <4>1. k \in DOMAIN interfaces /\ interfaces'[k] = interfaces[k]
        BY <1>2, <2>3, <3>1
      <4> QED BY <2>4, <2>6, <4>1
    <3>2. CASE k \notin 1 .. m
      <4> DEFINE j == k - m
      <4>1. j \in 1 .. n /\ k = m + j
        BY <1>2, <2>5, <3>2
      <4> HIDE DEF j
      <4>2. interfaces'[k].port = ports[j] /\ interfaces'[k].type = "AXIS" /\ interfaces'[k].bundle = b
        BY <2>3, <4>1
      <4>3. bundles'[b].ports = ports /\ bundles'[b].type = "AXIS" /\ b \in DOMAIN bundles'
        BY <1>2, <1>6, <1>7, <2>2
      <4>4. ports[j] \in Lists!Range(ports)
        BY <1>2, <4>1, Zenon DEF Lists!Range
      <4> DEFINE f == interfaces'[k]
                 bs == bundles'
      <4>5. f.port = ports[j] /\ f.type = "AXIS" /\ f.bundle = b
        BY <4>2
      <4>6. bs[b].ports = ports /\ bs[b].type = "AXIS" /\ b \in DOMAIN bs
        BY <4>3
      <4> HIDE DEF f, bs
      <4>7. InBundle(bs, f)
        BY <4>4, <4>5, <4>6 DEF InBundle
      <4> QED BY <4>7 DEF bs, f
    <3> QED BY <3>1, <3>2
  <2>8. Len(interfaces') <= MaxInterfaces
    BY <2>2, <2>3 DEF Room
  <2> QED BY <2>7, <2>8 DEF AllIn
<1>9. dropped' \in BOOLEAN
  BY <1>1, Zenon
<1> HIDE DEF Room, Added
<1> QED BY <1>5, <1>7, <1>8, <1>9 DEF PragmaInv

LEMMA PragmaStarts == ASSUME TransformAssumption, TransformInit PROVE PragmaInv
<1>1. interfaces = <<>> /\ bundles = <<>> /\ dropped = FALSE
  BY DEF TransformInit
<1>2. interfaces \in Seq(DirectiveType) /\ bundles \in Seq(BundleType) /\ Len(interfaces) = 0
  BY <1>1, EmptySeq
<1>3. DOMAIN interfaces = {}
  BY <1>1
<1>4. AllIn(bundles, interfaces) /\ Len(interfaces) <= MaxInterfaces
  BY <1>2, <1>3 DEF AllIn, TransformAssumption
<1>5. dropped \in BOOLEAN
  BY <1>1, Zenon
<1> QED BY <1>2, <1>4, <1>5 DEF PragmaInv

LEMMA PragmaKeeps ==
  ASSUME TransformAssumption, PragmaInv, [PragmaNext]_pragmaVars
  PROVE  PragmaInv'
<1>1. ASSUME NEW p \in {"a", "b"}, NEW k \in Kinds, Interface(p, k, 1) PROVE PragmaInv'
  BY <1>1, InterfaceKeeps
<1>2. ASSUME NEW ports \in {<<"a">>, <<"a", "b">>, <<"b", "c", "a">>}, Bundle(ports, "AXIS") PROVE PragmaInv'
  <2>1. ports \in Seq(PortNames)
    <3>1. \A x, y, z \in PortNames : <<x>> \in Seq(PortNames) /\ <<x, y>> \in Seq(PortNames) /\ <<x, y, z>> \in Seq(PortNames)
      OBVIOUS
    <3>2. "a" \in PortNames /\ "b" \in PortNames /\ "c" \in PortNames
      BY DEF PortNames
    <3>3. <<"a">> \in Seq(PortNames) /\ <<"a", "b">> \in Seq(PortNames) /\ <<"b", "c", "a">> \in Seq(PortNames)
      BY <3>1, <3>2
    <3> QED BY <3>3
  <2> QED BY <1>2, <2>1, BundleKeeps
<1>3. ASSUME UNCHANGED pragmaVars PROVE PragmaInv'
  <2>1. UNCHANGED <<interfaces, bundles, dropped>>
    BY <1>3 DEF pragmaVars
  <2> QED BY <2>1 DEF PragmaInv
<1> QED BY <1>1, <1>2, <1>3 DEF PragmaNext
-----------------------------------------------------------------------------
(* SchedulesAreSound: for every set of operations and all bounds, schedules    *)
(* keep the dependences of an acyclic graph, registers are shared only by       *)
(* values that are not alive together, as few as values overlap, the controller *)
(* runs every operation in its cycle, and the pipelined graph's windows hold:   *)
(* hls_schedule, bind_registers_left_edge, fsmd_generate and the two schedulers  *)
(* of hls_pipeline.                                                          *)
THEOREM SchedulesAreSound == HlsAssumption => (Spec => []SchedulesSound)
<1> SUFFICES ASSUME HlsAssumption PROVE Spec => []SchedulesSound
  OBVIOUS
<1>1. Init => CoreInv /\ PipeInv
  BY CoreStarts, PipeStarts DEF Init
<1>2. CoreInv /\ PipeInv /\ [Next]_vars => (CoreInv /\ PipeInv)'
  <2> SUFFICES ASSUME CoreInv, PipeInv, [Next]_vars PROVE CoreInv' /\ PipeInv'
    OBVIOUS
  <2>1. [CoreNext]_coreVars
    BY DEF Next, HlsNext, ChipNext, CheckNext, vars
  <2>2. [PipeNext]_pipeVars
    BY DEF Next, HlsNext, ChipNext, CheckNext, LoopNext, ArrayNext, TaskNext, PragmaNext, transformVars, vars
  <2> QED BY <2>1, <2>2, CoreKeeps, PipeKeeps
<1>3. CoreInv /\ PipeInv => SchedulesSound
  BY DEF CoreInv, PipeInv, SchedulesSound
<1> QED BY <1>1, <1>2, <1>3, PTL DEF Spec
-----------------------------------------------------------------------------
(* TransformsAreExact: for all trip counts, factors, sizes, accesses and        *)
(* bounds of the tables, a loop that was unrolled in part does the iterations    *)
(* asked for, the banks of an array partitioned once in blocks or completely     *)
(* hold all of it and accesses free of conflict have a port each, a channel of   *)
(* a verified graph has a task at both ends unless a task ran out of ports, and   *)
(* an interface is a port of its bundle unless a table was full:                *)
(* hls_loop_unroll_partial, hls_array_partition_block, hls_array_bank_analyze,   *)
(* hls_dataflow_connect and hls_interface_bundle.                              *)
THEOREM TransformsAreExact == TransformAssumption => (Spec => []TransformsExact)
<1> SUFFICES ASSUME TransformAssumption PROVE Spec => []TransformsExact
  OBVIOUS
<1> DEFINE TransformInv == LoopInv /\ ArrayInv /\ TaskInv /\ PragmaInv
<1>1. Init => TransformInv
  <2> SUFFICES ASSUME Init PROVE TransformInv
    OBVIOUS
  <2>1. TransformInit
    BY DEF Init
  <2>2. LoopInv
    BY <2>1, EmptySeq DEF LoopInv, TransformInit
  <2> QED BY <2>1, <2>2, ArrayStarts, TaskStarts, PragmaStarts
<1>2. TransformInv /\ [Next]_vars => TransformInv'
  <2> SUFFICES ASSUME TransformInv, [Next]_vars PROVE TransformInv'
    OBVIOUS
  <2>1. CASE UNCHANGED transformVars
    BY <2>1, NestKeeps, ArrayKeeps, TaskKeeps, PragmaKeeps DEF transformVars
  <2>2. CASE PipeNext
    BY <2>2, NestKeeps, ArrayKeeps, TaskKeeps, PragmaKeeps DEF PipeNext
  <2>3. CASE LoopNext
    <3>1. UNCHANGED <<arrayVars, taskVars, pragmaVars>>
      BY <2>3 DEF LoopNext
    <3> QED BY <2>3, <3>1, NestKeeps, ArrayKeeps, TaskKeeps, PragmaKeeps
  <2>4. CASE ArrayNext
    <3>1. UNCHANGED <<loops, taskVars, pragmaVars>>
      BY <2>4 DEF ArrayNext
    <3> QED BY <2>4, <3>1, NestKeeps, ArrayKeeps, TaskKeeps, PragmaKeeps
  <2>5. CASE TaskNext
    <3>1. UNCHANGED <<loops, arrayVars, pragmaVars>>
      BY <2>5 DEF TaskNext
    <3> QED BY <2>5, <3>1, NestKeeps, ArrayKeeps, TaskKeeps, PragmaKeeps
  <2>6. CASE PragmaNext
    <3>1. UNCHANGED <<loops, arrayVars, taskVars>>
      BY <2>6 DEF PragmaNext
    <3> QED BY <2>6, <3>1, NestKeeps, ArrayKeeps, TaskKeeps, PragmaKeeps
  <2> QED BY <2>1, <2>2, <2>3, <2>4, <2>5, <2>6 DEF Next, HlsNext, ChipNext, CheckNext, vars
<1>3. TransformInv => TransformsExact
  <2> SUFFICES ASSUME TransformInv PROVE TransformsExact
    OBVIOUS
  <2>1. WorkKept /\ BanksCoverArray
    BY NestMeans, ArrayMeans
  <2>2. TablesConsistent
    <3>1. verified /\ ~refused =>
            \A c \in DOMAIN channels : \E i, j \in DOMAIN tasks : c \in Lists!Range(tasks[i].outs) /\ c \in Lists!Range(tasks[j].ins)
      BY TaskMeans
    <3>2. ~dropped => \A k \in DOMAIN interfaces : LET f == interfaces[k] IN
            f.bundle # 0 => f.port \in Lists!Range(bundles[f.bundle].ports) /\ f.type = bundles[f.bundle].type
      BY DEF AllIn, InBundle, PragmaInv
    <3> QED BY <3>1, <3>2 DEF TablesConsistent
  <2> QED BY <2>1, <2>2 DEF TransformsExact
<1> HIDE DEF TransformInv
<1> QED BY <1>1, <1>2, <1>3, PTL DEF Spec
================================================================================
