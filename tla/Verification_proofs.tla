------------------------ MODULE Verification_proofs ------------------------
(***************************************************************************)
(* Proofs about the verification library.  Testbench, for every set of       *)
(* sequences and transactions: the sequencer is fair and keeps every         *)
(* sequence's order, the scoreboard uses up one expectation for each match,  *)
(* and coverage is kept.  ConstraintSolver, for every block of variables: a  *)
(* search that gave up no value has found a solution.  BoundedCheck, for     *)
(* every formula and every system: the search answers soundly, and a trace   *)
(* is an execution.  AssertionEngine, for every heap of expressions: the     *)
(* counters are sums, and agree with each other as the expressions do.       *)
(***************************************************************************)
EXTENDS MCVerification, FiniteSetTheorems, SequenceTheorems, WellFoundedInduction, TLAPS

Items == Sequences_ \X Nat

(* How many places the search for an item passes before it comes to place   *)
(* p of the active array.                                                   *)
Distance(p) == IF p > rr THEN p - 1 - rr ELSE p - 1 - rr + Len(active)

(* Whoever is so many places away can still be passed over that often.      *)
TurnInv ==
  /\ items \in [Sequences_ -> Seq(Items)] /\ passed \in [Sequences_ -> Nat]
  /\ active \in Seq(Sequences_) /\ rr \in Nat
  /\ \A p, q \in DOMAIN active : active[p] = active[q] => p = q
  /\ IF active = <<>> THEN rr = 0 ELSE rr < Len(active)
  /\ \A p \in DOMAIN active : passed[active[p]] + Distance(p) < Len(active)

(* What a sequence still has continues what was taken from it; the driver    *)
(* gets everything from the moment on at which the port is connected.       *)
OrderInv ==
  /\ processed \in Seq(Items) /\ delivered \in Seq(Items)
  /\ \A s \in Sequences_ : \A k \in 1 .. Len(items[s]) :
       items[s][k] = <<s, Cardinality(Of(s, Len(processed))) + k>>
  /\ \A n \in DOMAIN processed : processed[n][2] = Cardinality(Of(processed[n][1], n))
  /\ Len(delivered) <= Len(processed)
  /\ \A n \in DOMAIN delivered : delivered[n] = processed[n + Len(processed) - Len(delivered)]
  /\ ~ write => delivered = <<>>

ScoreInv ==
  /\ expected \in Seq([tx : Tx, matched : BOOLEAN])
  /\ checks \in [checked : Nat, matched : Seq(Tx), unexpected : Seq(Tx)]
  /\ ScoreboardExact

BenchInv == TurnInv /\ OrderInv /\ ScoreInv

(* A value is covered when it was hit; the test's database has bins of its   *)
(* own.                                                                      *)
Bins == [group : {"own", "none", "shared"}, hits : [Tx -> Nat], covered : [Tx -> BOOLEAN]]
CoverInv ==
  /\ bins \in [{"total", "test"} -> Bins] /\ bins["test"].group = "own"
  /\ \A db \in {"total", "test"} : \A v \in Tx : bins[db].covered[v] <=> bins[db].hits[v] >= 1
  /\ planned \in [Tx -> [result : {"NOT_RUN", "PASS", "FAIL"}, covered : BOOLEAN]]
-----------------------------------------------------------------------------
(* The coverage databases.                                                   *)
LEMMA SampledBins ==
  ASSUME NEW b \in Bins, NEW v \in Tx, \A w \in Tx : b.covered[w] <=> b.hits[w] >= 1
  PROVE  /\ Sampled(b, v) \in Bins /\ Sampled(b, v).group = b.group
         /\ \A w \in Tx : Sampled(b, v).covered[w] <=> Sampled(b, v).hits[w] >= 1
         /\ CoveredNow(b) \subseteq CoveredNow(Sampled(b, v))
<1> DEFINE h == [b.hits EXCEPT ![v] = b.hits[v] + 1]
           c == [b.covered EXCEPT ![v] = b.hits[v] + 1 >= 1]
<1>1. b.hits \in [Tx -> Nat] /\ b.covered \in [Tx -> BOOLEAN] /\ b.group \in {"own", "none", "shared"}
  BY DEF Bins
<1>2. Sampled(b, v).hits = h /\ Sampled(b, v).covered = c /\ Sampled(b, v).group = b.group
  BY DEF Sampled, Bins
<1>3. h \in [Tx -> Nat] /\ c \in [Tx -> BOOLEAN]
  BY <1>1
<1>4. Sampled(b, v) \in Bins
  BY <1>1, <1>2, <1>3 DEF Sampled, Bins
<1>5. \A w \in Tx : c[w] <=> h[w] >= 1
  BY <1>1
<1>6. \A w \in Tx : b.covered[w] => c[w]
  BY <1>1
<1> QED BY <1>2, <1>4, <1>5, <1>6 DEF CoveredNow

LEMMA MergedBins ==
  ASSUME NEW b \in Bins, NEW c \in Bins,
         \A w \in Tx : b.covered[w] <=> b.hits[w] >= 1,
         \A w \in Tx : c.covered[w] <=> c.hits[w] >= 1
  PROVE  /\ MergedWith(b, c) \in Bins /\ MergedWith(b, c).group = b.group
         /\ \A w \in Tx : MergedWith(b, c).covered[w] <=> MergedWith(b, c).hits[w] >= 1
         /\ CoveredNow(b) \subseteq CoveredNow(MergedWith(b, c))
         /\ CoveredNow(c) \subseteq CoveredNow(MergedWith(b, c))
<1> DEFINE more == {v \in Tx : c.hits[v] > b.hits[v]}
           h == [v \in Tx |-> IF v \in more THEN c.hits[v] ELSE b.hits[v]]
           k == [v \in Tx |-> IF v \in more THEN c.covered[v] ELSE b.covered[v]]
<1>1. /\ b.hits \in [Tx -> Nat] /\ b.covered \in [Tx -> BOOLEAN] /\ b.group \in {"own", "none", "shared"}
      /\ c.hits \in [Tx -> Nat] /\ c.covered \in [Tx -> BOOLEAN]
  BY DEF Bins
<1>2. MergedWith(b, c).hits = h /\ MergedWith(b, c).covered = k /\ MergedWith(b, c).group = b.group
  BY DEF MergedWith, Bins
<1>3. h \in [Tx -> Nat] /\ k \in [Tx -> BOOLEAN]
  BY <1>1
<1>4. MergedWith(b, c) \in Bins
  BY <1>1, <1>2, <1>3 DEF MergedWith, Bins
<1>5. \A w \in Tx : k[w] <=> h[w] >= 1
  BY <1>1
<1>6. \A w \in Tx : (b.covered[w] => k[w]) /\ (c.covered[w] => k[w])
  BY <1>1
<1> QED BY <1>2, <1>4, <1>5, <1>6 DEF CoveredNow

(* What CoverageKept says of a step.                                         *)
Kept ==
  /\ \A db \in {"total", "test"} : bins[db].group # "none" => CoveredNow(bins[Group(db)]) \subseteq CoveredNow(bins'[Group(db)'])
  /\ Merge => CoveredNow(bins["test"]) \subseteq CoveredNow(bins'[Group("total")'])
  /\ \A v \in Tx : planned[v].covered => planned'[v].covered

LEMMA SampleKeeps ==
  ASSUME CoverInv, NEW db \in {"total", "test"}, NEW v \in Tx, Sample(db, v)
  PROVE  /\ CoverInv'
         /\ \A d \in {"total", "test"} : bins[d].group # "none" => CoveredNow(bins[Group(d)]) \subseteq CoveredNow(bins'[Group(d)'])
         /\ planned' = planned
<1> DEFINE g == Group(db)
<1>1. bins \in [{"total", "test"} -> Bins] /\ g \in {"total", "test"}
  BY DEF CoverInv, Group
<1>2. bins' = [bins EXCEPT ![g] = Sampled(bins[g], v)] /\ planned' = planned
  BY DEF Sample, covVars
<1>3. bins[g] \in Bins /\ \A w \in Tx : bins[g].covered[w] <=> bins[g].hits[w] >= 1
  BY <1>1 DEF CoverInv
<1> DEFINE b == Sampled(bins[g], v)
<1>4. /\ b \in Bins /\ b.group = bins[g].group
      /\ \A w \in Tx : b.covered[w] <=> b.hits[w] >= 1
      /\ CoveredNow(bins[g]) \subseteq CoveredNow(b)
  BY <1>3, SampledBins
<1> HIDE DEF g, b
<1>5. \A d \in {"total", "test"} : bins'[d] = IF d = g THEN b ELSE bins[d]
  BY <1>1, <1>2 DEF b
<1>6. bins' \in [{"total", "test"} -> Bins]
  BY <1>1, <1>2, <1>4 DEF b
<1>7. \A d \in {"total", "test"} : bins'[d].group = bins[d].group
  BY <1>4, <1>5
<1>8. \A d \in {"total", "test"} : Group(d)' = Group(d) /\ Group(d) \in {"total", "test"}
  BY <1>7 DEF Group
<1>9. CoverInv'
  BY <1>2, <1>4, <1>5, <1>6, <1>7 DEF CoverInv
<1>10. \A d \in {"total", "test"} : CoveredNow(bins[d]) \subseteq CoveredNow(bins'[d])
  BY <1>4, <1>5
<1> QED BY <1>2, <1>8, <1>9, <1>10

LEMMA MergeKeeps ==
  ASSUME CoverInv, Merge
  PROVE  /\ CoverInv'
         /\ \A d \in {"total", "test"} : bins[d].group # "none" => CoveredNow(bins[Group(d)]) \subseteq CoveredNow(bins'[Group(d)'])
         /\ CoveredNow(bins["test"]) \subseteq CoveredNow(bins'[Group("total")'])
         /\ planned' = planned
<1>1. /\ bins \in [{"total", "test"} -> Bins] /\ bins["test"].group = "own" /\ planned' = planned
      /\ bins["total"] \in Bins /\ bins["test"] \in Bins
  BY DEF CoverInv, Merge
<1>2. CASE bins["total"].group = "none"
  <2>1. bins' = [bins EXCEPT !["total"].group = "shared"]
    BY <1>2 DEF Merge
  <2>2. bins'["test"] = bins["test"] /\ bins'["total"].group = "shared" /\ bins'["total"].hits = bins["total"].hits
        /\ bins'["total"].covered = bins["total"].covered /\ bins' \in [{"total", "test"} -> Bins]
    BY <1>1, <2>1 DEF Bins
  <2>3. Group("total")' = "test" /\ Group("test")' = "test" /\ Group("test") = "test"
    BY <1>1, <2>2 DEF Group
  <2> QED BY <1>1, <1>2, <2>2, <2>3 DEF CoverInv
<1>3. CASE bins["total"].group = "shared"
  <2>1. bins' = bins
    BY <1>3 DEF Merge
  <2>2. Group("total")' = "test" /\ \A d \in {"total", "test"} : Group(d)' = Group(d)
    BY <1>3, <2>1 DEF Group
  <2> QED BY <1>1, <2>1, <2>2 DEF CoverInv
<1>4. CASE bins["total"].group = "own"
  <2> DEFINE b == MergedWith(bins["total"], bins["test"])
  <2>1. bins' = [bins EXCEPT !["total"] = b]
    BY <1>4 DEF Merge
  <2>2. /\ b \in Bins /\ b.group = "own"
        /\ \A w \in Tx : b.covered[w] <=> b.hits[w] >= 1
        /\ CoveredNow(bins["total"]) \subseteq CoveredNow(b) /\ CoveredNow(bins["test"]) \subseteq CoveredNow(b)
    BY <1>1, <1>4, MergedBins DEF CoverInv
  <2> HIDE DEF b
  <2>3. bins'["total"] = b /\ bins'["test"] = bins["test"] /\ bins' \in [{"total", "test"} -> Bins]
    BY <1>1, <2>1, <2>2
  <2>4. \A d \in {"total", "test"} : Group(d)' = d /\ Group(d) = d
    BY <1>1, <1>4, <2>2, <2>3 DEF Group
  <2> QED BY <1>1, <2>2, <2>3, <2>4 DEF CoverInv
<1> QED BY <1>1, <1>2, <1>3, <1>4 DEF Bins

LEMMA CoverStep == CoverInv /\ [BenchNext]_benchVars => CoverInv' /\ [Kept]_covVars
<1> SUFFICES ASSUME CoverInv, [BenchNext]_benchVars PROVE CoverInv' /\ [Kept]_covVars
  OBVIOUS
<1>1. CASE covVars' = covVars
  BY <1>1 DEF covVars, CoverInv
<1>2. CASE Merge
  <2>1. CoverInv' /\ Kept
    BY <1>2, MergeKeeps DEF Kept
  <2> QED BY <2>1
<1>3. ASSUME NEW v \in Tx, NEW db \in {"total", "test"}, Sample(db, v), ~ Merge
      PROVE  CoverInv' /\ [Kept]_covVars
  <2>1. CoverInv' /\ Kept
    BY <1>3, SampleKeeps DEF Kept
  <2> QED BY <2>1
<1>4. ASSUME NEW v \in Tx, NEW r \in {"PASS", "FAIL"}, MarkTested(v, r), ~ Merge
      PROVE  CoverInv' /\ [Kept]_covVars
  <2>1. bins' = bins /\ planned' = [planned EXCEPT ![v] = [result |-> r, covered |-> planned[v].covered \/ r = "PASS"]]
    BY <1>4 DEF MarkTested
  <2>2. planned \in [Tx -> [result : {"NOT_RUN", "PASS", "FAIL"}, covered : BOOLEAN]]
    BY DEF CoverInv
  <2>3. planned' \in [Tx -> [result : {"NOT_RUN", "PASS", "FAIL"}, covered : BOOLEAN]]
    BY <2>1, <2>2
  <2>4. \A w \in Tx : planned[w].covered => planned'[w].covered
    BY <2>1, <2>2
  <2>5. CoverInv'
    BY <2>1, <2>3 DEF CoverInv
  <2>6. \A d \in {"total", "test"} : Group(d)' = Group(d)
    BY <2>1 DEF Group
  <2>7. Kept
    BY <1>4, <2>1, <2>4, <2>6 DEF Kept
  <2> QED BY <2>5, <2>7
<1>5. CASE Drive \/ Score
  <2>1. covVars' = covVars
    BY <1>5 DEF Drive, Score, AddItem, Activate, Connect, Bind, RunSequencer, Expect, Check, covVars
  <2> QED BY <1>1, <2>1
<1>6. CASE UNCHANGED benchVars
  BY <1>1, <1>6 DEF benchVars
<1> QED BY <1>1, <1>2, <1>3, <1>4, <1>5, <1>6 DEF BenchNext, Cover

(* For every set of values and any calls in any order: coverage is never     *)
(* lost, whether a database shares its covergroup or has its own copy, and    *)
(* a passed item of the plan stays covered.                                  *)
THEOREM CoverageStays == BenchSpec => CoverageKept
<1>1. BenchInit => CoverInv
  <2> SUFFICES ASSUME BenchInit PROVE CoverInv
    OBVIOUS
  <2>1. PICK g \in {"none", "own"} : bins = [total |-> [Empty EXCEPT !.group = g], test |-> Empty]
    BY DEF BenchInit
  <2> DEFINE e == [Empty EXCEPT !.group = g]
  <2>2. Empty \in Bins /\ Empty.group = "own" /\ \A v \in Tx : Empty.covered[v] = FALSE /\ Empty.hits[v] = 0
    BY DEF Empty, Bins
  <2>3. e \in Bins /\ e.covered = Empty.covered /\ e.hits = Empty.hits
    BY <2>2 DEF Bins
  <2> HIDE DEF e
  <2>4. bins \in [{"total", "test"} -> Bins] /\ bins["total"] = e /\ bins["test"] = Empty
    BY <2>1, <2>2, <2>3 DEF e
  <2>5. \A db \in {"total", "test"} : \A v \in Tx : bins[db].covered[v] <=> bins[db].hits[v] >= 1
    BY <2>2, <2>3, <2>4
  <2>6. planned \in [Tx -> [result : {"NOT_RUN", "PASS", "FAIL"}, covered : BOOLEAN]]
    BY DEF BenchInit
  <2> QED BY <2>2, <2>4, <2>5, <2>6 DEF CoverInv
<1>2. CoverageKept <=> [][Kept]_covVars
  BY DEF CoverageKept, Kept
<1> QED BY <1>1, <1>2, CoverStep, PTL DEF BenchSpec
-----------------------------------------------------------------------------
(* The scoreboard.                                                           *)
LEMMA OneMore ==
  ASSUME NEW S, NEW T, IsFiniteSet(S), NEW x, x \notin S, T = S \cup {x}
  PROVE  IsFiniteSet(T) /\ Cardinality(T) = Cardinality(S) + 1 /\ Cardinality(S) \in Nat
BY FS_AddElement, FS_CardinalityType

LEMMA ScoreFinite ==
  ASSUME ScoreInv, NEW v
  PROVE  IsFiniteSet(Answered(v)) /\ IsFiniteSet(UsedUp(v))
<1>1. Len(checks.matched) \in Nat /\ DOMAIN checks.matched = 1 .. Len(checks.matched)
  BY DEF ScoreInv
<1>2. Len(expected) \in Nat /\ DOMAIN expected = 1 .. Len(expected)
  BY DEF ScoreInv
<1>3. IsFiniteSet(1 .. Len(checks.matched)) /\ IsFiniteSet(1 .. Len(expected))
  <2>1. \A n \in Nat : IsFiniteSet(1 .. n)
    BY FS_Interval
  <2> QED BY <1>1, <1>2, <2>1
<1>4. Answered(v) \subseteq 1 .. Len(checks.matched) /\ UsedUp(v) \subseteq 1 .. Len(expected)
  BY <1>1, <1>2 DEF Answered, UsedUp
<1> QED BY <1>3, <1>4, FS_Subset

LEMMA ExpectKeepsScore == ASSUME ScoreInv, NEW tx \in Tx, Expect(tx) PROVE ScoreInv'
<1> DEFINE e == [tx |-> tx, matched |-> FALSE]
<1>1. expected' = Append(expected, e) /\ checks' = checks
  BY DEF Expect
<1>2. expected' \in Seq([tx : Tx, matched : BOOLEAN])
  BY <1>1 DEF ScoreInv
<1>3. DOMAIN expected' = DOMAIN expected \cup {Len(expected) + 1} /\ expected'[Len(expected) + 1] = e
      /\ \A n \in DOMAIN expected : expected'[n] = expected[n]
  BY <1>1 DEF ScoreInv
<1>4. \A v \in Tx : UsedUp(v)' = UsedUp(v)
  BY <1>3 DEF UsedUp
<1>5. \A v \in Tx : Answered(v)' = Answered(v)
  BY <1>1 DEF Answered
<1>6. ScoreboardExact'
  BY <1>1, <1>4, <1>5 DEF ScoreInv, ScoreboardExact
<1> QED BY <1>1, <1>2, <1>6 DEF ScoreInv

LEMMA CheckKeepsScore == ASSUME ScoreInv, NEW tx \in Tx, Check(tx) PROVE ScoreInv'
<1>1. /\ expected \in Seq([tx : Tx, matched : BOOLEAN]) /\ checks.checked \in Nat
      /\ checks.matched \in Seq(Tx) /\ checks.unexpected \in Seq(Tx)
      /\ checks \in [checked : Nat, matched : Seq(Tx), unexpected : Seq(Tx)]
      /\ checks.checked = Len(checks.matched) + Len(checks.unexpected)
  BY DEF ScoreInv, ScoreboardExact
<1>2. CASE /\ checks' = [checks EXCEPT !.checked = checks.checked + 1, !.unexpected = Append(checks.unexpected, tx)]
           /\ expected' = expected
  <2>1. checks'.checked = checks.checked + 1 /\ checks'.matched = checks.matched
        /\ checks'.unexpected = Append(checks.unexpected, tx)
    BY <1>1, <1>2
  <2>2. checks' \in [checked : Nat, matched : Seq(Tx), unexpected : Seq(Tx)]
    <3>1. Append(checks.unexpected, tx) \in Seq(Tx) /\ checks.checked + 1 \in Nat
      BY <1>1
    <3> QED BY <1>1, <1>2, <3>1
  <2>3. \A v \in Tx : Answered(v)' = Answered(v) /\ UsedUp(v)' = UsedUp(v)
    BY <1>2, <2>1 DEF Answered, UsedUp
  <2>4. Len(checks'.unexpected) = Len(checks.unexpected) + 1
    BY <1>1, <2>1
  <2>5. \A v \in Tx : Cardinality(Answered(v)') = Cardinality(UsedUp(v)')
    BY <2>3 DEF ScoreInv, ScoreboardExact
  <2>6. ScoreboardExact'
    BY <1>1, <2>1, <2>4, <2>5 DEF ScoreboardExact
  <2> QED BY <1>2, <2>2, <2>6 DEF ScoreInv
<1>3. CASE \E n \in Matching(tx) :
             /\ expected' = [expected EXCEPT ![n].matched = TRUE]
             /\ checks' = [checks EXCEPT !.checked = checks.checked + 1, !.matched = Append(checks.matched, tx)]
  <2>1. PICK n \in Matching(tx) :
             /\ expected' = [expected EXCEPT ![n].matched = TRUE]
             /\ checks' = [checks EXCEPT !.checked = checks.checked + 1, !.matched = Append(checks.matched, tx)]
    BY <1>3
  <2>2. n \in DOMAIN expected /\ expected[n].tx = tx /\ expected[n].matched = FALSE
    BY <1>1 DEF Matching
  <2>3. checks'.checked = checks.checked + 1 /\ checks'.unexpected = checks.unexpected
        /\ checks'.matched = Append(checks.matched, tx)
    BY <1>1, <2>1
  <2>4. checks' \in [checked : Nat, matched : Seq(Tx), unexpected : Seq(Tx)]
    <3>1. Append(checks.matched, tx) \in Seq(Tx) /\ checks.checked + 1 \in Nat
      BY <1>1
    <3> QED BY <1>1, <2>1, <3>1
  <2>5. /\ DOMAIN expected' = DOMAIN expected /\ expected'[n].tx = tx /\ expected'[n].matched = TRUE
        /\ \A k \in DOMAIN expected \ {n} : expected'[k] = expected[k]
        /\ expected' \in Seq([tx : Tx, matched : BOOLEAN])
    <3> DEFINE e == [expected[n] EXCEPT !.matched = TRUE]
    <3>a. expected \in Seq([tx : Tx, matched : BOOLEAN])
      BY <1>1
    <3>b. n \in 1 .. Len(expected)
      BY <2>2, <3>a
    <3>1. expected[n] \in [tx : Tx, matched : BOOLEAN] /\ n \in 1 .. Len(expected)
      BY <3>a, <3>b, ElementOfSeq
    <3>2. e \in [tx : Tx, matched : BOOLEAN] /\ e.tx = tx /\ e.matched = TRUE
      BY <2>2, <3>1
    <3> HIDE DEF e
    <3>3. expected' = [expected EXCEPT ![n] = e]
      BY <2>1 DEF e
    <3>4. expected' \in Seq([tx : Tx, matched : BOOLEAN])
      BY <1>1, <3>1, <3>2, <3>3, ExceptSeq
    <3> QED BY <1>1, <3>1, <3>2, <3>3, <3>4
  <2>6. /\ DOMAIN checks'.matched = DOMAIN checks.matched \cup {Len(checks.matched) + 1}
        /\ Len(checks.matched) + 1 \notin DOMAIN checks.matched
        /\ checks'.matched[Len(checks.matched) + 1] = tx
        /\ \A k \in DOMAIN checks.matched : checks'.matched[k] = checks.matched[k]
        /\ Len(checks'.matched) = Len(checks.matched) + 1
    BY <1>1, <2>3
  <2>7. ASSUME NEW v \in Tx PROVE Cardinality(Answered(v)') = Cardinality(UsedUp(v)')
    <3>1. Cardinality(Answered(v)) = Cardinality(UsedUp(v)) /\ IsFiniteSet(Answered(v)) /\ IsFiniteSet(UsedUp(v))
      BY ScoreFinite DEF ScoreInv, ScoreboardExact
    <3>2. CASE v # tx
      <4>1. Answered(v)' = Answered(v)
        BY <2>6, <3>2 DEF Answered
      <4>2. UsedUp(v)' = UsedUp(v)
        BY <2>2, <2>5, <3>2 DEF UsedUp
      <4> QED BY <3>1, <4>1, <4>2
    <3>3. CASE v = tx
      <4>1. Answered(v)' = Answered(v) \cup {Len(checks.matched) + 1} /\ Len(checks.matched) + 1 \notin Answered(v)
        BY <2>6, <3>3 DEF Answered
      <4>2. UsedUp(v)' = UsedUp(v) \cup {n} /\ n \notin UsedUp(v)
        BY <2>2, <2>5, <3>3 DEF UsedUp
      <4>3. Cardinality(Answered(v)') = Cardinality(Answered(v)) + 1
        BY <3>1, <4>1, OneMore
      <4>4. Cardinality(UsedUp(v)') = Cardinality(UsedUp(v)) + 1
        BY <3>1, <4>2, OneMore
      <4> QED BY <3>1, <4>3, <4>4
    <3> QED BY <3>2, <3>3
  <2>8. ScoreboardExact'
    BY <1>1, <2>3, <2>6, <2>7 DEF ScoreboardExact
  <2> QED BY <2>4, <2>5, <2>8 DEF ScoreInv
<1> QED BY <1>2, <1>3 DEF Check
-----------------------------------------------------------------------------
(* The sequencer: arithmetic of the turns.                                   *)
LEMMA Around ==
  ASSUME NEW m \in Nat \ {0}, NEW a \in 0 .. 2 * m - 1
  PROVE  (a < m => a % m = a) /\ (a >= m => a % m = a - m)
<1> DEFINE q == a \div m
           r == a % m
<1>1. r \in 0 .. m - 1 /\ a = (m * q) + r /\ q \in Int
  OBVIOUS
<1> HIDE DEF q, r
<1>2. CASE q <= -1
  <2>1. m * q <= - m
    BY <1>2, <1>1
  <2> QED BY <1>1, <2>1
<1>3. CASE q >= 2
  <2>1. m * q >= 2 * m
    BY <1>3, <1>1
  <2> QED BY <1>1, <2>1
<1>4. CASE q = 0
  BY <1>1, <1>4 DEF r
<1>5. CASE q = 1
  BY <1>1, <1>5 DEF r
<1> QED BY <1>1, <1>2, <1>3, <1>4, <1>5

(* The turn that comes k places after rr, and the place it is a distance of. *)
LEMMA Places ==
  ASSUME TurnInv, active # <<>>, NEW k \in 0 .. Len(active) - 1
  PROVE  /\ Turn(k) \in 0 .. Len(active) - 1
         /\ Turn(k) = IF rr + k < Len(active) THEN rr + k ELSE rr + k - Len(active)
         /\ Distance(Turn(k) + 1) = k
         /\ (Turn(k) + 1) % Len(active) = IF Turn(k) + 1 = Len(active) THEN 0 ELSE Turn(k) + 1
<1> DEFINE N == Len(active)
<1>1. N \in Nat \ {0} /\ rr \in 0 .. N - 1
  BY DEF TurnInv
<1> HIDE DEF N
<1>2. Turn(k) = IF rr + k < N THEN rr + k ELSE rr + k - N
  <2>1. k \in 0 .. N - 1
    BY DEF N
  <2> DEFINE a == rr + k
  <2>2. a \in 0 .. 2 * N - 1
    BY <1>1, <2>1
  <2> HIDE DEF a
  <2>3. (a < N => a % N = a) /\ (a >= N => a % N = a - N)
    BY <1>1, <2>2, Around
  <2>4. Turn(k) = a % N /\ a = rr + k
    BY DEF Turn, N, a
  <2> QED BY <1>1, <2>1, <2>3, <2>4
<1>3. Turn(k) \in 0 .. N - 1
  BY <1>1, <1>2 DEF N
<1>4. Distance(Turn(k) + 1) = k
  BY <1>1, <1>2 DEF Distance, N
<1>5. (Turn(k) + 1) % N = IF Turn(k) + 1 = N THEN 0 ELSE Turn(k) + 1
  <2> DEFINE t == Turn(k) + 1
  <2>1. t \in 0 .. 2 * N - 1 /\ t <= N
    BY <1>1, <1>3
  <2> HIDE DEF t
  <2>2. (t < N => t % N = t) /\ (t >= N => t % N = t - N)
    BY <1>1, <2>1, Around
  <2>3. t % N = IF t = N THEN 0 ELSE t
    BY <1>1, <2>1, <2>2
  <2> QED BY <2>3 DEF t
<1> QED BY <1>2, <1>3, <1>4, <1>5 DEF N

LEMMA DistanceTurns ==
  ASSUME TurnInv, NEW p \in DOMAIN active
  PROVE  Distance(p) \in 0 .. Len(active) - 1 /\ Turn(Distance(p)) + 1 = p
<1>1. p \in 1 .. Len(active) /\ Len(active) \in Nat /\ active # <<>> /\ rr \in Nat
  BY DEF TurnInv
<1>2. rr < Len(active)
  BY <1>1 DEF TurnInv
<1>3. Distance(p) \in 0 .. Len(active) - 1
  BY <1>1, <1>2 DEF Distance
<1>4. Turn(Distance(p)) = IF rr + Distance(p) < Len(active) THEN rr + Distance(p) ELSE rr + Distance(p) - Len(active)
  BY <1>1, <1>3, Places
<1> QED BY <1>1, <1>2, <1>3, <1>4 DEF Distance

LEMMA OfFinite ==
  ASSUME NEW n \in Nat, NEW s
  PROVE  IsFiniteSet(Of(s, n)) /\ Cardinality(Of(s, n)) \in Nat
<1>1. IsFiniteSet(1 .. n) /\ Of(s, n) \subseteq 1 .. n
  BY FS_Interval DEF Of
<1> QED BY <1>1, FS_Subset, FS_CardinalityType

LEMMA ActivateKeepsTurns ==
  ASSUME TurnInv, NEW s \in Sequences_, Activate(s)
  PROVE  TurnInv'
<1> DEFINE N == Len(active)
<1>1. /\ active' = Append(active, s) /\ passed' = [passed EXCEPT ![s] = 0] /\ rr' = rr /\ items' = items
      /\ \A p \in DOMAIN active : active[p] # s
  BY DEF Activate, Range
<1>2. active \in Seq(Sequences_) /\ rr \in Nat /\ passed \in [Sequences_ -> Nat] /\ N \in Nat
      /\ items \in [Sequences_ -> Seq(Items)]
  BY DEF TurnInv
<1>3. /\ active' \in Seq(Sequences_) /\ Len(active') = N + 1 /\ active'[N + 1] = s
      /\ DOMAIN active' = DOMAIN active \cup {N + 1} /\ DOMAIN active = 1 .. N
      /\ \A p \in DOMAIN active : active'[p] = active[p]
  <2>1. active' \in Seq(Sequences_) /\ Len(active') = N + 1 /\ active'[N + 1] = s
    BY <1>1, <1>2
  <2>2. DOMAIN active' = 1 .. N + 1 /\ DOMAIN active = 1 .. N
    BY <1>1, <1>2
  <2>3. 1 .. N + 1 = (1 .. N) \cup {N + 1}
    <3> HIDE DEF N
    <3> QED BY <1>2
  <2>4. \A p \in 1 .. N : active'[p] = active[p]
    BY <1>1, <1>2
  <2> HIDE DEF N
  <2> QED BY <2>1, <2>2, <2>3, <2>4
<1> HIDE DEF N
<1>4. passed' \in [Sequences_ -> Nat] /\ passed'[s] = 0 /\ \A t \in Sequences_ \ {s} : passed'[t] = passed[t]
  BY <1>1, <1>2
<1>5. IF N = 0 THEN rr = 0 ELSE rr < N
  BY <1>2 DEF TurnInv, N
<1>6. rr' < Len(active') /\ active' # <<>>
  BY <1>1, <1>2, <1>3, <1>5
<1>7. \A p, q \in DOMAIN active' : active'[p] = active'[q] => p = q
  BY <1>1, <1>3 DEF TurnInv
<1>8. ASSUME NEW p \in DOMAIN active' PROVE passed'[active'[p]] + Distance(p)' < Len(active')
  <2>1. CASE p = N + 1
    <3>1. p > rr /\ rr' = rr
      BY <1>1, <1>2, <1>5, <2>1
    <3>2. Distance(p)' = p - 1 - rr
      BY <3>1 DEF Distance
    <3>3. passed'[active'[p]] = 0
      BY <1>3, <1>4, <2>1
    <3>4. Len(active') = N + 1 /\ rr \in Nat /\ N \in Nat
      BY <1>2, <1>3
    <3>5. 0 + (p - 1 - rr) < N + 1
      BY <2>1, <3>4
    <3> QED BY <3>2, <3>3, <3>4, <3>5
  <2>2. CASE p # N + 1
    <3>1. p \in DOMAIN active /\ p \in 1 .. N /\ active[p] \in Sequences_ \ {s}
      BY <1>1, <1>2, <1>3, <2>2
    <3>2. passed[active[p]] + Distance(p) < N /\ passed[active[p]] \in Nat
      BY <1>2, <3>1 DEF TurnInv, N
    <3>3. Distance(p) = IF p > rr THEN p - 1 - rr ELSE p - 1 - rr + N
      BY DEF Distance, N
    <3>4. Distance(p)' = IF p > rr THEN p - 1 - rr ELSE p - 1 - rr + (N + 1)
      BY <1>1, <1>3 DEF Distance
    <3>5. passed'[active'[p]] = passed[active[p]]
      BY <1>3, <1>4, <3>1
    <3>6. p \in Int /\ rr \in Int /\ N \in Int /\ Len(active') = N + 1
      BY <1>2, <1>3, <3>1
    <3>7. Distance(p) \in Int /\ (Distance(p)' = Distance(p) \/ Distance(p)' = Distance(p) + 1)
      BY <3>3, <3>4, <3>6
    <3> QED BY <3>2, <3>5, <3>6, <3>7
  <2> QED BY <2>1, <2>2
<1> QED BY <1>1, <1>2, <1>3, <1>4, <1>6, <1>7, <1>8 DEF TurnInv

(* One turn: the sequence with the least distance is served, and everybody   *)
(* behind it comes nearer by more than the one turn it has to wait.           *)
LEMMA TurnTaken ==
  ASSUME TurnInv, RunSequencer
  PROVE  \E p \in DOMAIN active :
           LET s == active[p] IN
           /\ s \in Sequences_ /\ items[s] \in Seq(Items) /\ items[s] # <<>>
           /\ items' = [items EXCEPT ![s] = Tail(items[s])]
           /\ processed' = Append(processed, Head(items[s]))
           /\ delivered' = IF write THEN Append(delivered, Head(items[s])) ELSE delivered
           /\ rr' = IF p = Len(active) THEN 0 ELSE p
           /\ active' = active /\ write' = write
           /\ passed' = [t \in Sequences_ |-> IF t = s \/ items[t] = <<>> \/ t \notin Range(active) THEN 0 ELSE passed[t] + 1]
           /\ \A q \in DOMAIN active : items[active[q]] # <<>> => Distance(p) <= Distance(q)
<1>1. PICK k \in Ready :
        /\ \A j \in Ready : k <= j
        /\ LET s == active[Turn(k) + 1] IN
           /\ items' = [items EXCEPT ![s] = Tail(items[s])]
           /\ rr' = (Turn(k) + 1) % Len(active)
           /\ processed' = Append(processed, Head(items[s]))
           /\ delivered' = IF write THEN Append(delivered, Head(items[s])) ELSE delivered
           /\ passed' = [t \in Sequences_ |-> IF t = s \/ items[t] = <<>> \/ t \notin Range(active) THEN 0 ELSE passed[t] + 1]
  BY DEF RunSequencer
<1>2. k \in 0 .. Len(active) - 1 /\ items[active[Turn(k) + 1]] # <<>>
  BY <1>1 DEF Ready
<1>3. active \in Seq(Sequences_) /\ active # <<>> /\ items \in [Sequences_ -> Seq(Items)]
  BY <1>2 DEF TurnInv
<1> DEFINE p == Turn(k) + 1
<1>4. p \in 1 .. Len(active) /\ Distance(p) = k /\ p % Len(active) = IF p = Len(active) THEN 0 ELSE p
  BY <1>2, <1>3, Places
<1> HIDE DEF p
<1>5. p \in DOMAIN active /\ active[p] \in Sequences_
  BY <1>3, <1>4
<1>6. \A q \in DOMAIN active : items[active[q]] # <<>> => Distance(p) <= Distance(q)
  BY <1>1, <1>4, DistanceTurns DEF Ready
<1>7. active' = active /\ write' = write
  BY DEF RunSequencer
<1>8. rr' = IF p = Len(active) THEN 0 ELSE p
  BY <1>1, <1>4 DEF p
<1> QED BY <1>1, <1>2, <1>3, <1>5, <1>6, <1>7, <1>8 DEF p

LEMMA RunKeepsTurns ==
  ASSUME TurnInv, RunSequencer
  PROVE  TurnInv'
<1>1. PICK p \in DOMAIN active :
           LET s == active[p] IN
           /\ s \in Sequences_ /\ items[s] \in Seq(Items) /\ items[s] # <<>>
           /\ items' = [items EXCEPT ![s] = Tail(items[s])]
           /\ processed' = Append(processed, Head(items[s]))
           /\ delivered' = IF write THEN Append(delivered, Head(items[s])) ELSE delivered
           /\ rr' = IF p = Len(active) THEN 0 ELSE p
           /\ active' = active /\ write' = write
           /\ passed' = [t \in Sequences_ |-> IF t = s \/ items[t] = <<>> \/ t \notin Range(active) THEN 0 ELSE passed[t] + 1]
           /\ \A q \in DOMAIN active : items[active[q]] # <<>> => Distance(p) <= Distance(q)
  BY TurnTaken
<1> DEFINE N == Len(active)
           s == active[p]
<1>2. /\ active \in Seq(Sequences_) /\ rr \in Nat /\ passed \in [Sequences_ -> Nat] /\ N \in Nat
      /\ items \in [Sequences_ -> Seq(Items)] /\ p \in 1 .. N /\ active # <<>> /\ rr < N
      /\ \A q, r \in DOMAIN active : active[q] = active[r] => q = r
  BY DEF TurnInv
<1>3. Tail(items[s]) \in Seq(Items)
  BY <1>1
<1>4. items' \in [Sequences_ -> Seq(Items)]
  BY <1>1, <1>2, <1>3
<1>5. passed' \in [Sequences_ -> Nat]
  <2>1. passed' = [t \in Sequences_ |-> IF t = s \/ items[t] = <<>> \/ t \notin Range(active) THEN 0 ELSE passed[t] + 1]
    BY <1>1, Zenon DEF s
  <2> HIDE DEF s
  <2>2. ASSUME NEW t \in Sequences_ PROVE passed'[t] \in Nat
    <3>1. passed[t] \in Nat
      BY <1>2
    <3>2. passed'[t] = 0 \/ passed'[t] = passed[t] + 1
      BY <2>1, Zenon
    <3> QED BY <3>1, <3>2
  <2> QED BY <2>1, <2>2
<1>6. active' = active /\ rr' \in Nat /\ rr' < N /\ rr' = IF p = N THEN 0 ELSE p
  BY <1>1, <1>2
<1>7. ASSUME NEW q \in DOMAIN active PROVE passed'[active[q]] + Distance(q)' < N
  <2> DEFINE t == active[q]
  <2>1. t \in Sequences_ /\ q \in 1 .. N /\ t \in Range(active)
    BY <1>2 DEF Range
  <2>2. passed[t] + Distance(q) < N /\ passed[t] \in Nat
    BY <1>2, <2>1 DEF TurnInv
  <2>3. N \in Int /\ rr \in Int /\ rr' \in Int /\ p \in Int /\ q \in Int /\ 0 <= rr /\ rr < N /\ 0 <= rr' /\ rr' < N
        /\ 1 <= p /\ p <= N /\ 1 <= q /\ q <= N /\ (p = N => rr' = 0) /\ (p # N => rr' = p)
    BY <1>2, <1>6, <2>1
  <2>4. Len(active') = N /\ Len(active) = N
    BY <1>6
  <2> HIDE DEF N, t
  <2>5. PICK dp : dp = Distance(p)
    OBVIOUS
  <2>6. PICK dq : dq = Distance(q)
    OBVIOUS
  <2>7. PICK e : e = Distance(q)'
    OBVIOUS
  <2>8. (p > rr => dp = p - 1 - rr) /\ (~ p > rr => dp = p - 1 - rr + N)
    BY <2>4, <2>5 DEF Distance
  <2>9. (q > rr => dq = q - 1 - rr) /\ (~ q > rr => dq = q - 1 - rr + N)
    BY <2>4, <2>6 DEF Distance
  <2>10. (q > rr' => e = q - 1 - rr') /\ (~ q > rr' => e = q - 1 - rr' + N)
    BY <2>4, <2>7 DEF Distance
  <2>11. dp \in Int /\ dq \in Int /\ e \in Int /\ e < N /\ dp >= 0
    BY <2>3, <2>8, <2>9, <2>10
  <2>12. CASE t = s \/ items[t] = <<>>
    <3>1. passed'[t] = 0
      BY <1>1, <2>1, <2>12
    <3> QED BY <2>3, <2>7, <2>11, <3>1 DEF t
  <2>13. CASE t # s /\ items[t] # <<>>
    <3>1. passed'[t] = passed[t] + 1
      BY <1>1, <2>1, <2>13
    <3>2. dp <= dq /\ q # p
      BY <1>1, <2>5, <2>6, <2>13 DEF t
    <3>3. e = dq - dp - 1
      <4>1. CASE p > rr /\ q > rr
        BY <2>3, <2>8, <2>9, <2>10, <3>2, <4>1
      <4>2. CASE p > rr /\ ~ q > rr
        <5>1. dp = p - 1 - rr /\ dq = q - 1 - rr + N
          BY <2>8, <2>9, <4>2
        <5>2. ASSUME p = N PROVE e = q - 1
          BY <2>3, <2>10, <5>2
        <5>3. ASSUME p # N PROVE e = q - 1 - p + N
          BY <2>3, <2>10, <4>2, <5>3
        <5> QED BY <2>3, <5>1, <5>2, <5>3
      <4>3. CASE ~ p > rr
        <5>1. dp = p - 1 - rr + N /\ p # N /\ rr' = p
          BY <2>3, <2>8, <4>3
        <5>2. ~ q > rr /\ q > p
          BY <2>3, <2>9, <3>2, <4>3, <5>1
        <5> QED BY <2>3, <2>9, <2>10, <5>1, <5>2
      <4> QED BY <4>1, <4>2, <4>3
    <3>4. passed[t] + dq < N /\ passed[t] \in Nat
      BY <2>2, <2>6
    <3>5. passed'[t] + e < N
      BY <2>3, <2>11, <3>1, <3>3, <3>4
    <3> QED BY <2>7, <3>5 DEF t
  <2> QED BY <2>12, <2>13
<1> QED BY <1>2, <1>4, <1>5, <1>6, <1>7 DEF TurnInv

LEMMA AddKeepsTurns ==
  ASSUME TurnInv, OrderInv, NEW s \in Sequences_, AddItem(s)
  PROVE  TurnInv' /\ OrderInv'
<1> DEFINE L == Len(processed)
           it == <<s, Added(s) + 1>>
<1>1. /\ items' = [items EXCEPT ![s] = Append(items[s], it)]
      /\ passed' = [passed EXCEPT ![s] = IF items[s] = <<>> THEN 0 ELSE passed[s]]
      /\ active' = active /\ rr' = rr /\ processed' = processed /\ delivered' = delivered /\ write' = write
  BY DEF AddItem, tlmVars
<1>2. /\ items \in [Sequences_ -> Seq(Items)] /\ passed \in [Sequences_ -> Nat]
      /\ active \in Seq(Sequences_) /\ rr \in Nat /\ processed \in Seq(Items) /\ L \in Nat
  BY DEF TurnInv, OrderInv
<1>3. \A t \in Sequences_ : IsFiniteSet(Of(t, L)) /\ Cardinality(Of(t, L)) \in Nat
  BY <1>2, OfFinite
<1>4. items[s] \in Seq(Items) /\ Len(items[s]) \in Nat /\ Added(s) = Len(items[s]) + Cardinality(Of(s, L))
  BY <1>2 DEF Added
<1>5. it \in Items
  BY <1>3, <1>4 DEF Items
<1>6. it[1] = s /\ it = <<s, Cardinality(Of(s, L)) + (Len(items[s]) + 1)>>
  BY <1>3, <1>4
<1> HIDE DEF it, L
<1>7. items' \in [Sequences_ -> Seq(Items)] /\ items'[s] = Append(items[s], it)
      /\ \A t \in Sequences_ \ {s} : items'[t] = items[t]
  BY <1>1, <1>2, <1>4, <1>5
<1>8. passed' \in [Sequences_ -> Nat] /\ \A t \in Sequences_ : passed'[t] <= passed[t]
  BY <1>1, <1>2
<1>9. \A n : \A t : Of(t, n)' = Of(t, n)
  BY <1>1 DEF Of
<1>10. ASSUME NEW t \in Sequences_, NEW k \in 1 .. Len(items'[t])
       PROVE  items'[t][k] = <<t, Cardinality(Of(t, L)) + k>>
  <2>1. \A j \in 1 .. Len(items[t]) : items[t][j] = <<t, Cardinality(Of(t, L)) + j>>
    BY DEF OrderInv, L
  <2>2. CASE t # s
    BY <1>7, <2>1, <2>2
  <2>3. CASE t = s /\ k <= Len(items[s])
    BY <1>4, <1>5, <1>7, <2>1, <2>3
  <2>4. CASE t = s /\ k = Len(items[s]) + 1
    BY <1>4, <1>6, <1>7, <2>4
  <2>5. t = s => k <= Len(items[s]) + 1 /\ k \in Int
    BY <1>4, <1>7
  <2> QED BY <1>4, <2>2, <2>3, <2>4, <2>5
<1>11. TurnInv'
  <2>1. ASSUME NEW p \in DOMAIN active PROVE passed'[active[p]] + Distance(p)' < Len(active)
    <3>1. Distance(p)' = Distance(p) /\ Distance(p) \in Int /\ active[p] \in Sequences_ /\ Len(active) \in Nat
      BY <1>1, <1>2 DEF Distance
    <3>2. passed[active[p]] + Distance(p) < Len(active)
      BY DEF TurnInv
    <3> QED BY <1>2, <1>8, <3>1, <3>2
  <2> QED BY <1>1, <1>7, <1>8, <2>1 DEF TurnInv
<1>12. OrderInv'
  BY <1>1, <1>9, <1>10 DEF OrderInv, L
<1> QED BY <1>11, <1>12

LEMMA OfAppend ==
  ASSUME NEW L \in Nat, processed \in Seq(Items), L = Len(processed), NEW h \in Items,
         processed' = Append(processed, h)
  PROVE  /\ \A t : \A n \in 0 .. L : Of(t, n)' = Of(t, n)
         /\ \A t : t # h[1] => Of(t, L + 1)' = Of(t, L)
         /\ Of(h[1], L + 1)' = Of(h[1], L) \cup {L + 1} /\ L + 1 \notin Of(h[1], L)
<1>1. \A m \in 1 .. L : processed'[m] = processed[m]
  OBVIOUS
<1>2. processed'[L + 1] = h
  OBVIOUS
<1>3. 1 .. L + 1 = (1 .. L) \cup {L + 1} /\ L + 1 \notin 1 .. L
  OBVIOUS
<1>4. \A n \in 0 .. L : 1 .. n \subseteq 1 .. L
  OBVIOUS
<1>5. ASSUME NEW t, NEW n \in 0 .. L PROVE Of(t, n)' = Of(t, n)
  BY <1>1, <1>4 DEF Of
<1> QED BY <1>1, <1>2, <1>3, <1>5 DEF Of

LEMMA RunKeepsOrder ==
  ASSUME TurnInv, OrderInv, RunSequencer
  PROVE  OrderInv'
<1>1. PICK p \in DOMAIN active :
           LET s == active[p] IN
           /\ s \in Sequences_ /\ items[s] \in Seq(Items) /\ items[s] # <<>>
           /\ items' = [items EXCEPT ![s] = Tail(items[s])]
           /\ processed' = Append(processed, Head(items[s]))
           /\ delivered' = IF write THEN Append(delivered, Head(items[s])) ELSE delivered
           /\ rr' = IF p = Len(active) THEN 0 ELSE p
           /\ active' = active /\ write' = write
           /\ passed' = [t \in Sequences_ |-> IF t = s \/ items[t] = <<>> \/ t \notin Range(active) THEN 0 ELSE passed[t] + 1]
           /\ \A q \in DOMAIN active : items[active[q]] # <<>> => Distance(p) <= Distance(q)
  BY TurnTaken
<1>s. PICK s : s = active[p]
  OBVIOUS
<1>h. PICK h : h = Head(items[s])
  OBVIOUS
<1>L. PICK L : L = Len(processed)
  OBVIOUS
<1>D. PICK D : D = Len(delivered)
  OBVIOUS
<1>2. /\ s \in Sequences_ /\ items \in [Sequences_ -> Seq(Items)] /\ items[s] \in Seq(Items) /\ items[s] # <<>>
      /\ processed \in Seq(Items) /\ delivered \in Seq(Items) /\ L \in Nat /\ D \in Nat /\ D <= L
      /\ items' = [items EXCEPT ![s] = Tail(items[s])] /\ processed' = Append(processed, h) /\ write' = write
      /\ (write => delivered' = Append(delivered, h)) /\ (~ write => delivered' = delivered /\ delivered = <<>>)
  BY <1>1, <1>s, <1>h, <1>L, <1>D DEF TurnInv, OrderInv
<1>t. /\ L \in Nat /\ D \in Nat /\ D <= L /\ DOMAIN processed = 1 .. L /\ DOMAIN delivered = 1 .. D
      /\ \A n \in DOMAIN processed : processed[n][2] = Cardinality(Of(processed[n][1], n))
      /\ \A n \in DOMAIN delivered : delivered[n] = processed[n + L - D]
  BY <1>L, <1>D DEF OrderInv
<1>3. h \in Items /\ h = items[s][1] /\ 1 \in 1 .. Len(items[s])
  BY <1>2, <1>h
<1>4. \A t \in Sequences_ : \A k \in 1 .. Len(items[t]) : items[t][k] = <<t, Cardinality(Of(t, L)) + k>>
  BY <1>L DEF OrderInv
<1>5. h = <<s, Cardinality(Of(s, L)) + 1>>
  BY <1>2, <1>3, <1>4
<1>6. h[1] = s /\ h[2] = Cardinality(Of(s, L)) + 1
  BY <1>5
<1>7. /\ \A t : \A n \in 0 .. L : Of(t, n)' = Of(t, n)
      /\ \A t : t # s => Of(t, L + 1)' = Of(t, L)
      /\ Of(s, L + 1)' = Of(s, L) \cup {L + 1} /\ L + 1 \notin Of(s, L)
  <2>1. L \in Nat /\ processed \in Seq(Items) /\ h \in Items /\ processed' = Append(processed, h)
    BY <1>2, <1>3, Zenon
  <2>2. /\ \A t : \A n \in 0 .. L : Of(t, n)' = Of(t, n)
        /\ \A t : t # h[1] => Of(t, L + 1)' = Of(t, L)
        /\ Of(h[1], L + 1)' = Of(h[1], L) \cup {L + 1} /\ L + 1 \notin Of(h[1], L)
    BY <2>1, <1>L, OfAppend
  <2>3. h[1] = s
    BY <1>6, Zenon
  <2> QED BY <2>2, <2>3, Zenon
<1>8. \A t : IsFiniteSet(Of(t, L)) /\ Cardinality(Of(t, L)) \in Nat
  BY <1>2, OfFinite
<1>9. Cardinality(Of(s, L + 1)') = Cardinality(Of(s, L)) + 1
  BY <1>7, <1>8, OneMore
<1>10. /\ processed' \in Seq(Items) /\ Len(processed') = L + 1 /\ processed'[L + 1] = h
       /\ \A n \in 1 .. L : processed'[n] = processed[n]
  BY <1>2, <1>3, <1>L
<1>11. /\ \A t \in Sequences_ \ {s} : items'[t] = items[t]
       /\ Len(items'[s]) = Len(items[s]) - 1 /\ \A k \in 1 .. Len(items[s]) - 1 : items'[s][k] = items[s][k + 1]
  BY <1>2
<1>c. PICK c : c = [t \in Sequences_ |-> [n \in 0 .. L |-> Cardinality(Of(t, n))]]
  OBVIOUS
<1>d. PICK d : d = [t \in Sequences_ |-> [n \in 0 .. L + 1 |-> Cardinality(Of(t, n)')]]
  OBVIOUS
<1>e. /\ \A t \in Sequences_ : \A n \in 0 .. L : c[t][n] = Cardinality(Of(t, n))
      /\ \A t \in Sequences_ : \A n \in 0 .. L + 1 : d[t][n] = Cardinality(Of(t, n)')
      /\ L \in 0 .. L /\ L + 1 \in 0 .. L + 1 /\ 0 .. L \subseteq 0 .. L + 1
  BY <1>2, <1>c, <1>d
<1>f. /\ \A t \in Sequences_ : \A n \in 0 .. L : d[t][n] = c[t][n]
      /\ \A t \in Sequences_ \ {s} : d[t][L + 1] = c[t][L]
      /\ d[s][L + 1] = c[s][L] + 1 /\ c[s][L] \in Nat
  <2>1. ASSUME NEW t \in Sequences_, NEW n \in 0 .. L PROVE d[t][n] = c[t][n]
    BY <1>7, <1>e
  <2>2. ASSUME NEW t \in Sequences_ \ {s} PROVE d[t][L + 1] = c[t][L]
    <3>1. Of(t, L + 1)' = Of(t, L)
      BY <1>7
    <3> QED BY <1>e, <3>1
  <2>3. d[s][L + 1] = c[s][L] + 1 /\ c[s][L] \in Nat
    BY <1>2, <1>8, <1>9, <1>e
  <2> QED BY <2>1, <2>2, <2>3
<1>g. \A t \in Sequences_ : \A k \in 1 .. Len(items[t]) : items[t][k] = <<t, c[t][L] + k>>
  BY <1>4, <1>e
<1>12. ASSUME NEW t \in Sequences_, NEW k \in 1 .. Len(items'[t])
       PROVE  items'[t][k] = <<t, d[t][L + 1] + k>>
  <2>1. CASE t # s
    <3>1. items'[t] = items[t] /\ d[t][L + 1] = c[t][L]
      BY <1>11, <1>f, <2>1
    <3> QED BY <1>g, <3>1
  <2>2. CASE t = s
    <3>1. k \in 1 .. Len(items[s]) - 1 /\ k + 1 \in 1 .. Len(items[s]) /\ k \in Int
      BY <1>2, <1>11, <2>2
    <3>2. items'[s][k] = <<s, c[s][L] + (k + 1)>>
      BY <1>2, <1>11, <1>g, <3>1
    <3>3. c[s][L] + (k + 1) = d[s][L + 1] + k
      BY <1>f, <3>1
    <3> QED BY <2>2, <3>2, <3>3
  <2> QED BY <2>1, <2>2
<1>13. ASSUME NEW n \in 1 .. L + 1, NEW v, v = processed'[n][1]
       PROVE  processed'[n][2] = Cardinality(Of(v, n)')
  <2>1. CASE n \in 1 .. L
    <3>1. processed[n][2] = Cardinality(Of(processed[n][1], n)) /\ v = processed[n][1] /\ processed'[n] = processed[n]
      BY <1>t, <1>10, <1>13, <2>1
    <3>2. Of(v, n)' = Of(v, n)
      BY <1>t, <1>7, <2>1
    <3> QED BY <3>1, <3>2
  <2>2. CASE n = L + 1
    <3>1. v = s /\ processed'[n][2] = Cardinality(Of(s, L)) + 1
      BY <1>6, <1>10, <1>13, <2>2
    <3> QED BY <1>9, <2>2, <3>1
  <2> QED BY <1>t, <2>1, <2>2
<1>14. /\ delivered' \in Seq(Items) /\ Len(delivered') <= L + 1 /\ (~ write' => delivered' = <<>>)
       /\ \A n \in 1 .. Len(delivered') : delivered'[n] = processed'[n + (L + 1) - Len(delivered')]
  <2>1. CASE ~ write
    BY <1>2, <2>1
  <2>2. CASE write
    <3>1. /\ delivered' \in Seq(Items) /\ Len(delivered') = D + 1 /\ delivered'[D + 1] = h
          /\ \A n \in 1 .. D : delivered'[n] = delivered[n]
      <4>1. delivered' = Append(delivered, h) /\ delivered \in Seq(Items) /\ D = Len(delivered)
        BY <1>2, <1>D, <2>2
      <4> QED BY <1>3, <4>1
    <3>2. ASSUME NEW n \in 1 .. D + 1 PROVE delivered'[n] = processed'[n + (L + 1) - (D + 1)]
      <4>1. CASE n \in 1 .. D
        <5>1. delivered[n] = processed[n + L - D]
          BY <1>t, <4>1
        <5>2. n + L - D \in 1 .. L /\ n + L - D = n + (L + 1) - (D + 1)
          BY <1>t, <4>1
        <5> QED BY <1>10, <3>1, <4>1, <5>1, <5>2
      <4>2. CASE n = D + 1
        <5>1. n + (L + 1) - (D + 1) = L + 1
          BY <1>t, <4>2
        <5> QED BY <1>10, <3>1, <4>2, <5>1
      <4> QED BY <1>t, <4>1, <4>2
    <3>3. ~ write' => delivered' = <<>>
      BY <1>2, <2>2
    <3> QED BY <1>t, <3>1, <3>2, <3>3
  <2> QED BY <2>1, <2>2
<1>15. DOMAIN processed' = 1 .. L + 1 /\ DOMAIN delivered' = 1 .. Len(delivered')
  BY <1>10, <1>14
<1>16. ASSUME NEW t \in Sequences_, NEW k \in 1 .. Len(items'[t])
       PROVE  items'[t][k] = <<t, Cardinality(Of(t, Len(processed))') + k>>
  <2>1. Of(t, Len(processed))' = Of(t, L + 1)'
    BY <1>10 DEF Of
  <2> QED BY <1>12, <1>e, <2>1
<1>17. ASSUME NEW n \in DOMAIN processed'
       PROVE  processed'[n][2] = Cardinality(Of(processed[n][1], n)')
  <2>1. PICK v : v = processed'[n][1]
    OBVIOUS
  <2>2. Of(processed[n][1], n)' = Of(v, n)'
    BY <2>1 DEF Of
  <2> QED BY <1>13, <1>15, <2>1, <2>2
<1> QED BY <1>10, <1>14, <1>15, <1>16, <1>17 DEF OrderInv

(* Whoever does not touch the sequencer leaves its state.                    *)
LEMMA SequencerKept ==
  ASSUME TurnInv, OrderInv, UNCHANGED seqVars, UNCHANGED delivered, write => write'
  PROVE  TurnInv' /\ OrderInv'
<1>1. /\ items' = items /\ active' = active /\ rr' = rr /\ processed' = processed /\ passed' = passed
      /\ delivered' = delivered /\ (write => write')
  BY DEF seqVars
<1>2. \A p : Distance(p)' = Distance(p)
  BY <1>1 DEF Distance
<1>3. TurnInv'
  BY <1>1, <1>2 DEF TurnInv
<1>4. \A t : \A n : Of(t, n)' = Of(t, n)
  BY <1>1 DEF Of
<1>5. OrderInv'
  BY <1>1, <1>4 DEF OrderInv
<1> QED BY <1>3, <1>5

LEMMA ScoreboardKept == ASSUME ScoreInv, UNCHANGED sbVars PROVE ScoreInv'
<1>1. expected' = expected /\ checks' = checks
  BY DEF sbVars
<1>2. \A v : Answered(v)' = Answered(v) /\ UsedUp(v)' = UsedUp(v)
  BY <1>1 DEF Answered, UsedUp
<1> QED BY <1>1, <1>2 DEF ScoreInv, ScoreboardExact

LEMMA BenchStep == BenchInv /\ [BenchNext]_benchVars => BenchInv'
<1> SUFFICES ASSUME BenchInv, [BenchNext]_benchVars PROVE BenchInv'
  OBVIOUS
<1> USE DEF BenchInv
<1>1. ASSUME NEW s \in Sequences_, AddItem(s) PROVE BenchInv'
  <2>1. UNCHANGED sbVars
    BY <1>1 DEF AddItem
  <2> QED BY <1>1, <2>1, AddKeepsTurns, ScoreboardKept
<1>2. ASSUME NEW s \in Sequences_, Activate(s) PROVE BenchInv'
  <2>1. /\ UNCHANGED sbVars
        /\ items' = items /\ processed' = processed /\ delivered' = delivered /\ write' = write
    BY <1>2 DEF Activate, tlmVars
  <2>2. \A t : \A n : Of(t, n)' = Of(t, n)
    BY <2>1 DEF Of
  <2>3. OrderInv'
    BY <2>1, <2>2 DEF OrderInv
  <2> QED BY <1>2, <2>1, <2>3, ActivateKeepsTurns, ScoreboardKept
<1>3. CASE Connect \/ Bind
  <2>1. UNCHANGED seqVars /\ UNCHANGED delivered /\ UNCHANGED sbVars /\ (write => write')
    BY <1>3 DEF Connect, Bind
  <2> QED BY <2>1, SequencerKept, ScoreboardKept
<1>4. CASE RunSequencer
  <2>1. UNCHANGED sbVars
    BY <1>4 DEF RunSequencer
  <2> QED BY <1>4, <2>1, RunKeepsTurns, RunKeepsOrder, ScoreboardKept
<1>5. ASSUME NEW v \in Tx, Expect(v) \/ Check(v) PROVE BenchInv'
  <2>1. UNCHANGED seqVars /\ UNCHANGED delivered /\ (write => write')
    BY <1>5 DEF Expect, Check, tlmVars
  <2> QED BY <1>5, <2>1, SequencerKept, ExpectKeepsScore, CheckKeepsScore
<1>6. CASE Cover \/ UNCHANGED benchVars
  <2>1. UNCHANGED seqVars /\ UNCHANGED delivered /\ UNCHANGED sbVars /\ (write => write')
    BY <1>6 DEF Cover, Sample, Merge, MarkTested, tlmVars, benchVars
  <2> QED BY <2>1, SequencerKept, ScoreboardKept
<1> QED BY <1>1, <1>2, <1>3, <1>4, <1>5, <1>6, Zenon DEF BenchNext, Drive, Score

LEMMA BenchStart == BenchInit => BenchInv
<1> SUFFICES ASSUME BenchInit PROVE BenchInv
  OBVIOUS
<1>1. /\ items = [s \in Sequences_ |-> <<>>] /\ active = <<>> /\ rr = 0 /\ processed = <<>>
      /\ passed = [s \in Sequences_ |-> 0] /\ write = FALSE /\ delivered = <<>>
      /\ expected = <<>> /\ checks = [checked |-> 0, matched |-> <<>>, unexpected |-> <<>>]
  BY DEF BenchInit
<1>2. TurnInv
  BY <1>1 DEF TurnInv
<1>3. OrderInv
  BY <1>1 DEF OrderInv
<1>4. \A v : Answered(v) = {} /\ UsedUp(v) = {}
  BY <1>1 DEF Answered, UsedUp
<1>5. ScoreInv
  <2>1. expected \in Seq([tx : Tx, matched : BOOLEAN])
    BY <1>1
  <2>2. <<>> \in Seq(Tx) /\ Len(<<>>) = 0
    OBVIOUS
  <2>3. checks = [checked |-> 0, matched |-> <<>>, unexpected |-> <<>>]
    BY <1>1, Zenon
  <2>4. checks \in [checked : Nat, matched : Seq(Tx), unexpected : Seq(Tx)]
    BY <2>2, <2>3
  <2>5. checks.checked = Len(checks.matched) + Len(checks.unexpected)
    <3>1. checks.checked = 0 /\ checks.matched = <<>> /\ checks.unexpected = <<>>
      BY <2>3
    <3>2. Len(checks.matched) = 0 /\ Len(checks.unexpected) = 0
      BY <2>2, <3>1, Zenon
    <3> QED BY <3>1, <3>2
  <2>6. \A v \in Tx : Cardinality(Answered(v)) = Cardinality(UsedUp(v))
    BY <1>4
  <2> QED BY <2>1, <2>4, <2>5, <2>6, Zenon DEF ScoreInv, ScoreboardExact
<1> QED BY <1>2, <1>3, <1>5 DEF BenchInv

LEMMA BenchInvImplies == BenchInv => BenchSound
<1> SUFFICES ASSUME BenchInv PROVE BenchSound
  OBVIOUS
<1>1. ASSUME NEW s \in Range(active) PROVE passed[s] < Len(active)
  <2>1. PICK p \in DOMAIN active : s = active[p]
    BY DEF Range
  <2>2. passed[s] + Distance(p) < Len(active) /\ active # <<>>
    BY <2>1 DEF BenchInv, TurnInv
  <2>3. Distance(p) \in 0 .. Len(active) - 1
    BY DistanceTurns DEF BenchInv
  <2>4. passed[s] \in Nat /\ Len(active) \in Nat
    BY <2>1 DEF BenchInv, TurnInv
  <2> QED BY <2>2, <2>3, <2>4
<1>2. FairTurns
  BY <1>1 DEF FairTurns, BenchInv, OrderInv
<1> QED BY <1>2 DEF BenchSound, BenchInv, ScoreInv

(* For every set of sequences, every number of active ones and any calls in   *)
(* any order: a sequence with an item is passed over by no more than the      *)
(* other places of the array, what reaches the driver is in the order of each *)
(* sequence, and the scoreboard matches a value as often as it was expected. *)
THEOREM BenchIsSound == BenchSpec => []BenchSound
<1>1. BenchInit => BenchInv
  BY BenchStart
<1>2. BenchInv /\ [BenchNext]_benchVars => BenchInv'
  BY BenchStep
<1>3. BenchInv => BenchSound
  BY BenchInvImplies
<1> QED BY <1>1, <1>2, <1>3, PTL DEF BenchSpec
-----------------------------------------------------------------------------
(* The constraint solver.                                                    *)
RandVars == [Random!Rands -> [min : Int, max : Int, weighted : SUBSET Nat, value : Int, solved : BOOLEAN]]
InRange(v) == vars_[v].value \in vars_[v].min .. vars_[v].max

(* As long as no value was given up, those before vi are assigned, the others *)
(* are not, and what is assigned so far breaks no constraint.                *)
SolverInv ==
  /\ vars_ \in RandVars
  /\ constraints \in Seq(Constraints)
  /\ vi \in 1 .. NumRand + 1 /\ phase \in {"build", "search", "solved"}
  /\ phase = "search" =>
       /\ \A v \in Random!Rands : vars_[v].solved => InRange(v)
       /\ ~backtracked =>
            /\ \A v \in Random!Rands : vars_[v].solved <=> v < vi
            /\ Random!CheckAll(vars_)
  /\ Random!DirectSolutions

(* Whatever the weights, a value that can be drawn lies in its range.         *)
LEMMA DrawnInRange ==
  ASSUME SolverInv, NEW v \in Random!Rands, NEW x \in Random!Drawable(vars_[v])
  PROVE  x \in Int /\ x \in vars_[v].min .. vars_[v].max
<1>1. PICK lo, hi, ws : lo = vars_[v].min /\ hi = vars_[v].max /\ ws = vars_[v].weighted
  OBVIOUS
<1>2. lo \in Int /\ hi \in Int /\ ws \subseteq Nat
  BY <1>1 DEF SolverInv, RandVars
<1>3. x \in lo .. hi \/ x \in {lo + w : w \in {w \in ws : w <= hi - lo}}
  BY <1>1 DEF Random!Drawable
<1> QED BY <1>1, <1>2, <1>3


LEMMA SolverStarts == Random!SolverAssumption /\ Random!Init => SolverInv
<1> SUFFICES ASSUME Random!SolverAssumption, Random!Init PROVE SolverInv
  OBVIOUS
<1>1. vars_ \in RandVars
  BY DEF Random!Init, RandVars
<1>2. constraints \in Seq(Constraints) /\ vi \in 1 .. NumRand + 1 /\ phase = "build"
  BY DEF Random!Init, Random!SolverAssumption
<1>3. Random!DirectSolutions
  BY <1>2 DEF Random!DirectSolutions
<1> QED BY <1>1, <1>2, <1>3 DEF SolverInv

(* Giving a variable a value leaves the others, and the ranges, alone.        *)
LEMMA DrawnKeeps ==
  ASSUME vars_ \in RandVars, NEW v \in Random!Rands, NEW x \in Int
  PROVE  /\ Random!Drawn(v, x) \in RandVars
         /\ Random!Drawn(v, x)[v].value = x /\ Random!Drawn(v, x)[v].solved = TRUE
         /\ Random!Drawn(v, x)[v].min = vars_[v].min /\ Random!Drawn(v, x)[v].max = vars_[v].max
         /\ \A u \in Random!Rands \ {v} : Random!Drawn(v, x)[u] = vars_[u]
BY DEF RandVars, Random!Drawn

LEMMA SolverSteps ==
  ASSUME Random!SolverAssumption, SolverInv, [Random!Next]_(Random!solverVars)
  PROVE  SolverInv'
<1> DEFINE Rands == Random!Rands
<1>1. /\ vars_ \in RandVars /\ constraints \in Seq(Constraints)
      /\ vi \in 1 .. NumRand + 1 /\ phase \in {"build", "search", "solved"}
      /\ NumRand \in Nat
  BY DEF SolverInv, Random!SolverAssumption
<1>2. CASE UNCHANGED Random!solverVars
  BY <1>2 DEF Random!solverVars, SolverInv, RandVars, InRange, Random!CheckAll, Random!DirectSolutions,
              Random!Satisfied, Random!Evaluable, Random!Rhs, Random!Holds, Random!Rands
<1>3. CASE Random!SetRange
  <2>1. vars_' \in RandVars
    <3>1. PICK v \in Shaped, r \in Ranges :
            vars_' = [vars_ EXCEPT ![v].min = r[1], ![v].max = r[2], ![v].weighted = {}]
      BY <1>3 DEF Random!SetRange
    <3>2. v \in Random!Rands /\ r[1] \in Int /\ r[2] \in Int
      BY DEF Random!SolverAssumption
    <3>3. PICK lo \in Int, hi \in Int : lo = r[1] /\ hi = r[2]
      BY <3>2
    <3>4. vars_' = [vars_ EXCEPT ![v].min = lo, ![v].max = hi, ![v].weighted = {}]
      BY <3>1, <3>3
    <3> QED BY <1>1, <3>2, <3>4 DEF RandVars
  <2> QED BY <1>1, <1>3, <2>1 DEF Random!SetRange, SolverInv, Random!DirectSolutions
<1>4. CASE Random!SetWeight
  <2>1. vars_' \in RandVars
    <3>1. PICK v \in Shaped, w \in Nat : vars_' = [vars_ EXCEPT ![v].weighted = @ \cup {w}]
      <4>1. PICK v \in Shaped : \E w \in 0 .. vars_[v].max : vars_' = [vars_ EXCEPT ![v].weighted = @ \cup {w}]
        BY <1>4 DEF Random!SetWeight
      <4>2. vars_[v].max \in Int
        BY <1>1 DEF Random!SolverAssumption, RandVars
      <4>3. PICK m \in Int : m = vars_[v].max
        BY <4>2
      <4>4. PICK w \in 0 .. m : vars_' = [vars_ EXCEPT ![v].weighted = @ \cup {w}]
        BY <4>1, <4>3
      <4>5. w \in Nat
        BY <4>3
      <4> QED BY <4>4, <4>5
    <3>2. v \in Random!Rands
      BY DEF Random!SolverAssumption
    <3> QED BY <1>1, <3>1, <3>2 DEF RandVars
  <2> QED BY <1>1, <1>4, <2>1 DEF Random!SetWeight, SolverInv, Random!DirectSolutions
<1>5. CASE Random!AddConstraint
  <2>1. constraints' \in Seq(Constraints)
    BY <1>1, <1>5 DEF Random!AddConstraint
  <2> QED BY <1>1, <1>5, <2>1 DEF Random!AddConstraint, SolverInv, Random!DirectSolutions
<1>6. CASE Random!Solve
  <2>1. vars_' \in RandVars /\ \A v \in Rands : vars_'[v].solved = FALSE
    BY <1>1, <1>6 DEF Random!Solve, RandVars
  <2>2. constraints' = constraints /\ vi' = 1 /\ phase' = "search" /\ backtracked' = FALSE
    BY <1>6 DEF Random!Solve
  <2>3. \A n \in DOMAIN constraints : constraints[n].lhs \in Rands
    BY <1>1 DEF Random!SolverAssumption
  <2>4. Random!CheckAll(vars_)'
    BY <2>1, <2>2, <2>3 DEF Random!CheckAll, Random!Evaluable
  <2>5. \A v \in Rands : ~(v < 1)
    BY DEF Random!Rands
  <2> QED BY <1>1, <2>1, <2>2, <2>4, <2>5 DEF SolverInv, Random!DirectSolutions
<1>7. CASE Random!Assign
  <2>1. PICK x \in Random!Fits(vi) : vars_' = Random!Drawn(vi, x)
    BY <1>7 DEF Random!Assign
  <2>2. vi \in Rands /\ vi' = vi + 1 /\ phase = "search" /\ UNCHANGED <<constraints, phase, backtracked>>
    BY <1>7 DEF Random!Assign, Random!Searching
  <2>3. x \in Int /\ x \in vars_[vi].min .. vars_[vi].max /\ Random!CheckAll(Random!Drawn(vi, x))
    BY <2>1, <2>2, DrawnInRange DEF Random!Fits
  <2>4. PICK d : d = Random!Drawn(vi, x)
    OBVIOUS
  <2>5. /\ d \in RandVars /\ d[vi].value = x /\ d[vi].solved = TRUE
        /\ d[vi].min = vars_[vi].min /\ d[vi].max = vars_[vi].max
        /\ \A u \in Rands \ {vi} : d[u] = vars_[u]
    BY <1>1, <2>2, <2>3, <2>4, DrawnKeeps
  <2>6. vars_' = d
    BY <2>1, <2>4
  <2>7. Random!CheckAll(vars_)'
    BY <2>2, <2>3, <2>4, <2>6 DEF Random!CheckAll, Random!Evaluable, Random!Rhs, Random!Holds
  <2>8. \A v \in Rands : vars_'[v].solved => InRange(v)'
    BY <2>2, <2>3, <2>5, <2>6 DEF SolverInv, InRange
  <2>9. ~backtracked => \A v \in Rands : vars_'[v].solved <=> v < vi + 1
    BY <1>1, <2>2, <2>5, <2>6 DEF SolverInv, Random!Rands
  <2> QED BY <1>1, <2>2, <2>5, <2>6, <2>7, <2>8, <2>9 DEF SolverInv, Random!DirectSolutions, Random!Rands
<1>8. CASE Random!Backtrack
  <2>1. vi \in Rands /\ phase = "search" /\ UNCHANGED <<constraints, phase>> /\ backtracked' = TRUE
    BY <1>8 DEF Random!Backtrack, Random!Searching
  <2>2. PICK x \in Random!Misses(vi) :
          vars_' = [v \in Rands |-> IF v = vi THEN [vars_[v] EXCEPT !.value = x, !.solved = FALSE]
                                    ELSE [vars_[v] EXCEPT !.solved = @ /\ v > vi]]
    BY <1>8 DEF Random!Backtrack
  <2>3. x \in Int
    BY <2>1, <2>2, DrawnInRange DEF Random!Misses
  <2>4. vars_' \in RandVars
    BY <1>1, <2>2, <2>3 DEF RandVars
  <2>5. \A v \in Rands : vars_'[v].solved => InRange(v)'
    BY <1>1, <2>1, <2>2 DEF SolverInv, InRange, RandVars
  <2>6. vi' \in 1 .. NumRand + 1
    <3>1. vi' = IF vi = 1 THEN 1 ELSE vi - 1
      BY <1>8 DEF Random!Backtrack
    <3> QED BY <1>1, <3>1
  <2> QED BY <1>1, <2>1, <2>4, <2>5, <2>6 DEF SolverInv, Random!DirectSolutions
<1>9. CASE Random!Finish
  <2>1. phase = "search" /\ phase' = "solved" /\ UNCHANGED <<constraints, vi, backtracked>>
    BY <1>9 DEF Random!Finish
  <2>2. \A v \in Rands : vars_'[v] \in Random!Filled(v)
    BY <1>9 DEF Random!Finish
  <2>3. DOMAIN vars_' = Rands /\ vars_' = [v \in Rands |-> vars_'[v]]
    BY <1>9 DEF Random!Finish
  <2>4. ASSUME NEW v \in Rands
        PROVE  /\ vars_'[v] \in [min : Int, max : Int, weighted : SUBSET Nat, value : Int, solved : BOOLEAN]
               /\ vars_'[v].value \in vars_'[v].min .. vars_'[v].max
               /\ vars_[v].solved => vars_'[v] = vars_[v]
    <3>1. CASE vars_[v].solved
      BY <1>1, <2>1, <2>2, <3>1 DEF Random!Filled, SolverInv, InRange, RandVars
    <3>2. CASE ~vars_[v].solved
      <4>1. PICK x \in Random!Drawable(vars_[v]) : vars_'[v] = [vars_[v] EXCEPT !.value = x, !.solved = TRUE]
        BY <2>2, <3>2 DEF Random!Filled
      <4>2. x \in Int /\ x \in vars_[v].min .. vars_[v].max
        BY DrawnInRange
      <4> QED BY <1>1, <3>2, <4>1, <4>2 DEF RandVars
    <3> QED BY <3>1, <3>2
  <2>5. vars_' \in RandVars
    BY <2>3, <2>4 DEF RandVars
  <2>6. ASSUME ~backtracked, vi > NumRand PROVE Random!Satisfied'
    <3>1. \A v \in Rands : vars_[v].solved
      BY <1>1, <2>1, <2>6 DEF SolverInv, Random!Rands
    <3>2. vars_' = vars_
      BY <1>1, <2>3, <2>4, <3>1 DEF RandVars
    <3>3. \A n \in DOMAIN constraints : Random!Evaluable(constraints[n], vars_)
      BY <1>1, <3>1 DEF Random!SolverAssumption, Random!Evaluable
    <3>4. Random!CheckAll(vars_)
      BY <2>1, <2>6 DEF SolverInv
    <3> QED BY <2>1, <3>2, <3>3, <3>4 DEF Random!CheckAll, Random!Satisfied, Random!Rhs, Random!Holds
  <2>7. Random!DirectSolutions'
    BY <1>1, <2>1, <2>4, <2>6 DEF Random!DirectSolutions
  <2> QED BY <1>1, <2>1, <2>5, <2>7 DEF SolverInv
<1> QED BY <1>2, <1>3, <1>4, <1>5, <1>6, <1>7, <1>8, <1>9 DEF Random!Next

(* For every block of variables and constraints, all weights and any luck of  *)
(* the draw: a solve that never had to give up a value ends with every hard   *)
(* constraint satisfied, and any solve ends with every value in its range.    *)
THEOREM SolvesDirectly == Random!SolverAssumption => (Random!SolverSpec => []Random!DirectSolutions)
<1> SUFFICES ASSUME Random!SolverAssumption PROVE Random!SolverSpec => []Random!DirectSolutions
  OBVIOUS
<1>1. Random!Init => SolverInv
  BY SolverStarts
<1>2. SolverInv /\ [Random!Next]_(Random!solverVars) => SolverInv'
  BY SolverSteps
<1>3. SolverInv => Random!DirectSolutions
  BY DEF SolverInv
<1> QED BY <1>1, <1>2, <1>3, PTL DEF Random!SolverSpec

-----------------------------------------------------------------------------
(* A set of numbers that is not empty has a least one, and what holds of 0   *)
(* and of every successor holds of every number.                             *)
LEMMA LeastElement ==
  ASSUME NEW T \in SUBSET Nat, T # {}
  PROVE  \E m \in T : \A k \in T : m <= k
<1> DEFINE R == {ss \in Nat \X Nat : ss[1] < ss[2]}
<1>1. IsWellFoundedOn(R, Nat)
  BY NatLessThanWellFounded DEF OpToRel
<1> HIDE DEF R
<1>2. PICK m \in T : \A k \in T : ~ (<<k, m>> \in R)
  BY <1>1, WFMin
<1>3. ASSUME NEW k \in T PROVE m <= k
  <2>1. ~ (<<k, m>> \in R)
    BY <1>2
  <2>2. k \in Nat /\ m \in Nat
    OBVIOUS
  <2> QED BY <2>1, <2>2 DEF R
<1> QED BY <1>3

LEMMA Climb ==
  ASSUME NEW T \in SUBSET Nat, 0 \in T, \A n \in T : n + 1 \in T
  PROVE  \A n \in Nat : n \in T
<1> SUFFICES ASSUME Nat \ T # {} PROVE FALSE
  OBVIOUS
<1>1. PICK m \in Nat \ T : \A k \in Nat \ T : m <= k
  BY LeastElement
<1>2. m # 0 /\ m - 1 \in Nat
  BY <1>1
<1>3. m - 1 \in T
  BY <1>1, <1>2
<1>4. (m - 1) + 1 \in T
  BY <1>3
<1> QED BY <1>1, <1>4

-----------------------------------------------------------------------------
(* The search of the SAT solver: what a step of propagation may do, and what *)
(* it may not do to a model of the clauses.                                   *)
Values == {"TRUE", "FALSE", "UNASSIGNED"}
Typed(s, N) ==
  /\ DOMAIN s = {"assign", "level", "current", "conflict"}
  /\ s.assign \in [1 .. N -> Values] /\ s.level \in [1 .. N -> Nat]
  /\ s.current \in Nat /\ s.conflict \in BOOLEAN
Keeps(s, t, N) ==
  /\ t.current = s.current /\ (s.conflict => t.conflict)
  /\ \A v \in 1 .. N : s.assign[v] # "UNASSIGNED" => t.assign[v] = s.assign[v] /\ t.level[v] = s.level[v]
  /\ \A v \in 1 .. N : s.assign[v] = "UNASSIGNED" =>
       (t.assign[v] = "UNASSIGNED" /\ t.level[v] = s.level[v]) \/ t.level[v] = s.current
Assignments(N) == [1 .. N -> {"TRUE", "FALSE"}]
Meets(a, c) == \E l \in c : True(a, l)
Fits(a, s, N) == ~ s.conflict /\ \A v \in 1 .. N : s.assign[v] # "UNASSIGNED" => s.assign[v] = a[v]

LEMMA LiteralOf ==
  ASSUME NEW N \in Nat, NEW l \in Literals(N)
  PROVE  l \in Int /\ l # 0 /\ Var(l) \in 1 .. N
BY DEF Literals, Var

Assigns(s, t, v, w) == t = [s EXCEPT !.assign[v] = w, !.level[v] = s.current]

LEMMA SetOpen ==
  ASSUME NEW N \in Nat, NEW s, Typed(s, N), NEW v \in 1 .. N, s.assign[v] = "UNASSIGNED", NEW w \in {"TRUE", "FALSE"},
         NEW t, Assigns(s, t, v, w)
  PROVE  /\ Typed(t, N) /\ Keeps(s, t, N) /\ t.conflict = s.conflict
         /\ t.assign[v] = w /\ t.level[v] = s.current
         /\ \A u \in 1 .. N : u # v => t.assign[u] = s.assign[u] /\ t.level[u] = s.level[u]
<1>1. PICK a : a = [s.assign EXCEPT ![v] = w]
  OBVIOUS
<1>2. PICK d : d = [s.level EXCEPT ![v] = s.current]
  OBVIOUS
<1>3. t = [s EXCEPT !.assign = a, !.level = d]
  BY <1>1, <1>2 DEF Assigns
<1>4. /\ DOMAIN t = {"assign", "level", "current", "conflict"}
      /\ t.assign = a /\ t.level = d /\ t.current = s.current /\ t.conflict = s.conflict
  BY <1>3 DEF Typed
<1>5. a \in [1 .. N -> Values] /\ a[v] = w /\ \A u \in 1 .. N : u # v => a[u] = s.assign[u]
  BY <1>1 DEF Typed, Values
<1>6. d \in [1 .. N -> Nat] /\ d[v] = s.current /\ \A u \in 1 .. N : u # v => d[u] = s.level[u]
  BY <1>2 DEF Typed
<1>7. Typed(t, N)
  BY <1>4, <1>5, <1>6 DEF Typed
<1>8. Keeps(s, t, N)
  BY <1>4, <1>5, <1>6 DEF Keeps
<1> QED BY <1>4, <1>5, <1>6, <1>7, <1>8

LEMMA ScanSteps ==
  ASSUME NEW N \in Nat, NEW s, Typed(s, N), NEW c \in SUBSET Literals(N)
  PROVE  /\ Typed(Scan(s, c), N) /\ Keeps(s, Scan(s, c), N)
         /\ \A a \in Assignments(N) : Meets(a, c) /\ Fits(a, s, N) => Fits(a, Scan(s, c), N)
         /\ Scan(s, c) # s => Scan(s, c).conflict \/ \E v \in 1 .. N : s.assign[v] = "UNASSIGNED" /\ Scan(s, c).assign[v] # "UNASSIGNED"
         /\ Scan(s, c) = s /\ ~ s.conflict => Meets(s.assign, c) \/ \E v \in 1 .. N : s.assign[v] = "UNASSIGNED"
<1> DEFINE open == {l \in c : Open(s.assign, l)}
           t == Scan(s, c)
<1>0. \A l \in c : l \in Int /\ l # 0 /\ Var(l) \in 1 .. N
  BY LiteralOf
<1>1. ASSUME NEW a \in Assignments(N), Fits(a, s, N), NEW l \in c, True(a, l)
      PROVE  l \in open \/ True(s.assign, l)
  BY <1>0, <1>1 DEF Fits, True, Open
<1>2. CASE s.conflict \/ \E l \in c : True(s.assign, l)
  <2>1. t = s
    BY <1>2 DEF Scan
  <2>2. Keeps(s, s, N)
    BY DEF Keeps
  <2> HIDE DEF t
  <2>3. ~ s.conflict => Meets(s.assign, c)
    BY <1>2 DEF Meets
  <2> QED BY <2>1, <2>2, <2>3 DEF t
<1>3. CASE ~ (s.conflict \/ \E l \in c : True(s.assign, l)) /\ open = {}
  <2>1. t = [s EXCEPT !.conflict = TRUE]
    BY <1>3 DEF Scan
  <2> HIDE DEF t
  <2>2. Typed(t, N) /\ Keeps(s, t, N) /\ t.conflict
    BY <2>1 DEF Typed, Keeps
  <2>3. ASSUME NEW a \in Assignments(N), Meets(a, c), Fits(a, s, N) PROVE FALSE
    <3>1. PICK l \in c : True(a, l)
      BY <2>3 DEF Meets
    <3>2. l \in open \/ True(s.assign, l)
      BY <2>3, <3>1, <1>1
    <3> QED BY <1>3, <3>2
  <2>4. t # s
    BY <1>3, <2>2
  <2> QED BY <2>2, <2>3, <2>4 DEF t
<1>4. CASE ~ (s.conflict \/ \E l \in c : True(s.assign, l)) /\ \E l \in open : open = {l}
  <2>1. PICK l \in open : open = {l}
    BY <1>4
  <2>2. (CHOOSE x \in open : TRUE) = l
    BY <2>1
  <2>3. PICK w \in {"TRUE", "FALSE"} : w = IF l > 0 THEN "TRUE" ELSE "FALSE"
    OBVIOUS
  <2>4. PICK v \in 1 .. N : v = Var(l)
    BY <1>0, <2>1
  <2>5. Assigns(s, t, v, w)
    BY <1>4, <2>1, <2>2, <2>3, <2>4 DEF Scan, Assigns
  <2>6. s.assign[v] = "UNASSIGNED"
    BY <2>1, <2>4 DEF Open
  <2> HIDE DEF t
  <2>7. /\ Typed(t, N) /\ Keeps(s, t, N) /\ t.conflict = s.conflict
    BY <2>5, <2>6, SetOpen
  <2>8. t.assign[v] = w /\ \A u \in 1 .. N : u # v => t.assign[u] = s.assign[u]
    BY <2>5, <2>6, SetOpen
  <2>9. ASSUME NEW a \in Assignments(N), Meets(a, c), Fits(a, s, N) PROVE Fits(a, t, N)
    <3>1. PICK k \in c : True(a, k)
      BY <2>9 DEF Meets
    <3>2. k \in open
      BY <2>9, <3>1, <1>1, <1>4
    <3>3. k = l
      BY <2>1, <3>2
    <3>4. a[v] = w
      BY <2>3, <2>4, <3>1, <3>3 DEF True
    <3> QED BY <2>7, <2>8, <2>9, <3>4 DEF Fits
  <2>10. t # s
    BY <2>6, <2>8
  <2> QED BY <2>6, <2>7, <2>8, <2>9, <2>10 DEF t
<1>5. CASE ~ (s.conflict \/ \E l \in c : True(s.assign, l)) /\ open # {} /\ ~ \E l \in open : open = {l}
  <2>1. t = s
    BY <1>5 DEF Scan
  <2>2. Keeps(s, s, N)
    BY DEF Keeps
  <2>3. PICK l \in c : Open(s.assign, l)
    BY <1>5
  <2>4. Var(l) \in 1 .. N /\ s.assign[Var(l)] = "UNASSIGNED"
    BY <1>0, <2>3 DEF Open
  <2> HIDE DEF t
  <2> QED BY <2>1, <2>2, <2>4 DEF t
<1> QED BY <1>2, <1>3, <1>4, <1>5

LEMMA KeepsOn ==
  ASSUME NEW N \in Nat, NEW s, NEW t, NEW u, Keeps(s, t, N), Keeps(t, u, N)
  PROVE  Keeps(s, u, N)
BY DEF Keeps

(* upTo of Pass up to clause k, and after of Passes up to pass n.            *)
Scanned(f, k, s, cs) == IF k = 0 THEN s ELSE Scan(f[k - 1], cs[k])
Passed(f, n, s, cs) == IF n = 0 THEN s ELSE Pass(f[n - 1], cs)
Scans(f, k, s, cs) == f = [n \in 0 .. k |-> Scanned(f, n, s, cs)]
Repeats(f, k, s, cs) == f = [n \in 0 .. k |-> Passed(f, n, s, cs)]

LEMMA ScansExist ==
  ASSUME NEW s, NEW cs
  PROVE  \A k \in Nat : \E f : Scans(f, k, s, cs)
<1> DEFINE T == {k \in Nat : \E f : Scans(f, k, s, cs)}
<1>1. 0 \in T
  <2> DEFINE f == [n \in 0 .. 0 |-> s]
  <2>1. Scans(f, 0, s, cs)
    BY DEF Scanned, Scans
  <2> QED BY <2>1
<1>2. ASSUME NEW k \in T PROVE k + 1 \in T
  <2>1. PICK g : Scans(g, k, s, cs)
    OBVIOUS
  <2>2. k \in Nat
    OBVIOUS
  <2> DEFINE f == [n \in 0 .. k + 1 |-> IF n = k + 1 THEN Scanned(g, k + 1, s, cs) ELSE g[n]]
  <2>3. \A n \in 0 .. k : g[n] = Scanned(g, n, s, cs)
    BY <2>1, Zenon DEF Scans
  <2>4. ASSUME NEW n \in 0 .. k + 1 PROVE f[n] = Scanned(f, n, s, cs)
    <3>1. f[n] = Scanned(g, n, s, cs)
      <4>1. CASE n = k + 1
        BY <4>1
      <4>2. CASE n # k + 1
        <5>1. n \in 0 .. k
          BY <2>2, <4>2
        <5> QED BY <2>3, <4>2, <5>1
      <4> QED BY <4>1, <4>2
    <3>2. CASE n = 0
      BY <3>1, <3>2 DEF Scanned
    <3>3. CASE n # 0
      <4>1. n - 1 \in 0 .. k + 1 /\ n - 1 # k + 1
        BY <2>2, <3>3
      <4>2. f[n - 1] = g[n - 1]
        BY <4>1
      <4> QED BY <3>1, <3>3, <4>2 DEF Scanned
    <3> QED BY <3>2, <3>3
  <2>5. Scans(f, k + 1, s, cs)
    BY <2>4 DEF Scans
  <2>6. \E h : Scans(h, k + 1, s, cs)
    BY <2>5
  <2> QED BY <2>2, <2>6
<1> HIDE DEF T
<1>3. \A k \in Nat : k \in T
  <2>1. T \in SUBSET Nat
    BY DEF T
  <2> QED BY <1>1, <1>2, <2>1, Climb
<1> QED BY <1>3 DEF T

ScansFrom(f, s, cs) == f[0] = s /\ \A k \in 1 .. Len(cs) : f[k] = Scan(f[k - 1], cs[k])

LEMMA PassUnfolds ==
  ASSUME NEW s, NEW cs, Len(cs) \in Nat
  PROVE  \E f : Pass(s, cs) = f[Len(cs)] /\ ScansFrom(f, s, cs)
<1> DEFINE g == CHOOSE h : Scans(h, Len(cs), s, cs)
<1>1. \E h : Scans(h, Len(cs), s, cs)
  BY ScansExist
<1>2. g = [n \in 0 .. Len(cs) |-> Scanned(g, n, s, cs)]
  BY <1>1, Zenon DEF Scans
<1>3. Pass(s, cs) = g[Len(cs)]
  BY Zenon DEF Pass, Scanned, Scans
<1> HIDE DEF g
<1>4. \A n \in 0 .. Len(cs) : g[n] = Scanned(g, n, s, cs)
  BY <1>2, Zenon
<1>5. g[0] = s
  BY <1>4 DEF Scanned
<1>6. ASSUME NEW k \in 1 .. Len(cs) PROVE g[k] = Scan(g[k - 1], cs[k])
  <2>1. k \in 0 .. Len(cs) /\ k # 0
    OBVIOUS
  <2> QED BY <1>4, <2>1 DEF Scanned
<1> QED BY <1>3, <1>5, <1>6 DEF ScansFrom

LEMMA PassesExist ==
  ASSUME NEW s, NEW cs
  PROVE  \A k \in Nat : \E f : Repeats(f, k, s, cs)
<1> DEFINE T == {k \in Nat : \E f : Repeats(f, k, s, cs)}
<1>1. 0 \in T
  <2> DEFINE f == [n \in 0 .. 0 |-> s]
  <2>1. Repeats(f, 0, s, cs)
    BY DEF Passed, Repeats
  <2> QED BY <2>1
<1>2. ASSUME NEW k \in T PROVE k + 1 \in T
  <2>1. PICK g : Repeats(g, k, s, cs)
    OBVIOUS
  <2>2. k \in Nat
    OBVIOUS
  <2> DEFINE f == [n \in 0 .. k + 1 |-> IF n = k + 1 THEN Passed(g, k + 1, s, cs) ELSE g[n]]
  <2>3. \A n \in 0 .. k : g[n] = Passed(g, n, s, cs)
    BY <2>1, Zenon DEF Repeats
  <2>4. ASSUME NEW n \in 0 .. k + 1 PROVE f[n] = Passed(f, n, s, cs)
    <3>1. f[n] = Passed(g, n, s, cs)
      <4>1. CASE n = k + 1
        BY <4>1
      <4>2. CASE n # k + 1
        <5>1. n \in 0 .. k
          BY <2>2, <4>2
        <5> QED BY <2>3, <4>2, <5>1
      <4> QED BY <4>1, <4>2
    <3>2. CASE n = 0
      BY <3>1, <3>2 DEF Passed
    <3>3. CASE n # 0
      <4>1. n - 1 \in 0 .. k + 1 /\ n - 1 # k + 1
        BY <2>2, <3>3
      <4>2. f[n - 1] = g[n - 1]
        BY <4>1
      <4> QED BY <3>1, <3>3, <4>2 DEF Passed
    <3> QED BY <3>2, <3>3
  <2>5. Repeats(f, k + 1, s, cs)
    BY <2>4 DEF Repeats
  <2>6. \E h : Repeats(h, k + 1, s, cs)
    BY <2>5
  <2> QED BY <2>2, <2>6
<1> HIDE DEF T
<1>3. \A k \in Nat : k \in T
  <2>1. T \in SUBSET Nat
    BY DEF T
  <2> QED BY <1>1, <1>2, <2>1, Climb
<1> QED BY <1>3 DEF T

LEMMA PassesUnfolds ==
  ASSUME NEW s, NEW cs, NEW most \in Nat
  PROVE  \E f : /\ Passes(s, cs, most) = f[most] /\ f[0] = s
                /\ \A n \in 1 .. most : f[n] = Pass(f[n - 1], cs)
<1> DEFINE g == CHOOSE h : Repeats(h, most, s, cs)
<1>1. \E h : Repeats(h, most, s, cs)
  BY PassesExist
<1>2. g = [n \in 0 .. most |-> Passed(g, n, s, cs)]
  BY <1>1, Zenon DEF Repeats
<1>3. Passes(s, cs, most) = g[most]
  BY Zenon DEF Passes, Passed, Repeats
<1> HIDE DEF g
<1>4. \A n \in 0 .. most : g[n] = Passed(g, n, s, cs)
  BY <1>2, Zenon
<1>5. g[0] = s
  BY <1>4 DEF Passed
<1>6. ASSUME NEW n \in 1 .. most PROVE g[n] = Pass(g[n - 1], cs)
  <2>1. n \in 0 .. most /\ n # 0
    OBVIOUS
  <2> QED BY <1>4, <2>1 DEF Passed
<1> QED BY <1>3, <1>5, <1>6

-----------------------------------------------------------------------------
(* What a whole pass keeps of its start s.  Without a conflict it has either *)
(* given some variable a value, or changed nothing; and then every clause    *)
(* has a true literal or some variable is open.                              *)
AllMet(a, cs) == \A k \in 1 .. Len(cs) : Meets(a, cs[k])
SomeOpen(s, N) == \E v \in 1 .. N : s.assign[v] = "UNASSIGNED"
Gained(s, t, N) == \E v \in 1 .. N : s.assign[v] = "UNASSIGNED" /\ t.assign[v] # "UNASSIGNED"
Follow(s, t, cs, N) ==
  /\ Typed(t, N) /\ Keeps(s, t, N)
  /\ \A a \in Assignments(N) : AllMet(a, cs) /\ Fits(a, s, N) => Fits(a, t, N)
MetUpTo(s, cs, k, N) == SomeOpen(s, N) \/ \A j \in 1 .. k : Meets(s.assign, cs[j])

LEMMA GainedOn ==
  ASSUME NEW N \in Nat, NEW s, NEW t, NEW u, Gained(s, t, N), Keeps(t, u, N)
  PROVE  Gained(s, u, N)
BY DEF Gained, Keeps

LEMMA PassSteps ==
  ASSUME NEW N \in Nat, NEW s, Typed(s, N), NEW cs \in Seq(SUBSET Literals(N))
  PROVE  /\ Follow(s, Pass(s, cs), cs, N)
         /\ ~ Pass(s, cs).conflict =>
              \/ Gained(s, Pass(s, cs), N)
              \/ Pass(s, cs) = s /\ MetUpTo(s, cs, Len(cs), N)
<1>0. Len(cs) \in Nat
  OBVIOUS
<1>10. PICK f : Pass(s, cs) = f[Len(cs)] /\ ScansFrom(f, s, cs)
  BY <1>0, PassUnfolds
<1>1. /\ Pass(s, cs) = f[Len(cs)] /\ f[0] = s
      /\ \A k \in 1 .. Len(cs) : f[k] = Scan(f[k - 1], cs[k])
  BY <1>10 DEF ScansFrom
<1> DEFINE Done(k) == /\ Follow(s, f[k], cs, N)
                      /\ ~ f[k].conflict => Gained(s, f[k], N) \/ (f[k] = s /\ MetUpTo(s, cs, k, N))
           T == {k \in Nat : k <= Len(cs) => Done(k)}
<1>2. 0 \in T
  <2>1. Keeps(s, s, N)
    BY DEF Keeps
  <2>2. Follow(s, f[0], cs, N)
    BY <1>1, <2>1 DEF Follow
  <2>3. MetUpTo(s, cs, 0, N)
    BY DEF MetUpTo
  <2> QED BY <1>1, <2>2, <2>3
<1>3. ASSUME NEW k \in T PROVE k + 1 \in T
  <2> SUFFICES ASSUME k + 1 <= Len(cs) PROVE Done(k + 1)
    OBVIOUS
  <2>1. k \in Nat /\ k + 1 \in 1 .. Len(cs) /\ (k + 1) - 1 = k
    BY <1>0
  <2>2. Done(k)
    BY <1>0, <2>1
  <2>3. PICK p : p = f[k]
    OBVIOUS
  <2>4. PICK q : q = f[k + 1]
    OBVIOUS
  <2>5. PICK c \in SUBSET Literals(N) : c = cs[k + 1]
    BY <2>1
  <2>6. q = Scan(p, c)
    BY <1>1, <2>1, <2>3, <2>4, <2>5
  <2>7. Follow(s, p, cs, N) /\ (~ p.conflict => Gained(s, p, N) \/ (p = s /\ MetUpTo(s, cs, k, N)))
    BY <2>2, <2>3
  <2> HIDE DEF Done
  <2>8. Typed(p, N) /\ Keeps(s, p, N) /\ \A a \in Assignments(N) : AllMet(a, cs) /\ Fits(a, s, N) => Fits(a, p, N)
    BY <2>7 DEF Follow
  <2>9. Typed(q, N) /\ Keeps(p, q, N)
    BY <2>6, <2>8, ScanSteps
  <2>10. \A a \in Assignments(N) : Meets(a, c) /\ Fits(a, p, N) => Fits(a, q, N)
    BY <2>6, <2>8, ScanSteps, Zenon
  <2>11. q # p => q.conflict \/ \E v \in 1 .. N : p.assign[v] = "UNASSIGNED" /\ q.assign[v] # "UNASSIGNED"
    <3>1. Scan(p, c) # p => Scan(p, c).conflict
                             \/ \E v \in 1 .. N : p.assign[v] = "UNASSIGNED" /\ Scan(p, c).assign[v] # "UNASSIGNED"
      BY <2>8, ScanSteps
    <3> QED BY <2>6, <3>1
  <2>12. q = p /\ ~ p.conflict => Meets(p.assign, c) \/ \E v \in 1 .. N : p.assign[v] = "UNASSIGNED"
    BY <2>6, <2>8, ScanSteps, Zenon
  <2>13. Keeps(s, q, N)
    BY <2>8, <2>9, KeepsOn
  <2>14. ASSUME NEW a \in Assignments(N), AllMet(a, cs), Fits(a, s, N) PROVE Fits(a, q, N)
    <3>1. Meets(a, c)
      BY <2>1, <2>5, <2>14 DEF AllMet
    <3> QED BY <2>8, <2>10, <2>14, <3>1
  <2>15. Follow(s, q, cs, N)
    BY <2>9, <2>13, <2>14 DEF Follow
  <2>16. ASSUME ~ q.conflict PROVE Gained(s, q, N) \/ (q = s /\ MetUpTo(s, cs, k + 1, N))
    <3>1. ~ p.conflict
      BY <2>9, <2>16 DEF Keeps, Typed
    <3>2. CASE Gained(s, p, N)
      BY <2>9, <3>2, GainedOn
    <3>3. CASE p = s /\ MetUpTo(s, cs, k, N) /\ q # p
      BY <2>11, <2>16, <3>3 DEF Gained
    <3>4. CASE p = s /\ MetUpTo(s, cs, k, N) /\ q = p
      <4>1. Meets(s.assign, c) \/ SomeOpen(s, N)
        BY <2>12, <3>1, <3>4 DEF SomeOpen
      <4>2. MetUpTo(s, cs, k + 1, N)
        <5>1. CASE SomeOpen(s, N)
          BY <5>1 DEF MetUpTo
        <5>2. CASE ~ SomeOpen(s, N)
          <6>1. \A j \in 1 .. k + 1 : j = k + 1 \/ j \in 1 .. k
            BY <2>1
          <6> QED BY <2>5, <3>4, <4>1, <5>2, <6>1 DEF MetUpTo
        <5> QED BY <5>1, <5>2
      <4> QED BY <3>4, <4>2
    <3> QED BY <2>7, <3>1, <3>2, <3>3, <3>4
  <2> QED BY <2>4, <2>15, <2>16 DEF Done
<1> HIDE DEF T
<1>4. \A k \in Nat : k \in T
  <2>1. T \in SUBSET Nat
    BY DEF T
  <2> QED BY <1>2, <1>3, <2>1, Climb
<1>5. Len(cs) \in T
  BY <1>0, <1>4
<1>6. Done(Len(cs))
  BY <1>0, <1>5 DEF T
<1> QED BY <1>1, <1>6

-----------------------------------------------------------------------------
(* The passes, repeated: after n of them at least n variables have a value,  *)
(* or there was a conflict, or a pass has changed nothing.                   *)
Opens(s, N) == {v \in 1 .. N : s.assign[v] = "UNASSIGNED"}
Quiet(s, cs, N) == Pass(s, cs) = s /\ MetUpTo(s, cs, Len(cs), N)

LEMMA OpensFinite ==
  ASSUME NEW N \in Nat, NEW s
  PROVE  IsFiniteSet(Opens(s, N)) /\ Cardinality(Opens(s, N)) \in 0 .. N
<1>1. IsFiniteSet(1 .. N) /\ Cardinality(1 .. N) = N
  BY FS_Interval
<1>2. Opens(s, N) \in SUBSET (1 .. N)
  BY DEF Opens
<1>3. IsFiniteSet(Opens(s, N)) /\ Cardinality(Opens(s, N)) <= Cardinality(1 .. N)
  BY <1>1, <1>2, FS_Subset
<1>4. Cardinality(Opens(s, N)) \in Nat
  BY <1>3, FS_CardinalityType
<1> QED BY <1>1, <1>3, <1>4

LEMMA FewerOpen ==
  ASSUME NEW N \in Nat, NEW s, NEW t, Keeps(s, t, N), Gained(s, t, N)
  PROVE  Cardinality(Opens(t, N)) < Cardinality(Opens(s, N))
<1>1. Opens(t, N) \in SUBSET Opens(s, N)
  BY DEF Opens, Keeps
<1>2. Opens(t, N) # Opens(s, N)
  BY DEF Gained, Opens
<1>3. Cardinality(Opens(t, N)) <= Cardinality(Opens(s, N))
      /\ (Cardinality(Opens(t, N)) = Cardinality(Opens(s, N)) => Opens(t, N) = Opens(s, N))
  BY <1>1, OpensFinite, FS_Subset
<1>4. Cardinality(Opens(t, N)) \in Int /\ Cardinality(Opens(s, N)) \in Int
  BY OpensFinite
<1> QED BY <1>2, <1>3, <1>4

LEMMA PassesSteps ==
  ASSUME NEW N \in Nat, NEW s, Typed(s, N), NEW cs \in Seq(SUBSET Literals(N))
  PROVE  /\ Follow(s, Passes(s, cs, N + 1), cs, N)
         /\ LET t == Passes(s, cs, N + 1) IN ~ t.conflict => MetUpTo(t, cs, Len(cs), N)
<1>1. PICK f : /\ Passes(s, cs, N + 1) = f[N + 1] /\ f[0] = s
               /\ \A n \in 1 .. N + 1 : f[n] = Pass(f[n - 1], cs)
  BY PassesUnfolds
<1> DEFINE Done(n) == /\ Follow(s, f[n], cs, N)
                      /\ ~ f[n].conflict => Quiet(f[n], cs, N) \/ Cardinality(Opens(f[n], N)) <= N - n
           T == {n \in Nat : n <= N + 1 => Done(n)}
<1>2. 0 \in T
  <2>1. Keeps(s, s, N)
    BY DEF Keeps
  <2>2. Follow(s, f[0], cs, N)
    BY <1>1, <2>1 DEF Follow
  <2>3. Cardinality(Opens(s, N)) <= N - 0
    BY OpensFinite
  <2> QED BY <1>1, <2>2, <2>3
<1>3. ASSUME NEW n \in T PROVE n + 1 \in T
  <2> SUFFICES ASSUME n + 1 <= N + 1 PROVE Done(n + 1)
    OBVIOUS
  <2>1. n \in Nat /\ n + 1 \in 1 .. N + 1 /\ (n + 1) - 1 = n
    OBVIOUS
  <2>2. Done(n)
    BY <2>1
  <2>3. PICK p : p = f[n]
    OBVIOUS
  <2>4. PICK q : q = f[n + 1]
    OBVIOUS
  <2>5. q = Pass(p, cs)
    BY <1>1, <2>1, <2>3, <2>4
  <2>6. Follow(s, p, cs, N) /\ (~ p.conflict => Quiet(p, cs, N) \/ Cardinality(Opens(p, N)) <= N - n)
    BY <2>2, <2>3
  <2> HIDE DEF Done
  <2>7. Typed(p, N) /\ Keeps(s, p, N) /\ \A a \in Assignments(N) : AllMet(a, cs) /\ Fits(a, s, N) => Fits(a, p, N)
    BY <2>6 DEF Follow
  <2>8. Follow(p, q, cs, N)
    BY <2>5, <2>7, PassSteps
  <2>9. ~ q.conflict => Gained(p, q, N) \/ (q = p /\ MetUpTo(p, cs, Len(cs), N))
    BY <2>5, <2>7, PassSteps
  <2>10. Typed(q, N) /\ Keeps(p, q, N) /\ \A a \in Assignments(N) : AllMet(a, cs) /\ Fits(a, p, N) => Fits(a, q, N)
    BY <2>8 DEF Follow
  <2>11. Keeps(s, q, N)
    BY <2>7, <2>10, KeepsOn
  <2>12. Follow(s, q, cs, N)
    BY <2>7, <2>10, <2>11 DEF Follow
  <2>13. ASSUME ~ q.conflict PROVE Quiet(q, cs, N) \/ Cardinality(Opens(q, N)) <= N - (n + 1)
    <3>1. ~ p.conflict
      BY <2>10, <2>13 DEF Keeps, Typed
    <3>2. CASE q = p /\ MetUpTo(p, cs, Len(cs), N)
      BY <2>5, <3>2 DEF Quiet
    <3>3. CASE Gained(p, q, N) /\ Quiet(p, cs, N)
      <4>1. q = p /\ MetUpTo(p, cs, Len(cs), N)
        BY <2>5, <3>3 DEF Quiet
      <4> QED BY <2>5, <4>1 DEF Quiet
    <3>4. CASE Gained(p, q, N) /\ Cardinality(Opens(p, N)) <= N - n
      <4>1. Cardinality(Opens(q, N)) < Cardinality(Opens(p, N))
        BY <2>10, <3>4, FewerOpen
      <4>2. Cardinality(Opens(q, N)) \in Int /\ Cardinality(Opens(p, N)) \in Int
        BY OpensFinite
      <4> QED BY <2>1, <3>4, <4>1, <4>2
    <3> QED BY <2>6, <2>9, <2>13, <3>1, <3>2, <3>3, <3>4
  <2> QED BY <2>4, <2>12, <2>13 DEF Done
<1> HIDE DEF T
<1>4. \A n \in Nat : n \in T
  <2>1. T \in SUBSET Nat
    BY DEF T
  <2> QED BY <1>2, <1>3, <2>1, Climb
<1>5. Done(N + 1)
  <2>1. N + 1 \in T
    BY <1>4
  <2> QED BY <2>1 DEF T
<1>6. PICK t : t = f[N + 1]
  OBVIOUS
<1>7. Follow(s, t, cs, N) /\ (~ t.conflict => Quiet(t, cs, N) \/ Cardinality(Opens(t, N)) <= N - (N + 1))
  BY <1>5, <1>6
<1>8. ~ (Cardinality(Opens(t, N)) <= N - (N + 1))
  BY OpensFinite
<1>9. ~ t.conflict => MetUpTo(t, cs, Len(cs), N)
  BY <1>7, <1>8 DEF Quiet
<1> HIDE DEF Done
<1> QED BY <1>1, <1>6, <1>7, <1>9

(* A whole propagation, of N variables under the clauses cs.                 *)
ModelsOf(cs, N) == {a \in Assignments(N) : AllMet(a, cs)}
Ruled(s, cs, N) == Passes(s, cs, N + 1)

LEMMA RuledSteps ==
  ASSUME NEW N \in Nat, NEW s, Typed(s, N), NEW cs \in Seq(SUBSET Literals(N)), NEW t, t = Ruled(s, cs, N)
  PROVE  /\ Typed(t, N) /\ Keeps(s, t, N)
         /\ \A a \in ModelsOf(cs, N) : Fits(a, s, N) => Fits(a, t, N)
         /\ ~ t.conflict => SomeOpen(t, N) \/ t.assign \in ModelsOf(cs, N)
<1>1. Follow(s, t, cs, N) /\ (~ t.conflict => MetUpTo(t, cs, Len(cs), N))
  BY PassesSteps DEF Ruled
<1>2. Typed(t, N) /\ Keeps(s, t, N) /\ \A a \in ModelsOf(cs, N) : Fits(a, s, N) => Fits(a, t, N)
  BY <1>1 DEF Follow, ModelsOf
<1>3. ASSUME ~ t.conflict, ~ SomeOpen(t, N) PROVE t.assign \in ModelsOf(cs, N)
  <2>1. t.assign \in [1 .. N -> Values] /\ \A v \in 1 .. N : t.assign[v] # "UNASSIGNED"
    BY <1>2, <1>3 DEF Typed, SomeOpen
  <2>2. t.assign \in Assignments(N)
    BY <2>1 DEF Values, Assignments
  <2>3. AllMet(t.assign, cs)
    BY <1>1, <1>3 DEF MetUpTo, AllMet
  <2> QED BY <2>2, <2>3 DEF ModelsOf
<1> QED BY <1>2, <1>3

-----------------------------------------------------------------------------
(* A search s that has grown from the root r: no level is above the current  *)
(* one, and what level 0 holds is exactly what the root gave.                *)
Sound(s, r, N) ==
  /\ Typed(s, N)
  /\ \A v \in 1 .. N : s.assign[v] # "UNASSIGNED" => s.level[v] <= s.current
  /\ \A v \in 1 .. N : r.assign[v] # "UNASSIGNED" => s.assign[v] = r.assign[v] /\ s.level[v] = 0
  /\ \A v \in 1 .. N : s.assign[v] # "UNASSIGNED" /\ s.level[v] = 0 => r.assign[v] # "UNASSIGNED"

LEMMA SearchSound ==
  ASSUME NEW N \in Nat, NEW r, NEW s, Sound(s, r, N), NEW c \in Nat, s.current <= c,
         NEW t, t = Search(s.assign, s.level, c)
  PROVE  Sound(t, r, N) /\ t.assign = s.assign /\ t.level = s.level /\ t.current = c /\ ~ t.conflict
<1>1. /\ DOMAIN t = {"assign", "level", "current", "conflict"} /\ t.assign = s.assign
      /\ t.level = s.level /\ t.current = c /\ t.conflict = FALSE
  BY DEF Search
<1>2. Typed(t, N)
  BY <1>1 DEF Typed, Sound
<1>3. Sound(t, r, N)
  BY <1>1, <1>2 DEF Sound, Typed
<1> QED BY <1>1, <1>3

LEMMA GivenSound ==
  ASSUME NEW N \in Nat, NEW r, NEW s, Sound(s, r, N), s.current # 0,
         NEW v \in 1 .. N, s.assign[v] = "UNASSIGNED", NEW w \in {"TRUE", "FALSE"}, NEW t, t = Given(s, v, w)
  PROVE  /\ Sound(t, r, N) /\ Keeps(s, t, N) /\ t.conflict = s.conflict /\ t.current = s.current
         /\ t.assign[v] = w /\ t.level[v] = s.current
         /\ \A u \in 1 .. N : u # v => t.assign[u] = s.assign[u] /\ t.level[u] = s.level[u]
<1>1. Assigns(s, t, v, w)
  BY DEF Assigns, Given
<1>2. Typed(s, N)
  BY DEF Sound
<1>3. Typed(t, N) /\ Keeps(s, t, N) /\ t.conflict = s.conflict
  BY <1>1, <1>2, SetOpen
<1>4. t.assign[v] = w /\ t.level[v] = s.current
  BY <1>1, <1>2, SetOpen
<1>5. \A u \in 1 .. N : u # v => t.assign[u] = s.assign[u] /\ t.level[u] = s.level[u]
  BY <1>1, <1>2, SetOpen
<1>6. t.current = s.current
  BY <1>3 DEF Keeps
<1>7. r.assign[v] = "UNASSIGNED"
  BY DEF Sound
<1>8. ASSUME NEW u \in 1 .. N
      PROVE  /\ t.assign[u] # "UNASSIGNED" => t.level[u] <= t.current
             /\ r.assign[u] # "UNASSIGNED" => t.assign[u] = r.assign[u] /\ t.level[u] = 0
             /\ t.assign[u] # "UNASSIGNED" /\ t.level[u] = 0 => r.assign[u] # "UNASSIGNED"
  <2>1. CASE u = v
    BY <1>2, <1>4, <1>6, <1>7, <2>1 DEF Typed
  <2>2. CASE u # v
    <3>1. /\ s.assign[u] # "UNASSIGNED" => s.level[u] <= s.current
          /\ r.assign[u] # "UNASSIGNED" => s.assign[u] = r.assign[u] /\ s.level[u] = 0
          /\ s.assign[u] # "UNASSIGNED" /\ s.level[u] = 0 => r.assign[u] # "UNASSIGNED"
      BY DEF Sound
    <3> QED BY <1>5, <1>6, <2>2, <3>1
  <2> QED BY <2>1, <2>2
<1>9. Sound(t, r, N)
  BY <1>3, <1>8 DEF Sound
<1> QED BY <1>3, <1>4, <1>5, <1>6, <1>9

LEMMA KeepsSound ==
  ASSUME NEW N \in Nat, NEW r, NEW s, Sound(s, r, N), s.current # 0,
         NEW t, Typed(t, N), Keeps(s, t, N)
  PROVE  Sound(t, r, N)
<1>1. t.current = s.current /\ s.current \in Nat
  BY DEF Keeps, Sound, Typed
<1>2. ASSUME NEW v \in 1 .. N, t.assign[v] # "UNASSIGNED" PROVE t.level[v] <= t.current
  BY <1>1, <1>2 DEF Keeps, Sound, Typed
<1>3. ASSUME NEW v \in 1 .. N, r.assign[v] # "UNASSIGNED" PROVE t.assign[v] = r.assign[v] /\ t.level[v] = 0
  <2>1. r.assign[v] # "UNASSIGNED" /\ s.assign[v] = r.assign[v] /\ s.level[v] = 0
    BY <1>3 DEF Sound
  <2> QED BY <2>1 DEF Keeps
<1>4. ASSUME NEW v \in 1 .. N, t.assign[v] # "UNASSIGNED", t.level[v] = 0 PROVE r.assign[v] # "UNASSIGNED"
  <2>1. s.assign[v] # "UNASSIGNED"
    BY <1>4 DEF Keeps
  <2>2. s.level[v] = 0
    BY <1>4, <2>1 DEF Keeps
  <2> QED BY <2>1, <2>2 DEF Sound
<1> QED BY <1>2, <1>3, <1>4 DEF Sound

LEMMA UndoneSound ==
  ASSUME NEW N \in Nat, NEW r, NEW s, Sound(s, r, N), s.current # 0, NEW t, t = Undone(s, s.current)
  PROVE  /\ Sound(t, r, N) /\ t.current = s.current - 1 /\ ~ t.conflict
         /\ \A v \in 1 .. N : t.assign[v] = IF s.level[v] = s.current THEN "UNASSIGNED" ELSE s.assign[v]
<1>1. Typed(s, N) /\ s.current \in Nat \ {0}
  BY DEF Sound, Typed
<1>2. PICK a : a = [v \in DOMAIN s.assign |-> IF s.level[v] = s.current THEN "UNASSIGNED" ELSE s.assign[v]]
  OBVIOUS
<1>3. PICK d : d = [v \in DOMAIN s.level |-> IF s.level[v] = s.current THEN 0 ELSE s.level[v]]
  OBVIOUS
<1>4. t = [s EXCEPT !.assign = a, !.level = d, !.current = s.current - 1, !.conflict = FALSE]
  BY <1>2, <1>3 DEF Undone
<1>5. /\ DOMAIN t = {"assign", "level", "current", "conflict"}
      /\ t.assign = a /\ t.level = d /\ t.current = s.current - 1 /\ t.conflict = FALSE
  BY <1>1, <1>4 DEF Typed
<1>6. /\ a \in [1 .. N -> Values]
      /\ \A v \in 1 .. N : a[v] = IF s.level[v] = s.current THEN "UNASSIGNED" ELSE s.assign[v]
  BY <1>1, <1>2 DEF Typed, Values
<1>7. /\ d \in [1 .. N -> Nat]
      /\ \A v \in 1 .. N : d[v] = IF s.level[v] = s.current THEN 0 ELSE s.level[v]
  BY <1>1, <1>3 DEF Typed
<1>8. Typed(t, N)
  <2>1. s.current - 1 \in Nat
    BY <1>1
  <2>2. t.assign \in [1 .. N -> Values] /\ t.level \in [1 .. N -> Nat]
    BY <1>5, <1>6, <1>7
  <2> QED BY <1>5, <2>1, <2>2 DEF Typed
<1>9. ASSUME NEW v \in 1 .. N, t.assign[v] # "UNASSIGNED"
      PROVE  /\ s.assign[v] = t.assign[v] /\ t.level[v] = s.level[v] /\ t.level[v] <= t.current
             /\ t.level[v] = 0 => r.assign[v] # "UNASSIGNED"
  <2>1. s.level[v] # s.current /\ s.assign[v] = t.assign[v] /\ t.level[v] = s.level[v]
    BY <1>5, <1>6, <1>7, <1>9
  <2>2. s.level[v] <= s.current /\ s.level[v] \in Nat
    BY <1>1, <1>9, <2>1 DEF Sound, Typed
  <2>3. s.level[v] = 0 => r.assign[v] # "UNASSIGNED"
    BY <1>9, <2>1 DEF Sound
  <2> QED BY <1>1, <1>5, <2>1, <2>2, <2>3
<1>10. ASSUME NEW v \in 1 .. N, r.assign[v] # "UNASSIGNED" PROVE t.assign[v] = r.assign[v] /\ t.level[v] = 0
  <2>1. s.assign[v] = r.assign[v] /\ s.level[v] = 0
    BY <1>10 DEF Sound
  <2> QED BY <1>1, <1>5, <1>6, <1>7, <2>1
<1>11. Sound(t, r, N)
  BY <1>8, <1>9, <1>10 DEF Sound
<1> QED BY <1>5, <1>6, <1>11

-----------------------------------------------------------------------------
(* RootOf is what propagation alone makes of the clauses.  A search that     *)
(* goes on has grown from it and has something open, unless it is a model.   *)
RootOf(cs, N) == Ruled(Search([v \in 1 .. N |-> "UNASSIGNED"], [v \in 1 .. N |-> 0], 0), cs, N)
Searching(s, cs, N) ==
  /\ Sound(s, RootOf(cs, N), N) /\ ~ RootOf(cs, N).conflict
  /\ SomeOpen(s, N) \/ s.assign \in ModelsOf(cs, N)

LEMMA SearchStarts ==
  ASSUME NEW N \in Nat, NEW cs \in Seq(SUBSET Literals(N))
  PROVE  /\ Typed(RootOf(cs, N), N)
         /\ RootOf(cs, N).conflict => ModelsOf(cs, N) = {}
         /\ \A a \in ModelsOf(cs, N) : Fits(a, RootOf(cs, N), N)
         /\ ~ RootOf(cs, N).conflict => Searching(RootOf(cs, N), cs, N)
<1> DEFINE s == Search([v \in 1 .. N |-> "UNASSIGNED"], [v \in 1 .. N |-> 0], 0)
<1>1. /\ DOMAIN s = {"assign", "level", "current", "conflict"} /\ s.current = 0 /\ s.conflict = FALSE
      /\ s.assign = [v \in 1 .. N |-> "UNASSIGNED"] /\ s.level = [v \in 1 .. N |-> 0]
  BY DEF Search
<1>2. PICK r : r = RootOf(cs, N)
  OBVIOUS
<1>3. r = Ruled(s, cs, N)
  BY <1>2 DEF RootOf
<1> HIDE DEF s
<1>4. /\ s.assign \in [1 .. N -> Values] /\ s.level \in [1 .. N -> Nat]
      /\ \A v \in 1 .. N : s.assign[v] = "UNASSIGNED" /\ s.level[v] = 0
  BY <1>1 DEF Values
<1>5. Typed(s, N)
  <2>0. DOMAIN s = {"assign", "level", "current", "conflict"} /\ s.current = 0 /\ s.conflict = FALSE
    BY <1>1, Zenon
  <2>1. s.current \in Nat
    BY <2>0
  <2>3. s.conflict \in BOOLEAN
    BY <2>0, Zenon
  <2>2. s.assign \in [1 .. N -> Values] /\ s.level \in [1 .. N -> Nat]
    BY <1>4
  <2> QED BY <2>0, <2>1, <2>2, <2>3 DEF Typed
<1>6. /\ Typed(r, N) /\ Keeps(s, r, N)
      /\ \A a \in ModelsOf(cs, N) : Fits(a, s, N) => Fits(a, r, N)
      /\ ~ r.conflict => SomeOpen(r, N) \/ r.assign \in ModelsOf(cs, N)
  BY <1>3, <1>5, RuledSteps
<1>7. ASSUME NEW a \in ModelsOf(cs, N) PROVE Fits(a, r, N)
  <2>1. Fits(a, s, N)
    BY <1>1, <1>4 DEF Fits
  <2> QED BY <1>6, <1>7, <2>1
<1>11. r.conflict => ModelsOf(cs, N) = {}
  BY <1>7 DEF Fits
<1>8. \A v \in 1 .. N : r.level[v] = 0
  BY <1>1, <1>4, <1>6 DEF Keeps
<1>9. r.current = 0
  BY <1>1, <1>6 DEF Keeps
<1>10. Sound(r, r, N)
  BY <1>6, <1>8, <1>9 DEF Sound
<1> QED BY <1>2, <1>6, <1>7, <1>10, <1>11 DEF Searching

(* A decision: variable v is given w at the current level, and its           *)
(* consequences are drawn.                                                   *)
LEMMA Decision ==
  ASSUME NEW N \in Nat, NEW cs \in Seq(SUBSET Literals(N)), ~ RootOf(cs, N).conflict,
         NEW s, Sound(s, RootOf(cs, N), N), s.current # 0, ~ s.conflict,
         NEW v \in 1 .. N, s.assign[v] = "UNASSIGNED", NEW w \in {"TRUE", "FALSE"},
         NEW t, t = Ruled(Given(s, v, w), cs, N)
  PROVE  /\ Sound(t, RootOf(cs, N), N) /\ t.current = s.current
         /\ ~ t.conflict => Searching(t, cs, N)
         /\ t.level[v] = s.current
         /\ \A u \in 1 .. N : /\ s.assign[u] # "UNASSIGNED" => t.assign[u] = s.assign[u] /\ t.level[u] = s.level[u]
                              /\ s.assign[u] = "UNASSIGNED" => t.assign[u] = "UNASSIGNED" \/ t.level[u] = s.current
         /\ t.conflict => \A a \in ModelsOf(cs, N) : a[v] = w => ~ Fits(a, s, N)
<1>1. PICK r : r = RootOf(cs, N)
  OBVIOUS
<1>2. PICK g : g = Given(s, v, w)
  OBVIOUS
<1>3. /\ Sound(g, r, N) /\ Keeps(s, g, N) /\ g.conflict = s.conflict /\ g.current = s.current
      /\ g.assign[v] = w /\ g.level[v] = s.current
  BY <1>1, <1>2, GivenSound
<1>4. \A u \in 1 .. N : u # v => g.assign[u] = s.assign[u] /\ g.level[u] = s.level[u]
  BY <1>1, <1>2, GivenSound
<1>5. Typed(g, N)
  BY <1>3 DEF Sound
<1>6. t = Ruled(g, cs, N)
  BY <1>2
<1>7. Typed(t, N) /\ Keeps(g, t, N)
  BY <1>5, <1>6, RuledSteps
<1>8. \A a \in ModelsOf(cs, N) : Fits(a, g, N) => Fits(a, t, N)
  BY <1>5, <1>6, RuledSteps
<1>9. ~ t.conflict => SomeOpen(t, N) \/ t.assign \in ModelsOf(cs, N)
  BY <1>5, <1>6, RuledSteps
<1>10. Sound(t, r, N)
  BY <1>3, <1>7, KeepsSound
<1>11. t.current = s.current /\ t.level[v] = s.current
  BY <1>3, <1>7 DEF Keeps
<1>12. Keeps(s, t, N)
  BY <1>3, <1>7, KeepsOn
<1>13. ASSUME t.conflict, NEW a \in ModelsOf(cs, N), a[v] = w, Fits(a, s, N) PROVE FALSE
  <2>1. ASSUME NEW u \in 1 .. N, g.assign[u] # "UNASSIGNED" PROVE g.assign[u] = a[u]
    <3>1. CASE u = v
      BY <1>3, <1>13, <3>1
    <3>2. CASE u # v
      BY <1>4, <1>13, <2>1, <3>2 DEF Fits
    <3> QED BY <3>1, <3>2
  <2>2. Fits(a, g, N)
    BY <1>3, <2>1 DEF Fits
  <2> QED BY <1>8, <1>13, <2>2 DEF Fits
<1>14. \A u \in 1 .. N : /\ s.assign[u] # "UNASSIGNED" => t.assign[u] = s.assign[u] /\ t.level[u] = s.level[u]
                         /\ s.assign[u] = "UNASSIGNED" => t.assign[u] = "UNASSIGNED" \/ t.level[u] = s.current
  BY <1>12 DEF Keeps
<1> QED BY <1>1, <1>9, <1>10, <1>11, <1>13, <1>14 DEF Searching

-----------------------------------------------------------------------------
(* The state of the solver, of the fields it is made of: an idle search has  *)
(* not begun, a running one is Searching, and the answers are as they should.*)
Fresh(a, lv, N) == a = [v \in 1 .. N |-> "UNASSIGNED"] /\ lv = [v \in 1 .. N |-> 0]
Answers(st, a, cs, N) ==
  /\ st = "sat" => a \in ModelsOf(cs, N)
  /\ st = "unsat" => \A m \in ModelsOf(cs, N) :
       ~ RootOf(cs, N).conflict /\ \E v \in FirstOpen(RootOf(cs, N).assign) : m[v] = "FALSE"
SearchState(st, a, lv, cur, cs, N) ==
  /\ N \in Nat /\ cs \in Seq(SUBSET Literals(N)) /\ st \in {"idle", "running", "sat", "unsat"}
  /\ st = "idle" => Fresh(a, lv, N)
  /\ st = "running" => Searching(Search(a, lv, cur), cs, N)
  /\ Answers(st, a, cs, N)
SearchInv == SearchState(status, assign, level, current, clauses, numVars)

LEMMA Continues ==
  ASSUME NEW N \in Nat, NEW cs \in Seq(SUBSET Literals(N)), NEW s, Searching(s, cs, N)
  PROVE  SearchState("running", s.assign, s.level, s.current, cs, N)
<1>1. PICK r : r = RootOf(cs, N)
  OBVIOUS
<1>2. PICK t : t = Search(s.assign, s.level, s.current)
  OBVIOUS
<1>3. Sound(s, r, N) /\ ~ r.conflict /\ (SomeOpen(s, N) \/ s.assign \in ModelsOf(cs, N))
  BY <1>1 DEF Searching
<1>4. s.current \in Nat /\ s.current <= s.current
  BY <1>3 DEF Sound, Typed
<1>5. Sound(t, r, N) /\ t.assign = s.assign
  BY <1>2, <1>3, <1>4, SearchSound
<1>6. SomeOpen(t, N) \/ t.assign \in ModelsOf(cs, N)
  BY <1>3, <1>5 DEF SomeOpen
<1>7. Searching(t, cs, N)
  BY <1>1, <1>3, <1>5, <1>6 DEF Searching
<1> QED BY <1>2, <1>7 DEF SearchState, Answers

LEMMA SolveSound ==
  ASSUME SearchInv, Solve
  PROVE  SearchInv'
<1>1. PICK N \in Nat : N = numVars
  BY DEF SearchInv, SearchState
<1>2. PICK cs \in Seq(SUBSET Literals(N)) : cs = clauses
  BY <1>1 DEF SearchInv, SearchState
<1>3. clauses' = cs /\ numVars' = N
  BY <1>1, <1>2 DEF Solve
<1>4. PICK r : r = RootOf(cs, N)
  OBVIOUS
<1>5. Propagated(Search(assign, level, 0)) = r
  <2>1. status = "idle"
    BY DEF Solve
  <2>2. assign = [v \in 1 .. N |-> "UNASSIGNED"] /\ level = [v \in 1 .. N |-> 0]
    BY <1>1, <2>1 DEF SearchInv, SearchState, Fresh
  <2> QED BY <1>1, <1>2, <1>4, <2>2 DEF RootOf, Ruled, Propagated
<1>6. Becomes(r, IF r.conflict THEN "unsat" ELSE "running")
  BY <1>5 DEF Solve
<1>7. Typed(r, N) /\ (r.conflict => ModelsOf(cs, N) = {}) /\ (~ r.conflict => Searching(r, cs, N))
  BY <1>4, SearchStarts
<1>8. CASE r.conflict
  <2>1. status' = "unsat"
    BY <1>6, <1>8 DEF Becomes
  <2>2. ModelsOf(cs, N) = {}
    BY <1>7, <1>8
  <2>3. SearchState(status', assign', level', current', cs, N)
    BY <2>1, <2>2 DEF SearchState, Answers
  <2> QED BY <1>3, <2>3 DEF SearchInv
<1>9. CASE ~ r.conflict
  <2>1. status' = "running" /\ assign' = r.assign /\ level' = r.level /\ current' = r.current
    BY <1>6, <1>9 DEF Becomes
  <2>2. SearchState(status', assign', level', current', cs, N)
    BY <1>7, <1>9, <2>1, Continues
  <2> QED BY <1>3, <2>2 DEF SearchInv
<1> QED BY <1>8, <1>9

(* The first open variable exists when some variable is open.                *)
LEMMA FirstOpenExists ==
  ASSUME NEW N \in Nat, NEW a, DOMAIN a = 1 .. N
  PROVE  /\ FirstOpen(a) \in SUBSET {v \in 1 .. N : a[v] = "UNASSIGNED"}
         /\ FirstOpen(a) = {} => \A v \in 1 .. N : a[v] # "UNASSIGNED"
<1> DEFINE T == {v \in 1 .. N : a[v] = "UNASSIGNED"}
<1>1. FirstOpen(a) \in SUBSET T
  BY DEF FirstOpen
<1>2. ASSUME T # {} PROVE FirstOpen(a) # {}
  <2>1. T \in SUBSET Nat
    OBVIOUS
  <2>2. PICK m \in T : \A k \in T : m <= k
    <3> HIDE DEF T
    <3> QED BY <1>2, <2>1, LeastElement
  <2>3. m \in 1 .. N /\ a[m] = "UNASSIGNED"
    OBVIOUS
  <2>4. ASSUME NEW u \in 1 .. m - 1 PROVE a[u] # "UNASSIGNED"
    <3>1. u \in 1 .. N /\ u < m
      BY <2>3
    <3>2. u \notin T
      BY <2>2, <2>3, <3>1
    <3> QED BY <3>1, <3>2
  <2>5. m \in FirstOpen(a)
    BY <2>3, <2>4 DEF FirstOpen
  <2> QED BY <2>5
<1> QED BY <1>1, <1>2

Outcome(p, back, f) ==
  CASE ~p.conflict -> Becomes(p, "running")
    [] p.conflict /\ back.current = 0 -> Becomes(back, "unsat")
    [] p.conflict /\ back.current # 0 -> Becomes(IF f.conflict THEN Undone(f, f.current) ELSE f, "running")

(* One turn of the search.  After the conflict of its first try the search   *)
(* is back where it was; a second conflict undoes the level below as well.   *)
LEMMA DecideSound ==
  ASSUME SearchInv, Decide
  PROVE  SearchInv'
<1>1. PICK N \in Nat : N = numVars
  BY DEF SearchInv, SearchState
<1>2. PICK cs \in Seq(SUBSET Literals(N)) : cs = clauses
  BY <1>1 DEF SearchInv, SearchState
<1>3. clauses' = cs /\ numVars' = N
  BY <1>1, <1>2 DEF Decide
<1>4. PICK r : r = RootOf(cs, N)
  OBVIOUS
<1>5. PICK s : s = Search(assign, level, current)
  OBVIOUS
<1>6. s.assign = assign /\ s.level = level /\ s.current = current /\ ~ s.conflict
  BY <1>5 DEF Search
<1>7. Searching(s, cs, N)
  BY <1>1, <1>2, <1>5 DEF Decide, SearchInv, SearchState
<1>8. Sound(s, r, N) /\ ~ r.conflict /\ (SomeOpen(s, N) \/ s.assign \in ModelsOf(cs, N))
  BY <1>4, <1>7 DEF Searching
<1>9. DOMAIN s.assign = 1 .. N /\ s.current \in Nat
  BY <1>8 DEF Sound, Typed
<1>10. SUFFICES SearchState(status', assign', level', current', cs, N)
  BY <1>3 DEF SearchInv
<1>11. CASE FirstOpen(assign) = {} /\ status' = "sat" /\ UNCHANGED <<assign, level, current>>
  <2>1. ~ SomeOpen(s, N)
    BY <1>6, <1>9, <1>11, FirstOpenExists DEF SomeOpen
  <2>2. assign' \in ModelsOf(cs, N)
    BY <1>6, <1>8, <1>11, <2>1
  <2> QED BY <1>11, <2>2 DEF SearchState, Answers
<1>12. ASSUME NEW v \in FirstOpen(assign),
              LET p == Propagated(Given(Search(assign, level, current + 1), v, "TRUE"))
                  back == Undone(p, p.current)
                  f == Propagated(Given(back, v, "FALSE"))
              IN Outcome(p, back, f)
       PROVE  SearchState(status', assign', level', current', cs, N)
  <2>1. v \in 1 .. N /\ s.assign[v] = "UNASSIGNED"
    BY <1>6, <1>9, FirstOpenExists
  <2>2. PICK h : h = Search(assign, level, current + 1)
    OBVIOUS
  <2>3. PICK p : p = Ruled(Given(h, v, "TRUE"), cs, N)
    OBVIOUS
  <2>4. PICK back : back = Undone(p, p.current)
    OBVIOUS
  <2>5. PICK f : f = Ruled(Given(back, v, "FALSE"), cs, N)
    OBVIOUS
  <2>6. Outcome(p, back, f)
    BY <1>1, <1>2, <1>12, <2>2, <2>3, <2>4, <2>5, Zenon DEF Propagated, Ruled, Outcome
  <2>7. /\ Sound(h, r, N) /\ h.assign = s.assign /\ h.level = s.level
        /\ h.current = s.current + 1 /\ ~ h.conflict
    BY <1>6, <1>8, <1>9, <2>2, SearchSound
  <2>8. h.current # 0 /\ h.assign[v] = "UNASSIGNED"
    BY <1>9, <2>1, <2>7
  <2>9. /\ Sound(p, r, N) /\ p.current = h.current /\ p.level[v] = h.current
        /\ ~ p.conflict => Searching(p, cs, N)
    BY <1>4, <1>8, <2>1, <2>3, <2>7, <2>8, Decision
  <2>10. \A u \in 1 .. N : /\ h.assign[u] # "UNASSIGNED" => p.assign[u] = h.assign[u] /\ p.level[u] = h.level[u]
                           /\ h.assign[u] = "UNASSIGNED" => p.assign[u] = "UNASSIGNED" \/ p.level[u] = h.current
    BY <1>4, <1>8, <2>1, <2>3, <2>7, <2>8, Decision
  <2>11. CASE ~ p.conflict
    <3>1. Becomes(p, "running")
      BY <2>6, <2>11, Zenon DEF Outcome
    <3>2. SearchState("running", p.assign, p.level, p.current, cs, N)
      BY <2>9, <2>11, Continues
    <3> QED BY <3>1, <3>2 DEF Becomes
  <2>12. CASE p.conflict
    <3>1. /\ Sound(back, r, N) /\ back.current = s.current /\ ~ back.conflict
          /\ \A u \in 1 .. N : back.assign[u] = IF p.level[u] = p.current THEN "UNASSIGNED" ELSE p.assign[u]
      <4>1. p.current # 0
        BY <2>8, <2>9
      <4>2. /\ Sound(back, r, N) /\ back.current = p.current - 1 /\ ~ back.conflict
            /\ \A u \in 1 .. N : back.assign[u] = IF p.level[u] = p.current THEN "UNASSIGNED" ELSE p.assign[u]
        BY <2>4, <2>9, <4>1, UndoneSound
      <4> QED BY <1>9, <2>7, <2>9, <4>2
    <3>2. ASSUME NEW u \in 1 .. N PROVE back.assign[u] = s.assign[u]
      <4>1. CASE s.assign[u] = "UNASSIGNED"
        BY <2>7, <2>9, <2>10, <3>1, <4>1
      <4>2. CASE s.assign[u] # "UNASSIGNED"
        <5>1. p.assign[u] = s.assign[u] /\ p.level[u] = s.level[u]
          BY <2>7, <2>10, <4>2
        <5>2. s.level[u] <= s.current /\ s.level[u] \in Nat
          BY <1>8, <4>2 DEF Sound, Typed
        <5>3. p.level[u] # p.current
          BY <1>9, <2>7, <2>9, <5>1, <5>2
        <5> QED BY <3>1, <5>1, <5>3
      <4> QED BY <4>1, <4>2
    <3>3. back.assign[v] = "UNASSIGNED"
      BY <2>1, <3>2
    <3>4. CASE back.current = 0
      <4>1. Becomes(back, "unsat")
        BY <2>6, <2>12, <3>4, Zenon DEF Outcome
      <4>2. \A u \in 1 .. N : s.assign[u] = r.assign[u]
        <5> SUFFICES ASSUME NEW u \in 1 .. N PROVE s.assign[u] = r.assign[u]
          OBVIOUS
        <5>1. s.assign[u] # "UNASSIGNED" => s.level[u] = 0
          BY <1>8, <3>1, <3>4 DEF Sound, Typed
        <5> QED BY <1>8, <5>1 DEF Sound
      <4>3. Typed(r, N)
        BY <1>4, SearchStarts
      <4>4. r.assign = s.assign
        BY <1>8, <4>2, <4>3 DEF Sound, Typed
      <4>5. v \in FirstOpen(r.assign)
        BY <1>6, <4>4
      <4>6. ASSUME NEW m \in ModelsOf(cs, N) PROVE m[v] = "FALSE"
        <5>2. Fits(m, r, N)
          BY <1>4, SearchStarts
        <5>3. Fits(m, h, N)
          BY <2>7, <4>4, <5>2 DEF Fits
        <5>4. m[v] # "TRUE"
          BY <1>4, <1>8, <2>1, <2>3, <2>7, <2>8, <2>12, <5>3, Decision
        <5> QED BY <2>1, <5>4 DEF ModelsOf, Assignments
      <4>7. SearchState("unsat", back.assign, back.level, back.current, cs, N)
        BY <1>4, <1>8, <4>5, <4>6 DEF SearchState, Answers
      <4> QED BY <4>1, <4>7 DEF Becomes
    <3>5. CASE back.current # 0
      <4>1. Becomes(IF f.conflict THEN Undone(f, f.current) ELSE f, "running")
        BY <2>6, <2>12, <3>5, Zenon DEF Outcome
      <4>2. /\ Sound(f, r, N) /\ f.current = back.current /\ f.level[v] = back.current
            /\ ~ f.conflict => Searching(f, cs, N)
        BY <1>4, <1>8, <2>1, <2>5, <3>1, <3>3, <3>5, Decision
      <4>3. CASE ~ f.conflict
        <5>1. SearchState("running", f.assign, f.level, f.current, cs, N)
          BY <4>2, <4>3, Continues
        <5> QED BY <4>1, <4>3, <5>1 DEF Becomes
      <4>4. CASE f.conflict
        <5>1. PICK d : d = Undone(f, f.current)
          OBVIOUS
        <5>2. Sound(d, r, N) /\ d.assign[v] = "UNASSIGNED"
          BY <2>1, <3>5, <4>2, <5>1, UndoneSound
        <5>3. Searching(d, cs, N)
          BY <1>4, <1>8, <2>1, <5>2 DEF Searching, SomeOpen
        <5>4. SearchState("running", d.assign, d.level, d.current, cs, N)
          BY <5>3, Continues
        <5> QED BY <4>1, <4>4, <5>1, <5>4 DEF Becomes
      <4> QED BY <4>3, <4>4
    <3> QED BY <3>4, <3>5
  <2> QED BY <2>11, <2>12
<1> QED BY <1>11, <1>12, Zenon DEF Decide, Outcome

-----------------------------------------------------------------------------
(* The clauses of an unrolling: each is of the variables it may be of, and   *)
(* the ones an execution rests on are among them.                            *)
Has(q, c) == \E j \in 1 .. Len(q) : q[j] = c
JoinedUpTo(f, k, parts) == IF k = 0 THEN <<>> ELSE f[k - 1] \o parts[k]
Joins(f, k, parts) == f = [n \in 0 .. k |-> JoinedUpTo(f, n, parts)]

LEMMA JoinsExist ==
  ASSUME NEW parts
  PROVE  \A k \in Nat : \E f : Joins(f, k, parts)
<1> DEFINE T == {k \in Nat : \E f : Joins(f, k, parts)}
<1>1. 0 \in T
  <2> DEFINE f == [n \in 0 .. 0 |-> <<>>]
  <2>1. Joins(f, 0, parts)
    BY DEF Joins, JoinedUpTo
  <2> QED BY <2>1
<1>2. ASSUME NEW k \in T PROVE k + 1 \in T
  <2>1. PICK g : Joins(g, k, parts)
    OBVIOUS
  <2>2. k \in Nat
    OBVIOUS
  <2> DEFINE f == [n \in 0 .. k + 1 |-> IF n = k + 1 THEN JoinedUpTo(g, k + 1, parts) ELSE g[n]]
  <2>3. \A n \in 0 .. k : g[n] = JoinedUpTo(g, n, parts)
    BY <2>1, Zenon DEF Joins
  <2>4. ASSUME NEW n \in 0 .. k + 1 PROVE f[n] = JoinedUpTo(f, n, parts)
    <3>1. f[n] = JoinedUpTo(g, n, parts)
      <4>1. CASE n = k + 1
        BY <4>1
      <4>2. CASE n # k + 1
        <5>1. n \in 0 .. k
          BY <2>2, <4>2
        <5> QED BY <2>3, <4>2, <5>1
      <4> QED BY <4>1, <4>2
    <3>2. CASE n = 0
      BY <3>1, <3>2 DEF JoinedUpTo
    <3>3. CASE n # 0
      <4>1. n - 1 \in 0 .. k + 1 /\ n - 1 # k + 1
        BY <2>2, <3>3
      <4>2. f[n - 1] = g[n - 1]
        BY <4>1
      <4> QED BY <3>1, <3>3, <4>2 DEF JoinedUpTo
    <3> QED BY <3>2, <3>3
  <2>5. Joins(f, k + 1, parts)
    BY <2>4 DEF Joins
  <2>6. \E h : Joins(h, k + 1, parts)
    BY <2>5
  <2> QED BY <2>2, <2>6
<1> HIDE DEF T
<1>3. \A k \in Nat : k \in T
  <2>1. T \in SUBSET Nat
    BY DEF T
  <2> QED BY <1>1, <1>2, <2>1, Climb
<1> QED BY <1>3 DEF T

LEMMA HasConcat ==
  ASSUME NEW S, NEW q \in Seq(S), NEW p \in Seq(S), NEW c
  PROVE  q \o p \in Seq(S) /\ (Has(q, c) \/ Has(p, c) => Has(q \o p, c))
<1>1. /\ q \o p \in Seq(S) /\ Len(q \o p) = Len(q) + Len(p)
      /\ \A i \in 1 .. Len(q) + Len(p) : (q \o p)[i] = IF i <= Len(q) THEN q[i] ELSE p[i - Len(q)]
  BY ConcatProperties
<1>2. Len(q) \in Nat /\ Len(p) \in Nat
  OBVIOUS
<1>3. ASSUME NEW j \in 1 .. Len(q) PROVE (q \o p)[j] = q[j] /\ j \in 1 .. Len(q) + Len(p)
  BY <1>1, <1>2
<1>4. ASSUME NEW j \in 1 .. Len(p)
      PROVE  (q \o p)[j + Len(q)] = p[j] /\ j + Len(q) \in 1 .. Len(q) + Len(p)
  <2>1. j + Len(q) \in 1 .. Len(q) + Len(p) /\ ~ (j + Len(q) <= Len(q)) /\ (j + Len(q)) - Len(q) = j
    BY <1>2
  <2> QED BY <1>1, <2>1
<1>5. ASSUME Has(q, c) PROVE Has(q \o p, c)
  BY <1>1, <1>3, <1>5 DEF Has
<1>6. ASSUME Has(p, c) PROVE Has(q \o p, c)
  BY <1>1, <1>4, <1>6 DEF Has
<1> QED BY <1>1, <1>5, <1>6

Parts(parts, n, S) == \A k \in 1 .. n : parts[k] \in Seq(S)

LEMMA JoinedHas ==
  ASSUME NEW S, NEW n \in Nat, NEW parts, Parts(parts, n, S)
  PROVE  /\ Joined(parts, n) \in Seq(S)
         /\ \A k \in 1 .. n : \A c : Has(parts[k], c) => Has(Joined(parts, n), c)
<1> DEFINE g == CHOOSE h : Joins(h, n, parts)
<1>1. \E h : Joins(h, n, parts)
  BY JoinsExist
<1>2. g = [k \in 0 .. n |-> JoinedUpTo(g, k, parts)]
  BY <1>1, Zenon DEF Joins
<1>3. Joined(parts, n) = g[n]
  BY Zenon DEF Joined, JoinedUpTo, Joins
<1> HIDE DEF g
<1>4. \A k \in 0 .. n : g[k] = JoinedUpTo(g, k, parts)
  BY <1>2, Zenon
<1> DEFINE T == {k \in Nat : k <= n => /\ g[k] \in Seq(S)
                                       /\ \A j \in 1 .. k : \A c : Has(parts[j], c) => Has(g[k], c)}
<1>5. 0 \in T
  <2>1. g[0] = <<>>
    BY <1>4 DEF JoinedUpTo
  <2>2. <<>> \in Seq(S)
    OBVIOUS
  <2>3. \A j \in 1 .. 0 : \A c : Has(parts[j], c) => Has(g[0], c)
    OBVIOUS
  <2> QED BY <2>1, <2>2, <2>3
<1>6. ASSUME NEW k \in T PROVE k + 1 \in T
  <2>1. k \in Nat
    OBVIOUS
  <2> SUFFICES ASSUME k + 1 <= n
               PROVE  /\ g[k + 1] \in Seq(S)
                      /\ \A j \in 1 .. k + 1 : \A c : Has(parts[j], c) => Has(g[k + 1], c)
    BY <2>1
  <2>2. g[k] \in Seq(S) /\ \A j \in 1 .. k : \A c : Has(parts[j], c) => Has(g[k], c)
    BY <2>1
  <2>3. k + 1 \in 0 .. n /\ k + 1 # 0 /\ (k + 1) - 1 = k /\ k + 1 \in 1 .. n
    BY <2>1
  <2>4. g[k + 1] = g[k] \o parts[k + 1]
    BY <1>4, <2>3 DEF JoinedUpTo
  <2>5. PICK q \in Seq(S) : q = g[k]
    BY <2>2
  <2>6. PICK p \in Seq(S) : p = parts[k + 1]
    BY <2>3 DEF Parts
  <2>7. g[k + 1] = q \o p
    BY <2>4, <2>5, <2>6
  <2>8. q \o p \in Seq(S)
    BY HasConcat
  <2>9. ASSUME NEW j \in 1 .. k + 1, NEW c, Has(parts[j], c) PROVE Has(q \o p, c)
    <3>1. CASE j = k + 1
      <4>1. Has(p, c)
        BY <2>6, <2>9, <3>1
      <4> QED BY <4>1, HasConcat
    <3>2. CASE j # k + 1
      <4>1. j \in 1 .. k
        BY <2>1, <3>2
      <4>2. Has(q, c)
        BY <2>2, <2>5, <2>9, <4>1
      <4> QED BY <4>2, HasConcat
    <3> QED BY <3>1, <3>2
  <2> HIDE DEF T
  <2> QED BY <2>7, <2>8, <2>9
<1> HIDE DEF T
<1>7. \A k \in Nat : k \in T
  <2>1. T \in SUBSET Nat
    BY DEF T
  <2> QED BY <1>5, <1>6, <2>1, Climb
<1>8. g[n] \in Seq(S) /\ \A j \in 1 .. n : \A c : Has(parts[j], c) => Has(g[n], c)
  <2>1. n \in T
    BY <1>7
  <2> QED BY <2>1 DEF T
<1> QED BY <1>3, <1>8

Formed(sys) == sys.n \in Nat \ {0} /\ sys.initial \in 0 .. sys.n - 1
Some(sys, t) == {At(sys, s, t) : s \in 0 .. sys.n - 1}
Pair(sys, s, u, t) == {-At(sys, s, t), -At(sys, u, t)}
After(sys, s, t) == {-At(sys, s, t)} \cup {At(sys, u, t + 1) : u \in Successors(sys, s)}
Cells(sys, k) == Literals(sys.n * (k + 1))

LEMMA AtRange ==
  ASSUME NEW sys, Formed(sys), NEW k \in Nat, NEW t \in 0 .. k, NEW s \in 0 .. sys.n - 1
  PROVE  /\ At(sys, s, t) \in 1 .. sys.n * (k + 1)
         /\ At(sys, s, t) \in Cells(sys, k) /\ -At(sys, s, t) \in Cells(sys, k)
<1>1. PICK n \in Nat \ {0} : n = sys.n
  BY DEF Formed
<1>2. PICK d \in Nat : k = t + d
  <2>1. k - t \in Nat /\ k = t + (k - t)
    OBVIOUS
  <2> QED BY <2>1
<1>3. PICK x \in Nat : x = t * n
  OBVIOUS
<1>4. PICK y \in Nat : y = d * n
  OBVIOUS
<1>5. n * (k + 1) = x + y + n
  BY <1>2, <1>3, <1>4
<1>6. At(sys, s, t) = x + s + 1
  BY <1>1, <1>3 DEF At
<1>7. s \in 0 .. n - 1
  BY <1>1
<1>8. At(sys, s, t) \in 1 .. n * (k + 1)
  BY <1>5, <1>6, <1>7
<1> QED BY <1>1, <1>8 DEF Cells, Literals

LEMMA IsSequence ==
  ASSUME NEW S, NEW m \in Nat, NEW f \in [1 .. m -> S]
  PROVE  f \in Seq(S) /\ Len(f) = m /\ \A i \in 1 .. m : Has(f, f[i])
<1>1. f \in Seq(S) /\ Len(f) = m
  OBVIOUS
<1> QED BY <1>1 DEF Has

LEMMA OneStateHas ==
  ASSUME NEW sys, Formed(sys), NEW k \in Nat, NEW t \in 0 .. k
  PROVE  /\ OneState(sys, t) \in Seq(SUBSET Cells(sys, k)) /\ Has(OneState(sys, t), Some(sys, t))
         /\ \A s, u \in 0 .. sys.n - 1 : s < u => Has(OneState(sys, t), Pair(sys, s, u, t))
<1>1. PICK n \in Nat \ {0} : n = sys.n
  BY DEF Formed
<1>2. PICK S : S = SUBSET Cells(sys, k)
  OBVIOUS
<1>3. \A s \in 0 .. n - 1 : At(sys, s, t) \in Cells(sys, k) /\ -At(sys, s, t) \in Cells(sys, k)
  BY <1>1, AtRange
<1> DEFINE parts == [i \in 1 .. n |-> NotBoth(sys, i - 1, t)]
<1>4. ASSUME NEW i \in 1 .. n
      PROVE  parts[i] \in Seq(S) /\ \A u \in 0 .. n - 1 : i - 1 < u => Has(parts[i], Pair(sys, i - 1, u, t))
  <2>1. PICK s \in 0 .. n - 1 : s = i - 1
    OBVIOUS
  <2>2. PICK m \in Nat : m = n - 1 - s
    OBVIOUS
  <2>3. PICK f : f = NotBoth(sys, s, t)
    OBVIOUS
  <2>4. f = [d \in 1 .. m |-> Pair(sys, s, s + d, t)]
    BY <1>1, <2>2, <2>3 DEF NotBoth, Pair
  <2>5. ASSUME NEW d \in 1 .. m PROVE Pair(sys, s, s + d, t) \in S
    <3>1. s + d \in 0 .. n - 1
      BY <2>2
    <3> QED BY <1>2, <1>3, <3>1 DEF Pair
  <2>6. f \in [1 .. m -> S]
    BY <2>4, <2>5
  <2>7. f \in Seq(S) /\ \A d \in 1 .. m : Has(f, f[d])
    BY <2>6, IsSequence
  <2>8. ASSUME NEW u \in 0 .. n - 1, s < u PROVE Has(f, Pair(sys, s, u, t))
    <3>1. u - s \in 1 .. m /\ s + (u - s) = u
      BY <2>2, <2>8
    <3>2. f[u - s] = Pair(sys, s, u, t)
      BY <2>4, <3>1
    <3> QED BY <2>7, <3>1, <3>2
  <2>9. parts[i] = f
    BY <2>1, <2>3
  <2> HIDE DEF parts
  <2> QED BY <2>1, <2>7, <2>8, <2>9
<1> HIDE DEF parts
<1>5. Parts(parts, n, S)
  BY <1>4 DEF Parts
<1>6. Joined(parts, n) \in Seq(S) /\ \A i \in 1 .. n : \A c : Has(parts[i], c) => Has(Joined(parts, n), c)
  BY <1>5, JoinedHas
<1>7. PICK p \in Seq(S) : p = Joined(parts, n)
  BY <1>6
<1>8. Some(sys, t) \in S
  BY <1>1, <1>2, <1>3 DEF Some
<1>9. PICK q \in Seq(S) : q = <<Some(sys, t)>> /\ Len(q) = 1 /\ q[1] = Some(sys, t)
  <2>1. PICK x \in S : x = Some(sys, t)
    BY <1>8
  <2>2. <<x>> \in Seq(S) /\ Len(<<x>>) = 1 /\ <<x>>[1] = x
    OBVIOUS
  <2> QED BY <2>1, <2>2
<1>10. Has(q, Some(sys, t))
  BY <1>9 DEF Has
<1>11. OneState(sys, t) = q \o p
  BY <1>1, <1>7, <1>9 DEF OneState, Some, parts
<1>12. q \o p \in Seq(S) /\ Has(q \o p, Some(sys, t))
  BY <1>10, HasConcat
<1>13. ASSUME NEW s \in 0 .. n - 1, NEW u \in 0 .. n - 1, s < u PROVE Has(q \o p, Pair(sys, s, u, t))
  <2>1. s + 1 \in 1 .. n /\ (s + 1) - 1 = s
    OBVIOUS
  <2>2. Has(parts[s + 1], Pair(sys, s, u, t))
    BY <1>4, <1>13, <2>1
  <2>3. Has(p, Pair(sys, s, u, t))
    BY <1>6, <1>7, <2>1, <2>2
  <2> QED BY <2>3, HasConcat
<1> QED BY <1>1, <1>2, <1>11, <1>12, <1>13

LEMMA StepsHas ==
  ASSUME NEW sys, Formed(sys), NEW k \in Nat, NEW t \in 0 .. k - 1
  PROVE  /\ Steps(sys, t) \in Seq(SUBSET Cells(sys, k))
         /\ \A s \in 0 .. sys.n - 1 : Successors(sys, s) # {} => Has(Steps(sys, t), After(sys, s, t))
<1>1. PICK n \in Nat \ {0} : n = sys.n
  BY DEF Formed
<1>2. PICK S : S = SUBSET Cells(sys, k)
  OBVIOUS
<1>3. t \in 0 .. k /\ t + 1 \in 0 .. k
  OBVIOUS
<1>4. \A s \in 0 .. n - 1 : At(sys, s, t + 1) \in Cells(sys, k) /\ -At(sys, s, t) \in Cells(sys, k)
  BY <1>1, <1>3, AtRange
<1> DEFINE parts == [i \in 1 .. n |-> Follows(sys, i - 1, t)]
<1>5. ASSUME NEW i \in 1 .. n
      PROVE  /\ parts[i] \in Seq(S)
             /\ Successors(sys, i - 1) # {} => Has(parts[i], After(sys, i - 1, t))
  <2>1. PICK s \in 0 .. n - 1 : s = i - 1
    OBVIOUS
  <2>2. parts[i] = Follows(sys, s, t)
    BY <2>1
  <2> HIDE DEF parts
  <2>3. CASE Successors(sys, s) = {}
    BY <2>1, <2>2, <2>3 DEF Follows
  <2>4. CASE Successors(sys, s) # {}
    <3>1. After(sys, s, t) \in S
      BY <1>1, <1>2, <1>4 DEF After, Successors
    <3>2. parts[i] = <<After(sys, s, t)>>
      BY <2>2, <2>4 DEF Follows, After
    <3>3. <<After(sys, s, t)>> \in Seq(S) /\ Has(<<After(sys, s, t)>>, After(sys, s, t))
      BY <3>1 DEF Has
    <3> QED BY <2>1, <3>2, <3>3
  <2> QED BY <2>3, <2>4
<1> HIDE DEF parts
<1>6. Parts(parts, n, S)
  BY <1>5 DEF Parts
<1>7. Joined(parts, n) \in Seq(S) /\ \A i \in 1 .. n : \A c : Has(parts[i], c) => Has(Joined(parts, n), c)
  BY <1>6, JoinedHas
<1>8. Steps(sys, t) = Joined(parts, n)
  BY <1>1 DEF Steps, parts
<1>9. ASSUME NEW s \in 0 .. n - 1, Successors(sys, s) # {} PROVE Has(Joined(parts, n), After(sys, s, t))
  <2>1. s + 1 \in 1 .. n /\ (s + 1) - 1 = s
    OBVIOUS
  <2>2. Has(parts[s + 1], After(sys, s, t))
    BY <1>5, <1>9, <2>1
  <2> QED BY <1>7, <2>1, <2>2
<1> QED BY <1>1, <1>2, <1>7, <1>8, <1>9

First(sys) == {At(sys, sys.initial, 0)}

LEMMA UnrollingHas ==
  ASSUME NEW sys, Formed(sys), NEW k \in Nat, NEW cs, cs = Unrolling(sys, k)
  PROVE  /\ cs \in Seq(SUBSET Cells(sys, k)) /\ Has(cs, First(sys))
         /\ \A t \in 0 .. k : Has(cs, Some(sys, t))
         /\ \A t \in 0 .. k : \A s, u \in 0 .. sys.n - 1 : s < u => Has(cs, Pair(sys, s, u, t))
         /\ \A t \in 0 .. k - 1 : \A s \in 0 .. sys.n - 1 : Successors(sys, s) # {} => Has(cs, After(sys, s, t))
<1>1. PICK S : S = SUBSET Cells(sys, k)
  OBVIOUS
<1> DEFINE states == [t \in 1 .. k + 1 |-> OneState(sys, t - 1)]
           steps == [t \in 1 .. k |-> Steps(sys, t - 1)]
<1>2. ASSUME NEW t \in 1 .. k + 1
      PROVE  /\ states[t] \in Seq(S) /\ Has(states[t], Some(sys, t - 1))
             /\ \A s, u \in 0 .. sys.n - 1 : s < u => Has(states[t], Pair(sys, s, u, t - 1))
  <2>1. t - 1 \in 0 .. k /\ states[t] = OneState(sys, t - 1)
    OBVIOUS
  <2> QED BY <1>1, <2>1, OneStateHas
<1>3. ASSUME NEW t \in 1 .. k
      PROVE  /\ steps[t] \in Seq(S)
             /\ \A s \in 0 .. sys.n - 1 : Successors(sys, s) # {} => Has(steps[t], After(sys, s, t - 1))
  <2>1. t - 1 \in 0 .. k - 1 /\ steps[t] = Steps(sys, t - 1)
    OBVIOUS
  <2> QED BY <1>1, <2>1, StepsHas
<1>4. cs = Joined(states, k + 1) \o <<First(sys)>> \o Joined(steps, k)
  BY DEF Unrolling, First
<1> HIDE DEF states, steps
<1>5. /\ Joined(states, k + 1) \in Seq(S)
      /\ \A t \in 1 .. k + 1 : \A c : Has(states[t], c) => Has(Joined(states, k + 1), c)
  BY <1>2, JoinedHas DEF Parts
<1>6. Joined(steps, k) \in Seq(S) /\ \A t \in 1 .. k : \A c : Has(steps[t], c) => Has(Joined(steps, k), c)
  BY <1>3, JoinedHas DEF Parts
<1>7. PICK p \in Seq(S) : p = Joined(states, k + 1)
  BY <1>5
<1>8. PICK q \in Seq(S) : q = Joined(steps, k)
  BY <1>6
<1>9. First(sys) \in S
  <2>1. 0 \in 0 .. k /\ sys.initial \in 0 .. sys.n - 1
    BY DEF Formed
  <2>2. At(sys, sys.initial, 0) \in Cells(sys, k)
    BY <2>1, AtRange
  <2> QED BY <1>1, <2>2 DEF First
<1>10. PICK x \in S : x = First(sys)
  BY <1>9
<1>11. PICK i \in Seq(S) : i = <<x>> /\ Has(i, x)
  <2>1. <<x>> \in Seq(S) /\ Has(<<x>>, x)
    BY DEF Has
  <2> QED BY <2>1
<1>12. cs = (p \o i) \o q
  BY <1>4, <1>7, <1>8, <1>10, <1>11
<1>13. p \o i \in Seq(S) /\ \A c : Has(p, c) \/ Has(i, c) => Has(p \o i, c)
  BY HasConcat
<1>14. PICK m \in Seq(S) : m = p \o i
  BY <1>13
<1>15. m \o q \in Seq(S) /\ \A c : Has(m, c) \/ Has(q, c) => Has(m \o q, c)
  BY HasConcat
<1>16. cs \in Seq(S) /\ \A c : Has(p, c) \/ Has(i, c) \/ Has(q, c) => Has(cs, c)
  BY <1>12, <1>13, <1>14, <1>15
<1>17. Has(cs, First(sys))
  BY <1>10, <1>11, <1>16
<1>18. ASSUME NEW t \in 0 .. k PROVE Has(cs, Some(sys, t))
  <2>1. t + 1 \in 1 .. k + 1 /\ (t + 1) - 1 = t
    OBVIOUS
  <2>2. Has(states[t + 1], Some(sys, t))
    BY <1>2, <2>1
  <2> QED BY <1>5, <1>7, <1>16, <2>1, <2>2
<1>19. ASSUME NEW t \in 0 .. k, NEW s \in 0 .. sys.n - 1, NEW u \in 0 .. sys.n - 1, s < u
       PROVE  Has(cs, Pair(sys, s, u, t))
  <2>1. t + 1 \in 1 .. k + 1 /\ (t + 1) - 1 = t
    OBVIOUS
  <2>2. Has(states[t + 1], Pair(sys, s, u, t))
    BY <1>2, <1>19, <2>1
  <2> QED BY <1>5, <1>7, <1>16, <2>1, <2>2
<1>20. ASSUME NEW t \in 0 .. k - 1, NEW s \in 0 .. sys.n - 1, Successors(sys, s) # {}
       PROVE  Has(cs, After(sys, s, t))
  <2>1. t + 1 \in 1 .. k /\ (t + 1) - 1 = t
    OBVIOUS
  <2>2. Has(steps[t + 1], After(sys, s, t))
    BY <1>3, <1>20, <2>1
  <2> QED BY <1>6, <1>8, <1>16, <2>1, <2>2
<1> QED BY <1>1, <1>16, <1>17, <1>18, <1>19, <1>20

(* The execution a model of the unrolling stands for.                        *)
FirstTrue(sys, a, t) ==
  CHOOSE s \in 0 .. sys.n - 1 :
    /\ a[At(sys, s, t)] = "TRUE"
    /\ \A u \in 0 .. s - 1 : a[At(sys, u, t)] # "TRUE"

LEMMA ModelIsPath ==
  ASSUME NEW sys, Formed(sys), NEW k \in Nat, NEW a \in ModelsOf(Unrolling(sys, k), sys.n * (k + 1))
  PROVE  /\ FirstTrue(sys, a, 0) = sys.initial
         /\ \A t \in 0 .. k - 1 :
              \/ <<FirstTrue(sys, a, t), FirstTrue(sys, a, t + 1)>> \in sys.next
              \/ Successors(sys, FirstTrue(sys, a, t)) = {}
<1>1. PICK n \in Nat \ {0} : n = sys.n
  BY DEF Formed
<1>2. PICK cs : cs = Unrolling(sys, k)
  OBVIOUS
<1>3. \A c : Has(cs, c) => Meets(a, c)
  BY <1>2 DEF ModelsOf, AllMet, Has
<1>4. ASSUME NEW t \in 0 .. k, NEW s \in 0 .. n - 1
      PROVE  /\ True(a, At(sys, s, t)) <=> a[At(sys, s, t)] = "TRUE"
             /\ True(a, -At(sys, s, t)) <=> a[At(sys, s, t)] = "FALSE"
  <2>1. PICK p \in Nat \ {0} : p = At(sys, s, t)
    BY <1>1, AtRange
  <2>2. Var(p) = p /\ Var(-p) = p /\ ~ (-p > 0) /\ p > 0
    BY DEF Var
  <2> QED BY <2>1, <2>2 DEF True
<1>5. ASSUME NEW t \in 0 .. k PROVE \E s \in 0 .. n - 1 : a[At(sys, s, t)] = "TRUE"
  <2>1. Meets(a, Some(sys, t))
    BY <1>2, <1>3, UnrollingHas
  <2>2. PICK l \in Some(sys, t) : True(a, l)
    BY <2>1 DEF Meets
  <2>3. PICK s \in 0 .. n - 1 : l = At(sys, s, t)
    BY <1>1 DEF Some
  <2> QED BY <1>4, <2>2, <2>3
<1>6. ASSUME NEW t \in 0 .. k, NEW s \in 0 .. n - 1, NEW u \in 0 .. n - 1, s < u,
             a[At(sys, s, t)] = "TRUE", a[At(sys, u, t)] = "TRUE"
      PROVE  FALSE
  <2>1. Meets(a, Pair(sys, s, u, t))
    BY <1>1, <1>2, <1>3, <1>6, UnrollingHas
  <2>2. True(a, -At(sys, s, t)) \/ True(a, -At(sys, u, t))
    BY <2>1 DEF Meets, Pair
  <2>3. a[At(sys, s, t)] = "FALSE" \/ a[At(sys, u, t)] = "FALSE"
    BY <1>4, <2>2
  <2> QED BY <1>6, <2>3
<1>7. ASSUME NEW t \in 0 .. k, NEW s \in 0 .. n - 1, a[At(sys, s, t)] = "TRUE"
      PROVE  FirstTrue(sys, a, t) = s
  <2>1. \A u \in 0 .. s - 1 : a[At(sys, u, t)] # "TRUE"
    <3> SUFFICES ASSUME NEW u \in 0 .. s - 1, a[At(sys, u, t)] = "TRUE" PROVE FALSE
      OBVIOUS
    <3>1. u \in 0 .. n - 1 /\ u < s
      OBVIOUS
    <3> QED BY <1>6, <1>7, <3>1
  <2>2. \A x \in 0 .. n - 1 : a[At(sys, x, t)] = "TRUE" => x = s
    <3> SUFFICES ASSUME NEW x \in 0 .. n - 1, a[At(sys, x, t)] = "TRUE", x # s PROVE FALSE
      OBVIOUS
    <3>1. x < s \/ s < x
      OBVIOUS
    <3> QED BY <1>6, <1>7, <3>1
  <2>3. \E x \in 0 .. n - 1 : a[At(sys, x, t)] = "TRUE" /\ \A u \in 0 .. x - 1 : a[At(sys, u, t)] # "TRUE"
    BY <1>7, <2>1
  <2>4. FirstTrue(sys, a, t) \in 0 .. n - 1 /\ a[At(sys, FirstTrue(sys, a, t), t)] = "TRUE"
    BY <1>1, <2>3, Zenon DEF FirstTrue
  <2> QED BY <2>2, <2>4
<1>8. FirstTrue(sys, a, 0) = sys.initial
  <2>1. Meets(a, First(sys))
    BY <1>2, <1>3, UnrollingHas
  <2>2. True(a, At(sys, sys.initial, 0))
    BY <2>1 DEF Meets, First
  <2>3. sys.initial \in 0 .. n - 1 /\ 0 \in 0 .. k
    BY <1>1 DEF Formed
  <2>4. a[At(sys, sys.initial, 0)] = "TRUE"
    BY <1>4, <2>2, <2>3
  <2> QED BY <1>7, <2>3, <2>4
<1>9. ASSUME NEW t \in 0 .. k - 1, Successors(sys, FirstTrue(sys, a, t)) # {}
      PROVE  <<FirstTrue(sys, a, t), FirstTrue(sys, a, t + 1)>> \in sys.next
  <2>1. t \in 0 .. k /\ t + 1 \in 0 .. k
    OBVIOUS
  <2>2. PICK s \in 0 .. n - 1 : a[At(sys, s, t)] = "TRUE"
    BY <1>5, <2>1
  <2>3. FirstTrue(sys, a, t) = s
    BY <1>7, <2>1, <2>2
  <2>4. Meets(a, After(sys, s, t))
    BY <1>1, <1>2, <1>3, <1>9, <2>3, UnrollingHas
  <2>5. PICK l \in After(sys, s, t) : True(a, l)
    BY <2>4 DEF Meets
  <2>6. l # -At(sys, s, t)
    BY <1>4, <2>1, <2>2, <2>5
  <2>7. PICK u \in Successors(sys, s) : l = At(sys, u, t + 1)
    BY <2>5, <2>6 DEF After
  <2>8. u \in 0 .. n - 1 /\ <<s, u>> \in sys.next
    BY <1>1, <2>7 DEF Successors
  <2>9. a[At(sys, u, t + 1)] = "TRUE"
    BY <1>4, <2>1, <2>5, <2>7, <2>8
  <2>10. FirstTrue(sys, a, t + 1) = u
    BY <1>7, <2>1, <2>8, <2>9
  <2> QED BY <2>3, <2>8, <2>10
<1> QED BY <1>8, <1>9

-----------------------------------------------------------------------------
(* The checker's invariant: the solver's, what there is before a system is   *)
(* unrolled and after, and TracesArePaths.                                   *)
Unrolled(sys, k, cs, N) == Formed(sys) /\ k \in Nat /\ cs = Unrolling(sys, k) /\ N = sys.n * (k + 1)
CheckInv ==
  /\ SearchInv /\ TracesArePaths
  /\ client \in {"formula", "system"}
  /\ client = "formula" => numVars = NumVars
  /\ client = "system" /\ system.n = 0 => status = "idle" /\ clauses = <<>> /\ trace = <<>>
  /\ client = "system" /\ system.n # 0 => Unrolled(system, bound, clauses, numVars)

LEMMA SearchAnswers ==
  ASSUME SearchInv
  PROVE  AnswersSound
<1>1. PICK N \in Nat : N = numVars
  BY DEF SearchInv, SearchState
<1>2. PICK cs \in Seq(SUBSET Literals(N)) : cs = clauses
  BY <1>1 DEF SearchInv, SearchState
<1>3. DOMAIN cs = 1 .. Len(cs)
  OBVIOUS
<1>4. Models = ModelsOf(cs, N)
  BY <1>1, <1>2, <1>3 DEF Models, ModelsOf, Assignments, AllMet, Meets
<1>5. Propagated(Search(Unassigned, AtLevelZero, 0)) = RootOf(cs, N)
  BY <1>1, <1>2 DEF Propagated, Unassigned, AtLevelZero, RootOf, Ruled
<1>6. Answers(status, assign, cs, N)
  BY <1>1, <1>2 DEF SearchInv, SearchState
<1> QED BY <1>4, <1>5, <1>6 DEF AnswersSound, Answers

LEMMA CheckStarts == CheckInit => CheckInv
<1> SUFFICES ASSUME CheckInit PROVE CheckInv
  OBVIOUS
<1>1. /\ client \in {"formula", "system"} /\ clauses = <<>> /\ numVars = NumVars /\ status = "idle" /\ trace = <<>>
      /\ system.n = 0
  BY DEF CheckInit
<1>2. Fresh(assign, level, numVars)
  BY DEF CheckInit, Fresh, Unassigned, AtLevelZero
<1>3. numVars \in Nat /\ clauses \in Seq(SUBSET Literals(numVars))
  BY <1>1, CheckAssumption
<1>4. SearchInv
  BY <1>1, <1>2, <1>3 DEF SearchInv, SearchState, Answers
<1>5. TracesArePaths
  BY <1>1 DEF TracesArePaths
<1> QED BY <1>1, <1>4, <1>5 DEF CheckInv

LEMMA CheckSteps ==
  ASSUME CheckInv, [CheckNext]_checkVars
  PROVE  CheckInv'
<1>1. PICK N \in Nat : N = numVars
  BY DEF CheckInv, SearchInv, SearchState
<1>2. PICK cs \in Seq(SUBSET Literals(N)) : cs = clauses
  BY <1>1 DEF CheckInv, SearchInv, SearchState
<1>3. CASE AddClause
  <2>1. /\ client = "formula" /\ status = "idle" /\ N = NumVars
        /\ UNCHANGED <<client, numVars, assign, level, current, status, system, bound, trace>>
    BY <1>1, <1>3 DEF AddClause, CheckInv
  <2>2. PICK c \in SUBSET Literals(N) : clauses' = Append(cs, c)
    BY <1>2, <1>3, <2>1 DEF AddClause
  <2>3. Append(cs, c) \in Seq(SUBSET Literals(N))
    OBVIOUS
  <2>4. Fresh(assign, level, N)
    BY <1>1, <2>1 DEF CheckInv, SearchInv, SearchState
  <2>5. SearchState(status', assign', level', current', clauses', N)
    BY <2>1, <2>2, <2>3, <2>4 DEF SearchState, Answers
  <2>6. SearchInv'
    BY <1>1, <2>1, <2>5 DEF SearchInv
  <2>7. TracesArePaths'
    BY <2>1 DEF CheckInv, TracesArePaths, Successors
  <2> QED BY <1>1, <2>1, <2>6, <2>7 DEF CheckInv
<1>4. CASE Solve
  <2>1. SearchInv'
    BY <1>4, SolveSound DEF CheckInv
  <2>2. clauses # <<>> /\ UNCHANGED <<client, clauses, numVars, system, bound, trace>>
    BY <1>4 DEF Solve
  <2>3. TracesArePaths'
    BY <2>2 DEF CheckInv, TracesArePaths, Successors
  <2> QED BY <2>1, <2>2, <2>3 DEF CheckInv
<1>5. CASE Decide
  <2>1. SearchInv'
    BY <1>5, DecideSound DEF CheckInv
  <2>2. status = "running" /\ UNCHANGED <<client, clauses, numVars, system, bound, trace>>
    BY <1>5 DEF Decide
  <2>3. TracesArePaths'
    BY <2>2 DEF CheckInv, TracesArePaths, Successors
  <2> QED BY <2>1, <2>2, <2>3 DEF CheckInv
<1>6. CASE Reset
  <2>1. client = "formula" /\ status' = "idle" /\ UNCHANGED <<client, clauses, numVars, system, bound, trace>>
    BY <1>6 DEF Reset
  <2>2. Fresh(assign', level', N)
    BY <1>1, <1>6 DEF Reset, Fresh, Unassigned, AtLevelZero
  <2>3. SearchState(status', assign', level', current', cs, N)
    BY <2>1, <2>2 DEF SearchState, Answers
  <2>4. SearchInv'
    BY <1>1, <1>2, <2>1, <2>3 DEF SearchInv
  <2>5. TracesArePaths'
    BY <2>1 DEF CheckInv, TracesArePaths, Successors
  <2> QED BY <2>1, <2>4, <2>5 DEF CheckInv
<1>7. CASE Unroll
  <2>1. client = "system" /\ system.n = 0 /\ status' = "idle" /\ UNCHANGED <<client, trace>>
    BY <1>7 DEF Unroll
  <2>2. PICK sys \in Systems, k \in 0 .. MaxBound :
          /\ system' = sys /\ bound' = k /\ clauses' = Unrolling(sys, k) /\ numVars' = sys.n * (k + 1)
          /\ Fresh(assign', level', sys.n * (k + 1))
    BY <1>7 DEF Unroll, Fresh
  <2>3. Formed(sys) /\ k \in Nat
    BY CheckAssumption DEF Systems, Formed
  <2>4. PICK u : u = Unrolling(sys, k)
    OBVIOUS
  <2>5. u \in Seq(SUBSET Cells(sys, k))
    BY <2>3, <2>4, UnrollingHas
  <2>6. PICK M \in Nat : M = sys.n * (k + 1)
    BY <2>3 DEF Formed
  <2>7. SearchState(status', assign', level', current', u, M)
    BY <2>1, <2>2, <2>5, <2>6 DEF SearchState, Answers, Cells
  <2>8. SearchInv'
    BY <2>2, <2>4, <2>6, <2>7 DEF SearchInv
  <2>9. trace' = <<>>
    BY <2>1 DEF CheckInv
  <2>10. TracesArePaths'
    BY <2>9 DEF TracesArePaths
  <2>11. Unrolled(system', bound', clauses', numVars') /\ system'.n # 0
    BY <2>2, <2>3 DEF Unrolled, Formed
  <2> QED BY <2>1, <2>8, <2>10, <2>11 DEF CheckInv
<1>8. CASE Extract
  <2>1. /\ client = "system" /\ status = "sat"
        /\ UNCHANGED <<client, clauses, numVars, assign, level, current, status, system, bound>>
    BY <1>8 DEF Extract
  <2>2. SearchInv'
    BY <2>1 DEF CheckInv, SearchInv
  <2>3. system.n # 0 /\ Unrolled(system, bound, clauses, numVars)
    BY <2>1 DEF CheckInv
  <2>4. PICK sys : sys = system
    OBVIOUS
  <2>5. PICK k \in Nat : k = bound
    BY <2>3 DEF Unrolled
  <2>6. PICK a : a = assign
    OBVIOUS
  <2>7. Formed(sys) /\ cs = Unrolling(sys, k) /\ N = sys.n * (k + 1)
    BY <1>1, <1>2, <2>3, <2>4, <2>5 DEF Unrolled
  <2>8. a \in ModelsOf(cs, N)
    BY <1>1, <1>2, <2>1, <2>6 DEF CheckInv, SearchInv, SearchState, Answers
  <2>9. /\ FirstTrue(sys, a, 0) = sys.initial
        /\ \A t \in 0 .. k - 1 :
             \/ <<FirstTrue(sys, a, t), FirstTrue(sys, a, t + 1)>> \in sys.next
             \/ Successors(sys, FirstTrue(sys, a, t)) = {}
    BY <2>7, <2>8, ModelIsPath
  <2>10. trace' = [t \in 1 .. k + 1 |-> FirstTrue(sys, a, t - 1)]
    BY <1>8, <2>4, <2>5, <2>6 DEF Extract, FirstTrue
  <2>11. trace'[1] = sys.initial
    BY <2>9, <2>10
  <2>12. ASSUME NEW t \in 1 .. k
         PROVE  <<trace'[t], trace'[t + 1]>> \in sys.next \/ Successors(sys, trace'[t]) = {}
    <3>1. t \in 1 .. k + 1 /\ t + 1 \in 1 .. k + 1 /\ t - 1 \in 0 .. k - 1 /\ (t + 1) - 1 = (t - 1) + 1
      OBVIOUS
    <3>2. trace'[t] = FirstTrue(sys, a, t - 1) /\ trace'[t + 1] = FirstTrue(sys, a, (t - 1) + 1)
      BY <2>10, <3>1
    <3> QED BY <2>9, <3>1, <3>2
  <2>13. system' = sys /\ bound' = k
    BY <2>1, <2>4, <2>5
  <2>14. TracesArePaths'
    BY <2>11, <2>12, <2>13 DEF TracesArePaths, Successors
  <2> QED BY <2>1, <2>2, <2>3, <2>14 DEF CheckInv
<1>9. CASE UNCHANGED checkVars
  BY <1>9 DEF checkVars, CheckInv, SearchInv, TracesArePaths, Successors
<1> QED BY <1>3, <1>4, <1>5, <1>6, <1>7, <1>8, <1>9 DEF CheckNext

(* The search answers soundly and its traces are paths, whatever the clauses *)
(* a caller adds and whatever the system that is unrolled.                   *)
THEOREM CheckCorrect == CheckSpec => []CheckSound
<1>1. CheckInv => CheckSound
  BY SearchAnswers DEF CheckInv, CheckSound
<1> QED BY CheckStarts, CheckSteps, <1>1, PTL DEF CheckSpec
-----------------------------------------------------------------------------
(* The assertion engine: what an expression of the heap comes to.            *)
LEMMA HoldsAlike ==
  ASSUME Engine!AssertAssumption, NEW sig, NEW f, NEW g, NEW n \in 0 .. Len(Heap),
         \A m \in 0 .. n - 1 : f[m] = g[m]
  PROVE  Engine!Holds(f, n, sig) = Engine!Holds(g, n, sig)
<1>1. CASE n = 0
  BY <1>1 DEF Engine!Holds
<1>2. CASE n # 0
  <2>1. n \in 1 .. Len(Heap)
    BY <1>2 DEF Engine!AssertAssumption
  <2>2. PICK e : e = Heap[n]
    OBVIOUS
  <2>3. /\ e.op \in {"DELAY", "REP", "AND", "OR"} => e.left \in 0 .. n - 1
        /\ e.op \in {"AND", "OR"} => e.right \in 0 .. n - 1
    BY <2>1, <2>2 DEF Engine!AssertAssumption
  <2>4. /\ e.op \in {"DELAY", "REP", "AND", "OR"} => f[e.left] = g[e.left]
        /\ e.op \in {"AND", "OR"} => f[e.right] = g[e.right]
    BY <2>3
  <2> QED BY <1>2, <2>2, <2>4, Zenon DEF Engine!Holds
<1> QED BY <1>1, <1>2

FindsUpTo(f, k, sig) == f = [n \in 0 .. k |-> Engine!Holds(f, n, sig)]

LEMMA FindingsExist ==
  ASSUME Engine!AssertAssumption, NEW sig
  PROVE  \E f : FindsUpTo(f, Len(Heap), sig)
<1> DEFINE T == {k \in Nat : k > Len(Heap) \/ \E f : FindsUpTo(f, k, sig)}
<1>0. Len(Heap) \in Nat
  BY DEF Engine!AssertAssumption
<1>1. 0 \in T
  <2> DEFINE f == [n \in 0 .. 0 |-> TRUE]
  <2>1. \A n \in 0 .. 0 : Engine!Holds(f, n, sig) = TRUE
    BY DEF Engine!Holds
  <2>2. FindsUpTo(f, 0, sig)
    BY <2>1 DEF FindsUpTo
  <2> QED BY <2>2
<1>2. ASSUME NEW k \in T PROVE k + 1 \in T
  <2>1. k \in Nat
    OBVIOUS
  <2>2. CASE k + 1 > Len(Heap)
    BY <2>1, <2>2
  <2>3. CASE k + 1 <= Len(Heap)
    <3>1. PICK g : FindsUpTo(g, k, sig)
      BY <1>0, <2>1, <2>3
    <3> DEFINE f == [n \in 0 .. k + 1 |-> IF n = k + 1 THEN Engine!Holds(g, k + 1, sig) ELSE g[n]]
    <3>2. \A n \in 0 .. k : g[n] = Engine!Holds(g, n, sig)
      BY <3>1, Zenon DEF FindsUpTo
    <3>3. \A m \in 0 .. k : f[m] = g[m]
      BY <2>1
    <3>4. ASSUME NEW n \in 0 .. k + 1 PROVE f[n] = Engine!Holds(f, n, sig)
      <4>1. f[n] = Engine!Holds(g, n, sig)
        <5>1. CASE n = k + 1
          BY <5>1
        <5>2. CASE n # k + 1
          <6>1. n \in 0 .. k
            BY <2>1, <5>2
          <6> QED BY <3>2, <3>3, <6>1
        <5> QED BY <5>1, <5>2
      <4>2. n \in 0 .. Len(Heap) /\ \A m \in 0 .. n - 1 : f[m] = g[m]
        BY <1>0, <2>1, <2>3, <3>3
      <4> HIDE DEF f
      <4>3. Engine!Holds(f, n, sig) = Engine!Holds(g, n, sig)
        BY <4>2, HoldsAlike
      <4> QED BY <4>1, <4>3
    <3>5. FindsUpTo(f, k + 1, sig)
      BY <3>4 DEF FindsUpTo
    <3>6. \E h : FindsUpTo(h, k + 1, sig)
      BY <3>5
    <3> QED BY <2>1, <3>6
  <2> QED BY <1>0, <2>1, <2>2, <2>3
<1> HIDE DEF T
<1>3. \A k \in Nat : k \in T
  <2>1. T \in SUBSET Nat
    BY DEF T
  <2> QED BY <1>1, <1>2, <2>1, Climb
<1> QED BY <1>0, <1>3 DEF T

(* What is matched follows from what its parts are.                          *)
LEMMA MatchedUnfolds ==
  ASSUME Engine!AssertAssumption, NEW sig
  PROVE  \E f : \A e \in 0 .. Len(Heap) : Engine!Matched(e, sig) = f[e] /\ f[e] = Engine!Holds(f, e, sig)
<1> DEFINE g == CHOOSE h : FindsUpTo(h, Len(Heap), sig)
<1>1. \E h : FindsUpTo(h, Len(Heap), sig)
  BY FindingsExist
<1>2. g = [n \in 0 .. Len(Heap) |-> Engine!Holds(g, n, sig)]
  BY <1>1, Zenon DEF FindsUpTo
<1>3. \A e : Engine!Matched(e, sig) = g[e]
  BY Zenon DEF Engine!Matched, FindsUpTo
<1> HIDE DEF g
<1>4. \A e \in 0 .. Len(Heap) : g[e] = Engine!Holds(g, e, sig)
  BY <1>2, Zenon
<1> QED BY <1>3, <1>4

LEMMA MatchedParts ==
  ASSUME Engine!AssertAssumption, NEW sig, NEW n \in 1 .. Len(Heap)
  PROVE  /\ Heap[n].op = "AND" => (Engine!Matched(n, sig) => Engine!Matched(Heap[n].left, sig))
         /\ Heap[n].op = "OR" => (Engine!Matched(Heap[n].right, sig) => Engine!Matched(n, sig))
<1>1. PICK f : \A e \in 0 .. Len(Heap) : Engine!Matched(e, sig) = f[e] /\ f[e] = Engine!Holds(f, e, sig)
  BY MatchedUnfolds
<1>0. Len(Heap) \in Nat
  BY DEF Engine!AssertAssumption
<1>2. n \in 0 .. Len(Heap) /\ n # 0
  BY <1>0
<1>3. Engine!Matched(n, sig) = Engine!Holds(f, n, sig)
  BY <1>1, <1>2
<1>4. CASE Heap[n].op = "AND"
  <2>1. Heap[n].left \in 0 .. Len(Heap)
    BY <1>0, <1>4 DEF Engine!AssertAssumption
  <2>2. Engine!Matched(Heap[n].left, sig) = f[Heap[n].left]
    BY <1>1, <2>1
  <2>3. Engine!Holds(f, n, sig) => f[Heap[n].left]
    BY <1>2, <1>4, Zenon DEF Engine!Holds
  <2> QED BY <1>3, <1>4, <2>2, <2>3
<1>5. CASE Heap[n].op = "OR"
  <2>1. Heap[n].right \in 0 .. Len(Heap)
    BY <1>0, <1>5 DEF Engine!AssertAssumption
  <2>2. Engine!Matched(Heap[n].right, sig) = f[Heap[n].right]
    BY <1>1, <2>1
  <2>3. f[Heap[n].right] => Engine!Holds(f, n, sig)
    BY <1>2, <1>5, Zenon DEF Engine!Holds
  <2> QED BY <1>3, <1>5, <2>2, <2>3
<1> QED BY <1>4, <1>5

(* Sums: what one more number, or a larger one, adds.                        *)
SumsUpTo(s, k, f) == s = [n \in 0 .. k |-> Engine!Added(s, f, n)]

LEMMA SumsExist ==
  ASSUME NEW f
  PROVE  \A k \in Nat : \E s : SumsUpTo(s, k, f)
<1> DEFINE T == {k \in Nat : \E s : SumsUpTo(s, k, f)}
<1>1. 0 \in T
  <2> DEFINE s == [n \in 0 .. 0 |-> 0]
  <2>1. SumsUpTo(s, 0, f)
    BY DEF Engine!Added, SumsUpTo
  <2> QED BY <2>1
<1>2. ASSUME NEW k \in T PROVE k + 1 \in T
  <2>1. PICK g : SumsUpTo(g, k, f)
    OBVIOUS
  <2>2. k \in Nat
    OBVIOUS
  <2> DEFINE s == [n \in 0 .. k + 1 |-> IF n = k + 1 THEN Engine!Added(g, f, k + 1) ELSE g[n]]
  <2>3. \A n \in 0 .. k : g[n] = Engine!Added(g, f, n)
    BY <2>1, Zenon DEF SumsUpTo
  <2>4. ASSUME NEW n \in 0 .. k + 1 PROVE s[n] = Engine!Added(s, f, n)
    <3>1. s[n] = Engine!Added(g, f, n)
      <4>1. CASE n = k + 1
        BY <4>1
      <4>2. CASE n # k + 1
        <5>1. n \in 0 .. k
          BY <2>2, <4>2
        <5> QED BY <2>3, <4>2, <5>1
      <4> QED BY <4>1, <4>2
    <3>2. CASE n = 0
      BY <3>1, <3>2 DEF Engine!Added
    <3>3. CASE n # 0
      <4>1. n - 1 \in 0 .. k + 1 /\ n - 1 # k + 1
        BY <2>2, <3>3
      <4>2. s[n - 1] = g[n - 1]
        BY <4>1
      <4> QED BY <3>1, <3>3, <4>2 DEF Engine!Added
    <3> QED BY <3>2, <3>3
  <2>5. SumsUpTo(s, k + 1, f)
    BY <2>4 DEF SumsUpTo
  <2>6. \E h : SumsUpTo(h, k + 1, f)
    BY <2>5
  <2> QED BY <2>2, <2>6
<1> HIDE DEF T
<1>3. \A k \in Nat : k \in T
  <2>1. T \in SUBSET Nat
    BY DEF T
  <2> QED BY <1>1, <1>2, <2>1, Climb
<1> QED BY <1>3 DEF T

LEMMA SumUnfolds ==
  ASSUME NEW m \in Nat, NEW f \in [1 .. m -> Nat]
  PROVE  \E s : Engine!Sum(f) = s[m] /\ s[0] = 0 /\ \A n \in 1 .. m : s[n] = s[n - 1] + f[n]
<1> DEFINE g == CHOOSE h : SumsUpTo(h, Len(f), f)
<1>0. Len(f) = m
  OBVIOUS
<1>1. \E h : SumsUpTo(h, Len(f), f)
  BY <1>0, SumsExist
<1>2. g = [n \in 0 .. Len(f) |-> Engine!Added(g, f, n)]
  BY <1>1, Zenon DEF SumsUpTo
<1>3. Engine!Sum(f) = g[Len(f)]
  BY Zenon DEF Engine!Sum, SumsUpTo
<1> HIDE DEF g
<1>4. \A n \in 0 .. m : g[n] = Engine!Added(g, f, n)
  BY <1>0, <1>2, Zenon
<1>5. g[0] = 0
  BY <1>4 DEF Engine!Added
<1>6. ASSUME NEW n \in 1 .. m PROVE g[n] = g[n - 1] + f[n]
  <2>1. n \in 0 .. m /\ n # 0
    OBVIOUS
  <2> QED BY <1>4, <2>1 DEF Engine!Added
<1>7. Engine!Sum(f) = g[m]
  BY <1>0, <1>3
<1> QED BY <1>5, <1>6, <1>7, Zenon

(* The sums of f and g run apart by d from place k on.                       *)
LEMMA SumsApart ==
  ASSUME NEW m \in Nat, NEW f \in [1 .. m -> Nat], NEW g \in [1 .. m -> Nat], NEW k \in 1 .. m, NEW d \in Nat,
         \A n \in 1 .. m : g[n] = IF n = k THEN f[n] + d ELSE f[n]
  PROVE  Engine!Sum(f) \in Nat /\ Engine!Sum(g) = Engine!Sum(f) + d
<1>2. PICK s : Engine!Sum(f) = s[m] /\ s[0] = 0 /\ \A n \in 1 .. m : s[n] = s[n - 1] + f[n]
  BY SumUnfolds
<1>3. PICK t : Engine!Sum(g) = t[m] /\ t[0] = 0 /\ \A n \in 1 .. m : t[n] = t[n - 1] + g[n]
  BY SumUnfolds
<1> DEFINE T == {n \in Nat : n <= m => s[n] \in Nat /\ t[n] = s[n] + (IF n >= k THEN d ELSE 0)}
<1>4. 0 \in T
  BY <1>2, <1>3
<1>5. ASSUME NEW n \in T PROVE n + 1 \in T
  <2>1. n \in Nat /\ (n <= m => s[n] \in Nat /\ t[n] = s[n] + (IF n >= k THEN d ELSE 0))
    OBVIOUS
  <2>2. ASSUME n + 1 <= m PROVE s[n + 1] \in Nat /\ t[n + 1] = s[n + 1] + (IF n + 1 >= k THEN d ELSE 0)
    <3>1. n + 1 \in 1 .. m /\ (n + 1) - 1 = n /\ n <= m
      BY <2>1, <2>2
    <3>2. s[n + 1] = s[n] + f[n + 1] /\ t[n + 1] = t[n] + g[n + 1]
      BY <1>2, <1>3, <3>1
    <3>3. f[n + 1] \in Nat
      BY <3>1
    <3>4. g[n + 1] = IF n + 1 = k THEN f[n + 1] + d ELSE f[n + 1]
      BY <3>1
    <3>5. PICK i, v \in Nat : i = s[n] /\ v = f[n + 1]
      BY <2>1, <3>1, <3>3
    <3>6. PICK e \in {0, d} : t[n] = i + e /\ e = IF n >= k THEN d ELSE 0
      BY <2>1, <3>1, <3>5
    <3>7. s[n + 1] = i + v /\ i + v \in Nat
      BY <3>2, <3>5
    <3>8. CASE n + 1 = k
      <4>1. t[n + 1] = i + (v + d)
        BY <3>1, <3>2, <3>4, <3>5, <3>6, <3>8
      <4> QED BY <3>7, <3>8, <4>1
    <3>9. CASE n + 1 # k
      <4>1. t[n + 1] = (i + e) + v
        BY <3>2, <3>4, <3>5, <3>6, <3>9
      <4>2. e = IF n + 1 >= k THEN d ELSE 0
        BY <3>1, <3>6, <3>9
      <4> QED BY <3>7, <4>1, <4>2
    <3> QED BY <3>8, <3>9
  <2> QED BY <2>1, <2>2
<1> HIDE DEF T
<1>6. \A n \in Nat : n \in T
  <2>1. T \in SUBSET Nat
    BY DEF T
  <2> QED BY <1>4, <1>5, <2>1, Climb
<1>7. s[m] \in Nat /\ t[m] = s[m] + d
  BY <1>6 DEF T
<1> QED BY <1>2, <1>3, <1>7

LEMMA SumAppended ==
  ASSUME NEW m \in Nat, NEW f \in [1 .. m -> Nat], NEW g \in [1 .. m + 1 -> Nat],
         \A n \in 1 .. m : g[n] = f[n]
  PROVE  Engine!Sum(g) = Engine!Sum(f) + g[m + 1]
<1>2. PICK s : Engine!Sum(f) = s[m] /\ s[0] = 0 /\ \A n \in 1 .. m : s[n] = s[n - 1] + f[n]
  BY SumUnfolds
<1>1. PICK p \in Nat : p = m + 1
  OBVIOUS
<1>3. PICK t : Engine!Sum(g) = t[m + 1] /\ t[0] = 0 /\ \A n \in 1 .. m + 1 : t[n] = t[n - 1] + g[n]
  <2>1. g \in [1 .. p -> Nat]
    BY <1>1
  <2>2. \E t : Engine!Sum(g) = t[p] /\ t[0] = 0 /\ \A n \in 1 .. p : t[n] = t[n - 1] + g[n]
    BY <2>1, SumUnfolds
  <2> QED BY <1>1, <2>2
<1> DEFINE T == {n \in Nat : n <= m => t[n] = s[n]}
<1>4. 0 \in T
  BY <1>2, <1>3
<1>5. ASSUME NEW n \in T PROVE n + 1 \in T
  <2>1. n \in Nat /\ (n <= m => t[n] = s[n])
    OBVIOUS
  <2>2. ASSUME n + 1 <= m PROVE t[n + 1] = s[n + 1]
    <3>1. n + 1 \in 1 .. m /\ n + 1 \in 1 .. m + 1 /\ (n + 1) - 1 = n /\ n <= m
      BY <2>1, <2>2
    <3>2. s[n + 1] = s[n] + f[n + 1] /\ t[n + 1] = t[n] + g[n + 1]
      BY <1>2, <1>3, <3>1
    <3> QED BY <2>1, <3>1, <3>2
  <2> QED BY <2>1, <2>2
<1> HIDE DEF T
<1>6. \A n \in Nat : n \in T
  <2>1. T \in SUBSET Nat
    BY DEF T
  <2> QED BY <1>4, <1>5, <2>1, Climb
<1>7. t[m] = s[m]
  BY <1>6 DEF T
<1>8. t[m + 1] = t[m] + g[m + 1]
  <2>1. m + 1 \in 1 .. m + 1 /\ (m + 1) - 1 = m
    OBVIOUS
  <2> QED BY <1>3, <2>1
<1> QED BY <1>2, <1>3, <1>7, <1>8
-----------------------------------------------------------------------------
(* The counters of the engine are the sums of those of its assertions, at    *)
(* every moment of a call; an assertion that nothing may switch off is on.    *)
Props == {a.prop : a \in Asserted}
Counters ==
  [prop : Props, clocked : BOOLEAN, onFail : {"none", "drive", "disable"}, active : BOOLEAN,
   attempts : Nat, pass : Nat, fail : Nat]
PassesOf(x) == [n \in DOMAIN x |-> x[n].pass]
FailsOf(x) == [n \in DOMAIN x |-> x[n].fail]
Tally(x, t) ==
  /\ x \in Seq(Counters) /\ t \in [attempts : Nat, pass : Nat, fail : Nat]
  /\ t.pass = Engine!Sum(PassesOf(x)) /\ t.fail = Engine!Sum(FailsOf(x))
  /\ t.attempts = t.pass + t.fail
  /\ \A n \in DOMAIN x : x[n].attempts = x[n].pass + x[n].fail /\ (x[n].onFail # "disable" => x[n].active)

LEMMA AttemptCounts ==
  ASSUME NEW a \in Counters, NEW ok
  PROVE  LET c == Engine!Attempted(a, ok)
         IN  /\ c \in Counters /\ c.prop = a.prop /\ c.clocked = a.clocked /\ c.onFail = a.onFail
             /\ c.attempts = a.attempts + 1
             /\ c.pass = a.pass + (IF ok THEN 1 ELSE 0) /\ c.fail = a.fail + (IF ok THEN 0 ELSE 1)
             /\ a.onFail # "disable" => c.active
<1> DEFINE c == Engine!Attempted(a, ok)
<1>1. PICK p \in {0, 1} : p = IF ok THEN 1 ELSE 0
  OBVIOUS
<1>2. PICK d \in {0, 1} : d = IF ok THEN 0 ELSE 1
  OBVIOUS
<1>3. PICK w \in BOOLEAN : w <=> (ok \/ a.onFail # "disable")
  OBVIOUS
<1>4. c = [a EXCEPT !.attempts = a.attempts + 1, !.pass = a.pass + p, !.fail = a.fail + d, !.active = w]
  BY <1>1, <1>2, <1>3 DEF Engine!Attempted
<1> HIDE DEF c
<1>5. c \in Counters
  <2>1. a.attempts + 1 \in Nat /\ a.pass + p \in Nat /\ a.fail + d \in Nat
    BY DEF Counters
  <2>2. PICK i, j, k \in Nat : i = a.attempts + 1 /\ j = a.pass + p /\ k = a.fail + d
    BY <2>1
  <2>3. c = [a EXCEPT !.attempts = i, !.pass = j, !.fail = k, !.active = w]
    BY <1>4, <2>2
  <2> QED BY <2>3 DEF Counters
<1>6. /\ c.prop = a.prop /\ c.clocked = a.clocked /\ c.onFail = a.onFail
      /\ c.attempts = a.attempts + 1 /\ c.pass = a.pass + p /\ c.fail = a.fail + d /\ c.active = w
  BY <1>4 DEF Counters
<1> QED BY <1>1, <1>2, <1>3, <1>5, <1>6 DEF c

(* One assertion's counters are p and d further on in y than in x.           *)
Raised(m, x, y, n, p, d) ==
  /\ m \in Nat /\ n \in 1 .. m /\ p \in Nat /\ d \in Nat
  /\ x \in [1 .. m -> Counters] /\ y \in [1 .. m -> Counters]
  /\ \A k \in 1 .. m : k # n => y[k] = x[k]
  /\ y[n].pass = x[n].pass + p /\ y[n].fail = x[n].fail + d
SumsRaised(x, y, p, d) ==
  /\ Engine!Sum(PassesOf(x)) \in Nat /\ Engine!Sum(PassesOf(y)) = Engine!Sum(PassesOf(x)) + p
  /\ Engine!Sum(FailsOf(x)) \in Nat /\ Engine!Sum(FailsOf(y)) = Engine!Sum(FailsOf(x)) + d

LEMMA CountersSummed ==
  ASSUME NEW m, NEW x, NEW y, NEW n, NEW p, NEW d, Raised(m, x, y, n, p, d)
  PROVE  SumsRaised(x, y, p, d)
<1>0. /\ m \in Nat /\ n \in 1 .. m /\ p \in Nat /\ d \in Nat
      /\ x \in [1 .. m -> Counters] /\ y \in [1 .. m -> Counters]
      /\ \A k \in 1 .. m : k # n => y[k] = x[k]
      /\ y[n].pass = x[n].pass + p /\ y[n].fail = x[n].fail + d
  BY DEF Raised
<1>1. \A k \in 1 .. m : x[k] \in Counters /\ y[k] \in Counters
  BY <1>0
<1>2. \A k \in 1 .. m : x[k].pass \in Nat /\ y[k].pass \in Nat /\ x[k].fail \in Nat /\ y[k].fail \in Nat
  BY <1>1 DEF Counters
<1>3. PICK f, g : f = PassesOf(x) /\ g = PassesOf(y)
  OBVIOUS
<1>4. /\ f \in [1 .. m -> Nat] /\ g \in [1 .. m -> Nat]
      /\ \A k \in 1 .. m : g[k] = IF k = n THEN f[k] + p ELSE f[k]
  BY <1>0, <1>2, <1>3 DEF PassesOf
<1>5. Engine!Sum(f) \in Nat /\ Engine!Sum(g) = Engine!Sum(f) + p
  BY <1>0, <1>4, SumsApart
<1>6. PICK e, h : e = FailsOf(x) /\ h = FailsOf(y)
  OBVIOUS
<1>7. /\ e \in [1 .. m -> Nat] /\ h \in [1 .. m -> Nat]
      /\ \A k \in 1 .. m : h[k] = IF k = n THEN e[k] + d ELSE e[k]
  BY <1>0, <1>2, <1>6 DEF FailsOf
<1>8. Engine!Sum(e) \in Nat /\ Engine!Sum(h) = Engine!Sum(e) + d
  BY <1>0, <1>7, SumsApart
<1> QED BY <1>3, <1>5, <1>6, <1>8 DEF SumsRaised

LEMMA JudgedCounts ==
  ASSUME NEW r, Tally(r.asserts, r.totals), NEW n \in DOMAIN r.asserts
  PROVE  LET q == Engine!Judged(r, n)
         IN  /\ Tally(q.asserts, q.totals) /\ DOMAIN q.asserts = DOMAIN r.asserts
             /\ \A k \in DOMAIN r.asserts : q.asserts[k].onFail = r.asserts[k].onFail
<1> DEFINE q == Engine!Judged(r, n)
           ok == Engine!Passed(r.asserts[n].prop, r.signal)
<1>1. PICK x \in Seq(Counters) : x = r.asserts
  BY DEF Tally
<1>2. PICK t \in [attempts : Nat, pass : Nat, fail : Nat] : t = r.totals
  BY DEF Tally
<1>3. Tally(x, t) /\ n \in DOMAIN x
  BY <1>1, <1>2
<1>4. CASE q = r
  BY <1>4
<1>5. CASE q # r
  <2> DEFINE c == Engine!Attempted(x[n], ok)
             p == IF ok THEN 1 ELSE 0
             y == [x EXCEPT ![n] = c]
  <2>1. /\ q.asserts = y
        /\ q.totals = [attempts |-> t.attempts + 1, pass |-> t.pass + p, fail |-> t.fail + (1 - p)]
    BY <1>1, <1>2, <1>5 DEF Engine!Judged
  <2>2. x[n] \in Counters
    BY <1>3
  <2>3. /\ c \in Counters /\ c.onFail = x[n].onFail /\ c.attempts = x[n].attempts + 1
        /\ c.pass = x[n].pass + p /\ c.fail = x[n].fail + (1 - p) /\ (x[n].onFail # "disable" => c.active)
    <3> HIDE DEF ok
    <3> QED BY <2>2, AttemptCounts
  <2>4. p \in {0, 1}
    OBVIOUS
  <2> HIDE DEF c, p, q
  <2>5. y \in Seq(Counters) /\ DOMAIN y = DOMAIN x /\ \A k \in DOMAIN x : y[k] = IF k = n THEN c ELSE x[k]
    BY <1>3, <2>3
  <2> HIDE DEF y
  <2>6. PICK m \in Nat : m = Len(x) /\ DOMAIN x = 1 .. m
    OBVIOUS
  <2>7. /\ Engine!Sum(PassesOf(x)) \in Nat /\ Engine!Sum(PassesOf(y)) = Engine!Sum(PassesOf(x)) + p
        /\ Engine!Sum(FailsOf(x)) \in Nat /\ Engine!Sum(FailsOf(y)) = Engine!Sum(FailsOf(x)) + (1 - p)
    <3>1. PICK d : d = 1 - p
      OBVIOUS
    <3>2. p \in Nat /\ d \in Nat /\ n \in 1 .. m /\ x \in [1 .. m -> Counters] /\ y \in [1 .. m -> Counters]
      BY <1>3, <2>4, <2>5, <2>6, <3>1
    <3>3. \A k \in 1 .. m : k # n => y[k] = x[k]
      BY <2>5, <2>6
    <3>4. y[n].pass = x[n].pass + p /\ y[n].fail = x[n].fail + d
      BY <1>3, <2>3, <2>5, <3>1
    <3>5. Raised(m, x, y, n, p, d)
      BY <3>2, <3>3, <3>4 DEF Raised
    <3>6. SumsRaised(x, y, p, d)
      BY <3>5, CountersSummed, Zenon
    <3> QED BY <3>1, <3>6 DEF SumsRaised
  <2>9. \A k \in DOMAIN y : y[k].attempts = y[k].pass + y[k].fail /\ (y[k].onFail # "disable" => y[k].active)
    <3>1. x[n].attempts = x[n].pass + x[n].fail /\ (x[n].onFail # "disable" => x[n].active)
      BY <1>3 DEF Tally
    <3>2. c.attempts = c.pass + c.fail
      <4>1. PICK u, v, w \in Nat : u = x[n].attempts /\ v = x[n].pass /\ w = x[n].fail
        BY <2>2 DEF Counters
      <4>2. u = v + w
        BY <3>1, <4>1
      <4>3. c.attempts = u + 1 /\ c.pass = v + p /\ c.fail = w + (1 - p)
        BY <2>3, <4>1
      <4>4. u + 1 = (v + p) + (w + (1 - p))
        BY <2>4, <4>2
      <4> QED BY <4>3, <4>4
    <3> QED BY <1>3, <2>3, <2>5, <3>1, <3>2 DEF Tally
  <2>10. /\ t.pass = Engine!Sum(PassesOf(x)) /\ t.fail = Engine!Sum(FailsOf(x))
         /\ t.attempts = t.pass + t.fail
    BY <1>3 DEF Tally
  <2>11. q.totals \in [attempts : Nat, pass : Nat, fail : Nat] /\ q.totals.attempts = q.totals.pass + q.totals.fail
    <3>1. /\ t.attempts \in Nat /\ t.pass \in Nat /\ t.fail \in Nat
          /\ t.attempts + 1 \in Nat /\ t.pass + p \in Nat /\ t.fail + (1 - p) \in Nat
      BY <2>4
    <3>2. PICK i, j, k \in Nat : i = t.attempts + 1 /\ j = t.pass + p /\ k = t.fail + (1 - p)
      BY <3>1
    <3>3. i = j + k
      <4>1. PICK u, v, w \in Nat : u = t.attempts /\ v = t.pass /\ w = t.fail
        BY <3>1
      <4>2. u = v + w
        BY <2>10, <4>1
      <4>3. i = u + 1 /\ j = v + p /\ k = w + (1 - p)
        BY <3>2, <4>1
      <4> QED BY <2>4, <4>2, <4>3
    <3>4. q.totals = [attempts |-> i, pass |-> j, fail |-> k]
      BY <2>1, <3>2
    <3> QED BY <3>3, <3>4
  <2>12. q.totals.pass = Engine!Sum(PassesOf(y)) /\ q.totals.fail = Engine!Sum(FailsOf(y))
    BY <2>1, <2>7, <2>10
  <2>13. Tally(y, q.totals)
    BY <2>5, <2>9, <2>11, <2>12 DEF Tally
  <2>14. \A k \in DOMAIN x : y[k].onFail = x[k].onFail
    BY <2>3, <2>5
  <2> QED BY <1>1, <2>1, <2>5, <2>13, <2>14 DEF q
<1> QED BY <1>4, <1>5

(* A call of the engine judges one assertion after the other.                *)
JudgesUpTo(j, k) == j = [n \in 0 .. k |-> Engine!Judgement(j, n)]

LEMMA JudgementsExist == \A k \in Nat : \E j : JudgesUpTo(j, k)
<1> DEFINE T == {k \in Nat : \E j : JudgesUpTo(j, k)}
<1>1. 0 \in T
  <2> DEFINE j == [n \in 0 .. 0 |-> Engine!Now]
  <2>1. JudgesUpTo(j, 0)
    BY DEF Engine!Judgement, JudgesUpTo
  <2> QED BY <2>1
<1>2. ASSUME NEW k \in T PROVE k + 1 \in T
  <2>1. PICK g : JudgesUpTo(g, k)
    OBVIOUS
  <2>2. k \in Nat
    OBVIOUS
  <2> DEFINE j == [n \in 0 .. k + 1 |-> IF n = k + 1 THEN Engine!Judgement(g, k + 1) ELSE g[n]]
  <2>3. \A n \in 0 .. k : g[n] = Engine!Judgement(g, n)
    BY <2>1, Zenon DEF JudgesUpTo
  <2>4. ASSUME NEW n \in 0 .. k + 1 PROVE j[n] = Engine!Judgement(j, n)
    <3>1. j[n] = Engine!Judgement(g, n)
      <4>1. CASE n = k + 1
        BY <4>1
      <4>2. CASE n # k + 1
        <5>1. n \in 0 .. k
          BY <2>2, <4>2
        <5> QED BY <2>3, <4>2, <5>1
      <4> QED BY <4>1, <4>2
    <3>2. CASE n = 0
      BY <3>1, <3>2 DEF Engine!Judgement
    <3>3. CASE n # 0
      <4>1. n - 1 \in 0 .. k + 1 /\ n - 1 # k + 1
        BY <2>2, <3>3
      <4>2. j[n - 1] = g[n - 1]
        BY <4>1
      <4> QED BY <3>1, <3>3, <4>2 DEF Engine!Judgement
    <3> QED BY <3>2, <3>3
  <2>5. JudgesUpTo(j, k + 1)
    BY <2>4 DEF JudgesUpTo
  <2>6. \E h : JudgesUpTo(h, k + 1)
    BY <2>5
  <2> QED BY <2>2, <2>6
<1> HIDE DEF T
<1>3. \A k \in Nat : k \in T
  <2>1. T \in SUBSET Nat
    BY DEF T
  <2> QED BY <1>1, <1>2, <2>1, Climb
<1> QED BY <1>3 DEF T

LEMMA CallUnfolds ==
  ASSUME NEW m \in Nat, m = Len(asserts)
  PROVE  \E j : Engine!AllJudged = j[m] /\ j[0] = Engine!Now /\ \A n \in 1 .. m : j[n] = Engine!Judged(j[n - 1], n)
<1> DEFINE g == CHOOSE h : JudgesUpTo(h, Len(asserts))
<1>1. \E h : JudgesUpTo(h, Len(asserts))
  BY JudgementsExist
<1>2. g = [n \in 0 .. Len(asserts) |-> Engine!Judgement(g, n)]
  BY <1>1, Zenon DEF JudgesUpTo
<1>3. Engine!AllJudged = g[Len(asserts)]
  BY Zenon DEF Engine!AllJudged, JudgesUpTo
<1> HIDE DEF g
<1>4. \A n \in 0 .. m : g[n] = Engine!Judgement(g, n)
  BY <1>2, Zenon
<1>5. g[0] = Engine!Now
  BY <1>4 DEF Engine!Judgement
<1>6. ASSUME NEW n \in 1 .. m PROVE g[n] = Engine!Judged(g[n - 1], n)
  <2>1. n \in 0 .. m /\ n # 0
    OBVIOUS
  <2> QED BY <1>4, <2>1 DEF Engine!Judgement
<1>7. Engine!AllJudged = g[m]
  BY <1>3
<1> QED BY <1>5, <1>6, <1>7, Zenon

LEMMA CallCounts ==
  ASSUME Tally(asserts, totals), Engine!Evaluate
  PROVE  /\ Tally(asserts', totals') /\ DOMAIN asserts' = DOMAIN asserts
         /\ \A n \in DOMAIN asserts : asserts'[n].onFail = asserts[n].onFail
<1>1. PICK m \in Nat : m = Len(asserts) /\ DOMAIN asserts = 1 .. m
  BY DEF Tally
<1>2. PICK j : /\ Engine!AllJudged = j[m] /\ j[0] = Engine!Now
               /\ \A n \in 1 .. m : j[n] = Engine!Judged(j[n - 1], n)
  BY <1>1, CallUnfolds
<1> DEFINE Right(r) == /\ Tally(r.asserts, r.totals) /\ DOMAIN r.asserts = 1 .. m
                       /\ \A i \in 1 .. m : r.asserts[i].onFail = asserts[i].onFail
           T == {n \in Nat : n <= m => Right(j[n])}
<1>3. 0 \in T
  BY <1>1, <1>2 DEF Engine!Now
<1>4. ASSUME NEW n \in T PROVE n + 1 \in T
  <2>1. ASSUME n + 1 <= m PROVE Right(j[n + 1])
    <3>1. n \in Nat /\ n + 1 \in 1 .. m /\ (n + 1) - 1 = n /\ n <= m
      BY <2>1
    <3>2. PICK r : r = j[n]
      OBVIOUS
    <3>3. Right(r)
      BY <3>1, <3>2
    <3>4. j[n + 1] = Engine!Judged(r, n + 1)
      BY <1>2, <3>1, <3>2
    <3>5. n + 1 \in DOMAIN r.asserts
      BY <3>1, <3>3
    <3> QED BY <3>3, <3>4, <3>5, JudgedCounts
  <2> QED BY <2>1
<1> HIDE DEF T
<1>5. \A n \in Nat : n \in T
  <2>1. T \in SUBSET Nat
    BY DEF T
  <2> QED BY <1>3, <1>4, <2>1, Climb
<1>6. Right(j[m])
  BY <1>5 DEF T
<1>7. asserts' = j[m].asserts /\ totals' = j[m].totals
  BY <1>2 DEF Engine!Evaluate
<1> QED BY <1>1, <1>6, <1>7
(* When nothing answers a failure, a call judges every assertion that is due  *)
(* on the values that the signals had before it.                              *)
Reckoned(a) ==
  IF a.clocked /\ signal["clk"].value # 1 THEN a ELSE Engine!Attempted(a, Engine!Passed(a.prop, signal))

LEMMA QuietJudgement ==
  ASSUME NEW r, NEW x, NEW n, x \in Seq(Counters), n \in DOMAIN x, x[n].onFail = "none", x[n].active,
         r.asserts = x, r.signal = signal
  PROVE  LET q == Engine!Judged(r, n)
         IN  q.signal = signal /\ q.asserts = [x EXCEPT ![n] = Reckoned(x[n])]
<1>1. PICK a : a = x[n]
  OBVIOUS
<1>2. CASE a.clocked /\ signal["clk"].value # 1
  <2>1. Engine!Judged(r, n) = r
    BY <1>1, <1>2 DEF Engine!Judged
  <2>2. [x EXCEPT ![n] = Reckoned(x[n])] = x
    BY <1>1, <1>2 DEF Reckoned
  <2> QED BY <2>1, <2>2
<1>3. CASE ~ (a.clocked /\ signal["clk"].value # 1)
  <2>1. Reckoned(a) = Engine!Attempted(a, Engine!Passed(a.prop, signal))
    BY <1>3 DEF Reckoned
  <2> QED BY <1>1, <1>3, <2>1 DEF Engine!Judged
<1> QED BY <1>2, <1>3

LEMMA QuietCall ==
  ASSUME Tally(asserts, totals), Engine!Undisturbed, Engine!Evaluate
  PROVE  DOMAIN asserts' = DOMAIN asserts /\ \A n \in DOMAIN asserts : asserts'[n] = Reckoned(asserts[n])
<1>1. PICK m \in Nat : m = Len(asserts) /\ DOMAIN asserts = 1 .. m
  BY DEF Tally
<1>2. PICK j : /\ Engine!AllJudged = j[m] /\ j[0] = Engine!Now
               /\ \A n \in 1 .. m : j[n] = Engine!Judged(j[n - 1], n)
  BY <1>1, CallUnfolds
<1>3. \A n \in 1 .. m : asserts[n] \in Counters /\ asserts[n].onFail = "none" /\ asserts[n].active
  BY <1>1 DEF Tally, Engine!Undisturbed
<1>4. \A n \in 1 .. m : Reckoned(asserts[n]) \in Counters /\ Reckoned(asserts[n]).onFail = asserts[n].onFail
  BY <1>3, AttemptCounts DEF Reckoned
<1> DEFINE Judged(n) == [i \in 1 .. m |-> IF i <= n THEN Reckoned(asserts[i]) ELSE asserts[i]]
           T == {n \in Nat : n <= m => j[n].signal = signal /\ j[n].asserts = Judged(n)}
<1>5. 0 \in T
  <2>1. asserts = Judged(0)
    BY <1>1 DEF Tally
  <2>2. j[0].signal = signal /\ j[0].asserts = asserts
    BY <1>2 DEF Engine!Now
  <2>3. j[0].asserts = Judged(0)
    BY <2>1, <2>2, Zenon
  <2> HIDE DEF Judged
  <2> QED BY <2>2, <2>3
<1>6. ASSUME NEW n \in T PROVE n + 1 \in T
  <2>1. ASSUME n + 1 <= m PROVE j[n + 1].signal = signal /\ j[n + 1].asserts = Judged(n + 1)
    <3>1. n \in Nat /\ n + 1 \in 1 .. m /\ (n + 1) - 1 = n /\ n <= m
      BY <2>1
    <3>2. PICK r, x, k : r = j[n] /\ x = Judged(n) /\ k = n + 1
      OBVIOUS
    <3>3. r.signal = signal /\ r.asserts = x
      BY <3>1, <3>2
    <3>4. x \in [1 .. m -> Counters] /\ x[k] = asserts[k]
      BY <1>3, <1>4, <3>1, <3>2
    <3>5. x \in Seq(Counters) /\ k \in DOMAIN x /\ x[k].onFail = "none" /\ x[k].active
      BY <1>3, <3>1, <3>2, <3>4
    <3>6. /\ Engine!Judged(r, k).signal = signal
          /\ Engine!Judged(r, k).asserts = [x EXCEPT ![k] = Reckoned(x[k])]
      BY <3>3, <3>5, QuietJudgement
    <3>7. j[k] = Engine!Judged(r, k)
      BY <1>2, <3>1, <3>2
    <3>8. [x EXCEPT ![k] = Reckoned(x[k])] = Judged(k)
      <4>1. k = n + 1 /\ k \in 1 .. m /\ \A i \in 1 .. m : x[i] = IF i <= n THEN Reckoned(asserts[i]) ELSE asserts[i]
        BY <3>1, <3>2
      <4>2. \A i \in 1 .. m : [x EXCEPT ![k] = Reckoned(x[k])][i] = Judged(k)[i]
        BY <3>1, <3>4, <4>1
      <4>3. DOMAIN [x EXCEPT ![k] = Reckoned(x[k])] = 1 .. m
        BY <3>4
      <4> QED BY <4>2, <4>3
    <3> QED BY <3>2, <3>6, <3>7, <3>8
  <2> QED BY <2>1
<1> HIDE DEF T
<1>7. \A n \in Nat : n \in T
  <2>1. T \in SUBSET Nat
    BY DEF T
  <2> QED BY <1>5, <1>6, <2>1, Climb
<1>8. j[m].asserts = Judged(m)
  BY <1>7 DEF T
<1>9. asserts' = Judged(m)
  BY <1>2, <1>8 DEF Engine!Evaluate
<1> QED BY <1>1, <1>9

(* Two assertions that were attempted at the same moments so far: their next  *)
(* attempts keep their counters in step with their expressions.               *)
Consistent(a, b) ==
  Engine!Together(a, b) =>
    /\ (a.prop.op = "NOT" /\ b.prop = [op |-> "SEQ", seq |-> a.prop.seq]) => a.pass = b.fail
    /\ (a.prop.op = "SEQ" /\ Heap[a.prop.seq].op = "AND" /\ b.prop = [op |-> "SEQ", seq |-> Heap[a.prop.seq].left]) => a.fail >= b.fail
    /\ (a.prop.op = "SEQ" /\ Heap[a.prop.seq].op = "OR" /\ b.prop = [op |-> "SEQ", seq |-> Heap[a.prop.seq].right]) => a.fail <= b.fail

LEMMA TurnsConsistent ==
  ASSUME Engine!AssertAssumption, NEW a \in Counters, NEW b \in Counters, Consistent(a, b)
  PROVE  Consistent(Reckoned(a), Reckoned(b))
<1> SUFFICES ASSUME Engine!Together(Reckoned(a), Reckoned(b)) PROVE Consistent(Reckoned(a), Reckoned(b))
  BY DEF Consistent
<1>1. /\ a.attempts \in Nat /\ a.pass \in Nat /\ a.fail \in Nat /\ a.prop \in Props
      /\ b.attempts \in Nat /\ b.pass \in Nat /\ b.fail \in Nat
  BY DEF Counters
<1>2. a.prop.seq \in 1 .. Len(Heap)
  BY <1>1 DEF Props, Engine!AssertAssumption
<1>3. CASE a.clocked /\ signal["clk"].value # 1
  <2>1. Reckoned(a) = a
    BY <1>3 DEF Reckoned
  <2>2. Reckoned(b).clocked = a.clocked
    BY <2>1 DEF Engine!Together
  <2>3. Reckoned(b).clocked = b.clocked
    BY AttemptCounts DEF Reckoned
  <2>4. Reckoned(b) = b
    BY <1>3, <2>2, <2>3 DEF Reckoned
  <2> QED BY <2>1, <2>4
<1>4. CASE ~ (a.clocked /\ signal["clk"].value # 1)
  <2>1. PICK c, ok : c = Reckoned(a) /\ ok = Engine!Passed(a.prop, signal)
    OBVIOUS
  <2>2. PICK d, good : d = Reckoned(b) /\ good = Engine!Passed(b.prop, signal)
    OBVIOUS
  <2>3. c = Engine!Attempted(a, ok)
    BY <1>4, <2>1 DEF Reckoned
  <2>4. /\ c.prop = a.prop /\ c.clocked = a.clocked /\ c.attempts = a.attempts + 1
        /\ c.pass = a.pass + (IF ok THEN 1 ELSE 0) /\ c.fail = a.fail + (IF ok THEN 0 ELSE 1)
    BY <2>3, AttemptCounts
  <2>5. d.clocked = b.clocked
    BY <2>2, AttemptCounts DEF Reckoned
  <2>6. b.clocked = a.clocked /\ d.attempts = c.attempts
    BY <2>1, <2>2, <2>4, <2>5 DEF Engine!Together
  <2>7. d = Engine!Attempted(b, good)
    BY <1>4, <2>2, <2>6 DEF Reckoned
  <2>8. /\ d.prop = b.prop /\ d.attempts = b.attempts + 1
        /\ d.fail = b.fail + (IF good THEN 0 ELSE 1)
    BY <2>7, AttemptCounts
  <2>9. Engine!Together(a, b)
    BY <1>1, <2>4, <2>6, <2>8 DEF Engine!Together
  <2>10. ASSUME a.prop.op = "NOT", b.prop = [op |-> "SEQ", seq |-> a.prop.seq] PROVE c.pass = d.fail
    <3>1. ok <=> ~ Engine!Matched(a.prop.seq, signal)
      BY <2>1, <2>10 DEF Engine!Passed
    <3>2. good <=> Engine!Matched(a.prop.seq, signal)
      BY <2>2, <2>10 DEF Engine!Passed
    <3>3. a.pass = b.fail
      BY <2>9, <2>10 DEF Consistent
    <3> QED BY <1>1, <2>4, <2>8, <3>1, <3>2, <3>3
  <2>11. ASSUME a.prop.op = "SEQ", Heap[a.prop.seq].op = "AND", b.prop = [op |-> "SEQ", seq |-> Heap[a.prop.seq].left]
         PROVE  c.fail >= d.fail
    <3>1. ok <=> Engine!Matched(a.prop.seq, signal)
      BY <2>1, <2>11 DEF Engine!Passed
    <3>2. good <=> Engine!Matched(Heap[a.prop.seq].left, signal)
      BY <2>2, <2>11 DEF Engine!Passed
    <3>3. ok => good
      BY <1>2, <2>11, <3>1, <3>2, MatchedParts
    <3>4. a.fail >= b.fail
      BY <2>9, <2>11 DEF Consistent
    <3> QED BY <1>1, <2>4, <2>8, <3>3, <3>4
  <2>12. ASSUME a.prop.op = "SEQ", Heap[a.prop.seq].op = "OR", b.prop = [op |-> "SEQ", seq |-> Heap[a.prop.seq].right]
         PROVE  c.fail <= d.fail
    <3>1. ok <=> Engine!Matched(a.prop.seq, signal)
      BY <2>1, <2>12 DEF Engine!Passed
    <3>2. good <=> Engine!Matched(Heap[a.prop.seq].right, signal)
      BY <2>2, <2>12 DEF Engine!Passed
    <3>3. good => ok
      BY <1>2, <2>12, <3>1, <3>2, MatchedParts
    <3>4. a.fail <= b.fail
      BY <2>9, <2>12 DEF Consistent
    <3> QED BY <1>1, <2>4, <2>8, <3>3, <3>4
  <2>13. Consistent(c, d)
    BY <2>4, <2>8, <2>10, <2>11, <2>12 DEF Consistent
  <2> QED BY <2>1, <2>2, <2>13
<1> QED BY <1>3, <1>4

(* The invariant of the engine.                                              *)
EngineInv ==
  /\ Tally(asserts, totals)
  /\ Engine!Undisturbed => \A i, k \in DOMAIN asserts : Consistent(asserts[i], asserts[k])

LEMMA EngineInvImplies == EngineInv => Engine!VerdictsAgree
BY DEF EngineInv, Tally, PassesOf, FailsOf, Consistent, Engine!VerdictsAgree

LEMMA EngineStarts == Engine!AssertInit => EngineInv
<1> SUFFICES ASSUME Engine!AssertInit PROVE EngineInv
  OBVIOUS
<1>1. asserts = <<>> /\ totals = [attempts |-> 0, pass |-> 0, fail |-> 0]
  BY DEF Engine!AssertInit
<1>2. DOMAIN asserts = 1 .. 0 /\ asserts \in Seq(Counters)
  BY <1>1
<1>3. \A f \in [1 .. 0 -> Nat] : Engine!Sum(f) = 0
  BY SumUnfolds
<1>4. PassesOf(asserts) \in [1 .. 0 -> Nat] /\ FailsOf(asserts) \in [1 .. 0 -> Nat]
  BY <1>2 DEF PassesOf, FailsOf
<1> QED BY <1>1, <1>2, <1>3, <1>4 DEF EngineInv, Tally

LEMMA AddKeepsVerdicts ==
  ASSUME Engine!AssertAssumption, EngineInv, NEW a \in Asserted, Engine!AddAssertion(a)
  PROVE  EngineInv'
<1> DEFINE c == Engine!Counted(a)
<1>1. PICK x \in Seq(Counters) : x = asserts
  BY DEF EngineInv, Tally
<1>2. PICK m \in Nat : m = Len(x) /\ DOMAIN x = 1 .. m
  OBVIOUS
<1>3. asserts' = Append(x, c) /\ totals' = totals
  BY <1>1 DEF Engine!AddAssertion
<1>4. /\ c \in Counters /\ c.attempts = 0 /\ c.pass = 0 /\ c.fail = 0 /\ c.active
  BY DEF Engine!Counted, Engine!AssertAssumption, Counters, Props
<1> HIDE DEF c
<1>5. PICK y \in Seq(Counters) : y = asserts'
  BY <1>3, <1>4
<1>6. DOMAIN y = 1 .. m + 1 /\ y[m + 1] = c /\ \A n \in 1 .. m : y[n] = x[n]
  BY <1>2, <1>3, <1>5
<1>7. Tally(x, totals)
  BY <1>1 DEF EngineInv
<1>8. Engine!Sum(PassesOf(y)) = Engine!Sum(PassesOf(x))
  <2>1. PICK f, g : f = PassesOf(x) /\ g = PassesOf(y)
    OBVIOUS
  <2>0. \A n \in 1 .. m + 1 : y[n] \in Counters
    BY <1>6
  <2>2. \A n \in 1 .. m + 1 : y[n].pass \in Nat
    BY <2>0 DEF Counters
  <2>3. f \in [1 .. m -> Nat] /\ g \in [1 .. m + 1 -> Nat] /\ \A n \in 1 .. m : g[n] = f[n]
    BY <1>2, <1>6, <2>1, <2>2 DEF PassesOf
  <2>4. g[m + 1] = 0
    BY <1>4, <1>6, <2>1 DEF PassesOf
  <2>5. Engine!Sum(f) \in Nat
    BY <1>1, <1>7, <2>1 DEF Tally
  <2>6. Engine!Sum(g) = Engine!Sum(f) + g[m + 1]
    BY <2>3, SumAppended
  <2> QED BY <2>1, <2>4, <2>5, <2>6
<1>9. Engine!Sum(FailsOf(y)) = Engine!Sum(FailsOf(x))
  <2>1. PICK f, g : f = FailsOf(x) /\ g = FailsOf(y)
    OBVIOUS
  <2>0. \A n \in 1 .. m + 1 : y[n] \in Counters
    BY <1>6
  <2>2. \A n \in 1 .. m + 1 : y[n].fail \in Nat
    BY <2>0 DEF Counters
  <2>3. f \in [1 .. m -> Nat] /\ g \in [1 .. m + 1 -> Nat] /\ \A n \in 1 .. m : g[n] = f[n]
    BY <1>2, <1>6, <2>1, <2>2 DEF FailsOf
  <2>4. g[m + 1] = 0
    BY <1>4, <1>6, <2>1 DEF FailsOf
  <2>5. Engine!Sum(f) \in Nat
    BY <1>1, <1>7, <2>1 DEF Tally
  <2>6. Engine!Sum(g) = Engine!Sum(f) + g[m + 1]
    BY <2>3, SumAppended
  <2> QED BY <2>1, <2>4, <2>5, <2>6
<1>10. \A n \in DOMAIN y : y[n].attempts = y[n].pass + y[n].fail /\ (y[n].onFail # "disable" => y[n].active)
  <2>1. \A n \in 1 .. m : x[n].attempts = x[n].pass + x[n].fail /\ (x[n].onFail # "disable" => x[n].active)
    BY <1>2, <1>7 DEF Tally
  <2> QED BY <1>4, <1>6, <2>1
<1>11. Tally(y, totals)
  BY <1>7, <1>8, <1>9, <1>10 DEF Tally
<1>12. ASSUME Engine!Undisturbed', NEW i \in DOMAIN y, NEW k \in DOMAIN y PROVE Consistent(y[i], y[k])
  <2>0. \A n \in DOMAIN y : y[n] \in Counters
    OBVIOUS
  <2>1. \A n \in DOMAIN y : y[n].attempts = y[n].pass + y[n].fail /\ y[n].pass \in Nat /\ y[n].fail \in Nat
    BY <1>10, <2>0 DEF Counters
  <2>2. CASE i # m + 1 /\ k # m + 1
    <3>1. i \in DOMAIN x /\ k \in DOMAIN x /\ y[i] = x[i] /\ y[k] = x[k]
      BY <1>2, <1>6, <2>2
    <3>2. Engine!Undisturbed
      BY <1>1, <1>2, <1>5, <1>6, <1>12 DEF Engine!Undisturbed
    <3> QED BY <1>1, <3>1, <3>2 DEF EngineInv
  <2>3. CASE i = m + 1 \/ k = m + 1
    <3>1. ASSUME Engine!Together(y[i], y[k])
          PROVE  y[i].pass = 0 /\ y[i].fail = 0 /\ y[k].pass = 0 /\ y[k].fail = 0
      <4>1. y[i].attempts = 0 /\ y[k].attempts = 0
        BY <1>4, <1>6, <2>3, <3>1 DEF Engine!Together
      <4> QED BY <2>1, <4>1
    <3> QED BY <3>1 DEF Consistent
  <2> QED BY <2>2, <2>3
<1> QED BY <1>3, <1>5, <1>11, <1>12 DEF EngineInv

LEMMA EvaluateKeepsVerdicts ==
  ASSUME Engine!AssertAssumption, EngineInv, Engine!Evaluate
  PROVE  EngineInv'
<1>1. Tally(asserts, totals)
  BY DEF EngineInv
<1>2. Tally(asserts', totals')
  BY <1>1, CallCounts
<1>3. ASSUME Engine!Undisturbed', NEW i \in DOMAIN asserts', NEW k \in DOMAIN asserts'
      PROVE  Consistent(asserts'[i], asserts'[k])
  <2>1. Engine!Undisturbed
    BY <1>1, <1>3, CallCounts DEF Engine!Undisturbed
  <2>2. /\ DOMAIN asserts' = DOMAIN asserts
        /\ \A n \in DOMAIN asserts : asserts'[n] = Reckoned(asserts[n])
    BY <1>1, <2>1, QuietCall
  <2>3. Consistent(asserts[i], asserts[k]) /\ asserts[i] \in Counters /\ asserts[k] \in Counters
    BY <1>1, <1>3, <2>1, <2>2 DEF EngineInv, Tally
  <2>4. Consistent(Reckoned(asserts[i]), Reckoned(asserts[k]))
    BY <2>3, TurnsConsistent
  <2> QED BY <1>3, <2>2, <2>4
<1> QED BY <1>2, <1>3 DEF EngineInv
LEMMA EngineSteps ==
  ASSUME Engine!AssertAssumption, EngineInv, [Engine!AssertNext]_engineVars
  PROVE  EngineInv'
<1>1. CASE UNCHANGED <<asserts, totals>>
  BY <1>1 DEF EngineInv, Engine!Undisturbed
<1>2. ASSUME NEW a \in Asserted, Engine!AddAssertion(a) PROVE EngineInv'
  BY <1>2, AddKeepsVerdicts
<1>3. CASE Engine!Evaluate
  BY <1>3, EvaluateKeepsVerdicts
<1> QED BY <1>1, <1>2, <1>3
        DEF Engine!AssertNext, Engine!DriveSignal, Engine!Force, Engine!Release, engineVars

(* VerdictsAreSound: whatever the expressions on the heap and the assertions  *)
(* made of them, however often signals are driven, forced and released and    *)
(* the engine is called, its counters are the sums of those of its            *)
(* assertions, and assertions attempted at the same moments agree as their    *)
(* expressions do; and random values that were found without going back       *)
(* satisfy their constraints.                                                *)
THEOREM VerdictsAreSound ==
  Random!SolverAssumption /\ Engine!AssertAssumption => (Spec => []VerdictsSound)
<1> SUFFICES ASSUME Random!SolverAssumption, Engine!AssertAssumption PROVE Spec => []VerdictsSound
  OBVIOUS
<1>1. Init => SolverInv /\ EngineInv
  BY SolverStarts, EngineStarts DEF Init
<1>2. SolverInv /\ EngineInv /\ [Next]_vars => SolverInv' /\ EngineInv'
  <2> SUFFICES ASSUME SolverInv, EngineInv, [Next]_vars PROVE SolverInv' /\ EngineInv'
    OBVIOUS
  <2>1. [Random!Next]_(Random!solverVars)
    BY DEF Next, vars, randomVars, Random!solverVars
  <2>2. [Engine!AssertNext]_engineVars
    BY DEF Next, vars, engineVars
  <2>3. SolverInv'
    BY <2>1, SolverSteps
  <2>4. EngineInv'
    BY <2>2, EngineSteps
  <2> QED BY <2>3, <2>4
<1>3. SolverInv /\ EngineInv => VerdictsSound
  BY EngineInvImplies DEF SolverInv, VerdictsSound
<1> QED BY <1>1, <1>2, <1>3, PTL DEF Spec
=============================================================================
