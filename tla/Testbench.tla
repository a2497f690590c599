----------------------------- MODULE Testbench -----------------------------
(***************************************************************************)
(* The test bench of mini-hardware-verification: sequences of items, the     *)
(* sequencer that takes turns among them, the connection to whoever drives   *)
(* the items, the scoreboard and the coverage databases (uvm_components.c,    *)
(* coverage_model.c, the plan of hw_verify.c).  An item is known by its       *)
(* sequence and its number in it; its transaction is a value.                *)
(***************************************************************************)
EXTENDS Integers, Sequences, FiniteSets, SequencesExt

CONSTANTS
  Sequences_, Tx,       \* sequences a test defines; transactions
  MaxItems, MaxActive,  \* items of a test (unbounded); active_sequences (16)
  MaxChecks             \* transactions observed and expected (unbounded)

VARIABLES
  items,                     \* of each sequence: the items not yet fetched
  active, rr,                \* active_sequences and rr_index
  connected, exported, write,  \* the TLM port, export and the port's write function
  processed, delivered,      \* items arbitrated (in order), items the driver side received
  passed,                    \* grants to others since a sequence had an item (history)
  expected, checks,          \* the scoreboard: expected transactions and its counters
  bins, planned              \* the two coverage databases, the verification plan

seqVars == <<items, active, rr, processed, passed>>
tlmVars == <<connected, exported, write, delivered>>
sbVars == <<expected, checks>>
covVars == <<bins, planned>>
benchVars == <<seqVars, tlmVars, sbVars, covVars>>

Of(s, n) == {m \in 1 .. n : processed[m][1] = s}      \* the items of s among the first n
Added(s) == Len(items[s]) + Cardinality(Of(s, Len(processed)))
Total == Len(processed) + FoldFunction(LAMBDA q, n : Len(q) + n, 0, items)
-----------------------------------------------------------------------------
(* hv_sequence_add_item; the item carries its number.                        *)
AddItem(s) ==
  /\ Total < MaxItems
  /\ items' = [items EXCEPT ![s] = Append(@, <<s, Added(s) + 1>>)]
  /\ passed' = [passed EXCEPT ![s] = IF items[s] = <<>> THEN 0 ELSE @]
  /\ UNCHANGED <<active, rr, processed, tlmVars, sbVars, covVars>>

(* The array of active sequences is filled by the test.                      *)
Activate(s) ==
  /\ s \notin Range(active) /\ Len(active) < MaxActive
  /\ active' = Append(active, s) /\ passed' = [passed EXCEPT ![s] = 0]
  /\ UNCHANGED <<items, rr, processed, tlmVars, sbVars, covVars>>

(* hv_tlm_connect and hv_tlm_bind may come in either order: whichever comes   *)
(* second gives the port its write function.                                 *)
Connect ==
  /\ connected' = TRUE /\ write' = (write \/ exported)
  /\ UNCHANGED <<seqVars, exported, delivered, sbVars, covVars>>

Bind ==
  /\ exported' = TRUE /\ write' = (write \/ connected)
  /\ UNCHANGED <<seqVars, connected, delivered, sbVars, covVars>>

(* hv_sequencer_rr_arbitrate: starting at rr_index, the first sequence that   *)
(* has an item; the next search starts behind it.  get_next_item belongs to   *)
(* the test and takes the head.  hv_sequencer_run_phase hands the item to the *)
(* port, or drops it when nothing is connected.                              *)
FromZero(k) == k                                  \* faulty: every search starts at the front
Turn(k) == (rr + k) % Len(active)
Ready == {k \in 0 .. Len(active) - 1 : items[active[Turn(k) + 1]] # <<>>}

RunSequencer ==
  /\ \E k \in Ready :
       /\ \A j \in Ready : k <= j
       /\ LET s == active[Turn(k) + 1] IN
          /\ items' = [items EXCEPT ![s] = Tail(@)]
          /\ rr' = (Turn(k) + 1) % Len(active)
          /\ processed' = Append(processed, Head(items[s]))
          /\ delivered' = IF write THEN Append(delivered, Head(items[s])) ELSE delivered
          /\ passed' = [p \in Sequences_ |->
                          IF p = s \/ items[p] = <<>> \/ p \notin Range(active) THEN 0 ELSE passed[p] + 1]
  /\ UNCHANGED <<active, connected, exported, write, sbVars, covVars>>
-----------------------------------------------------------------------------
(* The reference model of the test adds what it expects; the default check   *)
(* looks for an expectation of that value that is not matched yet.           *)
Expect(tx) ==
  /\ Len(expected) < MaxChecks
  /\ expected' = Append(expected, [tx |-> tx, matched |-> FALSE])
  /\ UNCHANGED <<seqVars, tlmVars, checks, covVars>>

Matching(tx) == {n \in DOMAIN expected : expected[n].tx = tx /\ ~expected[n].matched}

Check(tx) ==
  /\ checks.checked < MaxChecks
  /\ \/ /\ Matching(tx) = {}
        /\ checks' = [checks EXCEPT !.checked = @ + 1, !.unexpected = Append(@, tx)]
        /\ UNCHANGED expected
     \/ \E n \in Matching(tx) :
          /\ \A k \in Matching(tx) : n <= k
          /\ expected' = [expected EXCEPT ![n].matched = TRUE]
          /\ checks' = [checks EXCEPT !.checked = @ + 1, !.matched = Append(@, tx)]
  /\ UNCHANGED <<seqVars, tlmVars, covVars>>
-----------------------------------------------------------------------------
(* Databases "total" and "test".  A database without the covergroup gets the  *)
(* other's by reference when it is merged in: from then on they share it.    *)
Group(db) == IF bins[db].group = "shared" THEN "test" ELSE db
CoveredNow(b) == {v \in Tx : b.covered[v]}

Sampled(b, v) == [b EXCEPT !.hits[v] = @ + 1, !.covered[v] = b.hits[v] + 1 >= 1]

Sample(db, v) ==
  /\ bins[db].group # "none" /\ bins[Group(db)].hits[v] < MaxChecks
  /\ bins' = [bins EXCEPT ![Group(db)] = Sampled(@, v)]
  /\ UNCHANGED <<seqVars, tlmVars, sbVars, planned>>

OverwrittenBy(b, c) == [b EXCEPT !.hits = c.hits, !.covered = c.covered]      \* faulty: takes the source's bins
MergedWith(b, c) ==
  LET more == {v \in Tx : c.hits[v] > b.hits[v]} IN
  [b EXCEPT !.hits = [v \in Tx |-> IF v \in more THEN c.hits[v] ELSE b.hits[v]],
            !.covered = [v \in Tx |-> IF v \in more THEN c.covered[v] ELSE b.covered[v]]]

Merge ==
  /\ \/ bins["total"].group = "none" /\ bins' = [bins EXCEPT !["total"].group = "shared"]
     \/ bins["total"].group = "shared" /\ UNCHANGED bins
     \/ bins["total"].group = "own" /\ bins' = [bins EXCEPT !["total"] = MergedWith(@, bins["test"])]
  /\ UNCHANGED <<seqVars, tlmVars, sbVars, planned>>

(* hv_verify_plan_mark_tested: an item once passed stays covered.            *)
MarkTested(v, r) ==
  /\ planned' = [planned EXCEPT ![v] = [result |-> r, covered |-> @.covered \/ r = "PASS"]]
  /\ UNCHANGED <<seqVars, tlmVars, sbVars, bins>>
-----------------------------------------------------------------------------
Empty == [group |-> "own", hits |-> [v \in Tx |-> 0], covered |-> [v \in Tx |-> FALSE]]

BenchInit ==
  /\ items = [s \in Sequences_ |-> <<>>] /\ active = <<>> /\ rr = 0 /\ processed = <<>>
  /\ passed = [s \in Sequences_ |-> 0]
  /\ connected = FALSE /\ exported = FALSE /\ write = FALSE /\ delivered = <<>>
  /\ expected = <<>> /\ checks = [checked |-> 0, matched |-> <<>>, unexpected |-> <<>>]
  /\ bins \in {[total |-> [Empty EXCEPT !.group = g], test |-> Empty] : g \in {"none", "own"}}
  /\ planned = [v \in Tx |-> [result |-> "NOT_RUN", covered |-> FALSE]]

(* The parts of the bench share no state but the test that calls them: a     *)
(* behaviour drives the sequencer, or the scoreboard, or the coverage.        *)
Drive == (\E s \in Sequences_ : AddItem(s) \/ Activate(s)) \/ Connect \/ Bind \/ RunSequencer
Score == \E v \in Tx : Expect(v) \/ Check(v)
Cover == (\E v \in Tx, db \in {"total", "test"} : Sample(db, v)) \/ Merge
           \/ \E v \in Tx, r \in {"PASS", "FAIL"} : MarkTested(v, r)

BenchNext == Drive \/ Score \/ Cover

BenchSpec == BenchInit /\ [][BenchNext]_benchVars
-----------------------------------------------------------------------------
(* FairTurns: while a sequence has an item ready, no more than the other      *)
(* places of the active array are served before it, whatever sequences run   *)
(* dry or join in between; and what reaches the driver of one sequence is in  *)
(* the order in which it was added, each item once.                          *)
FairTurns ==
  /\ \A s \in Range(active) : passed[s] < Len(active)
  /\ \A n \in DOMAIN processed : processed[n][2] = Cardinality(Of(processed[n][1], n))
  /\ Len(delivered) <= Len(processed)
  /\ \A n \in DOMAIN delivered : delivered[n] = processed[n + Len(processed) - Len(delivered)]

(* ScoreboardExact: every answer "matched" uses up one expectation of that    *)
(* value, so a value is matched no more often than it was expected, and an    *)
(* actual is unexpected only when all that was expected of it so far is used. *)
Answered(v) == {n \in DOMAIN checks.matched : checks.matched[n] = v}
UsedUp(v) == {n \in DOMAIN expected : expected[n].tx = v /\ expected[n].matched}
ScoreboardExact ==
  /\ checks.checked = Len(checks.matched) + Len(checks.unexpected)
  /\ \A v \in Tx : Cardinality(Answered(v)) = Cardinality(UsedUp(v))

(* BenchSound: both.                                                         *)
BenchSound == FairTurns /\ ScoreboardExact

(* CoverageKept: neither sampling nor merging takes a covered value away, and *)
(* after a merge the total database covers what either of the two covered; an *)
(* item of the plan that once passed stays covered whatever fails later.      *)
CoverageKept ==
  [][/\ \A db \in {"total", "test"} : bins[db].group # "none" => CoveredNow(bins[Group(db)]) \subseteq CoveredNow(bins'[Group(db)'])
     /\ Merge => CoveredNow(bins["test"]) \subseteq CoveredNow(bins'[Group("total")'])
     /\ \A v \in Tx : planned[v].covered => planned'[v].covered]_covVars
=============================================================================
