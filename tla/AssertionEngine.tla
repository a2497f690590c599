--------------------------- MODULE AssertionEngine ---------------------------
(***************************************************************************)
(* The signals of the device under test (hw_verify.c) and the assertion     *)
(* engine of assertion_engine.c: sequence expressions are nodes of the heap   *)
(* that point at nodes built before them, and one call of the engine judges   *)
(* every assertion in turn on the values that the signals have at that       *)
(* moment.  The position the evaluator counts along the trace never reaches   *)
(* an operand, so it is left out.                                            *)
(***************************************************************************)
EXTENDS Integers, Sequences

CONSTANTS
  Signals, Width,       \* signals and their width in bits
  Heap,                 \* the nodes of the expressions, in the order they were built
  Asserted,             \* the assertions a test may add
  MaxAsserts, MaxEvals  \* how many it adds, how often the engine is called (unbounded)

VARIABLES
  signal,               \* of each signal and of "clk": current value, forced
  asserts, totals       \* the engine's assertions with their counters, its own counters

assertVars == <<signal, asserts, totals>>
-----------------------------------------------------------------------------
(* Operands, sequences and properties are built bottom up; a sequence is the   *)
(* number of its node, 0 the null pointer.                                    *)
SignalIs(cmp, s, v) == [signal |-> s, cmp |-> cmp, other |-> "", const |-> v]
SignalIsSignal(cmp, a, b) == [signal |-> a, cmp |-> cmp, other |-> b, const |-> 0]
Atom(o) == [op |-> "ATOM", atom |-> o]
Delay(e, n) == [op |-> "DELAY", left |-> e, n |-> n]
Repeated(e, n) == [op |-> "REP", left |-> e, n |-> n]
Both(a, b) == [op |-> "AND", left |-> a, right |-> b]
Either(a, b) == [op |-> "OR", left |-> a, right |-> b]
Throughout(o, e) == [op |-> "THROUGHOUT", atom |-> o, left |-> e]
Property(e) == [op |-> "SEQ", seq |-> e]
Implication(e) == [op |-> "IMPLIES", seq |-> e]
Negation(p) == [op |-> "NOT", seq |-> p.seq]

AssertAssumption ==
  /\ Len(Heap) \in Nat
  /\ \A n \in 1 .. Len(Heap) :
       /\ Heap[n].op \in {"DELAY", "REP", "AND", "OR"} => Heap[n].left \in 0 .. n - 1
       /\ Heap[n].op \in {"AND", "OR"} => Heap[n].right \in 0 .. n - 1
  /\ \A a \in Asserted :
       /\ a.clocked \in BOOLEAN /\ a.onFail \in {"none", "drive", "disable"}
       /\ a.prop.op \in {"SEQ", "NOT", "IMPLIES"} /\ a.prop.seq \in 1 .. Len(Heap)

(* eval_operand.                                                             *)
Compare(op, x, y) ==
  CASE op = "EQ" -> x = y
    [] op = "NEQ" -> x # y
    [] op = "LT" -> x < y
    [] op = "GT" -> x > y
    [] OTHER -> FALSE

Operand(atom, sig) ==
  Compare(atom.cmp, sig[atom.signal].value, IF atom.other \in DOMAIN sig THEN sig[atom.other].value ELSE atom.const)

(* seq_eval_recursive, with what it finds of the nodes before.  A delay skips *)
(* positions, a repetition evaluates its body so many times, throughout and    *)
(* intersect are not evaluated at all.                                        *)
Holds(found, n, sig) ==
  IF n = 0 THEN TRUE
  ELSE CASE Heap[n].op = "ATOM" -> Operand(Heap[n].atom, sig)
         [] Heap[n].op = "DELAY" -> found[Heap[n].left]
         [] Heap[n].op = "AND" -> found[Heap[n].left] /\ found[Heap[n].right]
         [] Heap[n].op = "OR" -> found[Heap[n].left] \/ found[Heap[n].right]
         [] Heap[n].op = "REP" -> Heap[n].n = 0 \/ found[Heap[n].left]
         [] OTHER -> FALSE

Matched(e, sig) ==
  LET found[n \in 0 .. Len(Heap)] == Holds(found, n, sig)
  IN  found[e]

(* The property of an assertion: a sequence, the negation of one, or one of   *)
(* the forms the engine passes without a look (implications, disable iff).    *)
Passed(p, sig) ==
  CASE p.op = "SEQ" -> Matched(p.seq, sig)
    [] p.op = "NOT" -> ~Matched(p.seq, sig)
    [] OTHER -> TRUE
-----------------------------------------------------------------------------
Masked(v) == v % (2 ^ Width)

(* hv_signal_drive overwrites a forced value too; force does not mask.        *)
DriveSignal(s, v) ==
  /\ signal' = [signal EXCEPT ![s].value = IF s = "clk" THEN v % 2 ELSE Masked(v)]
  /\ UNCHANGED <<asserts, totals>>

Force(s, v) ==
  /\ signal' = [signal EXCEPT ![s] = [value |-> v, forced |-> TRUE]]
  /\ UNCHANGED <<asserts, totals>>

Release(s) ==
  /\ signal' = [signal EXCEPT ![s].forced = FALSE]
  /\ UNCHANGED <<asserts, totals>>

Counted(a) == [prop |-> a.prop, clocked |-> a.clocked, onFail |-> a.onFail, active |-> TRUE, attempts |-> 0, pass |-> 0, fail |-> 0]

AddAssertion(a) ==
  /\ Len(asserts) < MaxAsserts
  /\ asserts' = Append(asserts, Counted(a))
  /\ UNCHANGED <<signal, totals>>

(* hv_assertion_engine_eval: an inactive assertion, and a clocked one while   *)
(* its clock is low, is passed over; on_fail is the test's and may switch its  *)
(* assertion off or drive a signal, which the assertions after it then see.   *)
Attempted(a, ok) ==
  [a EXCEPT !.attempts = @ + 1, !.pass = @ + (IF ok THEN 1 ELSE 0), !.fail = @ + (IF ok THEN 0 ELSE 1),
            !.active = ok \/ a.onFail # "disable"]

Judged(r, n) ==
  LET a == r.asserts[n]
      ok == Passed(a.prop, r.signal)
  IN IF ~a.active \/ (a.clocked /\ r.signal["clk"].value # 1) THEN r
     ELSE [signal |-> IF ~ok /\ a.onFail = "drive" THEN [s \in DOMAIN r.signal |-> [r.signal[s] EXCEPT !.value = 0]] ELSE r.signal,
           asserts |-> [r.asserts EXCEPT ![n] = Attempted(a, ok)],
           totals |-> [attempts |-> r.totals.attempts + 1,
                       pass |-> r.totals.pass + (IF ok THEN 1 ELSE 0), fail |-> r.totals.fail + (IF ok THEN 0 ELSE 1)]]

Now == [signal |-> signal, asserts |-> asserts, totals |-> totals]
Judgement(judged, n) == IF n = 0 THEN Now ELSE Judged(judged[n - 1], n)
AllJudged ==
  LET judged[n \in 0 .. Len(asserts)] == Judgement(judged, n)
  IN  judged[Len(asserts)]

Evaluate ==
  /\ asserts # <<>> /\ totals.attempts < MaxEvals
  /\ signal' = AllJudged.signal /\ asserts' = AllJudged.asserts /\ totals' = AllJudged.totals
-----------------------------------------------------------------------------
AssertInit ==
  /\ signal = [s \in Signals \cup {"clk"} |-> [value |-> 0, forced |-> FALSE]]
  /\ asserts = <<>> /\ totals = [attempts |-> 0, pass |-> 0, fail |-> 0]

AssertNext ==
  \/ \E s \in Signals \cup {"clk"} : (\E v \in 0 .. 2 ^ Width : DriveSignal(s, v)) \/ Force(s, 1) \/ Release(s)
  \/ \E a \in Asserted : AddAssertion(a)
  \/ Evaluate

AssertSpec == AssertInit /\ [][AssertNext]_assertVars
-----------------------------------------------------------------------------
Added(sum, f, n) == IF n = 0 THEN 0 ELSE sum[n - 1] + f[n]
Sum(f) ==
  LET sum[n \in 0 .. Len(f)] == Added(sum, f, n)
  IN  sum[Len(f)]

(* VerdictsAgree: the counters of the engine are the sums of those of its      *)
(* assertions, and assertions attempted at the same moments agree with each    *)
(* other as their expressions do: one and its negation split the attempts, a   *)
(* conjunction fails at least, a disjunction at most, as often as each part.   *)
Undisturbed == \A n \in DOMAIN asserts : asserts[n].onFail = "none"
Together(a, b) == a.clocked = b.clocked /\ a.attempts = b.attempts
VerdictsAgree ==
  /\ totals.pass = Sum([n \in DOMAIN asserts |-> asserts[n].pass])
  /\ totals.fail = Sum([n \in DOMAIN asserts |-> asserts[n].fail])
  /\ totals.attempts = totals.pass + totals.fail
  /\ Undisturbed => \A i, k \in DOMAIN asserts :
       LET a == asserts[i]
           b == asserts[k]
       IN Together(a, b) =>
            /\ (a.prop.op = "NOT" /\ b.prop = [op |-> "SEQ", seq |-> a.prop.seq]) => a.pass = b.fail
            /\ (a.prop.op = "SEQ" /\ Heap[a.prop.seq].op = "AND" /\ b.prop = [op |-> "SEQ", seq |-> Heap[a.prop.seq].left]) => a.fail >= b.fail
            /\ (a.prop.op = "SEQ" /\ Heap[a.prop.seq].op = "OR" /\ b.prop = [op |-> "SEQ", seq |-> Heap[a.prop.seq].right]) => a.fail <= b.fail
=============================================================================
