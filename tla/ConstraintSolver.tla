-------------------------- MODULE ConstraintSolver --------------------------
(***************************************************************************)
(* The constrained-random solver of constraint_solver.c: random variables    *)
(* with a range and weights, a block of constraints, and the search that     *)
(* draws values for one variable after the other.  What the random numbers   *)
(* are is left open: any value the variable can draw may come, any number of *)
(* draws may fail before one fits.                                           *)
(***************************************************************************)
EXTENDS Integers, Sequences, FiniteSets, SequencesExt

CONSTANTS
  NumRand,              \* random variables of a block
  Shaped,               \* those a test gives a range and weights
  Ranges,               \* the ranges a test gives a variable, pairs of bounds
  Constraints,          \* the constraints a test may add
  MaxConstraints,       \* how many it adds (unbounded in the code)
  MaxRetries,           \* draws for one variable (50)
  MaxTotalAttempts      \* draws of one solve (5000)

VARIABLES
  vars_,        \* the block's variables: range, weighted values, value, solved
  constraints,  \* its constraints
  vi, attempts, \* the variable to assign next, draws so far
  phase,        \* "build", "search", "solved"
  backtracked   \* the search has given up a variable's value (history)

solverVars == <<vars_, constraints, vi, attempts, phase, backtracked>>

Rands == 1 .. NumRand
(* A constraint relates a variable to another one (rhs) or to a constant.     *)
Constraint(op, l, r, k) == [op |-> op, lhs |-> l, rhs |-> r, const |-> k, low |-> 0, high |-> 0, soft |-> FALSE]
RangeConstraint(op, l, low, high) == [Constraint(op, l, 0, 0) EXCEPT !.low = low, !.high = high]
Soft(c) == [c EXCEPT !.soft = TRUE]

(* A test names variables of its block, and bounds that are numbers.          *)
SolverAssumption ==
  /\ NumRand \in Nat /\ MaxRetries \in Nat /\ MaxTotalAttempts \in Nat
  /\ Shaped \subseteq Rands /\ Ranges \subseteq Int \X Int
  /\ \A c \in Constraints : c.lhs \in Rands /\ c.rhs \in {0} \cup Rands
-----------------------------------------------------------------------------
Holds(c, x, y) ==
  CASE c.op = "EQ" -> x = y
    [] c.op = "NEQ" -> x # y
    [] c.op = "LT" -> x < y
    [] c.op = "GT" -> x > y
    [] c.op = "INSIDE" -> x \in c.low .. c.high
    [] c.op = "NOT_INSIDE" -> x \notin c.low .. c.high
    [] OTHER -> TRUE                                   \* CONSTR_IMPLIES is not evaluated

Rhs(c, vs) == IF c.rhs = 0 THEN c.const ELSE vs[c.rhs].value
EvaluableConstant(c, vs) == vs[c.lhs].solved /\ c.rhs = 0      \* faulty: two variables are never compared
Evaluable(c, vs) == vs[c.lhs].solved /\ (c.rhs = 0 \/ vs[c.rhs].solved)

(* constraint_check_all: hard constraints whose variables are all assigned.   *)
CheckAll(vs) ==
  \A n \in DOMAIN constraints : LET c == constraints[n] IN
    (~c.soft /\ Evaluable(c, vs)) => Holds(c, vs[c.lhs].value, Rhs(c, vs))

(* rand_var_random_value: the weight given to value w is drawn at min + w;    *)
(* a weight at or past the size of the range is not kept.                    *)
Drawable(v) ==
  LET kept == {v.min + w : w \in {w \in v.weighted : w <= v.max - v.min}} IN
  IF kept = {} THEN v.min .. v.max ELSE kept

Drawn(v, x) == [vars_ EXCEPT ![v].value = x, ![v].solved = TRUE]
Fits(v) == {x \in Drawable(vars_[v]) : CheckAll(Drawn(v, x))}
Misses(v) == Drawable(vars_[v]) \ Fits(v)
-----------------------------------------------------------------------------
SetRange ==
  /\ phase = "build" /\ constraints = <<>>
  /\ \E v \in Shaped, r \in Ranges :
       vars_' = [vars_ EXCEPT ![v].min = r[1], ![v].max = r[2], ![v].weighted = {}]
  /\ UNCHANGED <<constraints, vi, attempts, phase, backtracked>>

SetWeight ==
  /\ phase = "build" /\ constraints = <<>>
  /\ \E v \in Shaped : \E w \in 0 .. vars_[v].max : vars_' = [vars_ EXCEPT ![v].weighted = @ \cup {w}]
  /\ UNCHANGED <<constraints, vi, attempts, phase, backtracked>>

AddConstraint ==
  /\ phase = "build" /\ Len(constraints) < MaxConstraints
  /\ \E c \in Constraints : constraints' = Append(constraints, c)
  /\ UNCHANGED <<vars_, vi, attempts, phase, backtracked>>

Solve ==
  /\ phase \in {"build", "solved"} /\ constraints # <<>>
  /\ vars_' = [v \in Rands |-> [vars_[v] EXCEPT !.solved = FALSE]]
  /\ vi' = 1 /\ attempts' = 0 /\ phase' = "search" /\ backtracked' = FALSE
  /\ UNCHANGED constraints

Searching == phase = "search" /\ vi \in Rands /\ attempts < MaxTotalAttempts

Assign ==
  /\ Searching
  /\ \E x \in Fits(vi), tries \in 1 .. MaxRetries :
       /\ tries > 1 => Misses(vi) # {}
       /\ vars_' = Drawn(vi, x) /\ attempts' = attempts + tries
  /\ vi' = vi + 1
  /\ UNCHANGED <<constraints, phase, backtracked>>

(* Every draw failed: this and all earlier variables lose their value, and   *)
(* the search goes on with the one before; the first one cannot go back.      *)
Backtrack ==
  /\ Searching /\ Misses(vi) # {}
  /\ \E x \in Misses(vi) :
       vars_' = [v \in Rands |-> IF v = vi THEN [vars_[v] EXCEPT !.value = x, !.solved = FALSE]
                                 ELSE [vars_[v] EXCEPT !.solved = @ /\ v > vi]]
  /\ attempts' = IF vi = 1 THEN MaxTotalAttempts ELSE attempts + MaxRetries
  /\ vi' = IF vi = 1 THEN 1 ELSE vi - 1
  /\ backtracked' = TRUE
  /\ UNCHANGED <<constraints, phase>>

(* Whatever is left without a value gets any it can draw, unchecked; the      *)
(* answer is always "solved".                                                *)
Filled(v) ==
  IF vars_[v].solved THEN {vars_[v]}
  ELSE {[vars_[v] EXCEPT !.value = x, !.solved = TRUE] : x \in Drawable(vars_[v])}

Finish ==
  /\ phase = "search" /\ ~Searching
  /\ vars_' \in {vs \in [Rands -> UNION {Filled(v) : v \in Rands}] : \A v \in Rands : vs[v] \in Filled(v)}
  /\ phase' = "solved"
  /\ UNCHANGED <<constraints, vi, attempts, backtracked>>
-----------------------------------------------------------------------------
Init ==
  /\ vars_ = [v \in Rands |-> [min |-> 0, max |-> 1, weighted |-> {}, value |-> 0, solved |-> FALSE]]
  /\ constraints = <<>> /\ vi = 1 /\ attempts = 0 /\ phase = "build" /\ backtracked = FALSE

Next == SetRange \/ SetWeight \/ AddConstraint \/ Solve \/ Assign \/ Backtrack \/ Finish

SolverSpec == Init /\ [][Next]_solverVars
-----------------------------------------------------------------------------
Satisfied == \A n \in DOMAIN constraints : LET c == constraints[n] IN
               c.soft \/ Holds(c, vars_[c.lhs].value, Rhs(c, vars_))

(* DirectSolutions: a solve that never had to give up a value, and was not    *)
(* cut short, ends with every hard constraint satisfied, and every value in   *)
(* its range, however many draws it took.                                    *)
DirectSolutions ==
  phase = "solved" =>
    /\ \A v \in Rands : vars_[v].value \in vars_[v].min .. vars_[v].max
    /\ (~backtracked /\ vi > NumRand) => Satisfied

=============================================================================
