---------------------------- MODULE BoundedCheck ----------------------------
(***************************************************************************)
(* The SAT solver and the bounded model checker of formal_proof.c.  A        *)
(* literal is a variable's number, negated for a negative literal, and a     *)
(* clause the set of its literals.  The search has no tree of its own: it is *)
(* the assignment, the level at which each variable got its value, and the   *)
(* current level, undone in place.  Clauses come from a caller, or from the  *)
(* unrolling of a transition system.                                         *)
(***************************************************************************)
EXTENDS Integers, Sequences, FiniteSets

CONSTANTS
  NumVars, MaxClauses, MaxLits,   \* what a caller adds (unbounded in the code)
  MaxStates, MaxBound             \* the systems unrolled, and how far

ASSUME CheckAssumption == NumVars \in Nat /\ MaxStates \in 1 .. 64 /\ MaxBound \in Nat

VARIABLES
  client,      \* "formula" or "system": who uses the solver
  clauses, numVars, assign, level, current, status,
  system, bound, trace

solver == <<clauses, numVars, assign, level, current, status>>
checkVars == <<client, clauses, numVars, assign, level, current, status, system, bound, trace>>

Var(l) == IF l < 0 THEN -l ELSE l
True(a, l) == a[Var(l)] = (IF l > 0 THEN "TRUE" ELSE "FALSE")
Open(a, l) == a[Var(l)] = "UNASSIGNED"
Literals(n) == (1 .. n) \cup {-v : v \in 1 .. n}
-----------------------------------------------------------------------------
(* sat_bcp: one pass over the clauses gives every unit clause its literal    *)
(* and stops at a clause whose literals are all false; passes are repeated   *)
(* until one changes nothing, at most once for every variable and once more. *)
Scan(s, c) ==
  LET open == {l \in c : Open(s.assign, l)} IN
  IF s.conflict \/ \E l \in c : True(s.assign, l) THEN s
  ELSE IF open = {} THEN [s EXCEPT !.conflict = TRUE]
  ELSE IF \E l \in open : open = {l}
       THEN LET l == CHOOSE x \in open : TRUE IN
            [s EXCEPT !.assign[Var(l)] = IF l > 0 THEN "TRUE" ELSE "FALSE", !.level[Var(l)] = s.current]
       ELSE s

Pass(s, cs) ==
  LET upTo[k \in 0 .. Len(cs)] == IF k = 0 THEN s ELSE Scan(upTo[k - 1], cs[k])
  IN upTo[Len(cs)]
Passes(s, cs, most) ==
  LET after[n \in 0 .. most] == IF n = 0 THEN s ELSE Pass(after[n - 1], cs)
  IN after[most]
PropagatedOnce(s) == Pass(s, clauses)             \* faulty: does not go on to a fixed point
Propagated(s) == Passes(s, clauses, numVars + 1)

Search(a, lv, cur) == [assign |-> a, level |-> lv, current |-> cur, conflict |-> FALSE]
Undone(s, n) == [s EXCEPT !.assign = [v \in DOMAIN @ |-> IF s.level[v] = n THEN "UNASSIGNED" ELSE @[v]],
                          !.level = [v \in DOMAIN @ |-> IF @[v] = n THEN 0 ELSE @[v]],
                          !.current = n - 1, !.conflict = FALSE]
Given(s, v, value) == [s EXCEPT !.assign[v] = value, !.level[v] = s.current]

Becomes(s, answer) ==
  assign' = s.assign /\ level' = s.level /\ current' = s.current /\ status' = answer

Unassigned == [v \in 1 .. numVars |-> "UNASSIGNED"]
AtLevelZero == [v \in 1 .. numVars |-> 0]
FirstOpen(a) == {v \in DOMAIN a : a[v] = "UNASSIGNED" /\ \A u \in 1 .. v - 1 : a[u] # "UNASSIGNED"}
-----------------------------------------------------------------------------
AddClause ==
  /\ client = "formula" /\ status = "idle" /\ Len(clauses) < MaxClauses
  /\ \E c \in SUBSET Literals(NumVars) :
       Cardinality(c) \in 1 .. MaxLits /\ clauses' = Append(clauses, c)
  /\ UNCHANGED <<client, numVars, assign, level, current, status, system, bound, trace>>

Solve ==
  /\ status = "idle" /\ clauses # <<>>
  /\ LET s == Propagated(Search(assign, level, 0)) IN Becomes(s, IF s.conflict THEN "unsat" ELSE "running")
  /\ UNCHANGED <<client, clauses, numVars, system, bound, trace>>

(* One turn of the loop of sat_solver_solve.  The first open variable is     *)
(* tried TRUE; on a conflict the level is undone and, unless that leaves no   *)
(* level, it is tried FALSE as part of the level below; if that fails too     *)
(* the level below is undone, its decision included.                          *)
Decide ==
  /\ status = "running"
  /\ \/ FirstOpen(assign) = {} /\ status' = "sat" /\ UNCHANGED <<assign, level, current>>
     \/ \E v \in FirstOpen(assign) :
          LET s == Propagated(Given(Search(assign, level, current + 1), v, "TRUE"))
              back == Undone(s, s.current)
              f == Propagated(Given(back, v, "FALSE"))
          IN CASE ~s.conflict -> Becomes(s, "running")
               [] s.conflict /\ back.current = 0 -> Becomes(back, "unsat")
               [] s.conflict /\ back.current # 0 -> Becomes(IF f.conflict THEN Undone(f, f.current) ELSE f, "running")
  /\ UNCHANGED <<client, clauses, numVars, system, bound, trace>>

(* sat_solver_reset keeps the clauses: the caller may add more.              *)
Reset ==
  /\ client = "formula" /\ status \in {"sat", "unsat"}
  /\ assign' = Unassigned /\ level' = AtLevelZero /\ current' = 0 /\ status' = "idle"
  /\ UNCHANGED <<client, clauses, numVars, system, bound, trace>>
-----------------------------------------------------------------------------
(* bmc_encode_to_sat: one variable for every state at every step; at least   *)
(* one and at most one state a step, the initial state first, and a          *)
(* successor after every state that has one.                                 *)
At(sys, s, t) == t * sys.n + s + 1
Joined(parts, n) ==
  LET upTo[k \in 0 .. n] == IF k = 0 THEN <<>> ELSE upTo[k - 1] \o parts[k]
  IN upTo[n]
NotBoth(sys, s, t) == [d \in 1 .. sys.n - 1 - s |-> {-At(sys, s, t), -At(sys, s + d, t)}]
OneState(sys, t) ==
  <<{At(sys, s, t) : s \in 0 .. sys.n - 1}>> \o Joined([i \in 1 .. sys.n |-> NotBoth(sys, i - 1, t)], sys.n)
Successors(sys, s) == {u \in 0 .. sys.n - 1 : <<s, u>> \in sys.next}
Follows(sys, s, t) ==
  IF Successors(sys, s) = {} THEN <<>>
  ELSE <<{-At(sys, s, t)} \cup {At(sys, u, t + 1) : u \in Successors(sys, s)}>>
Steps(sys, t) == Joined([i \in 1 .. sys.n |-> Follows(sys, i - 1, t)], sys.n)

Unrolling(sys, k) ==
  Joined([t \in 1 .. k + 1 |-> OneState(sys, t - 1)], k + 1) \o <<{At(sys, sys.initial, 0)}>>
    \o Joined([t \in 1 .. k |-> Steps(sys, t - 1)], k)

Systems == UNION {[n : {n}, next : SUBSET ((0 .. n - 1) \X (0 .. n - 1)), initial : 0 .. n - 1] : n \in 1 .. MaxStates}

(* hv_ts_add_state and its companions describe a system; then it is          *)
(* unrolled k steps into a new solver.  bmc_check starts at 0.               *)
Unroll ==
  /\ client = "system" /\ system.n = 0
  /\ \E sys \in Systems, k \in 0 .. MaxBound :
       /\ system' = sys /\ bound' = k /\ clauses' = Unrolling(sys, k) /\ numVars' = sys.n * (k + 1)
       /\ assign' = [v \in 1 .. sys.n * (k + 1) |-> "UNASSIGNED"] /\ level' = [v \in 1 .. sys.n * (k + 1) |-> 0]
  /\ current' = 0 /\ status' = "idle"
  /\ UNCHANGED <<client, trace>>

(* The trace bmc_check reads off a solution: the first true state of a step. *)
Extract ==
  /\ client = "system" /\ status = "sat" /\ trace = <<>>
  /\ trace' = [t \in 1 .. bound + 1 |->
                 CHOOSE s \in 0 .. system.n - 1 :
                   /\ assign[At(system, s, t - 1)] = "TRUE"
                   /\ \A u \in 0 .. s - 1 : assign[At(system, u, t - 1)] # "TRUE"]
  /\ UNCHANGED <<client, clauses, numVars, assign, level, current, status, system, bound>>
-----------------------------------------------------------------------------
CheckInit ==
  /\ client \in {"formula", "system"} /\ clauses = <<>> /\ numVars = NumVars
  /\ assign = Unassigned /\ level = AtLevelZero /\ current = 0 /\ status = "idle"
  /\ system = [n |-> 0, next |-> {}, initial |-> 0] /\ bound = 0 /\ trace = <<>>

CheckNext == AddClause \/ Solve \/ Decide \/ Reset \/ Unroll \/ Extract

CheckSpec == CheckInit /\ [][CheckNext]_checkVars
-----------------------------------------------------------------------------
Models == {a \in [1 .. numVars -> {"TRUE", "FALSE"}] : \A n \in DOMAIN clauses : \E l \in clauses[n] : True(a, l)}

(* AnswersSound: after any undoing, a "satisfiable" comes with an assignment *)
(* that satisfies every clause; an "unsatisfiable" means that no model gives *)
(* TRUE to the first variable that propagation alone leaves open (the search *)
(* answers without having tried FALSE for it).                               *)
AnswersSound ==
  /\ status = "sat" => assign \in Models
  /\ status = "unsat" =>
       LET s == Propagated(Search(Unassigned, AtLevelZero, 0)) IN
       \A a \in Models : ~s.conflict /\ \E v \in FirstOpen(s.assign) : a[v] = "FALSE"

(* TracesArePaths: a trace starts in the initial state and every step of it  *)
(* is a transition, unless its state has none.                               *)
TracesArePaths == trace # <<>> =>
  /\ trace[1] = system.initial
  /\ \A t \in 1 .. bound : <<trace[t], trace[t + 1]>> \in system.next \/ Successors(system, trace[t]) = {}

CheckSound == AnswersSound /\ TracesArePaths
=============================================================================
