--------------------------- MODULE MCVerification ---------------------------
(***************************************************************************)
(* The verification library for TLC: the SAT solver and bounded model        *)
(* checker, the constraint solver, the test bench and the assertion engine.  *)
(* They share no state, so a behaviour works one of them.                    *)
(***************************************************************************)
EXTENDS Testbench, BoundedCheck

(* Three boolean-like variables, the second with a range of its own; hard and *)
(* soft constraints within a variable and between two.                       *)
CONSTANTS NumRand, Shaped, Ranges, Constraints, MaxConstraints, MaxRetries, MaxTotalAttempts
VARIABLES vars_, constraints, vi, attempts, phase, backtracked
OwnRange == {<<1, 2>>}
Rules == INSTANCE ConstraintSolver WITH Constraints <- {}
RuleSet ==
  {Rules!Constraint("LT", 1, 2, 0), Rules!Constraint("EQ", 2, 1, 0), Rules!Constraint("NEQ", 2, 0, 1),
   Rules!RangeConstraint("INSIDE", 3, 1, 2), Rules!RangeConstraint("NOT_INSIDE", 3, 0, 0),
   Rules!Constraint("IMPLIES", 3, 1, 0), Rules!Constraint("GT", 3, 2, 0), Rules!Soft(Rules!Constraint("GT", 3, 2, 0))}
Random == INSTANCE ConstraintSolver
ASSUME BlocksFormed == Random!SolverAssumption
randomVars == <<vars_, constraints, vi, attempts, phase, backtracked>>

CONSTANTS Signals, Width, Heap, Asserted, MaxAsserts, MaxEvals
VARIABLES signal, asserts, totals

(* A request, an acknowledge that differs from it, and what the engine's      *)
(* tests build from the two.                                                 *)
Sva == INSTANCE AssertionEngine WITH Heap <- <<>>, Asserted <- {}
ReqIsHigh == Sva!SignalIs("EQ", "req", 1)
Nodes ==
  <<Sva!Atom(ReqIsHigh), Sva!Atom(Sva!SignalIsSignal("NEQ", "ack", "req")), Sva!Delay(2, 1), Sva!Both(1, 3),
    Sva!Either(1, 2), Sva!Repeated(2, 2), Sva!Throughout(ReqIsHigh, 2)>>
Checked(p, clocked, onFail) == [prop |-> p, clocked |-> clocked, onFail |-> onFail]
Assertions ==
  {Checked(Sva!Property(e), TRUE, "none") : e \in {1, 2, 4, 5, 6}}
    \cup {Checked(Sva!Negation(Sva!Property(e)), TRUE, "none") : e \in {4, 7}}
    \cup {Checked(Sva!Implication(1), TRUE, "none"), Checked(Sva!Negation(Sva!Property(1)), FALSE, "drive"),
          Checked(Sva!Property(2), FALSE, "disable")}
Engine == INSTANCE AssertionEngine
ASSUME ExpressionsFormed == Engine!AssertAssumption
engineVars == <<signal, asserts, totals>>
-----------------------------------------------------------------------------
VARIABLE part
vars == <<part, checkVars, randomVars, benchVars, engineVars>>

Init ==
  /\ part \in {"proof", "random", "sequencer", "scoreboard", "coverage", "assertions"}
  /\ CheckInit /\ Random!Init /\ BenchInit /\ Engine!AssertInit
  /\ part # "proof" => client = "formula"
  /\ part # "coverage" => bins["total"].group = "own"

Next ==
  \/ part = "proof" /\ CheckNext /\ UNCHANGED <<part, randomVars, benchVars, engineVars>>
  \/ part = "random" /\ Random!Next /\ UNCHANGED <<part, checkVars, benchVars, engineVars>>
  \/ part = "sequencer" /\ Drive /\ UNCHANGED <<part, checkVars, randomVars, engineVars>>
  \/ part = "scoreboard" /\ Score /\ UNCHANGED <<part, checkVars, randomVars, engineVars>>
  \/ part = "coverage" /\ Cover /\ UNCHANGED <<part, checkVars, randomVars, engineVars>>
  \/ part = "assertions" /\ Engine!AssertNext /\ UNCHANGED <<part, checkVars, randomVars, benchVars>>

Spec == Init /\ [][Next]_vars
-----------------------------------------------------------------------------
(* VerdictsSound: random values that were found without going back satisfy   *)
(* their constraints (DirectSolutions of ConstraintSolver), and the counters *)
(* of assertions agree with each other (VerdictsAgree of AssertionEngine).   *)
(* CheckSound is that of BoundedCheck, BenchSound and CoverageKept are those *)
(* of Testbench.                                                             *)
VerdictsSound == Random!DirectSolutions /\ Engine!VerdictsAgree
=============================================================================
