\* A formula of 3 clauses over 3 variables, or a system of up to 3 states
\* unrolled one step; 3 random variables under 2 constraints; 4 items of 3
\* sequences; 3 expectations, 3 samples; 2 assertions on 2 signals and a clock.
SPECIFICATION Spec
CONSTANTS
  NumVars = 3
  MaxClauses = 3
  MaxLits = 2
  MaxStates = 3
  MaxBound = 1
  NumRand = 3
  Shaped = {2}
  Ranges <- OwnRange
  Constraints <- RuleSet
  MaxConstraints = 2
  MaxRetries = 2
  MaxTotalAttempts = 6
  Sequences_ = {s1, s2, s3}
  Tx = {1, 2}
  MaxItems = 4
  MaxActive = 3
  MaxChecks = 3
  Signals = {"req", "ack"}
  Width = 1
  Heap <- Nodes
  Asserted <- Assertions
  MaxAsserts = 2
  MaxEvals = 3
INVARIANTS
  CheckSound
  
  BenchSound
PROPERTY
  CoverageKept
\* The solver answers, the test ends, the budgets are used up.
CHECK_DEADLOCK FALSE
