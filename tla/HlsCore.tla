-------------------------------- MODULE HlsCore --------------------------------
(***************************************************************************)
(* The high-level synthesis core: a data-flow graph (hls_dfg.c), its           *)
(* schedule (hls_schedule.c), the count of functional units and the lifetimes  *)
(* (hls_allocate.c), the binding of values to registers (hls_binding.c) and    *)
(* the controller with one state per cycle (hls_fsmd.c).  Areas, delays of     *)
(* units, names and the printed Verilog are left out.                          *)
(***************************************************************************)
EXTENDS Integers, Sequences, FiniteSets
Sets == INSTANCE FiniteSetsExt

CONSTANTS
  OpsUsed,     \* the operations given to new nodes, among Operations
  MaxNodes,    \* MAX_DFG_NODES
  MaxEdges,    \* MAX_DFG_EDGES
  MaxDelay,    \* largest delay given to an edge
  MaxLatency,  \* largest latency asked of a schedule
  MaxRegs,     \* MAX_REGISTERS
  Horizon,     \* cycles in which the binder notes a register as taken (256)
  MaxStates    \* MAX_STATES

VARIABLES
  ops,      \* dfg->nodes: the operation of each node
  edges,    \* dfg->edges: from, to and delay
  asap,     \* of each node
  cycle,    \* schedule_cycle of each node
  planner,  \* history: the scheduler that gave the cycles, "none" before
  regs,     \* history: the register each node was given, 0 for none
  rows,     \* the BindingResult's register rows: the last node and its interval
  units,    \* AllocResult: how many units of each type
  fsm       \* the controller: its states, and whether its generation succeeded
graph == <<ops, edges>>
schedule == <<asap, cycle, planner>>
coreVars == <<graph, schedule, regs, rows, units, fsm>>

\* Edges may wait, there may be no register, and a controller has a first state.
HlsAssumption ==
  /\ MaxDelay \in Nat /\ MaxRegs \in Nat /\ Horizon \in Nat \ {0} /\ MaxStates \in Nat \ {0}

Nodes == 1..Len(ops)
Times == [Nodes -> Int]
Latency(i) == IF ops[i] \in {"MUL", "DIV"} THEN 2 ELSE 1
NoUnits == [u \in {"ADDER", "MULTIPLIER", "DIVIDER", "LOAD_UNIT", "STORE_UNIT", "ALU"} |-> 0]
NoFsm == [ok |-> FALSE, states |-> <<>>]
-----------------------------------------------------------------------------
(* A loop of n rounds, each of which makes a new value of the last one's.     *)
Loop(n, start, step) ==
  LET at[k \in 0..n] == IF k = 0 THEN start ELSE step[k][at[k - 1]]
  IN  at[n]

(* The longest-path propagation of the schedulers, in place: every pass goes  *)
(* over the edges in the order they were added.  (A pass that changes nothing   *)
(* ends it; those that are left would change nothing either.)                  *)
Forward(t, e) ==
  LET new == t[e.from] + Latency(e.from) + e.delay IN IF new > t[e.to] THEN [t EXCEPT ![e.to] = new] ELSE t
Backward(t, e) ==
  LET new == t[e.to] - Latency(e.from) - e.delay IN IF new < t[e.from] THEN [t EXCEPT ![e.from] = new] ELSE t
Relaxed(back, t, e) == IF back THEN Backward(t, e) ELSE Forward(t, e)

Pass(back, t) == Loop(Len(edges), t, [k \in 1..Len(edges) |-> [u \in Times |-> Relaxed(back, u, edges[k])]])
Passes(back, start) ==
  Loop(2 * Len(ops), start, [k \in 1..(2 * Len(ops)) |-> [t \in Times |-> Pass(back, t)]])

Asap == Passes(FALSE, [i \in Nodes |-> 0])
Alap(limit) == Passes(TRUE, [i \in Nodes |-> limit])

\* Moved to the latest cycle where that is not before the earliest.
Later(early, late) == [i \in Nodes |-> IF late[i] > early[i] THEN late[i] ELSE early[i]]
Latest(limit) == Later(Asap, Alap(limit))

(* Each node in turn goes to the least loaded of up to four cycles from its   *)
(* earliest one on, whatever its consumers need.                             *)
Choices(early, i, limit) == {c \in early[i]..(early[i] + 3) : c <= limit}
Lightest(early, i, limit, t) ==
  LET load(c) == Cardinality({j \in 1..(i - 1) : t[j] = c})
  IN  {c \in Choices(early, i, limit) : \A d \in Choices(early, i, limit) : load(c) <= load(d)}
Balanced(limit) ==
  LET early == Asap
  IN  Loop(Len(ops), early, [i \in Nodes |-> [t \in Times |->
        IF Choices(early, i, limit) = {} THEN t ELSE [t EXCEPT ![i] = Sets!Min(Lightest(early, i, limit, t))]]])

(* List scheduling takes the ready nodes that no scheduler has marked yet;    *)
(* the earliest-cycle pass it starts with has marked them all, so it places    *)
(* none and leaves every node at its earliest cycle, whatever the resources.   *)
ListScheduled ==
  LET marked == Nodes
      ready == {i \in Nodes \ marked : \A k \in DOMAIN edges : edges[k].to # i}
  IN  IF ready = {} THEN Asap ELSE [i \in Nodes |-> IF i \in ready THEN 0 ELSE Asap[i]]

(* The longest path by the cost of operations, printed by the tools.         *)
Cost(i) == CASE ops[i] = "MUL" -> 3 [] ops[i] = "DIV" -> 5 [] OTHER -> 1
CriticalPath ==
  LET relax(t, e) == IF t[e.from] + Cost(e.from) > t[e.to] THEN [t EXCEPT ![e.to] = t[e.from] + Cost(e.from)] ELSE t
      round(t) == Loop(Len(edges), t, [k \in 1..Len(edges) |-> [u \in Times |-> relax(u, edges[k])]])
      dist == Loop(Len(ops), [i \in Nodes |-> 0], [k \in Nodes |-> [t \in Times |-> round(t)]])
  IN  Sets!Max({dist[i] : i \in Nodes} \cup {0})
TotalLatency == Sets!Max({cycle[i] + Latency(i) : i \in Nodes} \cup {0})
-----------------------------------------------------------------------------
UnitTypes == DOMAIN NoUnits
UnitOf(op) ==
  CASE op \in {"ADD", "SUB"} -> "ADDER" [] op = "MUL" -> "MULTIPLIER" [] op = "DIV" -> "DIVIDER"
    [] op = "LOAD" -> "LOAD_UNIT" [] op = "STORE" -> "STORE_UNIT" [] OTHER -> "ALU"
Starting(u, c) == Cardinality({i \in Nodes : UnitOf(ops[i]) = u /\ cycle[i] = c})
\* Both allocators: as many units of a type as operations of it start together.
Concurrency == [u \in UnitTypes |-> Sets!Max({Starting(u, c) : c \in 0..Sets!Max({cycle[i] : i \in Nodes} \cup {0})})]

Consumers(i) == {edges[k].to : k \in {j \in DOMAIN edges : edges[j].from = i}}
(* A value's life for the allocator: from its result to its last consumer.    *)
Born(i) == cycle[i] + Latency(i)
Dies(i) == Sets!Max({Born(i)} \cup {cycle[j] : j \in Consumers(i)})

(* ... and for the binder: from the start of its operation.                  *)
FirstUse(i) == cycle[i]
LastUse(i) == Sets!Max({cycle[i] + 1} \cup {cycle[j] : j \in Consumers(i)})
HasValue(i) == ops[i] \notin {"STORE", "PHI", "CMP"}

(* The exchange sort of the binder, by the first use.                        *)
Orders == [Nodes -> Nodes]
Exchanged(s, a, b) == IF FirstUse(s[a]) > FirstUse(s[b]) THEN [s EXCEPT ![a] = s[b], ![b] = s[a]] ELSE s
Sifted(s, a) == Loop(Len(ops) - a, s, [d \in 1..(Len(ops) - a) |-> [u \in Orders |-> Exchanged(u, a, a + d)]])
Sorted == Loop(Len(ops), [i \in Nodes |-> i], [a \in Nodes |-> [s \in Orders |-> Sifted(s, a)]])

\* faulty: a register is taken to be free again in the cycle of the last use
OverlapOpen(i, j) == FirstUse(i) < LastUse(j) /\ FirstUse(j) < LastUse(i)
\* The cycles of both, from the first use to the last; past the horizon none are noted.
Overlap(i, j) == \E c \in FirstUse(i)..LastUse(i) : c < Horizon /\ c \in FirstUse(j)..LastUse(j)

(* Left edge: each value in turn gets the first register in use that none of  *)
(* its cycles is taken in, else a new one, else none.                        *)
Used(r) == Sets!Max({r[j] : j \in Nodes} \cup {0})
FreeFor(r, i) == {g \in 1..Used(r) : \A j \in Nodes : r[j] = g => ~Overlap(i, j)}
Bound(r, i) ==
  IF ~HasValue(i) THEN r
  ELSE IF FreeFor(r, i) # {} THEN [r EXCEPT ![i] = Sets!Min(FreeFor(r, i))]
  ELSE IF Used(r) < MaxRegs THEN [r EXCEPT ![i] = Used(r) + 1]
  ELSE r
Bindings == [Nodes -> 0..MaxRegs]
LeftEdge ==
  LET order == Sorted
  IN  Loop(Len(ops), [i \in Nodes |-> 0], [k \in Nodes |-> [r \in Bindings |-> Bound(r, order[k])]])

(* The row of a register keeps the last value bound to it.                   *)
RowsOf(r) ==
  LET last(g) == CHOOSE i \in {j \in Nodes : r[j] = g} : \A j \in Nodes : r[j] = g => FirstUse(j) <= FirstUse(i)
  IN  [g \in 1..Used(r) |-> [node |-> last(g), from |-> FirstUse(last(g)), to |-> LastUse(last(g))]]
-----------------------------------------------------------------------------
(* One state per cycle with the operations of that cycle, going to the next;  *)
(* the last one stays.  Generation stops, half done, when states run out.      *)
Chain(n) == [s \in 1..n |-> [operations |-> {i \in Nodes : cycle[i] = s - 1}, next |-> s, alt |-> -1]]

SkipTo(c, n) == IF c + 2 >= n THEN n - 1 ELSE c + 2

(* A comparison makes its state branch, past the next one.                   *)
Branches(chain) ==
  LET n == Len(chain)
      splits(s) == n < MaxStates - 1 /\ \E i \in Nodes : ops[i] = "CMP" /\ cycle[i] = s - 1
  IN  [s \in 1..n |-> IF splits(s) THEN [chain[s] EXCEPT !.alt = SkipTo(s - 1, n)] ELSE chain[s]]

Generated ==
  LET n == 1 + Sets!Max({cycle[i] : i \in Nodes} \cup {0})
  IN  IF n > MaxStates THEN [ok |-> FALSE, states |-> Chain(MaxStates)]
      ELSE [ok |-> TRUE, states |-> Branches([Chain(n) EXCEPT ![n].next = n - 1])]
-----------------------------------------------------------------------------
CoreInit ==
  /\ ops = <<>> /\ edges = <<>>
  /\ asap = <<>> /\ cycle = <<>> /\ planner = "none"
  /\ regs = <<>> /\ rows = <<>> /\ fsm = NoFsm
  /\ units = NoUnits

\* Results computed from an older schedule are dropped: nothing reads them.
Unplanned == regs' = <<>> /\ rows' = <<>> /\ fsm' = NoFsm /\ units' = NoUnits

(* The graph is complete before it is scheduled: nodes, then edges.           *)
AddNode(op) ==
  /\ planner = "none" /\ edges = <<>> /\ Len(ops) < MaxNodes
  /\ ops' = Append(ops, op)
  /\ asap' = Append(asap, -1) /\ cycle' = Append(cycle, -1)
  /\ UNCHANGED <<edges, planner, regs, rows, units, fsm>>

(* Any two nodes of the graph, in any direction.                             *)
AddEdge(from, to, delay) ==
  /\ planner = "none" /\ Len(edges) < MaxEdges
  /\ edges' = Append(edges, [from |-> from, to |-> to, delay |-> delay])
  /\ UNCHANGED <<ops, asap, cycle, planner, regs, rows, units, fsm>>

(* The scan for variable names ends the text at the first name it finds: one  *)
(* load is all that a graph built from a C statement ever holds.             *)
BuildFromC(named) ==
  /\ ops' = IF named THEN <<"LOAD">> ELSE <<>>
  /\ asap' = [i \in DOMAIN ops' |-> -1] /\ cycle' = asap'
  /\ edges' = <<>> /\ planner' = "none" /\ Unplanned

\* Every scheduler starts from the graph alone, so each graph is scheduled once.
Planned(by, cycles) ==
  /\ ops # <<>> /\ planner = "none"
  /\ asap' = Asap
  /\ cycle' = cycles
  /\ planner' = by
  /\ Unplanned /\ UNCHANGED graph

SchedAsap == Planned("asap", Asap)
SchedAlap(limit) == Planned("alap", Latest(limit))
\* Asked for with one resource.
SchedList == Planned("list", ListScheduled)
SchedForceDirected(limit) == Planned("force", Balanced(limit))

\* The flow allocates, binds and then generates the controller.
AllocGreedy == planner # "none" /\ units' = Concurrency /\ UNCHANGED <<graph, schedule, regs, rows, fsm>>
BindRegisters ==
  /\ units # NoUnits
  /\ regs' = LeftEdge /\ rows' = RowsOf(LeftEdge)
  /\ UNCHANGED <<graph, schedule, units, fsm>>
FsmdGenerate == regs # <<>> /\ fsm' = Generated /\ UNCHANGED <<graph, schedule, regs, rows, units>>

CoreNext ==
  \/ \E op \in OpsUsed : AddNode(op)
  \/ \E i, j \in Nodes, d \in 0..MaxDelay : i # j /\ AddEdge(i, j, d)
  \/ \E named \in BOOLEAN : BuildFromC(named)
  \/ SchedAsap \/ SchedList \/ AllocGreedy \/ BindRegisters \/ FsmdGenerate
  \/ \E n \in 1..MaxLatency : SchedAlap(n) \/ SchedForceDirected(n)

CoreSpec == CoreInit /\ [][CoreNext]_coreVars
-----------------------------------------------------------------------------
Acyclic == \E rank \in [Nodes -> 1..Len(ops)] : \A k \in DOMAIN edges : rank[edges[k].from] < rank[edges[k].to]

(* DependencesKept: whichever of the earliest, latest and list schedules      *)
(* gave the cycles, and however short the latency asked for was, no operation  *)
(* of an acyclic graph starts before the results it consumes are there.  The   *)
(* in-place passes over the edges, in any order of adding them, are enough.    *)
(* (Force-directed scheduling looks at no edge and is not among them.)         *)
DependencesKept ==
  planner \in {"asap", "alap", "list"} /\ Acyclic =>
    \A k \in DOMAIN edges : cycle[edges[k].from] + Latency(edges[k].from) + edges[k].delay <= cycle[edges[k].to]

(* RegistersShared: two values bound to one register are never alive          *)
(* together, in the sense of the allocator's own lifetimes, as long as the     *)
(* schedule stays below the binder's horizon; as few registers                 *)
(* are used as values overlap in some cycle; and a value goes without one      *)
(* only when all registers are in use.                                       *)
RegistersShared ==
  LET valued == {i \in Nodes : HasValue(i)}
      used == {regs[i] : i \in valued} \ {0}
      overlapping == {Cardinality({j \in valued : FirstUse(j) <= c /\ c <= LastUse(j)}) : c \in 0..TotalLatency}
  IN  regs # <<>> =>
        /\ \A i, j \in valued : i # j /\ regs[i] = regs[j] /\ regs[i] # 0 /\ LastUse(i) < Horizon =>
             Dies(i) < Born(j) \/ Dies(j) < Born(i)
        /\ Cardinality(used) <= Sets!Max(overlapping \cup {0})
        /\ (\E i \in valued : regs[i] = 0) => Cardinality(used) = MaxRegs

(* ControllerRunsSchedule: a controller whose generation succeeded performs   *)
(* each operation in the cycle the schedule gave it, counted from the start    *)
(* state, and in no other state; every target is a state, no branch goes back, *)
(* so that every path ends in the last state.                                *)
After(k) == Loop(k, 0, [m \in 1..k |-> [s \in 0..(Len(fsm.states) - 1) |-> fsm.states[s + 1].next]])
ControllerRunsSchedule ==
  LET n == Len(fsm.states)
  IN  fsm.ok =>
        /\ \A i \in Nodes : i \in fsm.states[After(cycle[i]) + 1].operations
        /\ \A i \in Nodes : Cardinality({s \in 1..n : i \in fsm.states[s].operations}) = 1
        /\ \A s \in 1..n : /\ fsm.states[s].next \in 0..(n - 1)
                           /\ fsm.states[s].alt # -1 => fsm.states[s].alt \in (s - 1)..(n - 1)
                           /\ s < n => fsm.states[s].next > s - 1 /\ fsm.states[s].alt # s - 1

=============================================================================
