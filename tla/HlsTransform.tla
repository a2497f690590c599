------------------------------ MODULE HlsTransform ------------------------------
(***************************************************************************)
(* What the synthesis flow does around the core: the pipelined graph and its   *)
(* schedulers (hls_pipeline.c), loops (loop_optimize.c), arrays and their      *)
(* banks (array_partition.c), tasks and channels (dataflow_opt.c) and the      *)
(* directives with their fixed tables (interface_pragma.c).  The four share    *)
(* no state, with each other or with the core, whose Loop they run too.         *)
(* Stencils, memory sizing, burst checks and printing are left out.            *)
(***************************************************************************)
EXTENDS HlsCore
Lists == INSTANCE SequencesExt

CONSTANTS
  MaxPipeNodes,  \* HLS_MAX_NODES
  MaxPipeEdges,  \* bounds the edges added to it
  MaxPorts,      \* inputs and outputs a node or task holds (8)
  MaxCycles,     \* largest latency asked of the latest schedule
  MaxLoops,      \* HLS_MAX_LOOPS
  Trips,         \* trip counts, 0 for unknown
  NumDims,       \* the array's dimensions
  Sizes,         \* sizes given to a dimension
  Factors,       \* unroll and partition factors
  Accesses,      \* parallel accesses looked at for conflicts
  MaxBanks,      \* HLS_MAX_BANKS, the banks bank_assign allows
  MaxTasks,      \* HLS_MAX_TASKS and HLS_MAX_CHANNELS
  MaxInterfaces  \* interfaces of a directive set (32)

VARIABLES
  pnodes, pinputs, poutputs, pasap, palap, plan, planned_,   \* the pipelined graph
  loops,                                                    \* the loop nest
  dims, numBanks, numPorts, total, conflicts, answer, remade, \* one array
  tasks, channels, refused, verified,                       \* tasks and channels
  interfaces, bundles, dropped                              \* directives
pipeVars == <<pnodes, pinputs, poutputs, pasap, palap, plan, planned_>>
arrayVars == <<dims, numBanks, numPorts, total, conflicts, answer, remade>>
taskVars == <<tasks, channels, refused, verified>>
pragmaVars == <<interfaces, bundles, dropped>>
transformVars == <<pipeVars, loops, arrayVars, taskVars, pragmaVars>>

\* What callers give: trip counts and sizes may be 0, an access is an index.
TransformAssumption ==
  /\ NumDims \in Nat /\ Trips \subseteq Nat /\ Sizes \subseteq Nat /\ Factors \subseteq Nat
  /\ MaxPorts \in Nat /\ MaxInterfaces \in Nat /\ Accesses \subseteq Seq(Nat)
-----------------------------------------------------------------------------
(* The pipelined graph: an edge is noted at both of its ends, at each as long *)
(* as there is a port left.                                                  *)
PNodes == 1..Len(pnodes)
PLatency(i) == IF pnodes[i] \in {"MUL", "DIV"} THEN 3 ELSE 1
Resource(op) ==
  CASE op = "MUL" -> "MUL" [] op = "DIV" -> "DIV" [] op = "LD" -> "MEM_RD" [] op = "ST" -> "MEM_WR" [] OTHER -> "ALU"

\* Nodes, then edges, then the schedulers.
AddPipeNode(op) ==
  /\ planned_ = "none" /\ Len(pnodes) < MaxPipeNodes /\ \A i \in PNodes : poutputs[i] = <<>> /\ pinputs[i] = <<>>
  /\ pnodes' = Append(pnodes, op)
  /\ pinputs' = Append(pinputs, <<>>) /\ poutputs' = Append(poutputs, <<>>)
  /\ pasap' = Append(pasap, 0) /\ palap' = Append(palap, 0) /\ plan' = Append(plan, 0)
  /\ UNCHANGED planned_

Port(ports, i, j) == IF Len(ports[i]) < MaxPorts THEN [ports EXCEPT ![i] = Append(@, j)] ELSE ports
InputsNoted == Lists!FoldLeft(+, 0, [i \in PNodes |-> Len(pinputs[i])])
AddPipeEdge(from, to) ==
  /\ planned_ = "none" /\ InputsNoted < MaxPipeEdges
  /\ poutputs' = Port(poutputs, from, to)
  /\ pinputs' = Port(pinputs, to, from)
  /\ UNCHANGED <<pnodes, pasap, palap, plan, planned_>>

PTimes == [PNodes -> Nat]
Inputs(i) == Lists!Range(pinputs[i])
Outputs(i) == Lists!Range(poutputs[i])

\* The end of the last input, each node in the order of adding.
Ready(t, i) == Sets!Max({t[j] + PLatency(j) : j \in Inputs(i)} \cup {0})
PipeAsap(t) == Loop(Len(pnodes), t, [i \in PNodes |-> [u \in PTimes |-> [u EXCEPT ![i] = Ready(u, i)]]])
PipeTotal(t) == Sets!Max({t[i] + PLatency(i) : i \in PNodes} \cup {0})

PipeScheduleAsap ==
  /\ pnodes # <<>> /\ planned_ = "none"
  /\ pasap' = PipeAsap(pasap) /\ plan' = pasap'
  /\ planned_' = "asap"
  /\ UNCHANGED <<pnodes, pinputs, poutputs, palap>>

\* The latest start: before every consumer noted at the node, never below 0.
Pulled(t, i, limit) ==
  LET bound == Sets!Min({t[j] : j \in Outputs(i)} \cup {limit})
      new == IF bound >= PLatency(i) THEN bound - PLatency(i) ELSE 0
  IN  IF new < t[i] THEN new ELSE t[i]
\* From the last node back to the first, until a sweep changes nothing: each that
\* changes something takes a cycle from a node, so that this many sweeps are enough.
PipeBack(limit, t) ==
  LET n == Len(pnodes)
  IN  Loop(n, t, [k \in PNodes |-> [u \in PTimes |-> [u EXCEPT ![n + 1 - k] = Pulled(u, n + 1 - k, limit)]]])
Sweeps(limit) == Len(pnodes) * limit + 1
PipeAlap(limit) ==
  Loop(Sweeps(limit), [i \in PNodes |-> limit], [k \in 1..Sweeps(limit) |-> [t \in PTimes |-> PipeBack(limit, t)]])

PipeScheduleAlap(limit) ==
  /\ pnodes # <<>> /\ planned_ = "asap"
  /\ palap' = PipeAlap(limit)
  /\ planned_' = IF limit >= PipeTotal(pasap) THEN "window" ELSE "short"
  /\ UNCHANGED <<pnodes, pinputs, poutputs, pasap, plan>>

(* List scheduling counts the uses of a resource over the whole schedule, not *)
(* per cycle: once a limit is used up, later operations search in vain and     *)
(* land on the last cycle of the search.                                     *)
SearchEnd == 10000
PipeList(limit) ==
  LET place(s, i) ==
        LET r == Resource(pnodes[i])
            fits == limit = 0 \/ s.used[r] < limit
        IN  [used |-> IF fits THEN [s.used EXCEPT ![r] = @ + 1] ELSE s.used,
             at |-> [s.at EXCEPT ![i] = IF fits \/ Ready(s.at, i) >= SearchEnd THEN Ready(s.at, i) ELSE SearchEnd]]
  IN  Lists!FoldLeft(place, [used |-> [r \in {"ALU", "MUL", "DIV", "MEM_RD", "MEM_WR"} |-> 0], at |-> plan],
               [i \in PNodes |-> i]).at

PipeScheduleList(limit) ==
  /\ pnodes # <<>> /\ planned_ = "none"
  /\ plan' = PipeList(limit) /\ planned_' = "list"
  /\ UNCHANGED <<pnodes, pinputs, poutputs, pasap, palap>>

PipeNext ==
  /\ \/ \E op \in {"ADD", "MUL"} : AddPipeNode(op)
     \/ \E i, j \in PNodes : i # j /\ AddPipeEdge(i, j)
     \/ PipeScheduleAsap
     \/ \E n \in 1..MaxCycles : PipeScheduleAlap(n)
     \/ \E n \in 0..1 : PipeScheduleList(n)
  /\ UNCHANGED <<loops, arrayVars, taskVars, pragmaVars>>
-----------------------------------------------------------------------------
(* Loops, outer ones before the loops in them.  History: "made", the trips    *)
(* the source loop had, and "changes", what was done to them (up to twice).    *)
Nests ==
  Seq([parent : Nat, trip : Nat, factor : Nat, unrolled : {"NONE", "PARTIAL", "COMPLETE"}, flattened : BOOLEAN,
       ii : Nat, pipelined : BOOLEAN, made : Nat, changes : Nat])
AddLoop(parent, trip) ==
  /\ Len(loops) < MaxLoops
  /\ loops' = Append(loops, [parent |-> parent, trip |-> trip, factor |-> 0, unrolled |-> "NONE", flattened |-> FALSE,
                             ii |-> 0, pipelined |-> FALSE, made |-> trip, changes |-> 0])

\* faulty: any factor unrolls any loop
AlwaysLegal(l, factor) == TRUE
\* Only known trip counts must be multiples of the factor.
UnrollIsLegal(l, factor) == l.trip > 0 => l.trip % factor = 0

Again(n) == Sets!Min({n + 1, 2})
UnrollPartial(i, factor) ==
  /\ factor >= 2 /\ UnrollIsLegal(loops[i], factor)
  /\ loops' = [loops EXCEPT ![i].factor = factor, ![i].unrolled = "PARTIAL", ![i].trip = @ \div factor,
                            ![i].changes = Again(@)]
UnrollComplete(i) ==
  loops' = [loops EXCEPT ![i].factor = 1, ![i].unrolled = "COMPLETE", ![i].trip = 0, ![i].changes = Again(@)]

\* The outer loop takes over the inner one's trips; both stay in the nest.
FlattenPair(ls, outer, inner) ==
  IF ls[inner].unrolled # "NONE" THEN ls
  ELSE [ls EXCEPT ![inner].flattened = TRUE,
                  ![outer].trip = IF @ > 0 /\ ls[inner].trip > 0 THEN @ * ls[inner].trip ELSE @,
                  ![outer].changes = Again(@)]
Flatten ==
  loops' = Loop(Len(loops), loops, [i \in DOMAIN loops |-> [ls \in Nests |->
             IF ls[i].parent = 0 THEN ls ELSE FlattenPair(ls, ls[i].parent, i)]])

Merge(i, j) ==
  /\ loops[i].parent = loops[j].parent /\ loops[i].trip = loops[j].trip
  /\ loops' = [loops EXCEPT ![j].flattened = TRUE]
SetIi(i, ii) == ii > 0 /\ loops' = [loops EXCEPT ![i].ii = ii, ![i].pipelined = TRUE]
Rewind(i, on) ==
  loops' = [loops EXCEPT ![i].pipelined = on, ![i].ii = IF on /\ @ = 0 THEN 1 ELSE @]

LoopNext ==
  /\ \/ \E p \in 0..Len(loops), t \in Trips : AddLoop(p, t)
     \/ \E i \in DOMAIN loops :
          \/ loops[i].changes < 2 /\ (UnrollComplete(i) \/ \E f \in Factors : UnrollPartial(i, f))
          \/ SetIi(i, 2)
          \/ \E on \in BOOLEAN : Rewind(i, on)
          \/ \E j \in DOMAIN loops : i < j /\ ~loops[i].flattened /\ ~loops[j].flattened /\ Merge(i, j)
     \/ loops # <<>> /\ (\A i \in DOMAIN loops : ~loops[i].flattened) /\ Flatten
  /\ UNCHANGED <<pipeVars, arrayVars, taskVars, pragmaVars>>
-----------------------------------------------------------------------------
(* One array.  Every partition of a dimension multiplies the banks, also when *)
(* the dimension was partitioned before; "remade" notes that, and a dimension  *)
(* given a new size after its partition.                                     *)
Dims == 1..NumDims
Product(f) == Loop(NumDims, 1, [d \in Dims |-> [n \in Nat |-> n * f[d]]])
SetDim(d, size) ==
  /\ dims' = [dims EXCEPT ![d] = [size |-> size, part |-> "NONE", factor |-> 1]]
  /\ total' = Product([e \in Dims |-> IF dims'[e].size > 0 THEN dims'[e].size ELSE 1])
  /\ remade' = (remade \/ dims[d].part # "NONE")
  /\ UNCHANGED <<numBanks, numPorts, conflicts, answer>>

Divides(part, size, factor) == part = "BLOCK" => size % factor = 0

Partition(d, part, factor) ==
  LET by == IF part = "COMPLETE" THEN dims[d].size ELSE factor
  IN  /\ part # "COMPLETE" => factor >= 2 /\ Divides(part, dims[d].size, factor)
      /\ dims' = [dims EXCEPT ![d].part = part, ![d].factor = by]
      /\ numBanks' = numBanks * by
      /\ remade' = (remade \/ dims[d].part # "NONE" \/ dims[d].size = 0)
      /\ UNCHANGED <<numPorts, total, conflicts, answer>>

BankAssign(n) ==
  /\ n <= MaxBanks
  /\ numBanks' = n /\ remade' = TRUE /\ UNCHANGED <<dims, numPorts, total, conflicts, answer>>
SetPorts(n) == numPorts' = n /\ UNCHANGED <<dims, numBanks, total, conflicts, answer, remade>>

GetBank(index) == IF numBanks = 0 THEN 0 ELSE index % numBanks
SeenTwice(accesses) == Cardinality({GetBank(accesses[k]) : k \in DOMAIN accesses}) < Len(accesses)

(* Only up to MaxBanks banks have a place in the table of the test.          *)
Detect(accesses) ==
  /\ numBanks <= MaxBanks
  /\ LET conflict == Len(accesses) > numBanks \/ SeenTwice(accesses)
     IN  /\ conflicts' = IF conflict THEN 1 ELSE conflicts
         /\ answer' = [accesses |-> accesses, banks |-> numBanks, conflict |-> conflict]
  /\ UNCHANGED <<dims, numBanks, numPorts, total, remade>>

BankDepth == IF numBanks = 0 THEN 0 ELSE total \div numBanks
CanAccessParallel(n) == n <= numBanks * numPorts

ArrayNext ==
  /\ numBanks < 2 * MaxBanks
  /\ \/ \E d \in Dims, n \in Sizes : SetDim(d, n)
     \/ \E d \in Dims, p \in {"BLOCK", "CYCLIC", "COMPLETE"}, f \in Factors : Partition(d, p, f)
     \/ \E n \in 1..MaxBanks : BankAssign(n)
     \/ SetPorts(2)
     \/ \E acc \in Accesses : Detect(acc)
  /\ UNCHANGED <<pipeVars, loops, taskVars, pragmaVars>>
-----------------------------------------------------------------------------
(* Tasks and channels: a connection is counted at the channel even when a     *)
(* task has no port left for it; "refused" notes that.                        *)
AddTask == Len(tasks) < MaxTasks /\ tasks' = Append(tasks, [state |-> "IDLE", ins |-> <<>>, outs |-> <<>>]) /\ UNCHANGED <<channels, refused, verified>>
AddChannel ==
  /\ Len(channels) < MaxTasks
  /\ channels' = Append(channels, [type |-> "FIFO", producers |-> 0, consumers |-> 0, full |-> FALSE, empty |-> TRUE])
  /\ verified' = FALSE /\ UNCHANGED <<tasks, refused>>

\* Connections are made while all tasks are idle, tasks run once all is verified.
Idle == \A i \in DOMAIN tasks : tasks[i].state = "IDLE"
PortOf(ports, c) == IF Len(ports) < MaxPorts THEN Append(ports, c) ELSE ports
Connect(p, c, q) ==
  /\ Idle /\ ~verified /\ Lists!FoldLeft(LAMBDA n, ch : n + ch.producers, 0, channels) <= MaxPorts
  /\ tasks' = IF p = q THEN [tasks EXCEPT ![p].outs = PortOf(@, c), ![p].ins = PortOf(@, c)]
              ELSE [tasks EXCEPT ![p].outs = PortOf(@, c), ![q].ins = PortOf(@, c)]
  /\ channels' = [channels EXCEPT ![c].producers = @ + 1, ![c].consumers = @ + 1]
  /\ refused' = (refused \/ Len(tasks[p].outs) >= MaxPorts \/ Len(tasks[q].ins) >= MaxPorts)
  /\ UNCHANGED verified

StreamCreate(c) == ~verified /\ channels' = [channels EXCEPT ![c].type = "STREAM", ![c].full = FALSE, ![c].empty = TRUE] /\ UNCHANGED <<tasks, refused, verified>>
StreamWrite(c) == verified /\ channels[c].type = "STREAM" /\ ~channels[c].full /\ channels' = [channels EXCEPT ![c].empty = FALSE] /\ UNCHANGED <<tasks, refused, verified>>
StreamRead(c) == verified /\ channels[c].type = "STREAM" /\ ~channels[c].empty /\ channels' = [channels EXCEPT ![c].full = FALSE] /\ UNCHANGED <<tasks, refused, verified>>

TaskMoves == {<<"IDLE", "RUNNING">>, <<"STALLED", "RUNNING">>, <<"DONE", "RUNNING">>, <<"RUNNING", "STALLED">>,
              <<"IDLE", "DONE">>, <<"RUNNING", "DONE">>, <<"STALLED", "DONE">>}
TaskMove(i, to) == verified /\ <<tasks[i].state, to>> \in TaskMoves /\ tasks' = [tasks EXCEPT ![i].state = to] /\ UNCHANGED <<channels, refused, verified>>

Verify ==
  /\ tasks # <<>>
  /\ verified' = \A c \in DOMAIN channels : channels[c].producers > 0 /\ channels[c].consumers > 0
  /\ UNCHANGED <<tasks, channels, refused>>

TaskNext ==
  /\ \/ AddTask \/ AddChannel \/ Verify
     \/ \E p, q \in DOMAIN tasks, c \in DOMAIN channels : Connect(p, c, q)
     \/ \E c \in DOMAIN channels : StreamCreate(c) \/ StreamWrite(c) \/ StreamRead(c)
     \/ \E i \in DOMAIN tasks, to \in {"RUNNING", "STALLED", "DONE"} : TaskMove(i, to)
  /\ UNCHANGED <<pipeVars, loops, arrayVars, pragmaVars>>
-----------------------------------------------------------------------------
(* Directives.  An interface that finds the table full is left out, and what   *)
(* the caller sets next (depth, burst, bundle) goes to the last entry there is. *)
PortNames == {"a", "b", "c"}
Kinds == {"M_AXI", "AXIS"}
SetInterface(is, port, kind) ==
  IF Len(is) < MaxInterfaces THEN Append(is, [port |-> port, type |-> kind, bundle |-> 0, depth |-> 0]) ELSE is
OnLast(is, field, x) == IF is = <<>> THEN is ELSE [is EXCEPT ![Len(is)][field] = x]

Interface(port, kind, depth) ==
  /\ interfaces' = OnLast(SetInterface(interfaces, port, kind), "depth", depth)
  /\ dropped' = (dropped \/ Len(interfaces) = MaxInterfaces)
  /\ UNCHANGED bundles

(* A bundle takes as many ports as it has room for; its interfaces point at it. *)
Directives == Seq([port : PortNames, type : Kinds, bundle : Nat, depth : Nat])
BundlePorts(ports) == SubSeq(ports, 1, Sets!Min({Len(ports), MaxPorts}))
Bundle(ports, kind) ==
  LET b == Len(bundles) + 1
  IN  /\ b <= MaxInterfaces
      /\ bundles' = Append(bundles, [ports |-> BundlePorts(ports), type |-> kind])
      /\ interfaces' = Loop(Len(ports), interfaces, [k \in DOMAIN ports |-> [is \in Directives |->
                          OnLast(SetInterface(is, ports[k], kind), "bundle", b)]])
      /\ dropped' = (dropped \/ Len(interfaces) + Len(ports) > MaxInterfaces \/ Len(ports) > MaxPorts)

PragmaNext ==
  /\ \/ \E p \in {"a", "b"}, k \in Kinds : Interface(p, k, 1)
     \/ \E ps \in {<<"a">>, <<"a", "b">>, <<"b", "c", "a">>} : Bundle(ps, "AXIS")
  /\ UNCHANGED <<pipeVars, loops, arrayVars, taskVars>>

TransformInit ==
  /\ pnodes = <<>> /\ pinputs = <<>> /\ poutputs = <<>> /\ pasap = <<>> /\ palap = <<>> /\ plan = <<>> /\ planned_ = "none"
  /\ loops = <<>>
  /\ dims = [d \in Dims |-> [size |-> 0, part |-> "NONE", factor |-> 0]]
  /\ numBanks = 1 /\ numPorts = 1 /\ total = 0 /\ conflicts = 0 /\ remade = FALSE
  /\ answer = [accesses |-> <<>>, banks |-> 1, conflict |-> FALSE]
  /\ tasks = <<>> /\ channels = <<>> /\ refused = FALSE /\ verified = FALSE
  /\ interfaces = <<>> /\ bundles = <<>> /\ dropped = FALSE

-----------------------------------------------------------------------------
\* The edges that both ends had a port for, and a graph in the order of its edges.
Noted == {e \in PNodes \X PNodes : e[1] \in Inputs(e[2]) /\ e[2] \in Outputs(e[1])}
Topological == \A i, j \in PNodes : i \in Inputs(j) \/ j \in Outputs(i) => i < j /\ <<i, j>> \in Noted

(* WindowsHold: in a graph whose edges all lead from earlier added nodes to    *)
(* later ones, and with an overall latency no shorter than the earliest        *)
(* schedule's, every node may start between its earliest and its latest cycle: *)
(* no window is negative (the slack is unsigned), and starting all nodes at    *)
(* their earliest, or all at their latest, keeps every dependence that both    *)
(* ends had a port for.                                                      *)
WindowsHold ==
  planned_ = "window" /\ Topological =>
    /\ \A i \in PNodes : pasap[i] <= palap[i]
    /\ \A e \in Noted : /\ pasap[e[1]] + PLatency(e[1]) <= pasap[e[2]]
                        /\ palap[e[1]] + PLatency(e[1]) <= palap[e[2]]

(* WorkKept: a loop whose one change is a partial unrolling does the           *)
(* iterations the source asked for, a copy for each factor; one that is        *)
(* pipelined has an initiation interval.                                     *)
WorkKept ==
  \A i \in DOMAIN loops : LET l == loops[i] IN
    /\ l.unrolled = "PARTIAL" /\ l.changes = 1 => l.trip * l.factor = l.made
    /\ l.pipelined => l.ii > 0

(* BanksCoverArray: the banks of an array whose dimensions were partitioned    *)
(* once, in blocks or completely, hold all its elements; accesses found free   *)
(* of conflict have a port each.                                             *)
BanksCoverArray ==
  /\ ~remade /\ total > 0 /\ (\A d \in Dims : dims[d].size > 0 /\ dims[d].part # "CYCLIC") => BankDepth * numBanks = total
  /\ ~answer.conflict /\ numBanks = answer.banks => CanAccessParallel(Len(answer.accesses))

(* TablesConsistent: a channel of a verified graph is held by a task at both   *)
(* ends as long as no task had more connections than ports; and, as long as no *)
(* table was full, every interface that has a bundle is one of its ports.      *)
TablesConsistent ==
  /\ verified /\ ~refused =>
       \A c \in DOMAIN channels : \E i, j \in DOMAIN tasks : c \in Lists!Range(tasks[i].outs) /\ c \in Lists!Range(tasks[j].ins)
  /\ ~dropped => \A k \in DOMAIN interfaces : LET f == interfaces[k] IN
       f.bundle # 0 => f.port \in Lists!Range(bundles[f.bundle].ports) /\ f.type = bundles[f.bundle].type
=============================================================================
