---------------------------- MODULE MCNocControl ----------------------------
(***************************************************************************)
(* The control side of mini-noc-design on a small instance: the deadlock   *)
(* detector with the router around it, the topologies with their paths and *)
(* graph checks, and the quality of service; and between chips, the        *)
(* die-to-die links.  They share no state: part says which one a behaviour *)
(* is of.                                                                  *)
(***************************************************************************)
EXTENDS NocDeadlock, NocQos, DieLink

CONSTANTS MaxHops, Channels, VcIds

VARIABLES
  part,
  topo, task, round, dist, prev, visited, ends, path, graph, verdict

Shapes == {[type |-> "MESH", k |-> 2, n |-> 2], [type |-> "MESH", k |-> 3, n |-> 2],
           [type |-> "TORUS", k |-> 2, n |-> 2], [type |-> "TORUS", k |-> 3, n |-> 2],
           [type |-> "RING", k |-> 5, n |-> 1], [type |-> "TREE", k |-> 2, n |-> 3],
           [type |-> "BUTTERFLY", k |-> 2, n |-> 1], [type |-> "BUTTERFLY", k |-> 2, n |-> 2],
           [type |-> "BUTTERFLY", k |-> 4, n |-> 2]}
WeightSets == {[c \in Classes |-> CASE c = 0 -> 10 [] c = 1 -> 5 [] OTHER -> 5],
               [c \in Classes |-> CASE c = 0 -> 4 [] c = 1 -> 30 [] OTHER -> 4]}

FlitBytes == <<{0, 2}>>
SeedSets == {{}, {0}, {1, 2, 3, 4, 5, 6}}

Generator(p, k, r, seed) ==
  [pattern |-> p, side |-> k, length |-> 4, rate |-> r, hot |-> 500, hotNode |-> k, seed |-> seed]
GeneratorSet ==
  {Generator(p, k, r, seed) :
     p \in {"UNIFORM", "TRANSPOSE", "BIT_REVERSE", "BIT_COMPLEMENT", "TORNADO", "NEIGHBOR", "HOTSPOT",
            "SHUFFLE", "CUSTOM"},
     k \in {2, 3, 4}, r \in {200000, 900000}, seed \in {0, 7, 42}}

Graphs == INSTANCE NocGraphs

ASSUME ClassesWeighted == QosAssumption
ASSUME DiesFormed == DieAssumption
ASSUME SeedsTold == SeedTold

detectorVars == <<vcs, counter, flags, moved, waited>>
graphVars == <<topo, task, round, dist, prev, visited, ends, path, graph, verdict>>
dieVars == <<linkVars, phyVars, moduleVars, plan>>
allVars == <<part, detectorVars, graphVars, qosVars, trafficVars, dieVars>>

QosIdle ==
  /\ weights = [c \in Classes |-> 10] /\ deficit = [c \in Classes |-> 0] /\ current = 0
  /\ waits = [c \in Classes |-> 0] /\ rate = 10 /\ burst = 10 /\ tokens = burst
  /\ allowed = 0 /\ blocked = 0 /\ refills = 0 /\ turns = 0
  /\ shares = [vcs |-> 0, count |-> [c \in Classes |-> 0]]

MCInit ==
  /\ part \in {"detector", "graphs", "qos", "traffic", "link", "phy", "module", "partition"}
  /\ DieInit /\ InitTraffic
  /\ part # "link" => link = NewLink(2)
  /\ part # "phy" => phy = NewPhy(10)
  /\ part # "partition" => plan.count = 1
  /\ Init
  /\ IF part = "graphs" THEN Graphs!InitPairs \/ Graphs!InitPath \/ Graphs!InitCheck ELSE Graphs!Blank
  /\ IF part = "qos" THEN InitQos ELSE QosIdle

UpdatePart == part = "detector" /\ Update /\ UNCHANGED <<graphVars, qosVars, trafficVars, dieVars>>
DetectorPart ==
  /\ part = "detector" /\ (Router \/ Recover)
  /\ UNCHANGED <<graphVars, qosVars, trafficVars, dieVars>>
GraphsPart == part = "graphs" /\ Graphs!GraphStep /\ UNCHANGED <<detectorVars, qosVars, trafficVars, dieVars>>
QosPart == part = "qos" /\ QosStep /\ UNCHANGED <<detectorVars, graphVars, trafficVars, dieVars>>
TrafficPart == part = "traffic" /\ TrafficStep /\ UNCHANGED <<detectorVars, graphVars, qosVars, dieVars>>
DiesPart ==
  /\ \/ part = "link" /\ LinkNext /\ UNCHANGED <<phyVars, moduleVars, plan>>
     \/ part = "phy" /\ PhyNext /\ UNCHANGED <<linkVars, moduleVars, plan>>
     \/ part = "module" /\ ModuleNext /\ UNCHANGED <<linkVars, phyVars, plan>>
     \/ part = "partition" /\ PartitionNext /\ UNCHANGED <<linkVars, phyVars, moduleVars>>
  /\ UNCHANGED <<detectorVars, graphVars, qosVars, trafficVars>>

MCNext ==
  /\ UNCHANGED part
  /\ UpdatePart \/ DetectorPart \/ GraphsPart \/ QosPart \/ TrafficPart \/ DiesPart

(* The simulation keeps calling update. *)
MCSpec ==
  /\ MCInit /\ [][MCNext]_allVars /\ WF_allVars(UpdatePart /\ UNCHANGED part)
-----------------------------------------------------------------------------
(* DetectorActs: whatever waits for good is flagged (WaitingIsResolved), no  *)
(* ordinary channel before its packet waited long enough (NoFalseAlarm), and *)
(* no packet is in two channels (PacketsUnique); see NocDeadlock.            *)
DetectorActs == WaitingIsResolved /\ NoFalseAlarm /\ []PacketsUnique

(* NetworkExact: every least number of edges, every path given out and      *)
(* every answer of the cycle checks is right (DistancesExact, PathsReal,    *)
(* CyclesFound of NocGraphs), and generated traffic stays in the mesh, is   *)
(* spread and adds up (TrafficSound of NocQos).                             *)
NetworkExact ==
  /\ Graphs!DistancesExact /\ Graphs!PathsReal /\ Graphs!CyclesFound
  /\ part = "traffic" => TrafficSound
=============================================================================
