------------------------------ MODULE MCPhysical ------------------------------
(***************************************************************************)
(* Physical design for TLC: the passes of the FPGA tools and of the chip   *)
(* flows.  They share no state: a behaviour works one of them.             *)
(***************************************************************************)
EXTENDS EdaTools

CONSTANTS GridW, GridH, NumSlices, SliceLuts, SliceFfs, LutK, MaxAtoms, MaxBlocks, MaxMoves
VARIABLES atoms, clbs, packed, packing, packStats, blocks, annealing, cost, moves, origin
AtomShapes == {[type |-> "lut", ins |-> <<1, 2>>, out |-> 3, affinity |-> 0],
               [type |-> "ff", ins |-> <<3>>, out |-> 1, affinity |-> 3],
               [type |-> "carry", ins |-> <<2>>, out |-> -1, affinity |-> 0],
               [type |-> "io", ins |-> <<>>, out |-> 2, affinity |-> 1]}
PlaceNets == {[source |-> 1, sinks |-> {2, 3}], [source |-> 2, sinks |-> {4}], [source |-> 9, sinks |-> {}]}
NetWeight == [net \in PlaceNets |-> IF net.source = 2 THEN 3 ELSE 1]
Fabric == INSTANCE FpgaFabric
fabricVars == <<atoms, clbs, packed, packing, packStats, blocks, annealing, cost, moves, origin>>

CONSTANTS RrW, MaxWires, MaxSwitches, MaxNets, MaxIterations, MaxPins, MaxArcs, Delays
VARIABLES wires, outs, ins, occupancy, trails, rounds, search, arcs, domains, arrival, required, sta
Periods == <<5, 3>>
Routing == INSTANCE FpgaRouting
routingVars == <<wires, outs, ins, occupancy, trails, rounds, search, arcs, domains, arrival, required, sta>>

CONSTANTS K, GateTypes, MaxGates, Tiles, ClbLuts, TopPads, MaxPads, MaxBanks, MaxFrames, PeriodHops, Reruns
VARIABLES gates, level, lutMap, cofactors, stage, driver, success, tilesUsed, totals, pads, banks,
          frames, made, file, runs
Flow == INSTANCE FpgaFlow
flowVars == <<gates, level, lutMap, cofactors, stage, driver, success, tilesUsed, totals, pads, banks,
              frames, made, file, runs>>

Parameters == {[area |-> 40, fanout |-> 1, gating |-> TRUE], [area |-> 300, fanout |-> 0, gating |-> FALSE]}
Constraints == {[late |-> 11, early |-> 9, period |-> 1000]}
Shapes == <<<<3, 2>>, <<3, 1>>>>
Coordinates == {-1, 2}
Wiring == {<<0, 1, 2>>}

VARIABLE part
vars == <<part, fabricVars, routingVars, flowVars, toolVars>>

Init ==
    /\ part \in {"pack", "place", "route", "timing", "map", "drive", "netlist", "layout"}
    /\ Fabric!FabricInit /\ Routing!RoutingInit /\ Flow!FlowInit /\ ToolsInit

FpgaNext ==
    \/ part = "pack" /\ Fabric!PackNext /\ UNCHANGED <<routingVars, flowVars>>
    \/ part = "place" /\ Fabric!PlaceNext /\ UNCHANGED <<routingVars, flowVars>>
    \/ part = "route" /\ Routing!RouteNext /\ UNCHANGED <<fabricVars, flowVars>>
    \/ part = "timing" /\ Routing!TimingNext /\ UNCHANGED <<fabricVars, flowVars>>
    \/ part = "map" /\ Flow!MapNext /\ UNCHANGED <<fabricVars, routingVars>>
    \/ part = "drive" /\ Flow!DriveNext /\ UNCHANGED <<fabricVars, routingVars>>

Next ==
    /\ UNCHANGED part
    /\ \/ FpgaNext /\ UNCHANGED toolVars
       \/ part = "netlist" /\ NetlistNext /\ UNCHANGED <<fabricVars, routingVars, flowVars, placementVars>>
       \/ part = "layout" /\ PlaceNext /\ UNCHANGED <<fabricVars, routingVars, flowVars, netlistVars>>

Spec == Init /\ [][Next]_vars
-----------------------------------------------------------------------------
(* LayoutExact: atoms are packed once, blocks keep distinct sites, routes    *)
(* are paths of the fabric and arrival times those of the longest paths       *)
(* (PackingExact, PlacementKept of FpgaFabric; RoutesReal, TimingExact of     *)
(* FpgaRouting).                                                              *)
LayoutExact ==
  /\ Fabric!PackingExact /\ Fabric!PlacementKept
  /\ Routing!RoutesReal /\ Routing!TimingExact
  /\ part = "layout" => PlacementLegal /\ RoutesAddUp

(* FlowSound: what is mapped computes what the gates do, and stages, pads and *)
(* the bitstream agree with what was run (MappingSound, CofactorsExact,       *)
(* FlowConsistent of FpgaFlow).                                               *)
FlowSound ==
  /\ Flow!MappingSound /\ Flow!CofactorsExact /\ Flow!FlowConsistent
  /\ part = "netlist" => SynthesisKept /\ TimingKept
=============================================================================
