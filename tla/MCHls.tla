--------------------------------- MODULE MCHls ---------------------------------
(***************************************************************************)
(* Synthesis for TLC: the core flow of high-level synthesis from graph to      *)
(* controller, the transformations around it, and the chip flows from logic    *)
(* synthesis to sign-off.  They share no state: a behaviour works one.         *)
(***************************************************************************)
EXTENDS HlsTransform

ASSUME BoundsFormed == HlsAssumption /\ TransformAssumption

AccessSet == {<<0, 1>>, <<0, 2>>, <<0, 3, 1>>, <<4, 1, 2>>}

CONSTANTS SynthTypes, MaxNetGates, MaxLibCells, Literals, MaxTerms, MaxRounds, NumStages, MaxCheckpoints,
          MaxEcoOps, Garbage, MaxSpares, SpareColumns, EcoSpots
VARIABLES net, library, driver, terms, reduced, stages, file, eco, spares, ecoFile
InputLists == {<<0>>, <<3>>, <<0, 1>>, <<0, 1, 3>>}
Names == {-2}
Chip == INSTANCE ChipFlow
synthesisVars == <<net, library, driver>>
termVars == <<terms, reduced>>
stageVars == <<stages, file>>
ecoVars == <<eco, spares, ecoFile>>
chipVars == <<synthesisVars, termVars, stageVars, ecoVars>>

CONSTANTS MaxRules, MaxViolations, MaxDevices, MaxNets, MaxAntennas, MaxErcs
VARIABLES rules, violations, antennas, ercs, schematic, layout, schematicNets, layoutNets, totals, clean
Rule(type, width, spacing, severity) ==
  [type |-> type, layer |-> 1, width |-> width, spacing |-> spacing, severity |-> severity]
RuleInputs == {Rule("SPACING", 8, 5, "CRITICAL"), Rule("SPACING", 8, 6, "ERROR"), Rule("WIDTH", 8, 0, "ERROR"),
               Rule("ENCLOSURE", 0, 0, "ERROR"), Rule("AREA", 0, 0, "WARNING"), Rule("DENSITY", 0, 0, "WARNING")}
Device(name, type, w, l, fingers) == [name |-> name, type |-> type, w |-> w, l |-> l, fingers |-> fingers]
DeviceInputs == {Device(1, "NMOS", 4, 4, 2), Device(1, "PMOS", 5, 4, 4), Device(1, "NMOS", 6, 4, 2), Device(2, "NMOS", 4, 4, 2)}
Checks == INSTANCE LayoutChecks
layoutVars == <<rules, violations, antennas, ercs, schematic, layout, schematicNets, layoutNets, totals, clean>>

VARIABLE part
vars == <<part, coreVars, transformVars, chipVars, layoutVars>>

Init ==
  /\ part \in {"core", "pipeline", "loops", "arrays", "tasks", "directives", "logic", "minterms", "rules", "electric", "devices", "stages", "eco", "spares"}
  /\ CoreInit /\ TransformInit /\ Chip!ChipInit /\ Checks!LayoutInit

HlsNext ==
  /\ \/ part = "core" /\ CoreNext /\ UNCHANGED transformVars
     \/ part = "pipeline" /\ PipeNext /\ UNCHANGED coreVars
     \/ part = "loops" /\ LoopNext /\ UNCHANGED coreVars
     \/ part = "arrays" /\ ArrayNext /\ UNCHANGED coreVars
     \/ part = "tasks" /\ TaskNext /\ UNCHANGED coreVars
     \/ part = "directives" /\ PragmaNext /\ UNCHANGED coreVars
  /\ UNCHANGED <<chipVars, layoutVars>>

ChipNext ==
  /\ \/ part = "logic" /\ Chip!SynthesisNext /\ UNCHANGED <<termVars, stageVars, ecoVars>>
     \/ part = "minterms" /\ Chip!TermNext /\ UNCHANGED <<synthesisVars, stageVars, ecoVars>>
     \/ part = "stages" /\ Chip!StageNext /\ UNCHANGED <<synthesisVars, termVars, ecoVars>>
     \/ part = "eco" /\ Chip!EcoNext /\ UNCHANGED <<synthesisVars, termVars, stageVars>>
     \/ part = "spares" /\ Chip!SpareNext /\ UNCHANGED <<synthesisVars, termVars, stageVars>>
  /\ UNCHANGED <<coreVars, transformVars, layoutVars>>

CheckNext ==
  /\ \/ part = "rules" /\ Checks!RuleNext
     \/ part = "electric" /\ Checks!ElectricNext
     \/ part = "devices" /\ Checks!DeviceNext
  /\ UNCHANGED <<coreVars, transformVars, chipVars>>

Next == UNCHANGED part /\ (HlsNext \/ ChipNext \/ CheckNext)

Spec == Init /\ [][Next]_vars
-----------------------------------------------------------------------------
(* SchedulesSound: schedules keep dependences, registers are shared only    *)
(* by values that do not live together, and the controller runs what was     *)
(* scheduled (DependencesKept, RegistersShared, ControllerRunsSchedule of     *)
(* HlsCore); pipelines keep their windows (WindowsHold of HlsTransform).      *)
SchedulesSound ==
  /\ DependencesKept /\ RegistersShared /\ ControllerRunsSchedule
  /\ WindowsHold

(* TransformsExact: loops keep their work, banks their elements, channels     *)
(* their tasks and interfaces their bundles; see HlsTransform.                *)
TransformsExact == WorkKept /\ BanksCoverArray /\ TablesConsistent

(* ChipSound: logic keeps its function and minterms their cover, and stages   *)
(* read back (ChipFlow); what the layout checks found is real and stands in   *)
(* the way of sign-off (LayoutChecks).                                        *)
ChipSound ==
  /\ part = "logic" => Chip!SynthesisSound
  /\ part = "minterms" => Chip!TermsSound
  /\ part \in {"rules", "electric", "devices"} => Checks!SignoffSound
  /\ part = "stages" => Chip!StagesKept
  /\ part \in {"eco", "spares"} => Chip!ChangesKept
=============================================================================
