-------------------------- MODULE MCBufferHierarchy --------------------------
(***************************************************************************)
(* The accelerator on a small instance: the buffers with the DMA engine    *)
(* (a short transfer, which completes in the tick it starts in, and longer *)
(* ones), the systolic array, a processing element, the instruction set.   *)
(* They share no state: part says which one a behaviour is of.             *)
(***************************************************************************)
EXTENDS BufferHierarchy, SystolicArray, TLC

CONSTANTS
  short, long1, long2,
  NumRegs, ProgramSize, Budgets

VARIABLES
  part,
  prog, inUse, ctx, budget

Ticks == short :> 1 @@ long1 :> 2 @@ long2 :> 2
Emitted == [scalar |-> {"ADD", "RELU"}, vector |-> {"VADD", "VRELU"}, memory |-> {"LD"},
            bare |-> {"HALT", "JZ"}]
ProductSet == {<<1, 1, 1>>, <<1, 2, 2>>, <<2, 1, 1>>}

Programs == INSTANCE DnnIsa

ASSUME ArrayShaped == SystolicAssumption
ASSUME RegistersEncoded == Programs!IsaAssumption

isaVars == <<prog, inUse, ctx, budget>>
allVars == <<part, vars, arrayVars, unitVars, isaVars>>

MCInit ==
  /\ part \in {"buffers", "array", "unit", "isa"}
  /\ Init /\ ArrayInit /\ UnitInit /\ Programs!IsaInit
  /\ part # "array" => flow = "WS"
  /\ part # "unit" => act = "none"

BufferPart == part = "buffers" /\ Next /\ UNCHANGED <<arrayVars, unitVars, isaVars>>
ArrayPart == part = "array" /\ ArrayStep /\ UNCHANGED <<vars, unitVars, isaVars>>
UnitPart == part = "unit" /\ UnitStep /\ UNCHANGED <<vars, arrayVars, isaVars>>
IsaPart == part = "isa" /\ Programs!IsaStep /\ UNCHANGED <<vars, arrayVars, unitVars>>
MCNext == UNCHANGED part /\ (BufferPart \/ ArrayPart \/ UnitPart \/ IsaPart)

Draining ==
  /\ part = "buffers" /\ (Engine \/ Waited)
  /\ UNCHANGED <<part, levelVars, dst, arrayVars, unitVars, isaVars>>

(* A tick runs on to its end, and dma_wait_all goes on ticking, as in      *)
(* FairSpec of BufferHierarchy.                                            *)
MCSpec ==
  /\ MCInit /\ [][MCNext]_allVars
  /\ WF_allVars(Draining)
-----------------------------------------------------------------------------
(* ComputeSound: the scan of the array, its tiles and its runs; the          *)
(* processing element's inputs and outputs; programs, their runs and         *)
(* encodings (SystolicSound and PeSound of SystolicArray, ProgramsSound of   *)
(* DnnIsa).                                                                  *)
ComputeSound ==
  /\ part = "array" => SystolicSound
  /\ part = "unit" => PeSound
  /\ part = "isa" => Programs!ProgramsSound
=============================================================================
