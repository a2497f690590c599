------------------------------ MODULE MCRiscv ------------------------------
(***************************************************************************)
(* The hart: its traps (CsrTrap), its pipeline and its small units.  In the  *)
(* code they are separate structures that no function ties together, so a    *)
(* behaviour works one of them and their state spaces add up.                *)
(***************************************************************************)
EXTENDS CsrTrap, Pipeline

CONSTANTS
  Pcs, BtbSize, TlbSize, Half, Irqs, MaxBreakpoints, ByteBits, MemSize, Samples

VARIABLES
  part,
  unit, btb, recorded, mmu, irq, requests, debug, wanted, inst, bytes, stored

(* A choice of instructions with every way of writing and reading a register, *)
(* memory, branches back and forth, links and what the core does not know.    *)
Instr(op, rd, rs1, rs2, imm) == [op |-> op, rd |-> rd, rs1 |-> rs1, rs2 |-> rs2, imm |-> imm]
Choice ==
  {Instr("UNKNOWN", 0, 0, 0, 0), Instr("ADDI", 1, 1, 0, 1), Instr("ADDI", 2, 1, 0, 1),
   Instr("SUB", 1, 2, 1, 0), Instr("LW", 2, 1, 0, 0), Instr("SW", 0, 1, 2, 1),
   Instr("BEQ", 0, 1, 2, -2), Instr("BNE", 0, 1, 1, 2), Instr("BNE", 0, 1, 2, 2),
   Instr("JAL", 1, 0, 0, 2), Instr("AUIPC", 2, 0, 0, 0)}

Words == {{}, 0 .. 7, {1, 3, 6}}

Units == INSTANCE HartUnits

unitVars == <<unit, btb, recorded, mmu, irq, requests, debug, wanted, inst, bytes, stored>>

HartInit ==
  /\ part \in {"traps", "core", "units"} /\ Init /\ CoreInit /\ Units!Init
  /\ part = "units" \/ unit = "btb"

HartNext ==
  /\ UNCHANGED part
  /\ \/ part = "traps" /\ Next /\ UNCHANGED <<coreVars, unitVars>>
     \/ part = "core" /\ CoreNext /\ UNCHANGED <<vars, unitVars>>
     \/ part = "units" /\ Units!Next /\ UNCHANGED <<vars, coreVars>>

HartSpec == HartInit /\ [][HartNext]_<<part, vars, coreVars, unitVars>>

(* UnitsSound: cached translations are those of the page table as it is;     *)
(* interrupts, breakpoints and branch targets are neither lost nor invented;  *)
(* instructions are decoded as they were assembled, and memory gives back     *)
(* what was stored (TlbCoherent, NothingForgotten, DecodedAsAssembled,        *)
(* StoresReadBack of HartUnits).                                              *)
UnitsSound ==
  /\ Units!TlbCoherent /\ Units!NothingForgotten
  /\ Units!DecodedAsAssembled /\ Units!StoresReadBack
=============================================================================
