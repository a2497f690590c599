------------------------------ MODULE InOrder ------------------------------
(***************************************************************************)
(* What the core promises: one instruction at a time.  The operators that   *)
(* say what an instruction does are those of riscv_core.c (decode, operand  *)
(* selection, ALU, branch condition), so that the difference between this   *)
(* module and Pipeline is the pipeline alone.  An instruction is a record   *)
(* [op, rd, rs1, rs2, imm]; addresses and program counters count words, and *)
(* memory is accessed by words.                                             *)
(***************************************************************************)
EXTENDS Integers

CONSTANTS
  NumRegs,      \* registers (32 in the code)
  WordBits,     \* width of a register
  ProgramSize,  \* words of instruction memory
  DataSize,     \* words of data memory
  Programs      \* what may be loaded: functions from addresses to instructions

VARIABLES imem, running, regs, dmem, pc

state == <<imem, running, regs, dmem, pc>>

Words == 0 .. 2 ^ WordBits - 1
RegIds == 0 .. NumRegs - 1
Word(n) == n % 2 ^ WordBits

(* decode_type and the flags pipeline_id sets.  A word of zeros is no       *)
(* instruction; it decodes to UNKNOWN, adds two registers and writes x0.     *)
Immediate(i) == i.op \in {"ADDI", "LW", "JALR", "SW"}   \* TYPE_I and TYPE_S
Branches(i) == i.op \in {"BEQ", "BNE"}
Links(i) == i.op \in {"JAL", "JALR"}
Writes(i) == i.op \notin {"BEQ", "BNE", "SW", "SYSTEM"} /\ i.rd # 0

Zero == [op |-> "UNKNOWN", rd |-> 0, rs1 |-> 0, rs2 |-> 0, imm |-> 0]

(* The two inputs of the ALU, alu_compute, branch_taken.                    *)
AluA(i, at, a) == IF i.op = "AUIPC" THEN Word(at) ELSE a
AluB(i, b) == IF Immediate(i) THEN Word(i.imm) ELSE b
Alu(i, a, b) == IF i.op = "SUB" THEN Word(a - b) ELSE Word(a + b)
Taken(i, a, b) == IF i.op = "BEQ" THEN a = b ELSE a # b

(* mem_read_word and mem_write_word: nothing outside the memory.            *)
ReadWord(m, addr) == IF addr \in DOMAIN m THEN m[addr] ELSE 0
WriteWord(m, addr, v) == IF addr \in DOMAIN m THEN [m EXCEPT ![addr] = v] ELSE m
WriteReg(r, rd, v) == IF rd = 0 THEN r ELSE [r EXCEPT ![rd] = v]

(* The counter is unsigned: a jump below zero is one beyond the memory.      *)
Wrapped(n) == IF n \in 0 .. ProgramSize - 1 THEN n ELSE 0
-----------------------------------------------------------------------------
Init ==
  /\ imem = [n \in 0 .. ProgramSize - 1 |-> Zero] /\ running = FALSE
  /\ regs = [r \in RegIds |-> 0] /\ dmem = [n \in 0 .. DataSize - 1 |-> 0] /\ pc = 0

Load ==
  /\ ~running /\ running' = TRUE /\ imem' \in Programs
  /\ UNCHANGED <<regs, dmem, pc>>

Execute ==
  LET i == imem[pc]
      a == regs[i.rs1]
      b == regs[i.rs2]
      result == Alu(i, AluA(i, pc, a), AluB(i, b))
  IN /\ running
     /\ dmem' = IF i.op = "SW" THEN WriteWord(dmem, result, b) ELSE dmem
     /\ regs' = IF ~Writes(i) THEN regs
                ELSE WriteReg(regs, i.rd, IF Links(i) THEN Word(pc + 1)
                                          ELSE IF i.op = "LW" THEN ReadWord(dmem, result) ELSE result)
     /\ pc' = Wrapped(IF Branches(i) /\ Taken(i, a, b) THEN pc + i.imm ELSE pc + 1)
     /\ UNCHANGED <<imem, running>>

Next == Load \/ Execute

Spec == Init /\ [][Next]_state
=============================================================================
