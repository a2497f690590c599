-------------------------------- MODULE DnnIsa --------------------------------
(***************************************************************************)
(* The accelerator's instruction set (dnn_isa.c): programs put together by *)
(* the emit helpers, their validation, execution and binary encoding, and  *)
(* the allocation of registers; and the roofline model (accel_roofline.c). *)
(* Addresses and sizes are small numbers; what an instruction computes is  *)
(* not simulated by the code either.                                       *)
(***************************************************************************)
EXTENDS Integers, Sequences, FiniteSets

CONSTANTS
  NumRegs,            \* DNN_ISA_REG_COUNT
  ProgramSize,        \* DNN_ISA_PROGRAM_SIZE
  Emitted,            \* the operations tried
  Budgets             \* of cycles, given to exec_run

VARIABLES
  prog, inUse,        \* dnn_program_t: the instructions, the registers taken
  ctx,                \* dnn_exec_context_t
  budget              \* of the run under way, 0 while the program is built

isaVars == <<prog, inUse, ctx, budget>>

\* A register's number fits into the byte that the encoding has for it.
IsaAssumption == NumRegs \in 1 .. 256 /\ ProgramSize \in Nat \ {0} /\ Budgets \subseteq Nat

MaxOperands == 6
Start == [pc |-> 0, cycle |-> 0, halted |-> FALSE, running |-> TRUE, ops |-> 0, branches |-> 0, stalls |-> 0, bytes |-> 0]
IsaInit == prog = <<>> /\ inUse = {} /\ ctx = Start /\ budget = 0

(* The table of operations: least and greatest number of operands; latency. *)
Meta(op) ==
  CASE op \in {"NOP", "HALT"} -> <<0, 0>>
    [] op \in {"SYNC", "BARRIER", "RET"} -> <<0, 0>>
    [] op \in {"ADD", "SUB", "MUL", "DIV", "MAX", "MIN"} -> <<2, 3>>
    [] op \in {"RELU", "SIGMOID", "TANH", "EXP", "SQRT", "ABS"} -> <<1, 2>>
    [] op = "LEAKY_RELU" -> <<1, 3>>
    [] op \in {"VADD", "VMUL", "VDOT"} -> <<2, 4>>
    [] op = "VMADD" -> <<3, 5>>
    [] op \in {"VRELU", "VSOFTMAX", "VREDUCE_SUM", "VREDUCE_MAX"} -> <<1, 3>>
    [] op \in {"VLAYERNORM", "VBATCHNORM"} -> <<2, 5>>
    [] op = "MATMUL" -> <<2, 5>>
    [] op = "MATMUL_BIAS" -> <<3, 6>>
    [] op \in {"CONV2D", "DEPTHWISE_CONV"} -> <<2, 8>>
    [] op \in {"MAXPOOL", "AVGPOOL"} -> <<1, 4>>
    [] op = "TRANSPOSE" -> <<1, 3>>
    [] op = "IM2COL" -> <<1, 6>>
    [] op \in {"LD", "ST", "PREFETCH"} -> <<1, 3>>
    [] op \in {"LD_MATRIX", "ST_MATRIX"} -> <<1, 4>>
    [] op = "DMA_COPY" -> <<2, 4>>
    [] op = "DMA_WAIT" -> <<0, 0>>
    [] op = "ZERO" -> <<1, 2>>
    [] op \in {"JMP", "CALL"} -> <<1, 1>>
    [] op \in {"JZ", "JNZ", "LOOP"} -> <<2, 2>>
    [] op \in {"SET_DTYPE", "SET_DATAFLOW", "SET_PRECISION"} -> <<1, 1>>
    [] op = "SET_TILE" -> <<4, 4>>
    [] op = "SET_ARRAY" -> <<2, 2>>
    [] op = "SPARSE_MATMUL" -> <<2, 6>>
    [] op \in {"DENSE_TO_SPARSE", "SPARSE_TO_DENSE", "SPARSITY_MASK"} -> <<1, 3>>
Latency(op) ==
  CASE op \in {"NOP", "HALT"} -> 0
    [] op \in {"BARRIER", "MUL", "VREDUCE_SUM", "VREDUCE_MAX", "TRANSPOSE", "PREFETCH", "CALL", "RET", "SPARSITY_MASK"} -> 2
    [] op \in {"DIV", "SQRT", "VBATCHNORM", "MAXPOOL", "AVGPOOL", "LD", "ST", "DENSE_TO_SPARSE", "SPARSE_TO_DENSE"} -> 4
    [] op = "VLAYERNORM" -> 6
    [] op \in {"SIGMOID", "TANH", "EXP", "IM2COL", "LD_MATRIX", "ST_MATRIX", "DMA_COPY"} -> 8
    [] op = "VSOFTMAX" -> 12
    [] op = "SPARSE_MATMUL" -> 20
    [] op = "MATMUL" -> 32
    [] op = "MATMUL_BIAS" -> 33
    [] op = "DEPTHWISE_CONV" -> 48
    [] op = "CONV2D" -> 64
    [] OTHER -> 1
-----------------------------------------------------------------------------
(* Operands and instructions.  A branch is what an emit helper marked one: *)
(* JZ, JNZ, CALL and RET added by hand fall through.                       *)
Reg(r) == <<"reg", r>>
Imm(v) == <<"imm", v>>
Mem(v) == <<"mem", v>>
MatrixReg(r) == <<"matrix", r>>
VectorReg(r) == <<"vector", r>>
Plain(op, operands) == [op |-> op, operands |-> operands, branch |-> FALSE, target |-> 0, latency |-> Latency(op)]
Branch(op, operands, t) == [Plain(op, operands) EXCEPT !.branch = TRUE, !.target = t]

Building == budget = 0
AddInstr(i) == IF Len(prog) >= ProgramSize THEN UNCHANGED prog ELSE prog' = Append(prog, i)
Emit(i) == Building /\ AddInstr(i) /\ UNCHANGED <<inUse, ctx, budget>>

EmitScalar(op, d, a, b) == Emit(Plain(op, IF b >= 0 THEN <<Reg(d), Reg(a), Reg(b)>> ELSE <<Reg(d), Reg(a)>>))
EmitVector(op, d, a, b, n) == Emit(Plain(op, <<VectorReg(d), VectorReg(a), VectorReg(b), Imm(n)>>))
EmitMemory(op, r, addr, n) == Emit(Plain(op, <<Reg(r), Mem(addr), Imm(n)>>))
EmitMatmul(d, a, b, m) == Emit(Plain("MATMUL", <<MatrixReg(d), MatrixReg(a), MatrixReg(b), Imm(m), Imm(m), Imm(m)>>))
EmitConv(d, a, b, m) == Emit(Plain("CONV2D", <<Reg(d), Reg(a), Reg(b), Imm(m), Imm(m), Imm(m)>>))
EmitLoop(r, t) == Emit(Branch("LOOP", <<Reg(r), Imm(t)>>, t))
EmitJmp(t) == Emit(Branch("JMP", <<Imm(t)>>, t))
EmitBare(op) == Emit(Plain(op, <<>>))

(* The first register not in use (alloc_register); -1 when there is none. *)
Free == {r \in 0 .. (NumRegs - 1) : r \notin inUse}
AllocRegister ==
  /\ Building /\ inUse' = (IF Free = {} THEN inUse ELSE inUse \union {CHOOSE r \in Free : \A q \in Free : r <= q})
  /\ UNCHANGED <<prog, ctx, budget>>
FreeRegister(r) == Building /\ inUse' = inUse \ {r} /\ UNCHANGED <<prog, ctx, budget>>
-----------------------------------------------------------------------------
(* dnn_isa_validate. *)
OperandsCounted(i) == Len(i.operands) \in Meta(i.op)[1] .. Meta(i.op)[2]
RegistersExist(i) ==
  \A j \in 1 .. Len(i.operands) : i.operands[j][1] \in {"reg", "matrix"} => i.operands[j][2] \in 0 .. (NumRegs - 1)
TargetInside(p, i) == i.branch => i.target < Len(p)
Valid(p) ==
  /\ Len(p) <= ProgramSize
  /\ \A n \in 1 .. Len(p) : OperandsCounted(p[n]) /\ RegistersExist(p[n]) /\ TargetInside(p, p[n])

(* dnn_exec_run: steps until the program halts or the cycles are used up.  *)
Run(b) ==
  /\ budget = 0 /\ budget' = b /\ ctx' = [ctx EXCEPT !.running = TRUE] /\ UNCHANGED <<prog, inUse>>
Going == ctx.running /\ ~ctx.halted /\ ctx.cycle < budget

NextPc(i) == IF i.branch THEN i.target ELSE ctx.pc + 1
Bytes(i) == IF i.op \in {"LD", "ST"} /\ Len(i.operands) >= 3 THEN i.operands[3][2] ELSE 0
Executed ==
  IF ctx.pc >= Len(prog) THEN [ctx EXCEPT !.halted = TRUE, !.running = FALSE]
  ELSE LET i == prog[ctx.pc + 1]
           halt == i.op = "HALT"
       IN [pc |-> NextPc(i), cycle |-> ctx.cycle + Latency(i.op), halted |-> halt, running |-> ~halt,
           ops |-> ctx.ops + 1, branches |-> ctx.branches + (IF i.branch THEN 1 ELSE 0),
           stalls |-> ctx.stalls + (IF NextPc(i) >= Len(prog) /\ ~halt THEN 1 ELSE 0), bytes |-> ctx.bytes + Bytes(i)]
ExecStep ==
  /\ budget > 0 /\ Going /\ ctx' = Executed /\ UNCHANGED <<prog, inUse, budget>>
RunReturns ==
  /\ budget > 0 /\ ~Going /\ budget' = 0 /\ UNCHANGED <<prog, inUse, ctx>>
ExecReset == budget = 0 /\ ctx' = Start /\ UNCHANGED <<prog, inUse, budget>>

(* Sixteen bytes an instruction: of every operand its type and a byte of   *)
(* its register; neither target nor wide values.                           *)
Encoded(i) ==
  [op |-> i.op, branch |-> i.branch, count |-> Len(i.operands), latency |-> i.latency % 256,
   operands |-> [j \in 1 .. MaxOperands |-> IF j <= Len(i.operands)
                   THEN <<i.operands[j][1], i.operands[j][2] % 256>> ELSE <<"none", 0>>]]
Decoded(b) ==
  [op |-> b.op, branch |-> b.branch, target |-> 0, latency |-> b.latency,
   operands |-> [j \in 1 .. b.count |-> b.operands[j]]]
Reloaded(p) == [n \in 1 .. Len(p) |-> Decoded(Encoded(p[n]))]

(* Registers come first; one of the operands may be a failed allocation.   *)
EmitCall ==
  \/ \E op \in Emitted.scalar, r \in {-1, 0} : EmitScalar(op, 0, 0, r)
  \/ EmitScalar("ADD", -1, 0, 0)
  \/ \E op \in Emitted.vector : EmitVector(op, 0, 0, 0, 300)
  \/ \E op \in Emitted.memory : EmitMemory(op, 0, 300, 2)
  \/ EmitMatmul(0, 0, 0, 2) \/ EmitConv(0, 0, 0, 2)
  \/ \E t \in {0, ProgramSize - 1} : EmitLoop(0, t) \/ EmitJmp(t)
  \/ \E op \in Emitted.bare : EmitBare(op)
IsaCall ==
  \/ prog = <<>> /\ (AllocRegister \/ \E r \in inUse : FreeRegister(r))
  \/ 0 \in inUse /\ EmitCall
  \/ (\E n \in Budgets : Run(n)) \/ ExecReset
IsaStep == IsaCall \/ ExecStep \/ RunReturns
-----------------------------------------------------------------------------
(* The roofline: ceilings in hundredths, and the bound at an operational   *)
(* intensity (operations per byte).                                        *)
ComputeCeilings == <<<<"PEAK_COMPUTE", 100>>, <<"SIMD_LIMITED", 75>>, <<"FMA_LIMITED", 80>>, <<"ILP_LIMITED", 60>>,
  <<"BRANCH_LIMITED", 85>>, <<"SPARSITY_OVERHEAD", 70>>, <<"PRECISION_CASTING", 90>>>>
MemoryCeilings(s) == <<<<"MEM_BW", 100 * s.dram>>, <<"L2_BW", 100 * s.sram>>, <<"L1_BW", 150 * s.sram>>>>
Heights(s, ob) ==
  [n \in 1 .. 10 |-> IF n <= 7 THEN <<ComputeCeilings[n][1], ComputeCeilings[n][2] * s.peak>>
                     ELSE <<MemoryCeilings(s)[n - 7][1], MemoryCeilings(s)[n - 7][2] * ob>>]

\* The lowest ceiling, the first of equals.
Lowest(h) == CHOOSE n \in 1 .. 10 : \A k \in 1 .. 10 : h[n][2] < h[k][2] \/ (h[n][2] = h[k][2] /\ n <= k)
Bottleneck(s, ob) == Heights(s, ob)[Lowest(Heights(s, ob))]
PerformanceBound(s, ob) == Bottleneck(s, ob)[2]
ComputeBound(s, ob) == ob * s.dram >= s.peak

-----------------------------------------------------------------------------
(* A valid program never leaves itself but past its last instruction, and  *)
(* its runs are bounded by their budget: every branch takes time, and a    *)
(* pass from one branch to the next meets no instruction twice.            *)
StaysInside == Valid(prog) => ctx.pc <= Len(prog)
RunsBounded == ctx.branches <= ctx.cycle /\ ctx.ops <= (ctx.branches + 1) * Len(prog)

(* What is emitted fits; encoding keeps operations, counts and registers,  *)
(* and so validity.                                                        *)
RegisterOf(o) == IF o[1] \in {"reg", "matrix"} THEN o[2] ELSE -1
EncodingKeeps ==
  /\ Len(prog) <= ProgramSize
  /\ Valid(prog) => Valid(Reloaded(prog))
  /\ \A n \in 1 .. Len(prog) :
       LET i == prog[n]
           d == Decoded(Encoded(i))
       IN /\ d.op = i.op /\ d.branch = i.branch /\ d.latency = i.latency /\ Len(d.operands) = Len(i.operands)
          /\ Valid(prog) => \A j \in 1 .. Len(i.operands) : d.operands[j][1] = i.operands[j][1] /\ RegisterOf(d.operands[j]) = RegisterOf(i.operands[j])

(* The bottleneck named is what bounds the performance, and a kernel right *)
(* of the ridge is never bounded by the memory.                            *)
RooflineAgrees ==
  prog = <<>> /\ ctx = Start => \A s \in [peak : {8, 20}, dram : {1, 3}, sram : {3, 4}], ob \in 1 .. 24 :
    /\ \A n \in 1 .. 10 : PerformanceBound(s, ob) <= Heights(s, ob)[n][2]
    /\ ComputeBound(s, ob) => Bottleneck(s, ob)[1] \notin {"MEM_BW", "L2_BW", "L1_BW"}

(* Programs, their runs and encodings, and the roofline together. *)
ProgramsSound == StaysInside /\ RunsBounded /\ EncodingKeeps /\ RooflineAgrees
=============================================================================
