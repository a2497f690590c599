----------------------------- MODULE HartUnits -----------------------------
(***************************************************************************)
(* The small units around the core: the branch predictor's target buffer    *)
(* (pipeline_hazards.c), the translation caches (riscv_mmu.c), the interrupt *)
(* controller (riscv_except.c), the debug module (riscv_debug.c) and the     *)
(* instruction decoder with its ALU and memory accesses (riscv_decode.c).    *)
(* They share nothing, so a behaviour works one of them, the one unit names. *)
(* Page numbers have an upper and a lower half, one for each level of the    *)
(* page table.  A word is the set of its bits that are one.                  *)
(***************************************************************************)
EXTENDS Integers, Sequences, FiniteSets
LOCAL INSTANCE FiniteSetsExt
LOCAL INSTANCE TLC

CONSTANTS
  Pcs,            \* addresses of branches, of their targets and of breakpoints
  BtbSize,        \* entries of the branch target buffer (64)
  TlbSize,        \* entries of a translation cache (64)
  Half,           \* the numbers half a page number may be (0 .. 1023)
  Irqs,           \* interrupt numbers (0 .. 31)
  MaxBreakpoints, \* breakpoints of the debug module (8)
  ByteBits,       \* bits of a byte (8); a register has four bytes
  MemSize,        \* bytes of the memory that loads and stores are given
  Samples, Words  \* operands of instructions, and words to store

VARIABLES
  unit,           \* the unit at work
  btb, recorded,  \* the buffer, and every <<branch, target>> it was told of
  mmu,
  irq, requests,  \* the controller, and the lines asserted and not yet served
  debug, wanted,  \* the module, and the breakpoints set and not cleared
  inst,           \* the instruction assembled last, and what it was decoded to
  bytes, stored   \* the memory and what lies behind it; the last store

unitVars == <<unit, btb, recorded, mmu, irq, requests, debug, wanted, inst, bytes, stored>>

First(s, P(_)) == {n \in DOMAIN s : P(s[n]) /\ \A k \in 1 .. n - 1 : ~P(s[k])}
-----------------------------------------------------------------------------
(* bpred_update appends, whether or not the branch has an entry, and a full  *)
(* buffer replaces its first entry every time.  bpred_predict answers with   *)
(* the first match, or says "not taken".                                     *)
Update ==
  \E pc \in Pcs, target \in Pcs :
    LET e == [pc |-> pc, target |-> target] IN
    /\ btb' = IF Len(btb) < BtbSize THEN Append(btb, e) ELSE [btb EXCEPT ![1] = e]
    /\ recorded' = recorded \cup {<<pc, target>>}

Predicted(pc) == {btb[n].target : n \in First(btb, LAMBDA e : e.pc = pc)}
-----------------------------------------------------------------------------
(* mmu_walk_pt looks at the upper level only, and the frame it finds is the  *)
(* lower half of the page number; SV39 is not walked at all.                 *)
Fault == "FAULT"
Walk(m, page) ==
  CASE ~m.rooted -> Fault
    [] m.rooted /\ m.mode = "SV32" -> IF page[1] \in m.valid THEN <<0, page[2]>> ELSE Fault
    [] OTHER -> page

NoEntries == [entries |-> <<>>, victim |-> 1]
TlbLookup(t, page) == {t.entries[n].frame : n \in First(t.entries, LAMBDA e : e.page = page)}
TlbInsert(t, e) ==
  IF Len(t.entries) < TlbSize THEN [t EXCEPT !.entries = Append(@, e)]
  ELSE [entries |-> [t.entries EXCEPT ![t.victim] = e], victim |-> (t.victim % TlbSize) + 1]

(* mmu_translate through the instruction or the data cache; a hit changes    *)
(* nothing, a walk that ends without a fault is remembered.                  *)
Translate ==
  \E tlb \in {"itlb", "dtlb"}, page \in Half \X Half :
    /\ mmu.mode # "BARE" /\ TlbLookup(mmu[tlb], page) = {} /\ Walk(mmu, page) # Fault
    /\ mmu' = [mmu EXCEPT ![tlb] = TlbInsert(@, [page |-> page, frame |-> Walk(mmu, page)])]

InModeUnflushed(mode) == [mmu EXCEPT !.mode = mode, !.itlb = NoEntries]    \* faulty: data cache kept
InMode(mode) == [mmu EXCEPT !.mode = mode, !.itlb = NoEntries, !.dtlb = NoEntries]
SetMode == \E mode \in {"BARE", "SV32", "SV39"} : mmu' = InMode(mode)

(* The operating system writes its page table before it turns translation on. *)
WriteTable ==
  /\ mmu.mode = "BARE"
  /\ \E v \in SUBSET Half : mmu' = [mmu EXCEPT !.rooted = TRUE, !.valid = v]
-----------------------------------------------------------------------------
IrqConfigure ==
  /\ \E i \in Irqs, g \in BOOLEAN :
       irq' \in {[irq EXCEPT !.enabled = @ \cup {i}], [irq EXCEPT !.enabled = @ \ {i}],
                 [irq EXCEPT !.global = g]}
  /\ UNCHANGED requests

IrqAssert ==
  \E i \in Irqs : irq' = [irq EXCEPT !.pending = @ \cup {i}] /\ requests' = requests \cup {i}
IrqClear ==
  \E i \in Irqs : irq' = [irq EXCEPT !.pending = @ \ {i}] /\ requests' = requests \ {i}

(* interrupt_take: the lowest of the lines that are pending and enabled.     *)
Candidates == irq.pending \cap irq.enabled
LeftPending(i) == irq.pending \ {i}
IrqTake ==
  /\ irq.global
  /\ \E i \in Candidates : /\ \A k \in Candidates : i <= k
                           /\ irq' = [irq EXCEPT !.pending = LeftPending(i)]
                           /\ requests' = requests \ {i}
-----------------------------------------------------------------------------
DebugControl ==
  /\ debug' \in {[debug EXCEPT !.state = "HALTED", !.halted = TRUE],
                 [debug EXCEPT !.state = "STEPPING", !.halted = TRUE],
                 [debug EXCEPT !.state = "RUNNING", !.halted = FALSE, !.ack = TRUE]}
  /\ UNCHANGED wanted

SetBreakpoint ==
  /\ Len(debug.points) < MaxBreakpoints
  /\ \E pc \in Pcs, instr \in BOOLEAN :
       /\ debug' = [debug EXCEPT !.points = Append(@, [pc |-> pc, instr |-> instr, enabled |-> TRUE])]
       /\ wanted' = Append(wanted, {<<pc, instr>>})

ClearBreakpoint ==
  \E n \in DOMAIN debug.points :
    debug' = [debug EXCEPT !.points[n].enabled = FALSE] /\ wanted' = [wanted EXCEPT ![n] = {}]

Hits(pc, instr) == \E n \in DOMAIN debug.points : debug.points[n] = [pc |-> pc, instr |-> instr, enabled |-> TRUE]
-----------------------------------------------------------------------------
(* The decoder.  Value is the number a word stands for; Field takes bits lo  *)
(* to hi of it, Placed moves them to where they belong in an immediate,      *)
(* Signed reads the bit top as the sign.                                     *)
Value(w) == MapThenSumSet(LAMBDA i : 2 ^ i, w)
Field(w, lo, hi) == Value({i - lo : i \in w \cap lo .. hi})
Placed(w, lo, hi, at) == {i - lo + at : i \in w \cap lo .. hi}
Signed(w, top) == Value(w \ {top}) - (IF top \in w THEN 2 ^ (top - 1) ELSE 0) - (IF top \in w THEN 2 ^ (top - 1) ELSE 0)

Opcode == [LUI |-> 55, AUIPC |-> 23, JAL |-> 111, JALR |-> 103, BRANCH |-> 99,
           LOAD |-> 3, STORE |-> 35, ALUI |-> 19, ALU |-> 51, SYSTEM |-> 115]

Format(opcode) ==
  CASE opcode \in {Opcode.ALUI, Opcode.LOAD, Opcode.JALR} -> "I"
    [] opcode = Opcode.STORE -> "S"
    [] opcode = Opcode.BRANCH -> "B"
    [] opcode \in {Opcode.LUI, Opcode.AUIPC} -> "U"
    [] opcode = Opcode.JAL -> "J"
    [] OTHER -> "R"

ImmI(w) == Signed(Placed(w, 20, 31, 0), 11)
ImmS(w) == Signed(Placed(w, 7, 11, 0) \cup Placed(w, 25, 31, 5), 11)
ImmB(w) == Signed(Placed(w, 8, 11, 1) \cup Placed(w, 25, 30, 5) \cup Placed(w, 7, 7, 11) \cup Placed(w, 31, 31, 12), 12)
ImmU(w) == Signed(w \cap 12 .. 31, 31)
ImmJ(w) == Signed(Placed(w, 21, 30, 1) \cup Placed(w, 20, 20, 11) \cup Placed(w, 12, 19, 12) \cup Placed(w, 31, 31, 20), 20)

(* The names that funct3 chooses from; funct7 = 32 is the other of two.      *)
AluNames == <<"ADD", "SLL", "SLT", "SLTU", "XOR", "SRL", "OR", "AND">>
ImmNames == <<"ADDI", "SLLI", "SLTI", "SLTIU", "XORI", "SRLI", "ORI", "ANDI">>
LoadNames == (0 :> "LB") @@ (1 :> "LH") @@ (2 :> "LW") @@ (4 :> "LBU") @@ (5 :> "LHU")
StoreNames == (0 :> "SB") @@ (1 :> "SH") @@ (2 :> "SW")
BranchNames == (0 :> "BEQ") @@ (1 :> "BNE") @@ (4 :> "BLT") @@ (5 :> "BGE") @@ (6 :> "BLTU") @@ (7 :> "BGEU")
Named(names, f3) == IF f3 \in DOMAIN names THEN names[f3] ELSE "UNKNOWN"

AluOf(d) ==
  CASE d.funct3 = 0 /\ d.funct7 = 32 -> "SUB"
    [] d.funct3 = 5 /\ d.funct7 = 32 -> "SRA"
    [] OTHER -> AluNames[d.funct3 + 1]

(* decode_instr_type.  System instructions are told apart by their immediate, *)
(* which their format does not have: it is 0.                                *)
InstrOf(d) ==
  CASE d.opcode = Opcode.ALU -> AluOf(d)
    [] d.opcode = Opcode.ALUI -> IF d.funct3 = 5 /\ d.funct7 = 32 THEN "SRAI" ELSE ImmNames[d.funct3 + 1]
    [] d.opcode = Opcode.LOAD -> Named(LoadNames, d.funct3)
    [] d.opcode = Opcode.STORE -> Named(StoreNames, d.funct3)
    [] d.opcode = Opcode.BRANCH -> Named(BranchNames, d.funct3)
    [] d.opcode = Opcode.JAL -> "JAL"
    [] d.opcode = Opcode.JALR -> "JALR"
    [] d.opcode = Opcode.LUI -> "LUI"
    [] d.opcode = Opcode.AUIPC -> "AUIPC"
    [] d.opcode = Opcode.SYSTEM /\ d.funct3 = 0 ->
         IF d.imm = 0 THEN "ECALL" ELSE IF d.imm = 1 THEN "EBREAK" ELSE IF d.imm = 770 THEN "MRET" ELSE "UNKNOWN"
    [] OTHER -> "UNKNOWN"

(* decode_alu_operation: of the immediate forms only shifts are told apart.  *)
AluOperation(d) ==
  CASE d.opcode = Opcode.ALU -> AluOf(d)
    [] d.opcode = Opcode.ALUI /\ d.funct3 = 1 -> "SLL"
    [] d.opcode = Opcode.ALUI /\ d.funct3 = 5 -> IF d.funct7 = 32 THEN "SRA" ELSE "SRL"
    [] d.opcode = Opcode.LUI -> "COPY"
    [] d.opcode = Opcode.AUIPC -> "ADD_PC"
    [] d.opcode = Opcode.BRANCH -> "SUB"
    [] OTHER -> "ADD"

DecodeInstruction(w) ==
  LET opcode == Field(w, 0, 6)
      type == Format(opcode)
      has_rd == opcode \notin {Opcode.BRANCH, Opcode.STORE, Opcode.SYSTEM}
      d == [raw |-> w, opcode |-> opcode, rd |-> Field(w, 7, 11), rs1 |-> Field(w, 15, 19),
            rs2 |-> Field(w, 20, 24), funct3 |-> Field(w, 12, 14), funct7 |-> Field(w, 25, 31), type |-> type,
            imm |-> CASE type = "I" -> ImmI(w) [] type = "S" -> ImmS(w) [] type = "B" -> ImmB(w)
                      [] type = "U" -> ImmU(w) [] type = "J" -> ImmJ(w) [] OTHER -> 0,
            is_branch |-> opcode = Opcode.BRANCH, is_jump |-> opcode = Opcode.JAL, is_jalr |-> opcode = Opcode.JALR,
            is_load |-> opcode = Opcode.LOAD, is_store |-> opcode = Opcode.STORE,
            is_alu_r |-> opcode = Opcode.ALU, is_alu_i |-> opcode = Opcode.ALUI, is_system |-> opcode = Opcode.SYSTEM,
            has_rd |-> has_rd, has_rs1 |-> type \in {"R", "I", "S", "B"}, has_rs2 |-> type \in {"R", "S", "B"},
            wb_enable |-> has_rd]
  IN d @@ [instr |-> InstrOf(d), alu_op |-> AluOperation(d)]
-----------------------------------------------------------------------------
(* The ALU and the conditions of branches, on words of four bytes.           *)
XLen == 4 * ByteBits
Word(v) == {i \in 0 .. XLen - 1 : (v \div 2 ^ i) % 2 = 1}
Less(a, b) == Signed(a, XLen - 1) < Signed(b, XLen - 1)
Extended(w, n) == IF n - 1 \in w THEN w \cup n .. XLen - 1 ELSE w

AluExecute(op, a, b) ==
  LET by == Value(b) % XLen
      down == {i - by : i \in {k \in a : k >= by}}
      Truth(p) == IF p THEN {0} ELSE {}
  IN CASE op \in {"ADD", "ADD_PC"} -> Word(Value(a) + Value(b))
       [] op = "SUB" -> Word(Value(a) - Value(b))
       [] op = "SLL" -> {i + by : i \in {k \in a : k + by < XLen}}
       [] op = "SLT" -> Truth(Less(a, b))
       [] op = "SLTU" -> Truth(Value(a) < Value(b))
       [] op = "XOR" -> (a \ b) \cup (b \ a)
       [] op = "SRL" -> down
       [] op = "SRA" -> Extended(down, XLen - by)
       [] op = "OR" -> a \cup b
       [] op = "AND" -> a \cap b
       [] op = "COPY" -> b
       [] OTHER -> {}

IsBranchTaken(f3, a, b) ==
  CASE f3 = 0 -> a = b
    [] f3 = 1 -> a # b
    [] f3 = 4 -> Less(a, b)
    [] f3 = 5 -> ~Less(a, b)
    [] f3 = 6 -> Value(a) < Value(b)
    [] f3 = 7 -> ~(Value(a) < Value(b))
    [] OTHER -> FALSE

(* Only the first byte's address is compared with the size: an access may    *)
(* reach up to three bytes behind the memory.                                *)
Joined(m, addr, n) == UNION {{i + ByteBits * k : i \in m[addr + k]} : k \in 0 .. n - 1}
LoadMem(f3, addr, m) ==
  CASE addr >= MemSize -> {}
    [] f3 = 0 -> Extended(m[addr], ByteBits)
    [] f3 = 1 -> Extended(Joined(m, addr, 2), 2 * ByteBits)
    [] f3 = 2 -> Joined(m, addr, 4)
    [] f3 = 4 -> m[addr]
    [] f3 = 5 -> Joined(m, addr, 2)
    [] OTHER -> {}

StoreMem(f3, addr, data, m) ==
  LET n == CASE addr >= MemSize -> 0 [] f3 = 0 -> 1 [] f3 = 1 -> 2 [] f3 = 2 -> 4 [] OTHER -> 0 IN
  [a \in DOMAIN m |-> IF a \in addr .. addr + n - 1
                      THEN {i \in 0 .. ByteBits - 1 : i + ByteBits * (a - addr) \in data} ELSE m[a]]

StoreWord ==
  \E f3 \in 0 .. 3, addr \in 0 .. MemSize, data \in Words :
    /\ bytes' = StoreMem(f3, addr, data, bytes)
    /\ stored' = [f3 |-> f3, addr |-> addr, data |-> data]
-----------------------------------------------------------------------------
(* What the manual of the instruction set says an instruction looks like.    *)
AtBits(v, n, at) == {i + at : i \in {k \in 0 .. n - 1 : (v \div 2 ^ k) % 2 = 1}}
Assembled(a) ==
  LET fixed == AtBits(a.opcode, 7, 0) \cup (IF Format(a.opcode) \in {"U", "J"} THEN {} ELSE AtBits(a.funct3, 3, 12))
      rd == AtBits(a.rd, 5, 7)  rs1 == AtBits(a.rs1, 5, 15)  rs2 == AtBits(a.rs2, 5, 20)
      imm == {k \in 0 .. 31 : IF k = 31 THEN a.imm < 0 ELSE (a.imm \div 2 ^ k) % 2 = 1}
  IN fixed \cup
     CASE Format(a.opcode) = "R" -> rd \cup rs1 \cup rs2 \cup AtBits(a.funct7, 7, 25)
       [] Format(a.opcode) = "I" -> rd \cup rs1 \cup {k + 20 : k \in imm \cap 0 .. 11}
       [] Format(a.opcode) = "S" -> rs1 \cup rs2 \cup {k + 7 : k \in imm \cap 0 .. 4} \cup {k + 20 : k \in imm \cap 5 .. 11}
       [] Format(a.opcode) = "B" -> rs1 \cup rs2 \cup {k + 7 : k \in imm \cap 1 .. 4} \cup {k + 20 : k \in imm \cap 5 .. 10}
                                        \cup {7 : k \in imm \cap {11}} \cup {31 : k \in imm \cap {12}}
       [] Format(a.opcode) = "U" -> rd \cup (imm \cap 12 .. 31)
       [] Format(a.opcode) = "J" -> rd \cup {k + 20 : k \in imm \cap 1 .. 10} \cup {20 : k \in imm \cap {11}}
                                       \cup (imm \cap 12 .. 19) \cup {31 : k \in imm \cap {20}}

(* Immediates with every bit that moves set in one and clear in another.     *)
Immediates(type) ==
  CASE type \in {"I", "S"} -> {0, 1, -1, 2047, -2048, 1365}
    [] type = "B" -> {0, 2, -2, 4094, -4096, 2730, 2048}
    [] type = "U" -> {0, 4096, -4096, 1431654400}
    [] type = "J" -> {0, 2, -2, 1048574, -1048576, 699050, 2048, 4096}
    [] OTHER -> {0}

NoInst == [asm |-> <<>>, got |-> <<>>]
Decode ==
  \E opcode \in {Opcode[o] : o \in DOMAIN Opcode}, rd, rs1, rs2 \in {1, 30}, funct3 \in 0 .. 7, funct7 \in {0, 32} :
    \E imm \in Immediates(Format(opcode)) :
      LET a == [opcode |-> opcode, rd |-> rd, rs1 |-> rs1, rs2 |-> rs2, funct3 |-> funct3, funct7 |-> funct7, imm |-> imm] IN
      /\ inst = NoInst
      /\ inst' = [asm |-> a, got |-> DecodeInstruction(Assembled(a))]
-----------------------------------------------------------------------------
Init ==
  /\ unit \in {"btb", "mmu", "irq", "debug", "decoder", "memory"}
  /\ btb = <<>> /\ recorded = {}
  /\ mmu = [mode |-> "BARE", rooted |-> FALSE, valid |-> {}, itlb |-> NoEntries, dtlb |-> NoEntries]
  /\ irq = [pending |-> {}, enabled |-> {}, global |-> FALSE] /\ requests = {}
  /\ debug = [state |-> "RUNNING", halted |-> FALSE, ack |-> FALSE, points |-> <<>>] /\ wanted = <<>>
  /\ inst = NoInst /\ bytes = [a \in 0 .. MemSize + 2 |-> {}] /\ stored = [f3 |-> 3, addr |-> 0, data |-> {}]

Next ==
  /\ UNCHANGED unit
  /\ \/ unit = "btb" /\ Update /\ UNCHANGED <<mmu, irq, requests, debug, wanted, inst, bytes, stored>>
     \/ /\ unit = "mmu" /\ (Translate \/ SetMode \/ WriteTable)
        /\ UNCHANGED <<btb, recorded, irq, requests, debug, wanted, inst, bytes, stored>>
     \/ /\ unit = "irq" /\ (IrqConfigure \/ IrqAssert \/ IrqClear \/ IrqTake)
        /\ UNCHANGED <<btb, recorded, mmu, debug, wanted, inst, bytes, stored>>
     \/ /\ unit = "debug" /\ (DebugControl \/ SetBreakpoint \/ ClearBreakpoint)
        /\ UNCHANGED <<btb, recorded, mmu, irq, requests, inst, bytes, stored>>
     \/ unit = "decoder" /\ (Decode \/ inst' = NoInst) /\ UNCHANGED <<btb, recorded, mmu, irq, requests, debug, wanted, bytes, stored>>
     \/ unit = "memory" /\ StoreWord /\ UNCHANGED <<btb, recorded, mmu, irq, requests, debug, wanted, inst>>

Spec == Init /\ [][Next]_unitVars
-----------------------------------------------------------------------------
(* TlbCoherent: whatever was cached, flushed and cached again, an entry of   *)
(* either cache is what a walk of the table would find now, and no page has  *)
(* two entries.                                                              *)
TlbCoherent ==
  \A tlb \in {"itlb", "dtlb"} : LET es == mmu[tlb].entries IN
    /\ \A n \in DOMAIN es : es[n].frame = Walk(mmu, es[n].page)
    /\ \A n, k \in DOMAIN es : es[n].page = es[k].page => n = k

(* NothingForgotten: a line that was asserted is pending until it is taken   *)
(* or cleared; a breakpoint is hit if and only if it was set and not         *)
(* cleared; and a predicted target is one the branch has had.                *)
NothingForgotten ==
  /\ requests = irq.pending
  /\ \A pc \in Pcs, instr \in BOOLEAN : Hits(pc, instr) <=> \E n \in DOMAIN wanted : <<pc, instr>> \in wanted[n]
  /\ \A pc \in Pcs : \A target \in Predicted(pc) : <<pc, target>> \in recorded

(* DecodedAsAssembled: every operand and every immediate an instruction was  *)
(* assembled with is decoded again, and so is the instruction itself, but    *)
(* for the system ones; the ALU operation chosen for register operands, for  *)
(* shifts and for sums computes the instruction's arithmetic, and the two    *)
(* branches of a pair are never taken together.                              *)
Arithmetic(op, a, b) ==
  LET two == 2 ^ XLen
      Neg(v) == IF v >= 2 ^ (XLen - 1) THEN v - two ELSE v
      by == b % XLen
  IN CASE op \in {"ADD", "ADDI", "LW", "SW", "AUIPC"} -> (a + b) % two
       [] op = "SUB" -> (a - b) % two
       [] op \in {"SLL", "SLLI"} -> (a * 2 ^ by) % two
       [] op = "SLT" -> IF Neg(a) < Neg(b) THEN 1 ELSE 0
       [] op = "SLTU" -> IF a < b THEN 1 ELSE 0
       [] op \in {"SRL", "SRLI"} -> a \div 2 ^ by
       [] op \in {"SRA", "SRAI"} -> (Neg(a) \div 2 ^ by) % two
       [] op = "LUI" -> b
DecodedAsAssembled ==
  inst # NoInst =>
    LET a == inst.asm  d == inst.got IN
    /\ a.opcode = d.opcode /\ (d.wb_enable => a.rd = d.rd)
    /\ d.type # "R" => a.imm = d.imm
    /\ (d.has_rs1 => a.rs1 = d.rs1) /\ (d.has_rs2 => a.rs2 = d.rs2)
    /\ d.instr \in {"ADD", "ADDI", "LW", "SW", "AUIPC", "SUB", "SLL", "SLLI", "SLT", "SLTU", "SRL", "SRLI", "SRA", "SRAI", "LUI"} =>
         \A x, y \in Samples : Value(AluExecute(d.alu_op, Word(x), Word(y))) = Arithmetic(d.instr, x, y)
    /\ d.is_branch /\ d.instr # "UNKNOWN" =>
         \A x, y \in Samples :
           LET Taken(f3) == IsBranchTaken(f3, Word(x), Word(y)) IN
           /\ Taken(d.funct3) # Taken(IF d.funct3 % 2 = 0 THEN d.funct3 + 1 ELSE d.funct3 - 1)
           /\ x = y => Taken(d.funct3) = (d.instr \in {"BEQ", "BGE", "BGEU"})

(* StoresReadBack: a byte, a half or a word that was stored is what loads of *)
(* the same size read, with or without the sign, and what loads of its parts *)
(* read; nothing is read or written from the memory's size on.               *)
StoresReadBack ==
  LET at == stored.addr
      low(n) == stored.data \cap 0 .. n * ByteBits - 1
  IN /\ \A f3 \in 0 .. 7 : LoadMem(f3, MemSize, bytes) = {}
     /\ at < MemSize /\ stored.f3 < 3 => LoadMem(4, at, bytes) = low(1)
     /\ at < MemSize /\ stored.f3 \in {1, 2} =>
          /\ LoadMem(5, at, bytes) = low(2)
          /\ Value(LoadMem(1, at, bytes)) = Signed(low(2), 2 * ByteBits - 1) % 2 ^ XLen
     /\ at < MemSize /\ stored.f3 = 2 =>
          /\ LoadMem(2, at, bytes) = stored.data
          /\ at + 2 < MemSize => LoadMem(5, at + 2, bytes) = {i - 2 * ByteBits : i \in stored.data \ low(2)}
=============================================================================
