------------------------------ MODULE Pipeline ------------------------------
(***************************************************************************)
(* The five-stage core of riscv_core.c and the hazard unit beside it        *)
(* (pipeline_hazards.c).  core_tick is one action: the stages run in one     *)
(* call, the oldest instruction first, each seeing what the stages before    *)
(* it have just written.  A latch is a record, or Bubble when its valid bit  *)
(* is off (the code then reads none of its fields).  Memory accesses are of  *)
(* words; the counters and the core's own CSRs are left out.                 *)
(***************************************************************************)
EXTENDS Integers, Sequences, FiniteSets

CONSTANTS NumRegs, WordBits, ProgramSize, DataSize,
          Alphabet      \* the instructions programs are made of

ASSUME PipelineAssumption ==
  /\ NumRegs \in Nat \ {0} /\ WordBits \in Nat /\ ProgramSize \in Nat \ {0} /\ DataSize \in Nat
  /\ \A i \in Alphabet : {i.rd, i.rs1, i.rs2} \subseteq 0 .. NumRegs - 1 /\ i.imm \in Int

VARIABLES imem, running, regs, dmem, pc, ifid, idex, exmem, memwb, stall, flushEx

latches == <<ifid, idex, exmem, memwb>>
coreVars == <<imem, running, regs, dmem, pc, ifid, idex, exmem, memwb, stall, flushEx>>

Bubble == [valid |-> FALSE]

Programs == [0 .. ProgramSize - 1 -> Alphabet]

Arch == INSTANCE InOrder

(* Writeback, then memory, on the values the tick began with.               *)
(* Only the writeback stage gives a link its value: what the latches carry   *)
(* for it, and what is forwarded, is the ALU's result.                       *)
WrittenBack == LET w == memwb IN
  IF ~w.valid \/ ~Arch!Writes(w.inst) THEN regs
  ELSE Arch!WriteReg(regs, w.inst.rd, IF Arch!Links(w.inst) THEN w.link ELSE w.result)

Stored == LET m == exmem IN
  IF m.valid /\ m.inst.op = "SW" THEN Arch!WriteWord(dmem, m.result, m.store) ELSE dmem

(* pipeline_mem leaves a loaded word in EX/MEM too, before copying it.       *)
Loaded == LET m == exmem IN
  IF m.valid /\ m.inst.op = "LW" THEN [m EXCEPT !.result = Arch!ReadWord(dmem, @)] ELSE m

Retiring(m) ==
  IF m.valid THEN [valid |-> TRUE, inst |-> m.inst, result |-> m.result, link |-> m.link] ELSE Bubble

(* The operand of the instruction in EX: m is EX/MEM and w is MEM/WB as the  *)
(* stages before have left them.                                             *)
Forward(rs, value, m, w) ==
  CASE m.valid /\ Arch!Writes(m.inst) /\ m.inst.rd = rs -> m.result
    [] ~(m.valid /\ Arch!Writes(m.inst) /\ m.inst.rd = rs)
         /\ w.valid /\ Arch!Writes(w.inst) /\ w.inst.rd = rs -> w.result
    [] OTHER -> value

Executed(m, w) ==
  LET i == idex.inst
      a == Forward(i.rs1, idex.a, m, w)
      b == Forward(i.rs2, idex.b, m, w)
  IN IF ~idex.valid \/ Arch!Branches(i) THEN Bubble
     ELSE [valid |-> TRUE, inst |-> i, store |-> b, link |-> Arch!Word(idex.pc + 1),
           result |-> Arch!Alu(i, Arch!AluA(i, idex.pc, a), Arch!AluB(i, b))]

Mispredicted(m, w) ==
  /\ idex.valid /\ Arch!Branches(idex.inst)
  /\ Arch!Taken(idex.inst, Forward(idex.inst.rs1, idex.a, m, w), Forward(idex.inst.rs2, idex.b, m, w))

(* pipeline_id: a stall keeps ID/EX as it is, a pending flush empties it.    *)
Decode(r) ==
  CASE ~ifid.valid -> [latch |-> Bubble, stalled |-> stall.id, flush |-> flushEx]
    [] ifid.valid /\ stall.id -> [latch |-> idex, stalled |-> FALSE, flush |-> flushEx]
    [] OTHER -> [latch |-> IF flushEx THEN Bubble
                           ELSE [valid |-> TRUE, pc |-> ifid.pc, inst |-> ifid.inst,
                                 a |-> r[ifid.inst.rs1], b |-> r[ifid.inst.rs2]],
                 stalled |-> FALSE, flush |-> FALSE]

Fetched == IF stall.if THEN ifid ELSE [valid |-> TRUE, pc |-> pc, inst |-> imem[pc]]
-----------------------------------------------------------------------------
CoreInit ==
  /\ Arch!Init
  /\ ifid = Bubble /\ idex = Bubble /\ exmem = Bubble /\ memwb = Bubble
  /\ stall = [if |-> FALSE, id |-> FALSE] /\ flushEx = FALSE

(* core_tick: after the stages, a mispredicted branch empties every latch,   *)
(* MEM/WB included, and otherwise the counter goes on, even if IF stalled.   *)
KeepFetched(branch, latch) == latch              \* faulty: the wrong path goes on
Squashed(branch, latch) == IF branch THEN Bubble ELSE latch

Tick ==
  LET m == Loaded
      w == Retiring(m)
      d == Decode(WrittenBack)
      branch == Mispredicted(m, w)
  IN /\ running
     /\ regs' = WrittenBack /\ dmem' = Stored
     /\ memwb' = Squashed(branch, w) /\ exmem' = Squashed(branch, Executed(m, w))
     /\ idex' = Squashed(branch, d.latch) /\ ifid' = Squashed(branch, Fetched)
     /\ pc' = Arch!Wrapped(IF branch THEN idex.pc + idex.inst.imm ELSE pc + 1)
     /\ stall' = [if |-> FALSE, id |-> d.stalled] /\ flushEx' = d.flush
     /\ UNCHANGED <<imem, running>>

(* hazard_detect, on the latches between two ticks.                         *)
LoadUse ==
  /\ idex.valid /\ exmem.valid /\ exmem.inst.op = "LW" /\ Arch!Writes(exmem.inst)
  /\ exmem.inst.rd \in {idex.inst.rs1, idex.inst.rs2}
BranchTaken ==
  /\ idex.valid /\ Arch!Branches(idex.inst)
  /\ Arch!Taken(idex.inst, Forward(idex.inst.rs1, idex.a, exmem, memwb),
                          Forward(idex.inst.rs2, idex.b, exmem, memwb))

(* hazard_resolve, called by the program that ticks the core: it sets the    *)
(* stalls, and on a taken branch empties the latches it names, the branch's  *)
(* own and the one of the instruction before it included.                    *)
Resolve ==
  /\ running
  /\ stall' = [if |-> LoadUse, id |-> LoadUse]
  /\ IF ~LoadUse /\ BranchTaken
     THEN ifid' = Bubble /\ idex' = Bubble /\ exmem' = Bubble /\ flushEx' = TRUE
     ELSE UNCHANGED <<ifid, idex, exmem, flushEx>>
  /\ UNCHANGED <<imem, running, regs, dmem, pc, memwb>>

(* core_load_program, before the first tick.                                *)
LoadProgram == Arch!Load /\ UNCHANGED <<latches, stall, flushEx>>
-----------------------------------------------------------------------------
(* Programs without the dependences the pipeline gets wrong.  From an        *)
(* instruction the next one executed is the next in memory or a branch's     *)
(* target.                                                                   *)
After(p, n) == {Arch!Wrapped(n + 1)} \cup (IF Arch!Branches(p[n]) THEN {Arch!Wrapped(n + p[n].imm)} ELSE {})
Reads(i) == {i.rs1, i.rs2} \ {0}

(* The result of the instruction before the last one has left MEM/WB when    *)
(* EX looks there, and its own ID came a tick too early to see it.           *)
ReadsTwoBack(p) == \E n \in DOMAIN p : \E k \in After(p, n) : \E l \in After(p, k) :
  Arch!Writes(p[n]) /\ p[n].rd \in Reads(p[l]) /\ ~(Arch!Writes(p[k]) /\ p[k].rd = p[n].rd)

(* A taken branch drops the result of the instruction before it, and a link  *)
(* is not what is forwarded to the next instruction.                         *)
WritesBeforeBranch(p) == \E n \in DOMAIN p : \E k \in After(p, n) : Arch!Writes(p[n]) /\ Arch!Branches(p[k])
ForwardsLink(p) == \E n \in DOMAIN p : \E k \in After(p, n) :
  Arch!Links(p[n]) /\ Arch!Writes(p[n]) /\ p[n].rd \in Reads(p[k])

HazardFree(p) == ~ReadsTwoBack(p) /\ ~WritesBeforeBranch(p) /\ ~ForwardsLink(p)

(* Programs on which consulting the hazard unit changes nothing: a stall     *)
(* executes an instruction twice and skips another, a flush drops the branch *)
(* itself.                                                                   *)
UnitQuiet(p) == \A n \in DOMAIN p :
  /\ p[n].op = "LW" /\ Arch!Writes(p[n]) => \A k \in After(p, n) : p[n].rd \notin Reads(p[k])
  /\ Arch!Branches(p[n]) => p[n].op = "BNE" /\ p[n].rs1 = p[n].rs2

CoreNext ==
  \/ LoadProgram /\ HazardFree(imem')
  \/ Tick
  \/ UnitQuiet(imem) /\ Resolve

CoreSpec == CoreInit /\ [][CoreNext]_coreVars
-----------------------------------------------------------------------------
(* ImplementsInOrder: on a hazard-free program the core executes one         *)
(* instruction at a time, in program order, whatever the forwarding, the     *)
(* squashing of the wrong path and the overlap of five instructions.  The     *)
(* instruction in EX takes effect in the tick that executes it; what is in    *)
(* EX/MEM and MEM/WB is already done, and what is younger has not begun.      *)
Pending(r, latch, result) ==
  IF latch.valid /\ Arch!Writes(latch.inst)
  THEN Arch!WriteReg(r, latch.inst.rd, IF Arch!Links(latch.inst) THEN latch.link ELSE result)
  ELSE r

ArchRegs == Pending(WrittenBack, exmem, IF exmem.valid THEN Loaded.result ELSE 0)
ArchPc == IF idex.valid THEN idex.pc ELSE IF ifid.valid THEN ifid.pc ELSE pc

Architecture == INSTANCE InOrder WITH regs <- ArchRegs, dmem <- Stored, pc <- ArchPc
ImplementsInOrder == Architecture!Spec
=============================================================================
