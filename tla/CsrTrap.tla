------------------------------- MODULE CsrTrap -------------------------------
(***************************************************************************)
(* Traps of mini-riscv-arch (csr_privilege.c).  The register mstatus and   *)
(* its decoded copy (mstatus_mie, mstatus_mpie, mstatus_mpp) are updated   *)
(* side by side: software reads and writes the register, the hardware goes *)
(* by the copy.                                                            *)
(*                                                                         *)
(* The software is the environment.  It runs in M-mode when it touches a   *)
(* register.  A handler keeps what it reads from mstatus first of all; a   *)
(* handler that was itself interrupted writes it back before it returns.   *)
(***************************************************************************)
EXTENDS Integers, Sequences

CONSTANTS
  Exceptions,   \* causes of exceptions besides environment calls
  Interrupts,   \* interrupt codes
  MaxNesting    \* bound of this model: handlers under way

VARIABLES
  mstatus,      \* the register: its MIE, MPIE and MPP fields
  copy,         \* mstatus_mie, mstatus_mpie, mstatus_mpp
  priv,         \* the privilege mode
  mcause,
  frames        \* history: the handlers under way, innermost first

vars == <<mstatus, copy, priv, mcause, frames>>

User == 0
Supervisor == 1
Machine == 3
Modes == {User, Supervisor, Machine}

Ecall == [p \in Modes |-> CASE p = User -> "ECALL_U" [] p = Supervisor -> "ECALL_S"
                            [] p = Machine -> "ECALL_M"]
Causes == Exceptions \cup Interrupts \cup {Ecall[p] : p \in Modes}

ASSUME CsrAssumption == Interrupts \cap (Exceptions \cup {"ECALL_U", "ECALL_S", "ECALL_M"}) = {}

Status == [mie : BOOLEAN, mpie : BOOLEAN, mpp : Modes]

AfterReset ==
  /\ mstatus' = [mie |-> FALSE, mpie |-> FALSE, mpp |-> Machine]
  /\ copy' = [mie |-> FALSE, mpie |-> TRUE, mpp |-> Machine]
  /\ priv' = Machine /\ mcause' = "NONE" /\ frames' = <<>>

Init ==
  /\ mstatus = [mie |-> FALSE, mpie |-> FALSE, mpp |-> Machine]
  /\ copy = [mie |-> FALSE, mpie |-> TRUE, mpp |-> Machine]
  /\ priv = Machine /\ mcause = "NONE" /\ frames = <<>>
-----------------------------------------------------------------------------
(* csr_set_mstatus takes the fields out of bits 3, 7 and 11 .. 12 of the   *)
(* value; other bits of mstatus, which nothing looks at, are left out.      *)
Decoded(s) == s

Write(s) == mstatus' = s /\ copy' = Decoded(s)
-----------------------------------------------------------------------------
(* What csr_take_exception and csr_take_interrupt do to mstatus and copy:  *)
(* the enable moves to MPIE, the mode to MPP.                              *)
PushTwice == [mie |-> FALSE, mpie |-> copy.mpie, mpp |-> priv]        \* faulty: keeps the old MPIE
Pushed == [mie |-> FALSE, mpie |-> copy.mie, mpp |-> priv]

(* The handlers under way once another one starts: it keeps the mstatus it *)
(* finds, and the one it interrupts has to restore its own.                *)
Interrupted == [i \in DOMAIN frames |-> [frames[i] EXCEPT !.own = (i > 1) /\ @]]
Entered == <<[caller |-> [priv |-> priv, mie |-> copy.mie], kept |-> Pushed, own |-> TRUE]>>
             \o Interrupted

Trap(c) ==
  /\ Len(frames) < MaxNesting
  /\ mcause' = c
  /\ mstatus' = Pushed /\ copy' = Pushed /\ priv' = Machine
  /\ frames' = Entered

Exception == \E c \in Exceptions : Trap(c)

EnvironmentCall == Trap(Ecall[priv])

(* csr_take_interrupt returns at once while interrupts are disabled.       *)
Interrupt == copy.mie /\ \E c \in Interrupts : Trap(c)

(* csr_mret *)
RestoredCopy == [mie |-> copy.mpie, mpie |-> TRUE, mpp |-> User]

RestoredAlways ==             \* faulty: drops an enable the copy gets back
  [mie |-> FALSE, mpie |-> TRUE, mpp |-> User]

Restored ==                   \* MIE is set, and never cleared
  [mie |-> mstatus.mie \/ copy.mpie, mpie |-> TRUE, mpp |-> User]

Mret ==
  /\ mstatus' = Restored /\ copy' = RestoredCopy /\ priv' = copy.mpp
  /\ UNCHANGED mcause

Return ==
  /\ priv = Machine /\ frames # <<>> /\ Head(frames).own
  /\ Mret /\ frames' = Tail(frames)

Start == priv = Machine /\ frames = <<>> /\ Mret /\ UNCHANGED frames
-----------------------------------------------------------------------------
(* Software in M-mode: switch interrupts on or off, leaving the other      *)
(* fields as they are read; write back what a handler kept; prepare to     *)
(* enter a program.                                                        *)
Enable ==
  /\ priv = Machine
  /\ \E b \in BOOLEAN : Write([mstatus EXCEPT !.mie = b])
  /\ UNCHANGED <<priv, mcause, frames>>

WriteBack ==
  /\ priv = Machine /\ frames # <<>>
  /\ Write(Head(frames).kept)
  /\ frames' = [frames EXCEPT ![1].own = TRUE]
  /\ UNCHANGED <<priv, mcause>>

Prepare ==
  /\ priv = Machine /\ frames = <<>>
  /\ \E s \in Status : Write(s)
  /\ UNCHANGED <<priv, mcause, frames>>

Reset == AfterReset

Next ==
  \/ Exception \/ EnvironmentCall \/ Interrupt \/ Return \/ Start
  \/ Enable \/ WriteBack \/ Prepare \/ Reset

Spec == Init /\ [][Next]_vars
-----------------------------------------------------------------------------
Frames == [caller : [priv : Modes, mie : BOOLEAN], kept : Status, own : BOOLEAN]

(* Software that reads MIE = 0 can rely on it: the copy the hardware goes  *)
(* by never has interrupts enabled that the register shows disabled.       *)
NoHiddenEnable == copy.mie => mstatus.mie

(* Traps nest as TrapStack promises, although one MPIE and one MPP serve   *)
(* all levels.                                                             *)
Callers == [i \in DOMAIN frames |-> frames[i].caller]
Promise == INSTANCE TrapStack WITH
             context <- [priv |-> priv, mie |-> copy.mie], callers <- Callers,
             cause <- mcause, NoCause <- "NONE"
NestsLikeAStack == Promise!Spec
=============================================================================
