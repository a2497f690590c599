------------------------------ MODULE TrapStack ------------------------------
(***************************************************************************)
(* What traps promise to software: whoever is interrupted finds its        *)
(* privilege mode and its interrupt enable as they were when the handler   *)
(* returns, however deep handlers nest, and no interrupt comes while they  *)
(* are disabled.                                                           *)
(***************************************************************************)
EXTENDS Integers, Sequences

CONSTANTS Modes, Machine, Causes, Interrupts, NoCause

VARIABLES
  context,   \* mode and interrupt enable of what is running
  callers,   \* those of what was interrupted, innermost first
  cause      \* of the last trap

Contexts == [priv : Modes, mie : BOOLEAN]
AtReset == [priv |-> Machine, mie |-> FALSE]

Init == context = AtReset /\ callers = <<>> /\ cause = NoCause

Trap ==
  /\ cause' \in Causes
  /\ cause' \in Interrupts => context.mie
  /\ callers' = <<context>> \o callers /\ context' = AtReset

Return ==
  /\ callers # <<>> /\ context.priv = Machine
  /\ context' = Head(callers) /\ callers' = Tail(callers) /\ UNCHANGED cause

Enable ==
  /\ context.priv = Machine
  /\ \E b \in BOOLEAN : context' = [context EXCEPT !.mie = b]
  /\ UNCHANGED <<callers, cause>>

Start ==                  \* the firmware enters a program
  /\ callers = <<>> /\ context.priv = Machine
  /\ context' \in Contexts /\ UNCHANGED <<callers, cause>>

Reset == context' = AtReset /\ callers' = <<>> /\ cause' = NoCause

Next == Trap \/ Return \/ Enable \/ Start \/ Reset

Spec == Init /\ [][Next]_<<context, callers, cause>>
=============================================================================
