------------------------------ MODULE FlitQueue ------------------------------
(***************************************************************************)
(* What one virtual-channel buffer of the router promises, with no word on *)
(* how it is stored: a bounded first-in first-out queue of flits.          *)
(***************************************************************************)
EXTENDS Naturals, Sequences

CONSTANTS Flits,    \* the flits that may be buffered
          Depth,    \* capacity of the queue
          NoFlit    \* "no flit has been taken out yet"

VARIABLES q,        \* the flits waiting, oldest first
          out       \* the flit most recently handed to a caller

vars == <<q, out>>

Init == q = <<>> /\ out = NoFlit

Put(f) == Len(q) < Depth /\ q' = Append(q, f) /\ out' = out

Take == q # <<>> /\ out' = Head(q) /\ q' = Tail(q)

Clear == q' = <<>> /\ out' = out

Next == (\E f \in Flits : Put(f)) \/ Take \/ Clear

Spec == Init /\ [][Next]_vars
=============================================================================
