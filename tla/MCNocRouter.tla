----------------------------- MODULE MCNocRouter -----------------------------
(***************************************************************************)
(* The router of mini-noc-design and its flow control for TLC: the router  *)
(* under plain callers and under all others, credits and packets, the      *)
(* shared pool, and the ring of slots behind a channel.  They share no     *)
(* state: part says which one a behaviour is of.                           *)
(***************************************************************************)
EXTENDS NocRouter, NocFlowControl

Table == {<<0, 0>>, <<0, 1>>}
Used == {<<0, 0>>}
Origin == <<0, 0>>
Identity == [d \in Dsts |-> d]      \* destination d lies behind port d; 0 is this node
CreditChannels == {<<1, 0>>}

VARIABLE part
allVars == <<part, vars, flowVars, poolVars, ringVars>>

MCInit ==
  /\ part \in {"router", "flow", "pool", "ring"}
  /\ Init /\ FlowInit /\ PoolInit /\ RingInit
  /\ part # "router" => ~ plain

(* All destinations are for plain callers.  The others address one remote  *)
(* node, and their own node on channel 0, which keeps the run short.       *)
Addressed == plain \/ \A v \in Vcs : \A i \in DOMAIN buf[v] : buf[v][i].dst \in {v, 1}

MCNext ==
  \/ part = "router" /\ Next /\ Addressed' /\ UNCHANGED <<part, flowVars, poolVars, ringVars>>
  \/ part = "flow" /\ FlowNext /\ UNCHANGED <<part, vars, poolVars, ringVars>>
  \/ part = "pool" /\ PoolNext /\ UNCHANGED <<part, vars, flowVars, ringVars>>
  \/ part = "ring" /\ RingNext /\ UNCHANGED <<part, vars, flowVars, poolVars>>

(* The simulation loop keeps cycling the router.                           *)
RouterCycle ==
  part = "router" /\ Cycle /\ UNCHANGED <<part, plain, flowVars, poolVars, ringVars>>

MCSpec == MCInit /\ [][MCNext]_allVars /\ WF_allVars(RouterCycle)
=============================================================================
