---------------------------- MODULE NocFlowControl ----------------------------
(***************************************************************************)
(* The credit-based flow controller of mini-noc-design (noc_flowctrl.c):   *)
(* one credit counter per channel <<port, vc>>, global totals, and the     *)
(* table of packets under way.  Operations come from the sender (send a    *)
(* flit, start a packet, report a flit sent), from the receiver (return a  *)
(* credit) and from the user (reset), in any order.  And the shared buffer *)
(* pool of the same file: TotalSlots slots divided among virtual channels  *)
(* on request, granted as far as the pool and the channel's ceiling        *)
(* per_vc_max allow; the ceiling is what is left when every other channel  *)
(* has its minimum.                                                        *)
(***************************************************************************)
EXTENDS Integers, FiniteSets, Sequences

CONSTANTS
  Channels,     \* every channel the table has room for (NOC_MAX_PORTS x NOC_MAX_VC)
  Configured,   \* the channels noc_fc_init was asked for
  First,        \* channel <<0, 0>>, the one noc_fc_reset reads its credits from
  Credits,      \* credits_per_vc
  MaxPackets,   \* NOC_MAX_ACTIVE_PACKETS (128 in the code)
  Lengths,      \* packet lengths, in flits, that callers announce
  MaxOps        \* bound of this model on the counters of each channel

CONSTANTS       \* of the pool
  TotalSlots,   \* total_slots
  VCs,          \* the channels 0 .. num_vcs - 1, in any order
  PerVcMin,     \* per_vc_min
  Requests      \* the slot counts callers ask for or give back

ASSUME FlowAssumption ==
  /\ Configured \subseteq Channels /\ First \in Configured
  /\ Credits \in Nat /\ MaxPackets \in Nat /\ MaxOps \in Nat
  /\ Lengths \subseteq Nat \ {0}

ASSUME PoolAssumption ==
  /\ TotalSlots \in Nat /\ PerVcMin \in Nat
  /\ IsFiniteSet(VCs) /\ VCs # {}
  /\ Requests \subseteq Nat

VARIABLES
  available, ceiling,        \* credits_available, max_credits of each channel
  sent, returned, stalls,    \* flits_sent, credits_returned, stall_cycles
  totalSent, totalStalls,    \* total_flits_sent (= total_credits_consumed), total_stall_cycles
  packets,                   \* active_packets[0 .. num_active_packets - 1]
  completed                  \* packets_completed

channelVars == <<available, ceiling, sent, returned, stalls, totalSent, totalStalls>>
packetVars == <<packets, completed>>
flowVars == <<channelVars, packetVars>>

(* The state noc_fc_init leaves when the channels in chs get n credits. *)
Initialised(chs, n) ==
  [c \in Channels |-> IF c \in chs THEN n ELSE 0]
Zero == [c \in Channels |-> 0]

FlowInit ==
  /\ available = Initialised(Configured, Credits)
  /\ ceiling = Initialised(Configured, Credits)
  /\ sent = Zero /\ returned = Zero /\ stalls = Zero
  /\ totalSent = 0 /\ totalStalls = 0
  /\ packets = <<>> /\ completed = 0

(* noc_fc_reset initialises every channel of the table, configured or not. *)
ResetCreditsOnly ==        \* faulty: forgets the flits that were sent
  /\ available' = Initialised(Channels, ceiling[First])
  /\ ceiling' = Initialised(Channels, ceiling[First])
  /\ returned' = Zero /\ stalls' = Zero /\ sent' = sent
  /\ totalSent' = 0 /\ totalStalls' = 0
  /\ packets' = <<>> /\ completed' = 0

FlowReset ==
  /\ available' = Initialised(Channels, ceiling[First])
  /\ ceiling' = Initialised(Channels, ceiling[First])
  /\ sent' = Zero /\ returned' = Zero /\ stalls' = Zero
  /\ totalSent' = 0 /\ totalStalls' = 0
  /\ packets' = <<>> /\ completed' = 0

CanSend(c) == available[c] > 0

(* noc_fc_send_flit with credit left ... *)
Send(c) ==
  /\ CanSend(c) /\ sent[c] < MaxOps
  /\ available' = [available EXCEPT ![c] = @ - 1]
  /\ sent' = [sent EXCEPT ![c] = @ + 1]
  /\ totalSent' = totalSent + 1
  /\ UNCHANGED <<ceiling, returned, stalls, totalStalls, packetVars>>

(* ... and without: the sender stalls. *)
Stall(c) ==
  /\ ~ CanSend(c) /\ stalls[c] < MaxOps
  /\ stalls' = [stalls EXCEPT ![c] = @ + 1]
  /\ totalStalls' = totalStalls + 1
  /\ UNCHANGED <<available, ceiling, sent, returned, totalSent, packetVars>>

MayReturn(c) == available[c] < ceiling[c]

GiveBack(c) ==
  /\ MayReturn(c) /\ returned[c] < MaxOps
  /\ available' = [available EXCEPT ![c] = @ + 1]
  /\ returned' = [returned EXCEPT ![c] = @ + 1]
  /\ UNCHANGED <<ceiling, sent, stalls, totalSent, totalStalls, packetVars>>

(* Packet i of the table; packet ids are positions, and are never reused   *)
(* before a reset.                                                         *)
StartPacket(n) ==
  /\ Len(packets) < MaxPackets
  /\ packets' = Append(packets, [flits |-> n, sent |-> 0, state |-> "waiting"])
  /\ UNCHANGED <<channelVars, completed>>

DoneLate(p) == p.sent >= p.flits     \* faulty: compares before it has counted
Done(p) == p.sent + 1 >= p.flits

(* noc_fc_flit_sent; its callers stop when it has answered "complete".     *)
FlitSent(i) ==
  LET p == packets[i]
  IN /\ p.state # "done"
     /\ packets' = [packets EXCEPT ![i] =
          [flits |-> p.flits, sent |-> p.sent + 1,
           state |-> IF Done(p) THEN "done" ELSE "transmitting"]]
     /\ completed' = IF Done(p) THEN completed + 1 ELSE completed
     /\ UNCHANGED channelVars

FlowNext ==
  \/ \E c \in Channels : Send(c) \/ Stall(c) \/ GiveBack(c)
  \/ \E n \in Lengths : StartPacket(n)
  \/ \E i \in DOMAIN packets : FlitSent(i)
  \/ FlowReset

FlowSpec == FlowInit /\ [][FlowNext]_flowVars
-----------------------------------------------------------------------------
(* The pool.                                                               *)
VARIABLES allocated,   \* vc_allocated
          used         \* used_slots

poolVars == <<allocated, used>>

PerVcMax == TotalSlots - (Cardinality(VCs) - 1) * PerVcMin

Available == TotalSlots - used

Least(a, b) == IF a < b THEN a ELSE b
NotNegative(a) == IF a < 0 THEN 0 ELSE a

PoolInit == allocated = [v \in VCs |-> 0] /\ used = 0

GrantPoolOnly(v, requested) ==      \* faulty: ignores the channel's ceiling
  NotNegative(Least(requested, Available))

Grant(v, requested) ==
  NotNegative(Least(Least(requested, Available), NotNegative(PerVcMax - allocated[v])))

Alloc(v, requested) ==
  /\ allocated' = [allocated EXCEPT ![v] = @ + Grant(v, requested)]
  /\ used' = used + Grant(v, requested)

Returned(v, count) == Least(count, allocated[v])

Free(v, count) ==
  /\ allocated' = [allocated EXCEPT ![v] = @ - Returned(v, count)]
  /\ used' = NotNegative(used - Returned(v, count))

PoolNext == \E v \in VCs, n \in Requests : Alloc(v, n) \/ Free(v, n)

PoolSpec == PoolInit /\ [][PoolNext]_poolVars
-----------------------------------------------------------------------------
FlowTypeOK ==
  /\ available \in [Channels -> Nat] /\ ceiling \in [Channels -> {0, Credits}]
  /\ sent \in [Channels -> Nat] /\ returned \in [Channels -> Nat]
  /\ stalls \in [Channels -> Nat]
  /\ totalSent \in Nat /\ totalStalls \in Nat /\ completed \in Nat
  /\ packets \in Seq([flits : Lengths, sent : Nat,
                      state : {"waiting", "transmitting", "done"}])

(* A credit is either with the sender or stands for a flit the receiver    *)
(* has not handed on: none is created or lost by any order of sends,       *)
(* stalls, returns and resets; and there are never more flits in the       *)
(* receiver's buffer than the credits it gave out, nor fewer than none.    *)
CreditsConserved ==
  \A c \in Channels :
    /\ available[c] + (sent[c] - returned[c]) = ceiling[c]
    /\ sent[c] - returned[c] \in 0 .. ceiling[c]

(* packets_completed counts each completed packet once, and a packet is    *)
(* complete exactly when all its flits were reported.                      *)
CompletedOnce ==
  /\ completed = Cardinality({i \in DOMAIN packets : packets[i].state = "done"})
  /\ \A i \in DOMAIN packets :
       (packets[i].state = "done") <=> (packets[i].sent = packets[i].flits)

PoolTypeOK == allocated \in [VCs -> 0 .. TotalSlots] /\ used \in 0 .. TotalSlots

(* No slot is handed out twice or forgotten: the pool's count of used      *)
(* slots is what the channels hold, whatever order they come and go in.    *)
SlotsHeld == {s \in VCs \X (1 .. TotalSlots) : s[2] <= allocated[s[1]]}
UsedIsWhatChannelsHold == used = Cardinality(SlotsHeld)

(* No channel grows past its ceiling (per_vc_max). *)
WithinCeiling == \A v \in VCs : allocated[v] <= NotNegative(PerVcMax)

(* What per_vc_min buys in a pool that has it for every channel: as long   *)
(* as only one channel takes more than the minimum, every other channel    *)
(* can still be brought up to it.  (Two greedy channels together can empty *)
(* the pool; the code does not prevent that.)                              *)
MinimumDespiteOneGreedy ==
  PerVcMin <= PerVcMax => \A greedy \in VCs :
    (\A v \in VCs \ {greedy} : allocated[v] <= PerVcMin)
      => \A v \in VCs \ {greedy} : PerVcMin - allocated[v] <= Available

(* The pool keeps its books, its ceilings and its minimum.                 *)
PoolSound == UsedIsWhatChannelsHold /\ WithinCeiling /\ MinimumDespiteOneGreedy
=============================================================================
