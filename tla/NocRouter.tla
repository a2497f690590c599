------------------------------ MODULE NocRouter ------------------------------
(***************************************************************************)
(* The wormhole router of mini-noc-design (noc_router.c): virtual-channel  *)
(* buffers on its input ports, the state of each virtual channel, and the  *)
(* crossbar that one call of noc_router_cycle configures and the next one  *)
(* uses.  The stages run in the order LT, ST, SA, VA, RC inside one call,  *)
(* so a flit needs several calls to go through.                            *)
(*                                                                         *)
(* Callers interleave four operations: inject a flit, eject a flit, run a  *)
(* cycle, reset.  Statistics that nothing reads (cycle_count,              *)
(* packets_routed, the failure counters) are left out.  Buffers are        *)
(* sequences here; the last section is the ring of slots behind a channel  *)
(* and shows that it implements one.                                       *)
(***************************************************************************)
EXTENDS Integers, Sequences, FiniteSets, FiniteSetsExt, SequencesExt

CONSTANTS
  NumPorts,     \* cfg->num_ports; port 0 is NOC_DIR_LOCAL
  NumVCs,       \* cfg->num_vcs
  FifoDepth,    \* flits per virtual channel buffer (8 in the code)
  MaxCredits,   \* cfg->vc_buffer_depth
  Dsts,         \* destinations the callers address
  Route,        \* route_func: destination -> output port, -1 when it has none
  FlitTypes,    \* the flit types the callers send
  CreditUsers,  \* the <<port, vc>> whose credits the callers consume
  CounterMod,   \* flits_in and flits_out wrap (2^64 in the code)
  Flits,        \* the flits a caller may inject into the ring
  Depth,        \* slots of the ring (8 in the code)
  NoFlit        \* an all-zero slot, as memset leaves it

Ports == 0 .. NumPorts - 1
Vcs == 0 .. NumVCs - 1
Local == 0
None == -1                       \* output_port, output_vc and mapping when unset
NoPacket == -9                   \* not a destination

AnyFlit == [type : FlitTypes, dst : Dsts]

ASSUME RouterAssumption ==
  /\ NumPorts \in Nat \ {0} /\ NumVCs \in Nat \ {0}
  /\ FifoDepth \in Nat /\ MaxCredits \in Nat /\ CounterMod \in Nat \ {0}
  /\ Route \in [Dsts -> Ports \cup {None}]
  /\ CreditUsers \subseteq Ports \X Vcs

VARIABLES
  vc,          \* vc[p][v]: state, outPort and outVc of input_ports[p].vcs[v]
  credits,     \* credits[p][v] of the same channel
  buf,         \* buf[v]: the flits buffered on channel v of the local port
  granted,     \* crossbar.mapping[NOC_DIR_LOCAL]
  flitsIn, flitsOut,
  open,        \* callers: destination of the packet under way on each local VC
  plain        \* callers: do they only cycle, and inject single flits to other nodes?

vars == <<vc, credits, buf, granted, flitsIn, flitsOut, open, plain>>

IdleVC == [state |-> "IDLE", outPort |-> None, outVc |-> None]
Fresh(x) == [p \in Ports |-> [v \in Vcs |-> x]]

Init ==
  /\ vc = Fresh(IdleVC)
  /\ credits = Fresh(MaxCredits)
  /\ buf = [v \in Vcs |-> <<>>]
  /\ granted = None
  /\ flitsIn = 0 /\ flitsOut = 0
  /\ open = [v \in Vcs |-> NoPacket]
  /\ plain \in BOOLEAN
-----------------------------------------------------------------------------
(* Callers send well-formed packets on each VC: a single flit, or a head,  *)
(* any number of body flits and a tail, all to the same destination.       *)
WellFormed(v, f) ==
  /\ IF f.type \in {"head", "single"} THEN open[v] = NoPacket ELSE open[v] = f.dst
  /\ plain => f.type = "single" /\ Route[f.dst] # Local

Room(v) == Len(buf[v]) < FifoDepth

Inject(v, f) ==
  /\ WellFormed(v, f)
  /\ Room(v)
  /\ buf' = [buf EXCEPT ![v] = Append(@, f)]
  /\ flitsIn' = (flitsIn + 1) % CounterMod
  /\ open' = [open EXCEPT ![v] =
                 IF f.type \in {"tail", "single"} THEN NoPacket ELSE f.dst]
  /\ UNCHANGED <<vc, credits, granted, flitsOut>>

Buffered == {v \in Vcs : buf[v] # <<>>}

EjectUncounted ==                 \* faulty: forgets flits_out
  /\ Buffered # {}
  /\ buf' = [buf EXCEPT ![Min(Buffered)] = Tail(@)]
  /\ UNCHANGED <<vc, credits, granted, flitsIn, flitsOut, open>>

Eject ==
  /\ Buffered # {}
  /\ buf' = [buf EXCEPT ![Min(Buffered)] = Tail(@)]
  /\ flitsOut' = (flitsOut + 1) % CounterMod
  /\ UNCHANGED <<vc, credits, granted, flitsIn, open>>

Reset ==
  /\ vc' = Fresh(IdleVC) /\ credits' = Fresh(MaxCredits) /\ buf' = [v \in Vcs |-> <<>>]
  /\ granted' = None
  /\ flitsIn' = 0 /\ flitsOut' = 0
  /\ open' = [v \in Vcs |-> NoPacket]

(* noc_vc_consume_credit and noc_vc_return_credit, called from outside.    *)
ConsumeCredit(p, v) ==
  /\ credits[p][v] > 0
  /\ credits' = [credits EXCEPT ![p][v] = @ - 1]
  /\ UNCHANGED <<vc, buf, granted, flitsIn, flitsOut, open>>

ReturnCredit(p, v) ==
  /\ credits[p][v] < MaxCredits
  /\ credits' = [credits EXCEPT ![p][v] = @ + 1]
  /\ UNCHANGED <<vc, buf, granted, flitsIn, flitsOut, open>>
-----------------------------------------------------------------------------
(* The stages.  Only noc_router_inject_flit fills a buffer, and only on    *)
(* the local port, so the local port is the only one whose channels can    *)
(* route, request or send: the scans of the stages over input ports reduce *)
(* to it.  Channels of the other ports are there to be reserved.           *)
(* A stage maps channel states c (and buffers b) to what it leaves behind. *)
LT(cr) == [p \in Ports |-> [v \in Vcs |-> IF cr[p][v] < MaxCredits THEN cr[p][v] + 1 ELSE cr[p][v]]]

(* ST sends one flit of the first ACTIVE local channel that has one,       *)
(* through the output granted by the previous cycle.                       *)
Active == {v \in Vcs : vc[Local][v].state = "ACTIVE" /\ buf[v] # <<>>}
Sends == granted # None /\ Active # {}
Sender == Min(Active)

ReleaseNothing ==                 \* faulty: the reservation is kept
  [vc EXCEPT ![Local][Sender] = IdleVC]

Release ==
  LET w == vc[Local][Sender].outVc
      freed == IF w # None THEN [vc EXCEPT ![granted][w].state = "IDLE"] ELSE vc
  IN [freed EXCEPT ![Local][Sender] = IdleVC]

AfterST ==
  IF Sends /\ Head(buf[Sender]).type \in {"tail", "single"} THEN Release ELSE vc

BufAfterST == IF Sends THEN [buf EXCEPT ![Sender] = Tail(@)] ELSE buf

(* SA starts from an empty crossbar; the lowest output that is asked for   *)
(* is granted to the lowest channel asking, and the local port is then     *)
(* passed over for the other outputs.                                      *)
Asking(c, b) == {v \in Vcs : /\ c[Local][v].state = "WAITING"
                             /\ c[Local][v].outPort # None /\ b[v] # <<>>}

Winner(c, b) ==
  LET lowest == Min({c[Local][v].outPort : v \in Asking(c, b)})
  IN Min({v \in Asking(c, b) : c[Local][v].outPort = lowest})

AfterSA(c, b) ==
  IF Asking(c, b) = {} THEN c ELSE [c EXCEPT ![Local][Winner(c, b)].state = "ACTIVE"]

GrantAfterSA(c, b) ==
  IF Asking(c, b) = {} THEN None ELSE c[Local][Winner(c, b)].outPort

(* VA: the ROUTING channels, in order, reserve the IDLE channels of their  *)
(* output port, in order, until none is left.  The reservation is recorded *)
(* as the state of that port's *input* channel.                            *)
Rank(x, S) == Cardinality({y \in S : y < x})

OfferedAny(c, v) ==               \* faulty: looks at idle channels only once
  LET o == c[Local][v].outPort
      idle == {w \in Vcs : c[o][w].state = "IDLE"}
  IN {w \in idle : c[Local][v].state = "ROUTING" /\ Rank(w, idle) = 0}

Offered(c, v) ==
  LET o == c[Local][v].outPort
      rivals == {u \in Vcs : c[Local][u].state = "ROUTING" /\ c[Local][u].outPort = o}
      idle == {w \in Vcs : c[o][w].state = "IDLE"}
  IN {w \in idle : c[Local][v].state = "ROUTING" /\ Rank(w, idle) = Rank(v, rivals)}

AfterVA(c) ==
  [p \in Ports |-> [v \in Vcs |->
     IF p = Local /\ c[p][v].state = "ROUTING" /\ Offered(c, v) # {}
     THEN [c[p][v] EXCEPT !.state = "WAITING", !.outVc = Min(Offered(c, v))]
     ELSE IF \E u \in Vcs : c[Local][u].outPort = p /\ v \in Offered(c, u)
          THEN [c[p][v] EXCEPT !.state = "WAITING"]
          ELSE c[p][v]]]

(* RC: an IDLE channel whose oldest flit opens a packet computes its route. *)
AfterRC(c, b) ==
  LET opens(v) == b[v] # <<>> /\ Head(b[v]).type \in {"head", "single"}
  IN [c EXCEPT ![Local] = [v \in Vcs |->
        IF @[v].state = "IDLE" /\ opens(v) /\ Route[Head(b[v]).dst] # None
        THEN [@[v] EXCEPT !.state = "ROUTING", !.outPort = Route[Head(b[v]).dst]]
        ELSE @[v]]]

(* noc_router_cycle: one call runs all five stages.  Each bound name is    *)
(* what a stage leaves for the next.                                       *)
Cycle ==
  \E st \in {AfterST}, b \in {BufAfterST} :
    \E sa \in {AfterSA(st, b)} :
      \E va \in {AfterVA(sa)} :
        /\ credits' = LT(credits)
        /\ buf' = b
        /\ granted' = GrantAfterSA(st, b)
        /\ vc' = AfterRC(va, b)
        /\ flitsOut' = IF Sends THEN (flitsOut + 1) % CounterMod ELSE flitsOut
        /\ UNCHANGED <<flitsIn, open>>
-----------------------------------------------------------------------------
(* What only the callers do that are not plain.                            *)
Disturb ==
  /\ ~ plain
  /\ \/ Eject
     \/ Reset
     \/ \E ch \in CreditUsers : ConsumeCredit(ch[1], ch[2]) \/ ReturnCredit(ch[1], ch[2])

Next ==
  /\ Cycle \/ (\E v \in Vcs, f \in AnyFlit : Inject(v, f)) \/ Disturb
  /\ UNCHANGED plain

(* Everything a caller may do. *)
Spec == Init /\ [][Next]_vars
-----------------------------------------------------------------------------
VCState == [state : {"IDLE", "ROUTING", "WAITING", "ACTIVE"},
            outPort : Ports \cup {None}, outVc : Vcs \cup {None}]

TypeOK ==
  /\ vc \in [Ports -> [Vcs -> VCState]]
  /\ credits \in [Ports -> [Vcs -> 0 .. MaxCredits]]
  /\ buf \in [Vcs -> Seq(AnyFlit)] /\ \A v \in Vcs : Len(buf[v]) <= FifoDepth
  /\ granted \in Ports \cup {None}
  /\ flitsIn \in 0 .. CounterMod - 1 /\ flitsOut \in 0 .. CounterMod - 1
  /\ plain \in BOOLEAN

(* Flits are neither lost nor duplicated: what came in and has not gone    *)
(* out is in the buffers, through cycles, ejections and counter wrap.      *)
Stored == {s \in Vcs \X (1 .. FifoDepth) : s[2] <= Len(buf[s[1]])}
FlitsConserved == (flitsIn - flitsOut) % CounterMod = Cardinality(Stored) % CounterMod

(* The local channels that hold a reservation made by VA, and what of.     *)
Holders == {v \in Vcs : vc[Local][v].outVc # None}
Held(v) == <<vc[Local][v].outPort, vc[Local][v].outVc>>

(* Packets never share an output channel: a reserved channel has exactly   *)
(* one holder and stays out of the idle pool until it is released.         *)
ReservationsExclusive ==
  \A v \in Holders :
    /\ vc[Held(v)[1]][Held(v)[2]].state # "IDLE"
    /\ \A u \in Holders : Held(u) = Held(v) => u = v

(* Channels never wait on each other for good: some local channel is not   *)
(* stuck in VA with every channel of its output port taken (noc_router.h:  *)
(* "Virtual Channels (VCs): deadlock avoidance + throughput").             *)
NoVcDeadlock ==
  \E v \in Vcs : \/ vc[Local][v].state # "ROUTING"
                 \/ \E w \in Vcs : vc[vc[Local][v].outPort][w].state = "IDLE"

(* No reservation outlives its holder: every channel of an output port     *)
(* that is taken is taken by a packet that is still in the router.         *)
NoLeakedReservation ==
  \A p \in Ports \ {Local}, w \in Vcs :
    vc[p][w].state # "IDLE" => \E v \in Holders : Held(v) = <<p, w>>

(* The flit that ST is about to send through the crossbar leaves by the    *)
(* output its destination routes to, and not by one granted to another     *)
(* channel of the same input port.                                         *)
SwitchedToItsRoute == Sends => Route[Head(buf[Sender]).dst] = granted

(* All of this holds of packets of one flit; longer ones lose the switch   *)
(* after their head flit, and are sent through what others were granted.   *)
SwitchSound ==
  plain => ReservationsExclusive /\ NoLeakedReservation /\ SwitchedToItsRoute /\ NoVcDeadlock

(* Every channel with a flit to send is granted the switch again and again *)
(* (noc_router_sa_stage: "separable round-robin allocator").  With two     *)
(* channels a packet is never passed over twice, because a channel needs   *)
(* three cycles to ask again; with four it can be passed over for ever.    *)
EveryChannelServed == \A v \in Vcs : plain /\ buf[v] # <<>> ~> vc[Local][v].state = "ACTIVE"
-----------------------------------------------------------------------------
(* The storage of one virtual channel of an input port (noc_input_port_t in *)
(* noc_router.h): an array of slots used as a ring through buffer_head,      *)
(* buffer_tail and buffer_count.  Slots are never erased, so a stale flit    *)
(* stays behind every pop.                                                   *)
ASSUME DepthAssumption == Depth \in Nat \ {0}

VARIABLES buffer,   \* port->buffer[vc]
          head,     \* port->buffer_head[vc]
          tail,     \* port->buffer_tail[vc]
          count,    \* port->buffer_count[vc]
          out       \* the flit the last pop copied to its caller

ringVars == <<buffer, head, tail, count, out>>

Slots == 0 .. Depth - 1

Zeroed == [s \in Slots |-> NoFlit]

RingInit ==
  /\ buffer = Zeroed
  /\ head = 0 /\ tail = 0 /\ count = 0
  /\ out = NoFlit

(* The index after i; the ring wraps at its last slot. *)
Advance(i) == (i + 1) % Depth

FreeSlot == count < Depth

(* noc_router_inject_flit, once the channel is known to exist. *)
Push(f) ==
  /\ FreeSlot
  /\ buffer' = [buffer EXCEPT ![tail] = f]
  /\ tail' = Advance(tail)
  /\ count' = count + 1
  /\ UNCHANGED <<head, out>>

AtTail == buffer[tail]                  \* faulty: reads the write index
Oldest == buffer[head]

(* The pop of noc_router_eject_flit, and the one of the ST stage. *)
Pop ==
  /\ count > 0
  /\ out' = Oldest
  /\ head' = Advance(head)
  /\ count' = count - 1
  /\ UNCHANGED <<buffer, tail>>

(* noc_router_reset: the whole router is zeroed and initialised again. *)
RingReset ==
  /\ buffer' = Zeroed
  /\ head' = 0 /\ tail' = 0 /\ count' = 0
  /\ UNCHANGED out

RingNext == (\E f \in Flits : Push(f)) \/ Pop \/ RingReset

RingSpec == RingInit /\ [][RingNext]_ringVars

RingTypeOK ==
  /\ buffer \in [Slots -> Flits \cup {NoFlit}]
  /\ head \in Slots /\ tail \in Slots
  /\ count \in 0 .. Depth
  /\ out \in Flits \cup {NoFlit}

(* The three indices always agree: the write index is count slots after    *)
(* the read index, so neither a full nor an empty ring can be mistaken for *)
(* the other although head = tail in both.                                 *)
RingConsistent == tail = (head + count) % Depth

(* No live slot is uninitialised: what a pop copies out was injected, never *)
(* the zeroed contents of a slot that has not been written.                 *)
LiveSlotsWritten == \A i \in 0 .. Depth - 1 :
                      i < count => buffer[(head + i) % Depth] \in Flits

Contents == [i \in 1 .. count |-> buffer[(head + i - 1) % Depth]]

Queue == INSTANCE FlitQueue WITH q <- Contents

(* The ring implements the queue: flits come out in the order they went    *)
(* in, none is lost, duplicated or overwritten, across wrap-around and     *)
(* resets (buffer indices of noc_router_inject_flit, _eject_flit and ST).  *)
ImplementsQueue == Queue!Spec
=============================================================================
