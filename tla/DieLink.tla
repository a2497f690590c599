------------------------------- MODULE DieLink -------------------------------
(***************************************************************************)
(* Chiplets: the die-to-die link and its flits (ucie_d2d.c), the lanes of  *)
(* its physical layer (d2d_phy.c), the dies of one module with the PHY     *)
(* macros that join them (mcm_integration.c), and the greedy partitioner   *)
(* (chiplet_partition.c).                                                  *)
(*                                                                         *)
(* A word of bits is the set of the positions that are one, so exclusive   *)
(* or is symmetric difference and every register has its real width.       *)
(* Skews are multiples of 5 ps; voltages, losses and powers are left out.  *)
(***************************************************************************)
EXTENDS Integers, Sequences, FiniteSets
Lists == INSTANCE SequencesExt
Sets == INSTANCE FiniteSetsExt

CONSTANTS
    LaneCounts,     \* lanes a link is made with
    MaxLinkLanes,   \* UCIE_MAX_LANES
    MaxSkew,        \* the skew, in ps, from which a lane does not train
    Payload,        \* the bytes of the flit that the link carries
    MaxFlits,       \* bound: flits of one direction
    MaxFlips,       \* bound: bits of a flit that turn over
    PhyLanes,       \* lanes of the physical layer
    Tolerances,     \* skew_tolerance_ps a layer is made with
    Emphases,       \* pre_emphasis_db a caller configures, in dB
    Taps, Seeds,    \* the tap of the generator, and seeds a caller picks
    PrbsBits,       \* bits of a pattern
    MaxDies, MaxMacros, MaxRoutes,   \* MCM_MAX_DIES, 8 macros, bound on routes
    Areas, MaxDesignBlocks, Partitions  \* MAX_BLOCKS

VARIABLES
    link,      \* [state, lanes, sent, recv, crcErrors, retries], lanes of [skew, locked]
    flips,     \* positions of the flit that are turned over on the way
    delivered, \* flits handed to the caller, with the flips each one had
    phy,       \* [lanes, tolerance, emphasis, txTrained, rxTrained, bits, errors]
    training,  \* lanes whose last training passed
    dies,      \* a die is the sequence of its macros, [die, macro, width]
    routes,    \* ends of the routing channels
    plan       \* [blocks, count, spread]: blocks of [area, partition]; spread since the last block


linkVars == <<link, flips, delivered>>
phyVars == <<phy, training>>
moduleVars == <<dies, routes>>

Abs(n) == IF n < 0 THEN -n ELSE n
-----------------------------------------------------------------------------
(* Flits.  The CRC shifts right with 0x1EDC6F41 as it is written.           *)
CrcPoly == {0, 6, 8, 9, 10, 11, 13, 14, 18, 19, 20, 22, 23, 25, 26, 27, 28}

(* faulty: the low bit is looked at after the shift *)
ShiftedLate(crc) ==
    LET moved == {bit - 1 : bit \in crc \ {0}} IN IF 0 \in moved THEN moved \ {0} ELSE moved

Shifted(crc) ==
    LET moved == {bit - 1 : bit \in crc \ {0}} IN
    IF 0 \in crc THEN Sets!SymDiff(moved, CrcPoly) ELSE moved

CrcByte(crc, byte) == Lists!FoldLeft(LAMBDA acc, i : Shifted(acc), Sets!SymDiff(crc, byte), [i \in 1..8 |-> i])
CrcBuffer(bytes) == Sets!SymDiff(Lists!FoldLeft(CrcByte, 0..31, bytes), 0..31)

(* The checksum runs over the whole flit, its own field read as zero.        *)
FlitCrc(bytes) == CrcBuffer(<<{}, {}, {}, {}>> \o bytes)
Pack(bytes) == [crc |-> FlitCrc(bytes), bytes |-> bytes]
Verify(flit) == FlitCrc(flit.bytes) = flit.crc

(* Positions 0..31 are the checksum field, the payload follows.              *)
FlitBits == 0..(31 + 8 * Len(Payload))
Flipped(flit, positions) ==
    [crc |-> Sets!SymDiff(flit.crc, positions \cap 0..31),
     bytes |-> [i \in DOMAIN flit.bytes |->
                  Sets!SymDiff(flit.bytes[i], {bit \in 0..7 : 24 + 8 * i + bit \in positions})]]
-----------------------------------------------------------------------------
(* The link.                                                                *)
NewLink(n) ==
    [state |-> "DOWN", sent |-> 0, recv |-> 0, crcErrors |-> 0, retries |-> 0,
     lanes |-> [i \in 1..(IF n > MaxLinkLanes THEN MaxLinkLanes ELSE n) |-> [skew |-> 0, locked |-> FALSE]]]

TrainedSkew(i, n) == 5 * (i - 1 - n \div 2)

Train(l) ==
    LET n == Len(l.lanes)  good == {i \in 1..n : Abs(TrainedSkew(i, n)) < MaxSkew} IN
    [l EXCEPT !.lanes = [i \in 1..n |->
                           IF i \in good THEN [skew |-> TrainedSkew(i, n), locked |-> TRUE] ELSE l.lanes[i]],
              !.state = IF good = 1..n THEN "ACTIVE" ELSE "ERROR"]

LinkTrain == link' = Train(link) /\ UNCHANGED <<flips, delivered>>

(* The new configuration unlocks every lane and leaves the state alone.     *)
PhyInit ==
    /\ link' = [link EXCEPT !.lanes = [i \in DOMAIN link.lanes |-> [link.lanes[i] EXCEPT !.locked = FALSE]]]
    /\ UNCHANGED <<flips, delivered>>

LinkReset ==
    /\ link' = NewLink(Len(link.lanes))
    /\ delivered' = <<>> /\ flips' = {}

Recovery ==
    /\ link.state \in {"RECOVERY", "ERROR"}
    /\ link' = Train(link) /\ UNCHANGED <<flips, delivered>>

SendFlit ==
    /\ link.state = "ACTIVE" /\ link.sent < MaxFlits
    /\ link' = [link EXCEPT !.sent = @ + 1] /\ UNCHANGED <<flips, delivered>>

(* Noise on the wires: one more bit of the flit under way turns over.       *)
Disturb(position) ==
    /\ link.state = "ACTIVE" /\ link.recv < MaxFlits
    /\ Cardinality(flips) < MaxFlips /\ position \notin flips
    /\ \A p \in flips : p < position
    /\ flips' = flips \cup {position} /\ UNCHANGED <<link, delivered>>

(* A flit counts as received before it is checked; a bad one takes the      *)
(* link down to recovery, and nobody sends it again.                        *)
RecvFlit ==
    /\ link.state = "ACTIVE" /\ link.recv < MaxFlits
    /\ LET good == Verify(Flipped(Pack(Payload), flips)) IN
       /\ link' = IF good THEN [link EXCEPT !.recv = @ + 1]
                  ELSE [link EXCEPT !.recv = @ + 1, !.crcErrors = @ + 1, !.retries = @ + 1,
                                    !.state = "RECOVERY"]
       /\ delivered' = IF good THEN Append(delivered, flips) ELSE delivered
    /\ flips' = {}

(* The deskew pass pulls lanes to within 500 ps of the first.               *)
DeskewLimit == 500
Near(skew, ref, limit) ==
    IF skew - ref > limit THEN ref + limit ELSE IF ref - skew > limit THEN ref - limit ELSE skew

LaneDeskew ==
    /\ Len(link.lanes) > 1
    /\ link' = [link EXCEPT !.lanes = [i \in DOMAIN link.lanes |->
           IF i = 1 THEN link.lanes[1]
           ELSE [link.lanes[i] EXCEPT !.skew = Near(@, link.lanes[1].skew, DeskewLimit)]]]
    /\ UNCHANGED <<flips, delivered>>

LinkNext ==
    \/ LinkTrain \/ PhyInit \/ LinkReset \/ Recovery \/ SendFlit \/ RecvFlit \/ LaneDeskew
    \/ \E position \in FlitBits : Disturb(position)
-----------------------------------------------------------------------------
(* The physical layer.                                                      *)
NewPhy(tolerance) ==
    [lanes |-> [i \in 1..PhyLanes |-> [skew |-> 5 * (i - 1 - 8), eye |-> FALSE, deskewed |-> FALSE,
                                      margin |-> 100]],
     tolerance |-> tolerance, emphasis |-> 3, txTrained |-> FALSE, rxTrained |-> FALSE,
     bits |-> 0, errors |-> 0]

TxConfig(db) == phy' = [phy EXCEPT !.emphasis = db] /\ UNCHANGED training

(* good are the lanes whose samples came near the pattern.  A lane that     *)
(* fails keeps the eye that an earlier training found open.                 *)
TrainingSequence(good) ==
    /\ phy' = [phy EXCEPT
         !.lanes = [i \in 1..PhyLanes |-> IF i \in good THEN [phy.lanes[i] EXCEPT !.eye = TRUE] ELSE phy.lanes[i]],
         !.txTrained = good = 1..PhyLanes]
    /\ training' = good

CdrLock == \A i \in 1..PhyLanes : phy.lanes[i].eye

Deskewed(lanes, tolerance) ==
    [i \in DOMAIN lanes |->
       [lanes[i] EXCEPT !.deskewed = TRUE, !.skew = Near(@, lanes[1].skew, tolerance)]]

DeskewLanes == phy' = [phy EXCEPT !.lanes = Deskewed(phy.lanes, phy.tolerance)] /\ UNCHANGED training

(* Five settings around the present one are tried on each lane, and the     *)
(* transmitter, which all lanes share, keeps the best of the lane before.   *)
Settings == {-2, 0, 2, 4, 6}
Clamped(db) == IF db < 0 THEN 0 ELSE IF db > 10 THEN 10 ELSE db
MarginOf(db) == 100 + 10 * (5 - Abs(db))
BestSetting(margin, emphasis) ==
    LET db == CHOOSE d \in Settings : \A other \in Settings : MarginOf(other) <= MarginOf(d) IN
    IF MarginOf(db) > margin THEN [margin |-> MarginOf(db), emphasis |-> Clamped(emphasis + db)]
    ELSE [margin |-> margin, emphasis |-> emphasis]

EqualizationTrain ==
    LET left[i \in 0..PhyLanes] ==
          IF i = 0 THEN phy.emphasis ELSE BestSetting(phy.lanes[i].margin, left[i - 1]).emphasis
    IN /\ phy' = [phy EXCEPT
            !.lanes = [i \in 1..PhyLanes |->
                         [phy.lanes[i] EXCEPT !.margin = BestSetting(@, left[i - 1]).margin]],
            !.emphasis = left[PhyLanes], !.rxTrained = TRUE]
       /\ UNCHANGED training

(* The pattern generator: 31 bits, shifted left, the tapped bits' parity in. *)
Advance(lfsr, taps) ==
    ({bit + 1 : bit \in lfsr} \cap 0..30) \cup (IF Cardinality(lfsr \cap taps) % 2 = 1 THEN {0} ELSE {})

(* The first n bits, lowest bit of the register first.                      *)
Pattern(taps, seed, n) ==
    LET reg[i \in 0..n] == IF i = 0 THEN seed ELSE Advance(reg[i - 1], taps)
    IN [i \in 1..n |-> 0 \in reg[i - 1]]

DefaultSeed == {1, 2, 3, 4, 5, 6}   \* 0x7E
Generate(taps, seed, n) == Pattern(taps, IF seed = {} THEN DefaultSeed ELSE seed, n)

(* The verifier starts from the default seed, whatever the sender used.     *)
ErrorsIn(taps, received) ==
    LET expected == Pattern(taps, DefaultSeed, Len(received)) IN
    Cardinality({i \in DOMAIN received : received[i] # expected[i]})

(* Of the bits asked for the buffer holds an eighth, and those are tested.  *)
SelfTest(taps, bits) ==
    /\ phy.bits + bits \div 8 + 1 <= PrbsBits
    /\ LET n == bits \div 8 + 1 IN
       phy' = [phy EXCEPT !.errors = ErrorsIn(taps, Generate(taps, DefaultSeed, n)), !.bits = @ + n]
    /\ UNCHANGED training

PhyNext ==
    \/ \E db \in Emphases : TxConfig(db)
    \/ \E good \in SUBSET (1..PhyLanes) : TrainingSequence(good)
    \/ DeskewLanes \/ EqualizationTrain
    \/ \E tap \in Taps, bits \in {8, 24} : SelfTest({tap}, bits)
-----------------------------------------------------------------------------
(* One module of several dies.                                              *)
None == -1    \* UINT32_MAX, a macro that is not connected

AddDie == Len(dies) < MaxDies /\ dies' = Append(dies, <<>>) /\ UNCHANGED routes

AddPhy(d, width) ==
    /\ d \in DOMAIN dies /\ Len(dies[d]) < MaxMacros
    /\ dies' = [dies EXCEPT ![d] = Append(@, [die |-> None, macro |-> None, width |-> width])]
    /\ UNCHANGED routes

(* faulty: the second macro is told its own number *)
JoinedSelf(d, p, e, q) ==
    LET first == [dies EXCEPT ![d][p].die = e, ![d][p].macro = q] IN
    [first EXCEPT ![e][q].die = d, ![e][q].macro = q]

(* Both macros point at each other; what they were connected to before      *)
(* keeps its pointer.                                                       *)
Joined(d, p, e, q) ==
    LET first == [dies EXCEPT ![d][p].die = e, ![d][p].macro = q] IN
    [first EXCEPT ![e][q].die = d, ![e][q].macro = p]

ConnectPhys(d, p, e, q) ==
    /\ d \in DOMAIN dies /\ e \in DOMAIN dies /\ p \in DOMAIN dies[d] /\ q \in DOMAIN dies[e]
    /\ Len(routes) < MaxRoutes
    /\ dies' = Joined(d, p, e, q)
    /\ routes' = Append(routes, <<<<d, p>>, <<e, q>>>>)

(* 0 when every die of several has a connected macro, 100 more than the     *)
(* number of the first die that has none, 1 without dies.                   *)
Connected(d) == {p \in DOMAIN dies[d] : dies[d][p].die # None}
ValidateConnectivity ==
    LET lonely == {d \in DOMAIN dies : Connected(d) = {}} IN
    IF dies = <<>> THEN 1
    ELSE IF lonely # {} /\ Len(dies) > 1 THEN 99 + Sets!Min(lonely) ELSE 0

Macros == UNION {{<<d, p>> : p \in DOMAIN dies[d]} : d \in DOMAIN dies}
Bandwidth(macros) == Sets!MapThenSumSet(LAMBDA m : dies[m[1]][m[2]].width, macros)
TotalBandwidth == Bandwidth({m \in Macros : m[2] \in Connected(m[1])})

ModuleNext ==
    \/ AddDie
    \/ \E d \in DOMAIN dies, width \in {1, 4} : AddPhy(d, width)
    \/ \E d, e \in DOMAIN dies : \E p \in DOMAIN dies[d], q \in DOMAIN dies[e] : ConnectPhys(d, p, e, q)
-----------------------------------------------------------------------------
(* The partitioner.                                                         *)
AddDesignBlock(area) ==
    /\ Len(plan.blocks) < MaxDesignBlocks
    /\ plan' = [plan EXCEPT !.blocks = Append(@, [area |-> area, partition |-> 1]), !.spread = FALSE]

(* The areas of the partitions while the first n blocks are placed, each    *)
(* into the first of the smallest ones.                                     *)
Emptiest(area) ==
    CHOOSE p \in 1..plan.count : \A q \in 1..plan.count :
        area[p] < area[q] \/ (area[p] = area[q] /\ p <= q)

Partition ==
    LET area[n \in 0..Len(plan.blocks)] ==
          IF n = 0 THEN [p \in 1..plan.count |-> 0]
          ELSE [area[n - 1] EXCEPT ![Emptiest(area[n - 1])] = @ + plan.blocks[n].area]
    IN plan' = [plan EXCEPT
         !.blocks = [n \in DOMAIN plan.blocks |-> [plan.blocks[n] EXCEPT !.partition = Emptiest(area[n - 1])]],
         !.spread = TRUE]

PartitionNext == Partition \/ \E area \in Areas : AddDesignBlock(area)
-----------------------------------------------------------------------------
DieInit ==
    /\ \E n \in LaneCounts : link = NewLink(n)
    /\ flips = {} /\ delivered = <<>>
    /\ \E tolerance \in Tolerances : phy = NewPhy(tolerance)
    /\ training = {}
    /\ dies = <<>> /\ routes = <<>>
    /\ \E count \in Partitions : plan = [blocks |-> <<>>, count |-> count, spread |-> FALSE]

DieAssumption ==
    /\ LaneCounts \subseteq Nat /\ MaxLinkLanes \in Nat /\ MaxSkew \in Nat \ {0} /\ MaxFlips \in Nat
    /\ PhyLanes \in Nat /\ Tolerances \subseteq Nat /\ Areas \subseteq Nat /\ Partitions \subseteq Nat \ {0}

(* The checksum tells the payload in the flit apart from what becomes of it *)
(* when up to MaxFlips bits turn over.                                      *)
CrcDetects ==
    \A wrong \in [1..MaxFlips -> FlitBits] :
        {wrong[i] : i \in 1..MaxFlips} # {} => ~Verify(Flipped(Pack(Payload), {wrong[i] : i \in 1..MaxFlips}))

(* The four parts share nothing.                                            *)
DieSpec ==
    /\ DieInit /\ [][LinkNext]_linkVars /\ [][PhyNext]_phyVars
    /\ [][ModuleNext]_moduleVars /\ [][PartitionNext]_plan
-----------------------------------------------------------------------------
(* A flit that was disturbed in up to MaxFlips bits is not handed over, and *)
(* every flit that arrived was either handed over or counted as an error;   *)
(* a link is active only when all its lanes can train, so that one of 48    *)
(* lanes or more never is where the limit is 120 ps, and it stops at the    *)
(* first bad flit.                                                          *)
TooMany == 2 * ((MaxSkew + 4) \div 5)
FlitsSound ==
    /\ \A i \in DOMAIN delivered : delivered[i] = {}
    /\ link.recv = Len(delivered) + link.crcErrors
    /\ link.retries = link.crcErrors
    /\ link.state = "RECOVERY" => link.crcErrors > 0
    /\ link.state = "ACTIVE" => Len(link.lanes) < TooMany
    /\ link.state = "ERROR" => Len(link.lanes) >= TooMany

(* Of the seeds that differ from the verifier's, each shows within a period.*)
SeedTold ==
    \A tap \in Taps, seed \in Seeds :
        ErrorsIn({tap}, Generate({tap}, seed, tap + 1)) = 0 <=> seed \in {{}, DefaultSeed}

(* A trained transmitter has every eye open (the converse fails: an eye     *)
(* stays open when a later training of its lane fails); deskewed lanes lie  *)
(* within the tolerance of the first; equalisation leaves a setting the     *)
(* transmitter has, and the best margin there is; the verifier finds every  *)
(* pattern of its own seed clean.                                           *)
PhySound ==
    /\ phy.txTrained => training = 1..PhyLanes /\ CdrLock
    /\ training \subseteq {i \in 1..PhyLanes : phy.lanes[i].eye}
    /\ \A i \in 1..PhyLanes : phy.lanes[i].deskewed =>
           Abs(phy.lanes[i].skew - phy.lanes[1].skew) <= phy.tolerance
    /\ \A i \in 1..PhyLanes : phy.rxTrained <=> phy.lanes[i].margin = 150
    /\ phy.errors = 0

(* LinkSound: no spoilt flit is handed over, and the physical layer is what *)
(* its flags say.                                                           *)
LinkSound == FlitsSound /\ PhySound

(* A macro that was connected once has a partner that points back at it,    *)
(* the module validates exactly when every die is an end of a route, and    *)
(* its bandwidth is that of the ends of the routes.                         *)
Ends == [i \in 1..(2 * Len(routes)) |-> routes[(i + 1) \div 2][IF i % 2 = 1 THEN 1 ELSE 2]]
Once(m) == Cardinality({i \in DOMAIN Ends : Ends[i] = m}) = 1
PointsAt(m, to) == dies[m[1]][m[2]].die = to[1] /\ dies[m[1]][m[2]].macro = to[2]
MacrosJoined ==
    /\ \A i \in DOMAIN routes :
         Once(routes[i][1]) /\ Once(routes[i][2]) =>
            PointsAt(routes[i][1], routes[i][2]) /\ PointsAt(routes[i][2], routes[i][1])
    /\ ValidateConnectivity = 0 <=>
         dies # <<>> /\ (Len(dies) = 1 \/ \A d \in DOMAIN dies : \E i \in DOMAIN Ends : Ends[i][1] = d)
    /\ TotalBandwidth = Bandwidth({Ends[i] : i \in DOMAIN Ends})

(* Once the blocks are spread, no two partitions differ by more than the    *)
(* largest block.                                                           *)
AreaOf(blocks, p) ==
    LET sum[n \in 0..Len(blocks)] ==
          IF n = 0 THEN 0 ELSE sum[n - 1] + (IF blocks[n].partition = p THEN blocks[n].area ELSE 0)
    IN sum[Len(blocks)]
Balanced ==
    plan.spread =>
        \A p, q \in 1..plan.count : \E a \in {0} \cup {plan.blocks[i].area : i \in DOMAIN plan.blocks} :
            AreaOf(plan.blocks, p) - AreaOf(plan.blocks, q) <= a

(* ModuleSound: macros that were joined point at each other, and the blocks *)
(* that were spread over partitions are balanced.                           *)
ModuleSound == MacrosJoined /\ Balanced
=============================================================================
