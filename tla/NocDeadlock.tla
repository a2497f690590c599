----------------------------- MODULE NocDeadlock -----------------------------
(***************************************************************************)
(* Timeout-based deadlock detection and escape-channel recovery of         *)
(* mini-noc-design (noc_deadlock.c).  The detector counts, for every       *)
(* virtual channel, the consecutive updates that found it waiting; past a  *)
(* threshold it sets the channel's flag.  Recovery moves what each flagged *)
(* channel holds to an escape channel and resets the flagged one.          *)
(*                                                                         *)
(* The router is the environment: between two updates ("called every       *)
(* cycle") a channel moves by at most one stage of noc_router.c, or stays  *)
(* where it is for ever.  A packet is what the code copies as the triple   *)
(* output_port, output_vc, route_dst.                                      *)
(***************************************************************************)
EXTENDS Integers, FiniteSets, TLAPS
LOCAL INSTANCE WellFoundedInduction

CONSTANTS
  NumVCs,       \* num_vcs; the flags are one int32_t, so at most 31
  Threshold,    \* timeout_threshold
  MaxWait,      \* where wait_counters stop (INT32_MAX in the code)
  EscapeBase,   \* escape_vc_base
  NumEscape,    \* num_escape_vcs
  Packets,      \* the packets that travel
  NoPacket

ASSUME DetectorAssumption ==
  /\ NumVCs \in 1 .. 31 /\ NumEscape \in Nat \ {0} /\ EscapeBase \in Nat
  /\ Threshold \in Nat \ {0} /\ MaxWait \in Nat /\ Threshold <= MaxWait
  /\ NoPacket \notin Packets

VCs == 0 .. NumVCs - 1

VARIABLES
  vcs,          \* vcs[v]: state and the packet it holds
  counter,      \* wait_counters
  flags,        \* deadlock_flags, as the set of its bits
  moved,        \* channels the router has moved since the last update
  waited        \* history: updates that found each packet waiting

vars == <<vcs, counter, flags, moved, waited>>

Idle == [state |-> "IDLE", pkt |-> NoPacket]
Held == {vcs[v].pkt : v \in VCs} \ {NoPacket}

Init ==
  /\ vcs = [v \in VCs |-> Idle]
  /\ counter = [v \in VCs |-> 0]
  /\ flags = {}
  /\ moved = {}
  /\ waited = [p \in Packets |-> 0]
-----------------------------------------------------------------------------
(* The router: RC and VA make a channel wait, SA lets it go on, ST frees   *)
(* it.  The escape channels are set aside for recovery (noc_deadlock.h:    *)
(* "a pre-allocated deadlock-free escape network"), so no packet starts    *)
(* on one.                                                                 *)
Move(v, from, to) ==
  /\ v \notin moved /\ vcs[v].state = from
  /\ vcs' = [vcs EXCEPT ![v] = to]
  /\ moved' = moved \cup {v}
  /\ UNCHANGED <<counter, flags>>

Start(v, p) ==
  /\ v < EscapeBase /\ p \notin Held
  /\ Move(v, "IDLE", [state |-> "WAITING", pkt |-> p])
  /\ waited' = [waited EXCEPT ![p] = 0]

Proceed(v) ==
  /\ Move(v, "WAITING", [state |-> "ACTIVE", pkt |-> vcs[v].pkt])
  /\ UNCHANGED waited

Finish(v) == Move(v, "ACTIVE", Idle) /\ UNCHANGED waited

Router == \E v \in VCs : Proceed(v) \/ Finish(v) \/ \E p \in Packets : Start(v, p)
-----------------------------------------------------------------------------
(* noc_dl_detector_update *)
Waiting == {v \in VCs : vcs[v].state = "WAITING"}

Capped(n) == IF n < MaxWait THEN n + 1 ELSE n

CounterToggles(v) ==          \* faulty: a count already begun is reset
  IF v \in Waiting /\ counter[v] = 0 THEN 1 ELSE 0

NewCounter(v) == IF v \in Waiting THEN Capped(counter[v]) ELSE 0

FlagBeyond == {v \in Waiting : NewCounter(v) > Threshold}   \* faulty: > for >=
TimedOut == {v \in Waiting : NewCounter(v) >= Threshold}

Update ==
  /\ counter' = [v \in VCs |-> NewCounter(v)]
  /\ flags' = flags \cup TimedOut
  /\ moved' = {}
  /\ waited' = [p \in Packets |-> IF \E v \in Waiting : vcs[v].pkt = p
                                  THEN Capped(waited[p]) ELSE waited[p]]
  /\ UNCHANGED vcs

(* noc_dl_recover: the flagged channels one after the other, each seeing   *)
(* what the ones before it left.                                           *)
Escape(v) == EscapeBase + (v % NumEscape)

Escaped(c, v) ==
  [(IF Escape(v) \in VCs THEN [c EXCEPT ![Escape(v)] = c[v]] ELSE c) EXCEPT ![v] = Idle]

AfterRecovery ==
  LET upTo[n \in 0 .. NumVCs] ==        \* channels 0 .. n - 1 have been looked at
        IF n = 0 THEN vcs
        ELSE IF n - 1 \in flags THEN Escaped(upTo[n - 1], n - 1) ELSE upTo[n - 1]
  IN upTo[NumVCs]

Recover ==
  /\ flags # {}
  /\ vcs' = AfterRecovery
  /\ counter' = [v \in VCs |-> IF v \in flags THEN 0 ELSE counter[v]]
  /\ flags' = {}
  /\ UNCHANGED <<moved, waited>>

Next == Router \/ Update \/ Recover

Spec == Init /\ [][Next]_vars
(* The simulation keeps calling update; recovery it may never call. *)
FairSpec == Spec /\ WF_vars(Update)
-----------------------------------------------------------------------------
(* No timeout is missed: a channel whose count has reached the threshold   *)
(* is flagged, through recoveries that take over and reset channels.       *)
NoMissedTimeout == \A v \in VCs : counter[v] >= Threshold => v \in flags

(* Recovery moves packets, it does not copy them: no two channels hold the *)
(* same packet, whatever escape channels the flagged ones share.           *)
PacketsUnique ==
  \A u, v \in VCs : vcs[u].pkt # NoPacket /\ vcs[u].pkt = vcs[v].pkt => u = v

(* No false alarm: an ordinary channel is flagged only when the packet in  *)
(* it has waited for Threshold updates, and not on account of an earlier   *)
(* packet.  (An escape channel keeps its count when recovery overwrites    *)
(* what it holds, so for those the code promises nothing.)                 *)
NoFalseAlarm ==
  [][Update => \A v \in flags' \ flags :
                 v < EscapeBase => waited'[vcs[v].pkt] >= Threshold]_vars

(* Whatever waits for good is detected: a waiting channel goes on or is    *)
(* flagged.                                                                *)
WaitingIsResolved == \A v \in VCs : v \in Waiting ~> v \notin Waiting \/ v \in flags

-----------------------------------------------------------------------------
(* The part of the detector that NoMissedTimeout rests on.  What recovery  *)
(* does to the channels does not matter to it.                             *)
DetectorInv ==
  /\ counter \in [VCs -> 0 .. MaxWait]
  /\ flags \in SUBSET VCs
  /\ NoMissedTimeout

(* For every number of channels, every threshold and every escape layout,  *)
(* no timeout goes unflagged.                                              *)
THEOREM TimeoutsFlagged == Spec => []NoMissedTimeout
<1> USE DetectorAssumption
<1>1. Init => DetectorInv
  BY DEF Init, DetectorInv, NoMissedTimeout, VCs
<1>2. DetectorInv /\ [Next]_vars => DetectorInv'
  <2> SUFFICES ASSUME DetectorInv, [Next]_vars PROVE DetectorInv'
    OBVIOUS
  <2>1. CASE Router
    <3>1. UNCHANGED <<counter, flags>>
      BY <2>1 DEF Router, Proceed, Finish, Start, Move
    <3> QED BY <3>1 DEF DetectorInv, NoMissedTimeout
  <2>2. CASE Update
    <3>1. \A v \in VCs : NewCounter(v) \in 0 .. MaxWait
      BY DEF DetectorInv, NewCounter, Capped
    <3>2. \A v \in VCs : v \notin Waiting => NewCounter(v) = 0
      BY DEF NewCounter
    <3>3. \A v \in VCs : NewCounter(v) >= Threshold => v \in TimedOut
      BY <3>1, <3>2 DEF TimedOut
    <3>4. TimedOut \subseteq VCs
      BY DEF TimedOut, Waiting
    <3> QED BY <2>2, <3>1, <3>3, <3>4 DEF Update, DetectorInv, NoMissedTimeout
  <2>3. CASE Recover
    <3>1. \A v \in VCs : counter'[v] = IF v \in flags THEN 0 ELSE counter[v]
      BY <2>3 DEF Recover
    <3>2. \A v \in VCs : counter'[v] < Threshold
      BY <3>1 DEF DetectorInv, NoMissedTimeout
    <3>3. counter' \in [VCs -> 0 .. MaxWait] /\ flags' = {}
      BY <2>3 DEF Recover, DetectorInv
    <3>4. \A v \in VCs : counter'[v] \in 0 .. MaxWait
      BY <3>3
    <3> QED BY <3>2, <3>3, <3>4 DEF DetectorInv, NoMissedTimeout
  <2>4. CASE UNCHANGED vars
    BY <2>4 DEF vars, DetectorInv, NoMissedTimeout
  <2> QED BY <2>1, <2>2, <2>3, <2>4 DEF Next
<1>3. DetectorInv => NoMissedTimeout
  BY DEF DetectorInv
<1> QED BY <1>1, <1>2, <1>3, PTL DEF Spec
-----------------------------------------------------------------------------
(* Recovery is a recursive function of the channels it has looked at: what  *)
(* holds at the start and is kept by every channel holds at the end, by the  *)
(* least number at which it would not.                                      *)
LEMMA LeastNumber ==
  ASSUME NEW T \in SUBSET Nat, T # {}
  PROVE  \E x \in T : \A y \in T : x <= y
<1> DEFINE less == {ss \in Nat \X Nat : ss[1] < ss[2]}
<1>1. IsWellFoundedOn(less, Nat)
  BY NatLessThanWellFounded, Zenon DEF OpToRel
<1>2. PICK x \in T : \A y \in T : ~ (<<y, x>> \in less)
  BY <1>1, WFMin
<1>3. ASSUME NEW y \in T PROVE x <= y
  <2>1. x \in Nat /\ y \in Nat
    OBVIOUS
  <2>2. y < x => <<y, x>> \in less
    BY <2>1
  <2> HIDE DEF less
  <2>3. ~ (y < x)
    BY <1>2, <2>2
  <2> QED BY <2>1, <2>3
<1> QED BY <1>3

(* upTo of AfterRecovery up to channel k.                                   *)
LookedAt(f, n) ==
  IF n = 0 THEN vcs ELSE IF n - 1 \in flags THEN Escaped(f[n - 1], n - 1) ELSE f[n - 1]

LEMMA RecoveryExists ==
  \A k \in Nat : \E f : f = [n \in 0 .. k |-> LookedAt(f, n)]
<1> DEFINE T == {k \in Nat : ~ \E f : f = [n \in 0 .. k |-> LookedAt(f, n)]}
<1> SUFFICES ASSUME T # {} PROVE FALSE
  OBVIOUS
<1>1. PICK k \in T : \A y \in T : k <= y
  BY LeastNumber
<1>2. k # 0
  <2> DEFINE f == [n \in 0 .. 0 |-> vcs]
  <2>1. f = [n \in 0 .. 0 |-> LookedAt(f, n)]
    BY DEF LookedAt
  <2>2. \E g : g = [n \in 0 .. 0 |-> LookedAt(g, n)]
    BY <2>1
  <2> QED BY <1>1, <2>2
<1>3. k - 1 \in Nat /\ k - 1 \notin T
  BY <1>1, <1>2
<1>4. PICK g : g = [n \in 0 .. (k - 1) |-> LookedAt(g, n)]
  BY <1>3
<1> DEFINE f == [n \in 0 .. k |-> IF n = k THEN LookedAt(g, k) ELSE g[n]]
<1>5. \A n \in 0 .. k : f[n] = LookedAt(f, n)
  <2> SUFFICES ASSUME NEW n \in 0 .. k PROVE f[n] = LookedAt(f, n)
    OBVIOUS
  <2>1. f[n] = LookedAt(g, n)
    <3>1. CASE n = k
      BY <3>1
    <3>2. CASE n # k
      <4>1. n \in 0 .. (k - 1)
        BY <3>2, <1>1
      <4>2. \A m \in 0 .. (k - 1) : g[m] = LookedAt(g, m)
        BY <1>4, Zenon
      <4> QED BY <3>2, <4>1, <4>2
    <3> QED BY <3>1, <3>2
  <2>2. CASE n = 0
    BY <2>1, <2>2 DEF LookedAt
  <2>3. CASE n # 0
    <3>1. n - 1 \in 0 .. k /\ n - 1 # k
      BY <2>3, <1>1
    <3>2. f[n - 1] = g[n - 1]
      BY <3>1
    <3> QED BY <2>1, <3>2 DEF LookedAt
  <2> QED BY <2>2, <2>3
<1>6. f = [n \in 0 .. k |-> LookedAt(f, n)]
  BY <1>5
<1>7. \E h : h = [n \in 0 .. k |-> LookedAt(h, n)]
  BY <1>6
<1> QED BY <1>1, <1>7

LEMMA RecoveryUnfolds ==
  \E f : /\ AfterRecovery = f[NumVCs]
         /\ \A n \in 0 .. NumVCs : f[n] = LookedAt(f, n)
<1> DEFINE g == CHOOSE h : h = [n \in 0 .. NumVCs |-> LookedAt(h, n)]
<1>1. NumVCs \in Nat
  BY DetectorAssumption
<1>2. \E h : h = [n \in 0 .. NumVCs |-> LookedAt(h, n)]
  BY <1>1, RecoveryExists
<1>3. g = [n \in 0 .. NumVCs |-> LookedAt(g, n)]
  BY <1>2, Zenon
<1>4. AfterRecovery = g[NumVCs]
  BY Zenon DEF AfterRecovery, LookedAt
<1> HIDE DEF g
<1>5. \A n \in 0 .. NumVCs : g[n] = LookedAt(g, n)
  BY <1>3, Zenon
<1> QED BY <1>4, <1>5

(* What a channel is, and what a step of recovery makes of the channels.    *)
Contents == {Idle} \cup [state : {"WAITING", "ACTIVE"}, pkt : Packets]
SoundChannels(c) ==
  /\ c \in [VCs -> Contents]
  /\ \A u, v \in VCs : c[u].pkt # NoPacket /\ c[u].pkt = c[v].pkt => u = v

LEMMA EscapedSound ==
  ASSUME NEW c, SoundChannels(c), NEW v \in VCs
  PROVE  /\ SoundChannels(Escaped(c, v))
         /\ Escaped(c, v)[v] = Idle
         /\ \A w \in VCs \ {v} : w < EscapeBase => Escaped(c, v)[w] = c[w]
<1> USE DetectorAssumption
<1>1. Escape(v) \in Int /\ Escape(v) >= EscapeBase
  BY DEF Escape, VCs
<1>2. Idle \in Contents /\ Idle.pkt = NoPacket
  BY DEF Contents, Idle
<1>3. c \in [VCs -> Contents]
  BY DEF SoundChannels
<1> DEFINE d == IF Escape(v) \in VCs THEN [c EXCEPT ![Escape(v)] = c[v]] ELSE c
           e == [d EXCEPT ![v] = Idle]
<1>4. d \in [VCs -> Contents]
  BY <1>3
<1>5. \A w \in VCs : d[w] = IF w = Escape(v) THEN c[v] ELSE c[w]
  BY <1>3
<1>6. e \in [VCs -> Contents] /\ \A w \in VCs : e[w] = IF w = v THEN Idle ELSE d[w]
  BY <1>2, <1>4
<1>7. Escaped(c, v) = e
  BY DEF Escaped
<1> HIDE DEF d, e
<1>8. \A t, u \in VCs : e[t].pkt # NoPacket /\ e[t].pkt = e[u].pkt => t = u
  <2> SUFFICES ASSUME NEW t \in VCs, NEW u \in VCs, e[t].pkt # NoPacket, e[t].pkt = e[u].pkt
               PROVE  t = u
    OBVIOUS
  <2>1. t # v /\ u # v
    BY <1>2, <1>6
  <2>2. e[t] = d[t] /\ e[u] = d[u]
    BY <1>6, <2>1
  <2>3. \A x, y \in VCs : c[x].pkt # NoPacket /\ c[x].pkt = c[y].pkt => x = y
    BY DEF SoundChannels
  <2> QED BY <1>5, <2>1, <2>2, <2>3
<1>9. \A w \in VCs \ {v} : w < EscapeBase => e[w] = c[w]
  BY <1>1, <1>5, <1>6 DEF VCs
<1> QED BY <1>6, <1>7, <1>8, <1>9 DEF SoundChannels

(* Recovery keeps the channels sound, empties the ordinary channels that    *)
(* are flagged and leaves the others.                                       *)
LEMMA RecoverySound ==
  ASSUME SoundChannels(vcs), flags \in SUBSET VCs
  PROVE  /\ SoundChannels(AfterRecovery)
         /\ \A v \in VCs : v < EscapeBase =>
              AfterRecovery[v] = IF v \in flags THEN Idle ELSE vcs[v]
<1> USE DetectorAssumption
<1>1. PICK f : /\ AfterRecovery = f[NumVCs]
               /\ \A n \in 0 .. NumVCs : f[n] = LookedAt(f, n)
  BY RecoveryUnfolds
<1> DEFINE Kept(n) ==
             /\ SoundChannels(f[n])
             /\ \A v \in VCs : v < EscapeBase => f[n][v] = IF v \in flags /\ v < n THEN Idle ELSE vcs[v]
           T == {n \in 0 .. NumVCs : ~ Kept(n)}
<1>2. T = {}
  <2> SUFFICES ASSUME T # {} PROVE FALSE
    OBVIOUS
  <2>1. T \in SUBSET Nat
    OBVIOUS
  <2>2. PICK n \in T : \A m \in T : n <= m
    BY <2>1, LeastNumber
  <2>3. n \in 0 .. NumVCs /\ f[n] = LookedAt(f, n) /\ ~ Kept(n)
    BY <1>1, <2>2
  <2>4. n # 0
    <3>1. SUFFICES ASSUME n = 0 PROVE FALSE
      OBVIOUS
    <3>2. f[n] = vcs
      BY <2>3, <3>1 DEF LookedAt
    <3>3. Kept(n)
      BY <3>1, <3>2 DEF VCs
    <3> QED BY <2>3, <3>3
  <2>5. n - 1 \in 0 .. NumVCs /\ n - 1 \in VCs /\ Kept(n - 1)
    BY <2>2, <2>3, <2>4 DEF VCs
  <2>6. CASE n - 1 \notin flags
    <3>1. f[n] = f[n - 1]
      BY <2>3, <2>4, <2>6 DEF LookedAt
    <3>2. \A v \in VCs : v \in flags => (v < n <=> v < n - 1)
      BY <2>3, <2>6 DEF VCs
    <3>3. Kept(n)
      BY <2>5, <3>1, <3>2
    <3> QED BY <2>3, <3>3
  <2>7. CASE n - 1 \in flags
    <3>1. f[n] = Escaped(f[n - 1], n - 1)
      BY <2>3, <2>4, <2>7 DEF LookedAt
    <3>2. SoundChannels(f[n]) /\ f[n][n - 1] = Idle /\ \A w \in VCs \ {n - 1} : w < EscapeBase => f[n][w] = f[n - 1][w]
      <4>1. n - 1 \in VCs /\ SoundChannels(f[n - 1])
        BY <2>5, Zenon
      <4>2. /\ SoundChannels(Escaped(f[n - 1], n - 1)) /\ Escaped(f[n - 1], n - 1)[n - 1] = Idle
            /\ \A w \in VCs \ {n - 1} : w < EscapeBase => Escaped(f[n - 1], n - 1)[w] = f[n - 1][w]
        BY <4>1, EscapedSound
      <4> QED BY <3>1, <4>2, Zenon
    <3>3. \A v \in VCs : v # n - 1 => (v < n <=> v < n - 1)
      BY <2>3 DEF VCs
    <3>4. ASSUME NEW v \in VCs, v < EscapeBase
          PROVE  f[n][v] = IF v \in flags /\ v < n THEN Idle ELSE vcs[v]
      <4>1. CASE v = n - 1
        BY <2>3, <2>7, <3>2, <4>1
      <4>2. CASE v # n - 1
        BY <2>5, <3>2, <3>3, <3>4, <4>2
      <4> QED BY <4>1, <4>2
    <3>5. Kept(n)
      BY <3>2, <3>4
    <3> QED BY <2>3, <3>5
  <2> QED BY <2>6, <2>7
<1>3. Kept(NumVCs)
  BY <1>2
<1> QED BY <1>1, <1>3 DEF VCs
-----------------------------------------------------------------------------
(* The invariant behind the other two properties.  An ordinary channel is    *)
(* never anybody's escape, so what it counts is what its packet has waited.  *)
CountsOf(v) ==
  /\ vcs[v].state = "WAITING" => counter[v] <= waited[vcs[v].pkt]
  /\ vcs[v].state # "WAITING" /\ v \notin moved => counter[v] = 0

WaitInv ==
  /\ SoundChannels(vcs)
  /\ counter \in [VCs -> 0 .. MaxWait] /\ flags \in SUBSET VCs /\ moved \in SUBSET VCs
  /\ waited \in [Packets -> 0 .. MaxWait]
  /\ \A v \in VCs : v < EscapeBase => CountsOf(v)

(* One channel moves.                                                        *)
LEMMA MoveKeepsWaitInv ==
  ASSUME WaitInv, NEW v \in VCs, NEW from, NEW to, Move(v, from, to),
         to \in Contents, waited' \in [Packets -> 0 .. MaxWait],
         \A u \in VCs : to.pkt # NoPacket /\ vcs[u].pkt = to.pkt => u = v,
         to.state = "WAITING" => counter[v] <= waited'[to.pkt],
         \A u \in VCs \ {v} : vcs[u].state = "WAITING" => waited'[vcs[u].pkt] = waited[vcs[u].pkt]
  PROVE  WaitInv'
<1> USE DetectorAssumption
<1>1. vcs' = [vcs EXCEPT ![v] = to] /\ moved' = moved \cup {v} /\ counter' = counter /\ flags' = flags
  BY DEF Move
<1>2. vcs \in [VCs -> Contents]
  BY DEF WaitInv, SoundChannels
<1>3. vcs' \in [VCs -> Contents] /\ \A u \in VCs : vcs'[u] = IF u = v THEN to ELSE vcs[u]
  BY <1>1, <1>2
<1>4. \A t, u \in VCs : vcs'[t].pkt # NoPacket /\ vcs'[t].pkt = vcs'[u].pkt => t = u
  <2> SUFFICES ASSUME NEW t \in VCs, NEW u \in VCs, vcs'[t].pkt # NoPacket, vcs'[t].pkt = vcs'[u].pkt
               PROVE  t = u
    OBVIOUS
  <2>1. \A x, y \in VCs : vcs[x].pkt # NoPacket /\ vcs[x].pkt = vcs[y].pkt => x = y
    BY DEF WaitInv, SoundChannels
  <2> QED BY <1>3, <2>1
<1>5. SoundChannels(vcs)'
  BY <1>3, <1>4 DEF SoundChannels
<1>6. ASSUME NEW u \in VCs, u < EscapeBase PROVE CountsOf(u)'
  <2>1. CASE u = v
    BY <1>1, <1>3, <2>1 DEF CountsOf
  <2>2. CASE u # v
    <3>1. CountsOf(u)
      BY <1>6 DEF WaitInv
    <3>2. vcs'[u] = vcs[u] /\ counter'[u] = counter[u] /\ (u \notin moved' => u \notin moved)
      BY <1>1, <1>3, <2>2
    <3> QED BY <2>2, <3>1, <3>2 DEF CountsOf
  <2> QED BY <2>1, <2>2
<1> QED BY <1>1, <1>5, <1>6 DEF WaitInv

LEMMA UpdateKeepsWaitInv == WaitInv /\ Update => WaitInv'
<1> USE DetectorAssumption
<1> SUFFICES ASSUME WaitInv, Update PROVE WaitInv'
  OBVIOUS
<1>1. /\ vcs' = vcs /\ moved' = {}
      /\ \A v \in VCs : counter'[v] = NewCounter(v)
      /\ \A p \in Packets : waited'[p] = IF \E v \in Waiting : vcs[v].pkt = p
                                         THEN Capped(waited[p]) ELSE waited[p]
  BY DEF Update
<1>2. \A n \in 0 .. MaxWait : Capped(n) \in 0 .. MaxWait
  BY DEF Capped
<1>3. counter' \in [VCs -> 0 .. MaxWait]
  <2>1. \A v \in VCs : NewCounter(v) \in 0 .. MaxWait
    BY <1>2 DEF WaitInv, NewCounter
  <2> QED BY <2>1 DEF Update
<1>4. waited' \in [Packets -> 0 .. MaxWait]
  <2>1. \A p \in Packets : (IF \E v \in Waiting : vcs[v].pkt = p THEN Capped(waited[p]) ELSE waited[p])
                             \in 0 .. MaxWait
    BY <1>2 DEF WaitInv
  <2> QED BY <2>1 DEF Update
<1>5. flags' \in SUBSET VCs
  BY DEF Update, WaitInv, TimedOut, Waiting
<1>6. SoundChannels(vcs)'
  BY <1>1 DEF WaitInv, SoundChannels
<1>7. ASSUME NEW v \in VCs, v < EscapeBase PROVE CountsOf(v)'
  <2>1. CASE v \in Waiting
    <3>1. vcs[v].state = "WAITING" /\ vcs[v].pkt \in Packets
      BY <2>1 DEF Waiting, WaitInv, SoundChannels, Contents, Idle
    <3>2. counter[v] <= waited[vcs[v].pkt]
      BY <1>7, <3>1 DEF WaitInv, CountsOf
    <3>3. counter'[v] = Capped(counter[v]) /\ waited'[vcs[v].pkt] = Capped(waited[vcs[v].pkt])
      BY <1>1, <2>1, <3>1 DEF NewCounter
    <3>4. counter[v] \in 0 .. MaxWait /\ waited[vcs[v].pkt] \in 0 .. MaxWait
      BY <3>1 DEF WaitInv
    <3>5. counter'[v] <= waited'[vcs[v].pkt]
      BY <3>2, <3>3, <3>4 DEF Capped
    <3> QED BY <1>1, <3>1, <3>5 DEF CountsOf
  <2>2. CASE v \notin Waiting
    BY <1>1, <2>2 DEF Waiting, NewCounter, CountsOf
  <2> QED BY <2>1, <2>2
<1> QED BY <1>1, <1>3, <1>4, <1>5, <1>6, <1>7 DEF WaitInv

LEMMA WaitInvHolds == Spec => []WaitInv
<1> USE DetectorAssumption
<1>1. Init => WaitInv
  BY DEF Init, WaitInv, SoundChannels, Contents, Idle, CountsOf
<1>2. WaitInv /\ [Next]_vars => WaitInv'
  <2> SUFFICES ASSUME WaitInv, [Next]_vars PROVE WaitInv'
    OBVIOUS
  <2>1. vcs \in [VCs -> Contents] /\ waited \in [Packets -> 0 .. MaxWait]
    BY DEF WaitInv, SoundChannels
  <2>2. CASE Router
    <3>1. PICK v \in VCs : Proceed(v) \/ Finish(v) \/ \E p \in Packets : Start(v, p)
      BY <2>2 DEF Router
    <3>2. CASE Proceed(v)
      <4> DEFINE to == [state |-> "ACTIVE", pkt |-> vcs[v].pkt]
      <4>1. Move(v, "WAITING", to) /\ waited' = waited
        BY <3>2 DEF Proceed
      <4>2. to \in Contents
        BY <2>1, <4>1 DEF Move, Contents, Idle
      <4>3. \A u \in VCs : to.pkt # NoPacket /\ vcs[u].pkt = to.pkt => u = v
        BY DEF WaitInv, SoundChannels
      <4> QED BY <2>1, <4>1, <4>2, <4>3, MoveKeepsWaitInv
    <3>3. CASE Finish(v)
      <4>1. Move(v, "ACTIVE", Idle) /\ waited' = waited
        BY <3>3 DEF Finish
      <4>2. Idle \in Contents /\ Idle.pkt = NoPacket /\ Idle.state # "WAITING"
        BY DEF Contents, Idle
      <4> QED BY <2>1, <4>1, <4>2, MoveKeepsWaitInv
    <3>4. ASSUME NEW p \in Packets, Start(v, p) PROVE WaitInv'
      <4> DEFINE to == [state |-> "WAITING", pkt |-> p]
      <4>1. /\ Move(v, "IDLE", to) /\ v < EscapeBase
            /\ p \notin Held /\ waited' = [waited EXCEPT ![p] = 0]
        BY <3>4 DEF Start
      <4>2. to \in Contents
        BY DEF Contents
      <4>3. \A u \in VCs : vcs[u].pkt # p
        BY <4>1 DEF Held
      <4>4. counter[v] = 0
        BY <4>1 DEF Move, WaitInv, CountsOf
      <4>5. waited' \in [Packets -> 0 .. MaxWait] /\ waited'[p] = 0
        BY <2>1, <4>1
      <4>6. \A u \in VCs \ {v} : vcs[u].state = "WAITING" => waited'[vcs[u].pkt] = waited[vcs[u].pkt]
        BY <2>1, <4>1, <4>3 DEF Contents, Idle
      <4> QED BY <4>1, <4>2, <4>3, <4>4, <4>5, <4>6, MoveKeepsWaitInv
    <3> QED BY <3>1, <3>2, <3>3, <3>4
  <2>3. CASE Update
    BY <2>3, UpdateKeepsWaitInv
  <2>4. CASE Recover
    <3>1. /\ vcs' = AfterRecovery /\ flags' = {} /\ moved' = moved /\ waited' = waited
          /\ counter' = [v \in VCs |-> IF v \in flags THEN 0 ELSE counter[v]]
      BY <2>4 DEF Recover
    <3>2. /\ SoundChannels(AfterRecovery)
          /\ \A v \in VCs : v < EscapeBase => AfterRecovery[v] = IF v \in flags THEN Idle ELSE vcs[v]
      BY RecoverySound DEF WaitInv
    <3>3. ASSUME NEW v \in VCs, v < EscapeBase PROVE CountsOf(v)'
      <4>1. CountsOf(v)
        BY <3>3 DEF WaitInv
      <4>2. CASE v \in flags
        BY <3>1, <3>2, <3>3, <4>2 DEF CountsOf, Idle
      <4>3. CASE v \notin flags
        BY <3>1, <3>2, <3>3, <4>1, <4>3 DEF CountsOf
      <4> QED BY <4>2, <4>3
    <3>4. SoundChannels(vcs)'
      BY <3>1, <3>2 DEF SoundChannels
    <3> QED BY <3>1, <3>3, <3>4 DEF WaitInv
  <2>5. CASE UNCHANGED vars
    BY <2>5 DEF vars, WaitInv, SoundChannels, CountsOf
  <2> QED BY <2>2, <2>3, <2>4, <2>5 DEF Next
<1> QED BY <1>1, <1>2, PTL DEF Spec

(* For every number of channels and every layout of the escape channels, two *)
(* channels never hold the same packet, also when several flagged channels   *)
(* are moved to one escape channel.                                          *)
THEOREM PacketsStayUnique == Spec => []PacketsUnique
<1>1. WaitInv => PacketsUnique
  BY DEF WaitInv, SoundChannels, PacketsUnique
<1> QED BY <1>1, WaitInvHolds, PTL

(* A flag newly set on an ordinary channel stands for a wait of its packet.  *)
THEOREM AlarmsAreTrue == Spec => NoFalseAlarm
<1> USE DetectorAssumption
<1>1. WaitInv /\ [Next]_vars =>
        [Update => \A v \in flags' \ flags : v < EscapeBase => waited'[vcs[v].pkt] >= Threshold]_vars
  <2> SUFFICES ASSUME WaitInv, Update, NEW v \in flags' \ flags, v < EscapeBase
               PROVE  waited'[vcs[v].pkt] >= Threshold
    OBVIOUS
  <2>1. v \in TimedOut /\ v \in VCs
    BY DEF Update, TimedOut, Waiting
  <2>2. v \in Waiting /\ NewCounter(v) >= Threshold
    BY <2>1 DEF TimedOut
  <2>3. WaitInv' /\ vcs' = vcs /\ counter'[v] = NewCounter(v)
    BY <2>1, UpdateKeepsWaitInv DEF Update
  <2>4. CountsOf(v)'
    BY <2>1, <2>3 DEF WaitInv
  <2>5. counter'[v] <= waited'[vcs[v].pkt]
    BY <2>2, <2>3, <2>4 DEF CountsOf, Waiting
  <2>6. vcs[v].pkt \in Packets
    BY <2>1, <2>2 DEF Waiting, WaitInv, SoundChannels, Contents, Idle
  <2>7. counter'[v] \in Int /\ waited'[vcs[v].pkt] \in Int
    BY <2>1, <2>3, <2>6 DEF WaitInv
  <2> QED BY <2>2, <2>3, <2>5, <2>7
<1> QED BY <1>1, WaitInvHolds, PTL DEF Spec, NoFalseAlarm
=============================================================================
