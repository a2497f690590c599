--------------------------- MODULE NocRouter_proofs ---------------------------
(***************************************************************************)
(* Proofs about NocRouter for every number of ports, channels, slots and   *)
(* credits, every routing function and every set of destinations: types,   *)
(* conservation of flits, and the soundness of the switch under plain      *)
(* callers; and, for every number of slots, that the ring of slots         *)
(* implements FlitQueue.  And about NocFlowControl for every table of       *)
(* channels, every number of credits, packets and slots: credits are       *)
(* conserved, packets complete once, and the pool keeps its books, its     *)
(* ceilings and its minimum.                                               *)
(***************************************************************************)
EXTENDS NocRouter, NocFlowControl, FiniteSetTheorems, SequenceTheorems, WellFoundedInduction, TLAPS

(* Arithmetic modulo m, for the counters that wrap. *)
LEMMA UniqueRemainder ==
  ASSUME NEW m \in Nat \ {0}, NEW q \in Int, NEW p \in Int, NEW r \in 0 .. m - 1, NEW s \in 0 .. m - 1,
         m * q + r = m * p + s
  PROVE  r = s
<1>1. m * (q - p) = s - r
  OBVIOUS
<1>2. CASE q - p >= 1
  <2>1. m * (q - p) >= m
    BY <1>2
  <2> QED BY <2>1, <1>1
<1>3. CASE q - p <= -1
  <2>1. m * (q - p) <= - m
    BY <1>3
  <2> QED BY <2>1, <1>1
<1> QED BY <1>1, <1>2, <1>3

LEMMA Remainder ==
  ASSUME NEW m \in Nat \ {0}, NEW q \in Int, NEW r \in 0 .. m - 1
  PROVE  (m * q + r) % m = r
<1> DEFINE a == m * q + r
<1>1. a % m \in 0 .. m - 1 /\ a = (m * (a \div m)) + (a % m) /\ a \div m \in Int
  OBVIOUS
<1> QED BY <1>1, UniqueRemainder

LEMMA StepsWrap ==
  ASSUME NEW m \in Nat \ {0}, NEW a \in Int
  PROVE  /\ a % m \in 0 .. m - 1
         /\ (a + 1) % m = IF (a % m) + 1 = m THEN 0 ELSE (a % m) + 1
         /\ (a - 1) % m = IF a % m = 0 THEN m - 1 ELSE (a % m) - 1
<1> DEFINE q == a \div m
           r == a % m
<1>1. r \in 0 .. m - 1 /\ a = (m * q) + r /\ q \in Int
  OBVIOUS
<1> HIDE DEF q, r
<1>2. (a + 1) % m = IF r + 1 = m THEN 0 ELSE r + 1
  <2>1. CASE r + 1 = m
    <3>1. a + 1 = (m * (q + 1)) + 0 /\ 0 \in 0 .. m - 1
      BY <1>1, <2>1
    <3>2. ((m * (q + 1)) + 0) % m = 0
      BY <1>1, <3>1, Remainder
    <3> QED BY <2>1, <3>1, <3>2
  <2>2. CASE r + 1 # m
    <3>1. a + 1 = (m * q) + (r + 1) /\ r + 1 \in 0 .. m - 1
      BY <1>1, <2>2
    <3>2. ((m * q) + (r + 1)) % m = r + 1
      BY <1>1, <3>1, Remainder
    <3> QED BY <2>2, <3>1, <3>2
  <2> QED BY <2>1, <2>2
<1>3. (a - 1) % m = IF r = 0 THEN m - 1 ELSE r - 1
  <2>1. CASE r = 0
    <3>1. a - 1 = (m * (q - 1)) + (m - 1) /\ m - 1 \in 0 .. m - 1
      BY <1>1, <2>1
    <3>2. ((m * (q - 1)) + (m - 1)) % m = m - 1
      BY <1>1, <3>1, Remainder
    <3> QED BY <2>1, <3>1, <3>2
  <2>2. CASE r # 0
    <3>1. a - 1 = (m * q) + (r - 1) /\ r - 1 \in 0 .. m - 1
      BY <1>1, <2>2
    <3>2. ((m * q) + (r - 1)) % m = r - 1
      BY <1>1, <3>1, Remainder
    <3> QED BY <2>2, <3>1, <3>2
  <2> QED BY <2>1, <2>2
<1> QED BY <1>1, <1>2, <1>3 DEF r

LEMMA DifferenceWraps ==
  ASSUME NEW m \in Nat \ {0}, NEW a \in 0 .. m - 1, NEW b \in 0 .. m - 1
  PROVE  (a - b) % m = IF a >= b THEN a - b ELSE a - b + m
<1>1. CASE a >= b
  <2>1. a - b = (m * 0) + (a - b) /\ a - b \in 0 .. m - 1
    BY <1>1
  <2>2. ((m * 0) + (a - b)) % m = a - b
    BY <2>1, Remainder
  <2> QED BY <1>1, <2>1, <2>2
<1>2. CASE a < b
  <2>1. a - b = (m * (-1)) + (a - b + m) /\ a - b + m \in 0 .. m - 1
    BY <1>2
  <2>2. ((m * (-1)) + (a - b + m)) % m = a - b + m
    BY <2>1, Remainder
  <2> QED BY <1>2, <2>1, <2>2
<1> QED BY <1>1, <1>2

(* What Min of the community modules chooses. *)
LEMMA MinLemma ==
  ASSUME NEW S \in SUBSET Nat, S # {}
  PROVE  Min(S) \in S /\ \A x \in S : Min(S) <= x
<1> DEFINE less == {ss \in Nat \X Nat : ss[1] < ss[2]}
<1>1. IsWellFoundedOn(less, Nat)
  BY NatLessThanWellFounded, Zenon DEF OpToRel
<1>2. PICK x \in S : \A y \in S : ~ (<<y, x>> \in less)
  BY <1>1, WFMin
<1>3. ASSUME NEW y \in S PROVE x <= y
  <2>1. x \in Nat /\ y \in Nat
    OBVIOUS
  <2>2. y < x => <<y, x>> \in less
    BY <2>1
  <2> HIDE DEF less
  <2>3. ~ (y < x)
    BY <1>2, <2>2
  <2> QED BY <2>1, <2>3
<1> QED BY <1>3 DEF Min
-----------------------------------------------------------------------------
(* Types. *)
ChannelStates == [Ports -> [Vcs -> VCState]]
Buffers == {b \in [Vcs -> Seq(AnyFlit)] : \A v \in Vcs : Len(b[v]) <= FifoDepth}

LEMMA Sets ==
  /\ Ports \subseteq Nat /\ Vcs \subseteq Nat /\ Local \in Ports /\ Vcs # {}
  /\ None \notin Ports /\ None \notin Vcs
<1>1. 0 \in Ports /\ 0 \in Vcs /\ Ports \subseteq Nat /\ Vcs \subseteq Nat
  BY RouterAssumption DEF Ports, Vcs
<1>2. -1 \notin Nat
  OBVIOUS
<1> QED BY <1>1, <1>2 DEF Local, None

LEMMA SenderLemma ==
  ASSUME Active # {} PROVE Sender \in Vcs /\ Sender \in Active
<1>1. Active \in SUBSET Nat /\ Active \subseteq Vcs
  BY Sets DEF Active
<1> QED BY <1>1, MinLemma DEF Sender

LEMMA ReleaseType ==
  ASSUME vc \in ChannelStates, granted \in Ports \cup {None}, Sends
  PROVE  Release \in ChannelStates
<1> DEFINE w == vc[Local][Sender].outVc
           freed == IF w # None THEN [vc EXCEPT ![granted][w].state = "IDLE"] ELSE vc
<1>1. Sender \in Vcs /\ granted \in Ports /\ Local \in Ports
  BY SenderLemma, Sets DEF Sends
<1>2. vc[Local][Sender] \in VCState
  BY <1>1 DEF ChannelStates
<1>3. w \in Vcs \cup {None}
  BY <1>2 DEF VCState
<1>4. IdleVC \in VCState
  BY DEF IdleVC, VCState
<1> HIDE DEF w
<1>5. freed \in ChannelStates
  <2>1. CASE w # None
    <3>1. w \in Vcs /\ vc[granted] \in [Vcs -> VCState] /\ vc[granted][w] \in VCState
      BY <1>1, <1>3, <2>1 DEF ChannelStates
    <3>2. [vc[granted][w] EXCEPT !.state = "IDLE"] \in VCState
      BY <3>1 DEF VCState
    <3>3. freed = [vc EXCEPT ![granted] = [vc[granted] EXCEPT ![w] = [vc[granted][w] EXCEPT !.state = "IDLE"]]]
      BY <2>1
    <3> DEFINE x == [vc[granted][w] EXCEPT !.state = "IDLE"]
    <3> HIDE DEF x
    <3>4. [vc[granted] EXCEPT ![w] = x] \in [Vcs -> VCState]
      BY <3>1, <3>2 DEF x
    <3> QED BY <1>1, <3>3, <3>4 DEF x, ChannelStates
  <2> QED BY <2>1
<1>6. Release = [freed EXCEPT ![Local][Sender] = IdleVC]
  BY DEF Release, w
<1> HIDE DEF freed
<1> QED BY <1>1, <1>4, <1>5, <1>6 DEF ChannelStates

LEMMA STType ==
  ASSUME vc \in ChannelStates, buf \in Buffers, granted \in Ports \cup {None}
  PROVE  AfterST \in ChannelStates /\ BufAfterST \in Buffers
<1>1. AfterST \in ChannelStates
  BY ReleaseType DEF AfterST
<1>2. CASE Sends
  <2>1. Sender \in Vcs /\ buf[Sender] \in Seq(AnyFlit) /\ buf[Sender] # <<>>
    BY <1>2, SenderLemma DEF Sends, Active, Buffers
  <2> DEFINE t == Tail(buf[Sender])
  <2>2. t \in Seq(AnyFlit) /\ Len(t) <= FifoDepth
    <3>1. Len(buf[Sender]) \in Nat /\ Len(buf[Sender]) <= FifoDepth /\ Len(t) = Len(buf[Sender]) - 1
      BY <2>1, HeadTailProperties DEF Buffers
    <3> QED BY <2>1, <3>1, HeadTailProperties, RouterAssumption
  <2>3. BufAfterST = [buf EXCEPT ![Sender] = t]
    BY <1>2 DEF BufAfterST
  <2> HIDE DEF t
  <2> QED BY <1>1, <2>1, <2>2, <2>3 DEF Buffers
<1>3. CASE ~ Sends
  BY <1>1, <1>3 DEF BufAfterST
<1> QED BY <1>2, <1>3

LEMMA WinnerLemma ==
  ASSUME NEW c \in ChannelStates, NEW b, Asking(c, b) # {}
  PROVE  Winner(c, b) \in Asking(c, b) /\ Winner(c, b) \in Vcs
<1> DEFINE outs == {c[Local][v].outPort : v \in Asking(c, b)}
           lowest == Min(outs)
           first == {v \in Asking(c, b) : c[Local][v].outPort = lowest}
<1>1. \A v \in Asking(c, b) : v \in Vcs /\ c[Local][v].outPort \in Ports
  BY Sets DEF Asking, ChannelStates, VCState
<1>2. outs \in SUBSET Nat /\ outs # {}
  BY <1>1, Sets
<1>3. lowest \in outs
  BY <1>2, MinLemma
<1>4. first \in SUBSET Nat /\ first # {}
  BY <1>1, <1>3, Sets
<1>5. Min(first) \in first
  BY <1>4, MinLemma
<1> QED BY <1>1, <1>5 DEF Winner

LEMMA SAType ==
  ASSUME NEW c \in ChannelStates, NEW b
  PROVE  AfterSA(c, b) \in ChannelStates /\ GrantAfterSA(c, b) \in Ports \cup {None}
<1>1. CASE Asking(c, b) = {}
  BY <1>1 DEF AfterSA, GrantAfterSA
<1>2. CASE Asking(c, b) # {}
  <2> DEFINE n == Winner(c, b)
  <2>1. n \in Vcs /\ c[Local] \in [Vcs -> VCState] /\ c[Local][n] \in VCState /\ Local \in Ports
    BY <1>2, WinnerLemma, Sets DEF ChannelStates
  <2> DEFINE x == [c[Local][n] EXCEPT !.state = "ACTIVE"]
  <2>2. x \in VCState
    BY <2>1 DEF VCState
  <2>3. AfterSA(c, b) = [c EXCEPT ![Local] = [c[Local] EXCEPT ![n] = x]]
    BY <1>2 DEF AfterSA
  <2>4. GrantAfterSA(c, b) = c[Local][n].outPort
    BY <1>2 DEF GrantAfterSA
  <2> HIDE DEF x, n
  <2>5. [c[Local] EXCEPT ![n] = x] \in [Vcs -> VCState]
    BY <2>1, <2>2
  <2> QED BY <2>1, <2>3, <2>4, <2>5 DEF ChannelStates, VCState
<1> QED BY <1>1, <1>2

LEMMA OfferedLemma ==
  ASSUME NEW c, NEW v, Offered(c, v) # {}
  PROVE  Min(Offered(c, v)) \in Offered(c, v) /\ Min(Offered(c, v)) \in Vcs
<1>1. Offered(c, v) \in SUBSET Vcs
  BY DEF Offered
<1> QED BY <1>1, Sets, MinLemma

LEMMA VAType ==
  ASSUME NEW c \in ChannelStates
  PROVE  AfterVA(c) \in ChannelStates
<1> SUFFICES ASSUME NEW p \in Ports, NEW v \in Vcs PROVE AfterVA(c)[p][v] \in VCState
  BY DEF AfterVA, ChannelStates
<1>1. c[p][v] \in VCState
  BY DEF ChannelStates
<1>2. CASE p = Local /\ c[p][v].state = "ROUTING" /\ Offered(c, v) # {}
  <2>1. Min(Offered(c, v)) \in Vcs
    BY <1>2, OfferedLemma
  <2> DEFINE w == Min(Offered(c, v))
  <2>2. AfterVA(c)[p][v] = [c[p][v] EXCEPT !.state = "WAITING", !.outVc = w]
    BY <1>2 DEF AfterVA
  <2> HIDE DEF w
  <2>3. [c[p][v] EXCEPT !.state = "WAITING", !.outVc = w] \in VCState
    BY <1>1, <2>1 DEF VCState, w
  <2> QED BY <2>2, <2>3
<1>3. CASE ~ (p = Local /\ c[p][v].state = "ROUTING" /\ Offered(c, v) # {})
  <2>1. AfterVA(c)[p][v] \in {[c[p][v] EXCEPT !.state = "WAITING"], c[p][v]}
    BY <1>3 DEF AfterVA
  <2>2. [c[p][v] EXCEPT !.state = "WAITING"] \in VCState
    BY <1>1 DEF VCState
  <2> QED BY <1>1, <2>1, <2>2
<1> QED BY <1>2, <1>3

LEMMA RCType ==
  ASSUME NEW c \in ChannelStates, NEW b \in Buffers
  PROVE  AfterRC(c, b) \in ChannelStates
<1> DEFINE opens(v) == b[v] # <<>> /\ Head(b[v]).type \in {"head", "single"}
           new(v) == IF c[Local][v].state = "IDLE" /\ opens(v) /\ Route[Head(b[v]).dst] # None
                     THEN [c[Local][v] EXCEPT !.state = "ROUTING", !.outPort = Route[Head(b[v]).dst]]
                     ELSE c[Local][v]
<1>1. Local \in Ports /\ c[Local] \in [Vcs -> VCState]
  BY Sets DEF ChannelStates
<1>2. ASSUME NEW v \in Vcs PROVE new(v) \in VCState
  <2>1. c[Local][v] \in VCState
    BY <1>1
  <2>2. CASE c[Local][v].state = "IDLE" /\ opens(v) /\ Route[Head(b[v]).dst] # None
    <3>1. Head(b[v]) \in AnyFlit
      BY <2>2, HeadTailProperties DEF Buffers
    <3> DEFINE o == Route[Head(b[v]).dst]
    <3>2. o \in Ports
      BY <2>2, <3>1, RouterAssumption DEF AnyFlit
    <3>3. new(v) = [c[Local][v] EXCEPT !.state = "ROUTING", !.outPort = o]
      BY <2>2
    <3> HIDE DEF o, new
    <3>4. [c[Local][v] EXCEPT !.state = "ROUTING", !.outPort = o] \in VCState
      BY <2>1, <3>2 DEF VCState
    <3> QED BY <3>3, <3>4
  <2>3. CASE ~ (c[Local][v].state = "IDLE" /\ opens(v) /\ Route[Head(b[v]).dst] # None)
    BY <2>1, <2>3
  <2> QED BY <2>2, <2>3
<1>3. AfterRC(c, b) = [c EXCEPT ![Local] = [v \in Vcs |-> new(v)]]
  BY DEF AfterRC
<1> HIDE DEF new
<1>4. [v \in Vcs |-> new(v)] \in [Vcs -> VCState]
  BY <1>2
<1> QED BY <1>1, <1>3, <1>4 DEF ChannelStates

(* A cycle, stage by stage: what LT .. RC leave. *)
LEMMA CycleStages ==
  ASSUME Cycle
  PROVE  LET sa == AfterSA(AfterST, BufAfterST)
         IN /\ credits' = LT(credits) /\ buf' = BufAfterST
            /\ granted' = GrantAfterSA(AfterST, BufAfterST)
            /\ vc' = AfterRC(AfterVA(sa), BufAfterST)
            /\ flitsOut' = IF Sends THEN (flitsOut + 1) % CounterMod ELSE flitsOut
            /\ UNCHANGED <<flitsIn, open>>
BY Zenon DEF Cycle

TypeInv ==
  /\ vc \in ChannelStates /\ credits \in [Ports -> [Vcs -> 0 .. MaxCredits]]
  /\ buf \in Buffers
  /\ granted \in Ports \cup {None}
  /\ flitsIn \in 0 .. CounterMod - 1 /\ flitsOut \in 0 .. CounterMod - 1
  /\ plain \in BOOLEAN

LEMMA TypesAgree == TypeOK <=> TypeInv
BY DEF TypeOK, TypeInv, ChannelStates, Buffers

LEMMA CounterStep ==
  ASSUME NEW n \in 0 .. CounterMod - 1
  PROVE  (n + 1) % CounterMod = (IF n + 1 = CounterMod THEN 0 ELSE n + 1)
         /\ (n + 1) % CounterMod \in 0 .. CounterMod - 1
<1>1. CounterMod \in Nat \ {0} /\ n \in Int
  BY RouterAssumption
<1>2. n % CounterMod = n
  <2>1. n - 0 = n /\ 0 \in 0 .. CounterMod - 1 /\ n >= 0
    BY <1>1
  <2>2. (n - 0) % CounterMod = n - 0
    BY <1>1, <2>1, DifferenceWraps
  <2> QED BY <2>1, <2>2
<1>3. /\ n % CounterMod \in 0 .. CounterMod - 1
      /\ (n + 1) % CounterMod = IF (n % CounterMod) + 1 = CounterMod THEN 0 ELSE (n % CounterMod) + 1
  BY <1>1, StepsWrap
<1> DEFINE k == (n + 1) % CounterMod
<1>4. k = IF n + 1 = CounterMod THEN 0 ELSE n + 1
  BY <1>2, <1>3
<1> HIDE DEF k
<1>5. k = (IF n + 1 = CounterMod THEN 0 ELSE n + 1) /\ k \in 0 .. CounterMod - 1
  BY <1>1, <1>4
<1> QED BY <1>5 DEF k

LEMMA TypeInit == Init => TypeInv
<1> SUFFICES ASSUME Init PROVE TypeInv
  OBVIOUS
<1>1. IdleVC \in VCState
  BY DEF IdleVC, VCState
<1>2. vc \in ChannelStates
  BY <1>1 DEF Init, Fresh, ChannelStates
<1>3. credits \in [Ports -> [Vcs -> 0 .. MaxCredits]]
  BY RouterAssumption DEF Init, Fresh
<1>4. buf \in Buffers
  <2>1. <<>> \in Seq(AnyFlit) /\ Len(<<>>) = 0
    OBVIOUS
  <2> QED BY <2>1, RouterAssumption DEF Init, Buffers
<1>5. 0 \in 0 .. CounterMod - 1
  BY RouterAssumption
<1> QED BY <1>2, <1>3, <1>4, <1>5 DEF Init, TypeInv

LEMMA TypeStep == TypeInv /\ [Next]_vars => TypeInv'
<1> SUFFICES ASSUME TypeInv, [Next]_vars PROVE TypeInv'
  OBVIOUS
<1> USE DEF TypeInv
<1>1. ASSUME Cycle, UNCHANGED plain PROVE TypeInv'
  <2>1. AfterST \in ChannelStates /\ BufAfterST \in Buffers
    BY STType
  <2>2. AfterSA(AfterST, BufAfterST) \in ChannelStates
        /\ GrantAfterSA(AfterST, BufAfterST) \in Ports \cup {None}
    BY <2>1, SAType
  <2>3. vc' \in ChannelStates /\ buf' \in Buffers /\ granted' \in Ports \cup {None}
    BY <1>1, <2>1, <2>2, VAType, RCType, CycleStages
  <2>4. credits' \in [Ports -> [Vcs -> 0 .. MaxCredits]]
    BY <1>1, CycleStages, RouterAssumption DEF LT
  <2>5. flitsOut' \in 0 .. CounterMod - 1 /\ flitsIn' = flitsIn
    BY <1>1, CycleStages, CounterStep
  <2> QED BY <1>1, <2>3, <2>4, <2>5
<1>2. ASSUME NEW v \in Vcs, NEW f \in AnyFlit, Inject(v, f), UNCHANGED plain PROVE TypeInv'
  <2>1. buf' = [buf EXCEPT ![v] = Append(buf[v], f)] /\ Len(buf[v]) < FifoDepth
        /\ flitsIn' = (flitsIn + 1) % CounterMod
        /\ UNCHANGED <<vc, credits, granted, flitsOut, plain>>
    BY <1>2 DEF Inject, Room
  <2> DEFINE q == Append(buf[v], f)
  <2>2. q \in Seq(AnyFlit) /\ Len(q) <= FifoDepth
    <3>1. buf[v] \in Seq(AnyFlit) /\ Len(buf[v]) \in Nat
      BY DEF Buffers
    <3> QED BY <2>1, <3>1, AppendProperties, RouterAssumption
  <2>3. buf' = [buf EXCEPT ![v] = q]
    BY <2>1
  <2> HIDE DEF q
  <2>4. buf' \in Buffers
    BY <2>2, <2>3 DEF Buffers
  <2> QED BY <2>1, <2>4, CounterStep
<1>3. ASSUME Eject, UNCHANGED plain PROVE TypeInv'
  <2> DEFINE v == Min(Buffered)
             t == Tail(buf[v])
  <2>1. v \in Vcs /\ buf[v] # <<>>
    <3>1. Buffered \in SUBSET Nat /\ Buffered # {} /\ Buffered \subseteq Vcs
      BY <1>3, Sets DEF Eject, Buffered
    <3>2. Min(Buffered) \in Buffered
      BY <3>1, MinLemma
    <3> QED BY <3>1, <3>2 DEF Buffered
  <2>2. t \in Seq(AnyFlit) /\ Len(t) <= FifoDepth
    <3>1. Len(buf[v]) \in Nat /\ Len(buf[v]) <= FifoDepth /\ Len(t) = Len(buf[v]) - 1
      BY <2>1, HeadTailProperties DEF Buffers
    <3> QED BY <2>1, <3>1, HeadTailProperties, RouterAssumption DEF Buffers
  <2>3. buf' = [buf EXCEPT ![v] = t] /\ flitsOut' = (flitsOut + 1) % CounterMod
        /\ UNCHANGED <<vc, credits, granted, flitsIn, plain>>
    BY <1>3 DEF Eject
  <2> HIDE DEF v, t
  <2>4. buf' \in Buffers
    BY <2>1, <2>2, <2>3 DEF Buffers
  <2> QED BY <2>3, <2>4, CounterStep
<1>4. ASSUME Reset, UNCHANGED plain PROVE TypeInv'
  <2>1. IdleVC \in VCState
    BY DEF IdleVC, VCState
  <2>2. vc' \in ChannelStates
    BY <1>4, <2>1 DEF Reset, Fresh, ChannelStates
  <2>3. credits' \in [Ports -> [Vcs -> 0 .. MaxCredits]]
    BY <1>4, RouterAssumption DEF Reset, Fresh
  <2>4. buf' \in Buffers
    <3>1. <<>> \in Seq(AnyFlit) /\ Len(<<>>) = 0
      OBVIOUS
    <3> QED BY <1>4, <3>1, RouterAssumption DEF Reset, Buffers
  <2>5. 0 \in 0 .. CounterMod - 1
    BY RouterAssumption
  <2> QED BY <1>4, <2>2, <2>3, <2>4, <2>5 DEF Reset
<1>5. ASSUME NEW p \in Ports, NEW v \in Vcs, UNCHANGED plain,
             ConsumeCredit(p, v) \/ ReturnCredit(p, v)
      PROVE  TypeInv'
  <2>1. UNCHANGED <<vc, buf, granted, flitsIn, flitsOut, plain>>
    BY <1>5 DEF ConsumeCredit, ReturnCredit
  <2>2. credits[p][v] \in 0 .. MaxCredits
    OBVIOUS
  <2>3. PICK n \in 0 .. MaxCredits : credits' = [credits EXCEPT ![p][v] = n]
    <3>1. CASE ConsumeCredit(p, v)
      <4> DEFINE k == credits[p][v] - 1
      <4>1. k \in 0 .. MaxCredits
        BY <2>2, <3>1, RouterAssumption DEF ConsumeCredit
      <4>2. credits' = [credits EXCEPT ![p][v] = k]
        BY <3>1 DEF ConsumeCredit
      <4> HIDE DEF k
      <4> QED BY <4>1, <4>2
    <3>2. CASE ReturnCredit(p, v)
      <4> DEFINE k == credits[p][v] + 1
      <4>1. k \in 0 .. MaxCredits
        BY <2>2, <3>2, RouterAssumption DEF ReturnCredit
      <4>2. credits' = [credits EXCEPT ![p][v] = k]
        BY <3>2 DEF ReturnCredit
      <4> HIDE DEF k
      <4> QED BY <4>1, <4>2
    <3> QED BY <1>5, <3>1, <3>2
  <2>4. credits' \in [Ports -> [Vcs -> 0 .. MaxCredits]]
    BY <2>3
  <2> QED BY <2>1, <2>4
<1>6. CASE UNCHANGED vars
  BY <1>6 DEF vars
<1>7. ASSUME Disturb, UNCHANGED plain PROVE TypeInv'
  <2>1. ASSUME NEW ch \in CreditUsers, ConsumeCredit(ch[1], ch[2]) \/ ReturnCredit(ch[1], ch[2])
        PROVE  TypeInv'
    <3>1. ch[1] \in Ports /\ ch[2] \in Vcs
      BY RouterAssumption
    <3> QED BY <1>5, <1>7, <2>1, <3>1
  <2> QED BY <1>3, <1>4, <1>7, <2>1 DEF Disturb
<1> QED BY <1>1, <1>2, <1>6, <1>7 DEF Next

(* For every router and all callers, plain or not: noc_router_inject_flit, *)
(* _eject_flit, _cycle, _reset and the credit calls keep every channel     *)
(* state, credit count, buffer and grant in its range.                     *)
THEOREM RouterTypes == Spec => []TypeOK
<1>1. Init => TypeInv
  BY TypeInit
<1>2. TypeInv /\ [Next]_vars => TypeInv'
  BY TypeStep
<1> QED BY <1>1, <1>2, TypesAgree, PTL DEF Spec
-----------------------------------------------------------------------------
(* Conservation of flits. *)
StoredIn(b) == {s \in Vcs \X (1 .. FifoDepth) : s[2] <= Len(b[s[1]])}

LEMMA StoredFinite ==
  ASSUME NEW b PROVE IsFiniteSet(StoredIn(b)) /\ Cardinality(StoredIn(b)) \in Nat
<1>1. IsFiniteSet(Vcs) /\ IsFiniteSet(1 .. FifoDepth)
  BY FS_Interval, RouterAssumption DEF Vcs
<1>2. IsFiniteSet(Vcs \X (1 .. FifoDepth))
  BY <1>1, FS_Product
<1>3. StoredIn(b) \in SUBSET (Vcs \X (1 .. FifoDepth))
  BY DEF StoredIn
<1> QED BY <1>2, <1>3, FS_Subset, FS_CardinalityType

(* One buffer one flit longer: one flit more is stored. *)
LEMMA StoredGrows ==
  ASSUME NEW b, NEW d, NEW v \in Vcs, Len(b[v]) \in Nat, Len(b[v]) < FifoDepth,
         Len(d[v]) = Len(b[v]) + 1, \A u \in Vcs \ {v} : d[u] = b[u]
  PROVE  Cardinality(StoredIn(d)) = Cardinality(StoredIn(b)) + 1
<1> DEFINE s == <<v, Len(b[v]) + 1>>
<1>1. StoredIn(d) = StoredIn(b) \cup {s}
  BY RouterAssumption DEF StoredIn
<1>2. s \notin StoredIn(b)
  BY DEF StoredIn
<1> HIDE DEF s
<1> QED BY <1>1, <1>2, StoredFinite, FS_AddElement

ConservedInv == TypeInv /\ FlitsConserved

(* A flit more on both sides of the equation, or one less. *)
LEMMA BooksBalance ==
  ASSUME NEW i \in 0 .. CounterMod - 1, NEW o \in 0 .. CounterMod - 1, NEW n \in Nat,
         (i - o) % CounterMod = n % CounterMod
  PROVE  /\ (((i + 1) % CounterMod) - o) % CounterMod = (n + 1) % CounterMod
         /\ (i - ((o + 1) % CounterMod)) % CounterMod = (n - 1) % CounterMod
<1> DEFINE m == CounterMod
<1>1. m \in Nat \ {0} /\ n \in Int
  BY RouterAssumption
<1> DEFINE r == n % m
           i1 == (i + 1) % m
           o1 == (o + 1) % m
<1>2. /\ i1 = (IF i + 1 = m THEN 0 ELSE i + 1) /\ i1 \in 0 .. m - 1
      /\ o1 = (IF o + 1 = m THEN 0 ELSE o + 1) /\ o1 \in 0 .. m - 1
  BY CounterStep
<1>3. /\ r \in 0 .. m - 1
      /\ (n + 1) % m = IF r + 1 = m THEN 0 ELSE r + 1
      /\ (n - 1) % m = IF r = 0 THEN m - 1 ELSE r - 1
  BY <1>1, StepsWrap
<1>4. r = IF i >= o THEN i - o ELSE i - o + m
  BY <1>1, DifferenceWraps
<1>5. (i1 - o) % m = IF i1 >= o THEN i1 - o ELSE i1 - o + m
  BY <1>1, <1>2, DifferenceWraps
<1>6. (i - o1) % m = IF i >= o1 THEN i - o1 ELSE i - o1 + m
  BY <1>1, <1>2, DifferenceWraps
<1> DEFINE up == (n + 1) % m
           down == (n - 1) % m
           left == (i1 - o) % m
           right == (i - o1) % m
<1> SUFFICES left = up /\ right = down
  OBVIOUS
<1>7. /\ up = (IF r + 1 = m THEN 0 ELSE r + 1) /\ down = (IF r = 0 THEN m - 1 ELSE r - 1)
      /\ left = (IF i1 >= o THEN i1 - o ELSE i1 - o + m)
      /\ right = (IF i >= o1 THEN i - o1 ELSE i - o1 + m)
  BY <1>3, <1>5, <1>6
<1>8. r \in 0 .. m - 1
  BY <1>3
<1> HIDE DEF up, down, left, right, r, i1, o1, m
<1>9. i \in 0 .. m - 1 /\ o \in 0 .. m - 1
  BY DEF m
<1> QED BY <1>1, <1>2, <1>4, <1>7, <1>8, <1>9

LEMMA ConservedStep == ConservedInv /\ [Next]_vars => ConservedInv'
<1> SUFFICES ASSUME ConservedInv, [Next]_vars PROVE FlitsConserved'
  BY TypeStep DEF ConservedInv
<1>0. /\ TypeInv /\ buf \in Buffers /\ CounterMod \in Nat \ {0} /\ FifoDepth \in Nat
      /\ flitsIn \in 0 .. CounterMod - 1 /\ flitsOut \in 0 .. CounterMod - 1
      /\ (flitsIn - flitsOut) % CounterMod = Cardinality(StoredIn(buf)) % CounterMod
  BY RouterAssumption DEF ConservedInv, TypeInv, FlitsConserved, Stored, StoredIn
<1> SUFFICES (flitsIn' - flitsOut') % CounterMod = Cardinality(StoredIn(buf')) % CounterMod
  BY DEF FlitsConserved, Stored, StoredIn
<1> DEFINE n == Cardinality(StoredIn(buf))
<1>1. n \in Nat
  BY StoredFinite
<1>2. ASSUME NEW v \in Vcs, NEW f \in AnyFlit, Inject(v, f)
      PROVE  (flitsIn' - flitsOut') % CounterMod = Cardinality(StoredIn(buf')) % CounterMod
  <2>1. /\ buf' = [buf EXCEPT ![v] = Append(buf[v], f)] /\ Len(buf[v]) < FifoDepth
        /\ flitsIn' = (flitsIn + 1) % CounterMod /\ flitsOut' = flitsOut
    BY <1>2 DEF Inject, Room
  <2>2. buf[v] \in Seq(AnyFlit) /\ Len(buf[v]) \in Nat
    BY <1>0 DEF Buffers
  <2>3. Len(buf'[v]) = Len(buf[v]) + 1 /\ \A u \in Vcs \ {v} : buf'[u] = buf[u]
    BY <1>0, <2>1, <2>2, AppendProperties DEF Buffers
  <2>4. Cardinality(StoredIn(buf')) = n + 1
    BY <2>1, <2>2, <2>3, StoredGrows
  <2>5. (((flitsIn + 1) % CounterMod) - flitsOut) % CounterMod = (n + 1) % CounterMod
    <3> HIDE DEF n
    <3> QED BY <1>0, <1>1, BooksBalance DEF n
  <2> QED BY <2>1, <2>4, <2>5
<1>3. ASSUME NEW v \in Vcs, buf[v] # <<>>, buf' = [buf EXCEPT ![v] = Tail(buf[v])],
             flitsIn' = flitsIn, flitsOut' = (flitsOut + 1) % CounterMod
      PROVE  (flitsIn' - flitsOut') % CounterMod = Cardinality(StoredIn(buf')) % CounterMod
  <2>1. buf[v] \in Seq(AnyFlit) /\ Len(buf[v]) \in Nat /\ Len(buf[v]) <= FifoDepth
    BY <1>0 DEF Buffers
  <2>2. Len(Tail(buf[v])) = Len(buf[v]) - 1 /\ Len(buf[v]) > 0
    BY <1>3, <2>1, HeadTailProperties, EmptySeq
  <2>3. buf'[v] = Tail(buf[v]) /\ \A u \in Vcs \ {v} : buf[u] = buf'[u]
    BY <1>0, <1>3 DEF Buffers
  <2>4. Len(buf'[v]) \in Nat /\ Len(buf'[v]) < FifoDepth /\ Len(buf[v]) = Len(buf'[v]) + 1
    BY <2>1, <2>2, <2>3, <1>0
  <2>5. n = Cardinality(StoredIn(buf')) + 1
    BY <2>3, <2>4, StoredGrows
  <2> DEFINE k == Cardinality(StoredIn(buf'))
  <2>6. k \in Nat
    BY StoredFinite
  <2> HIDE DEF n, k
  <2>7. k = n - 1
    BY <1>1, <2>5, <2>6 DEF k
  <2>8. (flitsIn - ((flitsOut + 1) % CounterMod)) % CounterMod = (n - 1) % CounterMod
    BY <1>0, <1>1, BooksBalance DEF n
  <2> QED BY <1>3, <2>7, <2>8 DEF k
<1>4. ASSUME Cycle
      PROVE  (flitsIn' - flitsOut') % CounterMod = Cardinality(StoredIn(buf')) % CounterMod
  <2>1. CASE Sends
    <3>1. Sender \in Vcs /\ buf[Sender] # <<>>
      BY <2>1, SenderLemma DEF Sends, Active
    <3>2. /\ buf' = [buf EXCEPT ![Sender] = Tail(buf[Sender])]
          /\ flitsIn' = flitsIn /\ flitsOut' = (flitsOut + 1) % CounterMod
      BY <1>4, <2>1, CycleStages DEF BufAfterST
    <3> QED BY <1>3, <3>1, <3>2
  <2>2. CASE ~ Sends
    <3>1. buf' = buf /\ flitsIn' = flitsIn /\ flitsOut' = flitsOut
      BY <1>4, <2>2, CycleStages DEF BufAfterST
    <3> QED BY <1>0, <3>1
  <2> QED BY <2>1, <2>2
<1>5. ASSUME Eject
      PROVE  (flitsIn' - flitsOut') % CounterMod = Cardinality(StoredIn(buf')) % CounterMod
  <2> DEFINE v == Min(Buffered)
  <2>1. v \in Vcs /\ buf[v] # <<>>
    <3>1. Buffered \in SUBSET Nat /\ Buffered # {} /\ Buffered \subseteq Vcs
      BY <1>5, Sets DEF Eject, Buffered
    <3>2. Min(Buffered) \in Buffered
      BY <3>1, MinLemma
    <3> QED BY <3>1, <3>2 DEF Buffered
  <2>2. /\ buf' = [buf EXCEPT ![v] = Tail(buf[v])]
        /\ flitsIn' = flitsIn /\ flitsOut' = (flitsOut + 1) % CounterMod
    BY <1>5 DEF Eject
  <2> HIDE DEF v
  <2> QED BY <1>3, <2>1, <2>2
<1>6. ASSUME Reset
      PROVE  (flitsIn' - flitsOut') % CounterMod = Cardinality(StoredIn(buf')) % CounterMod
  <2>1. buf' = [v \in Vcs |-> <<>>] /\ flitsIn' = 0 /\ flitsOut' = 0
    BY <1>6 DEF Reset
  <2>2. StoredIn(buf') = {}
    BY <2>1, <1>0 DEF StoredIn
  <2> QED BY <2>1, <2>2, FS_EmptySet
<1>7. ASSUME UNCHANGED <<buf, flitsIn, flitsOut>>
      PROVE  (flitsIn' - flitsOut') % CounterMod = Cardinality(StoredIn(buf')) % CounterMod
  BY <1>0, <1>7
<1>8. ASSUME Disturb
      PROVE  (flitsIn' - flitsOut') % CounterMod = Cardinality(StoredIn(buf')) % CounterMod
  BY <1>5, <1>6, <1>7, <1>8 DEF Disturb, ConsumeCredit, ReturnCredit
<1> QED BY <1>2, <1>4, <1>7, <1>8 DEF Next, vars

(* For every router, every modulus of its counters and all callers: what   *)
(* came in and has not gone out is in the buffers, in every order of       *)
(* noc_router_inject_flit, _eject_flit, _cycle and _reset.                 *)
THEOREM RouterConserves == Spec => []FlitsConserved
<1>1. Init => ConservedInv
  <2> SUFFICES ASSUME Init PROVE FlitsConserved
    BY TypeInit DEF ConservedInv
  <2>1. Stored = {}
    BY RouterAssumption DEF Init, Stored
  <2> QED BY <2>1, FS_EmptySet DEF Init, FlitsConserved
<1>2. ConservedInv /\ [Next]_vars => ConservedInv'
  BY ConservedStep
<1>3. ConservedInv => FlitsConserved
  BY DEF ConservedInv
<1> QED BY <1>1, <1>2, <1>3, PTL DEF Spec
-----------------------------------------------------------------------------
(* The switch under plain callers.                                         *)
(***************************************************************************)
(* The inductive invariant.  Its parts are stated of the channel states c  *)
(* and buffers b that one stage of a cycle hands to the next, so that each *)
(* stage can be shown to keep them.                                        *)
(***************************************************************************)
SinglesOnly(b) ==
  \A v \in Vcs : \A i \in 1 .. Len(b[v]) : b[v][i].type = "single" /\ Route[b[v][i].dst] # Local

Holds(c, v) == c[Local][v].state \in {"WAITING", "ACTIVE"}

(* A channel that is not idle has the route of its oldest flit; one that   *)
(* waits or sends also has a channel of its output port, which is taken.   *)
LocalInv(c, b) ==
  \A v \in Vcs :
    /\ c[Local][v].state = "IDLE" => c[Local][v].outPort = None
    /\ c[Local][v].state # "IDLE" =>
         /\ b[v] # <<>>
         /\ c[Local][v].outPort = Route[b[v][1].dst]
         /\ c[Local][v].outPort \in Ports \ {Local}
    /\ Holds(c, v) => /\ c[Local][v].outVc \in Vcs
                      /\ c[c[Local][v].outPort][c[Local][v].outVc].state # "IDLE"
    /\ ~ Holds(c, v) => c[Local][v].outVc = None

(* The channels of the other ports are only ever reserved, by a holder.    *)
RemoteInv(c) ==
  \A p \in Ports \ {Local}, w \in Vcs :
    c[p][w].state # "IDLE" =>
      \E v \in Vcs : Holds(c, v) /\ c[Local][v].outPort = p /\ c[Local][v].outVc = w

ExclusiveInv(c) ==
  \A u, v \in Vcs :
    Holds(c, u) /\ Holds(c, v) /\ c[Local][u].outPort = c[Local][v].outPort
      /\ c[Local][u].outVc = c[Local][v].outVc => u = v

StageInv(c, b) == SinglesOnly(b) /\ LocalInv(c, b) /\ RemoteInv(c) /\ ExclusiveInv(c)

(* Between cycles at most one channel is active, and the crossbar is set   *)
(* for it: what SA granted is what the next ST uses.                       *)
CrossbarInv(c, g) ==
  /\ g # None => \E v \in Vcs : c[Local][v].state = "ACTIVE"
  /\ \A v \in Vcs : c[Local][v].state = "ACTIVE" => c[Local][v].outPort = g
  /\ \A u, v \in Vcs : c[Local][u].state = "ACTIVE" /\ c[Local][v].state = "ACTIVE" => u = v

PlainInv == plain => StageInv(vc, buf) /\ CrossbarInv(vc, granted)

LEMMA RankLemma ==
  ASSUME NEW S \in SUBSET Vcs, NEW x \in S, NEW y \in S, Rank(x, S) = Rank(y, S)
  PROVE  x = y
<1>1. IsFiniteSet(Vcs)
  BY FS_Interval, RouterAssumption DEF Vcs
<1>2. ASSUME NEW a \in S, NEW b \in S, a < b, Rank(a, S) = Rank(b, S) PROVE FALSE
  <2> DEFINE below == {z \in S : z < a}
             lower == {z \in S : z < b}
  <2>1. IsFiniteSet(S)
    BY <1>1, FS_Subset
  <2>2. lower \in SUBSET S
    OBVIOUS
  <2>3. IsFiniteSet(lower)
    BY <2>1, <2>2, FS_Subset
  <2>4. below \in SUBSET lower
    <3>1. a \in Nat /\ b \in Nat /\ S \subseteq Nat
      BY Sets
    <3>2. \A z \in S : z < a => z < b
      BY <1>2, <3>1
    <3> QED BY <3>2
  <2>5. Cardinality(lower) = Cardinality(below)
    BY <1>2 DEF Rank
  <2>6. lower = below
    <3> HIDE DEF below, lower
    <3> QED BY <2>3, <2>4, <2>5, FS_Subset
  <2>7. a \in lower /\ a \notin below
    BY <1>2, Sets
  <2> QED BY <2>6, <2>7
<1>3. x \in Nat /\ y \in Nat
  BY Sets
<1>4. ~ (x < y) /\ ~ (y < x)
  BY <1>2
<1> QED BY <1>3, <1>4

(* VA offers a channel at most one idle channel of its output port, and    *)
(* never the same one to two.                                              *)
LEMMA OfferUnique ==
  ASSUME NEW c, NEW v, NEW w \in Offered(c, v), NEW x \in Offered(c, v) PROVE w = x
<1> DEFINE idle == {y \in Vcs : c[c[Local][v].outPort][y].state = "IDLE"}
<1>1. idle \in SUBSET Vcs
  OBVIOUS
<1>2. w \in idle /\ x \in idle /\ Rank(w, idle) = Rank(x, idle)
  BY DEF Offered
<1> HIDE DEF idle
<1> QED BY <1>1, <1>2, RankLemma

LEMMA OfferExclusive ==
  ASSUME NEW c, NEW u \in Vcs, NEW v \in Vcs, NEW w \in Offered(c, u), w \in Offered(c, v),
         c[Local][u].outPort = c[Local][v].outPort
  PROVE  u = v
<1> DEFINE o == c[Local][v].outPort
           rivals == {y \in Vcs : c[Local][y].state = "ROUTING" /\ c[Local][y].outPort = o}
<1>1. rivals \in SUBSET Vcs
  OBVIOUS
<1>2. u \in rivals /\ v \in rivals /\ Rank(u, rivals) = Rank(v, rivals)
  BY DEF Offered
<1> HIDE DEF rivals
<1> QED BY <1>1, <1>2, RankLemma

NoneActive(c) == \A v \in Vcs : c[Local][v].state # "ACTIVE"

(* ST clears the crossbar's channel and gives its reservation back. *)
LEMMA STKeeps ==
  ASSUME TypeInv, plain, StageInv(vc, buf), CrossbarInv(vc, granted)
  PROVE  StageInv(AfterST, BufAfterST) /\ NoneActive(AfterST)
<1>0. Local \in Ports /\ vc \in ChannelStates /\ buf \in Buffers
  BY Sets DEF TypeInv
<1>1. CASE Active = {}
  <2>1. NoneActive(vc)
    BY <1>1 DEF Active, NoneActive, StageInv, LocalInv
  <2>2. ~ Sends
    BY <1>1 DEF Sends
  <2> QED BY <2>1, <2>2 DEF AfterST, BufAfterST
<1>2. CASE Active # {}
  <2> DEFINE s == Sender
             w == vc[Local][s].outVc
  <2>1. s \in Vcs /\ vc[Local][s].state = "ACTIVE" /\ buf[s] # <<>>
    BY <1>2, SenderLemma DEF Active
  <2>2. /\ vc[Local][s].outPort = granted /\ granted \in Ports /\ granted # Local
        /\ w \in Vcs /\ w # None
    BY <2>1, Sets DEF StageInv, LocalInv, CrossbarInv, Holds
  <2>3. Sends
    BY <1>2, <2>2, Sets DEF Sends
  <2>4. buf[s] \in Seq(AnyFlit) /\ Len(buf[s]) \in Nat /\ Len(buf[s]) > 0
    BY <1>0, <2>1, EmptySeq DEF Buffers
  <2>5. Head(buf[s]).type = "single"
    BY <2>1, <2>4 DEF StageInv, SinglesOnly
  <2> DEFINE row == [vc[granted] EXCEPT ![w] = [vc[granted][w] EXCEPT !.state = "IDLE"]]
             freed == [vc EXCEPT ![granted] = row]
  <2>6. AfterST = [freed EXCEPT ![Local][s] = IdleVC]
    BY <2>2, <2>3, <2>5 DEF AfterST, Release
  <2>7. BufAfterST = [buf EXCEPT ![s] = Tail(buf[s])]
    BY <2>3 DEF BufAfterST
  <2>8. /\ AfterST[Local][s] = IdleVC
        /\ \A v \in Vcs \ {s} : AfterST[Local][v] = vc[Local][v]
        /\ \A p \in Ports \ {Local}, x \in Vcs :
             AfterST[p][x].state = IF p = granted /\ x = w THEN "IDLE" ELSE vc[p][x].state
    <3>1. freed[Local] = vc[Local]
      BY <1>0, <2>2 DEF ChannelStates
    <3>2. AfterST[Local] = [vc[Local] EXCEPT ![s] = IdleVC]
      BY <1>0, <2>6, <3>1 DEF ChannelStates
    <3>3. \A p \in Ports \ {Local} : AfterST[p] = freed[p]
      BY <1>0, <2>6 DEF ChannelStates
    <3>4. \A p \in Ports \ {Local} : freed[p] = IF p = granted THEN row ELSE vc[p]
      BY <1>0, <2>2 DEF ChannelStates
    <3>5. \A x \in Vcs : row[x].state = IF x = w THEN "IDLE" ELSE vc[granted][x].state
      BY <1>0, <2>2 DEF ChannelStates, VCState
    <3> HIDE DEF row, freed, w, s
    <3>6. \A v \in Vcs : AfterST[Local][v] = IF v = s THEN IdleVC ELSE vc[Local][v]
      BY <1>0, <2>1, <3>2 DEF ChannelStates
    <3>7. \A p \in Ports \ {Local}, x \in Vcs :
             AfterST[p][x].state = IF p = granted /\ x = w THEN "IDLE" ELSE vc[p][x].state
      BY <3>3, <3>4, <3>5
    <3> QED BY <2>1, <3>6, <3>7
  <2>9. /\ \A v \in Vcs \ {s} : BufAfterST[v] = buf[v]
        /\ \A i \in 1 .. Len(BufAfterST[s]) : BufAfterST[s][i] = buf[s][i + 1] /\ i + 1 \in 1 .. Len(buf[s])
    <3>1. BufAfterST[s] = Tail(buf[s]) /\ \A v \in Vcs \ {s} : BufAfterST[v] = buf[v]
      BY <1>0, <2>1, <2>7 DEF Buffers
    <3> QED BY <2>1, <2>4, <3>1, HeadTailProperties
  <2>10. IdleVC.state = "IDLE" /\ IdleVC.outPort = None /\ IdleVC.outVc = None
    BY DEF IdleVC
  <2> HIDE DEF s, w, row, freed
  <2>11. SinglesOnly(BufAfterST)
    BY <2>9 DEF StageInv, SinglesOnly
  <2>12. \A u \in Vcs : Holds(AfterST, u) <=> (Holds(vc, u) /\ u # s)
    BY <2>8, <2>10 DEF Holds
  <2>13. \A u \in Vcs \ {s} : Holds(vc, u) => ~ (vc[Local][u].outPort = granted /\ vc[Local][u].outVc = w)
    BY <2>1, <2>2 DEF StageInv, ExclusiveInv, Holds, w
  <2>14. LocalInv(AfterST, BufAfterST)
    <3> SUFFICES ASSUME NEW v \in Vcs
                 PROVE  /\ AfterST[Local][v].state = "IDLE" => AfterST[Local][v].outPort = None
                        /\ AfterST[Local][v].state # "IDLE" =>
                             /\ BufAfterST[v] # <<>>
                             /\ AfterST[Local][v].outPort = Route[BufAfterST[v][1].dst]
                             /\ AfterST[Local][v].outPort \in Ports \ {Local}
                        /\ Holds(AfterST, v) =>
                             /\ AfterST[Local][v].outVc \in Vcs
                             /\ AfterST[AfterST[Local][v].outPort][AfterST[Local][v].outVc].state # "IDLE"
                        /\ ~ Holds(AfterST, v) => AfterST[Local][v].outVc = None
      BY DEF LocalInv
    <3>1. CASE v = s
      BY <2>8, <2>10, <3>1 DEF Holds
    <3>2. CASE v # s
      <4>1. AfterST[Local][v] = vc[Local][v] /\ BufAfterST[v] = buf[v]
        BY <2>8, <2>9, <3>2
      <4>2. Holds(vc, v) => vc[Local][v].outPort \in Ports \ {Local} /\ vc[Local][v].outVc \in Vcs
                            /\ vc[vc[Local][v].outPort][vc[Local][v].outVc].state # "IDLE"
        BY DEF StageInv, LocalInv, Holds
      <4>3. Holds(vc, v) => AfterST[vc[Local][v].outPort][vc[Local][v].outVc].state # "IDLE"
        BY <2>8, <2>13, <3>2, <4>2
      <4> QED BY <2>12, <3>2, <4>1, <4>2, <4>3 DEF StageInv, LocalInv
    <3> QED BY <3>1, <3>2
  <2>15. RemoteInv(AfterST)
    <3> SUFFICES ASSUME NEW p \in Ports \ {Local}, NEW x \in Vcs, AfterST[p][x].state # "IDLE"
                 PROVE  \E v \in Vcs : Holds(AfterST, v) /\ AfterST[Local][v].outPort = p
                                       /\ AfterST[Local][v].outVc = x
      BY DEF RemoteInv
    <3>1. vc[p][x].state # "IDLE" /\ ~ (p = granted /\ x = w)
      BY <2>8
    <3>2. PICK v \in Vcs : Holds(vc, v) /\ vc[Local][v].outPort = p /\ vc[Local][v].outVc = x
      BY <3>1 DEF StageInv, RemoteInv
    <3>3. v # s
      BY <2>2, <3>1, <3>2 DEF w
    <3> QED BY <2>8, <2>12, <3>2, <3>3
  <2>16. ExclusiveInv(AfterST)
    BY <2>8, <2>12 DEF StageInv, ExclusiveInv
  <2>17. NoneActive(AfterST)
    BY <2>1, <2>8, <2>10 DEF NoneActive, CrossbarInv
  <2> QED BY <2>11, <2>14, <2>15, <2>16, <2>17 DEF StageInv
<1> QED BY <1>1, <1>2

(* SA turns one waiting channel into the active one, and grants its port.  *)
LEMMA SAKeeps ==
  ASSUME NEW c \in ChannelStates, NEW b \in Buffers, StageInv(c, b), NoneActive(c)
  PROVE  StageInv(AfterSA(c, b), b) /\ CrossbarInv(AfterSA(c, b), GrantAfterSA(c, b))
<1>1. CASE Asking(c, b) = {}
  BY <1>1 DEF AfterSA, GrantAfterSA, NoneActive, CrossbarInv
<1>2. CASE Asking(c, b) # {}
  <2> DEFINE n == Winner(c, b)
             d == AfterSA(c, b)
  <2>1. n \in Vcs /\ c[Local][n].state = "WAITING" /\ Local \in Ports
    BY <1>2, WinnerLemma, Sets DEF Asking
  <2>2. d = [c EXCEPT ![Local][n].state = "ACTIVE"] /\ GrantAfterSA(c, b) = c[Local][n].outPort
    BY <1>2 DEF AfterSA, GrantAfterSA
  <2> HIDE DEF n
  <2>3. /\ \A v \in Vcs : d[Local][v].state = IF v = n THEN "ACTIVE" ELSE c[Local][v].state
        /\ \A v \in Vcs : /\ d[Local][v].outPort = c[Local][v].outPort
                          /\ d[Local][v].outVc = c[Local][v].outVc
        /\ \A p \in Ports \ {Local}, x \in Vcs : d[p][x] = c[p][x]
    <3> DEFINE row == [c[Local] EXCEPT ![n] = [c[Local][n] EXCEPT !.state = "ACTIVE"]]
    <3>1. d = [c EXCEPT ![Local] = row]
      BY <2>2
    <3>2. d[Local] = row /\ \A p \in Ports \ {Local} : d[p] = c[p]
      BY <2>1, <3>1 DEF ChannelStates
    <3>3. \A v \in Vcs : /\ row[v].state = IF v = n THEN "ACTIVE" ELSE c[Local][v].state
                         /\ row[v].outPort = c[Local][v].outPort
                         /\ row[v].outVc = c[Local][v].outVc
      BY <2>1 DEF ChannelStates, VCState
    <3> HIDE DEF row, d
    <3> QED BY <3>2, <3>3
  <2> HIDE DEF d
  <2>4. \A v \in Vcs : Holds(d, v) <=> Holds(c, v)
    BY <2>1, <2>3 DEF Holds
  <2>5. \A v \in Vcs : d[Local][v].state = "IDLE" <=> c[Local][v].state = "IDLE"
    BY <2>1, <2>3
  <2>6. LocalInv(d, b)
    <3> SUFFICES ASSUME NEW v \in Vcs
                 PROVE  /\ d[Local][v].state = "IDLE" => d[Local][v].outPort = None
                        /\ d[Local][v].state # "IDLE" =>
                             /\ b[v] # <<>>
                             /\ d[Local][v].outPort = Route[b[v][1].dst]
                             /\ d[Local][v].outPort \in Ports \ {Local}
                        /\ Holds(d, v) =>
                             /\ d[Local][v].outVc \in Vcs
                             /\ d[d[Local][v].outPort][d[Local][v].outVc].state # "IDLE"
                        /\ ~ Holds(d, v) => d[Local][v].outVc = None
      BY DEF LocalInv
    <3>1. Holds(c, v) => c[Local][v].outPort \in Ports \ {Local} /\ c[Local][v].outVc \in Vcs
                         /\ c[c[Local][v].outPort][c[Local][v].outVc].state # "IDLE"
      BY DEF StageInv, LocalInv, Holds
    <3> QED BY <2>3, <2>4, <2>5, <3>1 DEF StageInv, LocalInv
  <2>7. RemoteInv(d)
    BY <2>3, <2>4 DEF StageInv, RemoteInv
  <2>8. ExclusiveInv(d)
    BY <2>3, <2>4 DEF StageInv, ExclusiveInv
  <2>9. CrossbarInv(d, GrantAfterSA(c, b))
    BY <2>1, <2>2, <2>3 DEF NoneActive, CrossbarInv
  <2> QED BY <2>6, <2>7, <2>8, <2>9 DEF StageInv, d
<1> QED BY <1>1, <1>2

(* VA gives channels that route an idle channel of their output port each. *)
LEMMA VAKeeps ==
  ASSUME NEW c \in ChannelStates, NEW b \in Buffers, NEW g, StageInv(c, b), CrossbarInv(c, g)
  PROVE  StageInv(AfterVA(c), b) /\ CrossbarInv(AfterVA(c), g)
<1> DEFINE d == AfterVA(c)
           Gets(v) == c[Local][v].state = "ROUTING" /\ Offered(c, v) # {}
<1>0. Local \in Ports
  BY Sets
<1>1. \A u \in Vcs, x \in Vcs : x \in Offered(c, u) =>
         /\ Gets(u) /\ x = Min(Offered(c, u)) /\ c[Local][u].outPort \in Ports \ {Local}
         /\ c[c[Local][u].outPort][x].state = "IDLE"
  <2> SUFFICES ASSUME NEW u \in Vcs, NEW x \in Vcs, x \in Offered(c, u)
               PROVE  /\ Gets(u) /\ x = Min(Offered(c, u)) /\ c[Local][u].outPort \in Ports \ {Local}
                      /\ c[c[Local][u].outPort][x].state = "IDLE"
    OBVIOUS
  <2>1. c[Local][u].state = "ROUTING" /\ c[c[Local][u].outPort][x].state = "IDLE"
    BY DEF Offered
  <2>2. x = Min(Offered(c, u))
    BY OfferedLemma, OfferUnique
  <2> QED BY <2>1, <2>2 DEF StageInv, LocalInv
<1>2. \A v \in Vcs : Gets(v) =>
         /\ d[Local][v].state = "WAITING" /\ d[Local][v].outPort = c[Local][v].outPort
         /\ d[Local][v].outVc = Min(Offered(c, v))
         /\ Min(Offered(c, v)) \in Vcs /\ Min(Offered(c, v)) \in Offered(c, v)
  <2> SUFFICES ASSUME NEW v \in Vcs, Gets(v)
               PROVE  /\ d[Local][v].state = "WAITING" /\ d[Local][v].outPort = c[Local][v].outPort
                      /\ d[Local][v].outVc = Min(Offered(c, v))
                      /\ Min(Offered(c, v)) \in Vcs /\ Min(Offered(c, v)) \in Offered(c, v)
    OBVIOUS
  <2> DEFINE w == Min(Offered(c, v))
  <2>1. w \in Vcs /\ w \in Offered(c, v)
    BY OfferedLemma
  <2>2. d[Local][v] = [c[Local][v] EXCEPT !.state = "WAITING", !.outVc = w]
    BY <1>0 DEF AfterVA
  <2>3. c[Local][v] \in VCState
    BY <1>0 DEF ChannelStates
  <2> HIDE DEF w, d
  <2>4. d[Local][v].state = "WAITING" /\ d[Local][v].outPort = c[Local][v].outPort /\ d[Local][v].outVc = w
    BY <2>2, <2>3 DEF VCState
  <2> QED BY <2>1, <2>4 DEF w
<1>3. \A v \in Vcs : ~ Gets(v) => d[Local][v] = c[Local][v]
  <2> SUFFICES ASSUME NEW v \in Vcs, ~ Gets(v) PROVE d[Local][v] = c[Local][v]
    OBVIOUS
  <2>1. ~ \E u \in Vcs : c[Local][u].outPort = Local /\ v \in Offered(c, u)
    BY <1>1
  <2> QED BY <1>0, <2>1 DEF AfterVA
<1>4. \A p \in Ports \ {Local}, x \in Vcs :
         d[p][x].state = IF \E u \in Vcs : c[Local][u].outPort = p /\ x \in Offered(c, u)
                         THEN "WAITING" ELSE c[p][x].state
  <2> SUFFICES ASSUME NEW p \in Ports \ {Local}, NEW x \in Vcs
               PROVE  d[p][x].state = IF \E u \in Vcs : c[Local][u].outPort = p /\ x \in Offered(c, u)
                                      THEN "WAITING" ELSE c[p][x].state
    OBVIOUS
  <2>1. c[p][x] \in VCState
    BY DEF ChannelStates
  <2>2. d[p][x] = IF \E u \in Vcs : c[Local][u].outPort = p /\ x \in Offered(c, u)
                  THEN [c[p][x] EXCEPT !.state = "WAITING"] ELSE c[p][x]
    BY DEF AfterVA
  <2> QED BY <2>1, <2>2 DEF VCState
<1> HIDE DEF d, Gets
<1>5. \A v \in Vcs : Gets(v) => ~ Holds(c, v) /\ c[Local][v].state = "ROUTING"
  BY DEF Gets, Holds
<1>6. \A v \in Vcs : Holds(d, v) <=> Holds(c, v) \/ Gets(v)
  BY <1>2, <1>3 DEF Holds
<1>7. \A v \in Vcs : d[Local][v].outPort = c[Local][v].outPort
  BY <1>2, <1>3
<1>8. \A v \in Vcs : d[Local][v].state = "IDLE" <=> c[Local][v].state = "IDLE"
  BY <1>2, <1>3, <1>5
<1>9. LocalInv(d, b)
  <2> SUFFICES ASSUME NEW v \in Vcs
               PROVE  /\ d[Local][v].state = "IDLE" => d[Local][v].outPort = None
                      /\ d[Local][v].state # "IDLE" =>
                           /\ b[v] # <<>>
                           /\ d[Local][v].outPort = Route[b[v][1].dst]
                           /\ d[Local][v].outPort \in Ports \ {Local}
                      /\ Holds(d, v) =>
                           /\ d[Local][v].outVc \in Vcs
                           /\ d[d[Local][v].outPort][d[Local][v].outVc].state # "IDLE"
                      /\ ~ Holds(d, v) => d[Local][v].outVc = None
    BY DEF LocalInv
  <2>1. CASE Gets(v)
    <3> DEFINE w == Min(Offered(c, v))
               o == c[Local][v].outPort
    <3>1. /\ w \in Vcs /\ w \in Offered(c, v) /\ o \in Ports \ {Local} /\ d[Local][v].outVc = w
          /\ d[Local][v].outPort = o /\ d[Local][v].state = "WAITING"
      BY <1>1, <1>2, <2>1
    <3>2. d[o][w].state = "WAITING"
      BY <1>4, <3>1
    <3>3. b[v] # <<>> /\ o = Route[b[v][1].dst]
      BY <1>5, <2>1 DEF StageInv, LocalInv
    <3> HIDE DEF w, o
    <3> QED BY <3>1, <3>2, <3>3 DEF Holds
  <2>2. CASE ~ Gets(v)
    <3>1. d[Local][v] = c[Local][v] /\ (Holds(d, v) <=> Holds(c, v))
      BY <1>3, <1>6, <2>2
    <3>2. Holds(c, v) => /\ c[Local][v].outPort \in Ports \ {Local} /\ c[Local][v].outVc \in Vcs
                         /\ c[c[Local][v].outPort][c[Local][v].outVc].state # "IDLE"
      BY DEF StageInv, LocalInv, Holds
    <3>3. Holds(c, v) => d[c[Local][v].outPort][c[Local][v].outVc].state # "IDLE"
      BY <1>4, <3>2
    <3> QED BY <3>1, <3>2, <3>3 DEF StageInv, LocalInv
  <2> QED BY <2>1, <2>2
<1>10. RemoteInv(d)
  <2> SUFFICES ASSUME NEW p \in Ports \ {Local}, NEW x \in Vcs, d[p][x].state # "IDLE"
               PROVE  \E v \in Vcs : Holds(d, v) /\ d[Local][v].outPort = p /\ d[Local][v].outVc = x
    BY DEF RemoteInv
  <2>1. CASE \E u \in Vcs : c[Local][u].outPort = p /\ x \in Offered(c, u)
    <3>1. PICK u \in Vcs : c[Local][u].outPort = p /\ x \in Offered(c, u)
      BY <2>1
    <3>2. Gets(u) /\ d[Local][u].outVc = x
      BY <1>1, <1>2, <3>1
    <3> QED BY <1>6, <1>7, <3>1, <3>2
  <2>2. CASE ~ \E u \in Vcs : c[Local][u].outPort = p /\ x \in Offered(c, u)
    <3>1. c[p][x].state # "IDLE"
      BY <1>4, <2>2
    <3>2. PICK v \in Vcs : Holds(c, v) /\ c[Local][v].outPort = p /\ c[Local][v].outVc = x
      BY <3>1 DEF StageInv, RemoteInv
    <3>3. d[Local][v] = c[Local][v]
      BY <1>3, <1>5, <3>2
    <3> QED BY <1>6, <3>2, <3>3
  <2> QED BY <2>1, <2>2
<1>11. ExclusiveInv(d)
  <2> SUFFICES ASSUME NEW u \in Vcs, NEW v \in Vcs, Holds(d, u), Holds(d, v),
                      d[Local][u].outPort = d[Local][v].outPort, d[Local][u].outVc = d[Local][v].outVc
               PROVE  u = v
    BY DEF ExclusiveInv
  <2>1. c[Local][u].outPort = c[Local][v].outPort
    BY <1>7
  <2>2. ASSUME NEW y \in Vcs, NEW z \in Vcs, Gets(y), ~ Gets(z), Holds(d, z),
               d[Local][y].outPort = d[Local][z].outPort, d[Local][y].outVc = d[Local][z].outVc
        PROVE  FALSE
    <3>1. c[c[Local][y].outPort][d[Local][y].outVc].state = "IDLE"
      BY <1>1, <1>2, <2>2
    <3>2. Holds(c, z) /\ d[Local][z] = c[Local][z]
      BY <1>3, <1>6, <2>2
    <3>3. c[c[Local][z].outPort][c[Local][z].outVc].state # "IDLE"
      BY <3>2 DEF StageInv, LocalInv
    <3> QED BY <1>7, <2>2, <3>1, <3>2, <3>3
  <2>3. CASE Gets(u) /\ Gets(v)
    <3>1. d[Local][u].outVc \in Offered(c, u) /\ d[Local][v].outVc \in Offered(c, v)
      BY <1>2, <2>3
    <3> QED BY <2>1, <3>1, OfferExclusive
  <2>4. CASE ~ Gets(u) /\ ~ Gets(v)
    <3>1. Holds(c, u) /\ Holds(c, v) /\ d[Local][u] = c[Local][u] /\ d[Local][v] = c[Local][v]
      BY <1>3, <1>6, <2>4
    <3> QED BY <3>1 DEF StageInv, ExclusiveInv
  <2> QED BY <2>2, <2>3, <2>4
<1>12. CrossbarInv(d, g)
  <2>1. \A v \in Vcs : d[Local][v].state = "ACTIVE" <=> c[Local][v].state = "ACTIVE"
    BY <1>2, <1>3, <1>5
  <2> QED BY <1>7, <2>1 DEF CrossbarInv
<1> QED BY <1>9, <1>10, <1>11, <1>12 DEF StageInv, d

(* RC routes idle channels by their oldest flit. *)
LEMMA RCKeeps ==
  ASSUME NEW c \in ChannelStates, NEW b \in Buffers, NEW g, StageInv(c, b), CrossbarInv(c, g)
  PROVE  StageInv(AfterRC(c, b), b) /\ CrossbarInv(AfterRC(c, b), g)
<1> DEFINE d == AfterRC(c, b)
           opens(v) == b[v] # <<>> /\ Head(b[v]).type \in {"head", "single"}
           Starts(v) == c[Local][v].state = "IDLE" /\ opens(v) /\ Route[Head(b[v]).dst] # None
           new(v) == IF Starts(v)
                     THEN [c[Local][v] EXCEPT !.state = "ROUTING", !.outPort = Route[Head(b[v]).dst]]
                     ELSE c[Local][v]
<1>0. Local \in Ports
  BY Sets
<1>1. /\ \A v \in Vcs : d[Local][v] = new(v)
      /\ \A p \in Ports \ {Local} : d[p] = c[p]
  <2> DEFINE row == [v \in Vcs |-> new(v)]
  <2>1. d = [c EXCEPT ![Local] = row]
    BY DEF AfterRC
  <2> HIDE DEF row, d
  <2>2. d[Local] = row /\ \A p \in Ports \ {Local} : d[p] = c[p]
    BY <1>0, <2>1 DEF ChannelStates
  <2> HIDE DEF new
  <2>3. \A v \in Vcs : row[v] = new(v)
    BY DEF row
  <2> QED BY <2>2, <2>3
<1>2. \A v \in Vcs : ~ Starts(v) => d[Local][v] = c[Local][v]
  BY <1>1
<1>3. \A v \in Vcs : Starts(v) =>
         /\ b[v] # <<>>
         /\ c[Local][v].state = "IDLE" /\ d[Local][v].state = "ROUTING"
         /\ d[Local][v].outPort = Route[b[v][1].dst] /\ d[Local][v].outPort \in Ports \ {Local}
         /\ d[Local][v].outVc = c[Local][v].outVc
  <2> SUFFICES ASSUME NEW v \in Vcs, Starts(v)
               PROVE  /\ b[v] # <<>>
                      /\ c[Local][v].state = "IDLE" /\ d[Local][v].state = "ROUTING"
                      /\ d[Local][v].outPort = Route[b[v][1].dst] /\ d[Local][v].outPort \in Ports \ {Local}
                      /\ d[Local][v].outVc = c[Local][v].outVc
    OBVIOUS
  <2> DEFINE o == Route[Head(b[v]).dst]
  <2>1. b[v] \in Seq(AnyFlit) /\ b[v] # <<>> /\ Len(b[v]) \in Nat /\ Len(b[v]) > 0
    BY EmptySeq DEF Buffers
  <2>2. Head(b[v]) = b[v][1] /\ Head(b[v]) \in AnyFlit
    BY <2>1, HeadTailProperties
  <2>3. o \in Ports \ {Local} /\ o = Route[b[v][1].dst]
    <3>1. Route[b[v][1].dst] # Local
      BY <2>1 DEF StageInv, SinglesOnly
    <3>2. Head(b[v]).dst \in Dsts
      BY <2>2 DEF AnyFlit
    <3> QED BY <2>2, <3>1, <3>2, RouterAssumption
  <2>4. c[Local][v] \in VCState
    BY <1>0 DEF ChannelStates
  <2>5. d[Local][v] = [c[Local][v] EXCEPT !.state = "ROUTING", !.outPort = o]
    BY <1>1
  <2>6. c[Local][v].state = "IDLE"
    OBVIOUS
  <2> HIDE DEF o, d, new, Starts
  <2>7. d[Local][v].state = "ROUTING" /\ d[Local][v].outPort = o /\ d[Local][v].outVc = c[Local][v].outVc
    BY <2>4, <2>5 DEF VCState
  <2> QED BY <2>1, <2>3, <2>6, <2>7
<1> HIDE DEF d, new, Starts
<1>4. \A v \in Vcs : Holds(d, v) <=> Holds(c, v)
  BY <1>2, <1>3 DEF Holds
<1>5. \A v \in Vcs : Holds(c, v) => d[Local][v] = c[Local][v]
  BY <1>2, <1>3 DEF Holds
<1>6. LocalInv(d, b)
  <2> SUFFICES ASSUME NEW v \in Vcs
               PROVE  /\ d[Local][v].state = "IDLE" => d[Local][v].outPort = None
                      /\ d[Local][v].state # "IDLE" =>
                           /\ b[v] # <<>>
                           /\ d[Local][v].outPort = Route[b[v][1].dst]
                           /\ d[Local][v].outPort \in Ports \ {Local}
                      /\ Holds(d, v) =>
                           /\ d[Local][v].outVc \in Vcs
                           /\ d[d[Local][v].outPort][d[Local][v].outVc].state # "IDLE"
                      /\ ~ Holds(d, v) => d[Local][v].outVc = None
    BY DEF LocalInv
  <2>1. CASE Starts(v)
    <3>1. ~ Holds(c, v) /\ c[Local][v].outVc = None
      BY <1>3, <2>1 DEF Holds, StageInv, LocalInv
    <3> QED BY <1>3, <1>4, <2>1, <3>1
  <2>2. CASE ~ Starts(v)
    <3>1. d[Local][v] = c[Local][v]
      BY <1>2, <2>2
    <3>2. Holds(c, v) => /\ c[Local][v].outPort \in Ports \ {Local}
                         /\ d[c[Local][v].outPort] = c[c[Local][v].outPort]
      BY <1>1 DEF StageInv, LocalInv, Holds
    <3> QED BY <1>4, <3>1, <3>2 DEF StageInv, LocalInv
  <2> QED BY <2>1, <2>2
<1>7. RemoteInv(d)
  BY <1>1, <1>4, <1>5 DEF StageInv, RemoteInv
<1>8. ExclusiveInv(d)
  BY <1>4, <1>5 DEF StageInv, ExclusiveInv
<1>9. CrossbarInv(d, g)
  <2>1. \A v \in Vcs : d[Local][v].state = "ACTIVE" <=> c[Local][v].state = "ACTIVE"
    BY <1>2, <1>3
  <2>2. \A v \in Vcs : c[Local][v].state = "ACTIVE" => d[Local][v] = c[Local][v]
    BY <1>5 DEF Holds
  <2> QED BY <2>1, <2>2 DEF CrossbarInv
<1> QED BY <1>6, <1>7, <1>8, <1>9 DEF StageInv, d

LEMMA PlainInit == Init => PlainInv
<1> SUFFICES ASSUME Init PROVE StageInv(vc, buf) /\ CrossbarInv(vc, granted)
  BY DEF PlainInv
<1>1. \A p \in Ports, v \in Vcs : vc[p][v] = IdleVC
  BY DEF Init, Fresh
<1>2. IdleVC.state = "IDLE" /\ IdleVC.outPort = None /\ IdleVC.outVc = None /\ Local \in Ports
  BY Sets DEF IdleVC
<1>3. \A v \in Vcs : buf[v] = <<>>
  BY DEF Init
<1>4. SinglesOnly(buf)
  BY <1>3 DEF SinglesOnly
<1>5. LocalInv(vc, buf) /\ RemoteInv(vc) /\ ExclusiveInv(vc)
  BY <1>1, <1>2 DEF LocalInv, RemoteInv, ExclusiveInv, Holds
<1>6. CrossbarInv(vc, granted)
  BY <1>1, <1>2 DEF CrossbarInv, Init
<1> QED BY <1>4, <1>5, <1>6 DEF StageInv

LEMMA PlainStep == TypeInv /\ PlainInv /\ [Next]_vars => PlainInv'
<1> SUFFICES ASSUME TypeInv, PlainInv, [Next]_vars, plain'
             PROVE  StageInv(vc', buf') /\ CrossbarInv(vc', granted')
  BY DEF PlainInv, StageInv, CrossbarInv, SinglesOnly, LocalInv, RemoteInv, ExclusiveInv, Holds
<1>1. plain /\ StageInv(vc, buf) /\ CrossbarInv(vc, granted) /\ vc \in ChannelStates /\ buf \in Buffers
  BY DEF PlainInv, Next, vars, TypeInv
<1>2. CASE Cycle
  <2> DEFINE st == AfterST
             b == BufAfterST
             sa == AfterSA(st, b)
             g == GrantAfterSA(st, b)
             va == AfterVA(sa)
  <2>1. st \in ChannelStates /\ b \in Buffers
    BY STType DEF TypeInv
  <2>2. StageInv(st, b) /\ NoneActive(st)
    BY <1>1, STKeeps
  <2>3. vc' = AfterRC(va, b) /\ buf' = b /\ granted' = g
    BY <1>2, CycleStages
  <2> HIDE DEF st, b
  <2>4. StageInv(sa, b) /\ CrossbarInv(sa, g) /\ sa \in ChannelStates
    BY <2>1, <2>2, SAKeeps, SAType
  <2> HIDE DEF sa, g
  <2>5. StageInv(va, b) /\ CrossbarInv(va, g) /\ va \in ChannelStates
    BY <2>1, <2>4, VAKeeps, VAType
  <2> HIDE DEF va
  <2>6. StageInv(AfterRC(va, b), b) /\ CrossbarInv(AfterRC(va, b), g)
    BY <2>1, <2>5, RCKeeps
  <2> QED BY <2>3, <2>6
<1>3. ASSUME NEW v \in Vcs, NEW f \in AnyFlit, Inject(v, f)
      PROVE  StageInv(vc', buf') /\ CrossbarInv(vc', granted')
  <2>1. /\ buf' = [buf EXCEPT ![v] = Append(buf[v], f)]
        /\ vc' = vc /\ granted' = granted /\ f.type = "single" /\ Route[f.dst] # Local
    BY <1>1, <1>3 DEF Inject, WellFormed
  <2>2. buf[v] \in Seq(AnyFlit) /\ Len(buf[v]) \in Nat
    BY <1>1 DEF Buffers
  <2> DEFINE q == Append(buf[v], f)
  <2>3. /\ Len(q) = Len(buf[v]) + 1 /\ q # <<>> /\ q[Len(buf[v]) + 1] = f
        /\ \A i \in 1 .. Len(buf[v]) : q[i] = buf[v][i]
    BY <2>2, AppendProperties
  <2> HIDE DEF q
  <2>4. buf'[v] = q /\ \A u \in Vcs \ {v} : buf'[u] = buf[u]
    BY <1>1, <2>1 DEF Buffers, q
  <2>5. SinglesOnly(buf')
    <3> SUFFICES ASSUME NEW u \in Vcs, NEW i \in 1 .. Len(buf'[u])
                 PROVE  buf'[u][i].type = "single" /\ Route[buf'[u][i].dst] # Local
      BY DEF SinglesOnly
    <3>1. CASE u = v
      BY <1>1, <2>1, <2>2, <2>3, <2>4, <3>1 DEF StageInv, SinglesOnly
    <3>2. CASE u # v
      BY <1>1, <2>4, <3>2 DEF StageInv, SinglesOnly
    <3> QED BY <3>1, <3>2
  <2>6. ASSUME NEW u \in Vcs, buf[u] # <<>> PROVE buf'[u] # <<>> /\ buf'[u][1] = buf[u][1]
    <3>1. CASE u = v
      <4>1. 1 \in 1 .. Len(buf[v])
        BY <2>2, <2>6, <3>1, EmptySeq
      <4> QED BY <2>3, <2>4, <3>1, <4>1
    <3>2. CASE u # v
      BY <2>4, <2>6, <3>2
    <3> QED BY <3>1, <3>2
  <2>7. LocalInv(vc, buf')
    BY <1>1, <2>6 DEF StageInv, LocalInv
  <2> QED BY <1>1, <2>1, <2>5, <2>7 DEF StageInv
<1>4. CASE UNCHANGED <<vc, buf, granted>>
  BY <1>1, <1>4
<1> QED BY <1>1, <1>2, <1>3, <1>4 DEF Next, Disturb, vars

LEMMA PlainSound == TypeInv /\ PlainInv => SwitchSound
<1> SUFFICES ASSUME TypeInv, PlainInv, plain
             PROVE  ReservationsExclusive /\ NoLeakedReservation /\ SwitchedToItsRoute /\ NoVcDeadlock
  BY DEF SwitchSound
<1>1. StageInv(vc, buf) /\ CrossbarInv(vc, granted) /\ Local \in Ports /\ None \notin Vcs
      /\ buf \in Buffers
  BY Sets DEF PlainInv, TypeInv
<1>2. \A v \in Vcs : v \in Holders <=> Holds(vc, v)
  BY <1>1 DEF Holders, StageInv, LocalInv
<1>3. ReservationsExclusive
  <2>1. ASSUME NEW v \in Holders PROVE vc[Held(v)[1]][Held(v)[2]].state # "IDLE"
    <3>1. v \in Vcs /\ Holds(vc, v) /\ Held(v)[1] = vc[Local][v].outPort /\ Held(v)[2] = vc[Local][v].outVc
      BY <1>2 DEF Holders, Held
    <3> QED BY <1>1, <3>1 DEF StageInv, LocalInv
  <2>2. ASSUME NEW v \in Holders, NEW u \in Holders, Held(u) = Held(v) PROVE u = v
    BY <1>1, <1>2, <2>2 DEF Holders, Held, StageInv, ExclusiveInv
  <2> QED BY <2>1, <2>2 DEF ReservationsExclusive
<1>4. NoLeakedReservation
  <2> SUFFICES ASSUME NEW p \in Ports \ {Local}, NEW w \in Vcs, vc[p][w].state # "IDLE"
               PROVE  \E v \in Holders : Held(v) = <<p, w>>
    BY DEF NoLeakedReservation
  <2>1. PICK v \in Vcs : Holds(vc, v) /\ vc[Local][v].outPort = p /\ vc[Local][v].outVc = w
    BY <1>1 DEF StageInv, RemoteInv
  <2> QED BY <1>2, <2>1 DEF Held
<1>5. SwitchedToItsRoute
  <2> SUFFICES ASSUME Sends PROVE Route[Head(buf[Sender]).dst] = granted
    BY DEF SwitchedToItsRoute
  <2>1. Sender \in Vcs /\ vc[Local][Sender].state = "ACTIVE" /\ buf[Sender] # <<>>
    BY SenderLemma DEF Sends, Active
  <2>2. Head(buf[Sender]) = buf[Sender][1]
    BY <1>1, <2>1, HeadTailProperties DEF Buffers
  <2> QED BY <1>1, <2>1, <2>2 DEF StageInv, LocalInv, CrossbarInv
<1>6. NoVcDeadlock
  <2> SUFFICES ASSUME \A v \in Vcs : vc[Local][v].state = "ROUTING"
               PROVE  \E v \in Vcs, w \in Vcs : vc[vc[Local][v].outPort][w].state = "IDLE"
    BY DEF NoVcDeadlock
  <2>1. PICK v \in Vcs : TRUE
    BY Sets
  <2>2. \A u \in Vcs : ~ Holds(vc, u)
    BY DEF Holds
  <2>3. vc[Local][v].outPort \in Ports \ {Local}
    BY <1>1 DEF StageInv, LocalInv
  <2>4. vc[vc[Local][v].outPort][v].state = "IDLE"
    BY <1>1, <2>2, <2>3 DEF StageInv, RemoteInv
  <2> QED BY <2>4
<1> QED BY <1>3, <1>4, <1>5, <1>6

(* For every router, routing function and set of destinations: as long as  *)
(* callers only cycle it and inject single flits to other nodes, its five  *)
(* stages keep reservations exclusive and give them back, send every flit  *)
(* through the output it routes to, and never let all channels wait in VA. *)
THEOREM RouterSwitches == Spec => []SwitchSound
<1>1. Init => TypeInv /\ PlainInv
  BY TypeInit, PlainInit
<1>2. TypeInv /\ PlainInv /\ [Next]_vars => (TypeInv /\ PlainInv)'
  BY TypeStep, PlainStep
<1> QED BY <1>1, <1>2, PlainSound, PTL DEF Spec
-----------------------------------------------------------------------------
(* The ring of slots behind a channel.                                     *)
(* Wrapping an index that is at most one lap ahead. *)
LEMMA WrapLemma ==
  ASSUME NEW a \in Nat
  PROVE  /\ a < Depth => a % Depth = a
         /\ (Depth <= a /\ a < 2 * Depth) => a % Depth = a - Depth
         /\ a % Depth \in Slots
BY DepthAssumption, SMTT(30) DEF Slots

(* The inductive invariant: the indices agree and every live slot was      *)
(* written; RingTypeOK alone is not inductive for the content of a pop.        *)
RingInv == RingTypeOK /\ RingConsistent /\ LiveSlotsWritten

LEMMA RingInitInv == RingInit => RingInv
<1> SUFFICES ASSUME RingInit PROVE RingInv
  OBVIOUS
<1>1. RingTypeOK
  BY DepthAssumption DEF RingInit, RingTypeOK, Zeroed, Slots
<1>2. RingConsistent
  BY WrapLemma, DepthAssumption DEF RingInit, RingConsistent
<1>3. LiveSlotsWritten
  BY DEF RingInit, LiveSlotsWritten
<1> QED BY <1>1, <1>2, <1>3 DEF RingInv

LEMMA RingStepInv == RingInv /\ [RingNext]_ringVars => RingInv'
<1> SUFFICES ASSUME RingInv, [RingNext]_ringVars PROVE RingInv'
  OBVIOUS
<1> USE DepthAssumption
<1>a. head \in Nat /\ tail \in Nat /\ count \in Nat /\ head < Depth /\ tail < Depth
      /\ Depth \in Nat /\ Depth > 0
  BY DEF RingInv, RingTypeOK, Slots
<1>1. ASSUME NEW f \in Flits, Push(f) PROVE RingInv'
  <2>1. RingTypeOK'
    BY <1>1, <1>a, WrapLemma DEF RingInv, RingTypeOK, Push, FreeSlot, Advance, Slots
  <2>2. RingConsistent'
    <3>1. tail' = (tail + 1) % Depth /\ head' = head /\ count' = count + 1 /\ count < Depth
      BY <1>1 DEF Push, FreeSlot, Advance
    <3>2. tail = IF head + count < Depth THEN head + count ELSE head + count - Depth
      BY <1>a, <3>1, WrapLemma DEF RingInv, RingConsistent
    <3>3. tail + 1 \in Nat /\ head + count + 1 \in Nat
      BY <1>a
    <3>4. (tail + 1) % Depth = IF tail + 1 < Depth THEN tail + 1 ELSE 0
      BY <1>a, <3>3, WrapLemma
    <3>5. (head + (count + 1)) % Depth =
             IF head + count + 1 < Depth THEN head + count + 1 ELSE head + count + 1 - Depth
      BY <1>a, <3>1, <3>3, WrapLemma
    <3> QED BY <1>a, <3>1, <3>2, <3>4, <3>5 DEF RingConsistent
  <2>3. LiveSlotsWritten'
    <3> SUFFICES ASSUME NEW i \in 0 .. Depth - 1, i < count'
                 PROVE buffer'[(head' + i) % Depth] \in Flits
      BY <1>1 DEF LiveSlotsWritten, Push
    <3>1. (head + i) % Depth \in Slots
      BY <1>a, WrapLemma
    <3>2. CASE i < count
      BY <1>1, <3>1, <3>2 DEF RingInv, RingTypeOK, LiveSlotsWritten, Push
    <3>3. CASE i = count
      BY <1>1, <1>a, <3>1, <3>3 DEF RingInv, RingTypeOK, RingConsistent, Push
    <3> QED BY <1>1, <1>a, <3>2, <3>3 DEF Push
  <2> QED BY <2>1, <2>2, <2>3 DEF RingInv
<1>2. ASSUME Pop PROVE RingInv'
  <2>0. head' = (head + 1) % Depth /\ tail' = tail /\ count' = count - 1
        /\ count > 0 /\ buffer' = buffer /\ out' = buffer[head]
    BY <1>2 DEF Pop, Advance, Oldest
  <2>1. head' = IF head + 1 < Depth THEN head + 1 ELSE 0
    BY <2>0, <1>a, WrapLemma
  <2>2. RingTypeOK'
    BY <2>0, <2>1, <1>a DEF RingInv, RingTypeOK, Slots
  <2>3. ASSUME NEW i \in Nat, i < Depth PROVE (head' + i) % Depth = (head + (i + 1)) % Depth
    <3>1. head' \in Nat /\ head' + i \in Nat /\ head' + i < 2 * Depth
      BY <2>1, <1>a, <2>3
    <3>2. head + i + 1 \in Nat /\ head + i + 1 <= 2 * Depth
      BY <1>a, <2>3
    <3>3. CASE head + 1 < Depth
      BY <2>1, <3>3, <1>a
    <3>4. CASE head + 1 = Depth
      <4>1. (head' + i) % Depth = i
        BY <2>1, <3>4, <1>a, <2>3, WrapLemma
      <4>2. head + (i + 1) = Depth + i
        BY <3>4, <1>a
      <4>3. (Depth + i) % Depth = i
        BY <1>a, <2>3, WrapLemma
      <4> QED BY <4>1, <4>2, <4>3
    <3> QED BY <3>3, <3>4, <1>a
  <2>4. RingConsistent'
    <3>1. count - 1 \in Nat /\ count - 1 < Depth
      BY <2>0, <1>a DEF RingInv, RingTypeOK
    <3>2. (head' + (count - 1)) % Depth = (head + (count - 1 + 1)) % Depth
      BY <3>1, <2>3
    <3> QED BY <2>0, <3>2, <1>a DEF RingInv, RingConsistent
  <2>5. LiveSlotsWritten'
    <3> SUFFICES ASSUME NEW i \in 0 .. Depth - 1, i < count'
                 PROVE buffer[(head' + i) % Depth] \in Flits
      BY <2>0 DEF LiveSlotsWritten
    <3>1. i + 1 \in 0 .. Depth - 1 /\ i + 1 < count
      BY <2>0, <1>a DEF RingInv, RingTypeOK
    <3>2. buffer[(head + (i + 1)) % Depth] \in Flits
      BY <3>1 DEF RingInv, LiveSlotsWritten
    <3> QED BY <3>2, <2>3
  <2> QED BY <2>2, <2>4, <2>5 DEF RingInv
<1>3. ASSUME RingReset PROVE RingInv'
  <2>1. RingTypeOK'
    BY <1>3, <1>a DEF RingInv, RingReset, RingTypeOK, Zeroed, Slots
  <2>2. RingConsistent'
    BY <1>3, <1>a, WrapLemma DEF RingReset, RingConsistent
  <2>3. LiveSlotsWritten'
    BY <1>3 DEF RingReset, LiveSlotsWritten
  <2> QED BY <2>1, <2>2, <2>3 DEF RingInv
<1>4. CASE UNCHANGED ringVars
  BY <1>4 DEF RingInv, RingTypeOK, RingConsistent, LiveSlotsWritten, ringVars
<1> QED BY <1>1, <1>2, <1>3, <1>4 DEF RingNext

(* RingTypeOK, RingConsistent and LiveSlotsWritten hold in every reachable     *)
(* state of noc_input_port_t's ring, whatever its number of slots.         *)
THEOREM RingInvariant == RingSpec => [](RingTypeOK /\ RingConsistent /\ LiveSlotsWritten)
<1>1. RingInit => RingInv
  BY RingInitInv
<1>2. RingInv /\ [RingNext]_ringVars => RingInv'
  BY RingStepInv
<1> QED BY <1>1, <1>2, PTL DEF RingSpec, RingInv

(***************************************************************************)
(* The ring implements the queue.                                          *)
(***************************************************************************)
LEMMA ContentsSeq ==
  ASSUME RingInv
  PROVE  Contents \in Seq(Flits) /\ Len(Contents) = count /\ DOMAIN Contents = 1 .. count
<1>1. \A i \in 1 .. count : buffer[(head + i - 1) % Depth] \in Flits
  <2> SUFFICES ASSUME NEW i \in 1 .. count PROVE buffer[(head + i - 1) % Depth] \in Flits
    OBVIOUS
  <2>1. i - 1 \in 0 .. Depth - 1 /\ i - 1 < count /\ head + (i - 1) = head + i - 1
    BY DepthAssumption DEF RingInv, RingTypeOK, Slots
  <2> QED BY <2>1 DEF RingInv, LiveSlotsWritten
<1>2. count \in Nat
  BY DepthAssumption DEF RingInv, RingTypeOK
<1> QED BY <1>1, <1>2 DEF Contents

LEMMA EmptyContents == count = 0 => Contents = <<>>
BY DEF Contents

LEMMA PushAppends ==
  ASSUME RingInv, NEW f \in Flits, Push(f)
  PROVE  Contents' = Append(Contents, f)
<1> USE DepthAssumption
<1>1. count \in Nat /\ head \in Nat /\ head < Depth /\ count < Depth /\ Depth \in Nat
      /\ tail \in Slots /\ buffer \in [Slots -> Flits \cup {NoFlit}]
  BY DEF RingInv, RingTypeOK, Slots, Push, FreeSlot
<1>2. head' = head /\ count' = count + 1 /\ buffer' = [buffer EXCEPT ![tail] = f]
      /\ tail = (head + count) % Depth
  BY DEF RingInv, RingConsistent, Push
<1>3. Contents' = [i \in 1 .. count + 1 |-> buffer'[(head + i - 1) % Depth]]
  BY <1>2 DEF Contents
<1>4. ASSUME NEW i \in 1 .. count
      PROVE  buffer'[(head + i - 1) % Depth] = buffer[(head + i - 1) % Depth]
  <2>1. head + i - 1 \in Nat /\ head + count \in Nat /\ head + i - 1 < 2 * Depth
        /\ head + count < 2 * Depth
    BY <1>1
  <2>2. (head + i - 1) % Depth # (head + count) % Depth
    BY <2>1, <1>1, WrapLemma
  <2>3. (head + i - 1) % Depth \in Slots
    BY <2>1, WrapLemma
  <2> QED BY <2>2, <2>3, <1>1, <1>2
<1>5. buffer'[(head + (count + 1) - 1) % Depth] = f
  BY <1>1, <1>2
<1> DEFINE c == Contents
<1>6. c \in Seq(Flits) /\ Len(c) = count
      /\ \A i \in 1 .. count : c[i] = buffer[(head + i - 1) % Depth]
  BY <1>1, ContentsSeq DEF Contents
<1>7. Contents' \in Seq(Flits) /\ Len(Contents') = count + 1
      /\ Contents'[count + 1] = f
      /\ \A i \in 1 .. count : Contents'[i] = c[i]
  <2>1. \A i \in 1 .. count + 1 : buffer'[(head + i - 1) % Depth] \in Flits
    <3> TAKE i \in 1 .. count + 1
    <3>1. CASE i \in 1 .. count
      BY <3>1, <1>4, <1>6, ElementOfSeq
    <3>2. CASE i = count + 1
      BY <3>2, <1>5
    <3> QED BY <3>1, <3>2, <1>1
  <2>2. Contents' \in Seq(Flits) /\ Len(Contents') = count + 1
    BY <2>1, <1>1, <1>3
  <2>3. Contents'[count + 1] = f
    BY <1>1, <1>3, <1>5
  <2>4. ASSUME NEW i \in 1 .. count PROVE Contents'[i] = c[i]
    <3>1. i \in 1 .. count + 1
      BY <1>1
    <3>2. Contents'[i] = buffer'[(head + i - 1) % Depth]
      BY <3>1, <1>3
    <3> QED BY <3>2, <1>4, <1>6
  <2> HIDE DEF c
  <2> QED BY <2>2, <2>3, <2>4
<1> HIDE DEF c
<1>8. Contents' = Append(c, f)
  <2>1. Append(c, f) \in Seq(Flits) /\ Len(Append(c, f)) = count + 1
        /\ Append(c, f)[count + 1] = f
        /\ \A i \in 1 .. count : Append(c, f)[i] = c[i]
    BY <1>6, AppendProperties
  <2>2. \A i \in 1 .. Len(Contents') : Contents'[i] = Append(c, f)[i]
    BY <1>1, <1>7, <2>1
  <2> QED BY <1>7, <2>1, <2>2, SeqEqual
<1> QED BY <1>8 DEF c

LEMMA PopTakes ==
  ASSUME RingInv, Pop
  PROVE  Contents # <<>> /\ out' = Head(Contents) /\ Contents' = Tail(Contents)
<1> USE DepthAssumption
<1>1. count \in Nat /\ head \in Nat /\ head < Depth /\ count <= Depth /\ Depth \in Nat
      /\ count > 0 /\ count - 1 \in Nat
  BY DEF RingInv, RingTypeOK, Slots, Pop
<1>2. head' = (head + 1) % Depth /\ count' = count - 1 /\ buffer' = buffer
      /\ out' = buffer[head]
  BY DEF Pop, Advance, Oldest
<1>3. Contents # <<>>
  BY <1>1, ContentsSeq
<1>4. Head(Contents) = buffer[head]
  <2>1. (head + 1 - 1) % Depth = head
    BY <1>1, WrapLemma
  <2>2. Contents[1] = buffer[(head + 1 - 1) % Depth]
    BY <1>1 DEF Contents
  <2> QED BY <2>1, <2>2
<1>5. ASSUME NEW i \in 1 .. count - 1
      PROVE  (head' + i - 1) % Depth = (head + (i + 1) - 1) % Depth
  <2>1. head' = IF head + 1 < Depth THEN head + 1 ELSE 0
    BY <1>1, <1>2, WrapLemma
  <2>2. CASE head + 1 < Depth
    BY <2>1, <2>2, <1>1
  <2>3. CASE head + 1 = Depth
    <3>1. head' + i - 1 = i - 1 /\ i - 1 \in Nat /\ i - 1 < Depth
      BY <2>1, <2>3, <1>1
    <3>2. head + (i + 1) - 1 = Depth + (i - 1) /\ Depth + (i - 1) \in Nat
      BY <2>3, <1>1
    <3>3. (Depth + (i - 1)) % Depth = i - 1
      BY <3>1, <3>2, <1>1, WrapLemma
    <3> QED BY <3>1, <3>2, <3>3, WrapLemma
  <2> QED BY <2>2, <2>3, <1>1
<1>6. Contents' = [i \in 1 .. count - 1 |-> Contents[i + 1]]
  <2>1. Contents' = [i \in 1 .. count - 1 |-> buffer[(head' + i - 1) % Depth]]
    BY <1>2 DEF Contents
  <2>2. \A i \in 1 .. count - 1 : Contents[i + 1] = buffer[(head + (i + 1) - 1) % Depth]
    BY <1>1 DEF Contents
  <2> QED BY <2>1, <2>2, <1>5
<1>7. Tail(Contents) = [i \in 1 .. count - 1 |-> Contents[i + 1]]
  <2> DEFINE c == Contents
  <2>1. c \in Seq(Flits) /\ Len(c) = count /\ c # <<>>
    BY <1>3, ContentsSeq
  <2>2. \A i \in 1 .. count - 1 : c[i + 1] \in Flits
    BY <2>1, <1>1, ElementOfSeq
  <2> HIDE DEF c
  <2> DEFINE t == [i \in 1 .. count - 1 |-> c[i + 1]]
  <2>3. t \in Seq(Flits) /\ Len(t) = count - 1
    BY <2>2, <1>1
  <2>4. Tail(c) = t
    BY <2>1, <2>3, <1>1, HeadTailProperties, SeqEqual
  <2> QED BY <2>4 DEF c
<1> QED BY <1>2, <1>3, <1>4, <1>6, <1>7

(* Every behaviour of the ring is a behaviour of the queue: flits leave    *)
(* noc_router_eject_flit and the ST stage in the order                     *)
(* noc_router_inject_flit took them, none lost, duplicated or overwritten. *)
THEOREM RingImplementsQueue == RingSpec => ImplementsQueue
<1>1. RingInit => Queue!Init
  BY EmptyContents DEF RingInit, Queue!Init
<1>2. RingInv /\ [RingNext]_ringVars => [Queue!Next]_Queue!vars
  <2> SUFFICES ASSUME RingInv, [RingNext]_ringVars PROVE [Queue!Next]_Queue!vars
    OBVIOUS
  <2>1. ASSUME NEW f \in Flits, Push(f) PROVE Queue!Put(f)
    <3>1. Len(Contents) < Depth /\ out' = out
      BY <2>1, ContentsSeq DEF Push, FreeSlot
    <3> QED BY <2>1, <3>1, PushAppends DEF Queue!Put
  <2>2. ASSUME Pop PROVE Queue!Take
    BY <2>2, PopTakes DEF Queue!Take
  <2>3. ASSUME RingReset PROVE Queue!Clear
    BY <2>3, EmptyContents DEF RingReset, Queue!Clear, Contents
  <2>4. CASE UNCHANGED ringVars
    BY <2>4 DEF ringVars, Queue!vars, Contents
  <2> QED BY <2>1, <2>2, <2>3, <2>4 DEF RingNext, Queue!Next
<1>3. RingInit => RingInv
  BY RingInitInv
<1>4. RingInv /\ [RingNext]_ringVars => RingInv'
  BY RingStepInv
<1> QED BY <1>1, <1>2, <1>3, <1>4, PTL DEF RingSpec, ImplementsQueue, Queue!Spec
-----------------------------------------------------------------------------
(* Flow control. *)
(* What the credit properties rest on: the counters are numbers, and a     *)
(* channel never holds more credits than its ceiling.                      *)
CreditInv ==
  /\ available \in [Channels -> Nat] /\ ceiling \in [Channels -> Nat]
  /\ sent \in [Channels -> Nat] /\ returned \in [Channels -> Nat]
  /\ \A c \in Channels : available[c] <= ceiling[c]
  /\ CreditsConserved

(* For every set of channels, every number of credits and every bound on   *)
(* the counters: credits are conserved and the receiver's buffer is never  *)
(* over-run.                                                               *)
THEOREM CreditsSafe == FlowSpec => []CreditsConserved
<1> USE FlowAssumption
<1>1. FlowInit => CreditInv
  BY DEF FlowInit, CreditInv, CreditsConserved, Initialised, Zero
<1>2. CreditInv /\ [FlowNext]_flowVars => CreditInv'
  <2> SUFFICES ASSUME CreditInv, [FlowNext]_flowVars PROVE CreditInv'
    OBVIOUS
  <2> USE DEF CreditInv, CreditsConserved
  <2>1. ASSUME NEW c \in Channels, Send(c) PROVE CreditInv'
    BY <2>1 DEF Send, CanSend
  <2>2. ASSUME NEW c \in Channels, Stall(c) PROVE CreditInv'
    BY <2>2 DEF Stall
  <2>3. ASSUME NEW c \in Channels, GiveBack(c) PROVE CreditInv'
    BY <2>3 DEF GiveBack, MayReturn
  <2>4. ASSUME NEW n \in Lengths, StartPacket(n) PROVE CreditInv'
    BY <2>4 DEF StartPacket, channelVars
  <2>5. ASSUME NEW i \in DOMAIN packets, FlitSent(i) PROVE CreditInv'
    BY <2>5 DEF FlitSent, channelVars
  <2>6. CASE FlowReset
    <3>1. ceiling[First] \in Nat
      OBVIOUS
    <3> QED BY <2>6, <3>1 DEF FlowReset, Initialised, Zero
  <2>7. CASE UNCHANGED flowVars
    BY <2>7 DEF flowVars, channelVars
  <2> QED BY <2>1, <2>2, <2>3, <2>4, <2>5, <2>6, <2>7 DEF FlowNext
<1>3. CreditInv => CreditsConserved
  BY DEF CreditInv
<1> QED BY <1>1, <1>2, <1>3, PTL DEF FlowSpec
-----------------------------------------------------------------------------
(* Packets.                                                                *)
Finished(ps) == {i \in DOMAIN ps : ps[i].state = "done"}

PacketRecords == [flits : Lengths, sent : Nat, state : {"waiting", "transmitting", "done"}]

(* A packet under way has flits left, and a complete one has none.         *)
PacketInv ==
  /\ packets \in Seq(PacketRecords)
  /\ \A i \in DOMAIN packets :
       /\ packets[i].sent <= packets[i].flits
       /\ (packets[i].state = "done") <=> (packets[i].sent = packets[i].flits)
  /\ completed = Cardinality(Finished(packets))

LEMMA FinishedFinite ==
  ASSUME NEW S, NEW ps \in Seq(S)
  PROVE  IsFiniteSet(Finished(ps)) /\ Cardinality(Finished(ps)) \in Nat
<1>1. IsFiniteSet(1 .. Len(ps))
  BY FS_Interval
<1>2. Finished(ps) \in SUBSET (1 .. Len(ps))
  BY DEF Finished
<1> QED BY <1>1, <1>2, FS_Subset, FS_CardinalityType

LEMMA PacketStep == PacketInv /\ [FlowNext]_flowVars => PacketInv'
<1> SUFFICES ASSUME PacketInv, [FlowNext]_flowVars PROVE PacketInv'
  OBVIOUS
<1>0. packets \in Seq(PacketRecords) /\ Len(packets) \in Nat /\ DOMAIN packets = 1 .. Len(packets)
  BY DEF PacketInv
<1>1. ASSUME UNCHANGED packetVars PROVE PacketInv'
  BY <1>1 DEF PacketInv, packetVars
<1>2. ASSUME NEW n \in Lengths, StartPacket(n) PROVE PacketInv'
  <2> DEFINE p == [flits |-> n, sent |-> 0, state |-> "waiting"]
  <2>1. p \in PacketRecords /\ n \in Nat /\ n # 0
    BY FlowAssumption DEF PacketRecords
  <2>2. packets' = Append(packets, p) /\ completed' = completed
    BY <1>2 DEF StartPacket
  <2>3. /\ packets' \in Seq(PacketRecords) /\ DOMAIN packets' = 1 .. Len(packets) + 1
        /\ \A i \in DOMAIN packets : packets'[i] = packets[i]
        /\ packets'[Len(packets) + 1] = p
    BY <1>0, <2>1, <2>2
  <2>4. Finished(packets') = Finished(packets)
    BY <1>0, <2>3 DEF Finished
  <2>5. \A i \in DOMAIN packets' :
          /\ packets'[i].sent <= packets'[i].flits
          /\ (packets'[i].state = "done") <=> (packets'[i].sent = packets'[i].flits)
    BY <1>0, <2>1, <2>3 DEF PacketInv
  <2> QED BY <2>2, <2>3, <2>4, <2>5 DEF PacketInv
<1>3. ASSUME NEW i \in DOMAIN packets, FlitSent(i) PROVE PacketInv'
  <2> DEFINE p == packets[i]
             st == IF Done(p) THEN "done" ELSE "transmitting"
             q == [flits |-> p.flits, sent |-> p.sent + 1, state |-> st]
  <2>1. p \in PacketRecords /\ p.state # "done" /\ p.sent <= p.flits /\ p.sent # p.flits
    BY <1>0, <1>3 DEF FlitSent, PacketInv
  <2>2. p.flits \in Nat /\ p.sent \in Nat
    BY <2>1, FlowAssumption DEF PacketRecords
  <2>3. packets' = [packets EXCEPT ![i] = q]
        /\ completed' = IF Done(p) THEN completed + 1 ELSE completed
    BY <1>3 DEF FlitSent
  <2>4. /\ q \in PacketRecords /\ q.sent = p.sent + 1 /\ q.flits = p.flits
        /\ q.state = st
    <3>1. st \in {"done", "transmitting"}
      OBVIOUS
    <3>2. p.flits \in Lengths
      BY <2>1 DEF PacketRecords
    <3> HIDE DEF st, p
    <3> QED BY <2>2, <3>1, <3>2 DEF PacketRecords
  <2>5. q.sent <= q.flits /\ (q.state = "done" <=> q.sent = q.flits)
    BY <2>1, <2>2, <2>4 DEF Done
  <2> HIDE DEF q
  <2>6. /\ packets' \in Seq(PacketRecords) /\ DOMAIN packets' = DOMAIN packets
        /\ packets'[i] = q /\ \A j \in DOMAIN packets \ {i} : packets'[j] = packets[j]
    BY <1>0, <2>3, <2>4
  <2>7. \A j \in DOMAIN packets' :
          /\ packets'[j].sent <= packets'[j].flits
          /\ (packets'[j].state = "done") <=> (packets'[j].sent = packets'[j].flits)
    BY <2>5, <2>6 DEF PacketInv
  <2>8. completed' = Cardinality(Finished(packets'))
    <3>1. i \notin Finished(packets)
      BY <2>1 DEF Finished
    <3>2. CASE Done(p)
      <4>1. Finished(packets') = Finished(packets) \cup {i}
        BY <2>4, <2>6, <3>2 DEF Finished
      <4> QED BY <1>0, <2>3, <3>1, <3>2, <4>1, FinishedFinite, FS_AddElement DEF PacketInv
    <3>3. CASE ~ Done(p)
      <4>1. Finished(packets') = Finished(packets)
        BY <2>1, <2>4, <2>6, <3>3 DEF Finished
      <4> QED BY <2>3, <3>3, <4>1 DEF PacketInv
    <3> QED BY <3>2, <3>3
  <2> QED BY <2>6, <2>7, <2>8 DEF PacketInv
<1>4. CASE FlowReset
  <2>1. packets' = <<>> /\ completed' = 0
    BY <1>4 DEF FlowReset
  <2>2. Finished(packets') = {}
    BY <2>1 DEF Finished
  <2>3. packets' \in Seq(PacketRecords) /\ DOMAIN packets' = {}
    BY <2>1
  <2>4. completed' = Cardinality(Finished(packets'))
    BY <2>1, <2>2, FS_EmptySet
  <2> QED BY <2>3, <2>4 DEF PacketInv
<1> QED BY <1>1, <1>2, <1>3, <1>4
        DEF FlowNext, Send, Stall, GiveBack, flowVars, packetVars

(* For every table of packets and all lengths: packets_completed counts    *)
(* each complete packet once, and a packet is complete exactly when all    *)
(* its flits were reported to noc_fc_flit_sent.                            *)
THEOREM PacketsSafe == FlowSpec => []CompletedOnce
<1>1. FlowInit => PacketInv
  <2> SUFFICES ASSUME FlowInit PROVE PacketInv
    OBVIOUS
  <2>1. packets = <<>> /\ completed = 0
    BY DEF FlowInit
  <2>2. Finished(packets) = {}
    BY <2>1 DEF Finished
  <2> QED BY <2>1, <2>2, FS_EmptySet DEF PacketInv
<1>2. PacketInv /\ [FlowNext]_flowVars => PacketInv'
  BY PacketStep
<1>3. PacketInv => CompletedOnce
  BY DEF PacketInv, CompletedOnce, Finished
<1> QED BY <1>1, <1>2, <1>3, PTL DEF FlowSpec
-----------------------------------------------------------------------------
(* The pool.                                                               *)
PoolRoom == NotNegative(PerVcMax)
HeldBy(a) == {s \in VCs \X (1 .. TotalSlots) : s[2] <= a[s[1]]}
Column(v, m, n) == {v} \X (m .. n)

LEMMA PoolNumbers ==
  /\ TotalSlots \in Nat /\ PerVcMin \in Nat /\ IsFiniteSet(VCs)
  /\ Cardinality(VCs) \in Nat \ {0}
  /\ PerVcMax \in Int /\ PoolRoom \in 0 .. TotalSlots
<1>1. Cardinality(VCs) \in Nat \ {0}
  BY PoolAssumption, FS_CardinalityType, FS_EmptySet
<1>2. (Cardinality(VCs) - 1) * PerVcMin \in Nat
  BY <1>1, PoolAssumption
<1> QED BY <1>1, <1>2, PoolAssumption DEF PerVcMax, NotNegative, PoolRoom

LEMMA ColumnSize ==
  ASSUME NEW v, NEW m \in Nat, NEW n \in Nat, m <= n + 1
  PROVE  IsFiniteSet(Column(v, m, n)) /\ Cardinality(Column(v, m, n)) = n - m + 1
<1>1. IsFiniteSet({v}) /\ Cardinality({v}) = 1
  BY FS_Singleton
<1>2. IsFiniteSet(m .. n) /\ Cardinality(m .. n) = n - m + 1
  BY FS_Interval
<1> QED BY <1>1, <1>2, FS_Product DEF Column

LEMMA HeldFinite ==
  ASSUME NEW a PROVE IsFiniteSet(HeldBy(a)) /\ Cardinality(HeldBy(a)) \in Nat
<1>1. IsFiniteSet(1 .. TotalSlots) /\ IsFiniteSet(VCs)
  BY PoolNumbers, FS_Interval
<1>2. IsFiniteSet(VCs \X (1 .. TotalSlots))
  BY <1>1, FS_Product
<1>3. HeldBy(a) \in SUBSET (VCs \X (1 .. TotalSlots))
  BY DEF HeldBy
<1> QED BY <1>2, <1>3, FS_Subset, FS_CardinalityType

(* A channel that grows by k slots adds k to what is held. *)
LEMMA HeldGrows ==
  ASSUME NEW a \in [VCs -> 0 .. TotalSlots], NEW v \in VCs,
         NEW n \in 0 .. TotalSlots, a[v] <= n
  PROVE  Cardinality(HeldBy([a EXCEPT ![v] = n])) = Cardinality(HeldBy(a)) + (n - a[v])
<1> DEFINE b == [a EXCEPT ![v] = n]
           new == Column(v, a[v] + 1, n)
<1>0. a[v] \in 0 .. TotalSlots /\ TotalSlots \in Nat
  BY PoolNumbers
<1>1. b[v] = n /\ \A w \in VCs \ {v} : b[w] = a[w]
  OBVIOUS
<1>2. HeldBy(b) = HeldBy(a) \cup new
  <2> HIDE DEF b
  <2> QED BY <1>0, <1>1 DEF HeldBy, Column
<1>3. HeldBy(a) \cap new = {}
  BY <1>0 DEF HeldBy, Column
<1>4. IsFiniteSet(new) /\ Cardinality(new) = n - a[v]
  BY <1>0, ColumnSize
<1> HIDE DEF new, b
<1>5. Cardinality(HeldBy(a) \cup new) = Cardinality(HeldBy(a)) + Cardinality(new) - Cardinality({})
  BY <1>3, <1>4, HeldFinite, FS_Union
<1>6. Cardinality(HeldBy(b)) = Cardinality(HeldBy(a)) + (n - a[v])
  BY <1>0, <1>2, <1>4, <1>5, HeldFinite, FS_EmptySet
<1> QED BY <1>6 DEF b

PoolInv == PoolTypeOK /\ UsedIsWhatChannelsHold /\ WithinCeiling

LEMMA PoolStep == PoolInv /\ [PoolNext]_poolVars => PoolInv'
<1> SUFFICES ASSUME PoolInv, [PoolNext]_poolVars PROVE PoolInv'
  OBVIOUS
<1>0. /\ TotalSlots \in Nat /\ PerVcMax \in Int /\ PoolRoom \in 0 .. TotalSlots
      /\ allocated \in [VCs -> 0 .. TotalSlots] /\ used \in 0 .. TotalSlots
      /\ used = Cardinality(HeldBy(allocated))
      /\ \A v \in VCs : allocated[v] <= PoolRoom
  BY PoolNumbers DEF PoolInv, PoolTypeOK, WithinCeiling, UsedIsWhatChannelsHold, SlotsHeld, HeldBy, PoolRoom
<1> SUFFICES /\ allocated' \in [VCs -> 0 .. TotalSlots] /\ used' \in 0 .. TotalSlots
             /\ used' = Cardinality(HeldBy(allocated'))
             /\ \A v \in VCs : allocated'[v] <= PoolRoom
  BY DEF PoolInv, PoolTypeOK, WithinCeiling, UsedIsWhatChannelsHold, SlotsHeld, HeldBy, PoolRoom
<1>1. ASSUME NEW v \in VCs, NEW k \in Requests, Alloc(v, k)
      PROVE  /\ allocated' \in [VCs -> 0 .. TotalSlots] /\ used' \in 0 .. TotalSlots
             /\ used' = Cardinality(HeldBy(allocated'))
             /\ \A w \in VCs : allocated'[w] <= PoolRoom
  <2>1. k \in Nat /\ allocated[v] \in 0 .. TotalSlots /\ allocated[v] <= PoolRoom
    BY <1>0, PoolAssumption
  <2>2. Grant(v, k) \in Nat /\ used + Grant(v, k) <= TotalSlots
        /\ allocated[v] + Grant(v, k) <= PoolRoom
    BY <1>0, <2>1 DEF Grant, Least, NotNegative, Available, PoolRoom
  <2> DEFINE n == allocated[v] + Grant(v, k)
  <2>3. n \in 0 .. TotalSlots /\ allocated[v] <= n /\ n <= PoolRoom
    BY <1>0, <2>1, <2>2
  <2>4. allocated' = [allocated EXCEPT ![v] = n] /\ used' = used + Grant(v, k)
    BY <1>1 DEF Alloc
  <2>5. n - allocated[v] = Grant(v, k)
    BY <2>1, <2>2
  <2> HIDE DEF n
  <2>6. used' = Cardinality(HeldBy(allocated'))
    BY <1>0, <2>3, <2>4, <2>5, HeldGrows
  <2> QED BY <1>0, <2>2, <2>3, <2>4, <2>6
<1>2. ASSUME NEW v \in VCs, NEW k \in Requests, Free(v, k)
      PROVE  /\ allocated' \in [VCs -> 0 .. TotalSlots] /\ used' \in 0 .. TotalSlots
             /\ used' = Cardinality(HeldBy(allocated'))
             /\ \A w \in VCs : allocated'[w] <= PoolRoom
  <2>1. k \in Nat /\ allocated[v] \in 0 .. TotalSlots /\ allocated[v] <= PoolRoom
    BY <1>0, PoolAssumption
  <2>2. Returned(v, k) \in 0 .. allocated[v]
    BY <2>1 DEF Returned, Least
  <2> DEFINE n == allocated[v] - Returned(v, k)
             a == [allocated EXCEPT ![v] = n]
  <2>3. n \in 0 .. TotalSlots /\ n <= allocated[v] /\ n <= PoolRoom /\ allocated[v] - n = Returned(v, k)
    BY <1>0, <2>1, <2>2
  <2>4. allocated' = a /\ used' = NotNegative(used - Returned(v, k))
    BY <1>2 DEF Free
  <2> HIDE DEF n
  <2>5. a \in [VCs -> 0 .. TotalSlots] /\ a[v] = n /\ allocated = [a EXCEPT ![v] = allocated[v]]
    BY <1>0, <2>3
  <2> HIDE DEF a
  <2>6. used = Cardinality(HeldBy(a)) + (allocated[v] - n)
    BY <1>0, <2>1, <2>3, <2>5, HeldGrows
  <2>7. used' = Cardinality(HeldBy(a)) /\ used' \in 0 .. TotalSlots
    BY <1>0, <2>1, <2>2, <2>3, <2>4, <2>6, HeldFinite DEF NotNegative
  <2>8. \A w \in VCs : a[w] <= PoolRoom
    BY <1>0, <2>3 DEF a
  <2> QED BY <2>4, <2>5, <2>7, <2>8
<1>3. CASE UNCHANGED poolVars
  BY <1>0, <1>3 DEF poolVars
<1> QED BY <1>1, <1>2, <1>3 DEF PoolNext

(* What the books and the ceilings buy: everybody but one greedy channel   *)
(* can be brought up to the minimum, because the others hold at most a     *)
(* minimum each and the greedy one at most its ceiling.                    *)
LEMMA MinimumLemma == PoolInv => MinimumDespiteOneGreedy
<1> SUFFICES ASSUME PoolInv, PerVcMin <= PerVcMax, NEW g \in VCs,
                    \A w \in VCs \ {g} : allocated[w] <= PerVcMin,
                    NEW v \in VCs \ {g}
             PROVE  PerVcMin - allocated[v] <= Available
  BY DEF MinimumDespiteOneGreedy
<1> DEFINE others == VCs \ {g, v}
           top == Column(g, 1, allocated[g]) \cup Column(v, 1, allocated[v])
           rest == others \X (1 .. PerVcMin)
<1>0. /\ TotalSlots \in Nat /\ PerVcMin \in Nat /\ PerVcMax \in Nat
      /\ allocated \in [VCs -> 0 .. TotalSlots] /\ used \in Nat
      /\ used = Cardinality(HeldBy(allocated)) /\ allocated[g] <= PerVcMax
  BY PoolNumbers DEF PoolInv, PoolTypeOK, WithinCeiling, UsedIsWhatChannelsHold, SlotsHeld, HeldBy, NotNegative
<1>1. IsFiniteSet(others) /\ Cardinality(others) \in Nat /\ Cardinality(VCs) = Cardinality(others) + 2
  <2>1. IsFiniteSet(VCs \ {g}) /\ Cardinality(VCs \ {g}) = Cardinality(VCs) - 1
    BY PoolNumbers, FS_RemoveElement
  <2>2. others = (VCs \ {g}) \ {v}
    OBVIOUS
  <2>3. IsFiniteSet(others) /\ Cardinality(others) = Cardinality(VCs \ {g}) - 1
    BY <2>1, <2>2, FS_RemoveElement
  <2> QED BY <2>1, <2>3, PoolNumbers, FS_CardinalityType
<1>2. IsFiniteSet(top) /\ Cardinality(top) = allocated[g] + allocated[v]
  <2>1. allocated[g] \in Nat /\ allocated[v] \in Nat
    BY <1>0
  <2>2. /\ IsFiniteSet(Column(g, 1, allocated[g])) /\ IsFiniteSet(Column(v, 1, allocated[v]))
        /\ Cardinality(Column(g, 1, allocated[g])) = allocated[g]
        /\ Cardinality(Column(v, 1, allocated[v])) = allocated[v]
    BY <2>1, ColumnSize
  <2>3. Column(g, 1, allocated[g]) \cap Column(v, 1, allocated[v]) = {}
    BY DEF Column
  <2> DEFINE cg == Column(g, 1, allocated[g])
             cv == Column(v, 1, allocated[v])
  <2> HIDE DEF cg, cv
  <2>4. IsFiniteSet(cg \cup cv) /\ Cardinality(cg \cup cv) = Cardinality(cg) + Cardinality(cv) - Cardinality({})
    BY <2>2, <2>3, FS_Union DEF cg, cv
  <2>5. Cardinality(cg) = allocated[g] /\ Cardinality(cv) = allocated[v]
    BY <2>2 DEF cg, cv
  <2>6. IsFiniteSet(cg \cup cv) /\ Cardinality(cg \cup cv) = allocated[g] + allocated[v]
    BY <2>1, <2>4, <2>5, FS_EmptySet
  <2> QED BY <2>6 DEF cg, cv
<1>3. IsFiniteSet(rest) /\ Cardinality(rest) = Cardinality(others) * PerVcMin
  <2>1. IsFiniteSet(1 .. PerVcMin) /\ Cardinality(1 .. PerVcMin) = PerVcMin
    BY <1>0, FS_Interval
  <2> QED BY <1>1, <2>1, FS_Product
<1>4. HeldBy(allocated) \in SUBSET (top \cup rest)
  <2> SUFFICES ASSUME NEW s \in HeldBy(allocated) PROVE s \in top \cup rest
    OBVIOUS
  <2>1. s \in VCs \X (1 .. TotalSlots) /\ s[2] <= allocated[s[1]]
    BY DEF HeldBy
  <2>2. s = <<s[1], s[2]>> /\ s[1] \in VCs /\ s[2] \in Nat /\ 1 <= s[2]
    BY <2>1
  <2>3. CASE s[1] \in {g, v}
    BY <1>0, <2>1, <2>2, <2>3 DEF Column
  <2>4. CASE s[1] \in others
    BY <1>0, <2>1, <2>2, <2>4
  <2> QED BY <2>2, <2>3, <2>4
<1> DEFINE k == Cardinality(others) * PerVcMin
<1>5. k \in Nat /\ PerVcMax = TotalSlots - (k + PerVcMin)
  <2>1. Cardinality(VCs) - 1 = Cardinality(others) + 1
    BY <1>1
  <2>2. (Cardinality(others) + 1) * PerVcMin = k + PerVcMin
    BY <1>0, <1>1
  <2> QED BY <1>0, <1>1, <2>1, <2>2 DEF PerVcMax
<1> HIDE DEF top, rest, others, k
<1>6. used <= allocated[g] + allocated[v] + k
  <2>1. IsFiniteSet(top \cup rest)
        /\ Cardinality(top \cup rest) = Cardinality(top) + Cardinality(rest) - Cardinality(top \cap rest)
    BY <1>2, <1>3, FS_Union
  <2>2. Cardinality(top \cap rest) \in Nat
    BY <1>2, FS_Intersection, FS_CardinalityType
  <2>3. used <= Cardinality(top \cup rest)
    BY <1>0, <1>4, <2>1, FS_Subset
  <2>4. allocated[g] \in Nat /\ allocated[v] \in Nat
    BY <1>0
  <2>5. Cardinality(top) = allocated[g] + allocated[v] /\ Cardinality(rest) = k
    BY <1>2, <1>3 DEF k
  <2> QED BY <1>0, <1>5, <2>1, <2>2, <2>3, <2>4, <2>5
<1> QED BY <1>0, <1>5, <1>6 DEF Available

(* For every pool, number of channels and minimum: noc_buffer_pool_alloc   *)
(* and _free keep used_slots equal to what the channels hold, no channel   *)
(* passes per_vc_max, and one greedy channel alone cannot take another's   *)
(* per_vc_min.                                                             *)
THEOREM PoolSafe == PoolSpec => [](PoolTypeOK /\ PoolSound)
<1>1. PoolInit => PoolInv
  <2> SUFFICES ASSUME PoolInit PROVE PoolInv
    OBVIOUS
  <2>1. SlotsHeld = {}
    BY PoolNumbers DEF PoolInit, SlotsHeld
  <2> QED BY <2>1, PoolNumbers, FS_EmptySet
      DEF PoolInit, PoolInv, PoolTypeOK, UsedIsWhatChannelsHold, WithinCeiling, PoolRoom
<1>2. PoolInv /\ [PoolNext]_poolVars => PoolInv'
  BY PoolStep
<1>3. PoolInv => PoolTypeOK /\ PoolSound
  BY MinimumLemma DEF PoolInv, PoolSound
<1> QED BY <1>1, <1>2, <1>3, PTL DEF PoolSpec
=============================================================================
